# A verification project for the anan video toolbox

The toolbox is a desktop program (Wails, Go) and an API server ("the 8001
gateway", Go) that make images and videos with a pool of Leonardo accounts and
with an Adobe sidecar. A person imports browser sessions; the two programs keep
those sessions alive, choose an account for each request, pay a generation with
it, wait for the result and remember it. Both are OS processes of their own and
share one SQLite database and one JSON file of browser workspaces; they share no
Go memory.

This directory holds TLA+ modules of that core, the TLC configurations that
check them on small instances, and TLAPS proofs of what matters most for every
size. File names below are relative to the repository; `session_manager.go` and
the like live under `internal/`, in `service`, `store`, `server`, `leonardo`,
`adobe` and `desktop`.

## 1. Inventory

| part | state | operations | talks to |
|---|---|---|---|
| **Session manager** (`session_manager.go`, `leonardo/session.go`) | a mutex per account (one per process), JWT and browser cookie in the account row | resolve a JWT: use the cached one, or take the lease, call get-session, store the outcome; record failures; report a JWT that GraphQL rejected | account row, refresh lease, Leonardo |
| **Refresh lease** (`store/cookies.go:356-382`) | `refresh_lease_owner`, `refresh_lease_until` | take over when free, ended or one's own; release one's own | the clock, both processes |
| **Account row** (`store/cookies.go`) | cookie, JWT, account id, status, enabled flag, reason, failure count, cooldown | some twenty UPDATE statements, each atomic | every part |
| **Sweeps and checks** (`refresh.go`, `cmd/server/main.go:58-131`) | a listing of the accounts, then nothing between statements | refresh profiles; refresh sessions; recover disabled accounts; refresh before expiry | session manager, row, Leonardo |
| **Account import and merge** (`cookies.go:44-301`, `pool.go:848-1084`) | the table of rows | import, edit, delete, merge duplicates | Leonardo, rows |
| **Browser workspaces** (`workspaces_windows.go`, `desktop/app.go:398-620`) | `workspaces.json`, Chrome profiles, the two programs' copies of the file | launch, bind, import, list, remove; the server's recovery | Chrome, import, the file |
| **Generation calls** (`pool.go`, `video.go`, `leonardo/operations.go`, `leonardo/video.go`) | local: the accounts left, the attempt, the generation id | visit accounts until one delivers: session, profile, upload, submit, poll, log | session manager, log, Leonardo |
| **Generation log and library sync** (`store/settings.go`, `library.go`, `generation_reuse.go`) | rows with generation id, request id (in the metadata), status, hidden flag | add, find by request id, hide, import and overwrite from Leonardo's library, record saved files | calls (server), sync (desktop) |
| **Video task table** (`server.go`) | in memory: tasks, an index by client request id, one lock | create or find a task, run it, poll it, forget old ones | log, generation calls |
| **Adobe gateway** (`server/adobe.go`, `adobe_models.go`, `adobe/client.go`) | a second job table and index, the cached model list | create, run, poll; images while the client waits; read the models | the sidecar, the log |
| **Adobe sidecar manager** (`adobe/manager_windows.go`) | a child process, a port, `sidecar.pid` | start, probe, restart | the OS |
| **Gateway restart** (`desktop/app.go:130-195`, `leonardo_gateway_windows.go`) | port 8001, the status page | ask for active tasks, kill, start | the server |
| **Model catalogs** (`video_models.go`, `adobe_models.go`) | tables, the sidecar's list | advertise; pick the closest model, resolution, ratio, duration | requests |
| Image models, saved files, upload, HTTP client, the rest of the bridge, other sidecars, configuration, user interface, scripts, vendored code | - | one-statement edits, I/O, formats and views | - |

How they interact. A request reaches a task table of the server (or, for images,
the call itself); the table's goroutine runs a generation call, or calls the
sidecar; a generation call asks the session manager for a JWT per account, and
reports back what Leonardo made of it; the outcome goes to the log. Beside it run
the server's sweeps (a timer of ten seconds, then every minute), which import
from a browser workspace when a session cannot be renewed, and, in the desktop
process, what a person clicks: import, edit, delete, refresh, enable, disable,
launch a browser, sync the library, delete a material, restart the sidecar or the
server. All of these touch the same rows and the same file, step by step.

Hard behaviours, per part, and what makes the part correct:

* **Session manager.** Leonardo rotates the browser cookie with each
  get-session, so two refreshes at a time lose the login. Callers are
  goroutines of two processes, either may die at any step, and the browser may
  be logged in as somebody else by now. Correct: one refresh at a time; the
  rotated cookie kept even when the refresh fails; only the bound user's JWTs;
  an account disabled only after two authentication failures in a row and never
  while its JWT works; every call returns.
* **Lease.** The clock is read before a statement that SQLite may hold up for
  30 s, and the request takes up to 60 s of a 90 s lease. Correct: no overlap
  of requests; a late release does not end the successor's lease.
* **Sweeps, checks, generations on one row.** Each flow lists the row once and
  writes columns for minutes afterwards, while others do the same. Correct: no
  generation on another user's account; no account enabled that every scheduler
  skips; no network error turned into a dead account.
* **Import and merge.** A browser session is switched from one account to
  another; an import asks Leonardo whose it is, and then writes in several
  statements beside other imports, edits, merges and deletions of two processes.
  Correct: a row never holds another account's cookie or JWT; an account has one
  row; it disappears only when the user deletes it; an import makes it work.
* **Browser workspaces.** The whole file is read, changed after up to twelve
  seconds, and written, without a lock, beside rows that no transaction ties to
  it. Correct: one workspace per account; only the workspaces of deleted accounts
  go; an import into a bound workspace touches its own account.
* **Generation calls.** Submissions cost money and answers get lost or come
  late. Correct: no second submission while the first may still deliver; every
  call ends.
* **Log and sync.** The sync overwrites rows that calls have written. Correct:
  what was delivered stays a success; a repeated request finds its result.
* **Task tables.** Lookup, log query and insertion are not one critical section;
  a table forgets, the process is restarted, the sidecar dies under a call.
  Correct: an id leads to its own task, no running task is forgotten, a failure
  can be repeated, a repeated request is not paid twice, and a restart asks first.
* **Sidecar.** Health, port and a pid file say different things about a process
  that starts, hangs and ends by itself. Correct: a restart can always kill what
  holds the port.
* **Catalogs.** Correct: what is advertised can be submitted, and what is
  submitted is the nearest to what was asked.

`PROJECT.json` lists every hazard at its line, with the properties that cover it
or the reason why none does.

## 2. Modules

```
 GetSessionGate <--implements-- RefreshLease       (clock, one call per process)
       ^                            | justifies the untimed lease of
       +-------implements------ SessionManager --EXTENDS--> AccountRow
                                    ^                           ^
                                    | EXTENDS                   | EXTENDS
                               AccountFlows                 AccountPool
                       (what callers do around it)    (many rows: import, merge)
                                                                ^
                                                                | EXTENDS, and
                                                                | implements
                                                            Workspaces

 PaidRequests <--implements-- VideoTasks

 VideoTasks (its "run a task" is a call of) Generation (its "session" is a
                                                        visit in AccountFlows)

 AdobeJobs, Sidecar <--EXTENDS-- Gateway        (composition, with the desktop)
 AdobeModels, VideoCatalog <--EXTENDS-- Catalogs
```

| module | models | state | actions |
|---|---|---|---|
| `GetSessionGate` | what the lease promises: at most one get-session request | `inside` | `Enter`, `Leave` |
| `RefreshLease` | lease columns, readings of the clock, time limits | `now`, `until`, `owner`, and per process `pc`, `sample` (the clock when it was read for the UPDATE), `since` | one per statement; `Abandon` is a crash or a failed release; `Tick` |
| `AccountRow` | the columns that decide anything, and each UPDATE as an operator from row to row | - | - |
| `SessionManager` | `resolveTokenForCookieAttempt` and `recordSessionRefreshFailure`, for the callers of two processes | `row`, `lease`, `mutex`, per caller its copy of the row, the answer, the result; for each JWT its age and user | `Lock`, `Load`, `TokenOnly`, `Acquire`, `Poll`, `Reacquire`, `FetchOk`, `FetchFails`, `Rotate`, `KeepWorkingToken`, `RecordFailure`, `Mark...`, `Save`, `Success`, `Unlock`; `Age`, `CoolDown`, `OrphanExpires`, `Crash` |
| `AccountFlows` | the four sweeps and the account side of a generation and of the library sync, statement by statement, and the enable switch | per caller its flow, statement and listing | `List`, `Call`, `Resolved`, `VerifyOk` ... `Complete`, `UserToggle` |
| `AccountPool` | `AddCookieValidated`, `RefreshBoundCookieValidated`, `UpdateCookieValidated`, `UpsertCookieAccount`, `DeleteCookie`, `MergeDuplicateCookieAccounts` | `rows` by id, `last` (AUTOINCREMENT), per call what it was given and where it is | `Add`, `Bound`, `Edit`; `Refuse`, `Insert`, `Upsert`; `Check`, `Write`, `BindProfile`; `Split`, `StoreToken`, `Enable`, `Leave`; `Delete`, `Merge` |
| `Workspaces` | every operation on `workspaces.json`, by the desktop and by the server's recovery, over the pool's rows | `file`, per call the copy it has read, `deleted` (history) | `Launch`/`LaunchSave`, `Import`, `ReadCookie`, `Bind`/`BindSave`, `DeleteCookie`, `Remove`/`Drop`, `ListSpaces`, `ListRows`, `Ensure`/`EnsureSave`, `Relist`, `Listed`, `Paste` |
| `Generation` | `Generate` and `GenerateVideo` over many accounts; Leonardo's generations; the log; `SyncLibrary`'s log side | `remote`, `rows`, per call its position, `sync` | `Receive`, `Find`, `Visit`, `Session`, `Create`, `Refuse`, `Poll...`, `...Timeout`, `Log`, `Crash`; `Finish`; `List`, `Select`, `Upsert`; `Hide` |
| `PaidRequests` | what the task table promises a client that waits for its answers: one payment at a time, and none for what is delivered | `underWay`, `delivered` | `Pay`, `Deliver`, `GiveUp`, `Lose`, `Crash` |
| `VideoTasks` | `handleCreateVideoTask`, the reuse branch of `handleGenerate`, `handleGenerateVideo`, `runVideoJob` | `table`, `job`, `index`, `stored`, per handler its position | `Receive`, `Lookup`, `Reuse`, `Insert`, `LookupImage`, `LookupWaiting`, `Wait`; `Start`, `Log`, `Complete`, `Fail`; `Lose`, `Restart` |
| `AdobeJobs` | `handleAdobeCreateVideoTask`, `runAdobeVideoJob`, the two image handlers, `loadAdobeModelVariants` | `catalog`, `table`, `job`, `index`, `stored`, per handler its position | `Receive`, `Refresh`, `Fetched`, `FetchFails`, `FetchEmpty`, `Look`, `Reuse`, `NotStored`, `Insert`, `Image...`; `Begin`, `Error`, `Answer`, `LogRow`; `Cut` (the sidecar ends under a call), `Forget` (the server ends) |
| `Sidecar` | `Start`, `Restart` of the Adobe manager, and the process they are about | `proc`, `pidfile`, per call its position | `CallStart`, `Healthy`, `PortFree`, `Spawn`, `Record`, `Started`, `GiveUp`; `CallRestart`, `Kill`, `Freed`; `ComeUp`, `Hang`, `Recover`, `End` |
| `Gateway` | both together, and the desktop's `RestartLeonardoService` | `leonardo` (a task of `VideoTasks`), `up`, `desk` | `Handle`, `Work`, `SidecarStep`, `CheckTasks`, `StopServer`, `StartServer`, `Restarted` |
| `AdobeModels`, `VideoCatalog` | `selectAdobeModelVariant` with its parsing and scoring; Leonardo's video models with `ResolveResolution`, `ResolveDimensions`, `ClampDuration` | - (operators) | - |
| `Catalogs` | a query of either catalogue and its outcome | `query`, `outcome` | `Submit` |
| `MC...` | rows to start from, who runs what, symmetry | | |
| `...Proofs` | the theorems of a module | | |

An action is what happens between two points at which another goroutine or
process can see or change something: one SQL statement, one transaction, one
critical section, one reading or writing of a file, one answer of Leonardo's or
of the sidecar's. Definitions named `<Definition>_<What>` are the bugs against
which the properties were tested ("mutants" in `PROJECT.json`): with one of them
in the place of its definition the named property fails.

Abstractions that matter:

* Cookies, JWTs and users are model values. A JWT is `fresh`, `late` (within the
  15-minute margin) or `expired`, and was minted for a user, which it may not
  say (`Opaque`). `error_until` is whether it is in the future. JWTs and
  cookies that nothing remembers are issued again, which keeps the models finite.
* SQL statements succeed, except where two statements in one transaction
  contend (`Contended`: SQLite refuses the write if another process wrote after
  the read) and where the UNIQUE constraint on the value refuses one
  (`AccountPool`, `Writable`). Errors of other statements are ignored by the
  code; they are left out.
* One account in `SessionManager` and `AccountFlows`: their shared state is per
  account. `AccountPool` has the table, with rows bound to an account from their
  import on; binding the unbound rows of early versions is in `AccountFlows`.
  `Generation` has several accounts, each "usable, rejected, passed over".
* The lease of `SessionManager` is untimed and not taken from a live holder.
  That is `RefreshLease`'s result, under the condition of section 5.
* What a browser is logged in as may change at any time: a workspace reads any
  member of `Pasted`, or nothing. How a pasted cURL command is split is left out,
  but not what follows when it holds no cookie, or a JWT about to expire.
* `Generation` treats a lost creation answer as a step (`Create` without an
  answer). `VideoTimeout` stands for the two-hour limit and for eight polls
  that find nothing. While it polls, a call is never told that its JWT was
  rejected: `waitForGenerationCompletion` swallows the error, so the branch
  `pool.go:285-288` cannot be reached and is not modelled.
* `VideoTasks` and `AdobeJobs` take prompt and model to be a function of the
  request id. A Leonardo task is only "under way or not" in `Gateway`.
* A save of `workspaces.json` that fails or is torn is left out, and so is a
  sidecar whose start fails before it is a process.

## 3. Runs

Run one with `tlc -workers 2 -config <run>.cfg <module>.tla`; each ends within
four minutes.

| run | question | bounds | distinct states |
|---|---|---|---|
| `SessionTwoProcesses` | Do callers of two processes, one of which may die anywhere, ever refresh together, store or return a foreign JWT, or disable an account whose failures were cleared in between? Do they implement the gate? | 2 callers, 2 users, 2 cookies, 2 JWTs | 1 200 115 |
| `SessionOneProcess` | Within a process: is a rotated cookie ever lost or an older one sent, or an account disabled while its JWT works? | 2 callers, 3 cookies, 3 JWTs; a bound row and a token-only row | 77 562 |
| `SessionLiveness` | Does every call return, with a dead lease holder and a slow process? | 2 callers, 1 cookie, 2 JWTs, one process crashes | 257 578 |
| `RefreshLease` | With the code's own limits, can two requests overlap, or a late release end a successor's lease? Does the lease implement the gate? | 90/60/30 s in units of 30 s, clock to 300 s | 63 176 |
| `FlowIdentity` | Is a generation submitted with another user's JWT, or an account called INVALID without a refusal, when generation and automatic sweeps mix? | 2 flows, 2 users, 2 JWTs, one without a claim | 2 692 169 |
| `FlowSweeps` | Can an account end up enabled and yet skipped by everything, when sweeps, manual refreshes, the library sync and the user's switch mix? | 2 flows of 5 kinds, 2 JWTs, switch at any time | 2 918 536 |
| `AccountPool` | Imports and edits of sessions that changed hands, beside deletions and merges: a foreign cookie or JWT in a row, a second row, a lost account, an import that does not work? | 2 calls, 2 accounts (one with two rows, one dead), 2 cookies, 2 JWTs, 4 ids, six things to paste | 1 783 884 |
| `Workspaces` | Two operations that overwrite the same file, over the same pool: two workspaces of an account, a removed login, another account's row written? | 2 calls, 2 accounts, 2 workspaces, 3 ids | 1 545 804 |
| `VideoClients` | Index, eviction, failure, restart: does an id lead to its own task, does a patient client pay once, as `PaidRequests` says? | 2 handlers, 2 ids and none, 4 tasks, capacity 2 | 1 181 479 |
| `Gateway` | Adobe jobs, sidecar and desktop together: does an id stick to a failure, can the sidecar always be killed, does a restart spare running jobs? And, per query, is the selected model the nearest one, and what is advertised submittable? | 2 handlers, 1 id, 2 jobs, capacity 1, 1 call of the manager, 2 processes; lists of up to three of ten variants, every Leonardo model, alias and mode | 488 402 |
| `GenerationCalls` | Does an image call pay again while an earlier generation may deliver? Does any call pay one account twice? Does what was delivered stay in the library under the sync? | image, video and anonymous requests, 2 accounts, 3 generations | 1 306 290 |
| `GenerationReuse` | Does every call end, and a repeated request find its result? (without the sync) | the same | 175 702 |

Why the bounds are enough for the question. Refresh, lease, row, file and table
conflicts are between two actors; a third would wait at the same guard as the
second. Two JWTs give "the stored one and a new one", a third lets two flows each
hold another; three cookies give "stored, sent, rotated since". `FailCap = 2` is
the limit at which the account is disabled, and higher counts do nothing else. In
`RefreshLease` the clock runs to 300 s: three leases in a row, each taken at the
last possible moment. In `AccountPool` an account starts with two rows, so that an
import merges; two more ids let it be deleted and come back, in both calls. One of
the sessions was switched from one account to the other. In `Workspaces` two
workspaces are enough for an account to get a second one, and for two calls to
overwrite each other. With four task ids and capacity two, and with two Adobe jobs
and capacity one, a table evicts repeatedly, with running, finished and reused
tasks in it. Three generations let one call exhaust both accounts and its second
attempts, or two calls follow each other. Members of a set that a run declares
symmetric are interchangeable in its module; the runs with liveness declare none.

`Gateway` checks two things in one run. `MCSpec` starts either the gateway or one
query of the catalogues (`query`): queries are independent of the gateway and of
each other, and such a behaviour has two states, the question and its outcome.

The other bounds in guards: `MaxId` (ids that AUTOINCREMENT gives), `IdsLeft`
(Adobe job ids), `Spaces` and `Pids` (what exists at a time). Requests without an
id, which the index never knows, are left out of `Gateway`.

Deadlock is checked unless a configuration says otherwise. `FlowIdentity` does:
an account that is depleted or invalid and that no flow of the run takes up again
rests. `Generation...`, `AccountPool` and `Workspaces` do: ids run out. `Gateway`
does: a query ends with its outcome.

## 4. Properties and fairness

Safety, besides type invariants: `RefreshSerialized`, `OwnAccountOnly`,
`RotationKept`, `FetchUsesNewest`, `GetSessionExclusive`, `NoForeignJob`,
`ActiveNotStuck`, `CredentialsMatch`, `OneRowPerAccount`, `ImportedNotStuck`,
`OneSpacePerAccount`, `RemovesDeletedOnly`, `IndexFaithful`, `RunningKept`,
`FailureRepeatable`, `ErrorRepeatable`, `SidecarKillable`, `DeliveredInLibrary`,
`OncePerAccount`, `SelectionFaithful`, `AdvertisedIsSubmitted`. What no step
may do: `InvalidConfirmed`, `WorkingJwtNotDisabled`, `ReleasesOwnLease`,
`InvalidOnlyIfRefused`, `AccountKept`, `BoundImportOwnRow`,
`RestartSpares`, `NoResubmission`, `ReuseStored`. Liveness: `CallReturns`,
`CallEnds`. Refinement: `GateSpec`, of both `SessionManager` and `RefreshLease`;
`PaymentSpec`, of `VideoTasks`; and, by proof, `PoolSpec` of `Workspaces` and
`GateSpec` of `AccountFlows`. Each is stated in words, with the
lines it is about, above its definition.

Some hold within limits that are worth knowing:

* `RotationKept` and `FetchUsesNewest` are checked for one process and one user.
  The cookie of an answer for another user is dropped on purpose. Across
  processes `FetchUsesNewest` does not hold, see section 6.
* `WorkingJwtNotDisabled` is about one process: across two, the JWT may be
  replaced by the other between the failure and the disabling.
* `InvalidOnlyIfRefused` is about the automatic sweeps; a manual session refresh
  breaks it, see section 6.
* `NoResubmission` speaks of generations whose id the call was told, and of image
  calls; `OncePerAccount` of the same generations, and of videos too. `ReuseStored`
  is about one request after another without the sync;
  equal requests at once are `VideoTasks`' subject.
* `PaymentSpec` is about clients that wait for the answer of the task endpoint
  before they repeat a request (`Patient`), and so are the two properties that
  follow from it, `OneTaskAtATime` and `PaidOnce`. What a server has
  forgotten by a restart is not under way any more for `PaidRequests` (`Crash`),
  and a result that is hidden or overwritten is paid for again (`Lose`).
* `FlowIdentity` starts from a row bound to its account and supposes that
  GetUserInfo names the user (`NamesUser`), see section 6.
* `ImportedNotStuck` is about rows with a JWT, `OneRowPerAccount` about rows that
  were not there when the pool starts: early versions made duplicates, and `Merge`
  is to remove them.
* `RemovesDeletedOnly` and `OneSpacePerAccount` do not say that a binding
  survives: unlocked saves lose it, see section 6.
* `SidecarKillable` supposes one call at a time and a process that comes up
  within the ten seconds of a start (`Prompt`); `RestartSpares` a status page
  that answers within two seconds (`StatusInTime`), at the moment it is asked.
* `SelectionFaithful` is about scores in thousandths, with rounded logarithms. Two
  distances that differ by less are ties here, and may not be in floating point.
  It is about lists of the kind that the ids have in the code's examples and tests
  (`WellListed`), and needs each part of that. A variant that states no ratio
  counts as having the right one, and one without a resolution as five points off,
  so either may go before the exact answer. 3:4 and 4:3 are equally far from 1:1,
  so that a family of images without a square one may advertise the one and choose
  the other. And an id that is also a family's name is selected by name, whatever
  the options. A request is one whose resolution and ratio have a known distance
  (`Measurable`).

Fairness. `SessionManager.FairSpec` has weak fairness of a caller's next step:
get-session has a 60 s limit (`leonardo/client.go:47`), SQLite a 30 s busy
timeout (`store.go:71`), the wait for the lease ends after 8 s. `Lock` has strong
fairness, because Go's mutex hands itself to a waiter that has been starved for
a millisecond. `Crash` and the end of an orphaned lease need none: a caller that
does not get the lease gives up. `Generation.FairSpec` has weak fairness of a
call's next step: every request and the polling have limits. Nothing is assumed
of Leonardo, users or the other process. The other modules state no
fairness: their properties are safety.

## 5. Proofs

Checked by TLAPS for every value of the constants that satisfies the named
assumptions. These say that the special values are not members of the sets they
are outside of, that sets which are counted are finite (`RowAssumption`,
`CallerAssumption`, `FlowAssumption`, `PoolAssumption`, `SpacesAssumption`,
`GenerationAssumption`, `TaskAssumption`, `AdobeAssumption`, `SidecarAssumption`,
`GatewayAssumption`), and, in `LeaseAssumption`, `DbWait + HttpTimeout <= LeaseTTL`,
which in the code is 30 + 60 <= 90. The lists, requests and durations of the
catalogues are any that are `WellListed`, `Measurable` and whole numbers
(`ListingsAssumption`, `WishesAssumption`, `SecondsAssumption`). TLC evaluates each
in a run.

| module | theorems | argument |
|---|---|---|
| `SessionManagerProofs` | `TypeCorrect`, `RefreshIsSerialized`, `SessionImplementsGate`, `InvalidIsConfirmed` | "One refresher" is not inductive: nothing in it says why a second caller cannot enter. `RefresherOwnsLease` does: whoever is between request and stored answer owns the lease, of which there is one. The gate follows, as entering and leaving the request change `inside` by one caller. For `InvalidIsConfirmed`, `OwnedOrTokenOnly` adds that also the caller about to disable owns the lease, and that the row still shows its two failures; a row that lives on a token alone has no lease, but no refresh either that could succeed in between. |
| | `OnlyOwnAccount` (`OneJwt`: a row to start from names one JWT) | `OwnTokens`: every JWT in the row or in a call's hands is of the row's account; `CopyOfAccount`: a call's copy of the row names the same account. |
| | `WorkingJwtStays` (`SingleProcess`) | `MutexHeld`, hence `LooksAtRowsJwt`: the JWT that a call has found useless is the row's. |
| | `RotationsKept`, `FetchesUseNewest` (`SingleProcess`, `SingleUser`, `NoCrash`) | `SendsNewest`: what a call has read is what the row holds until it stores something itself, and what it stores is the newest cookie. |
| | `CallsGetOn`, `LocksComeFree` | The part of `CallReturns` that needs no fairness. `Ahead` numbers the labels so that every step of a call leads to a lower one; it starts at eleven, and other steps lower it, by a crash, or leave it. `HeldInside`: whoever holds a mutex is a call of that process that has not unlocked it yet, so a waiting call waits for one that gets on. |
| `RefreshLeaseProofs` | `TypeCorrect`, `LeaseExcludes`, `LeaseCoversSaving`, `LateReleaseHarmless`, `LeaseImplementsGate` | `InsideLease`: a process in a covered phase owns the lease, and what remains of its limits ends before the lease does, counted from the reading of the clock before the UPDATE. `NotFree` then shows the UPDATE of another process changing nothing. |
| `AccountFlowsProofs` | `FlowTypeCorrect`, `ActiveIsUsable` | A statement leads only to statements past the session manager's call (`Late`), where `HoldsJwt` says that the flow has its JWT; `RowsAfter` lists what a statement may make of the row, and `StatementsKeep` that none of them makes it active and invalid. |
| | `JobsOnOwnAccount` (`NamesUser`, bound rows) | `OwnJwts`: the row stays bound to its account, a flow's listing names it, and past the comparison the JWT is of it. |
| | `InvalidNeedsRefusal` (`NoManualRefresh`, rows with a cookie) | `ReportsRefusal`: a flow that reports a rejection, and a call that counts an authentication failure, come after a refusal. |
| | `FlowsRefreshInTurn`, `FlowsImplementGate` | What `SessionManagerProofs` shows of a call's steps holds when flows make the calls: `RefresherOwnsLease` is carried through every statement of a flow, which writes the row and never a call's state or the lease. |
| | `FlowsOwnAccount` (`NamesUser`, `OneJwt`, bound rows) | `OwnTokens` and `CopyOfAccount` beside `OwnJwts`: a call's copy names the row's account only as long as no flow binds the row anew, and a flow stores only JWTs of the account that it has compared. Unbound rows are left out because a profile that names no user unbinds one (section 6). |
| `AccountPoolProofs` | `TypeCorrect`, `CredentialsAlwaysMatch`, `AccountHasOneRow`, `ImportsWork`, `AccountsKept` | One invariant, `PoolInv`: ids above the last one are unused; every row is right in itself (`RowOK`); what a call was told of is so, and its row, if it still exists, is of that account (`CallOK`); an account has one row. Every action is shown to be a `RowsStep`, from which the rest follows without looking at the actions again. |
| `WorkspacesProofs` | `WorkspacesTypeCorrect`, `ImplementsPool`, `AccountHasOneSpace`, `DeletedSpacesRemoved`, `BoundImportsOwnRow` | `ImplementsPool`, `Spec => PoolSpec`, brings every theorem of `AccountPoolProofs` with it. `SpaceInv` speaks also of the copies that calls hold of the file: each is a file without duplicates, still lacks what its call is about to write, and owns only accounts that have a row or were deleted by the user. So whichever copy is written last, the file is such a file. |
| `VideoTasksProofs` | `TypeCorrect`, `IndexLeadsToOwnTask`, `RunningTasksKept`, `FailuresRepeatable` | One invariant, `Consistent`, of the three and `MarkedWhenDone` (a task is finished exactly when its goroutine is), which eviction relies on: it looks at the status, and must not drop a task at work. |
| | `PatientClientsPayOnce`, `PaidForOnce` | `PatientOK`: of a patient request there is one handler; while it is on its way there is no task at work, and nothing is stored for it between its query and its insertion; outside of that the index leads to the task at work. |
| | `TasksImplementPayments` | `Spec => PaymentSpec`. The mapping counts the goroutines at work for a request (`UnderWay`), and `OneOrNone` says that there is one at most; with `PatientOK`, an insertion is then a payment for a request that is neither paid nor delivered, and a goroutine's end a delivery or a failure. |
| `GatewayProofs` | `TypeCorrect`, `ErrorsRepeatable`, `JobsOfRequests`, `UnfinishedJobsKept` | `JobsInv`: the index leads to jobs of the request, and not to failed ones whose goroutine is through; unfinished jobs are in the table; a server that is down has neither jobs nor a task. |
| | `RestartsSpareTasks` (`StatusInTime`) | What the status page counts is what is in the table, and `UnfinishedKept` says that this is all. |
| | `SidecarCanBeKilled` (`Prompt`, `OneCall`) | `SidecarInv`: a process that exists is the one of the pid file, unless the one call at work is about to write it. |
| | `VariantSelectedFaithfully` | `NearestOf`, the fold over the listing, has a solution for every well-listed one (by the least length that had none), and `NearestFound` says that it returns a member no other is nearer than. A score is the sum of three distances, none below zero (`ScoreTerms`): zero is the exact variant (`ZeroMeansExact`), of two equally near clips the one cut short is the farther (`TooShortIsFarther`), and a request that states nothing asks for what is advertised (`DefaultsNearest`). |
| | `AdvertisedSubmittedFaithfully` | `Owner` gives each name of the table its one row, so that the first row found is the row sought (`RowFound`); `RowsSound` checks the 33 rows one by one, for every duration that a client may ask for (`Clamped`). |
| `GenerationProofs` | `TypeCorrect`, `DeliveredStaysInLibrary`, `ImagesNotResubmitted` | The sync writes in two steps what it listed earlier. `SyncSound` says that what it holds of a generation is still so when written: only complete items are listed, and completion is final; success follows. `FailedBefore` says that every id an image call was told has failed or is the one it polls, and that an idle call knows none. |
| | `AccountsPayOnce` | `Charged`: accounts still to be visited have not been charged, nor has the one visited before its submission; each account leaves `left` when it is visited. |
| | `CallsGetOn` | The part of "every call ends" that needs no fairness: `Ahead`, eight per account that is left and the stage with the present one, falls with every step of the call, and no other step raises it. It is at most `8 * Cardinality(Accounts) + 7`, and zero for idle calls only. |
| | `RepeatsFindTheirResult` (no sync) | `Remembered`: for whatever was delivered the log has a row that answers the request, hidden only if the user hid it. |

`LeaseCoversSaving` needs `QuickDatabase`: `3 * DbWait + HttpTimeout <= LeaseTTL`,
three statements of at most 10 s. With 30 s each the lease may end while its
holder stores the answer. `SessionManager` counts storing as part of the
refresh, so its results hold as long as the database is that quick;
`GetSessionExclusive` holds without. Both suppose that the two processes read one
clock, which is not set back. (A statement also queues for the process's single
connection, `store.go:76`, which no limit covers.)

The conditions in parentheses are the theorems' own: sections 4 and 6 say why most
are needed; `NoCrash`, because a process that dies between an answer and its storing
loses the cookie, and `OneJwt`, because nothing ties a legacy row's two tokens to
one user. Left to TLC are `CallReturns` and `CallEnds`: liveness under fairness and
`ENABLED` are out of the prover's reach. The two theorems `CallsGetOn` leave of them
only that a call under way takes a step, and of `CallReturns` that Go's mutex is
fair. Every other property that a run checks is
a theorem. No module that is proved about has a RECURSIVE operator, and the one
induction over data, on the length of a listing, is an argument by its least
counterexample. `GatewayProofs` takes some three minutes, most of them for the rows
of the table; the others up to a minute and a half each.

## 6. What the code does otherwise than it says

Each is visible in the actions named. Where a property shows it, the change that
makes TLC find it is given.

Against a comment of the code:

* *Errors taken for refusals.* `refresh.go:129` puts "session refresh gagal" before
  every error of GetUserInfo, and `isAuthError` (`pool.go:834`) takes these words for
  an authentication error: two timeouts disable an account as INVALID. Against
  `leonardo/session.go:26-27`, "must not turn a timeout ... into AUTH_EXPIRED".
  (`FlowIdentity` with two callers that run `sessions`: `InvalidOnlyIfRefused`.)
* *Paid twice.* `server.go:691` inserts a task after the lock was released for the
  log query, without looking again: two equal requests at once both pay. Against
  `generation_reuse.go:56-58`, "without submitting another paid provider job".
  (`VideoClients` with `OneTaskAtATime` asked of all `Requests`.)
* *Forgotten by the sync.* `settings.go:409` overwrites metadata and media type of a
  row, and with them the request id; a repeated request is paid again. Against
  `pool.go:69`, "makes retries ... idempotent". (`GenerationReuse` with `Syncs =
  TRUE`: `ReuseStored`.)
* *A working JWT hidden.* `Load` ends a call during a cooldown although the JWT has up
  to 15 minutes left (`session_manager.go:96`, against `pool.go:782-784`).
* *One session, two accounts.* `AddCookieValidated` passes `cookie=...\ntoken=...`,
  which `UpsertCookieAccount` compares with stored plain cookies, so the rows of two
  accounts may come to share a session (`Embedded`, `Owners`; against
  `cookies.go:83-88` and `TestUpsertCookieAccountRejectsSharedSessionAcrossDifferentAccounts`).
* *A lost binding.* `workspaces.json` is read, changed and saved whole without a lock
  between the programs: a save loses the other's binding, against "one immutable
  owner" (`app.go:602`), and brings removed workspaces back.
* *A video made twice.* `VideoTimeout` has the next account make it again, while
  `Generate` stops in that case (`video.go:261`, against `video.go:75-77`).
  `OncePerAccount` is what remains: one video per account at most.
* *A failed first catalogue fetch* of the Adobe models, or an empty answer, is
  repeated by every request that waited for it (against `adobe_models.go:53-55`).

Sessions and accounts:

* `Reacquire` goes to `FetchOk` with the cookie read before the wait for the other
  process's lease, which may have stored a rotated one (`session_manager.go:144`).
  (`FetchUsesNewest` in `SessionTwoProcesses`.)
* `Restore` writes the cookie of the flow's listing over a rotated one
  (`session_manager.go:287`); `Count` counts reports, so that two generations that
  share a rejected JWT make the account INVALID with one refusal (`:290`).
* `ReadProfile` refuses a second account id and the flow goes on (`pool.go:173`): two
  first generations on an unbound row, with an identity switch between them, break
  `NoForeignJob`. `BindProfile` stores a blank id over a binding (`cookies.go:502`;
  `NamesUser = FALSE`).
* `SetInvalid` overwrites the reason of an account that the user has disabled, and
  the recovery sweep may enable it (`cookies.go:433`); the library sync enables it too
  (`library.go:69`), if it can read a balance.
* The edit of an unbound row looks at the binding before it writes
  (`cookies.go:258-260`); a binding in between gives the row another account's cookie.
* Importing a token alone, or a JWT with less than five minutes left, into an INVALID
  account enables it and leaves its status "invalid", as does a crash between the two
  statements. `ImportedNotStuck` therefore speaks of rows with a JWT.
* An account that is deleted during its recovery comes back (`Upsert`), and a
  generation that ends after its row was merged logs the id of a row that is gone.
* A workspace that was launched is lost, and a torn `workspaces.json` makes every
  listing fail until it is removed by hand.

Requests:

* `Reuse` adds a task to a full table without forgetting one (`server.go:669`).
* `Log` and `Upsert` may both insert a row for one generation (`settings.go:379`).
* A generation that runs when the server ends is lost to its caller, though paid.
* Adobe jobs: two requests with one id at once both pay, and the failure of the older
  takes the index from the newer; a job that ends without a video address stays
  indexed, so that its id cannot be repeated (`adobe.go:431`); a job is "completed"
  before its row is in the log, and a restart may come in between; images are not
  among the active tasks a restart asks about; a missing prompt becomes `<nil>`, and
  the messages are not looked at (`adobe.go:319-322`).
* The sidecar: a start that takes longer than ten seconds, or two at once, leave a pid
  file of a dead process and a port that nothing can free (`Prompt = FALSE`:
  `SidecarKillable`). The pid may be another process's by then. Its restart does not
  ask for running jobs.
* A status page that takes more than two seconds, or answers 500, counts as no active
  task (`StatusInTime = FALSE`: `RestartSpares`).
* Catalogues: Grok's 960 is advertised and refused with the default ratio, a portrait
  ratio it lacks becomes 16:9; Seedance's 1080 in 3:4 has the size of its 720.
* Saved files of a log row are read, merged and written in two statements: two saves of
  one row lose one (`settings.go:271-301`).

## 7. Not modelled

* *Saved files* of a log row (`SetGenerationSavedFiles`, the desktop's
  `SaveGenerationLog`): the lost update above is plain from its two statements.
* *Image models* (`sync_models.go`, `models.go`, `aspect.go`): rows that a person
  edits, one statement each, and a table of ratios.
* *Reference image upload* (`upload.go`): one walk over the accounts without shared
  state of its own.
* *HTTP client, proxy discovery, configuration, providers, the rest of the desktop
  bridge*: formats and I/O. What their callers can be told is in the models. How the
  Set-Cookie headers of an answer are merged is "rotated or not", and a backoff is
  "cooling or not".
* *VideoClaw and LocalMiniDrama*: their services are started, and their pid files
  written, by PowerShell scripts outside the Go code.
* *User interface, scripts, vendored code* (`desktop/frontend`, `scripts`,
  `third_party`): not this program's core.

## 8. Plan

Done, in the order of importance: gate, lease and session manager; the flows on one
account; import and merge over many rows; browser workspaces over them; task table;
generation calls and log; the Adobe gateway with its sidecar and restarts; the two
catalogues with rules; payments, as what the task table implements; and proofs of
every safety property and every refinement.

What is left:

1. Saved files, as part of the log.
2. `PaidRequests` also for `AdobeJobs`, whose index is cleaned differently, under
   the same condition on clients.
3. The account that an uploaded image belongs to, from `upload.go` to the reference in
   a generation.
4. Liveness of the task tables: every accepted task ends, under the limits of the
   calls it makes.
