----------------------------- MODULE Generation -----------------------------
(***************************************************************************)
(* One generation over the pool of accounts (service/pool.go, Generate;    *)
(* service/video.go, GenerateVideo), Leonardo's side of it, the generation *)
(* log, and the library sync that rewrites the log (service/library.go,    *)
(* store/settings.go).                                                     *)
(*                                                                         *)
(* A call looks for the result of its request id in the log and otherwise  *)
(* visits the accounts until one of them delivers.  Every generation that  *)
(* Leonardo creates is paid for.  The log is shared with the desktop app,  *)
(* whose sync imports finished generations, and whose user hides rows.     *)
(*                                                                         *)
(* What happens to an account is in AccountFlows.  Here it is a choice:    *)
(* the account is usable, or rejects the JWT, or is passed over.           *)
(***************************************************************************)
EXTENDS Naturals, Sequences, FiniteSets

CONSTANTS
  Calls,       \* concurrent runs of Generate or GenerateVideo
  Requests,    \* client_request_ids
  NoRequest,   \* a request without one
  Videos,      \* the requests for a video; the others are for images
  Accounts,    \* the accounts of the pool
  NoAccount,
  Generations, \* generation ids of Leonardo; bound: how many it can create
  NoGen,
  Syncs        \* does the desktop app sync its library?

ASSUME GenerationAssumption ==
  /\ NoRequest \notin Requests
  /\ Videos \subseteq Requests \cup {NoRequest}
  /\ NoAccount \notin Accounts
  /\ NoGen \notin Generations
  /\ IsFiniteSet(Accounts) /\ IsFiniteSet(Calls) /\ IsFiniteSet(Generations)
  /\ Syncs \in BOOLEAN

VARIABLES
  remote, \* Leonardo's generations: their states, and accounts
  rows,   \* generation_logs, in the order of their ids
  at,     \* where each call is
  asked,  \* its request
  left,   \* the accounts it has not visited
  acct,   \* the account it visits
  second, \* is this the second attempt with the account?
  mine,   \* the generation it waits for
  known,  \* history: the generations whose ids it was given
  sync,   \* the library sync: the items it has listed, and the row it found
  hidden, \* history: the generations the user has hidden
  delivered \* history: the results given to clients

history == <<hidden, delivered>>
callVars == <<at, asked, left, acct, second, mine, known>>
vars == <<remote, rows, callVars, sync, history>>
-----------------------------------------------------------------------------
Media(r) == IF r \in Videos THEN "video" ELSE "image"

Remote == [status : {"none", "running", "complete", "failed"},
           account : Accounts \cup {NoAccount}]
Row == [gen : Generations, media : {"image", "video"},
        request : Requests \cup {NoRequest},
        status : {"success", "pending"}, hidden : BOOLEAN]
Item == [gen : Generations, status : {"running", "complete"}]
Idle == [items |-> {}, item |-> NoGen, found |-> 0]

TypeOK ==
  /\ remote \in [Generations -> Remote]
  /\ rows \in Seq(Row)
  /\ at \in [Calls -> {"idle", "find", "next", "session", "create", "poll", "log"}]
  /\ asked \in [Calls -> Requests \cup {NoRequest}]
  /\ left \in [Calls -> SUBSET Accounts]
  /\ acct \in [Calls -> Accounts \cup {NoAccount}]
  /\ second \in [Calls -> BOOLEAN]
  /\ mine \in [Calls -> Generations \cup {NoGen}]
  /\ known \in [Calls -> SUBSET Generations]
  /\ sync \in [items : SUBSET Item, item : Generations \cup {NoGen}, found : Nat]
  /\ sync.found \in 0 .. Len(rows)
  /\ hidden \subseteq Generations
  /\ delivered \subseteq (Requests \cup {NoRequest}) \X Generations

Unused == {g \in Generations : remote[g].status = "none"}
Created == {g \in Generations : remote[g].status # "none"}

NewRow(g, media, r, status) ==
  [gen |-> g, media |-> media, request |-> r, status |-> status, hidden |-> FALSE]

GoTo(c, l) == at' = [at EXCEPT ![c] = l]

(* The call is over; its local variables are gone.                         *)
Return(c) ==
  /\ GoTo(c, "idle")
  /\ asked' = [asked EXCEPT ![c] = NoRequest]
  /\ left' = [left EXCEPT ![c] = {}]
  /\ acct' = [acct EXCEPT ![c] = NoAccount]
  /\ second' = [second EXCEPT ![c] = FALSE]
  /\ mine' = [mine EXCEPT ![c] = NoGen]
  /\ known' = [known EXCEPT ![c] = {}]

(* The loop goes on with the next account.                                 *)
NextAccount(c) ==
  /\ GoTo(c, "next")
  /\ acct' = [acct EXCEPT ![c] = NoAccount]
  /\ second' = [second EXCEPT ![c] = FALSE]
  /\ mine' = [mine EXCEPT ![c] = NoGen]
  /\ UNCHANGED <<asked, left>>

(* Mutant: there is no limit on the attempts.                              *)
Retry_Always(c) ==
  /\ GoTo(c, "session")
  /\ second' = [second EXCEPT ![c] = ~second[c]]
  /\ UNCHANGED <<asked, left, acct, mine>>

(* The loop makes its second attempt with the account.                     *)
Retry(c) ==
  /\ ~second[c]
  /\ GoTo(c, "session")
  /\ second' = [second EXCEPT ![c] = TRUE]
  /\ UNCHANGED <<asked, left, acct, mine>>
-----------------------------------------------------------------------------
(* A request arrives.  Bound: every call may have each account create one  *)
(* generation, so that many ids must be left.                              *)
Receive(c, r) ==
  /\ at[c] = "idle"
  /\ Cardinality({d \in Calls : at[d] # "idle"} \cup {c}) * Cardinality(Accounts)
       <= Cardinality(Unused)
  /\ GoTo(c, "find")
  /\ asked' = [asked EXCEPT ![c] = r]
  /\ UNCHANGED <<remote, rows, left, acct, second, mine, known, sync, history>>

(* FindSuccessfulGenerationByClientRequest.                                *)
Reusable(row, r) ==
  /\ r # NoRequest
  /\ row.request = r
  /\ row.media = Media(r)
  /\ row.status = "success"
  /\ ~row.hidden

Stored(r) == \E i \in DOMAIN rows : Reusable(rows[i], r)

(* The result is in the log, or the active accounts are listed.            *)
Find(c) ==
  /\ at[c] = "find"
  /\ IF Stored(asked[c])
     THEN Return(c)
     ELSE \E S \in SUBSET Accounts :
            GoTo(c, "next") /\ left' = [left EXCEPT ![c] = S]
                            /\ UNCHANGED <<asked, acct, second, mine, known>>
  /\ UNCHANGED <<remote, rows, sync, history>>

(* The next account, which may be one to skip now, or none.  The accounts  *)
(* come in the order of their last use, which may be any.                  *)
Visit(c) ==
  /\ at[c] = "next"
  /\ \E a \in left[c] :
       /\ left' = [left EXCEPT ![c] = @ \ {a}]
       /\ \/ UNCHANGED <<at, acct>>
          \/ GoTo(c, "session") /\ acct' = [acct EXCEPT ![c] = a]
  /\ UNCHANGED <<remote, rows, asked, second, mine, known, sync, history>>

NoneLeft(c) ==
  /\ at[c] = "next"
  /\ left[c] = {}
  /\ Return(c)
  /\ UNCHANGED <<remote, rows, sync, history>>

(* Up to the submission: the session, the profile and the references.      *)
Session(c) ==
  /\ at[c] = "session"
  /\ \/ GoTo(c, "create") /\ UNCHANGED <<asked, left, acct, second, mine>>
     \/ NextAccount(c)
     \/ Retry(c)
  /\ UNCHANGED <<remote, rows, known, sync, history>>

(* Leonardo creates the generation; its answer may be lost.                *)
Create(c) ==
  /\ at[c] = "create"
  /\ \E g \in Unused :
       /\ remote' = [remote EXCEPT ![g] = [status |-> "running", account |-> acct[c]]]
       /\ \/ /\ GoTo(c, "poll")
             /\ mine' = [mine EXCEPT ![c] = g]
             /\ known' = [known EXCEPT ![c] = @ \cup {g}]
             /\ UNCHANGED <<asked, left, acct, second>>
          \/ NextAccount(c) /\ UNCHANGED known
  /\ UNCHANGED <<rows, sync, history>>

(* Leonardo does not create it, the first time perhaps for the JWT.        *)
Refuse(c) ==
  /\ at[c] = "create"
  /\ NextAccount(c) \/ Retry(c)
  /\ UNCHANGED <<remote, rows, known, sync, history>>

(* Polling sees the images or the video, or the failure.                   *)
PollSuccess(c) ==
  /\ at[c] = "poll"
  /\ remote[mine[c]].status = "complete"
  /\ GoTo(c, "log")
  /\ UNCHANGED <<remote, rows, asked, left, acct, second, mine, known, sync, history>>

PollFailure(c) ==
  /\ at[c] = "poll"
  /\ remote[mine[c]].status = "failed"
  /\ NextAccount(c)
  /\ UNCHANGED <<remote, rows, known, sync, history>>

(* Mutant: an image that takes too long is tried with the next account.    *)
ImageTimeout_GoesOn(c) ==
  /\ at[c] = "poll"
  /\ Media(asked[c]) = "image"
  /\ rows' = Append(rows, NewRow(mine[c], "image", asked[c], "pending"))
  /\ NextAccount(c)
  /\ UNCHANGED <<remote, known, sync, history>>

(* Polling gets no answer in time, whatever has become of the generation.  *)
(* Generate logs it as pending and stops.                                  *)
ImageTimeout(c) ==
  /\ at[c] = "poll"
  /\ Media(asked[c]) = "image"
  /\ rows' = Append(rows, NewRow(mine[c], "image", asked[c], "pending"))
  /\ Return(c)
  /\ UNCHANGED <<remote, sync, history>>

(* Mutant: the account that made no video in time makes another one.       *)
VideoTimeout_Again(c) ==
  /\ at[c] = "poll"
  /\ Media(asked[c]) = "video"
  /\ Retry(c) \/ (second[c] /\ NextAccount(c))
  /\ UNCHANGED <<remote, rows, known, sync, history>>

(* GenerateVideo goes on with the next account: after two hours, or when   *)
(* the video counts as not created, after eight answers to PollStatus      *)
(* without the generation, as one that carries only errors is, too.        *)
VideoTimeout(c) ==
  /\ at[c] = "poll"
  /\ Media(asked[c]) = "video"
  /\ NextAccount(c)
  /\ UNCHANGED <<remote, rows, known, sync, history>>

(* Mutant: the row does not name its request.                              *)
Log_Untagged(c) ==
  /\ at[c] = "log"
  /\ rows' = Append(rows, NewRow(mine[c], Media(asked[c]), NoRequest, "success"))
  /\ delivered' = delivered \cup {<<asked[c], mine[c]>>}
  /\ Return(c)
  /\ UNCHANGED <<remote, sync, hidden>>

(* AddProviderGenerationLog, and the answer.                               *)
Log(c) ==
  /\ at[c] = "log"
  /\ rows' = Append(rows, NewRow(mine[c], Media(asked[c]), asked[c], "success"))
  /\ delivered' = delivered \cup {<<asked[c], mine[c]>>}
  /\ Return(c)
  /\ UNCHANGED <<remote, sync, hidden>>

Step(c) ==
  \/ Find(c) \/ Visit(c) \/ NoneLeft(c) \/ Session(c) \/ Create(c) \/ Refuse(c)
  \/ PollSuccess(c) \/ PollFailure(c) \/ ImageTimeout(c) \/ VideoTimeout(c) \/ Log(c)

(* The process of the call ends.                                           *)
Crash(c) ==
  /\ at[c] # "idle"
  /\ Return(c)
  /\ UNCHANGED <<remote, rows, sync, history>>
-----------------------------------------------------------------------------
(* Leonardo.                                                               *)
Finish(g) ==
  /\ remote[g].status = "running"
  /\ \E s \in {"complete", "failed"} : remote' = [remote EXCEPT ![g].status = s]
  /\ UNCHANGED <<rows, callVars, sync, history>>

(* Mutant: generations that are not ready are imported, too.               *)
List_NotReady(a) ==
  /\ Syncs /\ sync = Idle
  /\ sync' = [sync EXCEPT !.items =
       {[gen |-> g, status |-> remote[g].status] :
          g \in {h \in Created : remote[h].account = a /\ remote[h].status # "failed"}}]
  /\ UNCHANGED <<remote, rows, callVars, history>>

(* SyncLibrary lists an account's recent generations that are ready.       *)
List(a) ==
  /\ Syncs /\ sync = Idle
  /\ sync' = [sync EXCEPT !.items =
       {[gen |-> g, status |-> remote[g].status] :
          g \in {h \in Created : remote[h].account = a /\ remote[h].status = "complete"}}]
  /\ UNCHANGED <<remote, rows, callVars, history>>

RowsOf(g) == {i \in DOMAIN rows : rows[i].gen = g}

(* UpsertProviderGenerationLogFromRemote: find the newest row, ...         *)
Select(g) ==
  /\ sync.item = NoGen
  /\ \E item \in sync.items : item.gen = g
  /\ \/ /\ RowsOf(g) = {}
        /\ sync' = [sync EXCEPT !.item = g]
     \/ \E newest \in RowsOf(g) :
          /\ \A i \in RowsOf(g) : i <= newest
          /\ sync' = [sync EXCEPT !.item = g, !.found = newest]
  /\ UNCHANGED <<remote, rows, callVars, history>>

(* Mutant: Leonardo's own word for the status.                             *)
LibraryStatus_Raw(g) == (CHOOSE item \in sync.items : item.gen = g).status

LibraryStatus(g) ==
  IF [gen |-> g, status |-> "complete"] \in sync.items THEN "success" ELSE "pending"

Overwritten(row, status) ==
  [row EXCEPT !.media = "image", !.request = NoRequest, !.status = status]

(* ... and overwrite it, except for its hidden flag, or insert one.        *)
Upsert(g) ==
  /\ sync.item = g
  /\ rows' = IF sync.found = 0
             THEN Append(rows, NewRow(g, "image", NoRequest, LibraryStatus(g)))
             ELSE [rows EXCEPT ![sync.found] = Overwritten(@, LibraryStatus(g))]
  /\ sync' = [items |-> {i \in sync.items : i.gen # g}, item |-> NoGen, found |-> 0]
  /\ UNCHANGED <<remote, callVars, history>>

(* The user deletes a material: HideGenerationLog.                         *)
Hide(i) ==
  /\ i \in DOMAIN rows
  /\ ~rows[i].hidden
  /\ rows' = [rows EXCEPT ![i].hidden = TRUE]
  /\ hidden' = hidden \cup {rows[i].gen}
  /\ UNCHANGED <<remote, callVars, sync, delivered>>
-----------------------------------------------------------------------------
Init ==
  /\ remote = [g \in Generations |-> [status |-> "none", account |-> NoAccount]]
  /\ rows = <<>>
  /\ at = [c \in Calls |-> "idle"]
  /\ asked = [c \in Calls |-> NoRequest]
  /\ left = [c \in Calls |-> {}]
  /\ acct = [c \in Calls |-> NoAccount]
  /\ second = [c \in Calls |-> FALSE]
  /\ mine = [c \in Calls |-> NoGen]
  /\ known = [c \in Calls |-> {}]
  /\ sync = Idle
  /\ hidden = {}
  /\ delivered = {}

Next ==
  \/ \E c \in Calls :
       \/ \E r \in Requests \cup {NoRequest} : Receive(c, r)
       \/ Step(c) \/ Crash(c)
  \/ \E g \in Generations : Finish(g) \/ Select(g) \/ Upsert(g)
  \/ \E a \in Accounts : List(a)
  \/ \E i \in DOMAIN rows : Hide(i)

Spec == Init /\ [][Next]_vars

(* A call goes on: every request to Leonardo has a time limit, and so has  *)
(* polling, whatever Leonardo answers.                                     *)
FairSpec == Spec /\ \A c \in Calls : WF_vars(Step(c))
-----------------------------------------------------------------------------
(* The generations that are created, with an answer that arrives, by call c
   in a step.                                                              *)
Submitted(c) == known'[c] \ known[c]

(* "Stop switching accounts and submitting again, to avoid a double charge"
   (pool.go:298): a call for an image has another generation created only
   when Leonardo has said of every earlier one that it failed.  (A call for
   a video goes on after a timeout, video.go:261.)                         *)
NoResubmission ==
  [][\A c \in Calls : Media(asked[c]) = "image" /\ Submitted(c) # {} =>
       \A g \in known[c] : remote[g].status = "failed"]_vars

(* A call pays each account for one generation at most that it is told of,
   also a call for a video, whose timeouts lead to the next account: the
   second attempt with an account (pool.go:139, video.go:142) comes only after
   one that created nothing.  So the accounts bound what a request can cost.  *)
OncePerAccount ==
  \A c \in Calls : \A g, h \in known[c] : g # h => remote[g].account # remote[h].account

(* "ClientRequestID makes retries [...] idempotent" (pool.go:69): no accounts
   are visited for a request whose result was delivered before, and is not
   one that the user has hidden.  (Two calls at once are in VideoTasks.)   *)
ReuseStored ==
  [][\A c \in Calls : asked[c] # NoRequest /\ at[c] = "find" /\ at'[c] = "next" =>
       \A g \in Generations : <<asked[c], g>> \in delivered => g \in hidden]_vars

(* A result that was delivered stays a success in the log, hidden or not,
   whatever the sync writes over it (library.go:98-107).                   *)
DeliveredInLibrary ==
  \A r \in Requests \cup {NoRequest}, g \in Generations :
    <<r, g>> \in delivered => \E i \in RowsOf(g) : rows[i].status = "success"

(* Every call is answered, unless its process ends: no account is visited
   for ever (pool.go:124-360).                                             *)
CallEnds == \A c \in Calls : at[c] = "find" ~> at[c] = "idle"
=============================================================================
