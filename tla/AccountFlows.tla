---------------------------- MODULE AccountFlows ----------------------------
(***************************************************************************)
(* What a caller of the session manager does with the account around the   *)
(* call: the generation of an image (service/pool.go, Generate), the       *)
(* sweeps that refresh profiles and sessions and recover accounts          *)
(* (service/refresh.go), the synchronisation of the library                *)
(* (service/library.go), and the user who enables or disables the account. *)
(*                                                                         *)
(* A flow lists the accounts first and works on that copy of the row,      *)
(* while the session manager reads the row anew.  The per-account mutex    *)
(* is held during the session manager's call only, so every statement here *)
(* may run between any two steps of another flow.                          *)
(*                                                                         *)
(* There is one account; a flow over many visits each as it does this one. *)
(***************************************************************************)
EXTENDS SessionManager

CONSTANTS
  FlowsOf,  \* the flows that a caller may run
  UserActs, \* what the user may do: a subset of {"enable", "disable"}
  NamesUser \* does GetUserInfo find the user's id?

Flows == {"generate", "profiles", "sessions", "recover", "expiring", "sync"}

ASSUME FlowAssumption ==
  /\ FlowsOf \in [Callers -> SUBSET Flows]
  /\ UserActs \subseteq {"enable", "disable"}
  /\ NamesUser \in BOOLEAN

VARIABLES
  flow,     \* the flow each caller runs
  step,     \* the statement of the flow it is at
  retried,  \* is this Generate's second attempt?
  base,     \* the flow's copy of the row, from its listing
  refused   \* history: has Leonardo rejected a JWT or the session?

flowVars == <<flow, step, retried, base, refused>>
allVars  == <<vars, flowVars>>
-----------------------------------------------------------------------------
Steps == {"none", "listed", "resolve", "verify", "mismatch", "clear", "restore", "count",
          "disable", "again", "fallback", "success", "profile", "bind", "deplete",
          "reenable", "submit", "running", "resync", "rebind"}

NoBase == [payload |-> NoPayload, composite |-> FALSE, acct |-> NoUser,
           active |-> FALSE, disabled |-> ""]
Base   == [payload : Payloads \cup {NoPayload}, composite : BOOLEAN, acct : Users \cup {NoUser},
           active : BOOLEAN, disabled : Reasons]
BaseOf(r) == [payload |-> r.payload, composite |-> r.embedded # NoToken, acct |-> r.acct,
              active |-> r.active, disabled |-> r.disabled]

FlowTypeOK ==
  /\ TypeOK
  /\ flow \in [Callers -> Flows \cup {"none"}]
  /\ step \in [Callers -> Steps]
  /\ retried \in [Callers -> BOOLEAN]
  /\ base \in [Callers -> Base]
  /\ refused \in BOOLEAN

(* shouldSkipCookieNow.                                                    *)
Skipped == row.status = "invalid" \/ (~Fresh(row.jwt, FALSE) /\ row.cooling)

(* Which flows take up the account as it is listed.                        *)
Selected(f) ==
  CASE f = "generate" -> row.active /\ ~Skipped
    [] f = "recover"  -> ~row.active /\ row.disabled \in Recoverable
    [] f = "expiring" -> row.active /\ row.disabled # "DEPLETED"
                                    /\ row.status # "invalid" /\ ~row.cooling
    [] OTHER          -> TRUE

Forced(f) == f \in {"sessions", "recover", "expiring"}
-----------------------------------------------------------------------------
At(c, s)   == step[c] = s
SetStep(c, s) == step' = [step EXCEPT ![c] = s]

(* The flow is over.                                                       *)
Finish(c) ==
  /\ Goto(c, "idle")
  /\ result' = [result EXCEPT ![c] = NoToken]
  /\ flow' = [flow EXCEPT ![c] = "none"]
  /\ SetStep(c, "none")
  /\ retried' = [retried EXCEPT ![c] = FALSE]
  /\ base' = [base EXCEPT ![c] = NoBase]

(* A statement of the flow that leads to its step s, or ends it.           *)
Go(c, s) ==
  IF s = "end"
  THEN Finish(c)
  ELSE SetStep(c, s) /\ UNCHANGED <<pc, result, flow, retried, base>>

(* Variables of the session manager that no statement of a flow changes.   *)
quiet == <<lease, life, user, newest, mutex, force, cookie, resp>>

(* After a rejected JWT or a failed upload, Generate tries once more.      *)
AfterRejection(c) == IF flow[c] = "generate" /\ ~retried[c] THEN "again" ELSE "end"

List(c, f) ==
  /\ At(c, "none")
  /\ f \in FlowsOf[c]
  /\ Selected(f)
  /\ flow' = [flow EXCEPT ![c] = f]
  /\ base' = [base EXCEPT ![c] = BaseOf(row)]
  /\ SetStep(c, "listed")
  /\ UNCHANGED <<vars, retried, refused>>

Call(c) ==
  /\ At(c, "listed")
  /\ Begin(c, Forced(flow[c]))
  /\ SetStep(c, "resolve")
  /\ UNCHANGED <<flow, retried, base, refused>>

(* The session manager's steps.  Leonardo does not issue a cookie or a JWT *)
(* again that a flow still knows.                                          *)
InResolve(c) ==
  /\ Resolve(c)
  /\ newest' # newest => \A d \in Callers : base[d].payload # newest'
  /\ refused' = (refused \/ (pc[c] = "fetch" /\ resp'[c].kind = "auth"))
  /\ UNCHANGED <<flow, step, retried, base>>

Resolved(c) ==
  /\ At(c, "resolve") /\ pc[c] = "returned"
  /\ Go(c, IF result[c] = NoToken \/ flow[c] = "expiring" THEN "end" ELSE "verify")
  /\ UNCHANGED <<row, quiet, refused>>

(* The id that GetUserInfo reports: the one in Leonardo's answer, else the *)
(* JWT's claim.                                                            *)
InfoId(t) == IF NamesUser THEN user[t] ELSE Claim(t)

(* SyncLibrary stores no JWT after the identity check.                     *)
AfterIdentity(c) == IF flow[c] = "sync" THEN "profile" ELSE "fallback"

(* Mutant: the reported id is not compared with the row's account.         *)
VerifyOk_NoComparison(c) ==
  /\ At(c, "verify")
  /\ life[result[c]] # "expired"
  /\ Go(c, AfterIdentity(c))
  /\ UNCHANGED <<row, quiet, refused>>

(* GetUserInfo succeeds; ensureCookieIdentity.                             *)
VerifyOk(c) ==
  /\ At(c, "verify")
  /\ life[result[c]] # "expired"
  /\ Go(c, IF NoUser \in {base[c].acct, InfoId(result[c])} \/ base[c].acct = InfoId(result[c])
           THEN AfterIdentity(c) ELSE "mismatch")
  /\ UNCHANGED <<row, quiet, refused>>

OtherAccount(c) ==
  /\ At(c, "mismatch")
  /\ row' = AutoDisableCookie(row, "ACCOUNT_CHANGED")
  /\ Go(c, "end")
  /\ UNCHANGED <<quiet, refused>>

(* GraphQL rejects the JWT, with which the user is asked for, or a         *)
(* reference uploaded or the generation created.  RecoverExpiredCookies    *)
(* and SyncLibrary only note the error.  Polling never reports a           *)
(* rejection: its errors are "failed" and "timeout".                       *)
Rejected(c) ==
  /\ At(c, "verify") \/ At(c, "submit")
  /\ Go(c, IF flow[c] \in {"recover", "sync"} THEN "end" ELSE "clear")
  /\ refused' = TRUE
  /\ UNCHANGED <<row, quiet>>

(* Another error of GraphQL.  RefreshCookieSessions puts "Session refresh  *)
(* gagal" in front of it, which isAuthError takes for an authentication    *)
(* error.                                                                  *)
VerifyFails(c) ==
  /\ At(c, "verify")
  /\ Go(c, IF flow[c] = "sessions" THEN "clear" ELSE "end")
  /\ UNCHANGED <<row, quiet, refused>>

(* reportRejectedJWT, statement by statement: forget the JWT, write the    *)
(* listed cookie without its token line, record an authentication failure  *)
(* and, at the second one, disable the account.                            *)
Clear(c) ==
  /\ At(c, "clear")
  /\ row' = ClearCookieSessionJWT(row)
  /\ Go(c, "restore")
  /\ UNCHANGED <<quiet, refused>>

Restore(c) ==
  /\ At(c, "restore")
  /\ row' = UpdateCookieValue(row, base[c].payload)
  /\ Go(c, "count")
  /\ UNCHANGED <<quiet, refused>>

Count(c) ==
  /\ At(c, "count")
  /\ \/ /\ row' = RecordCookieRefreshFailure(row, "auth")
        /\ Go(c, IF FailureCount(row, "auth") >= FailLimit THEN "disable" ELSE AfterRejection(c))
     \/ /\ Contended
        /\ UNCHANGED row
        /\ Go(c, AfterRejection(c))
  /\ UNCHANGED <<quiet, refused>>

Disable(c) ==
  /\ At(c, "disable")
  /\ row' = SetInvalid(row)
  /\ Go(c, AfterRejection(c))
  /\ UNCHANGED <<quiet, refused>>

(* The second attempt forces a refresh.                                    *)
Again(c) ==
  /\ At(c, "again")
  /\ Goto(c, "lock")
  /\ force' = [force EXCEPT ![c] = TRUE]
  /\ result' = [result EXCEPT ![c] = NoToken]
  /\ retried' = [retried EXCEPT ![c] = TRUE]
  /\ SetStep(c, "resolve")
  /\ UNCHANGED <<row, lease, life, user, newest, mutex, cookie, resp, flow, base, refused>>

(* refreshFallbackToken: split a listed "cookie + token" value, and store  *)
(* the JWT.  A row without cookie is left alone.                           *)
Fallback(c) ==
  /\ At(c, "fallback")
  /\ row' = IF base[c].composite THEN UpdateCookieValue(row, base[c].payload) ELSE row
  /\ Go(c, IF base[c].payload = NoPayload THEN "profile" ELSE "success")
  /\ UNCHANGED <<quiet, refused>>

StoreToken(c) ==
  /\ At(c, "success")
  /\ row' = UpdateCookieSessionSuccess(row, result[c])
  /\ Go(c, "profile")
  /\ UNCHANGED <<quiet, refused>>

(* What follows the profile, by the balance that came with it.  An empty   *)
(* balance does not disable an account for SyncLibrary.                    *)
AfterProfile(c) ==
  IF ~At(c, "profile") /\ ~At(c, "bind") THEN {"end"}
  ELSE (IF flow[c] \in {"generate", "recover"} \/ (base[c].active /\ flow[c] # "sync")
        THEN {"deplete"} ELSE {"end"})
       \cup
       (IF flow[c] = "generate" THEN {"submit"}
        ELSE IF ~base[c].active /\ base[c].disabled \in Recoverable THEN {"reenable"} ELSE {"end"})

(* UpdateCookieProfile reads the row's account, and writes it in a second  *)
(* statement.  That it refused an id is not noticed.                       *)
ReadProfile(c) ==
  /\ At(c, "profile") \/ At(c, "resync")
  /\ IF RefusesProfile(row, InfoId(result[c]))
     THEN \E s \in AfterProfile(c) : Go(c, s)
     ELSE Go(c, IF At(c, "profile") THEN "bind" ELSE "rebind")
  /\ UNCHANGED <<row, quiet, refused>>

BindProfile(c) ==
  /\ At(c, "bind") \/ At(c, "rebind")
  /\ row' = SetProfile(row, InfoId(result[c]))
  /\ \E s \in AfterProfile(c) : Go(c, s)
  /\ UNCHANGED <<quiet, refused>>

Deplete(c) ==
  /\ At(c, "deplete")
  /\ row' = AutoDisableCookie(row, "DEPLETED")
  /\ Go(c, "end")
  /\ UNCHANGED <<quiet, refused>>

Reenable(c) ==
  /\ At(c, "reenable")
  /\ row' = ToggleCookie(row, TRUE)
  /\ Go(c, "end")
  /\ UNCHANGED <<quiet, refused>>

(* Upload the reference images and create the generation, with the JWT's   *)
(* user.  A failed upload is tried again, a failed creation is not.        *)
Submit(c) ==
  /\ At(c, "submit")
  /\ \E s \in {"running", AfterRejection(c), "end"} : Go(c, s)
  /\ UNCHANGED <<row, quiet, refused>>

(* The generation ends; after a success the profile is read again.         *)
Complete(c) ==
  /\ At(c, "running")
  /\ \E s \in {"resync", "end"} : Go(c, s)
  /\ UNCHANGED <<row, quiet, refused>>

UserToggle(on) ==
  /\ (IF on THEN "enable" ELSE "disable") \in UserActs
  /\ row' = ToggleCookie(row, on)
  /\ UNCHANGED <<quiet, pc, result, flowVars>>

FlowStep(c) ==
  \/ \E f \in Flows : List(c, f)
  \/ Call(c) \/ InResolve(c) \/ Resolved(c)
  \/ VerifyOk(c) \/ OtherAccount(c) \/ Rejected(c) \/ VerifyFails(c)
  \/ Clear(c) \/ Restore(c) \/ Count(c) \/ Disable(c) \/ Again(c)
  \/ Fallback(c) \/ StoreToken(c) \/ ReadProfile(c) \/ BindProfile(c) \/ Deplete(c) \/ Reenable(c)
  \/ Submit(c) \/ Complete(c)
-----------------------------------------------------------------------------
FlowInit ==
  /\ Init
  /\ flow = [c \in Callers |-> "none"]
  /\ step = [c \in Callers |-> "none"]
  /\ retried = [c \in Callers |-> FALSE]
  /\ base = [c \in Callers |-> NoBase]
  /\ refused = FALSE

FlowNext ==
  \/ \E c \in Callers : FlowStep(c)
  \/ \E on \in BOOLEAN : UserToggle(on)
  \/ (CoolDown \/ \E t \in Tokens : Age(t)) /\ UNCHANGED flowVars

FlowSpec == FlowInit /\ [][FlowNext]_allVars
-----------------------------------------------------------------------------
(* "instead of ever running a job on the wrong account" (pool.go:482-483):
   a generation is submitted, or runs, with a JWT of the row's account.    *)
NoForeignJob ==
  \A c \in Callers : step[c] \in {"submit", "running"} => user[result[c]] = row.acct

(* An active account is not in the state that every scheduler skips: no
   sequence of failures, recoveries, identity errors and the user's own
   toggles leaves it enabled and yet never used or refreshed
   (pool.go:778-781, refresh.go:260-263).                                  *)
ActiveNotStuck == row.active => row.status # "invalid"

(* "Callers must not turn a timeout, 429, Vercel/Cloudflare challenge or
   upstream 5xx into AUTH_EXPIRED" (session.go:26-27): an account is
   disabled as INVALID only if Leonardo has refused a JWT or the session.  *)
InvalidOnlyIfRefused ==
  [][row'.disabled = "INVALID" /\ row.disabled # "INVALID" => refused]_allVars
=============================================================================
