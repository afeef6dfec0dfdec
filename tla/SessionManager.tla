--------------------------- MODULE SessionManager ---------------------------
(***************************************************************************)
(* How the callers of one Leonardo account obtain a bearer JWT             *)
(* (internal/service/session_manager.go, resolveTokenForCookieAttempt).    *)
(*                                                                         *)
(* A caller is a goroutine of one of two OS processes, the desktop program *)
(* and the 8001 API server.  The processes share the account's database    *)
(* row; the goroutines of one process also share a mutex per account.      *)
(* get-session calls are serialized by that mutex and, across processes,   *)
(* by a lease stored in the row.  The lease is untimed here: it ends when  *)
(* its holder releases it or, if the holder's process died, at some later  *)
(* moment.  Module RefreshLease shows from the clock readings and time     *)
(* limits of the code that a live holder is not overtaken.                 *)
(*                                                                         *)
(* Leonardo is modelled by what it may answer: a new JWT for some user, an *)
(* authentication error or a temporary error, and possibly a rotated       *)
(* browser cookie with it.                                                 *)
(***************************************************************************)
EXTENDS AccountRow, FiniteSets

CONSTANTS
  Callers,    \* goroutines
  Procs,      \* OS processes
  ProcOf,     \* the process of a caller
  CrashProcs, \* the processes that may die
  Nobody,     \* no caller
  Orphan,     \* lease owner left behind by a process that died
  Opaque,     \* the JWTs that do not say which user they are for
  InitRows    \* what the row may hold when the behaviour starts

ASSUME CallerAssumption ==
  /\ ProcOf \in [Callers -> Procs]
  /\ CrashProcs \subseteq Procs
  /\ Nobody \notin Callers
  /\ Orphan \notin Callers
  /\ Nobody # Orphan
  /\ Opaque \subseteq Tokens
  /\ InitRows \subseteq Row

VARIABLES
  row,     \* the account's row
  lease,   \* refresh_lease_owner: a caller, Orphan or Nobody
  life,    \* remaining lifetime of each JWT
  user,    \* the Leonardo user each JWT was minted for
  newest,  \* history: the browser cookie Leonardo issued last
  mutex,   \* the per-account mutex of each process
  pc,      \* where each caller is
  force,   \* the call's "force" argument
  cookie,  \* the call's copy of the row
  resp,    \* what get-session answered
  result   \* the JWT the call returned

vars == <<row, lease, life, user, newest, mutex, pc, force, cookie, resp, result>>
-----------------------------------------------------------------------------
PC == {"idle", "lock", "load", "acquire", "wait", "reacquire", "fetch",
       "tokenonly", "rotate", "failed", "temporary", "invalid", "changed",
       "save", "success", "unlock", "returned"}

Lives == {"unused", "fresh", "late", "expired"}

NoCopy == [payload |-> NoPayload, token |-> NoToken, acct |-> NoUser]
Copy   == [payload : Payloads \cup {NoPayload},
           token   : Tokens \cup {NoToken},
           acct    : Users \cup {NoUser}]
CopyOf(r) == [payload |-> r.payload, token |-> ParsedToken(r), acct |-> r.acct]

NoResp == [kind |-> "none", payload |-> NoPayload]
Resp   == [kind : FailureKinds \cup {"none", "ok"}, payload : Payloads \cup {NoPayload}]

TypeOK ==
  /\ row \in Row
  /\ lease \in Callers \cup {Orphan, Nobody}
  /\ life \in [Tokens -> Lives]
  /\ user \in [Tokens -> Users]
  /\ newest \in Payloads \cup {NoPayload}
  /\ mutex \in [Procs -> Callers \cup {Nobody}]
  /\ pc \in [Callers -> PC]
  /\ force \in [Callers -> BOOLEAN]
  /\ cookie \in [Callers -> Copy]
  /\ resp \in [Callers -> Resp]
  /\ result \in [Callers -> Tokens \cup {NoToken}]

(* IsFreshToken with the 15-minute margin of a regular call, or with the   *)
(* minimal margin ("late" is a JWT that expires within 15 minutes).        *)
Fresh(t, margin) ==
  t # NoToken /\ life[t] \in (IF margin THEN {"fresh"} ELSE {"fresh", "late"})

(* UserIDFromToken: the user that the JWT claims.                          *)
Claim(t) == IF t \in Opaque THEN NoUser ELSE user[t]

Mismatch(t, margin, expected) ==
  Fresh(t, margin) /\ expected # NoUser /\ Claim(t) \notin {NoUser, expected}
Accepts(t, margin, expected) ==
  Fresh(t, margin) /\ ~Mismatch(t, margin, expected)

(* JWTs and cookies that nothing remembers any more can be issued again.   *)
UsedTokens ==
  {row.jwt, row.embedded} \cup {cookie[c].token : c \in Callers}
                          \cup {result[c] : c \in Callers}
UsedPayloads ==
  {row.payload, newest} \cup {cookie[c].payload : c \in Callers}
                        \cup {resp[c].payload : c \in Callers}
-----------------------------------------------------------------------------
Goto(c, l) == pc' = [pc EXCEPT ![c] = l]

(* A caller of the account pool asks for a JWT.                            *)
Begin(c, f) ==
  /\ pc[c] = "idle"
  /\ Goto(c, "lock")
  /\ force' = [force EXCEPT ![c] = f]
  /\ UNCHANGED <<row, lease, life, user, newest, mutex, cookie, resp, result>>

(* Mutant: the session's mutex is not the account's.                       *)
Lock_NotShared(c) ==
  /\ pc[c] = "lock"
  /\ mutex' = [mutex EXCEPT ![ProcOf[c]] = c]
  /\ Goto(c, "load")
  /\ UNCHANGED <<row, lease, life, user, newest, force, cookie, resp, result>>

Lock(c) ==
  /\ pc[c] = "lock"
  /\ mutex[ProcOf[c]] = Nobody
  /\ mutex' = [mutex EXCEPT ![ProcOf[c]] = c]
  /\ Goto(c, "load")
  /\ UNCHANGED <<row, lease, life, user, newest, force, cookie, resp, result>>

(* The cached JWT is returned, or refused because it belongs to another    *)
(* Leonardo user than the one the call expects.                            *)
ReturnToken(c, t, margin, expected) ==
  \/ /\ Accepts(t, margin, expected)
     /\ result' = [result EXCEPT ![c] = t]
     /\ Goto(c, "unlock")
  \/ /\ Mismatch(t, margin, expected)
     /\ Goto(c, "changed")
     /\ UNCHANGED result

(* Read the row again.  Unless the call is forced, a JWT with 15 minutes   *)
(* left is good enough, and a cooldown ends the call.                      *)
Load(c) ==
  LET t == ParsedToken(row) IN
  /\ pc[c] = "load"
  /\ cookie' = [cookie EXCEPT ![c] = CopyOf(row)]
  /\ \/ /\ ~force[c]
        /\ ReturnToken(c, t, TRUE, row.acct)
     \/ /\ ~force[c] /\ ~Fresh(t, TRUE) /\ row.cooling
        /\ Goto(c, "unlock")
        /\ UNCHANGED result
     \/ /\ force[c] \/ ~(Fresh(t, TRUE) \/ row.cooling)
        /\ Goto(c, IF row.payload = NoPayload THEN "tokenonly" ELSE "acquire")
        /\ UNCHANGED result
  /\ force' = [force EXCEPT ![c] = FALSE]
  /\ UNCHANGED <<row, lease, life, user, newest, mutex, resp>>

(* A row without a browser cookie lives on its token until that expires.   *)
TokenOnly(c) ==
  LET t == cookie[c].token IN
  /\ pc[c] = "tokenonly"
  /\ \/ /\ ReturnToken(c, t, FALSE, cookie[c].acct)
        /\ UNCHANGED resp
     \/ /\ ~Fresh(t, FALSE)
        /\ resp' = [resp EXCEPT ![c] = [kind |-> "auth", payload |-> NoPayload]]
        /\ Goto(c, "failed")
        /\ UNCHANGED result
  /\ UNCHANGED <<row, lease, life, user, newest, mutex, force, cookie>>

(* TryAcquireCookieRefreshLease, the first and the second time.            *)
Acquire(c) ==
  /\ pc[c] = "acquire"
  /\ IF lease = Nobody
     THEN lease' = c /\ Goto(c, "fetch")
     ELSE UNCHANGED lease /\ Goto(c, "wait")
  /\ UNCHANGED <<row, life, user, newest, mutex, force, cookie, resp, result>>

(* While another process holds the lease, look for the JWT it publishes.   *)
(* The call stops looking when the lease has ended or after eight seconds. *)
Poll(c) ==
  /\ pc[c] = "wait"
  /\ \/ ReturnToken(c, row.jwt, FALSE, cookie[c].acct)
     \/ /\ ~Fresh(row.jwt, FALSE)
        /\ Goto(c, "reacquire")
        /\ UNCHANGED result
  /\ UNCHANGED <<row, lease, life, user, newest, mutex, force, cookie, resp>>

(* Mutant: giving up on the lease returns without the deferred unlock.     *)
Reacquire_KeepsMutex(c) ==
  /\ pc[c] = "reacquire"
  /\ IF lease = Nobody
     THEN lease' = c /\ Goto(c, "fetch")
     ELSE UNCHANGED lease /\ Goto(c, "returned")
  /\ UNCHANGED <<row, life, user, newest, mutex, force, cookie, resp, result>>

Reacquire(c) ==
  /\ pc[c] = "reacquire"
  /\ IF lease = Nobody
     THEN lease' = c /\ Goto(c, "fetch")
     ELSE UNCHANGED lease /\ Goto(c, "unlock")
  /\ UNCHANGED <<row, life, user, newest, mutex, force, cookie, resp, result>>

(* Mutant: the answer's user is not compared with the row's account.       *)
FetchOk_AnyUser(c) ==
  /\ pc[c] = "fetch"
  /\ \E t \in Tokens \ UsedTokens, u \in Users :
       /\ life' = [life EXCEPT ![t] = "fresh"]
       /\ user' = [user EXCEPT ![t] = u]
       /\ result' = [result EXCEPT ![c] = t]
       /\ resp' = [resp EXCEPT ![c] = [kind |-> "ok", payload |-> cookie[c].payload]]
       /\ Goto(c, "save")
  /\ UNCHANGED <<row, lease, newest, mutex, force, cookie>>

(* RefreshSession answers with a JWT, for the user the browser session is  *)
(* logged in as by now, and maybe with a rotated cookie.  An answer for    *)
(* another user than the row's is dropped with its cookie.                 *)
FetchOk(c) ==
  /\ pc[c] = "fetch"
  /\ \E t \in Tokens \ UsedTokens, u \in Users,
        p \in {cookie[c].payload} \cup (Payloads \ UsedPayloads) :
       LET mine == cookie[c].acct \in {NoUser, u} \/ t \in Opaque IN
       /\ life' = [x \in Tokens |-> IF x = t THEN "fresh"
                                    ELSE IF x \in UsedTokens THEN life[x] ELSE "unused"]
       /\ user' = [user EXCEPT ![t] = u]
       /\ newest' = IF p = cookie[c].payload THEN newest ELSE p
       /\ result' = [result EXCEPT ![c] = IF mine THEN t ELSE NoToken]
       /\ resp' = [resp EXCEPT ![c] = [kind |-> "ok", payload |-> p]]
       /\ Goto(c, IF mine THEN "save" ELSE "changed")
  /\ UNCHANGED <<row, lease, mutex, force, cookie>>

(* Mutant: a cookie rotated by a failed refresh is not kept.               *)
FetchFails_DropsRotation(c) ==
  /\ pc[c] = "fetch"
  /\ \E kind \in FailureKinds, p \in {cookie[c].payload} \cup (Payloads \ UsedPayloads) :
       /\ newest' = IF p = cookie[c].payload THEN newest ELSE p
       /\ resp' = [resp EXCEPT ![c] = [kind |-> kind, payload |-> p]]
       /\ Goto(c, "failed")
  /\ UNCHANGED <<row, lease, life, user, mutex, force, cookie, result>>

(* RefreshSession fails.  A 200 response without a usable JWT (none, an    *)
(* expired one, or invalid JSON) may still rotate the cookie.              *)
FetchFails(c) ==
  /\ pc[c] = "fetch"
  /\ \E kind \in FailureKinds, p \in {cookie[c].payload} \cup (Payloads \ UsedPayloads) :
       /\ newest' = IF p = cookie[c].payload THEN newest ELSE p
       /\ resp' = [resp EXCEPT ![c] = [kind |-> kind, payload |-> p]]
       /\ Goto(c, IF p = cookie[c].payload THEN "failed" ELSE "rotate")
  /\ UNCHANGED <<row, lease, life, user, mutex, force, cookie, result>>

(* Keep the rotated cookie of a failed refresh.                            *)
Rotate(c) ==
  /\ pc[c] = "rotate"
  /\ row' = UpdateCookieValue(row, resp[c].payload)
  /\ Goto(c, "failed")
  /\ UNCHANGED <<lease, life, user, newest, mutex, force, cookie, resp, result>>

(* Recording a failure reads and writes the row in one transaction.  SQLite*)
(* fails the write if another process has written in between.              *)
Contended == \E p, q \in Procs : p # q

(* The refresh failed but the old JWT still works: record the failure and  *)
(* return that JWT (recordSessionRefreshFailureOnly, allowDisable = false).*)
KeepWorkingToken(c) ==
  /\ pc[c] = "failed"
  /\ ReturnToken(c, cookie[c].token, FALSE, cookie[c].acct)
  /\ \/ row' = IF pc'[c] = "changed" THEN row
               ELSE RecordCookieRefreshFailure(row, resp[c].kind)
     \/ Contended /\ UNCHANGED row
  /\ UNCHANGED <<lease, life, user, newest, mutex, force, cookie, resp>>

FailLimit == 2

(* Mutants: disable at the first failure; disable without looking at the   *)
(* JWT that still works; take every failure for a dead session.            *)
RecordFailure_LimitOffByOne(c) ==
  /\ pc[c] = "failed"
  /\ ~Fresh(cookie[c].token, FALSE)
  /\ row' = RecordCookieRefreshFailure(row, resp[c].kind)
  /\ Goto(c, IF resp[c].kind = "auth" /\ FailureCount(row, "auth") > FailLimit - 2
             THEN "invalid" ELSE "unlock")
  /\ UNCHANGED <<lease, life, user, newest, mutex, force, cookie, resp, result>>
RecordFailure_IgnoresJwt(c) ==
  /\ pc[c] = "failed"
  /\ row' = RecordCookieRefreshFailure(row, resp[c].kind)
  /\ Goto(c, IF resp[c].kind = "auth" /\ FailureCount(row, "auth") >= FailLimit
             THEN "invalid" ELSE "unlock")
  /\ UNCHANGED <<lease, life, user, newest, mutex, force, cookie, resp, result>>

RecordFailure_AnyKind(c) ==
  /\ pc[c] = "failed"
  /\ ~Fresh(cookie[c].token, FALSE)
  /\ row' = RecordCookieRefreshFailure(row, "auth")
  /\ Goto(c, IF FailureCount(row, "auth") >= FailLimit THEN "invalid" ELSE "unlock")
  /\ UNCHANGED <<lease, life, user, newest, mutex, force, cookie, resp, result>>

(* recordSessionRefreshFailure: no JWT left.  The second authentication    *)
(* failure in a row confirms that the session is dead.                     *)
RecordFailure(c) ==
  /\ pc[c] = "failed"
  /\ ~Fresh(cookie[c].token, FALSE)
  /\ \/ /\ row' = RecordCookieRefreshFailure(row, resp[c].kind)
        /\ Goto(c, IF resp[c].kind # "auth" THEN "temporary"
                   ELSE IF FailureCount(row, "auth") >= FailLimit THEN "invalid" ELSE "unlock")
     \/ /\ Contended
        /\ UNCHANGED row
        /\ Goto(c, "unlock")
  /\ UNCHANGED <<lease, life, user, newest, mutex, force, cookie, resp, result>>

(* SetCookieSessionState, for a temporary and for a confirmed failure.     *)
MarkTemporary(c) ==
  /\ pc[c] = "temporary"
  /\ row' = SetTemporary(row)
  /\ Goto(c, "unlock")
  /\ UNCHANGED <<lease, life, user, newest, mutex, force, cookie, resp, result>>

MarkInvalid(c) ==
  /\ pc[c] = "invalid"
  /\ row' = SetInvalid(row)
  /\ Goto(c, "unlock")
  /\ UNCHANGED <<lease, life, user, newest, mutex, force, cookie, resp, result>>

(* disableCookie("ACCOUNT_CHANGED").                                       *)
MarkChanged(c) ==
  /\ pc[c] = "changed"
  /\ row' = AutoDisableCookie(row, "ACCOUNT_CHANGED")
  /\ Goto(c, "unlock")
  /\ UNCHANGED <<lease, life, user, newest, mutex, force, cookie, resp, result>>

(* A successful refresh is stored in two statements.                       *)
Save(c) ==
  /\ pc[c] = "save"
  /\ row' = UpdateCookieValue(row, resp[c].payload)
  /\ Goto(c, "success")
  /\ UNCHANGED <<lease, life, user, newest, mutex, force, cookie, resp, result>>

Success(c) ==
  /\ pc[c] = "success"
  /\ row' = UpdateCookieSessionSuccess(row, result[c])
  /\ Goto(c, "unlock")
  /\ UNCHANGED <<lease, life, user, newest, mutex, force, cookie, resp, result>>

(* Mutant: the release does not ask who owns the lease.                    *)
Unlock_ReleasesAny(c) ==
  /\ pc[c] = "unlock"
  /\ lease' = Nobody
  /\ mutex' = [mutex EXCEPT ![ProcOf[c]] = Nobody]
  /\ cookie' = [cookie EXCEPT ![c] = NoCopy]
  /\ resp' = [resp EXCEPT ![c] = NoResp]
  /\ Goto(c, "returned")
  /\ UNCHANGED <<row, life, user, newest, force, result>>

(* The deferred calls: release the lease if this call owns it, then unlock.*)
Unlock(c) ==
  /\ pc[c] = "unlock"
  /\ lease' = IF lease = c THEN Nobody ELSE lease
  /\ mutex' = [mutex EXCEPT ![ProcOf[c]] = Nobody]
  /\ cookie' = [cookie EXCEPT ![c] = NoCopy]
  /\ resp' = [resp EXCEPT ![c] = NoResp]
  /\ Goto(c, "returned")
  /\ UNCHANGED <<row, life, user, newest, force, result>>

(* The caller has used the JWT, or has done without.                       *)
Done(c) ==
  /\ pc[c] = "returned"
  /\ Goto(c, "idle")
  /\ result' = [result EXCEPT ![c] = NoToken]
  /\ UNCHANGED <<row, lease, life, user, newest, mutex, force, cookie, resp>>

Resolve(c) ==
  \/ Lock(c) \/ Load(c) \/ TokenOnly(c) \/ Acquire(c) \/ Poll(c) \/ Reacquire(c)
  \/ FetchOk(c) \/ FetchFails(c) \/ Rotate(c) \/ KeepWorkingToken(c) \/ RecordFailure(c)
  \/ MarkTemporary(c) \/ MarkInvalid(c) \/ MarkChanged(c)
  \/ Save(c) \/ Success(c) \/ Unlock(c)
-----------------------------------------------------------------------------
(* Time passes: a JWT grows old, a cooldown or an orphaned lease ends.     *)
Age(t) ==
  /\ t \in UsedTokens
  /\ life[t] \in {"fresh", "late"}
  /\ life' = [life EXCEPT ![t] = IF @ = "fresh" THEN "late" ELSE "expired"]
  /\ UNCHANGED <<row, lease, user, newest, mutex, pc, force, cookie, resp, result>>

CoolDown ==
  /\ row.cooling
  /\ row' = [row EXCEPT !.cooling = FALSE]
  /\ UNCHANGED <<lease, life, user, newest, mutex, pc, force, cookie, resp, result>>

OrphanExpires ==
  /\ lease = Orphan
  /\ lease' = Nobody
  /\ UNCHANGED <<row, life, user, newest, mutex, pc, force, cookie, resp, result>>

(* A process dies with all its goroutines; its lease stays in the row.     *)
Crash(p) ==
  LET gone == {c \in Callers : ProcOf[c] = p} IN
  /\ p \in CrashProcs
  /\ lease' = IF lease \in gone THEN Orphan ELSE lease
  /\ mutex' = [mutex EXCEPT ![p] = Nobody]
  /\ pc' = [c \in Callers |-> IF c \in gone THEN "idle" ELSE pc[c]]
  /\ force' = [c \in Callers |-> IF c \in gone THEN FALSE ELSE force[c]]
  /\ cookie' = [c \in Callers |-> IF c \in gone THEN NoCopy ELSE cookie[c]]
  /\ resp' = [c \in Callers |-> IF c \in gone THEN NoResp ELSE resp[c]]
  /\ result' = [c \in Callers |-> IF c \in gone THEN NoToken ELSE result[c]]
  /\ UNCHANGED <<row, life, user, newest>>

Environment ==
  \/ \E t \in Tokens : Age(t)
  \/ CoolDown
  \/ OrphanExpires
  \/ \E p \in Procs : Crash(p)
-----------------------------------------------------------------------------
Init ==
  /\ row \in InitRows
  /\ lease = Nobody
  /\ life = [t \in Tokens |-> IF t \in {row.jwt, row.embedded} THEN "fresh" ELSE "unused"]
  /\ user \in [Tokens -> Users]
  /\ row.acct # NoUser /\ ParsedToken(row) # NoToken => user[ParsedToken(row)] = row.acct
  /\ newest = row.payload
  /\ mutex = [p \in Procs |-> Nobody]
  /\ pc = [c \in Callers |-> "idle"]
  /\ force = [c \in Callers |-> FALSE]
  /\ cookie = [c \in Callers |-> NoCopy]
  /\ resp = [c \in Callers |-> NoResp]
  /\ result = [c \in Callers |-> NoToken]

Next ==
  \/ \E c \in Callers : (\E f \in BOOLEAN : Begin(c, f)) \/ Resolve(c) \/ Done(c)
  \/ Environment

Spec == Init /\ [][Next]_vars

(* A goroutine that can take its next step takes it: get-session has a 60  *)
(* second timeout, SQLite a 30 second one, waiting for the lease ends      *)
(* after 8 seconds, and a Go mutex is handed to a waiter that keeps losing.*)
FairSpec ==
  Spec /\ \A c \in Callers : WF_vars(Resolve(c)) /\ SF_vars(Lock(c))
-----------------------------------------------------------------------------
(* Between sending get-session and storing its answer.                     *)
Refreshing(c) == pc[c] \in {"fetch", "rotate", "save", "success"}

(* "serialized get-session refresh" (session_manager.go:57, cookies.go:356):
   at most one caller of all processes is refreshing the account, whatever
   the interleaving and whichever process dies.                            *)
RefreshSerialized ==
  \A c, d \in Callers : Refreshing(c) /\ Refreshing(d) => c = d

(* The get-session requests of all processes go through the gate. *)
Gate == INSTANCE GetSessionGate
          WITH Requesters <- Callers, inside <- {c \in Callers : pc[c] = "fetch"}
GateSpec == Gate!GateSpec

(* A row bound to a Leonardo user never stores, and no call ever returns, a
   JWT that is known to be another user's, although the browser session may be switched to
   another user between any two steps (pool.go:478-483).                   *)
OwnAccountOnly ==
  row.acct # NoUser =>
    \A t \in {row.jwt, row.embedded} \cup {result[c] : c \in Callers} :
      t \notin Opaque \cup {NoToken} => user[t] = row.acct

(* A rotated browser cookie reaches the row: unless a caller is just about
   to store it, the row holds the cookie Leonardo issued last
   (session_manager.go:145-146, "Persist safe, non-destructive rotations"). *)
RotationKept ==
  (\A c \in Callers : pc[c] \notin {"rotate", "save"}) => row.payload = newest

(* The account is disabled as INVALID only while the row says that the last
   two refreshes both failed with an authentication error: recording a
   failure and disabling the account are two statements, and no success of
   another caller may come between them (session_manager.go:270-277,
   cookies.go:423-425).                                                    *)
InvalidConfirmed ==
  [][row'.disabled = "INVALID" /\ row.disabled # "INVALID" =>
       row.fails >= FailLimit /\ row.reason = "auth"]_vars

(* Within one process an account whose stored JWT still works is not
   disabled as INVALID: "A proactive refresh failure does not discard a JWT
   that still works" (session_manager.go:152).                             *)
WorkingJwtNotDisabled ==
  [][row'.disabled = "INVALID" /\ row.disabled # "INVALID" => ~Fresh(row.jwt, FALSE)]_vars

(* No call hangs: the mutex, the lease of a dead process and a slow other
   process delay it, but it returns (session_manager.go:117-142).          *)
CallReturns ==
  \A c \in Callers : pc[c] = "lock" ~> pc[c] \in {"returned", "idle"}

(* "The next refresh then uses Leonardo's newest session_token/data"
   (session_manager.go:146): within one process get-session is sent the
   newest cookie.                                                          *)
FetchUsesNewest ==
  \A c \in Callers : pc[c] = "fetch" => cookie[c].payload = newest
=============================================================================
