------------------------ MODULE SessionManagerProofs ------------------------
(* Proofs about SessionManager, for every set of callers, processes and    *)
(* initial rows.                                                           *)
EXTENDS SessionManager, TLAPS

USE DEF Goto
-----------------------------------------------------------------------------
(* Every statement of AccountRow maps rows to rows. *)
LEMMA RowOperators ==
  ASSUME NEW r \in Row
  PROVE  /\ \A p \in Payloads \cup {NoPayload} : UpdateCookieValue(r, p) \in Row
         /\ \A t \in Tokens \cup {NoToken} : UpdateCookieSessionSuccess(r, t) \in Row
         /\ \A kind \in FailureKinds : RecordCookieRefreshFailure(r, kind) \in Row
         /\ SetTemporary(r) \in Row
         /\ SetInvalid(r) \in Row
         /\ \A why \in Reasons : AutoDisableCookie(r, why) \in Row
         /\ [r EXCEPT !.cooling = FALSE] \in Row
         /\ CopyOf(r) \in Copy
<1>1. ASSUME NEW kind \in FailureKinds PROVE RecordCookieRefreshFailure(r, kind) \in Row
  <2>1. r.fails \in 0..FailCap
    BY DEF Row
  <2>2. FailCap \in Nat /\ FailCap >= 2
    BY RowAssumption
  <2>3. FailureCount(r, kind) \in 0..FailCap
    BY <2>1, <2>2 DEF FailureCount
  <2> QED
    BY <2>3 DEF RecordCookieRefreshFailure, Row
<1>2. ASSUME NEW p \in Payloads \cup {NoPayload} PROVE UpdateCookieValue(r, p) \in Row
  BY DEF UpdateCookieValue, Row
<1>3. ASSUME NEW t \in Tokens \cup {NoToken} PROVE UpdateCookieSessionSuccess(r, t) \in Row
  <2>1. 0 \in 0..FailCap
    BY RowAssumption
  <2>2. CASE r.disabled \in SelfHealing
    BY <2>1, <2>2 DEF UpdateCookieSessionSuccess, Row, Status, Reasons
  <2>3. CASE r.disabled \notin SelfHealing
    BY <2>1, <2>3 DEF UpdateCookieSessionSuccess, Row, Status, Reasons
  <2> QED
    BY <2>2, <2>3
<1>4. ASSUME NEW why \in Reasons PROVE AutoDisableCookie(r, why) \in Row
  BY DEF AutoDisableCookie, Row
<1>5. SetTemporary(r) \in Row /\ SetInvalid(r) \in Row /\ [r EXCEPT !.cooling = FALSE] \in Row
  BY DEF SetTemporary, SetInvalid, Row, Status, Reasons
<1>6. CopyOf(r) \in Copy
  BY DEF CopyOf, Copy, Row, ParsedToken
<1> QED
  BY <1>1, <1>2, <1>3, <1>4, <1>5, <1>6
-----------------------------------------------------------------------------
(* Type correctness. *)
(* A call that records a failure has one to record. *)
FailureKnown == \A c \in Callers : pc[c] \in {"rotate", "failed"} => resp[c].kind \in FailureKinds
Typed == TypeOK /\ FailureKnown

LEMMA InitTyped == Init => Typed
<1> SUFFICES ASSUME Init PROVE Typed
  OBVIOUS
<1>1. row \in Row
  BY CallerAssumption DEF Init
<1>2. newest \in Payloads \cup {NoPayload}
  BY <1>1 DEF Init, Row
<1>3. NoCopy \in Copy /\ NoResp \in Resp
  BY DEF NoCopy, Copy, NoResp, Resp
<1> QED
  BY <1>1, <1>2, <1>3 DEF Init, Typed, TypeOK, FailureKnown, Lives, PC

LEMMA TypingPreserved == Typed /\ [Next]_vars => Typed'
<1> SUFFICES ASSUME TypeOK, FailureKnown, [Next]_vars PROVE TypeOK' /\ FailureKnown'
  BY DEF Typed
<1> USE DEF PC
<1>a. NoCopy \in Copy /\ NoResp \in Resp
  BY DEF NoCopy, Copy, NoResp, Resp
<1>1. ASSUME NEW c \in Callers, NEW f \in BOOLEAN, Begin(c, f) PROVE TypeOK' /\ FailureKnown'
  BY <1>1 DEF Begin, TypeOK, FailureKnown
<1>2. ASSUME NEW c \in Callers, Lock(c) PROVE TypeOK' /\ FailureKnown'
  BY <1>2, CallerAssumption DEF Lock, TypeOK, FailureKnown
<1>3. ASSUME NEW c \in Callers, Load(c) PROVE TypeOK' /\ FailureKnown'
  <2>1. CopyOf(row) \in Copy /\ ParsedToken(row) \in Tokens \cup {NoToken}
    BY DEF TypeOK, CopyOf, Copy, Row, ParsedToken
  <2> QED
    BY <1>3, <2>1 DEF Load, ReturnToken, TypeOK, FailureKnown
<1>4. ASSUME NEW c \in Callers, TokenOnly(c) PROVE TypeOK' /\ FailureKnown'
  <2>1. cookie[c].token \in Tokens \cup {NoToken}
    BY DEF TypeOK, Copy
  <2>2. [kind |-> "auth", payload |-> NoPayload] \in Resp /\ "auth" \in FailureKinds
    BY DEF Resp, FailureKinds
  <2>3. CASE ReturnToken(c, cookie[c].token, FALSE, cookie[c].acct) /\ UNCHANGED resp
    BY <1>4, <2>1, <2>3 DEF TokenOnly, ReturnToken, TypeOK, FailureKnown
  <2>4. CASE /\ resp' = [resp EXCEPT ![c] = [kind |-> "auth", payload |-> NoPayload]]
             /\ Goto(c, "failed")
             /\ UNCHANGED result
    BY <1>4, <2>2, <2>4 DEF TokenOnly, TypeOK, FailureKnown
  <2> QED
    BY <1>4, <2>3, <2>4 DEF TokenOnly
<1>5. ASSUME NEW c \in Callers, Acquire(c) PROVE TypeOK' /\ FailureKnown'
  BY <1>5 DEF Acquire, TypeOK, FailureKnown
<1>6. ASSUME NEW c \in Callers, Poll(c) PROVE TypeOK' /\ FailureKnown'
  <2>1. row.jwt \in Tokens \cup {NoToken}
    BY DEF TypeOK, Row
  <2> QED
    BY <1>6, <2>1 DEF Poll, ReturnToken, TypeOK, FailureKnown
<1>7. ASSUME NEW c \in Callers, Reacquire(c) PROVE TypeOK' /\ FailureKnown'
  BY <1>7 DEF Reacquire, TypeOK, FailureKnown
<1>8. ASSUME NEW c \in Callers, FetchOk(c) PROVE TypeOK' /\ FailureKnown'
  <2>1. PICK t \in Tokens \ UsedTokens, u \in Users,
             p \in {cookie[c].payload} \cup (Payloads \ UsedPayloads) : FetchOk(c)!2!(t, u, p)
    BY <1>8 DEF FetchOk
  <2>2. p \in Payloads \cup {NoPayload}
    BY DEF TypeOK, Copy
  <2>3. [kind |-> "ok", payload |-> p] \in Resp
    BY <2>2 DEF Resp
  <2>4. life' \in [Tokens -> Lives] /\ user' \in [Tokens -> Users]
    BY <2>1 DEF TypeOK, Lives
  <2>5. newest' \in Payloads \cup {NoPayload}
    BY <2>1, <2>2 DEF TypeOK
  <2>6. result' \in [Callers -> Tokens \cup {NoToken}] /\ resp' \in [Callers -> Resp]
    BY <2>1, <2>3 DEF TypeOK
  <2>7. pc' \in [Callers -> PC] /\ pc'[c] \notin {"rotate", "failed"}
    BY <2>1 DEF TypeOK
  <2>8. \A d \in Callers \ {c} : pc'[d] = pc[d] /\ resp'[d] = resp[d]
    BY <2>1 DEF TypeOK
  <2> QED
    BY <1>8, <2>4, <2>5, <2>6, <2>7, <2>8 DEF FetchOk, TypeOK, FailureKnown
<1>9. ASSUME NEW c \in Callers, FetchFails(c) PROVE TypeOK' /\ FailureKnown'
  <2>1. PICK kind \in FailureKinds, p \in {cookie[c].payload} \cup (Payloads \ UsedPayloads) :
               FetchFails(c)!2!(kind, p)
    BY <1>9 DEF FetchFails
  <2>2. p \in Payloads \cup {NoPayload}
    BY DEF TypeOK, Copy
  <2>3. [kind |-> kind, payload |-> p] \in Resp
    BY <2>2 DEF Resp
  <2> QED
    BY <1>9, <2>1, <2>2, <2>3 DEF FetchFails, TypeOK, FailureKnown
<1>10. ASSUME NEW c \in Callers, Rotate(c) PROVE TypeOK' /\ FailureKnown'
  <2>1. UpdateCookieValue(row, resp[c].payload) \in Row
    BY RowOperators DEF TypeOK, Resp
  <2>2. resp[c].kind \in FailureKinds
    BY <1>10 DEF Rotate, FailureKnown
  <2> QED
    BY <1>10, <2>1, <2>2 DEF Rotate, TypeOK, FailureKnown
<1>11. ASSUME NEW c \in Callers, KeepWorkingToken(c) PROVE TypeOK' /\ FailureKnown'
  <2>1. RecordCookieRefreshFailure(row, resp[c].kind) \in Row
    BY <1>11, RowOperators DEF KeepWorkingToken, TypeOK, FailureKnown
  <2>2. row' \in Row
    BY <1>11, <2>1 DEF KeepWorkingToken, TypeOK
  <2>3. cookie[c].token \in Tokens \cup {NoToken}
    BY DEF TypeOK, Copy
  <2> QED
    BY <1>11, <2>2, <2>3 DEF KeepWorkingToken, ReturnToken, TypeOK, FailureKnown
<1>12. ASSUME NEW c \in Callers, RecordFailure(c) PROVE TypeOK' /\ FailureKnown'
  <2>1. RecordCookieRefreshFailure(row, resp[c].kind) \in Row
    BY <1>12, RowOperators DEF RecordFailure, TypeOK, FailureKnown
  <2>2. pc' \in [Callers -> PC]
    BY <1>12 DEF RecordFailure, TypeOK
  <2>3. pc'[c] \notin {"rotate", "failed"} /\ \A d \in Callers \ {c} : pc'[d] = pc[d]
    BY <1>12 DEF RecordFailure, TypeOK
  <2> QED
    BY <1>12, <2>1, <2>2, <2>3 DEF RecordFailure, TypeOK, FailureKnown
<1>13. ASSUME NEW c \in Callers, MarkTemporary(c) PROVE TypeOK' /\ FailureKnown'
  BY <1>13, RowOperators DEF MarkTemporary, TypeOK, FailureKnown
<1>14. ASSUME NEW c \in Callers, MarkInvalid(c) PROVE TypeOK' /\ FailureKnown'
  BY <1>14, RowOperators DEF MarkInvalid, TypeOK, FailureKnown
<1>15. ASSUME NEW c \in Callers, MarkChanged(c) PROVE TypeOK' /\ FailureKnown'
  BY <1>15, RowOperators DEF MarkChanged, TypeOK, FailureKnown, Reasons
<1>16. ASSUME NEW c \in Callers, Save(c) PROVE TypeOK' /\ FailureKnown'
  <2>1. UpdateCookieValue(row, resp[c].payload) \in Row
    BY RowOperators DEF TypeOK, Resp
  <2> QED
    BY <1>16, <2>1 DEF Save, TypeOK, FailureKnown
<1>17. ASSUME NEW c \in Callers, Success(c) PROVE TypeOK' /\ FailureKnown'
  <2>1. UpdateCookieSessionSuccess(row, result[c]) \in Row
    BY RowOperators DEF TypeOK
  <2> QED
    BY <1>17, <2>1 DEF Success, TypeOK, FailureKnown
<1>18. ASSUME NEW c \in Callers, Unlock(c) PROVE TypeOK' /\ FailureKnown'
  BY <1>18, <1>a, CallerAssumption DEF Unlock, TypeOK, FailureKnown
<1>19. ASSUME NEW c \in Callers, Done(c) PROVE TypeOK' /\ FailureKnown'
  BY <1>19 DEF Done, TypeOK, FailureKnown
<1>20. ASSUME NEW t \in Tokens, Age(t) PROVE TypeOK' /\ FailureKnown'
  BY <1>20 DEF Age, TypeOK, FailureKnown, Lives
<1>21. ASSUME CoolDown PROVE TypeOK' /\ FailureKnown'
  BY <1>21, RowOperators DEF CoolDown, TypeOK, FailureKnown
<1>22. ASSUME OrphanExpires PROVE TypeOK' /\ FailureKnown'
  BY <1>22 DEF OrphanExpires, TypeOK, FailureKnown
<1>23. ASSUME NEW p \in Procs, Crash(p) PROVE TypeOK' /\ FailureKnown'
  <2>1. pc' \in [Callers -> PC] /\ cookie' \in [Callers -> Copy] /\ resp' \in [Callers -> Resp]
    BY <1>23, <1>a DEF Crash, TypeOK
  <2>2. force' \in [Callers -> BOOLEAN] /\ result' \in [Callers -> Tokens \cup {NoToken}]
    BY <1>23 DEF Crash, TypeOK
  <2>3. lease' \in Callers \cup {Orphan, Nobody} /\ mutex' \in [Procs -> Callers \cup {Nobody}]
    BY <1>23 DEF Crash, TypeOK
  <2>4. FailureKnown'
    BY <1>23 DEF Crash, TypeOK, FailureKnown
  <2> QED
    BY <1>23, <2>1, <2>2, <2>3, <2>4 DEF Crash, TypeOK
<1>24. CASE UNCHANGED vars
  BY <1>24 DEF vars, TypeOK, FailureKnown
<1>25. ASSUME NEW c \in Callers, Resolve(c) PROVE TypeOK' /\ FailureKnown'
  BY <1>2, <1>3, <1>4, <1>5, <1>6, <1>7, <1>8, <1>9, <1>10, <1>11, <1>12, <1>13, <1>14,
     <1>15, <1>16, <1>17, <1>18, <1>25 DEF Resolve
<1>26. ASSUME Environment PROVE TypeOK' /\ FailureKnown'
  BY <1>20, <1>21, <1>22, <1>23, <1>26 DEF Environment
<1> QED
  BY <1>1, <1>19, <1>24, <1>25, <1>26 DEF Next

(* The variables, and so the columns of the row, keep their types. *)
THEOREM TypeCorrect == Spec => []TypeOK
<1>1. Typed => TypeOK
  BY DEF Typed
<1> QED
  BY <1>1, InitTyped, TypingPreserved, PTL DEF Spec
-----------------------------------------------------------------------------
(* Mutual exclusion.  A refreshing caller owns the lease: it took the lease
   when it was free, only its owner releases it, and the lease of a dead
   process ends as Orphan's.                                               *)
RefresherOwnsLease == \A c \in Callers : Refreshing(c) => lease = c

LEMMA OwnershipPreserved == TypeOK /\ RefresherOwnsLease /\ [Next]_vars => RefresherOwnsLease'
<1> SUFFICES ASSUME TypeOK, RefresherOwnsLease, [Next]_vars PROVE RefresherOwnsLease'
  OBVIOUS
<1> USE DEF RefresherOwnsLease, Refreshing, TypeOK
<1>a. Nobody \notin Callers /\ Orphan \notin Callers
  BY CallerAssumption
<1>1. ASSUME NEW c \in Callers, Acquire(c) \/ Reacquire(c) PROVE RefresherOwnsLease'
  BY <1>1, <1>a DEF Acquire, Reacquire
<1>2. ASSUME NEW c \in Callers, Unlock(c) PROVE RefresherOwnsLease'
  BY <1>2 DEF Unlock
<1>3. ASSUME NEW p \in Procs, Crash(p) PROVE RefresherOwnsLease'
  BY <1>3 DEF Crash
<1>4. CASE OrphanExpires
  BY <1>4, <1>a DEF OrphanExpires
<1>5. ASSUME NEW c \in Callers, UNCHANGED lease, \A d \in Callers \ {c} : pc'[d] = pc[d],
             Refreshing(c)' => Refreshing(c)
      PROVE  RefresherOwnsLease'
  BY <1>5
<1>6. ASSUME NEW c \in Callers, (\E f \in BOOLEAN : Begin(c, f)) \/ Lock(c) \/ Done(c)
      PROVE  RefresherOwnsLease'
  BY <1>5, <1>6 DEF Begin, Lock, Done
<1>7. ASSUME NEW c \in Callers, Load(c) PROVE RefresherOwnsLease'
  BY <1>5, <1>7 DEF Load, ReturnToken
<1>8. ASSUME NEW c \in Callers, TokenOnly(c) \/ Poll(c) \/ KeepWorkingToken(c)
      PROVE  RefresherOwnsLease'
  BY <1>5, <1>8 DEF TokenOnly, Poll, KeepWorkingToken, ReturnToken
<1>9. ASSUME NEW c \in Callers, FetchOk(c) PROVE RefresherOwnsLease'
  BY <1>5, <1>9 DEF FetchOk
<1>10. ASSUME NEW c \in Callers, FetchFails(c) PROVE RefresherOwnsLease'
  BY <1>5, <1>10 DEF FetchFails
<1>11. ASSUME NEW c \in Callers, Rotate(c) \/ RecordFailure(c) PROVE RefresherOwnsLease'
  BY <1>5, <1>11 DEF Rotate, RecordFailure
<1>12. ASSUME NEW c \in Callers,
              MarkTemporary(c) \/ MarkInvalid(c) \/ MarkChanged(c) \/ Save(c) \/ Success(c)
       PROVE  RefresherOwnsLease'
  BY <1>5, <1>12 DEF MarkTemporary, MarkInvalid, MarkChanged, Save, Success
<1>13. ASSUME UNCHANGED <<pc, lease>> PROVE RefresherOwnsLease'
  BY <1>13
<1>14. ASSUME NEW c \in Callers, Resolve(c) PROVE RefresherOwnsLease'
  BY <1>1, <1>2, <1>6, <1>7, <1>8, <1>9, <1>10, <1>11, <1>12, <1>14 DEF Resolve
<1>15. ASSUME Environment PROVE RefresherOwnsLease'
  BY <1>3, <1>4, <1>13, <1>15 DEF Environment, Age, CoolDown
<1> QED
  BY <1>6, <1>13, <1>14, <1>15 DEF Next, vars

(* At most one caller of all processes is refreshing the account, whatever
   the interleaving and whichever process dies at which step.              *)
THEOREM RefreshIsSerialized == Spec => []RefreshSerialized
<1>1. Init => RefresherOwnsLease
  BY DEF Init, RefresherOwnsLease, Refreshing
<1>2. RefresherOwnsLease => RefreshSerialized
  BY DEF RefresherOwnsLease, RefreshSerialized
<1>3. Typed => TypeOK
  BY DEF Typed
<1> QED
  BY <1>1, <1>2, <1>3, InitTyped, TypingPreserved, OwnershipPreserved, PTL DEF Spec
-----------------------------------------------------------------------------
(* The session manager implements the gate. *)
InFlight == {c \in Callers : pc[c] = "fetch"}

LEMMA OneInFlight ==
  ASSUME RefresherOwnsLease, NEW c \in Callers, pc[c] = "fetch"
  PROVE  InFlight = {c}
  BY DEF RefresherOwnsLease, Refreshing, InFlight

(* A caller goes somewhere else than to get-session. *)
LEMMA OtherStep ==
  ASSUME TypeOK, RefresherOwnsLease, NEW c \in Callers, NEW l, l # "fetch", Goto(c, l)
  PROVE  [Gate!GateNext]_InFlight
<1>1. CASE pc[c] = "fetch"
  <2>1. InFlight = {c}
    BY <1>1, OneInFlight
  <2>2. InFlight' = {}
    BY <2>1 DEF InFlight, TypeOK
  <2> QED
    BY <2>1, <2>2 DEF Gate!GateNext, Gate!Leave, InFlight
<1>2. CASE pc[c] # "fetch"
  BY <1>2 DEF InFlight, TypeOK
<1> QED
  BY <1>1, <1>2

LEMMA GateStep ==
  ASSUME TypeOK, RefresherOwnsLease, [Next]_vars
  PROVE  [Gate!GateNext]_InFlight
<1>1. ASSUME NEW c \in Callers, Acquire(c) \/ Reacquire(c) PROVE [Gate!GateNext]_InFlight
  <2>1. CASE lease = Nobody /\ Goto(c, "fetch")
    <3>1. InFlight = {}
      BY <2>1, CallerAssumption DEF RefresherOwnsLease, Refreshing, InFlight
    <3>2. InFlight' = {c}
      BY <2>1, <3>1 DEF InFlight, TypeOK
    <3> QED
      BY <3>1, <3>2 DEF Gate!GateNext, Gate!Enter, InFlight
  <2>2. CASE Goto(c, "wait") \/ Goto(c, "unlock")
    BY <2>2, OtherStep
  <2> QED
    BY <1>1, <2>1, <2>2 DEF Acquire, Reacquire
<1>2. ASSUME NEW c \in Callers, NEW l \in PC \ {"fetch"}, Goto(c, l)
      PROVE  [Gate!GateNext]_InFlight
  BY <1>2, OtherStep
<1>3. ASSUME NEW c \in Callers, (\E f \in BOOLEAN : Begin(c, f)) \/ Lock(c) \/ Unlock(c) \/ Done(c)
      PROVE  [Gate!GateNext]_InFlight
  BY <1>2, <1>3 DEF Begin, Lock, Unlock, Done, PC
<1>4. ASSUME NEW c \in Callers, NEW t, NEW margin, NEW e, ReturnToken(c, t, margin, e)
      PROVE  [Gate!GateNext]_InFlight
  BY <1>2, <1>4 DEF ReturnToken, PC
<1>5. ASSUME NEW c \in Callers, Load(c) \/ TokenOnly(c) \/ Poll(c) \/ KeepWorkingToken(c)
      PROVE  [Gate!GateNext]_InFlight
  BY <1>2, <1>4, <1>5 DEF Load, TokenOnly, Poll, KeepWorkingToken, PC
<1>6. ASSUME NEW c \in Callers, FetchOk(c) \/ FetchFails(c) PROVE [Gate!GateNext]_InFlight
  BY <1>2, <1>6 DEF FetchOk, FetchFails, PC
<1>7. ASSUME NEW c \in Callers,
             \/ Rotate(c) \/ RecordFailure(c) \/ MarkTemporary(c) \/ MarkInvalid(c)
             \/ MarkChanged(c) \/ Save(c) \/ Success(c)
      PROVE  [Gate!GateNext]_InFlight
  BY <1>2, <1>7 DEF Rotate, RecordFailure, MarkTemporary, MarkInvalid, MarkChanged, Save, Success, PC
<1>8. ASSUME NEW p \in Procs, Crash(p) PROVE [Gate!GateNext]_InFlight
  <2>1. InFlight' = {c \in InFlight : ProcOf[c] # p}
    BY <1>8 DEF Crash, InFlight, TypeOK
  <2>2. \A c \in InFlight : InFlight = {c}
    BY OneInFlight DEF InFlight
  <2>3. InFlight' = InFlight \/ \E c \in Callers : InFlight = {c} /\ InFlight' = {}
    BY <2>1, <2>2 DEF InFlight
  <2> QED
    BY <2>3 DEF Gate!GateNext, Gate!Leave, InFlight
<1>9. CASE UNCHANGED pc
  BY <1>9 DEF InFlight
<1>10. ASSUME NEW c \in Callers, Resolve(c) PROVE [Gate!GateNext]_InFlight
  BY <1>1, <1>3, <1>5, <1>6, <1>7, <1>10 DEF Resolve
<1>11. ASSUME Environment PROVE [Gate!GateNext]_InFlight
  BY <1>8, <1>9, <1>11 DEF Environment, Age, CoolDown, OrphanExpires
<1> QED
  BY <1>3, <1>9, <1>10, <1>11 DEF Next, vars

(* Every behaviour of the session manager is one of the gate: whoever sends
   get-session sends it alone.                                             *)
THEOREM SessionImplementsGate == Spec => GateSpec
<1>1. Init => Gate!GateInit /\ RefresherOwnsLease
  BY DEF Init, Gate!GateInit, RefresherOwnsLease, Refreshing
<1>2. TypeOK /\ RefresherOwnsLease /\ [Next]_vars => [Gate!GateNext]_InFlight
  BY GateStep
<1>3. Typed => TypeOK
  BY DEF Typed
<1> QED
  BY <1>1, <1>2, <1>3, InitTyped, TypingPreserved, OwnershipPreserved, PTL
     DEF Spec, GateSpec, Gate!GateSpec, InFlight
-----------------------------------------------------------------------------
(* A failure and what follows from it.  Whether the row has a browser
   cookie never changes.  If it has one, a caller that records a failure
   still owns the lease; if it has none, every failure is an
   authentication failure.  In both cases nothing can take back the second
   failure before the account is disabled.                                 *)
OnlyToken == row.payload = NoPayload

Recording(c) == pc[c] \in {"failed", "temporary", "invalid"}

OwnedOrTokenOnly ==
  /\ \A c \in Callers :
       /\ pc[c] \in {"acquire", "wait", "reacquire", "fetch", "rotate", "save", "success"} => ~OnlyToken
       /\ pc[c] = "tokenonly" => OnlyToken
       /\ Refreshing(c) => lease = c
       /\ Recording(c) /\ ~OnlyToken => lease = c
       /\ pc[c] = "failed" /\ OnlyToken => resp[c].kind = "auth"
       /\ pc[c] = "invalid" => row.fails >= FailLimit /\ row.reason = "auth"

(* What the statements leave alone of what OwnedOrTokenOnly speaks about. *)
LEMMA FailureColumns ==
  ASSUME NEW r \in Row
  PROVE  /\ \A p \in Payloads \cup {NoPayload} :
              /\ UpdateCookieValue(r, p).fails = r.fails
              /\ UpdateCookieValue(r, p).reason = r.reason
              /\ r.payload # NoPayload => UpdateCookieValue(r, p).payload # NoPayload
         /\ \A t \in Tokens : UpdateCookieSessionSuccess(r, t).payload = r.payload
         /\ \A why \in Reasons :
              LET q == AutoDisableCookie(r, why)
              IN  q.fails = r.fails /\ q.reason = r.reason /\ q.payload = r.payload
         /\ \A q \in {SetTemporary(r), SetInvalid(r), [r EXCEPT !.cooling = FALSE]} :
              q.fails = r.fails /\ q.reason = r.reason /\ q.payload = r.payload
         /\ \A kind \in FailureKinds :
              LET q == RecordCookieRefreshFailure(r, kind)
              IN  q.fails = FailureCount(r, kind) /\ q.reason = kind /\ q.payload = r.payload
         /\ r.reason = "auth" /\ r.fails >= FailLimit => FailureCount(r, "auth") >= FailLimit
<1>1. ASSUME NEW p \in Payloads \cup {NoPayload}
      PROVE  /\ UpdateCookieValue(r, p).fails = r.fails
             /\ UpdateCookieValue(r, p).reason = r.reason
             /\ r.payload # NoPayload => UpdateCookieValue(r, p).payload # NoPayload
  BY DEF UpdateCookieValue, Row
<1>2. ASSUME NEW t \in Tokens PROVE UpdateCookieSessionSuccess(r, t).payload = r.payload
  BY DEF UpdateCookieSessionSuccess, Row
<1>3. ASSUME NEW why \in Reasons
      PROVE  LET q == AutoDisableCookie(r, why)
             IN  q.fails = r.fails /\ q.reason = r.reason /\ q.payload = r.payload
  BY DEF AutoDisableCookie, Row
<1>4. ASSUME NEW q \in {SetTemporary(r), SetInvalid(r), [r EXCEPT !.cooling = FALSE]}
      PROVE  q.fails = r.fails /\ q.reason = r.reason /\ q.payload = r.payload
  BY DEF SetTemporary, SetInvalid, Row
<1>5. ASSUME NEW kind \in FailureKinds
      PROVE  LET q == RecordCookieRefreshFailure(r, kind)
             IN  q.fails = FailureCount(r, kind) /\ q.reason = kind /\ q.payload = r.payload
  BY DEF RecordCookieRefreshFailure, Row
<1>6. r.reason = "auth" /\ r.fails >= FailLimit => FailureCount(r, "auth") >= FailLimit
  <2>1. r.fails \in 0..FailCap
    BY DEF Row
  <2>2. FailCap \in Nat /\ FailCap >= 2
    BY RowAssumption
  <2> QED
    BY <2>1, <2>2 DEF FailureCount, FailLimit
<1> QED
  BY <1>1, <1>2, <1>3, <1>4, <1>5, <1>6

LEMMA OwnedPreserved == Typed /\ OwnedOrTokenOnly /\ [Next]_vars => OwnedOrTokenOnly'
<1> SUFFICES ASSUME TypeOK, FailureKnown, OwnedOrTokenOnly, [Next]_vars PROVE OwnedOrTokenOnly'
  BY DEF Typed
<1> USE DEF OwnedOrTokenOnly, OnlyToken, Recording, Refreshing
<1>a. Nobody \notin Callers /\ Orphan \notin Callers
  BY CallerAssumption
<1>b. pc \in [Callers -> PC] /\ resp \in [Callers -> Resp] /\ row \in Row
  BY DEF TypeOK
<1>1. ASSUME NEW c \in Callers, (\E f \in BOOLEAN : Begin(c, f)) \/ Lock(c) \/ Done(c)
      PROVE  OwnedOrTokenOnly'
  BY <1>1, <1>b DEF Begin, Lock, Done
<1>2. ASSUME NEW c \in Callers, Load(c) PROVE OwnedOrTokenOnly'
  BY <1>2, <1>b DEF Load, ReturnToken
<1>3. ASSUME NEW c \in Callers, TokenOnly(c) PROVE OwnedOrTokenOnly'
  <2>1. pc[c] = "tokenonly" /\ OnlyToken /\ UNCHANGED <<row, lease>>
    BY <1>3 DEF TokenOnly
  <2>2. \A d \in Callers \ {c} : pc'[d] = pc[d] /\ resp'[d] = resp[d]
    BY <1>3, <1>b DEF TokenOnly, ReturnToken
  <2>3. \/ pc'[c] \in {"unlock", "changed"}
        \/ pc'[c] = "failed" /\ resp'[c].kind = "auth"
    <3>1. CASE ReturnToken(c, cookie[c].token, FALSE, cookie[c].acct)
      BY <1>b, <3>1 DEF ReturnToken
    <3>2. CASE /\ resp' = [resp EXCEPT ![c] = [kind |-> "auth", payload |-> NoPayload]]
               /\ Goto(c, "failed")
      BY <1>b, <3>2
    <3> QED
      BY <1>3, <3>1, <3>2 DEF TokenOnly
  <2> QED
    BY <2>1, <2>2, <2>3
<1>4. ASSUME NEW c \in Callers, Poll(c) PROVE OwnedOrTokenOnly'
  BY <1>4, <1>b DEF Poll, ReturnToken
<1>5. ASSUME NEW c \in Callers, Acquire(c) PROVE OwnedOrTokenOnly'
  BY <1>5, <1>a, <1>b DEF Acquire
<1>6. ASSUME NEW c \in Callers, Reacquire(c) PROVE OwnedOrTokenOnly'
  BY <1>6, <1>a, <1>b DEF Reacquire
<1>7. ASSUME NEW c \in Callers, FetchOk(c) PROVE OwnedOrTokenOnly'
  <2>1. pc[c] = "fetch" /\ UNCHANGED <<row, lease>>
    BY <1>7 DEF FetchOk
  <2>2. pc'[c] \in {"save", "changed"} /\ \A d \in Callers \ {c} : pc'[d] = pc[d] /\ resp'[d] = resp[d]
    BY <1>7, <1>b DEF FetchOk
  <2> QED
    BY <2>1, <2>2
<1>8. ASSUME NEW c \in Callers, FetchFails(c) PROVE OwnedOrTokenOnly'
  <2>1. pc[c] = "fetch" /\ UNCHANGED <<row, lease>>
    BY <1>8 DEF FetchFails
  <2>2. pc'[c] \in {"failed", "rotate"} /\ \A d \in Callers \ {c} : pc'[d] = pc[d] /\ resp'[d] = resp[d]
    BY <1>8, <1>b DEF FetchFails
  <2> QED
    BY <2>1, <2>2
<1>9. ASSUME NEW c \in Callers, Rotate(c) PROVE OwnedOrTokenOnly'
  <2>1. resp[c].payload \in Payloads \cup {NoPayload} /\ pc[c] = "rotate" /\ row.payload # NoPayload
    BY <1>9, <1>b DEF Rotate, Resp
  <2>2. row'.fails = row.fails /\ row'.reason = row.reason /\ row'.payload # NoPayload
    BY <1>9, <1>b, <2>1, FailureColumns DEF Rotate
  <2>3. UNCHANGED <<lease, resp>> /\ pc' = [pc EXCEPT ![c] = "failed"]
    BY <1>9 DEF Rotate
  <2> QED
    BY <1>b, <2>1, <2>2, <2>3
<1>10. ASSUME NEW c \in Callers, KeepWorkingToken(c) PROVE OwnedOrTokenOnly'
  <2>1. pc[c] = "failed" /\ resp[c].kind \in FailureKinds
    BY <1>10 DEF KeepWorkingToken, FailureKnown
  <2>2. UNCHANGED <<lease, resp>> /\ (pc' = [pc EXCEPT ![c] = "unlock"] \/ pc' = [pc EXCEPT ![c] = "changed"])
    BY <1>10 DEF KeepWorkingToken, ReturnToken
  <2>3. row'.payload = row.payload
    BY <1>10, <1>b, <2>1, FailureColumns DEF KeepWorkingToken
  <2>4. ASSUME NEW d \in Callers, pc[d] = "invalid"
        PROVE  row'.fails >= FailLimit /\ row'.reason = "auth"
    <3>1. OnlyToken
      BY <2>1, <2>4
    <3>2. resp[c].kind = "auth"
      BY <2>1, <3>1
    <3> QED
      BY <1>10, <1>b, <2>4, <3>2, FailureColumns DEF KeepWorkingToken, FailureKinds
  <2> QED
    BY <1>b, <2>1, <2>2, <2>3, <2>4
<1>11. ASSUME NEW c \in Callers, RecordFailure(c) PROVE OwnedOrTokenOnly'
  <2>1. pc[c] = "failed" /\ resp[c].kind \in FailureKinds /\ UNCHANGED <<lease, resp>>
    BY <1>11 DEF RecordFailure, FailureKnown
  <2>2. row' \in {row, RecordCookieRefreshFailure(row, resp[c].kind)} /\ row'.payload = row.payload
    BY <1>11, <1>b, <2>1, FailureColumns DEF RecordFailure
  <2>3. pc'[c] \in {"temporary", "invalid", "unlock"} /\ \A d \in Callers \ {c} : pc'[d] = pc[d]
    BY <1>11, <1>b DEF RecordFailure
  <2>4. pc'[c] = "invalid" => row'.fails >= FailLimit /\ row'.reason = "auth"
    BY <1>11, <1>b, <2>1, <2>2, FailureColumns DEF RecordFailure
  <2>5. ASSUME NEW d \in Callers \ {c}, pc[d] = "invalid"
        PROVE  row'.fails >= FailLimit /\ row'.reason = "auth"
    <3>1. OnlyToken
      BY <2>1, <2>5
    <3>2. resp[c].kind = "auth"
      BY <2>1, <3>1
    <3> QED
      BY <1>b, <2>2, <2>5, <3>2, FailureColumns DEF FailureKinds
  <2> QED
    BY <2>1, <2>2, <2>3, <2>4, <2>5
<1>12. ASSUME NEW c \in Callers, MarkTemporary(c) \/ MarkInvalid(c) \/ MarkChanged(c)
       PROVE  OwnedOrTokenOnly'
  <2>1. UNCHANGED <<lease, resp>> /\ pc' = [pc EXCEPT ![c] = "unlock"]
    BY <1>12 DEF MarkTemporary, MarkInvalid, MarkChanged
  <2>2. row' \in {SetTemporary(row), SetInvalid(row), AutoDisableCookie(row, "ACCOUNT_CHANGED")}
    BY <1>12 DEF MarkTemporary, MarkInvalid, MarkChanged
  <2>3. "ACCOUNT_CHANGED" \in Reasons
    BY DEF Reasons
  <2>4. row'.fails = row.fails /\ row'.reason = row.reason /\ row'.payload = row.payload
    BY <1>b, <2>2, <2>3, FailureColumns
  <2> QED
    BY <1>b, <2>1, <2>4
<1>13. ASSUME NEW c \in Callers, Save(c) PROVE OwnedOrTokenOnly'
  <2>1. resp[c].payload \in Payloads \cup {NoPayload} /\ pc[c] = "save" /\ row.payload # NoPayload
    BY <1>13, <1>b DEF Save, Resp
  <2>2. row'.fails = row.fails /\ row'.reason = row.reason /\ row'.payload # NoPayload
    BY <1>13, <1>b, <2>1, FailureColumns DEF Save
  <2>3. UNCHANGED <<lease, resp>> /\ pc' = [pc EXCEPT ![c] = "success"]
    BY <1>13 DEF Save
  <2> QED
    BY <1>b, <2>1, <2>2, <2>3
<1>14. ASSUME NEW c \in Callers, Success(c) PROVE OwnedOrTokenOnly'
  <2>1. pc[c] = "success" /\ UNCHANGED <<lease, resp>> /\ pc' = [pc EXCEPT ![c] = "unlock"]
    BY <1>14 DEF Success
  <2>2. row'.payload = row.payload
    BY <1>14, <1>b DEF Success, UpdateCookieSessionSuccess, Row
  <2>3. \A d \in Callers : pc[d] # "invalid"
    BY <2>1
  <2> QED
    BY <1>b, <2>1, <2>2, <2>3
<1>15. ASSUME NEW c \in Callers, Unlock(c) PROVE OwnedOrTokenOnly'
  BY <1>15, <1>b DEF Unlock
<1>16. ASSUME NEW p \in Procs, Crash(p) PROVE OwnedOrTokenOnly'
  BY <1>16, <1>b DEF Crash
<1>17. CASE OrphanExpires
  BY <1>17, <1>a DEF OrphanExpires
<1>18. CASE CoolDown
  <2>1. row'.fails = row.fails /\ row'.reason = row.reason /\ row'.payload = row.payload
    BY <1>18, <1>b, FailureColumns DEF CoolDown
  <2> QED
    BY <1>18, <2>1 DEF CoolDown
<1>19. ASSUME UNCHANGED <<row, lease, pc, resp>> PROVE OwnedOrTokenOnly'
  BY <1>19
<1>20. ASSUME NEW c \in Callers, Resolve(c) PROVE OwnedOrTokenOnly'
  BY <1>1, <1>2, <1>3, <1>4, <1>5, <1>6, <1>7, <1>8, <1>9, <1>10, <1>11, <1>12, <1>13, <1>14,
     <1>15, <1>20 DEF Resolve
<1>21. ASSUME Environment PROVE OwnedOrTokenOnly'
  BY <1>16, <1>17, <1>18, <1>19, <1>21 DEF Environment, Age
<1> QED
  BY <1>1, <1>19, <1>20, <1>21 DEF Next, vars

(* Only MarkInvalid disables an account as INVALID. *)
LEMMA OnlyMarkInvalid ==
  ASSUME TypeOK, [Next]_vars, row'.disabled = "INVALID", row.disabled # "INVALID"
  PROVE  \E c \in Callers : MarkInvalid(c)
<1>a. row \in Row
  BY DEF TypeOK
<1>1. row' # row
  OBVIOUS
<1>2. ASSUME NEW p \in Payloads \cup {NoPayload}
      PROVE  UpdateCookieValue(row, p).disabled = row.disabled
  BY <1>a DEF UpdateCookieValue, Row
<1>3. ASSUME NEW t \in Tokens \cup {NoToken}
      PROVE  UpdateCookieSessionSuccess(row, t).disabled # "INVALID"
  BY <1>a DEF UpdateCookieSessionSuccess, Row, SelfHealing
<1>4. ASSUME NEW kind PROVE RecordCookieRefreshFailure(row, kind).disabled = row.disabled
  BY <1>a DEF RecordCookieRefreshFailure, Row
<1>5. SetTemporary(row).disabled # "INVALID" /\ AutoDisableCookie(row, "ACCOUNT_CHANGED").disabled # "INVALID"
  BY <1>a DEF SetTemporary, AutoDisableCookie, Row
<1>6. [row EXCEPT !.cooling = FALSE].disabled # "INVALID"
  BY <1>a DEF Row
<1>7. ASSUME NEW c \in Callers, Rotate(c) \/ Save(c) PROVE FALSE
  <2>1. resp[c].payload \in Payloads \cup {NoPayload}
    BY DEF TypeOK, Resp
  <2> QED
    BY <1>2, <1>7, <2>1 DEF Rotate, Save
<1>8. ASSUME NEW c \in Callers, Success(c) PROVE FALSE
  <2>1. result[c] \in Tokens \cup {NoToken}
    BY DEF TypeOK
  <2> QED
    BY <1>3, <1>8, <2>1 DEF Success
<1>9. ASSUME NEW c \in Callers, KeepWorkingToken(c) \/ RecordFailure(c) PROVE FALSE
  BY <1>1, <1>4, <1>9 DEF KeepWorkingToken, RecordFailure
<1>10. ASSUME NEW c \in Callers, MarkTemporary(c) \/ MarkChanged(c) PROVE FALSE
  BY <1>5, <1>10 DEF MarkTemporary, MarkChanged
<1>11. ASSUME NEW c \in Callers, Resolve(c) PROVE MarkInvalid(c)
  BY <1>1, <1>7, <1>8, <1>9, <1>10, <1>11
     DEF Resolve, Lock, Load, TokenOnly, Acquire, Poll, Reacquire, FetchOk, FetchFails, Unlock
<1>12. ASSUME Environment PROVE FALSE
  BY <1>1, <1>6, <1>12 DEF Environment, Age, CoolDown, OrphanExpires, Crash
<1> QED
  BY <1>1, <1>11, <1>12 DEF Next, Begin, Done, vars

(* The account is disabled as INVALID only while the row says that the last
   two refreshes failed with an authentication error, for every number of
   callers and processes, whichever of them dies.                          *)
THEOREM InvalidIsConfirmed == Spec => InvalidConfirmed
<1>1. Init => OwnedOrTokenOnly
  BY DEF Init, OwnedOrTokenOnly, Refreshing, Recording
<1>2. Typed /\ OwnedOrTokenOnly /\ [Next]_vars =>
        [row'.disabled = "INVALID" /\ row.disabled # "INVALID" =>
           row.fails >= FailLimit /\ row.reason = "auth"]_vars
  <2>1. SUFFICES ASSUME Typed, OwnedOrTokenOnly, [Next]_vars,
                        row'.disabled = "INVALID", row.disabled # "INVALID"
                 PROVE  row.fails >= FailLimit /\ row.reason = "auth"
    OBVIOUS
  <2>2. PICK c \in Callers : MarkInvalid(c)
    BY <2>1, OnlyMarkInvalid DEF Typed
  <2> QED
    BY <2>1, <2>2 DEF MarkInvalid, OwnedOrTokenOnly
<1> QED
  BY <1>1, <1>2, InitTyped, TypingPreserved, OwnedPreserved, PTL DEF Spec, InvalidConfirmed
-----------------------------------------------------------------------------
(* Whose JWT.  A call checks a JWT against the account of its copy of the
   row, and the account of a row never changes here.                       *)
Outside == {"idle", "lock", "load", "returned"}
Mine(t) == t \in Opaque \cup {NoToken} \/ user[t] = row.acct

OwnTokens ==
  row.acct # NoUser =>
    /\ Mine(row.jwt) /\ Mine(row.embedded)
    /\ \A c \in Callers : Mine(result[c])
CopyOfAccount ==
  \A c \in Callers : pc[c] \notin Outside \cup {"unlock"} => cookie[c].acct = row.acct

(* A row of the older format, with a JWT in its value, has the same one or
   none in the jwt_token column (AddCookie stores both).                   *)
OneJwt == \A r \in InitRows : r.jwt # NoToken => r.embedded \in {NoToken, r.jwt}

(* The account and the JWTs of a row after a statement.                     *)
SameTokens(q, r) == q.acct = r.acct /\ q.jwt = r.jwt /\ q.embedded = r.embedded

LEMMA TokenColumns ==
  ASSUME NEW r \in Row
  PROVE  /\ \A p \in Payloads \cup {NoPayload} :
              /\ UpdateCookieValue(r, p).acct = r.acct
              /\ UpdateCookieValue(r, p).jwt = r.jwt
              /\ UpdateCookieValue(r, p).embedded \in {r.embedded, NoToken}
         /\ \A t \in Tokens \cup {NoToken} :
              /\ UpdateCookieSessionSuccess(r, t).acct = r.acct
              /\ UpdateCookieSessionSuccess(r, t).jwt = t
              /\ UpdateCookieSessionSuccess(r, t).embedded = r.embedded
         /\ \A kind \in FailureKinds : SameTokens(RecordCookieRefreshFailure(r, kind), r)
         /\ SameTokens(SetTemporary(r), r)
         /\ SameTokens(SetInvalid(r), r)
         /\ SameTokens([r EXCEPT !.cooling = FALSE], r)
         /\ SameTokens(AutoDisableCookie(r, "ACCOUNT_CHANGED"), r)
<1>1. ASSUME NEW p \in Payloads \cup {NoPayload}
      PROVE  /\ UpdateCookieValue(r, p).acct = r.acct
             /\ UpdateCookieValue(r, p).jwt = r.jwt
             /\ UpdateCookieValue(r, p).embedded \in {r.embedded, NoToken}
  <2>1. CASE p = NoPayload
    BY <2>1 DEF UpdateCookieValue
  <2>2. CASE p # NoPayload
    <3>1. UpdateCookieValue(r, p).acct = r.acct
      BY <2>2 DEF UpdateCookieValue, Row
    <3>2. UpdateCookieValue(r, p).jwt = r.jwt
      BY <2>2 DEF UpdateCookieValue, Row
    <3>3. UpdateCookieValue(r, p).embedded = NoToken
      BY <2>2 DEF UpdateCookieValue, Row
    <3> QED
      BY <3>1, <3>2, <3>3
  <2> QED
    BY <2>1, <2>2
<1>2. ASSUME NEW t \in Tokens \cup {NoToken}
      PROVE  /\ UpdateCookieSessionSuccess(r, t).acct = r.acct
             /\ UpdateCookieSessionSuccess(r, t).jwt = t
             /\ UpdateCookieSessionSuccess(r, t).embedded = r.embedded
  BY DEF UpdateCookieSessionSuccess, Row
<1>3. ASSUME NEW kind \in FailureKinds
      PROVE  SameTokens(RecordCookieRefreshFailure(r, kind), r)
  BY DEF SameTokens, RecordCookieRefreshFailure, Row
<1>4. SameTokens(SetTemporary(r), r) /\ SameTokens(SetInvalid(r), r)
  BY DEF SameTokens, SetTemporary, SetInvalid, Row
<1>5. SameTokens([r EXCEPT !.cooling = FALSE], r) /\ SameTokens(AutoDisableCookie(r, "ACCOUNT_CHANGED"), r)
  BY DEF SameTokens, AutoDisableCookie, Row
<1> QED
  BY <1>1, <1>2, <1>3, <1>4, <1>5

(* A token that a call accepts for the account is the account's. *)
LEMMA AcceptedIsMine ==
  ASSUME TypeOK, NEW t \in Tokens \cup {NoToken}, NEW margin,
         row.acct # NoUser, Accepts(t, margin, row.acct)
  PROVE  Mine(t)
<1>1. t # NoToken => user[t] \in Users /\ user[t] # NoUser
  BY RowAssumption DEF TypeOK
<1> QED
  BY <1>1 DEF Accepts, Mismatch, Claim, Mine

(* A step that changes at most one call's position and result. *)
LEMMA OwnByStep ==
  ASSUME TypeOK, OwnTokens, CopyOfAccount, NEW c \in Callers,
         UNCHANGED <<row, user>>,
         \A d \in Callers \ {c} :
           pc'[d] = pc[d] /\ cookie'[d] = cookie[d] /\ result'[d] = result[d],
         row.acct # NoUser => Mine(result'[c]),
         pc'[c] \notin Outside \cup {"unlock"} => cookie'[c].acct = row.acct
  PROVE  OwnTokens' /\ CopyOfAccount'
<1>1. CopyOfAccount'
  BY DEF CopyOfAccount
<1>2. OwnTokens'
  BY DEF OwnTokens, Mine
<1> QED
  BY <1>1, <1>2

LEMMA OwnTokensPreserved ==
  TypeOK /\ FailureKnown /\ OwnTokens /\ CopyOfAccount /\ [Next]_vars => OwnTokens' /\ CopyOfAccount'
<1> SUFFICES ASSUME TypeOK, FailureKnown, OwnTokens, CopyOfAccount, [Next]_vars
             PROVE  OwnTokens' /\ CopyOfAccount'
  OBVIOUS
<1>a. /\ row \in Row /\ pc \in [Callers -> PC] /\ resp \in [Callers -> Resp]
      /\ cookie \in [Callers -> Copy] /\ result \in [Callers -> Tokens \cup {NoToken}]
      /\ user \in [Tokens -> Users]
  BY DEF TypeOK
<1>b. /\ row.jwt \in Tokens \cup {NoToken} /\ row.embedded \in Tokens \cup {NoToken}
      /\ ParsedToken(row) \in Tokens \cup {NoToken}
  BY <1>a DEF Row, ParsedToken
<1>c. \A c \in Callers : row.acct # NoUser => Mine(result[c])
  BY DEF OwnTokens
<1>d. Mine(NoToken)
  BY DEF Mine
<1>1. ASSUME NEW c \in Callers, (\E f \in BOOLEAN : Begin(c, f)) \/ Lock(c)
      PROVE  OwnTokens' /\ CopyOfAccount'
  BY <1>1, <1>a, <1>c, OwnByStep DEF Begin, Lock, Outside
<1>2. ASSUME NEW c \in Callers, Done(c)
      PROVE  OwnTokens' /\ CopyOfAccount'
  BY <1>2, <1>a, <1>d, OwnByStep DEF Done, Outside
<1>3. ASSUME NEW c \in Callers, NEW t \in Tokens \cup {NoToken}, NEW margin,
             ReturnToken(c, t, margin, row.acct)
      PROVE  /\ row.acct # NoUser => Mine(result'[c])
             /\ \A d \in Callers \ {c} : pc'[d] = pc[d] /\ result'[d] = result[d]
  <2>1. CASE Accepts(t, margin, row.acct) /\ result' = [result EXCEPT ![c] = t]
    BY <1>3, <1>a, <2>1, AcceptedIsMine DEF ReturnToken
  <2>2. CASE UNCHANGED result
    BY <1>3, <1>a, <1>c, <2>2 DEF ReturnToken
  <2> QED
    BY <1>3, <2>1, <2>2 DEF ReturnToken
<1>4. ASSUME NEW c \in Callers, Load(c) PROVE OwnTokens' /\ CopyOfAccount'
  <2>1. UNCHANGED <<row, user>> /\ cookie' = [cookie EXCEPT ![c] = CopyOf(row)]
    BY <1>4 DEF Load
  <2>2. cookie'[c].acct = row.acct
    BY <1>a, <2>1 DEF CopyOf
  <2>3. /\ row.acct # NoUser => Mine(result'[c])
        /\ \A d \in Callers \ {c} : pc'[d] = pc[d] /\ result'[d] = result[d]
    <3>1. CASE ReturnToken(c, ParsedToken(row), TRUE, row.acct)
      BY <1>3, <1>b, <3>1
    <3>2. CASE UNCHANGED result /\ \E l \in {"unlock", "tokenonly", "acquire"} : Goto(c, l)
      BY <1>a, <1>c, <3>2
    <3> QED
      BY <1>4, <3>1, <3>2 DEF Load
  <2>4. \A d \in Callers \ {c} : cookie'[d] = cookie[d]
    BY <1>a, <2>1
  <2> QED
    BY <2>1, <2>2, <2>3, <2>4, OwnByStep
<1>5. ASSUME NEW c \in Callers, TokenOnly(c) \/ Poll(c) PROVE OwnTokens' /\ CopyOfAccount'
  <2>1. UNCHANGED <<row, user, cookie>> /\ cookie[c].acct = row.acct
    BY <1>5 DEF TokenOnly, Poll, CopyOfAccount, Outside
  <2>2. cookie[c].token \in Tokens \cup {NoToken}
    BY <1>a DEF Copy
  <2>3. /\ row.acct # NoUser => Mine(result'[c])
        /\ \A d \in Callers \ {c} : pc'[d] = pc[d] /\ result'[d] = result[d]
    <3>1. CASE \E t \in {cookie[c].token, row.jwt} : ReturnToken(c, t, FALSE, row.acct)
      BY <1>3, <1>b, <2>2, <3>1
    <3>2. CASE UNCHANGED result /\ \E l \in {"failed", "reacquire"} : Goto(c, l)
      BY <1>a, <1>c, <3>2
    <3> QED
      BY <1>5, <2>1, <3>1, <3>2 DEF TokenOnly, Poll
  <2> QED
    BY <2>1, <2>3, OwnByStep
<1>6. ASSUME NEW c \in Callers, Acquire(c) \/ Reacquire(c) PROVE OwnTokens' /\ CopyOfAccount'
  <2>1. UNCHANGED <<row, user, cookie, result>> /\ cookie[c].acct = row.acct
    BY <1>6 DEF Acquire, Reacquire, CopyOfAccount, Outside
  <2>2. \A d \in Callers \ {c} : pc'[d] = pc[d]
    BY <1>6, <1>a DEF Acquire, Reacquire
  <2> QED
    BY <1>c, <2>1, <2>2, OwnByStep
<1>7. ASSUME NEW c \in Callers, FetchFails(c) PROVE OwnTokens' /\ CopyOfAccount'
  <2>1. UNCHANGED <<row, user, cookie, result>> /\ cookie[c].acct = row.acct
    BY <1>7 DEF FetchFails, CopyOfAccount, Outside
  <2>2. \A d \in Callers \ {c} : pc'[d] = pc[d]
    BY <1>7, <1>a DEF FetchFails
  <2> QED
    BY <1>c, <2>1, <2>2, OwnByStep
<1>8. ASSUME NEW c \in Callers, FetchOk(c) PROVE OwnTokens' /\ CopyOfAccount'
  <2>1. UNCHANGED <<row, cookie>> /\ cookie[c].acct = row.acct
    BY <1>8 DEF FetchOk, CopyOfAccount, Outside
  <2>2. PICK t \in Tokens \ UsedTokens, u \in Users :
               /\ user' = [user EXCEPT ![t] = u]
               /\ LET mine == cookie[c].acct \in {NoUser, u} \/ t \in Opaque
                  IN  result' = [result EXCEPT ![c] = IF mine THEN t ELSE NoToken]
               /\ \E l \in {"save", "changed"} : Goto(c, l)
    BY <1>8 DEF FetchOk
  <2>3. t # row.jwt /\ t # row.embedded /\ \A d \in Callers : t # result[d]
    BY DEF UsedTokens
  <2>4. \A x \in Tokens : x # t => user'[x] = user[x]
    BY <1>a, <2>2
  <2>5. \A d \in Callers \ {c} : pc'[d] = pc[d] /\ result'[d] = result[d]
    BY <1>a, <2>2
  <2>6. CopyOfAccount'
    BY <2>1, <2>5 DEF CopyOfAccount
  <2>7. ASSUME row.acct # NoUser, NEW x \in {row.jwt, row.embedded} \cup {result'[d] : d \in Callers}
        PROVE  x \in Opaque \cup {NoToken} \/ user'[x] = row.acct
    <3>1. CASE x = result'[c]
      BY <1>a, <2>1, <2>2, <2>7, <3>1
    <3>2. CASE x # result'[c]
      <4>1. x \in {row.jwt, row.embedded} \cup {result[d] : d \in Callers}
        BY <2>5, <2>7, <3>2
      <4>2. x \in Tokens \cup {NoToken} /\ x # t
        BY <1>a, <1>b, <2>3, <4>1
      <4>3. Mine(x)
        BY <2>7, <4>1 DEF OwnTokens
      <4> QED
        BY <2>4, <4>2, <4>3 DEF Mine
    <3> QED
      BY <3>1, <3>2
  <2>8. OwnTokens'
    BY <2>1, <2>7 DEF OwnTokens, Mine
  <2> QED
    BY <2>6, <2>8
<1>9. ASSUME row' \in Row, row'.acct = row.acct, UNCHANGED <<user, cookie>>,
             row'.jwt = row.jwt \/ \E d \in Callers : row'.jwt = result[d],
             row'.embedded \in {row.embedded, NoToken},
             NEW c \in Callers, \A d \in Callers \ {c} : pc'[d] = pc[d] /\ result'[d] = result[d],
             row.acct # NoUser => Mine(result'[c]), pc[c] \notin Outside \cup {"unlock"}
      PROVE  OwnTokens' /\ CopyOfAccount'
  <2>1. CopyOfAccount'
    BY <1>9 DEF CopyOfAccount
  <2>2. ASSUME row.acct # NoUser PROVE Mine(row'.jwt) /\ Mine(row'.embedded)
    BY <1>9, <1>d, <2>2 DEF OwnTokens
  <2>3. ASSUME row.acct # NoUser, NEW d \in Callers PROVE Mine(result'[d])
    BY <1>9, <1>c, <2>3
  <2>4. OwnTokens'
    BY <1>9, <2>2, <2>3 DEF OwnTokens, Mine
  <2> QED
    BY <2>1, <2>4
<1>10. ASSUME NEW c \in Callers, Rotate(c) \/ Save(c) PROVE OwnTokens' /\ CopyOfAccount'
  <2>1. resp[c].payload \in Payloads \cup {NoPayload}
    BY <1>a DEF Resp
  <2>2. row' = UpdateCookieValue(row, resp[c].payload) /\ UNCHANGED <<user, cookie, result>>
    BY <1>10 DEF Rotate, Save
  <2>3. row' \in Row /\ row'.acct = row.acct /\ row'.jwt = row.jwt /\ row'.embedded \in {row.embedded, NoToken}
    BY <1>a, <2>1, <2>2, TokenColumns, RowOperators
  <2>4. pc[c] \in {"rotate", "save"} /\ \A d \in Callers \ {c} : pc'[d] = pc[d]
    BY <1>10, <1>a DEF Rotate, Save
  <2> QED
    BY <1>9, <1>c, <2>2, <2>3, <2>4 DEF Outside
<1>11. ASSUME NEW c \in Callers, Success(c) PROVE OwnTokens' /\ CopyOfAccount'
  <2>1. row' = UpdateCookieSessionSuccess(row, result[c]) /\ UNCHANGED <<user, cookie, result>>
    BY <1>11 DEF Success
  <2>2. row' \in Row /\ row'.acct = row.acct /\ row'.jwt = result[c] /\ row'.embedded = row.embedded
    BY <1>a, <2>1, TokenColumns, RowOperators
  <2>3. pc[c] = "success" /\ \A d \in Callers \ {c} : pc'[d] = pc[d]
    BY <1>11, <1>a DEF Success
  <2> QED
    BY <1>9, <1>c, <2>1, <2>2, <2>3 DEF Outside
<1>12. ASSUME NEW c \in Callers, KeepWorkingToken(c) \/ RecordFailure(c)
       PROVE  OwnTokens' /\ CopyOfAccount'
  <2>1. pc[c] = "failed" /\ resp[c].kind \in FailureKinds /\ UNCHANGED <<user, cookie>>
    BY <1>12 DEF KeepWorkingToken, RecordFailure, FailureKnown
  <2>2. cookie[c].acct = row.acct /\ cookie[c].token \in Tokens \cup {NoToken}
    BY <1>a, <2>1 DEF CopyOfAccount, Outside, Copy
  <2>3. row' \in {row, RecordCookieRefreshFailure(row, resp[c].kind)}
    BY <1>12 DEF KeepWorkingToken, RecordFailure
  <2>4. row' \in Row /\ SameTokens(row', row)
    <3>1. RecordCookieRefreshFailure(row, resp[c].kind) \in Row
      BY <1>a, <2>1, RowOperators
    <3>2. SameTokens(RecordCookieRefreshFailure(row, resp[c].kind), row) /\ SameTokens(row, row)
      BY <1>a, <2>1, TokenColumns DEF SameTokens
    <3> QED
      BY <1>a, <2>3, <3>1, <3>2
  <2>5. /\ row.acct # NoUser => Mine(result'[c])
        /\ \A d \in Callers \ {c} : pc'[d] = pc[d] /\ result'[d] = result[d]
    <3>1. CASE ReturnToken(c, cookie[c].token, FALSE, cookie[c].acct)
      BY <1>3, <2>2, <3>1
    <3>2. CASE RecordFailure(c)
      BY <1>a, <1>c, <3>2 DEF RecordFailure
    <3> QED
      BY <1>12, <3>1, <3>2 DEF KeepWorkingToken
  <2> QED
    BY <1>9, <2>1, <2>4, <2>5 DEF SameTokens, Outside
<1>13. ASSUME NEW c \in Callers, MarkTemporary(c) \/ MarkInvalid(c) \/ MarkChanged(c)
       PROVE  OwnTokens' /\ CopyOfAccount'
  <2>1. row' \in {SetTemporary(row), SetInvalid(row), AutoDisableCookie(row, "ACCOUNT_CHANGED")}
    BY <1>13 DEF MarkTemporary, MarkInvalid, MarkChanged
  <2>2. row' \in Row /\ SameTokens(row', row)
    BY <1>a, <2>1, TokenColumns, RowOperators DEF Reasons
  <2>3. /\ pc[c] \in {"temporary", "invalid", "changed"} /\ UNCHANGED <<user, cookie, result>>
        /\ \A d \in Callers \ {c} : pc'[d] = pc[d]
    BY <1>13, <1>a DEF MarkTemporary, MarkInvalid, MarkChanged
  <2> QED
    BY <1>9, <1>c, <2>2, <2>3 DEF SameTokens, Outside
<1>14. ASSUME NEW c \in Callers, Unlock(c) PROVE OwnTokens' /\ CopyOfAccount'
  BY <1>14, <1>a, <1>c, OwnByStep DEF Unlock, Outside
<1>15. ASSUME NEW t \in Tokens, Age(t) PROVE OwnTokens' /\ CopyOfAccount'
  BY <1>15 DEF Age, OwnTokens, CopyOfAccount, Mine
<1>16. CASE CoolDown
  <2>1. SameTokens(row', row)
    BY <1>16, <1>a, TokenColumns DEF CoolDown
  <2> QED
    BY <1>16, <2>1 DEF SameTokens, CoolDown, OwnTokens, CopyOfAccount, Mine
<1>17. CASE OrphanExpires
  BY <1>17 DEF OrphanExpires, OwnTokens, CopyOfAccount, Mine
<1>18. ASSUME NEW p \in Procs, Crash(p) PROVE OwnTokens' /\ CopyOfAccount'
  <2>1. UNCHANGED <<row, user>>
    BY <1>18 DEF Crash
  <2>2. \A d \in Callers : \/ pc'[d] = "idle" /\ result'[d] = NoToken
                           \/ pc'[d] = pc[d] /\ result'[d] = result[d] /\ cookie'[d] = cookie[d]
    BY <1>18 DEF Crash
  <2>3. CopyOfAccount'
    BY <2>1, <2>2 DEF CopyOfAccount, Outside
  <2>4. OwnTokens'
    BY <1>d, <2>1, <2>2 DEF OwnTokens, Mine
  <2> QED
    BY <2>3, <2>4
<1>19. CASE UNCHANGED vars
  BY <1>19 DEF vars, OwnTokens, CopyOfAccount, Mine
<1>20. ASSUME NEW c \in Callers, Resolve(c) PROVE OwnTokens' /\ CopyOfAccount'
  BY <1>1, <1>4, <1>5, <1>6, <1>7, <1>8, <1>10, <1>11, <1>12, <1>13, <1>14, <1>20 DEF Resolve
<1>21. ASSUME Environment PROVE OwnTokens' /\ CopyOfAccount'
  BY <1>15, <1>16, <1>17, <1>18, <1>21 DEF Environment
<1> QED
  BY <1>1, <1>2, <1>19, <1>20, <1>21 DEF Next

LEMMA InitOwnTokens ==
  ASSUME OneJwt, Init
  PROVE  OwnTokens /\ CopyOfAccount
<1>1. row \in InitRows /\ row \in Row
  BY CallerAssumption DEF Init
<1>2. row.embedded \in {NoToken, ParsedToken(row)} /\ row.jwt \in {NoToken, ParsedToken(row)}
  BY <1>1, OneJwt DEF OneJwt, ParsedToken
<1>3. row.acct # NoUser => Mine(ParsedToken(row)) /\ Mine(NoToken)
  BY DEF Init, Mine
<1> QED
  BY <1>2, <1>3 DEF Init, OwnTokens, CopyOfAccount, Outside

(* A row bound to an account never stores, and no call returns, a JWT that
   is known to be another user's, for every number of callers and processes. *)
THEOREM OnlyOwnAccount ==
  ASSUME OneJwt
  PROVE  Spec => []OwnAccountOnly
<1>1. Init => OwnTokens /\ CopyOfAccount
  BY InitOwnTokens
<1>2. OwnTokens => OwnAccountOnly
  BY DEF OwnTokens, OwnAccountOnly, Mine
<1>3. Typed => TypeOK /\ FailureKnown
  BY DEF Typed
<1> QED
  BY <1>1, <1>2, <1>3, InitTyped, TypingPreserved, OwnTokensPreserved, PTL DEF Spec
-----------------------------------------------------------------------------
(* One process.  A caller inside the mutex holds it, so that within a
   process one call at a time works on the account.                        *)
SingleProcess == \A p, q \in Procs : p = q

Inside(c) == pc[c] \notin {"idle", "lock", "returned"}
MutexHeld == \A c \in Callers : Inside(c) => mutex[ProcOf[c]] = c

LEMMA MutexPreserved == TypeOK /\ MutexHeld /\ [Next]_vars => MutexHeld'
<1> SUFFICES ASSUME TypeOK, MutexHeld, [Next]_vars PROVE MutexHeld'
  OBVIOUS
<1> USE DEF MutexHeld, Inside
<1>a. /\ pc \in [Callers -> PC] /\ mutex \in [Procs -> Callers \cup {Nobody}]
      /\ ProcOf \in [Callers -> Procs] /\ Nobody \notin Callers
  BY CallerAssumption DEF TypeOK
<1>1. ASSUME NEW c \in Callers, Lock(c) PROVE MutexHeld'
  BY <1>1, <1>a DEF Lock
<1>2. ASSUME NEW c \in Callers, Unlock(c) PROVE MutexHeld'
  <2>1. /\ pc[c] = "unlock" /\ mutex' = [mutex EXCEPT ![ProcOf[c]] = Nobody]
        /\ pc' = [pc EXCEPT ![c] = "returned"]
    BY <1>2 DEF Unlock
  <2>2. ASSUME NEW d \in Callers, Inside(d)' PROVE ProcOf[d] # ProcOf[c] /\ Inside(d)
    BY <1>a, <2>1, <2>2
  <2> QED
    BY <1>a, <2>1, <2>2
<1>3. ASSUME NEW p \in Procs, Crash(p) PROVE MutexHeld'
  <2>1. mutex' = [mutex EXCEPT ![p] = Nobody]
    BY <1>3 DEF Crash
  <2>2. ASSUME NEW d \in Callers, Inside(d)' PROVE ProcOf[d] # p /\ Inside(d)
    BY <1>3, <2>2 DEF Crash
  <2> QED
    BY <1>a, <2>1, <2>2
<1>4. ASSUME NEW c \in Callers, UNCHANGED mutex, Inside(c)' => Inside(c),
             \A d \in Callers \ {c} : pc'[d] = pc[d]
      PROVE  MutexHeld'
  BY <1>4
<1>5. ASSUME NEW c \in Callers, (\E f \in BOOLEAN : Begin(c, f)) \/ Done(c) PROVE MutexHeld'
  BY <1>4, <1>5, <1>a DEF Begin, Done
<1>6. ASSUME NEW c \in Callers, Load(c) PROVE MutexHeld'
  <2>1. UNCHANGED mutex /\ pc[c] = "load" /\ \E l \in PC : Goto(c, l)
    BY <1>6 DEF Load, ReturnToken, PC
  <2> QED
    BY <1>4, <1>a, <2>1
<1>7. ASSUME NEW c \in Callers, TokenOnly(c) \/ Poll(c) \/ KeepWorkingToken(c) PROVE MutexHeld'
  <2>1. UNCHANGED mutex /\ Inside(c) /\ \E l \in PC : Goto(c, l)
    BY <1>7 DEF TokenOnly, Poll, KeepWorkingToken, ReturnToken, PC
  <2> QED
    BY <1>4, <1>a, <2>1
<1>8. ASSUME NEW c \in Callers, Acquire(c) \/ Reacquire(c) \/ FetchOk(c) \/ FetchFails(c)
      PROVE  MutexHeld'
  <2>1. UNCHANGED mutex /\ Inside(c) /\ \E l \in PC : Goto(c, l)
    BY <1>8 DEF Acquire, Reacquire, FetchOk, FetchFails, PC
  <2> QED
    BY <1>4, <1>a, <2>1
<1>9. ASSUME NEW c \in Callers, \/ Rotate(c) \/ RecordFailure(c) \/ MarkTemporary(c) \/ MarkInvalid(c)
                                \/ MarkChanged(c) \/ Save(c) \/ Success(c)
      PROVE  MutexHeld'
  <2>1. UNCHANGED mutex /\ Inside(c) /\ \E l \in PC : Goto(c, l)
    BY <1>9 DEF Rotate, RecordFailure, MarkTemporary, MarkInvalid, MarkChanged, Save, Success, PC
  <2> QED
    BY <1>4, <1>a, <2>1
<1>10. CASE UNCHANGED <<pc, mutex>>
  BY <1>10
<1>11. ASSUME NEW c \in Callers, Resolve(c) PROVE MutexHeld'
  BY <1>1, <1>2, <1>6, <1>7, <1>8, <1>9, <1>11 DEF Resolve
<1>12. ASSUME Environment PROVE MutexHeld'
  BY <1>3, <1>10, <1>12 DEF Environment, Age, CoolDown, OrphanExpires
<1> QED
  BY <1>5, <1>10, <1>11, <1>12 DEF Next, vars

LEMMA OneInside ==
  ASSUME SingleProcess, MutexHeld, NEW c \in Callers, NEW d \in Callers, Inside(c), Inside(d)
  PROVE  c = d
  BY CallerAssumption DEF SingleProcess, MutexHeld
-----------------------------------------------------------------------------
(* The JWT of the call's copy is the row's until the call gives up on it,
   and a caller about to disable the account has seen that it is useless.  *)
Comparing == {"tokenonly", "acquire", "wait", "reacquire", "fetch", "rotate", "failed"}

LooksAtRowsJwt ==
  \A c \in Callers :
    /\ pc[c] \in Comparing /\ row.jwt # NoToken => cookie[c].token = row.jwt
    /\ pc[c] = "invalid" => ~Fresh(row.jwt, FALSE)

LEMMA LooksPreserved ==
  ASSUME SingleProcess
  PROVE  Typed /\ MutexHeld /\ LooksAtRowsJwt /\ [Next]_vars => LooksAtRowsJwt'
<1> SUFFICES ASSUME TypeOK, FailureKnown, MutexHeld, LooksAtRowsJwt, [Next]_vars PROVE LooksAtRowsJwt'
  BY DEF Typed
<1>a. /\ row \in Row /\ pc \in [Callers -> PC] /\ resp \in [Callers -> Resp]
      /\ cookie \in [Callers -> Copy] /\ life \in [Tokens -> Lives]
      /\ result \in [Callers -> Tokens \cup {NoToken}]
  BY DEF TypeOK
<1>b. row.jwt \in Tokens \cup {NoToken}
  BY <1>a DEF Row
<1>c. ASSUME NEW c \in Callers, Inside(c), NEW d \in Callers \ {c} PROVE ~Inside(d)
  BY <1>c, OneInside
(* A step of the caller that is inside: the others are outside. *)
<1>1. ASSUME NEW c \in Callers, Inside(c), \A d \in Callers \ {c} : pc'[d] = pc[d],
             pc'[c] \in Comparing /\ row'.jwt # NoToken => cookie'[c].token = row'.jwt,
             pc'[c] = "invalid" => ~Fresh(row.jwt, FALSE)'
      PROVE  LooksAtRowsJwt'
  BY <1>1, <1>c DEF LooksAtRowsJwt, Inside, Comparing
<1>2. ASSUME NEW c \in Callers, (\E f \in BOOLEAN : Begin(c, f)) \/ Lock(c) \/ Done(c)
      PROVE  LooksAtRowsJwt'
  BY <1>2, <1>a DEF Begin, Lock, Done, LooksAtRowsJwt, Fresh, Comparing
<1>3. ASSUME NEW c \in Callers, Load(c) PROVE LooksAtRowsJwt'
  <2>1. pc[c] = "load" /\ UNCHANGED row /\ cookie' = [cookie EXCEPT ![c] = CopyOf(row)]
    BY <1>3 DEF Load
  <2>2. \E l \in PC \ {"invalid"} : Goto(c, l)
    BY <1>3 DEF Load, ReturnToken, PC
  <2>3. row.jwt # NoToken => cookie'[c].token = row.jwt
    BY <1>a, <2>1 DEF CopyOf, ParsedToken
  <2> QED
    BY <1>1, <1>a, <2>1, <2>2, <2>3 DEF Inside
<1>4. ASSUME NEW c \in Callers, TokenOnly(c) \/ Poll(c) PROVE LooksAtRowsJwt'
  <2>1. pc[c] \in {"tokenonly", "wait"} /\ UNCHANGED <<row, cookie>>
    BY <1>4 DEF TokenOnly, Poll
  <2>2. \E l \in PC \ {"invalid"} : Goto(c, l)
    BY <1>4 DEF TokenOnly, Poll, ReturnToken, PC
  <2> QED
    BY <1>1, <1>a, <2>1, <2>2 DEF Inside, LooksAtRowsJwt, Comparing
<1>5. ASSUME NEW c \in Callers, Acquire(c) \/ Reacquire(c) \/ FetchFails(c) PROVE LooksAtRowsJwt'
  <2>1. pc[c] \in {"acquire", "reacquire", "fetch"} /\ UNCHANGED <<row, cookie>>
    BY <1>5 DEF Acquire, Reacquire, FetchFails
  <2>2. \E l \in PC \ {"invalid"} : Goto(c, l)
    BY <1>5 DEF Acquire, Reacquire, FetchFails, PC
  <2> QED
    BY <1>1, <1>a, <2>1, <2>2 DEF Inside, LooksAtRowsJwt, Comparing
<1>6. ASSUME NEW c \in Callers, FetchOk(c) PROVE LooksAtRowsJwt'
  <2>1. pc[c] = "fetch"
    BY <1>6 DEF FetchOk
  <2>2. \E l \in {"save", "changed"} : Goto(c, l)
    BY <1>6 DEF FetchOk
  <2> QED
    BY <1>1, <1>a, <2>1, <2>2 DEF Inside, Comparing
<1>7. ASSUME NEW c \in Callers, Rotate(c) PROVE LooksAtRowsJwt'
  <2>1. resp[c].payload \in Payloads \cup {NoPayload}
    BY <1>a DEF Resp
  <2>2. pc[c] = "rotate" /\ row' = UpdateCookieValue(row, resp[c].payload) /\ UNCHANGED cookie /\ Goto(c, "failed")
    BY <1>7 DEF Rotate
  <2>3. row'.jwt = row.jwt
    BY <1>a, <2>1, <2>2, TokenColumns
  <2> QED
    BY <1>1, <1>a, <2>2, <2>3 DEF Inside, LooksAtRowsJwt, Comparing
<1>8. ASSUME NEW c \in Callers, Save(c) \/ Success(c) \/ MarkTemporary(c) \/ MarkInvalid(c) \/ MarkChanged(c)
      PROVE  LooksAtRowsJwt'
  <2>1. pc[c] \in {"save", "success", "temporary", "invalid", "changed"}
    BY <1>8 DEF Save, Success, MarkTemporary, MarkInvalid, MarkChanged
  <2>2. \E l \in {"success", "unlock"} : Goto(c, l)
    BY <1>8 DEF Save, Success, MarkTemporary, MarkInvalid, MarkChanged
  <2> QED
    BY <1>1, <1>a, <2>1, <2>2 DEF Inside, Comparing
<1>9. ASSUME NEW c \in Callers, KeepWorkingToken(c) PROVE LooksAtRowsJwt'
  <2>1. pc[c] = "failed" /\ \E l \in {"unlock", "changed"} : Goto(c, l)
    BY <1>9 DEF KeepWorkingToken, ReturnToken
  <2> QED
    BY <1>1, <1>a, <2>1 DEF Inside, Comparing
<1>10. ASSUME NEW c \in Callers, RecordFailure(c) PROVE LooksAtRowsJwt'
  <2>1. /\ pc[c] = "failed" /\ ~Fresh(cookie[c].token, FALSE) /\ UNCHANGED life
        /\ \E l \in {"temporary", "invalid", "unlock"} : Goto(c, l)
        /\ row' \in {row, RecordCookieRefreshFailure(row, resp[c].kind)}
        /\ resp[c].kind \in FailureKinds
    BY <1>10 DEF RecordFailure, FailureKnown
  <2>2. row'.jwt = row.jwt
    BY <1>a, <2>1, TokenColumns DEF SameTokens
  <2>3. ~Fresh(row.jwt, FALSE)
    BY <2>1 DEF LooksAtRowsJwt, Comparing, Fresh
  <2>4. ~Fresh(row.jwt, FALSE)'
    BY <2>1, <2>2, <2>3 DEF Fresh
  <2> QED
    BY <1>1, <1>a, <2>1, <2>4 DEF Inside, Comparing
<1>11. ASSUME NEW c \in Callers, Unlock(c) PROVE LooksAtRowsJwt'
  <2>1. pc[c] = "unlock" /\ Goto(c, "returned")
    BY <1>11 DEF Unlock
  <2> QED
    BY <1>1, <1>a, <2>1 DEF Inside, Comparing
<1>12. ASSUME NEW t \in Tokens, Age(t) PROVE LooksAtRowsJwt'
  <2>1. ~Fresh(row.jwt, FALSE) => ~Fresh(row.jwt, FALSE)'
    BY <1>12, <1>a, <1>b DEF Age, Fresh, Lives
  <2> QED
    BY <1>12, <2>1 DEF Age, LooksAtRowsJwt
<1>13. CASE CoolDown
  <2>1. row'.jwt = row.jwt
    BY <1>13, <1>a, TokenColumns DEF CoolDown, SameTokens
  <2> QED
    BY <1>13, <2>1 DEF CoolDown, LooksAtRowsJwt, Fresh
<1>14. ASSUME UNCHANGED <<row, life, pc, cookie>> PROVE LooksAtRowsJwt'
  BY <1>14 DEF LooksAtRowsJwt, Fresh
<1>15. ASSUME NEW p \in Procs, Crash(p) PROVE LooksAtRowsJwt'
  <2>1. UNCHANGED <<row, life>>
    BY <1>15 DEF Crash
  <2>2. \A d \in Callers : pc'[d] = "idle" \/ (pc'[d] = pc[d] /\ cookie'[d] = cookie[d])
    <3>1. ASSUME NEW d \in Callers, ProcOf[d] = p PROVE pc'[d] = "idle"
      BY <1>15, <3>1 DEF Crash
    <3>2. ASSUME NEW d \in Callers, ProcOf[d] # p PROVE pc'[d] = pc[d] /\ cookie'[d] = cookie[d]
      BY <1>15, <3>2 DEF Crash
    <3> QED
      BY <3>1, <3>2
  <2> QED
    BY <2>1, <2>2 DEF LooksAtRowsJwt, Fresh, Comparing
<1>16. ASSUME NEW c \in Callers, Resolve(c) PROVE LooksAtRowsJwt'
  BY <1>2, <1>3, <1>4, <1>5, <1>6, <1>7, <1>8, <1>9, <1>10, <1>11, <1>16 DEF Resolve
<1>17. ASSUME Environment PROVE LooksAtRowsJwt'
  BY <1>12, <1>13, <1>14, <1>15, <1>17 DEF Environment, OrphanExpires
<1> QED
  BY <1>2, <1>14, <1>16, <1>17 DEF Next, vars

(* Within one process, with any number of callers, an account is not
   disabled as INVALID while its stored JWT works.                         *)
THEOREM WorkingJwtStays ==
  ASSUME SingleProcess
  PROVE  Spec => WorkingJwtNotDisabled
<1>1. Init => MutexHeld /\ LooksAtRowsJwt
  BY DEF Init, MutexHeld, Inside, LooksAtRowsJwt, Comparing
<1>2. Typed /\ LooksAtRowsJwt /\ [Next]_vars =>
        [row'.disabled = "INVALID" /\ row.disabled # "INVALID" => ~Fresh(row.jwt, FALSE)]_vars
  <2>1. SUFFICES ASSUME Typed, LooksAtRowsJwt, [Next]_vars,
                        row'.disabled = "INVALID", row.disabled # "INVALID"
                 PROVE  ~Fresh(row.jwt, FALSE)
    OBVIOUS
  <2>2. PICK c \in Callers : MarkInvalid(c)
    BY <2>1, OnlyMarkInvalid DEF Typed
  <2> QED
    BY <2>1, <2>2 DEF MarkInvalid, LooksAtRowsJwt
<1>3. Typed => TypeOK
  BY DEF Typed
<1> QED
  BY <1>1, <1>2, <1>3, InitTyped, TypingPreserved, MutexPreserved, LooksPreserved, PTL
     DEF Spec, WorkingJwtNotDisabled
-----------------------------------------------------------------------------
(* The browser cookie, within one process that does not die and one
   Leonardo user.  What a call reads it sends; what it was answered it
   stores.                                                                 *)
SingleUser == \A u, v \in Users : u = v
NoCrash    == CrashProcs = {}

SendsNewest ==
  /\ RotationKept
  /\ \A c \in Callers :
       /\ pc[c] \in {"acquire", "wait", "reacquire", "fetch"} => cookie[c].payload = row.payload
       /\ pc[c] \in {"rotate", "save"} => resp[c].payload = newest /\ newest # NoPayload

LEMMA SendsNewestPreserved ==
  ASSUME SingleProcess, SingleUser, NoCrash
  PROVE  Typed /\ MutexHeld /\ OwnedOrTokenOnly /\ SendsNewest /\ [Next]_vars => SendsNewest'
<1> SUFFICES ASSUME TypeOK, FailureKnown, MutexHeld, OwnedOrTokenOnly, SendsNewest, [Next]_vars
             PROVE  SendsNewest'
  BY DEF Typed
<1>a. /\ row \in Row /\ pc \in [Callers -> PC] /\ resp \in [Callers -> Resp]
      /\ cookie \in [Callers -> Copy] /\ newest \in Payloads \cup {NoPayload}
  BY DEF TypeOK
<1>b. ASSUME NEW c \in Callers, Inside(c), NEW d \in Callers \ {c} PROVE ~Inside(d)
  BY <1>b, OneInside
(* A step of the caller that is inside: the others have nothing to store. *)
<1>1. ASSUME NEW c \in Callers, Inside(c), \A d \in Callers \ {c} : pc'[d] = pc[d],
             pc'[c] \notin {"rotate", "save"} => row'.payload = newest',
             pc'[c] \in {"acquire", "wait", "reacquire", "fetch"} => cookie'[c].payload = row'.payload,
             pc'[c] \in {"rotate", "save"} => resp'[c].payload = newest' /\ newest' # NoPayload
      PROVE  SendsNewest'
  BY <1>1, <1>b DEF SendsNewest, RotationKept, Inside
<1>2. ASSUME NEW c \in Callers, Inside(c), pc[c] \notin {"rotate", "save"} PROVE row.payload = newest
  BY <1>2, <1>b DEF SendsNewest, RotationKept, Inside
(* A step that changes neither cookie, and leads to no request. *)
<1>3. ASSUME NEW c \in Callers, pc[c] \notin {"rotate", "save"}, row'.payload = row.payload,
             UNCHANGED newest, \A d \in Callers \ {c} : pc'[d] = pc[d], Inside(c),
             pc'[c] \notin {"acquire", "wait", "reacquire", "fetch", "rotate", "save"}
      PROVE  SendsNewest'
  BY <1>1, <1>2, <1>3
<1>4. ASSUME NEW c \in Callers, (\E f \in BOOLEAN : Begin(c, f)) \/ Lock(c) \/ Done(c)
      PROVE  SendsNewest'
  BY <1>4, <1>a DEF Begin, Lock, Done, SendsNewest, RotationKept
<1>5. ASSUME NEW c \in Callers, Load(c) PROVE SendsNewest'
  <2>1. pc[c] = "load" /\ UNCHANGED <<row, newest>> /\ cookie' = [cookie EXCEPT ![c] = CopyOf(row)]
    BY <1>5 DEF Load
  <2>2. \E l \in PC \ {"rotate", "save"} : Goto(c, l)
    BY <1>5 DEF Load, ReturnToken, PC
  <2>3. cookie'[c].payload = row.payload
    BY <1>a, <2>1 DEF CopyOf
  <2> QED
    BY <1>1, <1>2, <1>a, <2>1, <2>2, <2>3 DEF Inside
<1>6. ASSUME NEW c \in Callers, TokenOnly(c) \/ KeepWorkingToken(c) \/ RecordFailure(c)
      PROVE  SendsNewest'
  <2>1. pc[c] \in {"tokenonly", "failed"} /\ UNCHANGED newest
    BY <1>6 DEF TokenOnly, KeepWorkingToken, RecordFailure
  <2>2. \E l \in {"failed", "unlock", "changed", "temporary", "invalid"} : Goto(c, l)
    BY <1>6 DEF TokenOnly, KeepWorkingToken, RecordFailure, ReturnToken
  <2>3. row' = row \/ (pc[c] = "failed" /\ row' = RecordCookieRefreshFailure(row, resp[c].kind))
    BY <1>6 DEF TokenOnly, KeepWorkingToken, RecordFailure
  <2>4. row'.payload = row.payload
    BY <1>a, <2>3, FailureColumns DEF FailureKnown
  <2> QED
    BY <1>3, <1>a, <2>1, <2>2, <2>4 DEF Inside
<1>7. ASSUME NEW c \in Callers, Poll(c) PROVE SendsNewest'
  <2>1. pc[c] = "wait" /\ UNCHANGED <<row, newest, cookie>>
    BY <1>7 DEF Poll
  <2>2. \E l \in {"unlock", "changed", "reacquire"} : Goto(c, l)
    BY <1>7 DEF Poll, ReturnToken
  <2>3. cookie[c].payload = row.payload
    BY <2>1 DEF SendsNewest
  <2> QED
    BY <1>1, <1>2, <1>a, <2>1, <2>2, <2>3 DEF Inside
<1>8. ASSUME NEW c \in Callers, Acquire(c) \/ Reacquire(c) PROVE SendsNewest'
  <2>1. pc[c] \in {"acquire", "reacquire"} /\ UNCHANGED <<row, newest, cookie>>
    BY <1>8 DEF Acquire, Reacquire
  <2>2. \E l \in {"fetch", "wait", "unlock"} : Goto(c, l)
    BY <1>8 DEF Acquire, Reacquire
  <2>3. cookie[c].payload = row.payload
    BY <2>1 DEF SendsNewest
  <2> QED
    BY <1>1, <1>2, <1>a, <2>1, <2>2, <2>3 DEF Inside
(* The answer: its cookie is the newest, and is about to be stored. *)
<1>9. ASSUME NEW c \in Callers, NEW p \in {cookie[c].payload} \cup (Payloads \ UsedPayloads),
             pc[c] = "fetch"
      PROVE  /\ p # NoPayload
             /\ (IF p = cookie[c].payload THEN newest ELSE p) = p
             /\ cookie[c].payload = row.payload /\ row.payload = newest
  <2>1. cookie[c].payload = row.payload /\ row.payload = newest
    BY <1>2, <1>9 DEF SendsNewest, Inside
  <2>2. row.payload # NoPayload
    BY <1>9 DEF OwnedOrTokenOnly, OnlyToken
  <2> QED
    BY <2>1, <2>2, RowAssumption
<1>10. ASSUME NEW c \in Callers, FetchOk(c) PROVE SendsNewest'
  <2>1. pc[c] = "fetch" /\ UNCHANGED row
    BY <1>10 DEF FetchOk
  <2>2. PICK t \in Tokens \ UsedTokens, u \in Users,
             p \in {cookie[c].payload} \cup (Payloads \ UsedPayloads) :
               LET mine == cookie[c].acct \in {NoUser, u} \/ t \in Opaque
               IN  /\ newest' = IF p = cookie[c].payload THEN newest ELSE p
                   /\ resp' = [resp EXCEPT ![c] = [kind |-> "ok", payload |-> p]]
                   /\ Goto(c, IF mine THEN "save" ELSE "changed")
    BY <1>10 DEF FetchOk
  <2>3. cookie[c].acct \in {NoUser, u}
    BY <1>a DEF SingleUser, Copy
  <2>4. pc' = [pc EXCEPT ![c] = "save"]
    BY <2>2, <2>3
  <2>5. newest' = p /\ p # NoPayload
    BY <1>9, <2>1, <2>2
  <2>6. resp'[c].payload = p
    BY <1>a, <2>2
  <2> QED
    BY <1>1, <1>a, <2>1, <2>4, <2>5, <2>6 DEF Inside
<1>11. ASSUME NEW c \in Callers, FetchFails(c) PROVE SendsNewest'
  <2>1. pc[c] = "fetch" /\ UNCHANGED row
    BY <1>11 DEF FetchFails
  <2>2. PICK kind \in FailureKinds, p \in {cookie[c].payload} \cup (Payloads \ UsedPayloads) :
               /\ newest' = IF p = cookie[c].payload THEN newest ELSE p
               /\ resp' = [resp EXCEPT ![c] = [kind |-> kind, payload |-> p]]
               /\ Goto(c, IF p = cookie[c].payload THEN "failed" ELSE "rotate")
    BY <1>11 DEF FetchFails
  <2>3. /\ newest' = p /\ p # NoPayload
        /\ p = cookie[c].payload => p = row.payload
    BY <1>9, <2>1, <2>2
  <2>4. resp'[c].payload = p
    BY <1>a, <2>2
  <2>5. CASE p = cookie[c].payload
    BY <1>1, <1>a, <2>1, <2>2, <2>3, <2>4, <2>5 DEF Inside
  <2>6. CASE p # cookie[c].payload
    BY <1>1, <1>a, <2>1, <2>2, <2>3, <2>4, <2>6 DEF Inside
  <2> QED
    BY <2>5, <2>6
<1>12. ASSUME NEW c \in Callers, Rotate(c) \/ Save(c) PROVE SendsNewest'
  <2>1. /\ pc[c] \in {"rotate", "save"} /\ row' = UpdateCookieValue(row, resp[c].payload)
        /\ UNCHANGED newest /\ \E l \in {"failed", "success"} : Goto(c, l)
    BY <1>12 DEF Rotate, Save
  <2>2. resp[c].payload = newest /\ newest # NoPayload
    BY <2>1 DEF SendsNewest
  <2>3. row'.payload = newest
    BY <1>a, <2>1, <2>2 DEF UpdateCookieValue, Row
  <2> QED
    BY <1>1, <1>a, <2>1, <2>3 DEF Inside
<1>13. ASSUME NEW c \in Callers, Success(c) PROVE SendsNewest'
  <2>1. pc[c] = "success" /\ UNCHANGED newest /\ Goto(c, "unlock")
    BY <1>13 DEF Success
  <2>2. row'.payload = row.payload
    BY <1>13, <1>a DEF Success, UpdateCookieSessionSuccess, Row
  <2> QED
    BY <1>3, <1>a, <2>1, <2>2 DEF Inside
<1>14. ASSUME NEW c \in Callers, MarkTemporary(c) \/ MarkInvalid(c) \/ MarkChanged(c)
       PROVE  SendsNewest'
  <2>1. pc[c] \in {"temporary", "invalid", "changed"} /\ UNCHANGED newest /\ Goto(c, "unlock")
    BY <1>14 DEF MarkTemporary, MarkInvalid, MarkChanged
  <2>2. row'.payload = row.payload
    BY <1>14, <1>a DEF MarkTemporary, MarkInvalid, MarkChanged, SetTemporary, SetInvalid, AutoDisableCookie, Row
  <2> QED
    BY <1>3, <1>a, <2>1, <2>2 DEF Inside
<1>15. ASSUME NEW c \in Callers, Unlock(c) PROVE SendsNewest'
  <2>1. pc[c] = "unlock" /\ UNCHANGED <<row, newest>> /\ Goto(c, "returned")
    BY <1>15 DEF Unlock
  <2> QED
    BY <1>3, <1>a, <2>1 DEF Inside
<1>16. ASSUME row'.payload = row.payload, UNCHANGED <<pc, cookie, resp, newest>> PROVE SendsNewest'
  BY <1>16 DEF SendsNewest, RotationKept
<1>17. CASE CoolDown
  <2>1. row'.payload = row.payload
    BY <1>17, <1>a DEF CoolDown, Row
  <2> QED
    BY <1>16, <1>17, <2>1 DEF CoolDown
<1>18. ASSUME NEW p \in Procs, Crash(p) PROVE FALSE
  BY <1>18 DEF Crash, NoCrash
<1>19. ASSUME NEW c \in Callers, Resolve(c) PROVE SendsNewest'
  BY <1>4, <1>5, <1>6, <1>7, <1>8, <1>10, <1>11, <1>12, <1>13, <1>14, <1>15, <1>19 DEF Resolve
<1>20. ASSUME Environment PROVE SendsNewest'
  BY <1>16, <1>17, <1>18, <1>20 DEF Environment, Age, OrphanExpires
<1> QED
  BY <1>4, <1>16, <1>19, <1>20 DEF Next, vars

LEMMA NewestAlways ==
  ASSUME SingleProcess, SingleUser, NoCrash
  PROVE  Spec => [](MutexHeld /\ OwnedOrTokenOnly /\ SendsNewest)
<1>1. Init => MutexHeld /\ OwnedOrTokenOnly /\ SendsNewest
  BY DEF Init, MutexHeld, Inside, OwnedOrTokenOnly, Refreshing, Recording, SendsNewest, RotationKept
<1>2. Typed => TypeOK
  BY DEF Typed
<1> QED
  BY <1>1, <1>2, InitTyped, TypingPreserved, MutexPreserved, OwnedPreserved,
     SendsNewestPreserved, PTL DEF Spec

(* Within one process a rotated browser cookie is in the row unless a call
   is about to store it, also when the refresh that rotated it has failed. *)
THEOREM RotationsKept ==
  ASSUME SingleProcess, SingleUser, NoCrash
  PROVE  Spec => []RotationKept
<1>1. SendsNewest => RotationKept
  BY DEF SendsNewest
<1> QED
  BY <1>1, NewestAlways, PTL

(* Within one process get-session is sent the newest browser cookie. *)
THEOREM FetchesUseNewest ==
  ASSUME SingleProcess, SingleUser, NoCrash
  PROVE  Spec => []FetchUsesNewest
<1>1. MutexHeld /\ SendsNewest => FetchUsesNewest
  <2> SUFFICES ASSUME MutexHeld, SendsNewest, NEW c \in Callers, pc[c] = "fetch"
               PROVE  cookie[c].payload = newest
    BY DEF FetchUsesNewest
  <2>1. \A d \in Callers : pc[d] \notin {"rotate", "save"}
    BY OneInside DEF Inside
  <2> QED
    BY <2>1 DEF SendsNewest, RotationKept
<1> QED
  BY <1>1, NewestAlways, PTL
-----------------------------------------------------------------------------
(* That a call ends.  What a call still has ahead of it, at most.           *)
Labels == [idle |-> 0, returned |-> 1, unlock |-> 2, success |-> 3, temporary |-> 3, invalid |-> 3,
           changed |-> 3, save |-> 4, failed |-> 4, rotate |-> 5, fetch |-> 6, tokenonly |-> 6,
           reacquire |-> 7, wait |-> 8, acquire |-> 9, load |-> 10, lock |-> 11]
Ahead(c) == Labels[pc[c]]

(* Each step of a call goes on to a label that is nearer to the end: a call *)
(* waits for the lease once and sends get-session once, and goes back to    *)
(* neither (session_manager.go:117-144).                                    *)
LEMMA StepGetsOn ==
  ASSUME TypeOK, NEW c \in Callers, Resolve(c) \/ Done(c)
  PROVE  Ahead(c)' < Ahead(c) /\ \A d \in Callers \ {c} : pc'[d] = pc[d]
<1>a. pc \in [Callers -> PC]
  BY DEF TypeOK
<1>b. /\ Labels["returned"] = 1 /\ Labels["idle"] = 0 /\ Labels["unlock"] = 2
      /\ \A l \in {"success", "temporary", "invalid", "changed"} : Labels[l] = 3
      /\ \A l \in {"save", "failed"} : Labels[l] = 4
      /\ \A l \in {"fetch", "tokenonly"} : Labels[l] = 6
      /\ Labels["rotate"] = 5 /\ Labels["reacquire"] = 7 /\ Labels["wait"] = 8
      /\ Labels["acquire"] = 9 /\ Labels["load"] = 10 /\ Labels["lock"] = 11
  BY DEF Labels
<1>1. CASE Lock(c)
  <2>1. pc[c] = "lock" /\ Goto(c, "load")
    BY <1>1 DEF Lock
  <2> QED
    BY <1>a, <1>b, <2>1 DEF Ahead
<1>2. CASE Load(c)
  <2>1. \E l \in {"unlock", "changed", "tokenonly", "acquire"} : Goto(c, l)
    BY <1>2 DEF Load, ReturnToken
  <2>2. pc[c] = "load"
    BY <1>2 DEF Load
  <2> QED
    BY <1>a, <1>b, <2>1, <2>2 DEF Ahead
<1>3. CASE TokenOnly(c)
  <2>1. \E l \in {"unlock", "changed", "failed"} : Goto(c, l)
    BY <1>3 DEF TokenOnly, ReturnToken
  <2>2. pc[c] = "tokenonly"
    BY <1>3 DEF TokenOnly
  <2> QED
    BY <1>a, <1>b, <2>1, <2>2 DEF Ahead
<1>4. CASE Acquire(c)
  <2>1. pc[c] = "acquire" /\ \E l \in {"fetch", "wait"} : Goto(c, l)
    BY <1>4 DEF Acquire
  <2> QED
    BY <1>a, <1>b, <2>1 DEF Ahead
<1>5. CASE Poll(c)
  <2>1. pc[c] = "wait" /\ \E l \in {"unlock", "changed", "reacquire"} : Goto(c, l)
    BY <1>5 DEF Poll, ReturnToken
  <2> QED
    BY <1>a, <1>b, <2>1 DEF Ahead
<1>6. CASE Reacquire(c)
  <2>1. pc[c] = "reacquire" /\ \E l \in {"fetch", "unlock"} : Goto(c, l)
    BY <1>6 DEF Reacquire
  <2> QED
    BY <1>a, <1>b, <2>1 DEF Ahead
<1>7. CASE FetchOk(c) \/ FetchFails(c)
  <2>1. pc[c] = "fetch" /\ \E l \in {"save", "changed", "failed", "rotate"} : Goto(c, l)
    BY <1>7 DEF FetchOk, FetchFails
  <2> QED
    BY <1>a, <1>b, <2>1 DEF Ahead
<1>8. CASE KeepWorkingToken(c) \/ RecordFailure(c)
  <2>1. pc[c] = "failed" /\ \E l \in {"temporary", "invalid", "changed", "unlock"} : Goto(c, l)
    BY <1>8 DEF KeepWorkingToken, RecordFailure, ReturnToken
  <2> QED
    BY <1>a, <1>b, <2>1 DEF Ahead
<1>9. CASE Rotate(c) \/ Save(c)
  <2>1. \/ pc[c] = "rotate" /\ Goto(c, "failed")
        \/ pc[c] = "save" /\ Goto(c, "success")
    BY <1>9 DEF Rotate, Save
  <2> QED
    BY <1>a, <1>b, <2>1 DEF Ahead
<1>10. CASE MarkTemporary(c) \/ MarkInvalid(c) \/ MarkChanged(c) \/ Success(c)
  <2>1. pc[c] \in {"temporary", "invalid", "changed", "success"} /\ Goto(c, "unlock")
    BY <1>10 DEF MarkTemporary, MarkInvalid, MarkChanged, Success
  <2> QED
    BY <1>a, <1>b, <2>1 DEF Ahead
<1>11. CASE Unlock(c) \/ Done(c)
  <2>1. \/ pc[c] = "unlock" /\ Goto(c, "returned")
        \/ pc[c] = "returned" /\ Goto(c, "idle")
    BY <1>11 DEF Unlock, Done
  <2> QED
    BY <1>a, <1>b, <2>1 DEF Ahead
<1> QED
  BY <1>1, <1>2, <1>3, <1>4, <1>5, <1>6, <1>7, <1>8, <1>9, <1>10, <1>11 DEF Resolve

(* A call ends within eleven steps, if its steps go on: nothing that other  *)
(* callers, the other process or Leonardo do gives it more.                 *)
GetsOn ==
  [][\A c \in Callers : /\ Resolve(c) \/ Done(c) => Ahead(c)' < Ahead(c)
                        /\ pc[c] # "idle" => Ahead(c)' <= Ahead(c)]_vars

Bounded == \A c \in Callers : Ahead(c) \in 0..11 /\ (Ahead(c) = 0 <=> pc[c] = "idle")

(* Every call of the session manager ends, if its own steps go on.          *)
THEOREM CallsGetOn == Spec => []Bounded /\ GetsOn
<1>1. TypeOK => Bounded
  BY DEF TypeOK, PC, Labels, Ahead, Bounded
<1>2. TypeOK /\ TypeOK' /\ [Next]_vars =>
        [\A c \in Callers : /\ Resolve(c) \/ Done(c) => Ahead(c)' < Ahead(c)
                            /\ pc[c] # "idle" => Ahead(c)' <= Ahead(c)]_vars
  <2> SUFFICES ASSUME TypeOK, TypeOK', Next, NEW c \in Callers
               PROVE  /\ Resolve(c) \/ Done(c) => Ahead(c)' < Ahead(c)
                      /\ pc[c] # "idle" => Ahead(c)' <= Ahead(c)
    OBVIOUS
  <2>1. pc[c] \in PC /\ pc'[c] \in PC /\ \A l \in PC : Labels[l] \in Nat
    BY DEF TypeOK, PC, Labels
  <2>2. Ahead(c) \in Nat /\ Ahead(c)' \in Nat
    BY <2>1 DEF Ahead
  <2>3. CASE Resolve(c) \/ Done(c)
    BY <2>2, <2>3, StepGetsOn
  <2>4. CASE ~(Resolve(c) \/ Done(c)) /\ pc'[c] \in {pc[c], "idle"}
    <3>1. Ahead(c)' \in {Ahead(c), 0}
      BY <2>4 DEF Ahead, Labels
    <3> QED
      BY <2>2, <2>4, <3>1
  <2>5. CASE \E f \in BOOLEAN : Begin(c, f)
    <3>1. pc[c] = "idle"
      BY <2>5 DEF Begin
    <3> QED
      BY <2>3, <3>1
  <2>6. ASSUME NEW d \in Callers \ {c}, (\E f \in BOOLEAN : Begin(d, f)) \/ Resolve(d) \/ Done(d)
        PROVE  pc'[c] = pc[c]
    <3>1. CASE \E f \in BOOLEAN : Begin(d, f)
      BY <3>1 DEF Begin, TypeOK
    <3> QED
      BY <2>6, <3>1, StepGetsOn
  <2>7. CASE Environment
    <3>1. pc'[c] \in {pc[c], "idle"}
      BY <2>7 DEF Environment, Age, CoolDown, OrphanExpires, Crash
    <3> QED
      BY <2>3, <2>4, <3>1
  <2> QED
    BY <2>3, <2>4, <2>5, <2>6, <2>7 DEF Next
<1> QED
  BY <1>1, <1>2, TypeCorrect, PTL DEF Spec, GetsOn

(* Whoever holds a mutex is a call of that process that is on its way to    *)
(* unlock it: no return, failure or crash leaves it locked, so that a call  *)
(* which waits for it waits for one that gets on (session_manager.go:64-65).*)
HeldInside ==
  \A p \in Procs : mutex[p] # Nobody => mutex[p] \in Callers /\ ProcOf[mutex[p]] = p /\ Inside(mutex[p])

LEMMA HeldPreserved == TypeOK /\ HeldInside /\ [Next]_vars => HeldInside'
<1> SUFFICES ASSUME TypeOK, HeldInside, [Next]_vars PROVE HeldInside'
  OBVIOUS
<1> USE DEF HeldInside, Inside
<1>a. /\ pc \in [Callers -> PC] /\ mutex \in [Procs -> Callers \cup {Nobody}]
      /\ ProcOf \in [Callers -> Procs] /\ Nobody \notin Callers
  BY CallerAssumption DEF TypeOK
<1>1. ASSUME NEW c \in Callers, Lock(c) PROVE HeldInside'
  BY <1>1, <1>a DEF Lock
<1>2. ASSUME NEW c \in Callers, Unlock(c) PROVE HeldInside'
  BY <1>2, <1>a DEF Unlock
<1>3. ASSUME NEW p \in Procs, Crash(p) PROVE HeldInside'
  <2>1. mutex' = [mutex EXCEPT ![p] = Nobody]
    BY <1>3 DEF Crash
  <2>2. \A c \in Callers : ProcOf[c] # p => pc'[c] = pc[c]
    BY <1>3 DEF Crash
  <2> QED
    BY <1>a, <2>1, <2>2
<1>4. ASSUME NEW c \in Callers, UNCHANGED mutex, Inside(c) => Inside(c)',
             \A d \in Callers \ {c} : pc'[d] = pc[d]
      PROVE  HeldInside'
  BY <1>4
<1>5. ASSUME NEW c \in Callers, (\E f \in BOOLEAN : Begin(c, f)) \/ Done(c) PROVE HeldInside'
  BY <1>4, <1>5, <1>a DEF Begin, Done
<1>6. ASSUME NEW c \in Callers, Resolve(c), ~Lock(c), ~Unlock(c) PROVE HeldInside'
  <2>1. UNCHANGED mutex /\ \E l \in PC \ {"idle", "lock", "returned"} : Goto(c, l)
    <3>1. CASE Load(c) \/ TokenOnly(c) \/ Poll(c) \/ KeepWorkingToken(c)
      BY <3>1 DEF Load, TokenOnly, Poll, KeepWorkingToken, ReturnToken, PC
    <3>2. CASE Acquire(c) \/ Reacquire(c) \/ FetchOk(c) \/ FetchFails(c)
      BY <3>2 DEF Acquire, Reacquire, FetchOk, FetchFails, PC
    <3>3. CASE \/ Rotate(c) \/ RecordFailure(c) \/ MarkTemporary(c) \/ MarkInvalid(c)
               \/ MarkChanged(c) \/ Save(c) \/ Success(c)
      BY <3>3 DEF Rotate, RecordFailure, MarkTemporary, MarkInvalid, MarkChanged, Save, Success, PC
    <3> QED
      BY <1>6, <3>1, <3>2, <3>3 DEF Resolve
  <2> QED
    BY <1>4, <1>a, <2>1
<1>7. CASE UNCHANGED <<pc, mutex>>
  BY <1>7
<1>8. ASSUME Environment PROVE HeldInside'
  BY <1>3, <1>7, <1>8 DEF Environment, Age, CoolDown, OrphanExpires
<1> QED
  BY <1>1, <1>2, <1>5, <1>6, <1>7, <1>8 DEF Next, vars

(* The mutex that a call waits for is held by a call that is on its way.    *)
THEOREM LocksComeFree == Spec => []HeldInside
<1>1. Init => HeldInside
  BY DEF Init, HeldInside
<1> QED
  BY <1>1, HeldPreserved, TypeCorrect, PTL DEF Spec
=============================================================================
