------------------------- MODULE AccountFlowsProofs -------------------------
(* Proofs about AccountFlows, for every set of callers and whatever flows   *)
(* each of them may run.                                                    *)
EXTENDS AccountFlows, SessionManagerProofs

USE DEF Goto
-----------------------------------------------------------------------------

(* The row after a statement that does not bind it to an account.           *)
RowsAfter(r) ==
  {r, SetTemporary(r), SetInvalid(r), ClearCookieSessionJWT(r), [r EXCEPT !.cooling = FALSE]}
  \cup {UpdateCookieValue(r, p) : p \in Payloads \cup {NoPayload}}
  \cup {UpdateCookieSessionSuccess(r, t) : t \in Tokens \cup {NoToken}}
  \cup {RecordCookieRefreshFailure(r, kind) : kind \in FailureKinds}
  \cup {AutoDisableCookie(r, why) : why \in Reasons}
  \cup {ToggleCookie(r, on) : on \in BOOLEAN}

NotStuck(r) == r.active => r.status # "invalid"

(* None of them changes the account, or enables one that is invalid.        *)
LEMMA StatementsKeep ==
  ASSUME NEW r \in Row, NEW q \in RowsAfter(r)
  PROVE  q \in Row /\ q.acct = r.acct /\ (NotStuck(r) => NotStuck(q))
<1>1. CASE q \in {r, ClearCookieSessionJWT(r), [r EXCEPT !.cooling = FALSE]}
  BY <1>1 DEF ClearCookieSessionJWT, Row, NotStuck
<1>2. CASE q \in {SetTemporary(r), SetInvalid(r)}
  <2>1. q \in Row
    BY <1>2, RowOperators
  <2>2. q.acct = r.acct
    BY <1>2 DEF SetTemporary, SetInvalid, Row
  <2>3. CASE q = SetTemporary(r)
    BY <2>1, <2>2, <2>3 DEF SetTemporary, Row, NotStuck
  <2>4. CASE q = SetInvalid(r)
    BY <2>1, <2>2, <2>4 DEF SetInvalid, Row, NotStuck
  <2> QED
    BY <1>2, <2>3, <2>4
<1>3. CASE \E p \in Payloads \cup {NoPayload} : q = UpdateCookieValue(r, p)
  <2>1. q \in Row
    BY <1>3, RowOperators
  <2> QED
    BY <1>3, <2>1 DEF UpdateCookieValue, Row, NotStuck
<1>4. CASE \E t \in Tokens \cup {NoToken} : q = UpdateCookieSessionSuccess(r, t)
  <2>1. q \in Row
    BY <1>4, RowOperators
  <2>2. q.acct = r.acct /\ q.status = "active"
    BY <1>4 DEF UpdateCookieSessionSuccess, Row
  <2> QED
    BY <2>1, <2>2 DEF NotStuck
<1>5. CASE \E kind \in FailureKinds : q = RecordCookieRefreshFailure(r, kind)
  <2>1. q \in Row
    BY <1>5, RowOperators
  <2>2. q.acct = r.acct /\ q.status = r.status /\ q.active = r.active
    BY <1>5 DEF RecordCookieRefreshFailure, Row
  <2> QED
    BY <2>1, <2>2 DEF NotStuck
<1>6. CASE \E why \in Reasons : q = AutoDisableCookie(r, why)
  <2>1. q \in Row
    BY <1>6, RowOperators
  <2> QED
    BY <1>6, <2>1 DEF AutoDisableCookie, Row, NotStuck
<1>7. CASE \E on \in BOOLEAN : q = ToggleCookie(r, on)
  <2>1. PICK on \in BOOLEAN : q = ToggleCookie(r, on)
    BY <1>7
  <2>2. CASE on
    BY <2>1, <2>2 DEF ToggleCookie, Row, Status, Reasons, NotStuck
  <2>3. CASE ~on
    BY <2>1, <2>3 DEF ToggleCookie, Row, NotStuck
  <2> QED
    BY <2>2, <2>3
<1> QED
  BY <1>1, <1>2, <1>3, <1>4, <1>5, <1>6, <1>7 DEF RowsAfter
-----------------------------------------------------------------------------
(* Type correctness.  A flow that is past the session manager's call holds  *)
(* the JWT which that call has returned.                                    *)
Early == {"none", "listed", "resolve"}
HoldsJwt == \A c \in Callers : step[c] \notin Early => pc[c] = "returned" /\ result[c] # NoToken
FlowTyped == FlowTypeOK /\ FailureKnown /\ HoldsJwt

LEMMA FlowInitTyped == FlowInit => FlowTyped
<1> SUFFICES ASSUME FlowInit PROVE FlowTyped
  OBVIOUS
<1>1. TypeOK /\ FailureKnown
  BY InitTyped DEF FlowInit, Typed
<1>2. NoBase \in Base
  BY DEF NoBase, Base, Reasons
<1> QED
  BY <1>1, <1>2 DEF FlowInit, FlowTyped, FlowTypeOK, HoldsJwt, Steps, Early

(* The session manager's part of a step.                                    *)
LEMMA FlowOfNext ==
  ASSUME NEW c \in Callers, Call(c) \/ InResolve(c)
  PROVE  Next
<1>1. CASE Call(c)
  <2>1. Forced(flow[c]) \in BOOLEAN
    BY DEF Forced
  <2>2. Begin(c, Forced(flow[c]))
    BY <1>1 DEF Call
  <2> QED
    BY <2>1, <2>2 DEF Next
<1>2. CASE InResolve(c)
  BY <1>2 DEF InResolve, Next
<1> QED
  BY <1>1, <1>2

(* What is true of a statement that a flow goes on from, or ends at.        *)
Statement(c, s) == Go(c, s) /\ UNCHANGED quiet

LEMMA StatementTyped ==
  ASSUME FlowTyped, NEW c \in Callers, NEW s \in (Steps \ Early) \cup {"end"}, Statement(c, s),
         s # "end" => pc[c] = "returned" /\ result[c] # NoToken,
         row' \in Row, refused' \in BOOLEAN
  PROVE  FlowTyped'
<1> USE DEF FlowTyped, FlowTypeOK, TypeOK, Statement, quiet
<1>0. UNCHANGED <<lease, life, user, newest, mutex, force, cookie, resp>>
  OBVIOUS
<1>1. CASE s = "end"
  <2>1. NoBase \in Base
    BY DEF NoBase, Base, Reasons
  <2>2. /\ pc' = [pc EXCEPT ![c] = "idle"] /\ result' = [result EXCEPT ![c] = NoToken]
        /\ flow' = [flow EXCEPT ![c] = "none"] /\ step' = [step EXCEPT ![c] = "none"]
        /\ retried' = [retried EXCEPT ![c] = FALSE] /\ base' = [base EXCEPT ![c] = NoBase]
    BY <1>1, ZenonT(20) DEF Go, Finish, SetStep, Goto
  <2>3. FlowTypeOK'
    BY <1>0, <2>1, <2>2 DEF PC, Steps
  <2>4. FailureKnown'
    BY <1>0, <2>2 DEF FailureKnown
  <2>5. HoldsJwt'
    BY <2>2 DEF HoldsJwt, Early
  <2> QED
    BY <2>3, <2>4, <2>5
<1>2. CASE s # "end"
  <2>1. step' = [step EXCEPT ![c] = s] /\ UNCHANGED <<pc, result, flow, retried, base>>
    BY <1>2 DEF Go, SetStep
  <2>2. s \in Steps
    BY <1>2
  <2>3. FlowTypeOK'
    BY <1>0, <2>1, <2>2
  <2>4. FailureKnown'
    BY <1>0, <2>1 DEF FailureKnown
  <2>5. HoldsJwt'
    BY <1>2, <2>1, <2>2 DEF HoldsJwt
  <2> QED
    BY <2>3, <2>4, <2>5
<1> QED
  BY <1>1, <1>2

(* The steps of a flow that are statements, each with what it does to the   *)
(* row and where it leads.                                                  *)
Late == (Steps \ Early) \cup {"end"}

Binding(c) == At(c, "bind") \/ At(c, "rebind")

LEMMA StatementsOfFlow ==
  ASSUME FlowTyped, NEW c \in Callers,
         \/ Resolved(c) \/ VerifyOk(c) \/ OtherAccount(c) \/ Rejected(c) \/ VerifyFails(c)
         \/ Clear(c) \/ Restore(c) \/ Count(c) \/ Disable(c) \/ Fallback(c) \/ StoreToken(c)
         \/ ReadProfile(c) \/ BindProfile(c) \/ Deplete(c) \/ Reenable(c) \/ Submit(c) \/ Complete(c)
  PROVE  /\ \E s \in Late : Statement(c, s) /\ (s # "end" => pc[c] = "returned" /\ result[c] # NoToken)
         /\ row' \in RowsAfter(row) \/ (BindProfile(c) /\ row' = SetProfile(row, InfoId(result[c])))
         /\ refused' \in BOOLEAN
<1> USE DEF Statement, At
<1>a. /\ row \in RowsAfter(row)
      /\ base[c].payload \in Payloads \cup {NoPayload}
      /\ result[c] \in Tokens \cup {NoToken}
      /\ refused \in BOOLEAN
  BY DEF FlowTyped, FlowTypeOK, TypeOK, Base, RowsAfter
<1>b. step[c] \notin Early => pc[c] = "returned" /\ result[c] # NoToken
  BY DEF FlowTyped, HoldsJwt
<1>c. /\ \A s \in {"verify", "fallback", "mismatch", "clear", "restore", "count", "disable", "again",
                   "success", "profile", "bind", "rebind", "deplete", "reenable", "submit",
                   "running", "resync", "end"} : s \in Late
      /\ AfterRejection(c) \in Late /\ AfterProfile(c) \subseteq Late
      /\ AfterIdentity(c) \in Late
  BY DEF Late, Steps, Early, AfterRejection, AfterProfile, AfterIdentity
<1>d. /\ \A kind \in FailureKinds : RecordCookieRefreshFailure(row, kind) \in RowsAfter(row)
      /\ \A why \in Reasons : AutoDisableCookie(row, why) \in RowsAfter(row)
      /\ \A p \in Payloads \cup {NoPayload} : UpdateCookieValue(row, p) \in RowsAfter(row)
      /\ \A t \in Tokens \cup {NoToken} : UpdateCookieSessionSuccess(row, t) \in RowsAfter(row)
      /\ \A on \in BOOLEAN : ToggleCookie(row, on) \in RowsAfter(row)
      /\ ClearCookieSessionJWT(row) \in RowsAfter(row) /\ SetInvalid(row) \in RowsAfter(row)
  BY DEF RowsAfter
<1>e. {"ACCOUNT_CHANGED", "DEPLETED"} \subseteq Reasons /\ "auth" \in FailureKinds
  BY DEF Reasons, FailureKinds
<1>1. CASE Resolved(c)
  BY <1>a, <1>c, <1>1 DEF Resolved
<1>2. CASE VerifyOk(c)
  BY <1>a, <1>b, <1>c, <1>2 DEF VerifyOk, Early
<1>3. CASE OtherAccount(c)
  BY <1>a, <1>c, <1>d, <1>e, <1>3 DEF OtherAccount
<1>4. CASE Rejected(c)
  BY <1>a, <1>b, <1>c, <1>4 DEF Rejected, Early
<1>5. CASE VerifyFails(c)
  BY <1>a, <1>b, <1>c, <1>5 DEF VerifyFails, Early
<1>6. CASE Clear(c)
  BY <1>a, <1>b, <1>c, <1>d, <1>6 DEF Clear, Early
<1>7. CASE Restore(c)
  BY <1>a, <1>b, <1>c, <1>d, <1>7 DEF Restore, Early
<1>8. CASE Count(c)
  BY <1>a, <1>b, <1>c, <1>d, <1>e, <1>8 DEF Count, Early
<1>9. CASE Disable(c)
  BY <1>a, <1>b, <1>c, <1>d, <1>9 DEF Disable, Early
<1>10. CASE Fallback(c)
  BY <1>a, <1>b, <1>c, <1>d, <1>10 DEF Fallback, Early
<1>11. CASE StoreToken(c)
  BY <1>a, <1>b, <1>c, <1>d, <1>11 DEF StoreToken, Early
<1>12. CASE ReadProfile(c)
  BY <1>a, <1>b, <1>c, <1>12 DEF ReadProfile, Early
<1>13. CASE BindProfile(c)
  BY <1>a, <1>b, <1>c, <1>13 DEF BindProfile, Early
<1>14. CASE Deplete(c)
  BY <1>a, <1>c, <1>d, <1>e, <1>14 DEF Deplete
<1>15. CASE Reenable(c)
  BY <1>a, <1>c, <1>d, <1>15 DEF Reenable
<1>16. CASE Submit(c)
  BY <1>a, <1>b, <1>c, <1>16 DEF Submit, Early
<1>17. CASE Complete(c)
  BY <1>a, <1>b, <1>c, <1>17 DEF Complete, Early
<1> QED
  BY <1>1, <1>2, <1>3, <1>4, <1>5, <1>6, <1>7, <1>8, <1>9, <1>10, <1>11, <1>12, <1>13, <1>14,
     <1>15, <1>16, <1>17

(* What the session manager's steps leave alone: a call that has returned,  *)
(* the JWTs that are still known, and everything but the row's own columns. *)
LEMMA ResolveIsLocal ==
  ASSUME TypeOK, NEW c \in Callers, Resolve(c)
  PROVE  /\ pc[c] # "returned"
         /\ \A d \in Callers \ {c} : pc'[d] = pc[d] /\ result'[d] = result[d]
<1> USE DEF TypeOK, ReturnToken
<1>1. CASE Lock(c) \/ Load(c) \/ TokenOnly(c) \/ Acquire(c) \/ Poll(c) \/ Reacquire(c)
  BY <1>1 DEF Lock, Load, TokenOnly, Acquire, Poll, Reacquire
<1>2. CASE FetchOk(c)
  BY <1>2 DEF FetchOk
<1>3. CASE FetchFails(c) \/ Rotate(c) \/ KeepWorkingToken(c) \/ RecordFailure(c)
  BY <1>3 DEF FetchFails, Rotate, KeepWorkingToken, RecordFailure
<1>4. CASE MarkTemporary(c) \/ MarkInvalid(c) \/ MarkChanged(c) \/ Save(c) \/ Success(c) \/ Unlock(c)
  BY <1>4 DEF MarkTemporary, MarkInvalid, MarkChanged, Save, Success, Unlock
<1> QED
  BY <1>1, <1>2, <1>3, <1>4 DEF Resolve

LEMMA ResolveKeepsRow ==
  ASSUME TypeOK, FailureKnown, NEW c \in Callers, Resolve(c)
  PROVE  row' \in RowsAfter(row)
<1> USE DEF RowsAfter
<1>a. resp[c].payload \in Payloads \cup {NoPayload} /\ result[c] \in Tokens \cup {NoToken}
  BY DEF TypeOK, Resp
<1>b. pc[c] = "failed" => resp[c].kind \in FailureKinds
  BY DEF FailureKnown
<1>1. CASE UNCHANGED row
  BY <1>1
<1>2. CASE Rotate(c) \/ Save(c) \/ Success(c)
  BY <1>a, <1>2 DEF Rotate, Save, Success
<1>3. CASE KeepWorkingToken(c) \/ RecordFailure(c)
  BY <1>b, <1>3 DEF KeepWorkingToken, RecordFailure
<1>4. CASE MarkTemporary(c) \/ MarkInvalid(c) \/ MarkChanged(c)
  BY <1>4 DEF MarkTemporary, MarkInvalid, MarkChanged, Reasons
<1> QED
  BY <1>1, <1>2, <1>3, <1>4 DEF Resolve, Lock, Load, TokenOnly, Acquire, Poll, Reacquire, FetchOk,
     FetchFails, Unlock

(* Leonardo gives a JWT anew only when nothing knows it any more.           *)
LEMMA KnownJwtsKeepUser ==
  ASSUME TypeOK, NEW c \in Callers, Resolve(c), NEW d \in Callers, result[d] \in Tokens
  PROVE  user'[result[d]] = user[result[d]]
<1>1. CASE FetchOk(c)
  <2>1. PICK t \in Tokens \ UsedTokens, u \in Users : user' = [user EXCEPT ![t] = u]
    BY <1>1 DEF FetchOk
  <2>2. result[d] \in UsedTokens
    BY DEF UsedTokens
  <2> QED
    BY <2>1, <2>2 DEF TypeOK
<1>2. CASE UNCHANGED user
  BY <1>2
<1> QED
  BY <1>1, <1>2 DEF Resolve, Lock, Load, TokenOnly, Acquire, Poll, Reacquire, FetchFails, Rotate,
     KeepWorkingToken, RecordFailure, MarkTemporary, MarkInvalid, MarkChanged, Save, Success, Unlock

(* A profile is stored under the id of a JWT that is at hand.               *)
LEMMA BoundIdTyped ==
  ASSUME FlowTyped, NEW c \in Callers, BindProfile(c)
  PROVE  SetProfile(row, InfoId(result[c])) \in Row
<1>1. result[c] \in Tokens
  BY DEF FlowTyped, FlowTypeOK, TypeOK, HoldsJwt, Early, BindProfile, At
<1>2. InfoId(result[c]) \in Users \cup {NoUser}
  BY <1>1 DEF FlowTyped, FlowTypeOK, TypeOK, InfoId, Claim
<1> QED
  BY <1>2 DEF FlowTyped, FlowTypeOK, TypeOK, SetProfile, Row

(* A step of a flow is one of the session manager's, a statement, the       *)
(* listing or the second attempt.                                           *)
LEMMA FlowStepTyped ==
  ASSUME FlowTyped, NEW c \in Callers, FlowStep(c)
  PROVE  FlowTyped'
<1> USE DEF FlowTyped
<1>1. ASSUME NEW f \in Flows, List(c, f) PROVE FlowTyped'
  <2>1. BaseOf(row) \in Base
    BY DEF FlowTypeOK, TypeOK, Row, BaseOf, Base
  <2>2. TypeOK' /\ FailureKnown'
    BY <1>1 DEF List, FlowTypeOK, TypeOK, FailureKnown, vars
  <2>3. FlowTypeOK'
    BY <1>1, <2>1, <2>2 DEF List, At, SetStep, FlowTypeOK, Steps
  <2>4. HoldsJwt'
    BY <1>1 DEF List, At, SetStep, FlowTypeOK, HoldsJwt, Early, vars
  <2> QED
    BY <2>2, <2>3, <2>4
<1>2. ASSUME Call(c) PROVE FlowTyped'
  <2>1. TypeOK' /\ FailureKnown'
    BY <1>2, FlowOfNext, TypingPreserved DEF FlowTypeOK, Typed
  <2>2. FlowTypeOK'
    BY <1>2, <2>1 DEF Call, SetStep, FlowTypeOK, Steps
  <2>3. HoldsJwt'
    <3>1. pc' = [pc EXCEPT ![c] = "lock"] /\ step' = [step EXCEPT ![c] = "resolve"] /\ UNCHANGED result
      BY <1>2 DEF Call, Begin, SetStep
    <3> QED
      BY <3>1 DEF HoldsJwt, Early, FlowTypeOK, TypeOK
  <2> QED
    BY <2>1, <2>2, <2>3
<1>3. ASSUME InResolve(c) PROVE FlowTyped'
  <2>1. TypeOK' /\ FailureKnown'
    BY <1>3, FlowOfNext, TypingPreserved DEF FlowTypeOK, Typed
  <2>2. FlowTypeOK'
    BY <1>3, <2>1 DEF InResolve, FlowTypeOK
  <2>3. HoldsJwt'
    BY <1>3, ResolveIsLocal DEF InResolve, HoldsJwt, FlowTypeOK
  <2> QED
    BY <2>1, <2>2, <2>3
<1>4. ASSUME Again(c) PROVE FlowTyped'
  <2>1. pc' = [pc EXCEPT ![c] = "lock"] /\ result' = [result EXCEPT ![c] = NoToken]
        /\ step' = [step EXCEPT ![c] = "resolve"]
    BY <1>4 DEF Again, SetStep
  <2>2. TypeOK' /\ FailureKnown'
    BY <1>4, <2>1 DEF Again, FlowTypeOK, TypeOK, FailureKnown, PC
  <2>3. FlowTypeOK'
    BY <1>4, <2>1, <2>2 DEF Again, FlowTypeOK, Steps
  <2>4. HoldsJwt'
    BY <2>1 DEF HoldsJwt, Early, FlowTypeOK, TypeOK
  <2> QED
    BY <2>2, <2>3, <2>4
<1>5. ASSUME NEW s \in Late, Statement(c, s), s # "end" => pc[c] = "returned" /\ result[c] # NoToken,
             row' \in Row, refused' \in BOOLEAN
      PROVE  FlowTyped'
  BY <1>5, StatementTyped DEF Late
<1>6. row \in Row
  BY DEF FlowTypeOK, TypeOK
<1>7. ASSUME BindProfile(c) PROVE SetProfile(row, InfoId(result[c])) \in Row
  BY <1>7, BoundIdTyped
<1> QED
  BY <1>1, <1>2, <1>3, <1>4, <1>5, <1>6, <1>7, StatementsKeep, StatementsOfFlow DEF FlowStep

LEMMA FlowTypingPreserved == FlowTyped /\ [FlowNext]_allVars => FlowTyped'
<1> SUFFICES ASSUME FlowTyped, [FlowNext]_allVars PROVE FlowTyped'
  OBVIOUS
<1>1. ASSUME NEW c \in Callers, FlowStep(c) PROVE FlowTyped'
  BY <1>1, FlowStepTyped
<1>2. ASSUME NEW on \in BOOLEAN, UserToggle(on) PROVE FlowTyped'
  <2>1. ToggleCookie(row, on) \in Row
    BY StatementsKeep DEF FlowTyped, FlowTypeOK, TypeOK, RowsAfter
  <2> QED
    BY <1>2, <2>1 DEF UserToggle, quiet, flowVars, FlowTyped, FlowTypeOK, TypeOK, FailureKnown, HoldsJwt
<1>3. ASSUME CoolDown \/ \E t \in Tokens : Age(t), UNCHANGED flowVars PROVE FlowTyped'
  <2>1. TypeOK' /\ FailureKnown'
    BY <1>3, TypingPreserved DEF FlowTyped, FlowTypeOK, Typed, Next, Environment
  <2>2. UNCHANGED <<pc, result>>
    BY <1>3 DEF CoolDown, Age
  <2> QED
    BY <1>3, <2>1, <2>2 DEF FlowTyped, FlowTypeOK, HoldsJwt, flowVars
<1>4. CASE UNCHANGED allVars
  BY <1>4 DEF allVars, vars, flowVars, FlowTyped, FlowTypeOK, TypeOK, FailureKnown, HoldsJwt
<1> QED
  BY <1>1, <1>2, <1>3, <1>4 DEF FlowNext

(* The flows, the session manager and the row keep their types.             *)
THEOREM FlowTypeCorrect == FlowSpec => []FlowTypeOK
<1>1. FlowTyped => FlowTypeOK
  BY DEF FlowTyped
<1> QED
  BY <1>1, FlowInitTyped, FlowTypingPreserved, PTL DEF FlowSpec
-----------------------------------------------------------------------------
(* Every step leaves the row as it is, or as one of its statements does.    *)
LEMMA RowChanges ==
  ASSUME FlowTyped, [FlowNext]_allVars
  PROVE  \/ row' \in RowsAfter(row)
         \/ \E c \in Callers : BindProfile(c) /\ row' = SetProfile(row, InfoId(result[c]))
<1>a. row \in RowsAfter(row)
  BY DEF RowsAfter
<1>1. ASSUME NEW c \in Callers, InResolve(c) PROVE row' \in RowsAfter(row)
  <2>1. Resolve(c)
    BY <1>1 DEF InResolve
  <2> QED
    BY <2>1, ResolveKeepsRow DEF FlowTyped, FlowTypeOK
<1>2. ASSUME NEW c \in Callers, (\E f \in Flows : List(c, f)) \/ Call(c) \/ Again(c) PROVE row' = row
  BY <1>2 DEF List, Call, Begin, Again, vars
<1>3. ASSUME NEW c \in Callers, FlowStep(c)
      PROVE  row' \in RowsAfter(row) \/ (BindProfile(c) /\ row' = SetProfile(row, InfoId(result[c])))
  BY <1>a, <1>1, <1>2, <1>3, StatementsOfFlow DEF FlowStep
<1>4. ASSUME NEW on \in BOOLEAN, UserToggle(on) PROVE row' \in RowsAfter(row)
  BY <1>4 DEF UserToggle, RowsAfter
<1>5. ASSUME CoolDown \/ \E t \in Tokens : Age(t) PROVE row' \in RowsAfter(row)
  BY <1>5 DEF CoolDown, Age, RowsAfter
<1>6. CASE UNCHANGED allVars
  BY <1>a, <1>6 DEF allVars, vars
<1> QED
  BY <1>3, <1>4, <1>5, <1>6 DEF FlowNext

(* No sequence of failures, identity errors, recoveries and toggles leaves  *)
(* the account enabled in the state that every scheduler skips.             *)
THEOREM ActiveIsUsable ==
  ASSUME \A r \in InitRows : NotStuck(r)
  PROVE  FlowSpec => []ActiveNotStuck
<1>1. FlowInit => NotStuck(row)
  BY DEF FlowInit, Init
<1>2. FlowTyped /\ NotStuck(row) /\ [FlowNext]_allVars => NotStuck(row)'
  <2> SUFFICES ASSUME FlowTyped, NotStuck(row), [FlowNext]_allVars PROVE NotStuck(row')
    BY DEF NotStuck
  <2>1. row \in Row
    BY DEF FlowTyped, FlowTypeOK, TypeOK
  <2>2. CASE row' \in RowsAfter(row)
    BY <2>1, <2>2, StatementsKeep
  <2>3. CASE \E c \in Callers : row' = SetProfile(row, InfoId(result[c]))
    BY <2>1, <2>3 DEF SetProfile, Row, NotStuck
  <2> QED
    BY <2>2, <2>3, RowChanges
<1>3. NotStuck(row) => ActiveNotStuck
  BY DEF NotStuck, ActiveNotStuck
<1> QED
  BY <1>1, <1>2, <1>3, FlowInitTyped, FlowTypingPreserved, PTL DEF FlowSpec
-----------------------------------------------------------------------------
(* A generation runs with a JWT of the row's account, if GetUserInfo finds  *)
(* the user and the row is bound to an account: the row stays bound to it,  *)
(* a flow's copy of the row says so too, and a flow that has compared its   *)
(* JWT holds one of that account.                                           *)
Compared == {"fallback", "success", "profile", "bind", "deplete", "reenable", "submit", "running",
             "resync", "rebind"}

OwnJwts ==
  /\ row.acct # NoUser
  /\ \A c \in Callers :
       /\ step[c] # "none" => base[c].acct = row.acct
       /\ step[c] \in Compared => user[result[c]] = row.acct

(* A statement of a flow that keeps the row's account.                      *)
LEMMA StatementOwn ==
  ASSUME FlowTyped, OwnJwts, NEW c \in Callers, NEW s \in Late, Statement(c, s), step[c] # "none",
         row'.acct = row.acct, s \in Compared => user[result[c]] = row.acct
  PROVE  OwnJwts'
<1>0. UNCHANGED user
  BY DEF Statement, quiet
<1>1. CASE s = "end"
  <2>1. step' = [step EXCEPT ![c] = "none"] /\ result' = [result EXCEPT ![c] = NoToken]
        /\ base' = [base EXCEPT ![c] = NoBase]
    BY <1>1 DEF Statement, Go, Finish, SetStep
  <2>2. \A d \in Callers \ {c} : step'[d] = step[d] /\ result'[d] = result[d] /\ base'[d] = base[d]
    BY <2>1 DEF FlowTyped, FlowTypeOK, TypeOK
  <2>3. step'[c] = "none"
    BY <2>1 DEF FlowTyped, FlowTypeOK
  <2> QED
    BY <1>0, <2>2, <2>3 DEF OwnJwts, Compared
<1>2. CASE s # "end"
  <2>1. step' = [step EXCEPT ![c] = s] /\ UNCHANGED <<result, base>>
    BY <1>2 DEF Statement, Go, SetStep
  <2> QED
    BY <1>0, <2>1 DEF FlowTyped, FlowTypeOK, TypeOK, OwnJwts, Compared
<1> QED
  BY <1>1, <1>2

(* Where the statements lead: only the comparison of the JWT with the row's *)
(* account leads from a JWT that has not been compared to one that has.     *)
LEMMA StatementsCompare ==
  ASSUME FlowTyped, OwnJwts, NamesUser, NEW c \in Callers,
         \/ Resolved(c) \/ VerifyOk(c) \/ OtherAccount(c) \/ Rejected(c) \/ VerifyFails(c)
         \/ Clear(c) \/ Restore(c) \/ Count(c) \/ Disable(c) \/ Fallback(c) \/ StoreToken(c)
         \/ ReadProfile(c) \/ BindProfile(c) \/ Deplete(c) \/ Reenable(c) \/ Submit(c) \/ Complete(c)
  PROVE  /\ step[c] # "none"
         /\ row'.acct = row.acct
         /\ \E s \in Late : Statement(c, s) /\ (s \in Compared => user[result[c]] = row.acct)
<1> USE DEF At
<1>a. row \in Row
  BY DEF FlowTyped, FlowTypeOK, TypeOK
<1>b. PICK s \in Late : Statement(c, s)
  BY StatementsOfFlow
<1>1. step[c] # "none"
  BY DEF Resolved, VerifyOk, OtherAccount, Rejected, VerifyFails, Clear, Restore, Count, Disable,
     Fallback, StoreToken, ReadProfile, BindProfile, Deplete, Reenable, Submit, Complete
<1>2. row'.acct = row.acct
  <2>1. CASE row' \in RowsAfter(row)
    BY <1>a, <2>1, StatementsKeep
  <2>2. CASE BindProfile(c) /\ row' = SetProfile(row, InfoId(result[c]))
    <3>1. user[result[c]] = row.acct
      BY <2>2 DEF BindProfile, OwnJwts, Compared
    <3> QED
      BY <1>a, <2>2, <3>1 DEF SetProfile, InfoId, Row
  <2> QED
    BY <2>1, <2>2, StatementsOfFlow
<1>3. CASE \/ Fallback(c) \/ StoreToken(c) \/ ReadProfile(c) \/ BindProfile(c)
           \/ Deplete(c) \/ Reenable(c) \/ Submit(c) \/ Complete(c)
  <2>1. step[c] \in Compared
    BY <1>3 DEF Fallback, StoreToken, ReadProfile, BindProfile, Deplete, Reenable, Submit, Complete,
       Compared
  <2> QED
    BY <1>1, <1>2, <1>b, <2>1 DEF OwnJwts
<1>4. CASE VerifyOk(c)
  <2>1. step[c] = "verify"
    BY <1>4 DEF VerifyOk
  <2>2. result[c] \in Tokens
    BY <2>1 DEF FlowTyped, FlowTypeOK, TypeOK, HoldsJwt, Early
  <2>3. InfoId(result[c]) = user[result[c]] /\ user[result[c]] # NoUser
    BY <2>2, RowAssumption DEF InfoId, FlowTyped, FlowTypeOK, TypeOK
  <2>4. base[c].acct = row.acct /\ row.acct # NoUser
    BY <2>1 DEF OwnJwts
  <2>5. CASE row.acct = user[result[c]]
    BY <1>1, <1>2, <1>b, <2>5
  <2>6. CASE row.acct # user[result[c]]
    <3>1. Statement(c, "mismatch")
      BY <1>4, <2>3, <2>4, <2>6 DEF VerifyOk, Statement, quiet
    <3> QED
      BY <1>1, <1>2, <3>1 DEF Late, Steps, Early, Compared
  <2> QED
    BY <2>5, <2>6
<1>5. CASE \/ Resolved(c) \/ OtherAccount(c) \/ Rejected(c) \/ VerifyFails(c)
           \/ Clear(c) \/ Restore(c) \/ Count(c) \/ Disable(c)
  <2>1. PICK x \in {"end", "verify", "clear", "restore", "count", "disable", "again"} : Statement(c, x)
    BY <1>5 DEF Resolved, OtherAccount, Rejected, VerifyFails, Clear, Restore, Count, Disable,
       AfterRejection, Statement, quiet
  <2> QED
    BY <1>1, <1>2, <2>1 DEF Late, Steps, Early, Compared
<1> QED
  BY <1>3, <1>4, <1>5

LEMMA OwnJwtsPreserved ==
  ASSUME NamesUser, FlowTyped, OwnJwts, [FlowNext]_allVars
  PROVE  OwnJwts'
<1>a. row \in Row /\ user \in [Tokens -> Users] /\ step \in [Callers -> Steps] /\ base \in [Callers -> Base]
      /\ result \in [Callers -> Tokens \cup {NoToken}]
  BY DEF FlowTyped, FlowTypeOK, TypeOK
<1>1. ASSUME NEW c \in Callers, NEW f \in Flows, List(c, f) PROVE OwnJwts'
  <2>1. step' = [step EXCEPT ![c] = "listed"] /\ base' = [base EXCEPT ![c] = BaseOf(row)]
        /\ UNCHANGED <<row, user, result>>
    BY <1>1 DEF List, SetStep, vars
  <2> QED
    BY <1>a, <2>1 DEF OwnJwts, Compared, BaseOf
<1>2. ASSUME NEW c \in Callers, Call(c) PROVE OwnJwts'
  <2>1. step' = [step EXCEPT ![c] = "resolve"] /\ UNCHANGED <<row, user, result, base>> /\ step[c] = "listed"
    BY <1>2 DEF Call, Begin, SetStep, At
  <2> QED
    BY <1>a, <2>1 DEF OwnJwts, Compared
<1>3. ASSUME NEW c \in Callers, Again(c) PROVE OwnJwts'
  <2>1. step' = [step EXCEPT ![c] = "resolve"] /\ UNCHANGED <<row, user, base>>
        /\ result' = [result EXCEPT ![c] = NoToken] /\ step[c] = "again"
    BY <1>3 DEF Again, SetStep, At
  <2> QED
    BY <1>a, <2>1 DEF OwnJwts, Compared
<1>4. ASSUME NEW c \in Callers, InResolve(c) PROVE OwnJwts'
  <2>1. Resolve(c) /\ UNCHANGED <<step, base>>
    BY <1>4 DEF InResolve
  <2>2. row'.acct = row.acct
    BY <1>a, <2>1, ResolveKeepsRow, StatementsKeep DEF FlowTyped, FlowTypeOK
  <2>3. ASSUME NEW d \in Callers, step[d] \in Compared PROVE user'[result'[d]] = user[result[d]]
    <3>1. pc[d] = "returned" /\ result[d] \in Tokens
      BY <1>a, <2>3 DEF FlowTyped, HoldsJwt, Compared, Early
    <3>2. result'[d] = result[d]
      BY <2>1, <3>1, ResolveIsLocal DEF FlowTyped, FlowTypeOK
    <3> QED
      BY <2>1, <3>1, <3>2, KnownJwtsKeepUser DEF FlowTyped, FlowTypeOK
  <2> QED
    BY <2>1, <2>2, <2>3 DEF OwnJwts
<1>5. ASSUME NEW c \in Callers, FlowStep(c) PROVE OwnJwts'
  BY <1>1, <1>2, <1>3, <1>4, <1>5, StatementsCompare, StatementOwn DEF FlowStep
<1>6. ASSUME NEW on \in BOOLEAN, UserToggle(on) PROVE OwnJwts'
  <2>1. row'.acct = row.acct
    BY <1>a, <1>6 DEF UserToggle, ToggleCookie, Row
  <2> QED
    BY <1>6, <2>1 DEF UserToggle, quiet, flowVars, OwnJwts
<1>7. ASSUME CoolDown \/ \E t \in Tokens : Age(t), UNCHANGED flowVars PROVE OwnJwts'
  <2>1. row'.acct = row.acct /\ UNCHANGED <<user, result>>
    BY <1>a, <1>7 DEF CoolDown, Age, Row
  <2> QED
    BY <1>7, <2>1 DEF flowVars, OwnJwts
<1>8. CASE UNCHANGED allVars
  BY <1>8 DEF allVars, vars, flowVars, OwnJwts
<1> QED
  BY <1>5, <1>6, <1>7, <1>8 DEF FlowNext

(* A generation is submitted, or runs, with a JWT of the row's account.     *)
THEOREM JobsOnOwnAccount ==
  ASSUME NamesUser, \A r \in InitRows : r.acct # NoUser
  PROVE  FlowSpec => []NoForeignJob
<1>1. FlowInit => OwnJwts
  BY DEF FlowInit, Init, OwnJwts, Compared
<1>2. FlowTyped /\ OwnJwts /\ [FlowNext]_allVars => OwnJwts'
  BY OwnJwtsPreserved
<1>3. OwnJwts => NoForeignJob
  BY DEF OwnJwts, NoForeignJob, Compared
<1> QED
  BY <1>1, <1>2, <1>3, FlowInitTyped, FlowTypingPreserved, PTL DEF FlowSpec
-----------------------------------------------------------------------------
(* What makes an account INVALID.  Without the manual session refresh, which*)
(* takes every error for a rejection, and for an account that has a browser *)
(* cookie, whoever reports a rejection or a dead session has been refused.  *)
NoManualRefresh == \A c \in Callers : "sessions" \notin FlowsOf[c]
HasCookie(r) == r.payload # NoPayload

Reporting == {"clear", "restore", "count", "disable"}

ReportsRefusal ==
  /\ HasCookie(row)
  /\ \A c \in Callers :
       /\ flow[c] # "sessions" /\ pc[c] # "tokenonly"
       /\ step[c] \in Reporting => refused
       /\ pc[c] \in {"rotate", "failed"} /\ resp[c].kind = "auth" => refused
       /\ pc[c] = "invalid" => refused

LEMMA CookieStays ==
  ASSUME NEW r \in Row, HasCookie(r), NEW q \in RowsAfter(r)
  PROVE  HasCookie(q)
<1> USE DEF HasCookie
<1>1. CASE \E p \in Payloads \cup {NoPayload} : q = UpdateCookieValue(r, p)
  BY <1>1 DEF UpdateCookieValue, Row
<1>2. CASE q \in {r, SetTemporary(r), SetInvalid(r), ClearCookieSessionJWT(r), [r EXCEPT !.cooling = FALSE]}
  BY <1>2 DEF SetTemporary, SetInvalid, ClearCookieSessionJWT, Row
<1>3. CASE \E t \in Tokens \cup {NoToken} : q = UpdateCookieSessionSuccess(r, t)
  BY <1>3 DEF UpdateCookieSessionSuccess, Row
<1>4. CASE \E kind \in FailureKinds : q = RecordCookieRefreshFailure(r, kind)
  BY <1>4 DEF RecordCookieRefreshFailure, Row
<1>5. CASE \E why \in Reasons : q = AutoDisableCookie(r, why)
  BY <1>5 DEF AutoDisableCookie, Row
<1>6. CASE \E on \in BOOLEAN : q = ToggleCookie(r, on)
  BY <1>6 DEF ToggleCookie, Row
<1> QED
  BY <1>1, <1>2, <1>3, <1>4, <1>5, <1>6 DEF RowsAfter

(* The session manager disables after an authentication failure only.       *)
LEMMA ResolveReports ==
  ASSUME FlowTyped, ReportsRefusal, NEW c \in Callers, InResolve(c)
  PROVE  /\ pc'[c] # "tokenonly"
         /\ pc'[c] \in {"rotate", "failed"} /\ resp'[c].kind = "auth" => refused'
         /\ pc'[c] = "invalid" => refused'
         /\ \A d \in Callers \ {c} : pc'[d] = pc[d] /\ resp'[d] = resp[d]
<1>a. pc \in [Callers -> PC] /\ resp \in [Callers -> Resp] /\ refused \in BOOLEAN
  BY DEF FlowTyped, FlowTypeOK, TypeOK
<1>b. pc[c] # "tokenonly" /\ HasCookie(row) /\ (refused => refused')
  BY DEF ReportsRefusal, InResolve
<1>1. CASE Lock(c) \/ Load(c) \/ Acquire(c) \/ Poll(c) \/ Reacquire(c)
  <2>1. UNCHANGED resp /\ \E l \in PC \ {"tokenonly", "rotate", "failed", "invalid"} : Goto(c, l)
    BY <1>b, <1>1 DEF Lock, Load, Acquire, Poll, Reacquire, ReturnToken, HasCookie, PC
  <2> QED
    BY <1>a, <2>1
<1>2. CASE TokenOnly(c)
  BY <1>b, <1>2 DEF TokenOnly
<1>3. CASE FetchOk(c)
  <2>1. \E l \in {"save", "changed"} : Goto(c, l) /\ \E x : resp' = [resp EXCEPT ![c] = x]
    BY <1>3 DEF FetchOk
  <2> QED
    BY <1>a, <2>1
<1>4. CASE FetchFails(c)
  <2>1. pc[c] = "fetch" /\ \E l \in {"failed", "rotate"} :
                           Goto(c, l) /\ \E x : resp' = [resp EXCEPT ![c] = x]
    BY <1>4 DEF FetchFails
  <2>2. resp'[c].kind = "auth" => refused'
    BY <2>1 DEF InResolve
  <2> QED
    BY <1>a, <2>1, <2>2
<1>5. CASE Rotate(c)
  <2>1. pc[c] = "rotate" /\ Goto(c, "failed") /\ UNCHANGED resp
    BY <1>5 DEF Rotate
  <2> QED
    BY <1>a, <1>b, <2>1 DEF ReportsRefusal
<1>6. CASE KeepWorkingToken(c) \/ RecordFailure(c)
  <2>1. /\ pc[c] = "failed" /\ UNCHANGED resp
        /\ \E l \in {"unlock", "changed", "temporary", "invalid"} :
             Goto(c, l) /\ (l = "invalid" => resp[c].kind = "auth")
    BY <1>6 DEF KeepWorkingToken, RecordFailure, ReturnToken
  <2> QED
    BY <1>a, <1>b, <2>1 DEF ReportsRefusal
<1>7. CASE MarkTemporary(c) \/ MarkInvalid(c) \/ MarkChanged(c) \/ Save(c) \/ Success(c)
  <2>1. UNCHANGED resp /\ \E l \in {"unlock", "success"} : Goto(c, l)
    BY <1>7 DEF MarkTemporary, MarkInvalid, MarkChanged, Save, Success
  <2> QED
    BY <1>a, <2>1
<1>8. CASE Unlock(c)
  BY <1>a, <1>8 DEF Unlock
<1> QED
  BY <1>1, <1>2, <1>3, <1>4, <1>5, <1>6, <1>7, <1>8 DEF InResolve, Resolve

(* A statement leads to a report only after a rejection.                    *)
LEMMA StatementReports ==
  ASSUME FlowTyped, ReportsRefusal, NEW c \in Callers,
         \/ Resolved(c) \/ VerifyOk(c) \/ OtherAccount(c) \/ Rejected(c) \/ VerifyFails(c)
         \/ Clear(c) \/ Restore(c) \/ Count(c) \/ Disable(c) \/ Fallback(c) \/ StoreToken(c)
         \/ ReadProfile(c) \/ BindProfile(c) \/ Deplete(c) \/ Reenable(c) \/ Submit(c) \/ Complete(c)
  PROVE  /\ refused => refused'
         /\ UNCHANGED resp
         /\ \E s : Go(c, s) /\ (s \in Reporting => refused')
<1> USE DEF At, quiet
<1>a. /\ flow[c] # "sessions" /\ (step[c] \in Reporting => refused)
      /\ AfterRejection(c) \notin Reporting /\ AfterProfile(c) \cap Reporting = {}
      /\ AfterIdentity(c) \notin Reporting
  BY DEF ReportsRefusal, AfterRejection, AfterProfile, AfterIdentity, Reporting
<1>1. CASE Resolved(c) \/ VerifyOk(c) \/ OtherAccount(c) \/ VerifyFails(c)
  BY <1>a, <1>1 DEF Resolved, VerifyOk, OtherAccount, VerifyFails, Reporting
<1>2. CASE Rejected(c)
  BY <1>2 DEF Rejected
<1>3. CASE Clear(c) \/ Restore(c)
  BY <1>a, <1>3 DEF Clear, Restore, Reporting
<1>4. CASE Count(c) \/ Disable(c)
  BY <1>a, <1>4 DEF Count, Disable, Reporting
<1>5. CASE Fallback(c) \/ StoreToken(c) \/ Deplete(c) \/ Reenable(c)
  <2>1. UNCHANGED <<resp, refused>> /\ \E s \in {"profile", "success", "end"} : Go(c, s)
    BY <1>5 DEF Fallback, StoreToken, Deplete, Reenable
  <2> QED
    BY <2>1 DEF Reporting
<1>6. CASE ReadProfile(c) \/ BindProfile(c)
  BY <1>a, <1>6 DEF ReadProfile, BindProfile, Reporting
<1>7. CASE Submit(c) \/ Complete(c)
  BY <1>a, <1>7 DEF Submit, Complete, Reporting
<1> QED
  BY <1>1, <1>2, <1>3, <1>4, <1>5, <1>6, <1>7

LEMMA ReportsPreserved ==
  ASSUME NoManualRefresh
  PROVE  FlowTyped /\ ReportsRefusal /\ [FlowNext]_allVars => ReportsRefusal'
<1> SUFFICES ASSUME FlowTyped, ReportsRefusal, [FlowNext]_allVars PROVE ReportsRefusal'
  OBVIOUS
<1>a. /\ flow \in [Callers -> Flows \cup {"none"}] /\ step \in [Callers -> Steps]
      /\ pc \in [Callers -> PC] /\ resp \in [Callers -> Resp] /\ row \in Row
  BY DEF FlowTyped, FlowTypeOK, TypeOK
<1>b. HasCookie(row')
  <2>1. CASE row' \in RowsAfter(row)
    BY <1>a, <2>1, CookieStays DEF ReportsRefusal
  <2>2. CASE \E c \in Callers : row' = SetProfile(row, InfoId(result[c]))
    BY <1>a, <2>2 DEF ReportsRefusal, SetProfile, HasCookie, Row
  <2> QED
    BY <2>1, <2>2, RowChanges
<1>1. ASSUME NEW c \in Callers, NEW f \in Flows, List(c, f) PROVE ReportsRefusal'
  <2>1. f # "sessions"
    BY <1>1 DEF List, NoManualRefresh
  <2> QED
    BY <1>1, <1>a, <1>b, <2>1 DEF List, SetStep, ReportsRefusal, Reporting, vars
<1>2. ASSUME NEW c \in Callers, Call(c) \/ Again(c) PROVE ReportsRefusal'
  <2>1. /\ pc' = [pc EXCEPT ![c] = "lock"] /\ step' = [step EXCEPT ![c] = "resolve"]
        /\ UNCHANGED <<flow, resp, refused>>
    BY <1>2 DEF Call, Again, Begin, SetStep
  <2> QED
    BY <1>a, <1>b, <2>1 DEF ReportsRefusal, Reporting
<1>3. ASSUME NEW c \in Callers, InResolve(c) PROVE ReportsRefusal'
  <2>1. UNCHANGED <<flow, step>> /\ (refused => refused')
    BY <1>3 DEF InResolve
  <2> QED
    BY <1>3, <1>b, <2>1, ResolveReports DEF ReportsRefusal
<1>4. ASSUME NEW c \in Callers, NEW s, Go(c, s), s \in Reporting => refused', refused => refused',
             UNCHANGED resp
      PROVE  ReportsRefusal'
  <2>1. CASE s = "end"
    <3>1. /\ pc' = [pc EXCEPT ![c] = "idle"] /\ flow' = [flow EXCEPT ![c] = "none"]
          /\ step' = [step EXCEPT ![c] = "none"]
      BY <1>4, <2>1, ZenonT(20) DEF Go, Finish, SetStep, Goto
    <3> QED
      BY <1>4, <1>a, <1>b, <3>1 DEF ReportsRefusal, Reporting
  <2>2. CASE s # "end"
    <3>1. step' = [step EXCEPT ![c] = s] /\ UNCHANGED <<pc, flow>>
      BY <1>4, <2>2 DEF Go, SetStep
    <3> QED
      BY <1>4, <1>a, <1>b, <3>1 DEF ReportsRefusal
  <2> QED
    BY <2>1, <2>2
<1>5. ASSUME NEW c \in Callers, FlowStep(c) PROVE ReportsRefusal'
  BY <1>1, <1>2, <1>3, <1>4, <1>5, StatementReports DEF FlowStep
<1>6. ASSUME UNCHANGED <<pc, resp, flow, step, refused>> PROVE ReportsRefusal'
  BY <1>6, <1>b DEF ReportsRefusal
<1> QED
  BY <1>5, <1>6 DEF FlowNext, UserToggle, CoolDown, Age, quiet, flowVars, allVars, vars

(* The automatic sweeps and generations disable an account as INVALID only  *)
(* if Leonardo has refused a JWT or the session, whatever else failed.      *)
THEOREM InvalidNeedsRefusal ==
  ASSUME NoManualRefresh, \A r \in InitRows : HasCookie(r)
  PROVE  FlowSpec => InvalidOnlyIfRefused
<1>1. FlowInit => ReportsRefusal
  BY DEF FlowInit, Init, ReportsRefusal, Reporting
<1>2. FlowTyped /\ ReportsRefusal /\ [FlowNext]_allVars =>
        [row'.disabled = "INVALID" /\ row.disabled # "INVALID" => refused]_allVars
  <2>1. SUFFICES ASSUME FlowTyped, ReportsRefusal, [FlowNext]_allVars,
                        row'.disabled = "INVALID", row.disabled # "INVALID"
                 PROVE  refused
    OBVIOUS
  <2>a. row \in Row /\ row' # row
    BY <2>1 DEF FlowTyped, FlowTypeOK, TypeOK
  <2>2. ASSUME Next PROVE refused
    <3>1. PICK c \in Callers : MarkInvalid(c)
      BY <2>1, <2>2, OnlyMarkInvalid DEF FlowTyped, FlowTypeOK
    <3> QED
      BY <2>1, <3>1 DEF MarkInvalid, ReportsRefusal
  <2>3. ASSUME NEW c \in Callers, Disable(c) PROVE refused
    BY <2>1, <2>3 DEF Disable, At, ReportsRefusal, Reporting
  <2>4. ASSUME NEW c \in Callers, \/ OtherAccount(c) \/ Clear(c) \/ Count(c) \/ Deplete(c) \/ Reenable(c)
        PROVE  FALSE
    BY <2>1, <2>4, <2>a
       DEF OtherAccount, Clear, Count, Deplete, Reenable, AutoDisableCookie, ClearCookieSessionJWT,
           RecordCookieRefreshFailure, ToggleCookie, Row
  <2>5. ASSUME NEW c \in Callers, Restore(c) \/ Fallback(c) PROVE FALSE
    BY <2>1, <2>5, <2>a DEF Restore, Fallback, UpdateCookieValue, Row
  <2>6. ASSUME NEW c \in Callers, StoreToken(c) PROVE FALSE
    BY <2>1, <2>6, <2>a DEF StoreToken, UpdateCookieSessionSuccess, SelfHealing, Row
  <2>7. ASSUME NEW c \in Callers, BindProfile(c) PROVE FALSE
    BY <2>1, <2>7, <2>a DEF BindProfile, SetProfile, Row
  <2>8. ASSUME NEW on \in BOOLEAN, UserToggle(on) PROVE FALSE
    BY <2>1, <2>8, <2>a DEF UserToggle, ToggleCookie, Row
  <2>9. ASSUME NEW c \in Callers, FlowStep(c) PROVE refused
    BY <2>a, <2>2, <2>3, <2>4, <2>5, <2>6, <2>7, <2>9, FlowOfNext
       DEF FlowStep, List, Again, Resolved, VerifyOk, Rejected, VerifyFails, ReadProfile, Submit, Complete, vars
  <2> QED
    BY <2>1, <2>2, <2>8, <2>9, <2>a DEF FlowNext, Next, Environment, allVars, vars
<1> QED
  BY <1>1, <1>2, FlowInitTyped, FlowTypingPreserved, ReportsPreserved, PTL
     DEF FlowSpec, InvalidOnlyIfRefused
-----------------------------------------------------------------------------
(* What the session manager promises its callers, it keeps to under all the *)
(* flows around it, which write the same row while it refreshes it: a step  *)
(* of a flow is one of the session manager's, or leaves it alone but for a  *)
(* call that has ended.                                                     *)
EndsCall == \E c \in Callers, l \in {"idle", "lock"} :
              Goto(c, l) /\ result' = [result EXCEPT ![c] = NoToken]

LEMMA AroundTheCall ==
  ASSUME FlowTyped, [FlowNext]_allVars
  PROVE  \/ [Next]_vars
         \/ /\ UNCHANGED <<lease, user, mutex, cookie>>
            /\ UNCHANGED <<pc, result>> \/ EndsCall
<1> USE DEF EndsCall
<1>1. ASSUME NEW c \in Callers, NEW s \in Late, Statement(c, s)
      PROVE  /\ UNCHANGED <<lease, user, mutex, cookie>>
             /\ UNCHANGED <<pc, result>> \/ EndsCall
  <2>1. CASE s = "end"
    <3>1. Goto(c, "idle") /\ result' = [result EXCEPT ![c] = NoToken]
      BY <1>1, <2>1, ZenonT(20) DEF Statement, Go, Finish
    <3> QED
      BY <1>1, <3>1 DEF Statement, quiet
  <2>2. CASE s # "end"
    BY <1>1, <2>2 DEF Statement, Go, quiet
  <2> QED
    BY <2>1, <2>2
<1>2. ASSUME NEW c \in Callers, FlowStep(c)
      PROVE  \/ [Next]_vars
             \/ /\ UNCHANGED <<lease, user, mutex, cookie>>
                /\ UNCHANGED <<pc, result>> \/ EndsCall
  <2>1. CASE \E f \in Flows : List(c, f)
    BY <2>1 DEF List
  <2>2. CASE Call(c) \/ InResolve(c)
    BY <2>2, FlowOfNext
  <2>3. CASE Again(c)
    BY <2>3 DEF Again
  <2>4. CASE \/ Resolved(c) \/ VerifyOk(c) \/ OtherAccount(c) \/ Rejected(c) \/ VerifyFails(c)
             \/ Clear(c) \/ Restore(c) \/ Count(c) \/ Disable(c) \/ Fallback(c) \/ StoreToken(c)
             \/ ReadProfile(c) \/ BindProfile(c) \/ Deplete(c) \/ Reenable(c) \/ Submit(c) \/ Complete(c)
    BY <1>1, <2>4, StatementsOfFlow
  <2> QED
    BY <1>2, <2>1, <2>2, <2>3, <2>4 DEF FlowStep
<1>3. ASSUME NEW on \in BOOLEAN, UserToggle(on)
      PROVE  UNCHANGED <<lease, user, mutex, cookie, pc, result>>
  BY <1>3 DEF UserToggle, quiet
<1>4. CASE CoolDown \/ \E t \in Tokens : Age(t)
  BY <1>4 DEF Next, Environment
<1>5. CASE UNCHANGED allVars
  BY <1>5 DEF allVars
<1> QED
  BY <1>2, <1>3, <1>4, <1>5 DEF FlowNext

LEMMA FlowOwnership ==
  FlowTyped /\ RefresherOwnsLease /\ [FlowNext]_allVars => RefresherOwnsLease'
<1> SUFFICES ASSUME FlowTyped, RefresherOwnsLease, [FlowNext]_allVars PROVE RefresherOwnsLease'
  OBVIOUS
<1>a. TypeOK
  BY DEF FlowTyped, FlowTypeOK
<1>1. CASE [Next]_vars
  BY <1>a, <1>1, OwnershipPreserved
<1>2. CASE UNCHANGED <<lease, pc>>
  BY <1>2 DEF RefresherOwnsLease, Refreshing
<1>3. CASE UNCHANGED lease /\ EndsCall
  BY <1>a, <1>3 DEF EndsCall, RefresherOwnsLease, Refreshing, TypeOK
<1> QED
  BY <1>1, <1>2, <1>3, AroundTheCall

(* Whatever generations, sweeps, synchronisations and the user do with the  *)
(* account meanwhile, at most one call of all processes refreshes it.       *)
THEOREM FlowsRefreshInTurn == FlowSpec => []RefreshSerialized
<1>1. FlowInit => RefresherOwnsLease
  BY DEF FlowInit, Init, RefresherOwnsLease, Refreshing
<1>2. RefresherOwnsLease => RefreshSerialized
  BY DEF RefresherOwnsLease, RefreshSerialized
<1> QED
  BY <1>1, <1>2, FlowInitTyped, FlowTypingPreserved, FlowOwnership, PTL DEF FlowSpec

(* The flows, too, go through the gate: their behaviours are the gate's.    *)
THEOREM FlowsImplementGate == FlowSpec => GateSpec
<1>1. FlowInit => Gate!GateInit /\ RefresherOwnsLease
  BY DEF FlowInit, Init, Gate!GateInit, RefresherOwnsLease, Refreshing
<1>2. FlowTyped /\ RefresherOwnsLease /\ [FlowNext]_allVars => [Gate!GateNext]_InFlight
  <2> SUFFICES ASSUME FlowTyped, RefresherOwnsLease, [FlowNext]_allVars
               PROVE  [Gate!GateNext]_InFlight
    OBVIOUS
  <2>a. TypeOK
    BY DEF FlowTyped, FlowTypeOK
  <2>1. CASE [Next]_vars
    BY <2>a, <2>1, GateStep
  <2>2. CASE UNCHANGED pc
    BY <2>2 DEF InFlight
  <2>3. CASE EndsCall
    BY <2>a, <2>3, OtherStep DEF EndsCall
  <2> QED
    BY <2>1, <2>2, <2>3, AroundTheCall
<1> QED
  BY <1>1, <1>2, FlowInitTyped, FlowTypingPreserved, FlowOwnership, PTL
     DEF FlowSpec, GateSpec, Gate!GateSpec, InFlight
-----------------------------------------------------------------------------
(* The JWTs of an account that the flows work on.  The row stays bound to   *)
(* its account (OwnJwts), and the JWT that a flow stores is the one that    *)
(* its call has returned.                                                   *)
TokensAfter(r, q) == q.jwt \in {r.jwt, NoToken} /\ q.embedded \in {r.embedded, NoToken}

LEMMA StatementsKeepTokens ==
  ASSUME FlowTyped, NEW c \in Callers,
         \/ Resolved(c) \/ VerifyOk(c) \/ OtherAccount(c) \/ Rejected(c) \/ VerifyFails(c)
         \/ Clear(c) \/ Restore(c) \/ Count(c) \/ Disable(c) \/ Fallback(c) \/ StoreToken(c)
         \/ ReadProfile(c) \/ BindProfile(c) \/ Deplete(c) \/ Reenable(c) \/ Submit(c) \/ Complete(c)
  PROVE  TokensAfter(row, row') \/ (row'.jwt = result[c] /\ row'.embedded = row.embedded)
<1> USE DEF TokensAfter
<1>a. /\ row \in Row /\ base[c].payload \in Payloads \cup {NoPayload}
      /\ result[c] \in Tokens \cup {NoToken}
  BY DEF FlowTyped, FlowTypeOK, TypeOK, Base
<1>1. CASE UNCHANGED row
  BY <1>1
<1>2. CASE Restore(c) \/ Fallback(c)
  <2>1. row' \in {row, UpdateCookieValue(row, base[c].payload)}
    BY <1>2 DEF Restore, Fallback
  <2> QED
    BY <1>a, <2>1, TokenColumns
<1>3. CASE Clear(c) \/ Disable(c)
  BY <1>a, <1>3 DEF Clear, Disable, ClearCookieSessionJWT, SetInvalid, Row
<1>4. CASE Count(c)
  BY <1>a, <1>4, TokenColumns DEF Count, SameTokens, FailureKinds
<1>5. CASE StoreToken(c)
  BY <1>a, <1>5, TokenColumns DEF StoreToken
<1>6. CASE OtherAccount(c) \/ Deplete(c)
  BY <1>a, <1>6 DEF OtherAccount, Deplete, AutoDisableCookie, Row
<1>7. CASE Reenable(c)
  BY <1>a, <1>7 DEF Reenable, ToggleCookie, Row
<1>8. CASE BindProfile(c)
  BY <1>a, <1>8 DEF BindProfile, SetProfile, Row
<1> QED
  BY <1>1, <1>2, <1>3, <1>4, <1>5, <1>6, <1>7, <1>8
     DEF Resolved, VerifyOk, Rejected, VerifyFails, ReadProfile, Submit, Complete

LEMMA FlowTokensPreserved ==
  ASSUME NamesUser, FlowTyped, OwnJwts, OwnTokens, CopyOfAccount, [FlowNext]_allVars
  PROVE  OwnTokens' /\ CopyOfAccount'
<1>a. /\ TypeOK /\ FailureKnown /\ row \in Row
      /\ pc \in [Callers -> PC] /\ result \in [Callers -> Tokens \cup {NoToken}]
  BY DEF FlowTyped, FlowTypeOK, TypeOK
<1>1. CASE [Next]_vars
  BY <1>a, <1>1, OwnTokensPreserved
<1>2. ASSUME row'.acct = row.acct, UNCHANGED <<user, cookie>>, UNCHANGED <<pc, result>> \/ EndsCall,
             TokensAfter(row, row')
             \/ (\E c \in Callers : row'.jwt = result[c] /\ row'.embedded = row.embedded)
      PROVE  OwnTokens' /\ CopyOfAccount'
  <2>1. \A d \in Callers : \/ pc'[d] = pc[d] /\ result'[d] = result[d]
                           \/ pc'[d] \in Outside /\ result'[d] \in {result[d], NoToken}
    BY <1>a, <1>2 DEF EndsCall, Outside
  <2>2. OwnTokens'
    BY <1>2, <2>1 DEF OwnTokens, Mine, TokensAfter
  <2>3. CopyOfAccount'
    BY <1>2, <2>1 DEF CopyOfAccount
  <2> QED
    BY <2>2, <2>3
<1>3. ASSUME NEW c \in Callers, FlowStep(c) PROVE OwnTokens' /\ CopyOfAccount'
  <2>1. CASE (\E f \in Flows : List(c, f)) \/ Call(c) \/ InResolve(c)
    BY <1>1, <2>1, FlowOfNext DEF List
  <2>2. CASE Again(c)
    <3>1. UNCHANGED <<row, user, cookie>> /\ EndsCall
      BY <2>2 DEF Again, EndsCall
    <3> QED
      BY <1>2, <3>1 DEF TokensAfter
  <2>3. CASE \/ Resolved(c) \/ VerifyOk(c) \/ OtherAccount(c) \/ Rejected(c) \/ VerifyFails(c)
             \/ Clear(c) \/ Restore(c) \/ Count(c) \/ Disable(c) \/ Fallback(c) \/ StoreToken(c)
             \/ ReadProfile(c) \/ BindProfile(c) \/ Deplete(c) \/ Reenable(c) \/ Submit(c) \/ Complete(c)
    <3>1. row'.acct = row.acct
      BY <2>3, StatementsCompare
    <3>2. PICK s \in Late : Statement(c, s)
      BY <2>3, StatementsOfFlow
    <3>3. UNCHANGED <<user, cookie>>
      BY <3>2 DEF Statement, quiet
    <3>4. UNCHANGED <<pc, result>> \/ EndsCall
      <4>1. CASE s = "end"
        <5>1. Goto(c, "idle") /\ result' = [result EXCEPT ![c] = NoToken]
          BY <3>2, <4>1, ZenonT(20) DEF Statement, Go, Finish
        <5> QED
          BY <5>1 DEF EndsCall
      <4>2. CASE s # "end"
        BY <3>2, <4>2 DEF Statement, Go
      <4> QED
        BY <4>1, <4>2
    <3>5. TokensAfter(row, row') \/ (row'.jwt = result[c] /\ row'.embedded = row.embedded)
      BY <2>3, StatementsKeepTokens
    <3> QED
      BY <1>2, <3>1, <3>3, <3>4, <3>5
  <2> QED
    BY <1>3, <2>1, <2>2, <2>3 DEF FlowStep
<1>4. ASSUME NEW on \in BOOLEAN, UserToggle(on) PROVE OwnTokens' /\ CopyOfAccount'
  <2>1. row'.acct = row.acct /\ TokensAfter(row, row')
    BY <1>a, <1>4 DEF UserToggle, ToggleCookie, TokensAfter, Row
  <2> QED
    BY <1>2, <1>4, <2>1 DEF UserToggle, quiet
<1>5. CASE CoolDown \/ \E t \in Tokens : Age(t)
  BY <1>1, <1>5 DEF Next, Environment
<1>6. CASE UNCHANGED allVars
  BY <1>1, <1>6 DEF allVars
<1> QED
  BY <1>3, <1>4, <1>5, <1>6 DEF FlowNext

(* An account's row never stores, and no call of any flow ever returns, a   *)
(* JWT that is known to be another user's, whatever reports, fallbacks and  *)
(* profiles are written between the steps of a refresh.                     *)
THEOREM FlowsOwnAccount ==
  ASSUME NamesUser, OneJwt, \A r \in InitRows : r.acct # NoUser
  PROVE  FlowSpec => []OwnAccountOnly
<1>1. FlowInit => OwnJwts /\ OwnTokens /\ CopyOfAccount
  <2> SUFFICES ASSUME FlowInit PROVE OwnJwts /\ OwnTokens /\ CopyOfAccount
    OBVIOUS
  <2>1. OwnTokens /\ CopyOfAccount
    BY InitOwnTokens DEF FlowInit
  <2>2. OwnJwts
    BY DEF FlowInit, Init, OwnJwts, Compared
  <2> QED
    BY <2>1, <2>2
<1>2. FlowTyped /\ OwnJwts /\ [FlowNext]_allVars => OwnJwts'
  BY OwnJwtsPreserved
<1>3. FlowTyped /\ OwnJwts /\ OwnTokens /\ CopyOfAccount /\ [FlowNext]_allVars
        => OwnTokens' /\ CopyOfAccount'
  BY FlowTokensPreserved
<1>4. OwnTokens => OwnAccountOnly
  BY DEF OwnTokens, OwnAccountOnly, Mine
<1> QED
  BY <1>1, <1>2, <1>3, <1>4, FlowInitTyped, FlowTypingPreserved, PTL DEF FlowSpec
=============================================================================
