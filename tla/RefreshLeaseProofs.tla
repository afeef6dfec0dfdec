------------------------- MODULE RefreshLeaseProofs -------------------------
(* Proofs about RefreshLease, for every set of processes and all time      *)
(* limits with DbWait + HttpTimeout <= LeaseTTL.                           *)
EXTENDS RefreshLease, TLAPS
-----------------------------------------------------------------------------
LEMMA InitTyped == Init => TypeOK
  BY DEF Init, TypeOK, Phases

LEMMA TypingPreserved == TypeOK /\ [Next]_vars => TypeOK'
<1> SUFFICES ASSUME TypeOK, [Next]_vars PROVE TypeOK'
  OBVIOUS
<1> USE DEF TypeOK, Step, Phases
<1>a. LeaseTTL \in Nat
  BY LeaseAssumption
<1>1. ASSUME NEW p \in Procs, Ask(p) PROVE TypeOK'
  BY <1>1 DEF Ask
<1>2. ASSUME NEW p \in Procs, TryAcquire(p) PROVE TypeOK'
  BY <1>2, <1>a DEF TryAcquire, Take
<1>3. ASSUME NEW p \in Procs, Published(p) \/ AskAgain(p) PROVE TypeOK'
  BY <1>3 DEF Published, AskAgain
<1>4. ASSUME NEW p \in Procs, TryAcquireAgain(p) PROVE TypeOK'
  BY <1>4, <1>a DEF TryAcquireAgain, Take
<1>5. ASSUME NEW p \in Procs, Answer(p) \/ Save(p) \/ Success(p) PROVE TypeOK'
  BY <1>5 DEF Answer, Save, Success
<1>6. ASSUME NEW p \in Procs, Release(p) \/ Abandon(p) PROVE TypeOK'
  BY <1>6 DEF Release, Abandon
<1>7. CASE Tick
  BY <1>7 DEF Tick
<1>8. CASE UNCHANGED vars
  BY <1>8 DEF vars
<1> QED
  BY <1>1, <1>2, <1>3, <1>4, <1>5, <1>6, <1>7, <1>8 DEF Next

(* The variables keep their types. *)
THEOREM TypeCorrect == Spec => []TypeOK
  BY InitTyped, TypingPreserved, PTL DEF Spec
-----------------------------------------------------------------------------
(* How old the lease of a caller may be when its step begins.  A caller that
   has the lease is still inside it, as long as the sum of the limits of the
   steps so far is not more than the lease.                                *)
Age(l) == CASE l = "fetch"   -> DbWait
            [] l = "save"    -> DbWait + HttpTimeout
            [] l = "success" -> 2 * DbWait + HttpTimeout
            [] OTHER         -> 0

(* The steps that are inside the lease: with a slow database only the
   request itself, with a quick one the two statements after it as well.   *)
Covered == IF QuickDatabase THEN {"fetch", "save", "success"} ELSE {"fetch"}

InsideLease ==
  \A p \in Procs :
    /\ sample[p] <= now
    /\ pc[p] \in Timed => since[p] <= now /\ now <= since[p] + Limit(pc[p])
    /\ pc[p] \in {"ask", "askagain"} => sample[p] = since[p] /\ sample[p] > 0
    /\ pc[p] \in Covered =>
         /\ owner = p
         /\ until = sample[p] + LeaseTTL
         /\ sample[p] > 0
         /\ since[p] <= sample[p] + Age(pc[p])

(* Nobody can take a lease that a covered caller holds. *)
LEMMA NotFree ==
  ASSUME TypeOK, InsideLease, NEW p \in Procs, NEW q \in Procs,
         pc[p] \in Covered, pc[q] \in {"ask", "askagain"}
  PROVE  ~Free(q)
<1>1. now <= until /\ until > 0
  <2>1. /\ now <= since[p] + Limit(pc[p])
        /\ since[p] <= sample[p] + Age(pc[p])
        /\ until = sample[p] + LeaseTTL
        /\ sample[p] > 0
    BY DEF InsideLease, Covered, Timed
  <2>2. Age(pc[p]) + Limit(pc[p]) <= LeaseTTL
    BY LeaseAssumption DEF Covered, Age, Limit, QuickDatabase
  <2>3. sample[p] \in Nat /\ since[p] \in Nat /\ now \in Nat /\ LeaseTTL \in Nat
    BY LeaseAssumption DEF TypeOK
  <2>4. Age(pc[p]) \in Nat /\ Limit(pc[p]) \in Nat
    BY LeaseAssumption DEF Covered, Age, Limit, QuickDatabase
  <2> QED
    BY <2>1, <2>2, <2>3, <2>4
<1>2. sample[q] <= now /\ owner = p
  BY DEF InsideLease
<1>3. p # q
  BY DEF Covered
<1>4. sample[q] \in Nat /\ now \in Nat /\ until \in Nat
  BY DEF TypeOK
<1> QED
  BY <1>1, <1>2, <1>3, <1>4 DEF Free

LEMMA InsidePreserved == TypeOK /\ InsideLease /\ [Next]_vars => InsideLease'
<1> SUFFICES ASSUME TypeOK, InsideLease, [Next]_vars PROVE InsideLease'
  OBVIOUS
<1> USE DEF InsideLease, Step, Timed, Covered
<1>a. /\ now \in Nat \ {0} /\ until \in Nat
      /\ pc \in [Procs -> Phases] /\ sample \in [Procs -> Nat] /\ since \in [Procs -> Nat]
  BY DEF TypeOK
<1>b. LeaseTTL \in Nat /\ HttpTimeout \in Nat /\ DbWait \in Nat
  BY LeaseAssumption
<1>c. \A l \in Phases : Limit(l) \in Nat
  BY <1>b DEF Limit
<1>1. ASSUME NEW p \in Procs, Ask(p) PROVE InsideLease'
  BY <1>1, <1>a, <1>b DEF Ask, Limit
<1>2. ASSUME NEW p \in Procs, pc[p] \in {"ask", "askagain"}, Free(p), Take(p),
             UNCHANGED <<now, sample>>
      PROVE  InsideLease'
  <2>1. \A q \in Procs : pc[q] \notin Covered
    BY <1>2, NotFree
  <2>2. \A q \in Procs \ {p} : pc'[q] = pc[q] /\ since'[q] = since[q]
    BY <1>2, <1>a DEF Take
  <2>3. pc'[p] = "fetch" /\ since'[p] = now /\ until' = sample[p] + LeaseTTL /\ owner' = p
    BY <1>2, <1>a DEF Take
  <2>4. now <= sample[p] + DbWait /\ sample[p] > 0
    BY <1>2 DEF Limit
  <2>5. now <= now + HttpTimeout
    BY <1>a, <1>b
  <2>6. InsideLease!(p)'
    BY <1>2, <1>a, <2>3, <2>4, <2>5 DEF Limit, Age
  <2>7. ASSUME NEW q \in Procs \ {p} PROVE InsideLease!(q)'
    <3>1. pc'[q] \notin Covered'
      BY <2>1, <2>2, <2>7 DEF QuickDatabase
    <3> QED
      BY <1>2, <2>2, <2>7, <3>1
  <2> QED
    BY <2>6, <2>7
<1>3. ASSUME NEW p \in Procs, NEW l \in {"wait", "idle"}, Step(p, l),
             UNCHANGED <<now, until, owner, sample>>
      PROVE  InsideLease'
  BY <1>3, <1>a
<1>4. ASSUME NEW p \in Procs, TryAcquire(p) \/ TryAcquireAgain(p) PROVE InsideLease'
  BY <1>2, <1>3, <1>4 DEF TryAcquire, TryAcquireAgain
<1>5. ASSUME NEW p \in Procs, Published(p) PROVE InsideLease'
  BY <1>3, <1>5 DEF Published
<1>6. ASSUME NEW p \in Procs, AskAgain(p) PROVE InsideLease'
  BY <1>6, <1>a, <1>b DEF AskAgain, Limit
<1>7. ASSUME NEW p \in Procs, Answer(p) PROVE InsideLease'
  BY <1>7, <1>a, <1>b DEF Answer, Limit, Age
<1>8. ASSUME NEW p \in Procs, Save(p) PROVE InsideLease'
  BY <1>8, <1>a, <1>b DEF Save, Limit, Age
<1>9. ASSUME NEW p \in Procs, Success(p) PROVE InsideLease'
  BY <1>9, <1>a, <1>b DEF Success, Limit
<1>10. ASSUME NEW p \in Procs, Release(p) PROVE InsideLease'
  BY <1>10, <1>a DEF Release
<1>11. ASSUME NEW p \in Procs, Abandon(p) PROVE InsideLease'
  BY <1>11, <1>a DEF Abandon
<1>12. CASE Tick
  BY <1>12, <1>a, <1>c DEF Tick
<1>13. CASE UNCHANGED vars
  BY <1>13 DEF vars
<1> QED
  BY <1>1, <1>4, <1>5, <1>6, <1>7, <1>8, <1>9, <1>10, <1>11, <1>12, <1>13 DEF Next

LEMMA InsideInitially == Init => InsideLease
<1> SUFFICES ASSUME Init, NEW p \in Procs PROVE InsideLease!(p)
  BY DEF InsideLease
<1>1. pc[p] = "idle" /\ sample[p] = 0 /\ now = 1
  BY DEF Init
<1>2. "idle" \notin Covered
  BY DEF Covered
<1> QED
  BY <1>1, <1>2 DEF Timed

LEMMA CoveredExclusive ==
  ASSUME InsideLease
  PROVE  \A p, q \in Procs : pc[p] \in Covered /\ pc[q] \in Covered => p = q
  BY DEF InsideLease

(* No two processes have a get-session request for the account under way,
   for every number of processes and all limits within the lease.          *)
THEOREM LeaseExcludes == Spec => []GetSessionExclusive
<1>1. InsideLease => GetSessionExclusive
  BY CoveredExclusive DEF GetSessionExclusive, Covered
<1> QED
  BY <1>1, InitTyped, TypingPreserved, InsideInitially, InsidePreserved, PTL DEF Spec

(* With a quick database no process starts a refresh before the answer of
   the one before is stored.                                               *)
THEOREM LeaseCoversSaving == Spec => []HolderNotOvertaken
<1>1. InsideLease => HolderNotOvertaken
  BY CoveredExclusive DEF HolderNotOvertaken, Refreshing, Covered
<1> QED
  BY <1>1, InitTyped, TypingPreserved, InsideInitially, InsidePreserved, PTL DEF Spec

(* A call whose lease was taken over does not release its successor's. *)
THEOREM LateReleaseHarmless == Spec => ReleasesOwnLease
<1>1. ASSUME TypeOK, [Next]_vars, NEW p \in Procs, owner = p, owner' = Nobody
      PROVE  pc[p] = "release"
  <2>1. Nobody \notin Procs /\ Orphan # Nobody
    BY LeaseAssumption
  <2> QED
    BY <1>1, <2>1 DEF Next, vars, Ask, TryAcquire, Published, AskAgain, TryAcquireAgain, Take,
                      Answer, Save, Success, Release, Abandon, Tick
<1>2. TypeOK /\ [Next]_vars =>
        [\A p \in Procs : owner = p /\ owner' = Nobody => pc[p] = "release"]_vars
  BY <1>1
<1> QED
  BY <1>2, InitTyped, TypingPreserved, PTL DEF Spec, ReleasesOwnLease
-----------------------------------------------------------------------------
(* The lease implements the gate. *)
InFlight == {p \in Procs : pc[p] = "fetch"}

LEMMA TakeEnters ==
  ASSUME TypeOK, InsideLease, NEW p \in Procs, pc[p] \in {"ask", "askagain"}, Free(p), Take(p)
  PROVE  Gate!Enter(p)
<1>1. InFlight = {}
  <2>1. \A q \in Procs : pc[q] \notin Covered
    BY NotFree
  <2> QED
    BY <2>1 DEF InFlight, Covered
<1>2. InFlight' = {p}
  BY <1>1 DEF InFlight, Take, Step, TypeOK
<1> QED
  BY <1>1, <1>2 DEF Gate!Enter, InFlight

LEMMA EndLeaves ==
  ASSUME TypeOK, InsideLease, NEW p \in Procs, NEW l, l # "fetch", Step(p, l)
  PROVE  Gate!Leave(p) \/ UNCHANGED InFlight
<1>1. CASE pc[p] = "fetch"
  <2>1. InFlight = {p}
    BY <1>1, CoveredExclusive DEF InFlight, Covered
  <2>2. InFlight' = {}
    BY <2>1 DEF InFlight, Step, TypeOK
  <2> QED
    BY <2>1, <2>2 DEF Gate!Leave, InFlight
<1>2. CASE pc[p] # "fetch"
  BY <1>2 DEF InFlight, Step, TypeOK
<1> QED
  BY <1>1, <1>2

(* Every behaviour of the lease is one of the gate: a refresh begins only
   when none is under way.                                                 *)
THEOREM LeaseImplementsGate == Spec => GateSpec
<1>1. Init => Gate!GateInit
  BY DEF Init, Gate!GateInit
<1>2. TypeOK /\ InsideLease /\ [Next]_vars => [Gate!GateNext]_InFlight
  <2> SUFFICES ASSUME TypeOK, InsideLease, [Next]_vars PROVE [Gate!GateNext]_InFlight
    OBVIOUS
  <2>1. ASSUME NEW p \in Procs, TryAcquire(p) \/ TryAcquireAgain(p)
        PROVE  [Gate!GateNext]_InFlight
    <3>1. CASE pc[p] \in {"ask", "askagain"} /\ Free(p) /\ Take(p)
      BY <3>1, TakeEnters DEF Gate!GateNext
    <3>2. CASE Step(p, "wait") \/ Step(p, "idle")
      BY <3>2, EndLeaves DEF Gate!GateNext
    <3> QED
      BY <2>1, <3>1, <3>2 DEF TryAcquire, TryAcquireAgain
  <2>2. ASSUME NEW p \in Procs,
               \/ Ask(p) \/ Published(p) \/ AskAgain(p)
               \/ Answer(p) \/ Save(p) \/ Success(p) \/ Release(p) \/ Abandon(p)
        PROVE  [Gate!GateNext]_InFlight
    <3>1. \E l \in Phases \ {"fetch"} : Step(p, l)
      BY <2>2 DEF Ask, Published, AskAgain, Answer, Save, Success, Release, Abandon, Phases
    <3> QED
      BY <3>1, EndLeaves DEF Gate!GateNext
  <2>3. CASE Tick \/ UNCHANGED vars
    BY <2>3 DEF Tick, vars, InFlight
  <2> QED
    BY <2>1, <2>2, <2>3 DEF Next
<1> QED
  BY <1>1, <1>2, InitTyped, TypingPreserved, InsideInitially, InsidePreserved, PTL
     DEF Spec, GateSpec, Gate!GateSpec, InFlight
=============================================================================
