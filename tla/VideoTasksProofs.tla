-------------------------- MODULE VideoTasksProofs --------------------------
(* Proofs about VideoTasks, for every set of handlers, requests and task   *)
(* ids, every capacity of the table, and with or without restarts.         *)
EXTENDS VideoTasks, FiniteSetTheorems, TLAPS

USE DEF Status, Finished, NewJob, Job, Forgotten
-----------------------------------------------------------------------------
(* Type correctness.                                                       *)
LEMMA InitTyped == Init => TypeOK
  BY DEF Init, TypeOK

LEMMA IndexedTyped ==
  ASSUME TypeOK, NEW r \in Requests \cup {NoRequest}, NEW i \in Jobs \cup {NoJob}
  PROVE  /\ Indexed(r, i) \in [Requests -> Jobs \cup {NoJob}]
         /\ \A q \in Requests : Indexed(r, i)[q] = IF q = r THEN i ELSE index[q]
<1>1. CASE r = NoRequest
  BY <1>1, TaskAssumption DEF Indexed, TypeOK
<1>2. CASE r # NoRequest
  BY <1>2 DEF Indexed, TypeOK
<1> QED
  BY <1>1, <1>2

LEMMA StepTyped == TypeOK /\ [Next]_vars => TypeOK'
<1> SUFFICES ASSUME TypeOK, [Next]_vars PROVE TypeOK'
  OBVIOUS
<1>1. CASE UNCHANGED vars
  BY <1>1 DEF vars, TypeOK
<1>2. ASSUME NEW h \in Handlers, NEW r \in Requests \cup {NoRequest}, NEW e \in Endpoints, Receive(h, r, e)
      PROVE  TypeOK'
  BY <1>2, TaskAssumption DEF Receive, GoTo, TypeOK
<1>3. ASSUME NEW h \in Handlers, Lookup(h) \/ LookupImage(h) \/ LookupWaiting(h) \/ Wait(h) PROVE TypeOK'
  BY <1>3 DEF Lookup, LookupImage, LookupWaiting, Wait, GoTo, Leave, TypeOK
<1>4. ASSUME NEW h \in Handlers, Reuse(h) \/ Insert(h) PROVE TypeOK'
  <2>1. PICK i \in Jobs, status \in Status, work \in {"queued", "done"} :
          /\ table' \subseteq table \cup {i}
          /\ job' = [job EXCEPT ![i] = NewJob(asked[h], status, work)]
          /\ index' = Indexed(asked[h], i)
    BY <1>4 DEF Reuse, Insert
  <2>2. index' \in [Requests -> Jobs \cup {NoJob}]
    BY <2>1, IndexedTyped DEF TypeOK
  <2>3. job' \in [Jobs -> Job] /\ table' \subseteq Jobs
    BY <2>1 DEF TypeOK
  <2>4. stored' = stored /\ Leave(h)
    BY <1>4 DEF Reuse, Insert
  <2> QED
    BY <2>2, <2>3, <2>4 DEF Leave, GoTo, TypeOK
<1>5. ASSUME NEW i \in Jobs, Start(i) \/ Log(i) \/ Complete(i) PROVE TypeOK'
  <2>1. job' \in [Jobs -> Job]
    BY <1>5 DEF Start, Log, Complete, TypeOK
  <2>2. stored' \subseteq Requests
    BY <1>5 DEF Start, Log, Complete, TypeOK
  <2> QED
    BY <1>5, <2>1, <2>2 DEF Start, Log, Complete, TypeOK
<1>6. ASSUME NEW i \in Jobs, Fail(i) PROVE TypeOK'
  <2>1. job' \in [Jobs -> Job]
    BY <1>6 DEF Fail, TypeOK
  <2>2. index' \in [Requests -> Jobs \cup {NoJob}]
    BY <1>6, IndexedTyped DEF Fail, TypeOK
  <2> QED
    BY <1>6, <2>1, <2>2 DEF Fail, TypeOK
<1>7. ASSUME NEW r \in Requests, Lose(r) PROVE TypeOK'
  BY <1>7 DEF Lose, TypeOK
<1>8. CASE Restart
  BY <1>8 DEF Restart, TypeOK
<1> QED
  BY <1>1, <1>2, <1>3, <1>4, <1>5, <1>6, <1>7, <1>8 DEF Next, Work

(* Every variable of the task table keeps its type.                        *)
THEOREM TypeCorrect == Spec => []TypeOK
  BY InitTyped, StepTyped, PTL DEF Spec
-----------------------------------------------------------------------------
(* The index, the table and the goroutines agree.  RunningKept needs that  *)
(* a task is marked as finished when its goroutine ends, not before;       *)
(* FailureRepeatable needs the two other invariants, to know that no other *)
(* request id leads to the task that fails.                                *)
MarkedWhenDone == \A i \in Jobs : job[i].status \in Finished <=> job[i].work = "done"
Consistent == IndexFaithful /\ RunningKept /\ FailureRepeatable /\ MarkedWhenDone

LEMMA InitConsistent == Init => Consistent
  BY TaskAssumption
     DEF Init, Consistent, IndexFaithful, RunningKept, FailureRepeatable, MarkedWhenDone, Known

LEMMA StepConsistent == TypeOK /\ Consistent /\ [Next]_vars => Consistent'
<1> SUFFICES ASSUME TypeOK, Consistent, [Next]_vars PROVE Consistent'
  OBVIOUS
<1> USE DEF Consistent, IndexFaithful, RunningKept, FailureRepeatable, MarkedWhenDone, Known
<1>1. ASSUME UNCHANGED <<table, job, index>> PROVE Consistent'
  BY <1>1
<1>2. ASSUME NEW h \in Handlers, Reuse(h) \/ Insert(h) PROVE Consistent'
  <2>1. PICK i \in Jobs, status \in {"completed", "queued"}, work \in {"queued", "done"} :
          /\ Fresh(i)
          /\ (status = "completed") <=> (work = "done")
          /\ i \in table' /\ table' \subseteq table \cup {i}
          /\ \A j \in table \ table' : job[j].status \in Finished
          /\ job' = [job EXCEPT ![i] = NewJob(asked[h], status, work)]
          /\ index' = Indexed(asked[h], i)
    <3>1. CASE Reuse(h)
      BY <3>1 DEF Reuse
    <3>2. CASE Insert(h)
      <4> DEFINE Over == {old \in table : job[old].status \in Finished}
      <4>1. PICK i \in Jobs :
              /\ Fresh(i)
              /\ job' = [job EXCEPT ![i] = NewJob(asked[h], "queued", "queued")]
              /\ index' = Indexed(asked[h], i)
              /\ (\E old \in Over : table' = (table \cup {i}) \ {old}) \/ table' = table \cup {i}
        BY <3>2 DEF Insert
      <4>2. i \in table' /\ table' \subseteq table \cup {i}
        BY <4>1 DEF Fresh
      <4>3. \A j \in table \ table' : job[j].status \in Finished
        BY <4>1
      <4> QED
        BY <4>1, <4>2, <4>3
    <3> QED
      BY <1>2, <3>1, <3>2
  <2>2. asked[h] \in Requests \cup {NoRequest}
    BY DEF TypeOK
  <2>3. \A q \in Requests : index'[q] = IF q = asked[h] THEN i ELSE index[q]
    <3>1. \A q \in Requests : Indexed(asked[h], i)[q] = IF q = asked[h] THEN i ELSE index[q]
      BY <2>2, IndexedTyped
    <3> QED
      BY <2>1, <3>1
  <2>4. /\ job'[i] = NewJob(asked[h], status, work)
        /\ \A j \in Jobs \ {i} : job'[j] = job[j]
    BY <2>1 DEF TypeOK
  <2>5. \A q \in Requests : index[q] # i
    BY <2>1 DEF Fresh
  <2>6. \A q \in Requests : q # NoRequest /\ (index[q] \in table => index[q] \in Jobs)
    BY TaskAssumption DEF TypeOK
  <2>7. IndexFaithful' /\ FailureRepeatable'
    BY <2>1, <2>3, <2>4, <2>5, <2>6
  <2>8. MarkedWhenDone'
    BY <2>1, <2>4
  <2>9. RunningKept'
    BY <2>1, <2>4
  <2> QED
    BY <2>7, <2>8, <2>9
<1>3. ASSUME NEW i \in Jobs, Start(i) \/ Log(i) \/ Complete(i) PROVE Consistent'
  <2>1. UNCHANGED <<table, index>> /\ \A j \in Jobs \ {i} : job'[j] = job[j]
    BY <1>3 DEF Start, Log, Complete, TypeOK
  <2>2. job'[i].request = job[i].request /\ job'[i].status # "failed" /\ job[i].work # "done"
    BY <1>3 DEF Start, Log, Complete, TypeOK
  <2>3. job'[i].status \in Finished <=> job'[i].work = "done"
    BY <1>3 DEF Start, Log, Complete, TypeOK
  <2>4. \A q \in Requests : index[q] \in table => index[q] \in Jobs
    BY DEF TypeOK
  <2> QED
    BY <2>1, <2>2, <2>3, <2>4
<1>4. ASSUME NEW i \in Jobs, Fail(i) PROVE Consistent'
  <2>1. table' = table /\ i \in table /\ job[i].work = "generating"
    BY <1>4 DEF Fail
  <2>2. /\ \A j \in Jobs \ {i} : job'[j] = job[j]
        /\ job'[i].request = job[i].request
        /\ job'[i].status = "failed" /\ job'[i].work = "done"
    BY <1>4 DEF Fail, TypeOK
  <2>3. \A q \in Requests : index'[q] = IF q = job[i].request THEN NoJob ELSE index[q]
    BY <1>4, IndexedTyped DEF Fail, TypeOK
  <2>4. \A q \in Requests : q # NoRequest /\ (index[q] \in table => index[q] \in Jobs)
    BY TaskAssumption DEF TypeOK
  <2>5. \A q \in Requests : index'[q] # i
    BY <2>1, <2>3, <2>4, TaskAssumption
  <2>6. NoJob \notin table
    BY TaskAssumption DEF TypeOK
  <2> QED
    BY <2>1, <2>2, <2>3, <2>4, <2>5, <2>6
<1>5. CASE Restart
  BY <1>5, TaskAssumption DEF Restart
<1> QED
  BY <1>1, <1>2, <1>3, <1>4, <1>5
     DEF Next, Work, Receive, Lookup, LookupImage, LookupWaiting, Wait, Lose, vars

(* No client is answered with the task of another request.                 *)
THEOREM IndexLeadsToOwnTask == Spec => []IndexFaithful
  BY InitTyped, StepTyped, InitConsistent, StepConsistent, PTL DEF Spec, Consistent

(* A task under way is never forgotten, whatever the size of the table.    *)
THEOREM RunningTasksKept == Spec => []RunningKept
  BY InitTyped, StepTyped, InitConsistent, StepConsistent, PTL DEF Spec, Consistent

(* No request id leads to a failed task.                                   *)
THEOREM FailuresRepeatable == Spec => []FailureRepeatable
  BY InitTyped, StepTyped, InitConsistent, StepConsistent, PTL DEF Spec, Consistent
-----------------------------------------------------------------------------
(* A patient client has one request on its way at a time.  Then its request *)
(* id leads to the only task of it that has not ended; a handler that works *)
(* for it finds no such task, and no result comes in between.               *)
OneHandler ==
  \A r \in Patient, h \in Handlers : asked[h] = r =>
    /\ at[h] \in {"lookup", "image", "reuse", "insert"}
    /\ \A g \in Handlers : asked[g] = r => g = h
NoTaskMeanwhile ==
  \A r \in Patient, h \in Handlers, i \in Jobs :
    asked[h] = r /\ job[i].request = r => job[i].work = "done"
LeadsToRunning ==
  \A r \in Patient, i \in Jobs : job[i].request = r /\ job[i].work # "done" => index[r] = i
NotStoredMeanwhile ==
  \A r \in Patient, h \in Handlers : asked[h] = r /\ at[h] = "insert" => r \notin stored

PatientOK == OneHandler /\ NoTaskMeanwhile /\ LeadsToRunning /\ NotStoredMeanwhile
TasksInv  == TypeOK /\ Consistent /\ PatientOK

LEMMA PatientFits == \A r \in Patient : r \in Requests /\ r # NoRequest
  BY TaskAssumption

LEMMA InitPatient == Init => PatientOK
  BY PatientFits DEF Init, PatientOK, OneHandler, NoTaskMeanwhile, LeadsToRunning, NotStoredMeanwhile

LEMMA StepPatient == TasksInv /\ [Next]_vars => PatientOK'
<1> SUFFICES ASSUME TasksInv, [Next]_vars PROVE PatientOK'
  OBVIOUS
<1> USE PatientFits DEF PatientOK, OneHandler, NoTaskMeanwhile, LeadsToRunning, NotStoredMeanwhile
<1>a. TypeOK /\ Consistent /\ PatientOK
  BY DEF TasksInv
<1>1. CASE UNCHANGED vars
  BY <1>a, <1>1 DEF vars
<1>2. ASSUME NEW h \in Handlers, NEW r \in Requests \cup {NoRequest}, NEW e \in Endpoints, Receive(h, r, e)
      PROVE  PatientOK'
  <2>1. /\ \A g \in Handlers : asked'[g] = IF g = h THEN r ELSE asked[g]
        /\ \A g \in Handlers : g # h => at'[g] = at[g]
        /\ UNCHANGED <<table, job, index, stored>>
    BY <1>a, <1>2 DEF Receive, GoTo, TypeOK
  <2>2. r \in Patient =>
          /\ at'[h] \in {"lookup", "image"}
          /\ \A g \in Handlers : asked[g] # r
          /\ ~Known(r)
    BY <1>a, <1>2, TaskAssumption DEF Receive, GoTo, TypeOK
  <2>3. r \in Patient => \A i \in Jobs : job[i].request = r => job[i].work = "done"
    BY <1>a, <2>2 DEF Known, Consistent, RunningKept
  <2> QED
    BY <1>a, <2>1, <2>2, <2>3
<1>3. ASSUME NEW h \in Handlers, Lookup(h) \/ LookupImage(h) \/ LookupWaiting(h) \/ Wait(h)
      PROVE  PatientOK'
  <2>1. /\ \A g \in Handlers : g # h => asked'[g] = asked[g] /\ at'[g] = at[g]
        /\ asked'[h] \in {asked[h], NoRequest}
        /\ UNCHANGED <<table, job, index>>
    BY <1>a, <1>3 DEF Lookup, LookupImage, LookupWaiting, Wait, GoTo, Leave, TypeOK
  <2>2. asked[h] \in Patient /\ asked'[h] = asked[h] =>
          /\ at'[h] \in {"reuse", "insert"}
          /\ at'[h] = "insert" => asked[h] \notin stored
    BY <1>a, <1>3 DEF Lookup, LookupImage, LookupWaiting, Wait, GoTo, Leave, Hit, TypeOK
  <2>3. \A r \in Patient : r \in stored' => r \in stored
    BY <1>a, <1>3 DEF Lookup, LookupImage, LookupWaiting, Wait
  <2> QED
    BY <1>a, <2>1, <2>2, <2>3
<1>4. ASSUME NEW h \in Handlers, Reuse(h) \/ Insert(h) PROVE PatientOK'
  <2>1. PICK i \in Jobs, status \in {"completed", "queued"}, work \in {"queued", "done"} :
          /\ Fresh(i)
          /\ job' = [job EXCEPT ![i] = NewJob(asked[h], status, work)]
          /\ index' = Indexed(asked[h], i)
    BY <1>4 DEF Reuse, Insert
  <2>2. /\ job'[i].request = asked[h]
        /\ \A j \in Jobs \ {i} : job'[j] = job[j]
    BY <1>a, <2>1 DEF TypeOK
  <2>3. \A q \in Requests : index'[q] = IF q = asked[h] THEN i ELSE index[q]
    <3>1. asked[h] \in Requests \cup {NoRequest} /\ i \in Jobs \cup {NoJob}
      BY <1>a DEF TypeOK
    <3>2. \A q \in Requests : Indexed(asked[h], i)[q] = IF q = asked[h] THEN i ELSE index[q]
      BY <1>a, <3>1, IndexedTyped
    <3> QED
      BY <2>1, <3>2
  <2>4. /\ asked'[h] = NoRequest
        /\ \A g \in Handlers : g # h => asked'[g] = asked[g] /\ at'[g] = at[g]
        /\ stored' = stored
    BY <1>a, <1>4 DEF Reuse, Insert, Leave, GoTo, TypeOK
  <2>5. LeadsToRunning'
    BY <1>a, <2>2, <2>3
  <2>6. NoTaskMeanwhile'
    BY <1>a, <2>2, <2>4
  <2> QED
    BY <1>a, <2>4, <2>5, <2>6
<1>5. ASSUME NEW i \in Jobs, Work(i) PROVE PatientOK'
  <2>1. /\ \A j \in Jobs \ {i} : job'[j] = job[j]
        /\ job'[i].request = job[i].request
        /\ job[i].work # "done"
        /\ UNCHANGED <<at, asked>>
    BY <1>a, <1>5 DEF Work, Start, Log, Complete, Fail, TypeOK
  <2>2. \A q \in Requests : index'[q] = index[q] \/ (q = job[i].request /\ job'[i].work = "done")
    <3>1. CASE Start(i) \/ Log(i) \/ Complete(i)
      BY <3>1 DEF Start, Log, Complete
    <3>2. CASE Fail(i)
      <4>1. job[i].request \in Requests \cup {NoRequest} /\ NoJob \in Jobs \cup {NoJob}
        BY <1>a DEF TypeOK
      <4>2. \A q \in Requests : Indexed(job[i].request, NoJob)[q] =
              IF q = job[i].request THEN NoJob ELSE index[q]
        <5>1. TypeOK
          BY <1>a
        <5> QED
          BY <4>1, <5>1, IndexedTyped
      <4>3. job'[i].work = "done" /\ index' = Indexed(job[i].request, NoJob)
        BY <1>a, <3>2 DEF Fail, TypeOK
      <4> QED
        BY <4>2, <4>3
    <3> QED
      BY <1>5, <3>1, <3>2 DEF Work
  <2>3. \A r \in Requests : r \in stored' => r \in stored \/ r = job[i].request
    BY <1>5 DEF Work, Start, Log, Complete, Fail
  <2>4. LeadsToRunning'
    BY <1>a, <2>1, <2>2
  <2>5. NotStoredMeanwhile'
    BY <1>a, <2>1, <2>3
  <2>6. NoTaskMeanwhile' /\ OneHandler'
    BY <1>a, <2>1
  <2> QED
    BY <2>4, <2>5, <2>6
<1>6. ASSUME NEW r \in Requests, Lose(r) PROVE PatientOK'
  BY <1>a, <1>6 DEF Lose
<1>7. CASE Restart
  BY <1>7 DEF Restart
<1> QED
  BY <1>1, <1>2, <1>3, <1>4, <1>5, <1>6, <1>7 DEF Next

LEMMA TasksInvariant == Spec => []TasksInv
<1>1. Init => TasksInv
  BY InitTyped, InitConsistent, InitPatient DEF TasksInv
<1>2. TasksInv /\ [Next]_vars => TasksInv'
  BY StepTyped, StepConsistent, StepPatient DEF TasksInv
<1> QED
  BY <1>1, <1>2, PTL DEF Spec

(* A client that waits for its answers has one generation under way at      *)
(* most, also across restarts of the server.                                *)
THEOREM PatientClientsPayOnce == Spec => []OneTaskAtATime
<1>1. TasksInv => OneTaskAtATime
  <2> SUFFICES ASSUME TasksInv, NEW r \in Patient PROVE Cardinality(Generating(r)) <= 1
    BY DEF OneTaskAtATime
  <2>1. /\ ~\E h \in Handlers : asked[h] = r /\ at[h] = "wait"
        /\ \A i \in Jobs : job[i].request = r /\ job[i].work # "done" => index[r] = i
    BY DEF TasksInv, PatientOK, OneHandler, LeadsToRunning
  <2>2. Generating(r) \subseteq {index[r]}
    BY <2>1 DEF Generating
  <2>3. Generating(r) = {} \/ Generating(r) = {index[r]}
    BY <2>2
  <2>4. Cardinality({}) = 0 /\ Cardinality({index[r]}) = 1
    BY FS_EmptySet, FS_Singleton
  <2> QED
    BY <2>3, <2>4
<1> QED
  BY <1>1, TasksInvariant, PTL

LEMMA StepPaysOnce ==
  TasksInv /\ [Next]_vars =>
    [\A r \in stored \cap Patient : Generating(r)' \subseteq Generating(r)]_vars
<1> SUFFICES ASSUME TasksInv, Next, NEW r \in stored \cap Patient
             PROVE  Generating(r)' \subseteq Generating(r)
  OBVIOUS
<1>a. TypeOK /\ PatientOK
  BY DEF TasksInv
<1>b. r \in Requests /\ r # NoRequest
  BY PatientFits
<1>2. \A h \in Handlers : asked'[h] = r => at'[h] # "wait"
  BY StepPatient DEF PatientOK, OneHandler
<1>3. ASSUME NEW i \in Jobs, job'[i].request = r, job'[i].work \in {"queued", "generating"}
      PROVE  job[i].request = r /\ job[i].work \in {"queued", "generating"}
  <2>1. CASE UNCHANGED job
    BY <1>3, <2>1
  <2>2. ASSUME NEW h \in Handlers, Reuse(h)
        PROVE  job[i].request = r /\ job[i].work \in {"queued", "generating"}
    BY <1>a, <1>3, <2>2 DEF Reuse, TypeOK
  <2>3. ASSUME NEW h \in Handlers, Insert(h)
        PROVE  job[i].request = r /\ job[i].work \in {"queued", "generating"}
    <3>1. asked[h] # r
      BY <1>a, <2>3 DEF PatientOK, NotStoredMeanwhile, Insert
    <3> QED
      BY <1>a, <1>3, <2>3, <3>1 DEF Insert, TypeOK
  <2>4. ASSUME NEW j \in Jobs, Work(j)
        PROVE  job[i].request = r /\ job[i].work \in {"queued", "generating"}
    BY <1>a, <1>3, <2>4 DEF Work, Start, Log, Complete, Fail, TypeOK
  <2>5. CASE Restart
    BY <1>3, <2>5 DEF Restart
  <2> QED
    BY <2>1, <2>2, <2>3, <2>4, <2>5 DEF Next, Receive, Lookup, LookupImage, LookupWaiting, Wait, Lose
<1> QED
  BY <1>2, <1>3 DEF Generating

(* And none is started for a result that is in the log.                     *)
THEOREM PaidForOnce == Spec => PaidOnce
  BY TasksInvariant, StepPaysOnce, PTL DEF Spec, PaidOnce
-----------------------------------------------------------------------------
(* The abstract specification counts what is under way: none or one.       *)
Runs(r) == \E i \in Jobs : job[i].request = r /\ job[i].work \in {"queued", "generating"}
UnderWay == [r \in Patient |-> Cardinality(Generating(r))]

OneEach  == UnderWay = [r \in Patient |-> IF Runs(r) THEN 1 ELSE 0]

LEMMA OneOrNone == TasksInv => OneEach
<1> SUFFICES ASSUME TasksInv, NEW r \in Patient
             PROVE  Cardinality(Generating(r)) = IF Runs(r) THEN 1 ELSE 0
  BY DEF OneEach, UnderWay
<1>1. /\ ~\E h \in Handlers : asked[h] = r /\ at[h] = "wait"
      /\ \A i \in Jobs : job[i].request = r /\ job[i].work # "done" => index[r] = i
  BY DEF TasksInv, PatientOK, OneHandler, LeadsToRunning
<1>2. Generating(r) = IF Runs(r) THEN {index[r]} ELSE {}
  BY <1>1 DEF Generating, Runs
<1>3. Cardinality({}) = 0 /\ Cardinality({index[r]}) = 1
  BY FS_EmptySet, FS_Singleton
<1> QED
  BY <1>2, <1>3

LEMMA InitPayments == Init => Payments!Init
<1> SUFFICES ASSUME Init PROVE Payments!Init
  OBVIOUS
<1>1. TasksInv
  BY InitTyped, InitConsistent, InitPatient DEF TasksInv
<1>2. \A r \in Patient : ~Runs(r)
  BY DEF Init, Runs
<1>3. UnderWay = [r \in Patient |-> 0]
  BY <1>1, <1>2, OneOrNone DEF OneEach
<1> QED
  BY <1>3 DEF Payments!Init, UnderWay, Init

(* Every step is one of the abstract steps for the request of its task, or *)
(* none.                                                                   *)
LEMMA StepPayments == TasksInv /\ OneEach /\ OneEach' /\ [Next]_vars => [Payments!Next]_Payments!paid
<1> SUFFICES ASSUME TasksInv, OneEach, OneEach', [Next]_vars
             PROVE  [Payments!Next]_Payments!paid
  OBVIOUS
<1>a. TypeOK /\ PatientOK /\ \A r \in Patient : r \in Requests /\ r # NoRequest
  BY PatientFits DEF TasksInv
<1>b. /\ UnderWay = [r \in Patient |-> IF Runs(r) THEN 1 ELSE 0]
      /\ UnderWay' = [r \in Patient |-> IF Runs(r)' THEN 1 ELSE 0]
  BY DEF OneEach
<1>c. ASSUME \A r \in Patient : Runs(r)' <=> Runs(r), stored' \cap Patient = stored \cap Patient
      PROVE  [Payments!Next]_Payments!paid
  <2>1. UnderWay' = UnderWay
    BY <1>b, <1>c
  <2> QED
    BY <1>c, <2>1 DEF Payments!paid, UnderWay
<1>1. ASSUME UNCHANGED <<job, stored>> PROVE [Payments!Next]_Payments!paid
  BY <1>1, <1>c DEF Runs
<1>2. ASSUME NEW h \in Handlers, Wait(h) PROVE [Payments!Next]_Payments!paid
  <2>1. asked[h] \notin Patient
    BY <1>a, <1>2 DEF PatientOK, OneHandler, Wait
  <2>2. UNCHANGED job /\ stored' \cap Patient = stored \cap Patient
    BY <1>2, <2>1 DEF Wait
  <2> QED
    BY <1>c, <2>2 DEF Runs
<1>3. ASSUME NEW h \in Handlers, Reuse(h) PROVE [Payments!Next]_Payments!paid
  <2>1. PICK i \in Jobs :
          Fresh(i) /\ job' = [job EXCEPT ![i] = NewJob(asked[h], "completed", "done")]
    BY <1>3 DEF Reuse
  <2>2. \A r \in Patient : Runs(r)' <=> Runs(r)
    BY <1>a, <2>1 DEF Runs, Fresh, TypeOK
  <2> QED
    BY <1>3, <1>c, <2>2 DEF Reuse
<1>4. ASSUME NEW h \in Handlers, Insert(h) PROVE [Payments!Next]_Payments!paid
  <2> DEFINE q == asked[h]
  <2>1. PICK i \in Jobs : Fresh(i) /\ job' = [job EXCEPT ![i] = NewJob(q, "queued", "queued")]
    BY <1>4 DEF Insert
  <2>2. stored' = stored
    BY <1>4 DEF Insert
  <2>3. \A r \in Patient : Runs(r)' <=> Runs(r) \/ r = q
    BY <1>a, <2>1 DEF Runs, Fresh, TypeOK
  <2>4. CASE q \notin Patient
    BY <1>c, <2>2, <2>3, <2>4
  <2>5. CASE q \in Patient
    <3>1. q \notin stored /\ ~Runs(q)
      BY <1>a, <1>4, <2>5 DEF PatientOK, NotStoredMeanwhile, NoTaskMeanwhile, Insert, Runs
    <3>2. UnderWay[q] = 0 /\ UnderWay' = [UnderWay EXCEPT ![q] = 1]
      BY <1>b, <2>3, <2>5, <3>1
    <3> QED
      BY <2>2, <2>5, <3>1, <3>2 DEF Payments!Next, Payments!Pay, UnderWay
  <2> QED
    BY <2>4, <2>5
<1>5. ASSUME NEW i \in Jobs, Start(i) \/ Complete(i) PROVE [Payments!Next]_Payments!paid
  <2>1. \A r \in Patient : Runs(r)' <=> Runs(r)
    BY <1>a, <1>5 DEF Runs, Start, Complete, TypeOK
  <2> QED
    BY <1>5, <1>c, <2>1 DEF Start, Complete
<1>6. ASSUME NEW i \in Jobs, Log(i) \/ Fail(i) PROVE [Payments!Next]_Payments!paid
  <2> DEFINE q == job[i].request
  <2>1. /\ job[i].work = "generating" /\ job'[i].work \in {"logged", "done"} /\ job'[i].request = q
        /\ \A j \in Jobs \ {i} : job'[j] = job[j]
        /\ stored' = stored \/ (Log(i) /\ stored' = stored \cup ({q} \ {NoRequest}))
    BY <1>a, <1>6 DEF Log, Fail, TypeOK
  <2>2. \A r \in Patient \ {q} : Runs(r)' <=> Runs(r)
    BY <2>1 DEF Runs
  <2>3. CASE q \notin Patient
    <3>1. stored' \cap Patient = stored \cap Patient
      BY <2>1, <2>3
    <3> QED
      BY <1>c, <2>2, <2>3, <3>1
  <2>4. CASE q \in Patient
    <3>1. Runs(q)
      BY <2>1 DEF Runs
    <3>2. \A r \in Patient : r = q => ~Runs(r)'
      <4>1. \A j \in Jobs : job[j].request = q /\ job[j].work # "done" => j = i
        BY <1>a, <2>1, <2>4 DEF PatientOK, LeadsToRunning
      <4> QED
        BY <2>1, <4>1 DEF Runs
    <3>3. UnderWay[q] = 1 /\ UnderWay' = [UnderWay EXCEPT ![q] = 0]
      BY <1>b, <2>2, <2>4, <3>1, <3>2
    <3>4. stored' \cap Patient \in {stored \cap Patient, (stored \cap Patient) \cup {q}}
      BY <1>a, <2>1, <2>4
    <3> QED
      BY <2>4, <3>3, <3>4 DEF Payments!Next, Payments!Deliver, Payments!GiveUp, UnderWay
  <2> QED
    BY <2>3, <2>4
<1>7. ASSUME NEW r \in Requests, Lose(r) PROVE [Payments!Next]_Payments!paid
  <2>1. UNCHANGED job /\ stored' = stored \ {r} /\ r \in stored
    BY <1>7 DEF Lose
  <2>2. \A q \in Patient : Runs(q)' <=> Runs(q)
    BY <2>1 DEF Runs
  <2>3. CASE r \notin Patient
    BY <1>c, <2>1, <2>2, <2>3
  <2>4. CASE r \in Patient
    <3>1. UnderWay' = UnderWay
      BY <1>b, <2>2
    <3>2. stored' \cap Patient = (stored \cap Patient) \ {r} /\ r \in stored \cap Patient
      BY <2>1, <2>4
    <3> QED
      BY <2>4, <3>1, <3>2 DEF Payments!Next, Payments!Lose, UnderWay
  <2> QED
    BY <2>3, <2>4
<1>8. CASE Restart
  <2>1. \A r \in Patient : ~Runs(r)'
    BY <1>8 DEF Restart, Runs
  <2>2. UnderWay' = [r \in Patient |-> 0] /\ stored' = stored
    BY <1>8, <1>b, <2>1 DEF Restart
  <2> QED
    BY <2>2 DEF Payments!Next, Payments!Crash, UnderWay
<1> QED
  BY <1>1, <1>2, <1>3, <1>4, <1>5, <1>6, <1>7, <1>8
     DEF Next, Work, Receive, Lookup, LookupImage, LookupWaiting, vars

(* The task table implements the abstract specification of what a client is *)
(* charged for, for any number of handlers, requests and tasks, every       *)
(* capacity, and with or without restarts.                                  *)
THEOREM TasksImplementPayments == Spec => PaymentSpec
<1>1. Spec => [](TasksInv /\ OneEach)
  BY TasksInvariant, OneOrNone, PTL
<1> QED
  BY <1>1, StepPayments, InitPayments, PTL DEF Spec, PaymentSpec, Payments!Spec
=============================================================================
