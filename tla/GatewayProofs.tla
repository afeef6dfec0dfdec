---------------------------- MODULE GatewayProofs ----------------------------
(* Proofs about Gateway, for any number of handlers, requests, jobs and     *)
(* sidecar processes, and every capacity of the table; and about Catalogs,  *)
(* for any lists of variants, requests, durations and aspect ratios.        *)
EXTENDS Gateway, Catalogs, WellFoundedInduction, NaturalsInduction, TLAPS

USE DEF Finished
-----------------------------------------------------------------------------
(* What the steps of the parts do to the variables of the others.           *)
LEMMA AdobeStep ==
  ASSUME Next
  PROVE  \/ \E h \in Handlers, ask \in Asks : Receive(h, ask[2], ask[1])
         \/ \E h \in Handlers : \/ Refresh(h) \/ Fetched(h) \/ FetchFails(h) \/ FetchEmpty(h)
                                \/ Look(h) \/ Reuse(h) \/ NotStored(h) \/ Insert(h)
                                \/ ImageDone(h) \/ ImageFails(h)
         \/ \E i \in Jobs : Begin(i) \/ Error(i) \/ Answer(i) \/ LogRow(i)
         \/ Expire \/ Cut \/ Forget \/ UNCHANGED adobeVars
  BY DEF Next, Handle, Work, SidecarStep, LeonardoTask, CheckTasks, StopServer, StartServer, Restarted

LEMMA OtherStep ==
  ASSUME Next
  PROVE  /\ SidecarNext \/ UNCHANGED sidecarVars
         /\ \/ LeonardoTask \/ CheckTasks \/ StopServer \/ StartServer \/ Restarted
            \/ UNCHANGED gatewayVars
  BY DEF Next, Handle, Work, SidecarStep, LeonardoTask, CheckTasks, StopServer, StartServer, Restarted
-----------------------------------------------------------------------------
(* Type correctness.                                                        *)
LEMMA IndexedTyped ==
  ASSUME AdobeTypeOK, NEW r \in Requests \cup {NoRequest}, NEW i \in Jobs \cup {NoJob}
  PROVE  /\ Indexed(r, i) \in [Requests -> Jobs \cup {NoJob}]
         /\ \A q \in Requests : Indexed(r, i)[q] = IF q = r THEN i ELSE index[q]
<1>1. CASE r = NoRequest
  BY <1>1, AdobeAssumption DEF Indexed, AdobeTypeOK
<1>2. CASE r # NoRequest
  BY <1>2 DEF Indexed, AdobeTypeOK
<1> QED
  BY <1>1, <1>2

LEMMA InitTyped == Init => TypeOK
<1> SUFFICES ASSUME Init PROVE TypeOK
  OBVIOUS
<1>1. AdobeTypeOK
  BY DEF Init, AdobeInit, AdobeTypeOK, Forgotten, NewJob, Job, Idle, Call
<1>2. SidecarTypeOK
  BY DEF Init, SidecarInit, SidecarTypeOK, Caller
<1> QED
  BY <1>1, <1>2 DEF Init, TypeOK

LEMMA AdobeTyped == ASSUME AdobeTypeOK, Next PROVE AdobeTypeOK'
<1>1. ASSUME NEW h \in Handlers, NEW ask \in Asks, Receive(h, ask[2], ask[1]) PROVE AdobeTypeOK'
  <2>1. ask[1] \in {"image", "video"} /\ ask[2] \in Requests \cup {NoRequest}
    BY AdobeAssumption
  <2> QED
    BY <1>1, <2>1 DEF Receive, AdobeTypeOK, Call
<1>2. ASSUME NEW h \in Handlers,
             \/ Refresh(h) \/ Fetched(h) \/ FetchFails(h) \/ FetchEmpty(h) \/ Look(h)
             \/ NotStored(h) \/ ImageFails(h)
      PROVE  AdobeTypeOK'
  BY <1>2 DEF Refresh, Fetched, FetchFails, FetchEmpty, Look, NotStored, ImageFails,
              GoTo, Leave, Idle, Call, AdobeTypeOK
<1>3. ASSUME NEW h \in Handlers, Reuse(h) \/ Insert(h) PROVE AdobeTypeOK'
  <2> DEFINE r == call[h].request
  <2>1. r \in Requests \cup {NoRequest}
    BY DEF AdobeTypeOK, Call
  <2>2. \/ UNCHANGED <<table, job, index>>
        \/ \E i \in Jobs, s \in {"completed", "queued"}, w \in {"done", "queued"} :
             /\ table' \subseteq table \cup {i}
             /\ job' = [job EXCEPT ![i] = NewJob(r, s, w)]
             /\ index' = Indexed(r, i)
    BY <1>3 DEF Reuse, Insert
  <2>3. /\ table' \subseteq Jobs
        /\ job' \in [Jobs -> Job]
        /\ index' \in [Requests -> Jobs \cup {NoJob}]
    <3>1. CASE UNCHANGED <<table, job, index>>
      BY <3>1 DEF AdobeTypeOK
    <3>2. ASSUME NEW i \in Jobs, NEW s \in {"completed", "queued"}, NEW w \in {"done", "queued"},
                 table' \subseteq table \cup {i},
                 job' = [job EXCEPT ![i] = NewJob(r, s, w)],
                 index' = Indexed(r, i)
          PROVE  /\ table' \subseteq Jobs
                 /\ job' \in [Jobs -> Job]
                 /\ index' \in [Requests -> Jobs \cup {NoJob}]
      <4>1. NewJob(r, s, w) \in Job
        BY <2>1 DEF NewJob, Job
      <4>2. Indexed(r, i) \in [Requests -> Jobs \cup {NoJob}]
        BY <2>1, IndexedTyped
      <4> QED
        BY <3>2, <4>1, <4>2 DEF AdobeTypeOK
    <3> QED
      BY <2>2, <3>1, <3>2
  <2> QED
    BY <1>3, <2>3 DEF Reuse, Insert, Leave, Idle, Call, AdobeTypeOK
<1>4. ASSUME NEW h \in Handlers, ImageDone(h) PROVE AdobeTypeOK'
  <2>1. Result("image", call[h].request) \subseteq {"image", "video"} \X Requests
    BY DEF Result, AdobeTypeOK, Call
  <2> QED
    BY <1>4, <2>1 DEF ImageDone, Leave, Idle, Call, AdobeTypeOK
<1>5. ASSUME NEW i \in Jobs, Begin(i) \/ Answer(i) PROVE AdobeTypeOK'
  BY <1>5 DEF Begin, Answer, Job, AdobeTypeOK
<1>6. ASSUME NEW i \in Jobs, Error(i) PROVE AdobeTypeOK'
  <2>1. Indexed(job[i].request, NoJob) \in [Requests -> Jobs \cup {NoJob}]
    BY IndexedTyped DEF AdobeTypeOK, Job
  <2> QED
    BY <1>6, <2>1 DEF Error, Job, AdobeTypeOK
<1>7. ASSUME NEW i \in Jobs, LogRow(i) PROVE AdobeTypeOK'
  <2>1. Result("video", job[i].request) \subseteq {"image", "video"} \X Requests
    BY DEF Result, AdobeTypeOK, Job
  <2> QED
    BY <1>7, <2>1 DEF LogRow, Job, AdobeTypeOK
<1>8. ASSUME Expire \/ UNCHANGED adobeVars PROVE AdobeTypeOK'
  BY <1>8 DEF Expire, adobeVars, AdobeTypeOK
<1>9. ASSUME Cut PROVE AdobeTypeOK'
  <2>1. job' \in [Jobs -> Job]
    BY <1>9 DEF Cut, Job, AdobeTypeOK
  <2>2. call' \in [Handlers -> Call]
    BY <1>9 DEF Cut, Call, AdobeTypeOK
  <2> QED
    BY <1>9, <2>1, <2>2 DEF Cut, AdobeTypeOK
<1>10. ASSUME Forget PROVE AdobeTypeOK'
  BY <1>10 DEF Forget, Forgotten, NewJob, Job, Idle, Call, AdobeTypeOK
<1> QED
  BY <1>1, <1>2, <1>3, <1>4, <1>5, <1>6, <1>7, <1>8, <1>9, <1>10, AdobeStep

LEMMA SidecarTyped == ASSUME SidecarTypeOK, SidecarNext PROVE SidecarTypeOK'
<1>1. ASSUME NEW c \in Callers, Manage(c) PROVE SidecarTypeOK'
  <2>1. caller[c] \in Caller
    BY DEF SidecarTypeOK
  <2>2. CASE CallStart(c) \/ Healthy(c) \/ PortFree(c) \/ Started(c) \/ GiveUp(c) \/ Freed(c)
    BY <2>2 DEF CallStart, Healthy, PortFree, Started, GiveUp, Freed, Return, Go, Caller, SidecarTypeOK
  <2>3. CASE Spawn(c) \/ Record(c)
    BY <2>1, <2>3 DEF Spawn, Record, Go, Caller, SidecarTypeOK
  <2>4. CASE CallRestart(c) \/ Kill(c)
    BY <2>4 DEF CallRestart, Kill, Go, Caller, SidecarTypeOK
  <2> QED
    BY <1>1, <2>2, <2>3, <2>4 DEF Manage
<1>2. ASSUME NEW p \in Pids, ComeUp(p) \/ Hang(p) \/ Recover(p) \/ End(p) PROVE SidecarTypeOK'
  BY <1>2 DEF ComeUp, Hang, Recover, End, SidecarTypeOK
<1> QED
  BY <1>1, <1>2 DEF SidecarNext

LEMMA StepTyped == TypeOK /\ [Next]_vars => TypeOK'
<1>1. ASSUME TypeOK, UNCHANGED vars PROVE TypeOK'
  BY <1>1 DEF vars, adobeVars, sidecarVars, gatewayVars, TypeOK, AdobeTypeOK, SidecarTypeOK
<1>2. ASSUME TypeOK, Next PROVE TypeOK'
  <2>1. AdobeTypeOK'
    BY <1>2, AdobeTyped DEF TypeOK
  <2>2. SidecarTypeOK'
    <3>1. CASE SidecarNext
      BY <1>2, <3>1, SidecarTyped DEF TypeOK
    <3>2. CASE UNCHANGED sidecarVars
      BY <1>2, <3>2 DEF sidecarVars, TypeOK, SidecarTypeOK
    <3> QED
      BY <1>2, <3>1, <3>2, OtherStep
  <2>3. leonardo' \in BOOLEAN /\ up' \in BOOLEAN /\ desk' \in {"idle", "checked", "waiting"}
    BY <1>2, OtherStep
    DEF TypeOK, LeonardoTask, CheckTasks, StopServer, StartServer, Restarted, gatewayVars
  <2> QED
    BY <2>1, <2>2, <2>3 DEF TypeOK
<1> QED
  BY <1>1, <1>2

(* All variables keep their types.                                          *)
THEOREM TypeCorrect == Spec => []TypeOK
  BY InitTyped, StepTyped, PTL DEF Spec
-----------------------------------------------------------------------------
(* The index leads to a job of the request that has not ended with an       *)
(* error, whether the job is still in the table or not.                     *)
IndexOK ==
  \A r \in Requests : index[r] # NoJob =>
    job[index[r]].request = r /\ job[index[r]].status # "failed"

(* A server that is down has no work.                                       *)
DownIsEmpty == ~up => ~leonardo /\ \A i \in Jobs : job[i].work = "done"

JobsInv == TypeOK /\ IndexOK /\ UnfinishedKept /\ DownIsEmpty

LEMMA JobsInit == Init => JobsInv
  BY InitTyped DEF Init, AdobeInit, Forgotten, NewJob, JobsInv, IndexOK, UnfinishedKept, DownIsEmpty

(* A new job for the request r, by Reuse or Insert.                         *)
LEMMA NewJobKeeps ==
  ASSUME JobsInv, NEW i \in Jobs, Fresh(i), NEW r \in Requests \cup {NoRequest},
         NEW s \in {"completed", "queued"}, NEW w \in {"queued", "done"},
         w = "queued" => s = "queued",
         job' = [job EXCEPT ![i] = NewJob(r, s, w)], index' = Indexed(r, i),
         \E gone \in SUBSET {old \in table : job[old].status \in Finished} :
           table' = (table \cup {i}) \ gone
  PROVE  IndexOK' /\ UnfinishedKept'
<1>1. /\ \A q \in Requests : index'[q] = IF q = r THEN i ELSE index[q]
      /\ \A j \in Jobs : job'[j] = IF j = i THEN NewJob(r, s, w) ELSE job[j]
  <2>1. AdobeTypeOK
    BY DEF JobsInv, TypeOK
  <2>2. i \in Jobs \cup {NoJob}
    OBVIOUS
  <2>3. \A q \in Requests : Indexed(r, i)[q] = IF q = r THEN i ELSE index[q]
    BY <2>1, <2>2, IndexedTyped
  <2> QED
    BY <2>1, <2>3 DEF AdobeTypeOK
<1>2. IndexOK'
  <2> SUFFICES ASSUME NEW q \in Requests, index'[q] # NoJob
               PROVE  job'[index'[q]].request = q /\ job'[index'[q]].status # "failed"
    BY DEF IndexOK
  <2>1. CASE q = r
    BY <1>1, <2>1 DEF NewJob
  <2>2. CASE q # r
    <3>1. index'[q] = index[q] /\ index[q] \in Jobs /\ index[q] # i
      BY <1>1, <2>2 DEF Fresh, JobsInv, TypeOK, AdobeTypeOK
    <3> QED
      BY <1>1, <3>1 DEF JobsInv, IndexOK
  <2> QED
    BY <2>1, <2>2
<1>3. UnfinishedKept'
  BY <1>1 DEF Fresh, JobsInv, UnfinishedKept, NewJob
<1> QED
  BY <1>2, <1>3

LEMMA JobsStep == ASSUME JobsInv, Next PROVE IndexOK' /\ UnfinishedKept'
<1>1. ASSUME UNCHANGED <<table, job, index>> PROVE IndexOK' /\ UnfinishedKept'
  BY <1>1 DEF JobsInv, IndexOK, UnfinishedKept
<1>2. ASSUME NEW h \in Handlers, Reuse(h) PROVE IndexOK' /\ UnfinishedKept'
  <2> DEFINE r == call[h].request
  <2>1. r \in Requests \cup {NoRequest}
    BY DEF JobsInv, TypeOK, AdobeTypeOK, Call
  <2>2. CASE \E i \in Jobs :
               /\ Fresh(i)
               /\ table' = table \cup {i}
               /\ job' = [job EXCEPT ![i] = NewJob(r, "completed", "done")]
               /\ index' = Indexed(r, i)
    <3>1. PICK i \in Jobs :
               /\ Fresh(i)
               /\ table' = (table \cup {i}) \ {}
               /\ job' = [job EXCEPT ![i] = NewJob(r, "completed", "done")]
               /\ index' = Indexed(r, i)
      BY <2>2
    <3> QED
      BY <2>1, <3>1, NewJobKeeps
  <2> QED
    BY <1>1, <1>2, <2>2 DEF Reuse
<1>3. ASSUME NEW h \in Handlers, Insert(h) PROVE IndexOK' /\ UnfinishedKept'
  <2> DEFINE r == call[h].request
             over == {old \in table : job[old].status \in Finished}
  <2>1. r \in Requests \cup {NoRequest}
    BY DEF JobsInv, TypeOK, AdobeTypeOK, Call
  <2>2. PICK i \in Jobs :
          /\ Fresh(i)
          /\ job' = [job EXCEPT ![i] = NewJob(r, "queued", "queued")]
          /\ index' = Indexed(r, i)
          /\ \/ table' = (table \cup {i}) \ {}
             \/ \E old \in over : table' = (table \cup {i}) \ {old}
    BY <1>3 DEF Insert
  <2>3. \E gone \in SUBSET over : table' = (table \cup {i}) \ gone
    BY <2>2
  <2> QED
    BY <2>1, <2>2, <2>3, NewJobKeeps
<1>4. ASSUME NEW i \in Jobs, Begin(i) \/ Answer(i) \/ LogRow(i) PROVE IndexOK' /\ UnfinishedKept'
  <2>1. /\ \A j \in Jobs : j # i => job'[j] = job[j]
        /\ job'[i].request = job[i].request
        /\ job'[i].status \in {job[i].status, "in_progress", "completed", "empty"}
        /\ job'[i].work \in {"queued", "generating", "cut"} =>
             job[i].work = "queued" /\ job'[i].status = "in_progress"
        /\ UNCHANGED <<table, index>>
    BY <1>4 DEF Begin, Answer, LogRow, JobsInv, TypeOK, AdobeTypeOK, Job
  <2>2. IndexOK'
    BY <2>1 DEF JobsInv, IndexOK, TypeOK, AdobeTypeOK
  <2>3. UnfinishedKept'
    BY <2>1 DEF JobsInv, UnfinishedKept
  <2> QED
    BY <2>2, <2>3
<1>5. ASSUME NEW i \in Jobs, Error(i) PROVE IndexOK' /\ UnfinishedKept'
  <2> DEFINE r == job[i].request
  <2>1. r \in Requests \cup {NoRequest}
    BY DEF JobsInv, TypeOK, AdobeTypeOK, Job
  <2>2. /\ \A q \in Requests : index'[q] = IF q = r THEN NoJob ELSE index[q]
        /\ \A j \in Jobs : j # i => job'[j] = job[j]
        /\ job'[i].work = "done"
        /\ table' = table
    BY <1>5, <2>1, IndexedTyped DEF Error, JobsInv, TypeOK, AdobeTypeOK, Job
  <2>3. IndexOK'
    <3> SUFFICES ASSUME NEW q \in Requests, index'[q] # NoJob
                 PROVE  job'[index'[q]].request = q /\ job'[index'[q]].status # "failed"
      BY DEF IndexOK
    <3>1. q # r /\ index'[q] = index[q] /\ index[q] \in Jobs
      BY <2>2 DEF JobsInv, TypeOK, AdobeTypeOK
    <3>2. job[index[q]].request = q /\ job[index[q]].status # "failed"
      BY <3>1 DEF JobsInv, IndexOK
    <3>3. index[q] # i
      BY <3>1, <3>2
    <3> QED
      BY <2>2, <3>1, <3>2, <3>3
  <2>4. UnfinishedKept'
    BY <2>2 DEF JobsInv, UnfinishedKept
  <2> QED
    BY <2>3, <2>4
<1>6. ASSUME Cut PROVE IndexOK' /\ UnfinishedKept'
  <2>1. /\ \A i \in Jobs : /\ job'[i].request = job[i].request
                           /\ job'[i].status = job[i].status
                           /\ job'[i].work # job[i].work => job[i].work = "generating"
        /\ UNCHANGED <<table, index>>
    BY <1>6 DEF Cut, JobsInv, TypeOK, AdobeTypeOK, Job
  <2>2. IndexOK'
    BY <2>1 DEF JobsInv, IndexOK, TypeOK, AdobeTypeOK
  <2>3. UnfinishedKept'
    BY <2>1 DEF JobsInv, UnfinishedKept
  <2> QED
    BY <2>2, <2>3
<1>7. ASSUME Forget PROVE IndexOK' /\ UnfinishedKept'
  BY <1>7 DEF Forget, Forgotten, NewJob, IndexOK, UnfinishedKept
<1> QED
  BY <1>1, <1>2, <1>3, <1>4, <1>5, <1>6, <1>7, AdobeStep
  DEF Receive, Refresh, Fetched, FetchFails, FetchEmpty, Look, NotStored, ImageDone, ImageFails,
      Expire, adobeVars

LEMMA DownStep == ASSUME JobsInv, Next PROVE DownIsEmpty'
<1>1. CASE StopServer
  BY <1>1 DEF StopServer, Forget, Forgotten, NewJob, DownIsEmpty
<1>2. CASE up' /\ ~StopServer
  BY <1>2 DEF DownIsEmpty
<1>3. CASE ~up' /\ ~StopServer
  <2>1. ~up /\ leonardo' = leonardo
    BY <1>3, OtherStep DEF JobsInv, TypeOK, LeonardoTask, CheckTasks, StartServer, Restarted, gatewayVars
  <2>2. \A i \in Jobs : job[i].work = "done"
    BY <2>1 DEF JobsInv, DownIsEmpty
  <2>3. ~\E h \in Handlers : Handle(h)
    BY <2>1 DEF Handle
  <2>4. ~\E i \in Jobs : Work(i)
    BY <2>2 DEF Work, Begin, Error, Answer, LogRow
  <2>5. Cut => \A i \in Jobs : job'[i] = job[i]
    BY <2>2 DEF Cut
  <2>6. \A i \in Jobs : job'[i] = job[i]
    BY <1>3, <2>3, <2>4, <2>5
    DEF Next, Expire, SidecarStep, LeonardoTask, CheckTasks, StartServer, Restarted, adobeVars
  <2> QED
    BY <2>1, <2>2, <2>6 DEF JobsInv, DownIsEmpty
<1> QED
  BY <1>1, <1>2, <1>3

LEMMA JobsInvStep == JobsInv /\ [Next]_vars => JobsInv'
<1>1. ASSUME JobsInv, UNCHANGED vars PROVE JobsInv'
  <2>1. TypeOK'
    BY <1>1, StepTyped DEF JobsInv
  <2> QED
    BY <1>1, <2>1 DEF vars, adobeVars, gatewayVars, JobsInv, IndexOK, UnfinishedKept, DownIsEmpty
<1>2. ASSUME JobsInv, Next PROVE JobsInv'
  <2>1. TypeOK'
    BY <1>2, StepTyped DEF JobsInv
  <2> QED
    BY <1>2, <2>1, JobsStep, DownStep DEF JobsInv
<1> QED
  BY <1>1, <1>2

LEMMA JobsInvariant == Spec => []JobsInv
  BY JobsInit, JobsInvStep, PTL DEF Spec

(* A request whose generation ended with an error is never answered with    *)
(* that job, however many jobs the same id has had.                         *)
THEOREM ErrorsRepeatable == Spec => []ErrorRepeatable
<1>1. JobsInv => ErrorRepeatable
  BY AdobeAssumption DEF JobsInv, IndexOK, ErrorRepeatable, Known, TypeOK, AdobeTypeOK
<1> QED
  BY <1>1, JobsInvariant, PTL

(* No client is answered with the job of another request.                   *)
THEOREM JobsOfRequests == Spec => []JobOfRequest
<1>1. JobsInv => JobOfRequest
  BY AdobeAssumption DEF JobsInv, IndexOK, JobOfRequest, Known, TypeOK, AdobeTypeOK
<1> QED
  BY <1>1, JobsInvariant, PTL

(* No job is forgotten before it has ended, whatever the capacity.          *)
THEOREM UnfinishedJobsKept == Spec => []UnfinishedKept
  BY JobsInvariant, PTL DEF JobsInv

LEMMA RestartStep ==
  ASSUME StatusInTime
  PROVE  JobsInv /\ [Next]_vars =>
           [desk = "idle" /\ desk' = "checked" =>
              ~leonardo /\ \A i \in Jobs : job[i].work \notin {"queued", "generating", "cut"}]_vars
<1> SUFFICES ASSUME JobsInv, Next, desk = "idle", desk' = "checked"
             PROVE  ~leonardo /\ \A i \in Jobs : job[i].work \notin {"queued", "generating", "cut"}
  OBVIOUS
<1>1. CheckTasks
  BY OtherStep DEF LeonardoTask, StopServer, StartServer, Restarted, gatewayVars
<1>2. CASE ~up
  BY <1>2 DEF JobsInv, DownIsEmpty
<1>3. CASE ~ActiveTasks
  BY <1>3 DEF ActiveTasks, JobsInv, UnfinishedKept
<1> QED
  BY <1>1, <1>2, <1>3 DEF CheckTasks

(* If the status page answers in time, the desktop does not begin to        *)
(* restart a server that has a task under way.                              *)
THEOREM RestartsSpareTasks == ASSUME StatusInTime PROVE Spec => RestartSpares
<1>1. JobsInv /\ [Next]_vars =>
        [desk = "idle" /\ desk' = "checked" =>
           ~leonardo /\ \A i \in Jobs : job[i].work \notin {"queued", "generating", "cut"}]_vars
  BY RestartStep
<1> QED
  BY <1>1, JobsInvariant, PTL DEF Spec, RestartSpares
-----------------------------------------------------------------------------
(* One call at a time, and a process that comes up before its start is      *)
(* given up: a call that is about to start a process finds none left, and   *)
(* one that waits knows the only process there is.                          *)
OneCall == \A c, d \in Callers : c = d

Quiet == \A c \in Callers : caller[c].at \notin {"record", "wait"}

SidecarInv ==
  /\ SidecarTypeOK
  /\ \A c \in Callers :
       /\ caller[c].at = "spawn" => \A p \in Pids : proc[p] = "none"
       /\ caller[c].at \in {"record", "wait"} =>
            caller[c].pid \in Pids /\ \A p \in Pids : p # caller[c].pid => proc[p] = "none"
       /\ caller[c].at = "wait" => pidfile = caller[c].pid
  /\ Quiet => \A p \in Pids : proc[p] # "starting" /\ (proc[p] # "none" => pidfile = p)

LEMMA SidecarStepKeeps ==
  ASSUME Prompt, OneCall, SidecarInv, SidecarNext
  PROVE  SidecarInv'
<1>1. SidecarTypeOK'
  BY SidecarTyped DEF SidecarInv
<1>2. ASSUME NEW c \in Callers, Manage(c) PROVE SidecarInv'
  <2>1. \A d \in Callers : d = c
    BY DEF OneCall
  <2>2. CASE CallStart(c) \/ Healthy(c) \/ CallRestart(c) \/ Freed(c)
    BY <1>1, <2>1, <2>2
    DEF CallStart, Healthy, CallRestart, Freed, Return, Go, SidecarInv, SidecarTypeOK, Quiet
  <2>3. CASE PortFree(c)
    <3>1. Quiet /\ caller'[c].at \in {"idle", "spawn"} /\ UNCHANGED <<proc, pidfile>>
      BY <2>1, <2>3 DEF PortFree, Return, Go, Quiet, SidecarInv, SidecarTypeOK
    <3>2. caller'[c].at = "spawn" => \A p \in Pids : proc[p] = "none"
      BY <2>3, <3>1 DEF PortFree, Return, Go, Listening, SidecarInv, SidecarTypeOK
    <3> QED
      BY <1>1, <2>1, <3>1, <3>2 DEF SidecarInv
  <2>4. CASE Spawn(c)
    BY <1>1, <2>1, <2>4 DEF Spawn, Go, SidecarInv, SidecarTypeOK, Quiet
  <2>5. CASE Record(c)
    BY <1>1, <2>1, <2>5 DEF Record, Go, SidecarInv, SidecarTypeOK, Quiet
  <2>6. CASE Started(c) \/ GiveUp(c)
    <3>1. caller[c].at = "wait" /\ caller'[c].at = "idle" /\ UNCHANGED <<proc, pidfile>>
      BY <2>6 DEF Started, GiveUp, Return, Go, SidecarInv, SidecarTypeOK
    <3>2. \A p \in Pids : proc[p] # "starting"
      BY <2>6, <3>1 DEF Started, GiveUp, Serving, SidecarInv
    <3> QED
      BY <1>1, <2>1, <3>1, <3>2 DEF SidecarInv
  <2>7. CASE Kill(c)
    <3>1. /\ Quiet /\ caller'[c].at = "free" /\ pidfile' = pidfile
          /\ \A p \in Pids : proc'[p] \in {proc[p], "none"}
      BY <2>1, <2>7 DEF Kill, Go, Quiet, SidecarInv, SidecarTypeOK
    <3> QED
      BY <1>1, <2>1, <3>1 DEF SidecarInv
  <2> QED
    BY <1>2, <2>2, <2>3, <2>4, <2>5, <2>6, <2>7 DEF Manage
<1>3. ASSUME NEW p \in Pids, ComeUp(p) \/ Hang(p) \/ Recover(p) \/ End(p) PROVE SidecarInv'
  <2>1. /\ UNCHANGED <<pidfile, caller>>
        /\ proc[p] # "none"
        /\ proc'[p] # "starting"
        /\ \A q \in Pids : q # p => proc'[q] = proc[q]
    BY <1>3 DEF ComeUp, Hang, Recover, End, SidecarInv, SidecarTypeOK
  <2> QED
    BY <1>1, <2>1 DEF SidecarInv, Quiet
<1> QED
  BY <1>2, <1>3 DEF SidecarNext

LEMMA SidecarInvariant == ASSUME Prompt, OneCall PROVE Spec => []SidecarInv
<1>1. Init => SidecarInv
  BY InitTyped DEF Init, SidecarInit, SidecarInv, TypeOK
<1>2. SidecarInv /\ [Next]_vars => SidecarInv'
  <2>1. ASSUME SidecarInv, UNCHANGED sidecarVars PROVE SidecarInv'
    BY <2>1 DEF sidecarVars, SidecarInv, SidecarTypeOK, Quiet
  <2> QED
    BY <2>1, SidecarStepKeeps, OtherStep DEF vars
<1> QED
  BY <1>1, <1>2, PTL DEF Spec

(* A single caller at a time, of a sidecar that starts in time, can always  *)
(* be stopped again, however the processes hang, end and come back.         *)
THEOREM SidecarCanBeKilled == ASSUME Prompt, OneCall PROVE Spec => []SidecarKillable
<1>1. SidecarInv => SidecarKillable
  BY DEF SidecarInv, SidecarKillable, Quiet
<1>2. Spec => []SidecarInv
  BY SidecarInvariant
<1> QED
  BY <1>1, <1>2, PTL
-----------------------------------------------------------------------------
(* The catalogue of the Adobe variants.                                     *)

(* Induction as a statement about the set of the numbers it fails at.      *)
LEMMA LeastNatural ==
  ASSUME NEW S, S \subseteq Nat, S # {}
  PROVE  \E m \in S : \A n \in S : m <= n
<1> DEFINE below == OpToRel(<, Nat)
<1>1. IsWellFoundedOn(below, Nat) BY NatLessThanWellFounded
<1>2. \A m, n \in Nat : n < m => <<n, m>> \in below BY DEF OpToRel
<1> HIDE DEF below
<1>3. PICK m \in S : \A n \in S : ~(<<n, m>> \in below) BY <1>1, WFMin
<1>4. ASSUME NEW n \in S PROVE m <= n
  <2>1. m \in Nat /\ n \in Nat OBVIOUS
  <2>2. ~(n < m) BY <1>2, <1>3, <2>1
  <2> QED BY <2>1, <2>2
<1> QED BY <1>4

LEMMA MinOf ==
  ASSUME NEW S, S \subseteq Nat, S # {}
  PROVE  Min(S) \in S /\ \A n \in S : Min(S) <= n
<1>1. \E m \in S : \A n \in S : m <= n BY LeastNatural
<1> QED BY <1>1 DEF Min

LEMMA MaxOf ==
  ASSUME NEW S, S \subseteq Nat, S # {}, NEW bound \in Nat, \A n \in S : n <= bound
  PROVE  Max(S) \in S /\ \A n \in S : n <= Max(S)
<1> DEFINE T == {bound - n : n \in S}
<1>1. T \subseteq Nat /\ T # {}
  <2>1. \A n \in S : bound - n \in Nat OBVIOUS
  <2> QED BY <2>1
<1>2. PICK m \in T : \A n \in T : m <= n BY <1>1, LeastNatural
<1>3. PICK top \in S : m = bound - top OBVIOUS
<1>4. \A n \in S : n <= top
  <2>1. TAKE n \in S
  <2>2. m <= bound - n BY <1>2
  <2> QED BY <2>2, <1>3
<1> QED BY <1>4 DEF Max

(* The recursion over the catalogue has a solution: were there a length at
   which it had none, the least one would have one.                        *)
BestOf(family, variants, score, n) ==
  CHOOSE f : f = [k \in 0..n |->
    IF k = 0 THEN NoVariant
    ELSE IF variants[k] \in family /\ (f[k - 1] = NoVariant \/ Nearer(variants[k], f[k - 1], score))
         THEN variants[k] ELSE f[k - 1]]

LEMMA BestExists ==
  ASSUME NEW family, NEW variants, NEW score, NEW n \in Nat
  PROVE  LET best == BestOf(family, variants, score, n) IN
         best = [k \in 0..n |->
           IF k = 0 THEN NoVariant
           ELSE IF variants[k] \in family /\ (best[k - 1] = NoVariant \/ Nearer(variants[k], best[k - 1], score))
                THEN variants[k] ELSE best[k - 1]]
<1> DEFINE After(v, b) == IF v \in family /\ (b = NoVariant \/ Nearer(v, b, score)) THEN v ELSE b
           Solves(f, m) == f = [k \in 0..m |-> IF k = 0 THEN NoVariant ELSE After(variants[k], f[k - 1])]
           Fails == {m \in Nat : ~\E f : Solves(f, m)}
<1> HIDE DEF After
<1>1. Fails = {}
  <2>1. SUFFICES ASSUME Fails # {} PROVE FALSE OBVIOUS
  <2>2. PICK m \in Fails : \A i \in Fails : m <= i BY <2>1, LeastNatural
  <2>3. CASE m = 0
    <3>1. Solves([k \in 0..0 |-> NoVariant], 0) OBVIOUS
    <3> QED BY <3>1, <2>3
  <2>4. CASE m # 0
    <3> m \in Nat OBVIOUS
    <3> HIDE DEF Fails
    <3>1. m - 1 \in Nat /\ m - 1 \notin Fails BY <2>2, <2>4
    <3>2. PICK g : Solves(g, m - 1) BY <3>1 DEF Fails
    <3> DEFINE f == [k \in 0..m |-> IF k = m THEN After(variants[m], g[m - 1]) ELSE g[k]]
    <3>3. \A k \in 0..m : f[k] = IF k = 0 THEN NoVariant ELSE After(variants[k], f[k - 1])
      <4>1. TAKE k \in 0..m
      <4>2. CASE k = 0 BY <4>2, <3>2, <2>4
      <4>3. CASE k # 0 /\ k = m BY <4>3
      <4>4. CASE k # 0 /\ k # m
        <5>1. k \in 0..(m - 1) /\ k - 1 \in 0..(m - 1) BY <4>4
        <5>2. g[k] = After(variants[k], g[k - 1]) BY <5>1, <3>2, <4>4
        <5> QED BY <5>1, <5>2, <4>4
      <4> QED BY <4>2, <4>3, <4>4
    <3> HIDE DEF f
    <3>4. DOMAIN f = 0..m BY DEF f
    <3>5. f = [k \in 0..m |-> f[k]] BY DEF f
    <3>6. Solves(f, m) BY <3>3, <3>5
    <3> QED BY <3>6 DEF Fails
  <2> QED BY <2>3, <2>4
<1>2. \E f : Solves(f, n) BY <1>1
<1> QED BY <1>2, Zenon DEF BestOf, After

(* Going through the catalogue finds the nearest variant of the family: it
   is found as soon as one of them has been seen, and it is the nearest of
   those seen.                                                             *)
Ranked(family, score) ==
  /\ NoVariant \notin family
  /\ \A v \in family : score[v] \in Nat /\ v.order \in Nat
  /\ \A v, w \in family : v.order = w.order => v = w
Before(v, w, score) == score[v] < score[w] \/ (score[v] = score[w] /\ v.order < w.order)

LEMMA NearestFound ==
  ASSUME NEW family, NEW variants, Len(variants) \in Nat, DOMAIN variants = 1..Len(variants),
         NEW score, Ranked(family, score), family # {}, family \subseteq Range(variants)
  PROVE  LET b == NearestOf(family, variants, score) IN
         /\ b \in family
         /\ \A v \in family \ {b} : Before(b, v, score)
<1> DEFINE n == Len(variants)
           best == BestOf(family, variants, score, n)
           Seen(k) == {v \in family : \E i \in 1..k : v = variants[i]}
           Good(k) == IF Seen(k) = {} THEN best[k] = NoVariant
                      ELSE best[k] \in Seen(k) /\ \A v \in Seen(k) \ {best[k]} : Before(best[k], v, score)
           Bad == {k \in 0..n : ~Good(k)}
<1>1. best = [k \in 0..n |->
        IF k = 0 THEN NoVariant
        ELSE IF variants[k] \in family /\ (best[k - 1] = NoVariant \/ Nearer(variants[k], best[k - 1], score))
             THEN variants[k] ELSE best[k - 1]]
  BY BestExists
<1>2. NearestOf(family, variants, score) = best[n] BY DEF NearestOf, BestOf
<1> HIDE DEF best
<1>3. Bad = {}
  <2> SUFFICES ASSUME Bad # {} PROVE FALSE OBVIOUS
  <2>0. Bad \subseteq Nat OBVIOUS
  <2>1. PICK k \in Bad : \A i \in Bad : k <= i BY <2>0, LeastNatural
  <2>2. k \in 0..n /\ ~Good(k) OBVIOUS
  <2>3. k # 0
    <3>1. Seen(0) = {} OBVIOUS
    <3>2. best[0] = NoVariant BY <1>1
    <3> QED BY <3>1, <3>2, <2>2
  <2>4. k - 1 \in 0..n /\ Good(k - 1) BY <2>1, <2>2, <2>3
  <2> DEFINE v == variants[k]
             b == best[k - 1]
  <2>5. best[k] = IF v \in family /\ (b = NoVariant \/ Nearer(v, b, score)) THEN v ELSE b
    BY <1>1, <2>2, <2>3
  <2>6. Seen(k) = IF v \in family THEN Seen(k - 1) \cup {v} ELSE Seen(k - 1)
    BY <2>2, <2>3
  <2>7. Seen(k - 1) \subseteq family OBVIOUS
  <2> HIDE DEF Seen, v, b
  <2>8. CASE v \notin family BY <2>2, <2>4, <2>5, <2>6, <2>8 DEF b
  <2>9. CASE v \in family /\ Seen(k - 1) = {} BY <2>2, <2>4, <2>5, <2>6, <2>9 DEF b
  <2>10. CASE v \in family /\ Seen(k - 1) # {}
    <3>1. b \in family /\ b # NoVariant /\ \A w \in Seen(k - 1) \ {b} : Before(b, w, score)
      BY <2>4, <2>7, <2>10 DEF b, Ranked
    <3>2. b \in Seen(k - 1) BY <2>4, <2>10 DEF b
    <3>3. CASE Nearer(v, b, score)
      <4>1. best[k] = v BY <2>5, <3>3, <2>10
      <4>2. ASSUME NEW w \in Seen(k) \ {v} PROVE Before(v, w, score)
        <5>1. w \in family /\ (w = b \/ Before(b, w, score))
          BY <2>6, <2>7, <2>10, <3>1
        <5> QED BY <5>1, <3>1, <3>3, <2>10 DEF Before, Nearer, Ranked
      <4> QED BY <4>1, <4>2, <2>2, <2>6, <2>10
    <3>4. CASE ~Nearer(v, b, score)
      <4>1. best[k] = b BY <2>5, <3>4, <3>1
      <4>2. v = b \/ Before(b, v, score)
        BY <3>1, <3>4, <2>10 DEF Before, Nearer, Ranked
      <4> QED BY <4>1, <4>2, <2>2, <2>6, <2>10, <3>1, <3>2
    <3> QED BY <3>3, <3>4
  <2> QED BY <2>8, <2>9, <2>10
<1>4. Good(n) BY <1>3
<1>5. Seen(n) = family BY DEF Range
<1> QED BY <1>2, <1>4, <1>5

(* No family's name begins like one that an id is compared with before it. *)
LEMMA PrefixAgrees ==
  ASSUME NEW S, NEW s \in Seq(S), NEW t \in Seq(S), IsPrefix(s, t)
  PROVE  Len(s) <= Len(t) /\ \A k \in 1..Len(s) : s[k] = t[k]
<1> USE DEF IsPrefix
<1>1. \A k \in 1..Len(s) : SubSeq(s, 1, Len(s))[k] = s[k] /\ SubSeq(t, 1, Len(s))[k] = t[k]
  OBVIOUS
<1> QED BY <1>1

(* The parts of the families' names that tell them apart.                  *)
Lengths == <<4, 3, 3, 3, 3, 3, 3, 3, 2, 3, 2, 3, 2, 2>>
Makers == <<
  "nano", "sora2", "veo31", "veo31", "seedance20", "nano", "nano", "gpt",
  "sora2", "gemini", "veo31", "kling", "kling3", "seedance20" >>
Makes == <<
  "banana", "pro", "ref", "fast", "fast", "banana2", "banana", "image",
  "none", "omni", "none", "o3", "none", "none" >>

Words == {"firefly", "banana", "banana2", "fast", "gemini", "gpt", "image", "kling", "kling3",
          "nano", "o3", "omni", "pro", "ref", "seedance20", "sora2", "veo31"}

LEMMA FireflyParts ==
  ASSUME NEW s \in Seq(Words)
  PROVE  /\ Firefly(s) \in Seq(Words) /\ Len(Firefly(s)) = Len(s) + 1
         /\ Len(s) >= 1 => Firefly(s)[2] = s[1]
         /\ Len(s) >= 2 => Firefly(s)[3] = s[2]
<1>1. \A S : \A t \in Seq(S), c \in S :
        /\ <<c>> \o t \in Seq(S) /\ Len(<<c>> \o t) = Len(t) + 1
        /\ \A k \in 1..Len(t) : (<<c>> \o t)[k + 1] = t[k]
  OBVIOUS
<1>2. "firefly" \in Words BY DEF Words
<1>3. /\ Firefly(s) \in Seq(Words) /\ Len(Firefly(s)) = Len(s) + 1
      /\ \A k \in 1..Len(s) : Firefly(s)[k + 1] = s[k]
  BY <1>1, <1>2 DEF Firefly
<1>4. \A k \in 1..Len(s), j \in Nat : j = k + 1 => Firefly(s)[j] = s[k] BY <1>3
<1> QED BY <1>3, <1>4

LEMMA Parts1 ==
  ASSUME NEW a \in Words
  PROVE  /\ Firefly(<<a>>) \in Seq(Words) /\ Len(Firefly(<<a>>)) = 2
         /\ Firefly(<<a>>)[2] = a
<1> DEFINE s == <<a>>
<1>1. s \in Seq(Words) /\ Len(s) = 1 /\ s[1] = a OBVIOUS
<1> HIDE DEF s
<1>2. /\ Firefly(s) \in Seq(Words) /\ Len(Firefly(s)) = Len(s) + 1
      /\ Len(s) >= 1 => Firefly(s)[2] = s[1]
      /\ Len(s) >= 2 => Firefly(s)[3] = s[2]
  BY <1>1, FireflyParts
<1>3. Firefly(s) \in Seq(Words) /\ Len(Firefly(s)) = 2 /\ Firefly(s)[2] = a
  BY <1>1, <1>2
<1> QED BY <1>3 DEF s

LEMMA Parts2 ==
  ASSUME NEW a \in Words, NEW b \in Words
  PROVE  /\ Firefly(<<a, b>>) \in Seq(Words) /\ Len(Firefly(<<a, b>>)) = 3
         /\ Firefly(<<a, b>>)[2] = a /\ Firefly(<<a, b>>)[3] = b
<1> DEFINE s == <<a, b>>
<1>1. s \in Seq(Words) /\ Len(s) = 2 /\ s[1] = a /\ s[2] = b OBVIOUS
<1> HIDE DEF s
<1>2. /\ Firefly(s) \in Seq(Words) /\ Len(Firefly(s)) = Len(s) + 1
      /\ Len(s) >= 1 => Firefly(s)[2] = s[1]
      /\ Len(s) >= 2 => Firefly(s)[3] = s[2]
  BY <1>1, FireflyParts
<1>3. Firefly(s) \in Seq(Words) /\ Len(Firefly(s)) = 3 /\ Firefly(s)[2] = a /\ Firefly(s)[3] = b
  BY <1>1, <1>2
<1> QED BY <1>3 DEF s

LEMMA Parts3 ==
  ASSUME NEW a \in Words, NEW b \in Words, NEW c \in Words
  PROVE  /\ Firefly(<<a, b, c>>) \in Seq(Words) /\ Len(Firefly(<<a, b, c>>)) = 4
         /\ Firefly(<<a, b, c>>)[2] = a /\ Firefly(<<a, b, c>>)[3] = b
<1> DEFINE s == <<a, b, c>>
<1>1. s \in Seq(Words) /\ Len(s) = 3 /\ s[1] = a /\ s[2] = b OBVIOUS
<1> HIDE DEF s
<1>2. /\ Firefly(s) \in Seq(Words) /\ Len(Firefly(s)) = Len(s) + 1
      /\ Len(s) >= 1 => Firefly(s)[2] = s[1]
      /\ Len(s) >= 2 => Firefly(s)[3] = s[2]
  BY <1>1, FireflyParts
<1>3. Firefly(s) \in Seq(Words) /\ Len(Firefly(s)) = 4 /\ Firefly(s)[2] = a /\ Firefly(s)[3] = b
  BY <1>1, <1>2
<1> QED BY <1>3 DEF s

LEMMA FamilyParts ==
  ASSUME NEW i \in 1..14
  PROVE  /\ MatchOrder[i] \in Seq(Words) /\ Len(MatchOrder[i]) = Lengths[i]
         /\ MatchOrder[i][2] = Makers[i]
         /\ Lengths[i] > 2 => MatchOrder[i][3] = Makes[i]
<1>1. CASE i = 1
  <2>1. MatchOrder[i] = Firefly(<<"nano", "banana", "pro">>) BY <1>1 DEF MatchOrder
  <2>2. "nano" \in Words /\ "banana" \in Words /\ "pro" \in Words BY DEF Words
  <2> QED BY <1>1, <2>1, <2>2, Parts3 DEF Lengths, Makers, Makes
<1>2. CASE i = 2
  <2>1. MatchOrder[i] = Firefly(<<"sora2", "pro">>) BY <1>2 DEF MatchOrder
  <2>2. "sora2" \in Words /\ "pro" \in Words BY DEF Words
  <2> QED BY <1>2, <2>1, <2>2, Parts2 DEF Lengths, Makers, Makes
<1>3. CASE i = 3
  <2>1. MatchOrder[i] = Firefly(<<"veo31", "ref">>) BY <1>3 DEF MatchOrder
  <2>2. "veo31" \in Words /\ "ref" \in Words BY DEF Words
  <2> QED BY <1>3, <2>1, <2>2, Parts2 DEF Lengths, Makers, Makes
<1>4. CASE i = 4
  <2>1. MatchOrder[i] = Firefly(<<"veo31", "fast">>) BY <1>4 DEF MatchOrder
  <2>2. "veo31" \in Words /\ "fast" \in Words BY DEF Words
  <2> QED BY <1>4, <2>1, <2>2, Parts2 DEF Lengths, Makers, Makes
<1>5. CASE i = 5
  <2>1. MatchOrder[i] = Firefly(<<"seedance20", "fast">>) BY <1>5 DEF MatchOrder
  <2>2. "seedance20" \in Words /\ "fast" \in Words BY DEF Words
  <2> QED BY <1>5, <2>1, <2>2, Parts2 DEF Lengths, Makers, Makes
<1>6. CASE i = 6
  <2>1. MatchOrder[i] = Firefly(<<"nano", "banana2">>) BY <1>6 DEF MatchOrder
  <2>2. "nano" \in Words /\ "banana2" \in Words BY DEF Words
  <2> QED BY <1>6, <2>1, <2>2, Parts2 DEF Lengths, Makers, Makes
<1>7. CASE i = 7
  <2>1. MatchOrder[i] = Firefly(<<"nano", "banana">>) BY <1>7 DEF MatchOrder
  <2>2. "nano" \in Words /\ "banana" \in Words BY DEF Words
  <2> QED BY <1>7, <2>1, <2>2, Parts2 DEF Lengths, Makers, Makes
<1>8. CASE i = 8
  <2>1. MatchOrder[i] = Firefly(<<"gpt", "image">>) BY <1>8 DEF MatchOrder
  <2>2. "gpt" \in Words /\ "image" \in Words BY DEF Words
  <2> QED BY <1>8, <2>1, <2>2, Parts2 DEF Lengths, Makers, Makes
<1>9. CASE i = 9
  <2>1. MatchOrder[i] = Firefly(<<"sora2">>) BY <1>9 DEF MatchOrder
  <2>2. "sora2" \in Words BY DEF Words
  <2> QED BY <1>9, <2>1, <2>2, Parts1 DEF Lengths, Makers, Makes
<1>10. CASE i = 10
  <2>1. MatchOrder[i] = Firefly(<<"gemini", "omni">>) BY <1>10 DEF MatchOrder
  <2>2. "gemini" \in Words /\ "omni" \in Words BY DEF Words
  <2> QED BY <1>10, <2>1, <2>2, Parts2 DEF Lengths, Makers, Makes
<1>11. CASE i = 11
  <2>1. MatchOrder[i] = Firefly(<<"veo31">>) BY <1>11 DEF MatchOrder
  <2>2. "veo31" \in Words BY DEF Words
  <2> QED BY <1>11, <2>1, <2>2, Parts1 DEF Lengths, Makers, Makes
<1>12. CASE i = 12
  <2>1. MatchOrder[i] = Firefly(<<"kling", "o3">>) BY <1>12 DEF MatchOrder
  <2>2. "kling" \in Words /\ "o3" \in Words BY DEF Words
  <2> QED BY <1>12, <2>1, <2>2, Parts2 DEF Lengths, Makers, Makes
<1>13. CASE i = 13
  <2>1. MatchOrder[i] = Firefly(<<"kling3">>) BY <1>13 DEF MatchOrder
  <2>2. "kling3" \in Words BY DEF Words
  <2> QED BY <1>13, <2>1, <2>2, Parts1 DEF Lengths, Makers, Makes
<1>14. CASE i = 14
  <2>1. MatchOrder[i] = Firefly(<<"seedance20">>) BY <1>14 DEF MatchOrder
  <2>2. "seedance20" \in Words BY DEF Words
  <2> QED BY <1>14, <2>1, <2>2, Parts1 DEF Lengths, Makers, Makes
<1> QED
  BY <1>1, <1>2, <1>3, <1>4, <1>5, <1>6, <1>7, <1>8, <1>9, <1>10, <1>11, <1>12, <1>13, <1>14

LEMMA NoEarlierPrefix ==
  ASSUME NEW i \in 1..14, NEW j \in 1..14, j < i
  PROVE  ~IsPrefix(MatchOrder[j], MatchOrder[i])
<1> SUFFICES ASSUME IsPrefix(MatchOrder[j], MatchOrder[i]) PROVE FALSE OBVIOUS
<1>1. /\ Len(MatchOrder[j]) <= Len(MatchOrder[i])
      /\ \A k \in 1..Len(MatchOrder[j]) : MatchOrder[j][k] = MatchOrder[i][k]
  <2> DEFINE earlier == MatchOrder[j]
             later == MatchOrder[i]
  <2>1. earlier \in Seq(Words) /\ later \in Seq(Words) /\ IsPrefix(earlier, later)
    BY FamilyParts
  <2> HIDE DEF earlier, later
  <2>2. Len(earlier) <= Len(later) /\ \A k \in 1..Len(earlier) : earlier[k] = later[k]
    BY <2>1, PrefixAgrees
  <2> QED BY <2>2 DEF earlier, later
<1>2. /\ Lengths[j] <= Lengths[i] /\ Makers[j] = Makers[i]
      /\ Lengths[j] > 2 => Makes[j] = Makes[i]
  <2>1. \A k \in 1..14 : Lengths[k] \in 2..4 BY DEF Lengths
  <2>2. \A k \in 1..14 :
          /\ Len(MatchOrder[k]) = Lengths[k] /\ MatchOrder[k][2] = Makers[k]
          /\ Lengths[k] > 2 => MatchOrder[k][3] = Makes[k]
    BY FamilyParts
  <2>3. Lengths[j] <= Lengths[i] BY <1>1, <2>2
  <2>4. 2 \in 1..Len(MatchOrder[j]) /\ (Lengths[j] > 2 => 3 \in 1..Len(MatchOrder[j]))
    <3>1. Len(MatchOrder[j]) = Lengths[j] /\ Lengths[j] \in 2..4 BY <2>1, <2>2
    <3> QED BY <3>1
  <2>5. /\ MatchOrder[j][2] = MatchOrder[i][2]
        /\ Lengths[j] > 2 => MatchOrder[j][3] = MatchOrder[i][3]
    BY <1>1, <2>4
  <2>6. Lengths[j] > 2 => Lengths[i] > 2 BY <2>1, <2>3
  <2> QED BY <2>2, <2>3, <2>4, <2>5, <2>6
<1>3. CASE i \in 1..5 BY <1>2, <1>3 DEF Lengths, Makers, Makes
<1>4. CASE i \in 6..8 BY <1>2, <1>4 DEF Lengths, Makers, Makes
<1>5. CASE i \in 9..11 BY <1>2, <1>5 DEF Lengths, Makers, Makes
<1>6. CASE i \in 12..14 BY <1>2, <1>6 DEF Lengths, Makers, Makes
<1> QED BY <1>3, <1>4, <1>5, <1>6

LEMMA CanonicalTwice ==
  ASSUME NEW id
  PROVE  CanonicalAdobeModelID(CanonicalAdobeModelID(id)) = CanonicalAdobeModelID(id)
<1> DEFINE first(s) == {k \in 1..Len(MatchOrder) : IsPrefix(MatchOrder[k], s)}
<1>0. \A s : CanonicalAdobeModelID(s) = IF first(s) = {} THEN s ELSE MatchOrder[Min(first(s))]
  <2>1. \A s : first(s) # {} => Min(first(s)) \in Nat \ {0} BY MinOf
  <2> QED BY <2>1 DEF CanonicalAdobeModelID, SelectInSeq
<1>1. Len(MatchOrder) = 14 BY DEF MatchOrder
<1>2. CASE first(id) = {} BY <1>0, <1>2
<1>3. CASE first(id) # {}
  <2> DEFINE i == Min(first(id))
  <2>1. i \in 1..14 BY <1>1, <1>3, MinOf
  <2>2. i \in first(MatchOrder[i])
    <3> HIDE DEF i
    <3>1. IsPrefix(MatchOrder[i], MatchOrder[i]) BY <2>1, FamilyParts DEF IsPrefix
    <3> QED BY <3>1, <2>1, <1>1
  <2>3. \A j \in first(MatchOrder[i]) : i <= j BY <2>1, <1>1, NoEarlierPrefix
  <2>4. Min(first(MatchOrder[i])) = i
    <3> HIDE DEF i
    <3>1. first(MatchOrder[i]) \subseteq Nat OBVIOUS
    <3>2. Min(first(MatchOrder[i])) \in first(MatchOrder[i]) /\ Min(first(MatchOrder[i])) <= i
      BY <2>2, <3>1, MinOf
    <3> QED BY <3>1, <3>2, <2>3, <2>1
  <2> QED BY <2>2, <2>4, <1>0, <1>3
<1> QED BY <1>2, <1>3

(* Distances tell the resolutions apart, also from the usual ones, and the
   ratios, from 16:9 at least: 3:4 is as far from 1:1 as 4:3.              *)
LEMMA Measures ==
  /\ \A r \in Resolutions : Ln[r] \in Nat
  /\ \A r, s \in Resolutions : Ln[r] = Ln[s] => r = s
  /\ \A r, s \in Resolutions : \A u \in {"720p", "1k"} :
       Distance(Ln[r], Ln[u]) = Distance(Ln[s], Ln[u]) => r = s
<1> USE DEF Ln, Resolutions, Distance
<1>1. \A r \in Resolutions : Ln[r] \in Nat OBVIOUS
<1>2. \A r, s \in Resolutions : Ln[r] = Ln[s] => r = s OBVIOUS
<1>3. \A r, s \in Resolutions : Distance(Ln[r], Ln["720p"]) = Distance(Ln[s], Ln["720p"]) => r = s
  OBVIOUS
<1>4. \A r, s \in Resolutions : Distance(Ln[r], Ln["1k"]) = Distance(Ln[s], Ln["1k"]) => r = s
  OBVIOUS
<1> QED BY <1>1, <1>2, <1>3, <1>4

LEMMA RatioMeasures ==
  /\ \A r \in DOMAIN LnRatio : LnRatio[r] \in Int
  /\ \A r, s \in DOMAIN LnRatio : LnRatio[r] = LnRatio[s] => r = s
  /\ \A r, s \in DOMAIN LnRatio :
       Distance(LnRatio[r], LnRatio[<<16, 9>>]) = Distance(LnRatio[s], LnRatio[<<16, 9>>]) => r = s
  /\ {<<1, 1>>, <<16, 9>>} \subseteq DOMAIN LnRatio /\ <<>> \notin DOMAIN LnRatio
  /\ \A r \in DOMAIN LnRatio : Len(r) = 2
<1> USE DEF LnRatio, Distance
<1>1. \A r \in DOMAIN LnRatio : LnRatio[r] \in Int OBVIOUS
<1>2. \A r, s \in DOMAIN LnRatio : LnRatio[r] = LnRatio[s] => r = s OBVIOUS
<1>3. \A r, s \in DOMAIN LnRatio :
       Distance(LnRatio[r], LnRatio[<<16, 9>>]) = Distance(LnRatio[s], LnRatio[<<16, 9>>]) => r = s
         OBVIOUS
<1>4. {<<1, 1>>, <<16, 9>>} \subseteq DOMAIN LnRatio OBVIOUS
<1>5. \A r \in DOMAIN LnRatio : Len(r) = 2 OBVIOUS
<1>6. <<>> \notin DOMAIN LnRatio BY <1>5
<1> QED BY <1>1, <1>2, <1>3, <1>4, <1>5, <1>6

LEMMA BlankIsNone == Blank \notin Resolutions
BY Zenon DEF Blank, Resolutions

LEMMA AskedDuration ==
  ASSUME NEW req, Measurable(req), NEW media
  PROVE  /\ RequestedAdobeDuration(req, media) \in Nat
         /\ RequestedAdobeDuration(req, media) > 0 <=> media = "video"
<1> DEFINE s == req.durations
           saying == {i \in 1..Len(s) : s[i] > 0}
<1>1. s \in Seq(Nat) BY DEF Measurable
<1>2. saying # {} => Min(saying) \in saying /\ Min(saying) # 0
  <2>1. saying \subseteq Nat \ {0} OBVIOUS
  <2> HIDE DEF saying
  <2> QED BY <2>1, MinOf
<1>3. media = "video" =>
        RequestedAdobeDuration(req, media) = IF saying = {} THEN 6 ELSE s[Min(saying)]
  BY <1>2 DEF RequestedAdobeDuration, FirstOf, SelectInSeq
<1>4. saying # {} => s[Min(saying)] \in Nat /\ s[Min(saying)] > 0
  <2> SUFFICES ASSUME NEW i \in saying PROVE s[i] \in Nat /\ s[i] > 0 BY <1>2
  <2> QED BY <1>1
<1> HIDE DEF s, saying
<1>5. media = "video" => RequestedAdobeDuration(req, media) \in Nat \ {0}
  BY <1>3, <1>4
<1>6. media # "video" => RequestedAdobeDuration(req, media) = 0
  BY DEF RequestedAdobeDuration
<1> QED BY <1>5, <1>6

LEMMA ScoreTerms ==
  ASSUME NEW v, Measured(v),
         NEW duration \in Nat, NEW resolution \in Resolutions, NEW aspect \in DOMAIN LnRatio
  PROVE  /\ DurationScore(v, duration) \in Nat
         /\ ResolutionScore(v, resolution) \in Nat
         /\ AspectScore(v, aspect) \in Nat
         /\ AdobeVariantScore(v, duration, resolution, aspect) \in Nat
<1>1. DurationScore(v, duration) \in Nat
  <2>1. v.duration \in Nat BY DEF Measured
  <2>2. Distance(v.duration, duration) \in Nat BY <2>1 DEF Distance
  <2> QED BY <2>2 DEF DurationScore
<1>2. ResolutionScore(v, resolution) \in Nat
  <2>1. v.resolution # Blank => Ln[v.resolution] \in Nat /\ Ln[resolution] \in Nat
    BY Measures DEF Measured
  <2>2. v.resolution # Blank => Distance(Ln[v.resolution], Ln[resolution]) \in Nat
    BY <2>1 DEF Distance
  <2> QED BY <2>2 DEF ResolutionScore
<1>3. AspectScore(v, aspect) \in Nat
  <2>1. LnRatio[v.aspect] \in Int /\ LnRatio[aspect] \in Int
    BY RatioMeasures DEF Measured
  <2>2. Distance(LnRatio[v.aspect], LnRatio[aspect]) \in Nat BY <2>1 DEF Distance
  <2> QED BY <2>2 DEF AspectScore
<1> QED BY <1>1, <1>2, <1>3 DEF AdobeVariantScore

(* What is selected is a variant of the family, and the nearest.           *)
Far(v, req, media) ==
  AdobeVariantScore(v, RequestedAdobeDuration(req, media), RequestedAdobeResolution(req, media),
                    RequestedAdobeAspect(req, media))
LEMMA SelectsNearest ==
  ASSUME NEW listed, WellListed(listed), NEW req, Measurable(req), NEW asked \in Range(listed),
         NEW out, out = SelectAdobeModelVariant(listed, asked.family, asked.media, req)
  PROVE  /\ out \in Kin(listed, asked)
         /\ \A v \in Kin(listed, asked) \ {out} :
              \/ Far(out, req, asked.media) < Far(v, req, asked.media)
              \/ /\ Far(out, req, asked.media) = Far(v, req, asked.media)
                 /\ out.order < v.order
<1> DEFINE family == {v \in Range(listed) :
                       v.family = CanonicalAdobeModelID(asked.family) /\ v.media = asked.media}
           named == {v \in Range(listed) : v.id = asked.family}
           score == [v \in family |-> Far(v, req, asked.media)]
<1>1. CanonicalAdobeModelID(asked.family) = asked.family
  BY CanonicalTwice DEF WellListed
<1>2. family = Kin(listed, asked) BY <1>1 DEF Kin
<1>3. out = IF named # {} THEN LET v == CHOOSE v \in named : TRUE IN
                               IF v.media = asked.media THEN v ELSE NoVariant
            ELSE NearestOf(family, listed, score)
  BY Zenon DEF SelectAdobeModelVariant, Far
<1> HIDE DEF family
<1>4. asked \in family BY <1>2 DEF Kin
<1>5. CASE named # {}
  <2>1. named = {asked} BY <1>5 DEF WellListed
  <2>2. \A v \in family : v = asked
    <3> TAKE v \in family
    <3>1. asked.id = v.family /\ v \in Range(listed) BY <2>1, <1>2 DEF Kin
    <3> QED BY <3>1 DEF WellListed
  <2>3. out = asked BY <1>3, <2>1
  <2> QED BY <1>2, <1>4, <2>2, <2>3
<1>6. CASE named = {}
  <2>1. \A v \in family : Far(v, req, asked.media) \in Nat
    <3> TAKE v \in family
    <3>1. Measured(v) /\ asked.media \in {"image", "video"}
      BY <1>2 DEF Kin, WellListed
    <3> QED BY <3>1, AskedDuration, ScoreTerms DEF Far, Measurable
  <2>2. Ranked(family, score)
    <3>1. NoVariant \notin family BY <1>2 DEF Kin, WellListed, NoVariant
    <3>2. \A v \in family : score[v] \in Nat /\ v.order \in Nat
      BY <2>1, <1>2 DEF Kin, WellListed
    <3>3. \A v, w \in family : v.order = w.order => v = w
      BY <1>2 DEF Kin, WellListed
    <3> QED BY <3>1, <3>2, <3>3 DEF Ranked
  <2>3. out = NearestOf(family, listed, score) BY <1>3, <1>6
  <2>4. family \subseteq Range(listed) BY <1>2 DEF Kin
  <2> HIDE DEF score
  <2>5. out \in family /\ \A v \in family \ {out} : Before(out, v, score)
    <3>1. Len(listed) \in Nat /\ DOMAIN listed = 1..Len(listed) BY DEF WellListed
    <3> QED BY <3>1, <2>2, <2>3, <2>4, <1>4, NearestFound
  <2> QED BY <1>2, <2>5 DEF Before, score
<1> QED BY <1>2, <1>5, <1>6

(* No variant of the family is nearer than the one that is selected.       *)
LEMMA NoneNearer ==
  ASSUME NEW listed, WellListed(listed), NEW req, Measurable(req), NEW asked \in Range(listed),
         NEW out, out = SelectAdobeModelVariant(listed, asked.family, asked.media, req),
         NEW v \in Kin(listed, asked)
  PROVE  /\ Measured(out) /\ out.media = asked.media /\ (out.duration > 0 <=> asked.media = "video")
         /\ Measured(v) /\ v.media = asked.media /\ (v.duration > 0 <=> asked.media = "video")
         /\ asked.media \in {"image", "video"}
         /\ Far(out, req, asked.media) \in Nat /\ Far(v, req, asked.media) \in Nat
         /\ Far(out, req, asked.media) <= Far(v, req, asked.media)
<1> DEFINE media == asked.media
<1>1. out \in Kin(listed, asked) BY SelectsNearest
<1>2. v = out \/ Far(out, req, media) < Far(v, req, media) \/ Far(out, req, media) = Far(v, req, media)
  BY SelectsNearest
<1>3. ASSUME NEW w \in Kin(listed, asked)
      PROVE  /\ Measured(w) /\ w.media = media /\ (w.duration > 0 <=> media = "video")
             /\ media \in {"image", "video"} /\ Far(w, req, media) \in Nat
  <2>1. /\ Measured(w) /\ w.media = media /\ (w.duration > 0 <=> media = "video")
        /\ media \in {"image", "video"}
    BY DEF Kin, WellListed
  <2> QED BY <2>1, AskedDuration, ScoreTerms DEF Far, Measurable
<1>4. Far(out, req, media) \in Nat /\ Far(v, req, media) \in Nat BY <1>1, <1>3
<1> HIDE DEF media
<1>5. Far(out, req, media) <= Far(v, req, media) BY <1>2, <1>4
<1> QED BY <1>1, <1>3, <1>4, <1>5 DEF media

(* A variant with the options that are wanted is at distance 0, and no     *)
(* other is.                                                               *)
LEMMA ZeroMeansExact ==
  ASSUME NEW v, Measured(v), NEW media \in {"image", "video"}, v.duration > 0 <=> media = "video",
         NEW req, Measurable(req)
  PROVE  Far(v, req, media) = 0 <=> Options(v) = Wanted(req, media)
<1> DEFINE d == RequestedAdobeDuration(req, media)
           r == RequestedAdobeResolution(req, media)
           a == RequestedAdobeAspect(req, media)
<1>1. d \in Nat /\ r \in Resolutions /\ a \in DOMAIN LnRatio
  BY AskedDuration DEF Measurable
<1>2. d > 0 <=> media = "video" BY AskedDuration
<1>3. Options(v) = Wanted(req, media) <=> v.duration = d /\ v.resolution = r /\ v.aspect = a
  BY DEF Options, Wanted
<1>4. Far(v, req, media) = DurationScore(v, d) + ResolutionScore(v, r) + AspectScore(v, a)
  BY DEF Far, AdobeVariantScore
<1> HIDE DEF d, r, a
<1>5. DurationScore(v, d) \in Nat /\ ResolutionScore(v, r) \in Nat /\ AspectScore(v, a) \in Nat
  BY <1>1, ScoreTerms
<1>6. v.duration \in Nat /\ v.resolution \in Resolutions \cup {Blank} /\ v.aspect \in DOMAIN LnRatio
  BY DEF Measured
<1>7. DurationScore(v, d) = 0 <=> v.duration = d
  <2>1. CASE media = "video"
    <3>1. d > 0 /\ v.duration > 0 BY <1>2, <2>1
    <3> QED BY <3>1, <1>1, <1>6 DEF DurationScore, Distance
  <2>2. CASE media # "video"
    <3>1. d = 0 /\ v.duration = 0 BY <1>1, <1>2, <1>6, <2>2
    <3> QED BY <3>1 DEF DurationScore
  <2> QED BY <2>1, <2>2
<1>8. ResolutionScore(v, r) = 0 <=> v.resolution = r
  <2>1. CASE v.resolution = Blank BY <2>1, <1>1, BlankIsNone DEF ResolutionScore
  <2>2. CASE v.resolution # Blank
    <3>1. Ln[v.resolution] \in Nat /\ Ln[r] \in Nat /\ (Ln[v.resolution] = Ln[r] <=> v.resolution = r)
      BY <1>1, <1>6, <2>2, Measures
    <3> QED BY <3>1, <2>2 DEF ResolutionScore, Distance
  <2> QED BY <2>1, <2>2
<1>9. AspectScore(v, a) = 0 <=> v.aspect = a
  <2>1. LnRatio[v.aspect] \in Int /\ LnRatio[a] \in Int /\ (LnRatio[v.aspect] = LnRatio[a] <=> v.aspect = a)
    BY <1>1, <1>6, RatioMeasures
  <2>2. v.aspect # <<>> BY <1>6, RatioMeasures
  <2> QED BY <2>1, <2>2 DEF AspectScore, Distance
<1>10. Far(v, req, media) = 0 <=>
         DurationScore(v, d) = 0 /\ ResolutionScore(v, r) = 0 /\ AspectScore(v, a) = 0
  BY <1>4, <1>5
<1> QED BY <1>3, <1>7, <1>8, <1>9, <1>10

(* A clip that is too short is farther than one that is long enough and as *)
(* near.                                                                   *)
LEMMA TooShortIsFarther ==
  ASSUME NEW out, Measured(out), NEW v, Measured(v), NEW media \in {"image", "video"},
         out.duration > 0 <=> media = "video", v.duration > 0 <=> media = "video",
         NEW req, Measurable(req),
         v.resolution = out.resolution, v.aspect = out.aspect,
         out.duration < RequestedAdobeDuration(req, media),
         RequestedAdobeDuration(req, media) <= v.duration,
         Distance(v.duration, RequestedAdobeDuration(req, media))
           <= Distance(out.duration, RequestedAdobeDuration(req, media))
  PROVE  ~(Far(out, req, media) <= Far(v, req, media))
<1> DEFINE d == RequestedAdobeDuration(req, media)
           r == RequestedAdobeResolution(req, media)
           a == RequestedAdobeAspect(req, media)
<1>1. d \in Nat /\ r \in Resolutions /\ a \in DOMAIN LnRatio
  BY AskedDuration DEF Measurable
<1>2. /\ Far(out, req, media) = DurationScore(out, d) + ResolutionScore(out, r) + AspectScore(out, a)
      /\ Far(v, req, media) = DurationScore(v, d) + ResolutionScore(v, r) + AspectScore(v, a)
  BY DEF Far, AdobeVariantScore
<1>3. out.duration < d /\ d <= v.duration /\ Distance(v.duration, d) <= Distance(out.duration, d)
  OBVIOUS
<1> HIDE DEF d, r, a
<1>4. /\ DurationScore(out, d) \in Nat /\ ResolutionScore(out, r) \in Nat /\ AspectScore(out, a) \in Nat
      /\ DurationScore(v, d) \in Nat
  BY <1>1, ScoreTerms
<1>5. ResolutionScore(v, r) = ResolutionScore(out, r) /\ AspectScore(v, a) = AspectScore(out, a)
  BY DEF ResolutionScore, AspectScore
<1>6. DurationScore(v, d) < DurationScore(out, d)
  <2>1. out.duration \in Nat /\ v.duration \in Nat BY DEF Measured
  <2>2. v.duration > 0 /\ out.duration > 0 /\ d > 0 BY <1>1, <1>3, <2>1
  <2>3. Distance(v.duration, d) \in Nat /\ Distance(out.duration, d) \in Nat
    BY <2>1, <1>1 DEF Distance
  <2> QED BY <2>1, <2>2, <2>3, <1>3, <1>1 DEF DurationScore
<1> QED BY <1>2, <1>4, <1>5, <1>6

(* What a request that says nothing asks for.                              *)
LEMMA UnstatedAsksUsual ==
  ASSUME NEW req, Measurable(req), Unstated(req), NEW media \in {"image", "video"}
  PROVE  /\ RequestedAdobeDuration(req, media) = IF media = "video" THEN 6 ELSE 0
         /\ RequestedAdobeResolution(req, media) = IF media = "image" THEN "1k" ELSE "720p"
         /\ RequestedAdobeAspect(req, media) = IF media = "image" THEN <<1, 1>> ELSE <<16, 9>>
<1>1. RequestedAdobeDuration(req, media) = IF media = "video" THEN 6 ELSE 0
  <2> DEFINE saying == {i \in 1..Len(req.durations) : req.durations[i] > 0}
  <2>1. saying = {}
    <3>1. DOMAIN req.durations = 1..Len(req.durations) BY DEF Measurable
    <3> QED BY <3>1 DEF Unstated
  <2> QED BY <2>1 DEF RequestedAdobeDuration, FirstOf, SelectInSeq
<1>2. RequestedAdobeResolution(req, media) = IF media = "image" THEN "1k" ELSE "720p"
  <2> DEFINE s == [i \in DOMAIN req.resolutions |-> NormalizeAdobeResolution(req.resolutions[i], media)]
             saying == {i \in 1..Len(s) : s[i] # Blank}
  <2>1. NormalizeAdobeResolution(Blank, media) = Blank
    <3>1. /\ Blank # "low" /\ Blank \notin {"medium", "hd"} /\ Blank # "standard" /\ Blank # "high"
          /\ Blank \notin {"1", "2", "4"} /\ Blank \notin {"480", "720", "1080"}
      BY Zenon DEF Blank
    <3>2. Blank \notin DOMAIN Ln BY BlankIsNone DEF Ln
    <3>3. Blank \in {Blank, "auto"} OBVIOUS
    <3> QED BY <3>1, <3>2, <3>3, Zenon DEF NormalizeAdobeResolution
  <2>2. Len(s) \in Nat /\ DOMAIN s = 1..Len(s)
    <3>1. Len(req.resolutions) \in Nat /\ DOMAIN req.resolutions = 1..Len(req.resolutions)
      BY DEF Measurable
    <3> QED BY <3>1
  <2>3. saying = {} BY <2>1, <2>2 DEF Unstated
  <2>4. RequestedAdobeResolution(req, media) = ResolutionOfSize(req.size, media)
    <3> HIDE DEF s
    <3>1. SelectInSeq(s, LAMBDA r : r # Blank) = 0 BY <2>3 DEF SelectInSeq
    <3> QED BY <3>1 DEF RequestedAdobeResolution, FirstOf, s
  <2> QED BY <2>4 DEF ResolutionOfSize, Unstated
<1>3. RequestedAdobeAspect(req, media) = IF media = "image" THEN <<1, 1>> ELSE <<16, 9>>
  <2> DEFINE s == [i \in DOMAIN req.ratios |-> NormalizeAdobeAspect(req.ratios[i])]
             t == s \o <<NormalizeAdobeAspect(req.size)>>
             saying == {i \in 1..Len(t) : t[i] # <<>>}
  <2>1. NormalizeAdobeAspect(<<>>) = <<>> BY DEF NormalizeAdobeAspect
  <2>2. s \in Seq({<<>>})
    <3>1. Len(req.ratios) \in Nat /\ DOMAIN req.ratios = 1..Len(req.ratios)
      BY DEF Measurable
    <3>2. \A i \in DOMAIN req.ratios : s[i] = <<>> BY <2>1 DEF Unstated
    <3>3. s \in [1..Len(req.ratios) -> {<<>>}] BY <3>1, <3>2
    <3>4. \A S : \A n \in Nat : [1..n -> S] \subseteq Seq(S) OBVIOUS
    <3> QED BY <3>1, <3>3, <3>4
  <2>3. NormalizeAdobeAspect(req.size) = <<>> BY <2>1 DEF Unstated
  <2>4. \A i \in 1..Len(t) : t[i] = <<>> BY <2>2, <2>3
  <2>5. saying = {} BY <2>4
  <2> HIDE DEF t
  <2>6. SelectInSeq(t, LAMBDA r : r # <<>>) = 0 BY <2>5 DEF SelectInSeq
  <2> QED BY <2>6 DEF RequestedAdobeAspect, FirstOf, t
<1> QED BY <1>1, <1>2, <1>3

(* The option that is closest to the target.                               *)
LEMMA ClosestIs ==
  ASSUME NEW options, options # {}, NEW target, NEW value,
         \A o \in options \cup {target} : value[o] \in Int,
         \A o, p \in options :
           Distance(value[o], value[target]) = Distance(value[p], value[target]) => o = p
  PROVE  /\ Closest(target, options, value) \in options
         /\ \A p \in options :
              Distance(value[Closest(target, options, value)], value[target])
                <= Distance(value[p], value[target])
<1> DEFINE far(o) == Distance(value[o], value[target])
           fars == {far(o) : o \in options}
<1>1. \A o \in options \cup {target} : far(o) \in Nat BY DEF Distance
<1>2. PICK n \in options : \A p \in options : far(n) <= far(p)
  <2>1. fars \subseteq Nat /\ fars # {} BY <1>1
  <2>2. \E m \in fars : \A f \in fars : m <= f BY <2>1, LeastNatural
  <2> QED BY <2>2
<1>3. CASE target \in options
  <2>1. far(target) = 0 BY <1>1 DEF Distance
  <2>2. Closest(target, options, value) = target BY <1>3 DEF Closest
  <2> HIDE DEF far
  <2>3. \A p \in options : far(target) <= far(p) BY <2>1, <1>1
  <2> QED BY <2>2, <2>3, <1>3 DEF far
<1>4. CASE target \notin options
  <2> DEFINE Best(o) == \A p \in options :
         \/ Distance(value[o], value[target]) < Distance(value[p], value[target])
         \/ Distance(value[o], value[target]) = Distance(value[p], value[target])
            /\ value[o] <= value[p]
  <2>1. Best(n)
    <3> TAKE p \in options
    <3>1. far(n) < far(p) \/ far(n) = far(p) BY <1>1, <1>2
    <3>2. far(n) = far(p) => value[n] <= value[p]
      <4>1. far(n) = far(p) => n = p OBVIOUS
      <4>2. \A x \in Int : x <= x OBVIOUS
      <4> QED BY <4>1, <4>2
    <3> QED BY <3>1, <3>2
  <2>2. Closest(target, options, value) = CHOOSE o \in options : Best(o)
    BY <1>4 DEF Closest
  <2> DEFINE c == Closest(target, options, value)
  <2>3. c \in options /\ Best(c) BY <2>1, <2>2
  <2> HIDE DEF c
  <2>4. \A p \in options : far(c) <= far(p) BY <2>3, <1>1
  <2> QED BY <2>3, <2>4 DEF c
<1> QED BY <1>3, <1>4
(* The default duration of a family is the one that a request for six      *)
(* seconds, the default request, is nearest to, and the only one.          *)
LEMMA DefaultDurationNearest ==
  ASSUME NEW options, options \subseteq Nat \ {0}, options # {}
  PROVE  /\ DefaultAdobeDuration(options) \in options
         /\ \A v, w : /\ v.duration = DefaultAdobeDuration(options)
                      /\ w.duration \in options
                      => /\ DurationScore(v, 6) <= DurationScore(w, 6)
                         /\ DurationScore(v, 6) = DurationScore(w, 6) => w.duration = v.duration
<1> DEFINE far(o) == Distance(o, 6)
           fars == {far(o) : o \in options}
           nearest == {d \in options : \A e \in options : Distance(d, 6) <= Distance(e, 6)}
<1>1. \A o \in options : far(o) \in Nat BY DEF Distance
<1>2. PICK n \in options : \A p \in options : far(n) <= far(p)
  <2>1. fars \subseteq Nat /\ fars # {} BY <1>1
  <2>2. \E m \in fars : \A f \in fars : m <= f BY <2>1, LeastNatural
  <2> QED BY <2>2
<1>3. n \in nearest BY <1>2
<1>4. \A d \in nearest : d <= n + 12
  <2> TAKE d \in nearest
  <2>1. Distance(d, 6) <= Distance(n, 6) /\ d \in Nat /\ n \in Nat OBVIOUS
  <2> QED BY <2>1 DEF Distance
<1>5. nearest \subseteq Nat /\ n + 12 \in Nat
  <2>1. nearest \subseteq options OBVIOUS
  <2> HIDE DEF nearest
  <2> QED BY <2>1
<1> HIDE DEF nearest
<1> DEFINE top == Max(nearest)
<1>6. top \in nearest /\ \A d \in nearest : d <= top BY <1>3, <1>4, <1>5, MaxOf
<1>7. DefaultAdobeDuration(options) = top BY DEF DefaultAdobeDuration, nearest
<1> HIDE DEF top
<1>8. top \in options BY <1>6 DEF nearest
<1>9. ASSUME NEW v, NEW w, v.duration = top, w.duration \in options
      PROVE  /\ DurationScore(v, 6) <= DurationScore(w, 6)
             /\ DurationScore(v, 6) = DurationScore(w, 6) => w.duration = v.duration
  <2> DEFINE e == w.duration
             Score(d) == 100000 * Distance(d, 6) + (IF d < 6 THEN 1000 ELSE 0)
  <2>1. top \in Nat \ {0} /\ e \in Nat \ {0} BY <1>8, <1>9
  <2>2. Distance(top, 6) <= Distance(e, 6) BY <1>6, <1>9 DEF nearest
  <2>3. Distance(top, 6) = Distance(e, 6) => e <= top
    <3>1. Distance(top, 6) = Distance(e, 6) => e \in nearest
      BY <1>6, <1>9 DEF nearest
    <3> QED BY <3>1, <1>6
  <2>4. DurationScore(v, 6) = Score(top) /\ DurationScore(w, 6) = Score(e)
    BY <1>9, <2>1 DEF DurationScore
  <2> HIDE DEF e
  <2>5. Score(top) <= Score(e) /\ (Score(top) = Score(e) => e = top)
    BY <2>1, <2>2, <2>3 DEF Distance
  <2> QED BY <2>4, <2>5, <1>9 DEF e
<1> QED BY <1>7, <1>8, <1>9

(* Each default is nearest on its own, so a variant with all of them is.   *)
LEMMA DefaultsNearest ==
  ASSUME NEW listed, WellListed(listed), NEW req, Measurable(req), NEW asked \in Range(listed),
         Unstated(req), NEW v \in Kin(listed, asked), NEW w \in Kin(listed, asked),
         Options(v) = Defaults(Kin(listed, asked), asked.media),
         Far(w, req, asked.media) <= Far(v, req, asked.media)
  PROVE  Options(w) = Options(v)
<1> DEFINE S == Kin(listed, asked)
           media == asked.media
           D == {u.duration : u \in S} \ {0}
           R == {u.resolution : u \in S} \ {Blank}
           A == {u.aspect : u \in S} \ {<<>>}
           d == RequestedAdobeDuration(req, media)
           r == RequestedAdobeResolution(req, media)
           a == RequestedAdobeAspect(req, media)
<1>1. \A u \in S :
        /\ Measured(u) /\ (u.duration > 0 <=> media = "video")
        /\ u.media = media /\ media \in {"image", "video"}
        /\ \A x \in S : x.resolution = Blank => u.resolution = Blank
        /\ media = "image" => \E x \in S : x.aspect = <<1, 1>>
  <2> TAKE u \in S
  <2>1. u \in Range(listed) /\ Kin(listed, u) = S /\ u.media = media BY DEF Kin
  <2> QED BY <2>1 DEF WellListed
<1>2. /\ v.duration = DefaultAdobeDuration(D)
      /\ v.resolution = DefaultAdobeResolution(media, R)
      /\ v.aspect = DefaultAdobeAspect(media, A)
  BY DEF Options, Defaults
<1>3. /\ d = IF media = "video" THEN 6 ELSE 0
      /\ r = IF media = "image" THEN "1k" ELSE "720p"
      /\ a = IF media = "image" THEN <<1, 1>> ELSE <<16, 9>>
  BY <1>1, UnstatedAsksUsual
<1>4. d \in Nat /\ r \in Resolutions /\ a \in DOMAIN LnRatio
  BY <1>1, AskedDuration DEF Measurable
<1>5. /\ Far(v, req, media) = DurationScore(v, d) + ResolutionScore(v, r) + AspectScore(v, a)
      /\ Far(w, req, media) = DurationScore(w, d) + ResolutionScore(w, r) + AspectScore(w, a)
  BY DEF Far, AdobeVariantScore
<1>6. Far(w, req, media) <= Far(v, req, media) OBVIOUS
<1>7. v \in S /\ w \in S OBVIOUS
<1> HIDE DEF S, media, d, r, a
<1>8. /\ DurationScore(v, d) \in Nat /\ ResolutionScore(v, r) \in Nat /\ AspectScore(v, a) \in Nat
      /\ DurationScore(w, d) \in Nat /\ ResolutionScore(w, r) \in Nat /\ AspectScore(w, a) \in Nat
  BY <1>1, <1>4, <1>7, ScoreTerms
<1>9. /\ DurationScore(v, d) <= DurationScore(w, d)
      /\ DurationScore(v, d) = DurationScore(w, d) => w.duration = v.duration
  <2>1. v.duration \in Nat /\ w.duration \in Nat BY <1>1, <1>7 DEF Measured
  <2>2. CASE media = "video"
    <3>1. D \subseteq Nat \ {0} /\ w.duration \in D /\ D # {}
      <4>1. \A u \in S : u.duration \in Nat BY <1>1 DEF Measured
      <4> QED BY <1>1, <1>7, <2>2, <4>1
    <3>2. d = 6 BY <1>3, <2>2
    <3> HIDE DEF D
    <3> QED BY <3>1, <3>2, <1>2, DefaultDurationNearest
  <2>3. CASE media # "video"
    <3>1. v.duration = 0 /\ w.duration = 0 BY <1>1, <1>7, <2>1, <2>3
    <3> QED BY <3>1 DEF DurationScore
  <2> QED BY <2>2, <2>3
<1>10. /\ ResolutionScore(v, r) <= ResolutionScore(w, r)
       /\ ResolutionScore(v, r) = ResolutionScore(w, r) => w.resolution = v.resolution
  <2>1. CASE v.resolution = Blank
    <3>1. w.resolution = Blank BY <1>1, <1>7, <2>1
    <3> QED BY <2>1, <3>1 DEF ResolutionScore
  <2>2. CASE v.resolution # Blank
    <3>1. w.resolution # Blank BY <1>1, <1>7, <2>2
    <3>2. w.resolution \in R /\ R \subseteq Resolutions
      BY <1>1, <1>7, <3>1 DEF Measured
    <3>3. v.resolution = Closest(r, R, Ln)
      BY <1>2, <1>3, <3>2 DEF DefaultAdobeResolution
    <3> HIDE DEF R
    <3>4. \A o \in R \cup {r} : Ln[o] \in Int BY <3>2, <1>4, Measures
    <3>5. \A o, p \in R : Distance(Ln[o], Ln[r]) = Distance(Ln[p], Ln[r]) => o = p
      <4>1. r \in {"720p", "1k"} BY <1>3
      <4> QED BY <3>2, <4>1, Measures
    <3>6. v.resolution \in R /\ Distance(Ln[v.resolution], Ln[r]) <= Distance(Ln[w.resolution], Ln[r])
      <4>1. /\ Closest(r, R, Ln) \in R
            /\ \A p \in R : Distance(Ln[Closest(r, R, Ln)], Ln[r]) <= Distance(Ln[p], Ln[r])
        BY <3>2, <3>4, <3>5, ClosestIs, Zenon
      <4> QED BY <4>1, <3>2, <3>3, Zenon
    <3> DEFINE m == Distance(Ln[v.resolution], Ln[r])
               n == Distance(Ln[w.resolution], Ln[r])
    <3>7. m \in Nat /\ n \in Nat /\ m <= n /\ (m = n => v.resolution = w.resolution)
      <4>1. m \in Nat /\ n \in Nat BY <3>2, <3>4, <3>6 DEF Distance
      <4> QED BY <4>1, <3>2, <3>5, <3>6
    <3>8. ResolutionScore(v, r) = 20 * m /\ ResolutionScore(w, r) = 20 * n
      BY <2>2, <3>1 DEF ResolutionScore
    <3> HIDE DEF m, n
    <3> QED BY <3>7, <3>8
  <2> QED BY <2>1, <2>2
<1>11. /\ AspectScore(v, a) <= AspectScore(w, a)
       /\ AspectScore(v, a) = AspectScore(w, a) => w.aspect = v.aspect
  <2>1. A \subseteq DOMAIN LnRatio BY <1>1 DEF Measured
  <2>2. w.aspect \in A /\ w.aspect # <<>> /\ v.aspect # <<>>
    BY <1>1, <1>7, RatioMeasures DEF Measured
  <2>3. v.aspect = Closest(a, A, LnRatio) BY <1>2, <1>3, <2>2 DEF DefaultAdobeAspect
  <2>4. media = "image" => a \in A BY <1>1, <1>3, <1>7, RatioMeasures
  <2> HIDE DEF A
  <2>5. \A o \in A \cup {a} : LnRatio[o] \in Int BY <2>1, <1>4, RatioMeasures
  <2> DEFINE m == Distance(LnRatio[v.aspect], LnRatio[a])
             n == Distance(LnRatio[w.aspect], LnRatio[a])
  <2>6. m \in Nat /\ n \in Nat /\ m <= n /\ (m = n => v.aspect = w.aspect)
    <3>1. CASE media = "image"
      <4>1. v.aspect = a BY <2>3, <2>4, <3>1 DEF Closest
      <4>2. LnRatio[w.aspect] \in Int /\ LnRatio[a] \in Int /\ (LnRatio[w.aspect] = LnRatio[a] => w.aspect = a)
        BY <2>1, <2>2, <1>4, RatioMeasures
      <4> QED BY <4>1, <4>2 DEF Distance
    <3>2. CASE media # "image"
      <4>1. a = <<16, 9>> BY <1>3, <3>2
      <4>2. \A o, p \in A : Distance(LnRatio[o], LnRatio[a]) = Distance(LnRatio[p], LnRatio[a]) => o = p
        BY <2>1, <4>1, RatioMeasures
      <4>3. v.aspect \in A /\ m <= n 
        <5>1. /\ Closest(a, A, LnRatio) \in A
              /\ \A p \in A : Distance(LnRatio[Closest(a, A, LnRatio)], LnRatio[a])
                               <= Distance(LnRatio[p], LnRatio[a])
          BY <2>2, <2>5, <4>2, ClosestIs, Zenon
        <5> QED BY <5>1, <2>2, <2>3, Zenon
      <4>4. m \in Nat /\ n \in Nat BY <2>2, <2>5, <4>3 DEF Distance
      <4> QED BY <4>2, <4>3, <4>4, <2>2
    <3> QED BY <3>1, <3>2
  <2>7. AspectScore(v, a) = 40 * m /\ AspectScore(w, a) = 40 * n
    BY <2>2 DEF AspectScore
  <2> HIDE DEF m, n
  <2> QED BY <2>6, <2>7
<1>12. DurationScore(v, d) = DurationScore(w, d) /\ ResolutionScore(v, r) = ResolutionScore(w, r)
       /\ AspectScore(v, a) = AspectScore(w, a)
  BY <1>5, <1>6, <1>8, <1>9, <1>10, <1>11
<1> QED BY <1>9, <1>10, <1>11, <1>12 DEF Options
(* A query of a family is about a variant of a list, and its outcome is what
   is selected for it.                                                     *)
Asked(listed, req, v) ==
  query = [of |-> "adobe", listed |-> listed, family |-> v.family, media |-> v.media, req |-> req]
SelectionInv ==
  query.of = "adobe" =>
    \E listed \in Listings, req \in Wishes : \E v \in Range(listed) :
      /\ Asked(listed, req, v)
      /\ outcome = Pending \/ outcome = SelectAdobeModelVariant(listed, v.family, v.media, req)

LEMMA SelectionInvariant == CatalogsSpec => []SelectionInv
<1>1. CatalogsInit => SelectionInv
  <2> SUFFICES ASSUME CatalogsInit, query.of = "adobe" PROVE SelectionInv
    BY DEF SelectionInv
  <2>1. AskAdobe BY DEF CatalogsInit, AskLeonardo
  <2> QED BY <2>1 DEF CatalogsInit, AskAdobe, SelectionInv, Asked
<1>2. SelectionInv /\ [Submit]_catalogsVars => SelectionInv'
  <2> SUFFICES ASSUME SelectionInv, [Submit]_catalogsVars, query'.of = "adobe" PROVE SelectionInv'
    BY DEF SelectionInv
  <2>1. CASE UNCHANGED catalogsVars BY <2>1 DEF SelectionInv, catalogsVars, Asked
  <2>2. CASE Submit
    <3>1. query' = query /\ query.of = "adobe" BY <2>2 DEF Submit
    <3>2. PICK listed \in Listings, req \in Wishes : \E v \in Range(listed) : Asked(listed, req, v)
      BY <3>1 DEF SelectionInv
    <3>3. PICK v \in Range(listed) : Asked(listed, req, v) BY <3>2
    <3>4. outcome' = SelectAdobeModelVariant(query.listed, query.family, query.media, query.req)
      BY <2>2, <3>1 DEF Submit
    <3>5. query.listed = listed /\ query.family = v.family /\ query.media = v.media /\ query.req = req
      BY <3>3 DEF Asked
    <3>6. outcome' = SelectAdobeModelVariant(listed, v.family, v.media, req)
      BY <3>4, <3>5
    <3> QED BY <3>1, <3>3, <3>6 DEF SelectionInv, Asked
  <2> QED BY <2>1, <2>2
<1> QED BY <1>1, <1>2, PTL DEF CatalogsSpec

(* For every list and every request of the kind that WellListed and
   Measurable describe: a client that names a family gets the nearest of its
   variants, the exact one if there is one, the advertised defaults if it
   states nothing, and no clip cut short without need
   (selectAdobeModelVariant, adobeVariantScore).                           *)
THEOREM VariantSelectedFaithfully == CatalogsSpec => []SelectionFaithful
<1>1. SelectionInv => SelectionFaithful
  <2> SUFFICES ASSUME SelectionInv, query.of = "adobe", outcome # Pending PROVE SelectionFaithful
    BY DEF SelectionFaithful
  <2>1. PICK listed \in Listings, req \in Wishes : \E v \in Range(listed) :
          /\ Asked(listed, req, v)
          /\ outcome = SelectAdobeModelVariant(listed, v.family, v.media, req)
    BY DEF SelectionInv
  <2>2. PICK asked \in Range(listed) :
          /\ Asked(listed, req, asked)
          /\ outcome = SelectAdobeModelVariant(listed, asked.family, asked.media, req)
    BY <2>1
  <2>3. WellListed(listed) /\ Measurable(req)
    BY ListingsAssumption, WishesAssumption
  <2> DEFINE family == Kin(listed, asked)
             media == asked.media
             wanted == Wanted(req, media)
  <2>4. /\ query.listed = listed /\ query.family = asked.family
        /\ query.media = media /\ query.req = req
    BY <2>2 DEF Asked
  <2>5. family = {v \in Range(query.listed) : v.family = query.family /\ v.media = query.media}
    BY <2>4 DEF Kin
  <2>6. \A v : AdobeVariantScore(v, wanted[1], wanted[2], wanted[3]) = Far(v, req, media)
    BY DEF Far, Wanted
  <2>7. outcome \in family /\ \A v \in family \ {outcome} :
          \/ Far(outcome, req, media) < Far(v, req, media)
          \/ Far(outcome, req, media) = Far(v, req, media) /\ outcome.order < v.order
    BY <2>2, <2>3, SelectsNearest
  <2>8. \A v \in family :
          /\ Measured(outcome) /\ outcome.media = media /\ (outcome.duration > 0 <=> media = "video")
          /\ Measured(v) /\ v.media = media /\ (v.duration > 0 <=> media = "video")
          /\ media \in {"image", "video"}
          /\ Far(outcome, req, media) \in Nat /\ Far(v, req, media) \in Nat
          /\ Far(outcome, req, media) <= Far(v, req, media)
    BY <2>2, <2>3, NoneNearer
  <2> HIDE DEF family, media, wanted
  <2>9. ASSUME NEW v \in family, Options(v) = wanted PROVE Options(outcome) = wanted
    <3>1. Far(v, req, media) = 0 BY <2>3, <2>8, <2>9, ZeroMeansExact DEF wanted
    <3>2. Far(outcome, req, media) = 0 BY <2>8, <3>1
    <3> QED BY <2>3, <2>8, <3>2, ZeroMeansExact DEF wanted
  <2>10. ASSUME Unstated(req), NEW v \in family, Options(v) = Defaults(family, media)
         PROVE  Options(outcome) = Defaults(family, media)
    <3>1. Far(outcome, req, media) <= Far(v, req, media) BY <2>8
    <3> QED BY <2>3, <2>7, <2>10, <3>1, DefaultsNearest DEF family, media
  <2>11. ASSUME NEW v \in family, v.resolution = outcome.resolution, v.aspect = outcome.aspect,
                outcome.duration < wanted[1], wanted[1] <= v.duration,
                Distance(v.duration, wanted[1]) <= Distance(outcome.duration, wanted[1])
         PROVE  FALSE
    <3>1. wanted[1] = RequestedAdobeDuration(req, media) BY DEF wanted, Wanted
    <3> QED BY <2>3, <2>8, <2>11, <3>1, TooShortIsFarther
  <2> DEFINE far == [v \in family |-> AdobeVariantScore(v, wanted[1], wanted[2], wanted[3])]
  <2>12. \A v \in family \ {outcome} :
           far[outcome] < far[v] \/ (far[outcome] = far[v] /\ outcome.order < v.order)
    BY <2>6, <2>7
  <2>13. wanted = Wanted(query.req, query.media) /\ media = query.media /\ req = query.req
    BY <2>4 DEF wanted, media
  <2> HIDE DEF far
  <2>14. /\ outcome \in family
         /\ \A v \in family \ {outcome} :
              far[outcome] < far[v] \/ (far[outcome] = far[v] /\ outcome.order < v.order)
         /\ \A v \in family : Options(v) = wanted => Options(outcome) = wanted
         /\ Unstated(query.req) =>
              \A v \in family : LET usual == Defaults(family, query.media) IN
                Options(v) = usual => Options(outcome) = usual
         /\ ~\E v \in family :
              /\ v.resolution = outcome.resolution /\ v.aspect = outcome.aspect
              /\ outcome.duration < wanted[1] /\ wanted[1] <= v.duration
              /\ Distance(v.duration, wanted[1]) <= Distance(outcome.duration, wanted[1])
    BY <2>7, <2>9, <2>10, <2>11, <2>12, <2>13
  <2> QED BY <2>5, <2>13, <2>14, Zenon DEF SelectionFaithful, far
<1> QED BY <1>1, SelectionInvariant, PTL
-----------------------------------------------------------------------------
(* The catalogue of Leonardo's video models.                               *)
(* The row of the model that goes by a name: no two models share one.      *)
Owner(q) ==
  IF q \in {"seedance-2.0", "seedance 2.0"} THEN 1
  ELSE IF q \in {"seedance-2.0-fast", "seedance 2.0 fast"} THEN 2
  ELSE IF q \in {"seedance-2.0-mini", "seedance 2.0 mini"} THEN 3
  ELSE IF q \in {"seedance-2.0-480p", "seedance 2.0 480p", "video-2.0-480p"} THEN 4
  ELSE IF q \in {"seedance-2.0-fast-480p", "seedance 2.0 fast 480p",
          "video-2.0-fast-480p"} THEN 5
  ELSE IF q \in {"seedance-2.0-mini-480p", "seedance 2.0 mini 480p",
          "video-2.0-mini-480p"} THEN 6
  ELSE IF q \in {"seedance-1.0-pro", "seedance 1.0 pro"} THEN 7
  ELSE IF q \in {"seedance-1.0-pro-fast", "seedance 1.0 pro fast"} THEN 8
  ELSE IF q \in {"hailuo-03", "minimax hailuo 03", "minimaxh3", "minimax-h3",
          "minimax-hailuo-03", "hailuo-h3"} THEN 9
  ELSE IF q \in {"hailuo-2.3", "hailuo-2_3", "minimax hailuo 2.3"} THEN 10
  ELSE IF q \in {"hailuo-2.3-fast", "hailuo-2_3-fast", "minimax hailuo 2.3 fast"} THEN 11
  ELSE IF q \in {"kling-3.0", "kling 3.0"} THEN 12
  ELSE IF q \in {"kling-3.0-turbo", "kling 3.0 turbo"} THEN 13
  ELSE IF q \in {"kling-video-o-3", "kling o3"} THEN 14
  ELSE IF q \in {"kling-video-o-1", "kling o1"} THEN 15
  ELSE IF q \in {"kling-2.6", "kling 2.6"} THEN 16
  ELSE IF q \in {"kling-2.5-turbo-standard", "kling 2.5 turbo standard"} THEN 17
  ELSE IF q \in {"kling-2.5-turbo", "kling2_5", "kling 2.5 turbo"} THEN 18
  ELSE IF q \in {"kling-2.1-pro", "kling2_1", "kling 2.1 pro"} THEN 19
  ELSE IF q \in {"veo-3.1-generate-001", "veo 3.1"} THEN 20
  ELSE IF q \in {"veo-3.1-fast-generate-001", "veo 3.1 fast"} THEN 21
  ELSE IF q \in {"veo-3.1-lite", "veo 3.1 lite"} THEN 22
  ELSE IF q \in {"ltx-2-pro", "ltxv-2.0-pro", "ltx 2 pro"} THEN 23
  ELSE IF q \in {"ltx-2-fast", "ltxv-2.0-fast", "ltx 2 fast"} THEN 24
  ELSE IF q \in {"ltx-2.3-pro", "ltxv-2.3-pro", "ltx 2.3 pro"} THEN 25
  ELSE IF q \in {"ltx-2.3-fast", "ltxv-2.3-fast", "ltx 2.3 fast"} THEN 26
  ELSE IF q \in {"wan-2.7", "wan 2.7"} THEN 27
  ELSE IF q \in {"wan-2.6", "wan 2.6"} THEN 28
  ELSE IF q \in {"grok-imagine-1.5", "grok imagine 1.5"} THEN 29
  ELSE IF q \in {"gemini-omni-flash", "gemini omni flash"} THEN 30
  ELSE IF q \in {"happy-horse-1.1", "happy horse 1.1"} THEN 31
  ELSE IF q \in {"motion_2.0", "motion 2.0"} THEN 32
  ELSE IF q \in {"motion_2.0-fast", "motion 2.0 fast"} THEN 33
  ELSE 0

(* What the theorem needs of a row: its names, its defaults are among what
   it offers, and it has the default ratio at every resolution, but for
   Grok's square.                                                          *)
Names(m) == {m.slug, m.value, m.name} \cup m.aliases
HasSizes(slug, modes, dims) ==
  \A mode \in modes : mode # AutoMode =>
    (DefaultAspect \in dims[mode] <=> ~(slug = "grok-imagine-1.5" /\ mode = 960))
Sound(m, names) ==
  /\ Names(m) = names
  /\ m.mode \in m.modes /\ HasSizes(m.slug, m.modes, m.dims)
  /\ m.durations \subseteq 1..20 /\ m.duration \in m.durations

LEMMA TablesHaveDefault ==
  ASSUME NEW slug, NEW S, 960 \notin S
  PROVE  /\ HasSizes(slug, S, Sizes(S, Two)) /\ HasSizes(slug, S, Sizes(S, Three))
         /\ HasSizes(slug, S, Sizes(S, Five)) /\ HasSizes(slug, S, Sizes(S, {"16:9"}))
         /\ HasSizes(slug, S, Sizes(S, Five \cup {"21:9"}))
         /\ S \subseteq {480, 720, 1080} => HasSizes(slug, S, Seedance2Dims)
         /\ HasSizes(slug, {480}, OnlyMode(Seedance2Dims, 480))
         /\ HasSizes(slug, {1080}, OnlyMode(Dims7201080, 1080))
         /\ HasSizes(slug, {AutoMode, 1440}, Hailuo03Dims)
         /\ HasSizes("grok-imagine-1.5", {AutoMode, 400, 720, 960}, GrokDims)
<1> USE DEF HasSizes, DefaultAspect, Three, Two, Five, AutoMode
<1>1. HasSizes(slug, S, Sizes(S, Two)) /\ HasSizes(slug, S, Sizes(S, Three))
  BY DEF Sizes
<1>2. HasSizes(slug, S, Sizes(S, Five)) /\ HasSizes(slug, S, Sizes(S, {"16:9"}))
  BY DEF Sizes
<1>3. HasSizes(slug, S, Sizes(S, Five \cup {"21:9"}))
  BY DEF Sizes
<1>4. S \subseteq {480, 720, 1080} => HasSizes(slug, S, Seedance2Dims)
  BY DEF Seedance2Dims
<1>5. HasSizes(slug, {480}, OnlyMode(Seedance2Dims, 480))
  BY DEF OnlyMode, Seedance2Dims
<1>6. HasSizes(slug, {1080}, OnlyMode(Dims7201080, 1080))
  BY DEF OnlyMode, Dims7201080, Sizes
<1>7. HasSizes(slug, {AutoMode, 1440}, Hailuo03Dims)
  BY DEF Hailuo03Dims
<1>8. HasSizes("grok-imagine-1.5", {AutoMode, 400, 720, 960}, GrokDims)
  BY DEF GrokDims
<1> QED
  BY <1>1, <1>2, <1>3, <1>4, <1>5, <1>6, <1>7, <1>8

LEMMA RowsSound ==
  ASSUME NEW i \in 1..33
  PROVE  Sound(VideoModels[i], Names(VideoModels[i])) /\ \A q \in Names(VideoModels[i]) : Owner(q) = i
<1>1. CASE i = 1
  <2> DEFINE slug == "seedance-2.0"  name == "seedance 2.0"
  <2>1. VideoModels[1] =
          Row(slug, name, {480, 720, 1080}, 720, Seedance2Dims, 4..15, 8, "optional",
          "may")
    BY DEF VideoModels
  <2>2. HasSizes(slug, {480, 720, 1080}, Seedance2Dims) BY TablesHaveDefault
  <2>3. Owner(slug) = 1 /\ Owner(name) = 1
    BY Zenon DEF Owner
  <2> HIDE DEF slug, name
  <2>4. Sound(VideoModels[1], {slug, name})
    BY <2>1, <2>2 DEF Sound, Names, Row
  <2> QED BY <1>1, <2>3, <2>4 DEF Sound
<1>2. CASE i = 2
  <2> DEFINE slug == "seedance-2.0-fast"  name == "seedance 2.0 fast"
  <2>1. VideoModels[2] =
          Row(slug, name, {480, 720}, 720, Seedance2Dims, 4..15, 8, "optional", "may")
    BY DEF VideoModels
  <2>2. HasSizes(slug, {480, 720}, Seedance2Dims) BY TablesHaveDefault
  <2>3. Owner(slug) = 2 /\ Owner(name) = 2
    BY Zenon DEF Owner
  <2> HIDE DEF slug, name
  <2>4. Sound(VideoModels[2], {slug, name})
    BY <2>1, <2>2 DEF Sound, Names, Row
  <2> QED BY <1>2, <2>3, <2>4 DEF Sound
<1>3. CASE i = 3
  <2> DEFINE slug == "seedance-2.0-mini"  name == "seedance 2.0 mini"
  <2>1. VideoModels[3] =
          Row(slug, name, {720}, 720, Dims720, 4..15, 8, "optional", "may")
    BY DEF VideoModels
  <2>2. HasSizes(slug, {720}, Dims720) BY TablesHaveDefault DEF Dims720
  <2>3. Owner(slug) = 3 /\ Owner(name) = 3
    BY Zenon DEF Owner
  <2> HIDE DEF slug, name
  <2>4. Sound(VideoModels[3], {slug, name})
    BY <2>1, <2>2 DEF Sound, Names, Row
  <2> QED BY <1>3, <2>3, <2>4 DEF Sound
<1>4. CASE i = 4
  <2> DEFINE slug == "seedance-2.0-480p"  aliases == {"video-2.0-480p"}  name == "seedance 2.0 480p"
  <2>1. VideoModels[4] =
          Aliased(aliases, Row(slug, name, {480}, 480, OnlyMode(Seedance2Dims, 480),
          4..15, 8, "optional", "may"))
    BY DEF VideoModels
  <2>2. HasSizes(slug, {480}, OnlyMode(Seedance2Dims, 480)) BY TablesHaveDefault
  <2>3. Owner(slug) = 4 /\ Owner(name) = 4 /\ \A q \in aliases : Owner(q) = 4
    BY Zenon DEF Owner
  <2> HIDE DEF slug, aliases, name
  <2>4. Sound(VideoModels[4], {slug, name} \cup aliases)
    BY <2>1, <2>2 DEF Sound, Names, Row, Aliased
  <2> QED BY <1>4, <2>3, <2>4 DEF Sound
<1>5. CASE i = 5
  <2> DEFINE slug == "seedance-2.0-fast-480p"  aliases == {"video-2.0-fast-480p"}  name == "seedance 2.0 fast 480p"
  <2>1. VideoModels[5] =
          Aliased(aliases, Row(slug, name, {480}, 480, OnlyMode(Seedance2Dims, 480),
          4..15, 8, "optional", "may"))
    BY DEF VideoModels
  <2>2. HasSizes(slug, {480}, OnlyMode(Seedance2Dims, 480)) BY TablesHaveDefault
  <2>3. Owner(slug) = 5 /\ Owner(name) = 5 /\ \A q \in aliases : Owner(q) = 5
    BY Zenon DEF Owner
  <2> HIDE DEF slug, aliases, name
  <2>4. Sound(VideoModels[5], {slug, name} \cup aliases)
    BY <2>1, <2>2 DEF Sound, Names, Row, Aliased
  <2> QED BY <1>5, <2>3, <2>4 DEF Sound
<1>6. CASE i = 6
  <2> DEFINE slug == "seedance-2.0-mini-480p"  aliases == {"video-2.0-mini-480p"}  name == "seedance 2.0 mini 480p"
  <2>1. VideoModels[6] =
          Aliased(aliases, Row(slug, name, {480}, 480, OnlyMode(Seedance2Dims, 480),
          4..15, 8, "optional", "may"))
    BY DEF VideoModels
  <2>2. HasSizes(slug, {480}, OnlyMode(Seedance2Dims, 480)) BY TablesHaveDefault
  <2>3. Owner(slug) = 6 /\ Owner(name) = 6 /\ \A q \in aliases : Owner(q) = 6
    BY Zenon DEF Owner
  <2> HIDE DEF slug, aliases, name
  <2>4. Sound(VideoModels[6], {slug, name} \cup aliases)
    BY <2>1, <2>2 DEF Sound, Names, Row, Aliased
  <2> QED BY <1>6, <2>3, <2>4 DEF Sound
<1>7. CASE i = 7
  <2> DEFINE slug == "seedance-1.0-pro"  name == "seedance 1.0 pro"
  <2>1. VideoModels[7] =
          Row(slug, name, {480, 720, 1080}, 720, Seedance1Dims, {4, 6, 8, 10}, 8, "none",
          "may")
    BY DEF VideoModels
  <2>2. HasSizes(slug, {480, 720, 1080}, Seedance1Dims)
    BY TablesHaveDefault DEF Seedance1Dims
  <2>3. Owner(slug) = 7 /\ Owner(name) = 7
    BY Zenon DEF Owner
  <2> HIDE DEF slug, name
  <2>4. Sound(VideoModels[7], {slug, name})
    BY <2>1, <2>2 DEF Sound, Names, Row
  <2> QED BY <1>7, <2>3, <2>4 DEF Sound
<1>8. CASE i = 8
  <2> DEFINE slug == "seedance-1.0-pro-fast"  name == "seedance 1.0 pro fast"
  <2>1. VideoModels[8] =
          Row(slug, name, {480, 720, 1080}, 720, Seedance1Dims, {4, 6, 8, 10}, 8, "none",
          "may")
    BY DEF VideoModels
  <2>2. HasSizes(slug, {480, 720, 1080}, Seedance1Dims)
    BY TablesHaveDefault DEF Seedance1Dims
  <2>3. Owner(slug) = 8 /\ Owner(name) = 8
    BY Zenon DEF Owner
  <2> HIDE DEF slug, name
  <2>4. Sound(VideoModels[8], {slug, name})
    BY <2>1, <2>2 DEF Sound, Names, Row
  <2> QED BY <1>8, <2>3, <2>4 DEF Sound
<1>9. CASE i = 9
  <2> DEFINE slug == "hailuo-03"  aliases == {"minimaxh3", "minimax-h3", "minimax-hailuo-03", "hailuo-h3"}  name == "minimax hailuo 03"
  <2>1. VideoModels[9] =
          [Aliased(aliases, Row(slug, name, {AutoMode, 1440}, 1440, Hailuo03Dims, 5..15, 5,
          "required", "may")) EXCEPT !.hidden = TRUE]
    BY DEF VideoModels
  <2>2. HasSizes(slug, {AutoMode, 1440}, Hailuo03Dims) BY TablesHaveDefault
  <2>3. Owner(slug) = 9 /\ Owner(name) = 9 /\ \A q \in aliases : Owner(q) = 9
    BY Zenon DEF Owner
  <2> HIDE DEF slug, aliases, name
  <2>4. Sound(VideoModels[9], {slug, name} \cup aliases)
    BY <2>1, <2>2 DEF Sound, Names, Row, Aliased
  <2> QED BY <1>9, <2>3, <2>4 DEF Sound
<1>10. CASE i = 10
  <2> DEFINE slug == "hailuo-2.3"  aliases == {"hailuo-2_3"}  value == "hailuo-2_3"  name == "minimax hailuo 2.3"
  <2>1. VideoModels[10] =
          Aliased(aliases, Valued(value, Row(slug, name, {768, 1080}, 768, Hailuo23Dims,
          {6, 10}, 6, "none", "may")))
    BY DEF VideoModels
  <2>2. HasSizes(slug, {768, 1080}, Hailuo23Dims)
    BY TablesHaveDefault DEF Hailuo23Dims
  <2>3. Owner(slug) = 10 /\ Owner(value) = 10 /\ Owner(name) = 10 /\ \A q \in aliases : Owner(q) = 10
    BY Zenon DEF Owner
  <2> HIDE DEF slug, aliases, value, name
  <2>4. Sound(VideoModels[10], {slug, value, name} \cup aliases)
    BY <2>1, <2>2 DEF Sound, Names, Row, Aliased, Valued
  <2> QED BY <1>10, <2>3, <2>4 DEF Sound
<1>11. CASE i = 11
  <2> DEFINE slug == "hailuo-2.3-fast"  aliases == {"hailuo-2_3-fast"}  value == "hailuo-2_3-fast"  name == "minimax hailuo 2.3 fast"
  <2>1. VideoModels[11] =
          Aliased(aliases, Valued(value, Row(slug, name, {768, 1080}, 768, Hailuo23Dims,
          {6, 10}, 6, "none", "may")))
    BY DEF VideoModels
  <2>2. HasSizes(slug, {768, 1080}, Hailuo23Dims)
    BY TablesHaveDefault DEF Hailuo23Dims
  <2>3. Owner(slug) = 11 /\ Owner(value) = 11 /\ Owner(name) = 11 /\ \A q \in aliases : Owner(q) = 11
    BY Zenon DEF Owner
  <2> HIDE DEF slug, aliases, value, name
  <2>4. Sound(VideoModels[11], {slug, value, name} \cup aliases)
    BY <2>1, <2>2 DEF Sound, Names, Row, Aliased, Valued
  <2> QED BY <1>11, <2>3, <2>4 DEF Sound
<1>12. CASE i = 12
  <2> DEFINE slug == "kling-3.0"  name == "kling 3.0"
  <2>1. VideoModels[12] =
          Row(slug, name, {720, 1080}, 1080, Dims7201080, 3..15, 5, "optional", "may")
    BY DEF VideoModels
  <2>2. HasSizes(slug, {720, 1080}, Dims7201080)
    BY TablesHaveDefault DEF Dims7201080
  <2>3. Owner(slug) = 12 /\ Owner(name) = 12
    BY Zenon DEF Owner
  <2> HIDE DEF slug, name
  <2>4. Sound(VideoModels[12], {slug, name})
    BY <2>1, <2>2 DEF Sound, Names, Row
  <2> QED BY <1>12, <2>3, <2>4 DEF Sound
<1>13. CASE i = 13
  <2> DEFINE slug == "kling-3.0-turbo"  name == "kling 3.0 turbo"
  <2>1. VideoModels[13] =
          Row(slug, name, {720, 1080}, 1080, Dims7201080, 3..15, 5, "optional", "may")
    BY DEF VideoModels
  <2>2. HasSizes(slug, {720, 1080}, Dims7201080)
    BY TablesHaveDefault DEF Dims7201080
  <2>3. Owner(slug) = 13 /\ Owner(name) = 13
    BY Zenon DEF Owner
  <2> HIDE DEF slug, name
  <2>4. Sound(VideoModels[13], {slug, name})
    BY <2>1, <2>2 DEF Sound, Names, Row
  <2> QED BY <1>13, <2>3, <2>4 DEF Sound
<1>14. CASE i = 14
  <2> DEFINE slug == "kling-video-o-3"  name == "kling o3"
  <2>1. VideoModels[14] =
          Row(slug, name, {720, 1080}, 1080, Dims7201080, 3..15, 5, "optional", "may")
    BY DEF VideoModels
  <2>2. HasSizes(slug, {720, 1080}, Dims7201080)
    BY TablesHaveDefault DEF Dims7201080
  <2>3. Owner(slug) = 14 /\ Owner(name) = 14
    BY Zenon DEF Owner
  <2> HIDE DEF slug, name
  <2>4. Sound(VideoModels[14], {slug, name})
    BY <2>1, <2>2 DEF Sound, Names, Row
  <2> QED BY <1>14, <2>3, <2>4 DEF Sound
<1>15. CASE i = 15
  <2> DEFINE slug == "kling-video-o-1"  name == "kling o1"
  <2>1. VideoModels[15] =
          Row(slug, name, {1080}, 1080, Sizes({1080}, Three), {5, 10}, 5, "none", "may")
    BY DEF VideoModels
  <2>2. HasSizes(slug, {1080}, Sizes({1080}, Three)) BY TablesHaveDefault
  <2>3. Owner(slug) = 15 /\ Owner(name) = 15
    BY Zenon DEF Owner
  <2> HIDE DEF slug, name
  <2>4. Sound(VideoModels[15], {slug, name})
    BY <2>1, <2>2 DEF Sound, Names, Row
  <2> QED BY <1>15, <2>3, <2>4 DEF Sound
<1>16. CASE i = 16
  <2> DEFINE slug == "kling-2.6"  name == "kling 2.6"
  <2>1. VideoModels[16] =
          Row(slug, name, {1080}, 1080, OnlyMode(Dims7201080, 1080), {5, 10}, 5, "none",
          "may")
    BY DEF VideoModels
  <2>2. HasSizes(slug, {1080}, OnlyMode(Dims7201080, 1080)) BY TablesHaveDefault
  <2>3. Owner(slug) = 16 /\ Owner(name) = 16
    BY Zenon DEF Owner
  <2> HIDE DEF slug, name
  <2>4. Sound(VideoModels[16], {slug, name})
    BY <2>1, <2>2 DEF Sound, Names, Row
  <2> QED BY <1>16, <2>3, <2>4 DEF Sound
<1>17. CASE i = 17
  <2> DEFINE slug == "kling-2.5-turbo-standard"  name == "kling 2.5 turbo standard"
  <2>1. VideoModels[17] =
          Row(slug, name, {720}, 720, Dims720, {5, 10}, 5, "none", "must")
    BY DEF VideoModels
  <2>2. HasSizes(slug, {720}, Dims720) BY TablesHaveDefault DEF Dims720
  <2>3. Owner(slug) = 17 /\ Owner(name) = 17
    BY Zenon DEF Owner
  <2> HIDE DEF slug, name
  <2>4. Sound(VideoModels[17], {slug, name})
    BY <2>1, <2>2 DEF Sound, Names, Row
  <2> QED BY <1>17, <2>3, <2>4 DEF Sound
<1>18. CASE i = 18
  <2> DEFINE slug == "kling-2.5-turbo"  value == "kling2_5"  name == "kling 2.5 turbo"
  <2>1. VideoModels[18] =
          Valued(value, Row(slug, name, {1080}, 1080, OnlyMode(Dims7201080, 1080), {5,
          10}, 5, "none", "may"))
    BY DEF VideoModels
  <2>2. HasSizes(slug, {1080}, OnlyMode(Dims7201080, 1080)) BY TablesHaveDefault
  <2>3. Owner(slug) = 18 /\ Owner(value) = 18 /\ Owner(name) = 18
    BY Zenon DEF Owner
  <2> HIDE DEF slug, value, name
  <2>4. Sound(VideoModels[18], {slug, value, name})
    BY <2>1, <2>2 DEF Sound, Names, Row, Valued
  <2> QED BY <1>18, <2>3, <2>4 DEF Sound
<1>19. CASE i = 19
  <2> DEFINE slug == "kling-2.1-pro"  value == "kling2_1"  name == "kling 2.1 pro"
  <2>1. VideoModels[19] =
          Valued(value, Row(slug, name, {1080}, 1080, Sizes({1080}, Two), {5, 10}, 5,
          "none", "must"))
    BY DEF VideoModels
  <2>2. HasSizes(slug, {1080}, Sizes({1080}, Two)) BY TablesHaveDefault
  <2>3. Owner(slug) = 19 /\ Owner(value) = 19 /\ Owner(name) = 19
    BY Zenon DEF Owner
  <2> HIDE DEF slug, value, name
  <2>4. Sound(VideoModels[19], {slug, value, name})
    BY <2>1, <2>2 DEF Sound, Names, Row, Valued
  <2> QED BY <1>19, <2>3, <2>4 DEF Sound
<1>20. CASE i = 20
  <2> DEFINE slug == "veo-3.1-generate-001"  name == "veo 3.1"
  <2>1. VideoModels[20] =
          Row(slug, name, {720, 1080, 2160}, 1080, Veo4kDims, {4, 6, 8}, 8, "optional",
          "may")
    BY DEF VideoModels
  <2>2. HasSizes(slug, {720, 1080, 2160}, Veo4kDims)
    BY TablesHaveDefault DEF Veo4kDims
  <2>3. Owner(slug) = 20 /\ Owner(name) = 20
    BY Zenon DEF Owner
  <2> HIDE DEF slug, name
  <2>4. Sound(VideoModels[20], {slug, name})
    BY <2>1, <2>2 DEF Sound, Names, Row
  <2> QED BY <1>20, <2>3, <2>4 DEF Sound
<1>21. CASE i = 21
  <2> DEFINE slug == "veo-3.1-fast-generate-001"  name == "veo 3.1 fast"
  <2>1. VideoModels[21] =
          Row(slug, name, {720, 1080, 2160}, 1080, Veo4kDims, {4, 6, 8}, 8, "optional",
          "may")
    BY DEF VideoModels
  <2>2. HasSizes(slug, {720, 1080, 2160}, Veo4kDims)
    BY TablesHaveDefault DEF Veo4kDims
  <2>3. Owner(slug) = 21 /\ Owner(name) = 21
    BY Zenon DEF Owner
  <2> HIDE DEF slug, name
  <2>4. Sound(VideoModels[21], {slug, name})
    BY <2>1, <2>2 DEF Sound, Names, Row
  <2> QED BY <1>21, <2>3, <2>4 DEF Sound
<1>22. CASE i = 22
  <2> DEFINE slug == "veo-3.1-lite"  name == "veo 3.1 lite"
  <2>1. VideoModels[22] =
          Row(slug, name, {720, 1080}, 1080, Sizes({720, 1080}, Two), {4, 6, 8}, 8,
          "optional", "may")
    BY DEF VideoModels
  <2>2. HasSizes(slug, {720, 1080}, Sizes({720, 1080}, Two)) BY TablesHaveDefault
  <2>3. Owner(slug) = 22 /\ Owner(name) = 22
    BY Zenon DEF Owner
  <2> HIDE DEF slug, name
  <2>4. Sound(VideoModels[22], {slug, name})
    BY <2>1, <2>2 DEF Sound, Names, Row
  <2> QED BY <1>22, <2>3, <2>4 DEF Sound
<1>23. CASE i = 23
  <2> DEFINE slug == "ltx-2-pro"  value == "ltxv-2.0-pro"  name == "ltx 2 pro"
  <2>1. VideoModels[23] =
          Valued(value, Row(slug, name, {1080, 1440, 2160}, 1080, LtxLandscapeDims, {6,
          8}, 8, "optional", "may"))
    BY DEF VideoModels
  <2>2. HasSizes(slug, {1080, 1440, 2160}, LtxLandscapeDims)
    BY TablesHaveDefault DEF LtxLandscapeDims
  <2>3. Owner(slug) = 23 /\ Owner(value) = 23 /\ Owner(name) = 23
    BY Zenon DEF Owner
  <2> HIDE DEF slug, value, name
  <2>4. Sound(VideoModels[23], {slug, value, name})
    BY <2>1, <2>2 DEF Sound, Names, Row, Valued
  <2> QED BY <1>23, <2>3, <2>4 DEF Sound
<1>24. CASE i = 24
  <2> DEFINE slug == "ltx-2-fast"  value == "ltxv-2.0-fast"  name == "ltx 2 fast"
  <2>1. VideoModels[24] =
          Valued(value, Row(slug, name, {1080, 1440, 2160}, 1080, LtxLandscapeDims, {6,
          8}, 8, "optional", "may"))
    BY DEF VideoModels
  <2>2. HasSizes(slug, {1080, 1440, 2160}, LtxLandscapeDims)
    BY TablesHaveDefault DEF LtxLandscapeDims
  <2>3. Owner(slug) = 24 /\ Owner(value) = 24 /\ Owner(name) = 24
    BY Zenon DEF Owner
  <2> HIDE DEF slug, value, name
  <2>4. Sound(VideoModels[24], {slug, value, name})
    BY <2>1, <2>2 DEF Sound, Names, Row, Valued
  <2> QED BY <1>24, <2>3, <2>4 DEF Sound
<1>25. CASE i = 25
  <2> DEFINE slug == "ltx-2.3-pro"  value == "ltxv-2.3-pro"  name == "ltx 2.3 pro"
  <2>1. VideoModels[25] =
          Valued(value, Row(slug, name, {1080, 1440, 2160}, 1080, Ltx23Dims, {6, 8, 10},
          8, "optional", "may"))
    BY DEF VideoModels
  <2>2. HasSizes(slug, {1080, 1440, 2160}, Ltx23Dims)
    BY TablesHaveDefault DEF Ltx23Dims
  <2>3. Owner(slug) = 25 /\ Owner(value) = 25 /\ Owner(name) = 25
    BY Zenon DEF Owner
  <2> HIDE DEF slug, value, name
  <2>4. Sound(VideoModels[25], {slug, value, name})
    BY <2>1, <2>2 DEF Sound, Names, Row, Valued
  <2> QED BY <1>25, <2>3, <2>4 DEF Sound
<1>26. CASE i = 26
  <2> DEFINE slug == "ltx-2.3-fast"  value == "ltxv-2.3-fast"  name == "ltx 2.3 fast"
  <2>1. VideoModels[26] =
          Valued(value, Row(slug, name, {1080, 1440, 2160}, 1080, Ltx23Dims,
          {2 * n : n \in 3..10}, 8, "optional", "may"))
    BY DEF VideoModels
  <2>2. HasSizes(slug, {1080, 1440, 2160}, Ltx23Dims)
    BY TablesHaveDefault DEF Ltx23Dims
  <2>3. Owner(slug) = 26 /\ Owner(value) = 26 /\ Owner(name) = 26
    BY Zenon DEF Owner
  <2> HIDE DEF slug, value, name
  <2>4. Sound(VideoModels[26], {slug, value, name})
    BY <2>1, <2>2 DEF Sound, Names, Row, Valued
  <2> QED BY <1>26, <2>3, <2>4 DEF Sound
<1>27. CASE i = 27
  <2> DEFINE slug == "wan-2.7"  name == "wan 2.7"
  <2>1. VideoModels[27] =
          Row(slug, name, {720, 1080}, 1080, Dims7201080, 2..10, 5, "none", "may")
    BY DEF VideoModels
  <2>2. HasSizes(slug, {720, 1080}, Dims7201080)
    BY TablesHaveDefault DEF Dims7201080
  <2>3. Owner(slug) = 27 /\ Owner(name) = 27
    BY Zenon DEF Owner
  <2> HIDE DEF slug, name
  <2>4. Sound(VideoModels[27], {slug, name})
    BY <2>1, <2>2 DEF Sound, Names, Row
  <2> QED BY <1>27, <2>3, <2>4 DEF Sound
<1>28. CASE i = 28
  <2> DEFINE slug == "wan-2.6"  name == "wan 2.6"
  <2>1. VideoModels[28] =
          Row(slug, name, {720, 1080}, 1080, Dims7201080Five, {5, 10, 15}, 5, "none",
          "may")
    BY DEF VideoModels
  <2>2. HasSizes(slug, {720, 1080}, Dims7201080Five)
    BY TablesHaveDefault DEF Dims7201080Five
  <2>3. Owner(slug) = 28 /\ Owner(name) = 28
    BY Zenon DEF Owner
  <2> HIDE DEF slug, name
  <2>4. Sound(VideoModels[28], {slug, name})
    BY <2>1, <2>2 DEF Sound, Names, Row
  <2> QED BY <1>28, <2>3, <2>4 DEF Sound
<1>29. CASE i = 29
  <2> DEFINE slug == "grok-imagine-1.5"  name == "grok imagine 1.5"
  <2>1. VideoModels[29] =
          Row(slug, name, {AutoMode, 400, 720, 960}, 720, GrokDims, 3..15, 6, "optional",
          "must")
    BY DEF VideoModels
  <2>2. HasSizes(slug, {AutoMode, 400, 720, 960}, GrokDims) BY TablesHaveDefault
  <2>3. Owner(slug) = 29 /\ Owner(name) = 29
    BY Zenon DEF Owner
  <2> HIDE DEF slug, name
  <2>4. Sound(VideoModels[29], {slug, name})
    BY <2>1, <2>2 DEF Sound, Names, Row
  <2> QED BY <1>29, <2>3, <2>4 DEF Sound
<1>30. CASE i = 30
  <2> DEFINE slug == "gemini-omni-flash"  name == "gemini omni flash"
  <2>1. VideoModels[30] =
          Row(slug, name, {720}, 720, Sizes({720}, Two), 3..10, 5, "none", "no")
    BY DEF VideoModels
  <2>2. HasSizes(slug, {720}, Sizes({720}, Two)) BY TablesHaveDefault
  <2>3. Owner(slug) = 30 /\ Owner(name) = 30
    BY Zenon DEF Owner
  <2> HIDE DEF slug, name
  <2>4. Sound(VideoModels[30], {slug, name})
    BY <2>1, <2>2 DEF Sound, Names, Row
  <2> QED BY <1>30, <2>3, <2>4 DEF Sound
<1>31. CASE i = 31
  <2> DEFINE slug == "happy-horse-1.1"  name == "happy horse 1.1"
  <2>1. VideoModels[31] =
          Row(slug, name, {720, 1080}, 1080, Dims7201080Five, 3..15, 5, "optional", "may")
    BY DEF VideoModels
  <2>2. HasSizes(slug, {720, 1080}, Dims7201080Five)
    BY TablesHaveDefault DEF Dims7201080Five
  <2>3. Owner(slug) = 31 /\ Owner(name) = 31
    BY Zenon DEF Owner
  <2> HIDE DEF slug, name
  <2>4. Sound(VideoModels[31], {slug, name})
    BY <2>1, <2>2 DEF Sound, Names, Row
  <2> QED BY <1>31, <2>3, <2>4 DEF Sound
<1>32. CASE i = 32
  <2> DEFINE slug == "motion_2.0"  name == "motion 2.0"
  <2>1. VideoModels[32] =
          Row(slug, name, {480, 720}, 480, MotionDims, {5}, 5, "none", "may")
    BY DEF VideoModels
  <2>2. HasSizes(slug, {480, 720}, MotionDims) BY TablesHaveDefault DEF MotionDims
  <2>3. Owner(slug) = 32 /\ Owner(name) = 32
    BY Zenon DEF Owner
  <2> HIDE DEF slug, name
  <2>4. Sound(VideoModels[32], {slug, name})
    BY <2>1, <2>2 DEF Sound, Names, Row
  <2> QED BY <1>32, <2>3, <2>4 DEF Sound
<1>33. CASE i = 33
  <2> DEFINE slug == "motion_2.0-fast"  name == "motion 2.0 fast"
  <2>1. VideoModels[33] =
          Row(slug, name, {480, 720}, 480, MotionDims, {5}, 5, "none", "may")
    BY DEF VideoModels
  <2>2. HasSizes(slug, {480, 720}, MotionDims) BY TablesHaveDefault DEF MotionDims
  <2>3. Owner(slug) = 33 /\ Owner(name) = 33
    BY Zenon DEF Owner
  <2> HIDE DEF slug, name
  <2>4. Sound(VideoModels[33], {slug, name})
    BY <2>1, <2>2 DEF Sound, Names, Row
  <2> QED BY <1>33, <2>3, <2>4 DEF Sound
<1> QED
  BY <1>1, <1>2, <1>3, <1>4, <1>5, <1>6, <1>7, <1>8, <1>9, <1>10, <1>11, <1>12,
          <1>13, <1>14, <1>15, <1>16, <1>17, <1>18, <1>19, <1>20, <1>21, <1>22, <1>23,
          <1>24, <1>25, <1>26, <1>27, <1>28, <1>29, <1>30, <1>31, <1>32, <1>33
LEMMA NotUnknown == Owner(Unknown) = 0
  BY Zenon DEF Owner, Unknown

LEMMA Rows == Len(VideoModels) = 33 /\ Range(VideoModels) = {VideoModels[i] : i \in 1..33}
<1>1. Len(VideoModels) = 33 /\ DOMAIN VideoModels = 1..33
  BY DEF VideoModels
<1> QED
  BY <1>1 DEF Range

(* Every callable model is found by each of its names, and its row by its
   slug.                                                                   *)
LEMMA RowFound ==
  ASSUME NEW i \in 1..33, NEW q \in Names(VideoModels[i])
  PROVE  /\ Model(VideoModels[i].slug) = VideoModels[i]
         /\ LookupVideoModel(q) =
              IF VideoModels[i].hidden THEN Unknown ELSE VideoModels[i].slug
         /\ VideoModels[i].slug # Unknown
<1>1. \A j \in 1..33 : VideoModels[j].slug \in Names(VideoModels[j])
  BY DEF Names
<1>2. \A j \in 1..33 : q \in Names(VideoModels[j]) => j = i
  <2> TAKE j \in 1..33
  <2>1. Owner(q) = i
    BY RowsSound
  <2>2. q \in Names(VideoModels[j]) => Owner(q) = j
    BY RowsSound
  <2> QED
    BY <2>1, <2>2
<1>3. \A j \in 1..33 : VideoModels[j].slug = VideoModels[i].slug => j = i
  <2> TAKE j \in 1..33
  <2>1. Owner(VideoModels[i].slug) = i /\ Owner(VideoModels[j].slug) = j
    BY <1>1, RowsSound
  <2> QED
    BY <2>1
<1>4. Owner(VideoModels[i].slug) = i
  BY <1>1, RowsSound
<1>5. Min({i}) = i
  BY MinOf
<1> DEFINE slugs == {j \in 1..Len(VideoModels) : VideoModels[j].slug = VideoModels[i].slug}
           rows == {j \in 1..Len(VideoModels) : ~VideoModels[j].hidden /\ GoesBy(VideoModels[j], q)}
<1>6. slugs = {i}
  BY <1>3, Rows
<1>7. rows = IF VideoModels[i].hidden THEN {} ELSE {i}
  BY <1>2, Rows DEF GoesBy, Names
<1>8. Model(VideoModels[i].slug) = VideoModels[IF slugs # {} THEN Min(slugs) ELSE 0]
  BY DEF Model, SelectInSeq
<1>9. LookupVideoModel(q) =
        LET k == IF rows # {} THEN Min(rows) ELSE 0 IN IF k = 0 THEN Unknown ELSE VideoModels[k].slug
  BY DEF LookupVideoModel, SelectInSeq
<1> HIDE DEF slugs, rows
<1>10. VideoModels[i].slug # Unknown
  BY <1>4, NotUnknown
<1> QED
  BY <1>5, <1>6, <1>7, <1>8, <1>9, <1>10

(* The duration that is paid for: one on offer, the one that was asked for
   if it is, and the longest that the request covers.                      *)
LEMMA Clamped ==
  ASSUME NEW m, m.durations \subseteq 1..20, m.duration \in m.durations, NEW req \in Int
  PROVE  LET c == ClampDuration(m, req) IN
         /\ c \in m.durations
         /\ req \in m.durations => c = req
         /\ \A d \in m.durations : req > 0 /\ c < d => req < d
<1> DEFINE D == m.durations
           fitting == {d \in D : d <= req}
<1>1. D \subseteq Nat /\ D # {} /\ \A d \in D : d > 0 /\ d <= 20
  OBVIOUS
<1> HIDE DEF D
<1>2. Min(D) \in D /\ \A d \in D : Min(D) <= d
  BY <1>1, MinOf
<1>3. CASE req <= 0
  BY <1>1, <1>3 DEF ClampDuration, D
<1>4. CASE req > 0 /\ fitting = {}
  <2>1. ClampDuration(m, req) = Min(D)
    BY <1>4 DEF ClampDuration, D
  <2>2. \A d \in D : req < d
    BY <1>1, <1>4
  <2> QED
    BY <1>1, <1>2, <2>1, <2>2 DEF D
<1>5. CASE req > 0 /\ fitting # {}
  <2>1. ClampDuration(m, req) = Max(fitting)
    BY <1>5 DEF ClampDuration, D
  <2>2. fitting \subseteq Nat /\ \A d \in fitting : d <= 20
    BY <1>1
  <2>3. Max(fitting) \in fitting /\ \A d \in fitting : d <= Max(fitting)
    BY <1>5, <2>2, MaxOf
  <2> HIDE DEF fitting
  <2>4. Max(fitting) \in D /\ Max(fitting) <= req /\ \A d \in D : d <= req => d <= Max(fitting)
    BY <2>3 DEF fitting
  <2> QED
    BY <1>1, <2>1, <2>4 DEF D
<1> QED
  BY <1>3, <1>4, <1>5

(* AdvertisedIsSubmitted, of one request.                                  *)
Right(m, o, mode, aspect, seconds, audio, image) ==
  LET advertised == /\ ~m.hidden
                    /\ mode \in m.modes /\ aspect = DefaultAspect
                    /\ audio => m.audio # "none"
                    /\ image => m.image # "no"
                    /\ m.image = "must" => image
  IN  /\ m.hidden => o = Refused
      /\ advertised =>
           IF m.slug = "grok-imagine-1.5" /\ mode = 960 THEN o = Refused
           ELSE ~o.refused /\ o.mode = mode
      /\ ~o.refused =>
           /\ o.value = m.value
           /\ o.mode \in m.modes
           /\ o.size = NoSize \/ o.size[2] \in m.dims[o.mode]
           /\ o.duration \in m.durations
           /\ seconds \in m.durations => o.duration = seconds
           /\ \A d \in m.durations : seconds > 0 /\ o.duration < d => seconds < d

LEMMA SubmissionRight ==
  ASSUME NEW i \in 1..33, NEW q \in Names(VideoModels[i]), NEW mode, NEW aspect,
         NEW seconds \in Int, NEW audio \in BOOLEAN, NEW image \in BOOLEAN
  PROVE  Right(VideoModels[i], Submission(q, mode, aspect, seconds, audio, image),
               mode, aspect, seconds, audio, image)
<1> DEFINE m == VideoModels[i]
           o == Submission(q, mode, aspect, seconds, audio, image)
           taken == ResolveResolution(m, mode)
           size == ResolveDimensions(m, taken, aspect)
           clip == ClampDuration(m, seconds)
           no == \/ size = NoSize /\ taken # AutoMode
                 \/ m.audio = "none" /\ audio
                 \/ m.image = "no" /\ image
                 \/ m.image = "must" /\ ~image
<1>1. Sound(m, Names(m))
  BY RowsSound
<1>2. /\ LookupVideoModel(q) = IF m.hidden THEN Unknown ELSE m.slug
      /\ m.slug # Unknown /\ Model(m.slug) = m
  BY RowFound
<1> HIDE DEF m
<1>3. CASE m.hidden
  <2>1. o = Refused
    BY <1>2, <1>3 DEF Submission
  <2> QED
    BY <1>3, <2>1 DEF Right, Refused, m
<1>4. CASE ~m.hidden
  <2>1. LookupVideoModel(q) = m.slug
    BY <1>2, <1>4
  <2>2. o = IF no THEN Refused
            ELSE [refused |-> FALSE, value |-> m.value, mode |-> taken, size |-> size,
                  duration |-> clip, audio |-> audio \/ m.audio = "required"]
    BY <1>2, <2>1 DEF Submission
  <2>3. taken \in m.modes /\ (mode \in m.modes => taken = mode)
    BY <1>1 DEF Sound, ResolveResolution
  <2> HIDE DEF taken
  <2>4. /\ size = NoSize \/ size[2] \in m.dims[taken]
        /\ aspect = DefaultAspect /\ taken # AutoMode =>
             (size # NoSize <=> ~(m.slug = "grok-imagine-1.5" /\ taken = 960))
    <3>1. CASE taken = AutoMode
      BY <3>1 DEF ResolveDimensions
    <3>2. CASE taken # AutoMode /\ aspect \in m.dims[taken]
      <4>1. size = <<taken, aspect>>
        BY <3>2 DEF ResolveDimensions
      <4>2. size # NoSize
        BY <3>2, <4>1 DEF NoSize, AutoMode
      <4> QED
        BY <3>2, <4>1, <4>2, <1>1, <2>3 DEF Sound, HasSizes
    <3>3. CASE taken # AutoMode /\ aspect \notin m.dims[taken]
      <4>1. CASE DefaultAspect \in m.dims[taken]
        <5>1. size = <<taken, DefaultAspect>>
          BY <3>3, <4>1 DEF ResolveDimensions
        <5> QED
          BY <3>3, <4>1, <5>1
      <4>2. CASE DefaultAspect \notin m.dims[taken]
        <5>1. size = NoSize
          BY <3>3, <4>2 DEF ResolveDimensions
        <5> QED
          BY <3>3, <4>2, <5>1, <1>1, <2>3 DEF Sound, HasSizes
      <4> QED
        BY <4>1, <4>2
    <3> QED
      BY <3>1, <3>2, <3>3
  <2>5. /\ clip \in m.durations
        /\ seconds \in m.durations => clip = seconds
        /\ \A d \in m.durations : seconds > 0 /\ clip < d => seconds < d
    BY <1>1, Clamped DEF Sound
  <2> HIDE DEF size, clip
  <2>6. CASE no
    <3>1. o = Refused /\ o.refused
      BY <2>2, <2>6 DEF Refused
    <3>2. AutoMode # 960
      BY DEF AutoMode
    <3> HIDE DEF o
    <3> QED
      BY <1>4, <2>3, <2>4, <2>6, <3>1, <3>2 DEF Right, m, o
  <2>7. CASE ~no
    <3>1. /\ ~o.refused /\ o.value = m.value /\ o.mode = taken /\ o.size = size /\ o.duration = clip
      BY <2>2, <2>7
    <3>2. AutoMode # 960
      BY DEF AutoMode
    <3> HIDE DEF o
    <3> QED
      BY <1>4, <2>3, <2>4, <2>5, <2>7, <3>1, <3>2 DEF Right, m, o
  <2> QED
    BY <2>6, <2>7
<1> QED
  BY <1>3, <1>4

(* What is asked of Leonardo, and that it alone decides what is submitted. *)
Sought(i, name, mode, aspect, seconds, both) ==
  query = [of |-> "leonardo", slug |-> VideoModels[i].slug, name |-> name, mode |-> mode,
           aspect |-> aspect, seconds |-> seconds, audio |-> both, image |-> both]
LeonardoInv ==
  query.of = "leonardo" =>
    \E i \in 1..33 : \E name \in Names(VideoModels[i]), seconds \in Seconds, both \in BOOLEAN :
      \E mode, aspect :
        /\ Sought(i, name, mode, aspect, seconds, both)
        /\ outcome = Pending \/ outcome = Submission(name, mode, aspect, seconds, both, both)

LEMMA LeonardoInvariant == CatalogsSpec => []LeonardoInv
<1>1. CatalogsInit => LeonardoInv
  <2> SUFFICES ASSUME CatalogsInit, query.of = "leonardo" PROVE LeonardoInv
    BY DEF LeonardoInv
  <2>1. AskLeonardo /\ outcome = Pending
    BY DEF CatalogsInit, AskAdobe
  <2>2. PICK m \in Range(VideoModels), seconds \in Seconds, aspect \in Aspects, both \in BOOLEAN :
          \E name \in {m.slug, m.name, m.value} \cup m.aliases, mode \in m.modes \cup {720, 4320} :
            query = [of |-> "leonardo", slug |-> m.slug, name |-> name, mode |-> mode,
                     aspect |-> aspect, seconds |-> seconds, audio |-> both, image |-> both]
    BY <2>1 DEF AskLeonardo
  <2>3. PICK i \in 1..33 : m = VideoModels[i]
    BY Rows
  <2>4. PICK name \in {m.slug, m.name, m.value} \cup m.aliases, mode \in m.modes \cup {720, 4320} :
          query = [of |-> "leonardo", slug |-> m.slug, name |-> name, mode |-> mode,
                   aspect |-> aspect, seconds |-> seconds, audio |-> both, image |-> both]
    BY <2>2
  <2>5. name \in Names(VideoModels[i]) /\ Sought(i, name, mode, aspect, seconds, both)
    BY <2>3, <2>4 DEF Names, Sought
  <2> QED
    BY <2>1, <2>5 DEF LeonardoInv
<1>2. LeonardoInv /\ [Submit]_catalogsVars => LeonardoInv'
  <2> SUFFICES ASSUME LeonardoInv, [Submit]_catalogsVars, query'.of = "leonardo" PROVE LeonardoInv'
    BY DEF LeonardoInv
  <2>1. query' = query /\ query.of = "leonardo"
    BY DEF Submit, catalogsVars
  <2>2. PICK i \in 1..33 : \E name \in Names(VideoModels[i]), seconds \in Seconds, both \in BOOLEAN :
          \E mode, aspect :
            /\ Sought(i, name, mode, aspect, seconds, both)
            /\ outcome = Pending \/ outcome = Submission(name, mode, aspect, seconds, both, both)
    BY <2>1 DEF LeonardoInv
  <2>3. PICK name \in Names(VideoModels[i]), seconds \in Seconds, both \in BOOLEAN :
          \E mode, aspect :
            /\ Sought(i, name, mode, aspect, seconds, both)
            /\ outcome = Pending \/ outcome = Submission(name, mode, aspect, seconds, both, both)
    BY <2>2
  <2>4. PICK mode, aspect :
          /\ Sought(i, name, mode, aspect, seconds, both)
          /\ outcome = Pending \/ outcome = Submission(name, mode, aspect, seconds, both, both)
    BY <2>3
  <2>5. Sought(i, name, mode, aspect, seconds, both)'
    BY <2>1, <2>4 DEF Sought
  <2>6. outcome' = Pending \/ outcome' = Submission(name, mode, aspect, seconds, both, both)
    <3>1. CASE UNCHANGED catalogsVars
      BY <2>4, <3>1 DEF catalogsVars
    <3>2. CASE Submit
      <4>1. outcome' = Submission(query.name, query.mode, query.aspect, query.seconds, query.audio, query.image)
        BY <2>1, <3>2 DEF Submit
      <4>2. /\ query.name = name /\ query.mode = mode /\ query.aspect = aspect
            /\ query.seconds = seconds /\ query.audio = both /\ query.image = both
        BY <2>4 DEF Sought
      <4> QED
        BY <4>1, <4>2
    <3> QED
      BY <3>1, <3>2
  <2> QED
    BY <2>5, <2>6 DEF LeonardoInv
<1> QED
  BY <1>1, <1>2, PTL DEF CatalogsSpec

(* For every duration and aspect ratio that a client asks for: by each of
   its names a model of the catalogue is found, what it advertises is what
   is submitted, and nothing that it does not offer is paid for
   (LookupVideoModel, resolveDimensions, clampDuration, GenerateVideo).    *)
THEOREM AdvertisedSubmittedFaithfully == CatalogsSpec => []AdvertisedIsSubmitted
<1>1. LeonardoInv => AdvertisedIsSubmitted
  <2> SUFFICES ASSUME LeonardoInv, query.of = "leonardo", outcome # Pending PROVE AdvertisedIsSubmitted
    BY DEF AdvertisedIsSubmitted
  <2>1. PICK i \in 1..33 : \E name \in Names(VideoModels[i]), seconds \in Seconds, both \in BOOLEAN :
          \E mode, aspect :
            /\ Sought(i, name, mode, aspect, seconds, both)
            /\ outcome = Submission(name, mode, aspect, seconds, both, both)
    BY DEF LeonardoInv
  <2>2. PICK name \in Names(VideoModels[i]), seconds \in Seconds, both \in BOOLEAN :
          \E mode, aspect :
            /\ Sought(i, name, mode, aspect, seconds, both)
            /\ outcome = Submission(name, mode, aspect, seconds, both, both)
    BY <2>1
  <2>3. PICK mode, aspect :
          /\ Sought(i, name, mode, aspect, seconds, both)
          /\ outcome = Submission(name, mode, aspect, seconds, both, both)
    BY <2>2
  <2>4. Right(VideoModels[i], outcome, mode, aspect, seconds, both, both)
    BY <2>3, SecondsAssumption, SubmissionRight
  <2>5. /\ query.slug = VideoModels[i].slug /\ query.mode = mode /\ query.aspect = aspect
        /\ query.seconds = seconds /\ query.audio = both /\ query.image = both
    BY <2>3 DEF Sought
  <2>6. Model(query.slug) = VideoModels[i]
    BY <2>5, RowFound
  <2> QED
    BY <2>4, <2>5, <2>6 DEF AdvertisedIsSubmitted, Right
<1> QED
  BY <1>1, LeonardoInvariant, PTL
=============================================================================
