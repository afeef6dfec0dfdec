----------------------------- MODULE VideoTasks -----------------------------
(***************************************************************************)
(* The asynchronous video tasks of the 8001 API server                     *)
(* (internal/server/server.go, generation_reuse.go).                       *)
(*                                                                         *)
(* A client names its request with a client_request_id so that it may      *)
(* repeat it: the server answers with the task it already has for that id, *)
(* or with the result in the generation log, and starts a paid generation  *)
(* only if there is neither.  The task table and the index of request ids  *)
(* are in memory and shared, under one lock, by the request handlers and   *)
(* the goroutine of every task; the log is in the database and survives a  *)
(* restart.  A handler lets go of the lock between its look at the table,  *)
(* its look at the log and its insertion.                                  *)
(*                                                                         *)
(* The prompt and the model are taken to be a function of the request id.  *)
(***************************************************************************)
EXTENDS Naturals, FiniteSets

CONSTANTS
  Handlers,  \* request handlers of the HTTP server
  Requests,  \* client_request_ids
  NoRequest, \* a request without one
  Jobs,      \* task ids; bound: how many tasks can be remembered
  NoJob,
  Capacity,  \* the size at which the table starts to forget finished tasks
  Endpoints, \* the endpoints in use
  Patient,   \* the requests whose client waits for an answer before it
             \* repeats them, and does not use the endpoint that waits
  Restarts   \* may the server be restarted?

ASSUME TaskAssumption ==
  /\ NoRequest \notin Requests
  /\ NoJob \notin Jobs
  /\ Capacity \in Nat
  /\ Endpoints \subseteq {"task", "image", "sync"}
  /\ Patient \subseteq Requests
  /\ Restarts \in BOOLEAN

VARIABLES
  table,  \* the keys of videoJobs
  job,    \* the task with each id, and where its goroutine is
  index,  \* videoRequestJobs
  stored, \* requests with a successful, visible row in the generation log
  at,     \* where each handler is
  asked   \* the request id it was sent

vars == <<table, job, index, stored, at, asked>>
-----------------------------------------------------------------------------
Status   == {"queued", "in_progress", "completed", "failed"}
Finished == {"completed", "failed"}

NewJob(r, status, work) == [request |-> r, status |-> status, work |-> work]
Job == [request : Requests \cup {NoRequest}, status : Status,
        work : {"queued", "generating", "logged", "done"}]
Forgotten == NewJob(NoRequest, "failed", "done")

TypeOK ==
  /\ table \subseteq Jobs
  /\ job \in [Jobs -> Job]
  /\ index \in [Requests -> Jobs \cup {NoJob}]
  /\ stored \subseteq Requests
  /\ at \in [Handlers -> {"idle", "lookup", "reuse", "insert", "image", "sync", "wait"}]
  /\ asked \in [Handlers -> Requests \cup {NoRequest}]

(* The task that the index has for a request id.                           *)
Known(r) == r # NoRequest /\ index[r] \in table

(* Task ids are random: a new one is not the id of anything remembered.    *)
(* Bound: a request is received only if an id is left for it.              *)
Fresh(i) ==
  /\ i \notin table
  /\ job[i].work = "done"
  /\ \A r \in Requests : index[r] # i

Indexed(r, i) == IF r = NoRequest THEN index ELSE [index EXCEPT ![r] = i]

IdsLeft ==
  Cardinality({h \in Handlers : at[h] # "idle"}) < Cardinality({i \in Jobs : Fresh(i)})

GoTo(h, l) == at' = [at EXCEPT ![h] = l]
Leave(h) ==
  /\ GoTo(h, "idle")
  /\ asked' = [asked EXCEPT ![h] = NoRequest]
-----------------------------------------------------------------------------
(* A request arrives.  handleCreateVideoTask and handleGenerate, the image *)
(* endpoint, look for the task; the endpoint that waits for the video,     *)
(* handleGenerateVideo, does not.                                          *)
Receive(h, r, endpoint) ==
  /\ at[h] = "idle"
  /\ endpoint \in Endpoints
  /\ IdsLeft
  /\ r \in Patient => endpoint # "sync" /\ \A g \in Handlers : asked[g] # r
  /\ endpoint = "sync" \/ ~Known(r)
  /\ GoTo(h, IF endpoint = "task" THEN "lookup" ELSE endpoint)
  /\ asked' = [asked EXCEPT ![h] = r]
  /\ UNCHANGED <<table, job, index, stored>>

(* reusedVideoResponse: the result is in the generation log.               *)
Hit(h) == asked[h] \in stored

(* Mutant: the log is not asked.                                           *)
Lookup_IgnoresLog(h) ==
  /\ at[h] = "lookup"
  /\ GoTo(h, "insert")
  /\ UNCHANGED <<table, job, index, stored, asked>>

(* The handler asks the log, with no lock held.                            *)
Lookup(h) ==
  /\ at[h] = "lookup"
  /\ GoTo(h, IF Hit(h) THEN "reuse" ELSE "insert")
  /\ UNCHANGED <<table, job, index, stored, asked>>

(* The image endpoint looks for a video first; the image that it generates *)
(* otherwise is not modelled here.                                         *)
LookupImage(h) ==
  /\ at[h] = "image"
  /\ IF Hit(h) THEN GoTo(h, "reuse") /\ UNCHANGED asked ELSE Leave(h)
  /\ UNCHANGED <<table, job, index, stored>>

(* Mutant: the reused task does not record its request.                    *)
Reuse_NotRecorded(h) ==
  /\ at[h] = "reuse"
  /\ \E i \in Jobs :
       /\ Fresh(i)
       /\ table' = table \cup {i}
       /\ job' = [job EXCEPT ![i] = NewJob(NoRequest, "completed", "done")]
       /\ index' = Indexed(asked[h], i)
  /\ Leave(h)
  /\ UNCHANGED stored

(* A stored result becomes a completed task.                               *)
Reuse(h) ==
  /\ at[h] = "reuse"
  /\ \E i \in Jobs :
       /\ Fresh(i)
       /\ table' = table \cup {i}
       /\ job' = [job EXCEPT ![i] = NewJob(asked[h], "completed", "done")]
       /\ index' = Indexed(asked[h], i)
  /\ Leave(h)
  /\ UNCHANGED stored

(* Mutants: any task may be forgotten; the task is not indexed.            *)
Insert_ForgetsAny(h) ==
  /\ at[h] = "insert"
  /\ \E i \in Jobs :
       /\ Fresh(i)
       /\ job' = [job EXCEPT ![i] = NewJob(asked[h], "queued", "queued")]
       /\ index' = Indexed(asked[h], i)
       /\ IF Cardinality(table) < Capacity
          THEN table' = table \cup {i}
          ELSE \E old \in table : table' = (table \cup {i}) \ {old}
  /\ Leave(h)
  /\ UNCHANGED stored

(* A new task starts.  A full table forgets one finished task, if there is *)
(* one; the index is not cleaned.                                          *)
Insert(h) ==
  /\ at[h] = "insert"
  /\ \E i \in Jobs :
       LET all  == table \cup {i}
           over == {old \in table : job[old].status \in Finished}
       IN  /\ Fresh(i)
           /\ job' = [job EXCEPT ![i] = NewJob(asked[h], "queued", "queued")]
           /\ index' = Indexed(asked[h], i)
           /\ IF Cardinality(all) > Capacity /\ over # {}
              THEN \E old \in over : table' = all \ {old}
              ELSE table' = all
  /\ Leave(h)
  /\ UNCHANGED stored

(* The waiting endpoint generates in the handler's goroutine.              *)
LookupWaiting(h) ==
  /\ at[h] = "sync"
  /\ IF Hit(h) THEN Leave(h) ELSE GoTo(h, "wait") /\ UNCHANGED asked
  /\ UNCHANGED <<table, job, index, stored>>

Wait(h) ==
  /\ at[h] = "wait"
  /\ stored' \in {stored, stored \cup ({asked[h]} \ {NoRequest})}
  /\ Leave(h)
  /\ UNCHANGED <<table, job, index>>
-----------------------------------------------------------------------------
(* The task's goroutine.                                                   *)
Start(i) ==
  /\ job[i].work = "queued"
  /\ job' = [job EXCEPT ![i].status = "in_progress", ![i].work = "generating"]
  /\ UNCHANGED <<table, index, stored, at, asked>>

(* Mutant: a result is found under an empty request id, too.               *)
Log_NamesEmpty(i) ==
  /\ job[i].work = "generating"
  /\ stored' = stored \cup {job[i].request}
  /\ job' = [job EXCEPT ![i].work = "logged"]
  /\ UNCHANGED <<table, index, at, asked>>

(* GenerateVideo writes the result to the generation log before it returns.*)
Log(i) ==
  /\ job[i].work = "generating"
  /\ stored' = stored \cup ({job[i].request} \ {NoRequest})
  /\ job' = [job EXCEPT ![i].work = "logged"]
  /\ UNCHANGED <<table, index, at, asked>>

Complete(i) ==
  /\ job[i].work = "logged"
  /\ job' = [job EXCEPT ![i].status = "completed", ![i].work = "done"]
  /\ UNCHANGED <<table, index, stored, at, asked>>

(* Mutant: the request id still leads to the failed task.                  *)
Fail_StaysIndexed(i) ==
  /\ job[i].work = "generating"
  /\ job' = [job EXCEPT ![i].status = "failed", ![i].work = "done"]
  /\ UNCHANGED <<table, index, stored, at, asked>>

(* A failed generation takes its request id out of the index, whichever    *)
(* task that leads to by now.                                              *)
Fail(i) ==
  /\ job[i].work = "generating"
  /\ job' = [job EXCEPT ![i].status = "failed", ![i].work = "done"]
  /\ index' = Indexed(job[i].request, NoJob)
  /\ UNCHANGED <<table, stored, at, asked>>

Work(i) == Start(i) \/ Log(i) \/ Complete(i) \/ Fail(i)
-----------------------------------------------------------------------------
(* The result is not found any more: the user hides it in the library, or  *)
(* the library sync overwrites the row's request (see Generation).         *)
Lose(r) ==
  /\ r \in stored
  /\ stored' = stored \ {r}
  /\ UNCHANGED <<table, job, index, at, asked>>

(* The server process ends and starts again.                               *)
Restart ==
  /\ Restarts
  /\ table' = {}
  /\ job' = [i \in Jobs |-> Forgotten]
  /\ index' = [r \in Requests |-> NoJob]
  /\ at' = [h \in Handlers |-> "idle"]
  /\ asked' = [h \in Handlers |-> NoRequest]
  /\ UNCHANGED stored

Init ==
  /\ table = {}
  /\ job = [i \in Jobs |-> Forgotten]
  /\ index = [r \in Requests |-> NoJob]
  /\ stored = {}
  /\ at = [h \in Handlers |-> "idle"]
  /\ asked = [h \in Handlers |-> NoRequest]

Next ==
  \/ \E h \in Handlers :
       \/ \E r \in Requests \cup {NoRequest}, e \in Endpoints : Receive(h, r, e)
       \/ Lookup(h) \/ LookupImage(h) \/ Reuse(h) \/ Insert(h)
       \/ LookupWaiting(h) \/ Wait(h)
  \/ \E i \in Jobs : Work(i)
  \/ \E r \in Requests : Lose(r)
  \/ Restart

Spec == Init /\ [][Next]_vars
-----------------------------------------------------------------------------
(* The goroutines of tasks and the handlers that generate for a request.   *)
Generating(r) ==
  {i \in Jobs : job[i].request = r /\ job[i].work \in {"queued", "generating"}}
  \cup {h \in Handlers : asked[h] = r /\ at[h] = "wait"}

(* The index leads to a task of the same request: no client is answered with
   the task of another one, whatever is forgotten, reused or overwritten in
   between (server.go:656-662).                                            *)
IndexFaithful == \A r \in Requests : Known(r) => job[index[r]].request = r

(* "Keep the local task table bounded" forgets finished tasks only: a task
   whose generation is under way can be polled (server.go:697-705).        *)
RunningKept == \A i \in Jobs : job[i].work # "done" => i \in table

(* A request whose task has failed can be repeated: the index never leads to
   a failed task (server.go:737-739).                                      *)
FailureRepeatable == \A r \in Requests : Known(r) => job[index[r]].status # "failed"

(* A patient client that repeats a request, also after a restart of the
   server, does not pay for it twice: no two generations of the request are
   under way, and none is started for a result that is in the log ("without
   submitting another paid provider job", generation_reuse.go:56-58).      *)
OneTaskAtATime == \A r \in Patient : Cardinality(Generating(r)) <= 1
PaidOnce ==
  [][\A r \in stored \cap Patient : Generating(r)' \subseteq Generating(r)]_vars

(* Seen from its patient clients, the server pays for requests as
   PaidRequests says: with every interleaving of its handlers and goroutines,
   with the forgetting of tasks, lost results and restarts.                *)
Payments == INSTANCE PaidRequests
  WITH Requests  <- Patient,
       underWay  <- [r \in Patient |-> Cardinality(Generating(r))],
       delivered <- stored \cap Patient
PaymentSpec == Payments!Spec
=============================================================================
