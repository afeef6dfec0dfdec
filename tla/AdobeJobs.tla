----------------------------- MODULE AdobeJobs ------------------------------
(***************************************************************************)
(* The Adobe endpoints of the 8001 API server (internal/server/adobe.go,   *)
(* adobe_models.go, generation_reuse.go).                                  *)
(*                                                                         *)
(* A request first needs the model catalogue, which is cached and read     *)
(* again from the Adobe sidecar by one request at a time.  An image is     *)
(* generated in the handler.  A video becomes a job of its own, found by   *)
(* its client_request_id, which a goroutine runs while clients poll it.    *)
(* The jobs and the index are in memory under one lock; results are kept   *)
(* in the generation log.                                                  *)
(*                                                                         *)
(* As in VideoTasks the prompt and the model are a function of the request *)
(* id.  Requests that are refused for their form are left out.             *)
(***************************************************************************)
EXTENDS Naturals, FiniteSets

CONSTANTS
  Handlers,  \* request handlers of the HTTP server
  Requests,  \* client_request_ids
  NoRequest, \* a request without one
  Asks,      \* what clients ask for: an image or a video, under which id
  Jobs,      \* job ids; bound: how many jobs can be remembered
  NoJob,
  Capacity   \* the size at which the table starts to forget finished jobs

ASSUME AdobeAssumption ==
  /\ NoRequest \notin Requests
  /\ Asks \subseteq {"image", "video"} \X (Requests \cup {NoRequest})
  /\ NoJob \notin Jobs
  /\ Capacity \in Nat

VARIABLES
  catalog, \* the cached models: none yet, fresh, or older than the time to live
  table,   \* the keys of adobeJobs
  job,     \* the job with each id, and where its goroutine is
  index,   \* adobeRequestJobs
  stored,  \* <<media, request>> with a successful, visible row in the log
  call     \* where each handler is, and what it was asked for

adobeVars == <<catalog, table, job, index, stored, call>>
-----------------------------------------------------------------------------
Finished == {"completed", "failed", "empty"}

(* A job failed with status "empty" when the sidecar answered without a    *)
(* video address, and "failed" when its call of the sidecar failed.        *)
NewJob(r, status, work) == [request |-> r, status |-> status, work |-> work]
Job == [request : Requests \cup {NoRequest},
        status  : {"queued", "in_progress"} \cup Finished,
        work    : {"queued", "generating", "cut", "answered", "done"}]
Forgotten == NewJob(NoRequest, "failed", "done")

Idle == [at |-> "idle", request |-> NoRequest, media |-> "video"]
Call == [at : {"idle", "catalog", "refresh", "look", "log", "insert", "image",
               "refreshCut", "imageCut"},
         request : Requests \cup {NoRequest},
         media : {"image", "video"}]

AdobeTypeOK ==
  /\ catalog \in {"none", "fresh", "stale"}
  /\ table \subseteq Jobs
  /\ job \in [Jobs -> Job]
  /\ index \in [Requests -> Jobs \cup {NoJob}]
  /\ stored \subseteq {"image", "video"} \X Requests
  /\ call \in [Handlers -> Call]

Known(r) == r # NoRequest /\ index[r] \in table
Indexed(r, i) == IF r = NoRequest THEN index ELSE [index EXCEPT ![r] = i]
Result(media, r) == IF r = NoRequest THEN {} ELSE {<<media, r>>}

(* Job ids are random: a new one is not the id of anything remembered.     *)
(* Bound: a request is received only if an id is left for it.              *)
Fresh(i) ==
  /\ i \notin table
  /\ job[i].work = "done"
  /\ \A r \in Requests : index[r] # i
IdsLeft ==
  Cardinality({h \in Handlers : call[h].at # "idle"}) < Cardinality({i \in Jobs : Fresh(i)})

GoTo(h, l) == call' = [call EXCEPT ![h].at = l]
Leave(h)   == call' = [call EXCEPT ![h] = Idle]
-----------------------------------------------------------------------------
(* The catalogue.  A request arrives and finds it fresh, or waits for its  *)
(* turn to read it.                                                        *)
Receive(h, r, media) ==
  /\ call[h].at = "idle"
  /\ IdsLeft
  /\ call' = [call EXCEPT ![h] =
       [at |-> IF catalog = "fresh" THEN "look" ELSE "catalog", request |-> r, media |-> media]]
  /\ UNCHANGED <<catalog, table, job, index, stored>>

Refresh(h) ==
  /\ call[h].at = "catalog"
  /\ \A g \in Handlers : call[g].at \notin {"refresh", "refreshCut"}
  /\ GoTo(h, IF catalog = "fresh" THEN "look" ELSE "refresh")
  /\ UNCHANGED <<catalog, table, job, index, stored>>

Fetched(h) ==
  /\ call[h].at = "refresh"
  /\ catalog' = "fresh"
  /\ GoTo(h, "look")
  /\ UNCHANGED <<table, job, index, stored>>

(* The sidecar fails: the catalogue at hand serves as if it were fresh.    *)
FetchFails(h) ==
  /\ call[h].at \in {"refresh", "refreshCut"}
  /\ IF catalog = "none"
     THEN Leave(h) /\ UNCHANGED catalog
     ELSE catalog' = "fresh" /\ GoTo(h, "look")
  /\ UNCHANGED <<table, job, index, stored>>

(* The sidecar has no model: the catalogue at hand serves once more, and   *)
(* without one no model fits the request.                                  *)
FetchEmpty(h) ==
  /\ call[h].at = "refresh"
  /\ IF catalog = "none" THEN Leave(h) ELSE GoTo(h, "look")
  /\ UNCHANGED <<catalog, table, job, index, stored>>

Expire ==
  /\ catalog = "fresh"
  /\ catalog' = "stale"
  /\ UNCHANGED <<table, job, index, stored, call>>
-----------------------------------------------------------------------------
(* A job of the same request id answers, whatever its state; images have   *)
(* none.                                                                   *)
Look(h) ==
  /\ call[h].at = "look"
  /\ IF call[h].media = "video" /\ Known(call[h].request) THEN Leave(h) ELSE GoTo(h, "log")
  /\ UNCHANGED <<catalog, table, job, index, stored>>

(* A stored result becomes a completed job; a stored image is the answer.  *)
(* The table is not bounded here.                                          *)
Reuse(h) ==
  LET r == call[h].request IN
  /\ call[h].at = "log"
  /\ Result(call[h].media, r) \cap stored # {}
  /\ IF call[h].media = "image"
     THEN UNCHANGED <<table, job, index>>
     ELSE \E i \in Jobs :
            /\ Fresh(i)
            /\ table' = table \cup {i}
            /\ job' = [job EXCEPT ![i] = NewJob(r, "completed", "done")]
            /\ index' = Indexed(r, i)
  /\ Leave(h)
  /\ UNCHANGED <<catalog, stored>>

NotStored(h) ==
  /\ call[h].at = "log"
  /\ Result(call[h].media, call[h].request) \cap stored = {}
  /\ GoTo(h, IF call[h].media = "image" THEN "image" ELSE "insert")
  /\ UNCHANGED <<catalog, table, job, index, stored>>

(* Mutant: a full table forgets any job.                                   *)
Insert_ForgetsAny(h) ==
  /\ call[h].at = "insert"
  /\ \E i \in Jobs :
       LET all == table \cup {i} IN
       /\ Fresh(i)
       /\ job' = [job EXCEPT ![i] = NewJob(call[h].request, "queued", "queued")]
       /\ index' = Indexed(call[h].request, i)
       /\ IF Cardinality(all) > Capacity /\ table # {}
          THEN \E old \in table : table' = all \ {old}
          ELSE table' = all
  /\ Leave(h)
  /\ UNCHANGED <<catalog, stored>>

(* A new job.  A full table forgets one finished job, if there is one; the *)
(* index is not cleaned, and an older job of the request is not looked for *)
(* again.                                                                  *)
Insert(h) ==
  /\ call[h].at = "insert"
  /\ \E i \in Jobs :
       LET all  == table \cup {i}
           over == {old \in table : job[old].status \in Finished}
       IN  /\ Fresh(i)
           /\ job' = [job EXCEPT ![i] = NewJob(call[h].request, "queued", "queued")]
           /\ index' = Indexed(call[h].request, i)
           /\ IF Cardinality(all) > Capacity /\ over # {}
              THEN \E old \in over : table' = all \ {old}
              ELSE table' = all
  /\ Leave(h)
  /\ UNCHANGED <<catalog, stored>>

(* The image is generated while the client waits, in two endpoints: from a *)
(* prompt, and from an image, whose answer may hold no address.            *)
ImageDone(h) ==
  /\ call[h].at = "image"
  /\ stored' = stored \cup Result("image", call[h].request)
  /\ Leave(h)
  /\ UNCHANGED <<catalog, table, job, index>>

ImageFails(h) ==
  /\ call[h].at \in {"image", "imageCut"}
  /\ Leave(h)
  /\ UNCHANGED <<catalog, table, job, index, stored>>
-----------------------------------------------------------------------------
(* runAdobeVideoJob, the goroutine of a job.                               *)
Begin(i) ==
  /\ job[i].work = "queued"
  /\ job' = [job EXCEPT ![i].status = "in_progress", ![i].work = "generating"]
  /\ UNCHANGED <<catalog, table, index, stored, call>>

(* Mutant: the request id still leads to the failed job.                   *)
Error_StaysIndexed(i) ==
  /\ job[i].work \in {"generating", "cut"}
  /\ job' = [job EXCEPT ![i].status = "failed", ![i].work = "done"]
  /\ UNCHANGED <<catalog, table, index, stored, call>>

(* The call of the sidecar fails.  The request id leads to no job any      *)
(* more, whichever job it led to.                                          *)
Error(i) ==
  /\ job[i].work \in {"generating", "cut"}
  /\ job' = [job EXCEPT ![i].status = "failed", ![i].work = "done"]
  /\ index' = Indexed(job[i].request, NoJob)
  /\ UNCHANGED <<catalog, table, stored, call>>

(* The sidecar answers, with or without a video address: the status is     *)
(* set, and the index keeps the job either way.                            *)
Answer(i) ==
  /\ job[i].work = "generating"
  /\ \E s \in {"completed", "empty"} :
       job' = [job EXCEPT ![i].status = s, ![i].work = "answered"]
  /\ UNCHANGED <<catalog, table, index, stored, call>>

(* The log row is written when the lock is free again.                     *)
LogRow(i) ==
  /\ job[i].work = "answered"
  /\ stored' = IF job[i].status = "completed"
               THEN stored \cup Result("video", job[i].request) ELSE stored
  /\ job' = [job EXCEPT ![i].work = "done"]
  /\ UNCHANGED <<catalog, table, index, call>>

(* The sidecar ends: the calls it has not answered break off (all but the  *)
(* ones that were not sent yet).                                           *)
Cut ==
  /\ \E S \in SUBSET {i \in Jobs : job[i].work = "generating"} :
       job' = [i \in Jobs |-> IF i \in S THEN [job[i] EXCEPT !.work = "cut"] ELSE job[i]]
  /\ \E S \in SUBSET {h \in Handlers : call[h].at \in {"image", "refresh"}} :
       call' = [h \in Handlers |->
         IF h \notin S THEN call[h]
         ELSE [call[h] EXCEPT !.at = IF @ = "image" THEN "imageCut" ELSE "refreshCut"]]
  /\ UNCHANGED <<catalog, table, index, stored>>

(* The process ends, and all that is in memory with it.                    *)
Forget ==
  /\ catalog' = "none"
  /\ table' = {}
  /\ job' = [i \in Jobs |-> Forgotten]
  /\ index' = [r \in Requests |-> NoJob]
  /\ call' = [h \in Handlers |-> Idle]
  /\ UNCHANGED stored

AdobeInit ==
  /\ catalog = "none"
  /\ table = {}
  /\ job = [i \in Jobs |-> Forgotten]
  /\ index = [r \in Requests |-> NoJob]
  /\ stored = {}
  /\ call = [h \in Handlers |-> Idle]
-----------------------------------------------------------------------------
(* A request whose call of the sidecar failed can be repeated: its id never
   leads to a job that ended with an error, also when a second request with
   the id came in between and has a job of its own (adobe.go:413-420).  A
   job that ended without a video address stays indexed.                   *)
ErrorRepeatable == \A r \in Requests : Known(r) => job[index[r]].status # "failed"

(* No client is answered with the job of another request.                  *)
JobOfRequest == \A r \in Requests : Known(r) => job[index[r]].request = r

(* Only finished jobs are forgotten: one whose video is still being made is
   in the table, where it is polled and where the status page counts it
   (adobe.go:390-397, admin.go:76-82).                                     *)
UnfinishedKept == \A i \in Jobs : job[i].work \in {"queued", "generating", "cut"} =>
                    i \in table /\ job[i].status \notin Finished
=============================================================================
