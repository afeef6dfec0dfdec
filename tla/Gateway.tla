------------------------------ MODULE Gateway -------------------------------
(***************************************************************************)
(* The 8001 API server with its Adobe jobs, the sidecar that makes their   *)
(* images and videos, and the desktop, which may restart either one        *)
(* (internal/desktop/app.go).                                              *)
(*                                                                         *)
(* The desktop restarts the server only if its status page counts no task  *)
(* of the Leonardo and of the Adobe table.  A task of VideoTasks is here   *)
(* only under way or not.                                                  *)
(***************************************************************************)
EXTENDS AdobeJobs, Sidecar

CONSTANT
  StatusInTime \* does the status page answer the desktop within 2 s?

ASSUME GatewayAssumption == StatusInTime \in BOOLEAN

VARIABLES
  leonardo, \* is a Leonardo video task under way?
  up,       \* does the server listen on port 8001?
  desk      \* where the desktop's RestartLeonardoService is

gatewayVars == <<leonardo, up, desk>>
vars == <<adobeVars, sidecarVars, gatewayVars>>

TypeOK ==
  /\ AdobeTypeOK
  /\ SidecarTypeOK
  /\ leonardo \in BOOLEAN
  /\ up \in BOOLEAN
  /\ desk \in {"idle", "checked", "waiting"}
-----------------------------------------------------------------------------
(* handleLeonardoAdminStatus: a task that is neither completed nor failed. *)
ActiveTasks ==
  leonardo \/ \E i \in table : job[i].status \notin Finished

(* RestartLeonardoService asks for the status; a server that does not      *)
(* answer is taken to have no task.                                        *)
CheckTasks ==
  /\ desk = "idle"
  /\ ~ActiveTasks \/ ~up \/ ~StatusInTime
  /\ desk' = "checked"
  /\ UNCHANGED <<adobeVars, sidecarVars, leonardo, up>>

(* It ends the process that listens on the port.                           *)
StopServer ==
  /\ desk = "checked"
  /\ desk' = "waiting"
  /\ Forget
  /\ leonardo' = FALSE
  /\ up' = FALSE
  /\ UNCHANGED sidecarVars

StartServer ==
  /\ desk = "waiting"
  /\ ~up
  /\ up' = TRUE
  /\ UNCHANGED <<adobeVars, sidecarVars, leonardo, desk>>

(* It waits ten seconds for the server, and comes to an end with or        *)
(* without one, or earlier when the program is not found or not stopped.   *)
Restarted ==
  /\ desk \in {"checked", "waiting"}
  /\ desk' = "idle"
  /\ UNCHANGED <<adobeVars, sidecarVars, leonardo, up>>
-----------------------------------------------------------------------------
LeonardoTask ==
  /\ up
  /\ leonardo' = ~leonardo
  /\ UNCHANGED <<adobeVars, sidecarVars, up, desk>>

Handle(h) ==
  /\ up
  /\ \/ \E ask \in Asks : Receive(h, ask[2], ask[1])
     \/ Refresh(h) \/ FetchFails(h) \/ Look(h) \/ Reuse(h) \/ NotStored(h) \/ Insert(h)
     \/ ImageFails(h)
     \/ Serving /\ (Fetched(h) \/ FetchEmpty(h) \/ ImageDone(h))
  /\ UNCHANGED <<sidecarVars, gatewayVars>>

Work(i) ==
  /\ \/ Begin(i) \/ Error(i) \/ LogRow(i)
     \/ Serving /\ Answer(i)
  /\ UNCHANGED <<sidecarVars, gatewayVars>>

(* A sidecar process that ends takes the calls it serves with it.          *)
SidecarStep ==
  /\ SidecarNext
  /\ IF \E p \in Pids : proc[p] \in {"serving", "hung"} /\ proc'[p] = "none"
     THEN Cut ELSE UNCHANGED adobeVars
  /\ UNCHANGED gatewayVars

Init ==
  /\ AdobeInit
  /\ SidecarInit
  /\ leonardo = FALSE
  /\ up = TRUE
  /\ desk = "idle"

Next ==
  \/ \E h \in Handlers : Handle(h)
  \/ \E i \in Jobs : Work(i)
  \/ Expire /\ UNCHANGED <<sidecarVars, gatewayVars>>
  \/ SidecarStep
  \/ LeonardoTask
  \/ CheckTasks \/ StopServer \/ StartServer \/ Restarted

Spec == Init /\ [][Next]_vars
-----------------------------------------------------------------------------
(* The desktop restarts the server only if no task was under way when it
   asked ("please wait until it is done and restart then",
   app.go:171-173): what the status page counts, the tables' statuses,
   misses no job whose goroutine waits for a video.  A task that comes
   between the question and the end of the process is lost, and so is an
   image, which no table knows.                                            *)
RestartSpares ==
  [][desk = "idle" /\ desk' = "checked" =>
       ~leonardo /\ \A i \in Jobs : job[i].work \notin {"queued", "generating", "cut"}]_vars
=============================================================================
