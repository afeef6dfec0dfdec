------------------------------ MODULE Sidecar -------------------------------
(***************************************************************************)
(* The manager of the Adobe sidecar, the Python process that listens on    *)
(* port 6001 (internal/adobe/manager_windows.go).                          *)
(*                                                                         *)
(* Every call of Start or Restart from the desktop runs in a goroutine of  *)
(* its own, and nothing but the health of the service, the port and the    *)
(* process id in sidecar.pid tells what was started before.  A process     *)
(* that finds the port taken when it has started up ends.                  *)
(***************************************************************************)
EXTENDS Naturals

CONSTANTS
  Callers, \* the desktop's calls; two of them are a double click
  Pids,    \* process ids; bound: how many sidecar processes live at a time
  NoPid,
  Prompt   \* does a process come up before its start is given up after 10 s?

ASSUME SidecarAssumption == NoPid \notin Pids /\ Prompt \in BOOLEAN

VARIABLES
  proc,    \* each sidecar process; "hung" listens and fails the health check
  pidfile, \* sidecar.pid
  caller   \* where each call is, and the process id that it started or read

sidecarVars == <<proc, pidfile, caller>>
-----------------------------------------------------------------------------
Caller == [at : {"idle", "status", "port", "spawn", "record", "wait", "kill", "free"},
           pid : Pids \cup {NoPid}]

SidecarTypeOK ==
  /\ proc \in [Pids -> {"none", "starting", "serving", "hung"}]
  /\ pidfile \in Pids \cup {NoPid}
  /\ caller \in [Callers -> Caller]

Serving   == \E p \in Pids : proc[p] = "serving"
Listening == \E p \in Pids : proc[p] \in {"serving", "hung"}

Go(c, l, p) == caller' = [caller EXCEPT ![c] = [at |-> l, pid |-> p]]
Return(c)   == Go(c, "idle", NoPid)
-----------------------------------------------------------------------------
(* Start is called, by itself or at the end of Restart.                    *)
CallStart(c) ==
  /\ caller[c].at = "idle"
  /\ Go(c, "status", NoPid)
  /\ UNCHANGED <<proc, pidfile>>

Healthy(c) ==
  /\ caller[c].at = "status"
  /\ IF Serving THEN Return(c) ELSE Go(c, "port", NoPid)
  /\ UNCHANGED <<proc, pidfile>>

(* Mutant: whoever has the port, a process is started.                     *)
PortFree_Unasked(c) ==
  /\ caller[c].at = "port"
  /\ Go(c, "spawn", NoPid)
  /\ UNCHANGED <<proc, pidfile>>

PortFree(c) ==
  /\ caller[c].at = "port"
  /\ IF Listening THEN Return(c) ELSE Go(c, "spawn", NoPid)
  /\ UNCHANGED <<proc, pidfile>>

Spawn(c) ==
  /\ caller[c].at = "spawn"
  /\ \E p \in Pids :
       /\ proc[p] = "none"
       /\ \A d \in Callers : caller[d].at = "record" => caller[d].pid # p
       /\ proc' = [proc EXCEPT ![p] = "starting"]
       /\ Go(c, "record", p)
  /\ UNCHANGED pidfile

Record(c) ==
  /\ caller[c].at = "record"
  /\ pidfile' = caller[c].pid
  /\ Go(c, "wait", caller[c].pid)
  /\ UNCHANGED proc

(* Start waits ten seconds for the health of the service.                  *)
Started(c) ==
  /\ caller[c].at = "wait"
  /\ Serving
  /\ Return(c)
  /\ UNCHANGED <<proc, pidfile>>

GiveUp(c) ==
  /\ caller[c].at = "wait"
  /\ Prompt => \A p \in Pids : proc[p] # "starting"
  /\ Return(c)
  /\ UNCHANGED <<proc, pidfile>>
-----------------------------------------------------------------------------
(* Restart reads sidecar.pid, kills that process with its children,        *)
(* waits five seconds for the port, and starts the service.                *)
CallRestart(c) ==
  /\ caller[c].at = "idle"
  /\ IF pidfile = NoPid THEN Go(c, "free", NoPid) ELSE Go(c, "kill", pidfile)
  /\ UNCHANGED <<proc, pidfile>>

(* taskkill may fail; its answer is not looked at.                         *)
Kill(c) ==
  /\ caller[c].at = "kill"
  /\ proc' \in {proc, [proc EXCEPT ![caller[c].pid] = "none"]}
  /\ Go(c, "free", NoPid)
  /\ UNCHANGED pidfile

Freed(c) ==
  /\ caller[c].at = "free"
  /\ IF Listening THEN Return(c) ELSE Go(c, "status", NoPid)
  /\ UNCHANGED <<proc, pidfile>>
-----------------------------------------------------------------------------
(* A process has started up; it listens if the port is free.               *)
ComeUp(p) ==
  /\ proc[p] = "starting"
  /\ proc' = [proc EXCEPT ![p] = IF Listening THEN "none" ELSE "serving"]
  /\ UNCHANGED <<pidfile, caller>>

(* It hangs, recovers, and ends.                                           *)
Hang(p) ==
  /\ proc[p] = "serving"
  /\ proc' = [proc EXCEPT ![p] = "hung"]
  /\ UNCHANGED <<pidfile, caller>>

Recover(p) ==
  /\ proc[p] = "hung"
  /\ proc' = [proc EXCEPT ![p] = "serving"]
  /\ UNCHANGED <<pidfile, caller>>

End(p) ==
  /\ proc[p] # "none"
  /\ proc' = [proc EXCEPT ![p] = "none"]
  /\ UNCHANGED <<pidfile, caller>>

Manage(c) ==
  \/ CallStart(c) \/ Healthy(c) \/ PortFree(c) \/ Spawn(c) \/ Record(c)
  \/ Started(c) \/ GiveUp(c) \/ CallRestart(c) \/ Kill(c) \/ Freed(c)

SidecarInit ==
  /\ proc = [p \in Pids |-> "none"]
  /\ pidfile = NoPid
  /\ caller = [c \in Callers |-> [at |-> "idle", pid |-> NoPid]]

SidecarNext ==
  \/ \E c \in Callers : Manage(c)
  \/ \E p \in Pids : ComeUp(p) \/ Hang(p) \/ Recover(p) \/ End(p)

SidecarSpec == SidecarInit /\ [][SidecarNext]_sidecarVars
-----------------------------------------------------------------------------
(* Restart can stop the service: the process that has the port is the one
   that sidecar.pid names, unless a call is about to write the file.  It is
   what Restart's own comment is about ("making restart appear successful
   without actually reloading the Sidecar", manager_windows.go:141-144): a
   process that no file names keeps the port, and every Restart and Start
   then fails.                                                             *)
SidecarKillable ==
  \A p \in Pids :
    proc[p] \in {"serving", "hung"} =>
      pidfile = p \/ \E c \in Callers : caller[c].at = "record"
=============================================================================
