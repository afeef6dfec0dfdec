---------------------------- MODULE RefreshLease ----------------------------
(***************************************************************************)
(* The refresh lease of one account, with its clock (store/cookies.go:356- *)
(* 382, used by service/session_manager.go:112-142).                       *)
(*                                                                         *)
(* A lease is a row of the shared database: an owner and a second until    *)
(* which it holds.  A call reads the clock, and only then does the UPDATE  *)
(* reach the database, which may let it wait; the lease it writes counts   *)
(* from the earlier reading.  A process that dies leaves its lease behind. *)
(*                                                                         *)
(* The mutex of the account lets one call per process come this far, so a  *)
(* requester is an OS process.  Both run on one machine and read the same  *)
(* clock, which is not set back.                                           *)
(***************************************************************************)
EXTENDS Integers

CONSTANTS
  Procs,       \* OS processes that share the database
  Nobody,      \* the empty refresh_lease_owner
  Orphan,      \* an owner whose call is over without having released
  LeaseTTL,    \* time.Now().Add(90*time.Second)
  HttpTimeout, \* the time limit of the get-session request, 60 s
  DbWait,      \* how long SQLite lets a statement wait, at most 30 s
  MaxNow       \* bound: the clock stops here

(* DbWait + HttpTimeout <= LeaseTTL is 30 s + 60 s <= 90 s.                *)
ASSUME LeaseAssumption ==
  /\ Nobody \notin Procs
  /\ Orphan \notin Procs
  /\ Nobody # Orphan
  /\ LeaseTTL \in Nat /\ HttpTimeout \in Nat /\ DbWait \in Nat /\ MaxNow \in Nat
  /\ DbWait + HttpTimeout <= LeaseTTL

VARIABLES
  now,    \* the clock, in seconds (starts above zero)
  until,  \* refresh_lease_until, zero when free
  owner,  \* refresh_lease_owner
  pc,     \* where the call of each process is
  sample, \* the clock when the call read it for its UPDATE
  since   \* the clock when the call's present step began

vars == <<now, until, owner, pc, sample, since>>
-----------------------------------------------------------------------------
Phases == {"idle", "ask", "wait", "askagain", "fetch", "save", "success", "release"}

TypeOK ==
  /\ now \in Nat \ {0}
  /\ until \in Nat
  /\ owner \in Procs \cup {Nobody, Orphan}
  /\ pc \in [Procs -> Phases]
  /\ sample \in [Procs -> Nat]
  /\ since \in [Procs -> Nat]

Step(p, l) ==
  /\ pc' = [pc EXCEPT ![p] = l]
  /\ since' = [since EXCEPT ![p] = now]

(* The clock is read, for leaseUntil and for the UPDATE's own condition.   *)
Ask(p) ==
  /\ pc[p] = "idle"
  /\ Step(p, "ask")
  /\ sample' = [sample EXCEPT ![p] = now]
  /\ UNCHANGED <<now, until, owner>>

(* Mutant: a lease that has not ended yet is taken over.                   *)
Free_OneEarly(p) == until = 0 \/ until <= sample[p] + 1 \/ owner = p

(* The condition of the UPDATE in TryAcquireCookieRefreshLease.            *)
Free(p) == until = 0 \/ until < sample[p] \/ owner = p

Take(p) ==
  /\ until' = sample[p] + LeaseTTL
  /\ owner' = p
  /\ Step(p, "fetch")

(* The UPDATE runs.                                                        *)
TryAcquire(p) ==
  /\ pc[p] = "ask"
  /\ \/ Free(p) /\ Take(p)
     \/ ~Free(p) /\ Step(p, "wait") /\ UNCHANGED <<until, owner>>
  /\ UNCHANGED <<now, sample>>

(* The poll finds a JWT and the call returns.                              *)
Published(p) ==
  /\ pc[p] = "wait"
  /\ Step(p, "idle")
  /\ UNCHANGED <<now, until, owner, sample>>

(* The poll finds the lease ended, or eight seconds are over: ask again.   *)
AskAgain(p) ==
  /\ pc[p] = "wait"
  /\ Step(p, "askagain")
  /\ sample' = [sample EXCEPT ![p] = now]
  /\ UNCHANGED <<now, until, owner>>

TryAcquireAgain(p) ==
  /\ pc[p] = "askagain"
  /\ \/ Free(p) /\ Take(p)
     \/ ~Free(p) /\ Step(p, "idle") /\ UNCHANGED <<until, owner>>
  /\ UNCHANGED <<now, sample>>

(* get-session is answered or times out.                                   *)
Answer(p) ==
  /\ pc[p] = "fetch"
  /\ Step(p, "save")
  /\ UNCHANGED <<now, until, owner, sample>>

(* The two statements that store the outcome.                              *)
Save(p) ==
  /\ pc[p] = "save"
  /\ Step(p, "success")
  /\ UNCHANGED <<now, until, owner, sample>>

Success(p) ==
  /\ pc[p] = "success"
  /\ Step(p, "release")
  /\ UNCHANGED <<now, until, owner, sample>>

(* Mutants: the release puts the end of the lease in the past; it does not *)
(* ask who owns the lease.                                                 *)
Release_InThePast(p) ==
  /\ pc[p] = "release"
  /\ until' = now - LeaseTTL
  /\ owner' = Nobody
  /\ Step(p, "idle")
  /\ UNCHANGED <<now, sample>>
Release_Any(p) ==
  /\ pc[p] = "release"
  /\ until' = 0
  /\ owner' = Nobody
  /\ Step(p, "idle")
  /\ UNCHANGED <<now, sample>>

(* ReleaseCookieRefreshLease.                                              *)
Release(p) ==
  /\ pc[p] = "release"
  /\ IF owner = p
     THEN until' = 0 /\ owner' = Nobody
     ELSE UNCHANGED <<until, owner>>
  /\ Step(p, "idle")
  /\ UNCHANGED <<now, sample>>

(* The release fails, unnoticed, or the process dies: the lease stays.  A  *)
(* later call has another owner string.                                    *)
Abandon(p) ==
  /\ pc[p] # "idle"
  /\ owner' = IF owner = p THEN Orphan ELSE owner
  /\ Step(p, "idle")
  /\ UNCHANGED <<now, until, sample>>

(* How long a step may take.                                               *)
Limit(l) == IF l = "fetch" THEN HttpTimeout ELSE DbWait
Timed == {"ask", "askagain", "fetch", "save", "success", "release"}

Tick ==
  /\ now < MaxNow
  /\ \A p \in Procs : pc[p] \in Timed => now < since[p] + Limit(pc[p])
  /\ now' = now + 1
  /\ UNCHANGED <<until, owner, pc, sample, since>>
-----------------------------------------------------------------------------
Init ==
  /\ now = 1
  /\ until = 0
  /\ owner = Nobody
  /\ pc = [p \in Procs |-> "idle"]
  /\ sample = [p \in Procs |-> 0]
  /\ since = [p \in Procs |-> 0]

Next ==
  \/ \E p \in Procs :
       \/ Ask(p) \/ TryAcquire(p) \/ Published(p) \/ AskAgain(p) \/ TryAcquireAgain(p)
       \/ Answer(p) \/ Save(p) \/ Success(p) \/ Release(p) \/ Abandon(p)
  \/ Tick

Spec == Init /\ [][Next]_vars
-----------------------------------------------------------------------------
(* No two processes have a get-session request for the account under way,
   even if each waited as long as SQLite and the HTTP client let it, and
   whichever process died (cookies.go:356-357).                            *)
GetSessionExclusive ==
  \A p, q \in Procs : pc[p] = "fetch" /\ pc[q] = "fetch" => p = q

(* The same as a refinement: the lease implements the gate. *)
Gate == INSTANCE GetSessionGate
          WITH Requesters <- Procs, inside <- {p \in Procs : pc[p] = "fetch"}
GateSpec == Gate!GateSpec

(* A call that the database kept waiting until its lease ended and was taken
   over does not release the lease of its successor (cookies.go:376-380).  *)
ReleasesOwnLease ==
  [][\A p \in Procs : owner = p /\ owner' = Nobody => pc[p] = "release"]_vars

(* Between sending get-session and having stored its answer. *)
Refreshing(p) == pc[p] \in {"fetch", "save", "success"}

(* When the three statements are quick enough, no process even starts a
   refresh before the answer of the one before is stored.  This is what the
   untimed lease of SessionManager takes for granted.                      *)
QuickDatabase == 3 * DbWait + HttpTimeout <= LeaseTTL
HolderNotOvertaken ==
  QuickDatabase => \A p, q \in Procs : Refreshing(p) /\ Refreshing(q) => p = q
=============================================================================
