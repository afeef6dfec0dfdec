---------------------------- MODULE PaidRequests ----------------------------
(***************************************************************************)
(* What a client may rely on that names its video requests and waits for   *)
(* an answer before it repeats one: a request is being generated at most   *)
(* once at a time, and is paid for again only if nothing came of it, or if *)
(* what came of it is gone.                                                *)
(***************************************************************************)
EXTENDS Naturals

CONSTANT Requests

VARIABLES
  underWay, \* how many paid generations of each request are under way
  delivered \* the requests that have a result

paid == <<underWay, delivered>>
-----------------------------------------------------------------------------
Init ==
  /\ underWay = [r \in Requests |-> 0]
  /\ delivered = {}

Pay(r) ==
  /\ underWay[r] = 0
  /\ r \notin delivered
  /\ underWay' = [underWay EXCEPT ![r] = 1]
  /\ UNCHANGED delivered

Deliver(r) ==
  /\ underWay[r] = 1
  /\ underWay' = [underWay EXCEPT ![r] = 0]
  /\ delivered' = delivered \cup {r}

GiveUp(r) ==
  /\ underWay[r] = 1
  /\ underWay' = [underWay EXCEPT ![r] = 0]
  /\ UNCHANGED delivered

(* The result is hidden, or overwritten.                                   *)
Lose(r) ==
  /\ r \in delivered
  /\ delivered' = delivered \ {r}
  /\ UNCHANGED underWay

(* The server ends: it does not know any more what is under way.           *)
Crash ==
  /\ underWay' = [r \in Requests |-> 0]
  /\ UNCHANGED delivered

Next ==
  \/ \E r \in Requests : Pay(r) \/ Deliver(r) \/ GiveUp(r) \/ Lose(r)
  \/ Crash

Spec == Init /\ [][Next]_paid
=============================================================================
