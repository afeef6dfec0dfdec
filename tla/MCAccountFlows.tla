--------------------------- MODULE MCAccountFlows ---------------------------
(* Small instances of AccountFlows. *)
EXTENDS AccountFlows, TLC
CONSTANTS a, b, p1, p2, p3, t1, t2, t3, c1, c2, server

FreshRow(acct, payload, jwt) ==
  [payload |-> payload, embedded |-> NoToken, acct |-> acct, jwt |-> jwt,
   status |-> "active", active |-> TRUE, disabled |-> "", fails |-> 0,
   reason |-> "", cooling |-> FALSE]
BoundRow == {FreshRow(a, p1, t1)}
OneProcess == (c1 :> server) @@ (c2 :> server)
JobAndSweeps == (c1 :> {"generate"}) @@ (c2 :> {"recover", "expiring"})
SweepAndManual == (c1 :> {"recover", "expiring"}) @@ (c2 :> {"sessions", "profiles", "sync"})
Interchangeable == Permutations(({t1, t2, t3} \cap Tokens) \ Opaque) \cup Permutations({p1, p2, p3} \cap Payloads)
=============================================================================
