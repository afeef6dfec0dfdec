-------------------------- MODULE MCSessionManager --------------------------
(* Small instances of SessionManager. *)
EXTENDS SessionManager, TLC
CONSTANTS a, b, p1, p2, p3, t1, t2, t3, c1, c2, desktop, server

FreshRow(acct, payload, jwt) ==
  [payload |-> payload, embedded |-> NoToken, acct |-> acct, jwt |-> jwt,
   status |-> "active", active |-> TRUE, disabled |-> "", fails |-> 0,
   reason |-> "", cooling |-> FALSE]
BoundRow == {FreshRow(a, p1, t1)}
TokenRow == [FreshRow(a, NoPayload, NoToken) EXCEPT !.embedded = t1]
BoundAndTokenRow == BoundRow \cup {TokenRow}
OneProcess == (c1 :> server) @@ (c2 :> server)
Interchangeable == Permutations(({t1, t2, t3} \cap Tokens) \ Opaque) \cup Permutations({p1, p2, p3} \cap Payloads)
TwoProcesses == (c1 :> server) @@ (c2 :> desktop)
=============================================================================
