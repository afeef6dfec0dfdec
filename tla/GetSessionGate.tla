--------------------------- MODULE GetSessionGate ---------------------------
(***************************************************************************)
(* What the refresh lease promises: "one serialized get-session refresh"   *)
(* per account (session_manager.go:57), across the desktop program and the *)
(* 8001 API process (cookies.go:356-357).  A get-session request is inside *)
(* the gate from before it is sent until it is answered, times out or dies *)
(* with its process.                                                       *)
(***************************************************************************)
CONSTANT Requesters
VARIABLE inside

GateInit == inside = {}

Enter(r) == inside = {} /\ inside' = {r}
Leave(r) == inside = {r} /\ inside' = {}

GateNext == \E r \in Requesters : Enter(r) \/ Leave(r)

GateSpec == GateInit /\ [][GateNext]_inside
=============================================================================
