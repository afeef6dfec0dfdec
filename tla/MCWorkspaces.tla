---------------------------- MODULE MCWorkspaces -----------------------------
(* The accounts and the logins of the run Workspaces.                       *)
EXTENDS Workspaces, TLC

CONSTANTS a, b, p1, ta, tb, c1, c2, w1, w2

(* The account a has two rows: a dead one, and one without a cookie.        *)
Pools ==
  {<<[NewRow(p1, NoToken, a) EXCEPT !.active = FALSE, !.status = "invalid", !.disabled = "INVALID"],
     NewRow(NoPayload, ta, a)>>}

(* The session p1 was a's and is b's now.                                   *)
Switched == {<<p1, a>>, <<p1, b>>}
Owner == (ta :> a) @@ (tb :> b)
Curls == {<<p1, ta, FALSE>>, <<p1, tb, FALSE>>, <<p1, tb, TRUE>>}

Alike == Permutations({c1, c2}) \cup Permutations({w1, w2})
=============================================================================
