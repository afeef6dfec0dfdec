---------------------------- MODULE MCAccountPool ----------------------------
(* The pools and the logins of the runs AccountPool and Workspaces.         *)
EXTENDS AccountPool, TLC

CONSTANTS a, b, p1, p2, ta, tb, c1, c2

Fresh(p, e, u, t) == [NewRow(p, e, u) EXCEPT !.jwt = t]
Dead(r) ==
  [r EXCEPT !.active = FALSE, !.status = "invalid", !.disabled = "INVALID", !.jwt = NoToken]

(* A dead account that has two rows; one that is alive, and another.        *)
Pools == {<<Dead(Fresh(p1, NoToken, a, ta)), Fresh(NoPayload, ta, a, NoToken)>>,
          <<Fresh(p1, NoToken, a, ta), Dead(Fresh(p2, NoToken, b, tb))>>}

(* The session p1 was a's and is b's now.                                   *)
Switched == {<<p1, a>>, <<p1, b>>, <<p2, b>>}
Owner == (ta :> a) @@ (tb :> b)
Curls == {<<p1, ta, FALSE>>, <<p1, tb, FALSE>>, <<p2, tb, FALSE>>, <<NoPayload, ta, FALSE>>,
          <<p1, ta, TRUE>>, <<p1, tb, TRUE>>}

Alike == Permutations({c1, c2})
=============================================================================
