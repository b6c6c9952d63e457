---------------------------- MODULE MCAdminRoles ----------------------------
(* Model values and bounds for checking AdminRoles with TLC. *)
EXTENDS AdminRoles, TLC

CONSTANTS u1, u2, r1, r2, r3, master, null

TwoUsers == {u1, u2}
TwoRequests == {r1, r2}
ThreeRequests == {r1, r2, r3}

\* u1 owns the site; u2 is nobody, an administrator or a second owner.
TwoListings == {[u \in TwoUsers |-> IF u = u1 THEN "super" ELSE x] : x \in {"super", "admin", "none"}}

Symmetry == Permutations(Request)
=============================================================================
