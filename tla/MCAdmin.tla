------------------------------ MODULE MCAdmin -------------------------------
(* A small instance of Admin: two sockets and two loads, two permission    *)
(* changes, a log entry, a ban; two rows, two filters, three requests of   *)
(* which two overlap; two sub-admins and features, three clicks; one user, *)
(* two handlers, one mail, one event posted again; two editors, three rows *)
(* under two tabs; one failure of anything.                                *)
EXTENDS Admin, TLC

CONSTANTS d1, d2, e1, e2, x2, k2, k3

\* Interchangeable: sockets, requests, loads, webhook calls, administrators.
Symmetry == Permutations({d1, d2}) \cup Permutations({e1, e2})

\* Two banner rows do not keep every value; the page corrects one of them.
Unkept == {<<k2, x2>>, <<k3, x2>>}
=============================================================================
