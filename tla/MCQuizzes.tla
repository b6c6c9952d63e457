------------------------------ MODULE MCQuizzes ------------------------------
(* Model values and bounds for checking Quizzes with TLC. *)
EXTENDS Quizzes

CONSTANTS o1, o2, o3, u1, u2, t1, t2, a1, a2, none

ThreeOptions == {o1, o2, o3}
OneTaker == {u1}
TwoTakers == {u1, u2}
TwoTabs == {t1, t2}
TwoAdmins == {a1, a2}

\* Texts, tabs, takers and administrators are interchangeable.
Symmetry == Permutations(Option) \cup Permutations(Tab) \cup Permutations(Admin) \cup Permutations(Taker)
=============================================================================
