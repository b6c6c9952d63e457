--------------------------- MODULE MCTelegramLogin ---------------------------
(* Model values and bounds for checking TelegramLogin with TLC. *)
EXTENDS TelegramLogin, TLC

CONSTANTS c1, c2, u1, u2, s1, t1, t2, null

TwoChats == {c1, c2}
TwoAccounts == {u1, u2}
OneSession == {s1}
TwoTasks == {t1, t2}

Symmetry == Permutations(Chat) \cup Permutations(Account) \cup Permutations(Task)

=============================================================================
