-------------------------- MODULE MCAccountSessions --------------------------
(* Model values and bounds for checking AccountSessions with TLC. *)
EXTENDS AccountSessions, TLC

CONSTANTS a1, a2, b1, b2, r1, r2, r3, r4, no

TwoAccounts == {a1, a2}
TwoBrowsers == {b1, b2}
FourRequests == {r1, r2, r3, r4}

\* The state after r1 has registered from b1 and the mailed code was redeemed: a state the
\* specification reaches, with three requests left.
InUse ==
    /\ row = [a \in Account |-> IF a # a1 THEN Blank ELSE
                 [Blank EXCEPT !.email = "real", !.digest = r1, !.password = TRUE,
                               !.personal = TRUE, !.verified = TRUE]]
    /\ jar = [b \in Browser |-> IF b = b1 THEN r1 ELSE No] /\ minted = {a1}
    /\ at = [r \in Request |-> IF r = r1 THEN "done" ELSE "idle"]
    /\ by = [r \in Request |-> IF r = r1 THEN b1 ELSE No]
    /\ held = [r \in Request |-> No]
    /\ acct = [r \in Request |-> No]
    /\ spent = {} /\ admitted = {} /\ unsealed = {} /\ recalled = {}
    /\ left = {} /\ disturbed = {}

SpecInUse == InUse /\ [][Next]_vars

\* The requests to come are interchangeable.
Symmetry == Permutations(Request \ {r1})
=============================================================================
