--------------------------- MODULE MCRetryContract ---------------------------
(* Model values and bounds for checking RetryContract with TLC. *)
EXTENDS RetryContract, TLC

CONSTANTS c1, c2, wifi, mobile

OneCall == {c1}
TwoCalls == {c1, c2}
OneIp == {wifi}
TwoIps == {wifi, mobile}

\* Addresses are interchangeable; used only in the run without a liveness property.
Symmetry == Permutations(Ip)

\* Kept is the selection that the standard module defines by recursion, on every short
\* sequence and every set.
ShortKeys == UNION {[1 .. n -> 1 .. 3] : n \in 0 .. 4}
ASSUME KeptIsSelection ==
    \A keys \in ShortKeys, kept \in SUBSET (1 .. 3) :
        Kept(keys, kept) = SelectSeq(keys, LAMBDA x : x \in kept)
=============================================================================
