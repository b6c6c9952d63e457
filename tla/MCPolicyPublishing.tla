------------------------- MODULE MCPolicyPublishing -------------------------
(* Model values and bounds for checking PolicyPublishing with TLC. *)
EXTENDS PolicyPublishing, TLC

CONSTANTS d1, d2, d3, d4, r1, r2, r3, r4, r5, u1, template, revised, noDoc, noVersion

TwoDocs == {d1, d2}
ThreeDocs == {d1, d2, d3}
FourDocs == {d1, d2, d3, d4}
OneRequest == {r1}
TwoRequests == {r1, r2}
ThreeRequests == {r1, r2, r3}
FourRequests == {r1, r2, r3, r4}
FiveRequests == {r1, r2, r3, r4, r5}
OneUser == {u1}
NoUser == {}
TwoTexts == {template, revised}

Symmetry == Permutations(Request) \cup Permutations(Doc)
=============================================================================
