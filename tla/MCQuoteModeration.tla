-------------------------- MODULE MCQuoteModeration --------------------------
(* Model values and bounds for checking QuoteModeration with TLC. *)
EXTENDS QuoteModeration, TLC

CONSTANTS q1, q2, r1, r2, r3, r4, noStamp, posted

OneQuote == {q1}
TwoQuotes == {q1, q2}
TwoRequests == {r1, r2}
ThreeRequests == {r1, r2, r3}
FourRequests == {r1, r2, r3, r4}

\* Requests are interchangeable; used only in runs without liveness properties.
Symmetry == Permutations(Request)
=============================================================================
