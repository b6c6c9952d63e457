----------------------------- MODULE MCBrowser ------------------------------
(* Small instances of the browser's modules: bounds that let two requests, *)
(* tabs or administrators meet, and one or two of them fail.               *)
EXTENDS Browser, TLC

CONSTANTS d1, d2,        \* requests of the home page, tabs of a quiz taker, cards
          every, some,   \* filters
          x1, x2, h1, h2, uz, ru

\* One filter selects every quote, the other skips one.
TwoFilters == (every :> (1..3)) @@ (some :> {1, 3})
OneStart == {{1, 3}}

TwoTags == (x1 :> {h1, h2}) @@ (x2 :> {h2})
TwoLanguages == (x1 :> ru) @@ (x2 :> uz)

\* Interchangeable in every part: requests, tabs and cards.
Symmetry == Permutations({d1, d2})
=============================================================================
