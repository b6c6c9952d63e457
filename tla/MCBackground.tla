---------------------------- MODULE MCBackground ----------------------------
(* A small instance of Background: one page and one webhook call at a time *)
(* and two tokens; two visitors and two requests at once; one address with *)
(* six limiters and five requests over four ticks.                         *)
EXTENDS Background

\* The limits and windows keep the order they have in the code.
SmallLimits == [api |-> 3, auth |-> 3, authPublic |-> 2, authBrute |-> 1, quoteCreate |-> 2,
                adminAuth |-> 2]
SmallWindows == [api |-> 1, auth |-> 2, authPublic |-> 2, authBrute |-> 2, quoteCreate |-> 3,
                 adminAuth |-> 2]
=============================================================================
