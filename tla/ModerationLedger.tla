--------------------------- MODULE ModerationLedger ---------------------------
(***************************************************************************)
(* What quote moderation promises, with no requests, reads or retries: a   *)
(* decision moves a quote in one step, a decision already in force does    *)
(* nothing, and whoever moved the quote owes its author one notice, which  *)
(* is given once or forgotten by a failure, never given twice.             *)
(***************************************************************************)
EXTENDS Naturals

CONSTANTS Quote, Moderator

Decision == {"APPROVED", "REJECTED"}

VARIABLES
    status,  \* status[q], as in QuoteModeration
    owed,    \* owed[q]: <<m, d>> for each moderator m who decided d, not told yet
    told     \* told[q][d]: notices given

ledger == <<status, owed, told>>

Init ==
    /\ status = [q \in Quote |-> "NONE"]
    /\ owed = [q \in Quote |-> {}]
    /\ told = [q \in Quote |-> [d \in Decision |-> 0]]

Submit(q) ==
    /\ status[q] = "NONE"
    /\ \E s \in {"PENDING", "APPROVED"} : status' = [status EXCEPT ![q] = s]
    /\ UNCHANGED <<owed, told>>

Remove(q) ==
    /\ status[q] \in {"PENDING"} \cup Decision
    /\ status' = [status EXCEPT ![q] = "GONE"]
    /\ UNCHANGED <<owed, told>>

Decide(m, q, d) ==
    /\ status[q] \in {"PENDING"} \cup Decision
    /\ status[q] # d
    /\ <<m, d>> \notin owed[q]
    /\ status' = [status EXCEPT ![q] = d]
    /\ owed' = [owed EXCEPT ![q] = @ \cup {<<m, d>>}]
    /\ UNCHANGED told

\* One moderator tells the authors of one or (bulk) several quotes.
Tell(m, d, quotes) ==
    /\ \A q \in quotes : <<m, d>> \in owed[q]
    /\ owed' = [q \in Quote |-> IF q \in quotes THEN owed[q] \ {<<m, d>>} ELSE owed[q]]
    /\ told' = [q \in Quote |-> [e \in Decision |->
          told[q][e] + IF q \in quotes /\ e = d THEN 1 ELSE 0]]
    /\ UNCHANGED status

\* A failure: some notices will never be given.
Forget ==
    /\ owed' \in [Quote -> SUBSET (Moderator \X Decision)]
    /\ \A q \in Quote : owed'[q] \subseteq owed[q]
    /\ UNCHANGED <<status, told>>

Next ==
    \/ \E q \in Quote : Submit(q) \/ Remove(q)
    \/ \E m \in Moderator, q \in Quote, d \in Decision : Decide(m, q, d)
    \/ \E m \in Moderator, d \in Decision, quotes \in SUBSET Quote : Tell(m, d, quotes)
    \/ Forget

Spec == Init /\ [][Next]_ledger
=============================================================================
