------------------------- MODULE RetryContractProofs -------------------------
(***************************************************************************)
(* The retry contract for any number of calls, addresses, retries, tokens, *)
(* faults and any size of the cache: a handler executes once and once more *)
(* only for each event that the guard cannot see through, success is never *)
(* another call's, and the cache stays below its limit (lib/api.ts,        *)
(* middleware/idempotency.ts).                                             *)
(***************************************************************************)
EXTENDS RetryContract, FunctionTheorems, FiniteSetTheorems, SequenceTheorems, TLAPS

-----------------------------------------------------------------------------
(* The inductive invariant *)

\* An attempt, or an outcome, under the one key of its call and a token that was issued.
Own(c, s) == s \in Scope /\ s.key = <<c, 0>> /\ s.token <= token

Owned ==
    /\ \A m \in wire : Own(m.call, m.scope)
    /\ \A x \in running : Own(x.at.call, x.at.scope)
    /\ \A s \in Known : \E c \in Call : Own(c, s)

\* The attempts of a call that are in a handler and have not committed.
Unsettled(c) == {x \in running : x.at.call = c /\ ~x.committed}

\* The guard would know the call again: it is in a handler or remembered.
Recognised(c) == InHandler(c) # {} \/ \E s \in Known \ old : s.key[1] = c

\* What the call has executed and may still execute is covered by the one execution it is
\* due and the excuses it has; the due one is left only while nobody recognises the call.
Covered == \A c \in Call :
    effects[c] + Cardinality(Unsettled(c)) + (IF Recognised(c) THEN 0 ELSE 1) <= 1 + excuses[c]

\* Success is said, remembered or about to be said only after a commit of that call.
Executed ==
    /\ \A x \in running : x.committed => effects[x.at.call] >= 1
    /\ \A s \in Known : effects[s.key[1]] >= 1
    /\ \A a \in answers : a.status = 200 => effects[a.call] >= 1
    /\ \A c \in Call : head[c] = 200 => effects[c] >= 1
    /\ SuccessMeansExecuted

IInv == /\ TypeOK /\ CacheBounded /\ IsFiniteSet(running)
        /\ Owned /\ Covered /\ Executed

-----------------------------------------------------------------------------
(* What is left of the cache *)

LEMMA IntervalSize ==
    ASSUME NEW n \in Nat PROVE IsFiniteSet(1 .. n) /\ Cardinality(1 .. n) = n
<1>1. 1 \in Int /\ n \in Int
  OBVIOUS
<1>2. Cardinality(1 .. n) = IF 1 > n THEN 0 ELSE n - 1 + 1
  BY <1>1, FS_Interval
<1> QED BY <1>1, <1>2, FS_Interval

\* A Map from which keys are deleted holds the others, and no more than before.
LEMMA KeptHolds ==
    ASSUME NEW S, NEW q \in Seq(S), NEW K
    PROVE  /\ Kept(q, K) \in Seq(S)
           /\ Len(Kept(q, K)) \in Nat /\ Len(Kept(q, K)) <= Len(q)
           /\ SeqSet(Kept(q, K)) = SeqSet(q) \cap K
<1> DEFINE at == {i \in DOMAIN q : q[i] \in K}
           upTo(i) == {j \in at : j <= i}
           n == Cardinality(at)
           rank == [i \in at |-> Cardinality(upTo(i))]
           nth(k) == CHOOSE i \in at : Cardinality(upTo(i)) = k
<1>1. /\ Len(q) \in Nat /\ DOMAIN q = 1 .. Len(q) /\ at \subseteq 1 .. Len(q)
      /\ \A i \in at : q[i] \in S \cap K
  BY LenProperties
<1>2. IsFiniteSet(at) /\ n \in Nat /\ n <= Len(q)
  <2>1. IsFiniteSet(1 .. Len(q)) /\ Cardinality(1 .. Len(q)) = Len(q)
    BY <1>1, IntervalSize
  <2> QED BY <1>1, <2>1, FS_Subset, FS_CardinalityType
<1>3. \A i \in at : /\ IsFiniteSet(upTo(i))
                    /\ rank[i] = Cardinality(upTo(i)) /\ rank[i] \in 1 .. n
  <2> SUFFICES ASSUME NEW i \in at PROVE IsFiniteSet(upTo(i)) /\ Cardinality(upTo(i)) \in 1 .. n
    OBVIOUS
  <2>1. upTo(i) \in SUBSET at /\ i \in upTo(i)
    BY <1>1
  <2>2. IsFiniteSet(upTo(i)) /\ Cardinality(upTo(i)) <= n
    BY <1>2, <2>1, FS_Subset
  <2>3. Cardinality(upTo(i)) \in Nat /\ Cardinality(upTo(i)) # 0
    BY <2>1, <2>2, FS_CardinalityType, FS_EmptySet
  <2> QED BY <1>2, <2>2, <2>3
<1>4. \A i, k \in at : i < k => rank[i] # rank[k]
  <2> SUFFICES ASSUME NEW i \in at, NEW k \in at, i < k
               PROVE  Cardinality(upTo(i)) # Cardinality(upTo(k))
    BY <1>3
  <2>1. upTo(i) \in SUBSET upTo(k) /\ k \in upTo(k) /\ k \notin upTo(i)
    BY <1>1
  <2> QED BY <1>3, <2>1, FS_Subset
<1>5. \A i, k \in at : rank[i] = rank[k] => i = k
  <2> SUFFICES ASSUME NEW i \in at, NEW k \in at, rank[i] = rank[k] PROVE i = k
    OBVIOUS
  <2>1. i \in Nat /\ k \in Nat
    BY <1>1
  <2> HIDE DEF at, rank
  <2> QED BY <1>4, <2>1
<1>6. rank \in Injection(at, 1 .. n)
  BY <1>3, <1>5 DEF Injection, IsInjective
<1>7. \A k \in 1 .. n : \E i \in at : rank[i] = k
  <2>1. IsFiniteSet(1 .. n) /\ Cardinality(1 .. n) = n
    BY <1>2, IntervalSize
  <2>2. rank \in Surjection(at, 1 .. n)
    BY <1>6, <2>1, FS_Injection
  <2> QED BY <2>2 DEF Surjection
<1>8. \A k \in 1 .. n : nth(k) \in at /\ rank[nth(k)] = k
  <2> TAKE k \in 1 .. n
  <2>1. \E i \in at : Cardinality(upTo(i)) = k
    BY <1>3, <1>7
  <2>2. nth(k) \in at /\ Cardinality(upTo(nth(k))) = k
    BY <2>1
  <2> QED BY <2>2
<1>9. Kept(q, K) = [k \in 1 .. n |-> q[nth(k)]]
  BY DEF Kept
<1> HIDE DEF at, n, rank, nth, upTo
<1>10. Kept(q, K) \in Seq(S) /\ Len(Kept(q, K)) = n
  <2>1. \A k \in 1 .. n : q[nth(k)] \in S
    BY <1>1, <1>8
  <2> QED BY <1>2, <1>9, <2>1
<1>11. SeqSet(Kept(q, K)) = {q[nth(k)] : k \in 1 .. n}
  BY <1>2, <1>9, <1>10 DEF SeqSet
<1>12. \A k \in 1 .. n : q[nth(k)] \in SeqSet(q) \cap K
  BY <1>1, <1>8 DEF SeqSet
<1>13. \A x \in SeqSet(q) \cap K : \E k \in 1 .. n : q[nth(k)] = x
  <2> TAKE x \in SeqSet(q) \cap K
  <2>1. PICK i \in 1 .. Len(q) : q[i] = x
    BY DEF SeqSet
  <2>2. i \in at
    BY <1>1, <2>1 DEF at
  <2>3. rank[i] \in 1 .. n
    BY <1>3, <2>2
  <2>4. nth(rank[i]) = i
    BY <1>5, <1>8, <2>2, <2>3
  <2> QED BY <2>1, <2>3, <2>4
<1> QED BY <1>2, <1>10, <1>11, <1>12, <1>13

-----------------------------------------------------------------------------
(* The client, the network and the world *)

USE RetryAssumption, EntriesAssumption, RetryBoundsAssumption, IpAssumption

LEMMA InitHolds == Init => IInv
<1> SUFFICES ASSUME Init PROVE IInv
  OBVIOUS
<1>1. cache = <<>> /\ cache \in Seq(Scope) /\ Len(cache) = 0 /\ Known = {}
  BY DEF Init, Known, SeqSet
<1>2. TypeOK
  BY <1>1 DEF Init, TypeOK, Phase
<1>3. CacheBounded /\ IsFiniteSet(running) /\ Owned /\ Executed
  BY <1>1, FS_EmptySet DEF Init, CacheBounded, Owned, Executed, SuccessMeansExecuted
<1>4. \A c \in Call : Unsettled(c) = {} /\ Cardinality(Unsettled(c)) = 0
  BY FS_EmptySet DEF Init, Unsettled
<1>5. Covered
  BY <1>4 DEF Init, Covered
<1> QED BY <1>2, <1>3, <1>5 DEF IInv

\* A step that touches neither handlers nor the cache, and says success only of a call
\* that has executed.
LEMMA QuietHolds ==
    ASSUME IInv, TypeOK', UNCHANGED <<running, cache, old, effects, excuses>>, token <= token',
           \A m \in wire' : m \in wire \/ Own(m.call, m.scope)',
           \A a \in answers' : a \in answers \/ (a.status = 200 => effects[a.call] >= 1),
           head' = head \/ (\A c \in Call : head'[c] = 200 => effects[c] >= 1),
           SuccessMeansExecuted'
    PROVE  IInv'
<1>1. Known' = Known
  BY DEF Known
<1>2. \A c, x : Own(c, x) => Own(c, x)'
  <2> TAKE c, x
  <2> SUFFICES ASSUME Own(c, x) PROVE x.token <= token'
    BY DEF Own
  <2>1. x.token \in Nat /\ token \in Nat /\ token' \in Nat /\ x.token <= token
    BY DEF Own, Scope, IInv, TypeOK
  <2> QED BY <2>1
<1>3. Owned'
  BY <1>1, <1>2 DEF IInv, Owned
<1>4. Covered'
  <2>1. \A c \in Call : /\ Unsettled(c)' = Unsettled(c)
                        /\ Recognised(c)' <=> Recognised(c)
    BY <1>1 DEF Unsettled, Recognised, InHandler
  <2> QED BY <2>1 DEF IInv, Covered
<1>5. Executed'
  BY <1>1 DEF IInv, Executed
<1>6. CacheBounded' /\ IsFiniteSet(running)'
  BY DEF IInv, CacheBounded
<1> QED BY <1>3, <1>4, <1>5, <1>6 DEF IInv

LEMMA ContinueType ==
    ASSUME TypeOK, NEW calls \in SUBSET Call, Continue(calls)
    PROVE  /\ phase' \in [Call -> Phase] /\ attempt' \in [Call -> 0 .. MaxRetries]
           /\ \A c \in Call : phase'[c] = "ok" => phase[c] = "ok"
<1>1. \A c \in Call : attempt[c] + (IF c \in calls /\ HasMore(c) THEN 1 ELSE 0) \in 0 .. MaxRetries
  BY DEF TypeOK, HasMore
<1> QED BY <1>1 DEF Continue, TypeOK, Phase

\* The steps of a call.
LEMMA ClientHolds ==
    ASSUME IInv, NEW c \in Call, Start(c) \/ Client(c) \/ Stall(c) PROVE IInv'
<1>1. CASE Start(c)
  <2>1. TypeOK' /\ token <= token'
    BY <1>1 DEF IInv, TypeOK, Start, Phase, server
  <2>2. SuccessMeansExecuted'
    BY <1>1 DEF IInv, TypeOK, Executed, SuccessMeansExecuted, Start
  <2> QED BY <1>1, <2>1, <2>2, QuietHolds DEF Start, server
<1>2. CASE Send(c)
  <2> DEFINE m == [call |-> c, n |-> attempt[c], scope |-> ScopeOf(c, attempt[c])]
  <2>1. m \in Attempt /\ Own(c, ScopeOf(c, attempt[c]))
    BY DEF IInv, TypeOK, Attempt, Own, ScopeOf, KeyOf, Scope, Key
  <2>2. TypeOK' /\ token <= token'
    BY <1>2, <2>1 DEF IInv, TypeOK, Send, Phase, server
  <2>3. SuccessMeansExecuted'
    BY <1>2 DEF IInv, TypeOK, Executed, SuccessMeansExecuted, Send
  <2>4. \A x \in wire' : x \in wire \/ Own(x.call, x.scope)'
    BY <1>2, <2>1 DEF Send, Own
  <2> QED BY <1>2, <2>2, <2>3, <2>4, QuietHolds DEF Send, server
<1>3. CASE GiveUp(c)
  <2>1. /\ Continue({c})
        /\ UNCHANGED <<cookie, head, refreshed, token, expired, ip, wire, server, answers, effects,
                       excuses, faults>>
    BY <1>3 DEF GiveUp
  <2>2. /\ phase' \in [Call -> Phase] /\ attempt' \in [Call -> 0 .. MaxRetries]
        /\ \A d \in Call : phase'[d] = "ok" => phase[d] = "ok"
    BY <2>1, ContinueType DEF IInv
  <2>3. TypeOK' /\ token <= token'
    BY <2>1, <2>2 DEF IInv, TypeOK, server
  <2>4. SuccessMeansExecuted'
    BY <2>1, <2>2 DEF IInv, Executed, SuccessMeansExecuted
  <2> QED BY <2>1, <2>3, <2>4, QuietHolds DEF server
<1>4. CASE Receive(c)
  <2> PICK a \in answers :
          /\ a.call = c /\ answers' = answers \ {a}
          /\ phase' = [phase EXCEPT ![c] = "reading"] /\ head' = [head EXCEPT ![c] = a.status]
          /\ UNCHANGED <<cookie, attempt, refreshed, token, expired, ip, wire, server, effects,
                         excuses, faults>>
    BY <1>4 DEF Receive
  <2>1. /\ UNCHANGED <<cookie, attempt, refreshed, token, expired, ip, wire, server, effects, excuses,
                       faults>>
        /\ answers' \subseteq answers
    OBVIOUS
  <2>2. /\ phase' \in [Call -> Phase] /\ head' \in [Call -> Status \cup {0}]
        /\ \A d \in Call : head'[d] = 200 => effects[d] >= 1
    BY DEF IInv, TypeOK, Phase, Answer, Executed
  <2>3. TypeOK' /\ token <= token'
    BY <2>1, <2>2 DEF IInv, TypeOK, server
  <2>4. SuccessMeansExecuted'
    BY <2>1 DEF IInv, TypeOK, Executed, SuccessMeansExecuted
  <2> QED BY <2>1, <2>2, <2>3, <2>4, QuietHolds DEF server
<1>5. CASE Read(c)
  <2> DEFINE again == head[c] = 401 /\ ~refreshed[c]
  <2>1. /\ phase' = [phase EXCEPT ![c] =
              IF again THEN "refresh" ELSE IF head[c] = 200 THEN "ok" ELSE "error"]
        /\ refreshed' = [refreshed EXCEPT ![c] = @ \/ again] /\ head' = [head EXCEPT ![c] = 0]
        /\ UNCHANGED <<cookie, attempt, token, expired, ip, wire, server, answers, effects, excuses,
                       faults>>
    BY <1>5 DEF Read
  <2>2. /\ phase' \in [Call -> Phase] /\ refreshed' \in [Call -> BOOLEAN]
        /\ head' \in [Call -> Status \cup {0}] /\ \A d \in Call : head'[d] = 200 => head[d] = 200
    BY <2>1 DEF IInv, TypeOK, Phase
  <2>3. TypeOK' /\ token <= token'
    BY <2>1, <2>2 DEF IInv, TypeOK, server
  <2>4. SuccessMeansExecuted'
    BY <2>1 DEF IInv, TypeOK, Executed, SuccessMeansExecuted
  <2>5. \A d \in Call : head'[d] = 200 => effects[d] >= 1
    BY <2>2 DEF IInv, Executed
  <2> QED BY <2>1, <2>3, <2>4, <2>5, QuietHolds DEF server
<1>6. CASE Stall(c)
  <2>0. phase' \in [Call -> Phase]
    BY <1>6 DEF IInv, TypeOK, Stall, Phase
  <2>1. TypeOK' /\ token <= token'
    BY <1>6, <2>0 DEF IInv, TypeOK, Stall, server
  <2>2. SuccessMeansExecuted'
    BY <1>6 DEF IInv, TypeOK, Executed, SuccessMeansExecuted, Stall
  <2> QED BY <1>6, <2>1, <2>2, QuietHolds DEF Stall, server
<1> QED BY <1>1, <1>2, <1>3, <1>4, <1>5, <1>6 DEF Client

LEMMA RefreshHolds == ASSUME IInv, Refresh PROVE IInv'
<1> DEFINE waiting == {c \in Call : phase[c] = "refresh"}
<1>1. UNCHANGED <<cookie, head, refreshed, expired, ip, wire, server, answers, effects, excuses,
                  faults>>
  BY DEF Refresh
<1>2. CASE token < MaxTokens /\ token' = token + 1 /\ Continue(waiting)
  <2>1. /\ phase' \in [Call -> Phase] /\ attempt' \in [Call -> 0 .. MaxRetries]
        /\ \A c \in Call : phase'[c] = "ok" => phase[c] = "ok"
    BY <1>2, ContinueType DEF IInv
  <2>2. token' \in 0 .. MaxTokens /\ token <= token'
    BY <1>2 DEF IInv, TypeOK
  <2>3. TypeOK' /\ SuccessMeansExecuted'
    BY <1>1, <2>1, <2>2 DEF IInv, TypeOK, server, Executed, SuccessMeansExecuted
  <2> QED BY <1>1, <2>2, <2>3, QuietHolds DEF server
<1>3. CASE /\ phase' = [c \in Call |-> IF c \in waiting THEN "error" ELSE phase[c]]
           /\ UNCHANGED <<token, attempt>>
  <2>1. TypeOK' /\ SuccessMeansExecuted'
    BY <1>1, <1>3 DEF IInv, TypeOK, Phase, server, Executed, SuccessMeansExecuted
  <2>2. token <= token'
    BY <1>3 DEF IInv, TypeOK
  <2> QED BY <1>1, <2>1, <2>2, QuietHolds DEF server
<1> QED BY <1>2, <1>3 DEF Refresh

LEMMA WorldHolds == ASSUME IInv, Lost \/ TokenExpires \/ AddressChanges PROVE IInv'
<1>1. token <= token' /\ wire' \subseteq wire /\ answers' \subseteq answers
      /\ UNCHANGED <<phase, head, running, cache, old, effects, excuses>>
  BY DEF IInv, TypeOK, Lost, Lose, TokenExpires, AddressChanges, client, server
<1>2. TypeOK'
  <2>1. CASE Lost
    BY <2>1 DEF IInv, TypeOK, Lost, Lose, client, server
  <2>2. CASE TokenExpires
    BY <2>2 DEF IInv, TypeOK, TokenExpires, server
  <2>3. CASE AddressChanges
    BY <2>3 DEF IInv, TypeOK, AddressChanges, Fault, server
  <2> QED BY <2>1, <2>2, <2>3
<1>3. SuccessMeansExecuted'
  BY <1>1 DEF IInv, Executed, SuccessMeansExecuted
<1> QED BY <1>1, <1>2, <1>3, QuietHolds

\* What is replayed is the outcome of this very call.
LEMMA ReplayHolds == ASSUME IInv, Replay PROVE IInv'
<1> PICK m \in wire :
        /\ Hit(m.scope) /\ wire' = wire \ {m}
        /\ answers' = answers \cup {[call |-> m.call, n |-> m.n, status |-> 200]}
        /\ UNCHANGED <<client, server, effects, excuses, faults>>
  BY DEF Replay
<1>1. m \in Attempt /\ m.call \in Call /\ m.n \in 0 .. MaxRetries
  BY DEF IInv, TypeOK, Attempt
<1>2. effects[m.call] >= 1
  BY <1>1 DEF IInv, Owned, Own, Executed, Hit
<1>3. TypeOK' /\ token' = token
  <2>1. answers' \subseteq Answer /\ wire' \subseteq Attempt
    BY <1>1 DEF IInv, TypeOK, Answer, Status
  <2> QED BY <2>1 DEF IInv, TypeOK, client, server
<1>4. SuccessMeansExecuted'
  BY DEF IInv, Executed, SuccessMeansExecuted, client
<1>5. token <= token'
  BY <1>3 DEF IInv, TypeOK
<1>6. answers' = answers \cup {[call |-> m.call, n |-> m.n, status |-> 200]} /\ wire' \subseteq wire
  OBVIOUS
<1> HIDE DEF IInv
<1>7. head' = head
  BY DEF client
<1> QED BY <1>2, <1>3, <1>4, <1>5, <1>6, <1>7, QuietHolds DEF server

-----------------------------------------------------------------------------
(* The server *)

LEMMA UnsettledIsFinite ==
    ASSUME IsFiniteSet(running), NEW c
    PROVE  IsFiniteSet(Unsettled(c)) /\ Cardinality(Unsettled(c)) \in Nat
<1>1. Unsettled(c) \in SUBSET running
  BY DEF Unsettled
<1> QED BY <1>1, FS_Subset, FS_CardinalityType

LEMMA GrowsByOne ==
    ASSUME NEW S, IsFiniteSet(S), NEW y
    PROVE  /\ Cardinality(S \cup {y}) \in Nat
           /\ Cardinality(S \cup {y}) <= Cardinality(S) + 1
<1>1. IsFiniteSet(S \cup {y}) /\ Cardinality(S) \in Nat
  BY FS_AddElement, FS_CardinalityType
<1>2. Cardinality(S \cup {y}) = IF y \in S THEN Cardinality(S) ELSE Cardinality(S) + 1
  BY FS_AddElement
<1> QED BY <1>1, <1>2

\* Only an entry past its time is forgotten, so no call is recognised less for it.
LEMMA ForgetHolds ==
    ASSUME TypeOK, CacheBounded, NEW s, ~Hit(s), Forget(s)
    PROVE  /\ Known' = Known \ {s} /\ (Known \ old)' = Known \ old
           /\ cache' \in Seq(Scope) /\ Len(cache') < MaxEntries /\ Len(cache') <= MaxEntries
           /\ old' \subseteq Scope
<1>1. cache \in Seq(Scope) /\ Len(cache) \in Nat /\ cache' = Kept(cache, Known \ {s})
  BY DEF TypeOK, Forget
<1>2. /\ cache' \in Seq(Scope) /\ Len(cache') \in Nat /\ Len(cache') <= Len(cache)
      /\ SeqSet(cache') = SeqSet(cache) \cap (Known \ {s})
  BY <1>1, KeptHolds
<1>3. Known' = Known \ {s}
  BY <1>2 DEF Known
<1>4. old' = old \ {s}
  BY DEF Forget
<1>5. Len(cache') < MaxEntries /\ Len(cache') <= MaxEntries
  BY <1>1, <1>2 DEF CacheBounded, EntriesAssumption
<1> QED BY <1>2, <1>3, <1>4, <1>5 DEF Hit, TypeOK

LEMMA UnauthorisedHolds == ASSUME IInv, Unauthorised PROVE IInv'
<1> PICK m \in wire :
        /\ ~Hit(m.scope) /\ Forget(m.scope) /\ wire' = wire \ {m}
        /\ answers' = answers \cup {[call |-> m.call, n |-> m.n, status |-> 401]}
        /\ UNCHANGED <<client, running, effects, excuses, faults>>
  BY DEF Unauthorised
<1>1. m.call \in Call /\ m.n \in 0 .. MaxRetries
  BY DEF IInv, TypeOK, Attempt
<1>2. /\ Known' = Known \ {m.scope} /\ (Known \ old)' = Known \ old
      /\ cache' \in Seq(Scope) /\ Len(cache') < MaxEntries /\ Len(cache') <= MaxEntries
      /\ old' \subseteq Scope
  BY ForgetHolds DEF IInv
<1>3. TypeOK'
  <2>1. answers' \subseteq Answer /\ wire' \subseteq Attempt
    BY <1>1 DEF IInv, TypeOK, Answer, Status
  <2> QED BY <1>2, <2>1 DEF IInv, TypeOK, client
<1>4. CacheBounded' /\ IsFiniteSet(running)'
  BY <1>2 DEF IInv, CacheBounded
<1>5. Owned'
  BY <1>2 DEF IInv, Owned, Own, client
<1>6. \A c \in Call : Unsettled(c)' = Unsettled(c) /\ (Recognised(c)' <=> Recognised(c))
  BY <1>2 DEF Unsettled, Recognised, InHandler
<1>7. Covered'
  BY <1>6 DEF IInv, Covered
<1>8. Executed'
  BY <1>2 DEF IInv, Executed, SuccessMeansExecuted, client
<1> QED BY <1>3, <1>4, <1>5, <1>7, <1>8 DEF IInv

\* A call that is let through and that the guard could have recognised is excused.
LEMMA LetThroughIsExcused ==
    ASSUME IInv, NEW m \in wire, ~Hit(m.scope), Recognised(m.call)
    PROVE  InHandler(m.call) # {} \/ Moved(m)
<1> SUFFICES ASSUME InHandler(m.call) = {} PROVE Moved(m)
  OBVIOUS
<1>1. PICK s \in Known \ old : s.key[1] = m.call
  BY DEF Recognised
<1>2. s \in Scope /\ m.scope \in Scope /\ s.key = m.scope.key /\ s.token <= token /\ s # m.scope
  BY <1>1 DEF IInv, Owned, Own, Hit
<1>3. s.token \in 0 .. token /\ s.ip \in Ip
  BY <1>2 DEF Scope, IInv, TypeOK
<1>4. [ip |-> s.ip, token |-> s.token, key |-> m.scope.key] = s
  BY <1>2 DEF Scope
<1>5. s.token # m.scope.token \/ s.ip # m.scope.ip
  BY <1>2 DEF Scope
<1> QED BY <1>1, <1>3, <1>4, <1>5 DEF Moved

LEMMA HandleHolds == ASSUME IInv, Handle PROVE IInv'
<1> PICK m \in wire :
        /\ ~Hit(m.scope) /\ Forget(m.scope) /\ wire' = wire \ {m}
        /\ running' = running \cup {[at |-> m, committed |-> FALSE]}
        /\ excuses' = [excuses EXCEPT ![m.call] =
              @ + IF InHandler(m.call) # {} \/ Moved(m) THEN 1 ELSE 0]
        /\ UNCHANGED <<client, answers, effects, faults>>
  BY DEF Handle
<1> DEFINE y == [at |-> m, committed |-> FALSE]
<1>1. m \in Attempt /\ m.call \in Call
  BY DEF IInv, TypeOK, Attempt
<1>2. /\ Known' = Known \ {m.scope} /\ (Known \ old)' = Known \ old
      /\ cache' \in Seq(Scope) /\ Len(cache') < MaxEntries /\ Len(cache') <= MaxEntries
      /\ old' \subseteq Scope
  BY ForgetHolds DEF IInv
<1>3. TypeOK'
  <2>1. running' \subseteq [at : Attempt, committed : BOOLEAN]
    <3>1. y \in [at : Attempt, committed : BOOLEAN] /\ running' = running \cup {y}
      BY <1>1
    <3> HIDE DEF y
    <3> QED BY <3>1 DEF IInv, TypeOK
  <2> DEFINE d == IF InHandler(m.call) # {} \/ Moved(m) THEN 1 ELSE 0
  <2>2. excuses' = [excuses EXCEPT ![m.call] = @ + d] /\ d \in {0, 1}
    OBVIOUS
  <2> HIDE DEF d
  <2>3. excuses' \in [Call -> Nat]
    BY <1>1, <2>2 DEF IInv, TypeOK
  <2> QED BY <1>2, <2>1, <2>3 DEF IInv, TypeOK, client
<1>4. CacheBounded' /\ IsFiniteSet(running)'
  BY <1>2, FS_AddElement DEF IInv, CacheBounded
<1>5. Owned'
  BY <1>2 DEF IInv, Owned, Own, client
<1>6. Covered'
  <2> SUFFICES ASSUME NEW c \in Call
               PROVE  effects'[c] + Cardinality(Unsettled(c)') + (IF Recognised(c)' THEN 0 ELSE 1)
                          <= 1 + excuses'[c]
    BY DEF Covered
  <2>0. /\ effects'[c] \in Nat /\ effects'[c] = effects[c] /\ excuses[c] \in Nat
        /\ IsFiniteSet(Unsettled(c)) /\ Cardinality(Unsettled(c)) \in Nat
        /\ effects[c] + Cardinality(Unsettled(c)) + (IF Recognised(c) THEN 0 ELSE 1) <= 1 + excuses[c]
    BY UnsettledIsFinite DEF IInv, TypeOK, Covered
  <2>1. CASE c # m.call
    <3>1. Unsettled(c)' = Unsettled(c) /\ InHandler(c)' = InHandler(c)
      BY <2>1 DEF Unsettled, InHandler
    <3>2. (Recognised(c)' <=> Recognised(c)) /\ excuses'[c] = excuses[c]
      BY <1>2, <2>1, <3>1 DEF Recognised, IInv, TypeOK
    <3> QED BY <2>0, <3>1, <3>2
  <2>2. CASE c = m.call
    <3>1. Unsettled(c)' = Unsettled(c) \cup {y} /\ y \in InHandler(c)'
      BY <2>2 DEF Unsettled, InHandler
    <3>2. /\ Cardinality(Unsettled(c)') \in Nat
          /\ Cardinality(Unsettled(c)') <= Cardinality(Unsettled(c)) + 1
      BY <2>0, <3>1, GrowsByOne
    <3>3. Recognised(c)'
      BY <3>1 DEF Recognised
    <3>4. excuses'[c] = excuses[c] + IF InHandler(m.call) # {} \/ Moved(m) THEN 1 ELSE 0
      BY <2>2 DEF IInv, TypeOK
    <3>5. excuses'[c] \in Nat /\ excuses'[c] >= excuses[c] + (IF Recognised(c) THEN 1 ELSE 0)
      BY <2>0, <2>2, <3>4, LetThroughIsExcused
    <3> QED BY <2>0, <3>2, <3>3, <3>5
  <2> QED BY <2>1, <2>2
<1>7. Executed'
  BY <1>2 DEF IInv, Executed, SuccessMeansExecuted, client
<1> QED BY <1>3, <1>4, <1>5, <1>6, <1>7 DEF IInv

LEMMA CommitHolds == ASSUME IInv, Commit PROVE IInv'
<1> PICK x \in running :
        /\ ~x.committed
        /\ running' = (running \ {x}) \cup {[x EXCEPT !.committed = TRUE]}
        /\ effects' = [effects EXCEPT ![x.at.call] = @ + 1]
        /\ UNCHANGED <<client, wire, cache, old, answers, excuses, faults>>
  BY DEF Commit
<1> DEFINE y == [x EXCEPT !.committed = TRUE]
<1>1. x \in [at : Attempt, committed : BOOLEAN] /\ x.at.call \in Call
  BY DEF IInv, TypeOK, Attempt
<1>2. y \in [at : Attempt, committed : BOOLEAN] /\ y.at = x.at /\ y.committed
  BY <1>1
<1> HIDE DEF y
<1>3. running' = (running \ {x}) \cup {y}
  BY DEF y
<1>4. /\ effects' \in [Call -> Nat] /\ effects'[x.at.call] = effects[x.at.call] + 1
      /\ \A c \in Call : effects'[c] >= effects[c]
      /\ \A c \in Call \ {x.at.call} : effects'[c] = effects[c]
  <2>1. effects \in [Call -> Nat] /\ effects' = [effects EXCEPT ![x.at.call] = @ + 1]
    BY DEF IInv, TypeOK
  <2> HIDE DEF IInv
  <2>2. \A c \in Call : effects'[c] = IF c = x.at.call THEN effects[c] + 1 ELSE effects[c]
    BY <2>1
  <2> QED BY <1>1, <2>1, <2>2
<1>5. Known' = Known
  BY DEF Known
<1>6. TypeOK'
  BY <1>2, <1>3, <1>4 DEF IInv, TypeOK, client
<1>7. CacheBounded' /\ IsFiniteSet(running)'
  <2>1. IsFiniteSet(running \ {x})
    BY FS_RemoveElement DEF IInv
  <2> QED BY <1>3, <2>1, FS_AddElement DEF IInv, CacheBounded
<1>8. Owned'
  BY <1>2, <1>3, <1>5 DEF IInv, Owned, Own, client
<1>9. Covered'
  <2> SUFFICES ASSUME NEW c \in Call
               PROVE  effects'[c] + Cardinality(Unsettled(c)') + (IF Recognised(c)' THEN 0 ELSE 1)
                          <= 1 + excuses'[c]
    BY DEF Covered
  <2>0. /\ effects[c] \in Nat /\ excuses'[c] = excuses[c] /\ excuses[c] \in Nat
        /\ IsFiniteSet(Unsettled(c)) /\ Cardinality(Unsettled(c)) \in Nat
        /\ effects[c] + Cardinality(Unsettled(c)) + (IF Recognised(c) THEN 0 ELSE 1) <= 1 + excuses[c]
    BY UnsettledIsFinite DEF IInv, TypeOK, Covered
  <2>1. CASE c # x.at.call
    <3>1. Unsettled(c)' = Unsettled(c) /\ InHandler(c)' = InHandler(c)
      BY <1>2, <1>3, <2>1 DEF Unsettled, InHandler
    <3>2. Recognised(c)' <=> Recognised(c)
      BY <1>5, <3>1 DEF Recognised
    <3> QED BY <1>4, <2>0, <2>1, <3>1, <3>2
  <2>2. CASE c = x.at.call
    <3>1. Unsettled(c)' = Unsettled(c) \ {x} /\ x \in Unsettled(c) /\ x \in InHandler(c)
          /\ y \in InHandler(c)'
      BY <1>2, <1>3, <2>2 DEF Unsettled, InHandler
    <3>2. Cardinality(Unsettled(c)') = Cardinality(Unsettled(c)) - 1
      <4> DEFINE U == Unsettled(c)
      <4>1. IsFiniteSet(U) /\ x \in U
        BY <2>0, <3>1
      <4> HIDE DEF U
      <4>2. Cardinality(U \ {x}) = Cardinality(U) - 1
        BY <4>1, FS_RemoveElement
      <4> QED BY <3>1, <4>2 DEF U
    <3>3. Recognised(c)' /\ Recognised(c)
      BY <3>1 DEF Recognised
    <3> QED BY <1>4, <2>0, <2>2, <3>2, <3>3
  <2> QED BY <2>1, <2>2
<1>10. Executed'
  <2>1. \A z \in running' : z.committed => effects'[z.at.call] >= 1
    <3> TAKE z \in running'
    <3>1. CASE z = y
      BY <1>1, <1>2, <1>4, <3>1 DEF IInv, TypeOK
    <3>2. CASE z \in running
      <4>1. z.at.call \in Call /\ effects[z.at.call] \in Nat /\ effects'[z.at.call] \in Nat
        BY <1>4, <3>2 DEF IInv, TypeOK, Attempt
      <4> QED BY <1>4, <3>2, <4>1 DEF IInv, Executed
    <3> QED BY <1>3, <3>1, <3>2
  <2>2. \A c \in Call : effects[c] \in Nat /\ effects'[c] \in Nat /\ effects'[c] >= effects[c]
    BY <1>4 DEF IInv, TypeOK
  <2>3. \A s \in Known : s.key[1] \in Call
    BY DEF IInv, Owned, Own
  <2>4. \A a \in answers : a.call \in Call
    BY DEF IInv, TypeOK, Answer, Status
  <2>5. \A s \in Known' : effects'[s.key[1]] >= 1
    BY <1>5, <2>2, <2>3 DEF IInv, Executed
  <2>6. \A a \in answers' : a.status = 200 => effects'[a.call] >= 1
    BY <2>2, <2>4 DEF IInv, Executed
  <2>7. SuccessMeansExecuted' /\ \A c \in Call : head'[c] = 200 => effects'[c] >= 1
    BY <2>2 DEF IInv, Executed, SuccessMeansExecuted, client
  <2> QED BY <2>1, <2>5, <2>6, <2>7 DEF Executed
<1> QED BY <1>6, <1>7, <1>8, <1>9, <1>10 DEF IInv

\* The sweep leaves the newest entries, at most one less than the limit, and of an entry
\* that is not past its time nothing else but the sweep's cap makes an end.
LEMMA RememberedHolds ==
    ASSUME TypeOK, NEW s \in Scope
    PROVE  /\ Remembered(s) \in Seq(Scope)
           /\ Len(Remembered(s)) < MaxEntries /\ Len(Remembered(s)) <= MaxEntries
           /\ SeqSet(Remembered(s)) \subseteq Known \cup {s}
<1> DEFINE written == IF s \in Known THEN cache ELSE Append(cache, s)
           young   == Kept(written, (SeqSet(written) \ old) \cup {s})
           surplus == IF Len(young) > Room THEN Len(young) - Room ELSE 0
<1>1. written \in Seq(Scope) /\ SeqSet(written) \subseteq Known \cup {s}
  <2>1. CASE s \in Known
    BY <2>1 DEF TypeOK, Known
  <2>2. CASE s \notin Known
    <3>1. cache \in Seq(Scope)
      BY DEF TypeOK
    <3>2. /\ Append(cache, s) \in Seq(Scope) /\ Len(Append(cache, s)) = Len(cache) + 1
          /\ \A k \in 1 .. Len(cache) : Append(cache, s)[k] = cache[k]
          /\ Append(cache, s)[Len(cache) + 1] = s /\ Len(cache) \in Nat
      BY <3>1, AppendProperties, LenProperties
    <3>3. \A k \in 1 .. (Len(cache) + 1) : k \in 1 .. Len(cache) \/ k = Len(cache) + 1
      BY <3>2
    <3>4. SeqSet(Append(cache, s)) \subseteq Known \cup {s}
      BY <3>2, <3>3 DEF SeqSet, Known
    <3> QED BY <2>2, <3>2, <3>4
  <2> QED BY <2>1, <2>2
<1> HIDE DEF written
<1>2. /\ young \in Seq(Scope) /\ Len(young) \in Nat
      /\ SeqSet(young) \subseteq Known \cup {s}
  BY <1>1, KeptHolds
<1> HIDE DEF young
<1>3. /\ surplus \in Nat /\ surplus <= Len(young) /\ Len(young) - surplus < MaxEntries
      /\ MaxEntries \in Nat
  BY <1>2 DEF Room, EntriesAssumption
<1> HIDE DEF surplus
<1>4. Remembered(s) = SubSeq(young, surplus + 1, Len(young))
  BY DEF Remembered, written, young, surplus
<1>5. \A k \in (surplus + 1) .. Len(young) : young[k] \in Scope
  BY <1>2, <1>3, LenProperties
<1>6. /\ Remembered(s) \in Seq(Scope) /\ Len(Remembered(s)) = Len(young) - surplus
      /\ \A k \in 1 .. (Len(young) - surplus) : Remembered(s)[k] = young[surplus + k]
  BY <1>2, <1>3, <1>4, <1>5
<1>7. \A k \in 1 .. (Len(young) - surplus) : surplus + k \in 1 .. Len(young)
  BY <1>2, <1>3
<1>8. SeqSet(Remembered(s)) \subseteq SeqSet(young)
  BY <1>6, <1>7 DEF SeqSet
<1> QED BY <1>2, <1>3, <1>6, <1>8

LEMMA SucceedHolds == ASSUME IInv, Succeed PROVE IInv'
<1> PICK x \in running :
        /\ x.committed /\ running' = running \ {x}
        /\ cache' = Remembered(x.at.scope)
        /\ old' = (old \cap SeqSet(Remembered(x.at.scope))) \ {x.at.scope}
        /\ excuses' = [c \in Call |-> excuses[c] +
              IF c \in Forgotten(Known \cup {x.at.scope}, SeqSet(Remembered(x.at.scope)))
              THEN 1 ELSE 0]
        /\ answers' = answers \cup {[call |-> x.at.call, n |-> x.at.n, status |-> 200]}
        /\ UNCHANGED <<client, wire, effects, faults>>
  BY DEF Succeed
<1> DEFINE s == x.at.scope  gone == Forgotten(Known \cup {s}, SeqSet(Remembered(s)))
<1>1. /\ s \in Scope /\ x.at.call \in Call /\ x.at.n \in 0 .. MaxRetries
      /\ Own(x.at.call, s) /\ effects[x.at.call] >= 1
  BY DEF IInv, TypeOK, Attempt, Owned, Executed
<1>2. /\ Remembered(s) \in Seq(Scope)
      /\ Len(Remembered(s)) < MaxEntries /\ Len(Remembered(s)) <= MaxEntries
      /\ SeqSet(Remembered(s)) \subseteq Known \cup {s}
  BY <1>1, RememberedHolds DEF IInv
<1>3. Known' = SeqSet(Remembered(s))
  BY DEF Known
<1>4. \A c \in Call : excuses'[c] = excuses[c] + (IF c \in gone THEN 1 ELSE 0)
  OBVIOUS
<1>5. TypeOK'
  <2>1. \A c \in Call : excuses[c] + (IF c \in gone THEN 1 ELSE 0) \in Nat
    BY DEF IInv, TypeOK
  <2>2. excuses' \in [Call -> Nat]
    BY <2>1
  <2>3. answers' \subseteq Answer
    BY <1>1 DEF IInv, TypeOK, Answer, Status
  <2> QED BY <1>2, <2>2, <2>3 DEF IInv, TypeOK, client
<1>6. CacheBounded' /\ IsFiniteSet(running)'
  BY <1>2, FS_RemoveElement DEF IInv, CacheBounded
<1>7. Owned'
  BY <1>1, <1>2, <1>3 DEF IInv, Owned, Own, client
<1>8. Covered'
  <2> SUFFICES ASSUME NEW c \in Call
               PROVE  effects'[c] + Cardinality(Unsettled(c)') + (IF Recognised(c)' THEN 0 ELSE 1)
                          <= 1 + excuses'[c]
    BY DEF Covered
  <2>1. Unsettled(c)' = Unsettled(c)
    BY DEF Unsettled
  <2>2. Recognised(c) /\ ~Recognised(c)' => c \in gone
    <3> SUFFICES ASSUME Recognised(c), ~Recognised(c)', c \notin gone PROVE FALSE
      OBVIOUS
    <3>1. PICK t \in Known \cup {s} : t.key[1] = c /\ (t \notin old \/ t = s)
      <4>1. CASE \E t \in Known \ old : t.key[1] = c
        BY <4>1
      <4>2. CASE InHandler(c) # {}
        <5>1. x \in InHandler(c)
          BY <4>2 DEF Recognised, InHandler
        <5> QED BY <1>1, <5>1 DEF InHandler, Own
      <4> QED BY <4>1, <4>2 DEF Recognised
    <3>2. t \in SeqSet(Remembered(s))
      BY <3>1 DEF Forgotten
    <3>3. t \in Known' \ old'
      BY <1>3, <3>1, <3>2
    <3> QED BY <3>1, <3>3 DEF Recognised
  <2>3. /\ effects'[c] \in Nat /\ effects'[c] = effects[c] /\ excuses[c] \in Nat
        /\ Cardinality(Unsettled(c)) \in Nat
        /\ effects[c] + Cardinality(Unsettled(c)) + (IF Recognised(c) THEN 0 ELSE 1) <= 1 + excuses[c]
    BY UnsettledIsFinite DEF IInv, TypeOK, Covered
  <2> HIDE DEF gone
  <2> QED BY <1>4, <2>1, <2>2, <2>3
<1>9. Executed'
  <2>1. \A t \in Known' : effects[t.key[1]] >= 1
    BY <1>1, <1>2, <1>3 DEF IInv, Executed, Own
  <2> QED BY <1>1, <2>1 DEF IInv, Executed, SuccessMeansExecuted, client
<1> QED BY <1>5, <1>6, <1>7, <1>8, <1>9 DEF IInv

\* The outcome of a call with a cookie is not remembered, which excuses its repeat.
LEMMA SucceedWithCookieHolds == ASSUME IInv, SucceedWithCookie PROVE IInv'
<1> PICK x \in running :
        /\ x.committed /\ running' = running \ {x}
        /\ excuses' = [excuses EXCEPT ![x.at.call] = @ + 1]
        /\ answers' = answers \cup {[call |-> x.at.call, n |-> x.at.n, status |-> 200]}
        /\ UNCHANGED <<client, wire, cache, old, effects, faults>>
  BY DEF SucceedWithCookie
<1>1. /\ x.at.call \in Call /\ x.at.n \in 0 .. MaxRetries /\ effects[x.at.call] >= 1
  BY DEF IInv, TypeOK, Attempt, Executed
<1>2. /\ excuses' \in [Call -> Nat] /\ excuses'[x.at.call] = excuses[x.at.call] + 1
      /\ \A c \in Call \ {x.at.call} : excuses'[c] = excuses[c]
  <2>1. excuses \in [Call -> Nat] /\ excuses' = [excuses EXCEPT ![x.at.call] = @ + 1]
    BY DEF IInv, TypeOK
  <2> HIDE DEF IInv
  <2>2. \A c \in Call : excuses'[c] = IF c = x.at.call THEN excuses[c] + 1 ELSE excuses[c]
    BY <2>1
  <2> QED BY <1>1, <2>1, <2>2
<1>3. Known' = Known
  BY DEF Known
<1>4. TypeOK'
  <2>1. answers' \subseteq Answer
    BY <1>1 DEF IInv, TypeOK, Answer, Status
  <2> QED BY <1>2, <2>1 DEF IInv, TypeOK, client
<1>5. CacheBounded' /\ IsFiniteSet(running)'
  BY FS_RemoveElement DEF IInv, CacheBounded
<1>6. Owned'
  BY <1>3 DEF IInv, Owned, Own, client
<1>7. Covered'
  <2> SUFFICES ASSUME NEW c \in Call
               PROVE  effects'[c] + Cardinality(Unsettled(c)') + (IF Recognised(c)' THEN 0 ELSE 1)
                          <= 1 + excuses'[c]
    BY DEF Covered
  <2>1. /\ effects'[c] \in Nat /\ effects'[c] = effects[c] /\ excuses[c] \in Nat
        /\ Cardinality(Unsettled(c)) \in Nat
        /\ effects[c] + Cardinality(Unsettled(c)) + (IF Recognised(c) THEN 0 ELSE 1) <= 1 + excuses[c]
    BY UnsettledIsFinite DEF IInv, TypeOK, Covered
  <2>2. Unsettled(c)' = Unsettled(c)
    BY DEF Unsettled
  <2>3. c # x.at.call => (Recognised(c)' <=> Recognised(c))
    BY <1>3 DEF Recognised, InHandler
  <2>4. c = x.at.call => Recognised(c)
    BY DEF Recognised, InHandler
  <2> QED BY <1>2, <2>1, <2>2, <2>3, <2>4
<1>8. Executed'
  BY <1>1, <1>3 DEF IInv, Executed, SuccessMeansExecuted, client
<1> QED BY <1>4, <1>5, <1>6, <1>7, <1>8 DEF IInv

LEMMA FailHolds == ASSUME IInv, Fail PROVE IInv'
<1> PICK x \in running :
        /\ Fault /\ running' = running \ {x}
        /\ excuses' = [excuses EXCEPT ![x.at.call] = @ + IF x.committed THEN 1 ELSE 0]
        /\ answers' = answers \cup {[call |-> x.at.call, n |-> x.at.n, status |-> 500]}
        /\ UNCHANGED <<client, wire, cache, old, effects>>
  BY DEF Fail
<1> DEFINE d == IF x.committed THEN 1 ELSE 0
<1>1. /\ x.at.call \in Call /\ x.at.n \in 0 .. MaxRetries /\ d \in {0, 1}
      /\ excuses' = [excuses EXCEPT ![x.at.call] = @ + d]
  BY DEF IInv, TypeOK, Attempt
<1>2. /\ excuses' \in [Call -> Nat] /\ excuses'[x.at.call] = excuses[x.at.call] + d
      /\ \A c \in Call \ {x.at.call} : excuses'[c] = excuses[c]
  BY <1>1 DEF IInv, TypeOK
<1>3. Known' = Known
  BY DEF Known
<1>4. TypeOK'
  <2>1. answers' \subseteq Answer /\ faults' \in 0 .. MaxFaults
    BY <1>1 DEF IInv, TypeOK, Answer, Status, Fault
  <2> QED BY <1>2, <2>1 DEF IInv, TypeOK, client
<1>5. CacheBounded' /\ IsFiniteSet(running)'
  BY FS_RemoveElement DEF IInv, CacheBounded
<1>6. Owned'
  BY <1>3 DEF IInv, Owned, Own, client
<1>7. Covered'
  <2> SUFFICES ASSUME NEW c \in Call
               PROVE  effects'[c] + Cardinality(Unsettled(c)') + (IF Recognised(c)' THEN 0 ELSE 1)
                          <= 1 + excuses'[c]
    BY DEF Covered
  <2>1. /\ effects'[c] \in Nat /\ effects'[c] = effects[c] /\ excuses[c] \in Nat
        /\ IsFiniteSet(Unsettled(c)) /\ Cardinality(Unsettled(c)) \in Nat
        /\ effects[c] + Cardinality(Unsettled(c)) + (IF Recognised(c) THEN 0 ELSE 1) <= 1 + excuses[c]
    BY UnsettledIsFinite DEF IInv, TypeOK, Covered
  <2>2. CASE c # x.at.call
    <3>1. Unsettled(c)' = Unsettled(c) /\ InHandler(c)' = InHandler(c)
      BY <2>2 DEF Unsettled, InHandler
    <3>2. (Recognised(c)' <=> Recognised(c)) /\ excuses'[c] = excuses[c]
      BY <1>2, <1>3, <2>2, <3>1 DEF Recognised
    <3> QED BY <2>1, <3>1, <3>2
  <2>3. CASE c = x.at.call
    <3>1. Recognised(c) /\ excuses'[c] = excuses[c] + d
      BY <1>2, <2>3 DEF Recognised, InHandler
    <3>2. CASE x.committed
      <4>1. Unsettled(c)' = Unsettled(c) /\ d = 1
        BY <3>2 DEF Unsettled
      <4> QED BY <2>1, <3>1, <4>1
    <3>3. CASE ~x.committed
      <4>1. Unsettled(c)' = Unsettled(c) \ {x} /\ x \in Unsettled(c) /\ d = 0
        BY <2>3, <3>3 DEF Unsettled
      <4>2. Cardinality(Unsettled(c)') = Cardinality(Unsettled(c)) - 1
        BY <2>1, <4>1, FS_RemoveElement
      <4> QED BY <2>1, <3>1, <4>1, <4>2
    <3> QED BY <3>2, <3>3
  <2> QED BY <2>2, <2>3
<1>8. Executed'
  BY <1>3 DEF IInv, Executed, SuccessMeansExecuted, client
<1> QED BY <1>4, <1>5, <1>6, <1>7, <1>8 DEF IInv

LEMMA EntryAgesHolds == ASSUME IInv, EntryAges PROVE IInv'
<1> PICK s \in Known \ old :
        /\ Fault /\ old' = old \cup {s}
        /\ excuses' = [excuses EXCEPT ![s.key[1]] = @ + 1]
        /\ UNCHANGED <<client, wire, running, cache, answers, effects>>
  BY DEF EntryAges
<1>1. s \in Scope /\ s.key[1] \in Call
  BY DEF IInv, Owned, Own
<1>2. Known' = Known
  BY DEF Known
<1>3. /\ excuses' \in [Call -> Nat] /\ excuses'[s.key[1]] = excuses[s.key[1]] + 1
      /\ \A c \in Call \ {s.key[1]} : excuses'[c] = excuses[c]
  <2>1. excuses \in [Call -> Nat] /\ excuses' = [excuses EXCEPT ![s.key[1]] = @ + 1]
    BY DEF IInv, TypeOK
  <2>2. \A c \in Call : excuses'[c] = IF c = s.key[1] THEN excuses[c] + 1 ELSE excuses[c]
    BY <2>1
  <2> QED BY <1>1, <2>1, <2>2
<1>4. TypeOK'
  <2>1. faults' \in 0 .. MaxFaults
    BY DEF IInv, TypeOK, Fault
  <2> QED BY <1>1, <1>3, <2>1 DEF IInv, TypeOK, client
<1>5. Owned' /\ CacheBounded' /\ IsFiniteSet(running)' /\ Executed'
  BY <1>2 DEF IInv, Owned, Own, CacheBounded, Executed, SuccessMeansExecuted, client
<1>6. Covered'
  <2> SUFFICES ASSUME NEW c \in Call
               PROVE  effects'[c] + Cardinality(Unsettled(c)') + (IF Recognised(c)' THEN 0 ELSE 1)
                          <= 1 + excuses'[c]
    BY DEF Covered
  <2>1. /\ effects'[c] \in Nat /\ effects'[c] = effects[c] /\ excuses[c] \in Nat
        /\ Cardinality(Unsettled(c)) \in Nat
        /\ effects[c] + Cardinality(Unsettled(c)) + (IF Recognised(c) THEN 0 ELSE 1) <= 1 + excuses[c]
    BY UnsettledIsFinite DEF IInv, TypeOK, Covered
  <2>2. Unsettled(c)' = Unsettled(c) /\ InHandler(c)' = InHandler(c)
    BY DEF Unsettled, InHandler
  <2>3. c # s.key[1] => (Recognised(c)' <=> Recognised(c))
    BY <1>2, <2>2 DEF Recognised
  <2> QED BY <1>3, <2>1, <2>2, <2>3
<1> QED BY <1>4, <1>5, <1>6 DEF IInv

\* A restart takes what recognised a call, and with it an outcome or an execution that was
\* or would have been covered.
LEMMA CrashHolds == ASSUME IInv, Crash PROVE IInv'
<1> DEFINE done(c) == {x \in InHandler(c) : x.committed}
           d(c) == IF \E s \in Known : s.key[1] = c THEN 1 ELSE 0
<1>1. /\ Fault /\ running' = {} /\ cache' = <<>> /\ old' = {}
      /\ excuses' = [c \in Call |-> excuses[c] + Cardinality(done(c)) + d(c)]
      /\ UNCHANGED <<client, wire, answers, effects>>
  BY DEF Crash
<1>2. \A c \in Call : /\ IsFiniteSet(done(c)) /\ Cardinality(done(c)) \in Nat
                      /\ done(c) # {} => Cardinality(done(c)) >= 1
  <2> TAKE c \in Call
  <2>1. done(c) \in SUBSET running
    BY DEF InHandler
  <2>2. IsFiniteSet(done(c)) /\ Cardinality(done(c)) \in Nat
    BY <2>1, FS_Subset, FS_CardinalityType DEF IInv
  <2>3. done(c) # {} => Cardinality(done(c)) # 0
    BY <2>2, FS_EmptySet
  <2> QED BY <2>2, <2>3
<1>3. Known' = {} /\ cache' \in Seq(Scope) /\ Len(cache') = 0
  BY <1>1 DEF Known, SeqSet
<1>4. \A c \in Call : excuses'[c] = excuses[c] + Cardinality(done(c)) + d(c)
  BY <1>1
<1> HIDE DEF done
<1>5. TypeOK'
  <2>1. excuses' \in [Call -> Nat]
    <3>1. \A c \in Call : excuses[c] + Cardinality(done(c)) + d(c) \in Nat
      BY <1>2 DEF IInv, TypeOK
    <3> HIDE DEF d
    <3> QED BY <1>1, <3>1
  <2>2. faults' \in 0 .. MaxFaults
    BY <1>1 DEF IInv, TypeOK, Fault
  <2>3. cache' \in Seq(Scope) /\ Len(cache') <= MaxEntries
    BY <1>3 DEF EntriesAssumption
  <2> QED BY <1>1, <2>1, <2>2, <2>3 DEF IInv, TypeOK, client
<1>6. CacheBounded' /\ IsFiniteSet(running)'
  BY <1>1, <1>3, FS_EmptySet DEF CacheBounded, EntriesAssumption
<1>7. Owned' /\ Executed'
  BY <1>1, <1>3 DEF IInv, Owned, Own, Executed, SuccessMeansExecuted, client
<1>8. Covered'
  <2> SUFFICES ASSUME NEW c \in Call
               PROVE  effects'[c] + Cardinality(Unsettled(c)') + (IF Recognised(c)' THEN 0 ELSE 1)
                          <= 1 + excuses'[c]
    BY DEF Covered
  <2>1. /\ effects'[c] \in Nat /\ effects'[c] = effects[c] /\ excuses[c] \in Nat
        /\ IsFiniteSet(Unsettled(c)) /\ Cardinality(Unsettled(c)) \in Nat
        /\ effects[c] + Cardinality(Unsettled(c)) + (IF Recognised(c) THEN 0 ELSE 1) <= 1 + excuses[c]
    BY <1>1, UnsettledIsFinite DEF IInv, TypeOK, Covered
  <2>2. Unsettled(c)' = {} /\ Cardinality(Unsettled(c)') = 0
    BY <1>1, FS_EmptySet DEF Unsettled
  <2>3. Recognised(c) => Cardinality(Unsettled(c)) >= 1 \/ Cardinality(done(c)) >= 1 \/ d(c) = 1
    <3> SUFFICES ASSUME Recognised(c), done(c) = {}, d(c) # 1 PROVE Cardinality(Unsettled(c)) >= 1
      BY <1>2
    <3>1. InHandler(c) # {}
      BY DEF Recognised
    <3>2. Unsettled(c) # {}
      BY <3>1 DEF Unsettled, InHandler, done
    <3>3. Cardinality(Unsettled(c)) # 0
      BY <2>1, <3>2, FS_EmptySet
    <3> QED BY <2>1, <3>3
  <2>4. d(c) \in {0, 1}
    OBVIOUS
  <2> HIDE DEF d
  <2> QED BY <1>2, <1>4, <2>1, <2>2, <2>3, <2>4
<1> QED BY <1>5, <1>6, <1>7, <1>8 DEF IInv

-----------------------------------------------------------------------------
(* The theorems *)

LEMMA StutterHolds == ASSUME IInv, UNCHANGED vars PROVE IInv'
<1>1. TypeOK'
  BY DEF IInv, TypeOK, vars, client, server
<1>2. token <= token' /\ SuccessMeansExecuted'
  BY DEF IInv, TypeOK, Executed, SuccessMeansExecuted, vars, client
<1> QED BY <1>1, <1>2, QuietHolds DEF vars, client, server

\* Whatever the network, the tokens, the handlers and the process do, the invariant holds.
THEOREM Inductive == Spec => []IInv
<1>1. IInv /\ [Next]_vars => IInv'
  <2> SUFFICES ASSUME IInv, [Next]_vars PROVE IInv'
    OBVIOUS
  <2>1. CASE \E c \in Call : Start(c) \/ Client(c) \/ Stall(c)
    BY <2>1, ClientHolds
  <2>2. CASE Refresh \/ Replay \/ Unauthorised \/ Handle \/ Commit \/ Succeed
          \/ SucceedWithCookie \/ Fail
    BY <2>2, RefreshHolds, ReplayHolds, UnauthorisedHolds, HandleHolds, CommitHolds,
       SucceedHolds, SucceedWithCookieHolds, FailHolds
  <2>3. CASE Lost \/ TokenExpires \/ AddressChanges \/ EntryAges \/ Crash
    BY <2>3, WorldHolds, EntryAgesHolds, CrashHolds
  <2>4. CASE UNCHANGED vars
    BY <2>4, StutterHolds
  <2> QED BY <2>1, <2>2, <2>3, <2>4 DEF Next
<1> QED BY InitHolds, <1>1, PTL DEF Spec

\* The handler of a keyed call executes once, and once more at most for every event that
\* makes the guard forget or not recognise what it has executed.
THEOREM ExecutesOnceUnlessExcused == Spec => []OnceUnlessExcused
<1>1. IInv => OnceUnlessExcused
  <2> SUFFICES ASSUME IInv, NEW c \in Call PROVE effects[c] <= 1 + excuses[c]
    BY DEF OnceUnlessExcused
  <2>1. /\ effects[c] \in Nat /\ excuses[c] \in Nat /\ Cardinality(Unsettled(c)) \in Nat
        /\ effects[c] + Cardinality(Unsettled(c)) + (IF Recognised(c) THEN 0 ELSE 1) <= 1 + excuses[c]
    BY UnsettledIsFinite DEF IInv, TypeOK, Covered
  <2> QED BY <2>1
<1> QED BY <1>1, Inductive, PTL

\* When api() resolves, the handler of this very call has committed.
THEOREM SuccessIsNotAnothers == Spec => []SuccessMeansExecuted
<1>1. IInv => SuccessMeansExecuted
  BY DEF IInv, Executed
<1> QED BY <1>1, Inductive, PTL

\* The cache never reaches its limit, whatever is remembered, forgotten and swept.
THEOREM CacheIsBounded == Spec => []CacheSound
<1>1. IInv => CacheSound
  BY DEF IInv, CacheSound
<1> QED BY <1>1, Inductive, PTL

=============================================================================
