--------------------------- MODULE BackgroundProofs ---------------------------
(***************************************************************************)
(* Proofs about what the server does beside its requests: the read cache   *)
(* (ReadCache, the first section), the bots' settings, the rate limits and *)
(* the counting of views (Background).  With any number of processes and   *)
(* of requests, changes and restarts, a copy that differs from the rows is *)
(* one that an eviction is about to reach, or one of those the model says  *)
(* are missed.                                                             *)
(***************************************************************************)
EXTENDS ReadCache, Background, FiniteSetTheorems, FunctionTheorems, TLAPS

\* A request knows its process, the key it reads and the change it made.
JobsFit ==
    \A t \in Task : LET j == task[t] IN
      /\ j.pc # "idle" => j.at \in Process
      /\ j.pc \in {"redis", "fetch", "store", "set"} => j.key \in Key
      /\ j.pc = "evict" => j.op \in Op

\* The request that asks Redis to forget key k.
Deleting(k) == \E t \in Task : task[t].pc = "del" /\ k \in task[t].del

\* A copy in memory that its process does not track is one that no eviction reaches.
UntrackedAreMissed ==
    \A p \in Process, k \in Key : mem[p][k] # "none" /\ k \notin tracked[p] => <<p, k>> \in missed

\* Once a process has lost Redis, so is everything in it.
LostAreMissed ==
    \A k \in Key : (\E p \in Process : ~up[p]) /\ red[k] # "none" => <<Null, k>> \in missed

\* A key in Redis is tracked by every process, whichever of them comes to evict it, unless it
\* is being deleted or is missed.
RedisIsTracked ==
    \A k \in Key : red[k] # "none" =>
      <<Null, k>> \in missed \/ (\A p \in Process : k \in tracked[p]) \/ Deleting(k)

IInv == TypeOK /\ JobsFit /\ UntrackedAreMissed /\ LostAreMissed /\ RedisIsTracked
          /\ StaleExplained

-----------------------------------------------------------------------------
(* The requests *)

Job == [pc  : {"idle", "redis", "fetch", "store", "set", "evict", "del"},
        at  : Process \cup {Null}, op : Op \cup {Null},
        key : Key \cup {Null}, val : Copy, del : SUBSET Key]

\* What JobsFit says of one request.
Fits(j) ==
    /\ j \in Job
    /\ j.pc # "idle" => j.at \in Process
    /\ j.pc \in {"redis", "fetch", "store", "set"} => j.key \in Key
    /\ j.pc = "evict" => j.op \in Op

LEMMA IdleFits == Fits(Idle)
  BY DEF Fits, Idle, Job, Copy

LEMMA JobsAre == ASSUME TypeOK, JobsFit, NEW t \in Task
                 PROVE  /\ Fits(task[t])
                        /\ DOMAIN task = Task
  BY DEF TypeOK, JobsFit, Fits, Job

LEMMA JobsAgain == ASSUME task' = [t \in Task |-> task'[t]], \A t \in Task : Fits(task'[t])
                   PROVE  task' \in [Task -> Job] /\ JobsFit'
  BY DEF JobsFit, Fits

\* A request moves on, or another job takes its place.
LEMMA Replaced ==
    ASSUME TypeOK, JobsFit, NEW t \in Task, NEW j, Fits(j), task' = [task EXCEPT ![t] = j]
    PROVE  task' \in [Task -> Job] /\ JobsFit'
<1>1. \A x \in Task : Fits(task'[x])
  BY JobsAre DEF TypeOK
<1>2. task' = [x \in Task |-> task'[x]]
  BY DEF TypeOK
<1> QED BY <1>1, <1>2, JobsAgain

LEMMA Moved ==
    ASSUME TypeOK, JobsFit, NEW t \in Task, NEW n, Fits([task[t] EXCEPT !.pc = n]), Goto(t, n)
    PROVE  task' \in [Task -> Job] /\ JobsFit'
<1>1. task' = [task EXCEPT ![t] = [task[t] EXCEPT !.pc = n]]
  BY DEF Goto
<1> QED BY <1>1, Replaced

LEMMA Ended ==
    ASSUME TypeOK, JobsFit, NEW t \in Task, End(t)
    PROVE  task' \in [Task -> Job] /\ JobsFit'
  BY IdleFits, Replaced DEF End

\* A request that is not a write keeps what is about to be evicted and deleted.
LEMMA OthersKept ==
    ASSUME TypeOK, NEW t \in Task, NEW j, task' = [task EXCEPT ![t] = j],
           task[t].pc \notin {"evict", "del"}
    PROVE  /\ \A p, k : Pending(p, k) => Pending(p, k)'
           /\ \A k : Deleting(k) => Deleting(k)'
<1>1. \A x \in Task : task[x].pc \in {"evict", "del"} => task'[x] = task[x]
  BY DEF TypeOK
<1> QED BY <1>1 DEF Pending, Deleting

-----------------------------------------------------------------------------
(* A read *)

LEMMA MissKeeps ==
    ASSUME IInv, NEW t \in Task, NEW p \in Process, NEW k \in Key, Miss(t, p, k)
    PROVE  IInv'
<1> USE ReadCacheAssumption DEF ReadCacheAssumption
<1> DEFINE j == [Idle EXCEPT !.pc = IF up[p] THEN "redis" ELSE "fetch", !.at = p, !.key = k]
<1>1. task[t].pc = "idle" /\ task' = [task EXCEPT ![t] = j]
  BY DEF Miss, Start
<1>2. Fits(j)
  BY DEF Fits, Job, Idle, Copy
<1> HIDE DEF j
<1>3. task' \in [Task -> Job] /\ JobsFit'
  BY <1>1, <1>2, Replaced DEF IInv
<1>4. UNCHANGED <<mem, tracked, red, up, writes, restarts, missed>>
  BY DEF Miss
<1>5. TypeOK'
  BY <1>3, <1>4 DEF IInv, TypeOK, Job
<1>6. /\ \A q, l : Pending(q, l) => Pending(q, l)'
      /\ \A l : Deleting(l) => Deleting(l)'
  BY <1>1, OthersKept DEF IInv
<1>7. UntrackedAreMissed' /\ LostAreMissed' /\ RedisIsTracked'
  BY <1>4, <1>6 DEF IInv, UntrackedAreMissed, LostAreMissed, RedisIsTracked
<1>8. StaleExplained'
  BY <1>4, <1>6 DEF IInv, StaleExplained, Deleting
<1> QED BY <1>3, <1>5, <1>7, <1>8 DEF IInv

LEMMA FetchKeeps ==
    ASSUME IInv, NEW t \in Task, Fetch(t)
    PROVE  IInv'
<1> DEFINE j == [task[t] EXCEPT !.pc = "store", !.val = "fresh"]
<1>1. task[t].pc = "fetch" /\ task' = [task EXCEPT ![t] = j]
  BY DEF Fetch, IInv, TypeOK
<1>2. Fits(j)
  BY <1>1, JobsAre DEF IInv, Fits, Job, Copy
<1> HIDE DEF j
<1>3. task' \in [Task -> Job] /\ JobsFit'
  BY <1>1, <1>2, Replaced DEF IInv
<1>4. UNCHANGED <<mem, tracked, red, up, writes, restarts, missed>>
  BY DEF Fetch
<1>5. TypeOK'
  BY <1>3, <1>4 DEF IInv, TypeOK, Job
<1>6. /\ \A q, l : Pending(q, l) => Pending(q, l)'
      /\ \A l : Deleting(l) => Deleting(l)'
  BY <1>1, OthersKept DEF IInv
<1>7. UntrackedAreMissed' /\ LostAreMissed' /\ RedisIsTracked'
  BY <1>4, <1>6 DEF IInv, UntrackedAreMissed, LostAreMissed, RedisIsTracked
<1>8. StaleExplained'
  BY <1>4, <1>6 DEF IInv, StaleExplained, Deleting
<1> QED BY <1>3, <1>5, <1>7, <1>8 DEF IInv

\* What Redis answers is not tracked: no eviction of this process reaches it.
LEMMA FromRedisKeeps ==
    ASSUME IInv, NEW t \in Task, FromRedis(t)
    PROVE  IInv'
<1> USE ReadCacheAssumption DEF ReadCacheAssumption
<1> DEFINE p == task[t].at
           k == task[t].key
<1>1. task[t].pc = "redis" /\ p \in Process /\ k \in Key /\ Fits(task[t])
  BY JobsAre DEF FromRedis, IInv, Fits
<1>2. UNCHANGED <<tracked, red, up, writes, restarts>>
  BY DEF FromRedis
<1> DEFINE Answers == /\ up[p] /\ red[k] # "none"
                      /\ mem' = [mem EXCEPT ![p][k] = red[k]]
                      /\ missed' = IF red[k] = "stale" \/ k \notin tracked[p]
                                   THEN missed \cup {<<p, k>>} ELSE missed
                      /\ End(t)
           Refuses == UNCHANGED <<mem, missed>> /\ Goto(t, "fetch")
<1>3. CASE Answers
  <2>1. /\ mem' = [mem EXCEPT ![p][k] = red[k]]
        /\ missed' = IF red[k] = "stale" \/ k \notin tracked[p] THEN missed \cup {<<p, k>>}
                     ELSE missed
        /\ up[p] /\ red[k] # "none"
        /\ End(t)
    BY <1>3
  <2>2. task' \in [Task -> Job] /\ JobsFit'
    BY <2>1, Ended DEF IInv
  <2>3. /\ \A q, l : Pending(q, l) => Pending(q, l)'
        /\ \A l : Deleting(l) => Deleting(l)'
    BY <1>1, <2>1, OthersKept DEF IInv, End
  <2> HIDE DEF p, k
  <2>4. /\ mem' \in [Process -> [Key -> Copy]]
        /\ mem'[p][k] = red[k]
        /\ \A q \in Process, l \in Key : <<q, l>> # <<p, k>> => mem'[q][l] = mem[q][l]
    BY <1>1, <2>1 DEF IInv, TypeOK
  <2>5. /\ missed \subseteq missed' /\ missed' \subseteq Place \X Key
        /\ red[k] = "stale" \/ k \notin tracked[p] => <<p, k>> \in missed'
    BY <1>1, <2>1 DEF IInv, TypeOK, Place
  <2>6. TypeOK'
    BY <1>2, <2>2, <2>4, <2>5 DEF IInv, TypeOK, Job
  <2>7. UntrackedAreMissed'
    BY <1>2, <2>4, <2>5 DEF IInv, UntrackedAreMissed
  <2>8. LostAreMissed' /\ RedisIsTracked'
    BY <1>2, <2>3, <2>5 DEF IInv, LostAreMissed, RedisIsTracked
  <2>9. StaleExplained'
    <3>1. \A q \in Process, l \in Key :
            mem'[q][l] = "stale" => <<q, l>> \in missed' \/ Pending(q, l)'
      BY <2>3, <2>4, <2>5 DEF IInv, StaleExplained
    <3>2. \A l \in Key : red'[l] = "stale" =>
            <<Null, l>> \in missed' \/ (\E q \in Process : Pending(q, l)') \/ Deleting(l)'
      BY <1>2, <2>3, <2>5 DEF IInv, StaleExplained, Deleting
    <3> QED BY <3>1, <3>2 DEF StaleExplained, Deleting
  <2> QED BY <2>2, <2>6, <2>7, <2>8, <2>9 DEF IInv
<1>4. CASE Refuses
  <2>1. UNCHANGED <<mem, missed>> /\ Goto(t, "fetch")
    BY <1>4
  <2>2. Fits([task[t] EXCEPT !.pc = "fetch"])
    BY <1>1 DEF Fits, Job
  <2>3. task' \in [Task -> Job] /\ JobsFit'
    BY <2>1, <2>2, Moved DEF IInv
  <2>4. task' = [task EXCEPT ![t] = [task[t] EXCEPT !.pc = "fetch"]]
    BY <2>1 DEF Goto
  <2>5. /\ \A q, l : Pending(q, l) => Pending(q, l)'
        /\ \A l : Deleting(l) => Deleting(l)'
    BY <1>1, <2>4, OthersKept DEF IInv
  <2>6. TypeOK'
    BY <1>2, <2>1, <2>3 DEF IInv, TypeOK, Job
  <2>7. UntrackedAreMissed' /\ LostAreMissed' /\ RedisIsTracked'
    BY <1>2, <2>1, <2>5 DEF IInv, UntrackedAreMissed, LostAreMissed, RedisIsTracked
  <2>8. StaleExplained'
    BY <1>2, <2>1, <2>5 DEF IInv, StaleExplained, Deleting
  <2> QED BY <2>3, <2>6, <2>7, <2>8 DEF IInv
<1>5. Answers \/ Refuses
  BY DEF FromRedis
<1> QED BY <1>3, <1>4, <1>5

\* What is stored in memory is tracked; when it is stale, either its eviction is still to
\* come or none reaches it.
LEMMA StoreKeeps ==
    ASSUME IInv, NEW t \in Task, Store(t)
    PROVE  IInv'
<1> USE ReadCacheAssumption DEF ReadCacheAssumption
<1> DEFINE p == task[t].at
           k == task[t].key
           v == task[t].val
<1>1. task[t].pc = "store" /\ p \in Process /\ k \in Key /\ v \in Copy /\ Fits(task[t])
  BY JobsAre DEF Store, IInv, Fits, Job
<1>2. /\ mem' = [mem EXCEPT ![p][k] = v]
      /\ tracked' = [tracked EXCEPT ![p] = @ \cup {k}]
      /\ missed' = (missed \ {<<p, k>>})
                      \cup IF v = "stale" /\ ~Pending(p, k) THEN {<<p, k>>} ELSE {}
      /\ UNCHANGED <<red, up, writes, restarts>>
      /\ IF up[p] THEN Goto(t, "set") ELSE End(t)
  BY DEF Store, Track
<1>3. Fits([task[t] EXCEPT !.pc = "set"])
  BY <1>1 DEF Fits, Job
<1>4. task' \in [Task -> Job] /\ JobsFit'
  BY <1>2, <1>3, Moved, Ended DEF IInv
<1>5. \E j : task' = [task EXCEPT ![t] = j]
  BY <1>2 DEF Goto, End
<1>6. /\ \A q, l : Pending(q, l) => Pending(q, l)'
      /\ \A l : Deleting(l) => Deleting(l)'
  BY <1>1, <1>5, OthersKept DEF IInv
<1> HIDE DEF p, k, v
<1>7. /\ mem' \in [Process -> [Key -> Copy]]
      /\ mem'[p][k] = v
      /\ \A q \in Process, l \in Key : <<q, l>> # <<p, k>> => mem'[q][l] = mem[q][l]
  BY <1>1, <1>2 DEF IInv, TypeOK
<1>8. /\ tracked' \in [Process -> SUBSET Key]
      /\ k \in tracked'[p]
      /\ \A q \in Process : tracked[q] \subseteq tracked'[q]
  BY <1>1, <1>2 DEF IInv, TypeOK
<1>9. /\ missed' \subseteq Place \X Key
      /\ \A q, l : <<q, l>> # <<p, k>> /\ <<q, l>> \in missed => <<q, l>> \in missed'
      /\ \A l : <<Null, l>> \in missed => <<Null, l>> \in missed'
      /\ v = "stale" => Pending(p, k) \/ <<p, k>> \in missed'
  BY <1>1, <1>2 DEF IInv, TypeOK, Place
<1>10. TypeOK'
  BY <1>2, <1>4, <1>7, <1>8, <1>9 DEF IInv, TypeOK, Job
<1>11. UntrackedAreMissed'
  BY <1>7, <1>8, <1>9 DEF IInv, UntrackedAreMissed
<1>12. LostAreMissed'
  BY <1>2, <1>9 DEF IInv, LostAreMissed
<1>13. RedisIsTracked'
  BY <1>2, <1>6, <1>8, <1>9 DEF IInv, RedisIsTracked
<1>14. StaleExplained'
  <2>1. \A q \in Process, l \in Key :
          mem'[q][l] = "stale" => <<q, l>> \in missed' \/ Pending(q, l)'
    BY <1>6, <1>7, <1>9 DEF IInv, StaleExplained
  <2>2. \A l \in Key : red'[l] = "stale" =>
          <<Null, l>> \in missed' \/ (\E q \in Process : Pending(q, l)') \/ Deleting(l)'
    BY <1>2, <1>6, <1>9 DEF IInv, StaleExplained, Deleting
  <2> QED BY <2>1, <2>2 DEF StaleExplained, Deleting
<1> QED BY <1>4, <1>10, <1>11, <1>12, <1>13, <1>14 DEF IInv

\* A value is left in Redis unmarked only by the one process there is, which tracks it.
LEMMA SetRedisKeeps ==
    ASSUME IInv, NEW t \in Task, SetRedis(t)
    PROVE  IInv'
<1> USE ReadCacheAssumption DEF ReadCacheAssumption
<1> DEFINE p == task[t].at
           k == task[t].key
           v == task[t].val
<1>1. task[t].pc = "set" /\ p \in Process /\ k \in Key /\ v \in Copy
  BY JobsAre DEF SetRedis, IInv, Fits, Job
<1>2. UNCHANGED <<mem, tracked, up, writes, restarts>> /\ End(t)
  BY DEF SetRedis
<1>3. task' \in [Task -> Job] /\ JobsFit'
  BY <1>2, Ended DEF IInv
<1>4. /\ \A q, l : Pending(q, l) => Pending(q, l)'
      /\ \A l : Deleting(l) => Deleting(l)'
  BY <1>1, <1>2, OthersKept DEF IInv, End
<1> DEFINE Sets == /\ up[p]
                   /\ red' = [red EXCEPT ![k] = v]
                   /\ missed' = (missed \ {<<Null, k>>})
                                  \cup IF \/ Process # {p} \/ k \notin tracked[p]
                                          \/ v = "stale" /\ ~Pending(p, k)
                                       THEN {<<Null, k>>} ELSE {}
           Refuses == UNCHANGED <<red, missed>>
<1>5. CASE Sets
  <2>1. /\ red' = [red EXCEPT ![k] = v]
        /\ missed' = (missed \ {<<Null, k>>})
                       \cup IF \/ Process # {p} \/ k \notin tracked[p]
                               \/ v = "stale" /\ ~Pending(p, k)
                            THEN {<<Null, k>>} ELSE {}
        /\ up[p]
    BY <1>5
  <2> HIDE DEF p, k, v
  <2>2. /\ red' \in [Key -> Copy] /\ red'[k] = v
        /\ \A l \in Key : l # k => red'[l] = red[l]
    BY <1>1, <2>1 DEF IInv, TypeOK
  <2>3. /\ missed' \subseteq Place \X Key
        /\ \A q \in Process, l \in Key : <<q, l>> \in missed => <<q, l>> \in missed'
        /\ \A l \in Key : l # k /\ <<Null, l>> \in missed => <<Null, l>> \in missed'
        /\ \/ <<Null, k>> \in missed'
           \/ Process = {p} /\ k \in tracked[p] /\ (v = "stale" => Pending(p, k))
    BY <1>1, <2>1 DEF IInv, TypeOK, Place
  <2>4. TypeOK'
    BY <1>2, <1>3, <2>2, <2>3 DEF IInv, TypeOK, Job
  <2>5. UntrackedAreMissed'
    BY <1>2, <2>3 DEF IInv, UntrackedAreMissed
  <2>6. LostAreMissed'
    BY <1>1, <1>2, <2>1, <2>2, <2>3 DEF IInv, LostAreMissed
  <2>7. RedisIsTracked'
    BY <1>1, <1>2, <1>4, <2>2, <2>3 DEF IInv, RedisIsTracked
  <2>8. StaleExplained'
    <3>1. \A q \in Process, l \in Key :
            mem'[q][l] = "stale" => <<q, l>> \in missed' \/ Pending(q, l)'
      BY <1>2, <1>4, <2>3 DEF IInv, StaleExplained
    <3>2. ASSUME NEW l \in Key, red'[l] = "stale"
          PROVE  <<Null, l>> \in missed' \/ (\E q \in Process : Pending(q, l)') \/ Deleting(l)'
      <4>1. CASE l = k
        BY <1>1, <1>4, <2>2, <2>3, <3>2, <4>1
      <4>2. CASE l # k
        BY <1>4, <2>2, <2>3, <3>2, <4>2 DEF IInv, StaleExplained, Deleting
      <4> QED BY <4>1, <4>2
    <3> QED BY <3>1, <3>2 DEF StaleExplained, Deleting
  <2> QED BY <1>3, <2>4, <2>5, <2>6, <2>7, <2>8 DEF IInv
<1>6. CASE Refuses
  <2>1. UNCHANGED <<red, missed>>
    BY <1>6
  <2>2. TypeOK'
    BY <1>2, <1>3, <2>1 DEF IInv, TypeOK, Job
  <2>3. UntrackedAreMissed' /\ LostAreMissed' /\ RedisIsTracked'
    BY <1>2, <1>4, <2>1 DEF IInv, UntrackedAreMissed, LostAreMissed, RedisIsTracked
  <2>4. StaleExplained'
    BY <1>2, <1>4, <2>1 DEF IInv, StaleExplained, Deleting
  <2> QED BY <1>3, <2>2, <2>3, <2>4 DEF IInv
<1>7. Sets \/ Refuses
  BY DEF SetRedis
<1> QED BY <1>5, <1>6, <1>7

-----------------------------------------------------------------------------
(* A change and its eviction *)

\* Every key whose rows an operation changes is evicted or exempt.
LEMMA TouchedAreEvicted ==
    ASSUME NEW o \in Op
    PROVE  Touches(o) \subseteq Key /\ Touches(o) \ Exempt(o) \subseteq Evicts(o)
  BY DEF Op, Touches, Exempt, Evicts, Key

\* Requests that are reading hold an older value; one may become a write.
LEMMA CommitMovesJobs ==
    ASSUME TypeOK, JobsFit, NEW t \in Task, NEW p \in Process, NEW o \in Op, Commit(t, p, o)
    PROVE  /\ task' \in [Task -> Job] /\ JobsFit'
           /\ \A q, l : Pending(q, l) => Pending(q, l)'
           /\ \A l : Deleting(l) => Deleting(l)'
           /\ \A l \in Evicts(o) : Pending(p, l)'
<1> DEFINE old == [x \in Task |-> IF task[x].key \in Touches(o)
                                  THEN [task[x] EXCEPT !.val = Older(@)] ELSE task[x]]
           new == [Idle EXCEPT !.pc = "evict", !.at = p, !.op = o]
<1>1. /\ task[t].pc = "idle"
      /\ task' = IF Evicts(o) = {} THEN old ELSE [old EXCEPT ![t] = new]
  BY DEF Commit
<1>2. /\ old = [x \in Task |-> old[x]]
      /\ \A x \in Task : /\ Fits(old[x]) /\ old[x].pc = task[x].pc /\ old[x].at = task[x].at
                        /\ old[x].op = task[x].op /\ old[x].del = task[x].del
  BY JobsAre DEF Fits, Job, Older, Copy
<1>3. Fits(new) /\ new.pc = "evict" /\ new.at = p /\ new.op = o
  BY DEF Fits, Job, Idle, Copy
<1> HIDE DEF old, new
<1>4. /\ \A x \in Task : task'[x] = old[x] \/ (x = t /\ task'[x] = new)
      /\ Evicts(o) # {} => task'[t] = new
      /\ task' = [x \in Task |-> task'[x]]
  BY <1>1, <1>2
<1>5. task' \in [Task -> Job] /\ JobsFit'
  BY <1>2, <1>3, <1>4, JobsAgain
<1>6. \A q, l : Pending(q, l) => Pending(q, l)'
  BY <1>1, <1>2, <1>4 DEF Pending
<1>7. \A l : Deleting(l) => Deleting(l)'
  BY <1>1, <1>2, <1>4 DEF Deleting
<1>8. \A l \in Evicts(o) : Pending(p, l)'
  BY <1>3, <1>4 DEF Pending
<1> QED BY <1>5, <1>6, <1>7, <1>8

\* A change makes copies stale: those at the process that will evict them are about to go,
\* the others are marked.
LEMMA CommitKeeps ==
    ASSUME IInv, NEW t \in Task, NEW p \in Process, NEW o \in Op, Commit(t, p, o)
    PROVE  IInv'
<1> USE ReadCacheAssumption DEF ReadCacheAssumption
<1>1. /\ task' \in [Task -> Job] /\ JobsFit'
      /\ \A q, l : Pending(q, l) => Pending(q, l)'
      /\ \A l : Deleting(l) => Deleting(l)'
      /\ \A l \in Evicts(o) : Pending(p, l)'
  BY CommitMovesJobs DEF IInv
<1>2. /\ writes' \in 0..MaxWrites
      /\ UNCHANGED <<tracked, up, restarts>>
  BY DEF Commit, IInv, TypeOK
<1>3. /\ mem' \in [Process -> [Key -> Copy]] /\ red' \in [Key -> Copy]
      /\ \A q \in Process, l \in Key :
           mem'[q][l] = IF l \in Touches(o) THEN Older(mem[q][l]) ELSE mem[q][l]
      /\ \A l \in Key : red'[l] = IF l \in Touches(o) THEN Older(red[l]) ELSE red[l]
  BY DEF Commit, Aged, Older, IInv, TypeOK, Copy
<1>4. /\ \A q \in Process, l \in Key : mem'[q][l] # "none" => mem[q][l] # "none"
      /\ \A q \in Process, l \in Key : mem'[q][l] = "stale" =>
           mem[q][l] = "stale" \/ (l \in Touches(o) /\ mem[q][l] # "none")
      /\ \A l \in Key : red'[l] # "none" => red[l] # "none"
      /\ \A l \in Key : red'[l] = "stale" =>
           red[l] = "stale" \/ (l \in Touches(o) /\ red[l] # "none")
  BY <1>3 DEF Older
<1>5. missed' = missed \cup UNION {Unreached(p, o, k) : k \in Touches(o)}
  BY DEF Commit
<1>6. /\ missed \subseteq missed' /\ missed' \subseteq Place \X Key
      /\ \A l \in Touches(o), q \in Process :
           mem[q][l] # "none" /\ (q # p \/ l \in Exempt(o)) => <<q, l>> \in missed'
      /\ \A l \in Touches(o) :
           red[l] # "none" /\ (l \in Exempt(o) \/ ~up[p]) => <<Null, l>> \in missed'
  <2>1. \A l \in Touches(o) : Unreached(p, o, l) \subseteq Place \X Key
    BY TouchedAreEvicted DEF Unreached, Place
  <2>2. \A l \in Touches(o) : Unreached(p, o, l) \subseteq missed'
    BY <1>5
  <2> QED BY <1>5, <2>1, <2>2 DEF Unreached, IInv, TypeOK
<1>7. TypeOK'
  BY <1>1, <1>2, <1>3, <1>6 DEF IInv, TypeOK, Job
<1>8. UntrackedAreMissed' /\ LostAreMissed' /\ RedisIsTracked'
  BY <1>1, <1>2, <1>4, <1>6 DEF IInv, UntrackedAreMissed, LostAreMissed, RedisIsTracked
<1>9. StaleExplained'
  <2>1. ASSUME NEW q \in Process, NEW l \in Key, mem'[q][l] = "stale"
        PROVE  <<q, l>> \in missed' \/ Pending(q, l)'
    <3>1. CASE mem[q][l] = "stale"
      BY <1>1, <1>6, <3>1 DEF IInv, StaleExplained
    <3>2. CASE l \in Touches(o) /\ mem[q][l] # "none"
      BY <1>1, <1>6, <3>2, TouchedAreEvicted
    <3> QED BY <1>4, <2>1, <3>1, <3>2
  <2>2. ASSUME NEW l \in Key, red'[l] = "stale"
        PROVE  <<Null, l>> \in missed' \/ (\E q \in Process : Pending(q, l)') \/ Deleting(l)'
    <3>1. CASE red[l] = "stale"
      BY <1>1, <1>6, <3>1 DEF IInv, StaleExplained, Deleting
    <3>2. CASE l \in Touches(o) /\ red[l] # "none"
      BY <1>1, <1>6, <3>2, TouchedAreEvicted
    <3> QED BY <1>4, <2>2, <3>1, <3>2
  <2> QED BY <2>1, <2>2 DEF StaleExplained, Deleting
<1> QED BY <1>1, <1>7, <1>8, <1>9 DEF IInv

\* An eviction forgets what its process tracks; a key it does not track is missed already,
\* and what it asks Redis to delete, if Redis is there, is what it forgot.
LEMMA EvictKeeps ==
    ASSUME IInv, NEW t \in Task, Evict(t)
    PROVE  IInv'
<1> USE ReadCacheAssumption DEF ReadCacheAssumption
<1> DEFINE p == task[t].at
           hit == Evicts(task[t].op) \cap tracked[p]
           j == IF up[p] /\ hit # {} THEN [task[t] EXCEPT !.pc = "del", !.del = hit] ELSE Idle
<1>1. task[t].pc = "evict" /\ p \in Process /\ hit \subseteq Key /\ Fits(task[t])
  BY JobsAre DEF Evict, IInv, TypeOK, Fits
<1>2. /\ mem' = [mem EXCEPT ![p] = [k \in Key |-> IF k \in hit THEN "none" ELSE mem[p][k]]]
      /\ tracked' = [tracked EXCEPT ![p] = @ \ hit]
      /\ missed' = missed \ ({p} \X hit)
      /\ UNCHANGED <<red, up, writes, restarts>>
  BY DEF Evict
<1>3. task' = [task EXCEPT ![t] = j]
  BY DEF Evict, End, IInv, TypeOK
<1>4. Fits(j) /\ (up[p] /\ hit # {} => j.pc = "del" /\ j.del = hit)
  BY <1>1, IdleFits DEF Fits, Job
<1>5. \A q, l : Pending(q, l) =>
       Pending(q, l)' \/ (q = p /\ l \in Evicts(task[t].op))
  BY <1>1, <1>3 DEF Pending, IInv, TypeOK
<1> HIDE DEF j
<1>6. task' \in [Task -> Job] /\ JobsFit'
  BY <1>3, <1>4, Replaced DEF IInv
<1>7. /\ \A l : Deleting(l) => Deleting(l)'
      /\ up[p] => \A l \in hit : Deleting(l)'
  BY <1>1, <1>3, <1>4 DEF Deleting, IInv, TypeOK
<1>8. \A l \in Evicts(task[t].op) : l \in tracked[p] => l \in hit
  OBVIOUS
<1> HIDE DEF p, hit
<1>9. /\ mem' \in [Process -> [Key -> Copy]]
      /\ \A l \in Key : mem'[p][l] = IF l \in hit THEN "none" ELSE mem[p][l]
      /\ \A q \in Process : q # p => mem'[q] = mem[q]
  BY <1>1, <1>2 DEF IInv, TypeOK, Copy
<1>10. /\ tracked' \in [Process -> SUBSET Key]
       /\ tracked'[p] = tracked[p] \ hit
       /\ \A q \in Process : q # p => tracked'[q] = tracked[q]
  BY <1>1, <1>2 DEF IInv, TypeOK
<1>11. /\ missed' \subseteq Place \X Key
       /\ \A q, l : <<q, l>> \in missed => <<q, l>> \in missed' \/ (q = p /\ l \in hit)
       /\ \A l : <<Null, l>> \in missed => <<Null, l>> \in missed'
  BY <1>1, <1>2 DEF IInv, TypeOK
<1>12. TypeOK'
  BY <1>2, <1>6, <1>9, <1>10, <1>11 DEF IInv, TypeOK, Job
<1>13. UntrackedAreMissed'
  BY <1>9, <1>10, <1>11 DEF IInv, UntrackedAreMissed
<1>14. LostAreMissed'
  BY <1>2, <1>11 DEF IInv, LostAreMissed
<1>15. RedisIsTracked'
  <2>1. ASSUME NEW l \in Key, red'[l] # "none"
        PROVE  \/ <<Null, l>> \in missed'
               \/ \A q \in Process : l \in tracked'[q]
               \/ Deleting(l)'
    <3>1. CASE ~up[p]
      BY <1>1, <1>2, <1>11, <2>1, <3>1 DEF IInv, LostAreMissed
    <3>2. CASE up[p] /\ l \in hit
      BY <1>7, <3>2
    <3>3. CASE l \notin hit
      BY <1>2, <1>7, <1>10, <1>11, <2>1, <3>3 DEF IInv, RedisIsTracked
    <3> QED BY <3>1, <3>2, <3>3
  <2> QED BY <2>1 DEF RedisIsTracked
<1>16. StaleExplained'
  <2>1. ASSUME NEW q \in Process, NEW l \in Key, mem'[q][l] = "stale"
        PROVE  <<q, l>> \in missed' \/ Pending(q, l)'
    <3>1. mem[q][l] = "stale" /\ ~(q = p /\ l \in hit)
      BY <1>9, <2>1
    <3>2. CASE <<q, l>> \in missed
      BY <1>11, <3>1, <3>2
    <3>3. CASE Pending(q, l) /\ ~(q = p /\ l \in Evicts(task[t].op))
      BY <1>5, <3>3
    <3>4. CASE q = p /\ l \in Evicts(task[t].op)
      <4>1. l \notin tracked[p]
        BY <1>8, <3>1, <3>4
      <4>2. <<q, l>> \in missed
        BY <3>1, <3>4, <4>1 DEF IInv, UntrackedAreMissed
      <4> QED BY <3>2, <4>2
    <3> QED BY <3>1, <3>2, <3>3, <3>4 DEF IInv, StaleExplained
  <2>2. ASSUME NEW l \in Key, red'[l] = "stale"
        PROVE  <<Null, l>> \in missed' \/ (\E q \in Process : Pending(q, l)') \/ Deleting(l)'
    <3>1. red[l] = "stale"
      BY <1>2, <2>2
    <3>2. CASE <<Null, l>> \in missed \/ Deleting(l)
      BY <1>7, <1>11, <3>2
    <3>3. ASSUME NEW q \in Process, Pending(q, l)
          PROVE  <<Null, l>> \in missed' \/ (\E x \in Process : Pending(x, l)') \/ Deleting(l)'
      <4>1. CASE Pending(q, l)'
        BY <4>1
      <4>2. CASE q = p /\ l \in Evicts(task[t].op)
        <5>1. CASE ~up[p]
          BY <1>1, <1>11, <3>1, <5>1 DEF IInv, LostAreMissed
        <5>2. CASE up[p] /\ l \in tracked[p]
          BY <1>7, <1>8, <4>2, <5>2
        <5>3. CASE l \notin tracked[p]
          BY <1>1, <1>7, <1>11, <3>1, <5>3 DEF IInv, RedisIsTracked
        <5> QED BY <5>1, <5>2, <5>3
      <4> QED BY <1>5, <3>3, <4>1, <4>2
    <3> QED BY <3>1, <3>2, <3>3 DEF IInv, StaleExplained, Deleting
  <2> QED BY <2>1, <2>2 DEF StaleExplained, Deleting
<1> QED BY <1>6, <1>12, <1>13, <1>14, <1>15, <1>16 DEF IInv

LEMMA DelRedisKeeps ==
    ASSUME IInv, NEW t \in Task, DelRedis(t)
    PROVE  IInv'
<1> USE ReadCacheAssumption DEF ReadCacheAssumption
<1> DEFINE hit == task[t].del
<1>1. task[t].pc = "del" /\ hit \subseteq Key /\ task[t].at \in Process
  BY JobsAre DEF DelRedis, IInv, Fits, Job
<1>2. UNCHANGED <<mem, tracked, up, writes, restarts>> /\ End(t)
  BY DEF DelRedis
<1>3. task' \in [Task -> Job] /\ JobsFit'
  BY <1>2, Ended DEF IInv
<1>4. \A q, l : Pending(q, l) => Pending(q, l)'
  BY <1>1, <1>2 DEF End, Pending, IInv, TypeOK
<1>5. \A l : Deleting(l) => Deleting(l)' \/ l \in hit
  BY <1>1, <1>2 DEF End, Deleting, IInv, TypeOK
<1> HIDE DEF hit
<1>6. /\ red' \in [Key -> Copy] /\ missed' \subseteq Place \X Key
      /\ \A q \in Process, l \in Key : <<q, l>> \in missed => <<q, l>> \in missed'
      /\ \A l \in Key : red'[l] # "none" => red'[l] = red[l]
      /\ \A l \in Key : red'[l] # "none" /\ (<<Null, l>> \in missed \/ l \in hit)
                        => <<Null, l>> \in missed'
  <2>1. CASE /\ red' = [k \in Key |-> IF k \in hit THEN "none" ELSE red[k]]
             /\ missed' = missed \ ({Null} \X hit)
    BY <2>1 DEF IInv, TypeOK, Copy
  <2>2. CASE missed' = missed \cup (InRedis \cap ({Null} \X hit)) /\ UNCHANGED red
    BY <2>2 DEF IInv, TypeOK, InRedis, Place
  <2> QED BY <2>1, <2>2 DEF DelRedis, hit
<1>7. TypeOK'
  BY <1>2, <1>3, <1>6 DEF IInv, TypeOK, Job
<1>8. UntrackedAreMissed'
  BY <1>2, <1>6 DEF IInv, UntrackedAreMissed
<1>9. LostAreMissed'
  BY <1>2, <1>6 DEF IInv, LostAreMissed
<1>10. RedisIsTracked'
  BY <1>2, <1>5, <1>6 DEF IInv, RedisIsTracked
<1>11. StaleExplained'
  <2>1. \A q \in Process, l \in Key :
          mem'[q][l] = "stale" => <<q, l>> \in missed' \/ Pending(q, l)'
    BY <1>2, <1>4, <1>6 DEF IInv, StaleExplained
  <2>2. ASSUME NEW l \in Key, red'[l] = "stale"
        PROVE  <<Null, l>> \in missed' \/ (\E q \in Process : Pending(q, l)') \/ Deleting(l)'
    <3>1. red[l] = "stale" /\ (l \in hit \/ <<Null, l>> \in missed => <<Null, l>> \in missed')
      BY <1>6, <2>2
    <3>2. <<Null, l>> \in missed \/ (\E q \in Process : Pending(q, l)) \/ Deleting(l)
      BY <3>1 DEF IInv, StaleExplained, Deleting
    <3> QED BY <1>4, <1>5, <3>1, <3>2
  <2> QED BY <2>1, <2>2 DEF StaleExplained, Deleting
<1> QED BY <1>3, <1>7, <1>8, <1>9, <1>10, <1>11 DEF IInv

-----------------------------------------------------------------------------
(* Time, errors and restarts *)

LEMMA MemExpiresKeeps ==
    ASSUME IInv, NEW p \in Process, NEW k \in Key, MemExpires(p, k)
    PROVE  IInv'
<1> USE ReadCacheAssumption DEF ReadCacheAssumption
<1>1. /\ mem' = [mem EXCEPT ![p][k] = "none"]
      /\ missed' = missed \ {<<p, k>>}
      /\ UNCHANGED <<tracked, red, up, task, writes, restarts>>
  BY DEF MemExpires
<1>2. /\ mem' \in [Process -> [Key -> Copy]] /\ mem'[p][k] = "none"
      /\ \A q \in Process, l \in Key : <<q, l>> # <<p, k>> => mem'[q][l] = mem[q][l]
  BY <1>1 DEF IInv, TypeOK, Copy
<1>3. /\ missed' \subseteq Place \X Key
      /\ \A q, l : <<q, l>> # <<p, k>> /\ <<q, l>> \in missed => <<q, l>> \in missed'
      /\ \A l : <<Null, l>> \in missed => <<Null, l>> \in missed'
  BY <1>1 DEF IInv, TypeOK
<1>4. TypeOK'
  BY <1>1, <1>2, <1>3 DEF IInv, TypeOK
<1>5. JobsFit' /\ UntrackedAreMissed' /\ LostAreMissed'
  BY <1>1, <1>2, <1>3 DEF IInv, JobsFit, UntrackedAreMissed, LostAreMissed
<1>6. RedisIsTracked'
  BY <1>1, <1>3 DEF IInv, RedisIsTracked, Deleting
<1>7. StaleExplained'
  <2>1. \A q \in Process, l \in Key :
          mem'[q][l] = "stale" => <<q, l>> \in missed' \/ Pending(q, l)'
    BY <1>1, <1>2, <1>3 DEF IInv, StaleExplained, Pending
  <2>2. \A l \in Key : red'[l] = "stale" =>
          <<Null, l>> \in missed' \/ (\E q \in Process : Pending(q, l)') \/ Deleting(l)'
    BY <1>1, <1>3 DEF IInv, StaleExplained, Pending, Deleting
  <2> QED BY <2>1, <2>2 DEF StaleExplained, Deleting
<1> QED BY <1>4, <1>5, <1>6, <1>7 DEF IInv

LEMMA RedisExpiresKeeps ==
    ASSUME IInv, NEW k \in Key, RedisExpires(k)
    PROVE  IInv'
<1> USE ReadCacheAssumption DEF ReadCacheAssumption
<1>1. /\ red' = [red EXCEPT ![k] = "none"]
      /\ missed' = missed \ {<<Null, k>>}
      /\ UNCHANGED <<mem, tracked, up, task, writes, restarts>>
  BY DEF RedisExpires
<1>2. /\ red' \in [Key -> Copy] /\ missed' \subseteq Place \X Key
      /\ \A l \in Key : red'[l] # "none" => red'[l] = red[l] /\ l # k
      /\ \A l \in Key : l # k /\ <<Null, l>> \in missed => <<Null, l>> \in missed'
      /\ \A q \in Process, l \in Key : <<q, l>> \in missed => <<q, l>> \in missed'
  BY <1>1 DEF IInv, TypeOK, Copy
<1>3. TypeOK'
  BY <1>1, <1>2 DEF IInv, TypeOK
<1>4. JobsFit' /\ UntrackedAreMissed' /\ LostAreMissed'
  BY <1>1, <1>2 DEF IInv, JobsFit, UntrackedAreMissed, LostAreMissed
<1>5. RedisIsTracked'
  BY <1>1, <1>2 DEF IInv, RedisIsTracked, Deleting
<1>6. StaleExplained'
  <2>1. \A q \in Process, l \in Key :
          mem'[q][l] = "stale" => <<q, l>> \in missed' \/ Pending(q, l)'
    BY <1>1, <1>2 DEF IInv, StaleExplained, Pending
  <2>2. \A l \in Key : red'[l] = "stale" =>
          <<Null, l>> \in missed' \/ (\E q \in Process : Pending(q, l)') \/ Deleting(l)'
    BY <1>1, <1>2 DEF IInv, StaleExplained, Pending, Deleting
  <2> QED BY <2>1, <2>2 DEF StaleExplained, Deleting
<1> QED BY <1>3, <1>4, <1>5, <1>6 DEF IInv

LEMMA InRedisMissed ==
    ASSUME InRedis \subseteq missed', red' = red
    PROVE  \A l \in Key : red'[l] # "none" => <<Null, l>> \in missed'
  BY DEF InRedis

\* A process that loses Redis will not delete from it: everything there is marked.
LEMMA RedisFailsKeeps ==
    ASSUME IInv, NEW p \in Process, RedisFails(p)
    PROVE  IInv'
<1>1. /\ up' = [up EXCEPT ![p] = FALSE]
      /\ missed' = missed \cup InRedis
      /\ UNCHANGED <<mem, tracked, red, task, writes, restarts>>
  BY DEF RedisFails
<1>2. \A l \in Key : red'[l] # "none" => <<Null, l>> \in missed'
  BY <1>1, InRedisMissed
<1>3. missed \subseteq missed' /\ missed' \subseteq Place \X Key
  BY <1>1 DEF InRedis, Place, IInv, TypeOK
<1>4. TypeOK'
  BY <1>1, <1>3 DEF IInv, TypeOK
<1>5. JobsFit' /\ UntrackedAreMissed' /\ LostAreMissed' /\ RedisIsTracked'
  BY <1>1, <1>2, <1>3 DEF IInv, JobsFit, UntrackedAreMissed, LostAreMissed, RedisIsTracked
<1>6. StaleExplained'
  <2>1. \A q \in Process, l \in Key :
          mem'[q][l] = "stale" => <<q, l>> \in missed' \/ Pending(q, l)'
    BY <1>1, <1>3 DEF IInv, StaleExplained, Pending
  <2>2. \A l \in Key : red'[l] = "stale" => <<Null, l>> \in missed'
    BY <1>2
  <2> QED BY <2>1, <2>2 DEF StaleExplained
<1> QED BY <1>4, <1>5, <1>6 DEF IInv

\* A restart loses the evictions that were to come, the registry, and with them the memory:
\* what is left in Redis is marked.
LEMMA RestartKeeps ==
    ASSUME IInv, NEW p \in Process, Restart(p)
    PROVE  IInv'
<1> USE ReadCacheAssumption DEF ReadCacheAssumption
<1>1. /\ restarts' \in 0..MaxRestarts
      /\ UNCHANGED <<red, writes>>
      /\ up' \in [Process -> BOOLEAN]
  BY DEF Restart, IInv, TypeOK
<1>2. /\ mem' = [mem EXCEPT ![p] = [k \in Key |-> "none"]]
      /\ tracked' = [tracked EXCEPT ![p] = {}]
      /\ task' = [t \in Task |-> IF task[t].at = p THEN Idle ELSE task[t]]
      /\ missed' = (missed \ ({p} \X Key)) \cup InRedis
  BY DEF Restart
<1>3. /\ mem' \in [Process -> [Key -> Copy]]
      /\ \A l \in Key : mem'[p][l] = "none"
      /\ \A q \in Process : q # p => mem'[q] = mem[q]
  BY <1>2 DEF IInv, TypeOK, Copy
<1>4. /\ tracked' \in [Process -> SUBSET Key]
      /\ \A q \in Process : q # p => tracked'[q] = tracked[q]
  BY <1>2 DEF IInv, TypeOK
<1>5. /\ missed' \subseteq Place \X Key /\ InRedis \subseteq missed'
      /\ \A q \in Process, l \in Key : q # p /\ <<q, l>> \in missed => <<q, l>> \in missed'
  BY <1>2 DEF InRedis, Place, IInv, TypeOK
<1>6. \A l \in Key : red'[l] # "none" => <<Null, l>> \in missed'
  BY <1>1, <1>5, InRedisMissed
<1>7. task' \in [Task -> Job] /\ JobsFit'
  <2>1. \A t \in Task : Fits(task'[t])
    BY <1>2, JobsAre, IdleFits DEF IInv
  <2>2. task' = [t \in Task |-> task'[t]]
    BY <1>2
  <2> QED BY <2>1, <2>2, JobsAgain
<1>8. \A q \in Process, l \in Key : q # p /\ Pending(q, l) => Pending(q, l)'
  BY <1>2 DEF Pending
<1>9. TypeOK'
  BY <1>1, <1>3, <1>4, <1>5, <1>7 DEF IInv, TypeOK, Job
<1>10. UntrackedAreMissed'
  BY <1>3, <1>4, <1>5 DEF IInv, UntrackedAreMissed
<1>11. LostAreMissed' /\ RedisIsTracked'
  BY <1>6 DEF LostAreMissed, RedisIsTracked
<1>12. StaleExplained'
  <2>1. \A q \in Process, l \in Key :
          mem'[q][l] = "stale" => <<q, l>> \in missed' \/ Pending(q, l)'
    BY <1>3, <1>5, <1>8 DEF IInv, StaleExplained
  <2>2. \A l \in Key : red'[l] = "stale" => <<Null, l>> \in missed'
    BY <1>6
  <2> QED BY <2>1, <2>2 DEF StaleExplained
<1> QED BY <1>7, <1>9, <1>10, <1>11, <1>12 DEF IInv

-----------------------------------------------------------------------------
(* The theorems *)

LEMMA InitHolds == Init => IInv
<1> SUFFICES ASSUME Init PROVE IInv
  OBVIOUS
<1> USE ReadCacheAssumption DEF ReadCacheAssumption
<1>1. /\ mem = [p \in Process |-> [k \in Key |-> "none"]]
      /\ tracked = [p \in Process |-> {}] /\ red = [k \in Key |-> "none"]
      /\ up \in [Process -> BOOLEAN]
      /\ task = [t \in Task |-> Idle]
      /\ writes = 0 /\ restarts = 0 /\ missed = {}
  BY DEF Init
<1>2. TypeOK /\ JobsFit
  <2>1. \A t \in Task : task[t] = Idle /\ Idle \in Job /\ Idle.pc = "idle"
    BY <1>1, IdleFits DEF Fits, Idle
  <2>2. task \in [Task -> Job] /\ JobsFit
    BY <1>1, <2>1 DEF JobsFit
  <2> QED BY <1>1, <2>2 DEF TypeOK, Job, Copy
<1>3. UntrackedAreMissed /\ LostAreMissed /\ RedisIsTracked
  BY <1>1 DEF UntrackedAreMissed, LostAreMissed, RedisIsTracked
<1>4. StaleExplained
  BY <1>1 DEF StaleExplained
<1> QED BY <1>2, <1>3, <1>4 DEF IInv

LEMMA StepHolds == IInv /\ [Next]_vars => IInv'
<1> SUFFICES ASSUME IInv, [Next]_vars PROVE IInv'
  OBVIOUS
<1>1. ASSUME NEW t \in Task, NEW p \in Process, NEW k \in Key, Miss(t, p, k) PROVE IInv'
  BY <1>1, MissKeeps
<1>2. ASSUME NEW t \in Task, NEW p \in Process, NEW o \in Op, Commit(t, p, o) PROVE IInv'
  BY <1>2, CommitKeeps
<1>3. ASSUME NEW t \in Task, Steps(t) PROVE IInv'
  BY <1>3, FromRedisKeeps, FetchKeeps, StoreKeeps, SetRedisKeeps, EvictKeeps, DelRedisKeeps
     DEF Steps
<1>4. CASE Expires
  BY <1>4, MemExpiresKeeps, RedisExpiresKeeps DEF Expires
<1>5. ASSUME NEW p \in Process, RedisFails(p) \/ Restart(p) PROVE IInv'
  BY <1>5, RedisFailsKeeps, RestartKeeps
<1>6. CASE UNCHANGED vars
  <2>1. TypeOK' /\ JobsFit'
    BY <1>6 DEF vars, IInv, TypeOK, JobsFit
  <2>2. UntrackedAreMissed' /\ LostAreMissed'
    BY <1>6 DEF vars, IInv, UntrackedAreMissed, LostAreMissed
  <2>3. RedisIsTracked'
    BY <1>6 DEF vars, IInv, RedisIsTracked, Deleting
  <2>4. StaleExplained'
    BY <1>6 DEF vars, IInv, StaleExplained, Pending
  <2> QED BY <2>1, <2>2, <2>3, <2>4 DEF IInv
<1> QED BY <1>1, <1>2, <1>3, <1>4, <1>5, <1>6 DEF Next

\* In every reachable state a copy its process does not track is marked as missed, whatever
\* is in Redis is tracked by every process or marked, and a stale copy is explained
\* (redisCache.ts: the keyRegistry is all that invalidateCaches looks at).
THEOREM Inductive == Spec => []IInv
BY InitHolds, StepHolds, PTL DEF Spec

\* With any number of server processes and requests, a stale copy in memory or in Redis is
\* one that an eviction under way removes, or one of the misses the model names
\* (redisCache.ts).
THEOREM StaleCopiesAreExplained == Spec => []CopiesExplained
<1>1. IInv => CopiesExplained
  BY DEF IInv, CopiesExplained
<1> QED BY <1>1, Inductive, PTL

-----------------------------------------------------------------------------
(***************************************************************************)
(* The bots' settings (lib/telegramSettings.ts, routes/adminTelegram.ts).  *)
(***************************************************************************)
BotJob == [pc : {"idle", "get", "store", "save", "saved", "check", "marked", "capture", "done"},
           kind : {"other", "put", "refresh"}, then : {"end", "save", "check", "done", "capture"},
           snap : Bots!Copy \cup {None}, patch : [Bots!Bot -> Token \cup {None}],
           wrote : SUBSET Bots!Bot, todo : SUBSET Bots!Bot, quiet : BOOLEAN]

\* What a handler has read when it goes on with it, and where it goes on.
BotFits(t, j) ==
    /\ j \in BotJob
    /\ j.pc \in {"store", "save", "check", "capture"} => j.snap \in Bots!Copy
    /\ j.pc = "get" => j.then # "end"
    /\ j.pc \in {"save", "saved"} => j.then = "save"
    /\ j.pc = "check" => j.then = "check"
    /\ j.pc = "capture" => j.then = "capture"
    /\ j.pc = "done" => j.then = "done"
    /\ j.pc = "marked" => j.then \in {"check", "capture"}
    /\ j.pc # "idle" /\ j.then = "check" => j.todo # {}
    /\ j.then = "done" => j.todo = {}
    /\ t \in Hook => j.then \in {"end", "capture"}
    /\ j.kind # "other" => t \in Page
    /\ t \notin Hook => j.then # "capture"

\* The bots whose new token has still to be checked.
Unchecked(j) ==
    IF j.pc = "marked" THEN j.todo \ {IF "main" \in j.todo THEN "main" ELSE "approval"} ELSE j.todo

Saving(j) == j.then = "save" /\ j.pc # "saved"

QuietPut(j) == j.kind = "put" /\ j.quiet

\* While a save is quiet, nobody else is at work on the tokens, what it acts on is the row, and
\* once it has written, the row holds its tokens and the status of those checked is theirs.
Undisturbed(t, j, row, copy, found) ==
    /\ j.pc = "get" => copy = None \/ copy.token = row.token
    /\ j.pc \in {"store", "save", "check"} => j.snap.token = row.token
    /\ ~Saving(j) => \A b \in Bots!Bot : j.patch[b] # None =>
                       /\ row.token[b] = j.patch[b]
                       /\ b \in j.wrote \ Unchecked(j) => found[b] = j.patch[b]
    /\ j.todo \subseteq j.wrote
    /\ \A b \in j.wrote : j.patch[b] # None

AlonePut(t) == \A x \in (Page \cup Bots!Bot) \ {t} : job[x].pc = "idle"

BotsTypes == /\ seen \in Bots!Copy /\ of \in Bots!Tokens /\ cache \in Bots!Copy \cup {None}
             /\ late \in BOOLEAN /\ events \in 0..MaxEvents
             /\ job \in [Bots!Task -> BotJob]
             /\ \A t \in Bots!Task : BotFits(t, job[t])

BotsQuiet == \A t \in Page : QuietPut(job[t]) =>
                 AlonePut(t) /\ Undisturbed(t, job[t], seen, cache, of)

BotsIInv == BotsTypes /\ BotsQuiet /\ Bots!CopyExplained

BotsInductive == part = "bots" => BotsIInv

LEMMA BotsStarts == BackgroundInit /\ part = "bots" => Bots!Init
  BY DEF BackgroundInit

LEMMA BotsMoves ==
  ASSUME [BackgroundNext]_background, part' = "bots"
  PROVE  part = "bots" /\ [Bots!Next]_(Bots!vars)
<1>1. CASE UNCHANGED background
  BY <1>1 DEF background, Bots!vars
<1>2. CASE BackgroundNext
  BY <1>2 DEF BackgroundNext
<1> QED BY <1>1, <1>2

\* Pages, senders and the bots themselves are told apart; None is not a token or a copy.
LEMMA BotsConstants ==
  /\ EnvToken \in Token /\ None \notin Token /\ MaxEvents \in Nat
  /\ \A t \in Hook : t \notin Page /\ t \notin Bots!Bot
  /\ \A t \in Bots!Task : t \in Hook \/ t \in Page \/ t \in Bots!Bot
  /\ \A t \in Page \cup Hook \cup Bots!Bot : t \in Bots!Task
  /\ None \notin Bots!Copy
  BY BotsAssumption DEF Bots!BotSettingsAssumption, Bots!Bot, Bots!Task, Bots!Copy, Bots!Tokens

LEMMA BotIdle == /\ \A t : BotFits(t, Bots!Idle)
                 /\ Bots!Idle.pc = "idle" /\ ~QuietPut(Bots!Idle)
  BY DEF BotFits, BotJob, Bots!Idle, QuietPut

LEMMA BotsInit == Bots!Init => BotsIInv
<1> SUFFICES ASSUME Bots!Init PROVE BotsIInv
  OBVIOUS
<1>1. \A t \in Bots!Task : job[t] = Bots!Idle
  BY DEF Bots!Init
<1>2. BotsTypes
  <2>1. job \in [Bots!Task -> BotJob]
    BY BotIdle DEF Bots!Init, BotFits
  <2>2. seen \in Bots!Copy
    BY BotsConstants DEF Bots!Init, Bots!Copy, Bots!Tokens, Bots!Bot
  <2>3. of \in Bots!Tokens /\ cache = None /\ late = FALSE /\ events = 0
    BY DEF Bots!Init, Bots!Tokens
  <2>4. \A t \in Bots!Task : BotFits(t, job[t])
    BY <1>1, BotIdle
  <2>5. events \in 0..MaxEvents /\ cache \in Bots!Copy \cup {None} /\ late \in BOOLEAN
    <3>1. 0 \in 0..MaxEvents
      BY BotsConstants
    <3> QED BY <2>3, <3>1
  <2> QED BY <2>1, <2>2, <2>3, <2>4, <2>5 DEF BotsTypes
<1>3. BotsQuiet
  BY <1>1, BotIdle, BotsConstants DEF BotsQuiet
<1>4. Bots!CopyExplained
  BY DEF Bots!Init, Bots!CopyExplained
<1> QED BY <1>2, <1>3, <1>4 DEF BotsIInv

\* One job changes.
LEMMA BotTypes ==
  ASSUME BotsTypes, NEW t \in Bots!Task, NEW j, BotFits(t, j), job' = [job EXCEPT ![t] = j],
         seen' \in Bots!Copy, of' \in Bots!Tokens, cache' \in Bots!Copy \cup {None},
         late' \in BOOLEAN, events' \in 0..MaxEvents
  PROVE  BotsTypes'
<1>1. job' \in [Bots!Task -> BotJob] /\ \A x \in Bots!Task : BotFits(x, job'[x])
  BY DEF BotsTypes, BotFits
<1> QED BY <1>1 DEF BotsTypes

\* Whoever works does so alone if it is not a sender, and a sender disturbs no quiet save.
LEMMA BotQuiet ==
  ASSUME BotsTypes, BotsQuiet, NEW t \in Bots!Task, t \in Hook \/ job[t].pc # "idle", NEW j,
         job' = [job EXCEPT ![t] = j],
         t \in Hook => seen'.token = seen.token /\ of' = of,
         cache' \in {cache, None},
         t \in Page /\ QuietPut(j) => QuietPut(job[t]) /\ Undisturbed(t, j, seen', cache', of')
  PROVE  BotsQuiet'
<1> SUFFICES ASSUME NEW y \in Page, QuietPut(job'[y])
             PROVE  AlonePut(y)' /\ Undisturbed(y, job'[y], seen', cache', of')
  BY DEF BotsQuiet
<1>1. y \in Bots!Task /\ \A x \in Page \cup Bots!Bot : x \in Bots!Task
  BY BotsConstants
<1>2. /\ DOMAIN job = Bots!Task /\ job'[t] = j
      /\ \A x \in Bots!Task \ {t} : job'[x] = job[x]
  BY DEF BotsTypes
<1>3. CASE y = t
  <2>1. QuietPut(job[t]) /\ Undisturbed(t, j, seen', cache', of')
    BY <1>2, <1>3
  <2>2. AlonePut(t)
    BY <1>3, <2>1 DEF BotsQuiet
  <2>3. AlonePut(t)'
    BY <1>1, <1>2, <2>2 DEF AlonePut
  <2> QED BY <1>2, <1>3, <2>1, <2>3
<1>4. CASE y # t
  <2>1. QuietPut(job[y])
    BY <1>1, <1>2, <1>4
  <2>2. AlonePut(y) /\ Undisturbed(y, job[y], seen, cache, of)
    BY <2>1 DEF BotsQuiet
  <2>3. t \in Hook
    BY <1>4, <2>2, BotsConstants DEF AlonePut
  <2>4. AlonePut(y)'
    BY <1>1, <1>2, <2>2, <2>3, BotsConstants DEF AlonePut
  <2>5. Undisturbed(y, job'[y], seen', cache', of')
    BY <1>1, <1>2, <1>4, <2>2, <2>3 DEF Undisturbed
  <2> QED BY <2>4, <2>5
<1> QED BY <1>3, <1>4

LEMMA BotCopy ==
  ASSUME BotsTypes, Bots!CopyExplained, NEW t \in Bots!Task, job[t].pc \notin {"saved", "marked"},
         NEW j, job' = [job EXCEPT ![t] = j], UNCHANGED <<seen, cache, late>>
  PROVE  Bots!CopyExplained'
<1>1. \A x \in Bots!Task : job[x].pc \in {"saved", "marked"} => job'[x] = job[x]
  BY DEF BotsTypes
<1> QED BY <1>1 DEF Bots!CopyExplained

\* A job is given up or ends.
LEMMA BotEnds ==
  ASSUME BotsIInv, NEW t \in Bots!Task, job[t].pc \notin {"saved", "marked"}, Bots!End(t),
         UNCHANGED <<seen, of, cache, late, events>>
  PROVE  BotsIInv'
<1>1. BotsTypes /\ BotsQuiet /\ Bots!CopyExplained /\ job' = [job EXCEPT ![t] = Bots!Idle]
  BY DEF BotsIInv, Bots!End
<1>2. BotsTypes'
  BY <1>1, BotIdle, BotTypes DEF BotsTypes
<1>3. Bots!CopyExplained'
  BY <1>1, BotCopy
<1>4. BotsQuiet'
  <2>1. CASE job[t].pc # "idle"
    BY <1>1, <2>1, BotIdle, BotQuiet
  <2>2. CASE job[t].pc = "idle"
    <3> SUFFICES ASSUME NEW y \in Page, QuietPut(job'[y])
                 PROVE  AlonePut(y)' /\ Undisturbed(y, job'[y], seen', cache', of')
      BY DEF BotsQuiet
    <3>1. y \in Bots!Task /\ \A x \in Page \cup Bots!Bot : x \in Bots!Task
      BY BotsConstants
    <3>2. y # t /\ job'[y] = job[y] /\ \A x \in Bots!Task : job'[x].pc = job[x].pc
      BY <1>1, <2>2, <3>1, BotIdle DEF BotsTypes
    <3>3. AlonePut(y) /\ Undisturbed(y, job[y], seen, cache, of)
      BY <1>1, <3>2 DEF BotsQuiet
    <3> QED BY <3>1, <3>2, <3>3 DEF AlonePut
  <2> QED BY <2>1, <2>2
<1> QED BY <1>2, <1>3, <1>4 DEF BotsIInv

LEMMA BotGet ==
  ASSUME BotsIInv, NEW t \in Bots!Task, Bots!Get(t) PROVE BotsIInv'
<1>1. /\ BotsTypes /\ BotsQuiet /\ Bots!CopyExplained /\ BotFits(t, job[t])
      /\ job[t].pc = "get" /\ UNCHANGED <<seen, of, cache, late, events>>
  BY DEF BotsIInv, BotsTypes, Bots!Get
<1> DEFINE i == job[t]
<1> DEFINE j == IF cache # None
                THEN [i EXCEPT !.pc = i.then, !.snap = IF i.then = "done" THEN None ELSE cache]
                ELSE [i EXCEPT !.pc = "store", !.snap = seen]
<1>2. job' = [job EXCEPT ![t] = j]
  BY <1>1 DEF Bots!Get, BotsTypes
<1>3. BotFits(t, j)
  BY <1>1 DEF BotFits, BotJob, BotsTypes
<1>4. ASSUME t \in Page, QuietPut(j)
      PROVE  QuietPut(job[t]) /\ Undisturbed(t, j, seen', cache', of')
  <2>1. QuietPut(i)
    BY <1>1, <1>4 DEF QuietPut, BotFits, BotJob
  <2>2. Undisturbed(t, i, seen, cache, of)
    BY <1>1, <1>4, <2>1 DEF BotsQuiet
  <2>3. i.then \in {"save", "check", "done"}
    BY <1>1, <1>4, BotsConstants DEF BotFits, BotJob
  <2>4. /\ j.patch = i.patch /\ j.wrote = i.wrote /\ j.todo = i.todo /\ j.then = i.then
        /\ j.pc \in {"save", "check", "done", "store"}
        /\ j.pc # "done" => j.snap.token = seen.token
    BY <1>1, <2>2, <2>3 DEF BotFits, BotJob, Undisturbed
  <2>5. i.pc # "marked" /\ i.pc # "saved" /\ Unchecked(j) = Unchecked(i) /\ Saving(j) = Saving(i)
    BY <1>1, <2>4 DEF Unchecked, Saving
  <2> HIDE DEF j, i
  <2>6. Undisturbed(t, j, seen, cache, of)
    BY <2>2, <2>4, <2>5 DEF Undisturbed
  <2> QED BY <1>1, <2>1, <2>6 DEF i
<1> HIDE DEF j
<1>5. BotsTypes'
  BY <1>1, <1>2, <1>3, BotTypes DEF BotsTypes
<1>6. BotsQuiet'
  BY <1>1, <1>2, <1>4, BotQuiet
<1>7. Bots!CopyExplained'
  BY <1>1, <1>2, BotCopy
<1> QED BY <1>5, <1>6, <1>7 DEF BotsIInv

\* A read ends: the copy is what the row was when it was asked.
LEMMA BotStore ==
  ASSUME BotsIInv, NEW t \in Bots!Task, Bots!Store(t) PROVE BotsIInv'
<1>1. /\ BotsTypes /\ BotsQuiet /\ Bots!CopyExplained /\ BotFits(t, job[t])
      /\ job[t].pc = "store" /\ UNCHANGED <<seen, of, events>>
      /\ cache' = job[t].snap /\ late' = (job[t].snap # seen)
      /\ job[t].snap \in Bots!Copy
  BY DEF BotsIInv, BotsTypes, Bots!Store, BotFits
<1> DEFINE i == job[t]
<1> DEFINE same == i.snap.token = seen.token
<1> DEFINE n == IF i.then = "end" THEN Bots!Idle
                ELSE [i EXCEPT !.pc = i.then, !.snap = IF i.then = "done" THEN None ELSE @]
<1> DEFINE now1 == [job EXCEPT ![t] = n]
<1>2. job' = IF same THEN now1
             ELSE [x \in Bots!Task |-> [now1[x] EXCEPT !.quiet = @ /\ Bots!Unsettled(x)]]
  BY <1>1 DEF Bots!Store, BotsTypes
<1>3. BotFits(t, n)
  <2>1. CASE i.then = "end"
    BY <2>1, BotIdle
  <2>2. CASE i.then # "end"
    BY <1>1, <2>2 DEF BotFits, BotJob
  <2> QED BY <2>1, <2>2
<1>4. now1 \in [Bots!Task -> BotJob] /\ \A x \in Bots!Task : BotFits(x, now1[x])
  BY <1>1, <1>3 DEF BotsTypes, BotFits
<1>5. /\ now1[t] = n
      /\ \A x \in Bots!Task \ {t} : now1[x] = job[x]
  BY <1>1 DEF BotsTypes
<1>6. QuietPut(n) => /\ QuietPut(i)
                     /\ i.then \in {"save", "check", "done", "capture"} /\ i.then # "end"
                     /\ n = [i EXCEPT !.pc = i.then, !.snap = IF i.then = "done" THEN None ELSE @]
  BY <1>1, BotIdle DEF QuietPut, BotFits, BotJob
<1> HIDE DEF now1, n
<1>7. ASSUME NEW x \in Bots!Task
      PROVE  /\ job'[x] \in BotJob /\ BotFits(x, job'[x])
             /\ job'[x].pc = now1[x].pc
             /\ QuietPut(job'[x]) => /\ QuietPut(now1[x])
                                     /\ same \/ job[x].pc \in {"save", "saved"}
             /\ \A row, copy, found : Undisturbed(x, now1[x], row, copy, found) =>
                   Undisturbed(x, job'[x], row, copy, found)
  <2>1. CASE same
    BY <1>2, <1>4, <2>1
  <2>2. CASE ~same
    <3> DEFINE q == Bots!Unsettled(x)
    <3> DEFINE k == now1[x]
    <3>1. job'[x] = [k EXCEPT !.quiet = @ /\ q] /\ k \in BotJob /\ BotFits(x, k)
      BY <1>2, <1>4, <2>2
    <3>2. q = (job[x].pc \in {"save", "saved"})
      BY DEF Bots!Unsettled
    <3> HIDE DEF k, q
    <3>3. /\ job'[x].pc = k.pc /\ job'[x].kind = k.kind /\ job'[x].then = k.then
          /\ job'[x].snap = k.snap /\ job'[x].patch = k.patch /\ job'[x].wrote = k.wrote
          /\ job'[x].todo = k.todo /\ job'[x].quiet = (k.quiet /\ q) /\ job'[x] \in BotJob
      <4>1. q \in BOOLEAN
        BY <3>2
      <4> QED BY <3>1, <4>1 DEF BotJob
    <3>4. BotFits(x, job'[x])
      BY <3>1, <3>3 DEF BotFits
    <3>5. \A row, copy, found : Undisturbed(x, k, row, copy, found) =>
                   Undisturbed(x, job'[x], row, copy, found)
      BY <3>3 DEF Undisturbed, Unchecked, Saving
    <3>6. QuietPut(job'[x]) => QuietPut(k) /\ job[x].pc \in {"save", "saved"}
      BY <3>2, <3>3 DEF QuietPut
    <3> QED BY <3>3, <3>4, <3>5, <3>6 DEF k
  <2> QED BY <2>1, <2>2
<1>8. BotsTypes'
  <2>1. job' = [x \in Bots!Task |-> job'[x]]
    BY <1>2, <1>4
  <2>2. job' \in [Bots!Task -> BotJob] /\ \A x \in Bots!Task : BotFits(x, job'[x])
    BY <1>7, <2>1
  <2>3. late' \in BOOLEAN /\ cache' \in Bots!Copy \cup {None}
    BY <1>1
  <2> QED BY <1>1, <2>2, <2>3 DEF BotsTypes
<1>9. BotsQuiet'
  <2> SUFFICES ASSUME NEW y \in Page, QuietPut(job'[y])
               PROVE  AlonePut(y)' /\ Undisturbed(y, job'[y], seen', cache', of')
    BY DEF BotsQuiet
  <2>1. y \in Bots!Task /\ \A x \in Page \cup Bots!Bot : x \in Bots!Task
    BY BotsConstants
  <2>2. QuietPut(now1[y]) /\ (same \/ job[y].pc \in {"save", "saved"})
    BY <1>7, <2>1
  <2>3. CASE y = t
    <3>1. QuietPut(i) /\ same /\ QuietPut(n)
      BY <1>1, <1>5, <1>6, <2>2, <2>3
    <3>2. AlonePut(t) /\ Undisturbed(t, i, seen, cache, of)
      BY <1>1, <2>3, <3>1 DEF BotsQuiet
    <3>3. AlonePut(t)'
      BY <1>5, <1>7, <2>1, <3>2 DEF AlonePut
    <3>4. i.then \in {"save", "check", "done"}
      BY <1>1, <1>6, <2>3, <3>1, BotsConstants DEF BotFits
    <3>5. /\ n.patch = i.patch /\ n.wrote = i.wrote /\ n.todo = i.todo /\ n.then = i.then
          /\ n.pc \in {"save", "check", "done"}
          /\ n.pc # "done" => n.snap = i.snap
      BY <1>1, <1>6, <3>1, <3>4 DEF BotFits, BotJob
    <3>6. Unchecked(n) = Unchecked(i) /\ Saving(n) = Saving(i)
      BY <1>1, <3>5 DEF Unchecked, Saving
    <3>7. Undisturbed(t, n, seen', cache', of')
      BY <1>1, <3>1, <3>2, <3>5, <3>6 DEF Undisturbed
    <3> QED BY <1>5, <1>7, <2>1, <2>3, <3>3, <3>7
  <2>4. CASE y # t
    <3>1. QuietPut(job[y]) /\ now1[y] = job[y]
      BY <1>5, <2>1, <2>2, <2>4
    <3>2. AlonePut(y) /\ Undisturbed(y, job[y], seen, cache, of)
      BY <1>1, <3>1 DEF BotsQuiet
    <3>3. t \in Hook
      BY <1>1, <2>4, <3>2, BotsConstants DEF AlonePut
    <3>4. AlonePut(y)'
      BY <1>5, <1>7, <2>1, <3>2, <3>3, BotsConstants DEF AlonePut
    <3>5. Undisturbed(y, now1[y], seen', cache', of')
      BY <1>1, <2>2, <3>1, <3>2 DEF Undisturbed
    <3> QED BY <1>7, <2>1, <3>4, <3>5
  <2> QED BY <2>3, <2>4
<1>10. Bots!CopyExplained'
  BY <1>1 DEF Bots!CopyExplained
<1> QED BY <1>8, <1>9, <1>10 DEF BotsIInv

LEMMA BotSave ==
  ASSUME BotsIInv, NEW t \in Bots!Task, Bots!Save(t) PROVE BotsIInv'
<1> DEFINE i == job[t]
<1> DEFINE set == {b \in Bots!Bot : i.patch[b] # None /\ i.patch[b] # i.snap.token[b]}
<1>1. /\ BotsTypes /\ BotsQuiet /\ BotFits(t, job[t]) /\ job[t].pc = "save"
      /\ UNCHANGED <<of, cache, late, events>>
      /\ seen' = [seen EXCEPT !.token = [b \in Bots!Bot |-> IF b \in set THEN i.patch[b] ELSE @[b]]]
  BY DEF BotsIInv, BotsTypes, Bots!Save
<1> DEFINE j == [i EXCEPT !.pc = "saved", !.snap = None, !.wrote = set, !.todo = set]
<1>2. job' = [job EXCEPT ![t] = j]
  BY <1>1 DEF Bots!Save, BotsTypes, Bots!Changed
<1>3. BotFits(t, j)
  BY <1>1 DEF BotFits, BotJob
<1>4. /\ seen' \in Bots!Copy
      /\ \A b \in Bots!Bot : seen'.token[b] = IF b \in set THEN i.patch[b] ELSE seen.token[b]
  <2>1. i.patch \in [Bots!Bot -> Token \cup {None}]
    BY <1>1 DEF BotFits, BotJob
  <2> QED BY <1>1, <2>1 DEF BotsTypes, Bots!Copy, Bots!Tokens
<1>5. ASSUME t \in Page, QuietPut(j)
      PROVE  QuietPut(job[t]) /\ Undisturbed(t, j, seen', cache', of')
  <2>1. QuietPut(i)
    BY <1>1, <1>5 DEF QuietPut, BotFits, BotJob
  <2>2. i.snap.token = seen.token
    BY <1>1, <1>5, <2>1 DEF BotsQuiet, Undisturbed
  <2>3. j.pc = "saved" /\ j.patch = i.patch /\ j.wrote = set /\ j.todo = set
    BY <1>1 DEF BotFits, BotJob
  <2>4. Unchecked(j) = set
    BY <2>3 DEF Unchecked
  <2>5. \A b \in Bots!Bot : i.patch[b] # None => seen'.token[b] = i.patch[b]
    BY <1>4, <2>2
  <2>6. \A b \in set : i.patch[b] # None
    OBVIOUS
  <2> HIDE DEF j, i, set
  <2>7. Undisturbed(t, j, seen', cache', of')
    BY <2>3, <2>4, <2>5, <2>6 DEF Undisturbed
  <2> QED BY <2>1, <2>7 DEF i
<1> HIDE DEF j
<1>6. t \notin Hook
  BY <1>1 DEF BotFits
<1>7. BotsTypes'
  BY <1>1, <1>2, <1>3, <1>4, BotTypes DEF BotsTypes
<1>8. BotsQuiet'
  BY <1>1, <1>2, <1>5, <1>6, BotQuiet
<1>9. Bots!CopyExplained'
  <2>1. job'[t].pc = "saved"
    BY <1>1, <1>2 DEF BotsTypes, j, BotJob
  <2> QED BY <2>1 DEF Bots!CopyExplained
<1> QED BY <1>7, <1>8, <1>9 DEF BotsIInv

LEMMA BotSaved ==
  ASSUME BotsIInv, NEW t \in Bots!Task, Bots!Saved(t) PROVE BotsIInv'
<1> DEFINE i == job[t]
<1> DEFINE j == IF i.todo # {}
                THEN [i EXCEPT !.pc = "get", !.then = "check", !.todo = i.todo, !.snap = None]
                ELSE [i EXCEPT !.pc = "get", !.then = "done", !.todo = {}, !.snap = None]
<1>1. /\ BotsTypes /\ BotsQuiet /\ BotFits(t, i) /\ i.pc = "saved"
      /\ UNCHANGED <<seen, of, events>> /\ cache' = None
      /\ late' = (late /\ cache' # None)
  BY DEF BotsIInv, BotsTypes, Bots!Saved, Bots!Invalidated
<1>2. job' = [job EXCEPT ![t] = j]
  BY <1>1 DEF Bots!Saved, BotsTypes, Bots!Onward
<1>3. BotFits(t, j)
  BY <1>1 DEF BotFits, BotJob
<1>4. ASSUME t \in Page, QuietPut(j)
      PROVE  QuietPut(job[t]) /\ Undisturbed(t, j, seen', cache', of')
  <2>1. QuietPut(i)
    BY <1>1, <1>4 DEF QuietPut, BotFits, BotJob
  <2>2. Undisturbed(t, i, seen, cache, of)
    BY <1>1, <1>4, <2>1 DEF BotsQuiet
  <2>3. j.patch = i.patch /\ j.wrote = i.wrote /\ j.todo = i.todo /\ j.pc = "get"
    BY <1>1 DEF BotFits, BotJob
  <2>4. ~Saving(i) /\ Unchecked(j) = Unchecked(i)
    BY <1>1, <2>3 DEF Saving, Unchecked
  <2> HIDE DEF j, i
  <2>5. Undisturbed(t, j, seen', cache', of')
    BY <1>1, <2>2, <2>3, <2>4 DEF Undisturbed
  <2> QED BY <2>1, <2>5 DEF i
<1> HIDE DEF j
<1>5. late' \in BOOLEAN
  BY <1>1
<1>6. BotsTypes'
  BY <1>1, <1>2, <1>3, <1>5, BotTypes DEF BotsTypes
<1>7. BotsQuiet'
  BY <1>1, <1>2, <1>3, <1>4, BotQuiet DEF BotFits
<1>8. Bots!CopyExplained'
  BY <1>1 DEF Bots!CopyExplained
<1> QED BY <1>6, <1>7, <1>8 DEF BotsIInv

LEMMA BotCheck ==
  ASSUME BotsIInv, NEW t \in Bots!Task, Bots!Check(t) PROVE BotsIInv'
<1> DEFINE i == job[t]
<1> DEFINE c == Bots!Current(t)
<1> DEFINE j == [i EXCEPT !.pc = "marked", !.snap = None]
<1>1. /\ BotsTypes /\ BotsQuiet /\ Bots!CopyExplained /\ BotFits(t, i) /\ i.pc = "check"
      /\ UNCHANGED <<seen, cache, late, events>>
      /\ of' = [of EXCEPT ![c] = i.snap.token[c]]
      /\ c = IF "main" \in i.todo THEN "main" ELSE "approval"
      /\ i.snap \in Bots!Copy
  BY DEF BotsIInv, BotsTypes, Bots!Check, Bots!Current, BotFits
<1>2. job' = [job EXCEPT ![t] = j]
  BY <1>1 DEF Bots!Check, BotsTypes
<1>3. BotFits(t, j)
  BY <1>1 DEF BotFits, BotJob
<1>4. c \in Bots!Bot /\ c \in i.todo /\ i.todo \subseteq Bots!Bot /\ t \notin Hook
  BY <1>1 DEF BotFits, BotJob, Bots!Bot
<1>5. /\ of' \in Bots!Tokens /\ of'[c] = i.snap.token[c]
      /\ \A b \in Bots!Bot : b # c => of'[b] = of[b]
  BY <1>1, <1>4 DEF BotsTypes, Bots!Copy, Bots!Tokens
<1>6. ASSUME t \in Page, QuietPut(j)
      PROVE  QuietPut(job[t]) /\ Undisturbed(t, j, seen', cache', of')
  <2>1. QuietPut(i)
    BY <1>1, <1>6 DEF QuietPut, BotFits, BotJob
  <2>2. Undisturbed(t, i, seen, cache, of)
    BY <1>1, <1>6, <2>1 DEF BotsQuiet
  <2>3. j.patch = i.patch /\ j.wrote = i.wrote /\ j.todo = i.todo /\ j.pc = "marked"
    BY <1>1 DEF BotFits, BotJob
  <2>4. Unchecked(i) = i.todo /\ Unchecked(j) = i.todo \ {c} /\ ~Saving(i)
    BY <1>1, <2>3 DEF Saving, Unchecked, BotFits
  <2>5. i.snap.token = seen.token
    BY <1>1, <2>2 DEF Undisturbed
  <2>6. /\ i.todo \subseteq i.wrote
        /\ \A b \in i.wrote : i.patch[b] # None
        /\ \A b \in Bots!Bot : i.patch[b] # None =>
             /\ seen.token[b] = i.patch[b]
             /\ b \in i.wrote \ i.todo => of[b] = i.patch[b]
    BY <2>2, <2>4 DEF Undisturbed
  <2>7. \A b \in Bots!Bot : i.patch[b] # None /\ b \in i.wrote \ (i.todo \ {c}) =>
             of'[b] = i.patch[b]
    BY <1>4, <1>5, <2>5, <2>6
  <2> HIDE DEF j, i, c
  <2>8. Undisturbed(t, j, seen', cache', of')
    BY <1>1, <2>3, <2>4, <2>6, <2>7 DEF Undisturbed
  <2> QED BY <2>1, <2>8 DEF i
<1> HIDE DEF j
<1>7. BotsTypes'
  BY <1>1, <1>2, <1>3, <1>5, BotTypes DEF BotsTypes
<1>8. BotsQuiet'
  BY <1>1, <1>2, <1>4, <1>6, BotQuiet
<1>9. Bots!CopyExplained'
  BY <1>1, <1>2, BotCopy
<1> QED BY <1>7, <1>8, <1>9 DEF BotsIInv

LEMMA BotMarked ==
  ASSUME BotsIInv, NEW t \in Bots!Task, Bots!Marked(t) PROVE BotsIInv'
<1> DEFINE i == job[t]
<1> DEFINE c == Bots!Current(t)
<1> DEFINE d == i.todo \ {c}
<1> DEFINE j == IF t \in Page
                THEN IF d # {} THEN [i EXCEPT !.pc = "get", !.then = "check", !.todo = d, !.snap = None]
                               ELSE [i EXCEPT !.pc = "get", !.then = "done", !.todo = {}, !.snap = None]
                ELSE Bots!Idle
<1>1. /\ BotsTypes /\ BotsQuiet /\ BotFits(t, i) /\ i.pc = "marked"
      /\ UNCHANGED <<seen, of, events>> /\ cache' = None
      /\ late' = (late /\ cache' # None)
      /\ c = IF "main" \in i.todo THEN "main" ELSE "approval"
  BY DEF BotsIInv, BotsTypes, Bots!Marked, Bots!Invalidated, Bots!Current
<1>2. job' = [job EXCEPT ![t] = j]
  BY <1>1 DEF Bots!Marked, BotsTypes, Bots!Onward, Bots!End
<1>3. BotFits(t, j)
  <2>1. CASE t \in Page
    <3>1. t \notin Hook /\ i.todo \subseteq Bots!Bot
      BY <1>1, <2>1, BotsConstants DEF BotFits, BotJob
    <3>2. d \in SUBSET Bots!Bot
      BY <3>1
    <3> HIDE DEF d
    <3> QED BY <1>1, <2>1, <3>1, <3>2 DEF BotFits, BotJob
  <2>2. CASE t \notin Page
    BY <2>2, BotIdle
  <2> QED BY <2>1, <2>2
<1>4. ASSUME t \in Page, QuietPut(j)
      PROVE  QuietPut(job[t]) /\ Undisturbed(t, j, seen', cache', of')
  <2>1. QuietPut(i)
    BY <1>1, <1>4 DEF QuietPut, BotFits, BotJob
  <2>2. Undisturbed(t, i, seen, cache, of)
    BY <1>1, <1>4, <2>1 DEF BotsQuiet
  <2>3. j.patch = i.patch /\ j.wrote = i.wrote /\ j.todo = d /\ j.pc = "get"
    BY <1>1, <1>4 DEF BotFits, BotJob
  <2>4. ~Saving(i) /\ Unchecked(i) = d /\ Unchecked(j) = d
    BY <1>1, <2>3, <1>4, BotsConstants DEF Saving, Unchecked, BotFits
  <2>5. d \subseteq i.wrote
    BY <2>2 DEF Undisturbed
  <2> HIDE DEF j, i, d
  <2>6. Undisturbed(t, j, seen', cache', of')
    BY <1>1, <2>2, <2>3, <2>4, <2>5 DEF Undisturbed
  <2> QED BY <2>1, <2>6 DEF i
<1> HIDE DEF j
<1>5. late' \in BOOLEAN
  BY <1>1
<1>6. BotsTypes'
  BY <1>1, <1>2, <1>3, <1>5, BotTypes DEF BotsTypes
<1>7. BotsQuiet'
  BY <1>1, <1>2, <1>3, <1>4, BotQuiet DEF BotFits
<1>8. Bots!CopyExplained'
  BY <1>1 DEF Bots!CopyExplained
<1> QED BY <1>6, <1>7, <1>8 DEF BotsIInv

\* A sender starts.
LEMMA BotSends ==
  ASSUME BotsIInv, NEW t \in Hook, NEW j, BotFits(t, j), job' = [job EXCEPT ![t] = j],
         job[t].pc \notin {"saved", "marked"}, UNCHANGED <<seen, of, cache, late, events>>
  PROVE  BotsIInv'
<1>1. BotsTypes /\ BotsQuiet /\ Bots!CopyExplained /\ t \in Bots!Task /\ t \notin Page
  BY BotsConstants DEF BotsIInv
<1>2. BotsTypes'
  BY <1>1, BotTypes DEF BotsTypes
<1>3. BotsQuiet'
  BY <1>1, BotQuiet
<1>4. Bots!CopyExplained'
  BY <1>1, BotCopy
<1> QED BY <1>2, <1>3, <1>4 DEF BotsIInv

LEMMA BotCapture ==
  ASSUME BotsIInv, NEW t \in Bots!Task, Bots!Capture(t) PROVE BotsIInv'
<1>1. /\ BotsTypes /\ BotsQuiet /\ BotFits(t, job[t]) /\ job[t].pc = "capture"
      /\ UNCHANGED <<of, cache, late, events>>
  BY DEF BotsIInv, BotsTypes, Bots!Capture
<1>2. CASE job[t].snap.channel
  <2>1. Bots!End(t) /\ UNCHANGED seen
    BY <1>2 DEF Bots!Capture
  <2> QED BY <1>1, <2>1, BotEnds
<1>3. CASE ~job[t].snap.channel
  <2> DEFINE j == [job[t] EXCEPT !.pc = "marked", !.snap = None]
  <2>1. job' = [job EXCEPT ![t] = j] /\ seen' = [seen EXCEPT !.channel = TRUE]
    BY <1>1, <1>3 DEF Bots!Capture, BotsTypes
  <2>2. BotFits(t, j) /\ j.pc = "marked" /\ t \in Hook /\ t \notin Page
    BY <1>1, BotsConstants DEF BotFits, BotJob
  <2>3. seen' \in Bots!Copy /\ seen'.token = seen.token
    BY <1>1, <2>1 DEF BotsTypes, Bots!Copy
  <2> HIDE DEF j
  <2>4. BotsTypes'
    BY <1>1, <2>1, <2>2, <2>3, BotTypes DEF BotsTypes
  <2>5. BotsQuiet'
    BY <1>1, <2>1, <2>2, <2>3, BotQuiet
  <2>6. Bots!CopyExplained'
    <3>1. job'[t].pc = "marked"
      BY <1>1, <2>1, <2>2 DEF BotsTypes
    <3> QED BY <3>1 DEF Bots!CopyExplained
  <2> QED BY <2>4, <2>5, <2>6 DEF BotsIInv
<1> QED BY <1>2, <1>3

LEMMA BotHushed ==
  ASSUME NEW k \in BotJob, NEW q \in BOOLEAN, NEW j, j = [k EXCEPT !.quiet = q]
  PROVE  /\ j.pc = k.pc /\ j.kind = k.kind /\ j.then = k.then /\ j.snap = k.snap
         /\ j.todo = k.todo /\ j.quiet = q /\ j \in BotJob
  BY DEF BotJob

\* Another request of the panel starts: no save is quiet any more, but perhaps its own.
LEMMA BotLoud ==
  ASSUME BotsIInv, NEW t \in Page, NEW j, BotFits(t, j),
         job' = [Bots!Loud(job) EXCEPT ![t] = j],
         job[t].pc \notin {"saved", "marked"},
         UNCHANGED <<seen, of, cache, late>>, events' \in 0..MaxEvents,
         QuietPut(j) => AlonePut(t) /\ Undisturbed(t, j, seen, cache, of)
  PROVE  BotsIInv'
<1>1. BotsTypes /\ Bots!CopyExplained /\ t \in Bots!Task
  BY BotsConstants DEF BotsIInv
<1>2. ASSUME NEW x \in Bots!Task \ {t}
      PROVE  job'[x] \in BotJob /\ BotFits(x, job'[x]) /\ job'[x].pc = job[x].pc /\ ~QuietPut(job'[x])
  <2>1. job'[x] = [job[x] EXCEPT !.quiet = FALSE] /\ job[x] \in BotJob /\ BotFits(x, job[x])
    BY <1>1 DEF Bots!Loud, BotsTypes
  <2>2. /\ job'[x].pc = job[x].pc /\ job'[x].kind = job[x].kind /\ job'[x].then = job[x].then
        /\ job'[x].snap = job[x].snap /\ job'[x].todo = job[x].todo /\ ~job'[x].quiet
        /\ job'[x] \in BotJob
    <3>1. FALSE \in BOOLEAN
      OBVIOUS
    <3> QED BY <2>1, <3>1, BotHushed
  <2> QED BY <2>1, <2>2 DEF BotFits, QuietPut
<1>3. job'[t] = j /\ job' = [x \in Bots!Task |-> job'[x]]
  BY <1>1 DEF Bots!Loud
<1>4. BotsTypes'
  <2>1. job' \in [Bots!Task -> BotJob] /\ \A x \in Bots!Task : BotFits(x, job'[x])
    BY <1>2, <1>3 DEF BotFits
  <2> QED BY <1>1, <2>1 DEF BotsTypes
<1>5. BotsQuiet'
  <2> SUFFICES ASSUME NEW y \in Page, QuietPut(job'[y])
               PROVE  AlonePut(y)' /\ Undisturbed(y, job'[y], seen', cache', of')
    BY DEF BotsQuiet
  <2>1. y = t
    BY <1>2, BotsConstants
  <2>2. AlonePut(t) /\ Undisturbed(t, j, seen, cache, of)
    BY <1>3, <2>1
  <2>3. AlonePut(t)'
    BY <1>2, <2>2, BotsConstants DEF AlonePut
  <2> QED BY <1>3, <2>1, <2>2, <2>3
<1>6. Bots!CopyExplained'
  <2>1. \A x \in Bots!Task : job[x].pc \in {"saved", "marked"} => job'[x].pc = job[x].pc
    BY <1>2
  <2> QED BY <1>1, <2>1 DEF Bots!CopyExplained
<1> QED BY <1>4, <1>5, <1>6 DEF BotsIInv

LEMMA BotRefreshing ==
  ASSUME NEW t \in Page, NEW quiet \in BOOLEAN
  PROVE  BotFits(t, Bots!Refreshing(quiet)) /\ ~QuietPut(Bots!Refreshing(quiet))
  BY BotsConstants DEF BotFits, BotJob, Bots!Refreshing, Bots!Idle, QuietPut, Bots!Bot

LEMMA BotRefresh ==
  ASSUME BotsIInv, NEW t \in Page, Bots!Refresh(t) PROVE BotsIInv'
<1>1. /\ job[t].pc = "idle" /\ UNCHANGED <<seen, of, cache, late, events>>
      /\ job' = [Bots!Loud(job) EXCEPT ![t] = Bots!Refreshing(Bots!Alone(t))]
      /\ Bots!Alone(t) \in BOOLEAN
  BY DEF Bots!Refresh, Bots!Working, Bots!Alone
<1>2. events' \in 0..MaxEvents
  BY <1>1 DEF BotsIInv, BotsTypes
<1> QED BY <1>1, <1>2, BotRefreshing, BotLoud

LEMMA BotAnswer ==
  ASSUME BotsIInv, NEW t \in Bots!Task, Bots!Answer(t) PROVE BotsIInv'
<1>1. job[t].pc = "done" /\ UNCHANGED <<seen, of, cache, late, events>> /\ BotsTypes
  BY DEF Bots!Answer, BotsIInv
<1>2. CASE job[t].kind = "put" /\ t \in Page
  <2>1. /\ job' = [Bots!Loud(job) EXCEPT ![t] = Bots!Refreshing(Bots!Alone(t))]
        /\ Bots!Alone(t) \in BOOLEAN /\ events' \in 0..MaxEvents
    BY <1>1, <1>2 DEF Bots!Answer, Bots!Alone, BotsTypes
  <2> QED BY <1>1, <1>2, <2>1, BotRefreshing, BotLoud
<1>3. CASE job[t].kind # "put"
  <2>1. Bots!End(t)
    BY <1>3 DEF Bots!Answer, Bots!End
  <2> QED BY <1>1, <2>1, BotEnds
<1>4. job[t].kind = "put" => t \in Page
  BY <1>1, BotsConstants DEF BotsTypes, BotFits
<1> QED BY <1>2, <1>3, <1>4

LEMMA BotPut ==
  ASSUME BotsIInv, NEW t \in Page, NEW b \in Bots!Bot, NEW k \in Token,
         Bots!Put(t, [x \in Bots!Bot |-> IF x = b THEN k ELSE None])
  PROVE  BotsIInv'
<1> DEFINE patch == [x \in Bots!Bot |-> IF x = b THEN k ELSE None]
<1> DEFINE q == Bots!Alone(t)
<1> DEFINE j == [Bots!Idle EXCEPT !.pc = "get", !.kind = "put", !.then = "save", !.patch = patch,
                                  !.quiet = q]
<1>1. /\ job[t].pc = "idle" /\ UNCHANGED <<seen, of, cache, late>>
      /\ events < MaxEvents /\ events' = events + 1
      /\ job' = [Bots!Loud(job) EXCEPT ![t] = j]
  BY DEF Bots!Put, Bots!Working
<1>2. events' \in 0..MaxEvents
  BY <1>1, BotsConstants DEF BotsIInv, BotsTypes
<1>3. patch \in [Bots!Bot -> Token \cup {None}]
  OBVIOUS
<1>4. Bots!Alone(t) \in BOOLEAN
  BY DEF Bots!Alone
<1> HIDE DEF patch, q
<1>5. /\ j \in BotJob /\ j.pc = "get" /\ j.kind = "put" /\ j.then = "save" /\ j.snap = None
      /\ j.patch = patch /\ j.wrote = {} /\ j.todo = {} /\ j.quiet = q
  <2>1. q \in BOOLEAN
    BY <1>4 DEF q
  <2>2. Bots!Idle \in BotJob /\ Bots!Idle.snap = None /\ Bots!Idle.wrote = {} /\ Bots!Idle.todo = {}
    BY DEF Bots!Idle, BotJob
  <2>3. j = [Bots!Idle EXCEPT !.pc = "get", !.kind = "put", !.then = "save", !.patch = patch, !.quiet = q]
    OBVIOUS
  <2> HIDE DEF j
  <2>4. PICK i \in BotJob : i = Bots!Idle
    BY <2>2
  <2>5. PICK b0 \in BOOLEAN : b0 = q
    BY <2>1
  <2>6. j = [i EXCEPT !.pc = "get", !.kind = "put", !.then = "save", !.patch = patch, !.quiet = b0]
    BY <2>3, <2>4, <2>5
  <2>7. i.snap = None /\ i.wrote = {} /\ i.todo = {}
    BY <2>2, <2>4
  <2> QED BY <2>5, <2>6, <2>7, <1>3 DEF BotJob
<1>6. BotFits(t, j)
  <2>1. q \in BOOLEAN
    BY <1>4 DEF q
  <2> HIDE DEF j
  <2> QED BY <2>1, <1>3, <1>5, BotsConstants DEF BotFits, BotJob
<1>7. QuietPut(j) => AlonePut(t) /\ Undisturbed(t, j, seen, cache, of)
  <2> SUFFICES ASSUME QuietPut(j) PROVE AlonePut(t) /\ Undisturbed(t, j, seen, cache, of)
    OBVIOUS
  <2>1. Bots!Alone(t)
    BY <1>5 DEF QuietPut, q
  <2>2. AlonePut(t) /\ (cache = None \/ cache.token = seen.token)
    BY <2>1 DEF Bots!Alone, AlonePut, Bots!Working
  <2> QED BY <1>5, <2>2 DEF Undisturbed, Saving
<1> HIDE DEF j
<1> QED BY <1>1, <1>2, <1>6, <1>7, BotLoud

LEMMA BotRestart == BotsIInv /\ Bots!Restart => BotsIInv'
<1> SUFFICES ASSUME BotsIInv, Bots!Restart PROVE BotsIInv'
  OBVIOUS
<1>1. /\ BotsTypes /\ events < MaxEvents /\ events' = events + 1
      /\ seen' = [seen EXCEPT !.token["main"] = IF @ = None THEN EnvToken ELSE @]
      /\ cache' = None /\ late' = FALSE /\ UNCHANGED of
  BY DEF BotsIInv, Bots!Restart
<1>2. job' = [t \in Bots!Task |->
                 IF t \in Bots!Bot THEN [Bots!Idle EXCEPT !.pc = "get", !.then = "check", !.todo = {t}]
                 ELSE Bots!Idle]
  BY DEF Bots!Restart
<1>3. ASSUME NEW t \in Bots!Task
      PROVE  job'[t] \in BotJob /\ BotFits(t, job'[t]) /\ ~QuietPut(job'[t])
  <2>1. CASE t \in Bots!Bot
    <3>1. job'[t] = [pc |-> "get", kind |-> "other", then |-> "check", snap |-> None,
                     patch |-> [b \in Bots!Bot |-> None], wrote |-> {}, todo |-> {t},
                     quiet |-> FALSE]
      BY <1>2, <2>1 DEF Bots!Idle
    <3>2. t \notin Hook
      BY <2>1, BotsConstants
    <3>3. [b \in Bots!Bot |-> None] \in [Bots!Bot -> Token \cup {None}] /\ {t} \in SUBSET Bots!Bot
          /\ {t} # {}
      BY <2>1
    <3> QED BY <3>1, <3>2, <3>3 DEF BotFits, BotJob, QuietPut
  <2>2. CASE t \notin Bots!Bot
    BY <1>2, <2>2, BotIdle DEF BotFits
  <2> QED BY <2>1, <2>2
<1>4. seen' \in Bots!Copy
  BY <1>1, BotsConstants DEF BotsTypes, Bots!Copy, Bots!Tokens, Bots!Bot
<1>5. BotsTypes'
  <2>1. job' \in [Bots!Task -> BotJob] /\ \A t \in Bots!Task : BotFits(t, job'[t])
    BY <1>2, <1>3
  <2>2. events' \in 0..MaxEvents
    BY <1>1, BotsConstants DEF BotsTypes
  <2> QED BY <1>1, <1>4, <2>1, <2>2 DEF BotsTypes
<1>6. BotsQuiet'
  BY <1>3, BotsConstants DEF BotsQuiet
<1>7. Bots!CopyExplained'
  BY <1>1 DEF Bots!CopyExplained
<1> QED BY <1>5, <1>6, <1>7 DEF BotsIInv

LEMMA BotExpire == BotsIInv /\ Bots!Expire => BotsIInv'
<1> SUFFICES ASSUME BotsIInv, Bots!Expire PROVE BotsIInv'
  OBVIOUS
<1>1. /\ BotsTypes /\ BotsQuiet /\ cache' = None /\ late' = FALSE
      /\ UNCHANGED <<seen, of, job, events>>
  BY DEF BotsIInv, Bots!Expire
<1>2. BotsTypes'
  BY <1>1 DEF BotsTypes
<1>3. BotsQuiet'
  BY <1>1 DEF BotsQuiet, AlonePut, Undisturbed
<1>4. Bots!CopyExplained'
  BY <1>1 DEF Bots!CopyExplained
<1> QED BY <1>2, <1>3, <1>4 DEF BotsIInv

LEMMA BotsStep == BotsIInv /\ [Bots!Next]_(Bots!vars) => BotsIInv'
<1> SUFFICES ASSUME BotsIInv, [Bots!Next]_(Bots!vars) PROVE BotsIInv'
  OBVIOUS
<1>1. ASSUME NEW t \in Page, Bots!Refresh(t) PROVE BotsIInv'
  BY <1>1, BotRefresh
<1>2. ASSUME NEW t \in Page, NEW b \in Bots!Bot, NEW k \in Token,
             Bots!Put(t, [x \in Bots!Bot |-> IF x = b THEN k ELSE None])
      PROVE  BotsIInv'
  BY <1>2, BotPut
<1>3. ASSUME NEW t \in Hook, Bots!Read(t) PROVE BotsIInv'
  <2> DEFINE j == [Bots!Idle EXCEPT !.pc = "store", !.snap = seen]
  <2>1. /\ job[t].pc = "idle" /\ job' = [job EXCEPT ![t] = j]
        /\ UNCHANGED <<seen, of, cache, late, events>>
    BY <1>3 DEF Bots!Read, Bots!Working
  <2>2. BotFits(t, j)
    BY DEF BotsIInv, BotsTypes, BotFits, BotJob, Bots!Idle
  <2> HIDE DEF j
  <2> QED BY <2>1, <2>2, BotSends
<1>4. ASSUME NEW t \in Hook, Bots!Learn(t) PROVE BotsIInv'
  <2> DEFINE j == [Bots!Idle EXCEPT !.pc = "get", !.then = "capture"]
  <2>1. /\ job[t].pc = "idle" /\ job' = [job EXCEPT ![t] = j]
        /\ UNCHANGED <<seen, of, cache, late, events>>
    BY <1>4 DEF Bots!Learn, Bots!Working
  <2>2. BotFits(t, j)
    BY DEF BotsIInv, BotsTypes, BotFits, BotJob, Bots!Idle
  <2> HIDE DEF j
  <2> QED BY <2>1, <2>2, BotSends
<1>5. ASSUME NEW t \in Bots!Task, Bots!Fail(t) PROVE BotsIInv'
  BY <1>5, BotEnds DEF Bots!Fail
<1>6. ASSUME NEW t \in Bots!Task, Bots!Steps(t) PROVE BotsIInv'
  BY <1>5, <1>6, BotGet, BotStore, BotSave, BotSaved, BotCheck, BotMarked, BotAnswer, BotCapture
     DEF Bots!Steps
<1>7. CASE UNCHANGED Bots!vars
  BY <1>7 DEF Bots!vars, BotsIInv, BotsTypes, BotsQuiet, AlonePut, Bots!CopyExplained
<1> QED BY <1>1, <1>2, <1>3, <1>4, <1>6, <1>7, BotRestart, BotExpire DEF Bots!Next

LEMMA BotsGoal == BotsInductive => BotsCorrect
<1> SUFFICES ASSUME BotsIInv PROVE Bots!TypeOK /\ Bots!CopyExplained /\ Bots!QuietSaveTakes
  BY DEF BotsInductive, BotsCorrect
<1>1. Bots!TypeOK
  BY DEF BotsIInv, BotsTypes, BotJob, Bots!TypeOK
<1>2. ASSUME NEW t \in Page, job[t].pc = "done", job[t].kind = "put", job[t].quiet,
             NEW b \in Bots!Bot, job[t].patch[b] # None
      PROVE  /\ seen.token[b] = job[t].patch[b]
             /\ b \in job[t].wrote => of[b] = job[t].patch[b]
  <2>1. Undisturbed(t, job[t], seen, cache, of)
    BY <1>2 DEF BotsIInv, BotsQuiet, QuietPut
  <2>2. job[t].then = "done" /\ job[t].todo = {}
    BY <1>2, BotsConstants DEF BotsIInv, BotsTypes, BotFits
  <2>3. ~Saving(job[t]) /\ Unchecked(job[t]) = {}
    BY <1>2, <2>2 DEF Saving, Unchecked
  <2> QED BY <1>2, <2>1, <2>3 DEF Undisturbed
<1> QED BY <1>1, <1>2 DEF BotsIInv, Bots!QuietSaveTakes

\* With any number of pages, senders, tokens, saves and restarts, the copy of the settings row
\* is the row, or a save is about to drop it, or the read that made it was overtaken by a save;
\* and a save nothing interfered with has taken effect when it answers
\* (lib/telegramSettings.ts, routes/adminTelegram.ts).
THEOREM BotsHold == BackgroundSpec => []BotsCorrect
<1>1. BackgroundInit => BotsInductive
  BY BotsStarts, BotsInit DEF BotsInductive
<1>2. BotsInductive /\ [BackgroundNext]_background => BotsInductive'
  BY BotsMoves, BotsStep DEF BotsInductive
<1> QED BY <1>1, <1>2, BotsGoal, PTL DEF BackgroundSpec

-----------------------------------------------------------------------------
(***************************************************************************)
(* The rate limits (lib/rateLimit.ts, lib/socketRateLimit.ts).             *)
(***************************************************************************)
\* What was let through by each tick never falls, and is constant from now on.
Running(f, n) == /\ f \in [0..MaxTime -> Nat]
                 /\ \A t, u \in 0..MaxTime : t <= u => f[t] <= f[u]
                 /\ \A t \in 0..MaxTime : t >= n => f[t] = f[n]

\* Of what passed a limiter for an address: all of it since the window started is in the
\* entry's count and within the limit, and so is what passed in as long a span before; after
\* the window nothing has passed.
Windowed(f, e, l) ==
    LET s == e.windowStart IN
    /\ f[MaxTime] - f[s - 1] <= e.count
    /\ f[MaxTime] - f[s - 1] <= Limit[l]
    /\ \A t \in 0..MaxTime : t >= s + Window[l] - 1 => f[t] = f[MaxTime]
    /\ \A t \in 0..(s - 1) : t >= s - Window[l] => f[s - 1] - f[t] <= Limit[l]

Twice(f, n, l) == \A t, u \in 0..n : t <= u /\ u <= t + Window[l] => f[u] - f[t] <= 2 * Limit[l]

\* One limiter and one address: its entry e, what passed f, when it was last seen w.
Cell(f, e, w, n, l) ==
    /\ Running(f, n) /\ Twice(f, n, l)
    /\ e = None => \A t \in 0..MaxTime : f[t] = 0
    /\ e # None => /\ Windowed(f, e, l)
                   /\ w # None /\ e.windowStart <= w

LimitsIInv == /\ Limits!TypeOK
              /\ \A l \in Limits!Layer, a \in Address :
                   Cell(reached[l][a], entry[l][a], seen[l][a], now, l)
              /\ Limits!SilenceHeals

LimitsInductive == part = "limits" => LimitsIInv

LEMMA LimitsStarts == BackgroundInit /\ part = "limits" => Limits!Init
  BY DEF BackgroundInit

LEMMA LimitsMoves ==
  ASSUME [BackgroundNext]_background, part' = "limits"
  PROVE  part = "limits" /\ [Limits!Next]_(Limits!vars)
<1>1. CASE UNCHANGED background
  BY <1>1 DEF background, Limits!vars, Limits!history
<1>2. CASE BackgroundNext
  BY <1>2 DEF BackgroundNext
<1> QED BY <1>1, <1>2

LEMMA LimitsConstants ==
  /\ Limit \in [Limits!Layer -> Nat \ {0}] /\ Window \in [Limits!Layer -> Nat \ {0}]
  /\ MaxTime \in Nat \ {0} /\ MaxRequests \in Nat
  /\ \A e : e \in [count : Nat \ {0}, windowStart : Nat] => e # None
  /\ \A n \in Nat : n # None
  BY LimitsAssumption DEF Limits!LimitsAssumption

LEMMA LimitsInit == Limits!Init => LimitsIInv
<1> SUFFICES ASSUME Limits!Init PROVE LimitsIInv
  OBVIOUS
<1>1. now = 1 /\ now \in 1..MaxTime /\ requests = 0 /\ refused = {}
  BY LimitsConstants DEF Limits!Init
<1>2. ASSUME NEW l \in Limits!Layer, NEW a \in Address
      PROVE  /\ entry[l][a] = None /\ seen[l][a] = None
             /\ reached[l][a] = [t \in 0..MaxTime |-> 0]
  BY DEF Limits!Init, Limits!PerAddress
<1>3. Limits!TypeOK
  <2>1. /\ entry \in [Limits!Layer -> [Address -> Limits!Entry \cup {None}]]
        /\ seen \in [Limits!Layer -> [Address -> 1..now \cup {None}]]
    BY DEF Limits!Init, Limits!PerAddress
  <2>2. [t \in 0..MaxTime |-> 0] \in [0..MaxTime -> Nat]
    OBVIOUS
  <2>3. reached \in [Limits!Layer -> [Address -> [0..MaxTime -> Nat]]]
    BY <2>2 DEF Limits!Init, Limits!PerAddress
  <2> QED BY <1>1, <2>1, <2>3, LimitsConstants DEF Limits!TypeOK
<1>4. ASSUME NEW l \in Limits!Layer, NEW a \in Address
      PROVE  Cell(reached[l][a], entry[l][a], seen[l][a], now, l)
  <2>1. \A t \in 0..MaxTime : reached[l][a][t] = 0
    BY <1>2
  <2>2. reached[l][a] \in [0..MaxTime -> Nat]
    BY <1>2
  <2>3. Running(reached[l][a], now)
    BY <1>1, <2>1, <2>2 DEF Running
  <2>4. Twice(reached[l][a], now, l)
    <3>1. Limit[l] \in Nat
      BY LimitsConstants
    <3> QED BY <1>1, <2>1, <3>1, LimitsConstants DEF Twice
  <2> QED BY <1>2, <2>1, <2>3, <2>4 DEF Cell
<1>5. Limits!SilenceHeals
  BY <1>1 DEF Limits!SilenceHeals
<1> QED BY <1>3, <1>4, <1>5 DEF LimitsIInv

\* The clock ticks.
LEMMA CellTicks ==
  ASSUME NEW l \in Limits!Layer, NEW n \in 1..MaxTime, n < MaxTime,
         NEW e \in [count : Nat \ {0}, windowStart : 1..n] \cup {None}, NEW w, NEW f,
         Cell(f, e, w, n, l)
  PROVE  Cell(f, e, w, n + 1, l)
<1> DEFINE W == Window[l]
<1> DEFINE L == Limit[l]
<1>1. W \in Nat \ {0} /\ L \in Nat \ {0} /\ MaxTime \in Nat
  BY LimitsConstants
<1>2. Running(f, n) /\ Twice(f, n, l)
  BY DEF Cell
<1>3. Running(f, n + 1)
  BY <1>1, <1>2 DEF Running
<1>4. Twice(f, n + 1, l)
  <2> SUFFICES ASSUME NEW t \in 0..(n + 1), NEW u \in 0..(n + 1), t <= u, u <= t + W
               PROVE  f[u] - f[t] <= 2 * L
    BY DEF Twice
  <2>1. CASE u <= n
    BY <1>1, <1>2, <2>1 DEF Twice
  <2>2. CASE u = n + 1
    <3>1. f[u] = f[n] /\ f[t] \in Nat /\ f[u] \in Nat
      BY <1>1, <1>2, <2>2 DEF Running
    <3>2. CASE t = n + 1
      BY <1>1, <2>2, <3>1, <3>2
    <3>3. CASE t <= n
      <4>1. t \in 0..n /\ n \in 0..n /\ n <= t + W
        BY <1>1, <2>2, <3>3
      <4>2. f[n] - f[t] <= 2 * L
        BY <1>2, <4>1, <3>3 DEF Twice
      <4> QED BY <3>1, <4>2
    <3> QED BY <3>2, <3>3
  <2> QED BY <2>1, <2>2
<1> HIDE DEF W, L
<1> QED BY <1>3, <1>4 DEF Cell

\* A limiter counts a request; if it passes, the count is within the limit.
LEMMA CellHits ==
  ASSUME NEW l \in Limits!Layer, now \in 1..MaxTime,
         NEW e \in Limits!Entry \cup {None}, NEW w, w # None => w \in 1..now, NEW f,
         Cell(f, e, w, now, l),
         NEW g, NEW h, h = Limits!Hit(e, l),
         g = f \/ (g = Limits!OneMore(f) /\ h.count <= Limit[l])
  PROVE  Cell(g, h, now, now, l) /\ h \in Limits!Entry
<1> DEFINE W == Window[l]
<1> DEFINE L == Limit[l]
<1>0. W \in Nat \ {0} /\ L \in Nat \ {0} /\ MaxTime \in Nat \ {0} /\ now # None
  BY LimitsConstants
<1>1. Running(f, now) /\ Twice(f, now, l)
  BY DEF Cell
<1>2. f \in [0..MaxTime -> Nat]
  BY <1>1 DEF Running
<1>3. /\ g \in [0..MaxTime -> Nat]
      /\ \A t \in 0..MaxTime : t < now => g[t] = f[t]
      /\ \/ \A t \in 0..MaxTime : g[t] = f[t]
         \/ \A t \in 0..MaxTime : t >= now => g[t] = f[t] + 1
  <2>1. CASE g = f
    BY <2>1, <1>2
  <2>2. CASE g = Limits!OneMore(f)
    <3>1. g = [t \in 0..MaxTime |-> IF t < now THEN f[t] ELSE f[t] + 1]
      BY <2>2 DEF Limits!OneMore
    <3>2. \A t \in 0..MaxTime : f[t] \in Nat /\ f[t] + 1 \in Nat
      BY <1>2
    <3>3. g \in [0..MaxTime -> Nat]
      BY <3>1, <3>2
    <3>4. now \in Nat /\ \A t \in 0..MaxTime : t < now \/ t >= now
      BY <1>0
    <3> QED BY <3>1, <3>3, <3>4, <1>0
  <2> QED BY <2>1, <2>2
<1>4. Running(g, now)
  <2>1. \A t, u \in 0..MaxTime : t <= u => g[t] <= g[u]
    BY <1>0, <1>1, <1>2, <1>3 DEF Running
  <2>2. \A t \in 0..MaxTime : t >= now => g[t] = g[now]
    BY <1>0, <1>1, <1>2, <1>3 DEF Running
  <2> QED BY <1>3, <2>1, <2>2 DEF Running
<1>5. h \in Limits!Entry /\ h # None /\ h.windowStart <= now /\ h.windowStart \in 1..now /\ h.count \in Nat
  <2>1. CASE Limits!Expired(e, l)
    BY <2>1, LimitsConstants DEF Limits!Hit, Limits!Opened, Limits!Entry
  <2>2. CASE ~Limits!Expired(e, l)
    BY <2>2, LimitsConstants DEF Limits!Hit, Limits!Expired, Limits!Entry
  <2> QED BY <2>1, <2>2
<1>6. Windowed(g, h, l)
  <2> DEFINE s == h.windowStart
  <2>1. CASE Limits!Expired(e, l)
    <3>1. h = [count |-> 1, windowStart |-> now]
      BY <2>1 DEF Limits!Hit, Limits!Opened
    <3>2. f[MaxTime] = f[now - 1]
      <4>1. CASE e = None
        BY <4>1, <1>0 DEF Cell
      <4>2. CASE e # None
        <5>1. Windowed(f, e, l) /\ now - e.windowStart >= W /\ e.windowStart \in 1..now
          BY <4>2, <2>1 DEF Cell, Limits!Expired, Limits!Entry
        <5> QED BY <5>1, <1>0 DEF Windowed
      <4> QED BY <4>1, <4>2
    <3>3. g[now - 1] = f[now - 1] /\ g[MaxTime] - g[now - 1] \in {0, 1}
      <4>1. now - 1 \in 0..MaxTime /\ now - 1 < now /\ MaxTime \in 0..MaxTime /\ MaxTime >= now
        BY <1>0
      <4>2. g[now - 1] = f[now - 1] /\ f[now - 1] \in Nat
        BY <1>2, <1>3, <4>1
      <4>3. g[MaxTime] \in {f[MaxTime], f[MaxTime] + 1}
        BY <1>3, <4>1
      <4> QED BY <3>2, <4>2, <4>3
    <3>4. g[MaxTime] - g[now - 1] <= 1 /\ g[MaxTime] - g[now - 1] <= L
      BY <1>0, <3>3
    <3>5. ASSUME NEW t \in 0..MaxTime, t >= now + W - 1 PROVE g[t] = g[MaxTime]
      BY <1>0, <1>4, <3>5 DEF Running
    <3>6. ASSUME NEW t \in 0..(now - 1), t >= now - W PROVE g[now - 1] - g[t] <= L
      <4>1. g[now - 1] = f[now - 1] /\ g[t] = f[t] /\ f[t] \in Nat /\ f[now - 1] \in Nat
        BY <1>0, <1>2, <1>3
      <4>2. CASE e = None
        BY <4>1, <4>2, <1>0 DEF Cell
      <4>3. CASE e # None
        <5>1. Windowed(f, e, l) /\ now - e.windowStart >= W /\ e.windowStart \in 1..now
          BY <4>3, <2>1 DEF Cell, Limits!Expired, Limits!Entry
        <5>2. f[MaxTime] - f[e.windowStart - 1] <= L
          BY <5>1 DEF Windowed
        <5>3. f[e.windowStart - 1] <= f[t] /\ f[e.windowStart - 1] \in Nat
          <6>1. e.windowStart - 1 \in 0..MaxTime /\ t \in 0..MaxTime /\ e.windowStart - 1 <= t
            BY <5>1, <3>6, <1>0
          <6> QED BY <6>1, <1>1, <1>2 DEF Running
        <5> QED BY <5>2, <5>3, <4>1, <3>2, <1>0
      <4> QED BY <4>2, <4>3
    <3> HIDE DEF W, L
    <3>7. h.windowStart = now /\ h.count = 1
      BY <3>1
    <3> QED BY <3>4, <3>5, <3>6, <3>7 DEF Windowed, W, L
  <2>2. CASE ~Limits!Expired(e, l)
    <3>1. e # None /\ e \in Limits!Entry /\ h = [e EXCEPT !.count = @ + 1]
      BY <2>2 DEF Limits!Hit, Limits!Expired
    <3>2. h.windowStart = e.windowStart /\ h.count = e.count + 1 /\ e.count \in Nat
          /\ e.windowStart \in 1..now
      BY <3>1 DEF Limits!Entry
    <3>3. Windowed(f, e, l)
      BY <3>1 DEF Cell
    <3>4. ~(now - e.windowStart >= W)
      BY <2>2 DEF Limits!Expired
    <3>5. s = e.windowStart /\ s \in 1..now
      BY <3>2
    <3>6. /\ f[MaxTime] - f[s - 1] <= e.count
          /\ f[MaxTime] - f[s - 1] <= L
          /\ \A t \in 0..MaxTime : t >= s + W - 1 => f[t] = f[MaxTime]
          /\ \A t \in 0..(s - 1) : t >= s - W => f[s - 1] - f[t] <= L
      BY <3>3, <3>5 DEF Windowed
    <3> HIDE DEF s, W, L
    <3>7. g[s - 1] = f[s - 1] /\ f[s - 1] \in Nat /\ f[MaxTime] \in Nat
      BY <1>0, <1>2, <1>3, <3>5
    <3>8. g[MaxTime] = f[MaxTime] \/ (g[MaxTime] = f[MaxTime] + 1 /\ h.count <= L)
      BY <1>0, <1>2 DEF Limits!OneMore, L
    <3>9. g[MaxTime] - g[s - 1] <= h.count /\ g[MaxTime] - g[s - 1] <= L
      BY <3>2, <3>6, <3>7, <3>8, <1>0
    <3>10. ASSUME NEW t \in 0..MaxTime, t >= s + W - 1 PROVE g[t] = g[MaxTime]
      <4>1. t >= now
        BY <3>4, <3>10, <3>5, <1>0, <3>2 DEF s
      <4> QED BY <4>1, <1>4, <1>0 DEF Running
    <3>11. ASSUME NEW t \in 0..(s - 1), t >= s - W PROVE g[s - 1] - g[t] <= L
      <4>1. g[t] = f[t]
        BY <3>5, <1>0, <1>3
      <4> QED BY <4>1, <3>6, <3>7, <3>11
    <3> QED BY <3>9, <3>10, <3>11 DEF Windowed, s, W, L
  <2> QED BY <2>1, <2>2
<1>7. Twice(g, now, l)
  <2> DEFINE s == h.windowStart
  <2> SUFFICES ASSUME NEW t \in 0..now, NEW u \in 0..now, t <= u, u <= t + W
               PROVE  g[u] - g[t] <= 2 * L
    BY DEF Twice
  <2>1. s \in 1..now /\ g[u] \in Nat /\ g[t] \in Nat /\ g[s - 1] \in Nat /\ g[MaxTime] \in Nat
    <3>1. s \in 1..now /\ u \in 0..MaxTime /\ t \in 0..MaxTime /\ s - 1 \in 0..MaxTime /\ MaxTime \in 0..MaxTime
      BY <1>0, <1>5
    <3> HIDE DEF s
    <3> QED BY <3>1, <1>3
  <2>2. /\ g[MaxTime] - g[s - 1] <= L
        /\ \A x \in 0..(s - 1) : x >= s - W => g[s - 1] - g[x] <= L
    BY <1>6 DEF Windowed
  <2>3. g[u] <= g[MaxTime]
    BY <1>0, <1>4 DEF Running
  <2> HIDE DEF s, W, L
  <2>4. CASE u < s
    <3>1. g[u] = f[u] /\ g[t] = f[t]
      BY <1>0, <1>3, <2>1, <2>4
    <3> QED BY <3>1, <1>1 DEF Twice, W, L
  <2>5. CASE u >= s /\ t >= s
    <3>1. g[s - 1] <= g[t]
      BY <2>1, <2>5, <1>0, <1>4 DEF Running
    <3> QED BY <3>1, <2>1, <2>2, <2>3, <1>0
  <2>6. CASE u >= s /\ t < s
    <3>1. t \in 0..(s - 1) /\ t >= s - W
      BY <2>1, <2>6, <1>0
    <3>2. g[s - 1] - g[t] <= L
      BY <3>1, <2>2
    <3> QED BY <3>2, <2>1, <2>2, <2>3, <1>0
  <2> QED BY <2>4, <2>5, <2>6, <2>1
<1> HIDE DEF W, L
<1> QED BY <1>0, <1>4, <1>5, <1>6, <1>7 DEF Cell

LEMMA LimitsTick == LimitsIInv /\ Limits!Tick => LimitsIInv'
<1> SUFFICES ASSUME LimitsIInv, Limits!Tick PROVE LimitsIInv'
  OBVIOUS
<1>1. /\ now \in 1..MaxTime /\ now < MaxTime /\ now' = now + 1
      /\ UNCHANGED <<entry, reached, seen, refused, requests>>
  BY DEF LimitsIInv, Limits!TypeOK, Limits!Tick, Limits!history
<1>2. Limits!TypeOK'
  <2>1. now' \in 1..MaxTime /\ \A x \in 1..now : x \in 1..now'
    BY <1>1, LimitsConstants
  <2>2. Limits!Entry \subseteq Limits!Entry'
    BY <2>1 DEF Limits!Entry
  <2>3. entry \in [Limits!Layer -> [Address -> Limits!Entry' \cup {None}]]
    BY <2>2 DEF LimitsIInv, Limits!TypeOK
  <2>4. seen \in [Limits!Layer -> [Address -> 1..now' \cup {None}]]
    BY <2>1 DEF LimitsIInv, Limits!TypeOK
  <2> QED BY <1>1, <2>1, <2>3, <2>4 DEF LimitsIInv, Limits!TypeOK
<1>3. ASSUME NEW l \in Limits!Layer, NEW a \in Address
      PROVE  Cell(reached[l][a], entry[l][a], seen[l][a], now, l)'
  <2>1. entry[l][a] \in [count : Nat \ {0}, windowStart : 1..now] \cup {None}
    BY DEF LimitsIInv, Limits!TypeOK, Limits!Entry
  <2>2. Cell(reached[l][a], entry[l][a], seen[l][a], now, l)
    BY DEF LimitsIInv
  <2>3. Cell(reached[l][a], entry[l][a], seen[l][a], now + 1, l)
    BY <1>1, <2>1, <2>2, CellTicks
  <2> QED BY <1>1, <2>3
<1>4. Limits!SilenceHeals'
  BY <1>1 DEF LimitsIInv, Limits!SilenceHeals
<1> QED BY <1>2, <1>3, <1>4 DEF LimitsIInv

\* The limiters on the way to a handler.
LEMMA LimitsChain ==
  ASSUME NEW r \in Limits!Route, NEW i \in DOMAIN Limits!Chain[r]
  PROVE  Limits!Chain[r][i] \in Limits!Layer
  BY DEF Limits!Route, Limits!Chain, Limits!Layer

\* What a limiter says of a request once all it saw of the address is a window ago.
LEMMA LimitsSilent ==
  ASSUME LimitsIInv, NEW a \in Address, NEW r \in Limits!Route, Limits!Silent(a, r),
         NEW i \in DOMAIN Limits!Chain[r]
  PROVE  Limits!Allows(Limits!Chain[r][i], a)
<1> DEFINE l == Limits!Chain[r][i]
<1>1. l \in Limits!Layer
  BY LimitsChain
<1>2. Limits!Layer = Limits!Layer /\ Limit[l] \in Nat \ {0} /\ Window[l] \in Nat
  BY <1>1, LimitsConstants
<1>3. seen[l][a] = None \/ now - seen[l][a] >= Window[l]
  BY DEF Limits!Silent
<1>4. Cell(reached[l][a], entry[l][a], seen[l][a], now, l)
  BY <1>1 DEF LimitsIInv
<1>5. /\ entry[l][a] \in Limits!Entry \cup {None} /\ seen[l][a] \in 1..now \cup {None}
      /\ now \in 1..MaxTime
  BY <1>1 DEF LimitsIInv, Limits!TypeOK
<1> HIDE DEF l
<1>6. Limits!Expired(entry[l][a], l)
  <2>1. CASE entry[l][a] = None
    BY <2>1 DEF Limits!Expired
  <2>2. CASE entry[l][a] # None
    <3>1. seen[l][a] # None /\ entry[l][a].windowStart <= seen[l][a]
      BY <1>4, <2>2 DEF Cell
    <3>2. entry[l][a].windowStart \in 1..now /\ seen[l][a] \in 1..now
      BY <1>5, <2>2, <3>1 DEF Limits!Entry
    <3>3. now - entry[l][a].windowStart >= Window[l]
      BY <1>2, <1>3, <1>5, <3>1, <3>2, LimitsConstants
    <3> QED BY <3>3 DEF Limits!Expired
  <2> QED BY <2>1, <2>2
<1>7. Limits!Hit(entry[l][a], l).count = 1
  BY <1>6 DEF Limits!Hit, Limits!Opened
<1>8. Limits!Allows(l, a)
  BY <1>2, <1>7 DEF Limits!Allows
<1> QED BY <1>8 DEF l

LEMMA LimitsRequest ==
  ASSUME LimitsIInv, NEW a \in Address, NEW r \in Limits!Route, NEW trusted \in BOOLEAN,
         Limits!Request(a, r, trusted)
  PROVE  LimitsIInv'
<1> DEFINE on == {Limits!Chain[r][i] : i \in DOMAIN Limits!Chain[r]}
<1> DEFINE counting == {Limits!Chain[r][i] : i \in Limits!Counting(a, r, trusted)}
<1> DEFINE served == Limits!Served(a, r, trusted)
<1>1. /\ requests < MaxRequests /\ requests' = requests + 1 /\ now' = now
      /\ entry' = [l \in Limits!Layer |-> IF l \in counting
                     THEN [entry[l] EXCEPT ![a] = Limits!Hit(@, l)] ELSE entry[l]]
      /\ reached' = [l \in Limits!Layer |-> IF served /\ l \in counting
                     THEN [reached[l] EXCEPT ![a] = Limits!OneMore(@)] ELSE reached[l]]
      /\ seen' = [l \in Limits!Layer |-> IF l \in on THEN [seen[l] EXCEPT ![a] = now] ELSE seen[l]]
      /\ refused' = IF served THEN refused
                    ELSE refused \cup {[silent |-> Limits!Silent(a, r), route |-> r,
                                        trusted |-> trusted]}
  BY DEF Limits!Request
<1>2. counting \subseteq on
  BY DEF Limits!Counting
<1>3. ASSUME NEW l \in counting, served PROVE Limits!Allows(l, a)
  BY <1>3 DEF Limits!Counting, Limits!Served
<1>4. ~served => ~Limits!Silent(a, r)
  BY LimitsSilent DEF Limits!Served
<1>5. /\ now \in 1..MaxTime /\ requests \in 0..MaxRequests
      /\ \A l \in Limits!Layer : /\ entry[l] \in [Address -> Limits!Entry \cup {None}]
                                 /\ seen[l] \in [Address -> 1..now \cup {None}]
                                 /\ reached[l] \in [Address -> [0..MaxTime -> Nat]]
  BY DEF LimitsIInv, Limits!TypeOK
<1> HIDE DEF on, counting, served
<1>6. ASSUME NEW l \in Limits!Layer
      PROVE  /\ entry'[l] \in [Address -> Limits!Entry \cup {None}]
             /\ seen'[l] \in [Address -> 1..now \cup {None}]
             /\ reached'[l] \in [Address -> [0..MaxTime -> Nat]]
             /\ \A b \in Address : Cell(reached'[l][b], entry'[l][b], seen'[l][b], now, l)
  <2> DEFINE e == entry[l][a]
  <2> DEFINE f == reached[l][a]
  <2> DEFINE w == seen[l][a]
  <2> DEFINE h == IF l \in counting THEN Limits!Hit(e, l) ELSE e
  <2> DEFINE g == IF served /\ l \in counting THEN Limits!OneMore(f) ELSE f
  <2> DEFINE v == IF l \in on THEN now ELSE w
  <2>1. /\ entry'[l] = [entry[l] EXCEPT ![a] = h]
        /\ reached'[l] = [reached[l] EXCEPT ![a] = g]
        /\ seen'[l] = [seen[l] EXCEPT ![a] = v]
    BY <1>1, <1>5
  <2>2. Cell(f, e, w, now, l) /\ e \in Limits!Entry \cup {None} /\ w \in 1..now \cup {None}
        /\ f \in [0..MaxTime -> Nat]
    BY <1>5 DEF LimitsIInv
  <2>3. v \in 1..now \cup {None} /\ now # None
    BY <1>5, <2>2, LimitsConstants
  <2> HIDE DEF e, f, w
  <2>4. Cell(g, h, v, now, l) /\ h \in Limits!Entry \cup {None}
    <3>1. CASE l \in counting
      <4>1. h = Limits!Hit(e, l) /\ v = now
        BY <3>1, <1>2
      <4>2. g = f \/ (g = Limits!OneMore(f) /\ h.count <= Limit[l])
        BY <3>1, <1>3, <4>1 DEF Limits!Allows, e
      <4> HIDE DEF g, h, v
      <4>3. w # None => w \in 1..now
        BY <2>2
      <4>4. now \in 1..MaxTime /\ e \in Limits!Entry \cup {None} /\ Cell(f, e, w, now, l)
        BY <1>5, <2>2
      <4>5. Cell(g, h, now, now, l) /\ h \in Limits!Entry
        BY <4>1, <4>2, <4>3, <4>4, CellHits
      <4> QED BY <4>1, <4>5
    <3>2. CASE l \notin counting
      <4>1. g = f /\ h = e
        BY <3>2
      <4>2. w # None => v # None /\ w <= v /\ w \in Nat /\ v \in Nat
        BY <1>5, <2>2, LimitsConstants
      <4>3. e # None => e.windowStart \in Nat
        BY <2>2, <1>5 DEF Limits!Entry
      <4> HIDE DEF g, h, v
      <4>4. e # None => w # None /\ e.windowStart <= w
        BY <2>2 DEF Cell
      <4>5. e # None => v # None /\ e.windowStart <= v
        BY <4>2, <4>3, <4>4
      <4> QED BY <2>2, <4>1, <4>5 DEF Cell
    <3> QED BY <3>1, <3>2
  <2>5. g \in [0..MaxTime -> Nat]
    <3> HIDE DEF h, v
    <3>1. Limits!OneMore(f) \in [0..MaxTime -> Nat]
      BY <2>2 DEF Limits!OneMore
    <3> QED BY <2>2, <3>1
  <2> HIDE DEF g, h, v
  <2>6. ASSUME NEW b \in Address PROVE Cell(reached'[l][b], entry'[l][b], seen'[l][b], now, l)
    <3>1. CASE b = a
      BY <1>5, <2>1, <2>4, <3>1
    <3>2. CASE b # a
      <4>1. reached'[l][b] = reached[l][b] /\ entry'[l][b] = entry[l][b] /\ seen'[l][b] = seen[l][b]
        BY <1>5, <2>1, <3>2
      <4> QED BY <4>1 DEF LimitsIInv
    <3> QED BY <3>1, <3>2
  <2>7. /\ entry'[l] \in [Address -> Limits!Entry \cup {None}]
        /\ seen'[l] \in [Address -> 1..now \cup {None}]
        /\ reached'[l] \in [Address -> [0..MaxTime -> Nat]]
    BY <1>5, <2>1, <2>3, <2>4, <2>5
  <2> QED BY <2>6, <2>7
<1>7. Limits!TypeOK'
  <2>1. now' \in 1..MaxTime /\ requests' \in 0..MaxRequests
    BY <1>1, <1>5, LimitsConstants
  <2>2. Limits!Entry' = Limits!Entry
    BY <1>1 DEF Limits!Entry
  <2>3. /\ entry' = [l \in Limits!Layer |-> entry'[l]]
        /\ reached' = [l \in Limits!Layer |-> reached'[l]]
        /\ seen' = [l \in Limits!Layer |-> seen'[l]]
    BY <1>1
  <2>4. /\ entry' \in [Limits!Layer -> [Address -> Limits!Entry \cup {None}]]
        /\ seen' \in [Limits!Layer -> [Address -> 1..now \cup {None}]]
        /\ reached' \in [Limits!Layer -> [Address -> [0..MaxTime -> Nat]]]
    BY <1>6, <2>3
  <2> QED BY <1>1, <2>1, <2>2, <2>4 DEF Limits!TypeOK
<1>8. Limits!SilenceHeals'
  BY <1>1, <1>4 DEF LimitsIInv, Limits!SilenceHeals
<1>9. ASSUME NEW l \in Limits!Layer, NEW b \in Address
      PROVE  Cell(reached[l][b], entry[l][b], seen[l][b], now, l)'
  BY <1>1, <1>6
<1> QED BY <1>7, <1>8, <1>9 DEF LimitsIInv

LEMMA LimitsStep == LimitsIInv /\ [Limits!Next]_(Limits!vars) => LimitsIInv'
<1> SUFFICES ASSUME LimitsIInv, [Limits!Next]_(Limits!vars) PROVE LimitsIInv'
  OBVIOUS
<1>1. CASE Limits!Tick
  BY <1>1, LimitsTick
<1>2. ASSUME NEW a \in Address, NEW r \in Limits!Route, Limits!Request(a, r, FALSE) PROVE LimitsIInv'
  BY <1>2, LimitsRequest
<1>3. ASSUME NEW a \in Address, Limits!Request(a, "quote", TRUE) PROVE LimitsIInv'
  <2>1. "quote" \in Limits!Route
    BY DEF Limits!Route, Limits!Chain
  <2> QED BY <1>3, <2>1, LimitsRequest
<1>4. CASE UNCHANGED Limits!vars
  <2>1. UNCHANGED <<now, entry, reached, seen, refused, requests>>
    BY <1>4 DEF Limits!vars, Limits!history
  <2>2. Limits!TypeOK'
    BY <2>1 DEF LimitsIInv, Limits!TypeOK, Limits!Entry
  <2>3. Limits!SilenceHeals'
    BY <2>1 DEF LimitsIInv, Limits!SilenceHeals
  <2>4. ASSUME NEW l \in Limits!Layer, NEW a \in Address
        PROVE  Cell(reached[l][a], entry[l][a], seen[l][a], now, l)'
    BY <2>1 DEF LimitsIInv
  <2> QED BY <2>2, <2>3, <2>4 DEF LimitsIInv
<1> QED BY <1>1, <1>2, <1>3, <1>4 DEF Limits!Next

LEMMA LimitsGoal == LimitsInductive => LimitsCorrect
<1> SUFFICES ASSUME LimitsIInv PROVE Limits!TypeOK /\ Limits!AtMostTwice /\ Limits!SilenceHeals
  BY DEF LimitsInductive, LimitsCorrect
<1>1. ASSUME NEW l \in Limits!Layer, NEW a \in Address, NEW from \in 1..now
      PROVE  Limits!InSpan(l, a, from) <= 2 * Limit[l]
  <2>1. now \in 1..MaxTime /\ Window[l] \in Nat \ {0} /\ MaxTime \in Nat
    BY LimitsConstants DEF LimitsIInv, Limits!TypeOK
  <2>2. Twice(reached[l][a], now, l)
    BY DEF LimitsIInv, Cell
  <2> DEFINE past == from + Window[l] - 1
  <2> DEFINE to == IF past < now THEN past ELSE now
  <2>3. from - 1 \in 0..now /\ to \in 0..now /\ from - 1 <= to /\ to <= (from - 1) + Window[l]
    BY <2>1
  <2>4. Limits!InSpan(l, a, from) = reached[l][a][to] - reached[l][a][from - 1]
    BY DEF Limits!InSpan
  <2> HIDE DEF to
  <2> QED BY <2>2, <2>3, <2>4 DEF Twice
<1> QED BY <1>1 DEF LimitsIInv, Limits!AtMostTwice

\* Whatever the limits, the windows, the addresses and the number of requests: no span as
\* long as a window passes more than twice the limit, and an address that was silent for the
\* windows on its way is served (lib/rateLimit.ts, lib/socketRateLimit.ts).
THEOREM LimitsHold == BackgroundSpec => []LimitsCorrect
<1>1. BackgroundInit => LimitsInductive
  BY LimitsStarts, LimitsInit DEF LimitsInductive
<1>2. LimitsInductive /\ [BackgroundNext]_background => LimitsInductive'
  BY LimitsMoves, LimitsStep DEF LimitsInductive
<1> QED BY <1>1, <1>2, LimitsGoal, PTL DEF BackgroundSpec

-----------------------------------------------------------------------------
(***************************************************************************)
(* The counting of views (lib/analytics.ts, lib/views.ts,                  *)
(* lib/bannerAnalytics.ts).                                                *)
(***************************************************************************)
WorkRec == [pc : {"mark", "uv", "store"}, kind : Views!Kind, who : Visitor]
Work == {Views!Idle} \cup WorkRec
DayRec == [seen : SUBSET Visitor, at : Views!Pair, folded : Views!Pair]
WinRec == [redis : SUBSET Visitor, memory : SUBSET Visitor, stored : Nat]
FlushRec == [pc : {"idle", "read", "write", "mark"}, from : Views!Stores, snap : Views!Pair, delta : Views!Pair]
Reasons == {"unmarked", "retold", "switched", "dropped", "forgotten", "skipped"}

ViewsTypes == /\ running \in BOOLEAN /\ life \in {"running", "flushing", "closing"}
              /\ day \in [Views!Stores -> DayRec] /\ daily \in Views!Pair
              /\ win \in [Views!Counter -> WinRec] /\ due \in [Views!Counter -> Nat]
              /\ flush \in FlushRec /\ work \in [Report -> Work]
              /\ beacons \in Nat /\ views \in Nat
              /\ viewers \subseteq Visitor /\ blame \subseteq Reasons

\* A request that has still to count a view, a new visitor, a window of a counter.
IsViewing(j) == j.pc = "mark" /\ j.kind = "page"
IsMeeting(j) == j.pc = "uv"
IsStoring(j, c) == j.pc = "store" /\ j.kind = c

Viewing == {r \in Report : IsViewing(work[r])}
Meeting == {r \in Report : IsMeeting(work[r])}
Storing(c) == {r \in Report : IsStoring(work[r], c)}

WorkIsFinite == /\ IsFiniteSet(Viewing) /\ IsFiniteSet(Meeting)
                /\ \A c \in Views!Counter : IsFiniteSet(Storing(c))

\* What a store's counters are folded up to, once the flush under way has marked it.
Base(s) == IF flush.pc = "mark" /\ flush.from = s THEN flush.snap ELSE day[s].folded

\* The page views counted: in the daily record, or still to be folded into it.
Unfolded(s) == day[s].at.pv - Base(s).pv
Total == daily.pv + Unfolded("redis") + Unfolded("memory")

AtMost(a, b) == a.uv <= b.uv /\ a.pv <= b.pv

\* A page view, and only it, counts visitors; only the others have windows.
TasksFit == \A r \in Report : /\ work[r].pc = "uv" => work[r].kind = "page"
                              /\ work[r].pc = "store" => work[r].kind # "page"
                              /\ work[r].pc # "idle" /\ work[r].kind = "page" => work[r].who \in viewers

\* The counters only grow, and the flush has read them after what was folded.
FlushFits == /\ \A s \in Views!Stores : AtMost(day[s].folded, day[s].at)
             /\ flush.pc \in {"write", "mark"} => /\ AtMost(day[flush.from].folded, flush.snap)
                                                  /\ AtMost(flush.snap, day[flush.from].at)
             /\ flush.pc = "write" => flush.delta = Views!Minus(flush.snap, day[flush.from].folded)
             /\ flush.pc = "mark" => flush.from = "redis"

\* Before the first beacon nothing is counted.
Untouched == beacons = 0 =>
    /\ \A s \in Views!Stores : day[s] = Views!NoCounts
    /\ daily = Views!Zero /\ views = 0 /\ viewers = {}
    /\ \A c \in Views!Counter : win[c].redis = {} /\ win[c].memory = {} /\ win[c].stored = 0 /\ due[c] = 0
    /\ flush.pc \in {"idle", "read"} /\ \A r \in Report : work[r] = Views!Idle

\* Until the store changes, the other one is empty.
OneStore == "switched" \notin blame =>
    /\ running => day["memory"] = Views!NoCounts /\ \A c \in Views!Counter : win[c].memory = {}
    /\ ~running => /\ day["redis"] = Views!NoCounts /\ \A c \in Views!Counter : win[c].redis = {}
                   /\ \A r \in Report : work[r].pc \notin {"mark", "uv"}
    /\ flush.pc \in {"write", "mark"} => flush.from = Views!Store

\* The visitors marked are those counted, but for the requests that have still to count one.
VisitorsCounted ==
    /\ IsFiniteSet(viewers) /\ \A s \in Views!Stores : day[s].seen \subseteq viewers
    /\ "switched" \notin blame =>
         /\ day[Views!Store].at.uv + Cardinality(Meeting) <= Cardinality(day[Views!Store].seen)
         /\ blame \cap {"unmarked", "retold"} = {} => daily.uv <= Base(Views!Store).uv
    /\ blame = {} =>
         /\ day[Views!Store].at.uv + Cardinality(Meeting) = Cardinality(day[Views!Store].seen)
         /\ \A v \in viewers : v \in day[Views!Store].seen \/ \E r \in Viewing : work[r].who = v

\* The views reported are those counted, but for the requests that have still to count one.
ViewsCounted ==
    /\ blame \cap {"unmarked", "retold"} = {} => Total + Cardinality(Viewing) <= views
    /\ blame \cap {"dropped", "forgotten", "skipped"} = {} => Total + Cardinality(Viewing) >= views
    /\ blame = {} => day[Views!Store].at.pv + Cardinality(Viewing) = views

\* The windows opened are those stored, but for the requests that have still to store one.
WindowsCounted ==
    \A c \in Views!Counter :
        /\ "switched" \notin blame => win[c].stored + Cardinality(Storing(c)) <= due[c]
        /\ "dropped" \notin blame => win[c].stored + Cardinality(Storing(c)) >= due[c]

ViewsIInv == /\ ViewsTypes /\ TasksFit /\ WorkIsFinite /\ FlushFits /\ Untouched /\ OneStore
             /\ VisitorsCounted /\ ViewsCounted /\ WindowsCounted

ViewsInductive == part = "beacons" => ViewsIInv

LEMMA ViewsStarts == BackgroundInit /\ part = "beacons" => Views!Init
  BY DEF BackgroundInit

LEMMA ViewsMoves ==
  ASSUME [BackgroundNext]_background, part' = "beacons"
  PROVE  part = "beacons" /\ [Views!Next]_(Views!vars)
<1>1. CASE UNCHANGED background
  BY <1>1 DEF background, Views!vars
<1>2. CASE BackgroundNext
  BY <1>2 DEF BackgroundNext
<1> QED BY <1>1, <1>2

\* What the records of the counters hold.
LEMMA ViewsKnown ==
  ASSUME ViewsTypes
  PROVE  /\ \A s \in Views!Stores : /\ day[s] \in DayRec /\ day[s].seen \subseteq Visitor
                                    /\ day[s].at.uv \in Nat /\ day[s].at.pv \in Nat
                                    /\ day[s].folded.uv \in Nat /\ day[s].folded.pv \in Nat
                                    /\ day[s].at \in Views!Pair /\ day[s].folded \in Views!Pair
         /\ daily.uv \in Nat /\ daily.pv \in Nat
         /\ \A c \in Views!Counter : /\ win[c] \in WinRec /\ win[c].stored \in Nat /\ due[c] \in Nat
                                     /\ win[c].redis \subseteq Visitor /\ win[c].memory \subseteq Visitor
         /\ flush.snap \in Views!Pair /\ flush.delta \in Views!Pair
         /\ flush.snap.uv \in Nat /\ flush.snap.pv \in Nat
         /\ flush.delta.uv \in Nat /\ flush.delta.pv \in Nat
         /\ \A r \in Report : /\ work[r] \in Work
                              /\ work[r].pc # "idle" => work[r] \in WorkRec
                              /\ work[r].pc = "idle" => work[r] = Views!Idle
  BY DEF ViewsTypes, DayRec, WinRec, FlushRec, WorkRec, Work, Views!Pair, Views!Stores, Views!Counter, Views!Idle

LEMMA ViewsTypesSuffice == ViewsTypes => Views!TypeOK
  BY DEF ViewsTypes, DayRec, WinRec, FlushRec, WorkRec, Work, Reasons, Views!TypeOK

\* A set that at most one request leaves or joins.
LEMMA OneMoves ==
  ASSUME NEW S, NEW T, NEW r, IsFiniteSet(S), S \ {r} = T \ {r}
  PROVE  /\ IsFiniteSet(T) /\ Cardinality(S) \in Nat /\ Cardinality(T) \in Nat
         /\ r \in S /\ r \notin T => Cardinality(T) = Cardinality(S) - 1
         /\ r \notin S /\ r \in T => Cardinality(T) = Cardinality(S) + 1
         /\ (r \in S <=> r \in T) => T = S
<1>1. /\ IsFiniteSet(S \ {r}) /\ IsFiniteSet((S \ {r}) \cup {r})
      /\ Cardinality(S \ {r}) = IF r \in S THEN Cardinality(S) - 1 ELSE Cardinality(S)
  BY FS_RemoveElement, FS_AddElement
<1>2. T = S \ {r} \/ T = (S \ {r}) \cup {r}
  OBVIOUS
<1>3. Cardinality((S \ {r}) \cup {r}) = Cardinality(S \ {r}) + 1
  <2>1. r \notin S \ {r}
    OBVIOUS
  <2> QED BY <1>1, <2>1, FS_AddElement
<1>4. IsFiniteSet(T)
  BY <1>1, <1>2
<1>5. Cardinality(S) \in Nat /\ Cardinality(T) \in Nat
  BY <1>4, FS_CardinalityType
<1>6. (r \in S <=> r \in T) => T = S
  OBVIOUS
<1>7. ASSUME r \in S, r \notin T PROVE Cardinality(T) = Cardinality(S) - 1
  <2>1. T = S \ {r}
    BY <1>7
  <2> QED BY <1>1, <1>7, <2>1
<1>8. ASSUME r \notin S, r \in T PROVE Cardinality(T) = Cardinality(S) + 1
  <2>1. T = S \cup {r}
    BY <1>8
  <2> QED BY <1>8, <2>1, FS_AddElement
<1> QED BY <1>4, <1>5, <1>6, <1>7, <1>8

\* What the request of a step counts among.
Num(b) == IF b THEN 1 ELSE 0

LEMMA NumMoves ==
  ASSUME NEW S, NEW T, NEW r, IsFiniteSet(S), S \ {r} = T \ {r}
  PROVE  /\ IsFiniteSet(T) /\ Cardinality(S) \in Nat /\ Cardinality(T) \in Nat
         /\ Cardinality(T) = Cardinality(S) + Num(r \in T) - Num(r \in S)
  BY OneMoves DEF Num

\* One request goes on.
LEMMA WorkMoves ==
  ASSUME ViewsTypes, WorkIsFinite, NEW r \in Report, NEW j \in Work, work' = [work EXCEPT ![r] = j]
  PROVE  /\ work' \in [Report -> Work] /\ work'[r] = j /\ \A x \in Report \ {r} : work'[x] = work[x]
         /\ WorkIsFinite'
         /\ Cardinality(Viewing) \in Nat /\ Cardinality(Viewing') \in Nat
         /\ Cardinality(Viewing') = Cardinality(Viewing) + Num(IsViewing(j)) - Num(IsViewing(work[r]))
         /\ Cardinality(Meeting) \in Nat /\ Cardinality(Meeting') \in Nat
         /\ Cardinality(Meeting') = Cardinality(Meeting) + Num(IsMeeting(j)) - Num(IsMeeting(work[r]))
         /\ \A c \in Views!Counter :
              /\ Cardinality(Storing(c)) \in Nat /\ Cardinality(Storing(c)') \in Nat
              /\ Cardinality(Storing(c)') =
                    Cardinality(Storing(c)) + Num(IsStoring(j, c)) - Num(IsStoring(work[r], c))
<1>1. work' \in [Report -> Work] /\ work'[r] = j /\ \A x \in Report \ {r} : work'[x] = work[x]
  BY DEF ViewsTypes
<1>2. /\ Viewing' = {x \in Report : IsViewing(work'[x])} /\ Meeting' = {x \in Report : IsMeeting(work'[x])}
      /\ \A c : Storing(c)' = {x \in Report : IsStoring(work'[x], c)}
  BY DEF Viewing, Meeting, Storing, IsViewing, IsMeeting, IsStoring
<1>3. /\ Viewing \ {r} = Viewing' \ {r} /\ (r \in Viewing' <=> IsViewing(j)) /\ (r \in Viewing <=> IsViewing(work[r]))
      /\ Meeting \ {r} = Meeting' \ {r} /\ (r \in Meeting' <=> IsMeeting(j)) /\ (r \in Meeting <=> IsMeeting(work[r]))
  BY <1>1, <1>2 DEF Viewing, Meeting
<1>4. \A c \in Views!Counter : /\ Storing(c) \ {r} = Storing(c)' \ {r} /\ (r \in Storing(c)' <=> IsStoring(j, c))
                               /\ (r \in Storing(c) <=> IsStoring(work[r], c))
  BY <1>1, <1>2 DEF Storing
<1>5. /\ IsFiniteSet(Viewing') /\ Cardinality(Viewing) \in Nat /\ Cardinality(Viewing') \in Nat
      /\ Cardinality(Viewing') = Cardinality(Viewing) + Num(r \in Viewing') - Num(r \in Viewing)
  BY <1>3, NumMoves DEF WorkIsFinite
<1>6. /\ IsFiniteSet(Meeting') /\ Cardinality(Meeting) \in Nat /\ Cardinality(Meeting') \in Nat
      /\ Cardinality(Meeting') = Cardinality(Meeting) + Num(r \in Meeting') - Num(r \in Meeting)
  BY <1>3, NumMoves DEF WorkIsFinite
<1>7. \A c \in Views!Counter :
         /\ IsFiniteSet(Storing(c)') /\ Cardinality(Storing(c)) \in Nat /\ Cardinality(Storing(c)') \in Nat
         /\ Cardinality(Storing(c)') = Cardinality(Storing(c)) + Num(r \in Storing(c)') - Num(r \in Storing(c))
  BY <1>4, NumMoves DEF WorkIsFinite
<1>8. /\ (Num(r \in Viewing') = Num(IsViewing(j)) /\ Num(r \in Viewing) = Num(IsViewing(work[r])))
      /\ (Num(r \in Meeting') = Num(IsMeeting(j)) /\ Num(r \in Meeting) = Num(IsMeeting(work[r])))
      /\ \A c \in Views!Counter : /\ Num(r \in Storing(c)') = Num(IsStoring(j, c))
                                  /\ Num(r \in Storing(c)) = Num(IsStoring(work[r], c))
  BY <1>3, <1>4 DEF Num
<1>9. WorkIsFinite'
  BY <1>5, <1>6, <1>7 DEF WorkIsFinite
<1> QED BY <1>1, <1>5, <1>6, <1>7, <1>8, <1>9

\* Before the first beacon no request is under way.
LEMMA Busy == ASSUME Untouched, NEW r \in Report, work[r].pc # "idle" PROVE beacons # 0
  BY DEF Untouched, Views!Idle

LEMMA PairsAre == /\ Views!Zero \in Views!Pair /\ Views!Zero.uv = 0 /\ Views!Zero.pv = 0
                  /\ Views!NoCounts \in DayRec /\ Views!NoCounts.seen = {}
                  /\ Views!NoCounts.at = Views!Zero /\ Views!NoCounts.folded = Views!Zero
                  /\ Views!NoFlush \in FlushRec /\ Views!NoFlush.pc = "idle"
  BY DEF Views!Zero, Views!Pair, Views!NoCounts, DayRec, Views!NoFlush, FlushRec, Views!Stores

\* What is folded lies between the mark and the counters.
LEMMA BaseFits ==
  ASSUME ViewsTypes, FlushFits
  PROVE  /\ \A s \in Views!Stores : /\ Base(s).uv \in Nat /\ Base(s).pv \in Nat
                                    /\ Base(s).uv <= day[s].at.uv /\ Base(s).pv <= day[s].at.pv
                                    /\ day[s].folded.uv <= Base(s).uv /\ day[s].folded.pv <= Base(s).pv
                                    /\ Unfolded(s) \in Nat /\ Unfolded(s) = day[s].at.pv - Base(s).pv
         /\ Total \in Nat /\ Total = daily.pv + Unfolded("redis") + Unfolded("memory")
<1>1. \A s \in Views!Stores : /\ Base(s).uv \in Nat /\ Base(s).pv \in Nat
                              /\ Base(s).uv <= day[s].at.uv /\ Base(s).pv <= day[s].at.pv
                              /\ day[s].folded.uv <= Base(s).uv /\ day[s].folded.pv <= Base(s).pv
  BY ViewsKnown DEF Base, FlushFits, AtMost
<1>2. \A s \in Views!Stores : Unfolded(s) \in Nat /\ Unfolded(s) = day[s].at.pv - Base(s).pv
  BY <1>1, ViewsKnown DEF Unfolded
<1>3. Total \in Nat /\ Total = daily.pv + Unfolded("redis") + Unfolded("memory")
  BY <1>2, ViewsKnown DEF Total, Views!Stores
<1> QED BY <1>1, <1>2, <1>3

LEMMA ViewsInit == Views!Init => ViewsIInv
<1> SUFFICES ASSUME Views!Init PROVE ViewsIInv
  OBVIOUS
<1>1. ViewsTypes
  BY PairsAre DEF Views!Init, ViewsTypes, WinRec, Work, Reasons
<1>2. /\ \A s \in Views!Stores : day[s] = Views!NoCounts
      /\ \A r \in Report : work[r] = Views!Idle /\ work[r].pc = "idle"
      /\ \A c \in Views!Counter : win[c].redis = {} /\ win[c].memory = {} /\ win[c].stored = 0 /\ due[c] = 0
      /\ daily = Views!Zero /\ views = 0 /\ viewers = {} /\ blame = {} /\ flush = Views!NoFlush
  BY DEF Views!Init, Views!Idle
<1>3. Viewing = {} /\ Meeting = {} /\ \A c \in Views!Counter : Storing(c) = {}
  BY <1>2 DEF Viewing, Meeting, Storing, IsViewing, IsMeeting, IsStoring
<1>4. IsFiniteSet({}) /\ Cardinality({}) = 0
  BY FS_EmptySet
<1>5. WorkIsFinite
  BY <1>3, <1>4 DEF WorkIsFinite
<1>6. TasksFit
  BY <1>2 DEF TasksFit
<1>7. FlushFits
  BY <1>2, PairsAre DEF FlushFits, AtMost
<1>8. Untouched /\ OneStore
  BY <1>2, PairsAre DEF Untouched, OneStore, Views!Stores
<1>9. Base("redis") = Views!Zero /\ Base("memory") = Views!Zero /\ Views!Store \in Views!Stores
  BY <1>2, PairsAre DEF Base, Views!Store, Views!Stores
<1>10. VisitorsCounted
  <2>1. day[Views!Store].seen = {} /\ day[Views!Store].at.uv = 0 /\ Base(Views!Store).uv = 0 /\ daily.uv = 0
    BY <1>2, <1>9, PairsAre DEF Views!Stores
  <2>2. Cardinality(Meeting) = 0 /\ Cardinality(day[Views!Store].seen) = 0
    BY <1>3, <1>4, <2>1
  <2>3. \A s \in Views!Stores : day[s].seen \subseteq viewers
    BY <1>2, PairsAre
  <2> QED BY <1>2, <1>4, <2>1, <2>2, <2>3 DEF VisitorsCounted
<1>11. Total = 0
  BY <1>2, <1>9, PairsAre DEF Total, Unfolded, Views!Stores
<1>12. ViewsCounted
  BY <1>2, <1>3, <1>4, <1>9, <1>11, PairsAre DEF ViewsCounted
<1>13. WindowsCounted
  BY <1>2, <1>3, <1>4 DEF WindowsCounted
<1> QED BY <1>1, <1>5, <1>6, <1>7, <1>8, <1>10, <1>12, <1>13 DEF ViewsIInv

\* A step that leaves the windows alone.
LEMMA WindowsKeep ==
  ASSUME WindowsCounted, blame \subseteq blame',
         \A c \in Views!Counter : /\ win'[c].stored = win[c].stored /\ due'[c] = due[c]
                                  /\ Cardinality(Storing(c)') = Cardinality(Storing(c))
  PROVE  WindowsCounted'
  BY DEF WindowsCounted

\* A step that moves a request: the windows opened are stored, or on their way.
LEMMA WindowsMove ==
  ASSUME ViewsTypes, WorkIsFinite, WindowsCounted, blame \subseteq blame',
         NEW r \in Report, NEW j \in Work, work' = [work EXCEPT ![r] = j],
         \A c \in Views!Counter :
           /\ win'[c].stored \in Nat /\ due'[c] \in Nat
           /\ "switched" \notin blame' =>
                win'[c].stored - win[c].stored + Num(IsStoring(j, c)) - Num(IsStoring(work[r], c)) <= due'[c] - due[c]
           /\ "dropped" \notin blame' =>
                win'[c].stored - win[c].stored + Num(IsStoring(j, c)) - Num(IsStoring(work[r], c)) >= due'[c] - due[c]
  PROVE  WindowsCounted'
<1> SUFFICES ASSUME NEW c \in Views!Counter
             PROVE  /\ "switched" \notin blame' => win'[c].stored + Cardinality(Storing(c)') <= due'[c]
                    /\ "dropped" \notin blame' => win'[c].stored + Cardinality(Storing(c)') >= due'[c]
  BY DEF WindowsCounted
<1> DEFINE a == Num(IsStoring(j, c))  b == Num(IsStoring(work[r], c))
<1>1. a \in Nat /\ b \in Nat
  BY DEF Num
<1> HIDE DEF a, b
<1>2. /\ Cardinality(Storing(c)) \in Nat /\ Cardinality(Storing(c)') \in Nat
      /\ Cardinality(Storing(c)') = Cardinality(Storing(c)) + a - b
  BY WorkMoves DEF a, b
<1>3. /\ win[c].stored \in Nat /\ due[c] \in Nat /\ win'[c].stored \in Nat /\ due'[c] \in Nat
  BY ViewsKnown
<1>4. /\ "switched" \notin blame' => win'[c].stored - win[c].stored + a - b <= due'[c] - due[c]
      /\ "dropped" \notin blame' => win'[c].stored - win[c].stored + a - b >= due'[c] - due[c]
  BY DEF a, b
<1>5. /\ "switched" \notin blame => win[c].stored + Cardinality(Storing(c)) <= due[c]
      /\ "dropped" \notin blame => win[c].stored + Cardinality(Storing(c)) >= due[c]
  BY DEF WindowsCounted
<1> QED BY <1>1, <1>2, <1>3, <1>4, <1>5

LEMMA StoreIs == Views!Store \in Views!Stores /\ Views!Store = IF running THEN "redis" ELSE "memory"
  BY DEF Views!Store, Views!Stores

\* A step that leaves the page views and their visitors alone.
LEMMA PagesKeep ==
  ASSUME VisitorsCounted, ViewsCounted, blame \subseteq blame', running' = running \/ "switched" \in blame',
         day' = day, daily' = daily, views' = views, viewers' = viewers,
         \A s \in Views!Stores : Base(s)' = Base(s),
         Cardinality(Viewing') = Cardinality(Viewing), Cardinality(Meeting') = Cardinality(Meeting),
         \A x \in Viewing : x \in Viewing' /\ work'[x].who = work[x].who
  PROVE  VisitorsCounted' /\ ViewsCounted'
<1>1. Total' = Total
  BY DEF Total, Unfolded, Views!Stores
<1>2. "switched" \notin blame' => Views!Store' = Views!Store /\ Base(Views!Store)' = Base(Views!Store)
  <2>1. running' = running => Views!Store' = Views!Store
    BY DEF Views!Store
  <2>2. Views!Store' = Views!Store => Base(Views!Store)' = Base(Views!Store)
    BY StoreIs DEF Views!Stores
  <2> QED BY <2>1, <2>2
<1>3. blame' = {} => blame = {} /\ "switched" \notin blame'
  OBVIOUS
<1>4. \A a : blame' \cap a = {} => blame \cap a = {}
  OBVIOUS
<1>5. ViewsCounted'
  BY <1>1, <1>2, <1>3, <1>4 DEF ViewsCounted
<1>6. VisitorsCounted'
  BY <1>2, <1>3, <1>4 DEF VisitorsCounted
<1> QED BY <1>5, <1>6

\* A request moves that neither counts a view nor a visitor.
LEMMA Aside ==
  ASSUME ViewsIInv, blame \subseteq blame', running' = running \/ "switched" \in blame',
         day' = day, daily' = daily, views' = views, viewers' = viewers, flush' = flush,
         NEW r \in Report, NEW j \in Work, work' = [work EXCEPT ![r] = j],
         ~IsViewing(j), ~IsViewing(work[r]), ~IsMeeting(j), ~IsMeeting(work[r])
  PROVE  FlushFits' /\ VisitorsCounted' /\ ViewsCounted' /\ WorkIsFinite'
<1>1. ViewsTypes /\ WorkIsFinite /\ VisitorsCounted /\ ViewsCounted /\ FlushFits
  BY DEF ViewsIInv
<1>2. FlushFits'
  BY <1>1 DEF FlushFits
<1>3. \A s \in Views!Stores : Base(s)' = Base(s)
  BY DEF Base
<1>4. /\ Cardinality(Viewing') = Cardinality(Viewing) /\ Cardinality(Meeting') = Cardinality(Meeting)
      /\ WorkIsFinite' /\ \A x \in Report \ {r} : work'[x] = work[x]
  <2>1. /\ Num(IsViewing(j)) = 0 /\ Num(IsViewing(work[r])) = 0
        /\ Num(IsMeeting(j)) = 0 /\ Num(IsMeeting(work[r])) = 0
    BY DEF Num
  <2>2. /\ Cardinality(Viewing) \in Nat /\ Cardinality(Viewing') = Cardinality(Viewing) + 0 - 0
        /\ Cardinality(Meeting) \in Nat /\ Cardinality(Meeting') = Cardinality(Meeting) + 0 - 0
    BY <1>1, <2>1, WorkMoves
  <2>3. WorkIsFinite' /\ \A x \in Report \ {r} : work'[x] = work[x]
    BY <1>1, WorkMoves
  <2> QED BY <2>2, <2>3
<1>5. \A x \in Viewing : x \in Viewing' /\ work'[x].who = work[x].who
  BY <1>4 DEF Viewing, IsViewing
<1> QED BY <1>1, <1>2, <1>3, <1>4, <1>5, PagesKeep

LEMMA TasksMove ==
  ASSUME ViewsTypes, TasksFit, viewers \subseteq viewers', NEW r \in Report, NEW j \in Work,
         work' = [work EXCEPT ![r] = j],
         j.pc = "uv" => j.kind = "page", j.pc = "store" => j.kind # "page",
         j.pc # "idle" /\ j.kind = "page" => j.who \in viewers'
  PROVE  TasksFit'
<1>1. work'[r] = j /\ \A x \in Report \ {r} : work'[x] = work[x]
  BY DEF ViewsTypes
<1> QED BY <1>1 DEF TasksFit

LEMMA IdleIs == /\ Views!Idle \in Work /\ Views!Idle.pc = "idle"
                /\ ~IsViewing(Views!Idle) /\ ~IsMeeting(Views!Idle)
                /\ \A c : ~IsStoring(Views!Idle, c) /\ Num(IsStoring(Views!Idle, c)) = 0
                /\ Num(IsViewing(Views!Idle)) = 0 /\ Num(IsMeeting(Views!Idle)) = 0
  BY DEF Work, Views!Idle, IsViewing, IsMeeting, IsStoring, Num

LEMMA MoveIs ==
  ASSUME NEW pc \in {"mark", "uv", "store"}, NEW k \in Views!Kind, NEW v \in Visitor
  PROVE  LET j == [pc |-> pc, kind |-> k, who |-> v]
         IN  j \in WorkRec /\ j \in Work /\ j.pc = pc /\ j.kind = k /\ j.who = v
  BY DEF WorkRec, Work

LEMMA GotoIs ==
  ASSUME ViewsTypes, NEW r \in Report, NEW pc \in {"mark", "uv", "store"}, work[r].pc # "idle", Views!Goto(r, pc)
  PROVE  /\ [pc |-> pc, kind |-> work[r].kind, who |-> work[r].who] \in Work
         /\ work' = [work EXCEPT ![r] = [pc |-> pc, kind |-> work[r].kind, who |-> work[r].who]]
         /\ work[r].kind \in Views!Kind /\ work[r].who \in Visitor
<1>1. work[r] \in WorkRec
  BY ViewsKnown
<1>2. work[r].kind \in Views!Kind /\ work[r].who \in Visitor
  BY <1>1 DEF WorkRec
<1>3. [work[r] EXCEPT !.pc = pc] = [pc |-> pc, kind |-> work[r].kind, who |-> work[r].who]
  BY <1>1 DEF WorkRec
<1>4. work' = [work EXCEPT ![r] = [work[r] EXCEPT !.pc = pc]]
  BY DEF Views!Goto, ViewsTypes
<1> QED BY <1>2, <1>3, <1>4, MoveIs

\* Marking a visitor opens a window unless one of the stores has it.
LEMMA MarkedIs ==
  ASSUME ViewsTypes, NEW c \in Views!Counter, NEW s \in Views!Stores, NEW v \in Visitor, Views!Marked(c, s, v)
  PROVE  /\ win' \in [Views!Counter -> WinRec] /\ due' \in [Views!Counter -> Nat]
         /\ \A d \in Views!Counter : win'[d].stored = win[d].stored
         /\ \A d \in Views!Counter \ {c} : win'[d] = win[d] /\ due'[d] = due[d]
         /\ s = "redis" => win'[c].memory = win[c].memory /\ win'[c].redis = win[c].redis \cup {v}
         /\ s = "memory" => win'[c].redis = win[c].redis /\ win'[c].memory = win[c].memory \cup {v}
         /\ due'[c] = due[c] + Num(v \notin win[c].redis \cup win[c].memory)
<1>1. /\ win \in [Views!Counter -> WinRec] /\ due \in [Views!Counter -> Nat]
      /\ win[c] \in WinRec /\ win[c].redis \subseteq Visitor /\ win[c].memory \subseteq Visitor /\ due[c] \in Nat
  BY ViewsKnown DEF ViewsTypes
<1>2. /\ win' = [win EXCEPT ![c] = [win[c] EXCEPT ![s] = win[c][s] \cup {v}]]
      /\ due' = IF v \in win[c]["redis"] \cup win[c]["memory"] THEN due ELSE [due EXCEPT ![c] = due[c] + 1]
  BY <1>1 DEF Views!Marked
<1>3. /\ s = "redis" => LET w == [win[c] EXCEPT ![s] = win[c][s] \cup {v}]
                        IN  /\ w \in WinRec /\ w.redis = win[c].redis \cup {v} /\ w.memory = win[c].memory
                            /\ w.stored = win[c].stored
      /\ s = "memory" => LET w == [win[c] EXCEPT ![s] = win[c][s] \cup {v}]
                         IN  /\ w \in WinRec /\ w.memory = win[c].memory \cup {v} /\ w.redis = win[c].redis
                             /\ w.stored = win[c].stored
  BY <1>1 DEF WinRec
<1>4. PICK w : w = [win[c] EXCEPT ![s] = win[c][s] \cup {v}]
  OBVIOUS
<1>5. /\ w \in WinRec /\ w.stored = win[c].stored
      /\ s = "redis" => w.redis = win[c].redis \cup {v} /\ w.memory = win[c].memory
      /\ s = "memory" => w.memory = win[c].memory \cup {v} /\ w.redis = win[c].redis
  BY <1>3, <1>4 DEF Views!Stores
<1>6. /\ win' \in [Views!Counter -> WinRec] /\ win'[c] = w
      /\ \A d \in Views!Counter \ {c} : win'[d] = win[d]
  BY <1>1, <1>2, <1>4, <1>5
<1>7. /\ due' \in [Views!Counter -> Nat] /\ \A d \in Views!Counter \ {c} : due'[d] = due[d]
      /\ due'[c] = IF v \in win[c].redis \cup win[c].memory THEN due[c] ELSE due[c] + 1
  BY <1>1, <1>2
<1>8. due'[c] = due[c] + Num(v \notin win[c].redis \cup win[c].memory)
  BY <1>1, <1>7 DEF Num
<1> QED BY <1>5, <1>6, <1>7, <1>8

LEMMA MarkWindowKeeps == ASSUME ViewsIInv, NEW r \in Report, Views!MarkWindow(r) PROVE ViewsIInv'
<1> DEFINE c == work[r].kind  v == work[r].who
           j == IF Views!Fresh(v, win[c]["redis"]) THEN [pc |-> "store", kind |-> c, who |-> v] ELSE Views!Idle
<1>1. ViewsTypes /\ TasksFit /\ WorkIsFinite /\ FlushFits /\ Untouched /\ OneStore /\ WindowsCounted
  BY DEF ViewsIInv
<1>2. /\ work[r].pc = "mark" /\ c # "page" /\ Views!Marked(c, "redis", v)
      /\ IF Views!Fresh(v, win[c]["redis"]) THEN Views!Goto(r, "store") ELSE Views!End(r)
      /\ running' = running /\ day' = day /\ daily' = daily /\ flush' = flush /\ life' = life
      /\ beacons' = beacons /\ views' = views /\ viewers' = viewers /\ blame' = blame
  BY DEF Views!MarkWindow
<1>3. work[r].pc # "idle" /\ beacons # 0
  BY <1>1, <1>2, Busy
<1>4. c \in Views!Counter /\ v \in Visitor
  BY <1>1, <1>2, <1>3, ViewsKnown DEF WorkRec, Views!Kind
<1>5. j \in Work /\ work' = [work EXCEPT ![r] = j] /\ j.pc \in {"idle", "store"} /\ (j.pc = "store" => j.kind # "page")
  <2>1. CASE Views!Fresh(v, win[c]["redis"])
    BY <1>1, <1>2, <1>3, <1>4, <2>1, GotoIs, MoveIs DEF Views!Kind
  <2>2. CASE ~Views!Fresh(v, win[c]["redis"])
    BY <1>2, <2>2, IdleIs DEF Views!End
  <2> QED BY <2>1, <2>2
<1>6. /\ ~IsViewing(j) /\ ~IsMeeting(j) /\ ~IsViewing(work[r]) /\ ~IsMeeting(work[r])
      /\ \A d : ~IsStoring(work[r], d)
  BY <1>2, <1>5 DEF IsViewing, IsMeeting, IsStoring
<1>7. /\ \A d \in Views!Counter \ {c} : ~IsStoring(j, d)
      /\ IsStoring(j, c) <=> v \notin win[c].redis
  BY <1>4, IdleIs DEF IsStoring, Views!Fresh
<1>8. /\ win' \in [Views!Counter -> WinRec] /\ due' \in [Views!Counter -> Nat]
      /\ \A d \in Views!Counter : win'[d].stored = win[d].stored
      /\ \A d \in Views!Counter \ {c} : win'[d] = win[d] /\ due'[d] = due[d]
      /\ win'[c].memory = win[c].memory
      /\ due'[c] = due[c] + Num(v \notin win[c].redis \cup win[c].memory)
  BY <1>1, <1>2, <1>4, MarkedIs DEF Views!Stores
<1> HIDE DEF c, v, j
<1>9. FlushFits' /\ VisitorsCounted' /\ ViewsCounted' /\ WorkIsFinite'
  BY <1>2, <1>5, <1>6, Aside
<1>10. TasksFit'
  BY <1>1, <1>2, <1>5, TasksMove
<1>11. ViewsTypes'
  BY <1>1, <1>2, <1>5, <1>8 DEF ViewsTypes
<1>12. Untouched'
  BY <1>2, <1>3 DEF Untouched
<1>13. OneStore'
  <2>1. "switched" \notin blame => running
    BY <1>1, <1>2 DEF OneStore
  <2>2. \A d \in Views!Counter : win'[d].memory = win[d].memory
    BY <1>8
  <2>3. Views!Store' = Views!Store
    BY <1>2 DEF Views!Store
  <2> QED BY <1>1, <1>2, <2>1, <2>2, <2>3 DEF OneStore
<1>14. WindowsCounted'
  <2>1. "switched" \notin blame => win[c].memory = {}
    BY <1>1, <1>2, <1>4 DEF OneStore
  <2>2. ASSUME NEW d \in Views!Counter
        PROVE  /\ win'[d].stored \in Nat /\ due'[d] \in Nat
               /\ "switched" \notin blame' =>
                    win'[d].stored - win[d].stored + Num(IsStoring(j, d)) - Num(IsStoring(work[r], d))
                      <= due'[d] - due[d]
               /\ "dropped" \notin blame' =>
                    win'[d].stored - win[d].stored + Num(IsStoring(j, d)) - Num(IsStoring(work[r], d))
                      >= due'[d] - due[d]
    <3>1. win'[d].stored = win[d].stored /\ win[d].stored \in Nat /\ due[d] \in Nat /\ Num(IsStoring(work[r], d)) = 0
      BY <1>1, <1>6, <1>8, ViewsKnown DEF Num
    <3>2. CASE d # c
      <4>1. Num(IsStoring(j, d)) = 0 /\ due'[d] = due[d]
        BY <1>7, <1>8, <3>2 DEF Num
      <4> QED BY <3>1, <4>1
    <3>3. CASE d = c
      <4>1. Num(IsStoring(j, d)) = Num(v \notin win[c].redis)
        BY <1>7, <3>3 DEF Num
      <4>2. /\ Num(v \notin win[c].redis) \in Nat /\ Num(v \notin win[c].redis \cup win[c].memory) \in Nat
            /\ Num(v \notin win[c].redis \cup win[c].memory) <= Num(v \notin win[c].redis)
            /\ win[c].memory = {} =>
                 Num(v \notin win[c].redis \cup win[c].memory) = Num(v \notin win[c].redis)
        BY DEF Num
      <4> QED BY <1>2, <1>8, <2>1, <3>1, <3>3, <4>1, <4>2
    <3> QED BY <3>2, <3>3
  <2> QED BY <1>1, <1>2, <1>5, <2>2, WindowsMove
<1> QED BY <1>9, <1>10, <1>11, <1>12, <1>13, <1>14 DEF ViewsIInv

LEMMA MemoryWindowMoves ==
  ASSUME ViewsTypes, WorkIsFinite, WindowsCounted, blame \subseteq blame',
         NEW r \in Report, NEW c \in Views!Counter, NEW v \in Visitor, Views!MemoryWindow(r, c, v),
         \A d : ~IsStoring(work[r], d), "switched" \notin blame' => win[c].redis = {}
  PROVE  /\ \E j \in Work : /\ work' = [work EXCEPT ![r] = j] /\ j.pc \in {"idle", "store"}
                            /\ (j.pc = "store" => j.kind # "page") /\ ~IsViewing(j) /\ ~IsMeeting(j)
         /\ win' \in [Views!Counter -> WinRec] /\ due' \in [Views!Counter -> Nat]
         /\ \A d \in Views!Counter : win'[d].redis = win[d].redis
         /\ WindowsCounted'
<1> DEFINE j == IF Views!Fresh(v, win[c]["memory"]) THEN [pc |-> "store", kind |-> c, who |-> v] ELSE Views!Idle
<1>1. Views!Marked(c, "memory", v) /\ work' = [work EXCEPT ![r] = j]
  BY DEF Views!MemoryWindow
<1>2. /\ j \in Work /\ j.pc \in {"idle", "store"} /\ (j.pc = "store" => j.kind # "page")
      /\ ~IsViewing(j) /\ ~IsMeeting(j)
  <2>1. c \in Views!Kind /\ c # "page"
    BY DEF Views!Kind, Views!Counter
  <2>2. LET k == [pc |-> "store", kind |-> c, who |-> v] IN k \in Work /\ k.pc = "store" /\ k.kind = c
    BY <2>1, MoveIs
  <2>3. j \in Work /\ j.pc \in {"idle", "store"} /\ (j.pc = "store" => j.kind # "page")
    BY <2>1, <2>2, IdleIs
  <2> QED BY <2>3 DEF IsViewing, IsMeeting
<1>3. /\ \A d \in Views!Counter \ {c} : ~IsStoring(j, d)
      /\ IsStoring(j, c) <=> v \notin win[c].memory
  BY IdleIs DEF IsStoring, Views!Fresh
<1>4. /\ win' \in [Views!Counter -> WinRec] /\ due' \in [Views!Counter -> Nat]
      /\ \A d \in Views!Counter : win'[d].stored = win[d].stored
      /\ \A d \in Views!Counter \ {c} : win'[d] = win[d] /\ due'[d] = due[d]
      /\ win'[c].redis = win[c].redis
      /\ due'[c] = due[c] + Num(v \notin win[c].redis \cup win[c].memory)
  BY <1>1, MarkedIs DEF Views!Stores
<1> HIDE DEF j
<1>5. ASSUME NEW d \in Views!Counter
      PROVE  /\ win'[d].stored \in Nat /\ due'[d] \in Nat
             /\ "switched" \notin blame' =>
                  win'[d].stored - win[d].stored + Num(IsStoring(j, d)) - Num(IsStoring(work[r], d)) <= due'[d] - due[d]
             /\ "dropped" \notin blame' =>
                  win'[d].stored - win[d].stored + Num(IsStoring(j, d)) - Num(IsStoring(work[r], d)) >= due'[d] - due[d]
  <2>1. win'[d].stored = win[d].stored /\ win[d].stored \in Nat /\ due[d] \in Nat /\ Num(IsStoring(work[r], d)) = 0
    BY <1>4, ViewsKnown DEF Num
  <2>2. CASE d # c
    <3>1. Num(IsStoring(j, d)) = 0 /\ due'[d] = due[d]
      BY <1>3, <1>4, <2>2 DEF Num
    <3> QED BY <2>1, <3>1
  <2>3. CASE d = c
    <3>1. Num(IsStoring(j, d)) = Num(v \notin win[c].memory)
      BY <1>3, <2>3 DEF Num
    <3>2. /\ Num(v \notin win[c].memory) \in Nat /\ Num(v \notin win[c].redis \cup win[c].memory) \in Nat
          /\ Num(v \notin win[c].redis \cup win[c].memory) <= Num(v \notin win[c].memory)
          /\ win[c].redis = {} =>
               Num(v \notin win[c].redis \cup win[c].memory) = Num(v \notin win[c].memory)
      BY DEF Num
    <3> QED BY <1>4, <2>1, <2>3, <3>1, <3>2
  <2> QED BY <2>2, <2>3
<1>6. WindowsCounted'
  BY <1>1, <1>2, <1>5, WindowsMove
<1>7. \A d \in Views!Counter : win'[d].redis = win[d].redis
  BY <1>4
<1> QED BY <1>1, <1>2, <1>4, <1>6, <1>7

\* A request under way is of a process that has Redis, until the store changes.
LEMMA Switching ==
  ASSUME ViewsIInv, NEW r \in Report, work[r].pc \in {"mark", "uv"},
         blame \subseteq blame', Views!Switched \subseteq blame'
  PROVE  "switched" \in blame'
<1>1. beacons # 0 /\ beacons \in Nat /\ running \in BOOLEAN
  <2>1. work[r].pc # "idle"
    OBVIOUS
  <2> QED BY <2>1, Busy DEF ViewsIInv, ViewsTypes
<1>2. "switched" \in blame \/ running
  BY DEF ViewsIInv, OneStore
<1> QED BY <1>1, <1>2 DEF Views!Switched

LEMMA WindowFailsKeeps == ASSUME ViewsIInv, NEW r \in Report, Views!WindowFails(r) PROVE ViewsIInv'
<1> DEFINE c == work[r].kind  v == work[r].who
<1>1. ViewsTypes /\ TasksFit /\ WorkIsFinite /\ FlushFits /\ Untouched /\ OneStore /\ WindowsCounted
  BY DEF ViewsIInv
<1>2. /\ work[r].pc = "mark" /\ c # "page" /\ running' = FALSE
      /\ \/ Views!End(r) /\ win' = win /\ due' = due /\ blame' = blame \cup Views!Switched \cup {"dropped"}
         \/ Views!MemoryWindow(r, c, v) /\ blame' = blame \cup Views!Switched
      /\ day' = day /\ daily' = daily /\ flush' = flush /\ life' = life
      /\ beacons' = beacons /\ views' = views /\ viewers' = viewers
  BY DEF Views!WindowFails, Views!Lost
<1>3. work[r].pc # "idle" /\ beacons # 0
  BY <1>1, <1>2, Busy
<1>4. c \in Views!Counter /\ v \in Visitor
  BY <1>1, <1>2, <1>3, ViewsKnown DEF WorkRec, Views!Kind
<1>5. ~IsViewing(work[r]) /\ ~IsMeeting(work[r]) /\ \A d : ~IsStoring(work[r], d)
  BY <1>2 DEF IsViewing, IsMeeting, IsStoring
<1>6. blame \subseteq blame' /\ Views!Switched \subseteq blame' /\ blame' \subseteq Reasons
  BY <1>1, <1>2 DEF Views!Switched, ViewsTypes, Reasons
<1>7. "switched" \in blame'
  BY <1>2, <1>6, Switching
<1> HIDE DEF c, v
<1>8. PICK j \in Work : /\ work' = [work EXCEPT ![r] = j] /\ j.pc \in {"idle", "store"}
                        /\ (j.pc = "store" => j.kind # "page") /\ ~IsViewing(j) /\ ~IsMeeting(j)
                        /\ win' \in [Views!Counter -> WinRec] /\ due' \in [Views!Counter -> Nat]
                        /\ WindowsCounted'
  <2>1. CASE Views!MemoryWindow(r, c, v)
    BY <1>1, <1>4, <1>5, <1>6, <1>7, <2>1, MemoryWindowMoves
  <2>2. CASE /\ Views!End(r) /\ win' = win /\ due' = due /\ blame' = blame \cup Views!Switched \cup {"dropped"}
    <3>1. work' = [work EXCEPT ![r] = Views!Idle]
      BY <2>2 DEF Views!End
    <3>2. ASSUME NEW d \in Views!Counter
          PROVE  /\ win'[d].stored = win[d].stored /\ due'[d] = due[d] /\ win'[d].stored \in Nat /\ due'[d] \in Nat
                 /\ Num(IsStoring(Views!Idle, d)) = 0 /\ Num(IsStoring(work[r], d)) = 0
      BY <1>1, <1>5, <2>2, IdleIs, ViewsKnown DEF Num
    <3>3. WindowsCounted'
      <4>1. "dropped" \in blame'
        BY <2>2
      <4> QED BY <1>1, <1>6, <1>7, <3>1, <3>2, <4>1, IdleIs, WindowsMove
    <3> QED BY <1>1, <2>2, <3>1, <3>3, IdleIs DEF ViewsTypes
  <2> QED BY <1>2, <2>1, <2>2
<1>9. FlushFits' /\ VisitorsCounted' /\ ViewsCounted' /\ WorkIsFinite'
  BY <1>2, <1>5, <1>6, <1>7, <1>8, Aside
<1>10. TasksFit'
  BY <1>1, <1>2, <1>8, TasksMove
<1>11. ViewsTypes'
  BY <1>1, <1>2, <1>6, <1>8 DEF ViewsTypes
<1>12. Untouched'
  BY <1>2, <1>3 DEF Untouched
<1>13. OneStore'
  BY <1>7 DEF OneStore
<1> QED BY <1>8, <1>9, <1>10, <1>11, <1>12, <1>13 DEF ViewsIInv

LEMMA IncrementKeeps == ASSUME ViewsIInv, NEW r \in Report, Views!Increment(r) PROVE ViewsIInv'
<1> DEFINE c == work[r].kind
<1>1. ViewsTypes /\ TasksFit /\ WorkIsFinite /\ FlushFits /\ Untouched /\ OneStore /\ WindowsCounted
  BY DEF ViewsIInv
<1>2. /\ work[r].pc = "store" /\ win' = [win EXCEPT ![c].stored = @ + 1]
      /\ work' = [work EXCEPT ![r] = Views!Idle] /\ running' = running
      /\ day' = day /\ daily' = daily /\ flush' = flush /\ life' = life /\ blame' = blame
      /\ beacons' = beacons /\ views' = views /\ viewers' = viewers /\ due' = due
  BY DEF Views!Increment, Views!End, Views!ghosts
<1>3. work[r].pc # "idle" /\ beacons # 0
  BY <1>1, <1>2, Busy
<1>4. c \in Views!Counter
  BY <1>1, <1>2, <1>3, ViewsKnown DEF WorkRec, Views!Kind, TasksFit
<1>5. ~IsViewing(work[r]) /\ ~IsMeeting(work[r]) /\ \A d : IsStoring(work[r], d) <=> d = c
  BY <1>2 DEF IsViewing, IsMeeting, IsStoring
<1> HIDE DEF c
<1>6. /\ win' \in [Views!Counter -> WinRec] /\ win'[c].stored = win[c].stored + 1
      /\ \A d \in Views!Counter : win'[d].redis = win[d].redis /\ win'[d].memory = win[d].memory
      /\ \A d \in Views!Counter \ {c} : win'[d] = win[d]
  <2>1. win \in [Views!Counter -> WinRec] /\ win[c] \in WinRec
    BY <1>1, <1>4 DEF ViewsTypes
  <2>2. LET w == [win[c] EXCEPT !.stored = win[c].stored + 1]
        IN  w \in WinRec /\ w.stored = win[c].stored + 1 /\ w.redis = win[c].redis /\ w.memory = win[c].memory
    BY <2>1 DEF WinRec
  <2>3. PICK w : w = [win[c] EXCEPT !.stored = win[c].stored + 1]
    OBVIOUS
  <2>4. w \in WinRec /\ w.stored = win[c].stored + 1 /\ w.redis = win[c].redis /\ w.memory = win[c].memory
    BY <2>2, <2>3
  <2>5. win' = [win EXCEPT ![c] = w]
    BY <1>2, <1>4, <2>1, <2>3
  <2> QED BY <1>4, <2>1, <2>4, <2>5
<1>7. FlushFits' /\ VisitorsCounted' /\ ViewsCounted' /\ WorkIsFinite'
  BY <1>2, <1>5, IdleIs, Aside
<1>8. TasksFit'
  BY <1>1, <1>2, IdleIs, TasksMove
<1>9. ViewsTypes'
  BY <1>1, <1>2, <1>6, IdleIs DEF ViewsTypes
<1>10. Untouched'
  BY <1>2, <1>3 DEF Untouched
<1>11. OneStore'
  <2>1. Views!Store' = Views!Store
    BY <1>2 DEF Views!Store
  <2>2. \A x \in Report : work'[x].pc \in {"mark", "uv"} => work[x].pc \in {"mark", "uv"}
    BY <1>1, <1>2, IdleIs DEF ViewsTypes
  <2> QED BY <1>1, <1>2, <1>6, <2>1, <2>2 DEF OneStore
<1>12. WindowsCounted'
  <2>1. ASSUME NEW d \in Views!Counter
        PROVE  /\ win'[d].stored \in Nat /\ due'[d] \in Nat
               /\ win'[d].stored - win[d].stored + Num(IsStoring(Views!Idle, d)) - Num(IsStoring(work[r], d))
                    = due'[d] - due[d]
    <3>1. Num(IsStoring(Views!Idle, d)) = 0 /\ Num(IsStoring(work[r], d)) = IF d = c THEN 1 ELSE 0
      BY <1>5, IdleIs DEF Num
    <3>2. win[d].stored \in Nat /\ due'[d] = due[d] /\ due[d] \in Nat
      BY <1>1, <1>2, ViewsKnown
    <3> QED BY <1>6, <3>1, <3>2
  <2>2. ASSUME NEW d \in Views!Counter
        PROVE  /\ win'[d].stored \in Nat /\ due'[d] \in Nat
               /\ win'[d].stored - win[d].stored + Num(IsStoring(Views!Idle, d)) - Num(IsStoring(work[r], d))
                    <= due'[d] - due[d]
               /\ win'[d].stored - win[d].stored + Num(IsStoring(Views!Idle, d)) - Num(IsStoring(work[r], d))
                    >= due'[d] - due[d]
    <3>1. due'[d] - due[d] = 0
      BY <1>1, <1>2, ViewsKnown
    <3> QED BY <2>1, <3>1
  <2> QED BY <1>1, <1>2, <2>2, IdleIs, WindowsMove
<1> QED BY <1>7, <1>8, <1>9, <1>10, <1>11, <1>12 DEF ViewsIInv

LEMMA IncrementFailsKeeps == ASSUME ViewsIInv, NEW r \in Report, Views!IncrementFails(r) PROVE ViewsIInv'
<1>1. ViewsTypes /\ TasksFit /\ WorkIsFinite /\ FlushFits /\ Untouched /\ OneStore /\ WindowsCounted
  BY DEF ViewsIInv
<1>2. /\ work[r].pc = "store" /\ win' = win /\ blame' = blame \cup {"dropped"}
      /\ work' = [work EXCEPT ![r] = Views!Idle] /\ running' = running
      /\ day' = day /\ daily' = daily /\ flush' = flush /\ life' = life
      /\ beacons' = beacons /\ views' = views /\ viewers' = viewers /\ due' = due
  BY DEF Views!IncrementFails, Views!End, Views!ghosts
<1>3. work[r].pc # "idle" /\ beacons # 0
  BY <1>1, <1>2, Busy
<1>4. ~IsViewing(work[r]) /\ ~IsMeeting(work[r])
  BY <1>2 DEF IsViewing, IsMeeting
<1>5. blame \subseteq blame' /\ "dropped" \in blame' /\ blame' \subseteq Reasons
  BY <1>1, <1>2 DEF ViewsTypes, Reasons
<1>6. FlushFits' /\ VisitorsCounted' /\ ViewsCounted' /\ WorkIsFinite'
  BY <1>2, <1>4, <1>5, IdleIs, Aside
<1>7. TasksFit'
  BY <1>1, <1>2, IdleIs, TasksMove
<1>8. ViewsTypes'
  BY <1>1, <1>2, <1>5, IdleIs DEF ViewsTypes
<1>9. Untouched'
  BY <1>2, <1>3 DEF Untouched
<1>10. OneStore'
  <2>1. Views!Store' = Views!Store
    BY <1>2 DEF Views!Store
  <2>2. \A x \in Report : work'[x].pc \in {"mark", "uv"} => work[x].pc \in {"mark", "uv"}
    BY <1>1, <1>2, IdleIs DEF ViewsTypes
  <2> QED BY <1>1, <1>2, <1>5, <2>1, <2>2 DEF OneStore
<1>11. WindowsCounted'
  <2>1. ASSUME NEW d \in Views!Counter
        PROVE  /\ win'[d].stored \in Nat /\ due'[d] \in Nat
               /\ win'[d].stored - win[d].stored + Num(IsStoring(Views!Idle, d)) - Num(IsStoring(work[r], d))
                    <= due'[d] - due[d]
    <3>1. Num(IsStoring(Views!Idle, d)) = 0 /\ Num(IsStoring(work[r], d)) \in Nat
      BY IdleIs DEF Num
    <3>2. /\ win'[d].stored = win[d].stored /\ win[d].stored \in Nat /\ due'[d] = due[d] /\ due[d] \in Nat
      BY <1>1, <1>2, ViewsKnown
    <3> QED BY <3>1, <3>2
  <2> QED BY <1>1, <1>2, <1>5, <2>1, IdleIs, WindowsMove
<1> QED BY <1>6, <1>7, <1>8, <1>9, <1>10, <1>11 DEF ViewsIInv

LEMMA WindowEndsKeeps ==
  ASSUME ViewsIInv, NEW c \in Views!Counter, NEW v \in Visitor, Views!WindowEnds(c, v) PROVE ViewsIInv'
<1>1. ViewsTypes /\ TasksFit /\ WorkIsFinite /\ FlushFits /\ Untouched /\ OneStore
      /\ VisitorsCounted /\ ViewsCounted /\ WindowsCounted
  BY DEF ViewsIInv
<1>2. /\ v \in win[c].redis \cup win[c].memory
      /\ win' = [win EXCEPT ![c].redis = @ \ {v}, ![c].memory = @ \ {v}]
      /\ work' = work /\ running' = running /\ blame' = blame
      /\ day' = day /\ daily' = daily /\ flush' = flush /\ life' = life
      /\ beacons' = beacons /\ views' = views /\ viewers' = viewers /\ due' = due
  BY DEF Views!WindowEnds, Views!ghosts
<1>3. beacons # 0
  BY <1>1, <1>2 DEF Untouched
<1>4. /\ win' \in [Views!Counter -> WinRec]
      /\ \A d \in Views!Counter : /\ win'[d].stored = win[d].stored
                                  /\ win'[d].redis \subseteq win[d].redis /\ win'[d].memory \subseteq win[d].memory
  <2>1. win \in [Views!Counter -> WinRec] /\ win[c] \in WinRec
    BY <1>1 DEF ViewsTypes
  <2>2. LET w == [win[c] EXCEPT !.redis = win[c].redis \ {v}, !.memory = win[c].memory \ {v}]
        IN  /\ w \in WinRec /\ w.stored = win[c].stored
            /\ w.redis = win[c].redis \ {v} /\ w.memory = win[c].memory \ {v}
    BY <2>1 DEF WinRec
  <2>3. PICK w : w = [win[c] EXCEPT !.redis = win[c].redis \ {v}, !.memory = win[c].memory \ {v}]
    OBVIOUS
  <2>4. /\ w \in WinRec /\ w.stored = win[c].stored
        /\ w.redis = win[c].redis \ {v} /\ w.memory = win[c].memory \ {v}
    BY <2>2, <2>3
  <2>5. win' = [win EXCEPT ![c] = w]
    BY <1>2, <2>1, <2>3
  <2> QED BY <2>1, <2>4, <2>5
<1>5. /\ Viewing' = Viewing /\ Meeting' = Meeting /\ \A d \in Views!Counter : Storing(d)' = Storing(d)
      /\ \A s \in Views!Stores : Base(s)' = Base(s)
  BY <1>2 DEF Viewing, Meeting, Storing, Base, IsViewing, IsMeeting, IsStoring
<1>6. VisitorsCounted' /\ ViewsCounted'
  BY <1>1, <1>2, <1>5, PagesKeep
<1>7. WindowsCounted'
  BY <1>1, <1>2, <1>4, <1>5, WindowsKeep
<1>8. ViewsTypes'
  BY <1>1, <1>2, <1>4 DEF ViewsTypes
<1>9. TasksFit' /\ WorkIsFinite' /\ FlushFits'
  BY <1>1, <1>2, <1>5 DEF TasksFit, WorkIsFinite, FlushFits
<1>10. Untouched'
  BY <1>2, <1>3 DEF Untouched
<1>11. OneStore'
  <2>1. Views!Store' = Views!Store
    BY <1>2 DEF Views!Store
  <2>2. /\ \A d \in Views!Counter : win[d].redis = {} => win'[d].redis = {}
        /\ \A d \in Views!Counter : win[d].memory = {} => win'[d].memory = {}
    BY <1>4
  <2> QED BY <1>1, <1>2, <2>1, <2>2 DEF OneStore
<1> QED BY <1>6, <1>7, <1>8, <1>9, <1>10, <1>11 DEF ViewsIInv

\* The counters of a store grow while its mark stands.
LEMMA DayGrows ==
  ASSUME ViewsTypes, FlushFits, flush' = flush, daily' = daily, day' \in [Views!Stores -> DayRec],
         \A s \in Views!Stores : day'[s].folded = day[s].folded /\ AtMost(day[s].at, day'[s].at)
  PROVE  /\ FlushFits' /\ \A s \in Views!Stores : Base(s)' = Base(s) /\ Base(s).uv \in Nat
         /\ \A s \in Views!Stores : day'[s].at.uv \in Nat /\ day'[s].at.pv \in Nat
         /\ Total \in Nat /\ Total' \in Nat
         /\ Total' = Total + (day'["redis"].at.pv - day["redis"].at.pv)
                           + (day'["memory"].at.pv - day["memory"].at.pv)
<1>1. \A s \in Views!Stores : day'[s].at.uv \in Nat /\ day'[s].at.pv \in Nat
  BY DEF DayRec, Views!Pair
<1>2. \A s \in Views!Stores : /\ Base(s)' = Base(s) /\ Base(s).uv \in Nat
                              /\ Base(s).pv \in Nat /\ Base(s).pv <= day[s].at.pv
                              /\ Unfolded(s) \in Nat /\ Unfolded(s) = day[s].at.pv - Base(s).pv
  BY BaseFits DEF Base
<1>3. FlushFits'
  <2>1. ASSUME NEW a \in Views!Pair, NEW s \in Views!Stores, AtMost(a, day[s].at)
        PROVE  AtMost(a, day'[s].at)
    BY <1>1, <2>1, ViewsKnown DEF AtMost, Views!Pair
  <2>2. \A s \in Views!Stores : AtMost(day'[s].folded, day'[s].at)
    BY <2>1, ViewsKnown DEF FlushFits
  <2>3. flush.pc \in {"write", "mark"} => /\ AtMost(day'[flush.from].folded, flush.snap)
                                          /\ AtMost(flush.snap, day'[flush.from].at)
    <3>1. flush.from \in Views!Stores /\ flush.snap \in Views!Pair
      BY DEF ViewsTypes, FlushRec
    <3> QED BY <2>1, <3>1 DEF FlushFits
  <2>4. flush.pc = "write" => flush.delta = Views!Minus(flush.snap, day'[flush.from].folded)
    <3>1. flush.from \in Views!Stores
      BY DEF ViewsTypes, FlushRec
    <3> QED BY <3>1 DEF FlushFits
  <2> QED BY <2>2, <2>3, <2>4 DEF FlushFits
<1>4. \A s \in Views!Stores : /\ Unfolded(s)' = day'[s].at.pv - Base(s).pv
                              /\ day[s].at.pv \in Nat /\ day[s].at.pv <= day'[s].at.pv
  BY <1>2, ViewsKnown DEF Unfolded, AtMost
<1>5. Total' = daily.pv + Unfolded("redis")' + Unfolded("memory")'
  BY DEF Total
<1>6. Total = daily.pv + Unfolded("redis") + Unfolded("memory") /\ daily.pv \in Nat /\ Total \in Nat
  BY BaseFits, ViewsKnown
<1>7. /\ Total' \in Nat
      /\ Total' = Total + (day'["redis"].at.pv - day["redis"].at.pv) + (day'["memory"].at.pv - day["memory"].at.pv)
  <2>1. "redis" \in Views!Stores /\ "memory" \in Views!Stores
    BY DEF Views!Stores
  <2> DEFINE x == day["redis"].at.pv  y == day["memory"].at.pv  p == day'["redis"].at.pv  q == day'["memory"].at.pv
             a == Base("redis").pv  b == Base("memory").pv
  <2>2. /\ x \in Nat /\ y \in Nat /\ p \in Nat /\ q \in Nat /\ a \in Nat /\ b \in Nat
        /\ x <= p /\ y <= q /\ a <= x /\ b <= y
        /\ Unfolded("redis") = x - a /\ Unfolded("memory") = y - b
        /\ Unfolded("redis")' = p - a /\ Unfolded("memory")' = q - b
    BY <1>1, <1>2, <1>4, <2>1
  <2>3. Total = daily.pv + (x - a) + (y - b) /\ Total' = daily.pv + (p - a) + (q - b)
    BY <1>5, <1>6, <2>2
  <2> HIDE DEF x, y, p, q, a, b
  <2>4. Total' \in Nat /\ Total' = Total + (p - x) + (q - y)
    BY <1>6, <2>2, <2>3
  <2> QED BY <2>4 DEF x, y, p, q
<1> QED BY <1>1, <1>2, <1>3, <1>6, <1>7

\* A visitor is marked.
LEMMA OneMarked ==
  ASSUME IsFiniteSet(viewers), NEW S \in SUBSET viewers, NEW v
  PROVE  /\ IsFiniteSet(S) /\ Cardinality(S) \in Nat /\ Cardinality(S \cup {v}) \in Nat
         /\ Cardinality(S \cup {v}) = Cardinality(S) + Num(v \notin S)
<1>1. IsFiniteSet(S)
  BY FS_Subset
<1>2. /\ IsFiniteSet(S \cup {v}) /\ v \in S \cup {v}
      /\ S \ {v} = (S \cup {v}) \ {v}
  BY <1>1, FS_AddElement
<1>3. /\ Cardinality(S) \in Nat /\ Cardinality(S \cup {v}) \in Nat
      /\ v \notin S => Cardinality(S \cup {v}) = Cardinality(S) + 1
      /\ v \in S => S \cup {v} = S
  BY <1>1, <1>2, FS_AddElement, FS_CardinalityType
<1> QED BY <1>1, <1>3 DEF Num

\* A request moves that stores no window.
LEMMA WindowsAside ==
  ASSUME ViewsTypes, WorkIsFinite, WindowsCounted, blame \subseteq blame', win' = win, due' = due,
         NEW r \in Report, NEW j \in Work, work' = [work EXCEPT ![r] = j],
         \A d : ~IsStoring(j, d) /\ ~IsStoring(work[r], d)
  PROVE  WindowsCounted'
<1>1. \A c \in Views!Counter : /\ Num(IsStoring(j, c)) = 0 /\ Num(IsStoring(work[r], c)) = 0
                               /\ win'[c].stored \in Nat /\ win[c].stored \in Nat
                               /\ due'[c] \in Nat /\ due[c] \in Nat
  BY ViewsKnown DEF Num
<1>2. \A c \in Views!Counter :
         /\ win'[c].stored - win[c].stored + Num(IsStoring(j, c)) - Num(IsStoring(work[r], c)) <= due'[c] - due[c]
         /\ win'[c].stored - win[c].stored + Num(IsStoring(j, c)) - Num(IsStoring(work[r], c)) >= due'[c] - due[c]
  BY <1>1
<1> QED BY <1>1, <1>2, WindowsMove

LEMMA CountVisitorKeeps == ASSUME ViewsIInv, NEW r \in Report, Views!CountVisitor(r) PROVE ViewsIInv'
<1>1. ViewsTypes /\ TasksFit /\ WorkIsFinite /\ FlushFits /\ Untouched /\ OneStore
      /\ VisitorsCounted /\ ViewsCounted /\ WindowsCounted
  BY DEF ViewsIInv
<1>2. /\ work[r].pc = "uv" /\ day' = [day EXCEPT !["redis"].at.uv = @ + 1]
      /\ work' = [work EXCEPT ![r] = Views!Idle] /\ running' = running
      /\ daily' = daily /\ flush' = flush /\ life' = life /\ win' = win /\ blame' = blame
      /\ beacons' = beacons /\ views' = views /\ viewers' = viewers /\ due' = due
  BY DEF Views!CountVisitor, Views!End, Views!ghosts
<1>3. work[r].pc # "idle" /\ beacons # 0
  BY <1>1, <1>2, Busy
<1>4. ~IsViewing(work[r]) /\ IsMeeting(work[r]) /\ \A d : ~IsStoring(work[r], d)
  BY <1>2 DEF IsViewing, IsMeeting, IsStoring
<1>5. /\ day' \in [Views!Stores -> DayRec] /\ day'["memory"] = day["memory"]
      /\ day'["redis"].at.uv = day["redis"].at.uv + 1 /\ day'["redis"].at.pv = day["redis"].at.pv
      /\ day'["redis"].seen = day["redis"].seen /\ day'["redis"].folded = day["redis"].folded
  <2>1. /\ day \in [Views!Stores -> DayRec] /\ day["redis"] \in DayRec
        /\ day["redis"].at \in Views!Pair /\ "redis" \in Views!Stores /\ "memory" \in Views!Stores
    BY <1>1, ViewsKnown DEF ViewsTypes, Views!Stores
  <2>2. PICK a : a = [day["redis"].at EXCEPT !.uv = day["redis"].at.uv + 1]
    OBVIOUS
  <2>3. a \in Views!Pair /\ a.uv = day["redis"].at.uv + 1 /\ a.pv = day["redis"].at.pv
    BY <2>1, <2>2 DEF Views!Pair
  <2>4. PICK d : d = [day["redis"] EXCEPT !.at = a]
    OBVIOUS
  <2>5. d \in DayRec /\ d.at = a /\ d.seen = day["redis"].seen /\ d.folded = day["redis"].folded
    BY <2>1, <2>3, <2>4 DEF DayRec
  <2>6. day' = [day EXCEPT !["redis"] = d]
    BY <1>2, <2>1, <2>2, <2>4
  <2> QED BY <2>1, <2>3, <2>5, <2>6
<1>6. \A s \in Views!Stores : day'[s].folded = day[s].folded /\ AtMost(day[s].at, day'[s].at)
  BY <1>1, <1>5, ViewsKnown DEF AtMost, Views!Stores
<1>7. /\ FlushFits' /\ \A s \in Views!Stores : Base(s)' = Base(s) /\ Base(s).uv \in Nat
      /\ Total \in Nat /\ Total' \in Nat /\ Total' = Total
  <2>1. day["redis"].at.pv \in Nat /\ day["memory"].at.pv \in Nat
    BY <1>1, ViewsKnown DEF Views!Stores
  <2> QED BY <1>1, <1>2, <1>5, <1>6, <2>1, DayGrows
<1>8. /\ Num(IsViewing(Views!Idle)) = 0 /\ Num(IsViewing(work[r])) = 0
      /\ Num(IsMeeting(Views!Idle)) = 0 /\ Num(IsMeeting(work[r])) = 1
  BY <1>4, IdleIs DEF Num
<1>9. /\ WorkIsFinite' /\ Cardinality(Viewing) \in Nat /\ Cardinality(Meeting) \in Nat
      /\ Cardinality(Viewing') = Cardinality(Viewing) + 0 - 0
      /\ Cardinality(Meeting') = Cardinality(Meeting) + 0 - 1 /\ Cardinality(Meeting') \in Nat
      /\ \A x \in Report \ {r} : work'[x] = work[x]
  BY <1>1, <1>2, <1>8, IdleIs, WorkMoves
<1>10. Views!Store' = Views!Store /\ ("switched" \notin blame => Views!Store = "redis")
  BY <1>1, <1>2 DEF Views!Store, OneStore
<1>11. VisitorsCounted'
  <2>1. \A s \in Views!Stores : day'[s].seen = day[s].seen
    BY <1>5 DEF Views!Stores
  <2>2. "switched" \notin blame =>
           /\ Cardinality(day[Views!Store].seen) \in Nat
           /\ Cardinality(day'[Views!Store].seen) = Cardinality(day[Views!Store].seen)
           /\ day'[Views!Store].at.uv + Cardinality(Meeting') = day[Views!Store].at.uv + Cardinality(Meeting)
    <3>1. day["redis"].at.uv \in Nat
      BY <1>1, ViewsKnown DEF Views!Stores
    <3>2. Cardinality(day["redis"].seen) \in Nat
      BY <1>1, OneMarked DEF VisitorsCounted, Views!Stores
    <3> QED BY <1>5, <1>9, <1>10, <3>1, <3>2
  <2>3. \A x \in Viewing : x \in Viewing' /\ work'[x].who = work[x].who
    BY <1>4, <1>9 DEF Viewing, IsViewing
  <2>4. Base(Views!Store)' = Base(Views!Store)
    BY <1>7, <1>10, StoreIs DEF Views!Stores
  <2> QED BY <1>1, <1>2, <1>10, <2>1, <2>2, <2>3, <2>4 DEF VisitorsCounted
<1>12. ViewsCounted'
  <2>1. Views!Store \in Views!Stores /\ day'[Views!Store].at.pv = day[Views!Store].at.pv
    BY <1>5, StoreIs DEF Views!Stores
  <2> QED BY <1>1, <1>2, <1>7, <1>9, <1>10, <2>1 DEF ViewsCounted
<1>13. WindowsCounted'
  BY <1>1, <1>2, <1>4, IdleIs, WindowsAside
<1>14. TasksFit'
  BY <1>1, <1>2, IdleIs, TasksMove
<1>15. ViewsTypes'
  BY <1>1, <1>2, <1>5, IdleIs DEF ViewsTypes
<1>16. Untouched'
  BY <1>2, <1>3 DEF Untouched
<1>17. OneStore'
  <2>1. \A x \in Report : work'[x].pc \in {"mark", "uv"} => work[x].pc \in {"mark", "uv"}
    BY <1>1, <1>2, IdleIs DEF ViewsTypes
  <2>2. "switched" \notin blame => running
    BY <1>1, <1>2 DEF OneStore
  <2> QED BY <1>1, <1>2, <1>5, <1>10, <2>1, <2>2 DEF OneStore
<1> QED BY <1>7, <1>9, <1>11, <1>12, <1>13, <1>14, <1>15, <1>16, <1>17 DEF ViewsIInv

\* A page view in Redis: the first pipeline leaves the number of visitors to the second.
LEMMA RedisCounts ==
  ASSUME NEW d \in DayRec, NEW v \in Visitor
  PROVE  LET e == [d EXCEPT !.seen = @ \cup {v}, !.at.pv = @ + 1]
         IN  /\ e \in DayRec /\ e.seen = d.seen \cup {v} /\ e.folded = d.folded
             /\ e.at.uv = d.at.uv /\ e.at.pv = d.at.pv + 1
<1>1. d.at \in Views!Pair /\ d.at.uv \in Nat /\ d.at.pv \in Nat /\ d.seen \subseteq Visitor
  BY DEF DayRec, Views!Pair
<1>2. PICK a : a = [d.at EXCEPT !.pv = d.at.pv + 1]
  OBVIOUS
<1>3. a \in Views!Pair /\ a.uv = d.at.uv /\ a.pv = d.at.pv + 1
  BY <1>1, <1>2 DEF Views!Pair
<1>4. [d EXCEPT !.seen = @ \cup {v}, !.at.pv = @ + 1] = [d EXCEPT !.seen = d.seen \cup {v}, !.at = a]
  BY <1>2 DEF DayRec
<1>5. LET e == [d EXCEPT !.seen = d.seen \cup {v}, !.at = a]
      IN  e \in DayRec /\ e.seen = d.seen \cup {v} /\ e.folded = d.folded /\ e.at = a
  BY <1>1, <1>3 DEF DayRec
<1> QED BY <1>3, <1>4, <1>5

\* One in memory, which counts both at once.
LEMMA MemoryCounts ==
  ASSUME NEW d \in DayRec, NEW v \in Visitor
  PROVE  LET e == [d EXCEPT !.seen = @ \cup {v},
                            !.at = [uv |-> @.uv + (IF Views!Fresh(v, d.seen) THEN 1 ELSE 0), pv |-> @.pv + 1]]
         IN  /\ e \in DayRec /\ e.seen = d.seen \cup {v} /\ e.folded = d.folded
             /\ e.at.uv = d.at.uv + Num(v \notin d.seen) /\ e.at.pv = d.at.pv + 1
<1>1. d.at \in Views!Pair /\ d.at.uv \in Nat /\ d.at.pv \in Nat /\ d.seen \subseteq Visitor
  BY DEF DayRec, Views!Pair
<1>2. PICK n : n = IF Views!Fresh(v, d.seen) THEN 1 ELSE 0
  OBVIOUS
<1>3. n \in Nat /\ n = Num(v \notin d.seen)
  BY <1>2 DEF Num, Views!Fresh
<1>4. PICK a : a = [uv |-> d.at.uv + n, pv |-> d.at.pv + 1]
  OBVIOUS
<1>5. a \in Views!Pair /\ a.uv = d.at.uv + n /\ a.pv = d.at.pv + 1
  <2>1. d.at.uv + n \in Nat /\ d.at.pv + 1 \in Nat
    BY <1>1, <1>3
  <2> QED BY <1>4, <2>1 DEF Views!Pair
<1>6. [d EXCEPT !.seen = @ \cup {v},
                !.at = [uv |-> @.uv + (IF Views!Fresh(v, d.seen) THEN 1 ELSE 0), pv |-> @.pv + 1]]
         = [d EXCEPT !.seen = d.seen \cup {v}, !.at = a]
  BY <1>2, <1>4 DEF DayRec
<1>7. LET e == [d EXCEPT !.seen = d.seen \cup {v}, !.at = a]
      IN  e \in DayRec /\ e.seen = d.seen \cup {v} /\ e.folded = d.folded /\ e.at = a
  BY <1>1, <1>5 DEF DayRec
<1> QED BY <1>3, <1>5, <1>6, <1>7

LEMMA MarkPageKeeps == ASSUME ViewsIInv, NEW r \in Report, Views!MarkPage(r) PROVE ViewsIInv'
<1> DEFINE v == work[r].who
           j == IF Views!Fresh(v, day["redis"].seen) THEN [pc |-> "uv", kind |-> work[r].kind, who |-> v]
                ELSE Views!Idle
<1>1. ViewsTypes /\ TasksFit /\ WorkIsFinite /\ FlushFits /\ Untouched /\ OneStore
      /\ VisitorsCounted /\ ViewsCounted /\ WindowsCounted
  BY DEF ViewsIInv
<1>2. /\ work[r].pc = "mark" /\ work[r].kind = "page" /\ Views!RedisPage(v) /\ running' = running
      /\ IF Views!Fresh(v, day["redis"].seen) THEN Views!Goto(r, "uv") ELSE Views!End(r)
      /\ daily' = daily /\ flush' = flush /\ life' = life /\ win' = win /\ blame' = blame
      /\ beacons' = beacons /\ views' = views /\ viewers' = viewers /\ due' = due
  BY DEF Views!MarkPage, Views!ghosts
<1>3. work[r].pc # "idle" /\ beacons # 0
  BY <1>1, <1>2, Busy
<1>4. v \in Visitor /\ v \in viewers /\ "redis" \in Views!Stores /\ "memory" \in Views!Stores
  BY <1>1, <1>2, <1>3, ViewsKnown DEF WorkRec, TasksFit, Views!Stores
<1>5. /\ j \in Work /\ work' = [work EXCEPT ![r] = j] /\ j.pc \in {"idle", "uv"}
      /\ j.pc = "uv" => j.kind = "page" /\ j.who = v
  <2>1. CASE Views!Fresh(v, day["redis"].seen)
    BY <1>1, <1>2, <1>3, <2>1, GotoIs
  <2>2. CASE ~Views!Fresh(v, day["redis"].seen)
    BY <1>2, <2>2, IdleIs DEF Views!End
  <2> QED BY <2>1, <2>2
<1>6. /\ IsViewing(work[r]) /\ ~IsMeeting(work[r]) /\ ~IsViewing(j)
      /\ IsMeeting(j) <=> v \notin day["redis"].seen
      /\ \A d : ~IsStoring(j, d) /\ ~IsStoring(work[r], d)
  BY <1>2, <1>5, IdleIs DEF IsViewing, IsMeeting, IsStoring, Views!Fresh
<1> HIDE DEF j, v
<1>7. /\ day' \in [Views!Stores -> DayRec] /\ day'["memory"] = day["memory"]
      /\ day'["redis"].at.uv = day["redis"].at.uv /\ day'["redis"].at.pv = day["redis"].at.pv + 1
      /\ day'["redis"].seen = day["redis"].seen \cup {v} /\ day'["redis"].folded = day["redis"].folded
  <2>1. day \in [Views!Stores -> DayRec] /\ day["redis"] \in DayRec
    BY <1>1, <1>4 DEF ViewsTypes
  <2>2. PICK e : e = [day["redis"] EXCEPT !.seen = @ \cup {v}, !.at.pv = @ + 1]
    OBVIOUS
  <2>3. /\ e \in DayRec /\ e.seen = day["redis"].seen \cup {v} /\ e.folded = day["redis"].folded
        /\ e.at.uv = day["redis"].at.uv /\ e.at.pv = day["redis"].at.pv + 1
    BY <1>4, <2>1, <2>2, RedisCounts
  <2>4. day' = [day EXCEPT !["redis"] = e]
    BY <1>2, <1>4, <2>1, <2>2 DEF Views!RedisPage
  <2> QED BY <1>4, <2>1, <2>3, <2>4
<1>8. \A s \in Views!Stores : day'[s].folded = day[s].folded /\ AtMost(day[s].at, day'[s].at)
  BY <1>1, <1>7, ViewsKnown DEF AtMost, Views!Stores
<1>9. /\ FlushFits' /\ \A s \in Views!Stores : Base(s)' = Base(s) /\ Base(s).uv \in Nat
      /\ Total \in Nat /\ Total' \in Nat /\ Total' = Total + 1
  <2>1. day["redis"].at.pv \in Nat /\ day["memory"].at.pv \in Nat
    BY <1>1, <1>4, ViewsKnown
  <2> QED BY <1>1, <1>2, <1>7, <1>8, <2>1, DayGrows
<1>10. /\ Num(IsViewing(j)) = 0 /\ Num(IsViewing(work[r])) = 1 /\ Num(IsMeeting(work[r])) = 0
       /\ Num(IsMeeting(j)) = Num(v \notin day["redis"].seen) /\ Num(v \notin day["redis"].seen) \in Nat
  BY <1>6 DEF Num
<1>11. /\ WorkIsFinite' /\ Cardinality(Viewing) \in Nat /\ Cardinality(Meeting) \in Nat
       /\ Cardinality(Viewing') = Cardinality(Viewing) + 0 - 1 /\ Cardinality(Viewing') \in Nat
       /\ Cardinality(Meeting') = Cardinality(Meeting) + Num(v \notin day["redis"].seen) - 0
       /\ \A x \in Report \ {r} : work'[x] = work[x]
  BY <1>1, <1>5, <1>10, WorkMoves
<1>12. Views!Store' = Views!Store /\ ("switched" \notin blame => Views!Store = "redis")
  BY <1>1, <1>2 DEF Views!Store, OneStore
<1>13. VisitorsCounted'
  <2>1. \A s \in Views!Stores : day'[s].seen \subseteq viewers
    BY <1>1, <1>4, <1>7 DEF Views!Stores, VisitorsCounted
  <2> DEFINE m == Num(v \notin day["redis"].seen)
  <2>2. /\ Cardinality(day["redis"].seen) \in Nat /\ m \in Nat /\ day["redis"].at.uv \in Nat
        /\ Cardinality(day'["redis"].seen) = Cardinality(day["redis"].seen) + m
    <3>1. IsFiniteSet(viewers) /\ day["redis"].seen \in SUBSET viewers
      BY <1>1, <1>4 DEF VisitorsCounted
    <3>2. day["redis"].at.uv \in Nat
      BY <1>1, <1>4, ViewsKnown
    <3>3. /\ Cardinality(day["redis"].seen) \in Nat
          /\ Cardinality(day["redis"].seen \cup {v}) = Cardinality(day["redis"].seen) + m
      BY <3>1, OneMarked, Zenon DEF m
    <3> QED BY <1>7, <1>10, <3>2, <3>3
  <2> HIDE DEF m
  <2>3. "switched" \notin blame' =>
           /\ day'[Views!Store].at.uv + Cardinality(Meeting') <= Cardinality(day'[Views!Store].seen)
           /\ blame' \cap {"unmarked", "retold"} = {} => daily'.uv <= Base(Views!Store)'.uv
    <3>1. Base(Views!Store)' = Base(Views!Store)
      BY <1>9, <1>12, StoreIs
    <3>2. "switched" \notin blame => day["redis"].at.uv + Cardinality(Meeting) <= Cardinality(day["redis"].seen)
      BY <1>1, <1>12 DEF VisitorsCounted
    <3>3. "switched" \notin blame /\ blame \cap {"unmarked", "retold"} = {} => daily.uv <= Base(Views!Store).uv
      BY <1>1 DEF VisitorsCounted
    <3>4. Cardinality(Meeting') = Cardinality(Meeting) + m
      BY <1>10, <1>11, <2>2 DEF m
    <3>5. "switched" \notin blame => day'["redis"].at.uv + Cardinality(Meeting') <= Cardinality(day'["redis"].seen)
      BY <1>7, <1>11, <2>2, <3>2, <3>4
    <3> QED BY <1>2, <1>12, <3>1, <3>3, <3>5
  <2>4. blame' = {} => day'[Views!Store].at.uv + Cardinality(Meeting') = Cardinality(day'[Views!Store].seen)
    <3>1. blame = {} => day["redis"].at.uv + Cardinality(Meeting) = Cardinality(day["redis"].seen)
      BY <1>1, <1>12 DEF VisitorsCounted
    <3>2. Cardinality(Meeting') = Cardinality(Meeting) + m
      BY <1>10, <1>11, <2>2 DEF m
    <3>3. blame = {} => day'["redis"].at.uv + Cardinality(Meeting') = Cardinality(day'["redis"].seen)
      BY <1>7, <1>11, <2>2, <3>1, <3>2
    <3> QED BY <1>2, <1>12, <3>3
  <2>5. blame' = {} => \A x \in viewers : x \in day'[Views!Store].seen \/ \E y \in Viewing' : work'[y].who = x
    <3> SUFFICES ASSUME blame = {}, NEW x \in viewers, x \notin day'["redis"].seen
                 PROVE  \E y \in Viewing' : work'[y].who = x
      BY <1>2, <1>12
    <3>1. x \notin day["redis"].seen /\ x # v
      BY <1>7
    <3>2. PICK y \in Viewing : work[y].who = x
      BY <1>1, <1>12, <3>1 DEF VisitorsCounted
    <3>3. y # r
      BY <3>1, <3>2 DEF v
    <3> QED BY <1>11, <3>2, <3>3 DEF Viewing, IsViewing
  <2> QED BY <1>1, <1>2, <1>12, <2>1, <2>3, <2>4, <2>5 DEF VisitorsCounted
<1>14. ViewsCounted'
  <2>1. blame = {} => day'[Views!Store].at.pv = day[Views!Store].at.pv + 1 /\ day[Views!Store].at.pv \in Nat
    BY <1>1, <1>4, <1>7, <1>12, ViewsKnown
  <2>2. Total' + Cardinality(Viewing') = Total + Cardinality(Viewing)
    BY <1>9, <1>11
  <2>3. blame = {} => day'[Views!Store].at.pv + Cardinality(Viewing') = day[Views!Store].at.pv + Cardinality(Viewing)
    BY <1>11, <2>1
  <2> QED BY <1>1, <1>2, <1>12, <2>2, <2>3 DEF ViewsCounted
<1>15. WindowsCounted'
  BY <1>1, <1>2, <1>5, <1>6, WindowsAside
<1>16. TasksFit'
  BY <1>1, <1>2, <1>4, <1>5, TasksMove
<1>17. ViewsTypes'
  BY <1>1, <1>2, <1>5, <1>7 DEF ViewsTypes
<1>18. Untouched'
  BY <1>2, <1>3 DEF Untouched
<1>19. OneStore'
  <2>1. "switched" \notin blame => running
    BY <1>1, <1>2 DEF OneStore
  <2> QED BY <1>1, <1>2, <1>7, <1>12, <2>1 DEF OneStore
<1> QED BY <1>9, <1>11, <1>13, <1>14, <1>15, <1>16, <1>17, <1>18, <1>19 DEF ViewsIInv

LEMMA PageFailsKeeps == ASSUME ViewsIInv, NEW r \in Report, Views!PageFails(r) PROVE ViewsIInv'
<1> DEFINE v == work[r].who
           first == work[r].pc = "mark"
<1>1. ViewsTypes /\ TasksFit /\ WorkIsFinite /\ FlushFits /\ Untouched /\ OneStore
      /\ VisitorsCounted /\ ViewsCounted /\ WindowsCounted
  BY DEF ViewsIInv
<1>2. /\ work[r].pc \in {"mark", "uv"} /\ work[r].kind = "page" /\ running' = FALSE
      /\ work' = [work EXCEPT ![r] = Views!Idle]
      /\ daily' = daily /\ flush' = flush /\ life' = life /\ win' = win
      /\ beacons' = beacons /\ views' = views /\ viewers' = viewers /\ due' = due
  BY DEF Views!PageFails, Views!Lost, Views!End, Views!ghosts
<1>3. work[r].pc # "idle" /\ beacons # 0
  BY <1>1, <1>2, Busy
<1>4. v \in Visitor /\ v \in viewers /\ "redis" \in Views!Stores /\ "memory" \in Views!Stores
  BY <1>1, <1>2, <1>3, ViewsKnown DEF WorkRec, TasksFit, Views!Stores
<1>5. /\ (IsViewing(work[r]) <=> first) /\ (IsMeeting(work[r]) <=> ~first)
      /\ \A d : ~IsStoring(work[r], d)
  BY <1>2 DEF IsViewing, IsMeeting, IsStoring
<1>6. PICK ran \in BOOLEAN, thrown \in BOOLEAN :
        /\ day' = [redis |-> IF ~ran THEN day["redis"]
                             ELSE IF first THEN [day["redis"] EXCEPT !.seen = @ \cup {v}, !.at.pv = @ + 1]
                             ELSE [day["redis"] EXCEPT !.at.uv = @ + 1],
                   memory |-> IF ~thrown THEN day["memory"]
                              ELSE [day["memory"] EXCEPT
                                      !.seen = @ \cup {v},
                                      !.at = [uv |-> @.uv + (IF Views!Fresh(v, day["memory"].seen) THEN 1 ELSE 0),
                                              pv |-> @.pv + 1]]]
        /\ blame' = blame \cup Views!Switched
                      \cup (IF thrown /\ (ran \/ ~first) THEN {"retold"} ELSE {})
                      \cup (IF ~thrown /\ (~ran \/ first) THEN {"dropped"} ELSE {})
  BY DEF Views!PageFails
<1>kept. PICK kept :
        kept = IF ~ran THEN day["redis"]
               ELSE IF first THEN [day["redis"] EXCEPT !.seen = @ \cup {v}, !.at.pv = @ + 1]
               ELSE [day["redis"] EXCEPT !.at.uv = @ + 1]
  OBVIOUS
<1>told. PICK told :
        told = IF ~thrown THEN day["memory"]
               ELSE [day["memory"] EXCEPT
                       !.seen = @ \cup {v},
                       !.at = [uv |-> @.uv + (IF Views!Fresh(v, day["memory"].seen) THEN 1 ELSE 0),
                               pv |-> @.pv + 1]]
  OBVIOUS
<1>day. day' = [redis |-> kept, memory |-> told]
  BY <1>6, <1>kept, <1>told, Zenon
<1> HIDE DEF v, first
<1>7. day["redis"] \in DayRec /\ day["memory"] \in DayRec
  BY <1>1, <1>4, ViewsKnown
<1>8. /\ kept \in DayRec /\ kept.folded = day["redis"].folded
      /\ kept.seen \in {day["redis"].seen, day["redis"].seen \cup {v}}
      /\ kept.at.uv \in Nat /\ kept.at.uv >= day["redis"].at.uv
      /\ kept.at.pv = day["redis"].at.pv + Num(ran /\ first)
  <2>1. day["redis"].at \in Views!Pair /\ day["redis"].at.uv \in Nat /\ day["redis"].at.pv \in Nat
    BY <1>1, <1>4, ViewsKnown
  <2>2. CASE ~ran
    <3>1. kept = day["redis"] /\ Num(ran /\ first) = 0
      BY <1>kept, <2>2 DEF Num
    <3> QED BY <1>7, <2>1, <3>1
  <2>3. CASE ran /\ first
    <3>1. kept = [day["redis"] EXCEPT !.seen = @ \cup {v}, !.at.pv = @ + 1] /\ Num(ran /\ first) = 1
      BY <1>kept, <2>3 DEF Num
    <3>2. /\ kept \in DayRec /\ kept.seen = day["redis"].seen \cup {v} /\ kept.folded = day["redis"].folded
          /\ kept.at.uv = day["redis"].at.uv /\ kept.at.pv = day["redis"].at.pv + 1
      BY <1>4, <1>7, <3>1, RedisCounts
    <3> QED BY <2>1, <3>1, <3>2
  <2>4. CASE ran /\ ~first
    <3>1. PICK a : a = [day["redis"].at EXCEPT !.uv = day["redis"].at.uv + 1]
      OBVIOUS
    <3>2. a \in Views!Pair /\ a.uv = day["redis"].at.uv + 1 /\ a.pv = day["redis"].at.pv
      BY <2>1, <3>1 DEF Views!Pair
    <3>3. kept = [day["redis"] EXCEPT !.at = a] /\ Num(ran /\ first) = 0
      BY <1>kept, <2>4, <3>1 DEF Num
    <3>4. LET d == [day["redis"] EXCEPT !.at = a]
          IN  d \in DayRec /\ d.at = a /\ d.seen = day["redis"].seen /\ d.folded = day["redis"].folded
      BY <1>7, <3>2 DEF DayRec
    <3> QED BY <2>1, <3>2, <3>3, <3>4
  <2> QED BY <2>2, <2>3, <2>4
<1>9. /\ told \in DayRec /\ told.folded = day["memory"].folded
      /\ told.seen \in {day["memory"].seen, day["memory"].seen \cup {v}}
      /\ told.at.uv \in Nat /\ told.at.uv >= day["memory"].at.uv
      /\ told.at.pv = day["memory"].at.pv + Num(thrown)
  <2>1. day["memory"].at.uv \in Nat /\ day["memory"].at.pv \in Nat /\ Num(v \notin day["memory"].seen) \in Nat
    BY <1>1, <1>4, ViewsKnown DEF Num
  <2>2. CASE ~thrown
    <3>1. told = day["memory"] /\ Num(thrown) = 0
      BY <1>told, <2>2 DEF Num
    <3> QED BY <1>7, <2>1, <3>1
  <2>3. CASE thrown
    <3>1. /\ Num(thrown) = 1
          /\ told = [day["memory"] EXCEPT
                       !.seen = @ \cup {v},
                       !.at = [uv |-> @.uv + (IF Views!Fresh(v, day["memory"].seen) THEN 1 ELSE 0),
                               pv |-> @.pv + 1]]
      BY <1>told, <2>3 DEF Num
    <3>2. /\ told \in DayRec /\ told.seen = day["memory"].seen \cup {v} /\ told.folded = day["memory"].folded
          /\ told.at.uv = day["memory"].at.uv + Num(v \notin day["memory"].seen)
          /\ told.at.pv = day["memory"].at.pv + 1
      BY <1>4, <1>7, <3>1, MemoryCounts
    <3> QED BY <2>1, <3>1, <3>2
  <2> QED BY <2>2, <2>3
<1>10. day' \in [Views!Stores -> DayRec] /\ day'["redis"] = kept /\ day'["memory"] = told
  BY <1>day, <1>8, <1>9 DEF Views!Stores
<1>11. \A s \in Views!Stores : day'[s].folded = day[s].folded /\ AtMost(day[s].at, day'[s].at)
  <2>1. /\ day["redis"].at.uv \in Nat /\ day["redis"].at.pv \in Nat /\ Num(ran /\ first) \in Nat
        /\ day["memory"].at.uv \in Nat /\ day["memory"].at.pv \in Nat /\ Num(thrown) \in Nat
    BY <1>1, <1>4, ViewsKnown DEF Num
  <2>2. AtMost(day["redis"].at, kept.at) /\ AtMost(day["memory"].at, told.at)
    BY <1>8, <1>9, <2>1 DEF AtMost
  <2> QED BY <1>8, <1>9, <1>10, <2>2 DEF Views!Stores
<1>12. /\ FlushFits' /\ Total \in Nat /\ Total' \in Nat
       /\ Total' = Total + Num(ran /\ first) + Num(thrown)
  <2>1. /\ day["redis"].at.pv \in Nat /\ Num(ran /\ first) \in Nat
        /\ day["memory"].at.pv \in Nat /\ Num(thrown) \in Nat
    BY <1>1, <1>4, ViewsKnown DEF Num
  <2>2. /\ FlushFits' /\ Total \in Nat /\ Total' \in Nat
        /\ Total' = Total + (kept.at.pv - day["redis"].at.pv) + (told.at.pv - day["memory"].at.pv)
    BY <1>1, <1>2, <1>10, <1>11, DayGrows
  <2> QED BY <1>8, <1>9, <2>1, <2>2
<1>13. blame \subseteq blame' /\ Views!Switched \subseteq blame' /\ blame' \subseteq Reasons
  BY <1>1, <1>6 DEF Views!Switched, ViewsTypes, Reasons
<1>14. "switched" \in blame'
  BY <1>2, <1>13, Switching
<1>15. /\ Num(IsViewing(work[r])) = Num(first) /\ Num(IsViewing(Views!Idle)) = 0 /\ Num(first) \in Nat
  BY <1>5, IdleIs DEF Num
<1>16. /\ WorkIsFinite' /\ Cardinality(Viewing) \in Nat /\ Cardinality(Viewing') \in Nat
       /\ Cardinality(Viewing') = Cardinality(Viewing) + 0 - Num(first)
  BY <1>1, <1>2, <1>15, IdleIs, WorkMoves
<1>17. ViewsCounted'
  <2>1. blame' \cap {"unmarked", "retold"} = {} => Total' + Cardinality(Viewing') <= views
    <3> SUFFICES ASSUME blame' \cap {"unmarked", "retold"} = {}
                 PROVE  Total' + Cardinality(Viewing') <= views
      OBVIOUS
    <3>1. ~(thrown /\ (ran \/ ~first))
      BY <1>6
    <3>2. /\ Num(ran /\ first) \in Nat /\ Num(thrown) \in Nat
          /\ Num(ran /\ first) + Num(thrown) <= Num(first)
      BY <3>1 DEF Num
    <3>3. Total + Cardinality(Viewing) <= views /\ views \in Nat
      BY <1>1, <1>13 DEF ViewsCounted, ViewsTypes
    <3> QED BY <1>12, <1>15, <1>16, <3>2, <3>3
  <2>2. blame' \cap {"dropped", "forgotten", "skipped"} = {} => Total' + Cardinality(Viewing') >= views
    <3> SUFFICES ASSUME blame' \cap {"dropped", "forgotten", "skipped"} = {}
                 PROVE  Total' + Cardinality(Viewing') >= views
      OBVIOUS
    <3>1. ~(~thrown /\ (~ran \/ first))
      BY <1>6
    <3>2. /\ Num(ran /\ first) \in Nat /\ Num(thrown) \in Nat
          /\ Num(ran /\ first) + Num(thrown) >= Num(first)
      BY <3>1 DEF Num
    <3>3. Total + Cardinality(Viewing) >= views /\ views \in Nat
      BY <1>1, <1>13 DEF ViewsCounted, ViewsTypes
    <3> QED BY <1>12, <1>15, <1>16, <3>2, <3>3
  <2>3. blame' # {}
    BY <1>14
  <2> QED BY <1>2, <2>1, <2>2, <2>3 DEF ViewsCounted
<1>18. VisitorsCounted'
  <2>1. \A s \in Views!Stores : day'[s].seen \subseteq viewers
    BY <1>1, <1>4, <1>8, <1>9, <1>10 DEF Views!Stores, VisitorsCounted
  <2>2. blame' # {}
    BY <1>14
  <2> QED BY <1>1, <1>2, <1>14, <2>1, <2>2 DEF VisitorsCounted
<1>19. WindowsCounted'
  BY <1>1, <1>2, <1>5, <1>13, IdleIs, WindowsAside
<1>20. TasksFit'
  BY <1>1, <1>2, IdleIs, TasksMove
<1>21. ViewsTypes'
  BY <1>1, <1>2, <1>10, <1>13, IdleIs DEF ViewsTypes
<1>22. Untouched'
  BY <1>2, <1>3 DEF Untouched
<1>23. OneStore'
  BY <1>14 DEF OneStore
<1> QED BY <1>12, <1>16, <1>17, <1>18, <1>19, <1>20, <1>21, <1>22, <1>23 DEF ViewsIInv

LEMMA BeaconKeeps ==
  ASSUME ViewsIInv, NEW r \in Report, NEW k \in Views!Kind, NEW v \in Visitor, Views!Beacon(r, k, v)
  PROVE  ViewsIInv'
<1>1. ViewsTypes /\ TasksFit /\ WorkIsFinite /\ FlushFits /\ Untouched /\ OneStore
      /\ VisitorsCounted /\ ViewsCounted /\ WindowsCounted
  BY DEF ViewsIInv
<1>2. /\ work[r] = Views!Idle /\ beacons' = beacons + 1 /\ beacons \in Nat /\ running \in BOOLEAN
      /\ running' = running /\ daily' = daily /\ flush' = flush /\ life' = life /\ blame' = blame
      /\ IF k = "page" THEN views' = views + 1 /\ viewers' = viewers \cup {v}
         ELSE views' = views /\ viewers' = viewers
  BY <1>1 DEF Views!Beacon, ViewsTypes
<1>3. /\ ~IsViewing(work[r]) /\ ~IsMeeting(work[r]) /\ \A d : ~IsStoring(work[r], d)
      /\ Num(IsViewing(work[r])) = 0 /\ Num(IsMeeting(work[r])) = 0
  BY <1>2, IdleIs
<1>4. /\ views \in Nat /\ viewers \subseteq Visitor /\ IsFiniteSet(viewers)
      /\ views' \in Nat /\ viewers' \subseteq Visitor /\ IsFiniteSet(viewers') /\ viewers \subseteq viewers'
      /\ k = "page" => v \in viewers'
  BY <1>1, <1>2, FS_AddElement DEF ViewsTypes, VisitorsCounted
<1>5. Untouched'
  BY <1>2 DEF Untouched
<1>6. Views!Store' = Views!Store
  BY <1>2 DEF Views!Store
<1>7. CASE k # "page" /\ running
  <2> DEFINE j == [pc |-> "mark", kind |-> k, who |-> v]
  <2>1. work' = [work EXCEPT ![r] = j] /\ day' = day /\ win' = win /\ due' = due
    BY <1>7 DEF Views!Beacon
  <2>2. j \in Work /\ j.pc = "mark" /\ j.kind = k
    BY MoveIs
  <2> HIDE DEF j
  <2>3. ~IsViewing(j) /\ ~IsMeeting(j) /\ \A d : ~IsStoring(j, d)
    BY <1>7, <2>2 DEF IsViewing, IsMeeting, IsStoring
  <2>4. FlushFits' /\ VisitorsCounted' /\ ViewsCounted' /\ WorkIsFinite'
    BY <1>2, <1>3, <1>7, <2>1, <2>2, <2>3, Aside
  <2>5. WindowsCounted'
    BY <1>1, <1>2, <1>3, <2>1, <2>2, <2>3, WindowsAside
  <2>6. TasksFit'
    BY <1>1, <1>4, <1>7, <2>1, <2>2, TasksMove
  <2>7. ViewsTypes'
    BY <1>1, <1>2, <1>4, <2>1, <2>2 DEF ViewsTypes
  <2>8. OneStore'
    BY <1>1, <1>2, <1>6, <1>7, <2>1 DEF OneStore
  <2> QED BY <1>5, <2>4, <2>5, <2>6, <2>7, <2>8 DEF ViewsIInv
<1>8. CASE k # "page" /\ ~running
  <2>1. k \in Views!Counter /\ Views!MemoryWindow(r, k, v) /\ day' = day
    BY <1>8 DEF Views!Beacon, Views!Kind
  <2>2. "switched" \notin blame' => win[k].redis = {}
    BY <1>1, <1>2, <1>8, <2>1 DEF OneStore
  <2>3. /\ win' \in [Views!Counter -> WinRec] /\ due' \in [Views!Counter -> Nat]
        /\ \A d \in Views!Counter : win'[d].redis = win[d].redis
        /\ WindowsCounted'
    BY <1>1, <1>2, <1>3, <2>1, <2>2, MemoryWindowMoves
  <2>4. PICK j \in Work : /\ work' = [work EXCEPT ![r] = j] /\ j.pc \in {"idle", "store"}
                          /\ (j.pc = "store" => j.kind # "page") /\ ~IsViewing(j) /\ ~IsMeeting(j)
    BY <1>1, <1>2, <1>3, <2>1, <2>2, MemoryWindowMoves
  <2>5. FlushFits' /\ VisitorsCounted' /\ ViewsCounted' /\ WorkIsFinite'
    BY <1>2, <1>3, <1>8, <2>1, <2>4, Aside
  <2>6. TasksFit'
    BY <1>1, <1>4, <2>4, TasksMove
  <2>7. ViewsTypes'
    BY <1>1, <1>2, <1>4, <2>1, <2>3, <2>4 DEF ViewsTypes
  <2>8. OneStore'
    <3>1. \A x \in Report : work'[x].pc \in {"mark", "uv"} => work[x].pc \in {"mark", "uv"}
      BY <1>1, <2>4 DEF ViewsTypes
    <3> QED BY <1>1, <1>2, <1>6, <1>8, <2>1, <2>3, <3>1 DEF OneStore
  <2> QED BY <1>5, <2>3, <2>5, <2>6, <2>7, <2>8 DEF ViewsIInv
<1>9. CASE k = "page" /\ running
  <2> DEFINE j == [pc |-> "mark", kind |-> k, who |-> v]
  <2>1. work' = [work EXCEPT ![r] = j] /\ day' = day /\ win' = win /\ due' = due
    BY <1>9 DEF Views!Beacon
  <2>2. j \in Work /\ j.pc = "mark" /\ j.kind = k /\ j.who = v
    BY MoveIs
  <2> HIDE DEF j
  <2>3. IsViewing(j) /\ ~IsMeeting(j) /\ \A d : ~IsStoring(j, d)
    BY <1>9, <2>2 DEF IsViewing, IsMeeting, IsStoring
  <2>4. Num(IsViewing(j)) = 1 /\ Num(IsMeeting(j)) = 0
    BY <2>3 DEF Num
  <2>5. /\ WorkIsFinite' /\ Cardinality(Viewing) \in Nat /\ Cardinality(Meeting) \in Nat
        /\ Cardinality(Viewing') = Cardinality(Viewing) + 1 - 0
        /\ Cardinality(Meeting') = Cardinality(Meeting) + 0 - 0
        /\ work'[r] = j /\ \A x \in Report \ {r} : work'[x] = work[x]
    BY <1>1, <1>3, <2>1, <2>2, <2>4, WorkMoves
  <2>6. FlushFits' /\ \A s \in Views!Stores : Base(s)' = Base(s)
    BY <1>1, <1>2, <2>1 DEF FlushFits, Base
  <2>7. Total' = Total /\ Total \in Nat
    BY <1>1, <1>2, <2>1, <2>6, BaseFits DEF Total, Unfolded, Views!Stores
  <2>8. ViewsCounted'
    <3>1. views' = views + 1 /\ day[Views!Store].at.pv \in Nat
      BY <1>1, <1>2, <1>9, StoreIs, ViewsKnown
    <3> QED BY <1>1, <1>2, <1>4, <1>6, <2>1, <2>5, <2>7, <3>1 DEF ViewsCounted
  <2>9. VisitorsCounted'
    <3>1. \A s \in Views!Stores : day[s].seen \subseteq viewers'
      BY <1>1, <1>4 DEF VisitorsCounted
    <3>2. Cardinality(Meeting') = Cardinality(Meeting)
      BY <2>5
    <3>3. Base(Views!Store)' = Base(Views!Store)
      BY <1>6, <2>6, StoreIs
    <3>4. blame = {} => \A x \in viewers' : x \in day[Views!Store].seen \/ \E y \in Viewing' : work'[y].who = x
      <4> SUFFICES ASSUME blame = {}, NEW x \in viewers', x \notin day[Views!Store].seen
                   PROVE  \E y \in Viewing' : work'[y].who = x
        OBVIOUS
      <4>1. CASE x = v
        BY <2>2, <2>3, <2>5, <4>1 DEF Viewing, IsViewing
      <4>2. CASE x # v
        <5>1. PICK y \in Viewing : work[y].who = x
          BY <1>1, <1>2, <1>9, <4>2 DEF VisitorsCounted
        <5>2. y # r
          BY <1>3, <5>1 DEF Viewing
        <5> QED BY <2>5, <5>1, <5>2 DEF Viewing, IsViewing
      <4> QED BY <4>1, <4>2
    <3> QED BY <1>1, <1>2, <1>4, <1>6, <2>1, <3>1, <3>2, <3>3, <3>4 DEF VisitorsCounted
  <2>10. WindowsCounted'
    BY <1>1, <1>2, <1>3, <2>1, <2>2, <2>3, WindowsAside
  <2>11. TasksFit'
    BY <1>1, <1>4, <1>9, <2>1, <2>2, TasksMove
  <2>12. ViewsTypes'
    BY <1>1, <1>2, <1>4, <2>1, <2>2 DEF ViewsTypes
  <2>13. OneStore'
    BY <1>1, <1>2, <1>6, <1>9, <2>1 DEF OneStore
  <2> QED BY <1>5, <2>5, <2>6, <2>8, <2>9, <2>10, <2>11, <2>12, <2>13 DEF ViewsIInv
<1>10. CASE k = "page" /\ ~running
  <2>1. Views!MemoryPage(v) /\ work' = work /\ win' = win /\ due' = due
    BY <1>10 DEF Views!Beacon
  <2> DEFINE m == Num(v \notin day["memory"].seen)
  <2>2. /\ day' \in [Views!Stores -> DayRec] /\ day'["redis"] = day["redis"]
        /\ day'["memory"].at.uv = day["memory"].at.uv + m /\ day'["memory"].at.pv = day["memory"].at.pv + 1
        /\ day'["memory"].seen = day["memory"].seen \cup {v} /\ day'["memory"].folded = day["memory"].folded
        /\ m \in Nat /\ day["memory"].at.uv \in Nat /\ day["memory"].at.pv \in Nat /\ day["redis"].at.pv \in Nat
    <3>1. /\ day \in [Views!Stores -> DayRec] /\ day["memory"] \in DayRec
          /\ "memory" \in Views!Stores /\ "redis" \in Views!Stores
      BY <1>1 DEF ViewsTypes, Views!Stores
    <3>2. PICK e : e = [day["memory"] EXCEPT
                          !.seen = @ \cup {v},
                          !.at = [uv |-> @.uv + (IF Views!Fresh(v, day["memory"].seen) THEN 1 ELSE 0),
                                  pv |-> @.pv + 1]]
      OBVIOUS
    <3>3. /\ e \in DayRec /\ e.seen = day["memory"].seen \cup {v} /\ e.folded = day["memory"].folded
          /\ e.at.uv = day["memory"].at.uv + m /\ e.at.pv = day["memory"].at.pv + 1
      BY <3>1, <3>2, MemoryCounts
    <3>4. day' = [day EXCEPT !["memory"] = e]
      BY <2>1, <3>1, <3>2 DEF Views!MemoryPage
    <3>5. m \in Nat /\ day["memory"].at.uv \in Nat /\ day["memory"].at.pv \in Nat /\ day["redis"].at.pv \in Nat
      BY <1>1, <3>1, ViewsKnown DEF Num
    <3> QED BY <3>1, <3>3, <3>4, <3>5
  <2>3. \A s \in Views!Stores : day'[s].folded = day[s].folded /\ AtMost(day[s].at, day'[s].at)
    BY <1>1, <2>2, ViewsKnown DEF AtMost, Views!Stores
  <2>4. /\ FlushFits' /\ \A s \in Views!Stores : Base(s)' = Base(s)
        /\ Total \in Nat /\ Total' \in Nat /\ Total' = Total + 1
    BY <1>1, <1>2, <2>2, <2>3, DayGrows
  <2>5. Viewing' = Viewing /\ Meeting' = Meeting /\ \A d \in Views!Counter : Storing(d)' = Storing(d)
    BY <2>1 DEF Viewing, Meeting, Storing, IsViewing, IsMeeting, IsStoring
  <2>6. WorkIsFinite' /\ Cardinality(Viewing) \in Nat /\ Cardinality(Meeting) \in Nat
    BY <1>1, <2>5, FS_CardinalityType DEF WorkIsFinite
  <2>7. Views!Store = "memory"
    BY <1>10 DEF Views!Store
  <2>8. ViewsCounted'
    <3>1. views' = views + 1
      BY <1>2, <1>10
    <3> QED BY <1>1, <1>2, <1>4, <1>6, <2>2, <2>4, <2>5, <2>6, <2>7, <3>1 DEF ViewsCounted
  <2>9. VisitorsCounted'
    <3>1. \A s \in Views!Stores : day'[s].seen \subseteq viewers'
      BY <1>1, <1>4, <1>10, <2>2 DEF VisitorsCounted, Views!Stores
    <3>2. /\ Cardinality(day["memory"].seen) \in Nat
          /\ Cardinality(day'["memory"].seen) = Cardinality(day["memory"].seen) + m
      <4>1. IsFiniteSet(viewers) /\ day["memory"].seen \in SUBSET viewers
        BY <1>1 DEF VisitorsCounted, Views!Stores
      <4>2. /\ Cardinality(day["memory"].seen) \in Nat
            /\ Cardinality(day["memory"].seen \cup {v}) = Cardinality(day["memory"].seen) + m
        BY <4>1, OneMarked, Zenon DEF m
      <4> QED BY <2>2, <4>2
    <3> HIDE DEF m
    <3>3. Base("memory")' = Base("memory")
      BY <2>4 DEF Views!Stores
    <3>4. "switched" \notin blame => day'["memory"].at.uv + Cardinality(Meeting') <= Cardinality(day'["memory"].seen)
      <4>1. "switched" \notin blame => day["memory"].at.uv + Cardinality(Meeting) <= Cardinality(day["memory"].seen)
        BY <1>1, <2>7 DEF VisitorsCounted
      <4> QED BY <2>2, <2>5, <2>6, <3>2, <4>1
    <3>5. blame = {} => day'["memory"].at.uv + Cardinality(Meeting') = Cardinality(day'["memory"].seen)
      <4>1. blame = {} => day["memory"].at.uv + Cardinality(Meeting) = Cardinality(day["memory"].seen)
        BY <1>1, <2>7 DEF VisitorsCounted
      <4> QED BY <2>2, <2>5, <2>6, <3>2, <4>1
    <3>6. "switched" \notin blame /\ blame \cap {"unmarked", "retold"} = {} => daily.uv <= Base("memory").uv
      BY <1>1, <2>7 DEF VisitorsCounted
    <3>7. "switched" \notin blame /\ blame \cap {"unmarked", "retold"} = {} => daily'.uv <= Base("memory")'.uv
      BY <1>2, <3>3, <3>6
    <3>8. blame = {} => \A x \in viewers' : x \in day'["memory"].seen \/ \E y \in Viewing' : work'[y].who = x
      <4>1. blame = {} => \A x \in viewers : x \in day["memory"].seen \/ \E y \in Viewing : work[y].who = x
        BY <1>1, <2>7 DEF VisitorsCounted
      <4> QED BY <1>2, <1>10, <2>1, <2>2, <2>5, <4>1
    <3> QED BY <1>2, <1>4, <1>6, <2>7, <3>1, <3>4, <3>5, <3>7, <3>8 DEF VisitorsCounted
  <2>10. WindowsCounted'
    BY <1>1, <1>2, <2>1, <2>5, WindowsKeep
  <2>11. TasksFit'
    BY <1>1, <1>4, <2>1 DEF TasksFit
  <2>12. ViewsTypes'
    BY <1>1, <1>2, <1>4, <2>1, <2>2 DEF ViewsTypes
  <2>13. OneStore'
    BY <1>1, <1>2, <1>6, <1>10, <2>1, <2>2 DEF OneStore
  <2> QED BY <1>5, <2>4, <2>6, <2>8, <2>9, <2>10, <2>11, <2>12, <2>13 DEF ViewsIInv
<1> QED BY <1>2, <1>7, <1>8, <1>9, <1>10

\* Before the first beacon, which store is in use makes no difference.
LEMMA NothingYet == ASSUME ViewsTypes', Untouched', beacons' = 0 PROVE ViewsIInv'
<1>1. /\ \A s \in Views!Stores : day'[s] = Views!NoCounts
      /\ \A r \in Report : work'[r] = Views!Idle /\ work'[r].pc = "idle"
      /\ \A c \in Views!Counter : win'[c].redis = {} /\ win'[c].memory = {} /\ win'[c].stored = 0 /\ due'[c] = 0
      /\ daily' = Views!Zero /\ views' = 0 /\ viewers' = {} /\ flush'.pc \in {"idle", "read"}
  BY DEF Untouched, Views!Idle
<1>2. Viewing' = {} /\ Meeting' = {} /\ \A c \in Views!Counter : Storing(c)' = {}
  BY <1>1 DEF Viewing, Meeting, Storing, IsViewing, IsMeeting, IsStoring
<1>3. IsFiniteSet({}) /\ Cardinality({}) = 0
  BY FS_EmptySet
<1>4. WorkIsFinite'
  BY <1>2, <1>3 DEF WorkIsFinite
<1>5. TasksFit'
  BY <1>1 DEF TasksFit
<1>6. FlushFits'
  BY <1>1, PairsAre DEF FlushFits, AtMost
<1>7. OneStore'
  BY <1>1, PairsAre DEF OneStore, Views!Stores
<1>8. \A s \in Views!Stores : Base(s)' = Views!Zero
  BY <1>1, PairsAre DEF Base
<1>9. Views!Store' \in Views!Stores
  BY DEF Views!Store, Views!Stores
<1>10. VisitorsCounted'
  <2>1. /\ day'[Views!Store'].seen = {} /\ day'[Views!Store'].at.uv = 0
        /\ Base(Views!Store)'.uv = 0 /\ daily'.uv = 0
    BY <1>1, <1>8, <1>9, PairsAre
  <2>2. Cardinality(Meeting') = 0 /\ Cardinality(day'[Views!Store'].seen) = 0
    BY <1>2, <1>3, <2>1
  <2>3. \A s \in Views!Stores : day'[s].seen \subseteq viewers'
    BY <1>1, PairsAre
  <2> QED BY <1>1, <1>3, <2>1, <2>2, <2>3 DEF VisitorsCounted
<1>11. Total' = 0
  BY <1>1, <1>8, PairsAre DEF Total, Unfolded, Views!Stores
<1>12. ViewsCounted'
  BY <1>1, <1>2, <1>3, <1>9, <1>11, PairsAre DEF ViewsCounted
<1>13. WindowsCounted'
  BY <1>1, <1>2, <1>3 DEF WindowsCounted
<1> QED BY <1>4, <1>5, <1>6, <1>7, <1>10, <1>12, <1>13 DEF ViewsIInv

\* A step of the flush, of the process or of Redis that leaves every counter alone.
LEMMA CountersStay ==
  ASSUME ViewsIInv, blame \subseteq blame', blame' \subseteq Reasons, running' \in BOOLEAN,
         running' = running \/ "switched" \in blame' \/ beacons = 0,
         life' \in {"running", "flushing", "closing"}, flush' \in FlushRec,
         day' = day, daily' = daily, win' = win, due' = due, work' = work,
         beacons' = beacons, views' = views, viewers' = viewers,
         \A s \in Views!Stores : Base(s)' = Base(s), FlushFits',
         beacons = 0 => flush'.pc \in {"idle", "read"},
         "switched" \notin blame' => (flush'.pc \in {"write", "mark"} => flush'.from = Views!Store')
  PROVE  ViewsIInv'
<1>1. ViewsTypes /\ TasksFit /\ WorkIsFinite /\ FlushFits /\ Untouched /\ OneStore
      /\ VisitorsCounted /\ ViewsCounted /\ WindowsCounted
  BY DEF ViewsIInv
<1>2. ViewsTypes'
  BY <1>1 DEF ViewsTypes
<1>3. Untouched'
  BY <1>1 DEF Untouched
<1>4. CASE beacons = 0
  BY <1>2, <1>3, <1>4, NothingYet
<1>5. CASE beacons # 0
  <2>1. /\ Viewing' = Viewing /\ Meeting' = Meeting /\ \A c \in Views!Counter : Storing(c)' = Storing(c)
        /\ TasksFit' /\ WorkIsFinite'
    BY <1>1 DEF Viewing, Meeting, Storing, IsViewing, IsMeeting, IsStoring, TasksFit, WorkIsFinite
  <2>2. VisitorsCounted' /\ ViewsCounted'
    BY <1>1, <1>5, <2>1, PagesKeep
  <2>3. WindowsCounted'
    BY <1>1, <2>1, WindowsKeep
  <2>4. OneStore'
    BY <1>1, <1>5 DEF OneStore
  <2> QED BY <1>2, <1>3, <2>1, <2>2, <2>3, <2>4 DEF ViewsIInv
<1> QED BY <1>4, <1>5

\* Nothing is folded when nothing has grown.
LEMMA NoneGrown == \A s \in Views!Stores : day[s] = Views!NoCounts => Views!Delta(s) = Views!Zero
  BY DEF Views!Delta, Views!Minus, Views!NoCounts, Views!Zero

LEMMA StartsIdle ==
  ASSUME ViewsTypes, FlushFits, day' = day, flush.pc # "mark", flush'.pc \notin {"write", "mark"}
  PROVE  FlushFits' /\ \A s \in Views!Stores : Base(s)' = Base(s)
  BY DEF FlushFits, Base

\* What the flush reads of a store is what it will write.
LEMMA ReadIs ==
  ASSUME ViewsTypes, FlushFits, NEW s \in Views!Stores, day' = day, flush.pc # "mark",
         flush' = IF Views!Delta(s) = Views!Zero THEN Views!NoFlush
                  ELSE [pc |-> "write", from |-> s, snap |-> day[s].at, delta |-> Views!Delta(s)]
  PROVE  /\ flush' \in FlushRec /\ FlushFits' /\ \A x \in Views!Stores : Base(x)' = Base(x)
         /\ flush'.pc \in {"idle", "write"} /\ (flush'.pc = "write" => flush'.from = s)
         /\ day[s] = Views!NoCounts => flush'.pc = "idle"
<1>1. CASE Views!Delta(s) = Views!Zero
  BY <1>1, PairsAre, StartsIdle
<1>2. CASE Views!Delta(s) # Views!Zero
  <2>1. /\ day[s].at \in Views!Pair /\ day[s].folded \in Views!Pair
        /\ day[s].at.uv \in Nat /\ day[s].at.pv \in Nat /\ day[s].folded.uv \in Nat /\ day[s].folded.pv \in Nat
        /\ AtMost(day[s].folded, day[s].at)
    BY ViewsKnown DEF FlushFits
  <2>2. Views!Delta(s) \in Views!Pair
    <3>1. day[s].at.uv - day[s].folded.uv \in Nat /\ day[s].at.pv - day[s].folded.pv \in Nat
      BY <2>1 DEF AtMost
    <3> QED BY <3>1 DEF Views!Delta, Views!Minus, Views!Pair
  <2>3. flush' = [pc |-> "write", from |-> s, snap |-> day[s].at, delta |-> Views!Delta(s)]
    BY <1>2
  <2>4. /\ flush' \in FlushRec /\ flush'.pc = "write" /\ flush'.from = s /\ flush'.snap = day[s].at
        /\ flush'.delta = Views!Minus(day[s].at, day[s].folded)
    BY <2>1, <2>2, <2>3 DEF FlushRec, Views!Delta
  <2>5. \A x \in Views!Stores : Base(x)' = Base(x)
    BY <2>4 DEF Base
  <2>6. FlushFits'
    <3>1. AtMost(day[s].at, day[s].at)
      BY <2>1 DEF AtMost
    <3> QED BY <2>1, <2>4, <3>1 DEF FlushFits
  <2>7. day[s] # Views!NoCounts
    BY <1>2, NoneGrown
  <2> QED BY <2>4, <2>5, <2>6, <2>7
<1> QED BY <1>1, <1>2

\* The flush begins: Redis is read by a later step, memory by this one.
LEMMA BeginIs ==
  ASSUME ViewsTypes, FlushFits, Untouched, day' = day, running' = running, Views!Free, Views!Begin
  PROVE  /\ flush' \in FlushRec /\ FlushFits' /\ \A s \in Views!Stores : Base(s)' = Base(s)
         /\ beacons = 0 => flush'.pc \in {"idle", "read"}
         /\ flush'.pc \in {"write", "mark"} => flush'.from = Views!Store'
<1>1. flush.pc # "mark" /\ "memory" \in Views!Stores /\ Views!Store' = Views!Store
  BY DEF Views!Free, Views!Stores, Views!Store
<1>2. CASE running
  <2>1. flush' = [Views!NoFlush EXCEPT !.pc = "read"]
    BY <1>2 DEF Views!Begin
  <2>2. LET f == [Views!NoFlush EXCEPT !.pc = "read"] IN f \in FlushRec /\ f.pc = "read"
    BY PairsAre DEF FlushRec
  <2> QED BY <1>1, <2>1, <2>2, StartsIdle
<1>3. CASE ~running
  <2>1. flush' = IF Views!Delta("memory") = Views!Zero THEN Views!NoFlush
                 ELSE [pc |-> "write", from |-> "memory", snap |-> day["memory"].at, delta |-> Views!Delta("memory")]
    BY <1>3 DEF Views!Begin
  <2>2. /\ flush' \in FlushRec /\ FlushFits' /\ \A x \in Views!Stores : Base(x)' = Base(x)
        /\ flush'.pc \in {"idle", "write"} /\ (flush'.pc = "write" => flush'.from = "memory")
        /\ day["memory"] = Views!NoCounts => flush'.pc = "idle"
    BY <1>1, <2>1, ReadIs
  <2>3. beacons = 0 => day["memory"] = Views!NoCounts
    BY <1>1 DEF Untouched
  <2>4. Views!Store = "memory"
    BY <1>3 DEF Views!Store
  <2> QED BY <1>1, <2>2, <2>3, <2>4
<1> QED BY <1>2, <1>3

LEMMA FlushKeeps == ASSUME ViewsIInv, Views!Flush PROVE ViewsIInv'
<1>1. ViewsTypes /\ FlushFits /\ Untouched
  BY DEF ViewsIInv
<1>2. /\ Views!Free /\ Views!Begin /\ running' = running /\ day' = day /\ daily' = daily /\ win' = win /\ life' = life
      /\ due' = due /\ work' = work /\ beacons' = beacons /\ views' = views /\ viewers' = viewers /\ blame' = blame
  BY DEF Views!Flush, Views!ghosts
<1>3. blame \subseteq Reasons /\ running \in BOOLEAN /\ life \in {"running", "flushing", "closing"}
  BY <1>1 DEF ViewsTypes
<1> QED BY <1>1, <1>2, <1>3, BeginIs, CountersStay

LEMMA ShutdownKeeps == ASSUME ViewsIInv, Views!Shutdown PROVE ViewsIInv'
<1>1. ViewsTypes /\ FlushFits /\ Untouched /\ OneStore
  BY DEF ViewsIInv
<1>2. /\ (Views!Free /\ Views!Begin) \/ flush' = flush
      /\ life' \in {"running", "flushing", "closing"}
      /\ running' = running /\ day' = day /\ daily' = daily /\ win' = win
      /\ due' = due /\ work' = work /\ beacons' = beacons /\ views' = views /\ viewers' = viewers /\ blame' = blame
  BY DEF Views!Shutdown
<1>3. blame \subseteq Reasons /\ running \in BOOLEAN
  BY <1>1 DEF ViewsTypes
<1>4. CASE Views!Free /\ Views!Begin
  BY <1>1, <1>2, <1>3, <1>4, BeginIs, CountersStay
<1>5. CASE flush' = flush
  <2>1. /\ flush' \in FlushRec /\ FlushFits' /\ \A s \in Views!Stores : Base(s)' = Base(s)
        /\ beacons = 0 => flush'.pc \in {"idle", "read"}
    BY <1>1, <1>2, <1>5 DEF ViewsTypes, FlushFits, Base, Untouched
  <2>2. "switched" \notin blame' => (flush'.pc \in {"write", "mark"} => flush'.from = Views!Store')
    BY <1>1, <1>2, <1>5 DEF OneStore, Views!Store
  <2> QED BY <1>2, <1>3, <2>1, <2>2, CountersStay
<1> QED BY <1>2, <1>4, <1>5

LEMMA ReadCountersKeeps == ASSUME ViewsIInv, Views!ReadCounters PROVE ViewsIInv'
<1>1. ViewsTypes /\ FlushFits /\ Untouched /\ OneStore
  BY DEF ViewsIInv
<1>2. /\ flush.pc = "read" /\ running' = running /\ day' = day /\ daily' = daily /\ win' = win /\ life' = life
      /\ flush' = IF Views!Delta("redis") = Views!Zero THEN Views!NoFlush
                  ELSE [pc |-> "write", from |-> "redis", snap |-> day["redis"].at, delta |-> Views!Delta("redis")]
      /\ due' = due /\ work' = work /\ beacons' = beacons /\ views' = views /\ viewers' = viewers /\ blame' = blame
  BY DEF Views!ReadCounters, Views!ghosts
<1>3. /\ blame \subseteq Reasons /\ running \in BOOLEAN /\ life \in {"running", "flushing", "closing"}
      /\ "redis" \in Views!Stores /\ Views!Store' = Views!Store
  BY <1>1, <1>2 DEF ViewsTypes, Views!Stores, Views!Store
<1>4. /\ flush' \in FlushRec /\ FlushFits' /\ \A x \in Views!Stores : Base(x)' = Base(x)
      /\ flush'.pc \in {"idle", "write"} /\ (flush'.pc = "write" => flush'.from = "redis")
      /\ day["redis"] = Views!NoCounts => flush'.pc = "idle"
  BY <1>1, <1>2, <1>3, ReadIs
<1>5. beacons = 0 => day["redis"] = Views!NoCounts
  BY <1>1, <1>3 DEF Untouched
<1>6. "switched" \notin blame /\ ~running => day["redis"] = Views!NoCounts
  BY <1>1 DEF OneStore
<1>7. "switched" \notin blame' => (flush'.pc \in {"write", "mark"} => flush'.from = Views!Store')
  BY <1>2, <1>3, <1>4, <1>6 DEF Views!Store
<1>8. beacons = 0 => flush'.pc \in {"idle", "read"}
  BY <1>4, <1>5
<1> QED BY <1>2, <1>3, <1>4, <1>7, <1>8, CountersStay

\* When Redis is lost the store changes, unless it had before or nothing was counted.
LEMMA LosingIs ==
  ASSUME ViewsTypes, Views!Lost, blame \subseteq blame', Views!Switched \subseteq blame'
  PROVE  running' \in BOOLEAN /\ (running' = running \/ "switched" \in blame' \/ beacons = 0)
<1>1. running' = FALSE /\ running \in BOOLEAN /\ beacons \in Nat
  BY DEF Views!Lost, ViewsTypes
<1>2. running /\ beacons > 0 => "switched" \in blame'
  BY DEF Views!Switched
<1>3. beacons > 0 \/ beacons = 0
  BY <1>1
<1> QED BY <1>1, <1>2, <1>3

LEMMA ReadFailsKeeps == ASSUME ViewsIInv, Views!ReadFails PROVE ViewsIInv'
<1>1. ViewsTypes /\ FlushFits
  BY DEF ViewsIInv
<1>2. /\ flush.pc = "read" /\ Views!Lost /\ day' = day /\ daily' = daily /\ win' = win /\ life' = life
      /\ flush' = Views!NoFlush /\ blame' = blame \cup Views!Switched
      /\ due' = due /\ work' = work /\ beacons' = beacons /\ views' = views /\ viewers' = viewers
  BY DEF Views!ReadFails, Views!ghosts
<1>3. /\ blame \subseteq blame' /\ Views!Switched \subseteq blame' /\ blame' \subseteq Reasons
      /\ life \in {"running", "flushing", "closing"}
  BY <1>1, <1>2 DEF ViewsTypes, Views!Switched, Reasons
<1>4. running' \in BOOLEAN /\ (running' = running \/ "switched" \in blame' \/ beacons = 0)
  BY <1>1, <1>2, <1>3, LosingIs
<1>5. FlushFits' /\ \A s \in Views!Stores : Base(s)' = Base(s)
  BY <1>1, <1>2, PairsAre, StartsIdle
<1> QED BY <1>2, <1>3, <1>4, <1>5, PairsAre, CountersStay

LEMMA RedisLostKeeps == ASSUME ViewsIInv, Views!RedisLost PROVE ViewsIInv'
<1>1. ViewsTypes /\ FlushFits /\ Untouched /\ OneStore
  BY DEF ViewsIInv
<1>2. /\ running /\ Views!Lost /\ day' = day /\ daily' = daily /\ win' = win /\ life' = life
      /\ flush' = flush /\ blame' = blame \cup Views!Switched
      /\ due' = due /\ work' = work /\ beacons' = beacons /\ views' = views /\ viewers' = viewers
  BY DEF Views!RedisLost, Views!ghosts
<1>3. /\ blame \subseteq blame' /\ Views!Switched \subseteq blame' /\ blame' \subseteq Reasons
      /\ life \in {"running", "flushing", "closing"} /\ flush \in FlushRec
  BY <1>1, <1>2 DEF ViewsTypes, Views!Switched, Reasons
<1>4. running' \in BOOLEAN /\ (running' = running \/ "switched" \in blame' \/ beacons = 0)
  BY <1>1, <1>2, <1>3, LosingIs
<1>5. FlushFits' /\ \A s \in Views!Stores : Base(s)' = Base(s)
  BY <1>1, <1>2 DEF FlushFits, Base
<1>6. beacons = 0 => flush'.pc \in {"idle", "read"}
  BY <1>1, <1>2 DEF Untouched
<1>7. "switched" \notin blame' => (flush'.pc \in {"write", "mark"} => flush'.from = Views!Store')
  <2>1. running' # running
    BY <1>2 DEF Views!Lost
  <2>2. "switched" \notin blame' => beacons = 0
    BY <1>4, <2>1
  <2> QED BY <1>6, <2>2
<1> QED BY <1>2, <1>3, <1>4, <1>5, <1>6, <1>7, CountersStay

\* A step that only folds what was counted.
LEMMA Folding ==
  ASSUME ViewsIInv, beacons # 0, blame \subseteq blame', blame' \subseteq Reasons, running' \in BOOLEAN,
         running' = running \/ "switched" \in blame', life' = life,
         win' = win, due' = due, work' = work, beacons' = beacons, views' = views, viewers' = viewers,
         day' \in [Views!Stores -> DayRec], daily' \in Views!Pair, flush' \in FlushRec, FlushFits',
         \A s \in Views!Stores : /\ day'[s].seen = day[s].seen /\ day'[s].at = day[s].at
                                 /\ day[s] = Views!NoCounts => day'[s] = Views!NoCounts,
         "switched" \notin blame' => (flush'.pc \in {"write", "mark"} => flush'.from = Views!Store'),
         blame' \cap {"unmarked", "retold"} = {} =>
           /\ Total' <= Total /\ ("switched" \notin blame' => daily'.uv <= Base(Views!Store)'.uv),
         "skipped" \notin blame' => Total' >= Total
  PROVE  ViewsIInv'
<1>1. ViewsTypes /\ TasksFit /\ WorkIsFinite /\ FlushFits /\ Untouched /\ OneStore
      /\ VisitorsCounted /\ ViewsCounted /\ WindowsCounted
  BY DEF ViewsIInv
<1>2. ViewsTypes'
  BY <1>1 DEF ViewsTypes
<1>3. Untouched'
  BY <1>1 DEF Untouched
<1>4. /\ Viewing' = Viewing /\ Meeting' = Meeting /\ \A c \in Views!Counter : Storing(c)' = Storing(c)
      /\ TasksFit' /\ WorkIsFinite'
  BY <1>1 DEF Viewing, Meeting, Storing, IsViewing, IsMeeting, IsStoring, TasksFit, WorkIsFinite
<1>5. WindowsCounted'
  BY <1>1, <1>4, WindowsKeep
<1>6. "switched" \notin blame' => Views!Store' = Views!Store /\ Views!Store \in Views!Stores
  BY StoreIs DEF Views!Store
<1>7. blame' = {} => blame = {} /\ "switched" \notin blame'
  OBVIOUS
<1>8. \A a : blame' \cap a = {} => blame \cap a = {}
  OBVIOUS
<1>9. ViewsCounted'
  <2>1. Total \in Nat /\ Total' \in Nat /\ Cardinality(Viewing) \in Nat /\ views \in Nat
    <3>1. \A s \in Views!Stores : Unfolded(s)' \in Nat
      <4> TAKE s \in Views!Stores
      <4>1. /\ day'[s].at.pv \in Nat /\ day'[s].folded.pv \in Nat /\ flush'.snap.pv \in Nat
            /\ AtMost(day'[s].folded, day'[s].at)
            /\ flush'.pc = "mark" /\ flush'.from = s => AtMost(flush'.snap, day'[s].at)
        BY DEF DayRec, FlushRec, Views!Pair, FlushFits
      <4>2. Base(s)' = IF flush'.pc = "mark" /\ flush'.from = s THEN flush'.snap ELSE day'[s].folded
        BY DEF Base
      <4>3. Base(s)'.pv \in Nat /\ Base(s)'.pv <= day'[s].at.pv
        BY <4>1, <4>2 DEF AtMost
      <4> QED BY <4>1, <4>3 DEF Unfolded
    <3>2. daily'.pv \in Nat
      BY DEF Views!Pair
    <3>3. Total' \in Nat
      BY <3>1, <3>2 DEF Total, Views!Stores
    <3> QED BY <1>1, <3>3, BaseFits, FS_CardinalityType DEF WorkIsFinite, ViewsTypes
  <2>2. blame' \cap {"unmarked", "retold"} = {} => Total' + Cardinality(Viewing') <= views
    <3>1. blame' \cap {"unmarked", "retold"} = {} => Total + Cardinality(Viewing) <= views
      BY <1>1, <1>8 DEF ViewsCounted
    <3> QED BY <1>4, <2>1, <3>1
  <2>3. blame' \cap {"dropped", "forgotten", "skipped"} = {} => Total' + Cardinality(Viewing') >= views
    <3>1. blame' \cap {"dropped", "forgotten", "skipped"} = {} => Total + Cardinality(Viewing) >= views
      BY <1>1, <1>8 DEF ViewsCounted
    <3>2. blame' \cap {"dropped", "forgotten", "skipped"} = {} => Total' >= Total
      OBVIOUS
    <3> QED BY <1>4, <2>1, <3>1, <3>2
  <2>4. blame' = {} => day'[Views!Store'].at.pv + Cardinality(Viewing') = views
    BY <1>1, <1>4, <1>6, <1>7 DEF ViewsCounted
  <2> QED BY <2>2, <2>3, <2>4 DEF ViewsCounted
<1>10. VisitorsCounted'
  <2>1. IsFiniteSet(viewers) /\ \A s \in Views!Stores : day'[s].seen \subseteq viewers
    BY <1>1 DEF VisitorsCounted
  <2>2. "switched" \notin blame' =>
          day'[Views!Store'].at.uv + Cardinality(Meeting') <= Cardinality(day'[Views!Store'].seen)
    BY <1>1, <1>4, <1>6 DEF VisitorsCounted
  <2>3. blame' = {} =>
          /\ day'[Views!Store'].at.uv + Cardinality(Meeting') = Cardinality(day'[Views!Store'].seen)
          /\ \A v \in viewers : v \in day'[Views!Store'].seen \/ \E r \in Viewing' : work'[r].who = v
    BY <1>1, <1>4, <1>6, <1>7 DEF VisitorsCounted
  <2> QED BY <2>1, <2>2, <2>3 DEF VisitorsCounted
<1>11. OneStore'
  <2>1. CASE "switched" \in blame'
    BY <2>1 DEF OneStore
  <2>2. CASE "switched" \notin blame'
    <3>1. "switched" \notin blame /\ running' = running
      BY <2>2
    <3>2. /\ running => day["memory"] = Views!NoCounts /\ \A c \in Views!Counter : win[c].memory = {}
          /\ ~running => /\ day["redis"] = Views!NoCounts /\ \A c \in Views!Counter : win[c].redis = {}
                         /\ \A r \in Report : work[r].pc \notin {"mark", "uv"}
      BY <1>1, <3>1 DEF OneStore
    <3>3. /\ day["memory"] = Views!NoCounts => day'["memory"] = Views!NoCounts
          /\ day["redis"] = Views!NoCounts => day'["redis"] = Views!NoCounts
      BY DEF Views!Stores
    <3> QED BY <2>2, <3>1, <3>2, <3>3 DEF OneStore
  <2> QED BY <2>1, <2>2
<1> QED BY <1>2, <1>3, <1>4, <1>5, <1>9, <1>10, <1>11 DEF ViewsIInv

\* A write is under way only after a beacon.
LEMMA Written == ASSUME Untouched, flush.pc \in {"write", "mark"} PROVE beacons # 0
  BY DEF Untouched

\* What a write adds to the row.
LEMMA DeltaIs ==
  ASSUME ViewsTypes, FlushFits, flush.pc = "write"
  PROVE  /\ flush.from \in Views!Stores /\ Views!Plus(daily, flush.delta) \in Views!Pair
         /\ Views!Plus(daily, flush.delta).uv = daily.uv + (flush.snap.uv - day[flush.from].folded.uv)
         /\ Views!Plus(daily, flush.delta).pv = daily.pv + (flush.snap.pv - day[flush.from].folded.pv)
         /\ day[flush.from].folded.uv <= flush.snap.uv /\ flush.snap.uv <= day[flush.from].at.uv
         /\ day[flush.from].folded.pv <= flush.snap.pv /\ flush.snap.pv <= day[flush.from].at.pv
         /\ \A s \in Views!Stores : Base(s) = day[s].folded
<1>1. /\ flush.from \in Views!Stores /\ flush.snap \in Views!Pair
      /\ AtMost(day[flush.from].folded, flush.snap) /\ AtMost(flush.snap, day[flush.from].at)
      /\ flush.delta = Views!Minus(flush.snap, day[flush.from].folded)
  BY DEF ViewsTypes, FlushRec, FlushFits
<1>2. /\ day[flush.from].folded.uv \in Nat /\ day[flush.from].folded.pv \in Nat
      /\ flush.snap.uv \in Nat /\ flush.snap.pv \in Nat /\ daily.uv \in Nat /\ daily.pv \in Nat
  BY <1>1, ViewsKnown
<1>3. /\ flush.delta.uv = flush.snap.uv - day[flush.from].folded.uv
      /\ flush.delta.pv = flush.snap.pv - day[flush.from].folded.pv
  BY <1>1 DEF Views!Minus
<1>4. /\ Views!Plus(daily, flush.delta).uv = daily.uv + (flush.snap.uv - day[flush.from].folded.uv)
      /\ Views!Plus(daily, flush.delta).pv = daily.pv + (flush.snap.pv - day[flush.from].folded.pv)
  BY <1>3 DEF Views!Plus
<1>5. Views!Plus(daily, flush.delta) \in Views!Pair
  <2>1. daily.uv + flush.delta.uv \in Nat /\ daily.pv + flush.delta.pv \in Nat
    BY <1>1, <1>2, <1>3 DEF AtMost
  <2> QED BY <2>1 DEF Views!Plus, Views!Pair
<1> QED BY <1>1, <1>4, <1>5 DEF AtMost, Base

LEMMA FoldedIs ==
  ASSUME ViewsTypes, NEW s \in Views!Stores, NEW p \in Views!Pair, day' = [day EXCEPT ![s].folded = p]
  PROVE  /\ day' \in [Views!Stores -> DayRec] /\ \A x \in Views!Stores \ {s} : day'[x] = day[x]
         /\ \A x \in Views!Stores : day'[x].seen = day[x].seen /\ day'[x].at = day[x].at
         /\ day'[s].folded = p
         /\ day[s] = Views!NoCounts /\ p = Views!Zero => day'[s] = Views!NoCounts
<1>1. day \in [Views!Stores -> DayRec] /\ day[s] \in DayRec
  BY DEF ViewsTypes
<1>2. PICK d : d = [day[s] EXCEPT !.folded = p]
  OBVIOUS
<1>3. d \in DayRec /\ d.seen = day[s].seen /\ d.at = day[s].at /\ d.folded = p
  BY <1>1, <1>2 DEF DayRec
<1>4. day' = [day EXCEPT ![s] = d]
  BY <1>1, <1>2
<1>5. day[s] = Views!NoCounts /\ p = Views!Zero => d = Views!NoCounts
  BY <1>2 DEF Views!NoCounts
<1> QED BY <1>1, <1>3, <1>4, <1>5

LEMMA ApplyKeeps == ASSUME ViewsIInv, Views!Apply PROVE ViewsIInv'
<1>1. ViewsTypes /\ TasksFit /\ WorkIsFinite /\ FlushFits /\ Untouched /\ OneStore
      /\ VisitorsCounted /\ ViewsCounted /\ WindowsCounted
  BY DEF ViewsIInv
<1>2. /\ flush.pc = "write" /\ daily' = Views!Plus(daily, flush.delta)
      /\ running' = running /\ win' = win /\ life' = life /\ due' = due /\ work' = work
      /\ beacons' = beacons /\ views' = views /\ viewers' = viewers
  BY DEF Views!Apply, Views!ghosts
<1>3. /\ beacons # 0 /\ running' \in BOOLEAN /\ blame \subseteq Reasons /\ Views!Store' = Views!Store
      /\ "redis" \in Views!Stores /\ "memory" \in Views!Stores
  BY <1>1, <1>2, Written DEF ViewsTypes, Views!Store, Views!Stores
<1>4. /\ flush.from \in Views!Stores /\ daily' \in Views!Pair
      /\ daily'.uv = daily.uv + (flush.snap.uv - day[flush.from].folded.uv)
      /\ daily'.pv = daily.pv + (flush.snap.pv - day[flush.from].folded.pv)
      /\ day[flush.from].folded.uv <= flush.snap.uv /\ flush.snap.uv <= day[flush.from].at.uv
      /\ day[flush.from].folded.pv <= flush.snap.pv /\ flush.snap.pv <= day[flush.from].at.pv
      /\ \A s \in Views!Stores : Base(s) = day[s].folded
  BY <1>1, <1>2, DeltaIs
<1>5. "switched" \notin blame => flush.from = Views!Store
  BY <1>1, <1>2 DEF OneStore
<1>6. "switched" \notin blame /\ blame \cap {"unmarked", "retold"} = {} => daily.uv <= day[flush.from].folded.uv
  BY <1>1, <1>4, <1>5 DEF VisitorsCounted
<1>7. /\ flush.snap \in Views!Pair /\ flush.snap.uv \in Nat /\ flush.snap.pv \in Nat
      /\ daily.uv \in Nat /\ daily.pv \in Nat
      /\ \A s \in Views!Stores : /\ day[s].at \in Views!Pair /\ day[s].at.uv \in Nat /\ day[s].at.pv \in Nat
                                 /\ day[s].folded.uv \in Nat /\ day[s].folded.pv \in Nat
      /\ Total = daily.pv + (day["redis"].at.pv - day["redis"].folded.pv)
                          + (day["memory"].at.pv - day["memory"].folded.pv)
  <2>1. /\ Unfolded("redis") = day["redis"].at.pv - day["redis"].folded.pv
        /\ Unfolded("memory") = day["memory"].at.pv - day["memory"].folded.pv
    BY <1>3, <1>4 DEF Unfolded
  <2> QED BY <1>1, <2>1, ViewsKnown DEF Total
<1>8. CASE flush.from = "redis"
  <2>1. flush' = [flush EXCEPT !.pc = "mark"] /\ day' = day /\ blame' = blame
    BY <1>8 DEF Views!Apply
  <2>2. /\ flush' \in FlushRec /\ flush'.pc = "mark" /\ flush'.from = "redis" /\ flush'.snap = flush.snap
    <3>1. LET f == [flush EXCEPT !.pc = "mark"]
          IN  f \in FlushRec /\ f.pc = "mark" /\ f.from = flush.from /\ f.snap = flush.snap
      BY <1>1 DEF ViewsTypes, FlushRec
    <3> QED BY <1>8, <2>1, <3>1
  <2>3. FlushFits'
    BY <1>1, <1>2, <1>8, <2>1, <2>2 DEF FlushFits
  <2>4. Base("redis")' = flush.snap /\ Base("memory")' = day["memory"].folded
    BY <2>1, <2>2 DEF Base
  <2>5. Total' = daily'.pv + (day["redis"].at.pv - flush.snap.pv) + (day["memory"].at.pv - day["memory"].folded.pv)
    BY <2>1, <2>4 DEF Total, Unfolded
  <2>6. Total' = Total
    BY <1>3, <1>4, <1>7, <1>8, <2>5
  <2>7. "switched" \notin blame /\ blame \cap {"unmarked", "retold"} = {} => daily'.uv <= Base(Views!Store)'.uv
    <3>1. "switched" \notin blame => Base(Views!Store)' = flush.snap
      BY <1>3, <1>5, <1>8, <2>4
    <3>2. "switched" \notin blame /\ blame \cap {"unmarked", "retold"} = {} => daily'.uv <= flush.snap.uv
      BY <1>4, <1>6, <1>7
    <3> QED BY <3>1, <3>2
  <2>8. "switched" \notin blame' => (flush'.pc \in {"write", "mark"} => flush'.from = Views!Store')
    BY <1>3, <1>5, <1>8, <2>1, <2>2
  <2>9. Total' <= Total /\ Total' >= Total
    <3>1. Total \in Nat
      BY <1>1, BaseFits
    <3> QED BY <2>6, <3>1
  <2>10. day \in [Views!Stores -> DayRec]
    BY <1>1 DEF ViewsTypes
  <2> QED BY <1>2, <1>3, <1>4, <2>1, <2>2, <2>3, <2>7, <2>8, <2>9, <2>10, Folding
<1>9. CASE flush.from = "memory"
  <2>1. /\ flush' = Views!NoFlush /\ day' = [day EXCEPT !["memory"].folded = day["memory"].at]
        /\ blame' = IF day["memory"].at = flush.snap THEN blame ELSE blame \cup {"skipped"}
    BY <1>9 DEF Views!Apply
  <2>2. /\ day' \in [Views!Stores -> DayRec] /\ day'["redis"] = day["redis"]
        /\ \A x \in Views!Stores : day'[x].seen = day[x].seen /\ day'[x].at = day[x].at
        /\ day'["memory"].folded = day["memory"].at
        /\ \A s \in Views!Stores : day[s] = Views!NoCounts => day'[s] = Views!NoCounts
    <3>1. day["memory"] = Views!NoCounts => day["memory"].at = Views!Zero
      BY PairsAre
    <3>2. /\ day' \in [Views!Stores -> DayRec] /\ \A x \in Views!Stores \ {"memory"} : day'[x] = day[x]
          /\ \A x \in Views!Stores : day'[x].seen = day[x].seen /\ day'[x].at = day[x].at
          /\ day'["memory"].folded = day["memory"].at
          /\ day["memory"] = Views!NoCounts /\ day["memory"].at = Views!Zero => day'["memory"] = Views!NoCounts
      BY <1>1, <1>3, <1>7, <2>1, FoldedIs
    <3> QED BY <1>3, <3>1, <3>2
  <2>3. /\ blame \subseteq blame' /\ blame' \subseteq Reasons
        /\ "switched" \notin blame' => "switched" \notin blame
        /\ blame' \cap {"unmarked", "retold"} = {} => blame \cap {"unmarked", "retold"} = {}
        /\ "skipped" \notin blame' => day["memory"].at = flush.snap
    BY <1>3, <2>1 DEF Reasons
  <2>4. flush'.pc = "idle" /\ flush' \in FlushRec
    BY <2>1, PairsAre
  <2>5. FlushFits'
    <3>1. \A s \in Views!Stores : AtMost(day'[s].folded, day'[s].at)
      BY <1>1, <1>7, <2>2 DEF FlushFits, AtMost, Views!Stores
    <3> QED BY <2>4, <3>1 DEF FlushFits
  <2>6. Base("redis")' = day["redis"].folded /\ Base("memory")' = day["memory"].at
    BY <2>2, <2>4 DEF Base
  <2>7. Total' = daily'.pv + (day["redis"].at.pv - day["redis"].folded.pv) + (day["memory"].at.pv - day["memory"].at.pv)
    BY <1>3, <2>2, <2>6 DEF Total, Unfolded
  <2>8. Total' <= Total /\ ("skipped" \notin blame' => Total' >= Total)
    BY <1>3, <1>4, <1>7, <1>9, <2>3, <2>7
  <2>9. "switched" \notin blame' /\ blame' \cap {"unmarked", "retold"} = {} => daily'.uv <= Base(Views!Store)'.uv
    <3>1. "switched" \notin blame => Base(Views!Store)' = day["memory"].at
      BY <1>3, <1>5, <1>9, <2>6
    <3>2. "switched" \notin blame /\ blame \cap {"unmarked", "retold"} = {} => daily'.uv <= day["memory"].at.uv
      BY <1>3, <1>4, <1>6, <1>7, <1>9
    <3> QED BY <2>3, <3>1, <3>2
  <2>10. flush'.pc \notin {"write", "mark"}
    BY <2>4
  <2> QED BY <1>2, <1>3, <1>4, <2>2, <2>3, <2>4, <2>5, <2>8, <2>9, <2>10, Folding
<1> QED BY <1>4, <1>8, <1>9 DEF Views!Stores

LEMMA ApplyFailsKeeps == ASSUME ViewsIInv, Views!ApplyFails PROVE ViewsIInv'
<1>1. ViewsTypes /\ FlushFits /\ Untouched /\ VisitorsCounted
  BY DEF ViewsIInv
<1>2. /\ flush.pc = "write" /\ flush' = Views!NoFlush
      /\ running' = running /\ day' = day /\ win' = win /\ life' = life /\ due' = due /\ work' = work
      /\ beacons' = beacons /\ views' = views /\ viewers' = viewers
  BY DEF Views!ApplyFails, Views!ghosts
<1>3. PICK ran \in BOOLEAN : /\ daily' = IF ran THEN Views!Plus(daily, flush.delta) ELSE daily
                             /\ blame' = IF ran THEN blame \cup {"unmarked"} ELSE blame
  BY DEF Views!ApplyFails
<1>4. /\ beacons # 0 /\ running' \in BOOLEAN /\ blame \subseteq blame' /\ blame' \subseteq Reasons
      /\ Views!Store' = Views!Store /\ Views!Store \in Views!Stores
      /\ day \in [Views!Stores -> DayRec]
  BY <1>1, <1>2, <1>3, Written, StoreIs DEF ViewsTypes, Views!Store, Reasons
<1>5. FlushFits' /\ \A s \in Views!Stores : Base(s)' = Base(s)
  BY <1>1, <1>2, PairsAre, StartsIdle
<1>6. /\ Unfolded("redis")' = Unfolded("redis") /\ Unfolded("memory")' = Unfolded("memory")
      /\ Unfolded("redis") \in Nat /\ Unfolded("memory") \in Nat
      /\ Total = daily.pv + Unfolded("redis") + Unfolded("memory") /\ Total \in Nat /\ daily.pv \in Nat
  BY <1>1, <1>2, <1>5, BaseFits, ViewsKnown DEF Unfolded, Views!Stores
<1>7. Total' = daily'.pv + Unfolded("redis") + Unfolded("memory")
  BY <1>6 DEF Total
<1>8. CASE ran
  <2>1. daily' \in Views!Pair /\ daily'.pv >= daily.pv /\ daily'.pv \in Nat
    <3>1. /\ daily' \in Views!Pair /\ flush.from \in Views!Stores
          /\ daily'.pv = daily.pv + (flush.snap.pv - day[flush.from].folded.pv)
          /\ day[flush.from].folded.pv <= flush.snap.pv
      BY <1>1, <1>2, <1>3, <1>8, DeltaIs
    <3>2. day[flush.from].folded.pv \in Nat /\ flush.snap.pv \in Nat
      BY <1>1, <3>1, ViewsKnown
    <3> QED BY <1>6, <3>1, <3>2
  <2>2. Total' >= Total
    BY <1>6, <1>7, <2>1
  <2>3. blame' \cap {"unmarked", "retold"} # {}
    BY <1>3, <1>8
  <2> QED BY <1>2, <1>4, <1>5, <2>1, <2>2, <2>3, PairsAre, Folding
<1>9. CASE ~ran
  <2>1. daily' = daily /\ blame' = blame
    BY <1>3, <1>9
  <2>2. Total' <= Total /\ Total' >= Total
    BY <1>6, <1>7, <2>1
  <2>3. "switched" \notin blame /\ blame \cap {"unmarked", "retold"} = {} => daily'.uv <= Base(Views!Store)'.uv
    BY <1>1, <1>4, <1>5, <2>1 DEF VisitorsCounted
  <2>4. daily' \in Views!Pair
    BY <1>1, <2>1 DEF ViewsTypes
  <2> QED BY <1>2, <1>4, <1>5, <2>1, <2>2, <2>3, <2>4, PairsAre, Folding
<1> QED BY <1>8, <1>9

LEMMA MarkFoldedKeeps == ASSUME ViewsIInv, Views!MarkFolded PROVE ViewsIInv'
<1>1. ViewsTypes /\ FlushFits /\ Untouched /\ VisitorsCounted
  BY DEF ViewsIInv
<1>2. /\ flush.pc = "mark" /\ flush' = Views!NoFlush /\ day' = [day EXCEPT !["redis"].folded = flush.snap]
      /\ running' = running /\ daily' = daily /\ win' = win /\ life' = life /\ due' = due /\ work' = work
      /\ beacons' = beacons /\ views' = views /\ viewers' = viewers /\ blame' = blame
  BY DEF Views!MarkFolded, Views!Snapshot, Views!ghosts
<1>3. /\ beacons # 0 /\ running' \in BOOLEAN /\ blame \subseteq Reasons /\ daily' \in Views!Pair
      /\ Views!Store' = Views!Store /\ Views!Store \in Views!Stores /\ "redis" \in Views!Stores
      /\ flush.snap \in Views!Pair /\ flush.from = "redis"
  BY <1>1, <1>2, Written, StoreIs DEF ViewsTypes, Views!Store, Views!Stores, FlushRec, FlushFits
<1>4. /\ flush.snap.uv \in Nat /\ flush.snap.pv \in Nat
      /\ flush.snap.uv <= day["redis"].at.uv /\ flush.snap.pv <= day["redis"].at.pv
  BY <1>1, <1>2, <1>3, ViewsKnown DEF FlushFits, AtMost
<1>5. day["redis"] = Views!NoCounts => flush.snap = Views!Zero
  <2>1. day["redis"] = Views!NoCounts => flush.snap.uv = 0 /\ flush.snap.pv = 0
    BY <1>4, PairsAre
  <2>2. flush.snap = [uv |-> flush.snap.uv, pv |-> flush.snap.pv]
    BY <1>3 DEF Views!Pair
  <2> QED BY <2>1, <2>2 DEF Views!Zero
<1>6. /\ day' \in [Views!Stores -> DayRec] /\ \A x \in Views!Stores \ {"redis"} : day'[x] = day[x]
      /\ \A x \in Views!Stores : day'[x].seen = day[x].seen /\ day'[x].at = day[x].at
      /\ day'["redis"].folded = flush.snap
      /\ \A x \in Views!Stores : day[x] = Views!NoCounts => day'[x] = Views!NoCounts
  <2>1. /\ day' \in [Views!Stores -> DayRec] /\ \A x \in Views!Stores \ {"redis"} : day'[x] = day[x]
        /\ \A x \in Views!Stores : day'[x].seen = day[x].seen /\ day'[x].at = day[x].at
        /\ day'["redis"].folded = flush.snap
        /\ day["redis"] = Views!NoCounts /\ flush.snap = Views!Zero => day'["redis"] = Views!NoCounts
    BY <1>1, <1>2, <1>3, FoldedIs
  <2> QED BY <1>5, <2>1
<1>7. flush'.pc = "idle" /\ flush' \in FlushRec
  BY <1>2, PairsAre
<1>8. \A s \in Views!Stores : Base(s)' = Base(s)
  BY <1>2, <1>3, <1>6, <1>7 DEF Base
<1>9. FlushFits'
  <2>1. \A s \in Views!Stores : AtMost(day'[s].folded, day'[s].at)
    BY <1>1, <1>4, <1>6 DEF FlushFits, AtMost
  <2> QED BY <1>7, <2>1 DEF FlushFits
<1>10. Total' = Total /\ Total \in Nat
  BY <1>1, <1>2, <1>6, <1>8, BaseFits DEF Total, Unfolded, Views!Stores
<1>11. Total' <= Total /\ Total' >= Total
  BY <1>10
<1>12. "switched" \notin blame /\ blame \cap {"unmarked", "retold"} = {} => daily'.uv <= Base(Views!Store)'.uv
  BY <1>1, <1>2, <1>3, <1>8 DEF VisitorsCounted
<1> QED BY <1>2, <1>3, <1>6, <1>7, <1>9, <1>11, <1>12, Folding

LEMMA MarkFailsKeeps == ASSUME ViewsIInv, Views!MarkFails PROVE ViewsIInv'
<1>1. ViewsTypes /\ FlushFits /\ Untouched
  BY DEF ViewsIInv
<1>2. /\ flush.pc = "mark" /\ flush' = Views!NoFlush /\ day' = day /\ Views!Lost
      /\ daily' = daily /\ win' = win /\ life' = life /\ due' = due /\ work' = work
      /\ beacons' = beacons /\ views' = views /\ viewers' = viewers
      /\ blame' = blame \cup Views!Switched \cup {"unmarked"}
  BY DEF Views!MarkFails, Views!ghosts
<1>3. /\ beacons # 0 /\ blame \subseteq blame' /\ Views!Switched \subseteq blame' /\ blame' \subseteq Reasons
      /\ daily' \in Views!Pair /\ day \in [Views!Stores -> DayRec]
      /\ blame' \cap {"unmarked", "retold"} # {}
  BY <1>1, <1>2, Written DEF ViewsTypes, Views!Switched, Reasons
<1>4. running' \in BOOLEAN /\ (running' = running \/ "switched" \in blame')
  BY <1>1, <1>2, <1>3, LosingIs
<1>5. flush'.pc = "idle" /\ flush' \in FlushRec
  BY <1>2, PairsAre
<1>6. FlushFits'
  BY <1>1, <1>2, <1>5 DEF FlushFits
<1>7. \A s \in Views!Stores : Base(s)' = day[s].folded
  BY <1>2, <1>5 DEF Base
<1>8. Total' >= Total
  <2> DEFINE x == day["redis"].at.pv  y == day["memory"].at.pv  a == Base("redis").pv  b == Base("memory").pv
             p == day["redis"].folded.pv  q == day["memory"].folded.pv
  <2>1. "redis" \in Views!Stores /\ "memory" \in Views!Stores
    BY DEF Views!Stores
  <2>2. /\ x \in Nat /\ y \in Nat /\ a \in Nat /\ b \in Nat /\ p \in Nat /\ q \in Nat /\ p <= a /\ q <= b
        /\ Unfolded("redis") = x - a /\ Unfolded("memory") = y - b
        /\ Total = daily.pv + Unfolded("redis") + Unfolded("memory") /\ daily.pv \in Nat
    BY <1>1, <2>1, BaseFits, ViewsKnown
  <2>3. Total' = daily.pv + (x - p) + (y - q)
    BY <1>2, <1>7, <2>1 DEF Total, Unfolded
  <2> HIDE DEF x, y, a, b, p, q
  <2> QED BY <2>2, <2>3
<1> QED BY <1>2, <1>3, <1>4, <1>5, <1>6, <1>8, Folding

\* The process ends: what memory held and what was under way is gone.
LEMMA RenewKeeps == ASSUME ViewsIInv, Views!Renew PROVE ViewsIInv'
<1>1. ViewsTypes /\ TasksFit /\ WorkIsFinite /\ FlushFits /\ Untouched /\ OneStore
      /\ VisitorsCounted /\ ViewsCounted /\ WindowsCounted
  BY DEF ViewsIInv
<1>2. /\ running' \in BOOLEAN /\ day' = [day EXCEPT !["memory"] = Views!NoCounts]
      /\ win' = [c \in Views!Counter |-> [win[c] EXCEPT !.memory = {}]]
      /\ flush' = Views!NoFlush /\ life' = "running" /\ work' = [r \in Report |-> Views!Idle]
      /\ daily' = daily /\ beacons' = beacons /\ views' = views /\ viewers' = viewers /\ due' = due
      /\ blame' = blame \cup (IF flush.pc = "mark" THEN {"unmarked"} ELSE {})
                        \cup (IF Views!Pending("memory") THEN {"forgotten"} ELSE {})
                        \cup (IF Views!Serving THEN {"dropped"} ELSE {})
                        \cup (IF beacons > 0 /\ ~(running /\ running') THEN {"switched"} ELSE {})
  BY DEF Views!Renew, Views!ghosts
<1>3. /\ blame \subseteq blame' /\ blame' \subseteq Reasons
      /\ "unmarked" \notin blame' => flush.pc # "mark"
      /\ "forgotten" \notin blame' => ~Views!Pending("memory")
      /\ "dropped" \notin blame' => ~Views!Serving
      /\ "switched" \notin blame' => ~(beacons > 0 /\ ~(running /\ running'))
  BY <1>1, <1>2 DEF ViewsTypes, Reasons
<1>4. /\ day \in [Views!Stores -> DayRec] /\ "redis" \in Views!Stores /\ "memory" \in Views!Stores
      /\ day' \in [Views!Stores -> DayRec] /\ day'["redis"] = day["redis"] /\ day'["memory"] = Views!NoCounts
  BY <1>1, <1>2, PairsAre DEF ViewsTypes, Views!Stores
<1>5. /\ win' \in [Views!Counter -> WinRec]
      /\ \A c \in Views!Counter : win'[c].memory = {} /\ win'[c].redis = win[c].redis /\ win'[c].stored = win[c].stored
  <2>1. ASSUME NEW c \in Views!Counter
        PROVE  /\ win'[c] \in WinRec /\ win'[c].memory = {} /\ win'[c].redis = win[c].redis
               /\ win'[c].stored = win[c].stored
    <3>1. win[c] \in WinRec /\ win'[c] = [win[c] EXCEPT !.memory = {}]
      BY <1>1, <1>2 DEF ViewsTypes
    <3>2. LET w == [win[c] EXCEPT !.memory = {}]
          IN  w \in WinRec /\ w.memory = {} /\ w.redis = win[c].redis /\ w.stored = win[c].stored
      BY <3>1 DEF WinRec
    <3> QED BY <3>1, <3>2
  <2>2. win' \in [Views!Counter -> WinRec]
    BY <1>2, <2>1
  <2> QED BY <2>1, <2>2
<1>6. flush' \in FlushRec /\ flush'.pc = "idle" /\ \A r \in Report : work'[r] = Views!Idle /\ work'[r].pc = "idle"
  BY <1>2, PairsAre, IdleIs
<1>7. ViewsTypes'
  BY <1>1, <1>2, <1>3, <1>4, <1>5, <1>6, IdleIs DEF ViewsTypes
<1>8. Untouched'
  BY <1>1, <1>2, <1>4, <1>5, <1>6 DEF Untouched, Views!Stores
<1>9. CASE beacons = 0
  BY <1>2, <1>7, <1>8, <1>9, NothingYet
<1>10. CASE beacons # 0
  <2>1. "switched" \notin blame' => running /\ running' /\ Views!Store = "redis" /\ Views!Store' = "redis"
    <3>1. beacons > 0
      BY <1>1, <1>10 DEF ViewsTypes
    <3> QED BY <1>3, <3>1 DEF Views!Store
  <2>2. Viewing' = {} /\ Meeting' = {} /\ \A c \in Views!Counter : Storing(c)' = {}
    BY <1>6 DEF Viewing, Meeting, Storing, IsViewing, IsMeeting, IsStoring
  <2>3. "dropped" \notin blame' => Viewing = {} /\ Meeting = {} /\ \A c \in Views!Counter : Storing(c) = {}
    <3>1. ~Views!Serving => \A r \in Report : work[r].pc = "idle"
      BY IdleIs DEF Views!Serving
    <3>2. (\A r \in Report : work[r].pc = "idle") =>
             Viewing = {} /\ Meeting = {} /\ \A c \in Views!Counter : Storing(c) = {}
      BY DEF Viewing, Meeting, Storing, IsViewing, IsMeeting, IsStoring
    <3> QED BY <1>3, <3>1, <3>2
  <2>4. IsFiniteSet({}) /\ Cardinality({}) = 0
    BY FS_EmptySet
  <2>5. /\ Cardinality(Viewing) \in Nat /\ Cardinality(Meeting) \in Nat
        /\ \A c \in Views!Counter : Cardinality(Storing(c)) \in Nat
    BY <1>1, FS_CardinalityType DEF WorkIsFinite
  <2>6. TasksFit' /\ WorkIsFinite'
    BY <1>6, <2>2, <2>4 DEF TasksFit, WorkIsFinite
  <2>7. FlushFits'
    <3>1. AtMost(Views!Zero, Views!Zero)
      BY PairsAre DEF AtMost
    <3>2. \A s \in Views!Stores : AtMost(day'[s].folded, day'[s].at)
      BY <1>1, <1>4, <3>1, PairsAre DEF FlushFits, Views!Stores
    <3> QED BY <1>6, <3>2 DEF FlushFits
  <2>8. OneStore'
    BY <1>4, <1>5, <1>6, <2>1 DEF OneStore
  <2>9. Base("redis")' = day["redis"].folded /\ Base("memory")' = Views!Zero
    BY <1>4, <1>6, PairsAre DEF Base
  <2>10. VisitorsCounted'
    <3>1. IsFiniteSet(viewers') /\ \A s \in Views!Stores : day'[s].seen \subseteq viewers'
      BY <1>1, <1>2, <1>4, PairsAre DEF VisitorsCounted, Views!Stores
    <3>2. day["redis"].at.uv \in Nat /\ Cardinality(day["redis"].seen) \in Nat
      BY <1>1, <1>4, ViewsKnown, FS_Subset, FS_CardinalityType DEF VisitorsCounted
    <3>3. "switched" \notin blame' => day["redis"].at.uv + Cardinality(Meeting') <= Cardinality(day["redis"].seen)
      <4>1. "switched" \notin blame' => day["redis"].at.uv + Cardinality(Meeting) <= Cardinality(day["redis"].seen)
        BY <1>1, <1>3, <2>1 DEF VisitorsCounted
      <4> QED BY <2>2, <2>4, <2>5, <3>2, <4>1
    <3>4. "switched" \notin blame' /\ blame' \cap {"unmarked", "retold"} = {} => daily'.uv <= day["redis"].folded.uv
      <4>1. blame' \cap {"unmarked", "retold"} = {} =>
               Base("redis") = day["redis"].folded /\ blame \cap {"unmarked", "retold"} = {}
        BY <1>3 DEF Base
      <4>2. "switched" \notin blame' /\ blame \cap {"unmarked", "retold"} = {} => daily.uv <= Base("redis").uv
        BY <1>1, <1>3, <2>1 DEF VisitorsCounted
      <4> QED BY <1>2, <4>1, <4>2
    <3>5. blame' = {} => /\ day["redis"].at.uv + Cardinality(Meeting') = Cardinality(day["redis"].seen)
                         /\ \A v \in viewers : v \in day["redis"].seen
      <4>1. blame' = {} => blame = {} /\ "switched" \notin blame' /\ "dropped" \notin blame'
        BY <1>3
      <4>2. blame' = {} => /\ day["redis"].at.uv + Cardinality(Meeting) = Cardinality(day["redis"].seen)
                           /\ \A v \in viewers : v \in day["redis"].seen \/ \E r \in Viewing : work[r].who = v
        BY <1>1, <2>1, <4>1 DEF VisitorsCounted
      <4> QED BY <2>2, <2>3, <2>4, <4>1, <4>2
    <3>6. blame' = {} => "switched" \notin blame'
      OBVIOUS
    <3> QED BY <1>2, <1>4, <2>1, <2>9, <3>1, <3>3, <3>4, <3>5, <3>6 DEF VisitorsCounted
  <2>11. ViewsCounted'
    <3> DEFINE x == day["redis"].at.pv  y == day["memory"].at.pv  a == Base("redis").pv  b == Base("memory").pv
               p == day["redis"].folded.pv  q == day["memory"].folded.pv
    <3>1. /\ x \in Nat /\ y \in Nat /\ a \in Nat /\ b \in Nat /\ p \in Nat /\ q \in Nat
          /\ p <= a /\ a <= x /\ q <= b /\ b <= y
          /\ Total = daily.pv + (x - a) + (y - b) /\ daily.pv \in Nat /\ views \in Nat
      <4>1. /\ x \in Nat /\ y \in Nat /\ a \in Nat /\ b \in Nat /\ p \in Nat /\ q \in Nat
            /\ p <= a /\ a <= x /\ q <= b /\ b <= y
            /\ Unfolded("redis") = x - a /\ Unfolded("memory") = y - b /\ daily.pv \in Nat
        BY <1>1, <1>4, BaseFits, ViewsKnown
      <4>2. Total = daily.pv + Unfolded("redis") + Unfolded("memory") /\ views \in Nat
        BY <1>1, BaseFits DEF ViewsTypes
      <4> QED BY <4>1, <4>2
    <3>2. Total' = daily.pv + (x - p) + (0 - 0)
      BY <1>2, <1>4, <2>9, PairsAre DEF Total, Unfolded
    <3>3. "unmarked" \notin blame' => a = p
      BY <1>3 DEF Base
    <3>4. "forgotten" \notin blame' => y = b
      <4>1. ~Views!Pending("memory") => y - q = 0
        BY PairsAre DEF Views!Pending, Views!Delta, Views!Minus, Views!Zero
      <4>2. b = q
        BY <1>1 DEF Base, FlushFits
      <4> HIDE DEF x, y, a, b, p, q
      <4> QED BY <1>3, <3>1, <4>1, <4>2
    <3> HIDE DEF x, y, a, b, p, q
    <3>5. blame' \cap {"unmarked", "retold"} = {} => Total' + Cardinality(Viewing') <= views
      <4>1. blame' \cap {"unmarked", "retold"} = {} =>
               Total + Cardinality(Viewing) <= views /\ "unmarked" \notin blame'
        BY <1>1, <1>3 DEF ViewsCounted
      <4> QED BY <2>2, <2>4, <2>5, <3>1, <3>2, <3>3, <4>1
    <3>6. blame' \cap {"dropped", "forgotten", "skipped"} = {} => Total' + Cardinality(Viewing') >= views
      <4>1. blame' \cap {"dropped", "forgotten", "skipped"} = {} =>
               /\ Total + Cardinality(Viewing) >= views
               /\ "dropped" \notin blame' /\ "forgotten" \notin blame'
        BY <1>1, <1>3 DEF ViewsCounted
      <4>2. blame' \cap {"dropped", "forgotten", "skipped"} = {} => Cardinality(Viewing) = 0
        BY <2>3, <2>4
      <4>3. Cardinality(Viewing') = 0
        BY <2>2, <2>4
      <4> QED BY <3>1, <3>2, <3>4, <4>1, <4>2, <4>3
    <3>7. blame' = {} => day'[Views!Store'].at.pv + Cardinality(Viewing') = views
      <4>1. blame' = {} => blame = {} /\ "switched" \notin blame' /\ "dropped" \notin blame'
        BY <1>3
      <4>2. blame' = {} => day["redis"].at.pv + Cardinality(Viewing) = views
        BY <1>1, <2>1, <4>1 DEF ViewsCounted
      <4> QED BY <1>4, <2>1, <2>2, <2>3, <4>1, <4>2
    <3> QED BY <1>2, <3>5, <3>6, <3>7 DEF ViewsCounted
  <2>12. WindowsCounted'
    <3> SUFFICES ASSUME NEW c \in Views!Counter
                 PROVE  /\ "switched" \notin blame' => win'[c].stored + Cardinality(Storing(c)') <= due'[c]
                        /\ "dropped" \notin blame' => win'[c].stored + Cardinality(Storing(c)') >= due'[c]
      BY DEF WindowsCounted
    <3>1. win[c].stored \in Nat /\ due[c] \in Nat /\ win'[c].stored = win[c].stored /\ due'[c] = due[c]
      BY <1>1, <1>2, <1>5, ViewsKnown
    <3>2. /\ "switched" \notin blame' => win[c].stored + Cardinality(Storing(c)) <= due[c]
          /\ "dropped" \notin blame' => win[c].stored + Cardinality(Storing(c)) >= due[c]
      BY <1>1, <1>3 DEF WindowsCounted
    <3>3. Cardinality(Storing(c)') = 0 /\ ("dropped" \notin blame' => Cardinality(Storing(c)) = 0)
      BY <2>2, <2>3, <2>4
    <3> QED BY <2>5, <3>1, <3>2, <3>3
  <2> QED BY <1>7, <1>8, <2>6, <2>7, <2>8, <2>10, <2>11, <2>12 DEF ViewsIInv
<1> QED BY <1>9, <1>10

LEMMA ViewsStutters == ASSUME ViewsIInv, UNCHANGED Views!vars PROVE ViewsIInv'
<1>1. /\ running' = running /\ day' = day /\ daily' = daily /\ win' = win /\ flush' = flush /\ life' = life
      /\ work' = work /\ beacons' = beacons /\ views' = views /\ viewers' = viewers /\ due' = due /\ blame' = blame
  BY DEF Views!vars
<1>2. ViewsTypes /\ FlushFits /\ Untouched /\ OneStore
  BY DEF ViewsIInv
<1>3. /\ blame \subseteq Reasons /\ running \in BOOLEAN /\ life \in {"running", "flushing", "closing"}
      /\ flush' \in FlushRec /\ FlushFits' /\ \A s \in Views!Stores : Base(s)' = Base(s)
      /\ beacons = 0 => flush'.pc \in {"idle", "read"}
  BY <1>1, <1>2 DEF ViewsTypes, FlushFits, Base, Untouched
<1>4. "switched" \notin blame' => (flush'.pc \in {"write", "mark"} => flush'.from = Views!Store')
  BY <1>1, <1>2 DEF OneStore, Views!Store
<1> QED BY <1>1, <1>3, <1>4, CountersStay

LEMMA ViewsStep == ASSUME ViewsIInv, [Views!Next]_(Views!vars) PROVE ViewsIInv'
<1>1. CASE UNCHANGED Views!vars
  BY <1>1, ViewsStutters
<1>2. CASE Views!Next
  <2>1. ASSUME NEW r \in Report, NEW k \in Views!Kind, NEW v \in Visitor, Views!Beacon(r, k, v) PROVE ViewsIInv'
    BY <2>1, BeaconKeeps
  <2>2. ASSUME NEW r \in Report, Views!MarkPage(r) PROVE ViewsIInv'
    BY <2>2, MarkPageKeeps
  <2>3. ASSUME NEW r \in Report, Views!CountVisitor(r) PROVE ViewsIInv'
    BY <2>3, CountVisitorKeeps
  <2>4. ASSUME NEW r \in Report, Views!PageFails(r) PROVE ViewsIInv'
    BY <2>4, PageFailsKeeps
  <2>5. ASSUME NEW r \in Report, Views!MarkWindow(r) PROVE ViewsIInv'
    BY <2>5, MarkWindowKeeps
  <2>6. ASSUME NEW r \in Report, Views!WindowFails(r) PROVE ViewsIInv'
    BY <2>6, WindowFailsKeeps
  <2>7. ASSUME NEW r \in Report, Views!Increment(r) PROVE ViewsIInv'
    BY <2>7, IncrementKeeps
  <2>8. ASSUME NEW r \in Report, Views!IncrementFails(r) PROVE ViewsIInv'
    BY <2>8, IncrementFailsKeeps
  <2>9. ASSUME NEW c \in Views!Counter, NEW v \in Visitor, Views!WindowEnds(c, v) PROVE ViewsIInv'
    BY <2>9, WindowEndsKeeps
  <2>10. CASE Views!Exit \/ Views!Crash
    BY <2>10, RenewKeeps DEF Views!Exit, Views!Crash
  <2>11. CASE \/ Views!Flush \/ Views!ReadCounters \/ Views!ReadFails \/ Views!Apply \/ Views!ApplyFails
              \/ Views!MarkFolded \/ Views!MarkFails \/ Views!RedisLost \/ Views!Shutdown
    BY <2>11, FlushKeeps, ReadCountersKeeps, ReadFailsKeeps, ApplyKeeps, ApplyFailsKeeps,
       MarkFoldedKeeps, MarkFailsKeeps, RedisLostKeeps, ShutdownKeeps
  <2> QED BY <1>2, <2>1, <2>2, <2>3, <2>4, <2>5, <2>6, <2>7, <2>8, <2>9, <2>10, <2>11, Zenon DEF Views!Next
<1> QED BY <1>1, <1>2

\* Engagement counts with its own instance of FiniteSets.
LEMMA SameCount == Views!Cardinality(viewers) = Cardinality(viewers)
  BY DEF Cardinality, Views!Cardinality

\* What the counting promises follows.
LEMMA ViewsGoal ==
  ASSUME ViewsIInv
  PROVE  Views!CountedOnce /\ Views!NothingLost /\ Views!OncePerWindow /\ Views!TodayIsLive
<1>1. ViewsTypes /\ TasksFit /\ WorkIsFinite /\ FlushFits /\ VisitorsCounted /\ ViewsCounted /\ WindowsCounted
  BY DEF ViewsIInv
<1>2. /\ Cardinality(Viewing) \in Nat /\ Cardinality(Meeting) \in Nat
      /\ \A c \in Views!Counter : Cardinality(Storing(c)) \in Nat
  BY <1>1, FS_CardinalityType DEF WorkIsFinite
<1>3. ~Views!Serving => /\ Viewing = {} /\ Cardinality(Viewing) = 0 /\ Cardinality(Meeting) = 0
                        /\ \A c \in Views!Counter : Cardinality(Storing(c)) = 0
  <2>1. ~Views!Serving => \A r \in Report : work[r].pc = "idle"
    BY IdleIs DEF Views!Serving
  <2>2. (\A r \in Report : work[r].pc = "idle") =>
           Viewing = {} /\ Meeting = {} /\ \A c \in Views!Counter : Storing(c) = {}
    BY DEF Viewing, Meeting, Storing, IsViewing, IsMeeting, IsStoring
  <2> QED BY <2>1, <2>2, FS_EmptySet
<1>4. /\ Views!Store \in Views!Stores /\ "redis" \in Views!Stores /\ "memory" \in Views!Stores
      /\ views \in Nat /\ daily.pv \in Nat /\ daily.uv \in Nat
  BY <1>1, StoreIs, ViewsKnown DEF Views!Stores, ViewsTypes
<1>5. /\ day[Views!Store].at \in Views!Pair /\ day[Views!Store].at.uv \in Nat /\ day[Views!Store].at.pv \in Nat
      /\ Base(Views!Store).uv \in Nat /\ Base(Views!Store).uv <= day[Views!Store].at.uv
  BY <1>1, <1>4, ViewsKnown, BaseFits
<1>6. /\ Cardinality(day[Views!Store].seen) \in Nat /\ Cardinality(viewers) \in Nat
      /\ Cardinality(day[Views!Store].seen) <= Cardinality(viewers)
  <2>1. IsFiniteSet(viewers) /\ day[Views!Store].seen \subseteq viewers
    BY <1>1, <1>4 DEF VisitorsCounted
  <2> QED BY <2>1, FS_Subset, FS_CardinalityType
<1>7. /\ Unfolded("redis") \in Nat /\ Unfolded("memory") \in Nat
      /\ Total = daily.pv + Unfolded("redis") + Unfolded("memory")
  BY <1>1, <1>4, BaseFits
<1>8. Views!CountedOnce
  <2>1. blame \cap {"unmarked", "retold"} = {} => daily.pv <= views
    <3>1. blame \cap {"unmarked", "retold"} = {} => Total + Cardinality(Viewing) <= views
      BY <1>1 DEF ViewsCounted
    <3> QED BY <1>2, <1>4, <1>7, <3>1
  <2>2. "switched" \notin blame /\ blame \cap {"unmarked", "retold"} = {} => daily.uv <= Cardinality(viewers)
    <3>1. "switched" \notin blame =>
            /\ day[Views!Store].at.uv + Cardinality(Meeting) <= Cardinality(day[Views!Store].seen)
            /\ blame \cap {"unmarked", "retold"} = {} => daily.uv <= Base(Views!Store).uv
      BY <1>1 DEF VisitorsCounted
    <3> QED BY <1>2, <1>4, <1>5, <1>6, <3>1
  <2>3. blame \cap {"unmarked", "retold"} = {} =>
          /\ daily.pv <= views
          /\ "switched" \notin blame => daily.uv <= Cardinality(viewers)
    BY <2>1, <2>2
  <2> QED BY <2>3, SameCount DEF Views!CountedOnce
<1>9. Views!NothingLost
  <2> SUFFICES ASSUME ~Views!Serving, flush.pc = "idle", blame \cap {"dropped", "forgotten", "skipped"} = {}
               PROVE  daily.pv + Views!Delta("redis").pv + Views!Delta("memory").pv >= views
    BY DEF Views!NothingLost
  <2>1. Unfolded("redis") = Views!Delta("redis").pv /\ Unfolded("memory") = Views!Delta("memory").pv
    BY DEF Unfolded, Base, Views!Delta, Views!Minus
  <2>2. Total + Cardinality(Viewing) >= views
    BY <1>1 DEF ViewsCounted
  <2> QED BY <1>3, <1>4, <1>7, <2>1, <2>2
<1>10. Views!OncePerWindow
  <2> SUFFICES ASSUME NEW c \in Views!Counter
               PROVE  /\ "switched" \notin blame => win[c].stored <= due[c]
                      /\ (~Views!Serving /\ "dropped" \notin blame) => win[c].stored >= due[c]
    BY DEF Views!OncePerWindow
  <2>1. win[c].stored \in Nat /\ due[c] \in Nat
    BY <1>1, ViewsKnown
  <2>2. /\ "switched" \notin blame => win[c].stored + Cardinality(Storing(c)) <= due[c]
        /\ "dropped" \notin blame => win[c].stored + Cardinality(Storing(c)) >= due[c]
    BY <1>1 DEF WindowsCounted
  <2> QED BY <1>2, <1>3, <2>1, <2>2
<1>11. Views!TodayIsLive
  <2> SUFFICES ASSUME blame = {}, ~Views!Serving
               PROVE  day[Views!Store].at = [uv |-> Cardinality(viewers), pv |-> views]
    BY SameCount DEF Views!TodayIsLive
  <2>1. day[Views!Store].at.pv = views
    BY <1>1, <1>3, <1>5 DEF ViewsCounted
  <2>2. day[Views!Store].seen = viewers
    BY <1>1, <1>3, <1>4 DEF VisitorsCounted
  <2>3. day[Views!Store].at.uv = Cardinality(viewers)
    BY <1>1, <1>3, <1>5, <2>2 DEF VisitorsCounted
  <2>4. day[Views!Store].at = [uv |-> day[Views!Store].at.uv, pv |-> day[Views!Store].at.pv]
    BY <1>5 DEF Views!Pair
  <2> QED BY <2>1, <2>3, <2>4
<1> QED BY <1>8, <1>9, <1>10, <1>11

\* With any number of visitors, requests, failures and restarts every beacon is counted once
\* and a visitor once a window, but for what the recorded failures explain.
THEOREM ViewsHold == BackgroundSpec => []ViewsCorrect
<1>1. BackgroundInit => ViewsInductive
  BY ViewsStarts, ViewsInit DEF ViewsInductive
<1>2. ViewsInductive /\ [BackgroundNext]_background => ViewsInductive'
  <2> SUFFICES ASSUME ViewsInductive, [BackgroundNext]_background, part' = "beacons" PROVE ViewsIInv'
    BY DEF ViewsInductive
  <2> QED BY ViewsMoves, ViewsStep DEF ViewsInductive
<1>3. ViewsInductive => ViewsCorrect
  BY ViewsGoal, ViewsTypesSuffice DEF ViewsInductive, ViewsIInv, ViewsCorrect
<1> QED BY <1>1, <1>2, <1>3, PTL DEF BackgroundSpec

===============================================================================
