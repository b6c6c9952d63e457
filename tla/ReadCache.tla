------------------------------ MODULE ReadCache ------------------------------
(***************************************************************************)
(* The cached reads of the public site: categories and tags (routes/       *)
(* catalog.ts) and the quote of the day (routes/quotes.ts), kept by        *)
(* lib/redisCache.ts in the memory of each server process and in Redis,    *)
(* and the writes of the panel and of the bot that evict them.  A read     *)
(* that misses fetches from Postgres and stores afterwards; a write        *)
(* commits first and evicts later, and only what its own process remembers *)
(* to have stored.  Of a copy the model keeps whether it still agrees with *)
(* the rows it was made from.                                              *)
(***************************************************************************)
EXTENDS FiniteSets, Naturals

CONSTANTS
    Process,      \* server processes
    Task,         \* requests being handled at a time
    MaxWrites,    \* bound: changes
    MaxRestarts,  \* bound: restarts
    Null

ASSUME ReadCacheAssumption ==
    MaxWrites \in Nat /\ MaxRestarts \in Nat /\ Null \notin Process \cup Nat

VARIABLES
    mem,       \* mem[p][k]: what process p keeps in memory
    tracked,   \* tracked[p]: its keyRegistry
    red,       \* red[k]: what Redis keeps
    up,        \* up[p]: redis.available
    task,      \* task[t]: the handler of a request
    writes, restarts,
    missed     \* history: copies that no eviction can be expected to reach

vars == <<mem, tracked, red, up, task, writes, restarts, missed>>

\* One key for each prefix: catalog:categories and catalog:tags, qotd:<day>.
Key == {"catalog", "qotd"}
Place == Process \cup {Null}      \* Null for Redis
Copy  == {"none", "fresh", "stale"}

\* A moderator's decision on a quote, or a quote approved at once; a tag, a category or the
\* pin of the day; a restored backup; the categories seeded at startup; the tags that a quote
\* waiting for its decision creates; and what the quote of the day shows besides its text:
\* likes, views, and whether its author is premium.
Op == {"quote", "tag", "category", "content", "restore", "seed", "submit", "like", "view",
       "premium"}

\* The rows an operation changes.  The quote of the day carries its tags and category.
Touches(o) ==
    CASE o \in {"quote", "tag", "category", "restore"} -> Key
      [] o \in {"content", "like", "view", "premium"} -> {"qotd"}
      [] o \in {"seed", "submit"} -> {"catalog"}

\* Plausible bug: a decision on a quote evicts the counts and forgets the quote of the day.
EvictsCounts(o) == IF o \in {"tag", "category", "quote"} THEN {"catalog"}
                   ELSE IF o = "content" THEN {"qotd"} ELSE {}

\* The prefixes it passes to invalidateCaches; the operations left evict nothing.
Evicts(o) ==
    CASE o \in {"tag", "category"} -> {"catalog"}
      [] o = "content" -> {"qotd"}
      [] o = "quote" -> Key
      [] OTHER -> {}

Idle == [pc |-> "idle", at |-> Null, op |-> Null, key |-> Null, val |-> "none", del |-> {}]

TypeOK ==
    /\ mem \in [Process -> [Key -> Copy]] /\ red \in [Key -> Copy]
    /\ tracked \in [Process -> SUBSET Key] /\ up \in [Process -> BOOLEAN]
    /\ task \in [Task -> [pc  : {"idle", "redis", "fetch", "store", "set", "evict", "del"},
                          at  : Process \cup {Null}, op : Op \cup {Null},
                          key : Key \cup {Null}, val : Copy, del : SUBSET Key]]
    /\ writes \in 0..MaxWrites /\ restarts \in 0..MaxRestarts
    /\ missed \subseteq Place \X Key

Init ==
    /\ mem = [p \in Process |-> [k \in Key |-> "none"]]
    /\ tracked = [p \in Process |-> {}] /\ red = [k \in Key |-> "none"]
    /\ up \in [Process -> BOOLEAN]
    /\ task = [t \in Task |-> Idle]
    /\ writes = 0 /\ restarts = 0 /\ missed = {}

Start(t, job)  == task[t].pc = "idle" /\ task' = [task EXCEPT ![t] = job]
Goto(t, pc)    == task' = [task EXCEPT ![t].pc = pc]
End(t)         == task' = [task EXCEPT ![t] = Idle]

\* A write that has committed and will evict key k at process p.
Pending(p, k) == \E t \in Task : task[t].pc = "evict" /\ task[t].at = p /\ k \in Evicts(task[t].op)

InRedis == {Null} \X {k \in Key : red[k] # "none"}

-----------------------------------------------------------------------------
\* cachedGet

\* A request finds nothing in memory.
Miss(t, p, k) ==
    /\ mem[p][k] = "none"
    /\ Start(t, [Idle EXCEPT !.pc = IF up[p] THEN "redis" ELSE "fetch", !.at = p, !.key = k])
    /\ UNCHANGED <<mem, tracked, red, up, writes, restarts, missed>>

\* Redis answers: a value goes to memory as it is, and is not tracked.  Without one, or when
\* the GET is refused, the fetcher is asked.
FromRedis(t) ==
    /\ task[t].pc = "redis"
    /\ LET p == task[t].at  k == task[t].key IN
       \/ /\ up[p] /\ red[k] # "none"
          /\ mem' = [mem EXCEPT ![p][k] = red[k]]
          /\ missed' = IF red[k] = "stale" \/ k \notin tracked[p] THEN missed \cup {<<p, k>>}
                       ELSE missed
          /\ End(t)
       \/ UNCHANGED <<mem, missed>> /\ Goto(t, "fetch")
    /\ UNCHANGED <<tracked, red, up, writes, restarts>>

\* The query of the fetcher.
Fetch(t) ==
    /\ task[t].pc = "fetch"
    /\ task' = [task EXCEPT ![t].pc = "store", ![t].val = "fresh"]
    /\ UNCHANGED <<mem, tracked, red, up, writes, restarts, missed>>

\* Plausible bug: the key is tracked only when Redis has stored it.
TrackIfUp(p, k) == IF up[p] THEN {k} ELSE {}

\* Plausible bug: the registry is given the process and not the key.
TrackProcess(p, k) == {p}

\* Every key that is stored is tracked.
Track(p, k) == {k}

\* The value is stored however old it is by then.
Store(t) ==
    /\ task[t].pc = "store"
    /\ LET p == task[t].at  k == task[t].key  v == task[t].val IN
       /\ mem' = [mem EXCEPT ![p][k] = v]
       /\ tracked' = [tracked EXCEPT ![p] = @ \cup Track(p, k)]
       /\ missed' = (missed \ {<<p, k>>})
                      \cup IF v = "stale" /\ ~Pending(p, k) THEN {<<p, k>>} ELSE {}
       /\ IF up[p] THEN Goto(t, "set") ELSE End(t)
    /\ UNCHANGED <<red, up, writes, restarts>>

\* SET with the time to live, after another wait; when it is refused nobody is told.
SetRedis(t) ==
    /\ task[t].pc = "set"
    /\ LET p == task[t].at  k == task[t].key  v == task[t].val IN
       \/ /\ up[p]
          /\ red' = [red EXCEPT ![k] = v]
          /\ missed' = (missed \ {<<Null, k>>})
                         \cup IF \/ Process # {p} \/ k \notin tracked[p]
                                 \/ v = "stale" /\ ~Pending(p, k)
                              THEN {<<Null, k>>} ELSE {}
       \/ UNCHANGED <<red, missed>>
    /\ End(t)
    /\ UNCHANGED <<mem, tracked, up, writes, restarts>>

-----------------------------------------------------------------------------
\* A change and its eviction

\* The keys that an operation is known to leave alone although it changes their rows.
Exempt(o) == CASE o \in {"tag", "category", "like", "view", "premium"} -> {"qotd"}
               [] o \in {"seed", "submit"} -> {"catalog"} [] o = "restore" -> Key
               [] OTHER -> {}

\* The copies of key k that its eviction at process p cannot reach.
Unreached(p, o, k) ==
    {<<q, k>> : q \in {x \in Process : mem[x][k] # "none" /\ (x # p \/ k \in Exempt(o))}}
      \cup IF red[k] # "none" /\ (k \in Exempt(o) \/ ~up[p]) THEN {<<Null, k>>} ELSE {}

\* What a change makes of a copy, and of a row of copies.
Older(c) == IF c = "fresh" THEN "stale" ELSE c
Aged(copies, o) == [k \in Key |-> IF k \in Touches(o) THEN Older(copies[k]) ELSE copies[k]]

\* The handler's checks have passed (a slug that is free, a category without quotes, a block
\* that exists) and no index refuses the write.
Commit(t, p, o) ==
    /\ task[t].pc = "idle" /\ writes < MaxWrites /\ writes' = writes + 1
    /\ mem' = [q \in Process |-> Aged(mem[q], o)] /\ red' = Aged(red, o)
    /\ missed' = missed \cup UNION {Unreached(p, o, k) : k \in Touches(o)}
    /\ LET old == [x \in Task |-> IF task[x].key \in Touches(o)
                                  THEN [task[x] EXCEPT !.val = Older(@)] ELSE task[x]]
       IN task' = IF Evicts(o) = {} THEN old
                  ELSE [old EXCEPT ![t] = [Idle EXCEPT !.pc = "evict", !.at = p, !.op = o]]
    /\ UNCHANGED <<tracked, up, restarts>>

\* invalidateCaches forgets the tracked keys of its prefixes, and then asks Redis to.
Evict(t) ==
    /\ task[t].pc = "evict"
    /\ LET p == task[t].at  hit == Evicts(task[t].op) \cap tracked[p] IN
       /\ mem' = [mem EXCEPT ![p] = [k \in Key |-> IF k \in hit THEN "none" ELSE mem[p][k]]]
       /\ tracked' = [tracked EXCEPT ![p] = @ \ hit]
       /\ missed' = missed \ ({p} \X hit)
       /\ IF up[p] /\ hit # {} THEN task' = [task EXCEPT ![t].pc = "del", ![t].del = hit]
          ELSE End(t)
    /\ UNCHANGED <<red, up, writes, restarts>>

\* When Redis has gone or refuses the DEL nobody is told, and its copies are not tracked
\* any more.
DelRedis(t) ==
    /\ task[t].pc = "del"
    /\ LET hit == task[t].del IN
       \/ /\ up[task[t].at]
          /\ red' = [k \in Key |-> IF k \in hit THEN "none" ELSE red[k]]
          /\ missed' = missed \ ({Null} \X hit)
       \/ missed' = missed \cup (InRedis \cap ({Null} \X hit)) /\ UNCHANGED red
    /\ End(t)
    /\ UNCHANGED <<mem, tracked, up, writes, restarts>>

-----------------------------------------------------------------------------
\* Time, errors and restarts

MemExpires(p, k) ==
    /\ mem[p][k] # "none"
    /\ mem' = [mem EXCEPT ![p][k] = "none"] /\ missed' = missed \ {<<p, k>>}
    /\ UNCHANGED <<tracked, red, up, task, writes, restarts>>

\* Plausible bug: SET without PX.
Forever(k) == FALSE

\* SET ... PX ttl.
Lapsing(k) == red[k] # "none"

RedisExpires(k) ==
    /\ Lapsing(k)
    /\ red' = [red EXCEPT ![k] = "none"] /\ missed' = missed \ {<<Null, k>>}
    /\ UNCHANGED <<mem, tracked, up, task, writes, restarts>>

\* An error event of the client: nothing makes it available again but a restart.
RedisFails(p) ==
    /\ up[p] /\ up' = [up EXCEPT ![p] = FALSE]
    /\ missed' = missed \cup InRedis
    /\ UNCHANGED <<mem, tracked, red, task, writes, restarts>>

\* The process loses its memory, its registry and its requests; a write that had committed
\* is never evicted.
Restart(p) ==
    /\ restarts < MaxRestarts /\ restarts' = restarts + 1
    /\ mem' = [mem EXCEPT ![p] = [k \in Key |-> "none"]]
    /\ tracked' = [tracked EXCEPT ![p] = {}]
    /\ up' \in {[up EXCEPT ![p] = b] : b \in BOOLEAN}
    /\ task' = [t \in Task |-> IF task[t].at = p THEN Idle ELSE task[t]]
    /\ missed' = (missed \ ({p} \X Key)) \cup InRedis
    /\ UNCHANGED <<red, writes>>

Steps(t) == FromRedis(t) \/ Fetch(t) \/ Store(t) \/ SetRedis(t)
            \/ Evict(t) \/ DelRedis(t)

Expires == \E k \in Key : RedisExpires(k) \/ \E p \in Process : MemExpires(p, k)

Next ==
    \/ \E t \in Task, p \in Process : \/ \E k \in Key : Miss(t, p, k)
                                      \/ \E o \in Op : Commit(t, p, o)
    \/ \E t \in Task : Steps(t)
    \/ Expires
    \/ \E p \in Process : RedisFails(p) \/ Restart(p)

\* Requests that are being served go on, and a time to live ends.
Fairness ==
    /\ \A t \in Task : WF_vars(Steps(t))
    /\ \A k \in Key : WF_vars(RedisExpires(k)) /\ \A p \in Process : WF_vars(MemExpires(p, k))

Spec == Init /\ [][Next]_vars /\ Fairness

-----------------------------------------------------------------------------
(* What the cache promises *)

\* A copy that differs from the rows is about to be evicted, or is one that no eviction
\* reaches: it was fetched before the change and stored after an eviction, came from Redis
\* or from before a restart, was left there by a DEL that Redis refused, belongs to another
\* process, or its key is exempt.
StaleExplained ==
    /\ \A p \in Process, k \in Key :
         mem[p][k] = "stale" => <<p, k>> \in missed \/ Pending(p, k)
    /\ \A k \in Key : red[k] = "stale" =>
         \/ <<Null, k>> \in missed
         \/ \E p \in Process : Pending(p, k)
         \/ \E t \in Task : task[t].pc = "del" /\ k \in task[t].del

\* A stale copy is one an eviction is about to reach, or one of those known to be missed
\* (redisCache.ts).
CopiesExplained == TypeOK /\ StaleExplained

Fresh == /\ \A p \in Process, k \in Key : mem[p][k] # "stale"
         /\ \A k \in Key : red[k] # "stale"

\* Whatever the evictions miss, the times to live repair: when changes stop, every copy is
\* in the end the rows.
EventuallyFresh == <>[]Fresh

=============================================================================
