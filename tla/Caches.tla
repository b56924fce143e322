------------------------------- MODULE Caches -------------------------------
(***************************************************************************)
(* The caches behind dedupe.  All have one operation, add(key): is the key *)
(* new?  memory keeps entries with an expiry and sweeps, on a write, the   *)
(* shard it writes to; lru evicts the oldest; file creates a file, where   *)
(* the filesystem decides which of two concurrent adds came first.         *)
(***************************************************************************)
EXTENDS Naturals, Sequences, FiniteSets, SequencesExt

CONSTANTS
    Kind,        \* "memory", "lru" or "file"
    Keys,
    ShardOf,     \* memory: the shard of each key
    Ttl,         \* memory: default_ttl
    Compaction,  \* memory: compaction_interval, zero when it is disabled
    Cap,         \* lru: cap
    InitKeys,    \* init_values, in order; a key may come twice
    MaxTime,     \* bound: ticks
    MaxNew       \* bound: keys found new

CacheShards == {ShardOf[k] : k \in Keys}
Never       == MaxTime + Ttl + 1   \* an expiry that no time reaches

VARIABLES
    now,
    entries,    \* memory: the expiry of each key that is present
    swept,      \* memory: last_sweep of each shard
    order,      \* lru: _order, and _index, which holds the same keys
    files,      \* file: the files there are
    asked,      \* file: adds whose open() is under way, as sequence numbers
    news        \* pairs key, time of the adds that answered "new"

vars == <<now, entries, swept, order, files, asked, news>>

\* insert(): a key that is there moves to the front; else the oldest goes.
Insert(o, k) ==
    IF Contains(o, k) THEN <<k>> \o Remove(o, k)
    ELSE SubSeq(<<k>> \o o, 1, IF Len(o) + 1 > Cap THEN Cap ELSE Len(o) + 1)

Init ==
    /\ now = 0 /\ swept = [s \in CacheShards |-> 0] /\ files = {} /\ asked = {} /\ news = <<>>
    /\ entries = IF Kind = "memory" THEN [k \in ToSet(InitKeys) |-> Never] ELSE <<>>
    /\ order = IF Kind = "lru" THEN FoldLeft(Insert, <<>>, InitKeys) ELSE <<>>

New(k) == news' = Append(news, <<k, now>>)

SweepDue(k) == Compaction > 0 /\ now - swept[ShardOf[k]] >= Compaction

\* memory_cache::add: presence decides, not liveness; a write sweeps its shard.
AddMemory(k) ==
    /\ Kind = "memory" /\ Len(news) < MaxNew
    /\ IF k \in DOMAIN entries THEN UNCHANGED <<entries, swept, news>>
       ELSE LET kept == {j \in DOMAIN entries :
                            ~(SweepDue(k) /\ ShardOf[j] = ShardOf[k] /\ entries[j] <= now)}
            IN  /\ entries' = [j \in kept \cup {k} |-> IF j = k THEN now + Ttl ELSE entries[j]]
                /\ swept' = IF SweepDue(k) THEN [swept EXCEPT ![ShardOf[k]] = now] ELSE swept
                /\ New(k)
    /\ UNCHANGED <<now, order, files, asked>>

\* lru_cache::add: a hit does not renew.
AddLru(k) ==
    /\ Kind = "lru" /\ Len(news) < MaxNew
    /\ IF Contains(order, k) THEN UNCHANGED <<order, news>>
       ELSE order' = Insert(order, k) /\ New(k)
    /\ UNCHANGED <<now, entries, swept, files, asked>>

\* file_cache::add: the key is asked for, and the exclusive open answers later.
AskFile(k, n) ==
    /\ Kind = "file" /\ Len(news) < MaxNew /\ <<k, n>> \notin asked /\ asked' = asked \cup {<<k, n>>}
    /\ UNCHANGED <<now, entries, swept, order, files, news>>

ExclusiveOpen(k) ==
    files' = files \cup {k} /\ IF k \in files THEN UNCHANGED news ELSE New(k)

OpenFile(k, n) ==
    /\ <<k, n>> \in asked /\ asked' = asked \ {<<k, n>>} /\ ExclusiveOpen(k)
    /\ UNCHANGED <<now, entries, swept, order>>

Tick == Kind = "memory" /\ now < MaxTime /\ now' = now + 1 /\ UNCHANGED <<entries, swept, order, files, asked, news>>

Next ==
    \/ Tick
    \/ \E k \in Keys : AddMemory(k) \/ AddLru(k) \/ \E n \in 1 .. 2 : AskFile(k, n) \/ OpenFile(k, n)

Spec == Init /\ [][Next]_vars
-----------------------------------------------------------------------------
\* All the insertions of an lru, the initial ones first, without repetition.
Inserted == FoldLeft(LAMBDA o, k : IF Contains(o, k) THEN Append(Remove(o, k), k) ELSE Append(o, k), <<>>, InitKeys)
            \o [i \in DOMAIN news |-> news[i][1]]

\* What dedupe relies on.  A key found new twice was forgotten for a reason: in
\* memory its TTL had passed, in an lru at least cap other keys came after it;
\* a file is never forgotten; and memory's init_values never are.
ForgottenForAReason ==
    /\ Kind \in {"memory", "file"} =>
         \A i, j \in DOMAIN news : i < j /\ news[i][1] = news[j][1] =>
            Kind = "memory" /\ Compaction > 0 /\ news[j][2] >= news[i][2] + Ttl
    /\ Kind = "memory" => \A i \in DOMAIN news : ~Contains(InitKeys, news[i][1])
    /\ Kind = "lru" =>
         /\ Cardinality(ToSet(order)) = Len(order) /\ Len(order) <= Cap
         /\ \A i, j \in DOMAIN Inserted : i < j /\ Inserted[i] = Inserted[j] => j > i + Cap
=============================================================================
