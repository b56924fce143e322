------------------------------ MODULE KafkaConsumer ------------------------------
(***************************************************************************)
(* One shard's Kafka consumer (src/kafka/consumer.cc) under the kafka      *)
(* input (src/kafka/components.cc): start, poll, rejoin, ack, commit_acked *)
(* and stop, against brokers that move leaders, delete old records and     *)
(* answer with errors, a group that rebalances, a pipeline that acks       *)
(* batches in any order, and a process that may die at any moment.         *)
(*                                                                         *)
(* The owner of the group on shard 0 is reduced here to what this shard    *)
(* sees of it: the pushed assignment `cache` and the table `staged` that   *)
(* offers go into.  GroupMembership models the owner itself.               *)
(*                                                                         *)
(* Within one Fetch answer the partitions are handled one step each.  The  *)
(* code handles them without suspending; the only steps that can fall in   *)
(* between here (acks, broker events) touch nothing the loop reads.        *)
(***************************************************************************)
EXTENDS Integers, FiniteSets, FiniteSetsExt

CONSTANTS
    Partitions,         \* the topic-partitions of the subscription
    TopicOf,            \* the topic of each partition
    Nodes,              \* broker ids, naturals: std::map visits them in order
    Log,                \* for each partition the set of its record batches
    InitLeader,         \* the leaders before the first start
    InitEnd,            \* the log ends before the first start
    InitCommitted,      \* the group's committed offsets before the first start
    StartFromOldest,    \* consumer_config::start_from_oldest
    Corruptible,        \* partitions whose blob may fail to decode
    Leaderless,         \* partitions that may be without a leader for a while
    MayNack,            \* the pipeline may reject a batch for good
    MaxBatches,         \* bound: batches in the pipeline
    MaxFaults           \* bound: errors, nacks, rebalances, leader moves, crashes

-----------------------------------------------------------------------------
(* offset_tracker: which offset of one partition is safe to commit.  A       *)
(* tracker remembers what was DELIVERED and is still outstanding, so that    *)
(* offsets which do not exist (compaction, control records) hold nothing back. *)

\* "No offset": std::nullopt, a group that never committed (-1 on the wire),
\* a fetch position that ListOffsets has still to resolve.
NoOffset == -1

\* One past the highest offset delivered, the offset last committed (offered),
\* and the offsets delivered and not yet acked.
Tracker == [position : Nat \cup {NoOffset}, committed : Nat \cup {NoOffset},
             in_flight : SUBSET Nat]

FreshTracker == [position |-> NoOffset, committed |-> NoOffset, in_flight |-> {}]

Larger(a, b) == IF a >= b THEN a ELSE b

\* deliver() called for each offset of the set S, in ascending order.
Deliver(t, S) ==
    IF S = {} THEN t
    ELSE [t EXCEPT !.in_flight = @ \cup S, !.position = Larger(@, Max(S) + 1)]

\* ack() called for each offset of S; an unknown offset is a no-op.
Ack(t, S) == [t EXCEPT !.in_flight = @ \ S]

\* A slip: the watermark is where the newest record in flight starts.
ResumeAtNewest(t) == IF t.in_flight = {} THEN t.position ELSE Max(t.in_flight)

\* Where a restarted consumer has to resume: the oldest record in flight.
Resume(t) == IF t.in_flight = {} THEN t.position ELSE Min(t.in_flight)

\* The offset to commit, or NoOffset when it is not ahead of the last one.
Committable(t) ==
    IF Resume(t) < 0 \/ Resume(t) <= t.committed THEN NoOffset ELSE Resume(t)

\* Records a commit; on a rebalance it also seeds the position.
MarkCommitted(t, o) ==
    [position |-> Larger(t.position, o), committed |-> o, in_flight |-> t.in_flight]
-----------------------------------------------------------------------------
NoLeader == -1

Data(p) == UNION {b.records : b \in {x \in Log[p] : ~x.control}}
Boundaries(p) == {0} \cup {b.last + 1 : b \in Log[p]}

\* A batch occupies the offsets first..last.  Compaction removes records from
\* a batch and keeps its range, so `records` may have holes anywhere.
ASSUME LogAssumption ==
    /\ Nodes \subseteq Nat /\ InitLeader \in [Partitions -> Nodes]
    /\ InitCommitted \in [Partitions -> Nat \cup {NoOffset}]
    /\ InitEnd \in [Partitions -> Nat]
    /\ \A p \in Partitions :
        /\ Log[p] # {} /\ IsFiniteSet(Log[p])
        /\ InitEnd[p] \in Boundaries(p) /\ InitEnd[p] >= InitCommitted[p]
        /\ \A b \in Log[p] :
            /\ b.first \in Nat /\ b.last \in Nat /\ b.segment \in Nat
            /\ b.control \in BOOLEAN
            /\ b.records \subseteq b.first .. b.last
        /\ \A a, b \in Log[p] :
            /\ a = b \/ a.last < b.first \/ b.last < a.first
            /\ a.last < b.first => a.segment <= b.segment

VARIABLES
    \* the consumer
    pc,             \* where the coroutine of poll, start or stop stands
    started,        \* _started
    abort,          \* the stream's abort source has fired
    assignment,     \* _assignment
    generation,     \* _generation
    next,           \* _next: the offset to fetch from
    tracked,        \* _tracked: one offset_tracker per partition
    needsRejoin,    \* _needs_rejoin
    needsRefresh,   \* _needs_refresh
    leader,         \* the leaders in this shard's cached metadata
    \* locals of the poll, at their initial values when it is not running
    finished,       \* commit_acked's table
    todo,           \* leaders the fetch loop has still to visit
    entries,        \* partitions of the current answer still to handle
    out,            \* records decoded
    stale,          \* stale_metadata
    pending,        \* an error is held
    hard,           \* stop fetching from further leaders
    \* the pipeline
    batches,        \* batches handed out and not answered
    refused,        \* records of nacked batches
    \* the group, as this shard sees it
    cache,          \* membership::current
    staged,         \* the owner's staged offsets
    committed,      \* the offsets committed at the broker
    \* the brokers
    actual,         \* the leaders there really are
    hw,             \* the high watermark
    logStart,       \* the oldest offset retained
    \* histories
    processed,      \* records the pipeline of some member finished
    passed,         \* the highest offset ListOffsets made this group start at
    handed,         \* records decoded since the last rejoin
    faults

poll == <<finished, todo, entries, out, stale, pending, hard>>
consumer == <<started, assignment, generation, next, tracked, needsRejoin,
              needsRefresh, leader>>
pipeline == <<batches, refused>>
group == <<cache, staged, committed>>
brokers == <<actual, hw, logStart>>
history == <<processed, passed, handed>>
vars == <<pc, abort, consumer, poll, pipeline, group, brokers, history, faults>>

Records == {<<p, o>> : p \in Partitions, o \in UNION {Data(q) : q \in Partitions}}
None == [p \in Partitions |-> NoOffset]
OffsetsOf(S, p) == {o \in Data(p) : <<p, o>> \in S}

Init ==
    /\ pc = "start" /\ started = FALSE /\ abort = FALSE
    /\ assignment = {} /\ generation = NoOffset
    /\ next = None /\ tracked = [p \in Partitions |-> FreshTracker]
    /\ needsRejoin = FALSE /\ needsRefresh = FALSE
    /\ leader = [p \in Partitions |-> NoLeader]
    /\ finished = None /\ todo = {} /\ entries = {} /\ out = {}
    /\ stale = FALSE /\ pending = FALSE /\ hard = FALSE
    /\ batches = {} /\ refused = {}
    /\ cache = [generation |-> 1, partitions |-> Partitions, committed |-> InitCommitted]
    /\ staged = None /\ committed = InitCommitted
    /\ actual = InitLeader
    /\ hw = InitEnd
    /\ logStart = [p \in Partitions |-> 0]
    /\ processed = {r \in Records : r[2] \in Data(r[1]) /\ r[2] < InitCommitted[r[1]]}
    /\ passed = [p \in Partitions |-> 0] /\ handed = {}
    /\ faults = 0

\* An event that happens at most MaxFaults times in a behaviour.
Fault == faults < MaxFaults /\ faults' = faults + 1

-----------------------------------------------------------------------------
(* resolve_start_offsets: ListOffsets for every assigned partition whose     *)
(* position is unknown and whose leader the metadata names.                  *)

Unresolved(lead) == {p \in assignment : next[p] < 0 /\ lead[p] # NoLeader}

\* The oldest offset retained, or the end of the log.
StartOffset(p) == IF StartFromOldest THEN logStart[p] ELSE hw[p]

ResolveOffsets(S) ==
    /\ next' = [p \in Partitions |-> IF p \in S THEN StartOffset(p) ELSE next[p]]
    /\ passed' = [p \in Partitions |->
                    IF p \in S THEN Larger(passed[p], StartOffset(p)) ELSE passed[p]]

-----------------------------------------------------------------------------
(* start and rejoin                                                          *)

\* start(): metadata first, then the group.
Start ==
    /\ pc = "start"
    /\ leader' = actual /\ pc' = "rejoin"
    /\ UNCHANGED <<abort, started, assignment, generation, next, tracked, needsRejoin,
                   needsRefresh, poll, pipeline, group, brokers, history, faults>>

\* An error leaves poll, and the input backs off before the next one; it leaves
\* start, and the process ends and is started again.
Failed == IF started THEN "backoff" ELSE "start"

\* rejoin up to resolve_start_offsets: the share that shard 0 pushed, with
\* empty trackers except for the offsets committed.
Attach ==
    /\ pc = "rejoin"
    /\ assignment' = cache.partitions /\ generation' = cache.generation
    /\ next' = [p \in Partitions |->
                  IF p \in assignment' THEN cache.committed[p] ELSE NoOffset]
    /\ tracked' = [p \in Partitions |->
                    IF next'[p] >= 0 THEN MarkCommitted(FreshTracker, next'[p])
                                     ELSE FreshTracker]
    /\ handed' = {} /\ pc' = "resolve"
    /\ UNCHANGED <<abort, started, needsRejoin, needsRefresh, leader, poll,
                   pipeline, group, brokers, processed, passed, faults>>

AttachFails ==
    /\ pc = "rejoin" /\ Fault
    /\ pc' = Failed
    /\ UNCHANGED <<abort, consumer, poll, pipeline, group, brokers, history>>

\* The rest of rejoin, and of start.
Rejoined ==
    /\ pc = "resolve"
    /\ \A p \in Unresolved(leader) : leader[p] = actual[p]
    /\ ResolveOffsets(Unresolved(leader))
    /\ needsRejoin' = FALSE /\ started' = TRUE /\ pc' = "idle"
    /\ UNCHANGED <<abort, assignment, generation, tracked, needsRefresh, leader, poll,
                   pipeline, group, brokers, processed, handed, faults>>

\* A leader that does not answer, or no longer leads: some partitions are
\* resolved and the error leaves rejoin.
RejoinFails ==
    /\ pc = "resolve"
    /\ \/ /\ \E p \in Unresolved(leader) : leader[p] # actual[p]
          /\ UNCHANGED faults
       \/ Unresolved(leader) # {} /\ Fault
    /\ \E S \in SUBSET {p \in Unresolved(leader) : leader[p] = actual[p]} : ResolveOffsets(S)
    /\ pc' = Failed
    /\ UNCHANGED <<abort, started, assignment, generation, tracked, needsRejoin,
                   needsRefresh, leader, poll, pipeline, group, brokers, processed,
                   handed>>

-----------------------------------------------------------------------------
(* poll up to the fetch loop: check_generation and commit_acked              *)

Committables == [p \in Partitions |-> Committable(tracked[p])]

\* Where the coroutine goes after commit_acked.
AfterCommit(rejoin) ==
    IF ~started THEN "flush" ELSE IF rejoin THEN "rejoin" ELSE "fetch"

PollBegin ==
    /\ pc = "idle" /\ started /\ ~abort
    /\ Cardinality(batches) < MaxBatches
    /\ needsRejoin' = (needsRejoin \/ cache.generation # generation)
    /\ finished' = Committables
    /\ pc' = IF finished' = None THEN AfterCommit(needsRejoin') ELSE "offering"
    /\ UNCHANGED <<abort, started, assignment, generation, next, tracked, needsRefresh,
                   leader, todo, entries, out, stale, pending, hard, pipeline, group,
                   brokers, history, faults>>

\* membership::offer, on shard 0: merged by maximum.
Offer ==
    /\ pc = "offering"
    /\ staged' = [p \in Partitions |-> Larger(staged[p], finished[p])]
    /\ pc' = "offered"
    /\ UNCHANGED <<abort, consumer, poll, pipeline, cache, committed, brokers, history,
                   faults>>

\* Back on this shard: the offers count as committed.
OfferReturns ==
    /\ pc = "offered"
    /\ tracked' = [p \in Partitions |->
                    IF finished[p] >= 0 THEN MarkCommitted(tracked[p], finished[p])
                                        ELSE tracked[p]]
    /\ finished' = None
    /\ pc' = AfterCommit(needsRejoin)
    /\ UNCHANGED <<abort, started, assignment, generation, next, needsRejoin,
                   needsRefresh, leader, todo, entries, out, stale, pending, hard, pipeline, group, brokers, history,
                   faults>>

\* One Fetch per leader; without any, the poll sleeps and returns nothing.
GroupByLeader ==
    /\ pc = "fetch"
    /\ todo' = {leader[p] : p \in assignment} \ {NoLeader}
    /\ pc' = IF todo' = {} THEN "idle" ELSE "leaders"
    /\ UNCHANGED <<abort, consumer, finished, entries, out, stale, pending, hard, pipeline, group, brokers,
                   history, faults>>

-----------------------------------------------------------------------------
(* The fetch loop, one leader at a time                                      *)

Visiting(n) == pc = "leaders" /\ ~hard /\ ~abort /\ todo # {} /\ n = Min(todo)

FetchState == <<abort, consumer, finished, pipeline, group, brokers, history>>

\* cluster::broker could not connect.
BrokerUnreachable ==
    \E n \in Nodes :
        /\ Visiting(n) /\ Fault
        /\ stale' = TRUE /\ todo' = todo \ {n}
        /\ UNCHANGED <<FetchState, pc, entries, out, pending, hard>>

\* A slip: the error of a later leader leaves poll at once.
SendFailsAtOnce ==
    \E n \in Nodes :
        /\ Visiting(n) /\ Fault
        /\ out' = {} /\ todo' = {} /\ pc' = "backoff"
        /\ stale' = FALSE /\ pending' = FALSE /\ hard' = FALSE
        /\ UNCHANGED <<FetchState, entries>>

\* The request was lost with its connection: the error is held.
SendFails ==
    \E n \in Nodes :
        /\ Visiting(n) /\ Fault
        /\ pending' = TRUE /\ stale' = TRUE /\ todo' = todo \ {n}
        /\ UNCHANGED <<FetchState, pc, entries, out, hard>>

\* An error for the whole answer: retriable, or the end of the loop.
AnswerError ==
    \E n \in Nodes :
        /\ Visiting(n) /\ Fault
        /\ \/ stale' = TRUE /\ todo' = todo \ {n} /\ UNCHANGED pending
           \/ pending' = TRUE /\ todo' = {} /\ UNCHANGED stale
        /\ UNCHANGED <<FetchState, pc, entries, out, hard>>

Answer ==
    \E n \in Nodes :
        /\ Visiting(n)
        /\ entries' = {p \in assignment : leader[p] = n}
        /\ todo' = todo \ {n} /\ pc' = "parts"
        /\ UNCHANGED <<FetchState, out, stale, pending, hard, faults>>

LeadersDone ==
    /\ pc = "leaders" /\ (todo = {} \/ hard \/ abort)
    /\ todo' = {} /\ pc' = IF stale \/ needsRefresh THEN "refresh" ELSE "end"
    /\ UNCHANGED <<FetchState, entries, out, stale, pending, hard, faults>>

-----------------------------------------------------------------------------
(* The entries of one answer                                                 *)

\* The broker answers with whole batches, beginning with the one that reaches
\* the offset asked for: as many as fit, from one segment of the log.
Visible(p) == {b \in Log[p] : b.last >= next[p] /\ b.last < hw[p]}
Sent(p, upto) ==
    {b \in Visible(p) : b.last <= upto /\ \A x \in Visible(p) : b.segment <= x.segment}
InRange(p) == next[p] >= logStart[p] /\ next[p] <= hw[p]

\* The topic's uuid is not in the metadata: its entries are skipped.
UnknownTopic ==
    \E p \in entries :
        /\ pc = "parts" /\ Fault
        /\ entries' = {q \in entries : TopicOf[q] # TopicOf[p]} /\ stale' = TRUE
        /\ UNCHANGED <<FetchState, pc, todo, out, pending, hard>>

OutOfRange ==
    \E p \in entries :
        /\ pc = "parts" /\ leader[p] = actual[p] /\ ~InRange(p)
        /\ next' = [next EXCEPT ![p] = NoOffset]
        /\ stale' = TRUE /\ entries' = entries \ {p}
        /\ UNCHANGED <<pc, abort, started, assignment, generation, tracked, needsRejoin,
                       needsRefresh, leader, finished, todo, out, pending, hard,
                       pipeline, group, brokers, history, faults>>

\* The broker no longer leads the partition, or another retriable error.
PartitionRetriable ==
    \E p \in entries :
        /\ pc = "parts"
        /\ IF leader[p] # actual[p] THEN UNCHANGED faults ELSE Fault
        /\ stale' = TRUE /\ entries' = entries \ {p}
        /\ UNCHANGED <<FetchState, pc, todo, out, pending, hard>>

\* A partition's own fatal error ends this topic's loop and, through the flag,
\* the loop over the leaders.
PartitionFatal ==
    \E p \in entries :
        /\ pc = "parts" /\ Fault
        /\ pending' = TRUE /\ hard' = TRUE
        /\ entries' = {q \in entries : TopicOf[q] # TopicOf[p]}
        /\ UNCHANGED <<FetchState, pc, todo, out, stale>>

NoRecords ==
    \E p \in entries :
        /\ pc = "parts" /\ leader[p] = actual[p] /\ InRange(p)
        /\ Visible(p) = {}
        /\ entries' = entries \ {p}
        /\ UNCHANGED <<FetchState, pc, todo, out, stale, pending, hard, faults>>

Read(S) == UNION {b.records : b \in S}

\* A slip: what the batch holds below the position is delivered again.
FreshAll(p, S) == UNION {b.records : b \in {x \in S : ~x.control}}

\* The data records at or past the position; control batches are not data.
Fresh(p, S) == {o \in UNION {b.records : b \in {x \in S : ~x.control}} : o >= next[p]}

\* A slip: control records do not move the position.
NextAfterData(p, S) ==
    IF Fresh(p, S) = {} THEN next[p] ELSE Larger(next[p], Max(Fresh(p, S)) + 1)

\* The position moves past every record read, a control record too.
NextAfter(p, S) ==
    IF Read(S) = {} THEN next[p] ELSE Larger(next[p], Max(Read(S)) + 1)

\* A slip: the tracker is never told of a delivery.
Untracked(t, S) == [t EXCEPT !.position = Deliver(t, S).position]

TrackDelivery(t, S) == Deliver(t, S)

GotRecords ==
    \E p \in entries : \E upto \in {b.last : b \in Visible(p)} :
        LET S == Sent(p, upto) IN
        /\ pc = "parts" /\ leader[p] = actual[p] /\ InRange(p)
        /\ upto \in {b.last : b \in S}
        /\ out' = out \cup {<<p, o>> : o \in Fresh(p, S)}
        /\ handed' = handed \cup {<<p, o>> : o \in Fresh(p, S)}
        /\ tracked' = [tracked EXCEPT ![p] = TrackDelivery(@, Fresh(p, S))]
        /\ next' = [next EXCEPT ![p] = NextAfter(p, S)]
        /\ entries' = entries \ {p}
        /\ UNCHANGED <<pc, abort, started, assignment, generation, needsRejoin,
                       needsRefresh, leader, finished, todo, stale, pending, hard,
                       pipeline, group, brokers, processed, passed, faults>>

\* decode_batches throws (CRC, codec, magic): nothing in poll catches it.
CorruptRecords ==
    \E p \in entries \cap Corruptible :
        /\ pc = "parts" /\ leader[p] = actual[p] /\ InRange(p) /\ Visible(p) # {} /\ Fault
        /\ out' = {} /\ entries' = {} /\ todo' = {} /\ pc' = "backoff"
        /\ stale' = FALSE /\ pending' = FALSE /\ hard' = FALSE
        /\ UNCHANGED FetchState

EntriesDone ==
    /\ pc = "parts" /\ entries = {}
    /\ pc' = "leaders"
    /\ UNCHANGED <<FetchState, poll, faults>>

-----------------------------------------------------------------------------
(* The end of the poll                                                       *)

Refresh ==
    /\ pc = "refresh"
    /\ leader' = actual
    /\ ResolveOffsets(Unresolved(actual))
    /\ needsRefresh' = FALSE /\ pc' = "end"
    /\ UNCHANGED <<abort, started, assignment, generation, tracked, needsRejoin, poll,
                   pipeline, group, brokers, processed, handed, faults>>

\* The metadata or a ListOffsets request failed: tried again by the next poll.
RefreshFails ==
    /\ pc = "refresh" /\ Fault
    /\ \/ UNCHANGED <<leader, next, passed>>
       \/ leader' = actual /\ \E S \in SUBSET Unresolved(actual) : ResolveOffsets(S)
    /\ needsRefresh' = TRUE
    /\ pending' = (pending \/ out = {})
    /\ pc' = "end"
    /\ UNCHANGED <<abort, started, assignment, generation, tracked, needsRejoin,
                   finished, todo, entries, out, stale, hard, pipeline, group,
                   brokers, processed, handed>>

\* A held error surfaces only when there is nothing to hand out; an empty poll
\* is followed by another; a batch goes to the stream.
PollEnd ==
    /\ pc = "end"
    /\ pc' = IF pending /\ out = {} THEN "backoff" ELSE "idle"
    /\ batches' = IF out = {} THEN batches
                  ELSE batches \cup {[generation |-> generation, records |-> out]}
    /\ out' = {} /\ stale' = FALSE /\ pending' = FALSE /\ hard' = FALSE
    /\ UNCHANGED <<abort, consumer, finished, todo, entries, refused, group, brokers, history, faults>>

\* kafka_input::read_batch sleeps and polls again.
Backoff ==
    /\ pc = "backoff" /\ pc' = "idle"
    /\ UNCHANGED <<abort, consumer, poll, pipeline, group, brokers, history, faults>>

-----------------------------------------------------------------------------
(* The pipeline answers a batch: the ack_fn of kafka_input                   *)

\* consumer::ack for every record of S; a partition no longer tracked, or an
\* offset its tracker does not hold, is a no-op.
AckRecords(S) == [p \in Partitions |-> Ack(tracked[p], OffsetsOf(S, p))]

AckBatch(b) ==
    /\ b \in batches
    /\ tracked' = AckRecords(b.records)
    /\ processed' = processed \cup b.records
    /\ batches' = batches \ {b}
    /\ UNCHANGED <<pc, abort, started, assignment, generation, next, needsRejoin,
                   needsRefresh, leader, poll, refused, group, brokers, passed, handed,
                   faults>>

NackBatch(b) ==
    /\ b \in batches /\ MayNack /\ Fault
    /\ batches' = batches \ {b} /\ refused' = refused \cup b.records
    /\ UNCHANGED <<pc, abort, consumer, poll, group, brokers, history>>

-----------------------------------------------------------------------------
(* Shutdown, and the death of the process                                    *)

Abort ==
    /\ ~abort /\ started /\ Fault
    /\ abort' = TRUE
    /\ UNCHANGED <<pc, consumer, poll, pipeline, group, brokers, history>>

\* stop(), after the input loop has ended: offer what is finished ...
Stop ==
    /\ pc \in {"idle", "backoff"} /\ started /\ abort
    /\ started' = FALSE
    /\ finished' = Committables
    /\ pc' = IF finished' = None THEN "flush" ELSE "offering"
    /\ UNCHANGED <<abort, assignment, generation, next, tracked, needsRejoin, needsRefresh,
                   leader, todo, entries, out, stale, pending, hard, pipeline, group,
                   brokers, history, faults>>

\* ... and commit it now; a commit that fails is only logged.
Flush ==
    /\ pc = "flush" /\ pc' = "stopped"
    /\ \/ /\ committed' = [p \in Partitions |->
                            IF staged[p] >= 0 THEN staged[p] ELSE committed[p]]
          /\ staged' = None /\ UNCHANGED faults
       \/ UNCHANGED <<committed, staged>> /\ Fault
    /\ UNCHANGED <<abort, consumer, poll, pipeline, cache, brokers, history>>

\* A new process: everything in memory is gone, the group counts a rebalance.
NewProcess ==
    /\ pc' = "start" /\ started' = FALSE /\ abort' = FALSE
    /\ assignment' = {} /\ generation' = NoOffset /\ next' = None
    /\ tracked' = [p \in Partitions |-> FreshTracker]
    /\ needsRejoin' = FALSE /\ needsRefresh' = FALSE
    /\ leader' = [p \in Partitions |-> NoLeader]
    /\ finished' = None /\ todo' = {} /\ entries' = {} /\ out' = {}
    /\ stale' = FALSE /\ pending' = FALSE /\ hard' = FALSE
    /\ batches' = {} /\ refused' = {} /\ handed' = {}
    /\ staged' = None
    /\ cache' = [cache EXCEPT !.generation = @ + 1, !.committed = committed]
    /\ UNCHANGED <<committed, brokers, processed, passed>>

Crash == Fault /\ NewProcess
Restart == pc = "stopped" /\ NewProcess /\ UNCHANGED faults

-----------------------------------------------------------------------------
(* The group and the brokers                                                 *)

\* The owner's commit timer.
CommitStaged ==
    /\ staged # None /\ pc # "stopped"
    /\ committed' = [p \in Partitions |->
                      IF staged[p] >= 0 THEN staged[p] ELSE committed[p]]
    /\ staged' = None
    /\ UNCHANGED <<pc, abort, consumer, poll, pipeline, cache, brokers, history, faults>>

\* A rebalance on shard 0: a new share with the offsets committed, and staged
\* offsets only for what is still owned.
Rebalance ==
    /\ Fault
    /\ \E S \in SUBSET Partitions :
        /\ cache' = [generation |-> cache.generation + 1, partitions |-> S,
                     committed |-> committed]
        /\ staged' = [p \in Partitions |-> IF p \in S THEN staged[p] ELSE NoOffset]
    /\ UNCHANGED <<pc, abort, consumer, poll, pipeline, committed, brokers, history>>

\* Another member reads on from the committed offset and commits its progress.
OtherMember(p) ==
    /\ p \notin cache.partitions
    /\ \E b \in Log[p] :
        /\ b.last + 1 > committed[p] /\ b.last < hw[p]
        /\ processed' = processed \cup
                        {<<p, o>> : o \in {x \in Data(p) : x <= b.last /\ x >= committed[p]}}
        /\ committed' = [committed EXCEPT ![p] = b.last + 1]
    /\ UNCHANGED <<pc, abort, consumer, poll, pipeline, cache, staged, brokers, passed,
                   handed, faults>>

\* Leadership moves to another broker, at once or through an election.
LeaderMoves(p) ==
    /\ Fault
    /\ \E n \in Nodes \cup (IF p \in Leaderless THEN {NoLeader} ELSE {}) :
        actual' = [actual EXCEPT ![p] = n]
    /\ UNCHANGED <<pc, abort, consumer, poll, pipeline, group, hw, logStart, history>>

Elected(p) ==
    /\ actual[p] = NoLeader
    /\ \E n \in Nodes : actual' = [actual EXCEPT ![p] = n]
    /\ UNCHANGED <<pc, abort, consumer, poll, pipeline, group, hw, logStart, history,
                   faults>>

\* A producer appends the next batch.
Append(p) ==
    /\ \E h \in Boundaries(p) :
        /\ h > hw[p] /\ \A g \in Boundaries(p) : g > hw[p] => h <= g
        /\ hw' = [hw EXCEPT ![p] = h]
    /\ UNCHANGED <<pc, abort, consumer, poll, pipeline, group, actual, logStart, history,
                   faults>>

\* Retention deletes the oldest batches.
Retention(p) ==
    /\ Fault
    /\ \E b \in Log[p] : b.first > logStart[p] /\ b.first < hw[p] /\ logStart' = [logStart EXCEPT ![p] = b.first]
    /\ UNCHANGED <<pc, abort, consumer, poll, pipeline, group, actual, hw, history>>

-----------------------------------------------------------------------------
PollStep ==
    \/ Start \/ Attach \/ Rejoined \/ PollBegin \/ Offer \/ OfferReturns \/ GroupByLeader
    \/ Answer \/ LeadersDone \/ OutOfRange \/ NoRecords \/ GotRecords \/ EntriesDone
    \/ Refresh \/ PollEnd \/ Backoff \/ Stop \/ Flush \/ Restart
    \/ RejoinFails \/ PartitionRetriable

FaultStep ==
    \/ AttachFails \/ BrokerUnreachable \/ SendFails \/ AnswerError \/ UnknownTopic
    \/ PartitionFatal \/ CorruptRecords \/ RefreshFails \/ Abort \/ Crash

PipelineStep == \E b \in batches : AckBatch(b) \/ NackBatch(b)

GroupStep == CommitStaged \/ Rebalance \/ \E p \in Partitions : OtherMember(p)

BrokerStep == \E p \in Partitions : LeaderMoves(p) \/ Elected(p) \/ Append(p) \/ Retention(p)

Next == PollStep \/ FaultStep \/ PipelineStep \/ GroupStep \/ BrokerStep

Spec == Init /\ [][Next]_vars

\* The coroutine runs on, every batch is answered, the commit timer fires, and
\* an election ends.  Faults are finite (MaxFaults), so the code is asked to
\* recover once they stop.
Fairness ==
    /\ WF_vars(PollStep) /\ WF_vars(CommitStaged)
    /\ WF_vars(\E b \in batches : AckBatch(b))
    /\ \A p \in Partitions : WF_vars(Elected(p))
-----------------------------------------------------------------------------
(* Properties                                                                *)

TypeOK ==
    /\ pc \in {"start", "rejoin", "resolve", "idle", "offering", "offered", "fetch",
               "leaders", "parts", "refresh", "end", "backoff", "flush", "stopped"}
    /\ {started, abort, needsRejoin, needsRefresh, stale, pending, hard} \subseteq BOOLEAN
    /\ assignment \subseteq Partitions /\ entries \subseteq assignment
    /\ generation \in Int
    /\ next \in [Partitions -> Nat \cup {NoOffset}] /\ tracked \in [Partitions -> Tracker]
    /\ leader \in [Partitions -> Nodes \cup {NoLeader}] /\ todo \subseteq Nodes
    /\ finished \in [Partitions -> Nat \cup {NoOffset}]
    /\ staged \in [Partitions -> Nat \cup {NoOffset}]
    /\ committed \in [Partitions -> Nat \cup {NoOffset}]
    /\ out \subseteq Records /\ handed \subseteq Records /\ refused \subseteq Records
    /\ batches \subseteq [generation : Int, records : SUBSET Records]
    /\ cache \in [generation : Int, partitions : SUBSET Partitions,
                  committed : [Partitions -> Nat \cup {NoOffset}]]
    /\ actual \in [Partitions -> Nodes \cup {NoLeader}]
    /\ hw \in [Partitions -> Nat] /\ logStart \in [Partitions -> Nat]
    /\ passed \in [Partitions -> Nat] /\ processed \subseteq Records
    /\ faults \in Nat

\* Every data record below offset c of p was finished by some pipeline, or lies
\* below an offset that ListOffsets told the group to start at.
Safe(p, c) ==
    \A o \in Data(p) : o < c => <<p, o>> \in processed \/ o < passed[p]

\* At-least-once delivery: whatever the order of acks, nacks, rebalances,
\* errors, stops and crashes, the offset the group would resume from never has
\* an unfinished record below it -- nor does an offset on its way there.
CommitSafe == \A p \in Partitions : Safe(p, committed[p]) /\ Safe(p, staged[p])

\* What the fetch position has moved past is finished, in flight, or before the
\* start: no record is skipped, whatever holes and control records the log has.
NothingSkipped ==
    \A p \in Partitions : \A o \in Data(p) :
        o < next[p] => \/ <<p, o>> \in processed
                       \/ o < passed[p]
                       \/ o \in tracked[p].in_flight

\* poll never decodes a record twice under one assignment, although a broker
\* sends whole batches that may begin before the offset asked for.
NoRepeat == [][(out' \ out) \cap handed = {}]_vars

\* "records already decoded are handed to the caller first": a record the
\* tracker counts as delivered is in the poll's hands, in a batch in the
\* pipeline, or was rejected by the pipeline.
DecodedIsHandedOut ==
    \A p \in Partitions : \A o \in tracked[p].in_flight :
        \/ <<p, o>> \in out \cup refused
        \/ \E b \in batches : <<p, o>> \in b.records

\* Data that is in the log, retained, and not before the group's start.
Due(p) == {o \in Data(p) : o < hw[p] /\ o >= logStart[p] /\ o >= passed[p]}

\* Once faults stop, every record of an assigned partition is read, finished
\* and committed: no hole, control record, ack out of order, leader that moves,
\* rebalance, crash, or commit that fails at a stop freezes the group's position.
\* Left out is what others had committed when the partition was assigned: a late
\* ack of an assignment before that takes the position back behind it.
EverythingCommitted ==
    \A p \in Partitions :
        p \in cache.partitions ~>
            p \notin cache.partitions \/ \A o \in Due(p) : o < committed[p] \/ o < cache.committed[p]
==================================================================================
