------------------------------ MODULE GroupMembership ------------------------------
(***************************************************************************)
(* The process's membership of one consumer group                          *)
(* (src/kafka/group_membership.cc): the owner on shard 0 with its join,    *)
(* its timers and its staged offsets, the copy of the assignment that each *)
(* shard reads, the consumers that attach, offer, rejoin and detach, the   *)
(* group protocol as consumer_group sees it and the coordinator.           *)
(*                                                                         *)
(* A consumer is reduced to what the owner sees of it: a share it acts on  *)
(* and offsets it has finished.  KafkaConsumer models the consumer itself. *)
(***************************************************************************)
EXTENDS Integers, Sequences, FiniteSets

CONSTANTS
    Consumers,      \* one for each shard of each stream that uses the group
    StreamOf,       \* the stream of each consumer
    ShardOf,        \* the shard of each consumer
    Shards,         \* 0 .. smp::count - 1
    Partitions,     \* partition numbers, naturals
    FaultKinds,     \* the faults that may happen
    MaxOffset,      \* bound: records of a partition
    MaxBeats,       \* bound: heartbeats in flight
    MaxWire,        \* bound: commit requests in flight
    MaxFaults       \* bound: faults in a behaviour

ASSUME MembershipAssumption ==
    /\ IsFiniteSet(Shards) /\ Shards = 0 .. Cardinality(Shards) - 1
    /\ Partitions \subseteq Nat /\ Partitions # {}
    /\ ShardOf \in [Consumers -> Shards] /\ {"timer", "join"} \cap Consumers = {}
    /\ MaxOffset \in Nat /\ MaxBeats \in Nat /\ MaxWire \in Nat /\ MaxFaults \in Nat

VARIABLES
    \* the consumers
    cpc,            \* where each one stands
    up,             \* consumer::_started
    needs,          \* _needs_rejoin
    view,           \* the share it acts on
    acked, marked,  \* offsets finished, and offered
    \* the copy on each shard
    cache,
    \* the owner
    exists, attached, refs, first, armed, stopping,
    generation, full, fetched, staged,
    jpc,            \* where do_join stands, "no" when `joining` is empty
    pushGeneration, toPush,
    \* consumer_group and its requests
    ggen,           \* consumer_group::_generation
    beats,          \* heartbeats in flight
    wire, asleep,   \* commit requests sent, and waiting for a retry
    \* the coordinator
    cgen, member, preparing, mine, committed,
    \* histories
    assigned,       \* the partitions assigned under each generation
    attempted,      \* the highest offset in any commit request
    faults

consumers == <<cpc, up, needs, view, acked, marked>>
owner == <<exists, attached, refs, first, armed, stopping, generation, full, fetched,
           staged>>
join == <<jpc, pushGeneration, toPush>>
requests == <<ggen, beats, wire, asleep>>
coordinator == <<cgen, member, preparing, mine, committed>>
history == <<assigned, attempted>>
vars == <<consumers, cache, owner, join, requests, coordinator, history, faults>>

NoOffset == -1
None == [p \in Partitions |-> NoOffset]
Larger(a, b) == IF a >= b THEN a ELSE b
Merge(s, t) == [p \in Partitions |-> Larger(s[p], t[p])]

NoBeat == -2
Joining == -3

\* shard_share: partition % shards.
ShardShare(S, s) == {p \in S : p % Cardinality(Shards) = s}

NoShare == [generation |-> -1, partitions |-> {}, committed |-> None]

Init ==
    /\ cpc = [c \in Consumers |-> "new"] /\ up = [c \in Consumers |-> FALSE]
    /\ needs = [c \in Consumers |-> FALSE] /\ view = [c \in Consumers |-> NoShare]
    /\ acked = [c \in Consumers |-> None] /\ marked = [c \in Consumers |-> None]
    /\ cache = [s \in Shards |-> NoShare]
    /\ exists = FALSE /\ attached = {} /\ refs = 0 /\ first = {} /\ armed = FALSE
    /\ stopping = FALSE /\ generation = -1 /\ full = {} /\ fetched = None /\ staged = None
    /\ jpc = "no" /\ pushGeneration = -1 /\ toPush = {}
    /\ ggen = -1 /\ beats = [i \in 1 .. MaxBeats |-> NoBeat] /\ wire = <<>> /\ asleep = {}
    /\ cgen = 0 /\ member = FALSE /\ preparing = FALSE /\ mine = {}
    /\ committed = [p \in Partitions |-> 0]
    /\ assigned = <<>> /\ attempted = None /\ faults = 0

Fault(kind) == kind \in FaultKinds /\ faults < MaxFaults /\ faults' = faults + 1

-----------------------------------------------------------------------------
(* commit_staged: the staged table is swapped out and sent                   *)

\* What a request in flight has to tell: who waits for it, the offsets, and
\* the generation consumer_group had when it was sent.
Request(by, offsets) == [by |-> by, offsets |-> offsets, generation |-> ggen]

CanCommit == exists /\ staged # None /\ generation >= 0

SendStaged(by) ==
    /\ Len(wire) < MaxWire
    /\ wire' = Append(wire, Request(by, staged))
    /\ attempted' = Merge(attempted, staged) /\ staged' = None

\* A slip: a failed commit forgets its offsets.
PutBackNothing(r) == staged' = staged

\* A failed commit puts its offsets back.
PutBack(r) == staged' = Merge(staged, r.offsets)

\* Whoever waited for the request goes on.
CommitReturns(r) ==
    /\ cpc' = [c \in Consumers |->
                IF c # r.by THEN cpc[c]
                ELSE IF cpc[c] = "flushing" THEN "detach" ELSE "leaving"]
    /\ jpc' = IF r.by = "join" THEN "joining" ELSE jpc

CommitState == <<up, needs, view, acked, marked, cache, exists, attached, refs, first, armed,
                 stopping, generation, full, fetched, pushGeneration, toPush, ggen, beats,
                 cgen, member, preparing, mine, assigned, attempted>>

\* The coordinator checks the member and the generation, not the ownership.
Accepts(r) == member /\ r.generation = cgen

\* commit_once, answered: requests on the one connection are answered in order.
CommitAnswered ==
    /\ wire # <<>>
    /\ LET r == Head(wire) IN
        /\ IF Accepts(r)
           THEN /\ committed' = [p \in Partitions |->
                                  IF r.offsets[p] >= 0 THEN r.offsets[p] ELSE committed[p]]
                /\ UNCHANGED staged
           ELSE PutBack(r) /\ UNCHANGED committed
        /\ CommitReturns(r)
    /\ wire' = Tail(wire)
    /\ UNCHANGED <<CommitState, asleep, faults>>

\* The connection or the answer was lost.
CommitLost ==
    /\ wire # <<>> /\ Fault("commit")
    /\ PutBack(Head(wire)) /\ CommitReturns(Head(wire))
    /\ wire' = Tail(wire)
    /\ UNCHANGED <<CommitState, committed, asleep>>

\* A retriable error: retrying sleeps and sends again, under the generation
\* there is by then.
CommitRetriable ==
    /\ wire # <<>> /\ Fault("retry")
    /\ asleep' = asleep \cup {Head(wire)} /\ wire' = Tail(wire)
    /\ UNCHANGED <<CommitState, committed, staged, cpc, jpc>>

CommitResend ==
    \E r \in asleep :
        /\ Len(wire) < MaxWire
        /\ wire' = Append(wire, Request(r.by, r.offsets)) /\ asleep' = asleep \ {r}
        /\ UNCHANGED <<CommitState, committed, staged, cpc, jpc, faults>>

\* The commit timer.
CommitTimer ==
    /\ armed /\ ~stopping /\ CanCommit /\ SendStaged("timer")
    /\ UNCHANGED <<consumers, cache, exists, attached, refs, first, armed, stopping,
                   generation, full, fetched, join, ggen, beats, asleep, coordinator,
                   assigned, faults>>

-----------------------------------------------------------------------------
(* do_join and ensure_joined                                                 *)

\* ensure_joined starts do_join only for want of a generation and when none is
\* running; do_join revokes first if there is a generation.
JoinBegins ==
    IF generation' >= 0 /\ staged # None
    THEN jpc' = "revoking" /\ SendStaged("join")
    ELSE jpc' = "joining" /\ UNCHANGED <<wire, staged, attempted>>

\* A shard whose attach failed: start throws, or poll backs off.
Failed(c) == IF up[c] THEN "idle" ELSE "failed"

\* A slip: the slot of a finished join is not cleared.
JoinOverLatched(ok) ==
    /\ jpc' = "latched"
    /\ cpc' = [c \in Consumers |->
                IF cpc[c] # "waiting" THEN cpc[c] ELSE IF ok THEN "joined" ELSE Failed(c)]
    /\ beats' = [i \in 1 .. MaxBeats |-> IF beats[i] = Joining THEN NoBeat ELSE beats[i]]

\* The slot is cleared and everyone who waited resumes.
JoinOver(ok) ==
    /\ jpc' = "no"
    /\ cpc' = [c \in Consumers |->
                IF cpc[c] # "waiting" THEN cpc[c] ELSE IF ok THEN "joined" ELSE Failed(c)]
    /\ beats' = [i \in 1 .. MaxBeats |-> IF beats[i] = Joining THEN NoBeat ELSE beats[i]]

\* JoinGroup and SyncGroup: a new generation at the coordinator.
NewGeneration(S) ==
    /\ cgen' = cgen + 1 /\ ggen' = cgen' /\ member' = TRUE /\ preparing' = FALSE
    /\ mine' = S /\ assigned' = Append(assigned, S)

JoinState == <<up, needs, view, acked, marked, cache, exists, attached, refs, first, armed,
               stopping>>

\* What was staged for a partition not assigned any more is dropped.
KeepOwnedStaged(S) ==
    staged' = [p \in Partitions |-> IF p \in S THEN staged[p] ELSE NoOffset]

\* Requests share one connection and are answered in order, so what was sent
\* before the join is answered before it.
AnsweredBefore == wire = <<>> /\ \A i \in 1 .. MaxBeats : beats[i] < -1

JoinAnswered ==
    /\ jpc = "joining" /\ AnsweredBefore
    /\ \E S \in SUBSET Partitions :
        /\ NewGeneration(S) /\ full' = S /\ KeepOwnedStaged(S)
    /\ generation' = ggen' /\ jpc' = "fetching"
    /\ UNCHANGED <<JoinState, cpc, fetched, pushGeneration, toPush, beats, wire, asleep,
                   committed, attempted, faults>>

\* JoinGroup failed, or the answer to SyncGroup was lost.
JoinFails ==
    /\ jpc = "joining"
    /\ \/ Fault("join") /\ UNCHANGED <<cgen, ggen, member, preparing, mine, assigned>>
       \/ Fault("sync") /\ \E S \in SUBSET Partitions : NewGeneration(S)
    /\ JoinOver(FALSE)
    /\ UNCHANGED <<JoinState, generation, full, fetched, staged, pushGeneration, toPush,
                   wire, asleep, committed, attempted>>

\* fetch_offsets, and publish as far as the payloads.
FetchOffsets ==
    /\ jpc = "fetching"
    /\ fetched' = [p \in Partitions |-> IF p \in full THEN committed[p] ELSE NoOffset]
    /\ pushGeneration' = generation /\ toPush' = Shards /\ jpc' = "publishing"
    /\ UNCHANGED <<JoinState, cpc, generation, full, staged, requests, coordinator, history,
                   faults>>

FetchOffsetsFails ==
    /\ jpc = "fetching" /\ Fault("fetch")
    /\ JoinOver(FALSE)
    /\ UNCHANGED <<JoinState, generation, full, fetched, staged, pushGeneration, toPush,
                   ggen, wire, asleep, coordinator, history>>

\* The share of shard s, with the offsets of its own partitions.
Payload(s) ==
    [generation |-> pushGeneration, partitions |-> ShardShare(full, s),
     committed |-> [p \in Partitions |->
                     IF p \in ShardShare(full, s) THEN fetched[p] ELSE NoOffset]]

\* A slip: the cache is one object that all shards share.
ApplyToAll(s) == cache' = [x \in Shards |-> Payload(s)]

ApplyLocally(s) == cache' = [cache EXCEPT ![s] = Payload(s)]

Push(s) ==
    /\ jpc = "publishing" /\ s \in toPush
    /\ ApplyLocally(s) /\ toPush' = toPush \ {s}
    /\ UNCHANGED <<consumers, owner, jpc, pushGeneration, requests, coordinator, history,
                   faults>>

JoinDone ==
    /\ jpc = "publishing" /\ toPush = {}
    /\ JoinOver(TRUE)
    /\ UNCHANGED <<JoinState, generation, full, fetched, staged, pushGeneration, toPush,
                   ggen, wire, asleep, coordinator, history, faults>>

-----------------------------------------------------------------------------
(* The heartbeat timer                                                       *)

Beat(i) ==
    /\ armed /\ ~stopping /\ beats[i] = NoBeat
    /\ beats' = [beats EXCEPT ![i] = ggen]
    /\ UNCHANGED <<consumers, cache, owner, join, ggen, wire, asleep, coordinator, history,
                   faults>>

\* A slip: an unknown member id is not a reason to join again.
AliveUnlessRebalancing(g) == ~preparing

Alive(g) == member /\ ~preparing /\ g = cgen

\* Not alive: the generation is given up, and ensure_joined.
BeatAnswered(i) ==
    /\ beats[i] >= -1
    /\ IF Alive(beats[i])
       THEN /\ beats' = [beats EXCEPT ![i] = NoBeat]
            /\ UNCHANGED <<generation, jpc, wire, staged, attempted>>
       ELSE /\ beats' = [beats EXCEPT ![i] = Joining]
            /\ generation' = -1
            /\ IF jpc = "no" THEN JoinBegins
               ELSE UNCHANGED <<jpc, wire, staged, attempted>>
    /\ UNCHANGED <<consumers, cache, exists, attached, refs, first, armed, stopping, full,
                   fetched, pushGeneration, toPush, ggen, asleep, coordinator, assigned,
                   faults>>

BeatFails(i) ==
    /\ beats[i] >= -1 /\ Fault("beat")
    /\ beats' = [beats EXCEPT ![i] = NoBeat]
    /\ UNCHANGED <<consumers, cache, owner, join, ggen, wire, asleep, coordinator, history>>

-----------------------------------------------------------------------------
(* attach                                                                    *)

\* consumer::start.
StartConsumer(c) ==
    /\ cpc[c] = "new" /\ cpc' = [cpc EXCEPT ![c] = "attach"]
    /\ UNCHANGED <<up, needs, view, acked, marked, cache, owner, join, requests, coordinator,
                   history, faults>>

\* The first to ask creates the owner and reads the metadata.
CreateOwner(c) ==
    /\ cpc[c] = "attach" /\ ~exists
    /\ exists' = TRUE /\ cpc' = [cpc EXCEPT ![c] = "refresh"]
    /\ UNCHANGED <<up, needs, view, acked, marked, cache, attached, refs, first, armed,
                   stopping, generation, full, fetched, staged, join, requests, coordinator,
                   history, faults>>

CreateFails(c) ==
    /\ cpc[c] = "refresh" /\ Fault("refresh")
    /\ cpc' = [cpc EXCEPT ![c] = Failed(c)]
    /\ UNCHANGED <<up, needs, view, acked, marked, cache, owner, join, requests, coordinator,
                   history>>

NewShard(c) == ShardOf[c] \notin attached

AttachOnZero(c) ==
    /\ cpc[c] = "refresh" \/ (cpc[c] = "attach" /\ exists)
    /\ attached' = attached \cup {ShardOf[c]}
    /\ refs' = IF NewShard(c) THEN refs + 1 ELSE refs
    /\ first' = IF NewShard(c) /\ refs' = 1 THEN first \cup {c} ELSE first \ {c}
    /\ UNCHANGED generation
    /\ IF jpc = "no" /\ generation >= 0
       THEN cpc' = [cpc EXCEPT ![c] = "joined"] /\ UNCHANGED <<jpc, wire, staged, attempted>>
       ELSE /\ cpc' = [cpc EXCEPT ![c] = "waiting"]
            /\ IF jpc = "no" THEN JoinBegins ELSE UNCHANGED <<jpc, wire, staged, attempted>>
    /\ UNCHANGED <<up, needs, view, acked, marked, cache, exists, armed, stopping, full,
                   fetched, pushGeneration, toPush, ggen, beats, asleep, coordinator,
                   assigned, faults>>

\* The shard that was first arms the timers.
ArmTimers(c) ==
    /\ cpc[c] = "joined"
    /\ armed' = (armed \/ c \in first)
    /\ cpc' = [cpc EXCEPT ![c] = "back"]
    /\ UNCHANGED <<up, needs, view, acked, marked, cache, exists, attached, refs, first,
                   stopping, generation, full, fetched, staged, join, requests, coordinator,
                   history, faults>>

\* Back on the shard: the consumer takes over what was pushed.
Attached(c) ==
    /\ cpc[c] = "back"
    /\ LET a == cache[ShardOf[c]] IN
        /\ view' = [view EXCEPT ![c] = a]
        /\ acked' = [acked EXCEPT ![c] = a.committed]
        /\ marked' = [marked EXCEPT ![c] = a.committed]
    /\ up' = [up EXCEPT ![c] = TRUE] /\ needs' = [needs EXCEPT ![c] = FALSE]
    /\ cpc' = [cpc EXCEPT ![c] = "idle"]
    /\ UNCHANGED <<cache, owner, join, requests, coordinator, history, faults>>

-----------------------------------------------------------------------------
(* A consumer at work                                                        *)

Finish(c, p) ==
    /\ up[c] /\ cpc[c] # "gone" /\ p \in view[c].partitions /\ acked[c][p] < MaxOffset
    /\ acked' = [acked EXCEPT ![c][p] = @ + 1]
    /\ UNCHANGED <<cpc, up, needs, view, marked, cache, owner, join, requests, coordinator,
                   history, faults>>

Finished(c) == [p \in Partitions |-> IF acked[c][p] > marked[c][p] THEN acked[c][p] ELSE NoOffset]

\* poll: check_generation, then commit_acked, then rejoin if it has to.
Poll(c) ==
    /\ cpc[c] = "idle" /\ up[c]
    /\ needs' = [needs EXCEPT ![c] = @ \/ cache[ShardOf[c]].generation # view[c].generation]
    /\ Finished(c) # None \/ needs'[c]
    /\ cpc' = [cpc EXCEPT ![c] = IF Finished(c) # None THEN "offering" ELSE "attach"]
    /\ UNCHANGED <<up, view, acked, marked, cache, owner, join, requests, coordinator,
                   history, faults>>

\* offer: merged by maximum, whoever owns the partition by now.
Offer(c) ==
    /\ cpc[c] \in {"offering", "lastOffer"}
    /\ staged' = IF exists THEN Merge(staged, Finished(c)) ELSE staged
    /\ marked' = [marked EXCEPT ![c] = Merge(@, Finished(c))]
    /\ cpc' = [cpc EXCEPT ![c] = IF @ = "lastOffer" THEN "flush"
                                 ELSE IF needs[c] THEN "attach" ELSE "idle"]
    /\ UNCHANGED <<up, needs, view, acked, cache, exists, attached, refs, first, armed,
                   stopping, generation, full, fetched, join, requests, coordinator, history,
                   faults>>

-----------------------------------------------------------------------------
(* consumer::stop, and detach                                                *)

\* A stream is stopped once its start has ended on every shard.
Settled(s) == \A c \in Consumers : StreamOf[c] = s => up[c] \/ cpc[c] \in {"failed", "gone"}

Stop(c) ==
    /\ cpc[c] = "idle" /\ up[c] /\ Settled(StreamOf[c])
    /\ cpc' = [cpc EXCEPT ![c] = IF Finished(c) # None THEN "lastOffer" ELSE "flush"]
    /\ UNCHANGED <<up, needs, view, acked, marked, cache, owner, join, requests, coordinator,
                   history, faults>>

\* commit_now, and the last commit of detach.
FlushState == <<up, needs, view, acked, marked, cache, exists, attached, refs, first, armed,
                stopping, generation, full, fetched, join, ggen, beats, asleep, coordinator,
                assigned, faults>>

CommitNow(c) ==
    /\ cpc[c] = "flush"
    /\ IF CanCommit
       THEN SendStaged(c) /\ cpc' = [cpc EXCEPT ![c] = "flushing"]
       ELSE /\ cpc' = [cpc EXCEPT ![c] = "detach"]
            /\ UNCHANGED <<wire, staged, attempted>>
    /\ UNCHANGED FlushState

\* A shard that is not attached changes nothing; the last one out stops the
\* timers and closes the gate.
Detach(c) ==
    /\ cpc[c] = "detach"
    /\ IF ~exists \/ ShardOf[c] \notin attached
       THEN cpc' = [cpc EXCEPT ![c] = "gone"] /\ UNCHANGED <<attached, refs, stopping, armed>>
       ELSE /\ attached' = attached \ {ShardOf[c]} /\ refs' = refs - 1
            /\ stopping' = (refs' = 0) /\ armed' = (armed /\ refs' > 0)
            /\ cpc' = [cpc EXCEPT ![c] = IF refs' > 0 THEN "gone" ELSE "closing"]
    /\ UNCHANGED <<up, needs, view, acked, marked, cache, exists, first, generation, full,
                   fetched, staged, join, requests, coordinator, history, faults>>

\* In the gate: heartbeats with the joins they wait for, and timed commits.
InGate ==
    \/ \E i \in 1 .. MaxBeats : beats[i] # NoBeat
    \/ \E r \in asleep \cup {wire[k] : k \in 1 .. Len(wire)} : r.by = "timer"

\* A slip: the gate is not waited for.
GateOpen == TRUE

GateClosed == ~InGate

LastCommit(c) ==
    /\ cpc[c] = "closing" /\ GateClosed
    /\ IF CanCommit
       THEN SendStaged(c) /\ cpc' = [cpc EXCEPT ![c] = "lastCommit"]
       ELSE /\ cpc' = [cpc EXCEPT ![c] = "leaving"]
            /\ UNCHANGED <<wire, staged, attempted>>
    /\ UNCHANGED FlushState

\* leave is a courtesy: what goes wrong is swallowed.
Leave(c) ==
    /\ cpc[c] = "leaving"
    /\ \/ /\ member' = FALSE /\ mine' = {} /\ UNCHANGED faults
       \/ UNCHANGED <<member, mine>> /\ Fault("leave")
    /\ ggen' = -1 /\ cpc' = [cpc EXCEPT ![c] = "erase"]
    /\ UNCHANGED <<up, needs, view, acked, marked, cache, owner, join, beats, wire, asleep,
                   cgen, preparing, committed, history>>

Erase(c) ==
    /\ cpc[c] = "erase" /\ cpc' = [cpc EXCEPT ![c] = "gone"]
    /\ exists' = FALSE /\ attached' = {} /\ refs' = 0 /\ first' = {} /\ armed' = FALSE
    /\ stopping' = FALSE /\ generation' = -1 /\ full' = {} /\ fetched' = None
    /\ staged' = None
    /\ UNCHANGED <<up, needs, view, acked, marked, cache, join, requests, coordinator,
                   history, faults>>

-----------------------------------------------------------------------------
(* The rest of the group                                                     *)

RebalanceStarts ==
    /\ member /\ ~preparing /\ Fault("rebalance") /\ preparing' = TRUE
    /\ UNCHANGED <<consumers, cache, owner, join, requests, cgen, member, mine, committed,
                   history>>

\* A session that timed out, or a rebalance that did not wait for this member.
Evicted ==
    /\ member /\ Fault("evict")
    /\ cgen' = cgen + 1 /\ assigned' = Append(assigned, {})
    /\ member' = FALSE /\ preparing' = FALSE /\ mine' = {}
    /\ UNCHANGED <<consumers, cache, owner, join, requests, committed, attempted>>

\* Another member commits its progress in a partition it owns.
OtherCommits(p) ==
    /\ p \notin mine /\ committed[p] < MaxOffset
    /\ committed' = [committed EXCEPT ![p] = @ + 1]
    /\ UNCHANGED <<consumers, cache, owner, join, requests, cgen, member, preparing, mine,
                   history, faults>>

-----------------------------------------------------------------------------
ConsumerStep(c) ==
    \/ CreateOwner(c) \/ AttachOnZero(c) \/ ArmTimers(c) \/ Attached(c)
    \/ Poll(c) \/ Offer(c) \/ CommitNow(c) \/ Detach(c) \/ LastCommit(c)
    \/ Leave(c) \/ Erase(c)

JoinStep ==
    \/ JoinAnswered \/ FetchOffsets \/ JoinDone \/ \E s \in Shards : Push(s)

CommitStep == CommitAnswered \/ CommitResend

FaultStep ==
    \/ CommitLost \/ CommitRetriable \/ JoinFails \/ FetchOffsetsFails
    \/ RebalanceStarts \/ Evicted
    \/ \E i \in 1 .. MaxBeats : BeatFails(i)
    \/ \E c \in Consumers : CreateFails(c)

Next ==
    \/ \E c \in Consumers : ConsumerStep(c) \/ StartConsumer(c) \/ Stop(c)
    \/ \E c \in Consumers, p \in Partitions : Finish(c, p)
    \/ \E i \in 1 .. MaxBeats : Beat(i) \/ BeatAnswered(i)
    \/ \E p \in Partitions : OtherCommits(p)
    \/ CommitTimer \/ JoinStep \/ CommitStep \/ FaultStep

Spec == Init /\ [][Next]_vars

\* Coroutines run on, requests are answered, timers fire.  Nobody has to start
\* or stop a consumer, nor is there a fault that has to happen.  A join waits for
\* what was sent before it, and heartbeats that are sent behind it do not hold up
\* its answer, however many there are: its fairness is strong.
Fairness ==
    /\ \A c \in Consumers : WF_vars(ConsumerStep(c))
    /\ \A i \in 1 .. MaxBeats : WF_vars(Beat(i)) /\ WF_vars(BeatAnswered(i))
    /\ WF_vars(CommitTimer) /\ SF_vars(JoinStep) /\ WF_vars(CommitStep)
-----------------------------------------------------------------------------
(* Properties                                                                *)

TypeOK ==
    /\ cpc \in [Consumers -> {"new", "attach", "refresh", "waiting", "joined", "back", "idle",
                              "offering", "lastOffer", "flush", "flushing", "detach",
                              "closing", "lastCommit", "leaving", "erase", "gone", "failed"}]
    /\ up \in [Consumers -> BOOLEAN] /\ needs \in [Consumers -> BOOLEAN]
    /\ \A t \in {staged, committed, fetched, attempted} :
        t \in [Partitions -> -1 .. MaxOffset]
    /\ \A c \in Consumers : {acked[c], marked[c]} \subseteq [Partitions -> -1 .. MaxOffset]
    /\ \A a \in {cache[s] : s \in Shards} \cup {view[c] : c \in Consumers} :
        a \in [generation : -1 .. cgen, partitions : SUBSET Partitions,
               committed : [Partitions -> -1 .. MaxOffset]]
    /\ {exists, armed, stopping, member, preparing} \subseteq BOOLEAN
    /\ attached \subseteq Shards /\ refs \in Nat /\ first \subseteq Consumers
    /\ generation \in -1 .. cgen /\ ggen \in -1 .. cgen /\ cgen \in Nat
    /\ jpc \in {"no", "revoking", "joining", "fetching", "publishing"} /\ toPush \subseteq Shards
    /\ full \subseteq Partitions /\ mine \subseteq Partitions
    /\ beats \in [1 .. MaxBeats -> -3 .. cgen] /\ faults \in Nat

\* One member per process, one shard per partition: a share that a consumer
\* acts on, or that a shard holds, is that shard's part of what the coordinator
\* assigned under the same generation, so no partition is read by two shards.
ViewsAgree ==
    \A s \in Shards :
        \A a \in {cache[s]} \cup {view[c] : c \in {d \in Consumers : ShardOf[d] = s}} :
            a.generation >= 0 => a.partitions = ShardShare(assigned[a.generation], s)

\* A consumer that has attached and not detached finds the owner on shard 0.
OwnerInUse == \A c \in Consumers : up[c] /\ cpc[c] # "gone" => exists

\* The owner outlives every coroutine that holds a reference to it: joins,
\* heartbeats, commits and attaches, and the consumers that use it; and it does
\* not outlive them all: "the last one out commits, leaves the group and closes
\* the coordinator connection".
OwnerOutlives ==
    /\ OwnerInUse
    /\ ~exists =>
        /\ jpc = "no" /\ wire = <<>> /\ asleep = {}
        /\ \A i \in 1 .. MaxBeats : beats[i] = NoBeat
        /\ \A c \in Consumers : cpc[c] \notin {"refresh", "waiting", "joined"}
    /\ (\A c \in Consumers : cpc[c] = "gone") => ~exists

\* A generation the coordinator has given out and heartbeats keep alive, of which
\* the shards never hear: the answer to SyncGroup was lost, or fetch_offsets failed.
\* With timers armed by an earlier join only another attach may start a new one, and
\* only where the generation was not set.
ShareLost == jpc = "no" /\ member /\ ggen = cgen /\ pushGeneration # cgen

\* Whatever commits fail, an offset staged for a partition is committed in the
\* end while the timers run, unless the partition is given to another member, or
\* the join that took its generation away is the last one (ShareLost).
OfferedIsCommitted ==
    \A p \in Partitions, k \in 1 .. MaxOffset :
        staged[p] = k ~>
            committed[p] >= k \/ p \notin mine \/ ~armed \/ (ShareLost /\ generation < 0)

\* A join that fails releases whoever waited for it and the next one starts: an
\* attach always returns.
AttachReturns == \A c \in Consumers : cpc[c] \in {"attach", "waiting"} ~> cpc[c] \in {"idle", "failed"}

\* "so it is committed here, before the join gives those partitions away": a
\* staged offset that a join drops was at least sent to the coordinator.
RevokedIsCommitted ==
    [][\A p \in Partitions :
        jpc = "joining" /\ jpc' = "fetching" /\ staged'[p] # staged[p]
            => staged[p] <= attempted[p]]_vars

\* A new assignment reaches every shard, whatever fails on the way and is tried
\* again, but for one whose SyncGroup answer or offsets were lost (ShareLost).
ShareReachesShards ==
    \A s \in Shards :
        armed /\ cache[s].generation # cgen
            ~> ~armed \/ cache[s].generation = cgen \/ ShareLost
=====================================================================================
