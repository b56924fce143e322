--------------------------- MODULE MCKafkaProofs ---------------------------
(***************************************************************************)
(* The membership of a group.  Its owner outlives whoever uses it, and the *)
(* shards read what the coordinator assigned, each its own part: for every *)
(* number of shards and partitions, any number of faults, heartbeats and   *)
(* commits, in every order.  Both need a single input in the group         *)
(* (OneInput): two inputs of one shard share one entry of `attached`, and  *)
(* the first of them to leave takes it away (README, Limits of what        *)
(* holds).                                                                 *)
(*                                                                         *)
(* The connections of a shard.  Nobody waits on a connection that nobody   *)
(* reads, nobody joins an attempt that is over, and no live connection is  *)
(* replaced: for every number of callers, brokers and connections, and any *)
(* number of lost connections, unanswered requests and failed attempts.    *)
(***************************************************************************)
EXTENDS MCKafka, FiniteSetTheorems, TLAPS

\* What the theorems on lifetimes presume: the consumers are those of one stream,
\* one on each shard.
OneInput ==
    /\ \A c, d \in Consumers : ShardOf[c] = ShardOf[d] => c = d
    /\ \A c, d \in Consumers : StreamOf[c] = StreamOf[d]
-----------------------------------------------------------------------------
(* Types                                                                     *)

\* What the variables hold: per partition offsets (none is -1), who asks for a
\* commit, the requests, and the shares.
Offsets == [Partitions -> -1 .. MaxOffset]

Requesters == Consumers \cup {"timer"}

Requests == [by : Requesters, offsets : Offsets, generation : -1 .. cgen]

Share == [generation : -1 .. cgen, partitions : SUBSET Partitions, committed : Offsets]

\* Where a consumer may stand.
Places == {"new", "attach", "refresh", "waiting", "joined", "back", "idle", "offering",
           "lastOffer", "flush", "flushing", "detach", "closing", "lastCommit", "leaving",
           "erase", "gone", "failed"}

\* The types of the consumers and of what the shards hold.
ShardTypes ==
    /\ cpc \in [Consumers -> Places] /\ up \in [Consumers -> BOOLEAN]
    /\ needs \in [Consumers -> BOOLEAN]
    /\ view \in [Consumers -> Share] /\ cache \in [Shards -> Share]
    /\ acked \in [Consumers -> Offsets] /\ marked \in [Consumers -> Offsets]

\* The types of the owner, which counts the shards attached; the revoke at the top of a join is unreachable.
OwnerTypes ==
    /\ exists \in BOOLEAN /\ armed \in BOOLEAN /\ stopping \in BOOLEAN
    /\ attached \subseteq Shards /\ first \subseteq Consumers
    /\ refs \in Nat /\ refs = Cardinality(attached)
    /\ generation \in -1 .. cgen /\ full \subseteq Partitions
    /\ fetched \in Offsets /\ staged \in Offsets
    /\ jpc \in {"no", "joining", "fetching", "publishing"}
    /\ pushGeneration \in -1 .. cgen /\ toPush \subseteq Shards

\* The types of what is on the wire and of the coordinator.
WireTypes ==
    /\ ggen \in -1 .. cgen /\ beats \in [1 .. MaxBeats -> -3 .. cgen]
    /\ wire \in Seq(Requests) /\ asleep \subseteq Requests
    /\ cgen \in Nat /\ member \in BOOLEAN /\ preparing \in BOOLEAN
    /\ mine \subseteq Partitions /\ committed \in Offsets
    /\ attempted \in Offsets /\ faults \in Nat

Types == ShardTypes /\ OwnerTypes /\ WireTypes
-----------------------------------------------------------------------------
(* The owner's life                                                          *)

\* Where a consumer stands once detach has let go of it, while it closes the
\* owner, and from the stop of its input on.
Departed == {"closing", "lastCommit", "leaving", "erase", "gone"}
Leaving == {"closing", "lastCommit", "leaving", "erase"}
Stopping == {"lastOffer", "flush", "flushing", "detach"} \cup Departed

\* A consumer that waits in attach, or that has attached and not detached, is
\* counted.
Counted ==
    /\ \A c \in Consumers :
        /\ cpc[c] \notin Departed /\ (up[c] \/ cpc[c] \in {"waiting", "joined", "back"})
            => ShardOf[c] \in attached
        /\ cpc[c] \in {"idle", "offering"} \cup Stopping => up[c]
    /\ \A s \in attached : \E c \in Consumers : ShardOf[c] = s /\ cpc[c] \notin Departed
    /\ armed => attached # {}

\* While anyone is counted, reads the metadata or leaves, the owner is there; and
\* it is there for no other reason, but for a start that failed.
Kept ==
    /\ attached # {} => exists
    /\ \A c \in Consumers : cpc[c] \in {"refresh"} \cup Leaving => exists
    /\ exists => \/ attached # {}
                 \/ \E c \in Consumers : cpc[c] \in {"refresh", "failed"} \cup Leaving

\* Nobody stops before everyone has started, and the one who leaves is the last.
LastOut ==
    /\ \A c, d \in Consumers : cpc[c] \in Stopping => up[d] \/ cpc[d] = "failed"
    /\ \A c \in Consumers :
        cpc[c] \in Leaving =>
            attached = {} /\ \A d \in Consumers \ {c} : cpc[d] \in {"gone", "failed"}

\* Who a commit request belongs to waits for it, and has no other.
AwaitedBy(r) ==
    r.by # "timer" => r.by \in Consumers /\ cpc[r.by] \in {"flushing", "lastCommit"}

Awaited ==
    /\ \A r \in asleep : AwaitedBy(r)
    /\ \A k \in 1 .. Len(wire) : AwaitedBy(wire[k])
    /\ \A k, l \in 1 .. Len(wire) : wire[k].by = wire[l].by => k = l \/ wire[k].by = "timer"
    /\ \A r, q \in asleep : r.by = q.by => r = q \/ r.by = "timer"
    /\ \A r \in asleep, k \in 1 .. Len(wire) : r.by = wire[k].by => r.by = "timer"

\* A join has somebody who waits for it: a consumer, or a heartbeat in the gate.
JoinWanted ==
    jpc # "no" => \/ \E c \in Consumers : cpc[c] = "waiting"
                  \/ \E i \in 1 .. MaxBeats : beats[i] = Joining

\* Past the gate, and without an owner, nothing is left of what entered it.
NoBeats == \A i \in 1 .. MaxBeats : beats[i] = NoBeat

NoTimed == /\ \A r \in asleep : r.by # "timer"
           /\ \A k \in 1 .. Len(wire) : wire[k].by # "timer"

Emptied ==
    /\ \A c \in Consumers : cpc[c] \in {"lastCommit", "leaving", "erase"} => NoBeats /\ NoTimed
    /\ ~exists => NoBeats /\ wire = <<>> /\ asleep = {} /\ jpc = "no"

Life == Counted /\ Kept /\ LastOut /\ Awaited /\ JoinWanted /\ Emptied

-----------------------------------------------------------------------------
(* The shares                                                                *)

\* What is `full` while a join is at work on it is what was assigned under the
\* generation it publishes.
Agreed(g, S) == g >= 0 => g \in 1 .. Len(assigned) /\ S = assigned[g]

Published ==
    /\ jpc = "fetching" => Agreed(generation, full)
    /\ jpc = "publishing" => Agreed(pushGeneration, full)

Shared(a, s) ==
    a.generation >= 0 => /\ a.generation \in 1 .. Len(assigned)
                         /\ a.partitions = ShardShare(assigned[a.generation], s)

Shares ==
    /\ cgen = Len(assigned) /\ assigned \in Seq(SUBSET Partitions)
    /\ Published
    /\ \A s \in Shards : Shared(cache[s], s)
    /\ \A c \in Consumers : Shared(view[c], ShardOf[c])
-----------------------------------------------------------------------------
(* The types hold                                                            *)

USE MembershipAssumption

\* Merging tables keeps every offset in range (offer, attempted).
LEMMA MergeType ==
    ASSUME NEW s \in Offsets, NEW t \in Offsets
    PROVE  Merge(s, t) \in Offsets
BY DEF Merge, Larger, Offsets

\* What a consumer offers is a table of offsets.
LEMMA FinishedType ==
    ASSUME ShardTypes, NEW c \in Consumers
    PROVE  Finished(c) \in Offsets
BY DEF ShardTypes, Finished, Offsets, NoOffset

\* A table without offsets is one.
LEMMA NoneType == None \in Offsets
BY DEF None, Offsets, NoOffset

\* A request is made of what is staged and of the client's generation.
LEMMA RequestType ==
    ASSUME Types, NEW by \in Requesters, NEW o \in Offsets
    PROVE  Request(by, o) \in Requests
BY DEF Types, WireTypes, Request, Requests

\* What is sent is taken out of the table and noted as attempted.
LEMMA SendStagedType ==
    ASSUME Types, NEW by \in Requesters, SendStaged(by), UNCHANGED cgen
    PROVE  wire' \in Seq(Requests') /\ staged' \in Offsets /\ attempted' \in Offsets
<1>1. Request(by, staged) \in Requests
    BY RequestType DEF Types, OwnerTypes
<1>2. Requests' = Requests
    BY DEF Requests, Requesters, Offsets
<1>3. wire' = Append(wire, Request(by, staged)) /\ wire \in Seq(Requests)
    BY DEF SendStaged, Types, WireTypes
<1>4. wire' \in Seq(Requests)
    BY <1>1, <1>3
<1> QED  BY <1>2, <1>4, NoneType, MergeType DEF SendStaged, Types, OwnerTypes, WireTypes

\* A fault is counted.
LEMMA FaultType ==
    ASSUME Types, NEW kind, Fault(kind)
    PROVE  faults' \in Nat
BY DEF Fault, Types, WireTypes

\* The first state is well typed.
LEMMA TypesInit == Init => Types
<1> SUFFICES ASSUME Init PROVE Types
    OBVIOUS
<1>1. NoShare \in Share
    BY NoneType DEF Init, NoShare, Share
<1>2. ShardTypes
    BY <1>1, NoneType DEF Init, ShardTypes, Places
<1>3. OwnerTypes
    <2>1. Cardinality({}) = 0
        BY FS_EmptySet
    <2>2. exists \in BOOLEAN /\ armed \in BOOLEAN /\ stopping \in BOOLEAN
        BY DEF Init
    <2>3. generation \in -1 .. cgen /\ pushGeneration \in -1 .. cgen
        BY DEF Init
    <2>4. attached = {} /\ refs = 0 /\ first = {} /\ full = {} /\ toPush = {} /\ jpc = "no"
          /\ fetched = None /\ staged = None
        BY DEF Init
    <2> QED  BY <2>1, <2>2, <2>3, <2>4, NoneType DEF OwnerTypes
<1>4. [p \in Partitions |-> 0] \in Offsets
    BY DEF Offsets
<1>5. [i \in 1 .. MaxBeats |-> NoBeat] \in [1 .. MaxBeats -> -3 .. cgen]
    BY DEF Init, NoBeat
<1>6. WireTypes
    <2>1. ggen \in -1 .. cgen /\ cgen \in Nat /\ faults \in Nat
        BY DEF Init
    <2>2. member \in BOOLEAN /\ preparing \in BOOLEAN
        BY DEF Init
    <2>3. wire \in Seq(Requests)
        BY DEF Init
    <2>4. asleep = {} /\ mine = {} /\ attempted = None
        BY DEF Init
    <2>5. beats \in [1 .. MaxBeats -> -3 .. cgen] /\ committed \in Offsets
        BY <1>4, <1>5 DEF Init
    <2> QED  BY <2>1, <2>2, <2>3, <2>4, <2>5, NoneType DEF WireTypes
<1> QED  BY <1>2, <1>3, <1>6 DEF Types

\* A commit that is answered, lost or put to sleep.
LEMMA TypesCommitReturns ==
    ASSUME Types, CommitAnswered \/ CommitLost
    PROVE  Types'
<1>1. wire \in Seq(Requests) /\ wire # <<>> /\ wire' = Tail(wire)
    BY DEF CommitAnswered, CommitLost, Types, WireTypes
<1>2. Head(wire) \in Requests /\ wire' \in Seq(Requests)
    BY <1>1
<1>3. Head(wire).offsets \in Offsets
    BY <1>2 DEF Requests
<1>4. Requests' = Requests /\ Share' = Share /\ Offsets' = Offsets
    BY DEF CommitAnswered, CommitLost, CommitState, Requests, Share, Requesters, Offsets
<1>5. staged' \in Offsets /\ committed' \in Offsets
    <2>1. staged \in Offsets /\ committed \in Offsets
        BY DEF Types, OwnerTypes, WireTypes
    <2>2. Merge(staged, Head(wire).offsets) \in Offsets
        BY <1>3, <2>1, MergeType
    <2>3. [p \in Partitions |-> IF Head(wire).offsets[p] >= 0 THEN Head(wire).offsets[p]
                                ELSE committed[p]] \in Offsets
        BY <1>3, <2>1 DEF Offsets
    <2> QED  BY <2>1, <2>2, <2>3 DEF CommitAnswered, CommitLost, PutBack
<1>6. CommitReturns(Head(wire))
    BY DEF CommitAnswered, CommitLost
<1>7. ShardTypes'
    BY <1>4, <1>6
    DEF CommitAnswered, CommitLost, CommitState, CommitReturns, Types, ShardTypes, Places
<1>8. OwnerTypes'
    BY <1>4, <1>5, <1>6
    DEF CommitAnswered, CommitLost, CommitState, CommitReturns, Types, OwnerTypes
<1>9. WireTypes'
    <2>1. UNCHANGED <<ggen, beats, cgen, member, preparing, mine, attempted, asleep>>
        BY DEF CommitAnswered, CommitLost, CommitState
    <2>2. faults' \in Nat
        BY DEF CommitAnswered, CommitLost, Fault, Types, WireTypes
    <2> QED  BY <1>2, <1>4, <1>5, <2>1, <2>2 DEF Types, WireTypes
<1> QED  BY <1>7, <1>8, <1>9 DEF Types

\* The sets the types are made of change only with the coordinator's generation.
LEMMA SetsSame ==
    ASSUME UNCHANGED cgen
    PROVE  Share' = Share /\ Requests' = Requests
BY DEF Share, Requests, Requesters, Offsets

\* A heartbeat's answer, or an attach, begins a join that has nothing to revoke.
LEMMA TypesJoinBegins ==
    ASSUME Types, generation' \in Int, generation' < 0, JoinBegins, UNCHANGED cgen
    PROVE  jpc' = "joining" /\ UNCHANGED <<wire, staged, attempted>>
BY DEF JoinBegins

\* A commit request that sleeps and is sent again.
LEMMA TypesCommitAgain ==
    ASSUME Types, CommitRetriable \/ CommitResend
    PROVE  Types'
<1>1. Share' = Share /\ Requests' = Requests
    BY SetsSame DEF CommitRetriable, CommitResend, CommitState
<1>2. wire' \in Seq(Requests) /\ asleep' \subseteq Requests /\ faults' \in Nat
    <2>1. CASE CommitRetriable
        <3>1. Head(wire) \in Requests
            BY <2>1 DEF CommitRetriable, Types, WireTypes
        <3> QED  BY <2>1, <3>1 DEF CommitRetriable, Types, WireTypes, Fault
    <2>2. CASE CommitResend
        <3>1. PICK r \in asleep : wire' = Append(wire, Request(r.by, r.offsets))
                                  /\ asleep' = asleep \ {r}
            BY <2>2 DEF CommitResend
        <3>2. r.by \in Requesters /\ r.offsets \in Offsets
            BY <3>1 DEF Types, WireTypes, Requests
        <3>3. Request(r.by, r.offsets) \in Requests
            BY <3>2, RequestType
        <3>4. UNCHANGED faults
            BY <2>2 DEF CommitResend
        <3> QED  BY <3>1, <3>3, <3>4 DEF Types, WireTypes
    <2> QED  BY <2>1, <2>2
<1>3. UNCHANGED <<CommitState, committed, staged, cpc, jpc>>
    BY DEF CommitRetriable, CommitResend
<1>4. ShardTypes'
    BY <1>1, <1>3 DEF CommitState, Types, ShardTypes
<1>5. OwnerTypes'
    BY <1>1, <1>3 DEF CommitState, Types, OwnerTypes
<1>6. WireTypes'
    BY <1>1, <1>2, <1>3 DEF CommitState, Types, WireTypes
<1> QED  BY <1>4, <1>5, <1>6 DEF Types

\* The steps that send what is staged: the timer, commit_now and the last commit.
LEMMA TypesCommitSent ==
    ASSUME Types, \/ CommitTimer
                  \/ \E c \in Consumers : CommitNow(c) \/ LastCommit(c)
    PROVE  Types'
<1>1. UNCHANGED <<up, needs, view, acked, marked, cache, exists, attached, refs, first, armed,
                  stopping, generation, full, fetched, join, ggen, beats, asleep, coordinator,
                  assigned, faults>>
    BY DEF CommitTimer, CommitNow, LastCommit, FlushState, consumers
<1>2. Share' = Share /\ Requests' = Requests
    BY <1>1, SetsSame DEF coordinator
<1>3. cpc' \in [Consumers -> Places]
    BY DEF CommitTimer, CommitNow, LastCommit, consumers, Types, ShardTypes, Places
<1>4. wire' \in Seq(Requests) /\ staged' \in Offsets /\ attempted' \in Offsets
    <2>1. CASE UNCHANGED <<wire, staged, attempted>>
        BY <2>1 DEF Types, OwnerTypes, WireTypes
    <2>2. ASSUME NEW by \in Requesters, SendStaged(by)
          PROVE  wire' \in Seq(Requests) /\ staged' \in Offsets /\ attempted' \in Offsets
        BY <1>1, <1>2, <2>2, SendStagedType DEF coordinator
    <2>3. \/ UNCHANGED <<wire, staged, attempted>>
          \/ \E by \in Requesters : SendStaged(by)
        BY DEF CommitTimer, CommitNow, LastCommit, Requesters
    <2> QED  BY <2>1, <2>2, <2>3
<1>5. ShardTypes'
    BY <1>1, <1>2, <1>3 DEF Types, ShardTypes
<1>6. OwnerTypes'
    BY <1>1, <1>4 DEF Types, OwnerTypes, join, coordinator
<1>7. WireTypes'
    BY <1>1, <1>2, <1>4 DEF Types, WireTypes, coordinator
<1> QED  BY <1>5, <1>6, <1>7 DEF Types

\* The steps of a consumer by itself.
LEMMA TypesAlone ==
    ASSUME Types, NEW c \in Consumers,
           StartConsumer(c) \/ CreateOwner(c) \/ CreateFails(c) \/ ArmTimers(c) \/ Poll(c) \/ Stop(c)
    PROVE  Types'
<1>1. cpc' \in [Consumers -> Places] /\ needs' \in [Consumers -> BOOLEAN]
    <2>1. cpc \in [Consumers -> Places] /\ needs \in [Consumers -> BOOLEAN]
        BY DEF Types, ShardTypes
    <2>2. cpc' \in [Consumers -> Places]
        BY <2>1 DEF StartConsumer, CreateOwner, CreateFails, ArmTimers, Poll, Stop, Failed, Places
    <2>3. needs' \in [Consumers -> BOOLEAN]
        BY <2>1 DEF StartConsumer, CreateOwner, CreateFails, ArmTimers, Poll, Stop
    <2> QED  BY <2>2, <2>3
<1>2. exists' \in BOOLEAN /\ armed' \in BOOLEAN /\ faults' \in Nat
    <2>1. exists' \in BOOLEAN /\ armed' \in BOOLEAN
        BY Zenon DEF StartConsumer, CreateOwner, CreateFails, ArmTimers, Poll, Stop, Types,
            OwnerTypes, owner
    <2>2. UNCHANGED faults \/ Fault("refresh")
        BY DEF StartConsumer, CreateOwner, CreateFails, ArmTimers, Poll, Stop
    <2> QED  BY <2>1, <2>2, FaultType DEF Types, WireTypes
<1>3. UNCHANGED <<up, view, acked, marked, cache, attached, refs, first, stopping, generation,
                  full, fetched, staged, join, requests, coordinator, history>>
    BY DEF StartConsumer, CreateOwner, CreateFails, ArmTimers, Poll, Stop, owner
<1>4. Share' = Share /\ Requests' = Requests
    BY <1>3, SetsSame DEF coordinator
<1>5. ShardTypes'
    BY <1>1, <1>3, <1>4 DEF Types, ShardTypes
<1>6. OwnerTypes'
    BY <1>2, <1>3 DEF Types, OwnerTypes, join, coordinator
<1>7. WireTypes'
    BY <1>2, <1>3, <1>4 DEF Types, WireTypes, requests, coordinator, history
<1> QED  BY <1>5, <1>6, <1>7 DEF Types

\* The sets of the types only grow: the coordinator's generation never falls.
LEMMA SetsGrow ==
    ASSUME Types, cgen' = cgen + 1
    PROVE  /\ Share \subseteq Share' /\ Requests \subseteq Requests'
           /\ -1 .. cgen \subseteq -1 .. cgen' /\ -3 .. cgen \subseteq -3 .. cgen'
<1>1. cgen \in Nat
    BY DEF Types, WireTypes
<1>2. -1 .. cgen \subseteq -1 .. cgen' /\ -3 .. cgen \subseteq -3 .. cgen'
    BY <1>1
<1>3. Requesters' = Requesters /\ Offsets' = Offsets
    BY DEF Requesters, Offsets
<1> QED  BY <1>2, <1>3 DEF Share, Requests

\* What is typed stays so when the generation grows.
LEMMA GrownTypes ==
    ASSUME Types, cgen' = cgen + 1
    PROVE  /\ view \in [Consumers -> Share'] /\ cache \in [Shards -> Share']
           /\ wire \in Seq(Requests') /\ asleep \subseteq Requests'
           /\ beats \in [1 .. MaxBeats -> -3 .. cgen']
           /\ generation \in -1 .. cgen' /\ pushGeneration \in -1 .. cgen' /\ ggen \in -1 .. cgen'
           /\ cgen' \in Nat
<1>1. /\ Share \subseteq Share' /\ Requests \subseteq Requests'
      /\ -1 .. cgen \subseteq -1 .. cgen' /\ -3 .. cgen \subseteq -3 .. cgen'
    BY SetsGrow
<1>2. view \in [Consumers -> Share'] /\ cache \in [Shards -> Share']
    BY <1>1 DEF Types, ShardTypes
<1>3. wire \in Seq(Requests') /\ asleep \subseteq Requests'
    BY <1>1 DEF Types, WireTypes
<1>4. beats \in [1 .. MaxBeats -> -3 .. cgen']
    BY <1>1 DEF Types, WireTypes
<1>5. generation \in -1 .. cgen' /\ pushGeneration \in -1 .. cgen' /\ ggen \in -1 .. cgen'
    BY <1>1 DEF Types, OwnerTypes, WireTypes
<1>6. cgen' \in Nat
    BY DEF Types, WireTypes
<1> QED  BY <1>2, <1>3, <1>4, <1>5, <1>6

\* Whoever waited for a join goes on, and the join is over.
LEMMA TypesJoinOver ==
    ASSUME Types, NEW ok \in BOOLEAN, JoinOver(ok), cgen' \in {cgen, cgen + 1}
    PROVE  /\ cpc' \in [Consumers -> Places] /\ jpc' = "no"
           /\ beats' \in [1 .. MaxBeats -> -3 .. cgen']
<1>1. cpc' \in [Consumers -> Places]
    BY DEF JoinOver, Failed, Types, ShardTypes, Places
<1>2. beats \in [1 .. MaxBeats -> -3 .. cgen'] /\ cgen' \in Nat
    BY GrownTypes DEF Types, WireTypes
<1>3. beats' \in [1 .. MaxBeats -> -3 .. cgen']
    BY <1>2 DEF JoinOver, NoBeat
<1> QED  BY <1>1, <1>3 DEF JoinOver

\* A new generation, whether the owner hears of it or not.
LEMMA TypesNewGeneration ==
    ASSUME Types, JoinAnswered \/ JoinFails \/ Evicted
    PROVE  Types'
<1>1. CASE UNCHANGED cgen
    <2>1. JoinFails /\ UNCHANGED <<cgen, ggen, member, preparing, mine, assigned>>
        <3>1. cgen' # cgen + 1
            BY <1>1 DEF Types, WireTypes
        <3> QED  BY <3>1 DEF JoinAnswered, JoinFails, Evicted, NewGeneration
    <2>2. Share' = Share /\ Requests' = Requests
        BY <1>1, SetsSame
    <2>3. JoinOver(FALSE)
        BY <2>1 DEF JoinFails
    <2>4. /\ cpc' \in [Consumers -> Places] /\ jpc' = "no"
          /\ beats' \in [1 .. MaxBeats -> -3 .. cgen']
        BY <1>1, <2>3, TypesJoinOver
    <2>5. UNCHANGED <<JoinState, generation, full, fetched, staged, pushGeneration, toPush,
                      wire, asleep, committed, attempted>> /\ faults' \in Nat
        BY <2>1 DEF JoinFails, Fault, Types, WireTypes
    <2>6. ShardTypes'
        BY <2>2, <2>4, <2>5 DEF Types, ShardTypes, JoinState
    <2>7. OwnerTypes'
        BY <1>1, <2>4, <2>5 DEF Types, OwnerTypes, JoinState
    <2>8. WireTypes'
        BY <2>1, <2>2, <2>4, <2>5 DEF Types, WireTypes
    <2> QED  BY <2>6, <2>7, <2>8 DEF Types
<1>2. CASE ~UNCHANGED cgen
    <2>1. cgen' = cgen + 1
        BY <1>2 DEF JoinAnswered, JoinFails, Evicted, NewGeneration
    <2>2. /\ view \in [Consumers -> Share'] /\ cache \in [Shards -> Share']
          /\ wire \in Seq(Requests') /\ asleep \subseteq Requests'
          /\ beats \in [1 .. MaxBeats -> -3 .. cgen']
          /\ generation \in -1 .. cgen' /\ pushGeneration \in -1 .. cgen' /\ ggen \in -1 .. cgen'
          /\ cgen' \in Nat
        BY <2>1, GrownTypes
    <2>3. /\ cpc' \in [Consumers -> Places] /\ beats' \in [1 .. MaxBeats -> -3 .. cgen']
          /\ jpc' \in {"no", "joining", "fetching", "publishing"}
        <3>1. CASE JoinOver(FALSE)
            BY <2>1, <3>1, TypesJoinOver
        <3>2. CASE ~JoinOver(FALSE)
            BY <2>2, <3>2 DEF JoinAnswered, JoinFails, Evicted, consumers, requests, join,
                Types, ShardTypes, OwnerTypes
        <3> QED  BY <3>1, <3>2
    <2>4. /\ generation' \in -1 .. cgen' /\ ggen' \in -1 .. cgen' /\ faults' \in Nat
          /\ member' \in BOOLEAN /\ preparing' \in BOOLEAN /\ mine' \subseteq Partitions
        <3>1. generation' \in {generation, cgen'} /\ ggen' \in {ggen, cgen'}
            BY <1>2 DEF JoinAnswered, JoinFails, Evicted, NewGeneration, owner, requests
        <3>2. UNCHANGED faults \/ \E k \in FaultKinds : Fault(k)
            BY DEF JoinAnswered, JoinFails, Evicted, Fault
        <3>3. member' \in BOOLEAN /\ preparing' \in BOOLEAN
            BY <1>2, Zenon DEF JoinAnswered, JoinFails, Evicted, NewGeneration
        <3>4. mine' \subseteq Partitions
            BY <1>2 DEF JoinAnswered, JoinFails, Evicted, NewGeneration
        <3>5. cgen' \in -1 .. cgen'
            BY <2>2
        <3> QED  BY <2>2, <3>1, <3>2, <3>3, <3>4, <3>5, FaultType DEF Types, WireTypes
    <2>5. full' \subseteq Partitions /\ staged' \in Offsets
        <3>1. [p \in Partitions |-> IF p \in full' THEN staged[p] ELSE NoOffset] \in Offsets
            BY DEF Types, OwnerTypes, Offsets, NoOffset
        <3> QED  BY <3>1 DEF JoinAnswered, JoinFails, Evicted, KeepOwnedStaged, owner,
                    Types, OwnerTypes
    <2>6. UNCHANGED <<JoinState, fetched, pushGeneration, toPush, wire, asleep, committed,
                      attempted>>
        BY <1>2 DEF JoinAnswered, JoinFails, Evicted, consumers, owner, join, requests, JoinState
    <2>7. ShardTypes'
        BY <2>2, <2>3, <2>6 DEF Types, ShardTypes, JoinState
    <2>8. OwnerTypes'
        BY <2>2, <2>3, <2>4, <2>5, <2>6 DEF Types, OwnerTypes, JoinState
    <2>9. WireTypes'
        BY <2>2, <2>3, <2>4, <2>6 DEF Types, WireTypes
    <2> QED  BY <2>7, <2>8, <2>9 DEF Types
<1> QED  BY <1>1, <1>2

\* The rest of a join: what is fetched, what is pushed, and its end.
LEMMA TypesPublishing ==
    ASSUME Types, \/ FetchOffsets \/ FetchOffsetsFails \/ JoinDone
                  \/ \E s \in Shards : Push(s)
    PROVE  Types'
<1>1. UNCHANGED <<up, needs, view, acked, marked, exists, attached, refs, first, armed, stopping,
                  generation, full, staged, ggen, wire, asleep, coordinator, history>>
    BY DEF FetchOffsets, FetchOffsetsFails, JoinDone, Push, JoinState, consumers, owner, requests
<1>2. Share' = Share /\ Requests' = Requests /\ cgen' = cgen
    BY <1>1, SetsSame DEF coordinator
<1>3. /\ cpc' \in [Consumers -> Places] /\ beats' \in [1 .. MaxBeats -> -3 .. cgen']
      /\ jpc' \in {"no", "joining", "fetching", "publishing"}
    <2>1. CASE FetchOffsetsFails \/ JoinDone
        BY <1>2, <2>1, TypesJoinOver DEF FetchOffsetsFails, JoinDone
    <2>2. CASE FetchOffsets \/ \E s \in Shards : Push(s)
        BY <1>2, <2>2 DEF FetchOffsets, Push, consumers, requests, Types, ShardTypes, OwnerTypes,
            WireTypes
    <2> QED  BY <2>1, <2>2
<1>4. fetched' \in Offsets
    <2>1. [p \in Partitions |-> IF p \in full THEN committed[p] ELSE NoOffset] \in Offsets
        BY DEF Types, WireTypes, Offsets, NoOffset
    <2> QED  BY <2>1 DEF FetchOffsets, FetchOffsetsFails, JoinDone, Push, owner,
                Types, OwnerTypes
<1>5. cache' \in [Shards -> Share]
    <2>1. ASSUME NEW s \in Shards  PROVE Payload(s) \in Share
        <3>1. [p \in Partitions |-> IF p \in ShardShare(full, s) THEN fetched[p] ELSE NoOffset]
                \in Offsets
            BY DEF Types, OwnerTypes, Offsets, NoOffset
        <3>2. ShardShare(full, s) \subseteq Partitions
            BY DEF ShardShare, Types, OwnerTypes
        <3> QED  BY <3>1, <3>2 DEF Payload, Share, Types, OwnerTypes
    <2>2. cache \in [Shards -> Share]
        BY DEF Types, ShardTypes
    <2>3. UNCHANGED cache \/ \E s \in Shards : cache' = [cache EXCEPT ![s] = Payload(s)]
        BY DEF FetchOffsets, FetchOffsetsFails, JoinDone, Push, ApplyLocally, JoinState
    <2> QED  BY <2>1, <2>2, <2>3
<1>6. pushGeneration' \in -1 .. cgen /\ toPush' \subseteq Shards /\ faults' \in Nat
    <2>1. pushGeneration' \in {pushGeneration, generation}
        BY DEF FetchOffsets, FetchOffsetsFails, JoinDone, Push
    <2>2. toPush' \in {toPush, Shards} \cup {toPush \ {s} : s \in Shards}
        BY DEF FetchOffsets, FetchOffsetsFails, JoinDone, Push
    <2>3. UNCHANGED faults \/ Fault("fetch")
        BY DEF FetchOffsets, FetchOffsetsFails, JoinDone, Push
    <2> QED  BY <2>1, <2>2, <2>3, FaultType DEF Types, OwnerTypes, WireTypes
<1>7. ShardTypes'
    BY <1>1, <1>2, <1>3, <1>5 DEF Types, ShardTypes
<1>8. OwnerTypes'
    BY <1>1, <1>2, <1>3, <1>4, <1>6 DEF Types, OwnerTypes
<1>9. WireTypes'
    BY <1>1, <1>2, <1>3, <1>6 DEF Types, WireTypes, coordinator, history
<1> QED  BY <1>7, <1>8, <1>9 DEF Types

\* The heartbeats, and the join an answer may begin.
LEMMA TypesBeats ==
    ASSUME Types, NEW i \in 1 .. MaxBeats, Beat(i) \/ BeatAnswered(i) \/ BeatFails(i)
    PROVE  Types'
<1>1. UNCHANGED <<consumers, cache, exists, attached, refs, first, armed, stopping, full, fetched,
                  pushGeneration, toPush, ggen, asleep, coordinator, assigned>>
    <2>1. Beat(i) \/ BeatFails(i) =>
            UNCHANGED <<consumers, cache, owner, join, ggen, wire, asleep, coordinator, history>>
        BY DEF Beat, BeatFails
    <2> QED  BY DEF Beat, BeatAnswered, BeatFails, owner, join, history
<1>2. Share' = Share /\ Requests' = Requests /\ cgen' = cgen
    BY <1>1, SetsSame DEF coordinator
<1>3. beats' \in [1 .. MaxBeats -> -3 .. cgen]
    <2>1. beats \in [1 .. MaxBeats -> -3 .. cgen] /\ {ggen, NoBeat, Joining} \subseteq -3 .. cgen
        BY DEF Types, WireTypes, NoBeat, Joining
    <2>2. \E b \in {ggen, NoBeat, Joining} : beats' = [beats EXCEPT ![i] = b]
        BY DEF Beat, BeatAnswered, BeatFails
    <2> QED  BY <2>1, <2>2
<1>4. generation' \in -1 .. cgen
    BY DEF Beat, BeatAnswered, BeatFails, owner, Types, OwnerTypes, WireTypes
<1>5. /\ jpc' \in {"no", "joining", "fetching", "publishing"}
      /\ UNCHANGED <<wire, staged, attempted>>
    <2>1. CASE JoinBegins /\ generation' = -1
        BY <1>2, <2>1, TypesJoinBegins
    <2>2. CASE ~(JoinBegins /\ generation' = -1)
        BY <2>2 DEF Beat, BeatAnswered, BeatFails, owner, join, history, Types, OwnerTypes
    <2> QED  BY <2>1, <2>2
<1>6. faults' \in Nat
    BY DEF Beat, BeatAnswered, BeatFails, Fault, Types, WireTypes
<1>7. ShardTypes'
    BY <1>1, <1>2 DEF Types, ShardTypes, consumers
<1>8. OwnerTypes'
    BY <1>1, <1>2, <1>4, <1>5 DEF Types, OwnerTypes
<1>9. WireTypes'
    BY <1>1, <1>2, <1>3, <1>5, <1>6 DEF Types, WireTypes, coordinator
<1> QED  BY <1>7, <1>8, <1>9 DEF Types

\* An attach on shard 0, which joins only for want of a generation.
LEMMA TypesAttachOnZero ==
    ASSUME Types, NEW c \in Consumers, AttachOnZero(c)
    PROVE  Types'
<1>1. UNCHANGED <<up, needs, view, acked, marked, cache, exists, armed, stopping, generation,
                  full, fetched, pushGeneration, toPush, ggen, beats, asleep, coordinator,
                  assigned, faults>>
    BY DEF AttachOnZero
<1>2. Share' = Share /\ Requests' = Requests /\ cgen' = cgen
    BY <1>1, SetsSame DEF coordinator
<1>3. /\ jpc' \in {"no", "joining", "fetching", "publishing"}
      /\ UNCHANGED <<wire, staged, attempted>>
    <2>1. CASE JoinBegins /\ jpc = "no" /\ ~(generation >= 0)
        BY <1>1, <1>2, <2>1, TypesJoinBegins DEF Types, OwnerTypes, WireTypes
    <2>2. CASE ~(JoinBegins /\ jpc = "no" /\ ~(generation >= 0))
        BY <2>2 DEF AttachOnZero, Types, OwnerTypes
    <2> QED  BY <2>1, <2>2
<1>4. cpc' \in [Consumers -> Places]
    BY DEF AttachOnZero, Types, ShardTypes, Places
<1>5. /\ attached' \subseteq Shards /\ first' \subseteq Consumers
      /\ refs' \in Nat /\ refs' = Cardinality(attached')
    <2>1. attached \subseteq Shards /\ IsFiniteSet(attached) /\ refs = Cardinality(attached)
          /\ refs \in Nat /\ first \subseteq Consumers
        BY FS_Subset DEF Types, OwnerTypes
    <2>2. Cardinality(attached \cup {ShardOf[c]}) =
            IF NewShard(c) THEN refs + 1 ELSE refs
        BY <2>1, FS_AddElement DEF NewShard
    <2>3. ShardOf[c] \in Shards
        OBVIOUS
    <2> QED  BY <2>1, <2>2, <2>3 DEF AttachOnZero
<1>6. ShardTypes'
    BY <1>1, <1>2, <1>4 DEF Types, ShardTypes
<1>7. OwnerTypes'
    BY <1>1, <1>2, <1>3, <1>5 DEF Types, OwnerTypes
<1>8. WireTypes'
    BY <1>1, <1>2, <1>3 DEF Types, WireTypes, coordinator
<1> QED  BY <1>6, <1>7, <1>8 DEF Types

\* A consumer back on its shard takes over what was pushed, and works on it.
LEMMA TypesAtWork ==
    ASSUME Types, NEW c \in Consumers,
           \/ Attached(c) \/ Offer(c)
           \/ \E p \in Partitions : Finish(c, p)
    PROVE  Types'
<1>1. UNCHANGED <<cache, exists, attached, refs, first, armed, stopping, generation, full,
                  fetched, join, requests, coordinator, history, faults>>
    BY DEF Attached, Offer, Finish, owner
<1>2. Share' = Share /\ Requests' = Requests /\ cgen' = cgen
    BY <1>1, SetsSame DEF coordinator
<1>3. Finished(c) \in Offsets
    BY FinishedType DEF Types
<1>4. cpc' \in [Consumers -> Places] /\ up' \in [Consumers -> BOOLEAN]
    BY DEF Attached, Offer, Finish, Types, ShardTypes, Places
<1>5. needs' \in [Consumers -> BOOLEAN]
    BY DEF Attached, Offer, Finish, Types, ShardTypes
<1>6. cache[ShardOf[c]] \in Share /\ cache[ShardOf[c]].committed \in Offsets
    BY DEF Types, ShardTypes, Share
<1>7. view' \in [Consumers -> Share]
    BY <1>6 DEF Attached, Offer, Finish, Types, ShardTypes
<1>8. acked' \in [Consumers -> Offsets]
    <2>1. CASE \E p \in Partitions : Finish(c, p)
        <3>1. PICK p \in Partitions : Finish(c, p)
            BY <2>1
        <3>2. acked \in [Consumers -> Offsets] /\ acked[c] \in Offsets
            BY DEF Types, ShardTypes
        <3>3. acked[c][p] + 1 \in -1 .. MaxOffset
            <4>1. acked[c][p] \in -1 .. MaxOffset /\ MaxOffset \in Nat
                BY <3>2, MembershipAssumption DEF Offsets
            <4>2. acked[c][p] < MaxOffset
                BY <3>1 DEF Finish
            <4> QED  BY <4>1, <4>2
        <3>4. [acked[c] EXCEPT ![p] = @ + 1] \in Offsets
            BY <3>2, <3>3 DEF Offsets
        <3>5. acked' = [acked EXCEPT ![c] = [acked[c] EXCEPT ![p] = @ + 1]]
            BY <3>1, <3>2 DEF Finish
        <3> QED  BY <3>2, <3>4, <3>5
    <2>2. CASE Attached(c) \/ Offer(c)
        BY <1>6, <2>2 DEF Attached, Offer, Types, ShardTypes
    <2> QED  BY <2>1, <2>2
<1>9. marked' \in [Consumers -> Offsets]
    <2>1. marked \in [Consumers -> Offsets] /\ marked[c] \in Offsets
        BY DEF Types, ShardTypes
    <2>2. Merge(marked[c], Finished(c)) \in Offsets
        BY <1>3, <2>1, MergeType
    <2> QED  BY <1>6, <2>1, <2>2 DEF Attached, Offer, Finish
<1>10. staged' \in Offsets
    <2>1. Merge(staged, Finished(c)) \in Offsets /\ staged \in Offsets
        BY <1>3, MergeType DEF Types, OwnerTypes
    <2> QED  BY <2>1 DEF Attached, Offer, Finish, owner
<1>11. ShardTypes'
    BY <1>1, <1>2, <1>4, <1>5, <1>7, <1>8, <1>9 DEF Types, ShardTypes
<1>12. OwnerTypes'
    BY <1>1, <1>2, <1>10 DEF Types, OwnerTypes, join
<1>13. WireTypes'
    BY <1>1, <1>2 DEF Types, WireTypes, requests, coordinator, history
<1> QED  BY <1>11, <1>12, <1>13 DEF Types

\* Detach, leave and the end of the owner.
LEMMA TypesLeaving ==
    ASSUME Types, NEW c \in Consumers,
           Detach(c) \/ Leave(c) \/ Erase(c)
    PROVE  Types'
<1>1. UNCHANGED <<up, needs, view, acked, marked, cache, join, beats, wire, asleep, cgen,
                  preparing, committed, history>>
    BY DEF Detach, Leave, Erase, requests, coordinator
<1>2. Share' = Share /\ Requests' = Requests
    BY <1>1, SetsSame
<1>3. cpc' \in [Consumers -> Places]
    BY DEF Detach, Leave, Erase, Types, ShardTypes, Places
<1>4. refs' \in Nat /\ refs' = Cardinality(attached')
    <2>1. IsFiniteSet(attached) /\ refs = Cardinality(attached) /\ refs \in Nat
        BY FS_Subset DEF Types, OwnerTypes
    <2>2. ShardOf[c] \in attached =>
            Cardinality(attached \ {ShardOf[c]}) = refs - 1 /\ refs # 0
        BY <2>1, FS_RemoveElement, FS_EmptySet
    <2>3. CASE Detach(c) /\ exists /\ ShardOf[c] \in attached
        <3>1. refs' = refs - 1 /\ attached' = attached \ {ShardOf[c]}
            BY <2>3 DEF Detach
        <3> QED  BY <2>1, <2>2, <2>3, <3>1
    <2>4. CASE Erase(c)
        BY <2>4, FS_EmptySet DEF Erase
    <2>5. CASE ~Erase(c) /\ ~(Detach(c) /\ exists /\ ShardOf[c] \in attached)
        BY <2>1, <2>5 DEF Detach, Leave, owner
    <2> QED  BY <2>3, <2>4, <2>5
<1>5. /\ exists' \in BOOLEAN /\ armed' \in BOOLEAN /\ stopping' \in BOOLEAN
      /\ attached' \subseteq Shards /\ first' \subseteq Consumers
    <2>1. exists' \in {exists, FALSE}
        BY DEF Detach, Leave, Erase, owner
    <2>2. armed' \in BOOLEAN /\ stopping' \in BOOLEAN
        BY Zenon DEF Detach, Leave, Erase, owner, Types, OwnerTypes
    <2>3. attached' \subseteq attached /\ first' \subseteq first
        BY DEF Detach, Leave, Erase, owner
    <2> QED  BY <2>1, <2>2, <2>3 DEF Types, OwnerTypes
<1>6. /\ generation' \in -1 .. cgen /\ full' \subseteq Partitions
      /\ fetched' \in Offsets /\ staged' \in Offsets
    <2>1. \/ UNCHANGED <<generation, full, fetched, staged>>
          \/ generation' = -1 /\ full' = {} /\ fetched' = None /\ staged' = None
        BY DEF Detach, Leave, Erase, owner
    <2>2. -1 \in -1 .. cgen
        BY DEF Types, WireTypes
    <2> QED  BY <2>1, <2>2, NoneType DEF Types, OwnerTypes
<1>7. /\ ggen' \in -1 .. cgen /\ member' \in BOOLEAN /\ mine' \subseteq Partitions
      /\ faults' \in Nat
    <2>1. ggen' \in {ggen, -1} /\ member' \in {member, FALSE} /\ mine' \in {mine, {}}
        BY DEF Detach, Leave, Erase, requests, coordinator
    <2>2. UNCHANGED faults \/ Fault("leave")
        BY DEF Detach, Leave, Erase
    <2>3. faults' \in Nat
        BY <2>2, FaultType DEF Types, WireTypes
    <2>4. ggen \in -1 .. cgen /\ -1 \in -1 .. cgen /\ mine \subseteq Partitions
        BY DEF Types, WireTypes
    <2>5. member' \in BOOLEAN
        BY <2>1 DEF Types, WireTypes
    <2> QED  BY <2>1, <2>3, <2>4, <2>5
<1>8. ShardTypes'
    BY <1>1, <1>2, <1>3 DEF Types, ShardTypes
<1>9. OwnerTypes'
    BY <1>1, <1>4, <1>5, <1>6 DEF Types, OwnerTypes, join
<1>10. WireTypes'
    BY <1>1, <1>2, <1>7 DEF Types, WireTypes, history
<1> QED  BY <1>8, <1>9, <1>10 DEF Types

\* What the rest of the group does, and a step that changes nothing.
LEMMA TypesOthers ==
    ASSUME Types, \/ RebalanceStarts \/ UNCHANGED vars
                  \/ \E p \in Partitions : OtherCommits(p)
    PROVE  Types'
<1>1. UNCHANGED <<consumers, cache, owner, join, requests, cgen, member, mine, history>>
    BY DEF RebalanceStarts, OtherCommits, vars, coordinator
<1>2. Share' = Share /\ Requests' = Requests
    BY <1>1, SetsSame
<1>3. preparing' \in BOOLEAN /\ faults' \in Nat
    <2>1. preparing' \in {preparing, TRUE}
        BY DEF RebalanceStarts, OtherCommits, vars, coordinator
    <2>2. UNCHANGED faults \/ Fault("rebalance")
        BY DEF RebalanceStarts, OtherCommits, vars
    <2> QED  BY <2>1, <2>2, FaultType DEF Types, WireTypes
<1>4. committed' \in Offsets
    BY DEF RebalanceStarts, OtherCommits, vars, coordinator, Types, WireTypes, Offsets
<1>5. ShardTypes'
    BY <1>1, <1>2 DEF Types, ShardTypes, consumers
<1>6. OwnerTypes'
    BY <1>1, <1>2 DEF Types, OwnerTypes, owner, join
<1>7. WireTypes'
    BY <1>1, <1>2, <1>3, <1>4 DEF Types, WireTypes, requests, history
<1> QED  BY <1>5, <1>6, <1>7 DEF Types

\* Every step keeps the types.
LEMMA TypesNext ==
    ASSUME Types, [Next]_vars
    PROVE  Types'
<1>1. CASE \E c \in Consumers : ConsumerStep(c) \/ StartConsumer(c) \/ Stop(c)
    BY <1>1, TypesAlone, TypesAttachOnZero, TypesAtWork, TypesCommitSent, TypesLeaving
    DEF ConsumerStep
<1>2. CASE \E c \in Consumers, p \in Partitions : Finish(c, p)
    BY <1>2, TypesAtWork
<1>3. CASE \E i \in 1 .. MaxBeats : Beat(i) \/ BeatAnswered(i)
    BY <1>3, TypesBeats
<1>4. CASE \E p \in Partitions : OtherCommits(p)
    BY <1>4, TypesOthers
<1>5. CASE CommitTimer
    BY <1>5, TypesCommitSent
<1>6. CASE JoinStep
    BY <1>6, TypesNewGeneration, TypesPublishing DEF JoinStep
<1>7. CASE CommitStep
    BY <1>7, TypesCommitReturns, TypesCommitAgain DEF CommitStep
<1>8. CASE FaultStep
    BY <1>8, TypesCommitReturns, TypesCommitAgain, TypesNewGeneration, TypesPublishing,
        TypesOthers, TypesBeats, TypesAlone DEF FaultStep
<1>9. CASE UNCHANGED vars
    BY <1>9, TypesOthers
<1> QED  BY <1>1, <1>2, <1>3, <1>4, <1>5, <1>6, <1>7, <1>8, <1>9 DEF Next

\* The types are an invariant.
LEMMA TypesAlways == Spec => []Types
<1>1. Init => Types
    BY TypesInit
<1>2. Types /\ [Next]_vars => Types'
    BY TypesNext
<1> QED  BY <1>1, <1>2, PTL DEF Spec

\* Every variable of the membership keeps its type, for every number of shards,
\* partitions, consumers and faults.
THEOREM TypeCorrect == Spec => []TypeOK
<1>1. Types => TypeOK
    <2> SUFFICES ASSUME Types PROVE TypeOK
        OBVIOUS
    <2>1. \A t \in {staged, committed, fetched, attempted} :
            t \in [Partitions -> -1 .. MaxOffset]
        BY DEF Types, OwnerTypes, WireTypes, Offsets
    <2>2. \A c \in Consumers : {acked[c], marked[c]} \subseteq [Partitions -> -1 .. MaxOffset]
        BY DEF Types, ShardTypes, Offsets
    <2>3. \A a \in {cache[s] : s \in Shards} \cup {view[c] : c \in Consumers} :
            a \in [generation : -1 .. cgen, partitions : SUBSET Partitions,
                   committed : [Partitions -> -1 .. MaxOffset]]
        BY DEF Types, ShardTypes, Share, Offsets
    <2>4. {exists, armed, stopping, member, preparing} \subseteq BOOLEAN
        BY DEF Types, OwnerTypes, WireTypes
    <2>5. cpc \in [Consumers -> Places] /\ up \in [Consumers -> BOOLEAN]
          /\ needs \in [Consumers -> BOOLEAN]
        BY DEF Types, ShardTypes
    <2>6. /\ attached \subseteq Shards /\ refs \in Nat /\ first \subseteq Consumers
          /\ generation \in -1 .. cgen
          /\ jpc \in {"no", "revoking", "joining", "fetching", "publishing"} /\ toPush \subseteq Shards
          /\ full \subseteq Partitions
        BY DEF Types, OwnerTypes
    <2>7. /\ ggen \in -1 .. cgen /\ cgen \in Nat /\ mine \subseteq Partitions
          /\ beats \in [1 .. MaxBeats -> -3 .. cgen] /\ faults \in Nat
        BY DEF Types, WireTypes
    <2> QED  BY <2>1, <2>2, <2>3, <2>4, <2>5, <2>6, <2>7 DEF TypeOK, Places
<1> QED  BY <1>1, TypesAlways, PTL

\* What the run of the finding shows on one shard holds in general.  do_join is
\* only entered without a generation, so the commit at its top, meant for the
\* partitions that are about to be given away, is never sent.
THEOREM RevokeNeverRuns ==
    Spec => [](jpc # "revoking" /\ \A k \in 1 .. Len(wire) : wire[k].by # "join")
<1>1. Types => jpc # "revoking" /\ \A k \in 1 .. Len(wire) : wire[k].by # "join"
    <2> SUFFICES ASSUME Types
                 PROVE  jpc # "revoking" /\ \A k \in 1 .. Len(wire) : wire[k].by # "join"
        OBVIOUS
    <2>1. jpc # "revoking"
        BY DEF Types, OwnerTypes
    <2>2. \A k \in 1 .. Len(wire) : wire[k] \in Requests
        BY DEF Types, WireTypes
    <2>3. \A r \in Requests : r.by # "join"
        BY DEF Requests, Requesters
    <2> QED  BY <2>1, <2>2, <2>3
<1> QED  BY <1>1, TypesAlways, PTL

-----------------------------------------------------------------------------
(* The owner's life holds                                                    *)

\* The first state: nobody has attached.
LEMMA LifeInit == Init => Life
<1> SUFFICES ASSUME Init PROVE Life
    OBVIOUS
<1>1. Counted /\ Kept /\ LastOut
    BY DEF Init, Counted, Kept, LastOut, Departed, Leaving, Stopping
<1>2. Awaited
    BY DEF Init, Awaited
<1>3. JoinWanted /\ Emptied
    BY DEF Init, JoinWanted, Emptied, NoBeats
<1> QED  BY <1>1, <1>2, <1>3 DEF Life

\* What the owner's life depends on.
lifeVars == <<cpc, up, exists, attached, armed, beats, wire, asleep>>

\* A step that only takes a join further is of no concern.
LEMMA LifeSame ==
    ASSUME Life, UNCHANGED lifeVars, jpc' = "no" <=> jpc = "no"
    PROVE  Life'
<1>1. Counted' /\ Kept' /\ LastOut'
    BY DEF Life, lifeVars, Counted, Kept, LastOut
<1>2. Awaited'
    BY DEF Life, lifeVars, Awaited, AwaitedBy
<1>3. JoinWanted' /\ Emptied'
    BY DEF Life, lifeVars, JoinWanted, Emptied, NoBeats, NoTimed
<1> QED  BY <1>1, <1>2, <1>3 DEF Life

\* The requests of whoever has not moved are still awaited.
LEMMA AwaitedSame ==
    ASSUME Types, Awaited, UNCHANGED <<wire, asleep>>, NEW c \in Consumers, NEW x,
           cpc' = [cpc EXCEPT ![c] = x], cpc[c] \notin {"flushing", "lastCommit"}
    PROVE  Awaited'
<1>1. \A d \in Consumers : cpc[d] \in {"flushing", "lastCommit"} => cpc'[d] = cpc[d]
    BY DEF Types, ShardTypes
<1>2. \A r : AwaitedBy(r) => AwaitedBy(r)'
    BY <1>1 DEF AwaitedBy
<1> QED  BY <1>2 DEF Awaited

\* Starting, reading the metadata, arming the timers, polling and offering.
LEMMA LifeAlone ==
    ASSUME OneInput, Types, Life, NEW c \in Consumers,
           \/ StartConsumer(c) \/ CreateOwner(c) \/ CreateFails(c) \/ ArmTimers(c)
           \/ Attached(c) \/ Poll(c) \/ Offer(c) \/ Stop(c)
    PROVE  Life'
<1>1. UNCHANGED <<attached, jpc, beats, wire, asleep>>
    BY DEF StartConsumer, CreateOwner, CreateFails, ArmTimers, Attached, Poll, Offer, Stop,
        owner, join, requests
<1>2. PICK x \in Places : cpc' = [cpc EXCEPT ![c] = x]
    BY DEF StartConsumer, CreateOwner, CreateFails, ArmTimers, Attached, Poll, Offer, Stop,
        Failed, Places
<1>3. /\ cpc \in [Consumers -> Places] /\ up \in [Consumers -> BOOLEAN]
      /\ ShardOf \in [Consumers -> Shards]
    BY DEF Types, ShardTypes
<1>4. \/ cpc[c] = "new" /\ x = "attach" /\ UNCHANGED <<up, exists, armed>>
      \/ cpc[c] = "attach" /\ x = "refresh" /\ ~exists /\ exists' = TRUE /\ UNCHANGED <<up, armed>>
      \/ cpc[c] = "refresh" /\ x = Failed(c) /\ UNCHANGED <<up, exists, armed>>
      \/ cpc[c] = "joined" /\ x = "back" /\ UNCHANGED <<up, exists>>
      \/ cpc[c] = "back" /\ x = "idle" /\ up' = [up EXCEPT ![c] = TRUE] /\ UNCHANGED <<exists, armed>>
      \/ cpc[c] = "idle" /\ up[c] /\ x \in {"offering", "attach"} /\ UNCHANGED <<up, exists, armed>>
      \/ cpc[c] = "offering" /\ x \in {"attach", "idle"} /\ UNCHANGED <<up, exists, armed>>
      \/ cpc[c] = "lastOffer" /\ x = "flush" /\ UNCHANGED <<up, exists, armed>>
      \/ /\ cpc[c] = "idle" /\ up[c] /\ Settled(StreamOf[c]) /\ x \in {"lastOffer", "flush"}
         /\ UNCHANGED <<up, exists, armed>>
    BY <1>2, <1>3 DEF StartConsumer, CreateOwner, CreateFails, ArmTimers, Attached, Poll, Offer, Stop,
        owner
<1>5. Counted'
    BY <1>1, <1>2, <1>3, <1>4 DEF Life, Counted, Departed, Stopping, Failed, ArmTimers
<1>6. Kept'
    BY <1>1, <1>2, <1>3, <1>4 DEF Life, Counted, Kept, Departed, Leaving, Stopping, Failed
<1>7. LastOut'
    BY <1>1, <1>2, <1>3, <1>4 DEF Life, LastOut, OneInput, Settled, Departed, Leaving, Stopping, Failed
<1>8. Awaited'
    BY <1>1, <1>2, <1>4, AwaitedSame DEF Life
<1>9. JoinWanted'
    BY <1>1, <1>2, <1>3, <1>4 DEF Life, JoinWanted
<1>10. Emptied'
    BY <1>1, <1>2, <1>3, <1>4 DEF Life, Emptied, NoBeats, NoTimed, Failed
<1> QED  BY <1>5, <1>6, <1>7, <1>8, <1>9, <1>10 DEF Life

\* A consumer that attaches waits for a join unless there is a generation.
LEMMA LifeAttachOnZero ==
    ASSUME OneInput, Types, Life, NEW c \in Consumers, AttachOnZero(c)
    PROVE  Life'
<1>1. UNCHANGED <<up, exists, armed, beats, asleep>> /\ attached' = attached \cup {ShardOf[c]}
    BY DEF AttachOnZero
<1>2. /\ cpc \in [Consumers -> Places] /\ up \in [Consumers -> BOOLEAN]
      /\ ShardOf \in [Consumers -> Shards] /\ attached \subseteq Shards
    BY DEF Types, ShardTypes, OwnerTypes
<1>3. UNCHANGED wire
    <2>1. CASE JoinBegins /\ jpc = "no" /\ ~(generation >= 0)
        BY <2>1, TypesJoinBegins DEF AttachOnZero, Types, OwnerTypes, WireTypes, coordinator
    <2>2. CASE ~(JoinBegins /\ jpc = "no" /\ ~(generation >= 0))
        BY <2>2 DEF AttachOnZero
    <2> QED  BY <2>1, <2>2
<1>4. \/ cpc' = [cpc EXCEPT ![c] = "joined"] /\ UNCHANGED jpc
      \/ cpc' = [cpc EXCEPT ![c] = "waiting"]
    BY DEF AttachOnZero
<1>5. PICK x \in {"joined", "waiting"} : cpc' = [cpc EXCEPT ![c] = x]
    BY <1>4
<1>6. cpc[c] \in {"attach", "refresh"} /\ exists
    BY DEF AttachOnZero, Life, Kept
<1>7. Counted'
    BY <1>1, <1>2, <1>5, <1>6 DEF Life, Counted, Departed, Stopping
<1>8. Kept'
    BY <1>1, <1>2, <1>5, <1>6 DEF Life, Kept
<1>9. LastOut'
    BY <1>1, <1>2, <1>5, <1>6 DEF Life, LastOut, Departed, Leaving, Stopping
<1>10. Awaited'
    BY <1>1, <1>3, <1>5, <1>6, AwaitedSame DEF Life
<1>11. JoinWanted'
    BY <1>1, <1>2, <1>4, <1>6 DEF Life, JoinWanted
<1>12. Emptied'
    BY <1>1, <1>2, <1>3, <1>5, <1>6 DEF Life, Emptied, NoBeats, NoTimed
<1> QED  BY <1>7, <1>8, <1>9, <1>10, <1>11, <1>12 DEF Life

\* The end of a join, good or bad, wakes those who waited for it.
LEMMA LifeJoinOver ==
    ASSUME OneInput, Types, Life, NEW ok \in BOOLEAN, JoinOver(ok),
           UNCHANGED <<up, exists, attached, armed, wire, asleep>>
    PROVE  Life'
<1>1. /\ cpc \in [Consumers -> Places] /\ up \in [Consumers -> BOOLEAN]
      /\ ShardOf \in [Consumers -> Shards] /\ beats \in [1 .. MaxBeats -> -3 .. cgen]
    BY DEF Types, ShardTypes, WireTypes
<1>2. /\ \A c \in Consumers : cpc[c] # "waiting" => cpc'[c] = cpc[c]
      /\ \A c \in Consumers : cpc[c] = "waiting" =>
            cpc'[c] \in {"joined", "failed"} \/ (cpc'[c] = "idle" /\ up[c])
    BY <1>1 DEF JoinOver, Failed
<1>3. jpc' = "no" /\ (NoBeats => NoBeats')
    BY DEF JoinOver, NoBeats
<1>4. Counted'
    BY <1>1, <1>2 DEF Life, Counted, Departed, Stopping
<1>5. Kept'
    BY <1>1, <1>2 DEF Life, Kept, Leaving
<1>6. LastOut'
    BY <1>1, <1>2 DEF Life, LastOut, Departed, Leaving, Stopping
<1>7. Awaited'
    <2>1. \A r : AwaitedBy(r) => AwaitedBy(r)'
        BY <1>2 DEF AwaitedBy
    <2> QED  BY <2>1 DEF Life, Awaited
<1>8. JoinWanted' /\ Emptied'
    BY <1>1, <1>2, <1>3 DEF Life, JoinWanted, Emptied, NoTimed
<1> QED  BY <1>4, <1>5, <1>6, <1>7, <1>8 DEF Life

\* What a join does on its way changes nobody's claim on the owner.
LEMMA LifeJoin ==
    ASSUME OneInput, Types, Life,
           \/ JoinAnswered \/ JoinFails \/ FetchOffsets \/ FetchOffsetsFails \/ JoinDone
           \/ \E s \in Shards : Push(s)
    PROVE  Life'
<1>1. CASE JoinFails \/ FetchOffsetsFails \/ JoinDone
    <2>1. UNCHANGED <<up, exists, attached, armed, wire, asleep>>
        BY <1>1 DEF JoinFails, FetchOffsetsFails, JoinDone, JoinState
    <2>2. \E ok \in BOOLEAN : JoinOver(ok)
        BY <1>1 DEF JoinFails, FetchOffsetsFails, JoinDone
    <2> QED  BY <2>1, <2>2, LifeJoinOver
<1>2. CASE JoinAnswered \/ FetchOffsets \/ \E s \in Shards : Push(s)
    <2>1. UNCHANGED lifeVars /\ (jpc' = "no" <=> jpc = "no")
        BY <1>2 DEF JoinAnswered, FetchOffsets, Push, JoinState, consumers, owner, requests, lifeVars
    <2> QED  BY <2>1, LifeSame
<1> QED  BY <1>1, <1>2

\* A heartbeat is only sent while the timers run; one that is not alive waits for
\* the join it asks for.
LEMMA LifeBeats ==
    ASSUME OneInput, Types, Life, NEW i \in 1 .. MaxBeats,
           Beat(i) \/ BeatAnswered(i) \/ BeatFails(i)
    PROVE  Life'
<1>1. UNCHANGED <<cpc, up, exists, attached, armed, asleep>>
    BY DEF Beat, BeatAnswered, BeatFails, consumers, owner
<1>2. /\ beats \in [1 .. MaxBeats -> -3 .. cgen] /\ cpc \in [Consumers -> Places]
      /\ Joining = -3 /\ NoBeat = -2 /\ ggen \in -1 .. cgen
    BY DEF Types, ShardTypes, WireTypes, Joining, NoBeat
<1>3. \/ armed /\ beats[i] = NoBeat /\ beats' = [beats EXCEPT ![i] = ggen] /\ UNCHANGED <<jpc, wire>>
      \/ /\ beats[i] >= -1 /\ beats' = [beats EXCEPT ![i] = NoBeat] /\ UNCHANGED <<jpc, wire>>
      \/ /\ beats[i] >= -1 /\ beats' = [beats EXCEPT ![i] = Joining] /\ UNCHANGED wire
    <2>1. CASE JoinBegins /\ BeatAnswered(i) /\ ~Alive(beats[i])
        <3>1. generation' = -1 /\ UNCHANGED cgen
            BY <2>1 DEF BeatAnswered, coordinator
        <3>2. UNCHANGED wire
            BY <2>1, <3>1, TypesJoinBegins
        <3> QED  BY <2>1, <3>2 DEF BeatAnswered
    <2>2. CASE ~(JoinBegins /\ BeatAnswered(i) /\ ~Alive(beats[i]))
        BY <2>2 DEF Beat, BeatAnswered, BeatFails, join
    <2> QED  BY <2>1, <2>2
<1>4. Counted' /\ Kept' /\ LastOut'
    BY <1>1 DEF Life, Counted, Kept, LastOut
<1>5. UNCHANGED wire
    BY <1>3
<1>6. Awaited'
    BY <1>1, <1>5 DEF Life, Awaited, AwaitedBy
<1>7. JoinWanted'
    BY <1>1, <1>2, <1>3 DEF Life, JoinWanted
<1>8. NoBeats => ~(beats[i] >= -1)
    BY <1>2 DEF NoBeats
<1>9. armed => attached # {}
    BY DEF Life, Counted
<1>10. Emptied'
    <2>1. ASSUME NEW d \in Consumers, cpc'[d] \in {"lastCommit", "leaving", "erase"}
          PROVE  NoBeats' /\ NoTimed'
        <3>1. NoBeats /\ NoTimed /\ attached = {}
            BY <1>1, <2>1 DEF Life, Emptied, LastOut, Leaving
        <3>2. FALSE
            BY <1>3, <1>8, <1>9, <3>1
        <3> QED  BY <3>2
    <2>2. ASSUME ~exists'
          PROVE  NoBeats' /\ wire' = <<>> /\ asleep' = {} /\ jpc' = "no"
        <3>1. NoBeats /\ attached = {}
            BY <1>1, <2>2 DEF Life, Emptied, Kept
        <3>2. FALSE
            BY <1>3, <1>8, <1>9, <3>1
        <3> QED  BY <3>2
    <2> QED  BY <2>1, <2>2 DEF Emptied
<1> QED  BY <1>4, <1>6, <1>7, <1>10 DEF Life

\* A commit that is answered or lost lets its consumer go on.
LEMMA LifeCommitReturns ==
    ASSUME OneInput, Types, Life, CommitAnswered \/ CommitLost
    PROVE  Life'
<1> DEFINE r == Head(wire)
<1>1. UNCHANGED <<up, exists, attached, armed, beats, asleep>>
    BY DEF CommitAnswered, CommitLost, CommitState
<1>2. /\ wire # <<>> /\ wire' = Tail(wire) /\ wire \in Seq(Requests)
      /\ cpc \in [Consumers -> Places] /\ up \in [Consumers -> BOOLEAN]
      /\ ShardOf \in [Consumers -> Shards]
    BY DEF CommitAnswered, CommitLost, Types, WireTypes, ShardTypes
<1>3. /\ r = wire[1] /\ r \in Requests /\ Len(wire) >= 1 /\ Len(wire) \in Nat
      /\ Len(wire') = Len(wire) - 1 /\ \A k \in 1 .. Len(wire') : wire'[k] = wire[k + 1]
    BY <1>2
<1>4. r.by = "timer" \/ (r.by \in Consumers /\ cpc[r.by] \in {"flushing", "lastCommit"})
    BY <1>3 DEF Life, Awaited, AwaitedBy
<1>5. CommitReturns(r)
    BY DEF CommitAnswered, CommitLost
<1>6. UNCHANGED jpc
    BY <1>4, <1>5 DEF CommitReturns
<1>7. CASE r.by = "timer"
    <2>1. UNCHANGED cpc
        <3>1. \A c \in Consumers : c # r.by
            BY <1>7
        <3> QED  BY <1>2, <1>5, <3>1 DEF CommitReturns
    <2>2. Counted' /\ Kept' /\ LastOut'
        BY <1>1, <2>1 DEF Life, Counted, Kept, LastOut
    <2>3. \A k \in 1 .. Len(wire') : k + 1 \in 1 .. Len(wire) /\ wire'[k] = wire[k + 1]
        BY <1>3
    <2>4. Awaited'
        <3>1. \A q : AwaitedBy(q) => AwaitedBy(q)'
            BY <2>1 DEF AwaitedBy
        <3>2. (\A q \in asleep : AwaitedBy(q))' /\ (\A k \in 1 .. Len(wire) : AwaitedBy(wire[k]))'
            BY <1>1, <2>3, <3>1 DEF Life, Awaited
        <3>3. \A k, l \in 1 .. Len(wire') :
                wire'[k].by = wire'[l].by => k = l \/ wire'[k].by = "timer"
            BY <1>3, <2>3 DEF Life, Awaited
        <3>4. \A q \in asleep', k \in 1 .. Len(wire') : q.by = wire'[k].by => q.by = "timer"
            BY <1>1, <2>3 DEF Life, Awaited
        <3> QED  BY <1>1, <3>2, <3>3, <3>4 DEF Life, Awaited
    <2>5. JoinWanted'
        BY <1>1, <1>6, <2>1 DEF Life, JoinWanted
    <2>6. Emptied'
        BY <1>1, <1>2, <1>6, <2>1, <2>3 DEF Life, Emptied, NoBeats, NoTimed
    <2> QED  BY <2>2, <2>4, <2>5, <2>6 DEF Life
<1>8. CASE r.by \in Consumers /\ cpc[r.by] \in {"flushing", "lastCommit"}
    <2> DEFINE c == r.by
    <2> DEFINE x == IF cpc[c] = "flushing" THEN "detach" ELSE "leaving"
    <2>1. cpc' = [cpc EXCEPT ![c] = x]
        BY <1>2, <1>5, <1>8 DEF CommitReturns
    <2>2. \A k \in 1 .. Len(wire') : k + 1 \in 1 .. Len(wire) /\ wire'[k] = wire[k + 1]
        BY <1>3
    <2>3. c # "timer" /\ c \in Consumers
        BY <1>8
    <2>4. /\ \A k \in 1 .. Len(wire') : wire'[k].by # c
          /\ \A q \in asleep : q.by # c
        <3>1. \A k \in 1 .. Len(wire') : k + 1 \in 1 .. Len(wire) /\ k + 1 # 1
            BY <1>3
        <3> QED  BY <1>3, <2>2, <2>3, <3>1 DEF Life, Awaited
    <2>5. x \in {"detach", "leaving"} /\ (x = "leaving" => cpc[c] = "lastCommit")
          /\ (x = "detach" => cpc[c] = "flushing")
        BY <1>8
    <2> HIDE DEF c, x, r
    <2>6. Counted'
        BY <1>1, <1>2, <2>1, <2>3, <2>5 DEF Life, Counted, Departed, Stopping
    <2>7. Kept'
        BY <1>1, <1>2, <2>1, <2>3, <2>5 DEF Life, Kept, Leaving
    <2>8. LastOut'
        BY <1>1, <1>2, <2>1, <2>3, <2>5 DEF Life, LastOut, Departed, Leaving, Stopping
    <2>9. Awaited'
        <3>1. \A q : q.by # c /\ AwaitedBy(q) => AwaitedBy(q)'
            BY <1>2, <2>1, <2>3 DEF AwaitedBy
        <3>2. (\A q \in asleep : AwaitedBy(q))' /\ (\A k \in 1 .. Len(wire) : AwaitedBy(wire[k]))'
            BY <1>1, <2>2, <2>4, <3>1 DEF Life, Awaited
        <3> QED  BY <1>1, <1>3, <2>2, <3>2 DEF Life, Awaited
    <2>10. JoinWanted'
        BY <1>1, <1>2, <1>6, <2>1, <2>3, <2>5 DEF Life, JoinWanted
    <2>11. Emptied'
        <3>1. exists
            BY <1>2 DEF Life, Emptied
        <3>2. ASSUME NEW d \in Consumers, cpc'[d] \in {"lastCommit", "leaving", "erase"}
              PROVE  NoBeats' /\ NoTimed'
            <4>1. cpc[d] \in {"lastCommit", "leaving", "erase"}
                BY <1>2, <2>1, <2>3, <2>5, <3>2
            <4>2. NoBeats /\ NoTimed
                BY <4>1 DEF Life, Emptied
            <4> QED  BY <1>1, <2>2, <4>2 DEF NoBeats, NoTimed
        <3> QED  BY <1>1, <3>1, <3>2 DEF Emptied
    <2> QED  BY <2>6, <2>7, <2>8, <2>9, <2>10, <2>11 DEF Life
<1> QED  BY <1>4, <1>7, <1>8

\* A request that goes to sleep, and is sent again, stays with whom it belongs to.
LEMMA LifeCommitAgain ==
    ASSUME OneInput, Types, Life, CommitRetriable \/ CommitResend
    PROVE  Life'
<1>1. UNCHANGED <<cpc, up, exists, attached, armed, beats, jpc>>
    BY DEF CommitRetriable, CommitResend, CommitState
<1>2. wire \in Seq(Requests) /\ asleep \subseteq Requests
    BY DEF Types, WireTypes
<1>3. Counted' /\ Kept' /\ LastOut' /\ JoinWanted'
    BY <1>1 DEF Life, Counted, Kept, LastOut, JoinWanted
<1>4. CASE CommitRetriable
    <2>1. wire # <<>> /\ asleep' = asleep \cup {wire[1]} /\ wire' = Tail(wire)
        BY <1>2, <1>4 DEF CommitRetriable
    <2>2. /\ Len(wire) \in Nat /\ Len(wire) >= 1 /\ Len(wire') = Len(wire) - 1
          /\ \A k \in 1 .. Len(wire') : k + 1 \in 1 .. Len(wire) /\ wire'[k] = wire[k + 1]
        BY <1>2, <2>1
    <2>3. Awaited'
        <3>1. \A r : AwaitedBy(r) => AwaitedBy(r)'
            BY <1>1 DEF AwaitedBy
        <3>2. (\A q \in asleep : AwaitedBy(q))' /\ (\A k \in 1 .. Len(wire) : AwaitedBy(wire[k]))'
            BY <2>1, <2>2, <3>1 DEF Life, Awaited
        <3>3. \A k, l \in 1 .. Len(wire') :
                wire'[k].by = wire'[l].by => k = l \/ wire'[k].by = "timer"
            BY <2>2 DEF Life, Awaited
        <3>4. \A k \in 1 .. Len(wire') : wire'[k].by = wire[1].by => wire[1].by = "timer"
            BY <2>2 DEF Life, Awaited
        <3>5. \A q \in asleep : q.by = wire[1].by => q.by = "timer"
            BY <2>2 DEF Life, Awaited
        <3>6. \A q, t \in asleep' : q.by = t.by => q = t \/ q.by = "timer"
            BY <2>1, <3>5 DEF Life, Awaited
        <3>7. \A q \in asleep', k \in 1 .. Len(wire') : q.by = wire'[k].by => q.by = "timer"
            BY <2>1, <2>2, <3>4 DEF Life, Awaited
        <3> QED  BY <3>2, <3>3, <3>6, <3>7 DEF Awaited
    <2>4. Emptied'
        <3>1. NoTimed => NoTimed'
            BY <2>1, <2>2 DEF NoTimed
        <3>2. exists
            BY <2>1 DEF Life, Emptied
        <3> QED  BY <1>1, <3>1, <3>2 DEF Life, Emptied, NoBeats
    <2> QED  BY <1>3, <2>3, <2>4 DEF Life
<1>5. CASE CommitResend
    <2>1. PICK r \in asleep : wire' = Append(wire, Request(r.by, r.offsets)) /\ asleep' = asleep \ {r}
        BY <1>5 DEF CommitResend
    <2> DEFINE s == Request(r.by, r.offsets)
    <2>2. s.by = r.by /\ s \in Requests
        <3>1. r.by \in Requesters /\ r.offsets \in Offsets
            BY <1>2 DEF Requests
        <3> QED  BY <3>1, RequestType DEF Request
    <2> HIDE DEF s
    <2>3. /\ Len(wire) \in Nat /\ Len(wire') = Len(wire) + 1 /\ wire'[Len(wire) + 1] = s
          /\ \A k \in 1 .. Len(wire) : wire'[k] = wire[k]
        BY <1>2, <2>1, <2>2 DEF s
    <2>4. \A k \in 1 .. Len(wire') : (k \in 1 .. Len(wire) /\ wire'[k] = wire[k])
                                     \/ (k = Len(wire) + 1 /\ wire'[k] = s)
        BY <2>3
    <2>5. Awaited'
        <3>1. \A q : AwaitedBy(q) => AwaitedBy(q)'
            BY <1>1 DEF AwaitedBy
        <3>2. AwaitedBy(s)
            BY <2>2 DEF Life, Awaited, AwaitedBy
        <3>3. (\A q \in asleep : AwaitedBy(q))' /\ (\A k \in 1 .. Len(wire) : AwaitedBy(wire[k]))'
            BY <2>1, <2>4, <3>1, <3>2 DEF Life, Awaited
        <3>4. \A k \in 1 .. Len(wire) : wire[k].by = r.by => r.by = "timer"
            BY DEF Life, Awaited
        <3>5. \A k, l \in 1 .. Len(wire') :
                wire'[k].by = wire'[l].by => k = l \/ wire'[k].by = "timer"
            BY <2>2, <2>4, <3>4 DEF Life, Awaited
        <3>6. \A q, t \in asleep' : q.by = t.by => q = t \/ q.by = "timer"
            BY <2>1 DEF Life, Awaited
        <3>7. \A q \in asleep', k \in 1 .. Len(wire') : q.by = wire'[k].by => q.by = "timer"
            BY <2>1, <2>2, <2>4 DEF Life, Awaited
        <3> QED  BY <3>3, <3>5, <3>6, <3>7 DEF Awaited
    <2>6. Emptied'
        <3>1. NoTimed => NoTimed'
            BY <2>1, <2>2, <2>4 DEF NoTimed
        <3>2. exists
            BY <2>1 DEF Life, Emptied
        <3> QED  BY <1>1, <3>1, <3>2 DEF Life, Emptied, NoBeats
    <2> QED  BY <1>3, <2>5, <2>6 DEF Life
<1> QED  BY <1>4, <1>5

\* A commit that is sent belongs to one who had none under way.
LEMMA AwaitedSent ==
    ASSUME Types, Awaited, NEW b \in Consumers \cup {"timer"}, SendStaged(b), UNCHANGED asleep,
           \A c \in Consumers : cpc[c] \in {"flushing", "lastCommit"} => cpc'[c] = cpc[c],
           b # "timer" => /\ cpc[b] \notin {"flushing", "lastCommit"}
                          /\ cpc'[b] \in {"flushing", "lastCommit"}
    PROVE  /\ Awaited'
           /\ \A k \in 1 .. Len(wire') : (k \in 1 .. Len(wire) /\ wire'[k] = wire[k])
                                         \/ (k = Len(wire) + 1 /\ wire'[k].by = b)
<1>1. PICK s \in Requests : s = Request(b, staged) /\ s.by = b
    <2>1. Request(b, staged) \in Requests
        BY RequestType DEF Types, OwnerTypes, Requesters
    <2>2. Request(b, staged).by = b
        BY DEF Request
    <2> QED  BY <2>1, <2>2
<1>2. wire \in Seq(Requests) /\ wire' = Append(wire, s)
    BY <1>1 DEF SendStaged, Types, WireTypes
<1>3. /\ Len(wire) \in Nat /\ Len(wire') = Len(wire) + 1 /\ wire'[Len(wire) + 1] = s
      /\ \A k \in 1 .. Len(wire) : wire'[k] = wire[k]
    BY <1>1, <1>2
<1>4. \A k \in 1 .. Len(wire') : (k \in 1 .. Len(wire) /\ wire'[k] = wire[k])
                                 \/ (k = Len(wire) + 1 /\ wire'[k] = s)
    BY <1>3
<1>5. ASSUME NEW q, AwaitedBy(q)  PROVE AwaitedBy(q)'
    <2>1. q.by # "timer" => q.by \in Consumers /\ cpc[q.by] \in {"flushing", "lastCommit"}
        BY <1>5 DEF AwaitedBy
    <2>2. q.by # "timer" => cpc'[q.by] \in {"flushing", "lastCommit"}
        BY <2>1
    <2> QED  BY <2>1, <2>2 DEF AwaitedBy
<1>6. AwaitedBy(s)'
    BY <1>1 DEF AwaitedBy
<1>7. (\A q \in asleep : AwaitedBy(q))' /\ (\A k \in 1 .. Len(wire) : AwaitedBy(wire[k]))'
    BY <1>4, <1>5, <1>6 DEF Awaited
<1>8. /\ \A k \in 1 .. Len(wire) : wire[k].by = b => b = "timer"
      /\ \A q \in asleep : q.by = b => b = "timer"
    BY DEF Awaited, AwaitedBy
<1>9. \A k, l \in 1 .. Len(wire') : wire'[k].by = wire'[l].by => k = l \/ wire'[k].by = "timer"
    BY <1>1, <1>4, <1>8 DEF Awaited
<1>10. \A q \in asleep', k \in 1 .. Len(wire') : q.by = wire'[k].by => q.by = "timer"
    BY <1>1, <1>4, <1>8 DEF Awaited
<1> QED  BY <1>1, <1>4, <1>7, <1>9, <1>10 DEF Awaited

\* The commit timer sends while someone is attached.
LEMMA LifeCommitTimer ==
    ASSUME OneInput, Types, Life, CommitTimer
    PROVE  Life'
<1>1. UNCHANGED <<cpc, up, exists, attached, armed, beats, asleep, jpc>>
    BY DEF CommitTimer, consumers, join
<1>2. Counted' /\ Kept' /\ LastOut' /\ JoinWanted'
    BY <1>1 DEF Life, Counted, Kept, LastOut, JoinWanted
<1>3. Awaited'
    BY <1>1, AwaitedSent DEF Life, CommitTimer
<1>4. attached # {} /\ exists
    BY DEF CommitTimer, Life, Counted, Kept
<1>5. Emptied'
    BY <1>1, <1>4 DEF Life, LastOut, Leaving, Emptied
<1> QED  BY <1>2, <1>3, <1>5 DEF Life

\* commit_now sends for a consumer that is still attached; the last commit of
\* detach is sent when the gate is empty.
LEMMA LifeCommitNow ==
    ASSUME OneInput, Types, Life, NEW c \in Consumers, CommitNow(c) \/ LastCommit(c)
    PROVE  Life'
<1>1. UNCHANGED <<up, exists, attached, armed, beats, asleep, jpc>>
    BY DEF CommitNow, LastCommit, FlushState, join
<1>2. /\ cpc \in [Consumers -> Places] /\ up \in [Consumers -> BOOLEAN]
      /\ ShardOf \in [Consumers -> Shards] /\ wire \in Seq(Requests) /\ c # "timer"
    BY DEF Types, ShardTypes, WireTypes
<1>3. \/ cpc[c] = "flush" /\ cpc' = [cpc EXCEPT ![c] = "flushing"] /\ SendStaged(c)
      \/ cpc[c] = "flush" /\ cpc' = [cpc EXCEPT ![c] = "detach"] /\ UNCHANGED wire
      \/ cpc[c] = "closing" /\ cpc' = [cpc EXCEPT ![c] = "lastCommit"] /\ SendStaged(c) /\ GateClosed
      \/ cpc[c] = "closing" /\ cpc' = [cpc EXCEPT ![c] = "leaving"] /\ UNCHANGED wire /\ GateClosed
    BY DEF CommitNow, LastCommit
<1>4. PICK x : cpc' = [cpc EXCEPT ![c] = x] /\
        \/ cpc[c] = "flush" /\ x \in {"flushing", "detach"}
        \/ cpc[c] = "closing" /\ x \in {"lastCommit", "leaving"} /\ GateClosed
    BY <1>3
<1>5. Counted'
    BY <1>1, <1>2, <1>4 DEF Life, Counted, Departed, Stopping
<1>6. Kept'
    BY <1>1, <1>2, <1>4 DEF Life, Kept, Leaving
<1>7. LastOut'
    BY <1>1, <1>2, <1>4 DEF Life, LastOut, Departed, Leaving, Stopping
<1>8. /\ Awaited'
      /\ \A k \in 1 .. Len(wire') : (k \in 1 .. Len(wire) /\ wire'[k] = wire[k])
                                    \/ (k = Len(wire) + 1 /\ wire'[k].by = c)
    <2>1. CASE SendStaged(c) /\ cpc[c] \in {"flush", "closing"}
               /\ cpc'[c] \in {"flushing", "lastCommit"}
        <3>1. \A d \in Consumers : cpc[d] \in {"flushing", "lastCommit"} => cpc'[d] = cpc[d]
            BY <1>2, <1>4
        <3> QED  BY <1>1, <1>2, <2>1, <3>1, AwaitedSent DEF Life
    <2>2. CASE UNCHANGED wire
        <3>1. Awaited'
            BY <1>1, <1>4, <2>2, AwaitedSame DEF Life
        <3> QED  BY <2>2, <3>1
    <2> QED  BY <1>2, <1>3, <2>1, <2>2
<1>9. JoinWanted'
    BY <1>1, <1>2, <1>4 DEF Life, JoinWanted
<1>10. exists
    <2>1. CASE cpc[c] = "flush"
        BY <2>1 DEF Life, Counted, Kept, Departed, Stopping
    <2>2. CASE cpc[c] = "closing"
        BY <2>2 DEF Life, Kept, Leaving
    <2> QED  BY <1>4, <2>1, <2>2
<1>11. Emptied'
    <2>1. ASSUME NEW d \in Consumers, cpc'[d] \in {"lastCommit", "leaving", "erase"}
          PROVE  NoBeats' /\ NoTimed'
        <3>1. NoBeats /\ NoTimed
            <4>1. CASE cpc[d] \in {"lastCommit", "leaving", "erase"}
                BY <4>1 DEF Life, Emptied
            <4>2. CASE cpc[d] \notin {"lastCommit", "leaving", "erase"}
                <5>1. GateClosed
                    BY <1>2, <1>4, <2>1, <4>2
                <5> QED  BY <5>1 DEF GateClosed, InGate, NoBeats, NoTimed
            <4> QED  BY <4>1, <4>2
        <3> QED  BY <1>1, <1>2, <1>8, <3>1 DEF NoBeats, NoTimed
    <2> QED  BY <1>1, <1>10, <2>1 DEF Emptied
<1> QED  BY <1>5, <1>6, <1>7, <1>8, <1>9, <1>11 DEF Life

\* Detach takes this shard's entry away; the last one out closes the gate.
LEMMA LifeDetach ==
    ASSUME OneInput, Types, Life, NEW c \in Consumers, Detach(c)
    PROVE  Life'
<1>1. UNCHANGED <<up, exists, beats, wire, asleep, jpc>> /\ cpc[c] = "detach"
    BY DEF Detach, join, requests
<1>2. /\ cpc \in [Consumers -> Places] /\ up \in [Consumers -> BOOLEAN]
      /\ ShardOf \in [Consumers -> Shards] /\ IsFiniteSet(attached)
      /\ refs = Cardinality(attached) /\ refs \in Nat /\ armed \in BOOLEAN
    BY FS_Subset DEF Types, ShardTypes, OwnerTypes
<1>3. up[c] /\ ShardOf[c] \in attached /\ exists
    BY <1>1 DEF Life, Counted, Kept, Stopping, Departed
<1>4. attached' = attached \ {ShardOf[c]} /\ refs' = refs - 1
    BY <1>3 DEF Detach
<1>5. refs' > 0 <=> attached' # {}
    <2>1. IsFiniteSet(attached') /\ Cardinality(attached') = refs'
        BY <1>2, <1>3, <1>4, FS_RemoveElement
    <2>2. Cardinality(attached') \in Nat /\ (Cardinality(attached') = 0 <=> attached' = {})
        BY <2>1, FS_CardinalityType, FS_EmptySet
    <2> QED  BY <2>1, <2>2
<1>6. /\ cpc' = [cpc EXCEPT ![c] = IF attached' # {} THEN "gone" ELSE "closing"]
      /\ armed' => armed /\ attached' # {}
    BY <1>3, <1>5 DEF Detach
<1>7. PICK x \in {"gone", "closing"} :
        cpc' = [cpc EXCEPT ![c] = x] /\ (x = "gone" <=> attached' # {})
    BY <1>6
<1>8. \A d \in Consumers \ {c} : ShardOf[d] # ShardOf[c]
    BY DEF OneInput
<1>9. Counted'
    BY <1>1, <1>2, <1>4, <1>6, <1>7, <1>8 DEF Life, Counted, Departed, Stopping
<1>10. Kept'
    BY <1>1, <1>2, <1>3, <1>7 DEF Life, Kept, Leaving
<1>11. LastOut'
    <2>1. \A d, e \in Consumers : cpc'[d] \in Stopping => up'[e] \/ cpc'[e] = "failed"
        BY <1>1, <1>2, <1>7 DEF Life, LastOut, Stopping
    <2>2. ASSUME NEW d \in Consumers, cpc'[d] \in Leaving
          PROVE  attached' = {} /\ \A e \in Consumers \ {d} : cpc'[e] \in {"gone", "failed"}
        <3>1. d = c
            BY <1>1, <1>2, <1>3, <1>7, <2>2 DEF Life, LastOut
        <3>2. attached' = {}
            BY <1>2, <1>7, <2>2, <3>1 DEF Leaving
        <3>3. ASSUME NEW e \in Consumers, e # c  PROVE cpc[e] \in {"gone", "failed"}
            <4>1. ShardOf[e] \notin attached
                BY <1>4, <1>8, <3>2, <3>3
            <4>2. up[e] \/ cpc[e] = "failed"
                BY <1>1 DEF Life, LastOut, Stopping
            <4>3. cpc[e] \notin Leaving
                BY <1>3 DEF Life, LastOut
            <4> QED  BY <4>1, <4>2, <4>3 DEF Life, Counted, Departed, Leaving
        <3> QED  BY <1>2, <1>7, <3>1, <3>2, <3>3
    <2> QED  BY <2>1, <2>2 DEF LastOut
<1>12. Awaited'
    BY <1>1, <1>7, AwaitedSame DEF Life
<1>13. JoinWanted'
    BY <1>1, <1>2, <1>7 DEF Life, JoinWanted
<1>14. Emptied'
    BY <1>1, <1>2, <1>3, <1>7 DEF Life, Emptied, NoBeats, NoTimed
<1> QED  BY <1>9, <1>10, <1>11, <1>12, <1>13, <1>14 DEF Life

\* When the last one out leaves the group, no commit and no join is under way.
LEMMA LastIsAlone ==
    ASSUME Types, Life, NEW c \in Consumers, cpc[c] \in {"leaving", "erase"}
    PROVE  asleep = {} /\ wire = <<>> /\ jpc = "no"
<1>1. NoBeats /\ NoTimed /\ \A d \in Consumers \ {c} : cpc[d] \in {"gone", "failed"}
    BY DEF Life, LastOut, Leaving, Emptied
<1>2. asleep = {} /\ wire = <<>>
    <2>1. \A r : AwaitedBy(r) => r.by = "timer"
        BY <1>1 DEF AwaitedBy
    <2>2. asleep = {}
        BY <1>1, <2>1 DEF Life, Awaited, NoTimed
    <2>3. Len(wire) \in Nat /\ (Len(wire) = 0 => wire = <<>>)
        BY DEF Types, WireTypes
    <2>4. \A k \in 1 .. Len(wire) : FALSE
        BY <1>1, <2>1 DEF Life, Awaited, NoTimed
    <2>5. Len(wire) = 0
        BY <2>3, <2>4
    <2> QED  BY <2>2, <2>3, <2>5
<1>3. jpc = "no"
    <2>1. \A d \in Consumers : cpc[d] # "waiting"
        BY <1>1
    <2>2. \A i \in 1 .. MaxBeats : beats[i] # Joining
        BY <1>1 DEF NoBeats, NoBeat, Joining
    <2> QED  BY <2>1, <2>2 DEF Life, JoinWanted
<1> QED  BY <1>2, <1>3

\* leave, and the end of the owner, when nothing is left that could use it.
LEMMA LifeLeave ==
    ASSUME OneInput, Types, Life, NEW c \in Consumers, Leave(c) \/ Erase(c)
    PROVE  Life'
<1>1. UNCHANGED <<up, beats, wire, asleep, jpc>>
    BY DEF Leave, Erase, join, requests
<1>2. /\ cpc \in [Consumers -> Places] /\ up \in [Consumers -> BOOLEAN]
      /\ ShardOf \in [Consumers -> Shards]
    BY DEF Types, ShardTypes
<1>3. \/ /\ cpc[c] = "leaving" /\ cpc' = [cpc EXCEPT ![c] = "erase"]
         /\ UNCHANGED <<exists, attached, armed>>
      \/ /\ cpc[c] = "erase" /\ cpc' = [cpc EXCEPT ![c] = "gone"]
         /\ exists' = FALSE /\ attached' = {} /\ armed' = FALSE
    BY DEF Leave, Erase, owner
<1>4. /\ attached = {} /\ ~armed /\ NoBeats /\ NoTimed
      /\ \A d \in Consumers \ {c} : cpc[d] \in {"gone", "failed"}
    BY <1>3 DEF Life, Counted, LastOut, Leaving, Emptied
<1>5. asleep = {} /\ wire = <<>> /\ jpc = "no"
    BY <1>3, LastIsAlone
<1>7. Counted'
    BY <1>1, <1>2, <1>3, <1>4 DEF Life, Counted, Departed, Stopping
<1>8. Kept'
    BY <1>2, <1>3, <1>4 DEF Life, Kept, Leaving
<1>9. LastOut'
    BY <1>1, <1>2, <1>3, <1>4 DEF Life, LastOut, Departed, Leaving, Stopping
<1>10. Awaited' /\ JoinWanted'
    BY <1>1, <1>5 DEF Awaited, JoinWanted
<1>11. Emptied'
    BY <1>1, <1>4, <1>5 DEF Emptied, NoBeats, NoTimed
<1> QED  BY <1>7, <1>8, <1>9, <1>10, <1>11 DEF Life

\* Every step keeps the owner's life in order.
LEMMA LifeNext ==
    ASSUME OneInput, Types, Life, [Next]_vars
    PROVE  Life'
<1>1. CASE \E c \in Consumers : ConsumerStep(c) \/ StartConsumer(c) \/ Stop(c)
    BY <1>1, LifeAlone, LifeAttachOnZero, LifeCommitNow, LifeDetach, LifeLeave DEF ConsumerStep
<1>2. CASE \/ \E c \in Consumers, p \in Partitions : Finish(c, p)
           \/ \E p \in Partitions : OtherCommits(p)
           \/ RebalanceStarts \/ Evicted \/ UNCHANGED vars
    <2>1. UNCHANGED <<lifeVars, jpc>>
        BY <1>2 DEF Finish, OtherCommits, RebalanceStarts, Evicted, vars, consumers, owner, join,
            requests, lifeVars
    <2> QED  BY <2>1, LifeSame
<1>3. CASE \E i \in 1 .. MaxBeats : Beat(i) \/ BeatAnswered(i)
    BY <1>3, LifeBeats
<1>4. CASE CommitTimer
    BY <1>4, LifeCommitTimer
<1>5. CASE JoinStep
    BY <1>5, LifeJoin DEF JoinStep
<1>6. CASE CommitStep
    BY <1>6, LifeCommitReturns, LifeCommitAgain DEF CommitStep
<1>7. CASE FaultStep
    BY <1>2, <1>7, LifeCommitReturns, LifeCommitAgain, LifeJoin, LifeBeats, LifeAlone DEF FaultStep
<1> QED  BY <1>1, <1>2, <1>3, <1>4, <1>5, <1>6, <1>7 DEF Next

\* The owner's life is in order in every state.
LEMMA LifeAlways ==
    ASSUME OneInput
    PROVE  Spec => [](Types /\ Life)
<1>1. Init => Types /\ Life
    BY TypesInit, LifeInit
<1>2. Types /\ Life /\ [Next]_vars => Types' /\ Life'
    BY TypesNext, LifeNext
<1> QED  BY <1>1, <1>2, PTL DEF Spec

\* With one input on each shard, the owner on shard 0 outlives every coroutine that
\* holds a reference to it and every consumer that uses it, and does not outlive
\* them all: for any number of shards and faults, in every order.
THEOREM OwnerOutlivesAlways ==
    ASSUME OneInput
    PROVE  Spec => []OwnerOutlives
<1>1. Types /\ Life => OwnerOutlives
    <2> SUFFICES ASSUME Types, Life PROVE OwnerOutlives
        OBVIOUS
    <2>1. cpc \in [Consumers -> Places]
        BY DEF Types, ShardTypes
    <2>2. OwnerInUse
        BY <2>1 DEF OwnerInUse, Life, Counted, Kept, Departed, Leaving
    <2>3. ~exists =>
            /\ jpc = "no" /\ wire = <<>> /\ asleep = {}
            /\ \A i \in 1 .. MaxBeats : beats[i] = NoBeat
        BY DEF Life, Emptied, NoBeats
    <2>4. ~exists => \A c \in Consumers : cpc[c] \notin {"refresh", "waiting", "joined"}
        BY DEF Life, Counted, Kept, Departed
    <2>5. (\A c \in Consumers : cpc[c] = "gone") => ~exists
        BY DEF Life, Counted, Kept, Departed, Leaving
    <2> QED  BY <2>2, <2>3, <2>4, <2>5 DEF OwnerOutlives
<1> QED  BY <1>1, LifeAlways, PTL

-----------------------------------------------------------------------------
(* The shares agree                                                          *)

\* The first state: nothing has been assigned.
LEMMA SharesInit == Init => Shares
<1> SUFFICES ASSUME Init PROVE Shares
    OBVIOUS
<1>1. cgen = Len(assigned) /\ assigned \in Seq(SUBSET Partitions)
    BY DEF Init
<1>2. Published
    BY DEF Init, Published
<1>3. \A s \in Shards : ~(cache[s].generation >= 0)
    BY DEF Init, NoShare
<1>4. \A c \in Consumers : ~(view[c].generation >= 0)
    BY DEF Init, NoShare
<1> QED  BY <1>1, <1>2, <1>3, <1>4 DEF Shares, Shared

\* Steps that neither assign nor publish, and at most give the generation up.
LEMMA SharesSame ==
    ASSUME Types, Shares, UNCHANGED <<assigned, cgen, cache, view, pushGeneration>>,
           jpc' \in {"fetching", "publishing"} =>
                jpc' = jpc /\ full' = full /\ generation' \in {generation, -1}
    PROVE  Shares'
<1>1. Published'
    <2>1. \A g, X : Agreed(g, X) => Agreed(g, X)'
        BY DEF Agreed
    <2>2. Agreed(-1, full)'
        BY DEF Agreed
    <2> QED  BY <2>1, <2>2 DEF Shares, Published
<1>2. \A s \in Shards : Shared(cache[s], s)'
    BY DEF Shares, Shared, ShardShare
<1>3. \A c \in Consumers : Shared(view[c], ShardOf[c])'
    BY DEF Shares, Shared, ShardShare
<1> QED  BY <1>1, <1>2, <1>3 DEF Shares

\* A new generation leaves what was assigned under the earlier ones.
LEMMA SharesGrow ==
    ASSUME Types, Shares, NEW S \in SUBSET Partitions, assigned' = Append(assigned, S),
           cgen' = cgen + 1, UNCHANGED <<cache, view>>
    PROVE  /\ cgen' = Len(assigned') /\ assigned' \in Seq(SUBSET Partitions)
           /\ cgen' \in 1 .. Len(assigned') /\ assigned'[cgen'] = S
           /\ \A g, X : Agreed(g, X) => Agreed(g, X)'
           /\ \A s \in Shards : Shared(cache[s], s)'
           /\ \A c \in Consumers : Shared(view[c], ShardOf[c])'
<1>1. /\ cgen = Len(assigned) /\ assigned \in Seq(SUBSET Partitions) /\ Len(assigned) \in Nat
    BY DEF Shares
<1>2. /\ assigned' \in Seq(SUBSET Partitions) /\ Len(assigned') = Len(assigned) + 1
      /\ assigned'[Len(assigned) + 1] = S
      /\ \A g \in 1 .. Len(assigned) : g \in 1 .. Len(assigned') /\ assigned'[g] = assigned[g]
    BY <1>1
<1>3. \A g, X : Agreed(g, X) => Agreed(g, X)'
    BY <1>2 DEF Agreed
<1>4. ASSUME NEW a, NEW s, Shared(a, s)  PROVE Shared(a, s)'
    BY <1>2, <1>4 DEF Shared, ShardShare
<1>5. \A s \in Shards : Shared(cache[s], s)'
    BY <1>2 DEF Shares, Shared, ShardShare
<1>6. \A c \in Consumers : Shared(view[c], ShardOf[c])'
    BY <1>2 DEF Shares, Shared, ShardShare
<1> QED  BY <1>1, <1>2, <1>3, <1>5, <1>6

\* A new generation, told to the owner or lost on the way.
LEMMA SharesNewGeneration ==
    ASSUME Types, Shares, JoinAnswered \/ JoinFails \/ Evicted
    PROVE  Shares'
<1>1. UNCHANGED <<cache, view, pushGeneration>>
    BY DEF JoinAnswered, JoinFails, Evicted, JoinState, consumers, owner, join
<1>2. CASE JoinAnswered
    <2>1. PICK S \in SUBSET Partitions : NewGeneration(S) /\ full' = S /\ KeepOwnedStaged(S)
        BY <1>2 DEF JoinAnswered
    <2>2. assigned' = Append(assigned, S) /\ cgen' = cgen + 1 /\ generation' = cgen'
          /\ jpc' = "fetching"
        BY <1>2, <2>1 DEF JoinAnswered, NewGeneration
    <2>3. /\ cgen' = Len(assigned') /\ assigned' \in Seq(SUBSET Partitions)
          /\ cgen' \in 1 .. Len(assigned') /\ assigned'[cgen'] = S
          /\ \A s \in Shards : Shared(cache[s], s)'
          /\ \A c \in Consumers : Shared(view[c], ShardOf[c])'
        BY <1>1, <2>2, SharesGrow
    <2>4. Published'
        BY <2>1, <2>2, <2>3 DEF Published, Agreed
    <2> QED  BY <2>3, <2>4 DEF Shares
<1>3. CASE JoinFails
    <2>1. jpc' = "no"
        BY <1>3 DEF JoinFails, JoinOver
    <2>2. CASE UNCHANGED <<cgen, assigned>>
        BY <1>1, <2>1, <2>2, SharesSame
    <2>3. CASE \E S \in SUBSET Partitions : NewGeneration(S)
        <3>1. \E S \in SUBSET Partitions : assigned' = Append(assigned, S) /\ cgen' = cgen + 1
            BY <2>3 DEF NewGeneration
        <3>2. Published'
            BY <2>1 DEF Published
        <3> QED  BY <1>1, <3>1, <3>2, SharesGrow DEF Shares
    <2> QED  BY <1>3, <2>2, <2>3 DEF JoinFails
<1>4. CASE Evicted
    <2>1. assigned' = Append(assigned, {}) /\ cgen' = cgen + 1
          /\ UNCHANGED <<jpc, full, generation>>
        BY <1>4 DEF Evicted, owner, join
    <2>2. /\ cgen' = Len(assigned') /\ assigned' \in Seq(SUBSET Partitions)
          /\ \A g, X : Agreed(g, X) => Agreed(g, X)'
          /\ \A s \in Shards : Shared(cache[s], s)'
          /\ \A c \in Consumers : Shared(view[c], ShardOf[c])'
        BY <1>1, <2>1, SharesGrow
    <2>3. Published'
        BY <1>1, <2>1, <2>2 DEF Shares, Published, Agreed
    <2> QED  BY <2>2, <2>3 DEF Shares
<1> QED  BY <1>2, <1>3, <1>4

\* The offsets are fetched for the generation the owner has by then, and every
\* shard is pushed its own part of it.
LEMMA SharesPublish ==
    ASSUME Types, Shares, FetchOffsets \/ \E s \in Shards : Push(s)
    PROVE  Shares'
<1>1. UNCHANGED <<assigned, cgen, view, full>>
    BY DEF FetchOffsets, Push, JoinState, consumers, owner, coordinator, history
<1>2. CASE FetchOffsets
    <2>1. pushGeneration' = generation /\ jpc = "fetching" /\ jpc' = "publishing"
          /\ UNCHANGED cache
        BY <1>2 DEF FetchOffsets, JoinState
    <2>2. Published'
        BY <1>1, <2>1 DEF Shares, Published, Agreed
    <2> QED  BY <1>1, <2>1, <2>2 DEF Shares, Shared, ShardShare
<1>3. ASSUME NEW s \in Shards, Push(s)  PROVE Shares'
    <2>1. jpc = "publishing" /\ cache' = [cache EXCEPT ![s] = Payload(s)]
          /\ UNCHANGED <<jpc, pushGeneration>>
        BY <1>3 DEF Push, ApplyLocally
    <2>2. Payload(s).generation = pushGeneration /\ Payload(s).partitions = ShardShare(full, s)
        BY DEF Payload
    <2>3. Shared(Payload(s), s)
        BY <2>1, <2>2 DEF Shares, Published, Agreed, Shared
    <2>4. \A x \in Shards : cache'[x] = IF x = s THEN Payload(s) ELSE cache[x]
        BY <2>1 DEF Types, ShardTypes
    <2>5. \A x \in Shards : Shared(cache'[x], x)
        BY <2>3, <2>4 DEF Shares
    <2>6. Published'
        BY <1>1, <2>1 DEF Shares, Published, Agreed
    <2> QED  BY <1>1, <2>5, <2>6 DEF Shares, Shared, ShardShare
<1> QED  BY <1>2, <1>3

\* A consumer back on its shard acts on what was pushed to that shard.
LEMMA SharesAttached ==
    ASSUME Types, Shares, NEW c \in Consumers, Attached(c)
    PROVE  Shares'
<1>1. UNCHANGED <<assigned, cgen, cache, full, generation, jpc, pushGeneration>>
      /\ view' = [view EXCEPT ![c] = cache[ShardOf[c]]]
    BY DEF Attached, owner, join, coordinator, history
<1>2. ShardOf[c] \in Shards /\ view \in [Consumers -> Share]
    BY DEF Types, ShardTypes
<1>3. \A d \in Consumers : view'[d] = IF d = c THEN cache[ShardOf[c]] ELSE view[d]
    BY <1>1, <1>2
<1>4. \A d \in Consumers : Shared(view'[d], ShardOf[d])
    BY <1>2, <1>3 DEF Shares
<1>5. Published'
    BY <1>1 DEF Shares, Published, Agreed
<1> QED  BY <1>1, <1>4, <1>5 DEF Shares, Shared, ShardShare

\* Every step keeps the shares in agreement.
LEMMA SharesNext ==
    ASSUME Types, Life, Shares, [Next]_vars
    PROVE  Shares'
<1> DEFINE Same == /\ UNCHANGED <<assigned, cgen, cache, view, pushGeneration>>
                   /\ jpc' \in {"fetching", "publishing"} =>
                        jpc' = jpc /\ full' = full /\ generation' \in {generation, -1}
<1>0. Same => Shares'
    BY SharesSame
<1>1. ASSUME NEW c \in Consumers, ConsumerStep(c) \/ StartConsumer(c) \/ Stop(c)
      PROVE  Shares'
    <2>1. CASE Attached(c)
        BY <2>1, SharesAttached
    <2>2. CASE AttachOnZero(c)
        <3>1. jpc' \in {"joining", jpc}
            <4>1. CASE JoinBegins /\ jpc = "no" /\ ~(generation >= 0)
                BY <2>2, <4>1, TypesJoinBegins
                DEF AttachOnZero, Types, OwnerTypes, WireTypes, coordinator
            <4>2. CASE ~(JoinBegins /\ jpc = "no" /\ ~(generation >= 0))
                BY <2>2, <4>2 DEF AttachOnZero
            <4> QED  BY <4>1, <4>2
        <3>2. UNCHANGED <<assigned, cgen, cache, view, pushGeneration, full, generation>>
            BY <2>2 DEF AttachOnZero, coordinator
        <3> QED  BY <1>0, <3>1, <3>2
    <2>3. CASE Erase(c)
        <3>1. jpc' = "no"
            BY <2>3, LastIsAlone DEF Erase, join
        <3>2. UNCHANGED <<assigned, cgen, cache, view, pushGeneration>>
            BY <2>3 DEF Erase, join, coordinator, history
        <3> QED  BY <1>0, <3>1, <3>2
    <2>4. CASE StartConsumer(c) \/ CreateOwner(c) \/ ArmTimers(c) \/ Poll(c) \/ Stop(c) \/ Offer(c)
               \/ CommitNow(c) \/ Detach(c) \/ LastCommit(c) \/ Leave(c)
        <3>1. Same
            BY <2>4 DEF StartConsumer, CreateOwner, ArmTimers, Poll, Stop, Offer, CommitNow, Detach,
                LastCommit, FlushState, Leave, owner, join, coordinator, history
        <3> QED  BY <1>0, <3>1
    <2> QED  BY <1>1, <2>1, <2>2, <2>3, <2>4 DEF ConsumerStep
<1>2. CASE \/ \E c \in Consumers, p \in Partitions : Finish(c, p)
           \/ \E p \in Partitions : OtherCommits(p)
           \/ RebalanceStarts \/ CommitTimer \/ UNCHANGED vars
           \/ \E c \in Consumers : CreateFails(c)
    <2>1. Same
        BY <1>2 DEF Finish, OtherCommits, RebalanceStarts, CommitTimer, CreateFails, vars, consumers,
            owner, join, coordinator, history
    <2> QED  BY <1>0, <2>1
<1>3. ASSUME NEW i \in 1 .. MaxBeats, Beat(i) \/ BeatAnswered(i) \/ BeatFails(i)
      PROVE  Shares'
    <2>1. jpc' \in {"joining", jpc}
        <3>1. CASE JoinBegins /\ BeatAnswered(i) /\ ~Alive(beats[i])
            <4>1. generation' = -1 /\ UNCHANGED cgen
                BY <3>1 DEF BeatAnswered, coordinator
            <4> QED  BY <3>1, <4>1, TypesJoinBegins
        <3>2. CASE ~(JoinBegins /\ BeatAnswered(i) /\ ~Alive(beats[i]))
            BY <1>3, <3>2 DEF Beat, BeatAnswered, BeatFails, join
        <3> QED  BY <3>1, <3>2
    <2>2. UNCHANGED <<assigned, cgen, cache, view, pushGeneration, full>>
          /\ generation' \in {generation, -1}
        BY <1>3 DEF Beat, BeatAnswered, BeatFails, consumers, owner, join, coordinator, history
    <2> QED  BY <1>0, <2>1, <2>2
<1>4. CASE CommitStep \/ CommitLost \/ CommitRetriable
    <2>1. UNCHANGED <<assigned, cgen, cache, view, pushGeneration, full, generation>>
        BY <1>4 DEF CommitStep, CommitAnswered, CommitLost, CommitRetriable, CommitResend, CommitState
    <2>2. jpc' \in {"joining", jpc}
        BY <1>4 DEF CommitStep, CommitAnswered, CommitLost, CommitRetriable, CommitResend,
            CommitReturns
    <2> QED  BY <1>0, <2>1, <2>2
<1>5. CASE FetchOffsetsFails \/ JoinDone
    <2>1. jpc' = "no" /\ UNCHANGED <<assigned, cgen, cache, view, pushGeneration>>
        BY <1>5 DEF FetchOffsetsFails, JoinDone, JoinOver, JoinState, coordinator, history
    <2> QED  BY <1>0, <2>1
<1>6. CASE JoinStep
    BY <1>5, <1>6, SharesNewGeneration, SharesPublish DEF JoinStep
<1>7. CASE FaultStep
    BY <1>2, <1>3, <1>4, <1>5, <1>7, SharesNewGeneration DEF FaultStep
<1> QED  BY <1>1, <1>2, <1>3, <1>4, <1>6, <1>7 DEF Next

\* One member per process, one shard per partition: whatever a shard holds, and
\* whatever a consumer acts on, is that shard's part of what the coordinator
\* assigned under the same generation, for any number of shards, partitions, joins
\* and faults; so no partition is ever read by two shards under one generation.
THEOREM ViewsAgreeAlways ==
    ASSUME OneInput
    PROVE  Spec => []ViewsAgree
<1>1. Init => Types /\ Life /\ Shares
    BY TypesInit, LifeInit, SharesInit
<1>2. Types /\ Life /\ Shares /\ [Next]_vars => Types' /\ Life' /\ Shares'
    BY TypesNext, LifeNext, SharesNext
<1>3. Shares => ViewsAgree
    BY DEF Shares, Shared, ViewsAgree
<1> QED  BY <1>1, <1>2, <1>3, PTL DEF Spec
-----------------------------------------------------------------------------
\* Where an actor may stand, and what a connection may be.
ClientPlaces == {"idle", "connecting", "writing", "waiting", "failing", "answered", "failed",
                 "refreshing", "choosing", "trying"}
ClientStates == {"unused", "open", "closing", "closed", "destroyed"}

\* The type of every variable; who is inside exchange() has a connection.
ClientTypes ==
    /\ state \in [C!Conns -> ClientStates] /\ reading \subseteq C!Conns /\ dead \subseteq C!Conns
    /\ waiters \in [C!Conns -> SUBSET C!Actors]
    /\ slot \in [Nodes -> C!Conns \cup {C!None}] /\ seed \in [Nodes -> C!Conns \cup {C!None}]
    /\ attempt \in [Nodes -> {0, 1}] /\ known \subseteq Nodes /\ refreshing \in BOOLEAN
    /\ at \in [C!Actors -> ClientPlaces] /\ on \in [C!Actors -> C!Conns \cup {C!None}]
    /\ want \in [C!Actors -> Nodes] /\ tried \subseteq Nodes
    /\ calls \in Nat /\ failures \in Nat
    /\ \A a \in C!Actors : at[a] \in {"writing", "waiting", "failing"} => on[a] \in C!Conns

\* A request that waits is that of an actor inside exchange() on that connection.
ClientWaiting == \A c \in C!Conns : \A a \in waiters[c] : at[a] \in {"writing", "waiting"} /\ on[a] = c

\* A live connection is read, every open one is in a table, and one that was
\* closed is dead.
ClientReaders ==
    /\ \A c \in C!Conns : state[c] = "open" /\ c \notin dead => c \in reading
    /\ \A c \in C!Conns : state[c] = "open" => \E n \in Nodes : slot[n] = c \/ seed[n] = c
    /\ \A c \in C!Conns : state[c] = "closed" => c \in dead
-----------------------------------------------------------------------------
(* Types                                                                     *)

\* Nodes and connections are numbered by naturals, none by 0; refresh is an
\* actor of its own.
LEMMA ClientConnFacts ==
    ASSUME C!ClientAssumption
    PROVE  /\ C!Conns \subseteq Nat /\ C!None \notin C!Conns
           /\ "refresh" \in C!Actors /\ "refresh" \notin Callers /\ Callers \subseteq C!Actors
           /\ C!NextUnused \subseteq C!Conns
<1>1. NConns \in Nat /\ "refresh" \notin Callers
  BY DEF C!ClientAssumption
<1>2. C!Conns \subseteq Nat /\ C!None \notin C!Conns
  BY <1>1 DEF C!Conns, C!None
<1>3. C!NextUnused \subseteq C!Conns
  BY Zenon DEF C!NextUnused
<1> QED  BY <1>1, <1>2, <1>3 DEF C!Actors

\* A connection is found connected only if it is there.
LEMMA ClientConnectedIsConn ==
    ASSUME NEW c \in C!Conns \cup {C!None}, C!Connected(c)
    PROVE  c \in C!Conns
BY DEF C!Connected

LEMMA ClientTypesInit == ASSUME C!ClientAssumption, C!Init PROVE ClientTypes
BY ClientConnFacts DEF C!Init, ClientTypes, ClientPlaces, ClientStates, C!None

\* SendOn keeps what it changes of the types.
LEMMA ClientTypesSendOn ==
    ASSUME ClientTypes, NEW a \in C!Actors, NEW c \in C!Conns, C!SendOn(a, c)
    PROVE  /\ at' \in [C!Actors -> ClientPlaces] /\ on' \in [C!Actors -> C!Conns \cup {C!None}]
           /\ waiters' \in [C!Conns -> SUBSET C!Actors]
           /\ at'[a] \in {"failed", "writing"} /\ (at'[a] = "writing" => on'[a] = c)
           /\ \A b \in C!Actors \ {a} : at'[b] = at[b] /\ on'[b] = on[b]
<1>1. /\ at \in [C!Actors -> ClientPlaces] /\ on \in [C!Actors -> C!Conns \cup {C!None}]
      /\ waiters \in [C!Conns -> SUBSET C!Actors]
  BY DEF ClientTypes
<1>2. CASE c \in dead
  BY <1>1, <1>2 DEF C!SendOn, C!Goto, ClientPlaces
<1>3. CASE c \notin dead
  BY <1>1, <1>3 DEF C!SendOn, C!Goto, ClientPlaces
<1> QED  BY <1>2, <1>3

\* What exchange() and the read loop do keeps the types.
LEMMA ClientTypesExchange ==
    ASSUME ClientTypes, NEW a \in C!Actors,
           C!Written(a) \/ C!Answered(a) \/ C!TimesOut(a) \/ C!FailureSeen(a) \/ C!Returns(a)
    PROVE  ClientTypes'
<1>1. /\ at \in [C!Actors -> ClientPlaces] /\ on \in [C!Actors -> C!Conns \cup {C!None}]
      /\ waiters \in [C!Conns -> SUBSET C!Actors] /\ failures \in Nat /\ dead \subseteq C!Conns
      /\ want \in [C!Actors -> Nodes]
      /\ \A b \in C!Actors : at[b] \in {"writing", "waiting", "failing"} => on[b] \in C!Conns
  BY DEF ClientTypes
<1>2. CASE C!Written(a)
  <2>1. at' \in [C!Actors -> ClientPlaces] /\ UNCHANGED <<C!connVars, C!clusterVars, on, want, tried, calls, failures>>
    BY <1>1, <1>2 DEF C!Written, C!Goto, ClientPlaces
  <2>2. \A b \in C!Actors : at'[b] \in {"writing", "waiting", "failing"} => on[b] \in C!Conns
    BY <1>1, <1>2 DEF C!Written, C!Goto
  <2> QED  BY <2>1, <2>2 DEF ClientTypes, C!connVars, C!clusterVars
<1>3. CASE C!Answered(a)
  <2>1. at' \in [C!Actors -> ClientPlaces] /\ waiters' \in [C!Conns -> SUBSET C!Actors]
    BY <1>1, <1>3 DEF C!Answered, C!Goto, ClientPlaces
  <2>2. \A b \in C!Actors : at'[b] \in {"writing", "waiting", "failing"} => on[b] \in C!Conns
    BY <1>1, <1>3 DEF C!Answered, C!Goto
  <2> QED  BY <1>3, <2>1, <2>2 DEF C!Answered, ClientTypes, C!clusterVars
<1>4. CASE C!TimesOut(a)
  <2>1. at' \in [C!Actors -> ClientPlaces] /\ waiters' \in [C!Conns -> SUBSET C!Actors] /\ failures' \in Nat
    BY <1>1, <1>4 DEF C!TimesOut, C!FailPending, C!Fault, ClientPlaces
  <2>2. \A b \in C!Actors : at'[b] \in {"writing", "waiting", "failing"} => on[b] \in C!Conns
    BY <1>1, <1>4 DEF C!TimesOut, C!FailPending
  <2>3. dead' \subseteq C!Conns
    BY <1>1, <1>4 DEF C!TimesOut
  <2> QED  BY <1>4, <2>1, <2>2, <2>3 DEF C!TimesOut, ClientTypes, C!clusterVars
<1>5. CASE C!FailureSeen(a)
  <2>1. at' \in [C!Actors -> ClientPlaces] /\ dead' \subseteq C!Conns
    BY <1>1, <1>5 DEF C!FailureSeen, C!Goto, ClientPlaces
  <2>2. \A b \in C!Actors : at'[b] \in {"writing", "waiting", "failing"} => on[b] \in C!Conns
    BY <1>1, <1>5 DEF C!FailureSeen, C!Goto
  <2> QED  BY <1>5, <2>1, <2>2 DEF C!FailureSeen, ClientTypes, C!clusterVars
<1>6. CASE C!Returns(a)
  <2>1. /\ at' \in [C!Actors -> ClientPlaces] /\ on' \in [C!Actors -> C!Conns \cup {C!None}]
        /\ want' \in [C!Actors -> Nodes]
    BY <1>1, <1>6 DEF C!Returns, C!Goto, ClientPlaces
  <2>2. \A b \in C!Actors : at'[b] \in {"writing", "waiting", "failing"} => on'[b] \in C!Conns
    BY <1>1, <1>6 DEF C!Returns, C!Goto
  <2> QED  BY <1>6, <2>1, <2>2 DEF C!Returns, ClientTypes, C!connVars, C!clusterVars
<1> QED  BY <1>2, <1>3, <1>4, <1>5, <1>6

\* So does a call of broker(n).
LEMMA ClientTypesUseBroker ==
    ASSUME ClientTypes, NEW a \in C!Actors, NEW n \in Nodes, C!UseBroker(a, n)
    PROVE  /\ at' \in [C!Actors -> ClientPlaces] /\ on' \in [C!Actors -> C!Conns \cup {C!None}]
           /\ waiters' \in [C!Conns -> SUBSET C!Actors] /\ attempt' \in [Nodes -> {0, 1}]
           /\ \A b \in C!Actors : at'[b] \in {"writing", "waiting", "failing"} => on'[b] \in C!Conns
<1>1. /\ at \in [C!Actors -> ClientPlaces] /\ on \in [C!Actors -> C!Conns \cup {C!None}]
      /\ waiters \in [C!Conns -> SUBSET C!Actors] /\ attempt \in [Nodes -> {0, 1}]
      /\ slot[n] \in C!Conns \cup {C!None}
      /\ \A b \in C!Actors : at[b] \in {"writing", "waiting", "failing"} => on[b] \in C!Conns
  BY DEF ClientTypes
<1>2. CASE C!Connected(slot[n])
  <2>1. slot[n] \in C!Conns
    BY <1>1, <1>2, ClientConnectedIsConn
  <2>2. C!SendOn(a, slot[n]) /\ UNCHANGED attempt
    BY <1>2 DEF C!UseBroker
  <2> QED  BY <1>1, <2>1, <2>2, ClientTypesSendOn
<1>3. CASE ~C!Connected(slot[n])
  <2>1. attempt' \in [Nodes -> {0, 1}]
    BY <1>1, <1>3 DEF C!UseBroker, C!MayStart
  <2>2. /\ at' = [b \in C!Actors |-> IF b \in {a} THEN "connecting" ELSE at[b]]
        /\ UNCHANGED <<on, waiters>>
    BY <1>3 DEF C!UseBroker, C!GotoAll
  <2> QED  BY <1>1, <2>1, <2>2 DEF ClientPlaces
<1> QED  BY <1>2, <1>3

\* An attempt that succeeds hands its connection to those who wait for it.
LEMMA ClientTypesInstalls ==
    ASSUME ClientTypes, NEW n \in Nodes, NEW c \in C!Conns, C!Installs(n, c), attempt[n] > 0
    PROVE  /\ slot' \in [Nodes -> C!Conns \cup {C!None}] /\ attempt' \in [Nodes -> {0, 1}]
           /\ at' \in [C!Actors -> ClientPlaces] /\ on' \in [C!Actors -> C!Conns \cup {C!None}]
           /\ waiters' \in [C!Conns -> SUBSET C!Actors]
           /\ \A b \in C!Actors : at'[b] \in {"writing", "waiting", "failing"} => on'[b] \in C!Conns
<1>1. /\ at \in [C!Actors -> ClientPlaces] /\ on \in [C!Actors -> C!Conns \cup {C!None}]
      /\ waiters \in [C!Conns -> SUBSET C!Actors] /\ attempt \in [Nodes -> {0, 1}]
      /\ slot \in [Nodes -> C!Conns \cup {C!None}]
      /\ \A b \in C!Actors : at[b] \in {"writing", "waiting", "failing"} => on[b] \in C!Conns
  BY DEF ClientTypes
<1>2. attempt[n] = 1
  BY <1>1
<1>3. attempt' \in [Nodes -> {0, 1}]
  BY <1>1, <1>2 DEF C!Installs
<1>4. C!WaitsFor(n) \subseteq C!Actors
  BY DEF C!WaitsFor
<1>5. at' \in [C!Actors -> ClientPlaces] /\ \A b \in C!Actors : at'[b] = IF b \in C!WaitsFor(n) THEN "writing" ELSE at[b]
  BY <1>1 DEF C!Installs, C!GotoAll, ClientPlaces
<1>6. on' \in [C!Actors -> C!Conns \cup {C!None}] /\ \A b \in C!Actors : on'[b] = IF b \in C!WaitsFor(n) THEN c ELSE on[b]
  BY <1>1 DEF C!Installs
<1>7. waiters' \in [C!Conns -> SUBSET C!Actors] /\ slot' \in [Nodes -> C!Conns \cup {C!None}]
  BY <1>1, <1>4 DEF C!Installs
<1> QED  BY <1>1, <1>3, <1>5, <1>6, <1>7

LEMMA ClientTypesConnecting ==
    ASSUME C!ClientAssumption, ClientTypes, NEW n \in Nodes, C!OfNode(n)
    PROVE  ClientTypes'
<1>1. /\ at \in [C!Actors -> ClientPlaces] /\ state \in [C!Conns -> ClientStates]
      /\ waiters \in [C!Conns -> SUBSET C!Actors] /\ attempt \in [Nodes -> {0, 1}]
      /\ slot[n] \in C!Conns \cup {C!None} /\ reading \subseteq C!Conns /\ dead \subseteq C!Conns
      /\ failures \in Nat
      /\ \A b \in C!Actors : at[b] \in {"writing", "waiting", "failing"} => on[b] \in C!Conns
  BY DEF ClientTypes
<1>2. CASE C!Connects(n)
  <2>1. PICK c \in C!NextUnused : C!Opened(c) /\ C!Installs(n, c)
    BY <1>2 DEF C!Connects
  <2>2. c \in C!Conns /\ attempt[n] > 0
    BY <1>2, ClientConnFacts DEF C!Connects
  <2>3. state' \in [C!Conns -> ClientStates] /\ reading' \subseteq C!Conns
    BY <1>1, <2>1, <2>2 DEF C!Opened, ClientStates
  <2> QED  BY <1>2, <2>1, <2>2, <2>3, ClientTypesInstalls DEF C!Connects, ClientTypes
<1>3. CASE C!ClosesOld(n)
  <2>1. state' \in [C!Conns -> ClientStates]
    BY <1>1, <1>3 DEF C!ClosesOld, ClientStates
  <2> QED  BY <1>3, <2>1 DEF C!ClosesOld, ClientTypes, C!clusterVars, C!actorVars
<1>4. CASE C!OldClosed(n)
  <2>1. /\ state' \in [C!Conns -> ClientStates] /\ reading' \subseteq C!Conns /\ dead' \subseteq C!Conns
        /\ waiters' \in [C!Conns -> SUBSET C!Actors]
    BY <1>1, <1>4 DEF C!OldClosed, C!FailPending, ClientStates
  <2>2. /\ at' \in [C!Actors -> ClientPlaces]
        /\ \A b \in C!Actors : at'[b] \in {"writing", "waiting", "failing"} => on[b] \in C!Conns
    BY <1>1, <1>4 DEF C!OldClosed, C!FailPending, ClientPlaces
  <2> QED  BY <1>4, <2>1, <2>2 DEF C!OldClosed, ClientTypes, C!clusterVars
<1>5. CASE C!Replaces(n)
  <2>1. PICK c \in C!NextUnused :
            /\ state' = [state EXCEPT ![c] = "open", ![slot[n]] = "destroyed"]
            /\ reading' = reading \cup {c} /\ C!Installs(n, c)
    BY <1>5 DEF C!Replaces
  <2>2. c \in C!Conns /\ attempt[n] > 0
    BY <1>5, ClientConnFacts DEF C!Replaces
  <2>3. state' \in [C!Conns -> ClientStates] /\ reading' \subseteq C!Conns
    BY <1>1, <2>1, <2>2 DEF ClientStates
  <2> QED  BY <1>5, <2>1, <2>2, <2>3, ClientTypesInstalls DEF C!Replaces, ClientTypes
<1>6. CASE C!ConnectFails(n)
  <2>1. at' \in [C!Actors -> ClientPlaces] /\ failures' \in Nat
    BY <1>1, <1>6 DEF C!ConnectFails, ClientPlaces, C!Fault
  <2>2. \A b \in C!Actors : at'[b] \in {"writing", "waiting", "failing"} => on[b] \in C!Conns
    BY <1>1, <1>6 DEF C!ConnectFails
  <2>3. attempt' \in [Nodes -> {0, 1}]
    BY <1>1, <1>6 DEF C!ConnectFails, C!Cleared
  <2> QED  BY <1>6, <2>1, <2>2, <2>3 DEF C!ConnectFails, ClientTypes, C!connVars
<1> QED  BY <1>2, <1>3, <1>4, <1>5, <1>6 DEF C!OfNode

LEMMA ClientTypesRefresh ==
    ASSUME C!ClientAssumption, ClientTypes, C!OfRefresh
    PROVE  ClientTypes'
<1>1. /\ at \in [C!Actors -> ClientPlaces] /\ state \in [C!Conns -> ClientStates]
      /\ waiters \in [C!Conns -> SUBSET C!Actors] /\ on \in [C!Actors -> C!Conns \cup {C!None}]
      /\ slot \in [Nodes -> C!Conns \cup {C!None}] /\ seed \in [Nodes -> C!Conns \cup {C!None}]
      /\ reading \subseteq C!Conns /\ failures \in Nat /\ known \subseteq Nodes
      /\ want \in [C!Actors -> Nodes] /\ tried \subseteq Nodes
      /\ \A b \in C!Actors : at[b] \in {"writing", "waiting", "failing"} => on[b] \in C!Conns
  BY DEF ClientTypes
<1>2. "refresh" \in C!Actors
  BY ClientConnFacts
<1>3. CASE C!ChoosesLive
  <2>1. CASE C!LiveSlots = {}
    <3>1. C!Goto("refresh", "trying") /\ UNCHANGED <<on, waiters>>
      BY <1>3, <2>1 DEF C!ChoosesLive
    <3>2. /\ at' \in [C!Actors -> ClientPlaces]
          /\ \A b \in C!Actors : at'[b] \in {"writing", "waiting", "failing"} => on[b] \in C!Conns
      BY <1>1, <1>2, <3>1 DEF C!Goto, ClientPlaces
    <3> QED  BY <1>3, <3>1, <3>2 DEF C!ChoosesLive, ClientTypes, C!clusterVars
  <2>2. CASE C!LiveSlots # {}
    <3>1. PICK n \in C!LiveSlots : C!SendOn("refresh", slot[n])
      BY <1>3, <2>2 DEF C!ChoosesLive
    <3>2. slot[n] \in C!Conns
      BY <1>1, ClientConnectedIsConn DEF C!LiveSlots
    <3>3. /\ at' \in [C!Actors -> ClientPlaces] /\ on' \in [C!Actors -> C!Conns \cup {C!None}]
          /\ waiters' \in [C!Conns -> SUBSET C!Actors]
          /\ \A b \in C!Actors : at'[b] \in {"writing", "waiting", "failing"} => on'[b] \in C!Conns
      BY <1>1, <1>2, <3>1, <3>2, ClientTypesSendOn
    <3> QED  BY <1>3, <3>3 DEF C!ChoosesLive, ClientTypes, C!clusterVars
  <2> QED  BY <2>1, <2>2
<1>4. CASE C!TriesKnown
  <2>1. PICK n \in known \ tried :
            /\ C!UseBroker("refresh", n) /\ tried' = tried \cup {n}
            /\ want' = [want EXCEPT !["refresh"] = n]
    BY <1>4 DEF C!TriesKnown
  <2>2. n \in Nodes /\ tried' \subseteq Nodes /\ want' \in [C!Actors -> Nodes]
    BY <1>1, <2>1
  <2> QED  BY <1>2, <1>4, <2>1, <2>2, ClientTypesUseBroker DEF C!TriesKnown, ClientTypes
<1>5. CASE C!UsesSeed
  <2>1. PICK n \in Nodes : C!Connected(seed[n]) /\ C!SendOn("refresh", seed[n])
    BY <1>5 DEF C!UsesSeed
  <2>2. seed[n] \in C!Conns
    BY <1>1, <2>1, ClientConnectedIsConn
  <2>3. /\ at' \in [C!Actors -> ClientPlaces] /\ on' \in [C!Actors -> C!Conns \cup {C!None}]
        /\ waiters' \in [C!Conns -> SUBSET C!Actors]
        /\ \A b \in C!Actors : at'[b] \in {"writing", "waiting", "failing"} => on'[b] \in C!Conns
    BY <1>1, <1>2, <2>1, <2>2, ClientTypesSendOn
  <2> QED  BY <1>5, <2>3 DEF C!UsesSeed, ClientTypes, C!clusterVars
<1>6. CASE C!OpensSeed
  <2>1. PICK n \in Nodes, c \in C!NextUnused :
            /\ state' = [d \in C!Conns |-> IF d = c THEN "open" ELSE IF d = seed[n] THEN "destroyed"
                                           ELSE state[d]]
            /\ reading' = reading \cup {c} /\ seed' = [seed EXCEPT ![n] = c]
            /\ C!SendOn("refresh", c)
    BY <1>6 DEF C!OpensSeed
  <2>2. c \in C!Conns
    BY ClientConnFacts
  <2>3. /\ at' \in [C!Actors -> ClientPlaces] /\ on' \in [C!Actors -> C!Conns \cup {C!None}]
        /\ waiters' \in [C!Conns -> SUBSET C!Actors]
        /\ \A b \in C!Actors : at'[b] \in {"writing", "waiting", "failing"} => on'[b] \in C!Conns
    BY <1>1, <1>2, <2>1, <2>2, ClientTypesSendOn
  <2>4. /\ state' \in [C!Conns -> ClientStates] /\ reading' \subseteq C!Conns
        /\ seed' \in [Nodes -> C!Conns \cup {C!None}]
    BY <1>1, <2>1, <2>2 DEF ClientStates
  <2> QED  BY <1>6, <2>3, <2>4 DEF C!OpensSeed, ClientTypes
<1>7. CASE C!Unreachable
  <2>1. /\ at' \in [C!Actors -> ClientPlaces] /\ failures' \in Nat
        /\ \A b \in C!Actors : at'[b] \in {"writing", "waiting", "failing"} => on[b] \in C!Conns
    BY <1>1, <1>2, <1>7 DEF C!Unreachable, C!Goto, ClientPlaces, C!Fault
  <2> QED  BY <1>7, <2>1 DEF C!Unreachable, ClientTypes, C!connVars, C!clusterVars
<1>8. CASE C!RefreshEnds
  <2>1. at' \in [C!Actors -> ClientPlaces] /\ on' \in [C!Actors -> C!Conns \cup {C!None}] /\ known' \subseteq Nodes
    BY <1>1, <1>2, <1>8 DEF C!RefreshEnds, ClientPlaces
  <2>2. \A b \in C!Actors : at'[b] \in {"writing", "waiting", "failing"} => on'[b] \in C!Conns
    BY <1>1, <1>2, <1>8 DEF C!RefreshEnds
  <2>3. refreshing' \in BOOLEAN
    BY <1>8 DEF C!RefreshEnds
  <2> QED  BY <1>8, <2>1, <2>2, <2>3 DEF C!RefreshEnds, ClientTypes, C!connVars
<1> QED  BY <1>3, <1>4, <1>5, <1>6, <1>7, <1>8 DEF C!OfRefresh

LEMMA ClientTypesNext ==
    ASSUME C!ClientAssumption, ClientTypes, [C!Next]_(C!vars)
    PROVE  ClientTypes'
<1>1. /\ at \in [C!Actors -> ClientPlaces] /\ state \in [C!Conns -> ClientStates]
      /\ waiters \in [C!Conns -> SUBSET C!Actors] /\ want \in [C!Actors -> Nodes]
      /\ slot \in [Nodes -> C!Conns \cup {C!None}] /\ seed \in [Nodes -> C!Conns \cup {C!None}]
      /\ reading \subseteq C!Conns /\ dead \subseteq C!Conns /\ failures \in Nat /\ calls \in Nat
      /\ tried \subseteq Nodes
      /\ \A b \in C!Actors : at[b] \in {"writing", "waiting", "failing"} => on[b] \in C!Conns
  BY DEF ClientTypes
<1>2. ASSUME NEW a \in Callers, C!Call(a) PROVE ClientTypes'
  <2>1. a \in C!Actors /\ want[a] \in Nodes
    BY <1>1, ClientConnFacts
  <2>2. C!UseBroker(a, want[a]) /\ calls' \in Nat
    BY <1>1, <1>2 DEF C!Call
  <2> QED  BY <1>2, <2>1, <2>2, ClientTypesUseBroker DEF C!Call, ClientTypes
<1>3. ASSUME NEW a \in Callers, C!Refresh(a) PROVE ClientTypes'
  <2>1. a \in C!Actors /\ "refresh" \in C!Actors
    BY ClientConnFacts
  <2>2. /\ at' \in [C!Actors -> ClientPlaces] /\ calls' \in Nat /\ tried' \subseteq Nodes
        /\ refreshing' \in BOOLEAN
    BY <1>1, <1>3, <2>1 DEF C!Refresh, ClientPlaces
  <2>3. \A b \in C!Actors : at'[b] \in {"writing", "waiting", "failing"} => on[b] \in C!Conns
    BY <1>1, <1>3, <2>1 DEF C!Refresh
  <2> QED  BY <1>3, <2>2, <2>3 DEF C!Refresh, ClientTypes, C!connVars
<1>4. ASSUME NEW a \in C!Actors, C!OfActor(a) PROVE ClientTypes'
  BY <1>4, ClientTypesExchange DEF C!OfActor
<1>5. ASSUME NEW c \in C!Conns, C!PeerCloses(c) PROVE ClientTypes'
  <2>1. /\ reading' \subseteq C!Conns /\ dead' \subseteq C!Conns /\ failures' \in Nat
        /\ waiters' \in [C!Conns -> SUBSET C!Actors]
    BY <1>1, <1>5 DEF C!PeerCloses, C!ReaderGone, C!FailPending, C!Fault
  <2>2. /\ at' \in [C!Actors -> ClientPlaces]
        /\ \A b \in C!Actors : at'[b] \in {"writing", "waiting", "failing"} => on[b] \in C!Conns
    BY <1>1, <1>5 DEF C!PeerCloses, C!FailPending, ClientPlaces
  <2> QED  BY <1>5, <2>1, <2>2 DEF C!PeerCloses, ClientTypes, C!clusterVars
<1>6. CASE C!Stop
  <2>1. state' \in [C!Conns -> ClientStates] /\ reading' \subseteq C!Conns
    BY <1>1, <1>6 DEF C!Stop, ClientStates
  <2>2. slot' \in [Nodes -> C!Conns \cup {C!None}] /\ seed' \in [Nodes -> C!Conns \cup {C!None}]
    BY <1>6 DEF C!Stop
  <2>3. calls' \in Nat
    BY <1>6 DEF C!Stop, C!ClientAssumption
  <2> QED  BY <1>6, <2>1, <2>2, <2>3 DEF C!Stop, ClientTypes, C!actorVars
<1>7. CASE UNCHANGED C!vars
  BY <1>7 DEF ClientTypes, C!vars, C!connVars, C!clusterVars, C!actorVars
<1> QED  BY <1>2, <1>3, <1>4, <1>5, <1>6, <1>7, ClientTypesConnecting, ClientTypesRefresh DEF C!Next

\* Every variable of the cluster and of its connections keeps its type, for any
\* number of callers, brokers and connections.
THEOREM ClientTypeCorrect ==
    ASSUME C!ClientAssumption
    PROVE  C!Spec => []ClientTypes
BY ClientTypesInit, ClientTypesNext, PTL DEF C!Spec
-----------------------------------------------------------------------------
(* Who shares an attempt or a refresh                                        *)

\* broker(n): the caller sends, is refused, or waits for an attempt that runs.
LEMMA ClientUseBrokerShares ==
    ASSUME C!ClientAssumption, ClientTypes, C!SharedMeansUnderWay, NEW a \in C!Actors,
           NEW n \in Nodes,
           at[a] # "connecting", C!UseBroker(a, n)
    PROVE  /\ at'[a] \in {"failed", "writing", "connecting"}
           /\ \A b \in C!Actors \ {a} : at'[b] = at[b]
           /\ \A m \in Nodes : attempt'[m] >= attempt[m]
           /\ at'[a] = "connecting" => attempt'[n] > 0
           /\ \A m \in Nodes : attempt'[m] # attempt[m] => m = n /\ at'[a] = "connecting"
<1>1. /\ at \in [C!Actors -> ClientPlaces] /\ attempt \in [Nodes -> {0, 1}]
      /\ slot[n] \in C!Conns \cup {C!None}
  BY DEF ClientTypes
<1>2. CASE C!Connected(slot[n])
  <2>1. C!SendOn(a, slot[n]) /\ UNCHANGED attempt
    BY <1>2 DEF C!UseBroker
  <2>2. at'[a] \in {"failed", "writing"} /\ \A b \in C!Actors \ {a} : at'[b] = at[b]
    BY <1>1, <1>2, <2>1, ClientConnectedIsConn, ClientTypesSendOn
  <2> QED  BY <1>1, <2>1, <2>2
<1>3. CASE ~C!Connected(slot[n])
  <2>1. /\ attempt' = [attempt EXCEPT ![n] = IF C!MayStart(n) THEN @ + 1 ELSE @]
        /\ at' = [b \in C!Actors |-> IF b \in {a} THEN "connecting" ELSE at[b]]
    BY <1>3 DEF C!UseBroker, C!GotoAll
  <2>2. attempt'[n] = 1 /\ \A m \in Nodes \ {n} : attempt'[m] = attempt[m]
    BY <1>1, <2>1 DEF C!MayStart
  <2>3. at'[a] = "connecting" /\ \A b \in C!Actors \ {a} : at'[b] = at[b]
    BY <1>1, <2>1
  <2> QED  BY <1>1, <2>2, <2>3
<1> QED  BY <1>2, <1>3

\* The places of an actor that waits for nothing that others share.
ClientBusy == {"writing", "waiting", "failing", "answered", "failed"}

\* A step that moves actors between such places shares what was shared.
LEMMA ClientSharedSame ==
    ASSUME C!ClientAssumption, ClientTypes, ClientTypes', C!SharedMeansUnderWay,
           UNCHANGED <<attempt, refreshing>>,
           \A a \in C!Actors : \/ at'[a] = at[a] /\ want'[a] = want[a]
                               \/ {at[a], at'[a]} \subseteq ClientBusy /\ want'[a] = want[a]
                               \/ a \in Callers /\ at[a] # "connecting" /\ at'[a] # "connecting"
                               \/ a = "refresh" /\ at[a] \notin {"connecting", "idle"}
                                                /\ at'[a] \notin {"connecting", "idle"}
    PROVE  C!SharedMeansUnderWay'
<1>1. \A a \in C!Actors : /\ at'[a] = "connecting" <=> at[a] = "connecting"
                          /\ at[a] = "connecting" => want'[a] = want[a]
  BY DEF ClientBusy
<1>2. at'["refresh"] = "idle" <=> at["refresh"] = "idle"
  BY ClientConnFacts DEF ClientBusy
<1>3. \A n \in Nodes : C!WaitsFor(n)' = C!WaitsFor(n)
  BY <1>1 DEF C!WaitsFor
<1>4. (refreshing <=> at["refresh"] # "idle")'
  BY <1>2 DEF C!SharedMeansUnderWay
<1>5. \A n \in Nodes : attempt'[n] > 0 => C!WaitsFor(n)' # {}
  BY <1>3 DEF C!SharedMeansUnderWay
<1>6. \A a \in C!Actors : at'[a] = "connecting" => attempt'[want'[a]] > 0
  BY <1>1 DEF C!SharedMeansUnderWay
<1> QED  BY <1>4, <1>5, <1>6 DEF C!SharedMeansUnderWay

\* The end of an attempt leaves nobody who waits for it, and it is the only one.
LEMMA ClientSharedEnds ==
    ASSUME C!ClientAssumption, ClientTypes, ClientTypes', C!SharedMeansUnderWay, NEW n \in Nodes,
           attempt[n] > 0,
           attempt' = [attempt EXCEPT ![n] = @ - 1], UNCHANGED <<refreshing, want>>,
           \A a \in C!Actors : /\ a \notin C!WaitsFor(n) => at'[a] = at[a]
                               /\ a \in C!WaitsFor(n) => at'[a] \in {"writing", "failed", "trying"}
    PROVE  C!SharedMeansUnderWay'
<1>1. attempt \in [Nodes -> {0, 1}] /\ want \in [C!Actors -> Nodes]
  BY DEF ClientTypes
<1>2. attempt'[n] = 0 /\ \A m \in Nodes \ {n} : attempt'[m] = attempt[m]
  BY <1>1
<1>3. \A a \in C!Actors : /\ at'[a] = "connecting" <=> at[a] = "connecting" /\ want[a] # n
                          /\ at'[a] = "idle" <=> at[a] = "idle"
  BY DEF C!WaitsFor
<1>4. \A m \in Nodes \ {n} : C!WaitsFor(m)' = C!WaitsFor(m)
  BY <1>3 DEF C!WaitsFor
<1>5. (refreshing <=> at["refresh"] # "idle")'
  BY <1>3, ClientConnFacts DEF C!SharedMeansUnderWay
<1>6. \A m \in Nodes : attempt'[m] > 0 => C!WaitsFor(m)' # {}
  BY <1>2, <1>4 DEF C!SharedMeansUnderWay
<1>7. \A a \in C!Actors : at'[a] = "connecting" => attempt'[want'[a]] > 0
  BY <1>1, <1>2, <1>3 DEF C!SharedMeansUnderWay
<1> QED  BY <1>5, <1>6, <1>7 DEF C!SharedMeansUnderWay

\* An actor that calls broker() is one more that waits, or none.
LEMMA ClientSharedCall ==
    ASSUME C!ClientAssumption, ClientTypes, ClientTypes', C!SharedMeansUnderWay,
           NEW a \in C!Actors, NEW n \in Nodes,
           C!UseBroker(a, n), want' = [want EXCEPT ![a] = n], UNCHANGED refreshing,
           \/ a \in Callers /\ at[a] = "idle"
           \/ a = "refresh" /\ at[a] = "trying"
    PROVE  C!SharedMeansUnderWay'
<1>1. /\ attempt \in [Nodes -> {0, 1}] /\ attempt' \in [Nodes -> {0, 1}]
      /\ want \in [C!Actors -> Nodes]
  BY DEF ClientTypes
<1>2. /\ at'[a] \in {"failed", "writing", "connecting"}
      /\ \A b \in C!Actors \ {a} : at'[b] = at[b]
      /\ \A m \in Nodes : attempt'[m] >= attempt[m]
      /\ at'[a] = "connecting" => attempt'[n] > 0
      /\ \A m \in Nodes : attempt'[m] # attempt[m] => m = n /\ at'[a] = "connecting"
  BY ClientUseBrokerShares
<1>3. want'[a] = n /\ \A b \in C!Actors \ {a} : want'[b] = want[b]
  BY <1>1
<1>4. (refreshing <=> at["refresh"] # "idle")'
  BY <1>2, ClientConnFacts DEF C!SharedMeansUnderWay
<1>5. \A m \in Nodes : attempt'[m] > 0 => C!WaitsFor(m)' # {}
  <2> SUFFICES ASSUME NEW m \in Nodes, attempt'[m] > 0 PROVE C!WaitsFor(m)' # {}
    OBVIOUS
  <2>1. CASE attempt'[m] # attempt[m]
    BY <1>2, <1>3, <2>1 DEF C!WaitsFor
  <2>2. CASE attempt'[m] = attempt[m]
    <3>1. PICK b \in C!WaitsFor(m) : TRUE
      BY <2>2 DEF C!SharedMeansUnderWay
    <3>2. b \in C!Actors /\ b # a /\ at[b] = "connecting" /\ want[b] = m
      BY <3>1 DEF C!WaitsFor
    <3> QED  BY <1>2, <1>3, <3>2 DEF C!WaitsFor
  <2> QED  BY <2>1, <2>2
<1>6. \A b \in C!Actors : at'[b] = "connecting" => attempt'[want'[b]] > 0
  <2> SUFFICES ASSUME NEW b \in C!Actors, at'[b] = "connecting" PROVE attempt'[want'[b]] > 0
    OBVIOUS
  <2>1. CASE b = a
    BY <1>2, <1>3, <2>1
  <2>2. CASE b # a
    <3>1. attempt[want[b]] > 0 /\ want'[b] = want[b] /\ want[b] \in Nodes
      BY <1>1, <1>2, <1>3, <2>2 DEF C!SharedMeansUnderWay
    <3> QED  BY <1>1, <1>2, <3>1
  <2> QED  BY <2>1, <2>2
<1> QED  BY <1>4, <1>5, <1>6 DEF C!SharedMeansUnderWay

LEMMA ClientSharedInit == ASSUME C!ClientAssumption, C!Init PROVE C!SharedMeansUnderWay
BY ClientConnFacts DEF C!Init, C!SharedMeansUnderWay, C!WaitsFor

\* What exchange() does concerns no attempt.
LEMMA ClientSharedExchange ==
    ASSUME C!ClientAssumption, ClientTypes, ClientTypes', C!SharedMeansUnderWay,
           NEW a \in C!Actors, C!OfActor(a)
    PROVE  C!SharedMeansUnderWay'
<1>1. at \in [C!Actors -> ClientPlaces] /\ want \in [C!Actors -> Nodes]
  BY DEF ClientTypes
<1>2. CASE C!Written(a)
  <2>1. \A b \in C!Actors : at'[b] = at[b] \/ {at[b], at'[b]} \subseteq ClientBusy
    BY <1>1, <1>2 DEF C!Written, C!Goto, ClientBusy
  <2> QED  BY <1>2, <2>1, ClientSharedSame DEF C!Written, C!clusterVars
<1>3. CASE C!Answered(a)
  <2>1. \A b \in C!Actors : at'[b] = at[b] \/ {at[b], at'[b]} \subseteq ClientBusy
    BY <1>1, <1>3 DEF C!Answered, C!Goto, ClientBusy
  <2> QED  BY <1>3, <2>1, ClientSharedSame DEF C!Answered, C!clusterVars
<1>4. CASE C!TimesOut(a)
  <2>1. \A b \in C!Actors : at'[b] = at[b] \/ {at[b], at'[b]} \subseteq ClientBusy
    BY <1>1, <1>4 DEF C!TimesOut, C!FailPending, ClientBusy
  <2> QED  BY <1>4, <2>1, ClientSharedSame DEF C!TimesOut, C!clusterVars
<1>5. CASE C!FailureSeen(a)
  <2>1. \A b \in C!Actors : at'[b] = at[b] \/ {at[b], at'[b]} \subseteq ClientBusy
    BY <1>1, <1>5 DEF C!FailureSeen, C!Goto, ClientBusy
  <2> QED  BY <1>5, <2>1, ClientSharedSame DEF C!FailureSeen, C!clusterVars
<1>6. CASE C!Returns(a)
  <2>1. \A b \in C!Actors : \/ at'[b] = at[b] /\ want'[b] = want[b]
                            \/ b \in Callers /\ at[b] # "connecting" /\ at'[b] # "connecting"
    BY <1>1, <1>6 DEF C!Returns, C!Goto
  <2> QED  BY <1>6, <2>1, ClientSharedSame DEF C!Returns, C!clusterVars
<1> QED  BY <1>2, <1>3, <1>4, <1>5, <1>6 DEF C!OfActor

\* The attempts of a node: they end, with success or not, for all who wait.
LEMMA ClientSharedConnecting ==
    ASSUME C!ClientAssumption, ClientTypes, ClientTypes', C!SharedMeansUnderWay, NEW n \in Nodes,
           C!OfNode(n)
    PROVE  C!SharedMeansUnderWay'
<1>1. at \in [C!Actors -> ClientPlaces] /\ want \in [C!Actors -> Nodes]
  BY DEF ClientTypes
<1>2. ASSUME NEW c \in C!NextUnused, C!Installs(n, c), attempt[n] > 0, UNCHANGED <<refreshing, want>>
      PROVE  C!SharedMeansUnderWay'
  <2>1. /\ attempt' = [attempt EXCEPT ![n] = @ - 1]
        /\ \A a \in C!Actors : /\ a \notin C!WaitsFor(n) => at'[a] = at[a]
                               /\ a \in C!WaitsFor(n) => at'[a] \in {"writing", "failed", "trying"}
    BY <1>2 DEF C!Installs, C!GotoAll
  <2> QED  BY <1>2, <2>1, ClientSharedEnds
<1>3. CASE C!Connects(n)
  BY <1>2, <1>3 DEF C!Connects
<1>4. CASE C!ClosesOld(n)
  BY <1>4, ClientSharedSame DEF C!ClosesOld, C!clusterVars, C!actorVars
<1>5. CASE C!OldClosed(n)
  <2>1. \A b \in C!Actors : at'[b] = at[b] \/ {at[b], at'[b]} \subseteq ClientBusy
    BY <1>1, <1>5 DEF C!OldClosed, C!FailPending, ClientBusy
  <2> QED  BY <1>5, <2>1, ClientSharedSame DEF C!OldClosed, C!clusterVars
<1>6. CASE C!Replaces(n)
  BY <1>2, <1>6 DEF C!Replaces
<1>7. CASE C!ConnectFails(n)
  <2>1. /\ attempt' = [attempt EXCEPT ![n] = @ - 1]
        /\ \A a \in C!Actors : /\ a \notin C!WaitsFor(n) => at'[a] = at[a]
                               /\ a \in C!WaitsFor(n) => at'[a] \in {"writing", "failed", "trying"}
    BY <1>7 DEF C!ConnectFails, C!Cleared
  <2> QED  BY <1>7, <2>1, ClientSharedEnds DEF C!ConnectFails
<1> QED  BY <1>3, <1>4, <1>5, <1>6, <1>7 DEF C!OfNode

\* The coroutine of a refresh: under way from its first step to its last.
LEMMA ClientSharedRefresh ==
    ASSUME C!ClientAssumption, ClientTypes, ClientTypes', C!SharedMeansUnderWay, C!OfRefresh
    PROVE  C!SharedMeansUnderWay'
<1>1. /\ at \in [C!Actors -> ClientPlaces] /\ want \in [C!Actors -> Nodes] /\ known \subseteq Nodes
      /\ slot \in [Nodes -> C!Conns \cup {C!None}] /\ seed \in [Nodes -> C!Conns \cup {C!None}]
  BY DEF ClientTypes
<1>2. "refresh" \in C!Actors
  BY ClientConnFacts
<1>3. ASSUME NEW c \in C!Conns, C!SendOn("refresh", c), at["refresh"] \in {"choosing", "trying"},
             UNCHANGED <<attempt, refreshing, want>>
      PROVE  C!SharedMeansUnderWay'
  <2>1. at'["refresh"] \in {"failed", "writing"} /\ \A b \in C!Actors \ {"refresh"} : at'[b] = at[b]
    BY <1>2, <1>3, ClientTypesSendOn
  <2>2. \A a \in C!Actors : \/ at'[a] = at[a] /\ want'[a] = want[a]
                            \/ a = "refresh" /\ at[a] \notin {"connecting", "idle"}
                                             /\ at'[a] \notin {"connecting", "idle"}
    BY <1>3, <2>1
  <2> QED  BY <1>3, <2>2, ClientSharedSame
<1>4. ASSUME C!Goto("refresh", "trying") \/ C!Goto("refresh", "failed"),
             at["refresh"] \in {"choosing", "trying"}, UNCHANGED <<attempt, refreshing, want>>
      PROVE  C!SharedMeansUnderWay'
  <2>1. \A a \in C!Actors : \/ at'[a] = at[a] /\ want'[a] = want[a]
                            \/ a = "refresh" /\ at[a] \notin {"connecting", "idle"}
                                             /\ at'[a] \notin {"connecting", "idle"}
    BY <1>1, <1>4 DEF C!Goto
  <2> QED  BY <1>4, <2>1, ClientSharedSame
<1>5. CASE C!ChoosesLive
  <2>1. UNCHANGED <<attempt, refreshing, want>> /\ at["refresh"] \in {"choosing", "trying"}
    BY <1>5 DEF C!ChoosesLive, C!clusterVars
  <2>2. CASE C!LiveSlots = {}
    BY <1>4, <1>5, <2>1, <2>2 DEF C!ChoosesLive
  <2>3. CASE C!LiveSlots # {}
    <3>1. PICK n \in C!LiveSlots : C!SendOn("refresh", slot[n])
      BY <1>5, <2>3 DEF C!ChoosesLive
    <3>2. slot[n] \in C!Conns
      BY <1>1, ClientConnectedIsConn DEF C!LiveSlots
    <3> QED  BY <1>3, <2>1, <3>1, <3>2
  <2> QED  BY <2>2, <2>3
<1>6. CASE C!TriesKnown
  <2>1. PICK n \in known \ tried :
            C!UseBroker("refresh", n) /\ want' = [want EXCEPT !["refresh"] = n]
    BY <1>6 DEF C!TriesKnown
  <2> QED  BY <1>1, <1>2, <1>6, <2>1, ClientSharedCall DEF C!TriesKnown
<1>7. CASE C!UsesSeed
  <2>1. PICK n \in Nodes : C!Connected(seed[n]) /\ C!SendOn("refresh", seed[n])
    BY <1>7 DEF C!UsesSeed
  <2>2. seed[n] \in C!Conns
    BY <1>1, <2>1, ClientConnectedIsConn
  <2> QED  BY <1>3, <1>7, <2>1, <2>2 DEF C!UsesSeed, C!AtSeeds, C!clusterVars
<1>8. CASE C!OpensSeed
  <2>1. PICK c \in C!NextUnused : C!SendOn("refresh", c)
    BY <1>8 DEF C!OpensSeed
  <2> QED  BY <1>3, <1>8, <2>1, ClientConnFacts DEF C!OpensSeed, C!AtSeeds
<1>9. CASE C!Unreachable
  BY <1>4, <1>9 DEF C!Unreachable, C!AtSeeds, C!clusterVars
<1>10. CASE C!RefreshEnds
  <2>1. /\ at'["refresh"] = "idle" /\ ~refreshing'
        /\ \A a \in C!Actors \ {"refresh"} : at'[a] = at[a] \/ (at[a] = "refreshing" /\ at'[a] \in {"answered", "failed"})
        /\ UNCHANGED <<attempt, want>> /\ at["refresh"] # "connecting"
    BY <1>1, <1>2, <1>10 DEF C!RefreshEnds
  <2>2. \A a \in C!Actors : at'[a] = "connecting" <=> at[a] = "connecting"
    BY <2>1
  <2>3. \A n \in Nodes : C!WaitsFor(n)' = C!WaitsFor(n)
    BY <2>1, <2>2 DEF C!WaitsFor
  <2> QED  BY <2>1, <2>2, <2>3 DEF C!SharedMeansUnderWay
<1> QED  BY <1>5, <1>6, <1>7, <1>8, <1>9, <1>10 DEF C!OfRefresh

LEMMA ClientSharedNext ==
    ASSUME C!ClientAssumption, ClientTypes, ClientTypes', C!SharedMeansUnderWay, [C!Next]_(C!vars)
    PROVE  C!SharedMeansUnderWay'
<1>1. at \in [C!Actors -> ClientPlaces] /\ want \in [C!Actors -> Nodes]
  BY DEF ClientTypes
<1>2. ASSUME NEW a \in Callers, C!Call(a) PROVE C!SharedMeansUnderWay'
  <2>1. a \in C!Actors /\ want[a] \in Nodes /\ want = [want EXCEPT ![a] = want[a]]
    BY <1>1, ClientConnFacts
  <2> QED  BY <1>2, <2>1, ClientSharedCall DEF C!Call
<1>3. ASSUME NEW a \in Callers, C!Refresh(a) PROVE C!SharedMeansUnderWay'
  <2>1. a \in C!Actors /\ a # "refresh" /\ "refresh" \in C!Actors
    BY ClientConnFacts
  <2>2. /\ refreshing' = TRUE /\ UNCHANGED <<attempt, want>>
        /\ at'["refresh"] = IF refreshing THEN at["refresh"] ELSE "choosing"
        /\ at'[a] = "refreshing" /\ at[a] = "idle"
        /\ \A b \in C!Actors \ {a, "refresh"} : at'[b] = at[b]
    BY <1>1, <1>3, <2>1 DEF C!Refresh
  <2>3. ~refreshing => at["refresh"] = "idle"
    BY DEF C!SharedMeansUnderWay
  <2>4. at'["refresh"] # "idle"
    BY <2>2 DEF C!SharedMeansUnderWay
  <2>5. \A b \in C!Actors : at'[b] = "connecting" <=> at[b] = "connecting"
    BY <2>2, <2>3
  <2>6. \A n \in Nodes : C!WaitsFor(n)' = C!WaitsFor(n)
    BY <2>2, <2>5 DEF C!WaitsFor
  <2> QED  BY <2>2, <2>4, <2>5, <2>6 DEF C!SharedMeansUnderWay
<1>4. ASSUME NEW c \in C!Conns, C!PeerCloses(c) PROVE C!SharedMeansUnderWay'
  <2>1. \A b \in C!Actors : at'[b] = at[b] \/ {at[b], at'[b]} \subseteq ClientBusy
    BY <1>1, <1>4 DEF C!PeerCloses, C!FailPending, ClientBusy
  <2> QED  BY <1>4, <2>1, ClientSharedSame DEF C!PeerCloses, C!clusterVars
<1>5. CASE C!Stop
  BY <1>5, ClientSharedSame DEF C!Stop, C!actorVars
<1>6. CASE UNCHANGED C!vars
  BY <1>6, ClientSharedSame DEF C!vars, C!clusterVars, C!actorVars
<1> QED  BY <1>2, <1>3, <1>4, <1>5, <1>6, ClientSharedExchange, ClientSharedConnecting,
            ClientSharedRefresh DEF C!Next
-----------------------------------------------------------------------------
(* Who waits, and on what                                                    *)

LEMMA ClientWaitingInit == ASSUME C!Init PROVE ClientWaiting
BY DEF C!Init, ClientWaiting

\* Requests that leave `pending` and actors outside exchange() disturb nothing.
LEMMA ClientWaitingSame ==
    ASSUME ClientTypes, ClientTypes', ClientWaiting,
           \A c \in C!Conns : waiters'[c] \subseteq waiters[c],
           \A c \in C!Conns : \A a \in waiters'[c] :
               on'[a] = on[a] /\ (at'[a] = at[a] \/ at'[a] = "waiting")
    PROVE  ClientWaiting'
BY DEF ClientWaiting, ClientTypes

\* A request that is sent waits on the connection that its actor uses.
LEMMA ClientWaitingSendOn ==
    ASSUME ClientTypes, ClientTypes', ClientWaiting, NEW a \in C!Actors, NEW c \in C!Conns,
           C!SendOn(a, c),
           at[a] \notin {"writing", "waiting"}
    PROVE  ClientWaiting'
<1>1. /\ at \in [C!Actors -> ClientPlaces] /\ on \in [C!Actors -> C!Conns \cup {C!None}]
      /\ waiters \in [C!Conns -> SUBSET C!Actors]
  BY DEF ClientTypes
<1>2. \A d \in C!Conns : a \notin waiters[d]
  BY DEF ClientWaiting
<1>3. CASE c \in dead
  <2>1. at' = [at EXCEPT ![a] = "failed"] /\ UNCHANGED <<on, waiters>>
    BY <1>3 DEF C!SendOn, C!Goto
  <2> QED  BY <1>1, <1>2, <2>1 DEF ClientWaiting
<1>4. CASE c \notin dead
  <2>1. /\ at' = [at EXCEPT ![a] = "writing"] /\ on' = [on EXCEPT ![a] = c]
        /\ waiters' = [waiters EXCEPT ![c] = @ \cup {a}]
    BY <1>4 DEF C!SendOn, C!Goto
  <2>2. \A d \in C!Conns : waiters'[d] \subseteq waiters[d] \cup {a} /\ (d # c => a \notin waiters'[d])
    BY <1>1, <1>2, <2>1
  <2>3. at'[a] = "writing" /\ on'[a] = c /\ \A b \in C!Actors \ {a} : at'[b] = at[b] /\ on'[b] = on[b]
    BY <1>1, <2>1
  <2> QED  BY <1>1, <2>2, <2>3 DEF ClientWaiting
<1> QED  BY <1>3, <1>4

LEMMA ClientWaitingUseBroker ==
    ASSUME ClientTypes, ClientTypes', ClientWaiting, NEW a \in C!Actors, NEW n \in Nodes,
           C!UseBroker(a, n),
           at[a] \notin {"writing", "waiting"}
    PROVE  ClientWaiting'
<1>1. at \in [C!Actors -> ClientPlaces] /\ slot[n] \in C!Conns \cup {C!None} /\ waiters \in [C!Conns -> SUBSET C!Actors]
  BY DEF ClientTypes
<1>2. CASE C!Connected(slot[n])
  BY <1>1, <1>2, ClientConnectedIsConn, ClientWaitingSendOn DEF C!UseBroker
<1>3. CASE ~C!Connected(slot[n])
  <2>1. /\ at' = [b \in C!Actors |-> IF b \in {a} THEN "connecting" ELSE at[b]]
        /\ UNCHANGED <<on, waiters>>
    BY <1>3 DEF C!UseBroker, C!GotoAll
  <2> QED  BY <1>1, <2>1 DEF ClientWaiting
<1> QED  BY <1>2, <1>3

\* Who waited for an attempt is sent on with its new connection.
LEMMA ClientWaitingInstalls ==
    ASSUME ClientTypes, ClientTypes', ClientWaiting, NEW n \in Nodes, NEW c \in C!Conns,
           C!Installs(n, c)
    PROVE  ClientWaiting'
<1>1. /\ at \in [C!Actors -> ClientPlaces] /\ on \in [C!Actors -> C!Conns \cup {C!None}]
      /\ waiters \in [C!Conns -> SUBSET C!Actors]
  BY DEF ClientTypes
<1>2. C!WaitsFor(n) \subseteq C!Actors /\ \A a \in C!WaitsFor(n) : at[a] = "connecting"
  BY DEF C!WaitsFor
<1>3. \A a \in C!Actors : /\ at'[a] = IF a \in C!WaitsFor(n) THEN "writing" ELSE at[a]
                          /\ on'[a] = IF a \in C!WaitsFor(n) THEN c ELSE on[a]
  BY DEF C!Installs, C!GotoAll
<1>4. waiters'[c] = C!WaitsFor(n) /\ \A d \in C!Conns \ {c} : waiters'[d] = waiters[d]
  BY <1>1 DEF C!Installs
<1>5. \A d \in C!Conns : \A a \in waiters[d] : a \in C!Actors /\ a \notin C!WaitsFor(n)
  BY <1>1, <1>2 DEF ClientWaiting
<1> QED  BY <1>2, <1>3, <1>4, <1>5 DEF ClientWaiting

\* Where the requests of one connection all fail, its other actors do not move.
LEMMA ClientWaitingFailPending ==
    ASSUME ClientTypes, ClientTypes', ClientWaiting, NEW c \in C!Conns,
           NEW but \in SUBSET C!Actors, C!FailPending(c, but),
           \A d \in C!Conns \ {c} : but \cap waiters[d] = {},
           UNCHANGED on
    PROVE  ClientWaiting'
<1>1. /\ at \in [C!Actors -> ClientPlaces] /\ waiters \in [C!Conns -> SUBSET C!Actors]
  BY DEF ClientTypes
<1>2. waiters'[c] = {} /\ \A d \in C!Conns \ {c} : waiters'[d] = waiters[d]
  BY <1>1 DEF C!FailPending
<1>3. \A d \in C!Conns \ {c} : \A a \in waiters[d] : a \in C!Actors /\ a \notin waiters[c] /\ a \notin but
  BY <1>1 DEF ClientWaiting
<1>4. \A d \in C!Conns \ {c} : \A a \in waiters[d] : at'[a] = at[a]
  BY <1>1, <1>3 DEF C!FailPending
<1> QED  BY <1>2, <1>4 DEF ClientWaiting

LEMMA ClientWaitingExchange ==
    ASSUME ClientTypes, ClientTypes', ClientWaiting, NEW a \in C!Actors, C!OfActor(a)
    PROVE  ClientWaiting'
<1>1. /\ at \in [C!Actors -> ClientPlaces] /\ waiters \in [C!Conns -> SUBSET C!Actors]
      /\ on \in [C!Actors -> C!Conns \cup {C!None}]
      /\ \A b \in C!Actors : at[b] \in {"writing", "waiting", "failing"} => on[b] \in C!Conns
  BY DEF ClientTypes
<1>2. \A c \in C!Conns : a \in waiters[c] => at[a] \in {"writing", "waiting"} /\ on[a] = c
  BY DEF ClientWaiting
<1>3. CASE C!Written(a)
  <2>1. /\ waiters' = waiters /\ on' = on
        /\ at' = [at EXCEPT ![a] = IF a \in waiters[on[a]] THEN "waiting" ELSE "failing"]
    BY <1>3 DEF C!Written, C!Goto, C!connVars
  <2>2. \A c \in C!Conns : \A b \in waiters[c] : at'[b] = at[b] \/ at'[b] = "waiting"
    BY <1>1, <1>2, <2>1
  <2> QED  BY <2>1, <2>2, ClientWaitingSame
<1>4. CASE C!Answered(a)
  <2>1. /\ waiters' = [waiters EXCEPT ![on[a]] = @ \ {a}] /\ on' = on
        /\ at' = [at EXCEPT ![a] = "answered"] /\ on[a] \in C!Conns
    BY <1>1, <1>4 DEF C!Answered, C!Goto
  <2>2. \A c \in C!Conns : waiters'[c] \subseteq waiters[c] /\ a \notin waiters'[c]
    BY <1>1, <1>2, <2>1
  <2>3. \A c \in C!Conns : \A b \in waiters'[c] : at'[b] = at[b]
    BY <1>1, <2>1, <2>2
  <2> QED  BY <2>1, <2>2, <2>3, ClientWaitingSame
<1>5. CASE C!TimesOut(a)
  <2>1. on[a] \in C!Conns /\ \A d \in C!Conns \ {on[a]} : {a} \cap waiters[d] = {}
    BY <1>1, <1>2, <1>5 DEF C!TimesOut
  <2> QED  BY <1>5, <2>1, ClientWaitingFailPending DEF C!TimesOut
<1>6. CASE C!FailureSeen(a) \/ C!Returns(a)
  <2>1. /\ waiters' = waiters /\ \A b \in C!Actors \ {a} : at'[b] = at[b] /\ on'[b] = on[b]
        /\ at[a] \notin {"writing", "waiting"}
    BY <1>1, <1>6 DEF C!FailureSeen, C!Returns, C!Goto, C!connVars
  <2>2. \A c \in C!Conns : a \notin waiters[c] /\ waiters[c] \subseteq C!Actors
    BY <1>1, <1>2, <2>1
  <2> QED  BY <2>1, <2>2, ClientWaitingSame
<1> QED  BY <1>3, <1>4, <1>5, <1>6 DEF C!OfActor

LEMMA ClientWaitingRefresh ==
    ASSUME C!ClientAssumption, ClientTypes, ClientTypes', ClientWaiting, C!OfRefresh
    PROVE  ClientWaiting'
<1>1. /\ at \in [C!Actors -> ClientPlaces] /\ waiters \in [C!Conns -> SUBSET C!Actors]
      /\ on \in [C!Actors -> C!Conns \cup {C!None}] /\ known \subseteq Nodes
      /\ slot \in [Nodes -> C!Conns \cup {C!None}] /\ seed \in [Nodes -> C!Conns \cup {C!None}]
  BY DEF ClientTypes
<1>2. "refresh" \in C!Actors
  BY ClientConnFacts
<1>3. ASSUME UNCHANGED <<on, waiters>>, C!Goto("refresh", "trying") \/ C!Goto("refresh", "failed"),
             at["refresh"] \notin {"writing", "waiting"}
      PROVE  ClientWaiting'
  <2>1. \A b \in C!Actors \ {"refresh"} : at'[b] = at[b]
    BY <1>1, <1>3 DEF C!Goto
  <2>2. \A c \in C!Conns : "refresh" \notin waiters[c] /\ waiters[c] \subseteq C!Actors
    BY <1>1, <1>3 DEF ClientWaiting
  <2> QED  BY <1>3, <2>1, <2>2, ClientWaitingSame
<1>4. CASE C!ChoosesLive
  <2>1. at["refresh"] = "choosing"
    BY <1>4 DEF C!ChoosesLive
  <2>2. CASE C!LiveSlots = {}
    BY <1>3, <1>4, <2>1, <2>2 DEF C!ChoosesLive
  <2>3. CASE C!LiveSlots # {}
    <3>1. PICK n \in C!LiveSlots : C!SendOn("refresh", slot[n])
      BY <1>4, <2>3 DEF C!ChoosesLive
    <3>2. slot[n] \in C!Conns
      BY <1>1, ClientConnectedIsConn DEF C!LiveSlots
    <3> QED  BY <1>2, <2>1, <3>1, <3>2, ClientWaitingSendOn
  <2> QED  BY <2>2, <2>3
<1>5. CASE C!TriesKnown
  <2>1. PICK n \in known \ tried : C!UseBroker("refresh", n)
    BY <1>5 DEF C!TriesKnown
  <2> QED  BY <1>1, <1>2, <1>5, <2>1, ClientWaitingUseBroker DEF C!TriesKnown
<1>6. CASE C!UsesSeed
  <2>1. PICK n \in Nodes : C!Connected(seed[n]) /\ C!SendOn("refresh", seed[n])
    BY <1>6 DEF C!UsesSeed
  <2>2. seed[n] \in C!Conns
    BY <1>1, <2>1, ClientConnectedIsConn
  <2> QED  BY <1>2, <1>6, <2>1, <2>2, ClientWaitingSendOn DEF C!UsesSeed, C!AtSeeds
<1>7. CASE C!OpensSeed
  <2>1. PICK c \in C!NextUnused : C!SendOn("refresh", c)
    BY <1>7 DEF C!OpensSeed
  <2> QED  BY <1>2, <1>7, <2>1, ClientConnFacts, ClientWaitingSendOn DEF C!OpensSeed, C!AtSeeds
<1>8. CASE C!Unreachable
  BY <1>3, <1>8 DEF C!Unreachable, C!AtSeeds, C!connVars
<1>9. CASE C!RefreshEnds
  <2>1. /\ waiters' = waiters /\ at["refresh"] \in {"answered", "failed"}
        /\ \A b \in C!Actors \ {"refresh"} :
              /\ on'[b] = on[b]
              /\ at'[b] # at[b] => at[b] = "refreshing"
    BY <1>1, <1>2, <1>9 DEF C!RefreshEnds, C!connVars
  <2>2. \A c \in C!Conns : \A a \in waiters[c] : a \in C!Actors \ {"refresh"} /\ at[a] # "refreshing"
    BY <1>1, <2>1 DEF ClientWaiting
  <2> QED  BY <2>1, <2>2, ClientWaitingSame
<1> QED  BY <1>4, <1>5, <1>6, <1>7, <1>8, <1>9 DEF C!OfRefresh

\* What every actor waits for is its own request, whoever moves.
LEMMA ClientWaitingNext ==
    ASSUME C!ClientAssumption, ClientTypes, ClientTypes', C!SharedMeansUnderWay, ClientWaiting,
           [C!Next]_(C!vars)
    PROVE  ClientWaiting'
<1>1. /\ at \in [C!Actors -> ClientPlaces] /\ waiters \in [C!Conns -> SUBSET C!Actors]
      /\ want \in [C!Actors -> Nodes]
  BY DEF ClientTypes
<1>2. ASSUME NEW a \in Callers, C!Call(a) PROVE ClientWaiting'
  BY <1>1, <1>2, ClientConnFacts, ClientWaitingUseBroker DEF C!Call
<1>3. ASSUME NEW a \in Callers, C!Refresh(a) PROVE ClientWaiting'
  <2>1. a \in C!Actors /\ a # "refresh" /\ "refresh" \in C!Actors
    BY ClientConnFacts
  <2>2. /\ UNCHANGED <<waiters, on>> /\ at[a] = "idle"
        /\ at'["refresh"] = IF refreshing THEN at["refresh"] ELSE "choosing"
        /\ \A b \in C!Actors \ {a, "refresh"} : at'[b] = at[b]
    BY <1>1, <1>3, <2>1 DEF C!Refresh, C!connVars
  <2>3. ~refreshing => at["refresh"] = "idle"
    BY DEF C!SharedMeansUnderWay
  <2>4. \A c \in C!Conns : \A b \in waiters[c] : b \in C!Actors /\ at[b] # "idle"
    BY <1>1 DEF ClientWaiting
  <2>5. \A c \in C!Conns : \A b \in waiters[c] : at'[b] = at[b]
    BY <2>2, <2>3, <2>4
  <2> QED  BY <2>2, <2>5, ClientWaitingSame
<1>4. ASSUME NEW c \in C!Conns, C!PeerCloses(c) PROVE ClientWaiting'
  BY <1>4, ClientWaitingFailPending DEF C!PeerCloses
<1>5. ASSUME NEW n \in Nodes, C!OfNode(n) PROVE ClientWaiting'
  <2>1. CASE C!Connects(n) \/ C!Replaces(n)
    <3>1. PICK c \in C!NextUnused : C!Installs(n, c)
      BY <2>1 DEF C!Connects, C!Replaces
    <3> QED  BY <3>1, ClientConnFacts, ClientWaitingInstalls
  <2>2. CASE C!ClosesOld(n)
    BY <2>2, ClientWaitingSame DEF C!ClosesOld, C!actorVars
  <2>3. CASE C!OldClosed(n)
    <3>1. slot[n] \in C!Conns
      BY <2>3 DEF C!OldClosed, ClientTypes
    <3> QED  BY <2>3, <3>1, ClientWaitingFailPending DEF C!OldClosed
  <2>4. CASE C!ConnectFails(n)
    <3>1. /\ UNCHANGED <<waiters, on>>
          /\ \A a \in C!Actors : at'[a] # at[a] => at[a] = "connecting"
      BY <1>1, <2>4 DEF C!ConnectFails, C!connVars, C!WaitsFor
    <3>2. \A c \in C!Conns : \A b \in waiters[c] : b \in C!Actors /\ at[b] # "connecting"
      BY <1>1 DEF ClientWaiting
    <3> QED  BY <3>1, <3>2, ClientWaitingSame
  <2> QED  BY <1>5, <2>1, <2>2, <2>3, <2>4 DEF C!OfNode
<1>6. CASE C!Stop
  BY <1>6, ClientWaitingSame DEF C!Stop, C!actorVars
<1>7. CASE UNCHANGED C!vars
  BY <1>7, ClientWaitingSame DEF C!vars, C!connVars, C!actorVars
<1> QED  BY <1>2, <1>3, <1>4, <1>5, <1>6, <1>7, ClientWaitingExchange,
            ClientWaitingRefresh DEF C!Next
-----------------------------------------------------------------------------
(* Who reads                                                                 *)

ClientRead == ClientReaders /\ C!NoReaderNoWaiter

LEMMA ClientReadInit == ASSUME C!Init PROVE ClientRead
BY DEF C!Init, ClientRead, ClientReaders, C!NoReaderNoWaiter

\* Where the connections and the tables stay, requests join only what is read.
LEMMA ClientReadSame ==
    ASSUME ClientRead, UNCHANGED <<state, reading, slot, seed>>, dead \subseteq dead',
           \A c \in C!Conns : c \in reading \/ waiters'[c] \subseteq waiters[c]
    PROVE  ClientRead'
<1>1. ClientReaders'
  BY DEF ClientRead, ClientReaders
<1>2. C!NoReaderNoWaiter'
  BY DEF ClientRead, C!NoReaderNoWaiter
<1> QED  BY <1>1, <1>2 DEF ClientRead

\* Requests are sent on a live connection, which is read.
LEMMA ClientReadSendOn ==
    ASSUME ClientTypes, ClientRead, NEW a \in C!Actors, NEW c \in C!Conns, C!SendOn(a, c),
           C!Connected(c)
    PROVE  \A d \in C!Conns : d \in reading \/ waiters'[d] \subseteq waiters[d]
<1>1. waiters \in [C!Conns -> SUBSET C!Actors] /\ c \in reading
  BY DEF ClientTypes, C!Connected, ClientRead, ClientReaders
<1> QED  BY <1>1 DEF C!SendOn

LEMMA ClientReadUseBroker ==
    ASSUME ClientTypes, ClientRead, NEW a \in C!Actors, NEW n \in Nodes, C!UseBroker(a, n)
    PROVE  \A d \in C!Conns : d \in reading \/ waiters'[d] \subseteq waiters[d]
<1>1. slot[n] \in C!Conns \cup {C!None}
  BY DEF ClientTypes
<1>2. CASE C!Connected(slot[n])
  BY <1>1, <1>2, ClientConnectedIsConn, ClientReadSendOn DEF C!UseBroker
<1>3. CASE ~C!Connected(slot[n])
  BY <1>3 DEF C!UseBroker
<1> QED  BY <1>2, <1>3

\* FailPending takes requests away, and all of them from its connection.
LEMMA ClientReadFailPending ==
    ASSUME ClientTypes, NEW c \in C!Conns, NEW but, C!FailPending(c, but)
    PROVE  waiters'[c] = {} /\ \A d \in C!Conns : waiters'[d] \subseteq waiters[d]
BY DEF ClientTypes, C!FailPending

LEMMA ClientReadExchange ==
    ASSUME ClientTypes, ClientRead, NEW a \in C!Actors, C!OfActor(a)
    PROVE  ClientRead'
<1>1. waiters \in [C!Conns -> SUBSET C!Actors]
  BY DEF ClientTypes
<1>2. CASE C!Written(a) \/ C!FailureSeen(a) \/ C!Returns(a)
  BY <1>2, ClientReadSame DEF C!Written, C!FailureSeen, C!Returns, C!connVars, C!clusterVars
<1>3. CASE C!Answered(a)
  <2>1. \A c \in C!Conns : waiters'[c] \subseteq waiters[c]
    BY <1>1, <1>3 DEF C!Answered
  <2> QED  BY <1>3, <2>1, ClientReadSame DEF C!Answered, C!clusterVars
<1>4. CASE C!TimesOut(a)
  <2>1. on[a] \in C!Conns
    BY <1>4 DEF ClientTypes, C!TimesOut
  <2> QED  BY <1>4, <2>1, ClientReadFailPending, ClientReadSame DEF C!TimesOut, C!clusterVars
<1> QED  BY <1>2, <1>3, <1>4 DEF C!OfActor

\* A connection is listed when it is opened, and dead before it is dropped.
LEMMA ClientReadConnecting ==
    ASSUME C!ClientAssumption, ClientTypes, ClientRead, NEW n \in Nodes, C!OfNode(n)
    PROVE  ClientRead'
<1>1. /\ waiters \in [C!Conns -> SUBSET C!Actors] /\ state \in [C!Conns -> ClientStates]
      /\ slot \in [Nodes -> C!Conns \cup {C!None}] /\ seed \in [Nodes -> C!Conns \cup {C!None}]
  BY DEF ClientTypes
<1>2. ASSUME NEW c \in C!Conns, C!Installs(n, c), reading' = reading \cup {c}, UNCHANGED <<dead, seed>>,
             \A d \in C!Conns \ {c} : state'[d] = state[d] \/ state'[d] = "destroyed",
             \A d \in C!Conns \ {c} : d = slot[n] => state'[d] = "destroyed",
             state'[c] = "open"
      PROVE  ClientRead'
  <2>1. /\ slot'[n] = c /\ \A m \in Nodes \ {n} : slot'[m] = slot[m]
        /\ \A d \in C!Conns \ {c} : waiters'[d] = waiters[d]
    BY <1>1, <1>2 DEF C!Installs
  <2>2. \A d \in C!Conns : state'[d] = "open" /\ d \notin dead' => d \in reading'
    BY <1>2 DEF ClientRead, ClientReaders
  <2>3. \A d \in C!Conns : state'[d] = "open" => \E m \in Nodes : slot'[m] = d \/ seed'[m] = d
    <3> SUFFICES ASSUME NEW d \in C!Conns, d # c, state'[d] = "open"
                 PROVE  \E m \in Nodes : slot'[m] = d \/ seed'[m] = d
      BY <2>1
    <3>1. state[d] = "open" /\ d # slot[n]
      BY <1>2
    <3>2. PICK m \in Nodes : slot[m] = d \/ seed[m] = d
      BY <3>1 DEF ClientRead, ClientReaders
    <3> QED  BY <1>2, <2>1, <3>1, <3>2
  <2>4. \A d \in C!Conns : state'[d] = "closed" => d \in dead'
    BY <1>2 DEF ClientRead, ClientReaders
  <2>5. C!NoReaderNoWaiter'
    BY <1>2, <2>1 DEF ClientRead, C!NoReaderNoWaiter
  <2> QED  BY <2>2, <2>3, <2>4, <2>5 DEF ClientRead, ClientReaders
<1>3. CASE C!Connects(n)
  <2>1. PICK c \in C!NextUnused : C!Opened(c) /\ C!Installs(n, c)
    BY <1>3 DEF C!Connects
  <2>2. c \in C!Conns /\ slot[n] = C!None /\ C!None \notin C!Conns
    BY <1>3, ClientConnFacts DEF C!Connects
  <2>3. /\ state'[c] = "open" /\ reading' = reading \cup {c}
        /\ \A d \in C!Conns \ {c} : state'[d] = state[d]
    BY <1>1, <2>1, <2>2 DEF C!Opened
  <2> QED  BY <1>2, <1>3, <2>1, <2>2, <2>3 DEF C!Connects
<1>4. CASE C!ClosesOld(n)
  <2>1. /\ \A d \in C!Conns : state'[d] = state[d] \/ state'[d] = "closing"
        /\ UNCHANGED <<reading, dead, waiters, slot, seed>>
    BY <1>1, <1>4 DEF C!ClosesOld, C!clusterVars
  <2> QED  BY <2>1 DEF ClientRead, ClientReaders, C!NoReaderNoWaiter
<1>5. CASE C!OldClosed(n)
  <2>1. slot[n] \in C!Conns
    BY <1>1, <1>5 DEF C!OldClosed
  <2>2. /\ state'[slot[n]] = "closed" /\ \A d \in C!Conns \ {slot[n]} : state'[d] = state[d]
        /\ reading' = reading \ {slot[n]} /\ dead' = dead \cup {slot[n]} /\ UNCHANGED <<slot, seed>>
        /\ \A d \in C!Conns : waiters'[d] \subseteq waiters[d]
    BY <1>1, <1>5, <2>1, ClientReadFailPending DEF C!OldClosed, C!clusterVars
  <2>3. ClientReaders'
    BY <2>1, <2>2 DEF ClientRead, ClientReaders
  <2>4. C!NoReaderNoWaiter'
    BY <2>1, <2>2 DEF ClientRead, C!NoReaderNoWaiter
  <2> QED  BY <2>3, <2>4 DEF ClientRead
<1>6. CASE C!Replaces(n)
  <2>1. PICK c \in C!NextUnused :
            /\ state' = [state EXCEPT ![c] = "open", ![slot[n]] = "destroyed"]
            /\ reading' = reading \cup {c} /\ C!Installs(n, c)
    BY <1>6 DEF C!Replaces
  <2>2. c \in C!Conns /\ c # slot[n] /\ slot[n] \in C!Conns
    BY <1>1, <1>6, ClientConnFacts DEF C!Replaces, C!NextUnused
  <2>3. /\ state'[c] = "open" /\ state'[slot[n]] = "destroyed"
        /\ \A d \in C!Conns \ {c, slot[n]} : state'[d] = state[d]
    BY <1>1, <2>1, <2>2
  <2> QED  BY <1>2, <1>6, <2>1, <2>2, <2>3 DEF C!Replaces
<1>7. CASE C!ConnectFails(n)
  BY <1>7, ClientReadSame DEF C!ConnectFails, C!connVars
<1> QED  BY <1>3, <1>4, <1>5, <1>6, <1>7 DEF C!OfNode

LEMMA ClientReadRefresh ==
    ASSUME C!ClientAssumption, ClientTypes, ClientRead, C!OfRefresh
    PROVE  ClientRead'
<1>1. /\ known \subseteq Nodes /\ waiters \in [C!Conns -> SUBSET C!Actors]
      /\ slot \in [Nodes -> C!Conns \cup {C!None}] /\ seed \in [Nodes -> C!Conns \cup {C!None}]
  BY DEF ClientTypes
<1>2. "refresh" \in C!Actors
  BY ClientConnFacts
<1>3. CASE C!ChoosesLive
  <2>1. CASE C!LiveSlots = {}
    BY <1>3, <2>1, ClientReadSame DEF C!ChoosesLive, C!clusterVars
  <2>2. CASE C!LiveSlots # {}
    <3>1. PICK n \in C!LiveSlots : C!SendOn("refresh", slot[n])
      BY <1>3, <2>2 DEF C!ChoosesLive
    <3>2. slot[n] \in C!Conns /\ C!Connected(slot[n])
      BY <1>1, ClientConnectedIsConn DEF C!LiveSlots
    <3> QED  BY <1>2, <1>3, <3>1, <3>2, ClientReadSendOn, ClientReadSame DEF C!ChoosesLive, C!clusterVars
  <2> QED  BY <2>1, <2>2
<1>4. CASE C!TriesKnown
  <2>1. PICK n \in known \ tried : C!UseBroker("refresh", n)
    BY <1>4 DEF C!TriesKnown
  <2>2. \A d \in C!Conns : d \in reading \/ waiters'[d] \subseteq waiters[d]
    BY <1>1, <1>2, <2>1, ClientReadUseBroker
  <2> QED  BY <1>4, <2>2, ClientReadSame DEF C!TriesKnown
<1>5. CASE C!UsesSeed
  <2>1. PICK n \in Nodes : C!Connected(seed[n]) /\ C!SendOn("refresh", seed[n])
    BY <1>5 DEF C!UsesSeed
  <2>2. seed[n] \in C!Conns
    BY <1>1, <2>1, ClientConnectedIsConn
  <2>3. \A d \in C!Conns : d \in reading \/ waiters'[d] \subseteq waiters[d]
    BY <1>2, <2>1, <2>2, ClientReadSendOn
  <2> QED  BY <1>5, <2>3, ClientReadSame DEF C!UsesSeed, C!clusterVars
<1>6. CASE C!OpensSeed
  <2>1. PICK n \in Nodes, c \in C!NextUnused :
            /\ state' = [d \in C!Conns |-> IF d = c THEN "open" ELSE IF d = seed[n] THEN "destroyed"
                                           ELSE state[d]]
            /\ reading' = reading \cup {c} /\ seed' = [seed EXCEPT ![n] = c]
            /\ C!SendOn("refresh", c)
    BY <1>6 DEF C!OpensSeed
  <2>2. c \in C!Conns /\ UNCHANGED <<dead, slot>>
    BY <1>6, ClientConnFacts DEF C!OpensSeed
  <2>3. \A d \in C!Conns \ {c} : waiters'[d] = waiters[d]
    BY <1>1, <2>1, <2>2 DEF C!SendOn
  <2>4. /\ state'[c] = "open" /\ seed'[n] = c /\ \A m \in Nodes \ {n} : seed'[m] = seed[m]
        /\ \A d \in C!Conns \ {c} : state'[d] = IF d = seed[n] THEN "destroyed" ELSE state[d]
    BY <1>1, <2>1, <2>2
  <2>5. \A d \in C!Conns : state'[d] = "open" /\ d \notin dead' => d \in reading'
    BY <2>1, <2>2, <2>4 DEF ClientRead, ClientReaders
  <2>6. \A d \in C!Conns : state'[d] = "open" => \E m \in Nodes : slot'[m] = d \/ seed'[m] = d
    <3> SUFFICES ASSUME NEW d \in C!Conns, d # c, state'[d] = "open"
                 PROVE  \E m \in Nodes : slot'[m] = d \/ seed'[m] = d
      BY <2>4
    <3>1. state[d] = "open" /\ d # seed[n]
      BY <2>4
    <3>2. PICK m \in Nodes : slot[m] = d \/ seed[m] = d
      BY <3>1 DEF ClientRead, ClientReaders
    <3> QED  BY <2>2, <2>4, <3>1, <3>2
  <2>7. \A d \in C!Conns : state'[d] = "closed" => d \in dead'
    BY <2>2, <2>4 DEF ClientRead, ClientReaders
  <2>8. C!NoReaderNoWaiter'
    BY <2>1, <2>3, <2>4 DEF ClientRead, C!NoReaderNoWaiter
  <2> QED  BY <2>5, <2>6, <2>7, <2>8 DEF ClientRead, ClientReaders
<1>7. CASE C!Unreachable \/ C!RefreshEnds
  BY <1>7, ClientReadSame DEF C!Unreachable, C!RefreshEnds, C!connVars, C!clusterVars
<1> QED  BY <1>3, <1>4, <1>5, <1>6, <1>7 DEF C!OfRefresh

LEMMA ClientReadNext ==
    ASSUME C!ClientAssumption, ClientTypes, ClientWaiting, ClientRead, [C!Next]_(C!vars)
    PROVE  ClientRead'
<1>1. /\ want \in [C!Actors -> Nodes] /\ waiters \in [C!Conns -> SUBSET C!Actors]
      /\ state \in [C!Conns -> ClientStates]
  BY DEF ClientTypes
<1>2. ASSUME NEW a \in Callers, C!Call(a) PROVE ClientRead'
  <2>1. a \in C!Actors /\ want[a] \in Nodes
    BY <1>1, ClientConnFacts
  <2>2. \A d \in C!Conns : d \in reading \/ waiters'[d] \subseteq waiters[d]
    BY <1>2, <2>1, ClientReadUseBroker DEF C!Call
  <2> QED  BY <1>2, <2>2, ClientReadSame DEF C!Call
<1>3. ASSUME NEW a \in Callers, C!Refresh(a) PROVE ClientRead'
  BY <1>3, ClientReadSame DEF C!Refresh, C!connVars
<1>4. ASSUME NEW c \in C!Conns, C!PeerCloses(c) PROVE ClientRead'
  <2>1. /\ reading' = reading \ {c} /\ dead' = dead \cup {c} /\ UNCHANGED <<state, slot, seed>>
        /\ waiters'[c] = {} /\ \A d \in C!Conns : waiters'[d] \subseteq waiters[d]
    BY <1>4, ClientReadFailPending DEF C!PeerCloses, C!ReaderGone, C!clusterVars
  <2>2. ClientReaders'
    BY <2>1 DEF ClientRead, ClientReaders
  <2>3. C!NoReaderNoWaiter'
    BY <2>1 DEF ClientRead, C!NoReaderNoWaiter
  <2> QED  BY <2>2, <2>3 DEF ClientRead
<1>5. CASE C!Stop
  <2>1. \A c \in C!Conns : waiters[c] = {}
    BY <1>1, <1>5 DEF C!Stop, ClientWaiting
  <2>2. \A c \in C!Conns : state'[c] # "open" /\ (state'[c] = "closed" => c \in dead')
    BY <1>1, <1>5 DEF C!Stop, ClientRead, ClientReaders
  <2> QED  BY <2>2 DEF ClientRead, ClientReaders, C!NoReaderNoWaiter
<1>6. CASE UNCHANGED C!vars
  BY <1>6, ClientReadSame DEF C!vars, C!connVars, C!clusterVars
<1> QED  BY <1>2, <1>3, <1>4, <1>5, <1>6, ClientReadExchange, ClientReadConnecting,
            ClientReadRefresh DEF C!Next

\* What nobody waits in vain rests on.
ClientInv == ClientTypes /\ C!SharedMeansUnderWay /\ ClientWaiting /\ ClientRead

LEMMA ClientInvInit == ASSUME C!ClientAssumption, C!Init PROVE ClientInv
BY ClientTypesInit, ClientSharedInit, ClientWaitingInit, ClientReadInit DEF ClientInv

LEMMA ClientInvNext ==
    ASSUME C!ClientAssumption, ClientInv, [C!Next]_(C!vars)
    PROVE  ClientInv'
BY ClientTypesNext, ClientSharedNext, ClientWaitingNext, ClientReadNext DEF ClientInv

\* No caller waits in vain: where no read loop runs nobody waits for an answer,
\* for whoever ends a read loop fails the requests that wait and no request is
\* sent where none runs; and a shared connect or refresh is one that runs.
THEOREM NobodyWaitsAlways ==
    ASSUME C!ClientAssumption
    PROVE  MCSpec => []NobodyWaitsInVain
<1> DEFINE PartInv == part = "client" => ClientInv
<1>1. MCInit => PartInv
  BY ClientInvInit DEF MCInit
<1>2. PartInv /\ [MCNext]_<<part, vars, clientVars, req, assignVars, codecVars>> => PartInv'
  <2> SUFFICES ASSUME PartInv, [MCNext]_<<part, vars, clientVars, req, assignVars, codecVars>>,
                      part' = "client"
               PROVE  ClientInv'
    OBVIOUS
  <2>1. part = "client" /\ ClientInv
    BY DEF MCNext
  <2>2. [C!Next]_(C!vars)
    BY <2>1 DEF MCNext, clientVars, C!vars, C!connVars, C!clusterVars, C!actorVars
  <2> QED  BY <2>1, <2>2, ClientInvNext
<1>3. PartInv => NobodyWaitsInVain
  BY DEF ClientInv, ClientRead, C!NobodyWaitsInVain, NobodyWaitsInVain
<1> QED  BY <1>1, <1>2, <1>3, PTL DEF MCSpec

\* What a second attempt takes out of the table of connections is dead: it was
\* closed before, and nobody is left with a live connection that went away.
THEOREM LiveStaysListed ==
    ASSUME C!ClientAssumption
    PROVE  C!Spec => C!LiveIsNotReplaced
<1> DEFINE NeverLive ==
      \A n \in Nodes : slot'[n] \notin {C!None, slot[n]} /\ slot[n] # C!None => slot[n] \in dead
<1>1. C!Init => ClientInv
  BY ClientInvInit
<1>2. ClientInv /\ [C!Next]_(C!vars) => ClientInv'
  BY ClientInvNext
<1>3. ASSUME ClientInv, [C!Next]_(C!vars) PROVE NeverLive
  <2>1. slot \in [Nodes -> C!Conns \cup {C!None}]
    BY <1>3 DEF ClientInv, ClientTypes
  <2>2. CASE UNCHANGED slot
    BY <2>2
  <2>3. CASE C!Stop
    BY <2>1, <2>3 DEF C!Stop
  <2>4. ASSUME NEW n \in Nodes, C!Connects(n) \/ C!Replaces(n) PROVE NeverLive
    <3>1. PICK c \in C!NextUnused : C!Installs(n, c)
      BY <2>4 DEF C!Connects, C!Replaces
    <3>2. \A m \in Nodes \ {n} : slot'[m] = slot[m]
      BY <2>1, <3>1 DEF C!Installs
    <3>3. slot[n] = C!None \/ slot[n] \in dead
      BY <1>3, <2>1, <2>4 DEF C!Connects, C!Replaces, ClientInv, ClientRead, ClientReaders
    <3> QED  BY <3>2, <3>3
  <2>5. UNCHANGED slot \/ C!Stop \/ \E n \in Nodes : C!Connects(n) \/ C!Replaces(n)
    BY <1>3 DEF C!Next, C!vars, C!clusterVars, C!OfActor, C!OfNode, C!OfRefresh, C!Call, C!Refresh,
                C!Written, C!Answered, C!TimesOut, C!FailureSeen, C!Returns, C!PeerCloses,
                C!ClosesOld, C!OldClosed, C!ConnectFails, C!ChoosesLive, C!TriesKnown,
                C!UsesSeed, C!OpensSeed, C!Unreachable, C!RefreshEnds
  <2> QED  BY <2>2, <2>3, <2>4, <2>5
<1> QED  BY <1>1, <1>2, <1>3, PTL DEF C!Spec, C!LiveIsNotReplaced
=============================================================================
