--------------------------- MODULE KafkaProducer ---------------------------
(***************************************************************************)
(* The Kafka producer of one shard and the metadata cache it works with.   *)
(*                                                                         *)
(* kafka_output lets four writes run at once, so several send_to calls     *)
(* share one cluster: its table of topics and leaders, and the one         *)
(* Metadata request that may be in flight.  A send chooses a partition per *)
(* record, asks each leader in turn and starts over when a leader moved.   *)
(* The brokers are external: they create topics on demand, elect leaders   *)
(* and append what a leader is sent.                                       *)
(***************************************************************************)
EXTENDS Integers, FiniteSets, FiniteSetsExt

CONSTANTS
    Sends,       \* calls of send_to
    Topic,       \* the topic of each
    NRecs,       \* records per call
    Home,        \* Home[s][n]: the partition of the key of record n, or Keyless
    NPartitions, \* partitions per topic
    NBrokers,    \* brokers are 1 .. NBrokers, in the order of std::map
    Existing,    \* topics that exist before the producer starts
    MaxRetries,  \* producer_config::max_retries
    AckModes,    \* values of producer_config::acks to look at: "all" waits for the
                 \* answer to Produce, "none" sends and goes on
    MaxMoves,    \* bound: leaders that move
    MaxFaults,   \* bound: lost answers, unreachable brokers, partitions without a leader
    None         \* no topic, no leader

Topics == {Topic[s] : s \in Sends}
Recs == 1 .. NRecs
Partitions == 0 .. NPartitions - 1
Brokers == 1 .. NBrokers
Keyless == -1
Lookups == 5     \* refreshes send_once makes for a topic it does not know

ProducerAssumption ==
    /\ IsFiniteSet(Sends) /\ DOMAIN Topic = Sends
    /\ {NRecs, NPartitions, NBrokers} \subseteq Nat \ {0}
    /\ Home \in [Sends -> [Recs -> Partitions \cup {Keyless}]]
    /\ Existing \subseteq Topics /\ AckModes \subseteq {"all", "none"}
    /\ {MaxRetries, MaxMoves, MaxFaults} \subseteq Nat
    /\ None \notin Topics /\ None \notin Brokers

VARIABLES
    acks,     \* producer_config::acks
    pc,       \* where each send is suspended
    attempt,  \* its attempts that failed with a retriable error
    tries,    \* refreshes made by the current send_once
    layout,   \* the partition of each record in the current attempt
    route,    \* and the broker it goes to
    left,     \* the records of the current attempt that were not sent yet
    cursor,   \* _cursor: topic -> the round robin position
    known,    \* _topics
    cached,   \* the leader of each partition in _topics
    asked,    \* the topic of the Metadata request in flight
    exists,   \* external: the topics of the cluster
    leader,   \* external: the leader of each partition
    stored,   \* external: <<send, record, partition>> appended to a log
    moves, faults

VARIABLE chosen  \* rigid: a run composes several components, and this is the one at hand

planVars == <<layout, route, left>>
sendVars == <<pc, attempt, tries, planVars>>
metaVars == <<known, cached, asked>>
logVars  == <<exists, leader, stored>>
vars     == <<acks, sendVars, cursor, metaVars, logVars, moves, faults>>

Init ==
    /\ acks \in AckModes
    /\ pc = [s \in Sends |-> "new"]
    /\ attempt = [s \in Sends |-> 0] /\ tries = [s \in Sends |-> 0]
    /\ layout = [s \in Sends |-> [n \in Recs |-> 0]]
    /\ route = [s \in Sends |-> [n \in Recs |-> 1]] /\ left = [s \in Sends |-> {}]
    /\ cursor = [t \in Topics |-> 0]
    /\ leader = [t \in Topics |-> [p \in Partitions |-> 1 + (p % NBrokers)]]
    /\ exists = Existing /\ known \in SUBSET Existing
    /\ cached = leader /\ asked = None /\ stored = {} /\ moves = 0 /\ faults = 0

Fault == faults < MaxFaults /\ faults' = faults + 1

Goto(s, p) == pc' = [pc EXCEPT ![s] = p]
-----------------------------------------------------------------------------
(* cluster::refresh *)

\* One request in flight serves every caller, whatever topic it asks for.
Refresh(s) ==
    /\ Goto(s, "refreshing")
    /\ asked' = IF asked = None THEN Topic[s] ELSE asked

Waiting == {s \in Sends : pc[s] = "refreshing"}

Resume(p) == pc' = [s \in Sends |-> IF s \in Waiting THEN p ELSE pc[s]]

\* A topic that does not exist is created, but not described, by the answer.
MetadataAnswered ==
    /\ asked # None /\ asked' = None /\ Resume("lookup")
    /\ \/ /\ asked \in exists /\ known' = known \cup {asked}
          /\ cached' = [cached EXCEPT ![asked] = leader[asked]] /\ UNCHANGED exists
       \/ asked \notin exists /\ exists' = exists \cup {asked} /\ UNCHANGED <<known, cached>>
    /\ UNCHANGED <<acks, attempt, tries, planVars, cursor, leader, stored, moves, faults>>

\* No broker answers: every caller fails, and the slot is free again.
RefreshFails ==
    /\ asked # None /\ Fault /\ asked' = None /\ Resume("failed")
    /\ UNCHANGED <<acks, attempt, tries, planVars, cursor, known, cached, logVars, moves>>
-----------------------------------------------------------------------------
(* producer::send_to and producer::send_once *)

Known(s) == Topic[s] \in known

Begin(s) ==
    /\ pc[s] = "new" /\ Goto(s, "lookup")
    /\ UNCHANGED <<acks, attempt, tries, planVars, cursor, metaVars, logVars, moves, faults>>

\* The first refresh for an unknown topic, and the ones after a pause.
Ask(s) ==
    /\ \/ pc[s] = "lookup" /\ ~Known(s) /\ tries[s] = 0
       \/ pc[s] = "pause"
    /\ Refresh(s) /\ tries' = [tries EXCEPT ![s] = @ + 1]
    /\ UNCHANGED <<acks, attempt, planVars, cursor, known, cached, logVars, moves, faults>>

Pause(s) ==
    /\ pc[s] = "lookup" /\ ~Known(s) /\ tries[s] \in 1 .. Lookups - 1 /\ Goto(s, "pause")
    /\ UNCHANGED <<acks, attempt, tries, planVars, cursor, metaVars, logVars, moves, faults>>

UnknownTopic(s) ==
    /\ pc[s] = "lookup" /\ ~Known(s) /\ tries[s] = Lookups /\ Goto(s, "failed")
    /\ UNCHANGED <<acks, attempt, tries, planVars, cursor, metaVars, logVars, moves, faults>>

\* send_to catches a retriable error and tries again, max_retries times.
Retriable(s) ==
    IF attempt[s] >= MaxRetries
    THEN Goto(s, "failed") /\ UNCHANGED attempt
    ELSE Goto(s, "backoff") /\ attempt' = [attempt EXCEPT ![s] = @ + 1]

Backoff(s) ==
    /\ pc[s] = "backoff" /\ Refresh(s) /\ tries' = [tries EXCEPT ![s] = 0]
    /\ UNCHANGED <<acks, attempt, planVars, cursor, known, cached, logVars, moves, faults>>

\* How many of the first n records of the call have no key.
Spread(s, n) == Cardinality({k \in 1 .. n : Home[s][k] = Keyless})

\* A key decides; records without one take the next partition each.
Placement(s) ==
    [n \in Recs |->
        IF Home[s][n] = Keyless
        THEN (cursor[Topic[s]] + Spread(s, n - 1)) % NPartitions
        ELSE Home[s][n]]

LeaderOf(s) == [n \in Recs |-> cached[Topic[s]][Placement(s)[n]]]

Led(s) == \A n \in Recs : LeaderOf(s)[n] # None

NoLeader(s) ==
    /\ pc[s] = "lookup" /\ Known(s) /\ ~Led(s) /\ Retriable(s)
    /\ UNCHANGED <<acks, tries, planVars, cursor, metaVars, logVars, moves, faults>>

\* The cursor moves on before anything is sent.
Plan(s) ==
    /\ pc[s] = "lookup" /\ Known(s) /\ Led(s)
    /\ layout' = [layout EXCEPT ![s] = Placement(s)]
    /\ route' = [route EXCEPT ![s] = LeaderOf(s)] /\ left' = [left EXCEPT ![s] = Recs]
    /\ cursor' = [cursor EXCEPT ![Topic[s]] = @ + Spread(s, NRecs)]
    /\ Goto(s, "produce")
    /\ UNCHANGED <<acks, attempt, tries, metaVars, logVars, moves, faults>>

Node(s) == Min({route[s][n] : n \in left[s]})

\* One Produce request per broker, with every record it was chosen for.
Carried(s) == {n \in left[s] : route[s][n] = Node(s)}

\* External: the broker appends the batches of the partitions it leads.
Accepted(s) == {n \in Carried(s) : leader[Topic[s]][layout[s][n]] = Node(s)}

Store(s, S) == stored' = stored \cup {<<s, n, layout[s][n]>> : n \in S}

NextBroker(s) ==
    /\ left' = [left EXCEPT ![s] = @ \ Carried(s)]
    /\ Goto(s, IF left'[s] = {} THEN "ok" ELSE "produce")

ProduceOk(s) ==
    /\ pc[s] = "produce" /\ acks = "all" /\ Accepted(s) = Carried(s)
    /\ Store(s, Accepted(s)) /\ NextBroker(s)
    /\ UNCHANGED <<acks, attempt, tries, layout, route, cursor, metaVars, exists, leader, moves,
                   faults>>

\* Some partition of the request has another leader by now.
ProduceMoved(s) ==
    /\ pc[s] = "produce" /\ acks = "all" /\ Accepted(s) # Carried(s)
    /\ Store(s, Accepted(s)) /\ Retriable(s)
    /\ UNCHANGED <<acks, tries, planVars, cursor, metaVars, exists, leader, moves, faults>>

\* The broker cannot be reached, or its answer is lost: not a broker_error, so
\* send_to does not try again.
ProduceLost(s) ==
    /\ pc[s] = "produce" /\ Fault /\ Goto(s, "failed")
    /\ Store(s, Accepted(s)) \/ UNCHANGED stored
    /\ UNCHANGED <<acks, attempt, tries, planVars, cursor, metaVars, exists, leader, moves>>

\* acks = 0: written to the socket, and nothing is answered.
ProduceOneway(s) ==
    /\ pc[s] = "produce" /\ acks = "none"
    /\ Store(s, Accepted(s)) /\ NextBroker(s)
    /\ UNCHANGED <<acks, attempt, tries, layout, route, cursor, metaVars, exists, leader, moves,
                   faults>>
-----------------------------------------------------------------------------
(* The brokers *)

\* Another broker takes over, at once or after an election.
LeaderMoves(t, p) ==
    /\ t \in exists /\ leader[t][p] # None /\ moves < MaxMoves /\ moves' = moves + 1
    /\ \/ \E b \in Brokers \ {leader[t][p]} :
            leader' = [leader EXCEPT ![t][p] = b] /\ UNCHANGED faults
       \/ leader' = [leader EXCEPT ![t][p] = None] /\ Fault
    /\ UNCHANGED <<acks, sendVars, cursor, metaVars, exists, stored>>

Elected(t, p) ==
    /\ leader[t][p] = None
    /\ \E b \in Brokers : leader' = [leader EXCEPT ![t][p] = b]
    /\ UNCHANGED <<acks, sendVars, cursor, metaVars, exists, stored, moves, faults>>
-----------------------------------------------------------------------------
SendStep(s) ==
    \/ Begin(s) \/ Ask(s) \/ Pause(s) \/ UnknownTopic(s) \/ NoLeader(s) \/ Backoff(s)
    \/ Plan(s) \/ ProduceOk(s) \/ ProduceMoved(s) \/ ProduceOneway(s)

Next ==
    \/ \E s \in Sends : SendStep(s) \/ ProduceLost(s)
    \/ MetadataAnswered \/ RefreshFails
    \/ \E t \in Topics, p \in Partitions : LeaderMoves(t, p) \/ Elected(t, p)

Spec == Init /\ [][Next]_vars

\* Timers expire, and a broker answers or the request times out.
Fairness == (\A s \in Sends : WF_vars(chosen /\ SendStep(s))) /\ WF_vars(chosen /\ MetadataAnswered)
-----------------------------------------------------------------------------
TypeOK ==
    /\ acks \in AckModes
    /\ pc \in [Sends -> {"new", "lookup", "pause", "backoff", "refreshing", "produce", "ok",
                         "failed"}]
    /\ attempt \in [Sends -> 0 .. MaxRetries] /\ tries \in [Sends -> 0 .. Lookups]
    /\ layout \in [Sends -> [Recs -> Partitions]] /\ route \in [Sends -> [Recs -> Brokers]]
    /\ left \in [Sends -> SUBSET Recs] /\ cursor \in [Topics -> Nat]
    /\ known \subseteq exists /\ exists \subseteq Topics
    /\ cached \in [Topics -> [Partitions -> Brokers \cup {None}]]
    /\ leader \in [Topics -> [Partitions -> Brokers \cup {None}]]
    /\ asked \in Topics \cup {None} /\ (Waiting # {} => asked # None)
    /\ stored \subseteq Sends \X Recs \X Partitions
    /\ moves \in 0 .. MaxMoves /\ faults \in 0 .. MaxFaults

\* "Returns when every record is durable": a send that returned has each of its
\* records in a log, whatever leaders moved while it went from broker to broker.
AckedIsStored ==
    acks = "all" => \A s \in Sends : pc[s] = "ok" =>
        \A n \in Recs : \E p \in Partitions : <<s, n, p>> \in stored

\* Without a lost answer, an unreachable broker or a partition nobody leads no
\* send fails: a topic that has to be created and a leader that moves are
\* waited for.
HealthyClusterDelivers == faults = 0 => \A s \in Sends : pc[s] # "failed"

\* "a retry reproduces the same layout": no record is on two partitions.
ResentInPlace ==
    \A a, b \in stored : a[1] = b[1] /\ a[2] = b[2] => a[3] = b[3]

\* A send is acked or failed.
Returned(s) == pc[s] \in {"ok", "failed"}
=============================================================================
