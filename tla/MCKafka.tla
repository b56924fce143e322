------------------------------- MODULE MCKafka -------------------------------
(* What speaks Kafka beside the consumer, for TLC and one part at a time: the  *)
(* membership of a group, the connections of a shard, one request to a broker  *)
(* of any release, the leader of a group, and the bytes of an item on the      *)
(* wire.  `part` says which one a behaviour is of, Parts which ones a run looks  *)
(* at; the variables of the others stay Off, those of the membership as they   *)
(* began.                                                                      *)
EXTENDS GroupMembership, TLC

CONSTANTS
    Off,
    Parts,                                           \* which ones a run looks at
    a0, a1,                                          \* of GroupMembership
    Callers, Nodes, NConns, MaxFailures, MaxCalls    \* of KafkaClient

VARIABLES
    part,
    state, reading, dead, waiters, slot, seed, attempt, known, refreshing, at, on, want, tried,
    calls, failures,
    req,
    strategy, topicsOf, counts, shares,
    item, bytes, fate, got

clientVars == <<state, reading, dead, waiters, slot, seed, attempt, known, refreshing, at, on,
                want, tried, calls, failures>>
assignVars == <<strategy, topicsOf, counts, shares>>
codecVars  == <<item, bytes, fate, got>>

(* Consumers a0 and a1 are one stream on two shards.                           *)
Stream == (a0 :> "a" @@ a1 :> "a")
Shard == (a0 :> 0 @@ a1 :> 1)
StreamsOf == [c \in Consumers |-> Stream[c]]
ShardsOf == [c \in Consumers |-> Shard[c]]

C == INSTANCE KafkaClient WITH
        pending <- waiters, pc <- at, faults <- failures, MaxFaults <- MaxFailures

(* Brokers that are newer than every codec, older, or in between. *)
W == INSTANCE KafkaWire WITH MaxBroker <- 20

(* Three members of different subscriptions to two topics. *)
A == INSTANCE GroupAssignment WITH Members <- <<"a", "b", "c">>, Topics <- <<"t", "u">>, MaxParts <- 4

(* Bytes of three bits.  Every number of two bytes; records with and without a   *)
(* key, a value and headers; up to two batches, plain and compressed.            *)
Strings == {<<>>, <<5>>, <<1, 0>>, <<7, 7, 7>>}
Header(k, v) == [key |-> k, value |-> v]
Rec(t, o, k, v, hs) == [timestamp |-> t, offset |-> o, key |-> k, value |-> v, headers |-> hs]
SomeRecords ==
    {Rec(t, o, k, v, hs) : t \in {-200, 0, 255}, o \in {0, 1}, k \in {Off, <<3>>},
        v \in {Off, <<>>, <<7, 0>>}, hs \in {<<>>, <<Header(<<>>, Off), Header(<<2>>, <<6>>)>>}}
Batch(c, rs) ==
    [base |-> 0, epoch |-> -1, codec |-> c, appended |-> c = 2, control |-> c = 0, timestamp |-> 4,
     producer |-> -1, records |-> rs]
One == Rec(0, 0, Off, <<7, 0>>, <<>>)
Other == Rec(3, 1, <<3>>, <<>>, <<Header(<<2>>, Off)>>)
Batches == {Batch(c, rs) : c \in {0, 2}, rs \in {<<>>, <<One>>, <<One, Other>>}}
EachKind ==
    [int |-> -32 .. 31, uvarint |-> 0 .. 63, varint |-> -32 .. 31, string |-> Strings \cup {Off},
     bytes |-> Strings \cup {Off}, array |-> -1 .. 3, tags |-> {<<>>, <<<<5>>>>, <<<<>>, <<1, 2>>>>},
     record |-> SomeRecords, batches |-> {<<>>} \cup {<<b>> : b \in Batches} \cup (Batches \X Batches)]
D == INSTANCE KafkaCodec WITH Group <- 2, Short <- 1, Word <- 2, Long <- 3, Items <- EachKind, Null <- Off,
        wire <- bytes

ASSUME C!ClientAssumption

MCInit ==
    /\ part \in Parts /\ Init
    /\ \/ part = "membership"
       \/ part = "client" /\ C!Init
       \/ part = "wire" /\ W!Init
       \/ part = "leader" /\ A!Init
       \/ part = "codec" /\ D!Init
    /\ part # "client" =>
         /\ state = Off /\ reading = Off /\ dead = Off /\ waiters = Off /\ slot = Off /\ seed = Off
         /\ attempt = Off /\ known = Off /\ refreshing = Off /\ at = Off /\ on = Off /\ want = Off
         /\ tried = Off /\ calls = Off /\ failures = Off
    /\ part # "wire" => req = Off
    /\ part # "leader" => strategy = Off /\ topicsOf = Off /\ counts = Off /\ shares = Off
    /\ part # "codec" => item = Off /\ bytes = Off /\ fate = Off /\ got = Off

MCNext ==
    /\ UNCHANGED part
    /\ \/ part = "membership" /\ Next
       \/ part = "client" /\ C!Next /\ UNCHANGED vars
       \/ part = "wire" /\ W!Next /\ UNCHANGED vars
       \/ part = "leader" /\ A!Next /\ UNCHANGED vars
       \/ part = "codec" /\ D!Next /\ UNCHANGED vars
    /\ part # "client" => UNCHANGED clientVars
    /\ part # "wire" => UNCHANGED req
    /\ part # "leader" => UNCHANGED assignVars
    /\ part # "codec" => UNCHANGED codecVars

MCSpec == MCInit /\ [][MCNext]_<<part, vars, clientVars, req, assignVars, codecVars>>

\* Bound: a second fault only before the second consumer starts, if it does.
FewFaults == faults' > 1 => cpc'[a1] = "new"

MCLiveSpec ==
    /\ MCInit /\ [][MCNext /\ FewFaults]_<<part, vars, clientVars, req, assignVars, codecVars>>
    /\ Fairness
-----------------------------------------------------------------------------
\* Nobody waits for an answer that cannot come: where no read loop runs nobody
\* waits, an attempt or a refresh that others join is under way, and a connection
\* others may be using is never replaced.
NobodyWaitsInVain == part = "client" => C!NobodyWaitsInVain

\* What a caller puts into a request reaches a broker of any release, and what it
\* reads of the answer is there; and the bytes of an item carry it, whole or not
\* at all.
MeaningTravels ==
    CASE part = "wire"  -> W!MeaningTravels
      [] part = "codec" -> D!RoundTrip
      [] OTHER          -> TRUE

\* The shares a group's leader computes fit together.
SharesFit == part = "leader" => A!SharesFit
==============================================================================
