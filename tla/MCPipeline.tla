----------------------------- MODULE MCPipeline -----------------------------
(* What a pipeline is made of behind its inputs, for TLC and one part at a     *)
(* time: `part` says which one a behaviour is of, Parts which ones a run looks *)
(* at; the variables of the others stay Off, those of SplitAck as they began.  *)
EXTENDS SplitAck, Integers

CONSTANTS Off, None, Parts

VARIABLES
    part,
    kind, text, fed, scanner, out, phase, now, entries, swept, order, files, asked, news,
    bucket, opened, grants, program, given, done, loop, taken, shaping, issued, outcome,
    waiting, parts, late, armed, closed, flushes, verdict, landed, faults, pattern, call,
    next, free, drained, aborted, stored, write, queue, client, has, dead, gone, reached,
    lost, draining, closer, overdue, msg, attempt, accepted, link, pumps, dials, acks, pc,
    tries, layout, route, left, cursor, known, cached, exists, leader, moves, refs, running,
    handle, thread, hand, open, opens, writes, joins, posted, told

(* Scanners: texts of up to four symbols, and archives of up to six that come in *)
(* in whole blocks.                                                             *)
TextKinds ==
    {"lines", "chunker", "to_the_end", "json_documents", "json_array", "re_match", "skip_bom", "csv",
     "decompress"}
S == INSTANCE Scanners WITH ScannerKinds <- TextKinds, MaxText <- 4, MaxBuffer <- 9, ChunkSize <- 2, Unit <- 1,
                            Header <- TRUE, Continue <- TRUE
T == INSTANCE Scanners WITH ScannerKinds <- {"tar"}, MaxText <- 6, MaxBuffer <- 9, ChunkSize <- 2, Unit <- 2,
                            Header <- TRUE, Continue <- TRUE

(* Caches: four keys on two shards, of which one is there from the start, twice. *)
FourKeys == {"a", "b", "c", "d"}
Twice    == <<"a", "a">>
Shard    == [k \in FourKeys |-> IF k = "a" THEN 0 ELSE 1]
M == INSTANCE Caches WITH Kind <- "memory", Keys <- FourKeys, ShardOf <- Shard, InitKeys <- Twice,
                          Ttl <- 2, Compaction <- 1, Cap <- 2, MaxTime <- 5, MaxNew <- 5
L == INSTANCE Caches WITH Kind <- "lru", Keys <- FourKeys, ShardOf <- Shard, InitKeys <- Twice,
                          Ttl <- 2, Compaction <- 1, Cap <- 2, MaxTime <- 5, MaxNew <- 5
F == INSTANCE Caches WITH Kind <- "file", Keys <- FourKeys \ {"d"}, ShardOf <- Shard, InitKeys <- Twice,
                          Ttl <- 2, Compaction <- 1, Cap <- 2, MaxTime <- 5, MaxNew <- 5

(* A rate limit of five per two ticks on two shards. *)
R == INSTANCE RateLimit WITH Shards <- {"s", "t"}, NShards <- 2, Count <- 5, Interval <- 2, MaxTime <- 4

(* Processors: every leaf, every kind of node over some leaves, and what follows *)
(* or encloses a node.                                                           *)
Node(op, n, kids, cases) == [op |-> op, n |-> n, kids |-> kids, cases |-> cases]
Leaf(op) == Node(op, <<>>, <<>>, <<>>)
Mapping  == Leaf("mapping")
Leaves ==
    {Leaf(op) : op \in {"noop", "log", "sleep", "rate_limit", "mapping", "codec", "unarchive", "archive"}}
        \cup {Node("select_parts", <<-1, 0>>, <<>>, <<>>), Node("insert_part", <<-1>>, <<>>, <<>>),
              Node("bounds_check", <<1, 2>>, <<>>, <<>>), Node("split", <<2>>, <<>>, <<>>)}
        \cup {Node("dedupe", <<n>>, <<>>, <<>>) : n \in {0, 1}}
Branch(q, r, kids) == Node("branch", <<q, r>>, kids, <<>>)
Cases(x, y) ==
    <<[tags |-> {"bad", "good"}, kids |-> <<x>>], [tags |-> {"good", "array", "empty"}, kids |-> <<y>>]>>
Nodes ==
    {Node(op, <<>>, <<x, y>>, <<>>) : op \in {"try", "catch", "for_each"},
        x \in {Mapping, Leaf("unarchive"), Node("dedupe", <<1>>, <<>>, <<>>)}, y \in {Mapping, Leaf("codec")}}
    \cup {Node(op, <<>>, <<>>, Cases(x, y)) : op \in {"switch", "group_by"},
            x \in {Mapping, Leaf("codec")}, y \in {Leaf("noop"), Leaf("unarchive")}}
    \cup {Branch(q, r, <<x>>) : q \in {0, 1}, r \in {0, 1}, x \in {Mapping, Leaf("codec"), Leaf("unarchive")}}
    \cup {Node("workflow", <<>>, <<Branch(q, 1, <<x>>), Branch(1, r, <<Mapping>>)>>, <<>>) :
            q \in {0, 1}, r \in {0, 1}, x \in {Mapping, Leaf("codec")}}
Befores == {Mapping, Leaf("unarchive"), Node("split", <<2>>, <<>>, <<>>), Node("dedupe", <<1>>, <<>>, <<>>)}
Trees ==
    {<<x>> : x \in Leaves \cup Nodes} \cup {<<x, y>> : x \in Befores, y \in Nodes}
        \cup {<<Node("try", <<>>, <<x, Mapping>>, <<>>)>> : x \in Nodes}
P == INSTANCE Processors WITH Programs <- Trees, MaxBatch <- 2,
                              Tags <- {"good", "bad", "drop", "boom", "array", "empty", "cut", "sour"}

(* Outputs.  A policy of two messages over an output that takes one write at a   *)
(* time; in "late" three transactions of one message.                            *)
B == INSTANCE BatchedOutput WITH chosen <- (part = "batched"), Shapes <- <<<<1, 1>>, <<1>>, <<2>>>>,
        Count <- 2, Floor <- 2, InnerLimit <- 1, Period <- TRUE, Faults <- 1
D == INSTANCE BatchedOutput WITH chosen <- (part = "late"), Shapes <- <<<<1>>, <<1>>, <<1>>>>,
        Count <- 2, Floor <- 2, InnerLimit <- 1, Period <- TRUE, Faults <- 1

AllPatterns == {"fan_out", "fan_out_fail_fast", "fan_out_sequential", "fan_out_sequential_fail_fast",
                "round_robin", "greedy", "fallback", "switch", "switch_retry"}

(* Two children, one of which parks its first write, or both of which wait for   *)
(* more; a switch whose first case continues and whose last message matches no   *)
(* case, and one that routes messages to either case.                            *)
K == INSTANCE OutputBroker WITH chosen <- (part = "broker"), Patterns <- AllPatterns, Needs <- <<1, 2>>,
        Matches <- <<<<{1}, {1, 2}>>, <<{2}>>, <<{}>>>>, Continues <- {1}, StrictMode <- FALSE, Faults <- 2
J == INSTANCE OutputBroker WITH chosen <- (part = "brokers"), Patterns <- AllPatterns, Needs <- <<2, 3>>,
        Matches <- <<<<{1}>>, <<{2}>>, <<{2}>>, <<{1}>>>>, Continues <- {}, StrictMode <- TRUE, Faults <- 1
H == INSTANCE HttpServerOutput WITH chosen <- (part = "http_server"), Batches <- {"x", "y"},
        Clients <- {"c", "d"}
C == INSTANCE NetOutput WITH Kind <- "http_client", Sizes <- <<2, 1, 1>>, Retries <- 1, InFlight <- 2,
                             MaxDials <- 4
W == INSTANCE NetOutput WITH Kind <- "websocket", Sizes <- <<2, 1, 1>>, Retries <- 1, InFlight <- 2,
                             MaxDials <- 4
X == INSTANCE NetOutput WITH Kind <- "socket", Sizes <- <<2, 1, 1>>, Retries <- 1, InFlight <- 2,
                             MaxDials <- 4

(* Two sends, to a topic that exists and to one that does not; only the first    *)
(* record of the second has a key.  In "resend" one send of keyless records.     *)
Topic == [s1 |-> "t1", s2 |-> "t2"]
Home  == [s1 |-> <<-1, -1>>, s2 |-> <<0, -1>>]
O == INSTANCE KafkaProducer WITH chosen <- (part = "producer"), Sends <- {"s1", "s2"}, Existing <- {"t1"},
        NRecs <- 2, NPartitions <- 2, NBrokers <- 2, MaxRetries <- 4, AckModes <- {"all", "none"},
        MaxMoves <- 1, MaxFaults <- 1
E == INSTANCE KafkaProducer WITH chosen <- (part = "resend"), Sends <- {"s1"}, Existing <- {"t1"},
        Topic <- [s1 |-> "t1"], Home <- [s1 |-> <<-1, -1>>], NRecs <- 2, NPartitions <- 3, NBrokers <- 2,
        MaxRetries <- 2, AckModes <- {"all"}, MaxMoves <- 1, MaxFaults <- 0

(* One thread for two shards; each opens its output twice and writes once.       *)
TwoShards == <<"s", "t">>
N == INSTANCE StdoutWriter WITH chosen <- (part = "stdout"), Shards <- {"s", "t"}, Size <- 2,
        MaxWrites <- 1, MaxOpens <- 2, Overlap <- FALSE

ASSUME
    /\ R!RateLimitAssumption /\ B!OutputAssumption /\ D!OutputAssumption /\ K!BrokerAssumption /\ J!BrokerAssumption
    /\ O!ProducerAssumption /\ E!ProducerAssumption /\ N!StdoutAssumption

\* What is not of the part at hand stays Off.
Only(parts_, off) == IF part \in parts_ THEN TRUE ELSE off

MCInit ==
    /\ part \in Parts /\ Init
    /\ \/ part = "split"
       \/ part = "scanners" /\ S!Init
       \/ part = "tar" /\ T!Init
       \/ part = "memory" /\ M!Init
       \/ part = "lru" /\ L!Init
       \/ part = "file" /\ F!Init
       \/ part = "limit" /\ R!Init
       \/ part = "tree" /\ P!Init
       \/ part = "batched" /\ B!Init
       \/ part = "late" /\ D!Init
       \/ part = "broker" /\ K!Init
       \/ part = "brokers" /\ J!Init
       \/ part = "http_server" /\ H!Init
       \/ part = "http_client" /\ C!Init
       \/ part = "websocket" /\ W!Init
       \/ part = "socket" /\ X!Init
       \/ part = "producer" /\ O!Init
       \/ part = "resend" /\ E!Init
       \/ part = "stdout" /\ N!Init
    /\ Only({"scanners", "tar"}, kind = Off /\ text = Off /\ fed = Off /\ scanner = Off
            /\ phase = Off)
    /\ Only({"scanners", "tar", "stdout"}, out = Off)
    /\ Only({"memory", "lru", "file", "limit"}, now = Off)
    /\ Only({"memory", "lru", "file"}, entries = Off /\ swept = Off /\ order = Off
            /\ files = Off /\ news = Off)
    /\ Only({"memory", "lru", "file", "producer", "resend"}, asked = Off)
    /\ Only({"limit"}, bucket = Off /\ opened = Off /\ grants = Off)
    /\ Only({"tree"}, program = Off /\ given = Off /\ done = Off)
    /\ Only({"batched", "late", "broker", "brokers"}, loop = Off /\ taken = Off /\ outcome = Off)
    /\ Only({"batched", "late"}, shaping = Off /\ issued = Off /\ waiting = Off /\ parts = Off
            /\ late = Off /\ armed = Off /\ flushes = Off /\ verdict = Off /\ landed = Off)
    /\ Only({"batched", "late", "http_client", "websocket", "socket"}, closed = Off)
    /\ Only({"batched", "late", "broker", "brokers", "producer", "resend"}, faults = Off)
    /\ Only({"broker", "brokers"}, pattern = Off /\ call = Off /\ next = Off /\ free = Off
            /\ drained = Off)
    /\ Only({"broker", "brokers", "http_client", "websocket", "socket"}, aborted = Off)
    /\ Only({"broker", "brokers", "producer", "resend"}, stored = Off)
    /\ Only({"http_server", "http_client", "websocket", "socket"}, write = Off)
    /\ Only({"http_server", "stdout"}, queue = Off)
    /\ Only({"http_server"}, client = Off /\ has = Off /\ dead = Off /\ gone = Off
            /\ reached = Off /\ lost = Off /\ draining = Off /\ closer = Off /\ overdue = Off)
    /\ Only({"http_client", "websocket", "socket"}, msg = Off /\ accepted = Off /\ link = Off
            /\ pumps = Off /\ dials = Off)
    /\ Only({"http_client", "websocket", "socket", "producer", "resend"}, attempt = Off)
    /\ Only({"producer", "resend"}, acks = Off /\ tries = Off /\ layout = Off /\ route = Off
            /\ left = Off /\ cursor = Off /\ known = Off /\ cached = Off /\ exists = Off
            /\ leader = Off /\ moves = Off)
    /\ Only({"producer", "resend", "stdout"}, pc = Off)
    /\ Only({"stdout"}, refs = Off /\ running = Off /\ handle = Off /\ thread = Off
            /\ hand = Off /\ open = Off /\ opens = Off /\ writes = Off /\ joins = Off
            /\ posted = Off /\ told = Off)

MCNext ==
    /\ UNCHANGED part
    /\ \/ part = "split" /\ Next
       \/ part = "scanners" /\ S!Next
       \/ part = "tar" /\ T!Next
       \/ part = "memory" /\ M!Next
       \/ part = "lru" /\ L!Next
       \/ part = "file" /\ F!Next
       \/ part = "limit" /\ R!Next
       \/ part = "tree" /\ P!Next
       \/ part = "batched" /\ B!Next
       \/ part = "late" /\ D!Next
       \/ part = "broker" /\ K!Next
       \/ part = "brokers" /\ J!Next
       \/ part = "http_server" /\ H!Next
       \/ part = "http_client" /\ C!Next
       \/ part = "websocket" /\ W!Next
       \/ part = "socket" /\ X!Next
       \/ part = "producer" /\ O!Next
       \/ part = "resend" /\ E!Next
       \/ part = "stdout" /\ N!Next
    /\ Only({"split"}, UNCHANGED vars)
    /\ Only({"scanners", "tar"}, UNCHANGED <<kind, text, fed, scanner, phase>>)
    /\ Only({"scanners", "tar", "stdout"}, UNCHANGED out)
    /\ Only({"memory", "lru", "file", "limit"}, UNCHANGED now)
    /\ Only({"memory", "lru", "file"}, UNCHANGED <<entries, swept, order, files, news>>)
    /\ Only({"memory", "lru", "file", "producer", "resend"}, UNCHANGED asked)
    /\ Only({"limit"}, UNCHANGED <<bucket, opened, grants>>)
    /\ Only({"tree"}, UNCHANGED <<program, given, done>>)
    /\ Only({"batched", "late", "broker", "brokers"}, UNCHANGED <<loop, taken, outcome>>)
    /\ Only({"batched", "late"}, UNCHANGED <<shaping, issued, waiting, parts, late, armed,
            flushes, verdict, landed>>)
    /\ Only({"batched", "late", "http_client", "websocket", "socket"}, UNCHANGED closed)
    /\ Only({"batched", "late", "broker", "brokers", "producer", "resend"}, UNCHANGED faults)
    /\ Only({"broker", "brokers"}, UNCHANGED <<pattern, call, next, free, drained>>)
    /\ Only({"broker", "brokers", "http_client", "websocket", "socket"}, UNCHANGED aborted)
    /\ Only({"broker", "brokers", "producer", "resend"}, UNCHANGED stored)
    /\ Only({"http_server", "http_client", "websocket", "socket"}, UNCHANGED write)
    /\ Only({"http_server", "stdout"}, UNCHANGED queue)
    /\ Only({"http_server"}, UNCHANGED <<client, has, dead, gone, reached, lost, draining,
            closer, overdue>>)
    /\ Only({"http_client", "websocket", "socket"}, UNCHANGED <<msg, accepted, link, pumps,
            dials>>)
    /\ Only({"http_client", "websocket", "socket", "producer", "resend"}, UNCHANGED attempt)
    /\ Only({"producer", "resend"}, UNCHANGED <<acks, tries, layout, route, left, cursor,
            known, cached, exists, leader, moves>>)
    /\ Only({"producer", "resend", "stdout"}, UNCHANGED pc)
    /\ Only({"stdout"}, UNCHANGED <<refs, running, handle, thread, hand, open, opens, writes,
            joins, posted, told>>)

MCvars == <<part, vars, kind, text, fed, scanner, out, phase, now, entries, swept, order, files,
          asked, news, bucket, opened, grants, program, given, done, loop, taken, shaping,
          issued, outcome, waiting, parts, late, armed, closed, flushes, verdict, landed,
          faults, pattern, call, next, free, drained, aborted, stored, write, queue, client,
          has, dead, gone, reached, lost, draining, closer, overdue, msg, attempt, accepted,
          link, pumps, dials, acks, pc, tries, layout, route, left, cursor, known, cached,
          exists, leader, moves, refs, running, handle, thread, hand, open, opens, writes,
          joins, posted, told>>

MCSpec ==
    /\ MCInit /\ [][MCNext]_MCvars
    /\ B!Fairness /\ D!Fairness /\ K!Fairness /\ J!Fairness /\ H!Fairness /\ O!Fairness
    /\ E!Fairness /\ N!Fairness
-----------------------------------------------------------------------------
\* An acked transaction is where the output it was given to had to put it: every
\* message of it stored by the inner output of a batching one, delivered in the
\* sense of a broker's pattern, sent to a client, accepted by a server, or in a
\* partition's log or on stdout; and a healthy cluster takes every record.
AckMeansOut ==
    CASE part = "batched"     -> B!AckMeansLanded
      [] part = "late"        -> D!AckMeansLanded
      [] part = "broker"      -> K!AckMeansDelivered
      [] part = "brokers"     -> J!AckMeansDelivered
      [] part = "http_server" -> H!AckMeansSent
      [] part = "http_client" -> C!AckMeansAccepted
      [] part = "producer"    -> O!AckedIsStored /\ O!HealthyClusterDelivers
      [] part = "resend"      -> E!AckedIsStored
      [] part = "stdout"      -> N!ToldIsTrue
      [] OTHER                -> TRUE

\* No writer is forgotten: a write that waits has one flush or client that will
\* answer it, a greedy broker keeps its children, a websocket connection has
\* exactly one frame loop, and the thread of stdout one owner for every batch.
NobodyForgotten ==
    CASE part = "batched"     -> B!NoWaiterLost
      [] part = "broker"      -> K!NoChildLost
      [] part = "brokers"     -> J!NoChildLost
      [] part = "http_server" -> H!NoOfferForgotten
      [] part = "websocket"   -> W!OnePump
      [] part = "socket"      -> X!OnePump
      [] part = "stdout"      -> N!NoRequestLost /\ N!NeverMixed
      [] OTHER                -> TRUE

Call == <<<<1, 1>>, <<1, 2>>, <<2, 1>>, <<3, 1>>>>
Send == <<"s1", "s2">>

\* Writes come to an end: one parked in a batching output before the drain is
\* answered, a drain releases what http_server offers, a Kafka send returns, and so
\* does a write to stdout or the shard that ends its thread.  A broker's limit stops
\* the output fiber for good in one case only: all the writes in flight are parked
\* in children that wait for more of them, and the broker is not a parallel fan-out,
\* or a forced stop has cut its retries short (Starved).
WritesEnd ==
    \A i \in 1 .. 4 :
        (CASE part = "batched"     -> B!Parked(Call[i])
           [] part = "broker"      -> i = 1 /\ K!Running
           [] part = "brokers"     -> i = 1 /\ J!Running
           [] part = "http_server" -> i = 1 /\ draining
           [] part = "producer"    -> i <= 2 /\ ~O!Returned(Send[i])
           [] part = "stdout"      -> i <= 2 /\ N!Busy(TwoShards[i])
           [] OTHER                -> FALSE)
        ~>
        (CASE part = "batched"     -> B!Answered(Call[i])
           [] part = "broker"      -> ~K!Running \/ K!Starved
           [] part = "brokers"     -> ~J!Running \/ J!Starved
           [] part = "http_server" -> H!Released
           [] part = "producer"    -> i > 2 \/ O!Returned(Send[i])
           [] part = "stdout"      -> i > 2 \/ ~N!Busy(TwoShards[i])
           [] OTHER                -> TRUE)

\* How a stream of bytes falls into chunks does not show in its messages.
ChunkingInvisible ==
    CASE part = "scanners" -> S!ChunkingInvisible
      [] part = "tar"      -> T!EveryEntryIsRead
      [] OTHER             -> TRUE

\* No message vanishes in a tree of processors unless it was filtered or unarchived
\* to nothing, steady ones keep the order, and a workflow's record is true.
TreeKeepsMessages == part = "tree" => P!TreeKeepsMessages

\* A cache forgets a key for a reason, and a rate limit grants at most twice its
\* count in any interval, over all shards together.
LimitsHold ==
    CASE part = "memory" -> M!ForgottenForAReason
      [] part = "lru"    -> L!ForgottenForAReason
      [] part = "file"   -> F!ForgottenForAReason
      [] part = "limit"  -> R!AtMostTwoWindows
      [] OTHER           -> TRUE
-----------------------------------------------------------------------------
\* outputs.cc on the closed gate: declining the flush of a write that arrives after
\* drain() "parked its waiter for ever", so every write is answered in the end.
EveryWriteIsAnswered == D!EveryWriteIsAnswered

\* producer.cc: "a retry reproduces the same layout": no record is on two partitions.
ResentInPlace == part = "resend" => E!ResentInPlace
=============================================================================
