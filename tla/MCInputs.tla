------------------------------ MODULE MCInputs ------------------------------
(* The inputs and their wrappers for TLC, one at a time: `part` says which one *)
(* a behaviour is of, and the variables of the others stay Off.                *)
EXTENDS Integers, Sequences, FiniteSets

CONSTANTS
    Off, None,
    Faults,                            \* of the wrappers' sources
    RetryBatches, MaxNacks,            \* of AutoRetry
    Sizes,                             \* under BrokerInput and ProcessedInput
    Fed, Count,                        \* of BatchedInput, its source's sizes first
    Offered, Limit,                    \* of BufferedInput, its source's sizes first
    Children,                          \* of BrokerInput
    Requests, MaxParts,                \* of HttpServerInput
    Conns, Total, Peer,             \* of SocketInput
    MaxRetries, MaxMessages, MaxDials, \* of WebsocketInput
    Retries, MaxBodies,                \* of HttpClientInput
    Kinds, Ends, BatchSize, MaxChunk   \* of SequenceInput

VARIABLES
    part,
    pc, queue, adopted, ready, readErr, reading, done, attempts, held, aborted, pipeline,
    nread, answer, read, landed, faults, filler, pending, assembly, kids, parts, late,
    srcDone, group, out, hand, parked, taken, bytes, flag, reads, work, req, status, body,
    store, reader, closer, overdue, conn, framed, eof, got, listening, loop, dials, retries,
    half, pump, consumer, inbox, sent, attempt, at, child, cut, failed, dropped

R == INSTANCE AutoRetry WITH
    chosen <- (part = "retry"), NBatches <- RetryBatches
B == INSTANCE BatchedInput WITH
    chosen <- (part = "batched"), Sizes <- Fed, Period <- TRUE
U == INSTANCE BufferedInput WITH
    chosen <- (part \in {"buffered", "unbatched"}), batching <- (part = "buffered"),
    Sizes <- Offered, Period <- TRUE
K == INSTANCE BrokerInput WITH
    chosen <- (part = "broker")
P == INSTANCE ProcessedInput WITH
    chosen <- (part = "processed")
H == INSTANCE HttpServerInput WITH
    chosen <- (part = "http_server")
S == INSTANCE SocketInput WITH
    chosen <- (part = "socket_server"), Server <- TRUE
T == INSTANCE SocketInput WITH
    chosen <- (part = "socket"), Conns <- {Peer}, Server <- FALSE,
    Total <- [c \in {Peer} |-> Total[c]]
W == INSTANCE WebsocketInput WITH
    chosen <- (part = "websocket")
C == INSTANCE HttpClientInput WITH
    chosen <- (part = "poll"), Streaming <- FALSE, Reconnect <- FALSE, DropEmpty <- TRUE,
    MaxMessages <- MaxBodies
D == INSTANCE HttpClientInput WITH
    chosen <- (part = "stream"), Streaming <- TRUE, Reconnect <- TRUE, DropEmpty <- TRUE,
    MaxMessages <- MaxBodies
E == INSTANCE HttpClientInput WITH
    chosen <- (part = "once"), Streaming <- TRUE, Reconnect <- FALSE, DropEmpty <- FALSE,
    MaxMessages <- MaxBodies
Q == INSTANCE SequenceInput WITH
    chosen <- (part = "sequence")

\* What TLC takes: three batches, for the policy and the buffer also an empty one and
\* for the buffer one too large, three messages of each peer, four sources in a row.
ThreeBatches == <<3, 1, 2>>
FedBatches   == <<3, 0, 2>>
Offers       == <<3, 5, 0, 2>>
ThreeEach    == [c \in {"a", "b"} |-> 3]
FourKinds    == <<"file", "generate", "stdin", "file">>
FourEnds     == <<<<2, 3>>, <<1, 2>>, <<1, 3>>, <<>>>>

ASSUME InputsAssumption ==
    /\ R!RetryAssumption /\ B!InputAssumption /\ B!PolicyAssumption /\ U!InputAssumption
    /\ U!BufferAssumption /\ K!InputAssumption /\ K!BrokerAssumption
    /\ P!InputAssumption /\ S!SocketAssumption /\ T!SocketAssumption
    /\ W!WebsocketAssumption /\ Q!SequenceAssumption

\* What is not of the part at hand stays Off.
Only(parts_, off) == IF part \in parts_ THEN TRUE ELSE off

Init ==
    /\ \/ part = "retry" /\ R!Init
       \/ part = "batched" /\ B!Init
       \/ part \in {"buffered", "unbatched"} /\ U!Init
       \/ part = "broker" /\ K!Init
       \/ part = "processed" /\ P!Init
       \/ part = "http_server" /\ H!Init
       \/ part = "socket_server" /\ S!Init
       \/ part = "socket" /\ T!Init
       \/ part = "websocket" /\ W!Init
       \/ part = "poll" /\ C!Init
       \/ part = "stream" /\ D!Init
       \/ part = "once" /\ E!Init
       \/ part = "sequence" /\ Q!Init
    /\ Only({"retry", "batched", "buffered", "unbatched", "broker", "processed", "sequence"},
            pc = Off)
    /\ Only({"retry", "http_server", "socket_server", "socket", "websocket", "poll", "stream",
            "once"}, queue = Off)
    /\ Only({"retry"}, adopted = Off /\ readErr = Off /\ reading = Off /\ attempts = Off
            /\ nread = Off)
    /\ Only({"retry", "buffered", "unbatched", "broker", "processed", "socket_server",
            "socket", "sequence"}, ready = Off)
    /\ Only({"retry", "broker", "http_server"}, done = Off)
    /\ Only({"retry", "http_server"}, held = Off)
    /\ Only({"retry", "batched", "buffered", "unbatched", "broker", "processed"},
            pipeline = Off /\ answer = Off)
    /\ Only({"batched", "buffered", "unbatched", "broker", "processed"}, read = Off
            /\ landed = Off /\ faults = Off)
    /\ Only({"batched", "buffered", "unbatched"}, filler = Off /\ parts = Off /\ late = Off
            /\ srcDone = Off)
    /\ Only({"batched"}, pending = Off /\ assembly = Off /\ kids = Off)
    /\ Only({"batched", "processed"}, group = Off)
    /\ Only({"batched", "sequence"}, out = Off)
    /\ Only({"buffered", "unbatched"}, hand = Off /\ taken = Off /\ bytes = Off /\ flag = Off
            /\ dropped = Off)
    /\ Only({"buffered", "unbatched", "http_server"}, parked = Off)
    /\ Only({"broker"}, reads = Off)
    /\ Only({"processed"}, work = Off)
    /\ Only({"http_server"}, req = Off /\ status = Off /\ body = Off /\ store = Off
            /\ overdue = Off)
    /\ Only({"http_server", "socket_server", "socket", "websocket", "poll", "stream", "once"},
            reader = Off /\ closer = Off)
    /\ Only({"socket_server", "socket", "websocket"}, conn = Off)
    /\ Only({"socket_server", "socket", "poll", "stream", "once"}, framed = Off /\ got = Off)
    /\ Only({"socket_server", "socket", "sequence"}, eof = Off)
    /\ Only({"socket_server", "socket"}, listening = Off)
    /\ Only({"websocket", "poll", "stream", "once"}, loop = Off /\ sent = Off)
    /\ Only({"websocket"}, dials = Off /\ retries = Off /\ pump = Off /\ consumer = Off
            /\ inbox = Off)
    /\ Only({"websocket", "sequence"}, half = Off)
    /\ Only({"poll", "stream", "once"}, attempt = Off)
    /\ Only({"sequence"}, at = Off /\ child = Off /\ cut = Off /\ failed = Off)

Next ==
    /\ UNCHANGED part
    /\ \/ part = "retry" /\ R!Next
       \/ part = "batched" /\ B!Next
       \/ part \in {"buffered", "unbatched"} /\ U!Next
       \/ part = "broker" /\ K!Next
       \/ part = "processed" /\ P!Next
       \/ part = "http_server" /\ H!Next
       \/ part = "socket_server" /\ S!Next
       \/ part = "socket" /\ T!Next
       \/ part = "websocket" /\ W!Next
       \/ part = "poll" /\ C!Next
       \/ part = "stream" /\ D!Next
       \/ part = "once" /\ E!Next
       \/ part = "sequence" /\ Q!Next
    /\ Only({"retry", "batched", "buffered", "unbatched", "broker", "processed", "sequence"},
            UNCHANGED pc)
    /\ Only({"retry", "http_server", "socket_server", "socket", "websocket", "poll", "stream",
            "once"}, UNCHANGED queue)
    /\ Only({"retry"}, UNCHANGED <<adopted, readErr, reading, attempts, nread>>)
    /\ Only({"retry", "buffered", "unbatched", "broker", "processed", "socket_server",
            "socket", "sequence"}, UNCHANGED ready)
    /\ Only({"retry", "broker", "http_server"}, UNCHANGED done)
    /\ Only({"retry", "http_server"}, UNCHANGED held)
    /\ Only({"retry", "batched", "buffered", "unbatched", "broker", "processed"},
            UNCHANGED <<pipeline, answer>>)
    /\ Only({"batched", "buffered", "unbatched", "broker", "processed"}, UNCHANGED <<read,
            landed, faults>>)
    /\ Only({"batched", "buffered", "unbatched"}, UNCHANGED <<filler, parts, late, srcDone>>)
    /\ Only({"batched"}, UNCHANGED <<pending, assembly, kids>>)
    /\ Only({"batched", "processed"}, UNCHANGED group)
    /\ Only({"batched", "sequence"}, UNCHANGED out)
    /\ Only({"buffered", "unbatched"}, UNCHANGED <<hand, taken, bytes, flag, dropped>>)
    /\ Only({"buffered", "unbatched", "http_server"}, UNCHANGED parked)
    /\ Only({"broker"}, UNCHANGED reads)
    /\ Only({"processed"}, UNCHANGED work)
    /\ Only({"http_server"}, UNCHANGED <<req, status, body, store, overdue>>)
    /\ Only({"http_server", "socket_server", "socket", "websocket", "poll", "stream", "once"},
            UNCHANGED <<reader, closer>>)
    /\ Only({"socket_server", "socket", "websocket"}, UNCHANGED conn)
    /\ Only({"socket_server", "socket", "poll", "stream", "once"}, UNCHANGED <<framed, got>>)
    /\ Only({"socket_server", "socket", "sequence"}, UNCHANGED eof)
    /\ Only({"socket_server", "socket"}, UNCHANGED listening)
    /\ Only({"websocket", "poll", "stream", "once"}, UNCHANGED <<loop, sent>>)
    /\ Only({"websocket"}, UNCHANGED <<dials, retries, pump, consumer, inbox>>)
    /\ Only({"websocket", "sequence"}, UNCHANGED half)
    /\ Only({"poll", "stream", "once"}, UNCHANGED attempt)
    /\ Only({"sequence"}, UNCHANGED <<at, child, cut, failed>>)

vars == <<part, pc, queue, adopted, ready, readErr, reading, done, attempts, held, aborted,
          pipeline, nread, answer, read, landed, faults, filler, pending, assembly, kids,
          parts, late, srcDone, group, out, hand, parked, taken, bytes, flag, reads, work,
          req, status, body, store, reader, closer, overdue, conn, framed, eof, got,
          listening, loop, dials, retries, half, pump, consumer, inbox, sent, attempt, at,
          child, cut, failed, dropped>>

Spec ==
    /\ Init /\ [][Next]_vars
    /\ R!Fairness /\ B!Fairness /\ U!Fairness /\ K!Fairness /\ P!Fairness
    /\ H!Fairness /\ S!Fairness /\ T!Fairness /\ W!Fairness /\ C!Fairness /\ D!Fairness
    /\ E!Fairness /\ Q!Fairness
-----------------------------------------------------------------------------
\* No batch, request or message an input has taken in is forgotten: it is kept
\* where an answer can still reach it, in one place and in order; and a sequence of
\* sources hands out each message once, in order, with one source open.  A stop
\* forgets, without an answer, what the retry wrapper still has to replay (its queue
\* and the batch of an aborted backoff), what a closed broker had parked, and the
\* pieces that processed_input parked of a batch it split.
NothingOrphaned ==
    CASE part = "retry"         -> R!KeptUntilAnswered
      [] part = "batched"       -> B!NothingOrphaned
      [] part \in {"buffered", "unbatched"} -> U!NothingSlipsOut
      [] part = "broker"        -> K!NothingOrphaned
      [] part = "processed"     -> P!NothingOrphaned
      [] part = "http_server"   -> H!NoHandlerForgotten
      [] part = "socket_server" -> S!NothingLostInOrder
      [] part = "socket"        -> T!NothingLostInOrder
      [] part = "sequence"      -> Q!InOrder /\ Q!OneOpen
      [] OTHER                  -> TRUE

\* The source, or the client of http_server, is told once and told the truth; the
\* buffer, which answers at its door, counts what it took.
AnsweredRightly ==
    CASE part = "batched"     -> B!AnsweredRightly
      [] part \in {"buffered", "unbatched"} -> U!RoomIsCounted
      [] part = "broker"      -> K!AnsweredRightly
      [] part = "processed"   -> P!AnsweredRightly
      [] part = "http_server" -> H!ReplyIsTrue
      [] OTHER                -> TRUE

\* An input that ends by itself has delivered all it had, and a network input
\* ends only when it is told to or its configuration says so.
EndIsTrue ==
    CASE part = "retry"     -> R!EndMeansDelivered
      [] part = "broker"    -> K!EndMeansHandedOut
      [] part = "websocket" -> W!GivesUpInARow
      [] part = "poll"      -> C!EndsOnlyWhenTold
      [] part = "stream"    -> D!EndsOnlyWhenTold
      [] part = "once"      -> E!EndsOnlyWhenTold
      [] part = "sequence"  -> Q!EndIsTrue
      [] OTHER              -> TRUE

\* A nacked batch is offered again even while the read of the source is stuck.
NackedIsReplayed == R!NackedIsReplayed

\* What the retry wrapper has read is answered while the source and the pipeline
\* go on: no wake-up is lost.
ReadIsDelivered == R!ReadIsDelivered

\* The end of the source flushes what a batching policy or a buffer still holds.
LeftoverFlushed ==
    (part \in {"batched", "buffered", "unbatched"} /\ srcDone) ~>
        IF part = "batched" THEN B!NothingHeldBack ELSE U!NothingHeldBack

\* A drain ends every input wherever it is, and so does the end of a response, but
\* for what DrainOver names in these modules: a read of stdin blocks for as long as
\* nobody types, a peer holds up http_server or a socket with a half of a request or
\* message, and the peer of a late dial keeps a websocket open.
DrainEnds ==
    (aborted \/ (part = "stream" /\ D!Finished) \/ (part = "once" /\ E!Finished)) ~>
        CASE part = "retry"         -> R!DrainOver
          [] part = "batched"       -> B!DrainOver
          [] part \in {"buffered", "unbatched"} -> U!DrainOver
          [] part = "broker"        -> K!DrainOver
          [] part = "processed"     -> P!DrainOver
          [] part = "http_server"   -> H!DrainOver
          [] part = "socket_server" -> S!DrainOver
          [] part = "socket"        -> T!DrainOver
          [] part = "websocket"     -> W!DrainOver
          [] part = "poll"          -> C!DrainOver
          [] part = "stream"        -> D!DrainOver
          [] part = "once"          -> E!DrainOver
          [] part = "sequence"      -> Q!DrainOver
=============================================================================
