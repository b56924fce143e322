---------------------------- MODULE SocketInput ----------------------------
(***************************************************************************)
(* The socket and the socket_server inputs.  Both frame a connection's     *)
(* bytes with a scanner (framed_connection).  socket_server has a fiber    *)
(* per connection, which offers each message through a rendezvous of depth *)
(* one; socket reads the one connection it dialled in read_batch itself.   *)
(***************************************************************************)
EXTENDS Rendezvous, Naturals, Sequences, FiniteSets

CONSTANTS
    Conns,    \* connections
    Total,    \* messages each peer sends before it closes
    Server    \* socket_server if TRUE, socket if FALSE

SocketAssumption ==
    /\ Total \in [Conns -> Nat] /\ Server \in BOOLEAN
    /\ Server \/ Cardinality(Conns) = 1

VARIABLES
    conn,       \* where the fiber that reads each connection is
    framed,     \* messages of each connection the scanner has handed over
    ready,      \* framed_connection::_ready
    eof,        \* _eof
    queue,      \* _queue of pairs connection, number
    reader,     \* the stream's input fiber
    got,        \* what the stream was handed, per connection
    listening,  \* _listening
    aborted, closer

VARIABLE chosen  \* rigid: a run composes several components, and this is the one at hand

connVars == <<conn, framed, ready, eof>>
vars == <<connVars, queue, reader, got, listening, aborted, closer>>

Init ==
    /\ conn = [c \in Conns |-> IF Server THEN "away" ELSE "idle"]
    /\ framed = [c \in Conns |-> 0] /\ ready = [c \in Conns |-> <<>>]
    /\ eof = [c \in Conns |-> FALSE] /\ queue = Open /\ reader = "idle"
    /\ got = [c \in Conns |-> <<>>] /\ listening = TRUE /\ aborted = FALSE /\ closer = "none"

Move(c, where) == conn' = [conn EXCEPT ![c] = where]

\* accept_loop() starts a fiber in the gate for a connection.
Accept(c) ==
    /\ Server /\ listening /\ conn[c] = "away" /\ Move(c, "next")
    /\ UNCHANGED <<framed, ready, eof, queue, reader, got, listening, aborted, closer>>

Numbered(c, n) == [i \in 1 .. n |-> framed[c] + i]

\* next() has nothing ready and reads on: a chunk arrives that completes any
\* number of messages, or the peer closes, and the scanner's finish() hands over
\* a last message that had no delimiter.
Arrives(c) ==
    /\ conn[c] = "next" /\ ready[c] = <<>> /\ ~eof[c]
    /\ \E n \in 0 .. 2 :
        /\ framed[c] + n <= Total[c]
        /\ ready' = [ready EXCEPT ![c] = Numbered(c, n)]
        /\ framed' = [framed EXCEPT ![c] = @ + n]
        /\ \/ n > 0 /\ UNCHANGED eof
           \/ n < 2 /\ framed[c] + n = Total[c] /\ eof' = [eof EXCEPT ![c] = TRUE]
    /\ UNCHANGED <<conn, queue, reader, got, listening, aborted, closer>>

\* next() answers nullopt only when the peer closed and nothing is left.
Drained(c) == eof[c] /\ ready[c] = <<>>

Hand(c, m) == got' = [got EXCEPT ![c] = Append(@, m)]

\* serve(): one message at a time into the rendezvous, until the connection or
\* the rendezvous ends.
Serve(c) ==
    /\ Server /\ conn[c] = "next"
    /\ \/ Drained(c) /\ Move(c, "closed") /\ UNCHANGED ready
       \/ ~Drained(c) /\ ready[c] # <<>> /\ Move(c, "push") /\ UNCHANGED ready
    /\ UNCHANGED <<framed, eof, queue, reader, got, listening, aborted, closer>>

Offer(c) ==
    /\ conn[c] = "push" /\ ready' = [ready EXCEPT ![c] = Tail(@)]
    /\ \/ MayPush(queue) /\ queue' = Pushed(queue, <<c, Head(ready[c])>>) /\ Move(c, "next")
       \/ queue.closed /\ Move(c, "closed") /\ UNCHANGED queue
    /\ UNCHANGED <<framed, eof, reader, got, listening, aborted, closer>>

\* External: the connection breaks under a read.
Breaks(c) ==
    /\ conn[c] = "next" /\ ready[c] = <<>> /\ ~eof[c] /\ Move(c, IF Server THEN "closed" ELSE "broken")
    /\ UNCHANGED <<framed, ready, eof, queue, reader, got, listening, aborted, closer>>
-----------------------------------------------------------------------------
\* read_batch() of socket_server.
Read ==
    /\ Server /\ reader = "idle" /\ reader' = IF aborted THEN "ended" ELSE "pop"
    /\ UNCHANGED <<connVars, queue, got, listening, aborted, closer>>

Pop ==
    /\ reader = "pop"
    /\ \/ MayPop(queue) /\ Hand(First(queue)[1], First(queue)[2]) /\ queue' = Popped(queue)
          /\ reader' = "idle"
       \/ queue.closed /\ reader' = "ended" /\ UNCHANGED <<queue, got>>
    /\ UNCHANGED <<connVars, listening, aborted, closer>>

\* read_batch() of socket, which waits in next().
ReadDirect(c) ==
    /\ ~Server /\ reader = "idle"
    /\ IF aborted THEN reader' = "ended" /\ UNCHANGED conn ELSE reader' = "next" /\ Move(c, "next")
    /\ UNCHANGED <<framed, ready, eof, queue, got, listening, aborted, closer>>

NextDirect(c) ==
    /\ ~Server /\ reader = "next"
    /\ \/ conn[c] = "broken" /\ reader' = "ended" /\ UNCHANGED <<got, ready, conn>>
       \/ /\ conn[c] = "next" /\ Move(c, "idle")
          /\ \/ Drained(c) /\ reader' = "ended" /\ UNCHANGED <<got, ready>>
             \/ /\ ~Drained(c) /\ ready[c] # <<>> /\ Hand(c, Head(ready[c]))
                /\ ready' = [ready EXCEPT ![c] = Tail(@)] /\ reader' = "idle"
    /\ UNCHANGED <<framed, eof, queue, listening, aborted, closer>>
-----------------------------------------------------------------------------
StopAccepting ==
    /\ listening' = FALSE
    /\ queue' = IF Server /\ listening THEN Shut(queue) ELSE queue

\* The abort source: socket_server subscribes to it, socket does not.
Abort ==
    /\ ~aborted /\ reader # "ended" /\ aborted' = TRUE
    /\ IF Server THEN StopAccepting ELSE UNCHANGED <<listening, queue>>
    /\ UNCHANGED <<connVars, reader, got, closer>>

Close ==
    /\ reader = "ended" /\ closer = "none" /\ closer' = "gate" /\ StopAccepting
    /\ UNCHANGED <<connVars, reader, got, aborted>>

\* close() waits for the gate that holds the connections' fibers.
Closed ==
    /\ closer = "gate" /\ closer' = "closed"
    /\ Server => \A c \in Conns : conn[c] \in {"away", "closed"}
    /\ UNCHANGED <<connVars, queue, reader, got, listening, aborted>>

Fiber(c) == Serve(c) \/ Offer(c)
Reader   == Read \/ Pop \/ \E c \in Conns : ReadDirect(c) \/ NextDirect(c)

Next ==
    \/ \E c \in Conns : Accept(c) \/ Arrives(c) \/ Fiber(c) \/ Breaks(c)
    \/ Reader \/ Abort \/ Close \/ Closed

Spec == Init /\ [][Next]_vars

\* Nothing is assumed of the peers.
Fairness ==
    /\ \A c \in Conns : WF_vars(chosen /\ Fiber(c))
    /\ WF_vars(chosen /\ Reader) /\ WF_vars(chosen /\ Close) /\ WF_vars(chosen /\ Closed)
-----------------------------------------------------------------------------
\* What the rendezvous, of depth one, holds of a connection.
Queued(c) == IF queue.items # <<>> /\ First(queue)[1] = c THEN <<First(queue)[2]>> ELSE <<>>

\* However the chunks and the fibers fall, until a shutdown discards what is
\* buffered every framed message of a connection reaches the stream once and in
\* order; a peer that closed has left nothing behind, undelimited tail included.
NothingLostInOrder ==
    \A c \in Conns :
        /\ ~queue.closed => got[c] \o Queued(c) \o ready[c] = [i \in 1 .. framed[c] |-> i]
        /\ ~queue.closed /\ eof[c] => framed[c] = Total[c]
        /\ Server /\ conn[c] = "closed" /\ eof[c] /\ ~queue.closed => ready[c] = <<>>
        /\ ~Server /\ eof[c] /\ reader = "ended" /\ ~aborted => got[c] = [i \in 1 .. Total[c] |-> i]

\* A drain has ended, or a peer that neither sends nor closes holds it up: the close
\* of a server, which waits for its connections, or the read of a client.
DrainOver ==
    \/ closer = "closed"
    \/ /\ Server => closer = "gate"
       /\ \E c \in Conns : conn[c] = "next" /\ ready[c] = <<>> /\ ~eof[c]
=============================================================================
