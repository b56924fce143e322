------------------------- MODULE HttpServerOutput -------------------------
(***************************************************************************)
(* The http_server output: write_batch offers its batch through a          *)
(* rendezvous and waits until a client took it.  A GET takes one batch and *)
(* acks it when the reply is built; a streaming client takes batch after   *)
(* batch and acks each when it is written.  A client may die at any point, *)
(* which the server learns later, if at all.                               *)
(***************************************************************************)
EXTENDS Rendezvous, Naturals, Sequences, FiniteSets

CONSTANTS
    Batches,   \* batches the stream writes, any number at once (max_in_flight 64)
    Clients    \* clients, each a GET or a streaming request

NoBatch == "no batch"

VARIABLES
    write,     \* what became of each write_batch
    queue,     \* _queue
    client,    \* where each client's handler is
    has,       \* the batch a handler has taken
    dead,      \* external: clients that went away
    gone,      \* client_gone of a connection was aborted
    reached,   \* external: batches some live client was sent
    lost,      \* external: batches sent to a client that was dead
    draining,  \* the drain's abort source, whose subscription is release_all()
    closer, overdue

VARIABLE chosen  \* rigid: a run composes several components, and this is the one at hand

vars == <<write, queue, client, has, dead, gone, reached, lost, draining, closer, overdue>>

Init ==
    /\ write = [b \in Batches |-> "away"] /\ queue = Open
    /\ client = [c \in Clients |-> "away"] /\ has = [c \in Clients |-> NoBatch]
    /\ dead = {} /\ gone = {} /\ reached = {} /\ lost = {} /\ draining = FALSE /\ closer = "none"
    /\ overdue = FALSE

Outcome(bs, v) == [b \in Batches |-> IF b \in bs THEN v ELSE write[b]]
Move(c, where) == client' = [client EXCEPT ![c] = where]
-----------------------------------------------------------------------------
\* write_batch(): push, then wait for the promise.
Write(b) ==
    /\ write[b] = "away" /\ closer = "none" /\ write' = Outcome({b}, "push")
    /\ UNCHANGED <<queue, client, has, dead, gone, reached, lost, draining, closer, overdue>>

Offer(b) ==
    /\ write[b] = "push"
    /\ \/ MayPush(queue) /\ queue' = Pushed(queue, b) /\ write' = Outcome({b}, "wait")
       \/ queue.closed /\ write' = Outcome({b}, "nack") /\ UNCHANGED queue
    /\ UNCHANGED <<client, has, dead, gone, reached, lost, draining, closer, overdue>>
-----------------------------------------------------------------------------
\* A client asks.  do_get runs in the gate; do_stream leaves it at once, for the
\* body is written after the handler returned.  A wrong verb is answered 405.
Ask(c) ==
    /\ client[c] = "away" /\ closer # "stopped"
    /\ \/ closer = "none" /\ (Move(c, "get") \/ Move(c, "stream"))
       \/ Move(c, "refused")
    /\ UNCHANGED <<write, queue, has, dead, gone, reached, lost, draining, closer, overdue>>

\* A pop that timed out took nothing.
TimedOut(c) == PopWaits(queue) /\ UNCHANGED queue

\* One batch: resolved when the reply is in the connection's write buffer.
Get(c) ==
    /\ client[c] = "get"
    /\ \/ MayPop(queue) /\ queue' = Popped(queue) /\ has' = [has EXCEPT ![c] = First(queue)]
          /\ write' = Outcome({First(queue)}, "ack") /\ Move(c, "reply")
       \/ TimedOut(c) /\ Move(c, "left") /\ UNCHANGED <<write, has>>
       \/ queue.closed /\ Move(c, "left") /\ UNCHANGED <<write, queue, has>>
    /\ UNCHANGED <<dead, gone, reached, lost, draining, closer, overdue>>

Sent(c) ==
    /\ reached' = IF c \in dead THEN reached ELSE reached \cup {has[c]}
    /\ lost' = IF c \in dead THEN lost \cup {has[c]} ELSE lost

\* External: the reply reaches the socket.
Flush(c) ==
    /\ client[c] = "reply" /\ closer # "stopped" /\ Move(c, "left") /\ Sent(c)
    /\ UNCHANGED <<write, queue, has, dead, gone, draining, closer, overdue>>

\* The streaming loop takes a batch, unless it knows that its client is gone.
Take(c) ==
    /\ client[c] = "stream"
    /\ \/ MayPop(queue) /\ c \notin gone /\ queue' = Popped(queue)
          /\ has' = [has EXCEPT ![c] = First(queue)] /\ Move(c, "writing")
       \/ (c \in gone \/ queue.closed) /\ Move(c, "left") /\ UNCHANGED <<queue, has>>
    /\ UNCHANGED <<write, dead, gone, reached, lost, draining, closer, overdue>>

\* The write and flush succeed, also into a socket whose peer is gone.
Wrote(c) ==
    /\ client[c] = "writing" /\ closer # "stopped" /\ Move(c, "stream") /\ Sent(c)
    /\ write' = Outcome({has[c]}, "ack")
    /\ UNCHANGED <<queue, has, dead, gone, draining, closer, overdue>>

NackFailed(c) == write' = Outcome({has[c]}, "nack")

\* They fail: the batch is nacked and the stream ended.
WriteFails(c) ==
    /\ client[c] = "writing" /\ (c \in dead \/ closer = "stopped") /\ Move(c, "left")
    /\ NackFailed(c)
    /\ UNCHANGED <<queue, has, dead, gone, reached, lost, draining, closer, overdue>>

\* External: a client dies; httpd may see the end of its read side.
Dies(c) ==
    /\ client[c] \in {"get", "stream", "writing", "reply"} /\ c \notin dead /\ dead' = dead \cup {c}
    /\ UNCHANGED <<write, queue, client, has, gone, reached, lost, draining, closer, overdue>>

Noticed(c) ==
    /\ c \in dead \ gone /\ gone' = gone \cup {c}
    /\ UNCHANGED <<write, queue, client, has, dead, reached, lost, draining, closer, overdue>>
-----------------------------------------------------------------------------
ReleaseAll == queue' = Shut(queue) /\ write' = Outcome(Leftover(queue), "nack")

Drain ==
    /\ ~draining /\ closer = "none" /\ draining' = TRUE /\ ReleaseAll
    /\ UNCHANGED <<client, has, dead, gone, reached, lost, closer, overdue>>

\* close(), called once no write is under way: rendezvous, gate, connections.
Close ==
    /\ closer = "none" /\ closer' = "gate" /\ ReleaseAll
    /\ \A b \in Batches : write[b] \notin {"push", "wait"}
    /\ UNCHANGED <<client, has, dead, gone, reached, lost, draining, overdue>>

HandlersGone ==
    /\ closer = "gate" /\ \A c \in Clients : client[c] # "get" /\ closer' = "drain"
    /\ UNCHANGED <<write, queue, client, has, dead, gone, reached, lost, draining, overdue>>

BudgetSpent ==
    /\ closer = "drain" /\ ~overdue /\ overdue' = TRUE
    /\ UNCHANGED <<write, queue, client, has, dead, gone, reached, lost, draining, closer>>

Connected == \E c \in Clients : client[c] \in {"reply", "stream", "writing"}

\* stop() shuts the connections down and waits for their fibers.
Stop ==
    /\ closer = "drain" /\ (overdue \/ ~Connected) /\ closer' = "stopped"
    /\ client' = [c \in Clients |-> IF client[c] = "reply" THEN "cut" ELSE client[c]]
    /\ UNCHANGED <<write, queue, has, dead, gone, reached, lost, draining, overdue>>

Handler(c) == Get(c) \/ Take(c) \/ WriteFails(c)
Server     == Close \/ HandlersGone \/ BudgetSpent \/ Stop

Next ==
    \/ \E b \in Batches : Write(b) \/ Offer(b)
    \/ \E c \in Clients : Ask(c) \/ Handler(c) \/ Flush(c) \/ Wrote(c) \/ Dies(c) \/ Noticed(c)
    \/ Drain \/ Server

Spec == Init /\ [][Next]_vars

\* The server's fibers run; clients need not read.
Fairness ==
    /\ \A b \in Batches : WF_vars(chosen /\ Offer(b))
    /\ \A c \in Clients : WF_vars(chosen /\ Handler(c))
    /\ WF_vars(chosen /\ Server)
-----------------------------------------------------------------------------
Taken == {has[c] : c \in {d \in Clients : client[d] = "writing"}}

\* Every write that waits is one a client can still take or is being sent, by one
\* client only: neither a timed-out GET nor a shutdown swallows its batch.
NoOfferForgotten ==
    /\ \A b \in Batches : write[b] = "wait" => b \in Leftover(queue) \cup Taken
    /\ Leftover(queue) \cap Taken = {}
    /\ \A c, d \in Clients : c # d /\ has[c] = has[d] => has[c] = NoBatch

\* An acked batch reached a live client, is about to, or went down the connection
\* of one that had died unnoticed; the server is not stopped over it within the budget.
AckMeansSent ==
    \A b \in Batches : write[b] = "ack" =>
        b \in reached \cup lost \/ \E c \in Clients :
            has[c] = b /\ (client[c] = "reply" \/ (client[c] = "cut" /\ overdue))

\* No write waits but one a client has taken and does not read.
Released == \A b \in Batches : write[b] \notin {"push", "wait"} \/ b \in Taken
=============================================================================
