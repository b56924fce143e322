-------------------------- MODULE WebsocketInput --------------------------
(***************************************************************************)
(* The websocket input: a loop that dials, runs the connection's frame     *)
(* loop (pump) and the consumer of its messages side by side, tears the    *)
(* connection down when both have ended, and reconnects.  close() may come *)
(* at any point of it and uses the same connection.                        *)
(***************************************************************************)
EXTENDS Rendezvous, Integers, Sequences

CONSTANTS
    MaxRetries,  \* connection.max_retries; below zero is unlimited
    MaxMessages, \* bound: messages the peer sends
    MaxDials     \* bound: dials

WebsocketAssumption == MaxRetries \in Int

VARIABLES
    loop,      \* where read_loop is
    dials,     \* dials so far; the latest made the connection at hand
    retries,   \* _retries
    conn,      \* _conn is set
    half,      \* _half_close of the connection: somebody runs or ran finish()
    pump,      \* whether its frame loop runs
    consumer,  \* where consume() is: "off", "read", "push"
    inbox,     \* frames decoded and not read yet
    sent,      \* external: messages the peer has sent
    queue,     \* _queue
    reader, aborted,
    closer     \* where close() is

VARIABLE chosen  \* rigid: a run composes several components, and this is the one at hand

connVars == <<conn, half, pump, consumer, inbox>>
vars == <<loop, dials, retries, connVars, sent, queue, reader, aborted, closer>>

Oversize == 0   \* a message above max_message_size

Init ==
    /\ loop = "check" /\ dials = 0 /\ retries = 0 /\ conn = FALSE /\ half = FALSE
    /\ pump = FALSE /\ consumer = "off" /\ inbox = <<>> /\ sent = 0 /\ queue = Open
    /\ reader = "idle" /\ aborted = FALSE /\ closer = "none"

Over == aborted \/ queue.closed
-----------------------------------------------------------------------------
Check ==
    /\ loop = "check" /\ loop' = IF Over THEN "out" ELSE "dial"
    /\ UNCHANGED <<dials, retries, connVars, sent, queue, reader, aborted, closer>>

\* The peer answered: the count of consecutive retries starts again, and frame
\* loop and consumer start, whatever happened during the dial.
Dialled ==
    /\ loop = "dial" /\ dials < MaxDials /\ dials' = dials + 1 /\ retries' = 0
    /\ conn' = TRUE /\ half' = FALSE /\ pump' = TRUE /\ consumer' = "read" /\ inbox' = <<>>
    /\ loop' = "run"
    /\ UNCHANGED <<sent, queue, reader, aborted, closer>>

\* The dial failed, or the opening message could not be sent.
DialFails ==
    /\ loop = "dial" /\ dials < MaxDials /\ dials' = dials + 1
    /\ \/ conn' = FALSE /\ UNCHANGED <<retries, half>>
       \/ conn' = TRUE /\ half' = FALSE /\ retries' = 0
    /\ loop' = IF Over THEN "out" ELSE "finish"
    /\ UNCHANGED <<pump, consumer, inbox, sent, queue, reader, aborted, closer>>

\* when_all: both have ended.
BothEnded == ~pump /\ consumer = "off"

Disconnected ==
    /\ loop = "run" /\ BothEnded /\ loop' = "finish"
    /\ UNCHANGED <<dials, retries, connVars, sent, queue, reader, aborted, closer>>

\* finish() starts, or returns at once because somebody else is in it.
Finish ==
    /\ loop = "finish" /\ half' = (half \/ conn)
    /\ loop' = IF conn /\ ~half THEN "flush" ELSE "reset"
    /\ UNCHANGED <<dials, retries, conn, pump, consumer, inbox, sent, queue, reader, aborted, closer>>

Flushed ==
    /\ loop = "flush" /\ loop' = "reset" /\ pump' = FALSE
    /\ UNCHANGED <<dials, retries, conn, half, consumer, inbox, sent, queue, reader, aborted, closer>>

\* The connection is destroyed.
Reset ==
    /\ loop = "reset" /\ loop' = IF Over THEN "out" ELSE "retry"
    /\ conn' = FALSE
    /\ UNCHANGED <<dials, retries, half, pump, consumer, inbox, sent, queue, reader, aborted, closer>>

GiveUp == MaxRetries >= 0 /\ retries + 1 > MaxRetries

Retry ==
    /\ loop = "retry" /\ loop' = IF GiveUp THEN "out" ELSE "sleep"
    /\ retries' = IF MaxRetries >= 0 THEN retries + 1 ELSE retries
    /\ UNCHANGED <<dials, connVars, sent, queue, reader, aborted, closer>>

\* The wait between two dials, which an abort ends.
Sleep ==
    /\ loop = "sleep" /\ loop' = IF aborted THEN "out" ELSE "check"
    /\ UNCHANGED <<dials, retries, connVars, sent, queue, reader, aborted, closer>>

\* The loop ends and releases the reader.
Out ==
    /\ loop = "out" /\ loop' = "ended" /\ queue' = Shut(queue)
    /\ UNCHANGED <<dials, retries, connVars, sent, reader, aborted, closer>>
-----------------------------------------------------------------------------
\* External: the peer sends a message, or goes away.
PeerSends(m) ==
    /\ pump /\ sent < MaxMessages /\ Len(inbox) < 1
    /\ sent' = sent + 1 /\ inbox' = Append(inbox, IF m = Oversize THEN Oversize ELSE sent + 1)
    /\ UNCHANGED <<loop, dials, retries, conn, half, pump, consumer, queue, reader, aborted, closer>>

PeerCloses ==
    /\ pump /\ pump' = FALSE
    /\ UNCHANGED <<loop, dials, retries, conn, half, consumer, inbox, sent, queue, reader, aborted, closer>>

\* consume() reads the next message; the end of the connection and a message that
\* is too large both end it.
Consume ==
    /\ consumer = "read" /\ (inbox # <<>> \/ ~pump)
    /\ consumer' = IF inbox = <<>> \/ Head(inbox) = Oversize THEN "off" ELSE "push"
    /\ inbox' = IF inbox # <<>> /\ Head(inbox) = Oversize THEN Tail(inbox) ELSE inbox
    /\ UNCHANGED <<loop, dials, retries, conn, half, pump, sent, queue, reader, aborted, closer>>

Push ==
    /\ consumer = "push" /\ inbox' = Tail(inbox)
    /\ \/ MayPush(queue) /\ queue' = Pushed(queue, Head(inbox)) /\ consumer' = "read"
       \/ queue.closed /\ consumer' = "off" /\ UNCHANGED queue
    /\ UNCHANGED <<loop, dials, retries, conn, half, pump, sent, reader, aborted, closer>>
-----------------------------------------------------------------------------
Read ==
    /\ reader = "idle" /\ reader' = IF aborted THEN "ended" ELSE "pop"
    /\ UNCHANGED <<loop, dials, retries, connVars, sent, queue, aborted, closer>>

Pop ==
    /\ reader = "pop"
    /\ \/ MayPop(queue) /\ queue' = Popped(queue) /\ reader' = "idle"
       \/ queue.closed /\ reader' = "ended" /\ UNCHANGED queue
    /\ UNCHANGED <<loop, dials, retries, connVars, sent, aborted, closer>>

\* The abort source's subscription closes the rendezvous.
Abort ==
    /\ ~aborted /\ reader # "ended" /\ aborted' = TRUE /\ queue' = Shut(queue)
    /\ UNCHANGED <<loop, dials, retries, connVars, sent, reader, closer>>

\* close(): the rendezvous, the connection if there is one, then the gate.
Close ==
    /\ reader = "ended" /\ closer = "none" /\ queue' = Shut(queue)
    /\ closer' = IF conn /\ ~half THEN "finish" ELSE "gate"
    /\ half' = (half \/ conn)
    /\ UNCHANGED <<loop, dials, retries, conn, pump, consumer, inbox, sent, reader, aborted>>

CloseFlushed ==
    /\ closer = "finish" /\ closer' = "gate" /\ pump' = FALSE
    /\ UNCHANGED <<loop, dials, retries, conn, half, consumer, inbox, sent, queue, reader, aborted>>

Closed ==
    /\ closer = "gate" /\ loop = "ended" /\ closer' = "closed" /\ conn' = FALSE
    /\ UNCHANGED <<loop, dials, retries, half, pump, consumer, inbox, sent, queue, reader, aborted>>

Loop     == Check \/ Disconnected \/ Finish \/ Flushed \/ Reset \/ Retry \/ Sleep \/ Out
Consumer == Consume \/ Push
Reader   == Read \/ Pop
Closing  == Close \/ CloseFlushed \/ Closed

Next ==
    \/ Loop \/ Dialled \/ DialFails \/ Consumer \/ Reader \/ Closing \/ Abort
    \/ PeerCloses \/ \E m \in {Oversize, 1} : PeerSends(m)

Spec == Init /\ [][Next]_vars

\* The input's own fibers; a dial ends one way or the other, the peer may be silent.
Fairness ==
    /\ WF_vars(chosen /\ Loop) /\ WF_vars(chosen /\ (Dialled \/ DialFails)) /\ WF_vars(chosen /\ Consumer)
    /\ WF_vars(chosen /\ Reader) /\ WF_vars(chosen /\ Closing)
-----------------------------------------------------------------------------
\* The input gives up only after max_retries dials in a row failed: one that had
\* a connection since keeps trying.
GivesUpInARow ==
    loop = "ended" /\ ~aborted => MaxRetries >= 0 /\ retries > MaxRetries /\ dials > MaxRetries

\* A drain has ended, or a dial was answered after close() had found no connection
\* to close, and its peer keeps the new one open; dials are bounded.
DrainOver ==
    \/ closer = "closed"
    \/ closer = "gate" /\ loop = "run" /\ pump
    \/ loop = "dial" /\ dials = MaxDials
=============================================================================
