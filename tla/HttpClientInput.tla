-------------------------- MODULE HttpClientInput --------------------------
(***************************************************************************)
(* The http_client input.  Polling makes a request per read_batch and goes *)
(* on asking through failures and empty bodies.  Streaming keeps one long  *)
(* request open, frames its body with a scanner and offers each message    *)
(* through a rendezvous; when the response ends it reconnects or ends.     *)
(***************************************************************************)
EXTENDS Rendezvous, Naturals, Sequences

CONSTANTS
    Streaming,   \* stream.enabled
    Reconnect,   \* stream.reconnect
    DropEmpty,   \* drop_empty_bodies
    Retries,     \* retries
    MaxMessages  \* bound: messages the server sends

VARIABLES
    reader,    \* the stream's input fiber, in polling also in the request
    attempt,   \* attempt of the request
    loop,      \* where stream_loop is
    framed,    \* messages the scanner handed over that emit() still has
    sent,      \* external: messages the server has sent
    got,       \* messages the stream was handed
    queue, aborted, closer

VARIABLE chosen  \* rigid: a run composes several components, and this is the one at hand

vars == <<reader, attempt, loop, framed, sent, got, queue, aborted, closer>>

Init ==
    /\ reader = "idle" /\ attempt = 0 /\ loop = (IF Streaming THEN "permit" ELSE "ended")
    /\ framed = <<>> /\ sent = 0 /\ got = <<>> /\ queue = Open /\ aborted = FALSE
    /\ closer = "none"

Read ==
    /\ reader = "idle"
    /\ reader' = IF aborted THEN "ended" ELSE IF Streaming THEN "pop" ELSE "permit"
    /\ attempt' = 0
    /\ UNCHANGED <<loop, framed, sent, got, queue, aborted, closer>>

\* request_once(): a permit of the rate limit before every attempt.
Permit ==
    /\ reader = "permit" /\ reader' = IF aborted THEN "ended" ELSE "request"
    /\ UNCHANGED <<attempt, loop, framed, sent, got, queue, aborted, closer>>

\* A body is a message, also an empty one unless drop_empty_bodies is set: then
\* the input waits and asks again.
Answered ==
    /\ reader = "request"
    /\ \/ sent < MaxMessages /\ sent' = sent + 1 /\ got' = Append(got, sent + 1) /\ reader' = "idle"
       \/ DropEmpty /\ reader' = "again" /\ UNCHANGED <<sent, got>>
       \/ ~DropEmpty /\ sent < MaxMessages /\ reader' = "idle" /\ UNCHANGED <<sent, got>>
    /\ UNCHANGED <<attempt, loop, framed, queue, aborted, closer>>

\* A request that failed every attempt is asked for again after a wait.
AfterFailure == IF aborted THEN "ended" ELSE "again"

RequestFails ==
    /\ reader = "request"
    /\ reader' = IF attempt >= Retries \/ aborted THEN AfterFailure ELSE "sleep"
    /\ UNCHANGED <<attempt, loop, framed, sent, got, queue, aborted, closer>>

\* The ladder's wait, and the poll's, which an abort cuts short.
Sleep ==
    /\ reader \in {"sleep", "again"}
    /\ reader' = IF aborted THEN "ended" ELSE "permit"
    /\ attempt' = IF reader = "again" THEN 0 ELSE attempt + 1
    /\ UNCHANGED <<loop, framed, sent, got, queue, aborted, closer>>

Pop ==
    /\ reader = "pop"
    /\ \/ MayPop(queue) /\ got' = Append(got, First(queue)) /\ queue' = Popped(queue)
          /\ reader' = "idle"
       \/ queue.closed /\ reader' = "ended" /\ UNCHANGED <<got, queue>>
    /\ UNCHANGED <<attempt, loop, framed, sent, aborted, closer>>
-----------------------------------------------------------------------------
StreamPermit ==
    /\ loop = "permit" /\ loop' = IF aborted THEN "out" ELSE "body"
    /\ UNCHANGED <<reader, attempt, framed, sent, got, queue, aborted, closer>>

\* External: a chunk arrives that completes some messages.
Chunk(n) ==
    /\ loop = "body" /\ framed = <<>> /\ sent + n <= MaxMessages
    /\ framed' = [i \in 1 .. n |-> sent + i] /\ sent' = sent + n
    /\ UNCHANGED <<reader, attempt, loop, got, queue, aborted, closer>>

\* emit() waits for room; once the rendezvous is closed it throws, which ends the
\* response and with it what was framed.
Emit ==
    /\ loop = "body" /\ framed # <<>>
    /\ \/ MayPush(queue) /\ queue' = Pushed(queue, Head(framed)) /\ framed' = Tail(framed)
          /\ UNCHANGED loop
       \/ queue.closed /\ framed' = <<>> /\ loop' = "over" /\ UNCHANGED queue
    /\ UNCHANGED <<reader, attempt, sent, got, aborted, closer>>

\* The response ends or breaks, by itself or because make_request was aborted.
BodyEnds ==
    /\ loop = "body" /\ framed = <<>> /\ loop' = "over"
    /\ UNCHANGED <<reader, attempt, framed, sent, got, queue, aborted, closer>>

Over ==
    /\ loop = "over" /\ loop' = IF ~Reconnect \/ aborted THEN "out" ELSE "permit"
    /\ UNCHANGED <<reader, attempt, framed, sent, got, queue, aborted, closer>>

ReleaseReader == queue' = Shut(queue)

Out ==
    /\ loop = "out" /\ loop' = "ended" /\ ReleaseReader
    /\ UNCHANGED <<reader, attempt, framed, sent, got, aborted, closer>>
-----------------------------------------------------------------------------
Abort ==
    /\ ~aborted /\ reader # "ended" /\ aborted' = TRUE
    /\ queue' = IF Streaming THEN Shut(queue) ELSE queue
    /\ UNCHANGED <<reader, attempt, loop, framed, sent, got, closer>>

Close ==
    /\ reader = "ended" /\ closer = "none" /\ closer' = "gate" /\ queue' = Shut(queue)
    /\ UNCHANGED <<reader, attempt, loop, framed, sent, got, aborted>>

Closed ==
    /\ closer = "gate" /\ loop = "ended" /\ closer' = "closed"
    /\ UNCHANGED <<reader, attempt, loop, framed, sent, got, queue, aborted>>

Reader == Read \/ Permit \/ RequestFails \/ Sleep \/ Pop
Loop   == StreamPermit \/ Emit \/ Over \/ Out

Next ==
    \/ Reader \/ Answered \/ Loop \/ BodyEnds \/ Abort \/ Close \/ Closed
    \/ \E n \in 1 .. 2 : Chunk(n)

Spec == Init /\ [][Next]_vars

\* Requests time out, and an abort breaks a response; a server may otherwise keep
\* its response open and silent.
Fairness ==
    /\ WF_vars(chosen /\ Reader) /\ WF_vars(chosen /\ Loop) /\ WF_vars(chosen /\ aborted /\ BodyEnds)
    /\ WF_vars(chosen /\ Close) /\ WF_vars(chosen /\ Closed)
-----------------------------------------------------------------------------
\* Polling ends only because it is told to, whatever the server answers; streaming
\* only when it is told to or may not reconnect.  Until then nothing is lost and
\* the order kept.
EndsOnlyWhenTold ==
    /\ reader = "ended" => aborted \/ (Streaming /\ ~Reconnect)
    /\ ~queue.closed => got \o queue.items \o framed = [i \in 1 .. sent |-> i]

\* The response ended for good, which must release the reader as a drain does.
Finished == Streaming /\ loop = "ended"

\* A drain has ended, also in the middle of a response that is open and silent.
DrainOver == closer = "closed"
=============================================================================
