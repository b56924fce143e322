-------------------------- MODULE HttpServerInput --------------------------
(***************************************************************************)
(* The http_server input.  A request's handler turns the body into a batch *)
(* and offers it to the one reader through a rendezvous, waits for the     *)
(* pipeline to answer the batch, and builds the reply from the answer and  *)
(* from what a sync_response output stored.  Either wait may time out.     *)
(* close() has to end all of this without losing a reply that is due.      *)
(***************************************************************************)
EXTENDS Rendezvous, Naturals, Sequences, FiniteSets

CONSTANTS
    Requests,   \* requests, each on a connection of its own
    MaxParts    \* bound: messages the pipeline stores in answer to one request

VARIABLES
    req,        \* what became of each request: its handler's place, then its reply's
    status,     \* the status of the reply
    body,       \* how many messages the reply is made of
    done,       \* in_flight::done of the request's batch
    store,      \* messages in the request's response_store
    queue,      \* _queue
    reader,     \* the stream's input fiber
    held,       \* external: batches the pipeline has
    aborted,    \* the abort source, whose subscription is release_all()
    closer,     \* how far close() has come
    parked,     \* external: a client keeps an idle connection open
    overdue     \* close() has spent its drain_budget

VARIABLE chosen  \* rigid: a run composes several components, and this is the one at hand

handlers == <<req, status, body>>
vars == <<handlers, done, store, queue, reader, held, aborted, closer, parked, overdue>>

Init ==
    /\ req = [r \in Requests |-> "away"] /\ status = [r \in Requests |-> 0]
    /\ body = [r \in Requests |-> 0] /\ done = [r \in Requests |-> "none"]
    /\ store = [r \in Requests |-> 0] /\ queue = Open /\ reader = "idle" /\ held = {}
    /\ aborted = FALSE /\ closer = "none" /\ parked \in BOOLEAN /\ overdue = FALSE

\* Handlers the gate holds.
Inside == {"body", "push", "wait"}

Goes(r, where) == req' = [req EXCEPT ![r] = where] /\ UNCHANGED <<status, body>>

Replies(r, s, n) ==
    /\ req' = [req EXCEPT ![r] = "replied"]
    /\ status' = [status EXCEPT ![r] = s] /\ body' = [body EXCEPT ![r] = n]

\* What the request's head alone decides, in the order it is looked at: 405 for
\* the verb, 404 for the path, 429 when the rate limit has no permit.
Refusals == {405, 404, 429}

\* A request arrives.  Once close() has begun to close the gate it is refused.
Handle(r) ==
    /\ req[r] = "away" /\ closer # "stopped"
    /\ \/ closer = "none" /\ Goes(r, "body")
       \/ closer = "none" /\ \E s \in Refusals : Replies(r, s, 0)
       \/ closer # "none" /\ Replies(r, 503, 0)
    /\ UNCHANGED <<done, store, queue, reader, held, aborted, closer, parked, overdue>>

\* The body is there: 400 for a malformed multipart one, 200 at once for one of
\* no parts, otherwise a batch to be offered.
ReadBody(r) ==
    /\ req[r] = "body"
    /\ Goes(r, "push") \/ Replies(r, 400, 0) \/ Replies(r, 200, 0)
    /\ UNCHANGED <<done, store, queue, reader, held, aborted, closer, parked, overdue>>

Enqueue(r) ==
    /\ req[r] = "push"
    /\ \/ MayPush(queue) /\ Goes(r, "wait") /\ queue' = Pushed(queue, r)
       \/ queue.closed /\ Replies(r, 503, 0) /\ UNCHANGED queue
       \/ PushWaits(queue) /\ Replies(r, 408, 0) /\ UNCHANGED queue
    /\ UNCHANGED <<done, store, reader, held, aborted, closer, parked, overdue>>

\* The ack of the batch: the first answer counts.
Resolved(rs, e) == [r \in Requests |-> IF r \in rs /\ done[r] = "none" THEN e ELSE done[r]]

\* The handler's wait ends: 500 for a nack, otherwise what the store holds, under
\* the configured status; an empty store is a bare 200.
Answered(r) ==
    /\ req[r] = "wait" /\ done[r] # "none"
    /\ IF done[r] = "nack" THEN Replies(r, 500, 0)
       ELSE Replies(r, IF store[r] = 0 THEN 200 ELSE 201, store[r])
    /\ UNCHANGED <<done, store, queue, reader, held, aborted, closer, parked, overdue>>

TimesOut(r) ==
    /\ req[r] = "wait" /\ done[r] = "none" /\ Replies(r, 408, 0)
    /\ UNCHANGED <<done, store, queue, reader, held, aborted, closer, parked, overdue>>

\* External: the connection's write buffer reaches the socket.
Flush(r) ==
    /\ req[r] = "replied" /\ closer # "stopped" /\ Goes(r, "told")
    /\ UNCHANGED <<done, store, queue, reader, held, aborted, closer, parked, overdue>>
-----------------------------------------------------------------------------
\* The stream's input fiber in read_batch().
Read ==
    /\ reader = "idle" /\ reader' = IF aborted THEN "ended" ELSE "pop"
    /\ UNCHANGED <<handlers, done, store, queue, held, aborted, closer, parked, overdue>>

Pop ==
    /\ reader = "pop"
    /\ \/ MayPop(queue) /\ held' = held \cup {First(queue)} /\ queue' = Popped(queue)
          /\ reader' = "idle"
       \/ queue.closed /\ reader' = "ended" /\ UNCHANGED <<held, queue>>
    /\ UNCHANGED <<handlers, done, store, aborted, closer, parked, overdue>>

\* A sync_response output adds a message to the request's store.
SyncResponse(r) ==
    /\ r \in held /\ store[r] < MaxParts /\ store' = [store EXCEPT ![r] = @ + 1]
    /\ UNCHANGED <<handlers, done, queue, reader, held, aborted, closer, parked, overdue>>

\* External: the pipeline acks or nacks, perhaps after the handler gave up.
Answer(r, e) ==
    /\ r \in held /\ held' = held \ {r} /\ done' = Resolved({r}, e)
    /\ UNCHANGED <<handlers, store, queue, reader, aborted, closer, parked, overdue>>
-----------------------------------------------------------------------------
\* release_all(): the rendezvous is closed and what it held is nacked.
ReleaseAll == queue' = Shut(queue) /\ done' = Resolved(Leftover(queue), "nack")

Abort ==
    /\ ~aborted /\ closer = "none" /\ aborted' = TRUE /\ ReleaseAll
    /\ UNCHANGED <<handlers, store, reader, held, closer, parked, overdue>>

\* close(), called once the input fiber has ended: the rendezvous is closed
\* first, then the gate, and only then is the server stopped.
Close ==
    /\ reader = "ended" /\ closer = "none" /\ closer' = "gate" /\ ReleaseAll
    /\ UNCHANGED <<handlers, store, reader, held, aborted, parked, overdue>>

HandlersGone ==
    /\ closer = "gate" /\ \A r \in Requests : req[r] \notin Inside
    /\ closer' = "drain"
    /\ UNCHANGED <<handlers, done, store, queue, reader, held, aborted, parked, overdue>>

Connected == parked \/ \E r \in Requests : req[r] = "replied"

BudgetSpent ==
    /\ closer = "drain" /\ ~overdue /\ overdue' = TRUE
    /\ UNCHANGED <<handlers, done, store, queue, reader, held, aborted, closer, parked>>

\* current_connections() is zero, or the budget is spent.
MayStop == overdue \/ ~Connected

\* http_server::stop() shuts every connection down, written out or not.
Stop ==
    /\ closer = "drain" /\ MayStop /\ closer' = "stopped"
    /\ req' = [r \in Requests |-> IF req[r] = "replied" THEN "cut" ELSE req[r]]
    /\ UNCHANGED <<status, body, done, store, queue, reader, held, aborted, parked, overdue>>

Handler(r) == Enqueue(r) \/ Answered(r) \/ TimesOut(r)
Server     == HandlersGone \/ BudgetSpent \/ Stop

Next ==
    \/ \E r \in Requests : Handle(r) \/ ReadBody(r) \/ Handler(r) \/ Flush(r) \/ SyncResponse(r)
                           \/ \E e \in {"ack", "nack"} : Answer(r, e)
    \/ Read \/ Pop \/ Abort \/ Close \/ Server

Spec == Init /\ [][Next]_vars

\* Fibers run and timers fire; nothing is assumed of the clients, who need not
\* even send the body they announced, or of the pipeline.
Fairness ==
    /\ \A r \in Requests : WF_vars(chosen /\ Handler(r))
    /\ WF_vars(chosen /\ Read) /\ WF_vars(chosen /\ Pop) /\ WF_vars(chosen /\ Close) /\ WF_vars(chosen /\ Server)
-----------------------------------------------------------------------------
\* A handler that waits for its batch's answer has a batch somebody will answer:
\* it is in the rendezvous or with the pipeline, or the answer is there, as it is
\* for what a shutdown takes out of the rendezvous.
NoHandlerForgotten ==
    \A r \in Requests :
        req[r] = "wait" => r \in Leftover(queue) \cup held \/ done[r] # "none"

\* The client of a batch the pipeline answered in time is told that answer, and
\* all that was stored for it, unless it stalls past the drain budget: the server
\* is not stopped over a reply that is due.
ReplyIsTrue ==
    \A r \in Requests :
        /\ status[r] = 500 => done[r] = "nack"
        /\ status[r] = 201 => done[r] = "ack" /\ body[r] = store[r]
        /\ req[r] = "cut" => overdue

\* A drain has ended, whatever clients and pipeline do, or its close waits for a
\* client that leaves the body of its request unfinished.
DrainOver == closer = "stopped" \/ (closer # "none" /\ \E r \in Requests : req[r] = "body")
=============================================================================
