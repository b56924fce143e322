----------------------------- MODULE AutoRetry -----------------------------
(***************************************************************************)
(* auto_replay_nacks: the wrapper that keeps a batch until it is delivered *)
(* and offers a nacked one again.  Three parties meet in its shared state: *)
(* the input fiber in read_batch, the one read of the source it keeps in   *)
(* flight, and the acks and nacks of the pipeline, which may outlive the   *)
(* wrapper.  They wake each other through a condition variable that does   *)
(* not remember a broadcast nobody waited for.                             *)
(***************************************************************************)
EXTENDS Integers, Sequences, FiniteSets, Functions

CONSTANTS
    NBatches,  \* batches the source has, numbered in the order it hands them out
    MaxNacks,  \* bound: nacks of one batch
    None       \* no batch

Batches == 1 .. NBatches
FreeRetries == 2    \* replays before the backoff starts

RetryAssumption == {NBatches, MaxNacks} \subseteq Nat /\ None \notin Batches

VARIABLES
    pc,        \* where the input fiber is
    queue,     \* state::queue, nacked batches in the order they came back
    adopted,   \* state::adopted, handed out and not yet delivered
    ready,     \* state::ready
    readErr,   \* state::read_err
    reading,   \* state::reading
    done,      \* state::source_done
    attempts,  \* pending::attempts
    held,      \* the batch of a backoff
    aborted,   \* the stream's drain
    pipeline,  \* external: batches the stream has in hand
    nread,     \* external: how many batches the source has handed out
    answer     \* external: what the source was told of each batch

VARIABLE chosen  \* rigid: a run composes several components, and this is the one at hand

source == <<nread, answer>>
shared == <<queue, adopted, ready, readErr, reading, done, attempts>>
vars   == <<pc, shared, held, aborted, pipeline, source>>

Init ==
    /\ pc = "idle" /\ queue = <<>> /\ adopted = 0 /\ ready = None /\ held = None
    /\ readErr = FALSE /\ reading = FALSE /\ done = FALSE /\ aborted = FALSE
    /\ attempts = [b \in Batches |-> 0] /\ answer = [b \in Batches |-> "none"]
    /\ pipeline = {} /\ nread = 0
-----------------------------------------------------------------------------
\* broadcast(): the fiber goes on if it waits, and nothing is remembered if not.
Woken(p) == IF p = "wait" THEN "called" ELSE p

HandOut(b) == pipeline' = pipeline \cup {b} /\ pc' = "idle"

\* The input fiber's loop: it reads until it is told to drain.
Call ==
    /\ pc = "idle" /\ pc' = IF aborted THEN "ended" ELSE "called"
    /\ UNCHANGED <<shared, held, aborted, pipeline, source>>

Aborted ==
    /\ pc = "called" /\ aborted /\ pc' = "ended"
    /\ UNCHANGED <<shared, held, aborted, pipeline, source>>

\* A retry comes before everything else; the third and later ones are delayed.
Replay ==
    LET b == Head(queue) IN
    /\ pc = "called" /\ ~aborted /\ queue # <<>>
    /\ queue' = Tail(queue) /\ attempts' = [attempts EXCEPT ![b] = @ + 1]
    /\ IF attempts'[b] > FreeRetries
       THEN pc' = "sleep" /\ held' = b /\ UNCHANGED pipeline
       ELSE HandOut(b) /\ UNCHANGED held
    /\ UNCHANGED <<adopted, ready, readErr, reading, done, aborted, source>>

\* The timer may have fired just before the drain.
Slept ==
    /\ pc = "sleep" /\ HandOut(held) /\ held' = None
    /\ UNCHANGED <<shared, aborted, source>>

\* The batch of an aborted backoff is destroyed with its ack_fn, still counted.
SleepAborted ==
    /\ pc = "sleep" /\ aborted /\ pc' = "ended" /\ held' = None
    /\ UNCHANGED <<shared, aborted, pipeline, source>>

TakeReady ==
    /\ pc = "called" /\ ~aborted /\ queue = <<>> /\ ready # None
    /\ HandOut(ready) /\ ready' = None /\ adopted' = adopted + 1
    /\ UNCHANGED <<queue, readErr, reading, done, attempts, held, aborted, source>>

NothingReady == queue = <<>> /\ ready = None

Rethrow ==
    /\ pc = "called" /\ ~aborted /\ NothingReady /\ readErr
    /\ readErr' = FALSE /\ pc' = "ended"
    /\ UNCHANGED <<queue, adopted, ready, reading, done, attempts, held, aborted, pipeline,
                   source>>

\* A slip: the end of the source is passed on while batches are out.
ExhaustedAtEnd == done

\* The end of the source is the end of the input once nothing can come back.
Exhausted == done /\ adopted = 0

End ==
    /\ pc = "called" /\ ~aborted /\ NothingReady /\ ~readErr /\ Exhausted /\ pc' = "ended"
    /\ UNCHANGED <<shared, held, aborted, pipeline, source>>

\* External: what a read of the source brings.
SourceReads ==
    \/ /\ nread < NBatches /\ nread' = nread + 1 /\ ready' = nread + 1
       /\ UNCHANGED <<readErr, done>>
    \/ (nread = NBatches \/ aborted) /\ done' = TRUE /\ UNCHANGED <<nread, ready, readErr>>
    \/ readErr' = TRUE /\ UNCHANGED <<nread, ready, done>>

MustWait == pc = "called" /\ ~aborted /\ NothingReady /\ ~readErr /\ ~Exhausted

\* A slip: the fiber waits without looking again at what start_read brought.
ReadAtOnceMissed ==
    /\ MustWait /\ ~reading /\ ~done /\ SourceReads /\ pc' = "wait"
    /\ UNCHANGED <<queue, adopted, reading, attempts, held, aborted, pipeline, answer>>

\* The read completes before start_read returns, so its broadcast is lost: the
\* fiber looks again before it waits.
ReadAtOnce ==
    /\ MustWait /\ ~reading /\ ~done /\ SourceReads /\ UNCHANGED pc
    /\ UNCHANGED <<queue, adopted, reading, attempts, held, aborted, pipeline, answer>>

\* A read is, or stays, in flight; the fiber waits for it or for a nack.
Wait ==
    /\ MustWait /\ reading' = (reading \/ ~done) /\ pc' = "wait"
    /\ UNCHANGED <<queue, adopted, ready, readErr, done, attempts, held, aborted, pipeline,
                   source>>

ReadCompletes ==
    /\ reading /\ reading' = FALSE /\ SourceReads /\ pc' = Woken(pc)
    /\ UNCHANGED <<queue, adopted, attempts, held, aborted, pipeline, answer>>
-----------------------------------------------------------------------------
(* The ack_fn of a batch that was handed out *)

Tell(b, v) == answer' = [answer EXCEPT ![b] = v]

\* Nobody replays what comes back once the wrapper is closed.
Requeued(b) == IF pc = "closed" THEN queue ELSE Append(queue, b)

\* A slip: nobody is woken.
NackQuietly(b) ==
    /\ b \in pipeline /\ pipeline' = pipeline \ {b} /\ attempts[b] < MaxNacks
    /\ queue' = Requeued(b)
    /\ UNCHANGED <<pc, adopted, ready, readErr, reading, done, attempts, held, aborted, source>>

Nack(b) ==
    /\ b \in pipeline /\ pipeline' = pipeline \ {b} /\ attempts[b] < MaxNacks
    /\ queue' = Requeued(b) /\ pc' = Woken(pc)
    /\ UNCHANGED <<adopted, ready, readErr, reading, done, attempts, held, aborted, source>>

Ack(b) ==
    /\ b \in pipeline /\ pipeline' = pipeline \ {b}
    /\ adopted' = adopted - 1 /\ pc' = Woken(pc) /\ Tell(b, "ack")
    /\ UNCHANGED <<queue, ready, readErr, reading, done, attempts, held, aborted, nread>>
-----------------------------------------------------------------------------
\* A slip: only the loop looks at the drain.
AbortUnheard ==
    /\ ~aborted /\ pc # "closed" /\ aborted' = TRUE
    /\ UNCHANGED <<pc, shared, held, pipeline, source>>

\* The drain breaks the condition variable under a waiting fiber.
Abort ==
    /\ ~aborted /\ pc # "closed" /\ aborted' = TRUE /\ pc' = IF pc = "wait" THEN "ended" ELSE pc
    /\ UNCHANGED <<shared, held, pipeline, source>>

\* close() waits for the read in flight.
CloseBegin ==
    /\ pc = "ended" /\ pc' = "closing"
    /\ UNCHANGED <<shared, held, aborted, pipeline, source>>

\* What that read brought is nacked: nobody will ask for it any more.  What is
\* still owed a replay is dropped, its source never answered.
CloseEnd ==
    /\ pc = "closing" /\ ~reading /\ pc' = "closed" /\ ready' = None /\ queue' = <<>>
    /\ IF ready = None THEN UNCHANGED answer ELSE Tell(ready, "nack")
    /\ UNCHANGED <<adopted, readErr, reading, done, attempts, held, aborted, pipeline,
                   nread>>
-----------------------------------------------------------------------------
Fiber ==
    \/ Call \/ Aborted \/ Replay \/ Slept \/ SleepAborted \/ TakeReady \/ Rethrow \/ End
    \/ ReadAtOnce \/ Wait

Next ==
    \/ Fiber \/ ReadCompletes \/ Abort \/ CloseBegin \/ CloseEnd
    \/ \E b \in Batches : Nack(b) \/ Ack(b)

Spec == Init /\ [][Next]_vars

\* The fiber is scheduled, a read returns once it was aborted, and the stream
\* closes an input that has ended.
Fairness ==
    WF_vars(chosen /\ Fiber) /\ WF_vars(chosen /\ aborted /\ ReadCompletes) /\ WF_vars(chosen /\ (CloseBegin \/ CloseEnd))

\* The source answers its reads, and the pipeline answers what it was given.
Lively ==
    /\ WF_vars(chosen /\ ReadCompletes)
    /\ \A b \in Batches : WF_vars(chosen /\ (Nack(b) \/ Ack(b)))
-----------------------------------------------------------------------------
\* The input fiber has ended.
Over == pc \in {"ended", "closing", "closed"}

\* A batch read of the source is in one place until the source is answered.
Places(b) ==
    {p \in {"ready", "queue", "pipeline", "held", "answered"} :
        CASE p = "ready"    -> ready = b
          [] p = "queue"    -> b \in Range(queue)
          [] p = "pipeline" -> b \in pipeline
          [] p = "held"     -> held = b
          [] p = "answered" -> answer[b] # "none"}

Unfinished == {b \in 1 .. nread : answer[b] = "none"}

TypeOK ==
    /\ pc \in {"idle", "called", "wait", "sleep", "ended", "closing", "closed"}
    /\ queue \in Seq(Batches) /\ IsInjective(queue) /\ adopted \in 0 .. NBatches
    /\ {ready, held} \subseteq Batches \cup {None}
    /\ {readErr, reading, done, aborted} \subseteq BOOLEAN
    /\ attempts \in [Batches -> 0 .. MaxNacks] /\ nread \in 0 .. NBatches
    /\ pipeline \subseteq Batches /\ answer \in [Batches -> {"none", "ack", "nack"}]

\* However reads, nacks, acks, the backoff and the shutdown interleave, a batch
\* the wrapper has read is never in two places, and is in one until its source is
\* answered.  Only a stop forgets it: the abort of its backoff, or the close, which
\* "drops rather than nacks" what it still owes a replay.
KeptUntilAnswered ==
    \A b \in 1 .. nread :
        /\ Cardinality(Places(b)) <= 1
        /\ Places(b) = {} => pc = "closed" \/ (Over /\ aborted)

\* An input that ends by itself, without a drain or an error of the source, has
\* delivered all it read: the end is not reported while a batch may come back.
EndMeansDelivered ==
    pc = "ended" /\ ~aborted /\ done => \A b \in 1 .. nread : answer[b] = "ack"

\* A nacked batch is offered again even while the read of the source is stuck.
NackedIsReplayed ==
    \A b \in Batches :
        (chosen /\ b \in Range(queue)) ~> (chosen => b \in pipeline \/ Over)

\* What was read is answered while the source and the pipeline go on: no wake-up
\* is lost, also when a read completes before the fiber waits for it.
ReadIsDelivered ==
    Lively => \A b \in Batches :
        (chosen /\ ready = b) ~> (chosen => answer[b] # "none" \/ Over)

\* A drain has ended: read_batch came back from wherever it was.
DrainOver == pc = "closed"
=============================================================================
