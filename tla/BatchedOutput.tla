--------------------------- MODULE BatchedOutput ---------------------------
(***************************************************************************)
(* `batching` beneath an output's own `processors`, and the output fiber   *)
(* of the stream above both.  A write of the batched output parks until a  *)
(* flush carried its messages to the inner output, so the acks of several  *)
(* transactions hang on one write.  Flushes run concurrently with each     *)
(* other and with drain(), which the fiber calls while writes it launched  *)
(* are still in the processors.                                            *)
(***************************************************************************)
EXTENDS Integers, Sequences, FiniteSets, SequencesExt, FiniteSetsExt

CONSTANTS
    Shapes,       \* for each transaction, the sizes of the batches its processors make of it
    Count,        \* batch_policy::_count, 0 for a policy that has none
    Floor,        \* bound: stands for the 256 of max_in_flight()
    InnerLimit,   \* max_in_flight() of the inner output
    Period,       \* whether the policy has a period
    Faults        \* bound: failures of processors and of the inner output

OutputAssumption ==
    /\ Shapes \in Seq(Seq(Nat \ {0})) /\ Count \in Nat /\ Period \in BOOLEAN
    /\ Floor \in Nat \ {0} /\ InnerLimit \in Nat \ {0} /\ Faults \in Nat

Transactions == DOMAIN Shapes
Calls == UNION {{<<t, i>> : i \in DOMAIN Shapes[t]} : t \in Transactions}
Size(c) == Shapes[c[1]][c[2]]

VARIABLES
    loop,      \* where stream::output_loop is
    taken,     \* transactions launched
    shaping,   \* transactions in the output's processors
    issued,    \* for each transaction, how many of its batches were written
    outcome,   \* external: the ack of each transaction
    waiting,   \* _waiting
    parts,     \* batch_policy::_parts: the call of each message
    late,      \* the period has passed since the last flush
    armed,     \* _timer.armed()
    closed,    \* _flushes.is_closed()
    flushes,   \* the flushes under way
    verdict,   \* the value of each call's promise
    landed,    \* messages of each call that were stored or filtered
    faults     \* failures left

VARIABLE chosen  \* rigid: a run composes several components, and this is the one at hand

policy == <<waiting, parts, late, armed>>
vars == <<loop, taken, shaping, issued, outcome, policy, closed, flushes, verdict, landed, faults>>

Init ==
    /\ loop = "running" /\ taken = 0 /\ shaping = {} /\ faults = Faults
    /\ issued = [t \in Transactions |-> 0] /\ outcome = [t \in Transactions |-> "none"]
    /\ waiting = {} /\ parts = <<>> /\ late = FALSE /\ armed = FALSE /\ closed = FALSE
    /\ flushes = {} /\ verdict = [c \in Calls |-> "none"] /\ landed = [c \in Calls |-> 0]
-----------------------------------------------------------------------------
\* batched_output::max_in_flight(), which is also that of the processors above
\* and so the size of the stream's semaphore.
Limit == Max({IF Count > 0 THEN Count ELSE Floor, InnerLimit})

InFlight == {t \in 1 .. taken : outcome[t] = "none"}

Launch ==
    /\ loop = "running" /\ taken < Len(Shapes) /\ Cardinality(InFlight) < Limit
    /\ taken' = taken + 1 /\ shaping' = shaping \cup {taken + 1}
    /\ UNCHANGED <<loop, issued, outcome, policy, closed, flushes, verdict, landed, faults>>

Fails == faults > 0 /\ faults' = faults - 1

\* A processor of the output throws under strict mode, or filters everything.
ShapedAway(t) ==
    /\ t \in shaping /\ issued[t] = 0 /\ shaping' = shaping \ {t}
    /\ \/ Fails /\ outcome' = [outcome EXCEPT ![t] = "nack"] /\ UNCHANGED landed
       \/ /\ outcome' = [outcome EXCEPT ![t] = "ack"] /\ UNCHANGED faults
          /\ landed' = [c \in Calls |-> IF c[1] = t THEN Size(c) ELSE landed[c]]
    /\ UNCHANGED <<loop, taken, issued, policy, closed, flushes, verdict>>

MessagesOf(c) == [i \in 1 .. Size(c) |-> c]

\* batch_policy::add for the last of the messages, and the backstop.
Trigger(ps, ws) ==
    \/ Count > 0 /\ Len(ps) >= Count
    \/ Period /\ late
    \/ Cardinality(ws) >= Limit

\* arm_timer()
Arms(ps) == armed' = (armed \/ (Period /\ ~late))

MayFlush == TRUE

\* flush() up to its first await: what waits and what was accumulated leave
\* together.
Begin(ws, ps, by) ==
    /\ flushes' = flushes \cup {[waiters |-> ws, batch |-> ps, pieces |-> <<>>,
                                 stage |-> "processors", by |-> by]}
    /\ waiting' = {} /\ parts' = <<>> /\ late' = FALSE /\ armed' = FALSE

\* processed_output writes the next batch of t, if its semaphore has room; the
\* batched output takes it in, and flushes if that triggers, outside the gate
\* when the gate is closed.
WriteBatch(t) ==
    LET c == <<t, issued[t] + 1>>
        ws == waiting \cup {c}
        ps == parts \o MessagesOf(c)
    IN  /\ t \in shaping /\ issued[t] < Len(Shapes[t])
        /\ Cardinality({i \in 1 .. issued[t] : verdict[<<t, i>>] = "none"}) < Limit
        /\ issued' = [issued EXCEPT ![t] = @ + 1]
        /\ IF Trigger(ps, ws) /\ MayFlush
           THEN Begin(ws, ps, IF closed THEN "caller" ELSE "gate")
           ELSE waiting' = ws /\ parts' = ps /\ Arms(ps) /\ UNCHANGED <<late, flushes>>
        /\ UNCHANGED <<loop, taken, shaping, outcome, closed, verdict, landed, faults>>

\* all_or_first_error, and the ack of the transaction.
Resolve(t) ==
    /\ t \in shaping /\ issued[t] = Len(Shapes[t])
    /\ \A i \in DOMAIN Shapes[t] : verdict[<<t, i>>] # "none"
    /\ shaping' = shaping \ {t}
    /\ outcome' = [outcome EXCEPT ![t] =
           IF \E i \in DOMAIN Shapes[t] : verdict[<<t, i>>] = "failed" THEN "nack" ELSE "ack"]
    /\ UNCHANGED <<loop, taken, issued, policy, closed, flushes, verdict, landed, faults>>

Tick ==
    /\ Period /\ ~late /\ loop # "closed" /\ late' = TRUE
    /\ UNCHANGED <<loop, taken, shaping, issued, outcome, waiting, parts, armed, closed, flushes,
                   verdict, landed, faults>>

\* The timer's callback does nothing once the gate is closed.
TimerFires ==
    /\ armed /\ late
    /\ IF closed \/ ~MayFlush THEN armed' = FALSE /\ UNCHANGED <<waiting, parts, late, flushes>>
                              ELSE Begin(waiting, parts, "gate")
    /\ UNCHANGED <<loop, taken, shaping, issued, outcome, closed, verdict, landed, faults>>
-----------------------------------------------------------------------------
\* A slip: the waiters are looked up when the flush ends.
WaitersAtTheEnd(f) == f.waiters \cup waiting

Waiters(f) == f.waiters

Lands(ps) == landed' = [c \in Calls |-> landed[c] + Cardinality({i \in DOMAIN ps : ps[i] = c})]

\* The end of flush(): every waiter it left with gets its outcome.
Finish(f, v) ==
    /\ flushes' = flushes \ {f}
    /\ verdict' = [c \in Calls |-> IF c \in Waiters(f) THEN v ELSE verdict[c]]
    /\ waiting' = waiting \ Waiters(f)
    /\ armed' = (armed \/ (parts # <<>> /\ Period /\ ~late))

\* The batching processors keep the batch, split it, filter it or fail; the
\* strict check of what they return fails the same way.
Process(f) ==
    /\ f \in flushes /\ f.stage = "processors"
    /\ \/ \E n \in 1 .. Len(f.batch) :
            LET pieces == IF n = Len(f.batch) THEN <<f.batch>>
                          ELSE <<SubSeq(f.batch, 1, n), SubSeq(f.batch, n + 1, Len(f.batch))>>
            IN  flushes' = (flushes \ {f}) \cup {[f EXCEPT !.stage = "writing", !.pieces = pieces]}
          /\ UNCHANGED <<waiting, armed, verdict, landed, faults>>
       \/ Finish(f, "ok") /\ Lands(f.batch) /\ UNCHANGED faults
       \/ Finish(f, "failed") /\ Fails /\ UNCHANGED landed
    /\ UNCHANGED <<loop, taken, shaping, issued, outcome, parts, late, closed>>

\* The inner output answers the write of the first piece.  A failure ends the
\* flush, with the pieces before it stored.
InnerWrites(f) ==
    /\ f \in flushes /\ f.stage = "writing"
    /\ \/ /\ Lands(Head(f.pieces)) /\ UNCHANGED faults
          /\ IF Len(f.pieces) = 1 THEN Finish(f, "ok")
             ELSE /\ flushes' = (flushes \ {f}) \cup {[f EXCEPT !.pieces = Tail(@)]}
                  /\ UNCHANGED <<waiting, armed, verdict>>
       \/ Finish(f, "failed") /\ Fails /\ UNCHANGED landed
    /\ UNCHANGED <<loop, taken, shaping, issued, outcome, parts, late, closed>>
-----------------------------------------------------------------------------
\* The end of the stream: output_loop calls drain(), which closes the gate.
Drain ==
    /\ loop = "running" /\ taken = Len(Shapes) /\ loop' = "quiesce"
    /\ closed' = TRUE /\ armed' = FALSE
    /\ UNCHANGED <<taken, shaping, issued, outcome, waiting, parts, late, flushes, verdict, landed, faults>>

\* The gate is empty; what is left is flushed by drain() itself.
Quiesced ==
    /\ loop = "quiesce" /\ \A f \in flushes : f.by # "gate"
    /\ IF parts = <<>> /\ waiting = {}
       THEN loop' = "writes" /\ UNCHANGED <<policy, flushes>>
       ELSE loop' = "flushing" /\ Begin(waiting, parts, "drain")
    /\ UNCHANGED <<taken, shaping, issued, outcome, closed, verdict, landed, faults>>

Drained ==
    /\ loop = "flushing" /\ \A f \in flushes : f.by # "drain"
    /\ loop' = "writes"
    /\ UNCHANGED <<taken, shaping, issued, outcome, policy, closed, flushes, verdict, landed, faults>>

\* _writes.close() returns when the last write has resolved; then the output is
\* closed, with nothing left to flush.
Close ==
    /\ loop = "writes" /\ InFlight = {} /\ loop' = "closed" /\ armed' = FALSE
    /\ UNCHANGED <<taken, shaping, issued, outcome, waiting, parts, late, closed, flushes, verdict,
                   landed, faults>>

Next ==
    \/ Launch \/ Tick \/ TimerFires \/ Drain \/ Quiesced \/ Drained \/ Close
    \/ \E t \in Transactions : ShapedAway(t) \/ WriteBatch(t) \/ Resolve(t)
    \/ \E f \in flushes : Process(f) \/ InnerWrites(f)

Spec == Init /\ [][Next]_vars

\* The fiber and the timer are scheduled, processors return, and the inner
\* output answers every write.
Fairness ==
    /\ WF_vars(chosen /\ Launch) /\ WF_vars(chosen /\ TimerFires) /\ WF_vars(chosen /\ (Drain \/ Quiesced \/ Drained \/ Close))
    /\ \A t \in Transactions : WF_vars(chosen /\ (ShapedAway(t) \/ WriteBatch(t) \/ Resolve(t)))
    /\ \A c \in Calls : WF_vars(chosen /\ (\E f \in flushes : c \in f.waiters /\ (Process(f) \/ InnerWrites(f))))
-----------------------------------------------------------------------------
\* A transaction is acked only when the inner output has stored, or a processor
\* has filtered, every message the processors made of it, whichever flush of
\* whichever caller took them there.
AckMeansLanded ==
    \A t \in Transactions : outcome[t] = "ack" =>
        \A c \in Calls : c[1] = t => landed[c] >= Size(c)

\* No write is forgotten: one that has no verdict yet waits for a flush or is
\* carried by exactly one, together with all its messages.
NoWaiterLost ==
    \A c \in Calls : c[2] <= issued[c[1]] /\ verdict[c] = "none" =>
        Cardinality({f \in flushes : c \in f.waiters}) + (IF c \in waiting THEN 1 ELSE 0) = 1

\* A write that was parked before the drain began, and one that is answered.
Parked(c) == c \in waiting /\ ~closed
Answered(c) == verdict[c] # "none"

\* Every write is answered: output.drain() releases what an output holds back,
\* and the stream cannot end while a write_batch is unresolved.
EveryWriteIsAnswered == \A t \in Transactions : t <= taken ~> outcome[t] # "none"
=============================================================================
