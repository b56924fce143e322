------------------------------- MODULE Stream -------------------------------
(***************************************************************************)
(* One stream on one shard: src/runtime/stream.cc.                         *)
(*                                                                         *)
(* Three fibers held by a gate (input_loop, pipeline_loop, output_loop)    *)
(* joined by two bounded queues, detached writes bounded by a semaphore,   *)
(* and the shutdown ratchet of stop(): graceful, forced, close.  A step    *)
(* runs a fiber from one suspension point (co_await) to the next.          *)
(*                                                                         *)
(* External, modelled from their use here: the input, the processors and   *)
(* the output (any answer their interfaces allow), the source's ack        *)
(* callback (it never throws), and seastar's queue, semaphore, gate and    *)
(* yield.                                                                  *)
(***************************************************************************)
EXTENDS AckGroup, Integers, Sequences, FiniteSets, Functions

CONSTANTS NBatches,     \* batches the source can produce
          QueueDepth,   \* config.queue_depth
          MaxInFlight,  \* output::max_in_flight()
          NProcs,       \* number of pipeline processors
          MaxFan,       \* most batches one process() call returns
          Strict        \* error_handling.strict

ASSUME StreamAssumption ==
  /\ NBatches \in Nat
  /\ QueueDepth \in Nat \ {0}
  /\ MaxInFlight \in Nat \ {0}
  /\ NProcs \in Nat
  /\ MaxFan \in Nat
  /\ Strict \in BOOLEAN

Batches == 1 .. NBatches

(***************************************************************************)
(* A transaction carries a batch and an ack.  idx = 0 is a batch as read,  *)
(* its ack the source's; idx > 0 is a piece made by the pipeline, its ack  *)
(* a child of the ack_group of src.  mark says some message of the batch   *)
(* carries an error.                                                       *)
(***************************************************************************)
Transactions == [src : Batches, idx : Nat, mark : BOOLEAN]

None == [src |-> 0, idx |-> 0, mark |-> FALSE]

\* std::nullopt in a queue.
EndOfStream == [src |-> 0, idx |-> 1, mark |-> FALSE]

VARIABLES
  startPc,      \* start(): connect_in, connect_out, launched, failed
  in,           \* input_loop: [pc, slot]
  pipe,         \* pipeline_loop: [pc, t, stage, todo, next, kids]
  out,          \* output_loop: [pc, t]
  writes,       \* transactions in do_write, each holding a semaphore unit
  toPipeline,   \* _to_pipeline
  toOutput,     \* _to_output
  aborted,      \* both queues have been abort()ed
  drain,        \* _drain has been aborted
  stopNow,      \* _stop_now has been aborted
  stopPc,       \* do_stop: where the shutdown is
  toNack,       \* stop_now's to_nack
  gateClosed,   \* _gate_closed
  finished,     \* _finished has a value
  closed,       \* components whose close() has been called
  group,        \* per source batch, the ack_group of its pieces
  stats,        \* the counters of stream::stats that count batches
  answers,      \* per batch, what the source's ack was called with (history)
  split,        \* per batch, how many pieces the pipeline made (history)
  wrote,        \* per batch, the pieces the output accepted (history)
  dropped,      \* batches every message of which was filtered (history)
  errored,      \* batches seen with an errored message (history)
  launched      \* the transaction whose write was started last (history)

queues   == <<toPipeline, toOutput, aborted>>
shutdown == <<drain, stopNow, stopPc, toNack, gateClosed, finished, closed>>
acking   == <<group, stats, answers>>
history  == <<split, wrote, dropped, errored, launched>>
vars     == <<startPc, in, pipe, out, writes, queues, shutdown, acking, history>>

IdlePipe(pc) == [pc |-> pc, t |-> None, stage |-> 0,
                 todo |-> <<>>, next |-> <<>>, kids |-> <<>>]

Init ==
  /\ startPc = "connect_in"
  /\ in = [pc |-> "idle", slot |-> None]
  /\ pipe = IdlePipe("idle")
  /\ out = [pc |-> "idle", t |-> None]
  /\ writes = {}
  /\ toPipeline = <<>> /\ toOutput = <<>> /\ aborted = FALSE
  /\ drain = FALSE /\ stopNow = FALSE
  /\ stopPc = "running" /\ toNack = <<>> /\ gateClosed = FALSE
  /\ finished = FALSE /\ closed = {}
  /\ group = [b \in Batches |-> NewGroup]
  /\ stats = [batches_in |-> 0, acks |-> 0, nacks |-> 0, filtered |-> 0]
  /\ answers = [b \in Batches |-> <<>>]
  /\ split = [b \in Batches |-> 0]
  /\ wrote = [b \in Batches |-> {}]
  /\ dropped = {} /\ errored = {}
  /\ launched = None
-----------------------------------------------------------------------------
(* Calling a transaction's ack, and the counter bumped beside every call.  *)

AckSource(b, e) ==
  /\ answers' = [answers EXCEPT ![b] = Append(@, IF e THEN "nack" ELSE "ack")]
  /\ UNCHANGED group

AckPiece(t, e) ==
  /\ group' = [group EXCEPT ![t.src] = ChildDone(@, e)]
  /\ answers' = IF ChildFires(group[t.src])
                THEN [answers EXCEPT ![t.src] = Append(@, Verdict(group'[t.src]))]
                ELSE answers

CallAck(t, e) == IF t.idx = 0 THEN AckSource(t.src, e) ELSE AckPiece(t, e)

Ack(t)  == CallAck(t, FALSE) /\ stats' = [stats EXCEPT !.acks = @ + 1]
Nack(t) == CallAck(t, TRUE) /\ stats' = [stats EXCEPT !.nacks = @ + 1]
-----------------------------------------------------------------------------
(* seastar::queue.  not_full() fails on an aborted queue, waits on a full  *)
(* one and is ready otherwise; from then on push() succeeds, even on a     *)
(* queue aborted in between.  pop() readies the waiting producer.          *)

NotFull(q) == IF aborted THEN "nack"
              ELSE IF Len(q) >= QueueDepth THEN "wait" ELSE "ready"

Woken(fiber) == IF fiber.pc = "wait" THEN [fiber EXCEPT !.pc = "ready"] ELSE fiber
-----------------------------------------------------------------------------
(* start(): connect both ends, then launch the three fibers in the gate.   *)
(* A closed gate refuses them, and start() does not look at the refusal.   *)

Connected(refused) ==
  /\ startPc = "connect_out"
  /\ startPc' = "launched"
  /\ IF refused
     THEN UNCHANGED <<in, pipe, out>>
     ELSE /\ in' = [in EXCEPT !.pc = IF drain THEN "eos" ELSE "read"]
          /\ pipe' = IdlePipe("pop")
          /\ out' = [out EXCEPT !.pc = "pop"]

Start ==
  /\ startPc \in {"connect_in", "connect_out"}
  /\ \/ startPc' = "failed" /\ UNCHANGED <<in, pipe, out>>
     \/ startPc = "connect_in" /\ startPc' = "connect_out" /\ UNCHANGED <<in, pipe, out>>
     \/ Connected(gateClosed)
  /\ UNCHANGED <<writes, queues, shutdown, acking, history>>
-----------------------------------------------------------------------------
(* input_loop *)

Marks == IF Strict THEN BOOLEAN ELSE {FALSE}

\* read_batch returned a batch, perhaps marked by a processor of the input.  A
\* read that is under way may still complete after _drain was aborted.
InputRead ==
  /\ in.pc = "read"
  /\ stats.batches_in < NBatches
  /\ stats' = [stats EXCEPT !.batches_in = @ + 1]
  /\ \E m \in Marks :
       in' = [pc |-> NotFull(toPipeline),
              slot |-> [src |-> stats.batches_in + 1, idx |-> 0, mark |-> m]]
  /\ UNCHANGED <<startPc, pipe, out, writes, queues, shutdown, group, answers, history>>

\* read_batch returned nullopt or threw: the layer is over.
InputEnd ==
  /\ in.pc = "read"
  /\ in' = [in EXCEPT !.pc = "eos"]
  /\ UNCHANGED <<startPc, pipe, out, writes, queues, shutdown, acking, history>>

\* read_batch threw abort_requested_exception.
InputAborted == drain /\ InputEnd

InputPush ==
  /\ in.pc = "ready"
  /\ toPipeline' = Append(toPipeline, in.slot)
  /\ in' = [pc |-> IF drain THEN "eos" ELSE "read", slot |-> None]
  /\ UNCHANGED <<startPc, pipe, out, writes, toOutput, aborted, shutdown, acking, history>>

\* not_full() failed: the batch is still in the slot and is nacked.
InputNack ==
  /\ in.pc = "nack"
  /\ Nack(in.slot)
  /\ in' = [pc |-> "eos", slot |-> None]
  /\ UNCHANGED <<startPc, pipe, out, writes, queues, shutdown, history>>

\* A slip: the end of the stream is not waited with on a full queue.
PushEosIfRoom(q) == IF aborted \/ Len(q) >= QueueDepth THEN UNCHANGED q
                    ELSE q' = Append(q, EndOfStream)

\* push_eventually(nullopt); on an aborted queue the fiber ends with an
\* exception nobody reads.
PushEos(q) == IF aborted THEN UNCHANGED q
              ELSE Len(q) < QueueDepth /\ q' = Append(q, EndOfStream)

InputEos ==
  /\ in.pc = "eos"
  /\ PushEos(toPipeline)
  /\ in' = [in EXCEPT !.pc = "done"]
  /\ UNCHANGED <<startPc, pipe, out, writes, toOutput, aborted, shutdown, acking, history>>
-----------------------------------------------------------------------------
(* pipeline_loop *)

\* The batches left after the last stage become the children of one ack_group
\* and are pushed one by one.
Dispatch(t, batches) ==
  /\ group' = [group EXCEPT ![t.src] =
                 Seal([NewGroup EXCEPT !.pending = Len(batches)])]
  /\ split' = [split EXCEPT ![t.src] = Len(batches)]
  /\ pipe' = [IdlePipe(NotFull(toOutput)) EXCEPT
                !.kids = [i \in DOMAIN batches |->
                            [src |-> t.src, idx |-> i, mark |-> batches[i]]]]
  /\ UNCHANGED <<stats, answers, dropped>>

\* pop_eventually, then the first stage; an aborted queue ends the layer.
PipePop ==
  /\ pipe.pc = "pop"
  /\ IF aborted
     THEN /\ pipe' = IdlePipe("eos")
          /\ UNCHANGED <<in, toPipeline, acking, history>>
     ELSE /\ toPipeline # <<>>
          /\ toPipeline' = Tail(toPipeline)
          /\ in' = Woken(in)
          /\ LET t == Head(toPipeline) IN
               \/ /\ t = EndOfStream
                  /\ pipe' = IdlePipe("eos")
                  /\ UNCHANGED <<acking, history>>
               \/ /\ t # EndOfStream /\ NProcs > 0
                  /\ pipe' = [IdlePipe("proc") EXCEPT
                                !.t = t, !.stage = 1, !.todo = <<t.mark>>]
                  /\ UNCHANGED <<acking, history>>
               \/ /\ t # EndOfStream /\ NProcs = 0
                  /\ Dispatch(t, <<t.mark>>)
                  /\ UNCHANGED <<wrote, errored, launched>>
  /\ UNCHANGED <<startPc, out, writes, toOutput, aborted, shutdown>>

\* A fatal error: the batch is nacked whole and the loop continues.
Reject ==
  /\ Nack(pipe.t)
  /\ pipe' = IdlePipe("pop")
  /\ UNCHANGED <<split, dropped>>

\* Every message was filtered, which is a successful outcome.
Filter ==
  /\ AckSource(pipe.t.src, FALSE)
  /\ stats' = [stats EXCEPT !.acks = @ + 1, !.filtered = @ + 1]
  /\ pipe' = IdlePipe("pop")
  /\ dropped' = dropped \cup {pipe.t.src}
  /\ UNCHANGED split

HasError(batches) == \E i \in DOMAIN batches : batches[i]

\* The look strict mode takes at the marks after each stage.
FatalMark(batches) == Strict /\ HasError(batches)

\* The current batch of the current stage yielded the batches ms: go on with
\* the stage, or end it and look at what it left.
StageYields(ms) ==
  LET next == pipe.next \o ms
      rest == Tail(pipe.todo)
  IN \/ /\ rest # <<>>
        /\ pipe' = [pipe EXCEPT !.todo = rest, !.next = next]
        /\ UNCHANGED <<acking, split, dropped>>
     \/ /\ rest = <<>> /\ next = <<>>
        /\ Filter
     \/ /\ rest = <<>> /\ FatalMark(next)
        /\ Reject
     \/ /\ rest = <<>> /\ next # <<>> /\ ~FatalMark(next)
        /\ IF pipe.stage < NProcs
           THEN /\ pipe' = [pipe EXCEPT !.stage = @ + 1, !.todo = next, !.next = <<>>]
                /\ UNCHANGED <<acking, split, dropped>>
           ELSE Dispatch(pipe.t, next)

SawError(b) == errored' = IF Strict THEN errored \cup {b} ELSE errored

\* One process() call answers: up to MaxFan batches, any of them marked, or an
\* exception, which strict mode makes fatal and which otherwise lets the
\* batch's backup continue, marked.
PipeProcess ==
  /\ pipe.pc = "proc"
  /\ \/ \E n \in 0 .. MaxFan : \E ms \in [1 .. n -> Marks] :
          /\ StageYields(ms)
          /\ IF HasError(ms) THEN SawError(pipe.t.src) ELSE UNCHANGED errored
     \/ /\ IF Strict THEN Reject ELSE StageYields(<<TRUE>>)
        /\ SawError(pipe.t.src)
  /\ UNCHANGED <<startPc, in, out, writes, queues, shutdown, wrote, launched>>

\* A slip: the children are taken from the back.
PipePushBack ==
  /\ pipe.pc = "ready"
  /\ toOutput' = Append(toOutput, pipe.kids[Len(pipe.kids)])
  /\ pipe' = IF Len(pipe.kids) = 1 THEN IdlePipe("pop")
             ELSE [pipe EXCEPT !.pc = NotFull(toOutput'),
                               !.kids = SubSeq(@, 1, Len(@) - 1)]
  /\ UNCHANGED <<startPc, in, out, writes, toPipeline, aborted, shutdown, acking, history>>

PipePush ==
  /\ pipe.pc = "ready"
  /\ toOutput' = Append(toOutput, Head(pipe.kids))
  /\ pipe' = IF Tail(pipe.kids) = <<>> THEN IdlePipe("pop")
             ELSE [pipe EXCEPT !.pc = NotFull(toOutput'), !.kids = Tail(@)]
  /\ UNCHANGED <<startPc, in, out, writes, toPipeline, aborted, shutdown, acking, history>>

\* A slip: only the piece in hand is nacked.
PipeNackInHand ==
  /\ pipe.pc = "nack"
  /\ Nack(Head(pipe.kids))
  /\ pipe' = IdlePipe("eos")
  /\ UNCHANGED <<startPc, in, out, writes, queues, shutdown, history>>

\* not_full() failed: the piece in hand and every later one are nacked.
PipeNack ==
  /\ pipe.pc = "nack"
  /\ Nack(Head(pipe.kids))
  /\ pipe' = IF Tail(pipe.kids) = <<>> THEN IdlePipe("eos")
             ELSE [pipe EXCEPT !.kids = Tail(@)]
  /\ UNCHANGED <<startPc, in, out, writes, queues, shutdown, history>>

PipeEos ==
  /\ pipe.pc = "eos"
  /\ PushEos(toOutput)
  /\ pipe' = IdlePipe("done")
  /\ UNCHANGED <<startPc, in, out, writes, toPipeline, aborted, shutdown, acking, history>>
-----------------------------------------------------------------------------
(* output_loop and do_write *)

OutPop ==
  /\ out.pc = "pop"
  /\ IF aborted
     THEN /\ out' = [out EXCEPT !.pc = "drain"]
          /\ UNCHANGED <<pipe, toOutput>>
     ELSE /\ toOutput # <<>>
          /\ toOutput' = Tail(toOutput)
          /\ pipe' = Woken(pipe)
          /\ out' = IF Head(toOutput) = EndOfStream
                    THEN [out EXCEPT !.pc = "drain"]
                    ELSE [pc |-> "units", t |-> Head(toOutput)]
  /\ UNCHANGED <<startPc, in, writes, toPipeline, aborted, shutdown, acking, history>>

\* A semaphore unit is free: do_write is launched and not awaited.
OutLaunch ==
  /\ out.pc = "units"
  /\ Cardinality(writes) < MaxInFlight
  /\ writes' = writes \cup {out.t}
  /\ launched' = out.t
  /\ IF out.t.mark THEN SawError(out.t.src) ELSE UNCHANGED errored
  /\ out' = [pc |-> "pop", t |-> None]
  /\ UNCHANGED <<startPc, in, pipe, queues, shutdown, acking, split, wrote, dropped>>

\* write_batch returned: the piece is acked.  Strict mode writes no marked one.
WriteOk(t) ==
  /\ t \in writes
  /\ ~(Strict /\ t.mark)
  /\ Ack(t)
  /\ wrote' = [wrote EXCEPT ![t.src] = @ \cup {t.idx}]
  /\ writes' = writes \ {t}
  /\ UNCHANGED <<startPc, in, pipe, out, queues, shutdown, split, dropped, errored, launched>>

\* A slip: the exception is caught and not kept.
WriteFailedSilently(t) ==
  /\ t \in writes
  /\ Ack(t)
  /\ writes' = writes \ {t}
  /\ UNCHANGED <<startPc, in, pipe, out, queues, shutdown, history>>

\* write_batch threw, or strict mode rejected the batch unwritten.
WriteFailed(t) ==
  /\ t \in writes
  /\ Nack(t)
  /\ writes' = writes \ {t}
  /\ UNCHANGED <<startPc, in, pipe, out, queues, shutdown, history>>

WriteDone(t) == WriteOk(t) \/ WriteFailed(t)

\* _out->drain(), which must come before the writes are waited for.
OutDrain ==
  /\ out.pc = "drain"
  /\ out' = [out EXCEPT !.pc = "close"]
  /\ UNCHANGED <<startPc, in, pipe, writes, queues, shutdown, acking, history>>

\* _writes.close(), then _finished.
OutClose ==
  /\ out.pc = "close"
  /\ writes = {}
  /\ out' = [out EXCEPT !.pc = "done"]
  /\ finished' = TRUE
  /\ UNCHANGED <<startPc, in, pipe, writes, queues, drain, stopNow, stopPc, toNack,
                 gateClosed, closed, acking, history>>
-----------------------------------------------------------------------------
(* shutdown *)

\* The gate is empty: no layer fiber is running.
LayersDone == \A f \in {in, pipe, out} : f.pc \in {"idle", "done"}

\* request_drain(), from the signal handler.
RequestDrain ==
  /\ ~drain
  /\ drain' = TRUE
  /\ UNCHANGED <<startPc, in, pipe, out, writes, queues, stopNow, stopPc, toNack,
                 gateClosed, finished, closed, acking, history>>

\* The transactions of a queue: the end of the stream is pushed last.
Queued(q) == IF q # <<>> /\ q[Len(q)] = EndOfStream THEN SubSeq(q, 1, Len(q) - 1) ELSE q

\* collect(): take every queued transaction out of both queues, in order.
Collected == Queued(toPipeline) \o Queued(toOutput)

\* A slip: the blocked process and write calls are not aborted.
StopNowQuietly ==
  /\ drain' = TRUE /\ UNCHANGED stopNow
  /\ toNack' = Collected
  /\ toPipeline' = <<>> /\ toOutput' = <<>> /\ aborted' = TRUE
  /\ in' = Woken(in)
  /\ pipe' = Woken(pipe)
  /\ stopPc' = "yield"
  /\ UNCHANGED <<startPc, out, writes, gateClosed, finished, closed, acking, history>>

\* stop_now up to its yield: collect, then abort both queues.  A producer
\* waiting on a full queue is woken by the pops, before the abort, and will
\* still push.
StopNow ==
  /\ drain' = TRUE /\ stopNow' = TRUE
  /\ toNack' = Collected
  /\ toPipeline' = <<>> /\ toOutput' = <<>> /\ aborted' = TRUE
  /\ in' = Woken(in)
  /\ pipe' = Woken(pipe)
  /\ stopPc' = "yield"
  /\ UNCHANGED <<startPc, out, writes, gateClosed, finished, closed, acking, history>>

\* stop(): the first caller starts do_stop, every other one shares its future.
StopGracefully ==
  /\ stopPc = "running"
  /\ drain' = TRUE
  /\ gateClosed' = TRUE
  /\ stopPc' = "graceful"
  /\ UNCHANGED <<startPc, in, pipe, out, writes, queues, stopNow, toNack, finished,
                 closed, acking, history>>

\* request_force() and stop(), from the signal path's timer.
ForceStop == stopPc = "running" /\ StopNow

GracefulDone ==
  /\ stopPc = "graceful"
  /\ LayersDone
  /\ stopPc' = "close_in"
  /\ UNCHANGED <<startPc, in, pipe, out, writes, queues, drain, stopNow, toNack,
                 gateClosed, finished, closed, acking, history>>

\* The graceful three quarters of shutdown_timeout have passed.
GracefulTimeout == stopPc = "graceful" /\ StopNow

\* A slip: what was pushed between the two aborts is discarded by the second.
CollectOnce ==
  /\ stopPc = "yield"
  /\ in.pc # "ready" /\ pipe.pc # "ready"
  /\ UNCHANGED toNack
  /\ toPipeline' = <<>> /\ toOutput' = <<>>
  /\ stopPc' = "nack"
  /\ UNCHANGED <<startPc, in, pipe, out, writes, aborted, drain, stopNow, gateClosed,
                 finished, closed, acking, history>>

\* After the yield every fiber that was ready has run: collect again.
CollectAgain ==
  /\ stopPc = "yield"
  /\ in.pc # "ready" /\ pipe.pc # "ready"
  /\ toNack' = toNack \o Collected
  /\ toPipeline' = <<>> /\ toOutput' = <<>>
  /\ stopPc' = "nack"
  /\ UNCHANGED <<startPc, in, pipe, out, writes, aborted, drain, stopNow, gateClosed,
                 finished, closed, acking, history>>

\* A slip: the collected nacks are not counted.
NackCollectedUncounted ==
  /\ stopPc = "nack"
  /\ toNack # <<>>
  /\ CallAck(Head(toNack), TRUE)
  /\ toNack' = Tail(toNack)
  /\ UNCHANGED <<startPc, in, pipe, out, writes, queues, drain, stopNow, stopPc,
                 gateClosed, finished, closed, stats, history>>

NackCollected ==
  /\ stopPc = "nack"
  /\ toNack # <<>>
  /\ Nack(Head(toNack))
  /\ toNack' = Tail(toNack)
  /\ UNCHANGED <<startPc, in, pipe, out, writes, queues, drain, stopNow, stopPc,
                 gateClosed, finished, closed, history>>

\* close_gate_once(); a second timeout is only logged, the wait goes on.
CloseGate ==
  /\ stopPc = "nack" /\ toNack = <<>>
  /\ gateClosed' = TRUE
  /\ stopPc' = "gate"
  /\ UNCHANGED <<startPc, in, pipe, out, writes, queues, drain, stopNow, toNack,
                 finished, closed, acking, history>>

\* A slip: a close that is under way is taken for a close that is done.
ForcedDoneEarly ==
  /\ stopPc = "gate"
  /\ finished' = TRUE
  /\ stopPc' = "close_in"
  /\ UNCHANGED <<startPc, in, pipe, out, writes, queues, drain, stopNow, toNack,
                 gateClosed, closed, acking, history>>

ForcedDone ==
  /\ stopPc = "gate"
  /\ LayersDone
  /\ finished' = TRUE
  /\ stopPc' = "close_in"
  /\ UNCHANGED <<startPc, in, pipe, out, writes, queues, drain, stopNow, toNack,
                 gateClosed, closed, acking, history>>

\* The guarded closes at the end of do_stop, in order.
CloseOrder == <<"close_in", "close_procs", "close_out", "stopped">>

CloseComponents ==
  \E i \in 1 .. 3 :
    /\ stopPc = CloseOrder[i]
    /\ stopPc' = CloseOrder[i + 1]
    /\ closed' = closed \cup {CloseOrder[i]}
    /\ UNCHANGED <<startPc, in, pipe, out, writes, queues, drain, stopNow, toNack,
                   gateClosed, finished, acking, history>>

Stopped ==
  /\ stopPc = "stopped" /\ startPc \in {"launched", "failed"}
  /\ UNCHANGED vars

Next ==
  \/ Start
  \/ InputRead \/ InputEnd \/ InputPush \/ InputNack \/ InputEos
  \/ PipePop \/ PipeProcess \/ PipePush \/ PipeNack \/ PipeEos
  \/ OutPop \/ OutLaunch \/ OutDrain \/ OutClose
  \/ \E t \in writes : WriteDone(t)
  \/ RequestDrain \/ StopGracefully \/ ForceStop
  \/ GracefulDone \/ GracefulTimeout \/ CollectAgain \/ NackCollected \/ CloseGate
  \/ ForcedDone \/ CloseComponents
  \/ Stopped

Spec == Init /\ [][Next]_vars
-----------------------------------------------------------------------------
(* Fairness.  The reactor runs every ready fiber, so each step between two *)
(* suspension points is weakly fair.  What the components do is not the    *)
(* stream's to promise, so two assumptions are told apart.                 *)

ReactorFairness ==
  /\ WF_vars(InputPush) /\ WF_vars(InputNack) /\ WF_vars(InputEos)
  /\ WF_vars(PipePop) /\ WF_vars(PipePush) /\ WF_vars(PipeNack) /\ WF_vars(PipeEos)
  /\ WF_vars(OutPop) /\ WF_vars(OutLaunch) /\ WF_vars(OutDrain) /\ WF_vars(OutClose)
  /\ WF_vars(GracefulDone) /\ WF_vars(GracefulTimeout)
  /\ WF_vars(CollectAgain) /\ WF_vars(NackCollected) /\ WF_vars(CloseGate)
  /\ WF_vars(ForcedDone) /\ WF_vars(CloseComponents)

FairSpec == Spec /\ ReactorFairness

\* Every process() and write_batch() call returns.
Answering ==
  /\ WF_vars(PipeProcess)
  /\ WF_vars(\E t \in writes : WriteDone(t))

\* A call may hang for ever, but returns once its abort source has fired:
\* _drain for read_batch, _stop_now for process and write_batch.
Abortable ==
  /\ WF_vars(InputAborted)
  /\ WF_vars(stopNow /\ PipeProcess)
  /\ WF_vars(stopNow /\ \E t \in writes : WriteDone(t))
-----------------------------------------------------------------------------
InPcs   == {"idle", "read", "wait", "ready", "nack", "eos", "done"}
PipePcs == {"idle", "pop", "proc", "wait", "ready", "nack", "eos", "done"}
OutPcs  == {"idle", "pop", "units", "drain", "close", "done"}
StopPcs == {"running", "graceful", "yield", "nack", "gate",
            "close_in", "close_procs", "close_out", "stopped"}
Slots   == Transactions \cup {EndOfStream}

TypeOK ==
  /\ startPc \in {"connect_in", "connect_out", "launched", "failed"}
  /\ in \in [pc : InPcs, slot : Transactions \cup {None}]
  /\ pipe \in [pc : PipePcs, t : Transactions \cup {None}, stage : 0 .. NProcs,
               todo : Seq(BOOLEAN), next : Seq(BOOLEAN), kids : Seq(Transactions)]
  /\ out \in [pc : OutPcs, t : Transactions \cup {None}]
  /\ writes \in SUBSET Transactions
  /\ toPipeline \in Seq(Slots) /\ toOutput \in Seq(Slots)
  /\ toNack \in Seq(Transactions)
  /\ {aborted, drain, stopNow, gateClosed, finished} \subseteq BOOLEAN
  /\ stopPc \in StopPcs
  /\ closed \in SUBSET {"close_in", "close_procs", "close_out"}
  /\ group \in [Batches -> Groups]
  /\ stats \in [batches_in : 0 .. NBatches, acks : Nat, nacks : Nat, filtered : Nat]
  /\ answers \in [Batches -> Seq({"ack", "nack"})]
  /\ split \in [Batches -> Nat]
  /\ wrote \in [Batches -> SUBSET Nat]
  /\ dropped \in SUBSET Batches /\ errored \in SUBSET Batches
  /\ launched \in Transactions \cup {None}

Read == 1 .. stats.batches_in

\* An ack means delivery: every piece the pipeline made of the batch was
\* written, or the processors dropped all of it; under strict mode no error was
\* seen after a stage or at the output either, even if a later processor would
\* clear the mark.  (At-least-once: the source may forget a batch only then.)
\* Nor is there a second answer, whatever mix of filtering, splitting, failing
\* writes, aborted pushes and collected queues the batch meets.
AckMeansWritten ==
  \A b \in Batches :
    /\ Len(answers[b]) <= 1
    /\ answers[b] = <<"ack">> =>
         /\ b \in dropped \/ (split[b] > 0 /\ wrote[b] = 1 .. split[b])
         /\ Strict => b \notin errored

\* Nothing read is left unanswered when the components are closed (the source
\* is gone after that), nor when an undisturbed stream reports it has drained.
\* This is what stop_now collects twice for.
NothingLeftBehind ==
  (closed # {} \/ (finished /\ ~aborted)) =>
    \A b \in Read : answers[b] # <<>>

\* Components are closed only when no fiber can touch them: the layers are
\* done, no write is in flight, and a start() still connecting will be refused
\* by the gate.
ClosedWhenQuiet ==
  closed # {} => LayersDone /\ writes = {} /\ gateClosed

\* The counters add up when the stream has drained: every batch answered whole
\* counts once, every split one once per piece.
SumOver(f) ==
  LET sum[n \in 0 .. NBatches] == IF n = 0 THEN 0 ELSE sum[n - 1] + f[n]
  IN sum[NBatches]

StatsBalance ==
  (closed # {} \/ (finished /\ ~aborted)) =>
    stats.acks + stats.nacks =
      SumOver([b \in Batches |-> IF b \notin Read THEN 0
                                 ELSE IF split[b] = 0 THEN 1 ELSE split[b]])

\* Writes are started in source order, pieces of one batch in their own order.
WritesInOrder ==
  [][\A t \in writes' \ writes :
       \/ launched.src < t.src
       \/ launched.src = t.src /\ launched.idx < t.idx]_vars

\* A source that ends, or a drain that reaches the input, drains the stream:
\* _finished is set without anybody calling stop(), if the components answer.
DrainCompletes == Answering => ((in.pc = "eos") ~> finished)

\* stop() returns, forcing if it must, as long as the components honour their
\* abort sources.
StopCompletes == Abortable => ((stopPc # "running") ~> (stopPc = "stopped"))
-----------------------------------------------------------------------------
(* Refinement: the transactions the stream holds, wherever they are.       *)

Held ==
  ({in.slot, pipe.t, out.t} \cup writes \cup Range(toPipeline) \cup Range(toOutput)
     \cup Range(pipe.kids) \cup Range(toNack)) \ {None, EndOfStream}

OpenPieces(b) == {t.idx : t \in {u \in Held : u.src = b /\ u.idx > 0}}

Phase(b) ==
  IF b \notin Read THEN "unread"
  ELSE IF \E t \in Held : t.src = b /\ t.idx = 0 THEN "whole"
  ELSE IF OpenPieces(b) # {} THEN "split" ELSE "settled"

phase  == [b \in Batches |-> Phase(b)]
pieces == [b \in Batches |-> 1 .. split[b]]
open   == [b \in Batches |-> OpenPieces(b)]

Promise == INSTANCE Delivery

\* The stream keeps its promise to the source: no transaction is lost, held
\* twice or answered at the wrong moment by any step of any fiber, of a
\* detached write or of the shutdown.
KeepsPromise == Promise!Spec
=============================================================================
