----------------------------- MODULE InputSide -----------------------------
(***************************************************************************)
(* What every wrapper of an input meets: below it a source that hands out  *)
(* batches, each with an ack_fn that must be called; above it the stream's *)
(* input fiber, which reads until it is told to drain, and the pipeline,   *)
(* which acks and nacks what it was given in any order, also after the     *)
(* drain.  The wrapper has at most one read of each source in flight.      *)
(***************************************************************************)
EXTENDS AckGroup, Integers, Sequences, FiniteSets, Functions

CONSTANTS
    Sizes,     \* how many messages each batch of the source has, in order
    Faults     \* bound: failures of the source and of the processors

InputAssumption == Sizes \in Seq(Nat) /\ Faults \in Nat

NBatches == Len(Sizes)
Batches  == DOMAIN Sizes

VARIABLES
    pc,        \* where the stream's input fiber is
    aborted,   \* the stream's abort source
    read,      \* external: batches the source has handed out
    answer,    \* external: what the source was told of each batch
    landed,    \* messages of each batch that were delivered or filtered
    pipeline,  \* external: what the stream has in hand
    faults     \* failures left

sideVars == <<pc, aborted, read, answer, landed, pipeline, faults>>

SideInit ==
    /\ pc = "idle" /\ aborted = FALSE /\ read = {} /\ faults = Faults /\ pipeline = {}
    /\ answer = [b \in Batches |-> <<>>] /\ landed = [b \in Batches |-> 0]

\* The ack_fn of batch b is called.
Told(b, v) == answer' = [answer EXCEPT ![b] = Append(@, v)]

\* Delivered messages, given as the sequence of the batches they are of.
Landed(parts) ==
    landed' = [b \in Batches |-> landed[b] + Cardinality({i \in DOMAIN parts : parts[i] = b})]

\* The source hands out its batches in order, and says that it has no more when
\* they are used up or it was aborted.
NextBatch == Cardinality(read) + 1
Exhausted == NextBatch > NBatches \/ aborted

Fails == faults > 0 /\ faults' = faults - 1

Over == pc \in {"ended", "closing", "closed"}

\* Batches of the source that are neither acked nor nacked.
Unanswered == {b \in read : answer[b] = <<>>}

\* Whatever happened, no batch is answered twice, and an acked one has all its
\* messages delivered or filtered by a processor.
AnsweredRightly ==
    \A b \in Batches :
        /\ Len(answer[b]) <= 1
        /\ answer[b] = <<"ack">> => landed[b] = Sizes[b]
=============================================================================
