------------------------------ MODULE Delivery ------------------------------
(***************************************************************************)
(* What a stream promises its source, without queues, fibers or shutdown:  *)
(* a batch that was read is held until it is answered; it may be filtered, *)
(* rejected, or split into pieces that are settled one by one; the answer  *)
(* comes with the last piece and is an ack only if all of them were        *)
(* written.  Nothing is written for a batch that has been answered.        *)
(***************************************************************************)
EXTENDS Naturals, Sequences

CONSTANT Batches

VARIABLES phase,    \* per batch: unread, whole, split, settled
          pieces,   \* per batch, the pieces it was split into
          open,     \* per batch, the pieces not settled
          wrote,    \* per batch, the pieces the output accepted
          answers   \* per batch, what the source was told

vars == <<phase, pieces, open, wrote, answers>>

Init ==
  /\ phase = [b \in Batches |-> "unread"]
  /\ pieces = [b \in Batches |-> {}]
  /\ open = [b \in Batches |-> {}]
  /\ wrote = [b \in Batches |-> {}]
  /\ answers = [b \in Batches |-> <<>>]

ReadBatch(b) ==
  /\ phase[b] = "unread"
  /\ phase' = [phase EXCEPT ![b] = "whole"]
  /\ UNCHANGED <<pieces, open, wrote, answers>>

\* Filtered ("ack") or rejected ("nack") before it was split.
AnswerWhole(b, v) ==
  /\ phase[b] = "whole"
  /\ phase' = [phase EXCEPT ![b] = "settled"]
  /\ answers' = [answers EXCEPT ![b] = Append(@, v)]
  /\ UNCHANGED <<pieces, open, wrote>>

\* Into any pieces, one or more.
SplitBatch(b) ==
  /\ phase[b] = "whole"
  /\ phase' = [phase EXCEPT ![b] = "split"]
  /\ pieces'[b] # {} /\ pieces'[b] \subseteq Nat
  /\ pieces' = [pieces EXCEPT ![b] = pieces'[b]]
  /\ open' = [open EXCEPT ![b] = pieces'[b]]
  /\ UNCHANGED <<wrote, answers>>

\* A piece is written or given up; with the last one the source is answered.
Settle(b, i, written) ==
  /\ phase[b] = "split"
  /\ i \in open[b]
  /\ open' = [open EXCEPT ![b] = @ \ {i}]
  /\ wrote' = IF written THEN [wrote EXCEPT ![b] = @ \cup {i}] ELSE wrote
  /\ IF open'[b] = {}
     THEN /\ phase' = [phase EXCEPT ![b] = "settled"]
          /\ answers' = [answers EXCEPT ![b] =
                           Append(@, IF wrote'[b] = pieces[b] THEN "ack" ELSE "nack")]
     ELSE UNCHANGED <<phase, answers>>
  /\ UNCHANGED pieces

Next ==
  \E b \in Batches :
    \/ ReadBatch(b)
    \/ \E v \in {"ack", "nack"} : AnswerWhole(b, v)
    \/ SplitBatch(b)
    \/ \E i \in open[b], written \in BOOLEAN : Settle(b, i, written)

Spec == Init /\ [][Next]_vars
-----------------------------------------------------------------------------
\* One answer per batch, given exactly when nothing of it is held any more.
OneAnswer ==
  \A b \in Batches :
    /\ Len(answers[b]) = IF phase[b] = "settled" THEN 1 ELSE 0
    /\ open[b] # {} <=> phase[b] = "split"

\* A split batch that was acked has been written completely.
AckedIsWritten ==
  \A b \in Batches :
    answers[b] = <<"ack">> => wrote[b] = pieces[b]

\* What makes the two inductive: what each phase says about the rest.
PhaseFacts ==
  \A b \in Batches :
    /\ phase[b] \in {"unread", "whole", "split", "settled"}
    /\ phase[b] \in {"unread", "whole"} =>
         pieces[b] = {} /\ open[b] = {} /\ wrote[b] = {} /\ answers[b] = <<>>
    /\ phase[b] = "split" => open[b] # {} /\ answers[b] = <<>>
    /\ phase[b] = "settled" => open[b] = {} /\ answers[b] \in {<<"ack">>, <<"nack">>}

TypeOK ==
  /\ phase \in [Batches -> {"unread", "whole", "split", "settled"}]
  /\ pieces \in [Batches -> SUBSET Nat]
  /\ open \in [Batches -> SUBSET Nat]
  /\ wrote \in [Batches -> SUBSET Nat]
  /\ answers \in [Batches -> Seq({"ack", "nack"})]

Inv == TypeOK /\ PhaseFacts /\ AckedIsWritten
==============================================================================
