------------------------------ MODULE AckGroup ------------------------------
(***************************************************************************)
(* The acknowledgement aggregator of src/runtime/transaction.cc.           *)
(*                                                                         *)
(* Whatever splits a transaction makes one ack_group, hands every child an *)
(* ack made by add_child and seals the group once all children exist.  An  *)
(* error is abstracted to a Boolean: the exception itself is opaque to     *)
(* every caller, only its presence decides between ack and nack.           *)
(***************************************************************************)
EXTENDS Naturals

Groups == [pending : Nat, sealed : BOOLEAN, fired : BOOLEAN, err : BOOLEAN]

\* What the parent is told: a null exception_ptr is an ack, any other a nack.
Verdict(g) == IF g.err THEN "nack" ELSE "ack"

\* ack_group::make
NewGroup == [pending |-> 0, sealed |-> FALSE, fired |-> FALSE, err |-> FALSE]

\* ack_group::add_child
AddChild(g) == [g EXCEPT !.pending = @ + 1]

\* n calls of add_child, with nothing between them
AddChildren(g, n) == [g EXCEPT !.pending = @ + n]

\* A slip: off by one in the countdown.
ChildFiresEarly(g) == g.pending <= 2 /\ g.sealed

\* The condition under which child_done calls the parent's ack.
ChildFires(g) == g.pending = 1 /\ g.sealed /\ ~g.fired

\* A slip: only the last child's error is kept.
ChildDoneLastError(g, e) ==
  [g EXCEPT !.err = e, !.pending = @ - 1, !.fired = @ \/ ChildFires(g)]

\* ack_group::child_done; the first error is kept, later ones are dropped.
ChildDone(g, e) ==
  [g EXCEPT !.err = @ \/ e, !.pending = @ - 1, !.fired = @ \/ ChildFires(g)]

\* n calls of child_done in a row: a call that finds one child left fires.
ChildrenDone(g, e, n) ==
  IF n = 0 THEN g
  ELSE [g EXCEPT !.err = @ \/ e, !.pending = @ - n,
                 !.fired = @ \/ (g.sealed /\ g.pending \in 1 .. n)]

\* The condition under which seal calls the parent's ack.
SealFires(g) == g.pending = 0 /\ ~g.fired

\* ack_group::seal
Seal(g) == [g EXCEPT !.sealed = TRUE, !.fired = @ \/ SealFires(g)]
=============================================================================
