---------------------------- MODULE Rendezvous ----------------------------
(***************************************************************************)
(* rendezvous<T>: a bounded buffer between any number of producers and     *)
(* consumers.  Every one of its operations has no suspension point between *)
(* its last look at the buffer and its change of it, so each is one step;  *)
(* a waiter is a fiber whose step is not enabled.                          *)
(***************************************************************************)
LOCAL INSTANCE Naturals
LOCAL INSTANCE Sequences

\* Every rendezvous of the program is made with queue_depth 1.
Capacity == 1

Open == [items |-> <<>>, closed |-> FALSE]

\* push() goes through, with or without a deadline: there is room.
MayPush(q)  == ~q.closed /\ Len(q.items) < Capacity
Pushed(q, x) == [q EXCEPT !.items = Append(@, x)]

\* push() waits, and a deadline it has may pass.
PushWaits(q) == ~q.closed /\ Len(q.items) >= Capacity

\* pop() goes through.
MayPop(q)  == ~q.closed /\ q.items # <<>>
First(q)   == Head(q.items)
Popped(q)  == [q EXCEPT !.items = Tail(@)]

\* pop() waits, and a deadline it has may pass.
PopWaits(q) == ~q.closed /\ q.items = <<>>

\* close() refuses everything from now on and hands back what was buffered.
Shut(q)     == [items |-> <<>>, closed |-> TRUE]
Leftover(q) == {q.items[i] : i \in DOMAIN q.items}
=============================================================================
