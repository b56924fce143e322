---------------------------- MODULE BrokerInput ----------------------------
(***************************************************************************)
(* The input broker: it keeps one read of each child in flight and takes   *)
(* the first that answers.  Reads that did not answer are kept for the     *)
(* next call, and children that answered together are parked.              *)
(***************************************************************************)
EXTENDS InputSide

CONSTANT Children    \* the children, which share out the source's batches

\* A child goes by its index; a broker without children has nothing to hand out.
BrokerAssumption ==
    /\ Children \subseteq Nat /\ IsFiniteSet(Children) /\ (Children = {} => Sizes = <<>>)

Ended == 0           \* what the read of a child that is exhausted brings
Broken == -1         \* what a read that throws brings

VARIABLES
    reads,     \* _pending: per child "none", "out", or the result that is there
    done,      \* _done
    ready      \* _ready

VARIABLE chosen  \* rigid: a run composes several components, and this is the one at hand

wrapVars == <<reads, done, ready>>
vars     == <<sideVars, wrapVars>>
env      == <<aborted, read, answer, landed, faults>>

Results == Batches \cup {Ended, Broken}
NoRead  == [state |-> "none", got |-> Ended]
Out     == [state |-> "out", got |-> Ended]

Init ==
    /\ SideInit
    /\ reads = [c \in Children |-> NoRead] /\ done = {} /\ ready = <<>>
-----------------------------------------------------------------------------
Call ==
    /\ pc = "idle" /\ pc' = IF aborted THEN "ended" ELSE "loop"
    /\ UNCHANGED <<env, pipeline, wrapVars>>

HandOut(b) == pipeline' = pipeline \cup {b} /\ pc' = "idle"

\* What is in hand goes first, also when every child has ended.
TakeReady ==
    /\ pc = "loop" /\ ready # <<>> /\ HandOut(Head(ready)) /\ ready' = Tail(ready)
    /\ UNCHANGED <<env, reads, done>>

Live == Children \ done

\* Every child that has not ended gets a read, unless it has one.
StartReads ==
    /\ pc = "loop" /\ ready = <<>>
    /\ IF Live = {} THEN pc' = "ended" /\ UNCHANGED reads
       ELSE /\ pc' = "any"
            /\ reads' = [c \in Children |-> IF c \in Live /\ reads[c] = NoRead THEN Out ELSE reads[c]]
    /\ UNCHANGED <<env, pipeline, done, ready>>

Answered == {c \in Live : reads[c].state = "there"}

Got(c) == reads[c].got

\* A read that did not answer is kept.
Keep(c) == IF c \in Answered THEN NoRead ELSE reads[c]

\* The loop over the children goes by their index.
InOrder(cs) ==
    {s \in [1 .. Cardinality(cs) -> cs] : \A i, j \in DOMAIN s : i < j => s[i] < s[j]}

\* when_any: of the children that answered, the first that has a batch is handed
\* out and the others are parked.  An error is thrown if nobody had one, and
\* forgotten otherwise: the child is asked again.
WhenAny ==
    /\ pc = "any" /\ Answered # {}
    /\ reads' = [c \in Children |-> Keep(c)]
    /\ done' = done \cup {c \in Answered : Got(c) = Ended}
    /\ \E some \in InOrder({c \in Answered : Got(c) \in Batches}) :
        IF some # <<>>
        THEN /\ HandOut(Got(Head(some)))
             /\ ready' = ready \o [i \in 1 .. Len(some) - 1 |-> Got(some[i + 1])]
        ELSE /\ pc' = IF \E c \in Answered : Got(c) = Broken THEN "ended" ELSE "loop"
             /\ UNCHANGED <<pipeline, ready>>
    /\ UNCHANGED env
-----------------------------------------------------------------------------
Arrives(c, r) == reads' = [reads EXCEPT ![c] = [state |-> "there", got |-> r]]

\* External: a child's read brings a batch, its end, or an error.
ChildReads(c) ==
    /\ reads[c] = Out /\ NextBatch \in Batches
    /\ Arrives(c, NextBatch) /\ read' = read \cup {NextBatch}
    /\ UNCHANGED <<pc, aborted, answer, landed, pipeline, faults, done, ready>>

ChildEnds(c) ==
    /\ reads[c] = Out /\ Exhausted /\ Arrives(c, Ended)
    /\ UNCHANGED <<sideVars, done, ready>>

ChildFails(c) ==
    /\ reads[c] = Out /\ Fails /\ Arrives(c, Broken)
    /\ UNCHANGED <<pc, aborted, read, answer, landed, pipeline, done, ready>>

Answer(b, e) ==
    /\ b \in pipeline /\ pipeline' = pipeline \ {b} /\ Told(b, IF e THEN "nack" ELSE "ack")
    /\ IF e THEN UNCHANGED landed ELSE Landed([i \in 1 .. Sizes[b] |-> b])
    /\ UNCHANGED <<pc, aborted, read, faults, wrapVars>>

Abort ==
    /\ ~aborted /\ ~Over /\ aborted' = TRUE
    /\ UNCHANGED <<pc, read, answer, landed, pipeline, faults, wrapVars>>

\* close() closes the children; what their reads brought goes with them.
Close ==
    /\ pc = "ended" /\ pc' = "closed"
    /\ UNCHANGED <<env, pipeline, wrapVars>>

Reader == Call \/ TakeReady \/ StartReads \/ WhenAny

Next ==
    \/ Reader \/ Abort \/ Close
    \/ \E c \in Children : ChildReads(c) \/ ChildEnds(c) \/ ChildFails(c)
    \/ \E b \in pipeline, e \in BOOLEAN : Answer(b, e)

Spec == Init /\ [][Next]_vars

\* The children notice the abort, and their end.
Fairness ==
    /\ WF_vars(chosen /\ Reader) /\ WF_vars(chosen /\ Close)
    /\ \A c \in Children : WF_vars(chosen /\ ChildEnds(c))
-----------------------------------------------------------------------------
There == {Got(c) : c \in {d \in Children : reads[d].state = "there"}} \cap Batches

\* A batch some child has read is in one place until it is answered: in its
\* child's read, parked, or in the pipeline.  A close drops what is parked.
NothingOrphaned ==
    pc # "closed" =>
        \A b \in read :
            1 = (IF answer[b] # <<>> THEN 1 ELSE 0) + (IF b \in There THEN 1 ELSE 0)
                + (IF b \in pipeline THEN 1 ELSE 0) + Cardinality({i \in DOMAIN ready : ready[i] = b})

\* A broker that ends by itself has handed out all its children had, however
\* their ends and their last batches fell together.
EndMeansHandedOut ==
    pc = "ended" /\ ~aborted /\ faults = Faults => Cardinality(read) = NBatches /\ ready = <<>> /\ There = {}

\* A drain has ended, with the reads of all children.
DrainOver == pc = "closed"
=============================================================================
