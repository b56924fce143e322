--------------------------- MODULE ProcessedInput ---------------------------
(***************************************************************************)
(* `processors` beside an input: they run on what the input read, and what *)
(* they split it into is handed out one piece per call.  An ack_group of   *)
(* the pieces answers the source.                                          *)
(***************************************************************************)
EXTENDS InputSide

VARIABLES
    work,      \* the batch whose processors run
    ready,     \* _ready: the later pieces of split batches
    group      \* the ack_group of each split batch

VARIABLE chosen  \* rigid: a run composes several components, and this is the one at hand

wrapVars == <<work, ready, group>>
vars     == <<sideVars, wrapVars>>
env      == <<aborted, read, answer, landed, faults>>

Init == SideInit /\ work = 0 /\ ready = <<>> /\ group = [b \in Batches |-> NewGroup]
-----------------------------------------------------------------------------
Call ==
    /\ pc = "idle" /\ pc' = IF aborted THEN "ended" ELSE "loop"
    /\ UNCHANGED <<env, pipeline, wrapVars>>

HandOut(piece) == pipeline' = pipeline \cup {piece} /\ pc' = "idle"

TakeReady ==
    /\ pc = "loop" /\ ready # <<>> /\ HandOut(Head(ready)) /\ ready' = Tail(ready)
    /\ UNCHANGED <<env, work, group>>

\* An empty batch is acked and the next one read.
Read ==
    LET b == NextBatch IN
    /\ pc = "loop" /\ ready = <<>> /\ b \in Batches /\ read' = read \cup {b}
    /\ IF Sizes[b] = 0 THEN Told(b, "ack") /\ UNCHANGED <<pc, work>>
                       ELSE pc' = "processing" /\ work' = b /\ UNCHANGED answer
    /\ UNCHANGED <<aborted, landed, pipeline, faults, ready, group>>

\* The end of the source is the end of the input, and so is its error.
ReadEnds ==
    /\ pc = "loop" /\ ready = <<>> /\ pc' = "ended"
    /\ \/ Exhausted /\ UNCHANGED faults
       \/ Fails
    /\ UNCHANGED <<aborted, read, answer, landed, pipeline, wrapVars>>

Throws ==
    /\ pc = "processing" /\ Fails /\ Told(work, "nack") /\ pc' = "loop" /\ work' = 0
    /\ UNCHANGED <<aborted, read, landed, pipeline, ready, group>>

Filtered ==
    /\ pc = "processing" /\ Told(work, "ack") /\ pc' = "loop" /\ work' = 0
    /\ Landed([i \in 1 .. Sizes[work] |-> work])
    /\ UNCHANGED <<aborted, read, pipeline, faults, ready, group>>

\* A slip: the group of the pieces is not sealed.
SealedNever(g) == g

Sealed(g) == Seal(g)

\* Each piece, here of one message, gets a child of the group; the first is
\* handed out and the others wait for their calls.
Split ==
    LET piece(i) == <<work, i>>
        n == Sizes[work]
    IN  /\ pc = "processing" /\ HandOut(piece(1)) /\ work' = 0
        /\ ready' = ready \o [i \in 1 .. n - 1 |-> piece(i + 1)]
        /\ group' = [group EXCEPT ![work] = Sealed(AddChildren(@, n))]
        /\ UNCHANGED env

Answer(p, e) ==
    LET b == p[1]
        g == ChildDone(group[b], e)
    IN  /\ p \in pipeline /\ pipeline' = pipeline \ {p} /\ group' = [group EXCEPT ![b] = g]
        /\ IF g.fired /\ ~group[b].fired THEN Told(b, Verdict(g)) ELSE UNCHANGED answer
        /\ IF e THEN UNCHANGED landed ELSE Landed(<<b>>)
        /\ UNCHANGED <<pc, aborted, read, faults, work, ready>>

Abort ==
    /\ ~aborted /\ ~Over /\ aborted' = TRUE
    /\ UNCHANGED <<pc, read, answer, landed, pipeline, faults, wrapVars>>

\* close() closes the processors and the input, and says nothing of what is
\* ready: the parked pieces go with the input, and nobody answers for them.
Close ==
    /\ pc = "ended" /\ pc' = "closed" /\ ready' = <<>>
    /\ UNCHANGED <<env, pipeline, work, group>>

Reader == Call \/ TakeReady \/ Read \/ ReadEnds \/ Throws \/ Filtered \/ Split

Next == Reader \/ Abort \/ Close \/ \E p \in pipeline, e \in BOOLEAN : Answer(p, e)

Spec == Init /\ [][Next]_vars

\* The fiber is scheduled, processors return, an aborted source ends.
Fairness ==
    /\ WF_vars(chosen /\ (Call \/ TakeReady \/ Throws \/ Filtered \/ Split))
    /\ WF_vars(chosen /\ aborted /\ ReadEnds) /\ WF_vars(chosen /\ Close)
-----------------------------------------------------------------------------
\* An answer can still come for every unanswered batch: its processors run, or
\* one of its pieces is in the pipeline or waits to be handed out.  Only the close
\* of an input that was told to drain forgets a batch, with the pieces it parked.
NothingOrphaned ==
    \A b \in Unanswered :
        \/ work = b
        \/ \E p \in pipeline \cup Range(ready) : p[1] = b
        \/ pc = "closed" /\ aborted

\* A drain has ended: the fiber left the loop over the parked pieces.
DrainOver == pc = "closed"
=============================================================================
