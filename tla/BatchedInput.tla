--------------------------- MODULE BatchedInput ---------------------------
(***************************************************************************)
(* `batching` beside an input: source batches are assembled into one by a  *)
(* policy.  A source batch may end up in several assemblies and an         *)
(* assembly may span several source batches, so each source batch has an   *)
(* ack_group with a child per assembly it feeds, sealed when its last      *)
(* message is drawn.  A fill fiber reads one batch ahead; reader and       *)
(* filler wake each other through two condition variables.                 *)
(***************************************************************************)
EXTENDS InputSide

CONSTANTS
    Count,     \* batch_policy::_count
    Period     \* whether the policy has a period

PolicyAssumption == Count \in Nat \ {0} /\ Period \in BOOLEAN

VARIABLES
    filler,    \* where fill_loop is
    pending,   \* _pending: at most one parked batch and how much of it is drawn
    assembly,  \* _assembly: the number of the assembly in progress
    kids,      \* _children: the source batch of each child of the assembly
    parts,     \* batch_policy::_parts: the source batch of each message drawn
    late,      \* the period has passed since the last flush
    srcDone,   \* _source_done
    group,     \* the ack_group of each source batch
    out        \* the assembly whose processors run in flush()

VARIABLE chosen  \* rigid: a run composes several components, and this is the one at hand

wrapVars == <<filler, pending, assembly, kids, parts, late, srcDone, group, out>>
vars     == <<sideVars, wrapVars>>
env      == <<aborted, read, answer, landed, pipeline, faults>>
asm      == <<assembly, kids, parts, late>>

NoAssembly == [id |-> 0, kids |-> <<>>, parts |-> <<>>]

Init ==
    /\ SideInit
    /\ filler = "reading" /\ pending = <<>> /\ kids = <<>> /\ parts = <<>> /\ out = NoAssembly
    /\ assembly = 1
    /\ late = FALSE /\ srcDone = FALSE /\ group = [b \in Batches |-> NewGroup]
-----------------------------------------------------------------------------
\* Time passes: the period of the policy ends.
Tick ==
    /\ Period /\ ~late /\ ~Over /\ late' = TRUE
    /\ UNCHANGED <<sideVars, filler, pending, assembly, kids, parts, srcDone, group, out>>

Call ==
    /\ pc = "idle" /\ pc' = IF aborted THEN "ended" ELSE "draw"
    /\ UNCHANGED <<env, wrapVars>>

\* batch_policy::add, applied until it triggers or the batch is used up: how
\* many messages of the n at hand are drawn.
DrawnOf(n) ==
    LET room == Count - Len(parts) IN IF late THEN 1 ELSE IF n < room THEN n ELSE room

Triggered(n) == late \/ Len(parts) + DrawnOf(n) >= Count

\* The assembly in progress takes one child of each batch it draws from.
MustCharge(p) == p.charged # assembly

\* The reader takes what it can from the parked batch.  A batch drawn to its
\* end is sealed, which cannot fire it: the assembly holds a child of it.
Draw ==
    LET p == Head(pending)
        left == Sizes[p.b] - p.drawn
        n == DrawnOf(left)
        g == IF MustCharge(p) THEN AddChild(group[p.b]) ELSE group[p.b]
    IN  /\ pc = "draw" /\ pending # <<>>
        /\ kids' = IF MustCharge(p) THEN Append(kids, p.b) ELSE kids
        /\ parts' = parts \o [i \in 1 .. n |-> p.b]
        /\ IF n = left
           THEN /\ pending' = <<>> /\ filler' = IF filler = "parked" THEN "reading" ELSE filler
                /\ group' = [group EXCEPT ![p.b] = Seal(g)]
           ELSE /\ pending' = <<[p EXCEPT !.drawn = @ + n, !.charged = assembly]>>
                /\ group' = [group EXCEPT ![p.b] = g]
                /\ UNCHANGED filler
        /\ pc' = IF Triggered(left) THEN "flush" ELSE "look"
        /\ UNCHANGED <<env, assembly, late, srcDone,
                       out>>

NothingToDraw ==
    /\ pc = "draw" /\ pending = <<>> /\ pc' = "look"
    /\ UNCHANGED <<env, wrapVars>>

\* Nothing triggered: the leftover of a source that ended is flushed, or the
\* reader waits, for the filler and for what is left of the period.  A period
\* that has passed by now gives a wait without an end.
Look ==
    /\ pc = "look"
    /\ pc' = CASE srcDone /\ pending = <<>> -> IF parts = <<>> THEN "ended" ELSE "flush"
               [] OTHER ->
                  IF aborted THEN "ended"
                  ELSE IF Period /\ parts # <<>> /\ ~late THEN "timed" ELSE "wait"
    /\ UNCHANGED <<env, wrapVars>>

TimedOut ==
    /\ pc = "timed" /\ late /\ pc' = IF parts = <<>> THEN "draw" ELSE "flush"
    /\ UNCHANGED <<env, wrapVars>>

\* flush(): what was drawn and its children leave the policy together, and the
\* period starts again.
Flush ==
    /\ pc = "flush" /\ pc' = "processing"
    /\ out' = [id |-> assembly, kids |-> kids, parts |-> parts] /\ assembly' = assembly + 1
    /\ kids' = <<>> /\ parts' = <<>> /\ late' = FALSE
    /\ UNCHANGED <<env, filler, pending, srcDone,
                   group>>

\* Every child of an assembly is told; a batch whose last child it was answers
\* its source.
Resolve(groups, children, e) ==
    /\ group' = [b \in Batches |->
            ChildrenDone(groups[b], e, Cardinality({i \in DOMAIN children : children[i] = b}))]
    /\ answer' = [b \in Batches |->
            IF group'[b].fired /\ ~group[b].fired THEN Append(answer[b], Verdict(group'[b]))
                                                  ELSE answer[b]]

\* The processors of the policy: they pass the assembly on, filter all of it,
\* or throw, and then every source that fed it is nacked.
PassOn ==
    /\ pc = "processing" /\ pc' = "idle" /\ pipeline' = pipeline \cup {out} /\ out' = NoAssembly
    /\ UNCHANGED <<aborted, read, answer, landed, faults, filler, pending, asm,
                   srcDone, group>>

FilterAll ==
    /\ pc = "processing" /\ pc' = "draw" /\ Resolve(group, out.kids, FALSE) /\ Landed(out.parts)
    /\ out' = NoAssembly
    /\ UNCHANGED <<aborted, read, pipeline, faults, filler, pending, asm, srcDone>>

ProcessorThrows ==
    /\ pc = "processing" /\ pc' = "draw" /\ Fails /\ Resolve(group, out.kids, TRUE) /\ out' = NoAssembly
    /\ UNCHANGED <<aborted, read, landed, pipeline, filler, pending, asm, srcDone>>
-----------------------------------------------------------------------------
(* fill_loop.  Reader and filler run on one shard: between the reader's look *)
(* at the parked batch and its wait nothing else runs.                       *)

Woken(p) == IF p \in {"wait", "timed"} THEN "draw" ELSE p

Parked(b) == [b |-> b, drawn |-> 0, charged |-> 0]

Reading == filler = "reading" /\ pc # "look"

\* One batch is parked; after an abort the loop ends, with the batch parked.
FillBatch ==
    /\ Reading /\ ~Exhausted /\ read' = read \cup {NextBatch}
    /\ IF Sizes[NextBatch] = 0
       THEN Told(NextBatch, "ack") /\ UNCHANGED <<pc, pending, filler>>
       ELSE /\ pending' = <<Parked(NextBatch)>> /\ filler' = "parked" /\ pc' = Woken(pc)
            /\ UNCHANGED answer
    /\ UNCHANGED <<aborted, landed, pipeline, faults, asm, srcDone, group, out>>

\* A read that was under way when the abort came may still bring a batch.
FillLate ==
    /\ Reading /\ aborted /\ NextBatch \in Batches /\ Sizes[NextBatch] > 0
    /\ read' = read \cup {NextBatch} /\ pending' = <<Parked(NextBatch)>> /\ filler' = "ended" /\ srcDone' = TRUE
    /\ UNCHANGED <<pc, aborted, answer, landed, pipeline, faults, asm, group, out>>

\* A slip: the reader is not woken at the end of the source.
FillEndQuietly ==
    /\ Reading
    /\ \/ Exhausted /\ UNCHANGED faults
       \/ Fails
    /\ filler' = "ended" /\ srcDone' = TRUE
    /\ UNCHANGED <<pc, aborted, read, answer, landed, pipeline, pending, asm, group, out>>

\* The source ends, or fails, which the wrapper takes for its end.
FillEnd ==
    /\ Reading
    /\ \/ Exhausted /\ UNCHANGED faults
       \/ Fails
    /\ filler' = "ended" /\ srcDone' = TRUE /\ pc' = Woken(pc)
    /\ UNCHANGED <<aborted, read, answer, landed, pipeline, pending, asm, group, out>>
-----------------------------------------------------------------------------
\* The pipeline acks or nacks an assembly, at any time.
Answer(a, e) ==
    /\ a \in pipeline /\ pipeline' = pipeline \ {a} /\ Resolve(group, a.kids, e)
    /\ IF e THEN UNCHANGED landed ELSE Landed(a.parts)
    /\ UNCHANGED <<pc, aborted, read, faults, filler, pending, asm, srcDone, out>>

\* The abort breaks both condition variables under whoever waits.
Abort ==
    /\ ~aborted /\ ~Over /\ pc # "look" /\ aborted' = TRUE
    /\ pc' = IF pc \in {"wait", "timed"} THEN "ended" ELSE pc
    /\ filler' = IF filler = "parked" THEN "ended" ELSE filler
    /\ UNCHANGED <<read, answer, landed, pipeline, faults, pending, asm, srcDone,
                   group, out>>

CloseBegin ==
    /\ pc = "ended" /\ pc' = "closing" /\ filler' = IF filler = "parked" THEN "ended" ELSE filler
    /\ UNCHANGED <<env, pending, asm,
                   srcDone, group, out>>

\* abandon(): once the filler is gone, the children of the unfinished assembly
\* are nacked, and then what is parked, through a last child of a sealed group.
Abandon ==
    LET parked == [i \in DOMAIN pending |-> pending[i].b]
        sealed == [b \in Batches |->
                     IF b \in Range(parked) THEN Seal(AddChild(group[b])) ELSE group[b]]
    IN  /\ pc = "closing" /\ filler = "ended" /\ pc' = "closed"
        /\ Resolve(sealed, kids \o parked, TRUE) /\ kids' = <<>> /\ pending' = <<>>
        /\ UNCHANGED <<aborted, read, landed, pipeline, faults, filler, parts, assembly, late,
                       srcDone, out>>
-----------------------------------------------------------------------------
Reader ==
    \/ Call \/ Draw \/ NothingToDraw \/ Look \/ TimedOut \/ Flush \/ PassOn \/ FilterAll
    \/ ProcessorThrows

Next ==
    \/ Reader \/ Tick \/ FillBatch \/ FillLate \/ FillEnd \/ Abort \/ CloseBegin \/ Abandon
    \/ \E a \in pipeline, e \in BOOLEAN : Answer(a, e)

Spec == Init /\ [][Next]_vars
-----------------------------------------------------------------------------
\* The fiber is scheduled, processors return, time passes, a source that has
\* nothing more says so, and the stream closes an input that has ended.
Fairness ==
    WF_vars(chosen /\ Reader) /\ WF_vars(chosen /\ Tick) /\ WF_vars(chosen /\ Exhausted /\ FillEnd)
    /\ WF_vars(chosen /\ (CloseBegin \/ Abandon))
-----------------------------------------------------------------------------
\* A batch of the source that is not answered is somewhere an answer can still
\* come from: parked, charged to the assembly in progress, or in the pipeline.
Reachable(b) ==
    \/ b \in {pending[i].b : i \in DOMAIN pending}
    \/ b \in Range(kids) \cup Range(out.kids)
    \/ \E a \in pipeline : b \in Range(a.kids)

NothingOrphaned == \A b \in Unanswered : Reachable(b)

\* The input has ended and the policy holds nothing back, which no trigger would
\* have flushed.
NothingHeldBack == Over /\ (parts = <<>> \/ aborted)

\* A drain has ended: the reader and the filler came back from wherever they waited.
DrainOver == pc = "closed"
=============================================================================
