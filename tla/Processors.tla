----------------------------- MODULE Processors -----------------------------
(***************************************************************************)
(* The processors as functions on batches.  The combinators own nested     *)
(* lists, so a pipeline is a tree; a processor gives back any number of    *)
(* batches, or throws.  A message is what it was made from, a tag that     *)
(* decides how mappings and checks treat it, and whether it carries an     *)
(* error.  Tags: "good"; "bad", on which mappings and codecs fail; "drop", *)
(* for which mappings return deleted(); "boom", which throws out of        *)
(* process(); "array", which unarchives to two and is oversized; "empty",  *)
(* which unarchives to nothing; "cut", whose documents break off after the *)
(* first; "sour", for which keys and result mappings fail.                 *)
(***************************************************************************)
EXTENDS Integers, Sequences, FiniteSets, SequencesExt

CONSTANTS
    Programs,  \* pipelines that are looked at: sequences of processors
    Tags,      \* tags of messages
    MaxBatch   \* bound: messages in a batch

\* A processor: its kind, its numbers, its children, and for switch and group_by
\* its cases.
Node(op, n, kids, cases) == [op |-> op, n |-> n, kids |-> kids, cases |-> cases]

\* said and truth are what a workflow recorded for the message, and what was so;
\* fails counts the errors it was given.
Msg(from, tag) ==
    [from |-> from, tag |-> tag, err |-> FALSE, fails |-> 0, said |-> {}, truth |-> {}]

\* set_error, which replaces an error the message carries already.
SetError(m) == [m EXCEPT !.err = TRUE, !.fails = @ + 1]
SetErrorIf(m, cond) == IF cond THEN SetError(m) ELSE m

Marked(b) == [i \in DOMAIN b |-> SetError(b[i])]
Solid(bs) == SelectSeq(bs, LAMBDA b : b # <<>>)
Ids(b)    == UNION {b[i].from : i \in DOMAIN b}

\* What a call of process() does.  w carries the keys dedupe has seen and, for the
\* properties, the messages that a filter took out and those that held nothing.
Ran(bs, w) == [out |-> Solid(bs), threw |-> FALSE, w |-> w]
Raised(w)  == [out |-> <<>>, threw |-> TRUE, w |-> w]
Dropped(w, gone) == [w EXCEPT !.dropped = @ \cup gone]
-----------------------------------------------------------------------------
\* mapping_processor: deleted() filters, a mapping error travels with the message,
\* and anything else that is thrown leaves process().
Mapping(b, w) ==
    IF \E i \in DOMAIN b : b[i].tag = "boom" THEN Raised(w)
    ELSE LET kept == SelectSeq(b, LAMBDA m : m.tag # "drop")
         IN  Ran(<<[i \in DOMAIN kept |-> SetErrorIf(kept[i], kept[i].tag = "bad")]>>,
                 Dropped(w, Ids(b) \ Ids(kept)))

\* log: a line is written for each message, even when it cannot be made.
Log(b, w) == Ran(<<b>>, w)

\* sleep and rate_limit: an abort ends the wait early, and the batch goes on.
Pause(b, w) == Ran(<<b>>, w)

\* compress and decompress: an error travels with the message.
Codec(b, w) == Ran(<<[i \in DOMAIN b |-> SetErrorIf(b[i], b[i].tag = "bad")]>>, w)

\* unarchive: one message becomes many, each with the original's metadata, or none
\* at all ([], {}, no document).  It travels on itself when it does not parse, behind
\* the documents that did.
Unarchive(b, w) ==
    LET part(m)  == [m EXCEPT !.tag = "good"]
        parts(m) == CASE m.tag = "array" -> <<part(m), part(m)>>
                      [] m.tag = "empty" -> <<>>
                      [] m.tag = "cut"   -> <<part(m), SetError(m)>>
                      [] m.tag = "bad"   -> <<SetError(m)>>
                      [] OTHER           -> <<m>>
    IN  Ran(<<FlattenSeq([i \in DOMAIN b |-> parts(b[i])])>>,
            [w EXCEPT !.emptied = @ \cup Ids(SelectSeq(b, LAMBDA m : m.tag = "empty"))])

\* archive: the batch becomes one message with the first one's metadata.
Archive(b, w) == IF b = <<>> THEN Ran(<<>>, w) ELSE Ran(<<<<[b[1] EXCEPT !.from = Ids(b)]>>>>, w)

\* select_parts: in the order listed, from the end when negative; others are skipped.
SelectParts(list, b, w) ==
    LET at(k) == IF k < 0 THEN Len(b) + k ELSE k
        hits  == SelectSeq(list, LAMBDA k : at(k) >= 0 /\ at(k) < Len(b))
        out   == [i \in DOMAIN hits |-> b[at(hits[i]) + 1]]
    IN  Ran(<<out>>, Dropped(w, Ids(b) \ Ids(out)))

\* insert_part: an index from the end when negative, clamped; when the content
\* cannot be made from the first message the batch is left alone.
InsertPart(index, b, w) ==
    LET n == Len(b)
        i == IF index >= 0 THEN IF index > n THEN n ELSE index
             ELSE IF n + index + 1 > 0 THEN n + index + 1 ELSE 0
    IN  IF b # <<>> /\ b[1].tag = "bad" THEN Ran(<<b>>, w)
        ELSE Ran(<<SubSeq(b, 1, i) \o <<Msg({}, "good")>> \o SubSeq(b, i + 1, n)>>, w)

\* bounds_check: one message out of bounds drops the batch.
BoundsCheck(min, max, b, w) ==
    IF Len(b) < min \/ Len(b) > max \/ \E i \in DOMAIN b : b[i].tag = "array"
    THEN Ran(<<>>, Dropped(w, Ids(b)))
    ELSE Ran(<<b>>, w)

\* split by count.
Split(size, b, w) ==
    Ran([k \in 1 .. (Len(b) + size - 1) \div size |->
            SubSeq(b, (k - 1) * size + 1, IF k * size > Len(b) THEN Len(b) ELSE k * size)], w)

\* dedupe: each key in turn goes to the cache; a failure of the key drops the message
\* or marks it, as drop_on_err says.
Dedupe(dropOnErr, b, w) ==
    LET step(acc, m) ==
            CASE m.tag = "sour" -> IF dropOnErr THEN [acc EXCEPT !.w = Dropped(@, m.from)]
                                   ELSE [acc EXCEPT !.kept = Append(@, SetError(m))]
              [] m.tag # "sour" /\ m.tag \in acc.w.seen -> [acc EXCEPT !.w = Dropped(@, m.from)]
              [] OTHER -> [acc EXCEPT !.kept = Append(@, m), !.w = [@ EXCEPT !.seen = @ \cup {m.tag}]]
        r == FoldLeft(step, [kept |-> <<>>, w |-> w], b)
    IN  Ran(<<r.kept>>, r.w)
-----------------------------------------------------------------------------
RECURSIVE Process(_, _, _)

Extended(acc, r) == [r EXCEPT !.out = acc.out \o Solid(@)]

\* One processor over some batches: run_chain's inner loop.
OverBatches(p, bs, w) ==
    FoldLeft(LAMBDA acc, b :
                IF acc.threw THEN acc
                ELSE Extended(acc, Process(p, b, acc.w)),
             Ran(<<>>, w), bs)

\* run_chain: a throw of any of them leaves the chain.
RunChain(chain, b, w) ==
    FoldLeft(LAMBDA acc, p : IF acc.threw THEN acc ELSE OverBatches(p, acc.out, acc.w), Ran(<<b>>, w), chain)

\* What a call that threw has changed: dedupe's keys stay, the messages come back.
Back(w, r) == [r.w EXCEPT !.dropped = w.dropped, !.emptied = w.emptied]

\* try: a throw marks the messages as they came in.
Caught(b, w, r) == IF r.threw THEN Ran(<<Marked(b)>>, Back(w, r)) ELSE r
Try(p, b, w) == Caught(b, w, RunChain(p.kids, b, w))

\* catch: the children see the messages that carry an error, with it cleared.
Catch(p, b, w) ==
    LET failed  == SelectSeq(b, LAMBDA m : m.err)
        cleared == [i \in DOMAIN failed |-> [failed[i] EXCEPT !.err = FALSE]]
        ok      == SelectSeq(b, LAMBDA m : ~m.err)
        joined(r) == IF r.threw THEN r ELSE Ran(<<ok>> \o r.out, r.w)
    IN  IF failed = <<>> THEN Ran(<<ok>>, w) ELSE joined(RunChain(p.kids, cleared, w))

\* for_each: one message at a time, put together again.
ForEach(p, b, w) ==
    LET add(acc, x) == [x EXCEPT !.out = acc.out \o @]
        joined(r)   == IF r.threw THEN r ELSE Ran(<<FlattenSeq(r.out)>>, r.w)
    IN  joined(FoldLeft(LAMBDA acc, m : IF acc.threw THEN acc ELSE add(acc, RunChain(p.kids, <<m>>, acc.w)),
                        Ran(<<>>, w), b))

\* Which case takes a message, 0 for none.
CaseOf(p, m) ==
    LET hits == {i \in DOMAIN p.cases : m.tag \in p.cases[i].tags}
    IN  IF hits = {} THEN 0 ELSE CHOOSE i \in hits : \A j \in hits : i <= j

\* The positions of the batch that go to case c.
Origin(p, b, c) == SelectSeq([i \in DOMAIN b |-> i], LAMBDA i : CaseOf(p, b[i]) = c)

\* A slip: the results of a case follow one another wherever they came from.
InCaseOrder(from, msgs) == [k \in DOMAIN msgs |-> <<1, msgs[k]>>]

\* Where the results of a case belong: each where its message was, or all of them
\* at the last when their number changed.
Placed(from, msgs) ==
    [k \in DOMAIN msgs |-> <<IF Len(msgs) = Len(from) THEN from[k] ELSE Last(from), msgs[k]>>]

\* switch and group_by: the cases in turn, then what matched none.  switch puts the
\* results back into one batch in the order of the input (a stable sort).
Collect(acc, from, x) ==
    [out |-> acc.out \o x.out, threw |-> x.threw, w |-> x.w,
     placed |-> acc.placed \o Placed(from, FlattenSeq(x.out))]

RunCase(p, c, b, w) == IF c = 0 THEN Ran(<<b>>, w) ELSE RunChain(p.cases[c].kids, b, w)

OneBatch(b, r) ==
    LET sorted == FlattenSeq([k \in DOMAIN b |-> SelectSeq(r.placed, LAMBDA x : x[1] = k)])
    IN  Ran(<<[k \in DOMAIN sorted |-> sorted[k][2]]>>, r.w)

SwitchOf(p, b, w, oneBatch) ==
    LET over(acc, c, from) ==
            IF acc.threw \/ from = <<>> THEN acc
            ELSE Collect(acc, from, RunCase(p, c, [k \in DOMAIN from |-> b[from[k]]], acc.w))
        joined(r) ==
            IF r.threw THEN Raised(r.w) ELSE IF oneBatch THEN OneBatch(b, r) ELSE Ran(r.out, r.w)
    IN  joined(FoldLeft(LAMBDA acc, c : over(acc, c, Origin(p, b, c)),
                        [out |-> <<>>, threw |-> FALSE, w |-> w, placed |-> <<>>],
                        [i \in DOMAIN p.cases |-> i] \o <<0>>))
-----------------------------------------------------------------------------
\* branch: requests are made from the messages (deleted() skips one), the children
\* run on them, and result k goes onto the message it came from.  A throw, or
\* another number of results, marks every message.  verdict is what happened to each,
\* and hidden whether a result mapping laid a result that carries an error over it.
Skips(p, m)    == p.n[1] = 1 /\ m.tag = "drop"
Fails(p, m)    == p.n[1] = 1 /\ m.tag = "bad"
Failing(p, b)  == [i \in DOMAIN b |-> SetErrorIf(b[i], Fails(p, b[i]))]
Requests(p, b) == SelectSeq([i \in DOMAIN b |-> i], LAMBDA i : ~Skips(p, b[i]) /\ ~Fails(p, b[i]))

\* The result of a message's request, in a set that is empty when it made none.
ResultOf(i, origin, results) == {results[k] : k \in {j \in DOMAIN origin : origin[j] = i}}

\* The result goes onto the message, or takes its place without a result mapping.
Onto(p, m, found) ==
    IF p.n[2] = 1 THEN SetErrorIf(m, \E x \in found : x.tag = "sour")
    ELSE CHOOSE x \in (IF found = {} THEN {m} ELSE found) : TRUE

\* The children left their own error on the result of m's request.
FailedInside(m, found) == \E x \in found : x.err /\ x.fails > m.fails

Verdict(p, m, found) ==
    CASE Skips(p, m) -> "skipped"
      [] \/ Fails(p, m) \/ FailedInside(m, found)
         \/ p.n[2] = 1 /\ \E x \in found : x.tag = "sour" -> "failed"
      [] OTHER       -> "succeeded"

Spread(p, b, origin, results, w) ==
    [batch   |-> [i \in DOMAIN b |-> Onto(p, Failing(p, b)[i], ResultOf(i, origin, results))], w |-> w,
     skipped |-> [i \in DOMAIN b |-> Skips(p, b[i])],
     verdict |-> [i \in DOMAIN b |-> Verdict(p, b[i], ResultOf(i, origin, results))],
     hidden  |-> [i \in DOMAIN b |-> p.n[2] = 1 /\ FailedInside(b[i], ResultOf(i, origin, results))]]

Broken(p, b, w) ==
    [batch   |-> Marked(b), w |-> w, skipped |-> [i \in DOMAIN b |-> Skips(p, b[i])],
     hidden  |-> [i \in DOMAIN b |-> FALSE],
     verdict |-> [i \in DOMAIN b |-> IF Skips(p, b[i]) THEN "skipped" ELSE "failed"]]

BranchRun(p, b, w) ==
    LET join(origin, r, results) ==
            IF r.threw \/ Len(results) # Len(origin) THEN Broken(p, b, Back(w, r))
            ELSE Spread(p, b, origin, results, r.w)
        run(origin, r) == join(origin, r, FlattenSeq(r.out))
        ask(origin) ==
            IF origin = <<>> THEN Spread(p, b, <<>>, <<>>, w)
            ELSE run(origin, RunChain(p.kids, [k \in DOMAIN origin |-> b[origin[k]]], w))
    IN  ask(Requests(p, b))

Branch(x) == Ran(<<x.batch>>, x.w)

\* workflow: the branches in order.  What it records of a branch for a message:
\* skipped, failed when the message carries an error and carried none before, or
\* else succeeded.  What was so is kept with whether the failure could not show.
Recorded(acc, s, x) ==
    LET says(i) == IF x.skipped[i] THEN "skipped"
                   ELSE IF x.batch[i].err /\ ~acc.b[i].err THEN "failed" ELSE "succeeded"
    IN  [b |-> x.batch, w |-> x.w,
         said  |-> [i \in DOMAIN x.batch |-> acc.said[i] \cup {<<s, says(i)>>}],
         truth |-> [i \in DOMAIN x.batch |->
                        acc.truth[i] \cup {<<s, x.verdict[i], acc.b[i].err \/ x.hidden[i]>>}]]

Workflow(p, b, w) ==
    LET none == [i \in DOMAIN b |-> {}]
        told(r) == Ran(<<[i \in DOMAIN b |-> [r.b[i] EXCEPT !.said = r.said[i], !.truth = r.truth[i]]]>>, r.w)
    IN  told(FoldLeft(LAMBDA acc, s : Recorded(acc, s, BranchRun(p.kids[s], acc.b, acc.w)),
                      [b |-> b, w |-> w, said |-> none, truth |-> none], [s \in DOMAIN p.kids |-> s]))

Process(p, b, w) ==
    CASE p.op = "noop"         -> Ran(<<b>>, w)
      [] p.op = "log"          -> Log(b, w)
      [] p.op \in {"sleep", "rate_limit"} -> Pause(b, w)
      [] p.op = "mapping"      -> Mapping(b, w)
      [] p.op = "codec"        -> Codec(b, w)
      [] p.op = "unarchive"    -> Unarchive(b, w)
      [] p.op = "archive"      -> Archive(b, w)
      [] p.op = "select_parts" -> SelectParts(p.n, b, w)
      [] p.op = "insert_part"  -> InsertPart(p.n[1], b, w)
      [] p.op = "bounds_check" -> BoundsCheck(p.n[1], p.n[2], b, w)
      [] p.op = "split"        -> Split(p.n[1], b, w)
      [] p.op = "dedupe"       -> Dedupe(p.n[1] = 1, b, w)
      [] p.op = "try"          -> Try(p, b, w)
      [] p.op = "catch"        -> Catch(p, b, w)
      [] p.op = "for_each"     -> ForEach(p, b, w)
      [] p.op = "switch"       -> SwitchOf(p, b, w, TRUE)
      [] p.op = "group_by"     -> SwitchOf(p, b, w, FALSE)
      [] p.op = "branch"       -> Branch(BranchRun(p, b, w))
      [] p.op = "workflow"     -> Workflow(p, b, w)

\* The stream's processor layer: a throw marks the batch as it went in.
Layer(acc, cur, r) ==
    IF r.threw THEN [acc EXCEPT !.out = Append(@, Marked(cur)), !.w = Back(@, r)]
    ELSE [acc EXCEPT !.out = @ \o r.out, !.w = r.w]

PipelineRun(chain, b, w) ==
    FoldLeft(LAMBDA acc, p :
                FoldLeft(LAMBDA a, cur : Layer(a, cur, Process(p, cur, a.w)), [out |-> <<>>, w |-> acc.w], acc.out),
             [out |-> <<b>>, w |-> w], chain)
-----------------------------------------------------------------------------
VARIABLES program, given, done   \* the pipeline, its batch, and what came of it

procVars == <<program, given, done>>

Nothing == [out |-> <<>>, w |-> [seen |-> {}, dropped |-> {}, emptied |-> {}], ran |-> FALSE]

Init ==
    /\ program \in Programs /\ done = Nothing
    /\ given \in UNION {[1 .. n -> Tags] : n \in 1 .. MaxBatch}

Batch == [i \in DOMAIN given |-> Msg({i}, given[i])]

Finished(r) == [out |-> r.out, w |-> r.w, ran |-> TRUE]

\* A batch goes through the pipeline.
Run ==
    /\ ~done.ran
    /\ done' = Finished(PipelineRun(program, Batch, Nothing.w))
    /\ UNCHANGED <<program, given>>

Next == Run

Spec == Init /\ [][Next]_procVars
-----------------------------------------------------------------------------
\* Processors that change neither how many messages there are nor their order.
Steady == {"noop", "log", "sleep", "rate_limit", "codec", "try", "for_each", "switch", "branch", "workflow"}

\* The processors a tree is made of.
RECURSIVE Kinds(_)
Kinds(chain) ==
    UNION {{chain[i].op} \cup Kinds(chain[i].kids)
             \cup UNION {Kinds(chain[i].cases[c].kids) : c \in DOMAIN chain[i].cases} : i \in DOMAIN chain}

\* What a workflow says of a branch is so; but a failure is said to be a success on
\* a message that carried an error already, or when a result mapping lays a result
\* with an error over a message that keeps none of it.
SaidIsSo(m) ==
    \A x \in m.said : \E y \in m.truth :
        x[1] = y[1] /\ (x[2] = y[2] \/ (x[2] = "succeeded" /\ y[2] = "failed" /\ y[3]))

\* No message vanishes in a tree of processors: it comes out, perhaps marked, or a
\* filter took it, or it was unarchived and held nothing (run_chain, try, catch,
\* switch, group_by, for_each, branch and the layer's backup).  A tree of steady
\* processors keeps the order.  And what a workflow records of a branch is so
\* (SaidIsSo).
TreeKeepsMessages ==
    LET out == FlattenSeq(done.out) IN
    done.ran =>
        /\ Ids(Batch) \subseteq Ids(out) \cup done.w.dropped \cup done.w.emptied
        /\ Kinds(program) \subseteq Steady => [i \in DOMAIN out |-> out[i].from] = [i \in DOMAIN Batch |-> {i}]
        /\ \A i \in DOMAIN out : SaidIsSo(out[i])
=============================================================================
