--------------------------- MODULE WrapperProofs ---------------------------
(***************************************************************************)
(* What is proved of the inputs of MCInputs that stand between a source    *)
(* and the stream: what batching, the processors and http_server have      *)
(* taken in stays where its answer can reach it, and is answered rightly;  *)
(* the buffer, which answers at its door, loses none of what it took and   *)
(* counts its room.  Each has an inductive invariant of its own, for every *)
(* number of batches, messages and requests; InputProofs puts them under   *)
(* the specification that composes them.                                   *)
(***************************************************************************)
EXTENDS MCInputs, FiniteSetTheorems, SequenceTheorems, WellFoundedInduction, TLAPS

\* What a sequence holds, it holds once.
Once(s) == \A i, j \in 1 .. Len(s) : s[i] = s[j] => i = j

\* What a sequence after another holds, and where.
LEMMA Joined ==
    ASSUME NEW Items, NEW s \in Seq(Items), NEW t \in Seq(Items)
    PROVE  /\ s \o t \in Seq(Items) /\ Len(s \o t) = Len(s) + Len(t) /\ Len(s) \in Nat /\ Len(t) \in Nat
           /\ \A i \in 1 .. Len(s) : (s \o t)[i] = s[i]
           /\ \A i \in 1 .. Len(t) : (s \o t)[Len(s) + i] = t[i]
    OBVIOUS

-----------------------------------------------------------------------------
(* ProcessedInput                                                            *)

LEMMA ProcessedCounts ==
    ASSUME NEW Items
    PROVE  P!Cardinality(Items) = Cardinality(Items)
    BY DEF P!Cardinality, Cardinality

\* The pieces of split batches, and those of one of them.
Pieces == P!Batches \X Nat
PiecesOf(b) == {p \in pipeline \cup P!Range(ready) : p[1] = b}

ProcessedTypes ==
    /\ Cardinality(read) \in 0 .. P!NBatches /\ read = 1 .. Cardinality(read)
    /\ work \in P!Batches \cup {0} /\ (pc = "processing" <=> work # 0)
    /\ ready \in Seq(Pieces) /\ pipeline \subseteq Pieces /\ IsFiniteSet(pipeline)
    /\ group \in [P!Batches -> P!Groups] /\ landed \in [P!Batches -> Nat]
    /\ answer \in [P!Batches -> {<<>>, <<"ack">>, <<"nack">>}]

\* The close of a drained input: the pieces it parked are gone.
Forgets == pc = "closed" /\ aborted

\* A batch that was not split is unread, at hand or answered; of one that was, the
\* group counts the pieces that are out, and answers with the last of them.
BatchInv(b) ==
    /\ ~group[b].sealed =>
        /\ group[b] = P!NewGroup /\ PiecesOf(b) = {}
        /\ \/ answer[b] = <<>> /\ landed[b] = 0 /\ (b \in read <=> work = b)
           \/ /\ answer[b] # <<>> /\ b \in read /\ work # b
              /\ answer[b] = <<"ack">> => landed[b] = Sizes[b]
    /\ group[b].sealed =>
        /\ b \in read /\ work # b
        /\ group[b].pending >= Cardinality(PiecesOf(b))
        /\ Forgets \/ group[b].pending = Cardinality(PiecesOf(b))
        /\ group[b].fired <=> group[b].pending = 0
        /\ answer[b] = IF group[b].fired THEN <<P!Verdict(group[b])>> ELSE <<>>
        /\ ~group[b].err => landed[b] + group[b].pending = Sizes[b]

ProcessedInv ==
    /\ ProcessedTypes
    /\ Once(ready) /\ pipeline \cap P!Range(ready) = {}
    /\ work # 0 => ready = <<>> /\ Sizes[work] > 0
    /\ pc = "ended" /\ ~aborted => ready = <<>>
    /\ \A b \in P!Batches : BatchInv(b)

\* The batches, what a sequence of pieces holds, and the empty group.
LEMMA ProcessedFacts ==
    ASSUME P!InputAssumption
    PROVE  /\ P!NBatches \in Nat /\ P!Batches = 1 .. P!NBatches
           /\ \A b \in P!Batches : Sizes[b] \in Nat
           /\ P!NewGroup \in P!Groups /\ P!Range(<<>>) = {}
           /\ P!NewGroup.pending = 0 /\ ~P!NewGroup.sealed /\ ~P!NewGroup.fired /\ ~P!NewGroup.err
<1>1. P!NBatches \in Nat /\ P!Batches = 1 .. P!NBatches /\ \A b \in P!Batches : Sizes[b] \in Nat
    BY DEF P!InputAssumption, P!NBatches, P!Batches
<1>2. P!Range(<<>>) = {}
    BY DEF P!Range
<1> QED  BY <1>1, <1>2 DEF P!NewGroup, P!Groups

\* add_child, called n times, counts; seal, of a group with children, only closes it.
LEMMA GroupSteps ==
    ASSUME NEW g \in P!Groups
    PROVE  /\ \A n \in Nat : P!AddChildren(g, n)
                = [pending |-> g.pending + n, sealed |-> g.sealed, fired |-> g.fired, err |-> g.err]
           /\ ~P!SealFires(g) => P!Seal(g)
                = [pending |-> g.pending, sealed |-> TRUE, fired |-> g.fired, err |-> g.err]
<1>1. ASSUME NEW n \in Nat
      PROVE  P!AddChildren(g, n)
                = [pending |-> g.pending + n, sealed |-> g.sealed, fired |-> g.fired, err |-> g.err]
    BY DEF P!Groups, P!AddChildren
<1>2. ASSUME ~P!SealFires(g)
      PROVE  P!Seal(g) = [pending |-> g.pending, sealed |-> TRUE, fired |-> g.fired, err |-> g.err]
    <2>1. (g.fired \/ P!SealFires(g)) = g.fired
        BY <1>2 DEF P!Groups
    <2>2. P!Seal(g) = [g EXCEPT !.sealed = TRUE, !.fired = g.fired \/ P!SealFires(g)]
        BY DEF P!Seal
    <2>3. P!Seal(g) = [g EXCEPT !.sealed = TRUE, !.fired = g.fired]
        BY <2>1, <2>2
    <2> QED  BY <2>3 DEF P!Groups
<1> QED  BY <1>1, <1>2

LEMMA ProcessedInit ==
    ASSUME P!InputAssumption, P!Init
    PROVE  ProcessedInv
<1>1. /\ pc = "idle" /\ read = {} /\ pipeline = {} /\ ready = <<>> /\ work = 0
      /\ answer = [b \in P!Batches |-> <<>>] /\ landed = [b \in P!Batches |-> 0]
      /\ group = [b \in P!Batches |-> P!NewGroup]
    BY DEF P!Init, P!SideInit
<1>2. Cardinality(read) = 0 /\ read = 1 .. 0 /\ IsFiniteSet(pipeline)
    BY <1>1, FS_EmptySet
<1>3. ProcessedTypes
    BY <1>1, <1>2, ProcessedFacts DEF ProcessedTypes
<1>4. \A b \in P!Batches : PiecesOf(b) = {}
    BY <1>1, ProcessedFacts DEF PiecesOf
<1>5. \A b \in P!Batches : BatchInv(b)
    BY <1>1, <1>4, ProcessedFacts DEF BatchInv
<1> QED  BY <1>1, <1>3, <1>5, ProcessedFacts DEF ProcessedInv, Once

\* What moves no batch and no piece.
LEMMA ProcessedStays ==
    ASSUME ProcessedInv, UNCHANGED <<read, answer, landed, pipeline, ready, work, group>>,
           pc' = "processing" <=> pc = "processing", Forgets => Forgets',
           pc' = "ended" /\ ~aborted' => ready = <<>>
    PROVE  ProcessedInv'
<1>1. Cardinality(read)' = Cardinality(read)
    OBVIOUS
<1>2. ProcessedTypes'
    BY <1>1 DEF ProcessedInv, ProcessedTypes
<1>3. \A b \in P!Batches : PiecesOf(b)' = PiecesOf(b)
    BY DEF PiecesOf
<1>4. \A b \in P!Batches : Cardinality(PiecesOf(b))' = Cardinality(PiecesOf(b))
    BY <1>3
<1>5. \A b \in P!Batches : BatchInv(b)'
    BY <1>3, <1>4 DEF ProcessedInv, BatchInv
<1> QED  BY <1>2, <1>5 DEF ProcessedInv, Once

LEMMA ProcessedFiber ==
    ASSUME ProcessedInv,
           P!Call \/ P!ReadEnds \/ P!Abort \/ UNCHANGED P!vars
    PROVE  ProcessedInv'
<1>1. CASE P!Call
    BY <1>1, ProcessedStays DEF P!Call, P!env, P!wrapVars, Forgets
<1>2. CASE P!ReadEnds
    BY <1>2, ProcessedStays DEF P!ReadEnds, P!wrapVars, Forgets
<1>3. CASE P!Abort
    BY <1>3, ProcessedStays DEF P!Abort, P!wrapVars, P!Over, Forgets
<1>5. CASE UNCHANGED P!vars
    BY <1>5, ProcessedStays DEF P!vars, P!sideVars, P!wrapVars, ProcessedInv, Forgets
<1> QED  BY <1>1, <1>2, <1>3, <1>5

\* The close forgets the pieces that are parked, and only after a drain are there any.
LEMMA ProcessedClose ==
    ASSUME P!InputAssumption, ProcessedInv, P!Close
    PROVE  ProcessedInv'
<1>1. /\ pc = "ended" /\ pc' = "closed" /\ ready' = <<>>
      /\ UNCHANGED <<aborted, read, answer, landed, faults, pipeline, work, group>>
    BY DEF P!Close, P!env
<1>2. P!Range(ready)' = {} /\ P!Range(<<>>) = {}
    BY <1>1, ProcessedFacts DEF P!Range
<1>3. IsFiniteSet(pipeline \cup P!Range(ready))
    <2>1. P!Range(ready) = {ready[i] : i \in 1 .. Len(ready)} /\ Len(ready) \in Nat
        BY DEF P!Range, ProcessedInv, ProcessedTypes
    <2>2. IsFiniteSet(1 .. Len(ready))
        BY <2>1, FS_Interval
    <2>3. ready \in Surjection(1 .. Len(ready), P!Range(ready))
        BY <2>1 DEF Surjection, ProcessedInv, ProcessedTypes
    <2>4. IsFiniteSet(P!Range(ready))
        BY <2>2, <2>3, FS_Surjection
    <2> QED  BY <2>4, FS_Union DEF ProcessedInv, ProcessedTypes
<1>4. ASSUME NEW b \in P!Batches PROVE BatchInv(b)'
    <2>1. PiecesOf(b)' \subseteq PiecesOf(b) /\ (~aborted => PiecesOf(b)' = PiecesOf(b))
        BY <1>1, <1>2 DEF PiecesOf, ProcessedInv
    <2>2. IsFiniteSet(PiecesOf(b))
        <3>1. PiecesOf(b) \subseteq pipeline \cup P!Range(ready)
            BY DEF PiecesOf
        <3> QED  BY <1>3, <3>1, FS_Subset
    <2>3. /\ Cardinality(PiecesOf(b)') \in Nat /\ Cardinality(PiecesOf(b)) \in Nat
          /\ Cardinality(PiecesOf(b)') <= Cardinality(PiecesOf(b))
        BY <2>1, <2>2, FS_Subset, FS_CardinalityType
    <2>4. ~aborted => Cardinality(PiecesOf(b)') = Cardinality(PiecesOf(b))
        BY <2>1
    <2>5. Cardinality(PiecesOf(b))' = Cardinality(PiecesOf(b)')
        OBVIOUS
    <2>6. BatchInv(b) /\ group[b].pending \in Nat /\ ~Forgets /\ (aborted => Forgets')
        BY <1>1 DEF ProcessedInv, ProcessedTypes, P!Groups, Forgets
    <2>7. CASE ~group[b].sealed
        BY <1>1, <2>1, <2>6, <2>7 DEF BatchInv
    <2>8. CASE group[b].sealed
        <3>1. group[b].pending = Cardinality(PiecesOf(b))
            BY <2>6, <2>8 DEF BatchInv
        <3>2. group[b].pending >= Cardinality(PiecesOf(b)')
            BY <2>3, <3>1
        <3>3. Forgets' \/ group[b].pending = Cardinality(PiecesOf(b)')
            BY <2>4, <2>6, <3>1
        <3> QED  BY <1>1, <2>5, <2>6, <2>8, <3>2, <3>3 DEF BatchInv
    <2> QED  BY <2>7, <2>8
<1>5. ProcessedTypes'
    <2>1. Cardinality(read)' = Cardinality(read)
        BY <1>1
    <2> QED  BY <1>1, <2>1 DEF ProcessedInv, ProcessedTypes
<1>6. Once(ready') /\ (work' # 0 => ready' = <<>> /\ Sizes[work'] > 0)
    BY <1>1 DEF ProcessedInv, Once
<1> QED  BY <1>1, <1>2, <1>4, <1>5, <1>6 DEF ProcessedInv, Once

\* A piece that waited for its call goes to the pipeline.
LEMMA ProcessedTakeReady ==
    ASSUME P!InputAssumption, ProcessedInv, P!TakeReady
    PROVE  ProcessedInv'
<1>1. /\ pc = "loop" /\ ready # <<>> /\ ready' = Tail(ready) /\ pc' = "idle"
      /\ pipeline' = pipeline \cup {Head(ready)}
      /\ UNCHANGED <<read, answer, landed, work, group>>
    BY DEF P!TakeReady, P!HandOut, P!env
<1>2. PICK h \in Pieces : h = Head(ready)
    BY <1>1 DEF ProcessedInv, ProcessedTypes
<1>3. /\ ready \in Seq(Pieces) /\ ready' \in Seq(Pieces) /\ Len(ready) \in Nat /\ Len(ready) > 0
      /\ Len(ready') = Len(ready) - 1 /\ h = ready[1]
      /\ \A i \in 1 .. Len(ready) - 1 : ready'[i] = ready[i + 1]
    BY <1>1, <1>2, HeadTailProperties DEF ProcessedInv, ProcessedTypes
<1>4. Once(ready')
    <2> SUFFICES ASSUME NEW i \in 1 .. Len(ready) - 1, NEW j \in 1 .. Len(ready) - 1,
                        ready'[i] = ready'[j]
                 PROVE  i = j
        BY <1>3 DEF Once
    <2>1. i + 1 \in 1 .. Len(ready) /\ j + 1 \in 1 .. Len(ready) /\ ready[i + 1] = ready[j + 1]
        BY <1>3
    <2>2. i + 1 = j + 1
        BY <2>1 DEF ProcessedInv, Once
    <2> QED  BY <2>2
<1>5. P!Range(ready) = {ready[i] : i \in 1 .. Len(ready)} /\ P!Range(ready)' = {ready'[i] : i \in 1 .. Len(ready')}
    BY <1>3 DEF P!Range
<1>6. P!Range(ready)' = P!Range(ready) \ {h} /\ h \in P!Range(ready)
    <2>1. ASSUME NEW i \in 1 .. Len(ready), ready[i] # h
          PROVE  \E j \in 1 .. Len(ready') : ready'[j] = ready[i]
        <3>1. i - 1 \in 1 .. Len(ready') /\ (i - 1) + 1 = i
            BY <1>3, <2>1
        <3> QED  BY <1>3, <3>1
    <2>2. ASSUME NEW j \in 1 .. Len(ready')
          PROVE  ready'[j] # h /\ \E i \in 1 .. Len(ready) : ready[i] = ready'[j]
        <3>1. j + 1 \in 1 .. Len(ready) /\ 1 \in 1 .. Len(ready) /\ j + 1 # 1 /\ ready'[j] = ready[j + 1]
            BY <1>3
        <3> QED  BY <1>3, <3>1 DEF ProcessedInv, Once
    <2>3. 1 \in 1 .. Len(ready)
        BY <1>3
    <2>4. h \in P!Range(ready)
        BY <1>3, <1>5, <2>3
    <2>5. P!Range(ready)' \subseteq P!Range(ready) \ {h}
        BY <1>5, <2>2
    <2>6. P!Range(ready) \ {h} \subseteq P!Range(ready)'
        BY <1>5, <2>1
    <2> QED  BY <2>4, <2>5, <2>6
<1>7. \A b \in P!Batches : PiecesOf(b)' = PiecesOf(b)
    BY <1>1, <1>2, <1>6 DEF PiecesOf
<1>8. \A b \in P!Batches : Cardinality(PiecesOf(b))' = Cardinality(PiecesOf(b))
    BY <1>7
<1>9. \A b \in P!Batches : BatchInv(b)'
    BY <1>1, <1>7, <1>8 DEF ProcessedInv, BatchInv, Forgets
<1>10. ProcessedTypes'
    <2>1. Cardinality(read)' = Cardinality(read)
        BY <1>1
    <2>2. IsFiniteSet(pipeline)'
        BY <1>1, FS_AddElement DEF ProcessedInv, ProcessedTypes
    <2> QED  BY <1>1, <1>2, <1>3, <2>1, <2>2 DEF ProcessedInv, ProcessedTypes
<1>11. work' = 0
    BY <1>1 DEF ProcessedInv, ProcessedTypes
<1> QED  BY <1>1, <1>2, <1>4, <1>6, <1>9, <1>10, <1>11 DEF ProcessedInv

\* The next batch goes to the processors, or is answered at once if it is empty.
LEMMA ProcessedRead ==
    ASSUME P!InputAssumption, ProcessedInv, P!Read
    PROVE  ProcessedInv'
<1>1. PICK b \in P!Batches :
        /\ b = P!NextBatch /\ pc = "loop" /\ ready = <<>> /\ read' = read \cup {b}
        /\ IF Sizes[b] = 0 THEN P!Told(b, "ack") /\ UNCHANGED <<pc, work>>
                           ELSE pc' = "processing" /\ work' = b /\ UNCHANGED answer
        /\ UNCHANGED <<landed, pipeline, ready, group>>
    BY DEF P!Read
<1> DEFINE n == Cardinality(read)
<1>2. b = n + 1 /\ n \in Nat /\ read = 1 .. n /\ n + 1 \in 1 .. P!NBatches /\ P!NBatches \in Nat
    BY <1>1, ProcessedCounts, ProcessedFacts DEF P!NextBatch, ProcessedInv, ProcessedTypes
<1> HIDE DEF n
<1>3. read' = 1 .. n + 1 /\ b \notin read
    BY <1>1, <1>2
<1>4. Cardinality(read)' = n + 1
    BY <1>2, <1>3, FS_Interval
<1>5. work = 0 /\ b # 0
    BY <1>1, <1>2 DEF ProcessedInv, ProcessedTypes
<1>6. /\ ~group[b].sealed /\ group[b] = P!NewGroup /\ PiecesOf(b) = {}
      /\ answer[b] = <<>> /\ landed[b] = 0
    BY <1>1, <1>3 DEF ProcessedInv, BatchInv
<1>7. /\ \A x \in P!Batches : PiecesOf(x)' = PiecesOf(x)
      /\ \A x \in P!Batches : Cardinality(PiecesOf(x))' = Cardinality(PiecesOf(x))
    <2>1. \A x \in P!Batches : PiecesOf(x)' = PiecesOf(x)
        BY <1>1 DEF PiecesOf
    <2> QED  BY <2>1
<1>8. \A x \in P!Batches : x # b => (x \in read' <=> x \in read)
    BY <1>1
<1>9. CASE Sizes[b] = 0
    <2>1. answer' = [answer EXCEPT ![b] = <<"ack">>] /\ UNCHANGED <<pc, work>>
        <3>1. Append(<<>>, "ack") = <<"ack">>
            OBVIOUS
        <3> QED  BY <1>1, <1>6, <1>9, <3>1 DEF P!Told
    <2>2. ProcessedTypes'
        <3>1. (Cardinality(read) \in 0 .. P!NBatches /\ read = 1 .. Cardinality(read))'
            BY <1>2, <1>3, <1>4
        <3>2. answer' \in [P!Batches -> {<<>>, <<"ack">>, <<"nack">>}]
            BY <2>1 DEF ProcessedInv, ProcessedTypes
        <3> QED  BY <1>1, <2>1, <3>1, <3>2 DEF ProcessedInv, ProcessedTypes
    <2>3. answer'[b] = <<"ack">> /\ answer'[b] # <<>> /\ \A x \in P!Batches : x # b => answer'[x] = answer[x]
        BY <1>1, <2>1 DEF ProcessedInv, ProcessedTypes
    <2>4. BatchInv(b)'
        BY <1>1, <1>5, <1>6, <1>7, <1>9, <2>1, <2>3 DEF BatchInv
    <2>5. \A x \in P!Batches : x # b => BatchInv(x)'
        BY <1>1, <1>7, <1>8, <2>1, <2>3 DEF ProcessedInv, BatchInv, Forgets
    <2> QED  BY <1>1, <1>5, <2>1, <2>2, <2>4, <2>5 DEF ProcessedInv, Once
<1>10. CASE Sizes[b] # 0
    <2>1. work' = b /\ pc' = "processing" /\ UNCHANGED answer /\ Sizes[b] > 0
        BY <1>1, <1>10, ProcessedFacts
    <2>2. ProcessedTypes'
        <3>1. (Cardinality(read) \in 0 .. P!NBatches /\ read = 1 .. Cardinality(read))'
            BY <1>2, <1>3, <1>4
        <3> QED  BY <1>1, <1>5, <2>1, <3>1 DEF ProcessedInv, ProcessedTypes
    <2>4. BatchInv(b)'
        BY <1>1, <1>5, <1>6, <1>7, <2>1 DEF BatchInv
    <2>5. \A x \in P!Batches : x # b => BatchInv(x)'
        BY <1>1, <1>2, <1>5, <1>7, <1>8, <2>1, ProcessedFacts DEF ProcessedInv, BatchInv, Forgets
    <2> QED  BY <1>1, <1>5, <2>1, <2>2, <2>4, <2>5 DEF ProcessedInv, Once
<1> QED  BY <1>9, <1>10

\* The whole batch is answered: its processors threw, or filtered all of it.
LEMMA ProcessedWhole ==
    ASSUME P!InputAssumption, ProcessedInv, P!Throws \/ P!Filtered
    PROVE  ProcessedInv'
<1>1. PICK b \in P!Batches : b = work /\ b # 0
    BY DEF P!Throws, P!Filtered, ProcessedInv, ProcessedTypes
<1>2. /\ pc = "processing" /\ pc' = "loop" /\ work' = 0 /\ UNCHANGED <<read, pipeline, ready, group>>
      /\ \/ P!Told(b, "nack") /\ UNCHANGED landed
         \/ P!Told(b, "ack") /\ P!Landed([i \in 1 .. Sizes[b] |-> b])
    BY <1>1 DEF P!Throws, P!Filtered
<1>3. /\ ~group[b].sealed /\ group[b] = P!NewGroup /\ PiecesOf(b) = {} /\ b \in read
      /\ answer[b] = <<>> /\ landed[b] = 0 /\ Sizes[b] \in Nat
    BY <1>1, ProcessedFacts DEF ProcessedInv, BatchInv
<1>4. PICK v \in {<<"ack">>, <<"nack">>} :
        /\ answer' = [answer EXCEPT ![b] = v]
        /\ landed' = [landed EXCEPT ![b] = IF v = <<"ack">> THEN Sizes[b] ELSE landed[b]]
    <2>1. Append(<<>>, "nack") = <<"nack">> /\ Append(<<>>, "ack") = <<"ack">> /\ <<"nack">> # <<"ack">>
        OBVIOUS
    <2>2. CASE P!Told(b, "nack") /\ UNCHANGED landed
        BY <1>3, <2>1, <2>2 DEF P!Told, ProcessedInv, ProcessedTypes
    <2>3. CASE P!Told(b, "ack") /\ P!Landed([i \in 1 .. Sizes[b] |-> b])
        <3> DEFINE of == [i \in 1 .. Sizes[b] |-> b]
                   At(x) == {i \in DOMAIN of : of[i] = x}
        <3>1. landed' = [x \in P!Batches |-> landed[x] + Cardinality(At(x))]
            BY <2>3, ProcessedCounts DEF P!Landed
        <3>2. At(b) = 1 .. Sizes[b] /\ \A x : x # b => At(x) = {}
            OBVIOUS
        <3>3. Cardinality(At(b)) = Sizes[b] /\ \A x : x # b => Cardinality(At(x)) = 0
            <4>1. Cardinality(1 .. Sizes[b]) = Sizes[b]
                BY <1>3, FS_Interval
            <4> HIDE DEF At
            <4> QED  BY <3>2, <4>1, FS_EmptySet
        <3>4. landed \in [P!Batches -> Nat]
            BY DEF ProcessedInv, ProcessedTypes
        <3> HIDE DEF At
        <3>5. \A x \in P!Batches : landed[x] + Cardinality(At(x)) = IF x = b THEN Sizes[b] ELSE landed[x]
            BY <1>3, <3>3, <3>4
        <3>6. landed' = [landed EXCEPT ![b] = Sizes[b]]
            BY <3>1, <3>4, <3>5
        <3>7. answer' = [answer EXCEPT ![b] = <<"ack">>]
            BY <1>3, <2>1, <2>3 DEF P!Told
        <3> QED  BY <3>6, <3>7
    <2> QED  BY <1>2, <2>2, <2>3
<1>5. /\ answer'[b] = v /\ v # <<>> /\ \A x \in P!Batches : x # b => answer'[x] = answer[x]
      /\ v = <<"ack">> => landed'[b] = Sizes[b]
      /\ \A x \in P!Batches : x # b => landed'[x] = landed[x]
    <2>0. v # <<>>
        <3>1. <<"ack">> # <<>> /\ <<"nack">> # <<>>
            OBVIOUS
        <3> QED  BY <3>1
    <2>1. v # <<>> /\ answer'[b] = v /\ \A x \in P!Batches : x # b => answer'[x] = answer[x]
        BY <1>4, <2>0 DEF ProcessedInv, ProcessedTypes
    <2>2. /\ landed'[b] = (IF v = <<"ack">> THEN Sizes[b] ELSE landed[b])
          /\ \A x \in P!Batches : x # b => landed'[x] = landed[x]
        BY <1>4 DEF ProcessedInv, ProcessedTypes
    <2> QED  BY <2>1, <2>2
<1>6. ProcessedTypes'
    <2>1. Cardinality(read)' = Cardinality(read)
        BY <1>2
    <2>2. answer' \in [P!Batches -> {<<>>, <<"ack">>, <<"nack">>}]
        BY <1>4 DEF ProcessedInv, ProcessedTypes
    <2>3. landed' \in [P!Batches -> Nat]
        BY <1>3, <1>4 DEF ProcessedInv, ProcessedTypes
    <2> QED  BY <1>2, <2>1, <2>2, <2>3 DEF ProcessedInv, ProcessedTypes
<1>7. /\ \A x \in P!Batches : PiecesOf(x)' = PiecesOf(x)
      /\ \A x \in P!Batches : Cardinality(PiecesOf(x))' = Cardinality(PiecesOf(x))
    <2>1. \A x \in P!Batches : PiecesOf(x)' = PiecesOf(x)
        BY <1>2 DEF PiecesOf
    <2> QED  BY <2>1
<1>8. BatchInv(b)'
    BY <1>1, <1>2, <1>3, <1>5, <1>7 DEF BatchInv
<1>9. \A x \in P!Batches : x # b => BatchInv(x)'
    <2> SUFFICES ASSUME NEW x \in P!Batches, x # b PROVE BatchInv(x)'
        OBVIOUS
    <2>1. BatchInv(x) /\ work # x /\ work' # x
        BY <1>1, <1>2, ProcessedFacts DEF ProcessedInv
    <2> QED  BY <1>2, <1>5, <1>7, <2>1 DEF BatchInv, Forgets
<1> QED  BY <1>2, <1>6, <1>8, <1>9 DEF ProcessedInv, Once

\* As many pieces as there are numbers.
LEMMA PiecesCounted ==
    ASSUME NEW b, NEW n \in Nat
    PROVE  IsFiniteSet({<<b, i>> : i \in 1 .. n}) /\ Cardinality({<<b, i>> : i \in 1 .. n}) = n
<1> DEFINE all == {<<b, i>> : i \in 1 .. n}  f == [i \in 1 .. n |-> <<b, i>>]
<1>1. IsFiniteSet(1 .. n) /\ Cardinality(1 .. n) = n
    BY FS_Interval
<1>2. f \in Bijection(1 .. n, all)
    <2>1. f \in [1 .. n -> all] /\ \A i, j \in 1 .. n : f[i] = f[j] => i = j
        OBVIOUS
    <2>2. \A p \in all : \E i \in 1 .. n : f[i] = p
        OBVIOUS
    <2> HIDE DEF f, all
    <2> QED  BY <2>1, <2>2 DEF Bijection, Injection, Surjection, IsInjective
<1> HIDE DEF all, f
<1>3. ExistsBijection(1 .. n, all)
    BY <1>2 DEF ExistsBijection
<1>4. IsFiniteSet(all) /\ Cardinality(all) = n
    BY <1>1, <1>3, FS_Bijection
<1> QED  BY <1>4 DEF all

\* The batch at hand is split, the first of its pieces handed out and the group sealed
\* over all of them.
LEMMA ProcessedSplit ==
    ASSUME P!InputAssumption, ProcessedInv, P!Split
    PROVE  ProcessedInv'
<1>1. PICK b \in P!Batches : b = work /\ b # 0
    BY DEF P!Split, ProcessedInv, ProcessedTypes
<1>2. PICK n \in Nat : n = Sizes[b] /\ n > 0
    BY <1>1, ProcessedFacts DEF ProcessedInv
<1>3. ready = <<>>
    BY <1>1 DEF ProcessedInv
<1> DEFINE rest == [i \in 1 .. n - 1 |-> <<b, i + 1>>]
<1>4. rest \in Seq(Pieces) /\ Len(rest) = n - 1
    BY <1>2 DEF Pieces
<1>5. /\ pc = "processing" /\ pc' = "idle" /\ work' = 0 /\ pipeline' = pipeline \cup {<<b, 1>>} /\ ready' = rest
      /\ group' = [group EXCEPT ![b] = P!Seal(P!AddChildren(group[b], n))]
      /\ UNCHANGED <<read, answer, landed>>
    <2>1. <<>> \o rest = rest
        <3> HIDE DEF rest
        <3> QED  BY <1>4
    <2>2. ready' = ready \o rest
        BY <1>1, <1>2 DEF P!Split
    <2>3. pc = "processing" /\ pc' = "idle"
        BY DEF P!Split, P!HandOut
    <2>4. pipeline' = pipeline \cup {<<b, 1>>} /\ work' = 0
        BY <1>1 DEF P!Split, P!HandOut
    <2>5. UNCHANGED <<read, answer, landed>>
        BY DEF P!Split, P!env
    <2>6. group' = [group EXCEPT ![b] = P!Seal(P!AddChildren(group[b], n))]
        BY <1>1, <1>2 DEF P!Split, P!Sealed
    <2> QED  BY <1>3, <2>1, <2>2, <2>3, <2>4, <2>5, <2>6
<1>6. \A i \in 1 .. n - 1 : rest[i] = <<b, i + 1>>
    OBVIOUS
<1> HIDE DEF rest
<1>7. /\ ~group[b].sealed /\ group[b] = P!NewGroup /\ PiecesOf(b) = {} /\ b \in read
      /\ answer[b] = <<>> /\ landed[b] = 0
    BY <1>1 DEF ProcessedInv, BatchInv
<1>8. group' = [group EXCEPT ![b] = [pending |-> n, sealed |-> TRUE, fired |-> FALSE, err |-> FALSE]]
    <2> DEFINE full == [pending |-> n, sealed |-> FALSE, fired |-> FALSE, err |-> FALSE]
    <2>1. P!AddChildren(P!NewGroup, n) = full
        <3>1. 0 + n = n
            BY <1>2
        <3> QED  BY <3>1, GroupSteps, ProcessedFacts
    <2>2. P!Seal(full) = [pending |-> n, sealed |-> TRUE, fired |-> FALSE, err |-> FALSE]
        <3>1. ~P!SealFires(full)
            BY <1>2 DEF P!SealFires
        <3>2. full \in P!Groups /\ full.pending = n /\ full.err = FALSE /\ full.fired = FALSE
            BY DEF P!Groups
        <3> HIDE DEF full
        <3> QED  BY <3>1, <3>2, GroupSteps
    <2> QED  BY <1>5, <1>7, <2>1, <2>2
<1>9. P!Range(ready) = {} /\ P!Range(ready)' = {<<b, i>> : i \in 2 .. n}
    <2>1. P!Range(ready)' = {rest[i] : i \in 1 .. n - 1}
        BY <1>4, <1>5 DEF P!Range
    <2>2. ASSUME NEW i \in 1 .. n - 1 PROVE i + 1 \in 2 .. n
        BY <1>2
    <2>3. ASSUME NEW i \in 2 .. n PROVE i - 1 \in 1 .. n - 1 /\ (i - 1) + 1 = i
        BY <1>2
    <2>4. \A i \in 2 .. n : rest[i - 1] = <<b, i>>
        BY <1>6, <2>3
    <2>5. P!Range(ready)' \subseteq {<<b, i>> : i \in 2 .. n}
        BY <1>6, <2>1, <2>2
    <2>6. {<<b, i>> : i \in 2 .. n} \subseteq P!Range(ready)'
        BY <2>1, <2>3, <2>4
    <2> QED  BY <1>3, <2>5, <2>6, ProcessedFacts
<1>10. \A p \in pipeline : p[1] # b
    BY <1>7 DEF PiecesOf
<1>11. PiecesOf(b)' = {<<b, i>> : i \in 1 .. n}
    <2>1. \A i \in 1 .. n : i = 1 \/ i \in 2 .. n
        BY <1>2
    <2>2. 1 \in 1 .. n /\ \A i \in 2 .. n : i \in 1 .. n
        BY <1>2
    <2> QED  BY <1>5, <1>9, <1>10, <2>1, <2>2 DEF PiecesOf
<1>12. Cardinality(PiecesOf(b)') = n
    BY <1>11, PiecesCounted
<1>13. \A x \in P!Batches : x # b => PiecesOf(x)' = PiecesOf(x)
    BY <1>5, <1>9 DEF PiecesOf
<1>14. ProcessedTypes'
    <2>1. Cardinality(read)' = Cardinality(read)
        BY <1>5
    <2>2. IsFiniteSet(pipeline)' /\ <<b, 1>> \in Pieces
        BY <1>5, FS_AddElement DEF ProcessedInv, ProcessedTypes, Pieces
    <2>3. group' \in [P!Batches -> P!Groups]
        BY <1>2, <1>8 DEF ProcessedInv, ProcessedTypes, P!Groups
    <2> QED  BY <1>4, <1>5, <2>1, <2>2, <2>3 DEF ProcessedInv, ProcessedTypes
<1>15. Once(ready') /\ (pipeline \cap P!Range(ready) = {})'
    <2>1. Once(ready')
        <3> SUFFICES ASSUME NEW i \in 1 .. n - 1, NEW j \in 1 .. n - 1, rest[i] = rest[j] PROVE i = j
            BY <1>4, <1>5 DEF Once
        <3>1. i + 1 = j + 1
            BY <1>6
        <3> QED  BY <3>1
    <2>2. \A i \in 2 .. n : <<b, i>> # <<b, 1>>
        BY <1>2
    <2> QED  BY <1>5, <1>9, <1>10, <2>1, <2>2
<1>16. BatchInv(b)'
    <2>1. group'[b] = [pending |-> n, sealed |-> TRUE, fired |-> FALSE, err |-> FALSE]
        BY <1>8 DEF ProcessedInv, ProcessedTypes
    <2>2. /\ group'[b].pending = n /\ group'[b].sealed /\ ~group'[b].fired
        BY <2>1
    <2> QED  BY <1>1, <1>2, <1>5, <1>7, <1>12, <2>2 DEF BatchInv
<1>17. \A x \in P!Batches : x # b => BatchInv(x)'
    <2> SUFFICES ASSUME NEW x \in P!Batches, x # b PROVE BatchInv(x)'
        OBVIOUS
    <2>1. BatchInv(x) /\ work # x /\ work' # x /\ group'[x] = group[x]
        <3>1. work' # x /\ work # x
            BY <1>1, <1>5, ProcessedFacts
        <3>2. group'[x] = group[x]
            BY <1>5 DEF ProcessedInv, ProcessedTypes
        <3> QED  BY <3>1, <3>2 DEF ProcessedInv
    <2>2. PiecesOf(x)' = PiecesOf(x) /\ Cardinality(PiecesOf(x))' = Cardinality(PiecesOf(x))
        BY <1>13
    <2> QED  BY <1>5, <2>1, <2>2 DEF BatchInv, Forgets
<1> QED  BY <1>5, <1>14, <1>15, <1>16, <1>17 DEF ProcessedInv

\* A piece is answered: the last of its batch answers the source.
LEMMA ProcessedAnswer ==
    ASSUME P!InputAssumption, ProcessedInv, NEW p \in pipeline, NEW e \in BOOLEAN, P!Answer(p, e)
    PROVE  ProcessedInv'
<1>1. PICK b \in P!Batches : b = p[1]
    BY DEF ProcessedInv, ProcessedTypes, Pieces
<1> DEFINE g == P!ChildDone(group[b], e)
<1>2. /\ pipeline' = pipeline \ {p} /\ group' = [group EXCEPT ![b] = g]
      /\ IF g.fired /\ ~group[b].fired THEN P!Told(b, P!Verdict(g)) ELSE UNCHANGED answer
      /\ IF e THEN UNCHANGED landed ELSE P!Landed(<<b>>)
      /\ UNCHANGED <<pc, aborted, read, work, ready>>
    BY <1>1 DEF P!Answer
<1>3. p \in PiecesOf(b) /\ group[b] \in P!Groups /\ landed \in [P!Batches -> Nat]
    BY <1>1 DEF PiecesOf, ProcessedInv, ProcessedTypes
<1>4. IsFiniteSet(PiecesOf(b)) /\ Cardinality(PiecesOf(b)) \in Nat \ {0}
    <2>1. IsFiniteSet(P!Range(ready))
        <3>1. P!Range(ready) = {ready[i] : i \in 1 .. Len(ready)} /\ Len(ready) \in Nat
            BY DEF P!Range, ProcessedInv, ProcessedTypes
        <3>2. IsFiniteSet(1 .. Len(ready))
            BY <3>1, FS_Interval
        <3>3. ready \in Surjection(1 .. Len(ready), P!Range(ready))
            BY <3>1 DEF Surjection, ProcessedInv, ProcessedTypes
        <3> QED  BY <3>2, <3>3, FS_Surjection
    <2>2. IsFiniteSet(pipeline \cup P!Range(ready))
        BY <2>1, FS_Union DEF ProcessedInv, ProcessedTypes
    <2>3. IsFiniteSet(PiecesOf(b)) /\ PiecesOf(b) # {}
        <3>1. PiecesOf(b) \in SUBSET (pipeline \cup P!Range(ready))
            BY DEF PiecesOf
        <3> QED  BY <1>3, <2>2, <3>1, FS_Subset
    <2> QED  BY <2>3, FS_CardinalityType, FS_EmptySet
<1>5. /\ group[b].sealed /\ ~group[b].fired /\ answer[b] = <<>> /\ b \in read /\ work # b
      /\ group[b].pending \in Nat /\ group[b].pending >= Cardinality(PiecesOf(b))
      /\ Forgets \/ group[b].pending = Cardinality(PiecesOf(b))
      /\ ~group[b].err => landed[b] + group[b].pending = Sizes[b]
    <2>0. group[b].pending \in Nat
        BY <1>3 DEF P!Groups
    <2>1. BatchInv(b) /\ PiecesOf(b) # {}
        BY <1>3 DEF ProcessedInv
    <2>2. group[b].sealed
        BY <2>1 DEF BatchInv
    <2>3. group[b].pending >= Cardinality(PiecesOf(b))
        BY <2>1, <2>2 DEF BatchInv
    <2>4. group[b].pending # 0
        BY <1>4, <2>0, <2>3
    <2> QED  BY <2>0, <2>1, <2>2, <2>3, <2>4 DEF BatchInv
<1>6. PiecesOf(b)' = PiecesOf(b) \ {p} /\ \A x \in P!Batches : x # b => PiecesOf(x)' = PiecesOf(x)
    BY <1>1, <1>2 DEF PiecesOf, ProcessedInv
<1>7. Cardinality(PiecesOf(b)') = Cardinality(PiecesOf(b)) - 1
    <2>1. Cardinality(PiecesOf(b) \ {p}) = Cardinality(PiecesOf(b)) - 1
        BY <1>3, <1>4, FS_RemoveElement
    <2> QED  BY <1>6, <2>1
<1>8. /\ g \in P!Groups /\ g.pending = group[b].pending - 1 /\ g.sealed
      /\ (g.err <=> group[b].err \/ e) /\ (g.fired <=> g.pending = 0)
    <2>1. group[b].pending \in Nat \ {0}
        BY <1>4, <1>5
    <2>2. /\ g.pending = group[b].pending - 1 /\ g.sealed = group[b].sealed
          /\ g.fired = (group[b].fired \/ P!ChildFires(group[b])) /\ g.err = (group[b].err \/ e)
          /\ g = [pending |-> g.pending, sealed |-> g.sealed, fired |-> g.fired, err |-> g.err]
        <3> DEFINE f == P!ChildFires(group[b])
        <3> HIDE DEF f
        <3>1. g = [group[b] EXCEPT !.err = @ \/ e, !.pending = @ - 1, !.fired = @ \/ f]
            BY DEF P!ChildDone, f
        <3> HIDE DEF g
        <3> QED  BY <1>3, <3>1 DEF P!Groups, f
    <2>3. P!ChildFires(group[b]) <=> group[b].pending = 1
        BY <1>5 DEF P!ChildFires
    <2>4. group[b].pending - 1 \in Nat /\ (group[b].pending - 1 = 0 <=> group[b].pending = 1)
        BY <2>1
    <2>6. group[b].err \in BOOLEAN /\ group[b].sealed \in BOOLEAN /\ group[b].fired \in BOOLEAN
          /\ P!ChildFires(group[b]) \in BOOLEAN
        BY <1>3 DEF P!Groups, P!ChildFires
    <2>7. g \in P!Groups
        <3> HIDE DEF g
        <3> QED  BY <2>2, <2>4, <2>6 DEF P!Groups
    <2> HIDE DEF g
    <2> QED  BY <1>5, <2>2, <2>3, <2>4, <2>7
<1> HIDE DEF g
<1>9. landed' = [landed EXCEPT ![b] = IF e THEN landed[b] ELSE landed[b] + 1]
    <2>1. CASE e
        BY <1>2, <1>3, <2>1
    <2>2. CASE ~e
        <3> DEFINE At(x) == {i \in DOMAIN <<b>> : <<b>>[i] = x}
        <3>1. landed' = [x \in P!Batches |-> landed[x] + Cardinality(At(x))]
            BY <1>2, <2>2, ProcessedCounts DEF P!Landed
        <3>2. At(b) = {1} /\ \A x : x # b => At(x) = {}
            OBVIOUS
        <3>3. Cardinality(At(b)) = 1 /\ \A x : x # b => Cardinality(At(x)) = 0
            <4> HIDE DEF At
            <4> QED  BY <3>2, FS_EmptySet, FS_Singleton
        <3> HIDE DEF At
        <3>4. \A x \in P!Batches : landed[x] + Cardinality(At(x)) = IF x = b THEN landed[b] + 1 ELSE landed[x]
            BY <1>3, <3>3
        <3> QED  BY <1>3, <2>2, <3>1, <3>4
    <2> QED  BY <2>1, <2>2
<1>10. answer' = [answer EXCEPT ![b] = IF g.fired THEN <<P!Verdict(g)>> ELSE <<>>]
    <2>1. Append(<<>>, P!Verdict(g)) = <<P!Verdict(g)>>
        OBVIOUS
    <2>2. CASE g.fired
        BY <1>2, <1>5, <2>1, <2>2 DEF P!Told
    <2>3. CASE ~g.fired
        BY <1>2, <1>5, <2>3 DEF ProcessedInv, ProcessedTypes
    <2> QED  BY <2>2, <2>3
<1>11. ProcessedTypes'
    <2>1. Cardinality(read)' = Cardinality(read)
        BY <1>2
    <2>2. IsFiniteSet(pipeline)' /\ pipeline' \subseteq pipeline
        BY <1>2, FS_RemoveElement DEF ProcessedInv, ProcessedTypes
    <2>3. group' \in [P!Batches -> P!Groups] /\ landed' \in [P!Batches -> Nat]
        BY <1>2, <1>3, <1>8, <1>9 DEF ProcessedInv, ProcessedTypes
    <2>4. <<P!Verdict(g)>> \in {<<"ack">>, <<"nack">>}
        BY DEF P!Verdict
    <2>5. answer' \in [P!Batches -> {<<>>, <<"ack">>, <<"nack">>}]
        BY <1>10, <2>4 DEF ProcessedInv, ProcessedTypes
    <2> QED  BY <1>2, <2>1, <2>2, <2>3, <2>5 DEF ProcessedInv, ProcessedTypes
<1>12. BatchInv(b)'
    <2>1. /\ group'[b] = g /\ landed'[b] = (IF e THEN landed[b] ELSE landed[b] + 1)
          /\ answer'[b] = IF g.fired THEN <<P!Verdict(g)>> ELSE <<>>
        BY <1>2, <1>3, <1>9, <1>10 DEF ProcessedInv, ProcessedTypes
    <2>2. ASSUME ~g.err PROVE landed'[b] + g.pending = Sizes[b]
        <3>1. ~group[b].err /\ ~e
            BY <1>8, <2>2
        <3>2. landed[b] + group[b].pending = Sizes[b] /\ g.pending = group[b].pending - 1
            BY <1>5, <1>8, <3>1
        <3>3. landed'[b] = landed[b] + 1 /\ landed[b] \in Nat /\ group[b].pending \in Nat
            BY <1>3, <1>4, <1>5, <2>1, <3>1
        <3> QED  BY <3>2, <3>3
    <2>3. (g.pending >= Cardinality(PiecesOf(b)') /\ (Forgets' \/ g.pending = Cardinality(PiecesOf(b)')))
        BY <1>2, <1>4, <1>5, <1>7, <1>8 DEF Forgets
    <2> QED  BY <1>2, <1>5, <1>7, <1>8, <2>1, <2>2, <2>3 DEF BatchInv
<1>13. \A x \in P!Batches : x # b => BatchInv(x)'
    <2> SUFFICES ASSUME NEW x \in P!Batches, x # b PROVE BatchInv(x)'
        OBVIOUS
    <2>1. BatchInv(x) /\ group'[x] = group[x] /\ landed'[x] = landed[x] /\ answer'[x] = answer[x]
        BY <1>2, <1>9, <1>10 DEF ProcessedInv, ProcessedTypes
    <2>2. PiecesOf(x)' = PiecesOf(x) /\ Cardinality(PiecesOf(x))' = Cardinality(PiecesOf(x))
        BY <1>6
    <2> QED  BY <1>2, <2>1, <2>2 DEF BatchInv, Forgets
<1> QED  BY <1>2, <1>11, <1>12, <1>13 DEF ProcessedInv, Once

LEMMA ProcessedNext ==
    ASSUME P!InputAssumption, ProcessedInv, [P!Next]_(P!vars)
    PROVE  ProcessedInv'
    BY ProcessedFiber, ProcessedClose, ProcessedTakeReady, ProcessedRead, ProcessedWhole, ProcessedSplit,
       ProcessedAnswer DEF P!Next, P!Reader

\* An answer that a batch may have is one answer at most.
LEMMA AtMostOneAnswer ==
    ASSUME NEW v \in {<<>>, <<"ack">>, <<"nack">>}
    PROVE  Len(v) <= 1
<1>1. Len(<<>>) = 0 /\ Len(<<"ack">>) = 1 /\ Len(<<"nack">>) = 1
    OBVIOUS
<1>2. Len(v) = 0 \/ Len(v) = 1
    <2>1. CASE v = <<>>
        BY <1>1, <2>1
    <2>2. CASE v = <<"ack">>
        BY <1>1, <2>2
    <2>3. CASE v = <<"nack">>
        BY <1>1, <2>3
    <2> QED  BY <2>1, <2>2, <2>3
<1>3. \A m : m = 0 \/ m = 1 => m <= 1
    OBVIOUS
<1> QED  BY <1>2, <1>3

\* An unanswered batch is at hand or has a piece out; an acked one has landed.
LEMMA ProcessedSound ==
    ASSUME P!InputAssumption, ProcessedInv
    PROVE  P!NothingOrphaned /\ P!AnsweredRightly
<1>1. P!NothingOrphaned
    <2> SUFFICES ASSUME NEW b \in read, answer[b] = <<>>, work # b, ~Forgets
                 PROVE  \E p \in pipeline \cup P!Range(ready) : p[1] = b
        BY DEF P!NothingOrphaned, P!Unanswered, Forgets
    <2>1. b \in P!Batches
        BY ProcessedFacts DEF ProcessedInv, ProcessedTypes
    <2>2. BatchInv(b) /\ <<P!Verdict(group[b])>> # <<>>
        BY <2>1 DEF ProcessedInv
    <2>3. group[b].sealed /\ Cardinality(PiecesOf(b)) # 0
        BY <2>2 DEF BatchInv
    <2>4. PiecesOf(b) # {}
        BY <2>3, FS_EmptySet
    <2> QED  BY <2>4 DEF PiecesOf
<1>2. P!AnsweredRightly
    <2> SUFFICES ASSUME NEW b \in P!Batches
                 PROVE  Len(answer[b]) <= 1 /\ (answer[b] = <<"ack">> => landed[b] = Sizes[b])
        BY DEF P!AnsweredRightly
    <2>1. answer[b] \in {<<>>, <<"ack">>, <<"nack">>} /\ BatchInv(b)
        BY DEF ProcessedInv, ProcessedTypes
    <2>2. Len(answer[b]) <= 1
        BY <2>1, AtMostOneAnswer
    <2>3. ASSUME answer[b] = <<"ack">> PROVE landed[b] = Sizes[b]
        <3>1. CASE group[b].sealed
            <4>1. group[b].fired /\ group[b].pending = 0
                BY <2>1, <2>3, <3>1 DEF BatchInv
            <4>2. P!Verdict(group[b]) = "ack"
                BY <2>1, <2>3, <3>1, <4>1 DEF BatchInv
            <4>3. ~group[b].err /\ landed[b] \in Nat
                BY <4>2 DEF P!Verdict, ProcessedInv, ProcessedTypes
            <4> QED  BY <2>1, <3>1, <4>1, <4>3 DEF BatchInv
        <3>2. CASE ~group[b].sealed
            BY <2>1, <2>3, <3>2 DEF BatchInv
        <3> QED  BY <3>1, <3>2
    <2> QED  BY <2>2, <2>3
<1> QED  BY <1>1, <1>2

-----------------------------------------------------------------------------
(* BatchedInput                                                              *)

\* The assemblies in the pipeline, under the processors and in progress, by their
\* numbers: those that hold a child of batch b, and its messages in them.
Assemblies == [id : Nat, kids : Seq(B!Batches), parts : Seq(B!Batches)]
Current == [id |-> assembly, kids |-> kids, parts |-> parts]
Flight  == pipeline \cup {out, Current}

Holding(b) == {a.id : a \in {f \in Flight : b \in B!Range(f.kids)}}
Spread(b) == {m \in (0 .. assembly) \X (1 .. Count) :
                \E a \in Flight : a.id = m[1] /\ m[2] \in DOMAIN a.parts /\ a.parts[m[2]] = b}

\* How much of batch b the reader has drawn.
AtHand(b) == pending # <<>> /\ Head(pending).b = b
Used(b) == IF AtHand(b) THEN Head(pending).drawn ELSE IF b \in read THEN Fed[b] ELSE 0

BatchedTypes ==
    /\ Cardinality(read) \in 0 .. B!NBatches /\ read = 1 .. Cardinality(read)
    /\ assembly \in Nat \ {0} /\ kids \in Seq(B!Batches) /\ parts \in Seq(B!Batches)
    /\ pending = <<>> \/ \E p \in [b : B!Batches, drawn : Nat, charged : Nat] : pending = <<p>>
    /\ filler = "reading" => pending = <<>>
    /\ group \in [B!Batches -> B!Groups] /\ landed \in [B!Batches -> Nat]
    /\ answer \in [B!Batches -> {<<>>, <<"ack">>, <<"nack">>}]
    /\ out \in Assemblies /\ pipeline \subseteq Assemblies

\* Every assembly has a number of its own, holds one child of each batch in it and no
\* more messages than trigger it.
Numbered ==
    /\ \A a \in pipeline : a.id \in 1 .. assembly - 1
    /\ \A a, c \in pipeline : a.id = c.id => a = c
    /\ IF pc = "processing"
       THEN out.id \in 1 .. assembly - 1 /\ \A a \in pipeline : a.id # out.id
       ELSE out = B!NoAssembly
    /\ \A a \in Flight : Once(a.kids) /\ Len(a.parts) <= Count
    /\ pc # "flush" => Len(parts) < Count

\* The assembly in progress holds a child of the parked batch once it has drawn from it.
Charged ==
    pending # <<>> =>
        LET p == Head(pending) IN
        /\ p.b \in read /\ p.drawn < Fed[p.b] /\ p.charged \in 0 .. assembly
        /\ p.charged = assembly <=> p.b \in B!Range(kids)

\* The group of a batch counts the assemblies with a child of it, is sealed when all of
\* the batch is drawn, and answers with the last child; what was drawn has landed or is
\* in an assembly that holds a child.
FedInv(b) ==
    /\ group[b].pending = Cardinality(Holding(b))
    /\ group[b].sealed <=> b \in read /\ Fed[b] > 0 /\ ~AtHand(b)
    /\ group[b].fired <=> group[b].sealed /\ group[b].pending = 0
    /\ answer[b] = IF group[b].fired THEN <<B!Verdict(group[b])>>
                   ELSE IF b \in read /\ Fed[b] = 0 THEN <<"ack">> ELSE <<>>
    /\ b \notin read \/ Fed[b] = 0 => Holding(b) = {} /\ ~group[b].err
    /\ ~group[b].err =>
        /\ landed[b] + Cardinality(Spread(b)) = Used(b)
        /\ \A m \in Spread(b) : m[1] \in Holding(b)

BatchedInv == BatchedTypes /\ Numbered /\ Charged /\ \A b \in B!Batches : FedInv(b)

LEMMA BatchedCounts ==
    ASSUME NEW Items
    PROVE  B!Cardinality(Items) = Cardinality(Items)
    BY DEF B!Cardinality, Cardinality

\* The batches, the empty group and the assembly that is none.
LEMMA BatchedFacts ==
    ASSUME B!InputAssumption, B!PolicyAssumption
    PROVE  /\ B!NBatches \in Nat /\ B!Batches = 1 .. B!NBatches /\ Count \in Nat \ {0}
           /\ \A b \in B!Batches : Fed[b] \in Nat
           /\ B!NewGroup \in B!Groups /\ B!Range(<<>>) = {}
           /\ B!NewGroup.pending = 0 /\ ~B!NewGroup.sealed /\ ~B!NewGroup.fired /\ ~B!NewGroup.err
           /\ B!NoAssembly \in Assemblies /\ B!NoAssembly.id = 0
           /\ B!NoAssembly.kids = <<>> /\ B!NoAssembly.parts = <<>>
<1>1. B!NBatches \in Nat /\ B!Batches = 1 .. B!NBatches /\ \A b \in B!Batches : Fed[b] \in Nat
    BY DEF B!InputAssumption, B!NBatches, B!Batches
<1>2. B!Range(<<>>) = {}
    BY DEF B!Range
<1>3. B!NewGroup \in B!Groups /\ B!NewGroup.pending = 0
      /\ ~B!NewGroup.sealed /\ ~B!NewGroup.fired /\ ~B!NewGroup.err
    BY DEF B!NewGroup, B!Groups
<1>4. /\ B!NoAssembly \in Assemblies /\ B!NoAssembly.id = 0
      /\ B!NoAssembly.kids = <<>> /\ B!NoAssembly.parts = <<>>
    <2>1. <<>> \in Seq(B!Batches)
        OBVIOUS
    <2> QED  BY <2>1 DEF B!NoAssembly, Assemblies
<1> QED  BY <1>1, <1>2, <1>3, <1>4 DEF B!PolicyAssumption

\* What the calls of an ack_group do to it.
LEMMA BatchedGroups ==
    ASSUME NEW g \in B!Groups
    PROVE  /\ /\ B!AddChild(g) \in B!Groups /\ B!AddChild(g).pending = g.pending + 1
              /\ B!AddChild(g).sealed = g.sealed /\ B!AddChild(g).fired = g.fired
              /\ B!AddChild(g).err = g.err
           /\ g.pending > 0 =>
              /\ B!Seal(g) \in B!Groups /\ B!Seal(g).pending = g.pending /\ B!Seal(g).sealed
              /\ B!Seal(g).fired = g.fired /\ B!Seal(g).err = g.err
           /\ \A e \in BOOLEAN : B!ChildrenDone(g, e, 0) = g
           /\ \A e \in BOOLEAN, n \in 1 .. g.pending :
              /\ B!ChildrenDone(g, e, n) \in B!Groups
              /\ B!ChildrenDone(g, e, n).pending = g.pending - n
              /\ B!ChildrenDone(g, e, n).sealed = g.sealed
              /\ B!ChildrenDone(g, e, n).fired <=> g.fired \/ (g.sealed /\ g.pending = n)
              /\ B!ChildrenDone(g, e, n).err <=> g.err \/ e
<1>1. g.pending \in Nat /\ g.sealed \in BOOLEAN /\ g.fired \in BOOLEAN /\ g.err \in BOOLEAN
    BY DEF B!Groups
<1>2. /\ B!AddChild(g) \in B!Groups /\ B!AddChild(g).pending = g.pending + 1
      /\ B!AddChild(g).sealed = g.sealed /\ B!AddChild(g).fired = g.fired
      /\ B!AddChild(g).err = g.err
    BY DEF B!AddChild, B!Groups
<1>3. ASSUME g.pending > 0
      PROVE  /\ B!Seal(g) \in B!Groups /\ B!Seal(g).pending = g.pending /\ B!Seal(g).sealed
             /\ B!Seal(g).fired = g.fired /\ B!Seal(g).err = g.err
    <2>1. (g.fired \/ B!SealFires(g)) = g.fired
        BY <1>1, <1>3 DEF B!SealFires
    <2>2. B!Seal(g) = [g EXCEPT !.sealed = TRUE, !.fired = g.fired \/ B!SealFires(g)]
        BY DEF B!Seal
    <2>3. B!Seal(g) = [g EXCEPT !.sealed = TRUE, !.fired = g.fired]
        BY <2>1, <2>2
    <2> QED  BY <2>3 DEF B!Groups
<1>4. \A e \in BOOLEAN : B!ChildrenDone(g, e, 0) = g
    BY DEF B!ChildrenDone
<1>5. ASSUME NEW e \in BOOLEAN, NEW n \in 1 .. g.pending
      PROVE  /\ B!ChildrenDone(g, e, n) \in B!Groups
             /\ B!ChildrenDone(g, e, n).pending = g.pending - n
             /\ B!ChildrenDone(g, e, n).sealed = g.sealed
             /\ B!ChildrenDone(g, e, n).fired <=> g.fired \/ (g.sealed /\ g.pending = n)
             /\ B!ChildrenDone(g, e, n).err <=> g.err \/ e
    <2> DEFINE f == g.fired \/ (g.sealed /\ g.pending \in 1 .. n)
               r == g.err \/ e
               d == B!ChildrenDone(g, e, n)
    <2>1. d = [g EXCEPT !.err = r, !.pending = g.pending - n, !.fired = f]
        BY DEF B!ChildrenDone
    <2>2. /\ f <=> g.fired \/ (g.sealed /\ g.pending = n)
          /\ f \in BOOLEAN /\ r \in BOOLEAN /\ g.pending - n \in Nat
        BY <1>1
    <2>3. r <=> g.err \/ e
        OBVIOUS
    <2> HIDE DEF f, r, d
    <2>4. /\ d \in B!Groups /\ d.pending = g.pending - n /\ d.sealed = g.sealed
          /\ d.fired = f /\ d.err = r
        BY <2>1, <2>2 DEF B!Groups
    <2> QED  BY <2>2, <2>3, <2>4 DEF d
<1> QED  BY <1>2, <1>3, <1>4, <1>5

\* A sequence without repetition holds a value once or not at all.
LEMMA OnceCounted ==
    ASSUME NEW Items, NEW s \in Seq(Items), Once(s), NEW b
    PROVE  B!Cardinality({i \in DOMAIN s : s[i] = b}) = IF b \in B!Range(s) THEN 1 ELSE 0
<1> DEFINE At == {i \in DOMAIN s : s[i] = b}
<1>1. DOMAIN s = 1 .. Len(s) /\ (b \in B!Range(s) <=> \E i \in DOMAIN s : s[i] = b)
    BY DEF B!Range
<1>2. CASE b \in B!Range(s)
    <2>1. PICK i \in DOMAIN s : s[i] = b
        BY <1>1, <1>2
    <2>2. At = {i}
        BY <1>1, <2>1 DEF Once
    <2> HIDE DEF At
    <2> QED  BY <1>2, <2>2, FS_Singleton, BatchedCounts DEF At
<1>3. CASE b \notin B!Range(s)
    <2>1. At = {}
        BY <1>1, <1>3
    <2> HIDE DEF At
    <2> QED  BY <1>3, <2>1, FS_EmptySet, BatchedCounts DEF At
<1> QED  BY <1>2, <1>3

\* No two assemblies have one number.
LEMMA OwnNumber ==
    ASSUME B!InputAssumption, B!PolicyAssumption, BatchedTypes, Numbered, NEW a \in Flight, NEW c \in Flight
    PROVE  /\ a.id \in 0 .. assembly /\ a.kids \in Seq(B!Batches) /\ a.parts \in Seq(B!Batches)
           /\ (a.id = assembly <=> a = Current)
           /\ a.id = c.id => a = c
<1>1. /\ Current.id = assembly /\ Current.kids = kids /\ Current.parts = parts
    BY DEF Current
<1>2. assembly \in Nat /\ assembly > 0 /\ (out = B!NoAssembly \/ out.id \in 1 .. assembly - 1)
    BY DEF BatchedTypes, Numbered
<1>3. out.id \in 0 .. assembly - 1
    BY <1>2, BatchedFacts
<1>4. \A f \in pipeline : f.id \in 1 .. assembly - 1 /\ f.id # out.id
    BY <1>2, BatchedFacts DEF Numbered
<1>5. a.kids \in Seq(B!Batches) /\ a.parts \in Seq(B!Batches)
    BY <1>1 DEF Flight, BatchedTypes, Assemblies
<1>6. \A f \in Flight : f.id \in 0 .. assembly /\ (f.id = assembly <=> f = Current)
    BY <1>1, <1>2, <1>3, <1>4 DEF Flight
<1>7. ASSUME a.id = c.id PROVE a = c
    <2>1. CASE a.id = assembly
        BY <1>6, <1>7, <2>1
    <2>2. CASE a.id # assembly
        <3>1. a \in pipeline \cup {out} /\ c \in pipeline \cup {out}
            BY <1>1, <1>7, <2>2 DEF Flight
        <3> QED  BY <1>4, <1>7, <3>1 DEF Numbered
    <2> QED  BY <2>1, <2>2
<1> QED  BY <1>5, <1>6, <1>7

\* The numbers of children and of messages of a batch are finite.
LEMMA FedFinite ==
    ASSUME B!InputAssumption, B!PolicyAssumption, BatchedTypes, Numbered, NEW b
    PROVE  /\ IsFiniteSet(Holding(b)) /\ IsFiniteSet(Spread(b))
           /\ Cardinality(Holding(b)) \in Nat /\ Cardinality(Spread(b)) \in Nat
           /\ Cardinality(Holding(b)) = 0 <=> Holding(b) = {}
           /\ Cardinality(Spread(b)) = 0 <=> Spread(b) = {}
<1>1. assembly \in Nat /\ Count \in Nat
    BY BatchedFacts DEF BatchedTypes
<1>2. IsFiniteSet(0 .. assembly) /\ IsFiniteSet(1 .. Count)
    BY <1>1, FS_Interval
<1>3. Holding(b) \in SUBSET (0 .. assembly)
    <2>1. \A a \in Flight : a.id \in 0 .. assembly
        BY OwnNumber
    <2> QED  BY <2>1 DEF Holding
<1>4. Spread(b) \in SUBSET ((0 .. assembly) \X (1 .. Count))
    BY DEF Spread
<1>5. IsFiniteSet((0 .. assembly) \X (1 .. Count))
    BY <1>2, FS_Product
<1>6. IsFiniteSet(Holding(b)) /\ IsFiniteSet(Spread(b))
    BY <1>2, <1>3, <1>4, <1>5, FS_Subset
<1> QED  BY <1>6, FS_CardinalityType, FS_EmptySet

LEMMA BatchedInit ==
    ASSUME B!InputAssumption, B!PolicyAssumption, B!Init
    PROVE  BatchedInv
<1>1. /\ pc = "idle" /\ read = {} /\ pipeline = {} /\ filler = "reading" /\ pending = <<>>
      /\ kids = <<>> /\ parts = <<>> /\ out = B!NoAssembly /\ assembly = 1
      /\ answer = [b \in B!Batches |-> <<>>] /\ landed = [b \in B!Batches |-> 0]
      /\ group = [b \in B!Batches |-> B!NewGroup]
    BY DEF B!Init, B!SideInit
<1>2. Cardinality(read) = 0 /\ read = 1 .. 0
    BY <1>1, FS_EmptySet
<1>3. BatchedTypes
    BY <1>1, <1>2, BatchedFacts DEF BatchedTypes
<1>4. \A a \in Flight : a.kids = <<>> /\ a.parts = <<>>
    BY <1>1, BatchedFacts DEF Flight, Current
<1>5. Numbered /\ Charged
    BY <1>1, <1>4, BatchedFacts DEF Numbered, Charged, Once
<1>6. ASSUME NEW b \in B!Batches PROVE FedInv(b)
    <2>1. Holding(b) = {} /\ Spread(b) = {}
        BY <1>4, BatchedFacts DEF Holding, Spread
    <2>2. Cardinality(Holding(b)) = 0 /\ Cardinality(Spread(b)) = 0
        BY <2>1, FS_EmptySet
    <2>3. Used(b) = 0
        BY <1>1 DEF Used, AtHand
    <2> QED  BY <1>1, <2>1, <2>2, <2>3, BatchedFacts DEF FedInv
<1> QED  BY <1>3, <1>5, <1>6 DEF BatchedInv

\* A batch that a step leaves alone.
LEMMA FedStays ==
    ASSUME NEW b \in B!Batches, FedInv(b), Holding(b)' = Holding(b), Spread(b)' = Spread(b),
           group'[b] = group[b], answer'[b] = answer[b], landed'[b] = landed[b],
           AtHand(b)' <=> AtHand(b), Used(b)' = Used(b), b \in read' <=> b \in read
    PROVE  FedInv(b)'
<1>1. Cardinality(Holding(b))' = Cardinality(Holding(b)) /\ Cardinality(Spread(b))' = Cardinality(Spread(b))
    OBVIOUS
<1> QED  BY <1>1 DEF FedInv

\* What moves no batch, child or message.
LEMMA BatchedStays ==
    ASSUME BatchedInv,
           UNCHANGED <<read, answer, landed, pipeline, pending, assembly, kids, parts, group, out>>,
           pc' = "processing" <=> pc = "processing", pc' = "flush" \/ Len(parts) < Count,
           filler' = "reading" => filler = "reading"
    PROVE  BatchedInv'
<1>1. Cardinality(read)' = Cardinality(read)
    OBVIOUS
<1>2. BatchedTypes'
    BY <1>1 DEF BatchedInv, BatchedTypes
<1>3. Flight' = Flight
    BY DEF Flight, Current
<1>4. Numbered'
    BY <1>3 DEF BatchedInv, Numbered
<1>5. Charged'
    BY DEF BatchedInv, Charged
<1>6. ASSUME NEW b \in B!Batches PROVE FedInv(b)'
    <2>1. Holding(b)' = Holding(b) /\ Spread(b)' = Spread(b)
        BY <1>3 DEF Holding, Spread
    <2>2. (AtHand(b)' <=> AtHand(b)) /\ Used(b)' = Used(b)
        BY DEF AtHand, Used
    <2> QED  BY <2>1, <2>2, FedStays DEF BatchedInv
<1> QED  BY <1>2, <1>4, <1>5, <1>6 DEF BatchedInv

LEMMA BatchedFiber ==
    ASSUME BatchedInv,
           \/ B!Call \/ B!NothingToDraw \/ B!Look \/ B!TimedOut \/ B!Tick \/ B!FillEnd \/ B!Abort
           \/ B!CloseBegin \/ UNCHANGED B!vars
    PROVE  BatchedInv'
<1>1. pc # "flush" => Len(parts) < Count
    BY DEF BatchedInv, Numbered
<1>2. CASE B!Call
    BY <1>1, <1>2, BatchedStays DEF B!Call, B!env, B!wrapVars
<1>3. CASE B!NothingToDraw
    BY <1>1, <1>3, BatchedStays DEF B!NothingToDraw, B!env, B!wrapVars
<1>4. CASE B!Look
    <2>1. pc' \in {"ended", "flush", "timed", "wait"} /\ pc = "look"
        BY <1>4 DEF B!Look
    <2> QED  BY <1>1, <1>4, <2>1, BatchedStays DEF B!Look, B!env, B!wrapVars
<1>5. CASE B!TimedOut
    BY <1>1, <1>5, BatchedStays DEF B!TimedOut, B!env, B!wrapVars
<1>6. CASE B!Tick
    BY <1>1, <1>6, BatchedStays DEF B!Tick, B!sideVars
<1>7. CASE B!FillEnd
    BY <1>1, <1>7, BatchedStays DEF B!FillEnd, B!Woken, B!asm
<1>8. CASE B!Abort
    BY <1>1, <1>8, BatchedStays DEF B!Abort, B!asm
<1>9. CASE B!CloseBegin
    BY <1>1, <1>9, BatchedStays DEF B!CloseBegin, B!env, B!asm
<1>10. CASE UNCHANGED B!vars
    BY <1>1, <1>10, BatchedStays DEF B!vars, B!sideVars, B!wrapVars
<1> QED  BY <1>2, <1>3, <1>4, <1>5, <1>6, <1>7, <1>8, <1>9, <1>10

\* An assembly that is flushed or passed on keeps its number, its children and its
\* messages.
LEMMA BatchedMoves ==
    ASSUME B!InputAssumption, B!PolicyAssumption, BatchedInv, B!Flush \/ B!PassOn
    PROVE  BatchedInv'
<1>0. /\ Current.id = assembly /\ Current.kids = kids /\ Current.parts = parts
      /\ Current \in Assemblies /\ assembly + 1 \in Nat \ {0} /\ assembly > 0 /\ assembly \in Nat
      /\ <<>> \in Seq(B!Batches) /\ Len(<<>>) = 0 /\ Count \in Nat \ {0} /\ Once(<<>>)
    BY BatchedFacts DEF Current, BatchedInv, BatchedTypes, Assemblies, Once
<1>1. /\ UNCHANGED <<read, answer, landed, pending, filler, group>>
      /\ \/ /\ pc = "flush" /\ pc' = "processing" /\ out = B!NoAssembly /\ out' = Current
            /\ assembly' = assembly + 1 /\ kids' = <<>> /\ parts' = <<>> /\ UNCHANGED pipeline
         \/ /\ pc = "processing" /\ pc' = "idle" /\ pipeline' = pipeline \cup {out}
            /\ out' = B!NoAssembly /\ UNCHANGED <<assembly, kids, parts>>
    BY DEF B!Flush, B!PassOn, B!env, B!asm, BatchedInv, Numbered, Current
<1>2. Current'.id = assembly' /\ Current'.kids = kids' /\ Current'.parts = parts'
    BY DEF Current
<1>3. Cardinality(read)' = Cardinality(read)
    BY <1>1
<1>4. BatchedTypes'
    BY <1>0, <1>1, <1>3, BatchedFacts DEF BatchedInv, BatchedTypes
<1>5. /\ \A f \in Flight' : f \in Flight \/ (f.kids = <<>> /\ f.parts = <<>>)
      /\ \A f \in Flight : f \in Flight' \/ (f.kids = <<>> /\ f.parts = <<>>)
    <2>1. CASE pc = "flush"
        <3>1. Flight' = pipeline \cup {Current, Current'} /\ Flight = pipeline \cup {B!NoAssembly, Current}
            BY <1>1, <2>1 DEF Flight
        <3>2. Current'.kids = <<>> /\ Current'.parts = <<>>
            BY <1>1, <1>2, <2>1
        <3> QED  BY <3>1, <3>2, BatchedFacts
    <2>2. CASE pc = "processing"
        <3>1. Current' = Current
            BY <1>1, <2>2 DEF Current
        <3>2. Flight' = pipeline \cup {out, B!NoAssembly, Current}
            BY <1>1, <2>2, <3>1 DEF Flight
        <3> QED  BY <3>2, BatchedFacts DEF Flight
    <2> QED  BY <1>1, <2>1, <2>2
<1>6. Numbered'
    <2>1. ASSUME NEW f \in Flight' PROVE Once(f.kids) /\ Len(f.parts) <= Count
        <3>1. CASE f \in Flight
            BY <3>1 DEF BatchedInv, Numbered
        <3>2. CASE f.kids = <<>> /\ f.parts = <<>>
            BY <1>0, <3>2
        <3> QED  BY <1>5, <3>1, <3>2
    <2>2. CASE pc = "flush"
        <3>1. \A x : x \in 1 .. assembly - 1 => x \in 1 .. assembly' - 1 /\ x # assembly
            BY <1>0, <1>1, <2>2
        <3>2. assembly \in 1 .. assembly' - 1
            BY <1>0, <1>1, <2>2
        <3> QED  BY <1>0, <1>1, <2>1, <2>2, <3>1, <3>2 DEF BatchedInv, Numbered
    <2>3. CASE pc = "processing"
        BY <1>1, <2>1, <2>3 DEF BatchedInv, Numbered
    <2> QED  BY <1>1, <2>2, <2>3
<1>7. Charged'
    <2>1. CASE pc = "flush" /\ pending # <<>>
        <3> DEFINE p == Head(pending)
        <3>1. p.b \in read /\ p.drawn < Fed[p.b] /\ p.charged \in 0 .. assembly
            BY <2>1 DEF BatchedInv, Charged
        <3>2. p.charged \in 0 .. assembly' /\ p.charged # assembly' /\ B!Range(kids') = {}
            BY <1>0, <1>1, <2>1, <3>1, BatchedFacts
        <3>3. pending' = pending /\ read' = read
            BY <1>1
        <3> QED  BY <3>1, <3>2, <3>3 DEF Charged
    <2>2. CASE pc = "processing" \/ pending = <<>>
        BY <1>1, <2>2 DEF BatchedInv, Charged
    <2> QED  BY <1>1, <2>1, <2>2
<1>8. ASSUME NEW b \in B!Batches PROVE FedInv(b)'
    <2>1. \A f : f.kids = <<>> => b \notin B!Range(f.kids)
        BY BatchedFacts
    <2>2. Holding(b)' = Holding(b)
        BY <1>5, <2>1 DEF Holding
    <2>3. Spread(b)' = Spread(b)
        <3>1. \A f : f.parts = <<>> => DOMAIN f.parts = {}
            OBVIOUS
        <3>2. \A f \in Flight : f.id \in 0 .. assembly
            BY OwnNumber DEF BatchedInv
        <3>3. 0 .. assembly \subseteq 0 .. assembly'
            BY <1>0, <1>1
        <3>4. Spread(b) \subseteq Spread(b)'
            BY <1>5, <3>1, <3>3 DEF Spread
        <3>5. Spread(b)' \subseteq Spread(b)
            BY <1>5, <3>1, <3>2 DEF Spread
        <3> QED  BY <3>4, <3>5
    <2>4. (AtHand(b)' <=> AtHand(b)) /\ Used(b)' = Used(b)
        BY <1>1 DEF AtHand, Used
    <2> QED  BY <1>1, <2>2, <2>3, <2>4, FedStays DEF BatchedInv
<1> QED  BY <1>4, <1>6, <1>7, <1>8 DEF BatchedInv

\* fill_loop parks the next batch of the source, or answers an empty one.
LEMMA BatchedFill ==
    ASSUME B!InputAssumption, B!PolicyAssumption, BatchedInv, B!FillBatch \/ B!FillLate
    PROVE  BatchedInv'
<1>1. PICK b \in B!Batches :
        /\ b = B!NextBatch /\ filler = "reading" /\ pc # "look" /\ read' = read \cup {b}
        /\ \/ Fed[b] = 0 /\ B!Told(b, "ack") /\ UNCHANGED <<pc, pending, filler>>
           \/ /\ Fed[b] # 0 /\ pending' = <<B!Parked(b)>> /\ filler' # "reading"
              /\ pc' \in {pc, B!Woken(pc)}
              /\ UNCHANGED answer
        /\ UNCHANGED <<landed, pipeline, assembly, kids, parts, group, out>>
    <2>1. CASE B!FillBatch
        <3>1. B!NextBatch \in B!Batches
            <4>1. B!NextBatch = Cardinality(read) + 1 /\ ~(B!NextBatch > B!NBatches)
                BY <2>1, BatchedCounts DEF B!FillBatch, B!Exhausted, B!NextBatch
            <4> QED  BY <4>1, BatchedFacts DEF BatchedInv, BatchedTypes
        <3> QED  BY <2>1, <3>1 DEF B!FillBatch, B!Reading, B!asm
    <2>2. CASE B!FillLate
        BY <2>2, BatchedFacts DEF B!FillLate, B!Reading, B!asm
    <2> QED  BY <2>1, <2>2
<1> DEFINE n == Cardinality(read)
<1>2. b = n + 1 /\ n \in Nat /\ read = 1 .. n /\ n + 1 \in 1 .. B!NBatches
    BY <1>1, BatchedCounts, BatchedFacts DEF B!NextBatch, BatchedInv, BatchedTypes
<1> HIDE DEF n
<1>3. read' = 1 .. n + 1 /\ b \notin read
    BY <1>1, <1>2
<1>4. Cardinality(read)' = n + 1
    BY <1>2, <1>3, FS_Interval
<1>5. pending = <<>> /\ Fed[b] \in Nat
    BY <1>1, BatchedFacts DEF BatchedInv, BatchedTypes
<1>6. /\ group[b].pending = Cardinality(Holding(b)) /\ ~group[b].sealed /\ ~group[b].fired
      /\ answer[b] = <<>> /\ Holding(b) = {} /\ ~group[b].err
      /\ landed[b] + Cardinality(Spread(b)) = 0
    BY <1>3, <1>5 DEF BatchedInv, FedInv, AtHand, Used
<1>7. (pc' = "processing" <=> pc = "processing") /\ pc # "look" /\ (pc' = "flush" <=> pc = "flush")
    BY <1>1 DEF B!Woken
<1>8. Flight' = Flight
    BY <1>1 DEF Flight, Current
<1>9. \A x \in B!Batches : Holding(x)' = Holding(x) /\ Spread(x)' = Spread(x)
    BY <1>1, <1>8 DEF Holding, Spread
<1>10. Numbered'
    BY <1>1, <1>7, <1>8 DEF BatchedInv, Numbered
<1>11. \A x \in B!Batches : x # b => (x \in read' <=> x \in read)
    BY <1>1
<1>12. CASE Fed[b] = 0
    <2>1. answer' = [answer EXCEPT ![b] = <<"ack">>] /\ UNCHANGED <<pc, pending, filler>>
        <3>1. Append(<<>>, "ack") = <<"ack">>
            OBVIOUS
        <3> QED  BY <1>1, <1>6, <1>12, <3>1 DEF B!Told
    <2>2. /\ answer'[b] = <<"ack">> /\ \A x \in B!Batches : x # b => answer'[x] = answer[x]
          /\ answer' \in [B!Batches -> {<<>>, <<"ack">>, <<"nack">>}]
        BY <2>1 DEF BatchedInv, BatchedTypes
    <2>3. BatchedTypes'
        <3>1. (Cardinality(read) \in 0 .. B!NBatches /\ read = 1 .. Cardinality(read))'
            BY <1>2, <1>3, <1>4, BatchedFacts
        <3> QED  BY <1>1, <2>1, <2>2, <3>1 DEF BatchedInv, BatchedTypes
    <2>4. Charged' /\ ~AtHand(b) /\ ~AtHand(b)'
        BY <1>5, <2>1 DEF Charged, AtHand
    <2>5. FedInv(b)'
        <3>1. Cardinality(Holding(b))' = Cardinality(Holding(b)) /\ Cardinality(Spread(b))' = Cardinality(Spread(b))
            BY <1>9
        <3>2. Used(b)' = 0 /\ b \in read'
            BY <1>1, <1>12, <2>4 DEF Used
        <3>3. Spread(b) = {}
            <4>1. landed[b] \in Nat /\ Cardinality(Spread(b)) \in Nat
                BY FedFinite DEF BatchedInv, BatchedTypes
            <4> QED  BY <1>6, <4>1, FedFinite DEF BatchedInv
        <3> QED  BY <1>1, <1>6, <1>9, <1>12, <2>2, <2>4, <3>1, <3>2, <3>3 DEF FedInv
    <2>6. ASSUME NEW x \in B!Batches, x # b PROVE FedInv(x)'
        <3>1. (AtHand(x)' <=> AtHand(x)) /\ Used(x)' = Used(x)
            BY <1>11, <2>1, <2>6 DEF AtHand, Used
        <3> QED  BY <1>1, <1>9, <1>11, <2>2, <2>6, <3>1, FedStays DEF BatchedInv
    <2> QED  BY <1>10, <2>3, <2>4, <2>5, <2>6 DEF BatchedInv
<1>13. CASE Fed[b] # 0
    <2> DEFINE p == B!Parked(b)
    <2>1. p \in [b : B!Batches, drawn : Nat, charged : Nat] /\ p.b = b /\ p.drawn = 0 /\ p.charged = 0
        BY DEF B!Parked
    <2>2. pending' = <<p>> /\ UNCHANGED answer /\ filler' # "reading" /\ Fed[b] > 0
        BY <1>1, <1>5, <1>13
    <2> HIDE DEF p
    <2>3. pending' # <<>> /\ Head(pending)' = p
        BY <2>2
    <2>4. BatchedTypes'
        <3>1. (Cardinality(read) \in 0 .. B!NBatches /\ read = 1 .. Cardinality(read))'
            BY <1>2, <1>3, <1>4, BatchedFacts
        <3> QED  BY <1>1, <2>1, <2>2, <3>1 DEF BatchedInv, BatchedTypes
    <2>5. b \notin B!Range(kids)
        <3>1. Current \in Flight /\ Current.kids = kids
            BY DEF Flight, Current
        <3> QED  BY <1>6, <3>1 DEF Holding
    <2>6. Charged'
        <3>1. assembly \in Nat \ {0}
            BY DEF BatchedInv, BatchedTypes
        <3> QED  BY <1>1, <2>1, <2>2, <2>3, <2>5, <3>1 DEF Charged
    <2>7. AtHand(b)' /\ Used(b)' = 0
        BY <2>1, <2>3 DEF AtHand, Used
    <2>8. FedInv(b)'
        <3>1. Cardinality(Holding(b))' = Cardinality(Holding(b)) /\ Cardinality(Spread(b))' = Cardinality(Spread(b))
            BY <1>9
        <3>2. Spread(b) = {}
            <4>1. landed[b] \in Nat /\ Cardinality(Spread(b)) \in Nat
                BY FedFinite DEF BatchedInv, BatchedTypes
            <4> QED  BY <1>6, <4>1, FedFinite DEF BatchedInv
        <3> QED  BY <1>1, <1>6, <1>9, <1>13, <2>2, <2>7, <3>1, <3>2 DEF FedInv
    <2>9. ASSUME NEW x \in B!Batches, x # b PROVE FedInv(x)'
        <3>1. ~AtHand(x)' /\ ~AtHand(x)
            BY <1>5, <2>1, <2>3, <2>9 DEF AtHand
        <3>2. Used(x)' = Used(x)
            BY <1>11, <2>9, <3>1 DEF Used
        <3> QED  BY <1>1, <1>9, <1>11, <2>2, <2>9, <3>1, <3>2, FedStays DEF BatchedInv
    <2> QED  BY <1>10, <2>4, <2>6, <2>8, <2>9 DEF BatchedInv
<1> QED  BY <1>12, <1>13

\* The messages of batch b in an assembly.
Of(a, b) == {i \in DOMAIN a.parts : a.parts[i] = b}

\* What goes with an assembly that is answered: its number, and its messages.
LEMMA AssemblyGoes ==
    ASSUME B!InputAssumption, B!PolicyAssumption, BatchedInv, NEW a \in Flight, a # Current,
           a # B!NoAssembly, UNCHANGED assembly,
           Flight' \subseteq (Flight \ {a}) \cup {B!NoAssembly}, Flight \ {a} \subseteq Flight',
           NEW b \in B!Batches
    PROVE  /\ Holding(b)' = Holding(b) \ {a.id} /\ (a.id \in Holding(b) <=> b \in B!Range(a.kids))
           /\ Spread(b)' = Spread(b) \ ({a.id} \X Of(a, b)) /\ {a.id} \X Of(a, b) \subseteq Spread(b)
           /\ \A m \in Spread(b)' : m[1] # a.id
<1>1. \A f \in Flight : f.id = a.id => f = a
    BY OwnNumber DEF BatchedInv
<1>2. /\ b \notin B!Range(B!NoAssembly.kids) /\ DOMAIN B!NoAssembly.parts = {}
      /\ a.id \in 0 .. assembly
    <2>1. DOMAIN <<>> = {}
        OBVIOUS
    <2>2. a.id \in 0 .. assembly
        BY OwnNumber DEF BatchedInv
    <2> QED  BY <2>1, <2>2, BatchedFacts
<1>3. Holding(b)' = Holding(b) \ {a.id}
    <2>1. Holding(b)' \subseteq Holding(b) \ {a.id}
        BY <1>1, <1>2 DEF Holding
    <2>2. Holding(b) \ {a.id} \subseteq Holding(b)'
        BY <1>1 DEF Holding
    <2> QED  BY <2>1, <2>2
<1>4. a.id \in Holding(b) <=> b \in B!Range(a.kids)
    BY <1>1 DEF Holding
<1>5. {a.id} \X Of(a, b) \subseteq Spread(b)
    <2> SUFFICES ASSUME NEW i \in Of(a, b) PROVE <<a.id, i>> \in Spread(b)
        OBVIOUS
    <2>1. i \in 1 .. Count
        <3>1. a.parts \in Seq(B!Batches) /\ Len(a.parts) <= Count
            BY OwnNumber DEF BatchedInv, Numbered
        <3>2. i \in 1 .. Len(a.parts)
            BY <3>1 DEF Of
        <3>3. Len(a.parts) \in Nat /\ Count \in Nat
            BY <3>1, BatchedFacts
        <3> QED  BY <3>1, <3>2, <3>3
    <2> QED  BY <1>2, <2>1 DEF Spread, Of
<1>6. \A m \in Spread(b)' : m[1] # a.id /\ m \in Spread(b)
    BY <1>1, <1>2 DEF Spread
<1>7. Spread(b)' = Spread(b) \ ({a.id} \X Of(a, b))
    <2>1. Spread(b)' \subseteq Spread(b) \ ({a.id} \X Of(a, b))
        BY <1>6
    <2>2. ASSUME NEW m \in Spread(b), m \notin {a.id} \X Of(a, b) PROVE m \in Spread(b)'
        <3>1. PICK f \in Flight : f.id = m[1] /\ m[2] \in DOMAIN f.parts /\ f.parts[m[2]] = b
            BY DEF Spread
        <3>2. f # a
            BY <2>2, <3>1 DEF Of, Spread
        <3> QED  BY <3>1, <3>2 DEF Spread
    <2> QED  BY <2>1, <2>2
<1> QED  BY <1>3, <1>4, <1>5, <1>6, <1>7

\* The children of an assembly are told, and what it holds has landed unless it failed.
LEMMA FedResolved ==
    ASSUME B!InputAssumption, B!PolicyAssumption, BatchedInv, NEW a \in Flight, a # Current,
           a # B!NoAssembly, NEW e \in BOOLEAN, B!Resolve(group, a.kids, e),
           IF e THEN UNCHANGED landed ELSE B!Landed(a.parts),
           UNCHANGED <<read, pending, assembly, kids, parts>>,
           Flight' \subseteq (Flight \ {a}) \cup {B!NoAssembly}, Flight \ {a} \subseteq Flight'
    PROVE  /\ group' \in [B!Batches -> B!Groups] /\ landed' \in [B!Batches -> Nat]
           /\ answer' \in [B!Batches -> {<<>>, <<"ack">>, <<"nack">>}]
           /\ \A b \in B!Batches : FedInv(b)'
<1>1. /\ group' = [b \in B!Batches |-> B!ChildrenDone(group[b], e, IF b \in B!Range(a.kids) THEN 1 ELSE 0)]
      /\ answer' = [b \in B!Batches |-> IF group'[b].fired /\ ~group[b].fired
                                        THEN Append(answer[b], B!Verdict(group'[b])) ELSE answer[b]]
    <2>1. a.kids \in Seq(B!Batches) /\ Once(a.kids)
        BY OwnNumber DEF BatchedInv, Numbered
    <2>2. \A b : B!Cardinality({i \in DOMAIN a.kids : a.kids[i] = b}) = IF b \in B!Range(a.kids) THEN 1 ELSE 0
        BY <2>1, OnceCounted
    <2> QED  BY <2>2 DEF B!Resolve
<1>2. ASSUME NEW b \in B!Batches
      PROVE  /\ landed'[b] \in Nat /\ (e => landed'[b] = landed[b])
             /\ ~e => landed'[b] = landed[b] + Cardinality(Of(a, b))
             /\ IsFiniteSet(Of(a, b)) /\ Cardinality(Of(a, b)) \in Nat /\ landed[b] \in Nat
    <2>1. landed[b] \in Nat
        BY DEF BatchedInv, BatchedTypes
    <2>2. IsFiniteSet(Of(a, b)) /\ Cardinality(Of(a, b)) \in Nat
        <3>1. a.parts \in Seq(B!Batches)
            BY OwnNumber DEF BatchedInv
        <3>2. IsFiniteSet(1 .. Len(a.parts)) /\ Of(a, b) \in SUBSET (1 .. Len(a.parts))
            BY <3>1, FS_Interval DEF Of
        <3> QED  BY <3>2, FS_Subset, FS_CardinalityType
    <2>3. CASE ~e
        <3>1. landed'[b] = landed[b] + Cardinality(Of(a, b))
            BY <2>3, BatchedCounts DEF B!Landed, Of
        <3> QED  BY <2>1, <2>2, <2>3, <3>1
    <2>4. CASE e
        BY <2>1, <2>2, <2>4
    <2> QED  BY <2>3, <2>4
<1>3. landed' \in [B!Batches -> Nat]
    <2>1. landed' = [b \in B!Batches |-> landed'[b]]
        BY DEF BatchedInv, BatchedTypes, B!Landed
    <2> QED  BY <1>2, <2>1
<1>4. ASSUME NEW b \in B!Batches
      PROVE  /\ group'[b] \in B!Groups /\ answer'[b] \in {<<>>, <<"ack">>, <<"nack">>} /\ FedInv(b)'
    <2> DEFINE g == group[b]
               h == group'[b]
               k == Cardinality(Holding(b))
               s == Cardinality(Spread(b))
    <2>1. g \in B!Groups /\ FedInv(b) /\ answer[b] \in {<<>>, <<"ack">>, <<"nack">>}
        BY DEF BatchedInv, BatchedTypes
    <2>2. (b \in read' <=> b \in read) /\ (AtHand(b)' <=> AtHand(b)) /\ Used(b)' = Used(b)
        BY DEF AtHand, Used
    <2>3. /\ Holding(b)' = Holding(b) \ {a.id} /\ (a.id \in Holding(b) <=> b \in B!Range(a.kids))
          /\ Spread(b)' = Spread(b) \ ({a.id} \X Of(a, b)) /\ {a.id} \X Of(a, b) \subseteq Spread(b)
          /\ \A m \in Spread(b)' : m[1] # a.id
        BY AssemblyGoes
    <2>4. IsFiniteSet(Holding(b)) /\ IsFiniteSet(Spread(b)) /\ k \in Nat /\ s \in Nat
        <3>1. BatchedTypes /\ Numbered
            BY DEF BatchedInv
        <3>2. IsFiniteSet(Holding(b)) /\ IsFiniteSet(Spread(b))
            BY <3>1, FedFinite
        <3> QED  BY <3>2, FS_CardinalityType
    <2>5. CASE b \notin B!Range(a.kids)
        <3>1. h = g /\ answer'[b] = answer[b] /\ Holding(b)' = Holding(b)
            <4>1. B!ChildrenDone(g, e, 0) = g
                BY <2>1, BatchedGroups
            <4>2. h = B!ChildrenDone(g, e, 0)
                BY <1>1, <2>5, Zenon
            <4>3. h = g
                BY <4>1, <4>2, Zenon
            <4>4. answer'[b] = answer[b]
                <5>1. answer'[b] = IF h.fired /\ ~g.fired THEN Append(answer[b], B!Verdict(h)) ELSE answer[b]
                    BY <1>1, Zenon
                <5> HIDE DEF g, h
                <5> QED  BY <4>3, <5>1
            <4>5. Holding(b)' = Holding(b)
                BY <2>3, <2>5
            <4> QED  BY <4>3, <4>4, <4>5
        <3>2. ASSUME ~g.err PROVE Spread(b)' = Spread(b) /\ landed'[b] = landed[b]
            <4>1. \A m \in Spread(b) : m[1] \in Holding(b)
                BY <2>1, <3>2 DEF FedInv
            <4>2. ASSUME NEW i \in Of(a, b) PROVE FALSE
                <5>1. <<a.id, i>> \in {a.id} \X Of(a, b)
                    OBVIOUS
                <5> QED  BY <2>3, <2>5, <4>1, <5>1
            <4>3. Of(a, b) = {} /\ {a.id} \X Of(a, b) = {}
                BY <4>2
            <4>4. Cardinality(Of(a, b)) = 0
                BY <4>3, FS_EmptySet
            <4>5. landed'[b] = landed[b]
                BY <1>2, <4>4
            <4> QED  BY <2>3, <4>3, <4>5
        <3>3. /\ Cardinality(Holding(b))' = k
              /\ ~g.err => Cardinality(Spread(b))' = s
            BY <3>1, <3>2
        <3> QED  BY <2>1, <2>2, <3>1, <3>2, <3>3 DEF FedInv
    <2>6. CASE b \in B!Range(a.kids)
        <3>1. a.id \in Holding(b) /\ k > 0 /\ Cardinality(Holding(b)') = k - 1
            <4>1. a.id \in Holding(b)
                BY <2>3, <2>6
            <4>2. k # 0
                BY <4>1, FedFinite DEF BatchedInv
            <4>3. Cardinality(Holding(b) \ {a.id}) = k - 1
                BY <2>4, <4>1, FS_RemoveElement
            <4> QED  BY <2>3, <2>4, <4>1, <4>2, <4>3
        <3>2. /\ g.pending = k /\ ~g.fired /\ b \in read /\ Fed[b] # 0 /\ answer[b] = <<>>
              /\ g.sealed <=> b \in read /\ Fed[b] > 0 /\ ~AtHand(b)
            BY <2>1, <3>1 DEF FedInv
        <3>3. h = B!ChildrenDone(g, e, 1)
            BY <1>1, <2>6
        <3>4. /\ h \in B!Groups /\ h.pending = k - 1 /\ h.sealed = g.sealed
              /\ h.fired <=> g.sealed /\ k = 1
              /\ h.err <=> g.err \/ e
            <4>1. 1 \in 1 .. g.pending
                BY <2>4, <3>1, <3>2
            <4> HIDE DEF g, h
            <4> QED  BY <2>1, <3>2, <3>3, <4>1, BatchedGroups
        <3>5. answer'[b] = IF h.fired THEN <<B!Verdict(h)>> ELSE <<>>
            <4>1. Append(<<>>, B!Verdict(h)) = <<B!Verdict(h)>>
                OBVIOUS
            <4>2. answer'[b] = IF h.fired /\ ~g.fired THEN Append(answer[b], B!Verdict(h)) ELSE answer[b]
                BY <1>1
            <4> HIDE DEF g, h
            <4> QED  BY <3>2, <4>1, <4>2
        <3>6. answer'[b] \in {<<>>, <<"ack">>, <<"nack">>}
            BY <3>5 DEF B!Verdict
        <3>7. ASSUME ~h.err
              PROVE  /\ landed'[b] + Cardinality(Spread(b)') = Used(b)
                     /\ \A m \in Spread(b)' : m[1] \in Holding(b)'
            <4>1. ~g.err /\ ~e
                BY <3>4, <3>7
            <4>2. landed[b] + s = Used(b) /\ \A m \in Spread(b) : m[1] \in Holding(b)
                BY <2>1, <4>1 DEF FedInv
            <4>3. landed'[b] = landed[b] + Cardinality(Of(a, b)) /\ landed[b] \in Nat
                BY <1>2, <4>1
            <4> DEFINE gone == {a.id} \X Of(a, b)
            <4>4. Cardinality(gone) = Cardinality(Of(a, b)) /\ Cardinality(Of(a, b)) \in Nat
                <5>1. IsFiniteSet({a.id}) /\ Cardinality({a.id}) = 1
                    BY FS_Singleton
                <5>2. Cardinality(gone) = 1 * Cardinality(Of(a, b))
                    BY <1>2, <5>1, FS_Product
                <5> QED  BY <1>2, <5>2
            <4>5. Cardinality(Spread(b) \ gone) = s - Cardinality(gone)
                <5>1. Spread(b) \cap gone = gone
                    BY <2>3
                <5> HIDE DEF gone
                <5> QED  BY <2>4, <5>1, FS_Difference
            <4>6. Cardinality(Spread(b)') = s - Cardinality(Of(a, b))
                BY <2>3, <4>4, <4>5
            <4>7. landed'[b] + Cardinality(Spread(b)') = landed[b] + s
                BY <2>4, <4>3, <4>4, <4>6
            <4> QED  BY <2>3, <4>2, <4>7
        <3>8. h.fired <=> h.sealed /\ h.pending = 0
            <4>1. k - 1 = 0 <=> k = 1
                BY <2>4
            <4> HIDE DEF h, g, k
            <4> QED  BY <3>4, <4>1
        <3>9. Cardinality(Holding(b))' = h.pending
            BY <3>1, <3>4
        <3>10. Cardinality(Spread(b))' = Cardinality(Spread(b)')
            OBVIOUS
        <3> HIDE DEF h, g, k, s
        <3>11. FedInv(b)'
            <4>1. group'[b] = h
                BY DEF h
            <4> QED  BY <2>2, <3>2, <3>4, <3>5, <3>7, <3>8, <3>9, <3>10, <4>1 DEF FedInv
        <3> QED  BY <3>4, <3>6, <3>11 DEF h
    <2> QED  BY <2>1, <2>5, <2>6
<1> QED  BY <1>1, <1>3, <1>4

\* An assembly is answered, by the pipeline or by the processors of the policy.
LEMMA BatchedAnswer ==
    ASSUME B!InputAssumption, B!PolicyAssumption, BatchedInv,
           \/ B!FilterAll \/ B!ProcessorThrows
           \/ \E f \in pipeline, x \in BOOLEAN : B!Answer(f, x)
    PROVE  BatchedInv'
<1>1. PICK a \in pipeline \cup {out}, e \in BOOLEAN :
        /\ B!Resolve(group, a.kids, e) /\ IF e THEN UNCHANGED landed ELSE B!Landed(a.parts)
        /\ UNCHANGED <<read, pending, assembly, kids, parts, filler>>
        /\ \/ /\ a \in pipeline /\ pipeline' = pipeline \ {a} /\ UNCHANGED <<pc, out>>
           \/ /\ a = out /\ pc = "processing" /\ pc' = "draw" /\ out' = B!NoAssembly
              /\ UNCHANGED pipeline
    <2>1. CASE B!FilterAll
        <3>1. /\ B!Resolve(group, out.kids, FALSE) /\ B!Landed(out.parts)
              /\ pc = "processing" /\ pc' = "draw" /\ out' = B!NoAssembly /\ UNCHANGED pipeline
              /\ UNCHANGED <<read, pending, assembly, kids, parts, filler>>
            BY <2>1 DEF B!FilterAll, B!asm
        <3> QED  BY <3>1
    <2>2. CASE B!ProcessorThrows
        <3>1. /\ B!Resolve(group, out.kids, TRUE) /\ UNCHANGED landed
              /\ pc = "processing" /\ pc' = "draw" /\ out' = B!NoAssembly /\ UNCHANGED pipeline
              /\ UNCHANGED <<read, pending, assembly, kids, parts, filler>>
            BY <2>2 DEF B!ProcessorThrows, B!asm
        <3> QED  BY <3>1
    <2>3. ASSUME NEW f \in pipeline, NEW x \in BOOLEAN, B!Answer(f, x)
          PROVE  /\ B!Resolve(group, f.kids, x) /\ IF x THEN UNCHANGED landed ELSE B!Landed(f.parts)
                 /\ UNCHANGED <<read, pending, assembly, kids, parts, filler>>
                 /\ pipeline' = pipeline \ {f} /\ UNCHANGED <<pc, out>>
        BY <2>3 DEF B!Answer, B!asm
    <2> QED  BY <2>1, <2>2, <2>3
<1>2. a \in Flight /\ a # Current /\ a # B!NoAssembly
    <2>1. a.id \in 1 .. assembly - 1 /\ assembly \in Nat
        BY <1>1 DEF BatchedInv, BatchedTypes, Numbered
    <2>2. a.id # assembly /\ a.id # 0
        BY <2>1
    <2> QED  BY <1>1, <2>2, BatchedFacts DEF Flight, Current
<1>3. Flight' \subseteq (Flight \ {a}) \cup {B!NoAssembly} /\ Flight \ {a} \subseteq Flight'
    <2>1. Current' = Current
        BY <1>1 DEF Current
    <2>2. a \in pipeline => a # out
        BY <1>1, BatchedFacts DEF BatchedInv, Numbered
    <2> QED  BY <1>1, <1>2, <2>1, <2>2 DEF Flight
<1>4. /\ group' \in [B!Batches -> B!Groups] /\ landed' \in [B!Batches -> Nat]
      /\ answer' \in [B!Batches -> {<<>>, <<"ack">>, <<"nack">>}]
      /\ \A b \in B!Batches : FedInv(b)'
    BY <1>1, <1>2, <1>3, FedResolved
<1>5. BatchedTypes'
    <2>1. Cardinality(read)' = Cardinality(read)
        BY <1>1
    <2>2. out' \in Assemblies /\ pipeline' \subseteq Assemblies
        BY <1>1, BatchedFacts DEF BatchedInv, BatchedTypes
    <2> QED  BY <1>1, <1>4, <2>1, <2>2 DEF BatchedInv, BatchedTypes
<1>6. Numbered'
    <2>1. \A f \in Flight' : Once(f.kids) /\ Len(f.parts) <= Count
        <3>1. Once(B!NoAssembly.kids) /\ Len(B!NoAssembly.parts) <= Count
            <4>1. Len(<<>>) = 0 /\ Once(<<>>) /\ Count \in Nat
                BY BatchedFacts DEF Once
            <4> QED  BY <4>1, BatchedFacts
        <3> QED  BY <1>3, <3>1 DEF BatchedInv, Numbered
    <2>2. pipeline' \subseteq pipeline
        BY <1>1
    <2>3. IF pc' = "processing"
          THEN out'.id \in 1 .. assembly' - 1 /\ \A f \in pipeline' : f.id # out'.id
          ELSE out' = B!NoAssembly
        BY <1>1, <2>2 DEF BatchedInv, Numbered
    <2>4. pc' # "flush" => Len(parts') < Count
        BY <1>1 DEF BatchedInv, Numbered
    <2> QED  BY <1>1, <2>1, <2>2, <2>3, <2>4 DEF BatchedInv, Numbered
<1>7. Charged'
    BY <1>1 DEF BatchedInv, Charged
<1> QED  BY <1>4, <1>5, <1>6, <1>7 DEF BatchedInv

\* The reader draws from the parked batch, for the assembly in progress.
LEMMA BatchedDraw ==
    ASSUME B!InputAssumption, B!PolicyAssumption, BatchedInv, B!Draw
    PROVE  BatchedInv'
<1>0. /\ pc = "draw" /\ pending # <<>> /\ UNCHANGED <<read, answer, landed, pipeline, assembly, out>>
      /\ B!Draw
    BY DEF B!Draw, B!env
<1>a. PICK p \in [b : B!Batches, drawn : Nat, charged : Nat] : pending = <<p>>
    BY <1>0 DEF BatchedInv, BatchedTypes
<1>b. PICK b, left, n, fore, g :
        /\ b = p.b /\ left = Fed[b] - p.drawn /\ n = B!DrawnOf(left) /\ fore = Len(parts)
        /\ g = IF B!MustCharge(p) THEN B!AddChild(group[b]) ELSE group[b]
    OBVIOUS
<1> DEFINE more == [i \in 1 .. n |-> b]
<1>1. /\ kids' = IF B!MustCharge(p) THEN Append(kids, b) ELSE kids
      /\ parts' = parts \o more
      /\ \/ /\ n = left /\ pending' = <<>> /\ group' = [group EXCEPT ![b] = B!Seal(g)]
         \/ /\ n # left /\ pending' = <<[p EXCEPT !.drawn = @ + n, !.charged = assembly]>>
            /\ group' = [group EXCEPT ![b] = g] /\ UNCHANGED filler
      /\ pc' = IF late \/ fore + n >= Count THEN "flush" ELSE "look"
    <2>1. Head(pending) = p
        BY <1>a
    <2> QED  BY <1>0, <1>b, <2>1 DEF B!Draw, B!Triggered
<1>2. /\ b \in B!Batches /\ Head(pending) = p
      /\ b \in read /\ p.drawn < Fed[b] /\ (p.charged = assembly <=> b \in B!Range(kids))
    <2>1. Head(pending) = p /\ pending # <<>>
        BY <1>a
    <2> QED  BY <1>a, <1>b, <2>1 DEF BatchedInv, Charged
<1>3. /\ Fed[b] \in Nat /\ p.drawn \in Nat /\ left \in Nat /\ left > 0 /\ Count \in Nat \ {0}
      /\ fore \in Nat /\ fore < Count /\ parts \in Seq(B!Batches) /\ kids \in Seq(B!Batches)
      /\ assembly \in Nat \ {0}
    <2>1. p.drawn \in Nat
        BY <1>a
    <2>2. Fed[b] \in Nat /\ Count \in Nat \ {0}
        BY <1>2, BatchedFacts
    <2>3. left \in Nat /\ left > 0
        BY <1>b, <1>2, <2>1, <2>2
    <2>4. /\ parts \in Seq(B!Batches) /\ kids \in Seq(B!Batches) /\ assembly \in Nat \ {0}
          /\ pc # "flush" => Len(parts) < Count
        BY DEF BatchedInv, BatchedTypes, Numbered
    <2>5. fore \in Nat /\ fore < Count
        BY <1>0, <1>b, <2>4
    <2> QED  BY <2>1, <2>2, <2>3, <2>4, <2>5
<1>4. n \in 1 .. left /\ fore + n <= Count
    BY <1>3, <1>b DEF B!DrawnOf
<1>5. B!MustCharge(p) <=> b \notin B!Range(kids)
    BY <1>2 DEF B!MustCharge
<1>6. /\ parts' \in Seq(B!Batches) /\ Len(parts') = fore + n
      /\ \A i \in 1 .. fore : parts'[i] = parts[i]
      /\ \A i \in fore + 1 .. fore + n : parts'[i] = b
    <2>1. more \in Seq(B!Batches) /\ Len(more) = n /\ \A i \in 1 .. n : more[i] = b
        BY <1>2, <1>4
    <2> HIDE DEF more
    <2>2. /\ parts' \in Seq(B!Batches) /\ Len(parts') = fore + n
          /\ \A i \in 1 .. fore : parts'[i] = parts[i]
          /\ \A i \in 1 .. n : parts'[fore + i] = more[i]
        <3>1. parts' = parts \o more /\ parts \in Seq(B!Batches) /\ fore = Len(parts)
            BY <1>1, <1>3, <1>b
        <3> QED  BY <2>1, <3>1, Joined
    <2>3. ASSUME NEW i \in fore + 1 .. fore + n PROVE parts'[i] = b
        <3>1. i - fore \in 1 .. n /\ fore + (i - fore) = i
            BY <1>3, <1>4
        <3> QED  BY <2>1, <2>2, <3>1
    <2> QED  BY <2>2, <2>3
<1>7. /\ kids' \in Seq(B!Batches) /\ Once(kids') /\ B!Range(kids') = B!Range(kids) \cup {b}
    <2>1. Once(kids)
        <3>1. Current \in Flight /\ Current.kids = kids
            BY DEF Flight, Current
        <3> QED  BY <3>1 DEF BatchedInv, Numbered
    <2>2. B!Range(kids) = {kids[i] : i \in 1 .. Len(kids)} /\ Len(kids) \in Nat
        BY <1>3 DEF B!Range
    <2>3. CASE b \notin B!Range(kids)
        <3> DEFINE l == Len(kids)
        <3>1. /\ kids' \in Seq(B!Batches) /\ Len(kids') = l + 1 /\ kids'[l + 1] = b
              /\ \A i \in 1 .. l : kids'[i] = kids[i]
            BY <1>1, <1>2, <1>3, <1>5, <2>3
        <3>2. \A i \in 1 .. l + 1 : i \in 1 .. l \/ i = l + 1
            BY <2>2
        <3>3. \A i \in 1 .. l : kids[i] # b
            BY <2>2, <2>3
        <3> HIDE DEF l
        <3>4. Once(kids')
            BY <2>1, <3>1, <3>2, <3>3 DEF Once, l
        <3>5. B!Range(kids') = {kids'[i] : i \in 1 .. l + 1}
            BY <3>1 DEF B!Range
        <3>6. l + 1 \in 1 .. l + 1 /\ \A i \in 1 .. l : i \in 1 .. l + 1
            BY <2>2 DEF l
        <3>7. B!Range(kids') = B!Range(kids) \cup {b}
            <4>1. B!Range(kids') \subseteq B!Range(kids) \cup {b}
                BY <2>2, <3>1, <3>2, <3>5 DEF l
            <4>2. B!Range(kids) \cup {b} \subseteq B!Range(kids')
                BY <2>2, <3>1, <3>5, <3>6 DEF l
            <4> QED  BY <4>1, <4>2
        <3> QED  BY <3>1, <3>4, <3>7
    <2>4. CASE b \in B!Range(kids)
        BY <1>1, <1>3, <1>5, <2>1, <2>4
    <2> QED  BY <2>3, <2>4
<1> HIDE DEF more
<1>8. /\ Current.id = assembly /\ Current.kids = kids /\ Current.parts = parts
      /\ Current'.id = assembly /\ Current'.kids = kids' /\ Current'.parts = parts'
      /\ Flight = pipeline \cup {out} \cup {Current} /\ Flight' = pipeline \cup {out} \cup {Current'}
    BY <1>0, <1>1 DEF Current, Flight
<1>9. /\ \A x \in B!Batches : x # b => Holding(x)' = Holding(x) /\ Spread(x)' = Spread(x)
      /\ Holding(b)' = Holding(b) \cup {assembly}
      /\ assembly \in Holding(b) <=> b \in B!Range(kids)
      /\ Spread(b)' = Spread(b) \cup ({assembly} \X (fore + 1 .. fore + n))
      /\ Spread(b) \cap ({assembly} \X (fore + 1 .. fore + n)) = {}
    <2>1. \A f \in pipeline \cup {out} : f.id # assembly
        <3>1. \A f \in Flight : f.id = assembly <=> f = Current
            BY OwnNumber DEF BatchedInv
        <3>2. Current \notin pipeline \cup {out}
            <4>1. \A f \in pipeline : f.id \in 1 .. assembly - 1
                BY DEF BatchedInv, Numbered
            <4>2. out = B!NoAssembly
                BY <1>0 DEF BatchedInv, Numbered
            <4> QED  BY <1>3, <1>8, <4>1, <4>2, BatchedFacts
        <3> QED  BY <1>8, <3>1, <3>2
    <2>2. \A x : Holding(x)' = {f.id : f \in {d \in pipeline \cup {out} : x \in B!Range(d.kids)}}
                               \cup (IF x \in B!Range(kids') THEN {assembly} ELSE {})
        BY <1>8 DEF Holding
    <2>3. \A x : Holding(x) = {f.id : f \in {d \in pipeline \cup {out} : x \in B!Range(d.kids)}}
                              \cup (IF x \in B!Range(kids) THEN {assembly} ELSE {})
        BY <1>8 DEF Holding
    <2>4. /\ \A x \in B!Batches : x # b => Holding(x)' = Holding(x)
          /\ Holding(b)' = Holding(b) \cup {assembly}
          /\ assembly \in Holding(b) <=> b \in B!Range(kids)
        BY <1>7, <2>1, <2>2, <2>3
    <2> DEFINE Here(x, q) == \E f \in pipeline \cup {out} :
                                f.id = q[1] /\ q[2] \in DOMAIN f.parts /\ f.parts[q[2]] = x
               Now(x, q) == q[1] = assembly /\ q[2] \in 1 .. fore /\ parts[q[2]] = x
               Next_(x, q) == q[1] = assembly /\ q[2] \in 1 .. fore + n /\ parts'[q[2]] = x
               Grid == (0 .. assembly) \X (1 .. Count)
    <2>5. DOMAIN parts = 1 .. fore /\ DOMAIN parts' = 1 .. fore + n
        BY <1>3, <1>6, <1>b
    <2>6. \A x : Spread(x) = {q \in Grid : Here(x, q) \/ Now(x, q)}
        BY <1>8, <2>5 DEF Spread
    <2>7. \A x : Spread(x)' = {q \in Grid : Here(x, q) \/ Next_(x, q)}
        BY <1>0, <1>8, <2>5 DEF Spread
    <2>8. \A q : q[2] \in 1 .. fore + n <=> q[2] \in 1 .. fore \/ q[2] \in fore + 1 .. fore + n
        BY <1>3, <1>4
    <2>9. \A x, q : Next_(x, q) <=> Now(x, q) \/ (q[1] = assembly /\ q[2] \in fore + 1 .. fore + n /\ x = b)
        BY <1>6, <2>8
    <2>10. \A i \in fore + 1 .. fore + n : i \in 1 .. Count /\ i \notin 1 .. fore
        BY <1>3, <1>4
    <2>11. assembly \in 0 .. assembly
        BY <1>3
    <2>12. \A x, q : Here(x, q) => q[1] # assembly
        BY <2>1
    <2> HIDE DEF Here, Now, Next_
    <2>13. \A x \in B!Batches : x # b => Spread(x)' = Spread(x)
        BY <2>6, <2>7, <2>9
    <2>14. Spread(b)' = Spread(b) \cup ({assembly} \X (fore + 1 .. fore + n))
        BY <2>6, <2>7, <2>9, <2>10, <2>11
    <2>15. ASSUME NEW q \in Spread(b), q \in {assembly} \X (fore + 1 .. fore + n) PROVE FALSE
        <3>1. q[1] = assembly /\ q[2] \in fore + 1 .. fore + n
            BY <2>15
        <3>2. Now(b, q)
            BY <2>6, <2>12, <3>1
        <3> QED  BY <2>10, <3>1, <3>2 DEF Now
    <2> QED  BY <2>4, <2>13, <2>14, <2>15
<1>10. /\ g \in B!Groups /\ g.sealed = group[b].sealed /\ g.fired = group[b].fired
       /\ g.err = group[b].err /\ g.pending = Cardinality(Holding(b)') /\ g.pending > 0
    <2>1. group[b] \in B!Groups /\ group[b].pending = Cardinality(Holding(b))
        BY <1>2 DEF BatchedInv, BatchedTypes, FedInv
    <2>2. IsFiniteSet(Holding(b)) /\ Cardinality(Holding(b)) \in Nat
        BY FedFinite DEF BatchedInv
    <2>3. CASE b \in B!Range(kids)
        <3>1. g = group[b] /\ Holding(b)' = Holding(b)
            BY <1>5, <1>9, <1>b, <2>3
        <3>2. Cardinality(Holding(b)) # 0
            BY <1>9, <2>3, FedFinite DEF BatchedInv
        <3> QED  BY <2>1, <2>2, <3>1, <3>2
    <2>4. CASE b \notin B!Range(kids)
        <3>1. Cardinality(Holding(b) \cup {assembly}) = Cardinality(Holding(b)) + 1
            BY <1>9, <2>2, <2>4, FS_AddElement
        <3>2. g = B!AddChild(group[b])
            BY <1>5, <1>b, <2>4
        <3>3. /\ g \in B!Groups /\ g.pending = group[b].pending + 1
              /\ g.sealed = group[b].sealed /\ g.fired = group[b].fired /\ g.err = group[b].err
            BY <2>1, <3>2, BatchedGroups
        <3> QED  BY <1>9, <2>1, <2>2, <3>1, <3>3
    <2> QED  BY <2>3, <2>4
<1>11. Cardinality(Spread(b)') = Cardinality(Spread(b)) + n /\ Cardinality(Spread(b)) \in Nat
    <2> DEFINE new == {assembly} \X (fore + 1 .. fore + n)
    <2>1. IsFiniteSet(Spread(b)) /\ Cardinality(Spread(b)) \in Nat
        BY FedFinite DEF BatchedInv
    <2>2. IsFiniteSet(fore + 1 .. fore + n) /\ Cardinality(fore + 1 .. fore + n) = n
        <3>1. fore \in Nat /\ n \in Nat /\ n > 0
            BY <1>3, <1>4
        <3>2. /\ fore + 1 \in Int /\ fore + n \in Int /\ ~(fore + 1 > fore + n)
              /\ (fore + n) - (fore + 1) + 1 = n
            BY <3>1
        <3> QED  BY <3>2, FS_Interval
    <2>3. IsFiniteSet(new) /\ Cardinality(new) = n
        <3>1. IsFiniteSet({assembly}) /\ Cardinality({assembly}) = 1
            BY FS_Singleton
        <3>2. IsFiniteSet(new) /\ Cardinality(new) = 1 * Cardinality(fore + 1 .. fore + n)
            BY <2>2, <3>1, FS_Product
        <3>3. n \in Nat
            BY <1>3, <1>4
        <3> QED  BY <2>2, <3>2, <3>3
    <2> HIDE DEF new
    <2>4. Spread(b) \cap new = {} /\ Spread(b)' = Spread(b) \cup new
        BY <1>9 DEF new
    <2>5. Cardinality(Spread(b) \cup new) = Cardinality(Spread(b)) + n - 0
        BY <2>1, <2>3, <2>4, FS_Union, FS_EmptySet
    <2>6. n \in Nat
        BY <1>3, <1>4
    <2> QED  BY <2>1, <2>4, <2>5, <2>6
<1>c. PICK s : s = B!Seal(g)
    OBVIOUS
<1>12. /\ s \in B!Groups /\ s.pending = g.pending /\ s.sealed /\ s.fired = g.fired /\ s.err = g.err
    BY <1>10, <1>c, BatchedGroups
<1>13. /\ group' = [group EXCEPT ![b] = IF n = left THEN s ELSE g]
       /\ group' \in [B!Batches -> B!Groups]
    <2>1. group' = [group EXCEPT ![b] = IF n = left THEN s ELSE g]
        BY <1>c, <1>1
    <2> QED  BY <1>10, <1>12, <2>1 DEF BatchedInv, BatchedTypes
<1>d. PICK rest : rest = [p EXCEPT !.drawn = @ + n, !.charged = assembly]
    OBVIOUS
<1>14. /\ rest \in [b : B!Batches, drawn : Nat, charged : Nat] /\ rest.b = b
       /\ rest.drawn = p.drawn + n /\ rest.charged = assembly
    <2>1. p.drawn + n \in Nat /\ assembly \in Nat
        BY <1>3, <1>4
    <2> QED  BY <1>a, <1>b, <1>d, <2>1
<1>15. pending' = IF n = left THEN <<>> ELSE <<rest>>
    BY <1>1, <1>d
<1>16. BatchedTypes'
    <2>1. Cardinality(read)' = Cardinality(read)
        BY <1>0, <1>1
    <2>2. pending' = <<>> \/ \E q \in [b : B!Batches, drawn : Nat, charged : Nat] : pending' = <<q>>
        BY <1>14, <1>15
    <2>3. filler' = "reading" => pending' = <<>>
        BY <1>0, <1>1 DEF BatchedInv, BatchedTypes
    <2> QED  BY <1>0, <1>1, <1>6, <1>7, <1>13, <2>1, <2>2, <2>3 DEF BatchedInv, BatchedTypes
<1>17. Numbered'
    <2>1. \A f \in Flight' : Once(f.kids) /\ Len(f.parts) <= Count
        BY <1>4, <1>6, <1>7, <1>8 DEF BatchedInv, Numbered
    <2>2. pc' # "processing" /\ pc # "processing"
        BY <1>0, <1>1
    <2>3. pc' # "flush" => Len(parts') < Count
        <3>1. fore + n \in Nat /\ Count \in Nat
            BY <1>3, <1>4
        <3> QED  BY <1>0, <1>1, <1>6, <3>1
    <2> QED  BY <1>0, <1>1, <2>1, <2>2, <2>3 DEF BatchedInv, Numbered
<1>18. Charged'
    <2>1. CASE n = left
        BY <1>15, <2>1 DEF Charged
    <2>2. CASE n # left
        <3>1. Head(pending)' = rest
            BY <1>15, <2>2
        <3>2. rest.drawn < Fed[b]
            BY <1>3, <1>4, <1>14, <2>2, <1>b
        <3>3. rest.charged \in 0 .. assembly' /\ rest.charged = assembly' /\ b \in B!Range(kids')
            BY <1>0, <1>1, <1>3, <1>7, <1>14
        <3> QED  BY <1>0, <1>1, <1>2, <1>14, <3>1, <3>2, <3>3 DEF Charged
    <2> QED  BY <2>1, <2>2
<1>19. /\ AtHand(b) /\ (AtHand(b)' <=> n # left)
       /\ \A x \in B!Batches : x # b => ~AtHand(x) /\ ~AtHand(x)'
    <2>1. CASE n = left
        BY <1>0, <1>2, <1>b, <1>15, <2>1 DEF AtHand
    <2>2. CASE n # left
        <3>1. Head(pending)' = rest /\ pending' # <<>>
            BY <1>15, <2>2
        <3> QED  BY <1>0, <1>2, <1>b, <1>14, <2>2, <3>1 DEF AtHand
    <2> QED  BY <2>1, <2>2
<1>20. Used(b) = p.drawn /\ Used(b)' = p.drawn + n
    <2>1. CASE n = left
        <3>1. Used(b)' = Fed[b]
            BY <1>0, <1>1, <1>2, <1>19, <2>1 DEF Used
        <3>2. p.drawn + n = Fed[b]
            BY <1>3, <2>1, <1>b
        <3> QED  BY <1>2, <1>19, <3>1, <3>2 DEF Used
    <2>2. CASE n # left
        <3>1. Head(pending)' = rest
            BY <1>15, <2>2
        <3> QED  BY <1>2, <1>14, <1>19, <2>2, <3>1 DEF Used
    <2> QED  BY <2>1, <2>2
<1>21. FedInv(b)'
    <2> DEFINE h == IF n = left THEN s ELSE g
    <2>1. group'[b] = h
        BY <1>2, <1>13 DEF BatchedInv, BatchedTypes
    <2>2. /\ FedInv(b) /\ ~group[b].sealed /\ ~group[b].fired /\ Fed[b] > 0 /\ b \in read'
        BY <1>0, <1>1, <1>2, <1>3, <1>19 DEF BatchedInv, FedInv
    <2>3. /\ h.pending = Cardinality(Holding(b)') /\ h.pending > 0 /\ h.err = group[b].err
          /\ ~h.fired /\ (h.sealed <=> n = left)
        BY <1>10, <1>12, <2>2
    <2> HIDE DEF h
    <2>4. Cardinality(Holding(b))' = Cardinality(Holding(b)') /\ Cardinality(Spread(b))' = Cardinality(Spread(b)')
        OBVIOUS
    <2>5. answer'[b] = <<>>
        BY <1>0, <1>1, <2>2 DEF FedInv
    <2>6. ASSUME ~h.err
          PROVE  /\ landed'[b] + Cardinality(Spread(b)') = Used(b)'
                 /\ \A m \in Spread(b)' : m[1] \in Holding(b)'
        <3>1. landed[b] + Cardinality(Spread(b)) = p.drawn /\ \A m \in Spread(b) : m[1] \in Holding(b)
            BY <1>20, <2>2, <2>3, <2>6 DEF FedInv
        <3>2. landed'[b] = landed[b] /\ landed[b] \in Nat /\ n \in Nat
            BY <1>0, <1>1, <1>2, <1>3, <1>4 DEF BatchedInv, BatchedTypes
        <3>3. landed'[b] + Cardinality(Spread(b)') = p.drawn + n
            BY <1>3, <1>11, <3>1, <3>2
        <3>4. \A m \in Spread(b)' : m[1] \in Holding(b)'
            BY <1>9, <3>1
        <3> QED  BY <1>20, <3>3, <3>4
    <2>7. h.pending # 0 /\ Fed[b] # 0
        BY <1>3, <2>2, <2>3
    <2> QED  BY <1>19, <2>1, <2>2, <2>3, <2>4, <2>5, <2>6, <2>7 DEF FedInv
<1>22. ASSUME NEW x \in B!Batches, x # b PROVE FedInv(x)'
    <2>1. Holding(x)' = Holding(x) /\ Spread(x)' = Spread(x)
        BY <1>9, <1>22
    <2>2. group'[x] = group[x]
        BY <1>13, <1>22 DEF BatchedInv, BatchedTypes
    <2>3. (AtHand(x)' <=> AtHand(x)) /\ Used(x)' = Used(x)
        BY <1>0, <1>1, <1>19, <1>22 DEF Used
    <2> QED  BY <1>0, <1>1, <2>1, <2>2, <2>3, FedStays DEF BatchedInv
<1> QED  BY <1>16, <1>17, <1>18, <1>21, <1>22 DEF BatchedInv

\* A sequence without repetition and one more item: how often it holds a value.
LEMMA OnceMore ==
    ASSUME NEW Items, NEW s \in Seq(Items), Once(s), NEW d \in Items, NEW b
    PROVE  B!Cardinality({i \in DOMAIN (s \o <<d>>) : (s \o <<d>>)[i] = b})
           = (IF b \in B!Range(s) THEN 1 ELSE 0) + (IF b = d THEN 1 ELSE 0)
<1> DEFINE At == {i \in DOMAIN s : s[i] = b}
           Now == {i \in DOMAIN (s \o <<d>>) : (s \o <<d>>)[i] = b}
           l == Len(s)
           t == s \o <<d>>
<1>1. /\ l \in Nat /\ DOMAIN s = 1 .. l /\ DOMAIN t = 1 .. l + 1 /\ t[l + 1] = d
      /\ \A i \in 1 .. l : t[i] = s[i]
    <2>1. <<d>> \in Seq(Items) /\ Len(<<d>>) = 1 /\ <<d>>[1] = d
        OBVIOUS
    <2>2. /\ t \in Seq(Items) /\ Len(t) = l + 1 /\ l \in Nat /\ 1 \in 1 .. 1
          /\ \A i \in 1 .. l : t[i] = s[i]
          /\ \A i \in 1 .. 1 : t[l + i] = <<d>>[i]
        BY <2>1, Joined
    <2> HIDE DEF t
    <2> QED  BY <2>1, <2>2
<1> HIDE DEF t, l
<1>2. Now = {i \in 1 .. l + 1 : t[i] = b} /\ At = {i \in 1 .. l : s[i] = b}
    BY <1>1 DEF t
<1>3. \A i : i \in 1 .. l + 1 <=> i \in 1 .. l \/ i = l + 1
    BY <1>1
<1>4. l + 1 \notin 1 .. l
    BY <1>1
<1>5. Now = IF b = d THEN At \cup {l + 1} ELSE At
    BY <1>1, <1>2, <1>3
<1>6. l + 1 \notin At
    BY <1>2, <1>4
<1>7. IsFiniteSet(At) /\ Cardinality(At) = IF b \in B!Range(s) THEN 1 ELSE 0
    <2>1. IsFiniteSet(1 .. l) /\ At \in SUBSET (1 .. l)
        BY <1>1, <1>2, FS_Interval
    <2>2. IsFiniteSet(At)
        BY <2>1, FS_Subset
    <2>3. B!Cardinality(At) = IF b \in B!Range(s) THEN 1 ELSE 0
        BY OnceCounted
    <2> HIDE DEF At
    <2> QED  BY <2>2, <2>3, BatchedCounts
<1> HIDE DEF At, Now
<1>8. Cardinality(Now) = (IF b \in B!Range(s) THEN 1 ELSE 0) + (IF b = d THEN 1 ELSE 0)
    <2>1. CASE b = d
        <3>1. Cardinality(At \cup {l + 1}) = Cardinality(At) + 1
            BY <1>6, <1>7, FS_AddElement
        <3> QED  BY <1>5, <1>7, <2>1, <3>1
    <2>2. CASE b # d
        BY <1>5, <1>7, <2>2
    <2> QED  BY <2>1, <2>2
<1> QED  BY <1>8, BatchedCounts DEF Now

\* abandon() tells the children of the unfinished assembly, and what is parked, of the end.
LEMMA BatchedAbandon ==
    ASSUME B!InputAssumption, B!PolicyAssumption, BatchedInv, B!Abandon
    PROVE  BatchedInv'
<1>0. PICK rest, sealed :
        /\ rest = [i \in DOMAIN pending |-> pending[i].b]
        /\ sealed = [b \in B!Batches |->
             IF b \in B!Range(rest) THEN B!Seal(B!AddChild(group[b])) ELSE group[b]]
        /\ B!Resolve(sealed, kids \o rest, TRUE)
    BY DEF B!Abandon
<1>1. /\ pc = "closing" /\ filler = "ended" /\ pc' = "closed" /\ kids' = <<>> /\ pending' = <<>>
      /\ UNCHANGED <<read, landed, pipeline, filler, parts, assembly, out>>
    BY DEF B!Abandon
<1>2. /\ kids \in Seq(B!Batches) /\ parts \in Seq(B!Batches) /\ assembly \in Nat \ {0}
      /\ out = B!NoAssembly /\ Once(kids) /\ Len(parts) < Count /\ Len(parts) <= Count
      /\ <<>> \in Seq(B!Batches) /\ Once(<<>>)
    <2>1. Current \in Flight /\ Current.kids = kids /\ Current.parts = parts
        BY DEF Flight, Current
    <2> QED  BY <1>1, <2>1 DEF BatchedInv, BatchedTypes, Numbered, Once
<1>3. /\ \A b : b \in B!Range(rest) <=> AtHand(b)
      /\ \A b : B!Cardinality({i \in DOMAIN (kids \o rest) : (kids \o rest)[i] = b})
                = (IF b \in B!Range(kids) THEN 1 ELSE 0) + (IF AtHand(b) THEN 1 ELSE 0)
    <2>1. CASE pending = <<>>
        <3>1. rest = <<>>
            BY <1>0, <2>1
        <3>2. kids \o rest = kids
            BY <1>2, <3>1
        <3>3. \A b : B!Cardinality({i \in DOMAIN kids : kids[i] = b}) = IF b \in B!Range(kids) THEN 1 ELSE 0
            BY <1>2, OnceCounted
        <3>4. \A b : b \notin B!Range(rest) /\ ~AtHand(b)
            BY <2>1, <3>1, BatchedFacts DEF AtHand
        <3>5. \A b : (IF b \in B!Range(kids) THEN 1 ELSE 0) + (IF AtHand(b) THEN 1 ELSE 0)
                     = IF b \in B!Range(kids) THEN 1 ELSE 0
            BY <3>4
        <3> QED  BY <3>2, <3>3, <3>4, <3>5
    <2>2. ASSUME NEW p \in [b : B!Batches, drawn : Nat, charged : Nat], pending = <<p>>
          PROVE  <1>3
        <3>1. rest = <<p.b>> /\ p.b \in B!Batches /\ Head(pending) = p /\ pending # <<>>
            <4>1. DOMAIN pending = 1 .. 1 /\ pending[1] = p
                BY <2>2
            <4>2. rest = [i \in 1 .. 1 |-> p.b]
                BY <1>0, <4>1
            <4> QED  BY <2>2, <4>2
        <3>2. \A b : b \in B!Range(rest) <=> b = p.b
            <4>1. DOMAIN rest = {1} /\ rest[1] = p.b
                BY <3>1
            <4> QED  BY <4>1 DEF B!Range
        <3>3. \A b : AtHand(b) <=> b = p.b
            BY <3>1 DEF AtHand
        <3>4. \A b : B!Cardinality({i \in DOMAIN (kids \o <<p.b>>) : (kids \o <<p.b>>)[i] = b})
                     = (IF b \in B!Range(kids) THEN 1 ELSE 0) + (IF b = p.b THEN 1 ELSE 0)
            BY <1>2, <3>1, OnceMore
        <3> QED  BY <3>1, <3>2, <3>3, <3>4
    <2> QED  BY <2>1, <2>2 DEF BatchedInv, BatchedTypes
<1>4. /\ \A b \in B!Batches : ~AtHand(b)' /\ Used(b)' = IF b \in read THEN Fed[b] ELSE 0
      /\ pending' = <<>>
    BY <1>1 DEF AtHand, Used
<1>5. /\ Current.id = assembly /\ Current.kids = kids /\ Current.parts = parts
      /\ Current'.id = assembly /\ Current'.kids = <<>> /\ Current'.parts = parts
      /\ Flight = pipeline \cup {out} \cup {Current} /\ Flight' = pipeline \cup {out} \cup {Current'}
    BY <1>1 DEF Current, Flight
<1>6. ASSUME NEW b \in B!Batches
      PROVE  /\ Holding(b)' = Holding(b) \ {assembly} /\ Spread(b)' = Spread(b)
             /\ assembly \in Holding(b) <=> b \in B!Range(kids)
    <2>1. \A f \in pipeline \cup {out} : f.id # assembly
        <3>1. \A f \in pipeline : f.id \in 1 .. assembly - 1
            BY DEF BatchedInv, Numbered
        <3> QED  BY <1>2, <3>1, BatchedFacts
    <2>2. Holding(b)' = {f.id : f \in {d \in pipeline \cup {out} : b \in B!Range(d.kids)}}
        BY <1>5, BatchedFacts DEF Holding
    <2>3. Holding(b) = {f.id : f \in {d \in pipeline \cup {out} : b \in B!Range(d.kids)}}
                       \cup (IF b \in B!Range(kids) THEN {assembly} ELSE {})
        BY <1>5 DEF Holding
    <2>4. Holding(b)' = Holding(b) \ {assembly} /\ (assembly \in Holding(b) <=> b \in B!Range(kids))
        BY <2>1, <2>2, <2>3
    <2>5. Spread(b)' = Spread(b)
        BY <1>1, <1>5 DEF Spread
    <2> QED  BY <2>4, <2>5
<1>7. ASSUME NEW b \in B!Batches
      PROVE  /\ group'[b] \in B!Groups /\ answer'[b] \in {<<>>, <<"ack">>, <<"nack">>} /\ FedInv(b)'
    <2>1. PICK g, s, h, k, c :
            /\ g = group[b] /\ s = sealed[b] /\ h = group'[b] /\ k = Cardinality(Holding(b))
            /\ c = (IF b \in B!Range(kids) THEN 1 ELSE 0) + (IF AtHand(b) THEN 1 ELSE 0)
        OBVIOUS
    <2>2. /\ g \in B!Groups /\ FedInv(b) /\ answer[b] \in {<<>>, <<"ack">>, <<"nack">>}
          /\ IsFiniteSet(Holding(b)) /\ k \in Nat
        BY <2>1, FedFinite DEF BatchedInv, BatchedTypes
    <2>3. /\ s = IF AtHand(b) THEN B!Seal(B!AddChild(g)) ELSE g
          /\ h = B!ChildrenDone(s, TRUE, c)
          /\ answer'[b] = IF h.fired /\ ~g.fired THEN Append(answer[b], B!Verdict(h)) ELSE answer[b]
        <3>1. s = IF AtHand(b) THEN B!Seal(B!AddChild(g)) ELSE g
            BY <1>0, <1>3, <2>1
        <3>2. h = B!ChildrenDone(s, TRUE, c)
            BY <1>0, <1>3, <2>1 DEF B!Resolve
        <3>3. answer'[b] = IF h.fired /\ ~g.fired THEN Append(answer[b], B!Verdict(h)) ELSE answer[b]
            BY <1>0, <2>1 DEF B!Resolve
        <3> QED  BY <3>1, <3>2, <3>3
    <2>4. Cardinality(Holding(b))' = Cardinality(Holding(b)') /\ Cardinality(Spread(b))' = Cardinality(Spread(b)')
        OBVIOUS
    <2>5. CASE b \notin B!Range(kids) /\ ~AtHand(b)
        <3>1. c = 0
            BY <2>1, <2>5
        <3>2. h = g /\ s = g
            BY <2>2, <2>3, <2>5, <3>1, BatchedGroups
        <3>3. answer'[b] = answer[b]
            BY <2>3, <3>2
        <3>4. Holding(b)' = Holding(b) /\ Spread(b)' = Spread(b)
            BY <1>6, <2>5
        <3>5. Used(b)' = Used(b)
            BY <1>4, <2>5 DEF Used
        <3>6. /\ group'[b] = group[b] /\ landed'[b] = landed[b] /\ (AtHand(b)' <=> AtHand(b))
              /\ (b \in read' <=> b \in read)
            BY <1>1, <1>4, <2>1, <2>5, <3>2
        <3>7. FedInv(b)'
            BY <2>2, <3>3, <3>4, <3>5, <3>6, FedStays
        <3> QED  BY <2>1, <2>2, <3>2, <3>3, <3>7
    <2>6. CASE b \in B!Range(kids) \/ AtHand(b)
        <3>1. /\ g.pending = k /\ ~g.fired /\ b \in read /\ Fed[b] > 0 /\ answer[b] = <<>>
              /\ g.sealed <=> ~AtHand(b)
            <4>1. b \in B!Range(kids) => k # 0 /\ Holding(b) # {}
                BY <1>6, <2>1, FedFinite DEF BatchedInv
            <4>2. AtHand(b) => b \in read /\ Fed[b] # 0
                <5>1. AtHand(b) => \E p \in [b : B!Batches, drawn : Nat, charged : Nat] :
                                      Head(pending) = p /\ p.b = b
                    BY DEF AtHand, BatchedInv, BatchedTypes
                <5>2. AtHand(b) => Head(pending).b = b /\ b \in read /\ Head(pending).drawn < Fed[b]
                    BY DEF AtHand, BatchedInv, Charged
                <5> QED  BY <5>1, <5>2, BatchedFacts
            <4>3. b \in read /\ Fed[b] # 0 /\ Fed[b] \in Nat
                BY <2>2, <2>6, <4>1, <4>2, BatchedFacts DEF FedInv
            <4>4. g.pending = k /\ (g.fired <=> g.sealed /\ k = 0) /\ (g.sealed <=> ~AtHand(b))
                BY <2>1, <2>2, <4>3 DEF FedInv
            <4>5. ~g.fired
                BY <2>6, <4>1, <4>4
            <4> QED  BY <2>1, <2>2, <4>3, <4>4, <4>5 DEF FedInv
        <3>2. /\ s \in B!Groups /\ s.sealed /\ ~s.fired
              /\ s.pending = k + (IF AtHand(b) THEN 1 ELSE 0)
            <4>1. CASE AtHand(b)
                <5>1. PICK a : a = B!AddChild(g)
                    OBVIOUS
                <5>2. a \in B!Groups /\ a.pending = k + 1 /\ a.fired = g.fired
                    BY <2>2, <3>1, <5>1, BatchedGroups
                <5>3. a.pending > 0
                    BY <2>2, <5>2
                <5>4. s = B!Seal(a)
                    BY <2>3, <4>1, <5>1
                <5>5. s \in B!Groups /\ s.pending = a.pending /\ s.sealed /\ s.fired = a.fired
                    BY <5>2, <5>3, <5>4, BatchedGroups
                <5> QED  BY <3>1, <4>1, <5>2, <5>5
            <4>2. CASE ~AtHand(b)
                <5>1. s = g /\ k = k + 0
                    BY <2>2, <2>3, <4>2
                <5> QED  BY <2>2, <3>1, <4>2, <5>1
            <4> QED  BY <4>1, <4>2
        <3>3. c \in 1 .. s.pending /\ s.pending - c = (IF b \in B!Range(kids) THEN k - 1 ELSE k)
            <4>1. b \in B!Range(kids) => k > 0
                BY <1>6, <2>1, <2>2, FedFinite DEF BatchedInv
            <4> QED  BY <2>1, <2>2, <2>6, <3>2, <4>1
        <3>4. /\ h \in B!Groups /\ h.pending = s.pending - c /\ h.sealed = s.sealed /\ h.err
              /\ h.fired <=> s.pending = c
            BY <2>3, <3>2, <3>3, BatchedGroups
        <3>5. Cardinality(Holding(b)') = h.pending
            <4>1. CASE b \in B!Range(kids)
                <5>1. Cardinality(Holding(b) \ {assembly}) = k - 1
                    BY <1>6, <2>1, <2>2, <4>1, FS_RemoveElement
                <5> QED  BY <1>6, <3>3, <3>4, <4>1, <5>1
            <4>2. CASE b \notin B!Range(kids)
                <5>1. Holding(b)' = Holding(b)
                    BY <1>6, <4>2
                <5> QED  BY <2>1, <3>3, <3>4, <4>2, <5>1
            <4> QED  BY <4>1, <4>2
        <3>6. h.fired <=> h.sealed /\ h.pending = 0
            <4>1. s.pending \in Nat /\ c \in Int
                BY <2>2, <3>2, <3>3
            <4>2. s.pending - c = 0 <=> s.pending = c
                BY <4>1
            <4> QED  BY <3>2, <3>4, <4>2
        <3>7. answer'[b] = IF h.fired THEN <<B!Verdict(h)>> ELSE <<>>
            <4>1. Append(<<>>, B!Verdict(h)) = <<B!Verdict(h)>>
                OBVIOUS
            <4> QED  BY <2>3, <3>1, <3>2, <4>1
        <3>8. answer'[b] \in {<<>>, <<"ack">>, <<"nack">>}
            BY <3>7 DEF B!Verdict
        <3>9. h.sealed /\ b \in read' /\ ~AtHand(b)' /\ Fed[b] # 0
            BY <1>1, <1>4, <3>1, <3>2, <3>4
        <3>10. FedInv(b)'
            BY <2>1, <2>4, <3>1, <3>4, <3>5, <3>6, <3>7, <3>9 DEF FedInv
        <3> QED  BY <2>1, <3>4, <3>8, <3>10
    <2> QED  BY <2>5, <2>6
<1>8. BatchedTypes'
    <2>1. Cardinality(read)' = Cardinality(read)
        BY <1>1
    <2>2. /\ group' \in [B!Batches -> B!Groups]
          /\ answer' \in [B!Batches -> {<<>>, <<"ack">>, <<"nack">>}]
        BY <1>0, <1>7 DEF B!Resolve
    <2> QED  BY <1>1, <1>2, <2>1, <2>2 DEF BatchedInv, BatchedTypes
<1>9. Numbered'
    <2>1. \A f \in Flight' : Once(f.kids) /\ Len(f.parts) <= Count
        <3>1. \A f \in Flight : Once(f.kids) /\ Len(f.parts) <= Count
            BY DEF BatchedInv, Numbered
        <3> QED  BY <1>2, <1>5, <3>1
    <2> QED  BY <1>1, <1>2, <2>1 DEF BatchedInv, Numbered
<1>10. Charged'
    BY <1>1 DEF Charged
<1> QED  BY <1>7, <1>8, <1>9, <1>10 DEF BatchedInv

LEMMA BatchedNext ==
    ASSUME B!InputAssumption, B!PolicyAssumption, BatchedInv, [B!Next]_(B!vars)
    PROVE  BatchedInv'
<1>1. CASE B!Draw
    BY <1>1, BatchedDraw
<1>2. CASE \/ B!Call \/ B!NothingToDraw \/ B!Look \/ B!TimedOut \/ B!Tick \/ B!FillEnd \/ B!Abort
           \/ B!CloseBegin \/ UNCHANGED B!vars
    BY <1>2, BatchedFiber
<1>3. CASE B!Flush \/ B!PassOn
    BY <1>3, BatchedMoves
<1>4. CASE B!FillBatch \/ B!FillLate
    BY <1>4, BatchedFill
<1>5. CASE B!FilterAll \/ B!ProcessorThrows \/ \E f \in pipeline, x \in BOOLEAN : B!Answer(f, x)
    BY <1>5, BatchedAnswer
<1>6. CASE B!Abandon
    BY <1>6, BatchedAbandon
<1> QED  BY <1>1, <1>2, <1>3, <1>4, <1>5, <1>6 DEF B!Next, B!Reader

\* A batch without an answer is parked, or its group waits for an assembly with a child of
\* it; an acked batch has nothing left in an assembly.
LEMMA BatchedSound ==
    ASSUME B!InputAssumption, B!PolicyAssumption, BatchedInv
    PROVE  B!NothingOrphaned /\ B!AnsweredRightly
<1>1. B!NothingOrphaned
    <2> SUFFICES ASSUME NEW b \in read, answer[b] = <<>> PROVE B!Reachable(b)
        BY DEF B!NothingOrphaned, B!Unanswered
    <2>1. b \in B!Batches
        BY BatchedFacts DEF BatchedInv, BatchedTypes
    <2>2. FedInv(b) /\ <<B!Verdict(group[b])>> # <<>> /\ <<"ack">> # <<>>
        BY <2>1 DEF BatchedInv
    <2>3. ~group[b].fired /\ Fed[b] # 0
        BY <2>2 DEF FedInv
    <2>4. CASE AtHand(b)
        <3>1. 1 \in DOMAIN pending /\ pending[1] = Head(pending)
            BY <2>4 DEF AtHand, BatchedInv, BatchedTypes
        <3> QED  BY <2>4, <3>1 DEF B!Reachable, AtHand
    <2>5. CASE ~AtHand(b)
        <3>1. group[b].sealed
            BY <2>1, <2>2, <2>3, <2>5, BatchedFacts DEF FedInv
        <3>2. Cardinality(Holding(b)) # 0
            BY <2>2, <2>3, <3>1 DEF FedInv
        <3>3. Holding(b) # {}
            BY <3>2, FS_EmptySet
        <3>4. PICK f \in Flight : b \in B!Range(f.kids)
            BY <3>3 DEF Holding
        <3> QED  BY <3>4 DEF B!Reachable, Flight, Current
    <2> QED  BY <2>4, <2>5
<1>2. B!AnsweredRightly
    <2> SUFFICES ASSUME NEW b \in B!Batches
                 PROVE  Len(answer[b]) <= 1 /\ (answer[b] = <<"ack">> => landed[b] = Fed[b])
        BY DEF B!AnsweredRightly
    <2>1. answer[b] \in {<<>>, <<"ack">>, <<"nack">>} /\ FedInv(b) /\ landed[b] \in Nat
        BY DEF BatchedInv, BatchedTypes
    <2>2. Len(answer[b]) <= 1
        BY <2>1, AtMostOneAnswer
    <2>3. ASSUME answer[b] = <<"ack">> PROVE landed[b] = Fed[b]
        <3>1. CASE group[b].fired
            <4>1. B!Verdict(group[b]) = "ack" /\ group[b].sealed /\ group[b].pending = 0
                BY <2>1, <2>3, <3>1 DEF FedInv
            <4>2. ~group[b].err /\ Used(b) = Fed[b] /\ Holding(b) = {}
                <5>1. ~group[b].err
                    BY <4>1 DEF B!Verdict
                <5>2. b \in read /\ ~AtHand(b)
                    BY <2>1, <4>1 DEF FedInv
                <5>3. Cardinality(Holding(b)) = 0
                    BY <2>1, <4>1 DEF FedInv
                <5> QED  BY <5>1, <5>2, <5>3, FedFinite DEF BatchedInv, Used
            <4>3. Spread(b) = {}
                BY <2>1, <4>2 DEF FedInv
            <4> QED  BY <2>1, <4>2, <4>3, FS_EmptySet DEF FedInv
        <3>2. CASE ~group[b].fired
            <4>1. b \in read /\ Fed[b] = 0
                <5>1. <<"ack">> # <<>>
                    OBVIOUS
                <5> QED  BY <2>1, <2>3, <3>2, <5>1 DEF FedInv
            <4>2. ~AtHand(b)
                <5>1. AtHand(b) => \E p \in [b : B!Batches, drawn : Nat, charged : Nat] :
                                      Head(pending) = p /\ p.b = b
                    BY DEF AtHand, BatchedInv, BatchedTypes
                <5>2. AtHand(b) => Head(pending).drawn < Fed[b]
                    BY DEF AtHand, BatchedInv, Charged
                <5> QED  BY <4>1, <5>1, <5>2
            <4>3. Used(b) = 0
                BY <4>1, <4>2 DEF Used
            <4>4. ~group[b].err
                BY <2>1, <4>1 DEF FedInv
            <4>5. landed[b] + Cardinality(Spread(b)) = 0 /\ Cardinality(Spread(b)) \in Nat
                BY <2>1, <4>3, <4>4, FedFinite DEF BatchedInv, FedInv
            <4> QED  BY <2>1, <4>1, <4>5
        <3> QED  BY <3>1, <3>2
    <2> QED  BY <2>2, <2>3
<1> QED  BY <1>1, <1>2

-----------------------------------------------------------------------------
(* BufferedInput                                                             *)

\* The messages of batch b: parked and not drawn, drawn and not flushed, split off.
Cut(b)    == {m \in U!Undrawn : m[1] = b}
Drawn(b)  == {i \in DOMAIN parts : parts[i] = b}
SplitOff(b) == {m \in (1 .. Len(ready)) \X (1 .. Count) :
                   m[2] \in DOMAIN ready[m[1]] /\ ready[m[1]][m[2]] = b}

\* A split leaves one piece to hand out, before anything else is drawn.
BufferTypes ==
    /\ Cardinality(read) \in 0 .. U!NBatches /\ read = 1 .. Cardinality(read)
    /\ landed \in [U!Batches -> Nat] /\ dropped \in [U!Batches -> Nat]
    /\ parts \in Seq(U!Batches) /\ Len(parts) <= Count /\ (pc # "flush" => Len(parts) < Count)
    /\ \/ ready = <<>>
       \/ ready = <<Head(ready)>> /\ Head(ready) \in Seq(U!Batches) /\ Len(Head(ready)) <= Count
    /\ pc \in {"look", "wait", "timed", "flush", "drawing"} => ready = <<>>

\* Each parked batch is another one that fits; the front one may be drawn from.
ParkedInv ==
    /\ parked \in Seq(U!Batches) /\ Once(parked)
    /\ \A b \in U!Range(parked) : b \in read /\ Offered[b] <= Limit
    /\ taken \in Nat /\ (~(part = "buffered") => taken = 0)
    /\ IF parked = <<>> THEN taken = 0 ELSE taken <= Offered[Head(parked)]
    /\ pc \in {"look", "wait", "timed"} => parked = <<>>

\* What the filler has in hand fits too; while it waits for room there is none.
HandInv ==
    /\ hand # 0 => hand \in read /\ hand \notin U!Range(parked) /\ Offered[hand] <= Limit
    /\ filler = "reading" => hand = 0
    /\ filler \in {"parking", "room"} => hand # 0
    /\ bytes = Cardinality(U!Undrawn) /\ bytes <= Limit
    /\ filler = "room" => bytes + Offered[hand] > Limit /\ pc # "drawing"

\* All of a batch that fits has landed, was dropped or is in the buffer.
Done(b) == landed[b] + dropped[b]
Due(b) == IF b \in read /\ Offered[b] <= Limit THEN Offered[b] ELSE 0
Buffered(b) ==
    Done(b) + Cardinality(Cut(b)) + Cardinality(Drawn(b)) + Cardinality(SplitOff(b))
    + (IF hand = b THEN Offered[b] ELSE 0) = Due(b)

BufferInv == BufferTypes /\ ParkedInv /\ HandInv /\ \A b \in U!Batches : Buffered(b)

LEMMA BufferedCounts ==
    ASSUME NEW Items
    PROVE  U!Cardinality(Items) = Cardinality(Items)
    BY DEF U!Cardinality, Cardinality

LEMMA BufferedFacts ==
    ASSUME U!InputAssumption, U!BufferAssumption
    PROVE  /\ U!NBatches \in Nat /\ U!Batches = 1 .. U!NBatches /\ IsFiniteSet(U!Batches)
           /\ Count \in Nat \ {0} /\ Limit \in Nat /\ \A b \in U!Batches : Offered[b] \in Nat
           /\ U!Range(<<>>) = {}
<1>1. /\ U!NBatches \in Nat /\ U!Batches = 1 .. U!NBatches
      /\ \A b \in U!Batches : Offered[b] \in Nat
    BY DEF U!InputAssumption, U!NBatches, U!Batches
<1>2. U!Range(<<>>) = {}
    BY DEF U!Range
<1>3. IsFiniteSet(U!Batches)
    BY <1>1, FS_Interval
<1> QED  BY <1>1, <1>2, <1>3 DEF U!BufferAssumption

\* Consecutive messages of one batch.
Block(b, k, n) == {b} \X (k + 1 .. k + n)

LEMMA BlockCounted ==
    ASSUME NEW b, NEW k \in Nat, NEW n \in Nat
    PROVE  IsFiniteSet(Block(b, k, n)) /\ Cardinality(Block(b, k, n)) = n
<1>1. IsFiniteSet(k + 1 .. k + n) /\ Cardinality(k + 1 .. k + n) = n
    <2>1. CASE n = 0
        <3>1. k + 1 .. k + n = {}
            BY <2>1
        <3> QED  BY <2>1, <3>1, FS_EmptySet
    <2>2. CASE n > 0
        <3>1. k + 1 \in Int /\ k + n \in Int /\ ~(k + 1 > k + n) /\ (k + n) - (k + 1) + 1 = n
            BY <2>2
        <3> QED  BY <3>1, FS_Interval
    <2> QED  BY <2>1, <2>2
<1>2. IsFiniteSet({b}) /\ Cardinality({b}) = 1
    BY FS_Singleton
<1>3. /\ IsFiniteSet({b} \X (k + 1 .. k + n))
      /\ Cardinality({b} \X (k + 1 .. k + n)) = 1 * Cardinality(k + 1 .. k + n)
    BY <1>1, <1>2, FS_Product
<1> QED  BY <1>1, <1>3 DEF Block

\* What is parked, drawn or split off can be counted.
LEMMA BufferFinite ==
    ASSUME U!InputAssumption, U!BufferAssumption, BufferTypes, ParkedInv, NEW b
    PROVE  /\ IsFiniteSet(U!Undrawn) /\ IsFiniteSet(Cut(b)) /\ IsFiniteSet(Drawn(b))
           /\ IsFiniteSet(SplitOff(b)) /\ Cardinality(U!Undrawn) \in Nat /\ Cardinality(Cut(b)) \in Nat
           /\ Cardinality(Drawn(b)) \in Nat /\ Cardinality(SplitOff(b)) \in Nat
<1>1. IsFiniteSet(U!Batches \X (1 .. Limit))
    <2>1. IsFiniteSet(1 .. Limit)
        BY BufferedFacts, FS_Interval
    <2> QED  BY <2>1, BufferedFacts, FS_Product
<1>2. U!Undrawn \in SUBSET (U!Batches \X (1 .. Limit)) /\ Cut(b) \in SUBSET U!Undrawn
    BY DEF U!Undrawn, U!Range, ParkedInv, Cut
<1>3. IsFiniteSet(U!Undrawn) /\ IsFiniteSet(Cut(b))
    BY <1>1, <1>2, FS_Subset
<1>4. IsFiniteSet(Drawn(b))
    <2>1. DOMAIN parts = 1 .. Len(parts) /\ Len(parts) \in Nat
        BY DEF BufferTypes
    <2>2. IsFiniteSet(1 .. Len(parts)) /\ Drawn(b) \in SUBSET (1 .. Len(parts))
        BY <2>1, FS_Interval DEF Drawn
    <2> QED  BY <2>2, FS_Subset
<1>5. IsFiniteSet(SplitOff(b))
    <2>1. Len(ready) \in Nat /\ Count \in Nat
        BY BufferedFacts DEF BufferTypes
    <2>2. IsFiniteSet(1 .. Len(ready)) /\ IsFiniteSet(1 .. Count)
        BY <2>1, FS_Interval
    <2>3. IsFiniteSet((1 .. Len(ready)) \X (1 .. Count))
        BY <2>2, FS_Product
    <2>4. SplitOff(b) \in SUBSET ((1 .. Len(ready)) \X (1 .. Count))
        BY DEF SplitOff
    <2> QED  BY <2>3, <2>4, FS_Subset
<1> QED  BY <1>3, <1>4, <1>5, FS_CardinalityType

\* How often batch b occurs in a sequence.
Copies(s, b) == {i \in DOMAIN s : s[i] = b}

LEMMA CopiesFinite ==
    ASSUME NEW s \in Seq(U!Batches), NEW b
    PROVE  IsFiniteSet(Copies(s, b)) /\ Cardinality(Copies(s, b)) \in Nat
<1>1. IsFiniteSet(1 .. Len(s)) /\ Copies(s, b) \in SUBSET (1 .. Len(s))
    BY FS_Interval DEF Copies
<1> QED  BY <1>1, FS_Subset, FS_CardinalityType

\* One piece split off, or none.
LEMMA PieceCounted ==
    ASSUME U!BufferAssumption, NEW s \in Seq(U!Batches), Len(s) <= Count, NEW b,
           NEW pieces, pieces = <<s>>
    PROVE  Cardinality({m \in (1 .. Len(pieces)) \X (1 .. Count) :
                          m[2] \in DOMAIN pieces[m[1]] /\ pieces[m[1]][m[2]] = b})
           = Cardinality(Copies(s, b))
<1> DEFINE Cells == {m \in (1 .. Len(pieces)) \X (1 .. Count) :
                      m[2] \in DOMAIN pieces[m[1]] /\ pieces[m[1]][m[2]] = b}
<1>1. Len(pieces) = 1 /\ pieces[1] = s /\ DOMAIN s = 1 .. Len(s) /\ Count \in Nat /\ Len(s) \in Nat
    BY DEF U!BufferAssumption
<1>2. \A i \in 1 .. Len(s) : i \in 1 .. Count
    BY <1>1
<1>3. 1 .. Len(pieces) = {1}
    BY <1>1
<1>4. Cells = {1} \X Copies(s, b)
    BY <1>1, <1>2, <1>3 DEF Copies
<1>5. IsFiniteSet({1}) /\ Cardinality({1}) = 1
    BY FS_Singleton
<1>6. Cardinality({1} \X Copies(s, b)) = 1 * Cardinality(Copies(s, b))
    BY <1>5, CopiesFinite, FS_Product
<1> HIDE DEF Cells
<1>7. Cardinality(Cells) = Cardinality(Copies(s, b))
    BY <1>4, <1>6, CopiesFinite
<1> QED  BY <1>7 DEF Cells

\* A sequence cut in two has its messages in the two parts.
LEMMA CopiesCut ==
    ASSUME NEW s \in Seq(U!Batches), NEW n \in 1 .. Len(s), NEW b
    PROVE  LET front == SubSeq(s, 1, n)
               back == SubSeq(s, n + 1, Len(s))
           IN  /\ front \in Seq(U!Batches) /\ Len(front) = n
               /\ back \in Seq(U!Batches) /\ Len(back) = Len(s) - n
               /\ Cardinality(Copies(s, b)) = Cardinality(Copies(front, b)) + Cardinality(Copies(back, b))
<1>1. PICK front, back, l : front = SubSeq(s, 1, n) /\ back = SubSeq(s, n + 1, Len(s)) /\ l = Len(s)
    OBVIOUS
<1>2. /\ front \in Seq(U!Batches) /\ Len(front) = n /\ \A i \in 1 .. n : front[i] = s[i]
      /\ back \in Seq(U!Batches) /\ Len(back) = l - n /\ \A i \in 1 .. l - n : back[i] = s[n + i]
      /\ l \in Nat /\ n \in 1 .. l
    BY <1>1
<1>3. /\ DOMAIN front = 1 .. n /\ DOMAIN back = 1 .. l - n /\ DOMAIN s = 1 .. l
    BY <1>1, <1>2
<1> DEFINE Later == {i \in n + 1 .. l : s[i] = b}
           shift == [i \in Copies(back, b) |-> n + i]
<1>4. Copies(s, b) = Copies(front, b) \cup Later /\ Copies(front, b) \cap Later = {}
    <2>1. /\ \A i : i \in 1 .. l <=> i \in 1 .. n \/ i \in n + 1 .. l
          /\ \A i \in n + 1 .. l : i \notin 1 .. n
        BY <1>2
    <2>2. Copies(s, b) = {i \in 1 .. l : s[i] = b} /\ Copies(front, b) = {i \in 1 .. n : s[i] = b}
        BY <1>2, <1>3 DEF Copies
    <2> QED  BY <2>1, <2>2
<1>5. shift \in Bijection(Copies(back, b), Later)
    <2>1. Copies(back, b) = {i \in 1 .. l - n : s[n + i] = b}
        BY <1>2, <1>3 DEF Copies
    <2>2. \A i \in 1 .. l - n : n + i \in n + 1 .. l
        BY <1>2
    <2>3. shift \in [Copies(back, b) -> Later]
        BY <2>1, <2>2
    <2>4. \A i, j \in Copies(back, b) : shift[i] = shift[j] => i = j
        BY <1>2, <2>1
    <2>5. ASSUME NEW j \in Later PROVE \E i \in Copies(back, b) : shift[i] = j
        <3>1. j - n \in 1 .. l - n /\ n + (j - n) = j
            BY <1>2
        <3>2. j - n \in Copies(back, b)
            BY <2>1, <2>5, <3>1
        <3> QED  BY <3>1, <3>2
    <2> QED  BY <2>3, <2>4, <2>5 DEF Bijection, Injection, Surjection, IsInjective
<1>6. IsFiniteSet(Later) /\ Cardinality(Later) = Cardinality(Copies(back, b))
    <2>1. ExistsBijection(Copies(back, b), Later)
        BY <1>5 DEF ExistsBijection
    <2>2. IsFiniteSet(Copies(back, b))
        BY <1>2, CopiesFinite
    <2> HIDE DEF Later
    <2> QED  BY <2>1, <2>2, FS_Bijection
<1> HIDE DEF Later
<1>7. IsFiniteSet(Copies(front, b)) /\ Cardinality(Copies(front, b)) \in Nat
      /\ Cardinality(Copies(back, b)) \in Nat
    BY <1>2, CopiesFinite
<1>8. Cardinality(Copies(s, b))
      = Cardinality(Copies(front, b)) + Cardinality(Copies(back, b)) - Cardinality({})
    BY <1>4, <1>6, <1>7, FS_Union
<1>9. Cardinality(Copies(s, b)) = Cardinality(Copies(front, b)) + Cardinality(Copies(back, b))
    BY <1>7, <1>8, FS_EmptySet
<1> QED  BY <1>1, <1>2, <1>9

\* The reader takes n messages of the front batch.
LEMMA FrontGoes ==
    ASSUME U!InputAssumption, U!BufferAssumption, BufferTypes, ParkedInv, parked # <<>>,
           NEW h, h = Head(parked), NEW n \in 0 .. Offered[h] - taken,
           IF taken + n = Offered[h] THEN parked' = Tail(parked) /\ taken' = 0
                                     ELSE taken' = taken + n /\ UNCHANGED parked
    PROVE  /\ parked' \in Seq(U!Batches) /\ Once(parked') /\ U!Range(parked') \subseteq U!Range(parked)
           /\ taken' \in Nat /\ IF parked' = <<>> THEN taken' = 0 ELSE taken' <= Offered[Head(parked')]
           /\ h \in U!Range(parked) /\ h \in U!Batches
           /\ U!Undrawn' = U!Undrawn \ Block(h, taken, n) /\ Block(h, taken, n) \subseteq U!Undrawn
<1>1. PICK l : l = Len(parked)
    OBVIOUS
<1>2. /\ l \in Nat /\ l > 0 /\ h = parked[1] /\ h \in U!Batches /\ h \in U!Range(parked)
      /\ U!Range(parked) = {parked[i] : i \in 1 .. l}
    <2>1. parked \in Seq(U!Batches)
        BY DEF ParkedInv
    <2>2. l \in Nat /\ l > 0 /\ h = parked[1] /\ h \in U!Batches /\ DOMAIN parked = 1 .. l
        BY <1>1, <2>1
    <2> QED  BY <2>2 DEF U!Range
<1>3. /\ Offered[h] \in Nat /\ Offered[h] <= Limit /\ Limit \in Nat /\ taken \in Nat /\ n \in Nat
      /\ taken + n <= Offered[h] /\ taken <= Offered[h]
    <2>1. Offered[h] \in Nat /\ Offered[h] <= Limit /\ Limit \in Nat /\ taken \in Nat /\ taken <= Offered[h]
        BY <1>2, BufferedFacts DEF ParkedInv
    <2> QED  BY <2>1
<1>4. Block(h, taken, n) \subseteq U!Undrawn
    <2>1. ASSUME NEW k \in taken + 1 .. taken + n PROVE <<h, k>> \in U!Undrawn
        <3>1. k \in 1 .. Limit /\ k <= Offered[h] /\ k > taken
            BY <1>3
        <3> QED  BY <1>2, <3>1 DEF U!Undrawn
    <2> QED  BY <2>1 DEF Block
<1>5. CASE taken + n = Offered[h]
    <2>1. /\ parked' \in Seq(U!Batches) /\ Len(parked') = l - 1 /\ taken' = 0
          /\ \A i \in 1 .. l - 1 : parked'[i] = parked[i + 1]
        BY <1>1, <1>2, <1>5 DEF ParkedInv
    <2>2. /\ \A i \in 1 .. l - 1 : i + 1 \in 1 .. l /\ i + 1 # 1
          /\ \A i \in 1 .. l : i # 1 => i - 1 \in 1 .. l - 1 /\ (i - 1) + 1 = i
          /\ 1 \in 1 .. l
        BY <1>2
    <2>3. \A i, j \in 1 .. l : parked[i] = parked[j] => i = j
        BY <1>1 DEF ParkedInv, Once
    <2>4. Once(parked')
        <3>1. \A i, j \in 1 .. l - 1 : i + 1 = j + 1 => i = j
            BY <1>2
        <3>2. ASSUME NEW i \in 1 .. l - 1, NEW j \in 1 .. l - 1, parked'[i] = parked'[j]
              PROVE  i = j
            <4>1. parked[i + 1] = parked[j + 1] /\ i + 1 \in 1 .. l /\ j + 1 \in 1 .. l
                BY <2>1, <2>2, <3>2
            <4> QED  BY <2>3, <3>1, <4>1
        <3> QED  BY <2>1, <3>2 DEF Once
    <2>5. U!Range(parked') = {parked'[i] : i \in 1 .. l - 1}
        <3>1. DOMAIN parked' = 1 .. l - 1
            BY <2>1
        <3> QED  BY <3>1 DEF U!Range
    <2>6. U!Range(parked') = U!Range(parked) \ {h}
        <3>1. U!Range(parked') \subseteq U!Range(parked) \ {h}
            <4>1. ASSUME NEW i \in 1 .. l - 1
                  PROVE  parked'[i] \in U!Range(parked) /\ parked'[i] # h
                <5>1. parked'[i] = parked[i + 1] /\ i + 1 \in 1 .. l /\ i + 1 # 1 /\ 1 \in 1 .. l
                    BY <2>1, <2>2
                <5> QED  BY <1>2, <2>3, <5>1
            <4> QED  BY <2>5, <4>1
        <3>2. ASSUME NEW i \in 1 .. l, parked[i] # h PROVE parked[i] \in U!Range(parked')
            <4>1. i # 1
                BY <1>2, <3>2
            <4>2. i - 1 \in 1 .. l - 1 /\ parked'[i - 1] = parked[i]
                BY <2>1, <2>2, <4>1
            <4> QED  BY <2>5, <4>2
        <3> QED  BY <1>2, <3>1, <3>2
    <2>7. parked' # <<>> => Head(parked') \in U!Batches
        BY <2>1
    <2>8. IF parked' = <<>> THEN taken' = 0 ELSE taken' <= Offered[Head(parked')]
        BY <2>1, <2>7, BufferedFacts
    <2>9. U!Undrawn' = {m \in U!Range(parked') \X (1 .. Limit) : m[2] <= Offered[m[1]]}
        <3>1. \A m \in U!Range(parked') \X (1 .. Limit) : m[2] > taken'
            BY <1>3, <2>1
        <3> QED  BY <3>1 DEF U!Undrawn
    <2>10. U!Undrawn' \subseteq U!Undrawn \ Block(h, taken, n)
        BY <2>6, <2>9 DEF U!Undrawn, Block
    <2>11. ASSUME NEW m \in U!Undrawn, m \notin Block(h, taken, n) PROVE m \in U!Undrawn'
        <3>1. /\ m \in U!Range(parked) \X (1 .. Limit) /\ m[2] <= Offered[m[1]] /\ m = <<m[1], m[2]>>
              /\ m[1] = h => m[2] > taken
            BY <2>11 DEF U!Undrawn
        <3>2. m[1] # h
            <4>1. m[1] = h => m[2] \in taken + 1 .. taken + n
                BY <1>3, <1>5, <3>1
            <4> QED  BY <2>11, <3>1, <4>1 DEF Block
        <3> QED  BY <2>6, <2>9, <3>1, <3>2
    <2> QED  BY <1>2, <1>4, <2>1, <2>4, <2>6, <2>8, <2>10, <2>11
<1>6. CASE taken + n # Offered[h]
    <2>1. taken' = taken + n /\ parked' = parked
        BY <1>6
    <2>2. U!Undrawn' = {m \in U!Range(parked) \X (1 .. Limit) :
                          m[2] <= Offered[m[1]] /\ (m[1] = h => m[2] > taken + n)}
        BY <2>1 DEF U!Undrawn
    <2>3. U!Undrawn = {m \in U!Range(parked) \X (1 .. Limit) :
                         m[2] <= Offered[m[1]] /\ (m[1] = h => m[2] > taken)}
        BY DEF U!Undrawn
    <2>4. \A k \in 1 .. Limit : k > taken + n <=> k > taken /\ k \notin taken + 1 .. taken + n
        BY <1>3
    <2>5. U!Undrawn' \subseteq U!Undrawn \ Block(h, taken, n)
        BY <2>2, <2>3, <2>4 DEF Block
    <2>6. ASSUME NEW m \in U!Undrawn, m \notin Block(h, taken, n) PROVE m \in U!Undrawn'
        <3>1. /\ m \in U!Range(parked) \X (1 .. Limit) /\ m[2] <= Offered[m[1]] /\ m = <<m[1], m[2]>>
              /\ m[1] = h => m[2] > taken
            BY <2>3, <2>6
        <3>2. m[1] = h => m[2] \notin taken + 1 .. taken + n
            BY <2>6, <3>1 DEF Block
        <3> QED  BY <2>2, <2>4, <3>1, <3>2
    <2>7. taken' \in Nat /\ taken' <= Offered[h]
        BY <1>3, <2>1
    <2> QED  BY <1>2, <1>4, <2>1, <2>5, <2>6, <2>7 DEF ParkedInv
<1> QED  BY <1>5, <1>6

\* What that leaves of each batch.
LEMMA FrontCounted ==
    ASSUME U!InputAssumption, U!BufferAssumption, BufferTypes, ParkedInv, parked # <<>>,
           NEW h, h = Head(parked), NEW n \in 0 .. Offered[h] - taken,
           IF taken + n = Offered[h] THEN parked' = Tail(parked) /\ taken' = 0
                                     ELSE taken' = taken + n /\ UNCHANGED parked
    PROVE  /\ Cardinality(U!Undrawn') = Cardinality(U!Undrawn) - n
           /\ \A b : Cardinality(Cut(b)') = Cardinality(Cut(b)) - (IF b = h THEN n ELSE 0)
<1>0. PICK gone : gone = Block(h, taken, n)
    OBVIOUS
<1>1. taken \in Nat /\ n \in Nat
    BY DEF ParkedInv
<1>2. U!Undrawn' = U!Undrawn \ gone /\ gone \subseteq U!Undrawn
    BY <1>0, FrontGoes
<1>3. IsFiniteSet(gone) /\ Cardinality(gone) = n
    BY <1>0, <1>1, BlockCounted
<1>4. Cardinality(U!Undrawn') = Cardinality(U!Undrawn) - n
    <2>1. IsFiniteSet(U!Undrawn) /\ U!Undrawn \cap gone = gone
        BY <1>2, BufferFinite
    <2>2. Cardinality(U!Undrawn \ gone) = Cardinality(U!Undrawn) - n
        <3>1. Cardinality(U!Undrawn \ gone) = Cardinality(U!Undrawn) - Cardinality(U!Undrawn \cap gone)
            BY <2>1, FS_Difference
        <3> QED  BY <1>3, <2>1, <3>1
    <2> QED  BY <1>2, <2>2
<1>5. ASSUME NEW b PROVE Cardinality(Cut(b)') = Cardinality(Cut(b)) - (IF b = h THEN n ELSE 0)
    <2>1. IsFiniteSet(Cut(b)) /\ Cardinality(Cut(b)) \in Nat
        BY BufferFinite
    <2>2. CASE b = h
        <3>1. Cut(b)' = Cut(b) \ gone /\ Cut(b) \cap gone = gone
            BY <1>0, <1>2, <2>2 DEF Cut, Block
        <3>2. Cardinality(Cut(b) \ gone) = Cardinality(Cut(b)) - n
            <4>1. Cardinality(Cut(b) \ gone) = Cardinality(Cut(b)) - Cardinality(Cut(b) \cap gone)
                BY <2>1, FS_Difference
            <4> QED  BY <1>3, <3>1, <4>1
        <3> QED  BY <2>2, <3>1, <3>2
    <2>3. CASE b # h
        <3>1. Cut(b)' = Cut(b)
            BY <1>0, <1>2, <2>3 DEF Cut, Block
        <3> QED  BY <2>1, <2>3, <3>1
    <2> QED  BY <2>2, <2>3
<1> QED  BY <1>4, <1>5

LEMMA BufferInit ==
    ASSUME U!InputAssumption, U!BufferAssumption, U!Init
    PROVE  BufferInv
<1>1. /\ pc = "idle" /\ read = {} /\ filler = "reading" /\ hand = 0 /\ parked = <<>> /\ taken = 0
      /\ bytes = 0 /\ ready = <<>> /\ parts = <<>> /\ landed = [b \in U!Batches |-> 0]
      /\ dropped = [b \in U!Batches |-> 0]
    BY DEF U!Init, U!SideInit
<1>2. Cardinality(read) = 0 /\ read = 1 .. 0 /\ Len(<<>>) = 0 /\ <<>> \in Seq(U!Batches)
    BY <1>1, FS_EmptySet
<1>3. BufferTypes
    BY <1>1, <1>2, BufferedFacts DEF BufferTypes
<1>4. ParkedInv
    BY <1>1, <1>2, BufferedFacts DEF ParkedInv, Once
<1>5. U!Undrawn = {} /\ \A b : Cut(b) = {} /\ Drawn(b) = {} /\ SplitOff(b) = {}
    <2>1. U!Range(parked) = {} /\ DOMAIN parts = {} /\ 1 .. Len(ready) = {}
        BY <1>1, <1>2, BufferedFacts
    <2> QED  BY <2>1 DEF U!Undrawn, Cut, Drawn, SplitOff
<1>6. HandInv
    BY <1>1, <1>5, BufferedFacts, FS_EmptySet DEF HandInv
<1>7. ASSUME NEW b \in U!Batches PROVE Buffered(b)
    <2>1. Cardinality(Cut(b)) = 0 /\ Cardinality(Drawn(b)) = 0 /\ Cardinality(SplitOff(b)) = 0
        BY <1>5, FS_EmptySet
    <2>2. Due(b) = 0 /\ Done(b) = 0 /\ hand # b
        BY <1>1, <1>7, BufferedFacts DEF Due, Done
    <2> QED  BY <2>1, <2>2 DEF Buffered
<1> QED  BY <1>3, <1>4, <1>6, <1>7 DEF BufferInv

\* What moves no message.
LEMMA BufferStays ==
    ASSUME BufferInv, UNCHANGED <<part, read, landed, dropped, parked, taken, bytes, ready, parts, hand>>,
           pc' \in {"look", "wait", "timed"} => parked = <<>>,
           pc' \in {"look", "wait", "timed", "flush", "drawing"} => ready = <<>>,
           pc' = "flush" \/ Len(parts) < Count,
           filler' = "reading" => filler = "reading",
           filler' \in {"parking", "room"} => hand # 0,
           filler' = "room" => bytes + Offered[hand] > Limit /\ pc' # "drawing"
    PROVE  BufferInv'
<1>1. Cardinality(read)' = Cardinality(read) /\ U!Undrawn' = U!Undrawn
    BY DEF U!Undrawn
<1>2. BufferTypes'
    BY <1>1 DEF BufferInv, BufferTypes
<1>3. ParkedInv'
    BY DEF BufferInv, ParkedInv
<1>4. HandInv'
    BY <1>1 DEF BufferInv, HandInv
<1>5. ASSUME NEW b \in U!Batches PROVE Buffered(b)'
    <2>1. /\ Cut(b)' = Cut(b) /\ Drawn(b)' = Drawn(b) /\ SplitOff(b)' = SplitOff(b)
          /\ Due(b)' = Due(b) /\ Done(b)' = Done(b)
        BY <1>1 DEF Cut, Drawn, SplitOff, Due, Done
    <2> QED  BY <2>1 DEF BufferInv, Buffered
<1> QED  BY <1>2, <1>3, <1>4, <1>5 DEF BufferInv

LEMMA BufferFiber ==
    ASSUME BufferInv, part' = part,
           \/ U!Call \/ U!NothingParked \/ U!Look \/ U!TimedOut \/ U!Tick \/ U!FillWait
           \/ U!FillAborted \/ U!FillEnd \/ U!Abort \/ U!Close \/ U!Closed \/ UNCHANGED U!vars
    PROVE  BufferInv'
<1>1. /\ pc # "flush" => Len(parts) < Count
      /\ pc \in {"look", "wait", "timed"} => parked = <<>>
      /\ pc \in {"look", "wait", "timed", "flush", "drawing"} => ready = <<>>
      /\ filler \in {"parking", "room"} => hand # 0
      /\ filler = "room" => bytes + Offered[hand] > Limit /\ pc # "drawing"
    BY DEF BufferInv, BufferTypes, ParkedInv, HandInv
<1>2. CASE U!Call
    BY <1>1, <1>2, BufferStays DEF U!Call, U!env, U!wrapVars
<1>3. CASE U!NothingParked
    BY <1>1, <1>3, BufferStays DEF U!NothingParked, U!env, U!wrapVars
<1>4. CASE U!Look
    <2>1. pc' \in {"flush", "ended", "loop", "timed", "wait"} /\ pc = "look"
        BY <1>4 DEF U!Look
    <2>2. UNCHANGED <<read, landed, dropped, parked, taken, bytes, ready, parts, hand, filler>>
        BY <1>4 DEF U!Look, U!env
    <2> QED  BY <1>1, <2>1, <2>2, BufferStays
<1>5. CASE U!TimedOut
    BY <1>1, <1>5, BufferStays DEF U!TimedOut, U!env, U!wrapVars
<1>6. CASE U!Tick
    BY <1>1, <1>6, BufferStays DEF U!Tick, U!sideVars
<1>7. CASE U!FillWait
    <2>1. /\ UNCHANGED <<pc, read, landed, dropped, parked, taken, bytes, ready, parts, hand>>
          /\ filler = "parking" /\ bytes + Offered[hand] > Limit /\ pc # "drawing"
        BY <1>7 DEF U!FillWait, U!NoRoom, U!sideVars, U!Between
    <2>2. filler' \in {"parking", "room"}
        BY <1>7 DEF U!FillWait
    <2> QED  BY <1>1, <2>1, <2>2, BufferStays
<1>8. CASE U!FillAborted
    BY <1>1, <1>8, BufferStays DEF U!FillAborted, U!sideVars
<1>9. CASE U!FillEnd
    <2>1. /\ UNCHANGED <<read, landed, dropped, parked, taken, bytes, ready, parts, hand>>
          /\ filler' = "ended" /\ (pc' = pc \/ (pc # "flush" /\ pc' = "loop"))
        BY <1>9 DEF U!FillEnd, U!Waits
    <2> QED  BY <1>1, <2>1, BufferStays
<1>10. CASE U!Abort
    <2>1. /\ UNCHANGED <<read, landed, dropped, parked, taken, bytes, ready, parts, hand>>
          /\ filler' \in {filler, "ended"} /\ (pc' = pc \/ (pc # "flush" /\ pc' = "ended"))
        BY <1>10 DEF U!Abort, U!Waits
    <2> QED  BY <1>1, <2>1, BufferStays
<1>11. CASE U!Close
    <2>1. /\ UNCHANGED <<read, landed, dropped, parked, taken, bytes, ready, parts, hand>>
          /\ filler' \in {filler, "ended"} /\ pc = "ended" /\ pc' = "closing"
        BY <1>11 DEF U!Close, U!env
    <2> QED  BY <1>1, <2>1, BufferStays
<1>12. CASE U!Closed
    BY <1>1, <1>12, BufferStays DEF U!Closed, U!env, U!wrapVars
<1>13. CASE UNCHANGED U!vars
    BY <1>1, <1>13, BufferStays DEF U!vars, U!sideVars, U!wrapVars
<1> QED  BY <1>2, <1>3, <1>4, <1>5, <1>6, <1>7, <1>8, <1>9, <1>10, <1>11, <1>12, <1>13

LEMMA DoneCounted ==
    ASSUME BufferTypes
    PROVE  \A b \in U!Batches : Done(b) \in Nat
    BY DEF BufferTypes, Done

\* A sequence of messages is handed out or filtered, or dropped by a failing flush.
LEMMA BufferLanded ==
    ASSUME U!InputAssumption, U!BufferAssumption, BufferTypes, NEW s \in Seq(U!Batches),
           (U!Landed(s) /\ UNCHANGED dropped) \/ (U!Dropped(s) /\ UNCHANGED landed)
    PROVE  /\ landed' \in [U!Batches -> Nat] /\ dropped' \in [U!Batches -> Nat]
           /\ \A b \in U!Batches : Done(b)' = Done(b) + Cardinality(Copies(s, b))
<1> DEFINE more(f) == [b \in U!Batches |-> f[b] + Cardinality(Copies(s, b))]
<1>1. ASSUME NEW f \in [U!Batches -> Nat]
      PROVE  more(f) \in [U!Batches -> Nat]
    <2>1. \A b \in U!Batches : f[b] \in Nat /\ Cardinality(Copies(s, b)) \in Nat
        BY CopiesFinite
    <2>2. \A b \in U!Batches : f[b] + Cardinality(Copies(s, b)) \in Nat
        BY <2>1
    <2> QED  BY <2>2
<1>2. landed \in [U!Batches -> Nat] /\ dropped \in [U!Batches -> Nat]
    BY DEF BufferTypes
<1>3. \/ landed' = more(landed) /\ dropped' = dropped
      \/ dropped' = more(dropped) /\ landed' = landed
    BY BufferedCounts DEF U!Landed, U!Dropped, Copies
<1>4. landed' \in [U!Batches -> Nat] /\ dropped' \in [U!Batches -> Nat]
    <2> HIDE DEF more
    <2> QED  BY <1>1, <1>2, <1>3
<1>5. ASSUME NEW b \in U!Batches PROVE Done(b)' = Done(b) + Cardinality(Copies(s, b))
    <2>1. landed[b] \in Nat /\ dropped[b] \in Nat /\ Cardinality(Copies(s, b)) \in Nat
        BY <1>2, CopiesFinite
    <2>2. \/ landed'[b] = landed[b] + Cardinality(Copies(s, b)) /\ dropped'[b] = dropped[b]
          \/ dropped'[b] = dropped[b] + Cardinality(Copies(s, b)) /\ landed'[b] = landed[b]
        BY <1>3
    <2> QED  BY <2>1, <2>2 DEF Done
<1> QED  BY <1>4, <1>5

\* A piece the processors split off is handed out.
LEMMA BufferTakeReady ==
    ASSUME U!InputAssumption, U!BufferAssumption, BufferInv, part' = part, U!TakeReady
    PROVE  BufferInv'
<1>1. /\ pc = "loop" /\ pc' = "idle" /\ ready # <<>> /\ U!Landed(Head(ready)) /\ ready' = Tail(ready)
      /\ UNCHANGED <<read, dropped, filler, hand, parked, taken, bytes, parts>> /\ pc' # "drawing"
    BY DEF U!TakeReady, U!HandOut, U!env
<1>2. PICK s \in Seq(U!Batches) : ready = <<s>> /\ s = Head(ready) /\ Len(s) <= Count
    BY <1>1 DEF BufferInv, BufferTypes
<1>3. ready' = <<>>
    BY <1>1, <1>2
<1>4. /\ landed' \in [U!Batches -> Nat] /\ dropped' \in [U!Batches -> Nat]
      /\ \A b \in U!Batches : Done(b)' = Done(b) + Cardinality(Copies(s, b))
    BY <1>1, <1>2, BufferLanded DEF BufferInv
<1>5. Cardinality(read)' = Cardinality(read) /\ U!Undrawn' = U!Undrawn
    BY <1>1 DEF U!Undrawn
<1>6. BufferTypes' /\ ParkedInv' /\ HandInv'
    <2>1. BufferTypes'
        BY <1>1, <1>3, <1>4, <1>5 DEF BufferInv, BufferTypes
    <2>2. ParkedInv'
        BY <1>1 DEF BufferInv, ParkedInv
    <2>3. HandInv'
        BY <1>1, <1>5 DEF BufferInv, HandInv
    <2> QED  BY <2>1, <2>2, <2>3
<1>7. ASSUME NEW b \in U!Batches PROVE Buffered(b)'
    <2>1. Cut(b)' = Cut(b) /\ Drawn(b)' = Drawn(b) /\ Due(b)' = Due(b)
        BY <1>1, <1>5 DEF Cut, Drawn, Due
    <2>2. Cardinality(SplitOff(b)) = Cardinality(Copies(s, b))
        <3>1. PICK pieces : pieces = ready
            OBVIOUS
        <3> QED  BY <1>2, <3>1, PieceCounted DEF SplitOff
    <2>3. Cardinality(SplitOff(b)') = 0
        <3>1. SplitOff(b)' = {}
            BY <1>3 DEF SplitOff
        <3> QED  BY <3>1, FS_EmptySet
    <2>4. Done(b) \in Nat /\ Cardinality(Copies(s, b)) \in Nat /\ Cardinality(Cut(b)) \in Nat
          /\ Cardinality(Drawn(b)) \in Nat /\ Offered[b] \in Nat
        BY DoneCounted, CopiesFinite, BufferFinite, BufferedFacts DEF BufferInv, BufferTypes
    <2>5. Buffered(b) /\ Done(b)' = Done(b) + Cardinality(Copies(s, b)) /\ hand' = hand
        BY <1>1, <1>4 DEF BufferInv
    <2>6. PICK x, y : x = Done(b) /\ y = Done(b)'
        OBVIOUS
    <2>7. /\ x + Cardinality(Cut(b)) + Cardinality(Drawn(b)) + Cardinality(SplitOff(b))
             + (IF hand = b THEN Offered[b] ELSE 0) = Due(b)
          /\ y = x + Cardinality(Copies(s, b)) /\ x \in Nat
        BY <2>4, <2>5, <2>6 DEF Buffered
    <2>8. /\ Cardinality(Cut(b)') = Cardinality(Cut(b)) /\ Cardinality(Drawn(b)') = Cardinality(Drawn(b))
          /\ (IF hand' = b THEN Offered[b] ELSE 0) = IF hand = b THEN Offered[b] ELSE 0
        BY <2>1, <2>5
    <2>9. y + Cardinality(Cut(b)') + Cardinality(Drawn(b)') + Cardinality(SplitOff(b)')
          + (IF hand' = b THEN Offered[b] ELSE 0) = Due(b)'
        <3>1. \A c, x1, k, d, o \in Nat : (x1 + c) + k + d + 0 + o = x1 + k + d + c + o
            OBVIOUS
        <3>2. (IF hand = b THEN Offered[b] ELSE 0) \in Nat
            BY <2>4
        <3> QED  BY <2>1, <2>2, <2>3, <2>4, <2>7, <2>8, <3>1, <3>2
    <2> QED  BY <2>6, <2>9 DEF Buffered
<1> QED  BY <1>6, <1>7 DEF BufferInv

\* Without a policy a parked batch is handed out whole.
LEMMA BufferTakeParked ==
    ASSUME U!InputAssumption, U!BufferAssumption, BufferInv, part' = part, U!TakeParked
    PROVE  BufferInv'
<1>1. PICK h, n, s : h = Head(parked) /\ n = Offered[h] /\ s = U!Whole(h)
    OBVIOUS
<1>2. /\ pc = "loop" /\ pc' = "idle" /\ parked # <<>> /\ U!Landed(s) /\ parked' = Tail(parked)
      /\ bytes' = bytes - n /\ filler' = IF filler = "room" THEN "parking" ELSE filler
      /\ UNCHANGED <<read, dropped, hand, taken, ready, parts>> /\ taken = 0 /\ part # "buffered"
    BY <1>1 DEF U!TakeParked, U!HandOut, U!SignalFiller, U!env, BufferInv, ParkedInv
<1>3. h \in U!Batches /\ n \in Nat /\ h \in U!Range(parked) /\ n <= Limit
    <2>1. h \in U!Batches /\ h \in U!Range(parked)
        <3>1. parked \in Seq(U!Batches)
            BY DEF BufferInv, ParkedInv
        <3>2. Len(parked) \in Nat /\ Len(parked) > 0 /\ DOMAIN parked = 1 .. Len(parked) /\ h = parked[1]
              /\ parked[1] \in U!Batches
            BY <1>1, <1>2, <3>1
        <3> QED  BY <3>2 DEF U!Range
    <2> QED  BY <1>1, <2>1, BufferedFacts DEF BufferInv, ParkedInv
<1>4. s \in Seq(U!Batches) /\ Len(s) = n /\ \A i \in 1 .. n : s[i] = h
    BY <1>1, <1>3 DEF U!Whole
<1>5. \A b : Cardinality(Copies(s, b)) = IF b = h THEN n ELSE 0
    <2>1. DOMAIN s = 1 .. n
        BY <1>3, <1>4
    <2>2. ASSUME NEW b, b = h PROVE Cardinality(Copies(s, b)) = n
        <3>1. Copies(s, b) = 1 .. n
            BY <1>4, <2>1, <2>2 DEF Copies
        <3>2. Cardinality(1 .. n) = n
            <4>1. 1 \in Int /\ n \in Int /\ (1 > n <=> n = 0) /\ n - 1 + 1 = n
                BY <1>3
            <4> QED  BY <4>1, FS_Interval
        <3> QED  BY <3>1, <3>2
    <2>3. ASSUME NEW b, b # h PROVE Cardinality(Copies(s, b)) = 0
        <3>1. Copies(s, b) = {}
            BY <1>4, <2>1, <2>3 DEF Copies
        <3> QED  BY <3>1, FS_EmptySet
    <2> QED  BY <2>2, <2>3
<1>6. /\ landed' \in [U!Batches -> Nat] /\ dropped' \in [U!Batches -> Nat]
      /\ \A b \in U!Batches : Done(b)' = Done(b) + Cardinality(Copies(s, b))
    BY <1>2, <1>4, BufferLanded DEF BufferInv
<1>7. /\ n \in 0 .. Offered[h] - taken /\ taken + n = Offered[h]
      /\ parked' = Tail(parked) /\ taken' = 0
    BY <1>1, <1>2, <1>3
<1>8. /\ parked' \in Seq(U!Batches) /\ Once(parked') /\ U!Range(parked') \subseteq U!Range(parked)
      /\ Cardinality(U!Undrawn') = Cardinality(U!Undrawn) - n
      /\ \A b : Cardinality(Cut(b)') = Cardinality(Cut(b)) - (IF b = h THEN n ELSE 0)
      /\ IF parked' = <<>> THEN taken' = 0 ELSE taken' <= Offered[Head(parked')]
    BY <1>1, <1>2, <1>7, FrontGoes, FrontCounted DEF BufferInv
<1>9. BufferTypes'
    <2>1. Cardinality(read)' = Cardinality(read)
        BY <1>2
    <2> QED  BY <1>2, <1>6, <2>1 DEF BufferInv, BufferTypes
<1>10. ParkedInv'
    BY <1>2, <1>7, <1>8 DEF BufferInv, ParkedInv
<1>11. HandInv'
    <2>1. bytes' = Cardinality(U!Undrawn)' /\ bytes' <= Limit
        <3>1. bytes = Cardinality(U!Undrawn) /\ bytes <= Limit /\ Cardinality(U!Undrawn) \in Nat /\ Limit \in Nat
            BY BufferFinite, BufferedFacts DEF BufferInv, HandInv
        <3> QED  BY <1>2, <1>3, <1>8, <3>1
    <2> QED  BY <1>2, <1>8, <2>1 DEF BufferInv, HandInv
<1>12. ASSUME NEW b \in U!Batches PROVE Buffered(b)'
    <2>1. Drawn(b)' = Drawn(b) /\ SplitOff(b)' = SplitOff(b) /\ Due(b)' = Due(b) /\ Buffered(b)
        BY <1>2 DEF Drawn, SplitOff, Due, BufferInv
    <2>2. Done(b) \in Nat /\ Cardinality(Cut(b)) \in Nat /\ Cardinality(Drawn(b)) \in Nat
          /\ Cardinality(SplitOff(b)) \in Nat /\ Offered[b] \in Nat
        BY DoneCounted, BufferFinite, BufferedFacts DEF BufferInv, BufferTypes
    <2>3. PICK x, y, k, l :
            x = Done(b) /\ y = Done(b)' /\ k = Cardinality(Cut(b)) /\ l = Cardinality(Cut(b)')
        OBVIOUS
    <2>4. y = x + (IF b = h THEN n ELSE 0) /\ l = k - (IF b = h THEN n ELSE 0)
        <3>1. Done(b)' = Done(b) + Cardinality(Copies(s, b))
            BY <1>6
        <3> QED  BY <1>5, <1>8, <2>3, <3>1
    <2>5. y + l = x + k /\ y \in Nat /\ l \in Int
        BY <1>3, <2>2, <2>3, <2>4
    <2>6. x + k + Cardinality(Drawn(b)) + Cardinality(SplitOff(b))
          + (IF hand = b THEN Offered[b] ELSE 0) = Due(b)
        BY <2>1, <2>3 DEF Buffered
    <2>7. y + l + Cardinality(Drawn(b)') + Cardinality(SplitOff(b)')
          + (IF hand' = b THEN Offered[b] ELSE 0) = Due(b)'
        BY <1>2, <2>1, <2>2, <2>3, <2>5, <2>6
    <2> QED  BY <2>3, <2>7 DEF Buffered
<1> QED  BY <1>9, <1>10, <1>11, <1>12 DEF BufferInv

\* With one, messages are drawn from the front batch.
LEMMA BufferDraw ==
    ASSUME U!InputAssumption, U!BufferAssumption, BufferInv, part' = part, U!Draw
    PROVE  BufferInv'
<1>1. PICK h, left, n, fore :
        h = Head(parked) /\ left = Offered[h] - taken /\ n = U!DrawnOf(left) /\ fore = Len(parts)
    OBVIOUS
<1>2. /\ pc \in {"loop", "drawing"} /\ parked # <<>> /\ ready = <<>> /\ part = "buffered"
      /\ parts' = parts \o [i \in 1 .. n |-> h] /\ bytes' = bytes - n
      /\ IF taken + n = Offered[h] THEN parked' = Tail(parked) /\ taken' = 0
                                   ELSE taken' = taken + n /\ UNCHANGED parked
      /\ IF pc = "loop" THEN filler' = IF filler = "room" THEN "parking" ELSE filler
                        ELSE UNCHANGED filler
      /\ pc' = IF n > 0 /\ (late \/ fore + n >= Count) THEN "flush"
               ELSE IF parked' = <<>> THEN "look" ELSE "drawing"
      /\ UNCHANGED <<read, landed, dropped, hand, ready>>
    BY <1>1 DEF U!Draw, U!SignalFiller, U!env
<1>3. h \in U!Batches /\ h \in U!Range(parked) /\ Offered[h] \in Nat /\ left \in Nat /\ taken \in Nat
    <2>1. h \in U!Batches /\ h \in U!Range(parked)
        <3>1. parked \in Seq(U!Batches)
            BY DEF BufferInv, ParkedInv
        <3>2. Len(parked) \in Nat /\ Len(parked) > 0 /\ DOMAIN parked = 1 .. Len(parked) /\ h = parked[1]
              /\ parked[1] \in U!Batches
            BY <1>1, <1>2, <3>1
        <3> QED  BY <3>2 DEF U!Range
    <2> QED  BY <1>1, <1>2, <2>1, BufferedFacts DEF BufferInv, ParkedInv
<1>4. n \in 0 .. left /\ n \in Nat /\ fore \in Nat /\ fore < Count /\ fore + n <= Count /\ Count \in Nat
    <2>1. fore \in Nat /\ fore < Count /\ Count \in Nat
        BY <1>1, <1>2, BufferedFacts DEF BufferInv, BufferTypes
    <2> QED  BY <1>1, <1>3, <2>1 DEF U!DrawnOf
<1>5. /\ parts' \in Seq(U!Batches) /\ Len(parts') = fore + n
      /\ \A i \in 1 .. fore : parts'[i] = parts[i]
      /\ \A i \in fore + 1 .. fore + n : parts'[i] = h
    <2>1. PICK more : more = [i \in 1 .. n |-> h]
        OBVIOUS
    <2>2. more \in Seq(U!Batches) /\ Len(more) = n /\ \A i \in 1 .. n : more[i] = h
        BY <1>3, <1>4, <2>1
    <2>3. parts \in Seq(U!Batches) /\ parts' = parts \o more
        BY <1>2, <2>1 DEF BufferInv, BufferTypes
    <2>4. /\ parts' \in Seq(U!Batches) /\ Len(parts') = fore + n
          /\ \A i \in 1 .. fore : parts'[i] = parts[i]
          /\ \A i \in 1 .. n : parts'[fore + i] = more[i]
        BY <1>1, <2>2, <2>3, Joined
    <2>5. ASSUME NEW i \in fore + 1 .. fore + n PROVE parts'[i] = h
        <3>1. i - fore \in 1 .. n /\ fore + (i - fore) = i
            BY <1>4
        <3> QED  BY <2>2, <2>4, <3>1
    <2> QED  BY <2>4, <2>5
<1>6. \A b : Cardinality(Drawn(b)') = Cardinality(Drawn(b)) + (IF b = h THEN n ELSE 0)
    <2>1. DOMAIN parts = 1 .. fore /\ DOMAIN parts' = 1 .. fore + n
        BY <1>1, <1>4, <1>5 DEF BufferInv, BufferTypes
    <2>2. /\ \A i : i \in 1 .. fore + n <=> i \in 1 .. fore \/ i \in fore + 1 .. fore + n
          /\ \A i \in fore + 1 .. fore + n : i \notin 1 .. fore
        BY <1>4
    <2>3. ASSUME NEW b PROVE Cardinality(Drawn(b)') = Cardinality(Drawn(b)) + (IF b = h THEN n ELSE 0)
        <3>1. IsFiniteSet(Drawn(b)) /\ Cardinality(Drawn(b)) \in Nat
            BY BufferFinite DEF BufferInv
        <3>2. CASE b = h
            <4>1. Drawn(b)' = Drawn(b) \cup (fore + 1 .. fore + n) /\ Drawn(b) \cap (fore + 1 .. fore + n) = {}
                BY <1>5, <2>1, <2>2, <3>2 DEF Drawn
            <4>2. IsFiniteSet(fore + 1 .. fore + n) /\ Cardinality(fore + 1 .. fore + n) = n
                <5>1. CASE n = 0
                    <6>1. fore + 1 .. fore + n = {}
                        BY <1>4, <5>1
                    <6> QED  BY <5>1, <6>1, FS_EmptySet
                <5>2. CASE n > 0
                    <6>1. fore + 1 \in Int /\ fore + n \in Int /\ ~(fore + 1 > fore + n) /\ (fore + n) - (fore + 1) + 1 = n
                        BY <1>4, <5>2
                    <6> QED  BY <6>1, FS_Interval
                <5> QED  BY <1>4, <5>1, <5>2
            <4>3. Cardinality(Drawn(b) \cup (fore + 1 .. fore + n)) = Cardinality(Drawn(b)) + n - Cardinality({})
                <5>1. PICK more : more = fore + 1 .. fore + n
                    OBVIOUS
                <5>2. Cardinality(Drawn(b) \cup more)
                      = Cardinality(Drawn(b)) + Cardinality(more) - Cardinality(Drawn(b) \cap more)
                    BY <3>1, <4>2, <5>1, FS_Union
                <5> QED  BY <4>1, <4>2, <5>1, <5>2
            <4>4. Cardinality({}) = 0
                BY FS_EmptySet
            <4> QED  BY <1>4, <3>1, <3>2, <4>1, <4>3, <4>4
        <3>3. CASE b # h
            <4>1. Drawn(b)' = Drawn(b)
                BY <1>5, <2>1, <2>2, <3>3 DEF Drawn
            <4> QED  BY <3>1, <3>3, <4>1
        <3> QED  BY <3>2, <3>3
    <2> QED  BY <2>3
<1>7. /\ parked' \in Seq(U!Batches) /\ Once(parked') /\ U!Range(parked') \subseteq U!Range(parked)
      /\ Cardinality(U!Undrawn') = Cardinality(U!Undrawn) - n
      /\ \A b : Cardinality(Cut(b)') = Cardinality(Cut(b)) - (IF b = h THEN n ELSE 0)
      /\ taken' \in Nat /\ IF parked' = <<>> THEN taken' = 0 ELSE taken' <= Offered[Head(parked')]
    <2>1. n \in 0 .. Offered[h] - taken
        BY <1>1, <1>4
    <2> QED  BY <1>1, <1>2, <2>1, FrontGoes, FrontCounted DEF BufferInv
<1>8. BufferTypes'
    <2>1. Cardinality(read)' = Cardinality(read)
        BY <1>2
    <2>2. Len(parts') <= Count /\ (pc' # "flush" => Len(parts') < Count)
        <3>1. n = 0 \/ n > 0
            BY <1>4
        <3>2. fore + n >= Count \/ fore + n < Count
            BY <1>4
        <3>3. n = 0 => fore + n < Count
            BY <1>4
        <3> QED  BY <1>2, <1>4, <1>5, <3>1, <3>2, <3>3
    <2> QED  BY <1>2, <1>5, <2>1, <2>2 DEF BufferInv, BufferTypes
<1>9. ParkedInv'
    <2>1. pc' \in {"look", "wait", "timed"} => parked' = <<>>
        BY <1>2
    <2> QED  BY <1>2, <1>7, <2>1 DEF BufferInv, ParkedInv
<1>10. HandInv'
    <2>1. bytes' = Cardinality(U!Undrawn)' /\ bytes' <= Limit
        <3>1. bytes = Cardinality(U!Undrawn) /\ bytes <= Limit /\ Cardinality(U!Undrawn) \in Nat /\ Limit \in Nat
            BY BufferFinite, BufferedFacts DEF BufferInv, HandInv
        <3> QED  BY <1>2, <1>4, <1>7, <3>1
    <2>2. filler' # "room" /\ (filler' = "reading" <=> filler = "reading")
        BY <1>2 DEF BufferInv, HandInv
    <2> QED  BY <1>2, <1>7, <2>1, <2>2 DEF BufferInv, HandInv
<1>11. ASSUME NEW b \in U!Batches PROVE Buffered(b)'
    <2>1. SplitOff(b)' = SplitOff(b) /\ Due(b)' = Due(b) /\ Buffered(b)
        BY <1>2 DEF SplitOff, Due, BufferInv
    <2>2. Done(b) \in Nat /\ Cardinality(Cut(b)) \in Nat /\ Cardinality(Drawn(b)) \in Nat
          /\ Cardinality(SplitOff(b)) \in Nat /\ Offered[b] \in Nat
        BY DoneCounted, BufferFinite, BufferedFacts DEF BufferInv, BufferTypes
    <2>3. PICK k, d, x, y, z :
            /\ k = Cardinality(Cut(b)) /\ d = Cardinality(Drawn(b)) /\ z = Done(b)
            /\ x = Cardinality(Cut(b)') /\ y = Cardinality(Drawn(b)')
        OBVIOUS
    <2>4. Done(b)' + Cardinality(Cut(b)') + Cardinality(Drawn(b)')
          = Done(b) + Cardinality(Cut(b)) + Cardinality(Drawn(b))
        <3>1. x = k - (IF b = h THEN n ELSE 0) /\ y = d + (IF b = h THEN n ELSE 0)
            BY <1>6, <1>7, <2>3
        <3>2. z + x + y = z + k + d
            BY <1>4, <2>2, <2>3, <3>1
        <3>3. Done(b)' = Done(b)
            BY <1>2 DEF Done
        <3> QED  BY <2>3, <3>2, <3>3
    <2>5. (IF hand' = b THEN Offered[b] ELSE 0) = IF hand = b THEN Offered[b] ELSE 0
        BY <1>2
    <2> QED  BY <2>1, <2>4, <2>5 DEF Buffered
<1> QED  BY <1>8, <1>9, <1>10, <1>11 DEF BufferInv

\* The processors pass an assembly on, in one piece or two, or make it disappear.
LEMMA BufferFlush ==
    ASSUME U!InputAssumption, U!BufferAssumption, BufferInv, part' = part,
           U!FlushGone \/ \E n \in 1 .. Len(parts) : U!Flushed(n)
    PROVE  BufferInv'
<1>1. PICK s, t :
        /\ s \in Seq(U!Batches) /\ t \in Seq(U!Batches) /\ Len(t) <= Count
        /\ (U!Landed(s) /\ UNCHANGED dropped) \/ (U!Dropped(s) /\ UNCHANGED landed)
        /\ pc = "flush" /\ pc' \in {"idle", "loop"} /\ parts' = <<>> /\ ready = <<>>
        /\ \/ ready' = <<t>>
           \/ t = <<>> /\ ready' = <<>>
        /\ \A b : Cardinality(Copies(parts, b)) = Cardinality(Copies(s, b)) + Cardinality(Copies(t, b))
        /\ UNCHANGED <<read, filler, hand, parked, taken, bytes>>
    <2>1. /\ parts \in Seq(U!Batches) /\ Len(parts) <= Count /\ Len(parts) \in Nat /\ Count \in Nat
          /\ <<>> \in Seq(U!Batches) /\ Len(<<>>) <= Count
        BY BufferedFacts DEF BufferInv, BufferTypes
    <2>2. \A b : Cardinality(Copies(<<>>, b)) = 0 /\ Cardinality(Copies(parts, b)) \in Nat
        <3>1. \A b : Copies(<<>>, b) = {}
            BY DEF Copies
        <3> QED  BY <2>1, <3>1, FS_EmptySet, CopiesFinite
    <2>3. CASE U!FlushGone
        <3>1. /\ pc = "flush" /\ pc' = "loop" /\ parts' = <<>>
              /\ (U!Landed(parts) /\ UNCHANGED dropped) \/ (U!Dropped(parts) /\ UNCHANGED landed)
              /\ UNCHANGED <<read, filler, hand, parked, taken, bytes, ready>>
            BY <2>3 DEF U!FlushGone
        <3>2. ready = <<>>
            BY <3>1 DEF BufferInv, BufferTypes
        <3>3. \A b : Cardinality(Copies(parts, b))
                     = Cardinality(Copies(parts, b)) + Cardinality(Copies(<<>>, b))
            BY <2>2
        <3> QED  BY <2>1, <3>1, <3>2, <3>3
    <2>4. CASE \E n \in 1 .. Len(parts) : U!Flushed(n)
        <3>0. PICK n \in 1 .. Len(parts) : U!Flushed(n)
            BY <2>4
        <3>1. PICK front, back : front = SubSeq(parts, 1, n) /\ back = SubSeq(parts, n + 1, Len(parts))
            OBVIOUS
        <3>2. /\ pc = "flush" /\ pc' = "idle" /\ parts' = <<>> /\ U!Landed(front)
              /\ ready' = IF n < Len(parts) THEN Append(ready, back) ELSE ready
              /\ UNCHANGED <<read, dropped, filler, hand, parked, taken, bytes>>
            BY <3>0, <3>1 DEF U!Flushed, U!HandOut, U!env
        <3>3. ready = <<>>
            BY <3>2 DEF BufferInv, BufferTypes
        <3>4. /\ front \in Seq(U!Batches) /\ back \in Seq(U!Batches) /\ Len(back) = Len(parts) - n
              /\ \A b : Cardinality(Copies(parts, b))
                        = Cardinality(Copies(front, b)) + Cardinality(Copies(back, b))
            BY <2>1, <3>1, CopiesCut
        <3>5. Len(back) <= Count /\ (n < Len(parts) \/ Len(back) = 0)
            BY <2>1, <3>4
        <3>6. Append(<<>>, back) = <<back>> /\ (Len(back) = 0 => back = <<>>)
            BY <3>4
        <3>7. ready' = <<back>> \/ (back = <<>> /\ ready' = <<>>)
            BY <3>2, <3>3, <3>5, <3>6
        <3> QED  BY <3>2, <3>3, <3>4, <3>5, <3>7
    <2> QED  BY <2>3, <2>4
<1>2. /\ landed' \in [U!Batches -> Nat] /\ dropped' \in [U!Batches -> Nat]
      /\ \A b \in U!Batches : Done(b)' = Done(b) + Cardinality(Copies(s, b))
    BY <1>1, BufferLanded DEF BufferInv
<1>3. Cardinality(read)' = Cardinality(read) /\ U!Undrawn' = U!Undrawn
    BY <1>1 DEF U!Undrawn
<1>4. BufferTypes'
    <2>1. <<>> \in Seq(U!Batches) /\ Len(<<>>) = 0 /\ Count > 0 /\ Count \in Nat
        BY BufferedFacts
    <2>2. ready' = <<>> \/ (ready' = <<Head(ready')>> /\ Head(ready') \in Seq(U!Batches) /\ Len(Head(ready')) <= Count)
        BY <1>1
    <2> QED  BY <1>1, <1>2, <1>3, <2>1, <2>2 DEF BufferInv, BufferTypes
<1>5. ParkedInv'
    BY <1>1 DEF BufferInv, ParkedInv
<1>6. HandInv'
    BY <1>1, <1>3 DEF BufferInv, HandInv
<1>7. ASSUME NEW b \in U!Batches PROVE Buffered(b)'
    <2>1. Cut(b)' = Cut(b) /\ Due(b)' = Due(b) /\ Buffered(b) /\ Drawn(b) = Copies(parts, b)
        BY <1>1, <1>3 DEF Cut, Due, BufferInv, Drawn, Copies
    <2>2. Cardinality(Drawn(b)') = 0
        <3>1. Drawn(b)' = {}
            BY <1>1 DEF Drawn
        <3> QED  BY <3>1, FS_EmptySet
    <2>3. Cardinality(SplitOff(b)) = 0 /\ Cardinality(SplitOff(b)') = Cardinality(Copies(t, b))
        <3>1. Cardinality(SplitOff(b)) = 0
            <4>1. SplitOff(b) = {}
                BY <1>1 DEF SplitOff
            <4> QED  BY <4>1, FS_EmptySet
        <3>2. ready' = <<t>> => Cardinality(SplitOff(b)') = Cardinality(Copies(t, b))
            BY <1>1, PieceCounted DEF SplitOff
        <3>3. t = <<>> /\ ready' = <<>> => Cardinality(SplitOff(b)') = Cardinality(Copies(t, b))
            <4>1. ASSUME t = <<>>, ready' = <<>> PROVE SplitOff(b)' = {} /\ Copies(t, b) = {}
                BY <4>1 DEF SplitOff, Copies
            <4> QED  BY <4>1
        <3> QED  BY <1>1, <3>1, <3>2, <3>3
    <2>4. Done(b) \in Nat /\ Cardinality(Cut(b)) \in Nat /\ Cardinality(Copies(s, b)) \in Nat
          /\ Cardinality(Copies(t, b)) \in Nat
        BY DoneCounted, <1>1, BufferFinite, CopiesFinite DEF BufferInv, BufferTypes
    <2>5. Done(b)' + Cardinality(Cut(b)) + 0 + Cardinality(Copies(t, b))
          = Done(b) + Cardinality(Cut(b)) + Cardinality(Copies(parts, b)) + 0
        BY <1>1, <1>2, <2>4
    <2>6. hand' = hand
        BY <1>1
    <2> QED  BY <2>1, <2>2, <2>3, <2>5, <2>6 DEF Buffered
<1> QED  BY <1>4, <1>5, <1>6, <1>7 DEF BufferInv

\* fill_loop takes the next batch of the source in hand, unless it is too large.
LEMMA BufferRead ==
    ASSUME U!InputAssumption, U!BufferAssumption, BufferInv, part' = part, U!FillRead
    PROVE  BufferInv'
<1>1. PICK b : b = U!NextBatch
    OBVIOUS
<1>2. /\ b \in U!Batches /\ filler = "reading" /\ read' = read \cup {b}
      /\ IF Offered[b] > Limit THEN UNCHANGED <<filler, hand>> ELSE filler' = "parking" /\ hand' = b
      /\ UNCHANGED <<pc, landed, dropped, parked, taken, bytes, ready, parts>>
    BY <1>1 DEF U!FillRead, U!Reading
<1>3. PICK n : n = Cardinality(read)
    OBVIOUS
<1>4. b = n + 1 /\ n \in Nat /\ read = 1 .. n /\ n + 1 \in 1 .. U!NBatches
    BY <1>1, <1>2, <1>3, BufferedCounts, BufferedFacts DEF U!NextBatch, BufferInv, BufferTypes
<1>5. read' = 1 .. n + 1 /\ b \notin read /\ b # 0
    BY <1>2, <1>4
<1>6. Cardinality(read') = n + 1
    BY <1>4, <1>5, FS_Interval
<1>7. Offered[b] \in Nat /\ Limit \in Nat /\ hand = 0
    BY <1>2, BufferedFacts DEF BufferInv, HandInv
<1>8. BufferTypes'
    <2>1. (Cardinality(read) \in 0 .. U!NBatches /\ read = 1 .. Cardinality(read))'
        BY <1>4, <1>5, <1>6, BufferedFacts
    <2> QED  BY <1>2, <2>1 DEF BufferInv, BufferTypes
<1>9. ParkedInv'
    BY <1>2 DEF BufferInv, ParkedInv
<1>10. U!Undrawn' = U!Undrawn
    BY <1>2 DEF U!Undrawn
<1>11. HandInv'
    <2>1. b \notin U!Range(parked) /\ b \in read'
        BY <1>2, <1>5 DEF BufferInv, ParkedInv
    <2>2. Offered[b] > Limit \/ Offered[b] <= Limit
        BY <1>7
    <2>3. \/ filler' = "reading" /\ hand' = 0
          \/ filler' = "parking" /\ hand' = b /\ Offered[b] <= Limit
        BY <1>2, <1>7, <2>2
    <2> QED  BY <1>2, <1>5, <1>10, <2>1, <2>3 DEF BufferInv, HandInv
<1>12. ASSUME NEW x \in U!Batches PROVE Buffered(x)'
    <2>1. /\ Cut(x)' = Cut(x) /\ Drawn(x)' = Drawn(x) /\ SplitOff(x)' = SplitOff(x) /\ Buffered(x)
          /\ Done(x)' = Done(x)
        BY <1>2, <1>10 DEF Cut, Drawn, SplitOff, BufferInv, Done
    <2>2. Done(x) \in Nat /\ Cardinality(Cut(x)) \in Nat /\ Cardinality(Drawn(x)) \in Nat
          /\ Cardinality(SplitOff(x)) \in Nat /\ Offered[x] \in Nat
        BY DoneCounted, BufferFinite, BufferedFacts DEF BufferInv, BufferTypes
    <2>3. x # 0
        BY BufferedFacts
    <2>4. Due(x)' = Due(x) + (IF hand' = x THEN Offered[x] ELSE 0) /\ hand # x
        <3>1. CASE x = b
            <4>1. Due(b) = 0 /\ Due(b)' = IF Offered[b] <= Limit THEN Offered[b] ELSE 0
                BY <1>2, <1>5 DEF Due
            <4>2. hand' = b <=> Offered[b] <= Limit
                BY <1>2, <1>5, <1>7
            <4> QED  BY <1>5, <1>7, <3>1, <4>1, <4>2
        <3>2. CASE x # b
            <4>1. Due(x)' = Due(x) /\ Due(x) \in Nat
                BY <1>2, <2>2, <3>2 DEF Due
            <4>2. hand' # x /\ hand # x
                BY <1>2, <1>7, <2>3, <3>2
            <4> QED  BY <4>1, <4>2
        <3> QED  BY <3>1, <3>2
    <2> QED  BY <1>2, <2>1, <2>2, <2>4 DEF Buffered
<1> QED  BY <1>8, <1>9, <1>11, <1>12 DEF BufferInv

\* It parks the batch in hand once there is room.
LEMMA BufferPark ==
    ASSUME U!InputAssumption, U!BufferAssumption, BufferInv, part' = part, U!FillPark
    PROVE  BufferInv'
<1>1. PICK h, n : h = hand /\ n = Offered[hand]
    OBVIOUS
<1>2. /\ filler = "parking" /\ pc \notin {"drawing", "look"} /\ ~(bytes + n > Limit)
      /\ bytes' = bytes + n /\ parked' = Append(parked, h) /\ hand' = 0 /\ filler' = "reading"
      /\ pc' = (IF pc \in {"wait", "timed"} THEN "loop" ELSE pc)
      /\ UNCHANGED <<read, landed, dropped, taken, ready, parts>>
    BY <1>1 DEF U!FillPark, U!NoRoom, U!SignalReader, U!Waits, U!Between, U!env
<1>3. /\ h \in read /\ h \in U!Batches /\ h \notin U!Range(parked) /\ n \in Nat /\ n <= Limit /\ h # 0
      /\ Limit \in Nat
    <2>1. h \in read /\ h \notin U!Range(parked) /\ n <= Limit /\ h # 0
        BY <1>1, <1>2 DEF BufferInv, HandInv
    <2>2. h \in U!Batches
        BY <2>1, BufferedFacts DEF BufferInv, BufferTypes
    <2> QED  BY <1>1, <2>1, <2>2, BufferedFacts
<1>4. PICK l : l = Len(parked)
    OBVIOUS
<1>5. /\ l \in Nat /\ parked' \in Seq(U!Batches) /\ Len(parked') = l + 1 /\ parked'[l + 1] = h
      /\ \A i \in 1 .. l : parked'[i] = parked[i]
      /\ \A i \in 1 .. l + 1 : i \in 1 .. l \/ i = l + 1
      /\ l + 1 \in 1 .. l + 1 /\ \A i \in 1 .. l : i \in 1 .. l + 1
    BY <1>2, <1>3, <1>4 DEF BufferInv, ParkedInv
<1>6. U!Range(parked) = {parked[i] : i \in 1 .. l} /\ U!Range(parked') = {parked'[i] : i \in 1 .. l + 1}
    <2>1. DOMAIN parked = 1 .. l /\ DOMAIN parked' = 1 .. l + 1
        BY <1>4, <1>5 DEF BufferInv, ParkedInv
    <2> QED  BY <2>1 DEF U!Range
<1>7. U!Range(parked') = U!Range(parked) \cup {h}
    <2>1. U!Range(parked') \subseteq U!Range(parked) \cup {h}
        BY <1>5, <1>6
    <2>2. U!Range(parked) \cup {h} \subseteq U!Range(parked')
        BY <1>5, <1>6
    <2> QED  BY <2>1, <2>2
<1>8. Once(parked')
    <2>1. \A i \in 1 .. l : parked[i] # h
        BY <1>3, <1>6
    <2>2. \A i, j \in 1 .. l : parked[i] = parked[j] => i = j
        BY <1>4 DEF BufferInv, ParkedInv, Once
    <2> QED  BY <1>5, <2>1, <2>2 DEF Once
<1>9. /\ parked = <<>> => Head(parked') = h /\ taken = 0 /\ U!Range(parked) = {}
      /\ parked # <<>> => Head(parked') = Head(parked) /\ Head(parked) \in U!Range(parked)
      /\ parked' # <<>> /\ taken \in Nat
    <2>1. parked \in Seq(U!Batches) /\ taken \in Nat /\ (parked = <<>> => taken = 0)
        BY DEF BufferInv, ParkedInv
    <2>2. parked = <<>> => Head(parked') = h /\ U!Range(parked) = {}
        BY <1>2, BufferedFacts
    <2>3. parked # <<>> => 1 \in 1 .. l /\ Head(parked) = parked[1] /\ Head(parked') = parked'[1]
        BY <1>2, <1>4, <1>5, <2>1
    <2>4. parked' # <<>>
        BY <1>5
    <2> QED  BY <1>5, <1>6, <2>1, <2>2, <2>3, <2>4
<1>10. ParkedInv'
    <2>1. pc' \notin {"look", "wait", "timed"}
        BY <1>2
    <2>2. \A b \in U!Range(parked') : b \in read' /\ Offered[b] <= Limit
        BY <1>1, <1>2, <1>3, <1>7 DEF BufferInv, ParkedInv
    <2>3. taken' <= Offered[Head(parked')]
        <3>1. CASE parked = <<>>
            BY <1>1, <1>2, <1>3, <1>9, <3>1
        <3>2. CASE parked # <<>>
            BY <1>2, <1>9, <3>2 DEF BufferInv, ParkedInv
        <3> QED  BY <3>1, <3>2
    <2> QED  BY <1>2, <1>5, <1>8, <1>9, <2>1, <2>2, <2>3 DEF BufferInv, ParkedInv
<1>11. PICK new : new = Block(h, 0, n)
    OBVIOUS
<1>12. U!Undrawn' = U!Undrawn \cup new /\ U!Undrawn \cap new = {}
    <2>1. new = {h} \X (1 .. n)
        <3>1. 0 + 1 = 1 /\ 0 + n = n
            BY <1>3
        <3> QED  BY <1>11, <3>1 DEF Block
    <2>2. U!Undrawn = {m \in U!Range(parked) \X (1 .. Limit) :
                         m[2] <= Offered[m[1]] /\ (m[1] = Head(parked) => m[2] > taken)}
        BY DEF U!Undrawn
    <2>3. U!Undrawn' = {m \in U!Range(parked') \X (1 .. Limit) :
                          m[2] <= Offered[m[1]] /\ (m[1] = Head(parked') => m[2] > taken)}
        BY <1>2 DEF U!Undrawn
    <2>4. \A k : k \in 1 .. n <=> k \in 1 .. Limit /\ k <= n
        BY <1>3
    <2>5. \A k \in 1 .. n : k > 0
        BY <1>3
    <2>6. ASSUME NEW m \in U!Undrawn PROVE m \in U!Undrawn' /\ m \notin new
        <3>1. /\ m \in U!Range(parked) \X (1 .. Limit) /\ m[2] <= Offered[m[1]]
              /\ m[1] = Head(parked) => m[2] > taken
            BY <2>2
        <3>2. parked # <<>> /\ m[1] # h
            BY <1>3, <1>9, <3>1
        <3> QED  BY <1>7, <1>9, <2>1, <2>3, <3>1, <3>2
    <2>7. ASSUME NEW m \in new PROVE m \in U!Undrawn'
        <3>1. m[1] = h /\ m[2] \in 1 .. n /\ m \in {h} \X (1 .. n)
            BY <2>1
        <3>2. m[2] \in 1 .. Limit /\ m[2] <= Offered[h] /\ m[2] > 0
            BY <1>1, <2>4, <2>5, <3>1
        <3>3. h = Head(parked') => taken = 0
            BY <1>3, <1>9
        <3> QED  BY <1>7, <2>3, <3>1, <3>2, <3>3
    <2>8. ASSUME NEW m \in U!Undrawn' PROVE m \in U!Undrawn \cup new
        <3>1. /\ m \in U!Range(parked') \X (1 .. Limit) /\ m[2] <= Offered[m[1]] /\ m = <<m[1], m[2]>>
              /\ m[1] = Head(parked') => m[2] > taken
            BY <2>3
        <3>2. CASE m[1] = h
            BY <1>1, <2>1, <2>4, <3>1, <3>2
        <3>3. CASE m[1] # h
            BY <1>7, <1>9, <2>2, <3>1, <3>3
        <3> QED  BY <3>2, <3>3
    <2> QED  BY <2>6, <2>7, <2>8
<1>13. IsFiniteSet(new) /\ Cardinality(new) = n
    BY <1>3, <1>11, BlockCounted
<1>14. Cardinality(U!Undrawn') = Cardinality(U!Undrawn) + n
    <2>1. IsFiniteSet(U!Undrawn) /\ Cardinality(U!Undrawn) \in Nat
        BY BufferFinite DEF BufferInv
    <2>2. Cardinality(U!Undrawn \cup new)
          = Cardinality(U!Undrawn) + Cardinality(new) - Cardinality(U!Undrawn \cap new)
        BY <1>13, <2>1, FS_Union
    <2>3. Cardinality(U!Undrawn \cap new) = 0
        BY <1>12, FS_EmptySet
    <2> QED  BY <1>3, <1>12, <1>13, <2>1, <2>2, <2>3
<1>15. HandInv'
    <2>1. bytes' = Cardinality(U!Undrawn)' /\ bytes' <= Limit
        <3>1. bytes = Cardinality(U!Undrawn) /\ bytes \in Nat
            BY BufferFinite DEF BufferInv, HandInv
        <3> QED  BY <1>2, <1>3, <1>14, <3>1
    <2> QED  BY <1>2, <2>1 DEF HandInv
<1>16. BufferTypes'
    <2>1. Cardinality(read)' = Cardinality(read)
        BY <1>2
    <2> QED  BY <1>2, <2>1 DEF BufferInv, BufferTypes
<1>17. ASSUME NEW b \in U!Batches PROVE Buffered(b)'
    <2>1. Drawn(b)' = Drawn(b) /\ SplitOff(b)' = SplitOff(b) /\ Due(b)' = Due(b) /\ Buffered(b)
        BY <1>2 DEF Drawn, SplitOff, Due, BufferInv
    <2>2. IsFiniteSet(Cut(b)) /\ Done(b) \in Nat /\ Cardinality(Cut(b)) \in Nat
          /\ Cardinality(Drawn(b)) \in Nat /\ Cardinality(SplitOff(b)) \in Nat /\ Offered[b] \in Nat
        BY DoneCounted, BufferFinite, BufferedFacts DEF BufferInv, BufferTypes
    <2>3. Cardinality(Cut(b)') = Cardinality(Cut(b)) + (IF hand = b THEN Offered[b] ELSE 0)
        <3>1. CASE b = h
            <4>1. Cut(b)' = Cut(b) \cup new /\ Cut(b) \cap new = {}
                BY <1>11, <1>12, <3>1 DEF Cut, Block
            <4>2. Cardinality(Cut(b) \cup new)
                  = Cardinality(Cut(b)) + Cardinality(new) - Cardinality(Cut(b) \cap new)
                BY <1>13, <2>2, FS_Union
            <4>3. Cardinality(Cut(b) \cap new) = 0
                BY <4>1, FS_EmptySet
            <4> QED  BY <1>1, <1>3, <1>13, <2>2, <3>1, <4>1, <4>2, <4>3
        <3>2. CASE b # h
            <4>1. Cut(b)' = Cut(b)
                BY <1>11, <1>12, <3>2 DEF Cut, Block
            <4> QED  BY <1>1, <2>2, <3>2, <4>1
        <3> QED  BY <3>1, <3>2
    <2>4. hand' # b /\ Done(b)' = Done(b)
        BY <1>2, BufferedFacts DEF Done
    <2> QED  BY <2>1, <2>2, <2>3, <2>4 DEF Buffered
<1> QED  BY <1>10, <1>15, <1>16, <1>17 DEF BufferInv

LEMMA BufferNext ==
    ASSUME U!InputAssumption, U!BufferAssumption, BufferInv, part' = part, [U!Next]_(U!vars)
    PROVE  BufferInv'
<1>1. CASE U!TakeReady
    BY <1>1, BufferTakeReady
<1>2. CASE U!TakeParked
    BY <1>2, BufferTakeParked
<1>3. CASE U!Draw
    BY <1>3, BufferDraw
<1>4. CASE U!FlushGone \/ \E n \in 1 .. Len(parts) : U!Flushed(n)
    BY <1>4, BufferFlush
<1>5. CASE U!FillRead
    BY <1>5, BufferRead
<1>6. CASE U!FillPark
    BY <1>6, BufferPark
<1>7. CASE \/ U!Call \/ U!NothingParked \/ U!Look \/ U!TimedOut \/ U!Tick \/ U!FillWait
           \/ U!FillAborted \/ U!FillEnd \/ U!Abort \/ U!Close \/ U!Closed \/ UNCHANGED U!vars
    BY <1>7, BufferFiber
<1> QED  BY <1>1, <1>2, <1>3, <1>4, <1>5, <1>6, <1>7 DEF U!Next, U!Reader, U!Filler

\* The filler waits for room only while something is parked, so the reader does not wait.
LEMMA BufferSound ==
    ASSUME U!InputAssumption, U!BufferAssumption, BufferInv
    PROVE  U!NothingSlipsOut /\ U!RoomIsCounted
<1>1. U!NothingSlipsOut
    <2> SUFFICES ASSUME NEW b \in read, Offered[b] <= Limit PROVE landed[b] + dropped[b] + U!Held(b) = Offered[b]
        BY DEF U!NothingSlipsOut
    <2>1. b \in U!Batches /\ Due(b) = Offered[b]
        BY BufferedFacts DEF BufferInv, BufferTypes, Due
    <2>2. Buffered(b)
        BY <2>1 DEF BufferInv
    <2>3. U!Held(b) = Cardinality(Cut(b)) + Cardinality(Drawn(b)) + Cardinality(SplitOff(b))
                      + (IF hand = b THEN Offered[b] ELSE 0)
        BY BufferedCounts DEF U!Held, Cut, Drawn, SplitOff
    <2>4. Done(b) \in Nat /\ Cardinality(Cut(b)) \in Nat /\ Cardinality(Drawn(b)) \in Nat
          /\ Cardinality(SplitOff(b)) \in Nat /\ Offered[b] \in Nat
        BY DoneCounted, <2>1, BufferFinite, BufferedFacts DEF BufferInv, BufferTypes
    <2> QED  BY <2>1, <2>2, <2>3, <2>4 DEF Buffered, Done
<1>2. U!RoomIsCounted
    <2>1. bytes = U!Cardinality(U!Undrawn) /\ bytes <= Limit
        BY BufferedCounts DEF BufferInv, HandInv
    <2>2. ASSUME filler = "room" PROVE U!NoRoom /\ ~U!Waits(pc)
        <3>1. bytes + Offered[hand] > Limit /\ Offered[hand] <= Limit /\ hand \in read
            BY <2>2 DEF BufferInv, HandInv
        <3>2. hand \in U!Batches
            BY <3>1, BufferedFacts DEF BufferInv, BufferTypes
        <3>3. Offered[hand] \in Nat /\ Limit \in Nat
            BY <3>2, BufferedFacts
        <3>4. bytes # 0
            BY <3>1, <3>3
        <3>5. parked # <<>>
            <4>1. parked = <<>> => U!Undrawn = {}
                BY BufferedFacts DEF U!Undrawn
            <4> QED  BY <3>4, <4>1, FS_EmptySet DEF BufferInv, HandInv
        <3> QED  BY <3>1, <3>5 DEF U!NoRoom, U!Waits, BufferInv, ParkedInv
    <2> QED  BY <2>1, <2>2 DEF U!RoomIsCounted
<1> QED  BY <1>1, <1>2

-----------------------------------------------------------------------------
(* HttpServerInput                                                           *)

HandlerTypes ==
    /\ req \in [Requests -> {"away", "body", "push", "wait", "replied", "told", "cut"}]
    /\ status \in [Requests -> Nat] /\ body \in [Requests -> Nat] /\ store \in [Requests -> Nat]
    /\ done \in [Requests -> {"none", "ack", "nack"}]
    /\ queue \in [items : {<<>>} \cup {<<r>> : r \in Requests}, closed : BOOLEAN]
    /\ held \subseteq Requests /\ overdue \in BOOLEAN

\* Batches that nobody has answered yet: in the rendezvous, or with the pipeline.
Waiting == H!Leftover(queue) \cup held

\* A request's batch is offered once and is in one place until it is answered; a
\* reply that shows an answer came after it, so what is stored is stored.
HandlerInv ==
    /\ HandlerTypes
    /\ H!Leftover(queue) \cap held = {}
    /\ \A r \in Waiting : done[r] = "none"
    /\ \A r \in Requests : req[r] \in {"away", "body", "push"} => r \notin Waiting /\ done[r] = "none"
    /\ H!NoHandlerForgotten /\ H!ReplyIsTrue

\* What the rendezvous holds: at most one batch.
LEMMA HandlerQueue ==
    ASSUME HandlerTypes
    PROVE  /\ \A r \in Requests : queue.items = <<r>> => H!Leftover(queue) = {r}
           /\ queue.items = <<>> => H!Leftover(queue) = {}
           /\ H!Leftover(queue) \subseteq Requests
           /\ queue.items = <<>> \/ \E r \in Requests : queue.items = <<r>>
<1>1. queue.items = <<>> \/ \E r \in Requests : queue.items = <<r>>
    BY DEF HandlerTypes
<1>2. ASSUME NEW r \in Requests, queue.items = <<r>> PROVE H!Leftover(queue) = {r}
    <2>1. DOMAIN queue.items = {1} /\ queue.items[1] = r
        BY <1>2
    <2> QED  BY <2>1 DEF H!Leftover
<1>3. ASSUME queue.items = <<>> PROVE H!Leftover(queue) = {}
    <2>1. DOMAIN queue.items = {}
        BY <1>3
    <2> QED  BY <2>1 DEF H!Leftover
<1> QED  BY <1>1, <1>2, <1>3

LEMMA HandlerInit ==
    ASSUME H!Init
    PROVE  HandlerInv
<1>1. /\ req = [r \in Requests |-> "away"] /\ status = [r \in Requests |-> 0]
      /\ body = [r \in Requests |-> 0] /\ done = [r \in Requests |-> "none"]
      /\ store = [r \in Requests |-> 0] /\ held = {} /\ overdue = FALSE
      /\ queue = [items |-> <<>>, closed |-> FALSE]
    BY DEF H!Init, H!Open
<1>2. HandlerTypes
    BY <1>1 DEF HandlerTypes
<1>3. Waiting = {}
    BY <1>1, <1>2, HandlerQueue DEF Waiting
<1> QED  BY <1>1, <1>2, <1>3 DEF HandlerInv, Waiting, H!NoHandlerForgotten, H!ReplyIsTrue

\* A handler goes on, or replies with what the answer and the store say, and the
\* rendezvous, the pipeline and the answers stay.
LEMMA HandlerGoes ==
    ASSUME HandlerInv, NEW r \in Requests, UNCHANGED <<done, store, queue, held, overdue>>,
           \/ req[r] \in {"away", "body"} /\ (H!Goes(r, "body") \/ H!Goes(r, "push"))
           \/ H!Goes(r, "told")
           \/ \E s \in {200, 400, 404, 405, 408, 429, 500, 503, 201}, n \in Nat :
                /\ H!Replies(r, s, n)
                /\ s = 500 => done[r] = "nack"
                /\ s = 201 => done[r] = "ack" /\ n = store[r]
    PROVE  HandlerInv'
<1>1. /\ Waiting' = Waiting /\ H!Leftover(queue)' = H!Leftover(queue)
      /\ \A x \in Requests : x # r => req'[x] = req[x] /\ status'[x] = status[x] /\ body'[x] = body[x]
    BY DEF Waiting, HandlerInv, HandlerTypes, H!Goes, H!Replies, H!Leftover
<1>2. CASE \/ req[r] \in {"away", "body"} /\ (H!Goes(r, "body") \/ H!Goes(r, "push"))
           \/ H!Goes(r, "told")
    <2>1. /\ req' \in [Requests -> {"away", "body", "push", "wait", "replied", "told", "cut"}]
          /\ req'[r] \in {"body", "push", "told"} /\ UNCHANGED <<status, body>>
          /\ req'[r] \in {"body", "push"} => r \notin Waiting /\ done[r] = "none"
        <3>1. PICK w \in {"body", "push", "told"} :
                    H!Goes(r, w) /\ (w # "told" => req[r] \in {"away", "body"})
            BY <1>2
        <3>2. req[r] \in {"away", "body"} => r \notin Waiting /\ done[r] = "none"
            BY DEF HandlerInv
        <3> QED  BY <3>1, <3>2 DEF H!Goes, HandlerInv, HandlerTypes
    <2> QED  BY <1>1, <2>1
             DEF HandlerInv, HandlerTypes, H!NoHandlerForgotten, H!ReplyIsTrue, Waiting
<1>3. CASE \E s \in {200, 400, 404, 405, 408, 429, 500, 503, 201}, n \in Nat :
                /\ H!Replies(r, s, n)
                /\ s = 500 => done[r] = "nack"
                /\ s = 201 => done[r] = "ack" /\ n = store[r]
    <2>1. PICK s \in {200, 400, 404, 405, 408, 429, 500, 503, 201}, n \in Nat :
                /\ H!Replies(r, s, n)
                /\ s = 500 => done[r] = "nack"
                /\ s = 201 => done[r] = "ack" /\ n = store[r]
        BY <1>3
    <2>2. /\ req' \in [Requests -> {"away", "body", "push", "wait", "replied", "told", "cut"}]
          /\ req'[r] = "replied" /\ status'[r] = s /\ body'[r] = n
          /\ status' \in [Requests -> Nat] /\ body' \in [Requests -> Nat]
        BY <2>1 DEF H!Replies, HandlerInv, HandlerTypes
    <2>3. HandlerTypes'
        BY <2>2 DEF HandlerInv, HandlerTypes
    <2>4. H!ReplyIsTrue'
        BY <1>1, <2>1, <2>2 DEF HandlerInv, H!ReplyIsTrue
    <2>5. H!NoHandlerForgotten'
        BY <1>1, <2>2 DEF HandlerInv, H!NoHandlerForgotten
    <2>6. \A x \in Requests : req'[x] \in {"away", "body", "push"} => req'[x] = req[x]
        BY <1>1, <2>2
    <2> QED  BY <1>1, <2>3, <2>4, <2>5, <2>6 DEF HandlerInv
<1> QED  BY <1>2, <1>3

\* The handler's own steps: those that touch no rendezvous.
LEMMA HandlerReplies ==
    ASSUME HandlerInv, NEW r \in Requests,
           H!Handle(r) \/ H!ReadBody(r) \/ H!Answered(r) \/ H!TimesOut(r) \/ H!Flush(r)
    PROVE  HandlerInv'
<1>2. store[r] \in Nat /\ done[r] \in {"none", "ack", "nack"} /\ 0 \in Nat
    BY DEF HandlerInv, HandlerTypes
<1>3. CASE H!Handle(r)
    <2>1. req[r] = "away" /\ UNCHANGED <<done, store, queue, held, overdue>>
          /\ (H!Goes(r, "body") \/ \E s \in {405, 404, 429, 503} : H!Replies(r, s, 0))
        BY <1>3 DEF H!Handle, H!Refusals
    <2> QED  BY <1>2, <2>1, HandlerGoes
<1>4. CASE H!ReadBody(r)
    <2>1. req[r] = "body" /\ UNCHANGED <<done, store, queue, held, overdue>>
          /\ (H!Goes(r, "push") \/ \E s \in {400, 200} : H!Replies(r, s, 0))
        BY <1>4 DEF H!ReadBody
    <2> QED  BY <1>2, <2>1, HandlerGoes
<1>5. CASE H!Answered(r)
    <2>1. /\ req[r] = "wait" /\ UNCHANGED <<done, store, queue, held, overdue>>
          /\ \E s \in {500, 200, 201}, n \in Nat :
                /\ H!Replies(r, s, n) /\ (s = 500 => done[r] = "nack")
                /\ s = 201 => done[r] = "ack" /\ n = store[r]
        <3>1. CASE done[r] = "nack"
            BY <1>2, <1>5, <3>1 DEF H!Answered
        <3>2. CASE done[r] # "nack"
            BY <1>2, <1>5, <3>2 DEF H!Answered
        <3> QED  BY <3>1, <3>2
    <2> QED  BY <2>1, HandlerGoes
<1>6. CASE H!TimesOut(r)
    <2>1. req[r] = "wait" /\ UNCHANGED <<done, store, queue, held, overdue>> /\ H!Replies(r, 408, 0)
        BY <1>6 DEF H!TimesOut
    <2> QED  BY <1>2, <2>1, HandlerGoes
<1>7. CASE H!Flush(r)
    <2>1. req[r] = "replied" /\ UNCHANGED <<done, store, queue, held, overdue>> /\ H!Goes(r, "told")
        BY <1>7 DEF H!Flush
    <2> QED  BY <2>1, HandlerGoes
<1> QED  BY <1>3, <1>4, <1>5, <1>6, <1>7

\* A batch is offered: it waits where it can be found, or its request was refused.
LEMMA HandlerEnqueue ==
    ASSUME HandlerInv, NEW r \in Requests, H!Enqueue(r)
    PROVE  HandlerInv'
<1>1. /\ req[r] = "push" /\ UNCHANGED <<done, store, held, overdue>>
      /\ r \notin Waiting /\ done[r] = "none"
    BY DEF H!Enqueue, HandlerInv
<1>2. CASE UNCHANGED queue /\ (H!Replies(r, 503, 0) \/ H!Replies(r, 408, 0))
    <2>1. 0 \in Nat
        OBVIOUS
    <2> QED  BY <1>1, <1>2, <2>1, HandlerGoes
<1>3. CASE H!MayPush(queue) /\ H!Goes(r, "wait") /\ queue' = H!Pushed(queue, r)
    <2>1. queue.items = <<>> /\ queue \in [items : {<<>>} \cup {<<x>> : x \in Requests}, closed : BOOLEAN]
        <3>1. \A x \in Requests : queue.items = <<x>> => Len(queue.items) = 1
            OBVIOUS
        <3> QED  BY <1>3, <3>1, HandlerQueue DEF H!MayPush, H!Capacity, HandlerInv, HandlerTypes
    <2>2. queue' = [items |-> <<r>>, closed |-> queue.closed]
        <3>1. Append(<<>>, r) = <<r>>
            OBVIOUS
        <3> QED  BY <1>3, <2>1, <3>1 DEF H!Pushed
    <2>3. /\ req' = [req EXCEPT ![r] = "wait"] /\ UNCHANGED <<status, body>>
        BY <1>3 DEF H!Goes
    <2>4. HandlerTypes'
        BY <1>1, <2>1, <2>2, <2>3 DEF HandlerInv, HandlerTypes
    <2>5. H!Leftover(queue) = {} /\ H!Leftover(queue)' = {r}
        <3>1. queue'.items = <<r>>
            BY <2>2
        <3>2. DOMAIN queue'.items = {1} /\ queue'.items[1] = r
            BY <3>1
        <3>3. H!Leftover(queue)' = {r}
            BY <3>2 DEF H!Leftover
        <3> QED  BY <2>1, <3>3, HandlerQueue DEF HandlerInv
    <2> QED  BY <1>1, <2>3, <2>4, <2>5
             DEF HandlerInv, HandlerTypes, Waiting, H!NoHandlerForgotten, H!ReplyIsTrue
<1> QED  BY <1>2, <1>3 DEF H!Enqueue

\* The reader takes what is offered to the pipeline.
LEMMA HandlerPop ==
    ASSUME HandlerInv, H!Read \/ H!Pop
    PROVE  HandlerInv'
<1>1. /\ UNCHANGED <<req, status, body, done, store, overdue>>
      /\ \/ UNCHANGED <<queue, held>>
         \/ /\ queue.items # <<>> /\ held' = held \cup {Head(queue.items)}
            /\ queue' = [queue EXCEPT !.items = Tail(@)]
    BY DEF H!Read, H!Pop, H!handlers, H!MayPop, H!First, H!Popped
<1>2. CASE UNCHANGED <<queue, held>>
    BY <1>1, <1>2
       DEF HandlerInv, HandlerTypes, Waiting, H!Leftover, H!NoHandlerForgotten, H!ReplyIsTrue
<1>3. CASE /\ queue.items # <<>> /\ held' = held \cup {Head(queue.items)}
           /\ queue' = [queue EXCEPT !.items = Tail(@)]
    <2>1. PICK r \in Requests : queue.items = <<r>>
        BY <1>3, HandlerQueue DEF HandlerInv
    <2>2. H!Leftover(queue) = {r}
        BY <2>1, HandlerQueue DEF HandlerInv
    <2>3. Head(queue.items) = r /\ Tail(queue.items) = <<>>
        BY <2>1
    <2>4. queue' = [items |-> <<>>, closed |-> queue.closed] /\ held' = held \cup {r}
        BY <1>3, <2>3 DEF HandlerInv, HandlerTypes
    <2>5. HandlerTypes'
        BY <1>1, <2>4 DEF HandlerInv, HandlerTypes
    <2>6. H!Leftover(queue)' = {}
        <3>1. DOMAIN queue'.items = {}
            BY <2>4
        <3> QED  BY <3>1 DEF H!Leftover
    <2> QED  BY <1>1, <2>2, <2>4, <2>5, <2>6
             DEF HandlerInv, Waiting, H!NoHandlerForgotten, H!ReplyIsTrue
<1> QED  BY <1>1, <1>2, <1>3

\* The pipeline stores messages and answers, once each batch.
LEMMA HandlerPipeline ==
    ASSUME HandlerInv, NEW r \in Requests,
           H!SyncResponse(r) \/ \E e \in {"ack", "nack"} : H!Answer(r, e)
    PROVE  HandlerInv'
<1>1. UNCHANGED <<req, status, body, queue, overdue>> /\ r \in held
      /\ H!Leftover(queue)' = H!Leftover(queue)
    BY DEF H!SyncResponse, H!Answer, H!handlers, H!Leftover
<1>2. r \in Waiting /\ done[r] = "none"
    BY <1>1 DEF Waiting, HandlerInv
<1>3. CASE H!SyncResponse(r)
    <2>1. store' = [store EXCEPT ![r] = @ + 1] /\ UNCHANGED <<done, held>>
        BY <1>3 DEF H!SyncResponse
    <2>2. status[r] # 201
        BY <1>2 DEF HandlerInv, H!ReplyIsTrue
    <2> QED  BY <1>1, <2>1, <2>2
             DEF HandlerInv, HandlerTypes, Waiting, H!NoHandlerForgotten, H!ReplyIsTrue
<1>4. ASSUME NEW e \in {"ack", "nack"}, H!Answer(r, e) PROVE HandlerInv'
    <2>1. /\ UNCHANGED store /\ held' = held \ {r}
          /\ done' = [x \in Requests |-> IF x = r THEN e ELSE done[x]]
        BY <1>2, <1>4 DEF H!Answer, H!Resolved
    <2>2. req[r] \notin {"away", "body", "push"} /\ r \notin H!Leftover(queue)
        BY <1>1, <1>2 DEF HandlerInv
    <2>3. status[r] # 500 /\ status[r] # 201
        BY <1>2 DEF HandlerInv, H!ReplyIsTrue
    <2>4. HandlerTypes' /\ done'[r] # "none" /\ \A x \in Requests : x # r => done'[x] = done[x]
        BY <1>1, <2>1 DEF HandlerInv, HandlerTypes
    <2>5. Waiting' = Waiting \ {r}
        BY <1>1, <2>1, <2>2 DEF Waiting
    <2>6. \A x \in Waiting : x \in Requests
        BY HandlerQueue DEF HandlerInv, HandlerTypes, Waiting
    <2>7. H!NoHandlerForgotten'
        BY <1>1, <2>1, <2>4 DEF HandlerInv, H!NoHandlerForgotten
    <2>8. H!ReplyIsTrue'
        BY <1>1, <2>1, <2>3, <2>4 DEF HandlerInv, H!ReplyIsTrue
    <2> QED  BY <1>1, <2>1, <2>2, <2>4, <2>5, <2>6, <2>7, <2>8 DEF HandlerInv
<1> QED  BY <1>3, <1>4

\* What a shutdown takes out of the rendezvous is nacked.
LEMMA HandlerReleased ==
    ASSUME HandlerInv, H!Abort \/ H!Close
    PROVE  HandlerInv'
<1>1. /\ UNCHANGED <<req, status, body, store, held, overdue>>
      /\ queue' = [items |-> <<>>, closed |-> TRUE]
      /\ done' = [x \in Requests |-> IF x \in H!Leftover(queue) /\ done[x] = "none"
                                     THEN "nack" ELSE done[x]]
    BY DEF H!Abort, H!Close, H!ReleaseAll, H!Resolved, H!Shut, H!handlers
<1>2. HandlerTypes'
    BY <1>1 DEF HandlerInv, HandlerTypes
<1>3. H!Leftover(queue)' = {}
    <2>1. DOMAIN queue'.items = {}
        BY <1>1
    <2> QED  BY <2>1 DEF H!Leftover
<1>4. \A x \in Requests : done'[x] = done[x] \/ (done[x] = "none" /\ x \in H!Leftover(queue) /\ done'[x] = "nack")
    BY <1>1
<1>5. \A x \in held : done'[x] = "none"
    BY <1>4 DEF HandlerInv, HandlerTypes, Waiting
<1>6. H!NoHandlerForgotten'
    BY <1>1, <1>4 DEF HandlerInv, HandlerTypes, H!NoHandlerForgotten
<1>7. H!ReplyIsTrue'
    BY <1>1, <1>4 DEF HandlerInv, H!ReplyIsTrue
<1> QED  BY <1>1, <1>2, <1>3, <1>4, <1>5, <1>6, <1>7 DEF HandlerInv, Waiting

\* Replies are cut off only once the budget is spent.
LEMMA HandlerServer ==
    ASSUME HandlerInv, H!Server \/ UNCHANGED H!vars
    PROVE  HandlerInv'
<1>1. CASE H!Stop
    <2>1. /\ UNCHANGED <<status, body, done, store, queue, held, overdue>>
          /\ req' = [r \in Requests |-> IF req[r] = "replied" THEN "cut" ELSE req[r]]
          /\ overdue \/ \A r \in Requests : req[r] # "replied"
        BY <1>1 DEF H!Stop, H!MayStop, H!Connected
    <2> QED  BY <2>1
             DEF HandlerInv, HandlerTypes, Waiting, H!Leftover, H!NoHandlerForgotten, H!ReplyIsTrue
<1>2. CASE H!HandlersGone \/ H!BudgetSpent \/ UNCHANGED H!vars
    <2>1. UNCHANGED <<req, status, body, done, store, queue, held>> /\ overdue' \in {overdue, TRUE}
        BY <1>2 DEF H!HandlersGone, H!BudgetSpent, H!vars, H!handlers
    <2>2. HandlerTypes' /\ (overdue => overdue')
        BY <2>1 DEF HandlerInv, HandlerTypes
    <2> QED  BY <2>1, <2>2
             DEF HandlerInv, Waiting, H!Leftover, H!NoHandlerForgotten, H!ReplyIsTrue
<1> QED  BY <1>1, <1>2 DEF H!Server

LEMMA HandlerNext ==
    ASSUME HandlerInv, [H!Next]_(H!vars)
    PROVE  HandlerInv'
    BY HandlerReplies, HandlerEnqueue, HandlerPop, HandlerPipeline, HandlerReleased, HandlerServer
       DEF H!Next, H!Handler
=============================================================================
