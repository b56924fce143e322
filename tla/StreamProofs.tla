---------------------------- MODULE StreamProofs ----------------------------
(***************************************************************************)
(* One stream, for every number of batches, depth of its queues, limit of  *)
(* writes in flight, number of processors and fan-out, strict or not.      *)
(*                                                                         *)
(* None of the properties is inductive.  That an answer comes once, with   *)
(* the last piece, rests on a transaction being in one place only, and     *)
(* that rests on the order in which the places are passed:                 *)
(*                                                                         *)
(*   launched < out.t < toOutput < kids, pipe.t < toPipeline < in.slot     *)
(*                                                                         *)
(* The shutdown breaks the line: what it collects (toNack) is apart from   *)
(* the rest.  Account relates what is held of a batch to its ack_group,    *)
(* its answers and what was written.                                       *)
(***************************************************************************)
EXTENDS Stream, FiniteSetTheorems, WellFoundedInduction, TLAPS

-----------------------------------------------------------------------------
(* The inductive invariant *)

\* None and the end of the stream are of no batch.
Real(t) == t.src > 0

Before(s, t) == s.src < t.src \/ (s.src = t.src /\ s.idx < t.idx)

\* Every transaction of S is before every one of T.
Precede(S, T) == \A s \in S, t \in T : Real(s) /\ Real(t) => Before(s, t)

\* A queue is in order, and only its last slot can be the end of the stream.
Sorted(q) ==
  \A i, j \in DOMAIN q : i < j => Real(q[i]) /\ (Real(q[j]) => Before(q[i], q[j]))

\* What each fiber holds follows from where it stands.
Shape ==
  /\ in.pc \in {"wait", "ready", "nack"} <=> in.slot # None
  /\ pipe.pc = "proc" <=> pipe.t # None
  /\ pipe.pc = "proc" => pipe.todo # <<>> /\ pipe.stage \in 1 .. NProcs
  /\ pipe.pc \in {"wait", "ready", "nack"} <=> pipe.kids # <<>>
  /\ out.pc = "units" <=> out.t # None
  /\ startPc \in {"connect_in", "connect_out"} =>
       in.pc = "idle" /\ pipe.pc = "idle" /\ out.pc = "idle"
  /\ stopPc \notin {"yield", "nack"} => toNack = <<>>
  /\ EndOfStream \in Range(toPipeline) => in.pc = "done"
  /\ EndOfStream \in Range(toOutput) => pipe.pc = "done"
  /\ launched.src <= stats.batches_in

InHand == Range(pipe.kids) \cup {pipe.t}

\* The line of places.
InOrder ==
  /\ Sorted(toPipeline) /\ Sorted(toOutput) /\ Sorted(pipe.kids)
  /\ \A w \in writes : w = launched \/ Before(w, launched)
  /\ Precede({launched}, {out.t}) /\ Precede({launched}, Range(toOutput))
  /\ Precede({launched}, InHand) /\ Precede({launched}, Range(toPipeline))
  /\ Precede({launched}, {in.slot})
  /\ Precede({out.t}, Range(toOutput)) /\ Precede({out.t}, InHand)
  /\ Precede({out.t}, Range(toPipeline)) /\ Precede({out.t}, {in.slot})
  /\ Precede(Range(toOutput), InHand) /\ Precede(Range(toOutput), Range(toPipeline))
  /\ Precede(Range(toOutput), {in.slot})
  /\ Precede(InHand, Range(toPipeline)) /\ Precede(InHand, {in.slot})
  /\ Precede(Range(toPipeline), {in.slot})

\* Whole batches on the input's side, pieces on the output's.
Kinds ==
  /\ \A t \in Range(toPipeline) : t # EndOfStream => t \in Transactions /\ t.idx = 0
  /\ in.slot.idx = 0 /\ pipe.t.idx = 0
  /\ \A t \in Range(toOutput) : t # EndOfStream => t \in Transactions /\ t.idx > 0
  /\ \A t \in Range(pipe.kids) \cup writes : t.idx > 0
  /\ out.t # None => out.t.idx > 0

OnLine ==
  ({in.slot, pipe.t, out.t} \cup writes \cup Range(toPipeline) \cup Range(toOutput)
     \cup Range(pipe.kids)) \ {None, EndOfStream}

SameKey(s, t) == s.src = t.src /\ s.idx = t.idx

\* What the shutdown collected is held by nobody else, nor twice.
Apart ==
  /\ \A i, j \in DOMAIN toNack : SameKey(toNack[i], toNack[j]) => i = j
  /\ \A s \in Range(toNack), t \in OnLine : ~SameKey(s, t)

Whole(b) == \E t \in Held : t.src = b /\ t.idx = 0
Marked(b) == \E t \in Held : t.src = b /\ t.mark

\* The processors have marked an error in b, and a later look will find it.
Blamed(b) == pipe.pc = "proc" /\ pipe.t.src = b /\ HasError(pipe.next)

Clean(b) ==
  split[b] = 0 /\ wrote[b] = {} /\ answers[b] = <<>> /\ OpenPieces(b) = {}

\* A split batch: the group counts the pieces held and knows of every one lost.
Split(b) ==
  /\ ~Whole(b)
  /\ OpenPieces(b) \subseteq 1 .. split[b]
  /\ group[b].pending = Cardinality(OpenPieces(b)) /\ group[b].sealed /\ ~group[b].fired
  /\ wrote[b] \subseteq (1 .. split[b]) \ OpenPieces(b)
  /\ group[b].err <=> wrote[b] # (1 .. split[b]) \ OpenPieces(b)
  /\ Strict /\ b \in errored => group[b].err \/ Marked(b)
  /\ answers[b] = <<>>

Settled(b) ==
  /\ answers[b] = <<"ack">> \/ answers[b] = <<"nack">>
  /\ answers[b] = <<"ack">> =>
       /\ b \in dropped \/ (split[b] > 0 /\ wrote[b] = 1 .. split[b])
       /\ Strict => b \notin errored

\* What is held of a batch agrees with its group, its answer and its history.
Accounted(b) ==
  /\ b \notin Read => Clean(b) /\ b \notin errored
  /\ Whole(b) => Clean(b) /\ (Strict /\ b \in errored => Blamed(b))
  /\ OpenPieces(b) # {} => Split(b)
  /\ b \in Read /\ ~Whole(b) /\ OpenPieces(b) = {} => Settled(b)

Account ==
  /\ \A s, t \in Held : SameKey(s, t) => s = t
  /\ \A t \in Held : t.src <= stats.batches_in
  /\ \A b \in Batches : Accounted(b)

IInv == TypeOK /\ Shape /\ InOrder /\ Kinds /\ Apart /\ Account
-----------------------------------------------------------------------------
(* Sequences *)

\* A slot pushed is the one slot more.
LEMMA RangeAppend ==
  ASSUME NEW S, NEW q \in Seq(S), NEW x
  PROVE  Range(Append(q, x)) = Range(q) \cup {x}
<1>1. DOMAIN Append(q, x) = DOMAIN q \cup {Len(q) + 1}
  OBVIOUS
<1>2. \A i \in DOMAIN q : Append(q, x)[i] = q[i]
  OBVIOUS
<1>3. Append(q, x)[Len(q) + 1] = x
  OBVIOUS
<1> QED
  BY <1>1, <1>2, <1>3 DEF Range

\* What was popped, and the rest, are what was there.
LEMMA RangeTail ==
  ASSUME NEW S, NEW q \in Seq(S), q # <<>>
  PROVE  Range(q) = Range(Tail(q)) \cup {Head(q)}
<1>1. DOMAIN q = 1 .. Len(q) /\ DOMAIN Tail(q) = 1 .. Len(q) - 1 /\ Len(q) \in Nat \ {0}
  OBVIOUS
<1>2. \A i \in DOMAIN Tail(q) : i + 1 \in DOMAIN q /\ Tail(q)[i] = q[i + 1]
  OBVIOUS
<1>3. Head(q) = q[1] /\ 1 \in DOMAIN q
  BY <1>1
<1>4. \A i \in DOMAIN q : i = 1 \/ (i - 1 \in DOMAIN Tail(q) /\ q[i] = Tail(q)[i - 1])
  BY <1>1, <1>2
<1> QED
  BY <1>2, <1>3, <1>4 DEF Range

\* What is left, and what was popped, are slots.
LEMMA TailType ==
  ASSUME NEW S, NEW q \in Seq(S), q # <<>>
  PROVE  Tail(q) \in Seq(S) /\ Head(q) \in S
OBVIOUS

\* Popping keeps the order: the slot popped is before the rest, and a real
\* one unless it was the last.
LEMMA SortedTail ==
  ASSUME NEW S, NEW q \in Seq(S), q # <<>>, Sorted(q)
  PROVE  /\ Sorted(Tail(q))
         /\ Precede({Head(q)}, Range(Tail(q)))
         /\ Tail(q) # <<>> => Real(Head(q))
<1>1. DOMAIN q = 1 .. Len(q) /\ DOMAIN Tail(q) = 1 .. Len(q) - 1 /\ Len(q) \in Nat \ {0}
  OBVIOUS
<1>2. \A i \in DOMAIN Tail(q) : i + 1 \in DOMAIN q /\ Tail(q)[i] = q[i + 1]
  OBVIOUS
<1>3. Head(q) = q[1] /\ 1 \in DOMAIN q
  BY <1>1
<1>4. Sorted(Tail(q))
  BY <1>1, <1>2 DEF Sorted
<1>5. \A i \in DOMAIN Tail(q) : Real(q[1]) /\ (Real(Tail(q)[i]) => Before(q[1], Tail(q)[i]))
  BY <1>1, <1>2, <1>3 DEF Sorted
<1>6. Tail(q) # <<>> => 1 \in DOMAIN Tail(q)
  OBVIOUS
<1> QED
  BY <1>3, <1>4, <1>5, <1>6 DEF Precede, Range

\* Pushing keeps the order when the slot pushed is after all the others.
LEMMA SortedAppend ==
  ASSUME NEW S, NEW q \in Seq(S), NEW x, Sorted(q),
         \A s \in Range(q) : Real(s), Precede(Range(q), {x})
  PROVE  Sorted(Append(q, x))
<1>1. DOMAIN q = 1 .. Len(q) /\ DOMAIN Append(q, x) = 1 .. Len(q) + 1 /\ Len(q) \in Nat
  OBVIOUS
<1>2. \A i \in DOMAIN q : Append(q, x)[i] = q[i] /\ q[i] \in Range(q)
  BY DEF Range
<1>3. Append(q, x)[Len(q) + 1] = x
  OBVIOUS
<1>4. ASSUME NEW i \in DOMAIN Append(q, x), NEW j \in DOMAIN Append(q, x), i < j
      PROVE  /\ Real(Append(q, x)[i])
             /\ Real(Append(q, x)[j]) => Before(Append(q, x)[i], Append(q, x)[j])
  <2>1. i \in DOMAIN q
    BY <1>1, <1>4
  <2>2. CASE j \in DOMAIN q
    BY <1>2, <1>4, <2>1, <2>2 DEF Sorted
  <2>3. CASE j = Len(q) + 1
    BY <1>2, <1>3, <2>1, <2>3 DEF Precede
  <2> QED
    BY <1>1, <2>2, <2>3
<1> QED
  BY <1>4 DEF Sorted
-----------------------------------------------------------------------------
(* Account, by what a step does to the transactions held *)

\* The number of a batch's pieces held is finite and bounded by its split.
LEMMA PiecesFinite ==
  ASSUME NEW n \in Nat, NEW O, O \subseteq 1 .. n
  PROVE  IsFiniteSet(O) /\ Cardinality(O) \in Nat
<1>1. IsFiniteSet(1 .. n)
  BY FS_Interval
<1>2. IsFiniteSet(O)
  BY <1>1, FS_Subset
<1> QED
  BY <1>2, FS_CardinalityType

\* What is held is a transaction, and no transaction is None or the end of the
\* stream.
LEMMA HeldIsReal ==
  ASSUME TypeOK
  PROVE  /\ \A t \in Held : t \in Transactions
         /\ \A t \in Transactions : Real(t) /\ t # None /\ t # EndOfStream
<1>1. \A t \in Transactions : Real(t) /\ t # None /\ t # EndOfStream
  BY DEF Transactions, Batches, Real, None, EndOfStream
<1>2. {in.slot, pipe.t, out.t} \subseteq Transactions \cup {None}
  BY DEF TypeOK
<1>3. Range(pipe.kids) \cup Range(toNack) \cup writes \subseteq Transactions
  BY DEF TypeOK, Range
<1>4. Range(toPipeline) \cup Range(toOutput) \subseteq Transactions \cup {EndOfStream}
  BY DEF TypeOK, Range, Slots
<1> QED
  BY <1>1, <1>2, <1>3, <1>4 DEF Held

\* Nothing is read, answered or split: a transaction may have moved, and an
\* error may have been seen on one that is held.
LEMMA AccountKept ==
  ASSUME TypeOK, Account, Held' = Held, stats'.batches_in = stats.batches_in,
         UNCHANGED <<group, answers, split, wrote, dropped>>,
         \A b \in Batches : b \in errored' /\ b \notin errored => Blamed(b)' \/ Marked(b),
         \A b \in Batches : Whole(b) /\ Strict /\ b \in errored' => Blamed(b)',
         \A b \in Batches : Blamed(b)' => Whole(b)
  PROVE  Account'
<1>1. Read' = Read
  BY DEF Read
<1>2. \A b \in Batches : /\ OpenPieces(b)' = OpenPieces(b) /\ (Whole(b)' <=> Whole(b))
                          /\ (Marked(b)' <=> Marked(b)) /\ (Clean(b)' <=> Clean(b))
  BY DEF OpenPieces, Whole, Marked, Clean
<1>3. \A t \in Held : t \in Transactions
  BY HeldIsReal
<1>4. ASSUME NEW b \in Batches, b \in errored', b \notin errored
      PROVE  b \in Read /\ (Whole(b) \/ OpenPieces(b) # {}) /\ (Whole(b) \/ Marked(b))
  <2>1. PICK t \in Held : t.src = b
    BY <1>4 DEF Marked, Whole
  <2>2. b \in Read
    BY <2>1 DEF Account, Accounted, Read, Batches, TypeOK
  <2>3. t.idx = 0 \/ t.idx > 0
    BY <2>1, <1>3 DEF Transactions
  <2> QED
    BY <1>4, <2>1, <2>2, <2>3 DEF Whole, OpenPieces, Marked
<1>5. ASSUME NEW b \in Batches
      PROVE  Accounted(b)'
  <2>1. b \notin Read => Clean(b) /\ b \notin errored'
    BY <1>4 DEF Account, Accounted
  <2>2. Whole(b) => Clean(b) /\ (Strict /\ b \in errored' => Blamed(b)')
    BY DEF Account, Accounted
  <2>3. OpenPieces(b) # {} => Split(b)'
    BY <1>2, <1>4 DEF Account, Accounted, Split
  <2>4. b \in Read /\ ~Whole(b) /\ OpenPieces(b) = {} => Settled(b)'
    BY <1>4 DEF Account, Accounted, Settled
  <2> QED
    BY <1>1, <1>2, <2>1, <2>2, <2>3, <2>4 DEF Accounted
<1> QED
  BY <1>1, <1>2, <1>5 DEF Account, Accounted

\* Every batch with nothing held is untouched or settled; what is held of a
\* batch is all whole or all pieces.
LEMMA HeldBatch ==
  ASSUME TypeOK, Account, NEW t \in Held
  PROVE  /\ t \in Transactions /\ t.src \in Batches /\ t.src \in Read
         /\ t.idx = 0 => /\ Whole(t.src) /\ Clean(t.src)
                         /\ \A u \in Held : u.src = t.src => u = t
         /\ t.idx > 0 => /\ t.idx \in OpenPieces(t.src) /\ Split(t.src)
                         /\ \A u \in Held : u.src = t.src => u.idx > 0
<1>1. \A u \in Held : u \in Transactions
  BY HeldIsReal
<1>2. t.src \in Batches /\ t.src \in Read
  BY <1>1 DEF Transactions, Batches, Read, Account, TypeOK
<1>3. \A u \in Held : u.idx \in Nat
  BY <1>1 DEF Transactions
<1>4. CASE t.idx = 0
  <2>1. Whole(t.src) /\ Clean(t.src)
    BY <1>2, <1>4 DEF Account, Accounted, Whole
  <2>2. ASSUME NEW u \in Held, u.src = t.src PROVE u = t
    <3>1. ~(u.idx > 0)
      BY <2>1, <2>2 DEF Clean, OpenPieces
    <3> QED
      BY <1>3, <1>4, <2>2, <3>1 DEF Account, Accounted, SameKey
  <2> QED
    BY <1>1, <1>2, <1>4, <2>1, <2>2
<1>5. CASE t.idx > 0
  <2>1. t.idx \in OpenPieces(t.src)
    BY <1>5 DEF OpenPieces
  <2>2. Split(t.src)
    BY <1>2, <2>1 DEF Account, Accounted
  <2>3. \A u \in Held : u.src = t.src => u.idx > 0
    BY <1>3, <2>2 DEF Split, Whole
  <2> QED
    BY <1>1, <1>2, <1>5, <2>1, <2>2, <2>3
<1> QED
  BY <1>3, <1>4, <1>5

\* A new batch is read.
LEMMA AccountRead ==
  ASSUME TypeOK, Account,
         NEW t, t.src = stats.batches_in + 1, t.idx = 0, t.src \in Batches,
         Held' = Held \cup {t}, stats'.batches_in = stats.batches_in + 1,
         UNCHANGED <<pipe, group, answers, split, wrote, dropped, errored>>
  PROVE  Account'
<1>1. stats.batches_in \in Nat
  BY DEF TypeOK
<1>2. Read' = Read \cup {t.src} /\ t.src \notin Read
  BY <1>1 DEF Read
<1>3. \A u \in Held : u.src # t.src /\ u.src <= stats.batches_in /\ u.src \in Nat
  BY <1>1, HeldIsReal DEF Account, Accounted, Transactions, Batches
<1>4. \A b \in Batches : OpenPieces(b)' = OpenPieces(b)
  BY DEF OpenPieces
<1>5. Whole(t.src)' /\ Clean(t.src)' /\ t.src \notin errored'
  BY <1>2, <1>4 DEF Account, Accounted, Whole, Clean
<1>6. ASSUME NEW b \in Batches, b # t.src
      PROVE  /\ (Whole(b)' <=> Whole(b)) /\ (Marked(b)' <=> Marked(b))
             /\ (Clean(b)' <=> Clean(b)) /\ (Split(b)' <=> Split(b))
             /\ (Settled(b)' <=> Settled(b)) /\ (Blamed(b)' <=> Blamed(b))
             /\ b \in Read' <=> b \in Read
  <2>1. (Whole(b)' <=> Whole(b)) /\ (Marked(b)' <=> Marked(b))
    BY <1>6 DEF Whole, Marked
  <2>2. (Clean(b)' <=> Clean(b)) /\ (Split(b)' <=> Split(b)) /\ (Settled(b)' <=> Settled(b))
    BY <1>4, <2>1 DEF Clean, Split, Settled
  <2> QED
    BY <1>2, <1>6, <2>1, <2>2 DEF Blamed
<1>7. \A u, v \in Held' : SameKey(u, v) => u = v
  BY <1>3 DEF Account, Accounted, SameKey
<1>8. \A u \in Held' : u.src <= stats'.batches_in
  BY <1>1, <1>3
<1>9. ASSUME NEW b \in Batches
      PROVE  Accounted(b)'
  <2>1. CASE b = t.src
    BY <1>2, <1>5, <2>1 DEF Accounted, Clean
  <2>2. CASE b # t.src
    BY <1>4, <1>6, <2>2 DEF Account, Accounted
  <2> QED
    BY <2>1, <2>2
<1> QED
  BY <1>7, <1>8, <1>9 DEF Account, Accounted

\* A batch is answered as it was read: filtered, rejected or given up.
LEMMA AccountAnswered ==
  ASSUME TypeOK, Account, NEW t \in Held, t.idx = 0, NEW e \in BOOLEAN,
         AckSource(t.src, e),
         Held' = Held \ {t}, stats'.batches_in = stats.batches_in,
         UNCHANGED <<split, wrote>>, dropped \subseteq dropped',
         errored \subseteq errored' /\ errored' \subseteq errored \cup {t.src},
         ~e => t.src \in dropped' /\ (Strict => t.src \notin errored'),
         \A b \in Batches : b # t.src => (Blamed(b)' <=> Blamed(b))
  PROVE  Account'
<1>1. /\ t \in Transactions /\ t.src \in Batches /\ t.src \in Read /\ Clean(t.src)
      /\ \A u \in Held : u.src = t.src => u = t
  BY HeldBatch
<1>2. Read' = Read
  BY DEF Read
<1>3. answers' = [answers EXCEPT ![t.src] = Append(@, IF e THEN "nack" ELSE "ack")]
      /\ UNCHANGED group /\ answers \in [Batches -> Seq({"ack", "nack"})]
  BY DEF AckSource, TypeOK
<1>4. ~Whole(t.src)' /\ OpenPieces(t.src)' = {} /\ Settled(t.src)'
  <2>1. answers'[t.src] = <<IF e THEN "nack" ELSE "ack">>
    BY <1>1, <1>3 DEF Clean
  <2>2. ~Whole(t.src)' /\ OpenPieces(t.src)' = {}
    BY <1>1 DEF Whole, OpenPieces
  <2>3. "ack" # "nack"
    OBVIOUS
  <2>4. e => answers'[t.src] = <<"nack">>
    BY <2>1
  <2>5. ~e => answers'[t.src] = <<"ack">>
    BY <2>1
  <2>6. <<"nack">> # <<"ack">>
    BY <2>3
  <2> QED
    BY <2>2, <2>4, <2>5, <2>6 DEF Settled
<1>5. ASSUME NEW b \in Batches, b # t.src
      PROVE  /\ (Whole(b)' <=> Whole(b)) /\ OpenPieces(b)' = OpenPieces(b)
             /\ (Clean(b)' <=> Clean(b))
             /\ Split(b) => Split(b)'
             /\ Settled(b) => Settled(b)'
             /\ b \in errored' <=> b \in errored
  <2>1. (Whole(b)' <=> Whole(b)) /\ OpenPieces(b)' = OpenPieces(b) /\ (Marked(b)' <=> Marked(b))
    BY <1>5 DEF Whole, OpenPieces, Marked
  <2>2. answers'[b] = answers[b] /\ (b \in errored' <=> b \in errored)
    BY <1>3, <1>5
  <2>3. (Clean(b)' <=> Clean(b))
    BY <2>1, <2>2 DEF Clean
  <2>4. Split(b) => Split(b)'
    BY <1>3, <2>1, <2>2 DEF Split
  <2>5. Settled(b) => Settled(b)'
    BY <2>2 DEF Settled
  <2> QED
    BY <2>1, <2>2, <2>3, <2>4, <2>5
<1>6. ASSUME NEW b \in Batches
      PROVE  Accounted(b)'
  <2>1. CASE b = t.src
    BY <1>1, <1>2, <1>4, <2>1 DEF Accounted
  <2>2. CASE b # t.src
    BY <1>2, <1>5, <2>2 DEF Account, Accounted
  <2> QED
    BY <2>1, <2>2
<1> QED
  BY <1>6 DEF Account, Accounted

\* The pieces of a batch with the messages' marks bs.
Pieces(b, bs) == {[src |-> b, idx |-> i, mark |-> bs[i]] : i \in DOMAIN bs}

\* A whole batch becomes its pieces, the children of a sealed group.
LEMMA AccountSplit ==
  ASSUME TypeOK, Account, NEW t \in Held, t.idx = 0,
         NEW bs \in Seq(BOOLEAN), bs # <<>>,
         group' = [group EXCEPT ![t.src] = Seal([NewGroup EXCEPT !.pending = Len(bs)])],
         split' = [split EXCEPT ![t.src] = Len(bs)],
         Held' = (Held \ {t}) \cup Pieces(t.src, bs),
         UNCHANGED <<stats, answers, wrote, dropped>>,
         errored \subseteq errored' /\ errored' \subseteq errored \cup {t.src},
         Strict => t.src \notin errored',
         \A b \in Batches : b # t.src => (Blamed(b)' <=> Blamed(b))
  PROVE  Account'
<1> DEFINE n == Len(bs)
<1>1. /\ t \in Transactions /\ t.src \in Batches /\ t.src \in Read /\ Clean(t.src)
      /\ \A u \in Held : u.src = t.src => u = t
  BY HeldBatch
<1>2. Read' = Read
  BY DEF Read
<1>3. n \in Nat \ {0} /\ DOMAIN bs = 1 .. n
  OBVIOUS
<1>4. /\ group'[t.src] = [pending |-> n, sealed |-> TRUE, fired |-> FALSE, err |-> FALSE]
      /\ split'[t.src] = n
      /\ \A b \in Batches : b # t.src => group'[b] = group[b] /\ split'[b] = split[b]
  BY <1>1, <1>3 DEF Seal, SealFires, NewGroup, TypeOK
<1>5. \A u \in Held' : \/ u \in Held /\ u.src # t.src
                       \/ u \in Pieces(t.src, bs) /\ u.src = t.src /\ u.idx \in 1 .. n
  BY <1>1, <1>3 DEF Pieces
<1>6. OpenPieces(t.src)' = 1 .. n /\ ~Whole(t.src)'
  <2>1. ASSUME NEW i \in 1 .. n PROVE i \in OpenPieces(t.src)'
    <3> DEFINE p == [src |-> t.src, idx |-> i, mark |-> bs[i]]
    <3>1. p \in Held' /\ p.src = t.src /\ p.idx > 0 /\ p.idx = i
      BY <1>3 DEF Pieces
    <3> HIDE DEF p
    <3> QED
      BY <3>1 DEF OpenPieces
  <2>2. OpenPieces(t.src)' \subseteq 1 .. n
    BY <1>5 DEF OpenPieces
  <2>3. ~Whole(t.src)'
    BY <1>3, <1>5 DEF Whole
  <2> QED
    BY <2>1, <2>2, <2>3
<1>7. Accounted(t.src)'
  <2>1. Cardinality(1 .. n) = n
    <3>1. 1 \in Int /\ n \in Int /\ ~(1 > n) /\ n - 1 + 1 = n
      BY <1>3
    <3> HIDE DEF n
    <3> QED
      BY <3>1, FS_Interval
  <2>2. wrote'[t.src] = {} /\ answers'[t.src] = <<>>
    BY <1>1 DEF Clean
  <2>3. Split(t.src)'
    BY <1>3, <1>4, <1>6, <2>1, <2>2 DEF Split
  <2> QED
    <3>1. t.src \in Read' /\ OpenPieces(t.src)' # {}
      <4>1. 1 \in 1 .. n
        BY <1>3
      <4> QED
        BY <1>1, <1>2, <1>6, <4>1
    <3> QED
      BY <1>6, <2>3, <3>1 DEF Accounted
<1>8. ASSUME NEW b \in Batches, b # t.src
      PROVE  Accounted(b)'
  <2>1. /\ Whole(b)' <=> Whole(b)
        /\ OpenPieces(b)' = OpenPieces(b)
        /\ Marked(b)' <=> Marked(b)
    <3>1. \A u : u \in Held' /\ u.src = b <=> u \in Held /\ u.src = b
      BY <1>5, <1>8
    <3> QED
      BY <3>1 DEF Whole, OpenPieces, Marked
  <2>2. Accounted(b)
    BY DEF Account
  <2>3. (Clean(b) => Clean(b)') /\ (Settled(b) => Settled(b)') /\ (Split(b) => Split(b)')
    BY <1>4, <1>8, <2>1 DEF Clean, Settled, Split
  <2> QED
    BY <1>2, <1>8, <2>1, <2>2, <2>3 DEF Accounted
<1>9. \A u, v \in Held' : SameKey(u, v) => u = v
  BY <1>5 DEF Account, SameKey, Pieces
<1>10. \A u \in Held' : u.src <= stats'.batches_in
  BY <1>1, <1>5 DEF Account
<1> QED
  BY <1>7, <1>8, <1>9, <1>10 DEF Account

\* A piece is settled: written, or given up.
LEMMA AccountSettled ==
  ASSUME TypeOK, Account, NEW t \in Held, t.idx > 0, NEW e \in BOOLEAN,
         AckPiece(t, e), Strict /\ t.mark => e,
         Held' = Held \ {t}, stats'.batches_in = stats.batches_in,
         wrote' = IF e THEN wrote ELSE [wrote EXCEPT ![t.src] = @ \cup {t.idx}],
         \A b \in Batches : Blamed(b)' <=> Blamed(b),
         UNCHANGED <<split, dropped, errored>>
  PROVE  Account'
<1> DEFINE b == t.src
           O == OpenPieces(b)
           P == 1 .. split[b]
<1>1. /\ t \in Transactions /\ b \in Batches /\ b \in Read
      /\ t.idx \in O /\ Split(b)
      /\ \A u \in Held : u.src = b => u.idx > 0
  BY HeldBatch
<1>2. Read' = Read
  BY DEF Read
<1>3. ~Whole(b)' /\ OpenPieces(b)' = O \ {t.idx}
  <2>1. \A u \in Held : u.src = b /\ u.idx = t.idx => u = t
    BY DEF Account, SameKey
  <2> QED
    BY <1>1, <2>1 DEF Whole, OpenPieces
<1>4. /\ split[b] \in Nat /\ t.idx \in P
      /\ O \subseteq P /\ wrote[b] \subseteq P \ O
      /\ group[b] \in Groups
  BY <1>1 DEF Split, TypeOK
<1>5. /\ IsFiniteSet(O) /\ Cardinality(O) \in Nat \ {0}
      /\ Cardinality(O \ {t.idx}) = Cardinality(O) - 1
      /\ (O \ {t.idx} = {} <=> Cardinality(O) = 1)
  <2>1. IsFiniteSet(O) /\ Cardinality(O) \in Nat
    BY <1>4, PiecesFinite
  <2>2. Cardinality(O \ {t.idx}) = Cardinality(O) - 1
    BY <1>1, <2>1, FS_RemoveElement
  <2>3. Cardinality(O) # 0
    BY <1>1, <2>1, FS_EmptySet
  <2>4. IsFiniteSet(O \ {t.idx})
    BY <2>1, FS_RemoveElement
  <2>5. O \ {t.idx} = {} <=> Cardinality(O \ {t.idx}) = 0
    BY <2>4, FS_EmptySet
  <2> QED
    BY <2>1, <2>2, <2>3, <2>5
<1> HIDE DEF O
<1>6. ChildFires(group[b]) <=> O \ {t.idx} = {}
  BY <1>1, <1>5 DEF Split, ChildFires, O
<1>7. /\ group'[b] = ChildDone(group[b], e)
      /\ answers'[b] = IF ChildFires(group[b])
                       THEN Append(answers[b], Verdict(group'[b])) ELSE answers[b]
      /\ \A c \in Batches : c # b => group'[c] = group[c] /\ answers'[c] = answers[c]
  BY <1>1 DEF AckPiece, TypeOK
<1>8. /\ wrote'[b] = IF e THEN wrote[b] ELSE wrote[b] \cup {t.idx}
      /\ \A c \in Batches : c # b => wrote'[c] = wrote[c]
  BY <1>1 DEF TypeOK
<1>9. /\ wrote'[b] \subseteq P \ (O \ {t.idx})
      /\ group'[b].err <=> wrote'[b] # P \ (O \ {t.idx})
  <2>1. group'[b].err <=> group[b].err \/ e
    BY <1>4, <1>7 DEF ChildDone, Groups
  <2>2. group[b].err <=> wrote[b] # P \ O
    BY <1>1 DEF Split, O
  <2>3. P \ (O \ {t.idx}) = (P \ O) \cup {t.idx} /\ t.idx \notin wrote[b]
    BY <1>1, <1>4
  <2> QED
    <3>1. CASE e
      BY <1>4, <1>8, <2>1, <2>3, <3>1
    <3>2. CASE ~e
      <4>1. wrote'[b] = wrote[b] \cup {t.idx}
        BY <1>8, <3>2
      <4>2. wrote'[b] = P \ (O \ {t.idx}) <=> wrote[b] = P \ O
        BY <1>1, <2>3, <4>1
      <4> QED
        BY <1>4, <2>1, <2>2, <2>3, <3>2, <4>1, <4>2
    <3> QED
      BY <3>1, <3>2
<1>10. Strict /\ b \in errored => group'[b].err \/ Marked(b)'
  <2>1. group'[b].err <=> group[b].err \/ e
    BY <1>4, <1>7 DEF ChildDone, Groups
  <2>2. Strict /\ b \in errored => group[b].err \/ Marked(b)
    BY <1>1 DEF Split
  <2>3. Marked(b) => Marked(b)' \/ t.mark
    BY DEF Marked
  <2> QED
    BY <2>1, <2>2, <2>3
<1>11. answers[b] = <<>>
  BY <1>1 DEF Split
<1>12. Accounted(b)'
  <2>1. CASE O \ {t.idx} # {}
    <3>1. /\ group'[b].pending = Cardinality(O \ {t.idx})
          /\ group'[b].sealed /\ ~group'[b].fired
      BY <1>1, <1>4, <1>5, <1>6, <1>7, <2>1 DEF Split, ChildDone, Groups, O
    <3>2. OpenPieces(b)' \subseteq 1 .. split'[b] /\ split'[b] = split[b]
      BY <1>3, <1>4
    <3>3. Split(b)'
      BY <1>3, <1>6, <1>7, <1>9, <1>10, <1>11, <2>1, <3>1, <3>2 DEF Split
    <3> QED
      BY <1>1, <1>2, <1>3, <2>1, <3>3 DEF Accounted
  <2>2. CASE O \ {t.idx} = {}
    <3>1. answers'[b] = <<Verdict(group'[b])>>
      BY <1>6, <1>7, <1>11, <2>2
    <3>2. ~Marked(b)'
      BY <1>1, <1>3, <2>2 DEF Marked, OpenPieces
    <3>3. ~group'[b].err => wrote'[b] = P /\ split[b] > 0 /\ (Strict => b \notin errored)
      <4>1. P \ (O \ {t.idx}) = P /\ split[b] > 0
        BY <1>4, <2>2
      <4> QED
        BY <1>9, <1>10, <3>2, <4>1
    <3>4. answers'[b] = <<"ack">> => ~group'[b].err
      BY <3>1 DEF Verdict
    <3>5. Settled(b)'
      BY <3>1, <3>3, <3>4 DEF Settled, Verdict
    <3> QED
      BY <1>1, <1>2, <1>3, <2>2, <3>5 DEF Accounted
  <2> QED
    BY <2>1, <2>2
<1>13. ASSUME NEW c \in Batches, c # b
       PROVE  Accounted(c)'
  <2>1. /\ Whole(c)' <=> Whole(c)
        /\ OpenPieces(c)' = OpenPieces(c)
        /\ Marked(c)' <=> Marked(c)
    BY <1>13 DEF Whole, OpenPieces, Marked
  <2>2. Accounted(c) /\ (Blamed(c)' <=> Blamed(c))
    BY DEF Account
  <2>3. (Clean(c) => Clean(c)') /\ (Settled(c) => Settled(c)') /\ (Split(c) => Split(c)')
    BY <1>7, <1>8, <1>13, <2>1 DEF Clean, Settled, Split
  <2> QED
    BY <1>2, <1>13, <2>1, <2>2, <2>3 DEF Accounted
<1> QED
  BY <1>12, <1>13 DEF Account
-----------------------------------------------------------------------------
(* What a step does, seen from the source *)

\* How many acks were called.
Tally == stats.acks + stats.nacks

\* Nothing: transactions may have moved.
Moves == Held' = Held /\ UNCHANGED <<stats, answers, split, wrote>>

\* A batch was read.
Reads ==
  \E t : /\ t.src = stats.batches_in + 1 /\ t.idx = 0 /\ t.src \in Batches
         /\ Held' = Held \cup {t} /\ stats'.batches_in = stats.batches_in + 1
         /\ Tally' = Tally /\ UNCHANGED <<answers, split, wrote>>

\* A batch was answered as it was read.
Answers ==
  \E t \in Held, e \in BOOLEAN :
    /\ t.idx = 0 /\ AckSource(t.src, e)
    /\ Held' = Held \ {t} /\ stats'.batches_in = stats.batches_in /\ Tally' = Tally + 1
    /\ UNCHANGED <<split, wrote>>

\* A batch was split.
Splits ==
  \E t \in Held, bs \in Seq(BOOLEAN) :
    /\ t.idx = 0 /\ bs # <<>>
    /\ Held' = (Held \ {t}) \cup Pieces(t.src, bs)
    /\ split' = [split EXCEPT ![t.src] = Len(bs)]
    /\ UNCHANGED <<stats, answers, wrote>>

\* A piece was written, or given up.
Settles ==
  \E t \in Held, e \in BOOLEAN :
    /\ t.idx > 0 /\ AckPiece(t, e)
    /\ Held' = Held \ {t} /\ stats'.batches_in = stats.batches_in /\ Tally' = Tally + 1
    /\ wrote' = IF e THEN wrote ELSE [wrote EXCEPT ![t.src] = @ \cup {t.idx}]
    /\ UNCHANGED split

Event == Moves \/ Reads \/ Answers \/ Splits \/ Settles
-----------------------------------------------------------------------------
(* Steps that move no transaction *)

Places == <<in.slot, pipe.t, pipe.kids, out.t, writes, toPipeline, toOutput, toNack, launched>>

\* A step that moves no transaction keeps the line.
LEMMA StayPut ==
  ASSUME InOrder, Kinds, Apart, UNCHANGED Places
  PROVE  InOrder' /\ Kinds' /\ Apart' /\ Held' = Held
<1> USE DEF Places
<1>1. InOrder'
  BY DEF InOrder, InHand
<1>2. Kinds'
  BY DEF Kinds
<1>3. Apart'
  BY DEF Apart, OnLine
<1> QED
  BY <1>1, <1>2, <1>3 DEF Held

\* The account stands while its variables stand.
LEMMA AccountStill ==
  ASSUME Account, Held' = Held, UNCHANGED <<acking, split, wrote, dropped, errored>>,
         \A b \in Batches : Blamed(b)' <=> Blamed(b)
  PROVE  Account'
<1>1. Read' = Read
  BY DEF Read, acking
<1>2. ASSUME NEW b \in Batches
      PROVE  Accounted(b)'
  <2>1. /\ Whole(b)' <=> Whole(b)
        /\ OpenPieces(b)' = OpenPieces(b)
        /\ Marked(b)' <=> Marked(b)
    BY DEF Whole, OpenPieces, Marked
  <2>2. (Clean(b) => Clean(b)') /\ (Settled(b) => Settled(b)') /\ (Split(b) => Split(b)')
    BY <2>1 DEF Clean, Settled, Split, acking
  <2> QED
    BY <1>1, <2>1, <2>2 DEF Account, Accounted
<1> QED
  BY <1>2 DEF Account, acking

\* A step that changes neither a place, nor an account, nor what is in process.
LEMMA Still ==
  ASSUME IInv, UNCHANGED Places, UNCHANGED <<acking, history>>,
         pipe'.next = pipe.next, pipe'.pc = "proc" <=> pipe.pc = "proc",
         TypeOK', Shape'
  PROVE  IInv' /\ Event
<1>1. InOrder' /\ Kinds' /\ Apart' /\ Held' = Held
  BY StayPut DEF IInv
<1>2. \A b \in Batches : Blamed(b)' <=> Blamed(b)
  BY DEF Blamed, Places, HasError
<1>3. Account'
  BY <1>1, <1>2, AccountStill DEF IInv, history
<1>4. Event
  BY <1>1 DEF Event, Moves, acking, history
<1> QED
  BY <1>1, <1>3, <1>4 DEF IInv

\* start() launches layers that hold nothing yet.
LEMMA StartKeeps ==
  ASSUME IInv, Start
  PROVE  IInv' /\ Event
<1>1. UNCHANGED <<writes, queues, shutdown, acking, history>>
  BY DEF Start
<1>2. CASE UNCHANGED <<in, pipe, out>> /\ startPc' \in {"connect_out", "failed", "launched"}
  <2>1. UNCHANGED Places
    BY <1>1, <1>2 DEF Places, queues, shutdown, history
  <2>2. TypeOK'
    BY <1>1, <1>2 DEF IInv, TypeOK, queues, shutdown, acking, history
  <2>3. Shape'
    BY <1>1, <1>2 DEF IInv, Shape, Start, queues, shutdown, acking, history
  <2> QED
    BY <1>1, <1>2, <2>1, <2>2, <2>3, Still
<1>3. CASE Connected(FALSE)
  <2>1. /\ in' = [in EXCEPT !.pc = IF drain THEN "eos" ELSE "read"]
        /\ pipe' = IdlePipe("pop")
        /\ out' = [out EXCEPT !.pc = "pop"]
        /\ startPc = "connect_out" /\ startPc' = "launched"
    BY <1>3 DEF Connected
  <2>2. /\ in.pc = "idle" /\ pipe.pc = "idle" /\ out.pc = "idle"
        /\ in.slot = None /\ pipe.t = None /\ pipe.kids = <<>> /\ out.t = None
    BY <2>1 DEF IInv, Shape
  <2>3. in' \in [pc : InPcs, slot : Transactions \cup {None}] /\ in'.slot = None
        /\ in'.pc \in {"eos", "read"}
    BY <2>1, <2>2 DEF IInv, TypeOK, InPcs
  <2>4. out'.t = None /\ out'.pc = "pop" /\ out' \in [pc : OutPcs, t : Transactions \cup {None}]
    BY <2>1, <2>2 DEF IInv, TypeOK, OutPcs
  <2>5. /\ pipe' = [pc |-> "pop", t |-> None, stage |-> 0,
                    todo |-> <<>>, next |-> <<>>, kids |-> <<>>]
        /\ pipe' \in [pc : PipePcs, t : Transactions \cup {None}, stage : 0 .. NProcs,
               todo : Seq(BOOLEAN), next : Seq(BOOLEAN), kids : Seq(Transactions)]
    BY <2>1, StreamAssumption DEF IdlePipe, PipePcs
  <2>6. TypeOK'
    BY <1>1, <2>1, <2>3, <2>4, <2>5 DEF IInv, TypeOK, queues, shutdown, acking, history
  <2>7. UNCHANGED Places
    BY <1>1, <2>2, <2>3, <2>4, <2>5 DEF Places, queues, shutdown, history
  <2>8. Shape'
    BY <1>1, <2>1, <2>2, <2>3, <2>4, <2>5 DEF IInv, Shape, queues, shutdown, acking, history
  <2>9. InOrder' /\ Kinds' /\ Apart' /\ Held' = Held
    BY <2>7, StayPut DEF IInv
  <2>10. \A b \in Batches : Blamed(b)' <=> Blamed(b)
    BY <2>2, <2>5 DEF Blamed
  <2>11. Account'
    BY <1>1, <2>9, <2>10, AccountStill DEF IInv, history
  <2>12. Event
    BY <1>1, <2>9 DEF Event, Moves, acking, history
  <2> QED
    BY <2>6, <2>8, <2>9, <2>11, <2>12 DEF IInv
<1>4. CASE Connected(TRUE)
  BY <1>2, <1>4 DEF Connected
<1> QED
  BY <1>2, <1>3, <1>4 DEF Start, IInv, TypeOK, Connected

\* The steps of the layers that touch no transaction.
LEMMA LayerStepsKeep ==
  ASSUME IInv, InputEnd \/ (aborted /\ InputEos) \/ (aborted /\ PipeEos) \/ (aborted /\ PipePop)
                 \/ (aborted /\ OutPop) \/ OutDrain \/ OutClose
  PROVE  IInv' /\ Event
<1> USE DEF queues, shutdown, acking, history
<1>1. CASE InputEnd \/ (aborted /\ InputEos)
  <2>1. /\ in'.slot = in.slot /\ in.pc \in {"read", "eos"} /\ in'.pc \in {"eos", "done"}
        /\ in' \in [pc : InPcs, slot : Transactions \cup {None}]
        /\ UNCHANGED <<startPc, pipe, out, writes, queues, shutdown, acking, history>>
    BY <1>1 DEF InputEnd, InputEos, PushEos, IInv, TypeOK, InPcs
  <2>2. TypeOK'
    BY <2>1 DEF IInv, TypeOK
  <2>3. Shape'
    BY <2>1 DEF IInv, Shape
  <2> QED
    BY <2>1, <2>2, <2>3, Still DEF Places
<1>2. CASE aborted /\ (PipeEos \/ PipePop)
  <2>1. /\ pipe.pc \in {"eos", "pop"}
        /\ pipe' = [pc |-> IF pipe.pc = "eos" THEN "done" ELSE "eos", t |-> None, stage |-> 0,
                    todo |-> <<>>, next |-> <<>>, kids |-> <<>>]
        /\ UNCHANGED <<startPc, in, out, writes, queues, shutdown, acking, history>>
    BY <1>2 DEF PipeEos, PipePop, PushEos, IdlePipe
  <2>2. pipe.t = None /\ pipe.kids = <<>>
    BY <2>1 DEF IInv, Shape
  <2>3. pipe' \in [pc : PipePcs, t : Transactions \cup {None}, stage : 0 .. NProcs,
               todo : Seq(BOOLEAN), next : Seq(BOOLEAN), kids : Seq(Transactions)]
    BY <2>1, StreamAssumption DEF PipePcs
  <2>4. TypeOK'
    BY <2>1, <2>3 DEF IInv, TypeOK
  <2>5. Shape'
    BY <2>1, <2>2 DEF IInv, Shape
  <2>6. UNCHANGED Places
    BY <2>1, <2>2 DEF Places
  <2>7. InOrder' /\ Kinds' /\ Apart' /\ Held' = Held
    BY <2>6, StayPut DEF IInv
  <2>8. \A b \in Batches : Blamed(b)' <=> Blamed(b)
    BY <2>1 DEF Blamed
  <2>9. Account'
    BY <2>1, <2>7, <2>8, AccountStill DEF IInv
  <2> QED
    BY <2>1, <2>4, <2>5, <2>7, <2>9 DEF IInv, Event, Moves
<1>3. CASE (aborted /\ OutPop) \/ OutDrain \/ OutClose
  <2>1. /\ out'.t = out.t /\ out.pc \in {"pop", "drain", "close"}
        /\ out'.pc \in {"drain", "close", "done"}
        /\ out' \in [pc : OutPcs, t : Transactions \cup {None}]
        /\ finished' \in {finished, TRUE}
        /\ UNCHANGED <<startPc, in, pipe, writes, queues, drain, stopNow, stopPc, toNack,
                       gateClosed, closed, acking, history>>
    BY <1>3 DEF OutPop, OutDrain, OutClose, IInv, TypeOK, OutPcs
  <2>2. TypeOK'
    BY <2>1 DEF IInv, TypeOK
  <2>3. Shape'
    BY <2>1 DEF IInv, Shape
  <2> QED
    BY <2>1, <2>2, <2>3, Still DEF Places
<1> QED
  BY <1>1, <1>2, <1>3

\* The steps of stop, stop_now and do_stop that touch no transaction.
LEMMA ShutdownStepsKeep ==
  ASSUME IInv, RequestDrain \/ StopGracefully \/ GracefulDone \/ CloseGate \/ ForcedDone
                 \/ CloseComponents \/ Stopped
  PROVE  IInv' /\ Event
<1> USE DEF queues, shutdown, acking, history
<1>1. UNCHANGED <<startPc, in, pipe, out, writes, queues, toNack, acking, history>>
  BY DEF RequestDrain, StopGracefully, GracefulDone, CloseGate, ForcedDone,
         CloseComponents, Stopped, vars
<1>2. /\ stopPc' \in StopPcs /\ (stopPc' \notin {"yield", "nack"} => toNack = <<>>)
      /\ {drain', stopNow', gateClosed', finished'} \subseteq BOOLEAN
      /\ closed' \in SUBSET {"close_in", "close_procs", "close_out"}
  <2>1. CASE RequestDrain
    BY <2>1 DEF RequestDrain, IInv, TypeOK, Shape
  <2>2. CASE StopGracefully
    BY <2>2 DEF StopGracefully, IInv, TypeOK, Shape, StopPcs
  <2>3. CASE GracefulDone
    BY <2>3 DEF GracefulDone, IInv, TypeOK, Shape, StopPcs
  <2>4. CASE CloseGate
    BY <2>4 DEF CloseGate, IInv, TypeOK, StopPcs
  <2>5. CASE ForcedDone
    BY <2>5 DEF ForcedDone, IInv, TypeOK, Shape, StopPcs
  <2>6. CASE CloseComponents
    <3>1. PICK i \in 1 .. 3 : /\ stopPc = CloseOrder[i] /\ stopPc' = CloseOrder[i + 1]
                              /\ closed' = closed \cup {CloseOrder[i]}
                              /\ UNCHANGED <<drain, stopNow, gateClosed, finished>>
      BY <2>6 DEF CloseComponents
    <3>2. CloseOrder[i] \in {"close_in", "close_procs", "close_out"}
          /\ CloseOrder[i + 1] \in {"close_procs", "close_out", "stopped"}
      BY DEF CloseOrder
    <3> QED
      BY <3>1, <3>2 DEF IInv, TypeOK, Shape, StopPcs
  <2>7. CASE Stopped
    BY <2>7 DEF Stopped, vars, IInv, TypeOK, Shape
  <2> QED
    BY <2>1, <2>2, <2>3, <2>4, <2>5, <2>6, <2>7
<1>3. TypeOK'
  BY <1>1, <1>2 DEF IInv, TypeOK
<1>4. Shape'
  BY <1>1, <1>2 DEF IInv, Shape
<1> QED
  BY <1>1, <1>3, <1>4, Still DEF Places
-----------------------------------------------------------------------------
(* input_loop *)

\* Whatever the stream holds, or has launched, was read.
LEMMA HeldWasRead ==
  ASSUME IInv
  PROVE  /\ \A t \in Held \cup {launched} : Real(t) => t.src <= stats.batches_in
         /\ \A t \in Held : t \in Transactions /\ Real(t) /\ t.src \in Nat
         /\ stats.batches_in \in Nat
<1>1. TypeOK /\ Account /\ Shape
  BY DEF IInv
<1>2. stats.batches_in \in Nat
  BY <1>1 DEF TypeOK
<1>3. \A t \in Held : t \in Transactions /\ Real(t) /\ t.src \in Nat
  BY <1>1, HeldIsReal DEF Transactions, Batches
<1> QED
  BY <1>1, <1>2, <1>3 DEF Account, Shape

\* A batch read is the last of the line.
LEMMA InputReadKeeps ==
  ASSUME IInv, InputRead
  PROVE  IInv' /\ Event
<1> USE DEF queues, shutdown, history
<1>1. PICK m \in Marks :
        in' = [pc |-> NotFull(toPipeline),
               slot |-> [src |-> stats.batches_in + 1, idx |-> 0, mark |-> m]]
  BY DEF InputRead
<1> DEFINE t == [src |-> stats.batches_in + 1, idx |-> 0, mark |-> m]
<1>2. /\ in.pc = "read" /\ stats.batches_in < NBatches
      /\ stats' = [stats EXCEPT !.batches_in = @ + 1]
      /\ UNCHANGED <<startPc, pipe, out, writes, queues, shutdown, group, answers, history>>
  BY DEF InputRead
<1>3. in.slot = None
  BY <1>2 DEF IInv, Shape
<1>4. /\ stats.batches_in \in Nat /\ NBatches \in Nat
      /\ stats' \in [batches_in : 0 .. NBatches, acks : Nat, nacks : Nat, filtered : Nat]
      /\ stats'.batches_in = stats.batches_in + 1 /\ Tally' = Tally
  <2>1. stats \in [batches_in : 0 .. NBatches, acks : Nat, nacks : Nat, filtered : Nat]
    BY DEF IInv, TypeOK
  <2> QED
    BY <1>2, <2>1, StreamAssumption DEF Tally
<1>5. t \in Transactions /\ t.src = stats.batches_in + 1 /\ t.idx = 0 /\ t.src \in Batches
      /\ t # None /\ t # EndOfStream
  <2>1. stats.batches_in + 1 \in Batches
    BY <1>2, <1>4 DEF Batches
  <2>2. m \in BOOLEAN
    BY DEF Marks
  <2>3. t \in Transactions /\ t.src = stats.batches_in + 1 /\ t.idx = 0
    BY <2>1, <2>2 DEF Transactions
  <2> QED
    BY <2>1, <2>3, HeldIsReal DEF IInv
<1>6. in'.slot = t /\ in'.pc \in {"nack", "wait", "ready"}
      /\ in' \in [pc : InPcs, slot : Transactions \cup {None}]
  BY <1>1, <1>5 DEF NotFull, InPcs
<1> HIDE DEF t
<1>7. TypeOK'
  BY <1>2, <1>4, <1>6 DEF IInv, TypeOK
<1>8. Shape'
  <2>1. launched.src \in Nat
    BY DEF IInv, TypeOK, Transactions, Batches, None
  <2> QED
    BY <1>2, <1>4, <1>5, <1>6, <2>1 DEF IInv, Shape
<1>9. Held' = Held \cup {t} /\ OnLine' = OnLine \cup {t}
  BY <1>2, <1>3, <1>5, <1>6 DEF Held, OnLine
<1>10. \A s \in Held \cup {launched} : Real(s) => s.src < t.src /\ Before(s, t)
  <2>1. launched \in Transactions \cup {None}
    BY DEF IInv, TypeOK
  <2>2. launched.src \in Nat
    BY <2>1 DEF Transactions, Batches, None
  <2> QED
    BY <1>4, <1>5, <2>2, HeldWasRead DEF Before
<1>11. \A s \in {launched, out.t} \cup Range(toOutput) \cup InHand \cup Range(toPipeline) :
         Real(s) => s \in Held \cup {launched}
  BY DEF Held, InHand, Real, None, EndOfStream
<1>12. InOrder'
  <2>1. Precede({launched, out.t} \cup Range(toOutput) \cup InHand \cup Range(toPipeline), {t})
    BY <1>10, <1>11 DEF Precede
  <2> QED
    BY <1>2, <1>6, <2>1 DEF IInv, InOrder, InHand, Precede
<1>13. Kinds'
  BY <1>2, <1>5, <1>6 DEF IInv, Kinds
<1>14. Apart'
  <2>1. \A s \in Range(toNack) : s \in Held
    BY DEF Held, IInv, TypeOK, Range, Transactions, Batches, None, EndOfStream
  <2>2. \A s \in Range(toNack) : ~SameKey(s, t)
    BY <2>1, <1>4, <1>10, HeldWasRead DEF SameKey
  <2> QED
    BY <1>2, <1>9, <2>2 DEF IInv, Apart
<1>15. Account'
  BY <1>2, <1>4, <1>5, <1>9, AccountRead DEF IInv
<1>16. Event
  BY <1>2, <1>4, <1>5, <1>9 DEF Event, Reads
<1> QED
  BY <1>7, <1>8, <1>12, <1>13, <1>14, <1>15, <1>16 DEF IInv

\* The batch read passes from the slot to the end of the first queue.
LEMMA InputPushKeeps ==
  ASSUME IInv, InputPush
  PROVE  IInv' /\ Event
<1> USE DEF queues, shutdown, history, acking
<1>1. /\ in.pc = "ready" /\ toPipeline' = Append(toPipeline, in.slot)
      /\ in' = [pc |-> IF drain THEN "eos" ELSE "read", slot |-> None]
      /\ UNCHANGED <<startPc, pipe, out, writes, toOutput, aborted, shutdown, acking, history>>
  BY DEF InputPush
<1>2. toPipeline \in Seq(Slots) /\ in.slot \in Transactions
      /\ EndOfStream \notin Range(toPipeline) /\ in.slot # None /\ in.slot # EndOfStream
  BY <1>1, HeldIsReal DEF IInv, TypeOK, Shape
<1>3. Range(toPipeline') = Range(toPipeline) \cup {in.slot}
  BY <1>1, <1>2, RangeAppend
<1>4. \A s \in Range(toPipeline) : s \in Transactions /\ Real(s)
  BY <1>2, HeldIsReal DEF IInv, TypeOK, Range, Slots
<1>5. Sorted(toPipeline')
  BY <1>1, <1>2, <1>4, SortedAppend DEF IInv, InOrder
<1>6. in' \in [pc : InPcs, slot : Transactions \cup {None}] /\ toPipeline' \in Seq(Slots)
      /\ in'.slot = None /\ in'.pc \in {"eos", "read"}
  BY <1>1, <1>2 DEF InPcs, Slots
<1>7. TypeOK'
  BY <1>1, <1>6 DEF IInv, TypeOK
<1>8. Shape'
  BY <1>1, <1>2, <1>3, <1>6 DEF IInv, Shape
<1>9. Held' = Held /\ OnLine' = OnLine
  BY <1>1, <1>2, <1>3, <1>6 DEF Held, OnLine
<1>10. InOrder'
  BY <1>1, <1>3, <1>5, <1>6 DEF IInv, InOrder, InHand, Precede, Real, None
<1>11. Kinds'
  BY <1>1, <1>2, <1>3, <1>6 DEF IInv, Kinds, None
<1>12. Apart'
  BY <1>1, <1>9 DEF IInv, Apart
<1>13. \A b \in Batches : Blamed(b)' <=> Blamed(b)
  BY <1>1 DEF Blamed
<1>14. Account'
  BY <1>1, <1>9, <1>13, AccountStill DEF IInv
<1>15. Event
  BY <1>1, <1>9 DEF Event, Moves
<1> QED
  BY <1>7, <1>8, <1>10, <1>11, <1>12, <1>14, <1>15 DEF IInv

\* The end of the stream is pushed by a layer that pushes nothing after it.
LEMMA InputEosKeeps ==
  ASSUME IInv, InputEos, ~aborted
  PROVE  IInv' /\ Event
<1> USE DEF queues, shutdown, history, acking
<1>1. /\ in.pc = "eos" /\ toPipeline' = Append(toPipeline, EndOfStream)
      /\ in' = [in EXCEPT !.pc = "done"]
      /\ UNCHANGED <<startPc, pipe, out, writes, toOutput, aborted, shutdown, acking, history>>
  BY DEF InputEos, PushEos
<1>2. toPipeline \in Seq(Slots) /\ EndOfStream \notin Range(toPipeline)
  BY <1>1 DEF IInv, TypeOK, Shape
<1>3. Range(toPipeline') = Range(toPipeline) \cup {EndOfStream}
  BY <1>1, <1>2, RangeAppend
<1>4. \A s \in Range(toPipeline) : Real(s)
  BY <1>2, HeldIsReal DEF IInv, TypeOK, Range, Slots
<1>5. ~Real(EndOfStream)
  BY DEF Real, EndOfStream
<1>6. Sorted(toPipeline')
  BY <1>1, <1>2, <1>4, <1>5, SortedAppend DEF IInv, InOrder, Precede
<1>7. in' \in [pc : InPcs, slot : Transactions \cup {None}] /\ toPipeline' \in Seq(Slots)
      /\ in'.slot = in.slot /\ in'.pc = "done"
  <2>1. in \in [pc : InPcs, slot : Transactions \cup {None}]
    BY DEF IInv, TypeOK
  <2> QED
    BY <1>1, <1>2, <2>1 DEF InPcs, Slots
<1>8. TypeOK'
  BY <1>1, <1>7 DEF IInv, TypeOK
<1>9. Shape'
  BY <1>1, <1>2, <1>3, <1>7 DEF IInv, Shape
<1>10. Held' = Held /\ OnLine' = OnLine
  BY <1>1, <1>3, <1>7 DEF Held, OnLine
<1>11. InOrder'
  BY <1>1, <1>3, <1>5, <1>6, <1>7 DEF IInv, InOrder, InHand, Precede
<1>12. Kinds'
  BY <1>1, <1>3, <1>7 DEF IInv, Kinds
<1>13. Apart'
  BY <1>1, <1>10 DEF IInv, Apart
<1>14. \A b \in Batches : Blamed(b)' <=> Blamed(b)
  BY <1>1 DEF Blamed
<1>15. Account'
  BY <1>1, <1>10, <1>14, AccountStill DEF IInv
<1>16. Event
  BY <1>1, <1>10 DEF Event, Moves
<1> QED
  BY <1>8, <1>9, <1>11, <1>12, <1>13, <1>15, <1>16 DEF IInv

\* The batch in the slot is nacked whole when the queue was aborted.
LEMMA InputNackKeeps ==
  ASSUME IInv, InputNack
  PROVE  IInv' /\ Event
<1> USE DEF queues, shutdown, history
<1> DEFINE t == in.slot
<1>1. /\ in.pc = "nack" /\ in' = [pc |-> "eos", slot |-> None]
      /\ CallAck(t, TRUE) /\ stats' = [stats EXCEPT !.nacks = @ + 1]
      /\ UNCHANGED <<startPc, pipe, out, writes, queues, shutdown, history>>
  BY DEF InputNack, Nack
<1>2. t \in Transactions /\ t.idx = 0 /\ t # None /\ t # EndOfStream
  BY <1>1, HeldIsReal DEF IInv, TypeOK, Shape, Kinds
<1>3. AckSource(t.src, TRUE)
  BY <1>1, <1>2 DEF CallAck
<1>4. /\ t \in Held /\ t \in OnLine
      /\ t \notin {pipe.t, out.t} \cup writes \cup Range(toPipeline) \cup Range(toOutput)
                    \cup Range(pipe.kids) \cup Range(toNack)
  <2>1. Real(t) /\ ~Before(t, t)
    BY <1>2, HeldIsReal DEF IInv, Before, Transactions, Batches
  <2>2. t \in Held /\ t \in OnLine
    BY <1>2 DEF Held, OnLine
  <2>3. t \notin {pipe.t, out.t} \cup Range(toPipeline) \cup Range(toOutput) \cup Range(pipe.kids)
    BY <2>1 DEF IInv, InOrder, Precede, InHand
  <2>4. t \notin writes
    BY <1>2 DEF IInv, Kinds
  <2>5. t \notin Range(toNack)
    BY <2>2 DEF IInv, Apart, SameKey
  <2> QED
    BY <2>2, <2>3, <2>4, <2>5
<1>5. in'.slot = None /\ in'.pc = "eos" /\ in' \in [pc : InPcs, slot : Transactions \cup {None}]
  BY <1>1 DEF InPcs
<1>6. /\ stats' \in [batches_in : 0 .. NBatches, acks : Nat, nacks : Nat, filtered : Nat]
      /\ stats'.batches_in = stats.batches_in /\ Tally' = Tally + 1
  <2>1. stats \in [batches_in : 0 .. NBatches, acks : Nat, nacks : Nat, filtered : Nat]
    BY DEF IInv, TypeOK
  <2> QED
    BY <1>1, <2>1 DEF Tally
<1>7. UNCHANGED group /\ answers' \in [Batches -> Seq({"ack", "nack"})]
  BY <1>2, <1>3 DEF AckSource, IInv, TypeOK, Transactions
<1> HIDE DEF t
<1>8. Held' = Held \ {t} /\ OnLine' = OnLine \ {t}
  BY <1>1, <1>4, <1>5 DEF Held, OnLine, t
<1>9. TypeOK'
  BY <1>1, <1>5, <1>6, <1>7 DEF IInv, TypeOK
<1>10. Shape'
  BY <1>1, <1>5, <1>6 DEF IInv, Shape
<1>11. InOrder'
  BY <1>1, <1>5 DEF IInv, InOrder, InHand, Precede, Real, None
<1>12. Kinds'
  BY <1>1, <1>5 DEF IInv, Kinds, None
<1>13. Apart'
  BY <1>1, <1>8 DEF IInv, Apart
<1>14. \A b \in Batches : Blamed(b)' <=> Blamed(b)
  BY <1>1 DEF Blamed
<1>15. Account'
  BY <1>1, <1>2, <1>3, <1>4, <1>6, <1>8, <1>14, AccountAnswered DEF IInv
<1>16. Event
  BY <1>1, <1>2, <1>3, <1>4, <1>6, <1>8 DEF Event, Answers
<1> QED
  BY <1>9, <1>10, <1>11, <1>12, <1>13, <1>15, <1>16 DEF IInv
-----------------------------------------------------------------------------
(* pipeline_loop *)

PipeType == [pc : PipePcs, t : Transactions \cup {None}, stage : 0 .. NProcs,
             todo : Seq(BOOLEAN), next : Seq(BOOLEAN), kids : Seq(Transactions)]

\* A pipeline that holds nothing, at a given place.
LEMMA IdlePipeType ==
  ASSUME NEW pc \in PipePcs
  PROVE  /\ IdlePipe(pc) \in PipeType
         /\ IdlePipe(pc).pc = pc /\ IdlePipe(pc).t = None /\ IdlePipe(pc).kids = <<>>
         /\ IdlePipe(pc).next = <<>>
         /\ IdlePipe(pc) = [pc |-> pc, t |-> None, stage |-> 0,
                            todo |-> <<>>, next |-> <<>>, kids |-> <<>>]
BY StreamAssumption DEF IdlePipe, PipeType

\* A woken producer keeps what it holds.
LEMMA WokenInput ==
  ASSUME IInv, in' = Woken(in)
  PROVE  /\ in' \in [pc : InPcs, slot : Transactions \cup {None}]
         /\ in'.slot = in.slot /\ (in.pc # "wait" => in' = in)
         /\ in'.pc \in {"wait", "ready", "nack"} <=> in.pc \in {"wait", "ready", "nack"}
<1>1. in \in [pc : InPcs, slot : Transactions \cup {None}]
  BY DEF IInv, TypeOK
<1>2. CASE in.pc = "wait"
  BY <1>1, <1>2 DEF Woken, InPcs
<1>3. CASE in.pc # "wait"
  BY <1>1, <1>3 DEF Woken
<1> QED
  BY <1>2, <1>3

\* Waking the pipeline moves nothing.
LEMMA WokenPipe ==
  ASSUME IInv, pipe' = Woken(pipe)
  PROVE  /\ pipe' \in PipeType
         /\ pipe'.t = pipe.t /\ pipe'.stage = pipe.stage /\ pipe'.todo = pipe.todo
         /\ pipe'.next = pipe.next /\ pipe'.kids = pipe.kids
         /\ (pipe.pc # "wait" => pipe' = pipe)
         /\ pipe'.pc \in {"wait", "ready", "nack"} <=> pipe.pc \in {"wait", "ready", "nack"}
         /\ pipe'.pc = "proc" <=> pipe.pc = "proc"
<1>1. pipe \in PipeType
  BY DEF IInv, TypeOK, PipeType
<1>2. CASE pipe.pc = "wait"
  BY <1>1, <1>2 DEF Woken, PipeType, PipePcs
<1>3. CASE pipe.pc # "wait"
  BY <1>1, <1>3 DEF Woken
<1> QED
  BY <1>2, <1>3

\* The pipeline ends, with the end of the stream or with the abort.
LEMMA PipePopEosKeeps ==
  ASSUME IInv, PipePop, ~aborted, Head(toPipeline) = EndOfStream
  PROVE  IInv' /\ Event
<1> USE DEF queues, shutdown, history, acking
<1>1. /\ pipe.pc = "pop" /\ toPipeline # <<>> /\ toPipeline' = Tail(toPipeline)
      /\ in' = Woken(in) /\ pipe' = IdlePipe("eos")
      /\ UNCHANGED <<startPc, out, writes, toOutput, aborted, shutdown, acking, history>>
  BY DEF PipePop
<1>2. toPipeline \in Seq(Slots) /\ toPipeline' \in Seq(Slots) /\ Sorted(toPipeline)
  BY <1>1 DEF IInv, TypeOK, InOrder
<1>3. Range(toPipeline) = Range(toPipeline') \cup {EndOfStream}
  BY <1>1, <1>2, RangeTail
<1>4. Sorted(toPipeline')
  BY <1>1, <1>2, SortedTail
<1>5. pipe.t = None /\ pipe.kids = <<>>
  BY <1>1 DEF IInv, Shape
<1>6. pipe' \in PipeType /\ pipe'.t = None /\ pipe'.kids = <<>> /\ pipe'.pc = "eos"
  BY <1>1, IdlePipeType DEF PipePcs
<1>7. TypeOK'
  BY <1>1, <1>2, <1>6, WokenInput DEF IInv, TypeOK, PipeType
<1>8. Shape'
  BY <1>1, <1>3, <1>6, WokenInput DEF IInv, Shape
<1>9. Held' = Held /\ OnLine' = OnLine
  BY <1>1, <1>3, <1>5, <1>6, WokenInput DEF Held, OnLine
<1>10. InOrder'
  BY <1>1, <1>3, <1>4, <1>5, <1>6, WokenInput DEF IInv, InOrder, InHand, Precede
<1>11. Kinds'
  BY <1>1, <1>3, <1>5, <1>6, WokenInput DEF IInv, Kinds
<1>12. Apart'
  BY <1>1, <1>9 DEF IInv, Apart
<1>13. \A b \in Batches : Blamed(b)' <=> Blamed(b)
  BY <1>1, <1>6 DEF Blamed
<1>14. Account'
  BY <1>1, <1>9, <1>13, AccountStill DEF IInv
<1>15. Event
  BY <1>1, <1>9 DEF Event, Moves
<1> QED
  BY <1>7, <1>8, <1>10, <1>11, <1>12, <1>14, <1>15 DEF IInv

\* The transaction at the head of the input's queue, when the pipeline takes it.
LEMMA HeadOfQueue ==
  ASSUME IInv, toPipeline # <<>>, Head(toPipeline) # EndOfStream,
         in'.slot = in.slot, toPipeline' = Tail(toPipeline)
  PROVE  LET t == Head(toPipeline) IN
         /\ t \in Transactions /\ t.idx = 0 /\ t \in OnLine /\ t \in Held
         /\ t # None /\ t # EndOfStream /\ Real(t) /\ ~Before(t, t)
         /\ toPipeline' \in Seq(Slots) /\ Sorted(toPipeline')
         /\ Range(toPipeline) = Range(toPipeline') \cup {t}
         /\ Precede({launched}, {t}) /\ Precede({out.t}, {t}) /\ Precede(Range(toOutput), {t})
         /\ Precede({t}, Range(toPipeline')) /\ Precede({t}, {in'.slot})
<1> DEFINE t == Head(toPipeline)
<1>1. toPipeline \in Seq(Slots) /\ toPipeline' \in Seq(Slots) /\ Sorted(toPipeline)
  BY DEF IInv, TypeOK, InOrder
<1>2. Range(toPipeline) = Range(toPipeline') \cup {t}
  BY <1>1, RangeTail
<1>3. Sorted(toPipeline') /\ Precede({t}, Range(toPipeline'))
  BY <1>1, SortedTail
<1>4. t \in Transactions /\ t.idx = 0
  BY <1>2 DEF IInv, Kinds
<1>5. t # None /\ t # EndOfStream /\ Real(t) /\ ~Before(t, t)
  <2>1. t # None /\ t # EndOfStream /\ Real(t)
    BY <1>4, HeldIsReal DEF IInv
  <2>2. t.src \in Nat /\ t.idx \in Nat
    BY <1>4 DEF Transactions, Batches
  <2> QED
    BY <2>1, <2>2 DEF Before
<1>6. t \in OnLine /\ t \in Held
  BY <1>2, <1>5 DEF OnLine, Held
<1>7. /\ Precede({launched}, {t}) /\ Precede({out.t}, {t}) /\ Precede(Range(toOutput), {t})
      /\ Precede({t}, {in.slot})
  BY <1>2 DEF IInv, InOrder, Precede
<1> QED
  BY <1>1, <1>2, <1>3, <1>4, <1>5, <1>6, <1>7

\* A batch popped goes to the first processor.
LEMMA PipePopProcKeeps ==
  ASSUME IInv, PipePop, ~aborted, Head(toPipeline) # EndOfStream, NProcs > 0
  PROVE  IInv' /\ Event
<1> USE DEF queues, shutdown, history, acking
<1> DEFINE t == Head(toPipeline)
<1>1. /\ pipe.pc = "pop" /\ toPipeline # <<>> /\ toPipeline' = Tail(toPipeline)
      /\ in' = Woken(in)
      /\ pipe' = [IdlePipe("proc") EXCEPT !.t = t, !.stage = 1, !.todo = <<t.mark>>]
      /\ UNCHANGED <<startPc, out, writes, toOutput, aborted, shutdown, acking, history>>
  BY DEF PipePop
<1>2. pipe.t = None /\ pipe.kids = <<>>
  BY <1>1 DEF IInv, Shape
<1>3. in'.slot = in.slot
  BY <1>1, WokenInput
<1>4. /\ t \in Transactions /\ t.idx = 0 /\ t \in OnLine /\ t \in Held
      /\ t # None /\ t # EndOfStream /\ Real(t) /\ ~Before(t, t)
      /\ toPipeline' \in Seq(Slots) /\ Sorted(toPipeline')
      /\ Range(toPipeline) = Range(toPipeline') \cup {t}
      /\ Precede({launched}, {t}) /\ Precede({out.t}, {t}) /\ Precede(Range(toOutput), {t})
      /\ Precede({t}, Range(toPipeline')) /\ Precede({t}, {in'.slot})
  BY <1>1, <1>3, HeadOfQueue
<1> HIDE DEF t
<1>5. /\ pipe' \in PipeType /\ pipe'.pc = "proc" /\ pipe'.t = t /\ pipe'.stage = 1
      /\ pipe'.todo = <<t.mark>> /\ pipe'.next = <<>> /\ pipe'.kids = <<>>
  <2>1. pipe' = [pc |-> "proc", t |-> t, stage |-> 1, todo |-> <<t.mark>>,
                 next |-> <<>>, kids |-> <<>>]
    BY <1>1 DEF IdlePipe
  <2>2. t.mark \in BOOLEAN
    BY <1>4 DEF Transactions
  <2>3. 1 \in 0 .. NProcs
    BY StreamAssumption
  <2> QED
    BY <1>4, <2>1, <2>2, <2>3 DEF PipeType, PipePcs
<1>6. TypeOK'
  BY <1>1, <1>4, <1>5, WokenInput DEF IInv, TypeOK, PipeType
<1>7. 1 \in 1 .. NProcs /\ <<t.mark>> # <<>>
  BY StreamAssumption
<1>8. Shape'
  BY <1>1, <1>2, <1>4, <1>5, <1>7, WokenInput DEF IInv, Shape
<1>9. Range(<<>>) = {}
  BY DEF Range
<1>10. Held' = Held /\ OnLine' = OnLine
  BY <1>1, <1>2, <1>3, <1>4, <1>5, <1>9 DEF Held, OnLine
<1>11. InOrder'
  <2>1. InHand' = {t}
    BY <1>5, <1>9 DEF InHand
  <2>2. Sorted(pipe'.kids)
    BY <1>5 DEF Sorted
  <2>3. Precede({launched}, Range(toPipeline')) /\ Precede({out.t}, Range(toPipeline'))
        /\ Precede(Range(toOutput), Range(toPipeline')) /\ Precede(Range(toPipeline'), {in.slot})
    BY <1>4 DEF IInv, InOrder, Precede
  <2> QED
    BY <1>1, <1>3, <1>4, <2>1, <2>2, <2>3 DEF IInv, InOrder
<1>12. Kinds'
  BY <1>1, <1>3, <1>4, <1>5, <1>9 DEF IInv, Kinds
<1>13. Apart'
  BY <1>1, <1>10 DEF IInv, Apart
<1>14. \A b \in Batches : Blamed(b)' <=> Blamed(b)
  <2>1. ~HasError(pipe'.next)
    BY <1>5 DEF HasError
  <2> QED
    BY <1>1, <2>1 DEF Blamed
<1>15. Account'
  BY <1>1, <1>10, <1>14, AccountStill DEF IInv
<1>16. Event
  BY <1>1, <1>10 DEF Event, Moves
<1> QED
  BY <1>6, <1>8, <1>11, <1>12, <1>13, <1>15, <1>16 DEF IInv

\* Where a push waits, whatever the queue.
LEMMA NotFullPc == NotFull(toOutput) \in {"nack", "wait", "ready"}
BY DEF NotFull

\* The children are in order, where the batch they were made of was.
LEMMA KidsInLine ==
  ASSUME NEW t \in Transactions, t.idx = 0, NEW bs \in Seq(BOOLEAN), bs # <<>>,
         NEW kids,
         kids = [i \in DOMAIN bs |-> [src |-> t.src, idx |-> i, mark |-> bs[i]]]
  PROVE  /\ kids \in Seq(Transactions) /\ kids # <<>> /\ Sorted(kids)
         /\ Range(kids) = Pieces(t.src, bs)
         /\ \A p \in Pieces(t.src, bs) : p \in Transactions /\ p.src = t.src /\ p.idx > 0
         /\ \A s \in Transactions, p \in Pieces(t.src, bs) : Before(s, t) => Before(s, p)
         /\ \A u \in Transactions, p \in Pieces(t.src, bs) :
              u.idx = 0 /\ Before(t, u) => Before(p, u)
<1>1. DOMAIN bs = 1 .. Len(bs) /\ Len(bs) \in Nat \ {0}
  OBVIOUS
<1>2. \A i \in DOMAIN bs : bs[i] \in BOOLEAN /\ i \in Nat /\ i > 0
  BY <1>1
<1>3. t.src \in Nat /\ t.src > 0 /\ t.src \in Batches
  BY DEF Transactions, Batches
<1>4. \A i \in DOMAIN bs : [src |-> t.src, idx |-> i, mark |-> bs[i]] \in Transactions
  BY <1>2, <1>3 DEF Transactions
<1>5. kids \in Seq(Transactions) /\ DOMAIN kids = DOMAIN bs
  <2>1. kids \in [1 .. Len(bs) -> Transactions]
    BY <1>1, <1>4
  <2> QED
    BY <1>1, <2>1
<1>6. kids # <<>>
  BY <1>1, <1>5
<1>7. Range(kids) = Pieces(t.src, bs)
  BY <1>5 DEF Range, Pieces
<1>8. Sorted(kids)
  <2>1. \A i \in DOMAIN kids : kids[i].src = t.src /\ kids[i].idx = i
    BY <1>5
  <2> QED
    BY <1>3, <2>1 DEF Sorted, Real, Before
<1>9. \A p \in Pieces(t.src, bs) : p \in Transactions /\ p.src = t.src /\ p.idx > 0
  BY <1>2, <1>4 DEF Pieces
<1>10. \A s \in Transactions : s.src \in Nat /\ s.idx \in Nat
  BY DEF Transactions, Batches
<1> QED
  BY <1>3, <1>5, <1>6, <1>7, <1>8, <1>9, <1>10 DEF Before

\* A transaction held by a fiber and the queues is not one the shutdown took.
LEMMA NotCollected ==
  ASSUME IInv
  PROVE  \A s \in Range(toNack), t \in OnLine : s \in Held /\ s # t
<1>1. \A s \in Range(toNack) : s \in Transactions
  BY DEF IInv, TypeOK, Range
<1>2. \A s \in Range(toNack) : s \in Held
  BY <1>1, HeldIsReal DEF Held, IInv
<1> QED
  BY <1>2 DEF IInv, Apart, SameKey

\* What is left of a batch becomes the pieces of a new, sealed ack_group.
LEMMA DispatchKeeps ==
  ASSUME IInv, NEW t \in OnLine, t.idx = 0, NEW bs \in Seq(BOOLEAN), bs # <<>>,
         Dispatch(t, bs), pipe.kids = <<>>, pipe.t \in {None, t},
         in' \in [pc : InPcs, slot : Transactions \cup {None}], in'.slot = in.slot,
         in'.pc \in {"wait", "ready", "nack"} <=> in.pc \in {"wait", "ready", "nack"},
         in.pc = "done" => in'.pc = "done", in.pc = "idle" => in'.pc = "idle",
         pipe.pc \in {"pop", "proc"},
         toPipeline' \in Seq(Slots), Sorted(toPipeline'),
         Range(toPipeline') \subseteq Range(toPipeline),
         Range(toPipeline) \cup {pipe.t} \subseteq Range(toPipeline') \cup {t, None},
         Precede({launched}, {t}), Precede({out.t}, {t}), Precede(Range(toOutput), {t}),
         Precede({t}, Range(toPipeline')), Precede({t}, {in.slot}),
         errored \subseteq errored', errored' \subseteq errored \cup {t.src},
         Strict => t.src \notin errored',
         \A b \in Batches : b # t.src => ~Blamed(b),
         UNCHANGED <<startPc, out, writes, toOutput, aborted, shutdown, wrote, launched>>
  PROVE  IInv' /\ Event
<1> USE DEF queues, shutdown
<1> DEFINE kids == [i \in DOMAIN bs |-> [src |-> t.src, idx |-> i, mark |-> bs[i]]]
<1>1. t \in Held /\ t \in Transactions /\ Real(t) /\ t # None /\ t # EndOfStream
      /\ t.src \in Batches
  BY HeldIsReal, HeldBatch DEF OnLine, Held, IInv
<1>2. /\ kids \in Seq(Transactions) /\ kids # <<>> /\ Sorted(kids)
      /\ Range(kids) = Pieces(t.src, bs)
      /\ \A p \in Pieces(t.src, bs) : p \in Transactions /\ p.src = t.src /\ p.idx > 0
      /\ \A s \in Transactions, p \in Pieces(t.src, bs) : Before(s, t) => Before(s, p)
      /\ \A u \in Transactions, p \in Pieces(t.src, bs) :
           u.idx = 0 /\ Before(t, u) => Before(p, u)
  BY <1>1, KidsInLine
<1> HIDE DEF kids
<1>3. /\ group' = [group EXCEPT ![t.src] = Seal([NewGroup EXCEPT !.pending = Len(bs)])]
      /\ split' = [split EXCEPT ![t.src] = Len(bs)]
      /\ pipe' = [IdlePipe(NotFull(toOutput)) EXCEPT !.kids = kids]
      /\ UNCHANGED <<stats, answers, dropped>>
  BY DEF Dispatch, kids
<1>4. /\ pipe' \in PipeType /\ pipe'.kids = kids /\ pipe'.t = None
      /\ pipe'.pc \in {"nack", "wait", "ready"}
  <2>1. pipe' = [pc |-> NotFull(toOutput), t |-> None, stage |-> 0,
                 todo |-> <<>>, next |-> <<>>, kids |-> kids]
    BY <1>3 DEF IdlePipe
  <2>2. 0 \in 0 .. NProcs
    BY StreamAssumption
  <2> QED
    BY <1>2, <2>1, <2>2, NotFullPc DEF PipeType, PipePcs
<1>5. TypeOK'
  <2>1. Len(bs) \in Nat
    OBVIOUS
  <2>2. Seal([NewGroup EXCEPT !.pending = Len(bs)]) \in Groups
    BY <2>1 DEF Seal, NewGroup, SealFires, Groups
  <2>3. group' \in [Batches -> Groups] /\ split' \in [Batches -> Nat]
    BY <1>3, <2>1, <2>2 DEF IInv, TypeOK
  <2>4. errored' \in SUBSET Batches
    BY <1>1 DEF IInv, TypeOK
  <2> QED
    BY <1>3, <1>4, <2>3, <2>4 DEF IInv, TypeOK, PipeType
<1>6. Shape'
  BY <1>2, <1>3, <1>4 DEF IInv, Shape
<1>7. /\ Held' = (Held \ {t}) \cup Pieces(t.src, bs)
      /\ OnLine' = (OnLine \ {t}) \cup Pieces(t.src, bs)
  <2>1. ~Before(t, t)
    <3>1. t.src \in Nat /\ t.idx \in Nat
      BY <1>1 DEF Transactions, Batches
    <3> QED
      BY <3>1 DEF Before
  <2>2. t \notin {in.slot, out.t} \cup Range(toPipeline') \cup Range(toOutput)
    BY <1>1, <2>1 DEF Precede
  <2>3. t \notin writes
    BY DEF IInv, Kinds
  <2>4. t \notin Range(toNack)
    BY NotCollected
  <2>5. \A p \in Pieces(t.src, bs) : p # None /\ p # EndOfStream
    BY <1>2, HeldIsReal DEF IInv
  <2>6. Range(pipe.kids) = {}
    BY DEF Range
  <2> QED
    BY <1>1, <1>2, <1>4, <2>2, <2>3, <2>4, <2>5, <2>6 DEF Held, OnLine
<1>8. InOrder'
  <2>1. InHand' = Pieces(t.src, bs) \cup {None}
    BY <1>2, <1>4 DEF InHand
  <2>2. ~Real(None)
    BY DEF Real, None
  <2>3. {launched, out.t, in.slot} \subseteq Transactions \cup {None}
    BY DEF IInv, TypeOK
  <2>4. \A s \in Range(toOutput) \cup Range(toPipeline') : Real(s) => s \in Transactions
    <3>1. toOutput \in Seq(Slots) /\ toPipeline' \in Seq(Slots)
      BY DEF IInv, TypeOK
    <3>2. \A s \in Range(toOutput) \cup Range(toPipeline') : s \in Slots
      BY <3>1 DEF Range
    <3> QED
      BY <3>2 DEF Slots, EndOfStream, Real
  <2>5. Precede({launched}, InHand') /\ Precede({out.t}, InHand') /\ Precede(Range(toOutput), InHand')
    BY <1>1, <1>2, <2>1, <2>2, <2>3, <2>4 DEF Precede
  <2>6. \A u \in Range(toPipeline') \cup {in.slot} : Real(u) => u.idx = 0 /\ u \in Transactions
    BY <2>2, <2>3, <2>4 DEF IInv, Kinds, EndOfStream, Real
  <2>7. Precede(InHand', Range(toPipeline')) /\ Precede(InHand', {in.slot})
    BY <1>1, <1>2, <2>1, <2>2, <2>6 DEF Precede
  <2>8. Precede({launched}, Range(toPipeline')) /\ Precede({out.t}, Range(toPipeline'))
        /\ Precede(Range(toOutput), Range(toPipeline')) /\ Precede(Range(toPipeline'), {in.slot})
    BY DEF IInv, InOrder, Precede
  <2> QED
    BY <1>2, <1>4, <2>5, <2>7, <2>8 DEF IInv, InOrder
<1>9. Kinds'
  BY <1>2, <1>4 DEF IInv, Kinds, None
<1>10. Apart'
  <2>1. \A s \in Range(toNack) : s.src # t.src
    BY <1>1, NotCollected, HeldBatch DEF IInv
  <2> QED
    BY <1>2, <1>7, <2>1 DEF IInv, Apart, SameKey
<1>11. \A b \in Batches : ~Blamed(b)'
  BY <1>4 DEF Blamed
<1>12. Account'
  BY <1>1, <1>3, <1>7, <1>11, AccountSplit DEF IInv
<1>13. Event
  BY <1>1, <1>3, <1>7 DEF Event, Splits
<1> QED
  BY <1>5, <1>6, <1>8, <1>9, <1>10, <1>12, <1>13 DEF IInv

\* Without processors a batch is dispatched as it is.
LEMMA PipePopDispatchKeeps ==
  ASSUME IInv, PipePop, ~aborted, Head(toPipeline) # EndOfStream, ~(NProcs > 0)
  PROVE  IInv' /\ Event
<1> USE DEF queues, shutdown, history, acking
<1> DEFINE t == Head(toPipeline)
           bs == <<t.mark>>
<1>1. /\ pipe.pc = "pop" /\ toPipeline # <<>> /\ toPipeline' = Tail(toPipeline)
      /\ in' = Woken(in) /\ Dispatch(t, bs)
      /\ UNCHANGED <<startPc, out, writes, toOutput, aborted, shutdown, wrote, errored, launched>>
  BY DEF PipePop
<1>2. pipe.t = None /\ pipe.kids = <<>>
  BY <1>1 DEF IInv, Shape
<1>3. in'.slot = in.slot
  BY <1>1, WokenInput
<1>4. /\ t \in Transactions /\ t.idx = 0 /\ t \in OnLine /\ t \in Held
      /\ toPipeline' \in Seq(Slots) /\ Sorted(toPipeline')
      /\ Range(toPipeline) = Range(toPipeline') \cup {t}
      /\ Precede({launched}, {t}) /\ Precede({out.t}, {t}) /\ Precede(Range(toOutput), {t})
      /\ Precede({t}, Range(toPipeline')) /\ Precede({t}, {in.slot})
  BY <1>1, <1>3, HeadOfQueue
<1>5. bs \in Seq(BOOLEAN) /\ bs # <<>>
  BY <1>4 DEF Transactions
<1>6. \A b \in Batches : ~Blamed(b)
  BY <1>1 DEF Blamed
<1>7. Strict => t.src \notin errored
  BY <1>4, <1>6, HeldBatch DEF IInv, Account, Accounted
<1> HIDE DEF t, bs
<1>8. /\ in' \in [pc : InPcs, slot : Transactions \cup {None}]
      /\ in'.pc \in {"wait", "ready", "nack"} <=> in.pc \in {"wait", "ready", "nack"}
      /\ in.pc = "done" => in'.pc = "done"
      /\ in.pc = "idle" => in'.pc = "idle"
  BY <1>1, WokenInput
<1> QED
  BY <1>1, <1>2, <1>3, <1>4, <1>5, <1>6, <1>7, <1>8, DispatchKeeps

\* The batch in process is on the line between the queues, and nowhere else.
LEMMA InProcess ==
  ASSUME IInv, pipe.pc = "proc"
  PROVE  LET t == pipe.t IN
         /\ t \in Transactions /\ t.idx = 0 /\ t.src \in Batches
         /\ t \in OnLine /\ t \in Held /\ t # None /\ t # EndOfStream
         /\ t \notin {in.slot, out.t} \cup writes \cup Range(toPipeline) \cup Range(toOutput)
                       \cup Range(toNack)
         /\ pipe.kids = <<>> /\ Range(pipe.kids) = {}
         /\ pipe \in PipeType
<1> DEFINE t == pipe.t
<1>1. pipe \in PipeType /\ pipe.kids = <<>> /\ t # None
  BY DEF IInv, TypeOK, PipeType, Shape
<1>2. t \in Transactions /\ t.idx = 0
  BY <1>1 DEF PipeType, IInv, Kinds
<1>3. t # EndOfStream /\ Real(t)
  BY <1>2, HeldIsReal DEF IInv
<1>4. t.src \in Batches /\ t.src \in Nat /\ t.idx \in Nat
  BY <1>2 DEF Transactions, Batches
<1>5. ~Before(t, t)
  BY <1>4 DEF Before
<1>6. t \in OnLine /\ t \in Held
  BY <1>1, <1>3 DEF OnLine, Held
<1>7. t \notin {in.slot, out.t} \cup Range(toPipeline) \cup Range(toOutput)
  BY <1>3, <1>5 DEF IInv, InOrder, InHand, Precede
<1>8. t \notin writes
  BY <1>2 DEF IInv, Kinds
<1>9. t \notin Range(toNack)
  BY <1>6, NotCollected
<1>10. Range(pipe.kids) = {}
  BY <1>1 DEF Range
<1> QED
  BY <1>1, <1>2, <1>3, <1>4, <1>6, <1>7, <1>8, <1>9, <1>10

\* The batch in process is answered whole.
LEMMA AnswerKeeps ==
  ASSUME IInv, pipe.pc = "proc", NEW e \in BOOLEAN, AckSource(pipe.t.src, e),
         stats' \in [batches_in : 0 .. NBatches, acks : Nat, nacks : Nat, filtered : Nat],
         stats'.batches_in = stats.batches_in, Tally' = Tally + 1,
         pipe' = IdlePipe("pop"),
         dropped \subseteq dropped', dropped' \subseteq dropped \cup {pipe.t.src},
         errored \subseteq errored', errored' \subseteq errored \cup {pipe.t.src},
         ~e => pipe.t.src \in dropped' /\ (Strict => pipe.t.src \notin errored'),
         UNCHANGED <<startPc, in, out, writes, queues, shutdown, split, wrote, launched>>
  PROVE  IInv' /\ Event
<1> USE DEF queues, shutdown
<1> DEFINE t == pipe.t
<1>1. /\ t \in Transactions /\ t.idx = 0 /\ t.src \in Batches
      /\ t \in OnLine /\ t \in Held /\ t # None /\ t # EndOfStream
      /\ t \notin {in.slot, out.t} \cup writes \cup Range(toPipeline) \cup Range(toOutput)
                    \cup Range(toNack)
      /\ pipe.kids = <<>> /\ Range(pipe.kids) = {}
  BY InProcess
<1>2. /\ pipe' \in PipeType /\ pipe'.t = None /\ pipe'.kids = <<>>
      /\ pipe'.pc = "pop" /\ pipe'.next = <<>> /\ Range(pipe'.kids) = {}
  BY <1>1, IdlePipeType DEF PipePcs
<1>3. UNCHANGED group /\ answers' \in [Batches -> Seq({"ack", "nack"})]
  BY <1>1 DEF AckSource, IInv, TypeOK
<1>4. dropped' \in SUBSET Batches /\ errored' \in SUBSET Batches
  BY <1>1 DEF IInv, TypeOK
<1>5. TypeOK'
  BY <1>2, <1>3, <1>4 DEF IInv, TypeOK, PipeType
<1>6. Shape'
  BY <1>2 DEF IInv, Shape
<1>7. ~Real(None)
  BY DEF Real, None
<1>8. InOrder'
  BY <1>1, <1>2, <1>7 DEF IInv, InOrder, InHand, Precede
<1>9. Kinds'
  BY <1>1, <1>2 DEF IInv, Kinds, None
<1>10. Held' = Held \ {t} /\ OnLine' = OnLine \ {t}
  BY <1>1, <1>2 DEF Held, OnLine
<1>11. Apart'
  BY <1>10 DEF IInv, Apart
<1>12. \A b \in Batches : b # t.src => (Blamed(b)' <=> Blamed(b))
  BY <1>2 DEF Blamed
<1>13. Account'
  BY <1>1, <1>3, <1>10, <1>12, AccountAnswered DEF IInv
<1>14. Event
  BY <1>1, <1>10 DEF Event, Answers
<1> QED
  BY <1>5, <1>6, <1>8, <1>9, <1>11, <1>13, <1>14 DEF IInv

\* Two answers together carry an error exactly when one of them does.
LEMMA ErrorInEither ==
  ASSUME NEW p \in Seq(BOOLEAN), NEW q \in Seq(BOOLEAN)
  PROVE  /\ p \o q \in Seq(BOOLEAN)
         /\ HasError(p \o q) <=> HasError(p) \/ HasError(q)
<1>1. /\ DOMAIN p = 1 .. Len(p) /\ DOMAIN q = 1 .. Len(q)
      /\ DOMAIN (p \o q) = 1 .. (Len(p) + Len(q))
      /\ Len(p) \in Nat /\ Len(q) \in Nat
  OBVIOUS
<1>2. \A i \in DOMAIN p : i \in DOMAIN (p \o q) /\ (p \o q)[i] = p[i]
  OBVIOUS
<1>3. \A i \in DOMAIN q : i + Len(p) \in DOMAIN (p \o q) /\ (p \o q)[i + Len(p)] = q[i]
  OBVIOUS
<1>4. \A i \in DOMAIN (p \o q) : i \in DOMAIN p \/ i - Len(p) \in DOMAIN q
  BY <1>1
<1>5. \A i \in DOMAIN (p \o q) : i \notin DOMAIN p => (p \o q)[i] = q[i - Len(p)]
  BY <1>1, <1>3, <1>4
<1>6. p \o q \in Seq(BOOLEAN)
  OBVIOUS
<1>7. ASSUME HasError(p \o q) PROVE HasError(p) \/ HasError(q)
  <2>1. PICK i \in DOMAIN (p \o q) : (p \o q)[i]
    BY <1>7 DEF HasError
  <2>2. CASE i \in DOMAIN p
    BY <1>2, <2>1, <2>2, Zenon DEF HasError
  <2>3. CASE i \notin DOMAIN p
    BY <1>4, <1>5, <2>1, <2>3, Zenon DEF HasError
  <2> QED
    BY <2>2, <2>3
<1>8. HasError(p) => HasError(p \o q)
  BY <1>2, Zenon DEF HasError
<1>9. HasError(q) => HasError(p \o q)
  BY <1>3, Zenon DEF HasError
<1> QED
  BY <1>6, <1>7, <1>8, <1>9

\* The batch in process stays in process: within a stage, or on to the next.
LEMMA GoOnKeeps ==
  ASSUME IInv, pipe.pc = "proc",
         pipe' \in PipeType, pipe'.pc = "proc", pipe'.t = pipe.t, pipe'.kids = pipe.kids,
         pipe'.todo # <<>>, pipe'.stage \in 1 .. NProcs,
         errored \subseteq errored', errored' \subseteq errored \cup {pipe.t.src},
         Strict /\ pipe.t.src \in errored' => HasError(pipe'.next),
         errored' = errored \/ HasError(pipe'.next),
         UNCHANGED <<startPc, in, out, writes, queues, shutdown, acking, split, wrote,
                     dropped, launched>>
  PROVE  IInv' /\ Event
<1> USE DEF queues, shutdown, acking
<1> DEFINE t == pipe.t
<1>1. t.src \in Batches /\ t \in Held /\ t.idx = 0
  BY InProcess
<1>2. errored' \in SUBSET Batches
  BY <1>1 DEF IInv, TypeOK
<1>3. TypeOK'
  BY <1>2 DEF IInv, TypeOK, PipeType
<1>4. Shape'
  BY DEF IInv, Shape
<1>5. InOrder' /\ Kinds' /\ Apart' /\ Held' = Held
  BY StayPut DEF IInv, Places
<1>6. Account'
  <2>1. \A b \in Batches : Blamed(b)' => b = t.src /\ Whole(b)
    BY <1>1 DEF Blamed, Whole
  <2>2. ASSUME NEW b \in Batches, b \in errored', b \notin errored
        PROVE  Blamed(b)'
    BY <2>2 DEF Blamed
  <2>3. ASSUME NEW b \in Batches, Whole(b), Strict, b \in errored'
        PROVE  Blamed(b)'
    <3>1. CASE b = t.src
      BY <2>3, <3>1 DEF Blamed
    <3>2. CASE b # t.src
      BY <2>3, <3>2 DEF IInv, Account, Accounted, Blamed
    <3> QED
      BY <3>1, <3>2
  <2> QED
    BY <1>5, <2>1, <2>2, <2>3, AccountKept DEF IInv
<1>7. Event
  BY <1>5 DEF Event, Moves
<1> QED
  BY <1>3, <1>4, <1>5, <1>6, <1>7 DEF IInv

\* A processor answered: the batch goes on, is dropped, rejected or dispatched.
LEMMA YieldsKeeps ==
  ASSUME IInv, pipe.pc = "proc", NEW ms \in Seq(BOOLEAN), StageYields(ms),
         errored' = IF Strict /\ HasError(ms) THEN errored \cup {pipe.t.src} ELSE errored,
         UNCHANGED <<startPc, in, out, writes, queues, shutdown, wrote, launched>>
  PROVE  IInv' /\ Event
<1> USE DEF queues, shutdown, acking
<1> DEFINE t == pipe.t
           next == pipe.next \o ms
           rest == Tail(pipe.todo)
<1>1. /\ t \in Transactions /\ t.idx = 0 /\ t.src \in Batches
      /\ t \in OnLine /\ t \in Held /\ t # None
      /\ pipe.kids = <<>> /\ pipe \in PipeType
  BY InProcess
<1>2. pipe.todo \in Seq(BOOLEAN) /\ pipe.todo # <<>> /\ pipe.stage \in 1 .. NProcs
      /\ pipe.next \in Seq(BOOLEAN)
  BY <1>1 DEF IInv, Shape, PipeType
<1>3. next \in Seq(BOOLEAN) /\ rest \in Seq(BOOLEAN)
      /\ (HasError(next) <=> HasError(pipe.next) \/ HasError(ms))
  <2>1. rest \in Seq(BOOLEAN)
    BY <1>2, TailType
  <2> QED
    BY <1>2, <2>1, ErrorInEither
<1>4. /\ \A b \in Batches : b # t.src => ~Blamed(b)
      /\ Strict /\ t.src \in errored => HasError(pipe.next)
  <2>1. \A b \in Batches : b # t.src => ~Blamed(b)
    BY DEF Blamed
  <2>2. Whole(t.src) => (Strict /\ t.src \in errored => Blamed(t.src))
    BY <1>1 DEF IInv, Account, Accounted
  <2> QED
    BY <1>1, <2>1, <2>2, HeldBatch DEF IInv, Blamed
<1>5. Strict /\ t.src \in errored' => HasError(next)
  BY <1>3, <1>4
<1>6. errored \subseteq errored' /\ errored' \subseteq errored \cup {t.src}
      /\ (errored' = errored \/ HasError(next))
  BY <1>3
<1> HIDE DEF next, rest
<1>7. CASE /\ rest # <<>>
           /\ pipe' = [pipe EXCEPT !.todo = rest, !.next = next]
           /\ UNCHANGED <<acking, split, dropped>>
  <2>1. /\ pipe' \in PipeType /\ pipe'.pc = "proc" /\ pipe'.t = pipe.t
        /\ pipe'.kids = pipe.kids /\ pipe'.todo # <<>> /\ pipe'.stage \in 1 .. NProcs
        /\ pipe'.next = next
    BY <1>1, <1>2, <1>3, <1>7 DEF PipeType
  <2> QED
    BY <1>5, <1>6, <1>7, <2>1, GoOnKeeps
<1>8. CASE rest = <<>> /\ next = <<>> /\ Filter
  <2>1. ~HasError(next)
    BY <1>8 DEF HasError
  <2>2. stats \in [batches_in : 0 .. NBatches, acks : Nat, nacks : Nat, filtered : Nat]
    BY DEF IInv, TypeOK
  <2>3. stats' = [stats EXCEPT !.acks = @ + 1, !.filtered = @ + 1]
    BY <1>8 DEF Filter
  <2>4. stats' \in [batches_in : 0 .. NBatches, acks : Nat, nacks : Nat, filtered : Nat]
        /\ stats'.batches_in = stats.batches_in /\ Tally' = Tally + 1
    <3>1. stats' = [batches_in |-> stats.batches_in, acks |-> stats.acks + 1,
                    nacks |-> stats.nacks, filtered |-> stats.filtered + 1]
      BY <2>2, <2>3
    <3> QED
      BY <2>2, <3>1 DEF Tally
  <2>5. /\ AckSource(t.src, FALSE) /\ pipe' = IdlePipe("pop")
        /\ dropped' = dropped \cup {t.src} /\ UNCHANGED split
    BY <1>8 DEF Filter
  <2> QED
    BY <1>5, <1>6, <2>1, <2>4, <2>5, AnswerKeeps
<1>9. CASE rest = <<>> /\ FatalMark(next) /\ Reject
  <2>1. stats \in [batches_in : 0 .. NBatches, acks : Nat, nacks : Nat, filtered : Nat]
    BY DEF IInv, TypeOK
  <2>2. /\ CallAck(t, TRUE) /\ stats' = [stats EXCEPT !.nacks = @ + 1]
        /\ pipe' = IdlePipe("pop") /\ UNCHANGED <<split, dropped>>
    BY <1>9 DEF Reject, Nack
  <2>3. stats' \in [batches_in : 0 .. NBatches, acks : Nat, nacks : Nat, filtered : Nat]
        /\ stats'.batches_in = stats.batches_in /\ Tally' = Tally + 1
    BY <2>1, <2>2 DEF Tally
  <2>4. AckSource(t.src, TRUE)
    BY <1>1, <2>2 DEF CallAck
  <2> QED
    BY <1>6, <2>2, <2>3, <2>4, AnswerKeeps
<1>10. CASE /\ rest = <<>> /\ next # <<>> /\ ~FatalMark(next)
            /\ pipe.stage < NProcs
            /\ pipe' = [pipe EXCEPT !.stage = @ + 1, !.todo = next, !.next = <<>>]
            /\ UNCHANGED <<acking, split, dropped>>
  <2>1. /\ pipe' \in PipeType /\ pipe'.pc = "proc" /\ pipe'.t = pipe.t
        /\ pipe'.kids = pipe.kids /\ pipe'.todo # <<>> /\ pipe'.stage \in 1 .. NProcs
    <3>1. pipe.stage + 1 \in 1 .. NProcs /\ pipe.stage + 1 \in 0 .. NProcs
      BY <1>2, <1>10, StreamAssumption
    <3> QED
      BY <1>1, <1>2, <1>3, <1>10, <3>1 DEF PipeType
  <2>2. ~(Strict /\ t.src \in errored') /\ errored' = errored
    BY <1>3, <1>5, <1>10 DEF FatalMark
  <2> QED
    BY <1>6, <1>10, <2>1, <2>2, GoOnKeeps
<1>11. CASE /\ rest = <<>> /\ next # <<>> /\ ~FatalMark(next) /\ Dispatch(t, next)
  <2>1. Strict => t.src \notin errored'
    BY <1>5, <1>11 DEF FatalMark
  <2>2. /\ toPipeline \in Seq(Slots) /\ in \in [pc : InPcs, slot : Transactions \cup {None}]
        /\ Sorted(toPipeline) /\ Precede({launched}, {t}) /\ Precede({out.t}, {t})
        /\ Precede(Range(toOutput), {t})
        /\ Precede({t}, Range(toPipeline)) /\ Precede({t}, {in.slot})
    BY DEF IInv, TypeOK, InOrder, InHand, Precede
  <2> QED
    BY <1>1, <1>3, <1>4, <1>6, <1>11, <2>1, <2>2, DispatchKeeps
<1> QED
  BY <1>7, <1>8, <1>9, <1>10, <1>11 DEF StageYields, next, rest

\* One process() call, whatever it answers.
LEMMA PipeProcessKeeps ==
  ASSUME IInv, PipeProcess
  PROVE  IInv' /\ Event
<1>1. /\ pipe.pc = "proc"
      /\ UNCHANGED <<startPc, in, out, writes, queues, shutdown, wrote, launched>>
  BY DEF PipeProcess
<1>2. CASE \E n \in 0 .. MaxFan : \E ms \in [1 .. n -> Marks] :
             /\ StageYields(ms)
             /\ IF HasError(ms) THEN SawError(pipe.t.src) ELSE UNCHANGED errored
  <2>0. PICK n \in 0 .. MaxFan : \E ms \in [1 .. n -> Marks] :
          /\ StageYields(ms)
          /\ IF HasError(ms) THEN SawError(pipe.t.src) ELSE UNCHANGED errored
    BY <1>2
  <2>1. PICK ms \in [1 .. n -> Marks] :
          /\ StageYields(ms)
          /\ IF HasError(ms) THEN SawError(pipe.t.src) ELSE UNCHANGED errored
    BY <2>0
  <2>2. Marks \subseteq BOOLEAN
    BY DEF Marks
  <2>3. n \in Nat
    BY StreamAssumption
  <2>4. ms \in Seq(BOOLEAN)
    BY <2>2, <2>3
  <2>5. errored' = IF Strict /\ HasError(ms) THEN errored \cup {pipe.t.src} ELSE errored
    BY <2>1 DEF SawError
  <2> QED
    BY <1>1, <2>1, <2>4, <2>5, YieldsKeeps
<1>3. CASE Strict /\ Reject /\ SawError(pipe.t.src)
  <2>1. stats \in [batches_in : 0 .. NBatches, acks : Nat, nacks : Nat, filtered : Nat]
    BY DEF IInv, TypeOK
  <2>2. /\ CallAck(pipe.t, TRUE) /\ stats' = [stats EXCEPT !.nacks = @ + 1]
        /\ pipe' = IdlePipe("pop") /\ UNCHANGED <<split, dropped>>
    BY <1>3 DEF Reject, Nack
  <2>3. stats' \in [batches_in : 0 .. NBatches, acks : Nat, nacks : Nat, filtered : Nat]
        /\ stats'.batches_in = stats.batches_in /\ Tally' = Tally + 1
    BY <2>1, <2>2 DEF Tally
  <2>4. AckSource(pipe.t.src, TRUE)
    BY <1>1, <2>2, InProcess DEF CallAck
  <2>5. errored \subseteq errored' /\ errored' \subseteq errored \cup {pipe.t.src}
    BY <1>3 DEF SawError
  <2> QED
    BY <1>1, <2>2, <2>3, <2>4, <2>5, AnswerKeeps
<1>4. CASE ~Strict /\ StageYields(<<TRUE>>) /\ SawError(pipe.t.src)
  <2>1. <<TRUE>> \in Seq(BOOLEAN)
    OBVIOUS
  <2>2. errored' = IF Strict /\ HasError(<<TRUE>>) THEN errored \cup {pipe.t.src} ELSE errored
    BY <1>4 DEF SawError
  <2> QED
    BY <1>1, <1>4, <2>1, <2>2, YieldsKeeps
<1> QED
  BY <1>2, <1>3, <1>4 DEF PipeProcess

\* The piece in hand, and those after it.
LEMMA PieceInHand ==
  ASSUME IInv, pipe.pc \in {"ready", "nack"}
  PROVE  LET h == Head(pipe.kids)
             rest == Tail(pipe.kids) IN
         /\ h \in Transactions /\ h.idx > 0 /\ h.src \in Batches
         /\ h \in OnLine /\ h \in Held /\ h # None /\ h # EndOfStream
         /\ Real(h) /\ ~Before(h, h)
         /\ rest \in Seq(Transactions) /\ Sorted(rest)
         /\ Range(pipe.kids) = Range(rest) \cup {h} /\ Precede({h}, Range(rest))
         /\ pipe.t = None /\ pipe \in PipeType
<1> DEFINE h == Head(pipe.kids)
           rest == Tail(pipe.kids)
<1>1. pipe \in PipeType /\ pipe.kids # <<>> /\ pipe.t = None /\ Sorted(pipe.kids)
  BY DEF IInv, TypeOK, PipeType, Shape, InOrder
<1>2. pipe.kids \in Seq(Transactions)
  BY <1>1 DEF PipeType
<1>3. rest \in Seq(Transactions) /\ h \in Transactions
  BY <1>1, <1>2, TailType
<1>4. Range(pipe.kids) = Range(rest) \cup {h}
  BY <1>1, <1>2, RangeTail
<1>5. Sorted(rest) /\ Precede({h}, Range(rest))
  BY <1>1, <1>2, SortedTail
<1>6. h.idx > 0
  BY <1>4 DEF IInv, Kinds
<1>7. h # None /\ h # EndOfStream /\ Real(h)
  BY <1>3, HeldIsReal DEF IInv
<1>8. h.src \in Batches /\ h.src \in Nat /\ h.idx \in Nat
  BY <1>3 DEF Transactions, Batches
<1>9. ~Before(h, h)
  BY <1>8 DEF Before
<1>10. h \in OnLine /\ h \in Held
  BY <1>4, <1>7 DEF OnLine, Held
<1> QED
  BY <1>1, <1>3, <1>4, <1>5, <1>6, <1>7, <1>8, <1>9, <1>10

\* A piece passes from the pipeline to the second queue.
LEMMA PipePushKeeps ==
  ASSUME IInv, PipePush
  PROVE  IInv' /\ Event
<1> USE DEF queues, shutdown, history, acking
<1> DEFINE h == Head(pipe.kids)
           rest == Tail(pipe.kids)
<1>1. /\ pipe.pc = "ready" /\ toOutput' = Append(toOutput, h)
      /\ pipe' = IF rest = <<>> THEN IdlePipe("pop")
                 ELSE [pipe EXCEPT !.pc = NotFull(toOutput'), !.kids = rest]
      /\ UNCHANGED <<startPc, in, out, writes, toPipeline, aborted, shutdown, acking, history>>
  BY DEF PipePush
<1>2. /\ h \in Transactions /\ h.idx > 0 /\ h.src \in Batches
      /\ h \in OnLine /\ h \in Held /\ h # None /\ h # EndOfStream
      /\ Real(h) /\ ~Before(h, h)
      /\ rest \in Seq(Transactions) /\ Sorted(rest)
      /\ Range(pipe.kids) = Range(rest) \cup {h} /\ Precede({h}, Range(rest))
      /\ pipe.t = None /\ pipe \in PipeType
  BY <1>1, PieceInHand
<1> HIDE DEF h, rest
<1>3. /\ pipe' \in PipeType /\ pipe'.kids = rest /\ pipe'.t = None
      /\ pipe'.pc \in {"pop", "nack", "wait", "ready"}
      /\ pipe'.pc \in {"nack", "wait", "ready"} <=> rest # <<>>
  <2>1. CASE rest = <<>>
    BY <1>1, <2>1, IdlePipeType DEF PipePcs
  <2>2. CASE rest # <<>>
    <3>1. NotFull(toOutput') \in {"nack", "wait", "ready"}
      BY DEF NotFull
    <3> QED
      BY <1>1, <1>2, <2>2, <3>1 DEF PipeType, PipePcs
  <2> QED
    BY <2>1, <2>2
<1>4. toOutput \in Seq(Slots) /\ Sorted(toOutput) /\ EndOfStream \notin Range(toOutput)
  BY <1>1 DEF IInv, TypeOK, InOrder, Shape
<1>5. Range(toOutput') = Range(toOutput) \cup {h} /\ toOutput' \in Seq(Slots)
  BY <1>1, <1>2, <1>4, RangeAppend DEF Slots
<1>6. \A s \in Range(toOutput) : Real(s)
  <2>1. \A s \in Range(toOutput) : s \in Transactions
    BY <1>4 DEF Range, Slots
  <2> QED
    BY <2>1, HeldIsReal DEF IInv
<1>7. Sorted(toOutput')
  <2>1. Precede(Range(toOutput), {h})
    BY <1>2 DEF IInv, InOrder, InHand, Precede
  <2> QED
    BY <1>1, <1>4, <1>6, <2>1, SortedAppend
<1>8. TypeOK'
  BY <1>1, <1>3, <1>5 DEF IInv, TypeOK, PipeType
<1>9. Shape'
  BY <1>1, <1>2, <1>3, <1>4, <1>5 DEF IInv, Shape
<1>10. Held' = Held /\ OnLine' = OnLine
  BY <1>1, <1>2, <1>3, <1>5 DEF Held, OnLine
<1>11. InOrder'
  <2>1. /\ Precede({launched}, {h}) /\ Precede({out.t}, {h})
        /\ Precede({h}, Range(toPipeline)) /\ Precede({h}, {in.slot})
    BY <1>2 DEF IInv, InOrder, InHand, Precede
  <2>2. InHand' = Range(rest) \cup {None} /\ ~Real(None)
    BY <1>3 DEF InHand, Real, None
  <2>3. InHand' \subseteq InHand
    BY <1>2, <2>2 DEF InHand
  <2>4. Precede(Range(toOutput'), InHand')
    BY <1>2, <1>5, <2>2, <2>3 DEF IInv, InOrder, Precede
  <2>5. /\ Precede({launched}, InHand') /\ Precede({out.t}, InHand')
        /\ Precede(InHand', Range(toPipeline)) /\ Precede(InHand', {in.slot})
    BY <2>3 DEF IInv, InOrder, Precede
  <2>6. /\ Precede({launched}, Range(toOutput')) /\ Precede({out.t}, Range(toOutput'))
        /\ Precede(Range(toOutput'), Range(toPipeline)) /\ Precede(Range(toOutput'), {in.slot})
    BY <1>5, <2>1 DEF IInv, InOrder, Precede
  <2> QED
    BY <1>1, <1>2, <1>3, <1>7, <2>4, <2>5, <2>6 DEF IInv, InOrder
<1>12. Kinds'
  BY <1>1, <1>2, <1>3, <1>5 DEF IInv, Kinds, None
<1>13. Apart'
  BY <1>1, <1>10 DEF IInv, Apart
<1>14. \A b \in Batches : Blamed(b)' <=> Blamed(b)
  BY <1>1, <1>3 DEF Blamed
<1>15. Account'
  BY <1>1, <1>10, <1>14, AccountStill DEF IInv
<1>16. Event
  BY <1>1, <1>10 DEF Event, Moves
<1> QED
  BY <1>8, <1>9, <1>11, <1>12, <1>13, <1>15, <1>16 DEF IInv

\* What CallAck leaves of the types when a piece is settled.
LEMMA AckPieceType ==
  ASSUME IInv, NEW t \in Held, t.idx > 0, NEW e \in BOOLEAN, CallAck(t, e)
  PROVE  /\ AckPiece(t, e)
         /\ group' \in [Batches -> Groups]
         /\ answers' \in [Batches -> Seq({"ack", "nack"})]
<1>1. AckPiece(t, e)
  BY DEF CallAck
<1>2. t.src \in Batches /\ t.idx \in OpenPieces(t.src) /\ Split(t.src)
  BY HeldBatch DEF IInv
<1>3. group \in [Batches -> Groups] /\ answers \in [Batches -> Seq({"ack", "nack"})]
      /\ split[t.src] \in Nat
  BY <1>2 DEF IInv, TypeOK
<1>4. group[t.src].pending \in Nat \ {0}
  <2> DEFINE O == OpenPieces(t.src)
  <2>1. IsFiniteSet(O) /\ Cardinality(O) \in Nat
    BY <1>2, <1>3, PiecesFinite DEF Split
  <2>2. Cardinality(O) # 0
    BY <1>2, <2>1, FS_EmptySet
  <2> QED
    BY <1>2, <2>1, <2>2 DEF Split
<1>5. ChildDone(group[t.src], e) \in Groups
  <2> DEFINE g == group[t.src]
  <2>1. g \in Groups /\ g.pending - 1 \in Nat /\ ChildFires(g) \in BOOLEAN
    BY <1>2, <1>3, <1>4 DEF ChildFires, Groups
  <2> DEFINE err == g.err \/ e
             fired == g.fired \/ ChildFires(g)
  <2>2. err \in BOOLEAN /\ fired \in BOOLEAN
    OBVIOUS
  <2>3. ChildDone(g, e) = [g EXCEPT !.err = err, !.pending = g.pending - 1, !.fired = fired]
    BY <2>1, Zenon DEF ChildDone, Groups
  <2> HIDE DEF err, fired
  <2> QED
    BY <2>1, <2>2, <2>3 DEF Groups
<1>6. group' \in [Batches -> Groups]
  BY <1>1, <1>2, <1>3, <1>5 DEF AckPiece
<1>7. Verdict(group'[t.src]) \in {"ack", "nack"}
  BY DEF Verdict
<1> QED
  BY <1>1, <1>2, <1>3, <1>6, <1>7 DEF AckPiece

\* A piece that the aborted queue refused is nacked.
LEMMA PipeNackKeeps ==
  ASSUME IInv, PipeNack
  PROVE  IInv' /\ Event
<1> USE DEF queues, shutdown, history
<1> DEFINE h == Head(pipe.kids)
           rest == Tail(pipe.kids)
<1>1. /\ pipe.pc = "nack" /\ CallAck(h, TRUE) /\ stats' = [stats EXCEPT !.nacks = @ + 1]
      /\ pipe' = IF rest = <<>> THEN IdlePipe("eos") ELSE [pipe EXCEPT !.kids = rest]
      /\ UNCHANGED <<startPc, in, out, writes, queues, shutdown, history>>
  BY DEF PipeNack, Nack
<1>2. /\ h \in Transactions /\ h.idx > 0 /\ h.src \in Batches
      /\ h \in OnLine /\ h \in Held /\ h # None /\ h # EndOfStream
      /\ Real(h) /\ ~Before(h, h)
      /\ rest \in Seq(Transactions) /\ Sorted(rest)
      /\ Range(pipe.kids) = Range(rest) \cup {h} /\ Precede({h}, Range(rest))
      /\ pipe.t = None /\ pipe \in PipeType
  BY <1>1, PieceInHand
<1> HIDE DEF h, rest
<1>3. /\ pipe' \in PipeType /\ pipe'.kids = rest /\ pipe'.t = None
      /\ pipe'.pc \in {"eos", "nack"}
      /\ pipe'.pc = "nack" <=> rest # <<>>
  <2>1. CASE rest = <<>>
    BY <1>1, <2>1, IdlePipeType DEF PipePcs
  <2>2. CASE rest # <<>>
    BY <1>1, <1>2, <2>2 DEF PipeType
  <2> QED
    BY <2>1, <2>2
<1>4. /\ stats' \in [batches_in : 0 .. NBatches, acks : Nat, nacks : Nat, filtered : Nat]
      /\ stats'.batches_in = stats.batches_in /\ Tally' = Tally + 1
  <2>1. stats \in [batches_in : 0 .. NBatches, acks : Nat, nacks : Nat, filtered : Nat]
    BY DEF IInv, TypeOK
  <2> QED
    BY <1>1, <2>1 DEF Tally
<1>5. /\ AckPiece(h, TRUE) /\ group' \in [Batches -> Groups]
      /\ answers' \in [Batches -> Seq({"ack", "nack"})]
  BY <1>1, <1>2, AckPieceType
<1>6. /\ h \notin {in.slot, out.t} \cup writes \cup Range(toPipeline) \cup Range(toOutput)
                    \cup Range(toNack) \cup Range(rest)
  <2>1. h \notin {in.slot, out.t} \cup Range(toPipeline) \cup Range(toOutput) \cup Range(rest)
    BY <1>2 DEF IInv, InOrder, InHand, Precede
  <2>2. h \notin Range(toNack)
    BY <1>2, NotCollected
  <2>3. h # launched /\ ~Before(h, launched)
    <3>1. Precede({launched}, {h})
      BY <1>2 DEF IInv, InOrder, InHand, Precede
    <3>2. h.src \in Nat /\ h.idx \in Nat
      BY <1>2 DEF Transactions, Batches
    <3>3. launched \in Transactions \cup {None}
      BY DEF IInv, TypeOK
    <3>4. launched.src \in Nat /\ launched.idx \in Nat /\ (~Real(launched) => launched = None)
      BY <3>3, HeldIsReal DEF Transactions, Batches, None, IInv
    <3> QED
      BY <1>2, <3>1, <3>2, <3>4 DEF Precede, Before, Real, None
  <2>4. h \notin writes
    BY <2>3 DEF IInv, InOrder
  <2> QED
    BY <2>1, <2>2, <2>4
<1>7. TypeOK'
  BY <1>1, <1>3, <1>4, <1>5 DEF IInv, TypeOK, PipeType
<1>8. Shape'
  BY <1>1, <1>3, <1>4 DEF IInv, Shape
<1>9. Held' = Held \ {h} /\ OnLine' = OnLine \ {h}
  BY <1>1, <1>2, <1>3, <1>6 DEF Held, OnLine
<1>10. InOrder'
  <2>1. InHand' \subseteq InHand
    BY <1>2, <1>3 DEF InHand
  <2> QED
    BY <1>1, <1>2, <1>3, <2>1 DEF IInv, InOrder, Precede
<1>11. Kinds'
  BY <1>1, <1>2, <1>3 DEF IInv, Kinds, None
<1>12. Apart'
  BY <1>1, <1>9 DEF IInv, Apart
<1>13. \A b \in Batches : ~Blamed(b)' /\ ~Blamed(b)
  BY <1>1, <1>3 DEF Blamed
<1>14. Account'
  BY <1>1, <1>2, <1>4, <1>5, <1>9, <1>13, AccountSettled DEF IInv
<1>15. Event
  BY <1>1, <1>2, <1>4, <1>5, <1>9 DEF Event, Settles
<1> QED
  BY <1>7, <1>8, <1>10, <1>11, <1>12, <1>14, <1>15 DEF IInv

\* The end of the stream follows the last piece.
LEMMA PipeEosKeeps ==
  ASSUME IInv, PipeEos, ~aborted
  PROVE  IInv' /\ Event
<1> USE DEF queues, shutdown, history, acking
<1>1. /\ pipe.pc = "eos" /\ toOutput' = Append(toOutput, EndOfStream)
      /\ pipe' = IdlePipe("done")
      /\ UNCHANGED <<startPc, in, out, writes, toPipeline, aborted, shutdown, acking, history>>
  BY DEF PipeEos, PushEos
<1>2. toOutput \in Seq(Slots) /\ EndOfStream \notin Range(toOutput) /\ Sorted(toOutput)
  BY <1>1 DEF IInv, TypeOK, Shape, InOrder
<1>3. Range(toOutput') = Range(toOutput) \cup {EndOfStream} /\ toOutput' \in Seq(Slots)
  BY <1>1, <1>2, RangeAppend DEF Slots
<1>4. \A s \in Range(toOutput) : Real(s)
  BY <1>2, HeldIsReal DEF IInv, TypeOK, Range, Slots
<1>5. ~Real(EndOfStream)
  BY DEF Real, EndOfStream
<1>6. Sorted(toOutput')
  BY <1>1, <1>2, <1>4, <1>5, SortedAppend DEF Precede
<1>7. /\ pipe' \in PipeType /\ pipe'.pc = "done" /\ pipe'.t = None /\ pipe'.kids = <<>>
      /\ pipe.t = None /\ pipe.kids = <<>>
  BY <1>1, IdlePipeType DEF PipePcs, IInv, Shape
<1>8. TypeOK'
  BY <1>1, <1>3, <1>7 DEF IInv, TypeOK, PipeType
<1>9. Shape'
  BY <1>1, <1>2, <1>3, <1>7 DEF IInv, Shape
<1>10. Held' = Held /\ OnLine' = OnLine
  BY <1>1, <1>3, <1>7 DEF Held, OnLine
<1>11. InOrder'
  BY <1>1, <1>3, <1>5, <1>6, <1>7 DEF IInv, InOrder, InHand, Precede
<1>12. Kinds'
  BY <1>1, <1>3, <1>7 DEF IInv, Kinds
<1>13. Apart'
  BY <1>1, <1>10 DEF IInv, Apart
<1>14. \A b \in Batches : Blamed(b)' <=> Blamed(b)
  BY <1>1, <1>7 DEF Blamed
<1>15. Account'
  BY <1>1, <1>10, <1>14, AccountStill DEF IInv
<1>16. Event
  BY <1>1, <1>10 DEF Event, Moves
<1> QED
  BY <1>8, <1>9, <1>11, <1>12, <1>13, <1>15, <1>16 DEF IInv
-----------------------------------------------------------------------------
(* output_loop and do_write *)

\* The output takes the first piece of its queue.
LEMMA OutPopKeeps ==
  ASSUME IInv, OutPop, ~aborted
  PROVE  IInv' /\ Event
<1> USE DEF queues, shutdown, history, acking
<1> DEFINE h == Head(toOutput)
<1>1. /\ out.pc = "pop" /\ toOutput # <<>> /\ toOutput' = Tail(toOutput)
      /\ pipe' = Woken(pipe)
      /\ out' = IF h = EndOfStream THEN [out EXCEPT !.pc = "drain"]
                ELSE [pc |-> "units", t |-> h]
      /\ UNCHANGED <<startPc, in, writes, toPipeline, aborted, shutdown, acking, history>>
  BY DEF OutPop
<1>2. toOutput \in Seq(Slots) /\ Sorted(toOutput) /\ out.t = None
      /\ out \in [pc : OutPcs, t : Transactions \cup {None}]
  BY <1>1 DEF IInv, TypeOK, Shape, InOrder
<1>3. toOutput' \in Seq(Slots) /\ h \in Slots
  BY <1>1, <1>2, TailType
<1>4. Range(toOutput) = Range(toOutput') \cup {h}
  BY <1>1, <1>2, RangeTail
<1>5. Sorted(toOutput') /\ Precede({h}, Range(toOutput'))
  BY <1>1, <1>2, SortedTail
<1>6. /\ pipe' \in PipeType
      /\ pipe'.t = pipe.t /\ pipe'.stage = pipe.stage /\ pipe'.todo = pipe.todo
      /\ pipe'.next = pipe.next /\ pipe'.kids = pipe.kids
      /\ (pipe.pc # "wait" => pipe' = pipe)
      /\ pipe'.pc \in {"wait", "ready", "nack"} <=> pipe.pc \in {"wait", "ready", "nack"}
      /\ pipe'.pc = "proc" <=> pipe.pc = "proc"
  BY <1>1, WokenPipe
<1> HIDE DEF h
<1>7. /\ out' \in [pc : OutPcs, t : Transactions \cup {None}]
      /\ h = EndOfStream => out'.t = None /\ out'.pc = "drain"
      /\ h # EndOfStream => out'.t = h /\ out'.pc = "units"
  BY <1>1, <1>2, <1>3 DEF Slots, OutPcs
<1>8. ~Real(None) /\ ~Real(EndOfStream) /\ h # None
  BY <1>3, HeldIsReal DEF Real, None, EndOfStream, Slots, IInv
<1>9. TypeOK'
  BY <1>1, <1>3, <1>6, <1>7 DEF IInv, TypeOK, PipeType
<1>10. Shape'
  BY <1>1, <1>4, <1>6, <1>7, <1>8 DEF IInv, Shape
<1>11. Held' = Held /\ OnLine' = OnLine
  BY <1>1, <1>2, <1>4, <1>6, <1>7, <1>8 DEF Held, OnLine
<1>12. InOrder'
  <2>1. InHand' = InHand
    BY <1>6 DEF InHand
  <2>2. /\ Precede({launched}, {out'.t}) /\ Precede({out'.t}, Range(toOutput'))
        /\ Precede({out'.t}, InHand) /\ Precede({out'.t}, Range(toPipeline))
        /\ Precede({out'.t}, {in.slot})
    BY <1>4, <1>5, <1>7, <1>8 DEF IInv, InOrder, Precede
  <2>3. /\ Precede({launched}, Range(toOutput')) /\ Precede(Range(toOutput'), InHand)
        /\ Precede(Range(toOutput'), Range(toPipeline)) /\ Precede(Range(toOutput'), {in.slot})
    BY <1>4 DEF IInv, InOrder, Precede
  <2> QED
    BY <1>1, <1>5, <1>6, <2>1, <2>2, <2>3 DEF IInv, InOrder
<1>13. Kinds'
  BY <1>1, <1>4, <1>6, <1>7 DEF IInv, Kinds
<1>14. Apart'
  BY <1>1, <1>11 DEF IInv, Apart
<1>15. \A b \in Batches : Blamed(b)' <=> Blamed(b)
  BY <1>6 DEF Blamed, HasError
<1>16. Account'
  BY <1>1, <1>11, <1>15, AccountStill DEF IInv
<1>17. Event
  BY <1>1, <1>11 DEF Event, Moves
<1> QED
  BY <1>9, <1>10, <1>12, <1>13, <1>14, <1>16, <1>17 DEF IInv

\* A write is of a piece launched, and everything else is behind that.
LEMMA WrittenIsAhead ==
  ASSUME IInv, NEW t \in writes
  PROVE  /\ t \in Transactions /\ t.idx > 0 /\ t.src \in Batches
         /\ t \in Held /\ t \in OnLine /\ Real(launched)
         /\ t \notin {in.slot, pipe.t, out.t} \cup Range(toPipeline) \cup Range(toOutput)
                       \cup Range(pipe.kids) \cup Range(toNack)
         /\ \A u \in Transactions : Before(launched, u) => Before(t, u)
<1>1. t \in Transactions /\ t.idx > 0
  BY DEF IInv, TypeOK, Kinds
<1>2. t # None /\ t # EndOfStream /\ Real(t)
  BY <1>1, HeldIsReal DEF IInv
<1>3. t.src \in Batches /\ t.src \in Nat /\ t.idx \in Nat
  BY <1>1 DEF Transactions, Batches
<1>4. t \in Held /\ t \in OnLine
  BY <1>2 DEF Held, OnLine
<1>5. t = launched \/ Before(t, launched)
  BY DEF IInv, InOrder
<1>6. launched.src \in Nat /\ launched.idx \in Nat
  <2>1. launched \in Transactions \cup {None}
    BY DEF IInv, TypeOK
  <2> QED
    BY <2>1 DEF Transactions, Batches, None
<1>7. Real(launched) /\ ~Before(launched, t)
  BY <1>2, <1>3, <1>5, <1>6 DEF Real, Before
<1>8. t \notin {in.slot, out.t} \cup InHand \cup Range(toPipeline) \cup Range(toOutput)
  BY <1>2, <1>7 DEF IInv, InOrder, Precede
<1>9. t \notin Range(toNack)
  BY <1>4, NotCollected
<1>10. ASSUME NEW u \in Transactions, Before(launched, u) PROVE Before(t, u)
  <2>1. u.src \in Nat /\ u.idx \in Nat
    BY DEF Transactions, Batches
  <2> QED
    BY <1>3, <1>5, <1>6, <1>10, <2>1 DEF Before
<1> QED
  BY <1>1, <1>3, <1>4, <1>7, <1>8, <1>9, <1>10 DEF InHand

\* A write starts: its piece is the last launched.
LEMMA OutLaunchKeeps ==
  ASSUME IInv, OutLaunch
  PROVE  IInv' /\ Event
<1> USE DEF queues, shutdown, acking
<1> DEFINE t == out.t
<1>1. /\ out.pc = "units" /\ writes' = writes \cup {t} /\ launched' = t
      /\ IF t.mark THEN SawError(t.src) ELSE UNCHANGED errored
      /\ out' = [pc |-> "pop", t |-> None]
      /\ UNCHANGED <<startPc, in, pipe, queues, shutdown, acking, split, wrote, dropped>>
  BY DEF OutLaunch
<1>2. t \in Transactions /\ t # None /\ t.idx > 0
  BY <1>1 DEF IInv, TypeOK, Shape, Kinds
<1>3. t # EndOfStream /\ Real(t) /\ ~Real(None) /\ t.src \in Batches
  BY <1>2, HeldIsReal DEF IInv, Real, None, Transactions
<1>4. t \in Held /\ t.src <= stats.batches_in
  BY <1>2, <1>3 DEF Held, IInv, Account
<1>5. out' \in [pc : OutPcs, t : Transactions \cup {None}] /\ out'.t = None /\ out'.pc = "pop"
  BY <1>1 DEF OutPcs
<1>6. errored' \in SUBSET Batches /\ errored \subseteq errored' /\ errored' \subseteq errored \cup {t.src}
      /\ (errored' = errored \/ t.mark)
  BY <1>1, <1>3 DEF SawError, IInv, TypeOK
<1>7. Held' = Held /\ OnLine' = OnLine
  BY <1>1, <1>5 DEF Held, OnLine
<1>8. TypeOK'
  BY <1>1, <1>2, <1>5, <1>6 DEF IInv, TypeOK
<1>9. Shape'
  BY <1>1, <1>4, <1>5 DEF IInv, Shape
<1>10. InOrder'
  <2>1. \A w \in writes' : w = launched' \/ Before(w, launched')
    <3>1. Precede({launched}, {t})
      BY DEF IInv, InOrder
    <3>2. Real(launched) => Before(launched, t)
      BY <1>3, <3>1 DEF Precede
    <3> QED
      BY <1>1, <1>2, <3>2, WrittenIsAhead
  <2> QED
    BY <1>1, <1>3, <1>5, <2>1 DEF IInv, InOrder, InHand, Precede
<1>11. Kinds'
  BY <1>1, <1>2, <1>5 DEF IInv, Kinds
<1>12. Apart'
  BY <1>1, <1>7 DEF IInv, Apart
<1>13. Account'
  <2>1. \A b \in Batches : Blamed(b)' <=> Blamed(b)
    BY <1>1 DEF Blamed
  <2>2. ASSUME NEW b \in Batches, b \in errored', b \notin errored
        PROVE  Marked(b)
    BY <1>4, <1>6, <2>2 DEF Marked
  <2>3. ASSUME NEW b \in Batches, Whole(b), Strict, b \in errored'
        PROVE  Blamed(b)'
    <3>1. b # t.src
      BY <1>2, <1>4, <2>3, HeldBatch DEF Whole, IInv
    <3> QED
      BY <1>6, <2>1, <2>3, <3>1 DEF IInv, Account, Accounted
  <2>4. ASSUME NEW b \in Batches, Blamed(b)'
        PROVE  Whole(b)
    <3>1. pipe.pc = "proc" /\ pipe.t.src = b
      BY <2>1, <2>4 DEF Blamed
    <3> QED
      BY <3>1, InProcess DEF Whole
  <2> QED
    BY <1>1, <1>7, <2>2, <2>3, <2>4, AccountKept DEF IInv
<1>14. Event
  BY <1>1, <1>7 DEF Event, Moves
<1> QED
  BY <1>8, <1>9, <1>10, <1>11, <1>12, <1>13, <1>14 DEF IInv

\* A write ends, well or badly, and answers for its piece.
LEMMA WriteDoneKeeps ==
  ASSUME IInv, NEW t \in writes, WriteDone(t)
  PROVE  IInv' /\ Event
<1> USE DEF queues, shutdown
<1>1. PICK e \in BOOLEAN :
        /\ CallAck(t, e) /\ (Strict /\ t.mark => e)
        /\ stats' = IF e THEN [stats EXCEPT !.nacks = @ + 1] ELSE [stats EXCEPT !.acks = @ + 1]
        /\ wrote' = IF e THEN wrote ELSE [wrote EXCEPT ![t.src] = @ \cup {t.idx}]
        /\ writes' = writes \ {t}
        /\ UNCHANGED <<startPc, in, pipe, out, queues, shutdown, split, dropped, errored, launched>>
  <2>1. CASE WriteOk(t)
    BY <2>1 DEF WriteOk, Ack
  <2>2. CASE WriteFailed(t)
    BY <2>2 DEF WriteFailed, Nack, history
  <2> QED
    BY <2>1, <2>2 DEF WriteDone
<1>2. /\ t \in Transactions /\ t.idx > 0 /\ t.src \in Batches /\ t \in Held
      /\ t \notin {in.slot, pipe.t, out.t} \cup Range(toPipeline) \cup Range(toOutput)
                    \cup Range(pipe.kids) \cup Range(toNack)
  BY WrittenIsAhead
<1>3. /\ stats' \in [batches_in : 0 .. NBatches, acks : Nat, nacks : Nat, filtered : Nat]
      /\ stats'.batches_in = stats.batches_in /\ Tally' = Tally + 1
  <2>1. stats \in [batches_in : 0 .. NBatches, acks : Nat, nacks : Nat, filtered : Nat]
    BY DEF IInv, TypeOK
  <2>2. CASE e
    BY <1>1, <2>1, <2>2 DEF Tally
  <2>3. CASE ~e
    BY <1>1, <2>1, <2>3 DEF Tally
  <2> QED
    BY <2>2, <2>3
<1>4. /\ AckPiece(t, e) /\ group' \in [Batches -> Groups]
      /\ answers' \in [Batches -> Seq({"ack", "nack"})]
  BY <1>1, <1>2, AckPieceType
<1>5. wrote' \in [Batches -> SUBSET Nat]
  BY <1>1, <1>2 DEF IInv, TypeOK, Transactions
<1>6. TypeOK'
  BY <1>1, <1>3, <1>4, <1>5 DEF IInv, TypeOK
<1>7. Shape'
  BY <1>1, <1>3 DEF IInv, Shape
<1>8. Held' = Held \ {t} /\ OnLine' = OnLine \ {t}
  BY <1>1, <1>2 DEF Held, OnLine
<1>9. InOrder'
  BY <1>1 DEF IInv, InOrder, InHand
<1>10. Kinds'
  BY <1>1 DEF IInv, Kinds
<1>11. Apart'
  BY <1>1, <1>8 DEF IInv, Apart
<1>12. \A b \in Batches : Blamed(b)' <=> Blamed(b)
  BY <1>1 DEF Blamed
<1>13. Account'
  BY <1>1, <1>2, <1>3, <1>4, <1>8, <1>12, AccountSettled DEF IInv
<1>14. Event
  BY <1>1, <1>2, <1>3, <1>4, <1>8 DEF Event, Settles
<1> QED
  BY <1>6, <1>7, <1>9, <1>10, <1>11, <1>13, <1>14 DEF IInv
-----------------------------------------------------------------------------
(* shutdown *)

\* No two elements of q have the same key.
KeysDiffer(q) == \A i, j \in DOMAIN q : SameKey(q[i], q[j]) => i = j

\* collect() leaves out the end of the stream, which is the last slot.
LEMMA QueuedFacts ==
  ASSUME NEW q \in Seq(Slots), Sorted(q)
  PROVE  /\ Queued(q) \in Seq(Transactions)
         /\ Range(Queued(q)) = Range(q) \ {EndOfStream}
         /\ KeysDiffer(Queued(q))
<1> DEFINE n == Len(q)
<1>1. n \in Nat /\ DOMAIN q = 1 .. n /\ \A i \in 1 .. n : q[i] \in Slots
  OBVIOUS
<1>2. \A s \in Slots : Real(s) <=> s # EndOfStream
  BY DEF Slots, Real, EndOfStream, Transactions, Batches
<1>3. \A s \in Slots : s \in Transactions <=> s # EndOfStream
  BY DEF Slots, EndOfStream, Transactions, Batches
<1>4. \A i \in 1 .. n : i < n => q[i] \in Transactions
  <2>1. ASSUME NEW i \in 1 .. n, i < n PROVE q[i] \in Transactions
    <3>1. n \in DOMAIN q
      BY <1>1, <2>1
    <3>2. Real(q[i])
      BY <1>1, <2>1, <3>1 DEF Sorted
    <3> QED
      BY <1>1, <1>2, <1>3, <3>2
  <2> QED
    BY <2>1
<1>5. \A i, j \in 1 .. n : i < j /\ q[j] \in Transactions => ~SameKey(q[i], q[j])
  <2>1. ASSUME NEW i \in 1 .. n, NEW j \in 1 .. n, i < j, q[j] \in Transactions
        PROVE  ~SameKey(q[i], q[j])
    <3>1. Before(q[i], q[j])
      BY <1>1, <1>2, <1>3, <2>1 DEF Sorted
    <3>2. q[j].src \in Nat /\ q[j].idx \in Nat
      BY <2>1 DEF Transactions, Batches
    <3> QED
      BY <3>1, <3>2 DEF Before, SameKey
  <2> QED
    BY <2>1
<1>6. \A i, j \in 1 .. n : SameKey(q[i], q[j]) => SameKey(q[j], q[i])
  BY DEF SameKey
<1>7. CASE n # 0 /\ q[n] = EndOfStream
  <2> DEFINE r == SubSeq(q, 1, n - 1)
  <2>1. Queued(q) = r
    BY <1>1, <1>7 DEF Queued
  <2>2. r \in Seq(Slots) /\ DOMAIN r = 1 .. n - 1 /\ \A i \in 1 .. n - 1 : r[i] = q[i]
    BY <1>1, <1>7
  <2>3. \A i \in 1 .. n - 1 : r[i] \in Transactions
    BY <1>1, <1>4, <2>2
  <2> HIDE DEF r
  <2>4. r \in Seq(Transactions)
    <3>1. r \in [1 .. n - 1 -> Transactions]
      BY <2>2, <2>3
    <3> QED
      BY <1>1, <1>7, <3>1
  <2>5. Range(r) = Range(q) \ {EndOfStream}
    <3>1. \A i \in 1 .. n : i = n \/ i \in 1 .. n - 1
      <4>1. \A m \in Nat : \A i \in 1 .. m : i = m \/ i \in 1 .. m - 1
        OBVIOUS
      <4> QED
        BY <1>1, <4>1
    <3>2. \A i \in 1 .. n - 1 : i \in 1 .. n /\ q[i] # EndOfStream
      BY <1>1, <1>3, <1>4
    <3> QED
      BY <1>1, <1>7, <2>2, <3>1, <3>2 DEF Range
  <2>6. KeysDiffer(r)
    BY <1>1, <1>5, <1>6, <2>2, <2>3 DEF KeysDiffer
  <2> QED
    BY <2>1, <2>4, <2>5, <2>6
<1>8. CASE ~(n # 0 /\ q[n] = EndOfStream)
  <2>1. Queued(q) = q
    <3>1. q # <<>> => n # 0
      OBVIOUS
    <3> QED
      BY <1>8, <3>1 DEF Queued
  <2>2. \A i \in 1 .. n : q[i] \in Transactions
    BY <1>1, <1>3, <1>4, <1>8
  <2>3. q \in Seq(Transactions)
    <3>1. q \in [1 .. n -> Transactions]
      BY <1>1, <2>2
    <3> QED
      BY <1>1, <3>1
  <2>4. Range(q) = Range(q) \ {EndOfStream}
    BY <1>1, <1>3, <2>2 DEF Range
  <2>5. KeysDiffer(q)
    BY <1>1, <1>5, <1>6, <2>2 DEF KeysDiffer
  <2> QED
    BY <2>1, <2>3, <2>4, <2>5
<1> QED
  BY <1>7, <1>8

\* Two collections one after the other.
LEMMA ConcatFacts ==
  ASSUME NEW p \in Seq(Transactions), NEW q \in Seq(Transactions),
         KeysDiffer(p), KeysDiffer(q),
         \A s \in Range(p), t \in Range(q) : ~SameKey(s, t)
  PROVE  /\ p \o q \in Seq(Transactions)
         /\ Range(p \o q) = Range(p) \cup Range(q)
         /\ KeysDiffer(p \o q)
<1> DEFINE r == p \o q
<1>1. /\ DOMAIN p = 1 .. Len(p) /\ DOMAIN q = 1 .. Len(q)
      /\ DOMAIN r = 1 .. (Len(p) + Len(q))
      /\ Len(p) \in Nat /\ Len(q) \in Nat
  OBVIOUS
<1>2. \A i \in DOMAIN p : i \in DOMAIN r /\ r[i] = p[i]
  OBVIOUS
<1>3. \A i \in DOMAIN q : i + Len(p) \in DOMAIN r /\ r[i + Len(p)] = q[i]
  OBVIOUS
<1>4. \A i \in DOMAIN r : i \in DOMAIN p \/ i - Len(p) \in DOMAIN q
  BY <1>1
<1>5. \A i \in DOMAIN r : i \notin DOMAIN p => r[i] = q[i - Len(p)]
  BY <1>1, <1>3, <1>4
<1>6. r \in Seq(Transactions)
  OBVIOUS
<1> HIDE DEF r
<1>7. Range(r) = Range(p) \cup Range(q)
  BY <1>2, <1>3, <1>4, <1>5 DEF Range
<1>8. ASSUME NEW i \in DOMAIN r, NEW j \in DOMAIN r, SameKey(r[i], r[j])
      PROVE  i = j
  <2>1. CASE i \in DOMAIN p /\ j \in DOMAIN p
    BY <1>2, <1>8, <2>1 DEF KeysDiffer
  <2>2. CASE i \notin DOMAIN p /\ j \notin DOMAIN p
    <3>1. i - Len(p) = j - Len(p)
      BY <1>4, <1>5, <1>8, <2>2 DEF KeysDiffer
    <3> QED
      BY <1>1, <3>1
  <2>3. CASE i \in DOMAIN p /\ j \notin DOMAIN p
    BY <1>2, <1>4, <1>5, <1>8, <2>3 DEF Range
  <2>4. CASE i \notin DOMAIN p /\ j \in DOMAIN p
    BY <1>2, <1>4, <1>5, <1>8, <2>4 DEF Range, SameKey
  <2> QED
    BY <2>1, <2>2, <2>3, <2>4
<1> QED
  BY <1>6, <1>7, <1>8 DEF KeysDiffer, r

\* What stop_now collects: every queued transaction, each once.
LEMMA CollectedFacts ==
  ASSUME IInv
  PROVE  /\ Collected \in Seq(Transactions)
         /\ Range(Collected) = (Range(toPipeline) \cup Range(toOutput)) \ {EndOfStream}
         /\ KeysDiffer(Collected)
<1> DEFINE p == Queued(toPipeline)
           q == Queued(toOutput)
<1>1. toPipeline \in Seq(Slots) /\ toOutput \in Seq(Slots)
      /\ Sorted(toPipeline) /\ Sorted(toOutput)
  BY DEF IInv, TypeOK, InOrder
<1>2. /\ p \in Seq(Transactions) /\ Range(p) = Range(toPipeline) \ {EndOfStream} /\ KeysDiffer(p)
      /\ q \in Seq(Transactions) /\ Range(q) = Range(toOutput) \ {EndOfStream} /\ KeysDiffer(q)
  BY <1>1, QueuedFacts
<1> HIDE DEF p, q
<1>3. ASSUME NEW s \in Range(p), NEW t \in Range(q) PROVE ~SameKey(s, t)
  <2>1. s \in Transactions /\ t \in Transactions
    BY <1>2 DEF Range
  <2>2. Before(t, s)
    BY <1>2, <2>1, HeldIsReal DEF IInv, InOrder, Precede
  <2>3. s.src \in Nat /\ s.idx \in Nat
    BY <2>1 DEF Transactions, Batches
  <2> QED
    BY <2>2, <2>3 DEF Before, SameKey
<1> QED
  BY <1>2, <1>3, ConcatFacts DEF Collected, p, q

\* The queues are emptied into to_nack.
LEMMA CollectKeeps ==
  ASSUME IInv, toNack' = toNack \o Collected, toPipeline' = <<>>, toOutput' = <<>>,
         in' \in [pc : InPcs, slot : Transactions \cup {None}], in'.slot = in.slot,
         in'.pc \in {"wait", "ready", "nack"} <=> in.pc \in {"wait", "ready", "nack"},
         in.pc = "idle" => in'.pc = "idle",
         pipe' \in PipeType, pipe'.t = pipe.t, pipe'.stage = pipe.stage,
         pipe'.todo = pipe.todo, pipe'.next = pipe.next, pipe'.kids = pipe.kids,
         pipe'.pc \in {"wait", "ready", "nack"} <=> pipe.pc \in {"wait", "ready", "nack"},
         pipe'.pc = "proc" <=> pipe.pc = "proc", pipe.pc = "idle" => pipe'.pc = "idle",
         {aborted', drain', stopNow'} \subseteq BOOLEAN, stopPc' \in {"yield", "nack"},
         UNCHANGED <<startPc, out, writes, gateClosed, finished, closed, acking, history>>
  PROVE  IInv' /\ Event
<1> USE DEF acking, history
<1>1. /\ Collected \in Seq(Transactions)
      /\ Range(Collected) = (Range(toPipeline) \cup Range(toOutput)) \ {EndOfStream}
      /\ KeysDiffer(Collected)
  BY CollectedFacts
<1>2. toNack \in Seq(Transactions) /\ KeysDiffer(toNack)
  BY DEF IInv, TypeOK, Apart, KeysDiffer
<1>3. ASSUME NEW s \in Range(toNack), NEW t \in Range(Collected) PROVE ~SameKey(s, t)
  <2>1. t \in Transactions
    BY <1>1 DEF Range
  <2>2. t \in OnLine
    BY <1>1, <2>1, HeldIsReal DEF OnLine, IInv
  <2> QED
    BY <2>2 DEF IInv, Apart
<1>4. /\ toNack' \in Seq(Transactions) /\ KeysDiffer(toNack')
      /\ Range(toNack') = Range(toNack) \cup Range(Collected)
  BY <1>1, <1>2, <1>3, ConcatFacts
<1>5. Range(<<>>) = {}
  BY DEF Range
<1>6. TypeOK'
  BY <1>4 DEF IInv, TypeOK, PipeType, StopPcs
<1>7. Shape'
  BY <1>5 DEF IInv, Shape
<1>8. Held' = Held
  BY <1>1, <1>4, <1>5 DEF Held
<1>9. OnLine' = ({in.slot, pipe.t, out.t} \cup writes \cup Range(pipe.kids)) \ {None, EndOfStream}
  BY <1>5 DEF OnLine
<1>10. InOrder'
  BY <1>5 DEF IInv, InOrder, InHand, Precede, Sorted
<1>11. Kinds'
  BY <1>5 DEF IInv, Kinds
<1>12. Apart'
  <2>1. ASSUME NEW s \in Range(toNack'), NEW t \in OnLine' PROVE ~SameKey(s, t)
    <3>1. t \in OnLine /\ t \in Held /\ Real(t)
      <4>1. t \in OnLine /\ t \in Held
        BY <1>9 DEF OnLine, Held
      <4> QED
        BY <4>1, HeldIsReal DEF IInv
    <3>2. CASE s \in Range(toNack)
      BY <3>1, <3>2 DEF IInv, Apart
    <3>3. CASE s \in Range(Collected)
      <4>1. s \in Held
        <5>1. s \in Transactions
          BY <1>1, <3>3 DEF Range
        <5>2. s # None /\ s # EndOfStream
          BY <5>1, HeldIsReal DEF IInv
        <5> QED
          BY <1>1, <3>3, <5>2 DEF Held
      <4>2. Real(s) /\ ~Before(s, s)
        <5>1. s \in Transactions
          BY <1>1, <3>3 DEF Range
        <5>2. s.src \in Nat /\ s.idx \in Nat
          BY <5>1 DEF Transactions, Batches
        <5> QED
          BY <5>1, <5>2, HeldIsReal DEF IInv, Before
      <4>3. s \notin {in.slot, out.t} \cup InHand
        BY <1>1, <3>3, <4>2 DEF IInv, InOrder, Precede
      <4>4. s \notin writes
        BY <1>1, <3>3, WrittenIsAhead
      <4>5. s # t
        BY <1>9, <4>3, <4>4 DEF InHand
      <4> QED
        BY <3>1, <4>1, <4>5 DEF IInv, Account
    <3> QED
      BY <1>4, <3>2, <3>3
  <2> QED
    BY <1>4, <2>1 DEF Apart, KeysDiffer
<1>13. \A b \in Batches : Blamed(b)' <=> Blamed(b)
  BY DEF Blamed, HasError
<1>14. Account'
  BY <1>8, <1>13, AccountStill DEF IInv
<1>15. Event
  BY <1>8 DEF Event, Moves
<1> QED
  BY <1>6, <1>7, <1>10, <1>11, <1>12, <1>14, <1>15 DEF IInv

\* stop_now aborts the queues and collects what was in them.
LEMMA StopNowKeeps ==
  ASSUME IInv, stopPc \in {"running", "graceful"}, StopNow
  PROVE  IInv' /\ Event
<1>1. /\ drain' = TRUE /\ stopNow' = TRUE /\ aborted' = TRUE /\ stopPc' = "yield"
      /\ toNack' = Collected /\ toPipeline' = <<>> /\ toOutput' = <<>>
      /\ in' = Woken(in) /\ pipe' = Woken(pipe)
      /\ UNCHANGED <<startPc, out, writes, gateClosed, finished, closed, acking, history>>
  BY DEF StopNow
<1>2. toNack' = toNack \o Collected
  <2>1. toNack = <<>>
    BY DEF IInv, Shape
  <2> QED
    BY <1>1, <2>1, CollectedFacts
<1> QED
  BY <1>1, <1>2, WokenInput, WokenPipe, CollectKeeps

\* After its yield stop_now collects what the fibers pushed in between.
LEMMA CollectAgainKeeps ==
  ASSUME IInv, CollectAgain
  PROVE  IInv' /\ Event
<1>1. /\ toNack' = toNack \o Collected /\ toPipeline' = <<>> /\ toOutput' = <<>>
      /\ stopPc' = "nack"
      /\ UNCHANGED <<startPc, in, pipe, out, writes, aborted, drain, stopNow, gateClosed,
                     finished, closed, acking, history>>
  BY DEF CollectAgain
<1>2. /\ in \in [pc : InPcs, slot : Transactions \cup {None}] /\ pipe \in PipeType
      /\ {aborted, drain, stopNow} \subseteq BOOLEAN
  BY DEF IInv, TypeOK, PipeType
<1> QED
  BY <1>1, <1>2, CollectKeeps

\* stop_now nacks what it collected, one after the other.
LEMMA NackCollectedKeeps ==
  ASSUME IInv, NackCollected
  PROVE  IInv' /\ Event
<1> USE DEF queues, shutdown, history
<1> DEFINE h == Head(toNack)
<1>1. /\ stopPc = "nack" /\ toNack # <<>> /\ toNack' = Tail(toNack)
      /\ CallAck(h, TRUE) /\ stats' = [stats EXCEPT !.nacks = @ + 1]
      /\ UNCHANGED <<startPc, in, pipe, out, writes, queues, drain, stopNow, stopPc,
                     gateClosed, finished, closed, history>>
  BY DEF NackCollected, Nack
<1>2. toNack \in Seq(Transactions) /\ KeysDiffer(toNack)
  BY DEF IInv, TypeOK, Apart, KeysDiffer
<1>3. h \in Transactions /\ toNack' \in Seq(Transactions)
  BY <1>1, <1>2, TailType
<1>4. Range(toNack) = Range(toNack') \cup {h}
  BY <1>1, <1>2, RangeTail
<1>5. KeysDiffer(toNack') /\ h \notin Range(toNack')
  <2>1. DOMAIN toNack = 1 .. Len(toNack) /\ DOMAIN toNack' = 1 .. Len(toNack) - 1
        /\ Len(toNack) \in Nat \ {0}
    BY <1>1, <1>2
  <2>2. \A i \in DOMAIN toNack' : i + 1 \in DOMAIN toNack /\ toNack'[i] = toNack[i + 1]
    BY <1>1, <1>2
  <2>3. h = toNack[1] /\ 1 \in DOMAIN toNack
    BY <1>1, <1>2, <2>1
  <2>4. KeysDiffer(toNack')
    <3>1. ASSUME NEW i \in DOMAIN toNack', NEW j \in DOMAIN toNack', SameKey(toNack'[i], toNack'[j])
          PROVE  i = j
      <4>1. i + 1 = j + 1
        BY <1>2, <2>2, <3>1 DEF KeysDiffer
      <4> QED
        BY <2>1, <4>1
    <3> QED
      BY <3>1 DEF KeysDiffer
  <2>5. ASSUME h \in Range(toNack') PROVE FALSE
    <3>1. PICK i \in DOMAIN toNack' : h = toNack[i + 1] /\ i + 1 \in DOMAIN toNack
      BY <2>2, <2>5 DEF Range
    <3>2. 1 = i + 1
      BY <1>2, <2>3, <3>1 DEF KeysDiffer, SameKey
    <3> QED
      BY <2>1, <3>2
  <2> QED
    BY <2>4, <2>5
<1>6. h \in Held /\ h \notin OnLine /\ h # None /\ h # EndOfStream
  <2>1. h \in Range(toNack)
    BY <1>4
  <2> QED
    BY <1>3, <2>1, HeldIsReal, NotCollected DEF IInv, Held
<1> HIDE DEF h
<1>7. Held' = Held \ {h} /\ OnLine' = OnLine
  <2>1. OnLine' = OnLine
    BY <1>1 DEF OnLine
  <2>2. Held = OnLine \cup (Range(toNack) \ {None, EndOfStream})
        /\ Held' = OnLine' \cup (Range(toNack') \ {None, EndOfStream})
    BY DEF Held, OnLine
  <2> QED
    BY <1>4, <1>5, <1>6, <2>1, <2>2
<1>8. /\ stats' \in [batches_in : 0 .. NBatches, acks : Nat, nacks : Nat, filtered : Nat]
      /\ stats'.batches_in = stats.batches_in /\ Tally' = Tally + 1
  <2>1. stats \in [batches_in : 0 .. NBatches, acks : Nat, nacks : Nat, filtered : Nat]
    BY DEF IInv, TypeOK
  <2> QED
    BY <1>1, <2>1 DEF Tally
<1>9. group' \in [Batches -> Groups] /\ answers' \in [Batches -> Seq({"ack", "nack"})]
  <2>1. CASE h.idx = 0
    <3>1. AckSource(h.src, TRUE)
      BY <1>1, <2>1 DEF CallAck
    <3> QED
      BY <1>3, <3>1 DEF AckSource, IInv, TypeOK, Transactions
  <2>2. CASE h.idx > 0
    BY <1>1, <1>6, <2>2, AckPieceType
  <2> QED
    BY <1>3, <2>1, <2>2 DEF Transactions
<1>10. TypeOK'
  BY <1>1, <1>3, <1>8, <1>9 DEF IInv, TypeOK
<1>11. Shape'
  BY <1>1, <1>8 DEF IInv, Shape
<1>12. InOrder'
  BY <1>1 DEF IInv, InOrder, InHand
<1>13. Kinds'
  BY <1>1 DEF IInv, Kinds
<1>14. Apart'
  BY <1>4, <1>5, <1>7 DEF IInv, Apart, KeysDiffer
<1>15. \A b \in Batches : Blamed(b)' <=> Blamed(b)
  BY <1>1 DEF Blamed
<1>16. Account'
  <2>1. CASE h.idx = 0
    <3>1. AckSource(h.src, TRUE)
      BY <1>1, <2>1 DEF CallAck
    <3> QED
      BY <1>1, <1>6, <1>7, <1>8, <1>15, <2>1, <3>1, AccountAnswered DEF IInv
  <2>2. CASE h.idx > 0
    <3>1. AckPiece(h, TRUE)
      BY <1>1, <1>6, <2>2, AckPieceType
    <3> QED
      BY <1>1, <1>6, <1>7, <1>8, <1>15, <2>2, <3>1, AccountSettled DEF IInv
  <2> QED
    BY <1>3, <2>1, <2>2 DEF Transactions
<1>17. Event
  <2>1. CASE h.idx = 0
    <3>1. AckSource(h.src, TRUE)
      BY <1>1, <2>1 DEF CallAck
    <3> QED
      BY <1>1, <1>6, <1>7, <1>8, <2>1, <3>1 DEF Event, Answers
  <2>2. CASE h.idx > 0
    <3>1. AckPiece(h, TRUE)
      BY <1>1, <1>6, <2>2, AckPieceType
    <3> QED
      BY <1>1, <1>6, <1>7, <1>8, <2>2, <3>1 DEF Event, Settles
  <2> QED
    BY <1>3, <2>1, <2>2 DEF Transactions
<1> QED
  BY <1>10, <1>11, <1>12, <1>13, <1>14, <1>16, <1>17 DEF IInv
-----------------------------------------------------------------------------
(* The invariant *)

\* Nothing is held at first.
LEMMA InitHolds == Init => IInv
<1> SUFFICES ASSUME Init PROVE IInv
  OBVIOUS
<1>1. /\ in = [pc |-> "idle", slot |-> None] /\ out = [pc |-> "idle", t |-> None]
      /\ pipe = IdlePipe("idle") /\ writes = {} /\ launched = None
      /\ toPipeline = <<>> /\ toOutput = <<>> /\ toNack = <<>>
      /\ startPc = "connect_in" /\ stopPc = "running"
      /\ stats = [batches_in |-> 0, acks |-> 0, nacks |-> 0, filtered |-> 0]
      /\ answers = [b \in Batches |-> <<>>] /\ split = [b \in Batches |-> 0]
      /\ wrote = [b \in Batches |-> {}] /\ dropped = {} /\ errored = {}
      /\ group = [b \in Batches |-> NewGroup]
  BY DEF Init
<1>2. /\ pipe \in PipeType /\ pipe.pc = "idle" /\ pipe.t = None /\ pipe.kids = <<>>
  BY <1>1, IdlePipeType DEF PipePcs
<1>3. Range(<<>>) = {}
  BY DEF Range
<1>4. ~Real(None) /\ None.src = 0 /\ None.idx = 0
  BY DEF Real, None
<1>5. TypeOK
  <2>1. NewGroup \in Groups /\ stats.batches_in \in 0 .. NBatches
    BY <1>1, StreamAssumption DEF NewGroup, Groups
  <2>2. stats \in [batches_in : 0 .. NBatches, acks : Nat, nacks : Nat, filtered : Nat]
    BY <1>1, <2>1
  <2>3. in \in [pc : InPcs, slot : Transactions \cup {None}]
        /\ out \in [pc : OutPcs, t : Transactions \cup {None}]
    BY <1>1 DEF InPcs, OutPcs
  <2> QED
    <3>1. /\ {aborted, drain, stopNow, gateClosed, finished} \subseteq BOOLEAN
          /\ stopPc \in StopPcs /\ closed \in SUBSET {"close_in", "close_procs", "close_out"}
      BY DEF Init, StopPcs
    <3>2. /\ writes \in SUBSET Transactions /\ toPipeline \in Seq(Slots) /\ toOutput \in Seq(Slots)
          /\ toNack \in Seq(Transactions)
      BY <1>1
    <3>3. /\ group \in [Batches -> Groups] /\ answers \in [Batches -> Seq({"ack", "nack"})]
          /\ split \in [Batches -> Nat] /\ wrote \in [Batches -> SUBSET Nat]
      BY <1>1, <2>1
    <3> QED
      BY <1>1, <1>2, <2>2, <2>3, <3>1, <3>2, <3>3 DEF TypeOK, PipeType
<1>6. Shape
  BY <1>1, <1>2, <1>3, <1>4 DEF Shape
<1>7. InOrder
  BY <1>1, <1>2, <1>3, <1>4 DEF InOrder, InHand, Precede, Sorted
<1>8. Kinds
  BY <1>1, <1>2, <1>3, <1>4 DEF Kinds
<1>9. Held = {} /\ OnLine = {}
  BY <1>1, <1>2, <1>3 DEF Held, OnLine
<1>10. Apart
  BY <1>1, <1>3 DEF Apart
<1>11. Account
  <2>1. Read = {}
    BY <1>1 DEF Read
  <2>2. \A b \in Batches : Clean(b) /\ ~Whole(b) /\ OpenPieces(b) = {}
    BY <1>1, <1>9 DEF Clean, Whole, OpenPieces
  <2> QED
    BY <1>1, <1>9, <2>1, <2>2 DEF Account, Accounted
<1> QED
  BY <1>5, <1>6, <1>7, <1>8, <1>10, <1>11 DEF IInv

\* A stream that stopped, and a step of nobody, change nothing.
LEMMA StutterKeeps ==
  ASSUME IInv, UNCHANGED vars
  PROVE  IInv' /\ Event
<1>1. UNCHANGED Places /\ UNCHANGED <<acking, history>> /\ pipe' = pipe
  BY DEF vars, Places, queues, shutdown, history
<1>2. TypeOK'
  BY DEF IInv, TypeOK, vars, queues, shutdown, acking, history
<1>3. Shape'
  BY DEF IInv, Shape, vars, queues, shutdown, acking, history
<1> QED
  BY <1>1, <1>2, <1>3, Still

\* Every step keeps the line in order and the accounts right.
LEMMA NextKeeps ==
  ASSUME IInv, [Next]_vars
  PROVE  IInv' /\ Event
<1>1. CASE Start
  BY <1>1, StartKeeps
<1>2. CASE InputRead
  BY <1>2, InputReadKeeps
<1>3. CASE InputEnd
  BY <1>3, LayerStepsKeep
<1>4. CASE InputPush
  BY <1>4, InputPushKeeps
<1>5. CASE InputNack
  BY <1>5, InputNackKeeps
<1>6. CASE InputEos
  BY <1>6, InputEosKeeps, LayerStepsKeep
<1>7. CASE PipePop
  BY <1>7, LayerStepsKeep, PipePopEosKeeps, PipePopProcKeeps, PipePopDispatchKeeps
<1>8. CASE PipeProcess
  BY <1>8, PipeProcessKeeps
<1>9. CASE PipePush
  BY <1>9, PipePushKeeps
<1>10. CASE PipeNack
  BY <1>10, PipeNackKeeps
<1>11. CASE PipeEos
  BY <1>11, PipeEosKeeps, LayerStepsKeep
<1>12. CASE OutPop
  BY <1>12, OutPopKeeps, LayerStepsKeep
<1>13. CASE OutLaunch
  BY <1>13, OutLaunchKeeps
<1>14. CASE OutDrain \/ OutClose
  BY <1>14, LayerStepsKeep
<1>15. CASE \E t \in writes : WriteDone(t)
  BY <1>15, WriteDoneKeeps
<1>16. CASE RequestDrain \/ StopGracefully \/ GracefulDone \/ CloseGate \/ ForcedDone
            \/ CloseComponents \/ Stopped
  BY <1>16, ShutdownStepsKeep
<1>17. CASE ForceStop \/ GracefulTimeout
  BY <1>17, StopNowKeeps DEF ForceStop, GracefulTimeout
<1>18. CASE CollectAgain
  BY <1>18, CollectAgainKeeps
<1>19. CASE NackCollected
  BY <1>19, NackCollectedKeeps
<1>20. CASE UNCHANGED vars
  BY <1>20, StutterKeeps
<1> QED
  BY <1>1, <1>2, <1>3, <1>4, <1>5, <1>6, <1>7, <1>8, <1>9, <1>10, <1>11, <1>12, <1>13,
     <1>14, <1>15, <1>16, <1>17, <1>18, <1>19, <1>20 DEF Next

\* The line is in order and every batch is accounted for, always.
THEOREM Invariant == Spec => []IInv
<1>1. IInv /\ [Next]_vars => IInv'
  BY NextKeeps
<1> QED
  BY <1>1, InitHolds, PTL DEF Spec

\* Every variable of the stream keeps its type.
THEOREM TypeCorrect == Spec => []TypeOK
<1>1. IInv => TypeOK
  BY DEF IInv
<1> QED
  BY <1>1, Invariant, PTL

\* A batch is answered once at most, and acked only if the output accepted all
\* its pieces or the processors dropped it, and no error was seen under strict
\* mode: stream.cc's acks, through whatever mix of fibers, writes and shutdown.
THEOREM AcksAreEarned == Spec => []AckMeansWritten
<1>1. ASSUME IInv, NEW b \in Batches
      PROVE  /\ Len(answers[b]) <= 1
             /\ answers[b] = <<"ack">> =>
                  /\ b \in dropped \/ (split[b] > 0 /\ wrote[b] = 1 .. split[b])
                  /\ Strict => b \notin errored
  <2>1. answers[b] = <<>> \/ Settled(b)
    BY <1>1 DEF IInv, Account, Accounted, Clean, Split
  <2>2. CASE answers[b] = <<>>
    <3>1. Len(<<>>) = 0 /\ <<>> # <<"ack">>
      OBVIOUS
    <3> QED
      BY <2>2, <3>1
  <2>3. CASE Settled(b)
    <3>1. Len(<<"ack">>) = 1 /\ Len(<<"nack">>) = 1
      OBVIOUS
    <3>2. Len(answers[b]) = 1
      BY <2>3, <3>1 DEF Settled
    <3> QED
      BY <2>3, <3>2 DEF Settled
  <2> QED
    BY <2>1, <2>2, <2>3
<1>2. IInv => AckMeansWritten
  BY <1>1 DEF AckMeansWritten
<1> QED
  BY <1>2, Invariant, PTL

\* A write starts after every write of an earlier batch or piece: the queues, the
\* pieces' order and the output's loop keep the source's order.
THEOREM WritesKeepOrder == Spec => WritesInOrder
<1> DEFINE A == \A t \in writes' \ writes :
                  \/ launched.src < t.src
                  \/ launched.src = t.src /\ launched.idx < t.idx
<1>1. ASSUME IInv, [Next]_vars, NEW t \in writes' \ writes
      PROVE  launched.src < t.src \/ (launched.src = t.src /\ launched.idx < t.idx)
  <2>1. OutLaunch
    <3>1. writes' \subseteq writes \/ OutLaunch
      BY <1>1 DEF Next, vars, Start, InputRead, InputEnd, InputPush, InputNack, InputEos,
           PipePop, PipeProcess, PipePush, PipeNack, PipeEos, OutPop, OutDrain, OutClose,
           WriteDone, WriteOk, WriteFailed, RequestDrain, StopGracefully, ForceStop,
           GracefulDone, GracefulTimeout, StopNow, CollectAgain, NackCollected, CloseGate,
           ForcedDone, CloseComponents, Stopped
    <3> QED
      BY <1>1, <3>1
  <2>2. out.pc = "units" /\ t = out.t
    BY <1>1, <2>1 DEF OutLaunch
  <2>3. t \in Transactions
    BY <1>1, <2>2 DEF IInv, TypeOK, Shape
  <2>4. t.src \in Nat /\ t.src > 0
    BY <2>3 DEF Transactions, Batches
  <2>5. launched \in Transactions \cup {None}
    BY <1>1 DEF IInv, TypeOK
  <2>6. ~Real(launched) => launched.src = 0
    BY <1>1, <2>5, HeldIsReal DEF IInv, None
  <2>7. Real(launched) => Before(launched, t)
    BY <1>1, <2>2, <2>4 DEF IInv, InOrder, Precede, Real
  <2> QED
    BY <2>4, <2>6, <2>7 DEF Before
<1>2. IInv /\ [Next]_vars => A
  BY <1>1
<1>3. IInv /\ [Next]_vars => [A]_vars
  BY <1>2
<1> QED
  BY <1>3, Invariant, PTL DEF Spec, WritesInOrder
-----------------------------------------------------------------------------
(* The stream implements its promise to the source *)

\* The phase of a batch nothing of which is touched stays.
LEMMA OtherBatch ==
  ASSUME NEW c \in Batches,
         \A u : u \in Held' /\ u.src = c <=> u \in Held /\ u.src = c,
         c \in Read' <=> c \in Read
  PROVE  OpenPieces(c)' = OpenPieces(c) /\ Phase(c)' = Phase(c)
<1>1. OpenPieces(c)' = OpenPieces(c)
  BY DEF OpenPieces
<1>2. (\E t \in Held' : t.src = c /\ t.idx = 0) <=> (\E t \in Held : t.src = c /\ t.idx = 0)
  OBVIOUS
<1> QED
  BY <1>1, <1>2 DEF Phase

\* The refinement mapping, batch by batch.
LEMMA PhaseIs ==
  ASSUME NEW b \in Batches
  PROVE  /\ b \notin Read => Phase(b) = "unread"
         /\ b \in Read /\ Whole(b) => Phase(b) = "whole"
         /\ b \in Read /\ ~Whole(b) /\ OpenPieces(b) # {} => Phase(b) = "split"
         /\ b \in Read /\ ~Whole(b) /\ OpenPieces(b) = {} => Phase(b) = "settled"
BY DEF Phase, Whole

\* A batch read is the promise taken on.
LEMMA ReadsRefines ==
  ASSUME IInv, Reads
  PROVE  Promise!Next
<1>1. PICK t : /\ t.src = stats.batches_in + 1 /\ t.idx = 0 /\ t.src \in Batches
               /\ Held' = Held \cup {t} /\ stats'.batches_in = stats.batches_in + 1
               /\ UNCHANGED <<answers, split, wrote>>
  BY DEF Reads
<1> DEFINE b == t.src
<1>2. stats.batches_in \in Nat /\ \A u \in Held : u.src # b
  <2>1. stats.batches_in \in Nat
    BY HeldWasRead
  <2>2. \A u \in Held : u.src <= stats.batches_in /\ u.src \in Nat
    BY HeldWasRead DEF IInv, Account
  <2> QED
    BY <1>1, <2>1, <2>2
<1>3. b \notin Read /\ Read' = Read \cup {b}
  BY <1>1, <1>2 DEF Read
<1>4. Phase(b) = "unread" /\ Phase(b)' = "whole" /\ OpenPieces(b)' = OpenPieces(b)
  BY <1>1, <1>3 DEF Phase, OpenPieces
<1>5. \A c \in Batches : c # b => OpenPieces(c)' = OpenPieces(c) /\ Phase(c)' = Phase(c)
  BY <1>1, <1>3, OtherBatch
<1>6. Promise!ReadBatch(b)
  BY <1>1, <1>4, <1>5 DEF Promise!ReadBatch, phase, pieces, open
<1> QED
  BY <1>1, <1>6 DEF Promise!Next

\* A whole batch answered is the promise kept at once.
LEMMA AnswersRefines ==
  ASSUME IInv, Answers
  PROVE  Promise!Next
<1>1. PICK t \in Held, e \in BOOLEAN :
        /\ t.idx = 0 /\ AckSource(t.src, e)
        /\ Held' = Held \ {t} /\ stats'.batches_in = stats.batches_in
        /\ UNCHANGED <<split, wrote>>
  BY DEF Answers
<1> DEFINE b == t.src
           v == IF e THEN "nack" ELSE "ack"
<1>2. /\ b \in Batches /\ b \in Read /\ Whole(b) /\ Clean(b)
      /\ \A u \in Held : u.src = b => u = t
  BY <1>1, HeldBatch DEF IInv
<1>3. Read' = Read
  BY <1>1 DEF Read
<1>4. Phase(b) = "whole"
  BY <1>2, PhaseIs
<1>5. Phase(b)' = "settled" /\ OpenPieces(b)' = OpenPieces(b)
  <2>1. ~(\E u \in Held' : u.src = b)
    BY <1>1, <1>2
  <2> QED
    BY <1>2, <1>3, <2>1 DEF Phase, OpenPieces, Clean
<1>6. \A c \in Batches : c # b => OpenPieces(c)' = OpenPieces(c) /\ Phase(c)' = Phase(c)
  BY <1>1, <1>3, OtherBatch
<1>7. answers' = [answers EXCEPT ![b] = Append(@, v)] /\ v \in {"ack", "nack"}
  BY <1>1 DEF AckSource
<1>8. Promise!AnswerWhole(b, v)
  BY <1>1, <1>2, <1>4, <1>5, <1>6, <1>7 DEF Promise!AnswerWhole, phase, pieces, open
<1> QED
  BY <1>2, <1>7, <1>8 DEF Promise!Next

\* A batch dispatched is the promise split.
LEMMA SplitsRefines ==
  ASSUME IInv, IInv', Splits
  PROVE  Promise!Next
<1>1. PICK t \in Held, bs \in Seq(BOOLEAN) :
        /\ t.idx = 0 /\ bs # <<>>
        /\ Held' = (Held \ {t}) \cup Pieces(t.src, bs)
        /\ split' = [split EXCEPT ![t.src] = Len(bs)]
        /\ UNCHANGED <<stats, answers, wrote>>
  BY DEF Splits
<1> DEFINE b == t.src
           n == Len(bs)
<1>2. /\ b \in Batches /\ b \in Read /\ Whole(b) /\ Clean(b)
      /\ \A u \in Held : u.src = b => u = t
  BY <1>1, HeldBatch DEF IInv
<1>3. Read' = Read
  BY <1>1 DEF Read
<1>4. Phase(b) = "whole"
  BY <1>2, PhaseIs
<1>5. n \in Nat \ {0} /\ DOMAIN bs = 1 .. n /\ 1 \in 1 .. n
  BY <1>1
<1>6. split'[b] = n /\ \A c \in Batches : c # b => split'[c] = split[c]
  BY <1>1, <1>2 DEF IInv, TypeOK
<1>7. \A u \in Held' : \/ u \in Held /\ u.src # b
                       \/ u \in Pieces(b, bs) /\ u.src = b /\ u.idx \in 1 .. n
  BY <1>1, <1>2, <1>5 DEF Pieces
<1>8. OpenPieces(b)' = 1 .. n
  <2>1. ASSUME NEW i \in 1 .. n PROVE i \in OpenPieces(b)'
    <3> DEFINE p == [src |-> b, idx |-> i, mark |-> bs[i]]
    <3>1. p \in Held' /\ p.src = b /\ p.idx > 0 /\ p.idx = i
      BY <1>1, <1>5 DEF Pieces
    <3> HIDE DEF p
    <3> QED
      BY <3>1 DEF OpenPieces
  <2> QED
    BY <1>7, <2>1 DEF OpenPieces
<1>9. Phase(b)' = "split"
  <2>1. ~(\E u \in Held' : u.src = b /\ u.idx = 0)
    BY <1>5, <1>7
  <2> QED
    BY <1>2, <1>3, <1>5, <1>8, <2>1 DEF Phase
<1>10. \A c \in Batches : c # b => OpenPieces(c)' = OpenPieces(c) /\ Phase(c)' = Phase(c)
  <2>1. ASSUME NEW c \in Batches, c # b
        PROVE  \A u : u \in Held' /\ u.src = c <=> u \in Held /\ u.src = c
    BY <1>1, <1>7, <2>1
  <2> QED
    BY <1>3, <2>1, OtherBatch
<1>11. 1 .. n # {} /\ 1 .. n \subseteq Nat
  BY <1>5
<1> HIDE DEF n
<1>12. Promise!SplitBatch(b)
  BY <1>1, <1>2, <1>4, <1>6, <1>8, <1>9, <1>10, <1>11 DEF Promise!SplitBatch, phase, pieces, open
<1> QED
  BY <1>2, <1>12 DEF Promise!Next

\* A piece answered settles that piece, and with the last one the batch.
LEMMA SettlesRefines ==
  ASSUME IInv, Settles
  PROVE  Promise!Next
<1>1. PICK t \in Held, e \in BOOLEAN :
        /\ t.idx > 0 /\ AckPiece(t, e)
        /\ Held' = Held \ {t} /\ stats'.batches_in = stats.batches_in
        /\ wrote' = IF e THEN wrote ELSE [wrote EXCEPT ![t.src] = @ \cup {t.idx}]
        /\ UNCHANGED split
  BY DEF Settles
<1> DEFINE b == t.src
           i == t.idx
           O == OpenPieces(b)
           P == 1 .. split[b]
<1>2. /\ b \in Batches /\ b \in Read /\ i \in O /\ Split(b)
      /\ \A u \in Held : u.src = b => u.idx > 0
  BY <1>1, HeldBatch DEF IInv
<1>3. Read' = Read
  BY <1>1 DEF Read
<1>4. /\ split[b] \in Nat /\ O \subseteq P /\ i \in P
      /\ group[b] \in Groups /\ wrote[b] \subseteq P \ O
      /\ group[b].err <=> wrote[b] # P \ O
  BY <1>2 DEF IInv, TypeOK, Split
<1>5. Phase(b) = "split"
  BY <1>2, PhaseIs DEF Split
<1>6. OpenPieces(b)' = O \ {i}
  <2>1. \A u \in Held : u.src = b /\ u.idx = i => u = t
    BY DEF IInv, Account, SameKey
  <2> QED
    BY <1>1, <2>1 DEF OpenPieces
<1>7. Phase(b)' = IF O \ {i} = {} THEN "settled" ELSE "split"
  <2>1. ~(\E u \in Held' : u.src = b /\ u.idx = 0)
    BY <1>1, <1>2
  <2> QED
    BY <1>2, <1>3, <1>6, <2>1 DEF Phase
<1>8. \A c \in Batches : c # b => OpenPieces(c)' = OpenPieces(c) /\ Phase(c)' = Phase(c)
  BY <1>1, <1>3, OtherBatch
<1>9. ChildFires(group[b]) <=> O \ {i} = {}
  <2>1. IsFiniteSet(O) /\ Cardinality(O) \in Nat
    BY <1>4, PiecesFinite
  <2>2. Cardinality(O \ {i}) = Cardinality(O) - 1
    BY <1>2, <2>1, FS_RemoveElement
  <2>3. IsFiniteSet(O \ {i})
    BY <2>1, FS_RemoveElement
  <2>4. O \ {i} = {} <=> Cardinality(O \ {i}) = 0
    BY <2>3, FS_EmptySet
  <2> HIDE DEF O, i
  <2>5. group[b].pending = Cardinality(O) /\ group[b].sealed /\ ~group[b].fired
    BY <1>2 DEF Split, O
  <2> QED
    BY <2>1, <2>2, <2>4, <2>5 DEF ChildFires
<1>10. /\ group'[b] = ChildDone(group[b], e)
       /\ answers' = IF ChildFires(group[b])
                     THEN [answers EXCEPT ![b] = Append(@, Verdict(group'[b]))] ELSE answers
  BY <1>1, <1>2 DEF AckPiece, IInv, TypeOK
<1>11. O \ {i} = {} => Verdict(group'[b]) = IF wrote'[b] = P THEN "ack" ELSE "nack"
  <2>1. group'[b].err <=> group[b].err \/ e
    BY <1>4, <1>10 DEF ChildDone, Groups
  <2>2. O \ {i} = {} => P \ O = P \ {i}
    BY <1>2
  <2>3. wrote'[b] = IF e THEN wrote[b] ELSE wrote[b] \cup {i}
    BY <1>1, <1>2 DEF IInv, TypeOK
  <2>4. O \ {i} = {} => (group'[b].err <=> wrote'[b] # P)
    BY <1>2, <1>4, <2>1, <2>2, <2>3
  <2> QED
    BY <2>4 DEF Verdict
<1>12. Promise!Settle(b, i, ~e)
  <2> HIDE DEF O
  <2>1. wrote' = IF ~e THEN [wrote EXCEPT ![b] = @ \cup {i}] ELSE wrote
    BY <1>1
  <2>2. [c \in Batches |-> OpenPieces(c)'] =
          [[c \in Batches |-> OpenPieces(c)] EXCEPT ![b] = @ \ {i}]
    BY <1>2, <1>6, <1>8 DEF O
  <2>3. CASE O \ {i} = {}
    BY <1>1, <1>2, <1>5, <1>6, <1>7, <1>8, <1>9, <1>10, <1>11, <2>1, <2>2, <2>3
       DEF Promise!Settle, phase, pieces, open, O
  <2>4. CASE O \ {i} # {}
    BY <1>1, <1>2, <1>5, <1>6, <1>7, <1>8, <1>9, <1>10, <2>1, <2>2, <2>4
       DEF Promise!Settle, phase, pieces, open, O
  <2> QED
    BY <2>3, <2>4
<1> QED
  BY <1>2, <1>12 DEF Promise!Next, open

\* Every other step leaves the promises as they are.
LEMMA MovesRefines ==
  ASSUME Moves
  PROVE  UNCHANGED Promise!vars
<1>1. Read' = Read
  BY DEF Moves, Read
<1>2. \A b \in Batches : OpenPieces(b)' = OpenPieces(b) /\ Phase(b)' = Phase(b)
  BY <1>1, OtherBatch DEF Moves
<1> QED
  BY <1>2 DEF Moves, Promise!vars, phase, pieces, open

\* No promise at first.
LEMMA InitRefines == Init => Promise!Init
<1> SUFFICES ASSUME Init PROVE Promise!Init
  OBVIOUS
<1>1. Held = {} /\ Read = {}
  <2>1. Range(<<>>) = {}
    BY DEF Range
  <2>2. 1 .. 0 = {}
    OBVIOUS
  <2> QED
    BY <2>1, <2>2 DEF Init, Held, Read, IdlePipe
<1>2. \A b \in Batches : OpenPieces(b) = {} /\ Phase(b) = "unread"
  BY <1>1 DEF OpenPieces, Phase
<1>3. \A b \in Batches : split[b] = 0 /\ 1 .. split[b] = {}
  BY DEF Init
<1> QED
  BY <1>2, <1>3 DEF Init, Promise!Init, phase, pieces, open

\* No step of any fiber, write or of the shutdown loses a transaction, holds it
\* twice, or answers the source at the wrong moment or with the wrong answer:
\* stream.cc implements what the Delivery specification promises.
THEOREM PromiseKept == Spec => KeepsPromise
<1>1. IInv /\ [Next]_vars => [Promise!Next]_(Promise!vars)
  <2> SUFFICES ASSUME IInv, [Next]_vars PROVE [Promise!Next]_(Promise!vars)
    OBVIOUS
  <2>1. IInv' /\ Event
    BY NextKeeps
  <2> QED
    BY <2>1, MovesRefines, ReadsRefines, AnswersRefines, SplitsRefines, SettlesRefines DEF Event
<1> QED
  BY <1>1, InitRefines, Invariant, PTL DEF Spec, KeepsPromise, Promise!Spec
-----------------------------------------------------------------------------
(* What the promise says of every batch, whatever became of it *)

\* The answer sequences that occur: none, and one verdict.
LEMMA OneVerdict ==
  ASSUME NEW v \in {"ack", "nack"}
  PROVE  Append(<<>>, v) = <<v>> /\ <<v>> # <<>> /\ <<v>> \in Seq({"ack", "nack"})
<1>1. Len(<<v>>) = 1 /\ Len(<<>>) = 0
  OBVIOUS
<1>2. <<v>> # <<>>
  BY <1>1
<1> QED
  BY <1>2

\* Every action of Delivery preserves its inductive invariant.
LEMMA PromiseNext == Promise!Inv /\ [Promise!Next]_(Promise!vars) => Promise!Inv'
<1> SUFFICES ASSUME Promise!Inv, [Promise!Next]_(Promise!vars) PROVE Promise!Inv'
  OBVIOUS
<1> USE DEF Promise!Inv
<1>1. CASE UNCHANGED Promise!vars
  BY <1>1 DEF Promise!vars, Promise!TypeOK, Promise!PhaseFacts, Promise!AckedIsWritten
<1>2. ASSUME NEW b \in Batches, Promise!ReadBatch(b) PROVE Promise!Inv'
  BY <1>2 DEF Promise!ReadBatch, Promise!TypeOK, Promise!PhaseFacts, Promise!AckedIsWritten
<1>3. ASSUME NEW b \in Batches, NEW v \in {"ack", "nack"}, Promise!AnswerWhole(b, v)
      PROVE  Promise!Inv'
  <2>2. answers'[b] = <<v>>
    <3>1. answers[b] = <<>>
      BY <1>3 DEF Promise!AnswerWhole, Promise!PhaseFacts
    <3>2. answers'[b] = Append(<<>>, v)
      BY <1>3, <3>1 DEF Promise!AnswerWhole, Promise!TypeOK
    <3> QED
      BY <3>2, OneVerdict
  <2>1. Promise!TypeOK'
    <3>1. <<v>> \in Seq({"ack", "nack"})
      BY OneVerdict
    <3>2. answers' \in [Batches -> Seq({"ack", "nack"})]
      BY <1>3, <2>2, <3>1 DEF Promise!AnswerWhole, Promise!TypeOK
    <3> QED
      BY <1>3, <3>2 DEF Promise!AnswerWhole, Promise!TypeOK
  <2>3. \A c \in Batches \ {b} : answers'[c] = answers[c] /\ phase'[c] = phase[c]
    BY <1>3 DEF Promise!AnswerWhole, Promise!TypeOK
  <2>4. Promise!PhaseFacts'
    BY <1>3, <2>2, <2>3 DEF Promise!AnswerWhole, Promise!TypeOK, Promise!PhaseFacts
  <2>5. Promise!AckedIsWritten'
    BY <1>3, <2>2, <2>3
       DEF Promise!AnswerWhole, Promise!TypeOK, Promise!PhaseFacts, Promise!AckedIsWritten
  <2> QED
    BY <2>1, <2>4, <2>5
<1>4. ASSUME NEW b \in Batches, Promise!SplitBatch(b) PROVE Promise!Inv'
  <2>1. pieces'[b] \in SUBSET Nat /\ pieces'[b] # {}
    BY <1>4 DEF Promise!SplitBatch
  <2>2. Promise!TypeOK'
    BY <1>4, <2>1 DEF Promise!SplitBatch, Promise!TypeOK
  <2>3. Promise!PhaseFacts'
    <3>1. open'[b] # {} /\ phase'[b] = "split" /\ answers'[b] = <<>>
      BY <1>4, <2>1 DEF Promise!SplitBatch, Promise!TypeOK, Promise!PhaseFacts
    <3>2. \A c \in Batches \ {b} : phase'[c] = phase[c] /\ open'[c] = open[c]
                                   /\ pieces'[c] = pieces[c]
      BY <1>4 DEF Promise!SplitBatch, Promise!TypeOK
    <3>3. wrote' = wrote /\ answers' = answers
      BY <1>4 DEF Promise!SplitBatch
    <3> QED
      BY <3>1, <3>2, <3>3 DEF Promise!PhaseFacts
  <2>4. Promise!AckedIsWritten'
    <3>1. answers'[b] # <<"ack">>
      BY <1>4, OneVerdict DEF Promise!SplitBatch, Promise!PhaseFacts
    <3>2. \A c \in Batches \ {b} : /\ answers'[c] = answers[c] /\ wrote'[c] = wrote[c]
                                   /\ pieces'[c] = pieces[c]
      BY <1>4 DEF Promise!SplitBatch, Promise!TypeOK
    <3> QED
      BY <3>1, <3>2 DEF Promise!AckedIsWritten
  <2> QED
    BY <2>2, <2>3, <2>4
<1>5. ASSUME NEW b \in Batches, NEW i \in open[b], NEW written \in BOOLEAN,
             Promise!Settle(b, i, written)
      PROVE  Promise!Inv'
  <2>1. /\ answers[b] = <<>>
        /\ i \in Nat
    BY <1>5 DEF Promise!Settle, Promise!TypeOK, Promise!PhaseFacts
  <2>2. wrote' \in [Batches -> SUBSET Nat] /\ open' \in [Batches -> SUBSET Nat]
    BY <1>5, <2>1 DEF Promise!Settle, Promise!TypeOK
  <2>3. \A c \in Batches \ {b} : /\ answers'[c] = answers[c] /\ phase'[c] = phase[c]
                                 /\ open'[c] = open[c] /\ wrote'[c] = wrote[c]
                                 /\ pieces'[c] = pieces[c]
    BY <1>5 DEF Promise!Settle, Promise!TypeOK
  <2>4. CASE open'[b] = {}
    <3> DEFINE v == IF wrote'[b] = pieces[b] THEN "ack" ELSE "nack"
    <3>1. /\ phase' = [phase EXCEPT ![b] = "settled"]
          /\ answers' = [answers EXCEPT ![b] = Append(@, v)]
          /\ pieces' = pieces
      BY <1>5, <2>4 DEF Promise!Settle
    <3>2. answers'[b] = <<v>> /\ phase'[b] = "settled" /\ v \in {"ack", "nack"}
      BY <3>1, <2>1 DEF Promise!TypeOK
    <3>3. answers' \in [Batches -> Seq({"ack", "nack"})]
      BY <3>1, <3>2 DEF Promise!TypeOK
    <3>4. Promise!TypeOK'
      BY <2>2, <3>1, <3>3 DEF Promise!TypeOK
    <3>5. Promise!PhaseFacts'
      BY <2>3, <2>4, <3>2 DEF Promise!PhaseFacts
    <3>6. Promise!AckedIsWritten'
      BY <2>3, <3>1, <3>2 DEF Promise!AckedIsWritten
    <3> QED
      BY <3>4, <3>5, <3>6
  <2>5. CASE open'[b] # {}
    <3>1. phase' = phase /\ answers' = answers /\ pieces' = pieces
      BY <1>5, <2>5 DEF Promise!Settle
    <3>2. Promise!TypeOK'
      BY <2>2, <3>1 DEF Promise!TypeOK
    <3>3. Promise!PhaseFacts'
      BY <1>5, <2>3, <2>5, <3>1 DEF Promise!PhaseFacts, Promise!Settle
    <3>4. Promise!AckedIsWritten'
      BY <2>1, <2>3, <3>1 DEF Promise!AckedIsWritten
    <3> QED
      BY <3>2, <3>3, <3>4
  <2> QED
    BY <2>4, <2>5
<1> QED
  BY <1>1, <1>2, <1>3, <1>4, <1>5 DEF Promise!Next

\* The inductive invariant holds in every reachable state.
LEMMA PromiseAlways == Spec => []Promise!Inv
<1>1. Promise!Init => Promise!Inv
  BY DEF Promise!Init, Promise!Inv, Promise!TypeOK, Promise!PhaseFacts, Promise!AckedIsWritten
<1> QED
  BY <1>1, PromiseNext, PromiseKept, PTL DEF KeepsPromise, Promise!Spec

\* A source gets one answer per batch, exactly when nothing of it is held.
THEOREM OneAnswerAlways == Spec => []Promise!OneAnswer
<1>1. Promise!Inv => Promise!OneAnswer
  <2> SUFFICES ASSUME Promise!Inv, NEW b \in Batches
               PROVE  /\ Len(answers[b]) = IF phase[b] = "settled" THEN 1 ELSE 0
                      /\ open[b] # {} <=> phase[b] = "split"
    BY DEF Promise!OneAnswer
  <2>1. CASE phase[b] = "settled"
    <3>1. answers[b] = <<"ack">> \/ answers[b] = <<"nack">>
      BY <2>1 DEF Promise!Inv, Promise!PhaseFacts
    <3>2. Len(answers[b]) = 1
      BY <3>1
    <3> QED
      BY <2>1, <3>2 DEF Promise!Inv, Promise!PhaseFacts
  <2>2. CASE phase[b] # "settled"
    <3>1. answers[b] = <<>>
      BY <2>2 DEF Promise!Inv, Promise!PhaseFacts
    <3> QED
      BY <2>2, <3>1 DEF Promise!Inv, Promise!PhaseFacts
  <2> QED
    BY <2>1, <2>2
<1> QED
  BY <1>1, PromiseAlways, PTL

\* A batch that was split and acked has been written completely.
THEOREM AckedIsWrittenAlways == Spec => []Promise!AckedIsWritten
<1>1. Promise!Inv => Promise!AckedIsWritten
  BY DEF Promise!Inv
<1> QED
  BY <1>1, PromiseAlways, PTL

\* Nothing of a batch is written once its source has been answered.
THEOREM NoWriteAfterAnswer ==
  Spec => [][\A b \in Batches : answers[b] # <<>> =>
                wrote'[b] = wrote[b] /\ answers'[b] = answers[b]]_(Promise!vars)
<1>1. ASSUME Promise!Inv, Promise!Next, NEW c \in Batches, answers[c] # <<>>
      PROVE  wrote'[c] = wrote[c] /\ answers'[c] = answers[c]
  <2>1. phase[c] = "settled"
    BY <1>1 DEF Promise!Inv, Promise!PhaseFacts
  <2> QED
    BY <1>1, <2>1 DEF Promise!Next, Promise!ReadBatch, Promise!AnswerWhole, Promise!SplitBatch,
                      Promise!Settle, Promise!Inv, Promise!TypeOK
<1>2. Promise!Inv /\ [Promise!Next]_(Promise!vars) =>
        [\A b \in Batches : answers[b] # <<>> =>
           wrote'[b] = wrote[b] /\ answers'[b] = answers[b]]_(Promise!vars)
  BY <1>1
<1> QED
  BY <1>2, PromiseAlways, PromiseKept, PTL DEF KeepsPromise, Promise!Spec
-----------------------------------------------------------------------------
(* Nothing is left behind *)

AllDone == /\ in.pc \in {"idle", "done"}
           /\ pipe.pc \in {"idle", "done"}
           /\ out.pc \in {"idle", "done"}

Closing == {"close_in", "close_procs", "close_out", "stopped"}

\* The layers start together and end one after the other, each once the queue
\* before it is empty, or else the shutdown has aborted the queues: then nothing
\* is pushed any more once the fibers that were ready have run.
Quiet ==
  /\ in.pc = "idle" <=> pipe.pc = "idle"
  /\ in.pc = "idle" <=> out.pc = "idle"
  /\ in.pc = "idle" => toPipeline = <<>> /\ toOutput = <<>>
  /\ out.pc \in {"idle", "done"} => writes = {}
  /\ ~aborted /\ pipe.pc \in {"eos", "done"} => in.pc = "done" /\ toPipeline = <<>>
  /\ ~aborted /\ out.pc \in {"drain", "close", "done"} => pipe.pc = "done" /\ toOutput = <<>>
  /\ stopPc \in {"yield", "nack", "gate"} => aborted
  /\ aborted => in.pc # "wait" /\ pipe.pc # "wait"
  /\ pipe.pc = "nack" => aborted
  /\ aborted /\ stopPc # "yield" =>
       /\ toPipeline = <<>> /\ toOutput = <<>>
       /\ in.pc # "ready" /\ pipe.pc # "ready"
  /\ stopPc \notin {"running", "yield", "nack"} => gateClosed
  /\ stopPc \in Closing => AllDone
  /\ closed # {} => stopPc \in Closing
  /\ finished => out.pc = "done" \/ aborted

\* all_layers_done, said of the places of the fibers.
LEMMA LayersAre == LayersDone <=> AllDone
<1>1. LayersDone => AllDone
  BY DEF LayersDone, AllDone
<1>2. AllDone => LayersDone
  BY DEF LayersDone, AllDone
<1> QED
  BY <1>1, <1>2

\* No layer has started at first.
LEMMA InitQuiet == Init => Quiet
BY DEF Init, Quiet, IdlePipe, Closing

\* The input pushes nothing on an aborted queue but what it was ready to push.
LEMMA InputQuiet ==
  ASSUME IInv, Quiet, Start \/ InputRead \/ InputEnd \/ InputPush \/ InputNack \/ InputEos
  PROVE  Quiet'
<1> USE DEF queues, shutdown
<1>1. UNCHANGED <<writes, toOutput, aborted, shutdown>>
  BY DEF Start, InputRead, InputEnd, InputPush, InputNack, InputEos
<1>2. CASE Start
  <2>1. UNCHANGED toPipeline
    BY <1>2 DEF Start
  <2>2. CASE UNCHANGED <<in, pipe, out>>
    BY <1>1, <2>1, <2>2 DEF Quiet, AllDone
  <2>3. CASE Connected(FALSE) /\ ~gateClosed
    <3>1. /\ in.pc = "idle" /\ out.pc = "idle" /\ pipe.pc = "idle"
          /\ in' = [in EXCEPT !.pc = IF drain THEN "eos" ELSE "read"]
          /\ pipe' = IdlePipe("pop") /\ out' = [out EXCEPT !.pc = "pop"]
      BY <2>3 DEF Connected, IInv, Shape
    <3>2. in'.pc \in {"eos", "read"} /\ pipe'.pc = "pop" /\ out'.pc = "pop"
      BY <3>1, IdlePipeType DEF IInv, TypeOK, PipePcs
    <3> QED
      BY <1>1, <2>1, <2>3, <3>1, <3>2 DEF Quiet, Closing
  <2> QED
    BY <1>2, <2>2, <2>3 DEF Start, Connected
<1>3. CASE InputRead \/ InputEnd \/ InputPush \/ InputNack \/ InputEos
  <2>1. UNCHANGED <<pipe, out>> /\ in.pc \in {"read", "ready", "nack", "eos"}
    BY <1>3 DEF InputRead, InputEnd, InputPush, InputNack, InputEos
  <2>2. /\ in'.pc \in {"wait", "ready", "nack", "read", "eos", "done"}
        /\ aborted => in'.pc \notin {"wait", "ready"}
    <3>1. in \in [pc : InPcs, slot : Transactions \cup {None}]
      BY DEF IInv, TypeOK
    <3> QED
      BY <1>3, <3>1 DEF InputRead, InputEnd, InputPush, InputNack, InputEos, NotFull
  <2>3. toPipeline' = toPipeline \/ in.pc = "ready" \/ (in.pc = "eos" /\ ~aborted)
    BY <1>3 DEF InputRead, InputEnd, InputPush, InputNack, InputEos, PushEos
  <2> QED
    BY <1>1, <2>1, <2>2, <2>3 DEF Quiet, AllDone
<1> QED
  BY <1>2, <1>3

\* The pipeline ends only after the input, with the first queue empty, or by
\* the abort.
LEMMA PipeQuiet ==
  ASSUME IInv, Quiet, PipePop \/ PipeProcess \/ PipePush \/ PipeNack \/ PipeEos
  PROVE  Quiet'
<1> USE DEF queues, shutdown
<1>1. UNCHANGED <<writes, out, aborted, shutdown>> /\ pipe \in PipeType
  BY DEF PipePop, PipeProcess, PipePush, PipeNack, PipeEos, IInv, TypeOK, PipeType
<1>2. \A q : NotFull(q) \in {"nack", "wait", "ready"} /\ (aborted <=> NotFull(q) = "nack")
  BY DEF NotFull
<1>3. \A pc \in PipePcs : IdlePipe(pc).pc = pc
  BY IdlePipeType
<1>4. CASE PipePop /\ aborted
  <2>1. pipe.pc = "pop" /\ pipe' = IdlePipe("eos") /\ UNCHANGED <<in, toPipeline, toOutput>>
    BY <1>4 DEF PipePop
  <2>2. pipe'.pc = "eos"
    BY <1>3, <2>1 DEF PipePcs
  <2> QED
    BY <1>1, <1>4, <2>1, <2>2 DEF Quiet, AllDone
<1>5. CASE PipePop /\ ~aborted
  <2>1. /\ pipe.pc = "pop" /\ in' = Woken(in) /\ toPipeline' = Tail(toPipeline)
        /\ toPipeline # <<>> /\ UNCHANGED toOutput
    BY <1>5 DEF PipePop
  <2>2. CASE Head(toPipeline) = EndOfStream
    <3>1. toPipeline' = <<>>
      <4>1. toPipeline \in Seq(Slots) /\ Sorted(toPipeline)
        BY DEF IInv, TypeOK, InOrder
      <4>2. ~Real(EndOfStream)
        BY DEF Real, EndOfStream
      <4> QED
        BY <2>1, <2>2, <4>1, <4>2, SortedTail
    <3>2. in.pc = "done"
      <4>1. Head(toPipeline) \in Range(toPipeline)
        BY <2>1, RangeTail DEF IInv, TypeOK
      <4> QED
        BY <2>2, <4>1 DEF IInv, Shape
    <3>3. in' = in /\ pipe'.pc = "eos"
      BY <1>3, <1>5, <2>1, <2>2, <3>2 DEF PipePop, PipePcs, Woken
    <3> QED
      BY <1>1, <1>5, <2>1, <3>1, <3>2, <3>3 DEF Quiet, AllDone
  <2>3. CASE Head(toPipeline) # EndOfStream
    <3>1. pipe'.pc \in {"proc", "wait", "ready"}
      <4>1. CASE NProcs > 0
        <5>1. pipe' = [IdlePipe("proc") EXCEPT !.t = Head(toPipeline), !.stage = 1,
                                               !.todo = <<Head(toPipeline).mark>>]
          BY <1>5, <2>3, <4>1 DEF PipePop
        <5> QED
          BY <5>1 DEF IdlePipe
      <4>2. CASE NProcs = 0
        <5>1. Dispatch(Head(toPipeline), <<Head(toPipeline).mark>>)
          BY <1>5, <2>3, <4>2 DEF PipePop
        <5>2. pipe'.pc = NotFull(toOutput)
          BY <5>1 DEF Dispatch, IdlePipe
        <5> QED
          BY <1>2, <1>5, <5>2
      <4> QED
        BY <4>1, <4>2, StreamAssumption
    <3>2. in'.pc = "idle" <=> in.pc = "idle"
      BY <2>1 DEF Woken, IInv, TypeOK
    <3> QED
      BY <1>1, <1>5, <2>1, <3>1, <3>2 DEF Quiet, AllDone
  <2> QED
    BY <2>2, <2>3
<1>6. CASE PipeProcess
  <2>1. pipe.pc = "proc" /\ UNCHANGED <<in, toPipeline, toOutput>>
    BY <1>6 DEF PipeProcess
  <2>2. /\ pipe'.pc \in {"proc", "pop", "nack", "wait", "ready"}
        /\ aborted => pipe'.pc \notin {"wait", "ready"}
        /\ pipe'.pc = "nack" => aborted
    <3>1. ASSUME NEW ms, StageYields(ms)
          PROVE  /\ pipe'.pc \in {"proc", "pop", "nack", "wait", "ready"}
                 /\ aborted => pipe'.pc \notin {"wait", "ready"}
                 /\ pipe'.pc = "nack" => aborted
      <4>1. CASE pipe'.pc = "proc"
        BY <4>1
      <4>2. CASE Filter \/ Reject
        BY <1>3, <4>2 DEF Filter, Reject, PipePcs
      <4>3. ASSUME NEW t, NEW bs, Dispatch(t, bs)
            PROVE  pipe'.pc = NotFull(toOutput)
        BY <4>3 DEF Dispatch, IdlePipe
      <4> QED
        BY <1>1, <1>2, <2>1, <3>1, <4>1, <4>2, <4>3 DEF StageYields, PipeType
    <3>2. Reject => pipe'.pc = "pop"
      BY <1>3 DEF Reject, PipePcs
    <3> QED
      BY <1>6, <3>1, <3>2 DEF PipeProcess
  <2> QED
    BY <1>1, <2>1, <2>2 DEF Quiet, AllDone
<1>7. CASE PipePush
  <2>1. pipe.pc = "ready" /\ UNCHANGED <<in, toPipeline>>
    BY <1>7 DEF PipePush
  <2>2. /\ pipe'.pc \in {"pop", "nack", "wait", "ready"}
        /\ aborted => pipe'.pc \notin {"wait", "ready"}
        /\ pipe'.pc = "nack" => aborted
    <3>1. \/ pipe' = IdlePipe("pop")
          \/ pipe' = [pipe EXCEPT !.pc = NotFull(toOutput'), !.kids = Tail(@)]
      BY <1>7 DEF PipePush
    <3> QED
      BY <1>1, <1>2, <1>3, <3>1 DEF PipePcs, PipeType
  <2>3. /\ in.pc # "idle" /\ out.pc # "idle"
        /\ ~aborted => out.pc \notin {"drain", "close", "done"}
        /\ aborted => stopPc = "yield"
        /\ stopPc \notin Closing /\ closed = {}
    BY <2>1 DEF Quiet, AllDone
  <2> QED
    BY <1>1, <2>1, <2>2, <2>3 DEF Quiet
<1>8. CASE PipeNack
  <2>1. pipe.pc = "nack" /\ UNCHANGED <<in, toPipeline, toOutput>>
    BY <1>8 DEF PipeNack
  <2>2. pipe'.pc \in {"nack", "eos"}
    BY <1>1, <1>3, <1>8 DEF PipeNack, PipePcs, PipeType
  <2> QED
    BY <1>1, <2>1, <2>2 DEF Quiet, AllDone
<1>9. CASE PipeEos
  <2>1. /\ pipe.pc = "eos" /\ pipe' = IdlePipe("done") /\ UNCHANGED <<in, toPipeline>>
        /\ (aborted => UNCHANGED toOutput)
    BY <1>9 DEF PipeEos, PushEos
  <2>2. pipe'.pc = "done"
    BY <1>3, <2>1 DEF PipePcs
  <2> QED
    BY <1>1, <2>1, <2>2 DEF Quiet, AllDone
<1> QED
  BY <1>4, <1>5, <1>6, <1>7, <1>8, <1>9

\* The output drains only after the pipeline, and is done only without a write
\* in flight.
LEMMA OutQuiet ==
  ASSUME IInv, Quiet, OutPop \/ OutLaunch \/ OutDrain \/ OutClose \/ \E t \in writes : WriteDone(t)
  PROVE  Quiet'
<1> USE DEF queues, shutdown
<1>1. /\ UNCHANGED <<in, toPipeline, aborted, drain, stopNow, stopPc, toNack, gateClosed, closed>>
      /\ out \in [pc : OutPcs, t : Transactions \cup {None}]
  BY DEF OutPop, OutLaunch, OutDrain, OutClose, WriteDone, WriteOk, WriteFailed, IInv, TypeOK
<1>2. CASE OutPop /\ aborted
  <2>1. out.pc = "pop" /\ out'.pc = "drain" /\ UNCHANGED <<pipe, toOutput, writes, finished>>
    BY <1>1, <1>2 DEF OutPop
  <2> QED
    BY <1>1, <1>2, <2>1 DEF Quiet, AllDone
<1>3. CASE OutPop /\ ~aborted
  <2>1. /\ out.pc = "pop" /\ toOutput # <<>> /\ toOutput' = Tail(toOutput)
        /\ pipe' = Woken(pipe) /\ UNCHANGED <<writes, finished>>
        /\ out' = IF Head(toOutput) = EndOfStream THEN [out EXCEPT !.pc = "drain"]
                  ELSE [pc |-> "units", t |-> Head(toOutput)]
    BY <1>3 DEF OutPop
  <2>2. CASE Head(toOutput) = EndOfStream
    <3>1. toOutput' = <<>>
      <4>1. toOutput \in Seq(Slots) /\ Sorted(toOutput)
        BY DEF IInv, TypeOK, InOrder
      <4>2. ~Real(EndOfStream)
        BY DEF Real, EndOfStream
      <4> QED
        BY <2>1, <2>2, <4>1, <4>2, SortedTail
    <3>2. pipe.pc = "done"
      <4>1. Head(toOutput) \in Range(toOutput)
        BY <2>1, RangeTail DEF IInv, TypeOK
      <4> QED
        BY <2>2, <4>1 DEF IInv, Shape
    <3>3. pipe' = pipe /\ out'.pc = "drain"
      BY <1>1, <2>1, <2>2, <3>2 DEF Woken
    <3> QED
      BY <1>1, <1>3, <2>1, <3>1, <3>2, <3>3 DEF Quiet, AllDone
  <2>3. CASE Head(toOutput) # EndOfStream
    <3>1. out'.pc = "units"
      BY <2>1, <2>3
    <3>2. /\ pipe'.pc = "idle" <=> pipe.pc = "idle"
          /\ pipe'.pc \in {"eos", "done"} <=> pipe.pc \in {"eos", "done"}
          /\ pipe'.pc = "nack" <=> pipe.pc = "nack"
      BY <2>1 DEF Woken, IInv, TypeOK
    <3> QED
      BY <1>1, <1>3, <2>1, <3>1, <3>2 DEF Quiet, AllDone
  <2> QED
    BY <2>2, <2>3
<1>4. CASE OutLaunch
  <2>1. out.pc = "units" /\ out'.pc = "pop" /\ UNCHANGED <<pipe, toOutput, finished>>
    BY <1>4 DEF OutLaunch
  <2> QED
    BY <1>1, <2>1 DEF Quiet, AllDone
<1>5. CASE OutDrain \/ OutClose
  <2>1. /\ UNCHANGED <<pipe, toOutput, writes>>
        /\ \/ out.pc = "drain" /\ out'.pc = "close" /\ UNCHANGED finished
           \/ out.pc = "close" /\ out'.pc = "done" /\ writes = {}
    BY <1>1, <1>5 DEF OutDrain, OutClose
  <2> QED
    BY <1>1, <2>1 DEF Quiet, AllDone
<1>6. CASE \E t \in writes : WriteDone(t)
  <2>1. UNCHANGED <<pipe, out, toOutput, finished>> /\ writes # {}
    BY <1>6 DEF WriteDone, WriteOk, WriteFailed
  <2> QED
    BY <1>1, <2>1 DEF Quiet, AllDone
<1> QED
  BY <1>2, <1>3, <1>4, <1>5, <1>6

\* The shutdown closes the gate before it waits for the layers, and the
\* components after them.
LEMMA StopQuiet ==
  ASSUME IInv, Quiet,
         \/ RequestDrain \/ StopGracefully \/ GracefulDone \/ CloseGate \/ ForcedDone
         \/ CloseComponents \/ ForceStop \/ GracefulTimeout \/ CollectAgain \/ NackCollected
  PROVE  Quiet'
<1> USE DEF queues, shutdown
<1>1. CASE RequestDrain \/ StopGracefully \/ NackCollected
  BY <1>1 DEF RequestDrain, StopGracefully, NackCollected, Quiet, AllDone, Closing
<1>2. CASE GracefulDone \/ CloseGate \/ ForcedDone
  BY <1>2, LayersAre DEF GracefulDone, CloseGate, ForcedDone, Quiet, AllDone, Closing
<1>3. CASE CloseComponents
  <2>1. PICK i \in 1 .. 3 : stopPc = CloseOrder[i] /\ stopPc' = CloseOrder[i + 1]
    BY <1>3 DEF CloseComponents
  <2>2. UNCHANGED <<in, pipe, out, writes, queues, gateClosed, finished>>
    BY <1>3 DEF CloseComponents
  <2>3. CloseOrder[i] \in Closing /\ CloseOrder[i + 1] \in Closing
    BY DEF CloseOrder, Closing
  <2> QED
    BY <2>1, <2>2, <2>3 DEF Quiet, AllDone, Closing
<1>4. CASE ForceStop \/ GracefulTimeout
  <2>1. /\ stopPc \in {"running", "graceful"} /\ stopPc' = "yield" /\ aborted' = TRUE
        /\ toPipeline' = <<>> /\ toOutput' = <<>>
        /\ in' = Woken(in) /\ pipe' = Woken(pipe)
        /\ UNCHANGED <<out, writes, gateClosed, finished, closed>>
    BY <1>4 DEF ForceStop, GracefulTimeout, StopNow
  <2>2. /\ in'.pc # "wait" /\ (in'.pc = "idle" <=> in.pc = "idle")
        /\ pipe'.pc # "wait" /\ (pipe'.pc = "idle" <=> pipe.pc = "idle")
    BY <2>1 DEF Woken, IInv, TypeOK
  <2> QED
    BY <2>1, <2>2 DEF Quiet, Closing
<1>5. CASE CollectAgain
  BY <1>5 DEF CollectAgain, Quiet, AllDone, Closing
<1> QED
  BY <1>1, <1>2, <1>3, <1>4, <1>5

\* Every step.
LEMMA NextQuiet ==
  ASSUME IInv, Quiet, [Next]_vars
  PROVE  Quiet'
<1>1. CASE Stopped \/ UNCHANGED vars
  BY <1>1 DEF Stopped, vars, Quiet, AllDone, queues, shutdown
<1> QED
  BY <1>1, InputQuiet, PipeQuiet, OutQuiet, StopQuiet DEF Next

\* The layers of stream.cc end in order, and shut down in do_stop's order.
THEOREM QuietHolds == Spec => []Quiet
<1>1. IInv /\ Quiet /\ [Next]_vars => Quiet'
  BY NextQuiet
<1> QED
  BY <1>1, InitQuiet, Invariant, PTL DEF Spec

\* Components are closed only when no layer runs, no write is in flight and a
\* start() still connecting will be refused: do_stop's order of the closes.
THEOREM ClosesWhenQuiet == Spec => []ClosedWhenQuiet
<1>1. Quiet => ClosedWhenQuiet
  BY LayersAre DEF Quiet, ClosedWhenQuiet, AllDone, Closing
<1> QED
  BY <1>1, QuietHolds, PTL

\* When the components are closed, or the stream has drained, it holds nothing.
LEMMA NothingHeld ==
  ASSUME IInv, Quiet, closed # {} \/ (finished /\ ~aborted)
  PROVE  Held = {}
<1>1. AllDone /\ writes = {}
  BY DEF Quiet, AllDone
<1>2. toPipeline = <<>> /\ toOutput = <<>>
  BY <1>1 DEF Quiet, AllDone, Closing
<1>3. toNack = <<>>
  BY DEF Quiet, IInv, Shape, Closing
<1>4. in.slot = None /\ pipe.t = None /\ pipe.kids = <<>> /\ out.t = None
  BY <1>1 DEF IInv, Shape, AllDone
<1>5. Range(<<>>) = {}
  BY DEF Range
<1> QED
  BY <1>1, <1>2, <1>3, <1>4, <1>5 DEF Held

\* Every batch read has been answered by the time the components are closed, and
\* by the time an undisturbed stream reports it has drained.
THEOREM AllAnswered == Spec => []NothingLeftBehind
<1>1. ASSUME IInv, Quiet, closed # {} \/ (finished /\ ~aborted), NEW b \in Read
      PROVE  answers[b] # <<>>
  <2>1. b \in Batches
    <3>1. stats \in [batches_in : 0 .. NBatches, acks : Nat, nacks : Nat, filtered : Nat]
      BY <1>1 DEF IInv, TypeOK
    <3> QED
      BY <1>1, <3>1, StreamAssumption DEF Read, Batches
  <2>2. Settled(b)
    BY <1>1, <2>1, NothingHeld DEF IInv, Account, Accounted, Whole, OpenPieces
  <2>3. <<"ack">> # <<>> /\ <<"nack">> # <<>>
    OBVIOUS
  <2> QED
    BY <2>2, <2>3 DEF Settled
<1>2. IInv /\ Quiet => NothingLeftBehind
  BY <1>1 DEF NothingLeftBehind
<1> QED
  BY <1>2, Invariant, QuietHolds, PTL
-----------------------------------------------------------------------------
(* Sums over the batches.  The library's induction theorems take an operator; *)
(* that a set of naturals which is not empty has a least one says the same    *)
(* of sets, and is what the proofs by induction below rest on.                *)

\* What holds of 0, and of n + 1 where it holds of n, holds of every natural.
LEMMA SetInduction ==
  ASSUME NEW T, 0 \in T, \A n \in Nat : n \in T => n + 1 \in T
  PROVE  Nat \subseteq T
<1> SUFFICES ASSUME Nat \ T # {} PROVE FALSE
  OBVIOUS
<1>1. IsWellFoundedOn(OpToRel(<, Nat), Nat)
  BY NatLessThanWellFounded
<1>2. PICK x \in Nat \ T : \A y \in Nat \ T : ~(<<y, x>> \in OpToRel(<, Nat))
  BY <1>1, WFMin
<1>3. \A y \in Nat \ T : ~(y < x)
  BY <1>2 DEF OpToRel
<1>4. x # 0 /\ x - 1 \in Nat /\ x - 1 < x
  OBVIOUS
<1>5. x - 1 \notin T
  BY <1>4
<1> QED
  BY <1>3, <1>4, <1>5

\* The partial sums of f up to m.
Sums(f, m, g) == g = [n \in 0 .. m |-> IF n = 0 THEN 0 ELSE g[n - 1] + f[n]]

\* There are such sums: the recursive function in SumOver is defined.
LEMMA SumsExist ==
  ASSUME NEW f \in [Batches -> Nat]
  PROVE  \E g : Sums(f, NBatches, g)
<1> DEFINE T == {m \in Nat : \E g : Sums(f, m, g)}
<1>1. 0 \in T
  <2> DEFINE g == [n \in 0 .. 0 |-> 0]
  <2>1. g = [n \in 0 .. 0 |-> IF n = 0 THEN 0 ELSE g[n - 1] + f[n]]
    OBVIOUS
  <2> HIDE DEF g
  <2> QED
    BY <2>1 DEF Sums
<1>2. ASSUME NEW m \in Nat, m \in T PROVE m + 1 \in T
  <2>1. PICK g : Sums(f, m, g)
    BY <1>2
  <2> DEFINE h == [n \in 0 .. m + 1 |-> IF n = m + 1 THEN g[m] + f[m + 1] ELSE g[n]]
  <2>2. \A n \in 0 .. m : g[n] = IF n = 0 THEN 0 ELSE g[n - 1] + f[n]
    BY <2>1 DEF Sums
  <2>3. \A n \in 0 .. m + 1 : h[n] = IF n = 0 THEN 0 ELSE h[n - 1] + f[n]
    <3> SUFFICES ASSUME NEW n \in 0 .. m + 1 PROVE h[n] = IF n = 0 THEN 0 ELSE h[n - 1] + f[n]
      OBVIOUS
    <3>1. CASE n = m + 1
      BY <1>2, <3>1
    <3>2. CASE n \in 1 .. m
      BY <1>2, <2>2, <3>2
    <3>3. CASE n = 0
      BY <1>2, <2>2, <3>3
    <3> QED
      BY <1>2, <3>1, <3>2, <3>3
  <2>4. h = [n \in 0 .. m + 1 |-> IF n = 0 THEN 0 ELSE h[n - 1] + f[n]]
    <3>1. h = [n \in 0 .. m + 1 |-> h[n]]
      OBVIOUS
    <3> HIDE DEF h
    <3> QED
      BY <2>3, <3>1
  <2> HIDE DEF h
  <2> QED
    BY <1>2, <2>4 DEF Sums
<1> HIDE DEF T
<1>3. NBatches \in T
  BY <1>1, <1>2, SetInduction, StreamAssumption
<1> QED
  BY <1>3 DEF T

\* SumOver is the last of the partial sums, which are naturals.
LEMMA SumOverIs ==
  ASSUME NEW f \in [Batches -> Nat]
  PROVE  \E g \in [0 .. NBatches -> Nat] :
            /\ g[0] = 0 /\ \A n \in Batches : g[n] = g[n - 1] + f[n]
            /\ SumOver(f) = g[NBatches]
<1> DEFINE g == CHOOSE g : g = [n \in 0 .. NBatches |-> IF n = 0 THEN 0 ELSE g[n - 1] + f[n]]
<1>1. g = [n \in 0 .. NBatches |-> IF n = 0 THEN 0 ELSE g[n - 1] + f[n]]
  <2>1. \E h : h = [n \in 0 .. NBatches |-> IF n = 0 THEN 0 ELSE h[n - 1] + f[n]]
    BY SumsExist DEF Sums
  <2> QED
    BY <2>1, Zenon
<1>2. SumOver(f) = g[NBatches]
  BY DEF SumOver
<1> HIDE DEF g
<1>3. NBatches \in Nat
  BY StreamAssumption
<1>4. g[0] = 0 /\ \A n \in Batches : g[n] = g[n - 1] + f[n]
  BY <1>1, <1>3 DEF Batches
<1> DEFINE T == {m \in Nat : m <= NBatches => g[m] \in Nat}
<1>5. 0 \in T
  BY <1>4
<1>6. ASSUME NEW m \in Nat, m \in T PROVE m + 1 \in T
  <2> SUFFICES ASSUME m + 1 <= NBatches PROVE g[m + 1] \in Nat
    BY <1>6
  <2>1. m + 1 \in Batches /\ m \in Nat /\ m <= NBatches
    BY <1>3, <1>6 DEF Batches
  <2>2. g[m + 1] = g[m] + f[m + 1] /\ f[m + 1] \in Nat /\ g[m] \in Nat
    BY <1>4, <1>6, <2>1
  <2> QED
    BY <2>2
<1> HIDE DEF T
<1>7. Nat \subseteq T
  BY <1>5, <1>6, SetInduction
<1>8. \A m \in 0 .. NBatches : g[m] \in Nat
  BY <1>3, <1>7 DEF T
<1>9. g \in [0 .. NBatches -> Nat]
  BY <1>1, <1>8
<1> QED
  BY <1>2, <1>4, <1>9

\* A sum grows by what one of its terms grows.
LEMMA SumGrows ==
  ASSUME NEW f \in [Batches -> Nat], NEW h \in [Batches -> Nat], NEW b \in Batches,
         h[b] = f[b] + 1, \A c \in Batches : c # b => h[c] = f[c]
  PROVE  SumOver(h) = SumOver(f) + 1
<1>1. PICK s \in [0 .. NBatches -> Nat] :
        /\ s[0] = 0 /\ \A n \in Batches : s[n] = s[n - 1] + f[n]
        /\ SumOver(f) = s[NBatches]
  BY SumOverIs
<1>2. PICK r \in [0 .. NBatches -> Nat] :
        /\ r[0] = 0 /\ \A n \in Batches : r[n] = r[n - 1] + h[n]
        /\ SumOver(h) = r[NBatches]
  BY SumOverIs
<1>3. NBatches \in Nat /\ b \in 1 .. NBatches
  BY StreamAssumption DEF Batches
<1> DEFINE T == {m \in Nat : m <= NBatches => r[m] = IF m < b THEN s[m] ELSE s[m] + 1}
<1>4. 0 \in T
  BY <1>1, <1>2, <1>3
<1>5. ASSUME NEW m \in Nat, m \in T PROVE m + 1 \in T
  <2> SUFFICES ASSUME m + 1 <= NBatches
               PROVE  r[m + 1] = IF m + 1 < b THEN s[m + 1] ELSE s[m + 1] + 1
    BY <1>5
  <2>1. m + 1 \in Batches /\ m \in 0 .. NBatches
    BY <1>3, <1>5 DEF Batches
  <2>2. r[m + 1] = r[m] + h[m + 1] /\ s[m + 1] = s[m] + f[m + 1]
    <3>1. m + 1 - 1 = m
      OBVIOUS
    <3>2. r[m + 1] = r[m] + h[m + 1]
      BY <1>2, <2>1, <3>1
    <3>3. s[m + 1] = s[m] + f[m + 1]
      BY <1>1, <2>1, <3>1
    <3> QED
      BY <3>2, <3>3
  <2>3. r[m] = IF m < b THEN s[m] ELSE s[m] + 1
    <3>1. m <= NBatches
      BY <2>1, <1>3
    <3> QED
      BY <1>5, <3>1
  <2>4. r[m] \in Nat /\ s[m] \in Nat /\ h[m + 1] \in Nat /\ f[m + 1] \in Nat /\ b \in Nat
    BY <1>3, <2>1
  <2>5. h[m + 1] = IF m + 1 = b THEN f[m + 1] + 1 ELSE f[m + 1]
    BY <2>1
  <2>6. (m < b => m + 1 <= b) /\ (~(m < b) => m + 1 # b /\ ~(m + 1 < b))
    BY <2>4
  <2> QED
    BY <2>2, <2>3, <2>4, <2>5, <2>6
<1> HIDE DEF T
<1>6. NBatches \in T
  BY <1>3, <1>4, <1>5, SetInduction
<1>7. r[NBatches] = s[NBatches] + 1
  BY <1>3, <1>6 DEF T
<1> QED
  BY <1>1, <1>2, <1>7

\* Nothing adds up to nothing.
LEMMA SumOfNothing ==
  ASSUME NEW f \in [Batches -> Nat], \A b \in Batches : f[b] = 0
  PROVE  SumOver(f) = 0
<1>1. PICK s \in [0 .. NBatches -> Nat] :
        /\ s[0] = 0 /\ \A n \in Batches : s[n] = s[n - 1] + f[n]
        /\ SumOver(f) = s[NBatches]
  BY SumOverIs
<1>2. NBatches \in Nat
  BY StreamAssumption
<1> DEFINE T == {m \in Nat : m <= NBatches => s[m] = 0}
<1>3. 0 \in T
  BY <1>1
<1>4. ASSUME NEW m \in Nat, m \in T PROVE m + 1 \in T
  <2> SUFFICES ASSUME m + 1 <= NBatches PROVE s[m + 1] = 0
    BY <1>4
  <2>1. m + 1 \in Batches
    BY <1>2, <1>4 DEF Batches
  <2>2. f[m + 1] = 0 /\ s[m] = 0
    BY <1>2, <1>4, <2>1 DEF Batches
  <2>3. s[m + 1] = s[m] + f[m + 1]
    <3>1. m + 1 - 1 = m
      OBVIOUS
    <3> QED
      BY <1>1, <2>1, <3>1
  <2> QED
    BY <2>2, <2>3
<1> HIDE DEF T
<1>5. NBatches \in T
  BY <1>2, <1>3, <1>4, SetInduction
<1> QED
  BY <1>1, <1>5, <1>2 DEF T
-----------------------------------------------------------------------------
(* The counters add up *)

\* How many acks have been called for b: one for a batch answered whole, one for
\* each piece settled.
Done(b) ==
  IF b \notin Read \/ Whole(b) THEN 0
  ELSE IF split[b] = 0 THEN 1 ELSE split[b] - Cardinality(OpenPieces(b))

DoneOf == [b \in Batches |-> Done(b)]

Counts == Tally = SumOver(DoneOf)

\* No more pieces are open than the batch was split into.
LEMMA DoneType ==
  ASSUME IInv
  PROVE  DoneOf \in [Batches -> Nat]
<1> SUFFICES ASSUME NEW b \in Batches PROVE Done(b) \in Nat
  BY DEF DoneOf
<1>1. split[b] \in Nat
  BY DEF IInv, TypeOK
<1>2. OpenPieces(b) \subseteq 1 .. split[b]
  BY DEF IInv, Account, Accounted, Split
<1> DEFINE O == OpenPieces(b)
           n == split[b]
<1> HIDE DEF O, n
<1>3. Cardinality(O) \in Nat /\ Cardinality(O) <= n
  <2>1. IsFiniteSet(1 .. n) /\ Cardinality(1 .. n) = n
    BY <1>1, FS_Interval DEF n
  <2>2. O \subseteq 1 .. n
    BY <1>2 DEF O, n
  <2>3. Cardinality(O) <= Cardinality(1 .. n)
    BY <2>1, <2>2, FS_Subset
  <2>4. Cardinality(O) \in Nat
    BY <1>1, <2>2, PiecesFinite DEF n
  <2> QED
    BY <2>1, <2>3, <2>4
<1>4. n - Cardinality(O) \in Nat
  BY <1>1, <1>3 DEF n
<1> QED
  BY <1>4 DEF Done, O, n

\* What is done for a batch changes with what is held of it and its split only.
LEMMA SameDone ==
  ASSUME NEW c \in Batches,
         \A u : u \in Held' /\ u.src = c <=> u \in Held /\ u.src = c,
         c \in Read' <=> c \in Read, split'[c] = split[c]
  PROVE  Done(c)' = Done(c)
<1>1. OpenPieces(c)' = OpenPieces(c)
  BY DEF OpenPieces
<1>2. Whole(c)' <=> Whole(c)
  BY DEF Whole
<1> QED
  BY <1>1, <1>2 DEF Done

\* A step that calls no ack does nothing for any batch.
LEMMA NoneDone ==
  ASSUME Counts, Tally' = Tally, \A b \in Batches : Done(b)' = Done(b)
  PROVE  Counts'
<1>1. DoneOf' = DoneOf
  BY DEF DoneOf
<1> QED
  BY <1>1 DEF Counts

\* A step that calls one ack does one thing for one batch.
LEMMA OneDone ==
  ASSUME IInv, Counts, Tally' = Tally + 1,
         NEW b \in Batches, Done(b)' = Done(b) + 1,
         \A c \in Batches : c # b => Done(c)' = Done(c)
  PROVE  Counts'
<1>1. DoneOf \in [Batches -> Nat]
  BY DoneType
<1>2. DoneOf'[b] = DoneOf[b] + 1 /\ \A c \in Batches : c # b => DoneOf'[c] = DoneOf[c]
  BY DEF DoneOf
<1>3. DoneOf' \in [Batches -> Nat]
  <2>1. \A c \in Batches : DoneOf'[c] \in Nat
    BY <1>1, <1>2
  <2> QED
    BY <2>1 DEF DoneOf
<1> DEFINE f == DoneOf
           h == DoneOf'
<1> HIDE DEF f, h
<1>4. SumOver(h) = SumOver(f) + 1
  BY <1>1, <1>2, <1>3, SumGrows DEF f, h
<1> QED
  BY <1>4 DEF Counts, f, h, SumOver

\* A batch read has nothing done.
LEMMA ReadsCount ==
  ASSUME IInv, Counts, Reads
  PROVE  Counts'
<1>1. PICK t : /\ t.src = stats.batches_in + 1 /\ t.idx = 0 /\ t.src \in Batches
               /\ Held' = Held \cup {t} /\ stats'.batches_in = stats.batches_in + 1
               /\ Tally' = Tally /\ UNCHANGED split
  BY DEF Reads
<1> DEFINE b == t.src
<1>2. stats.batches_in \in Nat
  BY HeldWasRead
<1>3. b \notin Read /\ Read' = Read \cup {b}
  BY <1>1, <1>2 DEF Read
<1>4. Done(b) = 0 /\ Done(b)' = 0
  BY <1>1, <1>3 DEF Done, Whole
<1>5. \A c \in Batches : c # b => Done(c)' = Done(c)
  BY <1>1, <1>3, SameDone
<1> QED
  BY <1>1, <1>4, <1>5, NoneDone

\* A batch answered whole is one thing done.
LEMMA AnswersCount ==
  ASSUME IInv, Counts, Answers
  PROVE  Counts'
<1>1. PICK t \in Held :
        /\ t.idx = 0 /\ Held' = Held \ {t} /\ stats'.batches_in = stats.batches_in
        /\ Tally' = Tally + 1 /\ UNCHANGED split
  BY DEF Answers
<1> DEFINE b == t.src
<1>2. /\ b \in Batches /\ b \in Read /\ Whole(b) /\ Clean(b)
      /\ \A u \in Held : u.src = b => u = t
  BY <1>1, HeldBatch DEF IInv
<1>3. Read' = Read
  BY <1>1 DEF Read
<1>4. Done(b) = 0
  BY <1>2 DEF Done
<1>5. Done(b)' = 1
  <2>1. ~Whole(b)'
    BY <1>1, <1>2 DEF Whole
  <2> QED
    BY <1>1, <1>2, <1>3, <2>1 DEF Done, Clean
<1>6. \A c \in Batches : c # b => Done(c)' = Done(c)
  BY <1>1, <1>3, SameDone
<1>7. Done(b)' = Done(b) + 1
  BY <1>4, <1>5
<1> QED
  BY <1>1, <1>2, <1>6, <1>7, OneDone

\* A batch dispatched has all its pieces open.
LEMMA SplitsCount ==
  ASSUME IInv, Counts, Splits
  PROVE  Counts'
<1>1. PICK t \in Held, bs \in Seq(BOOLEAN) :
        /\ t.idx = 0 /\ bs # <<>>
        /\ Held' = (Held \ {t}) \cup Pieces(t.src, bs)
        /\ split' = [split EXCEPT ![t.src] = Len(bs)]
        /\ UNCHANGED <<stats, answers, wrote>>
  BY DEF Splits
<1> DEFINE b == t.src
           n == Len(bs)
<1>2. /\ b \in Batches /\ b \in Read /\ Whole(b) /\ Clean(b)
      /\ \A u \in Held : u.src = b => u = t
  BY <1>1, HeldBatch DEF IInv
<1>3. Read' = Read /\ Tally' = Tally
  BY <1>1 DEF Read, Tally
<1>4. n \in Nat \ {0} /\ DOMAIN bs = 1 .. n /\ 1 \in 1 .. n
  BY <1>1
<1>5. split'[b] = n /\ \A c \in Batches : c # b => split'[c] = split[c]
  BY <1>1, <1>2 DEF IInv, TypeOK
<1>6. \A u \in Held' : \/ u \in Held /\ u.src # b
                       \/ u \in Pieces(b, bs) /\ u.src = b /\ u.idx \in 1 .. n
  BY <1>1, <1>2, <1>4 DEF Pieces
<1>7. OpenPieces(b)' = 1 .. n
  <2>1. ASSUME NEW i \in 1 .. n PROVE i \in OpenPieces(b)'
    <3> DEFINE p == [src |-> b, idx |-> i, mark |-> bs[i]]
    <3>1. p \in Held' /\ p.src = b /\ p.idx > 0 /\ p.idx = i
      BY <1>1, <1>4 DEF Pieces
    <3> HIDE DEF p
    <3> QED
      BY <3>1 DEF OpenPieces
  <2> QED
    BY <1>6, <2>1 DEF OpenPieces
<1>8. Done(b) = 0
  BY <1>2 DEF Done
<1>9. Done(b)' = 0
  <2>1. ~Whole(b)'
    BY <1>4, <1>6 DEF Whole
  <2> HIDE DEF n
  <2>2. Cardinality(1 .. n) = n
    BY <1>4, FS_Interval
  <2>3. Done(b)' = n - Cardinality(1 .. n)
    BY <1>2, <1>3, <1>4, <1>5, <1>7, <2>1 DEF Done
  <2> QED
    BY <1>4, <2>2, <2>3
<1>10. \A c \in Batches : c # b => Done(c)' = Done(c)
  <2>1. ASSUME NEW c \in Batches, c # b
        PROVE  \A u : u \in Held' /\ u.src = c <=> u \in Held /\ u.src = c
    BY <1>1, <1>6, <2>1
  <2> QED
    BY <1>3, <1>5, <2>1, SameDone
<1> QED
  BY <1>3, <1>8, <1>9, <1>10, NoneDone

\* A piece settled is one thing done.
LEMMA SettlesCount ==
  ASSUME IInv, Counts, Settles
  PROVE  Counts'
<1>1. PICK t \in Held :
        /\ t.idx > 0 /\ Held' = Held \ {t} /\ stats'.batches_in = stats.batches_in
        /\ Tally' = Tally + 1 /\ UNCHANGED split
  BY DEF Settles
<1> DEFINE b == t.src
           i == t.idx
           O == OpenPieces(b)
<1>2. /\ b \in Batches /\ b \in Read /\ i \in O /\ Split(b)
      /\ \A u \in Held : u.src = b => u.idx > 0
  BY <1>1, HeldBatch DEF IInv
<1>3. Read' = Read
  BY <1>1 DEF Read
<1>4. split[b] \in Nat /\ O \subseteq 1 .. split[b] /\ i \in 1 .. split[b]
  BY <1>2 DEF IInv, TypeOK, Split
<1>5. OpenPieces(b)' = O \ {i}
  <2>1. \A u \in Held : u.src = b /\ u.idx = i => u = t
    BY DEF IInv, Account, SameKey
  <2> QED
    BY <1>1, <2>1 DEF OpenPieces
<1>6. ~Whole(b) /\ ~Whole(b)'
  BY <1>1, <1>2 DEF Whole
<1>7. split[b] > 0
  BY <1>4
<1>8. Cardinality(O) \in Nat /\ Cardinality(O \ {i}) = Cardinality(O) - 1
  <2>1. IsFiniteSet(O) /\ Cardinality(O) \in Nat
    BY <1>4, PiecesFinite
  <2> QED
    BY <1>2, <2>1, FS_RemoveElement
<1>9. Done(b) = split[b] - Cardinality(O)
  BY <1>2, <1>6, <1>7 DEF Done
<1>10. Done(b)' = split[b] - Cardinality(O \ {i})
  BY <1>1, <1>2, <1>3, <1>5, <1>6, <1>7 DEF Done
<1>11. \A c \in Batches : c # b => Done(c)' = Done(c)
  BY <1>1, <1>3, SameDone
<1>12. Done(b)' = Done(b) + 1
  <2> HIDE DEF O, i, b
  <2> QED
    BY <1>4, <1>8, <1>9, <1>10
<1> QED
  BY <1>1, <1>2, <1>11, <1>12, OneDone

\* Every other step does nothing for any batch.
LEMMA MovesCount ==
  ASSUME Counts, Moves
  PROVE  Counts'
<1>1. Read' = Read /\ Tally' = Tally
  BY DEF Moves, Read, Tally
<1>2. \A b \in Batches : Done(b)' = Done(b)
  BY <1>1, SameDone DEF Moves
<1> QED
  BY <1>1, <1>2, NoneDone

\* Nothing is done at first.
LEMMA InitCounts == Init => Counts
<1> SUFFICES ASSUME Init PROVE Counts
  OBVIOUS
<1>1. \A b \in Batches : Done(b) = 0
  <2>1. Read = {}
    BY DEF Init, Read
  <2> QED
    BY <2>1 DEF Done
<1>2. DoneOf \in [Batches -> Nat] /\ \A b \in Batches : DoneOf[b] = 0
  BY <1>1 DEF DoneOf
<1>3. SumOver(DoneOf) = 0
  <2> DEFINE f == DoneOf
  <2> HIDE DEF f
  <2>1. SumOver(f) = 0
    BY <1>2, SumOfNothing DEF f
  <2> QED
    BY <2>1 DEF f
<1>4. Tally = 0
  BY DEF Init, Tally
<1> QED
  BY <1>3, <1>4 DEF Counts

\* When the components are closed, or the stream has drained undisturbed,
\* batches_acked and batches_nacked add up to one per batch answered whole and
\* one per piece of the others, however the batches came to be answered.
THEOREM CountersAddUp == Spec => []StatsBalance
<1>1. IInv /\ Counts /\ [Next]_vars => Counts'
  <2> SUFFICES ASSUME IInv, Counts, [Next]_vars PROVE Counts'
    OBVIOUS
  <2>1. IInv' /\ Event
    BY NextKeeps
  <2> QED
    BY <2>1, MovesCount, ReadsCount, AnswersCount, SplitsCount, SettlesCount DEF Event
<1>2. ASSUME IInv, Quiet, Counts, closed # {} \/ (finished /\ ~aborted)
      PROVE  stats.acks + stats.nacks =
               SumOver([b \in Batches |-> IF b \notin Read THEN 0
                                          ELSE IF split[b] = 0 THEN 1 ELSE split[b]])
  <2>1. Held = {}
    BY <1>2, NothingHeld
  <2>2. ASSUME NEW b \in Batches
        PROVE  Done(b) = IF b \notin Read THEN 0 ELSE IF split[b] = 0 THEN 1 ELSE split[b]
    <3>1. ~Whole(b) /\ OpenPieces(b) = {}
      BY <2>1 DEF Whole, OpenPieces
    <3>2. Cardinality({}) = 0
      BY FS_EmptySet
    <3>3. split[b] \in Nat
      BY <1>2 DEF IInv, TypeOK
    <3>4. split[b] - Cardinality(OpenPieces(b)) = split[b]
      BY <3>1, <3>2, <3>3
    <3> QED
      BY <3>1, <3>4 DEF Done
  <2>3. DoneOf = [b \in Batches |-> IF b \notin Read THEN 0
                                    ELSE IF split[b] = 0 THEN 1 ELSE split[b]]
    BY <2>2 DEF DoneOf
  <2> QED
    BY <1>2, <2>3 DEF Counts, Tally
<1>3. IInv /\ Quiet /\ Counts => StatsBalance
  BY <1>2 DEF StatsBalance
<1> QED
  BY <1>1, <1>3, InitCounts, Invariant, QuietHolds, PTL DEF Spec
=============================================================================
