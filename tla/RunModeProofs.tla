---------------------------- MODULE RunModeProofs ----------------------------
(***************************************************************************)
(* The end of a run, for any set of shards and any number of messages,     *)
(* signals and scrapes: the totals are the sums of what every shard wrote, *)
(* a scrape answers with what was counted, and nothing is on its way to a  *)
(* stream that was destroyed.                                              *)
(***************************************************************************)
EXTENDS RunMode, FiniteSetTheorems, WellFoundedInduction, TLAPS

-----------------------------------------------------------------------------
(* The inductive invariant                                                   *)

Asks == {"start", "drain", "force", "stop", "add", "scrape"}

Counts == [received : Nat, sent : Nat]
Scrapes == [left : SUBSET Shards, received : Nat, sent : Nat, low : Nat]

\* The main coroutine is past its try block.
Out == {"holding", "closing", "stopping", "exited"}
Runs == {"begin", "starting", "observing", "waiting", "adding"} \cup Out

Types ==
    /\ compiled \in BOOLEAN /\ served \in BOOLEAN
    /\ shard \in [Shards -> {"new", "connecting", "running", "refused", "failed", "over", "gone"}]
    /\ stopping \in [Shards -> {"no", "stopping", "stopped"}]
    /\ drained \subseteq Shards /\ forced \subseteq Shards
    /\ comp \in [Shards -> Counts] /\ \A s \in Shards : comp[s].sent <= comp[s].received
    /\ inbox \in [Shards -> Seq(Asks)]
    /\ adding \in [Shards -> Nat \cup {None}] /\ added \subseteq Shards /\ total \in Nat
    /\ run \in Runs /\ live \in BOOLEAN /\ timer \in {"off", "armed"} /\ err \in BOOLEAN
    /\ obs \in {"off", "up", "broken", "closing"} /\ scrape \in Scrapes \cup {None}

\* A stream starts before anything else is asked of its shard, and only once;
\* one whose stop() has ended does not run.
Begun ==
    \A s \in Shards :
        /\ run = "begin" => shard[s] = "new" /\ inbox[s] = <<>>
        /\ shard[s] = "new" => stopping[s] = "no"
        /\ shard[s] = "new" /\ run # "begin" => inbox[s] # <<>> /\ inbox[s][1] = "start"
        /\ \A i \in 1 .. Len(inbox[s]) : inbox[s][i] = "start" => i = 1 /\ shard[s] = "new"
        /\ stopping[s] = "stopped" => shard[s] # "running"

\* How far the streams are follows from where the main coroutine is.
Summing == run = "adding" \/ (run \in Out /\ ~err)

Staged ==
    \A s \in Shards :
        /\ run \notin {"begin", "starting"} => shard[s] \notin {"new", "connecting"}
        /\ run \in {"observing", "waiting", "adding"} \/ obs # "off" => shard[s] # "failed"
        /\ Summing => shard[s] # "running"
        /\ shard[s] = "gone" <=> run = "exited"

\* The handlers are disarmed on the way out, the server answers until it is
\* stopped, and the last thing a shard is asked is to stop.
Disarmed ==
    /\ live <=> run \notin Out
    /\ run \in Out \cup {"begin"} => timer = "off"
    /\ obs # "off" => run \in {"waiting", "adding", "holding", "closing"}
    /\ scrape # None => obs # "off"
    /\ \A s \in Shards :
        /\ run = "stopping" /\ inbox[s] # <<>> => inbox[s][Len(inbox[s])] = "stop"
        /\ run = "exited" => inbox[s] = <<>>

\* `what` is in q at most once.
Once(q, what) == \A i, j \in 1 .. Len(q) : q[i] = what /\ q[j] = what => i = j

\* The sum of f over the shards; and f on the shards of S alone.
Total(f) == MapThenSumSet(LAMBDA s : f[s], Shards)
Over(S, f) == [s \in Shards |-> IF s \in S THEN f[s] ELSE 0]

SentBy == [s \in Shards |-> comp[s].sent]
ReceivedBy == [s \in Shards |-> comp[s].received]

\* Each shard is asked once for what it sent, and is in the total from then on.
InTotal(s) == s \in added <=> ~Contains(inbox[s], "add")

Summed ==
    /\ run \notin {"adding"} \cup Out =>
         added = {} /\ total = 0 /\ \A s \in Shards : ~Contains(inbox[s], "add")
    /\ ~compiled /\ Summing =>
         /\ \A s \in Shards : Once(inbox[s], "add") /\ InTotal(s)
         /\ total = Total(Over(added, SentBy))
    /\ run \in Out /\ ~err => added = Shards
    /\ \A s \in Shards : adding[s] # None => compiled /\ run \in {"adding"} \cup Out

\* Each shard is asked once for a scrape.  What a scrape has gathered was counted
\* before now, and with what it has yet to gather is no less than when it began.
Scraped ==
    /\ scrape = None => \A s \in Shards : ~Contains(inbox[s], "scrape")
    /\ scrape # None =>
         /\ \A s \in Shards : /\ Once(inbox[s], "scrape")
                              /\ s \in scrape.left <=> Contains(inbox[s], "scrape")
         /\ scrape.low <= scrape.received + Total(Over(scrape.left, ReceivedBy))
         /\ scrape.received <= Total(Over(Shards \ scrape.left, ReceivedBy))
         /\ scrape.sent <= scrape.received

IInv == Types /\ Begun /\ Staged /\ Disarmed /\ Summed /\ Scraped
-----------------------------------------------------------------------------
(* What a shard has been asked                                               *)

\* A message posted is the last one, and is asked for.
LEMMA AppendFacts ==
    ASSUME NEW q \in Seq(Asks), NEW w \in Asks
    PROVE  /\ Append(q, w) \in Seq(Asks) /\ Len(Append(q, w)) = Len(q) + 1 /\ Append(q, w) # <<>>
           /\ \A i \in 1 .. Len(q) : Append(q, w)[i] = q[i]
           /\ Append(q, w)[Len(q) + 1] = w
           /\ Contains(Append(q, w), w)
           /\ \A what : what # w => (Contains(Append(q, w), what) <=> Contains(q, what))
           /\ \A what : Once(q, what) /\ (what = w => ~Contains(q, what)) => Once(Append(q, w), what)
<1> DEFINE r == Append(q, w)
<1>1. r \in Seq(Asks) /\ Len(r) = Len(q) + 1 /\ r # <<>> /\ r[Len(q) + 1] = w
      /\ \A i \in 1 .. Len(q) : r[i] = q[i]
    OBVIOUS
<1> HIDE DEF r
<1>2. Len(q) \in Nat  OBVIOUS
<1>3. Contains(r, w)  BY <1>1, <1>2 DEF Contains
<1>4. ASSUME NEW what, what # w PROVE Contains(r, what) <=> Contains(q, what)
    BY <1>1, <1>2, <1>4 DEF Contains
<1>5. ASSUME NEW what, Once(q, what), what = w => ~Contains(q, what) PROVE Once(r, what)
    BY <1>1, <1>2, <1>5 DEF Contains, Once
<1> QED  BY <1>1, <1>3, <1>4, <1>5 DEF r

\* A message taken is the first one, and is asked for no more.
LEMMA TailFacts ==
    ASSUME NEW q \in Seq(Asks), q # <<>>
    PROVE  /\ Tail(q) \in Seq(Asks) /\ Len(Tail(q)) = Len(q) - 1 /\ Len(q) \in Nat \ {0}
           /\ Head(q) = q[1] /\ \A i \in 1 .. Len(q) - 1 : Tail(q)[i] = q[i + 1]
           /\ (Tail(q) # <<>> => Len(q) > 1)
           /\ Contains(q, Head(q))
           /\ \A what : what # Head(q) => (Contains(Tail(q), what) <=> Contains(q, what))
           /\ \A what : Once(q, what) => Once(Tail(q), what)
           /\ Once(q, Head(q)) => ~Contains(Tail(q), Head(q))
<1> DEFINE r == Tail(q)
<1>1. r \in Seq(Asks) /\ Len(r) = Len(q) - 1 /\ Len(q) \in Nat \ {0} /\ Head(q) = q[1]
      /\ \A i \in 1 .. Len(q) - 1 : r[i] = q[i + 1]
    OBVIOUS
<1>2. r # <<>> => Len(q) > 1
    <2>1. r # <<>> => Len(r) # 0  BY <1>1
    <2> QED  BY <1>1, <2>1
<1> HIDE DEF r
<1>3. Contains(q, Head(q))  BY <1>1 DEF Contains
<1>4. ASSUME NEW what, Contains(r, what) PROVE \E i \in 2 .. Len(q) : q[i] = what
    <2>1. PICK i \in 1 .. Len(q) - 1 : r[i] = what  BY <1>1, <1>4 DEF Contains
    <2>2. i + 1 \in 2 .. Len(q) /\ q[i + 1] = what  BY <1>1, <2>1
    <2> QED  BY <2>2
<1>5. ASSUME NEW what, what # Head(q) PROVE Contains(r, what) <=> Contains(q, what)
    <2>1. ASSUME NEW i \in 1 .. Len(q), q[i] = what PROVE Contains(r, what)
        <3>1. i # 1  BY <1>1, <1>5, <2>1
        <3>2. i - 1 \in 1 .. Len(r) /\ r[i - 1] = q[i - 1 + 1] /\ i - 1 + 1 = i  BY <1>1, <3>1
        <3> QED  BY <2>1, <3>2 DEF Contains
    <2> QED  BY <1>1, <1>4, <2>1 DEF Contains
<1>6. ASSUME NEW what, Once(q, what) PROVE Once(r, what)
    <2> SUFFICES ASSUME NEW i \in 1 .. Len(r), NEW j \in 1 .. Len(r), r[i] = what, r[j] = what
                 PROVE  i = j
        BY DEF Once
    <2>1. i + 1 \in 1 .. Len(q) /\ j + 1 \in 1 .. Len(q) /\ q[i + 1] = what /\ q[j + 1] = what
        BY <1>1
    <2>2. i + 1 = j + 1  BY <1>6, <2>1 DEF Once
    <2> QED  BY <2>2
<1>7. ASSUME Once(q, Head(q)) PROVE ~Contains(r, Head(q))
    BY <1>1, <1>4, <1>7 DEF Once
<1> QED  BY <1>1, <1>2, <1>3, <1>5, <1>6, <1>7 DEF r
-----------------------------------------------------------------------------
(* Sums over the shards.  The library's induction theorems take an operator;  *)
(* that a set of naturals which is not empty has a least one says the same of *)
(* sets.                                                                      *)

\* What holds of 0, and of n + 1 where it holds of n, holds of every natural.
LEMMA UpFromZero ==
    ASSUME NEW T, 0 \in T, \A n \in Nat : n \in T => n + 1 \in T
    PROVE  Nat \subseteq T
<1> SUFFICES ASSUME Nat \ T # {} PROVE FALSE
    OBVIOUS
<1> DEFINE less == OpToRel(<, Nat)
<1>0. IsWellFoundedOn(less, Nat)  BY NatLessThanWellFounded
<1>1. PICK x \in Nat \ T : \A y \in Nat \ T : ~(<<y, x>> \in less)
    <2> HIDE DEF less
    <2> QED  BY <1>0, WFMin
<1>2. \A y \in Nat \ T : ~(y < x)  BY <1>1 DEF OpToRel
<1>3. x - 1 \in Nat /\ x - 1 < x /\ x - 1 + 1 = x  OBVIOUS
<1>4. x - 1 \notin T  BY <1>3
<1> QED  BY <1>2, <1>3, <1>4
-----------------------------------------------------------------------------
\* The shard that the sum over S takes first.
First(S) == CHOOSE s \in S : TRUE

\* g sums f over the sets of D.
Sums(f, D, g) ==
    g = [S \in D |-> IF S = {} THEN 0 ELSE f[First(S)] + g[S \ {First(S)}]]

UpTo(n) == {S \in SUBSET Shards : Cardinality(S) <= n}

\* There is a first one, and without it there is one shard less.
LEMMA FirstFacts ==
    ASSUME RunAssumption, NEW S \in SUBSET Shards, S # {}
    PROVE  /\ First(S) \in S /\ First(S) \in Shards /\ S \ {First(S)} \in SUBSET Shards
           /\ Cardinality(S) \in Nat \ {0} /\ Cardinality(S \ {First(S)}) = Cardinality(S) - 1
<1>1. First(S) \in S  BY DEF First
<1>2. IsFiniteSet(S)  BY FS_Subset DEF RunAssumption
<1>3. Cardinality(S) \in Nat  BY <1>2, FS_CardinalityType
<1>4. Cardinality(S \ {First(S)}) = Cardinality(S) - 1  BY <1>1, <1>2, FS_RemoveElement
<1>5. Cardinality(S) # 0  BY <1>2, FS_EmptySet
<1> QED  BY <1>1, <1>3, <1>4, <1>5

LEMMA UpToZero ==
    ASSUME RunAssumption, NEW S \in UpTo(0)
    PROVE  S = {}
<1> SUFFICES ASSUME S # {} PROVE FALSE
    OBVIOUS
<1>1. S \in SUBSET Shards /\ Cardinality(S) <= 0  BY DEF UpTo
<1>2. Cardinality(S) \in Nat \ {0}  BY <1>1, FirstFacts
<1> QED  BY <1>1, <1>2

\* The recursive function of the sum is defined.
LEMMA SumsExist ==
    ASSUME RunAssumption, NEW f
    PROVE  \E g : Sums(f, SUBSET Shards, g)
<1> DEFINE T == {n \in Nat : \E g : Sums(f, UpTo(n), g)}
<1>1. 0 \in T
    <2>1. \A S \in UpTo(0) : S = {}
        BY UpToZero
    <2> DEFINE g == [S \in UpTo(0) |-> 0]
    <2>2. g = [S \in UpTo(0) |-> IF S = {} THEN 0 ELSE f[First(S)] + g[S \ {First(S)}]]
        BY <2>1
    <2> HIDE DEF g
    <2> QED  BY <2>2 DEF Sums
<1>2. ASSUME NEW n \in Nat, n \in T PROVE n + 1 \in T
    <2>1. PICK g : Sums(f, UpTo(n), g)  BY <1>2
    <2> DEFINE h == [S \in UpTo(n + 1) |-> IF S = {} THEN 0 ELSE f[First(S)] + g[S \ {First(S)}]]
    <2>2. ASSUME NEW S \in UpTo(n + 1), S # {}
          PROVE  h[S \ {First(S)}] = g[S \ {First(S)}]
        <3> DEFINE R == S \ {First(S)}
        <3>1. S \in SUBSET Shards /\ Cardinality(S) <= n + 1
            BY <2>2 DEF UpTo
        <3>2. R \in SUBSET Shards /\ Cardinality(S) \in Nat /\ Cardinality(R) = Cardinality(S) - 1
            BY <2>2, <3>1, FirstFacts
        <3> HIDE DEF R
        <3>3. R \in UpTo(n) /\ R \in UpTo(n + 1)
            BY <3>1, <3>2 DEF UpTo
        <3>4. g[R] = IF R = {} THEN 0 ELSE f[First(R)] + g[R \ {First(R)}]
            BY <2>1, <3>3 DEF Sums
        <3>5. h[R] = g[R]
            BY <3>3, <3>4
        <3> QED  BY <3>5 DEF R
    <2>3. h = [S \in UpTo(n + 1) |-> IF S = {} THEN 0 ELSE f[First(S)] + h[S \ {First(S)}]]
        <3> DEFINE k == [S \in UpTo(n + 1) |-> IF S = {} THEN 0 ELSE f[First(S)] + h[S \ {First(S)}]]
        <3>1. ASSUME NEW S \in UpTo(n + 1) PROVE k[S] = h[S]
            <4>1. CASE S = {}  BY <4>1
            <4>2. CASE S # {}
                <5>1. h[S \ {First(S)}] = g[S \ {First(S)}]  BY <2>2, <4>2
                <5>2. h[S] = f[First(S)] + g[S \ {First(S)}]  BY <4>2
                <5>3. k[S] = f[First(S)] + h[S \ {First(S)}]  BY <4>2
                <5> QED  BY <5>1, <5>2, <5>3
            <4> QED  BY <4>1, <4>2
        <3>2. k = [S \in UpTo(n + 1) |-> k[S]] /\ h = [S \in UpTo(n + 1) |-> h[S]]
            OBVIOUS
        <3> HIDE DEF h, k
        <3>3. k = h  BY <3>1, <3>2
        <3> QED  BY <3>3 DEF k
    <2> HIDE DEF h
    <2>4. n + 1 \in Nat  OBVIOUS
    <2> QED  BY <2>3, <2>4 DEF Sums
<1> HIDE DEF T
<1>3. Cardinality(Shards) \in Nat
    BY FS_CardinalityType DEF RunAssumption
<1>4. Cardinality(Shards) \in T
    BY <1>1, <1>2, <1>3, UpFromZero
<1>5. UpTo(Cardinality(Shards)) = SUBSET Shards
    <2>1. ASSUME NEW S \in SUBSET Shards PROVE Cardinality(S) <= Cardinality(Shards)
        BY FS_Subset DEF RunAssumption
    <2> QED  BY <2>1 DEF UpTo
<1> QED  BY <1>4, <1>5 DEF T

\* A property of sets of shards is shown by taking the first one away.
LEMMA ShardInduction ==
    ASSUME RunAssumption, NEW P, {} \in P,
           \A S \in SUBSET Shards : S # {} /\ S \ {First(S)} \in P => S \in P
    PROVE  \A S \in SUBSET Shards : S \in P
<1> DEFINE T == {n \in Nat : \A S \in UpTo(n) : S \in P}
<1>1. 0 \in T
    BY UpToZero
<1>2. ASSUME NEW n \in Nat, n \in T PROVE n + 1 \in T
    <2> SUFFICES ASSUME NEW S \in UpTo(n + 1) PROVE S \in P
        OBVIOUS
    <2>1. CASE S = {}  BY <2>1
    <2>2. CASE S # {}
        <3>1. S \in SUBSET Shards /\ Cardinality(S) <= n + 1  BY DEF UpTo
        <3>2. S \ {First(S)} \in UpTo(n)
            BY <2>2, <3>1, FirstFacts DEF UpTo
        <3> QED  BY <1>2, <2>2, <3>1, <3>2
    <2> QED  BY <2>1, <2>2
<1> HIDE DEF T
<1>3. Nat \subseteq T  BY <1>1, <1>2, UpFromZero
<1>4. ASSUME NEW S \in SUBSET Shards PROVE S \in P
    <2>1. IsFiniteSet(S)  BY FS_Subset DEF RunAssumption
    <2>2. Cardinality(S) \in Nat  BY <2>1, FS_CardinalityType
    <2>3. Cardinality(S) \in T /\ S \in UpTo(Cardinality(S))  BY <1>3, <2>2 DEF UpTo
    <2> QED  BY <2>3 DEF T
<1> QED  BY <1>4

\* The sum over all shards, one shard at a time.
LEMMA TotalIs ==
    ASSUME RunAssumption, NEW f \in [Shards -> Nat]
    PROVE  \E g : /\ g[{}] = 0
                  /\ \A S \in SUBSET Shards : g[S] \in Nat
                  /\ \A S \in SUBSET Shards :
                       S # {} => g[S] = f[First(S)] + g[S \ {First(S)}]
                  /\ Total(f) = g[Shards]
<1> DEFINE g == CHOOSE g : Sums(f, SUBSET Shards, g)
<1>1. Sums(f, SUBSET Shards, g)
    BY SumsExist, Zenon
<1>2. Total(f) = g[Shards]
    BY DEF Total, MapThenSumSet, MapThenFoldSet, Sums, First
<1> HIDE DEF g
<1>3. g[{}] = 0 /\ \A S \in SUBSET Shards : S # {} => g[S] = f[First(S)] + g[S \ {First(S)}]
    BY <1>1 DEF Sums
<1> DEFINE P == {S \in SUBSET Shards : g[S] \in Nat}
<1>4. {} \in P  BY <1>3
<1>5. ASSUME NEW S \in SUBSET Shards, S # {}, S \ {First(S)} \in P PROVE S \in P
    <2>1. f[First(S)] \in Nat  BY <1>5, FirstFacts
    <2>2. g[S \ {First(S)}] \in Nat  BY <1>5
    <2>3. g[S] = f[First(S)] + g[S \ {First(S)}]  BY <1>3, <1>5
    <2> QED  BY <2>1, <2>2, <2>3
<1> HIDE DEF P
<1>6. \A S \in SUBSET Shards : S \in P  BY <1>4, <1>5, ShardInduction
<1> QED  BY <1>2, <1>3, <1>6 DEF P

\* A sum grows by what one of its terms grows.
LEMMA TotalGrows ==
    ASSUME RunAssumption, NEW f \in [Shards -> Nat], NEW h \in [Shards -> Nat], NEW s \in Shards,
           NEW d \in Nat, h[s] = f[s] + d, \A r \in Shards \ {s} : h[r] = f[r]
    PROVE  Total(h) = Total(f) + d /\ Total(f) \in Nat /\ Total(h) \in Nat
<1>1. PICK g : /\ g[{}] = 0 /\ \A S \in SUBSET Shards : g[S] \in Nat
               /\ \A S \in SUBSET Shards : S # {} => g[S] = f[First(S)] + g[S \ {First(S)}]
               /\ Total(f) = g[Shards]
    BY TotalIs
<1>2. PICK k : /\ k[{}] = 0 /\ \A S \in SUBSET Shards : k[S] \in Nat
               /\ \A S \in SUBSET Shards : S # {} => k[S] = h[First(S)] + k[S \ {First(S)}]
               /\ Total(h) = k[Shards]
    BY TotalIs
<1> DEFINE P == {S \in SUBSET Shards : k[S] = IF s \in S THEN g[S] + d ELSE g[S]}
<1>3. {} \in P  BY <1>1, <1>2
<1>4. ASSUME NEW S \in SUBSET Shards, S # {}, S \ {First(S)} \in P PROVE S \in P
    <2> DEFINE R == S \ {First(S)}
    <2>1. First(S) \in S /\ First(S) \in Shards /\ R \in SUBSET Shards  BY <1>4, FirstFacts
    <2>2. g[S] = f[First(S)] + g[R] /\ k[S] = h[First(S)] + k[R]  BY <1>1, <1>2, <1>4
    <2>3. g[R] \in Nat /\ k[R] \in Nat /\ f[First(S)] \in Nat /\ h[First(S)] \in Nat
        BY <1>1, <1>2, <2>1
    <2>4. k[R] = IF s \in R THEN g[R] + d ELSE g[R]  BY <1>4
    <2>5. s \in R <=> s \in S /\ s # First(S)  BY <2>1
    <2> HIDE DEF R
    <2>6. CASE First(S) = s
        BY <2>1, <2>2, <2>3, <2>4, <2>5, <2>6
    <2>7. CASE First(S) # s
        <3>1. h[First(S)] = f[First(S)]  BY <2>1, <2>7
        <3> QED  BY <2>1, <2>2, <2>3, <2>4, <2>5, <2>7, <3>1
    <2> QED  BY <2>6, <2>7
<1> HIDE DEF P
<1>5. Shards \in P  BY <1>3, <1>4, ShardInduction
<1> QED  BY <1>1, <1>2, <1>5 DEF P

\* Nothing adds up to nothing.
LEMMA TotalOfNothing ==
    ASSUME RunAssumption, NEW f \in [Shards -> Nat], \A s \in Shards : f[s] = 0
    PROVE  Total(f) = 0
<1>1. PICK g : /\ g[{}] = 0
               /\ \A S \in SUBSET Shards : S # {} => g[S] = f[First(S)] + g[S \ {First(S)}]
               /\ Total(f) = g[Shards]
    BY TotalIs
<1> DEFINE P == {S \in SUBSET Shards : g[S] = 0}
<1>2. {} \in P  BY <1>1
<1>3. ASSUME NEW S \in SUBSET Shards, S # {}, S \ {First(S)} \in P PROVE S \in P
    <2>1. f[First(S)] = 0  BY <1>3, FirstFacts
    <2>2. g[S \ {First(S)}] = 0  BY <1>3
    <2>3. g[S] = f[First(S)] + g[S \ {First(S)}]  BY <1>1, <1>3
    <2> QED  BY <2>1, <2>2, <2>3
<1> HIDE DEF P
<1>4. Shards \in P  BY <1>2, <1>3, ShardInduction
<1> QED  BY <1>1, <1>4 DEF P

\* The sums of the model are sums of the functions this module speaks of.
LEMMA SumIs ==
    ASSUME RunAssumption, NEW field, NEW f, f = [s \in Shards |-> comp[s][field]]
    PROVE  Sum(field) = Total(f)
<1> DEFINE G(v) == [S \in SUBSET Shards |-> IF S = {} THEN 0 ELSE comp[First(S)][field] + v[S \ {First(S)}]]
<1> DEFINE F(v) == [S \in SUBSET Shards |-> IF S = {} THEN 0 ELSE f[First(S)] + v[S \ {First(S)}]]
<1>1. \A v : F(v) = G(v)
    <2>1. \A S \in SUBSET Shards : S # {} => f[First(S)] = comp[First(S)][field]
        BY FirstFacts
    <2> QED  BY <2>1
<1>2. Sum(field) = (CHOOSE v : v = G(v))[Shards]
    BY DEF Sum, MapThenSumSet, MapThenFoldSet, First
<1>3. Total(f) = (CHOOSE v : v = F(v))[Shards]
    BY DEF Total, MapThenSumSet, MapThenFoldSet, First
<1> HIDE DEF F, G
<1>4. (CHOOSE v : v = G(v)) = (CHOOSE v : v = F(v))
    BY <1>1
<1> QED  BY <1>2, <1>3, <1>4
-----------------------------------------------------------------------------
(* Types                                                                     *)

LEMMA PostIs ==
    ASSUME Types, NEW what \in Asks, Post(what)
    PROVE  /\ inbox' \in [Shards -> Seq(Asks)]
           /\ \A s \in Shards : inbox'[s] = Append(inbox[s], what) /\ inbox[s] \in Seq(Asks)
BY DEF Types, Post

LEMMA TakeIs ==
    ASSUME Types, NEW s \in Shards, NEW what, Take(s, what)
    PROVE  /\ inbox' \in [Shards -> Seq(Asks)]
           /\ inbox[s] \in Seq(Asks) /\ inbox[s] # <<>> /\ Head(inbox[s]) = what
           /\ inbox'[s] = Tail(inbox[s]) /\ \A r \in Shards \ {s} : inbox'[r] = inbox[r]
           /\ UNCHANGED <<compiled, served, run, live, timer, signals, err, comp>>
<1>1. Tail(inbox[s]) \in Seq(Asks)  BY DEF Types, Take
<1> QED  BY <1>1 DEF Types, Take, mainVars

LEMMA TypesInit == ASSUME RunAssumption, Init PROVE Types
<1>1. \A s \in Shards : comp[s] = [received |-> 0, sent |-> 0]  BY DEF Init
<1>2. comp \in [Shards -> Counts]  BY DEF Init, Counts
<1>3. \A s \in Shards : comp[s].sent <= comp[s].received  BY <1>1
<1>4. inbox \in [Shards -> Seq(Asks)]  BY DEF Init
<1> QED  BY <1>2, <1>3, <1>4 DEF Init, Types, Runs

\* What happens in the stream of a shard.
LEMMA TypesStream ==
    ASSUME Types, NEW s \in Shards, StreamStep(s)
    PROVE  Types'
<1> USE DEF Types, Counts, mainVars, sumVars, obsVars
<1>1. CASE Connect(s)  BY <1>1 DEF Connect
<1>2. CASE ConnectFails(s)  BY <1>2 DEF ConnectFails
<1>3. CASE Receive(s)
    <2>0. /\ comp[s] \in Counts /\ comp[s].sent \in Nat /\ comp[s].received \in Nat
          /\ comp[s] = [received |-> comp[s].received, sent |-> comp[s].sent]
        OBVIOUS
    <2> DEFINE c == [received |-> comp[s].received + 1, sent |-> comp[s].sent]
    <2>5. [comp[s] EXCEPT !.received = @ + 1] = c  BY <2>0
    <2>1. comp' = [comp EXCEPT ![s] = c]  BY <1>3, <2>5 DEF Receive
    <2>4. c \in Counts /\ c.received = comp[s].received + 1 /\ c.sent = comp[s].sent
        BY <2>0
    <2> HIDE DEF c
    <2>2. /\ comp' \in [Shards -> Counts] /\ comp'[s].sent = comp[s].sent
          /\ comp'[s].received = comp[s].received + 1
          /\ \A r \in Shards \ {s} : comp'[r] = comp[r]
        BY <2>1, <2>4
    <2>3. \A r \in Shards : comp'[r].sent <= comp'[r].received
        <3>1. comp[s].sent \in Nat /\ comp[s].received \in Nat /\ comp[s].sent <= comp[s].received
            OBVIOUS
        <3>2. comp'[s].sent <= comp'[s].received  BY <2>2, <3>1
        <3> QED  BY <2>2, <3>2
    <2> QED  BY <1>3, <2>2, <2>3 DEF Receive
<1>4. CASE Send(s)
    <2>0. /\ comp[s] \in Counts /\ comp[s].sent \in Nat /\ comp[s].received \in Nat
          /\ comp[s] = [received |-> comp[s].received, sent |-> comp[s].sent]
        OBVIOUS
    <2> DEFINE c == [received |-> comp[s].received, sent |-> comp[s].sent + 1]
    <2>5. [comp[s] EXCEPT !.sent = @ + 1] = c  BY <2>0
    <2>1. comp' = [comp EXCEPT ![s] = c]  BY <1>4, <2>5 DEF Send
    <2>4. c \in Counts /\ c.sent = comp[s].sent + 1 /\ c.received = comp[s].received
        BY <2>0
    <2> HIDE DEF c
    <2>2. /\ comp' \in [Shards -> Counts] /\ comp'[s].sent = comp[s].sent + 1
          /\ comp'[s].received = comp[s].received
          /\ \A r \in Shards \ {s} : comp'[r] = comp[r]
        BY <2>1, <2>4
    <2>3. \A r \in Shards : comp'[r].sent <= comp'[r].received
        <3>1. comp[s].sent \in Nat /\ comp[s].received \in Nat /\ comp[s].sent < comp[s].received
            BY <1>4 DEF Send
        <3>2. comp'[s].sent <= comp'[s].received  BY <2>2, <3>1
        <3> QED  BY <2>2, <3>2
    <2> QED  BY <1>4, <2>2, <2>3 DEF Send
<1>5. CASE Finish(s)  BY <1>5 DEF Finish
<1>6. CASE Escalate(s)  BY <1>6 DEF Escalate
<1>7. CASE StopEnds(s)  BY <1>7 DEF StopEnds
<1> QED  BY <1>1, <1>2, <1>3, <1>4, <1>5, <1>6, <1>7 DEF StreamStep

\* A scrape is under way while a shard is asked for it.
LEMMA ScrapeTaken ==
    ASSUME Types, Scraped, NEW s \in Shards, TakeScrape(s)
    PROVE  scrape # None /\ s \in scrape.left
<1>1. Take(s, "scrape")  BY DEF TakeScrape
<1>2. Contains(inbox[s], "scrape")  BY <1>1, TakeIs, TailFacts
<1> QED  BY <1>2 DEF Scraped

\* What a shard does with what it is asked.
LEMMA TypesTake ==
    ASSUME Types, Scraped, NEW s \in Shards, TakeStep(s)
    PROVE  Types'
<1> USE DEF Types, sumVars, obsVars, streamVars
<1>1. CASE TakeStart(s)  BY <1>1, TakeIs DEF TakeStart
<1>2. CASE TakeDrain(s)  BY <1>2, TakeIs DEF TakeDrain
<1>3. CASE TakeForce(s)  BY <1>3, TakeIs DEF TakeForce, StopShared
<1>4. CASE TakeStop(s)  BY <1>4, TakeIs DEF TakeStop, StopShared
<1>5. CASE Reduce(s)
    <2>1. comp[s].sent \in Nat  BY DEF Counts
    <2> QED  BY <1>5, <2>1, TakeIs DEF Reduce
<1>6. CASE LoadTotal(s)  BY <1>6, TakeIs DEF LoadTotal
<1>7. CASE StoreTotal(s)
    <2>1. comp[s].sent \in Nat /\ adding[s] \in Nat  BY <1>7 DEF Counts, StoreTotal
    <2> QED  BY <1>7, <2>1 DEF StoreTotal, mainVars
<1>8. CASE TakeScrape(s)
    <2>1. scrape \in Scrapes  BY <1>8, ScrapeTaken
    <2>2. comp[s].received \in Nat /\ comp[s].sent \in Nat  BY DEF Counts
    <2>4. /\ scrape.left \subseteq Shards /\ scrape.low \in Nat
          /\ scrape.received \in Nat /\ scrape.sent \in Nat
        BY <2>1 DEF Scrapes
    <2>5. scrape' = [left |-> scrape.left \ {s}, received |-> scrape.received + comp[s].received,
                     sent |-> scrape.sent + comp[s].sent, low |-> scrape.low]
        BY <1>8, <2>1 DEF TakeScrape, Scrapes
    <2>3. scrape' \in Scrapes  BY <2>2, <2>4, <2>5 DEF Scrapes
    <2> QED  BY <1>8, <2>3, TakeIs DEF TakeScrape
<1> QED  BY <1>1, <1>2, <1>3, <1>4, <1>5, <1>6, <1>7, <1>8 DEF TakeStep

\* The handlers, the timer and the scrapes.
LEMMA TypesHandlers ==
    ASSUME RunAssumption, Types, Signal \/ TimerFires \/ Scrape \/ ScrapeAnswered
    PROVE  Types'
<1> USE DEF Types, sumVars, obsVars, streamVars, mainVars
<1>1. CASE Signal
    <2>1. CASE live  BY <1>1, <2>1, PostIs DEF Signal, Asks
    <2>2. CASE ~live  BY <1>1, <2>2 DEF Signal
    <2> QED  BY <2>1, <2>2
<1>2. CASE TimerFires
    <2>1. CASE live  BY <1>2, <2>1, PostIs DEF TimerFires, Asks
    <2>2. CASE ~live  BY <1>2, <2>2 DEF TimerFires
    <2> QED  BY <2>1, <2>2
<1>3. CASE Scrape
    <2> DEFINE f == [s \in Shards |-> comp[s]["received"]]
    <2>1. f \in [Shards -> Nat] /\ Sum("received") = Total(f)
        BY SumIs DEF Counts
    <2>2. Sum("received") \in Nat
        <3>1. IsFiniteSet(Shards)  BY DEF RunAssumption
        <3> HIDE DEF f, Types
        <3>2. PICK g : (\A S \in SUBSET Shards : g[S] \in Nat) /\ Total(f) = g[Shards]
            BY <2>1, TotalIs
        <3> QED  BY <2>1, <3>2
    <2>3. scrape' \in Scrapes  BY <1>3, <2>2 DEF Scrape, Scrapes
    <2> QED  BY <1>3, <2>3, PostIs DEF Scrape, Asks
<1>4. CASE ScrapeAnswered  BY <1>4 DEF ScrapeAnswered
<1> QED  BY <1>1, <1>2, <1>3, <1>4

\* The main coroutine.
LEMMA TypesMain ==
    ASSUME Types, MainStep
    PROVE  Types'
<1> USE DEF Types, sumVars, obsVars, streamVars, mainVars, Runs, Out, Leave
<1>1. CASE Begin  BY <1>1, PostIs DEF Begin, Asks
<1>2. CASE Started  BY <1>2 DEF Started
<1>3. CASE Observe  BY <1>3 DEF Observe
<1>4. CASE ObserveFails  BY <1>4 DEF ObserveFails
<1>5. CASE Waited  BY <1>5, PostIs DEF Waited, Asks
<1>6. CASE Added  BY <1>6 DEF Added
<1>7. CASE Held  BY <1>7 DEF Held
<1>8. CASE Closed  BY <1>8, PostIs DEF Closed, Asks
<1>9. CASE Exit  BY <1>9 DEF Exit
<1> QED  BY <1>1, <1>2, <1>3, <1>4, <1>5, <1>6, <1>7, <1>8, <1>9 DEF MainStep

LEMMA TypesNext ==
    ASSUME RunAssumption, Types, Scraped, [Next]_vars
    PROVE  Types'
<1>1. ASSUME NEW s \in Shards, StreamStep(s) PROVE Types'
    BY <1>1, TypesStream
<1>2. ASSUME NEW s \in Shards, TakeStep(s) PROVE Types'
    BY <1>2, TypesTake
<1>3. CASE Signal \/ TimerFires \/ Scrape \/ ScrapeAnswered
    BY <1>3, TypesHandlers
<1>4. CASE MainStep  BY <1>4, TypesMain
<1>5. CASE UNCHANGED vars
    BY <1>5 DEF vars, Types, streamVars, mainVars, sumVars, obsVars
<1> QED  BY <1>1, <1>2, <1>3, <1>4, <1>5 DEF Next
-----------------------------------------------------------------------------
(* The start                                                                 *)

LEMMA BegunInit == ASSUME Init PROVE Begun /\ Staged /\ Disarmed
BY DEF Init, Begun, Staged, Disarmed, Summing, Out

\* What is posted after the start comes after "start".
LEMMA BegunPost ==
    ASSUME Types, Begun, run # "begin", NEW what \in Asks, what # "start", Post(what),
           run' # "begin", UNCHANGED <<shard, stopping>>
    PROVE  Begun'
<1> SUFFICES ASSUME NEW s \in Shards
             PROVE  /\ shard[s] = "new" => inbox'[s] # <<>> /\ inbox'[s][1] = "start"
                    /\ \A i \in 1 .. Len(inbox'[s]) : inbox'[s][i] = "start" => i = 1 /\ shard[s] = "new"
    BY DEF Begun
<1> DEFINE q == inbox[s]
<1>1. q \in Seq(Asks) /\ inbox'[s] = Append(q, what)  BY PostIs
<1>2. /\ Len(Append(q, what)) = Len(q) + 1 /\ Append(q, what) # <<>>
      /\ \A i \in 1 .. Len(q) : Append(q, what)[i] = q[i]
      /\ Append(q, what)[Len(q) + 1] = what
    BY <1>1, AppendFacts
<1>3. Len(q) \in Nat /\ (q # <<>> => Len(q) > 0)  BY <1>1
<1>4. /\ shard[s] = "new" => q # <<>> /\ q[1] = "start"
      /\ \A i \in 1 .. Len(q) : q[i] = "start" => i = 1 /\ shard[s] = "new"
    BY DEF Begun
<1> HIDE DEF q
<1>5. ASSUME NEW i \in 1 .. Len(q) + 1, Append(q, what)[i] = "start"
      PROVE  i = 1 /\ shard[s] = "new"
    <2>1. i \in 1 .. Len(q)  BY <1>2, <1>3, <1>5
    <2> QED  BY <1>2, <1>4, <1>5, <2>1
<1>6. shard[s] = "new" => Append(q, what)[1] = "start"  BY <1>2, <1>3, <1>4
<1> QED  BY <1>1, <1>2, <1>5, <1>6

\* Only "start" is taken of a shard that has not started.
LEMMA BegunTake ==
    ASSUME Types, Begun, NEW s \in Shards, NEW what \in Asks, Take(s, what),
           shard' = [shard EXCEPT ![s] = IF what = "start" THEN "connecting" ELSE @],
           \A r \in Shards \ {s} : stopping'[r] = stopping[r],
           stopping'[s] = stopping[s] \/ (stopping'[s] = "stopping" /\ what # "start")
    PROVE  Begun'
<1>1. /\ inbox[s] \in Seq(Asks) /\ inbox[s] # <<>> /\ Head(inbox[s]) = what
      /\ inbox'[s] = Tail(inbox[s]) /\ \A r \in Shards \ {s} : inbox'[r] = inbox[r]
      /\ run' = run
    BY TakeIs
<1>2. /\ Len(Tail(inbox[s])) = Len(inbox[s]) - 1 /\ Len(inbox[s]) \in Nat \ {0}
      /\ Head(inbox[s]) = inbox[s][1]
      /\ \A i \in 1 .. Len(inbox[s]) - 1 : Tail(inbox[s])[i] = inbox[s][i + 1]
    BY <1>1, TailFacts
<1>3. run # "begin" /\ (shard[s] = "new" <=> what = "start")
    BY <1>1, <1>2 DEF Begun
<1>4. \A i \in 1 .. Len(inbox'[s]) : inbox'[s][i] # "start"
    <2> SUFFICES ASSUME NEW i \in 1 .. Len(inbox'[s]), inbox'[s][i] = "start" PROVE FALSE
        OBVIOUS
    <2>1. i + 1 \in 1 .. Len(inbox[s]) /\ inbox[s][i + 1] = "start" /\ i + 1 # 1  BY <1>1, <1>2
    <2> QED  BY <2>1 DEF Begun
<1>5. shard'[s] # "new" /\ (shard'[s] = shard[s] \/ shard'[s] = "connecting")
      /\ \A r \in Shards \ {s} : shard'[r] = shard[r]
    BY <1>3 DEF Types
<1> SUFFICES ASSUME NEW r \in Shards PROVE Begun!(r)'
    BY DEF Begun
<1>6. CASE r = s
    <2>1. stopping[s] = "stopped" => shard[s] # "running"  BY DEF Begun
    <2>2. stopping'[s] = "stopped" => shard'[s] # "running"  BY <1>5, <2>1
    <2>3. run' # "begin" /\ shard'[s] # "new"  BY <1>1, <1>3, <1>5
    <2> QED  BY <1>4, <1>6, <2>2, <2>3
<1>7. CASE r # s
    BY <1>1, <1>3, <1>5, <1>7 DEF Begun
<1> QED  BY <1>6, <1>7

LEMMA BegunNext ==
    ASSUME Types, Begun, Staged, Disarmed, [Next]_vars
    PROVE  Begun'
<1> USE DEF Asks
<1>1. ASSUME NEW s \in Shards, StreamStep(s) PROVE Begun'
    <2>1. run' = run /\ inbox' = inbox
        BY <1>1 DEF StreamStep, Connect, ConnectFails, Receive, Send, Finish, Escalate, StopEnds,
                    mainVars
    <2>2. /\ \A r \in Shards \ {s} : shard'[r] = shard[r] /\ stopping'[r] = stopping[r]
          /\ \/ shard'[s] = shard[s] /\ stopping'[s] = stopping[s]
             \/ shard[s] \in {"connecting", "running"} /\ stopping'[s] = stopping[s]
                /\ shard'[s] # "new" /\ (shard'[s] = "running" => stopping[s] = "no")
             \/ shard'[s] = shard[s] /\ shard[s] # "running" /\ stopping[s] = "stopping"
                /\ stopping'[s] = "stopped"
        BY <1>1 DEF StreamStep, Connect, ConnectFails, Receive, Send, Finish, Escalate, StopEnds,
                    Types
    <2> QED  BY <2>1, <2>2 DEF Begun, Types
<1>2. ASSUME NEW s \in Shards, TakeStep(s) PROVE Begun'
    <2>1. CASE TakeStart(s)  BY <2>1, BegunTake DEF TakeStart
    <2>2. CASE TakeDrain(s)  BY <2>2, BegunTake DEF TakeDrain, Types
    <2>3. CASE TakeForce(s)  BY <2>3, BegunTake DEF TakeForce, StopShared, Types
    <2>4. CASE TakeStop(s)  BY <2>4, BegunTake DEF TakeStop, StopShared, Types
    <2>5. CASE Reduce(s)  BY <2>5, BegunTake DEF Reduce, streamVars, Types
    <2>6. CASE LoadTotal(s)  BY <2>6, BegunTake DEF LoadTotal, streamVars, Types
    <2>7. CASE StoreTotal(s)  BY <2>7 DEF StoreTotal, streamVars, mainVars, Begun
    <2>8. CASE TakeScrape(s)  BY <2>8, BegunTake DEF TakeScrape, streamVars, Types
    <2> QED  BY <1>2, <2>1, <2>2, <2>3, <2>4, <2>5, <2>6, <2>7, <2>8 DEF TakeStep
<1>3. CASE Signal
    <2>1. CASE live  BY <1>3, <2>1, BegunPost DEF Signal, streamVars
    <2>2. CASE ~live  BY <1>3, <2>2 DEF Signal, streamVars, Begun
    <2> QED  BY <2>1, <2>2
<1>4. CASE TimerFires
    <2>1. CASE live
        <3>1. run # "begin"  BY <1>4 DEF TimerFires, Disarmed
        <3> QED  BY <1>4, <2>1, <3>1, BegunPost DEF TimerFires, streamVars
    <2>2. CASE ~live  BY <1>4, <2>2 DEF TimerFires, streamVars, Begun
    <2> QED  BY <2>1, <2>2
<1>5. CASE Scrape
    <2>1. run # "begin"  BY <1>5 DEF Scrape, Disarmed
    <2> QED  BY <1>5, <2>1, BegunPost DEF Scrape, streamVars, mainVars
<1>6. CASE Begin
    <2>1. \A s \in Shards : inbox'[s] = <<"start">> /\ shard[s] = "new"
        BY <1>6, PostIs DEF Begin, Begun
    <2> QED  BY <1>6, <2>1 DEF Begin, streamVars, Begun
<1>7. CASE Waited  BY <1>7, BegunPost DEF Waited, streamVars
<1>8. CASE Closed  BY <1>8, BegunPost DEF Closed, streamVars
<1>9. CASE Exit
    <2>1. \A s \in Shards : shard[s] # "new" /\ shard'[s] = "gone"
        BY <1>9 DEF Exit, Staged
    <2> QED  BY <1>9, <2>1 DEF Exit, Begun
<1>10. CASE ScrapeAnswered \/ Started \/ Observe \/ ObserveFails \/ Added \/ Held \/ UNCHANGED vars
    <2>1. UNCHANGED <<shard, stopping, inbox>> /\ (run' = run \/ (run # "begin" /\ run' # "begin"))
        BY <1>10 DEF ScrapeAnswered, Started, Observe, ObserveFails, Added, Held, vars, streamVars,
                     mainVars, Leave
    <2> QED  BY <2>1 DEF Begun
<1> QED  BY <1>1, <1>2, <1>3, <1>4, <1>5, <1>6, <1>7, <1>8, <1>9, <1>10 DEF Next, MainStep
-----------------------------------------------------------------------------
(* The stages                                                                *)

LEMMA StagedNext ==
    ASSUME Types, Begun, Staged, Disarmed, [Next]_vars
    PROVE  Staged'
<1> USE DEF Staged, Summing, Out
<1>1. ASSUME NEW s \in Shards, StreamStep(s) PROVE Staged'
    <2>1. UNCHANGED <<run, err, obs>>
        BY <1>1 DEF StreamStep, Connect, ConnectFails, Receive, Send, Finish, Escalate, StopEnds,
                    mainVars, obsVars
    <2>2. \/ UNCHANGED shard
          \/ /\ shard[s] = "connecting"
             /\ \E p \in {"running", "refused", "failed"} : shard' = [shard EXCEPT ![s] = p]
          \/ shard[s] = "running" /\ shard' = [shard EXCEPT ![s] = "over"]
        BY <1>1 DEF StreamStep, Connect, ConnectFails, Receive, Send, Finish, Escalate, StopEnds
    <2>3. shard[s] = "connecting" => run \in {"begin", "starting"} /\ obs = "off"
        BY DEF Disarmed
    <2> QED  BY <2>1, <2>2, <2>3 DEF Types
<1>2. ASSUME NEW s \in Shards, TakeStep(s) PROVE Staged'
    <2>1. CASE TakeStart(s)
        <3>1. inbox[s] # <<>> /\ inbox[s][1] = "start" /\ Len(inbox[s]) \in Nat \ {0}
            BY <2>1, TakeIs, TailFacts DEF TakeStart
        <3>2. shard[s] = "new" /\ run \in {"starting"} /\ obs = "off"
            BY <3>1 DEF Begun, Disarmed, Types, Runs
        <3>3. shard' = [shard EXCEPT ![s] = "connecting"] /\ UNCHANGED <<run, err, obs>>
            BY <2>1 DEF TakeStart, Take, mainVars, obsVars
        <3> QED  BY <3>2, <3>3 DEF Types
    <2>2. CASE ~TakeStart(s)
        <3>1. UNCHANGED <<run, err, obs, shard>>
            BY <1>2, <2>2 DEF TakeStep, TakeDrain, TakeForce, TakeStop, Reduce, LoadTotal,
                      StoreTotal, TakeScrape, Take, mainVars, obsVars, streamVars
        <3> QED  BY <3>1
    <2> QED  BY <2>1, <2>2
<1>3. CASE Signal \/ TimerFires \/ Scrape \/ ScrapeAnswered \/ UNCHANGED vars
    <2>1. UNCHANGED <<run, err, obs, shard>>
        BY <1>3 DEF Signal, TimerFires, Scrape, ScrapeAnswered, vars, mainVars, obsVars, streamVars
    <2> QED  BY <2>1
<1>4. CASE Begin
    <2>1. obs = "off"  BY <1>4 DEF Begin, Disarmed
    <2> QED  BY <1>4, <2>1 DEF Begin, streamVars, mainVars, obsVars
<1>5. CASE Started
    <2>1. obs = "off"  BY <1>5 DEF Started, Disarmed
    <2> QED  BY <1>5, <2>1 DEF Started, Leave, streamVars, obsVars
<1>6. CASE Observe  BY <1>6 DEF Observe, streamVars
<1>7. CASE ObserveFails  BY <1>7 DEF ObserveFails, Leave, streamVars
<1>8. CASE Waited
    <2>1. \A s \in Shards : shard[s] # "running"
        BY <1>8 DEF Waited, Finished, Begun
    <2> QED  BY <1>8, <2>1 DEF Waited, streamVars, obsVars
<1>9. CASE Added  BY <1>9 DEF Added, Leave, streamVars, obsVars
<1>10. CASE Held  BY <1>10 DEF Held, streamVars
<1>11. CASE Closed  BY <1>11 DEF Closed, streamVars
<1>12. CASE Exit
    <2>1. obs = "off"  BY <1>12 DEF Exit, Disarmed
    <2>2. \A s \in Shards : shard'[s] = "gone"  BY <1>12 DEF Exit
    <2> QED  BY <1>12, <2>1, <2>2 DEF Exit, obsVars
<1> QED
    BY <1>1, <1>2, <1>3, <1>4, <1>5, <1>6, <1>7, <1>8, <1>9, <1>10, <1>11, <1>12
    DEF Next, MainStep
-----------------------------------------------------------------------------
(* The handlers                                                              *)

\* What a shard is asked last stays last when it takes the first.
LEMMA LastStays ==
    ASSUME Types, NEW s \in Shards, NEW what, Take(s, what), NEW r \in Shards, inbox'[r] # <<>>,
           inbox[r] # <<>> => inbox[r][Len(inbox[r])] = "stop"
    PROVE  inbox'[r][Len(inbox'[r])] = "stop"
<1>1. CASE r = s
    <2> DEFINE q == inbox[s]
    <2>1. q \in Seq(Asks) /\ q # <<>> /\ inbox'[s] = Tail(q)  BY TakeIs
    <2>2. /\ Len(Tail(q)) = Len(q) - 1 /\ Len(q) \in Nat \ {0} /\ (Tail(q) # <<>> => Len(q) > 1)
          /\ \A i \in 1 .. Len(q) - 1 : Tail(q)[i] = q[i + 1]
        BY <2>1, TailFacts
    <2> HIDE DEF q
    <2>3. Len(q) - 1 \in 1 .. Len(q) - 1 /\ Len(q) - 1 + 1 = Len(q)  BY <1>1, <2>1, <2>2
    <2>4. Tail(q)[Len(q) - 1] = q[Len(q)]  BY <2>2, <2>3
    <2>5. q[Len(q)] = "stop"  BY <1>1, <2>1 DEF q
    <2> QED  BY <1>1, <2>1, <2>2, <2>4, <2>5
<1>2. CASE r # s
    BY <1>2, TakeIs
<1> QED  BY <1>1, <1>2

LEMMA DisarmedNext ==
    ASSUME Types, Staged, Disarmed, Scraped, [Next]_vars
    PROVE  Disarmed'
<1> USE DEF Disarmed, Out
<1>1. ASSUME NEW s \in Shards, StreamStep(s) PROVE Disarmed'
    <2>1. UNCHANGED <<run, live, timer, obs, scrape, inbox>>
        BY <1>1 DEF StreamStep, Connect, ConnectFails, Receive, Send, Finish, Escalate, StopEnds,
                    mainVars, obsVars
    <2> QED  BY <2>1
<1>2. ASSUME NEW s \in Shards, TakeStep(s) PROVE Disarmed'
    <2>1. CASE StoreTotal(s)
        BY <2>1 DEF StoreTotal, mainVars, obsVars
    <2>2. CASE ~StoreTotal(s)
        <3>1. PICK what \in Asks : Take(s, what)
            BY <1>2, <2>2 DEF TakeStep, TakeStart, TakeDrain, TakeForce, TakeStop, Reduce,
                      LoadTotal, TakeScrape, Asks
        <3>2. UNCHANGED <<run, live, timer>>  BY <3>1, TakeIs
        <3>3. obs' = obs /\ (scrape' # None => obs # "off")
            <4>1. CASE TakeScrape(s)
                BY <4>1, ScrapeTaken DEF TakeScrape
            <4>2. CASE ~TakeScrape(s)
                BY <1>2, <2>2, <4>2 DEF TakeStep, TakeStart, TakeDrain, TakeForce, TakeStop, Reduce,
                          LoadTotal, obsVars
            <4> QED  BY <4>1, <4>2
        <3>4. inbox[s] # <<>>  BY <3>1, TakeIs
        <3>5. run # "exited"  BY <3>4
        <3>6. \A r \in Shards : run = "stopping" /\ inbox'[r] # <<>> => inbox'[r][Len(inbox'[r])] = "stop"
            BY <3>1, LastStays
        <3> QED  BY <3>2, <3>3, <3>5, <3>6
    <2> QED  BY <2>1, <2>2
<1>3. CASE Signal
    BY <1>3 DEF Signal, obsVars
<1>4. CASE TimerFires
    BY <1>4 DEF TimerFires, obsVars
<1>5. CASE Scrape
    BY <1>5 DEF Scrape, mainVars
<1>6. CASE ScrapeAnswered \/ UNCHANGED vars
    BY <1>6 DEF ScrapeAnswered, vars, mainVars, obsVars
<1>7. CASE Begin \/ Started \/ Observe \/ ObserveFails \/ Waited \/ Added \/ Held
    BY <1>7 DEF Begin, Started, Observe, ObserveFails, Waited, Added, Held, Leave, obsVars
<1>8. CASE Closed
    <2>1. \A s \in Shards : inbox'[s][Len(inbox'[s])] = "stop"
        <3> SUFFICES ASSUME NEW s \in Shards PROVE inbox'[s][Len(inbox'[s])] = "stop"
            OBVIOUS
        <3>1. inbox'[s] = Append(inbox[s], "stop") /\ inbox[s] \in Seq(Asks) /\ "stop" \in Asks
            BY <1>8, PostIs DEF Closed, Asks
        <3> QED  BY <3>1, AppendFacts
    <2> QED  BY <1>8, <2>1 DEF Closed
<1>9. CASE Exit
    <2>1. ASSUME NEW s \in Shards PROVE inbox[s] = <<>>
        <3> SUFFICES ASSUME inbox[s] # <<>> PROVE FALSE
            OBVIOUS
        <3>1. inbox[s] \in Seq(Asks)  BY DEF Types
        <3>2. Len(inbox[s]) \in 1 .. Len(inbox[s])  BY <3>1
        <3>3. inbox[s][Len(inbox[s])] = "stop"  BY <1>9 DEF Exit
        <3> QED  BY <1>9, <3>2, <3>3 DEF Exit, Contains
    <2> QED  BY <1>9, <2>1 DEF Exit, obsVars
<1> QED
    BY <1>1, <1>2, <1>3, <1>4, <1>5, <1>6, <1>7, <1>8, <1>9 DEF Next, MainStep
-----------------------------------------------------------------------------
(* The totals                                                                *)

LEMMA SummedInit == ASSUME Init PROVE Summed /\ Scraped
BY DEF Init, Summed, Scraped, Summing, Out, Contains

\* What a shard takes or is asked leaves the other things it was asked.
LEMMA AskedStays ==
    ASSUME Types, NEW what \in Asks, NEW other, other # what, NEW s \in Shards,
           Post(what) \/ (\E r \in Shards : Take(r, what))
    PROVE  /\ Contains(inbox'[s], other) <=> Contains(inbox[s], other)
           /\ Once(inbox[s], other) => Once(inbox'[s], other)
<1>1. inbox[s] \in Seq(Asks)  BY DEF Types
<1>2. CASE Post(what)
    <2>1. inbox'[s] = Append(inbox[s], what)  BY <1>2, PostIs
    <2> QED  BY <1>1, <2>1, AppendFacts
<1>3. CASE \E r \in Shards : Take(r, what)
    <2>1. \/ inbox'[s] = inbox[s]
          \/ inbox[s] # <<>> /\ Head(inbox[s]) = what /\ inbox'[s] = Tail(inbox[s])
        BY <1>3, TakeIs
    <2> QED  BY <1>1, <2>1, TailFacts
<1> QED  BY <1>2, <1>3

LEMMA SentByType ==
    ASSUME Types, NEW S
    PROVE  /\ Over(S, SentBy) \in [Shards -> Nat] /\ Over(S, ReceivedBy) \in [Shards -> Nat]
           /\ SentBy \in [Shards -> Nat] /\ ReceivedBy \in [Shards -> Nat]
BY DEF Types, Counts, Over, SentBy, ReceivedBy

\* Where what was added and sent stays, so does the total.
LEMMA SummedSame ==
    ASSUME Types, Summed, UNCHANGED <<compiled, added, adding, total, err>>,
           ~compiled /\ Summing => SentBy' = SentBy,
           \/ run' = run
           \/ run \in {"begin", "starting"} /\ run' \in {"begin", "starting", "observing", "waiting"}
           \/ run \in Out /\ run' \in Out,
           \A s \in Shards : /\ Contains(inbox'[s], "add") <=> Contains(inbox[s], "add")
                             /\ Once(inbox[s], "add") => Once(inbox'[s], "add")
    PROVE  Summed'
<1>1. Summing' => Summing  BY DEF Summing, Out
<1>2. \A s \in Shards : InTotal(s)' <=> InTotal(s)  BY DEF InTotal
<1>3. ~compiled /\ Summing => Over(added, SentBy)' = Over(added, SentBy)  BY DEF Over
<1>4. ~compiled /\ Summing => Total(Over(added, SentBy))' = Total(Over(added, SentBy))
    BY <1>3
<1>5. ~compiled' /\ Summing' =>
         /\ \A s \in Shards : Once(inbox'[s], "add") /\ InTotal(s)'
         /\ total' = Total(Over(added, SentBy))'
    BY <1>1, <1>2, <1>4 DEF Summed
<1> QED  BY <1>5 DEF Summed, Out

\* A shard that has answered is in the total.
LEMMA SummedReduce ==
    ASSUME RunAssumption, Types, Summed, NEW s \in Shards, Reduce(s)
    PROVE  Summed'
<1>1. /\ inbox[s] \in Seq(Asks) /\ inbox[s] # <<>> /\ Head(inbox[s]) = "add"
      /\ inbox'[s] = Tail(inbox[s]) /\ \A r \in Shards \ {s} : inbox'[r] = inbox[r]
      /\ UNCHANGED <<compiled, run, err, comp>>
    BY TakeIs DEF Reduce
<1>2. total' = total + comp[s].sent /\ added' = added \cup {s} /\ adding' = adding /\ ~compiled
    BY DEF Reduce
<1>3. Contains(inbox[s], "add")  BY <1>1, TailFacts
<1>4. run \in {"adding"} \cup Out  BY <1>3 DEF Summed
<1>5. ASSUME Summing
      PROVE  /\ \A r \in Shards : Once(inbox'[r], "add") /\ InTotal(r)'
             /\ total' = Total(Over(added, SentBy))'
    <2>1. /\ \A r \in Shards : Once(inbox[r], "add") /\ InTotal(r)
          /\ total = Total(Over(added, SentBy))
        BY <1>2, <1>5 DEF Summed
    <2>2. s \notin added  BY <1>3, <2>1 DEF InTotal
    <2>3. ~Contains(inbox'[s], "add") /\ Once(inbox'[s], "add")
        BY <1>1, <2>1, TailFacts
    <2>4. \A r \in Shards : Once(inbox'[r], "add") /\ InTotal(r)'
        BY <1>1, <1>2, <2>1, <2>3 DEF InTotal
    <2> DEFINE f == Over(added, SentBy)
    <2> DEFINE h == Over(added', SentBy)
    <2>5. f \in [Shards -> Nat] /\ h \in [Shards -> Nat] /\ SentBy \in [Shards -> Nat]
        BY SentByType
    <2>6. h[s] = f[s] + SentBy[s] /\ \A r \in Shards \ {s} : h[r] = f[r]
        BY <1>2, <2>2, <2>5 DEF Over
    <2>7. SentBy[s] = comp[s].sent /\ SentBy' = SentBy  BY <1>1 DEF SentBy
    <2>8. h = Over(added, SentBy)'  BY <2>7 DEF Over
    <2> HIDE DEF f, h
    <2>9. Total(h) = Total(f) + SentBy[s]  BY <2>5, <2>6, TotalGrows
    <2>10. total = Total(f)  BY <2>1 DEF f
    <2>11. total' = Total(h)  BY <1>2, <2>7, <2>9, <2>10
    <2>12. Total(h) = Total(Over(added, SentBy))'  BY <2>8
    <2> QED  BY <2>4, <2>11, <2>12
<1>6. Summing' <=> Summing  BY <1>1 DEF Summing
<1>7. run \in Out /\ ~err => added' = Shards  BY <1>2 DEF Summed
<1> QED  BY <1>1, <1>2, <1>4, <1>5, <1>6, <1>7 DEF Summed, Out

\* The shards are asked when all are over, and each once.
LEMMA SummedAsk ==
    ASSUME RunAssumption, Types, Types', Summed, Waited
    PROVE  Summed'
<1>1. /\ run = "waiting" /\ run' = "adding" /\ Post("add")
      /\ UNCHANGED <<compiled, err, comp, added, adding, total>>
    BY DEF Waited, mainVars, sumVars, streamVars
<1>2. added = {} /\ total = 0 /\ \A s \in Shards : ~Contains(inbox[s], "add") /\ adding[s] = None
    BY <1>1 DEF Summed, Out
<1>3. ASSUME NEW s \in Shards PROVE Once(inbox'[s], "add") /\ InTotal(s)'
    <2>1. inbox'[s] = Append(inbox[s], "add") /\ inbox[s] \in Seq(Asks) /\ "add" \in Asks
        BY <1>1, PostIs DEF Asks
    <2>2. ~Contains(inbox[s], "add") /\ Once(inbox[s], "add")
        BY <1>2 DEF Contains, Once
    <2>3. Once(inbox'[s], "add") /\ Contains(inbox'[s], "add")
        <3>1. Once(Append(inbox[s], "add"), "add")
            BY <2>1, <2>2, AppendFacts DEF Contains, Once
        <3> QED  BY <2>1, <3>1, AppendFacts
    <2> QED  BY <1>1, <1>2, <2>3 DEF InTotal
<1> DEFINE f == Over(added, SentBy)'
<1>4. f \in [Shards -> Nat] /\ \A s \in Shards : f[s] = 0
    BY <1>1, <1>2 DEF Over, SentBy
<1>5. Total(f) = 0
    <2> HIDE DEF f
    <2> QED  BY <1>4, TotalOfNothing
<1>6. Total(Over(added, SentBy))' = 0  BY <1>5
<1> QED  BY <1>1, <1>2, <1>3, <1>6 DEF Summed, Out

LEMMA SummedNext ==
    ASSUME RunAssumption, Types, Types', Staged, Summed, [Next]_vars
    PROVE  Summed'
<1>1. ASSUME NEW s \in Shards, StreamStep(s) PROVE Summed'
    <2>1. UNCHANGED <<compiled, added, adding, total, err, run, inbox>>
        BY <1>1 DEF StreamStep, Connect, ConnectFails, Receive, Send, Finish, Escalate, StopEnds,
                    mainVars, sumVars
    <2>2. Summing => SentBy' = SentBy
        <3>1. CASE Send(s)
            <4>1. ~Summing  BY <3>1 DEF Send, Staged
            <4> QED  BY <4>1
        <3>2. CASE Receive(s)
            <4>1. \A r \in Shards : comp'[r].sent = comp[r].sent
                BY <3>2 DEF Receive, Types, Counts
            <4> QED  BY <4>1 DEF SentBy
        <3>3. CASE comp' = comp  BY <3>3 DEF SentBy
        <3> QED
            BY <1>1, <3>1, <3>2, <3>3 DEF StreamStep, Connect, ConnectFails, Finish, Escalate, StopEnds
    <2> QED  BY <2>1, <2>2, SummedSame
<1>2. ASSUME NEW s \in Shards, TakeStep(s) PROVE Summed'
    <2>1. CASE Reduce(s)  BY <2>1, SummedReduce
    <2>2. CASE LoadTotal(s)
        <3>1. /\ inbox[s] \in Seq(Asks) /\ inbox[s] # <<>> /\ Head(inbox[s]) = "add"
              /\ UNCHANGED <<compiled, run, err, added, total>> /\ compiled
            BY <2>2, TakeIs DEF LoadTotal
        <3>2. run \in {"adding"} \cup Out  BY <3>1, TailFacts DEF Summed
        <3> QED  BY <3>1, <3>2 DEF Summed, Out
    <2>3. CASE StoreTotal(s)
        <3>1. UNCHANGED <<compiled, run, err>> /\ added' = added \cup {s} /\ adding[s] # None
              /\ adding' = [adding EXCEPT ![s] = None]
            BY <2>3 DEF StoreTotal, mainVars
        <3>2. compiled /\ run \in {"adding"} \cup Out  BY <3>1 DEF Summed
        <3>3. \A r \in Shards : adding'[r] # None => adding[r] # None  BY <3>1 DEF Types
        <3> QED  BY <3>1, <3>2, <3>3 DEF Summed, Out
    <2>4. CASE ~(Reduce(s) \/ LoadTotal(s) \/ StoreTotal(s))
        <3>1. PICK what \in Asks : Take(s, what) /\ what # "add"
            BY <1>2, <2>4 DEF TakeStep, TakeStart, TakeDrain, TakeForce, TakeStop, TakeScrape, Asks
        <3>2. UNCHANGED <<compiled, run, err, comp>>  BY <3>1, TakeIs
        <3>3. UNCHANGED <<added, adding, total>>
            BY <1>2, <2>4 DEF TakeStep, TakeStart, TakeDrain, TakeForce, TakeStop, TakeScrape, sumVars
        <3>4. SentBy' = SentBy  BY <3>2 DEF SentBy
        <3> QED  BY <3>1, <3>2, <3>3, <3>4, AskedStays, SummedSame
    <2> QED  BY <2>1, <2>2, <2>3, <2>4
<1>3. CASE Signal \/ TimerFires \/ Scrape \/ ScrapeAnswered
    <2>1. UNCHANGED <<compiled, added, adding, total, err, run, comp>>
        BY <1>3 DEF Signal, TimerFires, Scrape, ScrapeAnswered, mainVars, sumVars, streamVars
    <2>2. inbox' = inbox \/ \E what \in Asks \ {"add"} : Post(what)
        BY <1>3 DEF Signal, TimerFires, Scrape, ScrapeAnswered, Asks
    <2>3. SentBy' = SentBy  BY <2>1 DEF SentBy
    <2> QED  BY <2>1, <2>2, <2>3, AskedStays, SummedSame
<1>4. CASE Begin \/ Closed
    <2>1. UNCHANGED <<compiled, added, adding, total, err, comp>>
        BY <1>4 DEF Begin, Closed, sumVars, streamVars
    <2>2. \E what \in Asks \ {"add"} : Post(what)
        BY <1>4 DEF Begin, Closed, Asks
    <2>3. SentBy' = SentBy  BY <2>1 DEF SentBy
    <2>4. \/ run = "begin" /\ run' = "starting"
          \/ run \in Out /\ run' \in Out
        BY <1>4 DEF Begin, Closed, Out
    <2> QED  BY <2>1, <2>2, <2>3, <2>4, AskedStays, SummedSame
<1>5. CASE Held \/ Exit \/ UNCHANGED vars
    <2>1. UNCHANGED <<compiled, added, adding, total, err, comp, inbox>>
        BY <1>5 DEF Held, Exit, vars, mainVars, sumVars, streamVars
    <2>2. SentBy' = SentBy  BY <2>1 DEF SentBy
    <2>3. run' = run \/ (run \in Out /\ run' \in Out)
        BY <1>5 DEF Held, Exit, vars, mainVars, Out
    <2> QED  BY <2>1, <2>2, <2>3, SummedSame
<1>6. CASE Waited  BY <1>6, SummedAsk
<1>7. CASE Added
    <2>1. /\ run = "adding" /\ run' = "holding" /\ ~err' /\ added = Shards
          /\ UNCHANGED <<compiled, added, adding, total, comp, inbox>>
        BY <1>7 DEF Added, Leave, sumVars, streamVars
    <2>2. Summing  BY <2>1 DEF Summing
    <2>3. SentBy' = SentBy /\ Over(added, SentBy)' = Over(added, SentBy)
        BY <2>1 DEF SentBy, Over
    <2>4. Total(Over(added, SentBy))' = Total(Over(added, SentBy))  BY <2>3
    <2>5. \A s \in Shards : InTotal(s)' <=> InTotal(s)  BY <2>1 DEF InTotal
    <2> QED  BY <2>1, <2>2, <2>4, <2>5 DEF Summed, Out
<1>8. CASE Started \/ Observe \/ ObserveFails
    <2>1. UNCHANGED <<compiled, added, adding, total, inbox>>
        BY <1>8 DEF Started, Observe, ObserveFails, sumVars
    <2>2. /\ run \notin {"adding"} \cup Out
          /\ run' \in {"observing", "waiting"} \/ (run' = "holding" /\ err')
        BY <1>8 DEF Started, Observe, ObserveFails, Leave, Out
    <2>3. ~Summing'  BY <2>2 DEF Summing, Out
    <2> QED  BY <2>1, <2>2, <2>3 DEF Summed, Out
<1> QED
    BY <1>1, <1>2, <1>3, <1>4, <1>5, <1>6, <1>7, <1>8 DEF Next, MainStep
-----------------------------------------------------------------------------
(* The scrapes                                                               *)

\* Sums are naturals.
LEMMA TotalType ==
    ASSUME RunAssumption, NEW f \in [Shards -> Nat]
    PROVE  Total(f) \in Nat
BY TotalIs

\* What was gathered stays, and so does what is yet to be gathered.
LEMMA ScrapedSame ==
    ASSUME Types, Scraped, scrape' = scrape, ReceivedBy' = ReceivedBy,
           \A s \in Shards : /\ Contains(inbox'[s], "scrape") <=> Contains(inbox[s], "scrape")
                             /\ Once(inbox[s], "scrape") => Once(inbox'[s], "scrape")
    PROVE  Scraped'
<1>1. /\ Over(scrape.left, ReceivedBy)' = Over(scrape.left, ReceivedBy)
      /\ Over(Shards \ scrape.left, ReceivedBy)' = Over(Shards \ scrape.left, ReceivedBy)
    BY DEF Over
<1>2. /\ Total(Over(scrape.left, ReceivedBy))' = Total(Over(scrape.left, ReceivedBy))
      /\ Total(Over(Shards \ scrape.left, ReceivedBy))' = Total(Over(Shards \ scrape.left, ReceivedBy))
    BY <1>1
<1> QED  BY <1>2 DEF Scraped

\* What is received meanwhile only adds to either sum.
LEMMA ScrapedReceive ==
    ASSUME RunAssumption, Types, Scraped, NEW s \in Shards, Receive(s)
    PROVE  Scraped'
<1>1. scrape' = scrape /\ inbox' = inbox  BY DEF Receive, obsVars
<1>2. /\ ReceivedBy'[s] = ReceivedBy[s] + 1 /\ \A r \in Shards \ {s} : ReceivedBy'[r] = ReceivedBy[r]
      /\ ReceivedBy \in [Shards -> Nat] /\ ReceivedBy' \in [Shards -> Nat]
    <2>1. /\ comp'[s].received = comp[s].received + 1
          /\ \A r \in Shards \ {s} : comp'[r] = comp[r]
        BY DEF Receive, Types, Counts
    <2>2. ReceivedBy \in [Shards -> Nat]  BY SentByType
    <2>3. comp[s].received + 1 \in Nat  BY DEF Types, Counts
    <2>4. ReceivedBy' = [r \in Shards |-> comp'[r].received]  BY DEF ReceivedBy
    <2>5. \A r \in Shards : comp'[r].received \in Nat
        BY <2>1, <2>3 DEF Types, Counts
    <2> QED  BY <2>1, <2>2, <2>4, <2>5 DEF ReceivedBy
<1>3. ASSUME NEW S, S' = S
      PROVE  /\ Total(Over(S, ReceivedBy)) <= Total(Over(S, ReceivedBy))'
             /\ Total(Over(S, ReceivedBy)) \in Nat /\ Total(Over(S, ReceivedBy))' \in Nat
    <2> DEFINE f == Over(S, ReceivedBy)
    <2> DEFINE h == Over(S, ReceivedBy')
    <2> DEFINE d == IF s \in S THEN 1 ELSE 0
    <2>1. f \in [Shards -> Nat] /\ h \in [Shards -> Nat] /\ d \in Nat
        BY <1>2 DEF Over
    <2>2. h[s] = f[s] + d /\ \A r \in Shards \ {s} : h[r] = f[r]
        BY <1>2 DEF Over
    <2>3. h = Over(S, ReceivedBy)'
        BY <1>3 DEF Over
    <2> HIDE DEF f, h, d
    <2>4. Total(h) = Total(f) + d /\ Total(f) \in Nat /\ Total(h) \in Nat
        BY <2>1, <2>2, TotalGrows
    <2>5. Total(h) = Total(Over(S, ReceivedBy))'  BY <2>3
    <2>6. Total(f) = Total(Over(S, ReceivedBy))  BY DEF f
    <2> QED  BY <2>1, <2>4, <2>5, <2>6
<1>4. CASE scrape = None  BY <1>1, <1>4 DEF Scraped
<1>5. CASE scrape # None
    <2>1. scrape.low \in Nat /\ scrape.received \in Nat  BY <1>5 DEF Types, Scrapes
    <2>2. /\ Total(Over(scrape.left, ReceivedBy)) <= Total(Over(scrape.left, ReceivedBy))'
          /\ Total(Over(scrape.left, ReceivedBy)) \in Nat
          /\ Total(Over(scrape.left, ReceivedBy))' \in Nat
        BY <1>1, <1>3
    <2>3. /\ Total(Over(Shards \ scrape.left, ReceivedBy))
               <= Total(Over(Shards \ scrape.left, ReceivedBy))'
          /\ Total(Over(Shards \ scrape.left, ReceivedBy)) \in Nat
          /\ Total(Over(Shards \ scrape.left, ReceivedBy))' \in Nat
        BY <1>1, <1>3
    <2>4. scrape.low <= scrape.received + Total(Over(scrape.left, ReceivedBy))'
        BY <1>5, <2>1, <2>2 DEF Scraped
    <2>5. scrape.received <= Total(Over(Shards \ scrape.left, ReceivedBy))'
        BY <1>5, <2>1, <2>3 DEF Scraped
    <2> QED  BY <1>1, <1>5, <2>4, <2>5 DEF Scraped
<1> QED  BY <1>4, <1>5

\* What a shard answers moves from one sum to the other.
LEMMA ScrapedTake ==
    ASSUME RunAssumption, Types, Types', Scraped, NEW s \in Shards, TakeScrape(s)
    PROVE  Scraped'
<1> DEFINE L == scrape.left
<1>1. scrape # None /\ s \in L  BY ScrapeTaken
<1>2. scrape \in Scrapes  BY <1>1 DEF Types
<1>3. /\ L \subseteq Shards /\ scrape.low \in Nat /\ scrape.received \in Nat /\ scrape.sent \in Nat
      /\ comp[s].received \in Nat /\ comp[s].sent \in Nat /\ comp[s].sent <= comp[s].received
    BY <1>2 DEF Types, Scrapes, Counts
<1>4. scrape' = [left |-> L \ {s}, received |-> scrape.received + comp[s].received,
                 sent |-> scrape.sent + comp[s].sent, low |-> scrape.low]
    BY <1>2 DEF TakeScrape, Scrapes
<1>5. scrape' # None
    BY <1>3, <1>4 DEF RunAssumption
<1>6. /\ inbox[s] \in Seq(Asks) /\ inbox[s] # <<>> /\ Head(inbox[s]) = "scrape"
      /\ inbox'[s] = Tail(inbox[s]) /\ \A r \in Shards \ {s} : inbox'[r] = inbox[r]
      /\ comp' = comp
    BY TakeIs DEF TakeScrape
<1>7. \A r \in Shards : /\ Once(inbox[r], "scrape")
                        /\ r \in L <=> Contains(inbox[r], "scrape")
    BY <1>1 DEF Scraped
<1>8. ~Contains(inbox'[s], "scrape") /\ Once(inbox'[s], "scrape")
    BY <1>6, <1>7, TailFacts
<1>9. \A r \in Shards : /\ Once(inbox'[r], "scrape")
                        /\ r \in L \ {s} <=> Contains(inbox'[r], "scrape")
    BY <1>6, <1>7, <1>8
<1> DEFINE R == ReceivedBy
<1>10. R \in [Shards -> Nat] /\ R[s] = comp[s].received /\ ReceivedBy' = R
    <2>1. R \in [Shards -> Nat]  BY SentByType
    <2> QED  BY <1>6, <2>1 DEF ReceivedBy
<1> HIDE DEF R
<1>11. Total(Over(L, R)) = Total(Over(L \ {s}, R)) + R[s]
       /\ Total(Over(L, R)) \in Nat /\ Total(Over(L \ {s}, R)) \in Nat
    <2> DEFINE f == Over(L \ {s}, R)
    <2> DEFINE h == Over(L, R)
    <2>1. f \in [Shards -> Nat] /\ h \in [Shards -> Nat] /\ R[s] \in Nat
        BY <1>10 DEF Over
    <2>2. h[s] = f[s] + R[s] /\ \A r \in Shards \ {s} : h[r] = f[r]
        BY <1>1, <1>10 DEF Over
    <2> HIDE DEF f, h
    <2>3. Total(h) = Total(f) + R[s] /\ Total(f) \in Nat /\ Total(h) \in Nat
        BY <2>1, <2>2, TotalGrows
    <2> QED  BY <2>3 DEF f, h
<1>12. Total(Over(Shards \ (L \ {s}), R)) = Total(Over(Shards \ L, R)) + R[s]
       /\ Total(Over(Shards \ L, R)) \in Nat /\ Total(Over(Shards \ (L \ {s}), R)) \in Nat
    <2> DEFINE f == Over(Shards \ L, R)
    <2> DEFINE h == Over(Shards \ (L \ {s}), R)
    <2>1. f \in [Shards -> Nat] /\ h \in [Shards -> Nat] /\ R[s] \in Nat
        BY <1>10 DEF Over
    <2>2. h[s] = f[s] + R[s] /\ \A r \in Shards \ {s} : h[r] = f[r]
        BY <1>1, <1>10 DEF Over
    <2> HIDE DEF f, h
    <2>3. Total(h) = Total(f) + R[s] /\ Total(f) \in Nat /\ Total(h) \in Nat
        BY <2>1, <2>2, TotalGrows
    <2> QED  BY <2>3 DEF f, h
<1>13. /\ scrape.low <= scrape.received + Total(Over(L, R))
       /\ scrape.received <= Total(Over(Shards \ L, R)) /\ scrape.sent <= scrape.received
    BY <1>1 DEF Scraped, R
<1>14. /\ scrape'.low <= scrape'.received + Total(Over(L \ {s}, R))
       /\ scrape'.received <= Total(Over(Shards \ (L \ {s}), R)) /\ scrape'.sent <= scrape'.received
    BY <1>3, <1>4, <1>10, <1>11, <1>12, <1>13
<1>15. /\ Over(scrape.left, ReceivedBy)' = Over(L \ {s}, R)
       /\ Over(Shards \ scrape.left, ReceivedBy)' = Over(Shards \ (L \ {s}), R)
       /\ scrape'.left = L \ {s}
    BY <1>4, <1>10 DEF Over
<1> HIDE DEF L
<1>16. /\ Total(Over(scrape.left, ReceivedBy))' = Total(Over(L \ {s}, R))
       /\ Total(Over(Shards \ scrape.left, ReceivedBy))' = Total(Over(Shards \ (L \ {s}), R))
    BY <1>15
<1> QED  BY <1>5, <1>9, <1>14, <1>15, <1>16 DEF Scraped

\* All that was received before a scrape begins is yet to be gathered.
LEMMA ScrapedBegin ==
    ASSUME RunAssumption, Types, Scraped, Scrape
    PROVE  Scraped'
<1>1. /\ scrape = None /\ Post("scrape") /\ comp' = comp
      /\ scrape' = [left |-> Shards, received |-> 0, sent |-> 0, low |-> Sum("received")]
    BY DEF Scrape, streamVars
<1>2. ASSUME NEW s \in Shards
      PROVE  Once(inbox'[s], "scrape") /\ Contains(inbox'[s], "scrape")
    <2>1. inbox'[s] = Append(inbox[s], "scrape") /\ inbox[s] \in Seq(Asks) /\ "scrape" \in Asks
        BY <1>1, PostIs DEF Asks
    <2>2. ~Contains(inbox[s], "scrape")  BY <1>1 DEF Scraped
    <2>3. Once(inbox[s], "scrape")  BY <2>2 DEF Contains, Once
    <2> QED  BY <2>1, <2>2, <2>3, AppendFacts
<1>3. ReceivedBy \in [Shards -> Nat]  BY SentByType
<1>4. ReceivedBy' = ReceivedBy  BY <1>1 DEF ReceivedBy
<1>5. Sum("received") = Total(ReceivedBy)
    <2>1. ReceivedBy = [s \in Shards |-> comp[s]["received"]]  BY DEF ReceivedBy
    <2> QED  BY <2>1, SumIs
<1>6. Total(ReceivedBy) \in Nat  BY <1>3, TotalType
<1>7. Over(scrape.left, ReceivedBy)' = ReceivedBy
    BY <1>1, <1>3, <1>4 DEF Over
<1>8. Over(Shards \ scrape.left, ReceivedBy)' \in [Shards -> Nat]
    BY <1>1, <1>3, <1>4 DEF Over
<1>9. Total(Over(scrape.left, ReceivedBy))' = Total(ReceivedBy)  BY <1>7
<1>10. Total(Over(Shards \ scrape.left, ReceivedBy))' \in Nat
    <2> DEFINE f == Over(Shards \ scrape.left, ReceivedBy)'
    <2>1. f \in [Shards -> Nat]  BY <1>8
    <2>2. Total(f) = Total(Over(Shards \ scrape.left, ReceivedBy))'  OBVIOUS
    <2> HIDE DEF f
    <2>3. Total(f) \in Nat  BY <2>1, TotalType
    <2> QED  BY <2>2, <2>3
<1>11. scrape' # None
    BY <1>1, <1>5, <1>6 DEF RunAssumption
<1>12. /\ scrape'.low <= scrape'.received + Total(Over(scrape.left, ReceivedBy))'
       /\ scrape'.received <= Total(Over(Shards \ scrape.left, ReceivedBy))'
       /\ scrape'.sent <= scrape'.received /\ scrape'.left = Shards
    BY <1>1, <1>5, <1>6, <1>9, <1>10
<1> QED  BY <1>2, <1>11, <1>12 DEF Scraped

LEMMA ScrapedNext ==
    ASSUME RunAssumption, Types, Types', Scraped, [Next]_vars
    PROVE  Scraped'
<1>1. ASSUME NEW s \in Shards, StreamStep(s) PROVE Scraped'
    <2>1. CASE Receive(s)  BY <2>1, ScrapedReceive
    <2>2. CASE ~Receive(s)
        <3>1. scrape' = scrape /\ inbox' = inbox
            BY <1>1, <2>2 DEF StreamStep, Connect, ConnectFails, Send, Finish, Escalate, StopEnds,
                              obsVars
        <3>2. \A r \in Shards : comp'[r].received = comp[r].received
            <4>1. CASE Send(s)  BY <4>1 DEF Send, Types, Counts
            <4>2. CASE ~Send(s)
                BY <1>1, <2>2, <4>2 DEF StreamStep, Connect, ConnectFails, Finish, Escalate, StopEnds
            <4> QED  BY <4>1, <4>2
        <3>3. ReceivedBy' = ReceivedBy  BY <3>2 DEF ReceivedBy
        <3> QED  BY <3>1, <3>3, ScrapedSame
    <2> QED  BY <2>1, <2>2
<1>2. ASSUME NEW s \in Shards, TakeStep(s) PROVE Scraped'
    <2>1. CASE TakeScrape(s)  BY <2>1, ScrapedTake
    <2>2. CASE StoreTotal(s)
        <3>1. UNCHANGED <<scrape, inbox, comp>>  BY <2>2 DEF StoreTotal, obsVars, streamVars
        <3>2. ReceivedBy' = ReceivedBy  BY <3>1 DEF ReceivedBy
        <3> QED  BY <3>1, <3>2, ScrapedSame
    <2>3. CASE ~(TakeScrape(s) \/ StoreTotal(s))
        <3>1. PICK what \in Asks : Take(s, what) /\ what # "scrape"
            BY <1>2, <2>3 DEF TakeStep, TakeStart, TakeDrain, TakeForce, TakeStop, Reduce, LoadTotal,
                      Asks
        <3>2. scrape' = scrape
            BY <1>2, <2>3 DEF TakeStep, TakeStart, TakeDrain, TakeForce, TakeStop, Reduce, LoadTotal,
                      obsVars
        <3>3. ReceivedBy' = ReceivedBy
            <4>1. comp' = comp  BY <3>1, TakeIs
            <4> QED  BY <4>1 DEF ReceivedBy
        <3> QED  BY <3>1, <3>2, <3>3, AskedStays, ScrapedSame
    <2> QED  BY <2>1, <2>2, <2>3
<1>3. CASE Scrape  BY <1>3, ScrapedBegin
<1>4. CASE ScrapeAnswered
    BY <1>4 DEF ScrapeAnswered, Scraped
<1>5. CASE Signal \/ TimerFires \/ MainStep \/ UNCHANGED vars
    <2>1. UNCHANGED <<scrape, comp>>
        BY <1>5 DEF Signal, TimerFires, MainStep, Begin, Started, Observe, ObserveFails, Waited, Added,
                    Held, Closed, Exit, vars, obsVars, streamVars
    <2>2. inbox' = inbox \/ \E what \in Asks \ {"scrape"} : Post(what)
        BY <1>5 DEF Signal, TimerFires, MainStep, Begin, Started, Observe, ObserveFails, Waited, Added,
                    Held, Closed, Exit, vars, Asks
    <2>3. ReceivedBy' = ReceivedBy  BY <2>1 DEF ReceivedBy
    <2> QED  BY <2>1, <2>2, <2>3, AskedStays, ScrapedSame
<1> QED
    BY <1>1, <1>2, <1>3, <1>4, <1>5 DEF Next
-----------------------------------------------------------------------------
(* The theorems                                                              *)

LEMMA IInvInit == ASSUME RunAssumption, Init PROVE IInv
BY TypesInit, BegunInit, SummedInit DEF IInv

LEMMA IInvNext == ASSUME RunAssumption, IInv, [Next]_vars PROVE IInv'
<1>1. Types'  BY TypesNext DEF IInv
<1> QED
    BY <1>1, BegunNext, StagedNext, DisarmedNext, SummedNext, ScrapedNext DEF IInv

\* Once every shard is in the total, it is the sum of all that was sent.
LEMMA IInvSums == ASSUME RunAssumption, IInv PROVE TotalIsSum
<1> SUFFICES ASSUME ~compiled, ~err, run \in Out PROVE total = Sum("sent")
    BY DEF TotalIsSum, Out
<1>1. added = Shards /\ total = Total(Over(added, SentBy))
    BY DEF IInv, Summed, Summing
<1>2. SentBy = [s \in Shards |-> comp[s]["sent"]] /\ Over(Shards, SentBy) = SentBy
    BY DEF Over, SentBy
<1> QED  BY <1>1, <1>2, SumIs

\* No message is on its way to a stream that was destroyed, and no timer is armed
\* or scrape under way.
LEMMA IInvGone == ASSUME IInv PROVE NothingTouchesGone
BY DEF IInv, NothingTouchesGone, Staged, Disarmed, Out

\* When the last shard has answered a scrape, nothing is yet to be gathered.
LEMMA IInvScrape == ASSUME RunAssumption, IInv PROVE ScrapeIsTrue
<1> SUFFICES ASSUME scrape # None, scrape.left = {}
             PROVE  /\ scrape.low <= scrape.received /\ scrape.received <= Sum("received")
                    /\ scrape.sent <= scrape.received
                    /\ \A s \in Shards : shard[s] \notin {"new", "connecting", "failed", "gone"}
    BY DEF ScrapeIsTrue
<1>1. Types /\ Scraped  BY DEF IInv
<1>2. scrape.low \in Nat /\ scrape.received \in Nat  BY <1>1 DEF Types, Scrapes
<1>3. Total(Over({}, ReceivedBy)) = 0
    <2> DEFINE f == Over({}, ReceivedBy)
    <2>1. f \in [Shards -> Nat] /\ \A s \in Shards : f[s] = 0  BY DEF Over
    <2> HIDE DEF f
    <2>2. Total(f) = 0  BY <2>1, TotalOfNothing
    <2> QED  BY <2>2 DEF f
<1>4. Over(Shards, ReceivedBy) = ReceivedBy
      /\ ReceivedBy = [s \in Shards |-> comp[s]["received"]]
    BY DEF Over, ReceivedBy
<1>5. Sum("received") = Total(ReceivedBy)  BY <1>4, SumIs
<1>6. /\ scrape.low <= scrape.received + Total(Over({}, ReceivedBy))
      /\ scrape.received <= Total(Over(Shards \ {}, ReceivedBy))
      /\ scrape.sent <= scrape.received
    BY <1>1 DEF Scraped
<1>7. Over(Shards \ {}, ReceivedBy) = ReceivedBy  BY <1>4
<1>8. \A s \in Shards : shard[s] \notin {"new", "connecting", "failed", "gone"}
    BY DEF IInv, Disarmed, Staged
<1> QED  BY <1>2, <1>3, <1>5, <1>6, <1>7, <1>8

\* A run on its way out has the totals of every shard, answers scrapes with what
\* was counted, and touches no stream it has destroyed: the totals printed at the
\* end, gather_from(), and the order in which main tears down.
THEOREM WayOutSound ==
    ASSUME RunAssumption
    PROVE  Spec => [](TotalIsSum /\ ScrapeIsTrue /\ NothingTouchesGone)
<1>1. IInv => TotalIsSum /\ ScrapeIsTrue /\ NothingTouchesGone
    BY IInvSums, IInvScrape, IInvGone
<1>2. Init => IInv  BY IInvInit
<1>3. IInv /\ [Next]_vars => IInv'  BY IInvNext
<1> QED  BY <1>1, <1>2, <1>3, PTL DEF Spec
=============================================================================
