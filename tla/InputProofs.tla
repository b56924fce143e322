---------------------------- MODULE InputProofs ----------------------------
(***************************************************************************)
(* What is proved of the inputs of MCInputs, for every number of batches,  *)
(* children, connections, dials, messages and sources: an input that ends  *)
(* by itself has delivered all it had, or its configuration says that it   *)
(* may end; what AutoRetry and the broker have taken in stays where its    *)
(* answer can reach it, and is answered rightly; and a socket and a        *)
(* sequence hand out the messages of their peers and sources once and in   *)
(* order.                                                                  *)
(*                                                                         *)
(* Each input has an inductive invariant of its own, those of batching,    *)
(* buffering, the processors and http_server in WrapperProofs.  PartInv    *)
(* puts the one of the part at hand under the specification that composes  *)
(* them.                                                                   *)
(***************************************************************************)
EXTENDS WrapperProofs

-----------------------------------------------------------------------------
(* AutoRetry                                                                 *)

RetryPcs == {"idle", "called", "wait", "sleep", "ended", "closing", "closed"}

\* The types of the wrapper's variables, and of what it has been handed.
RetryTypes ==
    /\ pc \in RetryPcs
    /\ queue \in Seq(R!Batches) /\ pipeline \subseteq R!Batches
    /\ ready \in R!Batches \cup {None} /\ held \in R!Batches \cup {None}
    /\ adopted \in Int /\ nread \in 0 .. RetryBatches
    /\ attempts \in [R!Batches -> Nat] /\ answer \in [R!Batches -> {"none", "ack", "nack"}]
    /\ readErr \in BOOLEAN /\ reading \in BOOLEAN /\ done \in BOOLEAN /\ aborted \in BOOLEAN

\* Batches the wrapper has handed out and whose source was not told of them.
RetryOut == {b \in 1 .. nread : answer[b] = "none" /\ b # ready}

Queued == R!Range(queue)

Held == {held} \ {None}

Kept == Queued \cup pipeline \cup Held

\* A batch that waits in the queue, is in the pipeline or sleeps is out, and in only
\* one of these; the batch at hand is in none of them.
RetryPlaced ==
    /\ Once(queue) /\ Queued \cap pipeline = {} /\ Held \cap (Queued \cup pipeline) = {}
    /\ Kept \subseteq RetryOut
    /\ ready # None => ready \in 1 .. nread /\ answer[ready] = "none"
    /\ \A b \in R!Batches : b > nread => answer[b] = "none"

\* A read in flight finds nothing at hand; the end, and an error, are final; the
\* count of batches handed out is exact.
RetryControl ==
    /\ adopted = Cardinality(RetryOut)
    /\ pc = "sleep" => held # None
    /\ pc \in {"idle", "called", "wait"} => held = None
    /\ reading => ready = None /\ ~readErr /\ ~done
    /\ readErr => ~done
    /\ pc = "ended" /\ ~aborted => ~reading /\ (done => adopted = 0 /\ ready = None)
    /\ pc # "closed" => \A b \in R!Batches : answer[b] # "nack"
    /\ pc = "closed" => ~reading /\ ready = None

\* A stop may forget what is out, and stays a stop.
Forgetful == pc = "closed" \/ (R!Over /\ aborted)

RetryKept == Forgetful \/ RetryOut \subseteq Kept

RetryInv == RetryTypes /\ RetryPlaced /\ RetryControl /\ RetryKept

\* Sets are counted alike in every component.
LEMMA RetryCounts ==
    ASSUME NEW Items
    PROVE  R!Cardinality(Items) = Cardinality(Items)
    BY DEF R!Cardinality, Cardinality

\* A queue at its ends: what is appended is in it, and what leaves at the head is
\* not in it any more.
LEMMA Appended ==
    ASSUME NEW Items, NEW s \in Seq(Items), NEW x \in Items
    PROVE  /\ Append(s, x) \in Seq(Items) /\ R!Range(Append(s, x)) = R!Range(s) \cup {x}
           /\ Once(s) /\ x \notin R!Range(s) => Once(Append(s, x))
<1>1. /\ Append(s, x) \in Seq(Items) /\ Len(Append(s, x)) = Len(s) + 1 /\ Append(s, x)[Len(s) + 1] = x
      /\ \A i \in 1 .. Len(s) : Append(s, x)[i] = s[i]
      /\ Len(s) \in Nat /\ DOMAIN s = 1 .. Len(s) /\ DOMAIN Append(s, x) = 1 .. Len(s) + 1
    OBVIOUS
<1>2. R!Range(Append(s, x)) = R!Range(s) \cup {x}
    BY <1>1 DEF R!Range
<1>3. ASSUME Once(s), x \notin R!Range(s) PROVE Once(Append(s, x))
    BY <1>1, <1>3 DEF Once, R!Range
<1> QED  BY <1>1, <1>2, <1>3

LEMMA Removed ==
    ASSUME NEW Items, NEW s \in Seq(Items), s # <<>>, Once(s)
    PROVE  /\ Tail(s) \in Seq(Items) /\ Head(s) \in R!Range(s) /\ Head(s) \in Items
           /\ R!Range(Tail(s)) = R!Range(s) \ {Head(s)} /\ Once(Tail(s))
<1>1. /\ Tail(s) \in Seq(Items) /\ Len(s) \in Nat \ {0} /\ DOMAIN s = 1 .. Len(s) /\ Head(s) = s[1]
      /\ Len(Tail(s)) = Len(s) - 1 /\ DOMAIN Tail(s) = 1 .. Len(s) - 1
      /\ \A i \in 1 .. Len(s) - 1 : Tail(s)[i] = s[i + 1]
    OBVIOUS
<1>2. Once(Tail(s))
    BY <1>1 DEF Once
<1>3. R!Range(Tail(s)) \subseteq R!Range(s) \ {Head(s)}
    BY <1>1 DEF Once, R!Range
<1>4. ASSUME NEW y \in R!Range(s), y # Head(s) PROVE y \in R!Range(Tail(s))
    <2>1. PICK i \in 1 .. Len(s) : y = s[i]
        BY <1>1 DEF R!Range
    <2>2. i - 1 \in 1 .. Len(s) - 1 /\ Tail(s)[i - 1] = y
        BY <1>1, <1>4, <2>1
    <2> QED  BY <1>1, <2>2 DEF R!Range
<1>5. Head(s) \in R!Range(s) /\ Head(s) \in Items
    <2>1. 1 \in 1 .. Len(s)
        BY <1>1
    <2> QED  BY <1>1, <2>1 DEF R!Range
<1>6. Tail(s) \in Seq(Items) /\ R!Range(Tail(s)) = R!Range(s) \ {Head(s)}
    BY <1>1, <1>3, <1>4
<1> QED  BY <1>2, <1>5, <1>6

LEMMA RetryFacts ==
    ASSUME R!RetryAssumption
    PROVE  RetryBatches \in Nat /\ MaxNacks \in Nat /\ R!Batches = 1 .. RetryBatches /\ None \notin R!Batches
BY DEF R!RetryAssumption, R!Batches

\* How many batches are out when one more, or one less, is.
LEMMA OutCounts ==
    ASSUME R!RetryAssumption, RetryTypes
    PROVE  /\ IsFiniteSet(RetryOut) /\ RetryOut \subseteq R!Batches /\ Cardinality(RetryOut) \in Nat
           /\ (Cardinality(RetryOut) = 0 => RetryOut = {})
           /\ \A b : b \notin RetryOut => Cardinality(RetryOut \cup {b}) = Cardinality(RetryOut) + 1
           /\ \A b \in RetryOut : Cardinality(RetryOut \ {b}) = Cardinality(RetryOut) - 1
<1>1. RetryOut \subseteq 1 .. nread /\ nread \in 0 .. RetryBatches /\ RetryBatches \in Nat
    BY RetryFacts DEF RetryOut, RetryTypes
<1>2. IsFiniteSet(RetryOut)
    <2>1. nread \in Int /\ IsFiniteSet(1 .. nread)
        BY <1>1, FS_Interval
    <2> QED  BY <1>1, <2>1, FS_Subset
<1>3. RetryOut \subseteq R!Batches
    BY <1>1, RetryFacts
<1> QED  BY <1>2, <1>3, FS_CardinalityType, FS_EmptySet, FS_AddElement, FS_RemoveElement

LEMMA RetryInit == ASSUME R!RetryAssumption, R!Init PROVE RetryInv
<1>1. nread = 0 /\ 1 .. 0 = {} /\ RetryOut = {}
    BY DEF R!Init, RetryOut
<1>2. RetryTypes
    <2>1. /\ pc \in RetryPcs /\ queue \in Seq(R!Batches) /\ pipeline \subseteq R!Batches
          /\ ready \in R!Batches \cup {None} /\ held \in R!Batches \cup {None}
        BY DEF R!Init, RetryPcs
    <2>2. adopted \in Int /\ nread \in 0 .. RetryBatches
        BY RetryFacts DEF R!Init
    <2>3. attempts \in [R!Batches -> Nat] /\ answer \in [R!Batches -> {"none", "ack", "nack"}]
        BY DEF R!Init
    <2>4. readErr \in BOOLEAN /\ reading \in BOOLEAN /\ done \in BOOLEAN /\ aborted \in BOOLEAN
        BY DEF R!Init
    <2> QED  BY <2>1, <2>2, <2>3, <2>4 DEF RetryTypes
<1>3. RetryPlaced
    BY <1>1 DEF R!Init, RetryPlaced, Once, Kept, Queued, Held, R!Range
<1>4. RetryControl
    BY <1>1, FS_EmptySet DEF R!Init, RetryControl
<1>5. RetryKept
    BY <1>1 DEF RetryKept
<1> QED  BY <1>2, <1>3, <1>4, <1>5 DEF RetryInv

\* Steps that move no batch.
LEMMA RetryStays ==
    ASSUME RetryPlaced, UNCHANGED <<queue, pipeline, held, ready, answer, nread>>
    PROVE  RetryPlaced' /\ RetryOut' = RetryOut /\ Kept' = Kept
BY DEF RetryPlaced, RetryOut, Kept, Queued, Held, Once, R!Range

LEMMA RetryFiber ==
    ASSUME R!RetryAssumption, RetryInv,
           \/ R!Call \/ R!Aborted \/ R!Rethrow \/ R!End \/ R!Wait
           \/ R!Abort \/ R!CloseBegin
    PROVE  RetryInv'
<1>1. /\ UNCHANGED <<queue, pipeline, held, ready, answer, nread, adopted, attempts>>
      /\ UNCHANGED done
    BY DEF R!Call, R!Aborted, R!Rethrow, R!End, R!Wait, R!Abort, R!CloseBegin, R!shared, R!source
<1>2. RetryPlaced' /\ RetryOut' = RetryOut /\ Kept' = Kept
    BY <1>1, RetryStays DEF RetryInv
<1>3. RetryTypes'
    BY <1>1 DEF RetryInv, RetryTypes, RetryPcs, R!Call, R!Aborted, R!Rethrow,
                R!End, R!Wait, R!Abort, R!CloseBegin, R!shared, R!source
<1>4. (adopted = Cardinality(RetryOut))'
    BY <1>1, <1>2 DEF RetryInv, RetryControl
<1> USE DEF RetryInv, RetryTypes, RetryPcs
<1>a. RetryKept'
    <2>1. Forgetful => Forgetful'
        BY DEF Forgetful, R!Over, R!Call, R!Aborted, R!Rethrow, R!End, R!Wait, R!Abort,
               R!CloseBegin, R!MustWait, R!shared
    <2> QED  BY <1>2, <2>1 DEF RetryKept
<1>5. CASE R!Call \/ R!Aborted \/ R!CloseBegin
    BY <1>1, <1>2, <1>3, <1>4, <1>a, <1>5 DEF RetryControl, R!Call, R!Aborted, R!CloseBegin, R!shared
<1>6. CASE R!Rethrow
    BY <1>1, <1>2, <1>3, <1>4, <1>a, <1>6 DEF RetryControl, R!Rethrow, R!NothingReady
<1>7. CASE R!End
    BY <1>1, <1>2, <1>3, <1>4, <1>a, <1>7 DEF RetryControl, R!End, R!NothingReady, R!Exhausted, R!shared
<1>8. CASE R!Wait
    BY <1>1, <1>2, <1>3, <1>4, <1>a, <1>8 DEF RetryControl, R!Wait, R!MustWait, R!NothingReady
<1>9. CASE R!Abort
    BY <1>1, <1>2, <1>3, <1>4, <1>a, <1>9 DEF RetryControl, R!Abort, R!shared
<1> QED  BY <1>5, <1>6, <1>7, <1>8, <1>9

\* The abort of a backoff forgets the batch that slept.
LEMMA RetrySleepAborted == ASSUME R!RetryAssumption, RetryInv, R!SleepAborted PROVE RetryInv'
<1>1. /\ pc = "sleep" /\ aborted /\ pc' = "ended" /\ held' = None
      /\ UNCHANGED <<queue, adopted, ready, readErr, reading, done, attempts, aborted, pipeline,
                     nread, answer>>
    BY DEF R!SleepAborted, R!shared, R!source
<1>2. Held' = {} /\ Queued' = Queued /\ RetryOut' = RetryOut
    BY <1>1 DEF Held, Queued, RetryOut, R!Range
<1>3. RetryTypes'
    BY <1>1 DEF RetryInv, RetryTypes, RetryPcs
<1>4. RetryPlaced'
    BY <1>1, <1>2 DEF RetryInv, RetryPlaced, Kept, Once
<1>5. RetryControl'
    BY <1>1, <1>2 DEF RetryInv, RetryControl
<1>6. RetryKept'
    BY <1>1 DEF RetryKept, Forgetful, R!Over
<1> QED  BY <1>3, <1>4, <1>5, <1>6 DEF RetryInv

\* A batch leaves the head of the queue, for the pipeline or for a backoff.
LEMMA RetryReplay == ASSUME R!RetryAssumption, RetryInv, R!Replay PROVE RetryInv'
<1> DEFINE b == Head(queue)
<1>1. /\ pc = "called" /\ ~aborted /\ queue # <<>> /\ queue' = Tail(queue)
      /\ attempts' = [attempts EXCEPT ![b] = @ + 1]
      /\ UNCHANGED <<adopted, ready, readErr, reading, done, aborted, nread, answer>>
    BY DEF R!Replay, R!source
<1>2. \/ pc' = "sleep" /\ held' = b /\ UNCHANGED pipeline
      \/ pc' = "idle" /\ UNCHANGED held /\ pipeline' = pipeline \cup {b}
    BY DEF R!Replay, R!HandOut
<1>3. queue \in Seq(R!Batches) /\ Once(queue) /\ held = None
    BY <1>1 DEF RetryInv, RetryTypes, RetryPlaced, RetryControl
<1>4. /\ Queued' = Queued \ {b} /\ b \in Queued /\ b \in R!Batches
      /\ Once(queue)' /\ queue' \in Seq(R!Batches)
    <2>1. R!Range(queue)' = R!Range(Tail(queue))
        BY <1>1 DEF R!Range
    <2>2. Once(queue)' <=> Once(Tail(queue))
        BY <1>1 DEF Once
    <2> QED  BY <1>1, <1>3, <2>1, <2>2, Removed DEF Queued
<1>5. RetryTypes'
    <2>1. attempts' \in [R!Batches -> Nat]
        BY <1>1, <1>4 DEF RetryInv, RetryTypes
    <2> QED  BY <1>1, <1>2, <1>4, <2>1 DEF RetryInv, RetryTypes, RetryPcs
<1>6. RetryOut' = RetryOut
    BY <1>1 DEF RetryOut
<1>7. RetryPlaced' /\ RetryKept'
    <2>1. b # None /\ Held = {} /\ b \notin pipeline
        BY <1>3, <1>4, RetryFacts DEF Held, RetryInv, RetryPlaced
    <2>2. \/ Held' = {b} /\ pipeline' = pipeline
          \/ Held' = {} /\ pipeline' = pipeline \cup {b}
        BY <1>2, <2>1, <1>3 DEF Held
    <2>3. Kept' = Kept
        BY <1>4, <2>1, <2>2 DEF Kept
    <2>4. RetryKept'
        BY <1>1, <1>6, <2>3 DEF RetryInv, RetryKept, Forgetful, R!Over
    <2> QED  BY <1>1, <1>4, <1>6, <2>1, <2>2, <2>3, <2>4 DEF RetryInv, RetryPlaced
<1>8. RetryControl'
    BY <1>1, <1>2, <1>3, <1>4, <1>6, RetryFacts DEF RetryInv, RetryControl
<1> QED  BY <1>5, <1>7, <1>8 DEF RetryInv

LEMMA RetrySlept == ASSUME R!RetryAssumption, RetryInv, R!Slept PROVE RetryInv'
<1>1. /\ pc = "sleep" /\ pc' = "idle" /\ held' = None /\ pipeline' = pipeline \cup {held}
      /\ UNCHANGED <<queue, adopted, ready, readErr, reading, done, attempts, aborted, nread, answer>>
    BY DEF R!Slept, R!HandOut, R!shared, R!source
<1>2. held # None /\ Held = {held} /\ Held' = {} /\ Queued' = Queued /\ RetryOut' = RetryOut
    BY <1>1 DEF RetryInv, RetryControl, Held, Queued, RetryOut, R!Range
<1>3. held \in R!Batches
    BY <1>2 DEF RetryInv, RetryTypes
<1>4. RetryTypes'
    BY <1>1, <1>3 DEF RetryInv, RetryTypes, RetryPcs
<1>5. RetryPlaced' /\ RetryKept'
    <2>1. Kept' = Kept
        BY <1>1, <1>2 DEF Kept
    <2> QED  BY <1>1, <1>2, <2>1 DEF RetryInv, RetryPlaced, RetryKept, Forgetful, R!Over, Once
<1>6. RetryControl'
    BY <1>1, <1>2 DEF RetryInv, RetryControl
<1> QED  BY <1>4, <1>5, <1>6 DEF RetryInv

LEMMA RetryTakeReady == ASSUME R!RetryAssumption, RetryInv, R!TakeReady PROVE RetryInv'
<1>1. /\ pc = "called" /\ ~aborted /\ ready # None /\ pc' = "idle" /\ ready' = None
      /\ pipeline' = pipeline \cup {ready} /\ adopted' = adopted + 1
      /\ UNCHANGED <<queue, held, readErr, reading, done, attempts, aborted, nread, answer>>
    BY DEF R!TakeReady, R!HandOut, R!source
<1>2. /\ ready \in 1 .. nread /\ answer[ready] = "none" /\ ready \in R!Batches
      /\ ready \notin RetryOut
    BY <1>1 DEF RetryInv, RetryPlaced, RetryTypes, RetryOut
<1>3. None \notin 1 .. nread
    BY RetryFacts DEF RetryInv, RetryTypes
<1>4. RetryOut' = RetryOut \cup {ready} /\ Held' = Held /\ Queued' = Queued
    BY <1>1, <1>2, <1>3 DEF RetryOut, Held, Queued, R!Range
<1>5. Cardinality(RetryOut') = Cardinality(RetryOut) + 1
    BY <1>2, <1>4, OutCounts DEF RetryInv
<1>6. RetryTypes'
    BY <1>1, <1>2 DEF RetryInv, RetryTypes, RetryPcs
<1>7. RetryPlaced' /\ RetryKept'
    <2>1. ready \notin Queued \cup Held
        BY <1>2 DEF RetryInv, RetryPlaced, Kept
    <2>2. Kept' = Kept \cup {ready}
        BY <1>1, <1>4 DEF Kept
    <2> QED  BY <1>1, <1>2, <1>4, <2>1, <2>2
             DEF RetryInv, RetryPlaced, RetryKept, Forgetful, R!Over, Once
<1>8. RetryControl'
    BY <1>1, <1>5 DEF RetryInv, RetryControl
<1> QED  BY <1>6, <1>7, <1>8 DEF RetryInv

\* What a read brings: a batch at hand, the end, or an error.
LEMMA RetryReads ==
    ASSUME R!RetryAssumption, RetryInv, R!ReadAtOnce \/ R!ReadCompletes
    PROVE  RetryInv'
<1>1. /\ R!SourceReads /\ UNCHANGED <<queue, adopted, attempts, held, aborted, pipeline, answer>>
      /\ ready = None /\ ~readErr /\ ~done /\ pc # "closed" /\ reading' = FALSE
      /\ pc' = pc \/ (pc = "wait" /\ pc' = "called")
      /\ pc = "ended" => aborted
    <2>1. CASE R!ReadAtOnce
        BY <2>1 DEF R!ReadAtOnce, R!MustWait, R!NothingReady, RetryInv, RetryTypes
    <2>2. CASE R!ReadCompletes
        BY <2>2 DEF R!ReadCompletes, R!Woken, RetryInv, RetryControl
    <2> QED  BY <2>1, <2>2, Zenon
<1>2. CASE nread < RetryBatches /\ nread' = nread + 1 /\ ready' = nread + 1 /\ UNCHANGED <<readErr, done>>
    <2>1. nread \in Nat /\ nread + 1 \in R!Batches /\ nread + 1 > nread /\ RetryBatches \in Nat
        BY <1>2, RetryFacts DEF RetryInv, RetryTypes
    <2>2. answer[nread + 1] = "none"
        BY <2>1 DEF RetryInv, RetryPlaced
    <2>3. RetryOut' = RetryOut
        <3>1. 1 .. nread' = (1 .. nread) \cup {nread + 1} /\ nread + 1 \notin 1 .. nread
            BY <1>2, <2>1
        <3>2. None \notin 1 .. nread
            BY RetryFacts DEF RetryInv, RetryTypes
        <3> QED  BY <1>1, <1>2, <3>1, <3>2 DEF RetryOut
    <2>4. Queued' = Queued /\ Held' = Held
        BY <1>1 DEF Queued, Held, R!Range
    <2>5. RetryPlaced'
        <3>1. ready' \in 1 .. nread'
            BY <1>2, <2>1
        <3>2. \A b \in R!Batches : b > nread' => b > nread
            BY <1>2, <2>1, RetryFacts
        <3> QED  BY <1>1, <1>2, <2>2, <2>3, <2>4, <3>1, <3>2 DEF RetryInv, RetryPlaced, Kept, Once
    <2>a. RetryKept'
        BY <1>1, <2>3, <2>4 DEF RetryInv, RetryKept, Kept, Forgetful, R!Over
    <2>6. RetryTypes'
        <3>1. nread' \in 0 .. RetryBatches
            BY <1>2, <2>1
        <3> QED  BY <1>1, <1>2, <2>1, <3>1 DEF RetryInv, RetryTypes, RetryPcs
    <2>7. RetryControl'
        BY <1>1, <1>2, <2>3 DEF RetryInv, RetryControl
    <2> QED  BY <2>5, <2>6, <2>7, <2>a DEF RetryInv
<1>3. CASE /\ UNCHANGED <<nread, ready>>
           /\ \/ done' = TRUE /\ UNCHANGED readErr
              \/ readErr' = TRUE /\ UNCHANGED done
    <2>1. RetryPlaced' /\ RetryOut' = RetryOut /\ Kept' = Kept
        BY <1>1, <1>3, RetryStays DEF RetryInv
    <2>2. RetryTypes'
        BY <1>1, <1>3 DEF RetryInv, RetryTypes, RetryPcs
    <2>3. RetryControl'
        BY <1>1, <1>3, <2>1 DEF RetryInv, RetryControl
    <2>4. RetryKept'
        BY <1>1, <2>1 DEF RetryInv, RetryKept, Forgetful, R!Over
    <2> QED  BY <2>1, <2>2, <2>3, <2>4 DEF RetryInv
<1> QED  BY <1>1, <1>2, <1>3 DEF R!SourceReads

LEMMA RetryNack ==
    ASSUME R!RetryAssumption, RetryInv, NEW b \in R!Batches, R!Nack(b)
    PROVE  RetryInv'
<1>1. /\ b \in pipeline /\ pipeline' = pipeline \ {b}
      /\ queue' = IF pc = "closed" THEN queue ELSE Append(queue, b)
      /\ UNCHANGED <<adopted, ready, readErr, reading, done, attempts, held, aborted, nread, answer>>
      /\ pc' = pc \/ (pc = "wait" /\ pc' = "called")
    BY DEF R!Nack, R!Requeued, R!source, R!Woken
<1>2. queue \in Seq(R!Batches) /\ Once(queue) /\ b \notin Queued
    BY <1>1 DEF RetryInv, RetryTypes, RetryPlaced
<1>3. /\ queue' \in Seq(R!Batches) /\ Once(queue)'
      /\ Queued' = IF pc = "closed" THEN Queued ELSE Queued \cup {b}
    <2>1. CASE pc = "closed"
        BY <1>1, <1>2, <2>1 DEF Queued, Once, R!Range
    <2>2. CASE pc # "closed"
        <3>1. R!Range(queue)' = R!Range(Append(queue, b))
            BY <1>1, <2>2 DEF R!Range
        <3>2. Once(queue)' <=> Once(Append(queue, b))
            BY <1>1, <2>2 DEF Once
        <3> QED  BY <1>1, <1>2, <2>2, <3>1, <3>2, Appended DEF Queued
    <2> QED  BY <2>1, <2>2
<1>4. Held' = Held /\ RetryOut' = RetryOut
    BY <1>1 DEF Held, RetryOut
<1>5. RetryPlaced' /\ RetryKept'
    <2>1. Kept' \subseteq Kept /\ (pc # "closed" => Kept' = Kept)
        BY <1>1, <1>3, <1>4 DEF Kept
    <2>2. RetryPlaced'
        BY <1>1, <1>3, <1>4, <2>1 DEF RetryInv, RetryPlaced
    <2>3. RetryKept'
        BY <1>1, <1>4, <2>1 DEF RetryInv, RetryKept, Forgetful, R!Over
    <2> QED  BY <2>2, <2>3
<1>6. RetryTypes'
    BY <1>1, <1>3 DEF RetryInv, RetryTypes, RetryPcs
<1>7. RetryControl'
    BY <1>1, <1>4 DEF RetryInv, RetryControl
<1> QED  BY <1>5, <1>6, <1>7 DEF RetryInv

LEMMA RetryAck ==
    ASSUME R!RetryAssumption, RetryInv, NEW b \in R!Batches, R!Ack(b)
    PROVE  RetryInv'
<1>1. /\ b \in pipeline /\ pipeline' = pipeline \ {b} /\ adopted' = adopted - 1
      /\ answer' = [answer EXCEPT ![b] = "ack"]
      /\ UNCHANGED <<queue, ready, readErr, reading, done, attempts, held, aborted, nread>>
      /\ pc' = pc \/ (pc = "wait" /\ pc' = "called")
    BY DEF R!Ack, R!Tell, R!Woken
<1>2. b \in RetryOut /\ b \notin Queued \cup Held /\ answer \in [R!Batches -> {"none", "ack", "nack"}]
    BY <1>1 DEF RetryInv, RetryTypes, RetryPlaced, Kept
<1>3. 1 .. nread \subseteq R!Batches
    BY RetryFacts DEF RetryInv, RetryTypes
<1>4. answer'[b] = "ack" /\ \A c \in R!Batches \ {b} : answer'[c] = answer[c]
    BY <1>1, <1>2
<1>5. RetryOut' = RetryOut \ {b} /\ Held' = Held /\ Queued' = Queued
    BY <1>1, <1>3, <1>4 DEF RetryOut, Held, Queued, R!Range
<1>6. Cardinality(RetryOut') = Cardinality(RetryOut) - 1 /\ adopted # 0
    BY <1>2, <1>5, OutCounts DEF RetryInv, RetryControl
<1>7. RetryTypes'
    BY <1>1, <1>2 DEF RetryInv, RetryTypes, RetryPcs
<1>8. RetryPlaced' /\ RetryKept'
    <2>1. Once(queue)' /\ Queued' \cap pipeline' = {} /\ Held' \cap (Queued' \cup pipeline') = {}
        BY <1>1, <1>5 DEF RetryInv, RetryPlaced, Once
    <2>2. Kept' = Kept \ {b} /\ Kept' \subseteq RetryOut'
        BY <1>1, <1>2, <1>5 DEF RetryInv, RetryPlaced, Kept
    <2>6. RetryKept'
        BY <1>1, <1>5, <2>2 DEF RetryInv, RetryKept, Forgetful, R!Over
    <2>3. ready' # None => ready' \in 1 .. nread' /\ answer'[ready'] = "none"
        BY <1>1, <1>2, <1>3, <1>4 DEF RetryInv, RetryPlaced, RetryOut
    <2>4. b \in 1 .. nread /\ ~(b > nread)
        BY <1>2 DEF RetryOut, RetryInv, RetryTypes
    <2>5. \A c \in R!Batches : c > nread' => answer'[c] = "none"
        BY <1>1, <1>4, <2>4 DEF RetryInv, RetryPlaced
    <2> QED  BY <2>1, <2>2, <2>3, <2>5, <2>6 DEF RetryPlaced
<1>9. RetryControl'
    <2>1. \A c \in R!Batches : answer'[c] = "nack" => answer[c] = "nack"
        BY <1>4
    <2> QED  BY <1>1, <1>6, <2>1 DEF RetryInv, RetryControl
<1> QED  BY <1>7, <1>8, <1>9 DEF RetryInv

LEMMA RetryCloseEnd == ASSUME R!RetryAssumption, RetryInv, R!CloseEnd PROVE RetryInv'
<1>1. /\ pc = "closing" /\ ~reading /\ pc' = "closed" /\ ready' = None /\ queue' = <<>>
      /\ answer' = IF ready = None THEN answer ELSE [answer EXCEPT ![ready] = "nack"]
      /\ UNCHANGED <<adopted, readErr, reading, done, attempts, held, aborted, pipeline, nread>>
    BY DEF R!CloseEnd, R!Tell
<1>2. /\ answer \in [R!Batches -> {"none", "ack", "nack"}] /\ ready \in R!Batches \cup {None}
      /\ 1 .. nread \subseteq R!Batches /\ None \notin R!Batches
    BY RetryFacts DEF RetryInv, RetryTypes
<1>3. \A c \in R!Batches \ {ready} : answer'[c] = answer[c]
    BY <1>1, <1>2
<1>4. ready # None => answer'[ready] = "nack"
    BY <1>1, <1>2
<1>5. RetryOut' = RetryOut /\ Queued' = {} /\ Held' = Held
    BY <1>1, <1>2, <1>3, <1>4 DEF RetryOut, Queued, Held, R!Range
<1>6. RetryTypes'
    BY <1>1, <1>2 DEF RetryInv, RetryTypes, RetryPcs
<1>7. RetryPlaced' /\ RetryKept'
    <2>1. ready # None => ~(ready > nread)
        BY <1>2 DEF RetryInv, RetryPlaced, RetryTypes
    <2>2. \A c \in R!Batches : c > nread' => answer'[c] = "none"
        BY <1>1, <1>2, <1>3, <2>1 DEF RetryInv, RetryPlaced
    <2>3. Kept' \subseteq Kept /\ Once(queue)'
        BY <1>1, <1>5 DEF Kept, Once
    <2>4. RetryKept'
        BY <1>1 DEF RetryKept, Forgetful
    <2> QED  BY <1>1, <1>5, <2>2, <2>3, <2>4 DEF RetryInv, RetryPlaced
<1>8. RetryControl'
    BY <1>1, <1>5 DEF RetryInv, RetryControl
<1> QED  BY <1>6, <1>7, <1>8 DEF RetryInv

LEMMA RetryNext ==
    ASSUME R!RetryAssumption, RetryInv, [R!Next]_(R!vars)
    PROVE  RetryInv'
<1>1. CASE UNCHANGED R!vars
    <2>1. UNCHANGED <<queue, pipeline, held, ready, answer, nread, adopted, attempts, pc, readErr,
                      reading, done, aborted>>
        BY <1>1 DEF R!vars, R!shared, R!source
    <2>2. RetryPlaced' /\ RetryOut' = RetryOut /\ Kept' = Kept
        BY <2>1, RetryStays DEF RetryInv
    <2> QED  BY <2>1, <2>2 DEF RetryInv, RetryTypes, RetryControl, RetryKept, Forgetful, R!Over
<1> QED  BY <1>1, RetryFiber, RetrySleepAborted, RetryReplay, RetrySlept, RetryTakeReady, RetryReads, RetryNack, RetryAck,
            RetryCloseEnd DEF R!Next, R!Fiber

\* Where the wrapper keeps a batch is one place, and at an end of its own all that
\* was handed out is delivered.
LEMMA RetrySound ==
    ASSUME R!RetryAssumption, RetryInv
    PROVE  R!KeptUntilAnswered /\ R!EndMeansDelivered
<1>1. R!EndMeansDelivered
    <2> SUFFICES ASSUME pc = "ended", ~aborted, done, NEW b \in 1 .. nread PROVE answer[b] = "ack"
        BY DEF R!EndMeansDelivered
    <2>1. RetryOut = {} /\ ready = None
        BY OutCounts DEF RetryInv, RetryControl
    <2>2. b \in R!Batches /\ b # None
        BY RetryFacts DEF RetryInv, RetryTypes
    <2>3. answer[b] \in {"none", "ack", "nack"} /\ answer[b] # "nack"
        BY <2>2 DEF RetryInv, RetryTypes, RetryControl
    <2> QED  BY <2>1, <2>2, <2>3 DEF RetryOut
<1>2. R!KeptUntilAnswered
    <2> SUFFICES ASSUME NEW b \in 1 .. nread
                 PROVE  /\ R!Cardinality(R!Places(b)) <= 1
                        /\ R!Places(b) = {} => pc = "closed" \/ (R!Over /\ aborted)
        BY DEF R!KeptUntilAnswered
    <2>1. b \in R!Batches /\ b # None
        BY RetryFacts DEF RetryInv, RetryTypes
    <2>2. held = b <=> b \in Held
        BY <2>1 DEF Held
    <2>3. ready = b \/ answer[b] # "none" => b \notin Kept
        BY DEF RetryInv, RetryPlaced, RetryOut
    <2>4. \E p : R!Places(b) \subseteq {p}
        <3>1. CASE answer[b] # "none"
            <4>1. ready # b
                BY <2>1, <3>1 DEF RetryInv, RetryPlaced
            <4>2. R!Places(b) \subseteq {"answered"}
                BY <2>2, <2>3, <3>1, <4>1 DEF R!Places, Kept, Queued
            <4> QED  BY <4>2
        <3>2. CASE answer[b] = "none" /\ ready = b
            <4>1. R!Places(b) \subseteq {"ready"}
                BY <2>2, <2>3, <3>2 DEF R!Places, Kept, Queued
            <4> QED  BY <4>1
        <3>3. CASE answer[b] = "none" /\ ready # b /\ b \in Queued
            <4>1. R!Places(b) \subseteq {"queue"}
                BY <2>2, <3>3 DEF R!Places, RetryInv, RetryPlaced, Queued
            <4> QED  BY <4>1
        <3>4. CASE answer[b] = "none" /\ ready # b /\ b \in pipeline
            <4>1. R!Places(b) \subseteq {"pipeline"}
                BY <2>2, <3>4 DEF R!Places, RetryInv, RetryPlaced, Queued
            <4> QED  BY <4>1
        <3>5. CASE answer[b] = "none" /\ ready # b /\ b \notin Queued \cup pipeline
            <4>1. R!Places(b) \subseteq {"held"}
                BY <3>5 DEF R!Places, Queued
            <4> QED  BY <4>1
        <3> QED  BY <3>1, <3>2, <3>3, <3>4, <3>5
    <2>5. R!Cardinality(R!Places(b)) <= 1
        <3>1. PICK p : R!Places(b) \subseteq {p}
            BY <2>4
        <3>2. R!Places(b) = {} \/ R!Places(b) = {p}
            BY <3>1
        <3>3. R!Cardinality(R!Places(b)) = Cardinality(R!Places(b))
            BY RetryCounts
        <3>4. Cardinality(R!Places(b)) = 0 \/ Cardinality(R!Places(b)) = 1
            BY <3>2, FS_Singleton, FS_EmptySet
        <3>5. \A n : n = 0 \/ n = 1 => n <= 1
            OBVIOUS
        <3> QED  BY <3>3, <3>4, <3>5
    <2>6. ASSUME R!Places(b) = {} PROVE Forgetful
        <3>1. answer[b] = "none" /\ ready # b
            BY <2>6 DEF R!Places
        <3>2. b \in RetryOut
            BY <3>1 DEF RetryOut
        <3>3. b \notin Queued /\ b \notin pipeline /\ held # b
            BY <2>6 DEF R!Places, Queued
        <3> QED  BY <2>2, <3>2, <3>3 DEF RetryInv, RetryKept, Kept
    <2> QED  BY <2>5, <2>6 DEF Forgetful
<1> QED  BY <1>1, <1>2

-----------------------------------------------------------------------------
(* BrokerInput                                                               *)

\* Sets are counted alike in every component.
LEMMA BrokerCounts ==
    ASSUME NEW Items
    PROVE  K!Cardinality(Items) = Cardinality(Items)
    BY DEF K!Cardinality, Cardinality

\* A child that knows its end, or whose read has just brought it.
HasEnded(c) == c \in done \/ (reads[c].state = "there" /\ reads[c].got = K!Ended)

\* The children share out the batches in order, one ends only when they are used up
\* or by an abort, and only a failure makes a read throw: so the broker ends by
\* itself when all children have ended and nothing is parked.
BrokerInv ==
    /\ Cardinality(read) \in 0 .. K!NBatches /\ read = 1 .. Cardinality(read)
    /\ faults \in Nat /\ faults <= Faults
    /\ reads \in [Children -> [state : {"none", "out", "there"}, got : K!Results]]
    /\ done \subseteq Children /\ \A c \in done : reads[c] = K!NoRead
    /\ faults = Faults => \A c \in Children : ~(reads[c].state = "there" /\ reads[c].got = K!Broken)
    /\ ~aborted => \A c \in Children : HasEnded(c) => Cardinality(read) = K!NBatches
    /\ pc = "ended" /\ ~aborted /\ faults = Faults => done = Children /\ ready = <<>>

\* The numbers of the batches.
LEMMA BrokerFacts ==
    ASSUME K!InputAssumption
    PROVE  /\ K!NBatches \in Nat /\ K!Batches = 1 .. K!NBatches /\ Faults \in Nat
           /\ K!NoRead \in [state : {"none", "out", "there"}, got : K!Results]
           /\ K!Out \in [state : {"none", "out", "there"}, got : K!Results]
<1>1. K!NBatches \in Nat /\ K!Batches = 1 .. K!NBatches /\ Faults \in Nat
    BY DEF K!InputAssumption, K!NBatches, K!Batches
<1> QED  BY <1>1 DEF K!NoRead, K!Out, K!Results

LEMMA BrokerInit ==
    ASSUME K!InputAssumption, K!Init
    PROVE  BrokerInv
<1>1. /\ pc = "idle" /\ read = {} /\ faults = Faults /\ done = {}
      /\ reads = [c \in Children |-> K!NoRead]
    BY DEF K!Init, K!SideInit
<1>2. Cardinality(read) = 0 /\ read = 1 .. 0
    BY <1>1, FS_EmptySet
<1>3. K!NoRead.state = "none"
    BY DEF K!NoRead
<1> QED  BY <1>1, <1>2, <1>3, BrokerFacts DEF BrokerInv, HasEnded

\* What leaves the children's reads alone.
LEMMA BrokerFiber ==
    ASSUME K!InputAssumption, BrokerInv,
           K!Call \/ K!TakeReady \/ K!Abort \/ K!Close \/ UNCHANGED K!vars
           \/ \E b \in pipeline, e \in BOOLEAN : K!Answer(b, e)
    PROVE  BrokerInv'
<1>1. /\ UNCHANGED <<read, faults, reads, done>> /\ (aborted => aborted')
      /\ pc' = "ended" /\ ~aborted' => pc = "ended" /\ ~aborted /\ UNCHANGED ready
    <2>1. CASE K!Call
        BY <2>1 DEF K!Call, K!env, K!wrapVars
    <2>2. CASE K!TakeReady
        BY <2>2 DEF K!TakeReady, K!HandOut, K!env
    <2>3. CASE K!Abort
        BY <2>3 DEF K!Abort, K!wrapVars
    <2>4. CASE K!Close
        BY <2>4 DEF K!Close, K!env, K!wrapVars
    <2>5. CASE UNCHANGED K!vars
        BY <2>5 DEF K!vars, K!sideVars, K!wrapVars
    <2>6. CASE \E b \in pipeline, e \in BOOLEAN : K!Answer(b, e)
        BY <2>6 DEF K!Answer, K!wrapVars
    <2> QED  BY <2>1, <2>2, <2>3, <2>4, <2>5, <2>6
<1>2. Cardinality(read)' = Cardinality(read)
    BY <1>1
<1> QED  BY <1>1, <1>2 DEF BrokerInv, HasEnded

\* A read begins with nothing in it.
LEMMA BrokerStarts ==
    ASSUME K!InputAssumption, BrokerInv, K!StartReads
    PROVE  BrokerInv'
<1>1. /\ ready = <<>> /\ UNCHANGED <<aborted, read, faults, done, ready>>
      /\ \/ K!Live = {} /\ pc' = "ended" /\ UNCHANGED reads
         \/ /\ pc' = "any"
            /\ reads' = [c \in Children |-> IF c \in K!Live /\ reads[c] = K!NoRead
                                            THEN K!Out ELSE reads[c]]
    BY DEF K!StartReads, K!env
<1>2. Cardinality(read)' = Cardinality(read)
    BY <1>1
<1>3. CASE K!Live = {} /\ pc' = "ended" /\ UNCHANGED reads
    <2>1. done = Children
        BY <1>3 DEF K!Live, BrokerInv
    <2> QED  BY <1>1, <1>2, <1>3, <2>1 DEF BrokerInv, HasEnded
<1>4. CASE /\ pc' = "any"
           /\ reads' = [c \in Children |-> IF c \in K!Live /\ reads[c] = K!NoRead
                                           THEN K!Out ELSE reads[c]]
    <2>1. K!Out.state = "out"
        BY DEF K!Out
    <2>2. \A c \in Children : reads'[c] = reads[c] \/ (c \notin done /\ reads'[c] = K!Out)
        BY <1>4 DEF K!Live
    <2>3. reads' \in [Children -> [state : {"none", "out", "there"}, got : K!Results]]
        BY <1>4, <2>2, BrokerFacts DEF BrokerInv
    <2>4. \A c \in Children : HasEnded(c)' => HasEnded(c)
        BY <1>1, <2>1, <2>2 DEF HasEnded
    <2> QED  BY <1>1, <1>2, <1>4, <2>1, <2>2, <2>3, <2>4 DEF BrokerInv
<1> QED  BY <1>1, <1>3, <1>4

\* A child that answered with its end had it in its read; nobody throws before the
\* first failure.
LEMMA BrokerTakes ==
    ASSUME K!InputAssumption, BrokerInv, K!WhenAny
    PROVE  BrokerInv'
<1>1. /\ reads' = [c \in Children |-> K!Keep(c)]
      /\ done' = done \cup {c \in K!Answered : K!Got(c) = K!Ended}
      /\ UNCHANGED <<aborted, read, faults>>
      /\ pc' = "ended" => \E c \in K!Answered : K!Got(c) = K!Broken
    BY Zenon DEF K!WhenAny, K!env, K!HandOut
<1>2. Cardinality(read)' = Cardinality(read)
    BY <1>1
<1>3. \A c \in K!Answered : c \in Children /\ c \notin done /\ reads[c].state = "there"
    BY DEF K!Answered, K!Live
<1>4. \A c \in Children : reads'[c] = (IF c \in K!Answered THEN K!NoRead ELSE reads[c])
    BY <1>1 DEF K!Keep
<1>5. reads' \in [Children -> [state : {"none", "out", "there"}, got : K!Results]]
    BY <1>1, BrokerFacts DEF K!Keep, BrokerInv
<1>6. done' \subseteq Children /\ \A c \in done' : reads'[c] = K!NoRead
    BY <1>1, <1>3, <1>4 DEF BrokerInv
<1>7. K!NoRead.state = "none"
    BY DEF K!NoRead
<1>8. \A c \in Children : HasEnded(c)' => HasEnded(c)
    BY <1>1, <1>3, <1>4, <1>7 DEF HasEnded, K!Got
<1>9. faults = Faults => pc' # "ended"
    BY <1>1, <1>3 DEF BrokerInv, K!Got
<1>10. faults = Faults => \A c \in Children : ~(reads'[c].state = "there" /\ reads'[c].got = K!Broken)
    BY <1>4, <1>7 DEF BrokerInv
<1> QED  BY <1>1, <1>2, <1>5, <1>6, <1>8, <1>9, <1>10 DEF BrokerInv

\* What arrives in a child's read.
LEMMA BrokerChild ==
    ASSUME K!InputAssumption, BrokerInv, NEW c \in Children,
           K!ChildReads(c) \/ K!ChildEnds(c) \/ K!ChildFails(c)
    PROVE  BrokerInv'
<1> DEFINE Arrived(r) == reads' = [reads EXCEPT ![c] = [state |-> "there", got |-> r]]
<1>1. reads[c] = K!Out /\ c \notin done
    <2>1. K!Out # K!NoRead
        BY DEF K!Out, K!NoRead
    <2> QED  BY <2>1 DEF K!ChildReads, K!ChildEnds, K!ChildFails, BrokerInv
<1>2. UNCHANGED <<pc, aborted, done, ready>>
    BY DEF K!ChildReads, K!ChildEnds, K!ChildFails, K!sideVars
<1>3. ASSUME NEW r \in K!Results, Arrived(r)
      PROVE  /\ reads' \in [Children -> [state : {"none", "out", "there"}, got : K!Results]]
             /\ \A d \in Children : d # c => reads'[d] = reads[d] /\ (HasEnded(d)' <=> HasEnded(d))
             /\ reads'[c].state = "there" /\ reads'[c].got = r
             /\ \A d \in done' : reads'[d] = K!NoRead
    BY <1>1, <1>2, <1>3 DEF BrokerInv, HasEnded
<1>4. pc = "ended" /\ ~aborted /\ faults = Faults => done = Children
    BY DEF BrokerInv
<1>5. CASE K!ChildReads(c)
    <2>1. /\ K!NextBatch \in K!Batches /\ Arrived(K!NextBatch) /\ read' = read \cup {K!NextBatch}
          /\ UNCHANGED faults
        BY <1>5 DEF K!ChildReads, K!Arrives
    <2>2. K!NextBatch = Cardinality(read) + 1
        BY BrokerCounts DEF K!NextBatch
    <2> DEFINE n == Cardinality(read)
    <2>3. n \in Nat /\ n + 1 \in 1 .. K!NBatches /\ read = 1 .. n
        BY <2>1, <2>2, BrokerFacts DEF BrokerInv
    <2>4. read' = 1 .. n + 1 /\ Cardinality(read') = n + 1
        <3>1. read' = 1 .. n + 1
            BY <2>1, <2>2, <2>3
        <3>2. Cardinality(1 .. n + 1) = n + 1
            <4> HIDE DEF n
            <4> QED  BY <2>3, FS_Interval
        <3> QED  BY <3>1, <3>2
    <2>5. K!NextBatch \in K!Results /\ K!NextBatch # K!Ended /\ K!NextBatch # K!Broken
        BY <2>1, BrokerFacts DEF K!Results, K!Ended, K!Broken
    <2>6. \A d \in Children : ~aborted => ~HasEnded(d)
        BY <2>3, BrokerFacts DEF BrokerInv
    <2>7. ~aborted => \A d \in Children : ~HasEnded(d)'
        BY <1>1, <1>2, <1>3, <2>1, <2>5, <2>6 DEF HasEnded
    <2>8. Cardinality(read') \in 0 .. K!NBatches /\ read' = 1 .. Cardinality(read')
        BY <2>3, <2>4, BrokerFacts
    <2>9. /\ reads' \in [Children -> [state : {"none", "out", "there"}, got : K!Results]]
          /\ \A d \in done' : reads'[d] = K!NoRead
          /\ \A d \in Children : reads'[d] = reads[d] \/ reads'[d].got # K!Broken
        BY <1>3, <2>1, <2>5
    <2> QED  BY <1>1, <1>2, <1>4, <2>1, <2>7, <2>8, <2>9 DEF BrokerInv
<1>6. CASE K!ChildEnds(c)
    <2>1. K!Exhausted /\ Arrived(K!Ended) /\ UNCHANGED <<read, faults>>
        BY <1>6 DEF K!ChildEnds, K!Arrives, K!sideVars
    <2>2. K!Ended \in K!Results /\ K!Ended # K!Broken
        BY DEF K!Results, K!Ended, K!Broken
    <2>3. ~aborted => Cardinality(read) = K!NBatches
        BY <2>1, BrokerCounts, BrokerFacts DEF K!Exhausted, K!NextBatch, BrokerInv
    <2>4. /\ reads' \in [Children -> [state : {"none", "out", "there"}, got : K!Results]]
          /\ \A d \in done' : reads'[d] = K!NoRead
          /\ \A d \in Children : reads'[d] = reads[d] \/ reads'[d].got # K!Broken
        BY <1>3, <2>1, <2>2
    <2>5. Cardinality(read)' = Cardinality(read)
        BY <2>1
    <2> QED  BY <1>1, <1>2, <1>4, <2>1, <2>3, <2>4, <2>5 DEF BrokerInv
<1>7. CASE K!ChildFails(c)
    <2>1. Arrived(K!Broken) /\ UNCHANGED read /\ faults > 0 /\ faults' = faults - 1
        BY <1>7 DEF K!ChildFails, K!Fails, K!Arrives
    <2>2. K!Broken \in K!Results /\ K!Ended # K!Broken
        BY DEF K!Results, K!Ended, K!Broken
    <2>3. faults' \in Nat /\ faults' < Faults
        BY <2>1, BrokerFacts DEF BrokerInv
    <2>4. /\ reads' \in [Children -> [state : {"none", "out", "there"}, got : K!Results]]
          /\ \A d \in done' : reads'[d] = K!NoRead
          /\ \A d \in Children : HasEnded(d)' => HasEnded(d)
        BY <1>1, <1>2, <1>3, <2>1, <2>2 DEF HasEnded
    <2>5. Cardinality(read)' = Cardinality(read)
        BY <2>1
    <2>6. faults' # Faults /\ faults' <= Faults
        BY <2>3, BrokerFacts
    <2> QED  BY <1>2, <2>1, <2>3, <2>4, <2>5, <2>6 DEF BrokerInv
<1> QED  BY <1>5, <1>6, <1>7

LEMMA BrokerNext ==
    ASSUME K!InputAssumption, BrokerInv, [K!Next]_(K!vars)
    PROVE  BrokerInv'
    BY BrokerFiber, BrokerStarts, BrokerTakes, BrokerChild DEF K!Next, K!Reader

\* When all children have ended, all there was has been handed out.
LEMMA BrokerSound ==
    ASSUME K!InputAssumption, K!BrokerAssumption, BrokerInv
    PROVE  K!EndMeansHandedOut
<1> SUFFICES ASSUME pc = "ended", ~aborted, faults = Faults
             PROVE  Cardinality(read) = K!NBatches /\ ready = <<>> /\ K!There = {}
    BY BrokerCounts DEF K!EndMeansHandedOut
<1>1. done = Children /\ ready = <<>>
    BY DEF BrokerInv
<1>2. K!There = {}
    <2>1. K!NoRead.state # "there"
        BY DEF K!NoRead
    <2> QED  BY <1>1, <2>1 DEF K!There, BrokerInv
<1>3. CASE Children = {}
    <2>1. K!NBatches = 0
        BY <1>3 DEF K!BrokerAssumption, K!NBatches
    <2> QED  BY <1>1, <1>2, <2>1 DEF BrokerInv
<1>4. CASE Children # {}
    BY <1>1, <1>2, <1>4 DEF BrokerInv, HasEnded
<1> QED  BY <1>3, <1>4

\* A child's read has brought the batch; it is parked.
InRead(b) == \E c \in Children : reads[c].got = b
Parked(b) == \E i \in 1 .. Len(ready) : ready[i] = b

\* A batch that was read is in a child's read, parked, in the pipeline or answered,
\* and in one of these only, once; it counts as delivered if it was acked.
BrokerPlaced ==
    /\ ready \in Seq(K!Batches) /\ pipeline \subseteq K!Batches
    /\ answer \in [K!Batches -> {<<>>, <<"ack">>, <<"nack">>}] /\ landed \in [K!Batches -> Nat]
    /\ pc = "any" => ready = <<>>
    /\ Once(ready)
    /\ \A c \in Children : reads[c].got \in K!Batches => reads[c].state = "there"
    /\ \A c, d \in Children : reads[c].got \in K!Batches /\ reads[c].got = reads[d].got => c = d
    /\ \A b \in K!Batches :
        /\ b \in read <=> answer[b] # <<>> \/ b \in pipeline \/ InRead(b) \/ Parked(b)
        /\ answer[b] # <<>> => b \notin pipeline /\ ~InRead(b) /\ ~Parked(b)
        /\ b \in pipeline => ~InRead(b) /\ ~Parked(b)
        /\ ~(InRead(b) /\ Parked(b))
        /\ landed[b] = IF answer[b] = <<"ack">> THEN Sizes[b] ELSE 0

\* What a read holds that has no batch in it.
LEMMA NoBatch ==
    ASSUME K!InputAssumption
    PROVE  /\ K!Ended \notin K!Batches /\ K!Broken \notin K!Batches
           /\ K!NoRead.got \notin K!Batches /\ K!Out.got \notin K!Batches
           /\ K!Ended # K!Broken /\ K!NoRead.state = "none" /\ K!Out.state = "out"
    BY BrokerFacts DEF K!Ended, K!Broken, K!NoRead, K!Out

LEMMA PlacedInit ==
    ASSUME K!InputAssumption, K!Init
    PROVE  BrokerPlaced
<1>1. /\ pc = "idle" /\ read = {} /\ pipeline = {} /\ ready = <<>>
      /\ reads = [c \in Children |-> K!NoRead]
      /\ answer = [b \in K!Batches |-> <<>>] /\ landed = [b \in K!Batches |-> 0]
    BY DEF K!Init, K!SideInit
<1>2. \A b \in K!Batches : ~InRead(b) /\ ~Parked(b)
    BY <1>1, NoBatch DEF InRead, Parked
<1>3. <<>> # <<"ack">>
    OBVIOUS
<1> QED  BY <1>1, <1>2, <1>3, NoBatch DEF BrokerPlaced, Once

\* What moves no batch.
LEMMA PlacedStays ==
    ASSUME BrokerPlaced, UNCHANGED <<read, answer, landed, pipeline, ready>>, reads' = reads,
           pc' = "any" => pc = "any" \/ ready = <<>>
    PROVE  BrokerPlaced'
    BY DEF BrokerPlaced, InRead, Parked, Once

LEMMA PlacedFiber ==
    ASSUME K!InputAssumption, BrokerPlaced, K!Call \/ K!Abort \/ K!Close \/ UNCHANGED K!vars
    PROVE  BrokerPlaced'
<1>1. CASE K!Call
    BY <1>1, PlacedStays DEF K!Call, K!env, K!wrapVars
<1>2. CASE K!Abort
    BY <1>2, PlacedStays DEF K!Abort, K!wrapVars
<1>3. CASE K!Close
    BY <1>3, PlacedStays DEF K!Close, K!env, K!wrapVars
<1>4. CASE UNCHANGED K!vars
    BY <1>4, PlacedStays DEF K!vars, K!sideVars, K!wrapVars
<1> QED  BY <1>1, <1>2, <1>3, <1>4

\* The first of the parked batches goes to the pipeline.
LEMMA PlacedTakeReady ==
    ASSUME K!InputAssumption, BrokerPlaced, K!TakeReady
    PROVE  BrokerPlaced'
<1> DEFINE h == Head(ready)
<1>1. /\ ready # <<>> /\ ready' = Tail(ready) /\ pipeline' = pipeline \cup {h} /\ pc' = "idle"
      /\ UNCHANGED <<read, answer, landed>> /\ reads' = reads
    BY DEF K!TakeReady, K!HandOut, K!env
<1>2. /\ ready \in Seq(K!Batches) /\ ready' \in Seq(K!Batches) /\ Len(ready) > 0
      /\ Len(ready') = Len(ready) - 1 /\ h = ready[1] /\ h \in K!Batches
      /\ \A i \in 1 .. Len(ready) - 1 : ready'[i] = ready[i + 1]
    BY <1>1, HeadTailProperties DEF BrokerPlaced
<1> HIDE DEF h
<1>3. Once(ready')
    <2> SUFFICES ASSUME NEW i \in 1 .. Len(ready) - 1, NEW j \in 1 .. Len(ready) - 1,
                        ready'[i] = ready'[j]
                 PROVE  i = j
        BY <1>2 DEF Once
    <2>1. i + 1 \in 1 .. Len(ready) /\ j + 1 \in 1 .. Len(ready) /\ ready[i + 1] = ready[j + 1]
        BY <1>2
    <2>2. i + 1 = j + 1
        BY <2>1 DEF BrokerPlaced, Once
    <2> QED  BY <2>2
<1>4. ASSUME NEW b \in K!Batches PROVE Parked(b)' <=> Parked(b) /\ b # h
    <2>1. ASSUME Parked(b)' PROVE Parked(b) /\ b # h
        <3>1. PICK i \in 1 .. Len(ready) - 1 : ready'[i] = b
            BY <1>2, <2>1 DEF Parked
        <3>2. i + 1 \in 1 .. Len(ready) /\ 1 \in 1 .. Len(ready) /\ i + 1 # 1 /\ ready[i + 1] = b
            BY <1>2, <3>1
        <3> QED  BY <1>2, <3>2 DEF Parked, BrokerPlaced, Once
    <2>2. ASSUME Parked(b), b # h PROVE Parked(b)'
        <3>1. PICK i \in 1 .. Len(ready) : ready[i] = b
            BY <2>2 DEF Parked
        <3>2. i - 1 \in 1 .. Len(ready) - 1 /\ (i - 1) + 1 = i
            BY <1>2, <2>2, <3>1
        <3>3. ready'[i - 1] = b
            BY <1>2, <3>1, <3>2
        <3> QED  BY <1>2, <3>2, <3>3 DEF Parked
    <2> QED  BY <2>1, <2>2
<1>5. Parked(h)
    BY <1>2 DEF Parked
<1>6. \A b \in K!Batches : InRead(b)' <=> InRead(b)
    BY <1>1 DEF InRead
<1> QED  BY <1>1, <1>2, <1>3, <1>4, <1>5, <1>6 DEF BrokerPlaced

LEMMA PlacedStarts ==
    ASSUME K!InputAssumption, BrokerPlaced, K!StartReads
    PROVE  BrokerPlaced'
<1>1. /\ ready = <<>> /\ UNCHANGED <<read, answer, landed, pipeline, ready>>
      /\ \/ UNCHANGED reads
         \/ reads' = [c \in Children |-> IF c \in K!Live /\ reads[c] = K!NoRead
                                         THEN K!Out ELSE reads[c]]
    BY DEF K!StartReads, K!env
<1>2. CASE UNCHANGED reads
    BY <1>1, <1>2, PlacedStays
<1>3. CASE reads' = [c \in Children |-> IF c \in K!Live /\ reads[c] = K!NoRead
                                        THEN K!Out ELSE reads[c]]
    <2>1. \A c \in Children : reads'[c] = reads[c] \/ (reads[c] = K!NoRead /\ reads'[c] = K!Out)
        BY <1>3
    <2>2. \A c \in Children, b \in K!Batches :
            reads'[c].got = b <=> reads[c].got = b
        BY <2>1, NoBatch
    <2>3. \A b \in K!Batches : (InRead(b)' <=> InRead(b)) /\ (Parked(b)' <=> Parked(b))
        BY <1>1, <2>2 DEF InRead, Parked
    <2>4. \A c \in Children : reads'[c].got \in K!Batches => reads'[c] = reads[c]
        BY <2>1, NoBatch
    <2> QED  BY <1>1, <2>2, <2>3, <2>4 DEF BrokerPlaced, Once
<1> QED  BY <1>1, <1>2, <1>3

\* Children in the order of their index: each once, and all of them.
LEMMA AllInOrder ==
    ASSUME K!BrokerAssumption, NEW cs \in SUBSET Children, NEW s \in K!InOrder(cs)
    PROVE  /\ s \in Seq(cs) /\ Once(s)
           /\ \A c \in cs : \E i \in 1 .. Len(s) : s[i] = c
<1>1. IsFiniteSet(cs) /\ Cardinality(cs) \in Nat
    <2>1. IsFiniteSet(Children)
        BY DEF K!BrokerAssumption, K!IsFiniteSet, IsFiniteSet
    <2> QED  BY <2>1, FS_Subset, FS_CardinalityType
<1> DEFINE n == Cardinality(cs)
<1>2. s \in [1 .. n -> cs] /\ \A i, j \in 1 .. n : i # j => s[i] # s[j]
    <2>1. K!Cardinality(cs) = n
        BY BrokerCounts
    <2>2. s \in [1 .. n -> cs] /\ \A i, j \in 1 .. n : i < j => s[i] < s[j]
        BY <2>1 DEF K!InOrder
    <2>3. ASSUME NEW i \in 1 .. n, NEW j \in 1 .. n, i # j PROVE s[i] # s[j]
        <3>1. i < j \/ j < i
            BY <1>1, <2>3
        <3>2. s[i] \in Nat /\ s[j] \in Nat /\ (s[i] < s[j] \/ s[j] < s[i])
            BY <2>2, <3>1 DEF K!BrokerAssumption
        <3> QED  BY <3>2
    <2> QED  BY <2>2, <2>3
<1>3. n \in Nat /\ s \in Seq(cs) /\ Len(s) = n
    BY <1>1, <1>2
<1>4. s \in Injection(1 .. n, cs)
    BY <1>2 DEF Injection, IsInjective
<1>5. Cardinality(1 .. n) = n
    <2> HIDE DEF n
    <2> QED  BY <1>3, FS_Interval
<1>6. s \in Surjection(1 .. n, cs)
    BY <1>1, <1>4, <1>5, FS_Injection
<1> QED  BY <1>2, <1>3, <1>6 DEF Surjection, Once

\* Of the batches that are there the first goes to the pipeline and the others are
\* parked: none is left in a read.
LEMMA PlacedTakes ==
    ASSUME K!InputAssumption, K!BrokerAssumption, BrokerInv, BrokerPlaced, K!WhenAny
    PROVE  BrokerPlaced'
<1> DEFINE With == {c \in K!Answered : K!Got(c) \in K!Batches}
<1>1. PICK some \in K!InOrder(With) :
        IF some # <<>>
        THEN /\ pipeline' = pipeline \cup {K!Got(Head(some))} /\ pc' = "idle"
             /\ ready' = ready \o [i \in 1 .. Len(some) - 1 |-> K!Got(some[i + 1])]
        ELSE /\ pc' # "any" /\ UNCHANGED <<pipeline, ready>>
    BY DEF K!WhenAny, K!HandOut
<1>2. /\ pc = "any" /\ ready = <<>> /\ UNCHANGED <<read, answer, landed>>
      /\ reads' = [c \in Children |-> IF c \in K!Answered THEN K!NoRead ELSE reads[c]]
    BY DEF K!WhenAny, K!env, K!Keep, BrokerPlaced
<1>3. With \subseteq Children /\ \A c \in Children : reads[c].got \in K!Batches <=> c \in With
    BY NoBatch DEF K!Answered, K!Live, K!Got, BrokerPlaced, BrokerInv
<1>4. /\ some \in Seq(With) /\ Once(some)
      /\ \A c \in With : \E i \in 1 .. Len(some) : some[i] = c
    BY <1>1, <1>3, AllInOrder
<1>5. \A i \in 1 .. Len(some) : some[i] \in Children /\ reads[some[i]].got \in K!Batches
    BY <1>3, <1>4
<1>6. \A c \in Children : reads'[c].got \notin K!Batches
    BY <1>2, <1>3, NoBatch DEF K!Got
<1>7. \A b \in K!Batches : ~InRead(b)'
    BY <1>6 DEF InRead
<1>8. \A b \in K!Batches : InRead(b) <=> \E i \in 1 .. Len(some) : reads[some[i]].got = b
    BY <1>3, <1>4, <1>5 DEF InRead
<1>9. \A b \in K!Batches : ~Parked(b)
    BY <1>2 DEF Parked
<1>10. CASE some = <<>>
    <2>1. \A b \in K!Batches : ~InRead(b) /\ ~Parked(b)'
        BY <1>1, <1>2, <1>8, <1>10 DEF Parked
    <2> QED  BY <1>1, <1>2, <1>6, <1>7, <1>9, <1>10, <2>1 DEF BrokerPlaced, Once
<1>11. CASE some # <<>>
    <2> DEFINE f == [i \in 1 .. Len(some) - 1 |-> reads[some[i + 1]].got]
    <2>1. Len(some) \in Nat /\ Len(some) > 0 /\ Head(some) = some[1]
        BY <1>4, <1>11
    <2>h. PICK h \in K!Batches : h = reads[some[1]].got
        BY <1>5, <2>1
    <2>2. \A i \in 1 .. Len(some) - 1 : i + 1 \in 1 .. Len(some)
        BY <2>1
    <2>3. f \in Seq(K!Batches) /\ Len(f) = Len(some) - 1
        BY <1>5, <2>1, <2>2
    <2>4. /\ ready' = f /\ pipeline' = pipeline \cup {h} /\ pc' = "idle" /\ h \in K!Batches
        <3>1. <<>> \o f = f
            <4> HIDE DEF f
            <4> QED  BY <2>3
        <3> QED  BY <1>1, <1>2, <1>5, <1>11, <2>1, <2>h, <3>1 DEF K!Got
    <2>5. \A i \in 1 .. Len(some) - 1 : f[i] = reads[some[i + 1]].got
        OBVIOUS
    <2> HIDE DEF f
    <2>6. ASSUME NEW i \in 1 .. Len(some), NEW j \in 1 .. Len(some), reads[some[i]].got = reads[some[j]].got
          PROVE  i = j
        <3>1. some[i] = some[j]
            BY <1>5, <2>6 DEF BrokerPlaced
        <3> QED  BY <1>4, <3>1 DEF Once
    <2>7. Once(ready')
        <3> SUFFICES ASSUME NEW i \in 1 .. Len(some) - 1, NEW j \in 1 .. Len(some) - 1, f[i] = f[j]
                     PROVE  i = j
            BY <2>3, <2>4 DEF Once
        <3>1. i + 1 = j + 1
            BY <2>2, <2>5, <2>6
        <3> QED  BY <3>1
    <2>8. ASSUME NEW b \in K!Batches
          PROVE  InRead(b) <=> b = h \/ Parked(b)'
        <3>1. ASSUME NEW i \in 1 .. Len(some), reads[some[i]].got = b PROVE b = h \/ Parked(b)'
            <4>1. CASE i = 1
                BY <2>h, <3>1, <4>1
            <4>2. CASE i # 1
                <5>1. i - 1 \in 1 .. Len(some) - 1 /\ (i - 1) + 1 = i
                    BY <2>1, <4>2
                <5>2. f[i - 1] = b
                    BY <2>5, <3>1, <5>1
                <5> QED  BY <2>3, <2>4, <5>1, <5>2 DEF Parked
            <4> QED  BY <4>1, <4>2
        <3>2. Parked(b)' => InRead(b)
            BY <1>8, <2>2, <2>3, <2>4, <2>5 DEF Parked
        <3>3. b = h => InRead(b)
            BY <1>8, <2>1, <2>h
        <3> QED  BY <1>8, <3>1, <3>2, <3>3
    <2>9. ~Parked(h)'
        <3> SUFFICES ASSUME NEW i \in 1 .. Len(some) - 1, f[i] = h PROVE FALSE
            BY <2>3, <2>4 DEF Parked
        <3>1. 1 \in 1 .. Len(some) /\ i + 1 \in 1 .. Len(some) /\ i + 1 # 1
            BY <2>1, <2>2
        <3>2. reads[some[i + 1]].got = reads[some[1]].got
            BY <2>5, <2>h
        <3> QED  BY <2>6, <3>1, <3>2
    <2> QED  BY <1>2, <1>6, <1>7, <1>9, <2>3, <2>4, <2>7, <2>8, <2>9 DEF BrokerPlaced
<1> QED  BY <1>10, <1>11

\* A child reads the next batch, which nobody has read before.
LEMMA PlacedChild ==
    ASSUME K!InputAssumption, BrokerInv, BrokerPlaced, NEW c \in Children,
           K!ChildReads(c) \/ K!ChildEnds(c) \/ K!ChildFails(c)
    PROVE  BrokerPlaced'
<1>1. /\ reads[c] = K!Out /\ UNCHANGED <<pc, answer, landed, pipeline, ready>>
    BY DEF K!ChildReads, K!ChildEnds, K!ChildFails, K!sideVars
<1>2. \A b \in K!Batches : Parked(b)' <=> Parked(b)
    BY <1>1 DEF Parked
<1>3. CASE K!ChildReads(c)
    <2> DEFINE n == K!NextBatch
    <2>1. /\ n \in K!Batches /\ read' = read \cup {n}
          /\ reads' = [reads EXCEPT ![c] = [state |-> "there", got |-> n]]
        BY <1>3 DEF K!ChildReads, K!Arrives
    <2>2. n \notin read
        BY BrokerCounts, BrokerFacts DEF K!NextBatch, BrokerInv
    <2> HIDE DEF n
    <2>3. /\ reads'[c].state = "there" /\ reads'[c].got = n
          /\ \A d \in Children : d # c => reads'[d] = reads[d]
        BY <2>1 DEF BrokerInv
    <2>4. \A d \in Children : reads[d].got # n
        BY <2>1, <2>2 DEF BrokerPlaced, InRead
    <2>5. reads[c].got \notin K!Batches
        BY <1>1, NoBatch
    <2>6. \A b \in K!Batches : InRead(b)' <=> InRead(b) \/ b = n
        BY <2>3, <2>5 DEF InRead
    <2> QED  BY <1>1, <1>2, <2>1, <2>2, <2>3, <2>4, <2>5, <2>6 DEF BrokerPlaced, Once
<1>4. CASE K!ChildEnds(c) \/ K!ChildFails(c)
    <2>1. PICK r \in {K!Ended, K!Broken} :
            reads' = [reads EXCEPT ![c] = [state |-> "there", got |-> r]]
        BY <1>4 DEF K!ChildEnds, K!ChildFails, K!Arrives
    <2>2. UNCHANGED read
        BY <1>4 DEF K!ChildEnds, K!ChildFails, K!sideVars
    <2>3. /\ reads'[c].got \notin K!Batches /\ reads[c].got \notin K!Batches
          /\ \A d \in Children : d # c => reads'[d] = reads[d]
        BY <1>1, <2>1, NoBatch DEF BrokerInv
    <2>4. \A b \in K!Batches : InRead(b)' <=> InRead(b)
        BY <2>3 DEF InRead
    <2>5. \A d \in Children : reads'[d].got \in K!Batches => reads'[d] = reads[d]
        BY <2>3
    <2>6. Once(ready') /\ (pc = "any" => ready = <<>>)'
        BY <1>1 DEF BrokerPlaced, Once
    <2> QED  BY <1>1, <1>2, <2>2, <2>4, <2>5, <2>6 DEF BrokerPlaced
<1> QED  BY <1>3, <1>4

\* Only what is in the pipeline is answered, all of it delivered if acked.
LEMMA PlacedAnswer ==
    ASSUME K!InputAssumption, BrokerPlaced, NEW b \in pipeline, NEW e \in BOOLEAN, K!Answer(b, e)
    PROVE  BrokerPlaced'
<1>1. b \in K!Batches /\ answer[b] = <<>> /\ landed[b] = 0 /\ Sizes[b] \in Nat
    <2>1. b \in K!Batches /\ answer[b] = <<>>
        BY DEF BrokerPlaced
    <2>2. Sizes[b] \in Nat
        BY <2>1 DEF K!InputAssumption, K!Batches
    <2>3. answer[b] # <<"ack">>
        BY <2>1
    <2> QED  BY <2>1, <2>2, <2>3 DEF BrokerPlaced
<1>2. /\ pipeline' = pipeline \ {b} /\ UNCHANGED <<pc, read, ready>> /\ reads' = reads
      /\ answer' = [answer EXCEPT ![b] = Append(answer[b], IF e THEN "nack" ELSE "ack")]
      /\ IF e THEN UNCHANGED landed ELSE K!Landed([i \in 1 .. Sizes[b] |-> b])
    BY DEF K!Answer, K!Told, K!wrapVars
<1>3. answer' = [answer EXCEPT ![b] = IF e THEN <<"nack">> ELSE <<"ack">>]
    <2>1. Append(<<>>, "nack") = <<"nack">> /\ Append(<<>>, "ack") = <<"ack">>
        OBVIOUS
    <2> QED  BY <1>1, <1>2, <2>1
<1>4. ~e => landed' = [landed EXCEPT ![b] = Sizes[b]]
    <2> SUFFICES ASSUME ~e PROVE landed' = [landed EXCEPT ![b] = Sizes[b]]
        OBVIOUS
    <2> DEFINE of == [i \in 1 .. Sizes[b] |-> b]
               At(x) == {i \in DOMAIN of : of[i] = x}
    <2>1. landed' = [x \in K!Batches |-> landed[x] + Cardinality(At(x))]
        BY <1>2, BrokerCounts DEF K!Landed
    <2>2. At(b) = 1 .. Sizes[b] /\ \A x : x # b => At(x) = {}
        OBVIOUS
    <2>3. Cardinality(At(b)) = Sizes[b] /\ \A x : x # b => Cardinality(At(x)) = 0
        <3>1. Cardinality(1 .. Sizes[b]) = Sizes[b]
            BY <1>1, FS_Interval
        <3> HIDE DEF At
        <3> QED  BY <2>2, <3>1, FS_EmptySet
    <2>4. landed \in [K!Batches -> Nat]
        BY DEF BrokerPlaced
    <2> HIDE DEF At
    <2>5. \A x \in K!Batches : landed[x] + Cardinality(At(x)) = IF x = b THEN Sizes[b] ELSE landed[x]
        BY <1>1, <2>3, <2>4
    <2> QED  BY <1>1, <2>1, <2>4, <2>5
<1>5. \A x \in K!Batches : (InRead(x)' <=> InRead(x)) /\ (Parked(x)' <=> Parked(x))
    BY <1>2 DEF InRead, Parked
<1>6. \A x \in K!Batches : landed'[x] = IF answer'[x] = <<"ack">> THEN Sizes[x] ELSE 0
    BY <1>1, <1>2, <1>3, <1>4 DEF BrokerPlaced
<1>7. answer' \in [K!Batches -> {<<>>, <<"ack">>, <<"nack">>}] /\ landed' \in [K!Batches -> Nat]
    BY <1>1, <1>2, <1>3, <1>4 DEF BrokerPlaced
<1>8. answer'[b] # <<>> /\ \A x \in K!Batches : x # b => answer'[x] = answer[x]
    BY <1>1, <1>3 DEF BrokerPlaced
<1>9. ASSUME NEW x \in K!Batches
      PROVE  /\ x \in read' <=> answer'[x] # <<>> \/ x \in pipeline' \/ InRead(x)' \/ Parked(x)'
             /\ answer'[x] # <<>> => x \notin pipeline' /\ ~InRead(x)' /\ ~Parked(x)'
             /\ x \in pipeline' => ~InRead(x)' /\ ~Parked(x)'
             /\ ~(InRead(x)' /\ Parked(x)')
    <2>1. CASE x = b
        BY <1>1, <1>2, <1>5, <1>8, <2>1 DEF BrokerPlaced
    <2>2. CASE x # b
        BY <1>2, <1>5, <1>8, <2>2 DEF BrokerPlaced
    <2> QED  BY <2>1, <2>2
<1>10. ready' = ready /\ pc' = pc /\ reads' = reads /\ pipeline' \subseteq pipeline
    BY <1>2
<1>11. pipeline' \subseteq K!Batches /\ Once(ready)'
    <2>1. pipeline \subseteq K!Batches /\ Once(ready)
        BY DEF BrokerPlaced
    <2>2. Once(ready)'
        BY ONLY <1>10, <2>1 DEF Once
    <2> QED  BY <1>10, <2>1, <2>2
<1> QED  BY <1>6, <1>7, <1>9, <1>10, <1>11 DEF BrokerPlaced

LEMMA PlacedNext ==
    ASSUME K!InputAssumption, K!BrokerAssumption, BrokerInv, BrokerPlaced, [K!Next]_(K!vars)
    PROVE  BrokerPlaced'
    BY PlacedFiber, PlacedTakeReady, PlacedStarts, PlacedTakes, PlacedChild, PlacedAnswer
       DEF K!Next, K!Reader

LEMMA PlacedSound ==
    ASSUME K!InputAssumption, BrokerInv, BrokerPlaced
    PROVE  K!NothingOrphaned /\ K!AnsweredRightly
<1>1. K!AnsweredRightly
    <2>1. Len(<<>>) = 0 /\ Len(<<"ack">>) = 1 /\ Len(<<"nack">>) = 1
        OBVIOUS
    <2>2. ASSUME NEW b \in K!Batches
          PROVE  Len(answer[b]) <= 1 /\ (answer[b] = <<"ack">> => landed[b] = Sizes[b])
        <3>1. answer[b] \in {<<>>, <<"ack">>, <<"nack">>}
            BY DEF BrokerPlaced
        <3>2. Len(answer[b]) <= 1
            <4> DEFINE v == answer[b]
            <4>1. v = <<>> \/ v = <<"ack">> \/ v = <<"nack">>
                BY <3>1
            <4> HIDE DEF v
            <4>2. Len(v) <= 1
                BY <2>1, <4>1
            <4> QED  BY <4>2 DEF v
        <3> QED  BY <3>2 DEF BrokerPlaced
    <2> QED  BY <2>2 DEF K!AnsweredRightly
<1>2. K!NothingOrphaned
    <2> DEFINE At(b) == {i \in DOMAIN ready : ready[i] = b}
    <2> SUFFICES ASSUME NEW b \in read
                 PROVE  1 = (IF answer[b] # <<>> THEN 1 ELSE 0) + (IF b \in K!There THEN 1 ELSE 0)
                            + (IF b \in pipeline THEN 1 ELSE 0) + Cardinality(At(b))
        BY BrokerCounts DEF K!NothingOrphaned
    <2>1. b \in K!Batches
        BY BrokerFacts DEF BrokerInv
    <2>2. b \in K!There <=> InRead(b)
        BY <2>1 DEF K!There, K!Got, InRead, BrokerPlaced
    <2>3. DOMAIN ready = 1 .. Len(ready)
        BY DEF BrokerPlaced
    <2>4. Cardinality(At(b)) = IF Parked(b) THEN 1 ELSE 0
        <3>1. CASE Parked(b)
            <4>1. PICK i \in 1 .. Len(ready) : ready[i] = b
                BY <3>1 DEF Parked
            <4>2. At(b) = {i}
                BY <2>3, <4>1 DEF BrokerPlaced, Once
            <4> HIDE DEF At
            <4> QED  BY <3>1, <4>2, FS_Singleton
        <3>2. CASE ~Parked(b)
            <4>1. At(b) = {}
                BY <2>3, <3>2 DEF Parked
            <4> HIDE DEF At
            <4> QED  BY <3>2, <4>1, FS_EmptySet
        <3> QED  BY <3>1, <3>2
    <2> HIDE DEF At
    <2> QED  BY <2>1, <2>2, <2>4 DEF BrokerPlaced
<1> QED  BY <1>1, <1>2

-----------------------------------------------------------------------------
(* WebsocketInput                                                            *)

\* Every dial counts, a failed one as a retry too: between a dial and the decision
\* to dial again the retries are the fewer.  The loop leaves its cycle, and closes
\* the rendezvous, only by an abort or with its retries used up.
DialInv ==
    /\ dials \in Nat /\ retries \in Nat /\ retries <= dials
    /\ loop \in {"run", "finish", "flush", "reset", "retry"} => retries < dials
    /\ loop \in {"out", "ended"} /\ ~aborted =>
            MaxRetries >= 0 /\ retries > MaxRetries /\ dials > MaxRetries
    /\ queue = [items |-> queue.items, closed |-> queue.closed]
    /\ queue.closed => aborted \/ loop = "ended"
    /\ reader = "ended" => aborted \/ loop = "ended"

LEMMA DialInit ==
    ASSUME W!Init
    PROVE  DialInv
    BY DEF W!Init, W!Open, DialInv

\* Before it dials the loop looks at the rendezvous, which is closed only by an
\* abort then; a dial is one more than the retries.
LEMMA DialLoop ==
    ASSUME W!WebsocketAssumption, DialInv, W!Loop \/ W!Dialled \/ W!DialFails
    PROVE  DialInv'
<1>1. CASE W!Check \/ W!Reset \/ W!Sleep
    BY <1>1 DEF W!Check, W!Reset, W!Sleep, W!Over, W!connVars, DialInv
<1>2. CASE W!Disconnected \/ W!Finish \/ W!Flushed
    BY <1>2 DEF W!Disconnected, W!Finish, W!Flushed, W!connVars, DialInv
<1>3. CASE W!Out
    BY <1>3 DEF W!Out, W!Shut, W!connVars, DialInv
<1>4. CASE W!Dialled
    BY <1>4 DEF W!Dialled, DialInv
<1>5. CASE W!DialFails
    BY <1>5 DEF W!DialFails, W!Over, DialInv
<1>6. CASE W!Retry
    BY <1>6 DEF W!Retry, W!GiveUp, W!connVars, W!WebsocketAssumption, DialInv
<1> QED  BY <1>1, <1>2, <1>3, <1>4, <1>5, <1>6 DEF W!Loop

LEMMA DialNext ==
    ASSUME W!WebsocketAssumption, DialInv, [W!Next]_(W!vars)
    PROVE  DialInv'
<1>1. ASSUME UNCHANGED <<dials, retries, loop, queue, aborted, reader>> PROVE DialInv'
    BY <1>1 DEF DialInv
<1>2. CASE W!Push
    BY <1>2 DEF W!Push, W!Pushed, DialInv
<1>3. CASE W!Read
    BY <1>3 DEF W!Read, W!connVars, DialInv
<1>4. CASE W!Pop
    BY <1>4 DEF W!Pop, W!Popped, W!connVars, DialInv
<1>5. CASE W!Abort
    BY <1>5 DEF W!Abort, W!Shut, W!connVars, DialInv
<1>6. CASE W!Close
    BY <1>6 DEF W!Close, W!Shut, DialInv
<1>7. CASE W!Consume \/ W!CloseFlushed \/ W!Closed \/ W!PeerCloses \/ UNCHANGED W!vars
           \/ \E m \in {W!Oversize, 1} : W!PeerSends(m)
    BY <1>1, <1>7
       DEF W!Consume, W!CloseFlushed, W!Closed, W!PeerCloses, W!PeerSends, W!vars
<1> QED  BY <1>2, <1>3, <1>4, <1>5, <1>6, <1>7, DialLoop DEF W!Next, W!Consumer, W!Reader, W!Closing

\* The loop is over, undrained, only after more than max_retries dials in a row.
LEMMA DialSound ==
    ASSUME DialInv
    PROVE  W!GivesUpInARow
    BY DEF DialInv, W!GivesUpInARow

-----------------------------------------------------------------------------
(* HttpClientInput, whichever way it is configured                           *)

Http(streaming, reconnect, dropEmpty) == INSTANCE HttpClientInput WITH
    chosen <- FALSE, Streaming <- streaming, Reconnect <- reconnect, DropEmpty <- dropEmpty,
    MaxMessages <- MaxBodies

\* What the server has sent, in order.
Sent == [i \in 1 .. sent |-> i]

\* The input was drained, or may end with the response it streamed.
MayEnd(streaming, reconnect) == aborted \/ (streaming /\ ~reconnect)

\* What was sent is with the stream, in the rendezvous or framed, in this order,
\* until the rendezvous is closed, which it is only where the input may end; a
\* polling input uses neither scanner nor rendezvous, and a streaming one makes
\* no requests of its own.
HttpInv(streaming, reconnect) ==
    /\ sent \in Nat /\ got \in Seq(Nat) /\ framed \in Seq(Nat)
    /\ queue \in [items : Seq(Nat), closed : BOOLEAN]
    /\ ~queue.closed => got \o queue.items \o framed = Sent
    /\ ~streaming => queue.items = <<>> /\ framed = <<>> /\ loop = "ended"
    /\ streaming => reader \in {"idle", "pop", "ended"}
    /\ streaming /\ loop \in {"out", "ended"} => MayEnd(streaming, reconnect)
    /\ queue.closed \/ reader = "ended" => MayEnd(streaming, reconnect)

\* The head of one sequence moves to the end of the one before it.
LEMMA Moved ==
    ASSUME NEW Items, NEW s \in Seq(Items), NEW t \in Seq(Items), t # <<>>
    PROVE  /\ Head(t) \in Items /\ Tail(t) \in Seq(Items) /\ Append(s, Head(t)) \in Seq(Items)
           /\ Append(s, Head(t)) \o Tail(t) = s \o t
<1>1. /\ Head(t) \in Items /\ Tail(t) \in Seq(Items) /\ Append(s, Head(t)) \in Seq(Items)
      /\ Len(t) > 0 /\ Len(Tail(t)) = Len(t) - 1 /\ Len(Append(s, Head(t))) = Len(s) + 1
      /\ Head(t) = t[1] /\ \A i \in 1 .. Len(t) - 1 : Tail(t)[i] = t[i + 1]
      /\ \A i \in 1 .. Len(s) : Append(s, Head(t))[i] = s[i]
      /\ Append(s, Head(t))[Len(s) + 1] = Head(t)
    OBVIOUS
<1>2. /\ Len(Append(s, Head(t)) \o Tail(t)) = Len(s \o t)
      /\ \A i \in 1 .. Len(s \o t) : (Append(s, Head(t)) \o Tail(t))[i] = (s \o t)[i]
    BY <1>1
<1> QED  BY <1>1, <1>2

\* Three sequences one after the other.
LEMMA Between ==
    ASSUME NEW Items, NEW s \in Seq(Items), NEW t \in Seq(Items), NEW x \in Items
    PROVE  /\ s \o Append(t, x) = Append(s \o t, x) /\ Append(t, x) \in Seq(Items)
           /\ s \o t \in Seq(Items) /\ s \o <<>> = s /\ <<>> \o s = s
    OBVIOUS

\* The numbers up to n, and the next k of them.
LEMMA Counted ==
    ASSUME NEW n \in Nat, NEW k \in Nat, NEW s \in Seq(Nat), NEW t \in Seq(Nat),
           s = [i \in 1 .. n |-> i], t = [i \in 1 .. k |-> n + i]
    PROVE  s \o t = [i \in 1 .. n + k |-> i]
<1>1. /\ s \o t \in Seq(Nat) /\ Len(s \o t) = Len(s) + Len(t)
      /\ \A i \in 1 .. Len(s) : (s \o t)[i] = s[i]
      /\ \A i \in 1 .. Len(t) : (s \o t)[Len(s) + i] = t[i]
    BY Joined
<1>2. Len(s) = n /\ Len(t) = k /\ DOMAIN (s \o t) = 1 .. Len(s \o t)
    BY <1>1
<1>3. ASSUME NEW i \in 1 .. n + k PROVE (s \o t)[i] = i
    <2>1. CASE i <= n
        BY <1>1, <1>2, <2>1
    <2>2. CASE i > n
        <3>1. i - n \in 1 .. k /\ n + (i - n) = i
            BY <2>2
        <3>2. (s \o t)[n + (i - n)] = t[i - n]
            BY <1>1, <1>2, <3>1
        <3> QED  BY <3>1, <3>2
    <2>3. i <= n \/ i > n
        OBVIOUS
    <2> QED  BY <2>1, <2>2, <2>3
<1>4. DOMAIN (s \o t) = 1 .. n + k
    BY <1>1, <1>2
<1>5. s \o t = [i \in DOMAIN (s \o t) |-> (s \o t)[i]]
    BY <1>1
<1> QED  BY <1>3, <1>4, <1>5

LEMMA HttpInit ==
    ASSUME NEW streaming \in BOOLEAN, NEW reconnect \in BOOLEAN, NEW dropEmpty \in BOOLEAN,
           Http(streaming, reconnect, dropEmpty)!Init
    PROVE  HttpInv(streaming, reconnect)
<1>1. /\ sent = 0 /\ got = <<>> /\ framed = <<>> /\ queue = [items |-> <<>>, closed |-> FALSE]
      /\ reader = "idle" /\ loop = IF streaming THEN "permit" ELSE "ended"
    BY DEF Http!Init, Http!Open
<1>2. <<>> \in Seq(Nat) /\ <<>> \o <<>> \o <<>> = [i \in 1 .. 0 |-> i]
    OBVIOUS
<1>3. queue \in [items : Seq(Nat), closed : BOOLEAN]
    BY <1>1, <1>2
<1> QED  BY <1>1, <1>2, <1>3 DEF HttpInv, Sent

\* The next message the server sends comes after all the others.
LEMMA HttpAnswered ==
    ASSUME NEW streaming \in BOOLEAN, NEW reconnect \in BOOLEAN, NEW dropEmpty \in BOOLEAN,
           HttpInv(streaming, reconnect), Http(streaming, reconnect, dropEmpty)!Answered
    PROVE  HttpInv(streaming, reconnect)'
<1>1. /\ reader = "request" /\ reader' # "ended"
      /\ \/ sent' = sent + 1 /\ got' = Append(got, sent + 1)
         \/ UNCHANGED <<sent, got>>
      /\ UNCHANGED <<loop, framed, queue, aborted>>
    BY DEF Http!Answered
<1>2. ~streaming
    BY <1>1 DEF HttpInv
<1>3. queue.items = <<>> /\ framed = <<>> /\ got \in Seq(Nat) /\ sent \in Nat
    BY <1>2 DEF HttpInv
<1>4. got' \in Seq(Nat) /\ sent' \in Nat
    <2>1. sent + 1 \in Nat /\ Append(got, sent + 1) \in Seq(Nat)
        BY <1>3
    <2> QED  BY <1>1, <1>3, <2>1
<1>5. (got \o queue.items \o framed = got) /\ (got \o queue.items \o framed = got)'
    <2>1. queue'.items = <<>> /\ framed' = <<>>
        BY <1>1, <1>3
    <2> QED  BY <1>3, <1>4, <2>1, Between
<1>6. got = Sent => got' = Sent'
    BY <1>1, <1>3 DEF Sent
<1> QED  BY <1>1, <1>2, <1>4, <1>5, <1>6 DEF HttpInv, MayEnd

LEMMA HttpPop ==
    ASSUME NEW streaming \in BOOLEAN, NEW reconnect \in BOOLEAN, NEW dropEmpty \in BOOLEAN,
           HttpInv(streaming, reconnect), Http(streaming, reconnect, dropEmpty)!Pop
    PROVE  HttpInv(streaming, reconnect)'
<1>1. CASE ~queue.closed
    <2>1. /\ queue.items # <<>> /\ got' = Append(got, Head(queue.items))
          /\ queue' = [items |-> Tail(queue.items), closed |-> queue.closed] /\ reader' = "idle"
          /\ UNCHANGED <<loop, framed, sent, aborted>>
        BY <1>1 DEF Http!Pop, Http!MayPop, Http!First, Http!Popped, HttpInv
    <2>2. got \in Seq(Nat) /\ queue.items \in Seq(Nat)
        BY DEF HttpInv
    <2>3. /\ Tail(queue.items) \in Seq(Nat) /\ Append(got, Head(queue.items)) \in Seq(Nat)
          /\ Append(got, Head(queue.items)) \o Tail(queue.items) = got \o queue.items
        BY <2>1, <2>2, Moved
    <2>4. queue'.items = Tail(queue.items) /\ queue'.closed = queue.closed
        BY <2>1
    <2>5. got' \o queue'.items \o framed' = got \o queue.items \o framed /\ Sent' = Sent
        BY <2>1, <2>3, <2>4 DEF Sent
    <2>6. streaming
        BY <2>1 DEF HttpInv
    <2> QED  BY <1>1, <2>1, <2>3, <2>4, <2>5, <2>6 DEF HttpInv, MayEnd
<1>2. CASE queue.closed
    BY <1>2 DEF Http!Pop, Http!MayPop, HttpInv, MayEnd, Sent
<1> QED  BY <1>1, <1>2 DEF HttpInv

LEMMA HttpChunk ==
    ASSUME NEW streaming \in BOOLEAN, NEW reconnect \in BOOLEAN, NEW dropEmpty \in BOOLEAN,
           NEW n \in 1 .. 2,
           HttpInv(streaming, reconnect), Http(streaming, reconnect, dropEmpty)!Chunk(n)
    PROVE  HttpInv(streaming, reconnect)'
<1>1. /\ framed = <<>> /\ framed' = [i \in 1 .. n |-> sent + i] /\ sent' = sent + n
      /\ loop = "body" /\ UNCHANGED <<reader, loop, got, queue, aborted>>
    BY DEF Http!Chunk
<1>2. streaming /\ framed' \in Seq(Nat) /\ sent' \in Nat
    BY <1>1 DEF HttpInv
<1> DEFINE before == got \o queue.items
<1>3. before \in Seq(Nat) /\ before \o framed = before /\ before \o framed' = (before \o framed)'
    BY <1>1, <1>2 DEF HttpInv
<1>4. before = Sent => before \o framed' = Sent'
    <2>1. SUFFICES ASSUME before = Sent PROVE before \o framed' = Sent'
        OBVIOUS
    <2>2. before = [i \in 1 .. sent |-> i] /\ Sent' = [i \in 1 .. sent + n |-> i] /\ sent \in Nat
        BY <1>1, <2>1 DEF HttpInv, Sent
    <2> HIDE DEF before
    <2>3. before \in Seq(Nat) /\ n \in Nat
        BY <1>3
    <2> QED  BY <1>1, <1>2, <2>2, <2>3, Counted
<1> QED  BY <1>1, <1>2, <1>3, <1>4 DEF HttpInv, MayEnd

LEMMA HttpEmit ==
    ASSUME NEW streaming \in BOOLEAN, NEW reconnect \in BOOLEAN, NEW dropEmpty \in BOOLEAN,
           HttpInv(streaming, reconnect), Http(streaming, reconnect, dropEmpty)!Emit
    PROVE  HttpInv(streaming, reconnect)'
<1>1. CASE ~queue.closed
    <2>1. /\ framed # <<>> /\ framed' = Tail(framed)
          /\ queue' = [items |-> Append(queue.items, Head(framed)), closed |-> queue.closed]
          /\ loop = "body" /\ UNCHANGED <<reader, loop, sent, got, aborted>>
        BY <1>1 DEF Http!Emit, Http!MayPush, Http!Pushed, HttpInv
    <2>2. got \in Seq(Nat) /\ queue.items \in Seq(Nat) /\ framed \in Seq(Nat) /\ streaming
        BY <2>1 DEF HttpInv
    <2> DEFINE before == got \o queue.items
    <2>3. before \in Seq(Nat)
        BY <2>2
    <2>4. /\ Tail(framed) \in Seq(Nat) /\ Head(framed) \in Nat
          /\ Append(before, Head(framed)) \o Tail(framed) = before \o framed
        <3> HIDE DEF before
        <3> QED  BY <2>1, <2>2, <2>3, Moved
    <2>5. /\ got \o Append(queue.items, Head(framed)) = Append(got \o queue.items, Head(framed))
          /\ Append(queue.items, Head(framed)) \in Seq(Nat)
        BY <2>2, <2>4, Between
    <2>6. queue'.items = Append(queue.items, Head(framed)) /\ queue'.closed = queue.closed
        BY <2>1
    <2>7. got' \o queue'.items \o framed' = got \o queue.items \o framed /\ Sent' = Sent
        BY <2>1, <2>4, <2>5, <2>6 DEF Sent
    <2> QED  BY <1>1, <2>1, <2>2, <2>4, <2>5, <2>6, <2>7 DEF HttpInv, MayEnd
<1>2. CASE queue.closed
    BY <1>2 DEF Http!Emit, Http!MayPush, HttpInv, MayEnd, Sent
<1> QED  BY <1>1, <1>2 DEF HttpInv

LEMMA HttpNext ==
    ASSUME NEW streaming \in BOOLEAN, NEW reconnect \in BOOLEAN, NEW dropEmpty \in BOOLEAN,
           HttpInv(streaming, reconnect), Http(streaming, reconnect, dropEmpty)!Next
    PROVE  HttpInv(streaming, reconnect)'
<1>1. CASE Http(streaming, reconnect, dropEmpty)!Read
    BY <1>1 DEF Http!Read, HttpInv, MayEnd, Sent
<1>2. CASE Http(streaming, reconnect, dropEmpty)!Permit
    BY <1>2 DEF Http!Permit, HttpInv, MayEnd, Sent
<1>3. CASE Http(streaming, reconnect, dropEmpty)!RequestFails
    BY <1>3 DEF Http!RequestFails, Http!AfterFailure, HttpInv, MayEnd, Sent
<1>4. CASE Http(streaming, reconnect, dropEmpty)!Sleep
    BY <1>4 DEF Http!Sleep, HttpInv, MayEnd, Sent
<1>5. CASE Http(streaming, reconnect, dropEmpty)!StreamPermit
    BY <1>5 DEF Http!StreamPermit, HttpInv, MayEnd, Sent
<1>6. CASE Http(streaming, reconnect, dropEmpty)!BodyEnds
    BY <1>6 DEF Http!BodyEnds, HttpInv, MayEnd, Sent
<1>7. CASE Http(streaming, reconnect, dropEmpty)!Over
    BY <1>7 DEF Http!Over, HttpInv, MayEnd, Sent
<1>8. CASE Http(streaming, reconnect, dropEmpty)!Out
    BY <1>8 DEF Http!Out, Http!ReleaseReader, Http!Shut, HttpInv, MayEnd, Sent
<1>9. CASE Http(streaming, reconnect, dropEmpty)!Abort
    <2>1. /\ aborted' = TRUE /\ UNCHANGED <<reader, loop, framed, sent, got>>
          /\ \/ streaming /\ queue' = [items |-> <<>>, closed |-> TRUE]
             \/ ~streaming /\ UNCHANGED queue
        BY <1>9 DEF Http!Abort, Http!Shut
    <2>2. queue' \in [items : Seq(Nat), closed : BOOLEAN]
        <3>1. <<>> \in Seq(Nat)
            OBVIOUS
        <3>2. CASE streaming
            <4>1. queue' = [items |-> <<>>, closed |-> TRUE]
                BY <2>1, <3>2
            <4> QED  BY <3>1, <4>1
        <3>3. CASE ~streaming
            BY <2>1, <3>3 DEF HttpInv
        <3> QED  BY <3>2, <3>3
    <2>3. CASE streaming
        BY <2>1, <2>2, <2>3 DEF HttpInv, MayEnd, Sent
    <2>4. CASE ~streaming
        BY <2>1, <2>2, <2>4 DEF HttpInv, MayEnd, Sent
    <2> QED  BY <2>3, <2>4
<1>10. CASE Http(streaming, reconnect, dropEmpty)!Close
    BY <1>10 DEF Http!Close, Http!Shut, HttpInv, MayEnd, Sent
<1>11. CASE Http(streaming, reconnect, dropEmpty)!Closed
    BY <1>11 DEF Http!Closed, HttpInv, MayEnd, Sent
<1> QED  BY <1>1, <1>2, <1>3, <1>4, <1>5, <1>6, <1>7, <1>8, <1>9, <1>10, <1>11,
            HttpAnswered, HttpPop, HttpChunk, HttpEmit DEF Http!Next, Http!Reader, Http!Loop
\* A poll is the configuration without a stream, `stream` reconnects, `once` does not.
LEMMA PollInv ==
    /\ C!Init => HttpInv(FALSE, FALSE)
    /\ HttpInv(FALSE, FALSE) /\ [C!Next]_(C!vars) => HttpInv(FALSE, FALSE)'
    /\ HttpInv(FALSE, FALSE) => C!EndsOnlyWhenTold
<1>1. ASSUME C!Init PROVE HttpInv(FALSE, FALSE)
    <2>1. Http(FALSE, FALSE, TRUE)!Init
        BY <1>1 DEF C!Init, C!Open, Http!Init, Http!Open
    <2> QED  BY <2>1, HttpInit
<1>2. ASSUME HttpInv(FALSE, FALSE), C!Next PROVE HttpInv(FALSE, FALSE)'
    <2>1. Http(FALSE, FALSE, TRUE)!Next
        BY <1>2
           DEF C!Next, Http!Next, C!Reader, Http!Reader, C!Read, Http!Read, C!Permit, Http!Permit,
               C!Answered, Http!Answered, C!RequestFails, Http!RequestFails, C!AfterFailure,
               Http!AfterFailure, C!Sleep, Http!Sleep, C!Pop, Http!Pop, C!StreamPermit,
               Http!StreamPermit, C!Chunk, Http!Chunk, C!Emit, Http!Emit, C!BodyEnds,
               Http!BodyEnds, C!Over, Http!Over, C!ReleaseReader, Http!ReleaseReader, C!Out,
               Http!Out, C!Abort, Http!Abort, C!Close, Http!Close, C!Closed, Http!Closed, C!Loop,
               Http!Loop, C!MayPush, Http!MayPush, C!Pushed, Http!Pushed, C!MayPop, Http!MayPop,
               C!First, Http!First, C!Popped, Http!Popped, C!Shut, Http!Shut, C!Capacity,
               Http!Capacity
    <2> QED  BY <1>2, <2>1, HttpNext
<1>3. ASSUME HttpInv(FALSE, FALSE), UNCHANGED C!vars PROVE HttpInv(FALSE, FALSE)'
    BY <1>3 DEF C!vars, HttpInv, MayEnd, Sent
<1>4. ASSUME HttpInv(FALSE, FALSE) PROVE C!EndsOnlyWhenTold
    BY <1>4 DEF HttpInv, MayEnd, Sent, C!EndsOnlyWhenTold
<1> QED  BY <1>1, <1>2, <1>3, <1>4

LEMMA StreamedInv ==
    /\ D!Init => HttpInv(TRUE, TRUE)
    /\ HttpInv(TRUE, TRUE) /\ [D!Next]_(D!vars) => HttpInv(TRUE, TRUE)'
    /\ HttpInv(TRUE, TRUE) => D!EndsOnlyWhenTold
<1>1. ASSUME D!Init PROVE HttpInv(TRUE, TRUE)
    <2>1. Http(TRUE, TRUE, TRUE)!Init
        BY <1>1 DEF D!Init, D!Open, Http!Init, Http!Open
    <2> QED  BY <2>1, HttpInit
<1>2. ASSUME HttpInv(TRUE, TRUE), D!Next PROVE HttpInv(TRUE, TRUE)'
    <2>1. Http(TRUE, TRUE, TRUE)!Next
        BY <1>2
           DEF D!Next, Http!Next, D!Reader, Http!Reader, D!Read, Http!Read, D!Permit, Http!Permit,
               D!Answered, Http!Answered, D!RequestFails, Http!RequestFails, D!AfterFailure,
               Http!AfterFailure, D!Sleep, Http!Sleep, D!Pop, Http!Pop, D!StreamPermit,
               Http!StreamPermit, D!Chunk, Http!Chunk, D!Emit, Http!Emit, D!BodyEnds,
               Http!BodyEnds, D!Over, Http!Over, D!ReleaseReader, Http!ReleaseReader, D!Out,
               Http!Out, D!Abort, Http!Abort, D!Close, Http!Close, D!Closed, Http!Closed, D!Loop,
               Http!Loop, D!MayPush, Http!MayPush, D!Pushed, Http!Pushed, D!MayPop, Http!MayPop,
               D!First, Http!First, D!Popped, Http!Popped, D!Shut, Http!Shut, D!Capacity,
               Http!Capacity
    <2> QED  BY <1>2, <2>1, HttpNext
<1>3. ASSUME HttpInv(TRUE, TRUE), UNCHANGED D!vars PROVE HttpInv(TRUE, TRUE)'
    BY <1>3 DEF D!vars, HttpInv, MayEnd, Sent
<1>4. ASSUME HttpInv(TRUE, TRUE) PROVE D!EndsOnlyWhenTold
    BY <1>4 DEF HttpInv, MayEnd, Sent, D!EndsOnlyWhenTold
<1> QED  BY <1>1, <1>2, <1>3, <1>4

LEMMA StreamedOnceInv ==
    /\ E!Init => HttpInv(TRUE, FALSE)
    /\ HttpInv(TRUE, FALSE) /\ [E!Next]_(E!vars) => HttpInv(TRUE, FALSE)'
    /\ HttpInv(TRUE, FALSE) => E!EndsOnlyWhenTold
<1>1. ASSUME E!Init PROVE HttpInv(TRUE, FALSE)
    <2>1. Http(TRUE, FALSE, FALSE)!Init
        BY <1>1 DEF E!Init, E!Open, Http!Init, Http!Open
    <2> QED  BY <2>1, HttpInit
<1>2. ASSUME HttpInv(TRUE, FALSE), E!Next PROVE HttpInv(TRUE, FALSE)'
    <2>1. Http(TRUE, FALSE, FALSE)!Next
        BY <1>2
           DEF E!Next, Http!Next, E!Reader, Http!Reader, E!Read, Http!Read, E!Permit, Http!Permit,
               E!Answered, Http!Answered, E!RequestFails, Http!RequestFails, E!AfterFailure,
               Http!AfterFailure, E!Sleep, Http!Sleep, E!Pop, Http!Pop, E!StreamPermit,
               Http!StreamPermit, E!Chunk, Http!Chunk, E!Emit, Http!Emit, E!BodyEnds,
               Http!BodyEnds, E!Over, Http!Over, E!ReleaseReader, Http!ReleaseReader, E!Out,
               Http!Out, E!Abort, Http!Abort, E!Close, Http!Close, E!Closed, Http!Closed, E!Loop,
               Http!Loop, E!MayPush, Http!MayPush, E!Pushed, Http!Pushed, E!MayPop, Http!MayPop,
               E!First, Http!First, E!Popped, Http!Popped, E!Shut, Http!Shut, E!Capacity,
               Http!Capacity
    <2> QED  BY <1>2, <2>1, HttpNext
<1>3. ASSUME HttpInv(TRUE, FALSE), UNCHANGED E!vars PROVE HttpInv(TRUE, FALSE)'
    BY <1>3 DEF E!vars, HttpInv, MayEnd, Sent
<1>4. ASSUME HttpInv(TRUE, FALSE) PROVE E!EndsOnlyWhenTold
    BY <1>4 DEF HttpInv, MayEnd, Sent, E!EndsOnlyWhenTold
<1> QED  BY <1>1, <1>2, <1>3, <1>4

-----------------------------------------------------------------------------
(* SocketInput                                                               *)

\* What a peer has sent and the scanner handed over, in order.
Handed(n) == [i \in 1 .. n |-> i]

\* The server: the framed messages of a connection are with the stream, in the
\* rendezvous or ready, in this order, until the rendezvous is closed, and its fiber
\* leaves nothing ready behind.
ServerInv ==
    /\ conn \in [Conns -> {"away", "next", "push", "closed"}]
    /\ framed \in [Conns -> Nat] /\ eof \in [Conns -> BOOLEAN]
    /\ ready \in [Conns -> Seq(Nat)] /\ got \in [Conns -> Seq(Nat)]
    /\ queue \in [items : {<<>>} \cup {<<x>> : x \in Conns \X Nat}, closed : BOOLEAN]
    /\ \A c \in Conns :
        /\ ~queue.closed => got[c] \o S!Queued(c) \o ready[c] = Handed(framed[c])
        /\ eof[c] => framed[c] = Total[c]
        /\ conn[c] = "closed" /\ ~queue.closed => ready[c] = <<>>
        /\ conn[c] = "push" => ready[c] # <<>>

\* Lists of one message, and of none.
LEMMA OneMore ==
    ASSUME NEW Items, NEW s \in Seq(Items), NEW x \in Items
    PROVE  s \o <<x>> = Append(s, x) /\ s \o <<>> = s /\ Append(s, x) \in Seq(Items)
    OBVIOUS

\* The rendezvous holds one message of one connection, or nothing.
LEMMA QueuedIs ==
    ASSUME ServerInv, NEW c \in Conns
    PROVE  /\ queue.items = <<>> => S!Queued(c) = <<>>
           /\ \A x \in Conns \X Nat :
                queue.items = <<x>> => S!Queued(c) = IF x[1] = c THEN <<x[2]>> ELSE <<>>
           /\ S!Queued(c) \in Seq(Nat)
           /\ queue.items = <<>> \/ \E x \in Conns \X Nat : queue.items = <<x>>
<1>1. queue.items = <<>> \/ \E x \in Conns \X Nat : queue.items = <<x>>
    BY DEF ServerInv
<1>2. queue.items = <<>> => S!Queued(c) = <<>>
    BY DEF S!Queued
<1>3. ASSUME NEW x \in Conns \X Nat, queue.items = <<x>>
      PROVE  S!Queued(c) = IF x[1] = c THEN <<x[2]>> ELSE <<>>
    <2>1. <<x>> # <<>> /\ Head(<<x>>) = x
        OBVIOUS
    <2> QED  BY <1>3, <2>1 DEF S!Queued, S!First
<1>4. S!Queued(c) \in Seq(Nat)
    <2>1. CASE queue.items = <<>>
        BY <1>2, <2>1
    <2>2. ASSUME NEW x \in Conns \X Nat, queue.items = <<x>> PROVE S!Queued(c) \in Seq(Nat)
        <3>1. \A m \in Nat : <<m>> \in Seq(Nat)
            OBVIOUS
        <3>2. <<x[2]>> \in Seq(Nat)
            BY <3>1
        <3>3. <<>> \in Seq(Nat)
            OBVIOUS
        <3>4. S!Queued(c) = <<x[2]>> \/ S!Queued(c) = <<>>
            BY <1>3, <2>2
        <3> QED  BY <3>2, <3>3, <3>4
    <2> QED  BY <1>1, <2>1, <2>2
<1> QED  BY <1>1, <1>2, <1>3, <1>4

LEMMA ServerInit ==
    ASSUME S!SocketAssumption, S!Init
    PROVE  ServerInv
<1>1. /\ conn = [c \in Conns |-> "away"] /\ framed = [c \in Conns |-> 0]
      /\ ready = [c \in Conns |-> <<>>] /\ eof = [c \in Conns |-> FALSE]
      /\ got = [c \in Conns |-> <<>>] /\ queue = [items |-> <<>>, closed |-> FALSE]
    BY DEF S!Init, S!Open
<1>2. \A c \in Conns : S!Queued(c) = <<>>
    BY <1>1 DEF S!Queued
<1>3. <<>> \o <<>> \o <<>> = Handed(0)
    BY DEF Handed
<1> QED  BY <1>1, <1>2, <1>3 DEF ServerInv

\* A chunk, or the end of the connection: the messages it completes come next.
LEMMA ServerArrives ==
    ASSUME S!SocketAssumption, ServerInv, NEW c \in Conns, S!Arrives(c)
    PROVE  ServerInv'
<1>1. PICK n \in 0 .. 2 :
        /\ conn[c] = "next" /\ ready[c] = <<>> /\ ~eof[c]
        /\ ready' = [ready EXCEPT ![c] = [i \in 1 .. n |-> framed[c] + i]]
        /\ framed' = [framed EXCEPT ![c] = framed[c] + n]
        /\ \/ UNCHANGED eof
           \/ framed[c] + n = Total[c] /\ eof' = [eof EXCEPT ![c] = TRUE]
        /\ UNCHANGED <<conn, queue, got>>
    BY DEF S!Arrives, S!Numbered
<1> DEFINE new == [i \in 1 .. n |-> framed[c] + i]
           before == got[c] \o S!Queued(c)
<1>2. framed[c] \in Nat /\ n \in Nat /\ framed[c] + n \in Nat /\ got[c] \in Seq(Nat)
    BY DEF ServerInv
<1>3. new \in Seq(Nat)
    BY <1>2
<1>4. before \in Seq(Nat) /\ before \o <<>> = before
    BY <1>2, QueuedIs
<1>5. /\ ready' \in [Conns -> Seq(Nat)] /\ framed' \in [Conns -> Nat] /\ eof' \in [Conns -> BOOLEAN]
      /\ ready'[c] = new /\ framed'[c] = framed[c] + n
      /\ \A x \in Conns : x # c => ready'[x] = ready[x] /\ framed'[x] = framed[x] /\ eof'[x] = eof[x]
    <2> HIDE DEF new
    <2> QED  BY <1>1, <1>2, <1>3 DEF ServerInv, new
<1>6. before = Handed(framed[c]) => before \o new = Handed(framed[c] + n)
    <2> SUFFICES ASSUME before = Handed(framed[c]) PROVE before \o new = Handed(framed[c] + n)
        OBVIOUS
    <2> DEFINE k == framed[c]
    <2>1. before = [i \in 1 .. k |-> i] /\ new = [i \in 1 .. n |-> k + i]
        BY DEF Handed
    <2>2. k \in Nat
        BY <1>2
    <2> HIDE DEF new, before, k
    <2>3. before \o new = [i \in 1 .. k + n |-> i]
        BY <1>2, <1>3, <1>4, <2>1, <2>2, Counted
    <2> QED  BY <2>3 DEF Handed, k
<1> HIDE DEF new
<1>7. \A x \in Conns : S!Queued(x)' = S!Queued(x)
    BY <1>1 DEF S!Queued, S!First
<1>8. ~queue.closed => (got[c] \o S!Queued(c) \o ready[c] = Handed(framed[c]))'
    BY <1>1, <1>4, <1>5, <1>6, <1>7 DEF ServerInv
<1>9. eof'[c] => framed'[c] = Total[c]
    BY <1>1, <1>5
<1> QED  BY <1>1, <1>5, <1>7, <1>8, <1>9 DEF ServerInv

\* The fiber of a connection goes on, or ends: nothing moves.
LEMMA ServerServes ==
    ASSUME ServerInv, NEW c \in Conns, S!Accept(c) \/ S!Serve(c) \/ S!Breaks(c)
    PROVE  ServerInv'
<1>1. /\ UNCHANGED <<framed, ready, eof, queue, got>>
      /\ \/ conn[c] = "away" /\ conn' = [conn EXCEPT ![c] = "next"]
         \/ ready[c] = <<>> /\ conn' = [conn EXCEPT ![c] = "closed"]
         \/ ready[c] # <<>> /\ conn' = [conn EXCEPT ![c] = "push"]
    BY DEF S!Accept, S!Serve, S!Breaks, S!Move, S!Drained
<1>2. \A x \in Conns : S!Queued(x)' = S!Queued(x)
    BY <1>1 DEF S!Queued, S!First
<1>3. conn' \in [Conns -> {"away", "next", "push", "closed"}]
    BY <1>1 DEF ServerInv
<1>4. /\ conn'[c] = "closed" => ready[c] = <<>>
      /\ conn'[c] = "push" => ready[c] # <<>>
      /\ \A x \in Conns : x # c => conn'[x] = conn[x]
    BY <1>1 DEF ServerInv
<1> QED  BY <1>1, <1>2, <1>3, <1>4 DEF ServerInv

\* The fiber of a connection offers its next message.
LEMMA ServerOffers ==
    ASSUME ServerInv, NEW c \in Conns, S!Offer(c)
    PROVE  ServerInv'
<1> DEFINE h == Head(ready[c])
<1>1. /\ conn[c] = "push" /\ ready' = [ready EXCEPT ![c] = Tail(ready[c])]
      /\ UNCHANGED <<framed, eof, got>> /\ queue'.closed = queue.closed
      /\ \/ /\ queue.items = <<>> /\ queue' = [items |-> <<<<c, h>>>>, closed |-> queue.closed]
            /\ conn' = [conn EXCEPT ![c] = "next"]
         \/ queue.closed /\ conn' = [conn EXCEPT ![c] = "closed"] /\ UNCHANGED queue
    <2>1. queue.items = <<>> \/ \E x \in Conns \X Nat : queue.items = <<x>>
        BY QueuedIs
    <2>2. \A x : Len(<<x>>) = 1 /\ Append(<<>>, x) = <<x>>
        OBVIOUS
    <2>3. S!MayPush(queue) => queue.items = <<>>
        BY <2>1, <2>2 DEF S!MayPush, S!Capacity
    <2>4. ASSUME S!MayPush(queue)
          PROVE  S!Pushed(queue, <<c, h>>) = [items |-> <<<<c, h>>>>, closed |-> queue.closed]
        <3>1. queue = [items |-> <<>>, closed |-> queue.closed]
            BY <2>3, <2>4 DEF ServerInv
        <3>2. S!Pushed(queue, <<c, h>>) = [queue EXCEPT !.items = Append(queue.items, <<c, h>>)]
            BY DEF S!Pushed
        <3>3. S!Pushed(queue, <<c, h>>) = [queue EXCEPT !.items = <<<<c, h>>>>]
            BY <2>2, <2>3, <2>4, <3>2
        <3> QED  BY <3>1, <3>3 DEF ServerInv
    <2>5. CASE S!MayPush(queue) /\ queue' = S!Pushed(queue, <<c, h>>) /\ S!Move(c, "next")
        BY <2>3, <2>4, <2>5 DEF S!Offer, S!Move
    <2>6. CASE queue.closed /\ S!Move(c, "closed") /\ UNCHANGED queue
        BY <2>6 DEF S!Offer, S!Move
    <2> QED  BY <2>5, <2>6 DEF S!Offer
<1>2. /\ ready[c] # <<>> /\ ready[c] \in Seq(Nat) /\ h \in Nat /\ Tail(ready[c]) \in Seq(Nat)
      /\ got[c] \in Seq(Nat) /\ Append(got[c], h) \o Tail(ready[c]) = got[c] \o ready[c]
    <2>1. ready[c] # <<>> /\ ready[c] \in Seq(Nat) /\ got[c] \in Seq(Nat)
        BY <1>1 DEF ServerInv
    <2> QED  BY <2>1, Moved
<1> HIDE DEF h
<1>3. /\ ready' \in [Conns -> Seq(Nat)] /\ ready'[c] = Tail(ready[c])
      /\ \A x \in Conns : x # c => ready'[x] = ready[x]
    BY <1>1, <1>2 DEF ServerInv
<1>4. /\ conn' \in [Conns -> {"away", "next", "push", "closed"}]
      /\ conn'[c] \in {"next", "closed"} /\ (conn'[c] = "closed" => queue.closed)
      /\ \A x \in Conns : x # c => conn'[x] = conn[x]
    BY <1>1 DEF ServerInv
<1>5. CASE queue.closed
    <2>1. queue' \in [items : {<<>>} \cup {<<x>> : x \in Conns \X Nat}, closed : BOOLEAN]
        BY <1>1, <1>2 DEF ServerInv
    <2> QED  BY <1>1, <1>3, <1>4, <1>5, <2>1 DEF ServerInv
<1>6. CASE ~queue.closed
    <2>1. queue.items = <<>> /\ queue' = [items |-> <<<<c, h>>>>, closed |-> FALSE] /\ <<c, h>> \in Conns \X Nat
        BY <1>1, <1>2, <1>6 DEF ServerInv
    <2>2. queue'.items = <<<<c, h>>>> /\ <<<<c, h>>>> # <<>> /\ Head(<<<<c, h>>>>) = <<c, h>>
        BY <2>1
    <2>3. \A x \in Conns : S!Queued(x) = <<>> /\ S!Queued(x)' = IF x = c THEN <<h>> ELSE <<>>
        BY <2>1, <2>2, QueuedIs DEF S!Queued, S!First
    <2>4. got[c] \o <<h>> \o Tail(ready[c]) = got[c] \o <<>> \o ready[c]
        BY <1>2, OneMore
    <2>5. \A x \in Conns : (got[x] \o S!Queued(x) \o ready[x])' = got[x] \o S!Queued(x) \o ready[x]
        BY <1>1, <1>3, <2>3, <2>4
    <2> QED  BY <1>1, <1>3, <1>4, <1>6, <2>1, <2>2, <2>5 DEF ServerInv
<1> QED  BY <1>5, <1>6

\* The stream reads: it waits, or takes what the rendezvous holds.
LEMMA ServerReads ==
    ASSUME ServerInv, S!Read \/ S!Pop
    PROVE  ServerInv'
<1>1. CASE UNCHANGED <<queue, got>>
    <2>1. UNCHANGED <<conn, framed, ready, eof>>
        BY DEF S!Read, S!Pop, S!connVars
    <2> QED  BY <1>1, <2>1 DEF ServerInv, S!Queued, S!First
<1>2. CASE ~UNCHANGED <<queue, got>>
    <2>1. /\ S!MayPop(queue) /\ S!Hand(S!First(queue)[1], S!First(queue)[2]) /\ queue' = S!Popped(queue)
          /\ UNCHANGED <<conn, framed, ready, eof>>
        BY <1>2 DEF S!Read, S!Pop, S!connVars
    <2>2. PICK x \in Conns \X Nat : queue.items = <<x>>
        BY <2>1 DEF S!MayPop, ServerInv
    <2>3. PICK c \in Conns, m \in Nat : c = x[1] /\ m = x[2]
        OBVIOUS
    <2>4. /\ got' = [got EXCEPT ![c] = Append(got[c], m)]
          /\ queue' = [items |-> <<>>, closed |-> queue.closed]
        <3>1. Head(<<x>>) = x /\ Tail(<<x>>) = <<>>
            OBVIOUS
        <3> QED  BY <2>1, <2>2, <2>3, <3>1 DEF S!Hand, S!First, S!Popped, ServerInv
    <2>5. /\ got[c] \in Seq(Nat) /\ ready[c] \in Seq(Nat) /\ Append(got[c], m) \in Seq(Nat)
          /\ got[c] \o <<m>> = Append(got[c], m) /\ Append(got[c], m) \o <<>> = Append(got[c], m)
        <3>1. got[c] \in Seq(Nat) /\ ready[c] \in Seq(Nat)
            BY DEF ServerInv
        <3> QED  BY <3>1, OneMore
    <2>6. /\ got' \in [Conns -> Seq(Nat)] /\ got'[c] = Append(got[c], m)
          /\ \A y \in Conns : y # c => got'[y] = got[y]
        BY <2>4, <2>5 DEF ServerInv
    <2>7. \A y \in Conns : S!Queued(y) = (IF y = c THEN <<m>> ELSE <<>>) /\ S!Queued(y)' = <<>>
        <3>1. queue'.items = <<>>
            BY <2>4
        <3>2. \A y \in Conns : S!Queued(y)' = <<>>
            BY <3>1 DEF S!Queued
        <3> QED  BY <2>2, <2>3, <3>2, QueuedIs
    <2>8. \A y \in Conns : (got[y] \o S!Queued(y) \o ready[y])' = got[y] \o S!Queued(y) \o ready[y]
        BY <2>1, <2>5, <2>6, <2>7
    <2>9. queue' \in [items : {<<>>} \cup {<<y>> : y \in Conns \X Nat}, closed : BOOLEAN]
          /\ queue'.closed = queue.closed
        BY <2>4 DEF ServerInv
    <2> QED  BY <2>1, <2>6, <2>8, <2>9 DEF ServerInv
<1> QED  BY <1>1, <1>2

\* The server is shut, which closes the rendezvous.
LEMMA ServerShuts ==
    ASSUME ServerInv, S!Abort \/ S!Close \/ S!Closed \/ UNCHANGED S!vars
    PROVE  ServerInv'
<1>1. /\ UNCHANGED <<conn, framed, ready, eof, got>>
      /\ UNCHANGED queue \/ queue' = [items |-> <<>>, closed |-> TRUE]
    BY DEF S!Abort, S!Close, S!Closed, S!StopAccepting, S!Shut, S!vars, S!connVars
<1>2. CASE UNCHANGED queue
    BY <1>1, <1>2 DEF ServerInv, S!Queued, S!First
<1>3. CASE queue' = [items |-> <<>>, closed |-> TRUE]
    BY <1>1, <1>3 DEF ServerInv
<1> QED  BY <1>1, <1>2, <1>3

LEMMA ServerNext ==
    ASSUME S!SocketAssumption, ServerInv, [S!Next]_(S!vars)
    PROVE  ServerInv'
<1>1. CASE \E c \in Conns : S!ReadDirect(c) \/ S!NextDirect(c)
    BY <1>1 DEF S!ReadDirect, S!NextDirect
<1> QED  BY <1>1, ServerArrives, ServerServes, ServerOffers, ServerReads, ServerShuts
         DEF S!Next, S!Reader, S!Fiber

LEMMA ServerSound ==
    ASSUME ServerInv
    PROVE  S!NothingLostInOrder
    BY DEF ServerInv, S!NothingLostInOrder, Handed

\* The client, which uses no rendezvous: what its connection has framed is with the
\* stream or ready, and it ends by itself only when a read broke or nothing is left.
DialledInv ==
    /\ conn \in [{Peer} -> {"idle", "next", "broken"}]
    /\ framed \in [{Peer} -> Nat] /\ eof \in [{Peer} -> BOOLEAN]
    /\ ready \in [{Peer} -> Seq(Nat)] /\ got \in [{Peer} -> Seq(Nat)]
    /\ queue = [items |-> <<>>, closed |-> FALSE] /\ reader \in {"idle", "next", "ended"}
    /\ got[Peer] \o ready[Peer] = Handed(framed[Peer])
    /\ eof[Peer] => framed[Peer] = Total[Peer]
    /\ conn[Peer] = "broken" => ~eof[Peer]
    /\ reader = "idle" => conn[Peer] = "idle"
    /\ reader = "ended" /\ ~aborted => conn[Peer] # "next" /\ (eof[Peer] => ready[Peer] = <<>>)

LEMMA DialledInit ==
    ASSUME T!Init
    PROVE  DialledInv
<1>1. <<>> \o <<>> = Handed(0)
    BY DEF Handed
<1> QED  BY <1>1 DEF T!Init, T!Open, DialledInv

LEMMA DialledArrives ==
    ASSUME DialledInv, T!Arrives(Peer)
    PROVE  DialledInv'
<1>1. PICK n \in 0 .. 2 :
        /\ conn[Peer] = "next" /\ ready[Peer] = <<>> /\ ~eof[Peer]
        /\ ready' = [ready EXCEPT ![Peer] = [i \in 1 .. n |-> framed[Peer] + i]]
        /\ framed' = [framed EXCEPT ![Peer] = framed[Peer] + n]
        /\ \/ UNCHANGED eof
           \/ framed[Peer] + n = Total[Peer] /\ eof' = [eof EXCEPT ![Peer] = TRUE]
        /\ UNCHANGED <<conn, queue, got, reader, aborted>>
    BY DEF T!Arrives, T!Numbered
<1> DEFINE new == [i \in 1 .. n |-> framed[Peer] + i]
<1>2. framed[Peer] \in Nat /\ n \in Nat /\ framed[Peer] + n \in Nat /\ got[Peer] \in Seq(Nat)
    BY DEF DialledInv
<1>3. new \in Seq(Nat)
    BY <1>2
<1>4. got[Peer] = Handed(framed[Peer])
    <2>1. got[Peer] \o <<>> = got[Peer]
        BY <1>2
    <2> QED  BY <1>1, <2>1 DEF DialledInv
<1>5. got[Peer] \o new = Handed(framed[Peer] + n)
    <2> DEFINE before == got[Peer]
               k == framed[Peer]
    <2>1. before = [i \in 1 .. k |-> i] /\ new = [i \in 1 .. n |-> k + i]
        BY <1>4 DEF Handed
    <2>2. before \in Seq(Nat) /\ k \in Nat
        BY <1>2
    <2> HIDE DEF new, before, k
    <2>3. before \o new = [i \in 1 .. k + n |-> i]
        BY <1>2, <1>3, <2>1, <2>2, Counted
    <2>4. before \o new = Handed(framed[Peer] + n)
        BY <2>3 DEF Handed, k
    <2> QED  BY <2>4 DEF before
<1>6. /\ ready' \in [{Peer} -> Seq(Nat)] /\ framed' \in [{Peer} -> Nat]
      /\ eof' \in [{Peer} -> BOOLEAN]
      /\ ready'[Peer] = new /\ framed'[Peer] = framed[Peer] + n
      /\ eof'[Peer] => framed[Peer] + n = Total[Peer]
    <2> HIDE DEF new
    <2> QED  BY <1>1, <1>2, <1>3 DEF DialledInv, new
<1> HIDE DEF new
<1> QED  BY <1>1, <1>5, <1>6 DEF DialledInv

\* read_batch() of socket: it hands out the first message that is ready.
LEMMA DialledReads ==
    ASSUME DialledInv, T!NextDirect(Peer)
    PROVE  DialledInv'
<1>1. CASE UNCHANGED <<got, ready>>
    BY <1>1 DEF T!NextDirect, T!Move, T!Drained, T!Hand, DialledInv
<1>2. CASE ~UNCHANGED <<got, ready>>
    <2>1. /\ ready[Peer] # <<>> /\ reader' = "idle" /\ conn' = [conn EXCEPT ![Peer] = "idle"]
          /\ got' = [got EXCEPT ![Peer] = Append(got[Peer], Head(ready[Peer]))]
          /\ ready' = [ready EXCEPT ![Peer] = Tail(ready[Peer])]
          /\ UNCHANGED <<framed, eof, queue, aborted>>
        BY <1>2 DEF T!NextDirect, T!Move, T!Hand
    <2>2. got[Peer] \in Seq(Nat) /\ ready[Peer] \in Seq(Nat)
        BY DEF DialledInv
    <2>3. /\ Tail(ready[Peer]) \in Seq(Nat) /\ Append(got[Peer], Head(ready[Peer])) \in Seq(Nat)
          /\ Append(got[Peer], Head(ready[Peer])) \o Tail(ready[Peer])
                = got[Peer] \o ready[Peer]
        BY <2>1, <2>2, Moved
    <2>4. /\ got' \in [{Peer} -> Seq(Nat)] /\ ready' \in [{Peer} -> Seq(Nat)]
          /\ got'[Peer] = Append(got[Peer], Head(ready[Peer]))
          /\ ready'[Peer] = Tail(ready[Peer]) /\ conn'[Peer] = "idle"
          /\ conn' \in [{Peer} -> {"idle", "next", "broken"}]
        BY <2>1, <2>3 DEF DialledInv
    <2> QED  BY <2>1, <2>3, <2>4 DEF DialledInv
<1> QED  BY <1>1, <1>2

LEMMA DialledNext ==
    ASSUME DialledInv, [T!Next]_(T!vars)
    PROVE  DialledInv'
<1>1. CASE T!Breaks(Peer)
    BY <1>1 DEF T!Breaks, T!Move, DialledInv
<1>2. CASE T!ReadDirect(Peer)
    BY <1>2 DEF T!ReadDirect, T!Move, DialledInv
<1>3. CASE T!Abort
    BY <1>3 DEF T!Abort, T!connVars, DialledInv
<1>4. CASE T!Close \/ T!Closed \/ UNCHANGED T!vars
    BY <1>4 DEF T!Close, T!Closed, T!StopAccepting, T!vars, T!connVars, DialledInv
<1>5. ~T!Read /\ ~T!Pop /\ ~T!Accept(Peer) /\ ~T!Fiber(Peer)
    BY DEF T!Read, T!Pop, T!Accept, T!Fiber, T!Serve, T!Offer, DialledInv
<1> QED  BY <1>1, <1>2, <1>3, <1>4, <1>5, DialledArrives, DialledReads DEF T!Next, T!Reader

LEMMA DialledSound ==
    ASSUME DialledInv
    PROVE  T!NothingLostInOrder
<1>1. T!Queued(Peer) = <<>>
    BY DEF T!Queued, DialledInv
<1>2. got[Peer] \in Seq(Nat) /\ got[Peer] \o <<>> = got[Peer]
    BY DEF DialledInv
<1>3. reader = "ended" /\ ~aborted /\ eof[Peer] => got[Peer] = Handed(Total[Peer])
    BY <1>2 DEF DialledInv
<1> QED  BY <1>1, <1>2, <1>3 DEF DialledInv, T!NothingLostInOrder, Handed

-----------------------------------------------------------------------------
(* SequenceInput                                                             *)

LEMMA SequenceCounts ==
    ASSUME NEW Items
    PROVE  Q!Cardinality(Items) = Cardinality(Items)
    BY DEF Q!Cardinality, Cardinality

Made == [of : Nat, n : Nat, whole : BOOLEAN]

LengthOf(c) == Len(Ends[c])

Elements(s) == {s[i] : i \in 1 .. Len(s)}

\* Messages one after the other, in the order of their sources.
InLine(s) == \A i, j \in 1 .. Len(s) : i < j => Q!Before(s[i], s[j])

\* A message is of a source before c, or one of the first k of c.
Until(m, c, k) == m.of < c \/ (m.of = c /\ m.n <= k)

\* The scanners have made a message.
Handled(m) == Until(m, at, cut)

SequenceTypes ==
    /\ pc \in {"connect", "idle", "read", "blocked", "exhausted", "over", "closed"}
    /\ at \in 1 .. Len(Kinds) + 1 /\ half \in Nat /\ cut \in Nat
    /\ eof \in BOOLEAN /\ aborted \in BOOLEAN /\ failed \in BOOLEAN
    /\ out \in Seq(Made) /\ ready \in Seq(Made)
    /\ child \in [Q!Sources -> {"new", "open", "closed"}]

\* How far the scanner of the source at hand is, and that an end is its end.
SequenceCuts ==
    at <= Len(Kinds) =>
        /\ cut <= LengthOf(at)
        /\ Kinds[at] # "generate" /\ ~eof => half <= Q!Size(at) /\ Q!EndedBy(at, half) = 1 .. cut
        /\ eof /\ ~aborted => cut = LengthOf(at)
        /\ pc = "exhausted" => ready = <<>> /\ (~aborted => cut = LengthOf(at))

\* What was handed out, and what is ready after it, are in order, and all there is
\* of what was made unless a drain left some out.
SequenceOrder ==
    /\ InLine(out \o ready)
    /\ \A m \in Elements(out \o ready) : Handled(m)
    /\ ~aborted => Elements(out \o ready) = {m \in Q!Messages : Handled(m)}
    /\ pc \notin {"over", "closed"} => at <= Len(Kinds)
    /\ pc \in {"over", "closed"} /\ ~aborted /\ ~failed => at = Len(Kinds) + 1 /\ ready = <<>>

\* The sources before the one at hand are closed, and those after it never opened.
SequenceChildren ==
    /\ \A c \in Q!Sources : c < at => child[c] = "closed"
    /\ pc # "closed" => \A c \in Q!Sources : c > at => child[c] = "new"
    /\ pc = "closed" => \A c \in Q!Sources : child[c] = "closed"

SequenceInv == SequenceTypes /\ SequenceCuts /\ SequenceOrder /\ SequenceChildren

\* Numbers that come with all that are smaller are the first ones.
LEMMA Downward ==
    ASSUME NEW n \in Nat, NEW Items \in SUBSET (1 .. n), \A m \in Items : \A k \in 1 .. m : k \in Items
    PROVE  Items = 1 .. Cardinality(Items) /\ Cardinality(Items) \in 0 .. n
<1> DEFINE Gaps == {k \in Nat : k + 1 \notin Items}
<1>1. n \in Gaps
    OBVIOUS
<1> DEFINE Less == OpToRel(<, Nat)
<1>2. \E p \in Gaps : \A k \in Gaps : ~(<<k, p>> \in Less)
    <2> HIDE DEF Less, Gaps
    <2>1. Gaps \subseteq Nat
        BY DEF Gaps
    <2>2. IsWellFoundedOn(Less, Nat)
        BY Zenon, NatLessThanWellFounded DEF Less
    <2> QED  BY <1>1, <2>1, <2>2, WFMin
<1>3. PICK p \in Gaps : \A k \in Gaps : ~(k < p)
    <2>1. ASSUME NEW k \in Nat, NEW p \in Nat, <<k, p>> \notin Less PROVE ~(k < p)
        <3>1. <<k, p>> \in Nat \X Nat
            OBVIOUS
        <3> QED  BY Zenon, <2>1, <3>1 DEF OpToRel
    <2> HIDE DEF Less
    <2> QED  BY <1>2, <2>1
<1> HIDE DEF Less
<1>4. p \in Nat /\ p + 1 \notin Items /\ p <= n
    BY <1>1, <1>3
<1>5. ASSUME NEW m \in 1 .. p PROVE m \in Items
    <2>1. m - 1 \in Nat /\ m - 1 < p /\ (m - 1) + 1 = m
        BY <1>4
    <2> QED  BY <1>3, <2>1
<1>6. ASSUME NEW m \in Items PROVE m \in 1 .. p
    <2>1. CASE m > p
        <3>1. p + 1 \in 1 .. m
            BY <1>4, <2>1
        <3> QED  BY <1>4, <3>1
    <2> QED  BY <1>4, <2>1
<1>7. Items = 1 .. p
    BY <1>5, <1>6
<1>8. Cardinality(1 .. p) = p
    BY <1>4, FS_Interval
<1> QED  BY <1>4, <1>7, <1>8

\* A source, its messages and where they end.
LEMMA CutFacts ==
    ASSUME Q!SequenceAssumption
    PROVE  /\ Q!Sources = 1 .. Len(Kinds) /\ Len(Kinds) \in Nat \ {0}
           /\ \A c \in Q!Sources :
                /\ LengthOf(c) \in Nat /\ DOMAIN Ends[c] = 1 .. LengthOf(c)
                /\ \A k \in 0 .. LengthOf(c) : Q!Upto(c, k) \in Nat /\ (k > 0 => Q!Upto(c, k) > 0)
                /\ \A k, m \in 0 .. LengthOf(c) : k < m => Q!Upto(c, k) < Q!Upto(c, m)
                /\ Q!Size(c) = Q!Upto(c, LengthOf(c)) /\ Q!Upto(c, 0) = 0
<1>1. Q!Sources = 1 .. Len(Kinds) /\ Len(Kinds) \in Nat \ {0}
    BY DEF Q!SequenceAssumption, Q!Sources
<1>2. ASSUME NEW c \in Q!Sources
      PROVE  /\ LengthOf(c) \in Nat /\ DOMAIN Ends[c] = 1 .. LengthOf(c)
             /\ \A k \in 1 .. LengthOf(c) : Ends[c][k] \in Nat \ {0}
             /\ \A k, m \in 1 .. LengthOf(c) : k < m => Ends[c][k] < Ends[c][m]
    <2>1. c \in DOMAIN Ends
        BY DEF Q!SequenceAssumption, Q!Sources
    <2>2. Ends[c] \in Seq(Nat \ {0}) /\ \A k, m \in DOMAIN Ends[c] : k < m => Ends[c][k] < Ends[c][m]
        BY <2>1 DEF Q!SequenceAssumption
    <2>3. LengthOf(c) \in Nat /\ DOMAIN Ends[c] = 1 .. LengthOf(c)
        BY <2>2 DEF LengthOf
    <2>4. \A k \in 1 .. LengthOf(c) : Ends[c][k] \in Nat \ {0}
        BY <2>2, <2>3
    <2> QED  BY <2>2, <2>3, <2>4
<1>3. ASSUME NEW c \in Q!Sources
      PROVE  /\ \A k \in 0 .. LengthOf(c) : Q!Upto(c, k) \in Nat /\ (k > 0 => Q!Upto(c, k) > 0)
             /\ Q!Upto(c, 0) = 0
             /\ \A k \in 1 .. LengthOf(c) : Q!Upto(c, k) = Ends[c][k]
    BY <1>2 DEF Q!Upto
<1>4. ASSUME NEW c \in Q!Sources, NEW k \in 0 .. LengthOf(c), NEW m \in 0 .. LengthOf(c), k < m
      PROVE  Q!Upto(c, k) < Q!Upto(c, m)
    <2>1. m > 0 /\ m \in 1 .. LengthOf(c) /\ LengthOf(c) \in Nat
        BY <1>2, <1>4
    <2>2. CASE k = 0
        BY <1>3, <2>1, <2>2
    <2>3. CASE k # 0
        <3>1. k \in 1 .. LengthOf(c)
            BY <2>1, <2>3
        <3> QED  BY <1>2, <1>3, <1>4, <2>1, <3>1
    <2> QED  BY <2>2, <2>3
<1>5. \A c \in Q!Sources : Q!Size(c) = Q!Upto(c, LengthOf(c))
    BY DEF Q!Size, LengthOf
<1> QED  BY <1>1, <1>2, <1>3, <1>4, <1>5

\* The messages that end within the first bytes of a source are its first ones; all
\* of it makes all but the last.
LEMMA EndedFacts ==
    ASSUME Q!SequenceAssumption, NEW c \in Q!Sources, NEW h \in Nat
    PROVE  /\ Q!EndedBy(c, h) = 1 .. Cardinality(Q!EndedBy(c, h))
           /\ Cardinality(Q!EndedBy(c, h)) \in 0 .. LengthOf(c)
           /\ LengthOf(c) > 0 => Cardinality(Q!EndedBy(c, h)) < LengthOf(c)
           /\ \A g \in Nat : g <= h => Q!EndedBy(c, g) \subseteq Q!EndedBy(c, h)
           /\ Q!EndedBy(c, 0) = {}
           /\ h = Q!Size(c) => Q!EndedBy(c, h) = 1 .. LengthOf(c) - 1
<1> DEFINE L == LengthOf(c)
<1>1. /\ L \in Nat
      /\ \A k \in 0 .. L : Q!Upto(c, k) \in Nat /\ (k > 0 => Q!Upto(c, k) > 0)
      /\ \A k, m \in 0 .. L : k < m => Q!Upto(c, k) < Q!Upto(c, m)
      /\ Q!Size(c) = Q!Upto(c, L)
    BY CutFacts
<1>2. Q!EndedBy(c, h) = {m \in 1 .. L - 1 : Q!Upto(c, m) <= h}
    BY DEF Q!EndedBy, LengthOf
<1>3. ASSUME NEW m \in Q!EndedBy(c, h), NEW k \in 1 .. m PROVE k \in Q!EndedBy(c, h)
    <2>1. /\ m \in 1 .. L - 1 /\ k \in 1 .. L - 1 /\ m \in 0 .. L /\ k \in 0 .. L
          /\ k < m \/ k = m
        BY <1>1, <1>2
    <2>2. Q!Upto(c, k) <= Q!Upto(c, m) /\ Q!Upto(c, m) <= h
        BY <1>1, <1>2, <2>1
    <2>3. Q!Upto(c, k) <= h
        BY <1>1, <2>1, <2>2
    <2> QED  BY <1>2, <2>1, <2>3
<1>4. \A n \in Nat : Q!EndedBy(c, h) \subseteq 1 .. n =>
            Q!EndedBy(c, h) = 1 .. Cardinality(Q!EndedBy(c, h))
            /\ Cardinality(Q!EndedBy(c, h)) \in 0 .. n
    BY <1>3, Downward
<1>5. Q!EndedBy(c, h) = 1 .. Cardinality(Q!EndedBy(c, h)) /\ Cardinality(Q!EndedBy(c, h)) \in 0 .. L
    <2>1. Q!EndedBy(c, h) \subseteq 1 .. L
        BY <1>1, <1>2
    <2> QED  BY <1>1, <1>4, <2>1
<1>6. ASSUME L > 0 PROVE Cardinality(Q!EndedBy(c, h)) < L
    <2>1. Q!EndedBy(c, h) \subseteq 1 .. L - 1 /\ L - 1 \in Nat
        BY <1>1, <1>2, <1>6
    <2> QED  BY <1>1, <1>4, <2>1
<1>7. ASSUME NEW g \in Nat, g <= h PROVE Q!EndedBy(c, g) \subseteq Q!EndedBy(c, h)
    <2>1. Q!EndedBy(c, g) = {m \in 1 .. L - 1 : Q!Upto(c, m) <= g}
        BY DEF Q!EndedBy, LengthOf
    <2>2. \A m \in 1 .. L - 1 : m \in 0 .. L
        BY <1>1
    <2> QED  BY <1>1, <1>2, <1>7, <2>1, <2>2
<1>8. Q!EndedBy(c, 0) = {}
    <2>1. Q!EndedBy(c, 0) = {m \in 1 .. L - 1 : Q!Upto(c, m) <= 0}
        BY DEF Q!EndedBy, LengthOf
    <2>2. \A m \in 1 .. L - 1 : m \in 0 .. L /\ m > 0
        BY <1>1
    <2> QED  BY <1>1, <2>1, <2>2
<1>9. ASSUME h = Q!Size(c) PROVE Q!EndedBy(c, h) = 1 .. L - 1
    <2>1. \A m \in 1 .. L - 1 : m \in 0 .. L /\ m < L /\ L \in 0 .. L
        BY <1>1
    <2>2. \A m \in 1 .. L - 1 : Q!Upto(c, m) <= h
        BY <1>1, <1>9, <2>1
    <2> QED  BY <1>2, <2>2
<1> QED  BY <1>5, <1>6, <1>7, <1>8, <1>9

\* Messages in line before others in line.
LEMMA InLineJoined ==
    ASSUME NEW s \in Seq(Made), NEW t \in Seq(Made)
    PROVE  /\ s \o t \in Seq(Made) /\ Elements(s \o t) = Elements(s) \cup Elements(t)
           /\ InLine(s) /\ InLine(t) /\ (\A x \in Elements(s), y \in Elements(t) : Q!Before(x, y))
                => InLine(s \o t)
<1> DEFINE u == s \o t
<1>1. /\ u \in Seq(Made) /\ Len(u) = Len(s) + Len(t) /\ Len(s) \in Nat /\ Len(t) \in Nat
      /\ \A i \in 1 .. Len(s) : u[i] = s[i]
      /\ \A i \in 1 .. Len(t) : u[Len(s) + i] = t[i]
    BY Joined
<1> HIDE DEF u
<1>2. \A i \in 1 .. Len(u) : \/ i \in 1 .. Len(s) /\ u[i] = s[i]
                             \/ i - Len(s) \in 1 .. Len(t) /\ i > Len(s) /\ u[i] = t[i - Len(s)]
    <2> SUFFICES ASSUME NEW i \in 1 .. Len(u), i > Len(s)
                 PROVE  i - Len(s) \in 1 .. Len(t) /\ u[i] = t[i - Len(s)]
        BY <1>1
    <2>1. i - Len(s) \in 1 .. Len(t) /\ Len(s) + (i - Len(s)) = i
        BY <1>1
    <2> QED  BY <1>1, <2>1
<1>3. Elements(u) = Elements(s) \cup Elements(t)
    <2>1. Elements(u) \subseteq Elements(s) \cup Elements(t)
        BY <1>2 DEF Elements
    <2>2. Elements(s) \subseteq Elements(u)
        BY <1>1 DEF Elements
    <2>3. \A i \in 1 .. Len(t) : Len(s) + i \in 1 .. Len(u)
        BY <1>1
    <2>4. Elements(t) \subseteq Elements(u)
        BY <1>1, <2>3 DEF Elements
    <2> QED  BY <2>1, <2>2, <2>4
<1>4. ASSUME InLine(s), InLine(t), \A x \in Elements(s), y \in Elements(t) : Q!Before(x, y)
      PROVE  InLine(u)
    <2> SUFFICES ASSUME NEW i \in 1 .. Len(u), NEW j \in 1 .. Len(u), i < j
                 PROVE  Q!Before(u[i], u[j])
        BY DEF InLine
    <2>1. CASE i \in 1 .. Len(s) /\ j \in 1 .. Len(s)
        BY <1>1, <1>4, <2>1 DEF InLine
    <2>2. CASE i \in 1 .. Len(s) /\ j \notin 1 .. Len(s)
        BY <1>2, <1>4, <2>2 DEF Elements
    <2>3. CASE i \notin 1 .. Len(s)
        <3>1. j \notin 1 .. Len(s)
            BY <1>1, <2>3
        <3>2. /\ i - Len(s) \in 1 .. Len(t) /\ u[i] = t[i - Len(s)]
              /\ j - Len(s) \in 1 .. Len(t) /\ u[j] = t[j - Len(s)]
            BY <1>2, <2>3, <3>1
        <3>3. i - Len(s) < j - Len(s)
            BY <1>1
        <3> QED  BY <1>4, <3>2, <3>3 DEF InLine
    <2> QED  BY <2>1, <2>2, <2>3
<1> QED  BY <1>1, <1>3, <1>4 DEF u

\* The first messages of what is ready, handed out, leave the line as it was.
LEMMA Served ==
    ASSUME NEW s \in Seq(Made), NEW t \in Seq(Made), NEW n \in 0 .. Len(t)
    PROVE  /\ s \o SubSeq(t, 1, n) \in Seq(Made) /\ SubSeq(t, n + 1, Len(t)) \in Seq(Made)
           /\ s \o SubSeq(t, 1, n) \o SubSeq(t, n + 1, Len(t)) = s \o t
<1> DEFINE a == SubSeq(t, 1, n)  b == SubSeq(t, n + 1, Len(t))
<1>1. a \in Seq(Made) /\ b \in Seq(Made)
    OBVIOUS
<1>2. a \o b = t
    <2>1. SubSeq(t, 1, Len(t)) = t
        OBVIOUS
    <2>2. 1 \in 1 .. Len(t) + 1 /\ n \in 1 - 1 .. Len(t) /\ Len(t) \in n .. Len(t)
        OBVIOUS
    <2> QED  BY <2>1, <2>2, ConcatAdjacentSubSeq
<1>3. s \o a \in Seq(Made) /\ (s \o a) \o b = s \o (a \o b)
    <2> HIDE DEF a, b
    <2> QED  BY <1>1
<1> QED  BY <1>1, <1>2, <1>3

LEMMA ElementsMade ==
    ASSUME NEW s \in Seq(Made), NEW x \in Elements(s)
    PROVE  x \in Made /\ x.of \in Nat /\ x.n \in Nat
<1>1. PICK i \in 1 .. Len(s) : x = s[i]
    BY DEF Elements
<1>2. s[i] \in Made
    OBVIOUS
<1> QED  BY <1>1, <1>2 DEF Made

\* The next messages of a source come after all that were made before.
LEMMA NextInLine ==
    ASSUME Q!SequenceAssumption, NEW c \in Q!Sources, NEW k \in Nat, NEW n \in Nat,
           k <= n, n <= LengthOf(c),
           NEW s \in Seq(Made), NEW r \in Seq(Made), Len(r) = n - k,
           InLine(s), \A m \in Elements(s) : Until(m, c, k),
           \A m \in 1 .. n - k : r[m].of = c /\ r[m].n = k + m
    PROVE  /\ InLine(s \o r) /\ \A m \in Elements(s \o r) : Until(m, c, n)
           /\ (/\ Elements(s) = {m \in Q!Messages : Until(m, c, k)}
               /\ \A m \in 1 .. n - k : r[m] = Q!Whole(c, k + m))
                => Elements(s \o r) = {m \in Q!Messages : Until(m, c, n)}
<1>1. c \in Nat /\ DOMAIN Ends[c] = 1 .. LengthOf(c) /\ LengthOf(c) \in Nat
    BY CutFacts
<1>2. Len(r) \in Nat /\ \A m \in 1 .. Len(r) : r[m].of = c /\ r[m].n = k + m
    OBVIOUS
<1>3. InLine(r)
    BY <1>2 DEF InLine, Q!Before
<1>4. ASSUME NEW x \in Elements(r)
      PROVE  \E m \in 1 .. n - k : x = r[m] /\ x.of = c /\ x.n = k + m
    BY <1>2 DEF Elements
<1>5. ASSUME NEW x \in Elements(s), NEW y \in Elements(r) PROVE Q!Before(x, y)
    <2>1. PICK m \in 1 .. n - k : y.of = c /\ y.n = k + m
        BY <1>4
    <2>2. x.n \in Nat
        BY ElementsMade
    <2> QED  BY <1>1, <2>1, <2>2 DEF Until, Q!Before
<1>6. InLine(s \o r) /\ Elements(s \o r) = Elements(s) \cup Elements(r)
    <2>1. s \in Seq(Made) /\ r \in Seq(Made) /\ InLine(s)
        OBVIOUS
    <2>2. \A x \in Elements(s), y \in Elements(r) : Q!Before(x, y)
        BY <1>5
    <2> QED  BY ONLY <1>3, <2>1, <2>2, InLineJoined
<1>7. ASSUME NEW x \in Elements(r) PROVE Until(x, c, n)
    BY <1>4 DEF Until
<1>8. ASSUME NEW x \in Elements(s) PROVE Until(x, c, n)
    <2>1. x.n \in Nat
        BY ElementsMade
    <2> QED  BY <2>1 DEF Until
<1>9. ASSUME /\ Elements(s) = {m \in Q!Messages : Until(m, c, k)}
             /\ \A m \in 1 .. n - k : r[m] = Q!Whole(c, k + m)
      PROVE  Elements(s \o r) = {m \in Q!Messages : Until(m, c, n)}
    <2>1. ASSUME NEW x \in Q!Messages
          PROVE  x.of \in Q!Sources /\ x.n \in DOMAIN Ends[x.of] /\ x = Q!Whole(x.of, x.n)
        BY DEF Q!Messages, Q!Whole
    <2>2. ASSUME NEW m \in 1 .. LengthOf(c) PROVE Q!Whole(c, m) \in Q!Messages
        <3>1. Q!Whole(c, m) \in {Q!Whole(c, j) : j \in DOMAIN Ends[c]}
            BY <1>1
        <3> QED  BY <3>1 DEF Q!Messages
    <2>3. ASSUME NEW x \in Elements(r) PROVE x \in Q!Messages
        <3>1. PICK m \in 1 .. n - k : x = r[m]
            BY <1>4
        <3>2. k + m \in 1 .. LengthOf(c)
            BY <1>1
        <3>3. x = Q!Whole(c, k + m)
            BY <1>9, <3>1
        <3> QED  BY <2>2, <3>2, <3>3
    <2>4. ASSUME NEW x \in Q!Messages, Until(x, c, n) PROVE x \in Elements(s) \cup Elements(r)
        <3>1. CASE x.of = c /\ ~(x.n <= k)
            <4>1. x.n \in 1 .. LengthOf(c) /\ x.n <= n
                BY <1>1, <2>1, <2>4, <3>1 DEF Until
            <4>2. x.n - k \in 1 .. n - k /\ k + (x.n - k) = x.n
                BY <1>1, <3>1, <4>1
            <4>3. r[x.n - k] = x
                BY <1>9, <2>1, <3>1, <4>2
            <4> QED  BY <1>2, <4>2, <4>3 DEF Elements
        <3>2. CASE ~(x.of = c /\ ~(x.n <= k))
            BY <1>9, <2>4, <3>2 DEF Until
        <3> QED  BY <3>1, <3>2
    <2> QED  BY <1>6, <1>7, <1>8, <1>9, <2>3, <2>4
<1> QED  BY <1>6, <1>7, <1>8, <1>9

LEMMA SequenceInit ==
    ASSUME Q!SequenceAssumption, Q!Init
    PROVE  SequenceInv
<1>1. /\ pc = "connect" /\ at = 1 /\ child = [c \in Q!Sources |-> "new"]
      /\ half = 0 /\ cut = 0 /\ ready = <<>> /\ eof = FALSE
      /\ aborted = FALSE /\ failed = FALSE /\ out = <<>>
    BY DEF Q!Init
<1>2. /\ 1 \in Q!Sources /\ Len(Kinds) \in Nat \ {0} /\ LengthOf(1) \in Nat
      /\ Q!Size(1) >= 0 /\ Q!Sources = 1 .. Len(Kinds)
    BY CutFacts
<1>3. SequenceTypes
    <2>1. out \in Seq(Made) /\ ready \in Seq(Made)
        BY <1>1
    <2>2. child \in [Q!Sources -> {"new", "open", "closed"}]
        BY <1>1
    <2>3. at \in 1 .. Len(Kinds) + 1 /\ half \in Nat /\ cut \in Nat
        BY <1>1, <1>2
    <2> QED  BY <1>1, <2>1, <2>2, <2>3 DEF SequenceTypes
<1>4. SequenceCuts
    <2>1. Q!EndedBy(1, 0) = 1 .. 0
        BY <1>2, EndedFacts
    <2> QED  BY <1>1, <1>2, <2>1 DEF SequenceCuts
<1>5. SequenceOrder
    <2>1. out \o ready = <<>>
        BY <1>1
    <2>2. InLine(out \o ready) /\ Elements(out \o ready) = {}
        BY <2>1 DEF InLine, Elements
    <2>3. ASSUME NEW m \in Q!Messages PROVE ~Handled(m)
        <3>1. m.of \in Q!Sources /\ m.n \in DOMAIN Ends[m.of]
            BY DEF Q!Messages, Q!Whole
        <3>2. m.of \in Nat \ {0} /\ m.n \in Nat \ {0}
            BY <3>1, CutFacts
        <3> QED  BY <1>1, <3>2 DEF Handled, Until
    <2> QED  BY <1>1, <1>2, <2>2, <2>3 DEF SequenceOrder
<1>6. SequenceChildren
    BY <1>1, <1>2 DEF SequenceChildren
<1> QED  BY <1>3, <1>4, <1>5, <1>6 DEF SequenceInv

\* What neither reads nor hands out.
LEMMA SequenceStays ==
    ASSUME SequenceInv, UNCHANGED <<at, cut, ready, out>>, aborted => aborted'
    PROVE  /\ InLine(out \o ready)' /\ \A m \in Elements(out \o ready)' : Handled(m)'
           /\ ~aborted' => Elements(out \o ready)' = {m \in Q!Messages : Handled(m)'}
<1>1. /\ InLine(out \o ready)' <=> InLine(out \o ready)
      /\ Elements(out \o ready)' = Elements(out \o ready)
      /\ \A m : Handled(m)' <=> Handled(m)
    BY DEF InLine, Elements, Handled
<1> QED  BY <1>1 DEF SequenceInv, SequenceOrder

\* The fiber moves on from source to source, and stops at an exception or a drain.
LEMMA SequenceFiber ==
    ASSUME Q!SequenceAssumption, SequenceInv,
           Q!Connect \/ Q!ConnectFails \/ Q!ReadFails \/ Q!Close \/ Q!Call \/ Q!AtEof \/ Q!Generated
           \/ Q!Block \/ Q!Abort \/ UNCHANGED Q!vars
    PROVE  SequenceInv'
<1>1. UNCHANGED <<at, half, cut, ready, eof, out>> /\ (aborted => aborted') /\ (failed => failed')
    BY DEF Q!Connect, Q!ConnectFails, Q!ReadFails, Q!Fails, Q!Close, Q!Call, Q!AtEof, Q!Generated,
           Q!Block, Q!Abort, Q!vars
<1>2. /\ InLine(out \o ready)' /\ \A m \in Elements(out \o ready)' : Handled(m)'
      /\ ~aborted' => Elements(out \o ready)' = {m \in Q!Messages : Handled(m)'}
    BY <1>1, SequenceStays
<1>3. /\ aborted \in BOOLEAN /\ failed \in BOOLEAN
      /\ pc \in {"connect", "idle", "read", "blocked", "exhausted", "over", "closed"}
      /\ at \in Nat /\ Len(Kinds) \in Nat /\ at \in 1 .. Len(Kinds) + 1
    BY CutFacts DEF SequenceInv, SequenceTypes
<1>4. CASE Q!Connect
    <2>1. /\ pc = "connect" /\ child' = [child EXCEPT ![at] = "open"] /\ pc' \in {"idle", "read"}
          /\ UNCHANGED <<aborted, failed>>
        BY <1>4 DEF Q!Connect
    <2>2. SequenceTypes'
        BY <1>1, <2>1 DEF SequenceInv, SequenceTypes
    <2>3. SequenceCuts'
        BY <1>1, <2>1 DEF SequenceInv, SequenceCuts
    <2>4. SequenceOrder'
        BY <1>1, <1>2, <2>1 DEF SequenceInv, SequenceOrder
    <2>5. SequenceChildren'
        BY <1>1, <1>3, <2>1 DEF SequenceInv, SequenceChildren, SequenceTypes
    <2> QED  BY <2>2, <2>3, <2>4, <2>5 DEF SequenceInv
<1>5. CASE Q!Close
    <2>1. /\ pc = "over" /\ pc' = "closed" /\ UNCHANGED <<aborted, failed>>
          /\ child' = [c \in Q!Sources |-> IF c >= at THEN "closed" ELSE child[c]]
        BY <1>5 DEF Q!Close
    <2>2. SequenceTypes'
        BY <1>1, <2>1 DEF SequenceInv, SequenceTypes
    <2>3. SequenceCuts'
        BY <1>1, <2>1 DEF SequenceInv, SequenceCuts
    <2>4. SequenceOrder'
        BY <1>1, <1>2, <2>1 DEF SequenceInv, SequenceOrder
    <2>5. SequenceChildren'
        <3>1. \A c \in Q!Sources : c \in Nat /\ (c >= at \/ c < at)
            BY <1>3, CutFacts
        <3> QED  BY <1>1, <1>3, <2>1, <3>1 DEF SequenceInv, SequenceChildren
    <2> QED  BY <2>2, <2>3, <2>4, <2>5 DEF SequenceInv
<1>6. CASE Q!AtEof \/ Q!Generated
    <2>1. /\ pc = "read" /\ pc' = "exhausted" /\ ready = <<>> /\ UNCHANGED <<child, aborted, failed>>
        BY <1>6 DEF Q!AtEof, Q!Generated, Q!Scanned
    <2>2. at <= Len(Kinds) /\ ~aborted => cut = LengthOf(at)
        BY <1>6 DEF Q!AtEof, Q!Generated, SequenceInv, SequenceCuts, LengthOf
    <2>3. SequenceTypes'
        BY <1>1, <2>1 DEF SequenceInv, SequenceTypes
    <2>4. SequenceCuts'
        BY <1>1, <2>1, <2>2 DEF SequenceInv, SequenceCuts
    <2>5. SequenceOrder'
        BY <1>1, <1>2, <2>1 DEF SequenceInv, SequenceOrder
    <2>6. SequenceChildren'
        BY <1>1, <2>1 DEF SequenceInv, SequenceChildren
    <2> QED  BY <2>3, <2>4, <2>5, <2>6 DEF SequenceInv
<1>7. CASE Q!ConnectFails \/ Q!ReadFails \/ Q!Call \/ Q!Block \/ Q!Abort \/ UNCHANGED Q!vars
    <2>1. /\ UNCHANGED child /\ aborted' \in BOOLEAN /\ failed' \in BOOLEAN
          /\ \/ pc' = "over" /\ pc \in {"connect", "read", "idle"} /\ (failed' \/ aborted')
             \/ pc' = "read" /\ pc = "idle" /\ UNCHANGED failed
             \/ pc' = "blocked" /\ pc = "read" /\ UNCHANGED failed
             \/ UNCHANGED <<pc, failed>>
        BY <1>3, <1>7 DEF Q!ConnectFails, Q!ReadFails, Q!Fails, Q!Call, Q!Block, Q!Scanned,
                        Q!Abort, Q!vars
    <2>2. SequenceTypes'
        BY <1>1, <2>1 DEF SequenceInv, SequenceTypes
    <2>3. SequenceCuts'
        BY <1>1, <2>1 DEF SequenceInv, SequenceCuts
    <2>4. SequenceOrder'
        BY <1>1, <1>2, <2>1 DEF SequenceInv, SequenceOrder
    <2>5. SequenceChildren'
        BY <1>1, <2>1 DEF SequenceInv, SequenceChildren
    <2> QED  BY <2>2, <2>3, <2>4, <2>5 DEF SequenceInv
<1> QED  BY <1>4, <1>5, <1>6, <1>7

\* The next source takes over when all of the one before was handed out.
LEMMA SequenceExhausted ==
    ASSUME Q!SequenceAssumption, SequenceInv, Q!Exhausted
    PROVE  SequenceInv'
<1>1. /\ pc = "exhausted" /\ at' = at + 1 /\ child' = [child EXCEPT ![at] = "closed"]
      /\ pc' = (IF at < Len(Kinds) THEN "connect" ELSE "over")
      /\ half' = 0 /\ cut' = 0 /\ ready' = <<>> /\ eof' = FALSE /\ UNCHANGED <<aborted, failed, out>>
    BY DEF Q!Exhausted
<1>2. /\ at \in 1 .. Len(Kinds) /\ at \in Nat /\ Len(Kinds) \in Nat /\ at \in Q!Sources
      /\ Q!Sources = 1 .. Len(Kinds)
    <2>1. at \in 1 .. Len(Kinds) + 1 /\ at <= Len(Kinds)
        BY <1>1 DEF SequenceInv, SequenceTypes, SequenceOrder
    <2>2. Q!Sources = 1 .. Len(Kinds) /\ Len(Kinds) \in Nat
        BY CutFacts
    <2> QED  BY <2>1, <2>2
<1>3. ready = <<>> /\ (~aborted => cut = LengthOf(at)) /\ cut \in Nat
    BY <1>1, <1>2 DEF SequenceInv, SequenceCuts, SequenceTypes
<1>4. SequenceTypes'
    <2>1. <<>> \in Seq(Made) /\ at + 1 \in 1 .. Len(Kinds) + 1
        BY <1>2
    <2>2. child' \in [Q!Sources -> {"new", "open", "closed"}]
        BY <1>1 DEF SequenceInv, SequenceTypes
    <2> QED  BY <1>1, <2>1, <2>2 DEF SequenceInv, SequenceTypes
<1>5. SequenceCuts'
    <2> SUFFICES ASSUME at + 1 <= Len(Kinds)
                 PROVE  /\ 0 <= LengthOf(at + 1) /\ 0 <= Q!Size(at + 1)
                        /\ Q!EndedBy(at + 1, 0) = 1 .. 0
        BY <1>1 DEF SequenceCuts
    <2>1. at + 1 \in Q!Sources
        BY <1>2
    <2>2. LengthOf(at + 1) \in Nat /\ Q!Size(at + 1) \in Nat
        BY <2>1, CutFacts
    <2>3. Q!EndedBy(at + 1, 0) = {}
        BY <2>1, EndedFacts
    <2> QED  BY <2>2, <2>3
<1>6. SequenceOrder'
    <2>1. out' = out /\ ready' = ready
        BY <1>1, <1>3
    <2>2. /\ InLine(out \o ready)' <=> InLine(out \o ready)
          /\ Elements(out \o ready)' = Elements(out \o ready)
        BY <2>1 DEF InLine, Elements
    <2>3. \A m : Handled(m)' <=> m.of < at + 1 \/ (m.of = at + 1 /\ m.n <= 0)
        BY <1>1 DEF Handled, Until
    <2>4. ASSUME NEW m \in Elements(out \o ready), Handled(m) PROVE Handled(m)'
        <3>1. out \o ready \in Seq(Made)
            BY <1>3 DEF SequenceInv, SequenceTypes
        <3>2. m.of \in Nat
            BY <3>1, ElementsMade
        <3> QED  BY <1>2, <2>3, <2>4, <3>2 DEF Handled, Until
    <2>5. ASSUME ~aborted, NEW m \in Q!Messages PROVE Handled(m)' <=> Handled(m)
        <3>1. m.of \in Q!Sources /\ m.n \in DOMAIN Ends[m.of]
            BY DEF Q!Messages, Q!Whole
        <3>2. m.of \in Nat /\ m.n \in Nat \ {0} /\ m.n <= LengthOf(m.of)
            BY <3>1, CutFacts
        <3> QED  BY <1>2, <1>3, <2>3, <2>5, <3>2 DEF Handled, Until
    <2>6. pc' \in {"over", "closed"} => at' = Len(Kinds) + 1
        BY <1>1, <1>2
    <2>7. pc' \notin {"over", "closed"} => at' <= Len(Kinds)
        BY <1>1, <1>2
    <2> QED  BY <1>1, <2>2, <2>4, <2>5, <2>6, <2>7 DEF SequenceInv, SequenceOrder
<1>7. SequenceChildren'
    <2>1. pc' # "closed" /\ pc # "closed"
        BY <1>1
    <2>2. ASSUME NEW c \in Q!Sources
          PROVE  /\ c < at + 1 => c < at \/ c = at
                 /\ c > at + 1 => c > at /\ c # at
        BY <1>2
    <2>3. child \in [Q!Sources -> {"new", "open", "closed"}]
        BY DEF SequenceInv, SequenceTypes
    <2> QED  BY <1>1, <1>2, <2>1, <2>2, <2>3 DEF SequenceInv, SequenceChildren
<1> QED  BY <1>4, <1>5, <1>6, <1>7 DEF SequenceInv

\* Messages that were made, and what that says of the source at hand.
LEMMA SequenceMade ==
    ASSUME Q!SequenceAssumption, SequenceInv, pc \in {"read", "blocked"}, pc' = "read",
           ready = <<>>, UNCHANGED <<at, child, aborted, failed, out>>,
           half' \in Nat, eof' \in BOOLEAN, cut' \in Nat, cut <= cut', cut' <= LengthOf(at),
           NEW r \in Seq(Made), ready' = r, Len(r) = cut' - cut,
           \A m \in 1 .. cut' - cut : r[m].of = at /\ r[m].n = cut + m,
           ~aborted => \A m \in 1 .. cut' - cut : r[m] = Q!Whole(at, cut + m),
           Kinds[at] # "generate" /\ ~eof' => half' <= Q!Size(at) /\ Q!EndedBy(at, half') = 1 .. cut',
           eof' /\ ~aborted => cut' = LengthOf(at)
    PROVE  SequenceInv'
<1>1. /\ at <= Len(Kinds) /\ at \in Q!Sources /\ at \in Nat /\ Len(Kinds) \in Nat
      /\ out \in Seq(Made) /\ cut \in Nat /\ out \o ready = out
    BY CutFacts DEF SequenceInv, SequenceTypes, SequenceOrder
<1>2. InLine(out) /\ \A m \in Elements(out) : Until(m, at, cut)
    BY <1>1 DEF SequenceInv, SequenceOrder, Handled
<1>3. ~aborted => Elements(out) = {m \in Q!Messages : Until(m, at, cut)}
    BY <1>1 DEF SequenceInv, SequenceOrder, Handled
<1> DEFINE n == cut'
<1>4. n \in Nat /\ cut <= n /\ n <= LengthOf(at) /\ Len(r) = n - cut
      /\ \A m \in 1 .. n - cut : r[m].of = at /\ r[m].n = cut + m
    OBVIOUS
<1>5. /\ InLine(out \o r) /\ \A m \in Elements(out \o r) : Until(m, at, n)
      /\ ~aborted => Elements(out \o r) = {m \in Q!Messages : Until(m, at, n)}
    <2> HIDE DEF n
    <2>1. /\ InLine(out \o r) /\ \A m \in Elements(out \o r) : Until(m, at, n)
          /\ (/\ Elements(out) = {m \in Q!Messages : Until(m, at, cut)}
              /\ \A m \in 1 .. n - cut : r[m] = Q!Whole(at, cut + m))
               => Elements(out \o r) = {m \in Q!Messages : Until(m, at, n)}
        BY <1>1, <1>2, <1>4, NextInLine
    <2>2. ~aborted => \A m \in 1 .. n - cut : r[m] = Q!Whole(at, cut + m)
        BY DEF n
    <2> QED  BY <1>3, <2>1, <2>2
<1>6. /\ InLine(out \o ready)' <=> InLine(out \o r)
      /\ Elements(out \o ready)' = Elements(out \o r)
      /\ \A m : Handled(m)' <=> Until(m, at, n)
    BY DEF InLine, Elements, Handled, Until
<1>7. SequenceOrder'
    <2> HIDE DEF n
    <2> QED  BY <1>1, <1>5, <1>6 DEF SequenceInv, SequenceOrder
<1>8. SequenceTypes'
    BY DEF SequenceInv, SequenceTypes
<1>9. SequenceCuts'
    BY DEF SequenceInv, SequenceCuts
<1>10. SequenceChildren'
    BY DEF SequenceInv, SequenceChildren
<1> QED  BY <1>7, <1>8, <1>9, <1>10 DEF SequenceInv

LEMMA SequenceServe ==
    ASSUME Q!SequenceAssumption, SequenceInv, Q!Serve
    PROVE  SequenceInv'
<1> DEFINE n == IF Len(ready) < BatchSize THEN Len(ready) ELSE BatchSize
<1>1. /\ pc = "read" /\ pc' = "idle" /\ ready # <<>>
      /\ out' = out \o SubSeq(ready, 1, n) /\ ready' = SubSeq(ready, n + 1, Len(ready))
      /\ UNCHANGED <<at, child, half, cut, eof, aborted, failed>>
    BY DEF Q!Serve
<1>2. out \in Seq(Made) /\ ready \in Seq(Made) /\ n \in 0 .. Len(ready)
    <2>1. BatchSize \in Nat /\ Len(ready) \in Nat
        BY DEF Q!SequenceAssumption, SequenceInv, SequenceTypes
    <2> QED  BY <2>1 DEF SequenceInv, SequenceTypes
<1> HIDE DEF n
<1>3. out' \in Seq(Made) /\ ready' \in Seq(Made) /\ out' \o ready' = out \o ready
    BY <1>1, <1>2, Served
<1>4. /\ InLine(out \o ready)' <=> InLine(out \o ready)
      /\ Elements(out \o ready)' = Elements(out \o ready)
      /\ \A m : Handled(m)' <=> Handled(m)
    BY <1>1, <1>3 DEF InLine, Elements, Handled
<1>5. SequenceTypes'
    BY <1>1, <1>3 DEF SequenceInv, SequenceTypes
<1>6. SequenceCuts'
    BY <1>1 DEF SequenceInv, SequenceCuts
<1>7. SequenceOrder'
    BY <1>1, <1>4 DEF SequenceInv, SequenceOrder
<1>8. SequenceChildren'
    BY <1>1 DEF SequenceInv, SequenceChildren
<1> QED  BY <1>5, <1>6, <1>7, <1>8 DEF SequenceInv

LEMMA SequenceChunk ==
    ASSUME Q!SequenceAssumption, SequenceInv, Q!Chunk
    PROVE  SequenceInv'
<1>1. /\ pc \in {"read", "blocked"} /\ pc' = "read" /\ Kinds[at] # "generate"
      /\ ready = <<>> /\ ~eof /\ UNCHANGED <<at, child, eof, aborted, failed, out>>
    BY DEF Q!Chunk, Q!Returns
<1>2. PICK n \in 1 .. MaxChunk :
        /\ half + n <= Q!Size(at) /\ half' = half + n
        /\ cut' = Q!Cardinality(Q!EndedBy(at, half + n))
        /\ ready' = [m \in 1 .. cut' - cut |-> Q!Whole(at, cut + m)]
    BY DEF Q!Chunk
<1>3. /\ at \in Q!Sources /\ at \in Nat /\ half \in Nat /\ cut \in Nat /\ at <= Len(Kinds)
      /\ eof \in BOOLEAN
    BY <1>1, CutFacts DEF SequenceInv, SequenceTypes, SequenceOrder
<1>4. half + n \in Nat /\ half <= half + n
    BY <1>3 DEF Q!SequenceAssumption
<1>5. cut' = Cardinality(Q!EndedBy(at, half + n))
    BY <1>2, SequenceCounts
<1>6. Q!EndedBy(at, half + n) = 1 .. cut' /\ cut' \in 0 .. LengthOf(at) /\ LengthOf(at) \in Nat
    BY <1>3, <1>4, <1>5, CutFacts, EndedFacts
<1>7. cut <= cut'
    <2>1. Q!EndedBy(at, half) \subseteq Q!EndedBy(at, half + n)
        BY <1>3, <1>4, EndedFacts
    <2>2. Q!EndedBy(at, half) = 1 .. cut
        BY <1>1, <1>3 DEF SequenceInv, SequenceCuts
    <2>3. cut \in 1 .. cut' \/ cut = 0
        BY <1>3, <1>6, <2>1, <2>2
    <2> QED  BY <1>3, <1>6, <2>3
<1> DEFINE r == [m \in 1 .. cut' - cut |-> Q!Whole(at, cut + m)]
<1>8. r \in Seq(Made) /\ Len(r) = cut' - cut /\ ready' = r
    <2>1. cut' - cut \in Nat
        <3>1. cut' \in Nat
            BY <1>6
        <3>2. \A x, y \in Nat : x <= y => y - x \in Nat
            OBVIOUS
        <3> QED  BY <1>3, <1>7, <3>1, <3>2
    <2>2. \A m \in 1 .. cut' - cut : Q!Whole(at, cut + m) \in Made
        BY <1>3 DEF Q!Whole, Made
    <2> QED  BY <1>2, <2>1, <2>2
<1>9. \A m \in 1 .. cut' - cut : r[m] = Q!Whole(at, cut + m) /\ r[m].of = at /\ r[m].n = cut + m
    BY DEF Q!Whole
<1>10. half' = half + n /\ half' \in Nat /\ half' <= Q!Size(at) /\ Q!EndedBy(at, half') = 1 .. cut'
    BY <1>2, <1>4, <1>6
<1>11. ~eof'
    BY <1>1
<1> HIDE DEF r
<1>12. cut' \in Nat /\ cut' <= LengthOf(at)
    BY <1>6
<1> QED  BY <1>1, <1>3, <1>7, <1>8, <1>9, <1>10, <1>11, <1>12, SequenceMade

LEMMA SequenceGenerate ==
    ASSUME Q!SequenceAssumption, SequenceInv, Q!Generate
    PROVE  SequenceInv'
<1>1. /\ pc = "read" /\ Kinds[at] = "generate" /\ ready = <<>> /\ cut < Len(Ends[at])
      /\ cut' = cut + 1 /\ ready' = <<Q!Whole(at, cut + 1)>>
      /\ UNCHANGED <<pc, at, child, half, eof, aborted, failed, out>>
    BY DEF Q!Generate
<1>2. /\ at \in Q!Sources /\ at \in Nat /\ half \in Nat /\ cut \in Nat /\ at <= Len(Kinds)
      /\ LengthOf(at) \in Nat /\ eof \in BOOLEAN
    BY <1>1, CutFacts DEF SequenceInv, SequenceTypes, SequenceOrder
<1>3. ~(eof /\ ~aborted)
    BY <1>1, <1>2 DEF SequenceInv, SequenceCuts, LengthOf
<1> DEFINE r == <<Q!Whole(at, cut + 1)>>
<1>4. r \in Seq(Made) /\ Len(r) = cut' - cut /\ ready' = r
    <2>1. Q!Whole(at, cut + 1) \in Made
        BY <1>2 DEF Q!Whole, Made
    <2> QED  BY <1>1, <1>2, <2>1
<1>5. \A m \in 1 .. cut' - cut : r[m] = Q!Whole(at, cut + m) /\ r[m].of = at /\ r[m].n = cut + m
    <2>1. \A m \in 1 .. cut' - cut : m = 1
        BY <1>1, <1>2
    <2>2. r[1] = Q!Whole(at, cut + 1)
        OBVIOUS
    <2>3. \A m \in 1 .. cut' - cut : r[m] = Q!Whole(at, cut + m)
        <3> HIDE DEF r
        <3> QED  BY <2>1, <2>2
    <2>4. \A k : Q!Whole(at, k).of = at /\ Q!Whole(at, k).n = k
        BY DEF Q!Whole
    <2> HIDE DEF r
    <2> QED  BY <2>3, <2>4
<1>6. cut' \in Nat /\ cut <= cut' /\ cut' <= LengthOf(at)
    BY <1>1, <1>2 DEF LengthOf
<1> HIDE DEF r
<1> QED  BY <1>1, <1>2, <1>3, <1>4, <1>5, <1>6, SequenceMade

\* The end of a source makes its last message of what is left.
LEMMA SequenceFinish ==
    ASSUME Q!SequenceAssumption, SequenceInv, Q!Finish
    PROVE  SequenceInv'
<1>1. /\ pc \in {"read", "blocked"} /\ pc' = "read" /\ Kinds[at] # "generate"
      /\ ready = <<>> /\ ~eof /\ eof' = TRUE
      /\ half = Q!Size(at) \/ aborted
      /\ ready' = Q!Leftover /\ cut' = cut + Len(Q!Leftover)
      /\ UNCHANGED <<at, child, half, aborted, failed, out>>
    BY DEF Q!Finish, Q!Returns, Q!Drained, Q!Scanned
<1>2. /\ at \in Q!Sources /\ at \in Nat /\ half \in Nat /\ cut \in Nat /\ at <= Len(Kinds)
      /\ LengthOf(at) \in Nat /\ aborted \in BOOLEAN
    BY <1>1, CutFacts DEF SequenceInv, SequenceTypes, SequenceOrder
<1> DEFINE L == LengthOf(at)
<1>3. half <= Q!Size(at) /\ Q!EndedBy(at, half) = 1 .. cut /\ cut <= L
    BY <1>1, <1>2 DEF SequenceInv, SequenceCuts
<1>4. /\ \A k \in 0 .. L : Q!Upto(at, k) \in Nat
      /\ \A k, m \in 0 .. L : k < m => Q!Upto(at, k) < Q!Upto(at, m)
      /\ Q!Size(at) = Q!Upto(at, L) /\ Q!Upto(at, 0) = 0
    BY <1>2, CutFacts
<1>5. cut < L \/ (cut = 0 /\ L = 0)
    <2>1. Q!EndedBy(at, half) \subseteq 1 .. L - 1
        BY DEF Q!EndedBy, LengthOf
    <2>2. cut \in 1 .. L - 1 \/ cut = 0
        BY <1>2, <1>3, <2>1
    <2> QED  BY <1>2, <2>2
<1>6. CASE half = Q!Upto(at, cut)
    <2> DEFINE r == <<>>
    <2>1. Q!Leftover = <<>>
        BY <1>6 DEF Q!Leftover
    <2>2. ready' = r /\ cut' = cut /\ r \in Seq(Made) /\ Len(r) = cut' - cut
        BY <1>1, <1>2, <2>1
    <2>3. ~aborted => cut = L
        <3>1. ASSUME ~aborted, cut < L PROVE FALSE
            <4>1. cut \in 0 .. L /\ L \in 0 .. L
                BY <1>2, <3>1
            <4>2. Q!Upto(at, cut) < Q!Upto(at, L)
                BY <1>4, <3>1, <4>1
            <4>3. Q!Upto(at, cut) = Q!Upto(at, L) /\ Q!Upto(at, L) \in Nat
                BY <1>1, <1>4, <1>6, <3>1, <4>1
            <4> QED  BY <4>2, <4>3
        <3> QED  BY <1>5, <3>1
    <2>4. \A m \in 1 .. cut' - cut : FALSE
        BY <1>2, <2>2
    <2> HIDE DEF r
    <2>5. /\ \A m \in 1 .. cut' - cut : r[m].of = at /\ r[m].n = cut + m
          /\ \A m \in 1 .. cut' - cut : r[m] = Q!Whole(at, cut + m)
        BY <2>4
    <2>6. cut' \in Nat /\ cut <= cut' /\ cut' <= LengthOf(at)
        BY <1>2, <1>3, <2>2
    <2>7. eof' /\ ~aborted => cut' = LengthOf(at)
        BY <2>2, <2>3
    <2> QED  BY <1>1, <1>2, <2>2, <2>5, <2>6, <2>7, SequenceMade
<1>7. CASE half # Q!Upto(at, cut)
    <2> DEFINE r == <<[of |-> at, n |-> cut + 1, whole |-> half = Q!Upto(at, cut + 1)]>>
    <2>1. Q!Leftover = r
        BY <1>7 DEF Q!Leftover
    <2>2. cut < L
        BY <1>2, <1>3, <1>4, <1>5, <1>7
    <2>3. ready' = r /\ cut' = cut + 1 /\ r \in Seq(Made) /\ Len(r) = cut' - cut
        <3>1. [of |-> at, n |-> cut + 1, whole |-> half = Q!Upto(at, cut + 1)] \in Made
            BY <1>2 DEF Made
        <3> QED  BY <1>1, <1>2, <2>1, <3>1
    <2>4. \A m \in 1 .. cut' - cut : m = 1 /\ r[m].of = at /\ r[m].n = cut + m
        BY <1>2, <2>3
    <2>5. ASSUME ~aborted PROVE cut + 1 = L /\ r[1] = Q!Whole(at, cut + 1)
        <3>1. half = Q!Size(at)
            BY <1>1, <2>5
        <3>2. 1 .. cut = 1 .. L - 1
            BY <1>2, <1>3, <3>1, EndedFacts
        <3>3. cut + 1 = L
            BY <1>2, <2>2, <3>2
        <3> QED  BY <1>4, <3>1, <3>3 DEF Q!Whole
    <2>6. cut' \in Nat /\ cut <= cut' /\ cut' <= LengthOf(at)
        BY <1>2, <2>2, <2>3
    <2> HIDE DEF r
    <2>7. ~aborted => \A m \in 1 .. cut' - cut : r[m] = Q!Whole(at, cut + m)
        BY <2>4, <2>5
    <2>8. eof' /\ ~aborted => cut' = LengthOf(at)
        BY <2>3, <2>5
    <2> QED  BY <1>1, <1>2, <2>3, <2>4, <2>6, <2>7, <2>8, SequenceMade
<1> QED  BY <1>6, <1>7

LEMMA SequenceNext ==
    ASSUME Q!SequenceAssumption, SequenceInv, [Q!Next]_(Q!vars)
    PROVE  SequenceInv'
    BY SequenceFiber, SequenceExhausted, SequenceServe, SequenceChunk, SequenceGenerate,
       SequenceFinish DEF Q!Next, Q!Reader

\* What the fiber is done with is what was handed out whenever nothing is ready; an
\* input that ended by itself has been through all sources.
LEMMA SequenceSound ==
    ASSUME Q!SequenceAssumption, SequenceInv
    PROVE  Q!InOrder /\ Q!EndIsTrue /\ Q!OneOpen
<1>1. /\ out \in Seq(Made) /\ ready \in Seq(Made) /\ at \in Nat /\ cut \in Nat
      /\ Q!Sources = 1 .. Len(Kinds) /\ Len(Kinds) \in Nat
    BY CutFacts DEF SequenceInv, SequenceTypes
<1> DEFINE u == out \o ready
<1>2. /\ u \in Seq(Made) /\ Len(u) = Len(out) + Len(ready) /\ Len(out) \in Nat /\ Len(ready) \in Nat
      /\ \A i \in 1 .. Len(out) : u[i] = out[i]
    BY <1>1, Joined
<1>3. InLine(u)
    BY DEF SequenceInv, SequenceOrder
<1>4. ~aborted => Elements(u) = {m \in Q!Messages : Handled(m)}
    BY DEF SequenceInv, SequenceOrder
<1>5. DOMAIN out = 1 .. Len(out) /\ Q!Range(out) = Elements(out)
    BY <1>1 DEF Q!Range, Elements
<1> HIDE DEF u
<1>6. Q!Ordered
    BY <1>2, <1>3, <1>5 DEF InLine, Q!Ordered
<1>7. ASSUME ~aborted, NEW i \in 1 .. Len(out)
      PROVE  out[i] \in Q!Messages /\ \A m \in Q!Messages : Q!Before(m, out[i]) => m \in Elements(out)
    <2>1. u[i] = out[i] /\ i \in 1 .. Len(u) /\ out[i] \in Elements(u)
        BY <1>2 DEF Elements
    <2>2. out[i] \in Q!Messages /\ Handled(out[i])
        BY <1>4, <1>7, <2>1
    <2>3. ASSUME NEW m \in Q!Messages, Q!Before(m, out[i]) PROVE m \in Elements(out)
        <3>1. out[i] \in Made /\ out[i].of \in Nat /\ out[i].n \in Nat
            BY <1>2, <2>1, ElementsMade
        <3>2. m.of \in Nat /\ m.n \in Nat
            <4>1. m.of \in Q!Sources /\ m.n \in DOMAIN Ends[m.of]
                BY DEF Q!Messages, Q!Whole
            <4> QED  BY <4>1, CutFacts
        <3>3. Handled(m)
            BY <1>1, <2>2, <2>3, <3>1, <3>2 DEF Handled, Until, Q!Before
        <3>4. PICK j \in 1 .. Len(u) : u[j] = m
            BY <1>4, <1>7, <3>3 DEF Elements
        <3>5. ~Q!Before(out[i], m) /\ m # out[i]
            BY <2>3, <3>1, <3>2 DEF Q!Before
        <3>6. ~(i < j) /\ j # i
            BY <1>3, <2>1, <3>4, <3>5 DEF InLine
        <3>7. j \in 1 .. Len(out)
            BY <1>2, <3>6
        <3> QED  BY <1>2, <3>4, <3>7 DEF Elements
    <2> QED  BY <2>2, <2>3
<1>8. Q!InOrder
    BY <1>5, <1>6, <1>7 DEF Q!InOrder
<1>9. Q!EndIsTrue
    <2> SUFFICES ASSUME pc \in {"over", "closed"}, ~aborted, ~failed
                 PROVE  Elements(out) = Q!Messages
        BY <1>5, <1>6 DEF Q!EndIsTrue
    <2>1. at = Len(Kinds) + 1 /\ ready = <<>>
        BY DEF SequenceInv, SequenceOrder
    <2>2. u = out
        BY <1>1, <2>1 DEF u
    <2>3. ASSUME NEW m \in Q!Messages PROVE Handled(m)
        <3>1. m.of \in Q!Sources
            BY DEF Q!Messages, Q!Whole
        <3> QED  BY <1>1, <2>1, <3>1 DEF Handled, Until
    <2> QED  BY <1>4, <2>2, <2>3
<1>10. Q!OneOpen
    <2> DEFINE open == {c \in Q!Sources : child[c] = "open"}
    <2>1. \A c \in Q!Sources : child[c] = "open" => c = at
        <3>1. \A c \in Q!Sources : c < at \/ c = at \/ c > at
            BY <1>1
        <3> QED  BY <3>1 DEF SequenceInv, SequenceChildren
    <2>2. open = {} \/ open = {at}
        BY <2>1
    <2>3. Cardinality(open) <= 1
        <3> HIDE DEF open
        <3>1. Cardinality(open) = 0 \/ Cardinality(open) = 1
            BY <2>2, FS_EmptySet, FS_Singleton
        <3> QED  BY <3>1
    <2>4. pc = "closed" => \A c \in Q!Sources : child[c] # "open"
        BY DEF SequenceInv, SequenceChildren
    <2> QED  BY <2>3, <2>4, SequenceCounts DEF Q!OneOpen
<1> QED  BY <1>8, <1>9, <1>10

-----------------------------------------------------------------------------
(* The inputs under one specification                                        *)

\* The invariant of the input at hand.
PartInv ==
    /\ part = "retry"       => RetryInv
    /\ part = "batched"     => BatchedInv
    /\ part \in {"buffered", "unbatched"} => BufferInv
    /\ part = "broker"      => BrokerInv /\ BrokerPlaced
    /\ part = "processed"   => ProcessedInv
    /\ part = "http_server" => HandlerInv
    /\ part = "socket_server" => ServerInv
    /\ part = "socket"      => DialledInv
    /\ part = "websocket"   => DialInv
    /\ part = "poll"        => HttpInv(FALSE, FALSE)
    /\ part = "stream"      => HttpInv(TRUE, TRUE)
    /\ part = "once"        => HttpInv(TRUE, FALSE)
    /\ part = "sequence"    => SequenceInv

\* The run starts the input at hand as its own specification does.
LEMMA PartInit ==
    Init => PartInv
<1> SUFFICES ASSUME Init PROVE PartInv
    OBVIOUS
<1>1. /\ part = "retry" => R!Init
      /\ part = "batched" => B!Init
      /\ part \in {"buffered", "unbatched"} => U!Init
      /\ part = "broker" => K!Init
      /\ part = "processed" => P!Init
      /\ part = "http_server" => H!Init
      /\ part = "socket_server" => S!Init
      /\ part = "socket" => T!Init
      /\ part = "websocket" => W!Init
      /\ part = "poll" => C!Init
      /\ part = "stream" => D!Init
      /\ part = "once" => E!Init
      /\ part = "sequence" => Q!Init
    BY DEF Init
<1>2. part = "retry" => RetryInv
    BY <1>1, InputsAssumption, RetryInit
<1>3. part = "broker" => BrokerInv /\ BrokerPlaced
    BY <1>1, InputsAssumption, BrokerInit, PlacedInit
<1>4. part = "websocket" => DialInv
    BY <1>1, InputsAssumption, DialInit
<1>5. part = "poll" => HttpInv(FALSE, FALSE)
    BY <1>1, InputsAssumption, PollInv
<1>6. part = "stream" => HttpInv(TRUE, TRUE)
    BY <1>1, InputsAssumption, StreamedInv
<1>7. part = "once" => HttpInv(TRUE, FALSE)
    BY <1>1, InputsAssumption, StreamedOnceInv
<1>8. part = "sequence" => SequenceInv
    BY <1>1, InputsAssumption, SequenceInit
<1>9. part = "processed" => ProcessedInv
    BY <1>1, InputsAssumption, ProcessedInit
<1>10. part = "http_server" => HandlerInv
    BY <1>1, InputsAssumption, HandlerInit
<1>11. part = "socket_server" => ServerInv
    BY <1>1, InputsAssumption, ServerInit
<1>12. part = "socket" => DialledInv
    BY <1>1, InputsAssumption, DialledInit
<1>13. part = "batched" => BatchedInv
    BY <1>1, InputsAssumption, BatchedInit
<1>14. part \in {"buffered", "unbatched"} => BufferInv
    BY <1>1, InputsAssumption, BufferInit
<1> QED  BY <1>2, <1>3, <1>4, <1>5, <1>6, <1>7, <1>8, <1>9,
            <1>10, <1>11, <1>12, <1>13, <1>14
         DEF PartInv

\* A step of the run is a step of the input at hand.
LEMMA PartSteps ==
    ASSUME [Next]_vars
    PROVE  /\ part' = part
           /\ part = "retry" => [R!Next]_(R!vars)
           /\ part = "batched" => [B!Next]_(B!vars)
           /\ part \in {"buffered", "unbatched"} => [U!Next]_(U!vars)
           /\ part = "broker" => [K!Next]_(K!vars)
           /\ part = "processed" => [P!Next]_(P!vars)
           /\ part = "http_server" => [H!Next]_(H!vars)
           /\ part = "socket_server" => [S!Next]_(S!vars)
           /\ part = "socket" => [T!Next]_(T!vars)
           /\ part = "websocket" => [W!Next]_(W!vars)
           /\ part = "poll" => [C!Next]_(C!vars)
           /\ part = "stream" => [D!Next]_(D!vars)
           /\ part = "once" => [E!Next]_(E!vars)
           /\ part = "sequence" => [Q!Next]_(Q!vars)
<1>1. CASE Next
    BY <1>1 DEF Next
<1>2. CASE UNCHANGED vars
    BY <1>2
       DEF vars, R!vars, R!shared, R!source, B!vars, B!sideVars,
           B!wrapVars, U!vars, U!sideVars, U!wrapVars, K!vars, K!sideVars, K!wrapVars, P!vars, P!sideVars, P!wrapVars,
           H!vars, H!handlers, S!vars, S!connVars, T!vars, T!connVars, W!vars,
           W!connVars, C!vars, D!vars, E!vars, Q!vars
<1> QED  BY <1>1, <1>2

LEMMA PartNext ==
    PartInv /\ [Next]_vars => PartInv'
<1> SUFFICES ASSUME PartInv, [Next]_vars PROVE PartInv'
    OBVIOUS
<1>1. part = "retry" => RetryInv'
    BY InputsAssumption, PartSteps, RetryNext DEF PartInv
<1>2. part = "broker" => BrokerInv' /\ BrokerPlaced'
    BY InputsAssumption, PartSteps, BrokerNext, PlacedNext DEF PartInv
<1>3. part = "websocket" => DialInv'
    BY InputsAssumption, PartSteps, DialNext DEF PartInv
<1>4. part = "poll" => HttpInv(FALSE, FALSE)'
    BY PartSteps, PollInv DEF PartInv
<1>5. part = "stream" => HttpInv(TRUE, TRUE)'
    BY PartSteps, StreamedInv DEF PartInv
<1>6. part = "once" => HttpInv(TRUE, FALSE)'
    BY PartSteps, StreamedOnceInv DEF PartInv
<1>7. part = "sequence" => SequenceInv'
    BY InputsAssumption, PartSteps, SequenceNext DEF PartInv
<1>8. part = "processed" => ProcessedInv'
    BY InputsAssumption, PartSteps, ProcessedNext DEF PartInv
<1>9. part = "http_server" => HandlerInv'
    BY PartSteps, HandlerNext DEF PartInv
<1>10. part = "socket_server" => ServerInv'
    BY InputsAssumption, PartSteps, ServerNext DEF PartInv
<1>11. part = "socket" => DialledInv'
    BY PartSteps, DialledNext DEF PartInv
<1>12. part = "batched" => BatchedInv'
    BY InputsAssumption, PartSteps, BatchedNext DEF PartInv
<1>13. part' = part
    BY PartSteps
<1>14. part \in {"buffered", "unbatched"} => BufferInv'
    BY InputsAssumption, PartSteps, BufferNext DEF PartInv
<1> QED  BY <1>1, <1>2, <1>3, <1>4, <1>5, <1>6, <1>7, <1>8, <1>9, <1>10, <1>11, <1>12, <1>13,
            <1>14
         DEF PartInv

\* What the invariant says of the input at hand.
LEMMA PartSound ==
    ASSUME PartInv
    PROVE  /\ part = "retry" => R!KeptUntilAnswered /\ R!EndMeansDelivered
           /\ part = "batched" => B!NothingOrphaned /\ B!AnsweredRightly
           /\ part \in {"buffered", "unbatched"} => U!NothingSlipsOut /\ U!RoomIsCounted
           /\ part = "broker" => K!EndMeansHandedOut /\ K!NothingOrphaned /\ K!AnsweredRightly
           /\ part = "processed" => P!NothingOrphaned /\ P!AnsweredRightly
           /\ part = "http_server" => H!NoHandlerForgotten /\ H!ReplyIsTrue
           /\ part = "socket_server" => S!NothingLostInOrder
           /\ part = "socket" => T!NothingLostInOrder
           /\ part = "websocket" => W!GivesUpInARow
           /\ part = "poll" => C!EndsOnlyWhenTold
           /\ part = "stream" => D!EndsOnlyWhenTold
           /\ part = "once" => E!EndsOnlyWhenTold
           /\ part = "sequence" => Q!InOrder /\ Q!EndIsTrue /\ Q!OneOpen
<1>1. part = "broker" => K!EndMeansHandedOut /\ K!NothingOrphaned /\ K!AnsweredRightly
    BY InputsAssumption, BrokerSound, PlacedSound DEF PartInv
<1>2. part = "processed" => P!NothingOrphaned /\ P!AnsweredRightly
    BY InputsAssumption, ProcessedSound DEF PartInv
<1>3. part = "http_server" => H!NoHandlerForgotten /\ H!ReplyIsTrue
    BY DEF PartInv, HandlerInv
<1>4. part = "batched" => B!NothingOrphaned /\ B!AnsweredRightly
    BY InputsAssumption, BatchedSound DEF PartInv
<1>5. part \in {"buffered", "unbatched"} => U!NothingSlipsOut /\ U!RoomIsCounted
    BY InputsAssumption, BufferSound DEF PartInv
<1> QED  BY <1>1, <1>2, <1>3, <1>4, <1>5, InputsAssumption, RetrySound, ServerSound, DialledSound, DialSound,
            PollInv, StreamedInv, StreamedOnceInv, SequenceSound DEF PartInv

\* Whatever the order of reads, answers, dials, failures and ends of sources, an
\* input that ends by itself has delivered or handed out all it had: AutoRetry waits
\* for what may be nacked, the broker for its children, the sequence for its last
\* source; websocket has used up its retries in a row, and http_client may not
\* reconnect (read_batch of each of them returning the end of the input).
THEOREM EndIsTrueAlways ==
    Spec => []EndIsTrue
<1>1. PartInv => EndIsTrue
    <2> SUFFICES ASSUME PartInv PROVE EndIsTrue
        OBVIOUS
    <2> QED  BY PartSound DEF EndIsTrue
<1> QED  BY <1>1, PartInit, PartNext, PTL DEF Spec

\* For any number of batches, nacks, children, requests, connections, sources and
\* messages: what AutoRetry, the broker and a batching policy have read is in one place
\* until it is answered, a batch the processors split has a piece out until it is
\* answered, each message the buffer took is held once or has been handed out, an
\* answer wakes a waiting handler of http_server, the messages of a connection reach the
\* stream once and in order, and those of a sequence too, with one source open.  A stop
\* is the exception: AutoRetry gives up what it would replay, the processors' close what
\* they parked, and so does the broker's.
THEOREM OrphanNothing ==
    Spec => []NothingOrphaned
<1>1. PartInv => NothingOrphaned
    <2> SUFFICES ASSUME PartInv PROVE NothingOrphaned
        OBVIOUS
    <2> QED  BY PartSound DEF NothingOrphaned
<1> QED  BY <1>1, PartInit, PartNext, PTL DEF Spec

\* The source under a batching policy, the broker or the processors is answered once per
\* batch, and with an ack only when every message of it has gone through or was filtered;
\* the buffer, which acks at its door, counts the messages it holds within its limit and
\* keeps nobody at the door while it is empty; a client of http_server is told 201 only of
\* an acked batch, with all that was stored for it, 500 only of a nacked one, and its
\* reply is cut only past the drain budget.
THEOREM AnswerRightly ==
    Spec => []AnsweredRightly
<1>1. PartInv => AnsweredRightly
    <2> SUFFICES ASSUME PartInv PROVE AnsweredRightly
        OBVIOUS
    <2> QED  BY PartSound DEF AnsweredRightly
<1> QED  BY <1>1, PartInit, PartNext, PTL DEF Spec
=============================================================================
