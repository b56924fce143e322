--------------------------- MODULE KafkaConsumerProofs ---------------------------
(***************************************************************************)
(* At-least-once delivery of the Kafka consumer, for every log, every set  *)
(* of partitions and brokers and any number of faults: an offset is never  *)
(* committed, staged or offered past a record that no pipeline finished.   *)
(*                                                                         *)
(* CommitSafe is not inductive.  What a commit may say depends on what the *)
(* tracker knows (TrackersCover), on what the poll has moved past          *)
(* (NothingSkipped) and on every copy of an offset between the tracker and *)
(* the broker (OffsetsSafe).                                               *)
(*                                                                         *)
(* That no record is decoded twice needs to know that every offset dealt   *)
(* in is one the log has reached (InLog): only then is a position out of   *)
(* range one below the start of the log (HandedPassed).                    *)
(***************************************************************************)
EXTENDS KafkaConsumer, WellFoundedInduction, TLAPS

-----------------------------------------------------------------------------
(* The least and the greatest element of a set of offsets                    *)

\* A set of offsets that is not empty has a least element: the oldest record in
\* flight (*_in_flight.begin()) exists.
LEMMA LeastExists ==
    ASSUME NEW T, T \subseteq Nat, T # {}
    PROVE  \E x \in T : \A y \in T : x <= y
<1> DEFINE R == OpToRel(<, Nat)
<1>1. \E x \in T : \A y \in T : <<y, x>> \notin R
    <2> HIDE DEF R
    <2>1. IsWellFoundedOn(R, Nat)
        BY NatLessThanWellFounded DEF R
    <2> QED  BY <2>1, WFMin
<1>2. ASSUME NEW x \in Nat, NEW y \in Nat, <<y, x>> \notin R
      PROVE  x <= y
    <2>1. <<y, x>> \in Nat \X Nat  OBVIOUS
    <2>2. ~(y < x)  BY <1>2, <2>1 DEF OpToRel
    <2> QED  BY <2>2
<1> QED  BY <1>1, <1>2

\* Min of the community modules picks that element.
LEMMA MinIsLeast ==
    ASSUME NEW T, T \subseteq Nat, T # {}
    PROVE  Min(T) \in T /\ \A y \in T : Min(T) <= y
BY LeastExists DEF Min

\* A set of offsets below a bound that is not empty has a greatest element: the
\* last record of what a broker sent.
LEMMA MaxIsGreatest ==
    ASSUME NEW T, T \subseteq Nat, T # {}, NEW bound \in Nat, \A y \in T : y <= bound
    PROVE  Max(T) \in T /\ \A y \in T : Max(T) >= y
<1> DEFINE U == {n \in Nat : \A y \in T : y <= n}
<1>1. U \subseteq Nat /\ U # {}
    <2>1. bound \in U  OBVIOUS
    <2> QED  BY <2>1
<1>2. PICK m \in U : \A n \in U : m <= n
    <2> HIDE DEF U
    <2> QED  BY <1>1, LeastExists
<1>3. m \in T
    <2> SUFFICES ASSUME m \notin T PROVE FALSE  OBVIOUS
    <2>1. \A y \in T : y <= m - 1  BY <1>2
    <2>2. PICK y \in T : TRUE  OBVIOUS
    <2>3. m - 1 \in Nat  BY <2>1, <2>2, <1>2
    <2>4. m - 1 \in U  BY <2>1, <2>3
    <2> QED  BY <2>4, <1>2
<1>4. \E x \in T : \A y \in T : x >= y  BY <1>2, <1>3
<1> QED  BY <1>4 DEF Max

-----------------------------------------------------------------------------
(* The inductive invariant                                                   *)

\* The variables the argument is about.
Relevant == <<next, tracked, finished, staged, committed, cache, passed, processed>>

Trackers == [position : Int, committed : Int, in_flight : SUBSET Nat]

Types ==
    /\ next \in [Partitions -> Int]
    /\ tracked \in [Partitions -> Trackers]
    /\ finished \in [Partitions -> Int] /\ staged \in [Partitions -> Int]
    /\ committed \in [Partitions -> Int]
    /\ cache.committed \in [Partitions -> Int]
    /\ passed \in [Partitions -> Int]

LogTypes == hw \in [Partitions -> Int] /\ logStart \in [Partitions -> Int]

\* Every copy of an offset on its way to the broker or back is safe.
OffsetsSafe ==
    \A p \in Partitions :
        /\ Safe(p, committed[p]) /\ Safe(p, staged[p])
        /\ Safe(p, finished[p]) /\ Safe(p, cache.committed[p])

\* What lies below a tracker's position is finished, in flight or before the
\* start, and what is in flight lies below the position.
TrackersCover ==
    \A p \in Partitions :
        /\ \A o \in Data(p) :
            o < tracked[p].position =>
                <<p, o>> \in processed \/ o < passed[p] \/ o \in tracked[p].in_flight
        /\ \A o \in tracked[p].in_flight : o < tracked[p].position

IInv == Types /\ LogTypes /\ OffsetsSafe /\ TrackersCover /\ NothingSkipped

-----------------------------------------------------------------------------
(* Facts about the constants                                                 *)

\* The offsets of records are naturals.
LEMMA DataNat == \A p \in Partitions : Data(p) \subseteq Nat
<1> SUFFICES ASSUME NEW p \in Partitions, NEW b \in Log[p], NEW o \in b.records
             PROVE  o \in Nat
    BY DEF Data
<1>1. b.first \in Nat /\ b.last \in Nat /\ b.records \subseteq b.first .. b.last
    BY LogAssumption
<1> QED  BY <1>1

\* A log ends at a natural offset.
LEMMA BoundariesNat == \A p \in Partitions : Boundaries(p) \subseteq Nat
BY LogAssumption DEF Boundaries

\* What larger() of two integers is.
LEMMA LargerInt ==
    \A a, b \in Int : /\ Larger(a, b) \in Int
                      /\ Larger(a, b) = a \/ Larger(a, b) = b
                      /\ Larger(a, b) >= a /\ Larger(a, b) >= b
BY DEF Larger

\* The fields of a tracker after mark_committed and after deliver.
LEMMA TrackerFields ==
    ASSUME NEW t \in Trackers, NEW o \in Int, NEW S \in SUBSET Nat
    PROVE  /\ MarkCommitted(t, o) = [position |-> Larger(t.position, o), committed |-> o,
                                     in_flight |-> t.in_flight]
           /\ S # {} => Deliver(t, S) = [position |-> Larger(t.position, Max(S) + 1),
                                         committed |-> t.committed,
                                         in_flight |-> t.in_flight \cup S]
           /\ S = {} => Deliver(t, S) = t
           /\ Ack(t, S) = [position |-> t.position, committed |-> t.committed,
                           in_flight |-> t.in_flight \ S]
<1>0. t = [position |-> t.position, committed |-> t.committed, in_flight |-> t.in_flight]
    BY DEF Trackers
<1>1. MarkCommitted(t, o) = [position |-> Larger(t.position, o), committed |-> o,
                             in_flight |-> t.in_flight]
    BY DEF MarkCommitted
<1>2. ASSUME S # {}
      PROVE  Deliver(t, S) = [position |-> Larger(t.position, Max(S) + 1),
                              committed |-> t.committed, in_flight |-> t.in_flight \cup S]
    BY <1>0, <1>2 DEF Deliver
<1>3. S = {} => Deliver(t, S) = t  BY DEF Deliver
<1>4. Ack(t, S) = [position |-> t.position, committed |-> t.committed,
                   in_flight |-> t.in_flight \ S]
    BY <1>0 DEF Ack
<1> QED  BY <1>1, <1>2, <1>3, <1>4

\* Nothing lies below "no offset".
LEMMA NoOffsetSafe == \A p \in Partitions : Safe(p, NoOffset)
BY DataNat DEF Safe, NoOffset

\* The offset commit_acked offers is safe: no unfinished record lies below the
\* oldest one in flight, nor below the position when none is in flight.
LEMMA CommittableSafe ==
    ASSUME Types, TrackersCover, NEW p \in Partitions
    PROVE  Safe(p, Committable(tracked[p])) /\ Committable(tracked[p]) \in Int
<1> DEFINE t == tracked[p]
<1>0. t.position \in Int /\ t.committed \in Int /\ t.in_flight \subseteq Nat
    BY DEF Types, Trackers
<1>1. CASE t.in_flight = {}
    <2>1. Resume(t) = t.position  BY <1>1 DEF Resume
    <2>2. Safe(p, t.position)  BY <1>1 DEF TrackersCover, Safe
    <2> QED  BY <2>1, <2>2, <1>0, NoOffsetSafe DEF Committable, NoOffset
<1>2. CASE t.in_flight # {}
    <2>1. Resume(t) = Min(t.in_flight)  BY <1>2 DEF Resume
    <2>2. /\ Min(t.in_flight) \in t.in_flight
          /\ \A y \in t.in_flight : Min(t.in_flight) <= y
        BY <1>0, <1>2, MinIsLeast
    <2>3. Min(t.in_flight) \in Nat /\ Min(t.in_flight) < t.position
        BY <2>2, <1>0 DEF TrackersCover
    <2>4. Safe(p, Min(t.in_flight))
        <3> SUFFICES ASSUME NEW o \in Data(p), o < Min(t.in_flight)
                     PROVE  <<p, o>> \in processed \/ o < passed[p]
            BY DEF Safe
        <3>1. o \in Nat  BY DataNat
        <3>2. o \notin t.in_flight  BY <2>2, <2>3, <3>1
        <3>3. o < t.position  BY <2>3, <3>1, <1>0
        <3> QED  BY <3>2, <3>3 DEF TrackersCover
    <2> QED  BY <2>1, <2>3, <2>4, <1>0, NoOffsetSafe DEF Committable, NoOffset
<1> QED  BY <1>1, <1>2

-----------------------------------------------------------------------------
(* The records of a Fetch answer                                             *)

\* Everything at or past the position up to a record that was read was read
\* too: whole batches arrive, from the position on, without a gap.
LEMMA NoGap ==
    ASSUME Types, LogTypes, NEW p \in Partitions,
           NEW last \in Visible(p), NEW r \in Read(Sent(p, last.last)),
           NEW o \in Data(p), o >= next[p], o <= r
    PROVE  o \in Fresh(p, Sent(p, last.last))
<1> DEFINE S == Sent(p, last.last)
<1>1. PICK b \in S : r \in b.records  BY DEF Read
<1>2. PICK a \in Log[p] : ~a.control /\ o \in a.records  BY DEF Data
<1>3. b \in Log[p] /\ last \in Log[p]  BY <1>1 DEF Sent, Visible
<1>4. /\ a.first \in Nat /\ a.last \in Nat /\ b.first \in Nat /\ b.last \in Nat
      /\ a.segment \in Nat /\ b.segment \in Nat /\ last.last \in Nat
      /\ o \in a.first .. a.last /\ r \in b.first .. b.last
    BY <1>1, <1>2, <1>3, LogAssumption
<1>5. a = b \/ a.last < b.first
    <2>1. a = b \/ a.last < b.first \/ b.last < a.first
        BY <1>2, <1>3, LogAssumption
    <2> QED  BY <2>1, <1>4
<1>6. a \in S
    <2>1. CASE a = b  BY <2>1, <1>1
    <2>2. CASE a.last < b.first
        <3>1. a.segment <= b.segment  BY <2>2, <1>2, <1>3, LogAssumption
        <3>2. b.last < hw[p] /\ b.last <= last.last
            BY <1>1 DEF Sent, Visible
        <3>3. \A x \in Visible(p) : b.segment <= x.segment
            BY <1>1 DEF Sent
        <3>4. next[p] \in Int /\ hw[p] \in Int  BY DEF Types, LogTypes
        <3>5. a.last >= next[p] /\ a.last < hw[p] /\ a.last <= last.last
            BY <2>2, <3>2, <3>4, <1>4
        <3>6. a \in Visible(p)  BY <3>5, <1>2 DEF Visible
        <3>7. \A x \in Visible(p) : x.segment \in Nat
            BY LogAssumption DEF Visible
        <3>8. \A x \in Visible(p) : a.segment <= x.segment
            BY <3>1, <3>3, <3>7, <1>4
        <3> QED  BY <3>5, <3>6, <3>8 DEF Sent
    <2> QED  BY <1>5, <2>1, <2>2
<1> QED  BY <1>2, <1>6 DEF Fresh

\* The last record read, and the last one delivered, exist.
LEMMA ReadBounds ==
    ASSUME NEW p \in Partitions, NEW last \in Visible(p)
    PROVE  LET S == Sent(p, last.last) IN
           /\ Read(S) \subseteq Nat /\ Fresh(p, S) \subseteq Read(S)
           /\ Read(S) # {} => Max(Read(S)) \in Read(S)
                              /\ \A y \in Read(S) : Max(Read(S)) >= y
           /\ Fresh(p, S) # {} => Max(Fresh(p, S)) \in Fresh(p, S)
                                  /\ \A y \in Fresh(p, S) : Max(Fresh(p, S)) >= y
<1> DEFINE S == Sent(p, last.last)
<1>1. last.last \in Nat  BY LogAssumption DEF Visible
<1>2. ASSUME NEW r \in Read(S) PROVE r \in Nat /\ r <= last.last
    <2>1. PICK b \in S : r \in b.records  BY DEF Read
    <2>2. b \in Log[p] /\ b.last <= last.last  BY <2>1 DEF Sent, Visible
    <2>3. b.first \in Nat /\ b.last \in Nat /\ b.records \subseteq b.first .. b.last
        BY <2>2, LogAssumption
    <2> QED  BY <1>1, <2>1, <2>2, <2>3
<1>3. Fresh(p, S) \subseteq Read(S)  BY DEF Fresh, Read
<1> HIDE DEF S
<1>4. Read(S) \subseteq Nat /\ Fresh(p, S) \subseteq Nat  BY <1>2, <1>3
<1>5. /\ \A y \in Read(S) : y <= last.last
      /\ \A y \in Fresh(p, S) : y <= last.last
    BY <1>2, <1>3
<1>6. Read(S) # {} => Max(Read(S)) \in Read(S) /\ \A y \in Read(S) : Max(Read(S)) >= y
    BY <1>1, <1>4, <1>5, MaxIsGreatest
<1>7. Fresh(p, S) # {} => /\ Max(Fresh(p, S)) \in Fresh(p, S)
                          /\ \A y \in Fresh(p, S) : Max(Fresh(p, S)) >= y
    BY <1>1, <1>4, <1>5, MaxIsGreatest
<1> QED  BY <1>3, <1>4, <1>6, <1>7 DEF S
-----------------------------------------------------------------------------
(* What a step preserves                                                     *)

\* Records stay finished and the start of a partition only moves up, so an
\* offset that is safe stays safe.
LEMMA SafeStays ==
    ASSUME Types, Types', NEW p \in Partitions, NEW c \in Int, Safe(p, c),
           processed \subseteq processed', passed'[p] >= passed[p]
    PROVE  Safe(p, c)'
<1> SUFFICES ASSUME NEW o \in Data(p), o < c
             PROVE  <<p, o>> \in processed' \/ o < passed'[p]
    BY DEF Safe
<1>1. o \in Nat /\ passed[p] \in Int /\ passed'[p] \in Int  BY DataNat DEF Types
<1>2. <<p, o>> \in processed \/ o < passed[p]  BY DEF Safe
<1> QED  BY <1>1, <1>2

\* A step that leaves the relevant variables alone preserves the invariant.
LEMMA IrrelevantStep ==
    ASSUME IInv, UNCHANGED Relevant, LogTypes'
    PROVE  IInv'
<1>1. Types'  BY DEF IInv, Types, Relevant
<1>2. OffsetsSafe'  BY DEF IInv, OffsetsSafe, Safe, Relevant
<1>3. TrackersCover'  BY DEF IInv, TrackersCover, Relevant
<1>4. NothingSkipped'  BY DEF IInv, NothingSkipped, Relevant
<1> QED  BY <1>1, <1>2, <1>3, <1>4 DEF IInv

\* resolve_start_offsets moves positions to an offset that ListOffsets gave.
LEMMA ResolveStep ==
    ASSUME IInv, NEW S, ResolveOffsets(S),
           UNCHANGED <<tracked, finished, staged, committed, cache, processed, hw, logStart>>
    PROVE  IInv'
<1> USE DEF IInv
<1>0. \A p \in Partitions : StartOffset(p) \in Int
    BY DEF StartOffset, LogTypes
<1>1. /\ next' \in [Partitions -> Int] /\ passed' \in [Partitions -> Int]
      /\ \A p \in Partitions : passed'[p] >= passed[p]
      /\ \A p \in Partitions :
            \/ next'[p] = next[p]
            \/ next'[p] = StartOffset(p) /\ passed'[p] >= StartOffset(p)
    <2>1. ASSUME NEW p \in Partitions
          PROVE  /\ passed'[p] \in Int /\ next'[p] \in Int /\ passed'[p] >= passed[p]
                 /\ \/ next'[p] = next[p]
                    \/ next'[p] = StartOffset(p) /\ passed'[p] >= StartOffset(p)
        <3>1. passed[p] \in Int /\ next[p] \in Int /\ StartOffset(p) \in Int
            BY <1>0 DEF Types
        <3>2. CASE p \in S
            <4>1. next'[p] = StartOffset(p) /\ passed'[p] = Larger(passed[p], StartOffset(p))
                BY <3>2 DEF ResolveOffsets
            <4> QED  BY <3>1, <4>1 DEF Larger
        <3>3. CASE p \notin S
            <4>1. next'[p] = next[p] /\ passed'[p] = passed[p]
                BY <3>3 DEF ResolveOffsets
            <4> QED  BY <3>1, <4>1
        <3> QED  BY <3>2, <3>3
    <2>2. /\ next' = [p \in Partitions |-> next'[p]]
          /\ passed' = [p \in Partitions |-> passed'[p]]
        BY DEF ResolveOffsets
    <2>3. next' \in [Partitions -> Int]  BY <2>1, <2>2
    <2>4. passed' \in [Partitions -> Int]  BY <2>1, <2>2
    <2> QED  BY <2>1, <2>3, <2>4
<1>2. Types' /\ LogTypes'  BY <1>1 DEF Types, LogTypes
<1>3. OffsetsSafe'
    <2> SUFFICES ASSUME NEW p \in Partitions
                 PROVE  /\ Safe(p, committed[p])' /\ Safe(p, staged[p])'
                        /\ Safe(p, finished[p])' /\ Safe(p, cache.committed[p])'
        BY DEF OffsetsSafe
    <2>1. /\ committed[p] \in Int /\ staged[p] \in Int /\ finished[p] \in Int
          /\ cache.committed[p] \in Int
        BY DEF Types
    <2>2. \A c \in Int : Safe(p, c) => (\A o \in Data(p) : o < c =>
                                        <<p, o>> \in processed' \/ o < passed'[p])
        BY <1>1, <1>2, DataNat DEF Safe, Types
    <2> QED  BY <2>1, <2>2 DEF OffsetsSafe, Safe
<1>4. TrackersCover'
    BY <1>1, DataNat DEF TrackersCover, Types
<1>5. NothingSkipped'
    <2> SUFFICES ASSUME NEW p \in Partitions, NEW o \in Data(p), o < next'[p]
                 PROVE  <<p, o>> \in processed' \/ o < passed'[p] \/ o \in tracked'[p].in_flight
        BY DEF NothingSkipped
    <2>1. o \in Nat /\ passed[p] \in Int /\ passed'[p] \in Int /\ StartOffset(p) \in Int
        BY <1>0, <1>1, DataNat DEF Types
    <2>2. CASE next'[p] = next[p]
        BY <2>1, <2>2, <1>1 DEF NothingSkipped
    <2>3. CASE next'[p] = StartOffset(p) /\ passed'[p] >= StartOffset(p)
        BY <2>1, <2>3
    <2> QED  BY <1>1, <2>2, <2>3
<1> QED  BY <1>2, <1>3, <1>4, <1>5
\* An offset table taken from the trackers, by poll or by stop.
LEMMA CommittablesStep ==
    ASSUME IInv, finished' = Committables,
           UNCHANGED <<next, tracked, staged, committed, cache, passed, processed, hw, logStart>>
    PROVE  IInv'
<1> USE DEF IInv
<1>1. \A p \in Partitions : Safe(p, Committable(tracked[p])) /\ Committable(tracked[p]) \in Int
    BY CommittableSafe
<1>2. Types' /\ LogTypes'  BY <1>1 DEF Types, LogTypes, Committables
<1>3. OffsetsSafe'  BY <1>1 DEF OffsetsSafe, Safe, Committables
<1>4. TrackersCover' /\ NothingSkipped'  BY DEF TrackersCover, NothingSkipped
<1> QED  BY <1>2, <1>3, <1>4

\* rejoin takes the share pushed, with empty trackers.
LEMMA AttachStep == ASSUME IInv, Attach PROVE IInv'
<1> USE DEF IInv
<1>0. UNCHANGED <<finished, staged, committed, cache, passed, processed, hw, logStart>>
    BY DEF Attach, poll, group, brokers
<1>1. \A p \in Partitions :
        /\ next'[p] = NoOffset \/ next'[p] = cache.committed[p]
        /\ next'[p] \in Int /\ Safe(p, next'[p])
    BY NoOffsetSafe DEF Attach, Types, NoOffset, OffsetsSafe
<1>2. \A p \in Partitions :
        /\ tracked'[p].in_flight = {} /\ tracked'[p].committed \in Int
        /\ tracked'[p].position = NoOffset \/ tracked'[p].position = next'[p]
        /\ tracked'[p] \in Trackers
    <2> SUFFICES ASSUME NEW p \in Partitions
                 PROVE  /\ tracked'[p].in_flight = {} /\ tracked'[p].committed \in Int
                        /\ tracked'[p].position = NoOffset \/ tracked'[p].position = next'[p]
                        /\ tracked'[p] \in Trackers
        OBVIOUS
    <2>1. FreshTracker \in Trackers /\ FreshTracker.in_flight = {}
          /\ FreshTracker.position = NoOffset /\ FreshTracker.committed = NoOffset
        BY DEF FreshTracker, Trackers, NoOffset
    <2>2. CASE next'[p] >= 0
        <3>1. tracked'[p] = MarkCommitted(FreshTracker, next'[p])  BY <2>2 DEF Attach
        <3>2. tracked'[p] = [position |-> Larger(NoOffset, next'[p]), committed |-> next'[p],
                             in_flight |-> {}]
            BY <3>1, <2>1, <1>1, TrackerFields
        <3> QED  BY <3>2, <2>2, <1>1 DEF Larger, NoOffset, Trackers
    <2>3. CASE ~(next'[p] >= 0)
        <3>1. tracked'[p] = FreshTracker  BY <2>3 DEF Attach
        <3> QED  BY <3>1, <2>1 DEF NoOffset
    <2> QED  BY <2>2, <2>3
<1>3. next' \in [Partitions -> Int]
    BY <1>1 DEF Attach
<1>4. tracked' \in [Partitions -> Trackers]
    BY <1>2 DEF Attach
<1>5. Types' /\ LogTypes'  BY <1>0, <1>3, <1>4 DEF Types, LogTypes
<1>6. OffsetsSafe'  BY <1>0 DEF OffsetsSafe, Safe
<1>7. TrackersCover'  BY <1>0, <1>1, <1>2, NoOffsetSafe DEF TrackersCover, Safe
<1>8. NothingSkipped'  BY <1>0, <1>1 DEF NothingSkipped, Safe
<1> QED  BY <1>5, <1>6, <1>7, <1>8

\* membership::offer merges an offer into the staged offsets.
LEMMA OfferStep == ASSUME IInv, Offer PROVE IInv'
<1> USE DEF IInv
<1>0. UNCHANGED <<next, tracked, finished, committed, cache, passed, processed, hw, logStart>>
    BY DEF Offer, consumer, poll, brokers, history
<1>1. ASSUME NEW p \in Partitions
      PROVE  staged'[p] \in Int /\ (staged'[p] = staged[p] \/ staged'[p] = finished[p])
    BY DEF Offer, Types, Larger
<1>2. staged' \in [Partitions -> Int]  BY <1>1 DEF Offer
<1>3. Types' /\ LogTypes'  BY <1>0, <1>2 DEF Types, LogTypes
<1>4. OffsetsSafe'
    <2> SUFFICES ASSUME NEW p \in Partitions
                 PROVE  /\ Safe(p, committed[p])' /\ Safe(p, staged[p])'
                        /\ Safe(p, finished[p])' /\ Safe(p, cache.committed[p])'
        BY DEF OffsetsSafe
    <2>1. Safe(p, staged[p]) /\ Safe(p, finished[p])  BY DEF OffsetsSafe
    <2>2. Safe(p, staged'[p])  BY <2>1, <1>1
    <2>3. Safe(p, staged[p])'  BY <2>2, <1>0 DEF Safe
    <2> QED  BY <2>3, <1>0 DEF OffsetsSafe, Safe
<1>5. TrackersCover' /\ NothingSkipped'  BY <1>0 DEF TrackersCover, NothingSkipped
<1> QED  BY <1>3, <1>4, <1>5

\* mark_committed after offer returns.
LEMMA OfferReturnsStep == ASSUME IInv, OfferReturns PROVE IInv'
<1> USE DEF IInv
<1>0. /\ UNCHANGED <<next, staged, committed, cache, passed, processed, hw, logStart>>
      /\ finished' = None
    BY DEF OfferReturns, group, brokers, history
<1>1. ASSUME NEW p \in Partitions
      PROVE  /\ tracked'[p] \in Trackers
             /\ tracked'[p].in_flight = tracked[p].in_flight
             /\ tracked'[p].position >= tracked[p].position
             /\ \/ tracked'[p].position = tracked[p].position
                \/ tracked'[p].position = finished[p]
    <2>1. finished[p] \in Int
          /\ tracked[p] \in Trackers
        BY DEF Types
    <2>2. CASE finished[p] >= 0
        <3>1. tracked'[p] = MarkCommitted(tracked[p], finished[p])
            BY <2>2 DEF OfferReturns
        <3>2. tracked'[p] = [position |-> Larger(tracked[p].position, finished[p]),
                             committed |-> finished[p], in_flight |-> tracked[p].in_flight]
            BY <3>1, <2>1, TrackerFields
        <3> QED  BY <3>2, <2>1 DEF Larger, Trackers
    <2>3. CASE ~(finished[p] >= 0)
        <3>1. tracked'[p] = tracked[p]  BY <2>3 DEF OfferReturns
        <3> QED  BY <2>1, <3>1 DEF Trackers
    <2> QED  BY <2>2, <2>3
<1>2. tracked' \in [Partitions -> Trackers]
    <2>1. tracked' = [p \in Partitions |-> tracked'[p]]  BY DEF OfferReturns
    <2> QED  BY <1>1, <2>1
<1>3. finished' \in [Partitions -> Int]  BY <1>0 DEF None, NoOffset
<1>4. Types' /\ LogTypes'  BY <1>0, <1>2, <1>3 DEF Types, LogTypes
<1>5. OffsetsSafe'  BY <1>0, NoOffsetSafe DEF OffsetsSafe, Safe, None
<1>6. TrackersCover'
    <2>1. ASSUME NEW p \in Partitions, NEW o \in Data(p), o < tracked'[p].position
          PROVE  <<p, o>> \in processed' \/ o < passed'[p] \/ o \in tracked'[p].in_flight
        <3>1. CASE tracked'[p].position = tracked[p].position
            BY <2>1, <3>1, <1>0, <1>1 DEF TrackersCover
        <3>2. CASE tracked'[p].position = finished[p]
            BY <2>1, <3>2, <1>0, <1>1 DEF OffsetsSafe, Safe
        <3> QED  BY <3>1, <3>2, <1>1
    <2>2. ASSUME NEW p \in Partitions, NEW o \in tracked'[p].in_flight
          PROVE  o < tracked'[p].position
        <3>1. /\ tracked[p].position \in Int /\ tracked'[p].position \in Int
              /\ o \in Nat /\ o < tracked[p].position
            BY <2>2, <1>1 DEF Types, TrackersCover, Trackers
        <3> QED  BY <3>1, <1>1
    <2> QED  BY <2>1, <2>2 DEF TrackersCover
<1>7. NothingSkipped'
    BY <1>0, <1>1 DEF NothingSkipped
<1> QED  BY <1>4, <1>5, <1>6, <1>7
\* OFFSET_OUT_OF_RANGE makes the position unknown.
LEMMA OutOfRangeStep == ASSUME IInv, OutOfRange PROVE IInv'
<1> USE DEF IInv
<1>0. UNCHANGED <<tracked, finished, staged, committed, cache, passed, processed, hw, logStart>>
    BY DEF OutOfRange, group, brokers, history
<1>1. \A p \in Partitions : next'[p] = next[p] \/ next'[p] = NoOffset
    BY DEF OutOfRange, Types
<1>2. next' \in [Partitions -> Int]
    <2>1. PICK p \in entries : next' = [next EXCEPT ![p] = NoOffset]  BY DEF OutOfRange
    <2>2. next \in [Partitions -> Int]  BY DEF Types
    <2>3. NoOffset \in Int  BY DEF NoOffset
    <2>4. next' = [q \in Partitions |-> next'[q]]  BY <2>1, <2>2
    <2>5. \A q \in Partitions : next'[q] \in Int  BY <1>1, <2>2, <2>3
    <2> QED  BY <2>4, <2>5
<1>3. Types' /\ LogTypes'  BY <1>0, <1>2 DEF Types, LogTypes
<1>4. OffsetsSafe'  BY <1>0 DEF OffsetsSafe, Safe
<1>5. TrackersCover'  BY <1>0 DEF TrackersCover
<1>6. NothingSkipped'  BY <1>0, <1>1, NoOffsetSafe DEF NothingSkipped, Safe
<1> QED  BY <1>3, <1>4, <1>5, <1>6

\* A partition's records are delivered: everything up to the new position is
\* either covered already or delivered now.
LEMMA GotRecordsStep ==
    ASSUME IInv, entries \subseteq Partitions, GotRecords
    PROVE  IInv'
<1> USE DEF IInv
<1>0. UNCHANGED <<finished, staged, committed, cache, passed, processed, hw, logStart>>
    BY DEF GotRecords, group, brokers
<1>a. PICK p \in Partitions : \E last \in Visible(p) :
        /\ tracked' = [tracked EXCEPT ![p] = TrackDelivery(@, Fresh(p, Sent(p, last.last)))]
        /\ next' = [next EXCEPT ![p] = NextAfter(p, Sent(p, last.last))]
    <2>1. PICK p \in entries : \E upto \in {b.last : b \in Visible(p)} :
            /\ tracked' = [tracked EXCEPT ![p] = TrackDelivery(@, Fresh(p, Sent(p, upto)))]
            /\ next' = [next EXCEPT ![p] = NextAfter(p, Sent(p, upto))]
        BY DEF GotRecords
    <2>2. PICK upto \in {b.last : b \in Visible(p)} :
            /\ tracked' = [tracked EXCEPT ![p] = TrackDelivery(@, Fresh(p, Sent(p, upto)))]
            /\ next' = [next EXCEPT ![p] = NextAfter(p, Sent(p, upto))]
        BY <2>1
    <2>3. PICK last \in Visible(p) : upto = last.last  OBVIOUS
    <2> QED  BY <2>2, <2>3
<1>1. PICK last \in Visible(p) :
        /\ tracked' = [tracked EXCEPT ![p] = TrackDelivery(@, Fresh(p, Sent(p, last.last)))]
        /\ next' = [next EXCEPT ![p] = NextAfter(p, Sent(p, last.last))]
    BY <1>a
<1> DEFINE S == Sent(p, last.last)
           F == Fresh(p, S)
           t == tracked[p]
<1>2. /\ Read(S) \subseteq Nat /\ F \subseteq Read(S)
      /\ Read(S) # {} => Max(Read(S)) \in Read(S) /\ \A y \in Read(S) : Max(Read(S)) >= y
      /\ F # {} => Max(F) \in F /\ \A y \in F : Max(F) >= y
    BY ReadBounds
<1>3. \A r \in Read(S), o \in Data(p) : o >= next[p] /\ o <= r => o \in F
    BY NoGap
<1>4. /\ tracked' = [tracked EXCEPT ![p] = Deliver(t, F)]
      /\ next' = [next EXCEPT ![p] = NextAfter(p, S)]
    BY <1>1 DEF TrackDelivery, Types
<1>5. /\ t \in Trackers /\ t.position \in Int /\ t.committed \in Int
      /\ t.in_flight \subseteq Nat /\ next[p] \in Int
    BY DEF Types, Trackers
<1>6. /\ NextAfter(p, S) \in Int
      /\ \/ NextAfter(p, S) = next[p]
         \/ Read(S) # {} /\ NextAfter(p, S) = Max(Read(S)) + 1
    <2>1. CASE Read(S) = {}  BY <2>1, <1>5 DEF NextAfter
    <2>2. CASE Read(S) # {}
        <3>1. NextAfter(p, S) = Larger(next[p], Max(Read(S)) + 1)  BY <2>2 DEF NextAfter
        <3>2. Max(Read(S)) \in Nat  BY <2>2, <1>2
        <3> QED  BY <3>1, <3>2, <2>2, <1>5 DEF Larger
    <2> QED  BY <2>1, <2>2
<1> HIDE DEF S, F
<1>7. /\ Deliver(t, F) \in Trackers
      /\ Deliver(t, F).in_flight = t.in_flight \cup F
      /\ \/ Deliver(t, F).position = t.position
         \/ F # {} /\ Deliver(t, F).position = Max(F) + 1
      /\ Deliver(t, F).position >= t.position
      /\ \A y \in F : y < Deliver(t, F).position
    <2>0. F \in SUBSET Nat  BY <1>2
    <2>1. CASE F = {}
        <3>1. Deliver(t, F) = t  BY <2>0, <2>1, <1>5, TrackerFields
        <3> QED  BY <3>1, <2>1, <1>5
    <2>2. CASE F # {}
        <3>1. Deliver(t, F) = [position |-> Larger(t.position, Max(F) + 1),
                               committed |-> t.committed, in_flight |-> t.in_flight \cup F]
            BY <2>0, <2>2, <1>5, TrackerFields
        <3>2. Max(F) \in Nat /\ \A y \in F : y \in Nat /\ Max(F) >= y
            BY <2>0, <2>2, <1>2
        <3>3. Larger(t.position, Max(F) + 1) \in Int
              /\ Larger(t.position, Max(F) + 1) >= t.position
              /\ Larger(t.position, Max(F) + 1) >= Max(F) + 1
              /\ \/ Larger(t.position, Max(F) + 1) = t.position
                 \/ Larger(t.position, Max(F) + 1) = Max(F) + 1
            BY <3>2, <1>5 DEF Larger
        <3>4. Deliver(t, F) \in Trackers
            <4>1. t.in_flight \cup F \in SUBSET Nat  BY <2>0, <1>5
            <4>2. \A x \in Int, y \in SUBSET Nat :
                    [position |-> x, committed |-> t.committed, in_flight |-> y] \in Trackers
                BY <1>5 DEF Trackers
            <4> QED  BY <3>1, <3>3, <4>1, <4>2
        <3>5. \A y \in F : y < Deliver(t, F).position
            BY <3>1, <3>2, <3>3
        <3> QED  BY <3>1, <3>3, <3>4, <3>5, <2>2
    <2> QED  BY <2>1, <2>2
<1>8. /\ tracked'[p] = Deliver(t, F) /\ next'[p] = NextAfter(p, S)
      /\ \A q \in Partitions : q # p => tracked'[q] = tracked[q] /\ next'[q] = next[q]
      /\ tracked' \in [Partitions -> Trackers] /\ next' \in [Partitions -> Int]
    BY <1>4, <1>6, <1>7 DEF Types
<1>9. Types' /\ LogTypes'  BY <1>0, <1>8 DEF Types, LogTypes
<1>10. OffsetsSafe'  BY <1>0 DEF OffsetsSafe, Safe
<1>11. ASSUME NEW o \in Data(p), NEW r \in Read(S), o <= r
       PROVE  <<p, o>> \in processed' \/ o < passed'[p] \/ o \in tracked'[p].in_flight
    <2>1. o \in Nat  BY DataNat
    <2>2. CASE o < next[p]
        BY <2>2, <1>0, <1>7, <1>8 DEF NothingSkipped
    <2>3. CASE o >= next[p]
        <3>1. o \in F  BY <2>3, <1>3, <1>11
        <3> QED  BY <3>1, <1>7, <1>8
    <2> QED  BY <2>1, <2>2, <2>3, <1>5
<1>12. TrackersCover'
    <2>1. ASSUME NEW o \in Data(p), o < tracked'[p].position
          PROVE  <<p, o>> \in processed' \/ o < passed'[p] \/ o \in tracked'[p].in_flight
        <3>1. CASE tracked'[p].position = t.position
            BY <2>1, <3>1, <1>0, <1>7, <1>8 DEF TrackersCover
        <3>2. CASE F # {} /\ tracked'[p].position = Max(F) + 1
            <4>1. Max(F) \in Read(S) /\ Max(F) \in Nat /\ o \in Nat
                BY <3>2, <1>2, DataNat
            <4>2. o <= Max(F)  BY <4>1, <3>2, <2>1
            <4> QED  BY <4>1, <4>2, <1>11
        <3> QED  BY <3>1, <3>2, <1>7, <1>8
    <2>2. ASSUME NEW o \in tracked'[p].in_flight PROVE o < tracked'[p].position
        <3>1. CASE o \in F  BY <3>1, <1>7, <1>8
        <3>2. CASE o \in t.in_flight
            <4>1. o < t.position  BY <3>2 DEF TrackersCover
            <4>2. o \in Nat /\ tracked'[p].position \in Int
                BY <3>2, <1>5, <1>7, <1>8 DEF Trackers
            <4> QED  BY <4>1, <4>2, <1>5, <1>7, <1>8
        <3> QED  BY <2>2, <3>1, <3>2, <1>7, <1>8
    <2>3. ASSUME NEW q \in Partitions, q # p
          PROVE  /\ \A o \in Data(q) :
                    o < tracked'[q].position =>
                        <<q, o>> \in processed' \/ o < passed'[q] \/ o \in tracked'[q].in_flight
                 /\ \A o \in tracked'[q].in_flight : o < tracked'[q].position
        BY <2>3, <1>0, <1>8 DEF TrackersCover
    <2> QED  BY <2>1, <2>2, <2>3 DEF TrackersCover
<1>13. NothingSkipped'
    <2>1. ASSUME NEW o \in Data(p), o < next'[p]
          PROVE  <<p, o>> \in processed' \/ o < passed'[p] \/ o \in tracked'[p].in_flight
        <3>1. CASE next'[p] = next[p]
            BY <2>1, <3>1, <1>0, <1>7, <1>8 DEF NothingSkipped
        <3>2. CASE Read(S) # {} /\ next'[p] = Max(Read(S)) + 1
            <4>1. Max(Read(S)) \in Read(S) /\ Max(Read(S)) \in Nat /\ o \in Nat
                BY <3>2, <1>2, DataNat
            <4>2. o <= Max(Read(S))  BY <4>1, <3>2, <2>1
            <4> QED  BY <4>1, <4>2, <1>11
        <3> QED  BY <3>1, <3>2, <1>6, <1>8 DEF S
    <2>2. ASSUME NEW q \in Partitions, q # p, NEW o \in Data(q), o < next'[q]
          PROVE  <<q, o>> \in processed' \/ o < passed'[q] \/ o \in tracked'[q].in_flight
        BY <2>2, <1>0, <1>8 DEF NothingSkipped
    <2> QED  BY <2>1, <2>2 DEF NothingSkipped
<1> QED  BY <1>9, <1>10, <1>12, <1>13

\* An answered batch: its records leave the trackers and are finished.
LEMMA AckStep == ASSUME IInv, NEW b, AckBatch(b) PROVE IInv'
<1> USE DEF IInv
<1>0. /\ UNCHANGED <<next, finished, staged, committed, cache, passed, hw, logStart>>
      /\ processed' = processed \cup b.records
      /\ tracked' = AckRecords(b.records)
    BY DEF AckBatch, poll, group, brokers
<1>1. ASSUME NEW p \in Partitions
      PROVE  /\ tracked'[p] \in Trackers
             /\ tracked'[p].position = tracked[p].position
             /\ tracked'[p].in_flight \subseteq tracked[p].in_flight
             /\ \A o \in tracked[p].in_flight :
                    o \in tracked'[p].in_flight \/ <<p, o>> \in processed'
    <2> DEFINE A == OffsetsOf(b.records, p)
               t == tracked[p]
    <2>1. t \in Trackers /\ t.in_flight \in SUBSET Nat
        BY DEF Types, Trackers
    <2>2. A \in SUBSET Nat /\ \A o \in A : <<p, o>> \in b.records
        BY DataNat DEF OffsetsOf
    <2>3. tracked'[p] = Ack(t, A)  BY <1>0 DEF AckRecords
    <2> HIDE DEF A
    <2>4. tracked'[p] = [position |-> t.position, committed |-> t.committed,
                         in_flight |-> t.in_flight \ A]
        <3>1. Ack(t, A) = [position |-> t.position, committed |-> t.committed,
                           in_flight |-> t.in_flight \ A]
            BY <2>1, <2>2, TrackerFields, 0 \in Int
        <3> QED  BY <2>3, <3>1
    <2>5. t.in_flight \ A \in SUBSET Nat  BY <2>1
    <2>6. tracked'[p] \in Trackers  BY <2>1, <2>4, <2>5 DEF Trackers
    <2>7. /\ tracked'[p].position = t.position
          /\ tracked'[p].in_flight = t.in_flight \ A
        BY <2>4
    <2>8. \A o \in A : <<p, o>> \in processed'  BY <2>2, <1>0
    <2> HIDE DEF t
    <2>9. \A o \in t.in_flight : o \in tracked'[p].in_flight \/ <<p, o>> \in processed'
        BY <2>7, <2>8
    <2> QED  BY <2>6, <2>7, <2>9 DEF t
<1>2. tracked' \in [Partitions -> Trackers]
    <2>1. tracked' = [p \in Partitions |-> tracked'[p]]  BY <1>0 DEF AckRecords
    <2>2. \A p \in Partitions : tracked'[p] \in Trackers  BY <1>1
    <2> HIDE DEF IInv
    <2> QED  BY <2>1, <2>2
<1>3. Types' /\ LogTypes'  BY <1>0, <1>2 DEF Types, LogTypes
<1>4. OffsetsSafe'  BY <1>0 DEF OffsetsSafe, Safe
<1>5. TrackersCover'
    <2>1. ASSUME NEW p \in Partitions, NEW o \in Data(p), o < tracked'[p].position
          PROVE  <<p, o>> \in processed' \/ o < passed'[p] \/ o \in tracked'[p].in_flight
        <3>1. <<p, o>> \in processed \/ o < passed[p] \/ o \in tracked[p].in_flight
            BY <2>1, <1>1 DEF TrackersCover
        <3> QED  BY <3>1, <1>0, <1>1
    <2>2. ASSUME NEW p \in Partitions, NEW o \in tracked'[p].in_flight
          PROVE  o < tracked'[p].position
        BY <2>2, <1>1 DEF TrackersCover
    <2> QED  BY <2>1, <2>2 DEF TrackersCover
<1>6. NothingSkipped'
    <2> SUFFICES ASSUME NEW p \in Partitions, NEW o \in Data(p), o < next'[p]
                 PROVE  <<p, o>> \in processed' \/ o < passed'[p] \/ o \in tracked'[p].in_flight
        BY DEF NothingSkipped
    <2>1. <<p, o>> \in processed \/ o < passed[p] \/ o \in tracked[p].in_flight
        BY <1>0 DEF NothingSkipped
    <2> QED  BY <2>1, <1>0, <1>1
<1> QED  BY <1>3, <1>4, <1>5, <1>6

\* The staged offsets become the committed ones: the timer, and stop.
LEMMA CommitStep ==
    ASSUME IInv, staged' = None,
           committed' = [p \in Partitions |-> IF staged[p] >= 0 THEN staged[p] ELSE committed[p]],
           UNCHANGED <<next, tracked, finished, cache, passed, processed, hw, logStart>>
    PROVE  IInv'
<1> USE DEF IInv
<1>1. \A p \in Partitions : committed'[p] = staged[p] \/ committed'[p] = committed[p]
    OBVIOUS
<1>2. committed' \in [Partitions -> Int]  BY DEF Types
<1>3. staged' \in [Partitions -> Int]  BY DEF None, NoOffset
<1>4. Types' /\ LogTypes'  BY <1>2, <1>3 DEF Types, LogTypes
<1>5. OffsetsSafe'
    <2> SUFFICES ASSUME NEW p \in Partitions
                 PROVE  /\ Safe(p, committed[p])' /\ Safe(p, staged[p])'
                        /\ Safe(p, finished[p])' /\ Safe(p, cache.committed[p])'
        BY DEF OffsetsSafe
    <2>1. Safe(p, committed'[p])  BY <1>1 DEF OffsetsSafe
    <2>2. Safe(p, staged'[p])  BY NoOffsetSafe DEF None
    <2> QED  BY <2>1, <2>2 DEF OffsetsSafe, Safe
<1>6. TrackersCover' /\ NothingSkipped'  BY DEF TrackersCover, NothingSkipped
<1> QED  BY <1>4, <1>5, <1>6

\* A rebalance publishes the committed offsets and forgets staged ones.
LEMMA RebalanceStep == ASSUME IInv, Rebalance PROVE IInv'
<1> USE DEF IInv
<1>0. UNCHANGED <<next, tracked, finished, committed, passed, processed, hw, logStart>>
    BY DEF Rebalance, consumer, poll, brokers, history
<1>1. PICK S \in SUBSET Partitions :
        /\ cache' = [generation |-> cache.generation + 1, partitions |-> S,
                     committed |-> committed]
        /\ staged' = [p \in Partitions |-> IF p \in S THEN staged[p] ELSE NoOffset]
    BY DEF Rebalance
<1>2. cache'.committed = committed  BY <1>1
<1>3. staged' \in [Partitions -> Int]  BY <1>1 DEF Types, NoOffset
<1>4. Types' /\ LogTypes'  BY <1>0, <1>2, <1>3 DEF Types, LogTypes
<1>5. OffsetsSafe'
    <2> SUFFICES ASSUME NEW p \in Partitions
                 PROVE  /\ Safe(p, committed[p])' /\ Safe(p, staged[p])'
                        /\ Safe(p, finished[p])' /\ Safe(p, cache.committed[p])'
        BY DEF OffsetsSafe
    <2>1. Safe(p, staged'[p])  BY <1>1, NoOffsetSafe DEF OffsetsSafe
    <2> QED  BY <2>1, <1>0, <1>2 DEF OffsetsSafe, Safe
<1>6. TrackersCover' /\ NothingSkipped'  BY <1>0 DEF TrackersCover, NothingSkipped
<1> QED  BY <1>4, <1>5, <1>6

\* Another member commits what it has finished itself.
LEMMA OtherMemberStep ==
    ASSUME IInv, NEW p \in Partitions, OtherMember(p)
    PROVE  IInv'
<1> USE DEF IInv
<1>0. UNCHANGED <<next, tracked, finished, staged, cache, passed, hw, logStart>>
    BY DEF OtherMember, consumer, poll, brokers
<1>1. PICK b \in Log[p] :
        /\ processed' = processed \cup
                        {<<p, o>> : o \in {x \in Data(p) : x <= b.last /\ x >= committed[p]}}
        /\ committed' = [committed EXCEPT ![p] = b.last + 1]
    BY DEF OtherMember
<1>2. b.last \in Nat /\ committed \in [Partitions -> Int]  BY LogAssumption DEF Types
<1>3. /\ committed'[p] = b.last + 1 /\ \A q \in Partitions : q # p => committed'[q] = committed[q]
      /\ committed' \in [Partitions -> Int]
    BY <1>1, <1>2
<1>4. processed \subseteq processed'  BY <1>1
<1>5. Types' /\ LogTypes'  BY <1>0, <1>3 DEF Types, LogTypes
<1>6. \A q \in Partitions, c \in Int : Safe(q, c) => Safe(q, c)'
    BY <1>0, <1>4 DEF Safe
<1>7. Safe(p, b.last + 1)'
    <2> SUFFICES ASSUME NEW o \in Data(p), o < b.last + 1
                 PROVE  <<p, o>> \in processed' \/ o < passed'[p]
        BY DEF Safe
    <2>1. o \in Nat /\ committed[p] \in Int  BY <1>2, DataNat
    <2>2. CASE o < committed[p]
        <3>1. Safe(p, committed[p])  BY DEF OffsetsSafe
        <3> QED  BY <3>1, <2>2, <1>0, <1>4 DEF Safe
    <2>3. CASE o >= committed[p]
        <3>1. o <= b.last  BY <2>1, <1>2
        <3> QED  BY <3>1, <2>3, <1>1
    <2> QED  BY <2>1, <2>2, <2>3
<1>8. OffsetsSafe'
    <2> SUFFICES ASSUME NEW q \in Partitions
                 PROVE  /\ Safe(q, committed[q])' /\ Safe(q, staged[q])'
                        /\ Safe(q, finished[q])' /\ Safe(q, cache.committed[q])'
        BY DEF OffsetsSafe
    <2>1. /\ committed[q] \in Int /\ staged[q] \in Int /\ finished[q] \in Int
          /\ cache.committed[q] \in Int
        BY DEF Types
    <2>2. /\ Safe(q, committed[q]) /\ Safe(q, staged[q])
          /\ Safe(q, finished[q]) /\ Safe(q, cache.committed[q])
        BY DEF OffsetsSafe
    <2>3. Safe(q, committed[q])'
        <3>1. CASE q = p  BY <3>1, <1>3, <1>7 DEF Safe
        <3>2. CASE q # p  BY <3>2, <2>2, <1>0, <1>3, <1>4 DEF Safe
        <3> QED  BY <3>1, <3>2
    <2> QED  BY <2>2, <2>3, <1>0, <1>4 DEF Safe
<1>9. TrackersCover'  BY <1>0, <1>4 DEF TrackersCover
<1>10. NothingSkipped'  BY <1>0, <1>4 DEF NothingSkipped
<1> QED  BY <1>5, <1>8, <1>9, <1>10

-----------------------------------------------------------------------------
(* The partitions this shard is concerned with                               *)

Shares == [generation : Int, partitions : SUBSET Partitions, committed : [Partitions -> Int]]

Owned == cache \in Shares /\ assignment \subseteq Partitions /\ entries \subseteq Partitions

\* Everything in memory starts afresh: nothing is in flight, nothing read.
LEMMA NewProcessStep == ASSUME IInv, Owned, NewProcess PROVE IInv'
<1> USE DEF IInv
<1>0. /\ UNCHANGED <<committed, passed, processed, hw, logStart>>
      /\ next' = None /\ finished' = None /\ staged' = None
      /\ tracked' = [p \in Partitions |-> FreshTracker]
      /\ cache' = [cache EXCEPT !.generation = @ + 1, !.committed = committed]
    BY DEF NewProcess, brokers
<1>1. cache'.committed = committed
    <2>1. cache \in Shares  BY DEF Owned
    <2> QED  BY <2>1, <1>0 DEF Shares
<1>2. None \in [Partitions -> Int] /\ \A p \in Partitions : None[p] = NoOffset
    BY DEF None, NoOffset
<1>3. FreshTracker \in Trackers /\ FreshTracker.in_flight = {}
      /\ FreshTracker.position = NoOffset
    BY DEF FreshTracker, Trackers, NoOffset
<1>4. tracked' \in [Partitions -> Trackers]  BY <1>0, <1>3
<1>5. Types' /\ LogTypes'  BY <1>0, <1>1, <1>2, <1>4 DEF Types, LogTypes
<1>6. OffsetsSafe'  BY <1>0, <1>1, <1>2, NoOffsetSafe DEF OffsetsSafe, Safe
<1>7. TrackersCover'  BY <1>0, <1>3, NoOffsetSafe DEF TrackersCover, Safe
<1>8. NothingSkipped'  BY <1>0, <1>2, NoOffsetSafe DEF NothingSkipped, Safe
<1> QED  BY <1>5, <1>6, <1>7, <1>8

\* The share at the start.
LEMMA OwnedInit == Init => Owned
<1> SUFFICES ASSUME Init PROVE Owned  OBVIOUS
<1>1. InitCommitted \in [Partitions -> Int]  BY LogAssumption DEF NoOffset
<1> QED  BY <1>1 DEF Init, Owned, Shares

\* Only a rebalance and a new process change the share, only an answer makes
\* entries.
LEMMA OwnedStep == ASSUME Types, Owned, [Next]_vars PROVE Owned'
<1> USE DEF Owned
<1>c. committed \in [Partitions -> Int]  BY DEF Types
<1>u. ASSUME UNCHANGED <<cache, assignment, entries>> PROVE Owned'
    BY <1>u
<1>e. ASSUME UNCHANGED <<cache, assignment>>, entries' \subseteq Partitions
      PROVE  Owned'
    BY <1>e
<1>n. ASSUME NewProcess PROVE Owned'
    <2>1. cache' = [cache EXCEPT !.generation = @ + 1, !.committed = committed]
        BY <1>n DEF NewProcess
    <2>2. cache = [generation |-> cache.generation, partitions |-> cache.partitions,
                   committed |-> cache.committed]
          /\ cache.generation \in Int /\ cache.partitions \in SUBSET Partitions
        BY DEF Shares
    <2>3. cache' = [generation |-> cache.generation + 1, partitions |-> cache.partitions,
                    committed |-> committed]
        BY <2>1, <2>2
    <2>4. cache' \in Shares  BY <2>2, <2>3, <1>c DEF Shares
    <2> QED  BY <1>n, <2>4 DEF NewProcess
<1> HIDE DEF Owned
<1> USE DEF consumer, poll, pipeline, group, brokers, history, FetchState
<1>p. ASSUME PollStep PROVE Owned'
    <2>1. CASE Start  BY <2>1, <1>u DEF Start
    <2>2. CASE Attach  BY <2>2 DEF Attach, Shares, Owned
    <2>3. CASE Rejoined \/ RejoinFails  BY <2>3, <1>u DEF Rejoined, RejoinFails
    <2>4. CASE PollBegin \/ Stop  BY <2>4, <1>u DEF PollBegin, Stop
    <2>5. CASE Offer \/ OfferReturns  BY <2>5, <1>u DEF Offer, OfferReturns
    <2>6. CASE GroupByLeader \/ LeadersDone  BY <2>6, <1>u DEF GroupByLeader, LeadersDone
    <2>7. CASE Answer  BY <2>7, <1>e DEF Answer, Owned
    <2>8. CASE OutOfRange  BY <2>8, <1>e DEF OutOfRange, Owned
    <2>9. CASE NoRecords \/ PartitionRetriable
        BY <2>9, <1>e DEF NoRecords, PartitionRetriable, Owned
    <2>10. CASE GotRecords
        <3>1. PICK p \in entries : entries' = entries \ {p}  BY <2>10 DEF GotRecords
        <3>2. UNCHANGED <<cache, assignment>>  BY <2>10 DEF GotRecords
        <3> QED  BY <3>1, <3>2, <1>e DEF Owned
    <2>11. CASE EntriesDone \/ Refresh \/ PollEnd \/ Backoff
        BY <2>11, <1>u DEF EntriesDone, Refresh, PollEnd, Backoff
    <2>12. CASE Flush  BY <2>12, <1>u DEF Flush
    <2>13. CASE Restart  BY <2>13, <1>n DEF Restart
    <2> QED  BY <1>p, <2>1, <2>2, <2>3, <2>4, <2>5, <2>6, <2>7, <2>8, <2>9, <2>10, <2>11,
                <2>12, <2>13 DEF PollStep
<1>f. ASSUME FaultStep PROVE Owned'
    <2>1. CASE AttachFails \/ RefreshFails \/ Abort
        BY <2>1, <1>u DEF AttachFails, RefreshFails, Abort
    <2>2. CASE BrokerUnreachable \/ SendFails \/ AnswerError
        BY <2>2, <1>u DEF BrokerUnreachable, SendFails, AnswerError
    <2>3. CASE UnknownTopic  BY <2>3, <1>e DEF UnknownTopic, Owned
    <2>4. CASE PartitionFatal  BY <2>4, <1>e DEF PartitionFatal, Owned
    <2>5. CASE CorruptRecords  BY <2>5, <1>e DEF CorruptRecords
    <2>6. CASE Crash  BY <2>6, <1>n DEF Crash
    <2> QED  BY <1>f, <2>1, <2>2, <2>3, <2>4, <2>5, <2>6 DEF FaultStep
<1>q. ASSUME PipelineStep PROVE Owned'
    BY <1>q, <1>u DEF PipelineStep, AckBatch, NackBatch
<1>g. ASSUME GroupStep PROVE Owned'
    <2>1. CASE CommitStaged  BY <2>1, <1>u DEF CommitStaged
    <2>2. CASE Rebalance
        <3>1. PICK S \in SUBSET Partitions :
                cache' = [generation |-> cache.generation + 1, partitions |-> S,
                          committed |-> committed]
            BY <2>2 DEF Rebalance
        <3>2. cache.generation \in Int  BY DEF Owned, Shares
        <3>3. cache' \in Shares  BY <3>1, <3>2, <1>c DEF Shares
        <3>4. UNCHANGED <<assignment, entries>>  BY <2>2 DEF Rebalance
        <3> QED  BY <3>3, <3>4 DEF Owned
    <2>3. CASE \E p \in Partitions : OtherMember(p)  BY <2>3, <1>u DEF OtherMember
    <2> QED  BY <1>g, <2>1, <2>2, <2>3 DEF GroupStep
<1>b. ASSUME BrokerStep PROVE Owned'
    BY <1>b, <1>u DEF BrokerStep, LeaderMoves, Elected, Append, Retention
<1>v. ASSUME UNCHANGED vars PROVE Owned'  BY <1>v, <1>u DEF vars
<1> QED  BY <1>p, <1>f, <1>q, <1>g, <1>b, <1>v DEF Next

-----------------------------------------------------------------------------
(* The invariant                                                             *)

\* Only producers and retention change the bounds of the log.
LEMMA LogTypesStep == ASSUME LogTypes, [Next]_vars PROVE LogTypes'
<1> USE DEF LogTypes
<1>u. ASSUME UNCHANGED brokers PROVE LogTypes'  BY <1>u DEF brokers
<1>b. ASSUME BrokerStep PROVE LogTypes'
    <2> SUFFICES ASSUME NEW p \in Partitions,
                        LeaderMoves(p) \/ Elected(p) \/ Append(p) \/ Retention(p)
                 PROVE  LogTypes'
        BY <1>b DEF BrokerStep
    <2>1. CASE LeaderMoves(p) \/ Elected(p)  BY <2>1 DEF LeaderMoves, Elected
    <2>2. CASE Append(p)
        <3>1. PICK h \in Boundaries(p) : hw' = [hw EXCEPT ![p] = h]  BY <2>2 DEF Append
        <3>2. h \in Int  BY BoundariesNat
        <3>3. logStart' = logStart  BY <2>2 DEF Append
        <3> QED  BY <3>1, <3>2, <3>3
    <2>3. CASE Retention(p)
        <3>1. PICK b \in Log[p] : logStart' = [logStart EXCEPT ![p] = b.first]
            BY <2>3 DEF Retention
        <3>2. b.first \in Int  BY LogAssumption
        <3>3. hw' = hw  BY <2>3 DEF Retention
        <3> QED  BY <3>1, <3>2, <3>3
    <2> QED  BY <2>1, <2>2, <2>3
<1> HIDE DEF LogTypes
<1> USE DEF FetchState
<1>1. ASSUME PollStep PROVE UNCHANGED brokers
    BY <1>1 DEF PollStep, Start, Attach, Rejoined, PollBegin, Offer, OfferReturns,
        GroupByLeader, Answer, LeadersDone, OutOfRange, NoRecords, GotRecords, EntriesDone,
        Refresh, PollEnd, Backoff, Stop, Flush, Restart, RejoinFails, PartitionRetriable,
        NewProcess
<1>2. ASSUME FaultStep PROVE UNCHANGED brokers
    BY <1>2 DEF FaultStep, AttachFails, BrokerUnreachable, SendFails, AnswerError,
        UnknownTopic, PartitionFatal, CorruptRecords, RefreshFails, Abort, Crash, NewProcess
<1>3. ASSUME PipelineStep \/ GroupStep PROVE UNCHANGED brokers
    BY <1>3 DEF PipelineStep, AckBatch, NackBatch, GroupStep, CommitStaged, Rebalance,
        OtherMember
<1>4. ASSUME UNCHANGED vars PROVE UNCHANGED brokers  BY <1>4 DEF vars
<1> QED  BY <1>b, <1>u, <1>1, <1>2, <1>3, <1>4 DEF Next

\* Nothing is read, and nothing finished but what the group committed.
LEMMA IInvInit == Init => IInv
<1> SUFFICES ASSUME Init PROVE IInv  OBVIOUS
<1>0. /\ next = None /\ finished = None /\ staged = None /\ committed = InitCommitted
      /\ tracked = [p \in Partitions |-> FreshTracker]
      /\ cache.committed = InitCommitted /\ passed = [p \in Partitions |-> 0]
      /\ hw = InitEnd /\ logStart = [p \in Partitions |-> 0]
      /\ processed = {r \in Records : r[2] \in Data(r[1]) /\ r[2] < InitCommitted[r[1]]}
    BY DEF Init
<1>1. InitCommitted \in [Partitions -> Int] /\ InitEnd \in [Partitions -> Int]
    BY LogAssumption DEF NoOffset
<1>2. None \in [Partitions -> Int] /\ \A p \in Partitions : None[p] = NoOffset
    BY DEF None, NoOffset
<1>3. /\ FreshTracker \in Trackers /\ FreshTracker.in_flight = {}
      /\ FreshTracker.position = NoOffset
    BY DEF FreshTracker, Trackers, NoOffset
<1>4. tracked \in [Partitions -> Trackers]  BY <1>0, <1>3
<1>5. Types /\ LogTypes  BY <1>0, <1>1, <1>2, <1>4 DEF Types, LogTypes
<1>6. \A p \in Partitions : Safe(p, InitCommitted[p])
    <2> SUFFICES ASSUME NEW p \in Partitions, NEW o \in Data(p), o < InitCommitted[p]
                 PROVE  <<p, o>> \in processed
        BY DEF Safe
    <2>1. <<p, o>> \in Records  BY DEF Records
    <2> QED  BY <2>1, <1>0
<1>7. OffsetsSafe  BY <1>0, <1>2, <1>6, NoOffsetSafe DEF OffsetsSafe
<1>8. TrackersCover  BY <1>0, <1>3, NoOffsetSafe DEF TrackersCover, Safe
<1>9. NothingSkipped  BY <1>0, <1>2, NoOffsetSafe DEF NothingSkipped, Safe
<1> QED  BY <1>5, <1>7, <1>8, <1>9 DEF IInv

\* Every step of the consumer, the group and the brokers.
LEMMA IInvStep == ASSUME IInv, Owned, [Next]_vars PROVE IInv'
<1>l. LogTypes'  BY LogTypesStep DEF IInv
<1>i. ASSUME UNCHANGED Relevant PROVE IInv'  BY <1>i, <1>l, IrrelevantStep
<1>n. ASSUME NewProcess PROVE IInv'  BY <1>n, NewProcessStep
<1> USE DEF consumer, poll, pipeline, group, brokers, history, FetchState
<1>p. ASSUME PollStep PROVE IInv'
    <2>1. CASE Start  BY <2>1, <1>i DEF Start, Relevant
    <2>2. CASE Attach  BY <2>2, AttachStep
    <2>3. CASE Rejoined  BY <2>3, ResolveStep DEF Rejoined
    <2>4. CASE RejoinFails
        <3>1. PICK S \in SUBSET {p \in Unresolved(leader) : leader[p] = actual[p]} :
                ResolveOffsets(S)
            BY <2>4 DEF RejoinFails
        <3> QED  BY <2>4, <3>1, ResolveStep DEF RejoinFails
    <2>5. CASE PollBegin  BY <2>5, CommittablesStep DEF PollBegin
    <2>6. CASE Stop  BY <2>6, CommittablesStep DEF Stop
    <2>7. CASE Offer  BY <2>7, OfferStep
    <2>8. CASE OfferReturns  BY <2>8, OfferReturnsStep
    <2>9. CASE GroupByLeader \/ Answer \/ LeadersDone \/ NoRecords
        BY <2>9, <1>i DEF GroupByLeader, Answer, LeadersDone, NoRecords, Relevant
    <2>10. CASE OutOfRange  BY <2>10, OutOfRangeStep
    <2>11. CASE GotRecords  BY <2>11, GotRecordsStep DEF Owned
    <2>12. CASE EntriesDone \/ PollEnd \/ Backoff \/ PartitionRetriable
        BY <2>12, <1>i DEF EntriesDone, PollEnd, Backoff, PartitionRetriable, Relevant
    <2>13. CASE Refresh  BY <2>13, ResolveStep DEF Refresh
    <2>14. CASE Flush
        <3>1. CASE UNCHANGED <<committed, staged>>  BY <2>14, <3>1, <1>i DEF Flush, Relevant
        <3>2. CASE /\ staged' = None
                   /\ committed' = [p \in Partitions |->
                                     IF staged[p] >= 0 THEN staged[p] ELSE committed[p]]
            BY <2>14, <3>2, CommitStep DEF Flush
        <3> QED  BY <2>14, <3>1, <3>2 DEF Flush
    <2>15. CASE Restart  BY <2>15, <1>n DEF Restart
    <2> QED  BY <1>p, <2>1, <2>2, <2>3, <2>4, <2>5, <2>6, <2>7, <2>8, <2>9, <2>10, <2>11,
                <2>12, <2>13, <2>14, <2>15 DEF PollStep
<1>f. ASSUME FaultStep PROVE IInv'
    <2>1. CASE AttachFails \/ Abort  BY <2>1, <1>i DEF AttachFails, Abort, Relevant
    <2>2. CASE BrokerUnreachable \/ SendFails \/ AnswerError
        BY <2>2, <1>i DEF BrokerUnreachable, SendFails, AnswerError, Relevant
    <2>3. CASE UnknownTopic \/ PartitionFatal \/ CorruptRecords
        BY <2>3, <1>i DEF UnknownTopic, PartitionFatal, CorruptRecords, Relevant
    <2>4. CASE RefreshFails
        <3>1. CASE UNCHANGED <<leader, next, passed>>
            BY <2>4, <3>1, <1>i DEF RefreshFails, Relevant
        <3>2. CASE \E S \in SUBSET Unresolved(actual) : ResolveOffsets(S)
            <4>1. PICK S \in SUBSET Unresolved(actual) : ResolveOffsets(S)  BY <3>2
            <4> QED  BY <2>4, <4>1, ResolveStep DEF RefreshFails
        <3> QED  BY <2>4, <3>1, <3>2 DEF RefreshFails
    <2>5. CASE Crash  BY <2>5, <1>n DEF Crash
    <2> QED  BY <1>f, <2>1, <2>2, <2>3, <2>4, <2>5 DEF FaultStep
<1>q. ASSUME PipelineStep PROVE IInv'
    <2>1. ASSUME NEW b, NackBatch(b) PROVE IInv'
        BY <2>1, <1>i DEF NackBatch, Relevant
    <2> QED  BY <1>q, <2>1, AckStep DEF PipelineStep
<1>g. ASSUME GroupStep PROVE IInv'
    <2>1. CASE CommitStaged  BY <2>1, CommitStep DEF CommitStaged
    <2>2. CASE Rebalance  BY <2>2, RebalanceStep
    <2>3. CASE \E p \in Partitions : OtherMember(p)  BY <2>3, OtherMemberStep
    <2> QED  BY <1>g, <2>1, <2>2, <2>3 DEF GroupStep
<1>b. ASSUME BrokerStep PROVE IInv'
    BY <1>b, <1>i DEF BrokerStep, LeaderMoves, Elected, Append, Retention, Relevant
<1>v. ASSUME UNCHANGED vars PROVE IInv'  BY <1>v, <1>i DEF vars, Relevant
<1> QED  BY <1>p, <1>f, <1>q, <1>g, <1>b, <1>v DEF Next

\* The invariant and the shares hold together in every reachable state.
LEMMA IInvAlways == Spec => [](IInv /\ Owned)
<1>1. Init => IInv /\ Owned  BY IInvInit, OwnedInit
<1>2. IInv /\ Owned /\ [Next]_vars => (IInv /\ Owned)'
    BY IInvStep, OwnedStep DEF IInv
<1> QED  BY <1>1, <1>2, PTL DEF Spec

\* At-least-once: for any log, brokers, group and number of faults, an offset
\* that offer() staged or the owner committed never has a record below it that
\* no pipeline finished and no start offset excluded.
THEOREM CommitSafeAlways == Spec => []CommitSafe
<1>1. IInv => CommitSafe  BY DEF IInv, OffsetsSafe, CommitSafe
<1> QED  BY <1>1, IInvAlways, PTL

\* The fetch position never leaves a record behind: what poll has moved past is
\* finished, in flight in the tracker, or before the group's start.
THEOREM NothingSkippedAlways == Spec => []NothingSkipped
<1>1. IInv => NothingSkipped  BY DEF IInv
<1> QED  BY <1>1, IInvAlways, PTL
-----------------------------------------------------------------------------
(* No record is decoded twice under one assignment                           *)

\* Every offset the consumer, its group and the other members deal in is one the
\* log has reached.
InLog ==
    \A p \in Partitions :
        /\ 0 <= hw[p] /\ logStart[p] <= hw[p]
        /\ next[p] <= hw[p] /\ finished[p] <= hw[p] /\ tracked[p].position <= hw[p]
        /\ staged[p] <= hw[p] /\ committed[p] <= hw[p] /\ cache.committed[p] <= hw[p]

\* The fetch position is past every record decoded under the assignment; a
\* position given up was below the start of the log, and so were they.
HandedPassed ==
    \A p \in Partitions : \A o \in Nat :
        <<p, o>> \in handed => o < next[p] \/ (next[p] < 0 /\ o < logStart[p])

\* What poll keeps of the records of one partition in one answer.
Decoded(p, F) ==
    /\ F \subseteq Data(p) /\ next[p] >= logStart[p]
    /\ next'[p] \in Int /\ next'[p] >= next[p] /\ next'[p] <= hw[p]
    /\ \A o \in F : next[p] <= o /\ o < next'[p]
    /\ tracked'[p].in_flight = tracked[p].in_flight \cup F
    /\ tracked'[p].position <= hw[p]
    /\ \A q \in Partitions \ {p} : next'[q] = next[q] /\ tracked'[q] = tracked[q]
    /\ out' = out \cup {<<p, o>> : o \in F}
    /\ handed' = handed \cup {<<p, o>> : o \in F}

\* GotRecords, as far as the records go: whole batches below the high watermark,
\* of which those before the position are dropped.
LEMMA DecodedIs ==
    ASSUME IInv, InLog, entries \subseteq Partitions, GotRecords
    PROVE  \E p \in Partitions : \E F \in SUBSET Data(p) : Decoded(p, F)
<1> USE DEF IInv
<1>0. PICK p \in Partitions : \E upto \in {b.last : b \in Visible(p)} :
        /\ InRange(p)
        /\ out' = out \cup {<<p, o>> : o \in Fresh(p, Sent(p, upto))}
        /\ handed' = handed \cup {<<p, o>> : o \in Fresh(p, Sent(p, upto))}
        /\ tracked' = [tracked EXCEPT ![p] = Deliver(@, Fresh(p, Sent(p, upto)))]
        /\ next' = [next EXCEPT ![p] = NextAfter(p, Sent(p, upto))]
    BY DEF GotRecords, TrackDelivery
<1>1. PICK upto \in {b.last : b \in Visible(p)} :
        /\ InRange(p)
        /\ out' = out \cup {<<p, o>> : o \in Fresh(p, Sent(p, upto))}
        /\ handed' = handed \cup {<<p, o>> : o \in Fresh(p, Sent(p, upto))}
        /\ tracked' = [tracked EXCEPT ![p] = Deliver(@, Fresh(p, Sent(p, upto)))]
        /\ next' = [next EXCEPT ![p] = NextAfter(p, Sent(p, upto))]
    BY <1>0
<1>2. PICK last \in Visible(p) : upto = last.last  OBVIOUS
<1> DEFINE S == Sent(p, upto)
           F == Fresh(p, S)
           t == tracked[p]
<1>3. /\ Read(S) \subseteq Nat /\ F \subseteq Read(S) /\ F \subseteq Data(p)
      /\ Read(S) # {} => Max(Read(S)) \in Read(S) /\ \A y \in Read(S) : Max(Read(S)) >= y
      /\ F # {} => Max(F) \in F /\ \A y \in F : Max(F) >= y
    <2>1. F \subseteq Data(p)  BY DEF Fresh, Data, Sent, Visible
    <2> QED  BY <1>2, <2>1, ReadBounds
<1>4. /\ next[p] \in Int /\ hw[p] \in Int /\ next[p] <= hw[p]
      /\ t \in Trackers /\ t.position \in Int /\ t.position <= hw[p]
      /\ next \in [Partitions -> Int] /\ tracked \in [Partitions -> Trackers]
    BY DEF Types, LogTypes, InLog, Trackers
<1>5. \A r \in Read(S) : r \in Nat /\ r < hw[p]
    <2> SUFFICES ASSUME NEW b \in S, NEW r \in b.records PROVE r \in Nat /\ r < hw[p]
        BY DEF Read
    <2>1. b \in Log[p] /\ b.last < hw[p]  BY DEF Sent, Visible
    <2>2. b.first \in Nat /\ b.last \in Nat /\ r \in b.first .. b.last
        BY <2>1, LogAssumption
    <2> QED  BY <2>1, <2>2, <1>4
<1>6. \A o \in F : next[p] <= o  BY DEF Fresh
<1>7. next'[p] = NextAfter(p, S)  BY <1>1, <1>4
<1>8. /\ next'[p] \in Int /\ next'[p] >= next[p] /\ next'[p] <= hw[p]
      /\ \A o \in F : o < next'[p]
    <2>1. CASE Read(S) = {}  BY <2>1, <1>3, <1>4, <1>7 DEF NextAfter
    <2>2. CASE Read(S) # {}
        <3> DEFINE m == Max(Read(S))
        <3>1. next'[p] = Larger(next[p], m + 1)  BY <2>2, <1>7 DEF NextAfter
        <3>2. m \in Nat /\ m < hw[p] /\ \A o \in F : o \in Nat /\ m >= o
            BY <2>2, <1>3, <1>5
        <3> HIDE DEF m, F
        <3>3. /\ Larger(next[p], m + 1) \in Int /\ Larger(next[p], m + 1) >= next[p]
              /\ Larger(next[p], m + 1) >= m + 1 /\ Larger(next[p], m + 1) <= hw[p]
            BY <3>2, <1>4 DEF Larger
        <3>4. \A o \in F : o < next'[p]  BY <3>1, <3>2, <3>3
        <3> QED  BY <3>1, <3>3, <3>4
    <2> QED  BY <2>1, <2>2
<1>9. /\ tracked'[p].in_flight = t.in_flight \cup F
      /\ tracked'[p].position <= hw[p]
    <2>1. tracked'[p] = Deliver(t, F)  BY <1>1, <1>4
    <2>2. CASE F = {}
        <3>1. Deliver(t, F) = t  BY <2>2 DEF Deliver
        <3> QED  BY <2>1, <2>2, <3>1, <1>4
    <2>3. CASE F # {}
        <3>1. F \in SUBSET Nat /\ Max(F) \in Nat /\ Max(F) < hw[p]
            BY <2>3, <1>3, <1>5
        <3> HIDE DEF F, t
        <3>2. Deliver(t, F) = [position |-> Larger(t.position, Max(F) + 1),
                               committed |-> t.committed, in_flight |-> t.in_flight \cup F]
            BY <2>3, <3>1, <1>4, TrackerFields, 0 \in Int
        <3>3. Larger(t.position, Max(F) + 1) <= hw[p]
            BY <3>1, <1>4 DEF Larger
        <3> QED  BY <2>1, <3>2, <3>3 DEF t
    <2> QED  BY <2>2, <2>3
<1>10. \A q \in Partitions \ {p} : next'[q] = next[q] /\ tracked'[q] = tracked[q]
    BY <1>1, <1>4
<1>11. next[p] >= logStart[p]  BY <1>1 DEF InRange
<1>12. Decoded(p, F)
    BY <1>1, <1>3, <1>6, <1>8, <1>9, <1>10, <1>11 DEF Decoded
<1> QED  BY <1>12, <1>3

\* What commit_acked offers is within the log.
LEMMA CommittableInLog ==
    ASSUME Types, LogTypes, TrackersCover, InLog, NEW p \in Partitions
    PROVE  Committable(tracked[p]) <= hw[p]
<1> DEFINE t == tracked[p]
<1>1. t.position \in Int /\ t.in_flight \subseteq Nat /\ t.committed \in Int
      /\ t.position <= hw[p] /\ 0 <= hw[p] /\ hw[p] \in Int
    BY DEF Types, LogTypes, Trackers, InLog
<1>0. Committable(t) = NoOffset \/ Committable(t) = Resume(t)  BY DEF Committable
<1>n. NoOffset <= hw[p]  BY <1>1 DEF NoOffset, LogTypes
<1>2. CASE t.in_flight = {}
    <2>1. Resume(t) = t.position  BY <1>2 DEF Resume
    <2> QED  BY <2>1, <1>0, <1>1, <1>n
<1>3. CASE t.in_flight # {}
    <2>1. Resume(t) = Min(t.in_flight)  BY <1>3 DEF Resume
    <2>2. Min(t.in_flight) \in t.in_flight  BY <1>1, <1>3, MinIsLeast
    <2>3. Min(t.in_flight) < t.position  BY <2>2 DEF TrackersCover
    <2>4. Min(t.in_flight) <= hw[p]  BY <2>2, <2>3, <1>1
    <2> QED  BY <2>1, <2>4, <1>0, <1>n
<1> QED  BY <1>2, <1>3

Bounded == InLog /\ HandedPassed

\* What both are about.
Bounds == <<next, tracked, finished, staged, committed, cache, handed, hw, logStart>>

\* A step that leaves these variables alone preserves both.
LEMMA BoundsStill == ASSUME Bounded, UNCHANGED Bounds PROVE Bounded'
BY DEF Bounded, Bounds, InLog, HandedPassed

\* ListOffsets answers with an offset of the log, at or past its start, and only
\* for a position that is unknown.
LEMMA ResolveBounded ==
    ASSUME IInv, IInv', Bounded, NEW S, ResolveOffsets(S), \A p \in S : next[p] < 0,
           UNCHANGED <<tracked, finished, staged, committed, cache, handed, hw, logStart>>
    PROVE  Bounded'
<1>1. ASSUME NEW p \in Partitions
      PROVE  /\ next'[p] = next[p] \/ (next[p] < 0 /\ next'[p] = StartOffset(p))
             /\ StartOffset(p) \in Int /\ StartOffset(p) <= hw[p] /\ logStart[p] <= StartOffset(p)
             /\ next[p] \in Int /\ logStart[p] \in Int /\ next[p] <= hw[p]
    BY DEF ResolveOffsets, StartOffset, IInv, Types, LogTypes, Bounded, InLog
<1>2. InLog'
    <2>1. \A p \in Partitions : next'[p] <= hw[p]  BY <1>1
    <2> QED  BY <2>1 DEF Bounded, InLog
<1>3. HandedPassed'
    <2> SUFFICES ASSUME NEW p \in Partitions, NEW o \in Nat, <<p, o>> \in handed
                 PROVE  o < next'[p] \/ (next'[p] < 0 /\ o < logStart[p])
        BY DEF HandedPassed
    <2>1. o < next[p] \/ (next[p] < 0 /\ o < logStart[p])
        BY DEF Bounded, HandedPassed
    <2> QED  BY <2>1, <1>1
<1> QED  BY <1>2, <1>3 DEF Bounded

\* Under a new assignment nothing has been decoded, and the positions are those
\* the group committed.
LEMMA AttachBounded == ASSUME IInv, IInv', Bounded, Attach PROVE Bounded'
<1>0. /\ UNCHANGED <<finished, staged, committed, cache, hw, logStart>> /\ handed' = {}
    BY DEF Attach, poll, group, brokers
<1>1. ASSUME NEW p \in Partitions
      PROVE  next'[p] <= hw[p] /\ tracked'[p].position <= hw[p]
    <2>1. /\ next'[p] = NoOffset \/ next'[p] = cache.committed[p]
          /\ hw[p] \in Int /\ 0 <= hw[p] /\ cache.committed[p] <= hw[p]
        BY DEF Attach, IInv, LogTypes, Bounded, InLog
    <2>2. next'[p] <= hw[p] /\ next'[p] \in Int
        BY <2>1 DEF NoOffset, IInv, Types
    <2>3. FreshTracker \in Trackers /\ FreshTracker.in_flight = {}
          /\ FreshTracker.position = NoOffset
        BY DEF FreshTracker, Trackers, NoOffset
    <2>4. CASE next'[p] >= 0
        <3>1. tracked'[p] = MarkCommitted(FreshTracker, next'[p])  BY <2>4 DEF Attach
        <3>2. tracked'[p] = [position |-> Larger(NoOffset, next'[p]), committed |-> next'[p],
                             in_flight |-> {}]
            BY <3>1, <2>2, <2>3, TrackerFields
        <3> QED  BY <3>2, <2>2, <2>4 DEF Larger, NoOffset
    <2>5. CASE ~(next'[p] >= 0)
        <3>1. tracked'[p] = FreshTracker  BY <2>5 DEF Attach
        <3> QED  BY <3>1, <2>1, <2>2, <2>3 DEF NoOffset
    <2> QED  BY <2>2, <2>4, <2>5
<1> QED  BY <1>0, <1>1 DEF Bounded, InLog, HandedPassed

\* An offer goes from the trackers to the staged offsets and back.
LEMMA OffersBounded ==
    ASSUME IInv, IInv', Bounded, PollBegin \/ Stop \/ Offer \/ OfferReturns
    PROVE  Bounded'
<1> USE DEF poll, group, brokers, history, consumer
<1>0. UNCHANGED <<next, committed, cache, handed, hw, logStart>>
    BY DEF PollBegin, Stop, Offer, OfferReturns
<1>1. ASSUME NEW p \in Partitions
      PROVE  finished'[p] <= hw[p] /\ staged'[p] <= hw[p] /\ tracked'[p].position <= hw[p]
    <2>1. /\ finished[p] \in Int /\ staged[p] \in Int /\ tracked[p] \in Trackers
          /\ tracked[p].position \in Int /\ hw[p] \in Int /\ 0 <= hw[p]
          /\ finished[p] <= hw[p] /\ staged[p] <= hw[p] /\ tracked[p].position <= hw[p]
        BY DEF IInv, Types, LogTypes, Trackers, Bounded, InLog
    <2>2. CASE PollBegin \/ Stop
        <3>1. finished' = Committables /\ UNCHANGED <<staged, tracked>>
            BY <2>2 DEF PollBegin, Stop
        <3> QED  BY <3>1, <2>1, CommittableInLog DEF Committables, IInv, Bounded
    <2>3. CASE Offer
        <3>1. staged'[p] = Larger(staged[p], finished[p]) /\ UNCHANGED <<finished, tracked>>
            BY <2>3 DEF Offer
        <3> QED  BY <3>1, <2>1, LargerInt
    <2>4. CASE OfferReturns
        <3>1. UNCHANGED staged /\ finished' = None  BY <2>4 DEF OfferReturns
        <3>2. finished'[p] <= hw[p]  BY <3>1, <2>1 DEF None, NoOffset
        <3>3. CASE finished[p] >= 0
            <4>1. tracked'[p] = MarkCommitted(tracked[p], finished[p])
                BY <2>4, <3>3 DEF OfferReturns
            <4>2. tracked'[p] = [position |-> Larger(tracked[p].position, finished[p]),
                                 committed |-> finished[p],
                                 in_flight |-> tracked[p].in_flight]
                BY <4>1, <2>1, TrackerFields
            <4>3. Larger(tracked[p].position, finished[p]) <= hw[p]  BY <2>1 DEF Larger
            <4> QED  BY <3>1, <3>2, <4>2, <4>3, <2>1
        <3>4. CASE ~(finished[p] >= 0)
            <4>1. tracked'[p] = tracked[p]  BY <2>4, <3>4 DEF OfferReturns
            <4> QED  BY <3>1, <3>2, <4>1, <2>1
        <3> QED  BY <3>3, <3>4
    <2> QED  BY <2>2, <2>3, <2>4
<1> QED  BY <1>0, <1>1 DEF Bounded, InLog, HandedPassed

\* A position out of range was below the start of the log, since none is past
\* its end.
LEMMA OutOfRangeBounded ==
    ASSUME IInv, Bounded, entries \subseteq Partitions, OutOfRange
    PROVE  Bounded'
<1> USE DEF IInv
<1>0. UNCHANGED <<tracked, finished, staged, committed, cache, handed, hw, logStart>>
    BY DEF OutOfRange, group, brokers, history
<1>1. PICK p \in Partitions : ~InRange(p) /\ next' = [next EXCEPT ![p] = NoOffset]
    BY DEF OutOfRange
<1>2. /\ next'[p] = NoOffset /\ \A q \in Partitions : q # p => next'[q] = next[q]
      /\ next[p] \in Int /\ hw[p] \in Int /\ logStart[p] \in Int /\ 0 <= hw[p]
      /\ next[p] <= hw[p]
    BY <1>1 DEF Types, LogTypes, Bounded, InLog
<1>3. next[p] < logStart[p]  BY <1>1, <1>2 DEF InRange
<1>4. InLog'
    <2>1. next'[p] <= hw[p]  BY <1>2 DEF NoOffset
    <2>2. \A q \in Partitions : next'[q] <= hw[q]  BY <2>1, <1>2 DEF Bounded, InLog
    <2> QED  BY <2>2, <1>0 DEF Bounded, InLog
<1>5. HandedPassed'
    <2> SUFFICES ASSUME NEW q \in Partitions, NEW o \in Nat, <<q, o>> \in handed
                 PROVE  o < next'[q] \/ (next'[q] < 0 /\ o < logStart[q])
        BY <1>0 DEF HandedPassed
    <2>1. o < next[q] \/ (next[q] < 0 /\ o < logStart[q])
        BY DEF Bounded, HandedPassed
    <2>2. CASE q # p  BY <2>1, <2>2, <1>2
    <2>3. CASE q = p  BY <2>1, <2>3, <1>2, <1>3 DEF NoOffset
    <2> QED  BY <2>2, <2>3
<1> QED  BY <1>4, <1>5 DEF Bounded

\* Fetched records move the position past themselves, and not past the end.
LEMMA GotRecordsBounded ==
    ASSUME IInv, Bounded, entries \subseteq Partitions, GotRecords
    PROVE  Bounded'
<1> USE DEF IInv
<1>0. UNCHANGED <<finished, staged, committed, cache, hw, logStart>>
    BY DEF GotRecords, group, brokers
<1>1. PICK p \in Partitions : \E F \in SUBSET Data(p) : Decoded(p, F)
    BY DecodedIs DEF Bounded
<1>2. PICK F \in SUBSET Data(p) : Decoded(p, F)  BY <1>1
<1>3. InLog'  BY <1>0, <1>2 DEF Bounded, InLog, Decoded
<1>4. HandedPassed'
    <2> SUFFICES ASSUME NEW q \in Partitions, NEW o \in Nat, <<q, o>> \in handed'
                 PROVE  o < next'[q] \/ (next'[q] < 0 /\ o < logStart[q])
        BY <1>0 DEF HandedPassed
    <2>1. <<q, o>> \in handed \/ (q = p /\ o \in F)  BY <1>2 DEF Decoded
    <2>2. CASE <<q, o>> \in handed
        <3>1. o < next[q] \/ (next[q] < 0 /\ o < logStart[q])
            BY <2>2 DEF Bounded, HandedPassed
        <3>2. q # p => next'[q] = next[q]  BY <1>2 DEF Decoded
        <3>3. /\ next[p] \in Int /\ next'[p] \in Int /\ next'[p] >= next[p]
              /\ logStart[p] <= next[p] /\ logStart[p] \in Int
            BY <1>2 DEF Decoded, Types, LogTypes
        <3> QED  BY <3>1, <3>2, <3>3
    <2>3. CASE q = p /\ o \in F  BY <2>3, <1>2 DEF Decoded
    <2> QED  BY <2>1, <2>2, <2>3
<1> QED  BY <1>3, <1>4 DEF Bounded

\* Commits, by the timer, by stop and by the other members, and a rebalance.
LEMMA GroupBounded ==
    ASSUME IInv, Bounded,
           \/ /\ staged' = None /\ UNCHANGED cache
              /\ committed' = [p \in Partitions |->
                                IF staged[p] >= 0 THEN staged[p] ELSE committed[p]]
           \/ Rebalance
           \/ \E p \in Partitions : OtherMember(p),
           UNCHANGED <<next, tracked, finished, handed, hw, logStart>>
    PROVE  Bounded'
<1>1. ASSUME NEW p \in Partitions
      PROVE  staged'[p] <= hw[p] /\ committed'[p] <= hw[p] /\ cache'.committed[p] <= hw[p]
    <2>1. /\ staged[p] <= hw[p] /\ committed[p] <= hw[p] /\ cache.committed[p] <= hw[p]
          /\ NoOffset <= hw[p] /\ hw[p] \in Int
        BY DEF IInv, LogTypes, Bounded, InLog, NoOffset
    <2>2. CASE /\ staged' = None /\ UNCHANGED cache
               /\ committed' = [q \in Partitions |->
                                 IF staged[q] >= 0 THEN staged[q] ELSE committed[q]]
        BY <2>1, <2>2 DEF None
    <2>3. CASE Rebalance
        <3>1. PICK S \in SUBSET Partitions :
                /\ cache' = [generation |-> cache.generation + 1, partitions |-> S,
                             committed |-> committed]
                /\ staged' = [q \in Partitions |-> IF q \in S THEN staged[q] ELSE NoOffset]
            BY <2>3 DEF Rebalance
        <3>2. UNCHANGED committed /\ cache'.committed = committed  BY <2>3, <3>1 DEF Rebalance
        <3> QED  BY <2>1, <3>1, <3>2
    <2>4. CASE \E q \in Partitions : OtherMember(q)
        <3>1. PICK q \in Partitions : OtherMember(q)  BY <2>4
        <3>2. PICK b \in Log[q] : b.last < hw[q] /\ committed' = [committed EXCEPT ![q] = b.last + 1]
            BY <3>1 DEF OtherMember
        <3>3. b.last \in Nat /\ hw[q] \in Int /\ committed \in [Partitions -> Int]
            BY LogAssumption DEF IInv, Types, LogTypes
        <3>4. UNCHANGED <<staged, cache>>  BY <3>1 DEF OtherMember
        <3>5. committed'[p] <= hw[p]  BY <2>1, <3>2, <3>3
        <3> QED  BY <2>1, <3>4, <3>5
    <2> QED  BY <2>2, <2>3, <2>4
<1> QED  BY <1>1 DEF Bounded, InLog, HandedPassed

\* The log grows at its end and shrinks at its start, up to its end.
LEMMA BrokersBounded == ASSUME IInv, Bounded, BrokerStep PROVE Bounded'
<1> USE DEF consumer, poll, group, history
<1>0. UNCHANGED <<next, tracked, finished, staged, committed, cache, handed>>
    BY DEF BrokerStep, LeaderMoves, Elected, Append, Retention
<1>1. \A p \in Partitions : hw[p] \in Int /\ logStart[p] \in Int
    BY DEF IInv, LogTypes
<1>2. ASSUME NEW p \in Partitions
      PROVE  /\ hw'[p] >= hw[p] /\ hw'[p] \in Int
             /\ logStart'[p] \in Int /\ logStart'[p] >= logStart[p]
             /\ logStart'[p] = logStart[p] \/ logStart'[p] < hw[p]
    <2>1. PICK q \in Partitions : LeaderMoves(q) \/ Elected(q) \/ Append(q) \/ Retention(q)
        BY DEF BrokerStep
    <2>2. CASE LeaderMoves(q) \/ Elected(q)
        BY <2>2, <1>1 DEF LeaderMoves, Elected
    <2>3. CASE Append(q)
        <3>1. PICK h \in Boundaries(q) : h > hw[q] /\ hw' = [hw EXCEPT ![q] = h]
            BY <2>3 DEF Append
        <3>2. h \in Int /\ hw \in [Partitions -> Int] /\ logStart' = logStart
            BY <2>3, BoundariesNat DEF Append, IInv, LogTypes
        <3> QED  BY <3>1, <3>2, <1>1
    <2>4. CASE Retention(q)
        <3>1. PICK b \in Log[q] :
                /\ b.first > logStart[q] /\ b.first < hw[q]
                /\ logStart' = [logStart EXCEPT ![q] = b.first]
            BY <2>4 DEF Retention
        <3>2. b.first \in Int /\ logStart \in [Partitions -> Int] /\ hw' = hw
            BY <2>4, LogAssumption DEF Retention, IInv, LogTypes
        <3> QED  BY <3>1, <3>2, <1>1
    <2> QED  BY <2>1, <2>2, <2>3, <2>4
<1>3. ASSUME NEW p \in Partitions
      PROVE  /\ next[p] \in Int /\ finished[p] \in Int /\ tracked[p].position \in Int
             /\ staged[p] \in Int /\ committed[p] \in Int /\ cache.committed[p] \in Int
    BY DEF IInv, Types, Trackers
<1>4. InLog'
    <2> SUFFICES ASSUME NEW p \in Partitions
                 PROVE  /\ 0 <= hw'[p] /\ logStart'[p] <= hw'[p]
                        /\ next[p] <= hw'[p] /\ finished[p] <= hw'[p]
                        /\ tracked[p].position <= hw'[p] /\ staged[p] <= hw'[p]
                        /\ committed[p] <= hw'[p] /\ cache.committed[p] <= hw'[p]
        BY <1>0 DEF InLog
    <2>1. /\ 0 <= hw[p] /\ logStart[p] <= hw[p]
          /\ next[p] <= hw[p] /\ finished[p] <= hw[p] /\ tracked[p].position <= hw[p]
          /\ staged[p] <= hw[p] /\ committed[p] <= hw[p] /\ cache.committed[p] <= hw[p]
        BY DEF Bounded, InLog
    <2> QED  BY <2>1, <1>1, <1>2, <1>3
<1>5. HandedPassed'
    <2> SUFFICES ASSUME NEW p \in Partitions, NEW o \in Nat, <<p, o>> \in handed
                 PROVE  o < next[p] \/ (next[p] < 0 /\ o < logStart'[p])
        BY <1>0 DEF HandedPassed
    <2>1. o < next[p] \/ (next[p] < 0 /\ o < logStart[p])
        BY DEF Bounded, HandedPassed
    <2> QED  BY <2>1, <1>1, <1>2, <1>3
<1> QED  BY <1>4, <1>5 DEF Bounded

\* A new process has read nothing and starts from the committed offsets.
LEMMA NewProcessBounded == ASSUME IInv, Bounded, Owned, NewProcess PROVE Bounded'
<1>0. /\ UNCHANGED <<committed, hw, logStart>>
      /\ next' = None /\ finished' = None /\ staged' = None /\ handed' = {}
      /\ tracked' = [p \in Partitions |-> FreshTracker]
      /\ cache' = [cache EXCEPT !.committed = committed, !.generation = @ + 1]
    BY DEF NewProcess, brokers
<1>1. cache'.committed = committed  BY <1>0 DEF Owned, Shares
<1>2. \A p \in Partitions : NoOffset <= hw[p]
    BY DEF Bounded, InLog, NoOffset, IInv, LogTypes
<1>3. \A p \in Partitions : tracked'[p].position = NoOffset
    BY <1>0 DEF FreshTracker
<1>4. InLog'  BY <1>0, <1>1, <1>2, <1>3 DEF Bounded, InLog, None
<1>5. HandedPassed'  BY <1>0 DEF HandedPassed
<1> QED  BY <1>4, <1>5 DEF Bounded

\* Nothing is decoded at first, and the group committed no more than the log has.
LEMMA BoundedInit == Init => Bounded
<1> SUFFICES ASSUME Init PROVE Bounded  OBVIOUS
<1>1. /\ next = None /\ finished = None /\ staged = None /\ committed = InitCommitted
      /\ tracked = [p \in Partitions |-> FreshTracker] /\ cache.committed = InitCommitted
      /\ hw = InitEnd /\ logStart = [p \in Partitions |-> 0] /\ handed = {}
    BY DEF Init
<1>2. \A p \in Partitions : InitEnd[p] \in Nat /\ InitCommitted[p] <= InitEnd[p]
    <2> SUFFICES ASSUME NEW p \in Partitions
                 PROVE  InitEnd[p] \in Nat /\ InitCommitted[p] <= InitEnd[p]
        OBVIOUS
    <2>1. InitEnd[p] \in Nat /\ InitCommitted[p] \in Int /\ InitEnd[p] >= InitCommitted[p]
        BY LogAssumption DEF NoOffset
    <2> QED  BY <2>1
<1>3. \A p \in Partitions : tracked[p].position = NoOffset  BY <1>1 DEF FreshTracker
<1>4. InLog  BY <1>1, <1>2, <1>3 DEF InLog, None, NoOffset
<1> QED  BY <1>1, <1>4 DEF Bounded, HandedPassed

\* Every step of the consumer, the group and the brokers.
LEMMA BoundedStep ==
    ASSUME IInv, IInv', Owned, Bounded, [Next]_vars
    PROVE  Bounded'
<1>u. ASSUME UNCHANGED Bounds PROVE Bounded'  BY <1>u, BoundsStill
<1>o. assignment \subseteq Partitions /\ entries \subseteq Partitions  BY DEF Owned
<1>r. \A lead : \A p \in Unresolved(lead) : next[p] < 0  BY DEF Unresolved
<1> USE DEF consumer, poll, pipeline, group, brokers, history, FetchState, Bounds
<1>p. ASSUME PollStep PROVE Bounded'
    <2>1. CASE Start \/ GroupByLeader \/ Answer \/ LeadersDone \/ NoRecords \/ EntriesDone
        BY <2>1, <1>u DEF Start, GroupByLeader, Answer, LeadersDone, NoRecords, EntriesDone
    <2>2. CASE PollEnd \/ Backoff \/ PartitionRetriable
        BY <2>2, <1>u DEF PollEnd, Backoff, PartitionRetriable
    <2>3. CASE Attach  BY <2>3, AttachBounded
    <2>4. CASE PollBegin \/ Stop \/ Offer \/ OfferReturns  BY <2>4, OffersBounded
    <2>5. CASE Rejoined
        <3>1. ResolveOffsets(Unresolved(leader))  BY <2>5 DEF Rejoined
        <3> QED  BY <2>5, <3>1, <1>r, ResolveBounded DEF Rejoined
    <2>6. CASE RejoinFails
        <3>1. PICK S \in SUBSET {p \in Unresolved(leader) : leader[p] = actual[p]} :
                ResolveOffsets(S)
            BY <2>6 DEF RejoinFails
        <3>2. \A p \in S : next[p] < 0  BY <1>r
        <3> QED  BY <2>6, <3>1, <3>2, ResolveBounded DEF RejoinFails
    <2>7. CASE Refresh
        <3>1. ResolveOffsets(Unresolved(actual))  BY <2>7 DEF Refresh
        <3> QED  BY <2>7, <3>1, <1>r, ResolveBounded DEF Refresh
    <2>8. CASE OutOfRange  BY <2>8, <1>o, OutOfRangeBounded
    <2>9. CASE GotRecords  BY <2>9, <1>o, GotRecordsBounded
    <2>10. CASE Flush
        <3>1. CASE UNCHANGED <<committed, staged>>  BY <2>10, <3>1, <1>u DEF Flush
        <3>2. CASE /\ staged' = None
                   /\ committed' = [p \in Partitions |->
                                     IF staged[p] >= 0 THEN staged[p] ELSE committed[p]]
            BY <2>10, <3>2, GroupBounded DEF Flush
        <3> QED  BY <2>10, <3>1, <3>2 DEF Flush
    <2>11. CASE Restart  BY <2>11, NewProcessBounded DEF Restart
    <2> QED  BY <1>p, <2>1, <2>2, <2>3, <2>4, <2>5, <2>6, <2>7, <2>8, <2>9, <2>10, <2>11
             DEF PollStep
<1>f. ASSUME FaultStep PROVE Bounded'
    <2>1. CASE AttachFails \/ Abort \/ BrokerUnreachable \/ SendFails \/ AnswerError
        BY <2>1, <1>u DEF AttachFails, Abort, BrokerUnreachable, SendFails, AnswerError
    <2>2. CASE UnknownTopic \/ PartitionFatal \/ CorruptRecords
        BY <2>2, <1>u DEF UnknownTopic, PartitionFatal, CorruptRecords
    <2>3. CASE RefreshFails
        <3>1. CASE UNCHANGED <<leader, next, passed>>  BY <2>3, <3>1, <1>u DEF RefreshFails
        <3>2. CASE \E S \in SUBSET Unresolved(actual) : ResolveOffsets(S)
            <4>1. PICK S \in SUBSET Unresolved(actual) : ResolveOffsets(S)  BY <3>2
            <4>2. \A p \in S : next[p] < 0  BY <1>r
            <4> QED  BY <2>3, <4>1, <4>2, ResolveBounded DEF RefreshFails
        <3> QED  BY <2>3, <3>1, <3>2 DEF RefreshFails
    <2>4. CASE Crash  BY <2>4, NewProcessBounded DEF Crash
    <2> QED  BY <1>f, <2>1, <2>2, <2>3, <2>4 DEF FaultStep
<1>q. ASSUME PipelineStep PROVE Bounded'
    <2>1. ASSUME NEW b, NackBatch(b) PROVE Bounded'  BY <2>1, <1>u DEF NackBatch
    <2>2. ASSUME NEW b, AckBatch(b) PROVE Bounded'
        <3>1. UNCHANGED <<next, finished, staged, committed, cache, handed, hw, logStart>>
            BY <2>2 DEF AckBatch
        <3>2. \A p \in Partitions : tracked'[p].position = tracked[p].position
            BY <2>2 DEF AckBatch, AckRecords, Ack, IInv, Types, Trackers
        <3> QED  BY <3>1, <3>2 DEF Bounded, InLog, HandedPassed
    <2> QED  BY <1>q, <2>1, <2>2 DEF PipelineStep
<1>g. ASSUME GroupStep PROVE Bounded'
    BY <1>g, GroupBounded DEF GroupStep, CommitStaged, Rebalance, OtherMember
<1>b. ASSUME BrokerStep PROVE Bounded'  BY <1>b, BrokersBounded
<1>v. ASSUME UNCHANGED vars PROVE Bounded'  BY <1>v, <1>u DEF vars
<1> QED  BY <1>p, <1>f, <1>q, <1>g, <1>b, <1>v DEF Next

\* Positions stay within the log, ahead of what was decoded.
LEMMA BoundedAlways == Spec => []Bounded
<1>1. IInv /\ IInv' /\ Owned /\ Bounded /\ [Next]_vars => Bounded'  BY BoundedStep
<1> QED  BY <1>1, BoundedInit, IInvAlways, PTL DEF Spec

\* poll decodes no record twice under one assignment, although the brokers send
\* whole batches that may begin before the offset asked for, and positions are
\* lost and found again while it reads.
THEOREM NoRepeatAlways == Spec => NoRepeat
<1>1. ASSUME IInv, Owned, Bounded, [Next]_vars
      PROVE  (out' \ out) \cap handed = {}
    <2> USE DEF consumer, poll, pipeline, group, brokers, history, FetchState
    <2>1. CASE GotRecords
        <3>1. PICK p \in Partitions : \E F \in SUBSET Data(p) : Decoded(p, F)
            BY <1>1, <2>1, DecodedIs DEF Bounded, Owned
        <3>2. PICK F \in SUBSET Data(p) : Decoded(p, F)  BY <3>1
        <3>3. /\ next[p] \in Int /\ logStart[p] \in Int /\ logStart[p] <= next[p]
            BY <1>1, <3>2 DEF IInv, Types, LogTypes, Decoded
        <3> SUFFICES ASSUME NEW o \in F PROVE <<p, o>> \notin handed
            BY <3>2 DEF Decoded
        <3>4. o \in Nat /\ next[p] <= o  BY <3>2, DataNat DEF Decoded
        <3> QED  BY <1>1, <3>3, <3>4 DEF Bounded, HandedPassed
    <2>2. ASSUME ~GotRecords PROVE out' = out \/ out' = {}
        <3>1. CASE PollStep
            BY <2>2, <3>1 DEF PollStep, Start, Attach, Rejoined, PollBegin, Offer,
                OfferReturns, GroupByLeader, Answer, LeadersDone, OutOfRange, NoRecords,
                EntriesDone, Refresh, PollEnd, Backoff, Stop, Flush, Restart, RejoinFails,
                PartitionRetriable, NewProcess
        <3>2. CASE FaultStep
            BY <3>2 DEF FaultStep, AttachFails, BrokerUnreachable, SendFails, AnswerError,
                UnknownTopic, PartitionFatal, CorruptRecords, RefreshFails, Abort, Crash,
                NewProcess
        <3>3. CASE PipelineStep \/ GroupStep
            BY <3>3 DEF PipelineStep, AckBatch, NackBatch, GroupStep, CommitStaged,
                Rebalance, OtherMember
        <3>4. CASE BrokerStep
            BY <3>4 DEF BrokerStep, LeaderMoves, Elected, Append, Retention
        <3>5. CASE UNCHANGED vars  BY <3>5 DEF vars
        <3> QED  BY <1>1, <3>1, <3>2, <3>3, <3>4, <3>5 DEF Next
    <2> QED  BY <2>1, <2>2
<1>2. IInv /\ Owned /\ Bounded /\ [Next]_vars => [(out' \ out) \cap handed = {}]_vars
    BY <1>1
<1> QED  BY <1>2, IInvAlways, BoundedAlways, PTL DEF Spec, NoRepeat

-----------------------------------------------------------------------------
(* Records already decoded are handed to the caller                          *)

\* A tracker's offsets are records of its partition's log.
FlightIsData == \A p \in Partitions : tracked[p].in_flight \subseteq Data(p)

Held == FlightIsData /\ DecodedIsHandedOut

\* A step that leaves trackers and batches alone forgets no record.
LEMMA HeldStill ==
    ASSUME Held, UNCHANGED <<tracked, refused, batches>>, out \subseteq out'
    PROVE  Held'
BY DEF Held, FlightIsData, DecodedIsHandedOut

\* A tracker that is emptied, or only told of a commit, holds nothing new.
LEMMA HeldWithLess ==
    ASSUME Held, \A p \in Partitions : tracked'[p].in_flight \subseteq tracked[p].in_flight,
           UNCHANGED <<refused, batches, out>>
    PROVE  Held'
<1>1. FlightIsData'  BY DEF Held, FlightIsData
<1>2. DecodedIsHandedOut'
    <2> SUFFICES ASSUME NEW p \in Partitions, NEW o \in tracked'[p].in_flight
                 PROVE  \/ <<p, o>> \in out \cup refused
                        \/ \E b \in batches : <<p, o>> \in b.records
        BY DEF DecodedIsHandedOut
    <2> QED  BY DEF Held, DecodedIsHandedOut
<1> QED  BY <1>1, <1>2 DEF Held

\* A tracker that holds nothing has forgotten nothing.
LEMMA HeldEmpty ==
    ASSUME \A p \in Partitions : tracked'[p].in_flight = {}
    PROVE  Held'
BY DEF Held, FlightIsData, DecodedIsHandedOut

\* The records of an answered batch leave the trackers with it.
LEMMA AckHeld == ASSUME IInv, Held, NEW b \in batches, AckBatch(b) PROVE Held'
<1>0. /\ UNCHANGED <<out, refused>> /\ batches' = batches \ {b}
      /\ tracked' = AckRecords(b.records)
    BY DEF AckBatch, poll
<1>1. ASSUME NEW p \in Partitions
      PROVE  tracked'[p].in_flight = tracked[p].in_flight \ OffsetsOf(b.records, p)
    BY <1>0 DEF AckRecords, Ack, IInv, Types, Trackers
<1>2. FlightIsData'  BY <1>1 DEF Held, FlightIsData
<1>3. DecodedIsHandedOut'
    <2> SUFFICES ASSUME NEW p \in Partitions, NEW o \in tracked'[p].in_flight
                 PROVE  \/ <<p, o>> \in out \cup refused
                        \/ \E c \in batches' : <<p, o>> \in c.records
        BY <1>0 DEF DecodedIsHandedOut
    <2>1. o \in tracked[p].in_flight /\ o \in Data(p) /\ o \notin OffsetsOf(b.records, p)
        BY <1>1 DEF Held, FlightIsData
    <2>2. <<p, o>> \notin b.records  BY <2>1 DEF OffsetsOf
    <2>3. \/ <<p, o>> \in out \cup refused
          \/ \E c \in batches : <<p, o>> \in c.records
        BY <2>1 DEF Held, DecodedIsHandedOut
    <2> QED  BY <2>2, <2>3, <1>0
<1> QED  BY <1>2, <1>3 DEF Held

\* A poll's records pass to the batch it hands out, and a refused batch's to the
\* refused ones.
LEMMA HandOver ==
    ASSUME Held, PollEnd \/ \E b \in batches : NackBatch(b)
    PROVE  Held'
<1>0. UNCHANGED tracked  BY DEF PollEnd, NackBatch, consumer
<1>1. FlightIsData'  BY <1>0 DEF Held, FlightIsData
<1>2. DecodedIsHandedOut'
    <2> SUFFICES ASSUME NEW p \in Partitions, NEW o \in tracked[p].in_flight
                 PROVE  \/ <<p, o>> \in out' \cup refused'
                        \/ \E c \in batches' : <<p, o>> \in c.records
        BY <1>0 DEF DecodedIsHandedOut
    <2>1. \/ <<p, o>> \in out \cup refused
          \/ \E c \in batches : <<p, o>> \in c.records
        BY DEF Held, DecodedIsHandedOut
    <2>2. CASE PollEnd
        <3>1. UNCHANGED refused /\ batches \subseteq batches'  BY <2>2 DEF PollEnd
        <3>2. ASSUME <<p, o>> \in out PROVE \E c \in batches' : <<p, o>> \in c.records
            <4> DEFINE c == [generation |-> generation, records |-> out]
            <4>1. batches' = batches \cup {c}  BY <2>2, <3>2 DEF PollEnd
            <4>2. <<p, o>> \in c.records  BY <3>2
            <4> QED  BY <4>1, <4>2
        <3> QED  BY <2>1, <3>1, <3>2
    <2>3. CASE \E b \in batches : NackBatch(b)
        <3>1. PICK b \in batches : NackBatch(b)  BY <2>3
        <3>2. /\ UNCHANGED out /\ batches' = batches \ {b}
              /\ refused' = refused \cup b.records
            BY <3>1 DEF NackBatch, poll
        <3> QED  BY <2>1, <3>2
    <2> QED  BY <2>2, <2>3
<1> QED  BY <1>1, <1>2 DEF Held

\* Every step, when no blob fails to decode.
LEMMA HeldStep ==
    ASSUME Corruptible = {}, IInv, Owned, Bounded, Held, [Next]_vars
    PROVE  Held'
<1> USE DEF consumer, poll, pipeline, group, brokers, history, FetchState
<1>n. ASSUME NewProcess PROVE Held'
    BY <1>n, HeldEmpty DEF NewProcess, FreshTracker
<1>p. ASSUME PollStep PROVE Held'
    <2>1. CASE Start \/ GroupByLeader \/ Answer \/ LeadersDone \/ NoRecords \/ EntriesDone
        BY <2>1, HeldStill DEF Start, GroupByLeader, Answer, LeadersDone, NoRecords, EntriesDone
    <2>2. CASE Backoff \/ PartitionRetriable \/ PollBegin \/ Stop \/ Offer \/ Flush
        BY <2>2, HeldStill DEF Backoff, PartitionRetriable, PollBegin, Stop, Offer, Flush
    <2>3. CASE Rejoined \/ RejoinFails \/ Refresh \/ OutOfRange
        BY <2>3, HeldStill DEF Rejoined, RejoinFails, Refresh, OutOfRange
    <2>4. CASE Attach
        <3>1. \A p \in Partitions : tracked'[p].in_flight = {}
            BY <2>4 DEF Attach, FreshTracker, MarkCommitted
        <3> QED  BY <3>1, HeldEmpty
    <2>5. CASE OfferReturns
        <3>1. \A p \in Partitions : tracked'[p].in_flight = tracked[p].in_flight
            BY <2>5 DEF OfferReturns, MarkCommitted
        <3> QED  BY <2>5, <3>1, HeldWithLess DEF OfferReturns
    <2>6. CASE GotRecords
        <3>1. PICK p \in Partitions : \E F \in SUBSET Data(p) : Decoded(p, F)
            BY <2>6, DecodedIs DEF Bounded, Owned
        <3>2. PICK F \in SUBSET Data(p) : Decoded(p, F)  BY <3>1
        <3>3. UNCHANGED <<refused, batches>>  BY <2>6 DEF GotRecords
        <3>4. /\ tracked'[p].in_flight = tracked[p].in_flight \cup F
              /\ \A q \in Partitions \ {p} : tracked'[q] = tracked[q]
              /\ out' = out \cup {<<p, o>> : o \in F}
            BY <3>2 DEF Decoded
        <3>5. FlightIsData'  BY <3>4 DEF Held, FlightIsData
        <3>6. DecodedIsHandedOut'
            <4> SUFFICES ASSUME NEW q \in Partitions, NEW o \in tracked'[q].in_flight
                         PROVE  \/ <<q, o>> \in out' \cup refused
                                \/ \E c \in batches : <<q, o>> \in c.records
                BY <3>3 DEF DecodedIsHandedOut
            <4>1. o \in tracked[q].in_flight \/ (q = p /\ o \in F)  BY <3>4
            <4>2. CASE o \in tracked[q].in_flight
                BY <4>2, <3>4 DEF Held, DecodedIsHandedOut
            <4>3. CASE q = p /\ o \in F  BY <4>3, <3>4
            <4> QED  BY <4>1, <4>2, <4>3
        <3> QED  BY <3>5, <3>6 DEF Held
    <2>7. CASE PollEnd  BY <2>7, HandOver
    <2>8. CASE Restart  BY <2>8, <1>n DEF Restart
    <2> QED  BY <1>p, <2>1, <2>2, <2>3, <2>4, <2>5, <2>6, <2>7, <2>8 DEF PollStep
<1>f. ASSUME FaultStep PROVE Held'
    <2>1. CASE AttachFails \/ Abort \/ BrokerUnreachable \/ SendFails \/ AnswerError
        BY <2>1, HeldStill DEF AttachFails, Abort, BrokerUnreachable, SendFails, AnswerError
    <2>2. CASE UnknownTopic \/ PartitionFatal \/ RefreshFails
        BY <2>2, HeldStill DEF UnknownTopic, PartitionFatal, RefreshFails
    <2>3. CASE CorruptRecords  BY <2>3 DEF CorruptRecords
    <2>4. CASE Crash  BY <2>4, <1>n DEF Crash
    <2> QED  BY <1>f, <2>1, <2>2, <2>3, <2>4 DEF FaultStep
<1>q. ASSUME PipelineStep PROVE Held'
    BY <1>q, AckHeld, HandOver DEF PipelineStep
<1>g. ASSUME GroupStep PROVE Held'
    BY <1>g, HeldStill DEF GroupStep, CommitStaged, Rebalance, OtherMember
<1>b. ASSUME BrokerStep PROVE Held'
    BY <1>b, HeldStill DEF BrokerStep, LeaderMoves, Elected, Append, Retention
<1>v. ASSUME UNCHANGED vars PROVE Held'  BY <1>v, HeldStill DEF vars
<1> QED  BY <1>p, <1>f, <1>q, <1>g, <1>b, <1>v DEF Next

\* As long as what the brokers send decodes (a blob that does not makes poll
\* throw what it had decoded away), a record counted as delivered is in the
\* poll's hands, in a batch in the pipeline, or was refused by the pipeline:
\* whatever fails in the fetch loop after it was decoded.
THEOREM DecodedIsHandedOutAlways ==
    ASSUME Corruptible = {}
    PROVE  Spec => []DecodedIsHandedOut
<1>1. Init => Held
    BY DEF Init, Held, FlightIsData, DecodedIsHandedOut, FreshTracker
<1>2. IInv /\ Owned /\ Bounded /\ Held /\ [Next]_vars => Held'  BY HeldStep
<1>3. Held => DecodedIsHandedOut  BY DEF Held
<1> QED  BY <1>1, <1>2, <1>3, IInvAlways, BoundedAlways, PTL DEF Spec

==================================================================================
