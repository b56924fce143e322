------------------------------ MODULE SplitAck ------------------------------
(***************************************************************************)
(* One ack_group in use: a component that splits a transaction adds        *)
(* children, seals the group, and the children are answered in any order,  *)
(* possibly before the seal (batched_input seals only when the source      *)
(* batch has been drawn completely, by which time early assemblies may     *)
(* have been written).                                                     *)
(***************************************************************************)
EXTENDS AckGroup, FiniteSets, Sequences, FiniteSetTheorems, TLAPS

CONSTANT Children   \* the children a splitter may create

ASSUME ChildrenFinite == IsFiniteSet(Children)

VARIABLES group,    \* the ack_group
          live,     \* children created and not answered
          ok,       \* children answered with an ack
          bad,      \* children answered with a nack
          parent    \* the answers given to the parent, in order

vars == <<group, live, ok, bad, parent>>

\* A fired group calls its parent with the first error, if there was one.
Tell(fires, g) ==
  parent' = IF fires THEN Append(parent, Verdict(g)) ELSE parent

Init ==
  /\ group = NewGroup
  /\ live = {} /\ ok = {} /\ bad = {}
  /\ parent = <<>>

\* The splitter creates child c; it never does so after sealing.
Create(c) ==
  /\ ~group.sealed
  /\ c \notin live \cup ok \cup bad
  /\ group' = AddChild(group)
  /\ live' = live \cup {c}
  /\ UNCHANGED <<ok, bad, parent>>

SealGroup ==
  /\ ~group.sealed
  /\ group' = Seal(group)
  /\ Tell(SealFires(group), group')
  /\ UNCHANGED <<live, ok, bad>>

\* Whoever holds child c's ack calls it, with or without an error.
Answer(c, e) ==
  /\ c \in live
  /\ group' = ChildDone(group, e)
  /\ Tell(ChildFires(group), group')
  /\ live' = live \ {c}
  /\ IF e THEN bad' = bad \cup {c} /\ UNCHANGED ok
          ELSE ok' = ok \cup {c} /\ UNCHANGED bad

Next ==
  \/ \E c \in Children : Create(c)
  \/ SealGroup
  \/ \E c \in Children, e \in BOOLEAN : Answer(c, e)

\* The splitter seals, and every ack handed out is called in the end: the
\* stream's obligation, checked in Stream.
Fairness ==
  /\ WF_vars(SealGroup)
  /\ \A c \in Children : WF_vars(\E e \in BOOLEAN : Answer(c, e))

Spec == Init /\ [][Next]_vars /\ Fairness
-----------------------------------------------------------------------------
TypeOK ==
  /\ group \in Groups
  /\ live \in SUBSET Children
  /\ ok \in SUBSET Children
  /\ bad \in SUBSET Children
  /\ parent \in Seq({"ack", "nack"})

\* The parent is answered exactly when the group is sealed and no child is
\* outstanding, once, and with an error exactly when some child was nacked:
\* a split never acks early, never twice and never hides a failed piece
\* (ack_group::child_done and ack_group::seal).
ParentAnswer ==
  parent = IF group.sealed /\ live = {}
           THEN <<IF bad = {} THEN "ack" ELSE "nack">>
           ELSE <<>>

\* What makes ParentAnswer inductive: the counter counts the live children.
GroupCounts ==
  /\ group.pending = Cardinality(live)
  /\ group.fired <=> (group.sealed /\ live = {})
  /\ group.err <=> (bad # {})

Inv == TypeOK /\ GroupCounts /\ ParentAnswer

\* Once answered, the parent's answer never changes and no child reappears.
AnswerIsFinal == [][parent # <<>> => UNCHANGED <<parent, live>>]_vars

\* The parent is answered in the end, even when no child was ever created
\* (every message filtered counts as delivered).
ParentEventuallyAnswered == <>(parent # <<>>)
-----------------------------------------------------------------------------
(* The proofs, for every finite set of children *)


\* What the counter of ack_group::add_child and child_done must track: adding
\* a fresh child and removing a live one move the cardinality by one.
LEMMA LiveCount ==
  ASSUME NEW L \in SUBSET Children, NEW c \in Children
  PROVE  /\ Cardinality(L) \in Nat
         /\ c \notin L => Cardinality(L \cup {c}) = Cardinality(L) + 1
         /\ c \in L => Cardinality(L \ {c}) = Cardinality(L) - 1
         /\ c \in L => (Cardinality(L) = 1 <=> L \ {c} = {})
         /\ Cardinality(L) = 0 <=> L = {}
<1>1. IsFiniteSet(L)
  BY ChildrenFinite, FS_Subset
<1>2. Cardinality(L) \in Nat
  BY <1>1, FS_CardinalityType
<1>3. c \notin L => Cardinality(L \cup {c}) = Cardinality(L) + 1
  BY <1>1, FS_AddElement
<1>4. c \in L => Cardinality(L \ {c}) = Cardinality(L) - 1
  BY <1>1, FS_RemoveElement
<1>5. IsFiniteSet(L \ {c}) /\ (L \ {c}) \in SUBSET Children
  BY <1>1, FS_RemoveElement
<1>6. Cardinality(L \ {c}) = 0 <=> L \ {c} = {}
  BY <1>5, FS_EmptySet
<1>7. Cardinality(L) = 0 <=> L = {}
  BY <1>1, FS_EmptySet
<1>8. c \in L => (Cardinality(L) = 1 <=> L \ {c} = {})
  BY <1>2, <1>4, <1>6
<1> QED
  BY <1>2, <1>3, <1>4, <1>7, <1>8

\* The initial group of ack_group::make satisfies the invariant.
LEMMA InvInit == Init => Inv
<1> SUFFICES ASSUME Init PROVE Inv
  OBVIOUS
<1>1. Cardinality({}) = 0
  BY FS_EmptySet
<1> QED
  BY <1>1 DEF Init, Inv, TypeOK, GroupCounts, ParentAnswer, NewGroup, Groups

\* Every step of the splitter or of a child's holder preserves the invariant.
LEMMA InvNext == Inv /\ [Next]_vars => Inv'
<1> SUFFICES ASSUME Inv, [Next]_vars PROVE Inv'
  OBVIOUS
<1> USE DEF Inv
<1>1. CASE UNCHANGED vars
  BY <1>1 DEF vars, TypeOK, GroupCounts, ParentAnswer
<1>2. ASSUME NEW c \in Children, Create(c) PROVE Inv'
  <2>1. Cardinality(live \cup {c}) = Cardinality(live) + 1
    BY <1>2, LiveCount DEF Create, TypeOK
  <2>2. TypeOK'
    BY <1>2, LiveCount DEF Create, TypeOK, AddChild, Groups
  <2>3. GroupCounts'
    BY <1>2, <2>1 DEF Create, TypeOK, AddChild, Groups, GroupCounts
  <2>4. ParentAnswer'
    BY <1>2 DEF Create, TypeOK, AddChild, Groups, ParentAnswer
  <2> QED
    BY <2>2, <2>3, <2>4
<1>3. CASE SealGroup
  <2>0. Cardinality(live) = 0 <=> live = {}
    BY ChildrenFinite, FS_Subset, FS_EmptySet DEF TypeOK
  <2>1. TypeOK'
    <3>1. group' \in Groups
      BY <1>3 DEF SealGroup, Seal, SealFires, TypeOK, Groups
    <3>2. parent' \in Seq({"ack", "nack"})
      BY <1>3 DEF SealGroup, Tell, Verdict, TypeOK
    <3> QED
      BY <1>3, <3>1, <3>2 DEF SealGroup, TypeOK
  <2>2. GroupCounts'
    BY <1>3, <2>0 DEF SealGroup, Seal, SealFires, TypeOK, Groups, GroupCounts
  <2>3. ParentAnswer'
    BY <1>3, <2>0 DEF SealGroup, Tell, Verdict, Seal, SealFires, TypeOK, Groups,
                      GroupCounts, ParentAnswer
  <2> QED
    BY <2>1, <2>2, <2>3
<1>4. ASSUME NEW c \in Children, NEW e \in BOOLEAN, Answer(c, e) PROVE Inv'
  <2>1. /\ c \in live
        /\ Cardinality(live) \in Nat
        /\ Cardinality(live \ {c}) = Cardinality(live) - 1
        /\ Cardinality(live) = 1 <=> live \ {c} = {}
        /\ Cardinality(live) # 0
    BY <1>4, LiveCount DEF Answer, TypeOK
  <2>2. group.pending - 1 \in Nat
    BY <2>1 DEF TypeOK, Groups, GroupCounts
  <2>3. TypeOK'
    <3>1. group' \in Groups
      BY <1>4, <2>2 DEF Answer, ChildDone, ChildFires, TypeOK, Groups
    <3>2. parent' \in Seq({"ack", "nack"})
      BY <1>4 DEF Answer, Tell, Verdict, TypeOK
    <3>3. /\ live' \in SUBSET Children
          /\ ok' \in SUBSET Children
          /\ bad' \in SUBSET Children
      BY <1>4 DEF Answer, TypeOK
    <3> QED
      BY <3>1, <3>2, <3>3 DEF TypeOK
  <2>4. GroupCounts'
    BY <1>4, <2>1 DEF Answer, ChildDone, ChildFires, TypeOK, Groups, GroupCounts
  <2>5. ParentAnswer'
    <3>1. ~(group.sealed /\ live = {}) /\ parent = <<>>
      BY <2>1 DEF ParentAnswer
    <3>2. group'.sealed = group.sealed /\ live' = live \ {c}
      BY <1>4 DEF Answer, ChildDone, TypeOK, Groups
    <3>3. ChildFires(group) <=> (group'.sealed /\ live' = {})
      BY <2>1, <3>1, <3>2 DEF ChildFires, GroupCounts, TypeOK, Groups
    <3>4. Verdict(group') = IF bad' = {} THEN "ack" ELSE "nack"
      BY <2>4 DEF GroupCounts, Verdict
    <3>5. parent' = IF ChildFires(group) THEN <<Verdict(group')>> ELSE <<>>
      BY <1>4, <3>1 DEF Answer, Tell
    <3> QED
      BY <3>3, <3>4, <3>5 DEF ParentAnswer
  <2> QED
    BY <2>3, <2>4, <2>5
<1> QED
  BY <1>1, <1>2, <1>3, <1>4 DEF Next

\* The inductive invariant holds in every reachable state.
LEMMA InvAlways == Spec => []Inv
  BY InvInit, InvNext, PTL DEF Spec

\* ack_group answers its parent exactly once, at the right moment and with
\* the right verdict.
THEOREM ParentAnswerCorrect == Spec => []ParentAnswer
<1>1. Inv => ParentAnswer
  BY DEF Inv
<1> QED
  BY <1>1, InvAlways, PTL

\* After the parent has been told, nothing changes the answer.
THEOREM AnswerFinal == Spec => AnswerIsFinal
<1>1. Inv /\ [Next]_vars => [parent # <<>> => UNCHANGED <<parent, live>>]_vars
  <2> SUFFICES ASSUME Inv, Next, parent # <<>>
               PROVE  UNCHANGED <<parent, live>>
    OBVIOUS
  <2>1. group.sealed /\ live = {}
    BY DEF Inv, ParentAnswer
  <2> QED
    BY <2>1 DEF Next, Create, SealGroup, Answer
<1> QED
  BY <1>1, InvAlways, PTL DEF AnswerIsFinal, Spec
=============================================================================
