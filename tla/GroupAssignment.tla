-------------------------- MODULE GroupAssignment --------------------------
(***************************************************************************)
(* The group leader divides the partitions.  The coordinator only relays,  *)
(* and nobody checks the arithmetic: each member's share is computed by a  *)
(* call of its own, and the shares have to fit together.                   *)
(***************************************************************************)
EXTENDS Naturals, Sequences, FiniteSets, SequencesExt

CONSTANTS
    Members,   \* member ids, in the order of std::sort
    Topics,    \* topics, in the order of std::map
    MaxParts   \* bound: partitions of a topic

VARIABLES
    strategy,  \* the protocol the coordinator chose
    topicsOf,  \* each member's subscription
    counts,    \* partitions of each topic
    shares     \* the shares computed so far: member -> set of topic, partition

assignVars == <<strategy, topicsOf, counts, shares>>

Subscribers(t) == SelectSeq(Members, LAMBDA m : t \in topicsOf[m])

\* assign_range: contiguous runs, the first count % n members take one more.
AssignRange(self) ==
    LET take(t, i) == counts[t] \div Len(Subscribers(t)) + (IF i - 1 < counts[t] % Len(Subscribers(t)) THEN 1 ELSE 0)
        from(t, i) == FoldLeft(LAMBDA sum, j : sum + take(t, j), 0, [j \in 1 .. i - 1 |-> j])
    IN  UNION {{<<t, p>> : p \in UNION {from(t, i) .. from(t, i) + take(t, i) - 1 :
                                           i \in {j \in DOMAIN Subscribers(t) : Subscribers(t)[j] = self}}} :
                  t \in Range(Topics)}

\* A slip: the cursor starts again for every topic.
CursorPerTopic(k) == 0

\* assign_roundrobin: where the cursor is when topic k is reached.
Cursor(k) ==
    FoldLeft(LAMBDA sum, j : sum + (IF Subscribers(Topics[j]) = <<>> THEN 0 ELSE counts[Topics[j]]), 0,
             [j \in 1 .. k - 1 |-> j])

AssignRoundRobin(self) ==
    UNION {LET subs == Subscribers(Topics[k])
           IN  {<<Topics[k], p>> : p \in {q \in 0 .. counts[Topics[k]] - 1 :
                    subs # <<>> /\ subs[((Cursor(k) + q) % Len(subs)) + 1] = self}} : k \in DOMAIN Topics}

Init ==
    /\ strategy \in {"range", "roundrobin"}
    /\ topicsOf \in [Range(Members) -> SUBSET Range(Topics)]
    /\ counts \in [Range(Topics) -> 0 .. MaxParts]
    /\ shares = <<>>

\* join_once, as the leader: a share is computed for every member in turn.
Compute(m) ==
    /\ m \notin DOMAIN shares
    /\ shares' = [x \in DOMAIN shares \cup {m} |->
                    IF x # m THEN shares[x]
                    ELSE IF strategy = "roundrobin" THEN AssignRoundRobin(m) ELSE AssignRange(m)]
    /\ UNCHANGED <<strategy, topicsOf, counts>>

Next == \E m \in Range(Members) : Compute(m)

Spec == Init /\ [][Next]_assignVars
-----------------------------------------------------------------------------
Load(m, t) == Cardinality({x \in shares[m] : x[1] = t})

\* The shares fit together: no partition has two owners, an owner subscribes to it,
\* a partition of a topic somebody subscribes to has an owner, and the loads differ
\* by at most one (of a topic, and for roundrobin over all when all subscribe alike).
SharesFit ==
    /\ \A m, n \in DOMAIN shares : m # n => shares[m] \cap shares[n] = {}
    /\ \A m \in DOMAIN shares : \A x \in shares[m] : x[1] \in topicsOf[m] /\ x[2] < counts[x[1]]
    /\ DOMAIN shares = Range(Members) =>
         /\ \A t \in Range(Topics) : Subscribers(t) # <<>> =>
              /\ \A p \in 0 .. counts[t] - 1 : \E m \in Range(Members) : <<t, p>> \in shares[m]
              /\ \A m, n \in Range(Subscribers(t)) : Load(m, t) <= Load(n, t) + 1
         /\ strategy = "roundrobin" /\ (\A m, n \in Range(Members) : topicsOf[m] = topicsOf[n]) =>
              \A m, n \in Range(Members) : Cardinality(shares[m]) <= Cardinality(shares[n]) + 1
=============================================================================
