------------------------------ MODULE MCKafkaConsumer ------------------------------
(* Logs and metadata for KafkaConsumer's runs.                                 *)
EXTENDS KafkaConsumer, TLC

CONSTANTS p1, p2, Shape

B(f, l, s, c, r) == [first |-> f, last |-> l, segment |-> s, control |-> c, records |-> r]

\* A compacted tail and a gap within one segment; a hole inside a batch, a
\* control batch and a gap before a new segment.
Logs ==
    CASE Shape = "gap" ->
           (p1 :> {B(0, 1, 0, FALSE, {0}), B(3, 3, 0, FALSE, {3})}
            @@ p2 :> {B(0, 0, 0, FALSE, {0})})
      [] Shape = "holes" ->
           (p1 :> {B(0, 2, 0, FALSE, {0, 2}), B(3, 3, 0, TRUE, {3}), B(5, 5, 1, FALSE, {5})}
            @@ p2 :> {B(0, 1, 0, FALSE, {0, 1})})

Zero == [p \in Partitions |-> 0]
Never == [p \in Partitions |-> NoOffset]
Apart == [p \in Partitions |-> IF p = p1 THEN 1 ELSE 2]
OneTopic == [p \in Partitions |-> "t"]

\* Bound: a second fault only with p2 empty, and with p1 short of its new segment
\* or p2 given away.
FewFaults == faults' > 1 => hw'[p2] = 0 /\ (hw'[p1] <= 4 \/ p2 \notin cache'.partitions)

MCLiveSpec == Init /\ [][Next /\ FewFaults]_vars /\ Fairness
====================================================================================
