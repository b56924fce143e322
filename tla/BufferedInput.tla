--------------------------- MODULE BufferedInput ---------------------------
(***************************************************************************)
(* The memory buffer: a fill fiber acks each batch of the source as it     *)
(* arrives and parks it, waiting for room below a limit of bytes; the      *)
(* reader hands parked batches on, or assembles them by a policy whose     *)
(* processors may split what they are given.  Reader and filler share one  *)
(* condition variable.  A message has one byte.                            *)
(***************************************************************************)
EXTENDS InputSide

CONSTANTS
    Limit,     \* _limit
    Count,     \* batch_policy::_count
    Period     \* whether the policy has a period

BufferAssumption == Limit \in Nat /\ Count \in Nat \ {0} /\ Period \in BOOLEAN

VARIABLES
    filler,    \* where fill_loop is
    hand,      \* the batch fill_loop has in hand, acked and not parked
    parked,    \* _parked: the batches written
    taken,     \* _front_taken
    bytes,     \* _bytes
    ready,     \* _ready: what the processors split off
    parts,     \* batch_policy::_parts
    late,      \* the period has passed since the last flush
    srcDone,   \* _source_done
    flag,      \* the condition variable remembers one signal nobody waited for
    dropped    \* history: messages of each batch that a failing flush dropped

VARIABLES
    batching,  \* rigid: _batching, whether there is a policy
    chosen     \* rigid: a run composes several components, and this is the one at hand

wrapVars == <<filler, hand, parked, taken, bytes, ready, parts, late, srcDone, flag>>
vars     == <<sideVars, wrapVars, dropped>>
env      == <<aborted, read, answer, faults, pipeline, dropped>>

Init ==
    /\ SideInit
    /\ filler = "reading" /\ hand = 0 /\ parked = <<>> /\ taken = 0 /\ bytes = 0 /\ ready = <<>>
    /\ parts = <<>> /\ late = FALSE /\ srcDone = FALSE /\ flag = FALSE
    /\ dropped = [b \in Batches |-> 0]
-----------------------------------------------------------------------------
Waits(p) == p \in {"wait", "timed"}

\* signal(): one waiter goes on, or the next wait returns at once.  Reader and
\* filler never wait together (RoomIsCounted), so either may be the one.
SignalReader ==
    /\ pc' = IF Waits(pc) THEN "loop" ELSE pc
    /\ flag' = (flag \/ ~Waits(pc))

SignalFiller ==
    /\ filler' = IF filler = "room" THEN "parking" ELSE filler
    /\ flag' = (flag \/ filler # "room")

Tick ==
    /\ batching /\ Period /\ ~late /\ ~Over /\ late' = TRUE
    /\ UNCHANGED <<sideVars, filler, hand, parked, taken, bytes, ready, parts, srcDone, flag,
                   dropped>>

Call ==
    /\ pc = "idle" /\ pc' = IF aborted THEN "ended" ELSE "loop"
    /\ UNCHANGED <<env, landed, wrapVars>>

HandOut(seq) == Landed(seq) /\ pc' = "idle"

Dropped(seq) ==
    dropped' = [b \in Batches |-> dropped[b] + Cardinality({i \in DOMAIN seq : seq[i] = b})]

\* What the processors split off goes first.
TakeReady ==
    /\ pc = "loop" /\ ready # <<>> /\ HandOut(Head(ready)) /\ ready' = Tail(ready)
    /\ UNCHANGED <<env, filler, hand, parked, taken, bytes, parts, late, srcDone, flag>>

Whole(b) == [i \in 1 .. Sizes[b] |-> b]

\* Without a policy one parked batch is handed out.
TakeParked ==
    /\ pc = "loop" /\ ready = <<>> /\ parked # <<>> /\ ~batching
    /\ HandOut(Whole(Head(parked))) /\ parked' = Tail(parked)
    /\ bytes' = bytes - Sizes[Head(parked)] /\ SignalFiller
    /\ UNCHANGED <<env, hand, taken, ready, parts, late, srcDone>>

\* batch_policy::add, applied until it triggers or the front batch is used up.
DrawnOf(left) ==
    LET room == IF late THEN 1 ELSE Count - Len(parts) IN IF left < room THEN left ELSE room

\* With one, messages are drawn from what is parked, a batch at a time and with
\* nothing in between, until it triggers; the filler is signalled once for all.
Draw ==
    LET b == Head(parked)
        n == DrawnOf(Sizes[b] - taken)
        triggered == n > 0 /\ (late \/ Len(parts) + n >= Count)
    IN  /\ pc \in {"loop", "drawing"} /\ ready = <<>> /\ parked # <<>> /\ batching
        /\ parts' = parts \o [i \in 1 .. n |-> b] /\ bytes' = bytes - n
        /\ IF taken + n = Sizes[b] THEN parked' = Tail(parked) /\ taken' = 0
                                   ELSE taken' = taken + n /\ UNCHANGED parked
        /\ IF pc = "loop" THEN SignalFiller ELSE UNCHANGED <<filler, flag>>
        /\ pc' = IF triggered THEN "flush" ELSE IF parked' = <<>> THEN "look" ELSE "drawing"
        /\ UNCHANGED <<env, landed, hand, ready, late, srcDone>>

NothingParked ==
    /\ pc = "loop" /\ ready = <<>> /\ parked = <<>> /\ pc' = "look"
    /\ UNCHANGED <<env, landed, wrapVars>>

\* The leftover of a source that ended is flushed, or the reader waits; a signal
\* the variable remembers ends the wait at once.
Look ==
    /\ pc = "look"
    /\ IF srcDone /\ parked = <<>>
       THEN pc' = (IF batching /\ parts # <<>> THEN "flush" ELSE "ended") /\ UNCHANGED flag
       ELSE IF aborted THEN pc' = "ended" /\ UNCHANGED flag
       ELSE IF flag THEN pc' = "loop" /\ flag' = FALSE
       ELSE /\ pc' = IF batching /\ Period /\ parts # <<>> /\ ~late THEN "timed" ELSE "wait"
            /\ UNCHANGED flag
    /\ UNCHANGED <<env, landed, filler, hand, parked, taken, bytes, ready, parts, late, srcDone>>

TimedOut ==
    /\ pc = "timed" /\ late /\ pc' = IF parts = <<>> THEN "loop" ELSE "flush"
    /\ UNCHANGED <<env, landed, wrapVars>>

\* flush(): the processors pass the assembly on or split it.
Flushed(n) ==
    /\ pc = "flush" /\ parts' = <<>> /\ late' = FALSE
    /\ HandOut(SubSeq(parts, 1, n))
    /\ ready' = IF n < Len(parts) THEN Append(ready, SubSeq(parts, n + 1, Len(parts))) ELSE ready
    /\ UNCHANGED <<env, filler, hand, parked, taken, bytes, srcDone, flag>>

\* They filter all of it, or one throws: then all of it is dropped, for there is no
\* source left to nack.
FlushGone ==
    /\ pc = "flush" /\ parts' = <<>> /\ late' = FALSE /\ pc' = "loop"
    /\ \/ Landed(parts) /\ UNCHANGED <<faults, dropped>>
       \/ Fails /\ Dropped(parts) /\ UNCHANGED landed
    /\ UNCHANGED <<aborted, read, answer, pipeline, filler, hand, parked, taken, bytes, ready,
                   srcDone, flag>>
-----------------------------------------------------------------------------
(* fill_loop *)

Between == pc \notin {"drawing", "look"}

Reading == filler = "reading" /\ Between

\* A batch larger than the whole buffer is acked and dropped; every other one is
\* acked before there is room for it.
FillRead ==
    LET b == NextBatch IN
    /\ Reading /\ b \in Batches /\ read' = read \cup {b} /\ Told(b, "ack")
    /\ IF Sizes[b] > Limit
       THEN UNCHANGED <<filler, hand>>
       ELSE filler' = "parking" /\ hand' = b
    /\ UNCHANGED <<pc, aborted, landed, pipeline, faults, parked, taken, bytes, ready, parts, late,
                   srcDone, flag, dropped>>

\* A slip: the batch is parked whatever is there.
RoomIgnored == FALSE

NoRoom == bytes + Sizes[hand] > Limit

FillWait ==
    /\ filler = "parking" /\ Between /\ NoRoom /\ ~aborted
    /\ IF flag THEN flag' = FALSE /\ UNCHANGED filler ELSE filler' = "room" /\ UNCHANGED flag
    /\ UNCHANGED <<sideVars, hand, parked, taken, bytes, ready, parts, late, srcDone, dropped>>

FillPark ==
    /\ filler = "parking" /\ Between /\ ~NoRoom /\ ~aborted
    /\ bytes' = bytes + Sizes[hand] /\ parked' = Append(parked, hand) /\ hand' = 0
    /\ filler' = "reading" /\ SignalReader
    /\ UNCHANGED <<env, landed, taken, ready, parts, late, srcDone>>

\* An abort drops the batch in hand, which its source believes delivered.
FillAborted ==
    /\ filler = "parking" /\ Between /\ aborted
    /\ filler' = "ended" /\ srcDone' = TRUE
    /\ UNCHANGED <<sideVars, hand, parked, taken, bytes, ready, parts, late, flag, dropped>>

FillEnd ==
    /\ Reading
    /\ \/ Exhausted /\ UNCHANGED faults
       \/ Fails
    /\ filler' = "ended" /\ srcDone' = TRUE
    /\ pc' = IF Waits(pc) THEN "loop" ELSE pc
    /\ UNCHANGED <<aborted, read, answer, landed, pipeline, hand, parked, taken, bytes, ready, parts,
                   late, flag, dropped>>

\* A filler that waits for room when the variable breaks ends there and then.
Abort ==
    /\ ~aborted /\ ~Over /\ Between /\ aborted' = TRUE
    /\ pc' = (IF Waits(pc) THEN "ended" ELSE pc)
    /\ filler' = IF filler = "room" THEN "ended" ELSE filler
    /\ UNCHANGED <<read, answer, landed, pipeline, faults, hand, parked, taken, bytes, ready, parts,
                   late, srcDone, flag, dropped>>

Close ==
    /\ pc = "ended" /\ pc' = "closing"
    /\ filler' = IF filler = "room" THEN "ended" ELSE filler
    /\ UNCHANGED <<env, landed, hand, parked, taken, bytes, ready, parts, late, srcDone, flag>>

Closed ==
    /\ pc = "closing" /\ filler = "ended" /\ pc' = "closed"
    /\ UNCHANGED <<env, landed, wrapVars>>
-----------------------------------------------------------------------------
Reader ==
    \/ Call \/ TakeReady \/ TakeParked \/ Draw \/ NothingParked \/ Look \/ TimedOut
    \/ FlushGone \/ \E n \in 1 .. Len(parts) : Flushed(n)

Filler == FillWait \/ FillPark \/ FillAborted \/ (Exhausted /\ FillEnd)

Next == Reader \/ Filler \/ FillRead \/ FillEnd \/ Tick \/ Abort \/ Close \/ Closed

Spec == Init /\ [][Next]_vars

Fairness == WF_vars(chosen /\ Reader) /\ WF_vars(chosen /\ Filler) /\ WF_vars(chosen /\ Tick) /\ WF_vars(chosen /\ (Close \/ Closed))
-----------------------------------------------------------------------------
\* The messages parked and not drawn: a batch is parked once, and its messages
\* are numbered.
Undrawn == {m \in Range(parked) \X (1 .. Limit) :
                m[2] <= Sizes[m[1]] /\ (m[1] = Head(parked) => m[2] > taken)}

\* How many messages of batch b are in the buffer.
Held(b) ==
    Cardinality({m \in Undrawn : m[1] = b}) + Cardinality({i \in DOMAIN parts : parts[i] = b})
    + Cardinality({m \in (1 .. Len(ready)) \X (1 .. Count) :
                      m[2] \in DOMAIN ready[m[1]] /\ ready[m[1]][m[2]] = b})
    + (IF hand = b THEN Sizes[b] ELSE 0)

\* The bytes counted are those parked, and never more than the limit: a split or
\* a partly drawn batch is not counted twice, so the filler never waits for room
\* that nobody can make.
RoomIsCounted ==
    /\ bytes = Cardinality(Undrawn) /\ bytes <= Limit
    /\ filler = "room" => NoRoom /\ ~Waits(pc)

\* What was acked at the door is in the buffer until it is handed on, or until an
\* abort: nothing that fits gets lost or doubled, but for what a flush whose
\* processors throw had assembled.
NothingSlipsOut ==
    ~aborted => \A b \in read :
        Sizes[b] <= Limit => landed[b] + dropped[b] + Held(b) = Sizes[b]

Empty == parts = <<>> /\ parked = <<>> /\ ready = <<>>

\* The input has ended, and holds nothing back.
NothingHeldBack == Over /\ (Empty \/ aborted)

\* A drain has ended: the reader and the filler came back from wherever they waited.
DrainOver == pc = "closed"
=============================================================================
