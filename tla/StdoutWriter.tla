---------------------------- MODULE StdoutWriter ----------------------------
(***************************************************************************)
(* The stdout output: one OS thread owns the descriptor, every shard hands *)
(* it work through a queue under a mutex, and it posts each answer back to *)
(* the shard that asked.  The mutex is held for a few statements at a      *)
(* time; each such stretch is one action, and so is what a shard or the    *)
(* thread does between two of them, the notify after a push among it.      *)
(* The thread exists while a shard has its output open: the last to close  *)
(* joins it, and its reactor does nothing else meanwhile.                  *)
(***************************************************************************)
EXTENDS Naturals, Sequences, FiniteSets, SequencesExt

CONSTANTS
    Shards,
    Size,      \* pieces a batch is written in
    MaxWrites, \* bound: writes of a shard
    MaxOpens,  \* bound: outputs a shard opens, one after the other
    Overlap,   \* may an output be opened while the last of others is closing?
    None

VARIABLE chosen  \* rigid: a run composes several components, and this is the one at hand

VARIABLES
    refs, running, queue,  \* the members of stdout_writer
    handle,     \* _t: the newest thread
    thread,     \* where each thread is
    hand,       \* the request it works on, and how far it got
    pc,         \* where each shard is in write(), ref() or unref()
    open,       \* its stdout_output is open
    opens, writes,
    joins,      \* the thread it joins
    posted,     \* answers on their way to it
    out,        \* what stdout got
    told        \* what its writers were told

vars == <<refs, running, queue, handle, thread, hand, pc, open, opens, writes, joins, posted, out,
          told>>

StdoutAssumption ==
    /\ IsFiniteSet(Shards) /\ Size \in Nat /\ MaxWrites \in Nat /\ MaxOpens \in Nat /\ Overlap \in BOOLEAN

Threads == 1 .. Cardinality(Shards) * MaxOpens

Init ==
    /\ refs = 0 /\ running = FALSE /\ queue = <<>> /\ handle = None
    /\ thread = [t \in Threads |-> "none"] /\ hand = [t \in Threads |-> None]
    /\ pc = [s \in Shards |-> "idle"] /\ open = [s \in Shards |-> FALSE]
    /\ opens = [s \in Shards |-> 0] /\ writes = [s \in Shards |-> 0]
    /\ joins = [s \in Shards |-> None] /\ posted = [s \in Shards |-> <<>>]
    /\ out = <<>> /\ told = [s \in Shards |-> <<>>]
-----------------------------------------------------------------------------
(* The shards *)

\* stdout_output(), ref()
Open(s) ==
    /\ pc[s] = "idle" /\ ~open[s] /\ opens[s] < MaxOpens
    /\ Overlap \/ \A o \in Shards : pc[o] \notin {"wake", "join"}
    /\ open' = [open EXCEPT ![s] = TRUE] /\ opens' = [opens EXCEPT ![s] = @ + 1]
    /\ refs' = refs + 1
    /\ IF refs > 0
       THEN UNCHANGED <<running, handle, thread>>
       ELSE \E t \in Threads :
              /\ thread[t] = "none" /\ \A u \in Threads : thread[u] = "none" => t <= u
              /\ running' = TRUE /\ handle' = t /\ thread' = [thread EXCEPT ![t] = "look"]
    /\ UNCHANGED <<queue, hand, pc, writes, joins, posted, out, told>>

\* write_batch(), write(): one at a time, as max_in_flight says.  An open output keeps
\* refs above zero and so _running set: write() never refuses a batch as closed.
Write(s) ==
    /\ pc[s] = "idle" /\ open[s] /\ writes[s] < MaxWrites
    /\ writes' = [writes EXCEPT ![s] = @ + 1]
    /\ queue' = Append(queue, <<s, writes[s] + 1>>) /\ pc' = [pc EXCEPT ![s] = "notify"]
    /\ UNCHANGED <<refs, running, handle, thread, hand, open, opens, joins, posted, out, told>>

Asleep == {t \in Threads : thread[t] = "asleep"}

\* notify_one()
Notify(s) ==
    /\ pc[s] = "notify" /\ pc' = [pc EXCEPT ![s] = "pending"]
    /\ IF Asleep = {}
       THEN UNCHANGED thread
       ELSE \E t \in Asleep : thread' = [thread EXCEPT ![t] = "look"]
    /\ UNCHANGED <<refs, running, queue, handle, hand, open, opens, writes, joins, posted, out, told>>

\* The shard runs what the thread posted to it: the promise is kept.
Deliver(s) ==
    /\ pc[s] = "pending" /\ posted[s] # <<>>
    /\ pc' = [pc EXCEPT ![s] = "idle"] /\ posted' = [posted EXCEPT ![s] = Tail(@)]
    /\ told' = [told EXCEPT ![s] = Append(@, Head(posted[s]).ok)]
    /\ UNCHANGED <<refs, running, queue, handle, thread, hand, open, opens, writes, joins, out>>

\* close(), unref(): a stream closes its output when no write is in flight.
Close(s) ==
    /\ pc[s] = "idle" /\ open[s] /\ open' = [open EXCEPT ![s] = FALSE] /\ refs' = refs - 1
    /\ IF refs > 1
       THEN UNCHANGED <<running, handle, joins, pc>>
       ELSE /\ running' = FALSE /\ joins' = [joins EXCEPT ![s] = handle] /\ handle' = None
            /\ pc' = [pc EXCEPT ![s] = "wake"]
    /\ UNCHANGED <<queue, thread, hand, opens, writes, posted, out, told>>

\* notify_all()
WakeAll(s) ==
    /\ pc[s] = "wake" /\ pc' = [pc EXCEPT ![s] = "join"]
    /\ thread' = [t \in Threads |-> IF t \in Asleep THEN "look" ELSE thread[t]]
    /\ UNCHANGED <<refs, running, queue, handle, hand, open, opens, writes, joins, posted, out, told>>

Joined(s) ==
    /\ pc[s] = "join" /\ thread[joins[s]] = "gone"
    /\ pc' = [pc EXCEPT ![s] = "idle"] /\ joins' = [joins EXCEPT ![s] = None]
    /\ UNCHANGED <<refs, running, queue, handle, thread, hand, open, opens, writes, posted, out, told>>
-----------------------------------------------------------------------------
(* loop() *)

LookTakes(t) ==
    /\ thread[t] = "look" /\ queue # <<>>
    /\ queue' = Tail(queue) /\ thread' = [thread EXCEPT ![t] = "write"]
    /\ hand' = [hand EXCEPT ![t] = [of |-> Head(queue), done |-> 0]]
    /\ UNCHANGED <<refs, running, handle, pc, open, opens, writes, joins, posted, out, told>>

LookEmpty(t) ==
    /\ thread[t] = "look" /\ queue = <<>>
    /\ thread' = [thread EXCEPT ![t] = IF running THEN "asleep" ELSE "gone"]
    /\ UNCHANGED <<refs, running, queue, handle, hand, pc, open, opens, writes, joins, posted, out,
                   told>>

\* write_all(): one piece; EINTR is tried again.
WritePiece(t) ==
    /\ thread[t] = "write" /\ hand[t].done < Size
    /\ hand' = [hand EXCEPT ![t].done = @ + 1] /\ out' = Append(out, hand[t].of)
    /\ UNCHANGED <<refs, running, queue, handle, thread, pc, open, opens, writes, joins, posted, told>>

Post(t, ok) ==
    /\ LET s == hand[t].of[1]
       IN  posted' = [posted EXCEPT ![s] = Append(@, [of |-> hand[t].of, ok |-> ok])]
    /\ hand' = [hand EXCEPT ![t] = None] /\ thread' = [thread EXCEPT ![t] = "look"]
    /\ UNCHANGED <<refs, running, queue, handle, pc, open, opens, writes, joins, out, told>>

\* The errno of any write; what was written before stays written.
WriteFails(t) == thread[t] = "write" /\ hand[t].done < Size /\ Post(t, FALSE)

Written(t) == thread[t] = "write" /\ hand[t].done = Size /\ Post(t, TRUE)
-----------------------------------------------------------------------------
ShardStep(s) == Notify(s) \/ Deliver(s) \/ WakeAll(s) \/ Joined(s)

ThreadStep(t) == LookTakes(t) \/ LookEmpty(t) \/ WritePiece(t) \/ WriteFails(t) \/ Written(t)

Next ==
    \/ \E s \in Shards : Open(s) \/ Write(s) \/ Close(s) \/ ShardStep(s)
    \/ \E t \in Threads : ThreadStep(t)

\* The system schedules its threads, and whoever reads stdout reads on.
Fairness ==
    /\ \A s \in Shards : WF_vars(chosen /\ ShardStep(s))
    /\ \A t \in Threads : WF_vars(chosen /\ ThreadStep(t))

-----------------------------------------------------------------------------
Asked == {r \in Shards \X (1 .. MaxWrites) : r[2] <= writes[r[1]]}

Answered(r) == r[2] <= Len(told[r[1]])

Pieces(r) == Cardinality({i \in DOMAIN out : out[i] = r})

\* A writer is told of success exactly when the whole batch is out.
ToldIsTrue ==
    \A r \in Asked : Answered(r) => told[r[1]][r[2]] = (Pieces(r) = Size)

\* A request that waits is in the queue, in the hand of one thread or on its way
\* back, and nowhere twice; and a queue that holds one has a thread that will look,
\* or that a notify on its way will wake.
NoRequestLost ==
    /\ \A r \in Asked :
        Cardinality({i \in DOMAIN queue : queue[i] = r})
          + Cardinality({t \in Threads : hand[t] # None /\ hand[t].of = r})
          + Cardinality({i \in DOMAIN posted[r[1]] : posted[r[1]][i].of = r})
          = (IF Answered(r) THEN 0 ELSE 1)
    /\ queue # <<>> =>
        \/ \E t \in Threads : thread[t] \in {"look", "write"}
        \/ Asleep # {} /\ \E s \in Shards : pc[s] \in {"notify", "wake"}

\* One thread for the process: batches of different shards do not mix in stdout.
NeverMixed ==
    \A i, j, k \in DOMAIN out : i < j /\ j < k /\ out[i] = out[k] => out[j] = out[i]

\* A write is answered, and the shard that joins the thread gets on.
Busy(s) == pc[s] \in {"notify", "pending", "wake", "join"}
=============================================================================
