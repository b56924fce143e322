----------------------------- MODULE RateLimit -----------------------------
(***************************************************************************)
(* The local rate limit: on every shard a window of permits that is opened *)
(* anew by the first access after it has run out in permits and in time.   *)
(* The count is divided over the shards, which know nothing of each other. *)
(***************************************************************************)
EXTENDS Naturals, Functions

CONSTANTS
    Shards,    \* shards
    NShards,   \* how many there are
    Count,     \* count
    Interval,  \* interval, in ticks
    MaxTime    \* bound: ticks

\* make_local_rate_limit refuses anything else.
RateLimitAssumption == NShards \in Nat \ {0} /\ Count >= NShards /\ Interval > 0

VARIABLES
    now,       \* the clock
    bucket,    \* _bucket of each shard
    opened,    \* _last_refresh of each shard
    grants     \* accesses granted in each tick, over all shards

vars == <<now, bucket, opened, grants>>

\* A slip: every shard takes the whole budget.
WholeBudget == Count

\* A shard's share, rounded down.
Size == Count \div NShards

Init ==
    /\ now = 0 /\ bucket = [s \in Shards |-> Size] /\ opened = [s \in Shards |-> 0]
    /\ grants = [t \in 0 .. MaxTime |-> 0]

Grant == grants' = [grants EXCEPT ![now] = @ + 1]

\* access(): a permit of the open window; else the time that is left of it; else a
\* new window, of which this access takes the first permit.
Access(s) ==
    /\ \/ /\ bucket[s] > 0 /\ bucket' = [bucket EXCEPT ![s] = @ - 1] /\ Grant
          /\ UNCHANGED opened
       \/ /\ bucket[s] = 0 /\ now - opened[s] < Interval
          /\ UNCHANGED <<bucket, opened, grants>>
       \/ /\ bucket[s] = 0 /\ now - opened[s] >= Interval
          /\ bucket' = [bucket EXCEPT ![s] = Size - 1] /\ opened' = [opened EXCEPT ![s] = now]
          /\ Grant
    /\ UNCHANGED now

Tick == now < MaxTime /\ now' = now + 1 /\ UNCHANGED <<bucket, opened, grants>>

Next == Tick \/ \E s \in Shards : Access(s)

Spec == Init /\ [][Next]_vars
-----------------------------------------------------------------------------
\* The shards together never grant more than two windows' worth in any stretch of
\* one interval: the tail of one window and the head of the next.
AtMostTwoWindows ==
    \A t \in 0 .. MaxTime :
        FoldFunctionOnSet(+, 0, grants, {u \in 0 .. MaxTime : u >= t /\ u < t + Interval})
            <= 2 * Count
=============================================================================
