---------------------------- MODULE OutputBroker ----------------------------
(***************************************************************************)
(* The outputs made of outputs: a broker in each of its patterns, fallback *)
(* and switch, with the retry wrapper around the children where the stream *)
(* is built with one, below the output fiber of the stream.  A child       *)
(* answers each write; one with a `batching` policy answers none until     *)
(* enough of them are parked in it, or drain() has been called, and then   *)
(* all that its flush carried with the same outcome.                       *)
(***************************************************************************)
EXTENDS Integers, Sequences, FiniteSets, SequencesExt, FiniteSetsExt

CONSTANTS
    Patterns,     \* the patterns a configuration may choose
    Needs,        \* for each child, how many parked writes make it flush
    Matches,      \* for each transaction and message, the switch cases whose check holds
    Continues,    \* the switch cases with `continue`
    StrictMode,   \* switch.strict_mode
    Faults        \* bound: failures of the children

AllPatterns == {"fan_out", "fan_out_fail_fast", "fan_out_sequential", "fan_out_sequential_fail_fast",
                "round_robin", "greedy", "fallback", "switch", "switch_retry"}

BrokerAssumption ==
    /\ Patterns \subseteq AllPatterns /\ Needs \in Seq(Nat \ {0}) /\ Needs # <<>>
    /\ Continues \subseteq DOMAIN Needs /\ StrictMode \in BOOLEAN /\ Faults \in Nat
    /\ Matches \in Seq(Seq(SUBSET DOMAIN Needs))
    \* No child flushes twice within the limit on writes in flight.
    /\ \A c \in DOMAIN Needs : Needs[c] = 1 \/ Max(Range(Needs) \cup {Len(Needs)}) < 2 * Needs[c]

Kids     == DOMAIN Needs
Transactions == DOMAIN Matches

VARIABLES
    pattern,   \* the one configured
    loop,      \* where stream::output_loop is
    taken,     \* transactions launched
    outcome,   \* external: the ack of each transaction
    call,      \* the write of each transaction at each child
    next,      \* round_robin_output::_next
    free,      \* greedy_output::_free
    drained,   \* children whose drain() has been called, which are the first ones
    aborted,   \* _stop_now
    stored,    \* external: what each child has of each message
    faults     \* failures left

VARIABLE chosen  \* rigid: a run composes several components, and this is the one at hand

vars == <<pattern, loop, taken, outcome, call, next, free, drained, aborted, stored, faults>>

Init ==
    /\ pattern \in Patterns /\ loop = "running" /\ taken = 0 /\ next = 0 /\ drained = 0
    /\ outcome = [t \in Transactions |-> "none"] /\ stored = {} /\ faults = Faults
    /\ call = [t \in Transactions |-> [c \in Kids |-> "none"]]
    /\ free = [c \in Kids |-> c] /\ aborted = FALSE
-----------------------------------------------------------------------------
Sequential == pattern \in {"fan_out_sequential", "fan_out_sequential_fail_fast"}
Parallel   == pattern \in {"fan_out", "fan_out_fail_fast"}
Switching  == pattern \in {"switch", "switch_retry"}

\* Children wrapped in retry_output when the stream is built.
Retried == pattern \in {"fan_out", "fan_out_sequential", "switch_retry"}

\* A slip: one, for the output's own concurrency.
FlatLimit == 1

\* max_in_flight(): what a child needs travels up, but not past a round_robin or
\* a greedy broker.
Limit ==
    IF pattern \in {"round_robin", "greedy"} THEN Len(Needs) ELSE Max(Range(Needs))

InFlight == {t \in 1 .. taken : outcome[t] = "none"}

\* The cases a message is routed to: each one that matches, up to the first
\* without `continue`.
Routed(t, i) ==
    {c \in Matches[t][i] : \A d \in Matches[t][i] : d < c => d \in Continues}

MessagesFor(t, c) ==
    {i \in DOMAIN Matches[t] : Switching => c \in Routed(t, i)}

Unmatched(t) == \E i \in DOMAIN Matches[t] : Routed(t, i) = {}

\* The children that get transaction t in its first step.
FirstOf(t) ==
    CASE Switching -> {c \in Kids : MessagesFor(t, c) # {}}
      [] Parallel -> Kids
      [] pattern = "round_robin" -> {(next % Len(Needs)) + 1}
      [] pattern = "greedy" -> {Head(free)}
      [] OTHER -> {1}

\* write_batch of the children cs for t.  A child goes to work when it has as
\* many writes parked as it needs.
Parked(c) == {t \in Transactions : call[t][c] = "parked"}

Write(t, cs) ==
    LET go(c) == c \in cs /\ Cardinality(Parked(c) \cup {t}) >= Needs[c]
    IN  [u \in Transactions |-> [c \in Kids |->
            CASE go(c) /\ (u = t \/ u \in Parked(c)) -> "working"
              [] ~go(c) /\ u = t /\ c \in cs         -> "parked"
              [] OTHER                               -> call[u][c]]]

\* The fiber takes a unit and launches the write.
Launch ==
    LET t == taken + 1 IN
    /\ loop = "running" /\ t \in Transactions /\ Cardinality(InFlight) < Limit
    /\ pattern = "greedy" => free # <<>>
    /\ taken' = t
    /\ IF Switching /\ StrictMode /\ Unmatched(t)
       THEN outcome' = [outcome EXCEPT ![t] = "nack"] /\ UNCHANGED <<call, next, free>>
       ELSE /\ call' = Write(t, FirstOf(t))
            /\ outcome' = [outcome EXCEPT ![t] = IF FirstOf(t) = {} THEN "ack" ELSE @]
            /\ next' = IF pattern = "round_robin" THEN next + 1 ELSE next
            /\ free' = IF pattern = "greedy" THEN Tail(free) ELSE free
    /\ UNCHANGED <<pattern, loop, drained, aborted, stored, faults>>

\* The writes that child c answers with t's: those of one flush.
Together(t, c) == {u \in Transactions : u = t \/ (Needs[c] > 1 /\ call[u][c] = call[t][c])}

Answered(t, c, v) ==
    call' = [u \in Transactions |->
                IF u \in Together(t, c) THEN [call[u] EXCEPT ![c] = v] ELSE call[u]]

ChildStores(t, c) ==
    /\ call[t][c] = "working" /\ Answered(t, c, "ok")
    /\ stored' = stored \cup UNION {{<<u, c, i>> : i \in MessagesFor(u, c)} : u \in Together(t, c)}
    /\ UNCHANGED <<pattern, loop, taken, outcome, next, free, drained, aborted, faults>>

\* A failure is retried until the stream is stopped by force.
ChildFails(t, c) ==
    /\ call[t][c] = "working" /\ faults > 0 /\ faults' = faults - 1
    /\ Answered(t, c, IF Retried /\ ~aborted THEN "asleep" ELSE "failed")
    /\ UNCHANGED <<pattern, loop, taken, outcome, next, free, drained, aborted, stored>>

Wakes(t, c) ==
    /\ call[t][c] = "asleep"
    /\ call' = IF aborted THEN [call EXCEPT ![t][c] = "failed"] ELSE Write(t, {c})
    /\ UNCHANGED <<pattern, loop, taken, outcome, next, free, drained, aborted, stored, faults>>
-----------------------------------------------------------------------------
Called(t) == {c \in Kids : call[t][c] # "none"}
Answers(t) == {call[t][c] : c \in Called(t)}

\* Every write of t that was made has been answered.
Settled(t) == t \in InFlight /\ Called(t) # {} /\ Answers(t) \subseteq {"ok", "failed"}

\* A fallback fails with its last child.  Taken for the rule of all, it is a
\* slip: all_or_first_error that looks at the last future only.
LastFailed(t) == call[t][Max(Called(t))] = "failed"

Failed(t) == IF pattern = "fallback" THEN LastFailed(t) ELSE "failed" \in Answers(t)

\* The child the write goes on to: behind one that has it in a sequence, behind
\* one that failed in a fallback.
Onward(t) ==
    LET c == Max(Called(t)) IN
    {d \in Kids : /\ d = c + 1
                      /\ \/ Sequential /\ call[t][c] = "ok"
                         \/ pattern = "fallback" /\ call[t][c] = "failed"}

GoesOn(t) ==
    /\ Settled(t) /\ Onward(t) # {} /\ call' = Write(t, Onward(t))
    /\ UNCHANGED <<pattern, loop, taken, outcome, next, free, drained, aborted, stored, faults>>

\* A slip: a child that failed is not put back.
KeepFailedOut(t) == IF Failed(t) THEN free ELSE free \o SetToSeq(Called(t))

FreeAgain(t) == free \o SetToSeq(Called(t))

Returns(t) ==
    /\ Settled(t) /\ Onward(t) = {}
    /\ outcome' = [outcome EXCEPT ![t] = IF Failed(t) THEN "nack" ELSE "ack"]
    /\ free' = IF pattern = "greedy" THEN FreeAgain(t) ELSE free
    /\ UNCHANGED <<pattern, loop, taken, call, next, drained, aborted, stored, faults>>
-----------------------------------------------------------------------------
\* The end of the stream, or its queue aborted by a forced stop while the fiber
\* is not waiting for a unit: drain() of one child after the other, which
\* releases what is parked and returns when that has been written.
Drain ==
    /\ loop = "running" /\ loop' = "draining"
    /\ taken = Len(Matches) \/ (aborted /\ Cardinality(InFlight) < Limit)
    /\ UNCHANGED <<pattern, taken, outcome, call, next, free, drained, aborted, stored, faults>>

Writing(c) == Needs[c] > 1 /\ \E t \in Transactions : call[t][c] = "working"

DrainChild ==
    LET c == drained + 1 IN
    /\ loop = "draining" /\ c \in Kids /\ ~Writing(c)
    /\ drained > 0 => ~Writing(drained)
    /\ drained' = c
    /\ call' = [t \in Transactions |-> [d \in Kids |->
                    IF d = c /\ t \in Parked(c) THEN "working" ELSE call[t][d]]]
    /\ UNCHANGED <<pattern, loop, taken, outcome, next, free, aborted, stored, faults>>

Close ==
    /\ loop = "draining" /\ drained = Len(Needs) /\ InFlight = {} /\ loop' = "closed"
    /\ UNCHANGED <<pattern, taken, outcome, call, next, free, drained, aborted, stored, faults>>

Abort ==
    /\ ~aborted /\ loop # "closed" /\ aborted' = TRUE
    /\ UNCHANGED <<pattern, loop, taken, outcome, call, next, free, drained, stored, faults>>

Step(t) ==
    \/ GoesOn(t) \/ Returns(t)
    \/ \E c \in Kids : ChildStores(t, c) \/ ChildFails(t, c) \/ Wakes(t, c)

Next == Launch \/ Drain \/ DrainChild \/ Close \/ Abort \/ \E t \in Transactions : Step(t)

Spec == Init /\ [][Next]_vars

\* The fiber is scheduled, and children answer the writes they work on.
Fairness ==
    /\ WF_vars(chosen /\ Launch) /\ WF_vars(chosen /\ (Drain \/ DrainChild \/ Close))
    /\ \A t \in Transactions :
        /\ WF_vars(chosen /\ (GoesOn(t) \/ Returns(t)))
        /\ \A c \in Kids : WF_vars(chosen /\ (ChildStores(t, c) \/ ChildFails(t, c) \/ Wakes(t, c)))
-----------------------------------------------------------------------------
Has(t, c, i) == <<t, c, i>> \in stored

\* An ack means delivery in the sense of the pattern: to every child of a
\* fan-out, to every case a message was routed to, to one child otherwise.  A
\* message no case matches is dropped, unless strict_mode rejects it.
AckMeansDelivered ==
    \A t \in Transactions : outcome[t] = "ack" =>
        \A i \in DOMAIN Matches[t] :
            CASE Switching -> /\ \A c \in Routed(t, i) : Has(t, c, i)
                              /\ StrictMode => Routed(t, i) # {}
              [] Parallel \/ Sequential -> \A c \in Kids : Has(t, c, i)
              [] OTHER -> \E c \in Kids : Has(t, c, i)

\* A greedy broker never loses a child: each one is free or has a write.
NoChildLost ==
    pattern = "greedy" =>
        \A c \in Kids : (\E i \in DOMAIN free : free[i] = c) <=>
                            ~\E t \in InFlight : call[t][c] # "none"

\* The fiber writes, or waits for the limit on writes in flight.
Running == loop = "running"

\* Every write the limit allows waits in a child for more of them, which the limit
\* does not let in.  What a child needs travels up, and is enough where each child
\* gets every write at once, until a forced stop cuts a retry of one of them short;
\* the other patterns share the limit out.
Starved ==
    /\ Running /\ (Parallel => aborted) /\ Cardinality(InFlight) = Limit
    /\ \A t \in InFlight : "parked" \in Answers(t) /\ Answers(t) \cap {"working", "asleep"} = {}
=============================================================================
