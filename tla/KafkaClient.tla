---------------------------- MODULE KafkaClient ----------------------------
(***************************************************************************)
(* The connections of one shard to the brokers: kafka::cluster, which      *)
(* opens them on demand, shares attempts and refreshes, and replaces dead  *)
(* ones; and kafka::connection, which multiplexes requests over a socket,  *)
(* with a read loop that matches answers to the requests that wait.        *)
(* Callers hold a connection by raw pointer while they use it.             *)
(***************************************************************************)
EXTENDS Integers, FiniteSets

CONSTANTS
    Callers,     \* fibers that use the cluster
    Nodes,       \* brokers; each is also a seed address
    NConns,      \* bound: connections opened
    MaxFaults,   \* bound: lost connections, unanswered requests, failed attempts
    MaxCalls     \* bound: requests and refreshes begun

ClientAssumption ==
    /\ IsFiniteSet(Callers) /\ IsFiniteSet(Nodes) /\ Nodes # {}
    /\ {NConns, MaxFaults, MaxCalls} \subseteq Nat /\ "refresh" \notin Callers

Conns  == 1 .. NConns
None   == 0
Actors == Callers \cup {"refresh"}    \* do_refresh runs as a coroutine of its own

VARIABLES
    state,       \* of each connection: unused, open, closing, closed or destroyed
    reading,     \* connections whose read loop runs
    dead,        \* connection::_dead
    pending,     \* connection::_pending: the actors whose requests wait
    slot,        \* cluster::_conns
    seed,        \* cluster::_seed_conns
    attempt,     \* cluster::_connecting: node -> how many do_connect run for it
    known,       \* cluster::_brokers
    refreshing,  \* cluster::_refresh_in_flight
    pc, on, want,\* where each actor is, the connection it uses, the node it asked for
    tried,       \* the brokers any_broker() has asked for in vain
    calls, faults

connVars == <<state, reading, dead, pending>>
clusterVars == <<slot, seed, attempt, known, refreshing>>
actorVars == <<pc, on, want, tried>>
vars == <<connVars, clusterVars, actorVars, calls, faults>>

Init ==
    /\ state = [c \in Conns |-> "unused"] /\ reading = {} /\ dead = {}
    /\ pending = [c \in Conns |-> {}]
    /\ slot = [n \in Nodes |-> None] /\ seed = [n \in Nodes |-> None]
    /\ attempt = [n \in Nodes |-> 0] /\ known = {} /\ refreshing = FALSE
    /\ pc = [a \in Actors |-> "idle"] /\ on = [a \in Actors |-> None]
    /\ want \in [Actors -> Nodes] /\ tried = {} /\ calls = 0 /\ faults = 0

Fault == faults < MaxFaults /\ faults' = faults + 1
Goto(a, p) == pc' = [pc EXCEPT ![a] = p]
GotoAll(as, p) == pc' = [a \in Actors |-> IF a \in as THEN p ELSE pc[a]]

\* connection::connected() of what a slot holds.
Connected(c) == c # None /\ state[c] = "open" /\ c \notin dead

NextUnused == {c \in Conns : state[c] = "unused" /\ \A d \in 1 .. c - 1 : state[d] # "unused"}
-----------------------------------------------------------------------------
(* connection *)

\* exchange() up to the write: a connection known to be dead is refused.
SendOn(a, c) ==
    IF c \in dead
    THEN Goto(a, "failed") /\ UNCHANGED <<on, pending>>
    ELSE /\ Goto(a, "writing") /\ on' = [on EXCEPT ![a] = c]
         /\ pending' = [pending EXCEPT ![c] = @ \cup {a}]

\* The frame is flushed.  The promise may have failed meanwhile.
Written(a) ==
    /\ pc[a] = "writing"
    /\ Goto(a, IF a \in pending[on[a]] THEN "waiting" ELSE "failing")
    /\ UNCHANGED <<connVars, clusterVars, on, want, tried, calls, faults>>

\* fail_pending(): those whose frame is still being written notice later.
FailPending(c, but) ==
    /\ pending' = [pending EXCEPT ![c] = {}]
    /\ pc' = [a \in Actors |-> IF a \in but THEN "failed"
                               ELSE IF a \in pending[c] /\ pc[a] = "waiting" THEN "failing"
                               ELSE pc[a]]

\* The answer with the actor's correlation id.
Answered(a) ==
    /\ pc[a] = "waiting" /\ on[a] \in reading /\ state[on[a]] \in {"open", "closing"}
    /\ pending' = [pending EXCEPT ![on[a]] = @ \ {a}]
    /\ Goto(a, "answered")
    /\ UNCHANGED <<state, reading, dead, clusterVars, on, want, tried, calls, faults>>

\* No answer in time: the connection is retired, and everyone who waits on it
\* fails.
TimesOut(a) ==
    /\ pc[a] = "waiting" /\ Fault /\ FailPending(on[a], {a})
    /\ dead' = dead \cup {on[a]}
    /\ UNCHANGED <<state, reading, clusterVars, on, want, tried, calls>>

\* The rest of exchange() for a promise that failed: it retires the connection.
FailureSeen(a) ==
    /\ pc[a] = "failing" /\ Goto(a, "failed")
    /\ dead' = dead \cup {on[a]}
    /\ UNCHANGED <<state, reading, pending, clusterVars, on, want, tried, calls, faults>>

\* A slip: the end of the read loop does not mark the connection.
ReaderGoneUnmarked(c) == dead

ReaderGone(c) == dead \cup {c}

\* The peer closes, or sends what cannot be a frame: the read loop ends.
PeerCloses(c) ==
    /\ c \in reading /\ state[c] = "open" /\ Fault
    /\ reading' = reading \ {c} /\ dead' = ReaderGone(c) /\ FailPending(c, {})
    /\ UNCHANGED <<state, clusterVars, on, want, tried, calls>>
-----------------------------------------------------------------------------
(* cluster *)

\* connect() and the ApiVersions handshake of a new connection succeed.
Opened(c) ==
    /\ c \in NextUnused /\ state' = [state EXCEPT ![c] = "open"] /\ reading' = reading \cup {c}

\* A connection that is being opened is waited for, not opened again.
MayStart(n) == attempt[n] = 0

\* broker(n) for actor a, which then sends its request.
UseBroker(a, n) ==
    IF Connected(slot[n])
    THEN SendOn(a, slot[n]) /\ UNCHANGED attempt
    ELSE /\ attempt' = [attempt EXCEPT ![n] = IF MayStart(n) THEN @ + 1 ELSE @]
         /\ GotoAll({a}, "connecting") /\ UNCHANGED <<on, pending>>

Call(a) ==
    /\ a \in Callers /\ pc[a] = "idle" /\ want[a] \in known
    /\ calls < MaxCalls /\ calls' = calls + 1
    /\ UseBroker(a, want[a])
    /\ UNCHANGED <<state, reading, dead, slot, seed, known, refreshing, want, tried, faults>>

WaitsFor(n) == {a \in Actors : pc[a] = "connecting" /\ want[a] = n}

\* The attempt succeeds where the slot is empty: its callers go on to send.
Installs(n, c) ==
    /\ slot' = [slot EXCEPT ![n] = c] /\ attempt' = [attempt EXCEPT ![n] = @ - 1]
    /\ on' = [a \in Actors |-> IF a \in WaitsFor(n) THEN c ELSE on[a]]
    /\ pending' = [pending EXCEPT ![c] = WaitsFor(n)]
    /\ GotoAll(WaitsFor(n), "writing")

Connects(n) ==
    /\ attempt[n] > 0 /\ slot[n] = None
    /\ \E c \in NextUnused : Opened(c) /\ Installs(n, c)
    /\ UNCHANGED <<dead, seed, known, refreshing, want, tried, calls, faults>>

\* Otherwise the old connection is closed first: its read loop ends, and the
\* requests that still wait on it fail.
ClosesOld(n) ==
    LET old == slot[n] IN
    /\ attempt[n] > 0 /\ old # None /\ NextUnused # {}
    /\ state[old] = "open" /\ state' = [state EXCEPT ![old] = "closing"]
    /\ UNCHANGED <<reading, dead, pending, clusterVars, actorVars, calls, faults>>

OldClosed(n) ==
    LET old == slot[n] IN
    /\ attempt[n] > 0 /\ old # None /\ state[old] = "closing"
    /\ state' = [state EXCEPT ![old] = "closed"] /\ reading' = reading \ {old}
    /\ dead' = dead \cup {old} /\ FailPending(old, {})
    /\ UNCHANGED <<clusterVars, on, want, tried, calls, faults>>

Replaces(n) ==
    LET old == slot[n] IN
    /\ attempt[n] > 0 /\ old # None /\ state[old] = "closed"
    /\ \E c \in NextUnused :
        /\ state' = [state EXCEPT ![c] = "open", ![old] = "destroyed"]
        /\ reading' = reading \cup {c} /\ Installs(n, c)
    /\ UNCHANGED <<dead, seed, known, refreshing, want, tried, calls, faults>>

Cleared(n) == [attempt EXCEPT ![n] = @ - 1]

\* No connection, or the handshake fails and the new one is closed: every
\* caller of the attempt fails with it, and do_refresh tries the next broker.
ConnectFails(n) ==
    /\ attempt[n] > 0 /\ Fault
    /\ slot[n] # None => state[slot[n]] = "open"
    /\ pc' = [a \in Actors |-> IF a \notin WaitsFor(n) THEN pc[a]
                               ELSE IF a = "refresh" THEN "trying" ELSE "failed"]
    /\ attempt' = Cleared(n)
    /\ UNCHANGED <<connVars, slot, seed, known, refreshing, on, want, tried, calls>>

\* refresh(): one Metadata request serves all who ask while it is in flight.
Refresh(a) ==
    /\ a \in Callers /\ pc[a] = "idle" /\ calls < MaxCalls /\ calls' = calls + 1
    /\ refreshing' = TRUE
    /\ pc' = [pc EXCEPT ![a] = "refreshing", !["refresh"] = IF refreshing THEN @ ELSE "choosing"]
    /\ tried' = IF refreshing THEN tried ELSE {}
    /\ UNCHANGED <<connVars, slot, seed, attempt, known, on, want, faults>>

LiveSlots == {n \in Nodes : Connected(slot[n])}

\* any_broker() of do_refresh: a live connection, else a broker it knows, else
\* a seed, where a connection that is still alive is used again.
ChoosesLive ==
    /\ pc["refresh"] = "choosing"
    /\ IF LiveSlots = {} THEN Goto("refresh", "trying") /\ UNCHANGED <<on, pending>>
                         ELSE \E n \in LiveSlots : SendOn("refresh", slot[n])
    /\ UNCHANGED <<state, reading, dead, clusterVars, want, tried, calls, faults>>

TriesKnown ==
    /\ pc["refresh"] = "trying"
    /\ \E n \in known \ tried :
        UseBroker("refresh", n) /\ tried' = tried \cup {n} /\ want' = [want EXCEPT !["refresh"] = n]
    /\ UNCHANGED <<state, reading, dead, slot, seed, known, refreshing, calls, faults>>

AtSeeds == pc["refresh"] = "trying" /\ known \subseteq tried

UsesSeed ==
    /\ AtSeeds /\ \E n \in Nodes : Connected(seed[n]) /\ SendOn("refresh", seed[n])
    /\ UNCHANGED <<state, reading, dead, clusterVars, want, tried, calls, faults>>

\* A new seed connection takes the place of the dead one, which is dropped.
OpensSeed ==
    /\ AtSeeds
    /\ \E n \in Nodes, c \in NextUnused :
        /\ ~Connected(seed[n])
        /\ state' = [d \in Conns |-> IF d = c THEN "open" ELSE IF d = seed[n] THEN "destroyed"
                                     ELSE state[d]]
        /\ reading' = reading \cup {c} /\ seed' = [seed EXCEPT ![n] = c]
        /\ SendOn("refresh", c)
    /\ UNCHANGED <<dead, slot, attempt, known, refreshing, want, tried, calls, faults>>

\* Neither a known broker nor a seed can be reached.
Unreachable ==
    /\ AtSeeds /\ Fault /\ Goto("refresh", "failed")
    /\ UNCHANGED <<connVars, clusterVars, on, want, tried, calls>>

\* The slot is cleared before those who waited resume.
RefreshEnds ==
    /\ pc["refresh"] \in {"answered", "failed"} /\ refreshing' = FALSE
    /\ known' = IF pc["refresh"] = "answered" THEN Nodes ELSE known
    /\ pc' = [a \in Actors |-> IF a = "refresh" THEN "idle"
                               ELSE IF pc[a] = "refreshing" THEN pc["refresh"] ELSE pc[a]]
    /\ on' = [on EXCEPT !["refresh"] = None]
    /\ UNCHANGED <<connVars, slot, seed, attempt, want, tried, calls, faults>>

\* The caller is done; it may come back for another node.
Returns(a) ==
    /\ a \in Callers /\ pc[a] \in {"answered", "failed"} /\ Goto(a, "idle")
    /\ on' = [on EXCEPT ![a] = None] /\ \E n \in Nodes : want' = [want EXCEPT ![a] = n]
    /\ UNCHANGED <<connVars, clusterVars, tried, calls, faults>>

\* stop(), which the owner calls when nobody uses the cluster any more.
Stop ==
    /\ \A a \in Actors : pc[a] = "idle"
    /\ \E c \in Conns : state[c] = "open"
    /\ state' = [c \in Conns |-> IF c \in {slot[n] : n \in Nodes} \cup {seed[n] : n \in Nodes}
                               THEN "destroyed" ELSE state[c]]
    /\ reading' = {} /\ calls' = MaxCalls
    /\ slot' = [n \in Nodes |-> None] /\ seed' = slot'
    /\ UNCHANGED <<dead, pending, attempt, known, refreshing, actorVars, faults>>

OfActor(a) == Written(a) \/ Answered(a) \/ TimesOut(a) \/ FailureSeen(a) \/ Returns(a)
OfNode(n)  == Connects(n) \/ ClosesOld(n) \/ OldClosed(n) \/ Replaces(n) \/ ConnectFails(n)
OfRefresh  == ChoosesLive \/ TriesKnown \/ UsesSeed \/ OpensSeed \/ Unreachable \/ RefreshEnds

Next ==
    \/ \E a \in Callers : Call(a) \/ Refresh(a)
    \/ \E a \in Actors : OfActor(a)
    \/ \E c \in Conns : PeerCloses(c)
    \/ \E n \in Nodes : OfNode(n)
    \/ OfRefresh \/ Stop

Spec == Init /\ [][Next]_vars
-----------------------------------------------------------------------------
\* Where no read loop runs nobody waits for an answer: such a request would
\* hang until its timeout, or for ever on a connection that has none.
NoReaderNoWaiter ==
    \A c \in Conns : state[c] = "open" /\ c \notin reading => pending[c] = {}

\* A connection that others may be using is never replaced by a second attempt:
\* what leaves the table is dead.
LiveIsNotReplaced ==
    [][\A n \in Nodes : slot'[n] \notin {None, slot[n]} /\ slot[n] # None => slot[n] \in dead]_vars

\* An entry of _connecting or of _refresh_in_flight has somebody at work behind
\* it, so that no later call joins an attempt that is over.
SharedMeansUnderWay ==
    /\ refreshing <=> pc["refresh"] # "idle"
    /\ \A n \in Nodes : attempt[n] > 0 => WaitsFor(n) # {}
    /\ \A a \in Actors : pc[a] = "connecting" => attempt[want[a]] > 0

\* No caller waits for what cannot come, an answer or somebody else's connect or
\* refresh.
NobodyWaitsInVain == NoReaderNoWaiter /\ SharedMeansUnderWay
=============================================================================
