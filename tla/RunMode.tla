------------------------------ MODULE RunMode ------------------------------
(***************************************************************************)
(* `swordfish run` and the main() of a compiled binary: one stream on      *)
(* every shard, from the first start to the exit of the process.           *)
(*                                                                         *)
(* The main coroutine, the signal handlers, the forcing timer and the      *)
(* scrapes of the observability server are on shard 0.  What they ask of   *)
(* the shards travels as messages; a shard takes them in the order they    *)
(* were sent.  What a stream does with its batches is module Stream; here  *)
(* it connects, counts, comes to its end and is stopped.                   *)
(***************************************************************************)
EXTENDS Naturals, Sequences, SequencesExt

CONSTANTS
    Shards,
    MaxMsgs,    \* bound: messages a shard's source has
    MaxSignals, \* bound: signals delivered
    MaxScrapes, \* bound: scrapes begun
    None        \* no scrape is being answered

RunAssumption ==
    /\ IsFiniteSet(Shards) /\ Shards # {}
    /\ MaxMsgs \in Nat /\ MaxSignals \in Nat /\ MaxScrapes \in Nat
    /\ None \notin [left : SUBSET Shards, received : Nat, sent : Nat, low : Nat]

VARIABLE chosen  \* rigid: a run composes several components, and this is the one at hand

VARIABLES
    compiled,   \* run_generated(), not `swordfish run`
    served,     \* http.enabled
    shard,      \* where the stream of each shard is
    stopping,   \* its stop(), which whoever calls it shares
    drained,    \* shards whose _drain is aborted
    forced,     \* shards on which request_force() or stop_now() was called
    comp,       \* what its input received and its output sent
    inbox,      \* messages on their way to it
    adding,     \* compiled: the value of `total` a shard has read
    added,      \* shards whose statistics are in the total
    run,        \* where the main coroutine is
    live,       \* may the handlers touch the streams?
    timer,      \* the forcing timer
    signals, err, total, obs, scrape, scrapes

streamVars == <<shard, stopping, drained, forced, comp>>
mainVars   == <<run, live, timer, signals, err>>
sumVars    == <<total, adding, added>>
obsVars    == <<obs, scrape, scrapes>>

vars == <<compiled, served, streamVars, inbox, mainVars, sumVars, obsVars>>

Init ==
    /\ compiled \in BOOLEAN /\ served \in BOOLEAN
    /\ shard = [s \in Shards |-> "new"] /\ stopping = [s \in Shards |-> "no"]
    /\ drained = {} /\ forced = {}
    /\ comp = [s \in Shards |-> [received |-> 0, sent |-> 0]]
    /\ inbox = [s \in Shards |-> <<>>] /\ adding = [s \in Shards |-> None] /\ added = {}
    /\ live = TRUE /\ timer = "off" /\ signals = 0 /\ err = FALSE /\ total = 0
    /\ obs = "off" /\ scrape = None /\ scrapes = 0 /\ run = "begin"

\* invoke_on_all and map_reduce0.
Post(what) == inbox' = [s \in Shards |-> Append(inbox[s], what)]

Sum(field) == MapThenSumSet(LAMBDA s : comp[s][field], Shards)

\* wait_until_drained() has resolved.
Finished(s) == shard[s] = "over" \/ (s \in forced /\ stopping[s] = "stopped")
-----------------------------------------------------------------------------
(* The stream of a shard *)

\* A gate that stop() has closed refuses the fibers, which start() overlooks.
Connect(s) ==
    /\ shard[s] = "connecting"
    /\ shard' = [shard EXCEPT ![s] = IF stopping[s] = "no" THEN "running" ELSE "refused"]
    /\ UNCHANGED <<compiled, served, stopping, drained, forced, comp, inbox, mainVars, sumVars,
                   obsVars>>

ConnectFails(s) ==
    /\ shard[s] = "connecting" /\ shard' = [shard EXCEPT ![s] = "failed"]
    /\ UNCHANGED <<compiled, served, stopping, drained, forced, comp, inbox, mainVars, sumVars,
                   obsVars>>

Receive(s) ==
    /\ shard[s] = "running" /\ s \notin drained /\ comp[s].received < MaxMsgs
    /\ comp' = [comp EXCEPT ![s].received = @ + 1]
    /\ UNCHANGED <<compiled, served, shard, stopping, drained, forced, inbox, mainVars, sumVars,
                   obsVars>>

Send(s) ==
    /\ shard[s] = "running" /\ comp[s].sent < comp[s].received
    /\ comp' = [comp EXCEPT ![s].sent = @ + 1]
    /\ UNCHANGED <<compiled, served, shard, stopping, drained, forced, inbox, mainVars, sumVars,
                   obsVars>>

\* The source ended or was drained, and what was read is written; or forced.
Finish(s) ==
    /\ shard[s] = "running"
    /\ s \in forced \/ comp[s].sent = comp[s].received
    /\ shard' = [shard EXCEPT ![s] = "over"]
    /\ UNCHANGED <<compiled, served, stopping, drained, forced, comp, inbox, mainVars, sumVars,
                   obsVars>>

\* The graceful part of the budget is spent.
Escalate(s) ==
    /\ stopping[s] = "stopping" /\ s \notin forced /\ shard[s] = "running"
    /\ forced' = forced \cup {s}
    /\ UNCHANGED <<compiled, served, shard, stopping, drained, comp, inbox, mainVars, sumVars,
                   obsVars>>

\* The gate has closed, the components are closed.
StopEnds(s) ==
    /\ stopping[s] = "stopping" /\ shard[s] # "running"
    /\ stopping' = [stopping EXCEPT ![s] = "stopped"]
    /\ UNCHANGED <<compiled, served, shard, drained, forced, comp, inbox, mainVars, sumVars,
                   obsVars>>
-----------------------------------------------------------------------------
(* What a shard is asked *)

Take(s, what) ==
    /\ inbox[s] # <<>> /\ Head(inbox[s]) = what
    /\ inbox' = [inbox EXCEPT ![s] = Tail(@)]
    /\ UNCHANGED <<compiled, served, mainVars, comp>>

TakeStart(s) ==
    /\ Take(s, "start") /\ shard' = [shard EXCEPT ![s] = "connecting"]
    /\ UNCHANGED <<stopping, drained, forced, sumVars, obsVars>>

TakeDrain(s) ==
    /\ Take(s, "drain") /\ drained' = drained \cup {s}
    /\ UNCHANGED <<shard, stopping, forced, sumVars, obsVars>>

\* stop() is shared: a later caller gets the future of the first.
StopShared(s) ==
    /\ stopping' = [stopping EXCEPT ![s] = IF @ = "no" THEN "stopping" ELSE @]
    /\ drained' = drained \cup {s}

\* force_stop()
TakeForce(s) ==
    /\ Take(s, "force") /\ StopShared(s) /\ forced' = forced \cup {s}
    /\ UNCHANGED <<shard, sumVars, obsVars>>

TakeStop(s) ==
    /\ Take(s, "stop") /\ StopShared(s)
    /\ UNCHANGED <<shard, forced, sumVars, obsVars>>

\* map_reduce0: the sum is taken on shard 0.
Reduce(s) ==
    /\ ~compiled /\ Take(s, "add")
    /\ total' = total + comp[s].sent /\ added' = added \cup {s}
    /\ UNCHANGED <<streamVars, adding, obsVars>>

\* run_generated(): every shard does `total += ...` on the variable of shard 0.
LoadTotal(s) ==
    /\ compiled /\ Take(s, "add") /\ adding' = [adding EXCEPT ![s] = total]
    /\ UNCHANGED <<streamVars, total, added, obsVars>>

StoreTotal(s) ==
    /\ adding[s] # None
    /\ total' = adding[s] + comp[s].sent /\ adding' = [adding EXCEPT ![s] = None]
    /\ added' = added \cup {s}
    /\ UNCHANGED <<compiled, served, streamVars, inbox, mainVars, obsVars>>

\* gather_from(): get_stats() of one shard.
TakeScrape(s) ==
    /\ Take(s, "scrape")
    /\ scrape' = [scrape EXCEPT !.left = @ \ {s}, !.received = @ + comp[s].received,
                                !.sent = @ + comp[s].sent]
    /\ UNCHANGED <<streamVars, sumVars, obs, scrapes>>
-----------------------------------------------------------------------------
(* The signals, the timer and the scrapes *)

\* After `live` is cleared the handler does nothing.
Signal ==
    /\ run # "begin" /\ signals < MaxSignals /\ signals' = signals + 1
    /\ IF live THEN Post("drain") /\ timer' = "armed" ELSE UNCHANGED <<inbox, timer>>
    /\ UNCHANGED <<compiled, served, streamVars, run, live, err, sumVars, obsVars>>

TimerFires ==
    /\ timer = "armed" /\ timer' = "off"
    /\ IF live THEN Post("force") ELSE UNCHANGED inbox
    /\ UNCHANGED <<compiled, served, streamVars, run, live, signals, err, sumVars, obsVars>>

\* GET /ready, /metrics or /stats; `low` remembers what had been counted by now.
Scrape ==
    /\ obs = "up" /\ scrape = None /\ scrapes < MaxScrapes /\ scrapes' = scrapes + 1
    /\ Post("scrape")
    /\ scrape' = [left |-> Shards, received |-> 0, sent |-> 0, low |-> Sum("received")]
    /\ UNCHANGED <<compiled, served, streamVars, mainVars, sumVars, obs>>

ScrapeAnswered ==
    /\ scrape # None /\ scrape.left = {} /\ scrape' = None
    /\ UNCHANGED <<compiled, served, streamVars, inbox, mainVars, sumVars, obs, scrapes>>
-----------------------------------------------------------------------------
(* The main coroutine *)

Begin ==
    /\ run = "begin" /\ run' = "starting" /\ Post("start")
    /\ UNCHANGED <<compiled, served, streamVars, live, timer, signals, err, sumVars, obsVars>>

\* A slip: the handlers stay armed.
LeaveArmed(failed) ==
    run' = "holding" /\ err' = failed /\ UNCHANGED <<live, timer, signals>>

\* Past the try block: the handlers are disarmed before anything is torn down.
Leave(failed) ==
    /\ run' = "holding" /\ live' = FALSE /\ timer' = "off" /\ err' = failed
    /\ UNCHANGED signals

\* invoke_on_all(start) ends when every shard's start has.
Started ==
    /\ run = "starting" /\ \A s \in Shards : shard[s] \notin {"new", "connecting"}
    /\ IF \E s \in Shards : shard[s] = "failed"
       THEN Leave(TRUE)
       ELSE run' = "observing" /\ UNCHANGED <<live, timer, signals, err>>
    /\ UNCHANGED <<compiled, served, streamVars, inbox, sumVars, obsVars>>

Observe ==
    /\ run = "observing" /\ run' = "waiting" /\ obs' = IF served THEN "up" ELSE "off"
    /\ UNCHANGED <<compiled, served, streamVars, inbox, live, timer, signals, err, sumVars, scrape,
                   scrapes>>

\* The address is in use.
ObserveFails ==
    /\ run = "observing" /\ served /\ obs' = "broken" /\ Leave(TRUE)
    /\ UNCHANGED <<compiled, served, streamVars, inbox, sumVars, scrape, scrapes>>

Waited ==
    /\ run = "waiting" /\ \A s \in Shards : Finished(s)
    /\ run' = "adding" /\ Post("add")
    /\ UNCHANGED <<compiled, served, streamVars, live, timer, signals, err, sumVars, obsVars>>

Added ==
    /\ run = "adding" /\ added = Shards /\ Leave(FALSE)
    /\ UNCHANGED <<compiled, served, streamVars, inbox, sumVars, obsVars>>

\* shutdown_delay is over: the server takes no new requests.
Held ==
    /\ run = "holding" /\ run' = "closing" /\ obs' = IF obs = "off" THEN "off" ELSE "closing"
    /\ UNCHANGED <<compiled, served, streamVars, inbox, live, timer, signals, err, sumVars, scrape,
                   scrapes>>

\* obs->stop() waits for the scrape it answers; then sharded<>::stop().
Closed ==
    /\ run = "closing" /\ scrape = None /\ run' = "stopping" /\ obs' = "off" /\ Post("stop")
    /\ UNCHANGED <<compiled, served, streamVars, live, timer, signals, err, sumVars, scrape,
                   scrapes>>

\* The instances are destroyed when the stop() of each has ended.
Exit ==
    /\ run = "stopping" /\ \A s \in Shards : stopping[s] = "stopped" /\ ~Contains(inbox[s], "stop")
    /\ run' = "exited" /\ shard' = [s \in Shards |-> "gone"]
    /\ UNCHANGED <<compiled, served, stopping, drained, forced, comp, inbox, live, timer, signals,
                   err, sumVars, obsVars>>
-----------------------------------------------------------------------------
StreamStep(s) ==
    \/ Connect(s) \/ ConnectFails(s) \/ Receive(s) \/ Send(s) \/ Finish(s) \/ Escalate(s)
    \/ StopEnds(s)

TakeStep(s) ==
    \/ TakeStart(s) \/ TakeDrain(s) \/ TakeForce(s) \/ TakeStop(s) \/ Reduce(s) \/ LoadTotal(s)
    \/ StoreTotal(s) \/ TakeScrape(s)

MainStep ==
    \/ Begin \/ Started \/ Observe \/ ObserveFails \/ Waited \/ Added \/ Held \/ Closed \/ Exit

Next ==
    \/ \E s \in Shards : StreamStep(s) \/ TakeStep(s)
    \/ Signal \/ TimerFires \/ Scrape \/ ScrapeAnswered \/ MainStep

\* The reactors go on while a task is ready, in whatever order.  A connect returns
\* once it is told to give up, a forced stream ends, a stop() escalates; a stream
\* that was neither drained nor forced may run for ever.
Ready ==
    \/ \E s \in Shards :
        \/ TakeStep(s) \/ Escalate(s) \/ StopEnds(s)
        \/ s \in drained /\ (Connect(s) \/ ConnectFails(s))
        \/ s \in forced /\ Finish(s)
    \/ TimerFires \/ ScrapeAnswered \/ MainStep

Fairness == WF_vars(chosen /\ Ready)

Spec == Init /\ [][Next]_vars /\ Fairness
-----------------------------------------------------------------------------
\* The totals an interpreted run reports on its way out are the sums over every
\* shard: nothing is counted after they were asked, and none is lost.
TotalIsSum ==
    ~compiled /\ ~err /\ run \in {"holding", "closing", "stopping", "exited"}
        => total = Sum("sent")

\* No message is on its way to a stream that was destroyed, and no timer is
\* armed that would send one: signals, timer and scrapes all stop before.
NothingTouchesGone ==
    \A s \in Shards : shard[s] = "gone" => inbox[s] = <<>> /\ timer = "off" /\ scrape = None

\* A scrape answers with what was counted between its begin and its end, on no
\* shard more sent than received; no stream is asked before it began.
ScrapeIsTrue ==
    scrape # None /\ scrape.left = {} =>
        /\ scrape.low <= scrape.received /\ scrape.received <= Sum("received")
        /\ scrape.sent <= scrape.received
        /\ \A s \in Shards : shard[s] \notin {"new", "connecting", "failed", "gone"}

\* A signal that finds the process alive brings it to its exit.
RunOver == run = "exited"
=============================================================================
