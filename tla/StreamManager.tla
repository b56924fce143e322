--------------------------- MODULE StreamManager ---------------------------
(***************************************************************************)
(* `swordfish streams`: many streams in one process behind a REST API.     *)
(*                                                                         *)
(* The table of streams and everything that touches it live on shard 0, so *)
(* a handler runs without interruption from one co_await to the next, and  *)
(* any other handler, the signal's stop_all, the timer's force_all and the *)
(* main coroutine run in between.  Each such stretch is one action here.   *)
(*                                                                         *)
(* Every request is one coroutine that creates at most one running_stream, *)
(* so a stream is named by the request that created it.  What the streams  *)
(* do with their messages is module Stream; here a stream only starts,     *)
(* drains, finishes and is stopped.                                        *)
(***************************************************************************)
EXTENDS Naturals, Sequences, FiniteSets, Functions

CONSTANTS
    NIds,       \* stream ids are 1 .. NIds, in the order of std::map
    Requests,   \* the requests of the run
    Op,         \* what each request asks for: see Ops
    Target,     \* the id each request names
    Boot,       \* the requests of the command line, in order
    Modes,      \* is the API served?  a subset of BOOLEAN
    MaxOpen,    \* bound: requests being served at once
    MaxSignals, \* bound: 0 or 1 signals delivered
    None        \* no stream

Ids == 1 .. NIds

\* READ is any of GET /streams, /streams/{id} and /streams/{id}/stats.
Ops == {"BOOT", "POST", "PUT", "DELETE", "READ"}

ASSUME RequestAssumption ==
    /\ NIds \in Nat \ {0} /\ MaxOpen \in Nat /\ MaxSignals \in 0 .. 1
    /\ Op \in [Requests -> Ops] /\ Target \in [Requests -> Ids]
    /\ Boot \in Seq(Requests) /\ IsInjective(Boot)
    /\ \A r \in Requests : Op[r] = "BOOT" <=> r \in Range(Boot)
    /\ Modes \subseteq BOOLEAN /\ None \notin Requests

VARIABLE chosen  \* rigid: a run composes several components, and this is the one at hand

VARIABLES
    table,      \* _streams: id -> the stream listed under it
    stream,     \* the sharded<stream_service> of each running_stream
    forced,     \* streams that were told request_force()
    pc,         \* where each request's coroutine is suspended
    held,       \* the running_streams a request holds across a co_await
    phase,      \* where stop_all (twice) and force_all are suspended
    snap,       \* their snapshot() of the table
    at,         \* the index in it
    main,       \* where the main coroutine is
    serving,    \* the API is up until a signal; otherwise run to completion
    signals,    \* signals delivered
    timer,      \* the forcing timer
    overlap     \* history: two changes of the table were ever under way at once

vars == <<table, stream, forced, pc, held, phase, snap, at, main, serving, signals, timer,
          overlap>>

reqVars  == <<pc, held>>
loopVars == <<phase, snap, at>>
mainVars == <<main, serving, signals, timer, overlap>>

Init ==
    /\ table = [d \in Ids |-> None]
    /\ stream = [r \in Requests |-> "none"] /\ forced = {}
    /\ pc = [r \in Requests |-> "new"] /\ held = [r \in Requests |-> {}]
    /\ phase = [k \in {"signal", "main", "force"} |-> "none"]
    /\ snap = [k \in DOMAIN phase |-> <<>>] /\ at = [k \in DOMAIN phase |-> 1]
    /\ main = "boot" /\ serving \in Modes /\ signals = 0 /\ timer = "off"
    /\ overlap = FALSE

\* The stream has nothing in flight any more: wait_until_drained() is resolved.
Over(i) == stream[i] \in {"finished", "stopped"}

Answered == {"ok", "failed", "missing"}

Open == {r \in Requests : pc[r] \notin Answered \cup {"new"}}

\* POST, PUT and DELETE change the table, and so does the signal's stop_all.
Changing(R) == {r \in R : Op[r] \in {"POST", "PUT", "DELETE"}} # {}
-----------------------------------------------------------------------------
(* stream_manager::add *)

AddBegin(r) ==
    /\ pc[r] = "add" /\ table[Target[r]] = None
    /\ pc' = [pc EXCEPT ![r] = "starting"] /\ stream' = [stream EXCEPT ![r] = "starting"]
    /\ UNCHANGED <<table, forced, held, loopVars, mainVars>>

\* The config does not parse, or "already exists".
AddRefused(r) ==
    /\ pc[r] = "add" /\ pc' = [pc EXCEPT ![r] = "failed"]
    /\ UNCHANGED <<table, stream, forced, held, loopVars, mainVars>>

\* emplace() keeps an entry that is already there.
AddStarted(r) ==
    /\ pc[r] = "starting"
    /\ pc' = [pc EXCEPT ![r] = "ok"] /\ stream' = [stream EXCEPT ![r] = "running"]
    /\ table' = [table EXCEPT ![Target[r]] = IF @ = None THEN r ELSE @]
    /\ UNCHANGED <<forced, held, loopVars, mainVars>>

AddFails(r) ==
    /\ pc[r] = "starting" /\ pc' = [pc EXCEPT ![r] = "unwind"]
    /\ UNCHANGED <<table, stream, forced, held, loopVars, mainVars>>

\* shards->stop(), then the error of the start is thrown on.
Unwound(r) ==
    /\ pc[r] = "unwind" /\ pc' = [pc EXCEPT ![r] = "failed"]
    /\ stream' = [stream EXCEPT ![r] = "stopped"]
    /\ UNCHANGED <<table, forced, held, loopVars, mainVars>>
-----------------------------------------------------------------------------
(* stream_manager::remove *)

\* What the caller of remove() does next.
AfterRemove(r) == IF Op[r] = "PUT" THEN "add" ELSE "ok"

\* A slip: the entry is erased when the stream has been stopped.
RemoveFoundLate(r) ==
    /\ table[Target[r]] # None
    /\ held' = [held EXCEPT ![r] = {table[Target[r]]}]
    /\ pc' = [pc EXCEPT ![r] = "drain"]
    /\ UNCHANGED <<table, stream, forced, loopVars, mainVars>>

\* Copied out and erased before anything suspends.
RemoveFound(r) ==
    /\ table[Target[r]] # None
    /\ held' = [held EXCEPT ![r] = {table[Target[r]]}]
    /\ table' = [table EXCEPT ![Target[r]] = None]
    /\ pc' = [pc EXCEPT ![r] = "drain"]
    /\ UNCHANGED <<stream, forced, loopVars, mainVars>>

RemoveMissing(r) ==
    /\ table[Target[r]] = None
    /\ pc' = [pc EXCEPT ![r] = IF Op[r] = "PUT" THEN "add" ELSE "missing"]
    /\ UNCHANGED <<table, stream, forced, held, loopVars, mainVars>>

Drained(i) == IF stream[i] = "running" THEN "draining" ELSE stream[i]

RemoveDrain(r) ==
    /\ pc[r] = "drain" /\ pc' = [pc EXCEPT ![r] = "wait"]
    /\ \E i \in held[r] : stream' = [stream EXCEPT ![i] = Drained(i)]
    /\ UNCHANGED <<table, forced, held, loopVars, mainVars>>

RemoveWait(r) ==
    /\ pc[r] = "wait" /\ \A i \in held[r] : Over(i)
    /\ pc' = [pc EXCEPT ![r] = "stop"]
    /\ UNCHANGED <<table, stream, forced, held, loopVars, mainVars>>

RemoveStop(r) ==
    /\ pc[r] = "stop" /\ pc' = [pc EXCEPT ![r] = AfterRemove(r)]
    /\ \E i \in held[r] : stream' = [stream EXCEPT ![i] = "stopped"]
    /\ held' = [held EXCEPT ![r] = {}]
    /\ UNCHANGED <<table, forced, loopVars, mainVars>>
-----------------------------------------------------------------------------
(* The handlers of the REST API *)

\* A request is accepted while the server is up.
Begin(r) ==
    /\ pc[r] = "new" /\ Op[r] # "BOOT"
    /\ main = "parked" /\ serving /\ Cardinality(Open) < MaxOpen
    /\ pc' = [pc EXCEPT ![r] = "hop"]
    /\ overlap' = (overlap \/ (Changing({r}) /\ (Changing(Open) \/ signals > 0)))
    /\ UNCHANGED <<table, stream, forced, held, loopVars, main, serving, signals, timer>>

\* POST asks has() in a visit of its own to shard 0 and adds in another.
Post(r) ==
    /\ pc[r] = "hop" /\ Op[r] = "POST"
    /\ pc' = [pc EXCEPT ![r] = IF table[Target[r]] = None THEN "add" ELSE "failed"]
    /\ UNCHANGED <<table, stream, forced, held, loopVars, mainVars>>

RemoveHop(r) ==
    /\ pc[r] = "hop" /\ Op[r] \in {"PUT", "DELETE"}
    /\ RemoveFound(r) \/ RemoveMissing(r)

Listed == {table[d] : d \in Ids} \ {None}

\* one_json and list_json copy the lw_shared_ptr of each stream they ask.
ReadOne(r) ==
    /\ pc[r] = "hop" /\ Op[r] = "READ"
    /\ IF table[Target[r]] = None
       THEN pc' = [pc EXCEPT ![r] = "missing"] /\ UNCHANGED held
       ELSE /\ pc' = [pc EXCEPT ![r] = "gather"]
            /\ held' = [held EXCEPT ![r] = {table[Target[r]]}]
    /\ UNCHANGED <<table, stream, forced, loopVars, mainVars>>

ReadAll(r) ==
    /\ pc[r] = "hop" /\ Op[r] = "READ"
    /\ pc' = [pc EXCEPT ![r] = IF Listed = {} THEN "ok" ELSE "gather"]
    /\ held' = [held EXCEPT ![r] = Listed]
    /\ UNCHANGED <<table, stream, forced, loopVars, mainVars>>

\* GET .../stats asks has() first and gather_one() in a second visit, which
\* answers with zeros when the stream is gone by then.
StatsHas(r) ==
    /\ pc[r] = "hop" /\ Op[r] = "READ"
    /\ pc' = [pc EXCEPT ![r] = IF table[Target[r]] = None THEN "missing" ELSE "stats"]
    /\ UNCHANGED <<table, stream, forced, held, loopVars, mainVars>>

GatherOne(r) ==
    /\ pc[r] = "stats"
    /\ IF table[Target[r]] = None
       THEN pc' = [pc EXCEPT ![r] = "ok"] /\ UNCHANGED held
       ELSE /\ pc' = [pc EXCEPT ![r] = "gather"]
            /\ held' = [held EXCEPT ![r] = {table[Target[r]]}]
    /\ UNCHANGED <<table, stream, forced, loopVars, mainVars>>

\* gather_from() came back from every stream asked.
Gathered(r) ==
    /\ pc[r] = "gather"
    /\ pc' = [pc EXCEPT ![r] = "ok"] /\ held' = [held EXCEPT ![r] = {}]
    /\ UNCHANGED <<table, stream, forced, loopVars, mainVars>>
-----------------------------------------------------------------------------
(* stop_all, force_all and the streams themselves *)

\* snapshot(): the streams of the table, in the order of their ids.
Snapshot ==
    LET upTo[d \in 0 .. NIds] ==
            IF d = 0 THEN <<>>
            ELSE IF table[d] = None THEN upTo[d - 1] ELSE Append(upTo[d - 1], table[d])
    IN upTo[NIds]

Enter(k, first) ==
    /\ phase' = [phase EXCEPT ![k] = first]
    /\ snap' = [snap EXCEPT ![k] = Snapshot] /\ at' = [at EXCEPT ![k] = 1]

More(k) == at[k] <= Len(snap[k])

Current(k) == snap[k][at[k]]

Goto(k, p) == phase' = [phase EXCEPT ![k] = p]

Advance(k) == at' = [at EXCEPT ![k] = @ + 1]

StopAllDrain(k) ==
    /\ phase[k] = "drain" /\ More(k) /\ Advance(k)
    /\ stream' = [stream EXCEPT ![Current(k)] = Drained(Current(k))]
    /\ UNCHANGED <<table, forced, reqVars, phase, snap, mainVars>>

StopAllDrained(k) ==
    /\ phase[k] = "drain" /\ ~More(k)
    /\ Goto(k, "wait") /\ at' = [at EXCEPT ![k] = 1]
    /\ UNCHANGED <<table, stream, forced, reqVars, snap, mainVars>>

StopAllWait(k) ==
    /\ phase[k] = "wait" /\ More(k) /\ Over(Current(k)) /\ Goto(k, "stop")
    /\ UNCHANGED <<table, stream, forced, reqVars, snap, at, mainVars>>

StopAllStop(k) ==
    /\ phase[k] = "stop" /\ Goto(k, "wait") /\ Advance(k)
    /\ stream' = [stream EXCEPT ![Current(k)] = "stopped"]
    /\ UNCHANGED <<table, forced, reqVars, snap, mainVars>>

\* _streams.clear(): whatever is in the table by now.
StopAllClear(k) ==
    /\ phase[k] = "wait" /\ ~More(k) /\ Goto(k, "done")
    /\ table' = [d \in Ids |-> None] /\ snap' = [snap EXCEPT ![k] = <<>>]
    /\ UNCHANGED <<stream, forced, reqVars, at, mainVars>>

\* A slip: the timer asks for the drain again.
ForceOneDrains ==
    /\ phase["force"] = "force" /\ More("force") /\ Goto("force", "forcing")
    /\ stream' = [stream EXCEPT ![Current("force")] = Drained(Current("force"))]
    /\ UNCHANGED <<table, forced, reqVars, snap, at, mainVars>>

\* force_stop(): request_force() and stop(), whose result is awaited.
ForceOne ==
    /\ phase["force"] = "force" /\ More("force") /\ Goto("force", "forcing")
    /\ forced' = forced \cup {Current("force")}
    /\ UNCHANGED <<table, stream, reqVars, snap, at, mainVars>>

ForceReturns ==
    /\ phase["force"] = "forcing" /\ Over(Current("force"))
    /\ Goto("force", "force") /\ Advance("force")
    /\ UNCHANGED <<table, stream, forced, reqVars, snap, mainVars>>

ForceDone ==
    /\ phase["force"] = "force" /\ ~More("force") /\ Goto("force", "done")
    /\ snap' = [snap EXCEPT !["force"] = <<>>]
    /\ UNCHANGED <<table, stream, forced, reqVars, at, mainVars>>

\* A source is exhausted, or a drain or a forced stop has run its course.
Finish(i) ==
    /\ stream[i] \in {"running", "draining"}
    /\ stream' = [stream EXCEPT ![i] = "finished"]
    /\ UNCHANGED <<table, forced, reqVars, loopVars, mainVars>>
-----------------------------------------------------------------------------
(* streams_main *)

BootNext(r) ==
    /\ main = "boot" /\ pc[r] = "new"
    /\ \E n \in 1 .. Len(Boot) :
        /\ Boot[n] = r /\ \A j \in 1 .. n - 1 : pc[Boot[j]] = "ok"
    /\ pc' = [pc EXCEPT ![r] = "add"]
    /\ UNCHANGED <<table, stream, forced, held, loopVars, mainVars>>

\* Every stream is up: the server and the signal handlers are installed.
BootDone ==
    /\ main = "boot" /\ \A n \in 1 .. Len(Boot) : pc[Boot[n]] = "ok"
    /\ main' = "parked"
    /\ UNCHANGED <<table, stream, forced, reqVars, loopVars, serving, signals, timer,
                   overlap>>

\* A stream that does not start takes the process down.
BootFails ==
    /\ main = "boot" /\ \E n \in 1 .. Len(Boot) : pc[Boot[n]] = "failed"
    /\ main' = "closing"
    /\ UNCHANGED <<table, stream, forced, reqVars, loopVars, serving, signals, timer,
                   overlap>>

Signal ==
    /\ main = "parked" /\ signals < MaxSignals
    /\ signals' = signals + 1 /\ timer' = "armed" /\ Enter("signal", "drain")
    /\ overlap' = (overlap \/ Changing(Open))
    /\ UNCHANGED <<table, stream, forced, reqVars, main, serving>>

TimerFires ==
    /\ timer = "armed" /\ timer' = "fired" /\ Enter("force", "force")
    /\ UNCHANGED <<table, stream, forced, reqVars, main, serving, signals, overlap>>

\* A slip: the main coroutine goes on at the signal, not at the end of the drain.
UnparkedAtSignal ==
    IF serving THEN signals > 0
    ELSE \A n \in 1 .. Len(Boot) : Over(Boot[n])

\* With the API: the signal's stop_all has ended.  Without: wait_all().
Unparked ==
    IF serving THEN phase["signal"] = "done"
    ELSE \A n \in 1 .. Len(Boot) : Over(Boot[n])

MainLeaves ==
    /\ main = "parked" /\ Unparked
    /\ main' = "closing" /\ timer' = IF timer = "armed" THEN "off" ELSE timer
    /\ UNCHANGED <<table, stream, forced, reqVars, loopVars, serving, signals, overlap>>

\* obs->stop() returns when no request is being served.
ServerClosed == {r \in Open : Op[r] # "BOOT"} = {}

MainStopAll ==
    /\ main = "closing" /\ ServerClosed
    /\ main' = "stopping" /\ Enter("main", "drain")
    /\ UNCHANGED <<table, stream, forced, reqVars, serving, signals, timer, overlap>>

\* The frame of the coroutine, and with it the manager, is destroyed.
MainExit ==
    /\ main = "stopping" /\ phase["main"] = "done" /\ main' = "exited"
    /\ UNCHANGED <<table, stream, forced, reqVars, loopVars, serving, signals, timer,
                   overlap>>
-----------------------------------------------------------------------------
RequestStep(r) ==
    \/ AddBegin(r) \/ AddRefused(r) \/ AddStarted(r) \/ AddFails(r) \/ Unwound(r)
    \/ RemoveDrain(r) \/ RemoveWait(r) \/ RemoveStop(r)
    \/ Post(r) \/ RemoveHop(r) \/ ReadOne(r) \/ ReadAll(r) \/ StatsHas(r)
    \/ GatherOne(r) \/ Gathered(r)

StopAllStep(k) ==
    \/ StopAllDrain(k) \/ StopAllDrained(k) \/ StopAllWait(k) \/ StopAllStop(k)
    \/ StopAllClear(k)

ForceStep == TimerFires \/ ForceOne \/ ForceReturns \/ ForceDone

MainStep ==
    \/ \E r \in Requests : BootNext(r)
    \/ BootDone \/ BootFails \/ MainLeaves \/ MainStopAll \/ MainExit

Next ==
    \/ \E r \in Requests : Begin(r) \/ RequestStep(r) \/ Finish(r)
    \/ \E k \in {"signal", "main"} : StopAllStep(k)
    \/ ForceStep \/ MainStep \/ Signal

\* The reactor goes on while a task is ready, in whatever order; a forced stop is
\* bounded by the ratchet of module Stream.  A drain that was not forced may take
\* for ever.
Ready ==
    \/ \E r \in Requests : RequestStep(r) \/ (r \in forced /\ Finish(r))
    \/ \E k \in {"signal", "main"} : StopAllStep(k)
    \/ ForceStep \/ MainStep

Spec == Init /\ [][Next]_vars

Fairness == WF_vars(chosen /\ Ready)
-----------------------------------------------------------------------------
TypeOK ==
    /\ table \in [Ids -> Requests \cup {None}]
    /\ stream \in [Requests -> {"none", "starting", "running", "draining", "finished",
                                "stopped"}]
    /\ forced \subseteq Requests
    /\ pc \in [Requests -> Answered \cup {"new", "hop", "add", "starting", "unwind", "drain",
                                          "wait", "stop", "stats", "gather"}]
    /\ held \in [Requests -> SUBSET Requests]
    /\ \A r \in Requests : pc[r] \in {"drain", "wait", "stop"} => Cardinality(held[r]) = 1
    /\ phase \in [{"signal", "main", "force"} ->
                    {"none", "drain", "wait", "stop", "force", "forcing", "done"}]
    /\ \A k \in DOMAIN snap :
        /\ snap[k] \in Seq(Requests)
        /\ phase[k] # "done" => at[k] \in 1 .. Len(snap[k]) + 1
    /\ main \in {"boot", "parked", "closing", "stopping", "exited"}
    /\ serving \in BOOLEAN /\ signals \in 0 .. 1 /\ timer \in {"off", "armed", "fired"}
    /\ overlap \in BOOLEAN

\* "a stream that fails to start must not appear in GET /streams as though it
\* were fine": what the table lists has started, in its own request.
ListedHasStarted ==
    \A d \in Ids : table[d] # None =>
        stream[table[d]] \notin {"none", "starting"} /\ pc[table[d]] = "ok"

\* remove() erases before it suspends, so no two requests tear one stream down.
OneRemover ==
    \A r, s \in Requests : r # s /\ {pc[r], pc[s]} \subseteq {"drain", "wait", "stop"} =>
        held[r] \cap held[s] = {}

\* Somebody still has an lw_shared_ptr to the running_stream.
Referenced(i) ==
    \/ i \in Listed
    \/ pc[i] \in {"starting", "unwind"}
    \/ \E r \in Requests : i \in held[r]
    \/ \E k \in DOMAIN snap : i \in Range(snap[k])

\* "sharded<> asserts if it is destroyed without stop()": a stream that nobody
\* refers to any more has been stopped, while changes of the table come one
\* after the other, with any reads between and during them.  Not even a failed
\* start, a failed replacement or the two stop_all of a shutdown lose one.
DestroyedIsStopped ==
    ~overlap => \A i \in Requests :
        stream[i] # "none" /\ ~Referenced(i) => stream[i] = "stopped"

\* "the old one is drained first, so a PUT never leaves two streams reading
\* the same source": one stream per id has work in flight, while changes of the
\* table come one after the other.
OneStreamPerId ==
    ~overlap => \A i, j \in Requests : i # j /\ Target[i] = Target[j] =>
        ~({stream[i], stream[j]} \subseteq {"running", "draining"})

\* The table tells the truth, whatever requests overlap: what it lists has
\* started and one request tears a stream down; and while changes come one after
\* the other one stream per id is at work and none is lost.
RegistrySound == ListedHasStarted /\ OneRemover /\ OneStreamPerId /\ DestroyedIsStopped

\* A signal that comes while the API is served has let go of the manager when
\* it is destroyed, and so has every request.
ManagerOutlives ==
    serving /\ main = "exited" => phase["signal"] \in {"none", "done"} /\ Open = {}

\* A signal ends the process whatever the streams do, unless a request is in the
\* middle of changing the table.
ShutdownOver == main = "exited" \/ overlap
=============================================================================
