------------------------ MODULE StreamManagerProofs ------------------------
(***************************************************************************)
(* `swordfish streams`, for every set of requests, of ids and of streams   *)
(* on the command line, with or without the API.                           *)
(*                                                                         *)
(* That no stream is lost or torn down twice rests on who owns it (Owned): *)
(* the table, the request that starts it, or the one that removes it.      *)
(* What overlaps is limited by what each request can be suspended in       *)
(* (Kinds) and by where the main coroutine is (MainOrder); that stop_all   *)
(* leaves nothing running rests on its snapshot holding all that is listed *)
(* and on how far it got (Cleared).                                        *)
(***************************************************************************)
EXTENDS MCStreamManager, FiniteSetTheorems, WellFoundedInduction, TLAPS

-----------------------------------------------------------------------------
(* The inductive invariant *)

Loops == {"signal", "main", "force"}

Removing == {"drain", "wait", "stop"}

\* Where a request that changes the table can be suspended.
AtWork == {"hop", "add", "starting", "unwind"} \cup Removing

Stopping(k) == phase[k] \in {"drain", "wait", "stop"}

States == {"none", "starting", "running", "draining", "finished", "stopped"}

Places == Answered \cup AtWork \cup {"new", "stats", "gather"}

Types ==
    /\ table \in [Ids -> Requests \cup {None}]
    /\ stream \in [Requests -> States] /\ forced \subseteq Requests
    /\ pc \in [Requests -> Places] /\ held \in [Requests -> SUBSET Requests]
    /\ phase \in [Loops -> {"none", "drain", "wait", "stop", "force", "forcing", "done"}]
    /\ snap \in [Loops -> Seq(Requests)] /\ at \in [Loops -> Nat \ {0}]
    /\ main \in {"boot", "parked", "closing", "stopping", "exited"}
    /\ serving \in BOOLEAN /\ signals \in 0 .. 1 /\ timer \in {"off", "armed", "fired"}
    /\ overlap \in BOOLEAN

\* How far the three loops over a snapshot are, and in what.
Walks ==
    /\ \A k \in Loops : phase[k] # "done" => at[k] \in 1 .. Len(snap[k]) + 1
    /\ \A k \in Loops : phase[k] \in {"stop", "forcing"} => More(k)
    /\ \A k \in {"signal", "main"} : phase[k] \in {"none", "drain", "wait", "stop", "done"}
    /\ phase["force"] \in {"none", "force", "forcing", "done"}

\* What a request can be suspended in follows from what it asks for, and what it
\* holds from where it is.
Kinds ==
    \A r \in Requests :
        /\ pc[r] \in {"add", "starting", "unwind"} => Op[r] \in {"BOOT", "POST", "PUT"}
        /\ pc[r] \in Removing => Op[r] \in {"PUT", "DELETE"}
        /\ pc[r] \in {"stats", "gather"} => Op[r] = "READ"
        /\ pc[r] = "hop" => Op[r] # "BOOT"
        /\ pc[r] \notin Removing \cup {"gather"} => held[r] = {}
        /\ pc[r] \in Removing => \E i \in Requests : held[r] = {i} /\ Target[i] = Target[r]

\* A stream is created by add(), and has started when its request succeeded.
Created ==
    \A r \in Requests :
        /\ pc[r] \notin Answered \cup {"starting", "unwind"} => stream[r] = "none"
        /\ pc[r] \in {"starting", "unwind"} => stream[r] = "starting"
        /\ pc[r] \in Answered => stream[r] # "starting"

HasStarted(i) == i \in Requests /\ pc[i] = "ok" /\ stream[i] # "none"

\* What is listed, held or being stopped has started.
Known ==
    /\ \A d \in Ids, i \in Requests : table[d] = i => HasStarted(i) /\ Target[i] = d
    /\ \A r \in Requests : \A i \in held[r] : HasStarted(i)
    /\ \A k \in Loops : \A i \in Range(snap[k]) : HasStarted(i)

\* Who removes a stream has it alone.
Alone ==
    /\ \A r \in Requests : pc[r] \in Removing => held[r] \cap Listed = {}
    /\ OneRemover

\* The main coroutine boots before it serves, and stops what no request is left
\* to touch.
MainOrder ==
    /\ main = "boot" =>
         /\ signals = 0 /\ phase["signal"] = "none"
         /\ \A r \in Requests : Op[r] # "BOOT" => pc[r] = "new"
    /\ \A m, n \in 1 .. Len(Boot) : m < n /\ pc[Boot[n]] # "new" => pc[Boot[m]] = "ok"
    /\ main # "boot" => \A n \in 1 .. Len(Boot) : pc[Boot[n]] \in Answered \cup {"new"}
    /\ main \in {"stopping", "exited"} => Open = {}
    /\ phase["main"] # "none" => main \in {"stopping", "exited"}
    /\ phase["signal"] # "none" => signals > 0
    /\ serving /\ main \notin {"boot", "parked"} => phase["signal"] \in {"none", "done"}

\* stop_all waits for one stream at a time; those before it have been stopped.
Cleared ==
    \A k \in {"signal", "main"} : phase[k] \in {"wait", "stop"} =>
        \A j \in 1 .. at[k] - 1 : stream[snap[k][j]] = "stopped"

Busy == {r \in Requests : Op[r] # "READ" /\ pc[r] \in AtWork}

Owned(i) ==
    \/ i \in Listed \/ pc[i] \in {"starting", "unwind"}
    \/ \E r \in Requests : pc[r] \in Removing /\ i \in held[r]

\* While changes of the table come one after the other, what is not stopped is
\* owned, and the two stop_all know of all that is listed.
InTurn ==
    ~overlap =>
        /\ \A r, s \in Busy : r = s
        /\ signals > 0 => Busy = {}
        /\ \A r \in Requests :
             pc[r] \in {"starting", "unwind"} \cup Removing => table[Target[r]] = None
        /\ \A i \in Requests : stream[i] \in {"none", "stopped"} \/ Owned(i)
        /\ \A k \in {"signal", "main"} : Stopping(k) => Listed \subseteq Range(snap[k])

IInv == Types /\ Walks /\ Kinds /\ Created /\ Known /\ Alone /\ MainOrder /\ Cleared /\ InTurn
-----------------------------------------------------------------------------
(* The snapshot *)

\* What holds of 0, and of n + 1 where it holds of n, holds of every natural.
LEMMA SetInduction ==
  ASSUME NEW T, 0 \in T, \A n \in Nat : n \in T => n + 1 \in T
  PROVE  Nat \subseteq T
<1> SUFFICES ASSUME Nat \ T # {} PROVE FALSE
  OBVIOUS
<1>1. IsWellFoundedOn(OpToRel(<, Nat), Nat)
  BY NatLessThanWellFounded
<1>2. PICK x \in Nat \ T : \A y \in Nat \ T : ~(<<y, x>> \in OpToRel(<, Nat))
  BY <1>1, WFMin
<1>3. \A y \in Nat \ T : ~(y < x)
  BY <1>2 DEF OpToRel
<1>4. x # 0 /\ x - 1 \in Nat /\ x - 1 < x
  OBVIOUS
<1>5. x - 1 \notin T
  BY <1>4
<1> QED
  BY <1>3, <1>4, <1>5

\* What has been gathered up to the id m.
UpTo(m, g) ==
  g = [d \in 0 .. m |-> IF d = 0 THEN <<>>
                        ELSE IF table[d] = None THEN g[d - 1] ELSE Append(g[d - 1], table[d])]

\* The elements of a sequence one longer.
LEMMA RangeAppend ==
  ASSUME NEW S, NEW q \in Seq(S), NEW x \in S
  PROVE  Append(q, x) \in Seq(S) /\ Range(Append(q, x)) = Range(q) \cup {x}
<1>1. /\ Append(q, x) \in Seq(S) /\ Len(q) \in Nat /\ Len(Append(q, x)) = Len(q) + 1
      /\ \A i \in 1 .. Len(q) : Append(q, x)[i] = q[i]
      /\ Append(q, x)[Len(q) + 1] = x
  OBVIOUS
<1>2. DOMAIN q = 1 .. Len(q) /\ DOMAIN Append(q, x) = 1 .. Len(q) + 1
  BY <1>1
<1>3. 1 .. Len(q) + 1 = (1 .. Len(q)) \cup {Len(q) + 1}
  BY <1>1
<1> DEFINE p == Append(q, x)
<1> HIDE DEF p
<1> QED
  BY <1>1, <1>2, <1>3 DEF Range, p

\* snapshot() has the streams of the table, all of them and no other.
LEMMA SnapshotIs ==
  ASSUME table \in [Ids -> Requests \cup {None}]
  PROVE  Snapshot \in Seq(Requests) /\ Range(Snapshot) = Listed
<1> DEFINE Good(m) == \E g : /\ UpTo(m, g) /\ g[m] \in Seq(Requests)
                             /\ Range(g[m]) = {table[d] : d \in 1 .. m} \ {None}
           T == {m \in Nat : m <= NIds => Good(m)}
<1>1. NIds \in Nat
  BY RequestAssumption
<1>2. 0 \in T
  <2> DEFINE g == [d \in 0 .. 0 |-> <<>>]
  <2>1. UpTo(0, g)
    <3>1. g = [d \in 0 .. 0 |-> IF d = 0 THEN <<>>
                                ELSE IF table[d] = None THEN g[d - 1]
                                     ELSE Append(g[d - 1], table[d])]
      OBVIOUS
    <3> HIDE DEF g
    <3> QED
      BY <3>1 DEF UpTo
  <2>2. g[0] = <<>>
    OBVIOUS
  <2>3. <<>> \in Seq(Requests) /\ Range(<<>>) = {} /\ 1 .. 0 = {}
    BY DEF Range
  <2> HIDE DEF g
  <2> QED
    BY <2>1, <2>2, <2>3
<1>3. ASSUME NEW m \in Nat, m \in T PROVE m + 1 \in T
  <2> SUFFICES ASSUME m + 1 <= NIds PROVE Good(m + 1)
    OBVIOUS
  <2>1. m <= NIds /\ m + 1 \in Ids /\ 1 .. m + 1 = (1 .. m) \cup {m + 1}
    BY <1>1 DEF Ids
  <2>2. PICK g : /\ UpTo(m, g) /\ g[m] \in Seq(Requests)
                 /\ Range(g[m]) = {table[d] : d \in 1 .. m} \ {None}
    BY <1>3, <2>1
  <2> DEFINE t == table[m + 1]
             v == IF t = None THEN g[m] ELSE Append(g[m], t)
             h == [d \in 0 .. m + 1 |-> IF d = m + 1 THEN v ELSE g[d]]
  <2>3. t \in Requests \cup {None}
    BY <2>1
  <2>4. v \in Seq(Requests) /\ Range(v) = {table[d] : d \in 1 .. m + 1} \ {None}
    <3>1. {table[d] : d \in 1 .. m + 1} = {table[d] : d \in 1 .. m} \cup {t}
      BY <2>1
    <3>2. CASE t = None
      BY <2>2, <3>1, <3>2
    <3>3. CASE t # None
      <4>1. t \in Requests
        BY <2>3, <3>3
      <4>2. Append(g[m], t) \in Seq(Requests) /\ Range(Append(g[m], t)) = Range(g[m]) \cup {t}
        BY <2>2, <4>1, RangeAppend
      <4> QED
        BY <2>2, <3>1, <3>3, <4>2
    <3> QED
      BY <3>2, <3>3
  <2>5. \A d \in 0 .. m : g[d] = IF d = 0 THEN <<>>
                                 ELSE IF table[d] = None THEN g[d - 1]
                                      ELSE Append(g[d - 1], table[d])
    BY <2>2 DEF UpTo
  <2> HIDE DEF v
  <2>6. h[m + 1] = v /\ \A d \in 0 .. m : h[d] = g[d]
    OBVIOUS
  <2>7. h = [d \in 0 .. m + 1 |-> h[d]]
    OBVIOUS
  <2> HIDE DEF h
  <2>8. \A d \in 0 .. m + 1 : h[d] = IF d = 0 THEN <<>>
                                     ELSE IF table[d] = None THEN h[d - 1]
                                          ELSE Append(h[d - 1], table[d])
    <3>1. h[m + 1] = IF table[m + 1] = None THEN h[m] ELSE Append(h[m], table[m + 1])
      BY <2>6 DEF v
    <3>2. m + 1 - 1 = m /\ m + 1 # 0 /\ \A d \in 0 .. m : d # 0 => d - 1 \in 0 .. m
      OBVIOUS
    <3>3. \A d \in 0 .. m + 1 : d = m + 1 \/ d \in 0 .. m
      OBVIOUS
    <3> QED
      BY <2>5, <2>6, <3>1, <3>2, <3>3
  <2>9. UpTo(m + 1, h)
    BY <2>7, <2>8 DEF UpTo
  <2> QED
    BY <2>4, <2>6, <2>9
<1>4. NIds \in T
  <2> HIDE DEF T
  <2> QED
    BY <1>1, <1>2, <1>3, SetInduction
<1>5. PICK g : /\ UpTo(NIds, g) /\ g[NIds] \in Seq(Requests)
               /\ Range(g[NIds]) = {table[d] : d \in 1 .. NIds} \ {None}
  BY <1>1, <1>4
<1> DEFINE s == CHOOSE s : UpTo(NIds, s)
<1>6. UpTo(NIds, s)
  BY <1>5
<1>7. Snapshot = s[NIds]
  BY DEF Snapshot, UpTo
<1> HIDE DEF s
\* There is one such function: s and g agree on every id.
<1>8. s[NIds] = g[NIds]
  <2> DEFINE U == {m \in Nat : m <= NIds => s[m] = g[m]}
  <2>1. 0 \in U
    BY <1>1, <1>5, <1>6 DEF UpTo
  <2>2. ASSUME NEW m \in Nat, m \in U PROVE m + 1 \in U
    <3> SUFFICES ASSUME m + 1 <= NIds PROVE s[m + 1] = g[m + 1]
      OBVIOUS
    <3>1. m + 1 \in 0 .. NIds /\ m + 1 # 0 /\ m + 1 - 1 = m /\ m <= NIds
      BY <1>1
    <3>2. s[m] = g[m]
      BY <2>2, <3>1
    <3>3. \A f : UpTo(NIds, f) =>
            f[m + 1] = IF table[m + 1] = None THEN f[m] ELSE Append(f[m], table[m + 1])
      <4> TAKE f
      <4> HAVE UpTo(NIds, f)
      <4>1. \A d \in 0 .. NIds : f[d] = IF d = 0 THEN <<>>
                                     ELSE IF table[d] = None THEN f[d - 1]
                                          ELSE Append(f[d - 1], table[d])
        BY DEF UpTo
      <4>2. f[m + 1] = IF m + 1 = 0 THEN <<>>
                       ELSE IF table[m + 1] = None THEN f[m + 1 - 1]
                            ELSE Append(f[m + 1 - 1], table[m + 1])
        BY <3>1, <4>1
      <4> QED
        BY <3>1, <4>2
    <3> QED
      BY <1>5, <1>6, <3>2, <3>3
  <2> HIDE DEF U
  <2>3. NIds \in U
    BY <1>1, <2>1, <2>2, SetInduction
  <2> QED
    BY <2>3 DEF U
<1> QED
  BY <1>5, <1>7, <1>8 DEF Listed, Ids
-----------------------------------------------------------------------------
(* Types *)

\* What the steps of a request leave alone.
LEMMA RequestFrame ==
  ASSUME NEW r \in Requests, Begin(r) \/ RequestStep(r) \/ Finish(r) \/ BootNext(r)
  PROVE  /\ UNCHANGED <<forced, phase, snap, at, main, serving, signals, timer>>
         /\ overlap' = overlap \/ Begin(r)
<1>1. CASE Begin(r) \/ Finish(r) \/ BootNext(r)
  BY <1>1 DEF Begin, Finish, BootNext, loopVars, mainVars
<1>2. CASE AddBegin(r) \/ AddRefused(r) \/ AddStarted(r) \/ AddFails(r) \/ Unwound(r)
  BY <1>2 DEF AddBegin, AddRefused, AddStarted, AddFails, Unwound, loopVars, mainVars
<1>3. CASE RemoveDrain(r) \/ RemoveWait(r) \/ RemoveStop(r) \/ Post(r) \/ RemoveHop(r)
  BY <1>3 DEF RemoveDrain, RemoveWait, RemoveStop, Post, RemoveHop, RemoveFound, RemoveMissing,
     loopVars, mainVars
<1>4. CASE ReadOne(r) \/ ReadAll(r) \/ StatsHas(r) \/ GatherOne(r) \/ Gathered(r)
  BY <1>4 DEF ReadOne, ReadAll, StatsHas, GatherOne, Gathered, loopVars, mainVars
<1> QED
  BY <1>1, <1>2, <1>3, <1>4 DEF RequestStep

\* What the steps of the process leave alone.
LEMMA LoopFrame ==
  ASSUME NEW k \in {"signal", "main"},
         StopAllStep(k) \/ ForceStep \/ BootDone \/ BootFails \/ MainLeaves \/ MainStopAll
           \/ MainExit \/ Signal
  PROVE  UNCHANGED <<pc, held, serving>>
<1>1. CASE StopAllStep(k)
  BY <1>1 DEF StopAllStep, StopAllDrain, StopAllDrained, StopAllWait, StopAllStop, StopAllClear,
     reqVars, mainVars
<1>2. CASE ForceStep
  BY <1>2 DEF ForceStep, TimerFires, ForceOne, ForceReturns, ForceDone, reqVars, mainVars
<1>3. CASE BootDone \/ BootFails \/ MainLeaves \/ MainStopAll \/ MainExit \/ Signal
  BY <1>3 DEF BootDone, BootFails, MainLeaves, MainStopAll, MainExit, Signal, reqVars
<1> QED
  BY <1>1, <1>2, <1>3

LEMMA InitTypes == Init => Types
<1> SUFFICES ASSUME Init PROVE Types
  OBVIOUS
<1>1. table \in [Ids -> Requests \cup {None}] /\ forced \subseteq Requests
  BY DEF Init
<1>2. stream \in [Requests -> States]
  BY DEF Init, States
<1>3. "new" \in Places
  BY DEF Places
<1>4. pc \in [Requests -> Places] /\ held \in [Requests -> SUBSET Requests]
  BY <1>3 DEF Init
<1>5. phase = [k \in Loops |-> "none"]
  BY DEF Init, Loops
<1>6. DOMAIN phase = Loops
  BY <1>5
<1>7. snap = [k \in Loops |-> <<>>] /\ at = [k \in Loops |-> 1]
  BY <1>6 DEF Init
<1>8. snap \in [Loops -> Seq(Requests)] /\ at \in [Loops -> Nat \ {0}]
  BY <1>7
<1>9. phase \in [Loops -> {"none", "drain", "wait", "stop", "force", "forcing", "done"}]
  BY <1>5
<1>10. serving \in BOOLEAN
  BY RequestAssumption DEF Init
<1>11. main = "boot" /\ signals = 0 /\ timer = "off"
  BY DEF Init
<1>12. overlap \in BOOLEAN
  BY DEF Init
<1> QED
  BY <1>1, <1>2, <1>4, <1>8, <1>9, <1>10, <1>11, <1>12 DEF Types

\* A request's step.
LEMMA RequestTypes ==
  ASSUME Types, NEW r \in Requests, Begin(r) \/ RequestStep(r) \/ Finish(r) \/ BootNext(r)
  PROVE  Types'
<1>1. /\ table \in [Ids -> Requests \cup {None}] /\ stream \in [Requests -> States]
      /\ pc \in [Requests -> Places] /\ held \in [Requests -> SUBSET Requests]
  BY DEF Types
<1>2. Listed \subseteq Requests /\ Target[r] \in Ids
  BY <1>1, RequestAssumption DEF Listed
<1>3. {"ok", "failed", "missing", "hop", "add", "starting", "unwind", "drain", "wait", "stop",
       "stats", "gather"} \subseteq Places
  BY DEF Places, Answered, AtWork, Removing
<1>4. {"starting", "running", "draining", "finished", "stopped"} \subseteq States
  BY DEF States
<1> DEFINE Good == /\ table' \in [Ids -> Requests \cup {None}] /\ stream' \in [Requests -> States]
                   /\ pc' \in [Requests -> Places] /\ held' \in [Requests -> SUBSET Requests]
<1>5. ASSUME Begin(r) \/ Finish(r) \/ BootNext(r) PROVE Good
  <2>1. CASE Begin(r)
    BY <1>1, <1>3, <2>1 DEF Begin
  <2>2. CASE Finish(r)
    BY <1>1, <1>4, <2>2 DEF Finish, reqVars
  <2>3. CASE BootNext(r)
    BY <1>1, <1>3, <2>3 DEF BootNext
  <2> QED
    BY <1>5, <2>1, <2>2, <2>3
<1>6. ASSUME AddBegin(r) \/ AddRefused(r) \/ AddFails(r) \/ Unwound(r) PROVE Good
  BY <1>1, <1>3, <1>4, <1>6 DEF AddBegin, AddRefused, AddFails, Unwound
<1>7. ASSUME AddStarted(r) PROVE Good
  <2>1. (IF table[Target[r]] = None THEN r ELSE table[Target[r]]) \in Requests \cup {None}
    BY <1>1, <1>2
  <2> QED
    BY <1>1, <1>2, <1>3, <1>4, <1>7, <2>1 DEF AddStarted
<1>8. ASSUME RemoveDrain(r) PROVE Good
  <2>1. \A i \in Requests : Drained(i) \in States
    BY <1>1, <1>4 DEF Drained
  <2>2. PICK i \in held[r] : stream' = [stream EXCEPT ![i] = Drained(i)]
    BY <1>8 DEF RemoveDrain
  <2> QED
    BY <1>1, <1>3, <1>8, <2>1, <2>2 DEF RemoveDrain
<1>9. ASSUME RemoveWait(r) \/ Post(r) PROVE Good
  BY <1>1, <1>3, <1>9 DEF RemoveWait, Post
<1>10. ASSUME RemoveStop(r) PROVE Good
  <2>1. PICK i \in held[r] : stream' = [stream EXCEPT ![i] = "stopped"]
    BY <1>10 DEF RemoveStop
  <2> QED
    BY <1>1, <1>3, <1>4, <1>10, <2>1 DEF RemoveStop, AfterRemove
<1>11. ASSUME RemoveHop(r) PROVE Good
  <2>1. table[Target[r]] # None => {table[Target[r]]} \subseteq Requests
    BY <1>1, <1>2
  <2> QED
    BY <1>1, <1>2, <1>3, <1>11, <2>1 DEF RemoveHop, RemoveFound, RemoveMissing
<1>12. ASSUME ReadOne(r) \/ ReadAll(r) \/ StatsHas(r) \/ GatherOne(r) \/ Gathered(r) PROVE Good
  <2>1. table[Target[r]] # None => {table[Target[r]]} \subseteq Requests
    BY <1>1, <1>2
  <2> QED
    BY <1>1, <1>2, <1>3, <1>12, <2>1 DEF ReadOne, ReadAll, StatsHas, GatherOne, Gathered
<1>13. Good
  BY <1>5, <1>6, <1>7, <1>8, <1>9, <1>10, <1>11, <1>12 DEF RequestStep
<1>14. overlap' \in BOOLEAN
  BY RequestFrame DEF Types, Begin
<1> QED
  BY <1>13, <1>14, RequestFrame DEF Types

\* A step of the main coroutine, of a loop or of a handler of the process.
LEMMA LoopTypes ==
  ASSUME Types, NEW k \in {"signal", "main"},
         StopAllStep(k) \/ ForceStep \/ BootDone \/ BootFails \/ MainLeaves \/ MainStopAll
           \/ MainExit \/ Signal
  PROVE  Types'
<1>1. /\ table \in [Ids -> Requests \cup {None}] /\ stream \in [Requests -> States]
      /\ forced \subseteq Requests
      /\ phase \in [Loops -> {"none", "drain", "wait", "stop", "force", "forcing", "done"}]
      /\ snap \in [Loops -> Seq(Requests)] /\ at \in [Loops -> Nat \ {0}]
  BY DEF Types
<1>2. Snapshot \in Seq(Requests) /\ <<>> \in Seq(Requests)
  BY <1>1, SnapshotIs
<1>3. k \in Loops /\ "signal" \in Loops /\ "main" \in Loops /\ "force" \in Loops
  BY DEF Loops
<1>4. \A l \in Loops : More(l) => Current(l) \in Requests
  <2> SUFFICES ASSUME NEW l \in Loops, More(l) PROVE Current(l) \in Requests
    OBVIOUS
  <2>1. at[l] \in Nat \ {0} /\ snap[l] \in Seq(Requests)
    BY <1>1
  <2>2. at[l] \in 1 .. Len(snap[l])
    BY <2>1 DEF More
  <2> QED
    BY <2>1, <2>2 DEF Current
<1>5. \A i : Drained(i) = "draining" \/ Drained(i) = stream[i]
  BY DEF Drained
<1>6. {"draining", "stopped"} \subseteq States
  BY DEF States
<1> DEFINE Good == /\ table' \in [Ids -> Requests \cup {None}] /\ stream' \in [Requests -> States]
                   /\ forced' \subseteq Requests
                   /\ phase' \in [Loops -> {"none", "drain", "wait", "stop", "force", "forcing",
                                            "done"}]
                   /\ snap' \in [Loops -> Seq(Requests)] /\ at' \in [Loops -> Nat \ {0}]
<1>7. ASSUME StopAllDrain(k) PROVE Good
  <2>1. [stream EXCEPT ![Current(k)] = Drained(Current(k))] \in [Requests -> States]
    BY <1>1, <1>5, <1>6
  <2> QED
    BY <1>1, <1>3, <1>7, <2>1 DEF StopAllDrain, Advance
<1>8. ASSUME StopAllDrained(k) \/ StopAllWait(k) \/ StopAllStop(k) PROVE Good
  <2>1. \A p \in {"wait", "stop"} :
          [phase EXCEPT ![k] = p] \in
            [Loops -> {"none", "drain", "wait", "stop", "force", "forcing", "done"}]
    BY <1>1, <1>3
  <2>2. CASE StopAllDrained(k)
    BY <1>1, <1>3, <2>1, <2>2 DEF StopAllDrained, Goto
  <2>3. CASE StopAllWait(k)
    BY <1>1, <1>3, <2>1, <2>3 DEF StopAllWait, Goto
  <2>4. CASE StopAllStop(k)
    <3>1. [stream EXCEPT ![Current(k)] = "stopped"] \in [Requests -> States]
      BY <1>1, <1>6
    <3> QED
      BY <1>1, <1>3, <2>1, <2>4, <3>1 DEF StopAllStop, Goto, Advance
  <2> QED
    BY <1>8, <2>2, <2>3, <2>4
<1>9. ASSUME StopAllClear(k) PROVE Good
  BY <1>1, <1>2, <1>3, <1>9 DEF StopAllClear, Goto
<1>10. ASSUME ForceStep PROVE Good
  <2>1. CASE TimerFires
    BY <1>1, <1>2, <1>3, <2>1 DEF TimerFires, Enter, reqVars
  <2>2. CASE ForceOne
    BY <1>1, <1>3, <1>4, <2>2 DEF ForceOne, Goto
  <2>3. CASE ForceReturns
    BY <1>1, <1>3, <2>3 DEF ForceReturns, Goto, Advance
  <2>4. CASE ForceDone
    BY <1>1, <1>2, <1>3, <2>4 DEF ForceDone, Goto
  <2> QED
    BY <1>10, <2>1, <2>2, <2>3, <2>4 DEF ForceStep
<1>11. ASSUME BootDone \/ BootFails \/ MainLeaves \/ MainExit PROVE Good
  BY <1>1, <1>11 DEF BootDone, BootFails, MainLeaves, MainExit, loopVars
<1>12. ASSUME MainStopAll \/ Signal PROVE Good
  <2>1. CASE MainStopAll
    BY <1>1, <1>2, <1>3, <2>1 DEF MainStopAll, Enter
  <2>2. CASE Signal
    BY <1>1, <1>2, <1>3, <2>2 DEF Signal, Enter
  <2> QED
    BY <1>12, <2>1, <2>2
<1>13. Good
  BY <1>7, <1>8, <1>9, <1>10, <1>11, <1>12 DEF StopAllStep
<1> HIDE DEF Good
<1>14. /\ main' \in {"boot", "parked", "closing", "stopping", "exited"}
       /\ timer' \in {"off", "armed", "fired"} /\ overlap' \in BOOLEAN
  <2>1. CASE StopAllStep(k)
    BY <2>1 DEF StopAllStep, StopAllDrain, StopAllDrained, StopAllWait, StopAllStop, StopAllClear,
       mainVars, Types
  <2>2. CASE ForceStep
    BY <2>2 DEF ForceStep, TimerFires, ForceOne, ForceReturns, ForceDone, mainVars, Types
  <2>3. CASE BootDone \/ BootFails \/ MainLeaves \/ MainStopAll \/ MainExit \/ Signal
    BY <2>3 DEF BootDone, BootFails, MainLeaves, MainStopAll, MainExit, Signal, Types
  <2> QED
    BY <2>1, <2>2, <2>3
<1>15. signals' \in 0 .. 1
  <2>1. signals' = signals \/ (signals < MaxSignals /\ signals' = signals + 1)
    BY DEF StopAllStep, StopAllDrain, StopAllDrained, StopAllWait, StopAllStop, StopAllClear,
       ForceStep, TimerFires, ForceOne, ForceReturns, ForceDone, BootDone, BootFails, MainLeaves,
       MainStopAll, MainExit, Signal, mainVars
  <2> QED
    BY <2>1, RequestAssumption DEF Types
<1> QED
  BY <1>13, <1>14, <1>15, LoopFrame DEF Types, Good

\* The steps of Next by who takes them.
LEMMA WhoSteps ==
  ASSUME Next
  PROVE  \/ \E r \in Requests : Begin(r) \/ RequestStep(r) \/ Finish(r) \/ BootNext(r)
         \/ \E k \in {"signal", "main"} :
              StopAllStep(k) \/ ForceStep \/ BootDone \/ BootFails \/ MainLeaves \/ MainStopAll
                \/ MainExit \/ Signal
BY DEF Next, MainStep

LEMMA NextTypes == Types /\ [Next]_vars => Types'
<1>1. CASE Next
  BY <1>1, WhoSteps, RequestTypes, LoopTypes
<1>2. CASE UNCHANGED vars
  BY <1>2 DEF vars, Types, reqVars, loopVars, mainVars
<1> QED
  BY <1>1, <1>2
-----------------------------------------------------------------------------
(* How far the loops are *)

LEMMA InitWalks == Init => Walks
<1> SUFFICES ASSUME Init PROVE Walks
  OBVIOUS
<1>1. phase = [k \in Loops |-> "none"]
  BY DEF Init, Loops
<1>2. DOMAIN phase = Loops
  BY <1>1
<1>3. snap = [k \in Loops |-> <<>>] /\ at = [k \in Loops |-> 1]
  BY <1>2 DEF Init
<1>4. Len(<<>>) = 0
  OBVIOUS
<1> QED
  BY <1>1, <1>3, <1>4 DEF Walks, More, Loops

\* What a step of loop l does shows in l's place only.
LEMMA WalkOf ==
  ASSUME Walks, NEW l \in Loops,
         \A k \in Loops \ {l} : phase'[k] = phase[k] /\ snap'[k] = snap[k] /\ at'[k] = at[k],
         phase'[l] # "done" => at'[l] \in 1 .. Len(snap'[l]) + 1,
         phase'[l] \in {"stop", "forcing"} => at'[l] <= Len(snap'[l]),
         phase'[l] \in IF l = "force" THEN {"none", "force", "forcing", "done"}
                       ELSE {"none", "drain", "wait", "stop", "done"}
  PROVE  Walks'
<1>1. \A k \in Loops : phase'[k] # "done" => at'[k] \in 1 .. Len(snap'[k]) + 1
  BY DEF Walks
<1>2. \A k \in Loops : phase'[k] \in {"stop", "forcing"} => at'[k] <= Len(snap'[k])
  BY DEF Walks, More
<1>3. \A k \in {"signal", "main"} : phase'[k] \in {"none", "drain", "wait", "stop", "done"}
  BY DEF Walks, Loops
<1>4. phase'["force"] \in {"none", "force", "forcing", "done"}
  BY DEF Walks, Loops
<1> QED
  BY <1>1, <1>2, <1>3, <1>4 DEF Walks, More

\* A loop begins with its snapshot.
LEMMA EnterWalks ==
  ASSUME Types, Walks, NEW l \in Loops, NEW p, Enter(l, p),
         p = IF l = "force" THEN "force" ELSE "drain"
  PROVE  Walks'
<1>1. Snapshot \in Seq(Requests)
  BY SnapshotIs DEF Types
<1>2. Len(Snapshot) \in Nat
  BY <1>1
<1>3. /\ \A k \in Loops \ {l} : phase'[k] = phase[k] /\ snap'[k] = snap[k] /\ at'[k] = at[k]
      /\ phase'[l] = p /\ snap'[l] = Snapshot /\ at'[l] = 1
  BY DEF Types, Enter
<1> HIDE DEF Snapshot
<1>4. at'[l] \in 1 .. Len(snap'[l]) + 1
  BY <1>2, <1>3
<1> QED
  BY <1>3, <1>4, WalkOf

LEMMA LoopWalks ==
  ASSUME Types, Walks, NEW k \in {"signal", "main"},
         StopAllStep(k) \/ ForceStep \/ BootDone \/ BootFails \/ MainLeaves \/ MainStopAll
           \/ MainExit \/ Signal
  PROVE  Walks'
<1>1. /\ phase \in [Loops -> {"none", "drain", "wait", "stop", "force", "forcing", "done"}]
      /\ snap \in [Loops -> Seq(Requests)] /\ at \in [Loops -> Nat \ {0}]
  BY DEF Types
<1>2. k \in Loops /\ "signal" \in Loops /\ "main" \in Loops /\ "force" \in Loops
  BY DEF Loops
<1>3. \A l \in Loops : Len(snap[l]) \in Nat /\ at[l] \in Nat \ {0}
  BY <1>1
<1>4. \A l \in Loops : phase[l] # "done" => at[l] \in 1 .. Len(snap[l]) + 1
  BY DEF Walks
<1>5. \A l \in Loops : phase[l] \in {"stop", "forcing"} => at[l] <= Len(snap[l])
  BY DEF Walks, More
<1>6. CASE StopAllDrain(k)
  <2>1. phase[k] = "drain" /\ at[k] <= Len(snap[k])
    BY <1>6 DEF StopAllDrain, More
  <2>2. phase' = phase /\ snap' = snap /\ at' = [at EXCEPT ![k] = @ + 1]
    BY <1>6 DEF StopAllDrain, Advance
  <2>3. at'[k] \in 1 .. Len(snap[k]) + 1
    BY <1>1, <1>2, <1>3, <2>1, <2>2
  <2> QED
    BY <1>1, <1>2, <2>1, <2>2, <2>3, WalkOf
<1>7. CASE StopAllDrained(k)
  <2>1. phase' = [phase EXCEPT ![k] = "wait"] /\ snap' = snap /\ at' = [at EXCEPT ![k] = 1]
    BY <1>7 DEF StopAllDrained, Goto
  <2>2. at'[k] \in 1 .. Len(snap[k]) + 1
    BY <1>1, <1>2, <1>3, <2>1
  <2> QED
    BY <1>1, <1>2, <2>1, <2>2, WalkOf
<1>8. CASE StopAllWait(k)
  <2>1. phase' = [phase EXCEPT ![k] = "stop"] /\ snap' = snap /\ at' = at
        /\ phase[k] = "wait" /\ at[k] <= Len(snap[k])
    BY <1>8 DEF StopAllWait, Goto, More
  <2> QED
    BY <1>1, <1>2, <1>4, <2>1, WalkOf
<1>9. CASE StopAllStop(k)
  <2>1. /\ phase' = [phase EXCEPT ![k] = "wait"] /\ snap' = snap
        /\ at' = [at EXCEPT ![k] = @ + 1] /\ phase[k] = "stop"
    BY <1>9 DEF StopAllStop, Goto, Advance
  <2>2. at'[k] \in 1 .. Len(snap[k]) + 1
    BY <1>1, <1>2, <1>3, <1>5, <2>1
  <2> QED
    BY <1>1, <1>2, <2>1, <2>2, WalkOf
<1>10. CASE StopAllClear(k)
  <2>1. /\ phase' = [phase EXCEPT ![k] = "done"] /\ snap' = [snap EXCEPT ![k] = <<>>]
        /\ at' = at
    BY <1>10 DEF StopAllClear, Goto
  <2> QED
    BY <1>1, <1>2, <2>1, WalkOf
<1>11. CASE TimerFires
  BY <1>2, <1>11, EnterWalks DEF TimerFires
<1>12. CASE ForceOne
  <2>1. phase' = [phase EXCEPT !["force"] = "forcing"] /\ snap' = snap /\ at' = at
        /\ phase["force"] = "force" /\ at["force"] <= Len(snap["force"])
    BY <1>12 DEF ForceOne, Goto, More
  <2> QED
    BY <1>1, <1>2, <1>4, <2>1, WalkOf
<1>13. CASE ForceReturns
  <2>1. /\ phase' = [phase EXCEPT !["force"] = "force"] /\ snap' = snap
        /\ at' = [at EXCEPT !["force"] = @ + 1] /\ phase["force"] = "forcing"
    BY <1>13 DEF ForceReturns, Goto, Advance
  <2>2. at'["force"] \in 1 .. Len(snap["force"]) + 1
    BY <1>1, <1>2, <1>3, <1>5, <2>1
  <2> QED
    BY <1>1, <1>2, <2>1, <2>2, WalkOf
<1>14. CASE ForceDone
  <2>1. /\ phase' = [phase EXCEPT !["force"] = "done"] /\ snap' = [snap EXCEPT !["force"] = <<>>]
        /\ at' = at
    BY <1>14 DEF ForceDone, Goto
  <2> QED
    BY <1>1, <1>2, <2>1, WalkOf
<1>15. CASE BootDone \/ BootFails \/ MainLeaves \/ MainExit
  BY <1>15 DEF BootDone, BootFails, MainLeaves, MainExit, loopVars, Walks, More
<1>16. CASE MainStopAll
  BY <1>2, <1>16, EnterWalks DEF MainStopAll
<1>17. CASE Signal
  BY <1>2, <1>17, EnterWalks DEF Signal
<1> QED
  BY <1>6, <1>7, <1>8, <1>9, <1>10, <1>11, <1>12, <1>13, <1>14, <1>15, <1>16, <1>17
     DEF StopAllStep, ForceStep

LEMMA NextWalks == Types /\ Walks /\ [Next]_vars => Walks'
<1>1. ASSUME UNCHANGED <<phase, snap, at>>, Walks PROVE Walks'
  BY <1>1 DEF Walks, More
<1>2. ASSUME Walks, NEW r \in Requests, Begin(r) \/ RequestStep(r) \/ Finish(r) \/ BootNext(r)
      PROVE  Walks'
  BY <1>1, <1>2, RequestFrame
<1>3. CASE Next
  BY <1>2, <1>3, WhoSteps, LoopWalks
<1>4. CASE UNCHANGED vars
  BY <1>1, <1>4 DEF vars, loopVars
<1> QED
  BY <1>3, <1>4
-----------------------------------------------------------------------------
(* What a step of a request does *)

\* It goes on, and nothing but its place changes.
GoesOn(r) ==
  \E p \in Places :
    /\ pc' = [pc EXCEPT ![r] = p] /\ UNCHANGED <<table, stream, held>>
    /\ \/ pc[r] = "new" /\ p = "hop" /\ Op[r] # "BOOT"
       \/ pc[r] = "new" /\ p = "add" /\ Op[r] = "BOOT"
       \/ pc[r] = "hop" /\ p = "add" /\ Op[r] \in {"POST", "PUT"}
       \/ pc[r] = "hop" /\ p \in {"failed", "missing"} /\ Op[r] \in {"POST", "DELETE"}
       \/ pc[r] = "add" /\ p = "failed"
       \/ pc[r] = "starting" /\ p = "unwind"
       \/ pc[r] = "wait" /\ p = "stop"

\* It reads: it may hold streams that are listed.
Looks(r) ==
  \E p \in {"ok", "missing", "stats", "gather"}, H \in SUBSET Listed :
    /\ pc[r] \in {"hop", "stats", "gather"} /\ (pc[r] = "hop" => Op[r] = "READ")
    /\ pc' = [pc EXCEPT ![r] = p] /\ held' = [held EXCEPT ![r] = H]
    /\ p # "gather" => H = {}
    /\ UNCHANGED <<table, stream>>

Finds(r) == pc[r] = "hop" /\ Op[r] \in {"PUT", "DELETE"} /\ RemoveFound(r)

Does(r) ==
  \/ GoesOn(r) \/ Looks(r) \/ AddBegin(r) \/ AddStarted(r) \/ Unwound(r)
  \/ Finds(r) \/ RemoveDrain(r) \/ RemoveStop(r) \/ Finish(r)

LEMMA LooksIf ==
  ASSUME NEW r, NEW p \in {"ok", "missing", "stats", "gather"}, NEW H \in SUBSET Listed,
         pc[r] \in {"hop", "stats", "gather"}, pc[r] = "hop" => Op[r] = "READ",
         pc' = [pc EXCEPT ![r] = p], held' = [held EXCEPT ![r] = H],
         p # "gather" => H = {}, UNCHANGED <<table, stream>>
  PROVE  Looks(r)
BY DEF Looks

LEMMA LooksInVain ==
  ASSUME NEW r, NEW p \in {"ok", "missing", "stats", "gather"},
         pc[r] \in {"hop", "stats", "gather"}, pc[r] = "hop" => Op[r] = "READ",
         pc' = [pc EXCEPT ![r] = p], held' = [held EXCEPT ![r] = {}],
         UNCHANGED <<table, stream>>
  PROVE  Looks(r)
<1>1. {} \in SUBSET Listed
  OBVIOUS
<1> QED
  BY <1>1, LooksIf

LEMMA RequestDoes ==
  ASSUME Types, Kinds, NEW r \in Requests,
         Begin(r) \/ RequestStep(r) \/ Finish(r) \/ BootNext(r)
  PROVE  Does(r)
<1>1. /\ table \in [Ids -> Requests \cup {None}] /\ pc \in [Requests -> Places]
      /\ held \in [Requests -> SUBSET Requests] /\ Target[r] \in Ids /\ Op[r] \in Ops
  BY RequestAssumption DEF Types
<1>2. {"ok", "failed", "missing", "hop", "add", "unwind", "stop"} \subseteq Places
  BY DEF Places, Answered, AtWork, Removing
<1>3. CASE Begin(r)
  <2>1. pc' = [pc EXCEPT ![r] = "hop"] /\ UNCHANGED <<table, stream, held>>
        /\ pc[r] = "new" /\ Op[r] # "BOOT"
    BY <1>3 DEF Begin
  <2> QED
    BY <1>2, <2>1 DEF Does, GoesOn
<1>4. CASE BootNext(r)
  <2>1. PICK n \in 1 .. Len(Boot) : Boot[n] = r
    BY <1>4 DEF BootNext
  <2>2. r \in Range(Boot)
    BY <2>1, RequestAssumption DEF Range
  <2>3. Op[r] = "BOOT"
    BY <2>2, RequestAssumption
  <2>4. pc' = [pc EXCEPT ![r] = "add"] /\ UNCHANGED <<table, stream, held>> /\ pc[r] = "new"
    BY <1>4 DEF BootNext
  <2> QED
    BY <1>2, <2>3, <2>4 DEF Does, GoesOn
<1>5. CASE AddRefused(r) \/ AddFails(r) \/ RemoveWait(r)
  <2>1. \E p \in {"failed", "unwind", "stop"} :
          /\ pc' = [pc EXCEPT ![r] = p] /\ UNCHANGED <<table, stream, held>>
          /\ \/ pc[r] = "add" /\ p = "failed"
             \/ pc[r] = "starting" /\ p = "unwind"
             \/ pc[r] = "wait" /\ p = "stop"
    BY <1>5 DEF AddRefused, AddFails, RemoveWait
  <2> QED
    BY <1>2, <2>1 DEF Does, GoesOn
<1>6. CASE Post(r)
  <2>1. \E p \in {"add", "failed"} :
          /\ pc' = [pc EXCEPT ![r] = p] /\ UNCHANGED <<table, stream, held>>
          /\ pc[r] = "hop" /\ Op[r] = "POST"
    BY <1>6 DEF Post
  <2> QED
    BY <1>2, <2>1 DEF Does, GoesOn
<1>7. CASE RemoveHop(r)
  <2>1. CASE RemoveFound(r)
    BY <1>7, <2>1 DEF Does, Finds, RemoveHop
  <2>2. CASE RemoveMissing(r)
    <3>1. \E p \in {"add", "missing"} :
            /\ pc' = [pc EXCEPT ![r] = p] /\ UNCHANGED <<table, stream, held>>
            /\ pc[r] = "hop" /\ Op[r] \in {"PUT", "DELETE"}
            /\ p = "add" <=> Op[r] = "PUT"
      BY <1>7, <2>2 DEF RemoveHop, RemoveMissing
    <3> QED
      BY <1>2, <3>1 DEF Does, GoesOn
  <2> QED
    BY <1>7, <2>1, <2>2 DEF RemoveHop
<1>8. CASE ReadOne(r) \/ ReadAll(r) \/ StatsHas(r) \/ GatherOne(r) \/ Gathered(r)
  <2>1. table[Target[r]] # None => table[Target[r]] \in Listed
    BY <1>1 DEF Listed
  <2>2. pc[r] = "hop" \/ pc[r] = "stats" => held[r] = {}
    BY DEF Kinds, Removing
  <2>3. pc[r] = "hop" \/ pc[r] = "stats" => held = [held EXCEPT ![r] = {}]
    BY <1>1, <2>2
  <2>4. CASE ReadOne(r)
    <3>1. pc[r] = "hop" /\ Op[r] = "READ" /\ UNCHANGED <<table, stream>>
      BY <2>4 DEF ReadOne
    <3>2. CASE table[Target[r]] = None
      <4>1. pc' = [pc EXCEPT ![r] = "missing"] /\ held' = [held EXCEPT ![r] = {}]
        BY <2>3, <2>4, <3>1, <3>2 DEF ReadOne
      <4> QED
        BY <3>1, <4>1, LooksInVain DEF Does
    <3>3. CASE table[Target[r]] # None
      <4>1. /\ pc' = [pc EXCEPT ![r] = "gather"]
            /\ held' = [held EXCEPT ![r] = {table[Target[r]]}]
            /\ {table[Target[r]]} \in SUBSET Listed
        BY <2>1, <2>4, <3>3 DEF ReadOne
      <4> QED
        BY <3>1, <4>1, LooksIf DEF Does
    <3> QED
      BY <3>2, <3>3
  <2>5. CASE ReadAll(r)
    <3>1. /\ pc[r] = "hop" /\ Op[r] = "READ" /\ UNCHANGED <<table, stream>>
          /\ pc' = [pc EXCEPT ![r] = IF Listed = {} THEN "ok" ELSE "gather"]
          /\ held' = [held EXCEPT ![r] = Listed]
      BY <2>5 DEF ReadAll
    <3>2. Listed \in SUBSET Listed
      OBVIOUS
    <3>3. CASE Listed = {}
      BY <3>1, <3>3, LooksInVain DEF Does
    <3>4. CASE Listed # {}
      BY <3>1, <3>2, <3>4, LooksIf DEF Does
    <3> QED
      BY <3>3, <3>4
  <2>6. CASE StatsHas(r)
    <3>1. /\ pc[r] = "hop" /\ Op[r] = "READ" /\ UNCHANGED <<table, stream>>
          /\ \E p \in {"missing", "stats"} : pc' = [pc EXCEPT ![r] = p]
          /\ held' = [held EXCEPT ![r] = {}]
      BY <2>3, <2>6 DEF StatsHas
    <3>2. PICK p \in {"missing", "stats"} : pc' = [pc EXCEPT ![r] = p]
      BY <3>1
    <3>3. Looks(r)
      BY <3>1, <3>2, LooksInVain
    <3> QED
      BY <3>3 DEF Does
  <2>7. CASE GatherOne(r)
    <3>1. pc[r] = "stats" /\ UNCHANGED <<table, stream>>
      BY <2>7 DEF GatherOne
    <3>2. CASE table[Target[r]] = None
      <4>1. pc' = [pc EXCEPT ![r] = "ok"] /\ held' = [held EXCEPT ![r] = {}]
        BY <2>3, <2>7, <3>1, <3>2 DEF GatherOne
      <4> QED
        BY <3>1, <4>1, LooksInVain DEF Does
    <3>3. CASE table[Target[r]] # None
      <4>1. /\ pc' = [pc EXCEPT ![r] = "gather"]
            /\ held' = [held EXCEPT ![r] = {table[Target[r]]}]
            /\ {table[Target[r]]} \in SUBSET Listed
        BY <2>1, <2>7, <3>3 DEF GatherOne
      <4> QED
        BY <3>1, <4>1, LooksIf DEF Does
    <3> QED
      BY <3>2, <3>3
  <2>8. CASE Gathered(r)
    <3>1. /\ pc[r] = "gather" /\ UNCHANGED <<table, stream>>
          /\ pc' = [pc EXCEPT ![r] = "ok"] /\ held' = [held EXCEPT ![r] = {}]
      BY <2>8 DEF Gathered
    <3> QED
      BY <3>1, LooksInVain DEF Does
  <2> QED
    BY <1>8, <2>4, <2>5, <2>6, <2>7, <2>8
<1> QED
  BY <1>3, <1>4, <1>5, <1>6, <1>7, <1>8 DEF RequestStep, Does
-----------------------------------------------------------------------------
(* Kinds *)

\* Only r has moved.
LEMMA KindsOf ==
  ASSUME Kinds, NEW r \in Requests,
         \A s \in Requests \ {r} : pc'[s] = pc[s] /\ held'[s] = held[s],
         pc'[r] \in {"add", "starting", "unwind"} => Op[r] \in {"BOOT", "POST", "PUT"},
         pc'[r] \in Removing => Op[r] \in {"PUT", "DELETE"},
         pc'[r] \in {"stats", "gather"} => Op[r] = "READ",
         pc'[r] = "hop" => Op[r] # "BOOT",
         pc'[r] \notin Removing \cup {"gather"} => held'[r] = {},
         pc'[r] \in Removing => \E i \in Requests : held'[r] = {i} /\ Target[i] = Target[r]
  PROVE  Kinds'
<1> SUFFICES ASSUME NEW s \in Requests
             PROVE  /\ pc'[s] \in {"add", "starting", "unwind"} => Op[s] \in {"BOOT", "POST", "PUT"}
                    /\ pc'[s] \in Removing => Op[s] \in {"PUT", "DELETE"}
                    /\ pc'[s] \in {"stats", "gather"} => Op[s] = "READ"
                    /\ pc'[s] = "hop" => Op[s] # "BOOT"
                    /\ pc'[s] \notin Removing \cup {"gather"} => held'[s] = {}
                    /\ pc'[s] \in Removing =>
                         \E i \in Requests : held'[s] = {i} /\ Target[i] = Target[s]
  BY DEF Kinds, Removing
<1>1. CASE s = r
  BY <1>1
<1>2. CASE s # r
  BY <1>2 DEF Kinds
<1> QED
  BY <1>1, <1>2

LEMMA RequestKinds ==
  ASSUME Types, Kinds, Known, NEW r \in Requests, Does(r)
  PROVE  Kinds'
<1>1. /\ table \in [Ids -> Requests \cup {None}] /\ pc \in [Requests -> Places]
      /\ held \in [Requests -> SUBSET Requests] /\ Target[r] \in Ids /\ Op[r] \in Ops
  BY RequestAssumption DEF Types
<1>2. /\ pc[r] \in {"add", "starting", "unwind"} => Op[r] \in {"BOOT", "POST", "PUT"}
      /\ pc[r] \in Removing => Op[r] \in {"PUT", "DELETE"}
      /\ pc[r] \in {"stats", "gather"} => Op[r] = "READ"
      /\ pc[r] \notin Removing \cup {"gather"} => held[r] = {}
      /\ pc[r] \in Removing => \E i \in Requests : held[r] = {i} /\ Target[i] = Target[r]
  BY DEF Kinds
<1>3. CASE GoesOn(r)
  <2>1. PICK p \in Places :
          /\ pc' = [pc EXCEPT ![r] = p] /\ UNCHANGED <<table, stream, held>>
          /\ \/ pc[r] = "new" /\ p = "hop" /\ Op[r] # "BOOT"
             \/ pc[r] = "new" /\ p = "add" /\ Op[r] = "BOOT"
             \/ pc[r] = "hop" /\ p = "add" /\ Op[r] \in {"POST", "PUT"}
             \/ pc[r] = "hop" /\ p \in {"failed", "missing"} /\ Op[r] \in {"POST", "DELETE"}
             \/ pc[r] = "add" /\ p = "failed"
             \/ pc[r] = "starting" /\ p = "unwind"
             \/ pc[r] = "wait" /\ p = "stop"
    BY <1>3 DEF GoesOn
  <2>2. /\ \A s \in Requests \ {r} : pc'[s] = pc[s] /\ held'[s] = held[s]
        /\ pc'[r] = p /\ held'[r] = held[r]
    BY <1>1, <2>1
  <2> QED
    BY <1>2, <2>1, <2>2, KindsOf DEF Removing
<1>4. CASE Looks(r)
  <2>1. PICK p \in {"ok", "missing", "stats", "gather"}, H \in SUBSET Listed :
          /\ pc[r] \in {"hop", "stats", "gather"} /\ (pc[r] = "hop" => Op[r] = "READ")
          /\ pc' = [pc EXCEPT ![r] = p] /\ held' = [held EXCEPT ![r] = H]
          /\ p # "gather" => H = {}
    BY <1>4 DEF Looks
  <2>2. /\ \A s \in Requests \ {r} : pc'[s] = pc[s] /\ held'[s] = held[s]
        /\ pc'[r] = p /\ held'[r] = H
    BY <1>1, <2>1
  <2> QED
    BY <1>2, <2>1, <2>2, KindsOf DEF Removing
<1>5. CASE AddBegin(r) \/ AddStarted(r) \/ Unwound(r)
  <2>1. /\ \E p \in {"starting", "ok", "failed"} : pc' = [pc EXCEPT ![r] = p]
        /\ held' = held /\ pc[r] \in {"add", "starting", "unwind"}
    BY <1>5 DEF AddBegin, AddStarted, Unwound
  <2>2. /\ \A s \in Requests \ {r} : pc'[s] = pc[s] /\ held'[s] = held[s]
        /\ pc'[r] \in {"starting", "ok", "failed"} /\ held'[r] = held[r]
    BY <1>1, <2>1
  <2> QED
    BY <1>2, <2>1, <2>2, KindsOf DEF Removing
<1>6. CASE Finds(r)
  <2>1. /\ Op[r] \in {"PUT", "DELETE"} /\ pc' = [pc EXCEPT ![r] = "drain"]
        /\ held' = [held EXCEPT ![r] = {table[Target[r]]}] /\ table[Target[r]] # None
    BY <1>6 DEF Finds, RemoveFound
  <2>2. table[Target[r]] \in Requests /\ Target[table[Target[r]]] = Target[r]
    BY <1>1, <2>1 DEF Known
  <2>3. /\ \A s \in Requests \ {r} : pc'[s] = pc[s] /\ held'[s] = held[s]
        /\ pc'[r] = "drain" /\ held'[r] = {table[Target[r]]}
    BY <1>1, <2>1
  <2> QED
    BY <2>1, <2>2, <2>3, KindsOf DEF Removing
<1>7. CASE RemoveDrain(r)
  <2>1. pc[r] = "drain" /\ pc' = [pc EXCEPT ![r] = "wait"] /\ held' = held
    BY <1>7 DEF RemoveDrain
  <2>2. /\ \A s \in Requests \ {r} : pc'[s] = pc[s] /\ held'[s] = held[s]
        /\ pc'[r] = "wait" /\ held'[r] = held[r]
    BY <1>1, <2>1
  <2> QED
    BY <1>2, <2>1, <2>2, KindsOf DEF Removing
<1>8. CASE RemoveStop(r)
  <2>1. /\ pc[r] = "stop" /\ pc' = [pc EXCEPT ![r] = IF Op[r] = "PUT" THEN "add" ELSE "ok"]
        /\ held' = [held EXCEPT ![r] = {}]
    BY <1>8 DEF RemoveStop, AfterRemove
  <2>2. /\ \A s \in Requests \ {r} : pc'[s] = pc[s] /\ held'[s] = held[s]
        /\ pc'[r] = (IF Op[r] = "PUT" THEN "add" ELSE "ok") /\ held'[r] = {}
    BY <1>1, <2>1
  <2> QED
    BY <1>2, <2>1, <2>2, KindsOf DEF Removing
<1>9. CASE Finish(r)
  BY <1>9 DEF Finish, reqVars, Kinds
<1> QED
  BY <1>3, <1>4, <1>5, <1>6, <1>7, <1>8, <1>9 DEF Does

LEMMA InitKinds == Init => Kinds
BY DEF Init, Kinds, Removing
-----------------------------------------------------------------------------
(* Streams *)

\* What a request's step does to the streams, besides starting r's own.
LEMMA RequestStreams ==
  ASSUME Types, Kinds, Created, Known, NEW r \in Requests, Does(r), NEW i \in Requests
  PROVE  \/ stream'[i] = stream[i]
         \/ i = r /\ AddBegin(r) /\ stream[i] = "none" /\ stream'[i] = "starting"
         \/ i = r /\ AddStarted(r) /\ stream[i] = "starting" /\ stream'[i] = "running"
         \/ i = r /\ Unwound(r) /\ stream[i] = "starting" /\ stream'[i] = "stopped"
         \/ RemoveDrain(r) /\ i \in held[r] /\ stream[i] = "running" /\ stream'[i] = "draining"
         \/ RemoveStop(r) /\ i \in held[r] /\ stream'[i] = "stopped"
         \/ Finish(r) /\ i = r /\ stream[i] \in {"running", "draining"} /\ stream'[i] = "finished"
<1>1. stream \in [Requests -> States] /\ held \in [Requests -> SUBSET Requests]
  BY DEF Types
<1>2. /\ pc[r] = "add" => stream[r] = "none"
      /\ pc[r] \in {"starting", "unwind"} => stream[r] = "starting"
  BY DEF Created, Answered
<1>3. CASE GoesOn(r) \/ Looks(r) \/ Finds(r)
  BY <1>3 DEF GoesOn, Looks, Finds, RemoveFound
<1>4. CASE AddBegin(r)
  BY <1>1, <1>2, <1>4 DEF AddBegin
<1>5. CASE AddStarted(r)
  BY <1>1, <1>2, <1>5 DEF AddStarted
<1>6. CASE Unwound(r)
  BY <1>1, <1>2, <1>6 DEF Unwound
<1>7. CASE RemoveDrain(r)
  <2>1. PICK j \in held[r] : stream' = [stream EXCEPT ![j] = Drained(j)]
    BY <1>7 DEF RemoveDrain
  <2> QED
    BY <1>1, <1>7, <2>1 DEF Drained
<1>8. CASE RemoveStop(r)
  <2>1. PICK j \in held[r] : stream' = [stream EXCEPT ![j] = "stopped"]
    BY <1>8 DEF RemoveStop
  <2> QED
    BY <1>1, <1>8, <2>1
<1>9. CASE Finish(r)
  BY <1>1, <1>9 DEF Finish
<1> QED
  BY <1>3, <1>4, <1>5, <1>6, <1>7, <1>8, <1>9 DEF Does

\* Where the step of a request begins, and which requests it leaves alone.
LEMMA RequestPlaces ==
  ASSUME Types, NEW r \in Requests, Does(r)
  PROVE  /\ \A s \in Requests \ {r} : pc'[s] = pc[s] /\ held'[s] = held[s]
         /\ Finish(r) => pc' = pc /\ held' = held
         /\ ~Finish(r) => pc[r] \notin Answered
<1>1. pc \in [Requests -> Places] /\ held \in [Requests -> SUBSET Requests]
  BY DEF Types
<1>2. CASE GoesOn(r)
  <2>1. PICK p : pc' = [pc EXCEPT ![r] = p] /\ held' = held
    BY <1>2 DEF GoesOn
  <2>2. pc[r] \in {"new", "hop", "add", "starting", "wait"}
    BY <1>2 DEF GoesOn
  <2>3. Finish(r) => pc' = pc /\ held' = held
    BY DEF Finish, reqVars
  <2> QED
    BY <1>1, <2>1, <2>2, <2>3 DEF Answered
<1>3. CASE Looks(r)
  <2>1. PICK p, H : pc' = [pc EXCEPT ![r] = p] /\ held' = [held EXCEPT ![r] = H]
    BY <1>3 DEF Looks
  <2>2. pc[r] \in {"hop", "stats", "gather"}
    BY <1>3 DEF Looks
  <2>3. Finish(r) => pc' = pc /\ held' = held
    BY DEF Finish, reqVars
  <2> QED
    BY <1>1, <2>1, <2>2, <2>3 DEF Answered
<1>4. CASE AddBegin(r) \/ AddStarted(r) \/ Unwound(r)
  BY <1>1, <1>4 DEF AddBegin, AddStarted, Unwound, Finish, reqVars, Answered
<1>5. CASE Finds(r) \/ RemoveDrain(r) \/ RemoveStop(r)
  BY <1>1, <1>5 DEF Finds, RemoveFound, RemoveDrain, RemoveStop, AfterRemove, Finish, reqVars,
     Answered
<1>6. CASE Finish(r)
  BY <1>6 DEF Finish, reqVars
<1> QED
  BY <1>2, <1>3, <1>4, <1>5, <1>6 DEF Does

\* What the steps of the process do to the streams, the table and the snapshots.
LEMMA LoopStreams ==
  ASSUME Types, Walks, Known, NEW k \in {"signal", "main"},
         StopAllStep(k) \/ ForceStep \/ BootDone \/ BootFails \/ MainLeaves \/ MainStopAll
           \/ MainExit \/ Signal
  PROVE  /\ \A i \in Requests :
              \/ stream'[i] = stream[i]
              \/ /\ HasStarted(i)
                 /\ \/ stream'[i] = "stopped"
                    \/ stream[i] = "running" /\ stream'[i] = "draining"
         /\ table' = table \/ StopAllClear(k)
         /\ \A l \in Loops : snap'[l] \in {snap[l], Snapshot, <<>>}
<1>1. stream \in [Requests -> States] /\ snap \in [Loops -> Seq(Requests)]
  BY DEF Types
<1>2. k \in Loops /\ "signal" \in Loops /\ "main" \in Loops /\ "force" \in Loops
  BY DEF Loops
<1>3. \A l \in Loops : More(l) => HasStarted(Current(l))
  <2> SUFFICES ASSUME NEW l \in Loops, More(l) PROVE HasStarted(Current(l))
    OBVIOUS
  <2>1. at[l] \in Nat \ {0} /\ snap[l] \in Seq(Requests)
    BY DEF Types
  <2>2. at[l] \in 1 .. Len(snap[l])
    BY <2>1 DEF More
  <2>3. Current(l) \in Range(snap[l])
    BY <2>1, <2>2 DEF Current, Range
  <2> QED
    BY <2>3 DEF Known
<1>4. CASE StopAllDrain(k)
  <2>1. HasStarted(Current(k))
    BY <1>2, <1>3, <1>4 DEF StopAllDrain
  <2>2. stream' = [stream EXCEPT ![Current(k)] = Drained(Current(k))]
        /\ table' = table /\ snap' = snap
    BY <1>4 DEF StopAllDrain
  <2> QED
    BY <1>1, <2>1, <2>2 DEF Drained
<1>5. CASE StopAllStop(k)
  <2>1. HasStarted(Current(k))
    BY <1>2, <1>3, <1>5 DEF StopAllStop, Walks
  <2>2. stream' = [stream EXCEPT ![Current(k)] = "stopped"] /\ table' = table /\ snap' = snap
    BY <1>5 DEF StopAllStop
  <2> QED
    BY <1>1, <2>1, <2>2
<1>6. CASE StopAllDrained(k) \/ StopAllWait(k)
  BY <1>6 DEF StopAllDrained, StopAllWait
<1>7. CASE StopAllClear(k)
  BY <1>1, <1>2, <1>7 DEF StopAllClear
<1>8. CASE ForceStep
  BY <1>1, <1>2, <1>8 DEF ForceStep, TimerFires, Enter, ForceOne, ForceReturns, ForceDone
<1>9. CASE BootDone \/ BootFails \/ MainLeaves \/ MainExit
  BY <1>9 DEF BootDone, BootFails, MainLeaves, MainExit, loopVars
<1>10. CASE MainStopAll \/ Signal
  BY <1>1, <1>2, <1>10 DEF MainStopAll, Signal, Enter
<1> QED
  BY <1>4, <1>5, <1>6, <1>7, <1>8, <1>9, <1>10 DEF StopAllStep

\* Once started is started for ever.
LEMMA RequestStarted ==
  ASSUME Types, Kinds, Created, Known, NEW r \in Requests, Does(r), NEW i, HasStarted(i)
  PROVE  HasStarted(i)'
<1>1. i \in Requests /\ pc[i] = "ok" /\ stream[i] # "none"
  BY DEF HasStarted
<1>2. pc'[i] = pc[i]
  <2>1. "ok" \in Answered
    BY DEF Answered
  <2> QED
    BY <1>1, <2>1, RequestPlaces
<1>3. stream'[i] # "none"
  BY <1>1, RequestStreams
<1> QED
  BY <1>1, <1>2, <1>3 DEF HasStarted

LEMMA LoopStarted ==
  ASSUME Types, Walks, Known, NEW k \in {"signal", "main"},
         StopAllStep(k) \/ ForceStep \/ BootDone \/ BootFails \/ MainLeaves \/ MainStopAll
           \/ MainExit \/ Signal,
         NEW i, HasStarted(i)
  PROVE  HasStarted(i)'
<1>1. i \in Requests /\ pc[i] = "ok" /\ stream[i] # "none" /\ pc' = pc
  BY LoopFrame DEF HasStarted
<1>2. stream'[i] # "none"
  BY <1>1, LoopStreams
<1> QED
  BY <1>1, <1>2 DEF HasStarted

LEMMA InitCreated == Init => Created
BY DEF Init, Created, Answered

LEMMA RequestCreated ==
  ASSUME Types, Kinds, Created, Known, NEW r \in Requests, Does(r)
  PROVE  Created'
<1> SUFFICES ASSUME NEW s \in Requests
             PROVE  /\ pc'[s] \notin Answered \cup {"starting", "unwind"} => stream'[s] = "none"
                    /\ pc'[s] \in {"starting", "unwind"} => stream'[s] = "starting"
                    /\ pc'[s] \in Answered => stream'[s] # "starting"
  BY DEF Created, Answered
<1>1. /\ pc[s] \notin Answered \cup {"starting", "unwind"} => stream[s] = "none"
      /\ pc[s] \in {"starting", "unwind"} => stream[s] = "starting"
      /\ pc[s] \in Answered => stream[s] # "starting"
  BY DEF Created
<1>2. pc \in [Requests -> Places] /\ stream \in [Requests -> States]
  BY DEF Types
<1>3. \A i \in held[r] : pc[i] = "ok" /\ stream[i] # "none"
  BY DEF Known, HasStarted
<1>4. CASE s # r
  <2>1. pc'[s] = pc[s]
    BY <1>4, RequestPlaces
  <2>2. \/ stream'[s] = stream[s]
        \/ s \in held[r] /\ stream'[s] \in {"draining", "stopped"}
    BY <1>4, RequestStreams
  <2>3. s \in held[r] => pc[s] \in Answered
    BY <1>3 DEF Answered
  <2> QED
    BY <1>1, <2>1, <2>2, <2>3 DEF Answered
<1>5. CASE s = r
  <2>1. CASE Finish(r)
    <3>1. pc' = pc /\ stream[r] \in {"running", "draining"} /\ stream'[r] = "finished"
      BY <1>2, <2>1 DEF Finish, reqVars
    <3> QED
      BY <1>1, <1>5, <3>1
  <2>2. CASE AddBegin(r)
    <3>1. pc'[r] = "starting" /\ stream'[r] = "starting"
      BY <1>2, <2>2 DEF AddBegin
    <3> QED
      BY <1>5, <3>1 DEF Answered
  <2>3. CASE AddStarted(r)
    <3>1. pc'[r] = "ok" /\ stream'[r] = "running"
      BY <1>2, <2>3 DEF AddStarted
    <3> QED
      BY <1>5, <3>1 DEF Answered
  <2>4. CASE Unwound(r)
    <3>1. pc'[r] = "failed" /\ stream'[r] = "stopped"
      BY <1>2, <2>4 DEF Unwound
    <3> QED
      BY <1>5, <3>1 DEF Answered
  <2>5. CASE ~Finish(r) /\ ~AddBegin(r) /\ ~AddStarted(r) /\ ~Unwound(r)
    <3>1. pc[r] \notin Answered
      BY <2>5, RequestPlaces
    <3>2. r \notin held[r]
      BY <1>3, <3>1 DEF Answered
    <3>3. stream'[r] = stream[r]
      BY <2>5, <3>2, RequestStreams
    <3>4. CASE GoesOn(r)
      <4>1. \/ pc[r] = "starting" /\ pc'[r] = "unwind"
            \/ /\ pc[r] \in {"new", "hop", "add", "wait"}
               /\ pc'[r] \in {"hop", "add", "failed", "missing", "stop"}
        BY <1>2, <3>4 DEF GoesOn
      <4> QED
        BY <1>1, <1>5, <3>3, <4>1 DEF Answered
    <3>5. CASE Looks(r) \/ Finds(r) \/ RemoveDrain(r) \/ RemoveStop(r)
      <4>1. /\ pc[r] \in {"hop", "stats", "gather", "drain", "stop"}
            /\ pc'[r] \notin {"starting", "unwind"}
        BY <1>2, <3>5 DEF Looks, Finds, RemoveFound, RemoveDrain, RemoveStop, AfterRemove
      <4> QED
        BY <1>1, <1>5, <3>3, <4>1 DEF Answered
    <3> QED
      BY <2>5, <3>4, <3>5 DEF Does
  <2> QED
    BY <2>1, <2>2, <2>3, <2>4, <2>5
<1> QED
  BY <1>4, <1>5

LEMMA LoopCreated ==
  ASSUME Types, Walks, Created, Known, NEW k \in {"signal", "main"},
         StopAllStep(k) \/ ForceStep \/ BootDone \/ BootFails \/ MainLeaves \/ MainStopAll
           \/ MainExit \/ Signal
  PROVE  Created'
<1>1. pc' = pc
  BY LoopFrame
<1>2. \A i \in Requests : \/ stream'[i] = stream[i]
                          \/ pc[i] = "ok" /\ stream'[i] \in {"draining", "stopped"}
  BY LoopStreams DEF HasStarted
<1> QED
  BY <1>1, <1>2 DEF Created, Answered
-----------------------------------------------------------------------------
(* What is listed, held or snapped has started *)

LEMMA InitKnown == Init => Known
<1> SUFFICES ASSUME Init PROVE Known
  OBVIOUS
<1>1. phase = [k \in Loops |-> "none"]
  BY DEF Init, Loops
<1>2. DOMAIN phase = Loops
  BY <1>1
<1>3. snap = [k \in Loops |-> <<>>]
  BY <1>2 DEF Init
<1>4. Range(<<>>) = {}
  BY DEF Range
<1>5. \A k \in Loops : Range(snap[k]) = {}
  BY <1>3, <1>4
<1> QED
  BY <1>5, RequestAssumption DEF Init, Known

LEMMA RequestKnown ==
  ASSUME Types, Kinds, Created, Known, NEW r \in Requests, Does(r), UNCHANGED snap
  PROVE  Known'
<1>1. /\ table \in [Ids -> Requests \cup {None}] /\ held \in [Requests -> SUBSET Requests]
      /\ pc \in [Requests -> Places] /\ stream \in [Requests -> States] /\ Target[r] \in Ids
  BY RequestAssumption DEF Types
<1>2. \A i : HasStarted(i) => HasStarted(i)'
  BY RequestStarted
<1>3. \A i \in Listed : HasStarted(i)
  BY <1>1 DEF Known, Listed
<1>4. AddStarted(r) => HasStarted(r)'
  BY <1>1 DEF AddStarted, HasStarted
<1>5. ASSUME NEW d \in Ids, NEW i \in Requests, table'[d] = i
      PROVE  HasStarted(i)' /\ Target[i] = d
  <2>1. \/ table[d] = i
        \/ AddStarted(r) /\ d = Target[r] /\ i = r
    <3>1. CASE AddStarted(r)
      BY <1>1, <1>5, <3>1 DEF AddStarted
    <3>2. CASE Finds(r)
      BY <1>1, <1>5, <3>2, RequestAssumption DEF Finds, RemoveFound
    <3>3. CASE ~AddStarted(r) /\ ~Finds(r)
      <4>1. table' = table
        BY <3>3 DEF Does, GoesOn, Looks, AddBegin, Unwound, RemoveDrain, RemoveStop, Finish
      <4> QED
        BY <1>5, <4>1
    <3> QED
      BY <3>1, <3>2, <3>3
  <2>2. table[d] = i => HasStarted(i) /\ Target[i] = d
    BY DEF Known
  <2> QED
    BY <1>2, <1>4, <2>1, <2>2
<1>6. ASSUME NEW s \in Requests, NEW i \in held'[s]
      PROVE  HasStarted(i)'
  <2>1. i \in held[s] \/ i \in Listed
    <3>1. CASE s # r
      BY <1>6, <3>1, RequestPlaces
    <3>2. CASE Finds(r)
      <4>1. table[Target[r]] \in Listed
        BY <1>1, <3>2 DEF Finds, RemoveFound, Listed
      <4> QED
        BY <1>1, <1>6, <3>1, <3>2, <4>1 DEF Finds, RemoveFound
    <3>3. CASE Looks(r) /\ s = r
      BY <1>1, <1>6, <3>3 DEF Looks
    <3>4. CASE s = r /\ ~Finds(r) /\ ~Looks(r)
      <4>1. held' = held \/ held' = [held EXCEPT ![r] = {}]
        BY <3>4 DEF Does, GoesOn, AddBegin, AddStarted, Unwound, RemoveDrain, RemoveStop, Finish,
           reqVars
      <4> QED
        BY <1>1, <1>6, <3>4, <4>1
    <3> QED
      BY <3>1, <3>2, <3>3, <3>4
  <2>2. HasStarted(i)
    BY <1>3, <2>1 DEF Known
  <2> QED
    BY <1>2, <2>2
<1>7. ASSUME NEW k \in Loops, NEW i \in Range(snap'[k])
      PROVE  HasStarted(i)'
  BY <1>2, <1>7 DEF Known
<1> QED
  BY <1>5, <1>6, <1>7 DEF Known

LEMMA LoopKnown ==
  ASSUME Types, Walks, Known, NEW k \in {"signal", "main"},
         StopAllStep(k) \/ ForceStep \/ BootDone \/ BootFails \/ MainLeaves \/ MainStopAll
           \/ MainExit \/ Signal
  PROVE  Known'
<1>1. table \in [Ids -> Requests \cup {None}] /\ held' = held
  BY LoopFrame DEF Types
<1>2. \A i : HasStarted(i) => HasStarted(i)'
  BY LoopStarted
<1>3. \A i \in Listed : HasStarted(i)
  BY <1>1 DEF Known, Listed
<1>4. Range(Snapshot) = Listed
  BY <1>1, SnapshotIs
<1>5. ASSUME NEW d \in Ids, NEW i \in Requests, table'[d] = i
      PROVE  HasStarted(i)' /\ Target[i] = d
  <2>1. table[d] = i
    <3>1. CASE StopAllClear(k)
      BY <1>5, <3>1, RequestAssumption DEF StopAllClear
    <3>2. CASE table' = table
      BY <1>5, <3>2
    <3> QED
      BY <3>1, <3>2, LoopStreams
  <2>2. HasStarted(i) /\ Target[i] = d
    BY <2>1 DEF Known
  <2> QED
    BY <1>2, <2>2
<1>6. ASSUME NEW l \in Loops, NEW i \in Range(snap'[l])
      PROVE  HasStarted(i)'
  <2>1. snap'[l] \in {snap[l], Snapshot, <<>>}
    BY LoopStreams
  <2>2. Range(<<>>) = {}
    BY DEF Range
  <2>3. i \in Range(snap[l]) \/ i \in Listed
    BY <1>4, <2>1, <2>2
  <2>4. HasStarted(i)
    BY <1>3, <2>3 DEF Known
  <2> QED
    BY <1>2, <2>4
<1> QED
  BY <1>1, <1>2, <1>5, <1>6 DEF Known
-----------------------------------------------------------------------------
(* One remover *)

LEMMA RequestTable ==
  ASSUME Types, NEW r \in Requests, Does(r)
  PROVE  \/ table' = table /\ ~AddStarted(r) /\ ~Finds(r)
         \/ AddStarted(r) /\ Listed' \subseteq Listed \cup {r} /\ Listed \subseteq Listed'
         \/ Finds(r) /\ Listed' \subseteq Listed
<1>1. /\ table \in [Ids -> Requests \cup {None}] /\ Target[r] \in Ids
      /\ pc \in [Requests -> Places]
  BY RequestAssumption DEF Types
<1>2. CASE AddStarted(r)
  <2>1. table' = [table EXCEPT ![Target[r]] = IF table[Target[r]] = None THEN r ELSE table[Target[r]]]
    BY <1>1, <1>2 DEF AddStarted
  <2>2. \A d \in Ids : table'[d] = table[d] \/ table'[d] = r
    BY <1>1, <2>1
  <2>3. \A d \in Ids : table[d] # None => table'[d] = table[d]
    BY <1>1, <2>1
  <2> QED
    BY <1>2, <2>2, <2>3 DEF Listed
<1>3. CASE Finds(r)
  <2>1. table' = [table EXCEPT ![Target[r]] = None]
    BY <1>3 DEF Finds, RemoveFound
  <2>2. \A d \in Ids : table'[d] = table[d] \/ table'[d] = None
    BY <1>1, <2>1
  <2> QED
    BY <1>3, <2>2 DEF Listed
<1>4. CASE ~AddStarted(r) /\ ~Finds(r)
  BY <1>4 DEF Does, GoesOn, Looks, AddBegin, Unwound, RemoveDrain, RemoveStop, Finish
<1> QED
  BY <1>2, <1>3, <1>4

LEMMA InitAlone == Init => Alone
BY DEF Init, Alone, OneRemover, Removing

\* Where a removal begins and where it goes on.
LEMMA RemovalGoesOn ==
  ASSUME Types, NEW r \in Requests, Does(r), pc'[r] \in Removing
  PROVE  Finds(r) \/ (pc[r] \in Removing /\ held'[r] = held[r])
<1>1. pc \in [Requests -> Places] /\ held \in [Requests -> SUBSET Requests]
  BY DEF Types
<1>2. CASE GoesOn(r)
  BY <1>1, <1>2 DEF GoesOn, Removing
<1>3. CASE Looks(r)
  BY <1>1, <1>3 DEF Looks, Removing
<1>4. CASE AddBegin(r) \/ AddStarted(r) \/ Unwound(r) \/ RemoveStop(r)
  BY <1>1, <1>4 DEF AddBegin, AddStarted, Unwound, RemoveStop, AfterRemove, Removing
<1>5. CASE RemoveDrain(r) \/ Finish(r)
  BY <1>5 DEF RemoveDrain, Finish, Removing, reqVars
<1> QED
  BY <1>2, <1>3, <1>4, <1>5 DEF Does

LEMMA RequestAlone ==
  ASSUME Types, Kinds, Created, Known, Alone, NEW r \in Requests, Does(r)
  PROVE  Alone'
<1>1. /\ table \in [Ids -> Requests \cup {None}] /\ held \in [Requests -> SUBSET Requests]
      /\ pc \in [Requests -> Places] /\ Target[r] \in Ids
  BY RequestAssumption DEF Types
<1> DEFINE x == table[Target[r]]
<1>2. Finds(r) => /\ x \in Listed /\ held'[r] = {x} /\ x \notin Listed'
  <2> SUFFICES ASSUME Finds(r) PROVE x \in Listed /\ held'[r] = {x} /\ x \notin Listed'
    OBVIOUS
  <2>1. x # None /\ held' = [held EXCEPT ![r] = {x}] /\ table' = [table EXCEPT ![Target[r]] = None]
    BY DEF Finds, RemoveFound
  <2>2. x \in Requests /\ \A d \in Ids : table[d] = x => Target[x] = d
    BY <1>1, <2>1 DEF Known
  <2>3. \A d \in Ids : table'[d] # x
    BY <1>1, <2>1, <2>2
  <2> QED
    BY <1>1, <2>1, <2>3 DEF Listed
<1>3. AddStarted(r) => \A s \in Requests : r \notin held[s]
  BY DEF AddStarted, Known, HasStarted
<1>4. ASSUME NEW s \in Requests, pc'[s] \in Removing
      PROVE  held'[s] \cap Listed' = {}
  <2>1. CASE s # r
    <3>1. pc'[s] = pc[s] /\ held'[s] = held[s]
      BY <2>1, RequestPlaces
    <3>2. held[s] \cap Listed = {}
      BY <1>4, <3>1 DEF Alone
    <3> QED
      BY <1>3, <3>1, <3>2, RequestTable DEF Listed
  <2>2. CASE s = r /\ Finds(r)
    BY <1>2, <2>2
  <2>3. CASE s = r /\ ~Finds(r)
    <3>1. pc[r] \in Removing /\ held'[r] = held[r]
      BY <1>4, <2>3, RemovalGoesOn
    <3>2. held[r] \cap Listed = {}
      BY <3>1 DEF Alone
    <3> QED
      BY <1>3, <2>3, <3>1, <3>2, RequestTable DEF Listed
  <2> QED
    BY <2>1, <2>2, <2>3
<1>5. ASSUME NEW s \in Requests, s # r, pc'[s] \in Removing, pc'[r] \in Removing
      PROVE  held'[s] \cap held'[r] = {}
  <2>1. pc'[s] = pc[s] /\ held'[s] = held[s]
    BY <1>5, RequestPlaces
  <2>2. held[s] \cap Listed = {}
    BY <1>5, <2>1 DEF Alone
  <2>3. CASE Finds(r)
    BY <1>2, <2>1, <2>2, <2>3
  <2>4. CASE ~Finds(r)
    <3>1. pc[r] \in Removing /\ held'[r] = held[r]
      BY <1>5, <2>4, RemovalGoesOn
    <3>2. {pc[s], pc[r]} \subseteq {"drain", "wait", "stop"}
      BY <1>5, <2>1, <3>1 DEF Removing
    <3> QED
      BY <1>5, <2>1, <3>1, <3>2 DEF Alone, OneRemover
  <2> QED
    BY <2>3, <2>4
<1>6. ASSUME NEW s \in Requests, NEW u \in Requests, s # u,
             pc'[s] \in Removing, pc'[u] \in Removing
      PROVE  held'[s] \cap held'[u] = {}
  <2>1. CASE u = r
    BY <1>5, <1>6, <2>1
  <2>2. CASE s = r
    BY <1>5, <1>6, <2>2
  <2>3. CASE s # r /\ u # r
    <3>1. pc'[s] = pc[s] /\ held'[s] = held[s] /\ pc'[u] = pc[u] /\ held'[u] = held[u]
      BY <2>3, RequestPlaces
    <3>2. {pc[s], pc[u]} \subseteq {"drain", "wait", "stop"}
      BY <1>6, <3>1 DEF Removing
    <3> QED
      BY <1>6, <3>1, <3>2 DEF Alone, OneRemover
  <2> QED
    BY <2>1, <2>2, <2>3
<1> QED
  BY <1>4, <1>6 DEF Alone, OneRemover, Removing

LEMMA LoopListed ==
  ASSUME Types, Walks, Known, NEW k \in {"signal", "main"},
         StopAllStep(k) \/ ForceStep \/ BootDone \/ BootFails \/ MainLeaves \/ MainStopAll
           \/ MainExit \/ Signal
  PROVE  \/ table' = table /\ Listed' = Listed
         \/ StopAllClear(k) /\ Listed' = {} /\ \A d \in Ids : table'[d] = None
<1>1. CASE table' = table
  BY <1>1 DEF Listed
<1>2. CASE StopAllClear(k)
  <2>1. \A d \in Ids : table'[d] = None
    BY <1>2 DEF StopAllClear
  <2> QED
    BY <1>2, <2>1 DEF Listed
<1> QED
  BY <1>1, <1>2, LoopStreams

LEMMA LoopAlone ==
  ASSUME Types, Walks, Known, Alone, NEW k \in {"signal", "main"},
         StopAllStep(k) \/ ForceStep \/ BootDone \/ BootFails \/ MainLeaves \/ MainStopAll
           \/ MainExit \/ Signal
  PROVE  Alone'
<1>1. pc' = pc /\ held' = held
  BY LoopFrame
<1>2. Listed' \subseteq Listed
  BY LoopListed
<1> QED
  BY <1>1, <1>2 DEF Alone, OneRemover
-----------------------------------------------------------------------------
(* The order of the main coroutine *)

LEMMA BootsAre ==
  ASSUME NEW r \in Requests
  PROVE  /\ Op[r] = "BOOT" <=> \E n \in 1 .. Len(Boot) : Boot[n] = r
         /\ \A m, n \in 1 .. Len(Boot) : Boot[m] = Boot[n] => m = n
         /\ \A n \in 1 .. Len(Boot) : Boot[n] \in Requests
<1>1. Boot \in Seq(Requests) /\ IsInjective(Boot)
  BY RequestAssumption
<1>2. DOMAIN Boot = 1 .. Len(Boot)
  BY <1>1
<1>3. \A m, n \in DOMAIN Boot : Boot[m] = Boot[n] => m = n
  BY <1>1 DEF IsInjective
<1>4. Op[r] = "BOOT" <=> r \in Range(Boot)
  BY RequestAssumption
<1> QED
  BY <1>1, <1>2, <1>3, <1>4 DEF Range

\* Who has not begun begins, and only then.
LEMMA RequestBegins ==
  ASSUME Types, NEW r \in Requests, Begin(r) \/ RequestStep(r) \/ Finish(r) \/ BootNext(r),
         Does(r), pc'[r] # pc[r]
  PROVE  Begin(r) \/ BootNext(r) \/ pc[r] \notin Answered \cup {"new"}
<1>1. CASE Finish(r)
  BY <1>1 DEF Finish, reqVars
<1>2. CASE RequestStep(r) /\ ~Finish(r)
  <2>1. pc[r] # "new"
    BY <1>2 DEF RequestStep, AddBegin, AddRefused, AddStarted, AddFails, Unwound, RemoveDrain,
       RemoveWait, RemoveStop, Post, RemoveHop, ReadOne, ReadAll, StatsHas, GatherOne, Gathered
  <2> QED
    BY <1>2, <2>1, RequestPlaces
<1> QED
  BY <1>1, <1>2

LEMMA InitMainOrder == Init => MainOrder
<1> SUFFICES ASSUME Init PROVE MainOrder
  OBVIOUS
<1>1. \A n \in 1 .. Len(Boot) : pc[Boot[n]] = "new"
  BY RequestAssumption DEF Init
<1>2. phase["main"] = "none" /\ phase["signal"] = "none"
  BY DEF Init
<1> QED
  BY <1>1, <1>2 DEF Init, MainOrder

LEMMA RequestMainOrder ==
  ASSUME Types, MainOrder, NEW r \in Requests,
         Begin(r) \/ RequestStep(r) \/ Finish(r) \/ BootNext(r), Does(r)
  PROVE  MainOrder'
<1>1. /\ UNCHANGED <<phase, main, serving, signals>>
      /\ \A s \in Requests \ {r} : pc'[s] = pc[s]
  BY RequestFrame, RequestPlaces
<1>2. pc'[r] # pc[r] => Begin(r) \/ BootNext(r) \/ pc[r] \notin Answered \cup {"new"}
  BY RequestBegins
<1>3. Begin(r) => main = "parked" /\ Op[r] # "BOOT" /\ pc[r] = "new"
  BY DEF Begin
<1>4. BootNext(r) => /\ main = "boot" /\ pc[r] = "new"
                     /\ \E n \in 1 .. Len(Boot) :
                          Boot[n] = r /\ \A j \in 1 .. n - 1 : pc[Boot[j]] = "ok"
  BY DEF BootNext
<1>5. BootNext(r) => Op[r] = "BOOT"
  BY <1>4, BootsAre
<1>6. ASSUME main = "boot"
      PROVE  \A s \in Requests : Op[s] # "BOOT" => pc'[s] = "new"
  BY <1>1, <1>2, <1>3, <1>5, <1>6 DEF MainOrder
<1>7. ASSUME NEW m \in 1 .. Len(Boot), NEW n \in 1 .. Len(Boot), m < n, pc'[Boot[n]] # "new"
      PROVE  pc'[Boot[m]] = "ok"
  <2>1. pc[Boot[n]] # "new" => pc[Boot[m]] = "ok"
    BY <1>7 DEF MainOrder
  <2>2. Boot[m] # Boot[n] /\ Boot[m] \in Requests /\ Boot[n] \in Requests
    BY <1>7, BootsAre
  <2>3. pc[Boot[m]] = "ok" => pc'[Boot[m]] = "ok"
    BY <1>1, <1>2, <1>3, <1>4, <2>2 DEF Answered
  <2>4. CASE pc[Boot[n]] # "new"
    BY <2>1, <2>3, <2>4
  <2>5. CASE pc[Boot[n]] = "new"
    <3>1. Boot[n] = r /\ Op[r] = "BOOT"
      BY <1>1, <1>7, <2>2, <2>5, BootsAre
    <3>2. BootNext(r)
      BY <1>2, <1>3, <1>7, <2>5, <3>1
    <3>3. PICK l \in 1 .. Len(Boot) :
            Boot[l] = r /\ \A j \in 1 .. l - 1 : pc[Boot[j]] = "ok"
      BY <1>4, <3>2
    <3>4. l = n
      BY <3>1, <3>3, BootsAre
    <3>5. m \in 1 .. l - 1
      BY <1>7, <3>4
    <3>6. pc[Boot[m]] = "ok"
      BY <3>3, <3>5
    <3> QED
      BY <2>3, <3>6
  <2> QED
    BY <2>4, <2>5
<1>8. ASSUME main # "boot", NEW n \in 1 .. Len(Boot)
      PROVE  pc'[Boot[n]] \in Answered \cup {"new"}
  <2>1. pc[Boot[n]] \in Answered \cup {"new"} /\ Boot[n] \in Requests /\ Op[Boot[n]] = "BOOT"
    BY <1>8, BootsAre DEF MainOrder
  <2> QED
    BY <1>1, <1>2, <1>3, <1>4, <1>8, <2>1
<1>9. main \in {"stopping", "exited"} => Open' = {}
  <2> SUFFICES ASSUME main \in {"stopping", "exited"}, NEW s \in Requests
               PROVE  pc'[s] \in Answered \cup {"new"}
    BY DEF Open, Answered
  <2>1. pc[s] \in Answered \cup {"new"}
    BY DEF MainOrder, Open
  <2> QED
    BY <1>1, <1>2, <1>3, <1>4, <2>1
<1>10. Answered' = Answered
  BY DEF Answered
<1> QED
  BY <1>1, <1>6, <1>7, <1>8, <1>9, <1>10 DEF MainOrder

LEMMA LoopMainOrder ==
  ASSUME Types, Walks, Known, MainOrder, NEW k \in {"signal", "main"},
         StopAllStep(k) \/ ForceStep \/ BootDone \/ BootFails \/ MainLeaves \/ MainStopAll
           \/ MainExit \/ Signal
  PROVE  MainOrder'
<1>1. /\ pc' = pc /\ serving' = serving /\ Open' = Open /\ Answered' = Answered
  BY LoopFrame DEF Open, Answered
<1>2. phase \in [Loops -> {"none", "drain", "wait", "stop", "force", "forcing", "done"}]
  BY DEF Types
<1>3. k \in Loops /\ "signal" \in Loops /\ "main" \in Loops /\ "force" \in Loops
  BY DEF Loops
<1>4. \A m, n \in 1 .. Len(Boot) : m < n /\ pc'[Boot[n]] # "new" => pc'[Boot[m]] = "ok"
  BY <1>1 DEF MainOrder
<1>5. CASE StopAllStep(k)
  <2>1. main' = main /\ signals' = signals
    BY <1>5 DEF StopAllStep, StopAllDrain, StopAllDrained, StopAllWait, StopAllStop,
       StopAllClear, mainVars
  <2>2. /\ phase[k] \in {"drain", "wait", "stop"}
        /\ \A l \in Loops \ {k} : phase'[l] = phase[l]
    BY <1>2, <1>5 DEF StopAllStep, StopAllDrain, StopAllDrained, StopAllWait, StopAllStop,
       StopAllClear, Goto
  <2> QED
    BY <1>1, <1>3, <1>4, <2>1, <2>2 DEF MainOrder
<1>6. CASE ForceStep
  <2>1. main' = main /\ signals' = signals
    BY <1>6 DEF ForceStep, TimerFires, ForceOne, ForceReturns, ForceDone, mainVars
  <2>2. phase'["signal"] = phase["signal"] /\ phase'["main"] = phase["main"]
    <3>1. \E p : phase' = [phase EXCEPT !["force"] = p]
      BY <1>6 DEF ForceStep, TimerFires, ForceOne, ForceReturns, ForceDone, Enter, Goto
    <3> QED
      BY <1>2, <1>3, <3>1
  <2> QED
    BY <1>1, <1>4, <2>1, <2>2 DEF MainOrder
<1>7. CASE BootDone
  <2>1. main' = "parked" /\ phase' = phase /\ signals' = signals /\ main = "boot"
    BY <1>7 DEF BootDone, loopVars
  <2>2. \A n \in 1 .. Len(Boot) : pc'[Boot[n]] \in Answered \cup {"new"}
    BY <1>1, <1>7 DEF BootDone, Answered
  <2> QED
    BY <1>1, <1>4, <2>1, <2>2 DEF MainOrder
<1>8. CASE BootFails
  <2>1. main' = "closing" /\ phase' = phase /\ signals' = signals /\ main = "boot"
    BY <1>8 DEF BootFails, loopVars
  <2>2. PICK j \in 1 .. Len(Boot) : pc[Boot[j]] = "failed"
    BY <1>8 DEF BootFails
  <2>3. ASSUME NEW n \in 1 .. Len(Boot)
        PROVE  pc[Boot[n]] \in {"ok", "failed", "new"}
    <3>1. n < j => pc[Boot[n]] = "ok"
      BY <2>2 DEF MainOrder
    <3>2. j < n => pc[Boot[n]] = "new"
      BY <2>2 DEF MainOrder
    <3>3. n < j \/ n = j \/ j < n
      OBVIOUS
    <3> QED
      BY <2>2, <3>1, <3>2, <3>3
  <2>4. \A n \in 1 .. Len(Boot) : pc'[Boot[n]] \in Answered \cup {"new"}
    BY <1>1, <2>3 DEF Answered
  <2> QED
    BY <1>1, <1>4, <2>1, <2>4 DEF MainOrder
<1>9. CASE MainLeaves
  <2>1. /\ main' = "closing" /\ phase' = phase /\ signals' = signals /\ main = "parked"
        /\ serving => phase["signal"] = "done"
    BY <1>9 DEF MainLeaves, Unparked, loopVars
  <2> QED
    BY <1>1, <1>4, <2>1 DEF MainOrder
<1>10. CASE MainStopAll
  <2>1. main' = "stopping" /\ signals' = signals /\ main = "closing" /\ ServerClosed
    BY <1>10 DEF MainStopAll
  <2>2. phase'["signal"] = phase["signal"]
    BY <1>2, <1>10 DEF MainStopAll, Enter
  <2>3. Open = {}
    <3> SUFFICES ASSUME NEW r \in Requests, Op[r] = "BOOT"
                 PROVE  pc[r] \in Answered \cup {"new"}
      BY <2>1 DEF ServerClosed, Open
    <3> QED
      BY <2>1, BootsAre DEF MainOrder
  <2> QED
    BY <1>1, <1>4, <2>1, <2>2, <2>3 DEF MainOrder
<1>11. CASE MainExit
  <2>1. main' = "exited" /\ phase' = phase /\ signals' = signals /\ main = "stopping"
    BY <1>11 DEF MainExit, loopVars
  <2> QED
    BY <1>1, <1>4, <2>1 DEF MainOrder
<1>12. CASE Signal
  <2>1. main' = main /\ main = "parked" /\ signals' = signals + 1
    BY <1>12 DEF Signal
  <2>2. signals' > 0
    BY <2>1 DEF Types
  <2>3. phase'["main"] = phase["main"]
    BY <1>2, <1>12 DEF Signal, Enter
  <2> QED
    BY <1>1, <1>4, <2>1, <2>2, <2>3 DEF MainOrder
<1> QED
  BY <1>5, <1>6, <1>7, <1>8, <1>9, <1>10, <1>11, <1>12
-----------------------------------------------------------------------------
(* What stop_all has stopped stays stopped *)

LEMMA InitCleared == Init => Cleared
BY DEF Init, Cleared

LEMMA StaysStopped ==
  ASSUME Types, Kinds, Created, Known, NEW r \in Requests, Does(r), NEW i \in Requests,
         stream[i] = "stopped"
  PROVE  stream'[i] = "stopped"
BY RequestStreams

LEMMA LoopStaysStopped ==
  ASSUME Types, Walks, Known, NEW k \in {"signal", "main"},
         StopAllStep(k) \/ ForceStep \/ BootDone \/ BootFails \/ MainLeaves \/ MainStopAll
           \/ MainExit \/ Signal,
         NEW i \in Requests, stream[i] = "stopped"
  PROVE  stream'[i] = "stopped"
BY LoopStreams

\* What a stop_all has passed is a stream.
LEMMA Passed ==
  ASSUME Types, Walks, NEW k \in Loops, phase[k] \in {"wait", "stop"},
         NEW j \in 1 .. at[k] - 1
  PROVE  snap[k][j] \in Requests
<1>1. snap[k] \in Seq(Requests) /\ at[k] \in Nat \ {0} /\ Len(snap[k]) \in Nat
  BY DEF Types
<1>2. at[k] \in 1 .. Len(snap[k]) + 1
  BY DEF Walks
<1>3. j \in 1 .. Len(snap[k])
  BY <1>1, <1>2
<1> QED
  BY <1>1, <1>3

LEMMA RequestCleared ==
  ASSUME Types, Walks, Kinds, Created, Known, Cleared, NEW r \in Requests, Does(r),
         UNCHANGED <<phase, snap, at>>
  PROVE  Cleared'
<1> SUFFICES ASSUME NEW k \in {"signal", "main"}, phase[k] \in {"wait", "stop"},
                    NEW j \in 1 .. at[k] - 1
             PROVE  stream'[snap[k][j]] = "stopped"
  BY DEF Cleared
<1>1. snap[k][j] \in Requests
  BY Passed DEF Loops
<1>2. stream[snap[k][j]] = "stopped"
  BY DEF Cleared
<1> QED
  BY <1>1, <1>2, StaysStopped

LEMMA LoopCleared ==
  ASSUME Types, Walks, Known, Cleared, NEW k \in {"signal", "main"},
         StopAllStep(k) \/ ForceStep \/ BootDone \/ BootFails \/ MainLeaves \/ MainStopAll
           \/ MainExit \/ Signal
  PROVE  Cleared'
<1> SUFFICES ASSUME NEW l \in {"signal", "main"}, phase'[l] \in {"wait", "stop"},
                    NEW j \in 1 .. at'[l] - 1
             PROVE  stream'[snap'[l][j]] = "stopped"
  BY DEF Cleared
<1>1. /\ phase \in [Loops -> {"none", "drain", "wait", "stop", "force", "forcing", "done"}]
      /\ snap \in [Loops -> Seq(Requests)] /\ at \in [Loops -> Nat \ {0}]
      /\ stream \in [Requests -> States]
  BY DEF Types
<1>2. k \in Loops /\ l \in Loops /\ "signal" \in Loops /\ "main" \in Loops /\ "force" \in Loops
  BY DEF Loops
<1>3. \/ phase[l] \in {"wait", "stop"} /\ snap'[l] = snap[l] /\ at'[l] = at[l]
      \/ at'[l] = 1
      \/ l = k /\ StopAllStop(k)
  <2>1. CASE StopAllDrain(k)
    BY <1>1, <1>2, <2>1 DEF StopAllDrain, Advance
  <2>2. CASE StopAllDrained(k)
    BY <1>1, <1>2, <2>2 DEF StopAllDrained, Goto
  <2>3. CASE StopAllWait(k)
    BY <1>1, <1>2, <2>3 DEF StopAllWait, Goto
  <2>4. CASE StopAllStop(k)
    BY <1>1, <1>2, <2>4 DEF StopAllStop, Goto, Advance
  <2>5. CASE StopAllClear(k)
    BY <1>1, <1>2, <2>5 DEF StopAllClear, Goto
  <2>6. CASE ForceStep
    <3>1. /\ \E p : phase' = [phase EXCEPT !["force"] = p]
          /\ \E p : snap' = [snap EXCEPT !["force"] = p]
          /\ \E p : at' = [at EXCEPT !["force"] = p]
      <4>1. snap = [snap EXCEPT !["force"] = snap["force"]]
            /\ at = [at EXCEPT !["force"] = at["force"]]
        BY <1>1, <1>2
      <4>2. CASE TimerFires
        BY <4>2 DEF TimerFires, Enter
      <4>3. CASE ForceOne
        BY <4>1, <4>3 DEF ForceOne, Goto
      <4>4. CASE ForceReturns
        BY <4>1, <4>4 DEF ForceReturns, Goto, Advance
      <4>5. CASE ForceDone
        BY <4>1, <4>5 DEF ForceDone, Goto
      <4> QED
        BY <2>6, <4>2, <4>3, <4>4, <4>5 DEF ForceStep
    <3>2. phase'[l] = phase[l] /\ snap'[l] = snap[l] /\ at'[l] = at[l]
      BY <1>1, <1>2, <3>1
    <3> QED
      BY <3>2
  <2>7. CASE BootDone \/ BootFails \/ MainLeaves \/ MainExit
    BY <2>7 DEF BootDone, BootFails, MainLeaves, MainExit, loopVars
  <2>8. CASE MainStopAll
    BY <1>1, <1>2, <2>8 DEF MainStopAll, Enter
  <2>9. CASE Signal
    BY <1>1, <1>2, <2>9 DEF Signal, Enter
  <2> QED
    BY <2>1, <2>2, <2>3, <2>4, <2>5, <2>6, <2>7, <2>8, <2>9 DEF StopAllStep
<1>4. ASSUME phase[l] \in {"wait", "stop"}, NEW m \in 1 .. at[l] - 1
      PROVE  stream'[snap[l][m]] = "stopped"
  <2>1. snap[l][m] \in Requests
    BY <1>2, <1>4, Passed
  <2>2. stream[snap[l][m]] = "stopped"
    BY <1>4 DEF Cleared
  <2> QED
    BY <2>1, <2>2, LoopStaysStopped
<1>5. CASE phase[l] \in {"wait", "stop"} /\ snap'[l] = snap[l] /\ at'[l] = at[l]
  BY <1>4, <1>5
<1>6. CASE at'[l] = 1
  BY <1>6
<1>7. CASE l = k /\ StopAllStop(k)
  <2>1. /\ phase[k] = "stop" /\ snap' = snap /\ at' = [at EXCEPT ![k] = @ + 1]
        /\ stream' = [stream EXCEPT ![Current(k)] = "stopped"]
    BY <1>7 DEF StopAllStop, Advance
  <2>2. at[k] \in Nat \ {0} /\ at'[k] = at[k] + 1 /\ snap[k] \in Seq(Requests)
        /\ Len(snap[k]) \in Nat
    BY <1>1, <1>2, <2>1
  <2>3. at[k] \in 1 .. Len(snap[k])
    BY <1>2, <2>1, <2>2 DEF Walks, More
  <2>4. Current(k) = snap[k][at[k]] /\ Current(k) \in Requests
    BY <2>2, <2>3 DEF Current
  <2>5. stream'[Current(k)] = "stopped"
    BY <1>1, <2>1, <2>4
  <2>6. j \in 1 .. at[k] - 1 \/ j = at[k]
    BY <1>7, <2>2
  <2> QED
    BY <1>4, <1>7, <2>1, <2>4, <2>5, <2>6
<1> QED
  BY <1>3, <1>5, <1>6, <1>7
-----------------------------------------------------------------------------
(* One change of the table after the other *)

LEMMA InitInTurn == Init => InTurn
<1> SUFFICES ASSUME Init PROVE InTurn
  OBVIOUS
<1>1. \A r \in Requests : pc[r] = "new" /\ stream[r] = "none"
  BY DEF Init
<1>2. Busy = {} /\ \A k \in {"signal", "main"} : phase[k] = "none"
  BY <1>1 DEF Init, Busy, AtWork, Removing
<1> QED
  BY <1>1, <1>2 DEF InTurn, Stopping, Removing

\* Until the next signal or change a change of the table is the only one.
LEMMA RequestBusy ==
  ASSUME Types, Kinds, MainOrder, InTurn, NEW r \in Requests,
         Begin(r) \/ RequestStep(r) \/ Finish(r) \/ BootNext(r), Does(r), ~overlap'
  PROVE  /\ ~overlap /\ Busy' \subseteq Busy \cup {r}
         /\ r \in Busy' /\ r \notin Busy => Busy = {} /\ signals = 0
<1>1. ~overlap
  BY RequestFrame DEF Begin
<1>2. \A s \in Requests \ {r} : pc'[s] = pc[s]
  BY RequestPlaces
<1>3. Busy' \subseteq Busy \cup {r}
  BY <1>2 DEF Busy, AtWork, Removing
<1>4. ASSUME r \in Busy', r \notin Busy PROVE Busy = {} /\ signals = 0
  <2>1. Op[r] # "READ" /\ pc'[r] \in AtWork /\ pc[r] \notin AtWork /\ pc[r] \in Places
    BY <1>4 DEF Busy, Types, AtWork, Removing
  <2>2. Begin(r) \/ BootNext(r)
    <3>1. pc[r] \in Answered \cup {"new"}
      BY <2>1 DEF Kinds, Places
    <3> QED
      BY <2>1, <3>1, RequestBegins
  <2>3. CASE Begin(r)
    <3>1. Op[r] \in {"POST", "PUT", "DELETE"}
      BY <2>1, <2>3, RequestAssumption DEF Begin, Ops
    <3>2. ~Changing(Open) /\ ~(signals > 0) /\ main # "boot"
      BY <1>4, <2>3, <3>1, ~overlap' DEF Begin, Changing
    <3>3. signals = 0
      BY <3>2 DEF Types
    <3>4. ASSUME NEW s \in Busy PROVE FALSE
      <4>1. s \in Requests /\ Op[s] # "READ" /\ pc[s] \in AtWork
        BY DEF Busy
      <4>2. pc[s] \notin Answered \cup {"new"}
        BY <4>1 DEF AtWork, Removing, Answered
      <4>3. Op[s] # "BOOT"
        BY <3>2, <4>1, <4>2, BootsAre DEF MainOrder
      <4>4. Op[s] \in {"POST", "PUT", "DELETE"}
        BY <4>1, <4>3, RequestAssumption DEF Ops
      <4> QED
        BY <3>2, <4>1, <4>2, <4>4 DEF Changing, Open
    <3> QED
      BY <3>3, <3>4
  <2>4. CASE BootNext(r)
    <3>1. main = "boot" /\ pc[r] = "new"
      BY <2>4 DEF BootNext
    <3>2. PICK n \in 1 .. Len(Boot) : Boot[n] = r /\ \A j \in 1 .. n - 1 : pc[Boot[j]] = "ok"
      BY <2>4 DEF BootNext
    <3>3. ASSUME NEW s \in Busy PROVE FALSE
      <4>1. s \in Requests /\ pc[s] \in AtWork
        BY DEF Busy
      <4>2. pc[s] \notin {"ok", "new"}
        BY <4>1 DEF AtWork, Removing
      <4>3. PICK m \in 1 .. Len(Boot) : Boot[m] = s
        BY <3>1, <4>1, <4>2, BootsAre DEF MainOrder
      <4>4. m \in 1 .. n - 1 \/ m = n \/ n < m
        OBVIOUS
      <4>5. n < m => pc[Boot[n]] = "ok"
        BY <4>2, <4>3 DEF MainOrder
      <4> QED
        BY <3>1, <3>2, <4>2, <4>3, <4>4, <4>5
    <3> QED
      BY <3>1, <3>3 DEF MainOrder
  <2> QED
    BY <2>2, <2>3, <2>4
<1> QED
  BY <1>1, <1>3, <1>4

\* What is owned is owned for as long as it is not stopped.
LEMMA RequestOwned ==
  ASSUME Types, Kinds, NEW r \in Requests, Does(r),
         NEW i \in Requests, Owned(i), stream'[i] # "stopped", i = r => ~AddStarted(r)
  PROVE  Owned(i)'
<1>1. /\ table \in [Ids -> Requests \cup {None}] /\ held \in [Requests -> SUBSET Requests]
      /\ pc \in [Requests -> Places] /\ stream \in [Requests -> States] /\ Target[r] \in Ids
  BY RequestAssumption DEF Types
<1>2. CASE i \in Listed
  <2>1. CASE i \in Listed'
    BY <2>1 DEF Owned
  <2>2. CASE i \notin Listed'
    <3>1. Finds(r)
      BY <1>2, <2>2, RequestTable DEF Listed
    <3>2. /\ held' = [held EXCEPT ![r] = {table[Target[r]]}] /\ pc' = [pc EXCEPT ![r] = "drain"]
          /\ table' = [table EXCEPT ![Target[r]] = None]
      BY <3>1 DEF Finds, RemoveFound
    <3>3. PICK d \in Ids : table[d] = i /\ i # None
      BY <1>2 DEF Listed
    <3>4. table'[d] # i
      BY <2>2, <3>3 DEF Listed
    <3>5. d = Target[r]
      BY <1>1, <3>2, <3>3, <3>4
    <3>6. i \in held'[r] /\ pc'[r] \in Removing
      BY <1>1, <3>2, <3>3, <3>5 DEF Removing
    <3> QED
      BY <3>6 DEF Owned, Removing
  <2> QED
    BY <2>1, <2>2
<1>3. CASE pc[i] \in {"starting", "unwind"}
  <2>1. CASE i # r
    BY <1>3, <2>1, RequestPlaces DEF Owned
  <2>2. CASE i = r
    <3>1. CASE GoesOn(r)
      <4>1. pc'[i] = "unwind"
        BY <1>1, <1>3, <2>2, <3>1 DEF GoesOn
      <4> QED
        BY <4>1 DEF Owned
    <3>2. CASE Finish(r)
      BY <1>3, <3>2 DEF Finish, reqVars, Owned
    <3>3. CASE Unwound(r)
      BY <1>1, <2>2, <3>3 DEF Unwound
    <3>4. ~Looks(r) /\ ~AddBegin(r) /\ ~Finds(r) /\ ~RemoveDrain(r) /\ ~RemoveStop(r)
      BY <1>3, <2>2 DEF Looks, AddBegin, Finds, RemoveDrain, RemoveStop
    <3> QED
      BY <2>2, <3>1, <3>2, <3>3, <3>4 DEF Does
  <2> QED
    BY <2>1, <2>2
<1>4. CASE \E s \in Requests : pc[s] \in Removing /\ i \in held[s]
  <2>1. PICK s \in Requests : pc[s] \in Removing /\ i \in held[s]
    BY <1>4
  <2>2. pc'[s] \in Removing /\ i \in held'[s]
    <3>1. CASE s # r
      BY <2>1, <3>1, RequestPlaces
    <3>2. CASE s = r
      <4>1. CASE GoesOn(r)
        BY <1>1, <2>1, <3>2, <4>1 DEF GoesOn, Removing
      <4>2. CASE RemoveDrain(r)
        BY <1>1, <2>1, <3>2, <4>2 DEF RemoveDrain, Removing
      <4>3. CASE Finish(r)
        BY <2>1, <4>3 DEF Finish, reqVars
      <4>4. CASE RemoveStop(r)
        <5>1. PICK j \in Requests : held[r] = {j}
          BY <2>1, <3>2 DEF Kinds
        <5>2. stream' = [stream EXCEPT ![i] = "stopped"]
          BY <2>1, <3>2, <4>4, <5>1 DEF RemoveStop
        <5> QED
          BY <1>1, <5>2
      <4>5. ~Looks(r) /\ ~AddBegin(r) /\ ~Finds(r) /\ ~AddStarted(r) /\ ~Unwound(r)
        BY <2>1, <3>2 DEF Looks, AddBegin, Finds, AddStarted, Unwound, Removing
      <4> QED
        BY <4>1, <4>2, <4>3, <4>4, <4>5 DEF Does
    <3> QED
      BY <3>1, <3>2
  <2> QED
    BY <2>2 DEF Owned, Removing
<1> QED
  BY <1>2, <1>3, <1>4 DEF Owned

LEMMA RequestInTurn ==
  ASSUME Types, Kinds, Created, Known, MainOrder, InTurn, NEW r \in Requests,
         Begin(r) \/ RequestStep(r) \/ Finish(r) \/ BootNext(r), Does(r), Kinds'
  PROVE  InTurn'
<1> SUFFICES ASSUME ~overlap' PROVE InTurn'
  BY DEF InTurn
<1>1. /\ ~overlap /\ Busy' \subseteq Busy \cup {r}
      /\ r \in Busy' /\ r \notin Busy => Busy = {} /\ signals = 0
  BY RequestBusy
<1>2. /\ \A s, u \in Busy : s = u
      /\ signals > 0 => Busy = {}
      /\ \A s \in Requests : pc[s] \in {"starting", "unwind"} \cup Removing => table[Target[s]] = None
      /\ \A i \in Requests : stream[i] \in {"none", "stopped"} \/ Owned(i)
      /\ \A k \in {"signal", "main"} : Stopping(k) => Listed \subseteq Range(snap[k])
  BY <1>1 DEF InTurn
<1>3. /\ table \in [Ids -> Requests \cup {None}] /\ held \in [Requests -> SUBSET Requests]
      /\ pc \in [Requests -> Places] /\ stream \in [Requests -> States]
      /\ Target \in [Requests -> Ids]
  BY RequestAssumption DEF Types
<1>4. UNCHANGED <<phase, snap, main, signals>> /\ \A s \in Requests \ {r} : pc'[s] = pc[s]
  BY RequestFrame, RequestPlaces
<1>5. AddStarted(r) \/ Finds(r) => r \in Busy
  BY DEF AddStarted, Finds, Busy, AtWork, Kinds
<1>6. AddStarted(r) => r \in Open /\ pc'[r] = "ok"
  BY <1>3 DEF AddStarted, Open, Answered
<1>7. \A s, u \in Busy' : s = u
  BY <1>1, <1>2
<1>8. signals' > 0 => Busy' = {}
  <2>1. ASSUME signals > 0 PROVE Busy' = {}
    BY <1>1, <1>2, <2>1 DEF Types
  <2> QED
    BY <1>4, <2>1
<1>9. ASSUME NEW s \in Requests, pc'[s] \in {"starting", "unwind"} \cup Removing
      PROVE  table'[Target[s]] = None
  <2>1. s \in Busy'
    <3>1. pc'[s] \in AtWork
      BY <1>9 DEF AtWork
    <3>2. Op[s] # "READ"
      BY <1>9 DEF Kinds, Removing
    <3> QED
      BY <3>1, <3>2 DEF Busy, AtWork, Removing
  <2>2. s # r => s \in Busy
    BY <1>1, <2>1
  <2>3. CASE AddStarted(r)
    BY <1>2, <1>5, <1>6, <1>9, <2>2, <2>3 DEF Removing
  <2>4. CASE Finds(r)
    <3>1. s = r
      BY <1>2, <1>5, <2>2, <2>4
    <3> QED
      BY <1>3, <2>4, <3>1 DEF Finds, RemoveFound
  <2>5. CASE ~AddStarted(r) /\ ~Finds(r)
    <3>1. table' = table
      BY <2>5, RequestTable
    <3>2. CASE s # r
      BY <1>2, <1>4, <1>9, <3>1, <3>2
    <3>3. CASE s = r /\ ~AddBegin(r)
      <4>1. pc[r] \in {"starting", "unwind"} \cup Removing
        <5>1. CASE GoesOn(r)
          BY <1>3, <1>9, <3>3, <5>1 DEF GoesOn, Removing
        <5>2. CASE Looks(r)
          BY <1>3, <1>9, <3>3, <5>2 DEF Looks, Removing
        <5>3. CASE Unwound(r) \/ RemoveStop(r)
          BY <1>3, <1>9, <3>3, <5>3 DEF Unwound, RemoveStop, AfterRemove, Removing
        <5>4. CASE RemoveDrain(r) \/ Finish(r)
          BY <1>3, <1>9, <3>3, <5>4 DEF RemoveDrain, Finish, reqVars, Removing
        <5> QED
          BY <2>5, <3>3, <5>1, <5>2, <5>3, <5>4 DEF Does
      <4> QED
        BY <1>2, <3>1, <3>3, <4>1
    <3>4. CASE s = r /\ AddBegin(r)
      BY <3>1, <3>4 DEF AddBegin
    <3> QED
      BY <3>2, <3>3, <3>4
  <2> QED
    BY <2>3, <2>4, <2>5
<1>10. ASSUME NEW i \in Requests, stream'[i] \notin {"none", "stopped"}
       PROVE  Owned(i)'
  <2>1. CASE i = r /\ AddStarted(r)
    <3>1. table[Target[r]] = None /\ table' = [table EXCEPT ![Target[r]] = IF table[Target[r]] = None THEN r ELSE table[Target[r]]]
      BY <1>2, <1>3, <2>1 DEF AddStarted
    <3>2. table'[Target[r]] = r /\ Target[r] \in Ids /\ r # None
      BY <1>3, <3>1, RequestAssumption
    <3> QED
      BY <2>1, <3>2 DEF Owned, Listed
  <2>2. CASE i = r /\ AddBegin(r)
    BY <1>3, <2>2 DEF AddBegin, Owned
  <2>3. CASE i = r => ~AddStarted(r) /\ ~AddBegin(r)
    <3>1. stream[i] \notin {"none", "stopped"}
      <4>1. i \in held[r] => stream[i] # "none"
        BY DEF Known, HasStarted
      <4> QED
        BY <1>10, <2>3, <4>1, RequestStreams
    <3>2. Owned(i)
      BY <1>2, <3>1
    <3> QED
      BY <1>10, <2>3, <3>2, RequestOwned
  <2> QED
    BY <2>1, <2>2, <2>3
<1>11. ASSUME NEW k \in {"signal", "main"}, phase[k] \in {"drain", "wait", "stop"}
       PROVE  Listed' \subseteq Range(snap[k])
  <2>1. Listed \subseteq Range(snap[k])
    BY <1>2, <1>11 DEF Stopping
  <2>2. ~AddStarted(r)
    <3>1. CASE k = "signal"
      BY <1>2, <1>5, <1>11, <3>1 DEF MainOrder
    <3>2. CASE k = "main"
      BY <1>6, <1>11, <3>2 DEF MainOrder
    <3> QED
      BY <3>1, <3>2
  <2>3. Listed' \subseteq Listed
    BY <2>2, RequestTable DEF Listed
  <2> QED
    BY <2>1, <2>3
<1>12. \A k \in {"signal", "main"} : Stopping(k)' => Listed' \subseteq Range(snap'[k])
  BY <1>4, <1>11 DEF Stopping
<1> QED
  BY <1>7, <1>8, <1>9, <1>10, <1>12 DEF InTurn, Removing

\* A stop_all goes on with its snapshot, or takes one.
LEMMA LoopStopping ==
  ASSUME Types, NEW k \in {"signal", "main"},
         StopAllStep(k) \/ ForceStep \/ BootDone \/ BootFails \/ MainLeaves \/ MainStopAll
           \/ MainExit \/ Signal,
         NEW l \in {"signal", "main"}, phase'[l] \in {"drain", "wait", "stop"}
  PROVE  \/ Stopping(l) /\ snap'[l] = snap[l]
         \/ snap'[l] = Snapshot /\ table' = table
<1>1. /\ phase \in [Loops -> {"none", "drain", "wait", "stop", "force", "forcing", "done"}]
      /\ snap \in [Loops -> Seq(Requests)]
      /\ k \in Loops /\ l \in Loops /\ "signal" \in Loops /\ "main" \in Loops /\ "force" \in Loops
  BY DEF Types, Loops
<1>2. CASE StopAllDrain(k) \/ StopAllDrained(k)
  BY <1>1, <1>2 DEF StopAllDrain, StopAllDrained, Goto, Stopping
<1>3. CASE StopAllWait(k) \/ StopAllStop(k)
  BY <1>1, <1>3 DEF StopAllWait, StopAllStop, Goto, Stopping
<1>4. CASE StopAllClear(k)
  BY <1>1, <1>4 DEF StopAllClear, Goto, Stopping
<1>5. CASE ForceStep
  <2>1. /\ \E p : phase' = [phase EXCEPT !["force"] = p]
        /\ snap' = snap \/ \E p : snap' = [snap EXCEPT !["force"] = p]
    BY <1>5 DEF ForceStep, TimerFires, ForceOne, ForceReturns, ForceDone, Enter, Goto
  <2>2. phase'[l] = phase[l] /\ snap'[l] = snap[l]
    BY <1>1, <2>1
  <2> QED
    BY <2>2 DEF Stopping
<1>6. CASE BootDone \/ BootFails \/ MainLeaves \/ MainExit
  BY <1>6 DEF BootDone, BootFails, MainLeaves, MainExit, loopVars, Stopping
<1>7. CASE MainStopAll
  BY <1>1, <1>7 DEF MainStopAll, Enter, Stopping
<1>8. CASE Signal
  BY <1>1, <1>8 DEF Signal, Enter, Stopping
<1> QED
  BY <1>2, <1>3, <1>4, <1>5, <1>6, <1>7, <1>8 DEF StopAllStep

\* Its end finds nothing listed that it has not stopped.
LEMMA ClearedIsStopped ==
  ASSUME Types, Walks, Cleared, InTurn, ~overlap, NEW k \in {"signal", "main"}, StopAllClear(k),
         NEW i \in Listed
  PROVE  stream[i] = "stopped"
<1>1. /\ phase[k] = "wait" /\ ~(at[k] <= Len(snap[k])) /\ k \in Loops
      /\ snap[k] \in Seq(Requests) /\ at[k] \in Nat \ {0} /\ Len(snap[k]) \in Nat
  BY DEF StopAllClear, More, Loops, Types
<1>2. i \in Range(snap[k])
  BY <1>1 DEF InTurn, Stopping
<1>3. PICK j \in 1 .. Len(snap[k]) : snap[k][j] = i
  BY <1>1, <1>2 DEF Range
<1>4. j \in 1 .. at[k] - 1
  BY <1>1
<1> QED
  BY <1>1, <1>3, <1>4 DEF Cleared

LEMMA LoopInTurn ==
  ASSUME Types, Walks, Kinds, Known, MainOrder, Cleared, InTurn, NEW k \in {"signal", "main"},
         StopAllStep(k) \/ ForceStep \/ BootDone \/ BootFails \/ MainLeaves \/ MainStopAll
           \/ MainExit \/ Signal
  PROVE  InTurn'
<1> SUFFICES ASSUME ~overlap' PROVE InTurn'
  BY DEF InTurn
<1>1. /\ pc' = pc /\ held' = held /\ Busy' = Busy
  BY LoopFrame DEF Busy, AtWork, Removing
<1>2. ~overlap /\ (signals' = signals \/ Signal)
  <2>1. CASE StopAllStep(k)
    BY <2>1 DEF StopAllStep, StopAllDrain, StopAllDrained, StopAllWait, StopAllStop,
       StopAllClear, mainVars
  <2>2. CASE ForceStep
    BY <2>2 DEF ForceStep, TimerFires, ForceOne, ForceReturns, ForceDone, mainVars
  <2>3. CASE BootDone \/ BootFails \/ MainLeaves \/ MainStopAll \/ MainExit
    BY <2>3 DEF BootDone, BootFails, MainLeaves, MainStopAll, MainExit
  <2>4. CASE Signal
    BY <2>4 DEF Signal
  <2> QED
    BY <2>1, <2>2, <2>3, <2>4
<1>3. /\ \A s, u \in Busy : s = u
      /\ signals > 0 => Busy = {}
      /\ \A s \in Requests : pc[s] \in {"starting", "unwind"} \cup Removing => table[Target[s]] = None
      /\ \A i \in Requests : stream[i] \in {"none", "stopped"} \/ Owned(i)
      /\ \A l \in {"signal", "main"} : Stopping(l) => Listed \subseteq Range(snap[l])
  BY <1>2 DEF InTurn
<1>4. signals' > 0 => Busy' = {}
  <2>1. CASE Signal
    <3>1. ~Changing(Open) /\ main = "parked"
      BY <2>1 DEF Signal
    <3>2. ASSUME NEW s \in Busy PROVE FALSE
      <4>1. s \in Requests /\ Op[s] # "READ" /\ pc[s] \in AtWork
        BY DEF Busy
      <4>2. pc[s] \notin Answered \cup {"new"}
        BY <4>1 DEF AtWork, Removing, Answered
      <4>3. Op[s] # "BOOT"
        BY <3>1, <4>1, <4>2, BootsAre DEF MainOrder
      <4>4. Op[s] \in {"POST", "PUT", "DELETE"}
        BY <4>1, <4>3, RequestAssumption DEF Ops
      <4> QED
        BY <3>1, <4>1, <4>2, <4>4 DEF Changing, Open
    <3> QED
      BY <1>1, <3>2
  <2>2. CASE signals' = signals
    BY <1>1, <1>3, <2>2
  <2> QED
    BY <1>2, <2>1, <2>2
<1>5. \A s \in Requests : pc'[s] \in {"starting", "unwind"} \cup Removing => table'[Target[s]] = None
  BY <1>1, <1>3, LoopListed, RequestAssumption
<1>6. ASSUME NEW i \in Requests, stream'[i] \notin {"none", "stopped"}
      PROVE  Owned(i)'
  <2>1. stream[i] \notin {"none", "stopped"}
    BY <1>6, LoopStreams
  <2>2. Owned(i)
    BY <1>3, <2>1
  <2>3. i \notin Listed \/ Listed' = Listed
    BY <1>2, <2>1, LoopListed, ClearedIsStopped
  <2> QED
    BY <1>1, <2>2, <2>3 DEF Owned, Removing
<1>7. ASSUME NEW l \in {"signal", "main"}, phase'[l] \in {"drain", "wait", "stop"}
      PROVE  Listed' \subseteq Range(snap'[l])
  <2>1. Range(Snapshot) = Listed
    BY SnapshotIs DEF Types
  <2>2. Listed' \subseteq Listed
    BY LoopListed
  <2>3. Listed \subseteq Range(snap'[l])
    BY <1>3, <1>7, <2>1, LoopStopping
  <2> QED
    BY <2>2, <2>3
<1> QED
  BY <1>1, <1>3, <1>4, <1>5, <1>6, <1>7 DEF InTurn, Stopping, Removing
-----------------------------------------------------------------------------
(* The invariant and what follows from it *)

LEMMA InitIInv == Init => IInv
BY InitTypes, InitWalks, InitKinds, InitCreated, InitKnown, InitAlone, InitMainOrder,
   InitCleared, InitInTurn DEF IInv

LEMMA NextIInv == IInv /\ [Next]_vars => IInv'
<1> SUFFICES ASSUME IInv, [Next]_vars PROVE IInv'
  OBVIOUS
<1>1. /\ Types /\ Walks /\ Kinds /\ Created /\ Known /\ Alone /\ MainOrder /\ Cleared /\ InTurn
      /\ Types' /\ Walks'
  BY NextTypes, NextWalks DEF IInv
<1>2. ASSUME NEW r \in Requests, Begin(r) \/ RequestStep(r) \/ Finish(r) \/ BootNext(r)
      PROVE  IInv'
  <2>1. Does(r) /\ UNCHANGED <<phase, snap, at>>
    BY <1>1, <1>2, RequestDoes, RequestFrame
  <2>2. Kinds' /\ Created' /\ Known' /\ Alone' /\ Cleared'
    BY <1>1, <2>1, RequestKinds, RequestCreated, RequestKnown, RequestAlone, RequestCleared
  <2>3. MainOrder' /\ InTurn'
    BY <1>1, <1>2, <2>1, <2>2, RequestMainOrder, RequestInTurn
  <2> QED
    BY <1>1, <2>2, <2>3 DEF IInv
<1>3. ASSUME NEW k \in {"signal", "main"},
             StopAllStep(k) \/ ForceStep \/ BootDone \/ BootFails \/ MainLeaves \/ MainStopAll
               \/ MainExit \/ Signal
      PROVE  IInv'
  <2>1. Kinds'
    BY <1>1, <1>3, LoopFrame DEF Kinds, Removing
  <2>2. Created' /\ Known' /\ Alone' /\ MainOrder' /\ Cleared' /\ InTurn'
    BY <1>1, <1>3, LoopCreated, LoopKnown, LoopAlone, LoopMainOrder, LoopCleared, LoopInTurn
  <2> QED
    BY <1>1, <2>1, <2>2 DEF IInv
<1>4. CASE UNCHANGED vars
  <2>1. UNCHANGED <<table, stream, pc, held, phase, snap, at, main, serving, signals, overlap>>
    BY <1>4 DEF vars
  <2>2. Kinds' /\ Created' /\ Known' /\ Alone' /\ MainOrder' /\ Cleared' /\ InTurn'
    BY <1>1, <2>1 DEF Kinds, Created, Known, HasStarted, Alone, OneRemover, Listed, MainOrder, Open,
       Cleared, InTurn, Busy, Owned, Stopping, Answered, Removing, AtWork
  <2> QED
    BY <1>1, <2>2 DEF IInv
<1> QED
  BY <1>2, <1>3, <1>4, WhoSteps

THEOREM Inductive == Spec => []IInv
BY InitIInv, NextIInv, PTL DEF Spec

\* Every variable keeps to its type, a request that removes a stream holds that
\* one, and the loops stay within their snapshots.
THEOREM TypeCorrect == Spec => []TypeOK
<1>1. IInv => TypeOK
  <2> SUFFICES ASSUME IInv PROVE TypeOK
    OBVIOUS
  <2>1. Types /\ Walks /\ Kinds
    BY DEF IInv
  <2>2. \A r \in Requests : pc[r] \in Removing => Cardinality(held[r]) = 1
    BY <2>1, FS_Singleton DEF Kinds
  <2>3. DOMAIN snap = Loops
    BY <2>1 DEF Types
  <2>4. pc \in [Requests -> Answered \cup {"new", "hop", "add", "starting", "unwind", "drain",
                                           "wait", "stop", "stats", "gather"}]
    <3>1. Places = Answered \cup {"new", "hop", "add", "starting", "unwind", "drain",
                                  "wait", "stop", "stats", "gather"}
      BY DEF Places, AtWork, Removing
    <3> QED
      BY <2>1, <3>1 DEF Types
  <2>5. \A k \in DOMAIN snap : /\ snap[k] \in Seq(Requests)
                               /\ phase[k] # "done" => at[k] \in 1 .. Len(snap[k]) + 1
    BY <2>1, <2>3 DEF Types, Walks
  <2> QED
    BY <2>1, <2>2, <2>4, <2>5 DEF Types, TypeOK, States, Loops, Removing
<1> QED
  BY <1>1, Inductive, PTL

\* What GET /streams lists has started and no two requests tear one stream down;
\* while changes come one after the other, one stream per id has work in flight,
\* and one that nobody refers to any more has been stopped, so that destroying it
\* asserts nothing.
THEOREM RegistryAlwaysSound == Spec => []RegistrySound
<1>1. IInv => RegistrySound
  <2> SUFFICES ASSUME IInv PROVE RegistrySound
    OBVIOUS
  <2>1. Types /\ Kinds /\ Created /\ Known /\ Alone /\ InTurn
    BY DEF IInv
  <2>2. table \in [Ids -> Requests \cup {None}]
    BY <2>1 DEF Types
  <2>3. ListedHasStarted
    <3> SUFFICES ASSUME NEW d \in Ids, table[d] # None
                 PROVE  stream[table[d]] \notin {"none", "starting"} /\ pc[table[d]] = "ok"
      BY DEF ListedHasStarted
    <3>1. table[d] \in Requests /\ HasStarted(table[d])
      BY <2>1, <2>2 DEF Known
    <3> QED
      BY <2>1, <3>1 DEF Created, HasStarted, Answered
  <2>4. OneStreamPerId
    <3> SUFFICES ASSUME ~overlap, NEW i \in Requests, NEW j \in Requests, i # j,
                        Target[i] = Target[j],
                        {stream[i], stream[j]} \subseteq {"running", "draining"}
                 PROVE  FALSE
      BY DEF OneStreamPerId
    <3>1. \A m \in {i, j} :
            \/ m \in Listed
            \/ \E r \in Requests : pc[r] \in Removing /\ m \in held[r]
      BY <2>1 DEF InTurn, Owned, Created
    <3>2. \A m \in Requests : m \in Listed => table[Target[m]] = m
      BY <2>1 DEF Known, Listed
    <3>3. ASSUME NEW m \in Requests, NEW r \in Requests, pc[r] \in Removing, m \in held[r]
          PROVE  held[r] = {m} /\ table[Target[m]] = None /\ r \in Busy
      <4>1. PICK n \in Requests : held[r] = {n} /\ Target[n] = Target[r]
        BY <2>1, <3>3 DEF Kinds
      <4>2. table[Target[r]] = None
        BY <2>1, <3>3 DEF InTurn
      <4>3. r \in Busy
        BY <2>1, <3>3 DEF Kinds, Busy, AtWork
      <4> QED
        BY <3>3, <4>1, <4>2, <4>3
    <3>4. \A r, s \in Busy : r = s
      BY <2>1 DEF InTurn
    <3>5. CASE i \in Listed
      <4>1. table[Target[i]] = i /\ i # None
        BY <3>2, <3>5, RequestAssumption
      <4> QED
        BY <3>1, <3>2, <3>3, <4>1
    <3>6. CASE i \notin Listed
      <4>1. PICK r \in Requests : pc[r] \in Removing /\ i \in held[r]
        BY <3>1, <3>6
      <4>2. held[r] = {i} /\ table[Target[i]] = None /\ r \in Busy
        BY <3>3, <4>1
      <4>3. j \notin Listed
        BY <3>2, <4>2, RequestAssumption
      <4>4. PICK s \in Requests : pc[s] \in Removing /\ j \in held[s]
        BY <3>1, <4>3
      <4>5. s \in Busy
        BY <3>3, <4>4
      <4> QED
        BY <3>4, <4>2, <4>4, <4>5
    <3> QED
      BY <3>5, <3>6
  <2>5. DestroyedIsStopped
    BY <2>1 DEF InTurn, Owned, Referenced, DestroyedIsStopped
  <2> QED
    BY <2>1, <2>3, <2>4, <2>5 DEF RegistrySound, Alone
<1> QED
  BY <1>1, Inductive, PTL

\* While the API is served the manager is destroyed after the signal's stop_all
\* and every request have let go of it.
THEOREM ManagerAlwaysOutlives == Spec => []ManagerOutlives
<1>1. IInv => ManagerOutlives
  BY DEF IInv, MainOrder, ManagerOutlives
<1> QED
  BY <1>1, Inductive, PTL
-----------------------------------------------------------------------------
(* The streams of a run                                                      *)

\* A behaviour of the run is one of RunMode.
MCInv == part = "run" => R!IInv

\* The totals of a run are sums of what its shards wrote, a scrape answers with
\* what was counted, and no signal, timer or scrape touches a destroyed stream.
THEOREM RunAlwaysSound == MCSpec => []RunSound
<1>1. MCInit => MCInv
    <2>1. R!Init => R!IInv  BY ShardsAssumption, R!IInvInit
    <2> QED  BY <2>1 DEF MCInit, MCInv
<1>2. MCInv /\ [MCNext]_<<part, chosen, vars, runVars>> => MCInv'
    <2> SUFFICES ASSUME MCInv, [MCNext]_<<part, chosen, vars, runVars>>, part' = "run" PROVE R!IInv'
        BY DEF MCInv
    <2>1. part = "run" /\ R!IInv
        BY DEF MCInv, MCNext
    <2>2. [R!Next]_(R!vars)
        BY <2>1 DEF MCNext, runVars, R!vars, R!streamVars, R!mainVars, R!sumVars, R!obsVars
    <2> QED  BY <2>1, <2>2, ShardsAssumption, R!IInvNext
<1>3. MCInv => RunSound
    <2>1. R!IInv => R!TotalIsSum /\ R!ScrapeIsTrue /\ R!NothingTouchesGone
        BY ShardsAssumption, R!IInvSums, R!IInvScrape, R!IInvGone
    <2> QED  BY <2>1 DEF MCInv, RunSound
<1> QED  BY <1>1, <1>2, <1>3, PTL DEF MCSpec
=============================================================================
