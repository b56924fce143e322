--------------------------- MODULE SequenceInput ---------------------------
(***************************************************************************)
(* `sequence`, and what reads files, stdin and `generate`: sources read to *)
(* their end one after the other, each cut into messages by a scanner.     *)
(*                                                                         *)
(* A source is a sequence of messages, each of which ends after so many    *)
(* bytes; the last one of a file has no end of line, so that only the end  *)
(* of the file completes it.                                               *)
(* The fiber that reads is the stream's input_loop, which asks for no more *)
(* after a drain and stops at any exception.                               *)
(***************************************************************************)
EXTENDS Integers, Sequences, FiniteSets, Functions

CONSTANTS
    Kinds,     \* of each source: "file", "stdin" or "generate"
    Ends,      \* of each source: after how many bytes its messages end
    BatchSize, \* messages of a batch
    MaxChunk,  \* bound: bytes a read brings
    Faults     \* bound: connects and reads that fail

\* An empty sequence, which ends at its first read, is left out.
SequenceAssumption ==
    /\ Kinds \in Seq({"file", "stdin", "generate"}) /\ Len(Kinds) > 0 /\ DOMAIN Ends = DOMAIN Kinds
    /\ BatchSize \in Nat \ {0} /\ MaxChunk \in Nat \ {0}
    /\ \A c \in DOMAIN Ends :
        /\ Ends[c] \in Seq(Nat \ {0})
        /\ \A i, j \in DOMAIN Ends[c] : i < j => Ends[c][i] < Ends[c][j]

VARIABLES
    pc,      \* where the fiber is
    at,      \* _at
    child,   \* whether each source is open
    half,    \* bytes of the source at hand that were read
    cut,     \* messages of it that its scanner has made
    ready,   \* _ready, of the source at hand
    eof,     \* _eof, of the source at hand
    aborted, \* the stream drains
    failed,  \* a connect or a read has failed
    out      \* what was handed out

VARIABLE chosen  \* rigid: a run composes several components, and this is the one at hand

vars == <<pc, at, child, half, cut, ready, eof, aborted, failed, out>>

Sources == DOMAIN Kinds

\* The first bytes of a source, up to and with its n-th message.
Upto(c, n) == IF n = 0 THEN 0 ELSE Ends[c][n]

Size(c) == Upto(c, Len(Ends[c]))

Init ==
    /\ pc = "connect" /\ at = 1 /\ child = [c \in Sources |-> "new"]
    /\ half = 0 /\ cut = 0 /\ ready = <<>> /\ eof = FALSE
    /\ aborted = FALSE /\ failed = FALSE /\ out = <<>>
-----------------------------------------------------------------------------
(* sequence_input *)

\* Closed before the next is opened; after the last the input has ended.
Exhausted ==
    /\ pc = "exhausted" /\ at' = at + 1 /\ pc' = IF at < Len(Kinds) THEN "connect" ELSE "over"
    /\ child' = [child EXCEPT ![at] = "closed"]
    /\ half' = 0 /\ cut' = 0 /\ ready' = <<>> /\ eof' = FALSE
    /\ UNCHANGED <<aborted, failed, out>>

\* The first source when the stream starts, a later one inside a read.
Connect ==
    /\ pc = "connect" /\ child' = [child EXCEPT ![at] = "open"]
    /\ pc' = IF at = 1 THEN "idle" ELSE "read"
    /\ UNCHANGED <<at, half, cut, ready, eof, aborted, failed, out>>

Fails(where) ==
    /\ pc = where /\ ~failed /\ failed' = TRUE /\ pc' = "over"
    /\ UNCHANGED <<at, child, half, cut, ready, eof, aborted, out>>

ConnectFails == Fails("connect") /\ Faults > 0

\* What fails in a read of stdin counts as its end.
ReadFails == Fails("read") /\ Faults > 0 /\ Kinds[at] = "file" /\ ready = <<>> /\ ~eof

\* From the source at hand on.
Close ==
    /\ pc = "over" /\ pc' = "closed"
    /\ child' = [c \in Sources |-> IF c >= at THEN "closed" ELSE child[c]]
    /\ UNCHANGED <<at, half, cut, ready, eof, aborted, failed, out>>
-----------------------------------------------------------------------------
(* scanned_input *)

\* input_loop looks whether to drain before it asks for a batch.
Call ==
    /\ pc = "idle" /\ pc' = IF aborted THEN "over" ELSE "read"
    /\ UNCHANGED <<at, child, half, cut, ready, eof, aborted, failed, out>>

Serve ==
    /\ pc = "read" /\ ready # <<>> /\ pc' = "idle"
    /\ LET n == IF Len(ready) < BatchSize THEN Len(ready) ELSE BatchSize
       IN  out' = out \o SubSeq(ready, 1, n) /\ ready' = SubSeq(ready, n + 1, Len(ready))
    /\ UNCHANGED <<at, child, half, cut, eof, aborted, failed>>

Scanned == pc = "read" /\ Kinds[at] # "generate" /\ ready = <<>>

\* A message is whole when its scanner has seen its end.
Whole(c, n) == [of |-> c, n |-> n, whole |-> TRUE]

\* feed(): the messages that end within the first n bytes; the last one does not.
EndedBy(c, n) == {m \in 1 .. Len(Ends[c]) - 1 : Upto(c, m) <= n}

\* The read of stdin blocks until something is written to it or it ends, and no drain
\* breaks it off.
Block ==
    /\ Scanned /\ ~eof /\ Kinds[at] = "stdin" /\ ~aborted /\ pc' = "blocked"
    /\ UNCHANGED <<at, child, half, cut, ready, eof, aborted, failed, out>>

\* A read of the source at hand returns.
Returns ==
    /\ pc \in {"read", "blocked"} /\ Kinds[at] # "generate" /\ ready = <<>> /\ ~eof
    /\ (pc = "blocked" <=> Kinds[at] = "stdin") /\ pc' = "read"

Chunk ==
    /\ Returns
    /\ \E n \in 1 .. MaxChunk :
        /\ half + n <= Size(at) /\ half' = half + n
        /\ cut' = Cardinality(EndedBy(at, half + n))
        /\ ready' = [m \in 1 .. cut' - cut |-> Whole(at, cut + m)]
    /\ UNCHANGED <<at, child, eof, aborted, failed, out>>

\* finish(): what is left makes a message, and a drained stdin may cut it short.
Leftover ==
    IF half = Upto(at, cut) THEN <<>>
    ELSE <<[of |-> at, n |-> cut + 1, whole |-> half = Upto(at, cut + 1)]>>

\* A drain makes an empty chunk of the next read of stdin.
Drained == Scanned /\ ~eof /\ Kinds[at] = "stdin" /\ aborted /\ UNCHANGED pc

Finish ==
    /\ (Returns /\ half = Size(at)) \/ Drained
    /\ eof' = TRUE /\ ready' = Leftover /\ cut' = cut + Len(Leftover)
    /\ UNCHANGED <<at, child, half, aborted, failed, out>>

AtEof ==
    /\ Scanned /\ eof /\ pc' = "exhausted"
    /\ UNCHANGED <<at, child, half, cut, ready, eof, aborted, failed, out>>
-----------------------------------------------------------------------------
(* generate_input *)

\* The interval is waited for between two messages; a drain cuts it short.
Generate ==
    /\ pc = "read" /\ Kinds[at] = "generate" /\ ready = <<>> /\ cut < Len(Ends[at])
    /\ cut' = cut + 1 /\ ready' = <<Whole(at, cut + 1)>>
    /\ UNCHANGED <<pc, at, child, half, eof, aborted, failed, out>>

Generated ==
    /\ pc = "read" /\ Kinds[at] = "generate" /\ ready = <<>>
    /\ cut = Len(Ends[at]) \/ (aborted /\ cut > 0)
    /\ pc' = "exhausted"
    /\ UNCHANGED <<at, child, half, cut, ready, eof, aborted, failed, out>>

Abort ==
    /\ ~aborted /\ pc # "closed" /\ aborted' = TRUE
    /\ UNCHANGED <<pc, at, child, half, cut, ready, eof, failed, out>>
-----------------------------------------------------------------------------
Reader ==
    \/ Exhausted \/ Connect \/ ConnectFails \/ ReadFails \/ Call \/ Serve \/ Block \/ Chunk
    \/ Finish \/ AtEof \/ Generate \/ Generated \/ Close

Next == Reader \/ Abort

\* A read of a file returns.  Nothing makes one of stdin return: nobody has to type.
Fairness == WF_vars(chosen /\ pc # "blocked" /\ Reader)
-----------------------------------------------------------------------------
Messages == UNION {{Whole(c, n) : n \in DOMAIN Ends[c]} : c \in Sources}

Before(x, y) == x.of < y.of \/ (x.of = y.of /\ x.n < y.n)

Ordered == \A i, j \in DOMAIN out : i < j => Before(out[i], out[j])

\* Messages come in the order of the sources, each once and with none left out; a
\* drain may leave some out at the end of a source, and cut one of stdin short,
\* but changes no order.
InOrder ==
    /\ Ordered
    /\ ~aborted => \A i \in DOMAIN out :
            /\ out[i] \in Messages
            /\ {m \in Messages : Before(m, out[i])} \subseteq Range(out)

\* The input has ended, undrained and without an error, only when every message
\* of every source was handed out whole, in order.
EndIsTrue == pc \in {"over", "closed"} /\ ~aborted /\ ~failed => Ordered /\ Range(out) = Messages

\* A long sequence does not accumulate open sources, and a closed one leaves none.
OneOpen ==
    /\ Cardinality({c \in Sources : child[c] = "open"}) <= 1
    /\ pc = "closed" => \A c \in Sources : child[c] # "open"

\* A drain closes whichever source is open, and the input, once no read of stdin
\* blocks: that one outlasts every drain until somebody types or stdin ends.
DrainOver == pc = "closed" \/ pc = "blocked"
=============================================================================
