----------------------------- MODULE NetOutput -----------------------------
(***************************************************************************)
(* The outputs that dial out.  http_client makes a request per message,    *)
(* with a retry ladder, any number of batches at a time up to its          *)
(* max_in_flight.  websocket sends a frame per message on one connection,  *)
(* which it replaces once per message before it gives up.  socket writes   *)
(* the batch's lines to the connection it was started with.                *)
(***************************************************************************)
EXTENDS Naturals, FiniteSets

CONSTANTS
    Kind,      \* "http_client", "websocket" or "socket"
    Sizes,     \* messages of each batch that is written
    Retries,   \* http_client: retries
    InFlight,  \* http_client: max_in_flight; the others have 1
    MaxDials   \* bound: dials of the websocket output

Writes == DOMAIN Sizes

VARIABLES
    write,     \* where each write_batch is
    msg,       \* the message it is at
    attempt,   \* the attempt at that message
    accepted,  \* external: messages of each batch the peer was seen to accept
    link,      \* the connection: "up", "broken" (unnoticed) or "none"
    pumps,     \* frame loops under way, one per websocket connection
    dials, aborted, closed

wVars == <<write, msg, attempt, accepted>>
lVars == <<link, pumps, dials>>
vars  == <<wVars, lVars, aborted, closed>>

Init ==
    /\ write = [w \in Writes |-> "away"] /\ msg = [w \in Writes |-> 1]
    /\ attempt = [w \in Writes |-> 0] /\ accepted = [w \in Writes |-> {}]
    /\ link = "up" /\ pumps = (IF Kind = "websocket" THEN 1 ELSE 0) /\ dials = 1
    /\ aborted = FALSE /\ closed = FALSE

Under(w) == write[w] \notin {"away", "ack", "nack"}
Limit    == IF Kind = "http_client" THEN InFlight ELSE 1
Goes(w, where) == write' = [write EXCEPT ![w] = where]

\* Where a message's own work starts.
Begin == IF Kind = "http_client" THEN "permit" ELSE "send"

\* The output layer starts a write.
Start(w) ==
    /\ write[w] = "away" /\ ~closed /\ Cardinality({v \in Writes : Under(v)}) < Limit
    /\ Goes(w, Begin)
    /\ UNCHANGED <<msg, attempt, accepted, lVars, aborted, closed>>

Accepts(w) == accepted' = [accepted EXCEPT ![w] = @ \cup {msg[w]}]

\* The message is done: the next one, or the batch is acked.
Done(w) ==
    /\ Goes(w, IF msg[w] = Sizes[w] THEN "ack" ELSE Begin)
    /\ msg' = [msg EXCEPT ![w] = @ + 1] /\ attempt' = [attempt EXCEPT ![w] = 0]
-----------------------------------------------------------------------------
\* send(): a permit of the rate limit before every attempt, retries included.
Permit(w) ==
    /\ write[w] = "permit" /\ Goes(w, IF aborted THEN "nack" ELSE "request")
    /\ UNCHANGED <<msg, attempt, accepted, lVars, aborted, closed>>

Answered2xx(w) ==
    /\ write[w] = "request" /\ Accepts(w) /\ Done(w)
    /\ UNCHANGED <<lVars, aborted, closed>>

\* The attempt that may not be repeated.
NoneLeft(w) == attempt[w] >= Retries

\* The attempt fails: refused, an answer outside 2xx, or no answer in time.
RequestFails(w) ==
    /\ write[w] = "request"
    /\ Goes(w, IF NoneLeft(w) \/ aborted THEN "nack" ELSE "sleep")
    /\ UNCHANGED <<msg, attempt, accepted, lVars, aborted, closed>>

Sleep(w) ==
    /\ Kind = "http_client" /\ write[w] = "sleep"
    /\ IF aborted THEN Goes(w, "nack") /\ UNCHANGED attempt
       ELSE Goes(w, "permit") /\ attempt' = [attempt EXCEPT ![w] = @ + 1]
    /\ UNCHANGED <<msg, accepted, lVars, aborted, closed>>
-----------------------------------------------------------------------------
\* dial_once(): a connection and its frame loop, or an exception.
DialOk == dials < MaxDials /\ dials' = dials + 1 /\ link' = "up" /\ pumps' = pumps + 1
DialNo == dials < MaxDials /\ dials' = dials + 1 /\ UNCHANGED <<link, pumps>>

\* A message finds no connection: a failed dial fails the batch.
Dial(w) ==
    /\ Kind = "websocket" /\ write[w] = "send" /\ link = "none"
    /\ \/ DialOk /\ UNCHANGED write
       \/ DialNo /\ Goes(w, "nack")
    /\ UNCHANGED <<msg, attempt, accepted, aborted, closed>>

\* The message goes out on the connection there is: sending into a broken one may
\* still succeed, and once it was replaced it is not replaced again.
Send(w) ==
    /\ Kind # "http_client" /\ write[w] \in {"send", "resend"} /\ link # "none"
    /\ \/ (IF link = "up" THEN Accepts(w) ELSE UNCHANGED accepted) /\ Done(w) /\ UNCHANGED link
       \/ /\ Goes(w, IF Kind = "socket" \/ write[w] = "resend" THEN "nack" ELSE "drop")
          /\ link' = "broken" /\ UNCHANGED <<msg, attempt, accepted>>
    /\ UNCHANGED <<pumps, dials, aborted, closed>>

\* drop_connection(): finish(), wait for the frame loop, destroy.
Dropped == link' = "none" /\ pumps' = pumps - 1

Drop(w) ==
    /\ write[w] = "drop" /\ Goes(w, IF aborted THEN "nack" ELSE "redial") /\ Dropped
    /\ UNCHANGED <<msg, attempt, accepted, dials, aborted, closed>>

\* The wait before the one reconnect, and the reconnect.
Redial(w) ==
    /\ write[w] = "redial"
    /\ \/ aborted /\ Goes(w, "nack") /\ UNCHANGED lVars
       \/ DialOk /\ Goes(w, "resend")
       \/ DialNo /\ Goes(w, "nack")
    /\ UNCHANGED <<msg, attempt, accepted, aborted, closed>>

\* External: the peer goes away.
Breaks ==
    /\ Kind # "http_client" /\ link = "up" /\ link' = "broken"
    /\ UNCHANGED <<wVars, pumps, dials, aborted, closed>>
-----------------------------------------------------------------------------
Abort ==
    /\ ~aborted /\ aborted' = TRUE
    /\ UNCHANGED <<wVars, lVars, closed>>

Close ==
    /\ ~closed /\ closed' = TRUE /\ \A w \in Writes : ~Under(w)
    /\ IF Kind = "websocket" /\ link # "none" THEN Dropped ELSE UNCHANGED <<link, pumps>>
    /\ UNCHANGED <<wVars, dials, aborted>>

Work(w) ==
    \/ Permit(w) \/ Answered2xx(w) \/ RequestFails(w) \/ Sleep(w)
    \/ Dial(w) \/ Send(w) \/ Drop(w) \/ Redial(w)

Next == (\E w \in Writes : Start(w) \/ Work(w)) \/ Breaks \/ Abort \/ Close

Spec == Init /\ [][Next]_vars

-----------------------------------------------------------------------------
\* http_client acks a batch when every message of it was accepted with a 2xx,
\* and nacks it only when one used up its retries or the stream is stopping.
AckMeansAccepted ==
    Kind = "http_client" =>
        \A w \in Writes :
            /\ write[w] = "ack" => accepted[w] = 1 .. Sizes[w]
            /\ write[w] = "nack" => aborted \/ attempt[w] = Retries

\* One frame loop per websocket connection, and none is left when the output is
\* closed: its connection would be destroyed under it.
OnePump == pumps = (IF Kind = "websocket" /\ link # "none" THEN 1 ELSE 0)
=============================================================================
