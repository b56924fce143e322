-------------------------- MODULE MCStreamManager --------------------------
(* The two ways to run streams for TLC, one at a time: many of them behind   *)
(* the REST API, and one on every shard of a process.  `part` says which one *)
(* a behaviour is of; the variables of the run stay Off with the other, and  *)
(* those of StreamManager as they began.                                     *)
EXTENDS StreamManager

CONSTANTS Off, Shards, MaxMsgs, MaxScrapes

(* A stream of the command line, a second one that is posted, and a PUT, a   *)
(* DELETE and a GET of the first.                                            *)
MCOp ==
    [boot |-> "BOOT", post |-> "POST", put |-> "PUT", delete |-> "DELETE", get |-> "READ"]
MCRequests == DOMAIN MCOp
MCTarget   == [r \in MCRequests |-> IF r = "post" THEN 2 ELSE 1]
MCBoot     == <<"boot">>

VARIABLES
    part,
    compiled, served, shard, stopping, drained, told, comp, inbox, adding, added, run, live,
    alarm, kills, err, total, obs, scrape, scrapes

runVars == <<compiled, served, shard, stopping, drained, told, comp, inbox, adding, added, run,
             live, alarm, kills, err, total, obs, scrape, scrapes>>

\* With its theorems.
R == INSTANCE RunModeProofs WITH
    chosen <- (part = "run"), forced <- told, timer <- alarm, signals <- kills

ASSUME ShardsAssumption == R!RunAssumption

MCInit ==
    /\ Init
    /\ \/ part = "streams"
       \/ part = "run" /\ R!Init /\ serving
    /\ chosen = (part = "streams")
    /\ part # "run" =>
         /\ compiled = Off /\ served = Off /\ shard = Off /\ stopping = Off /\ drained = Off
         /\ told = Off /\ comp = Off /\ inbox = Off /\ adding = Off /\ added = Off /\ run = Off
         /\ live = Off /\ alarm = Off /\ kills = Off /\ err = Off /\ total = Off /\ obs = Off
         /\ scrape = Off /\ scrapes = Off

MCNext ==
    /\ UNCHANGED <<part, chosen>>
    /\ \/ part = "streams" /\ Next /\ UNCHANGED runVars
       \/ part = "run" /\ R!Next /\ UNCHANGED vars

MCSpec == MCInit /\ [][MCNext]_<<part, chosen, vars, runVars>> /\ Fairness /\ R!Fairness
-----------------------------------------------------------------------------
\* The totals of a run on its way out are sums of what its shards wrote, a scrape
\* answers with what was counted, and when the streams of a run are destroyed no
\* signal, timer or scrape is left that would touch them.
RunSound == part = "run" => R!TotalIsSum /\ R!ScrapeIsTrue /\ R!NothingTouchesGone

\* A signal ends the process whatever the streams do, unless a request is in the
\* middle of changing the table.
Signalled == IF part = "streams" THEN signals > 0 ELSE kills > 0
ShutdownCompletes ==
    Signalled ~> IF part = "streams" THEN ShutdownOver ELSE R!RunOver
=============================================================================
