# Swordfish in TLA+

Swordfish runs Benthos-style pipelines (an input, processors, an output) on
Seastar: one reactor per core, cooperative coroutines inside it, messages
between cores. Its promise to a source is at-least-once delivery: a batch is
acked only when everything made from it was written, and whatever else happens
the source is told, so that it can send the batch again. The code that keeps
that promise is a set of coroutines that share state across suspension points,
queues, timers, wrappers around inputs and outputs, a forced shutdown and a
Kafka client with retries. Those are the parts modelled here; parsing of
configurations, the mapping language and formatting are not.

Paths below are relative to the repository root.

## The system and its parts

| part | source | state it keeps | operations |
|---|---|---|---|
| ack group | `src/runtime/transaction.cc` | children outstanding, sealed, first error | `add_child`, `child_done`, `seal` |
| stream | `src/runtime/stream.cc` | two bounded queues, writes in flight, two abort sources, a gate, counters | three fibers, `do_write`, `request_drain`, `request_force`, `stop` |
| run mode | `src/cli/run_main.cc`, `runtime/stream.cc`, `runtime/observe.cc` | one stream per shard, forcing timer, live flag, observability server | start, signal, wait, sum of statistics, scrape, exit |
| streams mode | `src/cli/streams_main.cc` | table of running streams, forcing timer | POST, PUT, DELETE, GET, signal, main's unwinding |
| input wrappers | `src/components/io.cc` | nacked batches, parked batches, policies, groups, cursors | `read_batch`, the ack it hands out, fill fibers, `close` |
| file, stdin, generate, stdout | `src/components/io.cc`, `basic.cc` | position in a source, a scanner; one writer thread for all shards | `read_batch`, `write_batch`, `ref`, `unref`, `loop` |
| outputs | `src/components/outputs.cc` | waiting writes, flush gate, timer, free children | `write_batch`, `flush`, `drain`, `close` |
| HTTP, websocket, socket | `src/components/http.cc`, `socket.cc` | a rendezvous of depth one, requests waiting for their ack, connections with their frame loops | handlers, `read_batch`, `write_batch`, abort, `close` |
| processors | `src/components/processors.cc` | none between batches, but for dedupe's cache | `process` |
| scanners | `src/components/scanners.cc` | undelivered text, a pending error | `feed`, `finish` |
| caches, rate limits, batch policy | `src/runtime/*.cc` | entries with an expiry, a window of permits, counts | `add`, `access`, `add`/`flush` |
| Kafka consumer | `src/kafka/consumer.cc`, `components.cc` | assignment, fetch positions, one offset tracker per partition, cached leaders | `start`, `poll`, `rejoin`, `ack`, `commit_acked`, `stop` |
| group membership | `src/kafka/group_membership.cc`, `consumer_group.cc` | one owner on shard 0: generation, assignment, staged offsets, timers; one cached share per shard | `attach`, `offer`, `commit_now`, `detach`, heartbeat, join, commit; the leader's division |
| Kafka producer | `src/kafka/producer.cc` | round robin cursors | `send_to`, `send_once` |
| cluster, connection | `src/kafka/cluster.cc`, `client.cc` | topic and leader cache, one metadata request, connections by broker; requests by correlation id, read loop, dead and closing flags | `refresh`, `to_node`, `exchange`, `close` |
| wire format | `src/kafka/generated/messages.*`, `records.cc`, `wire.hh` | none | encode, decode, version negotiation |
| configuration, mapping language, code generation, CLI | `src/config`, `src/blobl`, `src/codegen`, `src/cli` | none at run time | parse, lint, emit |

Interactions: an input hands `(batch, ack)` to the stream, through whatever
wrappers the configuration put around it; the pipeline splits a batch and gives
every piece a child of one ack group; the output's write answers the piece; the
group answers the source. An output may hold a write back until a policy
triggers, and `drain()` releases it at the end. The Kafka input's ack marks
offsets in the trackers of its own shard; the next poll offers what is finished
to shard 0, which commits it on a timer. Shard 0 pushes each shard its share
after a join, and each shard notices the new generation at its next poll. All
callers of one shard share its connections to the brokers. Run mode starts,
drains and stops one stream per shard by messages from shard 0; streams mode
starts and stops whole streams on behalf of HTTP requests that are served
concurrently.

What is hard, and what makes each part correct:

- *Suspension points.* Between any two `co_await`s another fiber runs: `stop_now`
  and the fibers on one queue, two requests on one stream id, a commit and a
  join on the staged offsets, a late write and the drain of a batching output.
  Correct means nothing is lost, doubled or used after it was destroyed.
- *Order.* Acks arrive in any order, leaders answer in any order, a retry
  overtakes a later request, a chunk ends anywhere in a message. Correct means
  an offset is never committed past an unfinished record, and that neither the
  order of events nor the cutting of a stream shows in what comes out.
- *Failure in the middle.* A stage, a broker, an offset fetch, a child output or
  a start fails when part of the work is done.
- *Lost wake-ups and held-back work.* Condition variables that do not remember a
  broadcast, rendezvous that are closed while a producer waits, brokers that
  allow fewer writes than a batching child needs. Correct means nobody waits for
  something that cannot come.
- *Shutdown.* Graceful, timed out, forced before, during or after the drain.
  Correct means it ends, and ends after everything that uses the components.
- *Faults outside.* Lost answers, moved leaders, rebalances, evictions, crashes,
  clients that go away, brokers of another release.

`PROJECT.json` lists these hazards one by one with the line where each bites and
the property that would catch it.

## Modules

| module | models | extends, instantiates or refines |
|---|---|---|
| `AckGroup` | the operations of `ack_group`, as operators on a record | |
| `SplitAck` | one group with its children answered in any order, and its theorems | `AckGroup`, TLAPS |
| `Delivery` | abstract: what a stream promises its source | |
| `Stream` | one shard's stream with its shutdown | `AckGroup`; refines `Delivery` |
| `RunMode` | one stream on every shard, from the first start to the exit | |
| `StreamManager` | streams mode: requests, signal, forcing timer, main | |
| `InputSide` | what every wrapper meets: a source below, fiber and pipeline above | |
| `AutoRetry` | `auto_retry_input` | |
| `BatchedInput`, `BufferedInput`, `BrokerInput`, `ProcessedInput` | the wrapper of that name | `InputSide`; `AckGroup` |
| `SequenceInput` | `sequence_input` over the file, stdin and generate inputs | |
| `Rendezvous` | `rendezvous<T>`, as operators | |
| `HttpServerInput`, `SocketInput`, `WebsocketInput`, `HttpClientInput` | the inputs of that name, `SocketInput` for client and server | `Rendezvous` |
| `BatchedOutput` | `batched_output` under processors, above an output | |
| `OutputBroker` | broker patterns, fallback, switch, the retry wrapper | |
| `HttpServerOutput`, `NetOutput` | `http_server`; `http_client`, `websocket` and `socket` outputs | `Rendezvous` (the first) |
| `StdoutWriter` | the stdout outputs of all shards and their thread | |
| `Processors`, `Scanners`, `Caches`, `RateLimit` | the parts of that name | |
| `KafkaConsumer` | the consumer of one shard, with its offset tracker, the group, the brokers and the pipeline around it | |
| `GroupMembership` | the owner on shard 0, the consumers of several shards, the coordinator | |
| `GroupAssignment` | how a leader divides partitions | |
| `KafkaProducer` | the sends of one shard and their shared metadata | |
| `KafkaClient` | the cluster of one shard and its connections | |
| `KafkaWire` | the fields of each message by version; one request to a broker of any release | |
| `KafkaCodec` | the bytes of numbers, strings, arrays, records and batches | |
| `*Proofs` | theorems of the module of the same name; `WrapperProofs` and `InputProofs` those of `MCInputs` | TLAPS |
| `MC*` | constants for TLC, and the composition of parts | |

How they correspond to the code:

**Stream.** One record per fiber (`in`, `pipe`, `out`) holds its suspension
point and its local transaction; `toPipeline` and `toOutput` are the queues,
`writes` the `do_write` coroutines that hold a semaphore unit, `stopPc` the
position of `do_stop`. Each action is the code between two suspensions.
Messages are abstracted to an error mark; a `process` call returns any number
of pieces up to `MaxFan`, marks them, or throws; a write succeeds, fails or
hangs until `_stop_now`. `answers`, `split`, `wrote`, `dropped`, `errored` and
`launched` are histories. `Promise == INSTANCE Delivery` maps wherever a batch
is held to the phase the promise is in.

**RunMode.** `run` is the place of the main coroutine, `inbox` the messages it,
the timer and the signal handlers sent to each shard, which takes them in order.
`compiled` chooses between the interpreted run and the generated `main`, which
differ in how they add up the totals.

**StreamManager.** A request is at one of the suspension points of `add`,
`remove` or `gather`; the three read endpoints are one kind of request;
`overlap` remembers that two changes of the table were under way at once;
`stop_all` (by the signal and by main) and `force_all` walk over snapshots. A
running stream finishes by itself, drains when told to, or hangs until forced.

**Input wrappers.** `pc` is the place of `read_batch` in the stream's input
fiber, `filler` that of a fill fiber. The source hands out batches of given
sizes, ends or throws; the pipeline acks and nacks what it was given in any
order, also after the drain. A condition variable forgets a broadcast nobody
waits for, as the code's comments state of Seastar's. `answer` records what the
source was told.

**Network inputs and outputs.** A rendezvous operation is one step, since no
operation suspends between its last look and its change. Requests, connections
and frame loops are fibers of their own; peers and clients are external, and may
send, stall, go away or come too late. What `sync_response` stores for a request
is a set of parts that the reply must show.

**Sequence and files.** A source is the positions its messages end at; a chunk takes any number of
bytes up to `MaxChunk`, and the end of a source completes its last message. A read
of `stdin` blocks until somebody types, whatever drains meanwhile; the next one
after a drain returns an empty chunk, which its scanner takes for the end.

**Outputs.** In `BatchedOutput` a transaction is processed into batches, each
batch is a write that joins `waiting`, and a flush takes what is waiting with
all its messages. Flushes are concurrent with each other and with `drain()`.
`OutputBroker` has one call per child and transaction; `Needs[c]` is the number
of parked writes that make a batching child flush, which answers all of them
alike. The output fiber above both
launches transactions up to the output's limit.

**StdoutWriter.** The stretches under the mutex are single actions, everything
between two of them is another, and the thread's answer is a message to the
shard that asked. `ref` and `unref` count outputs; the last `unref` joins.

**Processors.** A program is a list of trees and `PipelineRun` evaluates it on a
batch: each `process` returns batches or throws. A message is its origin, a tag
that decides how mappings, checks and archives treat it, its error mark and how
often one was set; it carries what a workflow recorded of it and what was so.
`w` has the keys a dedupe has seen and the messages that were dropped or held
nothing.

**Scanners.** Each kind is a pair of functions, `feed` and `finish`, over a
record of the scanner's members; the run feeds every cutting of every text and
compares with the text fed whole.

**KafkaConsumer.** `pc` is the place of `poll`, `rejoin`, `start` or `stop`;
the locals of `poll` (`out`, `pending`, `hard`, `stale`, `todo`, `entries`) are
variables because the poll suspends with them. A log is a set of record batches
with ranges, holes and control batches. External: brokers (leaders, watermark,
retention), the group (`cache`, `staged`, `committed`), other members, crashes.

**GroupMembership.** `jpc` is the place of `do_join`, `wire` and `asleep` are
commit requests sent and sleeping in `retrying`, `beats` the heartbeats in
flight. A fault is one of a named set (`FaultKinds`), so a run can say which
ones its question is about.

**KafkaProducer.** A send is at `lookup`, `refreshing`, `pause`, `backoff` or
`produce`. The records of a call are numbered; a key is the partition it hashes
to. The brokers create a topic when it is asked for, describe it in the next
answer, move leaders and append what a leader is sent.

**KafkaClient.** `slot` and `seed` are the connections by node, `attempt` the
shared connects, `pending` the requests of a connection, `reading` whether its
read loop runs. Callers hold a connection by pointer while others may find it
dead and replace it.

**KafkaWire, KafkaCodec.** A message is the tree of its fields
with the versions each exists in, and `Wire(struct, v)` what travels at version
`v`. `KafkaWire` shapes a request after `negotiated()`, sends it at
`pick_version()` and compares. `KafkaCodec` writes and reads bytes; CRC-32C is
taken to tell contents apart.

## Runs

One run per question; the components that answer it are composed in its MC
module. A behaviour of `MCInputs`, `MCPipeline`, `MCKafka` or `MCStreamManager`
is of one component, which the rigid variable `part` chooses: the variables of
the others stay `Off` (those of the component the MC module extends, as they
began), and `chosen` limits each component's fairness to its own
behaviours. The components of one module do not interact in the code either;
composing them lets one property ask the same question of each. "Shows" is for
the instance given; the theorems below are for all instances.

| run | bounds | shows |
|---|---|---|
| `stream_safety` | 2 batches, queue depth 1, 2 writes in flight, 2 processors, fan-out 2, strict mode | every batch read is answered at most once, acked only when written and never after an error mark was seen, answered by the time the stream stopped; components closed when quiet; counters add up; writes launched in order |
| `stream_live` | 2 batches, 1 write in flight, 1 processor, fan-out 2, not strict | `Stream` implements `Delivery`; the end of the input drains the stream; `stop()` completes even when calls hang |
| `streams_api` | 5 requests, 2 at once, 2 ids, 1 signal; run mode with 2 shards, 1 message each, 1 signal, 1 scrape | a listed stream has started, one remover per stream, one stream per id; none destroyed running; totals and scrapes are true; nothing touches a manager or stream that is gone; a signal ends the process |
| `inputs` | see below | no input forgets what it took in, answers are true, an end is an end, nacks are replayed, leftovers are flushed, a drain ends every input |
| `pipeline` | see below | an ack means the messages are where they had to go; no writer is forgotten; writes end; groups answer once; chunks do not show; trees keep messages; caches and limits hold |
| `kafka_safety` | 1 partition, 2 batches, 3 faults of any kind | commits stay behind unfinished records, nothing is skipped or read twice, across loss, regain, late acks, corruption and crashes |
| `kafka_live` | 2 partitions, 2 brokers, 2 batches, 2 faults, the second under `FewFaults` | what was decoded reaches the caller, everything is committed once the faults (a moved leader, a commit that fails at a stop) are over, with acks of the two batches in any order |
| `kafka_parts` | membership: 2 shards, 2 partitions, 1 fault of any of 10 kinds; connections: 2 callers, 3 connections, 2 faults, 4 calls; brokers up to version 20; 3 members, 2 topics of up to 4 partitions; bytes of 3 bits, up to 2 batches | no partition on two shards, nothing runs on an erased owner; nobody waits where no read loop runs; requests mean the same at both ends; shares fit together |
| `membership_live` | 2 shards, 1 partition, 2 faults of any of 10 kinds, the second under `FewFaults` | offers get committed, attach returns, a new share reaches its shard, each but for a share that a failed join lost |
| `membership_revoke` | 1 shard, 1 rebalance | violated: see Findings |
| `producer_resend` | 1 send, 3 partitions, 1 move | violated: see Findings |
| `late_write` | 3 transactions of one message, policy of 2 | violated: see Findings |

The parts of `inputs`: the retry wrapper with 2 batches and 3 nacks (two free
replays, then the backoff); the batching input over batches of 3, 0 and 2 with a
count of 2 and a period; the buffer with and without a policy over 3, 5, 0 and 2
bytes and a limit of 4 (one batch is larger than the buffer, one is empty, and the
last does not fit beside the first);
the broker over 2 children and the processing input, each over batches of 3, 1
and 2; the HTTP server with 2 requests; the socket server with 2 connections and
the socket with one, of 3 messages; the websocket with 1 retry, 3 dials and 3
messages; the HTTP client polling, streaming with reconnect and streaming once,
4 messages each; a sequence of file, generate, stdin and an empty file. Sources
and processors fail once.

The parts of `pipeline`: an ack group of 4 children; scanners on all texts of up
to 4 symbols, archives of up to 6; caches of 4 keys on 2 shards; a rate limit of
5 per 2 ticks on 2 shards; batches of up to 2 messages through some hundred
trees, each kind of node over several leaves and after or inside another; the
batching output with 3 transactions, a count of 2 and a failing inner output;
9 patterns over 2 children, one of which parks its first write, with 2 failures,
and again with children that need two and three writes, 4 transactions and strict
mode, where the limits of some patterns are too small;
the HTTP server output with 2 batches and 2 clients; the dialling outputs with
batches of 2, 1 and 1 in flight at once; the producer with 2 sends, 2 topics, 2
brokers, a moved leader, a fault and both values of acks; the stdout thread with
2 shards that open twice and write once.

Bounds are the smallest at which each interesting case happens: two batches
and a queue of one slot make every fiber block on every queue, two writes in
flight let a later one finish first, two partitions on two brokers let one fail
after the other was decoded, three faults cover lose, regain and a late ack,
two processors let the second clear the mark of the first, three transactions
let one be flushed, one wait and one be late, and four symbols put every pair
of delimiters on either side of a cut. A batch of two records in
flight with another lets acks come out of order, and a second fault is what a
failed commit, or a join that fails with the timers armed, needs to matter: the
two `FewFaults` bound where in a behaviour it may come, so that the liveness
runs end in time (the safety runs have no such bound). Constants named `Max...` are bounds of the model
and not of the code, except `MaxRetries`, `MaxInFlight` and `MaxBuffer`.
Deadlock is checked except where the system may stop: a closed input, a
finished process, sends that ended.

Every property of a passing run has a mutant, a plausible slip in one modelled
definition under which TLC finds that property violated.

## Fairness

Weak fairness is assumed of coroutines whose future is ready (the reactor runs
them), of timers, and of requests that the code bounds with a timeout; of the
operating system's threads, and of a reader of stdout that goes on reading. A
join of the group is strongly fair: it waits for what was sent on its connection
before it, and the heartbeats sent behind it, however many, do not hold up its
answer. Fairness
is not assumed of calls the code cannot bound: a source's read before its abort
source fires, a `process` or write call before the hard stop, a stream's drain
before it is forced, a peer or a client. Where a property needs more of the
components it says so as a hypothesis of its own: `Answering` (every call
returns) in `DrainCompletes`, `Abortable` (a call returns once its abort source
fired) in `StopCompletes`, `Lively` (the source reads, the pipeline answers) in
`ReadIsDelivered`. In `DrainEnds` each `DrainOver` names what it depends
on: a socket's peer that neither sends nor closes, a websocket's peer that was
dialled after `close()` had looked for a connection, a body an HTTP client never
finishes, and whoever types at `stdin`, whose read nothing makes return.

## Theorems

Each is proved for every value of the constants, from the assumptions the module
of the component names (`StreamAssumption`, `LogAssumption`,
`MembershipAssumption`, `ClientAssumption`, `RequestAssumption`,
`RunAssumption`, `ChildrenFinite`, `InputsAssumption`): bounds are naturals, sets the code keeps in memory are finite,
a configuration is one the code accepts. TLC evaluates them for the instances.

| theorem | states |
|---|---|
| `SplitAck!ParentAnswerCorrect`, `AnswerFinal` | `ParentAnswer` and `AnswerIsFinal` of the run `pipeline` |
| `StreamProofs!AcksAreEarned`, `AllAnswered`, `ClosesWhenQuiet`, `CountersAddUp` | `AckMeansWritten`, `NothingLeftBehind`, `ClosedWhenQuiet`, `StatsBalance` of `stream_safety` |
| `StreamProofs!WritesKeepOrder` | the action property `WritesInOrder` |
| `StreamProofs!PromiseKept` | `KeepsPromise`: `Stream` implements `Delivery` |
| `StreamProofs!OneAnswerAlways`, `AckedIsWrittenAlways`, `NoWriteAfterAnswer` | what `Delivery` promises, of the stream: one answer per batch, an ack only for what was written, silence afterwards |
| `KafkaConsumerProofs!CommitSafeAlways`, `NothingSkippedAlways`, `NoRepeatAlways`, `DecodedIsHandedOutAlways` | the three properties of `kafka_safety`, and `DecodedIsHandedOut` of `kafka_live` |
| `MCKafkaProofs!ViewsAgreeAlways`, `OwnerOutlivesAlways` | `ViewsAgree` and `OwnerOutlives` of `kafka_parts` |
| `MCKafkaProofs!RevokeNeverRuns` | the commit before a join is never sent: the finding of `membership_revoke`, for every instance |
| `MCKafkaProofs!NobodyWaitsAlways`, `LiveStaysListed` | `NobodyWaitsInVain` of `kafka_parts`; a live connection is never replaced |
| `InputProofs!EndIsTrueAlways` | `EndIsTrue` of `inputs`, for all the inputs it speaks of |
| `InputProofs!OrphanNothing` | `NothingOrphaned` of `inputs`, for all the inputs it speaks of |
| `InputProofs!AnswerRightly` | `AnsweredRightly` of `inputs`, for all the inputs it speaks of |
| `StreamManagerProofs!RegistryAlwaysSound`, `ManagerAlwaysOutlives` | `RegistrySound` and `ManagerOutlives` of `streams_api` |
| `RunModeProofs!WayOutSound`, `StreamManagerProofs!RunAlwaysSound` | `TotalIsSum`, `ScrapeIsTrue` and `NothingTouchesGone` of `RunMode`; the second states them as `RunSound` of `streams_api` |
| `StreamProofs!TypeCorrect` and those of the other modules | the type invariant of the module |

Hardly any property is inductive as it stands; `IInv` (`Types /\ Life /\ Shares`
in `MCKafkaProofs`) is the conjunction that is. Lemmas say, conjunct by
conjunct or action by action, that a step keeps it.

*SplitAck.* `ParentAnswer` needs the count: `pending` equals the number of live
children (`GroupCounts`), which rests on the cardinality lemmas of
`FiniteSetTheorems` and so on the assumption that `Children` is finite.

*Delivery.* Its theorems are proved of `Promise`, the instance the stream implements. The invariant ties the phase of a batch to its pieces: whole
batches have none, split ones have some open, settled ones have exactly one
answer, which is an ack only if the written pieces are all of them.

*Stream.* The transactions of a shard stand in one line of places, from
`launched` over the output fiber, its queue, the pieces of the pipeline fiber,
its transaction and queue, to the slot of the input fiber, and batches and
pieces grow along it (`InOrder`). `Shape` says which places are filled at which
suspension point, `Kinds` where batches are whole and where in pieces, and
`Apart` that what the shutdown collected to nack is held by nobody else, nor
twice, without which an answer could be given twice. `Account` says
where the answer of a batch is: given, or with the pieces still held. `Quiet`
says that the layers end one after the other, each once the queue before it is
empty, or else that the shutdown has aborted the queues; with `Account` it gives
`AllAnswered`, and alone `ClosesWhenQuiet`.
`WritesKeepOrder` is the end of the line, read off `InOrder`. For `PromiseKept`
each action is shown to map, under the refinement mapping of the run, to the
step of `Delivery` it is (`Moves`, `Reads`, `Answers`, `Splits`, `Settles`) or
to a stutter. `CountersAddUp` compares sums over batches and pieces with the
counters: adding one to a term adds one to the sum, by induction over the
summed set, for which `WFMin` of the library on the natural numbers is enough.

*KafkaConsumer.* `CommitSafe` is not inductive: an offset travels from the
tracker to `finished`, to the owner's `staged`, to the broker and back in the
cache. `IInv` says that each copy is safe (`OffsetsSafe`), that what lies below
a tracker's position is finished, in flight or before the start
(`TrackersCover`), and that what lies below a fetch position is too
(`NothingSkipped`). The critical step is `committable()`: the smallest offset
in flight, or the position when none is; `CommittableSafe` shows it safe from
`TrackersCover`. The step that receives records needs that a fetch returns
batches without a gap (`NoGap`). Rebalances and crashes keep `IInv` because
what is forgotten is only ever re-read. `NoRepeat` needs that what a poll has
taken is in the log and behind the position it will take from; so does
`DecodedIsHandedOut`, whose theorem has the hypothesis `Corruptible = {}`, as
its run has (see "Limits").

*GroupMembership.* The share a consumer acts on was published with a generation;
`Shares` says that what any shard has of a generation is the part its number gives it of
what the coordinator assigned under that generation, and `Published` that what a
join in progress holds is what was assigned under the generation it publishes. `OwnerOutlives` follows the
life of the owner (`Life`): `attached` counts the consumers that are in
(`Counted`), a consumer keeps the owner (`Kept`), only the last detach lets it
go (`LastOut`), and that one waits for the join, the beats and the commits
(`Awaited`, `JoinWanted`, `Emptied`). Both have the hypothesis `OneInput` (a
shard has one input in the group); "Limits" says what happens otherwise.
`RevokeNeverRuns` needs only that whoever enters `do_join` has found the
generation negative.

*KafkaClient.* A request that waits is that of an actor inside `exchange()` on
that connection (`Waiting`); a live connection is read and every open one is in
a table (`Readers`), so nobody waits on one that nobody reads.
`SharedMeansUnderWay` says that a connect or a refresh that others may join has
somebody in it. `NobodyWaitsInVain` is stated of `MCKafka`, so its theorem is of that composition
with its constants left open. `LiveStaysListed` is why a caller's connection is not replaced under it.

*StreamManager.* That no stream is lost rests on who owns it (`Owned`): the
table, the request that starts it or the one that removes it. `Kinds` says what
a request can be suspended in and that a remover holds one stream of its id;
`Known` that what is listed, held or in a snapshot has started; `Alone` that a
remover holds what is not listed and nobody else removes. While changes do not
overlap at most one request is changing the table (`InTurn`), its id is free
while it removes or starts, and the two `stop_all` have all that is listed in
their snapshots; what they have passed is stopped (`Cleared`), so clearing the
table loses nothing. That the snapshot has all that is listed is an induction
over the ids (`SnapshotIs`). `MainOrder` follows the main coroutine: boots come
one after the other and before the server, and when it stops no request is open.

*RunMode.* Messages to a shard are taken in order, so that what is asked is asked
of a stream that has started (`Begun`), and the last thing asked is to stop
(`Disarmed`): when no `stop` is left and every `stop()` has ended, nothing is on
its way to what is destroyed. `Staged` says how far the streams are while the
main coroutine is somewhere, above all that none runs once the totals are asked
for. `Summed` and `Scraped` keep the sums: each shard is asked once, what it
answers moves from the part that is asked to the part that is gathered, and a sum
over the shards grows by what one term grows (`TotalGrows`, an induction over the
size of the set). `RunSound` is stated of `MCStreamManager`, of which a behaviour
is one of either mode, so `RunAlwaysSound` is proved where its constants are left
open, from the lemmas of `RunModeProofs` under its `INSTANCE`.

*Inputs.* The theorems are of the composition `MCInputs` with its constants left
open; `PartInv` is the invariant of the part at hand, and each part has its own (those of batching, buffering,
the processors and http_server are in `WrapperProofs`).
`RetryInv`: what the wrapper has adopted is in its queue, in the pipeline or
asleep before a replay, one place each, and `adopted` counts exactly these until a
stop drops some, so that
an end with nothing adopted has delivered everything. `BrokerInv`: a child that
is done has reported its end, and does so only when nothing is left to read.
`BrokerPlaced`: a batch that was read is in one child's read, parked once, in the
pipeline or answered, and in one of these only; `AllInOrder` says that the loop
over the children that answered passes each of them once, so `WhenAny` loses and
doubles nothing. `ProcessedInv`: the group of a split batch counts the pieces that
are out, parked or with the pipeline (`PiecesOf`); what has landed and what is out
add up to the batch while no piece was nacked, and the last answer settles it.
`BatchedInv`: the group of a batch counts the assemblies that hold a child of it
(`Holding`) and is sealed once the batch is drawn; the places of its messages in the
assemblies are a set (`Spread`), and while nothing was nacked each message that was
drawn has landed or stands in an assembly whose answer the group waits for.
`BufferInv`: the messages of a batch that fits have landed, went with a flush that
threw, are parked and not drawn, drawn, split off, or in the filler's hand; the bytes counted are those parked and not
drawn, also in the middle of a batch; and the filler waits only while there is no
room, never while the reader is drawing.
`HandlerInv`: the batch of a request is in the rendezvous or with the pipeline
until it is answered, in one of the two, and a reply comes after the answer it
shows, so what is stored for it stays. `ServerInv` and `DialledInv`: what of a
connection is with the stream, in the rendezvous of the server and ready, in a row,
are the first messages the scanner handed over, for the server until the rendezvous
closes. `DialInv`: retries never exceed
dials, and are fewer between a dial and the decision about it. `HttpInv`, proved
once for an instance with its configuration as parameters: what the consumer got,
what stands in the rendezvous and what the framer holds, in a row, are what was
sent, until the rendezvous closes. `SequenceInv`: what was handed out followed by
what is ready are the first messages of the sources; a message has ended exactly
if its number is at most `cut`, because the ends grow, which takes the least
message that has not (`Downward`).

What stays with TLC: all liveness (with `ENABLED` and fairness), and what recursive operators compute from data (a
scanner, a codec, a tree of processors, an assignment of partitions): their
modules declare `RECURSIVE` operators or fold over data, and induction over data
needs an operator as a parameter. Sets of numbers can be reached by `WFMin`, as
above. So only TLC checks the outputs and caches composed in the run `pipeline`
(`SplitAck` apart), and of `kafka_parts` `MeaningTravels` and `SharesFit`, which
fold over fields and partitions.

## Findings

Each is a run in which TLC shows the code doing what one of its own comments
rules out; `PROJECT.json` quotes the lines.

| run | what happens |
|---|---|
| `membership_revoke` | `do_join` commits staged offsets only while `generation >= 0`, and it is only ever entered with a negative one: the commit before a join never runs, and offsets acked for lost partitions are dropped unsent |
| `producer_resend` | the round robin cursor moves before anything is sent and a retry starts from where it was left, so keyless records one broker already accepted go to other partitions |
| `late_write` | after the drain of a batching output closed its gate, a write is flushed inline only if it fills the batch; one that does not is parked, the timer it arms cannot enter the gate, and nobody flushes it until the stream is forced |

## Limits of what holds

Where a property is stated with a condition, or an instance leaves a fault out,
the code does something else outside of it. Removing the condition named makes
TLC produce the behaviour.

| property | holds without | otherwise |
|---|---|---|
| `EverythingCommitted` | a batch at the end of a segment whose last records were compacted away | the position moves to the last surviving record + 1 (`consumer.cc:366`), the broker sends the same batch again, and the partition never advances |
| `EverythingCommitted` | acks of an assignment, offered by the poll that only then learns that the partition was lost and regained | they are committed under the new generation, and take the position back behind what others had committed meanwhile (`consumer.cc:422`); a replay and no loss |
| `EverythingCommitted` | `Leaderless` partitions, and a second fault outside `FewFaults` | the run has none: what a partition without a leader (`consumer.cc:209`) or a failed offset lookup (`consumer.cc:106`) leaves behind is covered by the safety run only |
| `DecodedIsHandedOut` | `Corruptible` partitions | `decode_batches` throws out of `poll` past records of other partitions (`consumer.cc:329`) |
| `OfferedIsCommitted` | a join that lost its share (`ShareLost`, see below) with the generation still negative | `commit_now` and the timer commit under a valid generation only, and only another attach would start a join |
| `OfferedIsCommitted` | a first join that failed (`~armed`) | a second attach joins but nobody arms the timers, so nothing is committed until `commit_now` |
| `ShareReachesShards` | a join that fails with the timers armed after the coordinator gave its generation out: the answer to SyncGroup is lost, or `fetch_offsets` throws (`ShareLost`) | heartbeats keep the member and its generation alive and find nothing to do, so no shard hears of its share until the next rebalance, or an attach that finds no generation set (`group_membership.cc:175`) |
| `OwnerOutlives` | two inputs of one shard in one group; consumers that failed to start | `attached` is keyed by shard (`group_membership.cc:275`); a failed attach is never detached (`group_membership.cc:263`) |
| `AckMeansOut` (`HealthyClusterDelivers`) | several sends to new topics at once | the five lookups may all join requests for other topics (`cluster.cc:117`) |
| `RegistrySound` (`OneStreamPerId`, `DestroyedIsStopped`), `ShutdownCompletes` | overlapping changes of the table (`overlap`) | the check and the `emplace` of `add` are two steps, `stop_all` clears a table that has changed, a removed stream is out of the forcing timer's reach (`streams_main.cc:170`, `274`, `188`) |
| `RunSound` (`TotalIsSum`) | a compiled run | `run_generated` adds from all shards to one variable (`stream.cc:706`), the race `run_main.cc:151-161` describes |
| `ManagerOutlives` | a process without the API | main waits for the streams and not for the signal's `stop_all` (`streams_main.cc:726`) |
| `MeaningTravels` | what the code leaves out on purpose at old versions: `allow_auto_topic_creation` below Metadata 4, `rebalance_timeout_ms` in JoinGroup 0; topic ids presume Metadata 10 | the field is dropped without an error |
| `MeaningTravels` | strings of more than 32767 bytes in versions that are not flexible | the int16 length wraps (`wire.hh:93`) |
| `ChunkingInvisible` | csv texts with a record the reader refuses; archives whose chunks end inside a block; texts beyond `max_buffer_size` | the refusal loses the rows of the same chunk that came before it; a chunk that ends in the padding loses the entries after it; what overflows depends on the chunk |
| `NobodyForgotten`, `WritesEnd` | an open of stdout that overlaps the join of the old thread (`Overlap`) | `unref` moves the thread out and joins it without the mutex, and both threads may then take from one queue (`basic.cc:244`) |
| `NothingOrphaned` | a stop: the abort of a backoff of `auto_retry_input`, and its close; the close of a drained broker; the close of a drained `processed_input` | the batch of the aborted backoff and the replay queue are destroyed with their acks (`io.cc:1070`, `io.cc:1114`); so are the batches a broker has parked (`io.cc:942`); and the pieces `processed_input` has parked, whose source is then never told (`io.cc:552`), though `io.cc:350-354` says of the like case that a client's connection hung on it and `transaction.hh:3-6` that a parent is resolved exactly once |
| `NothingOrphaned` (the buffer) | an abort that finds the filler waiting for room; processors of the policy that throw | the batch in hand (`io.cc:766-770`) or the assembled one (`io.cc:715-721`) is dropped after its source was acked |
| `DrainEnds` | a `stdin` nobody types at, a websocket dialled too late | `::read` has no abort (`io.cc:120`); `close()` has found no connection to close, and the pump of the new one runs while its peer keeps it open |
| `WritesEnd` (the output brokers) | children that batch by count without a period, under any pattern but the parallel fan-outs; these too once a forced stop has cut a retry short (`Starved`) | the limit a pattern reports, which is that of its children or their number, lets in fewer writes than such a child waits for (`outputs.cc:397`, `430`, `376`, `474`, `566`): all of them stay parked, and the output fiber with them, until the stream is forced |
| `TreeKeepsMessages` | messages that unarchive to nothing (`[]`, `{}`, no document) | they vanish from the batch and are acked (`processors.cc:104-136`), as if a filter had taken them; json_documents that break off give the documents before and then the whole message with the error (`processors.cc:64-74`) |
| `TreeKeepsMessages` (`SaidIsSo`) | a branch that fails on a message in error already; a result mapping that lays a failed result over the message | the workflow records it as succeeded: it looks only whether an error is new (`processors.cc:605-608`), and the error of the result is not carried over (`processors.cc:506-530`) |
| `EndIsTrue` | a later source of a sequence that does not connect, a stdin that was drained | the input ends with the error (`io.cc:979`), or with a message cut short by the drain |

No property is stated about a few more places: an offer that arrives after a
join is committed for a partition another member owns
(`group_membership.cc:330`); a commit that is retried may arrive after a newer
one (`group_membership.cc:203`); `file_output` counts on one write at a time
(`outputs.cc:271-275`), which a `fan_out` with a batching child does not give
it (`io.cc:173`); and `stdin` reads in a thread of the reactor.

## Not modelled

Configuration, linting, templates, the mapping language and its methods, code
generation, the unit-test runner, printing and the text of metrics: sequential
code without state that outlives a call, or pure I/O, which the repository tests
directly. Of the modelled parts: `file_output`, the avro and `switch` scanners,
texts that reach `max_buffer_size`, byte-size triggers, the grouping of a Kafka
batch by topic, murmur2, the checksum's arithmetic and what compressors do. The
per-part reasons are in `PROJECT.json`.

## Plan

What is modelled covers the parts with state that outlives a call. What is left,
most important first:

1. Theorems about the components of `pipeline` that need no induction over data:
   `NoRequestLost` of `StdoutWriter`, `AtMostTwoWindows` of `RateLimit`,
   `NobodyForgotten` of the output brokers.
2. `file_output` under the output brokers, and two Kafka inputs of one shard in
   one group.
