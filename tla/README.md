# Verification of diet-lambda

diet-lambda is a Lambda extension: a small OTLP collector that runs beside a
function, buffers the telemetry the function's SDK and the platform post to it,
and forwards it to a remote collector. This directory holds TLA+ models of it,
TLC configurations that check them on small instances, and proofs checked by
TLAPS. Paths are relative to the repository (`src/main.rs` is
`src/src/main.rs` from the directory above).

    tlc -workers 2 -config Exporter.cfg MCExporter.tla     # a run, see "Runs"
    tlapm ExporterProofs.tla                               # proofs, also the other ...Proofs.tla

## 1. Inventory

| component | source | state | operations |
|---|---|---|---|
| main | `main.rs` | position in the Extensions API loop, the `CancellationToken`, the watch receiver, the task set of the supervisor | register, subscribe, `next` (INVOKE, SHUTDOWN), `wait_for`, join, report an error |
| supervisor, signal | `main.rs:98-108, 155-162` | tasks still joined for | join a task and cancel the rest on an error; cancel on SIGTERM |
| server | `server.rs`, `server/{http,grpc,telemetry}.rs` | listening sockets, open connections, clones of the channel's sender | bind, four OTLP handlers over HTTP and four over gRPC, the telemetry handler, graceful shutdown |
| exporter | `exporter.rs` | mpsc channel, four buffers and their size, the tracker of send groups, the watch sender, an LRU cache from request ID to trace ID | receive telemetry, receive `Flush`, periodic flush, final export, send, notify |
| settings | `settings.rs` | the interval, the settings file in `/tmp` | fetch, write, wait for the tick or the cancellation |
| Extensions and Telemetry API | `requests/*.rs` | none | the HTTP requests of `main` |
| logs | `logs.rs` | none | one Lambda log record to one OTLP log record |
| listener | `util.rs` | two sockets | bind both, accept from either |
| detection, configuration | `detector*.rs`, `env.rs` | none after start | environment to resource and configuration |

Interactions. Everything runs on one `current_thread` runtime, so a task is
atomic between two awaits. The handlers send to the exporter through an
unbounded mpsc channel and never wait. `export` spawns a tracked task per
export, which joins the concurrent HTTP sends of that export and then writes the
ID of the export into a watch channel. `main` waits on that channel after every
INVOKE. One cancellation token connects `main`, the supervisor, the signal
task, the server, the exporter and the settings task.

What is hard here, and the property that goes with it:

| component | behaviour | what makes it correct |
|---|---|---|
| exporter | four kinds of export empty the same buffers while messages queue and older sends are in flight | no item lost silently or exported twice (`ExactlyOnce`); the size follows the buffers (`BufferedIsSize`) |
| exporter | order of telemetry, its flush, its export and its notification, over three concurrent kinds of task | `FlushCovers`, `NotifySound`; for the whole process `FlushSettles` |
| exporter, main | a watch channel keeps only its last value; it is overwritten by groups that end in any order | `InvokeReturns`, `OneFlushAtATime` |
| main, supervisor | a ring of joins at shutdown, with SHUTDOWN, SIGTERM and failures racing | `ShutdownCompletes`, `ServerFailureStops`, `GracefulExit` |
| server | a telemetry batch is several messages and is decoded all or nothing | `FlushCovers`, `InvokeReturns` |
| exporter | an interval that every iteration of the loop makes anew, and messages that go first | `HeldOnlyByMessages`; `FlushesSpaced` is refuted |
| exporter, logs | logs are correlated with spans that may come earlier, later, or be evicted from a cache that outlives the export, by an ID that may be any string | `Remembers`, `SameExportCorrelates`, `TracesAreOwn` |
| settings | a file rewritten under readers, with failing fetches and writes, freezes, kills and restarts | `WholeUnlessFailed`, `ReadersAdvance`, `FetchesSpaced`, `Refreshes`, `StopsWhenCancelled` |
| listener | two sockets polled by one future, woken by wakers it must leave behind | `AcceptsAll` |
| configuration, detection | a precedence of variables that two components each apply | `ServiceNameAgrees` |

`PROJECT.json` lists the hazards, each with its line and its properties.

## 2. Modules

| module | what it is |
|---|---|
| `Exporter` | the channel, the exporter task, the send groups and the watch channel, in an environment that may call any handler, cancel, drop the senders or end the runtime at any time |
| `TelemetryLedger` | the abstract specification of the exporter: the status of each item, the phase of each flush; no channel, no buffer, no tasks |
| `Extension` | EXTENDS `Exporter` and closes it: `main`, supervisor, signal task, server and connections, the settings task's share in the shutdown, and the Lambda platform around them |
| `FlushTimer` | the clock and the interval of the periodic flush, without what is flushed |
| `Correlation` | the trace and span ID of each log record, from its parsing through the exporter's LRU cache to its export |
| `Settings` | the settings task with the collector, the threads that write the file, the libraries that read it, and the end and restart of the process |
| `MultiListener` | the server's accept future over N sockets, with tokio's readiness and wakers |
| `Resources` | from the environment to the configuration and the attributes of exported resources |
| `MCExporter`, `MCExtension`, `MCCorrelation` | kinds and sizes of items, log records and spans of the TLC instances |
| `ExporterProofs`, `LedgerProofs` | theorems about `Exporter`: its invariants, and that it implements `TelemetryLedger` |
| `ExtensionProofs` | theorems about the process |
| `FoldProofs` | what folds over finite sets and over the indices of a sequence compute |
| `BufferProofs` | theorems about the size of the buffer, in the exporter and in the process |
| `CorrelationProofs` | theorems about `Correlation` |
| `FlushTimerProofs`, `SettingsProofs` | theorems about `FlushTimer` and `Settings` |

Correspondence with the code (line by line in `PROJECT.json` under "map"):

* `queue` is the mpsc channel. An `Item` is the content of one OTLP request; an
  element of `Request` is a `Flush(id)`. Payloads are reduced to their kind (which
  buffer) and their `encoded_len` (the buffer's limit). `senders` says whether a
  sender is alive.
* `held`, `buffered` are the four buffers of `State` and `State.buffered`;
  `exports` numbers the calls of `export`, and `groups` are the tasks in `tracker`,
  each with its outstanding sends. `watch` is the value of the watch channel.
* `xpc` is where the exporter task is. `run_until_cancelled` gives up at once when
  the token is already cancelled, and otherwise prefers its future over the token:
  the state `"stopping"` is the first case; in state `"receiving"` a message that is
  there is received even if the token has been cancelled since. As the check
  follows the previous message without an await, it is in the action that
  handles that message (`Iterate`).
* `Submit` is a handler: its messages enter the channel together, as there is no
  await between the sends. When the receiver is gone the sends fail, the
  handler ignores it and answers 200; the item's fate is then `"unread"`.
* `SendCompletes` covers a response of any status (`send` returns `Ok`) and a
  failed request (the error is logged). Neither is retried.
* `Finish` drops the receiver and what is queued; `DropRuntime` drops every task.
* `accepted`, `flushed`, `owed`, `fate` are history variables: no action reads
  them but to decide which new items and requests there are.
* In `Extension`, `mpc` is where `main` is. `LoopHead`, `NextInvoke` and the
  `Wait...` actions follow `main.rs:111-134` with the check of the token
  before each await. `Join` is the supervisor with its cancel on a task's error.
  `conns` holds a request from its first byte to the run of its handler.
  `Dispatch`, `FunctionEnds` and `Telemetry` are Lambda, which is not under `src/`: a classic runtime works on
  one request at a time and starts the next one only when the extension asked for
  its next event; a managed one works on several and sends no INVOKE.
* An element of `Request` is one invocation, and `IdOf` gives its request ID: Lambda retries an
  asynchronous invocation under the same ID. `main` compares IDs (`Notified`). Where a property needs that
  no invocation is retried, the theorem says `UniqueIds`; the runs have a unique ID per
  invocation.
* In `FlushTimer`, `channel` is the mpsc channel again and `Send` one poll of a handler: any number of them
  may come in one tick, and one may send several messages (logs and the flushes of a batch). The exporter
  is never late: time passes only when it has nothing to do. `heard` and `quiet` are history.
* `Correlation` looks inside the items `Exporter` moves. Its `Export` is the same `export`;
  it may happen at any time, since which of its causes made it does not matter here.
  A trace ID field is one of the cases the code tells apart (16 bytes, none, any
  other length), `Absent` is `None` and `Empty` is `Some(vec![])`: an empty
  `traceId` in a JSON record is not replaced by the request ID. A `requestId` is any string the function
  writes: of 16 bytes (`Word`), none, or another length (`RequestId`, to which those of AWS belong); it is the
  same for the second word of a line and for the attribute of a span, whose value is a key of the cache
  (`Key`). A record with a field that does not decode is rejected, or taken as text when it is
  in a line. `push` and `Used` are the
  `lru` crate's `push` and `get`. `latest` and `since` are history, updated
  without the cache; `sent` shows one export and is emptied by the next arrival.
* In `Settings`, `left` is the time to the deadline of the interval and `age`, history, the time since
  the last fetch began, both saturating, so time is unbounded and may pass between any two steps (a freeze
  is much of it at once). `SLACK` are the 5 ms that tokio's `Interval` forgives before it
  applies `MissedTickBehavior::Delay`. `fs::write` is a job of a blocking thread
  (queued, open and truncated, returned), which `DropRuntime` waits for if it
  has begun and forgets if not. `Kill` ends it anywhere; `/tmp`
  survives, and `Restart` finds the file as it was.
* `Extension!SettingsEnds` is what `Settings` is to the rest: a task that ends after a
  cancellation, with its write done. `StopsWhenCancelled` and `Refreshes` justify its fairness and its guard.
* In `MultiListener` a poll of the future is one action, as nothing else runs on the thread; `Waiting`,
  `Registered` and `StillReady` are tokio's `poll_accept` on the sockets asked.
* In `Resources` the variables of the environment are chosen by `Init`; `Send` is
  the call of `augment` by `send`.

Left out as data: what is inside an item but for the above, encodings,
compression, content negotiation, the bodies and codes of responses, logging.

## 3. Runs

Passing runs:

| run | question | instance |
|---|---|---|
| `exporter` | Is anything lost or exported twice, is a notification early, does the exporter implement the ledger - in any environment? Also the inductive invariant of the proof. | a trace of size 2, a log and a profile of size 1, limit 3; two requests; one periodic flush |
| `extension_classic` | Does the notification `main` waits for mean that the telemetry of the invocation is settled; can flushes of two invocations overlap; is anything received dropped by a graceful exit; is the exporter in the process a behaviour of `Exporter`; does `main` always return from its wait? Also the two inductive invariants of the proofs, `ExtensionInv` and `SettleInv`. | two invocations with an ID each, a trace and a log, no overflow |
| `extension_managed` | Does the process always end after SHUTDOWN, SIGTERM or a server that cannot bind, amid overflow and periodic exports; is anything the exporter received dropped when `main` ends with `Ok`? (What was accepted but not yet read from the channel may be left unread, and an exit with an error drops what is buffered: nothing in the repository promises otherwise.) | managed runtime, one request, a trace and a log that overflow together, one periodic flush |
| `correlation` | Does the cache keep what an LRU cache promises; can a log get another invocation's trace; does the order of logs and spans within an export matter? Also the inductive invariant of the proof, `CorrelationInv`. | twelve forms of records, six of spans, two requests and a word over two entries, a third request without a usable span, two traces, up to four arrivals between exports, any number of exports |
| `settings` | Can a library see settings go back, can a cancellation leave a torn file, are fetches spaced after freezes, does a failure end the task, does a cancellation? Also the inductive invariant of the proof. | period 5, slack 1, three versions of the settings |
| `timer_held` | What puts the periodic flush off - only messages in every single tick, or more, since each message makes a new interval? | period 5 ticks, any messages in any tick, up to 3 queued, 20 ticks |

Runs that show a disagreement between the code and its comments, each with one
property that TLC finds violated:

| run | what it shows |
|---|---|
| `overflow_wait` | A buffer overflow exports for no request and announces `None`. When that group ends after the flush's group, `None` replaces the request ID before `main` has looked, and `main` waits for ever. `main.rs:120-123` says the notification cannot be missed. |
| `overflow_flush` | The flush of a request joins only the sends of its own export. Telemetry an overflow exported shortly before may still be on its way when `main` is told the request was flushed, so Lambda may freeze the process with it. |
| `undecodable_batch` | The telemetry handler decodes a batch as one value. A function record that does not decode rejects the batch together with its `platform.runtimeDone`; no flush is sent and `main` waits until SHUTDOWN or the timeout of the platform. |
| `timer_spaced` | The interval is made inside the loop and its first tick is due at once, so an idle exporter of a managed runtime flushes with every tick of the timer instead of every 60 seconds. (`export` of empty buffers sends nothing; the cost is the wakeups, and telemetry is exported nearly item by item.) |
| `listener_stalls` | `accept(2)` fails on one socket (no file descriptor left, an aborted connection) while the other has no connection. `poll_accept` has registered no waker for the failed one, and `accept` returns `Pending` all the same: the server is parked with a connection in its backlog until another one comes. Without errors the property holds. |
| `service_name` | `Config::parse` follows the precedence of `README.md:11`, the resource detector leaves the service key out of it. With a key and no `OTEL_SERVICE_NAME`, the settings are those of one service and the function's logs are exported under another. |

Observed while modelling, without a run of its own:

* A retried invocation whose ID the watch channel still shows, as no other was flushed in between, is
  not waited for: `wait_for` looks at the current value first (`main.rs:124`), so `main` asks for the next event
  before the retry has run. This is why `OneFlushAtATime`, `SettleInv` and `FlushSettles` assume `UniqueIds`.
* A string of 16 bytes where a request ID belongs - a `requestId` of the function's own, a logger's name
  after an RFC 3339 time - is exported as a trace ID, since `exporter.rs:295` goes by the length, although
  the comment at `exporter.rs:303` wants no invalid trace ID left in. It is the third case of `TracesAreOwn`.
* Messages in every tick of the timer put the periodic flush off for as long as they come, up to a full buffer,
  whatever `INTERVAL` is, because a message that is ready goes before the interval and begins a new one.
  `HeldOnlyByMessages` says that nothing else does.

A log whose request is not found loses its trace ID but keeps the span ID it may
have. A resource that is absent from an OTLP request is not augmented.

Why the bounds are enough. The exporter's cases are decided by how an item's
size compares with the room left (below, at, above the limit), by which kind of
export takes it, and by which two groups are alive together. The instance has a
single item below the limit, pairs that reach it exactly or stay below, two
flushes, one overflow, one periodic and one final export; three kinds of group
then end in every order. `MaxExports` stops periodic flushes only: every other
export consumes a message or ends the task. Two requests let a notification of one invocation
meet the wait of the next. No unbounded counter is left: `exports` grows with
messages, which are finite. The theorems of section 4 remove these bounds for the
invariants. `FlushTimer` has four periods of time, and a state depends on time
differences of one; three messages are logs with two flushes in one batch, or three handlers in one tick.

`correlation`: one entry less than there are keys with usable spans makes every eviction happen, within an export (three
spans and a log) and across exports; the state of cache and history is
finite, so any number of exports is covered. The records are the ways the sources
of a trace ID can be present, absent, empty or undecodable, not all their products. `settings` has no bound but
the versions; three are enough for one read, one in the file and one being
fetched. `listener_stalls` and `service_name` need one step past the smallest case only.

The shutdown of a classic runtime differs from that of a managed one only in that `main` may be waiting
for a notification; `InvokeReturns` in `extension_classic` shows that it leaves this wait,
on a cancellation too, and `extension_managed` does the rest.

Deadlock is checked for the extension (the exited process stutters explicitly),
for `correlation`, `settings` and the two runs of `FlushTimer`. It is off for `exporter`, whose environment may stop,
for `listener_stalls`, where no client need
connect, and for `service_name`, where a process without a service name ends.

Fairness (`Extension!Fairness`): weak fairness of `main`, the supervisor, the
settings task, the exporter, the send tasks and the server, since a ready task
is polled by the runtime; weak fairness of the handlers (a client completes the
request it began; hyper drops broken connections), of `FunctionEnds` (Lambda ends
an invocation by its timeout) and of the posting of `runtimeDone` records (the Telemetry API's
delivery). For sends it means that the collector answers or the
connection breaks: the client sets no timeout, so a collector that accepts and never
answers blocks `main` - the liveness results are relative to this. Nothing is
assumed of invocations, SHUTDOWN, SIGTERM or failures: they may never happen.
Main's failing requests and registration are not fair either.
`Settings` assumes that the task is polled, blocking threads run and time passes, and nothing of the collector:
`Refreshes` and `StopsWhenCancelled` hold with one that never answers. `MultiListener` assumes that a
woken future is polled, and nobody connects of necessity.

Each property of a passing run has a mutant in `PROJECT.json`: a change of the model that a plausible
slip in the code would make, with which TLC refutes the property. The mutated operators stand before
the definition they replace.

## 4. Proofs

### The exporter

`ExporterProofs` proves, for any finite set of requests, any items of any kinds
and sizes, any positive `MAX_BUFFERED`, classic and managed, and in any environment:

| theorem | statement |
|---|---|
| `TypeCorrect` | `Spec => []ExporterTypeOK`; among it, the buffer is below the limit whenever the exporter waits |
| `InvHolds` | `Spec => []ExporterInv` |
| `ItemsExactlyOnce` | `Spec => []ExactlyOnce` |
| `FlushesCover` | `Spec => []FlushCovers` |
| `NotificationsSound` | `Spec => []NotifySound` |

The only assumption is `ExporterAssumption` of `Exporter`: what an item and its
size are, and that items, request IDs, `None` and the empty ID are distinct.

The argument. None of the last three is inductive. `FlushCovers` needs
`OwedAhead`: what is owed to a queued flush is ahead of it in the channel, so
that the flush finds it in the buffer or already exported. It is kept by a
handler because a batch is new (`AcceptedFirst`, `QueueInv`) and has its items before
its flushes (lemma `HandlersSendBatches`), and by a receive because `Tail` keeps
the order (lemma `ReceiveHead`). `ExactlyOnce` needs that an export's sends
partition what it takes (lemma `SendsPartition`) and that a new group is not one
of the present ones (`GroupInv`, through the number of the export).
`NotifySound` needs that a request has one group at most (`GroupInv`), which holds
since its flush is in the channel once (`QueueInv`). `EndInv` says that
nothing is left in a task that ended, for the items lost by `Finish` and
`DropRuntime`. `ExporterInv` is the conjunction; there is a lemma per action.

### The exporter and the ledger

`LedgerProofs` proves `ExporterImplementsLedger`: `Spec => ImplementsLedger`. Each action of
`Exporter` is shown to be one of the ledger's or a stutter under the mapping that the instance in
`Exporter` states: a submission accepts, each of the four exports moves what it takes to a group of its own,
a send settles its items, the end of a group announces its request and may
hide the one shown, `Finish` and `DropRuntime` lose what is left. The
invariant that the steps need is `ExporterInv`: without `OwedAhead` a flush might leave behind what it
owes, and without `GroupInv` the end of a group might announce a request whose sends another one holds.

### The size of the buffer

`BufferSizeExact`: `Spec => []BufferedIsSize`. `MapThenSumSet` is defined by a function that recurs on
subsets. `FoldProofs` shows first that such a function exists and is unique, then that a sum
does not depend on the order in which its elements are taken (`TotalRemove`, `TotalAdd`). The prover has
no induction rule to instantiate, so each induction is the choice of a least counterexample in the
well-founded order of the subsets of a finite set (`SubsetInduction`, from `WFMin`). `BufferProofs`
needs besides that an item received is not in the buffer already, which is in `ExporterInv`.

### The process

`ExtensionProofs` and the end of `BufferProofs` prove, for the process with any requests, items and
batches, with any failures, clients and signals, and without fairness (`SafeExtensionSpec`):

| theorem | statement |
|---|---|
| `ExtensionImplementsExporter` | `SafeExtensionSpec => ImplementsExporter`: the process is an environment of the exporter, so every theorem about `Exporter` holds in it |
| `ExtensionInvHolds` | `SafeExtensionSpec => []ExtensionInv` |
| `ExtensionTypeCorrect` | `SafeExtensionSpec => []ExtensionTypeOK` |
| `ExitsGracefully` | `SafeExtensionSpec => []GracefulExit` |
| `FlushesOneAtATime` | no retries: `SafeExtensionSpec => []OneFlushAtATime` |
| `SettleInvHolds` | classic, no retries: `SafeExtensionSpec /\ [][~Overflows]_vars => []SettleInv` |
| `FlushesSettle` | classic, no retries: `SafeExtensionSpec /\ [][~Overflows]_vars => []FlushSettles` |
| `SmallTelemetrySettles` | classic, no retries, all items together below `MAX_BUFFERED`: `SafeExtensionSpec => []FlushSettles` |

The assumptions are `ExporterAssumption` and `ExtensionAssumption`: besides those on items, that
undecodable batches are of requests and that `None` is none of the outcomes of `main`. "No retries" is the
hypothesis `UniqueIds`: invocations have different request IDs. Lambda's retries of asynchronous invocations
break it, see "Observed while modelling".

The argument. That the process implements `Exporter` is not only that its actions conjoin
those of `Exporter`: `Exporter` lets a handler post only what is new, the process lets a
handler post what its connection carries. `ConnsInv` says that a message is on one connection at most and on none
once accepted; `PlatformInv` that a request's record is on its way only after
its invocation. `LifeInv` ties the positions of `main`, the supervisor and the tasks
together: the sender outlives the server, the exporter is joined only when it is done, and it drains
only after a cancellation or the end of the senders; from it follows that nothing is dropped when
`main` ends with `Ok` (`GracefulExit`). `OneFlushAtATime` is not inductive: it speaks of `main` asking
for the next event, and the state before, `main` waiting, decides. `TurnsInv` has both, and that of any two requests
invoked, one is over; it holds because `main` leaves its wait only on the value of the watch channel, which
`NotifySound` ties to the flush handled, and which is of the invocation awaited when IDs are unique.

`FlushSettles` is false with an overflow (`overflow_flush`). Without one, `SettleInv` says that every
group of the loop is a request's and that what a request is owed is settled or in its own
group; `TurnsInv` makes sure that no other request's group holds it. The hypothesis `[][~Overflows]_vars`
is about the behaviour; `SmallTelemetrySettles` has one on the constants instead, from which `BufferedIsSize` and
monotony of sums give that no overflow happens.

### The periodic flush

`FlushTimerProofs` proves `HeldByMessages`: `Spec => []HeldOnlyByMessages`, for every period, horizon and
bound of the channel, with no assumption on how far apart messages are. The interval that an iteration makes is due at
the next tick, so telemetry is held only by a message in every tick since its own; with these it is held
without end, and no bound in terms of `INTERVAL` can be proved. `TimerInv`: the deadline is at
most a tick away; what is buffered came no later than the last message received, and the interval made on its receipt is
the current one, so no tick is over before it is due.

### The correlation of logs

`CorrelationProofs` proves, for any capacity of the cache, any records and spans, and any number of exports of any size:

| theorem | statement |
|---|---|
| `CorrelationInvHolds` | `Spec => []CorrelationInv` |
| `CorrelationTypeCorrect` | `Spec => []CorrelationTypeOK`; among it, the cache never exceeds its capacity and never holds a request twice |
| `CacheRemembers` | `Spec => []Remembers` |
| `TracesAreTheirOwn` | `Spec => []TracesAreOwn` |
| `OneExportCorrelates` | `Spec => SameExportCorrelates` |

The assumption is `CorrelationAssumption`: the capacity is at least one, and the values of an ID field are told apart
by their lengths as in the code. It restricts neither what the function writes into `requestId`, `traceId` or `spanId`
nor the attributes of spans: any length, and fields of the wrong type. A `Word` is 16 bytes that are no
trace ID; that a log which goes by one leaves with it is one of the cases of `TracesAreOwn`.

The argument. `Remembers` speaks of one request at a time and is not inductive: which request the next `push`
evicts is decided by the order of the entries. `Agree` has the order: the requests used since that of an entry are
exactly those of the entries behind it, and a request that was evicted has seen all of a full cache. A use moves
one entry to the end (`IsMoved`, both for `push` and for `get`) and enters it in the history of all others, so it
keeps `Agree` (`MovedAgrees`). With `Agree`, the number of requests used since is the number of entries
behind, hence below the capacity just for the requests in the cache (`RememberedIsCached`); this is also why the loop over
the logs, which evicts nothing, finds each request where the spans left it. `TracesAreOwn` then
follows from what `parse` makes of the ID a record goes by (`ParsedFrom`). For `SameExportCorrelates`, a request traced in the export has seen
only the others traced in it since the last of its spans (`LastSpanIsLatest`), fewer than the
capacity (`TracedIsRemembered`).

`Export` is four folds over sequences. `FoldLeft` is a function that recurs on sets of indices and takes the
greatest one out; `FoldProofs` turns it into a run, a function from `0 .. Len(s)` with one step per
element (`FoldIsRun`), along which a property is carried by `IntervalInduction`.

### The settings task

`SettingsProofs` proves, for any period, any slack below it and any number of settings, with freezes,
failures, cancellations, kills and restarts at any point:

| theorem | statement |
|---|---|
| `SettingsInvHolds` | `Spec => []SettingsInv` |
| `SettingsTypeCorrect` | `Spec => []SettingsTypeOK`; among it, one write of the file at a time |
| `NeverTornByCancellation` | `Spec => []WholeUnlessFailed` |
| `FetchesAreSpaced` | `Spec => FetchesSpaced` |
| `ReadersNeverGoBack` | `Spec => ReadersAdvance` |

The only assumption is `SettingsAssumption` of `Settings`: the range of the period and the slack,
and that the markers for no reply, failure, no file and a torn file are distinct from settings.

The argument. `WriteInv`: there is a write only while the task waits for it, or after its end, and an
answer only while it fetches, so two writes cannot overtake each other. `TornInv`: an open file has a writer, unless a
write failed or was killed; with `WriteInv` that gives `WholeUnlessFailed`. `TimeInv`: the deadline and
the time since the last fetch move together, so that a tick, which needs a deadline that has passed,
comes a period later; `MissedTickBehavior::Delay` keeps it after a late tick. `OrderInv`: what was read, the file, the answer
or the write under way and the collector's settings stand in this order, which every step that
passes settings on keeps.

### What is only model-checked

Liveness and everything under fairness: `InvokeReturns`, `ShutdownCompletes`, `ServerFailureStops`,
`Refreshes`, `StopsWhenCancelled`, `AcceptsAll`; the provers have no rules for it here. Every invariant and every
other action property of the passing runs is proved. `ServiceNameAgrees` and `FlushesSpaced` are refuted, not proved;
`FlushSettles` is proved without overflow and refuted with one.

## 5. Not modelled

* Of `logs.rs`: time, severity and body of a record, data no other part looks at. Of `env.rs`: the
  endpoints, the names of the Lambda APIs and the compression, strings put together once at the start.
* Content negotiation of the HTTP and gRPC handlers, which changes no state.
* The size of the LRU cache counts requests; what they take in memory is not modelled.
* Bodies of responses (`OtlpResponse::log`) only reach the log output.
* Memory exhaustion: the channel is unbounded in the code and in the model.
* Freezing of the process by Lambda: it stops all actions alike, so it adds no
  behaviour; what it may catch in flight is what `FlushSettles` is about.
* SIGKILL and crashes of the exporter: none of its state survives them; `DropRuntime`, allowed in every
  state of `Exporter`, stands for them. (The settings file survives, see `Settings`.)
* Dockerfile, Cargo files and workflows have no run-time behaviour.

## 6. Plan

Done, in this order: `Exporter`, `TelemetryLedger`, `Extension`, `FlushTimer`,
the exporter's invariants proved; beside them `Correlation`, `Settings` with its proofs,
`MultiListener`, `Resources`.

Then proved: `Spec => Ledger!Spec` for the exporter; `SafeExtensionSpec => Spec`, which moves the theorems
into the process; from there `OneFlushAtATime`, `GracefulExit` and `FlushSettles` without overflow;
`BufferedIsSize`; `HeldOnlyByMessages` for every period; the properties of `Correlation`, with runs of its four loops.

Next: a safety part of the listener and of the configuration that holds with failing sockets and without a
service name, and a theorem for it.
