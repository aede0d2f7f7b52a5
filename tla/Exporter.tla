------------------------------ MODULE Exporter ------------------------------
(***************************************************************************)
(* The exporter of diet-lambda (src/src/exporter.rs): the unbounded mpsc   *)
(* channel between the server's handlers and the exporter task, the task's *)
(* loop, the groups of concurrent HTTP sends each export() spawns, and the *)
(* watch channel through which a finished group announces the invocation   *)
(* whose telemetry it flushed.                                             *)
(*                                                                         *)
(* The runtime is single threaded (main.rs builds a current_thread         *)
(* runtime), so one action is everything a task does between two awaits.   *)
(* What the module leaves open - who calls the handlers, when the token is *)
(* cancelled, when the process ends - is an action of the environment at   *)
(* the end of the module; Extension.tla closes it.                         *)
(***************************************************************************)
EXTENDS Naturals, SequencesExt

CONSTANTS
    Item,         \* the OTLP requests handed over by the handlers
    KindOf,       \* the ServiceRequest variant of each item
    Size,         \* the item's encoded_len()
    Request,      \* Lambda request (invocation) IDs
    Tick,         \* the empty ID of a periodic flush
    None,         \* Option::None
    MaxBuffered,  \* MAX_BUFFERED
    Managed,      \* config.managed
    MaxExports    \* bound: no periodic flush once this many exports started

Kind == {"traces", "metrics", "logs", "profiles"}

ASSUME ExporterAssumption ==
    /\ KindOf \in [Item -> Kind]
    /\ Size \in [Item -> Nat \ {0}]
    /\ IsFiniteSet(Request)
    /\ Item \cap Request = {}
    /\ {Tick, None} \cap (Item \cup Request) = {}
    /\ Tick # None
    /\ MaxBuffered \in Nat \ {0}
    /\ Managed \in BOOLEAN
    /\ MaxExports \in Nat

VARIABLES
    queue,      \* the mpsc channel, oldest first; a request ID is a Flush(id)
    senders,    \* some clone of tx is still alive
    cancelled,  \* the CancellationToken
    xpc,        \* where the exporter task is
    held,       \* state.traces, .metrics, .logs and .profiles
    buffered,   \* state.buffered
    exports,    \* how many times export() ran
    groups,     \* the tasks state.tracker still tracks
    watch,      \* the value of the watch channel
    \* History:
    accepted,   \* items whose sender was told they were taken
    flushed,    \* requests whose Flush was handed to the channel
    owed,       \* what had been accepted when a request's Flush was handed over
    fate        \* what became of each item in the end

channel == <<queue, senders>>
state   == <<held, buffered, exports, groups>>
history == <<accepted, flushed, owed, fate>>
exporterVars == <<channel, cancelled, xpc, state, watch, history>>

Fate == {"pending",    \* not decided yet
         "delivered",  \* the collector answered
         "failed",     \* the send returned an error, which is only logged
         "unread",     \* dropped with the channel, never received
         "abandoned"}  \* dropped with the runtime, in the buffer or mid-send

(***************************************************************************)
(* ServiceRequest: a batch of telemetry, or Flush(id).                     *)
(***************************************************************************)
ServiceRequest == Item \cup Request

Group == [n : Nat, id : Request \cup {Tick, None}, sends : SUBSET SUBSET Item]

QueuedItems  == ToSet(queue) \cap Item
QueuedFlushes == ToSet(queue) \cap Request
ItemsOf(g)   == UNION g.sends
SendingItems == UNION {ItemsOf(g) : g \in groups}
-----------------------------------------------------------------------------
(***************************************************************************)
(* What an export spawns: one send() for the traces, one for the metrics,  *)
(* one for the logs and one for each buffered profile.  A send() of an     *)
(* empty request returns at once and is left out.                          *)
(***************************************************************************)
Sends(items) ==
    LET OfKind(k) == {i \in items : KindOf[i] = k}
    IN  ({OfKind(k) : k \in Kind \ {"profiles"}} \ {{}})
            \cup {{i} : i \in OfKind("profiles")}

\* export() that sends the buffers without taking them.
ExportKeepingBuffer(id, items) ==
    /\ groups' = groups \cup {[n |-> exports, id |-> id, sends |-> Sends(items)]}
    /\ exports' = exports + 1
    /\ held' = items
    /\ buffered' = 0

\* export() that leaves state.buffered as it is.
ExportKeepingSize(id, items) ==
    /\ groups' = groups \cup {[n |-> exports, id |-> id, sends |-> Sends(items)]}
    /\ exports' = exports + 1
    /\ held' = {}
    /\ UNCHANGED buffered

(***************************************************************************)
(* export(&mut state, &config, id): the buffers are taken and their sends  *)
(* spawned as one tracked group, which will announce id.                   *)
(***************************************************************************)
export(id, items) ==
    /\ groups' = groups \cup {[n |-> exports, id |-> id, sends |-> Sends(items)]}
    /\ exports' = exports + 1
    /\ held' = {}
    /\ buffered' = 0

(***************************************************************************)
(* The head of the exporter's loop.  run_until_cancelled refuses to poll   *)
(* its future when the token is already cancelled; otherwise it polls, and *)
(* from then on prefers a received message to the cancellation.  The check *)
(* follows the handling of the last message without an await in between,   *)
(* so it is part of the action that handled it.                            *)
(***************************************************************************)
Iterate == xpc' = IF cancelled THEN "stopping" ELSE "receiving"

\* The spawned task is polled for the first time.
Start ==
    /\ xpc = "starting"
    /\ Iterate
    /\ UNCHANGED <<channel, cancelled, state, watch, history>>

\* Buffered past the limit by a message before it is noticed.
ReceiveTelemetryLate ==
    /\ xpc = "receiving"
    /\ queue # <<>>
    /\ LET i == Head(queue)
           size == buffered + Size[i]
       IN  /\ i \in Item
           /\ IF size > MaxBuffered
              THEN export(None, held \cup {i})
              ELSE /\ held' = held \cup {i}
                   /\ buffered' = size
                   /\ UNCHANGED <<exports, groups>>
    /\ queue' = Tail(queue)
    /\ Iterate
    /\ UNCHANGED <<senders, cancelled, watch, history>>

(***************************************************************************)
(* A Trace, Metrics, Logs or Profiles message is buffered; a buffer that   *)
(* has reached MAX_BUFFERED is exported for no request in particular.      *)
(***************************************************************************)
ReceiveTelemetry ==
    /\ xpc = "receiving"
    /\ queue # <<>>
    /\ LET i == Head(queue)
           size == buffered + Size[i]
       IN  /\ i \in Item
           /\ IF size >= MaxBuffered
              THEN export(None, held \cup {i})
              ELSE /\ held' = held \cup {i}
                   /\ buffered' = size
                   /\ UNCHANGED <<exports, groups>>
    /\ queue' = Tail(queue)
    /\ Iterate
    /\ UNCHANGED <<senders, cancelled, watch, history>>

\* Nothing is exported for a request, nor announced, when nothing is buffered.
FlushUnlessEmpty ==
    /\ xpc = "receiving"
    /\ queue # <<>>
    /\ Head(queue) \in Request
    /\ IF held = {} THEN UNCHANGED state ELSE export(Head(queue), held)
    /\ queue' = Tail(queue)
    /\ Iterate
    /\ UNCHANGED <<senders, cancelled, watch, history>>

\* A Flush(id) message exports whatever is buffered.
ReceiveFlush ==
    /\ xpc = "receiving"
    /\ queue # <<>>
    /\ Head(queue) \in Request
    /\ export(Head(queue), held)
    /\ queue' = Tail(queue)
    /\ Iterate
    /\ UNCHANGED <<senders, cancelled, watch, history>>

(***************************************************************************)
(* Managed runtimes only: no message is ready and the interval is, which   *)
(* the loop treats as Flush("").  The interval is made anew by every       *)
(* iteration (FlushTimer.tla models its time), so it may be ready whenever *)
(* the exporter waits.                                                     *)
(***************************************************************************)
PeriodicFlush ==
    /\ Managed
    /\ xpc = "receiving"
    /\ queue = <<>>
    /\ senders
    /\ ~cancelled
    /\ exports < MaxExports
    /\ export(Tick, held)
    /\ UNCHANGED <<channel, cancelled, xpc, watch, history>>

(***************************************************************************)
(* No further message: the token was cancelled before this iteration       *)
(* polled ("stopping"), or recv() has nothing and the token is cancelled   *)
(* or every sender is gone.  The buffer is exported, the tracker closed.   *)
(***************************************************************************)
FinalExport ==
    /\ \/ xpc = "stopping"
       \/ /\ xpc = "receiving"
          /\ queue = <<>>
          /\ cancelled \/ ~senders
    /\ export(None, held)
    /\ xpc' = "draining"
    /\ UNCHANGED <<channel, cancelled, watch, history>>

\* The task ends without waiting for the tracked groups.
FinishWithoutWaiting ==
    /\ xpc = "draining"
    /\ xpc' = "done"
    /\ fate' = [i \in Item |-> IF i \in QueuedItems THEN "unread" ELSE fate[i]]
    /\ queue' = <<>>
    /\ UNCHANGED <<senders, cancelled, state, watch, accepted, flushed, owed>>

(***************************************************************************)
(* tracker.wait() returns once every group has ended; the task ends and    *)
(* drops the receiver, and with it what the channel still holds.           *)
(***************************************************************************)
Finish ==
    /\ xpc = "draining"
    /\ groups = {}
    /\ xpc' = "done"
    /\ fate' = [i \in Item |-> IF i \in QueuedItems THEN "unread" ELSE fate[i]]
    /\ queue' = <<>>
    /\ UNCHANGED <<senders, cancelled, state, watch, accepted, flushed, owed>>

\* A send whose outcome is taken for final although it is made once more.
SendRepeated(g, s) ==
    /\ s \in g.sends
    /\ \E outcome \in {"delivered", "failed"} :
          fate' = [i \in Item |-> IF i \in s THEN outcome ELSE fate[i]]
    /\ UNCHANGED <<channel, cancelled, xpc, state, watch, accepted, flushed, owed>>

(***************************************************************************)
(* One of the group's sends ends.  send() answers Ok for any response,     *)
(* whatever its status, and Err when the request itself failed; neither is *)
(* retried, and the items are gone from memory either way.                 *)
(***************************************************************************)
SendCompletes(g, s) ==
    /\ s \in g.sends
    /\ groups' = (groups \ {g}) \cup {[g EXCEPT !.sends = @ \ {s}]}
    /\ \E outcome \in {"delivered", "failed"} :
          fate' = [i \in Item |-> IF i \in s THEN outcome ELSE fate[i]]
    /\ UNCHANGED <<channel, cancelled, xpc, held, buffered, exports, watch,
                   accepted, flushed, owed>>

\* The notification is sent before the group's sends are joined.
NotifyBeforeJoin(g) ==
    /\ watch' = g.id
    /\ UNCHANGED <<channel, cancelled, xpc, state, history>>

(***************************************************************************)
(* The group's JoinSet is empty: notifier.send(id) overwrites the watched  *)
(* value, also with None, and the tracked task ends.                       *)
(***************************************************************************)
GroupFinishes(g) ==
    /\ g.sends = {}
    /\ groups' = groups \ {g}
    /\ watch' = g.id
    /\ UNCHANGED <<channel, cancelled, xpc, held, buffered, exports, history>>
-----------------------------------------------------------------------------
(***************************************************************************)
(* The handlers.  Each hands its messages to the channel with no await in  *)
(* between and ignores the result: when the receiver is gone the messages  *)
(* are dropped and the client is answered 200 all the same.                *)
(***************************************************************************)
Submit(msgs) ==
    LET items == ToSet(msgs) \cap Item
        ids   == ToSet(msgs) \cap Request
    IN  /\ senders
        /\ accepted' = accepted \cup items
        /\ flushed' = flushed \cup ids
        /\ owed' = [r \in Request |-> IF r \in ids THEN accepted \cup items
                                                   ELSE owed[r]]
        /\ IF xpc = "done"
           THEN /\ fate' = [i \in Item |-> IF i \in items THEN "unread" ELSE fate[i]]
                /\ UNCHANGED queue
           ELSE /\ queue' = queue \o msgs
                /\ UNCHANGED fate
        /\ UNCHANGED <<senders, cancelled, xpc, state, watch>>

\* server/http.rs and server/grpc.rs: one message for each OTLP request.
OtlpMessages(i) == <<i>>

\* The telemetry handler with its two sending loops swapped.
FlushesThenLogs(logs, done) == done \o logs

(***************************************************************************)
(* server/telemetry.rs: a batch of Lambda telemetry events becomes at most *)
(* one Logs message, then one Flush for each platform.runtimeDone in it.   *)
(***************************************************************************)
TelemetryMessages(logs, done) == logs \o done

(***************************************************************************)
(* The batches of telemetry events over the given log items and requests:  *)
(* logs is empty or holds one item, done lists distinct requests.          *)
(***************************************************************************)
LogBatches(items) == {<<>>} \cup {<<i>> : i \in {j \in items : KindOf[j] = "logs"}}
DoneLists(requests) == SetToAllKPermutations(requests)

HandleOtlp(i) ==
    /\ i \notin accepted
    /\ Submit(OtlpMessages(i))

HandleTelemetry ==
    \E logs \in LogBatches(Item \ accepted), done \in DoneLists(Request \ flushed) :
        Submit(TelemetryMessages(logs, done))

\* token.cancel(), whoever calls it.
Cancel ==
    /\ cancelled' = TRUE
    /\ UNCHANGED <<channel, xpc, state, watch, history>>

\* The server task and its last connection are gone, and with them every tx.
DropSenders ==
    /\ senders' = FALSE
    /\ UNCHANGED <<queue, cancelled, xpc, state, watch, history>>

(***************************************************************************)
(* main returns and drops the runtime: the tasks are dropped where they    *)
(* are, with whatever they still hold.                                     *)
(***************************************************************************)
DropRuntime ==
    /\ xpc # "dropped"
    /\ xpc' = "dropped"
    /\ senders' = FALSE
    /\ fate' = [i \in Item |-> IF i \in QueuedItems THEN "unread"
                               ELSE IF i \in held \cup SendingItems THEN "abandoned"
                               ELSE fate[i]]
    /\ queue' = <<>>
    /\ held' = {}
    /\ buffered' = 0
    /\ groups' = {}
    /\ UNCHANGED <<cancelled, exports, watch, accepted, flushed, owed>>
-----------------------------------------------------------------------------
Init ==
    /\ queue = <<>>
    /\ senders = TRUE
    /\ cancelled = FALSE
    /\ xpc = "starting"
    /\ held = {}
    /\ buffered = 0
    /\ exports = 0
    /\ groups = {}
    /\ watch = None
    /\ accepted = {}
    /\ flushed = {}
    /\ owed = [r \in Request |-> {}]
    /\ fate = [i \in Item |-> "pending"]

\* The exporter task itself.
ExporterTask ==
    \/ Start
    \/ ReceiveTelemetry
    \/ ReceiveFlush
    \/ PeriodicFlush
    \/ FinalExport
    \/ Finish

\* The tasks export() spawned.
SendTasks ==
    \E g \in groups : GroupFinishes(g) \/ \E s \in g.sends : SendCompletes(g, s)

Environment ==
    \/ \E i \in Item : HandleOtlp(i)
    \/ HandleTelemetry
    \/ Cancel
    \/ DropSenders
    \/ DropRuntime

Next == ExporterTask \/ SendTasks \/ Environment

Spec == Init /\ [][Next]_exporterVars
-----------------------------------------------------------------------------
ExporterTypeOK ==
    /\ queue \in Seq(ServiceRequest)
    /\ senders \in BOOLEAN
    /\ cancelled \in BOOLEAN
    /\ xpc \in {"starting", "receiving", "stopping", "draining", "done", "dropped"}
    /\ held \subseteq Item
    /\ buffered \in 0 .. MaxBuffered - 1
    /\ exports \in Nat
    /\ groups \subseteq Group
    /\ watch \in Request \cup {Tick, None}
    /\ accepted \subseteq Item
    /\ flushed \subseteq Request
    /\ owed \in [Request -> SUBSET Item]
    /\ fate \in [Item -> Fate]

Pending == {i \in accepted : fate[i] = "pending"}

SendsDisjoint ==
    \A g, h \in groups : \A s \in g.sends, t \in h.sends :
        s \cap t # {} => g = h /\ s = t

(***************************************************************************)
(* Every accepted item whose fate is open is in exactly one place - the    *)
(* channel, the buffer or one send - and nothing else is anywhere: an item *)
(* is neither lost silently nor exported twice, whichever of the overflow, *)
(* flush, periodic and final exports takes it.                             *)
(***************************************************************************)
ExactlyOnce ==
    /\ Pending = QueuedItems \cup held \cup SendingItems
    /\ QueuedItems \cap held = {}
    /\ (QueuedItems \cup held) \cap SendingItems = {}
    /\ SendsDisjoint

(***************************************************************************)
(* Once a request's Flush has left the channel, nothing accepted before it *)
(* or in the same batch of events is still in the channel or the buffer:   *)
(* the export made for a request leaves none of its telemetry behind.      *)
(***************************************************************************)
FlushCovers ==
    \A r \in flushed \ QueuedFlushes : owed[r] \cap (QueuedItems \cup held) = {}

(***************************************************************************)
(* The watch channel shows a request ID only when that request's Flush has *)
(* been handled and the group exported for it has no send left: main never *)
(* goes on while a send of the flush it waits for is in flight.            *)
(***************************************************************************)
NotifySound ==
    watch \in Request =>
        /\ watch \in flushed \ QueuedFlushes
        /\ \A g \in groups : g.id # watch

(***************************************************************************)
(* state.buffered is the encoded size of what the buffers hold, whichever  *)
(* exports emptied them, so MAX_BUFFERED bounds the memory they take.      *)
(***************************************************************************)
BufferedIsSize == buffered = MapThenSumSet(LAMBDA i : Size[i], held)

(***************************************************************************)
(* The inductive strengthening of the three invariants above.              *)
(***************************************************************************)
\* No message is in the channel twice; its flushes were handed to it.
QueueInv ==
    /\ \A i, j \in 1 .. Len(queue) : queue[i] = queue[j] => i = j
    /\ QueuedFlushes \subseteq flushed

\* The channel is FIFO: what is owed to a queued flush is ahead of it.
OwedAhead ==
    \A j, k \in 1 .. Len(queue) :
        queue[k] \in Request /\ queue[j] \in owed[queue[k]] => j < k

\* What is not accepted has no fate yet, and is owed to nobody.
AcceptedFirst ==
    /\ \A i \in Item \ accepted : fate[i] = "pending"
    /\ \A r \in Request : owed[r] \subseteq accepted

\* A group is one export; the export of a request is made once.
GroupInv ==
    /\ \A g \in groups : g.n < exports /\ {} \notin g.sends
    /\ \A g, h \in groups : g.n = h.n => g = h
    /\ \A g \in groups : g.id \in Request => g.id \in flushed \ QueuedFlushes
    /\ \A g, h \in groups : g.id \in Request /\ g.id = h.id => g = h

\* What is gone once the exporter's loop, its task, the runtime ended.
EndInv ==
    /\ xpc \in {"draining", "done", "dropped"} => held = {}
    /\ xpc \in {"done", "dropped"} => queue = <<>> /\ groups = {}
    /\ xpc = "dropped" => ~senders

(***************************************************************************)
(* The facts ExactlyOnce, FlushCovers and NotifySound rest on: the order   *)
(* of the channel, the identity of the groups, and what ends with what.    *)
(***************************************************************************)
ExporterInv ==
    /\ ExporterTypeOK
    /\ QueueInv
    /\ OwedAhead
    /\ AcceptedFirst
    /\ GroupInv
    /\ EndInv
    /\ ExactlyOnce
    /\ FlushCovers
    /\ NotifySound

(***************************************************************************)
(* The ledger the exporter keeps: where an item or a flush is decides its  *)
(* status or phase.                                                        *)
(***************************************************************************)
LedgerStatus == [i \in Item |->
    IF i \notin accepted THEN "new"
    ELSE IF fate[i] # "pending" THEN fate[i]
    ELSE IF i \in QueuedItems \cup held THEN "waiting"
    ELSE "exporting"]

LedgerPhase == [r \in Request |->
    IF r \notin flushed THEN "idle"
    ELSE IF r \in QueuedFlushes THEN "asked"
    ELSE IF \E g \in groups : g.id = r THEN "exporting"
    ELSE "over"]

LedgerUnderWay == [r \in Request |-> UNION {ItemsOf(g) : g \in {h \in groups : h.id = r}}]

Ledger == INSTANCE TelemetryLedger
    WITH status <- LedgerStatus, phase <- LedgerPhase, due <- owed,
         underWay <- LedgerUnderWay, shown <- watch

(***************************************************************************)
(* The exporter implements the ledger: across all interleavings of the     *)
(* handlers, the exporter task and the send tasks, items are exported and  *)
(* settled once, an ID is announced only after its own export has settled, *)
(* and nothing due for it was left waiting by that export.                 *)
(***************************************************************************)
ImplementsLedger == Ledger!Spec
=============================================================================
