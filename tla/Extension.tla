----------------------------- MODULE Extension -----------------------------
(***************************************************************************)
(* The diet-lambda process (src/src/main.rs) in its Lambda environment:    *)
(* the main future, the supervisor of the three tasks, the signal task,    *)
(* the server with its connections, the settings task as far as it takes   *)
(* part in the shutdown, and the exporter of Exporter.tla.                 *)
(*                                                                         *)
(* Around them stand the parts the source only talks to: the Extensions    *)
(* API (INVOKE and SHUTDOWN events), the Telemetry API (runtimeDone and    *)
(* function log records), the function's SDK (OTLP requests) and SIGTERM.  *)
(***************************************************************************)
EXTENDS Exporter

CONSTANTS
    IdOf,         \* the request ID of each invocation: a retry has the ID of
                  \* the invocation it repeats
    Undecodable   \* requests whose runtimeDone record shares its batch with
                  \* a function record LambdaLogRecord does not decode

ASSUME ExtensionAssumption ==
    /\ Undecodable \subseteq Request
    /\ None \notin {"ok", "err", "init_error", "exit_error"}

VARIABLES
    mpc,       \* where main is
    awaited,   \* the request main waits for in watcher.wait_for
    result,    \* what main returned
    reported,  \* which error endpoint main was told to post to
    spc,       \* where the server task is
    conns,     \* requests being received: the messages their handler sends
    settings,  \* where the settings task is
    joined,    \* tasks the supervisor has joined
    \* The Lambda platform:
    invoked,   \* requests dispatched so far
    event,     \* the INVOKE event answering main's pending next request
    running,   \* requests the function is working on
    ended      \* requests whose runtimeDone record waits to be posted

mainVars     == <<mpc, awaited, result, reported>>
taskVars     == <<spc, conns, settings, joined>>
platformVars == <<invoked, event, running, ended>>
vars == <<exporterVars, mainVars, taskVars, platformVars>>

Task == {"server", "exporter", "settings"}

Spawned == mpc \notin {"registering", "subscribing"} /\ spc # "unspawned"

InFlight == UNION {ToSet(c) : c \in conns}
-----------------------------------------------------------------------------
(***************************************************************************)
(* main                                                                    *)
(***************************************************************************)

\* main returns res: the runtime is dropped, the process ends.
Exit(res) ==
    /\ mpc' = "exited"
    /\ result' = res
    /\ DropRuntime

\* The head of main's loop: next is not even requested when cancelled.
LoopHead == IF cancelled THEN "joining" ELSE "next"

\* requests::extension::register, whose error is returned unreported.
Register ==
    /\ mpc = "registering"
    /\ \/ /\ mpc' = "subscribing"
          /\ UNCHANGED <<exporterVars, result>>
       \/ Exit("err")
    /\ UNCHANGED <<awaited, reported, taskVars, platformVars>>

\* requests::telemetry::register succeeds: the tasks are spawned.
Subscribe ==
    /\ mpc = "subscribing"
    /\ mpc' = LoopHead
    /\ spc' = "binding"
    /\ settings' = "running"
    /\ UNCHANGED <<exporterVars, awaited, result, reported, conns, joined, platformVars>>

SubscribeCancelled ==
    /\ mpc = "subscribing"
    /\ cancelled
    /\ Exit("ok")
    /\ UNCHANGED <<awaited, reported, taskVars, platformVars>>

\* Every error is reported as one of the initialisation.
RequestFailsInit ==
    /\ mpc \in {"subscribing", "next"}
    /\ mpc' = "reporting"
    /\ reported' = "init_error"
    /\ UNCHANGED <<exporterVars, awaited, result, taskVars, platformVars>>

(***************************************************************************)
(* A failed request - the telemetry registration or next - is returned by  *)
(* the main future at once, without cancelling the token or waiting for    *)
(* the tasks; they run on only while the error is reported.                *)
(***************************************************************************)
RequestFails ==
    /\ mpc \in {"subscribing", "next"}
    /\ mpc' = "reporting"
    /\ reported' = IF mpc = "next" THEN "exit_error" ELSE "init_error"
    /\ UNCHANGED <<exporterVars, awaited, result, taskVars, platformVars>>

ReportSent ==
    /\ mpc = "reporting"
    /\ Exit("err")
    /\ UNCHANGED <<awaited, reported, taskVars, platformVars>>

(***************************************************************************)
(* What the predicate of wait_for sees: a request ID, which says nothing   *)
(* of the invocation it was announced for.                                 *)
(***************************************************************************)
Notified(r) == watch \in Request /\ IdOf[watch] = IdOf[r]

(***************************************************************************)
(* next answers INVOKE.  wait_for looks at the current value before it     *)
(* waits, and is not polled at all when the token is cancelled already.    *)
(***************************************************************************)
NextInvoke ==
    /\ mpc = "next"
    /\ event # None
    /\ mpc' = IF cancelled THEN "joining" ELSE IF Notified(event) THEN "next" ELSE "waiting"
    /\ awaited' = event
    /\ event' = None
    /\ UNCHANGED <<exporterVars, result, reported, taskVars, invoked, running, ended>>

\* A SHUTDOWN that main answers by waiting only.
ShutdownWithoutCancel ==
    /\ mpc = "next"
    /\ event = None
    /\ mpc' = "joining"
    /\ UNCHANGED <<exporterVars, awaited, result, reported, taskVars, platformVars>>

\* next answers SHUTDOWN: main cancels and waits for the supervisor.
NextShutdown ==
    /\ mpc = "next"
    /\ event = None
    /\ Cancel
    /\ mpc' = "joining"
    /\ UNCHANGED <<awaited, result, reported, taskVars, platformVars>>

\* next awaited without run_until_cancelled.
NextUncancelled == FALSE

\* next is dropped because of a cancellation by the supervisor or a signal.
NextCancelled ==
    /\ mpc = "next"
    /\ cancelled
    /\ mpc' = "joining"
    /\ UNCHANGED <<exporterVars, awaited, result, reported, taskVars, platformVars>>

\* Any notification taken for the one of the awaited request.
WaitAnyNotification ==
    /\ mpc = "waiting"
    /\ watch # None \/ xpc = "done"
    /\ mpc' = LoopHead
    /\ UNCHANGED <<exporterVars, awaited, result, reported, taskVars, platformVars>>

(***************************************************************************)
(* wait_for returns: the watched value is the awaited ID, or every         *)
(* notifier is gone (the exporter ended and dropped its state).            *)
(***************************************************************************)
WaitReturns ==
    /\ mpc = "waiting"
    /\ Notified(awaited) \/ xpc = "done"
    /\ mpc' = LoopHead
    /\ UNCHANGED <<exporterVars, awaited, result, reported, taskVars, platformVars>>

WaitCancelled ==
    /\ mpc = "waiting"
    /\ ~Notified(awaited) /\ xpc # "done"
    /\ cancelled
    /\ mpc' = "joining"
    /\ UNCHANGED <<exporterVars, awaited, result, reported, taskVars, platformVars>>

\* main leaves without the supervisor.
ExitWithoutJoin ==
    /\ mpc = "joining"
    /\ Exit("ok")
    /\ UNCHANGED <<awaited, reported, taskVars, platformVars>>

\* The supervisor has joined every task: main returns Ok, whatever they did.
JoinSupervisor ==
    /\ mpc = "joining"
    /\ joined = Task
    /\ Exit("ok")
    /\ UNCHANGED <<awaited, reported, taskVars, platformVars>>

MainTask ==
    \/ NextCancelled
    \/ NextInvoke
    \/ WaitReturns
    \/ WaitCancelled
    \/ JoinSupervisor
    \/ ReportSent
-----------------------------------------------------------------------------
(***************************************************************************)
(* The signal task cancels the token on SIGTERM.                           *)
(***************************************************************************)
Sigterm ==
    /\ mpc \notin {"registering", "exited"}
    /\ ~cancelled
    /\ Cancel
    /\ UNCHANGED <<mainVars, taskVars, platformVars>>

Live == Spawned /\ mpc # "exited"

TaskEnded(t) ==
    CASE t = "server"   -> spc \in {"failed", "done"}
      [] t = "exporter" -> xpc = "done"
      [] t = "settings" -> settings = "done"

\* The supervisor that logs a task's error without cancelling the others.
JoinWithoutCancel(t) ==
    /\ Live
    /\ t \notin joined
    /\ TaskEnded(t)
    /\ joined' = joined \cup {t}
    /\ UNCHANGED <<exporterVars, mainVars, spc, conns, settings, platformVars>>

(***************************************************************************)
(* The supervisor joins a task that ended and cancels the others when it   *)
(* ended with an error; only the server can, by failing to bind.           *)
(***************************************************************************)
Join(t) ==
    /\ Live
    /\ t \notin joined
    /\ TaskEnded(t)
    /\ joined' = joined \cup {t}
    /\ IF t = "server" /\ spc = "failed" THEN Cancel ELSE UNCHANGED exporterVars
    /\ UNCHANGED <<mainVars, spc, conns, settings, platformVars>>

\* The settings task (settings.rs) leaves its loop once cancelled.
SettingsEnds ==
    /\ Live
    /\ settings = "running"
    /\ cancelled
    /\ settings' = "done"
    /\ UNCHANGED <<exporterVars, mainVars, spc, conns, joined, platformVars>>

RunExporter ==
    /\ Live
    /\ ExporterTask
    /\ UNCHANGED <<mainVars, taskVars, platformVars>>

RunSends ==
    /\ Live
    /\ SendTasks
    /\ UNCHANGED <<mainVars, taskVars, platformVars>>
-----------------------------------------------------------------------------
(***************************************************************************)
(* The server                                                              *)
(***************************************************************************)

\* MultiListener::bind succeeds, or fails and drops the routers with tx.
Bind ==
    /\ Live
    /\ spc = "binding"
    /\ \/ spc' = "serving" /\ UNCHANGED exporterVars
       \/ spc' = "failed" /\ DropSenders
    /\ UNCHANGED <<mainVars, conns, settings, joined, platformVars>>

\* The function's SDK posts an OTLP request over HTTP or gRPC.
PostOtlp(i) ==
    /\ Live
    /\ spc = "serving"
    /\ i \notin accepted \cup InFlight
    /\ conns' = conns \cup {OtlpMessages(i)}
    /\ UNCHANGED <<exporterVars, mainVars, spc, settings, joined, platformVars>>

(***************************************************************************)
(* The Telemetry API posts a batch of events: function logs, the           *)
(* runtimeDone records of ended requests, or both.  The handler takes the  *)
(* whole batch as one Json<Vec<...>>, so a record that does not decode has *)
(* the batch rejected and none of its events handled.                      *)
(***************************************************************************)
PostTelemetry(logs, done) ==
    /\ Live
    /\ spc = "serving"
    /\ ToSet(logs) \cap (accepted \cup InFlight) = {}
    /\ ToSet(done) \subseteq ended
    /\ conns' = IF ToSet(done) \cap Undecodable # {} THEN conns
                ELSE conns \cup {TelemetryMessages(logs, done)}
    /\ ended' = ended \ ToSet(done)
    /\ UNCHANGED <<exporterVars, mainVars, spc, settings, joined,
                   invoked, event, running>>

\* The Flushes of a batch sent ahead of its logs.
HandleReversed(c) ==
    /\ Live
    /\ c \in conns
    /\ Submit(Reverse(c))
    /\ conns' = conns \ {c}
    /\ UNCHANGED <<mainVars, spc, settings, joined, platformVars>>

\* The handler of a request runs: its messages go to the channel.
Handle(c) ==
    /\ Live
    /\ c \in conns
    /\ Submit(c)
    /\ conns' = conns \ {c}
    /\ UNCHANGED <<mainVars, spc, settings, joined, platformVars>>

\* An OTLP request is rejected (media type, decoding) or its client goes.
Reject(c) ==
    /\ Live
    /\ c \in conns
    /\ ToSet(c) \cap Request = {}
    /\ conns' = conns \ {c}
    /\ UNCHANGED <<exporterVars, mainVars, spc, settings, joined, platformVars>>

\* The server that shuts down without waiting for its connections.
CloseAbruptly ==
    /\ Live
    /\ cancelled
    /\ spc = "serving"
    /\ spc' = "done"
    /\ conns' = {}
    /\ DropSenders
    /\ UNCHANGED <<mainVars, settings, joined, platformVars>>

\* with_graceful_shutdown: no connection is accepted any more.
Close ==
    /\ Live
    /\ cancelled
    /\ spc = "serving"
    /\ spc' = "closing"
    /\ UNCHANGED <<exporterVars, mainVars, conns, settings, joined, platformVars>>

\* The last connection ended: axum::serve returns and every tx is dropped.
ServerEnds ==
    /\ Live
    /\ spc = "closing"
    /\ conns = {}
    /\ spc' = "done"
    /\ DropSenders
    /\ UNCHANGED <<mainVars, conns, settings, joined, platformVars>>
-----------------------------------------------------------------------------
(***************************************************************************)
(* The Lambda platform                                                     *)
(***************************************************************************)

(***************************************************************************)
(* A request is dispatched to the function.  A classic runtime works on    *)
(* one request at a time, and only once the extension, too, asked for its  *)
(* next event, which this INVOKE is.  A managed one works on several at a  *)
(* time and sends the extension, which registered for SHUTDOWN only, none. *)
(* Each element of Request is one invocation; a retry is another one with  *)
(* the same IdOf.                                                          *)
(***************************************************************************)
Dispatch(r) ==
    /\ r \notin invoked
    /\ mpc = "next"
    /\ IF Managed
       THEN UNCHANGED event
       ELSE /\ running = {}
            /\ event = None
            /\ event' = r
    /\ invoked' = invoked \cup {r}
    /\ running' = running \cup {r}
    /\ UNCHANGED <<exporterVars, mainVars, taskVars, ended>>

FunctionEnds(r) ==
    /\ r \in running
    /\ running' = running \ {r}
    /\ ended' = ended \cup {r}
    /\ UNCHANGED <<exporterVars, mainVars, taskVars, invoked, event>>

\* The process is gone; nothing is left to happen.
Exited == mpc = "exited" /\ UNCHANGED vars
-----------------------------------------------------------------------------
ExtensionInit ==
    /\ Init
    /\ mpc = "registering"
    /\ awaited = None
    /\ result = None
    /\ reported = None
    /\ spc = "unspawned"
    /\ conns = {}
    /\ settings = "unspawned"
    /\ joined = {}
    /\ invoked = {}
    /\ event = None
    /\ running = {}
    /\ ended = {}

Telemetry ==
    \E logs \in LogBatches(Item), done \in DoneLists(ended) :
        /\ logs # <<>> \/ done # <<>>
        /\ PostTelemetry(logs, done)

ExtensionNext ==
    \/ Register
    \/ Subscribe
    \/ SubscribeCancelled
    \/ RequestFails
    \/ NextShutdown
    \/ MainTask
    \/ Sigterm
    \/ \E t \in Task : Join(t)
    \/ SettingsEnds
    \/ RunExporter
    \/ RunSends
    \/ Bind
    \/ \E i \in Item : PostOtlp(i)
    \/ Telemetry
    \/ \E c \in conns : Handle(c) \/ Reject(c)
    \/ Close
    \/ ServerEnds
    \/ \E r \in Request : Dispatch(r) \/ FunctionEnds(r)
    \/ Exited

(***************************************************************************)
(* What the runtime and the environment are relied on for: every task that *)
(* is ready is polled, the collector answers or its connection breaks, a   *)
(* client completes the request it began, the function ends, and the       *)
(* Telemetry API posts its records.  Nothing obliges an invocation, a      *)
(* SHUTDOWN, a SIGTERM or a failing request to come.                       *)
(***************************************************************************)
Fairness ==
    /\ WF_vars(MainTask)
    /\ WF_vars(SubscribeCancelled)
    /\ \A t \in Task : WF_vars(Join(t))
    /\ WF_vars(SettingsEnds)
    /\ WF_vars(RunExporter)
    /\ WF_vars(RunSends)
    /\ WF_vars(Bind)
    /\ WF_vars(Close)
    /\ WF_vars(ServerEnds)
    /\ WF_vars(\E c \in conns : Handle(c))
    /\ \A r \in Request : WF_vars(FunctionEnds(r))
    /\ WF_vars(\E done \in DoneLists(ended) : done # <<>> /\ PostTelemetry(<<>>, done))

SafeExtensionSpec == ExtensionInit /\ [][ExtensionNext]_vars

ExtensionSpec == SafeExtensionSpec /\ Fairness
-----------------------------------------------------------------------------
ExtensionTypeOK ==
    /\ ExporterTypeOK
    /\ mpc \in {"registering", "subscribing", "next", "waiting", "joining",
                "reporting", "exited"}
    /\ awaited \in Request \cup {None}
    /\ result \in {None, "ok", "err"}
    /\ reported \in {None, "init_error", "exit_error"}
    /\ spc \in {"unspawned", "binding", "failed", "serving", "closing", "done"}
    /\ \A c \in conns : c \in Seq(ServiceRequest)
    /\ settings \in {"unspawned", "running", "done"}
    /\ joined \subseteq Task
    /\ invoked \subseteq Request
    /\ event \in Request \cup {None}
    /\ running \subseteq invoked
    /\ ended \subseteq invoked \ running
    /\ reported = "init_error" => spc = "unspawned"
    /\ reported = "exit_error" => spc # "unspawned"

\* No invocation is retried: each has a request ID of its own.
UniqueIds == \A r, q \in Request : IdOf[r] = IdOf[q] => r = q

Settled == {i \in Item : fate[i] # "pending"}

(***************************************************************************)
(* When the watch channel shows a request, all telemetry accepted before   *)
(* its runtimeDone has been answered by the collector or given up:         *)
(* main.rs:120 waits for it so that Lambda does not freeze the process     *)
(* with telemetry of the invocation still on its way.                      *)
(***************************************************************************)
FlushSettles == \A r \in Request : watch = r => owed[r] \subseteq Settled

(***************************************************************************)
(* main returning Ok after the tasks were spawned has waited for every     *)
(* export: what the exporter had received is never dropped with the        *)
(* runtime, whatever ended the process - SHUTDOWN, SIGTERM or a server     *)
(* that could not bind.                                                    *)
(***************************************************************************)
GracefulExit ==
    result = "ok" => \A i \in Item : fate[i] # "abandoned"

\* The flush of a request has been handled and its export announced.
Over(r) == r \in flushed \ QueuedFlushes /\ \A g \in groups : g.id # r

(***************************************************************************)
(* Between two invocations of a classic runtime - main asks for the next   *)
(* event, nothing is cancelled - the runtimeDone of each earlier request   *)
(* has been handed to the exporter and its export announced: no flush of a *)
(* past invocation is left to overwrite the notification of the next one.  *)
(* It takes UniqueIds: a retried invocation is taken for flushed when the  *)
(* channel still shows its ID from the attempt before.                     *)
(***************************************************************************)
OneFlushAtATime ==
    mpc = "next" /\ ~cancelled /\ ~Managed /\ spc \in {"binding", "serving"} =>
        \A r \in invoked \ {event} : Over(r)

(***************************************************************************)
(* The inductive strengthening of the invariants above.                    *)
(***************************************************************************)
\* Where main is tells what has been spawned; what ended tells why.
LifeInv ==
    /\ mpc = "exited" <=> xpc = "dropped"
    /\ result = "ok" => mpc = "exited"
    /\ reported # None => mpc \in {"reporting", "exited"}
    /\ mpc \in {"registering", "subscribing"} => spc = "unspawned"
    /\ mpc \in {"next", "waiting", "joining"} => spc # "unspawned"
    /\ spc = "unspawned" =>
          /\ xpc \in {"starting", "dropped"}
          /\ conns = {} /\ accepted = {} /\ invoked = {}
    /\ spc \in {"closing", "done"} => cancelled
    /\ ~senders => spc \in {"failed", "done"} \/ xpc = "dropped"
    /\ xpc = "stopping" => cancelled
    /\ xpc \in {"draining", "done"} => cancelled \/ ~senders
    /\ "exporter" \in joined => xpc \in {"done", "dropped"}
    /\ mpc # "exited" => \A i \in Item : fate[i] # "abandoned"

\* What a connection carries is a handler's, and on no other connection.
ConnsInv ==
    /\ \A c \in conns :
          \/ \E i \in Item : c = OtlpMessages(i)
          \/ \E logs \in LogBatches(Item), done \in DoneLists(Request) :
                c = TelemetryMessages(logs, done)
    /\ InFlight \cap (accepted \cup flushed) = {}
    /\ \A c, d \in conns : ToSet(c) \cap ToSet(d) # {} => c = d

\* A request is dispatched, then runs, then its record waits, then is posted.
PlatformInv ==
    /\ flushed \cup (InFlight \cap Request) \subseteq invoked \ (running \cup ended)
    /\ mpc = "waiting" => event = None /\ awaited \in Request

\* The exporter is in its loop, or about to enter it.
Looping == xpc \in {"starting", "receiving", "stopping"}

\* While the exporter loops, main and the platform take turns.
TurnsInv ==
    ~Managed /\ UniqueIds /\ Looping =>
        /\ mpc = "next" => \A r \in invoked \ {event} : Over(r)
        /\ mpc = "waiting" => \A r \in invoked \ {awaited} : Over(r)
        /\ \A r, q \in invoked : Over(r) \/ Over(q) \/ r = q

(***************************************************************************)
(* What OneFlushAtATime, GracefulExit and the refinement of Exporter rest  *)
(* on: each message is on one connection or none, each request in one      *)
(* place, and at most one request is on its way to its notification.       *)
(***************************************************************************)
ExtensionInv ==
    /\ ExtensionTypeOK
    /\ ExporterInv
    /\ LifeInv
    /\ ConnsInv
    /\ PlatformInv
    /\ TurnsInv
    /\ GracefulExit

\* The buffer reaches MAX_BUFFERED: an export for no request.
Overflows == ReceiveTelemetry /\ exports' # exports

(***************************************************************************)
(* The inductive strengthening of FlushSettles for a classic runtime whose *)
(* buffer does not overflow: every export of the loop is a request's, and  *)
(* what the request is owed is settled or is sent by its own group.        *)
(***************************************************************************)
SettleInv ==
    /\ Looping => \A g \in groups : g.id \in Request
    /\ \A g \in groups : g.id \in Request => owed[g.id] \ Settled \subseteq ItemsOf(g)
    /\ FlushSettles

(***************************************************************************)
(* main does not stay in wait_for for ever: an INVOKE is followed by the   *)
(* notification of its flush, or by a cancellation.                        *)
(***************************************************************************)
InvokeReturns == mpc = "waiting" ~> mpc # "waiting"

(***************************************************************************)
(* After SHUTDOWN or a cancellation the process ends: main, the supervisor *)
(* and the three tasks do not wait for each other in a circle, and no      *)
(* connection, queue or send keeps one of them alive.                      *)
(***************************************************************************)
ShutdownCompletes == (cancelled \/ mpc = "joining") ~> mpc = "exited"

(***************************************************************************)
(* A server that cannot bind its ports stops the extension, although main  *)
(* only listens to the token and the supervisor only to the tasks.         *)
(***************************************************************************)
ServerFailureStops == spc = "failed" ~> mpc = "exited"

(***************************************************************************)
(* The exporter inside the process goes only through the steps Exporter    *)
(* allows it in an arbitrary environment: each item and each flush reaches *)
(* the channel once, a batch's logs before its flushes, never after the    *)
(* server dropped the channel.  What holds of Exporter holds of it here.   *)
(***************************************************************************)
ImplementsExporter == Spec
=============================================================================
