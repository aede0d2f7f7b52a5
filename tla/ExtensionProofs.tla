-------------------------- MODULE ExtensionProofs --------------------------
(***************************************************************************)
(* Theorems about Extension.tla: the process of diet-lambda, for every set *)
(* of items and requests, classic and managed, in every behaviour of the   *)
(* Lambda platform, its clients and the collector.                         *)
(***************************************************************************)
EXTENDS Extension, ExporterProofs

-----------------------------------------------------------------------------
(***************************************************************************)
(* Connections                                                             *)
(***************************************************************************)

\* A list of distinct requests is one over any set that holds its elements.
LEMMA DoneListOver ==
    ASSUME NEW R \in SUBSET Request, NEW Q \in SUBSET Request,
           NEW done \in DoneLists(R), ToSet(done) \subseteq Q
    PROVE  done \in DoneLists(Q)
<1>1. PICK S \in SUBSET R : done \in SetToSeqs(S)
  BY DEF DoneLists, SetToAllKPermutations
<1>2. IsFiniteSet(S)
  BY <1>1, ExporterAssumption, FS_Subset DEF ExporterAssumption
<1> DEFINE n == Cardinality(S)
           T == ToSet(done)
<1>3. n \in Nat
  BY <1>2, FS_CardinalityType
<1>4. /\ done \in [1 .. n -> S]
      /\ \A i, j \in 1 .. n : i # j => done[i] # done[j]
  BY <1>1 DEF SetToSeqs
<1>5. done \in [1 .. n -> T] /\ \A x \in T : \E i \in 1 .. n : done[i] = x
  BY <1>4 DEF ToSet
<1>6. T \subseteq S
  BY <1>4 DEF ToSet
<1>7. Cardinality(T) = n
  <2>1. done \in Bijection(1 .. n, T)
    BY <1>4, <1>5 DEF Bijection, Injection, Surjection, IsInjective
  <2>2. ExistsBijection(1 .. n, T)
    BY <2>1 DEF ExistsBijection
  <2> HIDE DEF T, n
  <2> QED BY <1>3, <2>2, FS_CountingElements
<1>8. done \in SetToSeqs(T)
  BY <1>4, <1>5, <1>7 DEF SetToSeqs
<1> QED BY <1>8 DEF DoneLists, SetToAllKPermutations
\* What the messages of the telemetry handler are made of.
LEMMA TelemetryFacts ==
    ASSUME NEW logs \in LogBatches(Item), NEW done \in DoneLists(Request)
    PROVE  /\ TelemetryMessages(logs, done) \in Seq(ServiceRequest)
           /\ ToSet(logs) \subseteq Item /\ ToSet(done) \subseteq Request
           /\ ToSet(TelemetryMessages(logs, done)) = ToSet(logs) \cup ToSet(done)
           /\ \A I : ToSet(logs) \subseteq I => logs \in LogBatches(I)
<1>1. done \in Seq(Request) /\ ToSet(done) \subseteq Request
  BY DoneListFacts
<1>2. logs = <<>> \/ \E i \in Item : KindOf[i] = "logs" /\ logs = <<i>>
  BY DEF LogBatches
<1>3. /\ logs \in Seq(Item) /\ ToSet(logs) \subseteq Item
      /\ \A I : ToSet(logs) \subseteq I => logs \in LogBatches(I)
  <2>1. CASE logs = <<>>
    BY <2>1, EmptySeq DEF LogBatches, ToSet
  <2>2. ASSUME NEW i \in Item, KindOf[i] = "logs", logs = <<i>>
        PROVE  /\ logs \in Seq(Item) /\ ToSet(logs) \subseteq Item
               /\ \A I : ToSet(logs) \subseteq I => logs \in LogBatches(I)
    <3>1. logs \in Seq(Item) /\ ToSet(logs) = {i}
      BY <2>2, OneMessage
    <3> QED BY <2>2, <3>1 DEF LogBatches
  <2> QED BY <1>2, <2>1, <2>2
<1>4. logs \in Seq(ServiceRequest) /\ done \in Seq(ServiceRequest)
  BY <1>1, <1>3, SeqMonotonic DEF ServiceRequest
<1>5. /\ logs \o done \in Seq(ServiceRequest)
      /\ ToSet(logs \o done) = ToSet(logs) \cup ToSet(done)
  BY ONLY <1>4, ConcatFacts, Zenon
<1> QED BY <1>1, <1>3, <1>5 DEF TelemetryMessages

\* A connection's messages are what a handler may send now.
LEMMA HandleIsHandler ==
    ASSUME ExtensionInv, NEW c \in conns, Submit(c)
    PROVE  (\E i \in Item : HandleOtlp(i)) \/ HandleTelemetry
<1>1. ToSet(c) \cap (accepted \cup flushed) = {}
  BY DEF ExtensionInv, ConnsInv, InFlight
<1>2. ASSUME NEW i \in Item, c = OtlpMessages(i)
      PROVE  HandleOtlp(i)
  <2>1. ToSet(c) = {i}
    BY <1>2, OneMessage DEF OtlpMessages
  <2> QED BY <1>1, <1>2, <2>1 DEF HandleOtlp
<1>3. ASSUME NEW logs \in LogBatches(Item), NEW done \in DoneLists(Request),
             c = TelemetryMessages(logs, done)
      PROVE  HandleTelemetry
  <2>1. /\ ToSet(logs) \subseteq Item /\ ToSet(done) \subseteq Request
        /\ ToSet(c) = ToSet(logs) \cup ToSet(done)
        /\ \A I : ToSet(logs) \subseteq I => logs \in LogBatches(I)
    BY <1>3, TelemetryFacts
  <2>2. logs \in LogBatches(Item \ accepted)
    BY <1>1, <2>1
  <2>3. done \in DoneLists(Request \ flushed)
    BY <1>1, <2>1, DoneListOver
  <2> QED BY <1>3, <2>2, <2>3 DEF HandleTelemetry
<1> QED BY <1>2, <1>3 DEF ExtensionInv, ConnsInv

\* Every step of the process is one of the exporter or none.
LEMMA StepOfExporter ==
    ExtensionInv /\ [ExtensionNext]_vars => [Next]_exporterVars
<1> SUFFICES ASSUME ExtensionInv, [ExtensionNext]_vars
             PROVE  [Next]_exporterVars
  OBVIOUS
<1>1. CASE \E c \in conns : Handle(c)
  <2>1. PICK c \in conns : Submit(c)
    BY <1>1 DEF Handle
  <2> QED BY <2>1, HandleIsHandler DEF Next, Environment
<1>2. CASE DropRuntime \/ Cancel \/ DropSenders
  BY <1>2 DEF Next, Environment
<1>3. CASE ExporterTask \/ SendTasks
  BY <1>3 DEF Next
<1>4. CASE UNCHANGED exporterVars
  BY <1>4
<1>5. CASE UNCHANGED vars
  BY <1>4, <1>5 DEF vars
<1>6. CASE Register \/ Subscribe \/ SubscribeCancelled \/ RequestFails \/ NextShutdown \/ MainTask
  BY <1>2, <1>4, <1>6 DEF Register, Subscribe, SubscribeCancelled, RequestFails, NextShutdown,
     MainTask, NextCancelled, NextInvoke, WaitReturns, WaitCancelled, JoinSupervisor, ReportSent,
     Exit
<1>7. CASE Sigterm \/ (\E t \in Task : Join(t)) \/ SettingsEnds \/ RunExporter \/ RunSends
  BY <1>2, <1>3, <1>4, <1>7 DEF Sigterm, Join, SettingsEnds, RunExporter, RunSends
<1>8. CASE Bind \/ (\E i \in Item : PostOtlp(i)) \/ Telemetry \/ Close \/ ServerEnds
  BY <1>2, <1>4, <1>8 DEF Bind, PostOtlp, Telemetry, PostTelemetry, Close, ServerEnds
<1>9. CASE (\E c \in conns : Reject(c)) \/ (\E r \in Request : Dispatch(r) \/ FunctionEnds(r))
           \/ Exited
  BY <1>4, <1>5, <1>9 DEF Reject, Dispatch, FunctionEnds, Exited
<1> QED BY <1>1, <1>5, <1>6, <1>7, <1>8, <1>9 DEF ExtensionNext
-----------------------------------------------------------------------------
(***************************************************************************)
(* Types                                                                   *)
(***************************************************************************)

LEMMA ExtensionTypeInit == ExtensionInit => ExtensionTypeOK
<1> SUFFICES ASSUME ExtensionInit PROVE ExtensionTypeOK
  OBVIOUS
<1>1. ExporterTypeOK
  BY TypeInit DEF ExtensionInit
<1> QED BY <1>1, ExtensionAssumption DEF ExtensionAssumption, ExtensionInit, ExtensionTypeOK

\* Every step keeps the types of main, the tasks and the platform.
LEMMA ExtensionTypeStep ==
    ASSUME ExtensionInv, ExporterTypeOK', [ExtensionNext]_vars
    PROVE  ExtensionTypeOK'
<1> USE DEF ExtensionInv, ExtensionTypeOK, LifeInv, mainVars, taskVars, platformVars
<1>1. CASE UNCHANGED vars
  BY <1>1 DEF vars
<1>2. CASE Register \/ Subscribe \/ SubscribeCancelled
  BY <1>2, ExtensionAssumption DEF ExtensionAssumption, Register, Subscribe, SubscribeCancelled,
     Exit, LoopHead
<1>3. CASE RequestFails
  BY <1>3 DEF RequestFails
<1>4. CASE NextShutdown
  BY <1>4 DEF NextShutdown
<1>5. CASE MainTask
  BY <1>5 DEF MainTask, NextCancelled, NextInvoke, WaitReturns, WaitCancelled, JoinSupervisor,
     ReportSent, Exit, LoopHead
<1>6. CASE Sigterm \/ SettingsEnds \/ RunExporter \/ RunSends
  BY <1>6 DEF Sigterm, SettingsEnds, RunExporter, RunSends
<1>7. CASE \E t \in Task : Join(t)
  BY <1>7 DEF Join
<1>8. CASE Bind \/ Close \/ ServerEnds
  BY <1>8 DEF Bind, Close, ServerEnds, Live, Spawned
<1>9. ASSUME NEW i \in Item, PostOtlp(i)
      PROVE  ExtensionTypeOK'
  <2>1. OtlpMessages(i) \in Seq(ServiceRequest)
    BY OneMessage DEF OtlpMessages, ServiceRequest
  <2> QED BY <1>9, <2>1 DEF PostOtlp
<1>10. CASE Telemetry
  <2>1. PICK logs \in LogBatches(Item), done \in DoneLists(ended) : PostTelemetry(logs, done)
    BY <1>10 DEF Telemetry
  <2>2. done \in DoneLists(Request)
    <3>1. ended \subseteq Request
      OBVIOUS
    <3>2. ToSet(done) \subseteq Request
      BY <3>1, DoneListFacts
    <3> QED BY <3>1, <3>2, DoneListOver
  <2>3. TelemetryMessages(logs, done) \in Seq(ServiceRequest)
    BY <2>2, TelemetryFacts
  <2>4. conns' \subseteq conns \cup {TelemetryMessages(logs, done)} /\ ended' \subseteq ended
        /\ UNCHANGED <<mainVars, spc, settings, joined, invoked, event, running>>
    BY <2>1 DEF PostTelemetry
  <2> QED BY <2>3, <2>4
<1>11. CASE \E c \in conns : Handle(c) \/ Reject(c)
  BY <1>11 DEF Handle, Reject
<1>12. ASSUME NEW r \in Request, Dispatch(r)
       PROVE  ExtensionTypeOK'
  BY <1>12 DEF Dispatch
<1>13. ASSUME NEW r \in Request, FunctionEnds(r)
       PROVE  ExtensionTypeOK'
  BY <1>13 DEF FunctionEnds
<1>14. CASE Exited
  BY <1>1, <1>14 DEF Exited
<1> QED BY <1>1, <1>2, <1>3, <1>4, <1>5, <1>6, <1>7, <1>8, <1>9, <1>10, <1>11, <1>12, <1>13, <1>14
        DEF ExtensionNext
-----------------------------------------------------------------------------
(***************************************************************************)
(* Connections and requests                                                *)
(***************************************************************************)

\* The tasks of the exporter take no message and end no sender.
LEMMA TasksTakeNothing ==
    ASSUME ExporterTask \/ SendTasks
    PROVE  UNCHANGED <<senders, cancelled, accepted, flushed, owed>>
BY DEF ExporterTask, SendTasks, Start, ReceiveTelemetry, ReceiveFlush, PeriodicFlush, FinalExport,
    Finish, GroupFinishes, SendCompletes, channel, history

\* Neither do the end of the runtime, of the senders or a cancellation.
LEMMA EndsTakeNothing ==
    ASSUME DropRuntime \/ Cancel \/ DropSenders
    PROVE  UNCHANGED <<accepted, flushed, owed>>
BY DEF DropRuntime, Cancel, DropSenders, history

\* Connections that end without their handler leave the others as they are.
LEMMA ConnsEnd ==
    ASSUME ConnsInv, conns' \subseteq conns, UNCHANGED <<accepted, flushed>>
    PROVE  ConnsInv' /\ InFlight' \subseteq InFlight
<1>1. InFlight' \subseteq InFlight
  BY DEF InFlight
<1> QED BY <1>1 DEF ConnsInv

\* What a handler may send.
Messages(c) ==
    \/ \E i \in Item : c = OtlpMessages(i)
    \/ \E logs \in LogBatches(Item), done \in DoneLists(Request) : c = TelemetryMessages(logs, done)

\* A connection with messages that are new.
LEMMA ConnOpens ==
    ASSUME ConnsInv, NEW c, Messages(c), ToSet(c) \cap (accepted \cup flushed \cup InFlight) = {},
           conns' = conns \cup {c}, UNCHANGED <<accepted, flushed>>
    PROVE  ConnsInv' /\ InFlight' = InFlight \cup ToSet(c)
<1>1. InFlight' = InFlight \cup ToSet(c)
  BY DEF InFlight
<1>2. \A d \in conns : ToSet(d) \cap ToSet(c) = {}
  BY DEF InFlight
<1> QED BY <1>1, <1>2 DEF ConnsInv, Messages

\* The handler of a connection takes its messages.
LEMMA ConnHandled ==
    ASSUME ConnsInv, NEW c \in conns, Submit(c), conns' = conns \ {c}
    PROVE  /\ ConnsInv'
           /\ InFlight' \cup (ToSet(c) \cap Request) \subseteq InFlight
           /\ flushed' = flushed \cup (ToSet(c) \cap Request)
<1>1. /\ accepted' = accepted \cup (ToSet(c) \cap Item)
      /\ flushed' = flushed \cup (ToSet(c) \cap Request)
  BY DEF Submit
<1>2. InFlight' \subseteq InFlight /\ ToSet(c) \subseteq InFlight /\ InFlight' \cap ToSet(c) = {}
  BY DEF InFlight, ConnsInv
<1> QED BY <1>1, <1>2 DEF ConnsInv

LEMMA ConnsStep ==
    ASSUME ExtensionInv, [ExtensionNext]_vars
    PROVE  ConnsInv' /\ PlatformInv'
<1>0. /\ ConnsInv /\ PlatformInv
      /\ mpc \in {"registering", "subscribing"} => spc = "unspawned"
      /\ flushed \subseteq Request /\ accepted \subseteq Item
      /\ running \subseteq invoked /\ ended \subseteq invoked \ running /\ invoked \subseteq Request
      /\ event \in Request \cup {None}
  BY DEF ExtensionInv, ExtensionTypeOK, ExporterTypeOK, LifeInv
<1>1. CASE /\ conns' \subseteq conns
           /\ UNCHANGED <<accepted, flushed, platformVars>>
           /\ mpc' = "waiting" => mpc = "waiting" /\ awaited' = awaited
  BY <1>0, <1>1, ConnsEnd DEF PlatformInv, platformVars
<1>2. CASE UNCHANGED vars
  BY <1>1, <1>2 DEF vars, exporterVars, history, mainVars, taskVars
<1>3. CASE Register \/ Subscribe \/ SubscribeCancelled \/ RequestFails \/ NextShutdown
  BY <1>1, <1>3, EndsTakeNothing DEF Register, Subscribe, SubscribeCancelled, RequestFails,
     NextShutdown, Exit, LoopHead, exporterVars, history, taskVars
<1>4. CASE NextInvoke
  <2>1. /\ UNCHANGED <<conns, accepted, flushed, invoked, running, ended>>
        /\ event' = None /\ awaited' = event /\ event \in Request
    BY <1>0, <1>4 DEF NextInvoke, exporterVars, history, taskVars
  <2> QED BY <1>0, <2>1, ConnsEnd DEF PlatformInv
<1>5. CASE MainTask /\ ~NextInvoke
  BY <1>1, <1>5, EndsTakeNothing DEF MainTask, NextCancelled, WaitReturns, WaitCancelled,
     JoinSupervisor, ReportSent, Exit, LoopHead, exporterVars, history, taskVars
<1>6. CASE Sigterm \/ (\E t \in Task : Join(t)) \/ SettingsEnds \/ RunExporter \/ RunSends
  BY <1>1, <1>6, EndsTakeNothing, TasksTakeNothing DEF Sigterm, Join, SettingsEnds, RunExporter,
     RunSends, exporterVars, history, taskVars, mainVars
<1>7. CASE Bind \/ Close \/ ServerEnds \/ \E c \in conns : Reject(c)
  BY <1>1, <1>7, EndsTakeNothing DEF Bind, Close, ServerEnds, Reject, exporterVars, history, mainVars
<1>8. ASSUME NEW i \in Item, PostOtlp(i)
      PROVE  ConnsInv' /\ PlatformInv'
  <2>1. /\ conns' = conns \cup {OtlpMessages(i)}
        /\ i \notin accepted \cup InFlight
        /\ UNCHANGED <<accepted, flushed, mpc, awaited, invoked, event, running, ended>>
    BY <1>8 DEF PostOtlp, exporterVars, history, mainVars, platformVars
  <2>2. ToSet(OtlpMessages(i)) = {i} /\ i \notin Request
    BY OneMessage, ExporterAssumption DEF OtlpMessages, ExporterAssumption
  <2>3. ConnsInv' /\ InFlight' = InFlight \cup {i}
    BY <1>0, <2>1, <2>2, ConnOpens DEF Messages
  <2> QED BY <1>0, <2>1, <2>2, <2>3 DEF PlatformInv
<1>9. CASE Telemetry
  <2>1. PICK logs \in LogBatches(Item), done \in DoneLists(ended) : PostTelemetry(logs, done)
    BY <1>9 DEF Telemetry
  <2>2. ToSet(done) \subseteq ended /\ done \in DoneLists(Request)
    <3>1. ended \in SUBSET Request
      BY <1>0
    <3> QED BY <3>1, DoneListFacts, DoneListOver
  <2> DEFINE c == TelemetryMessages(logs, done)
  <2>3. ToSet(logs) \subseteq Item /\ ToSet(c) = ToSet(logs) \cup ToSet(done) /\ Messages(c)
    BY <2>2, TelemetryFacts DEF Messages
  <2>4. /\ conns' = conns \/ conns' = conns \cup {c}
        /\ ToSet(logs) \cap (accepted \cup InFlight) = {}
        /\ ended' = ended \ ToSet(done)
        /\ UNCHANGED <<accepted, flushed, mpc, awaited, invoked, event, running>>
    BY <2>1 DEF PostTelemetry, exporterVars, history, mainVars
  <2> HIDE DEF c
  <2>5. CASE conns' = conns
    BY <1>0, <2>4, <2>5, ConnsEnd DEF PlatformInv
  <2>6. CASE conns' = conns \cup {c}
    <3>1. Item \cap Request = {}
      BY ExporterAssumption DEF ExporterAssumption
    <3>2. ToSet(c) \cap (accepted \cup flushed \cup InFlight) = {}
      BY <1>0, <2>2, <2>3, <2>4, <3>1 DEF PlatformInv
    <3>3. ConnsInv' /\ InFlight' = InFlight \cup ToSet(c)
      BY <1>0, <2>3, <2>4, <2>6, <3>2, ConnOpens
    <3> QED BY <1>0, <2>2, <2>3, <2>4, <3>1, <3>3 DEF PlatformInv
  <2> QED BY <2>4, <2>5, <2>6
<1>10. ASSUME NEW c \in conns, Handle(c)
       PROVE  ConnsInv' /\ PlatformInv'
  <2>1. /\ Submit(c) /\ conns' = conns \ {c}
        /\ UNCHANGED <<mpc, awaited, invoked, event, running, ended>>
    BY <1>10 DEF Handle, mainVars, platformVars
  <2>2. /\ ConnsInv'
        /\ InFlight' \cup (ToSet(c) \cap Request) \subseteq InFlight
        /\ flushed' = flushed \cup (ToSet(c) \cap Request)
    BY <1>0, <2>1, ConnHandled
  <2> QED BY <1>0, <2>1, <2>2 DEF PlatformInv
<1>11. ASSUME NEW r \in Request, Dispatch(r) \/ FunctionEnds(r)
       PROVE  ConnsInv' /\ PlatformInv'
  <2>1. UNCHANGED <<conns, accepted, flushed, mpc, awaited>>
    BY <1>11 DEF Dispatch, FunctionEnds, exporterVars, history, mainVars, taskVars
  <2>2. ConnsInv' /\ InFlight' = InFlight
    BY <1>0, <2>1, ConnsEnd DEF InFlight
  <2> QED BY <1>0, <1>11, <2>1, <2>2 DEF Dispatch, FunctionEnds, PlatformInv
<1>12. CASE Exited
  BY <1>2, <1>12 DEF Exited
<1> QED BY <1>2, <1>3, <1>4, <1>5, <1>6, <1>7, <1>8, <1>9, <1>10, <1>11, <1>12
        DEF ExtensionNext, MainTask
-----------------------------------------------------------------------------
(***************************************************************************)
(* The life of main and of the tasks                                       *)
(***************************************************************************)

\* Where a step of the exporter or of its sends may take it.
LEMMA TasksGoOn ==
    ASSUME ExporterTypeOK, ExporterTask \/ SendTasks, xpc = "stopping" => cancelled
    PROVE  /\ xpc' = "dropped" <=> xpc = "dropped"
           /\ xpc' = "stopping" => cancelled
           /\ xpc' \in {"draining", "done"} => xpc \in {"draining", "done"} \/ cancelled \/ ~senders
           /\ xpc = "done" => xpc' = "done"
           /\ \A i \in Item : fate'[i] = "abandoned" => fate[i] = "abandoned"
<1> USE DEF channel, state, history
<1>1. CASE Start \/ ReceiveTelemetry \/ ReceiveFlush
  BY <1>1 DEF Start, ReceiveTelemetry, ReceiveFlush, Iterate
<1>2. CASE PeriodicFlush \/ FinalExport
  BY <1>2 DEF PeriodicFlush, FinalExport
<1>3. CASE Finish
  BY <1>3 DEF Finish, ExporterTypeOK
<1>4. CASE SendTasks
  <2>1. PICK g \in groups : GroupFinishes(g) \/ \E s \in g.sends : SendCompletes(g, s)
    BY <1>4 DEF SendTasks
  <2> QED BY <2>1 DEF GroupFinishes, SendCompletes, ExporterTypeOK
<1> QED BY <1>1, <1>2, <1>3, <1>4 DEF ExporterTask

\* A runtime dropped with nothing in the buffer or in flight abandons nothing.
LEMMA DropAbandonsNothing ==
    ASSUME ExporterTypeOK, DropRuntime, held \cup SendingItems = {},
           \A i \in Item : fate[i] # "abandoned"
    PROVE  \A i \in Item : fate'[i] # "abandoned"
BY DEF DropRuntime, ExporterTypeOK

LEMMA SubmitAbandonsNothing ==
    ASSUME ExporterTypeOK, NEW m, Submit(m)
    PROVE  /\ \A i \in Item : fate'[i] = "abandoned" => fate[i] = "abandoned"
           /\ UNCHANGED <<senders, cancelled, xpc>>
BY DEF Submit, ExporterTypeOK

\* main exits Ok only where the exporter holds nothing.
LEMMA NothingHeldAtExit ==
    ASSUME ExtensionInv, mpc # "exited", spc = "unspawned" \/ "exporter" \in joined
    PROVE  held \cup SendingItems = {}
<1>1. CASE spc = "unspawned"
  <2>1. accepted = {}
    BY <1>1 DEF ExtensionInv, LifeInv
  <2> QED BY <2>1 DEF ExtensionInv, ExporterInv, ExactlyOnce, Pending
<1>2. CASE "exporter" \in joined
  <2>1. xpc = "done"
    BY <1>2 DEF ExtensionInv, LifeInv
  <2> QED BY <2>1 DEF ExtensionInv, ExporterInv, EndInv, SendingItems
<1> QED BY <1>1, <1>2

LEMMA LifeStep ==
    ASSUME ExtensionInv, [ExtensionNext]_vars
    PROVE  LifeInv' /\ GracefulExit'
<1>0. LifeInv /\ GracefulExit /\ ExtensionTypeOK /\ ExporterTypeOK
  BY DEF ExtensionInv, ExtensionTypeOK
<1> USE DEF mainVars, taskVars, platformVars, exporterVars, channel, state, history
<1>1. CASE UNCHANGED vars
  BY <1>0, <1>1 DEF vars, LifeInv, GracefulExit
<1>2. CASE Subscribe \/ RequestFails
  BY <1>0, <1>2 DEF Subscribe, RequestFails, LoopHead, LifeInv, GracefulExit, ExtensionTypeOK
<1>3. CASE NextInvoke \/ WaitReturns \/ WaitCancelled \/ NextCancelled
  BY <1>0, <1>3 DEF NextInvoke, WaitReturns, WaitCancelled, NextCancelled, LoopHead, LifeInv,
     GracefulExit
<1>4. ASSUME NEW res \in {"ok", "err"}, Exit(res), mpc # "exited",
             UNCHANGED <<reported, spc, conns, joined, invoked>>,
             res = "ok" => spc = "unspawned" \/ "exporter" \in joined
      PROVE  LifeInv' /\ GracefulExit'
  <2>1. /\ mpc' = "exited" /\ xpc' = "dropped" /\ result' = res
        /\ UNCHANGED <<cancelled, accepted>>
    BY <1>4 DEF Exit, DropRuntime
  <2>2. GracefulExit'
    <3>1. CASE res = "ok"
      <4>1. held \cup SendingItems = {} /\ \A i \in Item : fate[i] # "abandoned"
        BY <1>0, <1>4, <3>1, NothingHeldAtExit DEF LifeInv
      <4> QED BY <1>0, <1>4, <4>1, DropAbandonsNothing DEF Exit, GracefulExit
    <3> QED BY <1>4, <2>1, <3>1 DEF GracefulExit
  <2> QED BY <1>0, <1>4, <2>1, <2>2 DEF LifeInv
<1>5. CASE Register
  BY <1>0, <1>4, <1>5 DEF Register, LifeInv, GracefulExit
<1>6. CASE SubscribeCancelled \/ JoinSupervisor \/ ReportSent
  BY <1>0, <1>4, <1>6 DEF SubscribeCancelled, JoinSupervisor, ReportSent, Task, LifeInv
<1>7. CASE NextShutdown \/ Sigterm
  BY <1>0, <1>7 DEF NextShutdown, Sigterm, Cancel, LifeInv, GracefulExit
<1>8. ASSUME NEW t \in Task, Join(t)
      PROVE  LifeInv' /\ GracefulExit'
  <2>1. /\ joined' = joined \cup {t} /\ TaskEnded(t)
        /\ cancelled => cancelled'
        /\ UNCHANGED <<mpc, result, reported, spc, conns, invoked, xpc, senders, accepted, fate>>
    BY <1>8 DEF Join, Cancel
  <2>2. "exporter" \in joined' => xpc \in {"done", "dropped"}
    BY <1>0, <2>1 DEF TaskEnded, LifeInv
  <2> QED BY <1>0, <2>1, <2>2 DEF LifeInv, GracefulExit
<1>9. CASE SettingsEnds
  BY <1>0, <1>9 DEF SettingsEnds, LifeInv, GracefulExit
<1>10. CASE RunExporter \/ RunSends
  <2>1. /\ ExporterTask \/ SendTasks
        /\ spc # "unspawned" /\ mpc # "exited"
        /\ UNCHANGED <<mpc, result, reported, spc, conns, joined, invoked>>
    BY <1>10 DEF RunExporter, RunSends, Live, Spawned
  <2>2. UNCHANGED <<senders, cancelled, accepted>>
    BY <2>1, TasksTakeNothing
  <2>3. /\ xpc' = "dropped" <=> xpc = "dropped"
        /\ xpc' = "stopping" => cancelled
        /\ xpc' \in {"draining", "done"} => xpc \in {"draining", "done"} \/ cancelled \/ ~senders
        /\ xpc = "done" => xpc' = "done"
        /\ \A i \in Item : fate'[i] = "abandoned" => fate[i] = "abandoned"
    <3>1. xpc = "stopping" => cancelled
      BY <1>0 DEF LifeInv
    <3> QED BY <1>0, <2>1, <3>1, TasksGoOn
  <2> QED BY <1>0, <2>1, <2>2, <2>3 DEF LifeInv, GracefulExit
<1>11. CASE Bind \/ Close \/ ServerEnds
  BY <1>0, <1>11 DEF Bind, Close, ServerEnds, DropSenders, Live, Spawned, LifeInv, GracefulExit
<1>12. CASE (\E i \in Item : PostOtlp(i)) \/ Telemetry \/ (\E c \in conns : Reject(c))
  <2>1. /\ Live
        /\ UNCHANGED <<mpc, result, reported, spc, joined, invoked, xpc, senders, cancelled,
                       accepted, fate>>
    BY <1>12 DEF PostOtlp, Telemetry, PostTelemetry, Reject
  <2> QED BY <1>0, <2>1 DEF LifeInv, GracefulExit, Live, Spawned
<1>13. ASSUME NEW c \in conns, Handle(c)
       PROVE  LifeInv' /\ GracefulExit'
  <2>1. /\ Live /\ Submit(c)
        /\ UNCHANGED <<mpc, result, reported, spc, joined, invoked>>
    BY <1>13 DEF Handle
  <2>2. /\ \A i \in Item : fate'[i] = "abandoned" => fate[i] = "abandoned"
        /\ UNCHANGED <<senders, cancelled, xpc>>
    BY <1>0, <2>1, SubmitAbandonsNothing
  <2> QED BY <1>0, <2>1, <2>2 DEF LifeInv, GracefulExit, Live, Spawned
<1>14. ASSUME NEW r \in Request, Dispatch(r) \/ FunctionEnds(r)
       PROVE  LifeInv' /\ GracefulExit'
  BY <1>0, <1>14 DEF Dispatch, FunctionEnds, LifeInv, GracefulExit, ExtensionTypeOK
<1>15. CASE Exited
  BY <1>1, <1>15 DEF Exited
<1> QED BY <1>1, <1>2, <1>3, <1>5, <1>6, <1>7, <1>8, <1>9, <1>10, <1>11, <1>12, <1>13, <1>14, <1>15
        DEF ExtensionNext, MainTask
-----------------------------------------------------------------------------
(***************************************************************************)
(* One flush at a time                                                     *)
(***************************************************************************)

\* The loop is left once.
LEMMA LoopLeftOnce ==
    ASSUME [Next]_exporterVars, Looping'
    PROVE  Looping
<1> USE DEF Looping
<1>1. CASE Start \/ ReceiveTelemetry \/ ReceiveFlush \/ PeriodicFlush \/ FinalExport \/ Finish
  BY <1>1 DEF Start, ReceiveTelemetry, ReceiveFlush, PeriodicFlush, FinalExport, Finish
<1>2. CASE SendTasks
  BY <1>2 DEF SendTasks, GroupFinishes, SendCompletes
<1>3. CASE Environment
  BY <1>3 DEF Environment, HandleOtlp, HandleTelemetry, Submit, Cancel, DropSenders, DropRuntime
<1>4. CASE UNCHANGED exporterVars
  BY <1>4 DEF exporterVars
<1> QED BY <1>1, <1>2, <1>3, <1>4 DEF Next, ExporterTask

\* A group's end or progress leaves no group with an id of its own behind.
LEMMA GroupIdsShrink ==
    ASSUME ExporterTypeOK, SendTasks
    PROVE  /\ \A h \in groups' : \E g \in groups : g.id = h.id
           /\ UNCHANGED <<queue, flushed>>
<1>1. PICK g \in groups : GroupFinishes(g) \/ \E s \in g.sends : SendCompletes(g, s)
  BY DEF SendTasks
<1>2. CASE GroupFinishes(g)
  BY <1>2 DEF GroupFinishes, channel, history
<1>3. ASSUME NEW s \in g.sends, SendCompletes(g, s)
      PROVE  /\ \A h \in groups' : \E k \in groups : k.id = h.id
             /\ UNCHANGED <<queue, flushed>>
  <2> DEFINE rest == [g EXCEPT !.sends = @ \ {s}]
  <2>1. g \in Group /\ groups' = (groups \ {g}) \cup {rest} /\ UNCHANGED <<queue, flushed>>
    BY <1>3 DEF SendCompletes, channel, ExporterTypeOK
  <2>2. rest.id = g.id
    BY <2>1 DEF Group
  <2> HIDE DEF rest
  <2> QED BY <2>1, <2>2
<1> QED BY <1>1, <1>2, <1>3

\* A request that is over stays over: its flush comes once.
LEMMA OverStays ==
    ASSUME ExporterInv, [Next]_exporterVars, NEW r \in Request, Over(r)
    PROVE  Over(r)'
<1>0. /\ ExporterTypeOK
      /\ r \in flushed /\ r \notin QueuedFlushes
      /\ \A g \in groups : g.id # r
      /\ r # None /\ r # Tick /\ r \notin Item
  BY ExporterAssumption DEF ExporterInv, Over, ExporterAssumption
<1>1. CASE UNCHANGED <<queue, flushed, groups>>
  BY <1>0, <1>1 DEF Over, QueuedFlushes
<1>2. CASE Start \/ Cancel \/ DropSenders \/ UNCHANGED exporterVars
  BY <1>1, <1>2 DEF Start, Cancel, DropSenders, exporterVars, channel, state, history
<1>3. CASE ReceiveTelemetry \/ ReceiveFlush
  <2>1. /\ queue # <<>> /\ queue' = Tail(queue)
        /\ UNCHANGED <<accepted, flushed, owed, fate>>
    BY <1>3 DEF ReceiveTelemetry, ReceiveFlush, history
  <2>2. /\ QueuedFlushes' \subseteq QueuedFlushes
        /\ Head(queue) \in QueuedItems \cup QueuedFlushes
    BY <2>1, ReceiveKeepsOrder
  <2>3. \A g \in groups' : g \in groups \/ g.id = None \/ g.id = Head(queue)
    BY <1>3 DEF ReceiveTelemetry, ReceiveFlush, export
  <2>4. Head(queue) # r
    BY <1>0, <2>2 DEF QueuedItems
  <2> QED BY <1>0, <2>1, <2>2, <2>3, <2>4 DEF Over
<1>4. CASE PeriodicFlush \/ FinalExport
  <2>1. /\ \A g \in groups' : g \in groups \/ g.id = None \/ g.id = Tick
        /\ UNCHANGED <<queue, flushed>>
    BY <1>4 DEF PeriodicFlush, FinalExport, export, channel, history
  <2> QED BY <1>0, <2>1 DEF Over, QueuedFlushes
<1>5. CASE Finish \/ DropRuntime
  <2>1. queue' = <<>> /\ groups' \subseteq groups /\ flushed' = flushed
    BY <1>5 DEF Finish, DropRuntime, state
  <2>2. QueuedFlushes' = {}
    BY <2>1, EmptyChannel
  <2> QED BY <1>0, <2>1, <2>2 DEF Over
<1>6. CASE SendTasks
  BY <1>0, <1>6, GroupIdsShrink DEF Over, QueuedFlushes
<1>7. CASE (\E i \in Item : HandleOtlp(i)) \/ HandleTelemetry
  <2>1. PICK m : Batch(m) /\ Submit(m)
    BY <1>0, <1>7, HandlersSendBatches
  <2>2. /\ flushed \subseteq flushed' /\ groups' = groups
        /\ queue' = queue \/ queue' = queue \o m
    BY <2>1 DEF Submit, state
  <2>3. queue \in Seq(ServiceRequest) /\ m \in Seq(ServiceRequest) /\ r \notin ToSet(m)
    BY <1>0, <2>1 DEF Batch, ExporterTypeOK
  <2>4. ToSet(queue \o m) = ToSet(queue) \cup ToSet(m)
    BY ONLY <2>3, ConcatFacts, Zenon
  <2> QED BY <1>0, <2>2, <2>3, <2>4 DEF Over, QueuedFlushes
<1> QED BY <1>2, <1>3, <1>4, <1>5, <1>6, <1>7 DEF Next, ExporterTask, Environment

\* A step that begins no turn of main and of the platform keeps the turns.
LEMMA TurnsKept ==
    ASSUME ExtensionInv, [Next]_exporterVars,
           mpc' = "next" => mpc = "next" /\ event' = event,
           mpc' = "waiting" => mpc = "waiting" /\ awaited' = awaited,
           invoked' = invoked
    PROVE  TurnsInv'
<1>1. ExporterInv /\ TurnsInv /\ invoked \subseteq Request
  BY DEF ExtensionInv, ExtensionTypeOK
<1>2. \A r \in invoked : Over(r) => Over(r)'
  BY <1>1, OverStays
<1>3. Looping' => Looping
  BY LoopLeftOnce
<1>4. UniqueIds' = UniqueIds
  BY DEF UniqueIds
<1> QED BY <1>1, <1>2, <1>3, <1>4 DEF TurnsInv, Looping

\* What the watch channel shows is over.
LEMMA ShownIsOver ==
    ASSUME ExtensionInv, watch \in Request
    PROVE  Over(watch)
BY DEF ExtensionInv, ExporterInv, NotifySound, Over

\* Without retries, the request main is notified of is the one it awaits.
LEMMA NotifiedOfShown ==
    ASSUME UniqueIds, NEW r \in Request, Notified(r)
    PROVE  watch = r
BY DEF UniqueIds, Notified

LEMMA TurnsStep ==
    ASSUME ExtensionInv, [ExtensionNext]_vars
    PROVE  TurnsInv'
<1>0. /\ [Next]_exporterVars /\ ExporterInv /\ TurnsInv /\ invoked \subseteq Request
      /\ event \in Request \cup {None}
      /\ mpc = "subscribing" => invoked = {}
      /\ mpc = "waiting" => event = None /\ awaited \in Request
      /\ UniqueIds' = UniqueIds
  BY StepOfExporter DEF ExtensionInv, ExtensionTypeOK, LifeInv, PlatformInv, UniqueIds
<1> USE DEF mainVars, taskVars, platformVars
<1>1. CASE UNCHANGED vars
  BY <1>0, <1>1, TurnsKept DEF vars
<1>2. CASE Register \/ SubscribeCancelled \/ RequestFails \/ NextShutdown
  BY <1>0, <1>2, TurnsKept DEF Register, SubscribeCancelled, RequestFails, NextShutdown, Exit
<1>3. CASE Subscribe
  <2>1. invoked' = {}
    BY <1>0, <1>3 DEF Subscribe
  <2> QED BY <2>1 DEF TurnsInv
<1>4. CASE NextInvoke
  <2>1. /\ event \in Request /\ event' = None /\ awaited' = event /\ mpc = "next"
        /\ mpc' = "next" => Notified(event)
        /\ UNCHANGED <<exporterVars, invoked>>
    BY <1>0, <1>4 DEF NextInvoke
  <2>2. \A r : Over(r)' <=> Over(r)
    BY <2>1 DEF Over, QueuedFlushes, exporterVars, channel, state, history
  <2>3. UniqueIds /\ mpc' = "next" => Over(event)
    BY <2>1, NotifiedOfShown, ShownIsOver
  <2>4. xpc' = xpc
    BY <2>1 DEF exporterVars
  <2> QED BY <1>0, <2>1, <2>2, <2>3, <2>4 DEF TurnsInv, Looping
<1>5. CASE WaitReturns
  <2>1. /\ mpc = "waiting" /\ mpc' # "waiting"
        /\ Notified(awaited) \/ xpc = "done"
        /\ UNCHANGED <<exporterVars, awaited, invoked>>
    BY <1>5 DEF WaitReturns, LoopHead
  <2>2. \A r : Over(r)' <=> Over(r)
    BY <2>1 DEF Over, QueuedFlushes, exporterVars, channel, state, history
  <2>3. UniqueIds /\ Notified(awaited) => Over(awaited)
    BY <1>0, <2>1, NotifiedOfShown, ShownIsOver
  <2>4. xpc' = xpc
    BY <2>1 DEF exporterVars
  <2> QED BY <1>0, <2>1, <2>2, <2>3, <2>4 DEF TurnsInv, Looping
<1>6. CASE WaitCancelled \/ NextCancelled \/ JoinSupervisor \/ ReportSent
  BY <1>0, <1>6, TurnsKept DEF WaitCancelled, NextCancelled, JoinSupervisor, ReportSent, Exit
<1>7. CASE Sigterm \/ (\E t \in Task : Join(t)) \/ SettingsEnds \/ RunExporter \/ RunSends
  BY <1>0, <1>7, TurnsKept DEF Sigterm, Join, SettingsEnds, RunExporter, RunSends
<1>8. CASE \/ Bind \/ Close \/ ServerEnds \/ Telemetry \/ \E i \in Item : PostOtlp(i)
           \/ \E c \in conns : Handle(c) \/ Reject(c)
  BY <1>0, <1>8, TurnsKept DEF Bind, Close, ServerEnds, Telemetry, PostTelemetry, PostOtlp, Handle,
     Reject
<1>9. ASSUME NEW r \in Request, Dispatch(r)
      PROVE  TurnsInv'
  <2>1. /\ mpc = "next" /\ mpc' = mpc
        /\ ~Managed => event = None /\ event' = r
        /\ invoked' = invoked \cup {r}
        /\ UNCHANGED exporterVars
    BY <1>9 DEF Dispatch
  <2>2. \A q : Over(q)' <=> Over(q)
    BY <2>1 DEF Over, QueuedFlushes, exporterVars, channel, state, history
  <2>3. xpc' = xpc
    BY <2>1 DEF exporterVars
  <2>4. None \notin invoked
    BY <1>0, ExporterAssumption DEF ExporterAssumption
  <2> QED BY <1>0, <2>1, <2>2, <2>3, <2>4 DEF TurnsInv, Looping
<1>10. ASSUME NEW r \in Request, FunctionEnds(r)
       PROVE  TurnsInv'
  BY <1>0, <1>10, TurnsKept DEF FunctionEnds
<1>11. CASE Exited
  BY <1>1, <1>11 DEF Exited
<1> QED BY <1>1, <1>2, <1>3, <1>4, <1>5, <1>6, <1>7, <1>8, <1>9, <1>10, <1>11
        DEF ExtensionNext, MainTask
-----------------------------------------------------------------------------
(***************************************************************************)
(* The inductive invariant and what follows from it                        *)
(***************************************************************************)

LEMMA ExtensionInvInit == ExtensionInit => ExtensionInv
<1> SUFFICES ASSUME ExtensionInit PROVE ExtensionInv
  OBVIOUS
<1>1. ExtensionTypeOK /\ ExporterInv
  BY InvInit, ExtensionTypeInit DEF ExtensionInit
<1>2. LifeInv /\ GracefulExit
  BY ExtensionAssumption DEF ExtensionAssumption, ExtensionInit, Init, LifeInv, GracefulExit
<1>3. ConnsInv /\ PlatformInv
  BY DEF ExtensionInit, Init, ConnsInv, PlatformInv, InFlight
<1>4. TurnsInv
  BY DEF ExtensionInit, TurnsInv
<1> QED BY <1>1, <1>2, <1>3, <1>4 DEF ExtensionInv

LEMMA ExtensionInvStep == ExtensionInv /\ [ExtensionNext]_vars => ExtensionInv'
<1> SUFFICES ASSUME ExtensionInv, [ExtensionNext]_vars PROVE ExtensionInv'
  OBVIOUS
<1>1. ExporterInv'
  BY StepOfExporter, InvStep DEF ExtensionInv
<1>2. ExtensionTypeOK'
  BY <1>1, ExtensionTypeStep DEF ExporterInv
<1> QED BY <1>1, <1>2, LifeStep, ConnsStep, TurnsStep DEF ExtensionInv

(***************************************************************************)
(* The process keeps ExtensionInv whatever the platform, the clients, the  *)
(* collector and the signals do: messages, requests, tasks and main are    *)
(* each in one place of their life, and main and the platform take turns.  *)
(***************************************************************************)
THEOREM ExtensionInvHolds == SafeExtensionSpec => []ExtensionInv
<1> QED BY ExtensionInvInit, ExtensionInvStep, PTL DEF SafeExtensionSpec

(***************************************************************************)
(* The state of main, the supervisor, the server and the platform is       *)
(* always one of those named; which error main reports tells how far the   *)
(* start had come.                                                         *)
(***************************************************************************)
THEOREM ExtensionTypeCorrect == SafeExtensionSpec => []ExtensionTypeOK
<1>1. ExtensionInv => ExtensionTypeOK
  BY DEF ExtensionInv
<1> QED BY <1>1, ExtensionInvHolds, PTL

(***************************************************************************)
(* main returning Ok abandons no telemetry: JoinSupervisor is reached only *)
(* after the exporter task drained its tracker, and a cancellation before  *)
(* the tasks are spawned finds nothing accepted.                           *)
(***************************************************************************)
THEOREM ExitsGracefully == SafeExtensionSpec => []GracefulExit
<1>1. ExtensionInv => GracefulExit
  BY DEF ExtensionInv
<1> QED BY <1>1, ExtensionInvHolds, PTL

(***************************************************************************)
(* A classic runtime's main that asks for the next event has left no flush *)
(* of an earlier invocation, queued or exporting, behind it, as long as no *)
(* invocation is retried: main is not made to wait for a retry when the    *)
(* channel still shows its ID from the attempt before.                     *)
(***************************************************************************)
THEOREM FlushesOneAtATime ==
    ASSUME UniqueIds
    PROVE  SafeExtensionSpec => []OneFlushAtATime
<1>1. ExtensionInv => OneFlushAtATime
  <2> SUFFICES ASSUME ExtensionInv, mpc = "next", ~cancelled, ~Managed,
                      spc \in {"binding", "serving"}
               PROVE  \A r \in invoked \ {event} : Over(r)
    BY DEF OneFlushAtATime
  <2>1. Looping
    BY DEF ExtensionInv, LifeInv, ExporterInv, ExporterTypeOK, Looping
  <2> QED BY <2>1 DEF ExtensionInv, TurnsInv
<1> QED BY <1>1, ExtensionInvHolds, PTL

(***************************************************************************)
(* The process drives its exporter as Exporter.tla allows: every handler   *)
(* sends messages that are new, and nothing is sent once the channel has   *)
(* no sender.  All that is proved of Exporter holds inside the process.    *)
(***************************************************************************)
THEOREM ExtensionImplementsExporter == SafeExtensionSpec => ImplementsExporter
<1>1. ExtensionInit => Init
  BY DEF ExtensionInit
<1> QED BY <1>1, StepOfExporter, ExtensionInvHolds, PTL
        DEF SafeExtensionSpec, ImplementsExporter, Spec
-----------------------------------------------------------------------------
(***************************************************************************)
(* What a notification means                                               *)
(***************************************************************************)

\* What is settled stays so.
LEMMA SettledStays ==
    ASSUME ExporterInv, [Next]_exporterVars
    PROVE  Settled \subseteq Settled'
<1>0. fate \in [Item -> Fate] /\ AcceptedFirst
  BY DEF ExporterInv, ExporterTypeOK
<1> USE DEF Settled
<1>1. CASE UNCHANGED fate
  BY <1>1
<1>2. CASE ExporterTask \/ Cancel \/ DropSenders \/ UNCHANGED exporterVars
  <2>1. CASE Finish
    BY <1>0, <2>1 DEF Finish
  <2> QED BY <1>1, <1>2, <2>1 DEF ExporterTask, Start, ReceiveTelemetry, ReceiveFlush,
             PeriodicFlush, FinalExport, Cancel, DropSenders, exporterVars, history
<1>3. CASE SendTasks
  <2>1. PICK g \in groups : GroupFinishes(g) \/ \E s \in g.sends : SendCompletes(g, s)
    BY <1>3 DEF SendTasks
  <2> QED BY <1>0, <1>1, <2>1 DEF GroupFinishes, SendCompletes, history
<1>4. CASE DropRuntime
  BY <1>0, <1>4 DEF DropRuntime
<1>5. CASE (\E i \in Item : HandleOtlp(i)) \/ HandleTelemetry
  BY <1>0, <1>5 DEF HandleOtlp, HandleTelemetry, Submit
<1> QED BY <1>2, <1>3, <1>4, <1>5 DEF Next, Environment

\* What a request that was flushed is owed is settled once and for all.
LEMMA OwedStays ==
    ASSUME ExporterInv, [Next]_exporterVars, NEW r \in flushed
    PROVE  owed'[r] = owed[r]
<1>0. ExporterTypeOK /\ r \in Request /\ owed \in [Request -> SUBSET Item]
  BY DEF ExporterInv, ExporterTypeOK
<1>1. CASE ExporterTask \/ SendTasks
  BY <1>1, TasksTakeNothing
<1>2. CASE DropRuntime \/ Cancel \/ DropSenders
  BY <1>2, EndsTakeNothing
<1>3. CASE UNCHANGED exporterVars
  BY <1>3 DEF exporterVars, history
<1>4. CASE (\E i \in Item : HandleOtlp(i)) \/ HandleTelemetry
  <2>1. PICK m : Batch(m) /\ Submit(m)
    BY <1>0, <1>4, HandlersSendBatches
  <2>2. r \notin ToSet(m)
    BY <2>1 DEF Batch
  <2> QED BY <1>0, <2>1, <2>2 DEF Submit
<1> QED BY <1>1, <1>2, <1>3, <1>4 DEF Next, Environment

\* While a flush is queued in the loop of a classic runtime, no group is left.
LEMMA QueuedFlushAlone ==
    ASSUME ExtensionInv, ~Managed, UniqueIds, Looping, \A g \in groups : g.id \in Request,
           NEW r \in QueuedFlushes
    PROVE  groups = {}
<1> SUFFICES ASSUME NEW g \in groups PROVE FALSE
  OBVIOUS
<1>1. /\ g.id \in flushed /\ g.id \notin QueuedFlushes
      /\ r \in flushed
  BY DEF ExtensionInv, ExporterInv, GroupInv, QueueInv
<1>2. r \in invoked /\ g.id \in invoked
  BY <1>1 DEF ExtensionInv, PlatformInv
<1>3. ~Over(r) /\ ~Over(g.id)
  BY DEF Over
<1> QED BY <1>1, <1>2, <1>3 DEF ExtensionInv, TurnsInv

\* Groups that shrink by what is settled keep their part of SettleInv.
LEMMA FlushSettlesKept ==
    ASSUME ExporterInv, [Next]_exporterVars, FlushSettles, watch' = watch
    PROVE  FlushSettles'
<1> SUFFICES ASSUME NEW r \in Request, watch' = r
             PROVE  owed'[r] \subseteq Settled'
  BY DEF FlushSettles
<1>1. r \in flushed /\ owed[r] \subseteq Settled
  BY DEF ExporterInv, NotifySound, FlushSettles
<1> QED BY <1>1, OwedStays, SettledStays

\* The groups that are left as they are keep what they send.
LEMMA OwedKept ==
    ASSUME ExporterInv, [Next]_exporterVars, SettleInv, NEW g \in groups, g.id \in Request
    PROVE  owed'[g.id] \ Settled' \subseteq ItemsOf(g)
<1>1. g.id \in flushed
  BY DEF ExporterInv, GroupInv
<1> QED BY <1>1, OwedStays, SettledStays DEF SettleInv

LEMMA SettleFlush ==
    ASSUME ExtensionInv, SettleInv, ~Managed, UniqueIds, ReceiveFlush
    PROVE  SettleInv'
<1>0. ExporterInv /\ ExporterTypeOK /\ [Next]_exporterVars
  BY DEF ExtensionInv, ExporterInv, Next, ExporterTask
<1>1. PICK r \in Request : r = Head(queue)
  BY DEF ReceiveFlush
<1>2. /\ xpc = "receiving" /\ queue # <<>> /\ queue' = Tail(queue)
      /\ export(r, held)
      /\ UNCHANGED <<watch, accepted, flushed, owed, fate>>
  BY <1>1 DEF ReceiveFlush, history
<1>3. /\ QueuedItems' = QueuedItems \ {r}
      /\ r \in QueuedItems \cup QueuedFlushes
      /\ owed[r] \cap QueuedItems' = {}
  BY <1>0, <1>1, <1>2, ReceiveKeepsOrder
<1>4. r \in QueuedFlushes /\ r \notin Item
  BY <1>1, <1>3, ExporterAssumption DEF QueuedItems, ExporterAssumption
<1>5. groups = {}
  BY <1>2, <1>4, QueuedFlushAlone DEF SettleInv, Looping
<1> DEFINE new == [n |-> exports, id |-> r, sends |-> Sends(held)]
<1>6. groups' = {new}
  BY <1>2, <1>5 DEF export
<1>7. new.id = r /\ ItemsOf(new) = held
  BY <1>0, SendsPartition DEF ItemsOf, ExporterTypeOK
<1>8. owed[r] \ Settled \subseteq held
  <2>1. owed[r] \subseteq accepted
    BY <1>0 DEF ExporterInv, AcceptedFirst
  <2>2. owed[r] \ Settled \subseteq Pending
    BY <1>0, <2>1 DEF Settled, Pending, ExporterTypeOK
  <2>3. Pending = QueuedItems \cup held
    BY <1>0, <1>5 DEF ExporterInv, ExactlyOnce, SendingItems
  <2> QED BY <1>3, <1>4, <2>2, <2>3 DEF QueuedItems
<1> HIDE DEF new
<1>9. Settled' = Settled /\ owed' = owed
  BY <1>2 DEF Settled
<1>10. FlushSettles'
  BY <1>0, <1>2, FlushSettlesKept DEF SettleInv
<1> QED BY <1>6, <1>7, <1>8, <1>9, <1>10 DEF SettleInv, ItemsOf

LEMMA SettleSend ==
    ASSUME ExporterInv, SettleInv, SendTasks
    PROVE  SettleInv'
<1>0. ExporterTypeOK /\ [Next]_exporterVars /\ groups \subseteq Group
  BY DEF ExporterInv, Next, ExporterTypeOK
<1>1. PICK g \in groups : GroupFinishes(g) \/ \E s \in g.sends : SendCompletes(g, s)
  BY DEF SendTasks
<1>2. \A h \in groups : h.id \in Request => owed'[h.id] \ Settled' \subseteq ItemsOf(h)
  BY <1>0, OwedKept
<1>3. Looping' => \A h \in groups' : h.id \in Request
  BY <1>0, GroupIdsShrink, LoopLeftOnce DEF SettleInv
<1>4. CASE GroupFinishes(g)
  <2>1. /\ groups' = groups \ {g} /\ g.sends = {}
        /\ watch' = g.id
        /\ UNCHANGED <<owed, fate>>
    BY <1>4 DEF GroupFinishes, history
  <2>2. g.id \in Request => owed[g.id] \subseteq Settled
    BY <2>1 DEF SettleInv, ItemsOf
  <2>3. FlushSettles'
    BY <2>1, <2>2 DEF FlushSettles, Settled
  <2> QED BY <1>2, <1>3, <2>1, <2>3 DEF SettleInv, ItemsOf
<1>5. ASSUME NEW s \in g.sends, SendCompletes(g, s)
      PROVE  SettleInv'
  <2> DEFINE rest == [g EXCEPT !.sends = @ \ {s}]
  <2>1. groups' = (groups \ {g}) \cup {rest} /\ watch' = watch
    BY <1>5 DEF SendCompletes
  <2>2. rest.id = g.id /\ rest.sends = g.sends \ {s}
    BY <1>0 DEF Group
  <2> HIDE DEF rest
  <2>3. s \subseteq Settled'
    BY <1>0, <1>5 DEF SendCompletes, Settled, Group
  <2>4. ItemsOf(g) \subseteq ItemsOf(rest) \cup s
    BY <2>2 DEF ItemsOf
  <2>5. FlushSettles'
    BY <1>0, <2>1, FlushSettlesKept DEF SettleInv
  <2>6. g.id \in Request => owed'[rest.id] \ Settled' \subseteq ItemsOf(rest)
    BY <1>2, <2>2, <2>3, <2>4
  <2> QED BY <1>2, <1>3, <2>1, <2>2, <2>5, <2>6 DEF SettleInv, ItemsOf
<1> QED BY <1>1, <1>4, <1>5

\* Every other step leaves the groups of requests as they are.
LEMMA SettleKept ==
    ASSUME ExporterInv, [Next]_exporterVars, SettleInv, watch' = watch,
           \A g \in groups' : g \in groups \/ (~Looping' /\ g.id \notin Request)
    PROVE  SettleInv'
<1>1. \A g \in groups : g.id \in Request => owed'[g.id] \ Settled' \subseteq ItemsOf(g)
  BY OwedKept
<1>2. FlushSettles' /\ (Looping' => Looping)
  BY FlushSettlesKept, LoopLeftOnce DEF SettleInv
<1> QED BY <1>1, <1>2 DEF SettleInv, ItemsOf

LEMMA SettleStep ==
    ASSUME ExtensionInv, SettleInv, ~Managed, UniqueIds, [ExtensionNext]_vars, ~Overflows
    PROVE  SettleInv'
<1>0. ExporterInv /\ [Next]_exporterVars
  BY StepOfExporter DEF ExtensionInv
<1>1. CASE UNCHANGED <<watch, groups>>
  BY <1>0, <1>1, SettleKept
<1>2. CASE ReceiveTelemetry
  <2>1. exports' = exports /\ exports \in Nat /\ watch' = watch
    BY <1>0, <1>2 DEF Overflows, ReceiveTelemetry, ExporterInv, ExporterTypeOK
  <2>2. groups' = groups
    BY <1>2, <2>1 DEF ReceiveTelemetry, export
  <2> QED BY <1>1, <2>1, <2>2
<1>3. CASE FinalExport
  <2>1. /\ watch' = watch
        /\ \A g \in groups' : g \in groups \/ (~Looping' /\ g.id \notin Request)
    BY <1>3, ExporterAssumption DEF FinalExport, export, Looping, ExporterAssumption
  <2> QED BY <1>0, <2>1, SettleKept
<1>4. CASE Finish
  BY <1>1, <1>4 DEF Finish, state
<1>5. CASE DropRuntime
  <2>1. watch' = watch /\ groups' = {}
    BY <1>5 DEF DropRuntime
  <2> QED BY <1>0, <2>1, SettleKept
<1>6. CASE Start \/ Cancel \/ DropSenders \/ UNCHANGED exporterVars
  BY <1>1, <1>6 DEF Start, Cancel, DropSenders, exporterVars, state
<1>7. CASE (\E i \in Item : HandleOtlp(i)) \/ HandleTelemetry
  BY <1>1, <1>7 DEF HandleOtlp, HandleTelemetry, Submit, state
<1> QED BY <1>0, <1>2, <1>3, <1>4, <1>5, <1>6, <1>7, SettleFlush, SettleSend
        DEF Next, ExporterTask, Environment, PeriodicFlush

LEMMA SettleInit == ExtensionInit => SettleInv
<1> SUFFICES ASSUME ExtensionInit PROVE SettleInv
  OBVIOUS
<1>1. groups = {} /\ watch = None
  BY DEF ExtensionInit, Init
<1> QED BY <1>1, ExporterAssumption DEF SettleInv, FlushSettles, ExporterAssumption

(***************************************************************************)
(* The inductive invariant of a classic runtime without overflow and       *)
(* without retries: what a request is owed is settled, or in the group of  *)
(* its own export.                                                         *)
(***************************************************************************)
THEOREM SettleInvHolds ==
    ASSUME ~Managed, UniqueIds
    PROVE  SafeExtensionSpec /\ [][~Overflows]_vars => []SettleInv
<1>1. ExtensionInv /\ SettleInv /\ [ExtensionNext]_vars /\ [~Overflows]_vars => SettleInv'
  <2> SUFFICES ASSUME ExtensionInv, SettleInv, [ExtensionNext]_vars, [~Overflows]_vars
               PROVE  SettleInv'
    OBVIOUS
  <2>1. CASE UNCHANGED vars
    <3>1. UNCHANGED exporterVars
      BY <2>1 DEF vars
    <3>2. ExporterInv /\ UNCHANGED <<watch, groups>>
      BY <3>1 DEF exporterVars, state, ExtensionInv
    <3> QED BY <3>1, <3>2, SettleKept
  <2>2. CASE ~Overflows
    BY <2>2, SettleStep
  <2> QED BY <2>1, <2>2
<1> QED BY <1>1, SettleInit, ExtensionInvHolds, PTL DEF SafeExtensionSpec

(***************************************************************************)
(* In a classic runtime whose buffer does not overflow and without         *)
(* retries, the notification main waits for means what the comment at      *)
(* main.rs:120 says: everything accepted before the runtimeDone of the     *)
(* request has been answered or given up.  The run overflow_flush refutes  *)
(* it with an overflow; a managed runtime's periodic flush exports for no  *)
(* request in the same way.                                                *)
(***************************************************************************)
THEOREM FlushesSettle ==
    ASSUME ~Managed, UniqueIds
    PROVE  SafeExtensionSpec /\ [][~Overflows]_vars => []FlushSettles
<1>1. SettleInv => FlushSettles
  BY DEF SettleInv
<1> QED BY <1>1, SettleInvHolds, PTL
=============================================================================
