--------------------------- MODULE SettingsProofs ---------------------------
(***************************************************************************)
(* Theorems about Settings.tla, for every interval, every slack of the     *)
(* timer and any number of versions of the settings.                       *)
(***************************************************************************)
EXTENDS Settings, FiniteSetTheorems, TLAPS

-----------------------------------------------------------------------------
\* Content and the values that stand for its absence are distinct.
LEMMA ContentFacts ==
    /\ MaxVersion \in Nat
    /\ Content = 0 .. MaxVersion
    /\ Version \subseteq Content
    /\ NoReply \notin Content /\ Failure \notin Content
    /\ NoFile \notin Content /\ Torn \notin Content
    /\ {NoReply, Failure, NoFile, Torn} \cap Version = {}
BY SettingsAssumption DEF Content, Version

\* A set of at most one element is counted as such.
LEMMA AtMostOne ==
    ASSUME NEW S, \A x, y \in S : x = y
    PROVE  Cardinality(S) <= 1
<1>1. CASE S = {}
  BY <1>1, FS_EmptySet
<1>2. CASE S # {}
  <2>1. PICK x : S = {x}
    BY <1>2
  <2> QED BY <2>1, FS_Singleton
<1> QED BY <1>1, <1>2

\* A write that moves on is still the only one.
LEMMA MovedFacts ==
    ASSUME SettingsInv, NEW w \in writes, NEW stage \in {"queued", "open", "returned"},
           writes' = Moved(w, stage)
    PROVE  /\ writes = {w}
           /\ w \in Write
           /\ writes' = {[content |-> w.content, stage |-> stage]}
           /\ writes' \subseteq Write
           /\ Cardinality(writes') <= 1
           /\ pc \in {"writing", "gone"}
<1>1. writes = {w} /\ w \in Write
  BY DEF SettingsInv, WriteInv, SettingsTypeOK
<1>2. writes' = {[content |-> w.content, stage |-> stage]}
  BY <1>1 DEF Moved, Write
<1>3. writes' \subseteq Write
  BY <1>1, <1>2 DEF Write
<1>4. Cardinality(writes') <= 1
  BY <1>2, AtMostOne
<1>5. pc \in {"writing", "gone"}
  BY DEF SettingsInv, WriteInv, SettingsTypeOK
<1> QED BY <1>1, <1>2, <1>3, <1>4, <1>5

LEMMA InitInv == Init => SettingsInv
<1> SUFFICES ASSUME Init PROVE SettingsInv
  OBVIOUS
<1>1. SettingsTypeOK
  <2>1. Cardinality(writes) <= 1
    BY AtMostOne DEF Init
  <2>2. 1 \in Version /\ 0 \in 0 .. MaxVersion
    BY SettingsAssumption DEF Version
  <2>3. left \in -SLACK - 1 .. INTERVAL /\ age \in 0 .. INTERVAL
    BY SettingsAssumption DEF Init
  <2> QED
    BY <2>1, <2>2, <2>3 DEF Init, SettingsTypeOK
<1>2. WriteInv /\ TornInv /\ TimeInv
  BY SettingsAssumption DEF Init, WriteInv, TornInv, TimeInv
<1>3. OrderInv
  BY SettingsAssumption, ContentFacts DEF Init, OrderInv, Follows
<1> QED BY <1>1, <1>2, <1>3 DEF SettingsInv

-----------------------------------------------------------------------------
(***************************************************************************)
(* The steps, by who makes them.                                           *)
(***************************************************************************)
LEMMA TaskStep ==
    ASSUME SettingsInv, SettingsTask
    PROVE  SettingsInv'
<1> USE SettingsAssumption, ContentFacts
<1>1. CASE Tick
  <2>1. SettingsTypeOK'
    BY <1>1 DEF SettingsInv, SettingsTypeOK, Tick, NextDeadline, Await, disk
  <2>2. WriteInv' /\ TornInv' /\ OrderInv'
    BY <1>1 DEF SettingsInv, WriteInv, TornInv, OrderInv, Follows, Tick, Await, disk
  <2>3. TimeInv'
    BY <1>1 DEF SettingsInv, SettingsTypeOK, TimeInv, Tick, NextDeadline
  <2> QED BY <2>1, <2>2, <2>3 DEF SettingsInv
<1>2. CASE WaitCancelled \/ FetchCancelled
  BY <1>2 DEF SettingsInv, SettingsTypeOK, WriteInv, TornInv, TimeInv, OrderInv,
      Follows, WaitCancelled, FetchCancelled, disk
<1>3. CASE FetchOk
  <2>1. writes = {} /\ reply \in Content
    BY <1>3 DEF SettingsInv, WriteInv, FetchOk
  <2>2. writes' = {[content |-> reply, stage |-> "queued"]}
    BY <1>3, <2>1 DEF FetchOk
  <2>3. Cardinality(writes') <= 1
    BY <2>2, AtMostOne
  <2>4. SettingsTypeOK'
    BY <1>3, <2>1, <2>2, <2>3 DEF SettingsInv, SettingsTypeOK, FetchOk, Write
  <2>5. WriteInv' /\ TornInv' /\ TimeInv'
    BY <1>3, <2>1, <2>2 DEF SettingsInv, WriteInv, TornInv, TimeInv, FetchOk
  <2>6. OrderInv'
    BY <1>3, <2>1, <2>2 DEF SettingsInv, SettingsTypeOK, OrderInv, Follows, FetchOk
  <2> QED BY <2>4, <2>5, <2>6 DEF SettingsInv
<1>4. CASE FetchFails
  BY <1>4 DEF SettingsInv, SettingsTypeOK, WriteInv, TornInv, TimeInv, OrderInv,
      Follows, FetchFails, Await, disk
<1>5. CASE WriteReturns
  <2>1. PICK w \in writes : w.stage = "returned" /\ writes' = writes \ {w}
    BY <1>5 DEF WriteReturns
  <2>2. writes' = {} /\ writes = {w}
    BY <2>1 DEF SettingsInv, WriteInv
  <2>3. SettingsTypeOK'
    <3>1. Cardinality(writes') <= 1
      BY <2>2, AtMostOne
    <3> QED
      BY <1>5, <2>2, <3>1 DEF SettingsInv, SettingsTypeOK, WriteReturns, Await
  <2>4. TornInv'
    BY <1>5, <2>1, <2>2 DEF SettingsInv, TornInv, WriteReturns
  <2>5. WriteInv' /\ TimeInv' /\ OrderInv'
    BY <1>5, <2>2 DEF SettingsInv, WriteInv, TimeInv, OrderInv, Follows, WriteReturns, Await
  <2> QED BY <2>3, <2>4, <2>5 DEF SettingsInv
<1> QED BY <1>1, <1>2, <1>3, <1>4, <1>5 DEF SettingsTask

LEMMA ThreadStep ==
    ASSUME SettingsInv, NEW w \in writes, BlockingThread(w)
    PROVE  SettingsInv'
<1> USE SettingsAssumption, ContentFacts
<1>1. UNCHANGED <<task, cancelled, current, seen>>
  BY DEF BlockingThread, Open, OpenFails, WriteAll, WriteFails
<1>2. PICK stage \in {"queued", "open", "returned"} : writes' = Moved(w, stage)
  BY DEF BlockingThread, Open, OpenFails, WriteAll, WriteFails
<1>3. /\ writes = {w} /\ w \in Write
      /\ writes' = {[content |-> w.content, stage |-> stage]}
      /\ writes' \subseteq Write /\ Cardinality(writes') <= 1
      /\ pc \in {"writing", "gone"}
  BY <1>2, MovedFacts
<1>4. WriteInv' /\ TimeInv'
  BY <1>1, <1>3 DEF SettingsInv, WriteInv, TimeInv, task
<1>5. CASE Open(w) \/ OpenFails(w)
  <2>1. SettingsTypeOK'
    BY <1>1, <1>3, <1>5 DEF SettingsInv, SettingsTypeOK, Open, OpenFails, task
  <2>2. CASE Open(w)
    <3>1. file' = Torn /\ [content |-> w.content, stage |-> "open"] \in writes'
      BY <1>3, <2>2 DEF Open, Moved, Write
    <3>2. TornInv'
      BY <3>1 DEF TornInv
    <3>3. OrderInv'
      BY <1>1, <1>3, <3>1 DEF SettingsInv, SettingsTypeOK, OrderInv, Follows, task
    <3> QED BY <1>4, <2>1, <3>2, <3>3 DEF SettingsInv
  <2>3. CASE OpenFails(w)
    <3>1. UNCHANGED <<file, lastEnd>> /\ w.stage = "queued"
      BY <2>3 DEF OpenFails
    <3>2. TornInv'
      BY <1>3, <3>1 DEF SettingsInv, TornInv
    <3>3. OrderInv'
      BY <1>1, <1>3, <3>1 DEF SettingsInv, SettingsTypeOK, OrderInv, Follows, task
    <3> QED BY <1>4, <2>1, <3>2, <3>3 DEF SettingsInv
  <2> QED BY <1>5, <2>2, <2>3
<1>6. CASE WriteAll(w)
  <2>1. file' = w.content /\ w.content \in Content /\ lastEnd' = "whole"
    BY <1>3, <1>6 DEF WriteAll, Write
  <2>2. SettingsTypeOK'
    BY <1>1, <1>3, <2>1 DEF SettingsInv, SettingsTypeOK, task
  <2>3. TornInv'
    BY <2>1 DEF TornInv
  <2>4. OrderInv'
    <3>1. reply = NoReply
      BY <1>3 DEF SettingsInv, WriteInv
    <3> QED BY <1>1, <1>3, <2>1, <3>1 DEF SettingsInv, OrderInv, Follows, task
  <2> QED BY <1>4, <2>2, <2>3, <2>4 DEF SettingsInv
<1>7. CASE WriteFails(w)
  <2>1. file' = file /\ lastEnd' = "failed"
    BY <1>7 DEF WriteFails
  <2>2. SettingsTypeOK'
    BY <1>1, <1>3, <2>1 DEF SettingsInv, SettingsTypeOK, task
  <2>3. TornInv' /\ OrderInv'
    BY <1>1, <1>3, <2>1 DEF SettingsInv, TornInv, OrderInv, Follows, task
  <2> QED BY <1>4, <2>2, <2>3 DEF SettingsInv
<1> QED BY <1>5, <1>6, <1>7 DEF BlockingThread

LEMMA EnvironmentStep ==
    ASSUME SettingsInv, Environment
    PROVE  SettingsInv'
<1> USE SettingsAssumption, ContentFacts
<1>1. CASE Answer
  <2>1. /\ pc = "fetching"
        /\ reply' \in {current, ErrorBody, Failure}
        /\ UNCHANGED <<pc, left, age, cancelled, writes, file, lastEnd, current, seen>>
    BY <1>1 DEF Answer, disk
  <2>2. SettingsTypeOK'
    <3>1. reply' \in Content \cup {NoReply, Failure}
      BY <2>1 DEF SettingsInv, SettingsTypeOK, Content, ErrorBody
    <3> QED BY <2>1, <3>1 DEF SettingsInv, SettingsTypeOK
  <2>3. WriteInv' /\ TornInv' /\ TimeInv'
    BY <2>1 DEF SettingsInv, WriteInv, TornInv, TimeInv
  <2>4. OrderInv'
    <3>1. Follows(reply)'
      <4>1. Follows(current)
        BY DEF SettingsInv, SettingsTypeOK, OrderInv, Follows, Version
      <4>2. ErrorBody \notin Version /\ Failure \notin Version
        BY DEF ErrorBody, Version
      <4> QED BY <2>1, <4>1, <4>2 DEF Follows
    <3> QED BY <2>1, <3>1 DEF SettingsInv, OrderInv, Follows
  <2> QED BY <2>2, <2>3, <2>4 DEF SettingsInv
<1>2. CASE ChangeSettings
  <2>1. current' = current + 1 /\ current' \in Version
    BY <1>2 DEF ChangeSettings, SettingsInv, SettingsTypeOK, Version
  <2> QED
    BY <1>2, <2>1 DEF SettingsInv, SettingsTypeOK, WriteInv, TornInv, TimeInv,
        OrderInv, Follows, ChangeSettings, task, disk, Version
<1>3. CASE Read
  <2>1. seen' = file /\ file \in Version
    BY <1>3 DEF Read
  <2> QED
    BY <1>3, <2>1 DEF SettingsInv, SettingsTypeOK, WriteInv, TornInv, TimeInv,
        OrderInv, Follows, Read, task, disk, Version
<1>4. CASE Elapse
  <2>1. left' \in -SLACK - 1 .. INTERVAL /\ age' \in 0 .. INTERVAL /\ TimeInv'
    BY <1>4 DEF SettingsInv, SettingsTypeOK, TimeInv, Elapse
  <2> QED
    BY <1>4, <2>1 DEF SettingsInv, SettingsTypeOK, WriteInv, TornInv, OrderInv,
        Follows, Elapse, disk
<1>5. CASE Cancel
  BY <1>5 DEF SettingsInv, SettingsTypeOK, WriteInv, TornInv, TimeInv, OrderInv,
      Follows, Cancel, task, disk
<1>6. CASE DropRuntime \/ Kill \/ Restart
  <2>1. writes' \subseteq writes /\ pc' \in {"gone", "waiting"}
    BY <1>6 DEF DropRuntime, Kill, Restart
  <2>2. \A x, y \in writes' : x = y
    BY <2>1 DEF SettingsInv, WriteInv
  <2>3. Cardinality(writes') <= 1
    BY <2>2, AtMostOne
  <2>4. SettingsTypeOK'
    <3>1. /\ left' \in {left, 0} /\ age' \in {age, INTERVAL}
          /\ cancelled' \in {cancelled, FALSE} /\ reply' \in {reply, NoReply}
          /\ lastEnd' \in {lastEnd, "killed"}
          /\ UNCHANGED <<file, current, seen>>
      BY <1>6 DEF DropRuntime, Kill, Restart
    <3>2. writes' \subseteq Write
      BY <2>1 DEF SettingsInv, SettingsTypeOK
    <3>3. 0 \in -SLACK - 1 .. INTERVAL /\ INTERVAL \in 0 .. INTERVAL
      OBVIOUS
    <3> QED BY <2>1, <2>3, <3>1, <3>2, <3>3 DEF SettingsInv, SettingsTypeOK
  <2>5. reply' = NoReply
    BY <1>6 DEF SettingsInv, WriteInv, DropRuntime, Kill, Restart
  <2>6. WriteInv' /\ TimeInv'
    BY <1>6, <2>2, <2>5 DEF SettingsInv, WriteInv, TimeInv, DropRuntime, Kill, Restart
  <2>7. TornInv'
    BY <1>6 DEF SettingsInv, TornInv, DropRuntime, Kill, Restart
  <2>8. OrderInv'
    <3>1. UNCHANGED <<seen, current, file>>
      BY <1>6 DEF DropRuntime, Kill, Restart
    <3> QED BY <2>1, <2>5, <3>1 DEF SettingsInv, OrderInv, Follows
  <2> QED BY <2>4, <2>6, <2>7, <2>8 DEF SettingsInv
<1> QED BY <1>1, <1>2, <1>3, <1>4, <1>5, <1>6 DEF Environment

LEMMA NextInv == SettingsInv /\ [Next]_vars => SettingsInv'
<1> SUFFICES ASSUME SettingsInv, [Next]_vars PROVE SettingsInv'
  OBVIOUS
<1>1. CASE SettingsTask
  BY <1>1, TaskStep
<1>2. CASE BlockingThreads
  BY <1>2, ThreadStep DEF BlockingThreads
<1>3. CASE Environment
  BY <1>3, EnvironmentStep
<1>4. CASE UNCHANGED vars
  BY <1>4 DEF vars, SettingsInv, SettingsTypeOK, WriteInv, TornInv, TimeInv,
      OrderInv, Follows
<1> QED BY <1>1, <1>2, <1>3, <1>4 DEF Next

-----------------------------------------------------------------------------
(***************************************************************************)
(* The inductive invariant of the settings task holds with freezes,        *)
(* failures, cancellations, kills and restarts at any point.               *)
(***************************************************************************)
THEOREM SettingsInvHolds == Spec => []SettingsInv
<1>1. Init => SettingsInv
  BY InitInv
<1>2. SettingsInv /\ [Next]_vars => SettingsInv'
  BY NextInv
<1> QED BY <1>1, <1>2, PTL DEF Spec

(***************************************************************************)
(* Type correctness; in particular the task has one write at most.         *)
(***************************************************************************)
THEOREM SettingsTypeCorrect == Spec => []SettingsTypeOK
<1>1. SettingsInv => SettingsTypeOK
  BY DEF SettingsInv
<1> QED BY <1>1, SettingsInvHolds, PTL

(***************************************************************************)
(* The settings file is whole unless it is being written, or its last      *)
(* write failed or was killed: no cancellation tears it.                   *)
(***************************************************************************)
THEOREM NeverTornByCancellation == Spec => []WholeUnlessFailed
<1>1. SettingsInv => WholeUnlessFailed
  BY DEF SettingsInv, SettingsTypeOK, WriteInv, TornInv, WholeUnlessFailed
<1> QED BY <1>1, SettingsInvHolds, PTL

(***************************************************************************)
(* Two fetches of a process are a period apart but for the slack of the    *)
(* timer, however long it was frozen in between.                           *)
(***************************************************************************)
THEOREM FetchesAreSpaced == Spec => FetchesSpaced
<1>1. SettingsInv /\ [Next]_vars =>
        [pc # "fetching" /\ pc' = "fetching" => age >= INTERVAL - SLACK]_vars
  <2> SUFFICES ASSUME SettingsInv, Next, pc # "fetching", pc' = "fetching"
               PROVE  age >= INTERVAL - SLACK
    BY DEF vars
  <2>1. Tick
    BY DEF Next, SettingsTask, BlockingThreads, Environment, WaitCancelled, FetchOk,
        FetchFails, FetchCancelled, WriteReturns, Await, BlockingThread, Open, OpenFails,
        WriteAll, WriteFails, Answer, ChangeSettings, Read, Elapse, Cancel, DropRuntime,
        Kill, Restart, task
  <2> QED
    BY <2>1, SettingsAssumption DEF Tick, SettingsInv, SettingsTypeOK, TimeInv
<1> QED BY <1>1, SettingsInvHolds, PTL DEF Spec, FetchesSpaced

(***************************************************************************)
(* What a library reads never goes back to earlier settings.               *)
(***************************************************************************)
THEOREM ReadersNeverGoBack == Spec => ReadersAdvance
<1>1. SettingsInv /\ [Next]_vars => [seen' >= seen]_seen
  <2> SUFFICES ASSUME SettingsInv, Next, seen' # seen
               PROVE  seen' >= seen
    BY DEF vars
  <2>1. Read
    BY DEF Next, SettingsTask, BlockingThreads, Environment, Tick, WaitCancelled, FetchOk,
        FetchFails, FetchCancelled, WriteReturns, Await, BlockingThread, Open, OpenFails,
        WriteAll, WriteFails, Answer, ChangeSettings, Elapse, Cancel, DropRuntime,
        Kill, Restart
  <2> QED
    BY <2>1, SettingsAssumption DEF Read, SettingsInv, OrderInv, Follows, Version
<1> QED BY <1>1, SettingsInvHolds, PTL DEF Spec, ReadersAdvance
=============================================================================
