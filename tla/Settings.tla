------------------------------ MODULE Settings ------------------------------
(***************************************************************************)
(* The settings task (src/src/settings.rs): every INTERVAL it fetches the  *)
(* sampling settings of the collector and replaces the file the libraries  *)
(* in the function read.  Beside it: a collector whose settings change, a  *)
(* library that reads the file at any time, the thread that writes it, and *)
(* the end of the process, after which Lambda may start it again with the  *)
(* file where it was.                                                      *)
(*                                                                         *)
(* Time may pass between any two steps: other tasks run, and Lambda        *)
(* freezes the process between invocations.  The clock is relative, so     *)
(* that no bound on it is needed.                                          *)
(***************************************************************************)
EXTENDS Integers, FiniteSets

CONSTANTS
    INTERVAL,    \* SETTINGS_INTERVAL
    SLACK,       \* how late a tick of tokio's interval counts as on time
    MaxVersion,  \* bound: the settings the collector has, one after another
    NoReply,     \* the collector has not answered yet
    Failure,     \* the request failed, or its answer is no JSON object
    NoFile,      \* there is no settings file
    Torn         \* the settings file is empty, or has a part of its content

ASSUME SettingsAssumption ==
    /\ INTERVAL \in Nat \ {0}
    /\ SLACK \in 0 .. INTERVAL - 1
    /\ MaxVersion \in Nat \ {0}
    /\ {NoReply, Failure, NoFile, Torn} \cap (0 .. MaxVersion) = {}
    /\ NoReply # Failure
    /\ NoFile # Torn

VARIABLES
    pc,         \* where the task is
    cancelled,  \* the CancellationToken
    left,       \* the time left to the deadline of the interval
    reply,      \* the answer that is there for the fetch under way, or NoReply
    writes,     \* the calls of std::fs::write on the blocking threads
    file,       \* the settings file
    current,    \* the version of the settings the collector has
    seen,       \* the last version a library has read, or 0
    age,        \* history: the time since the last fetch began
    lastEnd     \* history: how the last write ended that opened the file

vars == <<pc, cancelled, left, reply, writes, file, current, seen, age, lastEnd>>
task == <<pc, left, reply, age>>
disk == <<writes, file, lastEnd>>

Version == 1 .. MaxVersion

(***************************************************************************)
(* What a file may hold between its brackets: settings, or another JSON    *)
(* object, which an error answer of the collector is made of.              *)
(***************************************************************************)
Content == Version \cup {0}
ErrorBody == 0

Write == [content : Content, stage : {"queued", "open", "returned"}]

\* run_until_cancelled called for the tick: given up at once if cancelled.
Await(where) == pc' = IF cancelled THEN "ended" ELSE where
-----------------------------------------------------------------------------
\* MissedTickBehavior::Burst
NextDeadlineBurst == left + INTERVAL

(***************************************************************************)
(* MissedTickBehavior::Delay: after a tick that comes too late the next is *)
(* a whole period away, otherwise it keeps to the grid.                    *)
(***************************************************************************)
NextDeadline == IF left < -SLACK THEN INTERVAL ELSE left + INTERVAL

\* timer.tick() is ready; the fetch begins, unless the token is cancelled.
Tick ==
    /\ pc = "waiting"
    /\ left <= 0
    /\ left' = NextDeadline
    /\ Await("fetching")
    /\ age' = IF cancelled THEN age ELSE 0
    /\ UNCHANGED <<cancelled, reply, disk, current, seen>>

WaitCancelled ==
    /\ pc = "waiting"
    /\ left > 0
    /\ cancelled
    /\ pc' = "ended"
    /\ UNCHANGED <<cancelled, left, reply, age, disk, current, seen>>

(***************************************************************************)
(* fetch() returns Ok: the status is not looked at, and any JSON object is *)
(* taken.  The write begins, and nothing cancels it.                       *)
(***************************************************************************)
FetchOk ==
    /\ pc = "fetching"
    /\ reply \in Content
    /\ writes' = writes \cup {[content |-> reply, stage |-> "queued"]}
    /\ reply' = NoReply
    /\ pc' = "writing"
    /\ UNCHANGED <<cancelled, left, age, file, lastEnd, current, seen>>

\* The error of a fetch is returned instead of logged.
FetchFailsTask ==
    /\ pc = "fetching"
    /\ reply = Failure
    /\ reply' = NoReply
    /\ pc' = "ended"
    /\ UNCHANGED <<cancelled, left, age, disk, current, seen>>

\* The request failed, or its answer is no JSON object: logged.
FetchFails ==
    /\ pc = "fetching"
    /\ reply = Failure
    /\ reply' = NoReply
    /\ Await("waiting")
    /\ UNCHANGED <<cancelled, left, age, disk, current, seen>>

\* The fetch is awaited without the token, which is looked at afterwards.
FetchAwaited ==
    /\ pc = "fetching"
    /\ reply # NoReply
    /\ cancelled
    /\ pc' = "ended"
    /\ UNCHANGED <<cancelled, left, reply, age, disk, current, seen>>

\* An answer that is there is preferred to the cancellation.
FetchCancelled ==
    /\ pc = "fetching"
    /\ reply = NoReply
    /\ cancelled
    /\ pc' = "ended"
    /\ UNCHANGED <<cancelled, left, reply, age, disk, current, seen>>

\* The task goes on while the file is written.
WriteDetached ==
    /\ pc = "writing"
    /\ writes' = {w \in writes : w.stage # "returned"}
    /\ Await("waiting")
    /\ UNCHANGED <<cancelled, left, reply, age, file, lastEnd, current, seen>>

\* The write is awaited under the token as well.
WriteCancelled ==
    /\ pc = "writing"
    /\ \/ \E w \in writes : w.stage = "returned"
       \/ cancelled
    /\ writes' = {w \in writes : w.stage # "returned"}
    /\ Await("waiting")
    /\ UNCHANGED <<cancelled, left, reply, age, file, lastEnd, current, seen>>

\* fs::write(..).await returns; an error is logged.
WriteReturns ==
    /\ pc = "writing"
    /\ \E w \in writes : w.stage = "returned" /\ writes' = writes \ {w}
    /\ Await("waiting")
    /\ UNCHANGED <<cancelled, left, reply, age, file, lastEnd, current, seen>>
-----------------------------------------------------------------------------
(***************************************************************************)
(* std::fs::write on a blocking thread: it opens the file, which empties   *)
(* it, then writes the content.  Either may fail.                          *)
(***************************************************************************)
Moved(w, stage) == (writes \ {w}) \cup {[w EXCEPT !.stage = stage]}

Open(w) ==
    /\ w.stage = "queued"
    /\ writes' = Moved(w, "open")
    /\ file' = Torn
    /\ UNCHANGED <<lastEnd, task, cancelled, current, seen>>

OpenFails(w) ==
    /\ w.stage = "queued"
    /\ writes' = Moved(w, "returned")
    /\ UNCHANGED <<file, lastEnd, task, cancelled, current, seen>>

WriteAll(w) ==
    /\ w.stage = "open"
    /\ writes' = Moved(w, "returned")
    /\ file' = w.content
    /\ lastEnd' = "whole"
    /\ UNCHANGED <<task, cancelled, current, seen>>

WriteFails(w) ==
    /\ w.stage = "open"
    /\ writes' = Moved(w, "returned")
    /\ lastEnd' = "failed"
    /\ UNCHANGED <<file, task, cancelled, current, seen>>

BlockingThread(w) == Open(w) \/ OpenFails(w) \/ WriteAll(w) \/ WriteFails(w)
-----------------------------------------------------------------------------
\* The collector answers, or the connection breaks; there is no timeout.
Answer ==
    /\ pc = "fetching"
    /\ reply = NoReply
    /\ reply' \in {current, ErrorBody, Failure}
    /\ UNCHANGED <<pc, left, age, cancelled, disk, current, seen>>

ChangeSettings ==
    /\ current < MaxVersion
    /\ current' = current + 1
    /\ UNCHANGED <<task, cancelled, disk, seen>>

\* A library reads the file; it keeps what it has if it finds no settings.
Read ==
    /\ file \in Version
    /\ seen' = file
    /\ UNCHANGED <<task, cancelled, disk, current>>

Elapse ==
    /\ left' = IF left > -SLACK - 1 THEN left - 1 ELSE left
    /\ age' = IF age < INTERVAL THEN age + 1 ELSE age
    /\ UNCHANGED <<pc, reply, cancelled, disk, current, seen>>

Cancel ==
    /\ pc \notin {"ended", "gone"}
    /\ cancelled' = TRUE
    /\ UNCHANGED <<task, disk, current, seen>>

(***************************************************************************)
(* The runtime is dropped: the task is, a write that has not begun is, and *)
(* one that has begun is waited for.                                       *)
(***************************************************************************)
DropRuntime ==
    /\ pc # "gone"
    /\ pc' = "gone"
    /\ reply' = NoReply
    /\ writes' = {w \in writes : w.stage = "open"}
    /\ UNCHANGED <<left, age, cancelled, file, lastEnd, current, seen>>

\* The process is killed with its threads.
Kill ==
    /\ pc' = "gone"
    /\ reply' = NoReply
    /\ writes' = {}
    /\ lastEnd' = IF \E w \in writes : w.stage = "open" THEN "killed" ELSE lastEnd
    /\ UNCHANGED <<left, age, cancelled, file, current, seen>>

\* A new process, in the same environment: the first tick is due at once.
Restart ==
    /\ pc = "gone"
    /\ \A w \in writes : w.stage = "returned"
    /\ pc' = "waiting"
    /\ cancelled' = FALSE
    /\ left' = 0
    /\ age' = INTERVAL
    /\ writes' = {}
    /\ UNCHANGED <<reply, file, lastEnd, current, seen>>
-----------------------------------------------------------------------------
Init ==
    /\ pc = "waiting"
    /\ cancelled = FALSE
    /\ left = 0
    /\ reply = NoReply
    /\ writes = {}
    /\ file = NoFile
    /\ current = 1
    /\ seen = 0
    /\ age = INTERVAL
    /\ lastEnd = "none"

SettingsTask ==
    \/ Tick
    \/ WaitCancelled
    \/ FetchOk
    \/ FetchFails
    \/ FetchCancelled
    \/ WriteReturns

Environment ==
    \/ Answer
    \/ ChangeSettings
    \/ Read
    \/ Elapse
    \/ Cancel
    \/ DropRuntime
    \/ Kill
    \/ Restart

BlockingThreads == \E w \in writes : BlockingThread(w)

Next == SettingsTask \/ BlockingThreads \/ Environment

(***************************************************************************)
(* A ready task is polled, a blocking thread runs, time passes.  Nothing   *)
(* is assumed of the collector: it may never answer.                       *)
(***************************************************************************)
Spec ==
    /\ Init /\ [][Next]_vars
    /\ WF_vars(SettingsTask)
    /\ WF_vars(BlockingThreads)
    /\ WF_vars(Elapse)
-----------------------------------------------------------------------------
\* The types of the variables; the task has one write at most.
SettingsTypeOK ==
    /\ pc \in {"waiting", "fetching", "writing", "ended", "gone"}
    /\ cancelled \in BOOLEAN
    /\ left \in -SLACK - 1 .. INTERVAL
    /\ reply \in Content \cup {NoReply, Failure}
    /\ writes \subseteq Write
    /\ Cardinality(writes) <= 1
    /\ file \in Content \cup {NoFile, Torn}
    /\ current \in Version
    /\ seen \in 0 .. MaxVersion
    /\ age \in 0 .. INTERVAL
    /\ lastEnd \in {"none", "whole", "failed", "killed"}

\* Who may be writing, and when an answer may be there.
WriteInv ==
    /\ \A w, x \in writes : w = x
    /\ pc \in {"waiting", "fetching", "ended"} => writes = {}
    /\ pc # "fetching" => reply = NoReply

\* A file without its end is one that is open, unless its write failed.
TornInv ==
    file = Torn => \/ \E w \in writes : w.stage = "open"
                   \/ lastEnd \in {"failed", "killed"}

\* Time runs for the deadline and for the last fetch alike.
TimeInv == age = INTERVAL \/ left + age >= INTERVAL - SLACK

\* v is not earlier than what is in the file, or was read from it.
Follows(v) ==
    v \in Version => /\ seen <= v /\ v <= current
                     /\ file \in Version => file <= v

\* Settings pass from the collector to the readers in the order they came.
OrderInv ==
    /\ seen <= current
    /\ Follows(file)
    /\ Follows(reply)
    /\ \A w \in writes : Follows(w.content)

(***************************************************************************)
(* The inductive invariant behind WholeUnlessFailed, FetchesSpaced and     *)
(* ReadersAdvance: one write at a time, made of the last answer; an open   *)
(* file has a writer; the deadline moves with the last fetch.              *)
(***************************************************************************)
SettingsInv ==
    /\ SettingsTypeOK
    /\ WriteInv
    /\ TornInv
    /\ TimeInv
    /\ OrderInv

(***************************************************************************)
(* "we do NOT want to get cancelled mid-write" (settings.rs:80-81): a file *)
(* without its end is one being written, or one whose last write failed or *)
(* was killed.  No cancellation leaves it so, wherever it strikes.         *)
(***************************************************************************)
WholeUnlessFailed ==
    file = Torn =>
        \/ pc = "writing"
        \/ pc = "gone" /\ writes # {}
        \/ lastEnd \in {"failed", "killed"}

(***************************************************************************)
(* The collector is asked every INTERVAL at most, up to the slack of the   *)
(* timer, also by a process that was frozen for several intervals and by   *)
(* one whose fetch took as long.                                           *)
(***************************************************************************)
FetchesSpaced ==
    [][pc # "fetching" /\ pc' = "fetching" => age >= INTERVAL - SLACK]_vars

(***************************************************************************)
(* The settings a library reads never go back to earlier ones, whatever    *)
(* answers come late, fail or are cut off by the end of a process.         *)
(***************************************************************************)
ReadersAdvance == [][seen' >= seen]_seen

(***************************************************************************)
(* The task comes back to fetching whatever failed, until it is cancelled  *)
(* or its process ends: failures of the collector or of the disk do not    *)
(* end it, which would leave the libraries with old settings.              *)
(***************************************************************************)
Refreshes == []<>(pc = "fetching" \/ cancelled \/ pc = "gone")

(***************************************************************************)
(* A cancelled task ends, though the collector may never answer: the       *)
(* supervisor joins it, and main the supervisor.                           *)
(***************************************************************************)
StopsWhenCancelled == cancelled ~> pc \in {"ended", "gone"}
=============================================================================
