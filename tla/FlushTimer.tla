----------------------------- MODULE FlushTimer -----------------------------
(***************************************************************************)
(* The time at which the exporter of a managed runtime flushes             *)
(* periodically (src/src/exporter.rs, the loop of task).  Exporter.tla     *)
(* lets PeriodicFlush happen whenever the exporter waits; this module adds *)
(* the clock and the interval, and leaves out what is exported.            *)
(*                                                                         *)
(* One unit of time is one tick of tokio's timer (1 ms).  The exporter is  *)
(* never late: time passes only when it has nothing to do.                 *)
(***************************************************************************)
EXTENDS Integers, Sequences

CONSTANTS
    INTERVAL,   \* the period of the interval
    MaxQueued,  \* bound: the messages in the channel
    MaxTime     \* bound: the clock stops there

ASSUME FlushTimerAssumption ==
    /\ INTERVAL \in Nat \ {0}
    /\ MaxQueued \in Nat
    /\ MaxTime \in Nat

VARIABLES
    now,       \* the clock
    channel,   \* the messages in the channel
    deadline,  \* when the interval of this iteration is ready
    oldest,    \* when the oldest buffered telemetry was received, or Never
    flushed,   \* when the last periodic flush was, or Never
    heard,     \* history: when the last message was received, or Never
    quiet      \* history: the last tick over without a message, or Never

vars == <<now, channel, deadline, oldest, flushed, heard, quiet>>

Never == -1

\* An interval whose first tick is a period away.
FirstTickLate(t) == t + INTERVAL

(***************************************************************************)
(* time::interval(INTERVAL) made at time t: its first tick is due at once, *)
(* which the timer rounds up to its next tick.                             *)
(***************************************************************************)
FirstTick(t) == t + 1

\* The head of the loop: a new interval for every iteration.
Iterate == deadline' = FirstTick(now)

\* rx.recv() is ready before the interval is looked at.
Receive(message) ==
    /\ channel # <<>> /\ Head(channel) = message
    /\ channel' = Tail(channel)
    /\ heard' = now
    /\ Iterate
    /\ UNCHANGED <<now, flushed, quiet>>

(***************************************************************************)
(* A telemetry message is buffered; it may fill the buffer, which is then  *)
(* exported.                                                               *)
(***************************************************************************)
ReceiveTelemetry ==
    /\ Receive("telemetry")
    /\ oldest' \in {IF oldest = Never THEN now ELSE oldest, Never}

ReceiveFlush ==
    /\ Receive("flush")
    /\ oldest' = Never

\* poll_tick is ready and no message is.
PeriodicFlush ==
    /\ channel = <<>>
    /\ now >= deadline
    /\ oldest' = Never
    /\ flushed' = now
    /\ Iterate
    /\ UNCHANGED <<now, channel, heard, quiet>>

(***************************************************************************)
(* What a handler sends in one poll: the telemetry of an OTLP request, or  *)
(* the logs, if any, and the flushes of a batch of telemetry events.       *)
(***************************************************************************)
Batches ==
    {logs \o [i \in 1 .. flushes |-> "flush"] :
        logs \in {<<>>, <<"telemetry">>}, flushes \in 0 .. MaxQueued}

\* Any number of handlers may do so in one tick.
Send ==
    /\ \E batch \in Batches :
          /\ batch # <<>>
          /\ Len(channel) + Len(batch) <= MaxQueued
          /\ channel' = channel \o batch
    /\ UNCHANGED <<now, deadline, oldest, flushed, heard, quiet>>

Elapse ==
    /\ channel = <<>>
    /\ now < deadline
    /\ now < MaxTime
    /\ now' = now + 1
    /\ quiet' = IF heard = now THEN quiet ELSE now
    /\ UNCHANGED <<channel, deadline, oldest, flushed, heard>>

Init ==
    /\ now = 0
    /\ channel = <<>>
    /\ deadline = FirstTick(0)
    /\ oldest = Never
    /\ flushed = Never
    /\ heard = Never
    /\ quiet = Never

Next ==
    \/ ReceiveTelemetry
    \/ ReceiveFlush
    \/ PeriodicFlush
    \/ Send
    \/ Elapse

Spec == Init /\ [][Next]_vars
-----------------------------------------------------------------------------
(***************************************************************************)
(* Only messages put the periodic flush off: buffered telemetry has had a  *)
(* message in every tick since its own, however the messages are spread    *)
(* over the ticks.  The first tick without one ends with an empty buffer,  *)
(* although every message starts an iteration with an interval of its own. *)
(* With a message in every tick there is no bound, INTERVAL or another, on *)
(* how long it stays there.                                                *)
(***************************************************************************)
HeldOnlyByMessages == oldest # Never => quiet < oldest

(***************************************************************************)
(* Two periodic flushes are at least a period apart, as the 60 seconds of  *)
(* INTERVAL (exporter.rs:50) and the comment at exporter.rs:402 say.       *)
(***************************************************************************)
FlushesSpaced ==
    [][flushed' # flushed /\ flushed # Never => flushed' - flushed >= INTERVAL]_vars
=============================================================================
