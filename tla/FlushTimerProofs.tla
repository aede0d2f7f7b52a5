-------------------------- MODULE FlushTimerProofs --------------------------
(***************************************************************************)
(* A theorem about FlushTimer.tla: what keeps telemetry in the buffer of a *)
(* managed runtime, for every period, every length of the run and messages *)
(* that come as close together as they like.                               *)
(***************************************************************************)
EXTENDS FlushTimer, TLAPS

(***************************************************************************)
(* The interval is at most one tick away.  While something is buffered, it *)
(* is the one made when the last message was received: a periodic flush    *)
(* would have emptied the buffer since.  So no tick is over before it is   *)
(* due without another message.                                            *)
(***************************************************************************)
TimerInv ==
    /\ now \in Nat
    /\ deadline \in {now, now + 1}
    /\ oldest \in Int /\ heard \in Int /\ quiet \in Int
    /\ heard <= now
    /\ quiet < now
    /\ oldest # Never => /\ deadline = heard + 1
                         /\ oldest <= heard
                         /\ quiet < oldest

LEMMA TimerStep ==
    ASSUME TimerInv, [Next]_vars
    PROVE  TimerInv'
<1> USE DEF TimerInv, FirstTick, Iterate, Never
<1>1. CASE ReceiveTelemetry
  BY <1>1 DEF ReceiveTelemetry, Receive
<1>2. CASE ReceiveFlush
  BY <1>2 DEF ReceiveFlush, Receive
<1>3. CASE PeriodicFlush
  BY <1>3 DEF PeriodicFlush
<1>4. CASE Send
  BY <1>4 DEF Send
<1>5. CASE Elapse
  BY <1>5 DEF Elapse
<1>6. CASE UNCHANGED vars
  BY <1>6 DEF vars
<1> QED BY <1>1, <1>2, <1>3, <1>4, <1>5, <1>6 DEF Next

(***************************************************************************)
(* Telemetry that is buffered has had a message in every tick since its    *)
(* own: for every INTERVAL, any number of messages in a tick, and without  *)
(* a bound on time or on the channel.                                      *)
(***************************************************************************)
THEOREM HeldByMessages == Spec => []HeldOnlyByMessages
<1>1. Init => TimerInv
  BY DEF Init, TimerInv, FirstTick, Never
<1>2. TimerInv /\ [Next]_vars => TimerInv'
  BY TimerStep
<1>3. TimerInv => HeldOnlyByMessages
  BY DEF TimerInv, HeldOnlyByMessages
<1> QED BY <1>1, <1>2, <1>3, PTL DEF Spec
=============================================================================
