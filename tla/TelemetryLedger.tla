-------------------------- MODULE TelemetryLedger --------------------------
(***************************************************************************)
(* What the exporter of diet-lambda promises to the server's clients and   *)
(* to main, without channel, buffer or tasks: a ledger with the status of  *)
(* each accepted item and the phase of each request's flush.               *)
(*                                                                         *)
(* An item waits, is exported once, and is settled once; only the end of   *)
(* the extension loses it.  The export made for a request takes all that   *)
(* was due when its flush was asked for, and its ID is shown only when     *)
(* none of what that export took is still under way.                       *)
(***************************************************************************)
CONSTANTS Item, Request

VARIABLES
    status,   \* of each item
    phase,    \* of each request's flush
    due,      \* the items a request's export may not leave waiting
    underWay, \* the items exported for a request and not settled yet
    shown     \* the ID announced last, or a value that is no request

ledger == <<status, phase, due, underWay, shown>>

Lost  == {"unread", "abandoned"}
Phase == {"idle", "asked", "exporting", "over"}

Having(st) == {i \in Item : status[i] = st}

Init ==
    /\ status = [i \in Item |-> "new"]
    /\ phase = [r \in Request |-> "idle"]
    /\ due = [r \in Request |-> {}]
    /\ underWay = [r \in Request |-> {}]
    /\ shown \notin Request

\* New items and flushes are taken; st and ph are what becomes of them.
Accept(items, reqs, st, ph) ==
    /\ status' = [i \in Item |-> IF i \in items THEN st ELSE status[i]]
    /\ phase' = [r \in Request |-> IF r \in reqs THEN ph ELSE phase[r]]
    /\ due' = [r \in Request |-> IF r \in reqs THEN {i \in Item : status'[i] # "new"}
                                 ELSE due[r]]
    /\ UNCHANGED <<underWay, shown>>

\* Waiting items are exported, for the request in reqs or for none.
Export(items, reqs) ==
    /\ \A r \in reqs : phase[r] = "asked" /\ due[r] \cap Having("waiting") \subseteq items
    /\ status' = [i \in Item |-> IF i \in items THEN "exporting" ELSE status[i]]
    /\ phase' = [r \in Request |-> IF r \in reqs THEN "exporting" ELSE phase[r]]
    /\ underWay' = [r \in Request |-> IF r \in reqs THEN items ELSE underWay[r]]
    /\ UNCHANGED <<due, shown>>

Settle(items, outcome) ==
    /\ status' = [i \in Item |-> IF i \in items THEN outcome ELSE status[i]]
    /\ underWay' = [r \in Request |-> underWay[r] \ items]
    /\ UNCHANGED <<phase, due, shown>>

Announce(r) ==
    /\ phase[r] = "exporting"
    /\ underWay[r] = {}
    /\ phase' = [phase EXCEPT ![r] = "over"]
    /\ shown' = r
    /\ UNCHANGED <<status, due, underWay>>

\* An export made for no request hides the ID shown before.
Hide ==
    /\ shown' \notin Request
    /\ UNCHANGED <<status, phase, due, underWay>>

\* The exporter or the whole extension ends.
Lose ==
    /\ \E waitingLost \in [Item -> Lost], exportsToo \in BOOLEAN :
        /\ status' = [i \in Item |->
              IF status[i] = "waiting" THEN waitingLost[i]
              ELSE IF status[i] = "exporting" /\ exportsToo THEN "abandoned"
              ELSE status[i]]
        /\ underWay' = IF exportsToo THEN [r \in Request |-> {}] ELSE underWay
    /\ phase' = [r \in Request |-> IF phase[r] = "idle" THEN "idle" ELSE "over"]
    /\ UNCHANGED <<due, shown>>

Next ==
    \/ \E items \in SUBSET Having("new"), reqs \in SUBSET {r \in Request : phase[r] = "idle"} :
        \/ Accept(items, reqs, "waiting", "asked")
        \/ Accept(items, reqs, "unread", "over")
    \/ \E items \in SUBSET Having("waiting") :
        \/ Export(items, {})
        \/ \E r \in Request : Export(items, {r})
    \/ \E items \in SUBSET Having("exporting"), outcome \in {"delivered", "failed"} :
        Settle(items, outcome)
    \/ \E r \in Request : Announce(r)
    \/ Hide
    \/ Lose

Spec == Init /\ [][Next]_ledger
=============================================================================
