---------------------------- MODULE LedgerProofs ----------------------------
(***************************************************************************)
(* The exporter implements the ledger: the proof that every step of        *)
(* Exporter.tla, whatever its environment does, is a step of               *)
(* TelemetryLedger.tla or leaves the ledger as it is.                      *)
(***************************************************************************)
EXTENDS ExporterProofs

-----------------------------------------------------------------------------
(***************************************************************************)
(* Where the items are, by their status                                    *)
(***************************************************************************)

\* An item is new, in the channel or the buffer, in a send, or settled.
StatusByPlace ==
    \A i \in Item :
        /\ i \notin accepted => LedgerStatus[i] = "new"
        /\ i \in QueuedItems \cup held => LedgerStatus[i] = "waiting"
        /\ i \in SendingItems => LedgerStatus[i] = "exporting"
        /\ i \in accepted \ (QueuedItems \cup held \cup SendingItems) =>
              LedgerStatus[i] = fate[i] /\ fate[i] \in Fate \ {"pending"}

LEMMA StatusByPlaceHolds == ExporterInv => StatusByPlace
<1> SUFFICES ASSUME ExporterInv, NEW i \in Item
             PROVE  /\ i \notin accepted => LedgerStatus[i] = "new"
                    /\ i \in QueuedItems \cup held => LedgerStatus[i] = "waiting"
                    /\ i \in SendingItems => LedgerStatus[i] = "exporting"
                    /\ i \in accepted \ (QueuedItems \cup held \cup SendingItems) =>
                          LedgerStatus[i] = fate[i] /\ fate[i] \in Fate \ {"pending"}
  BY DEF StatusByPlace
<1>1. LedgerStatus[i] = IF i \notin accepted THEN "new"
                        ELSE IF fate[i] # "pending" THEN fate[i]
                        ELSE IF i \in QueuedItems \cup held THEN "waiting"
                        ELSE "exporting"
  BY DEF LedgerStatus
<1>2. /\ i \in QueuedItems \cup held \cup SendingItems <=> i \in accepted /\ fate[i] = "pending"
      /\ (QueuedItems \cup held) \cap SendingItems = {}
  BY DEF ExporterInv, ExactlyOnce, Pending
<1>3. fate[i] \in Fate
  BY DEF ExporterInv, ExporterTypeOK
<1> QED BY <1>1, <1>2, <1>3

\* The items the ledger may accept, export or settle.
LEMMA HavingByPlace ==
    ASSUME ExporterInv
    PROVE  /\ Ledger!Having("new") = Item \ accepted
           /\ Ledger!Having("waiting") = QueuedItems \cup held
           /\ Ledger!Having("exporting") = SendingItems
<1>1. StatusByPlace
  BY StatusByPlaceHolds
<1>2. /\ QueuedItems \cup held \cup SendingItems \subseteq accepted
      /\ (QueuedItems \cup held) \cap SendingItems = {}
      /\ accepted \subseteq Item
  BY DEF ExporterInv, ExactlyOnce, Pending, ExporterTypeOK
<1>3. /\ "new" \notin Fate /\ "waiting" \notin Fate /\ "exporting" \notin Fate
  BY DEF Fate
<1>4. ASSUME NEW i \in Item
      PROVE  /\ LedgerStatus[i] = "new" <=> i \notin accepted
             /\ LedgerStatus[i] = "waiting" <=> i \in QueuedItems \cup held
             /\ LedgerStatus[i] = "exporting" <=> i \in SendingItems
  BY <1>1, <1>2, <1>3 DEF StatusByPlace
<1> QED BY <1>2, <1>4 DEF Ledger!Having

\* The items a flush has to cover.
NotNew == {i \in Item : LedgerStatus[i] # "new"}

LEMMA NotNewIsAccepted == ExporterInv => NotNew = accepted
<1> SUFFICES ASSUME ExporterInv PROVE NotNew = accepted
  OBVIOUS
<1>1. NotNew = Item \ Ledger!Having("new")
  BY DEF NotNew, Ledger!Having
<1>2. accepted \subseteq Item
  BY DEF ExporterInv, ExporterTypeOK
<1> QED BY <1>1, <1>2, HavingByPlace

-----------------------------------------------------------------------------
(***************************************************************************)
(* Steps                                                                   *)
(***************************************************************************)

\* A step that leaves the places and the notification as they are.
LEMMA StutterStep ==
    ASSUME UNCHANGED <<accepted, flushed, owed, fate, groups, watch>>,
           QueuedItems' \cup held' = QueuedItems \cup held,
           QueuedFlushes' = QueuedFlushes
    PROVE  UNCHANGED Ledger!ledger
<1>1. LedgerStatus' = LedgerStatus
  BY DEF LedgerStatus
<1>2. LedgerPhase' = LedgerPhase
  BY DEF LedgerPhase
<1>3. LedgerUnderWay' = LedgerUnderWay
  BY DEF LedgerUnderWay, ItemsOf
<1> QED BY <1>1, <1>2, <1>3 DEF Ledger!ledger

\* Items join a group of their own, made for a request or for none.
LEMMA ExportStep ==
    ASSUME ExporterInv, ExporterInv',
           NEW id \in Request \cup {Tick, None}, NEW items \in SUBSET (QueuedItems \cup held),
           groups' = groups \cup {[n |-> exports, id |-> id, sends |-> Sends(items)]},
           (QueuedItems \cup held)' = (QueuedItems \cup held) \ items,
           QueuedFlushes' = QueuedFlushes \ {id},
           id \in Request => id \in QueuedFlushes /\ owed[id] \cap (QueuedItems \cup held) \subseteq items,
           UNCHANGED <<accepted, flushed, owed, fate, watch>>
    PROVE  Ledger!Export(items, {id} \cap Request)
<1> DEFINE new == [n |-> exports, id |-> id, sends |-> Sends(items)]
           reqs == {id} \cap Request
<1>1. groups' = groups \cup {new} /\ new.id = id /\ new.sends = Sends(items)
  OBVIOUS
<1> HIDE DEF new
<1>2. /\ \A r \in Request : owed[r] \subseteq Item
      /\ \A g \in groups : g.id \in Request => g.id \in flushed \ QueuedFlushes
      /\ QueuedFlushes \subseteq flushed
      /\ accepted \subseteq Item
  BY DEF ExporterInv, ExporterTypeOK, GroupInv, QueueInv
<1>3. items \subseteq Item /\ UNION Sends(items) = items
  <2>1. items \subseteq Item
    BY DEF ExporterInv, ExporterTypeOK, QueuedItems
  <2> QED BY <2>1, SendsPartition
<1>4. StatusByPlace /\ StatusByPlace'
  BY StatusByPlaceHolds, PTL
<1>5. SendingItems' = SendingItems \cup items
  BY <1>1, <1>3 DEF SendingItems, ItemsOf
<1>6. LedgerStatus' = [i \in Item |-> IF i \in items THEN "exporting" ELSE LedgerStatus[i]]
  <2>1. ASSUME NEW i \in Item
        PROVE  LedgerStatus'[i] = IF i \in items THEN "exporting" ELSE LedgerStatus[i]
    BY <1>4, <1>5 DEF StatusByPlace
  <2> QED BY <2>1 DEF LedgerStatus
<1>7. LedgerPhase' = [r \in Request |-> IF r \in reqs THEN "exporting" ELSE LedgerPhase[r]]
  <2>1. ASSUME NEW r \in Request
        PROVE  LedgerPhase'[r] = IF r \in reqs THEN "exporting" ELSE LedgerPhase[r]
    <3>1. (\E g \in groups' : g.id = r) <=> r = id \/ \E g \in groups : g.id = r
      BY <1>1
    <3> QED BY <1>2, <3>1 DEF LedgerPhase
  <2> QED BY <2>1 DEF LedgerPhase
<1>8. LedgerUnderWay' = [r \in Request |-> IF r \in reqs THEN items ELSE LedgerUnderWay[r]]
  <2>1. ASSUME NEW r \in Request
        PROVE  LedgerUnderWay'[r] = IF r \in reqs THEN items ELSE LedgerUnderWay[r]
    <3>1. CASE r = id
      <4>1. {h \in groups' : h.id = r} = {new}
        BY <1>1, <1>2, <3>1
      <4>2. LedgerUnderWay'[r] = UNION {ItemsOf(g) : g \in {new}}
        BY <4>1 DEF LedgerUnderWay, ItemsOf
      <4> QED BY <1>1, <1>3, <3>1, <4>2 DEF ItemsOf
    <3>2. CASE r # id
      <4>1. {h \in groups' : h.id = r} = {h \in groups : h.id = r}
        BY <1>1, <3>2
      <4> QED BY <3>2, <4>1 DEF LedgerUnderWay, ItemsOf
    <3> QED BY <3>1, <3>2
  <2> QED BY <2>1 DEF LedgerUnderWay
<1>9. ASSUME NEW r \in reqs
      PROVE  LedgerPhase[r] = "asked" /\ owed[r] \cap Ledger!Having("waiting") \subseteq items
  <2>1. LedgerPhase[r] = "asked"
    BY <1>2 DEF LedgerPhase
  <2> QED BY <2>1, HavingByPlace
<1> QED BY <1>6, <1>7, <1>8, <1>9 DEF Ledger!Export
\* A batch is taken: into the channel, or by nobody when the task has ended.
LEMMA SubmitStep ==
    ASSUME ExporterInv, ExporterInv', NEW m, Batch(m), Submit(m)
    PROVE  Ledger!Next
<1> DEFINE items == ToSet(m) \cap Item
           ids == ToSet(m) \cap Request
<1>1. /\ accepted' = accepted \cup items
      /\ flushed' = flushed \cup ids
      /\ owed' = [r \in Request |-> IF r \in ids THEN accepted \cup items ELSE owed[r]]
      /\ UNCHANGED <<xpc, held, groups, watch>>
  BY DEF Submit, state
<1>2. items \cap accepted = {} /\ ids \cap flushed = {}
  BY DEF Batch
<1>3. /\ items \subseteq Item /\ ids \subseteq Request
      /\ accepted \subseteq Item /\ flushed \subseteq Request
      /\ QueuedItems \subseteq accepted /\ held \subseteq accepted
      /\ SendingItems \subseteq accepted
      /\ QueuedFlushes \subseteq flushed
      /\ owed \in [Request -> SUBSET Item]
  BY Places DEF ExporterInv, ExporterTypeOK, QueueInv
<1>4. \A g \in groups : g.id \in Request => g.id \in flushed
  BY DEF ExporterInv, GroupInv
<1>5. UNCHANGED <<SendingItems, LedgerUnderWay>>
  BY <1>1 DEF SendingItems, ItemsOf, LedgerUnderWay
<1>6. CASE xpc = "done"
  <2>1. /\ queue = <<>> /\ queue' = <<>> /\ held = {} /\ held' = {} /\ groups = {}
        /\ fate' = [i \in Item |-> IF i \in items THEN "unread" ELSE fate[i]]
    BY <1>1, <1>6 DEF Submit, ExporterInv, EndInv
  <2>2. /\ QueuedItems = {} /\ QueuedFlushes = {} /\ QueuedItems' = {}
        /\ QueuedFlushes' = {} /\ SendingItems = {}
    BY <2>1 DEF QueuedItems, QueuedFlushes, SendingItems, ToSet
  <2> HIDE DEF items, ids
  <2>3. LedgerStatus' = [i \in Item |-> IF i \in items THEN "unread" ELSE LedgerStatus[i]]
    <3>1. ASSUME NEW i \in Item
          PROVE  LedgerStatus'[i] = IF i \in items THEN "unread" ELSE LedgerStatus[i]
      BY <1>1, <2>1, <2>2 DEF LedgerStatus
    <3> QED BY <3>1 DEF LedgerStatus
  <2>4. LedgerPhase' = [r \in Request |-> IF r \in ids THEN "over" ELSE LedgerPhase[r]]
    <3>1. ASSUME NEW r \in Request
          PROVE  LedgerPhase'[r] = IF r \in ids THEN "over" ELSE LedgerPhase[r]
      BY <1>1, <2>1, <2>2 DEF LedgerPhase
    <3> QED BY <3>1 DEF LedgerPhase
  <2>5. owed' = [r \in Request |->
            IF r \in ids THEN {i \in Item : LedgerStatus'[i] # "new"} ELSE owed[r]]
    <3>1. (NotNew = accepted)'
      BY NotNewIsAccepted, PTL
    <3> QED BY <1>1, <3>1 DEF NotNew
  <2>6. Ledger!Accept(items, ids, "unread", "over")
    BY <1>1, <1>5, <2>3, <2>4, <2>5 DEF Ledger!Accept
  <2>7. items \subseteq Ledger!Having("new") /\ \A r \in ids : LedgerPhase[r] = "idle"
    BY <1>2, <1>3, HavingByPlace DEF LedgerPhase
  <2> QED BY <1>3, <2>6, <2>7 DEF Ledger!Next
<1>7. CASE xpc # "done"
  <2>1. queue' = queue \o m /\ UNCHANGED fate
    BY <1>7 DEF Submit
  <2>2. ToSet(queue') = ToSet(queue) \cup ToSet(m)
    <3>1. queue \in Seq(ServiceRequest) /\ m \in Seq(ServiceRequest)
      BY DEF ExporterInv, ExporterTypeOK, Batch
    <3> HIDE DEF ServiceRequest
    <3> QED BY ONLY <2>1, <3>1, ConcatFacts, Zenon
  <2>3. QueuedItems' = QueuedItems \cup items /\ QueuedFlushes' = QueuedFlushes \cup ids
    BY <2>2 DEF QueuedItems, QueuedFlushes
  <2> HIDE DEF items, ids
  <2>4. LedgerStatus' = [i \in Item |-> IF i \in items THEN "waiting" ELSE LedgerStatus[i]]
    <3>1. ASSUME NEW i \in Item
          PROVE  LedgerStatus'[i] = IF i \in items THEN "waiting" ELSE LedgerStatus[i]
      <4>1. i \in items => fate[i] = "pending"
        BY <1>2 DEF ExporterInv, AcceptedFirst
      <4> QED BY <1>1, <2>1, <2>3, <4>1 DEF LedgerStatus
    <3> QED BY <3>1 DEF LedgerStatus
  <2>5. LedgerPhase' = [r \in Request |-> IF r \in ids THEN "asked" ELSE LedgerPhase[r]]
    <3>1. ASSUME NEW r \in Request
          PROVE  LedgerPhase'[r] = IF r \in ids THEN "asked" ELSE LedgerPhase[r]
      BY <1>1, <1>3, <2>3 DEF LedgerPhase
    <3> QED BY <3>1 DEF LedgerPhase
  <2>6. owed' = [r \in Request |->
            IF r \in ids THEN {i \in Item : LedgerStatus'[i] # "new"} ELSE owed[r]]
    <3>1. (NotNew = accepted)'
      BY NotNewIsAccepted, PTL
    <3> QED BY <1>1, <3>1 DEF NotNew
  <2>7. Ledger!Accept(items, ids, "waiting", "asked")
    BY <1>1, <1>5, <2>4, <2>5, <2>6 DEF Ledger!Accept
  <2>8. items \subseteq Ledger!Having("new") /\ \A r \in ids : LedgerPhase[r] = "idle"
    BY <1>2, <1>3, HavingByPlace DEF LedgerPhase
  <2> QED BY <1>3, <2>7, <2>8 DEF Ledger!Next
<1> QED BY <1>6, <1>7
\* The items of a send get its outcome.
LEMMA SendStep ==
    ASSUME ExporterInv, ExporterInv', NEW g \in groups, NEW s \in g.sends,
           SendCompletes(g, s)
    PROVE  Ledger!Next
<1> DEFINE rest == [g EXCEPT !.sends = @ \ {s}]
<1>1. /\ groups' = (groups \ {g}) \cup {rest}
      /\ UNCHANGED <<queue, held, watch, accepted, flushed, owed>>
  BY DEF SendCompletes, channel
<1>2. PICK outcome \in {"delivered", "failed"} :
          fate' = [i \in Item |-> IF i \in s THEN outcome ELSE fate[i]]
  BY DEF SendCompletes
<1>3. g.id = rest.id /\ rest.sends = g.sends \ {s}
  BY DEF ExporterInv, ExporterTypeOK, Group
<1> HIDE DEF rest
<1>4. UNCHANGED <<QueuedItems, QueuedFlushes>>
  BY <1>1 DEF QueuedItems, QueuedFlushes
<1>5. s \subseteq SendingItems
  BY DEF SendingItems, ItemsOf
<1>6. /\ s \subseteq accepted
      /\ \A i \in s : fate[i] = "pending"
      /\ s \cap (QueuedItems \cup held) = {}
      /\ SendsDisjoint
  BY <1>5 DEF ExporterInv, ExactlyOnce, Pending
<1>7. LedgerStatus' = [i \in Item |-> IF i \in s THEN outcome ELSE LedgerStatus[i]]
  <2>1. ASSUME NEW i \in Item
        PROVE  LedgerStatus'[i] = IF i \in s THEN outcome ELSE LedgerStatus[i]
    BY <1>1, <1>2, <1>4, <1>6 DEF LedgerStatus
  <2> QED BY <2>1 DEF LedgerStatus
<1>8. LedgerPhase' = LedgerPhase
  <2>1. ASSUME NEW r \in Request
        PROVE  (\E h \in groups' : h.id = r) <=> \E h \in groups : h.id = r
    BY <1>1, <1>3
  <2> QED BY <1>1, <1>4, <2>1 DEF LedgerPhase
<1>9. LedgerUnderWay' = [r \in Request |-> LedgerUnderWay[r] \ s]
  <2>1. \A h \in groups \ {g} : ItemsOf(h) \cap s = {}
    BY <1>6 DEF SendsDisjoint, ItemsOf
  <2>2. ItemsOf(rest) = ItemsOf(g) \ s
    BY <1>3, <1>6 DEF SendsDisjoint, ItemsOf
  <2>3. ASSUME NEW r \in Request
        PROVE  LedgerUnderWay'[r] = LedgerUnderWay[r] \ s
    <3>1. LedgerUnderWay[r] = UNION {ItemsOf(h) : h \in {k \in groups : k.id = r}}
      BY DEF LedgerUnderWay
    <3>2. LedgerUnderWay'[r] = UNION {ItemsOf(h) : h \in {k \in groups' : k.id = r}}
      BY DEF LedgerUnderWay, ItemsOf
    <3>3. ASSUME NEW i
          PROVE  /\ i \in LedgerUnderWay[r] <=> \E h \in groups : h.id = r /\ i \in ItemsOf(h)
                 /\ i \in LedgerUnderWay'[r] <=> \E h \in groups' : h.id = r /\ i \in ItemsOf(h)
      BY <3>1, <3>2
    <3>4. ASSUME NEW i
          PROVE  (\E h \in groups' : h.id = r /\ i \in ItemsOf(h)) <=>
                 (\E h \in groups : h.id = r /\ i \in ItemsOf(h)) /\ i \notin s
      BY <1>1, <1>3, <2>1, <2>2
    <3> QED BY <3>3, <3>4
  <2> QED BY <2>3 DEF LedgerUnderWay
<1>10. s \in SUBSET Ledger!Having("exporting")
  BY <1>5, HavingByPlace
<1>11. Ledger!Settle(s, outcome)
  BY <1>1, <1>7, <1>8, <1>9 DEF Ledger!Settle
<1> QED BY <1>10, <1>11 DEF Ledger!Next

\* A group that has no send left shows its ID, or hides the one shown.
LEMMA GroupStep ==
    ASSUME ExporterInv, NEW g \in groups, GroupFinishes(g)
    PROVE  Ledger!Next
<1>1. /\ g.sends = {}
      /\ groups' = groups \ {g}
      /\ watch' = g.id
      /\ UNCHANGED <<queue, held, accepted, flushed, owed, fate>>
  BY DEF GroupFinishes, channel, history
<1>2. UNCHANGED <<QueuedItems, QueuedFlushes>>
  BY <1>1 DEF QueuedItems, QueuedFlushes
<1>3. LedgerStatus' = LedgerStatus
  BY <1>1, <1>2 DEF LedgerStatus
<1>4. ItemsOf(g) = {}
  BY <1>1 DEF ItemsOf
<1>5. LedgerUnderWay' = LedgerUnderWay
  <2>1. ASSUME NEW r \in Request
        PROVE  LedgerUnderWay'[r] = LedgerUnderWay[r]
    <3>1. LedgerUnderWay[r] = UNION {ItemsOf(h) : h \in {k \in groups : k.id = r}}
      BY DEF LedgerUnderWay
    <3>2. LedgerUnderWay'[r] = UNION {ItemsOf(h) : h \in {k \in groups' : k.id = r}}
      BY DEF LedgerUnderWay, ItemsOf
    <3>3. ASSUME NEW i
          PROVE  i \in LedgerUnderWay'[r] <=> i \in LedgerUnderWay[r]
      <4>1. /\ i \in LedgerUnderWay[r] <=> \E h \in groups : h.id = r /\ i \in ItemsOf(h)
            /\ i \in LedgerUnderWay'[r] <=> \E h \in groups' : h.id = r /\ i \in ItemsOf(h)
        BY <3>1, <3>2
      <4>2. (\E h \in groups' : h.id = r /\ i \in ItemsOf(h)) <=>
            (\E h \in groups : h.id = r /\ i \in ItemsOf(h))
        BY <1>1, <1>4
      <4> QED BY <4>1, <4>2
    <3> QED BY <3>1, <3>2, <3>3
  <2> QED BY <2>1 DEF LedgerUnderWay
<1>6. CASE g.id \in Request
  <2>1. /\ g.id \in flushed \ QueuedFlushes
        /\ \A h \in groups : h.id = g.id => h = g
    BY <1>6 DEF ExporterInv, GroupInv
  <2>2. LedgerPhase[g.id] = "exporting"
    BY <1>6, <2>1 DEF LedgerPhase
  <2>3. LedgerUnderWay[g.id] = {}
    <3>1. {h \in groups : h.id = g.id} = {g}
      BY <2>1
    <3>2. LedgerUnderWay[g.id] = UNION {ItemsOf(h) : h \in {g}}
      BY <1>6, <3>1 DEF LedgerUnderWay
    <3> QED BY <1>4, <3>2
  <2>4. LedgerPhase' = [LedgerPhase EXCEPT ![g.id] = "over"]
    <3>1. ASSUME NEW r \in Request, r # g.id
          PROVE  LedgerPhase'[r] = LedgerPhase[r]
      BY <1>1, <1>2, <3>1 DEF LedgerPhase
    <3>2. LedgerPhase'[g.id] = "over"
      BY <1>1, <1>2, <1>6, <2>1 DEF LedgerPhase
    <3>3. /\ LedgerPhase = [r \in Request |-> LedgerPhase[r]]
          /\ LedgerPhase' = [r \in Request |-> LedgerPhase'[r]]
      BY DEF LedgerPhase
    <3> QED BY <1>6, <3>1, <3>2, <3>3
  <2>5. Ledger!Announce(g.id)
    BY <1>1, <1>3, <1>5, <2>2, <2>3, <2>4 DEF Ledger!Announce
  <2> QED BY <1>6, <2>5 DEF Ledger!Next
<1>7. CASE g.id \notin Request
  <2>1. LedgerPhase' = LedgerPhase
    <3>1. ASSUME NEW r \in Request
          PROVE  (\E h \in groups' : h.id = r) <=> \E h \in groups : h.id = r
      BY <1>1, <1>7
    <3> QED BY <1>1, <1>2, <3>1 DEF LedgerPhase
  <2>2. Ledger!Hide
    BY <1>1, <1>3, <1>5, <1>7, <2>1 DEF Ledger!Hide
  <2> QED BY <2>2 DEF Ledger!Next
<1> QED BY <1>6, <1>7
\* The task ends: what it has not received is lost.
LEMMA FinishStep ==
    ASSUME ExporterInv, Finish
    PROVE  Ledger!Next
<1>1. /\ groups = {} /\ groups' = {} /\ held = {} /\ held' = {} /\ queue' = <<>>
      /\ UNCHANGED <<watch, accepted, flushed, owed>>
      /\ fate' = [i \in Item |-> IF i \in QueuedItems THEN "unread" ELSE fate[i]]
  BY DEF Finish, state, ExporterInv, EndInv
<1>2. QueuedItems' = {} /\ QueuedFlushes' = {}
  BY <1>1, EmptyChannel
<1>3. /\ SendingItems = {}
      /\ Pending = QueuedItems
      /\ accepted \subseteq Item
      /\ QueuedFlushes \subseteq flushed
  BY <1>1 DEF SendingItems, ExporterInv, ExactlyOnce, ExporterTypeOK, QueueInv
<1> DEFINE lost == [i \in Item |-> "unread"]
<1>4. lost \in [Item -> Ledger!Lost] /\ \A i \in Item : lost[i] = "unread"
  BY DEF Ledger!Lost
<1> HIDE DEF lost
<1>5. LedgerStatus' = [i \in Item |->
          IF LedgerStatus[i] = "waiting" THEN lost[i]
          ELSE IF LedgerStatus[i] = "exporting" /\ FALSE THEN "abandoned"
          ELSE LedgerStatus[i]]
  <2>1. ASSUME NEW i \in Item
        PROVE  LedgerStatus'[i] = IF LedgerStatus[i] = "waiting" THEN "unread"
                                  ELSE LedgerStatus[i]
    <3>1. (i \in accepted /\ fate[i] = "pending") <=> i \in QueuedItems
      BY <1>3 DEF Pending
    <3>2. LedgerStatus[i] = "waiting" <=> i \in QueuedItems
      BY <1>1, HavingByPlace DEF Ledger!Having
    <3> QED BY <1>1, <1>2, <3>1, <3>2 DEF LedgerStatus
  <2> QED BY <1>4, <2>1 DEF LedgerStatus
<1>6. LedgerPhase' = [r \in Request |-> IF LedgerPhase[r] = "idle" THEN "idle" ELSE "over"]
  <2>1. ASSUME NEW r \in Request
        PROVE  LedgerPhase'[r] = IF LedgerPhase[r] = "idle" THEN "idle" ELSE "over"
    BY <1>1, <1>2 DEF LedgerPhase
  <2> QED BY <2>1 DEF LedgerPhase
<1>7. LedgerUnderWay' = LedgerUnderWay
  BY <1>1 DEF LedgerUnderWay
<1>8. Ledger!Lose
  BY <1>1, <1>4, <1>5, <1>6, <1>7 DEF Ledger!Lose
<1> QED BY <1>8 DEF Ledger!Next

\* The runtime ends: what any task has is lost.
LEMMA DropStep ==
    ASSUME ExporterInv, DropRuntime
    PROVE  Ledger!Next
<1>1. /\ groups' = {} /\ held' = {} /\ queue' = <<>>
      /\ UNCHANGED <<watch, accepted, flushed, owed>>
      /\ fate' = [i \in Item |-> IF i \in QueuedItems THEN "unread"
                                 ELSE IF i \in held \cup SendingItems THEN "abandoned"
                                 ELSE fate[i]]
  BY DEF DropRuntime
<1>2. QueuedItems' = {} /\ QueuedFlushes' = {}
  BY <1>1, EmptyChannel
<1>3. /\ Pending = QueuedItems \cup held \cup SendingItems
      /\ QueuedItems \cap held = {}
      /\ (QueuedItems \cup held) \cap SendingItems = {}
      /\ QueuedFlushes \subseteq flushed
      /\ \A g \in groups : g.id \in Request => g.id \in flushed \ QueuedFlushes
  BY DEF ExporterInv, ExactlyOnce, QueueInv, GroupInv
<1> DEFINE lost == [i \in Item |-> IF i \in QueuedItems THEN "unread" ELSE "abandoned"]
<1>4. /\ lost \in [Item -> Ledger!Lost]
      /\ \A i \in Item : lost[i] = IF i \in QueuedItems THEN "unread" ELSE "abandoned"
  BY DEF Ledger!Lost
<1> HIDE DEF lost
<1>5. LedgerStatus' = [i \in Item |->
          IF LedgerStatus[i] = "waiting" THEN lost[i]
          ELSE IF LedgerStatus[i] = "exporting" /\ TRUE THEN "abandoned"
          ELSE LedgerStatus[i]]
  <2>1. ASSUME NEW i \in Item
        PROVE  LedgerStatus'[i] = IF LedgerStatus[i] = "waiting" THEN lost[i]
                                  ELSE IF LedgerStatus[i] = "exporting" THEN "abandoned"
                                  ELSE LedgerStatus[i]
    <3>1. (i \in accepted /\ fate[i] = "pending") <=> i \in QueuedItems \cup held \cup SendingItems
      BY <1>3 DEF Pending
    <3>2. /\ LedgerStatus[i] = "waiting" <=> i \in QueuedItems \cup held
          /\ LedgerStatus[i] = "exporting" <=> i \in SendingItems
      BY HavingByPlace DEF Ledger!Having
    <3> QED BY <1>1, <1>2, <1>3, <1>4, <3>1, <3>2 DEF LedgerStatus
  <2> QED BY <2>1 DEF LedgerStatus
<1>6. LedgerPhase' = [r \in Request |-> IF LedgerPhase[r] = "idle" THEN "idle" ELSE "over"]
  <2>1. ASSUME NEW r \in Request
        PROVE  LedgerPhase'[r] = IF LedgerPhase[r] = "idle" THEN "idle" ELSE "over"
    BY <1>1, <1>2 DEF LedgerPhase
  <2> QED BY <2>1 DEF LedgerPhase
<1>7. LedgerUnderWay' = [r \in Request |-> {}]
  BY <1>1 DEF LedgerUnderWay
<1>8. Ledger!Lose
  BY <1>1, <1>4, <1>5, <1>6, <1>7 DEF Ledger!Lose
<1> QED BY <1>8 DEF Ledger!Next
-----------------------------------------------------------------------------
LEMMA LedgerInit == Init => Ledger!Init
<1> SUFFICES ASSUME Init PROVE Ledger!Init
  OBVIOUS
<1>1. /\ accepted = {} /\ flushed = {} /\ groups = {} /\ watch = None
      /\ owed = [r \in Request |-> {}]
  BY DEF Init
<1>2. LedgerStatus = [i \in Item |-> "new"]
  BY <1>1 DEF LedgerStatus
<1>3. LedgerPhase = [r \in Request |-> "idle"]
  BY <1>1 DEF LedgerPhase
<1>4. LedgerUnderWay = [r \in Request |-> {}]
  BY <1>1 DEF LedgerUnderWay
<1>5. None \notin Request
  BY ExporterAssumption DEF ExporterAssumption
<1> QED BY <1>1, <1>2, <1>3, <1>4, <1>5 DEF Ledger!Init

\* A telemetry message moves from the channel to the buffer, or overflows it.
LEMMA ReceiveTelemetryStep ==
    ASSUME ExporterInv, ExporterInv', ReceiveTelemetry
    PROVE  [Ledger!Next]_(Ledger!ledger)
<1>1. PICK i \in Item : i = Head(queue)
  BY DEF ReceiveTelemetry
<1>2. /\ queue # <<>> /\ queue' = Tail(queue)
      /\ UNCHANGED <<watch, accepted, flushed, owed, fate>>
  BY DEF ReceiveTelemetry, history
<1>3. i \notin Request /\ None \notin Request
  BY ExporterAssumption DEF ExporterAssumption
<1>4. /\ QueuedItems' = QueuedItems \ {i} /\ i \in QueuedItems
      /\ QueuedFlushes' = QueuedFlushes
  <2>1. /\ QueuedItems' = QueuedItems \ {i}
        /\ QueuedFlushes' = QueuedFlushes \ {i}
        /\ i \in QueuedItems \cup QueuedFlushes
    BY <1>1, <1>2, ReceiveKeepsOrder
  <2> QED BY <1>3, <2>1 DEF QueuedFlushes
<1>5. QueuedItems \cap held = {}
  BY DEF ExporterInv, ExactlyOnce
<1>6. CASE export(None, held \cup {i})
  <2> DEFINE items == held \cup {i}
  <2>1. /\ groups' = groups \cup {[n |-> exports, id |-> None, sends |-> Sends(items)]}
        /\ held' = {}
    BY <1>6 DEF export
  <2>2. items \subseteq QueuedItems \cup held
    BY <1>4
  <2>3. (QueuedItems \cup held)' = (QueuedItems \cup held) \ items
    BY <1>4, <1>5, <2>1
  <2>4. QueuedFlushes' = QueuedFlushes \ {None} /\ {None} \cap Request = {}
    BY <1>3, <1>4 DEF QueuedFlushes
  <2> HIDE DEF items
  <2>5. Ledger!Export(items, {None} \cap Request)
    BY <1>2, <1>3, <2>1, <2>2, <2>3, <2>4, ExportStep
  <2>6. items \in SUBSET Ledger!Having("waiting")
    BY <2>2, HavingByPlace
  <2> QED BY <2>4, <2>5, <2>6 DEF Ledger!Next
<1>7. CASE held' = held \cup {i} /\ UNCHANGED groups
  BY <1>2, <1>4, <1>7, StutterStep
<1> QED BY <1>1, <1>6, <1>7 DEF ReceiveTelemetry

\* A flush exports the buffer for its request.
LEMMA ReceiveFlushStep ==
    ASSUME ExporterInv, ExporterInv', ReceiveFlush
    PROVE  Ledger!Next
<1>1. PICK r \in Request : r = Head(queue)
  BY DEF ReceiveFlush
<1>2. /\ queue # <<>> /\ queue' = Tail(queue)
      /\ UNCHANGED <<watch, accepted, flushed, owed, fate>>
      /\ groups' = groups \cup {[n |-> exports, id |-> r, sends |-> Sends(held)]}
      /\ held' = {}
  BY <1>1 DEF ReceiveFlush, history, export
<1>3. r \notin Item
  BY ExporterAssumption DEF ExporterAssumption
<1>4. /\ QueuedItems' = QueuedItems
      /\ QueuedFlushes' = QueuedFlushes \ {r}
      /\ r \in QueuedFlushes
      /\ owed[r] \cap QueuedItems = {}
  <2>1. /\ QueuedItems' = QueuedItems \ {r}
        /\ QueuedFlushes' = QueuedFlushes \ {r}
        /\ r \in QueuedItems \cup QueuedFlushes
        /\ owed[r] \cap QueuedItems' = {}
    BY <1>1, <1>2, ReceiveKeepsOrder
  <2> QED BY <1>3, <2>1 DEF QueuedItems
<1>5. QueuedItems \cap held = {}
  BY DEF ExporterInv, ExactlyOnce
<1>6. (QueuedItems \cup held)' = (QueuedItems \cup held) \ held
  BY <1>2, <1>4, <1>5
<1>7. Ledger!Export(held, {r} \cap Request)
  BY <1>2, <1>4, <1>6, ExportStep
<1>8. held \in SUBSET Ledger!Having("waiting") /\ {r} \cap Request = {r}
  BY HavingByPlace
<1> QED BY <1>7, <1>8 DEF Ledger!Next

\* A periodic or final export takes the buffer for no request.
LEMMA OtherExportStep ==
    ASSUME ExporterInv, ExporterInv', NEW id \in {Tick, None}, export(id, held),
           UNCHANGED <<queue, watch, history>>
    PROVE  Ledger!Next
<1>1. /\ groups' = groups \cup {[n |-> exports, id |-> id, sends |-> Sends(held)]}
      /\ held' = {}
      /\ UNCHANGED <<accepted, flushed, owed, fate>>
  BY DEF export, history
<1>2. id \notin Request
  BY ExporterAssumption DEF ExporterAssumption
<1>3. UNCHANGED <<QueuedItems, QueuedFlushes>>
  BY DEF QueuedItems, QueuedFlushes
<1>4. /\ (QueuedItems \cup held)' = (QueuedItems \cup held) \ held
      /\ QueuedFlushes' = QueuedFlushes \ {id}
  <2>1. QueuedItems \cap held = {}
    BY DEF ExporterInv, ExactlyOnce
  <2> QED BY <1>1, <1>2, <1>3, <2>1 DEF QueuedFlushes
<1>5. Ledger!Export(held, {id} \cap Request)
  BY <1>1, <1>2, <1>4, ExportStep
<1>6. held \in SUBSET Ledger!Having("waiting") /\ {id} \cap Request = {}
  BY <1>2, HavingByPlace
<1> QED BY <1>5, <1>6 DEF Ledger!Next

\* Every step of the exporter is one of the ledger or none.
LEMMA LedgerStep ==
    ExporterInv /\ ExporterInv' /\ [Next]_exporterVars => [Ledger!Next]_(Ledger!ledger)
<1> SUFFICES ASSUME ExporterInv, ExporterInv', [Next]_exporterVars
             PROVE  [Ledger!Next]_(Ledger!ledger)
  OBVIOUS
<1>1. CASE UNCHANGED <<queue, held, groups, watch, history>>
  <2>1. /\ UNCHANGED <<accepted, flushed, owed, fate, groups, watch, held>>
        /\ UNCHANGED <<QueuedItems, QueuedFlushes>>
    BY <1>1 DEF history, QueuedItems, QueuedFlushes
  <2> QED BY <2>1, StutterStep
<1>2. CASE Start \/ Cancel \/ DropSenders \/ UNCHANGED exporterVars
  BY <1>1, <1>2 DEF Start, Cancel, DropSenders, exporterVars, channel, state
<1>3. CASE ReceiveTelemetry
  BY <1>3, ReceiveTelemetryStep
<1>4. CASE ReceiveFlush
  BY <1>4, ReceiveFlushStep
<1>5. CASE PeriodicFlush
  BY <1>5, OtherExportStep DEF PeriodicFlush, channel
<1>6. CASE FinalExport
  BY <1>6, OtherExportStep DEF FinalExport, channel
<1>7. CASE Finish
  BY <1>7, FinishStep
<1>8. CASE SendTasks
  BY <1>8, GroupStep, SendStep DEF SendTasks
<1>9. CASE (\E i \in Item : HandleOtlp(i)) \/ HandleTelemetry
  <2>1. PICK m : Batch(m) /\ Submit(m)
    BY <1>9, HandlersSendBatches DEF ExporterInv
  <2> QED BY <2>1, SubmitStep
<1>10. CASE DropRuntime
  BY <1>10, DropStep
<1> QED BY <1>2, <1>3, <1>4, <1>5, <1>6, <1>7, <1>8, <1>9, <1>10
        DEF Next, ExporterTask, Environment

(***************************************************************************)
(* The exporter implements the ledger: an item waits, is exported once and *)
(* settled once; an ID is announced when the export made for it has        *)
(* settled, and that export has left nothing due for it waiting - in every *)
(* interleaving of handlers, exporter and sends, with the loss of the      *)
(* senders, a cancellation or the end of the runtime at any point.         *)
(***************************************************************************)
THEOREM ExporterImplementsLedger == Spec => ImplementsLedger
<1> QED BY LedgerInit, LedgerStep, InvHolds, PTL DEF Spec, ImplementsLedger, Ledger!Spec
=============================================================================
