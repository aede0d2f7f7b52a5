--------------------------- MODULE ExporterProofs ---------------------------
(***************************************************************************)
(* Theorems about Exporter.tla, for every set of items and requests, every *)
(* size of the buffer and every environment of the exporter.               *)
(***************************************************************************)
EXTENDS Exporter, SequenceTheorems, FiniteSetTheorems, TLAPS

-----------------------------------------------------------------------------
(***************************************************************************)
(* Sequences                                                               *)
(***************************************************************************)

\* What receiving the head of a channel leaves in it.
LEMMA TailFacts ==
    ASSUME NEW S, NEW q \in Seq(S), q # <<>>
    PROVE  /\ Head(q) \in S
           /\ Head(q) = q[1]
           /\ Tail(q) \in Seq(S)
           /\ Len(q) \in Nat \ {0}
           /\ Len(Tail(q)) = Len(q) - 1
           /\ \A i \in 1 .. Len(Tail(q)) : Tail(q)[i] = q[i + 1]
           /\ ToSet(q) = {Head(q)} \cup ToSet(Tail(q))
<1>1. /\ Head(q) \in S
      /\ Head(q) = q[1]
      /\ Tail(q) \in Seq(S)
      /\ Len(q) \in Nat \ {0}
      /\ Len(Tail(q)) = Len(q) - 1
      /\ \A i \in 1 .. Len(Tail(q)) : Tail(q)[i] = q[i + 1]
  BY HeadTailProperties, LenProperties, EmptySeq
<1>2. /\ DOMAIN q = 1 .. Len(q)
      /\ DOMAIN Tail(q) = 1 .. Len(Tail(q))
  BY <1>1, LenProperties
<1>3. ASSUME NEW x \in ToSet(q)
      PROVE  x \in {Head(q)} \cup ToSet(Tail(q))
  <2>1. PICK i \in 1 .. Len(q) : x = q[i]
    BY <1>2, <1>3 DEF ToSet
  <2>2. CASE i = 1
    BY <1>1, <2>1, <2>2
  <2>3. CASE i # 1
    <3>1. /\ i - 1 \in 1 .. Len(Tail(q))
          /\ (i - 1) + 1 = i
      BY <1>1, <2>1, <2>3
    <3>2. x = Tail(q)[i - 1]
      BY <1>1, <2>1, <3>1
    <3> QED BY <1>2, <3>1, <3>2 DEF ToSet
  <2> QED BY <2>2, <2>3
<1>4. ASSUME NEW x \in {Head(q)} \cup ToSet(Tail(q))
      PROVE  x \in ToSet(q)
  <2>1. CASE x = Head(q)
    BY <1>1, <1>2, <2>1 DEF ToSet
  <2>2. CASE x \in ToSet(Tail(q))
    <3>1. PICK i \in 1 .. Len(Tail(q)) : x = Tail(q)[i]
      BY <1>2, <2>2 DEF ToSet
    <3>2. x = q[i + 1] /\ i + 1 \in 1 .. Len(q)
      BY <1>1, <3>1
    <3> QED BY <1>2, <3>2 DEF ToSet
  <2> QED BY <1>4, <2>1, <2>2
<1> QED BY <1>1, <1>3, <1>4

\* What sending a batch of messages adds to it.
LEMMA ConcatFacts ==
    ASSUME NEW S, NEW p \in Seq(S), NEW q \in Seq(S)
    PROVE  /\ p \o q \in Seq(S)
           /\ Len(p) \in Nat /\ Len(q) \in Nat
           /\ Len(p \o q) = Len(p) + Len(q)
           /\ \A i \in 1 .. Len(p \o q) :
                 (p \o q)[i] = IF i <= Len(p) THEN p[i] ELSE q[i - Len(p)]
           /\ ToSet(p \o q) = ToSet(p) \cup ToSet(q)
<1>1. /\ p \o q \in Seq(S)
      /\ Len(p) \in Nat /\ Len(q) \in Nat
      /\ Len(p \o q) = Len(p) + Len(q)
      /\ \A i \in 1 .. Len(p \o q) :
            (p \o q)[i] = IF i <= Len(p) THEN p[i] ELSE q[i - Len(p)]
  BY ConcatProperties, LenProperties
<1>2. /\ DOMAIN p = 1 .. Len(p)
      /\ DOMAIN q = 1 .. Len(q)
      /\ DOMAIN (p \o q) = 1 .. Len(p \o q)
  BY <1>1, LenProperties
<1>3. ASSUME NEW x \in ToSet(p \o q)
      PROVE  x \in ToSet(p) \cup ToSet(q)
  <2>1. PICK i \in 1 .. Len(p \o q) : x = (p \o q)[i]
    BY <1>2, <1>3 DEF ToSet
  <2>2. CASE i <= Len(p)
    BY <1>1, <1>2, <2>1, <2>2 DEF ToSet
  <2>3. CASE ~(i <= Len(p))
    <3>1. i - Len(p) \in 1 .. Len(q) /\ x = q[i - Len(p)]
      BY <1>1, <2>1, <2>3
    <3> QED BY <1>2, <3>1 DEF ToSet
  <2> QED BY <2>2, <2>3
<1>4. ASSUME NEW x \in ToSet(p)
      PROVE  x \in ToSet(p \o q)
  <2>1. PICK i \in 1 .. Len(p) : x = p[i]
    BY <1>2, <1>4 DEF ToSet
  <2>2. i \in 1 .. Len(p \o q) /\ (p \o q)[i] = x
    BY <1>1, <2>1
  <2> QED BY <1>2, <2>2 DEF ToSet
<1>5. ASSUME NEW x \in ToSet(q)
      PROVE  x \in ToSet(p \o q)
  <2>1. PICK i \in 1 .. Len(q) : x = q[i]
    BY <1>2, <1>5 DEF ToSet
  <2>2. i + Len(p) \in 1 .. Len(p \o q) /\ (p \o q)[i + Len(p)] = x
    BY <1>1, <2>1
  <2> QED BY <1>2, <2>2 DEF ToSet
<1> QED BY <1>1, <1>3, <1>4, <1>5
-----------------------------------------------------------------------------
(***************************************************************************)
(* Batches of messages                                                     *)
(***************************************************************************)

Distinct(q) == \A i, j \in 1 .. Len(q) : q[i] = q[j] => i = j

ItemsBeforeFlushes(q) ==
    \A j, k \in 1 .. Len(q) : q[j] \in Item /\ q[k] \in Request => j < k

\* What a handler sends in one go: messages that are new, items first.
Batch(m) ==
    /\ m \in Seq(ServiceRequest)
    /\ ToSet(m) \cap accepted = {}
    /\ ToSet(m) \cap flushed = {}
    /\ Distinct(m)
    /\ ItemsBeforeFlushes(m)

LEMMA DoneListFacts ==
    ASSUME NEW R \in SUBSET Request, NEW done \in DoneLists(R)
    PROVE  done \in Seq(R) /\ ToSet(done) \subseteq R /\ Distinct(done)
<1>1. PICK S \in SUBSET R : done \in SetToSeqs(S)
  BY DEF DoneLists, SetToAllKPermutations
<1>2. IsFiniteSet(S)
  BY <1>1, ExporterAssumption, FS_Subset DEF ExporterAssumption
<1>3. Cardinality(S) \in Nat
  BY <1>2, FS_CardinalityType
<1>4. /\ done \in [1 .. Cardinality(S) -> S]
      /\ \A i, j \in 1 .. Cardinality(S) : i # j => done[i] # done[j]
  BY <1>1 DEF SetToSeqs
<1>5. done \in Seq(S) /\ Len(done) = Cardinality(S)
  BY <1>3, <1>4
<1>6. done \in Seq(R) /\ DOMAIN done = 1 .. Len(done)
  BY <1>1, <1>4, <1>5, SeqMonotonic
<1>7. ToSet(done) \subseteq R
  BY <1>1, <1>4 DEF ToSet
<1>8. Distinct(done)
  BY <1>4, <1>5 DEF Distinct
<1> QED BY <1>6, <1>7, <1>8

LEMMA OneMessage ==
    ASSUME NEW S, NEW x \in S
    PROVE  /\ <<x>> \in Seq(S) /\ Len(<<x>>) = 1 /\ <<x>>[1] = x
           /\ ToSet(<<x>>) = {x}
<1>1. DOMAIN <<x>> = {1}
  OBVIOUS
<1> QED BY <1>1 DEF ToSet

\* A handler's messages are a batch.
LEMMA HandlersSendBatches ==
    ASSUME ExporterTypeOK,
           (\E i \in Item : HandleOtlp(i)) \/ HandleTelemetry
    PROVE  \E m : Batch(m) /\ Submit(m)
<1> USE ExporterAssumption DEF ExporterAssumption, ServiceRequest
<1>0. flushed \subseteq Request /\ accepted \subseteq Item
  BY DEF ExporterTypeOK
<1>1. ASSUME NEW i \in Item, HandleOtlp(i)
      PROVE  \E m : Batch(m) /\ Submit(m)
  <2>1. Submit(<<i>>) /\ i \notin accepted
    BY <1>1 DEF HandleOtlp, OtlpMessages
  <2>2. /\ <<i>> \in Seq(ServiceRequest) /\ Len(<<i>>) = 1 /\ <<i>>[1] = i
        /\ ToSet(<<i>>) = {i}
    BY OneMessage
  <2>3. ToSet(<<i>>) \cap accepted = {} /\ ToSet(<<i>>) \cap flushed = {}
    BY <1>0, <2>1, <2>2
  <2>4. Distinct(<<i>>) /\ ItemsBeforeFlushes(<<i>>)
    BY <2>2 DEF Distinct, ItemsBeforeFlushes
  <2> QED BY <2>1, <2>2, <2>3, <2>4 DEF Batch
<1>2. ASSUME HandleTelemetry
      PROVE  \E m : Batch(m) /\ Submit(m)
  <2>1. PICK logs \in LogBatches(Item \ accepted), done \in DoneLists(Request \ flushed) :
             Submit(logs \o done)
    BY <1>2 DEF HandleTelemetry, TelemetryMessages
  <2>2. done \in Seq(Request \ flushed) /\ ToSet(done) \subseteq Request \ flushed
        /\ Distinct(done)
    BY DoneListFacts
  <2>3. /\ \A j \in 1 .. Len(done) : done[j] \in Request \ flushed
        /\ done \in Seq(ServiceRequest)
    BY <2>2, ElementOfSeq, SeqMonotonic
  <2>4. CASE logs = <<>>
    <3>1. logs \o done = done
      BY <2>3, <2>4, ConcatEmptySeq
    <3>2. ItemsBeforeFlushes(done)
      BY <2>3 DEF ItemsBeforeFlushes
    <3>3. ToSet(done) \cap accepted = {} /\ ToSet(done) \cap flushed = {}
      BY <1>0, <2>2
    <3> QED BY <2>1, <2>2, <2>3, <3>1, <3>2, <3>3 DEF Batch
  <2>5. ASSUME NEW i \in Item \ accepted, logs = <<i>>
        PROVE  \E m : Batch(m) /\ Submit(m)
    <3>1. /\ logs \in Seq(ServiceRequest) /\ Len(logs) = 1 /\ logs[1] = i
          /\ ToSet(logs) = {i}
      BY <2>5, OneMessage
    <3> DEFINE m == logs \o done
    <3>2. /\ m \in Seq(ServiceRequest)
          /\ Len(done) \in Nat
          /\ Len(m) = 1 + Len(done)
          /\ \A k \in 1 .. Len(m) : m[k] = IF k <= 1 THEN logs[k] ELSE done[k - 1]
          /\ ToSet(m) = {i} \cup ToSet(done)
      <4>1. /\ m \in Seq(ServiceRequest)
            /\ Len(logs) \in Nat /\ Len(done) \in Nat
            /\ Len(m) = Len(logs) + Len(done)
            /\ \A k \in 1 .. Len(m) :
                  m[k] = IF k <= Len(logs) THEN logs[k] ELSE done[k - Len(logs)]
            /\ ToSet(m) = ToSet(logs) \cup ToSet(done)
        <5> HIDE DEF ServiceRequest
        <5>1. logs \in Seq(ServiceRequest) /\ done \in Seq(ServiceRequest)
          BY <2>3, <3>1
        <5> QED BY ONLY <5>1, ConcatFacts, Zenon
      <4> QED BY <3>1, <4>1
    <3> HIDE DEF m
    <3>3. /\ \A k \in 1 .. Len(m) : k <= 1 => m[k] = i
          /\ \A k \in 1 .. Len(m) : ~(k <= 1) =>
                k - 1 \in 1 .. Len(done) /\ m[k] = done[k - 1] /\ m[k] \in Request \ flushed
      BY <2>3, <3>1, <3>2
    <3>4. ASSUME NEW j \in 1 .. Len(m), NEW k \in 1 .. Len(m), m[j] = m[k]
          PROVE  j = k
      <4>1. CASE j <= 1 \/ k <= 1
        BY <2>5, <3>2, <3>3, <3>4, <4>1
      <4>2. CASE ~(j <= 1) /\ ~(k <= 1)
        <5>1. j - 1 = k - 1
          BY <2>2, <3>3, <3>4, <4>2 DEF Distinct
        <5> QED BY <3>2, <5>1
      <4> QED BY <4>1, <4>2
    <3>8. Distinct(m)
      BY <3>4 DEF Distinct
    <3>5. ItemsBeforeFlushes(m)
      BY <3>2, <3>3 DEF ItemsBeforeFlushes
    <3>6. ToSet(m) \cap accepted = {} /\ ToSet(m) \cap flushed = {}
      BY <1>0, <2>2, <3>2
    <3>7. Submit(m)
      BY <2>1 DEF m
    <3> QED BY <3>2, <3>8, <3>5, <3>6, <3>7 DEF Batch
  <2> QED BY <2>4, <2>5 DEF LogBatches
<1> QED BY <1>1, <1>2
-----------------------------------------------------------------------------
(***************************************************************************)
(* Exports                                                                 *)
(***************************************************************************)

\* The sends of an export are a partition of what it takes.
LEMMA SendsPartition ==
    ASSUME NEW items \in SUBSET Item
    PROVE  /\ Sends(items) \in SUBSET SUBSET Item
           /\ UNION Sends(items) = items
           /\ {} \notin Sends(items)
           /\ \A s, t \in Sends(items) : s \cap t # {} => s = t
<1> DEFINE OfKind(k) == {i \in items : KindOf[i] = k}
<1>1. Sends(items) = ({OfKind(k) : k \in Kind \ {"profiles"}} \ {{}})
                        \cup {{i} : i \in OfKind("profiles")}
  BY DEF Sends
<1>2. \A i \in items : KindOf[i] \in Kind
  BY ExporterAssumption DEF ExporterAssumption
<1>3. \A s \in Sends(items) : \/ \E k \in Kind \ {"profiles"} : s = OfKind(k) /\ s # {}
                              \/ \E i \in OfKind("profiles") : s = {i}
  BY <1>1
<1>4. Sends(items) \in SUBSET SUBSET Item /\ {} \notin Sends(items)
  BY <1>3
<1>5. ASSUME NEW s \in Sends(items), NEW t \in Sends(items), NEW i \in s \cap t
      PROVE  s = t
  <2>1. CASE KindOf[i] = "profiles"
    <3>1. s = {i} /\ t = {i}
      BY <1>3, <2>1
    <3> QED BY <3>1
  <2>2. CASE KindOf[i] # "profiles"
    <3>1. s = OfKind(KindOf[i]) /\ t = OfKind(KindOf[i])
      BY <1>3, <2>2
    <3> QED BY <3>1
  <2> QED BY <2>1, <2>2
<1>6. ASSUME NEW i \in items
      PROVE  i \in UNION Sends(items)
  <2>1. CASE KindOf[i] = "profiles"
    <3>1. {i} \in Sends(items)
      BY <1>1, <2>1
    <3> QED BY <3>1
  <2>2. CASE KindOf[i] # "profiles"
    <3>1. OfKind(KindOf[i]) \in Sends(items) /\ i \in OfKind(KindOf[i])
      BY <1>1, <1>2, <2>2
    <3> QED BY <3>1
  <2> QED BY <2>1, <2>2
<1>7. UNION Sends(items) \subseteq items
  BY <1>3
<1> QED BY <1>4, <1>5, <1>6, <1>7
\* The group an export adds and what it leaves of the buffer.
LEMMA ExportTypes ==
    ASSUME ExporterTypeOK,
           NEW id \in Request \cup {Tick, None}, NEW items \in SUBSET Item,
           export(id, items)
    PROVE  /\ held' \subseteq Item
           /\ buffered' \in 0 .. MaxBuffered - 1
           /\ exports' \in Nat
           /\ groups' \subseteq Group
<1>1. Sends(items) \in SUBSET SUBSET Item
  BY SendsPartition
<1>2. MaxBuffered \in Nat \ {0}
  BY ExporterAssumption DEF ExporterAssumption
<1> QED BY <1>1, <1>2 DEF export, ExporterTypeOK, Group

\* An export of items that are in no send: they are in one send each of a
\* group of their own.
LEMMA ExportGroups ==
    ASSUME ExporterTypeOK, GroupInv, SendsDisjoint,
           NEW id \in Request \cup {Tick, None}, NEW items \in SUBSET Item,
           items \cap SendingItems = {},
           export(id, items)
    PROVE  /\ held' = {}
           /\ groups' = groups \cup {[n |-> exports, id |-> id, sends |-> Sends(items)]}
           /\ SendingItems' = SendingItems \cup items
           /\ SendsDisjoint'
           /\ \A g \in groups' : g.n < exports' /\ {} \notin g.sends
           /\ \A g, h \in groups' : g.n = h.n => g = h
<1> DEFINE new == [n |-> exports, id |-> id, sends |-> Sends(items)]
<1>1. /\ held' = {}
      /\ groups' = groups \cup {new}
      /\ exports' = exports + 1
  BY DEF export
<1>2. new.n = exports /\ new.sends = Sends(items)
  OBVIOUS
<1> HIDE DEF new
<1>3. /\ UNION Sends(items) = items
      /\ {} \notin Sends(items)
      /\ \A s, t \in Sends(items) : s \cap t # {} => s = t
  BY SendsPartition
<1>4. exports \in Nat /\ \A g \in groups : g.n \in Nat /\ g.n < exports /\ {} \notin g.sends
  BY DEF ExporterTypeOK, Group, GroupInv
<1>5. SendingItems' = SendingItems \cup items
  BY <1>1, <1>2, <1>3 DEF SendingItems, ItemsOf
<1>6. \A g \in groups' : g.n < exports' /\ {} \notin g.sends
  BY <1>1, <1>2, <1>3, <1>4
<1>7. ASSUME NEW g \in groups', NEW h \in groups', g.n = h.n
      PROVE  g = h
  <2>1. CASE g \in groups /\ h \in groups
    BY <1>7, <2>1 DEF GroupInv
  <2>2. CASE ~(g \in groups /\ h \in groups)
    BY <1>1, <1>2, <1>4, <1>7, <2>2
  <2> QED BY <2>1, <2>2
<1>8. ASSUME NEW g \in groups', NEW h \in groups', NEW s \in g.sends, NEW t \in h.sends,
             s \cap t # {}
      PROVE  g = h /\ s = t
  <2>1. CASE g \in groups /\ h \in groups
    BY <1>8, <2>1 DEF SendsDisjoint
  <2>2. CASE g = new /\ h = new
    BY <1>2, <1>3, <1>8, <2>2
  <2>3. CASE g \in groups /\ h = new
    <3>1. s \subseteq SendingItems
      BY <1>8, <2>3 DEF SendingItems, ItemsOf
    <3>2. t \subseteq items
      BY <1>2, <1>3, <1>8, <2>3
    <3> QED BY <1>8, <3>1, <3>2
  <2>4. CASE g = new /\ h \in groups
    <3>1. t \subseteq SendingItems
      BY <1>8, <2>4 DEF SendingItems, ItemsOf
    <3>2. s \subseteq items
      BY <1>2, <1>3, <1>8, <2>4
    <3> QED BY <1>8, <3>1, <3>2
  <2> QED BY <1>1, <2>1, <2>2, <2>3, <2>4
<1>9. SendsDisjoint'
  BY <1>8 DEF SendsDisjoint
<1> QED BY <1>1, <1>5, <1>6, <1>7, <1>9 DEF new
-----------------------------------------------------------------------------
(***************************************************************************)
(* The channel                                                             *)
(***************************************************************************)

\* Receiving a message keeps the order of the others; a flush that is
\* received leaves nothing owed to it behind in the channel.
LEMMA ReceiveHead ==
    ASSUME ExporterTypeOK, QueueInv, OwedAhead,
           queue # <<>>, queue' = Tail(queue), UNCHANGED <<owed, flushed>>
    PROVE  /\ ToSet(queue') = ToSet(queue) \ {Head(queue)}
           /\ Head(queue) \in ToSet(queue)
           /\ QueueInv'
           /\ OwedAhead'
           /\ Head(queue) \in Request =>
                 owed[Head(queue)] \cap ToSet(queue') = {}
<1>1. /\ Head(queue) = queue[1]
      /\ queue' \in Seq(ServiceRequest)
      /\ Len(queue) \in Nat \ {0}
      /\ Len(queue') = Len(queue) - 1
      /\ \A i \in 1 .. Len(queue') : queue'[i] = queue[i + 1]
      /\ ToSet(queue) = {Head(queue)} \cup ToSet(queue')
  BY TailFacts DEF ExporterTypeOK
<1>2. \A i, j \in 1 .. Len(queue) : queue[i] = queue[j] => i = j
  BY DEF QueueInv
<1>3. DOMAIN queue' = 1 .. Len(queue')
  BY <1>1, LenProperties
<1>4. \A x \in ToSet(queue') : \E i \in 1 .. Len(queue') :
          x = queue'[i] /\ i + 1 \in 1 .. Len(queue) /\ x = queue[i + 1]
  BY <1>1, <1>3 DEF ToSet
<1>5. Head(queue) \notin ToSet(queue')
  <2> SUFFICES ASSUME Head(queue) \in ToSet(queue')
               PROVE  FALSE
    OBVIOUS
  <2>1. PICK i \in 1 .. Len(queue') : i + 1 \in 1 .. Len(queue) /\ queue[1] = queue[i + 1]
    BY <1>1, <1>4
  <2> QED BY <1>1, <1>2, <2>1
<1>6. QueueInv'
  <2>1. ASSUME NEW i \in 1 .. Len(queue'), NEW j \in 1 .. Len(queue'), queue'[i] = queue'[j]
        PROVE  i = j
    <3>1. i + 1 \in 1 .. Len(queue) /\ j + 1 \in 1 .. Len(queue) /\ queue[i + 1] = queue[j + 1]
      BY <1>1, <2>1
    <3>2. i + 1 = j + 1
      BY <1>2, <3>1
    <3> QED BY <1>1, <3>2
  <2>2. QueuedFlushes' \subseteq flushed'
    BY <1>1 DEF QueueInv, QueuedFlushes
  <2> QED BY <2>1, <2>2 DEF QueueInv
<1>7. OwedAhead'
  <2>1. ASSUME NEW j \in 1 .. Len(queue'), NEW k \in 1 .. Len(queue'),
               queue'[k] \in Request, queue'[j] \in owed[queue'[k]]
        PROVE  j < k
    <3>1. /\ j + 1 \in 1 .. Len(queue) /\ k + 1 \in 1 .. Len(queue)
          /\ queue[k + 1] \in Request /\ queue[j + 1] \in owed[queue[k + 1]]
      BY <1>1, <2>1
    <3>2. j + 1 < k + 1
      BY <3>1 DEF OwedAhead
    <3> QED BY <1>1, <3>2
  <2> QED BY <2>1 DEF OwedAhead
<1>8. ASSUME Head(queue) \in Request, NEW x \in owed[Head(queue)] \cap ToSet(queue')
      PROVE  FALSE
  <2>1. PICK i \in 1 .. Len(queue') : i + 1 \in 1 .. Len(queue) /\ x = queue[i + 1]
    BY <1>4, <1>8
  <2>2. i + 1 < 1
    BY <1>1, <1>8, <2>1 DEF OwedAhead
  <2> QED BY <1>1, <2>2
<1> QED BY <1>1, <1>5, <1>6, <1>7, <1>8

-----------------------------------------------------------------------------
(***************************************************************************)
(* Types                                                                   *)
(***************************************************************************)

\* The exporter starts well typed.
LEMMA TypeInit == Init => ExporterTypeOK
<1> USE ExporterAssumption DEF ExporterAssumption
<1> SUFFICES ASSUME Init PROVE ExporterTypeOK
  OBVIOUS
<1>1. queue \in Seq(ServiceRequest)
  BY EmptySeq DEF Init
<1>2. fate \in [Item -> Fate]
  BY DEF Init, Fate
<1>3. owed \in [Request -> SUBSET Item]
  BY DEF Init
<1>4. /\ senders \in BOOLEAN /\ cancelled \in BOOLEAN
      /\ xpc \in {"starting", "receiving", "stopping", "draining", "done", "dropped"}
      /\ watch \in Request \cup {Tick, None}
  BY DEF Init
<1>5. held \subseteq Item /\ groups \subseteq Group /\ accepted \subseteq Item
      /\ flushed \subseteq Request
  BY DEF Init
<1>6. buffered \in 0 .. MaxBuffered - 1 /\ exports \in Nat
  BY DEF Init
<1> QED BY <1>1, <1>2, <1>3, <1>4, <1>5, <1>6 DEF ExporterTypeOK

\* Every step keeps the types.
LEMMA TypeStep == ExporterTypeOK /\ [Next]_exporterVars => ExporterTypeOK'
<1> USE ExporterAssumption DEF ExporterAssumption
<1> SUFFICES ASSUME ExporterTypeOK, [Next]_exporterVars
             PROVE  ExporterTypeOK'
  OBVIOUS
<1> USE DEF ExporterTypeOK
<1>1. CASE Start
  BY <1>1 DEF Start, Iterate, channel, state, history
<1>2. CASE ReceiveTelemetry
  <2>1. PICK i \in Item : i = Head(queue)
    BY <1>2 DEF ReceiveTelemetry
  <2>2. queue' \in Seq(ServiceRequest)
    BY <1>2, TailFacts DEF ReceiveTelemetry
  <2>3. /\ held' \subseteq Item
        /\ buffered' \in 0 .. MaxBuffered - 1
        /\ exports' \in Nat
        /\ groups' \subseteq Group
    <3>1. CASE buffered + Size[i] >= MaxBuffered
      <4>1. export(None, held \cup {i})
        BY <1>2, <2>1, <3>1 DEF ReceiveTelemetry
      <4> QED BY <4>1, ExportTypes
    <3>2. CASE ~(buffered + Size[i] >= MaxBuffered)
      <4>1. /\ held' = held \cup {i}
            /\ buffered' = buffered + Size[i]
            /\ UNCHANGED <<exports, groups>>
        BY <1>2, <2>1, <3>2 DEF ReceiveTelemetry
      <4>2. Size[i] \in Nat
        OBVIOUS
      <4> QED BY <3>2, <4>1, <4>2
    <3> QED BY <3>1, <3>2
  <2> QED BY <1>2, <2>2, <2>3 DEF ReceiveTelemetry, Iterate, history
<1>3. CASE ReceiveFlush
  <2>1. Head(queue) \in Request /\ export(Head(queue), held)
    BY <1>3 DEF ReceiveFlush
  <2>2. queue' \in Seq(ServiceRequest)
    BY <1>3, TailFacts DEF ReceiveFlush
  <2>3. /\ held' \subseteq Item
        /\ buffered' \in 0 .. MaxBuffered - 1
        /\ exports' \in Nat
        /\ groups' \subseteq Group
    BY <2>1, ExportTypes
  <2> QED BY <1>3, <2>2, <2>3 DEF ReceiveFlush, Iterate, history
<1>4. CASE PeriodicFlush
  <2>1. /\ held' \subseteq Item
        /\ buffered' \in 0 .. MaxBuffered - 1
        /\ exports' \in Nat
        /\ groups' \subseteq Group
    BY <1>4, ExportTypes DEF PeriodicFlush
  <2> QED BY <1>4, <2>1 DEF PeriodicFlush, channel, history
<1>5. CASE FinalExport
  <2>1. /\ held' \subseteq Item
        /\ buffered' \in 0 .. MaxBuffered - 1
        /\ exports' \in Nat
        /\ groups' \subseteq Group
    BY <1>5, ExportTypes DEF FinalExport
  <2> QED BY <1>5, <2>1 DEF FinalExport, channel, history
<1>6. CASE Finish
  <2>1. queue' \in Seq(ServiceRequest)
    BY <1>6, EmptySeq DEF Finish
  <2> QED BY <1>6, <2>1 DEF Finish, state, Fate
<1>7. ASSUME NEW g \in groups, GroupFinishes(g)
      PROVE  ExporterTypeOK'
  BY <1>7 DEF GroupFinishes, channel, history, Group
<1>8. ASSUME NEW g \in groups, NEW s \in g.sends, SendCompletes(g, s)
      PROVE  ExporterTypeOK'
  <2>1. [g EXCEPT !.sends = @ \ {s}] \in Group
    <3>1. g \in [n : Nat, id : Request \cup {Tick, None}, sends : SUBSET SUBSET Item]
      BY DEF Group
    <3>2. g.sends \ {s} \in SUBSET SUBSET Item
      BY <3>1
    <3> QED BY <3>1, <3>2 DEF Group
  <2>2. groups' \subseteq Group
    BY <1>8, <2>1 DEF SendCompletes
  <2>3. fate' \in [Item -> Fate]
    BY <1>8 DEF SendCompletes, Fate
  <2> QED BY <1>8, <2>2, <2>3 DEF SendCompletes, channel
<1>9. CASE (\E i \in Item : HandleOtlp(i)) \/ HandleTelemetry
  <2>1. PICK m : Batch(m) /\ Submit(m)
    BY <1>9, HandlersSendBatches
  <2>2. queue \o m \in Seq(ServiceRequest)
    BY <2>1, ConcatFacts DEF Batch
  <2>3. fate' \in [Item -> Fate]
    BY <2>1 DEF Submit, Fate
  <2>4. queue' \in Seq(ServiceRequest)
    BY <2>1, <2>2 DEF Submit
  <2> QED BY <2>1, <2>3, <2>4 DEF Submit, state
<1>10. CASE Cancel
  BY <1>10 DEF Cancel, channel, state, history
<1>11. CASE DropSenders
  BY <1>11 DEF DropSenders, state, history
<1>12. CASE DropRuntime
  <2>1. queue' \in Seq(ServiceRequest)
    BY <1>12, EmptySeq DEF DropRuntime
  <2>2. fate' \in [Item -> Fate]
    BY <1>12 DEF DropRuntime, Fate
  <2>3. /\ senders' = FALSE /\ xpc' = "dropped" /\ held' = {} /\ groups' = {}
        /\ buffered' = 0
        /\ UNCHANGED <<cancelled, exports, watch, accepted, flushed, owed>>
    BY <1>12 DEF DropRuntime
  <2>4. /\ held' \subseteq Item /\ groups' \subseteq Group
        /\ buffered' \in 0 .. MaxBuffered - 1
        /\ xpc' \in {"starting", "receiving", "stopping", "draining", "done", "dropped"}
    BY <2>3
  <2>5. senders' \in BOOLEAN /\ cancelled' \in BOOLEAN
    BY <2>3
  <2>6. /\ exports' \in Nat /\ watch' \in Request \cup {Tick, None}
        /\ accepted' \subseteq Item /\ flushed' \subseteq Request
        /\ owed' \in [Request -> SUBSET Item]
    BY <2>3
  <2> QED BY <2>1, <2>2, <2>4, <2>5, <2>6
<1>13. CASE UNCHANGED exporterVars
  BY <1>13 DEF exporterVars, channel, state, history
<1> QED BY <1>1, <1>2, <1>3, <1>4, <1>5, <1>6, <1>7, <1>8, <1>9, <1>10, <1>11,
           <1>12, <1>13 DEF Next, ExporterTask, SendTasks, Environment

(***************************************************************************)
(* Type correctness: every variable keeps to its type in every behaviour;  *)
(* in particular the buffer is below MAX_BUFFERED whenever the exporter    *)
(* waits, whatever the sizes of the messages it received.                  *)
(***************************************************************************)
THEOREM TypeCorrect == Spec => []ExporterTypeOK
<1> QED BY TypeInit, TypeStep, PTL DEF Spec
-----------------------------------------------------------------------------
(***************************************************************************)
(* The inductive invariant                                                 *)
(***************************************************************************)

\* What no channel, buffer or send holds is free to be held by another.
LEMMA Places ==
    ASSUME ExporterTypeOK, ExactlyOnce
    PROVE  /\ QueuedItems \subseteq accepted
           /\ held \subseteq accepted
           /\ SendingItems \subseteq accepted
           /\ ToSet(queue) \subseteq QueuedItems \cup QueuedFlushes
<1>1. QueuedItems \cup held \cup SendingItems \subseteq accepted
  BY DEF ExactlyOnce, Pending
<1>2. ToSet(queue) \subseteq ServiceRequest
  BY LenProperties, ElementOfSeq DEF ExporterTypeOK, ToSet
<1> QED BY <1>1, <1>2 DEF QueuedItems, QueuedFlushes, ServiceRequest

\* An empty channel is in order.
LEMMA EmptyChannel ==
    ASSUME queue' = <<>>
    PROVE  /\ QueuedItems' = {} /\ QueuedFlushes' = {}
           /\ QueueInv' /\ OwedAhead'
<1>1. Len(queue') = 0 /\ DOMAIN queue' = {}
  OBVIOUS
<1>2. ToSet(queue') = {}
  BY <1>1 DEF ToSet
<1>3. QueuedItems' = {} /\ QueuedFlushes' = {}
  BY <1>2 DEF QueuedItems, QueuedFlushes
<1>4. 1 .. Len(queue') = {}
  BY <1>1
<1>5. QueueInv' /\ OwedAhead'
  BY <1>3, <1>4 DEF QueueInv, OwedAhead
<1> QED BY <1>3, <1>5

\* A step that only moves the task, the token or the senders.
LEMMA ControlStep ==
    ASSUME ExporterInv, ExporterTypeOK', EndInv',
           UNCHANGED <<queue, state, watch, history>>
    PROVE  ExporterInv'
<1> USE DEF state, history
<1>1. UNCHANGED <<QueuedItems, QueuedFlushes, SendingItems, Pending>>
  BY DEF QueuedItems, QueuedFlushes, SendingItems, ItemsOf, Pending
<1>2. QueueInv' /\ OwedAhead' /\ AcceptedFirst'
  BY <1>1 DEF ExporterInv, QueueInv, OwedAhead, AcceptedFirst
<1>3. GroupInv'
  BY <1>1 DEF ExporterInv, GroupInv
<1>4. ExactlyOnce' /\ FlushCovers' /\ NotifySound'
  BY <1>1 DEF ExporterInv, ExactlyOnce, SendsDisjoint, FlushCovers, NotifySound
<1> QED BY <1>2, <1>3, <1>4 DEF ExporterInv

\* A batch of new messages, whether the receiver is there or gone.
LEMMA SubmitKeepsInv ==
    ASSUME ExporterInv, ExporterTypeOK', NEW m, Batch(m), Submit(m)
    PROVE  ExporterInv'
<1> DEFINE items == ToSet(m) \cap Item
           ids == ToSet(m) \cap Request
<1>1. /\ senders
      /\ accepted' = accepted \cup items
      /\ flushed' = flushed \cup ids
      /\ owed' = [r \in Request |-> IF r \in ids THEN accepted \cup items ELSE owed[r]]
      /\ UNCHANGED <<senders, cancelled, xpc, state, watch>>
  BY DEF Submit
<1>2. UNCHANGED SendingItems
  BY <1>1 DEF SendingItems, ItemsOf, state
<1>3. items \cap accepted = {} /\ ids \cap flushed = {}
  BY DEF Batch
<1> HIDE DEF items, ids
<1>4. /\ \A r \in Request : owed[r] \subseteq accepted
      /\ \A i \in Item \ accepted : fate[i] = "pending"
      /\ fate \in [Item -> Fate]
      /\ owed \in [Request -> SUBSET Item]
      /\ accepted \subseteq Item /\ flushed \subseteq Request
      /\ QueuedFlushes \subseteq flushed
  BY DEF ExporterInv, AcceptedFirst, ExporterTypeOK, QueueInv
<1>5. items \subseteq Item /\ ids \subseteq Request
  BY DEF items, ids
<1>6. \A r \in Request : owed'[r] \subseteq accepted'
  BY <1>1, <1>4
<1>7. /\ QueuedItems \subseteq accepted /\ held \subseteq accepted
      /\ SendingItems \subseteq accepted
      /\ ToSet(queue) \subseteq QueuedItems \cup QueuedFlushes
  BY Places DEF ExporterInv
<1>8. CASE xpc = "done"
  <2>1. /\ queue = <<>> /\ groups = {} /\ held = {}
        /\ queue' = <<>> /\ groups' = {} /\ held' = {}
        /\ fate' = [i \in Item |-> IF i \in items THEN "unread" ELSE fate[i]]
    BY <1>1, <1>8 DEF Submit, items, ExporterInv, EndInv, state
  <2>2. QueuedItems' = {} /\ QueuedFlushes' = {} /\ QueueInv' /\ OwedAhead'
    BY <2>1, EmptyChannel
  <2>3. SendingItems = {} /\ SendingItems' = {}
    BY <2>1 DEF SendingItems
  <2>4. QueuedItems = {} /\ QueuedFlushes = {}
    BY <2>1 DEF QueuedItems, QueuedFlushes, ToSet
  <2>5. Pending = {}
    BY <2>1, <2>3, <2>4 DEF ExporterInv, ExactlyOnce
  <2>6. Pending' = {}
    BY <1>1, <1>4, <1>5, <2>1, <2>5 DEF Pending
  <2>7. ExactlyOnce'
    BY <2>1, <2>2, <2>3, <2>6 DEF ExactlyOnce, SendsDisjoint
  <2>8. FlushCovers'
    BY <2>1, <2>2 DEF FlushCovers
  <2>9. NotifySound'
    BY <1>1, <2>1, <2>2 DEF NotifySound, ExporterInv
  <2>10. AcceptedFirst'
    BY <1>1, <1>4, <1>6, <2>1 DEF AcceptedFirst
  <2>11. GroupInv'
    BY <2>1 DEF GroupInv
  <2>12. EndInv'
    BY <1>1, <1>8, <2>1 DEF EndInv
  <2> QED BY <2>2, <2>7, <2>8, <2>9, <2>10, <2>11, <2>12 DEF ExporterInv
<1>9. CASE xpc # "done"
  <2>1. queue' = queue \o m /\ UNCHANGED fate
    BY <1>9 DEF Submit
  <2>2. queue \in Seq(ServiceRequest) /\ m \in Seq(ServiceRequest)
    BY DEF ExporterInv, ExporterTypeOK, Batch
  <2>3. /\ queue \o m \in Seq(ServiceRequest)
        /\ Len(queue) \in Nat /\ Len(m) \in Nat
        /\ Len(queue \o m) = Len(queue) + Len(m)
        /\ \A i \in 1 .. Len(queue \o m) :
              (queue \o m)[i] = IF i <= Len(queue) THEN queue[i] ELSE m[i - Len(queue)]
        /\ ToSet(queue \o m) = ToSet(queue) \cup ToSet(m)
    <3> HIDE DEF ServiceRequest
    <3> QED BY ONLY <2>2, ConcatFacts, Zenon
  <2>4. QueuedItems' = QueuedItems \cup items /\ QueuedFlushes' = QueuedFlushes \cup ids
    BY <2>1, <2>3 DEF QueuedItems, QueuedFlushes, items, ids
  <2>5. DOMAIN queue = 1 .. Len(queue) /\ DOMAIN m = 1 .. Len(m)
    BY <2>2, LenProperties
  <2>6. ASSUME NEW k \in 1 .. Len(queue')
        PROVE  \/ /\ k \in 1 .. Len(queue) /\ queue'[k] = queue[k]
                  /\ queue'[k] \in accepted \cup flushed
               \/ /\ ~(k <= Len(queue)) /\ k - Len(queue) \in 1 .. Len(m)
                  /\ queue'[k] = m[k - Len(queue)]
                  /\ queue'[k] \in ToSet(m)
    <3>1. CASE k <= Len(queue)
      <4>1. k \in 1 .. Len(queue) /\ queue'[k] = queue[k]
        BY <2>1, <2>3, <2>6, <3>1
      <4>2. queue[k] \in ToSet(queue)
        BY <2>5, <4>1 DEF ToSet
      <4> QED BY <1>4, <1>7, <4>1, <4>2
    <3>2. CASE ~(k <= Len(queue))
      <4>1. k - Len(queue) \in 1 .. Len(m) /\ queue'[k] = m[k - Len(queue)]
        BY <2>1, <2>3, <2>6, <3>2
      <4> QED BY <2>5, <3>2, <4>1 DEF ToSet
    <3> QED BY <3>1, <3>2
  <2>7. ToSet(m) \cap (accepted \cup flushed) = {}
    BY DEF Batch
  <2>8. QueueInv'
    <3>1. ASSUME NEW i \in 1 .. Len(queue'), NEW j \in 1 .. Len(queue'), queue'[i] = queue'[j]
          PROVE  i = j
      <4>1. CASE i \in 1 .. Len(queue) /\ j \in 1 .. Len(queue)
        BY <2>6, <3>1, <4>1 DEF ExporterInv, QueueInv
      <4>2. CASE ~(i <= Len(queue)) /\ ~(j <= Len(queue))
        <5>1. i - Len(queue) = j - Len(queue)
          BY <2>6, <3>1, <4>2 DEF Batch, Distinct
        <5> QED BY <2>3, <5>1
      <4> QED BY <2>6, <2>7, <3>1, <4>1, <4>2
    <3>2. QueuedFlushes' \subseteq flushed'
      BY <1>1, <1>4, <2>4
    <3> QED BY <3>1, <3>2 DEF QueueInv
  <2>9. OwedAhead'
    <3>1. ASSUME NEW j \in 1 .. Len(queue'), NEW k \in 1 .. Len(queue'),
                 queue'[k] \in Request, queue'[j] \in owed'[queue'[k]]
          PROVE  j < k
      <4>1. CASE k \in 1 .. Len(queue)
        <5>1. queue'[k] \in flushed
          <6>1. queue'[k] = queue[k] /\ queue[k] \in ToSet(queue)
            BY <2>5, <2>6, <4>1 DEF ToSet
          <6> QED BY <1>4, <3>1, <6>1 DEF QueuedFlushes
        <5>2. owed'[queue'[k]] = owed[queue'[k]]
          BY <1>1, <1>3, <3>1, <5>1
        <5>3. queue'[j] \in accepted
          BY <1>4, <3>1, <5>2
        <5>4. j \in 1 .. Len(queue)
          BY <2>6, <2>7, <5>3
        <5> QED BY <2>6, <3>1, <4>1, <5>2, <5>4 DEF ExporterInv, OwedAhead
      <4>2. CASE ~(k <= Len(queue))
        <5>1. CASE j <= Len(queue)
          BY <2>3, <4>2, <5>1
        <5>2. CASE ~(j <= Len(queue))
          <6>1. queue'[j] \in Item
            BY <1>1, <1>4, <1>5, <3>1
          <6>2. j - Len(queue) < k - Len(queue)
            <7>1. /\ j - Len(queue) \in 1 .. Len(m) /\ m[j - Len(queue)] \in Item
                  /\ k - Len(queue) \in 1 .. Len(m) /\ m[k - Len(queue)] \in Request
              BY <2>3, <2>6, <3>1, <4>2, <5>2, <6>1
            <7>2. ItemsBeforeFlushes(m)
              BY DEF Batch
            <7> QED BY <7>1, <7>2 DEF ItemsBeforeFlushes
          <6> QED BY <2>3, <6>2
        <5> QED BY <5>1, <5>2
      <4> QED BY <2>6, <4>1, <4>2
    <3> QED BY <3>1 DEF OwedAhead
  <2>10. AcceptedFirst'
    BY <1>1, <1>4, <1>6, <2>1 DEF AcceptedFirst
  <2>11. Pending' = Pending \cup items
    BY <1>1, <1>3, <1>4, <1>5, <2>1 DEF Pending
  <2>12. ExactlyOnce'
    <3>1. SendsDisjoint'
      BY <1>1 DEF ExporterInv, ExactlyOnce, SendsDisjoint, state
    <3>2. held' = held
      BY <1>1 DEF state
    <3> QED BY <1>2, <1>3, <1>7, <2>4, <2>11, <3>1, <3>2 DEF ExporterInv, ExactlyOnce
  <2>13. FlushCovers'
    <3>1. ASSUME NEW r \in flushed' \ QueuedFlushes'
          PROVE  owed'[r] \cap (QueuedItems' \cup held') = {}
      <4>1. r \in flushed \ QueuedFlushes /\ r \notin ids
        BY <1>1, <2>4, <3>1
      <4>2. owed'[r] = owed[r] /\ owed[r] \subseteq accepted
        BY <1>1, <1>4, <4>1
      <4>3. owed[r] \cap (QueuedItems \cup held) = {}
        BY <4>1 DEF ExporterInv, FlushCovers
      <4> QED BY <1>1, <1>3, <2>4, <4>2, <4>3 DEF state
    <3> QED BY <3>1 DEF FlushCovers
  <2>14. NotifySound'
    BY <1>1, <1>3, <2>4 DEF ExporterInv, NotifySound, state
  <2>15. GroupInv'
    BY <1>1, <1>3, <2>4 DEF ExporterInv, GroupInv, state
  <2>16. EndInv'
    BY <1>1, <1>9 DEF ExporterInv, EndInv, state
  <2> QED BY <2>8, <2>9, <2>10, <2>12, <2>13, <2>14, <2>15, <2>16 DEF ExporterInv
<1> QED BY <1>8, <1>9

\* The task handles the head of its channel: its item joins the buffer, or
\* the buffer and perhaps the item are exported.
LEMMA ReceiveKeepsOrder ==
    ASSUME ExporterInv, queue # <<>>, queue' = Tail(queue),
           UNCHANGED <<accepted, flushed, owed, fate>>
    PROVE  /\ QueueInv' /\ OwedAhead' /\ AcceptedFirst'
           /\ Pending' = Pending
           /\ QueuedItems' = QueuedItems \ {Head(queue)}
           /\ QueuedFlushes' = QueuedFlushes \ {Head(queue)}
           /\ Head(queue) \in QueuedItems \cup QueuedFlushes
           /\ Head(queue) \in Request => owed[Head(queue)] \cap QueuedItems' = {}
<1>1. /\ ToSet(queue') = ToSet(queue) \ {Head(queue)}
      /\ Head(queue) \in ToSet(queue)
      /\ QueueInv' /\ OwedAhead'
      /\ Head(queue) \in Request => owed[Head(queue)] \cap ToSet(queue') = {}
  BY ReceiveHead DEF ExporterInv
<1>2. ToSet(queue) \subseteq QueuedItems \cup QueuedFlushes
  BY Places DEF ExporterInv
<1>3. AcceptedFirst' /\ Pending' = Pending
  BY DEF ExporterInv, AcceptedFirst, Pending
<1> QED BY <1>1, <1>2, <1>3 DEF QueuedItems, QueuedFlushes

\* A Trace, Metrics, Logs or Profiles message, with or without overflow.
LEMMA ReceiveTelemetryKeepsInv ==
    ASSUME ExporterInv, ExporterTypeOK', ReceiveTelemetry
    PROVE  ExporterInv'
<1>1. PICK i \in Item : i = Head(queue)
  BY DEF ReceiveTelemetry
<1>2. /\ queue # <<>> /\ queue' = Tail(queue)
      /\ UNCHANGED <<senders, cancelled, watch, accepted, flushed, owed, fate>>
      /\ xpc' \in {"stopping", "receiving"}
  BY DEF ReceiveTelemetry, Iterate, history
<1>3. i \notin Request
  BY ExporterAssumption DEF ExporterAssumption
<1>4. /\ QueueInv' /\ OwedAhead' /\ AcceptedFirst'
      /\ Pending' = Pending
      /\ QueuedItems' = QueuedItems \ {i}
      /\ QueuedFlushes' = QueuedFlushes
      /\ i \in QueuedItems
  <2>1. /\ QueueInv' /\ OwedAhead' /\ AcceptedFirst'
        /\ Pending' = Pending
        /\ QueuedItems' = QueuedItems \ {i}
        /\ QueuedFlushes' = QueuedFlushes \ {i}
        /\ i \in QueuedItems \cup QueuedFlushes
    BY <1>1, <1>2, ReceiveKeepsOrder
  <2> QED BY <1>3, <2>1 DEF QueuedFlushes
<1>5. /\ Pending = QueuedItems \cup held \cup SendingItems
      /\ QueuedItems \cap held = {}
      /\ (QueuedItems \cup held) \cap SendingItems = {}
      /\ SendsDisjoint
      /\ held \subseteq Item
  BY DEF ExporterInv, ExactlyOnce, ExporterTypeOK
<1>6. EndInv'
  BY <1>2 DEF EndInv
<1>7. CASE export(None, held \cup {i})
  <2>1. /\ held' = {}
        /\ groups' = groups \cup {[n |-> exports, id |-> None, sends |-> Sends(held \cup {i})]}
        /\ SendingItems' = SendingItems \cup (held \cup {i})
        /\ SendsDisjoint'
        /\ \A g \in groups' : g.n < exports' /\ {} \notin g.sends
        /\ \A g, h \in groups' : g.n = h.n => g = h
    BY <1>4, <1>5, <1>7, ExportGroups DEF ExporterInv
  <2>2. None \notin Request
    BY ExporterAssumption DEF ExporterAssumption
  <2>3. \A g \in groups' : g.id \in Request => g \in groups
    BY <2>1, <2>2
  <2>4. GroupInv'
    BY <1>2, <1>4, <2>1, <2>3 DEF ExporterInv, GroupInv
  <2>5. ExactlyOnce'
    BY <1>4, <1>5, <2>1 DEF ExactlyOnce
  <2>6. FlushCovers'
    BY <1>2, <1>4, <2>1 DEF ExporterInv, FlushCovers
  <2>7. NotifySound'
    BY <1>2, <1>4, <2>3 DEF ExporterInv, NotifySound
  <2> QED BY <1>4, <1>6, <2>4, <2>5, <2>6, <2>7 DEF ExporterInv
<1>8. CASE held' = held \cup {i} /\ UNCHANGED <<exports, groups>>
  <2>1. UNCHANGED SendingItems
    BY <1>8 DEF SendingItems, ItemsOf
  <2>2. GroupInv'
    BY <1>2, <1>4, <1>8 DEF ExporterInv, GroupInv
  <2>3. ExactlyOnce'
    BY <1>4, <1>5, <1>8, <2>1 DEF ExactlyOnce, SendsDisjoint
  <2>4. FlushCovers'
    BY <1>2, <1>4, <1>8 DEF ExporterInv, FlushCovers
  <2>5. NotifySound'
    BY <1>2, <1>4, <1>8 DEF ExporterInv, NotifySound
  <2> QED BY <1>4, <1>6, <2>2, <2>3, <2>4, <2>5 DEF ExporterInv
<1> QED BY <1>1, <1>7, <1>8 DEF ReceiveTelemetry

\* A Flush(id) message.
LEMMA ReceiveFlushKeepsInv ==
    ASSUME ExporterInv, ExporterTypeOK', ReceiveFlush
    PROVE  ExporterInv'
<1>1. PICK r \in Request : r = Head(queue)
  BY DEF ReceiveFlush
<1>2. /\ queue # <<>> /\ queue' = Tail(queue)
      /\ UNCHANGED <<senders, cancelled, watch, accepted, flushed, owed, fate>>
      /\ xpc' \in {"stopping", "receiving"}
      /\ export(r, held)
  BY <1>1 DEF ReceiveFlush, Iterate, history
<1>3. r \notin Item
  BY ExporterAssumption DEF ExporterAssumption
<1>4. /\ QueueInv' /\ OwedAhead' /\ AcceptedFirst'
      /\ Pending' = Pending
      /\ QueuedItems' = QueuedItems
      /\ QueuedFlushes' = QueuedFlushes \ {r}
      /\ r \in QueuedFlushes
      /\ owed[r] \cap QueuedItems = {}
  <2>1. /\ QueueInv' /\ OwedAhead' /\ AcceptedFirst'
        /\ Pending' = Pending
        /\ QueuedItems' = QueuedItems \ {r}
        /\ QueuedFlushes' = QueuedFlushes \ {r}
        /\ r \in QueuedItems \cup QueuedFlushes
        /\ owed[r] \cap QueuedItems' = {}
    BY <1>1, <1>2, ReceiveKeepsOrder
  <2> QED BY <1>3, <2>1 DEF QueuedItems
<1>5. /\ Pending = QueuedItems \cup held \cup SendingItems
      /\ QueuedItems \cap held = {}
      /\ (QueuedItems \cup held) \cap SendingItems = {}
      /\ SendsDisjoint
      /\ held \subseteq Item
      /\ QueuedFlushes \subseteq flushed
  BY DEF ExporterInv, ExactlyOnce, ExporterTypeOK, QueueInv
<1>6. /\ held' = {}
      /\ groups' = groups \cup {[n |-> exports, id |-> r, sends |-> Sends(held)]}
      /\ SendingItems' = SendingItems \cup held
      /\ SendsDisjoint'
      /\ \A g \in groups' : g.n < exports' /\ {} \notin g.sends
      /\ \A g, h \in groups' : g.n = h.n => g = h
  BY <1>2, <1>5, ExportGroups DEF ExporterInv
<1>7. \A g \in groups : g.id # r
  BY <1>4 DEF ExporterInv, GroupInv
<1>8. /\ \A g \in groups' : g \in groups \/ g.id = r
      /\ \A g, h \in groups' : g.id = r /\ h.id = r => g = h
  BY <1>6, <1>7
<1>9. GroupInv'
  <2>1. \A g \in groups' : g.id \in Request => g.id \in flushed' \ QueuedFlushes'
    BY <1>2, <1>4, <1>5, <1>8 DEF ExporterInv, GroupInv
  <2>2. \A g, h \in groups' : g.id \in Request /\ g.id = h.id => g = h
    BY <1>8 DEF ExporterInv, GroupInv
  <2> QED BY <1>6, <2>1, <2>2 DEF GroupInv
<1>10. ExactlyOnce'
  BY <1>4, <1>5, <1>6 DEF ExactlyOnce
<1>11. FlushCovers'
  BY <1>2, <1>4, <1>6 DEF ExporterInv, FlushCovers
<1>12. NotifySound'
  BY <1>2, <1>4, <1>8 DEF ExporterInv, NotifySound
<1>13. EndInv'
  BY <1>2 DEF EndInv
<1> QED BY <1>4, <1>9, <1>10, <1>11, <1>12, <1>13 DEF ExporterInv

\* A periodic or final export, made for no request.
LEMMA OtherExportKeepsInv ==
    ASSUME ExporterInv, ExporterTypeOK', EndInv',
           NEW id \in {Tick, None}, export(id, held),
           UNCHANGED <<queue, watch, history>>
    PROVE  ExporterInv'
<1>1. /\ Pending = QueuedItems \cup held \cup SendingItems
      /\ QueuedItems \cap held = {}
      /\ (QueuedItems \cup held) \cap SendingItems = {}
      /\ SendsDisjoint
      /\ held \subseteq Item
  BY DEF ExporterInv, ExactlyOnce, ExporterTypeOK
<1>2. id \notin Request
  BY ExporterAssumption DEF ExporterAssumption
<1>3. /\ held' = {}
      /\ groups' = groups \cup {[n |-> exports, id |-> id, sends |-> Sends(held)]}
      /\ SendingItems' = SendingItems \cup held
      /\ SendsDisjoint'
      /\ \A g \in groups' : g.n < exports' /\ {} \notin g.sends
      /\ \A g, h \in groups' : g.n = h.n => g = h
  BY <1>1, ExportGroups DEF ExporterInv
<1>4. UNCHANGED <<QueuedItems, QueuedFlushes, Pending>>
  BY DEF QueuedItems, QueuedFlushes, Pending, history
<1>5. QueueInv' /\ OwedAhead' /\ AcceptedFirst'
  BY <1>4 DEF ExporterInv, QueueInv, OwedAhead, AcceptedFirst, history
<1>6. \A g \in groups' : g.id \in Request => g \in groups
  BY <1>2, <1>3
<1>7. GroupInv'
  BY <1>3, <1>4, <1>6 DEF ExporterInv, GroupInv, history
<1>8. ExactlyOnce'
  BY <1>1, <1>3, <1>4 DEF ExactlyOnce
<1>9. FlushCovers'
  BY <1>3, <1>4 DEF ExporterInv, FlushCovers, history
<1>10. NotifySound'
  BY <1>4, <1>6 DEF ExporterInv, NotifySound, history
<1> QED BY <1>5, <1>7, <1>8, <1>9, <1>10 DEF ExporterInv

\* A send that ends leaves its group, and its items the sends.
LEMMA SendCompletesKeepsInv ==
    ASSUME ExporterInv, ExporterTypeOK', NEW g \in groups, NEW s \in g.sends,
           SendCompletes(g, s)
    PROVE  ExporterInv'
<1> DEFINE rest == [g EXCEPT !.sends = @ \ {s}]
<1>1. /\ groups' = (groups \ {g}) \cup {rest}
      /\ UNCHANGED <<queue, senders, cancelled, xpc, held, buffered, exports, watch,
                     accepted, flushed, owed>>
  BY DEF SendCompletes, channel
<1>2. /\ \A i \in s : fate'[i] # "pending"
      /\ \A i \in Item \ s : fate'[i] = fate[i]
  <2>1. s \subseteq Item
    BY DEF ExporterInv, ExporterTypeOK, Group
  <2> QED BY <2>1 DEF SendCompletes
<1>3. rest.n = g.n /\ rest.id = g.id /\ rest.sends = g.sends \ {s}
  BY DEF ExporterInv, ExporterTypeOK, Group
<1> HIDE DEF rest
<1>4. /\ Pending = QueuedItems \cup held \cup SendingItems
      /\ QueuedItems \cap held = {}
      /\ (QueuedItems \cup held) \cap SendingItems = {}
      /\ SendsDisjoint
      /\ accepted \subseteq Item
  BY DEF ExporterInv, ExactlyOnce, ExporterTypeOK
<1>5. UNCHANGED <<QueuedItems, QueuedFlushes>>
  BY <1>1 DEF QueuedItems, QueuedFlushes
<1>6. s \subseteq SendingItems
  BY DEF SendingItems, ItemsOf
<1>7. \A h \in groups' :
          \E o \in groups : /\ o.n = h.n /\ o.id = h.id /\ h.sends \subseteq o.sends
                            /\ o = g => h = rest
                            /\ o # g => h = o
  BY <1>1, <1>3
<1>8. SendingItems' = SendingItems \ s
  <2>1. ASSUME NEW h \in groups', NEW t \in h.sends
        PROVE  t \subseteq SendingItems \ s
    <3>1. PICK o \in groups : /\ h.sends \subseteq o.sends
                              /\ o = g => h = rest
                              /\ o # g => h = o
      BY <1>7
    <3>2. t \subseteq SendingItems
      BY <2>1, <3>1 DEF SendingItems, ItemsOf
    <3>3. t \cap s # {} => o = g /\ t = s
      BY <1>4, <2>1, <3>1 DEF SendsDisjoint
    <3>4. t \cap s = {}
      BY <1>3, <2>1, <3>1, <3>3
    <3> QED BY <3>2, <3>4
  <2>2. ASSUME NEW i \in SendingItems \ s
        PROVE  i \in SendingItems'
    <3>1. PICK h \in groups : \E t \in h.sends : i \in t
      BY DEF SendingItems, ItemsOf
    <3>2. PICK t \in h.sends : i \in t
      BY <3>1
    <3>3. CASE h = g
      BY <1>1, <1>3, <3>2, <3>3 DEF SendingItems, ItemsOf
    <3>4. CASE h # g
      BY <1>1, <3>2, <3>4 DEF SendingItems, ItemsOf
    <3> QED BY <3>3, <3>4
  <2>3. SendingItems' \subseteq SendingItems \ s
    BY <2>1 DEF SendingItems, ItemsOf
  <2> QED BY <2>2, <2>3
<1>9. Pending' = Pending \ s
  BY <1>1, <1>2, <1>4 DEF Pending
<1>10. SendsDisjoint'
  <2>1. ASSUME NEW h \in groups', NEW k \in groups', NEW t \in h.sends, NEW u \in k.sends,
               t \cap u # {}
        PROVE  h = k /\ t = u
    <3>1. PICK o \in groups : /\ h.sends \subseteq o.sends
                              /\ o = g => h = rest
                              /\ o # g => h = o
      BY <1>7
    <3>2. PICK p \in groups : /\ k.sends \subseteq p.sends
                              /\ p = g => k = rest
                              /\ p # g => k = p
      BY <1>7
    <3>3. o = p /\ t = u
      BY <1>4, <2>1, <3>1, <3>2 DEF SendsDisjoint
    <3> QED BY <3>1, <3>2, <3>3
  <2> QED BY <2>1 DEF SendsDisjoint
<1>11. ExactlyOnce'
  BY <1>1, <1>4, <1>5, <1>6, <1>8, <1>9, <1>10 DEF ExactlyOnce
<1>12. QueueInv' /\ OwedAhead'
  BY <1>1, <1>5 DEF ExporterInv, QueueInv, OwedAhead
<1>13. AcceptedFirst'
  <2>1. s \subseteq accepted
    BY <1>4, <1>6 DEF Pending
  <2>2. \A i \in Item \ accepted' : fate'[i] = "pending"
    BY <1>1, <1>2, <2>1 DEF ExporterInv, AcceptedFirst
  <2> QED BY <1>1, <2>2 DEF ExporterInv, AcceptedFirst
<1>14. FlushCovers'
  BY <1>1, <1>5 DEF ExporterInv, FlushCovers
<1>15. NotifySound'
  BY <1>1, <1>5, <1>7 DEF ExporterInv, NotifySound
<1>16. GroupInv'
  <2>1. /\ \A h \in groups : h.n < exports /\ {} \notin h.sends
        /\ \A h, k \in groups : h.n = k.n => h = k
        /\ \A h \in groups : h.id \in Request => h.id \in flushed \ QueuedFlushes
        /\ \A h, k \in groups : h.id \in Request /\ h.id = k.id => h = k
    BY DEF ExporterInv, GroupInv
  <2>2. \A h \in groups' : h.n < exports' /\ {} \notin h.sends
    BY <1>1, <1>7, <2>1
  <2>3. \A h, k \in groups' : h.n = k.n => h = k
    BY <1>7, <2>1
  <2>4. \A h \in groups' : h.id \in Request => h.id \in flushed' \ QueuedFlushes'
    BY <1>1, <1>5, <1>7, <2>1
  <2>5. \A h, k \in groups' : h.id \in Request /\ h.id = k.id => h = k
    BY <1>7, <2>1
  <2> QED BY <2>2, <2>3, <2>4, <2>5 DEF GroupInv
<1>17. EndInv'
  BY <1>1 DEF ExporterInv, EndInv
<1> QED BY <1>11, <1>12, <1>13, <1>14, <1>15, <1>16, <1>17 DEF ExporterInv

\* A group that has no send left announces its ID.
LEMMA GroupFinishesKeepsInv ==
    ASSUME ExporterInv, ExporterTypeOK', NEW g \in groups, GroupFinishes(g)
    PROVE  ExporterInv'
<1>1. /\ g.sends = {}
      /\ groups' = groups \ {g}
      /\ watch' = g.id
      /\ UNCHANGED <<queue, senders, cancelled, xpc, held, buffered, exports,
                     accepted, flushed, owed, fate>>
  BY DEF GroupFinishes, channel, history
<1>2. SendingItems' = SendingItems
  BY <1>1 DEF SendingItems, ItemsOf
<1>3. UNCHANGED <<QueuedItems, QueuedFlushes, Pending>>
  BY <1>1 DEF QueuedItems, QueuedFlushes, Pending
<1>4. QueueInv' /\ OwedAhead' /\ AcceptedFirst'
  BY <1>1, <1>3 DEF ExporterInv, QueueInv, OwedAhead, AcceptedFirst
<1>5. GroupInv'
  BY <1>1, <1>3 DEF ExporterInv, GroupInv
<1>6. ExactlyOnce'
  BY <1>1, <1>2, <1>3 DEF ExporterInv, ExactlyOnce, SendsDisjoint
<1>7. FlushCovers'
  BY <1>1, <1>3 DEF ExporterInv, FlushCovers
<1>8. NotifySound'
  BY <1>1, <1>3 DEF ExporterInv, GroupInv, NotifySound
<1>9. EndInv'
  BY <1>1 DEF ExporterInv, EndInv
<1> QED BY <1>4, <1>5, <1>6, <1>7, <1>8, <1>9 DEF ExporterInv

\* The end of the task: what is still in the channel is lost with it.
LEMMA FinishKeepsInv ==
    ASSUME ExporterInv, ExporterTypeOK', Finish
    PROVE  ExporterInv'
<1>1. /\ xpc = "draining" /\ xpc' = "done"
      /\ groups = {} /\ groups' = {}
      /\ queue' = <<>>
      /\ UNCHANGED <<senders, cancelled, held, exports, watch, accepted, flushed, owed>>
  BY DEF Finish, state
<1>2. fate' = [i \in Item |-> IF i \in QueuedItems THEN "unread" ELSE fate[i]]
  BY DEF Finish
<1>3. held = {} /\ SendingItems = {} /\ SendingItems' = {}
  BY <1>1 DEF ExporterInv, EndInv, SendingItems
<1>4. QueuedItems' = {} /\ QueuedFlushes' = {} /\ QueueInv' /\ OwedAhead'
  BY <1>1, EmptyChannel
<1>5. Pending = QueuedItems /\ accepted \subseteq Item
  BY <1>3 DEF ExporterInv, ExactlyOnce, ExporterTypeOK
<1>6. Pending' = {}
  BY <1>1, <1>2, <1>5 DEF Pending
<1>7. ExactlyOnce'
  BY <1>1, <1>3, <1>4, <1>6 DEF ExactlyOnce, SendsDisjoint
<1>8. AcceptedFirst'
  <2>1. QueuedItems \subseteq accepted
    BY <1>5 DEF Pending
  <2>2. \A i \in Item \ accepted' : fate'[i] = "pending"
    BY <1>1, <1>2, <2>1 DEF ExporterInv, AcceptedFirst
  <2> QED BY <1>1, <2>2 DEF ExporterInv, AcceptedFirst
<1>9. GroupInv'
  BY <1>1 DEF GroupInv
<1>10. FlushCovers'
  BY <1>1, <1>3, <1>4 DEF FlushCovers
<1>11. NotifySound'
  BY <1>1, <1>4 DEF ExporterInv, NotifySound
<1>12. EndInv'
  BY <1>1, <1>3 DEF EndInv
<1> QED BY <1>4, <1>7, <1>8, <1>9, <1>10, <1>11, <1>12 DEF ExporterInv

\* The end of the runtime: whatever any task holds is lost.
LEMMA DropRuntimeKeepsInv ==
    ASSUME ExporterInv, ExporterTypeOK', DropRuntime
    PROVE  ExporterInv'
<1>1. /\ xpc' = "dropped" /\ senders' = FALSE
      /\ queue' = <<>> /\ held' = {} /\ groups' = {}
      /\ UNCHANGED <<exports, watch, accepted, flushed, owed>>
  BY DEF DropRuntime
<1>2. fate' = [i \in Item |-> IF i \in QueuedItems THEN "unread"
                              ELSE IF i \in held \cup SendingItems THEN "abandoned"
                              ELSE fate[i]]
  BY DEF DropRuntime
<1>3. QueuedItems' = {} /\ QueuedFlushes' = {} /\ QueueInv' /\ OwedAhead'
  BY <1>1, EmptyChannel
<1>4. SendingItems' = {}
  BY <1>1 DEF SendingItems
<1>5. Pending = QueuedItems \cup held \cup SendingItems /\ accepted \subseteq Item
  BY DEF ExporterInv, ExactlyOnce, ExporterTypeOK
<1>6. Pending' = {}
  BY <1>1, <1>2, <1>5 DEF Pending
<1>7. ExactlyOnce'
  BY <1>1, <1>3, <1>4, <1>6 DEF ExactlyOnce, SendsDisjoint
<1>8. AcceptedFirst'
  <2>1. QueuedItems \cup held \cup SendingItems \subseteq accepted
    BY <1>5 DEF Pending
  <2>2. \A i \in Item \ accepted' : fate'[i] = "pending"
    BY <1>1, <1>2, <2>1 DEF ExporterInv, AcceptedFirst
  <2> QED BY <1>1, <2>2 DEF ExporterInv, AcceptedFirst
<1>9. GroupInv'
  BY <1>1 DEF GroupInv
<1>10. FlushCovers'
  BY <1>1, <1>3 DEF FlushCovers
<1>11. NotifySound'
  BY <1>1, <1>3 DEF ExporterInv, NotifySound
<1>12. EndInv'
  BY <1>1 DEF EndInv
<1> QED BY <1>3, <1>7, <1>8, <1>9, <1>10, <1>11, <1>12 DEF ExporterInv

\* The exporter starts with nothing anywhere.
LEMMA InvInit == Init => ExporterInv
<1> SUFFICES ASSUME Init PROVE ExporterInv
  OBVIOUS
<1>1. ExporterTypeOK
  BY TypeInit
<1>2. /\ queue = <<>> /\ held = {} /\ groups = {} /\ watch = None
      /\ accepted = {} /\ flushed = {} /\ xpc = "starting"
  BY DEF Init
<1>3. /\ owed = [r \in Request |-> {}]
      /\ fate = [i \in Item |-> "pending"]
  BY DEF Init
<1>4. QueuedItems = {} /\ QueuedFlushes = {} /\ SendingItems = {} /\ Pending = {}
  BY <1>2 DEF QueuedItems, QueuedFlushes, SendingItems, Pending, ToSet
<1>5. 1 .. Len(queue) = {}
  BY <1>2
<1>6. QueueInv /\ OwedAhead
  BY <1>4, <1>5 DEF QueueInv, OwedAhead
<1>7. AcceptedFirst
  BY <1>2, <1>3 DEF AcceptedFirst
<1>8. GroupInv /\ EndInv
  BY <1>2 DEF GroupInv, EndInv
<1>9. ExactlyOnce
  BY <1>2, <1>4 DEF ExactlyOnce, SendsDisjoint
<1>10. FlushCovers /\ NotifySound
  <2>1. None \notin Request
    BY ExporterAssumption DEF ExporterAssumption
  <2> QED BY <1>2, <2>1 DEF FlushCovers, NotifySound
<1> QED BY <1>1, <1>6, <1>7, <1>8, <1>9, <1>10 DEF ExporterInv

\* Every step of the exporter and of its environment keeps the invariant.
LEMMA InvStep == ExporterInv /\ [Next]_exporterVars => ExporterInv'
<1> SUFFICES ASSUME ExporterInv, [Next]_exporterVars
             PROVE  ExporterInv'
  OBVIOUS
<1>0. ExporterTypeOK'
  BY TypeStep DEF ExporterInv
<1>1. CASE Start
  <2>1. EndInv'
    BY <1>1 DEF Start, Iterate, EndInv
  <2> QED BY <1>0, <1>1, <2>1, ControlStep DEF Start, channel
<1>2. CASE ReceiveTelemetry
  BY <1>0, <1>2, ReceiveTelemetryKeepsInv
<1>3. CASE ReceiveFlush
  BY <1>0, <1>3, ReceiveFlushKeepsInv
<1>4. CASE PeriodicFlush
  <2>1. /\ export(Tick, held) /\ xpc' = "receiving"
        /\ UNCHANGED <<queue, watch, history>>
    BY <1>4 DEF PeriodicFlush, channel
  <2>2. EndInv'
    BY <2>1 DEF EndInv
  <2> QED BY <1>0, <2>1, <2>2, OtherExportKeepsInv
<1>5. CASE FinalExport
  <2>1. /\ export(None, held) /\ xpc' = "draining"
        /\ UNCHANGED <<queue, watch, history>>
    BY <1>5 DEF FinalExport, channel
  <2>2. EndInv'
    BY <2>1 DEF EndInv, export
  <2> QED BY <1>0, <2>1, <2>2, OtherExportKeepsInv
<1>6. CASE Finish
  BY <1>0, <1>6, FinishKeepsInv
<1>7. CASE SendTasks
  <2>1. PICK g \in groups : GroupFinishes(g) \/ \E s \in g.sends : SendCompletes(g, s)
    BY <1>7 DEF SendTasks
  <2> QED BY <1>0, <2>1, GroupFinishesKeepsInv, SendCompletesKeepsInv
<1>8. CASE (\E i \in Item : HandleOtlp(i)) \/ HandleTelemetry
  <2>1. PICK m : Batch(m) /\ Submit(m)
    BY <1>8, HandlersSendBatches DEF ExporterInv
  <2> QED BY <1>0, <2>1, SubmitKeepsInv
<1>9. CASE Cancel
  <2>1. EndInv'
    BY <1>9 DEF Cancel, ExporterInv, EndInv, channel, state
  <2> QED BY <1>0, <1>9, <2>1, ControlStep DEF Cancel, channel
<1>10. CASE DropSenders
  <2>1. EndInv'
    BY <1>10 DEF DropSenders, ExporterInv, EndInv, state
  <2> QED BY <1>0, <1>10, <2>1, ControlStep DEF DropSenders
<1>11. CASE DropRuntime
  BY <1>0, <1>11, DropRuntimeKeepsInv
<1>12. CASE UNCHANGED exporterVars
  <2>1. EndInv'
    BY <1>12 DEF exporterVars, channel, state, ExporterInv, EndInv
  <2> QED BY <1>0, <1>12, <2>1, ControlStep DEF exporterVars, channel
<1> QED BY <1>1, <1>2, <1>3, <1>4, <1>5, <1>6, <1>7, <1>8, <1>9, <1>10, <1>11, <1>12
        DEF Next, ExporterTask, Environment

(***************************************************************************)
(* The invariant ExporterInv holds in every behaviour of the exporter with *)
(* any environment: any handlers, a cancellation, the loss of the senders  *)
(* and the end of the runtime at any point.                                *)
(***************************************************************************)
THEOREM InvHolds == Spec => []ExporterInv
<1> QED BY InvInit, InvStep, PTL DEF Spec

(***************************************************************************)
(* No telemetry is lost silently or exported twice: what the exporter has  *)
(* accepted and not settled is in the channel, the buffer or one send.     *)
(***************************************************************************)
THEOREM ItemsExactlyOnce == Spec => []ExactlyOnce
<1>1. ExporterInv => ExactlyOnce
  BY DEF ExporterInv
<1> QED BY <1>1, InvHolds, PTL

(***************************************************************************)
(* The export of a request takes all that was accepted before its Flush.   *)
(***************************************************************************)
THEOREM FlushesCover == Spec => []FlushCovers
<1>1. ExporterInv => FlushCovers
  BY DEF ExporterInv
<1> QED BY <1>1, InvHolds, PTL

(***************************************************************************)
(* An ID shown by the watch channel has no send of its export in flight.   *)
(***************************************************************************)
THEOREM NotificationsSound == Spec => []NotifySound
<1>1. ExporterInv => NotifySound
  BY DEF ExporterInv
<1> QED BY <1>1, InvHolds, PTL
=============================================================================
