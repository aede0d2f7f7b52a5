---------------------------- MODULE BufferProofs ----------------------------
(***************************************************************************)
(* Theorems about the size of the exporter's buffer (Exporter.tla), and    *)
(* what they mean for the process (Extension.tla): a sum over a set of     *)
(* items of any number and sizes.                                          *)
(***************************************************************************)
EXTENDS ExtensionProofs, FoldProofs

-----------------------------------------------------------------------------
\* The buffer is finite, so that its size is a sum.
BufferInv == IsFiniteSet(held) /\ BufferedIsSize

LEMMA SizeIsTotal == BufferedIsSize <=> buffered = Total(Size, held)
BY DEF BufferedIsSize, Total

LEMMA SizeIsTotalNext == BufferedIsSize' <=> buffered' = Total(Size, held')
<1>1. (BufferedIsSize <=> buffered = Total(Size, held))'
  BY SizeIsTotal, PTL
<1> QED BY <1>1

LEMMA BufferEmptied ==
    ASSUME held' = {}, buffered' = 0
    PROVE  BufferInv'
<1>1. Total(Size, {}) = 0
  BY TotalEmpty
<1> QED BY <1>1, SizeIsTotalNext, FS_EmptySet DEF BufferInv

LEMMA BufferKept ==
    ASSUME BufferInv, UNCHANGED <<held, buffered>>
    PROVE  BufferInv'
BY SizeIsTotal, SizeIsTotalNext DEF BufferInv

\* An item that joins the buffer was not in it.
LEMMA BufferGrows ==
    ASSUME BufferInv, held \subseteq Item, NEW i \in Item, i \notin held,
           held' = held \cup {i}, buffered' = buffered + Size[i]
    PROVE  BufferInv'
<1>1. IsFiniteSet(held) /\ buffered = Total(Size, held)
  BY SizeIsTotal DEF BufferInv
<1>2. \A j \in held \cup {i} : Size[j] \in Nat
  BY ExporterAssumption DEF ExporterAssumption
<1>3. Total(Size, held \cup {i}) = Total(Size, held) + Size[i]
  BY <1>1, <1>2, TotalAdd
<1>4. IsFiniteSet(held \cup {i})
  BY <1>1, FS_AddElement
<1> QED BY <1>1, <1>3, <1>4, SizeIsTotalNext DEF BufferInv

LEMMA BufferStep ==
    ASSUME ExporterInv, BufferInv, [Next]_exporterVars
    PROVE  BufferInv'
<1> USE DEF state
<1>1. CASE ReceiveTelemetry
  <2> DEFINE i == Head(queue)
  <2>1. /\ queue # <<>> /\ i \in Item
        /\ \/ held' = {} /\ buffered' = 0
           \/ held' = held \cup {i} /\ buffered' = buffered + Size[i]
    BY <1>1 DEF ReceiveTelemetry, export
  <2>2. i \in QueuedItems
    BY <2>1, TailFacts DEF ExporterInv, ExporterTypeOK, QueuedItems
  <2>3. held \subseteq Item /\ i \notin held
    BY <2>2 DEF ExporterInv, ExporterTypeOK, ExactlyOnce
  <2> HIDE DEF i
  <2> QED BY <2>1, <2>3, BufferEmptied, BufferGrows
<1>2. CASE ReceiveFlush \/ PeriodicFlush \/ FinalExport
  BY <1>2, BufferEmptied DEF ReceiveFlush, PeriodicFlush, FinalExport, export
<1>3. CASE Start \/ Finish \/ SendTasks
  BY <1>3, BufferKept DEF Start, Finish, SendTasks, GroupFinishes, SendCompletes
<1>4. CASE DropRuntime
  BY <1>4, BufferEmptied DEF DropRuntime
<1>5. CASE Cancel \/ DropSenders \/ UNCHANGED exporterVars
  BY <1>5, BufferKept DEF Cancel, DropSenders, exporterVars
<1>6. CASE (\E i \in Item : HandleOtlp(i)) \/ HandleTelemetry
  BY <1>6, BufferKept DEF HandleOtlp, HandleTelemetry, Submit
<1> QED BY <1>1, <1>2, <1>3, <1>4, <1>5, <1>6 DEF Next, ExporterTask, Environment

LEMMA BufferInit == Init => BufferInv
<1> SUFFICES ASSUME Init PROVE BufferInv
  OBVIOUS
<1>1. held = {} /\ buffered = 0
  BY DEF Init
<1> QED BY <1>1, TotalEmpty, SizeIsTotal, FS_EmptySet DEF BufferInv

LEMMA BufferInvHolds == Spec => []BufferInv
<1>1. ExporterInv /\ BufferInv /\ [Next]_exporterVars => BufferInv'
  BY BufferStep
<1> QED BY <1>1, BufferInit, InvHolds, PTL DEF Spec

(***************************************************************************)
(* state.buffered is the size of what the buffers hold, so the comparison  *)
(* with MAX_BUFFERED in ReceiveTelemetry is one of the telemetry in the    *)
(* buffers, whichever export emptied them before, for any sizes.           *)
(***************************************************************************)
THEOREM BufferSizeExact == Spec => []BufferedIsSize
<1>1. BufferInv => BufferedIsSize
  BY DEF BufferInv
<1> QED BY <1>1, BufferInvHolds, PTL
-----------------------------------------------------------------------------
(***************************************************************************)
(* A buffer that never fills                                               *)
(***************************************************************************)

\* A part weighs no more than the whole.
LEMMA TotalOfPart ==
    ASSUME NEW S, IsFiniteSet(S), NEW w, \A x \in S : w[x] \in Nat
    PROVE  \A T \in SUBSET S : Total(w, T) <= Total(w, S)
<1> DEFINE P == {U \in SUBSET S : \A T \in SUBSET U : Total(w, T) <= Total(w, U)}
<1>0. \A U \in SUBSET S : Total(w, U) \in Nat
  BY TotalOfSubsets
<1>1. ASSUME NEW U \in SUBSET S, \A R \in (SUBSET U) \ {U} : R \in P, NEW T \in SUBSET U
      PROVE  Total(w, T) <= Total(w, U)
  <2>1. CASE T = U
    BY <1>0, <2>1
  <2>2. CASE T # U
    <3>1. PICK x \in U : x \notin T
      BY <2>2
    <3>2. Total(w, T) <= Total(w, U \ {x})
      BY <1>1, <3>1
    <3>3. Total(w, U) = w[x] + Total(w, U \ {x})
      <4>1. IsFiniteSet(U) /\ \A y \in U : w[y] \in Nat
        BY FS_Subset
      <4> QED BY <3>1, <4>1, TotalRemove
    <3>4. w[x] \in Nat /\ Total(w, T) \in Nat /\ Total(w, U \ {x}) \in Nat
      BY <1>0, <3>1
    <3>5. \A a, b, c \in Nat : a <= b => a <= c + b
      OBVIOUS
    <3> QED BY <3>2, <3>3, <3>4, <3>5
  <2> QED BY <2>1, <2>2
<1>2. SUBSET S \subseteq P
  <2>1. \A U \in SUBSET S : (\A R \in (SUBSET U) \ {U} : R \in P) => U \in P
    BY <1>1
  <2> HIDE DEF P
  <2> QED BY <2>1, SubsetInduction
<1> QED BY <1>2

LEMMA NoOverflow ==
    ASSUME ExporterInv, BufferInv, IsFiniteSet(Item), Total(Size, Item) < MaxBuffered
    PROVE  ~Overflows
<1> SUFFICES ASSUME ReceiveTelemetry, exports' # exports PROVE FALSE
  BY DEF Overflows
<1> DEFINE i == Head(queue)
<1>1. queue # <<>> /\ i \in Item /\ buffered + Size[i] >= MaxBuffered
  BY DEF ReceiveTelemetry
<1>2. i \in QueuedItems
  BY <1>1, TailFacts DEF ExporterInv, ExporterTypeOK, QueuedItems
<1>3. held \subseteq Item /\ i \notin held
  BY <1>2 DEF ExporterInv, ExporterTypeOK, ExactlyOnce
<1> HIDE DEF i
<1>4. \A j \in Item : Size[j] \in Nat
  BY ExporterAssumption DEF ExporterAssumption
<1>5. IsFiniteSet(held) /\ buffered = Total(Size, held)
  BY SizeIsTotal DEF BufferInv
<1>6. Total(Size, held \cup {i}) = buffered + Size[i]
  <2>1. \A j \in held \cup {i} : Size[j] \in Nat
    BY <1>1, <1>3, <1>4
  <2>2. Total(Size, held \cup {i}) = Total(Size, held) + Size[i]
    BY <1>3, <1>5, <2>1, TotalAdd
  <2> QED BY <1>5, <2>2
<1>7. Total(Size, held \cup {i}) <= Total(Size, Item)
  <2>1. held \cup {i} \in SUBSET Item
    BY <1>1, <1>3
  <2> QED BY <1>4, <2>1, TotalOfPart
<1>8. Total(Size, Item) \in Nat /\ Total(Size, held \cup {i}) \in Nat /\ MaxBuffered \in Nat
  <2>1. held \cup {i} \in SUBSET Item /\ Item \in SUBSET Item
    BY <1>1, <1>3
  <2> QED BY <1>4, <2>1, TotalOfSubsets, ExporterAssumption DEF ExporterAssumption
<1> QED BY <1>1, <1>6, <1>7, <1>8

(***************************************************************************)
(* The telemetry of a classic runtime that fits into MAX_BUFFERED          *)
(* altogether is settled when its notification comes, in any interleaving  *)
(* of its handlers, its exports and main, without retries.                 *)
(***************************************************************************)
THEOREM SmallTelemetrySettles ==
    ASSUME ~Managed, UniqueIds, IsFiniteSet(Item), MapThenSumSet(LAMBDA i : Size[i], Item) < MaxBuffered
    PROVE  SafeExtensionSpec => []FlushSettles
<1>1. Total(Size, Item) < MaxBuffered
  BY DEF Total
<1>2. ExtensionInv /\ BufferInv /\ [ExtensionNext]_vars => BufferInv'
  BY StepOfExporter, BufferStep DEF ExtensionInv
<1>3. ExtensionInit => BufferInv
  BY BufferInit DEF ExtensionInit
<1>4. ExtensionInv /\ BufferInv => ~Overflows
  BY <1>1, NoOverflow DEF ExtensionInv
<1>5. SafeExtensionSpec => [][~Overflows]_vars
  BY <1>2, <1>3, <1>4, ExtensionInvHolds, PTL DEF SafeExtensionSpec
<1> QED BY <1>5, FlushesSettle, PTL
=============================================================================
