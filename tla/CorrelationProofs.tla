-------------------------- MODULE CorrelationProofs --------------------------
(***************************************************************************)
(* Theorems about Correlation.tla: for any capacity of the cache, any      *)
(* records and spans, and exports of any size.                             *)
(***************************************************************************)
EXTENDS Correlation, FoldProofs, SequenceTheorems

-----------------------------------------------------------------------------
(***************************************************************************)
(* The cache as a sequence: its operations move one entry to the end.      *)
(***************************************************************************)

Caches == {c \in Seq(Entry) :
              /\ Len(c) <= Capacity
              /\ \A i, j \in 1 .. Len(c) : c[i].key = c[j].key => i = j}

\* m is c without its entry p, if p is not 0, and with e at its end.
IsMoved(m, c, p, e) ==
    /\ m \in Seq(Entry)
    /\ Len(m) = IF p = 0 THEN Len(c) + 1 ELSE Len(c)
    /\ m[Len(m)] = e
    /\ \A j \in 1 .. Len(m) - 1 : m[j] = IF p = 0 \/ j < p THEN c[j] ELSE c[j + 1]

\* p is the entry of the key, or else the oldest of a full cache, or else 0.
MakesRoom(c, p, key) ==
    /\ p \in 0 .. Len(c)
    /\ \A j \in 1 .. Len(c) : c[j].key = key => j = p
    /\ p = 0 => Len(c) < Capacity
    /\ p # 0 /\ c[p].key # key => p = 1 /\ Len(c) = Capacity

\* What RemoveAt leaves of a sequence.
LEMMA RemoveAtFacts ==
    ASSUME NEW S, NEW s \in Seq(S), NEW p \in 1 .. Len(s)
    PROVE  /\ RemoveAt(s, p) \in Seq(S)
           /\ Len(RemoveAt(s, p)) = Len(s) - 1
           /\ \A j \in 1 .. Len(s) - 1 :
                 RemoveAt(s, p)[j] = IF j < p THEN s[j] ELSE s[j + 1]
<1> DEFINE a == SubSeq(s, 1, p - 1)
           b == SubSeq(s, p + 1, Len(s))
<1>1. Len(s) \in Nat /\ \A i \in 1 .. Len(s) : s[i] \in S
  BY LenProperties, ElementOfSeq
<1>2. /\ a \in Seq(S)
      /\ Len(a) = p - 1
      /\ \A i \in 1 .. p - 1 : a[i] = s[i]
  <2>1. \A i \in 1 .. p - 1 : s[i] \in S
    BY <1>1
  <2>2. /\ a \in Seq(S)
        /\ Len(a) = IF 1 <= p - 1 THEN (p - 1) - 1 + 1 ELSE 0
        /\ \A i \in 1 .. (p - 1) - 1 + 1 : a[i] = s[1 + i - 1]
    BY <1>1, <2>1, SubSeqProperties
  <2> HIDE DEF a
  <2> QED BY <1>1, <2>2
<1>3. /\ b \in Seq(S)
      /\ Len(b) = Len(s) - p
      /\ \A i \in 1 .. Len(s) - p : b[i] = s[p + i]
  <2>1. \A i \in p + 1 .. Len(s) : s[i] \in S
    BY <1>1
  <2>2. /\ b \in Seq(S)
        /\ Len(b) = IF p + 1 <= Len(s) THEN Len(s) - (p + 1) + 1 ELSE 0
        /\ \A i \in 1 .. Len(s) - (p + 1) + 1 : b[i] = s[p + 1 + i - 1]
    BY <1>1, <2>1, SubSeqProperties
  <2> HIDE DEF b
  <2> QED BY <1>1, <2>2
<1>4. RemoveAt(s, p) = a \o b
  BY DEF RemoveAt
<1> HIDE DEF a, b
<1>5. /\ a \o b \in Seq(S)
      /\ Len(a \o b) = Len(a) + Len(b)
      /\ \A i \in 1 .. Len(a) + Len(b) : (a \o b)[i] = IF i <= Len(a) THEN a[i] ELSE b[i - Len(a)]
  BY <1>2, <1>3, ConcatProperties
<1>6. ASSUME NEW j \in 1 .. Len(s) - 1
      PROVE  (a \o b)[j] = IF j < p THEN s[j] ELSE s[j + 1]
  <2> DEFINE ab == a \o b
  <2>1. ab[j] = IF j <= p - 1 THEN a[j] ELSE b[j - (p - 1)]
    BY <1>1, <1>2, <1>3, <1>5
  <2> HIDE DEF ab
  <2>2. CASE j < p
    <3>1. j <= p - 1 /\ j \in 1 .. p - 1
      BY <1>1, <2>2
    <3> QED BY <1>2, <2>1, <2>2, <3>1 DEF ab
  <2>3. CASE j >= p
    <3>1. /\ ~(j <= p - 1) /\ ~(j < p)
          /\ j - (p - 1) \in 1 .. Len(s) - p
          /\ p + (j - (p - 1)) = j + 1
      BY <1>1, <2>3
    <3>2. b[j - (p - 1)] = s[j + 1]
      BY <1>3, <3>1
    <3> QED BY <2>1, <3>1, <3>2 DEF ab
  <2>4. j < p \/ j >= p
    BY <1>1
  <2> QED BY ONLY <2>2, <2>3, <2>4
<1> QED BY <1>1, <1>2, <1>3, <1>4, <1>5, <1>6

\* An entry that is taken out, and one put at the end: get and push do this.
LEMMA AppendMoves ==
    ASSUME NEW c \in Seq(Entry), NEW p \in 1 .. Len(c), NEW e \in Entry, NEW kept \in Seq(Entry),
           Len(kept) = Len(c) - 1,
           \A j \in 1 .. Len(c) - 1 : kept[j] = IF j < p THEN c[j] ELSE c[j + 1]
    PROVE  IsMoved(Append(kept, e), c, p, e)
BY AppendProperties, LenProperties DEF IsMoved

\* A push into a cache with room.
LEMMA AppendJoins ==
    ASSUME NEW c \in Seq(Entry), NEW e \in Entry
    PROVE  IsMoved(Append(c, e), c, 0, e)
BY AppendProperties, LenProperties DEF IsMoved

\* Where an entry is found.
LEMMA PositionFacts ==
    ASSUME NEW c \in Caches, NEW key
    PROVE  /\ key \in Keys(c) => Position(c, key) \in 1 .. Len(c) /\ c[Position(c, key)].key = key
           /\ key \notin Keys(c) => Position(c, key) = 0
<1> DEFINE I == {i \in 1 .. Len(c) : c[i].key = key}
<1>1. Position(c, key) = IF I # {} THEN Min(I) ELSE 0
  BY Zenon DEF Position, SelectInSeq
<1>2. ASSUME I # {}
      PROVE  Min(I) \in I
  <2>1. Len(c) \in Nat
    BY LenProperties DEF Caches
  <2>2. IsFiniteSet(1 .. Len(c)) /\ I \in SUBSET (1 .. Len(c)) /\ I \in SUBSET Int
    BY <2>1, FS_Interval
  <2> HIDE DEF I
  <2>3. IsFiniteSet(I)
    BY <2>2, FS_Subset
  <2> QED BY <1>2, <2>2, <2>3, MaxMin
<1>3. key \in Keys(c) <=> I # {}
  BY DEF Keys
<1> HIDE DEF Position
<1> QED BY <1>1, <1>2, <1>3

\* LruCache::get moves the entry it finds to the end.
LEMMA UsedMoves ==
    ASSUME NEW c \in Caches, NEW i \in 1 .. Len(c)
    PROVE  /\ IsMoved(Used(c, i), c, i, c[i])
           /\ MakesRoom(c, i, c[i].key)
<1>1. c \in Seq(Entry) /\ c[i] \in Entry
  BY ElementOfSeq DEF Caches
<1>2. IsMoved(Append(RemoveAt(c, i), c[i]), c, i, c[i])
  BY <1>1, RemoveAtFacts, AppendMoves
<1>3. MakesRoom(c, i, c[i].key)
  BY DEF Caches, MakesRoom
<1> QED BY <1>2, <1>3 DEF Used

\* LruCache::push replaces the entry of the key, or the oldest of a full cache.
LEMMA PushMoves ==
    ASSUME NEW c \in Caches, NEW key \in Key, NEW context \in Context
    PROVE  \E p : /\ IsMoved(push(c, key, context), c, p, [key |-> key, context |-> context])
                  /\ MakesRoom(c, p, key)
<1> DEFINE e == [key |-> key, context |-> context]
           i == Position(c, key)
<1>1. c \in Seq(Entry) /\ e \in Entry /\ Len(c) \in Nat /\ Len(c) <= Capacity /\ Capacity \in Nat \ {0}
  BY LenProperties, CorrelationAssumption DEF Caches, Entry, CorrelationAssumption
<1>2. push(c, key, context)
        = Append(IF i # 0 THEN RemoveAt(c, i)
                 ELSE IF Len(c) = Capacity THEN Tail(c) ELSE c, e)
  BY DEF push
<1>3. /\ i # 0 => i \in 1 .. Len(c) /\ c[i].key = key
      /\ i = 0 => \A j \in 1 .. Len(c) : c[j].key # key
  BY PositionFacts DEF Keys
<1> HIDE DEF e, i
<1>4. CASE i # 0
  <2>1. IsMoved(Append(RemoveAt(c, i), e), c, i, e)
    BY <1>1, <1>3, <1>4, RemoveAtFacts, AppendMoves
  <2>2. MakesRoom(c, i, key)
    BY <1>3, <1>4 DEF Caches, MakesRoom
  <2> QED BY <1>2, <1>4, <2>1, <2>2 DEF e
<1>5. CASE i = 0 /\ Len(c) = Capacity
  <2>1. /\ c # <<>>
        /\ Tail(c) \in Seq(Entry)
        /\ Len(Tail(c)) = Len(c) - 1
        /\ \A j \in 1 .. Len(c) - 1 : Tail(c)[j] = c[j + 1]
    BY <1>1, <1>5, EmptySeq, HeadTailProperties
  <2>2. \A j \in 1 .. Len(c) - 1 : Tail(c)[j] = IF j < 1 THEN c[j] ELSE c[j + 1]
    BY <1>1, <2>1
  <2>3. IsMoved(Append(Tail(c), e), c, 1, e)
    <3>1. 1 \in 1 .. Len(c)
      BY <1>1, <1>5
    <3> QED BY <1>1, <2>1, <2>2, <3>1, AppendMoves
  <2>4. MakesRoom(c, 1, key)
    BY <1>1, <1>3, <1>5 DEF MakesRoom
  <2> QED BY <1>2, <1>5, <2>3, <2>4 DEF e
<1>6. CASE i = 0 /\ Len(c) # Capacity
  <2>1. IsMoved(Append(c, e), c, 0, e)
    BY <1>1, AppendJoins
  <2>2. MakesRoom(c, 0, key)
    BY <1>1, <1>3, <1>6 DEF MakesRoom
  <2> QED BY <1>2, <1>6, <2>1, <2>2 DEF e
<1> QED BY <1>4, <1>5, <1>6

\* What is left of the cache keeps its order and its keys.
LEMMA MovedFacts ==
    ASSUME NEW c \in Caches, NEW m, NEW p, NEW e \in Entry,
           IsMoved(m, c, p, e), MakesRoom(c, p, e.key)
    PROVE  /\ m \in Caches
           /\ Keys(m) = {c[j].key : j \in (1 .. Len(c)) \ {p}} \cup {e.key}
           /\ p # 0 => Keys(m) = (Keys(c) \ {c[p].key}) \cup {e.key}
           /\ p = 0 => Keys(m) = Keys(c) \cup {e.key}
<1> DEFINE old(j) == IF p = 0 \/ j < p THEN j ELSE j + 1
<1>1. /\ Len(c) \in Nat /\ Len(m) \in Nat /\ Len(m) >= 1
      /\ p \in 0 .. Len(c)
      /\ m[Len(m)] = e
      /\ Len(m) = IF p = 0 THEN Len(c) + 1 ELSE Len(c)
  BY LenProperties DEF Caches, IsMoved, MakesRoom
<1>2. \A j \in 1 .. Len(m) - 1 : /\ old(j) \in (1 .. Len(c)) \ {p}
                                 /\ m[j] = c[old(j)]
  BY <1>1 DEF IsMoved
<1>3. \A j \in (1 .. Len(c)) \ {p} : \E k \in 1 .. Len(m) - 1 : old(k) = j
  <2> SUFFICES ASSUME NEW j \in (1 .. Len(c)) \ {p}
               PROVE  \E k \in 1 .. Len(m) - 1 : old(k) = j
    OBVIOUS
  <2>1. CASE p = 0 \/ j < p
    <3>1. j \in 1 .. Len(m) - 1 /\ old(j) = j
      BY <1>1, <2>1
    <3> QED BY <3>1
  <2>2. CASE p # 0 /\ j > p
    <3>1. j - 1 \in 1 .. Len(m) - 1 /\ old(j - 1) = j
      BY <1>1, <2>2
    <3> QED BY <3>1
  <2> QED BY <1>1, <2>1, <2>2
<1>4. \A j, k \in 1 .. Len(m) - 1 : old(j) = old(k) => j = k
  BY <1>1
<1> HIDE DEF old
<1>5. \A j \in (1 .. Len(c)) \ {p} : c[j].key # e.key
  BY DEF MakesRoom
<1>6. \A j \in 1 .. Len(m) : j = Len(m) \/ j \in 1 .. Len(m) - 1
  BY <1>1
<1>7. m \in Caches
  <2>1. \A i, j \in 1 .. Len(m) : m[i].key = m[j].key => i = j
    <3> SUFFICES ASSUME NEW i \in 1 .. Len(m), NEW j \in 1 .. Len(m), m[i].key = m[j].key
                 PROVE  i = j
      OBVIOUS
    <3>1. CASE i \in 1 .. Len(m) - 1 /\ j \in 1 .. Len(m) - 1
      BY <1>2, <1>4, <3>1 DEF Caches
    <3> QED BY <1>1, <1>2, <1>5, <1>6, <3>1
  <2>2. Len(m) <= Capacity
    BY <1>1, CorrelationAssumption DEF Caches, MakesRoom, CorrelationAssumption
  <2> QED BY <2>1, <2>2 DEF Caches, IsMoved
<1>8. Keys(m) = {c[j].key : j \in (1 .. Len(c)) \ {p}} \cup {e.key}
  <2>1. ASSUME NEW i \in 1 .. Len(m)
        PROVE  m[i].key \in {c[j].key : j \in (1 .. Len(c)) \ {p}} \cup {e.key}
    BY <1>1, <1>2, <1>6
  <2>2. ASSUME NEW j \in (1 .. Len(c)) \ {p}
        PROVE  c[j].key \in Keys(m)
    <3>1. PICK k \in 1 .. Len(m) - 1 : old(k) = j
      BY <1>3
    <3>2. m[k] = c[j] /\ k \in 1 .. Len(m)
      BY <1>1, <1>2, <3>1
    <3> QED BY <3>2 DEF Keys
  <2>3. e.key \in Keys(m)
    BY <1>1 DEF Keys
  <2> QED BY <2>1, <2>2, <2>3 DEF Keys
<1>9. /\ p = 0 => {c[j].key : j \in (1 .. Len(c)) \ {p}} = Keys(c)
      /\ p # 0 => {c[j].key : j \in (1 .. Len(c)) \ {p}} = Keys(c) \ {c[p].key}
  BY <1>1 DEF Keys, Caches
<1> QED BY <1>7, <1>8, <1>9
-----------------------------------------------------------------------------
(***************************************************************************)
(* The cache and the history.                                              *)
(***************************************************************************)

Histories == [latest : [Key -> Context \cup {Absent}],
              since : [Key -> SUBSET Key]]

\* A context is cached, or found, for the request of the entry e.
IsNoted(g, h, e) ==
    /\ g \in Histories
    /\ \A r \in Key :
          /\ g.latest[r] = IF r = e.key THEN e.context ELSE h.latest[r]
          /\ g.since[r] = IF r = e.key THEN {} ELSE h.since[r] \cup {e.key}

\* A context is not taken for the absence of one.
LEMMA ContextIsThere == Absent \notin Context
BY CorrelationAssumption DEF CorrelationAssumption, Context

\* The keys of the cache are AWS request IDs.
LEMMA KeysAreRequests ==
    ASSUME NEW c \in Caches
    PROVE  Keys(c) \subseteq Key /\ \A i \in 1 .. Len(c) : c[i] \in Entry
<1>1. \A i \in 1 .. Len(c) : c[i] \in Entry
  BY ElementOfSeq DEF Caches
<1> QED BY <1>1 DEF Keys, Entry

\* The size of an interval.
LEMMA IntervalSize ==
    \A a, b \in Nat : /\ IsFiniteSet(a .. b)
                      /\ Cardinality(a .. b) = IF a > b THEN 0 ELSE b - a + 1
BY FS_Interval

\* The number of different keys in a part of the cache.
LEMMA KeysOfPart ==
    ASSUME NEW c \in Caches, NEW I \in SUBSET (1 .. Len(c))
    PROVE  LET K == {c[i].key : i \in I} IN
           IsFiniteSet(K) /\ IsFiniteSet(I) /\ Cardinality(K) = Cardinality(I)
<1> DEFINE K == {c[i].key : i \in I}
           f == [i \in I |-> c[i].key]
<1>1. Len(c) \in Nat
  BY LenProperties DEF Caches
<1>2. IsFiniteSet(I)
  <2>1. IsFiniteSet(1 .. Len(c))
    BY <1>1, FS_Interval
  <2> QED BY <2>1, FS_Subset
<1>3. \A i, j \in I : c[i].key = c[j].key => i = j
  BY DEF Caches
<1>4. f \in Surjection(I, K)
  BY DEF Surjection
<1>5. f \in Injection(I, K)
  BY <1>3 DEF Injection, IsInjective
<1>6. f \in Bijection(I, K)
  BY <1>4, <1>5 DEF Bijection
<1> HIDE DEF K, f
<1>7. IsFiniteSet(K) /\ Cardinality(K) = Cardinality(I)
  BY <1>2, <1>6, FS_Bijection DEF ExistsBijection
<1> QED BY <1>2, <1>7 DEF K

\* What the cache promises is what it holds.
LEMMA RememberedIsCached ==
    ASSUME NEW c \in Caches, NEW h \in Histories, Agree(c, h), NEW r \in Key
    PROVE  Remembered(h, r) <=> r \in Keys(c)
<1>1. Len(c) \in Nat /\ Len(c) <= Capacity /\ Capacity \in Nat
  BY LenProperties, CorrelationAssumption DEF Caches, CorrelationAssumption
<1>2. ASSUME r \in Keys(c)
      PROVE  Remembered(h, r)
  <2>1. PICK i \in 1 .. Len(c) : r = c[i].key
    BY <1>2 DEF Keys
  <2>2. h.latest[r] # Absent
    BY <2>1, ContextIsThere, KeysAreRequests DEF Agree, Entry
  <2> DEFINE I == i + 1 .. Len(c)
  <2>3. h.since[r] = {c[j].key : j \in I}
    BY <2>1 DEF Agree
  <2>4. I \in SUBSET (1 .. Len(c)) /\ I \subseteq 2 .. Len(c)
    BY <1>1
  <2> HIDE DEF I
  <2>5. Cardinality(h.since[r]) = Cardinality(I)
    BY <2>3, <2>4, KeysOfPart
  <2>6. IsFiniteSet(2 .. Len(c)) /\ Cardinality(2 .. Len(c)) = IF 2 > Len(c) THEN 0 ELSE Len(c) - 2 + 1
    BY <1>1, IntervalSize
  <2>7. Cardinality(I) <= Cardinality(2 .. Len(c)) /\ Cardinality(I) \in Nat
    BY <2>4, <2>6, FS_Subset, FS_CardinalityType
  <2>8. Len(c) >= 1
    BY <1>1, <2>1
  <2>9. Cardinality(I) < Capacity
    BY <1>1, <2>6, <2>7, <2>8
  <2> QED BY <2>2, <2>5, <2>9 DEF Remembered
<1>3. ASSUME r \notin Keys(c), Remembered(h, r)
      PROVE  FALSE
  <2>1. Len(c) = Capacity /\ Keys(c) \subseteq h.since[r] /\ IsFiniteSet(h.since[r])
    BY <1>3 DEF Agree, Remembered
  <2>2. Cardinality(Keys(c)) = Cardinality(1 .. Len(c))
    BY KeysOfPart DEF Keys
  <2>3. Cardinality(1 .. Len(c)) = IF 1 > Len(c) THEN 0 ELSE Len(c) - 1 + 1
    BY <1>1, IntervalSize
  <2>4. Cardinality(Keys(c)) = Capacity
    BY <1>1, <2>1, <2>2, <2>3
  <2>5. Cardinality(Keys(c)) <= Cardinality(h.since[r]) /\ Cardinality(h.since[r]) \in Nat
    BY <2>1, FS_Subset, FS_CardinalityType
  <2>6. Cardinality(h.since[r]) < Capacity
    BY <1>3 DEF Remembered
  <2> QED BY <1>1, <2>4, <2>5, <2>6
<1> QED BY <1>2, <1>3

\* The entry that is moved has seen no use; the others have seen its.
LEMMA MovedAgrees ==
    ASSUME NEW c \in Caches, NEW h \in Histories, Agree(c, h),
           NEW m, NEW p, NEW g, NEW e \in Entry,
           IsMoved(m, c, p, e), MakesRoom(c, p, e.key), IsNoted(g, h, e)
    PROVE  Agree(m, g)
<1>1. /\ Len(c) \in Nat /\ Len(m) \in Nat /\ Len(m) >= 1
      /\ p \in 0 .. Len(c)
      /\ m[Len(m)] = e
      /\ Len(m) = IF p = 0 THEN Len(c) + 1 ELSE Len(c)
  BY LenProperties DEF Caches, IsMoved, MakesRoom
<1>2. /\ \A j \in 1 .. Len(c) : c[j].key = e.key => j = p
      /\ p = 0 => Len(c) < Capacity
      /\ p # 0 /\ c[p].key # e.key => p = 1 /\ Len(c) = Capacity
  BY DEF MakesRoom
<1>3. /\ Keys(m) = {c[j].key : j \in (1 .. Len(c)) \ {p}} \cup {e.key}
      /\ p # 0 => Keys(m) = (Keys(c) \ {c[p].key}) \cup {e.key}
      /\ p = 0 => Keys(m) = Keys(c) \cup {e.key}
  BY MovedFacts
<1>4. e.key \in Key
  BY DEF Entry
<1>5. ASSUME NEW i \in 1 .. Len(m) - 1
      PROVE  /\ g.latest[m[i].key] = m[i].context
             /\ g.since[m[i].key] = {m[j].key : j \in i + 1 .. Len(m)}
  <2> DEFINE old(j) == IF p = 0 \/ j < p THEN j ELSE j + 1
  <2>1. \A j \in 1 .. Len(m) - 1 : /\ old(j) \in (1 .. Len(c)) \ {p}
                                   /\ m[j] = c[old(j)]
    BY <1>1 DEF IsMoved
  <2>2. \A j \in i + 1 .. Len(m) - 1 : old(j) \in old(i) + 1 .. Len(c)
    BY <1>1, <2>1
  <2>3. \A k \in old(i) + 1 .. Len(c) : k # p => \E j \in i + 1 .. Len(m) - 1 : old(j) = k
    <3> SUFFICES ASSUME NEW k \in old(i) + 1 .. Len(c), k # p
                 PROVE  \E j \in i + 1 .. Len(m) - 1 : old(j) = k
      OBVIOUS
    <3>1. CASE p = 0 \/ k < p
      <4>1. k \in i + 1 .. Len(m) - 1 /\ old(k) = k
        BY <1>1, <3>1
      <4> QED BY <4>1
    <3>2. CASE p # 0 /\ k > p
      <4>1. k - 1 \in i + 1 .. Len(m) - 1 /\ old(k - 1) = k
        BY <1>1, <3>2
      <4> QED BY <4>1
    <3> QED BY <1>1, <3>1, <3>2
  <2>4. p \in old(i) + 1 .. Len(c) => c[p].key = e.key
    BY <1>1, <1>2, <2>1
  <2>5. old(i) \in 1 .. Len(c) /\ m[i] = c[old(i)] /\ m[i].key # e.key
    BY <1>2, <2>1
  <2> HIDE DEF old
  <2>6. m[i].key \in Key
    BY <2>5, KeysAreRequests DEF Entry
  <2>7. /\ h.latest[m[i].key] = m[i].context
        /\ h.since[m[i].key] = {c[k].key : k \in old(i) + 1 .. Len(c)}
    BY <2>5 DEF Agree
  <2>8. /\ g.latest[m[i].key] = m[i].context
        /\ g.since[m[i].key] = {c[k].key : k \in old(i) + 1 .. Len(c)} \cup {e.key}
    BY <2>5, <2>6, <2>7 DEF IsNoted
  <2>9. ASSUME NEW k \in old(i) + 1 .. Len(c)
        PROVE  c[k].key \in {m[j].key : j \in i + 1 .. Len(m)}
    <3>1. CASE k = p
      BY <1>1, <2>4, <3>1
    <3>2. CASE k # p
      <4>1. PICK j \in i + 1 .. Len(m) - 1 : old(j) = k
        BY <2>3, <3>2
      <4>2. j \in i + 1 .. Len(m) /\ m[j] = c[k]
        BY <1>1, <2>1, <4>1
      <4> QED BY <4>2
    <3> QED BY <3>1, <3>2
  <2>10. ASSUME NEW j \in i + 1 .. Len(m)
         PROVE  m[j].key \in {c[k].key : k \in old(i) + 1 .. Len(c)} \cup {e.key}
    <3>1. CASE j = Len(m)
      BY <1>1, <3>1
    <3>2. CASE j # Len(m)
      <4>1. j \in i + 1 .. Len(m) - 1 /\ j \in 1 .. Len(m) - 1
        BY <1>1, <3>2
      <4> QED BY <2>1, <2>2, <4>1
    <3> QED BY <3>1, <3>2
  <2>11. e.key \in {m[j].key : j \in i + 1 .. Len(m)}
    BY <1>1
  <2>12. {m[j].key : j \in i + 1 .. Len(m)}
           = {c[k].key : k \in old(i) + 1 .. Len(c)} \cup {e.key}
    BY <2>9, <2>10, <2>11
  <2> QED BY <2>8, <2>12
<1>6. /\ g.latest[m[Len(m)].key] = m[Len(m)].context
      /\ g.since[m[Len(m)].key] = {m[j].key : j \in Len(m) + 1 .. Len(m)}
  <2>1. Len(m) + 1 .. Len(m) = {}
    BY <1>1
  <2> QED BY <1>1, <1>4, <2>1 DEF IsNoted
<1>7. ASSUME NEW r \in Key \ Keys(m), g.latest[r] # Absent
      PROVE  Len(m) = Capacity /\ Keys(m) \subseteq g.since[r]
  <2>1. r # e.key /\ h.latest[r] # Absent /\ g.since[r] = h.since[r] \cup {e.key}
    BY <1>3, <1>7 DEF IsNoted
  <2>2. CASE r \in Keys(c)
    <3>1. p # 0 /\ r = c[p].key
      BY <1>3, <1>7, <2>2
    <3>2. p = 1 /\ Len(c) = Capacity
      BY <1>2, <2>1, <3>1
    <3>3. (1 .. Len(c)) \ {p} = 1 + 1 .. Len(c) /\ 1 \in 1 .. Len(c)
      BY <1>1, <3>2
    <3>4. h.since[r] = {c[j].key : j \in 1 + 1 .. Len(c)}
      BY <3>1, <3>2, <3>3 DEF Agree
    <3>5. Keys(m) = h.since[r] \cup {e.key}
      BY <1>3, <3>3, <3>4
    <3> QED BY <1>1, <2>1, <3>2, <3>5
  <2>3. CASE r \notin Keys(c)
    <3>1. Len(c) = Capacity /\ Keys(c) \subseteq h.since[r]
      BY <2>1, <2>3 DEF Agree
    <3>2. p # 0
      BY <1>1, <1>2, <3>1
    <3> QED BY <1>1, <1>3, <2>1, <3>1, <3>2
  <2> QED BY <2>2, <2>3
<1>8. ASSUME NEW r \in Key
      PROVE  IsFiniteSet(g.since[r])
  <2>1. IsFiniteSet(h.since[r] \cup {e.key})
    BY FS_AddElement DEF Agree
  <2> QED BY <2>1, FS_EmptySet DEF IsNoted
<1>9. \A i \in 1 .. Len(m) : i = Len(m) \/ i \in 1 .. Len(m) - 1
  BY <1>1
<1> QED BY <1>5, <1>6, <1>7, <1>8, <1>9 DEF Agree
-----------------------------------------------------------------------------
(***************************************************************************)
(* One span, one log.                                                      *)
(***************************************************************************)

\* Use notes the use of an entry in the history.
LEMMA UseNotes ==
    ASSUME NEW h \in Histories, NEW e \in Entry, h.latest[e.key] = e.context
    PROVE  IsNoted(Use(h, e.key), h, e)
BY DEF Use, IsNoted, Histories, Entry

\* The loop over the spans keeps cache and history in agreement.
LEMMA SpanAgrees ==
    ASSUME NEW c \in Caches, NEW h \in Histories, NEW span \in Span
    PROVE  /\ Populate(c, span) \in Caches
           /\ NoteSpan(h, span) \in Histories
           /\ Agree(c, h) => Agree(Populate(c, span), NoteSpan(h, span))
<1>1. CASE IsMapping(span)
  <2> DEFINE e == [key |-> Head(span.ids), context |-> ContextOf(span)]
             g == [h EXCEPT !.latest[e.key] = e.context]
  <2>1. e \in Entry /\ e.key \in Key /\ e.context \in Context
    BY <1>1 DEF IsMapping, ContextOf, Entry, Context
  <2>2. Populate(c, span) = push(c, e.key, e.context) /\ NoteSpan(h, span) = Use(g, e.key)
    BY <1>1 DEF Populate, NoteSpan
  <2>3. e = [key |-> e.key, context |-> e.context]
    OBVIOUS
  <2> HIDE DEF e
  <2>4. /\ g \in Histories
        /\ g.since = h.since
        /\ \A r \in Key : g.latest[r] = IF r = e.key THEN e.context ELSE h.latest[r]
    BY <2>1 DEF Histories
  <2> HIDE DEF g
  <2>5. IsNoted(Use(g, e.key), g, e)
    BY <2>1, <2>4, UseNotes
  <2>6. IsNoted(Use(g, e.key), h, e)
    BY <2>4, <2>5 DEF IsNoted
  <2>7. PICK p : IsMoved(push(c, e.key, e.context), c, p, e) /\ MakesRoom(c, p, e.key)
    <3>1. \E p : /\ IsMoved(push(c, e.key, e.context), c, p, [key |-> e.key, context |-> e.context])
                 /\ MakesRoom(c, p, e.key)
      BY <2>1, PushMoves
    <3> QED BY <2>3, <3>1
  <2> HIDE DEF push, Use
  <2>8. Populate(c, span) \in Caches
    BY <2>1, <2>2, <2>7, MovedFacts
  <2>9. NoteSpan(h, span) \in Histories
    BY <2>2, <2>6 DEF IsNoted
  <2>10. Agree(c, h) => Agree(Populate(c, span), NoteSpan(h, span))
    BY <2>1, <2>2, <2>6, <2>7, MovedAgrees
  <2> QED BY <2>8, <2>9, <2>10
<1>2. CASE ~IsMapping(span)
  BY <1>2 DEF Populate, NoteSpan
<1> QED BY <1>1, <1>2

Dones == [cache : Caches, logs : Seq(Log)]

\* What becomes of a log: keys are in the cache, with the latest contexts.
IsCorrelated(out, log, keys, contexts) ==
    /\ out.from = log.from
    /\ log.trace \in Trace \cup Word \cup {Empty} => out = log
    /\ log.trace \notin Trace \cup Word \cup {Empty} =>
          IF log.trace \in keys
          THEN /\ out.trace = contexts[log.trace].trace
               /\ out.span = IF log.span = Empty THEN contexts[log.trace].span ELSE log.span
          ELSE out.trace = Empty /\ out.span = log.span

\* The lengths tell a request ID from a trace ID.
LEMMA RequestIdIsNoTrace ==
    RequestId \cap (Trace \cup Word \cup {Empty}) = {}
BY CorrelationAssumption DEF CorrelationAssumption

\* So does the loop over the logs, which evicts nothing and changes no context.
LEMMA LogAgrees ==
    ASSUME NEW done \in Dones, NEW h \in Histories, Agree(done.cache, h), NEW log \in Log
    PROVE  LET next == Correlate(done, log) IN
           /\ next \in Dones
           /\ NoteLog(h, log) \in Histories
           /\ Agree(next.cache, NoteLog(h, log))
           /\ NoteLog(h, log).latest = h.latest
           /\ Keys(next.cache) = Keys(done.cache)
           /\ \E out \in Log : /\ next.logs = Append(done.logs, out)
                               /\ IsCorrelated(out, log, Keys(done.cache), h.latest)
<1> DEFINE next == Correlate(done, log)
           c == done.cache
           i == Position(c, log.trace)
<1>1. c \in Caches /\ done.logs \in Seq(Log)
  BY DEF Dones
<1>2. /\ log.trace \in Keys(c) => i \in 1 .. Len(c) /\ c[i].key = log.trace
      /\ log.trace \notin Keys(c) => i = 0
  BY <1>1, PositionFacts
<1>3. log.trace \in Key => (Remembered(h, log.trace) <=> log.trace \in Keys(c))
  BY <1>1, RememberedIsCached
<1>4. Keys(c) \subseteq Key /\ \A j \in 1 .. Len(c) : c[j] \in Entry
  BY <1>1, KeysAreRequests
<1>5. CASE log.trace \in Trace \cup Word \cup {Empty}
  <2>1. next = [cache |-> c, logs |-> Append(done.logs, log)]
    BY <1>5 DEF Correlate, Dones
  <2>2. NoteLog(h, log) = h
    BY <1>5, RequestIdIsNoTrace DEF NoteLog
  <2>3. IsCorrelated(log, log, Keys(c), h.latest)
    BY <1>5 DEF IsCorrelated
  <2>4. Append(done.logs, log) \in Seq(Log)
    BY <1>1, AppendProperties
  <2> HIDE DEF next, c
  <2>5. next \in Dones
    BY <1>1, <2>1, <2>4 DEF Dones
  <2> QED BY <2>1, <2>2, <2>3, <2>5 DEF next, c
<1>6. CASE log.trace \notin Trace \cup Word \cup {Empty} /\ log.trace \notin Keys(c)
  <2> DEFINE out == [log EXCEPT !.trace = Empty]
  <2>1. next = [cache |-> c, logs |-> Append(done.logs, out)]
    BY <1>2, <1>6 DEF Correlate, Dones
  <2>2. NoteLog(h, log) = h
    BY <1>3, <1>6 DEF NoteLog, Key
  <2>3. out \in Log /\ IsCorrelated(out, log, Keys(c), h.latest)
    BY <1>6 DEF Log, IsCorrelated
  <2> HIDE DEF next, out, c
  <2>4. Append(done.logs, out) \in Seq(Log)
    BY <1>1, <2>3, AppendProperties
  <2>5. next \in Dones
    BY <1>1, <2>1, <2>4 DEF Dones
  <2> QED BY <2>1, <2>2, <2>3, <2>5 DEF next, c
<1>7. CASE log.trace \notin Trace \cup Word \cup {Empty} /\ log.trace \in Keys(c)
  <2> DEFINE e == c[i]
             out == [log EXCEPT !.trace = e.context.trace,
                                !.span = IF @ = Empty THEN e.context.span ELSE @]
  <2>1. i \in 1 .. Len(c) /\ i # 0
    BY <1>1, <1>2, <1>7, LenProperties DEF Caches
  <2>2. next = [cache |-> Used(c, i), logs |-> Append(done.logs, out)]
    BY <1>7, <2>1 DEF Correlate
  <2>3. log.trace \in RequestId /\ Remembered(h, log.trace) /\ e.key = log.trace
    BY <1>2, <1>3, <1>4, <1>7 DEF Key
  <2>4. NoteLog(h, log) = Use(h, e.key)
    BY <2>3 DEF NoteLog
  <2>5. e \in Entry /\ e.context \in Context
    BY <1>4, <2>1 DEF Entry
  <2>6. h.latest[e.key] = e.context
    BY <2>1 DEF Agree
  <2>7. IsMoved(Used(c, i), c, i, e) /\ MakesRoom(c, i, e.key)
    BY <1>1, <2>1, UsedMoves
  <2>8. out \in Log /\ IsCorrelated(out, log, Keys(c), h.latest)
    BY <1>7, <2>3, <2>5, <2>6 DEF Log, IsCorrelated, Context
  <2> HIDE DEF next, out, i, c, e
  <2>9. IsNoted(Use(h, e.key), h, e)
    BY <2>5, <2>6, UseNotes
  <2> HIDE DEF Used, Use
  <2>10. Used(c, i) \in Caches /\ Keys(Used(c, i)) = (Keys(c) \ {c[i].key}) \cup {e.key}
    BY <1>1, <2>1, <2>5, <2>7, MovedFacts
  <2>11. Keys(Used(c, i)) = Keys(c)
    BY <2>1, <2>10 DEF e, Keys
  <2>12. Agree(Used(c, i), Use(h, e.key))
    BY <1>1, <2>5, <2>7, <2>9, MovedAgrees DEF c
  <2>13. Use(h, e.key) \in Histories /\ Use(h, e.key).latest = h.latest
    <3>1. Use(h, e.key) \in Histories
      BY <2>9 DEF IsNoted
    <3> QED BY <3>1 DEF Use, Histories
  <2>14. Append(done.logs, out) \in Seq(Log)
    BY <1>1, <2>8, AppendProperties
  <2>15. next \in Dones
    BY <2>2, <2>10, <2>14 DEF Dones
  <2> QED BY <2>2, <2>4, <2>8, <2>11, <2>12, <2>13, <2>15 DEF next, c
<1> QED BY <1>5, <1>6, <1>7
-----------------------------------------------------------------------------
(***************************************************************************)
(* The loops of an export: r[k] is what there is after k spans or logs.    *)
(***************************************************************************)

\* There is a history, a cache and a state of the loop over the logs.
LEMMA HistoryExists == Histories # {}
<1>1. [latest |-> [r \in Key |-> Absent], since |-> [r \in Key |-> {}]] \in Histories
  BY DEF Histories
<1> QED BY <1>1

LEMMA CacheExists == Caches # {}
<1>1. <<>> \in Seq(Entry) /\ Len(<<>>) = 0 /\ Capacity \in Nat
  BY EmptySeq, CorrelationAssumption DEF CorrelationAssumption
<1>2. <<>> \in Caches
  BY <1>1 DEF Caches
<1> QED BY <1>2

LEMMA DoneExists == Dones # {}
<1>1. PICK c \in Caches : TRUE
  BY CacheExists
<1>2. [cache |-> c, logs |-> <<>>] \in Dones
  BY EmptySeq DEF Dones
<1> QED BY <1>2

\* The types of what the loop over the logs makes.
LEMMA LogTypes ==
    ASSUME NEW done \in Dones, NEW h \in Histories, NEW log \in Log
    PROVE  Correlate(done, log) \in Dones /\ NoteLog(h, log) \in Histories
<1> DEFINE c == done.cache
           i == Position(c, log.trace)
           context == c[i].context
           out == IF log.trace \in Trace \cup Word \cup {Empty} THEN log
                  ELSE IF i = 0 THEN [log EXCEPT !.trace = Empty]
                  ELSE [log EXCEPT !.trace = context.trace,
                                   !.span = IF @ = Empty THEN context.span ELSE @]
           kept == IF log.trace \in Trace \cup Word \cup {Empty} \/ i = 0 THEN c ELSE Used(c, i)
<1>1. c \in Caches /\ done.logs \in Seq(Log)
  BY DEF Dones
<1>2. i # 0 => i \in 1 .. Len(c)
  BY <1>1, PositionFacts
<1>3. i # 0 => context \in Context
  BY <1>1, <1>2, KeysAreRequests DEF Entry
<1>4. Correlate(done, log) = [cache |-> kept, logs |-> Append(done.logs, out)]
  BY DEF Correlate, Dones
<1>5. out \in Log
  <2> HIDE DEF i, context
  <2> QED BY <1>3 DEF Log, Context
<1>6. kept \in Caches
  <2>1. ASSUME i # 0
        PROVE  Used(c, i) \in Caches
    <3>1. IsMoved(Used(c, i), c, i, c[i]) /\ MakesRoom(c, i, c[i].key) /\ c[i] \in Entry
      BY <1>1, <1>2, <2>1, UsedMoves, KeysAreRequests
    <3> HIDE DEF i, c, Used
    <3> QED BY <1>1, <3>1, MovedFacts
  <2> QED BY <1>1, <2>1
<1>7. Append(done.logs, out) \in Seq(Log)
  <2> HIDE DEF out
  <2> QED BY <1>1, <1>5, AppendProperties
<1>8. NoteLog(h, log) \in Histories
  BY DEF NoteLog, Use, Histories, Key
<1> HIDE DEF kept, out
<1> QED BY <1>4, <1>6, <1>7, <1>8 DEF Dones

\* The loop that fills the cache.  (The proofs of these four lemmas are alike:
\* a lemma with the operator of the fold as a parameter could not be cited.)
LEMMA PopulateRuns ==
    ASSUME NEW base \in Caches, NEW s \in Seq(Span)
    PROVE  \E r : /\ r \in [0 .. Len(s) -> Caches]
                  /\ r[0] = base
                  /\ \A k \in 1 .. Len(s) : r[k] = Populate(r[k - 1], s[k])
                  /\ r[Len(s)] = FoldLeft(Populate, base, s)
<1> DEFINE n == Len(s)
           F == [p \in (1 .. n) \X Caches |-> Populate(p[2], s[p[1]])]
           body(g, t) == IF t = {} THEN base ELSE LET x == Max(t) IN Populate(g[t \ {x}], s[x])
           iter == CHOOSE g : g = [t \in SUBSET (1 .. n) |-> body(g, t)]
<1>1. n \in Nat /\ DOMAIN s = 1 .. n /\ \A k \in 1 .. n : s[k] \in Span
  BY LenProperties, ElementOfSeq
<1>2. FoldLeft(Populate, base, s) = iter[1 .. n]
  BY <1>1 DEF FoldLeft, MapThenFoldSet
<1>3. /\ F \in [(1 .. n) \X Caches -> Caches]
      /\ \A k \in 1 .. n, d \in Caches : F[<<k, d>>] = Populate(d, s[k])
  <2>1. \A k \in 1 .. n, d \in Caches : Populate(d, s[k]) \in Caches
    <3> HIDE DEF n
    <3> QED BY <1>1, SpanAgrees, HistoryExists
  <2> QED BY <2>1
<1> HIDE DEF F
<1>4. PICK g : Folds(g, n, Caches, base, F)
  <2> HIDE DEF n
  <2> QED BY <1>1, <1>3, RunExists
<1>5. Unfolds(g, n, Caches, base, F)
  <2> HIDE DEF n
  <2> QED BY <1>1, <1>4, FoldUnfolds
<1>6. iter = [t \in SUBSET (1 .. n) |-> body(iter, t)]
  <2>1. ASSUME NEW t \in SUBSET (1 .. n)
        PROVE  g[t] = body(g, t)
    <3> HIDE DEF n
    <3>1. /\ g[{}] = base
          /\ t # {} => /\ Max(t) \in 1 .. n
                       /\ g[t \ {Max(t)}] \in Caches
                       /\ g[t] = F[<<Max(t), g[t \ {Max(t)}]>>]
      BY <1>5 DEF Unfolds
    <3> QED BY <1>3, <3>1
  <2> HIDE DEF body
  <2>2. g = [t \in SUBSET (1 .. n) |-> body(g, t)]
    BY <1>4, <2>1 DEF Folds
  <2> QED BY <2>2
<1> HIDE DEF iter
<1>7. PICK r : IsRun(r, n, Caches, base, F) /\ r[n] = iter[1 .. n]
  <2>1. iter[{}] = base
    BY <1>6
  <2>2. ASSUME NEW t \in SUBSET (1 .. n), t # {}, iter[t \ {Max(t)}] \in Caches
        PROVE  iter[t] = F[<<Max(t), iter[t \ {Max(t)}]>>]
    <3> HIDE DEF n
    <3>1. Max(t) \in 1 .. n
      BY <1>5, <2>2 DEF Unfolds
    <3>2. iter[t] = Populate(iter[t \ {Max(t)}], s[Max(t)])
      BY <1>6, <2>2
    <3> QED BY <1>3, <2>2, <3>1, <3>2
  <2> HIDE DEF n
  <2>3. TakesSteps(iter, n, Caches, base, F)
    BY <2>1, <2>2 DEF TakesSteps
  <2> QED BY <1>1, <1>4, <2>3, FoldIsRun
<1>8. \A k \in 1 .. n : r[k] = Populate(r[k - 1], s[k])
  <2> SUFFICES ASSUME NEW k \in 1 .. n PROVE r[k] = Populate(r[k - 1], s[k])
    OBVIOUS
  <2>1. r[k] = F[<<k, r[k - 1]>>] /\ r[k - 1] \in Caches
    BY <1>1, <1>7 DEF IsRun
  <2> QED BY <1>3, <2>1
<1> QED BY <1>2, <1>7, <1>8 DEF IsRun

\* The history of that loop.
LEMMA NoteSpanRuns ==
    ASSUME NEW base \in Histories, NEW s \in Seq(Span)
    PROVE  \E r : /\ r \in [0 .. Len(s) -> Histories]
                  /\ r[0] = base
                  /\ \A k \in 1 .. Len(s) : r[k] = NoteSpan(r[k - 1], s[k])
                  /\ r[Len(s)] = FoldLeft(NoteSpan, base, s)
<1> DEFINE n == Len(s)
           F == [p \in (1 .. n) \X Histories |-> NoteSpan(p[2], s[p[1]])]
           body(g, t) == IF t = {} THEN base ELSE LET x == Max(t) IN NoteSpan(g[t \ {x}], s[x])
           iter == CHOOSE g : g = [t \in SUBSET (1 .. n) |-> body(g, t)]
<1>1. n \in Nat /\ DOMAIN s = 1 .. n /\ \A k \in 1 .. n : s[k] \in Span
  BY LenProperties, ElementOfSeq
<1>2. FoldLeft(NoteSpan, base, s) = iter[1 .. n]
  BY <1>1 DEF FoldLeft, MapThenFoldSet
<1>3. /\ F \in [(1 .. n) \X Histories -> Histories]
      /\ \A k \in 1 .. n, d \in Histories : F[<<k, d>>] = NoteSpan(d, s[k])
  <2>1. \A k \in 1 .. n, d \in Histories : NoteSpan(d, s[k]) \in Histories
    <3> HIDE DEF n
    <3> QED BY <1>1, SpanAgrees, CacheExists
  <2> QED BY <2>1
<1> HIDE DEF F
<1>4. PICK g : Folds(g, n, Histories, base, F)
  <2> HIDE DEF n
  <2> QED BY <1>1, <1>3, RunExists
<1>5. Unfolds(g, n, Histories, base, F)
  <2> HIDE DEF n
  <2> QED BY <1>1, <1>4, FoldUnfolds
<1>6. iter = [t \in SUBSET (1 .. n) |-> body(iter, t)]
  <2>1. ASSUME NEW t \in SUBSET (1 .. n)
        PROVE  g[t] = body(g, t)
    <3> HIDE DEF n
    <3>1. /\ g[{}] = base
          /\ t # {} => /\ Max(t) \in 1 .. n
                       /\ g[t \ {Max(t)}] \in Histories
                       /\ g[t] = F[<<Max(t), g[t \ {Max(t)}]>>]
      BY <1>5 DEF Unfolds
    <3> QED BY <1>3, <3>1
  <2> HIDE DEF body
  <2>2. g = [t \in SUBSET (1 .. n) |-> body(g, t)]
    BY <1>4, <2>1 DEF Folds
  <2> QED BY <2>2
<1> HIDE DEF iter
<1>7. PICK r : IsRun(r, n, Histories, base, F) /\ r[n] = iter[1 .. n]
  <2>1. iter[{}] = base
    BY <1>6
  <2>2. ASSUME NEW t \in SUBSET (1 .. n), t # {}, iter[t \ {Max(t)}] \in Histories
        PROVE  iter[t] = F[<<Max(t), iter[t \ {Max(t)}]>>]
    <3> HIDE DEF n
    <3>1. Max(t) \in 1 .. n
      BY <1>5, <2>2 DEF Unfolds
    <3>2. iter[t] = NoteSpan(iter[t \ {Max(t)}], s[Max(t)])
      BY <1>6, <2>2
    <3> QED BY <1>3, <2>2, <3>1, <3>2
  <2> HIDE DEF n
  <2>3. TakesSteps(iter, n, Histories, base, F)
    BY <2>1, <2>2 DEF TakesSteps
  <2> QED BY <1>1, <1>4, <2>3, FoldIsRun
<1>8. \A k \in 1 .. n : r[k] = NoteSpan(r[k - 1], s[k])
  <2> SUFFICES ASSUME NEW k \in 1 .. n PROVE r[k] = NoteSpan(r[k - 1], s[k])
    OBVIOUS
  <2>1. r[k] = F[<<k, r[k - 1]>>] /\ r[k - 1] \in Histories
    BY <1>1, <1>7 DEF IsRun
  <2> QED BY <1>3, <2>1
<1> QED BY <1>2, <1>7, <1>8 DEF IsRun

\* The loop that looks the logs up.
LEMMA CorrelateRuns ==
    ASSUME NEW base \in Dones, NEW s \in Seq(Log)
    PROVE  \E r : /\ r \in [0 .. Len(s) -> Dones]
                  /\ r[0] = base
                  /\ \A k \in 1 .. Len(s) : r[k] = Correlate(r[k - 1], s[k])
                  /\ r[Len(s)] = FoldLeft(Correlate, base, s)
<1> DEFINE n == Len(s)
           F == [p \in (1 .. n) \X Dones |-> Correlate(p[2], s[p[1]])]
           body(g, t) == IF t = {} THEN base ELSE LET x == Max(t) IN Correlate(g[t \ {x}], s[x])
           iter == CHOOSE g : g = [t \in SUBSET (1 .. n) |-> body(g, t)]
<1>1. n \in Nat /\ DOMAIN s = 1 .. n /\ \A k \in 1 .. n : s[k] \in Log
  BY LenProperties, ElementOfSeq
<1>2. FoldLeft(Correlate, base, s) = iter[1 .. n]
  BY <1>1 DEF FoldLeft, MapThenFoldSet
<1>3. /\ F \in [(1 .. n) \X Dones -> Dones]
      /\ \A k \in 1 .. n, d \in Dones : F[<<k, d>>] = Correlate(d, s[k])
  <2>1. \A k \in 1 .. n, d \in Dones : Correlate(d, s[k]) \in Dones
    <3> HIDE DEF n
    <3> QED BY <1>1, LogTypes, HistoryExists
  <2> QED BY <2>1
<1> HIDE DEF F
<1>4. PICK g : Folds(g, n, Dones, base, F)
  <2> HIDE DEF n
  <2> QED BY <1>1, <1>3, RunExists
<1>5. Unfolds(g, n, Dones, base, F)
  <2> HIDE DEF n
  <2> QED BY <1>1, <1>4, FoldUnfolds
<1>6. iter = [t \in SUBSET (1 .. n) |-> body(iter, t)]
  <2>1. ASSUME NEW t \in SUBSET (1 .. n)
        PROVE  g[t] = body(g, t)
    <3> HIDE DEF n
    <3>1. /\ g[{}] = base
          /\ t # {} => /\ Max(t) \in 1 .. n
                       /\ g[t \ {Max(t)}] \in Dones
                       /\ g[t] = F[<<Max(t), g[t \ {Max(t)}]>>]
      BY <1>5 DEF Unfolds
    <3> QED BY <1>3, <3>1
  <2> HIDE DEF body
  <2>2. g = [t \in SUBSET (1 .. n) |-> body(g, t)]
    BY <1>4, <2>1 DEF Folds
  <2> QED BY <2>2
<1> HIDE DEF iter
<1>7. PICK r : IsRun(r, n, Dones, base, F) /\ r[n] = iter[1 .. n]
  <2>1. iter[{}] = base
    BY <1>6
  <2>2. ASSUME NEW t \in SUBSET (1 .. n), t # {}, iter[t \ {Max(t)}] \in Dones
        PROVE  iter[t] = F[<<Max(t), iter[t \ {Max(t)}]>>]
    <3> HIDE DEF n
    <3>1. Max(t) \in 1 .. n
      BY <1>5, <2>2 DEF Unfolds
    <3>2. iter[t] = Correlate(iter[t \ {Max(t)}], s[Max(t)])
      BY <1>6, <2>2
    <3> QED BY <1>3, <2>2, <3>1, <3>2
  <2> HIDE DEF n
  <2>3. TakesSteps(iter, n, Dones, base, F)
    BY <2>1, <2>2 DEF TakesSteps
  <2> QED BY <1>1, <1>4, <2>3, FoldIsRun
<1>8. \A k \in 1 .. n : r[k] = Correlate(r[k - 1], s[k])
  <2> SUFFICES ASSUME NEW k \in 1 .. n PROVE r[k] = Correlate(r[k - 1], s[k])
    OBVIOUS
  <2>1. r[k] = F[<<k, r[k - 1]>>] /\ r[k - 1] \in Dones
    BY <1>1, <1>7 DEF IsRun
  <2> QED BY <1>3, <2>1
<1> QED BY <1>2, <1>7, <1>8 DEF IsRun

\* The history of that loop.
LEMMA NoteLogRuns ==
    ASSUME NEW base \in Histories, NEW s \in Seq(Log)
    PROVE  \E r : /\ r \in [0 .. Len(s) -> Histories]
                  /\ r[0] = base
                  /\ \A k \in 1 .. Len(s) : r[k] = NoteLog(r[k - 1], s[k])
                  /\ r[Len(s)] = FoldLeft(NoteLog, base, s)
<1> DEFINE n == Len(s)
           F == [p \in (1 .. n) \X Histories |-> NoteLog(p[2], s[p[1]])]
           body(g, t) == IF t = {} THEN base ELSE LET x == Max(t) IN NoteLog(g[t \ {x}], s[x])
           iter == CHOOSE g : g = [t \in SUBSET (1 .. n) |-> body(g, t)]
<1>1. n \in Nat /\ DOMAIN s = 1 .. n /\ \A k \in 1 .. n : s[k] \in Log
  BY LenProperties, ElementOfSeq
<1>2. FoldLeft(NoteLog, base, s) = iter[1 .. n]
  BY <1>1 DEF FoldLeft, MapThenFoldSet
<1>3. /\ F \in [(1 .. n) \X Histories -> Histories]
      /\ \A k \in 1 .. n, d \in Histories : F[<<k, d>>] = NoteLog(d, s[k])
  <2>1. \A k \in 1 .. n, d \in Histories : NoteLog(d, s[k]) \in Histories
    <3> HIDE DEF n
    <3> QED BY <1>1, LogTypes, DoneExists
  <2> QED BY <2>1
<1> HIDE DEF F
<1>4. PICK g : Folds(g, n, Histories, base, F)
  <2> HIDE DEF n
  <2> QED BY <1>1, <1>3, RunExists
<1>5. Unfolds(g, n, Histories, base, F)
  <2> HIDE DEF n
  <2> QED BY <1>1, <1>4, FoldUnfolds
<1>6. iter = [t \in SUBSET (1 .. n) |-> body(iter, t)]
  <2>1. ASSUME NEW t \in SUBSET (1 .. n)
        PROVE  g[t] = body(g, t)
    <3> HIDE DEF n
    <3>1. /\ g[{}] = base
          /\ t # {} => /\ Max(t) \in 1 .. n
                       /\ g[t \ {Max(t)}] \in Histories
                       /\ g[t] = F[<<Max(t), g[t \ {Max(t)}]>>]
      BY <1>5 DEF Unfolds
    <3> QED BY <1>3, <3>1
  <2> HIDE DEF body
  <2>2. g = [t \in SUBSET (1 .. n) |-> body(g, t)]
    BY <1>4, <2>1 DEF Folds
  <2> QED BY <2>2
<1> HIDE DEF iter
<1>7. PICK r : IsRun(r, n, Histories, base, F) /\ r[n] = iter[1 .. n]
  <2>1. iter[{}] = base
    BY <1>6
  <2>2. ASSUME NEW t \in SUBSET (1 .. n), t # {}, iter[t \ {Max(t)}] \in Histories
        PROVE  iter[t] = F[<<Max(t), iter[t \ {Max(t)}]>>]
    <3> HIDE DEF n
    <3>1. Max(t) \in 1 .. n
      BY <1>5, <2>2 DEF Unfolds
    <3>2. iter[t] = NoteLog(iter[t \ {Max(t)}], s[Max(t)])
      BY <1>6, <2>2
    <3> QED BY <1>3, <2>2, <3>1, <3>2
  <2> HIDE DEF n
  <2>3. TakesSteps(iter, n, Histories, base, F)
    BY <2>1, <2>2 DEF TakesSteps
  <2> QED BY <1>1, <1>4, <2>3, FoldIsRun
<1>8. \A k \in 1 .. n : r[k] = NoteLog(r[k - 1], s[k])
  <2> SUFFICES ASSUME NEW k \in 1 .. n PROVE r[k] = NoteLog(r[k - 1], s[k])
    OBVIOUS
  <2>1. r[k] = F[<<k, r[k - 1]>>] /\ r[k - 1] \in Histories
    BY <1>1, <1>7 DEF IsRun
  <2> QED BY <1>3, <2>1
<1> QED BY <1>2, <1>7, <1>8 DEF IsRun
-----------------------------------------------------------------------------
(***************************************************************************)
(* What an export does to the cache, the history and the logs.             *)
(***************************************************************************)

\* After all spans of an export, cache and history still agree.
LEMMA SpansAgree ==
    ASSUME NEW c \in Caches, NEW h \in Histories, Agree(c, h), NEW s \in Seq(Span)
    PROVE  LET d == FoldLeft(Populate, c, s)
               g == FoldLeft(NoteSpan, h, s)
           IN  d \in Caches /\ g \in Histories /\ Agree(d, g)
<1>1. PICK r : /\ r \in [0 .. Len(s) -> Caches]
               /\ r[0] = c
               /\ \A k \in 1 .. Len(s) : r[k] = Populate(r[k - 1], s[k])
               /\ r[Len(s)] = FoldLeft(Populate, c, s)
  BY PopulateRuns
<1>2. PICK q : /\ q \in [0 .. Len(s) -> Histories]
               /\ q[0] = h
               /\ \A k \in 1 .. Len(s) : q[k] = NoteSpan(q[k - 1], s[k])
               /\ q[Len(s)] = FoldLeft(NoteSpan, h, s)
  BY NoteSpanRuns
<1> DEFINE P == {k \in 0 .. Len(s) : Agree(r[k], q[k])}
<1>3. Len(s) \in Nat /\ \A k \in 1 .. Len(s) : s[k] \in Span
  BY LenProperties, ElementOfSeq
<1>4. ASSUME NEW k \in 1 .. Len(s), k - 1 \in P
      PROVE  k \in P
  <2>1. r[k - 1] \in Caches /\ q[k - 1] \in Histories /\ Agree(r[k - 1], q[k - 1]) /\ s[k] \in Span
    BY <1>1, <1>2, <1>3, <1>4
  <2>2. Agree(Populate(r[k - 1], s[k]), NoteSpan(q[k - 1], s[k]))
    BY <2>1, SpanAgrees
  <2> QED BY <1>1, <1>2, <1>3, <2>2
<1>5. 0 \in P
  BY <1>1, <1>2, <1>3
<1>6. 0 .. Len(s) \subseteq P
  <2> HIDE DEF P
  <2> QED BY <1>3, <1>4, <1>5, IntervalInduction
<1> QED BY <1>1, <1>2, <1>3, <1>6

\* After all its logs too, and every log is correlated with what the spans left.
LEMMA LogsAgree ==
    ASSUME NEW c \in Caches, NEW h \in Histories, Agree(c, h), NEW s \in Seq(Log)
    PROVE  LET d == FoldLeft(Correlate, [cache |-> c, logs |-> <<>>], s)
               g == FoldLeft(NoteLog, h, s)
           IN  /\ d \in Dones /\ g \in Histories
               /\ Agree(d.cache, g)
               /\ g.latest = h.latest
               /\ Len(d.logs) = Len(s)
               /\ \A i \in 1 .. Len(s) : IsCorrelated(d.logs[i], s[i], Keys(c), h.latest)
<1> DEFINE base == [cache |-> c, logs |-> <<>>]
<1>0. base \in Dones /\ base.cache = c /\ base.logs = <<>> /\ Len(<<>>) = 0
  BY EmptySeq DEF Dones
<1> HIDE DEF base
<1>1. PICK r : /\ r \in [0 .. Len(s) -> Dones]
               /\ r[0] = base
               /\ \A k \in 1 .. Len(s) : r[k] = Correlate(r[k - 1], s[k])
               /\ r[Len(s)] = FoldLeft(Correlate, base, s)
  BY <1>0, CorrelateRuns
<1>2. PICK q : /\ q \in [0 .. Len(s) -> Histories]
               /\ q[0] = h
               /\ \A k \in 1 .. Len(s) : q[k] = NoteLog(q[k - 1], s[k])
               /\ q[Len(s)] = FoldLeft(NoteLog, h, s)
  BY NoteLogRuns
<1> DEFINE Good(k) == /\ Agree(r[k].cache, q[k])
                      /\ q[k].latest = h.latest
                      /\ Keys(r[k].cache) = Keys(c)
                      /\ Len(r[k].logs) = k
                      /\ \A i \in 1 .. k : IsCorrelated(r[k].logs[i], s[i], Keys(c), h.latest)
           P == {k \in 0 .. Len(s) : Good(k)}
<1>3. Len(s) \in Nat /\ \A k \in 1 .. Len(s) : s[k] \in Log
  BY LenProperties, ElementOfSeq
<1>4. ASSUME NEW k \in 1 .. Len(s), Good(k - 1)
      PROVE  Good(k)
  <2> DEFINE done == r[k - 1]
             next == Correlate(done, s[k])
  <2>1. done \in Dones /\ q[k - 1] \in Histories /\ s[k] \in Log
    BY <1>1, <1>2, <1>3
  <2>2. r[k] = next /\ q[k] = NoteLog(q[k - 1], s[k])
    BY <1>1, <1>2
  <2>3. PICK out \in Log :
           /\ Agree(next.cache, q[k])
           /\ q[k].latest = q[k - 1].latest
           /\ Keys(next.cache) = Keys(done.cache)
           /\ next.logs = Append(done.logs, out)
           /\ IsCorrelated(out, s[k], Keys(done.cache), q[k - 1].latest)
    BY <1>4, <2>1, <2>2, LogAgrees
  <2>4. /\ Len(next.logs) = k
        /\ \A i \in 1 .. k - 1 : next.logs[i] = done.logs[i]
        /\ next.logs[k] = out
    <3>1. done.logs \in Seq(Log) /\ Len(done.logs) = k - 1
      BY <1>4, <2>1 DEF Dones
    <3>2. /\ Len(Append(done.logs, out)) = Len(done.logs) + 1
          /\ \A i \in 1 .. Len(done.logs) : Append(done.logs, out)[i] = done.logs[i]
          /\ Append(done.logs, out)[Len(done.logs) + 1] = out
      BY <3>1, AppendProperties
    <3> HIDE DEF done, next
    <3> QED BY <1>3, <2>3, <3>1, <3>2
  <2>5. \A i \in 1 .. k : i \in 1 .. k - 1 \/ i = k
    OBVIOUS
  <2> HIDE DEF next
  <2> QED BY <1>4, <2>2, <2>3, <2>4, <2>5
<1>5. Good(0)
  BY <1>0, <1>1, <1>2, <1>3
<1>6. 0 .. Len(s) \subseteq P
  <2>1. 0 \in P /\ \A k \in 1 .. Len(s) : k - 1 \in P => k \in P
    <3> HIDE DEF Good
    <3> QED BY <1>3, <1>4, <1>5
  <2> HIDE DEF P
  <2> QED BY <1>3, <2>1, IntervalInduction
<1>7. Good(Len(s)) /\ r[Len(s)] \in Dones /\ q[Len(s)] \in Histories
  BY <1>1, <1>2, <1>3, <1>6
<1> QED BY <1>1, <1>2, <1>7 DEF base
-----------------------------------------------------------------------------
(***************************************************************************)
(* Where the IDs of a parsed log come from.                                *)
(***************************************************************************)

\* A parsed log has the ID its record goes by, and the span ID it says.
LEMMA ParsedFrom ==
    ASSUME NEW record \in Record, record.kind = "json" => Decodes(record.json)
    PROVE  /\ LogOf(record) \in Log
           /\ LogOf(record).from = record
           /\ Named(record) \in Trace \cup Word \cup RequestId \cup {Empty, Absent}
           /\ LogOf(record).trace = Or(Named(record), Empty)
           /\ LogOf(record).span = Or(Said(record).spanId, Empty)
<1> DEFINE nothing == [traceId |-> Absent, requestId |-> Absent, spanId |-> Absent]
<1>1. record \in LambdaLogRecord
  BY CorrelationAssumption DEF CorrelationAssumption
<1>2. PICK message, line :
         /\ message \in JsonLogRecord \cup {nothing}
         /\ Undecodable \notin {message.traceId, message.requestId, message.spanId}
         /\ line \in RequestId \cup Word \cup {Empty, Absent}
         /\ Said(record) = message
         /\ RequestOf(record) = IF message.requestId # Absent THEN message.requestId ELSE line
         /\ parse(record) = [trace |-> Or(Or(Or(message.traceId, message.requestId), line), Empty),
                             span |-> Or(message.spanId, Empty)]
  <2>1. CASE record.kind = "json"
    <3>1. record.json \in JsonLogRecord
      BY <1>1, <2>1 DEF LambdaLogRecord
    <3>2. Undecodable \notin {record.json.traceId, record.json.requestId, record.json.spanId}
      BY <2>1 DEF Decodes
    <3>3. Said(record) = record.json
      BY <2>1 DEF Said
    <3>4. RequestOf(record) = IF record.json.requestId # Absent THEN record.json.requestId ELSE Absent
      BY <2>1, <3>3 DEF RequestOf
    <3>5. parse(record) = [trace |-> Or(Or(Or(record.json.traceId, record.json.requestId), Absent), Empty),
                           span |-> Or(record.json.spanId, Empty)]
      BY <2>1 DEF parse, convert_json
    <3> QED BY <3>1, <3>2, <3>3, <3>4, <3>5
  <2>2. CASE record.kind = "text" /\ record.text.prefix # Absent /\ Decodes(record.text.message)
    <3>1. /\ record.text.prefix \in RequestId \cup Word \cup {Empty, Absent}
          /\ record.text.message \in JsonLogRecord
      BY <1>1, <2>2 DEF LambdaLogRecord, TextLogRecord, Decodes
    <3>2. Undecodable \notin {record.text.message.traceId, record.text.message.requestId,
                              record.text.message.spanId}
      BY <2>2 DEF Decodes
    <3>3. Said(record) = record.text.message
      BY <2>2 DEF Said
    <3>4. RequestOf(record) = IF record.text.message.requestId # Absent
                              THEN record.text.message.requestId ELSE record.text.prefix
      BY <2>2, <3>3 DEF RequestOf
    <3>5. parse(record) = [trace |-> Or(Or(Or(record.text.message.traceId,
                                              record.text.message.requestId),
                                           record.text.prefix), Empty),
                           span |-> Or(record.text.message.spanId, Empty)]
      BY <2>2 DEF parse, parse_line, convert_json
    <3> QED BY <3>1, <3>2, <3>3, <3>4, <3>5
  <2>3. CASE record.kind = "text" /\ ~(record.text.prefix # Absent /\ Decodes(record.text.message))
    <3>1. record.text.prefix \in RequestId \cup Word \cup {Empty, Absent}
      BY <1>1, <2>3 DEF LambdaLogRecord, TextLogRecord
    <3>2. Said(record) = nothing
      BY <2>3 DEF Said
    <3>3. RequestOf(record) = record.text.prefix
      BY <2>3, <3>2 DEF RequestOf
    <3>4. parse(record) = [trace |-> Or(Or(Or(Absent, Absent), record.text.prefix), Empty),
                           span |-> Or(Absent, Empty)]
      BY <2>3 DEF parse, parse_line, convert_text, Or
    <3>5. Undecodable \notin {nothing.traceId, nothing.requestId, nothing.spanId}
      BY CorrelationAssumption DEF CorrelationAssumption
    <3>6. nothing.traceId = Absent /\ nothing.requestId = Absent /\ nothing.spanId = Absent
      OBVIOUS
    <3> HIDE DEF nothing
    <3> QED BY <3>1, <3>2, <3>3, <3>4, <3>5, <3>6
  <2>4. record.kind \in {"json", "text"}
    BY <1>1 DEF LambdaLogRecord
  <2> QED BY <2>1, <2>2, <2>3, <2>4
<1>3. /\ message.traceId \in Trace \cup RequestId \cup {Empty, Absent}
      /\ message.requestId \in RequestId \cup Word \cup {Empty, Absent}
      /\ message.spanId \in SpanId \cup Odd \cup {Empty, Absent}
  BY <1>2 DEF JsonLogRecord
<1> DEFINE name == IF message.traceId # Absent THEN message.traceId
                   ELSE IF message.requestId # Absent THEN message.requestId ELSE line
           trace == Or(Or(Or(message.traceId, message.requestId), line), Empty)
           span == Or(message.spanId, Empty)
<1>4. Named(record) = name
  BY <1>2 DEF Named
<1>5. LogOf(record) = [from |-> record, trace |-> trace, span |-> span]
  BY <1>2 DEF LogOf
<1>6. trace = Or(name, Empty)
  BY DEF Or
<1>7. name \in Trace \cup Word \cup RequestId \cup {Empty, Absent}
  BY <1>2, <1>3
<1>8. span \in SpanId \cup Odd \cup {Empty} /\ span = Or(Said(record).spanId, Empty)
  BY <1>2, <1>3 DEF Or
<1> HIDE DEF trace, span, name
<1>9. trace \in Trace \cup Word \cup RequestId \cup {Empty}
  BY <1>6, <1>7 DEF Or
<1>10. LogOf(record) \in Log
  BY <1>5, <1>8, <1>9 DEF Log
<1> QED BY <1>4, <1>5, <1>6, <1>7, <1>8, <1>10
-----------------------------------------------------------------------------
(***************************************************************************)
(* The invariant.                                                          *)
(***************************************************************************)

\* The types of CorrelationTypeOK are those of the lemmas.
LEMMA CacheType ==
    \A c : c \in Caches <=> /\ c \in Seq(Entry)
                            /\ Len(c) <= Capacity
                            /\ IsInjective([i \in DOMAIN c |-> c[i].key])
<1> SUFFICES ASSUME NEW c \in Seq(Entry)
             PROVE  IsInjective([i \in DOMAIN c |-> c[i].key])
                      <=> \A i, j \in 1 .. Len(c) : c[i].key = c[j].key => i = j
  BY DEF Caches
<1>1. DOMAIN c = 1 .. Len(c)
  BY LenProperties
<1> QED BY <1>1 DEF IsInjective

LEMMA HistoryType ==
    History \in Histories <=> /\ latest \in [Key -> Context \cup {Absent}]
                              /\ since \in [Key -> SUBSET Key]
BY DEF History, Histories

\* The invariant holds when the exporter starts with an empty cache.
LEMMA CorrelationInit == Init => CorrelationInv
<1> SUFFICES ASSUME Init PROVE CorrelationInv
  OBVIOUS
<1> USE DEF Init
<1>1. <<>> \in Caches /\ <<>> \in Seq(Span) /\ <<>> \in Seq(Log) /\ Len(<<>>) = 0
  <2>1. <<>> \in Seq(Entry) /\ Capacity \in Nat
    BY EmptySeq, CorrelationAssumption DEF CorrelationAssumption
  <2> QED BY <2>1, EmptySeq DEF Caches
<1>2. CorrelationTypeOK
  <2>1. /\ cache \in Seq(Entry) /\ Len(cache) <= Capacity
        /\ IsInjective([i \in DOMAIN cache |-> cache[i].key])
    <3>1. cache \in Caches
      BY <1>1
    <3> QED BY <3>1, CacheType
  <2>2. Len(spans) + Len(logs) <= MaxHeld
    BY <1>1, CorrelationAssumption DEF CorrelationAssumption
  <2>3. /\ latest \in [Key -> Context \cup {Absent}]
        /\ since \in [Key -> SUBSET Key]
    OBVIOUS
  <2> QED BY <1>1, <2>1, <2>2, <2>3 DEF CorrelationTypeOK
<1>3. Agree(cache, History)
  BY <1>1, FS_EmptySet DEF Agree, History, Keys
<1>4. DOMAIN logs = {} /\ DOMAIN sent = {}
  OBVIOUS
<1> QED BY <1>2, <1>3, <1>4 DEF CorrelationInv, TracesAreOwn

\* What changes neither the cache nor the history keeps their agreement.
LEMMA AgreementKept ==
    ASSUME Agree(cache, History), UNCHANGED <<cache, latest, since>>
    PROVE  Agree(cache, History)'
<1>1. cache' = cache /\ History' = History
  BY DEF History
<1>2. Keys(cache)' = Keys(cache) /\ Key' = Key
  BY <1>1 DEF Keys, Key
<1>3. ASSUME NEW i \in 1 .. Len(cache)
      PROVE  /\ History'.latest[cache'[i].key] = cache'[i].context
             /\ History'.since[cache'[i].key] = {cache'[j].key : j \in i + 1 .. Len(cache')}
  <2>1. {cache'[j].key : j \in i + 1 .. Len(cache')} = {cache[j].key : j \in i + 1 .. Len(cache)}
    BY <1>1
  <2>2. /\ History.latest[cache[i].key] = cache[i].context
        /\ History.since[cache[i].key] = {cache[j].key : j \in i + 1 .. Len(cache)}
    BY DEF Agree
  <2> QED BY <1>1, <2>1, <2>2
<1>4. (\A r \in Key \ Keys(cache) : History.latest[r] # Absent =>
          /\ Len(cache) = Capacity
          /\ Keys(cache) \subseteq History.since[r])'
  BY <1>1, <1>2 DEF Agree
<1>5. (\A r \in Key : IsFiniteSet(History.since[r]))'
  BY <1>1, <1>2 DEF Agree
<1>6. Len(cache)' = Len(cache)
  BY <1>1
<1> QED BY <1>3, <1>4, <1>5, <1>6 DEF Agree

\* A span or a record that arrives keeps the invariant.
LEMMA ReceiveStep ==
    ASSUME CorrelationInv,
           \/ \E span \in Span : ReceiveSpan(span)
           \/ \E record \in Record : ReceiveLog(record)
    PROVE  CorrelationInv'
<1>1. /\ UNCHANGED <<cache, latest, since>>
      /\ sent' = <<>>
  BY DEF ReceiveSpan, ReceiveLog
<1>2. /\ spans \in Seq(Span) /\ logs \in Seq(Log)
      /\ Len(spans) \in Nat /\ Len(logs) \in Nat
      /\ DOMAIN logs = 1 .. Len(logs)
      /\ MaxHeld \in Nat
  BY LenProperties, CorrelationAssumption
     DEF CorrelationInv, CorrelationTypeOK, CorrelationAssumption
<1>3. Agree(cache, History)'
  <2>1. Agree(cache, History)
    BY DEF CorrelationInv
  <2> QED BY <1>1, <2>1, AgreementKept
<1>4. TracesAreOwn'
  BY <1>1 DEF TracesAreOwn
<1>5. /\ cache' \in Seq(Entry) /\ Len(cache') <= Capacity
      /\ IsInjective([i \in DOMAIN cache |-> cache[i].key])'
      /\ sent' \in Seq(Log)
      /\ latest' \in [Key -> Context \cup {Absent}]
      /\ since' \in [Key -> SUBSET Key]
  BY <1>1, EmptySeq DEF CorrelationInv, CorrelationTypeOK
<1>6. CASE \E span \in Span : ReceiveSpan(span)
  <2>1. PICK span \in Span : ReceiveSpan(span)
    BY <1>6
  <2>2. /\ Len(spans) + Len(logs) < MaxHeld
        /\ spans' = Append(spans, span) /\ logs' = logs
    BY <2>1 DEF ReceiveSpan
  <2>3. spans' \in Seq(Span) /\ Len(spans') = Len(spans) + 1
    BY <1>2, <2>2, AppendProperties
  <2>4. CorrelationTypeOK'
    BY <1>2, <1>5, <2>2, <2>3 DEF CorrelationTypeOK
  <2> QED BY <1>3, <1>4, <2>2, <2>4 DEF CorrelationInv
<1>7. CASE \E record \in Record : ReceiveLog(record)
  <2>1. PICK record \in Record : ReceiveLog(record)
    BY <1>7
  <2> DEFINE log == LogOf(record)
  <2>2. /\ Len(spans) + Len(logs) < MaxHeld
        /\ record.kind = "json" => Decodes(record.json)
        /\ logs' = Append(logs, log) /\ spans' = spans
    BY <2>1 DEF ReceiveLog
  <2>3. log \in Log /\ log.from = record
    BY <2>2, ParsedFrom
  <2> HIDE DEF log
  <2>4. /\ logs' \in Seq(Log) /\ Len(logs') = Len(logs) + 1
        /\ \A i \in 1 .. Len(logs) : logs'[i] = logs[i]
        /\ logs'[Len(logs) + 1] = log
    BY <1>2, <2>2, <2>3, AppendProperties
  <2>5. DOMAIN logs' = 1 .. Len(logs) + 1
    BY <2>4, LenProperties
  <2>6. CorrelationTypeOK'
    BY <1>2, <1>5, <2>2, <2>4 DEF CorrelationTypeOK
  <2>7. ASSUME NEW i \in DOMAIN logs'
        PROVE  /\ logs'[i] = LogOf(logs'[i].from)
               /\ logs'[i].from.kind = "json" => Decodes(logs'[i].from.json)
    <3>1. CASE i \in 1 .. Len(logs)
      BY <1>2, <2>4, <3>1 DEF CorrelationInv
    <3>2. CASE i = Len(logs) + 1
      BY <2>2, <2>3, <2>4, <3>2 DEF log
    <3> QED BY <1>2, <2>5, <3>1, <3>2
  <2> QED BY <1>3, <1>4, <2>6, <2>7 DEF CorrelationInv
<1> QED BY <1>6, <1>7

\* What an export leaves: pc and hs are cache and history after its spans.
LEMMA ExportResult ==
    ASSUME CorrelationInv, Export
    PROVE  LET pc == FoldLeft(Populate, cache, spans)
               hs == FoldLeft(NoteSpan, History, spans)
           IN  /\ pc \in Caches /\ hs \in Histories /\ Agree(pc, hs)
               /\ cache' \in Caches /\ History' \in Histories /\ Agree(cache', History')
               /\ latest' = hs.latest
               /\ sent' \in Seq(Log) /\ Len(sent') = Len(logs)
               /\ \A i \in 1 .. Len(logs) : IsCorrelated(sent'[i], logs[i], Keys(pc), latest')
<1> DEFINE pc == FoldLeft(Populate, cache, spans)
           hs == FoldLeft(NoteSpan, History, spans)
           done == FoldLeft(Correlate, [cache |-> pc, logs |-> <<>>], logs)
           h == FoldLeft(NoteLog, hs, logs)
<1>1. /\ cache \in Caches /\ History \in Histories /\ Agree(cache, History)
      /\ spans \in Seq(Span) /\ logs \in Seq(Log)
  BY CacheType, HistoryType DEF CorrelationInv, CorrelationTypeOK
<1>2. pc \in Caches /\ hs \in Histories /\ Agree(pc, hs)
  BY <1>1, SpansAgree
<1>3. cache' = done.cache /\ sent' = done.logs /\ latest' = h.latest /\ since' = h.since
  BY DEF Export
<1> HIDE DEF pc, hs
<1>4. /\ done \in Dones /\ h \in Histories
      /\ Agree(done.cache, h)
      /\ h.latest = hs.latest
      /\ Len(done.logs) = Len(logs)
      /\ \A i \in 1 .. Len(logs) : IsCorrelated(done.logs[i], logs[i], Keys(pc), hs.latest)
  BY <1>1, <1>2, LogsAgree
<1> HIDE DEF done, h
<1>5. History' = h
  BY <1>3, <1>4 DEF History, Histories
<1>6. cache' \in Caches /\ sent' \in Seq(Log)
  BY <1>3, <1>4 DEF Dones
<1>7. Agree(cache', History')
  BY <1>3, <1>4, <1>5
<1> QED BY <1>2, <1>3, <1>4, <1>5, <1>6, <1>7 DEF pc, hs

\* An export keeps the invariant.
LEMMA ExportStep ==
    ASSUME CorrelationInv, Export
    PROVE  CorrelationInv'
<1> DEFINE pc == FoldLeft(Populate, cache, spans)
           hs == FoldLeft(NoteSpan, History, spans)
<1>1. /\ pc \in Caches /\ hs \in Histories /\ Agree(pc, hs)
      /\ cache' \in Caches /\ History' \in Histories /\ Agree(cache', History')
      /\ latest' = hs.latest
      /\ sent' \in Seq(Log) /\ Len(sent') = Len(logs)
      /\ \A i \in 1 .. Len(logs) : IsCorrelated(sent'[i], logs[i], Keys(pc), latest')
  BY ExportResult
<1> HIDE DEF pc, hs
<1>2. spans' = <<>> /\ logs' = <<>>
  BY DEF Export
<1>3. CorrelationTypeOK'
  <2>1. /\ <<>> \in Seq(Span) /\ <<>> \in Seq(Log) /\ Len(<<>>) = 0 /\ MaxHeld \in Nat
    BY EmptySeq, CorrelationAssumption DEF CorrelationAssumption
  <2>2. /\ latest' \in [Key -> Context \cup {Absent}]
        /\ since' \in [Key -> SUBSET Key]
    BY <1>1 DEF History, Histories
  <2>3. /\ cache' \in Seq(Entry) /\ Len(cache') <= Capacity
        /\ IsInjective([i \in DOMAIN cache' |-> cache'[i].key])
    BY <1>1, CacheType
  <2> QED BY <1>1, <1>2, <2>1, <2>2, <2>3 DEF CorrelationTypeOK
<1>4. /\ DOMAIN sent' = 1 .. Len(logs) /\ DOMAIN logs = 1 .. Len(logs) /\ Len(logs) \in Nat
      /\ \A i \in 1 .. Len(logs) : logs[i] \in Log
  <2>1. logs \in Seq(Log)
    BY DEF CorrelationInv, CorrelationTypeOK
  <2> QED BY <1>1, <2>1, LenProperties, ElementOfSeq
<1>5. TracesAreOwn'
  <2> SUFFICES ASSUME NEW i \in 1 .. Len(logs)
               PROVE  LET id == Named(sent'[i].from) IN
                      \/ sent'[i].trace = Empty
                      \/ id \in Trace /\ sent'[i].trace = id
                      \/ id \in Word /\ sent'[i].trace = id
                      \/ /\ id \in RequestId
                         /\ latest'[id] # Absent
                         /\ sent'[i].trace = latest'[id].trace
    BY <1>4 DEF TracesAreOwn
  <2> DEFINE log == logs[i]
             id == Named(log.from)
  <2>1. log \in Log /\ log = LogOf(log.from) /\ (log.from.kind = "json" => Decodes(log.from.json))
    BY <1>4 DEF CorrelationInv
  <2>2. log.from \in Record
    BY <2>1 DEF Log
  <2>3. /\ id \in Trace \cup Word \cup RequestId \cup {Empty, Absent}
        /\ log.trace = Or(id, Empty)
    BY <2>1, <2>2, ParsedFrom
  <2>4. IsCorrelated(sent'[i], log, Keys(pc), latest')
    BY <1>1
  <2> HIDE DEF log, id
  <2>5. sent'[i].from = log.from
    BY <2>4 DEF IsCorrelated
  <2>6. CASE log.trace = Empty
    BY <2>4, <2>6 DEF IsCorrelated
  <2>7. CASE log.trace # Empty
    <3>1. log.trace = id /\ id \in Trace \cup Word \cup RequestId
      BY <2>3, <2>7 DEF Or
    <3>2. CASE id \in Trace \cup Word
      <4>1. sent'[i].trace = id
        BY <2>4, <3>1, <3>2 DEF IsCorrelated
      <4> QED BY <2>5, <3>2, <4>1 DEF id
    <3>3. CASE id \in RequestId /\ id \notin Keys(pc)
      <4>1. sent'[i].trace = Empty
        BY <2>4, <3>1, <3>3, RequestIdIsNoTrace DEF IsCorrelated
      <4> QED BY <4>1
    <3>4. CASE id \in RequestId /\ id \in Keys(pc)
      <4>1. sent'[i].trace = latest'[id].trace
        BY <2>4, <3>1, <3>4, RequestIdIsNoTrace DEF IsCorrelated
      <4>2. id \in Key
        BY <3>4 DEF Key
      <4>3. Remembered(hs, id)
        BY <1>1, <3>4, <4>2, RememberedIsCached
      <4>4. latest'[id] # Absent
        BY <1>1, <4>3 DEF Remembered
      <4> QED BY <2>5, <3>4, <4>1, <4>4 DEF id
    <3> QED BY <3>1, <3>2, <3>3, <3>4
  <2> QED BY <2>6, <2>7
<1>6. DOMAIN logs' = {}
  BY <1>2
<1> QED BY <1>1, <1>3, <1>5, <1>6 DEF CorrelationInv

\* The invariant is inductive.
LEMMA CorrelationStep ==
    ASSUME CorrelationInv, [Next]_vars
    PROVE  CorrelationInv'
<1>1. CASE \/ \E span \in Span : ReceiveSpan(span)
           \/ \E record \in Record : ReceiveLog(record)
  BY <1>1, ReceiveStep
<1>2. CASE Export
  BY <1>2, ExportStep
<1>3. CASE UNCHANGED vars
  <2>1. UNCHANGED <<spans, logs, cache, sent, latest, since>>
    BY <1>3 DEF vars
  <2>2. CorrelationTypeOK'
    BY <2>1 DEF CorrelationInv, CorrelationTypeOK
  <2>3. Agree(cache, History)'
    <3>1. UNCHANGED <<cache, latest, since>>
      BY <2>1
    <3>2. Agree(cache, History)
      BY DEF CorrelationInv
    <3> QED BY <3>1, <3>2, AgreementKept
  <2>4. TracesAreOwn'
    BY <2>1 DEF CorrelationInv, TracesAreOwn
  <2> QED BY <2>1, <2>2, <2>3, <2>4 DEF CorrelationInv
<1> QED BY <1>1, <1>2, <1>3 DEF Next

(***************************************************************************)
(* The inductive invariant: the cache agrees with the history of uses, so  *)
(* that a request finds itself in the cache exactly when it should.        *)
(***************************************************************************)
THEOREM CorrelationInvHolds == Spec => []CorrelationInv
<1> QED BY CorrelationInit, CorrelationStep, PTL DEF Spec

(***************************************************************************)
(* Type correctness; among it, the cache never exceeds its capacity and    *)
(* never holds a request twice.                                            *)
(***************************************************************************)
THEOREM CorrelationTypeCorrect == Spec => []CorrelationTypeOK
<1>1. CorrelationInv => CorrelationTypeOK
  BY DEF CorrelationInv
<1> QED BY <1>1, CorrelationInvHolds, PTL

(***************************************************************************)
(* Exports through the cache keep what an LRU cache promises: a request    *)
(* has its latest context while fewer than Capacity others were used since *)
(* its last use, and none afterwards.                                      *)
(***************************************************************************)
THEOREM CacheRemembers == Spec => []Remembers
<1>1. CorrelationInv => Remembers
  <2> SUFFICES ASSUME CorrelationInv, NEW r \in Key
               PROVE  LET i == Position(cache, r) IN
                      IF Remembered(History, r) THEN i # 0 /\ cache[i].context = latest[r]
                                                ELSE i = 0
    BY DEF Remembers
  <2> DEFINE i == Position(cache, r)
  <2>1. cache \in Caches /\ History \in Histories /\ Agree(cache, History)
    BY CacheType, HistoryType DEF CorrelationInv, CorrelationTypeOK
  <2>2. Remembered(History, r) <=> r \in Keys(cache)
    BY <2>1, RememberedIsCached
  <2>3. /\ r \in Keys(cache) => i \in 1 .. Len(cache) /\ cache[i].key = r
        /\ r \notin Keys(cache) => i = 0
    BY <2>1, PositionFacts
  <2> HIDE DEF i
  <2>4. i \in 1 .. Len(cache) => i # 0 /\ latest[cache[i].key] = cache[i].context
    <3>1. Len(cache) \in Nat
      BY <2>1, LenProperties DEF Caches
    <3> QED BY <2>1, <3>1 DEF Agree, History
  <2> QED BY <2>2, <2>3, <2>4 DEF i
<1> QED BY <1>1, CorrelationInvHolds, PTL

(***************************************************************************)
(* No log is exported with the trace of another invocation, or with what   *)
(* is left of a request ID, whatever the cache evicts.                     *)
(***************************************************************************)
THEOREM TracesAreTheirOwn == Spec => []TracesAreOwn
<1>1. CorrelationInv => TracesAreOwn
  BY DEF CorrelationInv
<1> QED BY <1>1, CorrelationInvHolds, PTL
-----------------------------------------------------------------------------
(***************************************************************************)
(* An export with spans of no more requests than the cache has room for.   *)
(***************************************************************************)

\* The first k spans of s that give request r its context.
SpansUpTo(s, k, r) == {i \in 1 .. k : IsMapping(s[i]) /\ Head(s[i].ids) = r}

TracedBy(s) == {r \in Key : SpansUpTo(s, Len(s), r) # {}}

\* h is the history after the first k of these spans.
IsLatest(h, s, k, r) ==
    \E i \in SpansUpTo(s, k, r) :
        /\ \A j \in SpansUpTo(s, k, r) : j <= i
        /\ h.latest[r] = ContextOf(s[i])
        /\ h.since[r] \subseteq TracedBy(s) \ {r}

\* One more span.
LEMMA NextSpan ==
    ASSUME NEW s \in Seq(Span), NEW k \in 1 .. Len(s), NEW h \in Histories,
           \A r \in Key : SpansUpTo(s, k - 1, r) # {} => IsLatest(h, s, k - 1, r),
           NEW r \in Key, SpansUpTo(s, k, r) # {}
    PROVE  IsLatest(NoteSpan(h, s[k]), s, k, r)
<1> DEFINE g == NoteSpan(h, s[k])
           key == Head(s[k].ids)
<1>1. /\ Len(s) \in Nat /\ k - 1 \in 0 .. Len(s)
      /\ \A i \in 1 .. k : i \in 1 .. k - 1 \/ i = k
  BY LenProperties
<1>2. CASE ~(IsMapping(s[k]) /\ key = r)
  <2>1. SpansUpTo(s, k, r) = SpansUpTo(s, k - 1, r)
    BY <1>1, <1>2 DEF SpansUpTo
  <2>2. PICK i \in SpansUpTo(s, k - 1, r) :
            /\ \A j \in SpansUpTo(s, k - 1, r) : j <= i
            /\ h.latest[r] = ContextOf(s[i])
            /\ h.since[r] \subseteq TracedBy(s) \ {r}
    BY <2>1 DEF IsLatest
  <2>3. g.latest[r] = h.latest[r] /\ g.since[r] \subseteq TracedBy(s) \ {r}
    <3>1. CASE IsMapping(s[k])
      <4>1. key \in Key /\ key # r
        BY <1>2, <3>1 DEF IsMapping
      <4>2. key \in TracedBy(s)
        BY <3>1, <4>1 DEF TracedBy, SpansUpTo
      <4>3. g.latest[r] = h.latest[r] /\ g.since[r] = h.since[r] \cup {key}
        BY <3>1, <4>1 DEF NoteSpan, Use, Histories
      <4> QED BY <2>2, <4>1, <4>2, <4>3
    <3>2. CASE ~IsMapping(s[k])
      <4>1. g = h
        BY <3>2 DEF NoteSpan
      <4> QED BY <2>2, <4>1
    <3> QED BY <3>1, <3>2
  <2> HIDE DEF g
  <2>4. IsLatest(g, s, k, r)
    BY <2>1, <2>2, <2>3 DEF IsLatest
  <2> QED BY <2>4 DEF g
<1>3. CASE IsMapping(s[k]) /\ key = r
  <2>1. k \in SpansUpTo(s, k, r) /\ \A j \in SpansUpTo(s, k, r) : j <= k
    BY <1>1, <1>3 DEF SpansUpTo
  <2>2. g.latest[r] = ContextOf(s[k]) /\ g.since[r] = {}
    BY <1>3 DEF NoteSpan, Use, Histories
  <2> HIDE DEF g
  <2>3. IsLatest(g, s, k, r)
    BY <2>1, <2>2 DEF IsLatest
  <2> QED BY <2>3 DEF g
<1> QED BY <1>2, <1>3

\* All of them: a request has the context of the last of its spans.
LEMMA LastSpanIsLatest ==
    ASSUME NEW h \in Histories, NEW s \in Seq(Span), NEW r \in TracedBy(s)
    PROVE  IsLatest(FoldLeft(NoteSpan, h, s), s, Len(s), r)
<1>1. PICK q : /\ q \in [0 .. Len(s) -> Histories]
               /\ q[0] = h
               /\ \A k \in 1 .. Len(s) : q[k] = NoteSpan(q[k - 1], s[k])
               /\ q[Len(s)] = FoldLeft(NoteSpan, h, s)
  BY NoteSpanRuns
<1> DEFINE Good(k) == \A p \in Key : SpansUpTo(s, k, p) # {} => IsLatest(q[k], s, k, p)
           P == {k \in 0 .. Len(s) : Good(k)}
<1>2. Len(s) \in Nat
  BY LenProperties
<1>3. ASSUME NEW k \in 1 .. Len(s), Good(k - 1)
      PROVE  Good(k)
  <2>1. q[k - 1] \in Histories /\ q[k] = NoteSpan(q[k - 1], s[k])
    BY <1>1, <1>2
  <2> QED BY <1>3, <2>1, NextSpan
<1>4. Good(0)
  BY DEF SpansUpTo
<1>5. 0 .. Len(s) \subseteq P
  <2>1. 0 \in P /\ \A k \in 1 .. Len(s) : k - 1 \in P => k \in P
    <3> HIDE DEF Good
    <3> QED BY <1>2, <1>3, <1>4
  <2> HIDE DEF P
  <2> QED BY <1>2, <2>1, IntervalInduction
<1>6. Good(Len(s))
  BY <1>2, <1>5
<1> QED BY <1>1, <1>6 DEF TracedBy

\* A request of these has not seen all of them, so the cache still has it.
LEMMA TracedIsRemembered ==
    ASSUME NEW h \in Histories, NEW s \in Seq(Span), NEW r \in TracedBy(s),
           Cardinality(TracedBy(s)) <= Capacity, IsLatest(h, s, Len(s), r)
    PROVE  Remembered(h, r)
<1>1. PICK i \in SpansUpTo(s, Len(s), r) :
          h.latest[r] = ContextOf(s[i]) /\ h.since[r] \subseteq TracedBy(s) \ {r}
  BY DEF IsLatest
<1>2. h.latest[r] # Absent
  BY <1>1, ContextIsThere DEF SpansUpTo, IsMapping, ContextOf, Context
<1>3. IsFiniteSet(TracedBy(s))
  <2>1. Len(s) \in Nat
    BY LenProperties
  <2> DEFINE I == 1 .. Len(s)
             heads == {Head(s[j].ids) : j \in I}
  <2>2. IsFiniteSet(I)
    BY <2>1, IntervalSize
  <2>3. TracedBy(s) \subseteq heads
    BY DEF TracedBy, SpansUpTo
  <2> HIDE DEF I
  <2>4. IsFiniteSet(heads)
    <3> DEFINE f == [j \in I |-> Head(s[j].ids)]
    <3>1. f \in Surjection(I, heads)
      BY DEF Surjection
    <3> HIDE DEF f, heads
    <3> QED BY <2>2, <3>1, FS_Surjection
  <2> HIDE DEF heads
  <2> QED BY <2>3, <2>4, FS_Subset
<1> DEFINE others == TracedBy(s) \ {r}
<1>4. /\ IsFiniteSet(others)
      /\ Cardinality(others) = Cardinality(TracedBy(s)) - 1
      /\ Cardinality(TracedBy(s)) \in Nat
  BY <1>3, FS_RemoveElement, FS_CardinalityType
<1> HIDE DEF others
<1>5. Cardinality(h.since[r]) <= Cardinality(others) /\ Cardinality(h.since[r]) \in Nat
  <2>1. h.since[r] \subseteq others
    BY <1>1 DEF others
  <2> QED BY <1>4, <2>1, FS_Subset, FS_CardinalityType
<1>6. Capacity \in Nat
  BY CorrelationAssumption DEF CorrelationAssumption
<1> QED BY <1>2, <1>4, <1>5, <1>6 DEF Remembered

\* The names of Correlation.tla for the spans in the buffer.
LEMMA SpansOfBuffer ==
    ASSUME CorrelationInv
    PROVE  /\ spans \in Seq(Span)
           /\ \A r : SpansOf(r) = SpansUpTo(spans, Len(spans), r)
           /\ RequestsTraced = TracedBy(spans)
<1>1. spans \in Seq(Span)
  BY DEF CorrelationInv, CorrelationTypeOK
<1>2. DOMAIN spans = 1 .. Len(spans)
  BY <1>1, LenProperties
<1>3. \A r : SpansOf(r) = SpansUpTo(spans, Len(spans), r)
  BY <1>2 DEF SpansOf, SpansUpTo
<1>4. RequestsTraced = TracedBy(spans)
  <2> HIDE DEF SpansOf, SpansUpTo
  <2> QED BY <1>3 DEF RequestsTraced, TracedBy
<1> QED BY <1>1, <1>3, <1>4

\* An export gives a log that names its request the last context of the request.
LEMMA ExportCorrelates ==
    ASSUME CorrelationInv, Export, Cardinality(RequestsTraced) <= Capacity,
           NEW i \in DOMAIN logs, NEW r, r = Named(logs[i].from),
           r \in RequestId \cap RequestsTraced
    PROVE  /\ Len(sent') = Len(logs)
           /\ sent'[i].trace = LastSpan(r).trace
           /\ LET said == Or(Said(logs[i].from).spanId, Empty) IN
              sent'[i].span = IF said = Empty THEN LastSpan(r).span ELSE said
<1> DEFINE pc == FoldLeft(Populate, cache, spans)
           hs == FoldLeft(NoteSpan, History, spans)
           log == logs[i]
           record == log.from
<1>1. /\ spans \in Seq(Span)
      /\ SpansOf(r) = SpansUpTo(spans, Len(spans), r)
      /\ RequestsTraced = TracedBy(spans)
  BY SpansOfBuffer
<1>2. /\ pc \in Caches /\ hs \in Histories /\ Agree(pc, hs)
      /\ latest' = hs.latest
      /\ Len(sent') = Len(logs)
      /\ \A j \in 1 .. Len(logs) : IsCorrelated(sent'[j], logs[j], Keys(pc), latest')
  BY ExportResult
<1>3. History \in Histories
  BY HistoryType DEF CorrelationInv, CorrelationTypeOK
<1>4. i \in 1 .. Len(logs) /\ log \in Log
  <2>1. logs \in Seq(Log)
    BY DEF CorrelationInv, CorrelationTypeOK
  <2>2. DOMAIN logs = 1 .. Len(logs)
    BY <2>1, LenProperties
  <2> QED BY <2>1, <2>2, ElementOfSeq
<1>5. log = LogOf(record) /\ record \in Record /\ (record.kind = "json" => Decodes(record.json))
  BY <1>4 DEF CorrelationInv, Log
<1>6. r \in Key
  BY DEF RequestsTraced
<1>7. log.trace = r /\ log.span = Or(Said(record).spanId, Empty)
  <2>1. LogOf(record).trace = Or(r, Empty) /\ LogOf(record).span = Or(Said(record).spanId, Empty)
    BY <1>5, ParsedFrom
  <2>2. r # Absent
    BY CorrelationAssumption DEF CorrelationAssumption
  <2> HIDE DEF log
  <2> QED BY <1>5, <2>1, <2>2 DEF Or
<1>8. IsLatest(hs, spans, Len(spans), r)
  BY <1>1, <1>3, LastSpanIsLatest
<1> HIDE DEF hs, pc
<1>9. r \in Keys(pc)
  <2>1. Remembered(hs, r)
    BY <1>1, <1>2, <1>8, TracedIsRemembered
  <2> QED BY <1>2, <1>6, <2>1, RememberedIsCached
<1>10. latest'[r] = ContextOf(LastSpan(r))
  <2> DEFINE I == SpansUpTo(spans, Len(spans), r)
  <2>1. PICK k \in I : (\A j \in I : j <= k) /\ hs.latest[r] = ContextOf(spans[k])
    BY <1>8 DEF IsLatest
  <2>2. IsFiniteSet(I) /\ I \in SUBSET Int
    <3>1. Len(spans) \in Nat
      BY <1>1, LenProperties
    <3>2. IsFiniteSet(1 .. Len(spans)) /\ I \subseteq 1 .. Len(spans) /\ I \in SUBSET Int
      BY <3>1, IntervalSize DEF SpansUpTo
    <3> HIDE DEF I
    <3> QED BY <3>2, FS_Subset
  <2> HIDE DEF I
  <2>3. Max(I) \in I /\ \A j \in I : Max(I) >= j
    BY <2>1, <2>2, MaxMin
  <2>4. Max(I) = k
    <3>1. k \in Int /\ Max(I) \in Int /\ Max(I) <= k /\ Max(I) >= k
      BY <2>1, <2>2, <2>3
    <3> QED BY <3>1
  <2> QED BY <1>1, <1>2, <2>1, <2>4 DEF LastSpan, I
<1>11. IsCorrelated(sent'[i], log, Keys(pc), latest')
  BY <1>2, <1>4
<1> HIDE DEF log
<1>12. /\ sent'[i].trace = LastSpan(r).trace
       /\ sent'[i].span = IF log.span = Empty THEN LastSpan(r).span ELSE log.span
  <2>1. log.trace \notin Trace \cup Word \cup {Empty}
    BY <1>7, RequestIdIsNoTrace
  <2>2. /\ sent'[i].trace = latest'[r].trace
        /\ sent'[i].span = IF log.span = Empty THEN latest'[r].span ELSE log.span
    BY <1>7, <1>9, <1>11, <2>1 DEF IsCorrelated
  <2> QED BY <1>10, <2>2 DEF ContextOf
<1> QED BY <1>2, <1>7, <1>12 DEF log

(***************************************************************************)
(* One export that holds a log and spans of its request correlates them,   *)
(* with the last of the spans, in whatever order they arrived, unless its  *)
(* spans are of more requests than the cache has room for.                 *)
(***************************************************************************)
THEOREM OneExportCorrelates == Spec => SameExportCorrelates
<1> DEFINE Correlates ==
               logs # <<>> /\ logs' = <<>> /\ Cardinality(RequestsTraced) <= Capacity =>
                   \A i \in DOMAIN logs :
                       LET r == Named(logs[i].from)
                           said == Or(Said(logs[i].from).spanId, Empty)
                       IN  r \in RequestId \cap RequestsTraced =>
                               /\ Len(sent') = Len(logs)
                               /\ sent'[i].trace = LastSpan(r).trace
                               /\ sent'[i].span = IF said = Empty THEN LastSpan(r).span ELSE said
<1>1. ASSUME CorrelationInv, [Next]_vars
      PROVE  [Correlates]_vars
  <2>1. CASE Export
    <3>1. Correlates
      BY <1>1, <2>1, ExportCorrelates
    <3> QED BY <3>1
  <2>2. CASE \/ \E span \in Span : ReceiveSpan(span)
             \/ \E record \in Record : ReceiveLog(record)
    <3>1. logs \in Seq(Log)
      BY <1>1 DEF CorrelationInv, CorrelationTypeOK
    <3>2. logs' = logs \/ \E log : logs' = Append(logs, log)
      BY <2>2 DEF ReceiveSpan, ReceiveLog
    <3>3. \A log : Append(logs, log) # <<>>
      BY <3>1, LenProperties
    <3> QED BY <3>2, <3>3
  <2>3. CASE UNCHANGED vars
    BY <2>3
  <2> HIDE DEF Correlates
  <2> QED BY <1>1, <2>1, <2>2, <2>3 DEF Next
<1> QED BY <1>1, CorrelationInvHolds, PTL DEF Spec, SameExportCorrelates
=============================================================================
