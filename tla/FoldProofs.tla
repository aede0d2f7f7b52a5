----------------------------- MODULE FoldProofs -----------------------------
(***************************************************************************)
(* Folds over finite sets.  The community modules define MapThenFoldSet    *)
(* and what is built from it by a function that is recursive on the        *)
(* subsets of a set.  The lemmas below show that this function exists,     *)
(* and what a sum computes, by induction on the subsets of a finite set:   *)
(* each induction is the choice of a least counterexample (WFMin).         *)
(***************************************************************************)
EXTENDS FiniteSetsExt, FiniteSetTheorems, TLAPS

\* A set of subsets that each subset joins when its own subsets are in it.
LEMMA SubsetInduction ==
    ASSUME NEW S, IsFiniteSet(S), NEW P,
           \A T \in SUBSET S : (\A U \in (SUBSET T) \ {T} : U \in P) => T \in P
    PROVE  SUBSET S \subseteq P
<1> DEFINE B == (SUBSET S) \ P
<1> SUFFICES ASSUME B # {} PROVE FALSE
  OBVIOUS
<1>1. IsWellFoundedOn(StrictSubsetOrdering(S), SUBSET S)
  <2>1. IsWellFoundedOn(StrictSubsetOrdering(S), FiniteSubsetsOf(S))
    BY FS_StrictSubsetOrderingWellFounded
  <2>2. FiniteSubsetsOf(S) = SUBSET S
    BY FS_FiniteSubsetsOfFinite
  <2> QED BY <2>1, <2>2
<1>2. B \subseteq SUBSET S
  OBVIOUS
<1>3. PICK T \in B : \A U \in B : <<U, T>> \notin StrictSubsetOrdering(S)
  <2> HIDE DEF B
  <2> QED BY <1>1, <1>2, WFMin
<1>4. \A U \in (SUBSET T) \ {T} : U \in P
  BY <1>3 DEF StrictSubsetOrdering
<1> QED BY <1>3, <1>4
-----------------------------------------------------------------------------
(***************************************************************************)
(* g is, on the subsets of T, the fold that takes away the element ch      *)
(* chooses and combines it by F with the fold of the rest.                 *)
(***************************************************************************)
IsFold(g, T, base, F, ch) ==
    \A s \in SUBSET T : g[s] = IF s = {} THEN base ELSE F[<<ch[s], g[s \ {ch[s]}]>>]

Chooses(ch, S) == \A s \in SUBSET S : s # {} => ch[s] \in s

\* A fold is the only one.
LEMMA FoldUnique ==
    ASSUME NEW S, IsFiniteSet(S), NEW base, NEW F, NEW ch, Chooses(ch, S),
           NEW T \in SUBSET S, NEW U \in SUBSET S, NEW g, NEW h,
           IsFold(g, T, base, F, ch), IsFold(h, U, base, F, ch)
    PROVE  \A s \in SUBSET (T \cap U) : g[s] = h[s]
<1> DEFINE P == {s \in SUBSET S : s \subseteq T /\ s \subseteq U => g[s] = h[s]}
<1>1. ASSUME NEW s \in SUBSET S, \A r \in (SUBSET s) \ {s} : r \in P,
             s \subseteq T, s \subseteq U
      PROVE  g[s] = h[s]
  <2>1. CASE s = {}
    BY <1>1, <2>1 DEF IsFold
  <2>2. CASE s # {}
    <3> DEFINE r == s \ {ch[s]}
    <3>1. ch[s] \in s
      BY <2>2 DEF Chooses
    <3>2. r \in (SUBSET s) \ {s} /\ r \subseteq T /\ r \subseteq U
      BY <1>1, <3>1
    <3>3. g[r] = h[r]
      BY <1>1, <3>2
    <3>4. g[s] = F[<<ch[s], g[r]>>] /\ h[s] = F[<<ch[s], h[r]>>]
      BY <1>1, <2>2 DEF IsFold
    <3> QED BY <3>3, <3>4
  <2> QED BY <2>1, <2>2
<1>2. \A s \in SUBSET S : (\A r \in (SUBSET s) \ {s} : r \in P) => s \in P
  BY <1>1
<1> HIDE DEF P
<1>3. SUBSET S \subseteq P
  BY <1>2, SubsetInduction
<1> QED BY <1>3 DEF P

\* There is one.
LEMMA FoldExists ==
    ASSUME NEW S, IsFiniteSet(S), NEW D, NEW base \in D, NEW F \in [S \X D -> D],
           NEW ch, Chooses(ch, S)
    PROVE  \E g \in [SUBSET S -> D] : IsFold(g, S, base, F, ch)
<1> DEFINE HasFold(T) == \E g \in [SUBSET T -> D] : IsFold(g, T, base, F, ch)
           P == {T \in SUBSET S : HasFold(T)}
           FoldOf(T) == CHOOSE g \in [SUBSET T -> D] : IsFold(g, T, base, F, ch)
<1>1. ASSUME NEW T \in SUBSET S, \A U \in (SUBSET T) \ {T} : U \in P
      PROVE  HasFold(T)
  <2>1. \A U \in (SUBSET T) \ {T} : FoldOf(U) \in [SUBSET U -> D]
                                    /\ IsFold(FoldOf(U), U, base, F, ch)
    BY <1>1
  <2> HIDE DEF FoldOf
  <2> DEFINE rest(s) == s \ {ch[s]}
             value(s) == IF s = {} THEN base ELSE F[<<ch[s], FoldOf(rest(s))[rest(s)]>>]
             g == [s \in SUBSET T |-> value(s)]
  <2>2. \A s \in SUBSET T : s # {} => ch[s] \in s /\ rest(s) \in (SUBSET T) \ {T}
                                      /\ rest(s) \in SUBSET s
    BY DEF Chooses
  <2>3. \A s \in SUBSET T : value(s) \in D
    <3> SUFFICES ASSUME NEW s \in SUBSET T, s # {} PROVE value(s) \in D
      OBVIOUS
    <3> DEFINE r == rest(s)
    <3>1. r \in (SUBSET T) \ {T} /\ ch[s] \in S
      BY <2>2
    <3>2. FoldOf(r) \in [SUBSET r -> D]
      BY <2>1, <3>1
    <3> HIDE DEF r
    <3>3. FoldOf(r)[r] \in D
      BY <3>2
    <3> USE DEF r
    <3> HIDE DEF rest
    <3> QED BY <3>1, <3>3
  <2>4. \A s \in (SUBSET T) \ {T} : FoldOf(s)[s] = value(s)
    <3> SUFFICES ASSUME NEW s \in (SUBSET T) \ {T}, s # {}
                 PROVE  FoldOf(s)[s] = value(s)
      BY <2>1 DEF IsFold
    <3>1. FoldOf(s)[s] = F[<<ch[s], FoldOf(s)[rest(s)]>>]
      BY <2>1 DEF IsFold
    <3>2. FoldOf(s)[rest(s)] = FoldOf(rest(s))[rest(s)]
      <4> DEFINE r == rest(s)
      <4>1. r \in (SUBSET T) \ {T} /\ r \in SUBSET s
        BY <2>2
      <4>2. r \in SUBSET S /\ s \in SUBSET S /\ r \in SUBSET (s \cap r)
        BY <4>1
      <4>3. IsFold(FoldOf(s), s, base, F, ch) /\ IsFold(FoldOf(r), r, base, F, ch)
        BY <2>1, <4>1
      <4> HIDE DEF r
      <4>4. \A q \in SUBSET (s \cap r) : FoldOf(s)[q] = FoldOf(r)[q]
        BY <4>2, <4>3, FoldUnique
      <4>5. FoldOf(s)[r] = FoldOf(r)[r]
        BY <4>2, <4>4
      <4> QED BY <4>5 DEF r
    <3> QED BY <3>1, <3>2
  <2>5. IsFold(g, T, base, F, ch)
    <3> SUFFICES ASSUME NEW s \in SUBSET T
                 PROVE  g[s] = IF s = {} THEN base ELSE F[<<ch[s], g[s \ {ch[s]}]>>]
      BY DEF IsFold
    <3>1. CASE s = {}
      BY <3>1
    <3>2. CASE s # {}
      <4>1. rest(s) \in SUBSET T /\ FoldOf(rest(s))[rest(s)] = value(rest(s))
        BY <2>2, <2>4, <3>2
      <4>2. g[rest(s)] = value(rest(s))
        BY <4>1
      <4>3. g[s] = F[<<ch[s], FoldOf(rest(s))[rest(s)]>>]
        BY <3>2
      <4> QED BY <3>2, <4>1, <4>2, <4>3
    <3> QED BY <3>1, <3>2
  <2>6. g \in [SUBSET T -> D]
    BY <2>3
  <2> QED BY <2>5, <2>6
<1> HIDE DEF HasFold
<1>2. \A T \in SUBSET S : (\A U \in (SUBSET T) \ {T} : U \in P) => T \in P
  BY <1>1
<1>3. SUBSET S \subseteq P
  <2> HIDE DEF P
  <2> QED BY <1>2, SubsetInduction
<1>4. HasFold(S)
  BY <1>3
<1> QED BY <1>4 DEF HasFold
-----------------------------------------------------------------------------
(***************************************************************************)
(* Sums                                                                    *)
(***************************************************************************)

Total(w, S) == MapThenSumSet(LAMBDA i : w[i], S)

SomeOf(s) == CHOOSE x \in s : TRUE

SumsUp(g, w, S) ==
    /\ g \in [SUBSET S -> Nat]
    /\ \A s \in SUBSET S : g[s] = IF s = {} THEN 0 ELSE w[SomeOf(s)] + g[s \ {SomeOf(s)}]

\* The function behind a sum takes one element after the other.
LEMMA TotalIsFold ==
    ASSUME NEW S, IsFiniteSet(S), NEW w, \A x \in S : w[x] \in Nat
    PROVE  \E g : SumsUp(g, w, S) /\ g[S] = Total(w, S)
<1> DEFINE F == [p \in S \X Nat |-> w[p[1]] + p[2]]
           ch == [s \in SUBSET S |-> SomeOf(s)]
           body(g, s) == IF s = {} THEN 0 ELSE LET x == CHOOSE x \in s : TRUE
                                               IN  w[x] + g[s \ {x}]
           iter == CHOOSE g : g = [s \in SUBSET S |-> body(g, s)]
<1>1. Total(w, S) = iter[S]
  BY DEF Total, MapThenSumSet, MapThenFoldSet
<1>2. \A s \in SUBSET S : s # {} => ch[s] \in s /\ ch[s] = SomeOf(s)
  BY DEF SomeOf
<1>3. F \in [S \X Nat -> Nat] /\ \A x \in S, n \in Nat : F[<<x, n>>] = w[x] + n
  OBVIOUS
<1>4. PICK h \in [SUBSET S -> Nat] : IsFold(h, S, 0, F, ch)
  <2>1. Chooses(ch, S)
    BY <1>2 DEF Chooses
  <2> HIDE DEF F, ch
  <2> QED BY <1>3, <2>1, FoldExists
<1>5. \A s \in SUBSET S : h[s] = body(h, s)
  <2> SUFFICES ASSUME NEW s \in SUBSET S PROVE h[s] = body(h, s)
    OBVIOUS
  <2>1. h[s] = IF s = {} THEN 0 ELSE F[<<ch[s], h[s \ {ch[s]}]>>]
    BY <1>4 DEF IsFold
  <2>2. CASE s # {}
    <3>1. ch[s] \in S /\ s \ {ch[s]} \in SUBSET S
      BY <1>2, <2>2
    <3>2. F[<<ch[s], h[s \ {ch[s]}]>>] = w[ch[s]] + h[s \ {ch[s]}]
      BY <1>3, <3>1
    <3> QED BY <1>2, <2>1, <2>2, <3>2 DEF SomeOf
  <2> QED BY <2>1, <2>2
<1>6. h = [s \in SUBSET S |-> body(h, s)]
  <2> HIDE DEF body
  <2> QED BY <1>5
<1>7. iter = [s \in SUBSET S |-> body(iter, s)]
  <2> HIDE DEF body
  <2> QED BY <1>6
<1> HIDE DEF iter
<1>8. SUBSET S \subseteq {s \in SUBSET S : iter[s] = h[s]}
  <2> DEFINE P == {s \in SUBSET S : iter[s] = h[s]}
  <2>1. ASSUME NEW s \in SUBSET S, \A r \in (SUBSET s) \ {s} : r \in P
        PROVE  s \in P
    <3>1. iter[s] = body(iter, s)
      BY <1>7
    <3>2. CASE s # {}
      <4>1. SomeOf(s) \in s
        BY <3>2 DEF SomeOf
      <4>2. iter[s \ {SomeOf(s)}] = h[s \ {SomeOf(s)}]
        BY <2>1, <4>1
      <4> QED BY <1>5, <3>1, <3>2, <4>2 DEF SomeOf
    <3> QED BY <1>5, <3>1, <3>2
  <2> HIDE DEF P
  <2>2. \A s \in SUBSET S : (\A r \in (SUBSET s) \ {s} : r \in P) => s \in P
    BY <2>1
  <2>3. SUBSET S \subseteq P
    BY <2>2, SubsetInduction
  <2> QED BY <2>3 DEF P
<1>9. h[S] = Total(w, S)
  BY <1>1, <1>8
<1> QED BY <1>5, <1>9 DEF SomeOf, SumsUp

\* The same function gives the sum over every subset.
LEMMA TotalOfSubsets ==
    ASSUME NEW S, IsFiniteSet(S), NEW w, \A x \in S : w[x] \in Nat
    PROVE  \A T \in SUBSET S :
              /\ Total(w, T) \in Nat
              /\ T = {} => Total(w, T) = 0
              /\ T # {} => /\ SomeOf(T) \in T
                           /\ Total(w, T) = w[SomeOf(T)] + Total(w, T \ {SomeOf(T)})
<1>1. PICK g : SumsUp(g, w, S)
  BY TotalIsFold
<1>2. ASSUME NEW T \in SUBSET S
      PROVE  g[T] = Total(w, T)
  <2>1. IsFiniteSet(T) /\ \A x \in T : w[x] \in Nat
    BY FS_Subset
  <2>2. PICK h : SumsUp(h, w, T) /\ h[T] = Total(w, T)
    BY <2>1, TotalIsFold
  <2> DEFINE P == {s \in SUBSET T : g[s] = h[s]}
  <2>3. ASSUME NEW s \in SUBSET T, \A r \in (SUBSET s) \ {s} : r \in P
        PROVE  s \in P
    <3>1. CASE s # {}
      <4>1. SomeOf(s) \in s
        BY <3>1 DEF SomeOf
      <4>2. g[s \ {SomeOf(s)}] = h[s \ {SomeOf(s)}]
        BY <2>3, <4>1
      <4> QED BY <1>1, <2>2, <3>1, <4>2 DEF SumsUp
    <3> QED BY <1>1, <2>2, <3>1 DEF SumsUp
  <2>4. \A s \in SUBSET T : (\A r \in (SUBSET s) \ {s} : r \in P) => s \in P
    BY <2>3
  <2>5. SUBSET T \subseteq P
    <3> HIDE DEF P
    <3> QED BY <2>1, <2>4, SubsetInduction
  <2> QED BY <2>2, <2>5
<1>3. \A T \in SUBSET S : T # {} => SomeOf(T) \in T
  BY DEF SomeOf
<1> QED BY <1>1, <1>2, <1>3 DEF SumsUp

LEMMA TotalEmpty == ASSUME NEW w PROVE Total(w, {}) = 0
BY FS_EmptySet, TotalOfSubsets

\* Whatever element is taken away first, the sum is the same.
LEMMA TotalRemove ==
    ASSUME NEW S, IsFiniteSet(S), NEW w, \A x \in S : w[x] \in Nat
    PROVE  \A x \in S : Total(w, S) = w[x] + Total(w, S \ {x})
<1> DEFINE P == {T \in SUBSET S : \A x \in T : Total(w, T) = w[x] + Total(w, T \ {x})}
<1>0. \A T \in SUBSET S :
          /\ Total(w, T) \in Nat
          /\ T = {} => Total(w, T) = 0
          /\ T # {} => /\ SomeOf(T) \in T
                       /\ Total(w, T) = w[SomeOf(T)] + Total(w, T \ {SomeOf(T)})
  BY TotalOfSubsets
<1>1. ASSUME NEW T \in SUBSET S, \A U \in (SUBSET T) \ {T} : U \in P, NEW x \in T
      PROVE  Total(w, T) = w[x] + Total(w, T \ {x})
  <2> DEFINE c == SomeOf(T)
  <2>1. c \in T /\ Total(w, T) = w[c] + Total(w, T \ {c})
    BY <1>0
  <2>2. CASE c = x
    BY <2>1, <2>2
  <2>3. CASE c # x
    <3> HIDE DEF c
    <3>1. T \ {c} \in P /\ T \ {x} \in P /\ x \in T \ {c} /\ c \in T \ {x}
      BY <1>1, <2>1, <2>3
    <3>2. Total(w, T \ {c}) = w[x] + Total(w, (T \ {c}) \ {x})
      BY <3>1
    <3>3. Total(w, T \ {x}) = w[c] + Total(w, (T \ {x}) \ {c})
      BY <3>1
    <3>4. (T \ {c}) \ {x} = (T \ {x}) \ {c}
      OBVIOUS
    <3>5. Total(w, (T \ {x}) \ {c}) \in Nat /\ w[c] \in Nat /\ w[x] \in Nat
      BY <1>0, <2>1
    <3>6. Total(w, T) = w[c] + (w[x] + Total(w, (T \ {x}) \ {c}))
      BY <2>1, <3>2, <3>4 DEF c
    <3>7. \A a, b, n \in Nat : a + (b + n) = b + (a + n)
      OBVIOUS
    <3> QED BY <3>3, <3>5, <3>6, <3>7
  <2> QED BY <2>2, <2>3
<1>2. SUBSET S \subseteq P
  <2>1. \A T \in SUBSET S : (\A U \in (SUBSET T) \ {T} : U \in P) => T \in P
    BY <1>1
  <2> HIDE DEF P
  <2> QED BY <2>1, SubsetInduction
<1> QED BY <1>2

\* The sum grows by the element that is added.
LEMMA TotalAdd ==
    ASSUME NEW S, IsFiniteSet(S), NEW x, x \notin S, NEW w, \A y \in S \cup {x} : w[y] \in Nat
    PROVE  Total(w, S \cup {x}) = Total(w, S) + w[x]
<1>1. IsFiniteSet(S \cup {x})
  BY FS_AddElement
<1>2. Total(w, S \cup {x}) = w[x] + Total(w, (S \cup {x}) \ {x})
  BY <1>1, TotalRemove
<1>3. (S \cup {x}) \ {x} = S
  OBVIOUS
<1>4. Total(w, S) \in Nat /\ w[x] \in Nat
  BY TotalOfSubsets
<1>5. \A a, b \in Nat : a + b = b + a
  OBVIOUS
<1> QED BY <1>2, <1>3, <1>4, <1>5
-----------------------------------------------------------------------------
(***************************************************************************)
(* Folds over sequences take the greatest index first.                     *)
(***************************************************************************)

\* A finite set of numbers has a greatest element and a least one.
LEMMA MaxMin ==
    ASSUME NEW S \in SUBSET Int, IsFiniteSet(S), S # {}
    PROVE  /\ Max(S) \in S /\ \A y \in S : Max(S) >= y
           /\ Min(S) \in S /\ \A y \in S : Min(S) <= y
<1> DEFINE HasMax(T) == \E m \in T : \A y \in T : m >= y
           HasMin(T) == \E m \in T : \A y \in T : m <= y
           P == {T \in SUBSET S : T # {} => HasMax(T) /\ HasMin(T)}
<1>1. ASSUME NEW T \in SUBSET S, \A U \in (SUBSET T) \ {T} : U \in P, T # {}
      PROVE  HasMax(T) /\ HasMin(T)
  <2>1. PICK x \in T : TRUE
    BY <1>1
  <2>2. T \ {x} \in P
    BY <1>1, <2>1
  <2>3. CASE T = {x}
    BY <2>3
  <2>4. CASE T # {x}
    <3>1. PICK m \in T \ {x} : \A y \in T \ {x} : m >= y
      BY <2>1, <2>2, <2>4
    <3>2. PICK k \in T \ {x} : \A y \in T \ {x} : k <= y
      BY <2>1, <2>2, <2>4
    <3>3. HasMax(T)
      <4>1. CASE m >= x
        BY <3>1, <4>1
      <4>2. CASE x >= m
        BY <2>1, <3>1, <4>2
      <4> QED BY <2>1, <3>1, <4>1, <4>2
    <3>4. HasMin(T)
      <4>1. CASE k <= x
        BY <3>2, <4>1
      <4>2. CASE x <= k
        BY <2>1, <3>2, <4>2
      <4> QED BY <2>1, <3>2, <4>1, <4>2
    <3> QED BY <3>3, <3>4
  <2> QED BY <2>3, <2>4
<1>2. \A T \in SUBSET S : (\A U \in (SUBSET T) \ {T} : U \in P) => T \in P
  <2> HIDE DEF HasMax, HasMin
  <2> QED BY <1>1
<1>3. S \in P
  <2> HIDE DEF P
  <2> QED BY <1>2, SubsetInduction
<1> QED BY <1>3 DEF Max, Min

\* Induction on the numbers up to n.
LEMMA IntervalInduction ==
    ASSUME NEW n \in Nat, NEW P, 0 \in P, \A k \in 1 .. n : k - 1 \in P => k \in P
    PROVE  0 .. n \subseteq P
<1> DEFINE B == (0 .. n) \ P
<1> SUFFICES ASSUME B # {} PROVE FALSE
  OBVIOUS
<1>1. IsFiniteSet(B) /\ B \in SUBSET Int
  <2>1. IsFiniteSet(0 .. n)
    BY FS_Interval
  <2>2. B \in SUBSET (0 .. n) /\ B \in SUBSET Int
    OBVIOUS
  <2> HIDE DEF B
  <2> QED BY <2>1, <2>2, FS_Subset
<1>2. Min(B) \in B /\ \A y \in B : Min(B) <= y
  <2> HIDE DEF B
  <2> QED BY <1>1, MaxMin
<1> QED BY <1>2

\* Two folds that take the same step agree.
LEMMA FoldsAgree ==
    ASSUME NEW S, IsFiniteSet(S), NEW ch, NEW g, NEW h, Chooses(ch, S), g[{}] = h[{}],
           \A s \in SUBSET S :
               s # {} /\ g[s \ {ch[s]}] = h[s \ {ch[s]}] => g[s] = h[s]
    PROVE  g[S] = h[S]
<1> DEFINE P == {s \in SUBSET S : g[s] = h[s]}
<1>1. ASSUME NEW s \in SUBSET S, \A r \in (SUBSET s) \ {s} : r \in P
      PROVE  s \in P
  <2>1. CASE s # {}
    <3>1. ch[s] \in s
      BY <2>1 DEF Chooses
    <3>2. s \ {ch[s]} \in P
      BY <1>1, <3>1
    <3> QED BY <2>1, <3>2
  <2> QED BY <2>1
<1>2. \A s \in SUBSET S : (\A r \in (SUBSET s) \ {s} : r \in P) => s \in P
  BY <1>1
<1>3. SUBSET S \subseteq P
  <2> HIDE DEF P
  <2> QED BY <1>2, SubsetInduction
<1> QED BY <1>3

Greatest(n) == [s \in SUBSET (1 .. n) |-> Max(s)]

\* Max chooses an element of every set of indices.
LEMMA GreatestChooses ==
    ASSUME NEW n \in Nat
    PROVE  /\ IsFiniteSet(1 .. n)
           /\ Chooses(Greatest(n), 1 .. n)
           /\ \A k \in 1 .. n : Greatest(n)[1 .. k] = k
<1>1. IsFiniteSet(1 .. n)
  BY FS_Interval
<1>2. ASSUME NEW s \in SUBSET (1 .. n), s # {}
      PROVE  Max(s) \in s /\ \A y \in s : Max(s) >= y
  <2>1. s \in SUBSET Int
    OBVIOUS
  <2>2. IsFiniteSet(s)
    BY <1>1, FS_Subset
  <2> QED BY <1>2, <2>1, <2>2, MaxMin
<1>3. ASSUME NEW k \in 1 .. n
      PROVE  Max(1 .. k) = k
  <2> DEFINE s == 1 .. k
  <2>1. s \in SUBSET (1 .. n) /\ s # {} /\ k \in s
    OBVIOUS
  <2> HIDE DEF s
  <2>2. Max(s) \in s /\ Max(s) >= k
    BY <1>2, <2>1
  <2> QED BY <2>2 DEF s
<1>4. \A k \in 1 .. n : 1 .. k \in SUBSET (1 .. n)
  OBVIOUS
<1> QED BY <1>1, <1>2, <1>3, <1>4 DEF Greatest, Chooses

(***************************************************************************)
(* A fold over the indices up to n, and its values r after each index.     *)
(***************************************************************************)
IsRun(r, n, D, base, F) ==
    /\ r \in [0 .. n -> D]
    /\ r[0] = base
    /\ \A k \in 1 .. n : r[k] = F[<<k, r[k - 1]>>]

Folds(g, n, D, base, F) ==
    /\ g \in [SUBSET (1 .. n) -> D]
    /\ IsFold(g, 1 .. n, base, F, Greatest(n))
    /\ \E r : IsRun(r, n, D, base, F) /\ r[n] = g[1 .. n]

\* Every step function has such a fold and a run.
LEMMA RunExists ==
    ASSUME NEW n \in Nat, NEW D, NEW base \in D, NEW F \in [(1 .. n) \X D -> D]
    PROVE  \E g : Folds(g, n, D, base, F)
<1> DEFINE S == 1 .. n
           ch == Greatest(n)
<1>1. IsFiniteSet(S) /\ Chooses(ch, S)
  BY GreatestChooses
<1>2. PICK g \in [SUBSET S -> D] : IsFold(g, S, base, F, ch)
  <2>1. F \in [S \X D -> D]
    OBVIOUS
  <2> HIDE DEF S, ch
  <2> QED BY <1>1, <2>1, FoldExists
<1> DEFINE r == [k \in 0 .. n |-> g[1 .. k]]
<1>3. \A k \in 0 .. n : 1 .. k \in SUBSET S
  OBVIOUS
<1>4. r \in [0 .. n -> D] /\ r[0] = base
  <2>1. 1 .. 0 = {} /\ 0 \in 0 .. n
    OBVIOUS
  <2>2. g[{}] = base
    BY <1>2 DEF IsFold
  <2>3. \A k \in 0 .. n : g[1 .. k] \in D
    BY <1>2, <1>3
  <2> QED BY <2>1, <2>2, <2>3
<1>5. ASSUME NEW k \in 1 .. n
      PROVE  r[k] = F[<<k, r[k - 1]>>]
  <2>1. 1 .. k # {} /\ (1 .. k) \ {k} = 1 .. (k - 1) /\ k - 1 \in 0 .. n
    OBVIOUS
  <2>2. ch[1 .. k] = k
    BY GreatestChooses
  <2>3. g[1 .. k] = F[<<ch[1 .. k], g[(1 .. k) \ {ch[1 .. k]}]>>]
    BY <1>2, <1>3, <2>1 DEF IsFold
  <2>4. r[k] = g[1 .. k] /\ r[k - 1] = g[1 .. (k - 1)]
    BY <2>1
  <2> HIDE DEF r, ch
  <2> QED BY <2>1, <2>2, <2>3, <2>4
<1>6. r[n] = g[1 .. n]
  OBVIOUS
<1> HIDE DEF r
<1>7. IsRun(r, n, D, base, F)
  BY <1>4, <1>5 DEF IsRun
<1> QED BY <1>2, <1>6, <1>7 DEF Folds

\* What such a fold does at a set of indices.
Unfolds(g, n, D, base, F) ==
    /\ g[{}] = base
    /\ \A t \in SUBSET (1 .. n) : t # {} =>
          /\ Max(t) \in 1 .. n
          /\ g[t \ {Max(t)}] \in D
          /\ g[t] = F[<<Max(t), g[t \ {Max(t)}]>>]

\* A fold over indices takes the step of the greatest one last.
LEMMA FoldUnfolds ==
    ASSUME NEW n \in Nat, NEW D, NEW base, NEW F, NEW g, Folds(g, n, D, base, F)
    PROVE  Unfolds(g, n, D, base, F)
<1> DEFINE S == 1 .. n
           ch == Greatest(n)
<1>1. g \in [SUBSET S -> D] /\ IsFold(g, S, base, F, ch)
  BY DEF Folds
<1>2. Chooses(ch, S) /\ \A t \in SUBSET S : ch[t] = Max(t)
  <2>1. Chooses(ch, S)
    BY GreatestChooses
  <2> QED BY <2>1 DEF Greatest
<1> HIDE DEF S, ch
<1>3. g[{}] = base
  BY <1>1 DEF IsFold
<1>4. ASSUME NEW t \in SUBSET S, t # {}
      PROVE  /\ Max(t) \in S
             /\ g[t \ {Max(t)}] \in D
             /\ g[t] = F[<<Max(t), g[t \ {Max(t)}]>>]
  <2>1. ch[t] \in t /\ ch[t] \in S /\ t \ {ch[t]} \in SUBSET S
    BY <1>2, <1>4 DEF Chooses
  <2>2. g[t] = F[<<ch[t], g[t \ {ch[t]}]>>] /\ g[t \ {ch[t]}] \in D
    BY <1>1, <1>4, <2>1 DEF IsFold
  <2> QED BY <1>2, <2>1, <2>2
<1> QED BY <1>3, <1>4 DEF S, Unfolds

\* What does the same at every set of indices ends where the run does.
TakesSteps(iter, n, D, base, F) ==
    /\ iter[{}] = base
    /\ \A t \in SUBSET (1 .. n) :
          t # {} /\ iter[t \ {Max(t)}] \in D => iter[t] = F[<<Max(t), iter[t \ {Max(t)}]>>]

\* MapThenFoldSet over indices, iter, ends where a run does.
LEMMA FoldIsRun ==
    ASSUME NEW n \in Nat, NEW D, NEW base, NEW F, NEW g, Folds(g, n, D, base, F),
           NEW iter, TakesSteps(iter, n, D, base, F)
    PROVE  \E r : IsRun(r, n, D, base, F) /\ r[n] = iter[1 .. n]
<1> DEFINE S == 1 .. n
           ch == Greatest(n)
<1>1. IsFiniteSet(S) /\ Chooses(ch, S) /\ \A t \in SUBSET S : ch[t] = Max(t)
  <2>1. IsFiniteSet(S) /\ Chooses(ch, S)
    BY GreatestChooses
  <2> QED BY <2>1 DEF Greatest
<1>2. Unfolds(g, n, D, base, F)
  BY FoldUnfolds
<1>3. g[{}] = iter[{}]
  BY <1>2 DEF Unfolds, TakesSteps
<1>4. ASSUME NEW t \in SUBSET S, t # {}, g[t \ {ch[t]}] = iter[t \ {ch[t]}]
      PROVE  g[t] = iter[t]
  <2>1. g[t \ {Max(t)}] \in D /\ g[t] = F[<<Max(t), g[t \ {Max(t)}]>>]
    BY <1>2, <1>4 DEF Unfolds
  <2>2. iter[t \ {Max(t)}] \in D => iter[t] = F[<<Max(t), iter[t \ {Max(t)}]>>]
    BY <1>4 DEF TakesSteps
  <2>3. ch[t] = Max(t)
    BY <1>1
  <2> QED BY <1>4, <2>1, <2>2, <2>3
<1>5. g[S] = iter[S]
  <2> HIDE DEF S, ch
  <2> QED BY <1>1, <1>3, <1>4, FoldsAgree
<1> QED BY <1>5 DEF Folds
=============================================================================
