---------------------------- MODULE Lists_proofs ----------------------------
(***************************************************************************)
(* Lists and texts: what taking elements out of a list keeps, what the     *)
(* folds of the community modules compute over a text, and where the       *)
(* elements of texts are that are taken together or apart.                 *)
(***************************************************************************)
EXTENDS Lists, SequencesExt, SequenceTheorems, FiniteSetTheorems,
        WellFoundedInduction, TLAPS

Elements(list) == {list[i] : i \in DOMAIN list}

(* rest has the elements of list that are not gone, in the order of list.  *)
Survivors(list, gone, rest) ==
  /\ Elements(rest) = Elements(list) \ gone
  /\ \A i, j \in DOMAIN rest : i < j =>
       \E p, q \in DOMAIN list : p < q /\ list[p] = rest[i] /\ list[q] = rest[j]

(* A list without some of its ids has the other ids, in the same order.    *)
LEMMA WithoutKeepsOrder ==
  ASSUME NEW S, NEW list \in Seq(S), NEW gone, NEW rest, Without(list, gone, rest)
  PROVE  rest \in Seq(S \ gone) /\ Survivors(list, gone, rest)
<1> DEFINE kept == {i \in DOMAIN list : list[i] \notin gone}
<1>1. Cardinality(kept) \in Nat
  <2>1. IsFiniteSet(1 .. Len(list))
    BY FS_Interval
  <2>2. kept \subseteq 1 .. Len(list)
    OBVIOUS
  <2> QED
    BY <2>1, <2>2, FS_Subset, FS_CardinalityType
<1>2. PICK position \in [1 .. Cardinality(kept) -> kept] :
        /\ \A i, j \in DOMAIN position : i < j => position[i] < position[j]
        /\ \A k \in kept : \E i \in DOMAIN position : position[i] = k
        /\ rest = [i \in DOMAIN position |-> list[position[i]]]
  BY DEF Without
<1> HIDE DEF kept
<1>3. DOMAIN rest = 1 .. Cardinality(kept)
  BY <1>2
<1>4. \A i \in DOMAIN rest : position[i] \in kept /\ rest[i] = list[position[i]]
  BY <1>2, <1>3
<1>5. rest \in Seq(S \ gone)
  <2>1. \A k \in kept : list[k] \in S \ gone
    BY DEF kept
  <2>2. \A i \in DOMAIN rest : rest[i] \in S \ gone
    BY <1>4, <2>1
  <2> QED
    BY <1>1, <1>2, <1>3, <2>2
<1>6. Elements(rest) = Elements(list) \ gone
  <2>1. Elements(rest) \subseteq Elements(list) \ gone
    BY <1>4 DEF Elements, kept
  <2>2. ASSUME NEW k \in DOMAIN list, list[k] \notin gone
        PROVE  list[k] \in Elements(rest)
    BY <1>2, <1>3, <1>4, <2>2 DEF Elements, kept
  <2> QED
    BY <2>1, <2>2 DEF Elements
<1>7. ASSUME NEW i \in DOMAIN rest, NEW j \in DOMAIN rest, i < j
      PROVE  \E p, q \in DOMAIN list :
               p < q /\ list[p] = rest[i] /\ list[q] = rest[j]
  BY <1>2, <1>3, <1>4, <1>7 DEF kept
<1> QED
  BY <1>5, <1>6, <1>7 DEF Survivors

(* A list from which elements are taken is not longer than it was.         *)
LEMMA WithoutShrinks ==
  ASSUME NEW S, NEW list \in Seq(S), NEW gone, NEW rest, Without(list, gone, rest)
  PROVE  Len(rest) <= Len(list)
<1> DEFINE kept == {i \in DOMAIN list : list[i] \notin gone}
<1>1. Cardinality(kept) \in Nat /\ Cardinality(kept) <= Len(list)
  <2>1. IsFiniteSet(1 .. Len(list)) /\ Cardinality(1 .. Len(list)) = Len(list)
    <3>1. Len(list) \in Nat
      OBVIOUS
    <3> HIDE DEF kept
    <3> QED
      BY <3>1, FS_Interval, SMTT(30)
  <2>2. kept \subseteq 1 .. Len(list)
    OBVIOUS
  <2> QED
    BY <2>1, <2>2, FS_Subset, FS_CardinalityType
<1>2. \E position \in [1 .. Cardinality(kept) -> kept] :
        rest = [i \in DOMAIN position |-> list[position[i]]]
  BY DEF Without
<1> HIDE DEF kept
<1>3. Len(rest) = Cardinality(kept)
  BY <1>1, <1>2
<1> QED
  BY <1>1, <1>3

(* Sets of numbers have a smallest element.                                *)
LEMMA SmallestOf ==
  ASSUME NEW T \in SUBSET Nat, T # {}
  PROVE  \E x \in T : \A y \in T : x <= y
<1> DEFINE R == {ss \in Nat \X Nat : ss[1] < ss[2]}
<1>1. IsWellFoundedOn(R, Nat)
  BY NatLessThanWellFounded, Zenon DEF OpToRel
<1> HIDE DEF R
<1>2. PICK x \in T : \A y \in T : <<y, x>> \notin R
  BY <1>1, WFMin
<1>3. ASSUME NEW y \in T PROVE x <= y
  <2>1. x \in Nat /\ y \in Nat /\ <<y, x>> \notin R
    BY <1>2
  <2>2. y < x => <<y, x>> \in R
    BY <2>1 DEF R
  <2> QED
    BY <2>1, <2>2
<1> QED
  BY <1>3

(* There is one way to enumerate a set of positions in increasing order.   *)
LEMMA OneIncreasingEnumeration ==
  ASSUME NEW K \in SUBSET Nat, NEW n \in Nat,
         NEW f \in [1 .. n -> K], NEW g \in [1 .. n -> K],
         \A i, j \in 1 .. n : i < j => f[i] < f[j],
         \A i, j \in 1 .. n : i < j => g[i] < g[j],
         \A k \in K : \E i \in 1 .. n : f[i] = k,
         \A k \in K : \E i \in 1 .. n : g[i] = k
  PROVE  f = g
<1> DEFINE T == {i \in 1 .. n : f[i] # g[i]}
<1>0. \A i \in 1 .. n : f[i] \in K /\ f[i] \in Nat /\ g[i] \in K /\ g[i] \in Nat
  OBVIOUS
<1>1. ASSUME T # {} PROVE FALSE
  <2>1. PICK m \in T : \A y \in T : m <= y
    <3>1. T \in SUBSET Nat
      OBVIOUS
    <3> HIDE DEF T
    <3> QED
      BY <1>1, <3>1, SmallestOf
  <2>2. \A j \in 1 .. n : j < m => f[j] = g[j]
    BY <2>1
  <2>3. m \in 1 .. n /\ f[m] # g[m]
    BY <2>1
  <2> HIDE DEF T
  <2>4. CASE f[m] < g[m]
    <3>1. PICK j \in 1 .. n : g[j] = f[m]
      BY <1>0, <2>3
    <3>2. ~(m < j) /\ m # j
      <4>1. m < j => g[m] < g[j]
        BY <2>3
      <4>2. m \in 1 .. n /\ f[m] \in Nat /\ g[m] \in Nat
        BY <1>0, <2>3
      <4> QED
        BY <2>4, <3>1, <4>1, <4>2
    <3>3. j < m /\ f[j] = g[j]
      BY <2>2, <2>3, <3>2
    <3>4. f[j] < f[m] /\ g[j] < g[m] /\ f[m] \in Nat /\ g[m] \in Nat
      BY <1>0, <2>3, <3>3
    <3> QED
      BY <3>1, <3>3, <3>4
  <2>5. CASE g[m] < f[m]
    <3>1. PICK j \in 1 .. n : f[j] = g[m]
      BY <1>0, <2>3
    <3>2. ~(m < j) /\ m # j
      <4>1. m < j => f[m] < f[j]
        BY <2>3
      <4>2. m \in 1 .. n /\ f[m] \in Nat /\ g[m] \in Nat
        BY <1>0, <2>3
      <4> QED
        BY <2>5, <3>1, <4>1, <4>2
    <3>3. j < m /\ f[j] = g[j]
      BY <2>2, <2>3, <3>2
    <3>4. f[j] < f[m] /\ g[j] < g[m] /\ f[m] \in Nat /\ g[m] \in Nat
      BY <1>0, <2>3, <3>3
    <3> QED
      BY <3>1, <3>3, <3>4
  <2> QED
    BY <1>0, <2>3, <2>4, <2>5
<1> QED
  BY <1>1

(* What is left of a list is determined by the list and what is gone, so   *)
(* two lists that are equal stay equal when both lose the same ids.        *)
LEMMA WithoutIsUnique ==
  ASSUME NEW S, NEW list \in Seq(S), NEW gone, NEW a, NEW b,
         Without(list, gone, a), Without(list, gone, b)
  PROVE  a = b
<1> DEFINE kept == {i \in DOMAIN list : list[i] \notin gone}
<1>1. kept \in SUBSET Nat /\ Cardinality(kept) \in Nat
  <2>1. IsFiniteSet(1 .. Len(list))
    BY FS_Interval
  <2>2. kept \subseteq 1 .. Len(list)
    OBVIOUS
  <2> QED
    BY <2>1, <2>2, FS_Subset, FS_CardinalityType
<1>2. PICK f \in [1 .. Cardinality(kept) -> kept] :
        /\ \A i, j \in DOMAIN f : i < j => f[i] < f[j]
        /\ \A k \in kept : \E i \in DOMAIN f : f[i] = k
        /\ a = [i \in DOMAIN f |-> list[f[i]]]
  BY DEF Without
<1>3. PICK g \in [1 .. Cardinality(kept) -> kept] :
        /\ \A i, j \in DOMAIN g : i < j => g[i] < g[j]
        /\ \A k \in kept : \E i \in DOMAIN g : g[i] = k
        /\ b = [i \in DOMAIN g |-> list[g[i]]]
  BY DEF Without
<1> HIDE DEF kept
<1>4. f = g
  <2>1. DOMAIN f = 1 .. Cardinality(kept) /\ DOMAIN g = 1 .. Cardinality(kept)
    OBVIOUS
  <2> DEFINE n == Cardinality(kept)
  <2>2. n \in Nat /\ f \in [1 .. n -> kept] /\ g \in [1 .. n -> kept]
    BY <1>1
  <2>3. /\ \A i, j \in 1 .. n : i < j => f[i] < f[j]
        /\ \A i, j \in 1 .. n : i < j => g[i] < g[j]
        /\ \A k \in kept : \E i \in 1 .. n : f[i] = k
        /\ \A k \in kept : \E i \in 1 .. n : g[i] = k
    BY <1>2, <1>3, <2>1
  <2> HIDE DEF n
  <2> QED
    BY <1>1, <2>2, <2>3, OneIncreasingEnumeration
<1> QED
  BY <1>2, <1>3, <1>4

-----------------------------------------------------------------------------
(* Folds.  A reader takes a state and an element to a state; what its fold *)
(* computes over a text is said by the states it passes, one after each    *)
(* element.  Induction over a text is then one over numbers.               *)

(* Max, where the numbers are bounded.                                     *)
LEMMA HasMax ==
  ASSUME NEW n \in Nat, NEW T \in SUBSET (1 .. n), T # {}
  PROVE  Max(T) \in T /\ \A y \in T : y <= Max(T)
<1> DEFINE D == {n - x : x \in T}
<1>1. D \in SUBSET Nat /\ D # {}
  <2>1. \A x \in T : n - x \in Nat
    OBVIOUS
  <2> QED
    BY <2>1
<1> HIDE DEF D
<1>2. PICK d \in D : \A e \in D : d <= e
  BY <1>1, SmallestOf
<1> USE DEF D
<1>3. PICK x \in T : d = n - x
  BY <1>2
<1>4. \A y \in T : n - x <= n - y
  BY <1>2, <1>3
<1>5. \A y \in T : x >= y
  BY <1>4
<1> QED
  BY <1>5 DEF Max

(* Max of a set of which one number is known to be the greatest.           *)
LEMMA MaxIs ==
  ASSUME NEW n \in Nat, NEW T \in SUBSET (1 .. n), NEW m \in T, \A y \in T : y <= m
  PROVE  Max(T) = m
<1>1. T # {}
  OBVIOUS
<1>2. Max(T) \in T /\ \A y \in T : y <= Max(T)
  BY <1>1, HasMax
<1>3. \A x \in T : x \in Nat
  OBVIOUS
<1>4. Max(T) <= m /\ m <= Max(T) /\ m \in Nat /\ Max(T) \in Nat
  BY <1>2, <1>3
<1> QED
  BY <1>4

(* Max of places of a text is one of them.                                 *)
LEMMA MaxOfPlaces ==
  ASSUME NEW C, NEW text \in Seq(C), NEW T \in SUBSET DOMAIN text, T # {}
  PROVE  Max(T) \in DOMAIN text /\ text[Max(T)] \in C /\ T \ {Max(T)} \in SUBSET DOMAIN text
<1>1. Len(text) \in Nat /\ T \in SUBSET (1 .. Len(text)) /\ DOMAIN text = 1 .. Len(text)
  OBVIOUS
<1>2. Max(T) \in T
  BY <1>1, HasMax
<1> QED
  BY <1>1, <1>2

LEMMA MaxOfPrefix ==
  ASSUME NEW k \in Nat \ {0}
  PROVE  Max(1 .. k) = k /\ 1 .. k # {} /\ (1 .. k) \ {k} = 1 .. k - 1
<1>1. k \in 1 .. k /\ 1 .. k \in SUBSET (1 .. k) /\ \A y \in 1 .. k : y <= k
  OBVIOUS
<1>2. Max(1 .. k) = k
  BY <1>1, MaxIs
<1>3. \A y : y \in 1 .. k - 1 <=> y \in 1 .. k /\ y # k
  OBVIOUS
<1> QED
  BY <1>1, <1>2, <1>3

(* What a fold computes of the characters at some of the places of a text. *)
Folds(F, s0, text, h) ==
  \A T \in SUBSET DOMAIN text :
    h[T] = IF T = {} THEN s0 ELSE F[<<h[T \ {Max(T)}], text[Max(T)]>>]

(* A reader takes a state and a character to its next state.               *)
Reader(F, St, C) == F \in [St \X C -> St]

(* The function a fold over a set of places is the choice of, which        *)
(* FoldLeft is defined by: it exists, built up over the number of the      *)
(* places.                                                                 *)
LEMMA FoldExists ==
  ASSUME NEW St, NEW C, NEW F, Reader(F, St, C), NEW s0 \in St, NEW text \in Seq(C)
  PROVE  \E h \in [SUBSET DOMAIN text -> St] : Folds(F, s0, text, h)
<1> DEFINE n == Len(text)
           Upto(k, h) == \A T \in SUBSET (1 .. k) :
                           h[T] = IF T = {} THEN s0 ELSE F[<<h[T \ {Max(T)}], text[Max(T)]>>]
           Bad == {k \in 0 .. n : ~ \E h \in [SUBSET (1 .. k) -> St] : Upto(k, h)}
<1>1. n \in Nat /\ DOMAIN text = 1 .. n /\ \A i \in 1 .. n : text[i] \in C
  OBVIOUS
<1> USE DEF Reader
<1>2. ASSUME Bad # {} PROVE FALSE
  <2>0. Bad \in SUBSET Nat
    BY <1>1
  <2> HIDE DEF Bad
  <2>1. PICK k \in Bad : \A j \in Bad : k <= j
    BY <1>2, <2>0, SmallestOf
  <2> USE DEF Bad
  <2>2. k # 0
    <3>1. [T \in {{}} |-> s0] \in [SUBSET (1 .. 0) -> St]
      <4>1. SUBSET (1 .. 0) = {{}}
        OBVIOUS
      <4> QED
        BY <4>1
    <3>2. Upto(0, [T \in {{}} |-> s0])
      OBVIOUS
    <3> QED
      BY <3>1, <3>2
  <2>3. k - 1 \in 0 .. n /\ k - 1 \notin Bad /\ k \in 1 .. n
    <3>1. k \in 0 .. n
      BY DEF Bad
    <3>2. k - 1 \in 0 .. n /\ k \in 1 .. n /\ ~(k <= k - 1)
      BY <1>1, <2>2, <3>1
    <3> HIDE DEF Bad
    <3> QED
      BY <2>1, <3>2
  <2>4. PICK h \in [SUBSET (1 .. k - 1) -> St] : Upto(k - 1, h)
    BY <2>3
  <2> DEFINE g == [T \in SUBSET (1 .. k) |-> IF k \in T THEN F[<<h[T \ {k}], text[k]>>] ELSE h[T]]
  <2>5. \A T \in SUBSET (1 .. k) : T \ {k} \in SUBSET (1 .. k - 1) /\ (k \notin T => T \in SUBSET (1 .. k - 1))
    BY <2>3
  <2>6. g \in [SUBSET (1 .. k) -> St]
    <3>1. ASSUME NEW T \in SUBSET (1 .. k)
          PROVE  (IF k \in T THEN F[<<h[T \ {k}], text[k]>>] ELSE h[T]) \in St
      BY <1>1, <2>3, <2>4, <2>5
    <3> QED
      BY <3>1
  <2>7. ASSUME NEW T \in SUBSET (1 .. k), T # {}
        PROVE  g[T] = F[<<g[T \ {Max(T)}], text[Max(T)]>>]
    <3>1. CASE k \in T
      <4>1. k \in Nat /\ \A y \in T : y <= k
        BY <2>3
      <4>3. Max(T) = k
        BY <3>1, <4>1, MaxIs
      <4>2. g[T \ {k}] = h[T \ {k}]
        BY <2>5
      <4> QED
        BY <3>1, <4>2, <4>3
    <3>2. CASE k \notin T
      <4>0. k - 1 \in Nat /\ T \in SUBSET (1 .. k - 1)
        BY <2>3, <2>5, <3>2
      <4>1. T \in SUBSET (1 .. k - 1) /\ Max(T) \in T
        BY <2>7, <4>0, HasMax
      <4>2. g[T] = h[T] /\ g[T \ {Max(T)}] = h[T \ {Max(T)}]
        BY <3>2
      <4> QED
        BY <2>4, <2>7, <4>1, <4>2
    <3> QED
      BY <3>1, <3>2
  <2>8. g[{}] = s0
    <3>1. {} \in SUBSET (1 .. k) /\ {} \in SUBSET (1 .. k - 1)
      OBVIOUS
    <3> QED
      BY <2>4, <3>1
  <2>9. Upto(k, g)
    BY <2>7, <2>8
  <2> QED
    BY <2>1, <2>6, <2>9
<1>3. n \notin Bad
  BY <1>2
<1>4. PICK h \in [SUBSET (1 .. n) -> St] : Upto(n, h)
  <2>1. n \in 0 .. n
    BY <1>1
  <2> QED
    BY <1>3, <2>1
<1> QED
  BY <1>1, <1>4 DEF Folds

(* A reader at work: its states before, between and after the characters.  *)
IsTrace(F, s0, text, g) ==
  g[0] = s0 /\ \A i \in DOMAIN text : g[i] = F[<<g[i - 1], text[i]>>]

(* A fold over all places of a text comes out at the last of the states a  *)
(* reader passes, however the fold chooses its places.                     *)
LEMMA FoldsTrace ==
  ASSUME NEW C, NEW F, NEW s0, NEW text \in Seq(C),
         NEW h, Folds(F, s0, text, h), NEW g, IsTrace(F, s0, text, g)
  PROVE  h[DOMAIN text] = g[Len(text)]
<1> DEFINE n == Len(text)
           Bad == {k \in 0 .. n : h[1 .. k] # g[k]}
<1>1. n \in Nat /\ DOMAIN text = 1 .. n
  OBVIOUS
<1>2. ASSUME Bad # {} PROVE FALSE
  <2>0. Bad \in SUBSET Nat
    BY <1>1
  <2> HIDE DEF Bad
  <2>1. PICK k \in Bad : \A j \in Bad : k <= j
    BY <1>2, <2>0, SmallestOf
  <2> USE DEF Bad
  <2>2. k # 0
    <3>1. 1 .. 0 = {} /\ {} \in SUBSET (1 .. n)
      OBVIOUS
    <3> QED
      BY <1>1, <3>1 DEF Folds, IsTrace
  <2>3. k \in 1 .. n /\ k - 1 \in 0 .. n /\ k - 1 \notin Bad
    <3>1. k \in 0 .. n
      BY DEF Bad
    <3>2. k - 1 \in 0 .. n /\ k \in 1 .. n /\ ~(k <= k - 1)
      BY <1>1, <2>2, <3>1
    <3> HIDE DEF Bad
    <3> QED
      BY <2>1, <3>2
  <2>4. h[1 .. k - 1] = g[k - 1]
    BY <2>3
  <2>5. 1 .. k \in SUBSET (1 .. n) /\ k \in Nat \ {0}
    BY <2>3
  <2>6. Max(1 .. k) = k /\ 1 .. k # {} /\ (1 .. k) \ {k} = 1 .. k - 1
    BY <2>5, MaxOfPrefix
  <2>7. h[1 .. k] = F[<<h[1 .. k - 1], text[k]>>]
    BY <1>1, <2>5, <2>6 DEF Folds
  <2>8. g[k] = F[<<g[k - 1], text[k]>>]
    BY <1>1, <2>3 DEF IsTrace
  <2> QED
    BY <2>1, <2>4, <2>7, <2>8
<1> QED
  BY <1>1, <1>2

(* A reader passes a state after each element.                             *)
LEMMA TraceExists ==
  ASSUME NEW St, NEW C, NEW F, Reader(F, St, C), NEW s0 \in St, NEW text \in Seq(C)
  PROVE  \E g \in [0 .. Len(text) -> St] : IsTrace(F, s0, text, g)
<1>1. PICK h \in [SUBSET DOMAIN text -> St] : Folds(F, s0, text, h)
  BY FoldExists
<1> DEFINE n == Len(text)
           g == [k \in 0 .. n |-> h[1 .. k]]
<1>2. n \in Nat /\ DOMAIN text = 1 .. n
  OBVIOUS
<1>3. \A k \in 0 .. n : 1 .. k \in SUBSET (1 .. n)
  BY <1>2
<1>4. g \in [0 .. n -> St]
  BY <1>1, <1>2, <1>3
<1>5. g[0] = s0
  <2>1. 1 .. 0 = {} /\ 0 \in 0 .. n
    BY <1>2
  <2> QED
    BY <1>1, <1>2, <1>3, <2>1 DEF Folds
<1>6. ASSUME NEW k \in 1 .. n PROVE g[k] = F[<<g[k - 1], text[k]>>]
  <2>1. 1 .. k \in SUBSET (1 .. n) /\ k \in Nat \ {0} /\ k \in 0 .. n /\ k - 1 \in 0 .. n
    BY <1>2
  <2>2. Max(1 .. k) = k /\ 1 .. k # {} /\ (1 .. k) \ {k} = 1 .. k - 1
    BY <2>1, MaxOfPrefix
  <2> QED
    BY <1>1, <1>2, <2>1, <2>2 DEF Folds
<1>7. IsTrace(F, s0, text, g)
  BY <1>2, <1>5, <1>6 DEF IsTrace
<1> QED
  BY <1>4, <1>7

(* A run of the reader F over a text from the state s0: the fold FoldLeft, *)
(* with the step given as a function.                                      *)
Run(F, s0, text) == FoldLeft(LAMBDA s, c : F[<<s, c>>], s0, text)

(* What a run is, by what FoldLeft is defined by.                          *)
FoldOf(F, s0, text, h) == Folds(F, s0, text, h) /\ Run(F, s0, text) = h[DOMAIN text]

LEMMA RunFolds ==
  ASSUME NEW St, NEW C, NEW F, Reader(F, St, C), NEW s0 \in St, NEW text \in Seq(C)
  PROVE  \E h : FoldOf(F, s0, text, h)
<1> DEFINE Eq(h) == h = [T \in SUBSET DOMAIN text |->
                           IF T = {} THEN s0 ELSE F[<<h[T \ {Max(T)}], text[Max(T)]>>]]
<1>1. PICK h \in [SUBSET DOMAIN text -> St] : Folds(F, s0, text, h)
  BY FoldExists
<1>2. Eq(h)
  BY <1>1 DEF Folds
<1>3. Eq(CHOOSE f : Eq(f))
  BY <1>2
<1>4. Run(F, s0, text) = (CHOOSE f : Eq(f))[DOMAIN text]
  BY DEF Run, FoldLeft, MapThenFoldSet
<1> HIDE DEF Eq
<1>5. PICK f : Eq(f) /\ Run(F, s0, text) = f[DOMAIN text]
  BY <1>3, <1>4
<1>6. Folds(F, s0, text, f)
  BY <1>5 DEF Eq, Folds
<1> QED
  BY <1>5, <1>6 DEF FoldOf

(* A reader comes to the end of its trace.                                 *)
LEMMA RunTrace ==
  ASSUME NEW St, NEW C, NEW F, Reader(F, St, C), NEW s0 \in St, NEW text \in Seq(C),
         NEW g, IsTrace(F, s0, text, g)
  PROVE  Run(F, s0, text) = g[Len(text)]
<1>1. PICK h : FoldOf(F, s0, text, h)
  BY RunFolds
<1>2. h[DOMAIN text] = g[Len(text)]
  BY <1>1, FoldsTrace DEF FoldOf
<1> QED
  BY <1>1, <1>2 DEF FoldOf

(* A run ends in a state of the reader; over nothing it ends where it      *)
(* starts; over two texts, one after the other, the second goes on where   *)
(* the first ends.                                                         *)
LEMMA RunType ==
  ASSUME NEW St, NEW C, NEW F, Reader(F, St, C), NEW s0 \in St, NEW text \in Seq(C)
  PROVE  Run(F, s0, text) \in St
<1>1. PICK g \in [0 .. Len(text) -> St] : IsTrace(F, s0, text, g)
  BY TraceExists
<1> QED
  BY <1>1, RunTrace

LEMMA RunEmpty ==
  ASSUME NEW St, NEW C, NEW F, Reader(F, St, C), NEW s0 \in St
  PROVE  Run(F, s0, <<>>) = s0
<1>1. <<>> \in Seq(C) /\ Len(<<>>) = 0
  OBVIOUS
<1>2. PICK g \in [0 .. Len(<<>>) -> St] : IsTrace(F, s0, <<>>, g)
  BY <1>1, TraceExists
<1>3. Run(F, s0, <<>>) = g[Len(<<>>)]
  BY <1>1, <1>2, RunTrace
<1> QED
  BY <1>1, <1>2, <1>3 DEF IsTrace

LEMMA RunConcat ==
  ASSUME NEW St, NEW C, NEW F, Reader(F, St, C), NEW s0 \in St,
         NEW t \in Seq(C), NEW u \in Seq(C)
  PROVE  Run(F, s0, t \o u) = Run(F, Run(F, s0, t), u)
<1>1. PICK g \in [0 .. Len(t) -> St] : IsTrace(F, s0, t, g)
  BY TraceExists
<1>2. Run(F, s0, t) = g[Len(t)] /\ g[Len(t)] \in St
  BY <1>1, RunTrace
<1>3. PICK k \in [0 .. Len(u) -> St] : IsTrace(F, g[Len(t)], u, k)
  BY <1>2, TraceExists
<1>4. Run(F, g[Len(t)], u) = k[Len(u)]
  BY <1>2, <1>3, RunTrace
<1> DEFINE m == Len(t)
           n == Len(u)
           j == [i \in 0 .. m + n |-> IF i <= m THEN g[i] ELSE k[i - m]]
<1>5. m \in Nat /\ n \in Nat /\ DOMAIN t = 1 .. m /\ DOMAIN u = 1 .. n
      /\ t \o u \in Seq(C) /\ Len(t \o u) = m + n /\ DOMAIN (t \o u) = 1 .. m + n
  OBVIOUS
<1>6. j[0] = s0
  BY <1>1, <1>5 DEF IsTrace
<1>7. ASSUME NEW i \in 1 .. m + n PROVE j[i] = F[<<j[i - 1], (t \o u)[i]>>]
  <2>1. CASE i <= m
    <3>1. i \in DOMAIN t /\ (t \o u)[i] = t[i]
      BY <1>5, <2>1
    <3>2. g[i] = F[<<g[i - 1], t[i]>>]
      BY <1>1, <3>1 DEF IsTrace
    <3>3. i \in 0 .. m + n /\ i - 1 \in 0 .. m + n /\ i - 1 <= m
      BY <1>5, <2>1
    <3>4. j[i] = g[i] /\ j[i - 1] = g[i - 1]
      BY <2>1, <3>3
    <3> QED
      BY <3>1, <3>2, <3>4
  <2>2. CASE i > m
    <3>1. i - m \in 1 .. n /\ (t \o u)[i] = u[i - m] /\ j[i] = k[i - m]
      BY <1>5, <2>2
    <3>2. j[i - 1] = k[(i - m) - 1]
      <4>1. i - 1 \in 0 .. m + n /\ (i - 1 <= m => i - 1 = m) /\ (i - 1) - m = (i - m) - 1
        BY <1>5, <2>2
      <4>2. CASE i - 1 = m
        <5>1. (i - m) - 1 = 0 /\ k[0] = g[m]
          BY <1>3, <1>5, <4>2 DEF IsTrace
        <5> QED
          BY <4>1, <4>2, <5>1
      <4>3. CASE i - 1 > m
        BY <1>5, <4>1, <4>3
      <4> QED
        BY <1>5, <4>1, <4>2, <4>3
    <3> QED
      BY <1>3, <1>5, <3>1, <3>2 DEF IsTrace
  <2>3. i <= m \/ i > m
    BY <1>5
  <2> QED
    BY <2>1, <2>2, <2>3
<1> HIDE DEF j
<1>8. IsTrace(F, s0, t \o u, j)
  BY <1>5, <1>6, <1>7 DEF IsTrace
<1>9. j[m + n] = k[n]
  <2>1. m + n \in 0 .. m + n /\ (m + n <= m <=> n = 0) /\ (m + n) - m = n /\ m + 0 = m
    BY <1>5
  <2>2. k[0] = g[m]
    BY <1>3 DEF IsTrace
  <2>3. CASE n = 0
    BY <2>1, <2>2, <2>3 DEF j
  <2>4. CASE n # 0
    BY <2>1, <2>4 DEF j
  <2> QED
    BY <2>3, <2>4
<1> QED
  BY <1>2, <1>4, <1>5, <1>8, <1>9, RunTrace, SMTT(30)

LEMMA RunOne ==
  ASSUME NEW St, NEW C, NEW F, Reader(F, St, C), NEW s0 \in St, NEW c \in C
  PROVE  Run(F, s0, <<c>>) = F[<<s0, c>>]
<1>1. <<c>> \in Seq(C) /\ Len(<<c>>) = 1 /\ DOMAIN <<c>> = {1}
  OBVIOUS
<1>2. PICK g \in [0 .. 1 -> St] : IsTrace(F, s0, <<c>>, g)
  BY <1>1, TraceExists
<1> QED
  BY <1>1, <1>2, RunTrace DEF IsTrace

LEMMA RunAppend ==
  ASSUME NEW St, NEW C, NEW F, Reader(F, St, C), NEW s0 \in St,
         NEW t \in Seq(C), NEW c \in C
  PROVE  Run(F, s0, Append(t, c)) = F[<<Run(F, s0, t), c>>]
<1> DEFINE u == <<c>>
           s == Run(F, s0, t)
<1>1. Append(t, c) = t \o u
  OBVIOUS
<1>2. u \in Seq(C) /\ s \in St
  BY RunType
<1>3. Run(F, s, u) = F[<<s, c>>]
  BY <1>2, RunOne
<1> HIDE DEF u
<1>4. Run(F, s0, t \o u) = Run(F, s, u)
  BY <1>2, RunConcat
<1> QED
  BY <1>1, <1>3, <1>4

LEMMA RunTwo ==
  ASSUME NEW St, NEW C, NEW F, Reader(F, St, C), NEW s0 \in St, NEW c \in C, NEW d \in C
  PROVE  Run(F, s0, <<c, d>>) = F[<<F[<<s0, c>>], d>>]
<1> DEFINE t == <<c>>
<1>1. <<c, d>> = Append(t, d) /\ t \in Seq(C)
  OBVIOUS
<1>2. Run(F, s0, t) = F[<<s0, c>>]
  BY RunOne
<1> HIDE DEF t
<1>3. Run(F, s0, Append(t, d)) = F[<<Run(F, s0, t), d>>]
  BY <1>1, RunAppend
<1> QED
  BY <1>1, <1>2, <1>3

(* Induction up to a number, for a property given as a set.                *)
LEMMA UpTo ==
  ASSUME NEW n \in Nat, NEW T, 0 \in T, \A k \in 0 .. n - 1 : k \in T => k + 1 \in T
  PROVE  n \in T
<1> DEFINE Bad == {k \in 0 .. n : k \notin T}
<1>1. ASSUME Bad # {} PROVE FALSE
  <2>1. Bad \in SUBSET Nat
    OBVIOUS
  <2> HIDE DEF Bad
  <2>2. PICK k \in Bad : \A j \in Bad : k <= j
    BY <1>1, <2>1, SmallestOf
  <2>3. k \in 0 .. n /\ k \notin T
    BY DEF Bad
  <2>4. k - 1 \in 0 .. n - 1 /\ k - 1 \in 0 .. n /\ ~(k <= k - 1) /\ (k - 1) + 1 = k
    BY <2>3
  <2>5. k - 1 \in T
    BY <2>2, <2>4 DEF Bad
  <2> QED
    BY <2>3, <2>4, <2>5
<1> QED
  BY <1>1

LEMMA LongerPrefix ==
  ASSUME NEW S, NEW t \in Seq(S), NEW k \in 0 .. Len(t) - 1
  PROVE  /\ SubSeq(t, 1, k) \in Seq(S)
         /\ t[k + 1] \in S
         /\ SubSeq(t, 1, k + 1) = Append(SubSeq(t, 1, k), t[k + 1])
         /\ Len(SubSeq(t, 1, k)) = k
  OBVIOUS

(* The reader that appends what it reads.                                  *)
Conc(C) == [x \in Seq(C) \X Seq(C) |-> x[1] \o x[2]]

LEMMA ConcReader ==
  ASSUME NEW C
  PROVE  Reader(Conc(C), Seq(C), Seq(C)) /\ <<>> \in Seq(C)
  BY DEF Reader, Conc

(* Taking a sequence of texts together is a run as well.                   *)
LEMMA FlattenRun ==
  ASSUME NEW C, NEW ss \in Seq(Seq(C))
  PROVE  FlattenSeq(ss) = Run(Conc(C), <<>>, ss)
<1> DEFINE n == Len(ss)
<1>1. n \in Nat /\ DOMAIN ss = 1 .. n /\ \A i \in 1 .. n : ss[i] \in Seq(C)
  OBVIOUS
<1>2. CASE n = 0
  <2>1. ss = <<>>
    BY <1>2
  <2>2. FlattenSeq(ss) = ss
    BY <1>2 DEF FlattenSeq
  <2>3. Run(Conc(C), <<>>, <<>>) = <<>>
    BY ConcReader, RunEmpty
  <2> QED
    BY <2>1, <2>2, <2>3
<1>3. CASE n # 0
  <2> DEFINE Eq(f) == f = [i \in 1 .. Len(ss) |-> IF i = 1 THEN ss[i] ELSE f[i - 1] \o ss[i]]
  <2>1. FlattenSeq(ss) = (CHOOSE f : Eq(f))[Len(ss)]
    BY <1>3 DEF FlattenSeq
  <2>2. PICK g \in [0 .. n -> Seq(C)] : IsTrace(Conc(C), <<>>, ss, g)
    BY ConcReader, TraceExists
  <2>3. \A i \in 1 .. n : g[i] = g[i - 1] \o ss[i]
    <3> SUFFICES ASSUME NEW i \in 1 .. n PROVE g[i] = g[i - 1] \o ss[i]
      OBVIOUS
    <3>0. i - 1 \in 0 .. n /\ ss[i] \in Seq(C)
      BY <1>1
    <3>1. g[i - 1] \in Seq(C) /\ ss[i] \in Seq(C)
      BY <2>2, <3>0
    <3>2. g[i] = Conc(C)[<<g[i - 1], ss[i]>>]
      BY <1>1, <2>2 DEF IsTrace
    <3> QED
      BY <3>1, <3>2 DEF Conc
  <2>4. g[0] = <<>>
    BY <2>2 DEF IsTrace
  <2> DEFINE e == [i \in 1 .. n |-> g[i]]
  <2>5. Eq(e)
    <3> SUFFICES ASSUME NEW i \in 1 .. n
                 PROVE  e[i] = IF i = 1 THEN ss[i] ELSE e[i - 1] \o ss[i]
      OBVIOUS
    <3>1. CASE i = 1
      <4>1. g[i] = <<>> \o ss[i]
        <5>1. g[i] = g[i - 1] \o ss[i]
          BY <2>3
        <5>2. i - 1 = 0
          BY <3>1
        <5> QED
          BY <2>4, <5>1, <5>2
      <4>2. ss[i] \in Seq(C)
        BY <1>1
      <4>3. e[i] = ss[i]
        BY <4>1, <4>2
      <4> QED
        BY <3>1, <4>3
    <3>2. CASE i # 1
      <4>1. i - 1 \in 1 .. n
        BY <1>1, <3>2
      <4> QED
        BY <2>3, <3>2, <4>1
    <3> QED
      BY <3>1, <3>2
  <2>6. Eq(CHOOSE f : Eq(f))
    BY <2>5
  <2> HIDE DEF Eq
  <2>7. PICK f : Eq(f) /\ FlattenSeq(ss) = f[n]
    BY <2>1, <2>6
  <2> DEFINE h == [i \in 0 .. n |-> IF i = 0 THEN <<>> ELSE f[i]]
  <2>8. \A i \in 1 .. n : f[i] = IF i = 1 THEN ss[i] ELSE f[i - 1] \o ss[i]
    BY <2>7 DEF Eq
  <2>9. \A i \in 0 .. n : h[i] \in Seq(C)
    <3> DEFINE T == {i \in 0 .. n : h[i] \in Seq(C)}
    <3> SUFFICES ASSUME NEW m \in 0 .. n PROVE m \in T
      OBVIOUS
    <3>1. 0 \in T
      BY <1>1
    <3>2. ASSUME NEW k \in 0 .. m - 1, k \in T PROVE k + 1 \in T
      <4>1. k + 1 \in 1 .. n /\ ss[k + 1] \in Seq(C) /\ (k + 1) - 1 = k /\ k \in 0 .. n /\ k + 1 \in 0 .. n
        BY <1>1
      <4>2. h[k + 1] = f[k + 1] /\ (k # 0 => h[k] = f[k])
        BY <4>1
      <4>3. h[k] \in Seq(C)
        BY <3>2
      <4>4. f[k + 1] = IF k = 0 THEN ss[k + 1] ELSE f[k] \o ss[k + 1]
        BY <2>8, <4>1
      <4>5. h[k + 1] \in Seq(C)
        <5>1. CASE k = 0
          BY <4>1, <4>2, <4>4, <5>1
        <5>2. CASE k # 0
          <6>1. h[k + 1] = h[k] \o ss[k + 1]
            BY <4>1, <4>2, <4>4, <5>2
          <6> HIDE DEF h
          <6> QED
            BY <4>1, <4>3, <6>1
        <5> QED
          BY <5>1, <5>2
      <4> QED
        BY <4>1, <4>5
    <3>3. m \in Nat
      OBVIOUS
    <3> HIDE DEF T
    <3> QED
      BY <3>1, <3>2, <3>3, UpTo
  <2>10. IsTrace(Conc(C), <<>>, ss, h)
    <3>1. h[0] = <<>>
      BY <1>1
    <3>2. ASSUME NEW i \in 1 .. n PROVE h[i] = Conc(C)[<<h[i - 1], ss[i]>>]
      <4>1. i - 1 \in 0 .. n /\ i \in 0 .. n /\ h[i - 1] \in Seq(C) /\ ss[i] \in Seq(C)
        BY <1>1, <2>9
      <4>2. Conc(C)[<<h[i - 1], ss[i]>>] = h[i - 1] \o ss[i]
        BY <4>1 DEF Conc
      <4>3. CASE i = 1
        <5>1. h[i - 1] = <<>> /\ h[i] = ss[i]
          BY <2>8, <4>1, <4>3
        <5>2. h[i - 1] \o ss[i] = ss[i]
          BY <4>1, <5>1, ConcatEmptySeq
        <5> QED
          BY <4>2, <5>1, <5>2
      <4>4. CASE i # 1
        <5>1. h[i - 1] = f[i - 1] /\ h[i] = f[i]
          BY <4>1, <4>4
        <5> QED
          BY <2>8, <4>2, <4>4, <5>1
      <4> QED
        BY <4>3, <4>4
    <3> HIDE DEF h
    <3> QED
      BY <1>1, <3>1, <3>2 DEF IsTrace
  <2>11. h[n] = f[n]
    BY <1>1, <1>3
  <2> HIDE DEF h
  <2>12. Run(Conc(C), <<>>, ss) = h[n]
    BY <2>10, ConcReader, RunTrace
  <2> QED
    BY <2>7, <2>11, <2>12
<1> QED
  BY <1>2, <1>3

LEMMA FlattenEmpty == FlattenSeq(<<>>) = <<>>
  BY DEF FlattenSeq

LEMMA FlattenType ==
  ASSUME NEW C, NEW ss \in Seq(Seq(C))
  PROVE  FlattenSeq(ss) \in Seq(C)
<1>1. Run(Conc(C), <<>>, ss) \in Seq(C)
  BY ConcReader, RunType
<1> QED
  BY <1>1, FlattenRun

(* One more text.                                                          *)
LEMMA FlattenAppend ==
  ASSUME NEW C, NEW ss \in Seq(Seq(C)), NEW t \in Seq(C)
  PROVE  FlattenSeq(Append(ss, t)) = FlattenSeq(ss) \o t
<1> DEFINE tt == Append(ss, t)
<1>1. tt \in Seq(Seq(C))
  OBVIOUS
<1>2. Run(Conc(C), <<>>, tt) = Conc(C)[<<Run(Conc(C), <<>>, ss), t>>]
  <2> DEFINE e == <<>>
  <2>1. Reader(Conc(C), Seq(C), Seq(C)) /\ e \in Seq(C)
    BY ConcReader
  <2> HIDE DEF e
  <2>2. Run(Conc(C), e, Append(ss, t)) = Conc(C)[<<Run(Conc(C), e, ss), t>>]
    BY <2>1, RunAppend
  <2> USE DEF e
  <2> QED
    BY <2>2
<1>3. Run(Conc(C), <<>>, ss) \in Seq(C)
  BY ConcReader, RunType
<1> HIDE DEF tt
<1>4. FlattenSeq(tt) = Run(Conc(C), <<>>, tt)
  BY <1>1, FlattenRun
<1>5. FlattenSeq(ss) = Run(Conc(C), <<>>, ss)
  BY FlattenRun
<1> QED
  BY <1>2, <1>3, <1>4, <1>5 DEF Conc, tt

(* A reader of the codes of the characters of a text: I says which states  *)
(* it may be in after so many of them.                                     *)
Stages(I, codes, St) == I \in [0 .. Len(codes) -> SUBSET St]

(* Each of the codes takes a state of one stage to one of the next.        *)
Advances(F, codes, I) ==
  \A k \in 0 .. Len(codes) - 1 : \A s \in I[k] : Run(F, s, codes[k + 1]) \in I[k + 1]

(* Induction over codes: when each takes its stage to the next, the run    *)
(* over all of them ends in the last stage.                                *)
LEMMA ReadsCodes ==
  ASSUME NEW St, NEW C, NEW F, Reader(F, St, C), NEW codes \in Seq(Seq(C)),
         NEW I, Stages(I, codes, St), NEW s0 \in I[0], Advances(F, codes, I)
  PROVE  Run(F, s0, FlattenSeq(codes)) \in I[Len(codes)]
<1> DEFINE n == Len(codes)
           T == {k \in 0 .. n : Run(F, s0, FlattenSeq(SubSeq(codes, 1, k))) \in I[k]}
<1>1. n \in Nat /\ 0 \in 0 .. n /\ s0 \in St
  <2>1. n \in Nat /\ 0 \in 0 .. n
    OBVIOUS
  <2>2. I[0] \in SUBSET St
    BY <2>1 DEF Stages
  <2> QED
    BY <2>1, <2>2
<1>2. 0 \in T
  <2>1. SubSeq(codes, 1, 0) = <<>>
    OBVIOUS
  <2>2. Run(F, s0, <<>>) = s0
    BY <1>1, RunEmpty
  <2> QED
    BY <1>1, <2>1, <2>2, FlattenEmpty
<1>3. ASSUME NEW k \in 0 .. n - 1, k \in T PROVE k + 1 \in T
  <2> DEFINE before == SubSeq(codes, 1, k)
             s == Run(F, s0, FlattenSeq(before))
  <2>1. /\ before \in Seq(Seq(C)) /\ codes[k + 1] \in Seq(C)
        /\ SubSeq(codes, 1, k + 1) = Append(before, codes[k + 1])
    BY LongerPrefix
  <2> HIDE DEF before
  <2>2. FlattenSeq(Append(before, codes[k + 1])) = FlattenSeq(before) \o codes[k + 1]
        /\ FlattenSeq(before) \in Seq(C)
    BY <2>1, FlattenAppend, FlattenType
  <2>3. Run(F, s0, FlattenSeq(before) \o codes[k + 1]) = Run(F, s, codes[k + 1])
    BY <1>1, <2>1, <2>2, RunConcat
  <2>4. s \in I[k]
    BY <1>3 DEF before
  <2>5. k + 1 \in 0 .. n
    BY <1>1
  <2> QED
    BY <2>1, <2>2, <2>3, <2>4, <2>5 DEF Advances
<1>4. n \in T
  <2> HIDE DEF T
  <2> QED
    BY <1>1, <1>2, <1>3, UpTo
<1>5. SubSeq(codes, 1, n) = codes
  OBVIOUS
<1> QED
  BY <1>4, <1>5

(* A fold whose steps are those of a reader, as long as it is in one of    *)
(* the reader's states, is the reader's run.                               *)
Follows(F, St, s0, text, h) ==
  /\ h[{}] = s0
  /\ \A T \in SUBSET DOMAIN text : T # {} /\ h[T \ {Max(T)}] \in St =>
       h[T] = F[<<h[T \ {Max(T)}], text[Max(T)]>>]

(* What follows a reader as FoldLeft does, with a step that is an          *)
(* operator, is its run.                                                   *)
LEMMA FoldIsRun ==
  ASSUME NEW St, NEW C, NEW F, Reader(F, St, C), NEW s0 \in St, NEW text \in Seq(C),
         NEW h, Follows(F, St, s0, text, h)
  PROVE  h[DOMAIN text] = Run(F, s0, text)
<1> USE DEF Follows
<1> DEFINE n == Len(text)
<1>1. n \in Nat /\ DOMAIN text = 1 .. n
  OBVIOUS
<1>2. PICK g \in [0 .. Len(text) -> St] : IsTrace(F, s0, text, g)
  BY TraceExists
<1>3. Run(F, s0, text) = g[n]
  BY <1>2, RunTrace
<1> DEFINE P == {k \in 0 .. n : h[1 .. k] = g[k]}
<1>4. 0 \in P
  <2>1. 1 .. 0 = {} /\ 0 \in 0 .. n
    BY <1>1
  <2> QED
    BY <1>2, <2>1 DEF IsTrace
<1>5. ASSUME NEW k \in 0 .. n - 1, k \in P PROVE k + 1 \in P
  <2> DEFINE m == k + 1
  <2>1. m \in Nat \ {0} /\ m \in 1 .. n /\ 1 .. m \in SUBSET (1 .. n) /\ m - 1 = k /\ k \in 0 .. n /\ m \in 0 .. n
    BY <1>1
  <2> HIDE DEF m
  <2>2. Max(1 .. m) = m /\ 1 .. m # {} /\ (1 .. m) \ {m} = 1 .. k
    BY <2>1, MaxOfPrefix
  <2>3. h[1 .. k] = g[k]
    BY <1>5
  <2>4. g[k] \in St
    BY <1>2, <2>1
  <2>5. h[1 .. m] = F[<<h[1 .. k], text[m]>>]
    <3> DEFINE T == 1 .. m
    <3>1. T \in SUBSET DOMAIN text /\ T # {} /\ Max(T) = m /\ T \ {Max(T)} = 1 .. k
      BY <1>1, <2>1, <2>2
    <3> HIDE DEF T
    <3>2. h[T \ {Max(T)}] \in St
      BY <2>3, <2>4, <3>1
    <3>3. h[T] = F[<<h[T \ {Max(T)}], text[Max(T)]>>]
      BY <3>1, <3>2
    <3> QED
      BY <3>1, <3>3 DEF T
  <2>6. g[m] = F[<<g[k], text[m]>>]
    BY <1>1, <1>2, <2>1 DEF IsTrace
  <2>7. h[1 .. m] = g[m]
    BY <2>3, <2>5, <2>6
  <2> QED
    BY <2>1, <2>7 DEF m
<1>6. n \in P
  <2> HIDE DEF P
  <2> QED
    BY <1>1, <1>4, <1>5, UpTo
<1> QED
  BY <1>1, <1>3, <1>6

LEMMA RunFour ==
  ASSUME NEW St, NEW C, NEW F, Reader(F, St, C), NEW s \in St,
         NEW a \in C, NEW b \in C, NEW c \in C, NEW d \in C
  PROVE  Run(F, s, <<a, b, c, d>>) = F[<<F[<<F[<<F[<<s, a>>], b>>], c>>], d>>]
<1> DEFINE t == <<a, b>>
           u == <<c, d>>
<1>1. t \in Seq(C) /\ u \in Seq(C) /\ <<a, b, c, d>> = t \o u
  OBVIOUS
<1>2. Run(F, s, t) = F[<<F[<<s, a>>], b>>]
  BY RunTwo
<1>5. Run(F, s, t) \in St
  BY <1>1, RunType
<1>3. Run(F, Run(F, s, t), u) = F[<<F[<<Run(F, s, t), c>>], d>>]
  BY <1>5, RunTwo
<1> HIDE DEF t, u
<1>4. Run(F, s, t \o u) = Run(F, Run(F, s, t), u)
  BY <1>1, RunConcat
<1> QED
  BY <1>1, <1>2, <1>3, <1>4

(* A code for each character of a text.                                    *)
Coded(codes, text, C) ==
  codes = [i \in DOMAIN text |-> codes[i]] /\ \A i \in DOMAIN text : codes[i] \in Seq(C)

(* The codes of a text are as many as its characters.                      *)
LEMMA CodesType ==
  ASSUME NEW C, NEW D, NEW text \in Seq(D), NEW codes, Coded(codes, text, C)
  PROVE  codes \in Seq(Seq(C)) /\ Len(codes) = Len(text)
<1>1. DOMAIN text = 1 .. Len(text) /\ Len(text) \in Nat
  OBVIOUS
<1> QED
  BY <1>1 DEF Coded

(* The first of several texts begins what they are together.               *)
LEMMA FlattenHead ==
  ASSUME NEW C, NEW ss \in Seq(Seq(C)), ss # <<>>, ss[1] # <<>>
  PROVE  FlattenSeq(ss) # <<>> /\ FlattenSeq(ss)[1] = ss[1][1]
<1> DEFINE n == Len(ss)
           flat(k) == FlattenSeq(SubSeq(ss, 1, k))
           T == {k \in 0 .. n : k # 0 => flat(k) # <<>> /\ flat(k)[1] = ss[1][1]}
<1>1. n \in Nat \ {0} /\ ss[1] \in Seq(C)
  OBVIOUS
<1>2. 0 \in T
  BY <1>1
<1>3. ASSUME NEW k \in 0 .. n - 1, k \in T PROVE k + 1 \in T
  <2> DEFINE before == SubSeq(ss, 1, k)
  <2>1. /\ before \in Seq(Seq(C)) /\ ss[k + 1] \in Seq(C)
        /\ SubSeq(ss, 1, k + 1) = Append(before, ss[k + 1])
    BY LongerPrefix
  <2> HIDE DEF before
  <2>2. FlattenSeq(Append(before, ss[k + 1])) = FlattenSeq(before) \o ss[k + 1]
        /\ FlattenSeq(before) \in Seq(C)
    BY <2>1, FlattenAppend, FlattenType
  <2>3. flat(k + 1) = flat(k) \o ss[k + 1] /\ flat(k) \in Seq(C)
    BY <2>1, <2>2 DEF before
  <2>4. CASE k = 0
    <3>1. flat(k) = <<>>
      <4>1. SubSeq(ss, 1, k) = <<>>
        BY <2>4
      <4> QED
        BY <4>1, FlattenEmpty
    <3>2. flat(k + 1) = ss[1]
      <4>1. flat(k + 1) = <<>> \o ss[k + 1] /\ k + 1 = 1
        <5>1. flat(k + 1) = <<>> \o ss[k + 1]
          BY <2>3, <3>1, Zenon
        <5> QED
          BY <2>4, <5>1
      <4> HIDE DEF flat
      <4>2. ss[k + 1] = ss[1]
        BY <4>1
      <4> QED
        BY <1>1, <4>1, <4>2
    <3> HIDE DEF flat
    <3> QED
      BY <1>1, <3>2
  <2>5. CASE k # 0
    <3>1. flat(k) # <<>> /\ flat(k)[1] = ss[1][1]
      BY <1>3, <2>5
    <3> HIDE DEF flat
    <3>2. flat(k + 1) # <<>> /\ flat(k + 1)[1] = flat(k)[1]
      BY <2>1, <2>3, <3>1
    <3> QED
      BY <1>1, <3>1, <3>2
  <2> QED
    BY <2>4, <2>5
<1>4. n \in T
  <2> HIDE DEF T
  <2> QED
    BY <1>1, <1>2, <1>3, UpTo
<1>5. SubSeq(ss, 1, n) = ss
  OBVIOUS
<1> QED
  BY <1>1, <1>4, <1>5

(* Appending to the second of two is appending to both.                    *)
SameAppend(t, u, x) == Append(t \o u, x) = t \o Append(u, x)

LEMMA AppendConcat ==
  ASSUME NEW S, NEW t \in Seq(S), NEW u \in Seq(S), NEW x \in S
  PROVE  SameAppend(t, u, x)
  BY DEF SameAppend

(* One text, taken together, is itself.                                    *)
LEMMA FlattenOne ==
  ASSUME NEW C, NEW t \in Seq(C)
  PROVE  FlattenSeq(<<t>>) = t
<1> DEFINE e == <<>>
           one == <<t>>
           all == Append(e, t)
<1>1. e \in Seq(Seq(C)) /\ one = all /\ FlattenSeq(e) = <<>> /\ <<>> \o t = t
  BY FlattenEmpty
<1> HIDE DEF e
<1>2. FlattenSeq(all) = FlattenSeq(e) \o t
  BY <1>1, FlattenAppend
<1> HIDE DEF one, all
<1>3. FlattenSeq(one) = t
  BY <1>1, <1>2
<1> QED
  BY <1>3 DEF one

(* The last of several texts ends what they are together.                  *)
LEMMA FlattenLast ==
  ASSUME NEW C, NEW ss \in Seq(Seq(C)), ss # <<>>, Last(ss) # <<>>
  PROVE  /\ Len(FlattenSeq(ss)) >= Len(Last(ss))
         /\ Last(FlattenSeq(ss)) = Last(Last(ss))
<1> DEFINE n == Len(ss)
           k == n - 1
           before == SubSeq(ss, 1, k)
           t == ss[n]
<1>1. n \in Nat \ {0} /\ k \in 0 .. n - 1 /\ k + 1 = n /\ SubSeq(ss, 1, n) = ss
  OBVIOUS
<1>2. before \in Seq(Seq(C)) /\ t \in Seq(C) /\ ss = Append(before, t) /\ t # <<>> /\ t = Last(ss)
  <2> HIDE DEF k
  <2>1. /\ SubSeq(ss, 1, k) \in Seq(Seq(C)) /\ ss[k + 1] \in Seq(C)
        /\ SubSeq(ss, 1, k + 1) = Append(SubSeq(ss, 1, k), ss[k + 1])
    BY <1>1, LongerPrefix
  <2> QED
    BY <1>1, <2>1 DEF Last
<1> HIDE DEF before, t
<1>3. FlattenSeq(ss) = FlattenSeq(before) \o t /\ FlattenSeq(before) \in Seq(C)
  BY <1>2, FlattenAppend, FlattenType
<1> DEFINE f == FlattenSeq(before)
<1> HIDE DEF f
<1>4. f \in Seq(C) /\ FlattenSeq(ss) = f \o t
  BY <1>3 DEF f
<1>5. Len(f \o t) >= Len(t) /\ Last(f \o t) = Last(t)
  BY <1>2, <1>4 DEF Last
<1> QED
  BY <1>2, <1>4, <1>5

(* A text over some characters is one over more.                           *)
LEMMA MoreCharacters ==
  ASSUME NEW S, NEW T, S \subseteq T, NEW t \in Seq(S)
  PROVE  t \in Seq(T)
<1>1. Len(t) \in Nat /\ \A i \in 1 .. Len(t) : t[i] \in T
  OBVIOUS
<1> QED
  BY <1>1, IsASeq

LEMMA AppendSecond ==
  ASSUME NEW S, NEW x \in S, NEW y \in S
  PROVE  Append(<<x>>, y) = <<x, y>>
<1> DEFINE e == <<x>>
           t == Append(e, y)
           u == <<x, y>>
<1>1. e \in Seq(S) /\ Len(e) = 1 /\ e[1] = x
  OBVIOUS
<1>2. u \in Seq(S) /\ Len(u) = 2 /\ u[1] = x /\ u[2] = y
  OBVIOUS
<1> HIDE DEF e, u
<1>3. t \in Seq(S) /\ Len(t) = 2 /\ t[1] = x /\ t[2] = y
  <2>1. t \in Seq(S) /\ Len(t) = Len(e) + 1
    BY <1>1, AppendProperties
  <2>2. t[1] = e[1]
    BY <1>1, AppendProperties
  <2>3. t[Len(e) + 1] = y
    BY <1>1, AppendProperties
  <2> HIDE DEF t
  <2> QED
    BY <1>1, <2>1, <2>2, <2>3
<1> HIDE DEF t
<1>4. t = u
  <2>1. \A i \in 1 .. Len(t) : t[i] = u[i]
    BY <1>2, <1>3
  <2> QED
    BY <1>2, <1>3, <2>1, SeqEqual
<1> QED
  BY <1>4 DEF t, e, u

LEMMA AppendThird ==
  ASSUME NEW S, NEW x \in S, NEW y \in S, NEW z \in S
  PROVE  Len(Append(<<x, y>>, z)) = 3 /\ Append(<<x, y>>, z)[3] = z
  OBVIOUS

(* Login entries.                                                          *)
(* A reader's states after so many characters of a text.                   *)
Moves(F, text, I) ==
  \A k \in 0 .. Len(text) - 1 : \A s \in I[k] : F[<<s, text[k + 1]>>] \in I[k + 1]

(* The same over the single elements of a text.                            *)
LEMMA RunStages ==
  ASSUME NEW St, NEW C, NEW F, Reader(F, St, C), NEW text \in Seq(C),
         NEW I, Stages(I, text, St), NEW s0 \in I[0], Moves(F, text, I)
  PROVE  Run(F, s0, text) \in I[Len(text)]
<1> DEFINE n == Len(text)
<1>1. n \in Nat /\ DOMAIN text = 1 .. n /\ 0 \in 0 .. n
  OBVIOUS
<1>2. s0 \in St
  <2>1. I[0] \in SUBSET St
    BY <1>1 DEF Stages
  <2> QED
    BY <2>1
<1>3. PICK g \in [0 .. n -> St] : IsTrace(F, s0, text, g)
  BY <1>2, TraceExists
<1>4. Run(F, s0, text) = g[n]
  BY <1>2, <1>3, RunTrace
<1> DEFINE T == {k \in 0 .. n : g[k] \in I[k]}
<1>5. 0 \in T
  BY <1>1, <1>3 DEF IsTrace
<1>6. ASSUME NEW k \in 0 .. n - 1, k \in T PROVE k + 1 \in T
  <2> DEFINE m == k + 1
  <2>1. m \in 1 .. n /\ m - 1 = k /\ m \in 0 .. n
    BY <1>1
  <2>2. F[<<g[k], text[k + 1]>>] \in I[k + 1]
    BY <1>6 DEF Moves
  <2> HIDE DEF m
  <2>3. g[m] = F[<<g[m - 1], text[m]>>]
    BY <1>1, <1>3, <2>1 DEF IsTrace
  <2>4. g[m] \in I[m]
    BY <2>1, <2>2, <2>3 DEF m
  <2> QED
    BY <2>1, <2>4 DEF m
<1>7. n \in T
  <2> HIDE DEF T
  <2> QED
    BY <1>1, <1>5, <1>6, UpTo
<1> QED
  BY <1>4, <1>7

(* Lengths add up.                                                         *)
LEMMA ConcatLen ==
  ASSUME NEW S, NEW a \in Seq(S), NEW b \in Seq(S)
  PROVE  /\ a \o b \in Seq(S)
         /\ Len(a \o b) = Len(a) + Len(b) /\ Len(a) \in Nat /\ Len(b) \in Nat
  BY ConcatProperties

(* A text put before others.                                               *)
LEMMA FlattenCons ==
  ASSUME NEW C, NEW t \in Seq(C), NEW ss \in Seq(Seq(C))
  PROVE  /\ <<t>> \o ss \in Seq(Seq(C))
         /\ FlattenSeq(<<t>> \o ss) = t \o FlattenSeq(ss)
<1> DEFINE n == Len(ss)
           F == Conc(C)
           e == <<>>
           x == <<t>>
           flat(k) == FlattenSeq(SubSeq(ss, 1, k))
           I == [k \in 0 .. n |-> {t \o flat(k)}]
<1>1. n \in Nat /\ x \in Seq(Seq(C)) /\ e \in Seq(C) /\ t \o e = t
  OBVIOUS
<1>2. x \o ss \in Seq(Seq(C))
  <2> HIDE DEF x
  <2> QED
    BY <1>1
<1>3. Reader(F, Seq(C), Seq(C))
  BY ConcReader
<1>4. \A k \in 0 .. n : flat(k) \in Seq(C)
  <2> SUFFICES ASSUME NEW k \in 0 .. n PROVE flat(k) \in Seq(C)
    OBVIOUS
  <2> DEFINE p == SubSeq(ss, 1, k)
  <2>1. p \in Seq(Seq(C))
    BY <1>1
  <2> HIDE DEF p
  <2>2. FlattenSeq(p) \in Seq(C)
    BY <2>1, FlattenType
  <2> QED
    BY <2>2 DEF p
<1>5. Stages(I, ss, Seq(C))
  <2> HIDE DEF flat
  <2>1. \A k \in 0 .. n : t \o flat(k) \in Seq(C)
    BY <1>4
  <2> QED
    BY <2>1 DEF Stages
<1>6. t \in I[0]
  <2>1. SubSeq(ss, 1, 0) = <<>>
    BY <1>1
  <2>2. flat(0) = e
    BY <2>1, FlattenEmpty
  <2> HIDE DEF flat, e
  <2> QED
    BY <1>1, <2>2
<1>m. ASSUME NEW k \in 0 .. n - 1
      PROVE  F[<<t \o flat(k), ss[k + 1]>>] = t \o flat(k + 1)
  <2> DEFINE p == SubSeq(ss, 1, k)
             u == ss[k + 1]
  <2>1. p \in Seq(Seq(C)) /\ u \in Seq(C) /\ SubSeq(ss, 1, k + 1) = Append(p, u)
    BY <1>1, LongerPrefix
  <2>2. k \in 0 .. n /\ k + 1 \in 0 .. n
    BY <1>1
  <2> HIDE DEF p, u
  <2>3. FlattenSeq(Append(p, u)) = FlattenSeq(p) \o u
    BY <2>1, FlattenAppend
  <2>4. flat(k + 1) = flat(k) \o u
    BY <2>1, <2>3 DEF p
  <2>5. flat(k) \in Seq(C)
    BY <1>4, <2>2
  <2> HIDE DEF flat
  <2> DEFINE f == flat(k)
  <2>6. F[<<t \o f, u>>] = (t \o f) \o u
    <3> HIDE DEF f
    <3>1. f \in Seq(C)
      BY <2>5 DEF f
    <3>2. t \o f \in Seq(C)
      BY <3>1
    <3> QED
      BY <2>1, <3>2 DEF Conc
  <2>7. (t \o f) \o u = t \o (f \o u)
    <3> HIDE DEF f
    <3>1. f \in Seq(C)
      BY <2>5 DEF f
    <3> QED
      BY <2>1, <3>1, SMTT(30)
  <2> QED
    BY <2>2, <2>4, <2>6, <2>7 DEF u
<1>7. Moves(F, ss, I)
  <2>1. \A k \in 0 .. n : I[k] = {t \o flat(k)}
    OBVIOUS
  <2>2. \A k \in 0 .. n - 1 : k \in 0 .. n /\ k + 1 \in 0 .. n
    BY <1>1
  <2> HIDE DEF I, F, flat
  <2> SUFFICES ASSUME NEW k \in 0 .. n - 1, NEW s \in I[k] PROVE F[<<s, ss[k + 1]>>] \in I[k + 1]
    BY DEF Moves
  <2>3. k \in 0 .. n /\ k + 1 \in 0 .. n
    BY <2>2
  <2>4. s = t \o flat(k) /\ I[k + 1] = {t \o flat(k + 1)}
    BY <2>1, <2>3
  <2>5. F[<<t \o flat(k), ss[k + 1]>>] = t \o flat(k + 1)
    BY <1>m
  <2> QED
    BY <2>4, <2>5
<1>8. Run(F, t, ss) = t \o FlattenSeq(ss)
  <2> HIDE DEF flat
  <2>1. Run(F, t, ss) \in I[n]
    <3> HIDE DEF I
    <3> QED
      BY <1>3, <1>5, <1>6, <1>7, RunStages
  <2>2. Run(F, t, ss) = t \o flat(n)
    BY <1>1, <2>1
  <2>3. SubSeq(ss, 1, n) = ss
    BY <1>1
  <2> QED
    BY <2>2, <2>3 DEF flat
<1> HIDE DEF I, flat
<1>9. Run(F, e, x \o ss) = Run(F, Run(F, e, x), ss)
  <2> HIDE DEF e, x, F
  <2> QED
    BY <1>1, <1>3, RunConcat
<1>10. Run(F, e, x) = t
  <2>1. F[<<e, t>>] = t
    <3>1. F[<<e, t>>] = e \o t
      BY <1>1 DEF Conc
    <3> QED
      BY <3>1
  <2> HIDE DEF e, F
  <2>2. Run(F, e, <<t>>) = F[<<e, t>>]
    BY <1>1, <1>3, RunOne
  <2> QED
    BY <2>1, <2>2
<1>11. FlattenSeq(x \o ss) = Run(F, e, x \o ss)
  <2> HIDE DEF x
  <2> QED
    BY <1>2, FlattenRun
<1> QED
  BY <1>2, <1>8, <1>9, <1>10, <1>11

(* Texts of the same lengths, one by one, have it together.                *)
LEMMA SameLengths ==
  ASSUME NEW C, NEW ss \in Seq(Seq(C)), NEW tt \in Seq(Seq(C)), Len(ss) = Len(tt),
         \A i \in DOMAIN ss : Len(ss[i]) = Len(tt[i])
  PROVE  Len(FlattenSeq(ss)) = Len(FlattenSeq(tt))
<1> DEFINE n == Len(ss)
           a(k) == FlattenSeq(SubSeq(ss, 1, k))
           b(k) == FlattenSeq(SubSeq(tt, 1, k))
           T == {k \in 0 .. n : Len(a(k)) = Len(b(k))}
<1>1. n \in Nat /\ n = Len(tt) /\ DOMAIN ss = 1 .. n /\ n \in 0 .. n
  OBVIOUS
<1>2. 0 \in T
  <2>1. SubSeq(ss, 1, 0) = SubSeq(tt, 1, 0)
    BY <1>1
  <2>2. a(0) = b(0)
    BY <2>1
  <2> HIDE DEF a, b
  <2> QED
    BY <1>1, <2>2
<1>3. ASSUME NEW k \in 0 .. n - 1, k \in T PROVE k + 1 \in T
  <2> DEFINE p == SubSeq(ss, 1, k)
             q == SubSeq(tt, 1, k)
             u == ss[k + 1]
             v == tt[k + 1]
  <2>1. /\ p \in Seq(Seq(C)) /\ u \in Seq(C) /\ SubSeq(ss, 1, k + 1) = Append(p, u)
        /\ q \in Seq(Seq(C)) /\ v \in Seq(C) /\ SubSeq(tt, 1, k + 1) = Append(q, v)
    BY <1>1, LongerPrefix
  <2>2. k + 1 \in 0 .. n /\ k + 1 \in DOMAIN ss
    BY <1>1
  <2>3. Len(u) = Len(v)
    BY <2>2
  <2>4. Len(FlattenSeq(p)) = Len(FlattenSeq(q))
    BY <1>3
  <2> HIDE DEF p, q, u, v
  <2>5. /\ FlattenSeq(Append(p, u)) = FlattenSeq(p) \o u /\ FlattenSeq(p) \in Seq(C)
        /\ FlattenSeq(Append(q, v)) = FlattenSeq(q) \o v /\ FlattenSeq(q) \in Seq(C)
    BY <2>1, FlattenAppend, FlattenType
  <2>6. Len(FlattenSeq(Append(p, u))) = Len(FlattenSeq(Append(q, v)))
    <3> DEFINE f == FlattenSeq(p)
               g == FlattenSeq(q)
    <3>1. f \in Seq(C) /\ g \in Seq(C) /\ Len(f) = Len(g)
      BY <2>4, <2>5
    <3> HIDE DEF f, g
    <3>2. Len(f \o u) = Len(g \o v)
      <4>1. Len(f \o u) = Len(f) + Len(u) /\ Len(g \o v) = Len(g) + Len(v)
        BY <2>1, <3>1, ConcatLen
      <4> QED
        BY <2>3, <3>1, <4>1
    <3> QED
      BY <2>5, <3>2 DEF f, g
  <2> QED
    BY <2>1, <2>2, <2>6
<1>4. n \in T
  <2> HIDE DEF T
  <2> QED
    BY <1>1, <1>2, <1>3, UpTo
<1>5. SubSeq(ss, 1, n) = ss /\ SubSeq(tt, 1, n) = tt
  BY <1>1
<1> QED
  BY <1>4, <1>5

(* The empty text is one over every alphabet.                              *)
LEMMA EmptyType ==
  ASSUME NEW C
  PROVE  <<>> \in Seq(C)
  OBVIOUS

(* Texts of one character each.                                            *)
LEMMA FlattenSingles ==
  ASSUME NEW C, NEW text \in Seq(C)
  PROVE  FlattenSeq([i \in DOMAIN text |-> <<text[i]>>]) = text
<1> DEFINE F == Conc(C)
           n == Len(text)
           e == <<>>
           codes == [i \in DOMAIN text |-> <<text[i]>>]
           I == [k \in 0 .. n |-> {SubSeq(text, 1, k)}]
<1>1. n \in Nat /\ DOMAIN text = 1 .. n /\ SubSeq(text, 1, 0) = <<>> /\ SubSeq(text, 1, n) = text
      /\ 0 \in 0 .. n /\ n \in 0 .. n
  OBVIOUS
<1>2. Reader(F, Seq(C), Seq(C)) /\ e \in Seq(C)
  BY ConcReader
<1>3. codes \in Seq(Seq(C)) /\ Len(codes) = n
  <2>1. \A i \in DOMAIN text : codes[i] \in Seq(C)
    <3> SUFFICES ASSUME NEW i \in DOMAIN text PROVE codes[i] \in Seq(C)
      OBVIOUS
    <3> DEFINE c == text[i]
    <3>1. codes[i] = <<c>> /\ c \in C
      OBVIOUS
    <3> HIDE DEF codes, c
    <3> QED
      BY <3>1
  <2>2. Coded(codes, text, C)
    BY <2>1 DEF Coded
  <2> HIDE DEF codes
  <2> QED
    BY <2>2, CodesType
<1>4. Stages(I, codes, Seq(C))
  <2>1. \A k \in 0 .. n : SubSeq(text, 1, k) \in Seq(C)
    BY <1>1
  <2> HIDE DEF codes
  <2> QED
    BY <1>3, <2>1 DEF Stages
<1>5. e \in I[0]
  <2>1. I[0] = {SubSeq(text, 1, 0)}
    BY <1>1
  <2> QED
    BY <1>1, <2>1
<1>6. Moves(F, codes, I)
  <2> SUFFICES ASSUME NEW k \in 0 .. Len(codes) - 1, NEW s \in I[k] PROVE F[<<s, codes[k + 1]>>] \in I[k + 1]
    BY DEF Moves
  <2> DEFINE p == SubSeq(text, 1, k)
             c == text[k + 1]
             x == <<c>>
  <2>1. k \in 0 .. n - 1
    BY <1>3
  <2>2. p \in Seq(C) /\ c \in C /\ SubSeq(text, 1, k + 1) = Append(p, c)
    BY <1>1, <2>1, LongerPrefix
  <2>3. k \in 0 .. n /\ k + 1 \in 0 .. n /\ k + 1 \in DOMAIN text
    BY <1>1, <2>1
  <2>4. s = p /\ I[k + 1] = {Append(p, c)} /\ codes[k + 1] = x
    BY <2>2, <2>3
  <2>5. x \in Seq(C)
    <3> HIDE DEF c
    <3> QED
      BY <2>2
  <2>6. F[<<p, x>>] = p \o x
    <3> HIDE DEF p, x
    <3> QED
      BY <2>2, <2>5 DEF Conc
  <2>7. p \o x = Append(p, c)
    <3> HIDE DEF p, c
    <3> QED
      BY <2>2
  <2> HIDE DEF F, I, codes, p, c, x
  <2> QED
    BY <2>4, <2>6, <2>7
<1>7. Run(F, e, codes) = text
  <2>1. Run(F, e, codes) \in I[n]
    <3> HIDE DEF I, F, codes, e, n
    <3> QED
      BY <1>2, <1>3, <1>4, <1>5, <1>6, RunStages
  <2>2. I[n] = {SubSeq(text, 1, n)}
    BY <1>1
  <2> QED
    BY <1>1, <2>1, <2>2
<1>8. FlattenSeq(codes) = Run(F, e, codes)
  <2> HIDE DEF codes
  <2> QED
    BY <1>3, FlattenRun
<1> QED
  BY <1>7, <1>8

(* The parts of two texts that stand one after the other.                  *)
Pieces(C, p, t, u) ==
  /\ p = t \o u
  /\ p \in Seq(C) /\ Len(p) = Len(t) + Len(u)
  /\ SubSeq(p, 1, Len(t)) = t /\ SubSeq(p, Len(t) + 1, Len(p)) = u
  /\ \A i \in 1 .. Len(t) : p[i] = t[i]
  /\ \A i \in 1 .. Len(u) : p[Len(t) + i] = u[i]

(* What is in two texts that are one after the other.                      *)
LEMMA PiecesOf ==
  ASSUME NEW C, NEW t \in Seq(C), NEW u \in Seq(C)
  PROVE  Pieces(C, t \o u, t, u)
<1> DEFINE p == t \o u
           m == Len(t)
           n == Len(u)
           v == SubSeq(p, 1, m)
           w == SubSeq(p, m + 1, m + n)
<1>1. m \in Nat /\ n \in Nat /\ p \in Seq(C) /\ Len(p) = m + n
  OBVIOUS
<1>2. \A i \in 1 .. m : p[i] = t[i]
  OBVIOUS
<1>3. \A i \in 1 .. n : p[m + i] = u[i]
  OBVIOUS
<1>4. v \in Seq(C) /\ Len(v) = m /\ \A i \in 1 .. m : v[i] = p[i]
  <2> HIDE DEF p, m, n
  <2> QED
    BY <1>1
<1>5. w \in Seq(C) /\ Len(w) = n /\ \A i \in 1 .. n : w[i] = p[m + i]
  <2> HIDE DEF p, m, n
  <2> QED
    BY <1>1
<1> HIDE DEF v, w
<1>6. v = t
  BY <1>2, <1>4, SeqEqual
<1>7. w = u
  BY <1>3, <1>5, SeqEqual
<1> QED
  BY <1>1, <1>2, <1>3, <1>6, <1>7 DEF v, w, Pieces

(* It does not matter which of three texts are taken together first.       *)
Associates(C, t, u, v) ==
  /\ (t \o u) \o v = t \o (u \o v)
  /\ t \o u \in Seq(C) /\ u \o v \in Seq(C) /\ (t \o u) \o v \in Seq(C)

LEMMA Assoc ==
  ASSUME NEW C, NEW t \in Seq(C), NEW u \in Seq(C), NEW v \in Seq(C)
  PROVE  Associates(C, t, u, v)
<1>1. t \o u \in Seq(C) /\ u \o v \in Seq(C)
  BY ConcatLen
<1> DEFINE x == t \o u
<1>2. x \in Seq(C)
  BY <1>1
<1> HIDE DEF x
<1>3. x \o v \in Seq(C)
  BY <1>2, ConcatLen
<1>4. (t \o u) \o v = t \o (u \o v)
  BY ConcatAssociative
<1> QED
  BY <1>1, <1>3, <1>4 DEF x, Associates

(* Where a character is first.                                             *)
First(p, x, n) == SelectInSeq(p, LAMBDA c : c = x) = n

(* The first place of an element, and none.                                *)
LEMMA FirstIs ==
  ASSUME NEW C, NEW p \in Seq(C), NEW x, NEW n \in 1 .. Len(p), p[n] = x, \A i \in 1 .. n - 1 : p[i] # x
  PROVE  First(p, x, n)
<1> DEFINE I == {i \in 1 .. Len(p) : p[i] = x}
<1>1. n \in I /\ \A i \in I : n <= i /\ i \in Nat
  OBVIOUS
<1>2. SelectInSeq(p, LAMBDA c : c = x) = IF I # {} THEN Min(I) ELSE 0
  BY DEF SelectInSeq
<1> HIDE DEF I
<1>3. Min(I) = n
  <2>1. \A a \in I : (\A y \in I : a <= y) => a = n
    BY <1>1
  <2>2. Min(I) \in I /\ \A y \in I : Min(I) <= y
    BY <1>1 DEF Min
  <2> QED
    BY <2>1, <2>2
<1> QED
  BY <1>1, <1>2, <1>3 DEF First

(* Nor of five.                                                            *)
Associates5(C, a, b, c, d, e) ==
  /\ (((a \o b) \o c) \o d) \o e = a \o (b \o (c \o (d \o e)))
  /\ (((a \o b) \o c) \o d) \o e \in Seq(C) /\ ((a \o b) \o c) \o d \in Seq(C)

LEMMA Assoc5 ==
  ASSUME NEW C, NEW a \in Seq(C), NEW b \in Seq(C), NEW c \in Seq(C), NEW d \in Seq(C), NEW e \in Seq(C)
  PROVE  Associates5(C, a, b, c, d, e)
<1> DEFINE ab == a \o b
           abc == ab \o c
           de == d \o e
           cde == c \o de
<1>1. ab \in Seq(C) /\ de \in Seq(C) /\ a \o (b \o cde) = ab \o cde
  <2>1. ab \in Seq(C) /\ de \in Seq(C)
    BY ConcatLen
  <2> HIDE DEF ab, de
  <2>2. cde \in Seq(C)
    BY <2>1, ConcatLen
  <2> HIDE DEF cde
  <2>3. (a \o b) \o cde = a \o (b \o cde)
    BY <2>2, Assoc, SMTT(30) DEF Associates
  <2> QED
    BY <2>1, <2>3 DEF ab
<1> HIDE DEF ab, de
<1>2. abc \in Seq(C) /\ ab \o cde = abc \o de
  <2>1. Associates(C, ab, c, de)
    BY <1>1, Assoc
  <2> QED
    BY <2>1 DEF Associates
<1> HIDE DEF abc
<1>3. Associates(C, abc, d, e)
  BY <1>2, Assoc
<1> QED
  BY <1>1, <1>2, <1>3 DEF ab, abc, de, cde, Associates, Associates5

(* A sequence from one of its elements on.                                 *)
From(t, k) == SubSeq(t, k + 1, Len(t))

(* What is left of a list after the first of its elements, and after one   *)
(* more.                                                                   *)
LEMMA FromHas ==
  ASSUME NEW S, NEW t \in Seq(S), NEW a \in 0 .. Len(t)
  PROVE  /\ From(t, a) \in Seq(S) /\ Len(From(t, a)) = Len(t) - a
         /\ \A i \in 1 .. Len(t) - a : From(t, a)[i] = t[a + i]
  BY DEF From

LEMMA FromIs ==
  ASSUME NEW S, NEW t \in Seq(S), NEW k \in 0 .. Len(t) - 1
  PROVE  From(t, k + 1) \in Seq(S) /\ t[k + 1] \in S /\ From(t, k) = <<t[k + 1]>> \o From(t, k + 1)
<1> DEFINE n == Len(t)
           q == <<t[k + 1]>>
           u == From(t, k + 1)
           w == From(t, k)
           p == q \o u
<1>1. n \in Nat /\ k \in Nat /\ k < n /\ t[k + 1] \in S
  OBVIOUS
<1>2. /\ u \in Seq(S) /\ Len(u) = n - (k + 1) /\ \A i \in 1 .. n - (k + 1) : u[i] = t[k + 1 + i]
      /\ w \in Seq(S) /\ Len(w) = n - k /\ \A i \in 1 .. n - k : w[i] = t[k + i]
  <2> DEFINE j == k + 1
  <2>1. j \in 0 .. Len(t) /\ k \in 0 .. Len(t)
    BY <1>1
  <2> HIDE DEF j
  <2> QED
    BY <2>1, FromHas DEF j
<1>3. q \in Seq(S) /\ Len(q) = 1 /\ q[1] = t[k + 1]
  BY <1>1
<1> HIDE DEF q, u, w, n
<1>4. p \in Seq(S) /\ Len(p) = 1 + Len(u) /\ p[1] = t[k + 1] /\ \A i \in 1 .. Len(u) : p[1 + i] = u[i]
  <2>1. Pieces(S, p, q, u)
    BY <1>2, <1>3, PiecesOf
  <2>2. \A i \in 1 .. 1 : p[i] = q[i]
    BY <1>3, <2>1 DEF Pieces
  <2>3. p[1] = t[k + 1]
    <3> HIDE DEF p
    <3> QED
      BY <1>3, <2>2
  <2> HIDE DEF p
  <2> QED
    BY <1>3, <2>1, <2>3 DEF Pieces
<1> HIDE DEF p
<1>5. Len(p) = Len(w)
  BY <1>1, <1>2, <1>4
<1>6. \A i \in 1 .. Len(w) : p[i] = w[i]
  <2> SUFFICES ASSUME NEW i \in 1 .. n - k PROVE p[i] = t[k + i]
    BY <1>2
  <2>1. CASE i = 1
    BY <1>4, <2>1
  <2>2. CASE i # 1
    <3> DEFINE j == i - 1
    <3>1. j \in 1 .. n - (k + 1) /\ i = 1 + j /\ k + i = k + 1 + j
      BY <1>1, <2>2
    <3> HIDE DEF j
    <3> QED
      BY <1>2, <1>4, <3>1
  <2> QED
    BY <2>1, <2>2
<1>7. p = w
  BY <1>2, <1>4, <1>5, <1>6, SeqEqual
<1> QED
  BY <1>1, <1>2, <1>7 DEF w, p, q, u

(* So are texts.                                                           *)
LEMMA MoreTexts ==
  ASSUME NEW C, NEW B, C \subseteq B, NEW v \in Seq(Seq(C))
  PROVE  v \in Seq(Seq(B))
<1> DEFINE S == Seq(C)
           T == Seq(B)
<1>1. S \subseteq T
  BY MoreCharacters
<1>2. v \in Seq(S)
  OBVIOUS
<1> HIDE DEF S, T
<1>3. v \in Seq(T)
  BY <1>1, <1>2, MoreCharacters
<1> QED
  BY <1>3 DEF T

(* Numbers by fives.                                                       *)
LEMMA Fifths ==
  ASSUME NEW i \in Nat
  PROVE  i \div 5 \in Nat /\ i % 5 \in 0 .. 4 /\ i = 5 * (i \div 5) + (i % 5)
  BY SMT

LEMMA FifthIs ==
  ASSUME NEW q \in Nat, NEW r \in 0 .. 4
  PROVE  (5 * q + r) \div 5 = q /\ (5 * q + r) % 5 = r
  BY SMT

LEMMA ElementsOf ==
  ASSUME NEW S, NEW t \in Seq(S)
  PROVE  \A k \in 1 .. Len(t) : t[k] \in S
  OBVIOUS

(* A flattened sequence, one element longer.                               *)
LEMMA FlattenLonger ==
  ASSUME NEW C, NEW ss \in Seq(Seq(C)), NEW k \in 0 .. Len(ss) - 1
  PROVE  /\ FlattenSeq(SubSeq(ss, 1, k)) \in Seq(C) /\ ss[k + 1] \in Seq(C)
         /\ FlattenSeq(SubSeq(ss, 1, k + 1)) = FlattenSeq(SubSeq(ss, 1, k)) \o ss[k + 1]
<1> DEFINE D == Seq(C)
           v == SubSeq(ss, 1, k)
           t == ss[k + 1]
<1>1. ss \in Seq(D)
  OBVIOUS
<1> HIDE DEF D
<1>2. v \in Seq(D) /\ t \in D /\ SubSeq(ss, 1, k + 1) = Append(v, t)
  BY <1>1, LongerPrefix
<1> HIDE DEF v, t
<1>3. FlattenSeq(Append(v, t)) = FlattenSeq(v) \o t /\ FlattenSeq(v) \in Seq(C)
  BY <1>2, FlattenAppend, FlattenType DEF D
<1> QED
  BY <1>2, <1>3 DEF v, t, D

(* Five texts after another.                                               *)
Longer5(P, a, b, c, d, e) ==
  ((((P \o a) \o b) \o c) \o d) \o e = P \o ((((a \o b) \o c) \o d) \o e)

(* Five more texts, taken together.                                        *)
LEMMA LongerBy5 ==
  ASSUME NEW C, NEW P \in Seq(C), NEW a \in Seq(C), NEW b \in Seq(C), NEW c \in Seq(C),
         NEW d \in Seq(C), NEW e \in Seq(C)
  PROVE  Longer5(P, a, b, c, d, e)
<1> DEFINE ab == a \o b
           abc == ab \o c
           abcd == abc \o d
           Pa == P \o a
<1>1. Associates(C, P, a, b)
  BY Assoc
<1>2. Pa \o b = P \o ab /\ ab \in Seq(C)
  BY <1>1 DEF Associates
<1> HIDE DEF ab, Pa
<1>3. Associates(C, P, ab, c)
  BY <1>2, Assoc
<1>4. (P \o ab) \o c = P \o abc /\ abc \in Seq(C)
  BY <1>3 DEF Associates
<1> HIDE DEF abc
<1>5. Associates(C, P, abc, d)
  BY <1>4, Assoc
<1>6. (P \o abc) \o d = P \o abcd /\ abcd \in Seq(C)
  BY <1>5 DEF Associates
<1> HIDE DEF abcd
<1>7. Associates(C, P, abcd, e)
  BY <1>6, Assoc
<1>8. (P \o abcd) \o e = P \o (abcd \o e)
  BY <1>7 DEF Associates
<1>9. (((Pa \o b) \o c) \o d) \o e = P \o (abcd \o e)
  BY <1>2, <1>4, <1>6, <1>8
<1> QED
  BY <1>9 DEF Longer5, abcd, abc, ab, Pa

(* URLs.                                                                   *)
Begins(s, t) == Len(s) <= Len(t) /\ \A i \in 1 .. Len(s) : s[i] = t[i]

(* What it says that one sequence is a prefix of another.                  *)
LEMMA PrefixIs ==
  ASSUME NEW C, NEW s \in Seq(C), NEW t \in Seq(C)
  PROVE  IsPrefix(s, t) <=> Begins(s, t)
<1> DEFINE m == Len(s)
           u == SubSeq(s, 1, m)
           v == SubSeq(t, 1, m)
<1>1. m \in Nat /\ Len(t) \in Nat /\ u = s
  OBVIOUS
<1>2. IsPrefix(s, t) <=> m <= Len(t) /\ s = v
  BY <1>1 DEF IsPrefix
<1>3. m <= Len(t) => v \in Seq(C) /\ Len(v) = m /\ \A i \in 1 .. m : v[i] = t[i]
  <2> HIDE DEF m
  <2> QED
    BY <1>1
<1> HIDE DEF v
<1>4. m <= Len(t) /\ (\A i \in 1 .. m : s[i] = t[i]) => s = v
  <2> SUFFICES ASSUME m <= Len(t), \A i \in 1 .. m : s[i] = t[i] PROVE s = v
    OBVIOUS
  <2>1. \A i \in 1 .. Len(s) : s[i] = v[i]
    BY <1>3
  <2> QED
    BY <1>3, <2>1, SeqEqual
<1>5. m <= Len(t) /\ s = v => \A i \in 1 .. m : s[i] = t[i]
  BY <1>3
<1> HIDE DEF m
<1>6. IsPrefix(s, t) <=> m <= Len(t) /\ \A i \in 1 .. m : s[i] = t[i]
  BY <1>2, <1>4, <1>5
<1> QED
  BY <1>6 DEF Begins, m

LEMMA PrefixOf ==
  ASSUME NEW C, NEW s \in Seq(C), NEW u \in Seq(C)
  PROVE  IsPrefix(s, s \o u)
<1> DEFINE t == s \o u
<1>1. Pieces(C, t, s, u)
  BY PiecesOf
<1>2. Len(s) \in Nat /\ Len(u) \in Nat
  OBVIOUS
<1> HIDE DEF t
<1>3. t \in Seq(C) /\ Begins(s, t)
  BY <1>1, <1>2 DEF Pieces, Begins
<1> QED
  BY <1>3, PrefixIs DEF t

(* The same in front of both.                                              *)
LEMMA PrefixAfter ==
  ASSUME NEW C, NEW h \in Seq(C), NEW s \in Seq(C), NEW t \in Seq(C)
  PROVE  IsPrefix(h \o s, h \o t) <=> IsPrefix(s, t)
<1> DEFINE hs == h \o s
           ht == h \o t
           m == Len(h)
           n == Len(s)
<1>1. Pieces(C, hs, h, s) /\ Pieces(C, ht, h, t)
  BY PiecesOf
<1> HIDE DEF hs, ht
<1>2. /\ hs \in Seq(C) /\ Len(hs) = m + n /\ \A i \in 1 .. m : hs[i] = h[i]
      /\ \A i \in 1 .. n : hs[m + i] = s[i]
  BY <1>1 DEF Pieces
<1>3. /\ ht \in Seq(C) /\ Len(ht) = m + Len(t) /\ \A i \in 1 .. m : ht[i] = h[i]
      /\ \A i \in 1 .. Len(t) : ht[m + i] = t[i]
  BY <1>1 DEF Pieces
<1>4. m \in Nat /\ n \in Nat /\ Len(t) \in Nat
  OBVIOUS
<1> HIDE DEF m, n
<1>5. Begins(hs, ht) => Begins(s, t)
  <2> SUFFICES ASSUME Begins(hs, ht) PROVE Begins(s, t)
    OBVIOUS
  <2>1. n <= Len(t) /\ \A i \in 1 .. m + n : hs[i] = ht[i]
    BY <1>2, <1>3, <1>4 DEF Begins
  <2>2. ASSUME NEW i \in 1 .. n PROVE s[i] = t[i]
    <3> DEFINE j == m + i
    <3>1. j \in 1 .. m + n /\ i \in 1 .. Len(t)
      BY <1>4, <2>1
    <3>2. hs[j] = s[i] /\ ht[j] = t[i]
      BY <1>2, <1>3, <3>1
    <3> HIDE DEF j
    <3> QED
      BY <2>1, <3>1, <3>2
  <2> QED
    BY <2>1, <2>2 DEF Begins, n
<1>6. Begins(s, t) => Begins(hs, ht)
  <2> SUFFICES ASSUME Begins(s, t) PROVE Begins(hs, ht)
    OBVIOUS
  <2>1. n <= Len(t) /\ \A i \in 1 .. n : s[i] = t[i]
    BY DEF Begins, n
  <2>2. ASSUME NEW i \in 1 .. m + n PROVE hs[i] = ht[i]
    <3>1. CASE i \in 1 .. m
      BY <1>2, <1>3, <3>1
    <3>2. CASE i \notin 1 .. m
      <4> DEFINE j == i - m
      <4>1. j \in 1 .. n /\ j \in 1 .. Len(t) /\ i = m + j
        BY <1>4, <2>1, <3>2
      <4> HIDE DEF j
      <4> QED
        BY <1>2, <1>3, <2>1, <4>1
    <3> QED
      BY <3>1, <3>2
  <2> QED
    BY <1>2, <1>3, <1>4, <2>1, <2>2 DEF Begins
<1>7. IsPrefix(hs, ht) <=> Begins(hs, ht)
  BY <1>2, <1>3, PrefixIs
<1>8. IsPrefix(s, t) <=> Begins(s, t)
  BY PrefixIs
<1> QED
  BY <1>5, <1>6, <1>7, <1>8 DEF hs, ht

(* The tail, by places.                                                    *)
LEMMA TailIs ==
  ASSUME NEW C, NEW p \in Seq(C), p # <<>>
  PROVE  Tail(p) = SubSeq(p, 2, Len(p)) /\ Tail(p) \in Seq(C)
  OBVIOUS

=============================================================================
