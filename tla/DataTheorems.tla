---------------------------- MODULE DataTheorems ----------------------------
(***************************************************************************)
(* What loops, filters and the bounded expiring table of TtlLru compute, for *)
(* all data: the lemmas the theorems of the components rest on. The first    *)
(* part is induction without an operator parameter, and what it says of the  *)
(* folds of the community modules: a predicate is the set of what has it, a  *)
(* step of a fold is a function, and well-foundedness of the naturals        *)
(* (WFMin) does the rest. The second is about filters, positions and tables. *)
(***************************************************************************)
EXTENDS TtlLru, Integers, FiniteSetsExt, FiniteSetTheorems, SequenceTheorems, WellFoundedInduction, TLAPS

\* A set of naturals that is not empty has a least element.
LEMMA Least ==
  ASSUME NEW T \in SUBSET Nat, T # {}
  PROVE  \E m \in T : \A k \in T : ~ k < m
<1> DEFINE R == OpToRel(<, Nat)
<1>1. IsWellFoundedOn(R, Nat)
  BY NatLessThanWellFounded
<1>2. \A k, m \in T : k < m => <<k, m>> \in R
  BY DEF OpToRel
<1> HIDE DEF R
<1>3. \E m \in T : \A k \in T : <<k, m>> \notin R
  BY <1>1, WFMin
<1> QED
  BY <1>2, <1>3

\* Induction over the naturals up to n.
LEMMA UpTo ==
  ASSUME NEW n \in Nat, NEW S, 0 \in S, \A k \in 0..(n - 1) : k \in S => k + 1 \in S
  PROVE  0..n \subseteq S
<1> SUFFICES ASSUME NEW x \in 0..n, x \notin S PROVE FALSE
  OBVIOUS
<1> DEFINE T == {k \in 0..n : k \notin S}
<1>1. T \in SUBSET Nat /\ T # {}
  OBVIOUS
<1>2. PICK m \in T : \A k \in T : ~ k < m
  <2> HIDE DEF T
  <2> QED BY <1>1, Least
<1>3. m \in Nat /\ m # 0 /\ m - 1 \in 0..(n - 1) /\ m - 1 \notin T
  BY <1>2
<1>4. m - 1 \in S
  BY <1>3
<1> QED
  BY <1>2, <1>3, <1>4

\* Induction over the subsets of a finite set, one element at a time.
LEMMA SubsetInduction ==
  ASSUME NEW U, IsFiniteSet(U), NEW T, {} \in T,
         \A s \in SUBSET U : s # {} /\ (\A x \in s : s \ {x} \in T) => s \in T
  PROVE  SUBSET U \subseteq T
<1>1. \A s \in SUBSET U : IsFiniteSet(s) /\ Cardinality(s) \in 0..Cardinality(U)
  BY FS_Subset, FS_CardinalityType
<1>2. Cardinality(U) \in Nat
  BY FS_CardinalityType
<1> DEFINE S == {k \in Nat : \A s \in SUBSET U : Cardinality(s) = k => s \in T}
<1>3. 0 \in S
  BY <1>1, FS_EmptySet
<1>4. ASSUME NEW k \in 0..(Cardinality(U) - 1), k \in S PROVE k + 1 \in S
  <2> SUFFICES ASSUME NEW s \in SUBSET U, Cardinality(s) = k + 1 PROVE s \in T
    BY <1>2
  <2>1. s # {} /\ IsFiniteSet(s)
    BY <1>1, <1>2, FS_EmptySet
  <2>2. ASSUME NEW x \in s PROVE s \ {x} \in T
    <3>1. Cardinality(s \ {x}) = Cardinality(s) - 1
      BY <2>1, FS_RemoveElement
    <3> QED
      BY <1>2, <1>4, <3>1
  <2> QED
    BY <2>1, <2>2
<1> HIDE DEF S
<1>5. 0..Cardinality(U) \subseteq S
  BY <1>2, <1>3, <1>4, UpTo
<1> QED
  BY <1>1, <1>5 DEF S

\* A finite set of numbers that is not empty has a greatest.
LEMMA Greatest ==
  ASSUME NEW S \in SUBSET Nat, IsFiniteSet(S), S # {}
  PROVE  \E m \in S : \A k \in S : k <= m
<1> DEFINE T == {s \in SUBSET S : s = {} \/ \E m \in s : \A k \in s : k <= m}
<1>1. {} \in T
  OBVIOUS
<1>2. ASSUME NEW s \in SUBSET S, s # {}, \A x \in s : s \ {x} \in T PROVE s \in T
  <2>1. PICK x \in s : TRUE
    BY <1>2
  <2>2. s \ {x} = {} \/ \E m \in s \ {x} : \A k \in s \ {x} : k <= m
    BY <1>2
  <2>3. CASE s \ {x} = {}
    BY <2>3
  <2>4. CASE s \ {x} # {}
    <3>1. PICK m \in s \ {x} : \A k \in s \ {x} : k <= m
      BY <2>2, <2>4
    <3>2. m \in Nat /\ x \in Nat
      OBVIOUS
    <3>3. CASE m <= x
      <4>1. \A k \in s : k <= x
        BY <3>1, <3>2, <3>3
      <4> QED
        BY <4>1
    <3>4. CASE ~(m <= x)
      <4>1. \A k \in s : k <= m
        BY <3>1, <3>2, <3>4
      <4> QED
        BY <4>1
    <3> QED
      BY <3>3, <3>4
  <2> QED
    BY <2>3, <2>4
<1> HIDE DEF T
<1>3. SUBSET S \subseteq T
  BY <1>1, <1>2, SubsetInduction
<1> QED
  BY <1>3 DEF T

\* What Min and Max choose.
LEMMA MinIs ==
  ASSUME NEW S \in SUBSET Nat, S # {}
  PROVE  Min(S) \in S /\ \A k \in S : Min(S) <= k
<1>1. PICK m \in S : \A k \in S : ~ k < m
  BY Least
<1>2. \A k \in S : m <= k
  BY <1>1
<1> QED
  BY <1>2, Zenon DEF Min

LEMMA MaxIs ==
  ASSUME NEW S \in SUBSET Nat, IsFiniteSet(S), S # {}
  PROVE  Max(S) \in S /\ \A k \in S : k <= Max(S)
<1>1. PICK m \in S : \A k \in S : k <= m
  BY Greatest
<1>2. \A k \in S : m >= k
  BY <1>1
<1>3. Max(S) \in S /\ \A k \in S : Max(S) >= k
  BY <1>2, Zenon DEF Max
<1> QED
  BY <1>3

-----------------------------------------------------------------------------
(* h folds the subsets of U: a set is taken apart by the element C chooses of *)
(* it, and put together again by F.                                           *)
Folds(h, U, base, C, F) ==
  h = [s \in SUBSET U |-> IF s = {} THEN base ELSE F[h[s \ {C[s]}]][C[s]]]

\* A finite set can be folded.
LEMMA FoldExists ==
  ASSUME NEW U, IsFiniteSet(U), NEW A, NEW base \in A, NEW F \in [A -> [U -> A]],
         NEW C, \A s \in SUBSET U : s # {} => C[s] \in s
  PROVE  \E h \in [SUBSET U -> A] : Folds(h, U, base, C, F)
<1> DEFINE upTo(g, k) ==
             \A s \in SUBSET U : Cardinality(s) <= k =>
               g[s] = IF s = {} THEN base ELSE F[g[s \ {C[s]}]][C[s]]
           S == {k \in Nat : \E g \in [SUBSET U -> A] : upTo(g, k)}
<1>1. \A s \in SUBSET U : IsFiniteSet(s) /\ Cardinality(s) \in 0..Cardinality(U)
  BY FS_Subset, FS_CardinalityType
<1>2. Cardinality(U) \in Nat
  BY FS_CardinalityType
<1>3. \A s \in SUBSET U : Cardinality(s) = 0 <=> s = {}
  BY <1>1, FS_EmptySet
<1>4. \A s \in SUBSET U : s # {} => Cardinality(s \ {C[s]}) = Cardinality(s) - 1
  BY <1>1, FS_RemoveElement
<1>5. 0 \in S
  <2> DEFINE flat == [s \in SUBSET U |-> base]
  <2>1. \A s \in SUBSET U : Cardinality(s) <= 0 => s = {}
    <3> SUFFICES ASSUME NEW s \in SUBSET U, Cardinality(s) <= 0 PROVE s = {}
      OBVIOUS
    <3>1. Cardinality(s) = 0
      BY <1>1, <1>2
    <3> QED
      BY <1>3, <3>1
  <2>2. flat \in [SUBSET U -> A] /\ \A s \in SUBSET U : flat[s] = base
    OBVIOUS
  <2> HIDE DEF flat
  <2>3. upTo(flat, 0)
    BY <2>1, <2>2
  <2> HIDE DEF upTo
  <2> QED
    BY <2>2, <2>3
<1>6. ASSUME NEW k \in 0..(Cardinality(U) - 1), k \in S PROVE k + 1 \in S
  <2>1. PICK g \in [SUBSET U -> A] : upTo(g, k)
    BY <1>6
  <2> DEFINE next == [s \in SUBSET U |-> IF Cardinality(s) <= k \/ s = {} THEN g[s]
                                         ELSE F[g[s \ {C[s]}]][C[s]]]
  <2>2. next \in [SUBSET U -> A]
    <3>1. ASSUME NEW s \in SUBSET U, s # {} PROVE F[g[s \ {C[s]}]][C[s]] \in A
      <4>1. g[s \ {C[s]}] \in A /\ C[s] \in U
        BY <3>1
      <4>2. F[g[s \ {C[s]}]] \in [U -> A]
        BY <4>1
      <4> QED
        BY <4>1, <4>2
    <3> QED
      BY <3>1
  <2>3. ASSUME NEW s \in SUBSET U, Cardinality(s) <= k + 1
        PROVE  next[s] = IF s = {} THEN base ELSE F[next[s \ {C[s]}]][C[s]]
    <3>1. CASE s = {}
      <4>1. Cardinality(s) <= k
        BY <1>2, <1>3, <3>1
      <4> QED
        BY <2>1, <3>1, <4>1
    <3>2. CASE s # {}
      <4>1. s \ {C[s]} \in SUBSET U /\ Cardinality(s \ {C[s]}) <= k
        <5>1. Cardinality(s \ {C[s]}) = Cardinality(s) - 1
          BY <1>4, <3>2
        <5>2. Cardinality(s) \in Nat
          BY <1>1, <1>2
        <5> QED
          BY <1>2, <2>3, <5>1, <5>2
      <4>2. next[s \ {C[s]}] = g[s \ {C[s]}]
        BY <4>1
      <4>3. next[s] = F[g[s \ {C[s]}]][C[s]]
        BY <2>1, <3>2
      <4> QED
        BY <3>2, <4>2, <4>3
    <3> QED
      BY <3>1, <3>2
  <2>4. upTo(next, k + 1)
    BY <2>3
  <2>5. k + 1 \in Nat
    BY <1>2
  <2> HIDE DEF next, upTo
  <2> QED
    BY <2>2, <2>4, <2>5
<1> HIDE DEF S
<1>7. 0..Cardinality(U) \subseteq S
  BY <1>2, <1>5, <1>6, UpTo
<1> QED
  <2>0. Cardinality(U) \in S
    BY <1>2, <1>7
  <2>1. PICK g \in [SUBSET U -> A] : upTo(g, Cardinality(U))
    BY <2>0 DEF S
  <2>2. \A s \in SUBSET U : g[s] = IF s = {} THEN base ELSE F[g[s \ {C[s]}]][C[s]]
    <3> SUFFICES ASSUME NEW s \in SUBSET U
                 PROVE  g[s] = IF s = {} THEN base ELSE F[g[s \ {C[s]}]][C[s]]
      OBVIOUS
    <3>1. Cardinality(s) <= Cardinality(U)
      BY <1>1, <1>2
    <3> QED
      BY <2>1, <3>1, Zenon
  <2>3. Folds(g, U, base, C, F)
    BY <2>2 DEF Folds
  <2> QED
    BY <2>3

(* h[s] is the sum of what W says of the elements of s, taken as C chooses.   *)
Sums(h, U, W, C) ==
  /\ W \in [U -> Int]
  /\ h \in [SUBSET U -> Int]
  /\ \A s \in SUBSET U : s # {} => C[s] \in s /\ h[s] = W[C[s]] + h[s \ {C[s]}]

\* A sum does not depend on the order its terms are taken in.
LEMMA SumTakesAny ==
  ASSUME NEW U, IsFiniteSet(U), NEW h, NEW W, NEW C, Sums(h, U, W, C), NEW z \in U
  PROVE  h[U] = W[z] + h[U \ {z}]
<1>0. /\ W \in [U -> Int] /\ h \in [SUBSET U -> Int]
      /\ \A s \in SUBSET U : s # {} => C[s] \in s /\ h[s] = W[C[s]] + h[s \ {C[s]}]
  BY DEF Sums
<1> DEFINE T == {s \in SUBSET U : \A x \in s : h[s] = W[x] + h[s \ {x}]}
<1>1. {} \in T
  OBVIOUS
<1>2. ASSUME NEW s \in SUBSET U, s # {}, \A y \in s : s \ {y} \in T PROVE s \in T
  <2> SUFFICES ASSUME NEW x \in s PROVE h[s] = W[x] + h[s \ {x}]
    OBVIOUS
  <2> DEFINE c == C[s]
  <2>1. c \in s /\ h[s] = W[c] + h[s \ {c}]
    BY <1>0, <1>2
  <2> HIDE DEF c
  <2>2. CASE c = x
    BY <2>1, <2>2
  <2>3. CASE c # x
    <3>1. h[s \ {c}] = W[x] + h[(s \ {c}) \ {x}]
      BY <1>2, <2>1, <2>3
    <3>2. h[s \ {x}] = W[c] + h[(s \ {x}) \ {c}]
      BY <1>2, <2>1, <2>3
    <3>3. (s \ {c}) \ {x} = (s \ {x}) \ {c}
      OBVIOUS
    <3> DEFINE rest == h[(s \ {x}) \ {c}]
    <3>4. W[x] \in Int /\ W[c] \in Int /\ rest \in Int
      BY <1>0, <2>1
    <3>5. h[s \ {c}] = W[x] + rest /\ h[s \ {x}] = W[c] + rest
      BY <3>1, <3>2, <3>3, Zenon
    <3> HIDE DEF rest
    <3>6. W[c] + (W[x] + rest) = W[x] + (W[c] + rest)
      BY <3>4
    <3> QED
      BY <2>1, <3>5, <3>6, Zenon
  <2> QED
    BY <2>2, <2>3
<1> HIDE DEF T
<1>3. SUBSET U \subseteq T
  BY <1>1, <1>2, SubsetInduction
<1>4. U \in T
  BY <1>3
<1> QED
  BY <1>4 DEF T
-----------------------------------------------------------------------------
(* h[i] is what n steps F make of base once i of them are done.               *)
Iterates(h, n, base, F) ==
  h = [i \in 0..n |-> IF i = 0 THEN base ELSE F[h[i - 1]][i]]

\* Steps can be iterated.
LEMMA IterateExists ==
  ASSUME NEW n \in Nat, NEW A, NEW base \in A, NEW F \in [A -> [1..n -> A]]
  PROVE  \E h \in [0..n -> A] : Iterates(h, n, base, F)
<1> DEFINE upTo(g, k) ==
             \A i \in 0..n : i <= k => g[i] = IF i = 0 THEN base ELSE F[g[i - 1]][i]
           S == {k \in 0..n : \E g \in [0..n -> A] : upTo(g, k)}
<1>1. 0 \in S
  <2> DEFINE flat == [i \in 0..n |-> base]
  <2>1. flat \in [0..n -> A] /\ upTo(flat, 0)
    OBVIOUS
  <2> HIDE DEF flat, upTo
  <2> QED
    BY <2>1
<1>2. ASSUME NEW k \in 0..(n - 1), k \in S PROVE k + 1 \in S
  <2>1. PICK g \in [0..n -> A] : upTo(g, k)
    BY <1>2
  <2> DEFINE next == [i \in 0..n |-> IF i <= k THEN g[i] ELSE F[g[k]][k + 1]]
  <2>2. next \in [0..n -> A]
    <3>1. g[k] \in A
      OBVIOUS
    <3>2. F[g[k]] \in [1..n -> A]
      BY <3>1
    <3>3. F[g[k]][k + 1] \in A
      BY <3>2
    <3> QED
      BY <3>3
  <2>3. ASSUME NEW i \in 0..n, i <= k + 1
        PROVE  next[i] = IF i = 0 THEN base ELSE F[next[i - 1]][i]
    <3>1. CASE i = 0
      BY <2>1, <3>1
    <3>2. CASE i # 0 /\ i <= k
      <4>1. next[i] = g[i] /\ next[i - 1] = g[i - 1]
        BY <3>2
      <4> QED
        BY <2>1, <3>2, <4>1
    <3>3. CASE i = k + 1
      <4>1. next[i] = F[g[k]][k + 1] /\ next[i - 1] = g[k] /\ i # 0
        BY <3>3
      <4> QED
        BY <3>3, <4>1
    <3> QED
      BY <2>3, <3>1, <3>2, <3>3
  <2> HIDE DEF next
  <2>4. upTo(next, k + 1)
    BY <2>3
  <2>5. k + 1 \in 0..n
    OBVIOUS
  <2> HIDE DEF upTo
  <2> QED
    BY <2>2, <2>4, <2>5
<1> HIDE DEF S
<1>3. n \in S
  <2>1. 0..n \subseteq S
    BY <1>1, <1>2, UpTo
  <2> QED
    BY <2>1
<1>4. PICK h \in [0..n -> A] : upTo(h, n)
  BY <1>3 DEF S
<1>5. \A i \in 0..n : h[i] = IF i = 0 THEN base ELSE F[h[i - 1]][i]
  BY <1>4
<1> QED
  BY <1>5 DEF Iterates

(* ------------------------------- filters --------------------------------- *)

(* g numbers, in order, the first n positions kept, and o lists what is there. *)
Picks(g, o, s, kept, n) ==
  /\ g \in [1..Len(o) -> kept \cap (1..n)]
  /\ \A i \in 1..Len(o) : o[i] = s[g[i]]
  /\ \A i, j \in 1..Len(o) : i < j => g[i] < g[j]
  /\ \A k \in kept \cap (1..n) : \E i \in 1..Len(o) : g[i] = k

(* A filter keeps the members at the positions kept, in their order. *)
LEMMA KeepingPicks ==
  ASSUME NEW A, NEW s \in Seq(A), NEW kept
  PROVE  /\ Keeping(s, kept) \in Seq(A)
         /\ \E g : Picks(g, Keeping(s, kept), s, kept, Len(s))
<1> DEFINE n == Len(s)
           step(a, i) == IF i \in kept THEN Append(a, s[i]) ELSE a
           F == [a \in Seq(A) |-> [i \in 1..n |-> step(a, i)]]
           Is(h) == h = [i \in 0..n |-> IF i = 0 THEN <<>> ELSE IF i \in kept THEN Append(h[i - 1], s[i]) ELSE h[i - 1]]
           f == CHOOSE h : Is(h)
<1>1. n \in Nat /\ \A i \in 1..n : s[i] \in A
  OBVIOUS
<1>2. \A a \in Seq(A), i \in 1..n : step(a, i) \in Seq(A)
  BY <1>1, AppendProperties
<1>3. F \in [Seq(A) -> [1..n -> Seq(A)]] /\ \A a \in Seq(A), i \in 1..n : F[a][i] = step(a, i)
  <2> HIDE DEF step
  <2> QED
    BY <1>2
<1> HIDE DEF F
<1>4. <<>> \in Seq(A)
  OBVIOUS
<1>5. PICK h \in [0..n -> Seq(A)] : Iterates(h, n, <<>>, F)
  BY <1>1, <1>3, <1>4, IterateExists
<1>6. \A i \in 0..n : i # 0 => F[h[i - 1]][i] = step(h[i - 1], i)
  <2> SUFFICES ASSUME NEW i \in 0..n, i # 0 PROVE F[h[i - 1]][i] = step(h[i - 1], i)
    OBVIOUS
  <2>1. i \in 1..n /\ i - 1 \in 0..n
    BY <1>1
  <2>2. h[i - 1] \in Seq(A)
    BY <2>1
  <2> HIDE DEF step
  <2> QED
    BY <1>3, <2>1, <2>2
<1>7. Is(h)
  BY <1>5, <1>6 DEF Iterates
<1>8. Is(f)
  BY <1>7
<1>9. Keeping(s, kept) = f[n]
  BY DEF Keeping
<1> HIDE DEF f
<1>10. \A i \in 0..n : f[i] = IF i = 0 THEN <<>> ELSE step(f[i - 1], i)
  BY <1>8
<1> DEFINE T == {i \in 0..n : f[i] \in Seq(A) /\ \E g : Picks(g, f[i], s, kept, i)}
<1>11. 0 \in T
  <2>1. f[0] = <<>>
    BY <1>10
  <2> DEFINE g == [i \in {} |-> 0]
  <2>2. Picks(g, <<>>, s, kept, 0)
    BY DEF Picks
  <2> HIDE DEF g
  <2>3. \E x : Picks(x, f[0], s, kept, 0)
    BY <2>1, <2>2
  <2>4. 0 \in 0..n /\ f[0] \in Seq(A)
    BY <1>1, <1>4, <2>1
  <2> QED
    BY <2>3, <2>4, Zenon
<1>12. ASSUME NEW k \in 0..(n - 1), k \in T PROVE k + 1 \in T
  <2>1. PICK g : Picks(g, f[k], s, kept, k)
    BY <1>12
  <2>2. f[k] \in Seq(A) /\ f[k + 1] = step(f[k], k + 1)
    BY <1>10, <1>12
  <2>3. CASE k + 1 \notin kept
    <3>1. f[k + 1] = f[k] /\ kept \cap (1..(k + 1)) = kept \cap (1..k)
      BY <2>2, <2>3
    <3>2. Picks(g, f[k + 1], s, kept, k + 1)
      BY <2>1, <3>1 DEF Picks
    <3> QED
      BY <2>2, <3>1, <3>2
  <2>4. CASE k + 1 \in kept
    <3> DEFINE m == Len(f[k])
               o == Append(f[k], s[k + 1])
               g2 == [i \in 1..(m + 1) |-> IF i = m + 1 THEN k + 1 ELSE g[i]]
    <3>1. m \in Nat /\ s[k + 1] \in A
      BY <1>1, <2>2
    <3>2. /\ o \in Seq(A) /\ Len(o) = m + 1 /\ o[m + 1] = s[k + 1]
          /\ \A i \in 1..m : o[i] = f[k][i]
      BY <2>2, <3>1, AppendProperties
    <3>3. f[k + 1] = o
      BY <2>2, <2>4
    <3> HIDE DEF o
    <3>4. /\ g \in [1..m -> kept \cap (1..k)]
          /\ \A i \in 1..m : f[k][i] = s[g[i]]
          /\ \A i, j \in 1..m : i < j => g[i] < g[j]
          /\ \A x \in kept \cap (1..k) : \E i \in 1..m : g[i] = x
      BY <2>1 DEF Picks
    <3> HIDE DEF m
    <3>5. g2 \in [1..(m + 1) -> kept \cap (1..(k + 1))]
      BY <2>4, <3>1, <3>4
    <3>6. /\ g2[m + 1] = k + 1
          /\ \A i \in 1..m : g2[i] = g[i] /\ g[i] \in 1..k
      BY <3>1, <3>4
    <3> HIDE DEF g2
    <3>7. \A i \in 1..(m + 1) : o[i] = s[g2[i]]
      BY <3>1, <3>2, <3>4, <3>6
    <3>8. \A i, j \in 1..(m + 1) : i < j => g2[i] < g2[j]
      <4> SUFFICES ASSUME NEW i \in 1..(m + 1), NEW j \in 1..(m + 1), i < j PROVE g2[i] < g2[j]
        OBVIOUS
      <4>1. i \in 1..m
        BY <3>1
      <4>2. CASE j = m + 1
        BY <3>6, <4>1, <4>2
      <4>3. CASE j \in 1..m
        BY <3>4, <3>6, <4>1, <4>3
      <4> QED
        BY <3>1, <4>2, <4>3
    <3>9. \A x \in kept \cap (1..(k + 1)) : \E i \in 1..(m + 1) : g2[i] = x
      <4> SUFFICES ASSUME NEW x \in kept, x \in 1..(k + 1)
                   PROVE  \E i \in 1..(m + 1) : g2[i] = x
        OBVIOUS
      <4>1. CASE x = k + 1
        BY <3>1, <3>6, <4>1
      <4>2. CASE x \in 1..k
        <5>1. PICK i \in 1..m : g[i] = x
          BY <3>4, <4>2
        <5> QED
          BY <3>1, <3>6, <5>1
      <4> QED
        BY <4>1, <4>2
    <3>10. Picks(g2, o, s, kept, k + 1)
      BY <3>2, <3>5, <3>7, <3>8, <3>9 DEF Picks
    <3> QED
      BY <3>2, <3>3, <3>10
  <2> QED
    BY <2>3, <2>4
<1> HIDE DEF T
<1>13. 0..n \subseteq T
  BY <1>1, <1>11, <1>12, UpTo
<1> QED
  BY <1>1, <1>9, <1>13 DEF T

(* ------------------------------ positions -------------------------------- *)

(* There are n positions up to n. *)
LEMMA Positions ==
  ASSUME NEW n \in Nat
  PROVE  IsFiniteSet(1..n) /\ Cardinality(1..n) = n
<1>1. /\ IsFiniteSet(1..n)
      /\ Cardinality(1..n) = IF 1 > n THEN 0 ELSE n - 1 + 1
  BY FS_Interval
<1> DEFINE c == Cardinality(1..n)
<1>2. c = IF 1 > n THEN 0 ELSE n - 1 + 1
  BY <1>1
<1> HIDE DEF c
<1>3. c = n
  BY <1>2
<1> QED
  BY <1>1, <1>3 DEF c

(* The image of finitely many positions is finite. *)
LEMMA ImageFinite ==
  ASSUME NEW P, IsFiniteSet(P), NEW f, DOMAIN f = P
  PROVE  IsFiniteSet({f[k] : k \in P})
<1> DEFINE R == {f[k] : k \in P}
<1>2. [k \in P |-> f[k]] \in Surjection(P, R)
  BY DEF Surjection
<1> HIDE DEF R
<1>3. IsFiniteSet(R)
  BY <1>2, FS_Surjection
<1> QED
  BY <1>3 DEF R

\* Where the members of a kind are, and those of them that are kept.
Places(s, V)           == {i \in DOMAIN s : s[i] \in V}
KeptPlaces(s, kept, V) == {k \in DOMAIN s : k \in kept /\ s[k] \in V}

(* A filter keeps as many of each kind as there were at the positions kept. *)
LEMMA KeepingCounts ==
  ASSUME NEW A, NEW s \in Seq(A), NEW kept, NEW V
  PROVE  Cardinality(Places(Keeping(s, kept), V)) = Cardinality(KeptPlaces(s, kept, V))
<1> DEFINE o == Keeping(s, kept)
           n == Len(s)
           S == {i \in 1..Len(o) : o[i] \in V}
           T == {k \in 1..n : k \in kept /\ s[k] \in V}
<1>1. o \in Seq(A) /\ \E g : Picks(g, o, s, kept, n)
  BY KeepingPicks
<1>2. PICK g : Picks(g, o, s, kept, n)
  BY <1>1
<1>3. n \in Nat /\ Len(o) \in Nat /\ DOMAIN o = 1..Len(o) /\ DOMAIN s = 1..n
  BY <1>1
<1> HIDE DEF o, n
<1>4. /\ g \in [1..Len(o) -> kept \cap (1..n)]
      /\ \A i \in 1..Len(o) : o[i] = s[g[i]]
      /\ \A i, j \in 1..Len(o) : i < j => g[i] < g[j]
      /\ \A k \in kept \cap (1..n) : \E i \in 1..Len(o) : g[i] = k
  BY <1>2 DEF Picks
<1>5. \A i \in 1..Len(o) : g[i] \in 1..n /\ g[i] \in kept
  BY <1>4
<1>6. \A i, j \in 1..Len(o) : g[i] = g[j] => i = j
  <2> SUFFICES ASSUME NEW i \in 1..Len(o), NEW j \in 1..Len(o), g[i] = g[j] PROVE i = j
    OBVIOUS
  <2>1. g[i] \in Nat /\ g[j] \in Nat /\ i \in Nat /\ j \in Nat
    BY <1>3, <1>5
  <2> QED
    BY <1>4, <2>1
<1> DEFINE f == [i \in S |-> g[i]]
<1>7. f \in [S -> T]
  <2>1. \A i \in S : g[i] \in T
    BY <1>4, <1>5
  <2> QED
    BY <2>1
<1>8. \A i, j \in S : f[i] = f[j] => i = j
  BY <1>6
<1>9. \A k \in T : \E i \in S : f[i] = k
  <2> SUFFICES ASSUME NEW k \in T PROVE \E i \in S : f[i] = k
    OBVIOUS
  <2>1. PICK i \in 1..Len(o) : g[i] = k
    BY <1>4
  <2>2. i \in S
    BY <1>4, <2>1
  <2> QED
    BY <2>1, <2>2
<1>10. S \subseteq 1..Len(o)
  OBVIOUS
<1>11. Places(o, V) = S /\ KeptPlaces(s, kept, V) = T
  BY <1>3 DEF Places, KeptPlaces
<1> HIDE DEF S, T, f
<1>12. f \in Bijection(S, T)
  BY <1>7, <1>8, <1>9 DEF Bijection, Injection, IsInjective, Surjection
<1>13. IsFiniteSet(S)
  BY <1>3, <1>10, Positions, FS_Subset
<1>14. Cardinality(T) = Cardinality(S)
  BY <1>12, <1>13, FS_Bijection DEF ExistsBijection
<1> QED
  BY <1>11, <1>14 DEF o

(* --------------------------- what tables remember ------------------------ *)

\* A table has one entry under a key.
Table(T) ==
  /\ \E E : T \in Seq(E)
  /\ \A i \in DOMAIN T : T[i].until \in Nat
  /\ \A i, j \in DOMAIN T : T[i].key = T[j].key => i = j

\* T holds the key until then, and only others were used since.
Retained(T, key, until, others) ==
  \E p \in DOMAIN T : /\ T[p].key = key /\ T[p].until >= until
                      /\ \A q \in DOMAIN T : q > p => T[q].key \in others

\* Either that, or as many others as T has room for.
Sheltered(T, key, until, others, capacity) ==
  Retained(T, key, until, others) \/ Cardinality(others) >= capacity

LEMMA TableDomain ==
  ASSUME NEW T, Table(T)
  PROVE  Len(T) \in Nat /\ DOMAIN T = 1..Len(T)
BY DEF Table

(* A filter leaves a table, and what it keeps keeps its place. *)
LEMMA KeepingTable ==
  ASSUME NEW T, Table(T), NEW kept
  PROVE  /\ Table(Keeping(T, kept))
         /\ \A i \in DOMAIN Keeping(T, kept) : \E k \in DOMAIN T : k \in kept /\ Keeping(T, kept)[i] = T[k]
         /\ \A key, until, others :
              Retained(T, key, until, others) /\ (\A i \in DOMAIN T : T[i].key = key => i \in kept)
                => Retained(Keeping(T, kept), key, until, others)
<1> DEFINE o == Keeping(T, kept)
           n == Len(T)
<1>1. PICK E : T \in Seq(E)
  BY DEF Table
<1>2. o \in Seq(E) /\ \E g : Picks(g, o, T, kept, n)
  <2> HIDE DEF o
  <2> QED
    BY <1>1, KeepingPicks DEF o
<1>3. PICK g : Picks(g, o, T, kept, n)
  BY <1>2
<1>4. n \in Nat /\ DOMAIN T = 1..n
  BY TableDomain
<1> HIDE DEF o, n
<1>5. Len(o) \in Nat /\ DOMAIN o = 1..Len(o)
  BY <1>2
<1>6. /\ g \in [1..Len(o) -> kept \cap (1..n)]
      /\ \A i \in 1..Len(o) : o[i] = T[g[i]]
      /\ \A i, j \in 1..Len(o) : i < j => g[i] < g[j]
      /\ \A k \in kept \cap (1..n) : \E i \in 1..Len(o) : g[i] = k
  BY <1>3 DEF Picks
<1>7. \A i \in 1..Len(o) : g[i] \in kept /\ g[i] \in 1..n
  BY <1>6
<1>8. \A i, j \in 1..Len(o) : g[i] = g[j] => i = j
  <2> SUFFICES ASSUME NEW i \in 1..Len(o), NEW j \in 1..Len(o), g[i] = g[j] PROVE i = j
    OBVIOUS
  <2>1. g[i] \in Nat /\ g[j] \in Nat
    BY <1>4, <1>7
  <2> QED
    BY <1>5, <1>6, <2>1
<1>9. Table(o)
  <2>1. \A i \in 1..Len(o) : o[i].until \in Nat
    BY <1>4, <1>6, <1>7 DEF Table
  <2>2. \A i, j \in 1..Len(o) : o[i].key = o[j].key => i = j
    <3> SUFFICES ASSUME NEW i \in 1..Len(o), NEW j \in 1..Len(o), o[i].key = o[j].key PROVE i = j
      OBVIOUS
    <3>1. T[g[i]].key = T[g[j]].key
      BY <1>6
    <3>2. g[i] = g[j]
      BY <1>4, <1>7, <3>1 DEF Table
    <3> QED
      BY <1>8, <3>2
  <2> QED
    BY <1>2, <1>5, <2>1, <2>2 DEF Table
<1>10. \A i \in DOMAIN o : \E k \in DOMAIN T : k \in kept /\ o[i] = T[k]
  BY <1>4, <1>5, <1>6, <1>7
<1>11. ASSUME NEW key, NEW until, NEW others, Retained(T, key, until, others),
              \A i \in DOMAIN T : T[i].key = key => i \in kept
       PROVE  Retained(o, key, until, others)
  <2>1. PICK p \in 1..n : /\ T[p].key = key /\ T[p].until >= until
                          /\ \A q \in 1..n : q > p => T[q].key \in others
    BY <1>4, <1>11 DEF Retained
  <2>2. p \in kept
    BY <1>4, <1>11, <2>1
  <2>3. PICK i \in 1..Len(o) : g[i] = p
    BY <1>6, <2>2
  <2>4. o[i].key = key /\ o[i].until >= until
    BY <1>6, <2>1, <2>3
  <2>5. ASSUME NEW q \in 1..Len(o), q > i PROVE o[q].key \in others
    <3>1. g[q] > p /\ g[q] \in 1..n
      <4>1. i < q
        BY <1>5, <2>5
      <4>2. g[i] < g[q]
        BY <1>6, <4>1
      <4> QED
        BY <1>4, <1>7, <2>3, <4>2
    <3> QED
      BY <1>6, <2>1, <3>1
  <2> QED
    BY <1>5, <2>4, <2>5 DEF Retained
<1> QED
  BY <1>9, <1>10, <1>11 DEF o

(* The end of a table is one, and forgets a key only for as many others as   *)
(* it is long.                                                               *)
LEMMA SuffixTable ==
  ASSUME NEW T, Table(T), NEW over \in 0..Len(T)
  PROVE  /\ Table(SubSeq(T, over + 1, Len(T)))
         /\ Len(SubSeq(T, over + 1, Len(T))) = Len(T) - over
         /\ \A i \in DOMAIN SubSeq(T, over + 1, Len(T)) : \E k \in DOMAIN T : SubSeq(T, over + 1, Len(T))[i] = T[k]
         /\ \A key, until, others :
              IsFiniteSet(others) /\ Retained(T, key, until, others)
                => \/ Retained(SubSeq(T, over + 1, Len(T)), key, until, others)
                   \/ over > 0 /\ Cardinality(others) >= Len(T) - over
<1> DEFINE n == Len(T)
           s == SubSeq(T, over + 1, n)
           m == n - over
<1>1. PICK E : T \in Seq(E)
  BY DEF Table
<1>2. n \in Nat /\ DOMAIN T = 1..n
  BY TableDomain
<1>3. s \in Seq(E) /\ Len(s) = m /\ \A i \in 1..m : s[i] = T[over + i]
  BY <1>1, SubSeqProperties
<1>4. m \in Nat /\ over \in Nat /\ \A i \in 1..m : over + i \in 1..n
  BY <1>2
<1>5. DOMAIN s = 1..m
  BY <1>3
<1> HIDE DEF s
<1>6. \A k \in 1..n : k > over => k - over \in 1..m /\ s[k - over] = T[k]
  <2> SUFFICES ASSUME NEW k \in 1..n, k > over PROVE k - over \in 1..m /\ s[k - over] = T[k]
    OBVIOUS
  <2>1. k - over \in 1..m /\ over + (k - over) = k
    BY <1>2, <1>4
  <2> QED
    BY <1>3, <2>1
<1>7. Table(s)
  <2>1. \A i \in 1..m : s[i].until \in Nat
    BY <1>2, <1>3, <1>4 DEF Table
  <2>2. \A i, j \in 1..m : s[i].key = s[j].key => i = j
    <3> SUFFICES ASSUME NEW i \in 1..m, NEW j \in 1..m, s[i].key = s[j].key PROVE i = j
      OBVIOUS
    <3>1. over + i \in DOMAIN T /\ over + j \in DOMAIN T /\ T[over + i].key = T[over + j].key
      BY <1>2, <1>3, <1>4
    <3>2. over + i = over + j
      BY <3>1, Zenon DEF Table
    <3> QED
      BY <1>4, <3>2
  <2> QED
    BY <1>3, <1>5, <2>1, <2>2 DEF Table
<1>8. ASSUME NEW key, NEW until, NEW others, IsFiniteSet(others), Retained(T, key, until, others)
      PROVE  \/ Retained(s, key, until, others)
             \/ over > 0 /\ Cardinality(others) >= m
  <2>1. PICK p \in 1..n : /\ T[p].key = key /\ T[p].until >= until
                          /\ \A q \in 1..n : q > p => T[q].key \in others
    BY <1>2, <1>8 DEF Retained
  <2>2. CASE p > over
    <3>1. p - over \in 1..m /\ s[p - over] = T[p]
      BY <1>6, <2>2
    <3>2. ASSUME NEW q \in 1..m, q > p - over PROVE s[q].key \in others
      <4>1. over + q \in 1..n /\ over + q > p
        BY <1>2, <1>4, <3>2
      <4> QED
        BY <1>3, <2>1, <4>1
    <3> QED
      BY <1>5, <2>1, <3>1, <3>2 DEF Retained
  <2>3. CASE ~(p > over)
    <3> DEFINE f == [i \in 1..m |-> s[i].key]
    <3>1. \A i \in 1..m : s[i].key \in others
      <4> SUFFICES ASSUME NEW i \in 1..m PROVE s[i].key \in others
        OBVIOUS
      <4>1. over + i \in 1..n /\ over + i > p
        BY <1>2, <1>4, <2>3
      <4> QED
        BY <1>3, <2>1, <4>1
    <3>2. f \in Injection(1..m, others)
      <4>1. \A i, j \in 1..m : s[i].key = s[j].key => i = j
        BY <1>5, <1>7 DEF Table
      <4> QED
        BY <3>1, <4>1 DEF Injection, IsInjective
    <3>3. Cardinality(1..m) <= Cardinality(others)
      BY <1>8, <3>2, FS_Injection
    <3>4. Cardinality(1..m) = m /\ Cardinality(others) \in Nat
      BY <1>4, <1>8, Positions, FS_CardinalityType
    <3> QED
      BY <1>2, <1>4, <2>1, <2>3, <3>3, <3>4
  <2> QED
    BY <2>2, <2>3
<1>9. \A i \in DOMAIN s : \E k \in DOMAIN T : s[i] = T[k]
  BY <1>2, <1>3, <1>4, <1>5
<1> QED
  BY <1>3, <1>7, <1>8, <1>9 DEF s

(* A new key goes to the end. *)
LEMMA AppendTable ==
  ASSUME NEW T, Table(T), NEW e, e.until \in Nat, \A i \in DOMAIN T : T[i].key # e.key
  PROVE  /\ Table(Append(T, e)) /\ Len(Append(T, e)) = Len(T) + 1
         /\ Retained(Append(T, e), e.key, e.until, {})
         /\ \A key, until, others : Retained(T, key, until, others) =>
              Retained(Append(T, e), key, until, others \union {e.key})
<1> DEFINE n == Len(T)
           a == Append(T, e)
<1>1. PICK E : T \in Seq(E)
  BY DEF Table
<1>2. n \in Nat /\ DOMAIN T = 1..n
  BY TableDomain
<1>3. T \in Seq(E \union {e})
  BY <1>1, SMT
<1>4. /\ a \in Seq(E \union {e}) /\ Len(a) = n + 1 /\ a[n + 1] = e
      /\ \A i \in 1..n : a[i] = T[i]
  BY <1>3, AppendProperties
<1>5. DOMAIN a = 1..(n + 1)
  BY <1>4
<1> HIDE DEF a, n
<1>6. Table(a)
  <2>1. ASSUME NEW i \in 1..(n + 1) PROVE a[i].until \in Nat
    <3>1. CASE i \in 1..n
      BY <1>2, <1>4, <3>1 DEF Table
    <3>2. CASE i = n + 1
      BY <1>4, <3>2
    <3> QED
      BY <1>2, <3>1, <3>2
  <2>2. ASSUME NEW i \in 1..(n + 1), NEW j \in 1..(n + 1), a[i].key = a[j].key PROVE i = j
    <3>1. CASE i \in 1..n /\ j \in 1..n
      BY <1>2, <1>4, <2>2, <3>1 DEF Table
    <3>2. CASE i \in 1..n /\ j = n + 1
      BY <1>2, <1>4, <2>2, <3>2
    <3>3. CASE i = n + 1 /\ j \in 1..n
      BY <1>2, <1>4, <2>2, <3>3
    <3> QED
      BY <1>2, <3>1, <3>2, <3>3
  <2> QED
    BY <1>4, <1>5, <2>1, <2>2 DEF Table
<1>7. Retained(a, e.key, e.until, {})
  BY <1>2, <1>4, <1>5 DEF Retained
<1>8. ASSUME NEW key, NEW until, NEW others, Retained(T, key, until, others)
      PROVE  Retained(a, key, until, others \union {e.key})
  <2>1. PICK p \in 1..n : /\ T[p].key = key /\ T[p].until >= until
                          /\ \A q \in 1..n : q > p => T[q].key \in others
    BY <1>2, <1>8 DEF Retained
  <2>2. p \in 1..(n + 1) /\ a[p].key = key /\ a[p].until >= until
    BY <1>2, <1>4, <2>1
  <2>3. ASSUME NEW q \in 1..(n + 1), q > p PROVE a[q].key \in others \union {e.key}
    <3>1. CASE q = n + 1
      BY <1>4, <3>1
    <3>2. CASE q \in 1..n
      BY <1>4, <2>1, <2>3, <3>2
    <3> QED
      BY <1>2, <3>1, <3>2
  <2> QED
    BY <1>5, <2>2, <2>3 DEF Retained
<1> QED
  BY <1>4, <1>6, <1>7, <1>8 DEF a, n

LEMMA Weaker ==
  ASSUME NEW T, Table(T), NEW key, NEW u \in Nat, NEW v \in Nat, v <= u, NEW B, NEW C, B \subseteq C,
         Retained(T, key, u, B)
  PROVE  Retained(T, key, v, C)
<1>1. PICK p \in DOMAIN T : /\ T[p].key = key /\ T[p].until >= u
                            /\ \A q \in DOMAIN T : q > p => T[q].key \in B
  BY DEF Retained
<1>2. T[p].until \in Nat
  BY DEF Table
<1>3. T[p].until >= v
  BY <1>1, <1>2
<1> QED
  BY <1>1, <1>3 DEF Retained

(* A key that is still alive is evicted only for as many others as there is  *)
(* room for.                                                                 *)
LEMMA EvictedTable ==
  ASSUME NEW T, Table(T), NEW capacity \in Nat \ {0}, NEW at \in Nat
  PROVE  /\ Table(Evicted(T, capacity, at))
         /\ \A key, others : \A until \in Nat :
              until > at /\ IsFiniteSet(others) /\ Retained(T, key, until, others)
                => Sheltered(Evicted(T, capacity, at), key, until, others, capacity)
<1> DEFINE looked == IF Len(T) < Sweep THEN Len(T) ELSE Sweep
           kept == {i \in DOMAIN T : i <= looked => T[i].until > at}
           s == Keeping(T, kept)
           over == IF Len(s) > capacity THEN Len(s) - capacity ELSE 0
           r == SubSeq(s, over + 1, Len(s))
<1>1. Evicted(T, capacity, at) = r
  BY DEF Evicted, Swept
<1> HIDE DEF looked
<1>2. /\ Table(s)
      /\ \A key, until, others :
           Retained(T, key, until, others) /\ (\A i \in DOMAIN T : T[i].key = key => i \in kept)
             => Retained(s, key, until, others)
  <2> HIDE DEF kept
  <2> QED
    BY KeepingTable
<1>3. \A i \in DOMAIN T : T[i].until > at => i \in kept
  OBVIOUS
<1> HIDE DEF kept, s
<1>4. Len(s) \in Nat
  BY <1>2, TableDomain
<1>5. over \in 0..Len(s) /\ (over > 0 => Len(s) - over = capacity)
  BY <1>4
<1> HIDE DEF over
<1>6. /\ Table(r)
      /\ \A key, until, others :
           IsFiniteSet(others) /\ Retained(s, key, until, others)
             => \/ Retained(r, key, until, others)
                \/ over > 0 /\ Cardinality(others) >= Len(s) - over
  BY <1>2, <1>5, SuffixTable
<1> HIDE DEF r
<1>7. ASSUME NEW key, NEW others, NEW until \in Nat,
             until > at, IsFiniteSet(others), Retained(T, key, until, others)
      PROVE  Sheltered(r, key, until, others, capacity)
  <2>1. PICK p \in DOMAIN T : T[p].key = key /\ T[p].until >= until
    BY <1>7 DEF Retained
  <2>2. \A i \in DOMAIN T : T[i].key = key => i \in kept
    <3> SUFFICES ASSUME NEW i \in DOMAIN T, T[i].key = key PROVE i \in kept
      OBVIOUS
    <3>1. i = p /\ T[p].until \in Nat
      BY <2>1 DEF Table
    <3> QED
      BY <1>3, <1>7, <2>1, <3>1
  <2>3. Retained(s, key, until, others)
    BY <1>2, <1>7, <2>2
  <2> QED
    BY <1>5, <1>6, <1>7, <2>3 DEF Sheltered
<1> QED
  BY <1>1, <1>6, <1>7

LEMMA WithoutTable ==
  ASSUME NEW T, Table(T), NEW key
  PROVE  /\ Table(Without(T, key)) /\ \A i \in DOMAIN Without(T, key) : Without(T, key)[i].key # key
         /\ \A other, until, others :
              other # key /\ Retained(T, other, until, others) => Retained(Without(T, key), other, until, others)
<1> DEFINE kept == {i \in DOMAIN T : T[i].key # key}
<1>1. Without(T, key) = Keeping(T, kept)
  BY DEF Without
<1>2. \A i \in kept : T[i].key # key
  OBVIOUS
<1>3. \A i \in DOMAIN T : i \in kept <=> T[i].key # key
  OBVIOUS
<1> HIDE DEF kept
<1>4. /\ Table(Keeping(T, kept))
      /\ \A i \in DOMAIN Keeping(T, kept) : \E k \in DOMAIN T : k \in kept /\ Keeping(T, kept)[i] = T[k]
      /\ \A other, until, others :
           Retained(T, other, until, others) /\ (\A i \in DOMAIN T : T[i].key = other => i \in kept)
             => Retained(Keeping(T, kept), other, until, others)
  BY KeepingTable
<1>5. \A i \in DOMAIN Keeping(T, kept) : Keeping(T, kept)[i].key # key
  BY <1>2, <1>4
<1>6. \A other : other # key => \A i \in DOMAIN T : T[i].key = other => i \in kept
  BY <1>3
<1> QED
  BY <1>1, <1>4, <1>5, <1>6

(* set(): the key is remembered, and so are the others, within the bound. *)
LEMMA PutTable ==
  ASSUME NEW T, Table(T), NEW key, NEW value, NEW ttl \in Nat \ {0}, NEW capacity \in Nat \ {0}, NEW at \in Nat
  PROVE  /\ Table(Put(T, key, value, ttl, capacity, at))
         /\ Retained(Put(T, key, value, ttl, capacity, at), key, at + ttl, {})
         /\ \A other, others : \A until \in Nat :
              other # key /\ until > at /\ IsFiniteSet(others) /\ Retained(T, other, until, others)
                => Sheltered(Put(T, key, value, ttl, capacity, at), other, until, others \union {key}, capacity)
<1> DEFINE w == Without(T, key)
           e == [key |-> key, value |-> value, until |-> at + ttl]
           grown == Append(w, e)
           v == Evicted(grown, capacity, at)
           put == Put(T, key, value, ttl, capacity, at)
<1>1. put = IF Len(grown) > capacity THEN v ELSE grown
  BY DEF Put
<1>2. e.key = key /\ e.until = at + ttl /\ at + ttl \in Nat /\ at + ttl > at
  OBVIOUS
<1>3. /\ Table(w) /\ \A i \in DOMAIN w : w[i].key # key
      /\ \A other, until, others :
           other # key /\ Retained(T, other, until, others) => Retained(w, other, until, others)
  BY WithoutTable
<1> HIDE DEF w, e
<1>4. /\ Table(grown)
      /\ Retained(grown, key, at + ttl, {})
      /\ \A other, until, others :
           Retained(w, other, until, others) => Retained(grown, other, until, others \union {key})
  BY <1>2, <1>3, AppendTable
<1> HIDE DEF grown
<1>5. /\ Table(v)
      /\ \A other, others : \A until \in Nat :
           until > at /\ IsFiniteSet(others) /\ Retained(grown, other, until, others)
             => Sheltered(v, other, until, others, capacity)
  BY <1>4, EvictedTable
<1> HIDE DEF v, put
<1>6. Table(put)
  BY <1>1, <1>4, <1>5
<1>7. Retained(put, key, at + ttl, {})
  <2>1. Sheltered(v, key, at + ttl, {}, capacity)
    BY <1>2, <1>4, <1>5, FS_EmptySet
  <2>2. Cardinality({}) = 0
    BY FS_EmptySet
  <2>3. Retained(v, key, at + ttl, {})
    BY <2>1, <2>2 DEF Sheltered
  <2> QED
    BY <1>1, <1>4, <2>3
<1>8. ASSUME NEW other, NEW others, NEW until \in Nat,
             other # key, until > at, IsFiniteSet(others), Retained(T, other, until, others)
      PROVE  Sheltered(put, other, until, others \union {key}, capacity)
  <2>1. Retained(grown, other, until, others \union {key})
    BY <1>3, <1>4, <1>8
  <2>2. IsFiniteSet(others \union {key})
    BY <1>8, FS_AddElement
  <2>3. Sheltered(v, other, until, others \union {key}, capacity)
    BY <1>5, <1>8, <2>1, <2>2
  <2> QED
    BY <1>1, <2>1, <2>3 DEF Sheltered
<1> QED
  BY <1>6, <1>7, <1>8 DEF put

(* get(): a hit moves to the end. *)
LEMMA UsedTable ==
  ASSUME NEW T, Table(T), NEW key, NEW at \in Nat, Holds(T, key, at)
  PROVE  /\ Table(Used(T, key, at))
         /\ \A until \in Nat : \A others :
              Retained(T, key, until, others) => Retained(Used(T, key, at), key, until, others)
         /\ \A other, until, others :
              other # key /\ Retained(T, other, until, others)
                => Retained(Used(T, key, at), other, until, others \union {key})
<1> DEFINE w == Without(T, key)
           e == Entry(T, key)
           used == Used(T, key, at)
<1>1. used = Append(w, e)
  BY DEF Used
<1>2. PICK p \in DOMAIN T : T[p].key = key
  BY DEF Holds
<1>3. e = T[p]
  <2>1. \A i \in DOMAIN T : T[i].key = key <=> i = p
    BY <1>2 DEF Table
  <2>2. (CHOOSE i \in DOMAIN T : T[i].key = key) = p
    BY <1>2, <2>1
  <2> QED
    BY <2>2 DEF Entry
<1>4. e.key = key /\ e.until \in Nat
  BY <1>2, <1>3 DEF Table
<1>5. /\ Table(w) /\ \A i \in DOMAIN w : w[i].key # key
      /\ \A other, until, others :
           other # key /\ Retained(T, other, until, others) => Retained(w, other, until, others)
  BY WithoutTable
<1> HIDE DEF w, e, used
<1>6. /\ Table(used)
      /\ Retained(used, key, e.until, {})
      /\ \A other, until, others :
           Retained(w, other, until, others) => Retained(used, other, until, others \union {key})
  BY <1>1, <1>4, <1>5, AppendTable
<1>7. ASSUME NEW until \in Nat, NEW others, Retained(T, key, until, others)
      PROVE  Retained(used, key, until, others)
  <2>1. PICK k \in DOMAIN T : T[k].key = key /\ T[k].until >= until
    BY <1>7 DEF Retained
  <2>2. k = p
    BY <1>2, <2>1 DEF Table
  <2>3. until <= e.until
    BY <1>3, <1>4, <2>1, <2>2
  <2> QED
    BY <1>4, <1>6, <2>3, Weaker
<1> QED
  BY <1>5, <1>6, <1>7 DEF used

LEMMA GuardedMore ==
  ASSUME NEW T, Table(T), NEW key, NEW until \in Nat, NEW B, NEW C, IsFiniteSet(C), B \subseteq C,
         NEW capacity \in Nat, Sheltered(T, key, until, B, capacity)
  PROVE  Sheltered(T, key, until, C, capacity)
<1>1. CASE Retained(T, key, until, B)
  BY <1>1, Weaker DEF Sheltered
<1>2. CASE Cardinality(B) >= capacity
  <2>1. /\ Cardinality(B) \in Nat /\ Cardinality(C) \in Nat
        /\ Cardinality(B) <= Cardinality(C)
    BY FS_Subset, FS_CardinalityType
  <2>2. Cardinality(C) >= capacity
    BY <1>2, <2>1
  <2> QED
    BY <2>2 DEF Sheltered
<1> QED
  BY <1>1, <1>2 DEF Sheltered

(* A use of the table, or an insert, counts its key against the others. *)
LEMMA GuardKept ==
  ASSUME NEW time \in Nat, NEW T, Table(T), NEW key, NEW until \in Nat, until > time,
         NEW capacity \in Nat \ {0}, NEW B, NEW C, IsFiniteSet(B), IsFiniteSet(C), B \subseteq C,
         Sheltered(T, key, until, B, capacity),
         NEW U, NEW other, other # key => other \in C, NEW value, NEW ttl \in Nat \ {0},
         until <= time + ttl,
         \/ U = T
         \/ Holds(T, other, time) /\ U = Used(T, other, time)
         \/ U = Put(T, other, value, ttl, capacity, time)
  PROVE  Sheltered(U, key, until, C, capacity)
<1> SUFFICES ASSUME Retained(T, key, until, B) PROVE Sheltered(U, key, until, C, capacity)
  <2>1. ASSUME Cardinality(B) >= capacity PROVE Cardinality(C) >= capacity
    <3>1. /\ Cardinality(B) \in Nat /\ Cardinality(C) \in Nat
          /\ Cardinality(B) <= Cardinality(C)
      BY FS_Subset, FS_CardinalityType
    <3> QED
      BY <2>1, <3>1
  <2> QED
    BY <2>1 DEF Sheltered
<1>1. CASE U = T
  BY <1>1, GuardedMore
<1>2. CASE Holds(T, other, time) /\ U = Used(T, other, time)
  <2>1. /\ Table(U)
        /\ other = key => Retained(U, key, until, B)
        /\ other # key => Retained(U, key, until, B \union {other})
    BY <1>2, UsedTable
  <2>2. other # key => B \union {other} \subseteq C
    OBVIOUS
  <2>3. \A D : D \subseteq C /\ Retained(U, key, until, D) => Retained(U, key, until, C)
    BY <2>1, Weaker
  <2>4. Retained(U, key, until, C)
    BY <2>1, <2>2, <2>3
  <2> QED
    BY <2>4 DEF Sheltered
<1>3. CASE U = Put(T, other, value, ttl, capacity, time)
  <2>1. /\ Table(U)
        /\ Retained(U, other, time + ttl, {})
        /\ other # key => Sheltered(U, key, until, B \union {other}, capacity)
    BY <1>3, PutTable
  <2>2. CASE other = key
    <3>1. time + ttl \in Nat /\ {} \subseteq C
      OBVIOUS
    <3>2. Retained(U, key, until, C)
      BY <2>1, <2>2, <3>1, Weaker
    <3> QED
      BY <3>2 DEF Sheltered
  <2>3. CASE other # key
    <3>1. B \union {other} \subseteq C
      BY <2>3
    <3> HIDE DEF Sheltered
    <3> QED
      BY <2>1, <2>3, <3>1, GuardedMore
  <2> QED
    BY <2>2, <2>3
<1> QED
  BY <1>1, <1>2, <1>3

(* What is remembered that long is held now. *)
LEMMA GuardHolds ==
  ASSUME NEW time \in Nat, NEW T, Table(T), NEW key, NEW until \in Nat, until > time, NEW B, NEW capacity,
         Sheltered(T, key, until, B, capacity), ~Holds(T, key, time)
  PROVE  Cardinality(B) >= capacity
<1> SUFFICES ASSUME Retained(T, key, until, B) PROVE FALSE
  BY DEF Sheltered
<1>1. PICK p \in DOMAIN T : T[p].key = key /\ T[p].until >= until
  BY DEF Retained
<1>2. T[p].until \in Nat
  BY DEF Table
<1>3. T[p].until > time
  BY <1>1, <1>2
<1> QED
  BY <1>1, <1>3 DEF Holds

(* What a table holds was there before, or was put in. *)
LEMMA WithoutFrom ==
  ASSUME NEW T, Table(T), NEW key
  PROVE  \A i \in DOMAIN Without(T, key) : \E k \in DOMAIN T : T[k].key # key /\ Without(T, key)[i] = T[k]
<1> DEFINE kept == {i \in DOMAIN T : T[i].key # key}
<1>1. Without(T, key) = Keeping(T, kept)
  BY DEF Without
<1>2. \A i \in kept : T[i].key # key
  OBVIOUS
<1> HIDE DEF kept
<1>3. \A i \in DOMAIN Keeping(T, kept) : \E k \in DOMAIN T : k \in kept /\ Keeping(T, kept)[i] = T[k]
  BY KeepingTable
<1> QED
  BY <1>1, <1>2, <1>3

LEMMA UsedFrom ==
  ASSUME NEW T, Table(T), NEW key, NEW at
  PROVE  \A i \in DOMAIN Used(T, key, at) : \E k \in DOMAIN T : Used(T, key, at)[i] = T[k]
<1> DEFINE w == Without(T, key)
           e == Entry(T, key)
<1>1. /\ Table(w) /\ \A i \in DOMAIN w : w[i].key # key
      /\ \A i \in DOMAIN w : \E k \in DOMAIN T : w[i] = T[k]
  BY WithoutTable, WithoutFrom
<1>2. CASE Holds(T, key, at)
  <2>1. PICK p \in DOMAIN T : T[p].key = key
    BY <1>2 DEF Holds
  <2>2. e = T[CHOOSE i \in DOMAIN T : T[i].key = key] /\ (CHOOSE i \in DOMAIN T : T[i].key = key) \in DOMAIN T
    BY <2>1 DEF Entry
  <2>3. Used(T, key, at) = Append(w, e)
    BY <1>2 DEF Used
  <2> HIDE DEF w, e
  <2>4. PICK E : w \in Seq(E)
    BY <1>1 DEF Table
  <2>5. w \in Seq(E \union {e})
    BY <2>4, SMT
  <2>6. \A i \in DOMAIN Append(w, e) : (i \in DOMAIN w /\ Append(w, e)[i] = w[i]) \/ Append(w, e)[i] = e
    BY <2>5, AppendProperties
  <2> QED
    BY <1>1, <2>2, <2>3, <2>6
<1>3. CASE ~Holds(T, key, at)
  BY <1>1, <1>3 DEF Used
<1> QED
  BY <1>2, <1>3

LEMMA PutFrom ==
  ASSUME NEW T, Table(T), NEW key, NEW value, NEW ttl \in Nat, NEW capacity \in Nat \ {0}, NEW at \in Nat
  PROVE  \A i \in DOMAIN Put(T, key, value, ttl, capacity, at) :
           \/ Put(T, key, value, ttl, capacity, at)[i] = [key |-> key, value |-> value, until |-> at + ttl]
           \/ \E k \in DOMAIN T : T[k].key # key /\ Put(T, key, value, ttl, capacity, at)[i] = T[k]
<1> DEFINE w == Without(T, key)
           e == [key |-> key, value |-> value, until |-> at + ttl]
           grown == Append(w, e)
           v == Evicted(grown, capacity, at)
<1>1. Put(T, key, value, ttl, capacity, at) = IF Len(grown) > capacity THEN v ELSE grown
  BY DEF Put
<1>2. e.key = key /\ e.until \in Nat
  OBVIOUS
<1>3. /\ Table(w) /\ \A i \in DOMAIN w : w[i].key # key
      /\ \A i \in DOMAIN w : \E k \in DOMAIN T : w[i] = T[k]
  BY WithoutTable, WithoutFrom
<1>4. \A i \in DOMAIN w : \E k \in DOMAIN T : T[k].key # key /\ w[i] = T[k]
  BY <1>3
<1> HIDE DEF w, e
<1>5. Table(grown)
  BY <1>2, <1>3, AppendTable
<1>6. \A i \in DOMAIN grown : (i \in DOMAIN w /\ grown[i] = w[i]) \/ grown[i] = e
  <2>1. PICK E : w \in Seq(E)
    BY <1>3 DEF Table
  <2>2. w \in Seq(E \union {e})
    BY <2>1, SMT
  <2> QED
    BY <2>2, AppendProperties
<1> HIDE DEF grown
<1>7. \A i \in DOMAIN v : \E k \in DOMAIN grown : v[i] = grown[k]
  <2> DEFINE s == Swept(grown, at)
             over == IF Len(s) > capacity THEN Len(s) - capacity ELSE 0
  <2>1. v = SubSeq(s, over + 1, Len(s))
    BY DEF Evicted
  <2>2. Table(s) /\ \A i \in DOMAIN s : \E k \in DOMAIN grown : s[i] = grown[k]
    <3> DEFINE kept == {i \in DOMAIN grown : i <= (IF Len(grown) < Sweep THEN Len(grown) ELSE Sweep) => grown[i].until > at}
    <3>1. s = Keeping(grown, kept)
      BY DEF Swept
    <3> HIDE DEF kept
    <3> QED
      BY <1>5, <3>1, KeepingTable
  <2> HIDE DEF s
  <2>3. Len(s) \in Nat
    BY <2>2, TableDomain
  <2>4. over \in 0..Len(s)
    BY <2>3
  <2> HIDE DEF over, v
  <2>5. \A i \in DOMAIN v : \E k \in DOMAIN s : v[i] = s[k]
    BY <2>1, <2>2, <2>4, SuffixTable
  <2> QED
    BY <2>2, <2>5
<1> HIDE DEF v
<1> QED
  BY <1>1, <1>4, <1>6, <1>7 DEF e

(* The value that is read is that of an entry under the key. *)
LEMMA PeekIs ==
  ASSUME NEW T, Table(T), NEW key, NEW none, NEW at, Holds(T, key, at)
  PROVE  \E k \in DOMAIN T : T[k].key = key /\ T[k].until > at /\ Peek(T, key, none, at) = T[k].value
<1>1. PICK p \in DOMAIN T : T[p].key = key /\ T[p].until > at
  BY DEF Holds
<1>2. \A i \in DOMAIN T : T[i].key = key <=> i = p
  BY <1>1 DEF Table
<1>3. (CHOOSE i \in DOMAIN T : T[i].key = key) = p
  BY <1>1, <1>2
<1>4. Peek(T, key, none, at) = T[p].value
  BY <1>3 DEF Peek, Entry
<1> QED
  BY <1>1, <1>4
=============================================================================
