-------------------------- MODULE Computations_proofs --------------------------
(***************************************************************************)
(* What the rest of the program computes from its state, for every run:    *)
(*                                                                         *)
(*   - a conversation fades from its last sight;                           *)
(*   - the prompt tells the event the Router noticed, and attention        *)
(*     travels one hop;                                                    *)
(*   - a prompt fits its budget and sheds no more than it must;            *)
(*   - routing never seems to cost more than no routing, the order of the  *)
(*     log changes no figure, and the panels of the dashboard agree.       *)
(*                                                                         *)
(* The computations are folds.  The first two sections prove what a fold   *)
(* over a sequence or a sum over a set is, by induction on numbers and on  *)
(* finite sets; the rest cites them.                                       *)
(***************************************************************************)
EXTENDS AttentionSignals, ContextBuilder, Telemetry, FiniteSetTheorems, TLAPS

-----------------------------------------------------------------------------
(* Least and greatest numbers, and induction as their absence: what holds  *)
(* at 0 and is handed on has no least exception.  A fold is such a         *)
(* recursion: it has a solution, and that is what the folds return.        *)

\* A nonempty set of natural numbers has a least element.
LEMMA LeastNumber ==
  ASSUME NEW T \in SUBSET Nat, T # {}
  PROVE  \E m \in T : \A k \in T : m <= k
<1>1. PICK m \in T : \A k \in T : ~(<<k, m>> \in OpToRel(<, Nat))
  BY NatLessThanWellFounded, WFMin
<1>2. \A k \in T : ~(k < m)
  BY <1>1 DEF OpToRel
<1> QED BY <1>2

\* A nonempty set of numbers up to a bound has a greatest one, which Max chooses.
LEMMA MaxIs ==
  ASSUME NEW n \in Nat, NEW T \in SUBSET (0..n), T # {}
  PROVE  Max(T) \in T /\ \A k \in T : k <= Max(T)
<1> DEFINE B == {b \in Nat : \A k \in T : k <= b}
<1>1. n \in B
  OBVIOUS
<1>2. PICK m \in B : \A b \in B : m <= b
  BY <1>1, LeastNumber
<1>3. m \in T
  <2> SUFFICES ASSUME m \notin T PROVE FALSE
    OBVIOUS
  <2>1. \A k \in T : k <= m - 1 /\ k \in Nat
    BY <1>2
  <2>2. m - 1 \in Nat
    <3>1. PICK k \in T : TRUE
      OBVIOUS
    <3> QED BY <1>2, <2>1, <3>1
  <2>3. m - 1 \in B
    BY <2>1, <2>2
  <2> QED BY <1>2, <2>3
<1>4. \E x \in T : \A k \in T : k <= x
  BY <1>2, <1>3
<1> QED BY <1>4 DEF Max

\* The recursion of a fold over the subsets of S with at most n elements.
Solves(h, S, base, G, c, n) ==
  \A T \in SUBSET S : Cardinality(T) <= n =>
    h[T] = IF T = {} THEN base ELSE G[c[T]][h[T \ {c[T]}]]

\* What a recursion over the subsets of a finite set is made of: a base in V, a
\* step of every element and a choice of the element to go on with.
IsRecursion(S, V, base, G, c) ==
  /\ IsFiniteSet(S) /\ base \in V /\ G \in [S -> [V -> V]]
  /\ \A T \in SUBSET S : T # {} => c[T] \in T

\* A function that solves the recursion on every part of the set.
IsSolution(h, S, V, base, G, c) ==
  /\ h \in [SUBSET S -> V]
  /\ \A T \in SUBSET S : h[T] = IF T = {} THEN base ELSE G[c[T]][h[T \ {c[T]}]]

\* A fold over a finite set is well defined: its recursion has a solution.
LEMMA RecursionHasSolution ==
  ASSUME NEW S, NEW V, NEW base, NEW G, NEW c, IsRecursion(S, V, base, G, c)
  PROVE  \E h : IsSolution(h, S, V, base, G, c)
<1> USE DEF IsRecursion
<1> DEFINE Unsolved == {n \in Nat : \A h \in [SUBSET S -> V] : ~Solves(h, S, base, G, c, n)}
<1>1. \A T \in SUBSET S : IsFiniteSet(T) /\ Cardinality(T) \in Nat /\ Cardinality(T) <= Cardinality(S)
  BY FS_Subset, FS_CardinalityType
<1>2. \A T \in SUBSET S : \A x \in T : Cardinality(T \ {x}) = Cardinality(T) - 1
  BY <1>1, FS_RemoveElement
<1>3. \A T \in SUBSET S : Cardinality(T) = 0 <=> T = {}
  BY <1>1, FS_EmptySet
<1>4. Unsolved = {}
  <2> SUFFICES ASSUME Unsolved # {} PROVE FALSE
    OBVIOUS
  <2>1. PICK n \in Unsolved : \A k \in Unsolved : n <= k
    BY LeastNumber
  <2>2. n \in Nat /\ ~(n <= n - 1)
    BY <2>1
  <2>3. n # 0
    <3>1. Solves([T \in SUBSET S |-> base], S, base, G, c, 0)
      BY <1>1, <1>3 DEF Solves
    <3>2. 0 \notin Unsolved
      BY <3>1
    <3> QED BY <3>2, <2>1
  <2>4. n - 1 \in Nat
    BY <2>2, <2>3
  <2>5. n - 1 \notin Unsolved
    BY <2>1, <2>2
  <2>6. PICK h \in [SUBSET S -> V] : Solves(h, S, base, G, c, n - 1)
    BY <2>4, <2>5
  <2> DEFINE longer == [T \in SUBSET S |->
               IF Cardinality(T) <= n - 1 THEN h[T] ELSE G[c[T]][h[T \ {c[T]}]]]
  <2>7. longer \in [SUBSET S -> V]
    <3> SUFFICES ASSUME NEW T \in SUBSET S, ~(Cardinality(T) <= n - 1)
                 PROVE  G[c[T]][h[T \ {c[T]}]] \in V
      OBVIOUS
    <3>1. T # {}
      BY <2>4, <1>3
    <3> QED BY <3>1
  <2>8. Solves(longer, S, base, G, c, n)
    <3> SUFFICES ASSUME NEW T \in SUBSET S, Cardinality(T) <= n
                 PROVE  longer[T] = IF T = {} THEN base ELSE G[c[T]][longer[T \ {c[T]}]]
      BY DEF Solves
    <3>1. CASE T = {}
      <4>1. Cardinality(T) <= n - 1
        BY <3>1, <2>4, <1>3
      <4> QED BY <3>1, <4>1, <2>6 DEF Solves
    <3>2. CASE T # {}
      <4>1. c[T] \in T /\ Cardinality(T \ {c[T]}) <= n - 1 /\ T \ {c[T]} \in SUBSET S
        BY <1>1, <1>2, <3>2, <2>4
      <4>2. longer[T \ {c[T]}] = h[T \ {c[T]}]
        BY <4>1
      <4>3. longer[T] = G[c[T]][h[T \ {c[T]}]]
        BY <3>2, <2>6 DEF Solves
      <4> HIDE DEF longer, IsRecursion
      <4> QED BY <3>2, <4>2, <4>3
    <3> QED BY <3>1, <3>2
  <2>9. n \notin Unsolved
    BY <2>7, <2>8
  <2> QED BY <2>1, <2>9
<1>5. Cardinality(S) \in Nat
  BY FS_CardinalityType
<1>6. PICK h \in [SUBSET S -> V] : Solves(h, S, base, G, c, Cardinality(S))
  BY <1>4, <1>5
<1> QED BY <1>1, <1>6 DEF Solves, IsSolution

\* What holds at 0 and is handed on holds up to n.
LEMMA Counting ==
  ASSUME NEW n \in Nat, NEW P, 0 \in P, \A i \in 1..n : i - 1 \in P => i \in P
  PROVE  \A i \in 0..n : i \in P
<1> DEFINE Q == (0..n) \ P
<1> SUFFICES ASSUME Q # {} PROVE FALSE
  OBVIOUS
<1>1. PICK m \in Q : \A k \in Q : m <= k
  <2>1. Q \in SUBSET Nat
    OBVIOUS
  <2> HIDE DEF Q
  <2> QED BY <2>1, LeastNumber
<1>2. m \in 1..n /\ m - 1 \in 0..n /\ ~(m <= m - 1)
  BY <1>1
<1>3. m - 1 \in P
  BY <1>1, <1>2
<1> QED BY <1>1, <1>2, <1>3

\* A fold from the left takes the indices one by one.
LEMMA UpToMax ==
  ASSUME NEW n \in Nat, NEW i \in 1..n
  PROVE  \E T \in SUBSET (1..n) : T = 1..i /\ T # {} /\ Max(T) = i /\ T \ {i} = 1..(i - 1)
<1>1. 1..i \in SUBSET (0..n) /\ 1..i # {} /\ i \in 1..i
  OBVIOUS
<1>2. Max(1..i) \in 1..i /\ i <= Max(1..i)
  BY <1>1, MaxIs
<1>3. Max(1..i) = i
  BY <1>2
<1>4. (1..i) \ {i} = 1..(i - 1) /\ 1..i \in SUBSET (1..n)
  OBVIOUS
<1> QED BY <1>1, <1>3, <1>4

\* The recursion of a fold from the left over n indices: a base in V and the step
\* of every index.
IsStep(n, V, base, G) == base \in V /\ G \in [1..n -> [V -> V]]

\* A fold from the left by its recursion: the last index is taken off first.
IsLeftFold(h, n, V, base, G) ==
  /\ h \in [SUBSET (1..n) -> V]
  /\ \A T \in SUBSET (1..n) :
       /\ T # {} => Max(T) \in 1..n
       /\ h[T] = IF T = {} THEN base ELSE G[Max(T)][h[T \ {Max(T)}]]

\* The fold of a step over the indices of a sequence is well defined.
LEMMA LeftFoldHasSolution ==
  ASSUME NEW n \in Nat, NEW V, NEW base, NEW G, IsStep(n, V, base, G)
  PROVE  \E h : IsLeftFold(h, n, V, base, G)
<1>1. ASSUME NEW T \in SUBSET (1..n), T # {} PROVE Max(T) \in T
  <2>1. T \in SUBSET (0..n)
    OBVIOUS
  <2> QED BY <1>1, <2>1, MaxIs
<1>2. PICK c : c = [T \in SUBSET (1..n) |-> Max(T)]
  OBVIOUS
<1>3. IsRecursion(1..n, V, base, G, c)
  <2>1. IsFiniteSet(1..n)
    BY FS_Interval
  <2>2. \A T \in SUBSET (1..n) : T # {} => c[T] \in T
    BY <1>1, <1>2
  <2> QED BY <2>1, <2>2 DEF IsRecursion, IsStep
<1>4. PICK h : IsSolution(h, 1..n, V, base, G, c)
  BY <1>3, RecursionHasSolution
<1>5. ASSUME NEW T \in SUBSET (1..n)
      PROVE  /\ T # {} => Max(T) \in 1..n
             /\ h[T] = IF T = {} THEN base ELSE G[Max(T)][h[T \ {Max(T)}]]
  <2>1. c[T] = Max(T)
    BY <1>2
  <2> QED BY <1>1, <1>4, <2>1 DEF IsSolution
<1> QED BY <1>4, <1>5 DEF IsSolution, IsLeftFold

\* What a fold from the left returns, from its recursion: the steps one after the
\* other, each on what the ones before it made.
IsLeftStep(f, n, V, base, G) ==
  /\ f[{}] = base
  /\ \A T \in SUBSET (1..n) : T # {} /\ f[T \ {Max(T)}] \in V =>
       f[T] = G[Max(T)][f[T \ {Max(T)}]]

\* The same, as the values after each index.
Unrolled(t, n, V, base, G) ==
  /\ t \in [0..n -> V] /\ t[0] = base
  /\ \A i \in 1..n : t[i] = G[i][t[i - 1]]

\* A fold from the left is what is made after the last index.
LEMMA LeftFoldIs ==
  ASSUME NEW n \in Nat, NEW V, NEW base, NEW G, IsStep(n, V, base, G),
         NEW f, IsLeftStep(f, n, V, base, G)
  PROVE  \E t : Unrolled(t, n, V, base, G) /\ f[1..n] = t[n]
<1> USE DEF IsStep
<1>1. PICK t : t = [i \in 0..n |-> f[1..i]]
  OBVIOUS
<1>2. t[0] = base
  <2>1. 1..0 = {}
    OBVIOUS
  <2> QED BY <1>1, <2>1 DEF IsLeftStep
<1>3. ASSUME NEW i \in 1..n, t[i - 1] \in V
      PROVE  t[i] = G[i][t[i - 1]]
  <2>1. PICK T \in SUBSET (1..n) : T = 1..i /\ T # {} /\ Max(T) = i /\ T \ {i} = 1..(i - 1)
    BY UpToMax
  <2>2. t[i] = f[1..i] /\ t[i - 1] = f[1..(i - 1)]
    BY <1>1
  <2>3. t[i] = f[T] /\ t[i - 1] = f[T \ {i}]
    BY <2>1, <2>2, Zenon
  <2> QED BY <1>3, <2>1, <2>3 DEF IsLeftStep
<1>4. \A i \in 0..n : t[i] \in V
  <2> DEFINE P == {i \in 0..n : t[i] \in V}
  <2>1. 0 \in P /\ \A i \in 1..n : i - 1 \in P => i \in P
    BY <1>2, <1>3
  <2> HIDE DEF P
  <2>2. \A i \in 0..n : i \in P
    BY <2>1, Counting
  <2> QED BY <2>2 DEF P
<1>5. \A i \in 1..n : t[i] = G[i][t[i - 1]]
  BY <1>3, <1>4
<1>6. t \in [0..n -> V] /\ f[1..n] = t[n]
  BY <1>1, <1>4
<1> QED BY <1>2, <1>5, <1>6 DEF Unrolled

-----------------------------------------------------------------------------
(* Sums over finite sets, in whatever order their elements are taken.      *)

\* What holds of the empty set and of every set that is one element larger holds
\* of every part of a finite set.
LEMMA Growing ==
  ASSUME NEW S, IsFiniteSet(S), NEW Q, {} \in Q,
         \A T \in SUBSET S : (T # {} /\ \A x \in T : T \ {x} \in Q) => T \in Q
  PROVE  \A T \in SUBSET S : T \in Q
<1> DEFINE Sizes == {n \in Nat : \E T \in SUBSET S : T \notin Q /\ Cardinality(T) = n}
<1>1. ASSUME NEW T \in SUBSET S
      PROVE  IsFiniteSet(T) /\ Cardinality(T) \in Nat
             /\ \A x \in T : Cardinality(T \ {x}) = Cardinality(T) - 1 /\ Cardinality(T \ {x}) \in Nat
  <2>1. IsFiniteSet(T) /\ Cardinality(T) \in Nat
    BY FS_Subset, FS_CardinalityType
  <2>2. ASSUME NEW x \in T PROVE Cardinality(T \ {x}) = Cardinality(T) - 1 /\ Cardinality(T \ {x}) \in Nat
    BY <2>1, FS_RemoveElement, FS_CardinalityType
  <2> QED BY <2>1, <2>2
<1> SUFFICES ASSUME NEW T \in SUBSET S, T \notin Q PROVE FALSE
  OBVIOUS
<1>2. Sizes # {}
  BY <1>1
<1>3. PICK n \in Sizes : \A k \in Sizes : n <= k
  <2>1. Sizes \in SUBSET Nat
    OBVIOUS
  <2> HIDE DEF Sizes
  <2> QED BY <1>2, <2>1, LeastNumber
<1>4. PICK U \in SUBSET S : U \notin Q /\ Cardinality(U) = n /\ n \in Nat
  BY <1>3
<1>5. ASSUME NEW x \in U PROVE U \ {x} \in Q
  <2>1. U \ {x} \in SUBSET S /\ Cardinality(U \ {x}) = n - 1 /\ n - 1 \in Nat
    BY <1>1, <1>4
  <2>2. n - 1 \notin Sizes
    BY <1>3, <1>4
  <2> QED BY <2>1, <2>2
<1> QED BY <1>4, <1>5

\* The element a fold over a set goes on with.
Some(T) == CHOOSE x \in T : TRUE

\* A sum of natural numbers that takes the elements in that order.
IsSum(f, S, w) ==
  \A T \in SUBSET S : f[T] = IF T = {} THEN 0 ELSE w[Some(T)] + f[T \ {Some(T)}]

\* A sum that takes them in any.
IsTotal(f, S, w) ==
  /\ f[{}] = 0
  /\ \A T \in SUBSET S : f[T] \in Nat /\ \A x \in T : f[T] = w[x] + f[T \ {x}]

\* Finitely many natural numbers.
Numbers(w, S) == IsFiniteSet(S) /\ \A x \in S : w[x] \in Nat

\* A sum taken in one order is the sum in any order.
LEMMA SumIsTotal ==
  ASSUME NEW S, NEW w, Numbers(w, S), NEW f, IsSum(f, S, w)
  PROVE  IsTotal(f, S, w)
<1>1. \A T \in SUBSET S : T # {} => Some(T) \in T
  BY DEF Some
<1>2. f[{}] = 0
  BY DEF IsSum
<1>3. \A T \in SUBSET S : T # {} => f[T] = w[Some(T)] + f[T \ {Some(T)}]
  BY DEF IsSum
<1>4. \A T \in SUBSET S : f[T] \in Nat
  <2> DEFINE Q == {T \in SUBSET S : f[T] \in Nat}
  <2>1. {} \in Q
    BY <1>2
  <2>2. ASSUME NEW T \in SUBSET S, T # {}, \A x \in T : T \ {x} \in Q
        PROVE  T \in Q
    <3>1. PICK y \in T : y = Some(T)
      BY <1>1, <2>2
    <3>2. f[T] = w[y] + f[T \ {y}] /\ w[y] \in Nat /\ f[T \ {y}] \in Nat
      BY <1>3, <2>2, <3>1 DEF Numbers
    <3> QED BY <3>2
  <2> HIDE DEF Q
  <2>3. \A T \in SUBSET S : T \in Q
    BY <2>1, <2>2, Growing DEF Numbers
  <2> QED BY <2>3 DEF Q
<1> DEFINE Q == {T \in SUBSET S : \A x \in T : f[T] = w[x] + f[T \ {x}]}
<1>5. {} \in Q
  OBVIOUS
<1>6. ASSUME NEW T \in SUBSET S, T # {}, \A x \in T : T \ {x} \in Q
      PROVE  T \in Q
  <2>1. PICK y \in T : y = Some(T)
    BY <1>1, <1>6
  <2>2. f[T] = w[y] + f[T \ {y}]
    BY <1>3, <1>6, <2>1
  <2>3. ASSUME NEW x \in T PROVE f[T] = w[x] + f[T \ {x}]
    <3>1. CASE x = y
      BY <2>2, <3>1
    <3>2. CASE x # y
      <4>1. PICK R : R = (T \ {x}) \ {y} /\ R = (T \ {y}) \ {x} /\ R \in SUBSET S
        OBVIOUS
      <4>2. f[T \ {y}] = w[x] + f[R]
        BY <1>6, <3>2, <4>1
      <4>3. f[T \ {x}] = w[y] + f[R]
        BY <1>6, <3>2, <4>1
      <4>4. f[R] \in Nat /\ w[x] \in Nat /\ w[y] \in Nat
        BY <1>4, <4>1 DEF Numbers
      <4> QED BY <2>2, <4>2, <4>3, <4>4
    <3> QED BY <3>1, <3>2
  <2> QED BY <2>3
<1> HIDE DEF Q
<1>7. \A T \in SUBSET S : T \in Q
  BY <1>5, <1>6, Growing DEF Numbers
<1>8. \A T \in SUBSET S : \A x \in T : f[T] = w[x] + f[T \ {x}]
  BY <1>7 DEF Q
<1> QED BY <1>2, <1>4, <1>8 DEF IsTotal

\* The sum of the numbers of a finite set.
LEMMA SumExists ==
  ASSUME NEW S, NEW w, Numbers(w, S)
  PROVE  \E f \in [SUBSET S -> Nat] : IsSum(f, S, w)
<1>1. PICK c : c = [T \in SUBSET S |-> Some(T)]
  OBVIOUS
<1>2. PICK G : G = [x \in S |-> [v \in Nat |-> w[x] + v]]
  OBVIOUS
<1>3. \A T \in SUBSET S : T # {} => c[T] \in T
  BY <1>1 DEF Some
<1>4. IsRecursion(S, Nat, 0, G, c)
  BY <1>2, <1>3 DEF IsRecursion, Numbers
<1>5. PICK h : IsSolution(h, S, Nat, 0, G, c)
  BY <1>4, RecursionHasSolution
<1>6. ASSUME NEW T \in SUBSET S
      PROVE  h[T] = IF T = {} THEN 0 ELSE w[Some(T)] + h[T \ {Some(T)}]
  <2>1. T # {} => c[T] = Some(T) /\ Some(T) \in S /\ h[T \ {Some(T)}] \in Nat
    BY <1>1, <1>3, <1>5 DEF IsSolution
  <2>2. h[T] = IF T = {} THEN 0 ELSE G[c[T]][h[T \ {c[T]}]]
    BY <1>5 DEF IsSolution
  <2> QED BY <1>2, <2>1, <2>2
<1> QED BY <1>5, <1>6 DEF IsSolution, IsSum

\* Two sums of the same numbers are the same.
LEMMA TotalsAgree ==
  ASSUME NEW S, NEW R, NEW w, NEW v, NEW f, NEW g, IsFiniteSet(S), S \subseteq R,
         \A x \in S : w[x] = v[x], IsTotal(f, S, w), IsTotal(g, R, v)
  PROVE  f[S] = g[S]
<1> DEFINE Q == {T \in SUBSET S : f[T] = g[T]}
<1>1. {} \in Q
  BY DEF IsTotal
<1>2. ASSUME NEW T \in SUBSET S, T # {}, \A x \in T : T \ {x} \in Q
      PROVE  T \in Q
  <2>1. PICK x \in T : TRUE
    BY <1>2
  <2>2. f[T] = w[x] + f[T \ {x}]
    BY DEF IsTotal
  <2>3. g[T] = v[x] + g[T \ {x}]
    BY DEF IsTotal
  <2>4. f[T \ {x}] = g[T \ {x}] /\ w[x] = v[x]
    BY <1>2
  <2> QED BY <2>2, <2>3, <2>4
<1> HIDE DEF Q
<1>3. \A T \in SUBSET S : T \in Q
  BY <1>1, <1>2, Growing
<1> QED BY <1>3 DEF Q

\* The total of the numbers of a finite set.
Total(w, S) == (CHOOSE f : IsTotal(f, S, w))[S]

\* Every sum of the numbers is their total.
LEMMA TotalIs ==
  ASSUME NEW S, NEW R, NEW w, NEW v, Numbers(w, S), S \subseteq R, NEW g, IsTotal(g, R, v),
         \A x \in S : w[x] = v[x]
  PROVE  Total(w, S) = g[S]
<1>1. PICK f : IsSum(f, S, w)
  BY SumExists
<1>2. IsTotal(f, S, w)
  BY <1>1, SumIsTotal
<1>3. PICK h : h = CHOOSE f1 : IsTotal(f1, S, w)
  OBVIOUS
<1>4. IsTotal(h, S, w)
  BY <1>2, <1>3
<1>5. h[S] = g[S]
  BY <1>4, TotalsAgree DEF Numbers
<1> QED BY <1>3, <1>5 DEF Total

\* The totals of all parts of a finite set.
LEMMA TotalHasFunction ==
  ASSUME NEW S, NEW w, Numbers(w, S)
  PROVE  \E f : /\ IsTotal(f, S, w)
                /\ \A T \in SUBSET S : Total(w, T) = f[T] /\ Numbers(w, T)
<1>1. PICK f : IsSum(f, S, w)
  BY SumExists
<1>2. IsTotal(f, S, w)
  BY <1>1, SumIsTotal
<1>3. ASSUME NEW T \in SUBSET S PROVE Total(w, T) = f[T] /\ Numbers(w, T)
  <2>1. Numbers(w, T)
    BY FS_Subset DEF Numbers
  <2> QED BY <1>2, <2>1, TotalIs
<1> QED BY <1>2, <1>3

\* A sum and one of its numbers.
LEMMA TotalWithout ==
  ASSUME NEW S, NEW w, Numbers(w, S)
  PROVE  /\ Total(w, {}) = 0 /\ Total(w, S) \in Nat
         /\ \A x \in S : Total(w, S) = w[x] + Total(w, S \ {x})
<1>1. PICK f : IsTotal(f, S, w) /\ \A T \in SUBSET S : Total(w, T) = f[T]
  BY TotalHasFunction
<1>2. \A x \in S : S \ {x} \in SUBSET S
  OBVIOUS
<1> QED BY <1>1, <1>2 DEF IsTotal

\* A sum of parts, each at most k times the part of another.
LEMMA TotalAtMost ==
  ASSUME NEW S, NEW w, NEW v, NEW k \in Nat, Numbers(w, S), Numbers(v, S),
         \A x \in S : w[x] <= k * v[x]
  PROVE  Total(w, S) <= k * Total(v, S)
<1>1. PICK f : IsTotal(f, S, w) /\ \A T \in SUBSET S : Total(w, T) = f[T]
  BY TotalHasFunction
<1>2. PICK g : IsTotal(g, S, v) /\ \A T \in SUBSET S : Total(v, T) = g[T]
  BY TotalHasFunction
<1> DEFINE Q == {T \in SUBSET S : f[T] <= k * g[T]}
<1>3. {} \in Q
  BY <1>1, <1>2 DEF IsTotal
<1>4. ASSUME NEW T \in SUBSET S, T # {}, \A x \in T : T \ {x} \in Q
      PROVE  T \in Q
  <2>1. PICK x \in T : TRUE
    BY <1>4
  <2>2. PICK a \in Nat, b \in Nat : a = w[x] /\ b = v[x] /\ a <= k * b
    BY DEF Numbers
  <2>3. PICK c \in Nat, d \in Nat : c = f[T \ {x}] /\ d = g[T \ {x}] /\ c <= k * d
    BY <1>1, <1>2, <1>4 DEF IsTotal
  <2>4. f[T] = a + c /\ g[T] = b + d
    BY <1>1, <1>2, <2>2, <2>3 DEF IsTotal
  <2>5. k * (b + d) = k * b + k * d
    OBVIOUS
  <2>6. k * b \in Nat /\ k * d \in Nat
    OBVIOUS
  <2>7. a + c <= k * (b + d)
    BY <2>2, <2>3, <2>5, <2>6
  <2> QED BY <2>4, <2>7
<1> HIDE DEF Q
<1>5. \A T \in SUBSET S : T \in Q
  BY <1>3, <1>4, Growing DEF Numbers
<1> QED BY <1>1, <1>2, <1>5 DEF Q

\* The sum of two groups that share nothing.
Splits(C, A, B) == C = A \cup B /\ A \cap B = {}

\* The sum of two groups that share nothing is the sum of both.
LEMMA TotalOfBoth ==
  ASSUME NEW S, NEW w, Numbers(w, S), NEW f, IsTotal(f, S, w),
         NEW A \in SUBSET S, NEW B \in SUBSET S, NEW C, Splits(C, A, B)
  PROVE  f[C] = f[A] + f[B]
<1> USE DEF Splits
<1> DEFINE Q == {T \in SUBSET B : f[A \cup T] = f[A] + f[T]}
<1>1. {} \in Q
  <2>1. A \cup {} = A /\ f[A] \in Nat /\ f[{}] = 0
    BY DEF IsTotal
  <2> QED BY <2>1
<1>2. ASSUME NEW T \in SUBSET B, T # {}, \A x \in T : T \ {x} \in Q
      PROVE  T \in Q
  <2>1. PICK x \in T : TRUE
    BY <1>2
  <2>2. T \in SUBSET S /\ A \cup T \in SUBSET S /\ x \in A \cup T
        /\ (A \cup T) \ {x} = A \cup (T \ {x})
    OBVIOUS
  <2>3. f[A \cup (T \ {x})] = f[A] + f[T \ {x}]
    BY <1>2
  <2>4. f[A \cup T] = w[x] + f[A \cup (T \ {x})]
    BY <2>2 DEF IsTotal
  <2>5. f[T] = w[x] + f[T \ {x}] /\ f[T \ {x}] \in Nat /\ f[A] \in Nat /\ w[x] \in Nat
    BY <2>2 DEF IsTotal, Numbers
  <2> QED BY <2>3, <2>4, <2>5
<1> HIDE DEF Q
<1>3. IsFiniteSet(B)
  BY FS_Subset DEF Numbers
<1>4. \A T \in SUBSET B : T \in Q
  BY <1>1, <1>2, <1>3, Growing
<1>5. B \in Q
  BY <1>4
<1> QED BY <1>5 DEF Q

\* A sum taken group by group.
Group(S, p, k) == {x \in S : p[x] = k}

\* The sums of the groups make the sum of all.
LEMMA TotalByGroups ==
  ASSUME NEW S, NEW K, NEW p \in [S -> K], NEW w, Numbers(w, S), IsFiniteSet(K),
         NEW v, \A k \in K : v[k] = Total(w, Group(S, p, k))
  PROVE  Numbers(v, K) /\ Total(v, K) = Total(w, S)
<1>1. PICK f : IsTotal(f, S, w) /\ \A T \in SUBSET S : Total(w, T) = f[T]
  BY TotalHasFunction
<1>2. \A k \in K : v[k] = f[Group(S, p, k)] /\ v[k] \in Nat
  BY <1>1 DEF Group, IsTotal
<1>3. Numbers(v, K)
  BY <1>2 DEF Numbers
<1>4. PICK g : IsTotal(g, K, v) /\ \A T \in SUBSET K : Total(v, T) = g[T]
  BY <1>3, TotalHasFunction
<1> DEFINE In(J) == {x \in S : p[x] \in J}
           P == {J \in SUBSET K : g[J] = f[In(J)]}
<1>5. {} \in P
  <2>1. In({}) = {}
    OBVIOUS
  <2> QED BY <1>1, <1>4, <2>1 DEF IsTotal
<1>6. ASSUME NEW J \in SUBSET K, J # {}, \A k \in J : J \ {k} \in P
      PROVE  J \in P
  <2>1. PICK k \in J : TRUE
    BY <1>6
  <2>2. g[J] = v[k] + g[J \ {k}] /\ g[J \ {k}] = f[In(J \ {k})]
    BY <1>4, <1>6 DEF IsTotal
  <2>3. PICK rest : rest = In(J \ {k})
    OBVIOUS
  <2>4. PICK own : own = Group(S, p, k)
    OBVIOUS
  <2>5. rest \in SUBSET S /\ own \in SUBSET S /\ Splits(In(J), rest, own)
    BY <2>3, <2>4 DEF Group, Splits
  <2>6. f[In(J)] = f[rest] + f[own]
    <3>1. IsTotal(f, S, w)
      BY <1>1
    <3> HIDE DEF In, P
    <3> QED BY <2>5, <3>1, TotalOfBoth
  <2>7. f[rest] \in Nat /\ f[own] \in Nat
    BY <1>1, <2>5 DEF IsTotal
  <2>8. g[J] = f[In(J)]
    <3>1. g[J] = v[k] + f[rest] /\ v[k] = f[own]
      BY <1>2, <2>2, <2>3, <2>4
    <3> HIDE DEF In
    <3> QED BY <2>6, <2>7, <3>1
  <2> QED BY <2>8
<1> HIDE DEF P
<1>7. K \in P
  <2>1. \A J \in SUBSET K : J \in P
    BY <1>5, <1>6, Growing
  <2> QED BY <2>1
<1>8. In(K) = S
  OBVIOUS
<1> QED BY <1>1, <1>3, <1>4, <1>7, <1>8 DEF P

\* The same numbers under other names.
LEMMA TotalRenamed ==
  ASSUME NEW S, NEW R, NEW p, NEW w, NEW v, Numbers(w, S), Numbers(v, R),
         p \in [S -> R], \A x, y \in S : p[x] = p[y] => x = y,
         \A y \in R : \E x \in S : p[x] = y, \A x \in S : v[p[x]] = w[x]
  PROVE  Total(w, S) = Total(v, R)
<1>1. PICK f : IsTotal(f, S, w) /\ \A T \in SUBSET S : Total(w, T) = f[T]
  BY TotalHasFunction
<1>2. PICK g : IsTotal(g, R, v) /\ \A T \in SUBSET R : Total(v, T) = g[T]
  BY TotalHasFunction
<1> DEFINE Image(T) == {p[x] : x \in T}
           Q == {T \in SUBSET S : f[T] = g[Image(T)]}
<1>3. {} \in Q
  <2>1. Image({}) = {}
    OBVIOUS
  <2> QED BY <1>1, <1>2, <2>1 DEF IsTotal
<1>4. ASSUME NEW T \in SUBSET S, T # {}, \A x \in T : T \ {x} \in Q
      PROVE  T \in Q
  <2>1. PICK x \in T : TRUE
    BY <1>4
  <2>2. f[T] = w[x] + f[T \ {x}] /\ f[T \ {x}] = g[Image(T \ {x})]
    BY <1>1, <1>4 DEF IsTotal
  <2>3. Image(T) \in SUBSET R /\ p[x] \in Image(T)
    OBVIOUS
  <2>4. Image(T) \ {p[x]} = Image(T \ {x})
    OBVIOUS
  <2>5. g[Image(T)] = v[p[x]] + g[Image(T) \ {p[x]}]
    BY <1>2, <2>3 DEF IsTotal
  <2> QED BY <2>2, <2>4, <2>5
<1> HIDE DEF Q
<1>5. S \in Q
  <2>1. \A T \in SUBSET S : T \in Q
    BY <1>3, <1>4, Growing DEF Numbers
  <2> QED BY <2>1
<1>6. Image(S) = R
  OBVIOUS
<1>7. f[S] = g[R]
  BY <1>5, <1>6 DEF Q
<1>8. Total(w, S) = f[S] /\ Total(v, R) = g[R]
  BY <1>1, <1>2
<1> QED BY <1>7, <1>8

\* Only the numbers themselves make a sum.
LEMMA TotalOfSame ==
  ASSUME NEW S, NEW w, NEW v, Numbers(w, S), \A x \in S : w[x] = v[x]
  PROVE  Total(w, S) = Total(v, S)
<1>1. Numbers(v, S)
  BY DEF Numbers
<1>2. PICK f : IsTotal(f, S, v) /\ \A T \in SUBSET S : Total(v, T) = f[T]
  BY <1>1, TotalHasFunction
<1>3. IsTotal(f, S, v) /\ S \subseteq S
  BY <1>2
<1>4. Total(w, S) = f[S]
  BY <1>3, TotalIs
<1>5. S \in SUBSET S
  OBVIOUS
<1> QED BY <1>2, <1>4, <1>5

-----------------------------------------------------------------------------
(* The recency of the player's talk with an NPC.                           *)

Seconds == 0..Never

\* The NPC of the conversation was seen talking by the last snapshot, or spoken to
\* since.
SeenSince ==
  /\ age \in [Npcs -> Seconds] /\ lag \in Seconds
  /\ talking \in Npcs /\ lag # Never => age[talking] <= lag

\* Waiting ages everything alike, up to where the bands end.
LEMMA OlderIs ==
  ASSUME NEW d \in Nat
  PROVE  /\ \A s \in Seconds : Older(s, d) \in Seconds
         /\ \A s \in Seconds : Older(s, d) = Never <=> s = Never
         /\ \A r, s \in Seconds : r <= s /\ s # Never =>
              Older(r, d) <= Older(s, d)
<1>1. \A s \in Seconds \ {Never} :
        Older(s, d) = IF s + d < Oblivion THEN s + d ELSE Oblivion
  <2> SUFFICES ASSUME NEW s \in Seconds \ {Never}
               PROVE  Older(s, d) = IF s + d < Oblivion THEN s + d ELSE Oblivion
    OBVIOUS
  <2> DEFINE S == {s + d, Oblivion}
             m == IF s + d < Oblivion THEN s + d ELSE Oblivion
  <2>1. Older(s, d) = CHOOSE x \in S : \A y \in S : x <= y
    BY DEF Older, Min
  <2>2. m \in S /\ \A y \in S : m <= y
    BY DEF Oblivion, Seconds, Never
  <2>3. \A x \in S : (\A y \in S : x <= y) => x = m
    BY <2>2 DEF Oblivion, Seconds, Never
  <2> QED BY <2>1, <2>2, <2>3
<1> QED BY <1>1 DEF Seconds, Never, Oblivion, Older

\* Every step keeps the age of the last sight within the lag of the signal.
LEMMA SignalsStep ==
  ASSUME SeenSince, [Next]_vars
  PROVE  SeenSince'
<1> USE DEF SeenSince
<1>1. 0 \in Seconds /\ \A s \in Seconds : 0 <= s
  BY DEF Seconds, Never, Oblivion
<1>2. ASSUME NEW s \in Sights, Observe(s) PROVE SeenSince'
  BY <1>1, <1>2 DEF Observe
<1>3. ASSUME NEW n \in Partners, Turn(n) PROVE SeenSince'
  BY <1>1, <1>3 DEF Turn
<1>4. ASSUME NEW d \in Pauses, Wait(d) PROVE SeenSince'
  BY <1>4, OlderIs, SignalsAssumption DEF Wait
<1>5. CASE Restart
  BY <1>5 DEF Restart, Seconds, Never, Oblivion
<1>6. CASE UNCHANGED <<talking, age, lag>>
  BY <1>6
<1> QED BY <1>2, <1>3, <1>4, <1>5, <1>6 DEF Next, vars, Start,
           End, Revise

\* An NPC whose conversation is gone fades from the snapshot that last showed it
\* talking, however long ago the player last spoke to it (interaction_recency.py).
THEOREM ConversationFades == Spec => FadesFromLastSight
<1>1. Init => SeenSince
  BY DEF Init, SeenSince, Seconds, Never, Oblivion
<1>2. ASSUME SeenSince, [Next]_vars
      PROVE  [\A n \in Npcs :
                talking = n /\ talking' # n /\ lag # Never =>
                  Recency(n)' >= Decayed(lag)]_vars
  <2> SUFFICES ASSUME Next, NEW n \in Npcs, talking = n, talking' # n,
                      lag # Never
               PROVE  Recency(n)' >= Decayed(lag)
    BY <1>2
  <2>1. PICK s \in Sights : Observe(s)
    BY DEF Next, Turn, Start, End, Revise,
       Wait, Restart
  <2>2. age'[n] = age[n] /\ age[n] <= lag /\ age[n] \in Seconds /\ lag \in Seconds
    BY <1>2, <2>1 DEF SeenSince, Observe
  <2>3. Recency(n)' = Decayed(age[n])
    BY <2>2 DEF Recency, Decayed
  <2>4. Decayed(age[n]) >= Decayed(lag)
    BY <2>2 DEF Decayed, Seconds, Never, Oblivion
  <2> QED BY <2>3, <2>4
<1> QED BY <1>1, <1>2, SignalsStep, PTL DEF Spec, FadesFromLastSight

-----------------------------------------------------------------------------
(* The relevance of running events, and the event a prompt tells.          *)

\* A nonempty set of natural numbers has a least one, which Min chooses.
LEMMA MinIs ==
  ASSUME NEW T \in SUBSET Nat, T # {}
  PROVE  Min(T) \in T /\ \A k \in T : Min(T) <= k
BY LeastNumber DEF Min

\* An event that runs, with its cast and those who witnessed it.
Happenings == [event : Events, cast : Casts, witnesses : SUBSET Npcs]

\* What runs was started by a cast or revised to one, and what is seen was
\* a snapshot.
SignalsKnown == running \in Seq(Happenings) /\ sight \in Sights \cup {NoSight}

\* An event put among those that run.
LEMMA InsertedIs ==
  ASSUME NEW S, NEW s \in Seq(S), NEW i \in 1..(Len(s) + 1), NEW e \in S
  PROVE  InsertAt(s, i, e) \in Seq(S)
<1>1. SubSeq(s, 1, i - 1) \in Seq(S) /\ SubSeq(s, i, Len(s)) \in Seq(S) /\ <<e>> \in Seq(S)
  OBVIOUS
<1> QED BY <1>1 DEF InsertAt

\* An event that ends.
LEMMA RemovedIs ==
  ASSUME NEW S, NEW s \in Seq(S), NEW i \in 1..Len(s)
  PROVE  RemoveAt(s, i) \in Seq(S)
<1>1. SubSeq(s, 1, i - 1) \in Seq(S) /\ SubSeq(s, i + 1, Len(s)) \in Seq(S)
  OBVIOUS
<1> QED BY <1>1 DEF RemoveAt

\* Every step leaves known what runs and what is seen.
LEMMA KnownStep ==
  ASSUME SignalsKnown, [Next]_vars
  PROVE  SignalsKnown'
<1> USE DEF SignalsKnown
<1>1. ASSUME NEW s \in Sights, Observe(s) PROVE SignalsKnown'
  BY <1>1 DEF Observe
<1>2. ASSUME NEW n \in Partners, Turn(n) PROVE SignalsKnown'
  BY <1>2 DEF Turn
<1>3. ASSUME NEW e \in Events, NEW cast \in Casts, NEW i \in 1..(Len(running) + 1), Start(e, cast, i)
      PROVE  SignalsKnown'
  <2>1. PICK h : h = [event |-> e, cast |-> cast, witnesses |-> Witnesses(cast)]
    OBVIOUS
  <2>2. h \in Happenings
    BY <2>1 DEF Happenings, Witnesses, Candidates
  <2>3. InsertAt(running, i, h) \in Seq(Happenings)
    BY <2>2, InsertedIs
  <2> QED BY <1>3, <2>1, <2>3 DEF Start
<1>4. ASSUME NEW i \in 1..Len(running), End(i) PROVE SignalsKnown'
  BY <1>4, RemovedIs DEF End
<1>5. ASSUME NEW i \in 1..Len(running), NEW cast \in Casts, Revise(i, cast) PROVE SignalsKnown'
  <2>1. running[i] \in Happenings
    OBVIOUS
  <2>2. [running[i] EXCEPT !.cast = cast] \in Happenings
    BY <2>1 DEF Happenings
  <2>3. running' = [running EXCEPT ![i] = [running[i] EXCEPT !.cast = cast]]
    BY <1>5 DEF Revise
  <2> QED BY <1>5, <2>2, <2>3 DEF Revise
<1>6. ASSUME NEW d \in Pauses, Wait(d) PROVE SignalsKnown'
  BY <1>6 DEF Wait
<1>7. CASE Restart
  BY <1>7 DEF Restart
<1>8. CASE UNCHANGED vars
  BY <1>8 DEF vars
<1> QED BY <1>1, <1>2, <1>3, <1>4, <1>5, <1>6, <1>7, <1>8 DEF Next

\* The events that run and the sight that is scored are ones that came in, whatever
\* starts, ends, is revised or seen and however often the process restarts.
THEOREM SignalsAreKnown == Spec => []SignalsKnown
<1>1. Init => SignalsKnown
  BY DEF Init, SignalsKnown
<1> QED BY <1>1, KnownStep, PTL DEF Spec

\* The roles an NPC can have in an event.
Roles == DOMAIN RelevanceOf

\* Nobody has another role.
LEMMA RolesAre ==
  ASSUME NEW n \in Npcs, NEW e \in Happenings
  PROVE  RolesIn(n, e) \subseteq Roles
<1>1. e.cast \in Casts /\ DOMAIN e.cast.holders \subseteq {"actor", "target", "responder"}
  BY SignalsAssumption DEF Happenings
<1> QED BY <1>1 DEF RolesIn, Named, Roles, RelevanceOf

\* The relevance of some roles is the largest of theirs (event_relevance.py).
LEMMA RelevanceIs ==
  ASSUME NEW R \in SUBSET Roles
  PROVE  /\ Relevance(R) \in 0..100
         /\ \A r \in R : RelevanceOf[r] \in Nat /\ RelevanceOf[r] <= Relevance(R)
         /\ Relevance(R) = 0 \/ \E r \in R : Relevance(R) = RelevanceOf[r]
<1> DEFINE T == {RelevanceOf[r] : r \in R} \cup {0}
<1>1. T \in SUBSET (0..100) /\ T # {}
  BY DEF Roles, RelevanceOf
<1>2. Relevance(R) = Max(T)
  BY DEF Relevance
<1>3. \A r \in R : RelevanceOf[r] \in T
  OBVIOUS
<1>4. \A x \in T : x = 0 \/ \E r \in R : x = RelevanceOf[r]
  OBVIOUS
<1> HIDE DEF T
<1>5. Max(T) \in T /\ \A k \in T : k <= Max(T)
  BY <1>1, MaxIs
<1>6. Relevance(R) \in T /\ \A k \in T : k <= Relevance(R)
  BY <1>2, <1>5
<1>7. ASSUME NEW r \in R PROVE RelevanceOf[r] \in Nat /\ RelevanceOf[r] <= Relevance(R)
  <2>1. PICK x \in T : x = RelevanceOf[r]
    BY <1>3
  <2>2. x \in 0..100 /\ x <= Relevance(R)
    BY <1>1, <1>6
  <2> QED BY <2>1, <2>2
<1>8. Relevance(R) \in 0..100
  BY <1>1, <1>6
<1> QED BY <1>4, <1>6, <1>7, <1>8

\* The relevance of an NPC in each of the running events.
Part(n, i) == Relevance(RolesIn(n, running[i]))

\* What the Router is told is the largest of them.
LEMMA EnrichmentIs ==
  ASSUME SignalsKnown, NEW n \in Npcs
  PROVE  /\ Enrichment(n) \in 0..100
         /\ \A i \in 1..Len(running) : Part(n, i) \in 0..100 /\ Part(n, i) <= Enrichment(n)
         /\ Enrichment(n) = 0 \/ \E i \in 1..Len(running) : Part(n, i) = Enrichment(n)
<1>1. PICK k \in Nat : k = Len(running) /\ DOMAIN running = 1..k
                       /\ \A i \in 1..k : running[i] \in Happenings
  BY DEF SignalsKnown
<1>2. \A i \in 1..k : RolesIn(n, running[i]) \subseteq Roles
  BY <1>1, RolesAre
<1> DEFINE U == UNION {RolesIn(n, e) : e \in ToSet(running)}
<1>3. \A i \in 1..k : RolesIn(n, running[i]) \subseteq U
  BY <1>1 DEF ToSet
<1>4. \A r \in U : \E i \in 1..k : r \in RolesIn(n, running[i])
  BY <1>1 DEF ToSet
<1>5. Enrichment(n) = Relevance(U)
  BY DEF Enrichment
<1> HIDE DEF U
<1>6. U \in SUBSET Roles
  BY <1>2, <1>4
<1>7. /\ Relevance(U) \in 0..100
      /\ \A r \in U : RelevanceOf[r] \in Nat /\ RelevanceOf[r] <= Relevance(U)
      /\ Relevance(U) = 0 \/ \E r \in U : Relevance(U) = RelevanceOf[r]
  BY <1>6, RelevanceIs
<1>8. ASSUME NEW i \in 1..k
      PROVE  /\ Part(n, i) \in 0..100 /\ Part(n, i) <= Relevance(U)
             /\ \A r \in RolesIn(n, running[i]) : RelevanceOf[r] <= Part(n, i)
  <2>1. PICK R \in SUBSET Roles : R = RolesIn(n, running[i]) /\ R \subseteq U
    BY <1>2, <1>3
  <2>2. /\ Relevance(R) \in 0..100
        /\ \A r \in R : RelevanceOf[r] \in Nat /\ RelevanceOf[r] <= Relevance(R)
        /\ Relevance(R) = 0 \/ \E r \in R : Relevance(R) = RelevanceOf[r]
    BY RelevanceIs
  <2>3. Part(n, i) = Relevance(R)
    BY <2>1 DEF Part
  <2>4. Relevance(R) <= Relevance(U)
    BY <1>7, <2>1, <2>2
  <2> QED BY <2>1, <2>2, <2>3, <2>4
<1>9. ASSUME Relevance(U) # 0 PROVE \E i \in 1..k : Part(n, i) = Relevance(U)
  <2>1. PICK r \in U : Relevance(U) = RelevanceOf[r]
    BY <1>7, <1>9
  <2>2. PICK i \in 1..k : r \in RolesIn(n, running[i])
    BY <1>4
  <2>3. Part(n, i) \in 0..100 /\ Part(n, i) <= Relevance(U) /\ Relevance(U) <= Part(n, i)
    BY <1>8, <2>1, <2>2
  <2> QED BY <1>7, <2>3
<1> QED BY <1>1, <1>5, <1>7, <1>8, <1>9

\* How much an event involves an NPC, and which.
Involvements == [relevance : Nat, event : Nat]

\* The strongest involvement, one event after the other.
LEMMA StrongestIs ==
  ASSUME NEW n, NEW k \in Nat, DOMAIN running = 1..k, \A i \in 1..k : Part(n, i) \in Nat
  PROVE  \E t \in [0..k -> Involvements] :
           /\ t[0] = NoInvolvement
           /\ \A i \in 1..k : t[i] = IF Part(n, i) > t[i - 1].relevance
                                     THEN [relevance |-> Part(n, i), event |-> i] ELSE t[i - 1]
           /\ StrongestInvolvement(n) = t[k]
<1>1. PICK G : G = [i \in 1..k |-> [v \in Involvements |-> Stronger(n, v, i)]]
  OBVIOUS
<1>2. ASSUME NEW i \in 1..k, NEW v \in Involvements
      PROVE  /\ Stronger(n, v, i) \in Involvements
             /\ Stronger(n, v, i) = IF Part(n, i) > v.relevance
                                    THEN [relevance |-> Part(n, i), event |-> i] ELSE v
  <2>1. Stronger(n, v, i) = IF Part(n, i) > v.relevance
                            THEN [relevance |-> Part(n, i), event |-> i] ELSE v
    BY DEF Stronger, Part
  <2> QED BY <2>1 DEF Involvements
<1>3. IsStep(k, Involvements, NoInvolvement, G)
  BY <1>1, <1>2 DEF IsStep, NoInvolvement, Involvements
<1>4. PICK h : IsLeftFold(h, k, Involvements, NoInvolvement, G)
  BY <1>3, LeftFoldHasSolution
<1>5. PICK d : d = [i \in DOMAIN running |-> i]
  OBVIOUS
<1>6. DOMAIN d = 1..k /\ \A i \in 1..k : d[i] = i
  BY <1>5
<1> DEFINE Best(f, T) == IF T = {} THEN NoInvolvement ELSE Stronger(n, f[T \ {Max(T)}], d[Max(T)])
           f == CHOOSE f : f = [T \in SUBSET DOMAIN d |-> Best(f, T)]
<1>7. h = [T \in SUBSET DOMAIN d |-> Best(h, T)]
  <2>1. ASSUME NEW T \in SUBSET (1..k) PROVE h[T] = Best(h, T)
    BY <1>1, <1>4, <1>6, <2>1 DEF IsLeftFold
  <2>2. h = [T \in SUBSET (1..k) |-> h[T]]
    BY <1>4 DEF IsLeftFold
  <2> QED BY <1>6, <2>1, <2>2
<1>8. f = [T \in SUBSET DOMAIN d |-> Best(f, T)]
  BY <1>7
<1>9. StrongestInvolvement(n) = f[DOMAIN d]
  BY <1>5 DEF StrongestInvolvement, FoldLeftDomain, FoldLeft, MapThenFoldSet
<1> HIDE DEF f
<1>10. IsLeftStep(f, k, Involvements, NoInvolvement, G)
  <2>1. \A T \in SUBSET (1..k) : T # {} => Max(T) \in 1..k
    BY <1>4 DEF IsLeftFold
  <2>2. f[{}] = NoInvolvement
    BY <1>6, <1>8
  <2>3. ASSUME NEW T \in SUBSET (1..k), T # {}, f[T \ {Max(T)}] \in Involvements
        PROVE  f[T] = G[Max(T)][f[T \ {Max(T)}]]
    <3>1. f[T] = Stronger(n, f[T \ {Max(T)}], d[Max(T)])
      BY <1>6, <1>8, <2>3
    <3>2. d[Max(T)] = Max(T) /\ Max(T) \in 1..k
      BY <1>6, <2>1, <2>3
    <3> QED BY <1>1, <2>3, <3>1, <3>2
  <2> QED BY <2>2, <2>3 DEF IsLeftStep
<1>11. PICK t : Unrolled(t, k, Involvements, NoInvolvement, G) /\ f[1..k] = t[k]
  BY <1>3, <1>10, LeftFoldIs
<1>12. ASSUME NEW i \in 1..k
       PROVE  t[i] = IF Part(n, i) > t[i - 1].relevance
                     THEN [relevance |-> Part(n, i), event |-> i] ELSE t[i - 1]
  <2>1. i - 1 \in 0..k /\ t[i - 1] \in Involvements
    BY <1>11 DEF Unrolled
  <2>2. t[i] = G[i][t[i - 1]]
    BY <1>11 DEF Unrolled
  <2>3. t[i] = Stronger(n, t[i - 1], i)
    BY <1>1, <2>1, <2>2
  <2> QED BY <1>2, <2>1, <2>3
<1> QED BY <1>6, <1>9, <1>11, <1>12 DEF Unrolled

\* The prompt tells the event that made the Router notice an NPC, and of equally
\* relevant ones the first, for every number of events, casts and witnesses: two
\* modules that each search the running events find the same one.
THEOREM PromptsTellTheReason == Spec => []PromptTellsTheReason
<1>1. ASSUME SignalsKnown PROVE PromptTellsTheReason
  <2> SUFFICES ASSUME NEW n \in Npcs
               PROVE  LET told   == StrongestInvolvement(n)
                          giving == {i \in 1..Len(running) :
                                       Relevance(RolesIn(n, running[i])) = Enrichment(n)}
                      IN  /\ told.relevance = Enrichment(n)
                          /\ told.event = IF Enrichment(n) = 0 THEN 0 ELSE Min(giving)
    BY DEF PromptTellsTheReason
  <2> DEFINE giving == {i \in 1..Len(running) :
                          Relevance(RolesIn(n, running[i])) = Enrichment(n)}
  <2>1. PICK k \in Nat : k = Len(running) /\ DOMAIN running = 1..k
    BY <1>1 DEF SignalsKnown
  <2>2. PICK x \in 0..100 : x = Enrichment(n)
    BY <1>1, EnrichmentIs
  <2>3. /\ \A i \in 1..k : Part(n, i) \in Nat /\ Part(n, i) <= x
        /\ x = 0 \/ \E i \in 1..k : Part(n, i) = x
    <3>1. \A i \in 1..k : Part(n, i) \in 0..100 /\ Part(n, i) <= Enrichment(n)
      BY <1>1, <2>1, EnrichmentIs
    <3>2. Enrichment(n) = 0 \/ \E i \in 1..k : Part(n, i) = Enrichment(n)
      BY <1>1, <2>1, EnrichmentIs
    <3> QED BY <2>2, <3>1, <3>2
  <2>4. PICK t \in [0..k -> Involvements] :
          /\ t[0] = NoInvolvement
          /\ \A i \in 1..k : t[i] = IF Part(n, i) > t[i - 1].relevance
                                    THEN [relevance |-> Part(n, i), event |-> i] ELSE t[i - 1]
          /\ StrongestInvolvement(n) = t[k]
    BY <2>1, <2>3, StrongestIs
  <2> DEFINE Tells(v, i) ==
        /\ \A j \in 1..i : Part(n, j) <= v.relevance
        /\ \/ v.relevance = 0 /\ v.event = 0
           \/ /\ v.event \in 1..i /\ v.relevance = Part(n, v.event) /\ v.relevance # 0
              /\ \A j \in 1..i : j < v.event => Part(n, j) < v.relevance
             P == {i \in 0..k : Tells(t[i], i)}
  <2>5. 0 \in P
    BY <2>4 DEF NoInvolvement
  <2>6. ASSUME NEW i \in 1..k, i - 1 \in P PROVE i \in P
    <3>1. PICK u \in Involvements : u = t[i - 1] /\ Tells(u, i - 1)
      BY <2>4, <2>6
    <3>2. u.relevance \in Nat /\ Part(n, i) \in Nat /\ \A j \in 1..i : j \in 1..(i - 1) \/ j = i
      BY <2>3, <3>1 DEF Involvements
    <3>3. CASE Part(n, i) > u.relevance
      <4>1. PICK v : v = t[i]
        OBVIOUS
      <4>2. v.relevance = Part(n, i) /\ v.event = i
        <5>1. v = [relevance |-> Part(n, i), event |-> i]
          BY <2>4, <3>1, <3>3, <4>1
        <5> QED BY <5>1
      <4>3. \A j \in 1..(i - 1) : Part(n, j) \in Nat /\ Part(n, j) < Part(n, i)
        BY <2>3, <3>1, <3>2, <3>3
      <4>4. Tells(v, i)
        BY <3>2, <3>3, <4>2, <4>3
      <4> QED BY <4>1, <4>4
    <3>4. CASE ~(Part(n, i) > u.relevance)
      <4>1. t[i] = u
        BY <2>4, <3>1, <3>4
      <4>2. Part(n, i) <= u.relevance
        BY <3>2, <3>4
      <4>3. Tells(u, i)
        BY <3>1, <3>2, <4>2
      <4> QED BY <4>1, <4>3
    <3> QED BY <3>3, <3>4
  <2> HIDE DEF P
  <2>7. \A i \in 0..k : i \in P
    BY <2>5, <2>6, Counting
  <2>8. k \in P
    BY <2>7
  <2>9. PICK v \in Involvements : v = t[k] /\ Tells(v, k)
    BY <2>4, <2>8 DEF P
  <2>10. v.relevance = x
    BY <2>3, <2>9 DEF Involvements
  <2>11. CASE x = 0
    BY <2>2, <2>4, <2>9, <2>10, <2>11
  <2>12. CASE x # 0
    <3>1. PICK m \in 1..k : m = v.event /\ Part(n, m) = x /\ \A j \in 1..k : j < m => Part(n, j) < x
      BY <2>9, <2>10, <2>12
    <3>2. giving = {i \in 1..k : Part(n, i) = x}
      BY <2>1, <2>2 DEF Part
    <3> HIDE DEF giving
    <3>3. m \in giving /\ giving \in SUBSET Nat /\ \A j \in giving : m <= j
      BY <2>3, <3>1, <3>2
    <3>4. Min(giving) \in giving /\ \A j \in giving : Min(giving) <= j
      BY <3>3, MinIs
    <3>5. Min(giving) = m
      <4>1. PICK g : g = Min(giving)
        OBVIOUS
      <4>2. g \in Nat /\ m \in Nat /\ g <= m /\ m <= g
        BY <3>3, <3>4, <4>1
      <4> QED BY <4>1, <4>2
    <3> QED BY <2>2, <2>4, <2>9, <2>10, <2>12, <3>1, <3>5 DEF giving
  <2> QED BY <2>11, <2>12
<1> QED BY <1>1, SignalsAreKnown, PTL

-----------------------------------------------------------------------------
(* The propagation of attention along gazes.                               *)

\* A score is not negative.
LEMMA MaxOfTwo ==
  ASSUME NEW x \in Int
  PROVE  Max({0, x}) \in Nat
<1> DEFINE m == IF x > 0 THEN x ELSE 0
<1>1. m \in {0, x} /\ \A y \in {0, x} : m >= y
  OBVIOUS
<1>2. Max({0, x}) \in {0, x} /\ \A y \in {0, x} : Max({0, x}) >= y
  BY <1>1 DEF Max
<1>3. Max({0, x}) >= 0 /\ (Max({0, x}) = 0 \/ Max({0, x}) = x)
  BY <1>2
<1> QED BY <1>3

\* What an NPC scores by itself, and what it passes on.
LEMMA DirectIs ==
  ASSUME SignalsKnown, NEW n \in Npcs
  PROVE  Direct(n) \in Nat
<1>1. PICK s \in Sights \cup {NoSight} : s = sight
  BY DEF SignalsKnown
<1>2. s.at[n] \in Int /\ s.view[n].centre \in Int
  BY SignalsAssumption
<1>3. View(n) \in Nat
  <2>1. 100 - s.view[n].centre \in Int
    BY <1>2
  <2>2. Max({0, 100 - s.view[n].centre}) \in Nat
    BY <2>1, MaxOfTwo
  <2> QED BY <1>1, <2>2 DEF View
<1>4. Proximity(n) \in Nat
  <2>1. PICK b \in Int : b = 100 * Blocks(s.at[n], 0)
    BY <1>2 DEF Blocks
  <2>2. PICK d \in Nat \ {0} : d = MaxDistance
    BY SignalsAssumption
  <2>3. 100 - b \div d \in Int
    OBVIOUS
  <2>4. Max({0, 100 - b \div d}) \in Nat
    BY <2>3, MaxOfTwo
  <2> QED BY <1>1, <2>1, <2>2, <2>4 DEF Proximity
<1>5. Enrichment(n) \in Nat
  <2>1. Enrichment(n) \in 0..100
    BY EnrichmentIs
  <2> QED BY <2>1
<1>6. Recency(n) \in Nat
  BY DEF Recency, Decayed
<1> QED BY <1>3, <1>4, <1>5, <1>6 DEF Direct, Signals

\* What is passed on is at most half of a thousand (_propagated).
LEMMA PassedIs ==
  ASSUME NEW score \in Nat
  PROVE  Passed(score) \in 0..500
<1>1. {1000, score} \in SUBSET Nat
  OBVIOUS
<1>2. Min({1000, score}) \in {1000, score} /\ \A k \in {1000, score} : Min({1000, score}) <= k
  BY <1>1, MinIs
<1>3. PICK m : m = Min({1000, score})
  OBVIOUS
<1>4. m \in Nat /\ m <= 1000
  BY <1>2, <1>3
<1>5. m \div 2 \in 0..500
  BY <1>4
<1> QED BY <1>3, <1>5 DEF Passed

\* What an NPC hears, and from whom.
Heard == [score : Nat, source : Npcs \cup {NoNpc}]

\* A gaze brings its target something, worth half of the source's own score.
Brings(e, n) == Usable(e) /\ e.target = n
\* What a gaze passes on.
Worth(e)     == Passed(Direct(e.source))

\* A gaze that counts connects two candidates.
LEMMA UsableIs ==
  ASSUME SignalsKnown, NEW e, Usable(e)
  PROVE  e.source \in Npcs /\ e.target \in Npcs /\ Worth(e) \in Nat /\ Worth(e) \in 0..500
<1>1. e.source \in Npcs /\ e.target \in Npcs
  BY DEF Usable, Candidates
<1>2. Worth(e) \in 0..500
  BY <1>1, DirectIs, PassedIs DEF Worth
<1> QED BY <1>1, <1>2

\* One gaze changes what its target has heard, and that of nobody else.
LEMMA CarryIs ==
  ASSUME SignalsKnown, NEW v \in [Npcs -> Heard], NEW e
  PROVE  /\ Carry(v, e) \in [Npcs -> Heard]
         /\ \A n \in Npcs :
              Carry(v, e)[n] = IF Brings(e, n) /\ Outweighs(Worth(e), e.source, v[n])
                               THEN [score |-> Worth(e), source |-> e.source] ELSE v[n]
<1>1. CASE Usable(e)
  <2>1. e.source \in Npcs /\ e.target \in Npcs /\ Worth(e) \in Nat
    BY <1>1, UsableIs
  <2>2. [score |-> Worth(e), source |-> e.source] \in Heard
    BY <2>1 DEF Heard
  <2>3. Carry(v, e) = IF Outweighs(Worth(e), e.source, v[e.target])
                      THEN [v EXCEPT ![e.target] = [score |-> Worth(e), source |-> e.source]]
                      ELSE v
    BY <1>1 DEF Carry, Worth
  <2> QED BY <1>1, <2>1, <2>2, <2>3 DEF Brings
<1>2. CASE ~Usable(e)
  BY <1>2 DEF Carry, Brings
<1> QED BY <1>1, <1>2

\* The propagation, one edge after the other.
Hops(t, E, k) ==
  /\ t \in [0..k -> [Npcs -> Heard]] /\ t[0] = [n \in Npcs |-> NoSignal]
  /\ \A i \in 1..k : t[i] = Carry(t[i - 1], E[i])

\* What the scoring computes is the propagation after the last edge.
LEMMA PropagatedIs ==
  ASSUME SignalsKnown, NEW E, E = sight.edges, NEW k \in Nat, DOMAIN E = 1..k
  PROVE  \E t : Hops(t, E, k) /\ Propagated = t[k]
<1>1. PICK V : V = [Npcs -> Heard]
  OBVIOUS
<1>2. PICK base : base = [n \in Npcs |-> NoSignal]
  OBVIOUS
<1>3. PICK G : G = [i \in 1..k |-> [v \in V |-> Carry(v, E[i])]]
  OBVIOUS
<1>4. base \in V
  BY <1>1, <1>2 DEF Heard, NoSignal
<1>5. \A i \in 1..k : \A v \in V : Carry(v, E[i]) \in V
  BY <1>1, CarryIs
<1>6. IsStep(k, V, base, G)
  BY <1>3, <1>4, <1>5 DEF IsStep
<1>7. PICK h : IsLeftFold(h, k, V, base, G)
  BY <1>6, LeftFoldHasSolution
<1> DEFINE Onward(f, T) == IF T = {} THEN base ELSE Carry(f[T \ {Max(T)}], E[Max(T)])
           f == CHOOSE f : f = [T \in SUBSET DOMAIN E |-> Onward(f, T)]
<1>8. h = [T \in SUBSET DOMAIN E |-> Onward(h, T)]
  <2>1. ASSUME NEW T \in SUBSET (1..k) PROVE h[T] = Onward(h, T)
    BY <1>3, <1>7, <2>1 DEF IsLeftFold
  <2>2. h = [T \in SUBSET (1..k) |-> h[T]]
    BY <1>7 DEF IsLeftFold
  <2> QED BY <2>1, <2>2
<1>9. f = [T \in SUBSET DOMAIN E |-> Onward(f, T)]
  BY <1>8
<1>10. Propagated = f[DOMAIN E]
  BY <1>2 DEF Propagated, FoldLeft, MapThenFoldSet
<1> HIDE DEF f
<1>11. IsLeftStep(f, k, V, base, G)
  <2>1. \A T \in SUBSET (1..k) : T # {} => Max(T) \in 1..k
    BY <1>7 DEF IsLeftFold
  <2>2. f[{}] = base
    BY <1>9
  <2>3. ASSUME NEW T \in SUBSET (1..k), T # {}, f[T \ {Max(T)}] \in V
        PROVE  f[T] = G[Max(T)][f[T \ {Max(T)}]]
    <3>1. f[T] = Carry(f[T \ {Max(T)}], E[Max(T)])
      BY <1>9, <2>3
    <3> QED BY <1>3, <2>1, <2>3, <3>1
  <2> QED BY <2>2, <2>3 DEF IsLeftStep
<1>12. PICK t : Unrolled(t, k, V, base, G) /\ f[1..k] = t[k]
  BY <1>6, <1>11, LeftFoldIs
<1>13. ASSUME NEW i \in 1..k PROVE t[i] = Carry(t[i - 1], E[i])
  <2>1. i - 1 \in 0..k /\ t[i - 1] \in V /\ t[i] = G[i][t[i - 1]]
    BY <1>12 DEF Unrolled
  <2> QED BY <1>3, <2>1
<1> QED BY <1>1, <1>2, <1>10, <1>12, <1>13 DEF Unrolled, Hops

\* What has come in for an NPC over the first of the edges: the strongest, from
\* the first that brought it.
CameIn(c, E, i, n) ==
  /\ \A j \in 1..i : Brings(E[j], n) => Worth(E[j]) <= c.score
  /\ \/ c = NoSignal
     \/ /\ c.score > 0
        /\ \E j \in 1..i : Brings(E[j], n) /\ Worth(E[j]) = c.score /\ E[j].source = c.source
        /\ \A j \in 1..i : Brings(E[j], n) /\ Worth(E[j]) = c.score => c.source <= E[j].source

\* The strongest signal so far, after one more edge.
LEMMA CameInStep ==
  ASSUME SignalsKnown, NEW n \in Npcs, NEW E, NEW i \in Nat \ {0}, NEW c \in Heard, CameIn(c, E, i - 1, n),
         NEW d, d = IF Brings(E[i], n) /\ Outweighs(Worth(E[i]), E[i].source, c)
                    THEN [score |-> Worth(E[i]), source |-> E[i].source] ELSE c
  PROVE  CameIn(d, E, i, n)
<1>1. \A j \in 1..i : j \in 1..(i - 1) \/ j = i
  OBVIOUS
<1>2. \A j \in 1..(i - 1) : j \in 1..i
  OBVIOUS
<1>3. \A j \in 1..i : Brings(E[j], n) => Worth(E[j]) \in Nat /\ E[j].source \in Nat /\ E[j].source \in Npcs
  BY UsableIs, SignalsAssumption DEF Brings
<1>4. c.score \in Nat /\ NoSignal.score = 0 /\ i \in 1..i
  BY DEF Heard, NoSignal
<1>5. CASE ~Brings(E[i], n)
  BY <1>1, <1>2, <1>5 DEF CameIn
<1>6. CASE Brings(E[i], n) /\ Outweighs(Worth(E[i]), E[i].source, c)
  <2>1. d.score = Worth(E[i]) /\ d.source = E[i].source
    BY <1>6
  <2>2. Worth(E[i]) \in Nat /\ E[i].source \in Nat
    BY <1>3, <1>4, <1>6
  <2>3. CASE Worth(E[i]) > c.score
    <3>1. \A j \in 1..(i - 1) : Brings(E[j], n) => Worth(E[j]) < d.score
      BY <1>2, <1>3, <1>4, <2>1, <2>2, <2>3 DEF CameIn
    <3>2. d.score > 0
      BY <1>4, <2>1, <2>2, <2>3
    <3>3. \A j \in 1..i : Brings(E[j], n) => Worth(E[j]) <= d.score
      BY <1>1, <1>3, <2>1, <2>2, <3>1
    <3>4. \A j \in 1..i : Brings(E[j], n) /\ Worth(E[j]) = d.score => d.source <= E[j].source
      BY <1>1, <1>3, <2>1, <2>2, <3>1
    <3> QED BY <1>4, <1>6, <2>1, <3>2, <3>3, <3>4 DEF CameIn
  <2>4. CASE Worth(E[i]) = c.score /\ c # NoSignal /\ E[i].source < c.source
    <3>1. c.score > 0 /\ d.score = c.score
      BY <2>1, <2>4 DEF CameIn
    <3>2. PICK m \in 1..(i - 1) : Brings(E[m], n) /\ E[m].source = c.source
      BY <2>4 DEF CameIn
    <3>3. c.source \in Nat
      BY <1>2, <1>3, <3>2
    <3>4. \A j \in 1..i : Brings(E[j], n) => Worth(E[j]) <= d.score
      <4>1. \A j \in 1..(i - 1) : Brings(E[j], n) => Worth(E[j]) <= c.score
        BY DEF CameIn
      <4>2. Worth(E[i]) <= c.score
        BY <2>2, <2>4
      <4> QED BY <1>1, <3>1, <4>1, <4>2
    <3>5. \A j \in 1..(i - 1) : Brings(E[j], n) /\ Worth(E[j]) = d.score => c.source <= E[j].source
      BY <2>4, <3>1 DEF CameIn
    <3>6. \A j \in 1..i : Brings(E[j], n) /\ Worth(E[j]) = d.score => d.source <= E[j].source
      BY <1>1, <1>3, <2>1, <2>2, <2>4, <3>3, <3>5
    <3> QED BY <1>4, <1>6, <2>1, <3>1, <3>4, <3>6 DEF CameIn
  <2> QED BY <1>6, <2>3, <2>4 DEF Outweighs
<1>7. CASE Brings(E[i], n) /\ ~Outweighs(Worth(E[i]), E[i].source, c)
  <2>1. d = c
    BY <1>7
  <2>2. Worth(E[i]) \in Nat /\ E[i].source \in Nat
    BY <1>3, <1>4, <1>7
  <2>3. Worth(E[i]) <= c.score
    BY <1>4, <1>7, <2>2 DEF Outweighs
  <2>4. \A j \in 1..i : Brings(E[j], n) => Worth(E[j]) <= c.score
    BY <1>1, <2>3 DEF CameIn
  <2>5. CASE c = NoSignal
    BY <2>1, <2>4, <2>5 DEF CameIn
  <2>6. CASE c # NoSignal
    <3>1. PICK m \in 1..(i - 1) : Brings(E[m], n) /\ Worth(E[m]) = c.score /\ E[m].source = c.source
      BY <2>6 DEF CameIn
    <3>2. c.source \in Nat /\ c.score > 0
      BY <1>2, <1>3, <2>6, <3>1 DEF CameIn
    <3>3. Worth(E[i]) = c.score => c.source <= E[i].source
      BY <1>7, <2>2, <2>6, <3>2 DEF Outweighs
    <3>4. \A j \in 1..i : Brings(E[j], n) /\ Worth(E[j]) = c.score => c.source <= E[j].source
      BY <1>1, <2>6, <3>3 DEF CameIn
    <3> QED BY <1>2, <2>1, <2>4, <3>1, <3>2, <3>4 DEF CameIn
  <2> QED BY <2>5, <2>6
<1> QED BY <1>5, <1>6, <1>7

\* The strongest signal over all edges is what the scoring computes.
LEMMA AllCameIn ==
  ASSUME SignalsKnown, NEW n \in Npcs, NEW E, E = sight.edges, NEW k \in Nat, DOMAIN E = 1..k
  PROVE  Propagated[n] \in Heard /\ CameIn(Propagated[n], E, k, n)
<1>1. PICK t : Hops(t, E, k) /\ Propagated = t[k]
  BY PropagatedIs
<1> DEFINE P == {i \in 0..k : CameIn(t[i][n], E, i, n)}
<1>2. 0 \in P
  BY <1>1 DEF CameIn, Hops
<1>3. ASSUME NEW i \in 1..k, i - 1 \in P PROVE i \in P
  <2>1. PICK v \in [Npcs -> Heard] : v = t[i - 1]
    BY <1>1 DEF Hops
  <2>2. t[i] = Carry(v, E[i])
    BY <1>1, <2>1 DEF Hops
  <2>3. t[i][n] = IF Brings(E[i], n) /\ Outweighs(Worth(E[i]), E[i].source, v[n])
                  THEN [score |-> Worth(E[i]), source |-> E[i].source] ELSE v[n]
    BY <2>2, CarryIs
  <2>4. CameIn(v[n], E, i - 1, n) /\ v[n] \in Heard /\ i \in Nat \ {0}
    BY <1>3, <2>1
  <2>5. CameIn(t[i][n], E, i, n)
    BY <2>3, <2>4, CameInStep
  <2> QED BY <2>5
<1> HIDE DEF P
<1>4. \A i \in 0..k : i \in P
  BY <1>2, <1>3, Counting
<1>5. k \in P
  BY <1>4
<1>6. t[k] \in [Npcs -> Heard]
  BY <1>1 DEF Hops
<1> QED BY <1>1, <1>5, <1>6 DEF P

\* An NPC's score is its own or the half of the best of those that look at it, and no
\* signal travels two hops or adds up, in every order and number of the edges, loops
\* among them; of equal signals the one from the smallest NPC is named.
THEOREM AttentionTravelsOneHop == Spec => []OneHop
<1>1. ASSUME SignalsKnown PROVE OneHop
  <2> SUFFICES ASSUME NEW n \in Candidates
               PROVE  LET incoming == {e \in ToSet(sight.edges) : Usable(e) /\ e.target = n}
                          best     == Max({Passed(Direct(e.source)) : e \in incoming} \cup {0})
                          bringers == {e.source : e \in {d \in incoming : Passed(Direct(d.source)) = best}}
                      IN  /\ Final(n) = Max({Direct(n), best})
                          /\ best > 0 => Propagated[n].source = Min(bringers)
    BY DEF OneHop
  <2> DEFINE incoming == {e \in ToSet(sight.edges) : Usable(e) /\ e.target = n}
             worths   == {Passed(Direct(e.source)) : e \in incoming} \cup {0}
             best     == Max(worths)
             bringers == {e.source : e \in {d \in incoming : Passed(Direct(d.source)) = best}}
  <2>1. n \in Npcs
    BY DEF Candidates
  <2>2. PICK E : E = sight.edges
    OBVIOUS
  <2>3. E \in Seq(ToSet(E))
    BY <1>1, <2>2, SignalsAssumption DEF SignalsKnown
  <2>4. PICK k \in Nat : DOMAIN E = 1..k
    BY <2>3
  <2>5. PICK c \in Heard : c = Propagated[n] /\ CameIn(c, E, k, n)
    BY <1>1, <2>1, <2>2, <2>4, AllCameIn
  <2>6. /\ \A j \in 1..k : Brings(E[j], n) => E[j] \in incoming
        /\ \A e \in incoming : \E j \in 1..k : e = E[j] /\ Brings(E[j], n)
    BY <2>2, <2>4 DEF ToSet, Brings
  <2>7. \A e \in incoming : Worth(e) \in 0..500 /\ e.source \in Nat
    BY <1>1, UsableIs, SignalsAssumption
  <2>8. worths \in SUBSET (0..500) /\ worths # {} /\ \A e \in incoming : Worth(e) \in worths
    BY <2>7 DEF Worth
  <2>9. \A x \in worths : x = 0 \/ \E e \in incoming : x = Worth(e)
    BY DEF Worth
  <2>10. 0 \in worths
    OBVIOUS
  <2> HIDE DEF worths
  <2>11. best \in worths /\ \A x \in worths : x <= best
    <3>1. PICK b \in Nat : b = 500
      OBVIOUS
    <3>2. worths \in SUBSET (0..b)
      BY <2>8, <3>1
    <3> QED BY <2>8, <3>2, MaxIs
  <2>12. bringers = {e.source : e \in {d \in incoming : Worth(d) = best}}
    BY DEF Worth
  <2> HIDE DEF best, incoming, bringers
  <2>13. best \in Nat /\ c.score \in Nat
    BY <2>8, <2>11 DEF Heard
  <2>14. best <= c.score
    <3>1. CASE best = 0
      BY <2>13, <3>1
    <3>2. CASE best # 0
      <4>1. PICK j \in 1..k : best = Worth(E[j]) /\ Brings(E[j], n)
        BY <2>6, <2>9, <2>11, <3>2
      <4> QED BY <2>5, <4>1 DEF CameIn
    <3> QED BY <3>1, <3>2
  <2>15. c.score <= best
    <3>1. CASE c = NoSignal
      BY <2>13, <3>1 DEF NoSignal
    <3>2. CASE c # NoSignal
      <4>1. PICK j \in 1..k : Brings(E[j], n) /\ Worth(E[j]) = c.score
        BY <2>5, <3>2 DEF CameIn
      <4> QED BY <2>6, <2>8, <2>11, <4>1
    <3> QED BY <3>1, <3>2
  <2>16. c.score = best
    BY <2>13, <2>14, <2>15
  <2>17. ASSUME best > 0 PROVE c.source = Min(bringers)
    <3>1. c # NoSignal
      BY <2>16, <2>17 DEF NoSignal
    <3>2. PICK j \in 1..k : Brings(E[j], n) /\ Worth(E[j]) = best /\ E[j].source = c.source
      BY <2>5, <2>16, <3>1 DEF CameIn
    <3>3. c.source \in bringers
      BY <2>6, <2>12, <3>2
    <3>4. bringers \in SUBSET Nat
      BY <2>7, <2>12
    <3>5. \A b \in bringers : c.source <= b
      <4> SUFFICES ASSUME NEW e \in incoming, Worth(e) = best PROVE c.source <= e.source
        BY <2>12
      <4>1. PICK i \in 1..k : e = E[i] /\ Brings(E[i], n)
        BY <2>6
      <4> QED BY <2>5, <2>16, <3>1, <4>1 DEF CameIn
    <3>6. PICK m : m = Min(bringers)
      OBVIOUS
    <3>7. m \in bringers /\ \A b \in bringers : m <= b
      BY <3>3, <3>4, <3>6, MinIs
    <3>8. m \in Nat /\ c.source \in Nat /\ m <= c.source /\ c.source <= m
      BY <3>3, <3>4, <3>5, <3>7
    <3> QED BY <3>6, <3>8
  <2>18. Final(n) = Max({Direct(n), best})
    BY <2>5, <2>16 DEF Final
  <2> QED BY <2>5, <2>17, <2>18 DEF best, bringers, incoming, worths
<1> QED BY <1>1, SignalsAreKnown, PTL

-----------------------------------------------------------------------------
(* The sections of a prompt, and their tokens.                             *)

\* The tokens of the sections, one section after the other.
LEMMA TokensAre ==
  ASSUME NEW s, NEW n \in Nat, DOMAIN s = 1..n, 
         \A i \in 1..n : EstimateTokens(s[i].length) \in Nat
  PROVE  \E t \in [0..n -> Nat] :
           /\ t[0] = 0 /\ \A i \in 1..n : t[i] = t[i - 1] + EstimateTokens(s[i].length)
           /\ Tokens(s) = t[n]
<1>1. PICK G : G = [i \in 1..n |-> [v \in Nat |-> v + EstimateTokens(s[i].length)]]
  OBVIOUS
<1>2. IsStep(n, Nat, 0, G)
  BY <1>1 DEF IsStep
<1>3. PICK h : IsLeftFold(h, n, Nat, 0, G)
  BY <1>2, LeftFoldHasSolution
<1> DEFINE f == CHOOSE f : f = [T \in SUBSET (1..n) |->
                  IF T = {} THEN 0 ELSE f[T \ {Max(T)}] + EstimateTokens(s[Max(T)].length)]
<1>4. h = [T \in SUBSET (1..n) |->
             IF T = {} THEN 0 ELSE h[T \ {Max(T)}] + EstimateTokens(s[Max(T)].length)]
  BY <1>1, <1>3 DEF IsLeftFold
<1>5. f = [T \in SUBSET (1..n) |->
             IF T = {} THEN 0 ELSE f[T \ {Max(T)}] + EstimateTokens(s[Max(T)].length)]
  BY <1>4
<1>6. Tokens(s) = f[1..n]
  BY DEF Tokens, FoldLeft, MapThenFoldSet
<1> HIDE DEF f
<1>7. IsLeftStep(f, n, Nat, 0, G)
  <2>1. \A T \in SUBSET (1..n) : T # {} => Max(T) \in 1..n
    BY <1>3 DEF IsLeftFold
  <2> QED BY <1>1, <1>5, <2>1 DEF IsLeftStep
<1>8. PICK t : Unrolled(t, n, Nat, 0, G) /\ f[1..n] = t[n]
  BY <1>2, <1>7, LeftFoldIs
<1>9. ASSUME NEW i \in 1..n
      PROVE  t[i] = t[i - 1] + EstimateTokens(s[i].length)
  <2>1. i - 1 \in 0..n /\ t[i - 1] \in Nat
    BY <1>8 DEF Unrolled
  <2> QED BY <1>1, <1>8, <2>1 DEF Unrolled
<1> QED BY <1>6, <1>8, <1>9 DEF Unrolled

\* The lengths of a history, one turn after the other.
LEMMA SumIs ==
  ASSUME NEW s, NEW n \in Nat, DOMAIN s = 1..n, \A i \in 1..n : s[i] \in Nat
  PROVE  \E t \in [0..n -> Nat] :
           /\ t[0] = 0 /\ \A i \in 1..n : t[i] = t[i - 1] + s[i]
           /\ Sum(s) = t[n]
<1>1. PICK G : G = [i \in 1..n |-> [v \in Nat |-> v + s[i]]]
  OBVIOUS
<1>2. IsStep(n, Nat, 0, G)
  BY <1>1 DEF IsStep
<1>3. PICK h : IsLeftFold(h, n, Nat, 0, G)
  BY <1>2, LeftFoldHasSolution
<1> DEFINE f == CHOOSE f : f = [T \in SUBSET (1..n) |->
                  IF T = {} THEN 0 ELSE f[T \ {Max(T)}] + s[Max(T)]]
<1>4. h = [T \in SUBSET (1..n) |-> IF T = {} THEN 0 ELSE h[T \ {Max(T)}] + s[Max(T)]]
  BY <1>1, <1>3 DEF IsLeftFold
<1>5. f = [T \in SUBSET (1..n) |-> IF T = {} THEN 0 ELSE f[T \ {Max(T)}] + s[Max(T)]]
  BY <1>4
<1>6. Sum(s) = f[1..n]
  BY DEF Sum, FoldLeft, MapThenFoldSet
<1> HIDE DEF f
<1>7. IsLeftStep(f, n, Nat, 0, G)
  <2>1. \A T \in SUBSET (1..n) : T # {} => Max(T) \in 1..n
    BY <1>3 DEF IsLeftFold
  <2> QED BY <1>1, <1>5, <2>1 DEF IsLeftStep
<1>8. PICK t : Unrolled(t, n, Nat, 0, G) /\ f[1..n] = t[n]
  BY <1>2, <1>7, LeftFoldIs
<1>9. ASSUME NEW i \in 1..n
      PROVE  t[i] = t[i - 1] + s[i]
  <2>1. i - 1 \in 0..n /\ t[i - 1] \in Nat
    BY <1>8 DEF Unrolled
  <2> QED BY <1>1, <1>8, <2>1 DEF Unrolled
<1> QED BY <1>6, <1>8, <1>9 DEF Unrolled

\* A section is kept that says something and is not of the names left out.
Kept(s, names) == ~(s.name \in names \/ s.length = 0)

\* The sections left after each of them has been looked at.
Filters(t, n, s, S, names) ==
  /\ t \in [0..n -> Seq(S)] /\ t[0] = << >>
  /\ \A i \in 1..n : t[i] = IF Kept(s[i], names) THEN Append(t[i - 1], s[i]) ELSE t[i - 1]

\* The sections left, one section after the other.
LEMMA WithoutIs ==
  ASSUME NEW S, NEW s \in Seq(S), NEW names
  PROVE  \E t : Filters(t, Len(s), s, S, names) /\ Without(names, s) = t[Len(s)]
<1> DEFINE n == Len(s)
<1>0. n \in Nat /\ DOMAIN s = 1..n /\ \A i \in 1..n : s[i] \in S
  OBVIOUS
<1> HIDE DEF n
<1>1. PICK G : G = [i \in 1..n |-> [v \in Seq(S) |->
                     IF s[i].name \in names \/ s[i].length = 0 THEN v ELSE Append(v, s[i])]]
  OBVIOUS
<1>2. IsStep(n, Seq(S), << >>, G)
  BY <1>0, <1>1 DEF IsStep
<1>3. PICK h : IsLeftFold(h, n, Seq(S), << >>, G)
  BY <1>0, <1>2, LeftFoldHasSolution
<1> DEFINE Left(f, T) ==
      IF T = {} THEN << >>
      ELSE IF s[Max(T)].name \in names \/ s[Max(T)].length = 0 THEN f[T \ {Max(T)}]
      ELSE Append(f[T \ {Max(T)}], s[Max(T)])
           f == CHOOSE f : f = [T \in SUBSET (1..n) |-> Left(f, T)]
<1>4. h = [T \in SUBSET (1..n) |-> Left(h, T)]
  BY <1>1, <1>3, Zenon DEF IsLeftFold
<1>5. f = [T \in SUBSET (1..n) |-> Left(f, T)]
  BY <1>4, Zenon
<1>6. Without(names, s) = f[1..n]
  BY <1>0 DEF Without, FoldLeft, MapThenFoldSet
<1> HIDE DEF f
<1>7. IsLeftStep(f, n, Seq(S), << >>, G)
  <2>1. \A T \in SUBSET (1..n) : T # {} => Max(T) \in 1..n
    BY <1>3 DEF IsLeftFold
  <2> QED BY <1>1, <1>5, <2>1 DEF IsLeftStep
<1>8. PICK t : Unrolled(t, n, Seq(S), << >>, G) /\ f[1..n] = t[n]
  BY <1>0, <1>2, <1>7, LeftFoldIs
<1>9. ASSUME NEW i \in 1..n
      PROVE  t[i] = IF Kept(s[i], names) THEN Append(t[i - 1], s[i]) ELSE t[i - 1]
  <2>1. i - 1 \in 0..n /\ t[i - 1] \in Seq(S)
    BY <1>0, <1>8 DEF Unrolled
  <2>2. t[i] = G[i][t[i - 1]]
    BY <1>8 DEF Unrolled
  <2>3. G[i] = [v \in Seq(S) |->
                  IF s[i].name \in names \/ s[i].length = 0 THEN v ELSE Append(v, s[i])]
    BY <1>1
  <2> QED BY <2>1, <2>2, <2>3 DEF Kept
<1> QED BY <1>6, <1>8, <1>9 DEF Unrolled, Filters, n

\* Sections that are all kept are the sections left, and so they are before one
\* that is not.
LEMMA WithoutAll ==
  ASSUME NEW S, NEW s \in Seq(S), NEW names, \A i \in 1..Len(s) : Kept(s[i], names)
  PROVE  /\ Without(names, s) = s
         /\ \A e \in S : ~Kept(e, names) => Without(names, Append(s, e)) = s
<1>0. PICK n \in Nat : n = Len(s)
  OBVIOUS
<1>1. ASSUME NEW q, NEW m \in Nat, m >= n, \A i \in 1..n : q[i] = s[i],
             NEW t, Filters(t, m, q, S, names)
      PROVE  t[n] = s
  <2> DEFINE P == {i \in 0..n : t[i] = SubSeq(s, 1, i)}
  <2>1. 0 \in P
    BY <1>1 DEF Filters
  <2>2. ASSUME NEW i \in 1..n, i - 1 \in P PROVE i \in P
    <3>1. i \in 1..m /\ Kept(q[i], names) /\ q[i] = s[i]
      BY <1>0, <1>1
    <3>2. t[i] = Append(SubSeq(s, 1, i - 1), s[i])
      BY <1>1, <2>2, <3>1 DEF Filters
    <3>3. SubSeq(s, 1, i) = Append(SubSeq(s, 1, i - 1), s[i])
      BY <1>0
    <3> QED BY <3>2, <3>3
  <2> HIDE DEF P
  <2>3. \A i \in 0..n : i \in P
    BY <2>1, <2>2, Counting
  <2>4. t[n] = SubSeq(s, 1, n)
    BY <2>3 DEF P
  <2> QED BY <1>0, <2>4
<1>2. Without(names, s) = s
  <2>1. PICK t : Filters(t, n, s, S, names) /\ Without(names, s) = t[n]
    BY <1>0, WithoutIs
  <2>2. n >= n
    OBVIOUS
  <2> QED BY <1>1, <2>1, <2>2
<1>3. ASSUME NEW e \in S, ~Kept(e, names)
      PROVE  Without(names, Append(s, e)) = s
  <2>1. PICK q : q = Append(s, e)
    OBVIOUS
  <2>2. q \in Seq(S) /\ Len(q) = n + 1 /\ n + 1 \in Nat /\ q[n + 1] = e /\ \A i \in 1..n : q[i] = s[i]
    BY <1>0, <2>1
  <2>3. PICK t : Filters(t, n + 1, q, S, names) /\ Without(names, q) = t[n + 1]
    BY <2>2, WithoutIs
  <2>4. t[n] = s
    <3>1. n + 1 >= n
      OBVIOUS
    <3> QED BY <1>1, <2>2, <2>3, <3>1
  <2>5. t[n + 1] = t[n]
    BY <1>3, <2>2, <2>3 DEF Filters
  <2> QED BY <2>1, <2>3, <2>4, <2>5
<1> QED BY <1>2, <1>3

-----------------------------------------------------------------------------
\* The sections of a prompt without its history, as they were before anything was shed.
Texts == Without({"history"}, whole)

\* What a prompt is put together from (context_builder.py).
Sections == [name : {"contract", "trigger", "profile", "event", "world", "history"}, length : Nat]

\* The sections without the history: the contract, the trigger and what may be shed.
IsTexts(q) ==
  /\ q \in Seq(Sections) /\ Len(q) >= 2
  /\ q[1] = Section("contract", Contract) /\ q[2].name = "trigger"
  /\ \A i \in 3..Len(q) : q[i].name \in {"profile", "event", "world"}
  /\ \A i \in 1..Len(q) : q[i].length > 0

\* The conversation and the build: a turn is answered that is stored.
PromptTypeOK ==
  /\ turns \in Seq(Nat \ {0}) /\ limit \in Limits
  /\ trigger \in 0..Len(turns) /\ (step = "reading" => trigger # 0)
  /\ step \in {"idle", "reading", "fitting", "built"}

\* A history has this many turns, all of them before the one answered.
Turns(n) == n = 0 \/ n < trigger

\* What has been shed is the oldest of the history, and then the last of the texts.
Fitting ==
  /\ IsTexts(Texts)
  /\ Turns(Len(remaining))
  /\ remaining = SubSeq(turns, trigger - Len(remaining), trigger - 1)
  /\ \/ /\ kept = HistoryWith(Len(remaining))
        /\ kept = whole \/ (Len(remaining) + 1 < trigger /\ Over(HistoryWith(Len(remaining) + 1)))
     \/ /\ remaining = << >> /\ Len(kept) \in 2..(Len(Texts) - 1)
        /\ kept = SubSeq(Texts, 1, Len(kept)) /\ Over(SubSeq(Texts, 1, Len(kept) + 1))

\* Nothing but the contract and a trigger cut to what is spare.
ClippedPrompt ==
  /\ IsTexts(Texts) /\ Over(SubSeq(Texts, 1, 2))
  /\ \E length \in 0..Spare :
       kept = <<Section("contract", Contract), Section("trigger", length + Clipped)>>

\* The inductive invariant of a prompt: it says of every step of the fitting what has
\* been shed and why, and of a built prompt that it fits or was clipped.
PromptInv ==
  /\ PromptTypeOK
  /\ step = "fitting" => Fitting
  /\ step = "built" => ClippedPrompt \/ (Fitting /\ ~Over(kept))

\* Another section of texts that may be shed.
LEMMA TextsLonger ==
  ASSUME NEW q, IsTexts(q), NEW e \in Sections, e.length > 0,
         e.name \in {"profile", "event", "world"}
  PROVE  IsTexts(Append(q, e))
<1>1. PICK n \in Nat : n = Len(q) /\ n >= 2
  BY DEF IsTexts
<1>2. PICK r : r = Append(q, e)
  OBVIOUS
<1>3. r \in Seq(Sections) /\ Len(r) = n + 1 /\ r[n + 1] = e /\ \A i \in 1..n : r[i] = q[i]
  BY <1>1, <1>2 DEF IsTexts
<1>4. IsTexts(r)
  BY <1>1, <1>3 DEF IsTexts
<1> QED BY <1>2, <1>4

\* Leaving out the history leaves the texts.
LEMMA TextsAreLeft ==
  ASSUME NEW q, IsTexts(q)
  PROVE  /\ Without({"history"}, q) = q
         /\ \A h \in Sections : h.name = "history" => Without({"history"}, Append(q, h)) = q
<1>1. q \in Seq(Sections) /\ \A i \in 1..Len(q) : q[i] \in Sections
  BY DEF IsTexts
<1>2. ASSUME NEW i \in 1..Len(q) PROVE Kept(q[i], {"history"})
  <2>1. i = 1 \/ i = 2 \/ i \in 3..Len(q)
    BY <1>1
  <2> QED BY <1>1, <2>1 DEF IsTexts, Kept, Section, Sections
<1>3. \A h \in Sections : h.name = "history" => ~Kept(h, {"history"})
  BY DEF Kept
<1> QED BY <1>1, <1>2, <1>3, WithoutAll

\* A sequence with one more element.
LEMMA Longer ==
  ASSUME NEW S, NEW r \in Seq(S), NEW b \in S, NEW n \in Nat, n = Len(r), NEW q, q = Append(r, b)
  PROVE  q \in Seq(S) /\ Len(q) = n + 1 /\ q[n + 1] = b /\ \A i \in 1..n : q[i] = r[i]
OBVIOUS

\* One section that is looked at.
LEMMA FiltersStep ==
  ASSUME NEW n \in Nat, NEW s, NEW S, NEW names, NEW t, Filters(t, n, s, S, names),
         NEW i \in 1..n, NEW j, j = i - 1
  PROVE  /\ t[j] \in Seq(S)
         /\ t[i] = IF Kept(s[i], names) THEN Append(t[j], s[i]) ELSE t[j]
BY DEF Filters

\* A contract, a trigger and what may be shed: sections put together in their order.
InOrder(s, m) ==
  /\ s[1] = Section("contract", Contract)
  /\ s[2].name = "trigger" /\ s[2].length # 0
  /\ \A i \in 3..m : s[i].name \in {"profile", "event", "world"}

\* What is left of sections in their order is texts in that order.
LEMMA TextsInOrder ==
  ASSUME NEW s \in Seq(Sections), NEW n \in Nat, n = Len(s), NEW m \in 2..n, InOrder(s, m),
         NEW t, Filters(t, n, s, Sections, {})
  PROVE  IsTexts(t[m])
<1>1. \A i \in 1..n : s[i] \in Sections /\ s[i].length \in Nat
  <2>1. \A i \in 1..n : s[i] \in Sections
    OBVIOUS
  <2> QED BY <2>1 DEF Sections
<1>2. m \in Nat /\ m <= n /\ 1 \in 1..n /\ 2 \in 1..n
  OBVIOUS
<1>3. IsTexts(t[2])
  <2>1. t[0] = << >>
    BY DEF Filters
  <2>2. t[1] = IF Kept(s[1], {}) THEN Append(t[0], s[1]) ELSE t[0]
    <3>1. 0 = 1 - 1
      OBVIOUS
    <3> QED BY <1>2, <3>1, FiltersStep
  <2>3. t[2] = IF Kept(s[2], {}) THEN Append(t[1], s[2]) ELSE t[1]
    <3>1. 1 = 2 - 1
      OBVIOUS
    <3> QED BY <1>2, <3>1, FiltersStep
  <2>4. Kept(s[1], {}) /\ Kept(s[2], {}) /\ s[1].length > 0 /\ s[2].length > 0
    BY <1>1, <1>2, ContextAssumption DEF InOrder, Kept, Section
  <2>5. PICK a \in Sections : a = s[1]
    BY <1>1, <1>2
  <2>6. PICK b \in Sections : b = s[2]
    BY <1>1, <1>2
  <2>7. PICK r : r = t[1]
    OBVIOUS
  <2>8. r = Append(<< >>, a)
    BY <2>1, <2>2, <2>4, <2>5, <2>7
  <2>9. r \in Seq(Sections) /\ Len(r) = 1 /\ r[1] = a
    BY <2>8
  <2>10. PICK q : q = t[2]
    OBVIOUS
  <2>11. q = Append(r, b)
    BY <2>3, <2>4, <2>6, <2>7, <2>10
  <2>12. q \in Seq(Sections) /\ Len(q) = 2 /\ q[1] = a /\ q[2] = b
    <3>1. PICK k \in Nat : k = Len(r)
      BY <2>9
    <3>2. q \in Seq(Sections) /\ Len(q) = k + 1 /\ q[k + 1] = b /\ \A i \in 1..k : q[i] = r[i]
      BY <2>9, <2>11, <3>1, Longer
    <3>3. k = 1
      BY <2>9, <3>1
    <3> QED BY <2>9, <3>2, <3>3
  <2>13. a = Section("contract", Contract) /\ b.name = "trigger" /\ a.length > 0 /\ b.length > 0
    BY <2>4, <2>5, <2>6 DEF InOrder
  <2>14. IsTexts(q)
    <3>1. \A i \in 1..Len(q) : q[i].length > 0
      BY <2>12, <2>13
    <3> QED BY <2>12, <2>13, <3>1 DEF IsTexts
  <2> QED BY <2>10, <2>14
<1> DEFINE P == {i \in 0..m : i >= 2 => IsTexts(t[i])}
<1>4. 0 \in P
  BY <1>2
<1>5. ASSUME NEW i \in 1..m, i - 1 \in P PROVE i \in P
  <2>1. CASE i = 1
    BY <2>1
  <2>2. CASE i = 2
    BY <1>3, <2>2
  <2>3. CASE i > 2
    <3>1. i \in 3..m /\ i \in 1..n
      BY <1>2, <2>3
    <3>2. PICK j : j = i - 1
      OBVIOUS
    <3>3. IsTexts(t[j])
      BY <1>2, <1>5, <3>1, <3>2
    <3>4. s[i] \in Sections /\ s[i].length \in Nat /\ s[i].name \in {"profile", "event", "world"}
      BY <1>1, <3>1 DEF InOrder
    <3>5. t[i] = IF Kept(s[i], {}) THEN Append(t[j], s[i]) ELSE t[j]
      BY <3>1, <3>2, FiltersStep
    <3>6. ASSUME Kept(s[i], {}) PROVE IsTexts(Append(t[j], s[i]))
      <4>1. s[i].length > 0
        BY <3>4, <3>6 DEF Kept
      <4> QED BY <3>3, <3>4, <4>1, TextsLonger
    <3>7. IsTexts(t[i])
      BY <3>3, <3>5, <3>6
    <3> QED BY <3>7
  <2> QED BY <1>2, <2>1, <2>2, <2>3
<1> HIDE DEF P
<1>6. \A i \in 0..m : i \in P
  BY <1>2, <1>4, <1>5, Counting
<1>7. m \in P /\ m >= 2
  BY <1>2, <1>6
<1> QED BY <1>7 DEF P

\* The sections of build, in their order.
Assembled(l, p, e, w, h) ==
  <<Section("contract", Contract), Section("trigger", l), Section("profile", p),
    Section("event", e), Section("world", w), Section("history", h)>>

\* Texts and then the history, if it says something.
WithHistoryOf(k, q, h) ==
  IsTexts(q) /\ k = IF h = 0 THEN q ELSE Append(q, Section("history", h))

\* build puts texts together and, if there is one, the history behind them.
LEMMA AssembledIs ==
  ASSUME NEW l \in Nat \ {0}, NEW p \in Nat, NEW e \in Nat, NEW w \in Nat, NEW h \in Nat
  PROVE  \E q : WithHistoryOf(Without({}, Assembled(l, p, e, w, h)), q, h)
<1>1. PICK s : s = Assembled(l, p, e, w, h)
  OBVIOUS
<1>2. /\ s \in Seq(Sections) /\ Len(s) = 6
      /\ s[1] = Section("contract", Contract) /\ s[2] = Section("trigger", l)
      /\ s[3] = Section("profile", p) /\ s[4] = Section("event", e)
      /\ s[5] = Section("world", w) /\ s[6] = Section("history", h)
  BY <1>1, ContextAssumption DEF Assembled, Section, Sections
<1>3. PICK n \in Nat : n = Len(s)
  BY <1>2
<1>4. PICK t : Filters(t, n, s, Sections, {}) /\ Without({}, s) = t[n]
  BY <1>2, <1>3, WithoutIs
<1>5. 5 \in 2..n /\ 6 \in 1..n /\ n = 6
  BY <1>2, <1>3
<1>6. IsTexts(t[5])
  <2>1. InOrder(s, 5)
    BY <1>2 DEF InOrder, Section
  <2> QED BY <1>2, <1>3, <1>4, <1>5, <2>1, TextsInOrder
<1>7. t[6] = IF Kept(s[6], {}) THEN Append(t[5], s[6]) ELSE t[5]
  <2>1. 5 = 6 - 1
    OBVIOUS
  <2> QED BY <1>4, <1>5, <2>1, FiltersStep
<1>8. Kept(s[6], {}) <=> h # 0
  BY <1>2 DEF Kept, Section
<1>9. t[n] = IF h = 0 THEN t[5] ELSE Append(t[5], Section("history", h))
  BY <1>2, <1>5, <1>7, <1>8
<1> QED BY <1>1, <1>4, <1>6, <1>9 DEF WithHistoryOf

\* build_for_event puts texts together.
LEMMA AssembledForEventIs ==
  ASSUME NEW l \in Nat \ {0}, NEW p \in Nat, NEW w \in Nat
  PROVE  IsTexts(Without({}, <<Section("contract", Contract), Section("trigger", l),
                               Section("profile", p), Section("world", w)>>))
<1>1. PICK s : s = <<Section("contract", Contract), Section("trigger", l),
                     Section("profile", p), Section("world", w)>>
  OBVIOUS
<1>2. /\ s \in Seq(Sections) /\ Len(s) = 4
      /\ s[1] = Section("contract", Contract) /\ s[2] = Section("trigger", l)
      /\ s[3] = Section("profile", p) /\ s[4] = Section("world", w)
  BY <1>1, ContextAssumption DEF Section, Sections
<1>3. PICK n \in Nat : n = Len(s)
  BY <1>2
<1>4. PICK t : Filters(t, n, s, Sections, {}) /\ Without({}, s) = t[n]
  BY <1>2, <1>3, WithoutIs
<1>5. n \in 2..n /\ n = 4
  BY <1>2, <1>3
<1>6. InOrder(s, n)
  BY <1>2, <1>5 DEF InOrder, Section
<1>7. IsTexts(t[n])
  BY <1>2, <1>3, <1>4, <1>5, <1>6, TextsInOrder
<1> QED BY <1>1, <1>4, <1>7

\* A history says something unless it has no turn (_history).
LEMMA ToldIs ==
  ASSUME NEW history \in Seq(Nat \ {0})
  PROVE  Told(history) \in Nat /\ (Told(history) = 0 <=> history = << >>)
<1>1. PICK n \in Nat : n = Len(history) /\ DOMAIN history = 1..n /\ \A i \in 1..n : history[i] \in Nat \ {0}
  OBVIOUS
<1>2. PICK t \in [0..n -> Nat] :
        /\ t[0] = 0 /\ \A i \in 1..n : t[i] = t[i - 1] + history[i]
        /\ Sum(history) = t[n]
  BY <1>1, SumIs
<1>3. ASSUME n # 0 PROVE t[n] > 0
  <2>1. n \in 1..n /\ n - 1 \in 0..n
    BY <1>1, <1>3
  <2>2. t[n - 1] \in Nat
    BY <1>2, <2>1
  <2>4. history[n] \in Nat /\ history[n] > 0
    BY <1>1, <2>1
  <2>3. t[n] = t[n - 1] + history[n]
    BY <1>2, <2>1
  <2> QED BY <2>2, <2>3, <2>4
<1>4. n = 0 <=> history = << >>
  BY <1>1
<1>5. t[n] \in Nat
  BY <1>1, <1>2
<1> QED BY <1>1, <1>2, <1>3, <1>4, <1>5 DEF Told

\* A part of a sequence.
LEMMA PartIs ==
  ASSUME NEW S, NEW s \in Seq(S), NEW a \in Int, NEW b \in Int, a >= 1, b <= Len(s), a <= b + 1,
         NEW q, q = SubSeq(s, a, b)
  PROVE  q \in Seq(S) /\ Len(q) = b - a + 1 /\ \A i \in 1..(b - a + 1) : q[i] = s[a + i - 1]
OBVIOUS

\* An empty part of a sequence.
LEMMA NothingIs ==
  ASSUME NEW s, NEW a \in Int
  PROVE  SubSeq(s, a, a - 1) = << >>
OBVIOUS

\* A turn stored while a prompt is built is after the turns of its history.
LEMMA SayIsLater ==
  ASSUME PromptTypeOK, NEW length \in Nat, NEW n \in Nat, Turns(n)
  PROVE  SubSeq(Append(turns, length), trigger - n, trigger - 1) = SubSeq(turns, trigger - n, trigger - 1)
<1>1. CASE n = 0
  BY <1>1, NothingIs DEF PromptTypeOK
<1>2. CASE n # 0
  <2>1. trigger \in Nat /\ n < trigger /\ trigger <= Len(turns) /\ turns \in Seq(Nat \ {0})
    BY <1>2 DEF PromptTypeOK, Turns
  <2> QED BY <2>1
<1> QED BY <1>1, <1>2

\* TurnStore.recent reads the last turns before the one answered.
LEMMA BeforeIs ==
  ASSUME PromptTypeOK, trigger # 0
  PROVE  /\ Before(trigger) \in Seq(Nat \ {0})
         /\ Turns(Len(Before(trigger)))
         /\ Before(trigger) = SubSeq(turns, trigger - Len(Before(trigger)), trigger - 1)
<1> DEFINE lo == IF trigger > limit.history THEN trigger - limit.history ELSE 1
<1>1. trigger \in Nat /\ trigger <= Len(turns) /\ limit.history \in Nat /\ turns \in Seq(Nat \ {0})
  BY ContextAssumption DEF PromptTypeOK
<1>2. lo \in Nat /\ lo >= 1 /\ lo <= trigger
  BY <1>1
<1>3. PICK q : q = SubSeq(turns, lo, trigger - 1)
  OBVIOUS
<1>4. Before(trigger) = q
  BY <1>3 DEF Before
<1> HIDE DEF lo
<1>5. q \in Seq(Nat \ {0}) /\ Len(q) = trigger - lo
  BY <1>1, <1>2, <1>3
<1>6. trigger - Len(q) = lo /\ (Len(q) = 0 \/ Len(q) < trigger)
  BY <1>1, <1>2, <1>5
<1> QED BY <1>3, <1>4, <1>5, <1>6 DEF Turns

\* A part of a sequence without its first element.
LEMMA TailOfPart ==
  ASSUME NEW S, NEW s \in Seq(S), NEW a \in Int, NEW b \in Int, a >= 1, b <= Len(s), a <= b
  PROVE  Tail(SubSeq(s, a, b)) = SubSeq(s, a + 1, b)
<1>1. PICK q : q = SubSeq(s, a, b)
  OBVIOUS
<1>2. PICK r : r = SubSeq(s, a + 1, b)
  OBVIOUS
<1>3. q \in Seq(S) /\ Len(q) = b - a + 1 /\ \A i \in 1..(b - a + 1) : q[i] = s[a + i - 1]
  BY <1>1, PartIs
<1>4. r \in Seq(S) /\ Len(r) = b - a /\ \A i \in 1..(b - a) : r[i] = s[a + i]
  BY <1>2
<1>5. PICK p : p = Tail(q)
  OBVIOUS
<1>6. p \in Seq(S) /\ Len(p) = b - a /\ \A i \in 1..(b - a) : p[i] = q[i + 1]
  BY <1>3, <1>5
<1>7. \A i \in 1..(b - a) : p[i] = r[i]
  <2> SUFFICES ASSUME NEW i \in 1..(b - a) PROVE p[i] = r[i]
    OBVIOUS
  <2>1. q[i + 1] = s[a + i]
    BY <1>3
  <2> QED BY <2>1, <1>4, <1>6
<1>8. p = r
  BY <1>4, <1>6, <1>7
<1> QED BY <1>1, <1>2, <1>5, <1>8

\* The oldest turn of a history is shed, and the newest stay.
LEMMA RemainingIs ==
  ASSUME PromptTypeOK, Turns(Len(remaining)), Len(remaining) \in Nat,
         remaining = SubSeq(turns, trigger - Len(remaining), trigger - 1)
  PROVE  /\ remaining \in Seq(Nat \ {0})
         /\ remaining # << >> => 
              /\ Len(remaining) < trigger /\ Len(Tail(remaining)) = Len(remaining) - 1
              /\ Tail(remaining) \in Seq(Nat \ {0})
              /\ Tail(remaining) = SubSeq(turns, trigger - (Len(remaining) - 1), trigger - 1)
<1>1. trigger \in Nat /\ trigger <= Len(turns) /\ turns \in Seq(Nat \ {0})
  BY DEF PromptTypeOK
<1>2. PICK n \in Nat : n = Len(remaining)
  OBVIOUS
<1>3. CASE n = 0
  <2>1. remaining = SubSeq(turns, trigger, trigger - 1)
    BY <1>1, <1>2, <1>3
  <2> QED BY <1>1, <2>1
<1>4. CASE n # 0
  <2>1. n < trigger /\ remaining = SubSeq(turns, trigger - n, trigger - 1)
    BY <1>2, <1>4 DEF Turns
  <2>2. remaining \in Seq(Nat \ {0})
    BY <1>1, <1>2, <2>1
  <2>3. Len(Tail(remaining)) = n - 1 /\ Tail(remaining) \in Seq(Nat \ {0})
    BY <1>2, <1>4, <2>2
  <2>4. Tail(remaining) = SubSeq(turns, trigger - (n - 1), trigger - 1)
    <3>1. Tail(SubSeq(turns, trigger - n, trigger - 1)) = SubSeq(turns, (trigger - n) + 1, trigger - 1)
      <4>1. PICK a : a = trigger - n
        OBVIOUS
      <4>2. PICK b : b = trigger - 1
        OBVIOUS
      <4>3. a \in Int /\ b \in Int /\ a >= 1 /\ b <= Len(turns) /\ a <= b
        BY <1>1, <1>2, <1>4, <2>1, <4>1, <4>2
      <4>4. Tail(SubSeq(turns, a, b)) = SubSeq(turns, a + 1, b)
        BY <1>1, <4>3, TailOfPart
      <4> QED BY <4>1, <4>2, <4>4
    <3>2. (trigger - n) + 1 = trigger - (n - 1)
      BY <1>1, <1>2
    <3> QED BY <2>1, <3>1, <3>2
  <2> QED BY <1>2, <2>1, <2>2, <2>3, <2>4
<1> QED BY <1>2, <1>3, <1>4

\* With a history of so many turns.
LEMMA HistoryIs ==
  ASSUME NEW q, IsTexts(q), NEW t \in Seq(Nat \ {0}),
         NEW k, k = IF t = << >> THEN q ELSE Append(q, Section("history", Told(t)))
  PROVE  Without({"history"}, k) = q
<1>1. Section("history", Told(t)) \in Sections /\ Section("history", Told(t)).name = "history"
  BY ToldIs DEF Section, Sections
<1> QED BY <1>1, TextsAreLeft

\* A text of this many characters fits these tokens if it is no longer than they are.
LEMMA EstimateIs ==
  ASSUME NEW l \in Nat
  PROVE  /\ EstimateTokens(l) \in Nat
         /\ \A k \in Nat : EstimateTokens(l) <= k <=> l <= CharactersFor(k)
<1>1. PICK c \in Nat \ {0} : c = CharactersPerToken
  BY ContextAssumption
<1>2. PICK e \in Int : e = (l + c - 1) \div c
  BY <1>1
<1>3. c * e <= l + c - 1 /\ l + c - 1 < c * e + c
  BY <1>1, <1>2
<1>4. e \in Nat
  BY <1>1, <1>2
<1>5. ASSUME NEW k \in Nat PROVE e <= k <=> l <= k * c
  <2>1. ASSUME e <= k PROVE c * e <= k * c
    BY <1>1, <1>4, <2>1
  <2>2. ASSUME e >= k + 1 PROVE c * e >= k * c + c
    BY <1>1, <1>4, <2>2
  <2>3. k * c \in Nat /\ c * e \in Int
    BY <1>1
  <2>4. e <= k => l <= k * c
    BY <1>1, <1>3, <2>1, <2>3
  <2>5. ~(e <= k) => ~(l <= k * c)
    BY <1>1, <1>3, <1>4, <2>2, <2>3
  <2> QED BY <2>4, <2>5
<1> QED BY <1>1, <1>2, <1>4, <1>5 DEF EstimateTokens, CharactersFor

\* The tokens of two sections.
LEMMA TwoSections ==
  ASSUME NEW s \in Seq(Sections), Len(s) = 2
  PROVE  Tokens(s) = EstimateTokens(s[1].length) + EstimateTokens(s[2].length)
<1>1. PICK n \in Nat : n = Len(s) /\ DOMAIN s = 1..n /\ 1 \in 1..n /\ 2 \in 1..n /\ n = 2
  OBVIOUS
<1>2. \A i \in 1..n : s[i] \in Sections
  BY <1>1
<1>3. \A i \in 1..n : EstimateTokens(s[i].length) \in Nat
  BY <1>2, EstimateIs DEF Sections
<1>4. PICK t \in [0..n -> Nat] :
        /\ t[0] = 0 /\ \A i \in 1..n : t[i] = t[i - 1] + EstimateTokens(s[i].length)
        /\ Tokens(s) = t[n]
  BY <1>1, <1>3, TokensAre
<1>5. \A i \in 1..n, j \in 0..n : j = i - 1 => t[i] = t[j] + EstimateTokens(s[i].length)
  BY <1>4
<1>6. t[1] = t[0] + EstimateTokens(s[1].length) /\ t[2] = t[1] + EstimateTokens(s[2].length)
  <2>1. 0 = 1 - 1 /\ 1 = 2 - 1 /\ 0 \in 0..n /\ 1 \in 0..n
    BY <1>1
  <2> QED BY <2>1, <1>1, <1>5
<1>7. EstimateTokens(s[1].length) \in Nat
  BY <1>1, <1>3
<1> QED BY <1>1, <1>4, <1>6, <1>7

\* Sections have a number of tokens.
LEMMA TokensType ==
  ASSUME NEW s \in Seq(Sections)
  PROVE  Tokens(s) \in Nat
<1>1. PICK n \in Nat : n = Len(s) /\ DOMAIN s = 1..n
  OBVIOUS
<1>2. \A i \in 1..n : s[i] \in Sections
  BY <1>1
<1>3. \A i \in 1..n : EstimateTokens(s[i].length) \in Nat
  BY <1>2, EstimateIs DEF Sections
<1>4. PICK t \in [0..n -> Nat] :
        /\ t[0] = 0 /\ \A i \in 1..n : t[i] = t[i - 1] + EstimateTokens(s[i].length)
        /\ Tokens(s) = t[n]
  BY <1>1, <1>3, TokensAre
<1> QED BY <1>4

-----------------------------------------------------------------------------
(* The fitting of a prompt, step by step.                                  *)

\* What is being fitted is sections, and the whole history as long as one is left.
LEMMA FittingIs ==
  ASSUME PromptTypeOK, Fitting
  PROVE  /\ Len(remaining) \in Nat /\ remaining \in Seq(Nat \ {0})
         /\ HistoryWith(Len(remaining)) = IF remaining = << >> THEN Texts
                                          ELSE Append(Texts, Section("history", Told(remaining)))
         /\ HistoryWith(Len(remaining)) \in Seq(Sections)
         /\ remaining # << >> => kept = HistoryWith(Len(remaining))
         /\ kept \in Seq(Sections)
<1>1. PICK n : n = Len(remaining)
  OBVIOUS
<1>2. remaining = SubSeq(turns, trigger - n, trigger - 1) /\ Turns(n)
  BY <1>1 DEF Fitting
<1>3. n \in Nat
  <2>1. n = 0 \/ n # 0
    OBVIOUS
  <2> QED BY <1>1, <1>2 DEF PromptTypeOK, Turns
<1>4. remaining \in Seq(Nat \ {0})
  BY <1>1, <1>2, <1>3, RemainingIs
<1>5. HistoryWith(n) = IF remaining = << >> THEN Texts
                       ELSE Append(Texts, Section("history", Told(remaining)))
  BY <1>2 DEF HistoryWith, WithHistory, Texts
<1>6. Texts \in Seq(Sections) /\ Section("history", Told(remaining)) \in Sections
  BY <1>4, ToldIs DEF Fitting, IsTexts, Section, Sections
<1>7. HistoryWith(n) \in Seq(Sections)
  BY <1>5, <1>6
<1>8. kept \in Seq(Sections)
  <2>1. CASE kept = HistoryWith(n)
    BY <1>7, <2>1
  <2>2. CASE Len(kept) \in 2..(Len(Texts) - 1) /\ kept = SubSeq(Texts, 1, Len(kept))
    <3>1. PICK m : m = Len(kept)
      OBVIOUS
    <3>2. PICK q \in Seq(Sections) : q = Texts
      BY <1>6
    <3>3. m \in 2..(Len(q) - 1) /\ kept = SubSeq(q, 1, m)
      BY <2>2, <3>1, <3>2
    <3>4. SubSeq(q, 1, m) \in Seq(Sections)
      BY <3>3
    <3> QED BY <3>3, <3>4
  <2> QED BY <1>1, <2>1, <2>2 DEF Fitting
<1> QED BY <1>1, <1>3, <1>4, <1>5, <1>7, <1>8 DEF Fitting

\* A prompt without a history: the texts, or some of the first of them.
LEMMA NoHistoryIs ==
  ASSUME PromptTypeOK, Fitting, remaining = << >>
  PROVE  \E m \in 2..Len(Texts) :
           /\ kept = SubSeq(Texts, 1, m) /\ Len(kept) = m /\ Last(kept) = Texts[m]
           /\ m < Len(Texts) => Over(SubSeq(Texts, 1, m + 1))
           /\ m = Len(Texts) => kept = Texts /\ kept = HistoryWith(0)
<1>1. Texts \in Seq(Sections) /\ Len(Texts) >= 2 /\ Len(Texts) \in Nat
  BY DEF Fitting, IsTexts
<1>2. Len(remaining) = 0
  OBVIOUS
<1>3. CASE kept = HistoryWith(Len(remaining))
  <2>1. kept = Texts /\ kept = HistoryWith(0)
    BY <1>2, <1>3, FittingIs
  <2>2. PICK m \in Nat : m = Len(Texts)
    BY <1>1
  <2>3. kept = SubSeq(Texts, 1, m) /\ Len(kept) = m /\ Last(kept) = Texts[m]
    <3>1. PICK q \in Seq(Sections) : q = Texts
      BY <1>1
    <3>2. q = SubSeq(q, 1, m) /\ Last(q) = q[m]
      BY <2>2, <3>1 DEF Last
    <3> QED BY <2>1, <2>2, <3>1, <3>2
  <2> QED BY <1>1, <2>1, <2>2, <2>3
<1>4. CASE /\ Len(kept) \in 2..(Len(Texts) - 1)
           /\ kept = SubSeq(Texts, 1, Len(kept)) /\ Over(SubSeq(Texts, 1, Len(kept) + 1))
  <2>0. PICK m : m = Len(kept)
    OBVIOUS
  <2>1. m \in Nat /\ m = Len(kept) /\ m >= 2 /\ m < Len(Texts)
    BY <1>1, <1>4, <2>0
  <2>2. kept = SubSeq(Texts, 1, m) /\ Over(SubSeq(Texts, 1, m + 1))
    BY <1>4, <2>1
  <2>3. Last(kept) = Texts[m]
    BY <1>1, <2>1, <2>2 DEF Last
  <2> QED BY <1>1, <2>1, <2>2, <2>3
<1> QED BY <1>3, <1>4 DEF Fitting

\* A turn stored meanwhile changes nothing of what is being built.
LEMMA PromptSay ==
  ASSUME PromptInv, NEW length \in Lengths, Say(length)
  PROVE  PromptInv'
<1> USE DEF PromptInv
<1>1. length \in Nat \ {0}
  BY ContextAssumption
<1>2. PromptTypeOK'
  BY <1>1 DEF PromptTypeOK, Say
<1>3. ASSUME NEW n \in Nat, Turns(n)
      PROVE  SubSeq(turns', trigger - n, trigger - 1) = SubSeq(turns, trigger - n, trigger - 1)
  BY <1>1, <1>3, SayIsLater DEF Say
<1>4. Texts' = Texts /\ Spare' = Spare /\ \A q : Over(q)' = Over(q)
  BY DEF Say, Texts, Spare, Over
<1>5. ASSUME Fitting PROVE Fitting'
  <2>1. Len(remaining) \in Nat /\ Turns(Len(remaining))
    BY <1>5, FittingIs DEF Fitting
  <2>2. SubSeq(turns', trigger - Len(remaining), trigger - 1) = remaining
    BY <1>3, <1>5, <2>1 DEF Fitting
  <2>3. WithHistory(whole, SubSeq(turns', trigger - Len(remaining), trigger - 1))
          = HistoryWith(Len(remaining))
    BY <1>3, <2>1 DEF HistoryWith
  <2>4. ASSUME Len(remaining) + 1 < trigger
        PROVE  WithHistory(whole, SubSeq(turns', trigger - (Len(remaining) + 1), trigger - 1))
                 = HistoryWith(Len(remaining) + 1)
    <3>1. Len(remaining) + 1 \in Nat /\ Turns(Len(remaining) + 1)
      BY <2>1, <2>4 DEF Turns
    <3> QED BY <1>3, <3>1 DEF HistoryWith
  <2>5. /\ HistoryWith(Len(remaining))'
             = WithHistory(whole, SubSeq(turns', trigger - Len(remaining), trigger - 1))
        /\ HistoryWith(Len(remaining) + 1)'
             = WithHistory(whole, SubSeq(turns', trigger - (Len(remaining) + 1), trigger - 1))
    BY DEF HistoryWith, Say
  <2> QED BY <1>4, <1>5, <2>1, <2>2, <2>3, <2>4, <2>5 DEF Fitting, Say, Turns
<1>6. ASSUME ClippedPrompt PROVE ClippedPrompt'
  BY <1>4, <1>6 DEF ClippedPrompt, Say
<1>7. Over(kept)' = Over(kept) /\ step' = step
  BY DEF Over, Say
<1> QED BY <1>2, <1>5, <1>6, <1>7

\* A build that begins has nothing to fit.
LEMMA PromptBuild ==
  ASSUME PromptInv, NEW t \in 1..Len(turns), NEW l \in Limits, Build(t, l)
  PROVE  PromptInv'
BY DEF PromptInv, PromptTypeOK, Build

\* A prompt that fits is built as it is.
LEMMA PromptFit ==
  ASSUME PromptInv, Fit
  PROVE  PromptInv'
<1>1. PromptTypeOK'
  BY DEF PromptInv, PromptTypeOK, Fit
<1>2. Fitting /\ ~Over(kept)
  BY DEF PromptInv, Fit
<1>3. Fitting' /\ ~Over(kept)'
  BY <1>2 DEF Fit, Fitting, Texts, Turns, HistoryWith, Over
<1> QED BY <1>1, <1>3 DEF PromptInv, Fit

\* Nothing happens to a prompt.
LEMMA PromptStutter ==
  ASSUME PromptInv, UNCHANGED promptVars
  PROVE  PromptInv'
BY DEF PromptInv, PromptTypeOK, Fitting, ClippedPrompt, Texts, Turns, HistoryWith, Over, Spare, promptVars

\* Sections put together have lost nothing yet.
LEMMA PromptAssemble ==
  ASSUME PromptInv, NEW scene \in Scenes, Assemble(scene)
  PROVE  PromptInv'
<1>1. PromptTypeOK /\ trigger # 0 /\ trigger \in 1..Len(turns) /\ turns[trigger] \in Nat \ {0}
  BY DEF PromptInv, PromptTypeOK, Assemble
<1>2. PromptTypeOK'
  BY <1>1 DEF PromptTypeOK, Assemble
<1>3. scene.profile \in Nat /\ scene.event \in Nat /\ scene.world \in Nat
  BY ContextAssumption
<1>4. PICK b : b = Before(trigger)
  OBVIOUS
<1>5. b \in Seq(Nat \ {0}) /\ Turns(Len(b)) /\ b = SubSeq(turns, trigger - Len(b), trigger - 1)
  BY <1>1, <1>4, BeforeIs
<1>6. Told(b) \in Nat /\ (Told(b) = 0 <=> b = << >>)
  BY <1>5, ToldIs
<1>7. remaining' = b
  BY <1>4 DEF Assemble
<1>8. PICK q : IsTexts(q) /\ kept' = IF b = << >> THEN q ELSE Append(q, Section("history", Told(b)))
  <2>1. PICK l \in Nat \ {0}, h \in Nat : l = turns[trigger] /\ h = Told(b)
    BY <1>1, <1>6
  <2>2. PICK p \in Nat, e \in Nat, w \in Nat : p = scene.profile /\ e = scene.event /\ w = scene.world
    BY <1>3
  <2>3. PICK q : WithHistoryOf(Without({}, Assembled(l, p, e, w, h)), q, h)
    BY AssembledIs
  <2>4. kept' = Without({}, Assembled(l, p, e, w, h))
    BY <1>4, <2>1, <2>2 DEF Assemble, Assembled
  <2>5. IsTexts(q) /\ kept' = IF h = 0 THEN q ELSE Append(q, Section("history", h))
    BY <2>3, <2>4 DEF WithHistoryOf
  <2>6. h = 0 <=> b = << >>
    BY <1>6, <2>1
  <2> QED BY <2>1, <2>5, <2>6
<1>9. Without({"history"}, kept') = q
  BY <1>5, <1>8, HistoryIs
<1>10. Texts' = q /\ whole' = kept'
  BY <1>9 DEF Texts, Assemble
<1>11. HistoryWith(Len(remaining))' = kept'
  <2>1. HistoryWith(Len(remaining))' = WithHistory(kept', b)
    BY <1>5, <1>7 DEF HistoryWith, Assemble
  <2> QED BY <1>8, <1>9, <2>1 DEF WithHistory
<1>12. Turns(Len(remaining))' /\ remaining' = SubSeq(turns', trigger' - Len(remaining'), trigger' - 1)
  BY <1>5, <1>7 DEF Turns, Assemble
<1>13. IsTexts(Texts)'
  <2>1. IsTexts(Texts')
    BY <1>8, <1>10
  <2> QED BY <2>1 DEF IsTexts
<1>14. Fitting'
  BY <1>10, <1>11, <1>12, <1>13 DEF Fitting
<1> QED BY <1>2, <1>14 DEF PromptInv, Assemble

\* Sections for an event have lost nothing and have no history.
LEMMA PromptBuildForEvent ==
  ASSUME PromptInv, NEW length \in Lengths, NEW scene \in Scenes, NEW l \in Limits,
         BuildForEvent(length, scene, l)
  PROVE  PromptInv'
<1>1. PromptTypeOK'
  BY DEF PromptInv, PromptTypeOK, BuildForEvent
<1>2. scene.profile \in Nat /\ scene.world \in Nat /\ length \in Nat \ {0}
  BY ContextAssumption
<1>3. PICK q : q = kept'
  OBVIOUS
<1>4. IsTexts(q) /\ whole' = q
  BY <1>2, <1>3, AssembledForEventIs DEF BuildForEvent
<1>5. Without({"history"}, q) = q
  BY <1>4, TextsAreLeft
<1>6. Texts' = q
  BY <1>4, <1>5 DEF Texts
<1>7. remaining' = << >> /\ trigger' = trigger /\ turns' = turns
  BY DEF BuildForEvent
<1>8. SubSeq(turns, trigger - 0, trigger - 1) = << >>
  BY NothingIs DEF PromptInv, PromptTypeOK
<1>9. HistoryWith(Len(remaining))' = q
  <2>1. Len(<< >>) = 0
    OBVIOUS
  <2>2. HistoryWith(Len(remaining))' = WithHistory(q, << >>)
    BY <1>4, <1>7, <1>8, <2>1 DEF HistoryWith
  <2> QED BY <1>5, <2>2 DEF WithHistory
<1>10. Turns(Len(remaining))' /\ remaining' = SubSeq(turns', trigger' - Len(remaining'), trigger' - 1)
  BY <1>7, <1>8 DEF Turns
<1>11. IsTexts(Texts)'
  <2>1. IsTexts(Texts')
    BY <1>4, <1>6
  <2> QED BY <2>1 DEF IsTexts
<1>12. Fitting'
  BY <1>3, <1>4, <1>9, <1>10, <1>11 DEF Fitting
<1> QED BY <1>1, <1>12 DEF PromptInv, BuildForEvent

\* Shedding the oldest turn keeps the history before it as one that did not fit.
LEMMA PromptShedTurn ==
  ASSUME PromptInv, ShedTurn
  PROVE  PromptInv'
<1>1. PromptTypeOK /\ Fitting /\ remaining # << >>
  BY DEF PromptInv, ShedTurn
<1>2. PromptTypeOK'
  BY <1>1 DEF PromptTypeOK, ShedTurn
<1>3. PICK n \in Nat : n = Len(remaining)
  BY <1>1, FittingIs
<1>4. /\ remaining = SubSeq(turns, trigger - n, trigger - 1) /\ Turns(n)
      /\ kept = HistoryWith(n) /\ remaining \in Seq(Nat \ {0}) /\ IsTexts(Texts)
      /\ HistoryWith(n) = Append(Texts, Section("history", Told(remaining)))
  BY <1>1, <1>3, FittingIs DEF Fitting
<1>5. PICK q : q = Tail(remaining)
  OBVIOUS
<1>6. n < trigger /\ Len(q) = n - 1 /\ q \in Seq(Nat \ {0})
      /\ q = SubSeq(turns, trigger - (n - 1), trigger - 1)
  BY <1>1, <1>3, <1>4, <1>5, RemainingIs
<1>7. Without({"history"}, kept) = Texts
  BY <1>1, <1>4, HistoryIs
<1>8. kept' = WithHistory(whole, q)
  <2>1. kept' = WithHistory(kept, q)
    BY <1>5 DEF ShedTurn
  <2> QED BY <1>7, <2>1 DEF WithHistory, Texts
<1>9. /\ remaining' = q /\ turns' = turns /\ trigger' = trigger /\ limit' = limit /\ whole' = whole
      /\ step' = step /\ step = "fitting" /\ Over(kept)
  BY <1>5 DEF ShedTurn
<1>10. Texts' = Texts
  BY <1>9 DEF Texts
<1>11. HistoryWith(Len(remaining))' = kept'
  BY <1>6, <1>8, <1>9 DEF HistoryWith
<1>12. Over(HistoryWith(Len(remaining) + 1))' /\ (Len(remaining) + 1 < trigger)'
  <2>1. Len(q) + 1 = n
    BY <1>6
  <2>2. HistoryWith(Len(remaining) + 1)' = kept
    BY <1>4, <1>9, <2>1 DEF HistoryWith
  <2>3. Over(HistoryWith(Len(remaining) + 1))' = Over(HistoryWith(Len(remaining) + 1)')
    BY <1>9 DEF Over
  <2>4. Over(HistoryWith(Len(remaining) + 1))'
    BY <1>9, <2>2 DEF Over
  <2> QED BY <1>6, <1>9, <2>1, <2>4
<1>13. Turns(Len(remaining))' /\ remaining' = SubSeq(turns', trigger' - Len(remaining'), trigger' - 1)
  <2>1. trigger \in Nat
    BY <1>1 DEF PromptTypeOK
  <2>2. Turns(Len(remaining))'
    BY <1>6, <1>9, <2>1 DEF Turns
  <2>3. remaining' = SubSeq(turns', trigger' - Len(remaining'), trigger' - 1)
    BY <1>6, <1>9
  <2> QED BY <2>2, <2>3
<1>14. IsTexts(Texts)'
  <2>1. IsTexts(Texts')
    BY <1>4, <1>10
  <2> QED BY <2>1 DEF IsTexts
<1>15. Fitting'
  BY <1>11, <1>12, <1>13, <1>14 DEF Fitting
<1> QED BY <1>2, <1>9, <1>15 DEF PromptInv

\* Of the texts only the first two are required.
LEMMA TextNames ==
  ASSUME IsTexts(Texts), NEW m \in 2..Len(Texts)
  PROVE  /\ Texts[m].name # "history"
         /\ Texts[m].name \in Required <=> m = 2
<1>1. m = 2 \/ m \in 3..Len(Texts)
  BY DEF IsTexts
<1> QED BY <1>1 DEF IsTexts, Required

\* Shedding the last section keeps the texts up to it as some that did not fit.
LEMMA PromptShedSection ==
  ASSUME PromptInv, ShedSection
  PROVE  PromptInv'
<1>1. PromptTypeOK /\ Fitting /\ remaining = << >>
  BY DEF PromptInv, ShedSection
<1>2. PromptTypeOK'
  BY <1>1 DEF PromptTypeOK, ShedSection
<1>3. PICK m \in 2..Len(Texts) : kept = SubSeq(Texts, 1, m) /\ Len(kept) = m /\ Last(kept) = Texts[m]
  BY <1>1, NoHistoryIs
<1>4. IsTexts(Texts) /\ Texts \in Seq(Sections) /\ Len(Texts) \in Nat /\ m > 2
  <2>1. IsTexts(Texts) /\ Texts \in Seq(Sections) /\ Len(Texts) \in Nat
    BY <1>1 DEF Fitting, IsTexts
  <2>2. m # 2
    BY <1>3, <2>1, TextNames DEF ShedSection
  <2> QED BY <1>3, <2>1, <2>2
<1>5. /\ turns' = turns /\ trigger' = trigger /\ limit' = limit /\ whole' = whole
      /\ remaining' = remaining /\ step' = step /\ step = "fitting" /\ Over(kept)
      /\ kept' = SubSeq(kept, 1, Len(kept) - 1)
  BY DEF ShedSection, Front
<1>6. Texts' = Texts /\ IsTexts(Texts)'
  BY <1>4, <1>5 DEF Texts, IsTexts
<1>7. kept' = SubSeq(Texts, 1, m - 1) /\ Len(kept') = m - 1
  <2>1. PICK q \in Seq(Sections) : q = Texts
    BY <1>4
  <2>2. SubSeq(SubSeq(q, 1, m), 1, m - 1) = SubSeq(q, 1, m - 1)
    BY <1>3, <1>4, <2>1
  <2>3. Len(SubSeq(q, 1, m - 1)) = m - 1
    BY <1>3, <1>4, <2>1
  <2> QED BY <1>3, <1>5, <2>1, <2>2, <2>3
<1>8. Over(SubSeq(Texts, 1, Len(kept) + 1))'
  <2>1. (m - 1) + 1 = m
    BY <1>4
  <2>2. SubSeq(Texts', 1, Len(kept') + 1) = kept
    BY <1>3, <1>6, <1>7, <2>1
  <2> QED BY <1>5, <2>2 DEF Over
<1>9. Len(kept') \in 2..(Len(Texts') - 1)
  BY <1>3, <1>4, <1>6, <1>7
<1>10. Turns(Len(remaining))' /\ remaining' = SubSeq(turns', trigger' - Len(remaining'), trigger' - 1)
  BY <1>1, <1>5 DEF Turns, Fitting
<1>11. Fitting'
  BY <1>1, <1>5, <1>6, <1>7, <1>8, <1>9, <1>10 DEF Fitting
<1> QED BY <1>2, <1>5, <1>11 DEF PromptInv

\* A clipped prompt is what even the required sections did not fit into.
LEMMA PromptClipTrigger ==
  ASSUME PromptInv, ClipTrigger
  PROVE  PromptInv'
<1>1. PromptTypeOK /\ Fitting /\ remaining = << >>
  BY DEF PromptInv, ClipTrigger
<1>2. PromptTypeOK'
  BY <1>1 DEF PromptTypeOK, ClipTrigger
<1>3. PICK m \in 2..Len(Texts) : kept = SubSeq(Texts, 1, m) /\ Len(kept) = m /\ Last(kept) = Texts[m]
  BY <1>1, NoHistoryIs
<1>4. IsTexts(Texts) /\ m = 2
  <2>1. IsTexts(Texts)
    BY <1>1 DEF Fitting
  <2> QED BY <1>3, <2>1, TextNames DEF ClipTrigger
<1>5. Over(SubSeq(Texts, 1, 2))
  BY <1>3, <1>4 DEF ClipTrigger
<1>6. limit' = limit /\ whole' = whole /\ step' = "built"
  BY DEF ClipTrigger
<1>7. IsTexts(Texts)' /\ Over(SubSeq(Texts, 1, 2))' /\ Spare' = Spare
  BY <1>4, <1>5, <1>6 DEF IsTexts, Over, Texts, Spare
<1>8. ClippedPrompt'
  BY <1>7 DEF ClippedPrompt, ClipTrigger
<1> QED BY <1>2, <1>6, <1>8 DEF PromptInv

\* Whatever is stored while a prompt is built, at every step of it: what was shed is
\* the oldest of the history and then the last of the sections, one by one, each
\* after what stayed with it had not fitted (context_builder.py, _fit).
THEOREM PromptIsInv == PromptSpec => []PromptInv
<1>1. PromptInit => PromptInv
  BY DEF PromptInit, PromptInv, PromptTypeOK
<1>2. PromptInv /\ [PromptNext]_promptVars => PromptInv'
  <2> SUFFICES ASSUME PromptInv, [PromptNext]_promptVars PROVE PromptInv'
    OBVIOUS
  <2>1. CASE \E length \in Lengths : Say(length)
    BY <2>1, PromptSay
  <2>2. CASE \E t \in 1..Len(turns), l \in Limits : Build(t, l)
    BY <2>2, PromptBuild
  <2>3. CASE \E scene \in Scenes : Assemble(scene)
    BY <2>3, PromptAssemble
  <2>4. CASE \E length \in Lengths, scene \in Scenes, l \in Limits : BuildForEvent(length, scene, l)
    BY <2>4, PromptBuildForEvent
  <2>5. CASE ShedTurn
    BY <2>5, PromptShedTurn
  <2>6. CASE ShedSection
    BY <2>6, PromptShedSection
  <2>7. CASE ClipTrigger
    BY <2>7, PromptClipTrigger
  <2>8. CASE Fit
    BY <2>8, PromptFit
  <2>9. CASE UNCHANGED promptVars
    BY <2>9, PromptStutter
  <2> QED BY <2>1, <2>2, <2>3, <2>4, <2>5, <2>6, <2>7, <2>8, <2>9 DEF PromptNext
<1> QED BY <1>1, <1>2, PTL DEF PromptSpec

\* A clipped prompt fits, unless the contract leaves no room for the mark.
LEMMA ClippedFits ==
  ASSUME PromptTypeOK, ClippedPrompt
  PROVE  /\ kept \in Seq(Sections) /\ Len(kept) = 2
         /\ kept[1].name = "contract" /\ kept[2].name = "trigger" /\ kept[2].length \in Nat
         /\ \/ Tokens(kept) <= limit.input
            \/ EstimateTokens(Contract) + EstimateTokens(Clipped) > limit.input
         /\ kept[2].length < Texts[2].length + Clipped
<1>1. PICK length \in 0..Spare :
        kept = <<Section("contract", Contract), Section("trigger", length + Clipped)>>
  BY DEF ClippedPrompt
<1>2. IsTexts(Texts) /\ Over(SubSeq(Texts, 1, 2))
  BY DEF ClippedPrompt
<1>3. limit.input \in Nat /\ Contract \in Nat /\ Clipped \in Nat
  BY ContextAssumption DEF PromptTypeOK, Clipped
<1>4. EstimateTokens(Contract) \in Nat
  BY <1>3, EstimateIs
<1>5. Texts[2].length \in Nat /\ Texts[2].length > 0
      /\ EstimateTokens(Contract) + EstimateTokens(Texts[2].length) > limit.input
  <2>1. PICK q : q = Texts
    OBVIOUS
  <2>2. q \in Seq(Sections) /\ Len(q) >= 2 /\ q[1].length = Contract /\ q[2] \in Sections /\ q[2].length > 0
    BY <1>2, <2>1 DEF IsTexts, Section
  <2>3. PICK r : r = SubSeq(q, 1, 2)
    OBVIOUS
  <2>4. r \in Seq(Sections) /\ Len(r) = 2 /\ r[1] = q[1] /\ r[2] = q[2]
    BY <2>2, <2>3
  <2>5. Tokens(r) = EstimateTokens(Contract) + EstimateTokens(q[2].length)
    BY <2>2, <2>4, TwoSections
  <2> QED BY <1>2, <2>1, <2>2, <2>3, <2>5 DEF Over, Sections
<1>6. Spare \in Nat
      /\ \/ Spare = 0
         \/ /\ limit.input >= EstimateTokens(Contract)
            /\ Spare + Clipped = CharactersFor(limit.input - EstimateTokens(Contract))
  <2>1. ASSUME limit.input >= EstimateTokens(Contract)
        PROVE  CharactersFor(limit.input - EstimateTokens(Contract)) \in Nat
    <3>1. PICK k \in Nat : k = limit.input - EstimateTokens(Contract)
      BY <1>3, <1>4, <2>1
    <3>2. PICK c \in Nat : c = CharactersPerToken
      BY ContextAssumption
    <3>3. k * c \in Nat
      OBVIOUS
    <3> QED BY <3>1, <3>2, <3>3 DEF CharactersFor
  <2> QED BY <1>3, <1>4, <2>1 DEF Spare, Clipped
<1>7. PICK l \in Nat : l = length + Clipped /\ l <= Spare + Clipped
  BY <1>3, <1>6
<1>8. kept \in Seq(Sections) /\ Len(kept) = 2
      /\ kept[1] = Section("contract", Contract) /\ kept[2] = Section("trigger", l)
  BY <1>1, <1>3, <1>7 DEF Section, Sections
<1>9. Tokens(kept) = EstimateTokens(Contract) + EstimateTokens(l) /\ EstimateTokens(l) \in Nat
  BY <1>7, <1>8, TwoSections, EstimateIs DEF Section
<1>10. CASE Spare = 0
  <2>1. l = Clipped
    BY <1>3, <1>6, <1>7, <1>10
  <2> QED BY <1>3, <1>4, <1>5, <1>8, <1>9, <2>1 DEF Section
<1>11. CASE /\ limit.input >= EstimateTokens(Contract)
            /\ Spare + Clipped = CharactersFor(limit.input - EstimateTokens(Contract))
  <2>1. PICK k \in Nat : k = limit.input - EstimateTokens(Contract)
    BY <1>3, <1>4, <1>11
  <2>2. l <= CharactersFor(k)
    BY <1>7, <1>11, <2>1
  <2>3. EstimateTokens(l) <= k
    BY <1>7, <2>1, <2>2, EstimateIs
  <2>4. ~(EstimateTokens(Texts[2].length) <= k)
    BY <1>3, <1>4, <1>5, <2>1, EstimateIs
  <2>5. ~(Texts[2].length <= CharactersFor(k))
    BY <1>5, <2>1, <2>4, EstimateIs
  <2>6. CharactersFor(k) \in Nat
    BY <1>3, <1>6, <1>11, <2>1
  <2>7. l < Texts[2].length + Clipped
    BY <1>3, <1>5, <1>7, <2>2, <2>5, <2>6
  <2> QED BY <1>3, <1>4, <1>8, <1>9, <2>1, <2>3, <2>7 DEF Section
<1> QED BY <1>6, <1>10, <1>11

\* A prompt that was fitted without clipping: its names and its last section.
LEMMA FittedNames ==
  ASSUME PromptTypeOK, Fitting
  PROVE  kept[1].name = "contract" /\ kept[2].name = "trigger"
<1>1. PICK q : q = Texts
  OBVIOUS
<1>2. q \in Seq(Sections) /\ Len(q) >= 2 /\ q[1].name = "contract" /\ q[2].name = "trigger"
  BY <1>1 DEF Fitting, IsTexts, Section
<1>3. CASE remaining # << >>
  <2>1. PICK h : h = Section("history", Told(remaining))
    OBVIOUS
  <2>2. kept = Append(q, h) /\ h \in Sections
    BY <1>1, <1>3, <2>1, FittingIs, ToldIs DEF Section, Sections
  <2> QED BY <1>2, <2>2
<1>4. CASE remaining = << >>
  <2>1. PICK m \in 2..Len(q) : kept = SubSeq(q, 1, m)
    BY <1>1, <1>4, NoHistoryIs
  <2> QED BY <1>2, <2>1
<1> QED BY <1>3, <1>4

\* A prompt that begins with the contract and the trigger.
LEMMA NamesAre ==
  ASSUME kept[1].name = "contract", kept[2].name = "trigger"
  PROVE  [i \in 1..2 |-> kept[i].name] = <<"contract", "trigger">>
OBVIOUS

\* Every prompt stays within its tier's budget and says who answers what, for every
\* limit, every length of its sections and every history: only a contract that
\* leaves no room for the mark itself exceeds it.
THEOREM PromptFitsBudget == PromptSpec => []FitsBudget
<1>1. PromptInv => FitsBudget
  <2> SUFFICES ASSUME PromptInv, step = "built" PROVE FitsBudget
    BY DEF FitsBudget
  <2>1. PromptTypeOK /\ limit.input \in Nat
    BY ContextAssumption DEF PromptInv, PromptTypeOK
  <2>2. CASE ClippedPrompt
    BY <2>1, <2>2, ClippedFits, NamesAre DEF FitsBudget
  <2>3. CASE Fitting /\ ~Over(kept)
    <3>1. Tokens(kept) \in Nat
      BY <2>1, <2>3, FittingIs, TokensType
    <3>2. Tokens(kept) <= limit.input
      BY <2>1, <2>3, <3>1 DEF Over
    <3> QED BY <2>1, <2>3, <3>2, FittedNames, NamesAre DEF FitsBudget
  <2> QED BY <2>2, <2>3 DEF PromptInv
<1> QED BY <1>1, PromptIsInv, PTL

\* No prompt is shorter than it must be, for every limit, length and history: the
\* next longer one of the order in which it is shed would not have fitted.
THEOREM PromptShedsNothingInVain == PromptSpec => []NothingShedInVain
<1>1. PromptInv => NothingShedInVain
  <2> SUFFICES ASSUME PromptInv, step = "built", kept # whole
               PROVE  \/ Last(kept).name = "history"
                         /\ kept = HistoryWith(Len(remaining)) /\ Over(HistoryWith(Len(remaining) + 1))
                      \/ Last(kept).name # "history" /\ IsPrefix(kept, Texts)
                         /\ Over(IF kept = Texts THEN HistoryWith(1) ELSE SubSeq(Texts, 1, Len(kept) + 1))
                      \/ Len(kept) = 2 /\ kept[2].length < Texts[2].length + Clipped
                         /\ Over(SubSeq(Texts, 1, 2))
    BY DEF NothingShedInVain, Texts
  <2>1. PromptTypeOK
    BY DEF PromptInv
  <2>2. CASE ClippedPrompt
    BY <2>1, <2>2, ClippedFits DEF ClippedPrompt
  <2>3. CASE Fitting /\ remaining # << >>
    <3>1. kept = HistoryWith(Len(remaining)) /\ kept = Append(Texts, Section("history", Told(remaining)))
          /\ remaining \in Seq(Nat \ {0})
      BY <2>1, <2>3, FittingIs
    <3>2. Last(kept).name = "history"
      <4>1. PICK q : q = Texts
        OBVIOUS
      <4>2. PICK h : h = Section("history", Told(remaining))
        OBVIOUS
      <4>3. q \in Seq(Sections) /\ kept = Append(q, h) /\ h \in Sections /\ h.name = "history"
        BY <2>3, <3>1, <4>1, <4>2, ToldIs DEF Fitting, IsTexts, Section, Sections
      <4>4. Last(kept) = h
        BY <4>3 DEF Last
      <4> QED BY <4>3, <4>4
    <3>3. Over(HistoryWith(Len(remaining) + 1))
      BY <2>3 DEF Fitting
    <3> QED BY <3>1, <3>2, <3>3
  <2>4. CASE Fitting /\ remaining = << >>
    <3>1. PICK m \in 2..Len(Texts) :
            /\ kept = SubSeq(Texts, 1, m) /\ Len(kept) = m /\ Last(kept) = Texts[m]
            /\ m < Len(Texts) => Over(SubSeq(Texts, 1, m + 1))
            /\ m = Len(Texts) => kept = Texts /\ kept = HistoryWith(0)
      BY <2>1, <2>4, NoHistoryIs
    <3>2. IsTexts(Texts) /\ Texts \in Seq(Sections) /\ Len(Texts) \in Nat
      BY <2>4 DEF Fitting, IsTexts
    <3>3. Last(kept).name # "history"
      BY <3>1, <3>2, TextNames
    <3>4. IsPrefix(kept, Texts)
      <4>1. PICK q \in Seq(Sections) : q = Texts
        BY <3>2
      <4>2. m <= Len(q) /\ kept = SubSeq(q, 1, m) /\ Len(kept) = m
        BY <3>1, <4>1
      <4>3. SubSeq(kept, 1, m) = SubSeq(q, 1, m)
        BY <4>2
      <4> QED BY <4>1, <4>2, <4>3 DEF IsPrefix
    <3>5. Over(IF kept = Texts THEN HistoryWith(1) ELSE SubSeq(Texts, 1, Len(kept) + 1))
      <4>1. CASE m = Len(Texts)
        <5>1. kept = Texts /\ kept = HistoryWith(0) /\ Len(remaining) = 0
          BY <2>4, <3>1, <4>1
        <5>2. \/ Len(kept) \in 2..(Len(Texts) - 1)
              \/ Over(HistoryWith(Len(remaining) + 1))
          BY <2>4 DEF Fitting
        <5>3. Len(kept) \notin 2..(Len(Texts) - 1)
          BY <3>2, <5>1
        <5>4. 0 + 1 = 1
          OBVIOUS
        <5> QED BY <5>1, <5>2, <5>3, <5>4
      <4>2. CASE m # Len(Texts)
        BY <3>1, <3>2, <4>2
      <4> QED BY <4>1, <4>2
    <3> QED BY <3>3, <3>4, <3>5
  <2> QED BY <2>2, <2>3, <2>4 DEF PromptInv
<1> QED BY <1>1, PromptIsInv, PTL

-----------------------------------------------------------------------------
(* The projection of a benchmark run, and what routing saves.              *)

\* Rounding up keeps at least what was observed, whenever the baseline makes
\* at least the calls observed (_scale_tokens in benchmark.py).
THEOREM ScaleKeepsObserved ==
  ASSUME NEW observed \in Nat, NEW calls \in Nat \ {0}, NEW baseline \in Nat,
         baseline >= calls
  PROVE  ScaleTokens(observed, calls, baseline) >= observed
<1> DEFINE x == observed * baseline + calls - 1
           q == x \div calls
           r == x % calls
<1>1. observed * baseline \in Nat /\ observed * calls \in Nat
  OBVIOUS
<1>2. observed * baseline >= observed * calls
  OBVIOUS
<1>3. x \in Nat /\ x >= observed * calls + calls - 1
  BY <1>1, <1>2
<1>4. q \in Nat /\ r \in 0 .. calls - 1 /\ x = calls * q + r
  BY <1>3
<1>5. calls * q >= observed * calls
  <2>1. calls * q \in Nat
    BY <1>4
  <2> QED
    BY <1>1, <1>3, <1>4, <2>1
<1>6. q >= observed
  <2> SUFFICES ASSUME observed >= q + 1
               PROVE  FALSE
    BY <1>4
  <2>1. observed * calls >= (q + 1) * calls
    BY <1>4
  <2>2. (q + 1) * calls = calls * q + calls
    BY <1>4
  <2> QED
    BY <1>1, <1>4, <1>5, <2>1, <2>2
<1> QED
  BY <1>6 DEF ScaleTokens

\* Who has which tier in a routing result.
Assignments == UNION {[npcs -> Tiers] : npcs \in SUBSET CandidateNpcs}

\* What a telemetry file is made of.
Records ==
  [type : {"benchmark_run"}]
    \cup [type : {"routing_result"}, session : Sessions, sequence : Nat, tiers : Assignments]
    \cup [type : {"model_call"}, session : Sessions, source : Nat, trigger : Triggers,
          model : Models, tokens : Nat, latency : Nat]

\* The telemetry of a run, typed.
RunTypeOK == log \in Seq(Records) /\ results \in Seq(Records) /\ facts \in Seq(Records)

\* What a record says, by its type.
LEMMA RecordIs ==
  ASSUME NEW r \in Records
  PROVE  /\ r.type = "routing_result" =>
              r.session \in Sessions /\ r.sequence \in Nat /\ DOMAIN r.tiers \subseteq CandidateNpcs
         /\ r.type = "model_call" =>
              /\ r.session \in Sessions /\ r.source \in Nat /\ r.trigger \in Triggers
              /\ r.model \in Models /\ r.tokens \in Nat /\ r.latency \in Nat
<1>1. CASE r \in [type : {"benchmark_run"}]
  <2>1. r.type = "benchmark_run"
    BY <1>1
  <2> QED BY <2>1
<1>2. CASE r \in [type : {"routing_result"}, session : Sessions, sequence : Nat, tiers : Assignments]
  <2>1. r.type = "routing_result" /\ r.session \in Sessions /\ r.sequence \in Nat /\ r.tiers \in Assignments
    BY <1>2
  <2>2. \A t \in Assignments : DOMAIN t \subseteq CandidateNpcs
    BY DEF Assignments
  <2> QED BY <2>1, <2>2
<1>3. CASE r \in [type : {"model_call"}, session : Sessions, source : Nat, trigger : Triggers,
          model : Models, tokens : Nat, latency : Nat]
  <2>1. r.type = "model_call" 
    BY <1>3
  <2> QED BY <1>3, <2>1
<1> QED BY <1>1, <1>2, <1>3 DEF Records

\* What a step of a run before the flush adds.
TellsRouting(r) ==
  /\ r \in Records /\ r.type = "routing_result" /\ ~flushed /\ ~flushed'
  /\ results' = Append(results, r) /\ facts' = Append(facts, r) /\ log' = log

\* A call that ended.
TellsCall(r) ==
  /\ r \in Records /\ r.type = "model_call" /\ ~flushed /\ ~flushed'
  /\ log' = Append(log, r) /\ facts' = Append(facts, r) /\ results' = results

\* A step of a run tells a routing or a call, or it is the flush.
LEMMA RunStepIs ==
  ASSUME [RunNext]_runVars
  PROVE  \/ \E r : TellsRouting(r) \/ TellsCall(r)
         \/ Flush
         \/ UNCHANGED runVars
<1>1. ASSUME NEW s \in Sessions, NEW q \in 1..MaxSequence,
             NEW npcs \in (SUBSET CandidateNpcs) \ {{}}, NEW tiers \in [npcs -> Tiers],
             Route(s, q, tiers)
      PROVE  \E r : TellsRouting(r)
  <2>1. tiers \in Assignments /\ q \in Nat
    BY TelemetryAssumption DEF Assignments
  <2>2. PICK r : r = RoutingRecord(s, q, tiers)
    OBVIOUS
  <2>3. r \in Records /\ r.type = "routing_result"
    BY <2>1, <2>2 DEF RoutingRecord, Records
  <2>4. TellsRouting(r)
    BY <1>1, <2>2, <2>3 DEF Route, TellsRouting
  <2> QED BY <2>4
<1>2. ASSUME NEW s \in Sessions, NEW q \in 1..MaxSequence, NEW t \in Triggers,
             NEW m \in Models, NEW o \in Outcomes, RecordModelCall(s, q, t, m, o)
      PROVE  \E r : TellsCall(r)
  <2>1. q \in Nat /\ o.tokens \in Nat /\ o.latency \in Nat
    BY TelemetryAssumption
  <2>2. PICK r : r = CallRecord(s, q, t, m, o)
    OBVIOUS
  <2>3. r \in Records /\ r.type = "model_call"
    BY <2>1, <2>2 DEF CallRecord, Records
  <2>4. TellsCall(r)
    BY <1>2, <2>2, <2>3 DEF RecordModelCall, TellsCall
  <2> QED BY <2>4
<1> QED BY <1>1, <1>2 DEF RunNext

\* A run starts with its metadata.
LEMMA RunTypeInit ==
  ASSUME RunInit
  PROVE  RunTypeOK
<1>1. Metadata \in Records
  BY DEF Metadata, Records
<1> QED BY <1>1 DEF RunInit, RunTypeOK

\* Every step of a run keeps its telemetry typed.
LEMMA RunTypeStep ==
  ASSUME RunTypeOK, [RunNext]_runVars
  PROVE  RunTypeOK'
<1> USE DEF RunTypeOK
<1>1. ASSUME NEW r, TellsRouting(r) PROVE RunTypeOK'
  BY <1>1 DEF TellsRouting
<1>2. ASSUME NEW r, TellsCall(r) PROVE RunTypeOK'
  BY <1>2 DEF TellsCall
<1>3. CASE Flush
  BY <1>3 DEF Flush
<1>4. CASE UNCHANGED runVars
  BY <1>4 DEF runVars
<1> QED BY <1>1, <1>2, <1>3, <1>4, RunStepIs

\* The telemetry of a run is typed (logger.py, benchmark.py).
LEMMA RunTyped == RunSpec => []RunTypeOK
<1> QED BY RunTypeInit, RunTypeStep, PTL DEF RunSpec

\* The tokens of some calls.
Spent(records, S) == MapThenSumSet(LAMBDA i : records[i].tokens, S)

\* The tokens of each of them.
TokensOf(records, S) == [i \in S |-> records[i].tokens]

\* The tokens of some calls are summed in any order.
LEMMA TokensAreTotal ==
  ASSUME NEW records, NEW S, Numbers(TokensOf(records, S), S)
  PROVE  Spent(records, S) = Total(TokensOf(records, S), S)
<1>1. PICK w : w = TokensOf(records, S)
  OBVIOUS
<1> DEFINE f == CHOOSE f : f = [T \in SUBSET S |->
                  IF T = {} THEN 0 ELSE records[Some(T)].tokens + f[T \ {Some(T)}]]
<1>2. Spent(records, S) = f[S]
  BY DEF Spent, MapThenSumSet, MapThenFoldSet, Some
<1>3. PICK h \in [SUBSET S -> Nat] : IsSum(h, S, w)
  BY <1>1, SumExists
<1>4. \A T \in SUBSET S : T # {} => w[Some(T)] = records[Some(T)].tokens
  BY <1>1 DEF Some, TokensOf
<1>5. h = [T \in SUBSET S |->
            IF T = {} THEN 0 ELSE records[Some(T)].tokens + h[T \ {Some(T)}]]
  BY <1>3, <1>4 DEF IsSum
<1>6. f = [T \in SUBSET S |->
            IF T = {} THEN 0 ELSE records[Some(T)].tokens + f[T \ {Some(T)}]]
  BY <1>5
<1> HIDE DEF f
<1>7. IsSum(f, S, w)
  BY <1>4, <1>6 DEF IsSum
<1>8. IsTotal(f, S, w)
  BY <1>1, <1>7, SumIsTotal
<1>9. Total(w, S) = f[S]
  BY <1>1, <1>8, TotalIs
<1> QED BY <1>1, <1>2, <1>9

\* What a baseline without routing is projected to spend on each trigger.
Projected(records, K) == [k \in K |-> ProjectedTokens(records, k)]

\* The projection is summed over the triggers in any order.
LEMMA ProjectedAreTotal ==
  ASSUME NEW records, NEW K, Numbers(Projected(records, K), K)
  PROVE  MapThenSumSet(LAMBDA k : ProjectedTokens(records, k), K) = Total(Projected(records, K), K)
<1>1. PICK w : w = Projected(records, K)
  OBVIOUS
<1>2. PICK v : v = [k \in K |-> ProjectedTokens(records, k)] /\ v = w
  BY <1>1 DEF Projected
<1> DEFINE f == CHOOSE f : f = [T \in SUBSET K |->
                  IF T = {} THEN 0 ELSE ProjectedTokens(records, Some(T)) + f[T \ {Some(T)}]]
<1>3. MapThenSumSet(LAMBDA k : ProjectedTokens(records, k), K) = f[K]
  BY DEF MapThenSumSet, MapThenFoldSet, Some
<1>4. PICK h \in [SUBSET K -> Nat] : IsSum(h, K, w)
  BY <1>1, SumExists
<1>5. \A T \in SUBSET K : T # {} => w[Some(T)] = ProjectedTokens(records, Some(T))
  BY <1>2 DEF Some
<1>6. h = [T \in SUBSET K |->
            IF T = {} THEN 0 ELSE ProjectedTokens(records, Some(T)) + h[T \ {Some(T)}]]
  BY <1>4, <1>5 DEF IsSum
<1>7. f = [T \in SUBSET K |->
            IF T = {} THEN 0 ELSE ProjectedTokens(records, Some(T)) + f[T \ {Some(T)}]]
  BY <1>6
<1> HIDE DEF f
<1>8. IsSum(f, K, w)
  BY <1>5, <1>7 DEF IsSum
<1>9. IsTotal(f, K, w)
  BY <1>1, <1>8, SumIsTotal
<1>10. Total(w, K) = f[K]
  BY <1>1, <1>9, TotalIs
<1> QED BY <1>1, <1>3, <1>10

\* What the calls of each model cost.
Costs(records, M) == [m \in M |-> ModelCost(records, m)]

\* The costs are summed over the models in any order.
LEMMA CostsAreTotal ==
  ASSUME NEW records, NEW M, Numbers(Costs(records, M), M)
  PROVE  MapThenSumSet(LAMBDA m : ModelCost(records, m), M) = Total(Costs(records, M), M)
<1>1. PICK w : w = Costs(records, M)
  OBVIOUS
<1>2. PICK v : v = [m \in M |-> ModelCost(records, m)] /\ v = w
  BY <1>1 DEF Costs
<1> DEFINE f == CHOOSE f : f = [T \in SUBSET M |->
                  IF T = {} THEN 0 ELSE ModelCost(records, Some(T)) + f[T \ {Some(T)}]]
<1>3. MapThenSumSet(LAMBDA m : ModelCost(records, m), M) = f[M]
  BY DEF MapThenSumSet, MapThenFoldSet, Some
<1>4. PICK h \in [SUBSET M -> Nat] : IsSum(h, M, w)
  BY <1>1, SumExists
<1>5. \A T \in SUBSET M : T # {} => w[Some(T)] = ModelCost(records, Some(T))
  BY <1>2 DEF Some
<1>6. h = [T \in SUBSET M |->
            IF T = {} THEN 0 ELSE ModelCost(records, Some(T)) + h[T \ {Some(T)}]]
  BY <1>4, <1>5 DEF IsSum
<1>7. f = [T \in SUBSET M |->
            IF T = {} THEN 0 ELSE ModelCost(records, Some(T)) + f[T \ {Some(T)}]]
  BY <1>6
<1> HIDE DEF f
<1>8. IsSum(f, M, w)
  BY <1>5, <1>7 DEF IsSum
<1>9. IsTotal(f, M, w)
  BY <1>1, <1>8, SumIsTotal
<1>10. Total(w, M) = f[M]
  BY <1>1, <1>9, TotalIs
<1> QED BY <1>1, <1>3, <1>10

\* The calls of a log are finitely many, each with a number of tokens.
LEMMA CallsAre ==
  ASSUME NEW records \in Seq(Records), NEW C, C = Calls(records), NEW w, w = TokensOf(records, C)
  PROVE  /\ Numbers(w, C)
         /\ \A i \in C : /\ records[i] \in Records /\ records[i].type = "model_call"
                         /\ records[i].model \in Models
         /\ \A S \in SUBSET C : Spent(records, S) = Total(w, S)
<1>1. PICK n \in Nat : n = Len(records) /\ DOMAIN records = 1..n /\ \A i \in 1..n : records[i] \in Records
  OBVIOUS
<1>2. C \subseteq 1..n /\ \A i \in C : records[i].type = "model_call"
  BY <1>1 DEF Calls, Having
<1>3. IsFiniteSet(C)
  <2>1. IsFiniteSet(1..n)
    BY FS_Interval
  <2> QED BY <1>2, <2>1, FS_Subset
<1>4. \A i \in C : records[i] \in Records /\ records[i].tokens \in Nat /\ records[i].model \in Models
  BY <1>1, <1>2, RecordIs
<1>5. Numbers(w, C)
  BY <1>3, <1>4 DEF Numbers, TokensOf
<1>6. ASSUME NEW S \in SUBSET C
      PROVE  Spent(records, S) = Total(w, S)
  <2>1. PICK v : v = TokensOf(records, S)
    OBVIOUS
  <2>2. \A x \in S : v[x] = w[x] /\ v[x] \in Nat
    BY <1>4, <2>1 DEF TokensOf
  <2>3. Numbers(v, S)
    BY <1>3, <2>2, FS_Subset DEF Numbers
  <2>4. Total(v, S) = Total(w, S)
    BY <2>2, <2>3, TotalOfSame
  <2>5. Spent(records, S) = Total(v, S)
    BY <2>1, <2>3, TokensAreTotal
  <2> QED BY <2>4, <2>5
<1> QED BY <1>2, <1>4, <1>5, <1>6

\* A projection makes at least the calls observed (baseline_calls).
LEMMA BaselineKeepsObserved ==
  ASSUME NEW n \in Nat, NEW observed \in 0..n, NEW candidates \in SUBSET (0..n), NEW kind
  PROVE  LET b == BaselineCalls(observed, candidates, kind) IN b \in Nat /\ b >= observed
<1>1. PICK T \in SUBSET (0..n) : T = candidates \cup {observed} /\ observed \in T
  OBVIOUS
<1>2. Max(T) \in 0..n /\ observed <= Max(T)
  BY <1>1, MaxIs
<1>3. Max(candidates \cup {observed}) \in Nat /\ observed <= Max(candidates \cup {observed})
  BY <1>1, <1>2
<1> QED BY <1>3 DEF BaselineCalls

\* A routing result never counts more candidates than there are.
LEMMA CandidatesAre ==
  ASSUME NEW records \in Seq(Records), NEW s, NEW q
  PROVE  \A c \in CandidateCounts(records, s, q) : c \in Nat /\ c <= Cardinality(CandidateNpcs)
<1> SUFFICES ASSUME NEW i \in Routings(records)
             PROVE  /\ Cardinality(DOMAIN records[i].tiers) \in Nat
                    /\ Cardinality(DOMAIN records[i].tiers) <= Cardinality(CandidateNpcs)
  BY DEF CandidateCounts
<1>1. records[i] \in Records /\ records[i].type = "routing_result"
  BY DEF Routings, Having
<1>2. DOMAIN records[i].tiers \in SUBSET CandidateNpcs
  BY <1>1, RecordIs
<1> QED BY <1>2, TelemetryAssumption, FS_Subset, FS_CardinalityType

\* A projection is a number of tokens.
LEMMA ScaledIsNumber ==
  ASSUME NEW observed \in Nat, NEW calls \in Nat \ {0}, NEW baseline \in Nat
  PROVE  ScaleTokens(observed, calls, baseline) \in Nat
<1>1. observed * baseline \in Nat
  OBVIOUS
<1>2. PICK x \in Nat : x = observed * baseline + calls - 1
  BY <1>1
<1>3. x \div calls \in Nat
  OBVIOUS
<1> QED BY <1>2, <1>3 DEF ScaleTokens

\* A trigger is projected to spend no less than it did.
LEMMA ProjectionKeepsObserved ==
  ASSUME NEW records \in Seq(Records), NEW C, C = Calls(records), NEW w, w = TokensOf(records, C),
         NEW key \in Keys(records)
  PROVE  /\ ProjectedTokens(records, key) \in Nat
         /\ Total(w, Grouped(records, key)) \in Nat
         /\ Total(w, Grouped(records, key)) <= ProjectedTokens(records, key)
<1>1. PICK G : G = Grouped(records, key)
  OBVIOUS
<1>2. G \in SUBSET C /\ G # {}
  BY <1>1 DEF Grouped, Keys
<1>3. Numbers(w, C) /\ Spent(records, G) = Total(w, G)
  BY <1>2, CallsAre
<1>4. IsFiniteSet(G) /\ Cardinality(G) \in Nat /\ Cardinality(G) # 0
  BY <1>2, <1>3, FS_Subset, FS_CardinalityType, FS_EmptySet DEF Numbers
<1>5. Numbers(w, G) /\ Total(w, G) \in Nat
  BY <1>2, <1>3, <1>4, TotalWithout DEF Numbers
<1>6. PICK observed \in Nat \ {0} : observed = Cardinality(G)
  BY <1>4
<1>7. PICK total \in Nat : total = Total(w, G)
  BY <1>5
<1>8. PICK cs : cs = CandidateCounts(records, key[1], key[3])
  OBVIOUS
<1>9. PICK N \in Nat : N = Cardinality(CandidateNpcs) + observed
  BY TelemetryAssumption, FS_CardinalityType
<1>10. observed \in 0..N /\ cs \in SUBSET (0..N)
  <2>1. Cardinality(CandidateNpcs) \in Nat
    BY TelemetryAssumption, FS_CardinalityType
  <2>2. \A c \in cs : c \in Nat /\ c <= Cardinality(CandidateNpcs)
    BY <1>8, CandidatesAre
  <2> QED BY <1>9, <2>1, <2>2
<1>11. PICK b \in Nat : b = BaselineCalls(observed, cs, key[2]) /\ b >= observed
  BY <1>10, BaselineKeepsObserved
<1>12. ProjectedTokens(records, key) = ScaleTokens(total, observed, b)
  BY <1>1, <1>3, <1>6, <1>7, <1>8, <1>11 DEF ProjectedTokens, Spent
<1>13. ScaleTokens(total, observed, b) \in Nat /\ total <= ScaleTokens(total, observed, b)
  BY <1>11, ScaledIsNumber, ScaleKeepsObserved
<1> QED BY <1>1, <1>7, <1>12, <1>13

\* The triggers of a log are finitely many, each with a number of tokens projected.
LEMMA ProjectedAre ==
  ASSUME NEW records \in Seq(Records), NEW K, K = Keys(records)
  PROVE  Numbers(Projected(records, K), K)
<1>1. PICK C : C = Calls(records)
  OBVIOUS
<1>2. PICK w : w = TokensOf(records, C)
  OBVIOUS
<1>3. IsFiniteSet(C)
  BY <1>1, <1>2, CallsAre DEF Numbers
<1>4. PICK p : p = [i \in C |-> Key(records[i])]
  OBVIOUS
<1>5. p \in Surjection(C, K)
  BY <1>1, <1>4 DEF Keys, Surjection
<1>6. IsFiniteSet(K)
  BY <1>3, <1>5, FS_Surjection
<1>7. \A k \in K : ProjectedTokens(records, k) \in Nat
  BY <1>1, <1>2, ProjectionKeepsObserved
<1> QED BY <1>6, <1>7 DEF Numbers, Projected

\* The triggers together are projected to spend no less than all calls did.
LEMMA ProjectionKeepsAll ==
  ASSUME NEW records \in Seq(Records), NEW C, C = Calls(records), NEW w, w = TokensOf(records, C)
  PROVE  ProjectedUsage(records) \in Nat /\ Total(w, C) <= ProjectedUsage(records)
<1>1. Numbers(w, C) /\ IsFiniteSet(C)
  BY CallsAre DEF Numbers
<1>2. PICK K : K = Keys(records)
  OBVIOUS
<1>3. PICK p : p = [i \in C |-> Key(records[i])]
  OBVIOUS
<1>4. p \in [C -> K]
  BY <1>2, <1>3 DEF Keys
<1>5. Numbers(Projected(records, K), K) /\ IsFiniteSet(K)
  BY <1>2, ProjectedAre DEF Numbers
<1>6. \A k \in K : Group(C, p, k) = Grouped(records, k)
  BY <1>3 DEF Group, Grouped
<1>7. PICK u : u = [k \in K |-> Total(w, Group(C, p, k))]
  OBVIOUS
<1>8. Numbers(u, K) /\ Total(u, K) = Total(w, C)
  BY <1>1, <1>4, <1>5, <1>7, TotalByGroups
<1>9. PICK v : v = Projected(records, K)
  OBVIOUS
<1>10. \A k \in K : v[k] \in Nat /\ u[k] \in Nat /\ u[k] <= v[k] /\ v[k] = 1 * v[k]
  <2> SUFFICES ASSUME NEW k \in K PROVE v[k] \in Nat /\ u[k] \in Nat /\ u[k] <= v[k]
    OBVIOUS
  <2>1. v[k] = ProjectedTokens(records, k)
    BY <1>9 DEF Projected
  <2>2. u[k] = Total(w, Grouped(records, k))
    BY <1>6, <1>7
  <2> QED BY <1>2, <2>1, <2>2, ProjectionKeepsObserved
<1>11. Numbers(v, K)
  BY <1>5, <1>9
<1>12. ProjectedUsage(records) = Total(v, K)
  BY <1>2, <1>9, <1>11, ProjectedAreTotal DEF ProjectedUsage
<1>13. Total(v, K) \in Nat
  BY <1>11, TotalWithout
<1>14. PICK one \in Nat : one = 1
  OBVIOUS
<1>15. \A k \in K : u[k] <= one * v[k]
  BY <1>10, <1>14
<1>16. Total(u, K) <= one * Total(v, K)
  BY <1>8, <1>11, <1>15, TotalAtMost
<1>17. one * Total(v, K) = Total(v, K)
  BY <1>13, <1>14
<1> QED BY <1>8, <1>12, <1>13, <1>16, <1>17

\* What the calls of each model cost is a number.
LEMMA CostsAre ==
  ASSUME NEW records \in Seq(Records)
  PROVE  Numbers(Costs(records, Models), Models)
<1>1. PICK C : C = Calls(records)
  OBVIOUS
<1>2. PICK w : w = TokensOf(records, C)
  OBVIOUS
<1>3. Numbers(w, C) /\ \A S \in SUBSET C : Spent(records, S) = Total(w, S)
  BY <1>1, <1>2, CallsAre
<1>4. ASSUME NEW m \in Models PROVE ModelCost(records, m) \in Nat
  <2>1. PICK G : G = {i \in Calls(records) : records[i].model = m}
    OBVIOUS
  <2>2. G \in SUBSET C
    BY <1>1, <2>1
  <2>3. Numbers(w, G)
    BY <1>3, <2>2, FS_Subset DEF Numbers
  <2>4. PICK t \in Nat : t = Spent(records, G)
    BY <1>3, <2>2, <2>3, TotalWithout
  <2>5. ModelCost(records, m) = Rate[m] * t
    BY <2>1, <2>4 DEF ModelCost, Spent
  <2> QED BY <2>5, TelemetryAssumption
<1> QED BY <1>4, TelemetryAssumption DEF Numbers, Costs

\* Under the dearest price, no model's calls cost less than they did.
LEMMA StrongCostsMost ==
  ASSUME \A m \in Models : Rate[m] <= Rate[StrongModel],
         NEW records \in Seq(Records), NEW C, C = Calls(records), NEW w, w = TokensOf(records, C)
  PROVE  ActualRouted(records) \in Nat /\ ActualRouted(records) <= Rate[StrongModel] * Total(w, C)
<1>1. /\ Numbers(w, C)
      /\ \A i \in C : records[i].model \in Models
      /\ \A S \in SUBSET C : Spent(records, S) = Total(w, S)
  BY CallsAre
<1>2. PICK M : M = Models /\ IsFiniteSet(M)
  BY TelemetryAssumption
<1>3. PICK p : p = [i \in C |-> records[i].model]
  OBVIOUS
<1>4. p \in [C -> M]
  BY <1>1, <1>2, <1>3
<1>5. PICK u : u = [m \in M |-> Total(w, Group(C, p, m))]
  OBVIOUS
<1>6. Numbers(u, M) /\ Total(u, M) = Total(w, C)
  BY <1>1, <1>2, <1>4, <1>5, TotalByGroups
<1>7. PICK v : v = Costs(records, M)
  OBVIOUS
<1>8. PICK r \in Nat : r = Rate[StrongModel] /\ \A m \in M : Rate[m] \in Nat /\ Rate[m] <= r
  BY <1>2, TelemetryAssumption
<1>9. ASSUME NEW m \in M PROVE v[m] \in Nat /\ v[m] <= r * u[m]
  <2>1. PICK G : G = {i \in Calls(records) : records[i].model = m}
    OBVIOUS
  <2>2. G = Group(C, p, m) /\ G \in SUBSET C
    BY <1>3, <2>1 DEF Group
  <2>3. v[m] = Rate[m] * Spent(records, G)
    BY <1>7, <2>1 DEF Costs, ModelCost, Spent
  <2>4. PICK a \in Nat, b \in Nat : a = Rate[m] /\ b = u[m] /\ a <= r
    BY <1>6, <1>8 DEF Numbers
  <2>5. v[m] = a * b
    BY <1>1, <1>5, <2>2, <2>3, <2>4
  <2>6. a * b \in Nat /\ a * b <= r * b
    BY <2>4
  <2> QED BY <2>4, <2>5, <2>6
<1>10. Numbers(v, M)
  BY <1>2, <1>7, CostsAre
<1>11. ActualRouted(records) = Total(v, M)
  BY <1>2, <1>7, <1>10, CostsAreTotal DEF ActualRouted
<1>12. Total(v, M) \in Nat
  BY <1>10, TotalWithout
<1>13. Total(v, M) <= r * Total(u, M)
  BY <1>6, <1>9, <1>10, TotalAtMost
<1> QED BY <1>6, <1>8, <1>11, <1>12, <1>13

\* At prices none of which exceeds the strong model's, routing never seems to cost
\* more than calling every candidate on the strong model: for every log, of a run
\* that goes on or died, and every number of calls, candidates and sessions.
THEOREM RoutingNeverCostsMore ==
  ASSUME \A m \in Models : Rate[m] <= Rate[StrongModel]
  PROVE  RunSpec => []SavingsNotNegative
<1>1. ASSUME RunTypeOK PROVE SavingsNotNegative
  <2>1. PICK C : C = Calls(log)
    OBVIOUS
  <2>2. PICK w : w = TokensOf(log, C)
    OBVIOUS
  <2>3. log \in Seq(Records)
    BY <1>1 DEF RunTypeOK
  <2>4. PICK a \in Nat, p \in Nat, r \in Nat :
          a = ActualRouted(log) /\ p = ProjectedUsage(log) /\ r = Rate[StrongModel]
    BY <2>1, <2>2, <2>3, StrongCostsMost, ProjectionKeepsAll, TelemetryAssumption
  <2>5. PICK t \in Nat : t = Total(w, C)
    BY <2>1, <2>2, <2>3, CallsAre, TotalWithout
  <2>6. a <= r * t
    BY <2>1, <2>2, <2>3, <2>4, <2>5, StrongCostsMost
  <2>7. t <= p
    BY <2>1, <2>2, <2>3, <2>4, <2>5, ProjectionKeepsAll
  <2>8. r * t <= r * p /\ r * t \in Nat /\ r * p \in Nat
    BY <2>7
  <2>9. r * p - a >= 0
    BY <2>6, <2>8
  <2> QED BY <2>4, <2>9 DEF SavingsNotNegative, Savings, ProjectedBaseline
<1> QED BY <1>1, RunTyped, PTL

-----------------------------------------------------------------------------
(* The log and the history tell the same records, in their orders.         *)

\* One numbering of the same things for another.
Renaming(p, A, B) ==
  /\ p \in [A -> B]
  /\ \A i, j \in A : p[i] = p[j] => i = j
  /\ \A k \in B : \E i \in A : p[i] = k

\* There are as many things under either numbering.
LEMMA RenamedCount ==
  ASSUME NEW p, NEW A, NEW B, Renaming(p, A, B), IsFiniteSet(A)
  PROVE  IsFiniteSet(B) /\ Cardinality(A) = Cardinality(B)
<1>1. p \in Bijection(A, B)
  BY DEF Renaming, Bijection, Injection, Surjection, IsInjective
<1>2. ExistsBijection(A, B)
  BY <1>1 DEF ExistsBijection
<1> QED BY <1>2, FS_Bijection

\* A part of the things is renamed with them.
Corresponds(p, A, T, B, U) ==
  T \subseteq A /\ U \subseteq B /\ \A i \in A : i \in T <=> p[i] \in U

\* A numbering of a part is that of all.
LEMMA PartRenamed ==
  ASSUME NEW p, NEW A, NEW B, Renaming(p, A, B), NEW T, NEW U, Corresponds(p, A, T, B, U)
  PROVE  \E q : Renaming(q, T, U) /\ \A i \in T : q[i] = p[i]
<1>1. PICK q : q = [i \in T |-> p[i]]
  OBVIOUS
<1>2. Renaming(q, T, U)
  BY <1>1 DEF Renaming, Corresponds
<1> QED BY <1>1, <1>2

\* A part has as many things under either numbering.
LEMMA PartCount ==
  ASSUME NEW p, NEW A, NEW B, Renaming(p, A, B), IsFiniteSet(A),
         NEW T, NEW U, Corresponds(p, A, T, B, U)
  PROVE  IsFiniteSet(T) /\ IsFiniteSet(U) /\ Cardinality(T) = Cardinality(U)
<1>1. IsFiniteSet(T)
  BY FS_Subset DEF Corresponds
<1> QED BY <1>1, PartRenamed, RenamedCount

\* The records of a type in one log are those of another, in the same order.
SameRecords(p, a, b, type) ==
  /\ Renaming(p, Having(type, a), Having(type, b))
  /\ \A i \in Having(type, a) :
       /\ a[i] = b[p[i]]
       /\ \A j \in Having(type, a) : i < j => p[i] < p[j]

\* One log tells the records of a type that another does.
Tells(a, b, type) == \E p : SameRecords(p, a, b, type)

\* The records of a type in a log that grows.
Grown(a, b, n, r, type) ==
  /\ n \in Nat /\ b[n] = r
  /\ Having(type, b) = IF r.type = type THEN Having(type, a) \cup {n} ELSE Having(type, a)
  /\ \A i \in Having(type, a) : i \in Nat /\ i < n /\ b[i] = a[i]

\* A record appended is the last, and the earlier ones stay where they were.
LEMMA AppendGrows ==
  ASSUME NEW S, NEW a \in Seq(S), NEW r \in S, NEW type
  PROVE  Grown(a, Append(a, r), Len(a) + 1, r, type)
<1>1. PICK b : b = Append(a, r)
  OBVIOUS
<1>2. PICK n : n = Len(a) + 1
  OBVIOUS
<1>3. /\ n \in Nat /\ b[n] = r /\ DOMAIN b = DOMAIN a \cup {n}
      /\ \A i \in DOMAIN a : i \in Nat /\ i < n /\ b[i] = a[i]
  BY <1>1, <1>2
<1>4. Grown(a, b, n, r, type)
  BY <1>3 DEF Having, Grown
<1> QED BY <1>1, <1>2, <1>4

\* A record appended to both logs is told by both.
LEMMA TellsAppended ==
  ASSUME NEW S, NEW a \in Seq(S), NEW b \in Seq(S), NEW type, Tells(a, b, type),
         NEW r \in S, r.type = type
  PROVE  Tells(Append(a, r), Append(b, r), type)
<1>1. PICK p : SameRecords(p, a, b, type)
  BY DEF Tells
<1>2. PICK c : c = Append(a, r)
  OBVIOUS
<1>3. PICK d : d = Append(b, r)
  OBVIOUS
<1>4. PICK n : n = Len(a) + 1
  OBVIOUS
<1>5. PICK m : m = Len(b) + 1
  OBVIOUS
<1>6. PICK A : A = Having(type, a)
  OBVIOUS
<1>7. PICK B : B = Having(type, b)
  OBVIOUS
<1>8. /\ n \in Nat /\ c[n] = r /\ Having(type, c) = A \cup {n}
      /\ \A i \in A : i \in Nat /\ i < n /\ c[i] = a[i]
  <2>1. Grown(a, c, n, r, type)
    BY <1>2, <1>4, AppendGrows
  <2> QED BY <1>6, <2>1 DEF Grown
<1>9. /\ m \in Nat /\ d[m] = r /\ Having(type, d) = B \cup {m}
      /\ \A i \in B : i \in Nat /\ i < m /\ d[i] = b[i]
  <2>1. Grown(b, d, m, r, type)
    BY <1>3, <1>5, AppendGrows
  <2> QED BY <1>7, <2>1 DEF Grown
<1>10. PICK q : q = [i \in A \cup {n} |-> IF i = n THEN m ELSE p[i]]
  OBVIOUS
<1>11. /\ q[n] = m /\ \A i \in A : q[i] = p[i] /\ p[i] \in B /\ a[i] = b[p[i]] /\ i # n
       /\ \A i, j \in A : (p[i] = p[j] => i = j) /\ (i < j => p[i] < p[j])
       /\ \A k \in B : \E i \in A : p[i] = k
  BY <1>1, <1>6, <1>7, <1>8, <1>10 DEF SameRecords, Renaming
<1>12. Renaming(q, A \cup {n}, B \cup {m})
  <2>1. q \in [A \cup {n} -> B \cup {m}]
    BY <1>10, <1>11
  <2>2. \A i, j \in A \cup {n} : q[i] = q[j] => i = j
    BY <1>9, <1>11
  <2>3. \A k \in B \cup {m} : \E i \in A \cup {n} : q[i] = k
    BY <1>11
  <2> QED BY <2>1, <2>2, <2>3 DEF Renaming
<1>13. ASSUME NEW i \in A \cup {n}
       PROVE  c[i] = d[q[i]] /\ \A j \in A \cup {n} : i < j => q[i] < q[j]
  <2>1. c[i] = d[q[i]]
    BY <1>8, <1>9, <1>11
  <2>2. ASSUME NEW j \in A \cup {n}, i < j PROVE q[i] < q[j]
    BY <1>8, <1>9, <1>11, <2>2
  <2> QED BY <2>1, <2>2
<1>14. SameRecords(q, c, d, type)
  BY <1>8, <1>9, <1>12, <1>13 DEF SameRecords
<1> QED BY <1>2, <1>3, <1>14 DEF Tells

\* A record of another type in the history changes nothing of what a log tells.
LEMMA TellsBeside ==
  ASSUME NEW S, NEW a, NEW b \in Seq(S), NEW type, Tells(a, b, type),
         NEW r \in S, r.type # type
  PROVE  Tells(a, Append(b, r), type)
<1>1. PICK p : SameRecords(p, a, b, type)
  BY DEF Tells
<1>2. PICK d : d = Append(b, r)
  OBVIOUS
<1>3. PICK m : m = Len(b) + 1
  OBVIOUS
<1>4. /\ Having(type, d) = Having(type, b) /\ \A i \in Having(type, b) : d[i] = b[i]
  <2>1. Grown(b, d, m, r, type)
    BY <1>2, <1>3, AppendGrows
  <2> QED BY <2>1 DEF Grown
<1>5. \A i \in Having(type, a) : p[i] \in Having(type, b)
  BY <1>1 DEF SameRecords, Renaming
<1>6. SameRecords(p, a, d, type)
  BY <1>1, <1>4, <1>5 DEF SameRecords
<1> QED BY <1>2, <1>6 DEF Tells

\* A log with another appended.
Joined(a, b, c, n, type) ==
  /\ n \in Nat
  /\ Having(type, b) = {} => Having(type, c) = Having(type, a)
  /\ \A i \in Having(type, a) : c[i] = a[i]
  /\ \A i \in Having(type, b) : i \in Nat /\ n + i \in Having(type, c) /\ c[n + i] = b[i]
  /\ \A k \in Having(type, c) : k \in Having(type, a) \/ \E i \in Having(type, b) : k = n + i

\* The flush leaves the records of the log and the results in their orders.
LEMMA ConcatJoins ==
  ASSUME NEW S, NEW a \in Seq(S), NEW b \in Seq(S), NEW type
  PROVE  Joined(a, b, a \o b, Len(a), type)
<1>1. PICK c : c = a \o b
  OBVIOUS
<1>2. PICK n \in Nat : n = Len(a)
  OBVIOUS
<1>3. PICK m \in Nat : m = Len(b)
  OBVIOUS
<1>4. /\ DOMAIN a = 1..n /\ DOMAIN b = 1..m /\ DOMAIN c = 1..(n + m)
      /\ \A k \in 1..(n + m) : c[k] = IF k <= n THEN a[k] ELSE b[k - n]
  BY <1>1, <1>2, <1>3
<1>5. ASSUME NEW k \in 1..(n + m), k > n PROVE \E i \in 1..m : k = n + i /\ c[k] = b[i]
  <2>1. k - n \in 1..m /\ k = n + (k - n) /\ ~(k <= n)
    BY <1>5
  <2> QED BY <1>4, <2>1
<1>6. ASSUME NEW i \in 1..m PROVE n + i \in 1..(n + m) /\ c[n + i] = b[i] /\ i \in Nat
  <2>1. n + i \in 1..(n + m) /\ ~(n + i <= n) /\ (n + i) - n = i
    OBVIOUS
  <2> QED BY <1>4, <2>1
<1>7. ASSUME NEW i \in 1..n PROVE i \in 1..(n + m) /\ c[i] = a[i]
  BY <1>4
<1>8. \A k \in 1..(n + m) : k \in 1..n \/ k > n
  OBVIOUS
<1>9. Joined(a, b, c, n, type)
  <2>1. Having(type, a) = {i \in 1..n : a[i].type = type}
    BY <1>4 DEF Having
  <2>2. Having(type, b) = {i \in 1..m : b[i].type = type}
    BY <1>4 DEF Having
  <2>3. Having(type, c) = {i \in 1..(n + m) : c[i].type = type}
    BY <1>4 DEF Having
  <2>4. \A i \in Having(type, b) : i \in Nat /\ n + i \in Having(type, c) /\ c[n + i] = b[i]
    BY <1>6, <2>2, <2>3
  <2>5. \A k \in Having(type, c) : k \in Having(type, a) \/ \E i \in Having(type, b) : k = n + i
    BY <1>5, <1>7, <1>8, <2>1, <2>2, <2>3
  <2>6. \A i \in Having(type, a) : i \in Having(type, c) /\ c[i] = a[i]
    BY <1>7, <2>1, <2>3
  <2>7. Having(type, b) = {} => Having(type, c) = Having(type, a)
    BY <2>5, <2>6
  <2> QED BY <2>4, <2>5, <2>6, <2>7 DEF Joined
<1> QED BY <1>1, <1>2, <1>9

\* The log tells what it told before the results were appended.
LEMMA TellsFirst ==
  ASSUME NEW S, NEW a \in Seq(S), NEW b \in Seq(S), NEW d, NEW type,
         Tells(a, d, type), Having(type, b) = {}
  PROVE  Tells(a \o b, d, type)
<1>1. PICK c : c = a \o b
  OBVIOUS
<1>2. PICK n : n = Len(a)
  OBVIOUS
<1>3. Joined(a, b, c, n, type)
  BY <1>1, <1>2, ConcatJoins
<1>4. PICK p : SameRecords(p, a, d, type)
  BY DEF Tells
<1>5. SameRecords(p, c, d, type)
  BY <1>3, <1>4 DEF SameRecords, Joined
<1> QED BY <1>1, <1>5 DEF Tells

\* With the results appended the log tells what they told.
LEMMA TellsLast ==
  ASSUME NEW S, NEW a \in Seq(S), NEW b \in Seq(S), NEW d, NEW type,
         Tells(b, d, type), Having(type, a) = {}
  PROVE  Tells(a \o b, d, type)
<1>1. PICK c : c = a \o b
  OBVIOUS
<1>2. PICK n : n = Len(a)
  OBVIOUS
<1>3. Joined(a, b, c, n, type)
  BY <1>1, <1>2, ConcatJoins
<1>4. PICK p : SameRecords(p, b, d, type)
  BY DEF Tells
<1>5. PICK C : C = Having(type, c)
  OBVIOUS
<1>6. PICK B : B = Having(type, b)
  OBVIOUS
<1>7. PICK D : D = Having(type, d)
  OBVIOUS
<1>8. /\ n \in Nat /\ \A i \in B : i \in Nat /\ n + i \in C /\ c[n + i] = b[i]
      /\ \A k \in C : \E i \in B : k = n + i
  BY <1>3, <1>5, <1>6 DEF Joined
<1>9. /\ \A i \in B : p[i] \in D /\ b[i] = d[p[i]]
      /\ \A i, j \in B : (p[i] = p[j] => i = j) /\ (i < j => p[i] < p[j])
      /\ \A k \in D : \E i \in B : p[i] = k
  BY <1>4, <1>6, <1>7 DEF SameRecords, Renaming
<1>10. PICK q : q = [k \in C |-> p[k - n]]
  OBVIOUS
<1>11. \A i \in B : q[n + i] = p[i]
  <2> SUFFICES ASSUME NEW i \in B PROVE q[n + i] = p[i]
    OBVIOUS
  <2>1. (n + i) - n = i /\ n + i \in C
    BY <1>8
  <2> QED BY <1>10, <2>1
<1>12. Renaming(q, C, D)
  <2>1. q \in [C -> D]
    <3>1. \A k \in C : q[k] \in D
      BY <1>8, <1>9, <1>11
    <3> QED BY <1>10, <3>1
  <2>2. \A i, j \in C : q[i] = q[j] => i = j
    BY <1>8, <1>9, <1>11
  <2>3. \A k \in D : \E i \in C : q[i] = k
    BY <1>8, <1>9, <1>11
  <2> QED BY <2>1, <2>2, <2>3 DEF Renaming
<1>13. \A i \in C : c[i] = d[q[i]] /\ \A j \in C : i < j => q[i] < q[j]
  <2> SUFFICES ASSUME NEW i \in B, NEW j \in B
               PROVE  c[n + i] = d[q[n + i]] /\ (n + i < n + j => q[n + i] < q[n + j])
    BY <1>8
  <2>1. n + i < n + j => i < j
    BY <1>8
  <2> QED BY <1>8, <1>9, <1>11, <2>1
<1>14. SameRecords(q, c, d, type)
  BY <1>5, <1>7, <1>12, <1>13 DEF SameRecords
<1> QED BY <1>1, <1>14 DEF Tells

\* The calls of a log, collected record by record.
IsCall(r) == r.type = "model_call"

\* The calls after each record.
Collects(t, n, s) ==
  /\ t \in [0..n -> Seq(Records)] /\ t[0] = << >>
  /\ \A i \in 1..n : t[i] = IF IsCall(s[i]) THEN Append(t[i - 1], s[i]) ELSE t[i - 1]

\* The calls shown are those after the last record.
LEMMA ModelCallsIs ==
  ASSUME NEW s \in Seq(Records)
  PROVE  \E t : Collects(t, Len(s), s) /\ ModelCalls(s) = t[Len(s)]
<1> DEFINE n == Len(s)
           V == Seq(Records)
<1>1. n \in Nat /\ DOMAIN s = 1..n /\ \A i \in 1..n : s[i] \in Records
  OBVIOUS
<1> HIDE DEF n
<1>2. PICK G : G = [i \in 1..n |-> [v \in V |->
                     IF s[i].type = "model_call" THEN Append(v, s[i]) ELSE v]]
  OBVIOUS
<1>3. IsStep(n, V, << >>, G)
  BY <1>1, <1>2 DEF IsStep
<1>4. PICK h : IsLeftFold(h, n, V, << >>, G)
  BY <1>1, <1>3, LeftFoldHasSolution
<1> DEFINE Left(f, T) ==
      IF T = {} THEN << >>
      ELSE IF s[Max(T)].type = "model_call" THEN Append(f[T \ {Max(T)}], s[Max(T)])
      ELSE f[T \ {Max(T)}]
           f == CHOOSE f : f = [T \in SUBSET (1..n) |-> Left(f, T)]
<1>5. h = [T \in SUBSET (1..n) |-> Left(h, T)]
  BY <1>2, <1>4, Zenon DEF IsLeftFold
<1>6. f = [T \in SUBSET (1..n) |-> Left(f, T)]
  BY <1>5, Zenon
<1>7. ModelCalls(s) = f[1..n]
  BY <1>1 DEF ModelCalls, FoldLeft, MapThenFoldSet
<1> HIDE DEF f
<1>8. IsLeftStep(f, n, V, << >>, G)
  <2>1. \A T \in SUBSET (1..n) : T # {} => Max(T) \in 1..n
    BY <1>4 DEF IsLeftFold
  <2> QED BY <1>2, <1>6, <2>1 DEF IsLeftStep
<1>9. PICK t : Unrolled(t, n, V, << >>, G) /\ f[1..n] = t[n]
  BY <1>1, <1>3, <1>8, LeftFoldIs
<1>10. ASSUME NEW i \in 1..n
       PROVE  t[i] = IF IsCall(s[i]) THEN Append(t[i - 1], s[i]) ELSE t[i - 1]
  <2>1. i - 1 \in 0..n /\ t[i - 1] \in V
    BY <1>1, <1>9 DEF Unrolled
  <2>2. t[i] = G[i][t[i - 1]]
    BY <1>9 DEF Unrolled
  <2>3. G[i] = [v \in V |-> IF s[i].type = "model_call" THEN Append(v, s[i]) ELSE v]
    BY <1>2
  <2> QED BY <2>1, <2>2, <2>3 DEF IsCall
<1> QED BY <1>7, <1>9, <1>10 DEF Unrolled, Collects, n

\* What is collected from a log does not depend on what follows it.
LEMMA CollectsAgree ==
  ASSUME NEW n \in Nat, NEW m \in Nat, n <= m, NEW a, NEW c, NEW t, NEW u,
         Collects(t, n, a), Collects(u, m, c), \A i \in 1..n : a[i] = c[i]
  PROVE  t[n] = u[n]
<1> DEFINE P == {i \in 0..n : t[i] = u[i]}
<1>1. 0 \in P
  BY DEF Collects
<1>2. ASSUME NEW i \in 1..n, i - 1 \in P PROVE i \in P
  <2>1. t[i - 1] = u[i - 1] /\ i \in 1..m
    BY <1>2
  <2>2. t[i] = IF IsCall(a[i]) THEN Append(t[i - 1], a[i]) ELSE t[i - 1]
    BY DEF Collects
  <2>3. u[i] = IF IsCall(c[i]) THEN Append(u[i - 1], c[i]) ELSE u[i - 1]
    BY <2>1 DEF Collects
  <2>4. t[i] = u[i]
    BY <2>1, <2>2, <2>3
  <2> QED BY <2>4
<1> HIDE DEF P
<1>3. \A i \in 0..n : i \in P
  BY <1>1, <1>2, Counting
<1> QED BY <1>3 DEF P

\* No call is recorded after the first n.
Silent(c, n, m) == \A i \in 1..m : i > n => ~IsCall(c[i])

\* Records without a call add none.
LEMMA CollectsNoMore ==
  ASSUME NEW n \in Nat, NEW m \in Nat, n <= m, NEW c, NEW u, Collects(u, m, c),
         Silent(c, n, m)
  PROVE  u[m] = u[n]
<1> DEFINE P == {i \in 0..m : i <= n \/ u[i] = u[n]}
<1>1. 0 \in P
  OBVIOUS
<1>2. ASSUME NEW i \in 1..m, i - 1 \in P PROVE i \in P
  <2>1. CASE i <= n
    BY <2>1
  <2>2. CASE i > n
    <3>1. u[i] = u[i - 1]
      BY <2>2 DEF Collects, Silent
    <3>2. i - 1 = n \/ ~(i - 1 <= n)
      BY <2>2
    <3>3. u[i - 1] = u[n]
      BY <1>2, <3>2
    <3> QED BY <3>1, <3>3
  <2> QED BY <2>1, <2>2
<1> HIDE DEF P
<1>3. \A i \in 0..m : i \in P
  BY <1>1, <1>2, Counting
<1>4. m \in P
  BY <1>3
<1> QED BY <1>4 DEF P

\* A call appended to the log is the last of its calls.
LEMMA ModelCallsAppended ==
  ASSUME NEW s \in Seq(Records), NEW r \in Records
  PROVE  ModelCalls(Append(s, r)) = IF IsCall(r) THEN Append(ModelCalls(s), r) ELSE ModelCalls(s)
<1>0. PICK c : c = Append(s, r)
  OBVIOUS
<1>1. c = Append(s, r) /\ c \in Seq(Records)
  BY <1>0
<1>2. PICK n \in Nat : n = Len(s)
  OBVIOUS
<1>3. PICK m \in Nat : m = n + 1
  OBVIOUS
<1>4. Len(c) = m /\ c[m] = r /\ m - 1 = n /\ n <= m /\ m \in 1..m /\ \A i \in 1..n : s[i] = c[i]
  BY <1>1, <1>2, <1>3
<1>5. PICK t : Collects(t, n, s) /\ ModelCalls(s) = t[n]
  BY <1>2, ModelCallsIs
<1>6. PICK u : Collects(u, m, c) /\ ModelCalls(c) = u[m]
  BY <1>1, <1>4, ModelCallsIs
<1>7. t[n] = u[n]
  BY <1>4, <1>5, <1>6, CollectsAgree
<1>8. u[m] = IF IsCall(c[m]) THEN Append(u[m - 1], c[m]) ELSE u[m - 1]
  BY <1>4, <1>6 DEF Collects
<1>9. u[m] = IF IsCall(r) THEN Append(u[n], r) ELSE u[n]
  BY <1>4, <1>8
<1> QED BY <1>1, <1>5, <1>6, <1>7, <1>9

\* The routings that the flush appends are not among the calls.
LEMMA ModelCallsJoined ==
  ASSUME NEW a \in Seq(Records), NEW b \in Seq(Records), Calls(b) = {}
  PROVE  ModelCalls(a \o b) = ModelCalls(a)
<1>0. PICK c : c = a \o b
  OBVIOUS
<1>1. c = a \o b /\ c \in Seq(Records)
  BY <1>0
<1>2. PICK n \in Nat : n = Len(a)
  OBVIOUS
<1>3. PICK m \in Nat : m = Len(c)
  BY <1>1
<1>4. PICK k \in Nat : k = Len(b) /\ DOMAIN b = 1..k /\ m = n + k
  BY <1>1, <1>2, <1>3
<1>5. n <= m /\ \A i \in 1..n : a[i] = c[i]
  BY <1>1, <1>2, <1>3, <1>4
<1>6. ASSUME NEW i \in 1..m, i > n PROVE ~IsCall(c[i])
  <2>1. i - n \in 1..k
    BY <1>4, <1>6
  <2>2. c[i] = b[i - n]
    BY <1>1, <1>2, <1>3, <1>4, <1>6
  <2>3. ~(b[i - n].type = "model_call")
    BY <1>4, <2>1 DEF Calls, Having
  <2> QED BY <2>2, <2>3 DEF IsCall
<1>7. PICK t : Collects(t, n, a) /\ ModelCalls(a) = t[n]
  BY <1>2, ModelCallsIs
<1>8. PICK u : Collects(u, m, c) /\ ModelCalls(c) = u[m]
  BY <1>1, <1>3, ModelCallsIs
<1>9. t[n] = u[n]
  BY <1>5, <1>7, <1>8, CollectsAgree
<1>10. Silent(c, n, m)
  BY <1>6 DEF Silent
<1>11. u[m] = u[n]
  BY <1>5, <1>8, <1>10, CollectsNoMore
<1> QED BY <1>1, <1>7, <1>8, <1>9, <1>11

\* Up to the flush the log has the calls and the results wait with the routings;
\* each tells its part of the history in the order it happened.
FlushFits ==
  /\ RunTypeOK /\ Calls(results) = {}
  /\ Tells(log, facts, "model_call") /\ ModelCalls(log) = ModelCalls(facts)
  /\ ~flushed => Routings(log) = {} /\ Tells(results, facts, "routing_result")
  /\ flushed => Tells(log, facts, "routing_result")

\* A run starts with nothing to tell.
LEMMA RunStarts ==
  ASSUME RunInit
  PROVE  FlushFits
<1>1. RunTypeOK
  BY RunTypeInit
<1>2. /\ Having("model_call", log) = {} /\ Having("model_call", facts) = {}
      /\ Having("routing_result", results) = {} /\ Having("routing_result", facts) = {}
      /\ Having("model_call", results) = {} /\ Having("routing_result", log) = {}
  BY DEF RunInit, Having, Metadata
<1>3. \A a, b, type : Having(type, a) = {} /\ Having(type, b) = {} => Tells(a, b, type)
  <2> SUFFICES ASSUME NEW a, NEW b, NEW type, Having(type, a) = {}, Having(type, b) = {}
               PROVE  \E p : SameRecords(p, a, b, type)
    BY DEF Tells
  <2>1. PICK p : p = [i \in {} |-> 0]
    OBVIOUS
  <2>2. SameRecords(p, a, b, type)
    BY <2>1 DEF SameRecords, Renaming
  <2> QED BY <2>2
<1> QED BY <1>1, <1>2, <1>3 DEF FlushFits, RunInit, Calls, Routings

\* Every step of a run keeps the log and the results in step with the history.
LEMMA RunSteps ==
  ASSUME FlushFits, [RunNext]_runVars
  PROVE  FlushFits'
<1>1. RunTypeOK'
  BY RunTypeStep DEF FlushFits
<1>2. log \in Seq(Records) /\ results \in Seq(Records) /\ facts \in Seq(Records)
  BY DEF FlushFits, RunTypeOK
<1>3. ASSUME NEW r, TellsRouting(r) PROVE FlushFits'
  <2>1. /\ r \in Records /\ results' = Append(results, r) /\ facts' = Append(facts, r)
        /\ log' = log /\ ~flushed /\ ~flushed' /\ r.type = "routing_result"
    BY <1>3 DEF TellsRouting
  <2>2. r.type # "model_call"
    BY <2>1
  <2>3. Tells(log, facts, "model_call") /\ Tells(results, facts, "routing_result")
    BY <2>1 DEF FlushFits
  <2>4. Tells(log, Append(facts, r), "model_call")
    BY <1>2, <2>1, <2>2, <2>3, TellsBeside
  <2>5. Tells(Append(results, r), Append(facts, r), "routing_result")
    BY <1>2, <2>1, <2>3, TellsAppended
  <2>6. ModelCalls(Append(facts, r)) = ModelCalls(facts)
    BY <1>2, <2>1, <2>2, ModelCallsAppended DEF IsCall
  <2>7. Having("model_call", Append(results, r)) = {}
    <3>1. Grown(results, Append(results, r), Len(results) + 1, r, "model_call")
      BY <1>2, <2>1, AppendGrows
    <3> QED BY <2>2, <3>1 DEF Grown, FlushFits, Calls
  <2>8. Calls(results') = {} /\ Routings(log') = {}
    BY <2>1, <2>7 DEF Calls, Routings, FlushFits
  <2>9. ModelCalls(log') = ModelCalls(facts')
    BY <2>1, <2>6 DEF FlushFits
  <2>10. Tells(log', facts', "model_call") /\ Tells(results', facts', "routing_result")
    BY <2>1, <2>4, <2>5
  <2> QED BY <1>1, <2>1, <2>8, <2>9, <2>10 DEF FlushFits
<1>4. ASSUME NEW r, TellsCall(r) PROVE FlushFits'
  <2>1. /\ r \in Records /\ log' = Append(log, r) /\ facts' = Append(facts, r)
        /\ results' = results /\ ~flushed /\ ~flushed' /\ r.type = "model_call"
    BY <1>4 DEF TellsCall
  <2>2. r.type # "routing_result"
    BY <2>1
  <2>3. Tells(log, facts, "model_call") /\ Tells(results, facts, "routing_result")
    BY <2>1 DEF FlushFits
  <2>4. Tells(results, Append(facts, r), "routing_result")
    BY <1>2, <2>1, <2>2, <2>3, TellsBeside
  <2>5. Tells(Append(log, r), Append(facts, r), "model_call")
    BY <1>2, <2>1, <2>3, TellsAppended
  <2>6. /\ ModelCalls(Append(facts, r)) = Append(ModelCalls(facts), r)
        /\ ModelCalls(Append(log, r)) = Append(ModelCalls(log), r)
    BY <1>2, <2>1, ModelCallsAppended DEF IsCall
  <2>7. Having("routing_result", Append(log, r)) = {}
    <3>1. Grown(log, Append(log, r), Len(log) + 1, r, "routing_result")
      BY <1>2, <2>1, AppendGrows
    <3> QED BY <2>1, <2>2, <3>1 DEF Grown, FlushFits, Routings
  <2>8. Calls(results') = {} /\ Routings(log') = {}
    BY <2>1, <2>7 DEF Calls, Routings, FlushFits
  <2>9. ModelCalls(log') = ModelCalls(facts')
    BY <2>1, <2>6 DEF FlushFits
  <2>10. Tells(log', facts', "model_call") /\ Tells(results', facts', "routing_result")
    BY <2>1, <2>4, <2>5
  <2> QED BY <1>1, <2>1, <2>8, <2>9, <2>10 DEF FlushFits
<1>5. CASE Flush
  <2>1. log' = log \o results /\ results' = results /\ facts' = facts /\ flushed' /\ ~flushed
    BY <1>5 DEF Flush
  <2>2. Having("model_call", results) = {} /\ Having("routing_result", log) = {}
    BY <2>1 DEF FlushFits, Calls, Routings
  <2>3. Tells(log \o results, facts, "model_call")
    BY <1>2, <2>2, TellsFirst DEF FlushFits
  <2>4. Tells(log \o results, facts, "routing_result")
    BY <1>2, <2>1, <2>2, TellsLast DEF FlushFits
  <2>5. ModelCalls(log \o results) = ModelCalls(facts)
    BY <1>2, ModelCallsJoined DEF FlushFits
  <2>6. /\ Calls(results') = {} /\ ModelCalls(log') = ModelCalls(facts')
        /\ Tells(log', facts', "model_call") /\ Tells(log', facts', "routing_result")
    BY <2>1, <2>3, <2>4, <2>5 DEF FlushFits
  <2> QED BY <1>1, <2>1, <2>6 DEF FlushFits
<1>6. CASE UNCHANGED runVars
  <2>1. log' = log /\ results' = results /\ facts' = facts /\ flushed' = flushed
    BY <1>6 DEF runVars
  <2> QED BY <1>1, <2>1 DEF FlushFits
<1> QED BY <1>3, <1>4, <1>5, <1>6, RunStepIs

-----------------------------------------------------------------------------
(* The latest routing, and what a dashboard shows of the same records.     *)

\* Which of two routing records is the later, in both panels' orders.
Later(records, i, j) ==
  \/ records[i].sequence > records[j].sequence
  \/ records[i].sequence = records[j].sequence /\ i > j

\* The latest of some routings, and the one a panel chooses.
IsLatest(records, T, i) == i \in T /\ \A j \in T \ {i} : Later(records, i, j)

LatestOf(records, T) == CHOOSE i \in T : \A j \in T \ {i} : Later(records, i, j)

\* The routings of a log are finitely many, each with a sequence number.
LEMMA RoutingsAre ==
  ASSUME NEW records \in Seq(Records)
  PROVE  /\ IsFiniteSet(Routings(records))
         /\ \A i \in Routings(records) :
              /\ i \in Nat /\ records[i].sequence \in Nat
              /\ records[i] \in Records /\ records[i].type = "routing_result"
<1>1. PICK n \in Nat : n = Len(records) /\ DOMAIN records = 1..n /\ \A i \in 1..n : records[i] \in Records
  OBVIOUS
<1>2. Routings(records) \subseteq 1..n
  BY <1>1 DEF Routings, Having
<1>3. IsFiniteSet(1..n)
  BY FS_Interval
<1>4. ASSUME NEW i \in Routings(records)
      PROVE  /\ i \in Nat /\ records[i].sequence \in Nat
             /\ records[i] \in Records /\ records[i].type = "routing_result"
  <2>1. i \in 1..n /\ records[i].type = "routing_result"
    BY <1>1 DEF Routings, Having
  <2> QED BY <1>1, <2>1, RecordIs
<1> QED BY <1>2, <1>3, <1>4, FS_Subset

\* Of any routings of a log one is the latest, and no other is.
LEMMA LatestExists ==
  ASSUME NEW records \in Seq(Records), NEW T \in SUBSET Routings(records), T # {}
  PROVE  /\ IsLatest(records, T, LatestOf(records, T))
         /\ \A i : IsLatest(records, T, i) => i = LatestOf(records, T)
<1>1. /\ IsFiniteSet(Routings(records))
      /\ \A i \in Routings(records) : i \in Nat /\ records[i].sequence \in Nat
  BY RoutingsAre
<1> DEFINE R == Routings(records)
           Q == {U \in SUBSET R : U = {} \/ \E i : IsLatest(records, U, i)}
<1>2. {} \in Q
  OBVIOUS
<1>3. ASSUME NEW U \in SUBSET R, U # {}, \A x \in U : U \ {x} \in Q
      PROVE  U \in Q
  <2>1. PICK x \in U : TRUE
    BY <1>3
  <2>2. CASE U = {x}
    <3>1. IsLatest(records, U, x)
      BY <2>2 DEF IsLatest
    <3> QED BY <3>1
  <2>3. CASE U # {x}
    <3>1. PICK V : V = U \ {x}
      OBVIOUS
    <3>2. V \in SUBSET U /\ V # {} /\ U = V \cup {x} /\ x \notin V
      BY <2>1, <2>3, <3>1
    <3>3. PICK i : IsLatest(records, V, i)
      BY <1>3, <3>1, <3>2
    <3>4. i \in V /\ \A j \in V \ {i} : Later(records, i, j)
      BY <3>3 DEF IsLatest
    <3>5. \A j \in U : j \in Nat /\ records[j].sequence \in Nat
      BY <1>1
    <3>6. CASE Later(records, i, x)
      <4>1. IsLatest(records, U, i)
        BY <3>2, <3>4, <3>6 DEF IsLatest
      <4> QED BY <4>1
    <3>7. CASE ~Later(records, i, x)
      <4>1. Later(records, x, i)
        BY <3>2, <3>4, <3>5, <3>7 DEF Later
      <4>2. \A j \in V : Later(records, x, j)
        BY <3>2, <3>4, <3>5, <4>1 DEF Later
      <4>3. IsLatest(records, U, x)
        BY <3>2, <4>2 DEF IsLatest
      <4> QED BY <4>3
    <3> QED BY <3>6, <3>7
  <2> QED BY <2>2, <2>3
<1> HIDE DEF Q
<1>4. \A U \in SUBSET R : U \in Q
  BY <1>1, <1>2, <1>3, Growing
<1>5. PICK l : IsLatest(records, T, l)
  BY <1>4, Zenon DEF Q
<1>6. IsLatest(records, T, LatestOf(records, T))
  BY <1>5 DEF IsLatest, LatestOf
<1>7. \A i, j \in T : Later(records, i, j) => ~Later(records, j, i)
  BY <1>1 DEF Later
<1> QED BY <1>6, <1>7 DEF IsLatest

\* Two logs that tell the same.
SameTale(p, q, a, b) ==
  /\ a \in Seq(Records) /\ b \in Seq(Records)
  /\ SameRecords(p, a, b, "model_call") /\ SameRecords(q, a, b, "routing_result")

\* The latest of some routings is the latest in either log.
LEMMA LatestTold ==
  ASSUME NEW p, NEW q, NEW a, NEW b, SameTale(p, q, a, b),
         NEW T, NEW U, Corresponds(q, Routings(a), T, Routings(b), U), T # {}
  PROVE  a[LatestOf(a, T)] = b[LatestOf(b, U)]
<1>1. a \in Seq(Records) /\ b \in Seq(Records)
  BY DEF SameTale
<1>2. /\ \A i \in Routings(a) : q[i] \in Routings(b) /\ a[i] = b[q[i]]
      /\ \A i, j \in Routings(a) : i < j => q[i] < q[j]
      /\ \A k \in Routings(b) : \E i \in Routings(a) : q[i] = k
  BY DEF SameTale, SameRecords, Renaming, Routings
<1>3. /\ T \in SUBSET Routings(a) /\ U \in SUBSET Routings(b)
      /\ \A i \in Routings(a) : i \in T <=> q[i] \in U
  BY DEF Corresponds
<1>4. U # {}
  BY <1>2, <1>3
<1>5. PICK i : i = LatestOf(a, T)
  OBVIOUS
<1>6. i \in T /\ \A j \in T \ {i} : Later(a, i, j)
  BY <1>1, <1>3, <1>5, LatestExists DEF IsLatest
<1>7. ASSUME NEW k \in U \ {q[i]} PROVE Later(b, q[i], k)
  <2>1. PICK j \in T : q[j] = k /\ j # i
    BY <1>2, <1>3, <1>7
  <2>2. Later(a, i, j) /\ a[i] = b[q[i]] /\ a[j] = b[k]
    BY <1>2, <1>3, <1>6, <2>1
  <2>3. i \in Nat /\ j \in Nat /\ (j < i => k < q[i])
    BY <1>1, <1>2, <1>3, <1>6, <2>1, RoutingsAre
  <2>4. q[i] \in Nat /\ k \in Nat
    BY <1>1, <1>2, <1>3, <1>6, RoutingsAre
  <2> QED BY <2>2, <2>3, <2>4 DEF Later
<1>8. IsLatest(b, U, q[i])
  BY <1>3, <1>6, <1>7 DEF IsLatest
<1>9. q[i] = LatestOf(b, U)
  BY <1>1, <1>3, <1>4, <1>8, LatestExists
<1> QED BY <1>2, <1>3, <1>5, <1>6, <1>9

\* Both logs have as many tokens in the calls of a part.
LEMMA SpentTold ==
  ASSUME NEW p, NEW q, NEW a, NEW b, SameTale(p, q, a, b),
         NEW T, NEW U, Corresponds(p, Calls(a), T, Calls(b), U)
  PROVE  Cardinality(T) = Cardinality(U) /\ Spent(a, T) = Spent(b, U)
<1>1. a \in Seq(Records) /\ b \in Seq(Records) /\ Renaming(p, Calls(a), Calls(b))
      /\ \A i \in Calls(a) : a[i] = b[p[i]]
  BY DEF SameTale, SameRecords, Calls
<1>2. PICK v : v = TokensOf(a, Calls(a)) 
  OBVIOUS
<1>3. PICK w : w = TokensOf(b, Calls(b)) 
  OBVIOUS
<1>4. Numbers(v, Calls(a)) /\ \A S \in SUBSET Calls(a) : Spent(a, S) = Total(v, S)
  BY <1>1, <1>2, CallsAre
<1>5. Numbers(w, Calls(b)) /\ \A S \in SUBSET Calls(b) : Spent(b, S) = Total(w, S)
  BY <1>1, <1>3, CallsAre
<1>6. T \in SUBSET Calls(a) /\ U \in SUBSET Calls(b)
  BY DEF Corresponds
<1>7. IsFiniteSet(T) /\ IsFiniteSet(U) /\ Cardinality(T) = Cardinality(U)
  BY <1>1, <1>4, PartCount DEF Numbers
<1>8. Numbers(v, T) /\ Numbers(w, U)
  BY <1>4, <1>5, <1>6, <1>7 DEF Numbers
<1>9. PICK r : Renaming(r, T, U) /\ \A i \in T : r[i] = p[i]
  BY <1>1, PartRenamed
<1>10. \A i \in T : w[r[i]] = v[i]
  <2> SUFFICES ASSUME NEW i \in T PROVE w[r[i]] = v[i]
    OBVIOUS
  <2>1. i \in Calls(a) /\ r[i] \in Calls(b) /\ r[i] = p[i] /\ a[i] = b[p[i]]
    BY <1>1, <1>6, <1>9 DEF Renaming
  <2>2. v[i] = a[i].tokens /\ w[r[i]] = b[r[i]].tokens
    BY <1>2, <1>3, <2>1 DEF TokensOf
  <2> QED BY <2>1, <2>2
<1>11. Total(v, T) = Total(w, U)
  BY <1>8, <1>9, <1>10, TotalRenamed DEF Renaming
<1> QED BY <1>4, <1>5, <1>6, <1>7, <1>11

\* What two logs that tell the same have in common, call by call and routing by
\* routing.
LEMMA TaleIs ==
  ASSUME NEW p, NEW q, NEW a, NEW b, SameTale(p, q, a, b)
  PROVE  /\ a \in Seq(Records) /\ b \in Seq(Records)
         /\ \A i \in Calls(a) : p[i] \in Calls(b) /\ a[i] = b[p[i]]
         /\ \A k \in Calls(b) : \E i \in Calls(a) : p[i] = k
         /\ \A i \in Routings(a) : q[i] \in Routings(b) /\ a[i] = b[q[i]]
         /\ \A k \in Routings(b) : \E i \in Routings(a) : q[i] = k
         /\ Renaming(p, Calls(a), Calls(b)) /\ Renaming(q, Routings(a), Routings(b))
BY DEF SameTale, SameRecords, Renaming, Calls, Routings

\* Both logs have as many calls, routings and tokens.
LEMMA CountsTold ==
  ASSUME NEW p, NEW q, NEW a, NEW b, SameTale(p, q, a, b)
  PROVE  /\ Cardinality(Calls(a)) = Cardinality(Calls(b))
         /\ Cardinality(Routings(a)) = Cardinality(Routings(b))
         /\ Spent(a, Calls(a)) = Spent(b, Calls(b))
<1>1. Corresponds(p, Calls(a), Calls(a), Calls(b), Calls(b))
  BY TaleIs DEF Corresponds
<1>2. IsFiniteSet(Routings(a)) /\ Renaming(q, Routings(a), Routings(b))
  BY TaleIs, RoutingsAre
<1>3. Cardinality(Routings(a)) = Cardinality(Routings(b))
  BY <1>2, RenamedCount
<1> QED BY <1>1, <1>3, SpentTold

\* The calls that stay within a latency.
Within(records, l) == {i \in Calls(records) : records[i].latency <= l}

\* The latencies that at least k calls stay within.
Enough(records, k) ==
  {l \in {records[i].latency : i \in Calls(records)} : Cardinality(Within(records, l)) >= k}

\* Both logs have the same latencies in rising order.
LEMMA SortedTold ==
  ASSUME NEW p, NEW q, NEW a, NEW b, SameTale(p, q, a, b)
  PROVE  Sorted(a) = Sorted(b)
<1>1. PICK n : n = Cardinality(Calls(a)) /\ n = Cardinality(Calls(b))
  BY CountsTold
<1>2. \A r : Sorted(r) = [k \in 1..Cardinality(Calls(r)) |-> Min(Enough(r, k))]
  BY DEF Sorted, Enough, Within
<1>3. ASSUME NEW k PROVE Enough(a, k) = Enough(b, k)
  <2>1. {a[i].latency : i \in Calls(a)} = {b[i].latency : i \in Calls(b)}
    <3>1. \A i \in Calls(a) : p[i] \in Calls(b) /\ a[i].latency = b[p[i]].latency
      BY TaleIs
    <3>2. \A j \in Calls(b) : \E i \in Calls(a) : p[i] = j
      BY TaleIs
    <3> QED BY <3>1, <3>2
  <2>2. ASSUME NEW l
        PROVE  Cardinality(Within(a, l)) = Cardinality(Within(b, l))
    <3>1. \A i \in Calls(a) : p[i] \in Calls(b) /\ a[i].latency = b[p[i]].latency
      BY TaleIs
    <3>2. Corresponds(p, Calls(a), Within(a, l), Calls(b), Within(b, l))
      BY <3>1 DEF Corresponds, Within
    <3> QED BY <3>2, SpentTold
  <2> QED BY <2>1, <2>2 DEF Enough
<1>4. Sorted(a) = [k \in 1..n |-> Min(Enough(a, k))] /\ Sorted(b) = [k \in 1..n |-> Min(Enough(b, k))]
  BY <1>1, <1>2
<1>5. \A k : Min(Enough(a, k)) = Min(Enough(b, k))
  BY <1>3
<1> HIDE DEF Min
<1> QED BY <1>4, <1>5

\* The routings of a session.
Own(records, s) == {i \in Routings(records) : records[i].session = s}

\* Both logs have the same current assignments.
LEMMA AssignmentsTold ==
  ASSUME NEW p, NEW q, NEW a, NEW b, SameTale(p, q, a, b)
  PROVE  CurrentAssignments(a) = CurrentAssignments(b)
<1>1. Routed(a) = Routed(b)
  <2>1. \A i \in Routings(a) : q[i] \in Routings(b) /\ a[i].session = b[q[i]].session
    BY TaleIs
  <2>2. \A k \in Routings(b) : \E i \in Routings(a) : q[i] = k
    BY TaleIs
  <2> QED BY <2>1, <2>2 DEF Routed
<1>2. \A r, s : Latest(r, s) = LatestOf(r, Own(r, s))
  BY DEF Latest, LatestOf, Own, Later
<1>3. ASSUME NEW s \in Routed(a) PROVE a[Latest(a, s)].tiers = b[Latest(b, s)].tiers
  <2>1. \A i \in Routings(a) : q[i] \in Routings(b) /\ a[i].session = b[q[i]].session
    BY TaleIs
  <2>2. Corresponds(q, Routings(a), Own(a, s), Routings(b), Own(b, s))
    BY <2>1 DEF Corresponds, Own
  <2>3. Own(a, s) # {}
    BY DEF Routed, Own
  <2>4. a[LatestOf(a, Own(a, s))] = b[LatestOf(b, Own(b, s))]
    BY <2>2, <2>3, LatestTold
  <2> QED BY <1>2, <2>4
<1> QED BY <1>1, <1>3 DEF CurrentAssignments

\* Both logs have the same routing in view.
LEMMA RoutingTold ==
  ASSUME NEW p, NEW q, NEW a, NEW b, SameTale(p, q, a, b)
  PROVE  CurrentRouting(a) = CurrentRouting(b)
<1>1. \A r : LatestRouting(r) = LatestOf(r, Routings(r))
  BY DEF LatestRouting, LatestOf, Later
<1>2. Routings(a) = {} <=> Routings(b) = {}
  BY TaleIs
<1>3. Corresponds(q, Routings(a), Routings(a), Routings(b), Routings(b))
  BY TaleIs DEF Corresponds
<1>4. Routings(a) # {} => a[LatestRouting(a)] = b[LatestRouting(b)]
  BY <1>1, <1>3, LatestTold
<1> QED BY <1>2, <1>4 DEF CurrentRouting

\* Both logs have the same metrics (compute_metrics).
LEMMA MetricsTold ==
  ASSUME NEW p, NEW q, NEW a, NEW b, SameTale(p, q, a, b)
  PROVE  Metrics(a) = Metrics(b)
<1>1. Distribution(a) = Distribution(b)
  BY SortedTold DEF Distribution
<1>2. \A r : Metrics(r) =
        [calls |-> Cardinality(Calls(r)), tokens |-> Spent(r, Calls(r)), latency |-> Distribution(r),
         routings |-> Cardinality(Routings(r)), assignments |-> CurrentAssignments(r)]
  BY DEF Metrics, Spent
<1> QED BY <1>1, <1>2, CountsTold, AssignmentsTold

\* The calls of a trigger, and the candidates there were, are told by both logs.
LEMMA ProjectedTold ==
  ASSUME NEW p, NEW q, NEW a, NEW b, SameTale(p, q, a, b)
  PROVE  Keys(a) = Keys(b) /\ \A k : ProjectedTokens(a, k) = ProjectedTokens(b, k)
<1>1. \A i \in Calls(a) : p[i] \in Calls(b) /\ Key(a[i]) = Key(b[p[i]])
  BY TaleIs
<1>2. \A k \in Calls(b) : \E i \in Calls(a) : p[i] = k
  BY TaleIs
<1>3. Keys(a) = Keys(b)
  BY <1>1, <1>2 DEF Keys
<1>4. ASSUME NEW k PROVE ProjectedTokens(a, k) = ProjectedTokens(b, k)
  <2>1. Corresponds(p, Calls(a), Grouped(a, k), Calls(b), Grouped(b, k))
    BY <1>1 DEF Corresponds, Grouped
  <2>2. /\ Cardinality(Grouped(a, k)) = Cardinality(Grouped(b, k))
        /\ Spent(a, Grouped(a, k)) = Spent(b, Grouped(b, k))
    BY <2>1, SpentTold
  <2>3. CandidateCounts(a, k[1], k[3]) = CandidateCounts(b, k[1], k[3])
    <3>1. \A i \in Routings(a) : q[i] \in Routings(b) /\ a[i] = b[q[i]]
      BY TaleIs
    <3>2. \A j \in Routings(b) : \E i \in Routings(a) : q[i] = j
      BY TaleIs
    <3>3. PICK s : s = k[1]
      OBVIOUS
    <3>4. PICK n : n = k[3]
      OBVIOUS
    <3>5. CandidateCounts(a, s, n) = CandidateCounts(b, s, n)
      BY <3>1, <3>2 DEF CandidateCounts
    <3> QED BY <3>3, <3>4, <3>5
  <2>4. \A r : ProjectedTokens(r, k) =
          ScaleTokens(Spent(r, Grouped(r, k)), Cardinality(Grouped(r, k)),
            BaselineCalls(Cardinality(Grouped(r, k)), CandidateCounts(r, k[1], k[3]), k[2]))
    BY DEF ProjectedTokens, Spent
  <2> QED BY <2>2, <2>3, <2>4
<1> QED BY <1>3, <1>4

\* Both logs have the same costs, actual and projected (calculate_costs).
LEMMA CostsTold ==
  ASSUME NEW p, NEW q, NEW a, NEW b, SameTale(p, q, a, b)
  PROVE  ActualRouted(a) = ActualRouted(b) /\ ProjectedBaseline(a) = ProjectedBaseline(b)
<1>1. a \in Seq(Records) /\ b \in Seq(Records)
  BY TaleIs
<1>2. PICK K : K = Keys(a) /\ K = Keys(b)
  BY ProjectedTold
<1>3. Projected(a, K) = Projected(b, K)
  BY ProjectedTold DEF Projected
<1>4. ProjectedUsage(a) = Total(Projected(a, K), K) /\ ProjectedUsage(b) = Total(Projected(b, K), K)
  BY <1>1, <1>2, ProjectedAre, ProjectedAreTotal DEF ProjectedUsage
<1>5. ASSUME NEW m \in Models PROVE ModelCost(a, m) = ModelCost(b, m)
  <2>1. PICK T : T = {i \in Calls(a) : a[i].model = m}
    OBVIOUS
  <2>2. PICK U : U = {i \in Calls(b) : b[i].model = m}
    OBVIOUS
  <2>3. \A i \in Calls(a) : p[i] \in Calls(b) /\ a[i].model = b[p[i]].model
    BY TaleIs
  <2>4. Corresponds(p, Calls(a), T, Calls(b), U)
    BY <2>1, <2>2, <2>3 DEF Corresponds
  <2>5. Spent(a, T) = Spent(b, U)
    BY <2>4, SpentTold
  <2>6. ModelCost(a, m) = Rate[m] * Spent(a, T) /\ ModelCost(b, m) = Rate[m] * Spent(b, U)
    BY <2>1, <2>2 DEF ModelCost, Spent
  <2> QED BY <2>5, <2>6
<1>6. Costs(a, Models) = Costs(b, Models)
  BY <1>5 DEF Costs
<1>7. /\ ActualRouted(a) = Total(Costs(a, Models), Models)
      /\ ActualRouted(b) = Total(Costs(b, Models), Models)
  BY <1>1, CostsAre, CostsAreTotal DEF ActualRouted
<1> QED BY <1>3, <1>4, <1>6, <1>7 DEF ProjectedBaseline

\* Appending every routing result after every call changes nothing a dashboard
\* shows, for every order in which routings and calls happen, at every number of
\* them: the figures are those of the history as it happened.
THEOREM DashboardIgnoresFlushOrder == RunSpec => []FlushOrderFree
<1>1. ASSUME FlushFits, flushed PROVE DashboardPayload(log) = DashboardPayload(facts)
  <2>1. PICK p : SameRecords(p, log, facts, "model_call")
    BY <1>1 DEF FlushFits, Tells
  <2>2. PICK q : SameRecords(q, log, facts, "routing_result")
    BY <1>1 DEF FlushFits, Tells
  <2>3. SameTale(p, q, log, facts)
    BY <1>1, <2>1, <2>2 DEF SameTale, FlushFits, RunTypeOK
  <2>4. /\ CurrentRouting(log) = CurrentRouting(facts) /\ Metrics(log) = Metrics(facts)
        /\ ActualRouted(log) = ActualRouted(facts)
        /\ ProjectedBaseline(log) = ProjectedBaseline(facts)
    BY <2>3, RoutingTold, MetricsTold, CostsTold
  <2>5. ModelCalls(log) = ModelCalls(facts)
    BY <1>1 DEF FlushFits
  <2> QED BY <2>4, <2>5 DEF DashboardPayload
<1>2. FlushFits => FlushOrderFree
  BY <1>1 DEF FlushOrderFree
<1> QED BY <1>2, RunStarts, RunSteps, PTL DEF RunSpec

\* The routing a dashboard shows is the metrics' current one of its session, for
\* every number of routings, calls and sessions.
THEOREM PanelsAlwaysAgree == RunSpec => []PanelsAgree
<1>1. ASSUME RunTypeOK PROVE PanelsAgree
  <2> SUFFICES ASSUME Routings(log) # {}
               PROVE  Metrics(log).assignments[log[LatestRouting(log)].session]
                        = log[LatestRouting(log)].tiers
    BY DEF PanelsAgree, CurrentRouting
  <2>1. log \in Seq(Records)
    BY <1>1 DEF RunTypeOK
  <2>2. PICK R : R = Routings(log) /\ R \in SUBSET Routings(log) /\ R # {}
    OBVIOUS
  <2>3. PICK i : i = LatestRouting(log) /\ i = LatestOf(log, R)
    BY <2>2 DEF LatestRouting, LatestOf, Later
  <2>4. IsLatest(log, R, i)
    BY <2>1, <2>2, <2>3, LatestExists
  <2>5. PICK s : s = log[i].session
    OBVIOUS
  <2>6. PICK T : T = Own(log, s) /\ T \in SUBSET Routings(log)
    BY DEF Own
  <2>7. IsLatest(log, T, i)
    BY <2>2, <2>4, <2>5, <2>6 DEF IsLatest, Own
  <2>8. T # {}
    BY <2>7 DEF IsLatest
  <2>9. i = LatestOf(log, T)
    BY <2>1, <2>6, <2>7, <2>8, LatestExists
  <2>10. Latest(log, s) = i
    BY <2>6, <2>9 DEF Latest, LatestOf, Own, Later
  <2>11. s \in Routed(log)
    BY <2>2, <2>4, <2>5 DEF Routed, IsLatest
  <2>12. CurrentAssignments(log)[s] = log[i].tiers
    BY <2>10, <2>11 DEF CurrentAssignments
  <2> QED BY <2>3, <2>5, <2>12 DEF Metrics
<1> QED BY <1>1, RunTyped, PTL
=============================================================================
