------------------------------ MODULE DataLemmas ------------------------------
(***************************************************************************)
(* Induction, recursion and folds in a form the provers can instantiate:   *)
(* an induction hypothesis is a set of numbers, and a recursion is given   *)
(* by functions that say where it stops, how it goes on, and what it makes *)
(* of the rest.  With them, the ranks of a set in order and sums over a    *)
(* set, whichever member is taken first.                                   *)
(***************************************************************************)
EXTENDS Integers, Sequences, SequencesExt, FiniteSetTheorems, WellFoundedInduction, TLAPS

\* A nonempty set of natural numbers has a least one.
LEMMA LeastExists ==
    ASSUME NEW S \in SUBSET Nat, S # {}
    PROVE  \E x \in S : \A y \in S : x =< y
<1>1. PICK x \in S : \A y \in S : ~(<<y, x>> \in OpToRel(<, Nat))
    BY NatLessThanWellFounded, WFMin
<1>2. \A y \in S : ~(y < x)
    BY <1>1 DEF OpToRel
<1> QED BY <1>2

\* The least of a set of numbers, which Min chooses.
LEMMA MinIsLeast ==
    ASSUME NEW S \in SUBSET Nat, S # {}
    PROVE  Min(S) \in S /\ \A y \in S : Min(S) =< y
BY LeastExists DEF Min

\* Induction: a set of numbers that has 0, and with each number the next, is all of Nat.
LEMMA Induction ==
    ASSUME NEW S, 0 \in S, \A n \in Nat : n \in S => n + 1 \in S
    PROVE  \A n \in Nat : n \in S
<1> SUFFICES ASSUME NEW m \in Nat, m \notin S PROVE FALSE
    OBVIOUS
<1> DEFINE T == {n \in Nat : n \notin S}
<1>1. T \in SUBSET Nat /\ T # {}
    OBVIOUS
<1> HIDE DEF T
<1>2. PICK k \in T : \A y \in T : k =< y
    BY <1>1, LeastExists
<1>3. k \in Nat /\ k \notin S /\ k # 0
    BY <1>1, <1>2 DEF T
<1>4. k - 1 \in Nat /\ k - 1 \in S
    BY <1>2, <1>3 DEF T
<1>5. (k - 1) + 1 \in S
    BY <1>4
<1> QED BY <1>3, <1>5

\* A bounded set of them that is not empty has a greatest, ...
LEMMA GreatestExists ==
    ASSUME NEW S \in SUBSET Nat, S # {}, NEW n \in Nat, \A y \in S : y =< n
    PROVE  \E x \in S : \A y \in S : y =< x
<1> DEFINE T == {k \in Nat : \A y \in S : y =< k}
<1>1. T \in SUBSET Nat /\ n \in T
    OBVIOUS
<1>2. PICK m \in T : \A k \in T : m =< k
  <2> HIDE DEF T
  <2> QED BY <1>1, LeastExists
<1>3. m \in Nat
    OBVIOUS
<1>4. \A y \in S : y =< m
    OBVIOUS
<1>5. m \in S
  <2> SUFFICES ASSUME m \notin S PROVE FALSE
      OBVIOUS
  <2>1. \A y \in S : y =< m - 1
      BY <1>4
  <2>2. m - 1 \in Nat
    <3>1. PICK y \in S : TRUE
        OBVIOUS
    <3>2. y \in Nat /\ y =< m /\ y # m
        BY <1>4, <3>1
    <3> QED BY <3>2
  <2>3. m - 1 \in T
      BY <2>1, <2>2
  <2> QED BY <1>2, <1>3, <2>3
<1> QED BY <1>4, <1>5

\* ... and so has a finite one.
LEMMA GreatestOfFinite ==
    ASSUME NEW S \in SUBSET Nat, IsFiniteSet(S), S # {}
    PROVE  \E x \in S : \A y \in S : y =< x
<1> DEFINE Good == {n \in Nat : \A T \in SUBSET S : Cardinality(T) = n + 1 =>
                                  \E x \in T : \A y \in T : y =< x}
<1>1. \A T \in SUBSET S : IsFiniteSet(T) /\ Cardinality(T) \in Nat
    BY FS_Subset, FS_CardinalityType
<1>2. 0 \in Good
  <2> SUFFICES ASSUME NEW T \in SUBSET S, Cardinality(T) = 1
               PROVE  \E x \in T : \A y \in T : y =< x
      OBVIOUS
  <2>1. PICK x : T = {x}
      BY <1>1, FS_Singleton
  <2> QED BY <2>1
<1>3. ASSUME NEW n \in Nat, n \in Good PROVE n + 1 \in Good
  <2> SUFFICES ASSUME NEW T \in SUBSET S, Cardinality(T) = n + 2
               PROVE  \E x \in T : \A y \in T : y =< x
      OBVIOUS
  <2>7. T # {}
      BY FS_EmptySet
  <2>1. PICK z \in T : TRUE
      BY <2>7
  <2>2. Cardinality(T \ {z}) = n + 1
      BY <1>1, <2>1, FS_RemoveElement
  <2>3. PICK x \in T \ {z} : \A y \in T \ {z} : y =< x
      BY <1>3, <2>2
  <2>4. x \in Nat /\ z \in Nat /\ (x =< z \/ z =< x) /\ \A y \in T : y \in Nat
      BY <2>1, <2>3
  <2>5. CASE x =< z
    <3>1. \A y \in T : y =< z
        BY <2>3, <2>4, <2>5
    <3> QED BY <2>1, <3>1
  <2>6. CASE z =< x
      BY <2>3, <2>4, <2>6
  <2> QED BY <2>4, <2>5, <2>6
<1> HIDE DEF Good
<1>4. \A n \in Nat : n \in Good
    BY <1>2, <1>3, Induction
<1>5. Cardinality(S) \in Nat /\ Cardinality(S) # 0
    BY <1>1, FS_EmptySet
<1>6. Cardinality(S) - 1 \in Good /\ (Cardinality(S) - 1) + 1 = Cardinality(S)
    BY <1>4, <1>5
<1> QED BY <1>6 DEF Good

-----------------------------------------------------------------------------
\* A recursion over S with values in V, which stops in Stop with base, and else goes on
\* with next, which is smaller, and makes of its value what step says.
Recursion(S, V, measure, Stop, base, next, step) ==
    /\ measure \in [S -> Nat]
    /\ \A x \in S \cap Stop : base[x] \in V
    /\ \A x \in S \ Stop : next[x] \in S /\ measure[next[x]] < measure[x]
    /\ \A x \in S \ Stop, v \in V : step[<<x, v>>] \in V
Recurs(f, S, V, Stop, base, next, step) ==
    /\ f \in [S -> V]
    /\ \A x \in S : f[x] = IF x \in Stop THEN base[x] ELSE step[<<x, f[next[x]]>>]

\* There is a function that computes it.
LEMMA RecursionExists ==
    ASSUME NEW S, NEW V, NEW measure, NEW Stop, NEW base, NEW next, NEW step,
           Recursion(S, V, measure, Stop, base, next, step)
    PROVE  \E f : Recurs(f, S, V, Stop, base, next, step)
<1> USE DEF Recursion
<1> DEFINE UpTo(n) == {x \in S : measure[x] =< n}
           Does(g, x) == IF x \in Stop THEN base[x] ELSE step[<<x, g[next[x]]>>]
           Computes(g, n) == g \in [UpTo(n) -> V] /\ \A x \in UpTo(n) : g[x] = Does(g, x)
           Good == {n \in Nat : \E g : Computes(g, n)}
<1>1. ASSUME NEW n \in Nat, NEW x \in UpTo(n), x \notin Stop
      PROVE  n # 0 /\ next[x] \in UpTo(n - 1)
  <2>1. measure[x] \in Nat /\ measure[next[x]] \in Nat /\ measure[next[x]] < measure[x]
      BY <1>1
  <2> QED BY <1>1, <2>1
<1>2. 0 \in Good
  <2> DEFINE g == [x \in UpTo(0) |-> base[x]]
  <2>1. \A x \in UpTo(0) : x \in Stop
      BY <1>1
  <2>2. Computes(g, 0)
      BY <2>1
  <2> QED BY <2>2
<1>3. ASSUME NEW n \in Nat, n \in Good PROVE n + 1 \in Good
  <2>1. PICK g : Computes(g, n)
      BY <1>3
  <2> DEFINE h == [x \in UpTo(n + 1) |-> Does(g, x)]
  <2>2. ASSUME NEW x \in UpTo(n + 1), x \notin Stop
        PROVE  next[x] \in UpTo(n) /\ g[next[x]] \in V
    <3>1. next[x] \in UpTo(n)
        BY <1>1, <2>2
    <3> QED BY <2>1, <3>1
  <2>3. h \in [UpTo(n + 1) -> V]
    <3>1. ASSUME NEW x \in UpTo(n + 1) PROVE Does(g, x) \in V
      <4>1. x \in S
          OBVIOUS
      <4>2. CASE x \in Stop
          BY <4>1, <4>2
      <4>3. CASE x \notin Stop
          BY <2>2, <4>1, <4>3
      <4> QED BY <4>2, <4>3
    <3> HIDE DEF Does, UpTo
    <3> QED BY <3>1
  <2>4. ASSUME NEW x \in UpTo(n) PROVE h[x] = g[x]
    <3>1. x \in UpTo(n + 1)
        OBVIOUS
    <3>2. g[x] = Does(g, x)
        BY <2>1
    <3> HIDE DEF Does, UpTo
    <3> QED BY <3>1, <3>2
  <2>5. ASSUME NEW x \in UpTo(n + 1) PROVE h[x] = Does(h, x)
    <3>1. CASE x \in Stop
        BY <3>1
    <3>2. CASE x \notin Stop
      <4>1. h[next[x]] = g[next[x]]
          BY <2>2, <2>4, <3>2
      <4>2. h[x] = step[<<x, g[next[x]]>>]
          BY <3>2
      <4> HIDE DEF h
      <4> QED BY <3>2, <4>1, <4>2
    <3> QED BY <3>1, <3>2
  <2>6. Computes(h, n + 1)
    <3> HIDE DEF h, Does, UpTo
    <3> QED BY <2>3, <2>5
  <2> HIDE DEF Computes
  <2> QED BY <2>6
<1>4. \A n \in Nat : \E g : Computes(g, n)
  <2> HIDE DEF Good
  <2>1. \A n \in Nat : n \in Good
      BY <1>2, <1>3, Induction
  <2> HIDE DEF Computes
  <2> QED BY <2>1 DEF Good
\* What is computed up to two bounds agrees where both compute.
<1>5. ASSUME NEW n \in Nat, NEW g, NEW h, NEW m \in Nat, Computes(g, m), Computes(h, n), m =< n
      PROVE  \A x \in UpTo(m) : g[x] = h[x]
  <2> DEFINE Same == {k \in Nat : \A x \in UpTo(m) : measure[x] =< k => g[x] = h[x]}
  <2>1. ASSUME NEW k \in Nat, k = 0 \/ k - 1 \in Same PROVE k \in Same
    <3> SUFFICES ASSUME NEW x \in UpTo(m), measure[x] =< k PROVE g[x] = h[x]
        OBVIOUS
    <3>1. x \in UpTo(n) /\ x \in UpTo(k)
        BY <1>5
    <3>2. g[x] = Does(g, x) /\ h[x] = Does(h, x)
        BY <1>5, <3>1
    <3>3. CASE x \in Stop
        BY <3>2, <3>3
    <3>4. CASE x \notin Stop
      <4>1. k # 0 /\ next[x] \in UpTo(k - 1) /\ next[x] \in UpTo(m - 1) /\ m # 0
          BY <1>1, <3>1, <3>4
      <4>2. next[x] \in UpTo(m) /\ measure[next[x]] =< k - 1
          BY <4>1
      <4>3. g[next[x]] = h[next[x]]
          BY <2>1, <4>1, <4>2
      <4> QED BY <3>2, <3>4, <4>3
    <3> QED BY <3>3, <3>4
  <2> HIDE DEF Same
  <2>2. 0 \in Same
      BY <2>1
  <2>3. ASSUME NEW k \in Nat, k \in Same PROVE k + 1 \in Same
    <3>1. k + 1 \in Nat /\ (k + 1) - 1 = k
        OBVIOUS
    <3> QED BY <2>1, <2>3, <3>1
  <2>4. m \in Same
      BY <2>2, <2>3, Induction
  <2> QED BY <2>4 DEF Same
<1> DEFINE At(n) == CHOOSE g : Computes(g, n)
           f == [x \in S |-> At(measure[x])[x]]
<1>6. \A n \in Nat : Computes(At(n), n)
  <2> HIDE DEF Computes
  <2> QED BY <1>4
<1> HIDE DEF At, Computes
<1>7. ASSUME NEW x \in S PROVE f[x] \in V /\ f[x] = Does(f, x)
  <2>1. measure[x] \in Nat /\ x \in UpTo(measure[x])
      OBVIOUS
  <2>2. Computes(At(measure[x]), measure[x])
      BY <1>6, <2>1
  <2>3. f[x] = At(measure[x])[x]
      OBVIOUS
  <2> HIDE DEF f
  <2>4. f[x] \in V /\ f[x] = Does(At(measure[x]), x)
      BY <2>1, <2>2, <2>3 DEF Computes
  <2>5. CASE x \in Stop
      BY <2>4, <2>5
  <2>6. CASE x \notin Stop
    <3>1. next[x] \in S /\ measure[next[x]] \in Nat /\ measure[next[x]] =< measure[x]
        BY <2>6
    <3>2. Computes(At(measure[next[x]]), measure[next[x]]) /\ next[x] \in UpTo(measure[next[x]])
        BY <1>6, <3>1
    <3>3. At(measure[next[x]])[next[x]] = At(measure[x])[next[x]]
        BY <1>5, <2>1, <2>2, <3>1, <3>2
    <3>4. f[next[x]] = At(measure[next[x]])[next[x]]
        BY <3>1 DEF f
    <3> QED BY <2>4, <2>6, <3>3, <3>4
  <2> QED BY <2>4, <2>5, <2>6
<1>8. f \in [S -> V]
  <2>1. f = [x \in S |-> f[x]]
      OBVIOUS
  <2> HIDE DEF f
  <2> QED BY <1>7, <2>1
<1> HIDE DEF f
<1> QED BY <1>7, <1>8 DEF Recurs

-----------------------------------------------------------------------------
\* A recursion along the numbers of S, from 0 on, with values in V: its values are there.
Steps(S, V, base, step) ==
    /\ S \subseteq Nat /\ \A n \in S : n # 0 => n - 1 \in S
    /\ base \in V
    /\ \A n \in S, v \in V : n # 0 => step[<<n, v>>] \in V
Iterates(f, S, V, base, step) ==
    /\ f \in [S -> V]
    /\ \A n \in S : f[n] = IF n = 0 THEN base ELSE step[<<n, f[n - 1]>>]

LEMMA IterationExists ==
    ASSUME NEW S, NEW V, NEW base, NEW step, Steps(S, V, base, step)
    PROVE  \E f : Iterates(f, S, V, base, step)
<1> DEFINE measure == [n \in S |-> n]
           Stop == {0}
           stops == [n \in S |-> base]
           next == [n \in S |-> n - 1]
<1>1. /\ measure \in [S -> Nat]
      /\ \A n \in S \cap Stop : stops[n] \in V
    BY DEF Steps
<1>2. \A n \in S \ Stop : next[n] \in S /\ measure[next[n]] < measure[n]
    BY DEF Steps
<1>3. \A n \in S \ Stop, v \in V : step[<<n, v>>] \in V
    BY DEF Steps
<1>4. \A n \in S : stops[n] = base /\ next[n] = n - 1 /\ (n \in Stop <=> n = 0)
    OBVIOUS
<1> HIDE DEF measure, stops, next, Stop
<1>5. PICK f : Recurs(f, S, V, Stop, stops, next, step)
  <2>1. Recursion(S, V, measure, Stop, stops, next, step)
      BY <1>1, <1>2, <1>3 DEF Recursion
  <2> QED BY <2>1, RecursionExists
<1>6. f \in [S -> V] /\ \A n \in S : f[n] = IF n \in Stop THEN stops[n] ELSE step[<<n, f[next[n]]>>]
    BY <1>5 DEF Recurs
<1>7. ASSUME NEW n \in S
      PROVE  f[n] = IF n = 0 THEN base ELSE step[<<n, f[n - 1]>>]
    BY <1>4, <1>6
<1>8. Iterates(f, S, V, base, step)
    BY <1>6, <1>7 DEF Iterates
<1> QED BY <1>8

-----------------------------------------------------------------------------
LEMMA MaxIsGreatest ==
    ASSUME NEW n \in Nat, NEW t \in SUBSET (1 .. n), t # {}
    PROVE  Max(t) \in t /\ \A x \in t : x =< Max(t)
<1>1. t \in SUBSET Nat /\ \A x \in t : x \in Int /\ x =< n
    OBVIOUS
<1>2. \E g \in t : \A x \in t : x =< g
    BY <1>1, GreatestExists
<1>3. \E g \in t : \A x \in t : g >= x
    BY <1>1, <1>2
<1> QED BY <1>1, <1>3 DEF Max

LEMMA MaxOfUpTo ==
    ASSUME NEW n \in Nat, NEW k \in 1 .. n
    PROVE  Max(1 .. k) = k /\ (1 .. k) \ {Max(1 .. k)} = 1 .. (k - 1) /\ 1 .. k # {}
<1>1. (1 .. k) \in SUBSET (1 .. n) /\ 1 .. k # {}
    OBVIOUS
<1>2. Max(1 .. k) \in 1 .. k /\ \A x \in 1 .. k : x =< Max(1 .. k)
    BY <1>1, MaxIsGreatest
<1>3. Max(1 .. k) = k
    BY <1>2
<1> QED BY <1>3

\* A fold over the indexes 1 .. n, with values in V, from the first index to the last.
Foldable(n, V, base, step) ==
    base \in V /\ \A i \in 1 .. n, v \in V : step[<<i, v>>] \in V
Folded(iter, n, V, base, step) ==
    /\ iter \in [SUBSET (1 .. n) -> V]
    /\ \A t \in SUBSET (1 .. n) :
          iter[t] = IF t = {} THEN base ELSE step[<<Max(t), iter[t \ {Max(t)}]>>]

LEMMA FoldExists ==
    ASSUME NEW n \in Nat, NEW V, NEW base, NEW step, Foldable(n, V, base, step)
    PROVE  \E iter : Folded(iter, n, V, base, step)
<1> USE DEF Foldable
<1> DEFINE S == SUBSET (1 .. n)
           measure == [t \in S |-> Cardinality(t)]
           Stop == {{}}
           stops == [t \in S |-> base]
           next == [t \in S |-> t \ {Max(t)}]
           does == [x \in S \X V |-> step[<<Max(x[1]), x[2]>>]]
<1>1. \A t \in S : IsFiniteSet(t) /\ Cardinality(t) \in Nat
  <2>1. IsFiniteSet(1 .. n)
      BY FS_Interval
  <2> QED BY <2>1, FS_Subset, FS_CardinalityType
<1>2. measure \in [S -> Nat]
    BY <1>1
<1>3. ASSUME NEW t \in S \ Stop PROVE next[t] \in S /\ measure[next[t]] < measure[t]
  <2>1. Max(t) \in t
      BY MaxIsGreatest
  <2>2. Cardinality(t \ {Max(t)}) = Cardinality(t) - 1
      BY <1>1, <2>1, FS_RemoveElement
  <2>3. t \ {Max(t)} \in S
      OBVIOUS
  <2> QED BY <1>1, <2>2, <2>3
<1>4. ASSUME NEW t \in S \ Stop, NEW v \in V PROVE does[<<t, v>>] = step[<<Max(t), v>>] /\ does[<<t, v>>] \in V
  <2>1. Max(t) \in 1 .. n
      BY MaxIsGreatest
  <2> QED BY <2>1
<1>5. \A t \in S \cap Stop : stops[t] \in V
    OBVIOUS
<1>6. \A t \in S \ Stop, v \in V : does[<<t, v>>] \in V
    BY <1>4
<1>7. \A t \in S : stops[t] = base /\ next[t] = t \ {Max(t)} /\ (t \in Stop <=> t = {})
    OBVIOUS
<1>8. \A t \in S \ Stop : next[t] \in S /\ measure[next[t]] < measure[t]
    BY <1>3
<1> HIDE DEF S, Stop, measure, stops, next, does
<1>9. Recursion(S, V, measure, Stop, stops, next, does)
    BY <1>2, <1>5, <1>6, <1>8 DEF Recursion
<1>10. PICK iter : Recurs(iter, S, V, Stop, stops, next, does)
    BY <1>9, RecursionExists
<1>11. /\ iter \in [S -> V]
       /\ \A t \in S : iter[t] = IF t \in Stop THEN stops[t] ELSE does[<<t, iter[next[t]]>>]
    BY <1>10 DEF Recurs
<1>12. ASSUME NEW t \in S
       PROVE  iter[t] = IF t = {} THEN base ELSE step[<<Max(t), iter[t \ {Max(t)}]>>]
  <2>1. CASE t = {}
      BY <1>7, <1>11, <2>1
  <2>2. CASE t # {}
    <3>1. iter[next[t]] \in V /\ iter[t] = does[<<t, iter[next[t]]>>]
        BY <1>7, <1>8, <1>11, <2>2
    <3>2. does[<<t, iter[next[t]]>>] = step[<<Max(t), iter[next[t]]>>]
        BY <1>4, <1>7, <2>2, <3>1
    <3> QED BY <1>7, <2>2, <3>1, <3>2
  <2> QED BY <2>1, <2>2
<1> QED BY <1>11, <1>12 DEF S, Folded

-----------------------------------------------------------------------------
\* A strict order of all members of T: those before each.
OrderOf(T, before) ==
    /\ before \in [T -> SUBSET T]
    /\ \A x \in T : x \notin before[x]
    /\ \A x \in T, y \in T : y \in before[x] => before[y] \subseteq before[x]
    /\ \A x \in T, y \in T : x # y => x \in before[y] \/ y \in before[x]

\* The members of a finite set that is ordered have the ranks from 1 to as many as they are.
LEMMA Ranks ==
    ASSUME NEW T, IsFiniteSet(T), NEW before, OrderOf(T, before)
    PROVE  /\ Cardinality(T) \in Nat
           /\ \A x \in T : Cardinality(before[x]) \in 0 .. Cardinality(T) - 1
           /\ \A x, y \in T : Cardinality(before[x]) < Cardinality(before[y]) <=> x \in before[y]
           /\ \A x, y \in T : Cardinality(before[x]) = Cardinality(before[y]) => x = y
           /\ \A n \in 1 .. Cardinality(T) : \E x \in T : Cardinality(before[x]) = n - 1
<1>1. \A U \in SUBSET T : IsFiniteSet(U) /\ Cardinality(U) \in Nat /\ Cardinality(U) =< Cardinality(T)
    BY FS_Subset, FS_CardinalityType
<1>2. Cardinality(T) \in Nat
    BY <1>1
<1>3. ASSUME NEW x \in T, NEW U \in SUBSET T, before[x] \cup {x} \subseteq U
      PROVE  Cardinality(before[x]) + 1 =< Cardinality(U)
  <2>1. before[x] \in SUBSET T /\ x \notin before[x] /\ before[x] \cup {x} \in SUBSET T
      BY DEF OrderOf
  <2>2. Cardinality(before[x] \cup {x}) = Cardinality(before[x]) + 1
      BY <1>1, <2>1, FS_AddElement
  <2>3. Cardinality(before[x] \cup {x}) =< Cardinality(U)
      BY <1>1, <1>3, FS_Subset
  <2> QED BY <2>2, <2>3
<1>4. ASSUME NEW x \in T PROVE Cardinality(before[x]) \in 0 .. Cardinality(T) - 1
  <2>1. before[x] \in SUBSET T /\ before[x] \cup {x} \subseteq T
      BY DEF OrderOf
  <2>2. Cardinality(before[x]) + 1 =< Cardinality(T) /\ Cardinality(before[x]) \in Nat
      BY <1>1, <1>3, <2>1
  <2> QED BY <1>2, <2>2
<1>5. ASSUME NEW x \in T, NEW y \in T, x \in before[y]
      PROVE  Cardinality(before[x]) < Cardinality(before[y])
  <2>1. before[x] \cup {x} \subseteq before[y] /\ before[y] \in SUBSET T
      BY <1>5 DEF OrderOf
  <2>2. Cardinality(before[x]) + 1 =< Cardinality(before[y])
      BY <1>3, <2>1
  <2> QED BY <1>2, <1>4, <2>2
<1>6. ASSUME NEW x \in T, NEW y \in T
      PROVE  /\ Cardinality(before[x]) < Cardinality(before[y]) <=> x \in before[y]
             /\ Cardinality(before[x]) = Cardinality(before[y]) => x = y
  <2>1. x = y \/ x \in before[y] \/ y \in before[x]
      BY DEF OrderOf
  <2>2. Cardinality(before[x]) \in Int /\ Cardinality(before[y]) \in Int
      BY <1>2, <1>4
  <2> QED BY <1>5, <2>1, <2>2
<1>7. \A n \in 1 .. Cardinality(T) : \E x \in T : Cardinality(before[x]) = n - 1
  <2> DEFINE N == 0 .. Cardinality(T) - 1
             rank == [x \in T |-> Cardinality(before[x])]
  <2>1. rank \in Injection(T, N)
      BY <1>4, <1>6 DEF Injection, IsInjective
  <2>2. IsFiniteSet(N) /\ Cardinality(N) = Cardinality(T)
    <3>1. 0 \in Int /\ Cardinality(T) - 1 \in Int
        BY <1>2
    <3>2. IsFiniteSet(N) /\ Cardinality(N) = IF 0 > Cardinality(T) - 1 THEN 0 ELSE (Cardinality(T) - 1) - 0 + 1
        BY <3>1, FS_Interval
    <3> QED BY <1>2, <3>2
  <2>3. rank \in Surjection(T, N)
      BY <2>1, <2>2, FS_Injection
  <2>4. \A n \in N : \E x \in T : Cardinality(before[x]) = n
      BY <2>3 DEF Surjection
  <2>5. \A n \in 1 .. Cardinality(T) : n - 1 \in N
      BY <1>2
  <2> QED BY <2>4, <2>5
<1> QED BY <1>2, <1>4, <1>6, <1>7

-----------------------------------------------------------------------------
\* The sum of what w says over each set of members of S, whichever of them is taken first.
Some(t) == CHOOSE x \in t : TRUE
TotalsByChoice(total, S, w) ==
    /\ total \in [SUBSET S -> Int]
    /\ \A t \in SUBSET S : total[t] = IF t = {} THEN 0 ELSE w[Some(t)] + total[t \ {Some(t)}]
Totals(total, S, w) ==
    /\ total \in [SUBSET S -> Int]
    /\ total[{}] = 0
    /\ \A t \in SUBSET S : \A x \in t : total[t] = w[x] + total[t \ {x}]

LEMMA TotalsExist ==
    ASSUME NEW S, IsFiniteSet(S), NEW w \in [S -> Int]
    PROVE  \E total : TotalsByChoice(total, S, w)
<1> DEFINE D == SUBSET S
           measure == [t \in D |-> Cardinality(t)]
           Stop == {{}}
           stops == [t \in D |-> 0]
           next == [t \in D |-> t \ {Some(t)}]
           step == [x \in D \X Int |-> w[Some(x[1])] + x[2]]
<1>1. \A t \in D : IsFiniteSet(t) /\ Cardinality(t) \in Nat
    BY FS_Subset, FS_CardinalityType
<1>2. \A t \in D \ Stop : Some(t) \in t /\ Some(t) \in S
    BY DEF Some
<1>3. ASSUME NEW t \in D \ Stop PROVE next[t] \in D /\ measure[next[t]] < measure[t]
  <2>1. Cardinality(t \ {Some(t)}) = Cardinality(t) - 1
      BY <1>1, <1>2, FS_RemoveElement
  <2>2. t \ {Some(t)} \in D
      OBVIOUS
  <2>3. next[t] = t \ {Some(t)} /\ measure[t] = Cardinality(t)
      OBVIOUS
  <2>4. measure[t \ {Some(t)}] = Cardinality(t) - 1
      BY <2>1, <2>2
  <2> QED BY <1>1, <2>2, <2>3, <2>4
<1>4. ASSUME NEW t \in D \ Stop, NEW v \in Int PROVE step[<<t, v>>] = w[Some(t)] + v /\ step[<<t, v>>] \in Int
    BY <1>2
<1>5. \A t \in D : stops[t] = 0 /\ next[t] = t \ {Some(t)} /\ (t \in Stop <=> t = {})
    OBVIOUS
<1>6. measure \in [D -> Nat]
    BY <1>1
<1> HIDE DEF D, Stop, measure, stops, next, step
<1>7. Recursion(D, Int, measure, Stop, stops, next, step)
    BY <1>3, <1>4, <1>5, <1>6 DEF Recursion
<1>8. PICK total : Recurs(total, D, Int, Stop, stops, next, step)
    BY <1>7, RecursionExists
<1>9. ASSUME NEW t \in D
      PROVE  total[t] = IF t = {} THEN 0 ELSE w[Some(t)] + total[t \ {Some(t)}]
  <2>1. CASE t = {}
      BY <1>5, <1>8, <2>1 DEF Recurs
  <2>2. CASE t # {}
    <3>1. next[t] \in D
        BY <1>3, <1>5, <2>2
    <3>2. total[next[t]] \in Int /\ total[t] = step[<<t, total[next[t]]>>]
        BY <1>5, <1>8, <2>2, <3>1 DEF Recurs
    <3>3. step[<<t, total[next[t]]>>] = w[Some(t)] + total[next[t]]
        BY <1>4, <1>5, <2>2, <3>2
    <3> QED BY <1>5, <2>2, <3>2, <3>3
  <2> QED BY <2>1, <2>2
<1>10. total \in [D -> Int]
    BY <1>8 DEF Recurs
<1> QED BY <1>9, <1>10 DEF TotalsByChoice, D

LEMMA AnyFirst ==
    ASSUME NEW S, IsFiniteSet(S), NEW w \in [S -> Int], NEW total, TotalsByChoice(total, S, w)
    PROVE  Totals(total, S, w)
<1>1. \A t \in SUBSET S : IsFiniteSet(t) /\ Cardinality(t) \in Nat
    BY FS_Subset, FS_CardinalityType
<1> DEFINE AddsAt(n) == \A t \in SUBSET S : \A x \in t : Cardinality(t) = n => total[t] = w[x] + total[t \ {x}]
           Good == {n \in Nat : AddsAt(n)}
<1>2. ASSUME NEW n \in Nat, AddsAt(n), NEW t \in SUBSET S, NEW x \in t, Cardinality(t) = n + 1
      PROVE  total[t] = w[x] + total[t \ {x}]
  <2>1. PICK z \in t : z = Some(t) /\ total[t] = w[z] + total[t \ {z}]
      BY DEF TotalsByChoice, Some
  <2>2. CASE x = z
      BY <2>1, <2>2
  <2>3. CASE x # z
    <3>1. /\ t \ {z} \in SUBSET S /\ t \ {x} \in SUBSET S /\ t \ {x, z} \in SUBSET S
          /\ x \in t \ {z} /\ z \in t \ {x}
          /\ (t \ {z}) \ {x} = t \ {x, z} /\ (t \ {x}) \ {z} = t \ {x, z}
        BY <2>3
    <3>2. Cardinality(t \ {z}) = Cardinality(t) - 1 /\ Cardinality(t \ {x}) = Cardinality(t) - 1
        BY <1>1, FS_RemoveElement
    <3>3. Cardinality(t \ {z}) = n /\ Cardinality(t \ {x}) = n
        BY <1>2, <3>2
    <3>4. total[t \ {z}] = w[x] + total[(t \ {z}) \ {x}]
        BY <1>2, <3>1, <3>3
    <3>5. total[t \ {x}] = w[z] + total[(t \ {x}) \ {z}]
        BY <1>2, <3>1, <3>3
    <3>6. w[x] \in Int /\ w[z] \in Int /\ total[t \ {x, z}] \in Int
        BY <3>1 DEF TotalsByChoice
    <3>7. PICK rest \in Int : rest = total[t \ {x, z}]
        BY <3>6
    <3>8. total[t \ {z}] = w[x] + rest /\ total[t \ {x}] = w[z] + rest
        BY <3>1, <3>4, <3>5, <3>7
    <3>9. w[z] + (w[x] + rest) = w[x] + (w[z] + rest)
        BY <3>6
    <3> QED BY <2>1, <3>8, <3>9
  <2> QED BY <2>2, <2>3
<1>3. 0 \in Good
    BY <1>1, FS_EmptySet
<1>4. ASSUME NEW n \in Nat, n \in Good PROVE n + 1 \in Good
    BY <1>2, <1>4
<1> HIDE DEF Good
<1>5. \A n \in Nat : n \in Good
    BY <1>3, <1>4, Induction
<1>6. ASSUME NEW t \in SUBSET S, NEW x \in t PROVE total[t] = w[x] + total[t \ {x}]
    BY <1>1, <1>5 DEF Good
<1>7. total \in [SUBSET S -> Int] /\ total[{}] = 0
    BY DEF TotalsByChoice
<1> QED BY <1>6, <1>7 DEF Totals

-----------------------------------------------------------------------------
\* The function behind SumFunction.
SumsBy(total, w) ==
    total = [t \in SUBSET DOMAIN w |->
               IF t = {} THEN 0
               ELSE LET i == CHOOSE x \in t : TRUE
                    IN  w[i] + total[t \ {i}]]
SumsOf(w) == CHOOSE total : SumsBy(total, w)

\* SumFunction is the sum of what w says of all, whichever is taken first.
LEMMA SumFunctionIsTotal ==
    ASSUME NEW S, IsFiniteSet(S), NEW w \in [S -> Int]
    PROVE  Totals(SumsOf(w), S, w) /\ SumFunction(w) = SumsOf(w)[S]
<1> DEFINE Does(f, t) == IF t = {} THEN 0 ELSE w[Some(t)] + f[t \ {Some(t)}]
           total == SumsOf(w)
<1>1. PICK f : TotalsByChoice(f, S, w)
    BY TotalsExist
<1>2. f \in [SUBSET S -> Int] /\ \A t \in SUBSET S : f[t] = Does(f, t)
    BY <1>1 DEF TotalsByChoice
<1>3. total = [t \in SUBSET S |-> Does(total, t)]
  <2>1. f = [t \in SUBSET S |-> Does(f, t)]
    <3> HIDE DEF Does
    <3>1. [t \in SUBSET S |-> Does(f, t)] = [t \in SUBSET S |-> f[t]]
        BY <1>2, Zenon
    <3>2. f = [t \in SUBSET S |-> f[t]]
        BY <1>2, Zenon
    <3> QED BY <3>1, <3>2, Zenon
  <2>2. SumsBy(f, w)
      BY <2>1 DEF SumsBy, Some
  <2>3. SumsBy(total, w)
      BY <2>2, Zenon DEF SumsOf
  <2> HIDE DEF total
  <2> QED BY <2>3 DEF SumsBy, Some
<1>4. \A t \in SUBSET S : IsFiniteSet(t) /\ Cardinality(t) \in Nat
    BY FS_Subset, FS_CardinalityType
<1>5. ASSUME NEW t \in SUBSET S, t # {} => total[t \ {Some(t)}] = f[t \ {Some(t)}]
      PROVE  total[t] = f[t]
  <2>1. total[t] = Does(total, t)
    <3> HIDE DEF Does, total
    <3> QED BY <1>3
  <2>2. Does(total, t) = Does(f, t)
    <3> HIDE DEF total
    <3> QED BY <1>5
  <2> HIDE DEF Does, total
  <2> QED BY <1>2, <2>1, <2>2
<1> HIDE DEF total, Does
<1> DEFINE Good == {n \in Nat : \A t \in SUBSET S : Cardinality(t) = n => total[t] = f[t]}
<1>6. 0 \in Good
    BY <1>4, <1>5, FS_EmptySet
<1>7. ASSUME NEW n \in Nat, n \in Good PROVE n + 1 \in Good
  <2> SUFFICES ASSUME NEW t \in SUBSET S, Cardinality(t) = n + 1
               PROVE  total[t] = f[t]
      OBVIOUS
  <2>1. t # {}
      BY <1>4, FS_EmptySet
  <2>2. Some(t) \in t /\ t \ {Some(t)} \in SUBSET S
      BY <2>1 DEF Some
  <2>3. Cardinality(t \ {Some(t)}) = Cardinality(t) - 1
      BY <1>4, <2>2, FS_RemoveElement
  <2> QED BY <1>5, <1>7, <2>2, <2>3
<1> HIDE DEF Good
<1>8. \A n \in Nat : n \in Good
    BY <1>6, <1>7, Induction
<1>9. \A t \in SUBSET S : total[t] = f[t]
    BY <1>4, <1>8 DEF Good
<1>10. Totals(total, S, w)
  <2>1. total = f
      BY <1>2, <1>3, <1>9
  <2> QED BY <1>1, <2>1, AnyFirst
<1>11. SumFunction(w) = SumsOf(w)[DOMAIN w]
    BY DEF SumFunction, SumFunctionOnSet, FoldFunctionOnSet, MapThenFoldSet, SumsOf, SumsBy
<1> QED BY <1>10, <1>11 DEF total
=============================================================================
