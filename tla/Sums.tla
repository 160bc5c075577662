-------------------------------- MODULE Sums ---------------------------------
(***************************************************************************)
(* Sums of integers over finite sets.  A sum is first a relation, which    *)
(* the provers can reason about one element at a time; it is then shown    *)
(* to exist, to be unique, and to be what SumFunctionOnSet computes.       *)
(* Induction over sets is by a least counterexample.                       *)
(***************************************************************************)
EXTENDS Integers, FiniteSets, Functions, FiniteSetTheorems, TLAPS

\* t is the sum of f over S: S is listed without repetition by e, and s adds up f.
Adds(f, S, t, n, e, s) ==
  /\ \A i \in 1..n : e[i] \in S
  /\ \A x \in S : \E i \in 1..n : e[i] = x
  /\ \A i, j \in 1..n : e[i] = e[j] => i = j
  /\ s[0] = 0 /\ s[n] = t
  /\ \A i \in 1..n : s[i] = s[i - 1] + f[e[i]]

IsSum(f, S, t) ==
  \E n \in Nat : \E e \in [1..n -> S] : \E s \in [0..n -> Int] : Adds(f, S, t, n, e, s)

\* Nothing sums to zero.
LEMMA SumOfNothing == ASSUME NEW f PROVE IsSum(f, {}, 0)
<1> DEFINE e == [i \in 1..0 |-> 0]
           s == [i \in 0..0 |-> 0]
<1>1. 0 \in Nat /\ e \in [1..0 -> {}] /\ s \in [0..0 -> Int]
  OBVIOUS
<1>2. Adds(f, {}, 0, 0, e, s)
  BY DEF Adds
<1> HIDE DEF e, s
<1>3. QED
  BY <1>1, <1>2 DEF IsSum

LEMMA SumOfEmpty == ASSUME NEW f, NEW t, IsSum(f, {}, t) PROVE t = 0
<1>1. PICK n, e, s :
            n \in Nat /\ e \in [1..n -> {}] /\ s \in [0..n -> Int] /\ Adds(f, {}, t, n, e, s)
  BY DEF IsSum
<1>2. n = 0
  BY <1>1 DEF Adds
<1>3. QED
  BY <1>1, <1>2 DEF Adds

\* One more.
LEMMA SumWith ==
  ASSUME NEW f, NEW S, NEW t \in Int, IsSum(f, S, t), NEW x, x \notin S, f[x] \in Int
  PROVE  IsSum(f, S \cup {x}, t + f[x])
<1>1. PICK n, e, s :
            n \in Nat /\ e \in [1..n -> S] /\ s \in [0..n -> Int] /\ Adds(f, S, t, n, e, s)
  BY DEF IsSum
<1> DEFINE m == n + 1
           ee == [i \in 1..m |-> IF i = m THEN x ELSE e[i]]
           ss == [i \in 0..m |-> IF i = m THEN t + f[x] ELSE s[i]]
<1>2. /\ m \in Nat \ {0} /\ \A i \in 1..m : i = m \/ i \in 1..n
      /\ \A i \in 1..n : i \in 1..m /\ i # m
      /\ \A i \in 0..m : i = m \/ i \in 0..n
      /\ \A i \in 0..n : i \in 0..m /\ i # m
      /\ m - 1 = n
  BY <1>1
<1>3. /\ m \in 1..m /\ ee[m] = x /\ \A i \in 1..n : ee[i] = e[i]
      /\ ss[m] = t + f[x] /\ \A i \in 0..n : ss[i] = s[i]
  BY <1>2
<1>4. ee \in [1..m -> S \cup {x}]
  BY <1>1, <1>2
<1>5. ss \in [0..m -> Int]
  BY <1>1, <1>2
<1> HIDE DEF m, ee, ss
<1>6. Adds(f, S \cup {x}, t + f[x], m, ee, ss)
  <2>1. \A i \in 1..m : ee[i] \in S \cup {x}
    BY <1>4
  <2>2. \A y \in S \cup {x} : \E i \in 1..m : ee[i] = y
    <3>1. ASSUME NEW y \in S PROVE \E i \in 1..m : ee[i] = y
      <4>1. PICK i \in 1..n : e[i] = y
        BY <1>1 DEF Adds
      <4>2. i \in 1..m /\ ee[i] = y
        BY <1>2, <1>3, <4>1
      <4>3. QED
        BY <4>2
    <3>2. QED
      BY <1>3, <3>1
  <2>3. \A i, j \in 1..m : ee[i] = ee[j] => i = j
    <3>1. \A i, j \in 1..n : e[i] = e[j] => i = j
      BY <1>1 DEF Adds
    <3>2. \A i \in 1..n : ee[i] = e[i] /\ e[i] # x
      BY <1>1, <1>3
    <3>3. QED
      BY <1>2, <1>3, <3>1, <3>2
  <2>4. ss[0] = 0 /\ ss[m] = t + f[x]
    BY <1>1, <1>3 DEF Adds
  <2>5. \A i \in 1..m : ss[i] = ss[i - 1] + f[ee[i]]
    <3>1. SUFFICES ASSUME NEW i \in 1..m PROVE ss[i] = ss[i - 1] + f[ee[i]]
      OBVIOUS
    <3>2. CASE i = m
      <4>1. ss[n] = t
        BY <1>1, <1>3 DEF Adds
      <4>2. QED
        BY <1>2, <1>3, <3>2, <4>1
    <3>3. CASE i \in 1..n
      <4>1. i \in 0..n /\ i - 1 \in 0..n
        BY <1>1, <3>3
      <4>2. s[i] = s[i - 1] + f[e[i]]
        BY <1>1, <3>3 DEF Adds
      <4>3. QED
        BY <1>3, <3>3, <4>1, <4>2
    <3>4. QED
      BY <1>2, <3>2, <3>3
  <2>6. QED
    BY <2>1, <2>2, <2>3, <2>4, <2>5 DEF Adds
<1>7. QED
  BY <1>2, <1>4, <1>5, <1>6 DEF IsSum

\* One less.
LEMMA SumWithout ==
  ASSUME NEW f, NEW S, NEW t \in Int, IsSum(f, S, t), NEW x \in S, \A y \in S : f[y] \in Int
  PROVE  IsSum(f, S \ {x}, t - f[x])
<1>1. PICK n, e, s :
            n \in Nat /\ e \in [1..n -> S] /\ s \in [0..n -> Int] /\ Adds(f, S, t, n, e, s)
  BY DEF IsSum
<1>2. PICK k \in 1..n : e[k] = x
  BY <1>1 DEF Adds
<1> DEFINE m == n - 1
           ee == [i \in 1..m |-> IF i < k THEN e[i] ELSE e[i + 1]]
           ss == [i \in 0..m |-> IF i < k THEN s[i] ELSE s[i + 1] - f[x]]
<1>3. /\ m \in Nat /\ \A i \in 1..m : i \in 1..n /\ i + 1 \in 1..n
      /\ \A i \in 0..m : i \in 0..n /\ i + 1 \in 0..n
      /\ \A i \in 1..n : i < k => i \in 1..m
      /\ \A i \in 1..n : i > k => i - 1 \in 1..m /\ ~(i - 1 < k) /\ (i - 1) + 1 = i
      /\ 0 \in 0..m /\ m \in 0..m
  BY <1>1
<1>4. /\ \A i \in 1..m : ee[i] = IF i < k THEN e[i] ELSE e[i + 1]
      /\ \A i \in 0..m : ss[i] = IF i < k THEN s[i] ELSE s[i + 1] - f[x]
  OBVIOUS
<1>5. \A i, j \in 1..n : e[i] = e[j] => i = j
  BY <1>1 DEF Adds
<1>6. \A i \in 1..m : ee[i] \in S \ {x}
  <2>1. SUFFICES ASSUME NEW i \in 1..m PROVE ee[i] \in S \ {x}
    OBVIOUS
  <2>2. CASE i < k
    BY <1>1, <1>2, <1>3, <1>4, <1>5, <2>2
  <2>3. CASE ~(i < k)
    <3>1. i + 1 # k /\ i + 1 \in 1..n
      BY <1>3, <2>3
    <3>2. QED
      BY <1>1, <1>2, <1>4, <1>5, <2>3, <3>1
  <2>4. QED
    BY <2>2, <2>3
<1>7. ee \in [1..m -> S \ {x}]
  BY <1>6
<1>8. ss \in [0..m -> Int]
  BY <1>1, <1>3
<1> HIDE DEF m, ee, ss
<1>9. Adds(f, S \ {x}, t - f[x], m, ee, ss)
  <2>1. \A y \in S \ {x} : \E i \in 1..m : ee[i] = y
    <3>1. SUFFICES ASSUME NEW y \in S \ {x} PROVE \E i \in 1..m : ee[i] = y
      OBVIOUS
    <3>2. PICK j \in 1..n : e[j] = y
      BY <1>1 DEF Adds
    <3>3. j # k
      BY <1>2, <3>2
    <3>4. CASE j < k
      BY <1>3, <1>4, <3>2, <3>4
    <3>5. CASE j > k
      <4>1. j - 1 \in 1..m /\ ~(j - 1 < k) /\ (j - 1) + 1 = j
        BY <1>3, <3>5
      <4>2. ee[j - 1] = y
        BY <1>4, <3>2, <4>1
      <4>3. QED
        BY <4>1, <4>2
    <3>6. QED
      BY <3>3, <3>4, <3>5
  <2>2. \A i, j \in 1..m : ee[i] = ee[j] => i = j
    <3>1. SUFFICES ASSUME NEW i \in 1..m, NEW j \in 1..m, ee[i] = ee[j] PROVE i = j
      OBVIOUS
    <3> DEFINE u == IF i < k THEN i ELSE i + 1
               v == IF j < k THEN j ELSE j + 1
    <3>2. u \in 1..n /\ v \in 1..n /\ ee[i] = e[u] /\ ee[j] = e[v]
      BY <1>3, <1>4
    <3>3. u = v
      BY <1>5, <3>1, <3>2
    <3>4. QED
      BY <3>3
  <2>3. ss[0] = 0 /\ ss[m] = t - f[x]
    <3>1. s[k] = s[k - 1] + f[x] /\ s[k] \in Int /\ s[k - 1] \in Int /\ s[0] = 0 /\ s[n] = t
      BY <1>1, <1>2 DEF Adds
    <3>2. 0 < k /\ (0 \in 0..m)
      BY <1>3
    <3>3. ss[m] = t - f[x]
      BY <1>1, <1>3, <1>4, <3>1 DEF m
    <3>4. QED
      BY <1>4, <3>1, <3>2, <3>3
  <2>4. \A i \in 1..m : ss[i] = ss[i - 1] + f[ee[i]]
    <3>1. SUFFICES ASSUME NEW i \in 1..m PROVE ss[i] = ss[i - 1] + f[ee[i]]
      OBVIOUS
    <3>2. /\ s[i] = s[i - 1] + f[e[i]] /\ s[i + 1] = s[i] + f[e[i + 1]]
          /\ s[i] \in Int /\ s[i + 1] \in Int /\ s[i - 1] \in Int
      <4>1. i \in 1..n /\ i + 1 \in 1..n /\ (i + 1) - 1 = i
        BY <1>3
      <4>2. i \in 0..n /\ i + 1 \in 0..n /\ i - 1 \in 0..n
        BY <1>1, <4>1
      <4>3. \A j \in 1..n : s[j] = s[j - 1] + f[e[j]]
        BY <1>1 DEF Adds
      <4>4. s[i] = s[i - 1] + f[e[i]] /\ s[i + 1] = s[(i + 1) - 1] + f[e[i + 1]]
        BY <4>1, <4>3
      <4>5. QED
        BY <1>1, <4>1, <4>2, <4>4
    <3>3. i \in 0..m /\ i - 1 \in 0..m /\ (i - 1) + 1 = i
      BY <1>3
    <3>4. CASE i < k
      <4>1. i - 1 < k
        BY <3>4
      <4>2. QED
        BY <1>4, <3>2, <3>3, <3>4, <4>1
    <3>5. CASE i = k
      <4>1. i - 1 < k /\ ~(i < k)
        BY <3>5
      <4>2. ss[i] = s[i + 1] - f[x] /\ ss[i - 1] = s[i - 1] /\ ee[i] = e[i + 1]
        BY <1>4, <3>3, <4>1
      <4>3. s[i] = s[i - 1] + f[x]
        BY <1>2, <3>2, <3>5
      <4>4. f[e[i + 1]] \in Int /\ f[x] \in Int
        BY <1>1, <1>3
      <4>5. QED
        BY <3>2, <4>2, <4>3, <4>4
    <3>6. CASE i > k
      <4>1. ~(i - 1 < k) /\ ~(i < k)
        BY <3>6
      <4>2. ss[i] = s[i + 1] - f[x] /\ ss[i - 1] = s[i] - f[x] /\ ee[i] = e[i + 1]
        BY <1>4, <3>3, <4>1
      <4>3. f[e[i + 1]] \in Int /\ f[x] \in Int
        BY <1>1, <1>3
      <4>4. QED
        BY <3>2, <4>2, <4>3
    <3>7. QED
      BY <3>4, <3>5, <3>6
  <2>5. QED
    BY <1>6, <2>1, <2>2, <2>3, <2>4 DEF Adds
<1>10. QED
  BY <1>3, <1>7, <1>8, <1>9 DEF IsSum

\* Only what is summed counts.
LEMMA SameSum ==
  ASSUME NEW f, NEW g, NEW S, NEW t, IsSum(f, S, t), \A x \in S : f[x] = g[x]
  PROVE  IsSum(g, S, t)
<1>1. PICK n, e, s :
            n \in Nat /\ e \in [1..n -> S] /\ s \in [0..n -> Int] /\ Adds(f, S, t, n, e, s)
  BY DEF IsSum
<1>2. Adds(g, S, t, n, e, s)
  BY <1>1 DEF Adds
<1>3. QED
  BY <1>1, <1>2 DEF IsSum

----------------------------------------------------------------------------
(* Sums as values                                                          *)

\* Only a finite set has a sum.
LEMMA SumFinite ==
  ASSUME NEW f, NEW S, NEW t, IsSum(f, S, t)
  PROVE  IsFiniteSet(S)
<1>1. PICK n, e, s :
            n \in Nat /\ e \in [1..n -> S] /\ s \in [0..n -> Int] /\ Adds(f, S, t, n, e, s)
  BY DEF IsSum
<1>2. e \in Surjection(1..n, S)
  BY <1>1 DEF Adds, Surjection
<1>3. QED
  BY <1>1, <1>2, FS_NatSurjection DEF ExistsSurjection

\* A set of sets has a smallest one.
LEMMA LeastSet ==
  ASSUME NEW S, IsFiniteSet(S), NEW B, B \subseteq SUBSET S, B # {}
  PROVE  \E T \in B : \A x \in T : T \ {x} \notin B
<1>1. IsWellFoundedOn(StrictSubsetOrdering(S), SUBSET S)
  BY FS_StrictSubsetOrderingWellFounded, FS_FiniteSubsetsOfFinite
<1>2. PICK T \in B : \A U \in B : <<U, T>> \notin StrictSubsetOrdering(S)
  BY <1>1, WFMin
<1>3. ASSUME NEW x \in T PROVE T \ {x} \notin B
  <2>1. T \in SUBSET S /\ T \ {x} \in SUBSET S /\ T \ {x} \subseteq T /\ T \ {x} # T
    OBVIOUS
  <2>2. <<T \ {x}, T>> \in StrictSubsetOrdering(S)
    BY <2>1 DEF StrictSubsetOrdering
  <2>3. QED
    BY <1>2, <2>2
<1>4. QED
  BY <1>3

LEMMA SumUnique ==
  ASSUME NEW f, NEW S, \A x \in S : f[x] \in Int,
         NEW t \in Int, NEW u \in Int, IsSum(f, S, t), IsSum(f, S, u)
  PROVE  t = u
<1> DEFINE B == {T \in SUBSET S : \E v, w \in Int : IsSum(f, T, v) /\ IsSum(f, T, w) /\ v # w}
<1> SUFFICES ASSUME t # u PROVE FALSE
  OBVIOUS
<1>1. IsFiniteSet(S)
  BY SumFinite
<1>2. B # {} /\ B \subseteq SUBSET S
  OBVIOUS
<1> HIDE DEF B
<1>3. PICK T \in B : \A x \in T : T \ {x} \notin B
  BY <1>1, <1>2, LeastSet
<1>4. T \in SUBSET S
  BY <1>2
<1>5. PICK v \in Int, w \in Int : IsSum(f, T, v) /\ IsSum(f, T, w) /\ v # w
  BY DEF B
<1>6. T # {}
  BY <1>5, SumOfEmpty
<1>7. PICK x \in T : TRUE
  BY <1>6
<1>8. IsSum(f, T \ {x}, v - f[x]) /\ IsSum(f, T \ {x}, w - f[x])
  BY <1>4, <1>5, SumWithout
<1>9. v - f[x] \in Int /\ w - f[x] \in Int /\ v - f[x] # w - f[x]
  BY <1>4, <1>5
<1>10. T \ {x} \in B
  BY <1>4, <1>8, <1>9 DEF B
<1>11. QED
  BY <1>3, <1>10

LEMMA SumExists ==
  ASSUME NEW f, NEW S, IsFiniteSet(S), \A x \in S : f[x] \in Int
  PROVE  \E t \in Int : IsSum(f, S, t)
<1> DEFINE B == {T \in SUBSET S : ~\E t \in Int : IsSum(f, T, t)}
<1> SUFFICES ASSUME ~\E t \in Int : IsSum(f, S, t) PROVE FALSE
  OBVIOUS
<1>1. B # {} /\ B \subseteq SUBSET S
  OBVIOUS
<1>2. \A T : T \in B <=> T \in SUBSET S /\ ~\E t \in Int : IsSum(f, T, t)
  OBVIOUS
<1> HIDE DEF B
<1>3. PICK T \in B : \A x \in T : T \ {x} \notin B
  BY <1>1, LeastSet
<1>4. T # {}
  <2>1. IsSum(f, {}, 0) /\ 0 \in Int
    BY SumOfNothing
  <2>2. QED
    BY <1>2, <1>3, <2>1
<1>5. PICK x \in T : TRUE
  BY <1>4
<1>6. PICK t \in Int : IsSum(f, T \ {x}, t)
  BY <1>2, <1>3, <1>5
<1>7. f[x] \in Int /\ x \notin T \ {x} /\ (T \ {x}) \cup {x} = T
  BY <1>2
<1>8. IsSum(f, (T \ {x}) \cup {x}, t + f[x]) /\ t + f[x] \in Int
  <2> DEFINE U == T \ {x}
  <2>1. x \notin U /\ IsSum(f, U, t)
    BY <1>6
  <2> HIDE DEF U
  <2>2. IsSum(f, U \cup {x}, t + f[x])
    BY <1>7, <2>1, SumWith
  <2>3. QED
    BY <1>7, <2>2 DEF U
<1>9. IsSum(f, T, t + f[x])
  BY <1>7, <1>8, Zenon
<1>10. QED
  BY <1>2, <1>8, <1>9

\* What the fold of the community modules computes is the sum.
Folding(f, S, h) ==
  h = [s \in SUBSET S |->
        IF s = {} THEN 0 ELSE f[CHOOSE x \in s : TRUE] + h[s \ {CHOOSE x \in s : TRUE}]]

LEMMA FoldDefined ==
  ASSUME NEW f, NEW S, IsFiniteSet(S), \A x \in S : f[x] \in Int
  PROVE  \E h : Folding(f, S, h)
<1> DEFINE h == [s \in SUBSET S |-> CHOOSE t \in Int : IsSum(f, s, t)]
<1>1. ASSUME NEW s \in SUBSET S
      PROVE  h[s] \in Int /\ IsSum(f, s, h[s])
  <2>1. IsFiniteSet(s) /\ \A x \in s : f[x] \in Int
    BY FS_Subset
  <2>2. \E t \in Int : IsSum(f, s, t)
    BY <2>1, SumExists
  <2>3. QED
    BY <2>2
<1>2. ASSUME NEW s \in SUBSET S
      PROVE  h[s] = IF s = {} THEN 0
                    ELSE f[CHOOSE x \in s : TRUE] + h[s \ {CHOOSE x \in s : TRUE}]
  <2>1. CASE s = {}
    BY <1>1, <2>1, SumOfEmpty
  <2>2. CASE s # {}
    <3> DEFINE c == CHOOSE x \in s : TRUE
    <3>1. c \in s
      BY <2>2
    <3>2. h[s] \in Int /\ IsSum(f, s, h[s]) /\ \A x \in s : f[x] \in Int
      BY <1>1
    <3>3. s \ {c} \in SUBSET S
      OBVIOUS
    <3>4. h[s \ {c}] \in Int /\ IsSum(f, s \ {c}, h[s \ {c}])
      BY <1>1, <3>3
    <3> HIDE DEF h, c
    <3>5. IsSum(f, s \ {c}, h[s] - f[c]) /\ h[s] - f[c] \in Int
      <4>1. \A t \in Int : IsSum(f, s, t) => IsSum(f, s \ {c}, t - f[c])
        BY <3>1, <3>2, SumWithout
      <4>2. QED
        BY <3>1, <3>2, <4>1
    <3>6. \A x \in s \ {c} : f[x] \in Int
      BY <3>2
    <3>7. h[s \ {c}] = h[s] - f[c]
      BY <3>4, <3>5, <3>6, SumUnique
    <3>8. h[s] = f[c] + h[s \ {c}]
      BY <3>1, <3>2, <3>7
    <3>9. QED
      BY <2>2, <3>8 DEF c
  <2>3. QED
    BY <2>1, <2>2
<1>3. h = [s \in SUBSET S |-> h[s]]
  OBVIOUS
<1> HIDE DEF h
<1>4. Folding(f, S, h)
  BY <1>2, <1>3, Zenon DEF Folding
<1>5. QED
  BY <1>4

LEMMA SumIsFold ==
  ASSUME NEW f, NEW S, NEW t \in Int, IsSum(f, S, t), \A x \in S : f[x] \in Int
  PROVE  SumFunctionOnSet(f, S) = t
<1> DEFINE h == CHOOSE g : Folding(f, S, g)
<1>1. IsFiniteSet(S)
  BY SumFinite
<1>2. Folding(f, S, h)
  BY <1>1, FoldDefined
<1>3. SumFunctionOnSet(f, S) = h[S]
  BY DEF SumFunctionOnSet, FoldFunctionOnSet, MapThenFoldSet, Folding
<1> HIDE DEF h
<1>4. \A s \in SUBSET S :
        h[s] = IF s = {} THEN 0
               ELSE f[CHOOSE x \in s : TRUE] + h[s \ {CHOOSE x \in s : TRUE}]
  BY <1>2 DEF Folding
<1> DEFINE B == {T \in SUBSET S : \E u \in Int : IsSum(f, T, u) /\ h[T] # u}
<1>5. \A T : T \in B <=> T \in SUBSET S /\ \E u \in Int : IsSum(f, T, u) /\ h[T] # u
  OBVIOUS
<1> HIDE DEF B
<1>6. B = {}
  <2> SUFFICES ASSUME B # {} PROVE FALSE
    OBVIOUS
  <2>1. B \subseteq SUBSET S
    BY <1>5
  <2>2. PICK T \in B : \A x \in T : T \ {x} \notin B
    BY <1>1, <2>1, LeastSet
  <2>3. PICK u \in Int : IsSum(f, T, u) /\ h[T] # u
    BY <1>5
  <2>4. T \in SUBSET S /\ T # {}
    BY <1>4, <1>5, <2>3, SumOfEmpty
  <2> DEFINE c == CHOOSE x \in T : TRUE
  <2>5. c \in T /\ h[T] = f[c] + h[T \ {c}]
    BY <1>4, <2>4
  <2> HIDE DEF c
  <2>6. IsSum(f, T \ {c}, u - f[c]) /\ u - f[c] \in Int /\ f[c] \in Int
    BY <2>3, <2>4, <2>5, SumWithout
  <2>7. h[T \ {c}] = u - f[c]
    BY <1>5, <2>2, <2>4, <2>5, <2>6
  <2>8. QED
    BY <2>3, <2>5, <2>6, <2>7
<1>7. QED
  BY <1>3, <1>5, <1>6
=============================================================================
