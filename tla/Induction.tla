------------------------------- MODULE Induction -------------------------------
(***************************************************************************)
(* Induction over numbers for the proof modules, as facts about sets and   *)
(* functions: a set of numbers that is not empty has a least member, a set *)
(* that is closed under the next number holds all, and a function that is  *)
(* defined step by step exists.  They rest on the order of the naturals    *)
(* being well founded.                                                     *)
(***************************************************************************)
EXTENDS Integers, Sequences, WellFoundedInduction, TLAPS

\* The order of the naturals.
LessNat == {p \in Nat \X Nat : p[1] < p[2]}

\* The order of the naturals, as the theorems on well founded relations take it.
LEMMA LessNatWF == IsWellFoundedOn(LessNat, Nat)
BY NatLessThanWellFounded DEF OpToRel, LessNat, IsWellFoundedOn

\* A set of numbers that is not empty has a least member.
LEMMA LeastOf ==
  ASSUME NEW T \in SUBSET Nat, T # {}
  PROVE  \E x \in T : \A y \in T : x <= y
<1>1. PICK x \in T : \A y \in T : ~(<<y, x>> \in LessNat)
  BY LessNatWF, WFMin, Zenon
<1>2. \A y \in T : ~(y < x)
  BY <1>1 DEF LessNat
<1> QED
  BY <1>2

\* A set of numbers that holds 0 and, up to n, the successor of each of its members
\* holds all of 0..n.
LEMMA Climb ==
  ASSUME NEW n \in Nat, NEW G, 0 \in G, \A k \in 1..n : k - 1 \in G => k \in G
  PROVE  0..n \subseteq G
<1> DEFINE T == (0..n) \ G
<1> SUFFICES ASSUME T # {} PROVE FALSE
  OBVIOUS
<1>1. T \in SUBSET Nat
  OBVIOUS
<1>2. PICK x \in T : \A y \in T : x <= y
  <2> HIDE DEF T
  <2> QED
    BY <1>1, LeastOf
<1>3. x \in 1..n /\ x - 1 \in 0..n /\ ~(x <= x - 1)
  BY <1>2
<1> QED
  BY <1>2, <1>3

\* f goes from a in n steps, the k-th of which is G[k].
Stepwise(f, n, S, a, G) ==
  f \in [0..n -> S] /\ f[0] = a /\ \A k \in 1..n : f[k] = G[k][f[k - 1]]

\* A function defined step by step exists.
LEMMA StepwiseFunction ==
  ASSUME NEW n \in Nat, NEW S, NEW a \in S, NEW G \in [1..n -> [S -> S]]
  PROVE  \E f : Stepwise(f, n, S, a, G)
<1> DEFINE F(m) == {f \in [0..m -> S] : f[0] = a /\ \A k \in 1..m : f[k] = G[k][f[k - 1]]}
           Good == {m \in 0..n : F(m) # {}}
<1>1. 0 \in Good
  <2> DEFINE g == [k \in 0..0 |-> a]
  <2>1. g \in [0..0 -> S] /\ g[0] = a /\ \A k \in 1..0 : g[k] = G[k][g[k - 1]]
    OBVIOUS
  <2> HIDE DEF g
  <2>2. g \in F(0)
    BY <2>1
  <2> QED
    BY <2>2
<1>2. ASSUME NEW m \in 1..n, m - 1 \in Good PROVE m \in Good
  <2>1. PICK f \in F(m - 1) : TRUE
    BY <1>2
  <2> DEFINE g == [k \in 0..m |-> IF k = m THEN G[m][f[m - 1]] ELSE f[k]]
  <2>2. f \in [0..(m - 1) -> S] /\ f[m - 1] \in S
    BY <2>1
  <2>3. g \in [0..m -> S]
    BY <2>2
  <2>4. g[0] = a
    BY <2>1
  <2>5. ASSUME NEW k \in 1..m PROVE g[k] = G[k][g[k - 1]]
    <3>1. CASE k = m
      BY <3>1
    <3>2. CASE k # m
      <4>1. f[k] = G[k][f[k - 1]]
        BY <2>1, <3>2
      <4> QED
        BY <4>1, <3>2
    <3> QED
      BY <3>1, <3>2
  <2> HIDE DEF g
  <2>6. g \in F(m)
    BY <2>3, <2>4, <2>5
  <2> QED
    BY <2>6
<1>3. n \in Good
  <2> HIDE DEF Good
  <2>1. 0..n \subseteq Good
    BY <1>1, <1>2, Climb
  <2> QED
    BY <2>1
<1>4. PICK f \in F(n) : TRUE
  BY <1>3
<1>5. Stepwise(f, n, S, a, G)
  BY <1>4 DEF Stepwise
<1> QED
  BY <1>5

\* An interval 1..n determines n.
LEMMA IntervalsDiffer ==
  ASSUME NEW m \in Nat, NEW n \in Nat, 1..m = 1..n
  PROVE  m = n
<1>1. CASE m < n
  <2>1. n \in 1..n
    BY <1>1
  <2>2. n \notin 1..m
    BY <1>1
  <2> QED
    BY <2>1, <2>2
<1>2. CASE n < m
  <2>1. m \in 1..m
    BY <1>2
  <2>2. m \notin 1..n
    BY <1>2
  <2> QED
    BY <2>1, <2>2
<1> QED
  BY <1>1, <1>2

\* A walk over D stops in `stop` and goes from any other place x to step[x], which
\* has a smaller major number, or the same and a smaller minor one.
GoesDown(D, stop, step, major, minor) ==
  /\ stop \subseteq D /\ step \in [D -> D] /\ major \in [D -> Nat] /\ minor \in [D -> Nat]
  /\ \A x \in D \ stop :
       \/ major[step[x]] < major[x]
       \/ major[step[x]] = major[x] /\ minor[step[x]] < minor[x]

\* What holds where the walk stops, and before a step where it holds behind it, holds
\* everywhere.
LEMMA DescentInduction ==
  ASSUME NEW D, NEW stop, NEW step, NEW major, NEW minor,
         GoesDown(D, stop, step, major, minor),
         NEW G, stop \subseteq G, \A x \in D \ stop : step[x] \in G => x \in G
  PROVE  D \subseteq G
<1> DEFINE T == D \ G
           A == {major[x] : x \in T}
<1> SUFFICES ASSUME T # {} PROVE FALSE
  OBVIOUS
<1>1. A \in SUBSET Nat /\ A # {}
  BY DEF GoesDown
<1>2. PICK m \in A : \A y \in A : m <= y
  <2> HIDE DEF A
  <2> QED
    BY <1>1, LeastOf
<1> DEFINE U == {x \in T : major[x] = m}
           B == {minor[x] : x \in U}
<1>3. B \in SUBSET Nat /\ B # {}
  BY SMTT(40), <1>2 DEF GoesDown
<1>4. PICK n \in B : \A y \in B : n <= y
  <2> HIDE DEF B
  <2> QED
    BY <1>3, LeastOf
<1>5. PICK x \in U : minor[x] = n
  BY <1>4
<1>6. x \in D \ stop /\ step[x] \in D /\ step[x] \notin G
  BY <1>5 DEF GoesDown
<1>7. step[x] \in T /\ m <= major[step[x]] /\ major[x] = m
  BY <1>2, <1>5, <1>6
<1>8. \/ major[step[x]] < major[x]
      \/ major[step[x]] = major[x] /\ minor[step[x]] < minor[x]
  BY <1>6 DEF GoesDown
<1>9. major[step[x]] \in Nat /\ major[x] \in Nat /\ minor[step[x]] \in Nat /\ minor[x] \in Nat
  BY <1>6 DEF GoesDown
<1>10. major[step[x]] = m /\ minor[step[x]] < n
  BY <1>5, <1>7, <1>8, <1>9
<1>11. n <= minor[step[x]]
  BY <1>4, <1>7, <1>10
<1> QED
  BY <1>5, <1>9, <1>10, <1>11

\* The relations that hold of a place where the walk stops and its value, and of a
\* place before a step and what holds behind it.
Follows(D, V, stop, step, value) ==
  {R \in SUBSET (D \X V) :
     /\ \A x \in stop : <<x, value[x]>> \in R
     /\ \A x \in D \ stop : \A v \in V : <<step[x], v>> \in R => <<x, v>> \in R}

\* f is `value` where the walk stops and elsewhere what it is behind the next step.
Leads(D, stop, step, value, f) ==
  \A x \in D : f[x] = IF x \in stop THEN value[x] ELSE f[step[x]]

\* Such a function exists.
LEMMA DescentFunction ==
  ASSUME NEW D, NEW V, NEW stop, NEW step, NEW major, NEW minor,
         GoesDown(D, stop, step, major, minor), NEW value \in [D -> V]
  PROVE  \E f \in [D -> V] : Leads(D, stop, step, value, f)
<1> DEFINE E == {p \in D \X V : \A R \in Follows(D, V, stop, step, value) : p \in R}
           Of(x) == {v \in V : <<x, v>> \in E}
           f == [x \in D |-> CHOOSE v : v \in Of(x)]
<1>0. stop \subseteq D /\ step \in [D -> D]
  BY DEF GoesDown
<1>1. \A x \in stop : <<x, value[x]>> \in E
  BY <1>0 DEF Follows
<1>2. \A x \in D \ stop : \A v \in V : <<step[x], v>> \in E => <<x, v>> \in E
  BY <1>0 DEF Follows
<1>3. ASSUME NEW x \in D, NEW v \in V, <<x, v>> \in E
      PROVE  IF x \in stop THEN v = value[x] ELSE <<step[x], v>> \in E
  <2> DEFINE R == {p \in E : IF p[1] \in stop THEN p[2] = value[p[1]]
                            ELSE <<step[p[1]], p[2]>> \in E}
  <2>1. R \in SUBSET (D \X V)
    OBVIOUS
  <2>2. \A y \in stop : <<y, value[y]>> \in R
    BY <1>1
  <2>3. \A y \in D \ stop : \A w \in V : <<step[y], w>> \in R => <<y, w>> \in R
    BY <1>2
  <2>4. R \in Follows(D, V, stop, step, value)
    <3> HIDE DEF R, E
    <3> QED
      BY <2>1, <2>2, <2>3 DEF Follows
  <2>5. <<x, v>> \in R
    BY <1>3, <2>4
  <2> QED
    BY <2>5
<1>4. \A x \in D : \E v \in V : <<x, v>> \in E
  <2> DEFINE G == {x \in D : \E v \in V : <<x, v>> \in E}
  <2>1. stop \subseteq G
    <3> HIDE DEF E
    <3> QED
      BY <1>0, <1>1
  <2>2. \A x \in D \ stop : step[x] \in G => x \in G
    <3> HIDE DEF E
    <3> QED
      BY <1>0, <1>2
  <2>3. D \subseteq G
    <3> HIDE DEF G
    <3> QED
      BY <2>1, <2>2, DescentInduction
  <2> QED
    BY <2>3
<1> HIDE DEF E
<1>5. f \in [D -> V] /\ \A x \in D : f[x] \in Of(x)
  BY <1>4
<1>6. ASSUME NEW x \in D PROVE f[x] = IF x \in stop THEN value[x] ELSE f[step[x]]
  <2>1. CASE x \in stop
    BY <1>3, <1>5, <2>1
  <2>2. CASE x \notin stop
    <3>1. Of(x) = Of(step[x])
      BY <1>2, <1>3, <2>2
    <3>2. f[x] = (CHOOSE v : v \in Of(x)) /\ f[step[x]] = (CHOOSE v : v \in Of(step[x]))
      BY <1>0, <2>2
    <3> HIDE DEF f, Of
    <3> QED
      BY <2>2, <3>1, <3>2
  <2> QED
    BY <2>1, <2>2
<1> HIDE DEF f, Of
<1> QED
  BY <1>5, <1>6 DEF Leads
=============================================================================
