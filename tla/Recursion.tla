----------------------------- MODULE Recursion -----------------------------
(***************************************************************************)
(* Induction over the naturals and recursive functions, stated without     *)
(* operator parameters: a property of numbers is the set of the numbers    *)
(* that have it, and the body of a recursive function is given by          *)
(* functions.                                                              *)
(***************************************************************************)
EXTENDS Integers, WellFoundedInduction, TLAPS

(* A well-founded relation that holds at least of the pairs m < n.         *)
LEMMA LessThanIsFounded ==
  \E R : IsWellFoundedOn(R, Nat) /\ \A m, n \in Nat : m < n => <<m, n>> \in R
<1>1. \A m, n \in Nat : m < n => <<m, n>> \in OpToRel(<, Nat)
  BY DEF OpToRel
<1> QED BY <1>1, NatLessThanWellFounded

(* A set of naturals that is not empty has a least element.                *)
LEMMA LeastNatural ==
  ASSUME NEW T, T \subseteq Nat, T # {}
  PROVE  \E n \in T : \A m \in T : n <= m
<1>1. PICK R : /\ IsWellFoundedOn(R, Nat)
               /\ \A m, n \in Nat : m < n => <<m, n>> \in R
  BY LessThanIsFounded
<1>2. PICK n \in T : \A m \in T : ~(<<m, n>> \in R)
  <2>1. IsWellFoundedOn(R, Nat)
    BY <1>1
  <2> QED BY <2>1, WFMin, Zenon
<1>3. ASSUME NEW m \in T PROVE n <= m
  <2>1. m \in Nat /\ n \in Nat
    OBVIOUS
  <2>2. ~(m < n)
    BY <2>1, <1>1, <1>2
  <2> QED BY <2>1, <2>2
<1> QED BY <1>3

(* Induction: the numbers that have a property are all of them if 0 has it *)
(* and n + 1 has it whenever n does.                                       *)
LEMMA Induction ==
  ASSUME NEW S, 0 \in S, \A n \in Nat : n \in S => n + 1 \in S
  PROVE  \A n \in Nat : n \in S
<1> DEFINE T == Nat \ S
<1> SUFFICES ASSUME T # {} PROVE FALSE
  OBVIOUS
<1>1. T \subseteq Nat
  OBVIOUS
<1> HIDE DEF T
<1>2. PICK n \in T : \A m \in T : n <= m
  BY <1>1, LeastNatural
<1>3. n \in Nat \ S /\ n # 0
  BY DEF T
<1>4. n - 1 \in Nat /\ (n - 1) + 1 = n /\ ~(n <= n - 1)
  BY <1>3
<1>5. n - 1 \in S
  BY <1>2, <1>4 DEF T
<1> QED BY <1>3, <1>4, <1>5

-----------------------------------------------------------------------------
(* f is the value stop at a point of Stop, and elsewhere what join makes of *)
(* its value at the next point.                                            *)
Recurs(f, D, Stop, stop, join, next) ==
  \A p \in D : f[p] = IF p \in Stop THEN stop[p] ELSE join[p][f[next[p]]]

(* The next point is nearer to a stop.                                     *)
Descends(D, Stop, next, measure) ==
  \A p \in D \ Stop : measure[next[p]] < measure[p]

(* g does so where the measure is less than n.                             *)
Solves(g, n, D, Stop, stop, join, next, measure) ==
  \A p \in D : measure[p] < n =>
    g[p] = IF p \in Stop THEN stop[p] ELSE join[p][g[next[p]]]

(* Two functions that satisfy the equation below n agree there.            *)
LEMMA SolutionsAgree ==
  ASSUME NEW D, NEW Stop, NEW stop, NEW join, NEW next \in [D -> D],
         NEW measure \in [D -> Nat],
         Descends(D, Stop, next, measure),
         NEW g, NEW h, NEW n \in Nat,
         Solves(g, n, D, Stop, stop, join, next, measure),
         Solves(h, n, D, Stop, stop, join, next, measure),
         NEW p \in D, measure[p] < n
  PROVE  g[p] = h[p]
<1> DEFINE T == {measure[q] : q \in {r \in D : measure[r] < n /\ g[r] # h[r]}}
<1> SUFFICES ASSUME g[p] # h[p] PROVE FALSE
  OBVIOUS
<1>1. T \subseteq Nat /\ T # {}
  OBVIOUS
<1>2. PICK k \in T : \A m \in T : k <= m
  <2> HIDE DEF T
  <2> QED BY <1>1, LeastNatural
<1>3. PICK q \in D : measure[q] = k /\ measure[q] < n /\ g[q] # h[q]
  OBVIOUS
<1>4. /\ g[q] = IF q \in Stop THEN stop[q] ELSE join[q][g[next[q]]]
      /\ h[q] = IF q \in Stop THEN stop[q] ELSE join[q][h[next[q]]]
  BY <1>3 DEF Solves
<1>5. q \notin Stop /\ g[next[q]] # h[next[q]]
  BY <1>3, <1>4
<1>6. next[q] \in D /\ measure[next[q]] \in Nat /\ measure[q] \in Nat
      /\ measure[next[q]] < measure[q]
  BY <1>5 DEF Descends
<1>7. measure[next[q]] \in T
  BY <1>3, <1>5, <1>6
<1>8. measure[q] <= measure[next[q]]
  BY <1>2, <1>3, <1>7
<1> QED BY <1>6, <1>8

(* For every n some function satisfies the equation below n.               *)
LEMMA SolutionsExist ==
  ASSUME NEW D, NEW V, NEW Stop, NEW stop \in [D -> V],
         NEW join \in [D -> [V -> V]], NEW next \in [D -> D],
         NEW measure \in [D -> Nat],
         Descends(D, Stop, next, measure)
  PROVE  \A n \in Nat : \E g \in [D -> V] :
           Solves(g, n, D, Stop, stop, join, next, measure)
<1> DEFINE Sol(g, n) == Solves(g, n, D, Stop, stop, join, next, measure)
           S == {n \in Nat : \E g \in [D -> V] : Sol(g, n)}
<1>1. 0 \in S
  <2>1. \A p \in D : ~(measure[p] < 0)
    OBVIOUS
  <2> QED BY <2>1 DEF Solves
<1>2. ASSUME NEW n \in Nat, n \in S PROVE n + 1 \in S
  <2>1. PICK g \in [D -> V] : Sol(g, n)
    BY <1>2
  <2> DEFINE h == [p \in D |-> IF p \in Stop THEN stop[p] ELSE join[p][g[next[p]]]]
  <2>2. h \in [D -> V]
    OBVIOUS
  <2>3. ASSUME NEW p \in D, measure[p] < n PROVE h[p] = g[p]
    BY <2>1, <2>3 DEF Solves
  <2>4. ASSUME NEW p \in D, measure[p] < n + 1
        PROVE  h[p] = IF p \in Stop THEN stop[p] ELSE join[p][h[next[p]]]
    <3>1. CASE p \in Stop
      BY <3>1
    <3>2. CASE p \notin Stop
      <4>1. next[p] \in D /\ measure[next[p]] \in Nat /\ measure[p] \in Nat
            /\ measure[next[p]] < measure[p]
        BY <3>2 DEF Descends
      <4>2. measure[next[p]] < n
        BY <2>4, <4>1
      <4>3. h[next[p]] = g[next[p]]
        BY <2>3, <4>1, <4>2
      <4>4. h[p] = join[p][g[next[p]]]
        BY <3>2
      <4> QED BY <3>2, <4>3, <4>4
    <3> QED BY <3>1, <3>2
  <2> HIDE DEF h
  <2>5. Sol(h, n + 1)
    BY <2>4 DEF Solves
  <2> QED BY <2>2, <2>5
<1> HIDE DEF S
<1>3. \A n \in Nat : n \in S
  BY <1>1, <1>2, Induction
<1> QED BY <1>3 DEF S

(***************************************************************************)
(* A recursive definition whose every call has a smaller measure defines a *)
(* function: its equation has a solution.                                  *)
(***************************************************************************)
LEMMA RecursionDefines ==
  ASSUME NEW D, NEW V, NEW Stop, NEW stop \in [D -> V],
         NEW join \in [D -> [V -> V]], NEW next \in [D -> D],
         NEW measure \in [D -> Nat],
         Descends(D, Stop, next, measure)
  PROVE  \E f \in [D -> V] : Recurs(f, D, Stop, stop, join, next)
<1> DEFINE Sol(g, n) == Solves(g, n, D, Stop, stop, join, next, measure)
           G(n) == CHOOSE g \in [D -> V] : Sol(g, n)
           f == [p \in D |-> G(measure[p] + 1)[p]]
<1>1. ASSUME NEW n \in Nat PROVE G(n) \in [D -> V] /\ Sol(G(n), n)
  <2>1. \E g \in [D -> V] : Sol(g, n)
    BY SolutionsExist
  <2> QED BY <2>1, Zenon
<1>2. \A p \in D : measure[p] \in Nat /\ measure[p] + 1 \in Nat
  OBVIOUS
<1>3. f \in [D -> V]
  <2> HIDE DEF G
  <2>1. \A p \in D : G(measure[p] + 1)[p] \in V
    BY <1>1, <1>2
  <2> QED BY <2>1
<1>4. ASSUME NEW p \in D
      PROVE  f[p] = IF p \in Stop THEN stop[p] ELSE join[p][f[next[p]]]
  <2> HIDE DEF G
  <2> DEFINE n == measure[p] + 1
             g == G(n)
  <2>0. n \in Nat /\ measure[p] < n /\ f[p] = g[p]
    BY <1>2
  <2>1. Sol(g, n)
    BY <1>1, <2>0
  <2>2. g[p] = IF p \in Stop THEN stop[p] ELSE join[p][g[next[p]]]
    BY <2>0, <2>1 DEF Solves
  <2>3. CASE p \in Stop
    BY <2>0, <2>2, <2>3
  <2>4. CASE p \notin Stop
    <3> DEFINE q == next[p]
               k == measure[q] + 1
    <3>1. q \in D /\ measure[q] \in Nat /\ measure[q] < measure[p]
          /\ measure[p] \in Nat
      BY <2>4 DEF Descends
    <3>2. k \in Nat /\ k <= n /\ measure[q] < k /\ f[q] = G(k)[q]
      BY <3>1
    <3>3. Sol(G(k), k)
      BY <1>1, <3>2
    <3>4. Sol(g, k)
      <4> SUFFICES ASSUME NEW r \in D, measure[r] < k PROVE measure[r] < n
        BY <2>1 DEF Solves
      <4> QED BY <1>2, <2>0, <3>2
    <3> HIDE DEF k, q, g
    <3>5. G(k)[q] = g[q]
      BY <3>1, <3>2, <3>3, <3>4, SolutionsAgree
    <3> QED BY <2>0, <2>2, <2>4, <3>2, <3>5 DEF q
  <2> QED BY <2>3, <2>4
<1> HIDE DEF f
<1>5. Recurs(f, D, Stop, stop, join, next)
  BY <1>4 DEF Recurs
<1> QED BY <1>3, <1>5
=============================================================================
