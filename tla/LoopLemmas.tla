------------------------------ MODULE LoopLemmas ------------------------------
(***************************************************************************)
(* Loops.  A loop is a recursive function over the number of turns taken:  *)
(* there is one, and what holds before the first turn and is kept by every *)
(* turn holds after each.                                                  *)
(***************************************************************************)
EXTENDS Integers, TLAPS, WellFoundedInduction

(* g holds the states of a loop of N turns from x0, G[n] its n-th turn.    *)
Turns(N, S, x0, G, g) ==
  /\ g \in [0 .. N -> S]
  /\ g[0] = x0
  /\ \A n \in 1 .. N : g[n] = G[n][g[n - 1]]

LEMMA LoopExists ==
  ASSUME NEW N \in Nat, NEW S, NEW x0 \in S, NEW G \in [1 .. N -> [S -> S]]
  PROVE  \E g : Turns(N, S, x0, G, g)
<1> DEFINE Runs(g, m) == /\ g \in [0 .. m -> S]
                         /\ g[0] = x0
                         /\ \A n \in 1 .. m : g[n] = G[n][g[n - 1]]
           Stuck == {m \in 0 .. N : \A g : ~Runs(g, m)}
<1>1. Stuck = {}
  <2> SUFFICES ASSUME Stuck # {} PROVE FALSE
    OBVIOUS
  <2>1. Stuck \subseteq Nat
    OBVIOUS
  <2> HIDE DEF Stuck
  <2>2. \E m \in Stuck : \A k \in Stuck : ~(<<k, m>> \in OpToRel(<, Nat))
    BY <2>1, NatLessThanWellFounded, WFMin
  <2>3. PICK m \in Stuck : \A k \in Stuck : ~(k < m)
    BY <2>1, <2>2 DEF OpToRel
  <2>4. m \in 0 .. N /\ m \in Nat
    BY <2>1 DEF Stuck
  <2>5. CASE m = 0
    <3> DEFINE g == [n \in 0 .. 0 |-> x0]
    <3>1. Runs(g, 0)
      OBVIOUS
    <3> HIDE DEF Runs, g
    <3> QED
      BY <2>3, <2>5, <3>1 DEF Stuck
  <2>6. CASE m # 0
    <3>1. m - 1 \in 0 .. N /\ m - 1 < m /\ m - 1 \in Nat
      BY <2>4, <2>6
    <3>2. m - 1 \notin Stuck
      BY <2>3, <3>1
    <3>3. PICK g : Runs(g, m - 1)
      <4> HIDE DEF Runs
      <4> QED
        BY <3>1, <3>2 DEF Stuck
    <3> DEFINE e == [n \in 0 .. m |-> IF n = m THEN G[m][g[m - 1]] ELSE g[n]]
    <3>4. g[m - 1] \in S /\ m \in 1 .. N
      BY <2>4, <2>6, <3>1, <3>3
    <3>5. G[m][g[m - 1]] \in S
      BY <3>4
    <3>6. e \in [0 .. m -> S]
      BY <2>4, <3>3, <3>5
    <3>7. e[0] = x0
      BY <2>4, <2>6, <3>3
    <3>8. ASSUME NEW n \in 1 .. m PROVE e[n] = G[n][e[n - 1]]
      <4>1. n - 1 \in 0 .. m /\ n - 1 # m /\ n \in 0 .. m
        BY <2>4
      <4>2. e[n - 1] = g[n - 1]
        BY <4>1
      <4>3. CASE n = m
        BY <4>1, <4>2, <4>3
      <4>4. CASE n # m
        <5>1. n \in 1 .. (m - 1) /\ e[n] = g[n]
          BY <2>4, <4>1, <4>4
        <5> HIDE DEF e
        <5> QED
          BY <3>3, <4>2, <5>1
      <4> QED
        BY <4>3, <4>4
    <3> HIDE DEF e
    <3>9. Runs(e, m)
      BY <3>6, <3>7, <3>8
    <3> HIDE DEF Runs
    <3> QED
      BY <3>9 DEF Stuck
  <2> QED
    BY <2>5, <2>6
<1>2. N \in 0 .. N /\ N \notin Stuck
  <2> HIDE DEF Stuck
  <2>1. N \in 0 .. N
    OBVIOUS
  <2> QED
    BY <1>1, <2>1
<1>3. PICK g : Runs(g, N)
  <2> HIDE DEF Runs
  <2> QED
    BY <1>2
<1> QED
  BY <1>3 DEF Turns

LEMMA LoopKeeps ==
  ASSUME NEW N \in Nat, NEW S, NEW f, f[0] \in S,
         \A n \in 1 .. N : f[n - 1] \in S => f[n] \in S
  PROVE  \A n \in 0 .. N : f[n] \in S
<1> DEFINE Off == {n \in 0 .. N : f[n] \notin S}
<1> SUFFICES ASSUME Off # {} PROVE FALSE
  OBVIOUS
<1>1. Off \subseteq Nat
  OBVIOUS
<1>2. \E m \in Off : \A k \in Off : ~(<<k, m>> \in OpToRel(<, Nat))
  BY <1>1, NatLessThanWellFounded, WFMin
<1>3. PICK m \in Off : \A k \in Off : ~(k < m)
  BY <1>1, <1>2 DEF OpToRel
<1>4. m \in 0 .. N /\ f[m] \notin S /\ m # 0
  OBVIOUS
<1>5. m - 1 \in 0 .. N /\ m \in 1 .. N /\ m - 1 < m
  BY <1>4
<1> QED
  BY <1>3, <1>4, <1>5

LEMMA TurnsPass ==
  ASSUME NEW N \in Nat, NEW H, 0 \in H, \A n \in 1 .. N : n - 1 \in H => n \in H
  PROVE  N \in H
<1> DEFINE f == [n \in 0 .. N |-> n]
<1>1. f[0] \in H /\ \A n \in 1 .. N : f[n - 1] \in H => f[n] \in H
  OBVIOUS
<1> HIDE DEF f
<1>2. \A n \in 0 .. N : f[n] \in H
  BY <1>1, LoopKeeps
<1> QED
  BY <1>2 DEF f

=============================================================================
