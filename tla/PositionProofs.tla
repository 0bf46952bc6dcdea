--------------------------- MODULE PositionProofs ---------------------------
(***************************************************************************)
(* Proof that the positions the simulator keeps by subtraction are those a *)
(* walk of the queue counts.  First what a walk counts and how the         *)
(* operations on the book change it, then what each part of an operation   *)
(* of the simulator keeps between the two, then one step per action.       *)
(*                                                                         *)
(* From "Sums" on, proof that a decision's accounts balance: what a side   *)
(* is worth as sums over levels, reserves and hidden orders, how the       *)
(* book's operations change each sum, then the two quantities every step   *)
(* of a sweep keeps.                                                       *)
(***************************************************************************)
EXTENDS SimulatorProofs

----------------------------------------------------------------------------
(* Units of a set of orders at one level.                                  *)

Owned(b, A) == UNION {Held(i, b.slot[i].qty) : i \in A}
Units(b, A) == Cardinality(Owned(b, A))

LEMMA UnitsNone == ASSUME NEW b PROVE Units(b, {}) = 0
<1>1. Owned(b, {}) = {}
  BY DEF Owned
<1> QED
  BY <1>1, FS_EmptySet DEF Units

LEMMA UnitsFinite ==
  ASSUME NEW b, GoodBook(b), NEW s \in Side, NEW t \in Ticks, NEW A \in SUBSET OrdersAt(b, s, t)
  PROVE  IsFiniteSet(Owned(b, A)) /\ Units(b, A) \in Nat
<1>1. Owned(b, A) \subseteq Shares(b, s, t)
  BY DEF Owned, Shares, Held
<1>2. IsFiniteSet(Shares(b, s, t))
  BY GoodParts DEF Finite
<1> QED
  BY <1>1, <1>2, FS_Subset, FS_CardinalityType DEF Units

LEMMA UnitsAll ==
  ASSUME NEW b, GoodBook(b), NEW s \in Side, NEW t \in Ticks
  PROVE  b.level[s][t].total = Units(b, OrdersAt(b, s, t))
<1>1. Owned(b, OrdersAt(b, s, t)) = Shares(b, s, t)
  BY DEF Owned, Shares, Held
<1> QED
  BY <1>1, GoodParts DEF Aggregated, Units

LEMMA UnitsSplit ==
  ASSUME NEW b, GoodBook(b), NEW s \in Side, NEW t \in Ticks,
         NEW A \in SUBSET OrdersAt(b, s, t), NEW h \in A
  PROVE  Units(b, A) = Units(b, A \ {h}) + b.slot[h].qty
<1> DEFINE S == Owned(b, A \ {h})
           T == Held(h, b.slot[h].qty)
<1>1. b.slot[h].qty \in Nat
  BY GoodParts, LiveOrder DEF OrdersAt, Typed
<1>2. IsFiniteSet(T) /\ Cardinality(T) = b.slot[h].qty
  BY <1>1, HeldCount
<1>3. IsFiniteSet(S) /\ Cardinality(S) = Units(b, A \ {h})
  BY UnitsFinite DEF Units
<1>4. Owned(b, A) = S \union T
  <2>1. \A p : p \in Owned(b, A) <=> \E i \in A : p \in Held(i, b.slot[i].qty)
    BY DEF Owned
  <2>2. \A p : p \in S <=> \E i \in A \ {h} : p \in Held(i, b.slot[i].qty)
    BY DEF Owned
  <2> HIDE DEF S
  <2> QED
    BY <2>1, <2>2
<1>5. S \intersect T = {}
  <2> SUFFICES ASSUME NEW p \in S, p \in T PROVE FALSE
    OBVIOUS
  <2>1. PICK i \in A \ {h} : p \in Held(i, b.slot[i].qty)
    BY DEF Owned
  <2>2. p[1] = i /\ p[1] = h
    BY <2>1 DEF Held
  <2> QED
    BY <2>2
<1> HIDE DEF S, T
<1>6. Cardinality(S \intersect T) = 0
  BY <1>5, FS_EmptySet
<1>7. Cardinality(S \union T) = Cardinality(S) + Cardinality(T) - Cardinality(S \intersect T)
  BY <1>2, <1>3, FS_Union
<1>8. Cardinality(S) \in Nat
  BY <1>3, FS_CardinalityType
<1> QED
  BY <1>1, <1>2, <1>3, <1>4, <1>6, <1>7, <1>8 DEF Units

LEMMA UnitsSame ==
  ASSUME NEW b, NEW c, NEW A, \A i \in A : c.slot[i].qty = b.slot[i].qty
  PROVE  Units(c, A) = Units(b, A)
<1>1. Owned(c, A) = Owned(b, A)
  BY DEF Owned
<1> QED
  BY <1>1 DEF Units

----------------------------------------------------------------------------
(* What a walk counts: the units of the orders that joined before.         *)

LEMMA BeforeAt ==
  ASSUME NEW b, NEW a, Sound(b, a), NEW h \in b.live
  PROVE  /\ b.slot[h].side \in Side /\ b.slot[h].px \in Ticks /\ h \in Slots
         /\ a[h] \subseteq OrdersAt(b, b.slot[h].side, b.slot[h].px) /\ h \notin a[h]
         /\ LinkedBack(b, a, h)
BY LiveOrder DEF Sound, Queued

LEMMA FewerBefore ==
  ASSUME NEW A \in SUBSET Slots
  PROVE  IsFiniteSet(A) /\ Cardinality(A) \in Nat /\ Cardinality(A) <= Cardinality(Slots)
BY SlotAssumption, FS_Subset, FS_CardinalityType

LEMMA WalkCounts ==
  ASSUME NEW b, GoodBook(b), NEW a, Sound(b, a), NEW h \in b.live
  PROVE  AheadOf(b, h) = Units(b, a[h])
<1> DEFINE N == Cardinality(Slots)
           s == b.slot[h].side
           t == b.slot[h].px
           all == Units(b, a[h])
           P(n, at, sum) ==
             \/ at = NullIndex /\ sum = all
             \/ /\ at \in OrdersAt(b, s, t) /\ sum \in Nat
                /\ sum + Units(b, a[at] \union {at}) = all
                /\ Cardinality(a[at]) + n < N
<1>1. PICK f : AheadWalk(b, h, f)
  BY AheadWalks, GoodParts
<1>2. N \in Nat
  BY SlotAssumption, FS_CardinalityType
<1>3. h \in OrdersAt(b, s, t) /\ s \in Side /\ t \in Ticks
  BY BeforeAt DEF OrdersAt
<1>4. all \in Nat
  BY <1>3, BeforeAt, UnitsFinite
(* One turn further back.                                                  *)
<1>5. ASSUME NEW x \in OrdersAt(b, s, t), NEW n \in Nat, Cardinality(a[x]) + n <= N,
             NEW sum \in Nat, sum + Units(b, a[x]) = all
      PROVE  P(n, b.slot[x].prev, sum)
  <2> DEFINE p == b.slot[x].prev
  <2>1. /\ b.slot[x].side = s /\ b.slot[x].px = t /\ LinkedBack(b, a, x)
        /\ x \in b.live /\ a[x] \subseteq OrdersAt(b, s, t)
    BY BeforeAt DEF OrdersAt
  <2>2. CASE p = NullIndex
    <3>1. a[x] = {}
      BY <2>1, <2>2 DEF LinkedBack
    <3>2. sum = all
      BY <1>5, <3>1, UnitsNone
    <3> QED
      BY <2>2, <3>2
  <2>3. CASE p # NullIndex
    <3>1. p \in OrdersAt(b, s, t) /\ a[x] = a[p] \union {p}
      BY <2>1, <2>3 DEF LinkedBack
    <3>2. p \notin a[p] /\ p \in Slots /\ a[p] \subseteq Slots
      BY <3>1, BeforeAt, GoodParts DEF OrdersAt
    <3>3. IsFiniteSet(a[p]) /\ Cardinality(a[p]) \in Nat
      BY <3>2, FewerBefore
    <3>4. Cardinality(a[x]) = Cardinality(a[p]) + 1
      BY <3>1, <3>2, <3>3, FS_AddElement
    <3>5. Cardinality(a[p]) + n < N
      BY <1>2, <1>5, <3>3, <3>4
    <3>6. P(n, p, sum)
      <4> HIDE DEF p, N, all
      <4> QED
        BY <1>5, <3>1, <3>5
    <3> QED
      BY <3>6
  <2> QED
    BY <2>2, <2>3
<1> DEFINE H == {n \in 0 .. N : P(n, f[n].at, f[n].sum)}
<1>6. 0 \in H
  <2>1. f[0].at = b.slot[h].prev /\ f[0].sum = 0
    BY <1>1 DEF AheadWalk
  <2>2. a[h] \subseteq Slots
    BY BeforeAt, GoodParts DEF OrdersAt
  <2>3. Cardinality(a[h]) + 0 <= N /\ 0 + Units(b, a[h]) = all
    BY <1>4, <2>2, FewerBefore
  <2> HIDE DEF P, all, N
  <2>4. P(0, b.slot[h].prev, 0)
    BY <1>3, <1>5, <2>3
  <2> QED
    BY <1>2, <2>1, <2>4
<1>7. ASSUME NEW n \in 1 .. N, n - 1 \in H PROVE n \in H
  <2> DEFINE c == f[n - 1]
  <2>1. P(n - 1, c.at, c.sum)
    BY <1>7
  <2>2. f[n] = AheadTurn(b, c)
    BY <1>1 DEF AheadWalk
  <2> HIDE DEF c
  <2>3. CASE c.at = NullIndex
    <3>1. c.sum = all
      <4>1. NullIndex \notin OrdersAt(b, s, t)
        BY GoodParts, SlotAssumption DEF OrdersAt
      <4> QED
        BY <2>1, <2>3, <4>1
    <3>2. f[n] = c
      BY <2>2, <2>3 DEF AheadTurn
    <3> HIDE DEF N, all
    <3> QED
      BY <2>3, <3>1, <3>2
  <2>4. CASE c.at # NullIndex
    <3> DEFINE x == c.at
    <3>1. /\ x \in OrdersAt(b, s, t) /\ c.sum \in Nat
          /\ c.sum + Units(b, a[x] \union {x}) = all /\ Cardinality(a[x]) + (n - 1) < N
      BY <2>1, <2>4
    <3>2. f[n].at = b.slot[x].prev /\ f[n].sum = c.sum + b.slot[x].qty
      BY <2>2, <2>4 DEF AheadTurn
    <3> HIDE DEF x
    <3>3. /\ x \in b.live /\ a[x] \subseteq OrdersAt(b, s, t) /\ x \notin a[x]
          /\ b.slot[x].qty \in Nat
      BY <3>1, BeforeAt, GoodParts, LiveOrder DEF OrdersAt, Typed
    <3>4. Units(b, a[x] \union {x}) = Units(b, a[x]) + b.slot[x].qty
      <4>1. a[x] \union {x} \in SUBSET OrdersAt(b, s, t) /\ (a[x] \union {x}) \ {x} = a[x]
        BY <3>1, <3>3
      <4> QED
        BY <1>3, <4>1, UnitsSplit
    <3>5. Units(b, a[x]) \in Nat /\ Cardinality(a[x]) \in Nat
      <4>1. a[x] \subseteq Slots
        BY <3>3, GoodParts DEF OrdersAt
      <4> QED
        BY <1>3, <3>3, <4>1, UnitsFinite, FewerBefore
    <3> HIDE DEF N, all
    <3>6. /\ c.sum + b.slot[x].qty \in Nat /\ (c.sum + b.slot[x].qty) + Units(b, a[x]) = all
          /\ Cardinality(a[x]) + n <= N /\ n \in Nat
      BY <1>2, <3>1, <3>3, <3>4, <3>5
    <3> HIDE DEF P
    <3>7. P(n, b.slot[x].prev, c.sum + b.slot[x].qty)
      BY <1>5, <3>1, <3>6
    <3> QED
      BY <3>2, <3>7
  <2> QED
    BY <2>3, <2>4
<1> HIDE DEF H
<1>8. N \in H
  BY <1>2, <1>6, <1>7, TurnsPass
<1>9. P(N, f[N].at, f[N].sum)
  BY <1>8 DEF H
<1>10. f[N].sum = all
  <2> DEFINE x == f[N].at
  <2>1. CASE x \in OrdersAt(b, s, t)
    <3>1. x \in b.live
      BY <2>1 DEF OrdersAt
    <3>2. a[x] \subseteq Slots
      BY <3>1, BeforeAt, GoodParts DEF OrdersAt
    <3>3. Cardinality(a[x]) \in Nat
      BY <3>2, FewerBefore
    <3> HIDE DEF x
    <3>4. ~(Cardinality(a[x]) + N < N)
      BY <1>2, <3>3
    <3> QED
      BY <1>9, <3>4 DEF x
  <2> QED
    BY <1>9, <2>1
<1> QED
  BY <1>1, <1>10 DEF AheadWalk

----------------------------------------------------------------------------
(* How the operations on the book change what is ahead.                    *)

(* The head of a level joined it before every other order there.           *)
LEMMA HeadFirst ==
  ASSUME NEW b, GoodBook(b), NEW a, Sound(b, a), NEW s \in Side, NEW t \in Ticks,
         NEW g, g = b.level[s][t].head, NEW h \in OrdersAt(b, s, t), h # g
  PROVE  g \in a[h]
<1> DEFINE N == Cardinality(Slots)
           H == {n \in 0 .. N : \A x \in OrdersAt(b, s, t) :
                   Cardinality(a[x]) <= n => x = g \/ g \in a[x]}
<1>1. N \in Nat
  BY SlotAssumption, FS_CardinalityType
<1>2. ASSUME NEW x \in OrdersAt(b, s, t)
      PROVE  /\ x \in b.live /\ LinkedBack(b, a, x) /\ b.slot[x].side = s /\ b.slot[x].px = t
             /\ a[x] \subseteq Slots /\ IsFiniteSet(a[x]) /\ Cardinality(a[x]) \in Nat
             /\ Cardinality(a[x]) <= N /\ x \notin a[x]
  <2>1. a[x] \subseteq Slots /\ x \in b.live /\ x \notin a[x]
    BY BeforeAt, GoodParts DEF OrdersAt
  <2> QED
    BY <2>1, BeforeAt, FewerBefore DEF OrdersAt
<1>3. ASSUME NEW x \in OrdersAt(b, s, t), x # g
      PROVE  \E p \in OrdersAt(b, s, t) : /\ a[x] = a[p] \union {p}
                                          /\ Cardinality(a[x]) = Cardinality(a[p]) + 1
  <2> DEFINE p == b.slot[x].prev
  <2>1. p # NullIndex
    BY <1>2, <1>3 DEF LinkedBack
  <2>2. p \in OrdersAt(b, s, t) /\ a[x] = a[p] \union {p}
    BY <1>2, <2>1 DEF LinkedBack
  <2>3. Cardinality(a[x]) = Cardinality(a[p]) + 1
    BY <1>2, <2>2, FS_AddElement
  <2> QED
    BY <2>2, <2>3
<1>4. 0 \in H
  <2> SUFFICES ASSUME NEW x \in OrdersAt(b, s, t), Cardinality(a[x]) <= 0, x # g PROVE FALSE
    BY <1>1
  <2>1. PICK p \in OrdersAt(b, s, t) : Cardinality(a[x]) = Cardinality(a[p]) + 1
    BY <1>3
  <2>2. Cardinality(a[p]) \in Nat
    BY <1>2
  <2> QED
    BY <2>1, <2>2
<1>5. ASSUME NEW n \in 1 .. N, n - 1 \in H PROVE n \in H
  <2> SUFFICES ASSUME NEW x \in OrdersAt(b, s, t), Cardinality(a[x]) <= n, x # g
               PROVE  g \in a[x]
    OBVIOUS
  <2>1. PICK p \in OrdersAt(b, s, t) : /\ a[x] = a[p] \union {p}
                                       /\ Cardinality(a[x]) = Cardinality(a[p]) + 1
    BY <1>3
  <2>2. Cardinality(a[p]) \in Nat
    BY <1>2
  <2>3. Cardinality(a[p]) <= n - 1
    BY <2>1, <2>2
  <2>4. p = g \/ g \in a[p]
    BY <1>5, <2>3
  <2> QED
    BY <2>1, <2>4
<1> HIDE DEF H
<1>6. N \in H
  BY <1>1, <1>4, <1>5, TurnsPass
<1> QED
  BY <1>2, <1>6 DEF H

LEMMA AheadAtHead ==
  ASSUME NEW b, GoodBook(b), NEW s \in Side, NEW t \in Ticks,
         NEW g, g = b.level[s][t].head, NEW h \in OrdersAt(b, s, t)
  PROVE  /\ AheadOf(b, h) \in Nat
         /\ h = g => AheadOf(b, h) = 0
         /\ h # g => g \in OrdersAt(b, s, t) /\ AheadOf(b, h) >= b.slot[g].qty
<1>1. PICK a : Sound(b, a)
  BY DEF GoodBook
<1>2. h \in b.live /\ b.slot[h].side = s /\ b.slot[h].px = t
  BY DEF OrdersAt
<1>3. AheadOf(b, h) = Units(b, a[h]) /\ a[h] \in SUBSET OrdersAt(b, s, t)
  BY <1>1, <1>2, WalkCounts, BeforeAt
<1>4. AheadOf(b, h) \in Nat
  BY <1>3, UnitsFinite
<1>5. ASSUME h = g PROVE AheadOf(b, h) = 0
  <2>1. Anchored(b, a, s, t) /\ LinkedBack(b, a, h)
    BY <1>1, <1>2, BeforeAt DEF Sound, Queued
  <2>2. b.slot[h].prev = NullIndex
    BY <1>5, <2>1 DEF Anchored
  <2>3. a[h] = {}
    BY <2>1, <2>2 DEF LinkedBack
  <2> QED
    BY <1>3, <2>3, UnitsNone
<1>6. ASSUME h # g PROVE g \in OrdersAt(b, s, t) /\ AheadOf(b, h) >= b.slot[g].qty
  <2>1. g \in a[h]
    BY <1>1, <1>6, HeadFirst
  <2>2. g \in OrdersAt(b, s, t)
    BY <1>3, <2>1
  <2>3. Units(b, a[h]) = Units(b, a[h] \ {g}) + b.slot[g].qty
    BY <1>3, <2>1, UnitsSplit
  <2>4. a[h] \ {g} \in SUBSET OrdersAt(b, s, t)
    BY <1>3
  <2>5. Units(b, a[h] \ {g}) \in Nat
    BY <2>4, UnitsFinite
  <2>6. b.slot[g].qty \in Int
    BY <2>2, GoodParts, LiveOrder DEF OrdersAt
  <2>7. AheadOf(b, h) = Units(b, a[h] \ {g}) + b.slot[g].qty
    BY <1>3, <2>3
  <2>8. \A x \in Nat, y \in Int : x + y >= y
    OBVIOUS
  <2> QED
    BY <2>2, <2>5, <2>6, <2>7, <2>8
<1> QED
  BY <1>4, <1>5, <1>6

LEMMA AheadInsert ==
  ASSUME NEW b, GoodBook(b), NEW h \in Slots \ b.live, NEW r \in Ref, b.id[r] = NullIndex,
         NEW s \in Side, NEW q \in Int, q > 0, NEW t \in Ticks, Claimable(b, s, t)
  PROVE  LET c == Insert(b, h, r, s, q, t)
         IN  /\ \A i \in b.live : AheadOf(c, i) = AheadOf(b, i)
             /\ AheadOf(c, h) = b.level[s][t].total
             /\ c.level[s][t].total = b.level[s][t].total + q
<1> DEFINE c == Insert(b, h, r, s, q, t)
<1>1. PICK a : Sound(b, a)
  BY DEF GoodBook
<1>2. Sound(c, Joined(a, c, h))
  BY <1>1, InsertSound
<1>3. Inserted(b, c, h, r, s, q, t)
  BY InsertGood
<1>4. \A x \in Side, y \in Ticks :
        OrdersAt(c, x, y) = IF x = s /\ y = t THEN OrdersAt(b, x, y) \union {h}
                            ELSE OrdersAt(b, x, y)
  BY GoodParts, InsertOrders
<1>5. c.level[s][t].total = b.level[s][t].total + q
  BY DEF Insert, WithLevel
<1> HIDE DEF c
<1>6. /\ GoodBook(c) /\ c.live = b.live \union {h} /\ b.live \subseteq Slots
      /\ c.slot[h].side = s /\ c.slot[h].px = t
      /\ \A i \in b.live : /\ c.slot[i].side = b.slot[i].side /\ c.slot[i].px = b.slot[i].px
                            /\ c.slot[i].qty = b.slot[i].qty
  BY <1>3, GoodParts DEF Inserted
<1>7. a \in [Slots -> SUBSET Slots]
  BY <1>1 DEF Sound
<1>8. ASSUME NEW i \in b.live PROVE AheadOf(c, i) = AheadOf(b, i)
  <2>1. i # h /\ i \in Slots /\ i \in c.live
    BY <1>6
  <2>2. Joined(a, c, h)[i] = a[i]
    BY <1>7, <2>1 DEF Joined
  <2>3. AheadOf(c, i) = Units(c, a[i]) /\ AheadOf(b, i) = Units(b, a[i])
    BY <1>1, <1>2, <1>6, <2>1, <2>2, WalkCounts
  <2>4. a[i] \subseteq b.live
    BY <1>1, BeforeAt DEF OrdersAt
  <2> QED
    BY <1>6, <2>3, <2>4, UnitsSame
<1>9. AheadOf(c, h) = b.level[s][t].total
  <2>1. Joined(a, c, h)[h] = OrdersAt(b, s, t)
    BY <1>6, <1>7 DEF Joined, OrdersAt
  <2>2. AheadOf(c, h) = Units(c, OrdersAt(b, s, t))
    BY <1>2, <1>6, <2>1, WalkCounts
  <2>3. \A i \in OrdersAt(b, s, t) : c.slot[i].qty = b.slot[i].qty
    BY <1>6 DEF OrdersAt
  <2> QED
    BY <2>2, <2>3, UnitsSame, UnitsAll
<1> QED
  BY <1>5, <1>8, <1>9 DEF c

LEMMA AheadDrop ==
  ASSUME NEW b, GoodBook(b), NEW h \in b.live, NEW s, NEW t,
         b.slot[h].side = s, b.slot[h].px = t
  PROVE  \A i \in b.live \ {h} :
           LET n == AheadOf(Drop(b, h), i)
               m == AheadOf(b, i)
           IN  /\ n \in Int /\ n <= m
               /\ i \notin OrdersAt(b, s, t) => n = m
               /\ i \in OrdersAt(b, s, t) /\ b.level[s][t].head = h => n = m - b.slot[h].qty
<1> DEFINE c == Drop(b, h)
<1> SUFFICES ASSUME NEW i \in b.live \ {h}
             PROVE  LET n == AheadOf(c, i)
                        m == AheadOf(b, i)
                    IN  /\ n \in Int /\ n <= m
                        /\ i \notin OrdersAt(b, s, t) => n = m
                        /\ i \in OrdersAt(b, s, t) /\ b.level[s][t].head = h
                             => n = m - b.slot[h].qty
  OBVIOUS
<1>1. PICK a : Sound(b, a)
  BY DEF GoodBook
<1>2. Sound(c, Left(a, h))
  BY <1>1, DropSound
<1>3. /\ GoodBook(c) /\ c.live = b.live \ {h}
      /\ \A j \in b.live \ {h} : c.slot[j].qty = b.slot[j].qty
  BY DropGood
<1> HIDE DEF c
<1> DEFINE s2 == b.slot[i].side
           t2 == b.slot[i].px
<1>4. /\ i \in Slots /\ s2 \in Side /\ t2 \in Ticks /\ i \in OrdersAt(b, s2, t2)
      /\ a[i] \in SUBSET OrdersAt(b, s2, t2) /\ s \in Side /\ t \in Ticks
  BY <1>1, BeforeAt DEF OrdersAt
<1>5. Left(a, h)[i] = a[i] \ {h}
  BY <1>4 DEF Left
<1>6. AheadOf(c, i) = Units(c, a[i] \ {h}) /\ AheadOf(b, i) = Units(b, a[i])
  <2>1. i \in c.live /\ i \in b.live
    BY <1>3
  <2>2. AheadOf(c, i) = Units(c, Left(a, h)[i])
    BY <1>2, <1>3, <2>1, WalkCounts
  <2> QED
    BY <1>1, <1>5, <2>1, <2>2, WalkCounts
<1>7. Units(c, a[i] \ {h}) = Units(b, a[i] \ {h})
  <2>1. \A j \in a[i] \ {h} : c.slot[j].qty = b.slot[j].qty
    BY <1>3, <1>4 DEF OrdersAt
  <2> QED
    BY <2>1, UnitsSame
<1>8. Units(b, a[i] \ {h}) \in Nat
  BY <1>4, UnitsFinite
<1>9. b.slot[h].qty \in Nat
  BY GoodParts, LiveOrder DEF Typed
<1>10. CASE h \in a[i]
  <2>1. Units(b, a[i]) = Units(b, a[i] \ {h}) + b.slot[h].qty
    BY <1>4, <1>10, UnitsSplit
  <2>2. i \in OrdersAt(b, s, t)
    BY <1>4, <1>10 DEF OrdersAt
  <2> QED
    BY <1>6, <1>7, <1>8, <1>9, <2>1, <2>2
<1>11. CASE h \notin a[i]
  <2>1. a[i] \ {h} = a[i]
    BY <1>11
  <2>2. i \in OrdersAt(b, s, t) => b.level[s][t].head # h
    BY <1>1, <1>4, <1>11, HeadFirst
  <2>3. AheadOf(c, i) = AheadOf(b, i) /\ AheadOf(b, i) \in Int
    BY <1>6, <1>7, <1>8, <2>1
  <2> QED
    BY <2>2, <2>3
<1> QED
  BY <1>10, <1>11

LEMMA AheadShrink ==
  ASSUME NEW b, GoodBook(b), NEW h \in b.live, NEW s, NEW t,
         b.slot[h].side = s, b.slot[h].px = t, b.level[s][t].head = h,
         NEW q \in Int, 0 < q, q < b.slot[h].qty
  PROVE  \A i \in b.live :
           AheadOf(Shrink(b, h, q), i) =
             IF i \in OrdersAt(b, s, t) \ {h} THEN AheadOf(b, i) - q ELSE AheadOf(b, i)
<1> DEFINE c == Shrink(b, h, q)
<1> SUFFICES ASSUME NEW i \in b.live
             PROVE  AheadOf(c, i) = IF i \in OrdersAt(b, s, t) \ {h} THEN AheadOf(b, i) - q
                                    ELSE AheadOf(b, i)
  OBVIOUS
<1>1. PICK a : Sound(b, a)
  BY DEF GoodBook
<1>2. Sound(c, a)
  BY <1>1, ShrinkTyped, ShrinkIndexed, ShrinkQueued DEF Sound
<1>3. /\ GoodBook(c) /\ c.live = b.live
      /\ \A j \in b.live : c.slot[j].qty = IF j = h THEN b.slot[j].qty - q ELSE b.slot[j].qty
  BY ShrinkGood
<1>4. \A x \in Side, y \in Ticks : OrdersAt(c, x, y) = OrdersAt(b, x, y)
  BY GoodParts, ShrinkOrders
<1> HIDE DEF c
<1> DEFINE s2 == b.slot[i].side
           t2 == b.slot[i].px
<1>5. /\ i \in Slots /\ s2 \in Side /\ t2 \in Ticks /\ i \in OrdersAt(b, s2, t2)
      /\ a[i] \in SUBSET OrdersAt(b, s2, t2) /\ s \in Side /\ t \in Ticks /\ i \notin a[i]
  BY <1>1, BeforeAt DEF OrdersAt
<1>6. AheadOf(c, i) = Units(c, a[i]) /\ AheadOf(b, i) = Units(b, a[i])
  BY <1>1, <1>2, <1>3, WalkCounts
<1>7. Units(c, a[i] \ {h}) = Units(b, a[i] \ {h})
  <2>1. \A j \in a[i] \ {h} : c.slot[j].qty = b.slot[j].qty
    BY <1>3, <1>5 DEF OrdersAt
  <2> QED
    BY <2>1, UnitsSame
<1>8. Units(b, a[i] \ {h}) \in Nat
  BY <1>5, UnitsFinite
<1>9. b.slot[h].qty \in Nat /\ c.slot[h].qty = b.slot[h].qty - q
  BY <1>3, GoodParts, LiveOrder DEF Typed
<1>10. CASE h \in a[i]
  <2>1. Units(b, a[i]) = Units(b, a[i] \ {h}) + b.slot[h].qty
    BY <1>5, <1>10, UnitsSplit
  <2>2. Units(c, a[i]) = Units(c, a[i] \ {h}) + c.slot[h].qty
    BY <1>3, <1>4, <1>5, <1>10, UnitsSplit
  <2>3. i \in OrdersAt(b, s, t) \ {h}
    BY <1>5, <1>10 DEF OrdersAt
  <2> QED
    BY <1>6, <1>7, <1>8, <1>9, <2>1, <2>2, <2>3
<1>11. CASE h \notin a[i]
  <2>1. a[i] \ {h} = a[i]
    BY <1>11
  <2>2. i \notin OrdersAt(b, s, t) \ {h}
    BY <1>1, <1>5, <1>11, HeadFirst
  <2> QED
    BY <1>6, <1>7, <2>1, <2>2
<1> QED
  BY <1>10, <1>11

----------------------------------------------------------------------------
(* Positions.                                                              *)

(* Where a level is listed: the map holds it, or found itself full.        *)
Registered(w) ==
  /\ \A h \in Slots : w.tracked[h].live =>
       IF w.tracked[h].linked THEN w.tracked[h].px \in w.mapped[w.tracked[h].side]
       ELSE w.tracked[h].px \in w.fallback[w.tracked[h].side]
  /\ \A x \in Side : /\ w.mapped[x] \intersect w.fallback[x] = {}
                     /\ w.fallback[x] # {} => ~(Cardinality(w.mapped[x]) < MapSize)

(* In the middle of an operation on side s the positions on it are late by *)
(* f[t] units at tick t, but for the orders synced with what was taken     *)
(* from them.                                                              *)
Late(w, s, f, h) ==
  IF w.tracked[h].side = s /\ h \notin w.synced THEN f[w.tracked[h].px] ELSE 0

PositionedAt(w, s, f, h) ==
  LET k == w.tracked[h]
      n == k.ahead - Late(w, s, f, h)
  IN  /\ n >= AheadOf(w.book, h)
      /\ <<k.side, k.px>> \notin w.drift => n = AheadOf(w.book, h)
      /\ h \in w.synced => k.ahead = 0

Positioned(w, s, f) == \A h \in Slots : w.tracked[h].live => PositionedAt(w, s, f, h)

Delays == [Ticks -> Int]
Even == [t \in Ticks |-> 0]

(* What a tracked order is, by the mirror.                                 *)
LEMMA TrackedOrder ==
  ASSUME NEW w \in Sim, GoodBook(w.book), Mirrored(w), NEW h \in Slots, w.tracked[h].live
  PROVE  /\ h \in w.book.live
         /\ w.tracked[h].side = w.book.slot[h].side /\ w.tracked[h].px = w.book.slot[h].px
         /\ w.tracked[h].side \in Side /\ w.tracked[h].px \in Ticks
         /\ w.tracked[h].ahead \in Int
         /\ AheadOf(w.book, h) \in Nat
         /\ \A s \in Side, t \in Ticks :
              h \in OrdersAt(w.book, s, t) <=> w.tracked[h].side = s /\ w.tracked[h].px = t
<1>1. /\ h \in w.book.live
      /\ w.tracked[h].side = w.book.slot[h].side /\ w.tracked[h].px = w.book.slot[h].px
  BY DEF Mirrored
<1>2. w.book.slot[h].side \in Side /\ w.book.slot[h].px \in Ticks
  BY <1>1, GoodParts, LiveOrder
<1>3. w.tracked[h].ahead \in Int
  BY SimFields DEF Tracker
<1>4. h \in OrdersAt(w.book, w.book.slot[h].side, w.book.slot[h].px)
  BY <1>1 DEF OrdersAt
<1>5. AheadOf(w.book, h) \in Nat
  BY <1>2, <1>4, AheadAtHead
<1> QED
  BY <1>1, <1>2, <1>3, <1>5 DEF OrdersAt

(* v is w as far as positions are concerned.                               *)
SamePlaces(w, v) ==
  /\ v.book = w.book /\ v.tracked = w.tracked /\ v.synced = w.synced
  /\ v.mapped = w.mapped /\ v.fallback = w.fallback /\ v.drift = w.drift

LEMMA SamePositions ==
  ASSUME NEW w, NEW v, SamePlaces(w, v), NEW s, NEW f
  PROVE  /\ Registered(w) => Registered(v)
         /\ Positioned(w, s, f) => Positioned(v, s, f)
<1>1. Registered(w) => Registered(v)
  BY DEF SamePlaces, Registered
<1>2. Positioned(w, s, f) => Positioned(v, s, f)
  BY DEF SamePlaces, Positioned, PositionedAt, Late
<1> QED
  BY <1>1, <1>2

(* With nothing late it does not matter for which side.                    *)
LEMMA EvenPositions ==
  ASSUME NEW w \in Sim, GoodBook(w.book), Mirrored(w), NEW s, NEW x, Positioned(w, s, Even)
  PROVE  Positioned(w, x, Even)
<1> SUFFICES ASSUME NEW h \in Slots, w.tracked[h].live PROVE PositionedAt(w, x, Even, h)
  BY DEF Positioned
<1>1. Late(w, s, Even, h) = 0 /\ Late(w, x, Even, h) = 0
  BY TrackedOrder DEF Late, Even
<1>2. PositionedAt(w, s, Even, h)
  BY DEF Positioned
<1> QED
  BY <1>1, <1>2 DEF PositionedAt

----------------------------------------------------------------------------
(* Taking quantity and replenishing.                                       *)

LEMMA AheadReduce ==
  ASSUME NEW b, GoodBook(b), NEW s \in Side, NEW t \in Ticks, NEW h \in OrdersAt(b, s, t),
         b.level[s][t].head = h, NEW k \in Int, 0 < k, k <= b.slot[h].qty
  PROVE  /\ \A i \in b.live \ {h} :
              AheadOf(Reduce(b, h, k), i) =
                IF i \in OrdersAt(b, s, t) THEN AheadOf(b, i) - k ELSE AheadOf(b, i)
         /\ k # b.slot[h].qty => AheadOf(Reduce(b, h, k), h) = 0
<1>1. h \in b.live /\ b.slot[h].side = s /\ b.slot[h].px = t /\ b.slot[h].qty \in Int
  BY GoodParts, LiveOrder DEF OrdersAt
<1>2. CASE k = b.slot[h].qty
  <2>1. Reduce(b, h, k) = Drop(b, h)
    BY <1>2 DEF Reduce
  <2>2. \A i \in b.live \ {h} :
          /\ i \notin OrdersAt(b, s, t) => AheadOf(Drop(b, h), i) = AheadOf(b, i)
          /\ i \in OrdersAt(b, s, t) => AheadOf(Drop(b, h), i) = AheadOf(b, i) - b.slot[h].qty
    BY <1>1, AheadDrop
  <2> QED
    BY <1>2, <2>1, <2>2
<1>3. CASE k # b.slot[h].qty
  <2>1. Reduce(b, h, k) = Shrink(b, h, k) /\ k < b.slot[h].qty
    BY <1>1, <1>3 DEF Reduce
  <2>2. \A i \in b.live :
           AheadOf(Shrink(b, h, k), i) =
             IF i \in OrdersAt(b, s, t) \ {h} THEN AheadOf(b, i) - k ELSE AheadOf(b, i)
    BY <1>1, <2>1, AheadShrink
  <2>3. AheadOf(b, h) = 0
    BY AheadAtHead
  <2> QED
    BY <1>1, <2>1, <2>2, <2>3
<1> QED
  BY <1>2, <1>3

(* v is w after slot h lost quantity, left units of it staying.            *)
TakenFrom(w, v, h, left) ==
  /\ v.mapped = w.mapped /\ v.fallback = w.fallback /\ v.drift = w.drift
  /\ \A i \in Slots \ {h} : v.tracked[i] = w.tracked[i] /\ (i \in v.synced <=> i \in w.synced)
  /\ v.tracked[h].live => w.tracked[h].live /\ left # 0 /\ h \in v.synced
  /\ v.tracked[h].live => /\ v.tracked[h].linked = w.tracked[h].linked
                          /\ v.tracked[h].side = w.tracked[h].side
                          /\ v.tracked[h].px = w.tracked[h].px
                          /\ v.tracked[h].ahead = 0

LEMMA TakeParts ==
  ASSUME NEW w \in Sim, NEW h \in Slots, NEW k
  PROVE  /\ Take(w, h, k).book = Reduce(w.book, h, k)
         /\ TakenFrom(w, Take(w, h, k), h, w.book.slot[h].qty - k)
<1> DEFINE v == Take(w, h, k)
           left == w.book.slot[h].qty - k
           mine == w.tracked[h].live
           rec == IF ~mine THEN w.tracked[h]
                  ELSE IF left = 0 THEN NoRecord
                  ELSE [w.tracked[h] EXCEPT !.rem = left, !.ahead = 0]
           sy == IF mine THEN w.synced \union {h} ELSE w.synced
           tr == [w.tracked EXCEPT ![h] = rec]
           b == Reduce(w.book, h, k)
<1>1. v = [w EXCEPT !.book = b, !.synced = sy, !.tracked = tr]
  BY DEF Take
<1>2. w.tracked[h] \in Tracker /\ w.tracked \in [Slots -> Tracker]
  BY SimFields
<1>3. rec.live => mine /\ left # 0
  <2>1. NoRecord.live = FALSE
    BY NoRecordTyped
  <2>2. CASE mine /\ left = 0
    BY <2>1, <2>2
  <2>3. CASE ~(mine /\ left = 0)
    <3>1. mine => left # 0
      BY <2>3
    <3>2. ~mine => rec = w.tracked[h]
      OBVIOUS
    <3> QED
      BY <3>1, <3>2
  <2> QED
    BY <2>2, <2>3
<1>4. mine /\ left # 0 => /\ rec.linked = w.tracked[h].linked /\ rec.side = w.tracked[h].side
                          /\ rec.px = w.tracked[h].px /\ rec.ahead = 0
  <2> SUFFICES ASSUME mine, left # 0
               PROVE  /\ rec.linked = w.tracked[h].linked /\ rec.side = w.tracked[h].side
                      /\ rec.px = w.tracked[h].px /\ rec.ahead = 0
    OBVIOUS
  <2>1. rec = [w.tracked[h] EXCEPT !.rem = left, !.ahead = 0]
    OBVIOUS
  <2> HIDE DEF rec, left
  <2> QED
    BY <1>2, <2>1 DEF Tracker
<1> HIDE DEF rec, left
<1>5. tr[h] = rec /\ \A i \in Slots \ {h} : tr[i] = w.tracked[i]
  BY <1>2
<1> HIDE DEF tr, sy, b
<1>6. /\ v.book = b /\ v.synced = sy /\ v.tracked = tr
      /\ v.mapped = w.mapped /\ v.fallback = w.fallback /\ v.drift = w.drift
  BY <1>1 DEF Sim
<1> HIDE DEF v
<1>7. v.tracked[h].live => mine /\ left # 0
  BY <1>3, <1>5, <1>6
<1>8. v.tracked[h].live => /\ v.tracked[h].linked = w.tracked[h].linked
                           /\ v.tracked[h].side = w.tracked[h].side
                           /\ v.tracked[h].px = w.tracked[h].px
                           /\ v.tracked[h].ahead = 0
  BY <1>3, <1>4, <1>5, <1>6
<1>9. TakenFrom(w, v, h, left)
  <2>1. v.tracked[h].live => mine /\ left # 0 /\ h \in v.synced
    BY <1>6, <1>7 DEF sy
  <2>2. \A i \in Slots \ {h} : v.tracked[i] = w.tracked[i] /\ (i \in v.synced <=> i \in w.synced)
    BY <1>5, <1>6 DEF sy
  <2> QED
    BY <1>6, <1>8, <2>1, <2>2 DEF TakenFrom
<1> QED
  BY <1>6, <1>9 DEF v, left, b

(* f once n more units are late at tick t.                                 *)
Later(f, t, n) == [f EXCEPT ![t] = @ + n]

LEMMA LaterAt ==
  ASSUME NEW f \in Delays, NEW t \in Ticks, NEW n \in Int
  PROVE  /\ Later(f, t, n) \in Delays
         /\ \A x \in Ticks : Later(f, t, n)[x] = IF x = t THEN f[x] + n ELSE f[x]
BY DEF Later, Delays

(* The head of a level lost k units: the level is late by k more.          *)
LEMMA LossPositions ==
  ASSUME NEW w, Sane(w, ZeroRef), Registered(w), NEW s \in Side, NEW t \in Ticks,
         NEW f \in Delays, Positioned(w, s, f),
         NEW h \in OrdersAt(w.book, s, t), w.book.level[s][t].head = h,
         NEW k \in Int, 0 < k, k <= w.book.slot[h].qty,
         NEW v, v.book = Reduce(w.book, h, k), TakenFrom(w, v, h, w.book.slot[h].qty - k)
  PROVE  Registered(v) /\ Positioned(v, s, Later(f, t, k))
<1> DEFINE g == Later(f, t, k)
           left == w.book.slot[h].qty - k
<1>1. w \in Sim /\ GoodBook(w.book) /\ Mirrored(w)
  BY DEF Sane
<1>2. h \in w.book.live /\ h \in Slots /\ w.book.slot[h].qty \in Int
  BY <1>1, GoodParts, LiveOrder DEF OrdersAt
<1>3. v.book = Reduce(w.book, h, k) /\ TakenFrom(w, v, h, left)
  OBVIOUS
<1>4. /\ \A i \in w.book.live \ {h} :
            AheadOf(v.book, i) =
              IF i \in OrdersAt(w.book, s, t) THEN AheadOf(w.book, i) - k ELSE AheadOf(w.book, i)
      /\ left # 0 => AheadOf(v.book, h) = 0
  BY <1>1, <1>2, <1>3, AheadReduce
<1> HIDE DEF left
<1>5. Registered(v)
  <2> SUFFICES ASSUME NEW i \in Slots, v.tracked[i].live
               PROVE  IF v.tracked[i].linked THEN v.tracked[i].px \in v.mapped[v.tracked[i].side]
                      ELSE v.tracked[i].px \in v.fallback[v.tracked[i].side]
    BY <1>3 DEF Registered, TakenFrom
  <2>1. /\ w.tracked[i].live /\ v.tracked[i].linked = w.tracked[i].linked
        /\ v.tracked[i].side = w.tracked[i].side /\ v.tracked[i].px = w.tracked[i].px
    BY <1>3 DEF TakenFrom
  <2> QED
    BY <1>3, <2>1 DEF Registered, TakenFrom
<1>6. ASSUME NEW i \in Slots, v.tracked[i].live PROVE PositionedAt(v, s, g, i)
  <2>1. CASE i = h
    <3>1. v.tracked[h].live /\ w.tracked[h].live /\ left # 0
      BY <1>3, <1>6, <2>1 DEF TakenFrom
    <3>2. h \in v.synced /\ v.tracked[h].ahead = 0 /\ AheadOf(v.book, h) = 0
      BY <1>3, <1>4, <3>1 DEF TakenFrom
    <3>3. Late(v, s, g, h) = 0
      BY <3>2 DEF Late
    <3> QED
      BY <2>1, <3>2, <3>3 DEF PositionedAt
  <2>2. CASE i # h
    <3>1. v.tracked[i] = w.tracked[i] /\ w.tracked[i].live /\ (i \in v.synced <=> i \in w.synced)
      BY <1>3, <1>6, <2>2 DEF TakenFrom
    <3>2. /\ i \in w.book.live
          /\ w.tracked[i].side \in Side /\ w.tracked[i].px \in Ticks
          /\ w.tracked[i].ahead \in Int /\ AheadOf(w.book, i) \in Nat
          /\ i \in OrdersAt(w.book, s, t) <=> w.tracked[i].side = s /\ w.tracked[i].px = t
      BY <1>1, <3>1, TrackedOrder
    <3>3. PositionedAt(w, s, f, i)
      BY <3>1 DEF Positioned
    <3>4. Late(w, s, f, i) \in Int
      BY <3>2 DEF Late, Delays
    <3>5. CASE i \in OrdersAt(w.book, s, t)
      <4>1. AheadOf(w.book, i) >= w.book.slot[h].qty
        BY <1>1, <2>2, <3>5, AheadAtHead
      <4>2. i \notin w.synced
        <5> SUFFICES ASSUME i \in w.synced PROVE FALSE
          OBVIOUS
        <5>1. Late(w, s, f, i) = 0 /\ w.tracked[i].ahead = 0
          BY <3>3 DEF Late, PositionedAt
        <5>2. 0 >= AheadOf(w.book, i)
          BY <3>3, <5>1 DEF PositionedAt
        <5> QED
          BY <1>2, <3>2, <4>1, <5>2
      <4>3. Late(v, s, g, i) = Late(w, s, f, i) + k
        BY <3>1, <3>2, <3>5, <4>2, LaterAt DEF Late
      <4>4. AheadOf(v.book, i) = AheadOf(w.book, i) - k
        BY <1>4, <2>2, <3>2, <3>5
      <4>5. v.tracked[i].ahead - Late(v, s, g, i) = w.tracked[i].ahead - Late(w, s, f, i) - k
        BY <3>1, <3>2, <3>4, <4>3
      <4>6. w.tracked[i].ahead - Late(w, s, f, i) >= AheadOf(w.book, i)
        BY <3>3 DEF PositionedAt
      <4>7. <<w.tracked[i].side, w.tracked[i].px>> \notin w.drift =>
              w.tracked[i].ahead - Late(w, s, f, i) = AheadOf(w.book, i)
        BY <3>3 DEF PositionedAt
      <4>8. v.tracked[i].ahead - Late(v, s, g, i) >= AheadOf(v.book, i)
        BY <3>2, <3>4, <4>4, <4>5, <4>6
      <4>9. <<v.tracked[i].side, v.tracked[i].px>> \notin v.drift =>
              v.tracked[i].ahead - Late(v, s, g, i) = AheadOf(v.book, i)
        BY <1>3, <3>1, <4>4, <4>5, <4>7 DEF TakenFrom
      <4> QED
        BY <3>1, <4>2, <4>8, <4>9 DEF PositionedAt
    <3>6. CASE i \notin OrdersAt(w.book, s, t)
      <4>1. Late(v, s, g, i) = Late(w, s, f, i)
        <5>1. \A x \in Ticks : g[x] = IF x = t THEN f[x] + k ELSE f[x]
          BY LaterAt
        <5>2. w.tracked[i].side = s => w.tracked[i].px # t
          BY <3>2, <3>6
        <5> HIDE DEF g
        <5> QED
          BY <3>1, <3>2, <5>1, <5>2 DEF Late
      <4>2. AheadOf(v.book, i) = AheadOf(w.book, i)
        BY <1>4, <2>2, <3>2, <3>6
      <4> QED
        BY <1>3, <3>1, <3>3, <4>1, <4>2 DEF PositionedAt, TakenFrom
    <3> QED
      BY <3>5, <3>6
  <2> QED
    BY <2>1, <2>2
<1>7. Positioned(v, s, g)
  BY <1>6 DEF Positioned
<1> QED
  BY <1>5, <1>7

LEMMA TakePositions ==
  ASSUME NEW w, Sane(w, ZeroRef), Registered(w), NEW s \in Side, NEW t \in Ticks,
         NEW f \in Delays, Positioned(w, s, f),
         NEW h \in OrdersAt(w.book, s, t), w.book.level[s][t].head = h,
         NEW k \in Int, 0 < k, k <= w.book.slot[h].qty
  PROVE  LET v == Take(w, h, k)
         IN  Registered(v) /\ Positioned(v, s, Later(f, t, k))
<1> DEFINE v == Take(w, h, k)
<1>1. w \in Sim /\ h \in Slots
  BY GoodParts DEF Sane, OrdersAt
<1>2. v.book = Reduce(w.book, h, k) /\ TakenFrom(w, v, h, w.book.slot[h].qty - k)
  BY <1>1, TakeParts
<1> HIDE DEF v
<1>3. Registered(v) /\ Positioned(v, s, Later(f, t, k))
  BY <1>2, LossPositions
<1> QED
  BY <1>3 DEF v

(* v is w without the order in slot h and its tracker.                     *)
Expunged(w, h) == [Untrack(w, h) EXCEPT !.book = Drop(@, h)]

LEMMA ExpungeParts ==
  ASSUME NEW w \in Sim, NEW h \in Slots, NEW left
  PROVE  /\ Expunged(w, h).book = Drop(w.book, h) /\ Expunged(w, h).hidden = w.hidden
         /\ ~Expunged(w, h).tracked[h].live /\ Expunged(w, h).synced = w.synced
         /\ TakenFrom(w, Expunged(w, h), h, left)
<1> DEFINE v == Expunged(w, h)
           k == [w.tracked EXCEPT ![h] = NoRecord]
           b == Drop(w.book, h)
<1>1. v = [w EXCEPT !.tracked = k, !.book = b]
  <2>1. Untrack(w, h) = [w EXCEPT !.tracked = k]
    BY DEF Untrack
  <2>2. Untrack(w, h).book = w.book
    BY <2>1 DEF Sim
  <2> HIDE DEF k
  <2> QED
    BY <2>1, <2>2 DEF Expunged, Sim
<1>2. k[h] = NoRecord /\ \A i \in Slots \ {h} : k[i] = w.tracked[i]
  BY SimFields
<1> HIDE DEF k, b
<1>3. /\ v.book = b /\ v.tracked = k /\ v.synced = w.synced /\ v.hidden = w.hidden
      /\ v.mapped = w.mapped /\ v.fallback = w.fallback /\ v.drift = w.drift
  BY <1>1 DEF Sim
<1> HIDE DEF v
<1>4. ~v.tracked[h].live
  BY <1>2, <1>3, NoRecordTyped
<1>5. \A i \in Slots \ {h} : v.tracked[i] = w.tracked[i] /\ (i \in v.synced <=> i \in w.synced)
  BY <1>2, <1>3
<1>6. TakenFrom(w, v, h, left)
  BY <1>3, <1>4, <1>5 DEF TakenFrom
<1> QED
  BY <1>3, <1>4, <1>6 DEF v, b

LEMMA ExpungePositions ==
  ASSUME NEW w, Sane(w, ZeroRef), Registered(w), NEW s \in Side, NEW t \in Ticks,
         NEW f \in Delays, Positioned(w, s, f),
         NEW h \in OrdersAt(w.book, s, t), w.book.level[s][t].head = h
  PROVE  LET v == Expunged(w, h)
         IN  Registered(v) /\ Positioned(v, s, Later(f, t, w.book.slot[h].qty))
<1> DEFINE v == Expunged(w, h)
           q == w.book.slot[h].qty
<1>1. w \in Sim /\ GoodBook(w.book) /\ h \in Slots /\ h \in w.book.live
  BY GoodParts DEF Sane, OrdersAt
<1>2. q \in Int /\ q > 0
  BY <1>1, GoodParts, LiveOrder
<1>3. v.book = Drop(w.book, h) /\ TakenFrom(w, v, h, q - q)
  BY <1>1, ExpungeParts
<1>4. Reduce(w.book, h, q) = Drop(w.book, h)
  BY DEF Reduce
<1> HIDE DEF v, q
<1>5. q <= q
  BY <1>2
<1>6. v.book = Reduce(w.book, h, q)
  BY <1>3, <1>4
<1>7. Registered(v) /\ Positioned(v, s, Later(f, t, q))
  BY <1>2, <1>3, <1>5, <1>6, LossPositions DEF q
<1> QED
  BY <1>7 DEF v, q

(* A slice joins the back of its queue, ahead of nobody.                   *)
LEMMA ReplenishAhead ==
  ASSUME NEW w, NEW r \in Ref, Sane(w, r), NEW h \in Slots,
         w.book.id[r] = NullIndex => h \notin w.book.live
  PROVE  LET v == Replenish(w, r, h)
         IN  /\ v.tracked = w.tracked /\ v.synced = w.synced /\ v.drift = w.drift
             /\ v.mapped = w.mapped /\ v.fallback = w.fallback
             /\ \A i \in w.book.live : AheadOf(v.book, i) = AheadOf(w.book, i)
<1> DEFINE i == IcebergOf(w, r)
           e == w.icebergs[i]
           slice == IF e.display < e.hidden THEN e.display ELSE e.hidden
           moved == Front([w.icebergs EXCEPT ![i] = Last(w.icebergs)])
           ib == IF e.hidden = slice THEN moved
                 ELSE [w.icebergs EXCEPT ![i].hidden = @ - slice]
           b == Insert(w.book, h, r, e.side, slice, e.px)
           v == [w EXCEPT !.book = b, !.icebergs = ib]
<1>1. w \in Sim /\ GoodBook(w.book) /\ Placed(w)
  BY DEF Sane
<1>2. Find(w.book, r) = w.book.id[r]
  BY <1>1, Resolves
<1>3. CASE i = 0 \/ w.book.id[r] # NullIndex \/ e.hidden = 0
  BY <1>2, <1>3 DEF Replenish
<1>4. CASE ~(i = 0 \/ w.book.id[r] # NullIndex \/ e.hidden = 0)
  <2>1. Replenish(w, r, h) = v
    BY <1>2, <1>4 DEF Replenish
  <2>2. i \in DOMAIN w.icebergs
    BY <1>1, <1>4, IcebergFound
  <2> HIDE DEF i
  <2>3. e \in Iceberg
    BY <1>1, <2>2, SimFields
  <2>4. slice \in Int /\ slice > 0 /\ e.side \in Side /\ e.px \in Ticks
    BY <1>4, <2>3 DEF Iceberg
  <2>5. Claimable(w.book, e.side, e.px)
    BY <1>1, <2>2 DEF Claimable, Placed
  <2>6. h \in Slots \ w.book.live /\ w.book.id[r] = NullIndex
    BY <1>4
  <2> HIDE DEF e, slice
  <2>7. \A j \in w.book.live : AheadOf(b, j) = AheadOf(w.book, j)
    BY <1>1, <2>4, <2>5, <2>6, AheadInsert
  <2> HIDE DEF b, ib
  <2>8. /\ v.tracked = w.tracked /\ v.synced = w.synced /\ v.drift = w.drift
        /\ v.mapped = w.mapped /\ v.fallback = w.fallback /\ v.book = b
    BY <1>1 DEF Sim
  <2> HIDE DEF v
  <2> QED
    BY <2>1, <2>7, <2>8
<1> QED
  BY <1>3, <1>4

(* What changes neither a tracker nor what is ahead of it.                 *)
LEMMA UndisturbedPositions ==
  ASSUME NEW w \in Sim, Mirrored(w), Registered(w), NEW s, NEW f, Positioned(w, s, f),
         NEW v, v.tracked = w.tracked, v.synced = w.synced, v.drift = w.drift,
         v.mapped = w.mapped, v.fallback = w.fallback,
         \A i \in w.book.live : AheadOf(v.book, i) = AheadOf(w.book, i)
  PROVE  Registered(v) /\ Positioned(v, s, f)
<1>1. Registered(v)
  BY DEF Registered
<1>2. ASSUME NEW h \in Slots, v.tracked[h].live PROVE PositionedAt(v, s, f, h)
  <2>1. h \in w.book.live /\ PositionedAt(w, s, f, h)
    BY <1>2 DEF Mirrored, Positioned
  <2>2. AheadOf(v.book, h) = AheadOf(w.book, h)
    BY <2>1
  <2>3. Late(v, s, f, h) = Late(w, s, f, h)
    BY DEF Late
  <2> QED
    BY <2>1, <2>2, <2>3 DEF PositionedAt
<1> QED
  BY <1>1, <1>2 DEF Positioned

LEMMA HitPositions ==
  ASSUME NEW w, Sane(w, ZeroRef), Registered(w), NEW s \in Side, NEW t \in Ticks,
         NEW f \in Delays, Positioned(w, s, f),
         NEW h \in OrdersAt(w.book, s, t), w.book.level[s][t].head = h,
         NEW k \in Int, 0 < k, k <= w.book.slot[h].qty
  PROVE  LET v == Refilled(w, h, k)
         IN  /\ Sane(v, ZeroRef) /\ Registered(v) /\ Positioned(v, s, Later(f, t, k))
             /\ v.mapped = w.mapped /\ v.fallback = w.fallback /\ v.drift = w.drift
<1> DEFINE u == Take(w, h, k)
           r == w.book.slot[h].ref
           v == Replenish(u, r, h)
           g == Later(f, t, k)
<1>1. w \in Sim /\ GoodBook(w.book) /\ h \in w.book.live /\ h \in Slots
  BY GoodParts DEF Sane, OrdersAt
<1>2. Registered(u) /\ Positioned(u, s, g)
  BY TakePositions
<1>3. Sane(u, r) /\ r \in Ref /\ (u.book.id[r] = NullIndex => h \notin u.book.live)
  BY <1>1, TakeSane
<1>4. u.mapped = w.mapped /\ u.fallback = w.fallback /\ u.drift = w.drift
  <2>1. TakenFrom(w, Take(w, h, k), h, w.book.slot[h].qty - k)
    BY <1>1, TakeParts
  <2> HIDE DEF u
  <2> QED
    BY <2>1 DEF TakenFrom, u
<1>5. Refilled(w, h, k) = v
  BY DEF Refilled
<1> HIDE DEF u, r, g
<1>6. /\ v.tracked = u.tracked /\ v.synced = u.synced /\ v.drift = u.drift
      /\ v.mapped = u.mapped /\ v.fallback = u.fallback
      /\ \A i \in u.book.live : AheadOf(v.book, i) = AheadOf(u.book, i)
  BY <1>1, <1>3, ReplenishAhead
<1>7. Sane(v, ZeroRef)
  BY <1>1, <1>3, ReplenishSane
<1> HIDE DEF v
<1>8. u \in Sim /\ Mirrored(u)
  BY <1>3 DEF Sane
<1>9. Registered(v) /\ Positioned(v, s, g)
  BY <1>2, <1>6, <1>8, UndisturbedPositions
<1> QED
  BY <1>4, <1>5, <1>6, <1>7, <1>9 DEF g

----------------------------------------------------------------------------
(* Consuming a level.                                                      *)

(* An empty level delays nobody.                                           *)
LEMMA VacantPositions ==
  ASSUME NEW w \in Sim, GoodBook(w.book), Mirrored(w), NEW s \in Side, NEW t \in Ticks,
         \A h \in Slots : w.tracked[h].live => w.tracked[h].side # s \/ w.tracked[h].px # t,
         NEW f, Positioned(w, s, f), NEW g, \A x \in Ticks \ {t} : g[x] = f[x]
  PROVE  Positioned(w, s, g)
<1> SUFFICES ASSUME NEW h \in Slots, w.tracked[h].live PROVE PositionedAt(w, s, g, h)
  BY DEF Positioned
<1>1. w.tracked[h].px \in Ticks
  BY TrackedOrder
<1>2. Late(w, s, g, h) = Late(w, s, f, h)
  BY <1>1 DEF Late
<1>3. PositionedAt(w, s, f, h)
  BY DEF Positioned
<1> QED
  BY <1>2, <1>3 DEF PositionedAt

LEMMA HeadlessVacant ==
  ASSUME NEW w \in Sim, GoodBook(w.book), Mirrored(w), NEW s \in Side, NEW t \in Ticks,
         w.book.level[s][t].head = NullIndex
  PROVE  \A h \in Slots : w.tracked[h].live => w.tracked[h].side # s \/ w.tracked[h].px # t
<1>1. PICK a : Sound(w.book, a)
  BY DEF GoodBook
<1>2. Anchored(w.book, a, s, t)
  BY <1>1 DEF Sound, Queued
<1>3. NullIndex \notin OrdersAt(w.book, s, t)
  BY GoodParts, SlotAssumption DEF OrdersAt
<1>4. OrdersAt(w.book, s, t) = {}
  BY <1>2, <1>3 DEF Anchored
<1> QED
  BY <1>4, TrackedOrder

(* The state of the loop of consume_level after n turns, when q units were *)
(* wanted.                                                                 *)
Consuming(w, s, t, f, q, c, n) ==
  /\ c \in Takings /\ c.rem <= q
  /\ Registered(c.w) /\ Positioned(c.w, s, Later(f, t, q - c.rem))
  /\ c.w.mapped = w.mapped /\ c.w.fallback = w.fallback /\ c.w.drift = w.drift
  /\ c.rem = 0 \/ FrontSlot(c.w, s, t) = NullIndex \/ c.rem <= q - n

LEMMA HeadTurnPositions ==
  ASSUME NEW w, NEW s \in Side, NEW t \in Ticks, NEW f \in Delays, NEW q \in Nat,
         NEW n \in 1 .. q, NEW c, Consuming(w, s, t, f, q, c, n - 1)
  PROVE  Consuming(w, s, t, f, q, HeadTurn(c, s, t), n)
<1> DEFINE h == FrontSlot(c.w, s, t)
           o == c.w.book.slot[h]
           k == IF c.rem < o.qty THEN c.rem ELSE o.qty
           u == Refilled(c.w, h, k)
           d == HeadTurn(c, s, t)
           g == Later(f, t, q - c.rem)
<1>1. c \in Takings /\ c.rem \in Nat /\ c.rem <= q /\ Sane(c.w, ZeroRef)
  BY TakingsParts DEF Consuming
<1>2. /\ Registered(c.w) /\ Positioned(c.w, s, g)
      /\ c.w.mapped = w.mapped /\ c.w.fallback = w.fallback /\ c.w.drift = w.drift
      /\ c.rem = 0 \/ h = NullIndex \/ c.rem <= q - (n - 1)
  BY DEF Consuming
<1>3. CASE c.rem = 0 \/ h = NullIndex
  <2>1. d = c
    BY <1>3 DEF HeadTurn
  <2> QED
    BY <1>1, <1>2, <1>3, <2>1 DEF Consuming
<1>4. CASE c.rem # 0 /\ h # NullIndex
  <2>1. h \in OrdersAt(c.w.book, s, t) /\ c.w.book.level[s][t].head = h
    BY <1>1, <1>4, HeadRests DEF Sane, FrontSlot
  <2>2. o.qty \in Int /\ o.qty > 0
    BY <1>1, <2>1, GoodParts, LiveOrder DEF Sane, OrdersAt
  <2>3. k \in Int /\ 0 < k /\ k <= o.qty /\ c.rem - k \in Nat /\ c.rem - k <= q - n
    BY <1>1, <1>2, <1>4, <2>2
  <2>4. d = [w |-> u, rem |-> c.rem - k]
    BY <1>4 DEF HeadTurn, Refilled
  <2>5. d \in Takings
    BY <1>1, HeadTurnKeeps
  <2> HIDE DEF h, k, d
  <2>6. g \in Delays
    BY <1>1, LaterAt
  <2>7. /\ Registered(u) /\ Positioned(u, s, Later(g, t, k))
        /\ u.mapped = c.w.mapped /\ u.fallback = c.w.fallback /\ u.drift = c.w.drift
    <3> HIDE DEF g
    <3> QED
      BY <1>1, <1>2, <2>1, <2>3, <2>6, HitPositions
  <2>8. Later(g, t, k) = Later(f, t, q - (c.rem - k))
    BY <1>1, <2>3 DEF Later, Delays
  <2> HIDE DEF u, g
  <2>9. d.w = u /\ d.rem = c.rem - k
    BY <2>4
  <2>10. d.rem <= q /\ d.rem <= q - n /\ Positioned(d.w, s, Later(f, t, q - d.rem))
    BY <1>1, <2>3, <2>7, <2>8, <2>9
  <2> QED
    BY <1>2, <2>5, <2>7, <2>9, <2>10 DEF Consuming, d
<1> QED
  BY <1>3, <1>4

LEMMA HeadsPositions ==
  ASSUME NEW w, Sane(w, ZeroRef), Registered(w), NEW s \in Side, NEW t \in Ticks,
         NEW f \in Delays, Positioned(w, s, f), NEW q \in Nat
  PROVE  LET v == Heads(w, s, t, q)
         IN  /\ Sane(v, ZeroRef) /\ Registered(v) /\ Positioned(v, s, Later(f, t, q))
             /\ v.mapped = w.mapped /\ v.fallback = w.fallback /\ v.drift = w.drift
<1> DEFINE v == Heads(w, s, t, q)
<1>1. PICK r : HeadsRun(w, s, t, q, r)
  BY HeadsRuns
<1>2. Consuming(w, s, t, f, q, r[0], 0)
  <2>1. r[0] = [w |-> w, rem |-> q]
    BY <1>1 DEF HeadsRun
  <2>2. r[0].w = w /\ r[0].rem = q
    BY <2>1
  <2>3. r[0] \in Takings
    BY <2>1, TakingsParts
  <2>4. Later(f, t, q - q) = f
    BY DEF Later, Delays
  <2> QED
    BY <2>2, <2>3, <2>4 DEF Consuming
<1> DEFINE K == {n \in 0 .. q : Consuming(w, s, t, f, q, r[n], n)}
<1>3. 0 \in K
  BY <1>2
<1>4. ASSUME NEW n \in 1 .. q, n - 1 \in K PROVE n \in K
  <2>1. Consuming(w, s, t, f, q, r[n - 1], n - 1)
    BY <1>4
  <2>2. Consuming(w, s, t, f, q, HeadTurn(r[n - 1], s, t), n)
    BY <2>1, HeadTurnPositions
  <2>3. r[n] = HeadTurn(r[n - 1], s, t)
    BY <1>1 DEF HeadsRun
  <2> QED
    BY <2>2, <2>3
<1> HIDE DEF K
<1>5. q \in K
  BY <1>3, <1>4, TurnsPass
<1>6. Consuming(w, s, t, f, q, r[q], q)
  BY <1>5 DEF K
<1> DEFINE c == r[q]
<1>7. v = c.w
  BY <1>1 DEF HeadsRun
<1> HIDE DEF v, c
<1>8. /\ c.rem \in Nat /\ c.rem <= q /\ Sane(c.w, ZeroRef)
      /\ Registered(c.w) /\ Positioned(c.w, s, Later(f, t, q - c.rem))
      /\ c.w.mapped = w.mapped /\ c.w.fallback = w.fallback /\ c.w.drift = w.drift
      /\ c.rem = 0 \/ FrontSlot(c.w, s, t) = NullIndex
  <2>1. Consuming(w, s, t, f, q, c, q)
    BY <1>6 DEF c
  <2>2. c.rem \in Nat /\ Sane(c.w, ZeroRef)
    BY <2>1, TakingsParts DEF Consuming
  <2> QED
    BY <2>1, <2>2 DEF Consuming
<1>9. Positioned(c.w, s, Later(f, t, q))
  <2>1. CASE c.rem = 0
    <3>1. q - c.rem = q
      BY <2>1
    <3> QED
      BY <1>8, <3>1
  <2>2. CASE FrontSlot(c.w, s, t) = NullIndex
    <3>1. c.w \in Sim /\ GoodBook(c.w.book) /\ Mirrored(c.w)
      BY <1>8 DEF Sane
    <3>2. \A h \in Slots : c.w.tracked[h].live =>
            c.w.tracked[h].side # s \/ c.w.tracked[h].px # t
      BY <2>2, <3>1, HeadlessVacant DEF FrontSlot
    <3>3. \A x \in Ticks \ {t} : Later(f, t, q)[x] = Later(f, t, q - c.rem)[x]
      BY <1>8, LaterAt
    <3> QED
      BY <1>8, <3>1, <3>2, <3>3, VacantPositions
  <2> QED
    BY <1>8, <2>1, <2>2
<1> QED
  BY <1>7, <1>8, <1>9 DEF v

----------------------------------------------------------------------------
(* Bringing positions up to date.                                          *)

LEMMA RecomputeParts ==
  ASSUME NEW w \in Sim, NEW levels
  PROVE  LET v == RecomputeAll(w, levels)
         IN  /\ v.book = w.book /\ v.synced = w.synced
             /\ v.mapped = w.mapped /\ v.fallback = w.fallback /\ v.drift = w.drift \ levels
             /\ \A h \in Slots :
                  /\ v.tracked[h].live = w.tracked[h].live
                  /\ v.tracked[h].linked = w.tracked[h].linked
                  /\ v.tracked[h].side = w.tracked[h].side /\ v.tracked[h].px = w.tracked[h].px
                  /\ v.tracked[h].ahead =
                       IF w.tracked[h].live
                          /\ <<w.book.slot[h].side, w.book.slot[h].px>> \in levels
                       THEN AheadOf(w.book, h) ELSE w.tracked[h].ahead
<1> DEFINE v == RecomputeAll(w, levels)
           C(h) == w.tracked[h].live /\ <<w.book.slot[h].side, w.book.slot[h].px>> \in levels
           R(h) == IF C(h) THEN [w.tracked[h] EXCEPT !.ahead = AheadOf(w.book, h)]
                   ELSE w.tracked[h]
           k == [h \in Slots |-> R(h)]
           d == w.drift \ levels
<1>1. v = [w EXCEPT !.tracked = k, !.drift = d]
  BY DEF RecomputeAll
<1> HIDE DEF k, d
<1>2. /\ v.book = w.book /\ v.synced = w.synced /\ v.tracked = k
      /\ v.mapped = w.mapped /\ v.fallback = w.fallback /\ v.drift = d
  BY <1>1 DEF Sim
<1> HIDE DEF v
<1>3. ASSUME NEW h \in Slots
      PROVE  /\ k[h].live = w.tracked[h].live /\ k[h].linked = w.tracked[h].linked
             /\ k[h].side = w.tracked[h].side /\ k[h].px = w.tracked[h].px
             /\ k[h].ahead = IF C(h) THEN AheadOf(w.book, h) ELSE w.tracked[h].ahead
  <2>1. w.tracked[h] \in Tracker
    BY SimFields
  <2>2. k[h] = R(h)
    BY DEF k
  <2> HIDE DEF C
  <2> QED
    BY <2>1, <2>2 DEF Tracker
<1> QED
  BY <1>2, <1>3 DEF v, d

LEMMA RecomputePositions ==
  ASSUME NEW w \in Sim, GoodBook(w.book), Mirrored(w), Registered(w), NEW s, NEW levels,
         NEW f, NEW g,
         \A h \in Slots : w.tracked[h].live =>
           IF <<w.tracked[h].side, w.tracked[h].px>> \in levels
           THEN /\ h \in w.synced => AheadOf(w.book, h) = 0
                /\ w.tracked[h].side = s => g[w.tracked[h].px] = 0
           ELSE /\ PositionedAt(w, s, f, h)
                /\ w.tracked[h].side = s => g[w.tracked[h].px] = f[w.tracked[h].px]
  PROVE  LET v == RecomputeAll(w, levels) IN Registered(v) /\ Positioned(v, s, g)
<1> DEFINE v == RecomputeAll(w, levels)
<1>1. /\ v.book = w.book /\ v.synced = w.synced
      /\ v.mapped = w.mapped /\ v.fallback = w.fallback /\ v.drift = w.drift \ levels
      /\ \A h \in Slots :
           /\ v.tracked[h].live = w.tracked[h].live
           /\ v.tracked[h].linked = w.tracked[h].linked
           /\ v.tracked[h].side = w.tracked[h].side /\ v.tracked[h].px = w.tracked[h].px
           /\ v.tracked[h].ahead =
                IF w.tracked[h].live /\ <<w.book.slot[h].side, w.book.slot[h].px>> \in levels
                THEN AheadOf(w.book, h) ELSE w.tracked[h].ahead
  BY RecomputeParts
<1> HIDE DEF v
<1>2. Registered(v)
  BY <1>1 DEF Registered
<1>3. ASSUME NEW h \in Slots, v.tracked[h].live PROVE PositionedAt(v, s, g, h)
  <2> DEFINE lv == <<w.tracked[h].side, w.tracked[h].px>>
  <2>1. w.tracked[h].live /\ v.tracked[h].side = w.tracked[h].side
        /\ v.tracked[h].px = w.tracked[h].px
    BY <1>1, <1>3
  <2>2. /\ w.tracked[h].side = w.book.slot[h].side /\ w.tracked[h].px = w.book.slot[h].px
        /\ AheadOf(w.book, h) \in Nat
    BY <2>1, TrackedOrder
  <2>3. CASE lv \in levels
    <3>1. v.tracked[h].ahead = AheadOf(w.book, h)
      BY <1>1, <2>1, <2>2, <2>3
    <3>2. h \in w.synced => AheadOf(w.book, h) = 0
      BY <2>1, <2>3
    <3>3. w.tracked[h].side = s => g[w.tracked[h].px] = 0
      BY <2>1, <2>3
    <3>4. Late(v, s, g, h) = 0
      BY <2>1, <3>3 DEF Late
    <3> QED
      BY <1>1, <2>2, <3>1, <3>2, <3>4 DEF PositionedAt
  <2>4. CASE lv \notin levels
    <3>1. v.tracked[h].ahead = w.tracked[h].ahead
      BY <1>1, <2>1, <2>2, <2>4
    <3>2. PositionedAt(w, s, f, h)
      BY <2>1, <2>4
    <3>3. w.tracked[h].side = s => g[w.tracked[h].px] = f[w.tracked[h].px]
      BY <2>1, <2>4
    <3>4. Late(v, s, g, h) = Late(w, s, f, h)
      BY <1>1, <2>1, <3>3 DEF Late
    <3>5. lv \in v.drift <=> lv \in w.drift
      BY <1>1, <2>4
    <3> QED
      BY <1>1, <2>1, <3>1, <3>2, <3>4, <3>5 DEF PositionedAt
  <2> QED
    BY <2>3, <2>4
<1> QED
  BY <1>2, <1>3 DEF Positioned, v

LEMMA SubtractMapped ==
  ASSUME NEW w \in Sim, NEW s, NEW t, NEW q \in Int, NEW skip, t \in w.mapped[s]
  PROVE  LET v == Subtract(w, s, t, q, skip)
         IN  /\ v.book = w.book /\ v.synced = w.synced
             /\ v.mapped = w.mapped /\ v.fallback = w.fallback /\ v.drift = w.drift
             /\ \A h \in Slots :
                  /\ v.tracked[h].live = w.tracked[h].live
                  /\ v.tracked[h].linked = w.tracked[h].linked
                  /\ v.tracked[h].side = w.tracked[h].side /\ v.tracked[h].px = w.tracked[h].px
                  /\ v.tracked[h].ahead = IF h \in Mates(w, s, t, skip)
                                          THEN w.tracked[h].ahead - q ELSE w.tracked[h].ahead
<1> DEFINE v == Subtract(w, s, t, q, skip)
           H == Mates(w, s, t, skip)
           R(h) == IF h \in H THEN [w.tracked[h] EXCEPT !.ahead = @ - q] ELSE w.tracked[h]
           k == [h \in Slots |-> R(h)]
<1>1. v = [w EXCEPT !.tracked = k]
  BY DEF Subtract
<1> HIDE DEF k, H
<1>2. /\ v.book = w.book /\ v.synced = w.synced /\ v.tracked = k
      /\ v.mapped = w.mapped /\ v.fallback = w.fallback /\ v.drift = w.drift
  BY <1>1 DEF Sim
<1> HIDE DEF v
<1>3. ASSUME NEW h \in Slots
      PROVE  /\ k[h].live = w.tracked[h].live /\ k[h].linked = w.tracked[h].linked
             /\ k[h].side = w.tracked[h].side /\ k[h].px = w.tracked[h].px
             /\ k[h].ahead = IF h \in H THEN w.tracked[h].ahead - q ELSE w.tracked[h].ahead
  <2>1. w.tracked[h] \in Tracker
    BY SimFields
  <2>2. k[h] = R(h)
    BY DEF k
  <2> QED
    BY <2>1, <2>2 DEF Tracker
<1> QED
  BY <1>2, <1>3 DEF v, H

(* Subtracting q at a level takes q from what it is late by; a level the   *)
(* map could not take is brought up to date instead.                       *)
LEMMA SubtractPositions ==
  ASSUME NEW w \in Sim, GoodBook(w.book), Mirrored(w), Registered(w), NEW s \in Side,
         NEW t \in Ticks, NEW f \in Delays, Positioned(w, s, f), NEW q \in Int,
         NEW skip \in BOOLEAN, skip \/ w.synced = {}, NEW g \in Delays,
         \A x \in Ticks : g[x] = IF x # t THEN f[x]
                                 ELSE IF t \in w.mapped[s] THEN f[x] - q ELSE 0
  PROVE  LET v == Subtract(w, s, t, q, skip)
         IN  /\ Registered(v) /\ Positioned(v, s, g)
             /\ v.mapped = w.mapped /\ v.fallback = w.fallback /\ v.synced = w.synced
<1> DEFINE v == Subtract(w, s, t, q, skip)
<1>1. CASE t \in w.mapped[s]
  <2>1. /\ v.book = w.book /\ v.synced = w.synced
        /\ v.mapped = w.mapped /\ v.fallback = w.fallback /\ v.drift = w.drift
        /\ \A h \in Slots :
             /\ v.tracked[h].live = w.tracked[h].live
             /\ v.tracked[h].linked = w.tracked[h].linked
             /\ v.tracked[h].side = w.tracked[h].side /\ v.tracked[h].px = w.tracked[h].px
             /\ v.tracked[h].ahead = IF h \in Mates(w, s, t, skip)
                                     THEN w.tracked[h].ahead - q ELSE w.tracked[h].ahead
    BY <1>1, SubtractMapped
  <2> HIDE DEF v
  <2>2. Registered(v)
    BY <2>1 DEF Registered
  <2>3. ASSUME NEW h \in Slots, v.tracked[h].live PROVE PositionedAt(v, s, g, h)
    <3>1. w.tracked[h].live
      BY <2>1, <2>3
    <3>2. /\ w.tracked[h].side \in Side /\ w.tracked[h].px \in Ticks /\ w.tracked[h].ahead \in Int
          /\ AheadOf(w.book, h) \in Nat
      BY <3>1, TrackedOrder
    <3>3. PositionedAt(w, s, f, h)
      BY <3>1 DEF Positioned
    <3>4. f[w.tracked[h].px] \in Int
      BY <3>2 DEF Delays
    <3>5. v.tracked[h].ahead - Late(v, s, g, h) = w.tracked[h].ahead - Late(w, s, f, h)
          /\ (h \in w.synced => v.tracked[h].ahead = w.tracked[h].ahead)
      <4>1. CASE w.tracked[h].side = s /\ w.tracked[h].px = t /\ h \notin w.synced
        <5>1. w.tracked[h].linked
          BY <1>1, <3>1, <4>1 DEF Registered
        <5>2. h \in Mates(w, s, t, skip)
          BY <4>1, <5>1 DEF Mates
        <5>3. g[t] = f[t] - q
          BY <1>1
        <5>4. Late(v, s, g, h) = f[t] - q /\ Late(w, s, f, h) = f[t]
          BY <2>1, <4>1, <5>3 DEF Late
        <5> QED
          BY <2>1, <3>2, <3>4, <4>1, <5>2, <5>4
      <4>2. CASE ~(w.tracked[h].side = s /\ w.tracked[h].px = t /\ h \notin w.synced)
        <5>1. h \notin Mates(w, s, t, skip)
          BY <4>2 DEF Mates
        <5>2. Late(v, s, g, h) = Late(w, s, f, h)
          BY <2>1, <3>2, <4>2 DEF Late
        <5> QED
          BY <2>1, <5>1, <5>2
      <4> QED
        BY <4>1, <4>2
    <3> QED
      BY <2>1, <3>3, <3>5 DEF PositionedAt
  <2> QED
    BY <2>1, <2>2, <2>3 DEF Positioned, v
<1>2. CASE t \notin w.mapped[s] /\ t \in w.fallback[s]
  <2>1. v = RecomputeAll(w, {<<s, t>>})
    BY <1>2 DEF Subtract, Recompute
  <2>2. ASSUME NEW h \in Slots, w.tracked[h].live
        PROVE  IF <<w.tracked[h].side, w.tracked[h].px>> \in {<<s, t>>}
               THEN /\ h \in w.synced => AheadOf(w.book, h) = 0
                    /\ w.tracked[h].side = s => g[w.tracked[h].px] = 0
               ELSE /\ PositionedAt(w, s, f, h)
                    /\ w.tracked[h].side = s => g[w.tracked[h].px] = f[w.tracked[h].px]
    <3>1. /\ w.tracked[h].side \in Side /\ w.tracked[h].px \in Ticks
          /\ AheadOf(w.book, h) \in Nat
      BY <2>2, TrackedOrder
    <3>2. PositionedAt(w, s, f, h)
      BY <2>2 DEF Positioned
    <3>3. h \in w.synced => AheadOf(w.book, h) = 0
      <4> SUFFICES ASSUME h \in w.synced PROVE AheadOf(w.book, h) = 0
        OBVIOUS
      <4>1. Late(w, s, f, h) = 0 /\ w.tracked[h].ahead = 0
        BY <3>2 DEF Late, PositionedAt
      <4>2. 0 - 0 >= AheadOf(w.book, h)
        BY <3>2, <4>1 DEF PositionedAt
      <4> QED
        BY <3>1, <4>2
    <3>4. CASE w.tracked[h].side = s /\ w.tracked[h].px = t
      <4>1. g[t] = 0
        BY <1>2
      <4> QED
        BY <3>3, <3>4, <4>1
    <3>5. CASE ~(w.tracked[h].side = s /\ w.tracked[h].px = t)
      <4>1. w.tracked[h].side = s => g[w.tracked[h].px] = f[w.tracked[h].px]
        BY <3>1, <3>5
      <4> QED
        BY <3>2, <3>5, <4>1
    <3> QED
      BY <3>4, <3>5
  <2>3. Registered(v) /\ Positioned(v, s, g)
    <3> DEFINE L == {<<s, t>>}
    <3>1. v = RecomputeAll(w, L)
      BY <2>1
    <3> HIDE DEF v
    <3> HIDE DEF L
    <3>2. Registered(RecomputeAll(w, L)) /\ Positioned(RecomputeAll(w, L), s, g)
      BY <2>2, RecomputePositions DEF L
    <3> QED
      BY <3>1, <3>2
  <2>4. v.mapped = w.mapped /\ v.fallback = w.fallback /\ v.synced = w.synced
    BY <2>1, RecomputeParts
  <2> QED
    BY <2>3, <2>4
<1>3. CASE t \notin w.mapped[s] /\ t \notin w.fallback[s]
  <2>1. v = w
    BY <1>3 DEF Subtract
  <2>2. \A h \in Slots : w.tracked[h].live => w.tracked[h].side # s \/ w.tracked[h].px # t
    BY <1>3 DEF Registered
  <2>3. \A x \in Ticks \ {t} : g[x] = f[x]
    OBVIOUS
  <2>4. Positioned(w, s, g)
    BY <2>2, <2>3, VacantPositions
  <2> QED
    BY <2>1, <2>4
<1> QED
  BY <1>1, <1>2, <1>3

----------------------------------------------------------------------------
(* Positions between operations: an order on a level outside D counts      *)
(* exactly what is ahead of it, one on a level of D no less than that.     *)

Counted(w, D) ==
  \A h \in Slots : w.tracked[h].live =>
    LET k == w.tracked[h]
    IN  /\ k.ahead >= AheadOf(w.book, h)
        /\ <<k.side, k.px>> \notin D => k.ahead = AheadOf(w.book, h)

LEMMA CountedMore ==
  ASSUME NEW w, NEW D, NEW E, Counted(w, D), D \subseteq E
  PROVE  Counted(w, E)
BY DEF Counted

(* An operation starts with nothing late, and may end when nothing is.     *)
LEMMA StartPositions ==
  ASSUME NEW w \in Sim, GoodBook(w.book), Mirrored(w), Counted(w, w.drift), NEW s
  PROVE  LET u == [w EXCEPT !.synced = {}]
         IN  /\ Positioned(u, s, Even)
             /\ Registered(w) => Registered(u)
             /\ u.mapped = w.mapped /\ u.fallback = w.fallback /\ u.synced = {}
<1> DEFINE u == [w EXCEPT !.synced = {}]
<1>1. /\ u.book = w.book /\ u.tracked = w.tracked /\ u.synced = {} /\ u.drift = w.drift
      /\ u.mapped = w.mapped /\ u.fallback = w.fallback
  BY DEF Sim
<1> HIDE DEF u
<1>2. ASSUME NEW h \in Slots, u.tracked[h].live PROVE PositionedAt(u, s, Even, h)
  <2>1. w.tracked[h].live /\ w.tracked[h].px \in Ticks /\ w.tracked[h].ahead \in Int
    BY <1>1, <1>2, TrackedOrder
  <2>2. Late(u, s, Even, h) = 0
    BY <1>1, <2>1 DEF Late, Even
  <2>3. /\ w.tracked[h].ahead >= AheadOf(w.book, h)
        /\ <<w.tracked[h].side, w.tracked[h].px>> \notin w.drift =>
             w.tracked[h].ahead = AheadOf(w.book, h)
    BY <2>1 DEF Counted
  <2> QED
    BY <1>1, <2>1, <2>2, <2>3 DEF PositionedAt
<1>3. Registered(w) => Registered(u)
  BY <1>1 DEF Registered
<1> QED
  BY <1>1, <1>2, <1>3 DEF Positioned, u

(* What is still late is excused by a larger drift.                        *)
LEMMA EndPositions ==
  ASSUME NEW w \in Sim, GoodBook(w.book), Mirrored(w), NEW s, NEW f \in Delays,
         Positioned(w, s, f), NEW D, w.drift \subseteq D,
         \A h \in Slots : w.tracked[h].live /\ w.tracked[h].side = s =>
           /\ f[w.tracked[h].px] >= 0
           /\ f[w.tracked[h].px] # 0 => <<s, w.tracked[h].px>> \in D
  PROVE  Counted(w, D)
<1> SUFFICES ASSUME NEW h \in Slots, w.tracked[h].live
             PROVE  /\ w.tracked[h].ahead >= AheadOf(w.book, h)
                    /\ <<w.tracked[h].side, w.tracked[h].px>> \notin D =>
                         w.tracked[h].ahead = AheadOf(w.book, h)
  BY DEF Counted
<1> DEFINE n == Late(w, s, f, h)
<1>1. w.tracked[h].px \in Ticks /\ w.tracked[h].ahead \in Int /\ AheadOf(w.book, h) \in Nat
  BY TrackedOrder
<1>2. n \in Int /\ n >= 0 /\ (n # 0 => <<w.tracked[h].side, w.tracked[h].px>> \in D)
  <2>1. f[w.tracked[h].px] \in Int
    BY <1>1 DEF Delays
  <2> QED
    BY <2>1 DEF Late
<1>3. /\ w.tracked[h].ahead - n >= AheadOf(w.book, h)
      /\ <<w.tracked[h].side, w.tracked[h].px>> \notin w.drift =>
           w.tracked[h].ahead - n = AheadOf(w.book, h)
  BY DEF Positioned, PositionedAt
<1> HIDE DEF n
<1> QED
  BY <1>1, <1>2, <1>3

Kept(w) == Registered(w) /\ Counted(w, w.drift)

LEMMA KeptSame ==
  ASSUME NEW w, NEW v, SamePlaces(w, v), Kept(w)
  PROVE  Kept(v)
BY DEF SamePlaces, Kept, Registered, Counted

(* consume_level: a level of the map is even again when what was           *)
(* subtracted has been taken; a level outside it stays late by as much.    *)
LEMMA ConsumeKept ==
  ASSUME NEW w, Sane(w, ZeroRef), Kept(w), NEW s \in Side, NEW t \in Int, NEW q \in Nat
  PROVE  Kept(Consume(w, s, t, q))
<1> DEFINE fresh == [w EXCEPT !.synced = {}]
           sub == Subtract(fresh, s, t, q, FALSE)
           hd == Heads(sub, s, t, q)
           late == q > 0 /\ t \in w.fallback[s]
           dr == IF late THEN hd.drift \union {<<s, t>>} ELSE hd.drift
           g == [x \in Ticks |-> IF x = t /\ t \in w.mapped[s] THEN 0 - q ELSE 0]
           L == Later(g, t, q)
<1>1. w \in Sim /\ GoodBook(w.book) /\ Mirrored(w) /\ Registered(w) /\ Counted(w, w.drift)
  BY DEF Sane, Kept
<1>2. /\ Positioned(fresh, s, Even) /\ Registered(fresh)
      /\ fresh.mapped = w.mapped /\ fresh.fallback = w.fallback /\ fresh.synced = {}
  BY <1>1, StartPositions
<1>3. Sane(fresh, ZeroRef)
  <2>1. Kin(w, fresh)
    BY <1>1, SimFields, BookkeepingKin
  <2> HIDE DEF fresh
  <2> QED
    BY <2>1, KinSane
<1>4. CASE t \notin Ticks
  <2>1. Consume(w, s, t, q) = fresh
    BY <1>4, TickInBand DEF Consume
  <2>2. fresh.tracked = w.tracked /\ fresh.book = w.book /\ fresh.drift = w.drift
    BY <1>1 DEF Sim
  <2> HIDE DEF fresh
  <2>3. Counted(fresh, fresh.drift)
    BY <1>1, <2>2 DEF Counted
  <2> QED
    BY <1>2, <2>1, <2>3 DEF Kept
<1>5. CASE t \in Ticks
  <2>1. Consume(w, s, t, q) = [hd EXCEPT !.drift = dr]
    BY <1>5, TickInBand DEF Consume
  <2> HIDE DEF fresh
  <2>2. /\ g \in Delays /\ Even \in Delays
        /\ \A x \in Ticks : g[x] = IF x # t THEN Even[x]
                                   ELSE IF t \in fresh.mapped[s] THEN Even[x] - q ELSE 0
    BY <1>2 DEF Delays, Even
  <2>3. \A x \in Ticks : L[x] = IF x = t /\ t \notin w.mapped[s] THEN q ELSE 0
    <3>1. \A x \in Ticks : L[x] = IF x = t THEN g[x] + q ELSE g[x]
      <4> HIDE DEF g
      <4> QED
        BY <1>5, <2>2, LaterAt
    <3>2. \A x \in Ticks : g[x] = IF x = t /\ t \in w.mapped[s] THEN 0 - q ELSE 0
      OBVIOUS
    <3> HIDE DEF g, L
    <3> QED
      BY <3>1, <3>2
  <2>4. L \in Delays
    BY <1>5, <2>2, LaterAt
  <2>5. fresh \in Sim /\ GoodBook(fresh.book) /\ Mirrored(fresh)
    BY <1>3 DEF Sane
  <2> HIDE DEF g
  <2>6. /\ Registered(sub) /\ Positioned(sub, s, g)
        /\ sub.mapped = fresh.mapped /\ sub.fallback = fresh.fallback
    <3>1. q \in Int /\ fresh.synced = {}
      BY <1>2
    <3>2. \A skip \in BOOLEAN : skip \/ fresh.synced = {} =>
            LET v == Subtract(fresh, s, t, q, skip)
            IN  /\ Registered(v) /\ Positioned(v, s, g)
                /\ v.mapped = fresh.mapped /\ v.fallback = fresh.fallback
      BY <1>2, <1>5, <2>2, <2>5, <3>1, SubtractPositions
    <3> QED
      BY <3>1, <3>2
  <2>7. Sane(sub, ZeroRef)
    <3>1. Moved(fresh, sub)
      <4>1. fresh \in Sim /\ q \in Int
        BY <2>5
      <4> QED
        BY <4>1, SubtractKin
    <3> HIDE DEF sub
    <3>2. Kin(fresh, sub)
      BY <3>1 DEF Moved
    <3> QED
      BY <1>3, <3>2, KinSane
  <2> HIDE DEF sub
  <2>8. /\ Sane(hd, ZeroRef) /\ Registered(hd) /\ Positioned(hd, s, L)
        /\ hd.mapped = w.mapped /\ hd.fallback = w.fallback
    <3>1. /\ Sane(hd, ZeroRef) /\ Registered(hd) /\ Positioned(hd, s, Later(g, t, q))
          /\ hd.mapped = sub.mapped /\ hd.fallback = sub.fallback
      BY <1>5, <2>2, <2>6, <2>7, HeadsPositions
    <3> HIDE DEF hd, L
    <3> QED
      BY <1>2, <2>6, <3>1 DEF L
  <2> HIDE DEF hd, L
  <2>9. hd \in Sim /\ GoodBook(hd.book) /\ Mirrored(hd)
    BY <2>8 DEF Sane
  <2>10. Counted(hd, dr)
    <3>1. ASSUME NEW h \in Slots, hd.tracked[h].live, hd.tracked[h].side = s
          PROVE  /\ L[hd.tracked[h].px] >= 0
                 /\ L[hd.tracked[h].px] # 0 => <<s, hd.tracked[h].px>> \in dr
      <4>1. hd.tracked[h].px \in Ticks
        BY <2>9, <3>1, TrackedOrder
      <4>2. ASSUME L[hd.tracked[h].px] # 0 PROVE <<s, hd.tracked[h].px>> \in dr
        <5>1. hd.tracked[h].px = t /\ t \notin w.mapped[s] /\ q # 0
          BY <2>3, <4>1, <4>2
        <5>2. t \in hd.fallback[s]
          BY <2>8, <3>1, <5>1 DEF Registered
        <5>3. late
          BY <2>8, <5>1, <5>2
        <5> QED
          BY <5>1, <5>3
      <4>3. L[hd.tracked[h].px] >= 0
        BY <2>3, <4>1
      <4> QED
        BY <4>2, <4>3
    <3>2. hd.drift \subseteq dr
      OBVIOUS
    <3> HIDE DEF dr
    <3> QED
      BY <2>4, <2>8, <2>9, <3>1, <3>2, EndPositions
  <2> DEFINE v == [hd EXCEPT !.drift = dr]
  <2>11. /\ v.book = hd.book /\ v.tracked = hd.tracked /\ v.drift = dr
         /\ v.mapped = hd.mapped /\ v.fallback = hd.fallback
    BY <2>9 DEF Sim
  <2> HIDE DEF v, dr
  <2>12. Kept(v)
    BY <2>8, <2>10, <2>11 DEF Kept, Registered, Counted
  <2> QED
    BY <2>1, <2>12 DEF v
<1> QED
  BY <1>4, <1>5

LEMMA DepleteKept ==
  ASSUME NEW w, Sane(w, ZeroRef), Kept(w), NEW s \in Side, NEW q \in Nat
  PROVE  Kept(Deplete(w, s, q))
<1> DEFINE N == DepthLevels
<1>1. PICK f : DepleteRun(w, s, q, f)
  BY DepleteRuns
<1>2. N \in Nat
  BY SimAssumption
<1> DEFINE K == {n \in 0 .. N : Kept(f[n].w)}
<1>3. 0 \in K
  <2>1. f[0].w = w
    BY <1>1 DEF DepleteRun
  <2> QED
    BY <1>2, <2>1
<1>4. ASSUME NEW n \in 1 .. N, n - 1 \in K PROVE n \in K
  <2> DEFINE d == f[n - 1]
             m     == d.rem \div ((n - 1) + 1)
             share == IF m = 0 THEN 1 ELSE m
             have  == QtyAt(d.w, s, d.px)
             k     == IF share < have THEN share ELSE have
             after == Consume(d.w, s, d.px, k)
             e     == [w |-> after, px |-> NextBest(after.book, s, d.px), rem |-> d.rem - k]
  <2>1. f[n] = DepleteTurn(d, s, n - 1) /\ d \in Drains /\ Kept(d.w)
    BY <1>1, <1>2, <1>4 DEF DepleteRun
  <2>2. f[n] = IF d.rem = 0 \/ d.px = NoTick THEN d ELSE e
    BY <2>1 DEF DepleteTurn
  <2>3. d.px \in Int /\ d.rem \in Nat /\ Sane(d.w, ZeroRef)
    BY <2>1, DrainsParts
  <2>4. share \in Nat
    <3> DEFINE y == d.rem
    <3>1. y \in Nat /\ n \in Nat /\ n >= 1
      BY <1>2, <2>3
    <3> HIDE DEF y
    <3>2. y \div ((n - 1) + 1) \in Nat
      BY <3>1
    <3> QED
      BY <3>2 DEF y
  <2> HIDE DEF share
  <2>5. have \in Nat
    BY <2>3, TotalsNat
  <2> HIDE DEF have
  <2>6. k \in Nat
    BY <2>4, <2>5
  <2> HIDE DEF d, k
  <2>7. Kept(after)
    BY <2>1, <2>3, <2>6, ConsumeKept
  <2>8. e.w = after
    OBVIOUS
  <2> HIDE DEF e, after
  <2>9. Kept(f[n].w)
    BY <2>1, <2>2, <2>7, <2>8
  <2> QED
    BY <1>2, <2>9
<1> HIDE DEF K
<1>5. N \in K
  BY <1>2, <1>3, <1>4, TurnsPass
<1> QED
  BY <1>1, <1>5 DEF K, DepleteRun

----------------------------------------------------------------------------
(* Hidden orders have no position.                                         *)

LEMMA HiddenPlaces ==
  ASSUME NEW w \in Sim, NEW hd
  PROVE  SamePlaces(w, [w EXCEPT !.hidden = hd])
BY DEF SamePlaces, Sim

LEMMA SamePlacesTrans ==
  ASSUME NEW u, NEW v, NEW w, SamePlaces(u, v), SamePlaces(v, w)
  PROVE  SamePlaces(u, w)
BY DEF SamePlaces

LEMMA RepegPlaces ==
  ASSUME NEW w \in Sim
  PROVE  SamePlaces(w, Repeg(w))
BY HiddenPlaces DEF Repeg, WithHidden

LEMMA TapTurnPlaces ==
  ASSUME NEW p, p.w \in Sim, p \in [w : Sim, at : Nat \ {0}, rem : Nat, taken : HeldQty],
         NEW s, NEW t
  PROVE  SamePlaces(p.w, TapTurn(p, s, t).w)
<1> DEFINE e == p.w.hidden[p.at]
           k == IF p.rem < e.qty THEN p.rem ELSE e.qty
           h1 == RemoveAt(p.w.hidden, p.at)
           h2 == [p.w.hidden EXCEPT ![p.at].qty = @ - k]
           v1 == [p.w EXCEPT !.hidden = h1]
           v2 == [p.w EXCEPT !.hidden = h2]
<1>1. SamePlaces(p.w, v1) /\ SamePlaces(p.w, v2) /\ SamePlaces(p.w, p.w)
  BY HiddenPlaces DEF SamePlaces
<1>2. TapTurn(p, s, t).w \in {p.w, v1, v2}
  <2> HIDE DEF e, k, h1, h2
  <2>1. [p EXCEPT !.at = @ + 1].w = p.w
    OBVIOUS
  <2>2. [p EXCEPT !.w = v1, !.rem = @ - k, !.taken = @ + k].w = v1
    OBVIOUS
  <2>3. [p EXCEPT !.w = v2, !.at = @ + 1, !.rem = @ - k, !.taken = @ + k].w = v2
    OBVIOUS
  <2> HIDE DEF v1, v2
  <2>4. \/ TapTurn(p, s, t) = p \/ TapTurn(p, s, t) = [p EXCEPT !.at = @ + 1]
        \/ TapTurn(p, s, t) = [p EXCEPT !.w = v1, !.rem = @ - k, !.taken = @ + k]
        \/ TapTurn(p, s, t) = [p EXCEPT !.w = v2, !.at = @ + 1, !.rem = @ - k, !.taken = @ + k]
    BY DEF TapTurn, WithHidden, e, k, h1, h2, v1, v2
  <2> QED
    BY <2>1, <2>2, <2>3, <2>4
<1> HIDE DEF v1, v2
<1> QED
  BY <1>1, <1>2

LEMMA TapPlaces ==
  ASSUME NEW w \in Sim, NEW s, NEW t, NEW q \in Nat
  PROVE  SamePlaces(w, Tap(w, s, t, q).w)
<1> DEFINE N == Len(w.hidden)
<1>1. PICK f : TapRun(w, s, t, q, f)
  BY TapRuns
<1>2. N \in Nat
  BY SimFields
<1> DEFINE K == {n \in 0 .. N : SamePlaces(w, f[n].w)}
<1>3. 0 \in K
  <2>1. f[0].w = w
    BY <1>1 DEF TapRun
  <2> QED
    BY <1>2, <2>1 DEF SamePlaces
<1>4. ASSUME NEW n \in 1 .. N, n - 1 \in K PROVE n \in K
  <2> DEFINE p == f[n - 1]
  <2>1. f[n] = TapTurn(p, s, t) /\ p \in Tappings(w, s, t, q)
    BY <1>1, <1>2 DEF TapRun
  <2>2. SamePlaces(w, p.w)
    BY <1>4
  <2>3. p \in [w : Sim, at : Nat \ {0}, rem : Nat, taken : HeldQty] /\ p.w \in Sim
    BY <2>1 DEF Tappings
  <2> HIDE DEF p
  <2>4. SamePlaces(p.w, f[n].w)
    BY <2>1, <2>3, TapTurnPlaces
  <2>5. SamePlaces(w, f[n].w)
    BY <2>2, <2>4, SamePlacesTrans
  <2> QED
    BY <1>2, <2>5
<1> HIDE DEF K
<1>5. N \in K
  BY <1>2, <1>3, <1>4, TurnsPass
<1>6. Tap(w, s, t, q).w = f[N].w
  BY <1>1 DEF TapRun
<1> QED
  BY <1>5, <1>6 DEF K

----------------------------------------------------------------------------
(* What a sweep notes is what the levels are late by.                      *)

Gathered == [Ticks -> Nat]

Noted(c, f) ==
  /\ c.over = NoNote
  /\ \A i \in 1 .. Len(c.notes) : c.notes[i].px \in Ticks /\ c.notes[i].qty = f[c.notes[i].px]
  /\ \A i, j \in 1 .. Len(c.notes) : c.notes[i].px = c.notes[j].px => i = j
  /\ \A x \in Ticks : f[x] # 0 => \E i \in 1 .. Len(c.notes) : c.notes[i].px = x

LEMMA GatheredLater ==
  ASSUME NEW f \in Gathered, NEW t \in Ticks, NEW q \in Nat
  PROVE  Later(f, t, q) \in Gathered /\ f \in Delays
BY DEF Gathered, Delays, Later

LEMMA NotedSame ==
  ASSUME NEW c, NEW f, Noted(c, f), NEW d, d.notes = c.notes, d.over = c.over
  PROVE  Noted(d, f)
BY DEF Noted

(* Notes of different levels, none of them t, leave room for one of t.     *)
LEMMA RoomToNote ==
  ASSUME TouchCap >= Cardinality(Ticks), NEW c \in SweepState, NEW f, Noted(c, f),
         NEW t \in Ticks, \A i \in 1 .. Len(c.notes) : c.notes[i].px # t
  PROVE  Len(c.notes) < TouchCap
<1> DEFINE N == Len(c.notes)
           S == 1 .. N
           T == Ticks \ {t}
           m == [i \in S |-> c.notes[i].px]
<1>1. N \in Nat
  BY SweepFields
<1>2. IsFiniteSet(Ticks) /\ IsFiniteSet(S) /\ Cardinality(S) = N
  <2>1. IsFiniteSet(Ticks)
    <3>1. Lo \in Int /\ Hi - 1 \in Int
      BY BandAssumption
    <3>2. IsFiniteSet(Lo .. (Hi - 1))
      BY ONLY <3>1, FS_Interval
    <3> QED
      BY <3>2 DEF Ticks
  <2> HIDE DEF N
  <2>2. 1 \in Int /\ N \in Int
    BY <1>1
  <2>3. IsFiniteSet(1 .. N) /\ Cardinality(1 .. N) = IF 1 > N THEN 0 ELSE N - 1 + 1
    BY ONLY <2>2, FS_Interval
  <2> QED
    BY <1>1, <2>1, <2>3
<1>3. IsFiniteSet(T) /\ Cardinality(T) = Cardinality(Ticks) - 1 /\ Cardinality(Ticks) \in Nat
  BY <1>2, FS_RemoveElement, FS_CardinalityType
<1>4. m \in Injection(S, T)
  <2>1. \A i \in S : m[i] \in T
    BY DEF Noted
  <2>2. \A i, j \in S : m[i] = m[j] => i = j
    BY DEF Noted
  <2>3. m \in [S -> T]
    BY <2>1
  <2> HIDE DEF m, S, T
  <2> QED
    BY <2>2, <2>3 DEF Injection, IsInjective
<1>5. Cardinality(S) <= Cardinality(T)
  BY <1>3, <1>4, FS_Injection
<1>6. TouchCap \in Nat
  BY SimAssumption
<1> HIDE DEF N, S, T
<1>7. N < TouchCap
  BY <1>1, <1>2, <1>3, <1>5, <1>6
<1> QED
  BY <1>7 DEF N

(* Where note_take finds an entry.                                         *)
NoteAt(c, t) == SelectInSeq(c.notes, LAMBDA n : n.px = t)

LEMMA NoteFound ==
  ASSUME NEW c \in SweepState, NEW t
  PROVE  LET i == NoteAt(c, t)
         IN  \/ i = 0 /\ \A j \in 1 .. Len(c.notes) : c.notes[j].px # t
             \/ i \in 1 .. Len(c.notes) /\ i # 0 /\ c.notes[i].px = t
<1> DEFINE i == NoteAt(c, t)
           I == {j \in 1 .. Len(c.notes) : c.notes[j].px = t}
<1>1. i = IF I # {} THEN Min(I) ELSE 0
  BY DEF SelectInSeq, NoteAt
<1>2. I \subseteq Nat /\ Len(c.notes) \in Nat
  BY SweepFields
<1> HIDE DEF i
<1>3. CASE I = {}
  BY <1>1, <1>3 DEF i
<1>4. CASE I # {}
  <2> DEFINE m == Min(I)
  <2>1. m \in I
    BY <1>2, <1>4, LeastOf
  <2>2. i = m
    BY <1>1, <1>4
  <2> HIDE DEF m
  <2>3. m \in 1 .. Len(c.notes) /\ m # 0 /\ c.notes[m].px = t
    BY <1>2, <2>1
  <2> QED
    BY <2>2, <2>3 DEF i
<1> QED
  BY <1>3, <1>4

(* A sweep that never needed the overflow slot.                            *)
Fits(c) == TouchCap >= Cardinality(Ticks) \/ c.over = NoNote

(* Once note_take has needed the overflow slot the sweep keeps it in use.  *)
LEMMA NoteOver ==
  ASSUME NEW c \in SweepState, NEW s, NEW t, t # NoTick, NEW q, Note(c, s, t, q).over = NoNote
  PROVE  /\ c.over = NoNote
         /\ NoteAt(c, t) = 0 => Len(c.notes) < TouchCap
<1> DEFINE i == NoteAt(c, t)
           v == IF c.over \in {NoNote, [c.over EXCEPT !.px = t]} THEN c.w
                ELSE Subtract(c.w, s, c.over.px, c.over.qty, TRUE)
           o == [px |-> t, qty |-> c.over.qty + q]
           d1 == [c EXCEPT !.notes[i].qty = @ + q]
           d2 == [c EXCEPT !.notes = Append(@, [px |-> t, qty |-> q])]
           d3 == [c EXCEPT !.w = v, !.over = o]
<1>1. Note(c, s, t, q) = IF i # 0 THEN d1 ELSE IF Len(c.notes) < TouchCap THEN d2 ELSE d3
  <2>1. [c EXCEPT !.w = v, !.over = [px |-> t, qty |-> @.qty + q]] = d3
    BY DEF SweepState
  <2> HIDE DEF d3
  <2> QED
    BY <2>1 DEF Note, NoteAt
<1>2. d1.over = c.over /\ d2.over = c.over
  BY DEF SweepState
<1>3. d3.over # NoNote
  <2>1. d3.over = o
    BY DEF SweepState
  <2>2. o.px = t
    OBVIOUS
  <2> HIDE DEF d3, o
  <2> QED
    BY <2>1, <2>2 DEF NoNote
<1> HIDE DEF d1, d2, d3
<1> QED
  BY <1>1, <1>2, <1>3

LEMMA NoteNoted ==
  ASSUME NEW c \in SweepState, NEW f \in Gathered, Noted(c, f),
         NEW s, NEW t \in Ticks, NEW q \in Nat, Fits(Note(c, s, t, q))
  PROVE  LET d == Note(c, s, t, q)
         IN  d.w = c.w /\ Noted(d, Later(f, t, q))
<1> DEFINE i == NoteAt(c, t)
           N == Len(c.notes)
           g == Later(f, t, q)
           ns1 == [c.notes EXCEPT ![i].qty = @ + q]
           ns2 == Append(c.notes, [px |-> t, qty |-> q])
           d == Note(c, s, t, q)
<1>1. c.notes \in Seq(NoteRecord) /\ N \in Nat
  BY SweepFields
<1>2. \A x \in Ticks : g[x] = IF x = t THEN f[x] + q ELSE f[x]
  BY GatheredLater, LaterAt
<1>3. f[t] \in Nat
  BY DEF Gathered
<1>4. CASE i # 0
  <2>1. i \in 1 .. N /\ c.notes[i].px = t
    BY <1>4, NoteFound
  <2>2. d = [c EXCEPT !.notes = ns1]
    BY <1>4 DEF Note, NoteAt
  <2>3. \A j \in 1 .. N : c.notes[j] \in NoteRecord
    BY <1>1
  <2> HIDE DEF i, N
  <2>4. /\ Len(ns1) = N
        /\ \A j \in 1 .. N : ns1[j].px = c.notes[j].px
        /\ \A j \in 1 .. N : ns1[j].qty = IF j = i THEN c.notes[j].qty + q ELSE c.notes[j].qty
    <3> DEFINE e == [c.notes[i] EXCEPT !.qty = @ + q]
    <3>1. ns1 = [c.notes EXCEPT ![i] = e]
      OBVIOUS
    <3>2. e.px = c.notes[i].px /\ e.qty = c.notes[i].qty + q
      BY <2>1, <2>3 DEF NoteRecord
    <3> HIDE DEF e, ns1
    <3>3. Len(ns1) = N
      BY <1>1, <2>1, <3>1 DEF N
    <3>4. \A j \in 1 .. N : ns1[j] = IF j = i THEN e ELSE c.notes[j]
      BY <1>1, <2>1, <3>1 DEF N
    <3> QED
      BY <2>1, <3>2, <3>3, <3>4
  <2> HIDE DEF ns1
  <2>5. d.w = c.w /\ d.over = c.over /\ d.notes = ns1
    BY <2>2 DEF SweepState
  <2> HIDE DEF d, g
  <2>6. \A j \in 1 .. N : c.notes[j].px = t <=> j = i
    BY <2>1 DEF Noted, N
  <2>7. \A j \in 1 .. N : d.notes[j].px \in Ticks /\ d.notes[j].qty = g[d.notes[j].px]
    BY <1>2, <2>4, <2>5, <2>6 DEF Noted, N
  <2>8. \A j, k \in 1 .. N : d.notes[j].px = d.notes[k].px => j = k
    BY <2>4, <2>5 DEF Noted, N
  <2>9. \A x \in Ticks : g[x] # 0 => \E j \in 1 .. N : d.notes[j].px = x
    BY <1>2, <2>1, <2>4, <2>5 DEF Noted, N
  <2>10. Noted(d, g)
    BY <2>4, <2>5, <2>7, <2>8, <2>9 DEF Noted
  <2> QED
    BY <2>5, <2>10 DEF d, g
<1>5. CASE i = 0
  <2>1. \A j \in 1 .. N : c.notes[j].px # t
    BY <1>5, NoteFound
  <2>2. N < TouchCap
    <3>1. CASE TouchCap >= Cardinality(Ticks)
      BY <2>1, <3>1, RoomToNote
    <3>2. CASE Note(c, s, t, q).over = NoNote
      BY <1>5, <3>2, NoTickApart, NoteOver
    <3> QED
      BY <3>1, <3>2 DEF Fits
  <2>3. d = [c EXCEPT !.notes = ns2]
    BY <1>5, <2>2 DEF Note, NoteAt
  <2>4. f[t] = 0
    BY <2>1 DEF Noted
  <2>5. d.w = c.w /\ d.over = c.over /\ d.notes = ns2
    BY <2>3 DEF SweepState
  <2> HIDE DEF d, g, i
  <2>6. /\ Len(ns2) = N + 1 /\ ns2[N + 1] = [px |-> t, qty |-> q]
        /\ \A j \in 1 .. N : ns2[j] = c.notes[j]
    BY <1>1
  <2> HIDE DEF ns2, N
  <2>7. \A j \in 1 .. (N + 1) : j \in 1 .. N \/ j = N + 1
    BY <1>1
  <2>8. /\ ns2[N + 1].px = t /\ ns2[N + 1].qty = q /\ N + 1 \in 1 .. (N + 1)
        /\ \A j \in 1 .. N : j \in 1 .. (N + 1)
    BY <1>1, <2>6
  <2>9. \A j \in 1 .. (N + 1) : d.notes[j].px \in Ticks /\ d.notes[j].qty = g[d.notes[j].px]
    <3> SUFFICES ASSUME NEW j \in 1 .. (N + 1)
                 PROVE  d.notes[j].px \in Ticks /\ d.notes[j].qty = g[d.notes[j].px]
      OBVIOUS
    <3>1. CASE j \in 1 .. N
      BY <1>2, <2>1, <2>5, <2>6, <3>1 DEF Noted, N
    <3>2. CASE j = N + 1
      BY <1>2, <2>4, <2>5, <2>8, <3>2
    <3> QED
      BY <2>7, <3>1, <3>2
  <2>10. \A j, k \in 1 .. (N + 1) : d.notes[j].px = d.notes[k].px => j = k
    <3> SUFFICES ASSUME NEW j \in 1 .. (N + 1), NEW k \in 1 .. (N + 1),
                        ns2[j].px = ns2[k].px
                 PROVE  j = k
      BY <2>5
    <3>1. CASE j \in 1 .. N /\ k \in 1 .. N
      BY <2>6, <3>1 DEF Noted, N
    <3>2. CASE j = N + 1 /\ k \in 1 .. N
      BY <2>1, <2>6, <2>8, <3>2
    <3>3. CASE j \in 1 .. N /\ k = N + 1
      BY <2>1, <2>6, <2>8, <3>3
    <3> QED
      BY <2>7, <3>1, <3>2, <3>3
  <2>11. \A x \in Ticks : g[x] # 0 => \E j \in 1 .. (N + 1) : d.notes[j].px = x
    <3> SUFFICES ASSUME NEW x \in Ticks, g[x] # 0
                 PROVE  \E j \in 1 .. (N + 1) : ns2[j].px = x
      BY <2>5
    <3>1. CASE x = t
      BY <2>8, <3>1
    <3>2. CASE x # t
      <4>1. f[x] # 0
        BY <1>2, <3>2
      <4>2. PICK j \in 1 .. N : c.notes[j].px = x
        BY <4>1 DEF Noted, N
      <4> QED
        BY <2>6, <2>8, <4>2
    <3> QED
      BY <3>1, <3>2
  <2>12. Noted(d, g)
    BY <2>5, <2>6, <2>9, <2>10, <2>11 DEF Noted
  <2> QED
    BY <2>5, <2>12 DEF d, g
<1> QED
  BY <1>4, <1>5

----------------------------------------------------------------------------
(* The sweep: what the positions are late by is what it has noted.         *)

Tallied(c, s) ==
  \E f \in Gathered : Noted(c, f) /\ Registered(c.w) /\ Positioned(c.w, s, f)

LEMMA TalliedSame ==
  ASSUME NEW c, NEW s, Tallied(c, s), NEW d, d.notes = c.notes, d.over = c.over,
         SamePlaces(c.w, d.w)
  PROVE  Tallied(d, s)
<1>1. PICK f \in Gathered : Noted(c, f) /\ Registered(c.w) /\ Positioned(c.w, s, f)
  BY DEF Tallied
<1>2. Noted(d, f)
  BY <1>1, NotedSame
<1>3. Registered(d.w) /\ Positioned(d.w, s, f)
  BY <1>1, SamePositions
<1> QED
  BY <1>2, <1>3 DEF Tallied

LEMMA PaidParts ==
  ASSUME NEW c \in SweepState, NEW v, NEW t, NEW q
  PROVE  LET d == Paid(c, v, t, q)
         IN  d.w = v /\ d.notes = c.notes /\ d.over = c.over
<1> DEFINE n == c.rem - q
           f == c.filled + q
           m == c.notional + q * t
           d == [c EXCEPT !.w = v, !.rem = n, !.filled = f, !.notional = m, !.worst = t]
<1>1. Paid(c, v, t, q) = d
  BY DEF Paid
<1> HIDE DEF n, f, m
<1>2. d.w = v /\ d.notes = c.notes /\ d.over = c.over
  BY DEF SweepState
<1> QED
  BY <1>1, <1>2

LEMMA TappedParts ==
  ASSUME NEW c \in SweepState, NEW s, NEW t
  PROVE  Tapped(c, s, t).notes = c.notes /\ Tapped(c, s, t).over = c.over
<1> DEFINE p == Tap(c.w, s, t, c.rem)
           d1 == [c EXCEPT !.w = c.w]
           d2 == [c EXCEPT !.w = p.w]
           d3 == Paid(c, p.w, t, p.taken)
<1>1. Tapped(c, s, t) = IF c.rem = 0 THEN d1 ELSE IF p.taken = 0 THEN d2 ELSE d3
  BY DEF Tapped
<1> HIDE DEF p
<1>2. /\ d1.notes = c.notes /\ d1.over = c.over /\ d2.notes = c.notes /\ d2.over = c.over
      /\ d3.notes = c.notes /\ d3.over = c.over
  BY PaidParts DEF SweepState
<1> HIDE DEF d1, d2, d3
<1> QED
  BY <1>1, <1>2

LEMMA TappedTallied ==
  ASSUME NEW c \in SweepState, NEW s, Tallied(c, s), NEW t
  PROVE  Tallied(Tapped(c, s, t), s)
<1> DEFINE p == Tap(c.w, s, t, c.rem)
           d1 == [c EXCEPT !.w = c.w]
           d2 == [c EXCEPT !.w = p.w]
           d3 == Paid(c, p.w, t, p.taken)
<1>1. c.w \in Sim /\ c.rem \in Nat
  BY SweepFields
<1>2. SamePlaces(c.w, p.w) /\ SamePlaces(c.w, c.w)
  BY <1>1, TapPlaces DEF SamePlaces
<1>3. Tapped(c, s, t) = IF c.rem = 0 THEN d1 ELSE IF p.taken = 0 THEN d2 ELSE d3
  BY DEF Tapped
<1> HIDE DEF p
<1>4. d1.w = c.w /\ d1.notes = c.notes /\ d1.over = c.over
  BY DEF SweepState
<1>5. d2.w = p.w /\ d2.notes = c.notes /\ d2.over = c.over
  BY DEF SweepState
<1>6. d3.w = p.w /\ d3.notes = c.notes /\ d3.over = c.over
  BY PaidParts
<1> HIDE DEF d1, d2, d3
<1>7. Tallied(d1, s) /\ Tallied(d2, s) /\ Tallied(d3, s)
  BY <1>2, <1>4, <1>5, <1>6, TalliedSame
<1> QED
  BY <1>3, <1>7

(* A note of what is taken next.                                           *)
LEMMA HitTallied ==
  ASSUME NEW c \in SweepState, Sane(c.w, ZeroRef), NEW s \in Side, NEW t \in Ticks,
         NEW f \in Gathered, Registered(c.w), Positioned(c.w, s, f),
         NEW h \in OrdersAt(c.w.book, s, t), c.w.book.level[s][t].head = h,
         NEW k \in Int, 0 < k, k <= c.w.book.slot[h].qty, NEW p
  PROVE  LET d == Paid(c, Refilled(c.w, h, k), p, k)
         IN  Registered(d.w) /\ Positioned(d.w, s, Later(f, t, k))
             /\ d.notes = c.notes /\ d.over = c.over
<1> DEFINE u == Refilled(c.w, h, k)
           d == Paid(c, u, p, k)
<1>1. f \in Delays
  BY DEF Gathered, Delays
<1>2. Registered(u) /\ Positioned(u, s, Later(f, t, k))
  BY <1>1, HitPositions
<1> HIDE DEF u
<1>3. d.w = u /\ d.notes = c.notes /\ d.over = c.over
  BY PaidParts
<1> HIDE DEF d
<1>4. Registered(d.w) /\ Positioned(d.w, s, Later(f, t, k)) /\ d.notes = c.notes /\ d.over = c.over
  BY <1>2, <1>3
<1> QED
  BY <1>4 DEF d, u

LEMMA ExpungeNotes ==
  ASSUME NEW c \in SweepState, NEW v, NEW m
  PROVE  LET u == ExpungedState(c, v, m)
         IN  u.w = v /\ u.notes = c.notes /\ u.over = c.over
BY DEF SweepState, ExpungedState

LEMMA MatchTallied ==
  ASSUME NEW c \in SweepState, Sane(c.w, ZeroRef), c.rem # 0, NEW s \in Side, NEW t \in Ticks,
         NEW h \in OrdersAt(c.w.book, s, t), c.w.book.level[s][t].head = h, NEW mode,
         Tallied(c, s), Fits(Match(c, s, t, h, mode))
  PROVE  Tallied(Match(c, s, t, h, mode), s)
<1> DEFINE o == c.w.book.slot[h]
           mine == c.w.tracked[h].live
           k == IF c.rem < o.qty THEN c.rem ELSE o.qty
           hit(e) == Paid(e, Replenish(Take(e.w, h, k), o.ref, h), t, k)
           d == Match(c, s, t, h, mode)
<1>1. /\ c.w \in Sim /\ c.rem \in Nat /\ GoodBook(c.w.book) /\ c.expunged \in Int
      /\ h \in c.w.book.live /\ t \in Int /\ t # NoTick
  <2>1. c.w \in Sim /\ c.rem \in Nat /\ c.expunged \in Int
    BY SweepFields
  <2>2. GoodBook(c.w.book)
    BY DEF Sane
  <2>3. h \in c.w.book.live
    BY DEF OrdersAt
  <2>4. t \in Int /\ t # NoTick
    BY TicksInt, NoTickApart
  <2> QED
    BY <2>1, <2>2, <2>3, <2>4
<1>2. o.qty \in Int /\ o.qty > 0 /\ h \in Slots
  BY <1>1, GoodParts, LiveOrder
<1>3. k \in Int /\ 0 < k /\ k <= o.qty /\ k <= c.rem /\ k \in Nat
  BY <1>1, <1>2
<1>4. PICK f \in Gathered : Noted(c, f) /\ Registered(c.w) /\ Positioned(c.w, s, f)
  BY DEF Tallied
<1>5. f \in Delays /\ Later(f, t, k) \in Gathered
  BY <1>3, GatheredLater
<1> HIDE DEF k
<1>6. CASE mine /\ mode = "cancel_newest"
  <2> DEFINE u == [c EXCEPT !.stopped = TRUE]
  <2>1. d = u
    BY <1>6 DEF Match
  <2>2. u.w = c.w /\ u.notes = c.notes /\ u.over = c.over
    BY DEF SweepState
  <2>3. SamePlaces(c.w, c.w)
    BY DEF SamePlaces
  <2> HIDE DEF u, d
  <2>4. Tallied(u, s)
    BY <2>2, <2>3, TalliedSame
  <2> QED
    BY <2>1, <2>4 DEF d
<1>7. CASE mine /\ mode = "cancel_oldest"
  <2> DEFINE v == Expunged(c.w, h)
             m == c.expunged + o.qty * t
             u == ExpungedState(c, v, m)
             n == Note(u, s, t, o.qty)
             g == Later(f, t, o.qty)
  <2>1. d = n
    BY <1>7 DEF Match, ExpungedState, Expunged
  <2>2. Spends(c.w, v)
    BY <1>1, <1>7, ExpungeSpends DEF Expunged
  <2>3. m \in Int
    <3>1. o.qty * t \in Int
      BY <1>1, <1>2
    <3> QED
      BY <1>1, <3>1
  <2>4. Registered(v) /\ Positioned(v, s, g)
    BY <1>4, <1>5, ExpungePositions
  <2> HIDE DEF v, m
  <2>5. v \in Sim
    BY <2>2 DEF Spends, Sane
  <2>6. u \in SweepState
    BY <2>3, <2>5, ExpungeUpdate
  <2>7. u.w = v /\ u.notes = c.notes /\ u.over = c.over
    BY ExpungeNotes
  <2> HIDE DEF u
  <2>8. Noted(u, f) /\ Fits(n)
    BY <1>4, <2>1, <2>7, NotedSame
  <2>9. n.w = u.w /\ Noted(n, g)
    BY <1>2, <2>6, <2>8, NoteNoted
  <2>10. g \in Gathered
    BY <1>2, GatheredLater
  <2> HIDE DEF n, g, d
  <2>11. Tallied(n, s)
    BY <2>4, <2>7, <2>9, <2>10 DEF Tallied
  <2> QED
    BY <2>1, <2>11 DEF d
<1>8. CASE mine /\ mode = "decrement"
  <2> DEFINE e == Paid(c, Refilled(c.w, h, k), t, k)
             n == Note(e, s, t, k)
             g == Later(f, t, k)
  <2>1. d = n
    BY <1>8 DEF Match, Refilled, k
  <2>2. e \in SweepState
    BY <1>1, <1>3, HitTrades
  <2>3. /\ Registered(e.w) /\ Positioned(e.w, s, g)
        /\ e.notes = c.notes /\ e.over = c.over
    BY <1>3, <1>4, HitTallied
  <2> HIDE DEF e
  <2>4. Noted(e, f) /\ Fits(n)
    BY <1>4, <2>1, <2>3, NotedSame
  <2>5. n.w = e.w /\ Noted(n, g)
    BY <1>3, <2>2, <2>4, NoteNoted
  <2> HIDE DEF n, g, d
  <2>6. Tallied(n, s)
    BY <1>5, <2>3, <2>5 DEF Tallied, g
  <2> QED
    BY <2>1, <2>6 DEF d
<1>9. CASE ~(mine /\ mode \in {"cancel_newest", "cancel_oldest", "decrement"})
  <2> DEFINE n == Note(c, s, t, k)
             e == Paid(n, Refilled(n.w, h, k), t, k)
             x == Tapped(e, s, t)
             g == Later(f, t, k)
  <2>1. n \in SweepState /\ Sane(n.w, ZeroRef) /\ n.rem = c.rem /\ Kin(c.w, n.w)
    BY <1>1, <1>3, NoteIsTrade
  <2>10. n.w.book = c.w.book
    BY <2>1 DEF Kin
  <2>3. d = x
    BY <1>9, <2>10 DEF Match, Refilled, k
  <2> HIDE DEF n
  <2>4. h \in n.w.book.live /\ k <= n.w.book.slot[h].qty /\ k <= n.rem
    BY <1>1, <1>3, <2>1, <2>10
  <2>5. e \in SweepState
    BY <1>1, <1>3, <2>1, <2>4, HitTrades
  <2>11. Fits(n)
    <3>1. e.over = n.over
      BY <2>1, PaidParts
    <3> HIDE DEF e
    <3>2. x.over = e.over
      BY <2>5, TappedParts
    <3> HIDE DEF x, d
    <3> QED
      BY <2>3, <3>1, <3>2 DEF Fits, d
  <2>2. n.w = c.w /\ Noted(n, g)
    BY <1>3, <1>4, <2>11, NoteNoted DEF n
  <2>12. /\ h \in OrdersAt(n.w.book, s, t) /\ n.w.book.level[s][t].head = h
         /\ Registered(n.w) /\ Positioned(n.w, s, f)
    BY <1>4, <2>2
  <2>13. LET u == Paid(n, Refilled(n.w, h, k), t, k)
         IN  Registered(u.w) /\ Positioned(u.w, s, Later(f, t, k))
             /\ u.notes = n.notes /\ u.over = n.over
    <3>1. k \in Int /\ 0 < k
      BY <1>3
    <3> HIDE DEF k
    <3> QED
      BY <2>1, <2>4, <2>12, <3>1, HitTallied
  <2>6. /\ Registered(e.w) /\ Positioned(e.w, s, g)
        /\ e.notes = n.notes /\ e.over = n.over
    BY <2>13
  <2> HIDE DEF e, d
  <2>7. Tallied(e, s)
    BY <1>5, <2>2, <2>6, NotedSame DEF Tallied, g
  <2>8. Tallied(x, s)
    BY <2>5, <2>7, TappedTallied
  <2> QED
    BY <2>3, <2>8 DEF d
<1> QED
  BY <1>6, <1>7, <1>8, <1>9

LEMMA MatchOver ==
  ASSUME NEW c \in SweepState, Sane(c.w, ZeroRef), c.rem # 0, NEW s, NEW t \in Ticks,
         NEW h \in c.w.book.live, NEW mode, Match(c, s, t, h, mode).over = NoNote
  PROVE  c.over = NoNote
<1> DEFINE o == c.w.book.slot[h]
           mine == c.w.tracked[h].live
           k == IF c.rem < o.qty THEN c.rem ELSE o.qty
           hit(e) == Paid(e, Replenish(Take(e.w, h, k), o.ref, h), t, k)
           d == Match(c, s, t, h, mode)
<1>1. /\ c.w \in Sim /\ c.rem \in Nat /\ GoodBook(c.w.book) /\ c.expunged \in Int
      /\ t \in Int /\ t # NoTick
  <2>1. c.w \in Sim /\ c.rem \in Nat /\ c.expunged \in Int
    BY SweepFields
  <2>2. GoodBook(c.w.book)
    BY DEF Sane
  <2> QED
    BY <2>1, <2>2, TicksInt, NoTickApart
<1>2. o.qty \in Int /\ o.qty > 0 /\ h \in Slots
  BY <1>1, GoodParts, LiveOrder
<1>3. k \in Int /\ k <= o.qty /\ k <= c.rem /\ 0 < k
  BY <1>1, <1>2
<1> HIDE DEF k
<1>6. CASE mine /\ mode = "cancel_newest"
  <2> DEFINE u == [c EXCEPT !.stopped = TRUE]
  <2>1. d = u
    BY <1>6 DEF Match
  <2>2. u.over = c.over
    BY DEF SweepState
  <2> QED
    BY <2>1, <2>2
<1>7. CASE mine /\ mode = "cancel_oldest"
  <2> DEFINE v == Expunged(c.w, h)
             m == c.expunged + o.qty * t
             u == ExpungedState(c, v, m)
  <2>1. d = Note(u, s, t, o.qty)
    BY <1>7 DEF Match, ExpungedState, Expunged
  <2>2. Spends(c.w, v)
    BY <1>7, ExpungeSpends DEF Expunged
  <2>3. m \in Int
    <3>1. o.qty * t \in Int
      BY <1>1, <1>2
    <3> QED
      BY <1>1, <3>1
  <2> HIDE DEF v, m
  <2>4. v \in Sim
    BY <2>2 DEF Spends, Sane
  <2>5. u \in SweepState /\ u.over = c.over
    BY <2>3, <2>4, ExpungeUpdate, ExpungeNotes
  <2> HIDE DEF u
  <2> QED
    BY <1>1, <2>1, <2>5, NoteOver
<1>8. CASE mine /\ mode = "decrement"
  <2> DEFINE v == Refilled(c.w, h, k)
             e == Paid(c, v, t, k)
  <2>1. d = Note(e, s, t, k)
    BY <1>8 DEF Match, Refilled, k
  <2>2. e \in SweepState
    BY <1>1, <1>2, <1>3, HitTrades
  <2>3. e.over = c.over
    BY PaidParts
  <2> HIDE DEF e
  <2> QED
    BY <1>1, <2>1, <2>2, <2>3, NoteOver
<1>9. CASE ~(mine /\ mode \in {"cancel_newest", "cancel_oldest", "decrement"})
  <2> DEFINE n == Note(c, s, t, k)
             e == Paid(n, Refilled(n.w, h, k), t, k)
             x == Tapped(e, s, t)
  <2>1. n \in SweepState /\ Sane(n.w, ZeroRef) /\ n.rem = c.rem /\ Kin(c.w, n.w)
    BY <1>1, <1>3, NoteIsTrade
  <2>2. n.w.book = c.w.book
    BY <2>1 DEF Kin
  <2>3. d = x
    BY <1>9, <2>2 DEF Match, Refilled, k
  <2> HIDE DEF n
  <2>4. h \in n.w.book.live /\ k <= n.w.book.slot[h].qty /\ k <= n.rem
    BY <1>3, <2>1, <2>2
  <2>5. e \in SweepState
    BY <1>1, <1>3, <2>1, <2>4, HitTrades
  <2>6. e.over = n.over
    BY <2>1, PaidParts
  <2> HIDE DEF e
  <2>7. x.over = e.over
    BY <2>5, TappedParts
  <2> HIDE DEF x, d
  <2>8. n.over = NoNote
    BY <2>3, <2>6, <2>7 DEF d
  <2> QED
    BY <1>1, <2>8, NoteOver DEF n
<1> QED
  BY <1>6, <1>7, <1>8, <1>9

LEMMA SweepTurnTallied ==
  ASSUME NEW s \in Side, NEW c \in Sweeps(s), NEW in, NEW mode,
         Fits(SweepTurn(c, in, s, mode))
  PROVE  Fits(c) /\ (Tallied(c, s) => Tallied(SweepTurn(c, in, s, mode), s))
<1> DEFINE t      == Touch(c.w, s)
           hid    == BestHidden(c.w, s)
           better == hid # NoTick /\ (t = NoTick \/ Better(s, hid, t))
           aim    == IF better THEN hid ELSE t
           within == in.type = "market" \/ ~Better(s, in.px, aim)
           h      == FrontSlot(c.w, s, t)
           d1     == Tapped(c, s, hid)
           d2     == Match(c, s, t, h, mode)
<1>1. /\ c \in SweepState /\ Sane(c.w, ZeroRef) /\ c.w \in Sim /\ GoodBook(c.w.book)
  BY SweepsParts
<1>2. t # NoTick => t \in Ticks
  BY <1>1, TouchTyped
<1>3. t # NoTick => h \in OrdersAt(c.w.book, s, t) /\ c.w.book.level[s][t].head = h
  BY <1>1, TouchRests DEF Touch, FrontSlot
<1>4. SweepTurn(c, in, s, mode) =
        IF c.rem = 0 \/ c.stopped \/ aim = NoTick \/ ~within THEN c ELSE IF better THEN d1 ELSE d2
  BY DEF SweepTurn
<1> HIDE DEF within
<1>5. ~better /\ aim # NoTick => t # NoTick
  OBVIOUS
<1> HIDE DEF t, hid, h, better, aim
<1>6. Tallied(c, s) => Tallied(d1, s)
  BY <1>1, TappedTallied
<1>7. Fits(d1) => Fits(c)
  BY <1>1, TappedParts DEF Fits
<1>8. t # NoTick /\ c.rem # 0 /\ Fits(d2) /\ Tallied(c, s) => Tallied(d2, s)
  BY <1>1, <1>2, <1>3, MatchTallied
<1>9. t # NoTick /\ c.rem # 0 /\ Fits(d2) => Fits(c)
  <2>0. t # NoTick => h \in c.w.book.live
    BY <1>3 DEF OrdersAt
  <2>1. ASSUME t # NoTick, c.rem # 0, d2.over = NoNote
        PROVE  c.over = NoNote
    <3>1. t \in Ticks /\ h \in c.w.book.live
      BY <1>2, <2>0, <2>1
    <3>2. Match(c, s, t, h, mode).over = NoNote
      BY <2>1
    <3> HIDE DEF d2
    <3> QED
      BY <1>1, <2>1, <3>1, <3>2, MatchOver
  <2> QED
    BY <2>1 DEF Fits
<1> HIDE DEF d1, d2
<1> QED
  BY <1>4, <1>5, <1>6, <1>7, <1>8, <1>9

LEMMA SweepTallied ==
  ASSUME NEW s \in Side, NEW c \in Sweeps(s), NEW in, NEW mode, Tallied(c, s),
         Fits(Sweep(c, in, s, mode))
  PROVE  Tallied(Sweep(c, in, s, mode), s)
<1> DEFINE N == c.rem + Cardinality(Slots)
<1>1. PICK f : SweepRun(c, in, s, mode, f)
  BY SweepRuns
<1>2. /\ N \in Nat /\ f[0] = c /\ Sweep(c, in, s, mode) = f[N]
      /\ \A n \in 1 .. N : f[n] = SweepTurn(f[n - 1], in, s, mode)
      /\ \A n \in 0 .. N : f[n] \in Sweeps(s)
  BY <1>1 DEF SweepRun
<1> HIDE DEF N
<1> DEFINE K == {n \in 0 .. N : Fits(f[n]) => Tallied(f[n], s)}
<1>3. 0 \in K
  BY <1>2
<1>4. ASSUME NEW n \in 1 .. N, n - 1 \in K PROVE n \in K
  <2>1. /\ f[n - 1] \in Sweeps(s) /\ f[n] = SweepTurn(f[n - 1], in, s, mode)
        /\ Fits(f[n - 1]) => Tallied(f[n - 1], s)
    BY <1>2, <1>4
  <2>2. Fits(f[n]) => Tallied(f[n], s)
    BY <2>1, SweepTurnTallied
  <2> QED
    BY <1>2, <2>2
<1> HIDE DEF K
<1>5. N \in K
  BY <1>2, <1>3, <1>4, TurnsPass
<1> QED
  BY <1>2, <1>5 DEF K

(* What is left once the first n notes are subtracted.                     *)
Unsettled(c, f, n) ==
  [x \in Ticks |-> IF \E i \in 1 .. n : c.notes[i].px = x THEN 0 ELSE f[x]]

LEMMA SettleTallied ==
  ASSUME NEW s \in Side, NEW c \in Sweeps(s), NEW f \in Gathered, Noted(c, f),
         Registered(c.w), Positioned(c.w, s, f), NEW g, SettleRun(c, s, g)
  PROVE  Kept(g[Len(c.notes)])
<1> DEFINE N == Len(c.notes)
           U(n) == Unsettled(c, f, n)
           K == {n \in 0 .. N : Registered(g[n]) /\ Positioned(g[n], s, U(n))}
<1>1. /\ c \in SweepState /\ Sane(c.w, ZeroRef) /\ c.notes \in Seq(NoteRecord) /\ N \in Nat
  BY SweepsParts, SweepFields
<1>2. /\ g[0] = c.w
      /\ \A n \in 1 .. N : g[n] = Subtract(g[n - 1], s, c.notes[n].px, c.notes[n].qty, TRUE)
      /\ \A n \in 0 .. N : g[n] \in Sim /\ Moved(c.w, g[n])
  BY DEF SettleRun, Noted
<1>3. \A n \in 1 .. N : /\ c.notes[n].px \in Ticks /\ c.notes[n].qty = f[c.notes[n].px]
                        /\ c.notes[n].qty \in Int
  <2>1. \A n \in 1 .. N : c.notes[n].px \in Ticks /\ c.notes[n].qty = f[c.notes[n].px]
    BY DEF Noted
  <2>2. \A x \in Ticks : f[x] \in Int
    BY DEF Gathered
  <2> HIDE DEF N
  <2> QED
    BY <2>1, <2>2
<1>4. \A i, j \in 1 .. N : c.notes[i].px = c.notes[j].px => i = j
  BY DEF Noted
<1>5. \A n \in 0 .. N : U(n) \in Delays
  BY DEF Unsettled, Delays, Gathered
<1>6. \A n \in 0 .. N : Sane(g[n], ZeroRef)
  BY <1>1, <1>2, KinSane DEF Moved
<1> HIDE DEF N
<1>7. 0 \in K
  <2>1. f = [x \in Ticks |-> f[x]]
    BY DEF Gathered
  <2>2. U(0) = f
    BY <2>1 DEF Unsettled
  <2> QED
    BY <1>1, <1>2, <2>2
<1>8. ASSUME NEW n \in 1 .. N, n - 1 \in K PROVE n \in K
  <2> DEFINE t == c.notes[n].px
             q == c.notes[n].qty
             v == g[n - 1]
             e == U(n)
             d == U(n - 1)
  <2>1. n - 1 \in 0 .. N /\ n \in 0 .. N
    BY <1>1
  <2>2. /\ v \in Sim /\ GoodBook(v.book) /\ Mirrored(v) /\ Registered(v)
        /\ Positioned(v, s, d) /\ g[n] = Subtract(v, s, t, q, TRUE)
    BY <1>2, <1>6, <1>8, <2>1 DEF Sane
  <2>3. t \in Ticks /\ q \in Int /\ q = f[t] /\ e \in Delays /\ d \in Delays
    BY <1>3, <1>5, <2>1
  <2>4. \A x \in Ticks : e[x] = IF x = t THEN 0 ELSE d[x]
    <3> SUFFICES ASSUME NEW x \in Ticks PROVE e[x] = IF x = t THEN 0 ELSE d[x]
      OBVIOUS
    <3>1. /\ e[x] = IF \E i \in 1 .. n : c.notes[i].px = x THEN 0 ELSE f[x]
          /\ d[x] = IF \E i \in 1 .. (n - 1) : c.notes[i].px = x THEN 0 ELSE f[x]
      BY DEF Unsettled
    <3>2. \A i \in 1 .. n : i = n \/ i \in 1 .. (n - 1)
      BY <1>1
    <3>3. \A i \in 1 .. (n - 1) : i \in 1 .. n
      BY <1>1
    <3>4. n \in 1 .. n
      BY <1>1
    <3> HIDE DEF e, d
    <3> QED
      BY <3>1, <3>2, <3>3, <3>4
  <2>5. d[t] = q
    <3>1. ~\E i \in 1 .. (n - 1) : c.notes[i].px = t
      <4> SUFFICES ASSUME NEW i \in 1 .. (n - 1), c.notes[i].px = t PROVE FALSE
        OBVIOUS
      <4>1. i \in 1 .. N /\ i # n
        BY <1>1
      <4> QED
        BY <1>4, <4>1
    <3> QED
      BY <2>3, <3>1 DEF Unsettled
  <2> HIDE DEF v, e, d, t, q
  <2>6. d[t] - q = 0
    BY <2>3, <2>5
  <2>7. \A x \in Ticks : e[x] = IF x # t THEN d[x]
                                ELSE IF t \in v.mapped[s] THEN d[x] - q ELSE 0
    BY <2>4, <2>6
  <2>8. \A skip \in BOOLEAN : skip \/ v.synced = {} =>
          LET u == Subtract(v, s, t, q, skip)
          IN  /\ Registered(u) /\ Positioned(u, s, e)
              /\ u.mapped = v.mapped /\ u.fallback = v.fallback
    BY <2>2, <2>3, <2>7, SubtractPositions
  <2>9. Registered(g[n]) /\ Positioned(g[n], s, e)
    BY <2>2, <2>8
  <2> QED
    BY <2>1, <2>9 DEF e
<1> HIDE DEF K
<1>9. N \in K
  BY <1>1, <1>7, <1>8, TurnsPass
<1> DEFINE w == g[N]
<1>10. /\ Registered(w) /\ Positioned(w, s, U(N)) /\ U(N) \in Delays
       /\ w \in Sim /\ GoodBook(w.book) /\ Mirrored(w)
  BY <1>1, <1>5, <1>6, <1>9 DEF K, Sane
<1>11. \A x \in Ticks : U(N)[x] = 0
  <2>1. \A x \in Ticks : f[x] # 0 => \E i \in 1 .. N : c.notes[i].px = x
    BY DEF Noted, N
  <2> QED
    BY <2>1 DEF Unsettled
<1> HIDE DEF U, w
<1>12. \A h \in Slots : w.tracked[h].live => U(N)[w.tracked[h].px] = 0
  BY <1>10, <1>11, TrackedOrder
<1> DEFINE z == U(N)
<1>14. z \in Delays /\ Positioned(w, s, z) /\ \A h \in Slots : w.tracked[h].live => z[w.tracked[h].px] = 0
  BY <1>10, <1>12
<1> HIDE DEF z
<1>15. \A h \in Slots : w.tracked[h].live /\ w.tracked[h].side = s =>
         /\ z[w.tracked[h].px] >= 0
         /\ z[w.tracked[h].px] # 0 => <<s, w.tracked[h].px>> \in w.drift
  BY <1>14
<1>13. Counted(w, w.drift)
  BY <1>10, <1>14, <1>15, EndPositions
<1> QED
  BY <1>10, <1>13 DEF Kept, w, N

LEMMA SettledKept ==
  ASSUME NEW s \in Side, NEW c \in Sweeps(s), Tallied(c, s)
  PROVE  Kept(Settled(c, s).w)
<1> DEFINE N == Len(c.notes)
           dr == c.w.drift \union {<<s, c.notes[i].px>> : i \in DOMAIN c.notes}
           d1 == [c EXCEPT !.notional = 0, !.w.drift = dr]
<1>1. /\ c \in SweepState /\ Sane(c.w, ZeroRef) /\ c.w \in Sim /\ c.notes \in Seq(NoteRecord)
      /\ N \in Nat
  BY SweepsParts, SweepFields
<1>2. PICK f \in Gathered : Noted(c, f) /\ Registered(c.w) /\ Positioned(c.w, s, f)
  BY DEF Tallied
<1>3. CASE c.stopped
  <2>1. Settled(c, s) = d1
    BY <1>3 DEF Settled
  <2>2. DOMAIN c.notes = 1 .. N /\ \A i \in 1 .. N : c.notes[i].px \in Ticks
    BY <1>1, <1>2 DEF Noted
  <2>3. dr \in SUBSET (Side \X Int)
    <3>1. \A i \in DOMAIN c.notes : <<s, c.notes[i].px>> \in Side \X Int
      BY <2>2, TicksInt
    <3> QED
      BY <1>1, <3>1, SimFields
  <2>4. \A x \in Ticks : f[x] # 0 => <<s, x>> \in dr
    <3> SUFFICES ASSUME NEW x \in Ticks, f[x] # 0 PROVE <<s, x>> \in dr
      OBVIOUS
    <3>1. PICK i \in 1 .. N : c.notes[i].px = x
      BY <1>2 DEF Noted
    <3> QED
      BY <2>2, <3>1
  <2>5. c.w.drift \subseteq dr
    OBVIOUS
  <2> HIDE DEF dr
  <2>6. d1.w = [c.w EXCEPT !.drift = dr]
    BY <1>1, <2>3, StopsUpdate
  <2> HIDE DEF d1
  <2>7. f \in Delays /\ \A x \in Ticks : f[x] >= 0
    BY DEF Gathered, Delays
  <2>8. GoodBook(c.w.book) /\ Mirrored(c.w)
    BY <1>1 DEF Sane
  <2>9. \A h \in Slots : c.w.tracked[h].live => c.w.tracked[h].px \in Ticks
    BY <1>1, <2>8, TrackedOrder
  <2>10. Counted(c.w, dr)
    BY <1>1, <1>2, <2>4, <2>5, <2>7, <2>8, <2>9, EndPositions
  <2> DEFINE v == [c.w EXCEPT !.drift = dr]
  <2>11. /\ v.book = c.w.book /\ v.tracked = c.w.tracked /\ v.drift = dr
         /\ v.mapped = c.w.mapped /\ v.fallback = c.w.fallback
    BY <1>1 DEF Sim
  <2> HIDE DEF v
  <2>12. Kept(v)
    BY <1>2, <2>10, <2>11 DEF Kept, Registered, Counted
  <2> QED
    BY <2>1, <2>6, <2>12 DEF v
<1>4. CASE ~c.stopped
  <2>1. PICK g : SettleRun(c, s, g)
    BY SettleRuns
  <2> DEFINE u == g[N]
             d2 == [c EXCEPT !.w = u]
  <2>2. Settled(c, s) = d2
    BY <1>4, <2>1 DEF SettleRun
  <2>3. Kept(u)
    BY <1>2, <2>1, SettleTallied
  <2> HIDE DEF u
  <2>4. d2.w = u
    BY <1>1 DEF SweepState
  <2> QED
    BY <2>2, <2>3, <2>4
<1> QED
  BY <1>3, <1>4

(* The sweep of an order before its final subtractions.                    *)
Swept(w, in, mode) ==
  Sweep(SweepFrom([w EXCEPT !.synced = {}], in.qty), in, Opposite(in.side), mode)

LEMMA CrossKept ==
  ASSUME NEW w, Sane(w, ZeroRef), Kept(w),
         NEW in, in.side \in Side, in.qty \in Nat, NEW mode, Fits(Swept(w, in, mode))
  PROVE  Kept(Cross(w, in, mode).w)
<1> DEFINE s == Opposite(in.side)
           fresh == [w EXCEPT !.synced = {}]
           c == SweepFrom(fresh, in.qty)
           d == Sweep(c, in, s, mode)
<1>1. s \in Side
  BY DEF Opposite, Side
<1>2. w \in Sim /\ GoodBook(w.book) /\ Mirrored(w) /\ Registered(w) /\ Counted(w, w.drift)
  BY DEF Sane, Kept
<1>3. Positioned(fresh, s, Even) /\ Registered(fresh)
  BY <1>2, StartPositions
<1>4. Kin(w, fresh)
  <2>1. /\ w.hidden \in Seq(Hidden) /\ {} \in SUBSET Slots /\ w.drift \in SUBSET (Side \X Int)
    BY <1>2, SimFields
  <2> QED
    BY <1>2, <2>1, BookkeepingKin
<1> HIDE DEF fresh
<1>5. Sane(fresh, ZeroRef) /\ fresh \in Sim
  BY <1>4, KinSane DEF Kin
<1>6. c \in SweepState
  <2>1. NoTick \in Int /\ NoNote \in NoteRecord /\ <<>> \in Seq(NoteRecord)
    BY BandAssumption DEF NoTick, NoNote, NoteRecord
  <2> QED
    BY <1>5, <2>1 DEF SweepFrom, SweepState
<1>7. c.w = fresh /\ c.filled = 0 /\ c.notes = <<>> /\ c.over = NoNote
  BY DEF SweepFrom
<1> HIDE DEF c
<1>8. c \in Sweeps(s)
  BY <1>5, <1>6, <1>7 DEF Sweeps, Paced
<1>9. Tallied(c, s)
  <2>1. Even \in Gathered /\ \A x \in Ticks : Even[x] = 0
    BY DEF Even, Gathered
  <2>2. Noted(c, Even)
    BY <1>7, <2>1 DEF Noted
  <2> QED
    BY <1>3, <1>7, <2>1, <2>2 DEF Tallied
<1>12. Fits(d)
  BY DEF Swept, c, fresh
<1> HIDE DEF s
<1>10. d \in Sweeps(s) /\ Tallied(d, s)
  BY <1>1, <1>8, <1>9, <1>12, SweepKeeps, SweepTallied
<1>11. Cross(w, in, mode) = Settled(d, s)
  BY DEF Cross, d, c, fresh, s
<1> HIDE DEF d
<1> QED
  BY <1>1, <1>10, <1>11, SettledKept

----------------------------------------------------------------------------
(* Orders that come and go between operations.                             *)

(* recompute_positions makes exact what was only bounded.                  *)
LEMMA RecomputeCounted ==
  ASSUME NEW w \in Sim, GoodBook(w.book), Mirrored(w), Registered(w), NEW levels, NEW D,
         Counted(w, D), D \subseteq w.drift \union levels
  PROVE  Kept(RecomputeAll(w, levels))
<1> DEFINE v == RecomputeAll(w, levels)
<1>1. /\ v.book = w.book /\ v.synced = w.synced
      /\ v.mapped = w.mapped /\ v.fallback = w.fallback /\ v.drift = w.drift \ levels
      /\ \A h \in Slots :
           /\ v.tracked[h].live = w.tracked[h].live
           /\ v.tracked[h].linked = w.tracked[h].linked
           /\ v.tracked[h].side = w.tracked[h].side /\ v.tracked[h].px = w.tracked[h].px
           /\ v.tracked[h].ahead =
                IF w.tracked[h].live /\ <<w.book.slot[h].side, w.book.slot[h].px>> \in levels
                THEN AheadOf(w.book, h) ELSE w.tracked[h].ahead
  BY RecomputeParts
<1> HIDE DEF v
<1>2. Registered(v)
  BY <1>1 DEF Registered
<1>3. ASSUME NEW h \in Slots, v.tracked[h].live
      PROVE  /\ v.tracked[h].ahead >= AheadOf(v.book, h)
             /\ <<v.tracked[h].side, v.tracked[h].px>> \notin v.drift =>
                  v.tracked[h].ahead = AheadOf(v.book, h)
  <2> DEFINE lv == <<w.tracked[h].side, w.tracked[h].px>>
  <2>1. w.tracked[h].live /\ <<v.tracked[h].side, v.tracked[h].px>> = lv
    BY <1>1, <1>3
  <2>2. /\ w.tracked[h].side = w.book.slot[h].side /\ w.tracked[h].px = w.book.slot[h].px
        /\ AheadOf(w.book, h) \in Nat
    BY <2>1, TrackedOrder
  <2>3. CASE lv \in levels
    <3>1. v.tracked[h].ahead = AheadOf(w.book, h)
      BY <1>1, <2>1, <2>2, <2>3
    <3> QED
      BY <1>1, <2>2, <3>1
  <2>4. CASE lv \notin levels
    <3>1. v.tracked[h].ahead = w.tracked[h].ahead
      BY <1>1, <2>1, <2>2, <2>4
    <3>2. /\ w.tracked[h].ahead >= AheadOf(w.book, h)
          /\ lv \notin D => w.tracked[h].ahead = AheadOf(w.book, h)
      BY <2>1 DEF Counted
    <3>3. lv \notin v.drift => lv \notin D
      BY <1>1, <2>4
    <3> QED
      BY <1>1, <2>1, <3>1, <3>2, <3>3
  <2> QED
    BY <2>3, <2>4
<1> QED
  BY <1>2, <1>3 DEF Kept, Counted, v

(* An order that leaves is no longer ahead of the others at its level.     *)
LEMMA ExpungeCounted ==
  ASSUME NEW w, Sane(w, ZeroRef), Kept(w), NEW h \in w.book.live
  PROVE  LET v == Expunged(w, h)
             o == w.book.slot[h]
         IN  /\ Registered(v) /\ v.drift = w.drift
             /\ Counted(v, w.drift \union {<<o.side, o.px>>})
<1> DEFINE v == Expunged(w, h)
           s == w.book.slot[h].side
           t == w.book.slot[h].px
           D == w.drift \union {<<s, t>>}
<1>1. /\ w \in Sim /\ GoodBook(w.book) /\ Mirrored(w) /\ Registered(w) /\ Counted(w, w.drift)
      /\ h \in Slots
  BY GoodParts DEF Sane, Kept
<1>2. /\ v.book = Drop(w.book, h) /\ ~v.tracked[h].live /\ TakenFrom(w, v, h, 0)
  BY <1>1, ExpungeParts
<1>3. \A i \in w.book.live \ {h} :
        LET n == AheadOf(Drop(w.book, h), i)
            m == AheadOf(w.book, i)
        IN  /\ n \in Int /\ n <= m
            /\ i \notin OrdersAt(w.book, s, t) => n = m
            /\ i \in OrdersAt(w.book, s, t) /\ w.book.level[s][t].head = h
                 => n = m - w.book.slot[h].qty
  BY <1>1, AheadDrop
<1>4. /\ v.mapped = w.mapped /\ v.fallback = w.fallback /\ v.drift = w.drift
      /\ \A i \in Slots \ {h} : v.tracked[i] = w.tracked[i]
  BY <1>2 DEF TakenFrom
<1> HIDE DEF v
<1>5. Registered(v)
  BY <1>1, <1>2, <1>4 DEF Registered
<1>6. s \in Side /\ t \in Ticks
  BY <1>1, GoodParts, LiveOrder
<1> HIDE DEF s, t
<1>7. ASSUME NEW i \in Slots, v.tracked[i].live
      PROVE  /\ v.tracked[i].ahead >= AheadOf(v.book, i)
             /\ <<v.tracked[i].side, v.tracked[i].px>> \notin D =>
                  v.tracked[i].ahead = AheadOf(v.book, i)
  <2>1. i # h /\ v.tracked[i] = w.tracked[i] /\ w.tracked[i].live
    BY <1>2, <1>4, <1>7
  <2>2. /\ i \in w.book.live /\ w.tracked[i].ahead \in Int /\ AheadOf(w.book, i) \in Nat
        /\ i \in OrdersAt(w.book, s, t) <=> w.tracked[i].side = s /\ w.tracked[i].px = t
    BY <1>1, <1>6, <2>1, TrackedOrder
  <2>3. /\ AheadOf(v.book, i) \in Int /\ AheadOf(v.book, i) <= AheadOf(w.book, i)
        /\ i \notin OrdersAt(w.book, s, t) => AheadOf(v.book, i) = AheadOf(w.book, i)
    BY <1>2, <1>3, <2>1, <2>2
  <2>4. /\ w.tracked[i].ahead >= AheadOf(w.book, i)
        /\ <<w.tracked[i].side, w.tracked[i].px>> \notin w.drift =>
             w.tracked[i].ahead = AheadOf(w.book, i)
    BY <1>1, <2>1 DEF Counted
  <2>5. <<w.tracked[i].side, w.tracked[i].px>> \notin D =>
          /\ <<w.tracked[i].side, w.tracked[i].px>> \notin w.drift
          /\ i \notin OrdersAt(w.book, s, t)
    BY <2>2
  <2> HIDE DEF D
  <2> QED
    BY <2>1, <2>2, <2>3, <2>4, <2>5
<1> QED
  BY <1>4, <1>5, <1>7 DEF Counted, v, D, s, t

(* An order of the replayed feed joins the back of its queue.              *)
LEMMA SeatKept ==
  ASSUME NEW w, Sane(w, ZeroRef), Kept(w), NEW h \in Slots \ w.book.live, NEW r \in Ref,
         w.book.id[r] = NullIndex, NEW s \in Side, NEW q \in Int, q > 0, NEW t \in Ticks,
         Claimable(w.book, s, t),
         NEW v, v.book = Insert(w.book, h, r, s, q, t), v.tracked = w.tracked,
         v.mapped = w.mapped, v.fallback = w.fallback, v.drift = w.drift
  PROVE  Kept(v)
<1>1. w \in Sim /\ GoodBook(w.book) /\ Mirrored(w) /\ Registered(w) /\ Counted(w, w.drift)
  BY DEF Sane, Kept
<1>2. \A i \in w.book.live : AheadOf(v.book, i) = AheadOf(w.book, i)
  BY <1>1, AheadInsert
<1>3. \A i \in Slots : w.tracked[i].live => i \in w.book.live
  BY <1>1 DEF Mirrored
<1> QED
  BY <1>1, <1>2, <1>3 DEF Kept, Registered, Counted

(* An order of the strategy joins the back of its queue with all that was  *)
(* displayed there ahead of it.                                            *)
LEMMA TrackCounted ==
  ASSUME NEW w, Sane(w, ZeroRef), Registered(w), NEW D, Counted(w, D),
         NEW h \in Slots \ w.book.live, NEW r \in Ref,
         w.book.id[r] = NullIndex, NEW s \in Side, NEW q \in Int, q > 0, NEW t \in Ticks,
         Claimable(w.book, s, t)
  PROVE  LET v == Track([w EXCEPT !.book = Insert(w.book, h, r, s, q, t)], h, r, s, q, t)
         IN  Registered(v) /\ Counted(v, D) /\ v.drift = w.drift
<1> DEFINE b == Insert(w.book, h, r, s, q, t)
           u == [w EXCEPT !.book = b]
           room == t \in u.mapped[s] \/ Cardinality(u.mapped[s]) < MapSize
           n == QtyAt(u, s, t) - q
           e == [live |-> TRUE, linked |-> room, ref |-> r, side |-> s, px |-> t,
                 rem |-> q, ahead |-> n]
           k == [u.tracked EXCEPT ![h] = e]
           m1 == IF room THEN u.mapped[s] \union {t} ELSE u.mapped[s]
           m2 == IF room THEN u.fallback[s] ELSE u.fallback[s] \union {t}
           mp == [u.mapped EXCEPT ![s] = m1]
           fb == [u.fallback EXCEPT ![s] = m2]
           v == Track(u, h, r, s, q, t)
<1>1. w \in Sim /\ GoodBook(w.book) /\ Mirrored(w)
  BY DEF Sane
<1>2. /\ u.book = b /\ u.tracked = w.tracked /\ u.mapped = w.mapped
      /\ u.fallback = w.fallback /\ u.drift = w.drift
  BY <1>1 DEF Sim
<1>3. v = [u EXCEPT !.tracked = k, !.mapped = mp, !.fallback = fb]
  BY <1>1 DEF Track, Sim
<1>4. /\ \A i \in w.book.live : AheadOf(b, i) = AheadOf(w.book, i)
      /\ AheadOf(b, h) = w.book.level[s][t].total
      /\ b.level[s][t].total = w.book.level[s][t].total + q
  BY <1>1, AheadInsert
<1> HIDE DEF b
<1>5. v.book = b /\ v.tracked = k /\ v.mapped = mp /\ v.fallback = fb /\ v.drift = w.drift
  BY <1>1, <1>2, <1>3 DEF Sim
<1>6. n = AheadOf(b, h) /\ n \in Int
  <2>1. w.book.level[s][t].total \in Int
    <3>1. QtyAt(w, s, t) \in Nat
      BY TotalsNat, TicksInt
    <3> QED
      BY <3>1, TickInBand, TicksInt DEF QtyAt
  <2>2. QtyAt(u, s, t) = b.level[s][t].total
    BY <1>2, TickInBand, TicksInt DEF QtyAt
  <2> HIDE DEF u
  <2> QED
    BY <1>4, <2>1, <2>2
<1>7. e.live /\ e.linked = room /\ e.side = s /\ e.px = t /\ e.ahead = n
  OBVIOUS
<1> HIDE DEF e, n, v
<1>8. k[h] = e /\ \A i \in Slots \ {h} : k[i] = w.tracked[i]
  BY <1>1, <1>2, SimFields
<1>9. room <=> t \in w.mapped[s] \/ Cardinality(w.mapped[s]) < MapSize
  BY <1>2
<1>10. /\ m1 = IF room THEN w.mapped[s] \union {t} ELSE w.mapped[s]
       /\ m2 = IF room THEN w.fallback[s] ELSE w.fallback[s] \union {t}
  BY <1>2
<1> HIDE DEF room, m1, m2
<1>11. /\ mp[s] = m1 /\ fb[s] = m2
       /\ \A x \in Side : x # s => mp[x] = w.mapped[x] /\ fb[x] = w.fallback[x]
  BY <1>1, <1>2, SimFields
<1> HIDE DEF k, mp, fb, u
<1>12. /\ w.mapped[s] \intersect w.fallback[s] = {}
       /\ w.fallback[s] # {} => ~(Cardinality(w.mapped[s]) < MapSize)
  BY DEF Registered
<1>13. m1 \intersect m2 = {} /\ (m2 # {} => ~(Cardinality(m1) < MapSize))
  <2>1. CASE room /\ t \in w.mapped[s]
    <3>1. m1 = w.mapped[s] /\ m2 = w.fallback[s]
      BY <1>10, <2>1
    <3> QED
      BY <1>12, <3>1
  <2>2. CASE room /\ t \notin w.mapped[s]
    <3>1. w.fallback[s] = {}
      BY <1>9, <1>12, <2>2
    <3> QED
      BY <1>10, <2>2, <3>1
  <2>3. CASE ~room
    <3>1. m1 = w.mapped[s] /\ m2 = w.fallback[s] \union {t} /\ t \notin w.mapped[s]
      BY <1>9, <1>10, <2>3
    <3>2. ~(Cardinality(w.mapped[s]) < MapSize)
      BY <1>9, <2>3
    <3> QED
      BY <1>12, <3>1, <3>2
  <2> QED
    BY <2>1, <2>2, <2>3
<1>14. \A x \in Side : w.mapped[x] \subseteq mp[x] /\ w.fallback[x] \subseteq fb[x]
  BY <1>10, <1>11
<1>15. IF room THEN t \in mp[s] ELSE t \in fb[s]
  BY <1>10, <1>11
<1>16. Registered(v)
  <2>1. ASSUME NEW i \in Slots, v.tracked[i].live
        PROVE  IF v.tracked[i].linked THEN v.tracked[i].px \in v.mapped[v.tracked[i].side]
               ELSE v.tracked[i].px \in v.fallback[v.tracked[i].side]
    <3>1. CASE i = h
      BY <1>5, <1>7, <1>8, <1>15, <3>1
    <3>2. CASE i # h
      <4>1. v.tracked[i] = w.tracked[i] /\ w.tracked[i].live
        BY <1>5, <1>8, <2>1, <3>2
      <4>2. w.tracked[i].side \in Side
        BY <1>1, <4>1, TrackedOrder
      <4>3. IF w.tracked[i].linked THEN w.tracked[i].px \in w.mapped[w.tracked[i].side]
            ELSE w.tracked[i].px \in w.fallback[w.tracked[i].side]
        BY <4>1 DEF Registered
      <4> QED
        BY <1>5, <1>14, <4>1, <4>2, <4>3
    <3> QED
      BY <3>1, <3>2
  <2>2. ASSUME NEW x \in Side
        PROVE  /\ v.mapped[x] \intersect v.fallback[x] = {}
               /\ v.fallback[x] # {} => ~(Cardinality(v.mapped[x]) < MapSize)
    <3>1. CASE x = s
      BY <1>5, <1>11, <1>13, <3>1
    <3>2. CASE x # s
      BY <1>5, <1>11, <3>2 DEF Registered
    <3> QED
      BY <3>1, <3>2
  <2> QED
    BY <2>1, <2>2 DEF Registered
<1>17. Counted(v, D)
  <2> SUFFICES ASSUME NEW i \in Slots, v.tracked[i].live
               PROVE  /\ v.tracked[i].ahead >= AheadOf(v.book, i)
                      /\ <<v.tracked[i].side, v.tracked[i].px>> \notin D =>
                           v.tracked[i].ahead = AheadOf(v.book, i)
    BY DEF Counted
  <2>1. CASE i = h
    <3>1. v.tracked[i].ahead = n
      BY <1>5, <1>7, <1>8, <2>1
    <3> QED
      BY <1>5, <1>6, <2>1, <3>1
  <2>2. CASE i # h
    <3>1. v.tracked[i] = w.tracked[i] /\ w.tracked[i].live
      BY <1>5, <1>8, <2>2
    <3>2. i \in w.book.live
      BY <1>1, <3>1 DEF Mirrored
    <3>3. AheadOf(v.book, i) = AheadOf(w.book, i)
      BY <1>4, <1>5, <3>2
    <3> QED
      BY <3>1, <3>3 DEF Counted
  <2> QED
    BY <2>1, <2>2
<1> QED
  BY <1>5, <1>16, <1>17 DEF v, u, b

----------------------------------------------------------------------------
(* Decisions.                                                              *)

LEMMA AckParts ==
  ASSUME NEW kind, NEW v, NEW c, NEW rests, NEW cancelled
  PROVE  Ack(kind, v, c, rests, cancelled).w = v
BY DEF Ack

LEMMA RemainderKept ==
  ASSUME NEW in, in.side \in Side, in.px \in Int, NEW r \in Strategy, NEW peg,
         NEW c \in SweepState, Sane(c.w, ZeroRef), Kept(c.w), NEW o \in Remainder(c, r, in, peg)
  PROVE  Kept(o.w)
<1> DEFINE w == c.w
           s == in.side
           kind == IF c.filled > 0 THEN "partial_then_rest" ELSE "rested"
           last == IF c.filled > 0 /\ c.rem = 0 THEN "filled" ELSE "partial_then_cancelled"
           entry == [ref |-> r, side |-> s, px |-> in.px, qty |-> c.rem,
                     peg |-> peg, offset |-> in.offset]
           seated(h) == Track([w EXCEPT !.book = Insert(@, h, r, s, c.rem, in.px)],
                              h, r, s, c.rem, in.px)
<1>1. w \in Sim /\ c.rem \in Nat
  BY SweepFields
<1>2. \/ o = Ack("rejected_unknown", w, c, 0, 0)
      \/ /\ AddError(w.book, r, s, c.rem, in.px) = "ok"
         /\ \E h \in Slots \ w.book.live : o = Ack(kind, seated(h), c, c.rem, 0)
      \/ o = Ack(kind, [w EXCEPT !.hidden = Append(@, entry)], c, c.rem, 0)
      \/ o = Ack(last, w, c, 0, c.rem)
  BY DEF Remainder
<1>3. CASE o = Ack("rejected_unknown", w, c, 0, 0) \/ o = Ack(last, w, c, 0, c.rem)
  BY <1>3, AckParts
<1>4. CASE AddError(w.book, r, s, c.rem, in.px) = "ok"
           /\ \E h \in Slots \ w.book.live : o = Ack(kind, seated(h), c, c.rem, 0)
  <2>1. PICK h \in Slots \ w.book.live : o = Ack(kind, seated(h), c, c.rem, 0)
    BY <1>4
  <2> DEFINE q == c.rem
             t == in.px
             b == Insert(w.book, h, r, s, q, t)
             v == Track([w EXCEPT !.book = b], h, r, s, q, t)
  <2>2. q \in Int /\ r \in Ref /\ t \in Int
    BY <1>1 DEF Strategy
  <2>3. seated(h) = v
    BY <1>1 DEF Sim
  <2>4. Sane(w, ZeroRef) /\ AddError(w.book, r, s, q, t) = "ok"
    BY <1>4
  <2>5. Claimable(w.book, s, t)
    BY <2>4 DEF AddError
  <2>6. Registered(w) /\ Counted(w, w.drift)
    BY DEF Kept
  <2> HIDE DEF q, t, w, s
  <2>7. t \in Ticks /\ q > 0 /\ w.book.id[r] = NullIndex
    BY <2>2, <2>4, Accepted DEF s
  <2>8. Registered(v) /\ Counted(v, w.drift) /\ v.drift = w.drift
    BY <2>2, <2>4, <2>5, <2>6, <2>7, TrackCounted DEF s
  <2> HIDE DEF v, seated, kind
  <2>9. Kept(v)
    BY <2>8 DEF Kept
  <2> QED
    BY <2>1, <2>3, <2>9, AckParts
<1>5. CASE o = Ack(kind, [w EXCEPT !.hidden = Append(@, entry)], c, c.rem, 0)
  <2> DEFINE hd == Append(w.hidden, entry)
             v == [w EXCEPT !.hidden = hd]
  <2>1. o.w = v
    BY <1>5, AckParts
  <2> HIDE DEF hd, entry
  <2>2. SamePlaces(w, v)
    BY <1>1, HiddenPlaces
  <2> QED
    BY <2>1, <2>2, KeptSame
<1> QED
  BY <1>2, <1>3, <1>4, <1>5

(* An inbound order as decide matches it, its peg resolved.                *)
Resolved(w, in) ==
  LET peg == PegOf(in)
      px  == IF peg = "none" THEN in.px ELSE Reference(w, peg, in.offset)
  IN  [in EXCEPT !.px = px, !.non_displayed = @ \/ peg # "none"]

(* No decision that could be taken needs the overflow slot.                *)
NotesFit(w, mode) ==
  LET v == Repeg(w) IN \A in \in Inbounds : Fits(Swept(v, Resolved(v, in), mode))

LEMMA OutcomesKept ==
  ASSUME NEW w0, Sane(w0, ZeroRef), Kept(w0),
         NEW r \in Strategy, NEW in0 \in Inbounds, NEW mode, NEW halt, NotesFit(w0, mode),
         NEW o \in Outcomes(w0, r, in0, mode, halt)
  PROVE  Kept(o.w)
<1> DEFINE w    == Repeg(w0)
           peg  == PegOf(in0)
           px   == IF peg = "none" THEN in0.px ELSE Reference(w, peg, in0.offset)
           in   == [in0 EXCEPT !.px = px, !.non_displayed = @ \/ peg # "none"]
           none == SweepFrom(w, in.qty)
           hits == ~halt /\ Crosses(w, in)
           c    == IF hits THEN Cross(w, in, mode) ELSE none
           s    == Opposite(in0.side)
<1>1. w0 \in Sim
  BY DEF Sane
<1>2. Sane(w, ZeroRef) /\ w \in Sim /\ Kept(w)
  <2>1. Kin(w0, w)
    BY <1>1, RepegKin
  <2>2. Kept(w)
    BY <1>1, RepegPlaces, KeptSame
  <2> QED
    BY <2>1, <2>2, KinSane DEF Kin
<1>11. Fits(Swept(w, in, mode))
  BY DEF NotesFit, Resolved
<1> HIDE DEF w
<1>3. px \in Int
  <2>1. in0.px \in Int /\ in0.offset \in Int
    BY SimAssumption
  <2>2. Reference(w, peg, in0.offset) \in Int
    BY <1>2, <2>1, ReferenceTyped
  <2> QED
    BY <2>1, <2>2
<1>4. in.side = in0.side /\ in.px \in Int /\ in.side \in Side /\ in.qty \in Nat
  <2> DEFINE x == in0.non_displayed \/ peg # "none"
             u == [in0 EXCEPT !.px = px, !.non_displayed = x]
  <2> HIDE DEF px, peg
  <2>1. in = u
    OBVIOUS
  <2> HIDE DEF x, in
  <2>2. u.side = in0.side /\ u.px = px /\ u.side \in Side /\ u.qty \in Nat
    BY <1>3, PricedOrder DEF u
  <2> HIDE DEF u
  <2> QED
    BY <1>3, <2>1, <2>2
<1>5. \/ o = Ack("rejected_unknown", w, none, 0, 0)
      \/ o = Ack("rejected_would_cross", w, none, 0, 0)
      \/ o = Ack("rejected_stp", c.w, c, 0, c.rem)
      \/ o \in Remainder(c, r, in, peg)
  BY DEF Outcomes, w
<1> HIDE DEF px, peg, in
<1>6. none \in SweepState /\ none.w = w
  <2>1. NoTick \in Int /\ NoNote \in NoteRecord /\ <<>> \in Seq(NoteRecord)
    BY BandAssumption DEF NoTick, NoNote, NoteRecord
  <2> QED
    BY <1>2, <1>4, <2>1 DEF SweepFrom, SweepState
<1>7. Cross(w, in, mode) \in SweepState /\ Sane(Cross(w, in, mode).w, ZeroRef)
  <2>1. Cross(w, in, mode) \in Sweeps(s)
    BY <1>2, <1>4, CrossKeeps
  <2> QED
    BY <2>1, SweepsParts
<1>8. Kept(Cross(w, in, mode).w)
  BY <1>2, <1>4, <1>11, CrossKept
<1> HIDE DEF none
<1>9. c \in SweepState /\ Sane(c.w, ZeroRef) /\ Kept(c.w)
  BY <1>2, <1>6, <1>7, <1>8
<1> HIDE DEF c
<1>10. o \in Remainder(c, r, in, peg) => Kept(o.w)
  BY <1>4, <1>9, RemainderKept
<1> QED
  BY <1>2, <1>5, <1>9, <1>10, AckParts

----------------------------------------------------------------------------
(* The inductive invariant, one lemma per action.                          *)

PosInv == SimInv /\ Kept(sim)

LEMMA InitPosInv == Init => PosInv
<1> SUFFICES ASSUME Init PROVE PosInv
  OBVIOUS
<1>1. sim = IdleSim
  BY DEF Init
<1>2. /\ \A h \in Slots : IdleSim.tracked[h] = NoRecord
      /\ \A x \in Side : IdleSim.mapped[x] = {} /\ IdleSim.fallback[x] = {}
  BY DEF IdleSim
<1>3. Registered(IdleSim)
  BY <1>2, NoRecordTyped DEF Registered
<1>4. Counted(IdleSim, IdleSim.drift)
  BY <1>2, NoRecordTyped DEF Counted
<1> QED
  BY <1>1, <1>3, <1>4, InitSimInv DEF PosInv, Kept

LEMMA MovesKept ==
  ASSUME NEW w \in Sim, Kept(w), Moves(w)
  PROVE  Kept(sim')
<1> DEFINE dr == {d \in w.drift : \E h \in Slots : /\ w.tracked[h].live
                                            /\ d = <<w.tracked[h].side, w.tracked[h].px>>}
           v == [w EXCEPT !.synced = {}, !.drift = dr]
<1>1. Done(w) = v
  BY DEF Done
<1>2. \A h \in Slots : w.tracked[h].live =>
        (<<w.tracked[h].side, w.tracked[h].px>> \in w.drift =>
           <<w.tracked[h].side, w.tracked[h].px>> \in dr)
  OBVIOUS
<1> HIDE DEF dr
<1>3. /\ v.book = w.book /\ v.tracked = w.tracked /\ v.drift = dr
      /\ v.mapped = w.mapped /\ v.fallback = w.fallback
  BY DEF Sim
<1> HIDE DEF v
<1>4. Registered(v)
  BY <1>3 DEF Kept, Registered
<1>5. Counted(v, v.drift)
  BY <1>2, <1>3 DEF Kept, Counted
<1> QED
  BY <1>1, <1>4, <1>5 DEF Moves, Kept

LEMMA IdleKept ==
  ASSUME PosInv, UNCHANGED sim
  PROVE  Kept(sim')
BY DEF PosInv

LEMMA PosParts ==
  ASSUME PosInv
  PROVE  /\ SimInv /\ Sane(sim, ZeroRef) /\ sim \in Sim /\ Kept(sim)
         /\ GoodBook(sim.book) /\ Mirrored(sim) /\ Registered(sim) /\ Counted(sim, sim.drift)
BY DEF PosInv, SimInv, Sane, Kept

LEMMA SeedExternalKept ==
  ASSUME PosInv, NEW r \in External, NEW d \in Seeds, SeedExternal(r, d)
  PROVE  Kept(sim')
<1>1. Sane(sim, ZeroRef) /\ sim \in Sim /\ Kept(sim)
  BY PosParts
<1>2. CASE AddError(sim.book, r, d.side, d.qty, d.px) # "ok"
  BY <1>2, IdleKept DEF SeedExternal, vars
<1>3. CASE AddError(sim.book, r, d.side, d.qty, d.px) = "ok"
  <2> DEFINE s == d.side
             q == d.qty
             t == d.px
  <2>1. s \in Side /\ q \in Int /\ t \in Int /\ r \in Ref
    BY SimAssumption
  <2>2. PICK h \in Slots \ sim.book.live :
          Moves([sim EXCEPT !.book = Insert(@, h, r, d.side, d.qty, d.px)])
    BY <1>3 DEF SeedExternal
  <2> DEFINE b == Insert(sim.book, h, r, s, q, t)
             v == [sim EXCEPT !.book = b]
  <2>3. Moves(v)
    BY <1>1, <2>2 DEF Sim
  <2>4. Claimable(sim.book, s, t)
    BY <1>3 DEF AddError
  <2> HIDE DEF b, s, q, t
  <2>5. t \in Ticks /\ q > 0 /\ sim.book.id[r] = NullIndex /\ b \in Book
    BY <1>1, <1>3, <2>1, Accepted DEF b, s, q, t
  <2>6. /\ v \in Sim /\ v.book = b /\ v.tracked = sim.tracked
        /\ v.mapped = sim.mapped /\ v.fallback = sim.fallback /\ v.drift = sim.drift
    BY <1>1, <2>5 DEF Sim
  <2> HIDE DEF v
  <2>7. Kept(v)
    BY <1>1, <2>1, <2>4, <2>5, <2>6, SeatKept DEF b
  <2> QED
    BY <2>3, <2>6, <2>7, MovesKept
<1> QED
  BY <1>2, <1>3

LEMMA SeedIcebergKept ==
  ASSUME PosInv, NEW r \in External, NEW d \in IcebergSeeds, SeedIceberg(r, d)
  PROVE  Kept(sim')
<1> DEFINE s == d.side
           q == d.display
           t == d.px
           w == sim
<1>1. Sane(w, ZeroRef) /\ w \in Sim /\ Kept(w)
  BY PosParts
<1>2. CASE AddError(w.book, r, s, q, t) # "ok"
  BY <1>2, IdleKept DEF SeedIceberg, vars
<1>3. CASE AddError(w.book, r, s, q, t) = "ok"
  <2>1. s \in Side /\ q \in Nat \ {0} /\ q \in Int /\ t \in Int /\ r \in Ref /\ d.total - q \in Nat
    BY SimAssumption
  <2> DEFINE e == [ref |-> r, side |-> s, px |-> t, display |-> q, hidden |-> d.total - q]
  <2>2. PICK h \in Slots \ w.book.live :
          Moves([w EXCEPT !.book = Insert(@, h, r, s, q, t), !.icebergs = Append(@, e)])
    BY <1>3 DEF SeedIceberg
  <2> DEFINE b == Insert(w.book, h, r, s, q, t)
             ib == Append(w.icebergs, e)
             v == [w EXCEPT !.book = b, !.icebergs = ib]
  <2>3. Moves(v)
    BY <1>1, <2>2 DEF Sim
  <2>4. Claimable(w.book, s, t)
    BY <1>3 DEF AddError
  <2> HIDE DEF b, s, q, t, w, e
  <2>5. t \in Ticks /\ q > 0 /\ w.book.id[r] = NullIndex /\ b \in Book
    BY <1>1, <1>3, <2>1, Accepted DEF b
  <2>6. e \in Iceberg
    BY <2>1, <2>5 DEF e, Iceberg
  <2>7. ib \in Seq(Iceberg)
    BY <1>1, <2>6, SimFields
  <2> HIDE DEF ib
  <2>8. /\ v \in Sim /\ v.book = b /\ v.tracked = w.tracked
        /\ v.mapped = w.mapped /\ v.fallback = w.fallback /\ v.drift = w.drift
    BY <1>1, <2>5, <2>7 DEF Sim
  <2> HIDE DEF v
  <2>9. Kept(v)
    BY <1>1, <2>1, <2>4, <2>5, <2>8, SeatKept DEF b
  <2> QED
    BY <2>3, <2>8, <2>9, MovesKept
<1> QED
  BY <1>2, <1>3

LEMMA DecideKept ==
  ASSUME NotesFit(sim, stp), PosInv, NEW r \in Strategy, NEW in \in Inbounds,
         Decide(r, in)
  PROVE  Kept(sim')
<1>1. PICK o \in Outcomes(sim, r, in, stp, halted) : Moves(o.w)
  BY DEF Decide
<1>2. Sane(sim, ZeroRef) /\ Kept(sim)
  BY PosParts
<1>3. o.w \in Sim
  BY <1>2, OutcomesSane DEF Sane
<1>4. Kept(o.w)
  BY <1>2, OutcomesKept
<1> QED
  BY <1>1, <1>3, <1>4, MovesKept

LEMMA ApplyExternalKept ==
  ASSUME PosInv, NEW s \in Side, NEW t \in Ticks, NEW q \in FlowQty, ApplyExternal(s, t, q)
  PROVE  Kept(sim')
<1> DEFINE w     == Repeg(sim)
           avail == QtyAt(w, s, t)
           v     == Consume(w, s, t, q)
           u     == Consume(w, s, t, avail)
           p     == Tap(u, s, t, q - avail)
<1>1. t \in Int /\ q \in Nat
  BY TicksInt, SimAssumption
<1>2. Sane(w, ZeroRef) /\ Kept(w)
  <2>1. sim \in Sim /\ Sane(sim, ZeroRef) /\ Kept(sim)
    BY PosParts
  <2>2. Kin(sim, Repeg(sim)) /\ SamePlaces(sim, Repeg(sim))
    BY <2>1, RepegKin, RepegPlaces
  <2> QED
    BY <2>1, <2>2, KinSane, KeptSame
<1>3. Moves(IF q <= avail THEN v ELSE p.w)
  BY DEF ApplyExternal
<1> HIDE DEF w
<1>4. avail \in Nat
  BY <1>1, <1>2, TotalsNat
<1> HIDE DEF avail
<1>5. Sane(v, ZeroRef) /\ Sane(u, ZeroRef) /\ Kept(v) /\ Kept(u)
  BY <1>1, <1>2, <1>4, ConsumeSane, ConsumeKept
<1> HIDE DEF u, v
<1>6. CASE q <= avail
  BY <1>3, <1>5, <1>6, MovesKept DEF Sane
<1>7. CASE ~(q <= avail)
  <2>1. q - avail \in Nat /\ u \in Sim
    BY <1>1, <1>4, <1>5, <1>7 DEF Sane
  <2>2. Kin(u, p.w) /\ SamePlaces(u, p.w)
    BY <2>1, TapKin, TapPlaces
  <2> HIDE DEF p
  <2>3. p.w \in Sim /\ Kept(p.w)
    BY <1>5, <2>2, KeptSame DEF Kin
  <2> QED
    BY <1>3, <1>7, <2>3, MovesKept
<1> QED
  BY <1>6, <1>7

LEMMA AdvanceTimeKept ==
  ASSUME PosInv, NEW qb \in 0 .. MaxDraw, NEW qs \in 0 .. MaxDraw, AdvanceTime(qb, qs)
  PROVE  Kept(sim')
<1> DEFINE u == Deplete(sim, "B", qb)
           v == Deplete(u, "S", qs)
<1>1. qb \in Nat /\ qs \in Nat /\ "B" \in Side /\ "S" \in Side
  BY SimAssumption DEF Side
<1>2. Moves(v)
  BY DEF AdvanceTime
<1>3. Sane(u, ZeroRef) /\ Kept(u)
  BY <1>1, PosParts, DepleteSane, DepleteKept
<1> HIDE DEF u
<1>4. Sane(v, ZeroRef) /\ Kept(v)
  BY <1>1, <1>3, DepleteSane, DepleteKept
<1> QED
  BY <1>2, <1>4, MovesKept DEF Sane

LEMMA CancelStrategyKept ==
  ASSUME PosInv, NEW r \in Strategy, CancelStrategy(r)
  PROVE  Kept(sim')
<1>1. Sane(sim, ZeroRef) /\ sim \in Sim /\ Kept(sim)
  BY PosParts
<1>2. CASE IsTracked(sim, r)
  <2> DEFINE h == Find(sim.book, r)
             o == sim.book.slot[h]
             u == Expunged(sim, h)
             lv == {<<o.side, o.px>>}
             v == RecomputeAll(u, lv)
  <2>1. h \in sim.book.live /\ sim.tracked[h].live
    BY <1>1, <1>2, TrackedFound
  <2>2. Moves(v)
    BY <1>2 DEF CancelStrategy, Recompute, Expunged
  <2>3. Spends(sim, u)
    BY <1>1, <2>1, ExpungeSpends DEF Expunged
  <2>4. Registered(u) /\ u.drift = sim.drift /\ Counted(u, sim.drift \union lv)
    BY <1>1, <2>1, ExpungeCounted
  <2> HIDE DEF u
  <2>5. u \in Sim /\ GoodBook(u.book) /\ Mirrored(u)
    BY <2>3 DEF Spends, Sane
  <2> HIDE DEF lv
  <2>6. Kept(v)
    BY <2>4, <2>5, RecomputeCounted
  <2>7. v \in Sim
    BY <2>5, RecomputeKin DEF Kin
  <2> QED
    BY <2>2, <2>6, <2>7, MovesKept
<1>3. CASE ~IsTracked(sim, r) /\ HiddenOf(sim, r) # 0
  <2> DEFINE hd == RemoveAt(sim.hidden, HiddenOf(sim, r))
             v  == [sim EXCEPT !.hidden = hd]
  <2>1. Moves(v)
    BY <1>1, <1>3 DEF CancelStrategy, Sim
  <2>2. sim.hidden \in Seq(Hidden) /\ HiddenOf(sim, r) \in 1 .. Len(sim.hidden)
    BY <1>1, <1>3, HiddenFound, SimFields
  <2>3. hd \in Seq(Hidden)
    BY <2>2, RemoveAtTyped
  <2> HIDE DEF hd
  <2>4. v \in Sim /\ SamePlaces(sim, v)
    BY <1>1, <2>3, HiddenPlaces DEF Sim
  <2> HIDE DEF v
  <2> QED
    BY <1>1, <2>1, <2>4, KeptSame, MovesKept
<1>4. CASE ~IsTracked(sim, r) /\ HiddenOf(sim, r) = 0
  BY <1>4, IdleKept DEF CancelStrategy, vars
<1> QED
  BY <1>2, <1>3, <1>4

(* The replacement joins the back of its queue; only the level its         *)
(* original left may be behind.                                            *)
LEMMA ReplacementCounted ==
  ASSUME NEW w, Sane(w, ZeroRef), Kept(w), NEW r \in Strategy, IsTracked(w, r),
         NEW n \in Strategy, NEW q \in Int, NEW t \in Int, ReplaceError(w.book, r, n, q, t) = "ok"
  PROVE  LET h == Find(w.book, r)
             o == w.book.slot[h]
             b == Insert(Drop(w.book, h), h, n, o.side, q, t)
             v == Track([Untrack(w, h) EXCEPT !.book = b], h, n, o.side, q, t)
         IN  /\ Registered(v) /\ v.drift = w.drift
             /\ Counted(v, w.drift \union {<<o.side, o.px>>})
<1> DEFINE h == Find(w.book, r)
           s == w.book.slot[h].side
           p == w.book.slot[h].px
           d == Drop(w.book, h)
           b == Insert(d, h, n, s, q, t)
           u == Expunged(w, h)
           x == [Untrack(w, h) EXCEPT !.book = b]
           D == w.drift \union {<<s, p>>}
<1>1. w \in Sim /\ GoodBook(w.book) /\ n \in Ref
  BY DEF Sane, Strategy
<1>2. h \in w.book.live /\ w.tracked[h].live /\ w.book.slot[h].ref = r /\ s \in Side
      /\ h \in Slots
  BY <1>1, TrackedFound, GoodParts
<1>3. /\ q > 0 /\ InBand(t) /\ Claimable(w.book, s, t)
      /\ (r = n \/ Find(w.book, n) = NullIndex)
  BY DEF ReplaceError
<1>4. t \in Ticks
  BY <1>3, TickInBand
<1>5. x = [u EXCEPT !.book = b]
  BY <1>1 DEF Expunged, Untrack, Sim
<1> HIDE DEF h, s, p
<1>6. Spends(w, u)
  BY <1>2, ExpungeSpends DEF Expunged
<1>7. /\ d.live = w.book.live \ {h} /\ d.page = w.book.page
      /\ \A z \in Ref : d.id[z] = IF z = r THEN NullIndex ELSE w.book.id[z]
  BY <1>1, <1>2, DropGood
<1>8. u.book = d
  BY <1>1, <1>2, ExpungeParts
<1>9. Registered(u) /\ u.drift = w.drift /\ Counted(u, D)
  BY <1>2, ExpungeCounted DEF s, p
<1> HIDE DEF u, d, x, D
<1>10. Sane(u, ZeroRef)
  BY <1>6 DEF Spends
<1>11. d.id[n] = NullIndex
  BY <1>1, <1>3, <1>7 DEF Find
<1>12. Claimable(d, s, t)
  BY <1>3, <1>7 DEF Claimable
<1>13. h \in Slots \ u.book.live /\ u.book.id[n] = NullIndex /\ Claimable(u.book, s, t)
       /\ b = Insert(u.book, h, n, s, q, t)
  BY <1>2, <1>7, <1>8, <1>11, <1>12
<1> DEFINE y == Track([u EXCEPT !.book = Insert(u.book, h, n, s, q, t)], h, n, s, q, t)
<1>14. Registered(y) /\ Counted(y, D) /\ y.drift = u.drift
  BY <1>1, <1>2, <1>3, <1>4, <1>9, <1>10, <1>13, TrackCounted
<1>15. y = Track(x, h, n, s, q, t)
  BY <1>5, <1>13
<1> HIDE DEF y, b
<1> QED
  BY <1>9, <1>14, <1>15 DEF x, b, d, D, h, s, p

LEMMA ReplaceStrategyKept ==
  ASSUME PosInv, NEW r \in Strategy, NEW n \in Strategy, NEW q \in ReplaceQty,
         NEW t \in ReplacePrice, ReplaceStrategy(r, n, q, t)
  PROVE  Kept(sim')
<1>1. Sane(sim, ZeroRef) /\ sim \in Sim /\ Kept(sim) /\ q \in Int /\ t \in Int
  BY PosParts, SimAssumption
<1>2. CASE IsTracked(sim, r) /\ ReplaceError(sim.book, r, n, q, t) = "ok"
  <2> DEFINE h == Find(sim.book, r)
             o == sim.book.slot[h]
             s == o.side
             p == o.px
             b == Insert(Drop(sim.book, h), h, n, s, q, t)
             done == Track([Untrack(sim, h) EXCEPT !.book = b], h, n, s, q, t)
             lv == {<<s, p>>}
             v1 == RecomputeAll(done, lv)
             dr == done.drift \union {<<s, t>>}
             v2 == [done EXCEPT !.drift = dr]
  <2>1. Sane(done, ZeroRef)
    BY <1>1, <1>2, ReplacementSane
  <2>2. Registered(done) /\ done.drift = sim.drift /\ Counted(done, sim.drift \union lv)
    BY <1>1, <1>2, ReplacementCounted
  <2>3. s \in Side
    BY <1>1, <1>2, TrackedFound
  <2>4. Moves(IF p # t THEN v1 ELSE v2)
    <3>1. [Untrack(sim, h) EXCEPT !.book = Insert(Drop(@, h), h, n, s, q, t)]
            = [Untrack(sim, h) EXCEPT !.book = b]
      BY <1>1 DEF Untrack, Sim
    <3> HIDE DEF h, s, b, p
    <3> QED
      BY <1>2, <3>1 DEF ReplaceStrategy, Recompute, h, s, p
  <2> HIDE DEF done, s, p
  <2>5. done \in Sim /\ GoodBook(done.book) /\ Mirrored(done)
    BY <2>1 DEF Sane
  <2>6. CASE p # t
    <3> HIDE DEF lv
    <3>1. Kept(v1)
      BY <2>2, <2>5, RecomputeCounted
    <3>2. v1 \in Sim
      BY <2>5, RecomputeKin DEF Kin
    <3> HIDE DEF v1, v2
    <3> QED
      BY <2>4, <2>6, <3>1, <3>2, MovesKept
  <2>7. CASE p = t
    <3>1. dr = sim.drift \union lv
      BY <2>2, <2>7
    <3>2. dr \in SUBSET (Side \X Int)
      BY <1>1, <2>3, <2>5, SimFields
    <3> HIDE DEF dr, lv
    <3>3. /\ v2 \in Sim /\ v2.book = done.book /\ v2.tracked = done.tracked /\ v2.drift = dr
          /\ v2.mapped = done.mapped /\ v2.fallback = done.fallback
      BY <2>5, <3>2 DEF Sim
    <3> HIDE DEF v1, v2
    <3>4. Kept(v2)
      BY <2>2, <3>1, <3>3 DEF Kept, Registered, Counted
    <3> QED
      BY <2>4, <2>7, <3>3, <3>4, MovesKept
  <2> QED
    BY <2>6, <2>7
<1>3. CASE IsTracked(sim, r) /\ ReplaceError(sim.book, r, n, q, t) # "ok"
  BY <1>3, IdleKept DEF ReplaceStrategy, vars
<1>4. CASE ~IsTracked(sim, r) /\ HiddenOf(sim, r) # 0
  <2> DEFINE i  == HiddenOf(sim, r)
             m  == [sim.hidden[i] EXCEPT !.ref = n, !.px = t, !.qty = q]
             hd == [sim.hidden EXCEPT ![i] = m]
             v  == [sim EXCEPT !.hidden = hd]
  <2>1. i \in 1 .. Len(sim.hidden) /\ sim.hidden \in Seq(Hidden)
    BY <1>1, <1>4, HiddenFound, SimFields
  <2>2. m \in Hidden
    <3>1. sim.hidden[i] \in Hidden
      BY <2>1
    <3> QED
      BY <1>1, <3>1, HiddenReplace
  <2>3. Moves([sim EXCEPT !.hidden[i].ref = n, !.hidden[i].px = t, !.hidden[i].qty = q])
    BY <1>4 DEF ReplaceStrategy
  <2> HIDE DEF i
  <2>4. [sim EXCEPT !.hidden[i].ref = n, !.hidden[i].px = t, !.hidden[i].qty = q] = v
    <3>1. [sim.hidden EXCEPT ![i].ref = n, ![i].px = t, ![i].qty = q] = hd
      <4>1. DOMAIN sim.hidden = 1 .. Len(sim.hidden)
        BY <2>1
      <4> QED
        BY <2>1, <4>1
    <3>2. [sim EXCEPT !.hidden[i].ref = n, !.hidden[i].px = t, !.hidden[i].qty = q]
            = [sim EXCEPT !.hidden = [@ EXCEPT ![i].ref = n, ![i].px = t, ![i].qty = q]]
      BY <1>1, <2>1, <3>1 DEF Sim
    <3> QED
      BY <3>1, <3>2
  <2> HIDE DEF m
  <2>5. hd \in Seq(Hidden)
    BY <2>1, <2>2
  <2> HIDE DEF hd
  <2>6. v \in Sim /\ SamePlaces(sim, v)
    BY <1>1, <2>5, HiddenPlaces DEF Sim
  <2> HIDE DEF v
  <2> QED
    BY <1>1, <2>3, <2>4, <2>6, KeptSame, MovesKept
<1>5. CASE ~IsTracked(sim, r) /\ HiddenOf(sim, r) = 0
  BY <1>5, IdleKept DEF ReplaceStrategy, vars
<1> QED
  BY <1>2, <1>3, <1>4, <1>5

LEMMA AuditKept ==
  ASSUME PosInv, Audit
  PROVE  Kept(sim')
<1>1. /\ sim \in Sim /\ GoodBook(sim.book) /\ Mirrored(sim)
      /\ Registered(sim) /\ Counted(sim, sim.drift)
  BY PosParts
<1>2. PICK levels : Moves(RecomputeAll(sim, levels))
  BY DEF Audit
<1>3. sim.drift \subseteq sim.drift \union levels
  OBVIOUS
<1>4. Kept(RecomputeAll(sim, levels))
  BY <1>1, <1>3, RecomputeCounted
<1>5. RecomputeAll(sim, levels) \in Sim
  BY <1>1, RecomputeKin DEF Kin
<1> QED
  BY <1>2, <1>4, <1>5, MovesKept

LEMMA NextPositions ==
  ASSUME NotesFit(sim, stp), PosInv, [Next]_vars
  PROVE  PosInv'
<1> SUFFICES Kept(sim')
  BY NextKeeps DEF PosInv
<1>1. ASSUME NEW r \in External, NEW d \in Seeds, SeedExternal(r, d) PROVE Kept(sim')
  BY <1>1, SeedExternalKept
<1>2. ASSUME NEW r \in External, NEW d \in IcebergSeeds, SeedIceberg(r, d) PROVE Kept(sim')
  BY <1>2, SeedIcebergKept
<1>3. ASSUME NEW r \in Strategy, NEW in \in Inbounds, Decide(r, in) PROVE Kept(sim')
  BY <1>3, DecideKept
<1>4. ASSUME NEW s \in Side, NEW t \in Ticks, NEW q \in FlowQty, ApplyExternal(s, t, q)
      PROVE Kept(sim')
  BY <1>4, ApplyExternalKept
<1>5. ASSUME NEW qb \in 0 .. MaxDraw, NEW qs \in 0 .. MaxDraw, AdvanceTime(qb, qs)
      PROVE Kept(sim')
  BY <1>5, AdvanceTimeKept
<1>6. ASSUME NEW r \in Strategy, CancelStrategy(r) PROVE Kept(sim')
  BY <1>6, CancelStrategyKept
<1>7. ASSUME NEW r \in Strategy, NEW n \in Strategy, NEW q \in ReplaceQty,
             NEW t \in ReplacePrice, ReplaceStrategy(r, n, q, t)
      PROVE Kept(sim')
  BY <1>7, ReplaceStrategyKept
<1>8. ASSUME NEW x \in BOOLEAN, SetHalted(x) PROVE Kept(sim')
  BY <1>8, IdleKept DEF SetHalted
<1>9. CASE Audit
  BY <1>9, AuditKept
<1>10. CASE UNCHANGED vars
  BY <1>10, IdleKept DEF vars
<1> QED
  BY <1>1, <1>2, <1>3, <1>4, <1>5, <1>6, <1>7, <1>8, <1>9, <1>10 DEF Next

(* PositionsSound (docs/FILLMODEL.md:35-42, Simulate.hpp:626-653,          *)
(* 1129-1150): what a tracked order believes is queued ahead of it is what *)
(* a walk of its queue counts, or on a level known to be behind, more than *)
(* that, as long as no decision sweeps more levels than the buffer notes   *)
(* (Simulate.hpp:776-801): run SweepOverflow shows what a sweep that does  *)
(* leaves of the positions.                                                *)
THEOREM PositionsHold == Spec /\ []NotesFit(sim, stp) => []PositionsSound
<1>1. PosInv /\ NotesFit(sim, stp) /\ [Next]_vars => PosInv'
  BY NextPositions
<1>2. PosInv => PositionsSound
  <2> SUFFICES ASSUME PosInv, NEW h \in Slots, sim.tracked[h].live
               PROVE  LET k    == sim.tracked[h]
                          real == AheadOf(sim.book, h)
                      IN  \/ k.ahead = real
                          \/ <<k.side, k.px>> \in sim.drift /\ k.ahead > real
    BY DEF PositionsSound
  <2>1. sim.tracked[h].ahead \in Int /\ AheadOf(sim.book, h) \in Nat
    BY PosParts, TrackedOrder
  <2>2. /\ sim.tracked[h].ahead >= AheadOf(sim.book, h)
        /\ <<sim.tracked[h].side, sim.tracked[h].px>> \notin sim.drift =>
             sim.tracked[h].ahead = AheadOf(sim.book, h)
    BY PosParts DEF Counted
  <2> QED
    BY <2>1, <2>2
<1> QED
  BY InitPosInv, <1>1, <1>2, PTL DEF Spec

(* A buffer with room for every tick of the band never overflows.          *)
COROLLARY PositionsHoldInBand ==
  TouchCap >= Cardinality(Ticks) => (Spec => []PositionsSound)
<1> SUFFICES ASSUME TouchCap >= Cardinality(Ticks) PROVE Spec => []PositionsSound
  OBVIOUS
<1>1. NotesFit(sim, stp)
  BY DEF NotesFit, Fits
<1> QED
  BY <1>1, PositionsHold, PTL

----------------------------------------------------------------------------
(* Sums.                                                                   *)

Summed(f, n, g) ==
  /\ g \in [0 .. n -> Int] /\ g[0] = 0
  /\ \A i \in 1 .. n : g[i] = g[i - 1] + f[i]

LEMMA TotalIs ==
  ASSUME NEW n \in Nat, NEW f \in [1 .. n -> Int]
  PROVE  \E g : Summed(f, n, g) /\ Total(f, n) = g[n]
<1> DEFINE G == [i \in 1 .. n |-> [x \in Int |-> x + f[i]]]
           rec(g) == g = [i \in 0 .. n |-> IF i = 0 THEN 0 ELSE g[i - 1] + f[i]]
           sum == CHOOSE g : rec(g)
<1>1. G \in [1 .. n -> [Int -> Int]]
  OBVIOUS
<1>2. PICK g : Turns(n, Int, 0, G, g)
  <2>1. 0 \in Int
    OBVIOUS
  <2> HIDE DEF G
  <2> QED
    BY <1>1, <2>1, LoopExists
<1>3. Summed(f, n, g)
  <2>1. g \in [0 .. n -> Int] /\ g[0] = 0 /\ \A i \in 1 .. n : g[i] = G[i][g[i - 1]]
    BY <1>2 DEF Turns
  <2>2. ASSUME NEW i \in 1 .. n PROVE g[i] = g[i - 1] + f[i]
    <3>0. i - 1 \in 0 .. n
      OBVIOUS
    <3>3. g[i] = G[i][g[i - 1]]
      BY <2>1
    <3>1. i - 1 \in 0 .. n /\ g[i] = G[i][g[i - 1]]
      BY <3>0, <3>3
    <3>2. g[i - 1] \in Int
      BY <2>1, <3>1
    <3> QED
      BY <3>1, <3>2
  <2> QED
    BY <2>1, <2>2 DEF Summed
<1>4. rec(g)
  BY <1>3 DEF Summed
<1>5. rec(sum)
  BY <1>4
<1>6. Total(f, n) = sum[n]
  BY DEF Total
<1> HIDE DEF sum
<1>7. \A i \in 0 .. n : sum[i] = IF i = 0 THEN 0 ELSE sum[i - 1] + f[i]
  BY <1>5
<1> DEFINE K == {i \in 0 .. n : sum[i] = g[i]}
<1>8. 0 \in K
  BY <1>3, <1>7 DEF Summed
<1>9. ASSUME NEW i \in 1 .. n, i - 1 \in K PROVE i \in K
  BY <1>3, <1>7, <1>9 DEF Summed
<1> HIDE DEF K
<1>10. n \in K
  BY <1>8, <1>9, TurnsPass
<1> QED
  BY <1>3, <1>6, <1>10 DEF K

LEMMA TotalInt ==
  ASSUME NEW n \in Nat, NEW f \in [1 .. n -> Int]
  PROVE  Total(f, n) \in Int
<1>1. PICK g : Summed(f, n, g) /\ Total(f, n) = g[n]
  BY TotalIs
<1> QED
  BY <1>1 DEF Summed

(* One addend more or less by x.                                           *)
Bumped(n, f, e, k, x) ==
  k \in 1 .. n /\ e[k] = f[k] + x /\ \A i \in 1 .. n : i # k => e[i] = f[i]

LEMMA TotalBump ==
  ASSUME NEW n \in Nat, NEW f \in [1 .. n -> Int], NEW e \in [1 .. n -> Int],
         NEW k, NEW x \in Int, Bumped(n, f, e, k, x)
  PROVE  Total(e, n) = Total(f, n) + x
<1>0. k \in 1 .. n /\ e[k] = f[k] + x /\ \A i \in 1 .. n : i # k => e[i] = f[i]
  BY DEF Bumped
<1>1. PICK g : Summed(f, n, g) /\ Total(f, n) = g[n]
  BY TotalIs
<1>2. PICK h : Summed(e, n, h) /\ Total(e, n) = h[n]
  BY TotalIs
<1> DEFINE K == {i \in 0 .. n : h[i] = IF i < k THEN g[i] ELSE g[i] + x}
<1>3. 0 \in K
  BY <1>0, <1>1, <1>2 DEF Summed
<1>4. ASSUME NEW i \in 1 .. n, i - 1 \in K PROVE i \in K
  <2>0. i - 1 \in 0 .. n /\ i \in Int /\ k \in Int
    BY <1>0
  <2>6. g[i - 1] \in Int /\ g[i] = g[i - 1] + f[i]
    BY <1>1, <2>0 DEF Summed
  <2>7. h[i - 1] \in Int /\ h[i] = h[i - 1] + e[i]
    BY <1>2, <2>0 DEF Summed
  <2>8. f[i] \in Int /\ e[i] \in Int
    OBVIOUS
  <2>1. /\ i - 1 \in 0 .. n /\ g[i - 1] \in Int /\ h[i - 1] \in Int /\ f[i] \in Int /\ e[i] \in Int
        /\ g[i] = g[i - 1] + f[i] /\ h[i] = h[i - 1] + e[i]
    BY <2>0, <2>6, <2>7, <2>8
  <2>2. h[i - 1] = IF i - 1 < k THEN g[i - 1] ELSE g[i - 1] + x
    BY <1>4
  <2>3. CASE i < k
    BY <1>0, <2>0, <2>1, <2>2, <2>3
  <2>4. CASE i = k
    BY <1>0, <2>0, <2>1, <2>2, <2>4
  <2>5. CASE i > k
    <3>1. e[i] = f[i] /\ ~(i - 1 < k) /\ ~(i < k)
      BY <1>0, <2>0, <2>5
    <3> QED
      BY <2>1, <2>2, <3>1
  <2> QED
    BY <2>0, <2>3, <2>4, <2>5
<1> HIDE DEF K
<1>5. n \in K
  BY <1>3, <1>4, TurnsPass
<1> QED
  BY <1>0, <1>1, <1>2, <1>5 DEF K

(* One addend more at the end.                                             *)
LEMMA TotalAppend ==
  ASSUME NEW n \in Nat, NEW f \in [1 .. n -> Int], NEW e \in [1 .. n + 1 -> Int],
         \A i \in 1 .. n : e[i] = f[i]
  PROVE  Total(e, n + 1) = Total(f, n) + e[n + 1]
<1>1. PICK g : Summed(f, n, g) /\ Total(f, n) = g[n]
  BY TotalIs
<1>2. PICK h : Summed(e, n + 1, h) /\ Total(e, n + 1) = h[n + 1]
  BY TotalIs
<1> DEFINE K == {i \in 0 .. n : h[i] = g[i]}
<1>3. 0 \in K
  BY <1>1, <1>2 DEF Summed
<1>4. ASSUME NEW i \in 1 .. n, i - 1 \in K PROVE i \in K
  BY <1>1, <1>2, <1>4 DEF Summed
<1> HIDE DEF K
<1>5. n \in K
  BY <1>3, <1>4, TurnsPass
<1>6. h[n + 1] = h[n] + e[n + 1]
  <2>1. n + 1 \in 1 .. n + 1 /\ (n + 1) - 1 = n
    OBVIOUS
  <2> QED
    BY <1>2, <2>1 DEF Summed
<1> QED
  BY <1>1, <1>2, <1>5, <1>6 DEF K

(* One addend less, the later ones moving up.                              *)
LEMMA TotalRemove ==
  ASSUME NEW n \in Nat \ {0}, NEW f \in [1 .. n -> Int], NEW e \in [1 .. n - 1 -> Int],
         NEW k \in 1 .. n, \A i \in 1 .. n - 1 : e[i] = IF i < k THEN f[i] ELSE f[i + 1]
  PROVE  Total(e, n - 1) = Total(f, n) - f[k]
<1>0. n - 1 \in Nat /\ f[k] \in Int
  OBVIOUS
<1>1. PICK g : Summed(f, n, g) /\ Total(f, n) = g[n]
  BY TotalIs
<1>2. PICK h : Summed(e, n - 1, h) /\ Total(e, n - 1) = h[n - 1]
  BY <1>0, TotalIs
<1> DEFINE m == n - 1
           K == {i \in 0 .. m : h[i] = IF i < k THEN g[i] ELSE g[i + 1] - f[k]}
<1>3. 0 \in K
  BY <1>1, <1>2 DEF Summed
<1>4. ASSUME NEW i \in 1 .. m, i - 1 \in K PROVE i \in K
  <2>1. /\ i \in Int /\ i - 1 \in 0 .. m /\ i \in 1 .. n /\ i + 1 \in 1 .. n /\ (i + 1) - 1 = i
        /\ i - 1 \in 0 .. n
    OBVIOUS
  <2>2. /\ g[i - 1] \in Int /\ g[i] \in Int /\ g[i + 1] \in Int
        /\ f[i] \in Int /\ f[i + 1] \in Int
        /\ g[i] = g[i - 1] + f[i] /\ g[i + 1] = g[i] + f[i + 1]
    BY <1>1, <2>1 DEF Summed
  <2>3. h[i - 1] \in Int /\ h[i] = h[i - 1] + e[i] /\ e[i] = IF i < k THEN f[i] ELSE f[i + 1]
    BY <1>2, <2>1 DEF Summed
  <2>4. h[i - 1] = IF i - 1 < k THEN g[i - 1] ELSE g[i] - f[k]
    BY <1>4, <2>1
  <2>5. CASE i < k
    <3>1. i - 1 < k
      BY <2>1, <2>5
    <3>2. h[i - 1] = g[i - 1] /\ e[i] = f[i]
      BY <2>3, <2>4, <2>5, <3>1
    <3>3. h[i] = g[i]
      BY <2>2, <2>3, <3>2
    <3> QED
      BY <2>5, <3>3
  <2>6. CASE i = k
    <3>1. i - 1 < k /\ ~(i < k)
      BY <2>1, <2>6
    <3>2. h[i - 1] = g[i - 1] /\ e[i] = f[i + 1] /\ f[k] = f[i]
      BY <2>3, <2>4, <2>6, <3>1
    <3> DEFINE a == g[i - 1]
               x == f[i]
               y == f[i + 1]
    <3>3. /\ a \in Int /\ x \in Int /\ y \in Int /\ g[i] = a + x /\ g[i + 1] = g[i] + y
          /\ h[i] = a + y /\ f[k] = x
      BY <2>2, <2>3, <3>2
    <3> HIDE DEF a, x, y
    <3>4. h[i] = g[i + 1] - f[k]
      BY <3>3
    <3> QED
      BY <3>1, <3>4
  <2>7. CASE i > k
    <3>1. ~(i - 1 < k) /\ ~(i < k)
      BY <2>1, <2>7
    <3>2. h[i - 1] = g[i] - f[k] /\ e[i] = f[i + 1]
      BY <2>3, <2>4, <3>1
    <3> DEFINE a == g[i]
               y == f[i + 1]
               z == f[k]
    <3>3. a \in Int /\ y \in Int /\ z \in Int /\ g[i + 1] = a + y /\ h[i] = (a - z) + y
      BY <1>0, <2>2, <2>3, <3>2
    <3> HIDE DEF a, y, z
    <3>4. h[i] = g[i + 1] - z
      BY <3>3
    <3> QED
      BY <3>1, <3>4 DEF z
  <2> QED
    BY <2>5, <2>6, <2>7
<1>5. m \in Nat
  BY <1>0
<1> HIDE DEF K, m
<1>6. m \in K
  BY <1>3, <1>4, <1>5, TurnsPass
<1>7. h[m] = IF m < k THEN g[m] ELSE g[m + 1] - f[k]
  BY <1>6 DEF K
<1>8. g[n] = g[m] + f[n] /\ m + 1 = n /\ g[m] \in Int /\ f[n] \in Int
  <2>1. n \in 1 .. n /\ m + 1 = n /\ n - 1 = m /\ m \in 0 .. n
    BY DEF m
  <2> QED
    BY <1>1, <2>1 DEF Summed
<1>9. h[m] = g[n] - f[k]
  <2>1. CASE m < k
    <3>1. k = n
      <4>1. k \in Int /\ k <= n /\ n \in Int
        OBVIOUS
      <4> QED
        BY <1>5, <1>8, <2>1, <4>1
    <3> QED
      BY <1>0, <1>7, <1>8, <2>1, <3>1
  <2>2. CASE ~(m < k)
    BY <1>7, <1>8, <2>2
  <2> QED
    BY <2>1, <2>2
<1> QED
  BY <1>1, <1>2, <1>9 DEF m

(* The last addend takes the place of one that goes.                       *)
LEMMA TotalSwapRemove ==
  ASSUME NEW n \in Nat \ {0}, NEW f \in [1 .. n -> Int], NEW e \in [1 .. n - 1 -> Int],
         NEW k \in 1 .. n, \A i \in 1 .. n - 1 : e[i] = IF i = k THEN f[n] ELSE f[i]
  PROVE  Total(e, n - 1) = Total(f, n) - f[k]
<1> DEFINE m == n - 1
           r == [i \in 1 .. m |-> f[i]]
<1>1. m \in Nat /\ m + 1 = n /\ f[n] \in Int /\ f[k] \in Int /\ k \in Int
  OBVIOUS
<1>2. r \in [1 .. m -> Int] /\ \A i \in 1 .. m : r[i] = f[i]
  OBVIOUS
<1> HIDE DEF r
<1>3. Total(f, n) = Total(r, m) + f[n] /\ Total(r, m) \in Int
  <2>1. f \in [1 .. m + 1 -> Int] /\ \A i \in 1 .. m : f[i] = r[i]
    BY <1>1, <1>2
  <2> HIDE DEF m
  <2>2. Total(f, m + 1) = Total(r, m) + f[m + 1]
    BY <1>1, <1>2, <2>1, TotalAppend
  <2> QED
    BY <1>1, <1>2, <2>2, TotalInt
<1>4. CASE k = n
  <2>1. \A i \in 1 .. m : e[i] = r[i]
    BY <1>1, <1>2, <1>4
  <2>2. e = r
    BY <1>2, <2>1
  <2> QED
    BY <1>1, <1>3, <1>4, <2>2
<1>5. CASE k # n
  <2>1. k \in 1 .. m
    BY <1>1, <1>5
  <2>2. e[k] = r[k] + (f[n] - f[k]) /\ f[n] - f[k] \in Int
    BY <1>1, <1>2, <2>1
  <2>3. \A i \in 1 .. m : i # k => e[i] = r[i]
    BY <1>2
  <2>4. e \in [1 .. m -> Int]
    OBVIOUS
  <2> DEFINE x == f[n] - f[k]
  <2>6. e[k] = r[k] + x /\ x \in Int
    BY <2>2
  <2> HIDE DEF m, x
  <2>7. Total(e, m) = Total(r, m) + x
    <3>1. Bumped(m, r, e, k, x)
      BY <2>1, <2>3, <2>6 DEF Bumped
    <3>2. m \in Nat /\ r \in [1 .. m -> Int] /\ e \in [1 .. m -> Int] /\ x \in Int
      BY <1>1, <1>2, <2>4, <2>6
    <3> QED
      BY ONLY <3>1, <3>2, TotalBump
  <2>5. Total(e, m) = Total(r, m) + (f[n] - f[k])
    BY <2>7 DEF x
  <2> QED
    BY <1>1, <1>3, <2>5 DEF m
<1> QED
  BY <1>4, <1>5

----------------------------------------------------------------------------
(* What the levels of a side are worth.                                    *)

Value(b, s, t) == t * b.level[s][t].total
Nth(i) == Lo + i - 1
Place(t) == t - Lo + 1

LevelAddends(b, s) == [i \in 1 .. (Hi - Lo) |-> Value(b, s, Nth(i))]

Whole(b, s) == \A t \in Ticks : b.level[s][t].total \in Int

LEMMA Places ==
  /\ Hi - Lo \in Nat
  /\ \A i \in 1 .. (Hi - Lo) : Nth(i) \in Ticks /\ Place(Nth(i)) = i
  /\ \A t \in Ticks : Place(t) \in 1 .. (Hi - Lo) /\ Nth(Place(t)) = t
BY BandAssumption DEF Ticks, Nth, Place

LEMMA LevelWorthIs ==
  ASSUME NEW b, NEW s, Whole(b, s)
  PROVE  /\ LevelAddends(b, s) \in [1 .. (Hi - Lo) -> Int]
         /\ LevelWorth(b, s) = Total(LevelAddends(b, s), Hi - Lo)
         /\ LevelWorth(b, s) \in Int
<1>1. \A t \in Ticks : Value(b, s, t) \in Int
  <2> SUFFICES ASSUME NEW t \in Ticks PROVE Value(b, s, t) \in Int
    OBVIOUS
  <2>1. t \in Int /\ b.level[s][t].total \in Int
    BY TicksInt DEF Whole
  <2>2. \A x, y \in Int : x * y \in Int
    OBVIOUS
  <2> QED
    BY <2>1, <2>2 DEF Value
<1>2. LevelAddends(b, s) \in [1 .. (Hi - Lo) -> Int]
  BY <1>1, Places DEF LevelAddends
<1>3. LevelWorth(b, s) = Total(LevelAddends(b, s), Hi - Lo)
  BY DEF LevelWorth, LevelAddends, Value, Nth
<1>4. LevelWorth(b, s) \in Int
  BY <1>2, <1>3, Places, TotalInt
<1> QED
  BY <1>2, <1>3, <1>4

(* One level gains n units.                                                *)
LEMMA LevelWorthBump ==
  ASSUME NEW b, NEW s, Whole(b, s), NEW d, NEW t \in Ticks, NEW n \in Int,
         d.level[s][t].total = b.level[s][t].total + n,
         \A y \in Ticks : y # t => d.level[s][y].total = b.level[s][y].total
  PROVE  LevelWorth(d, s) = LevelWorth(b, s) + t * n
<1> DEFINE N == Hi - Lo
           f == LevelAddends(b, s)
           e == LevelAddends(d, s)
           k == Place(t)
           x == t * n
<1>1. Whole(d, s)
  BY DEF Whole
<1>2. f \in [1 .. N -> Int] /\ LevelWorth(b, s) = Total(f, N)
  BY LevelWorthIs
<1>3. e \in [1 .. N -> Int] /\ LevelWorth(d, s) = Total(e, N)
  BY <1>1, LevelWorthIs
<1>4. N \in Nat /\ k \in 1 .. N /\ Nth(k) = t
  BY Places
<1>5. t \in Int /\ x \in Int /\ b.level[s][t].total \in Int
  BY TicksInt DEF Whole
<1>6. Value(d, s, t) = Value(b, s, t) + x
  <2>1. \A y, z \in Int : t * (y + z) = t * y + t * z
    BY <1>5
  <2> QED
    BY <1>5, <2>1 DEF Value
<1>7. \A y \in Ticks : y # t => Value(d, s, y) = Value(b, s, y)
  BY DEF Value
<1>8. \A i \in 1 .. N : Nth(i) \in Ticks /\ (i # k => Nth(i) # t)
  BY Places
<1>9. \A i \in 1 .. N : f[i] = Value(b, s, Nth(i)) /\ e[i] = Value(d, s, Nth(i))
  BY DEF LevelAddends
<1> HIDE DEF N, f, e, k, x
<1>10. e[k] = f[k] + x
  BY <1>4, <1>6, <1>9
<1>11. \A i \in 1 .. N : i # k => e[i] = f[i]
  BY <1>7, <1>8, <1>9
<1>12. Bumped(N, f, e, k, x)
  BY <1>4, <1>10, <1>11 DEF Bumped
<1>13. Total(e, N) = Total(f, N) + x
  BY <1>2, <1>3, <1>4, <1>5, <1>12, TotalBump
<1> QED
  BY <1>2, <1>3, <1>13 DEF x

LEMMA LevelWorthSame ==
  ASSUME NEW b, NEW s, NEW d, \A y \in Ticks : d.level[s][y].total = b.level[s][y].total
  PROVE  LevelWorth(d, s) = LevelWorth(b, s)
<1>1. \A i \in 1 .. (Hi - Lo) : Value(d, s, Nth(i)) = Value(b, s, Nth(i))
  BY Places DEF Value
<1>2. LevelAddends(d, s) = LevelAddends(b, s)
  BY <1>1 DEF LevelAddends
<1> QED
  BY <1>2 DEF LevelWorth, LevelAddends, Value, Nth

LEMMA LevelsWhole ==
  ASSUME NEW b, GoodBook(b), NEW s \in Side
  PROVE  Whole(b, s)
<1>1. b.level \in [Side -> [Ticks -> Level]]
  BY GoodParts DEF Book
<1>2. \A t \in Ticks : b.level[s][t] \in Level
  BY <1>1
<1> QED
  BY <1>2 DEF Whole, Level

LEMMA InsertWorth ==
  ASSUME NEW b, GoodBook(b), NEW h \in Slots, NEW r \in Ref, NEW x \in Side,
         NEW q \in Int, NEW t \in Ticks, NEW s \in Side
  PROVE  LevelWorth(Insert(b, h, r, x, q, t), s)
           = LevelWorth(b, s) + (IF x = s THEN t * q ELSE 0)
<1> DEFINE d == Insert(b, h, r, x, q, t)
<1>1. /\ d.level[x][t].total = b.level[x][t].total + q
      /\ \A z \in Side, y \in Ticks : ~(z = x /\ y = t) => d.level[z][y] = b.level[z][y]
  BY GoodParts, InsertLevels
<1>2. Whole(b, s)
  BY LevelsWhole
<1> HIDE DEF d
<1>3. CASE x = s
  BY <1>1, <1>2, <1>3, LevelWorthBump DEF d
<1>4. CASE x # s
  <2>1. LevelWorth(d, s) = LevelWorth(b, s)
    BY <1>1, <1>4, LevelWorthSame
  <2>2. LevelWorth(b, s) \in Int
    BY <1>2, LevelWorthIs
  <2> QED
    BY <1>4, <2>1, <2>2 DEF d
<1> QED
  BY <1>3, <1>4

LEMMA ReduceWorth ==
  ASSUME NEW b, GoodBook(b), NEW h \in b.live, NEW q \in Int, 0 < q, q <= b.slot[h].qty
  PROVE  LET o == b.slot[h]
         IN  LevelWorth(Reduce(b, h, q), o.side) = LevelWorth(b, o.side) - o.px * q
<1> DEFINE d == Reduce(b, h, q)
           s == b.slot[h].side
           t == b.slot[h].px
<1>1. Typed(b) /\ b \in Book /\ s \in Side /\ t \in Ticks /\ t \in Int /\ b.slot[h].qty \in Int
  BY GoodParts, LiveOrder, TicksInt
<1>2. Whole(b, s) /\ b.level[s][t].total \in Int
  BY <1>1, LevelsWhole DEF Whole
<1>3. /\ d.level[s][t].total = b.level[s][t].total - q
      /\ \A y \in Ticks : y # t => d.level[s][y].total = b.level[s][y].total
  <2>1. CASE q = b.slot[h].qty
    <3>1. d = Drop(b, h)
      BY <2>1 DEF Reduce
    <3>2. /\ Drop(b, h).level[s][t].total = b.level[s][t].total - b.slot[h].qty
          /\ \A y \in Ticks : y # t => Drop(b, h).level[s][y] = b.level[s][y]
      BY <1>1, DropLevels
    <3> HIDE DEF d, s, t
    <3>3. d.level[s][t].total = b.level[s][t].total - q
      BY <2>1, <3>1, <3>2
    <3>4. \A y \in Ticks : y # t => d.level[s][y].total = b.level[s][y].total
      <4> SUFFICES ASSUME NEW y \in Ticks, y # t
                   PROVE  d.level[s][y].total = b.level[s][y].total
        OBVIOUS
      <4>1. d.level[s][y] = b.level[s][y]
        BY <3>1, <3>2
      <4> QED
        BY <4>1
    <3> QED
      BY <3>3, <3>4
  <2>2. CASE q # b.slot[h].qty
    <3>1. q < b.slot[h].qty
      BY <1>1, <2>2
    <3>2. d.level = Less(b, h, q).level
      <4>1. d = Shrink(b, h, q)
        BY <2>2 DEF Reduce
      <4>2. Shrink(b, h, q).level = Less(b, h, q).level
        BY <1>1, <3>1, ShrinkOrders
      <4> QED
        BY <4>1, <4>2
    <3>3. /\ b.level[s][t] \in Level
          /\ \A y \in Ticks : Less(b, h, q).level[s][y] =
               IF y = t THEN [b.level[s][t] EXCEPT !.total = @ - q] ELSE b.level[s][y]
      BY <1>1 DEF Less, WithLevel, Book
    <3> HIDE DEF d, s, t
    <3>4. d.level[s][t] = [b.level[s][t] EXCEPT !.total = @ - q]
      BY <1>1, <3>2, <3>3
    <3>5. d.level[s][t].total = b.level[s][t].total - q
      BY <3>3, <3>4 DEF Level
    <3>6. \A y \in Ticks : y # t => d.level[s][y].total = b.level[s][y].total
      BY <3>2, <3>3
    <3> QED
      BY <3>5, <3>6
  <2> QED
    BY <2>1, <2>2
<1> HIDE DEF d, s, t
<1>4. d.level[s][t].total = b.level[s][t].total + (-q) /\ -q \in Int
  BY <1>1, <1>2, <1>3
<1>5. LevelWorth(d, s) = LevelWorth(b, s) + t * (-q)
  BY <1>1, <1>2, <1>3, <1>4, LevelWorthBump
<1>6. LevelWorth(b, s) \in Int /\ t * (-q) = -(t * q) /\ t * q \in Int
  BY <1>1, <1>2, LevelWorthIs
<1> QED
  BY <1>5, <1>6 DEF d, s, t

----------------------------------------------------------------------------
(* What the reserves of the icebergs of a side are worth, and its          *)
(* non-displayed orders.                                                   *)

Reserve(e, s) == IF e.side = s THEN e.px * e.hidden ELSE 0
ReserveAddends(ib, s) == [i \in 1 .. Len(ib) |-> Reserve(ib[i], s)]

Holding(e, s) == IF e.side = s THEN e.px * e.qty ELSE 0
HiddenAddends(hd, s) == [i \in 1 .. Len(hd) |-> Holding(hd[i], s)]

LEMMA TimesInt == \A x, y \in Int : x * y \in Int
OBVIOUS

LEMMA ReserveInt ==
  ASSUME NEW e \in Iceberg, NEW s
  PROVE  Reserve(e, s) \in Int
<1>1. e.px \in Int /\ e.hidden \in Int
  BY TicksInt DEF Iceberg
<1> QED
  BY <1>1, TimesInt DEF Reserve

LEMMA HoldingInt ==
  ASSUME NEW e \in Hidden, NEW s
  PROVE  Holding(e, s) \in Int
<1>1. e.px \in Int /\ e.qty \in HeldQty
  BY DEF Hidden
<1> QED
  BY <1>1, TimesInt, HeldQtyInt DEF Holding

LEMMA ReserveWorthIs ==
  ASSUME NEW u \in Seq(Iceberg), NEW s
  PROVE  /\ Len(u) \in Nat /\ DOMAIN u = 1 .. Len(u)
         /\ ReserveAddends(u, s) \in [1 .. Len(u) -> Int]
         /\ \A i \in 1 .. Len(u) : ReserveAddends(u, s)[i] = Reserve(u[i], s)
         /\ ReserveWorth(u, s) = Total(ReserveAddends(u, s), Len(u)) /\ ReserveWorth(u, s) \in Int
<1>1. Len(u) \in Nat /\ DOMAIN u = 1 .. Len(u) /\ \A i \in 1 .. Len(u) : u[i] \in Iceberg
  OBVIOUS
<1>2. \A i \in 1 .. Len(u) : Reserve(u[i], s) \in Int
  BY <1>1, ReserveInt
<1>3. ReserveAddends(u, s) \in [1 .. Len(u) -> Int]
  BY <1>2 DEF ReserveAddends
<1>4. ReserveWorth(u, s) = Total(ReserveAddends(u, s), Len(u))
  BY DEF ReserveWorth, ReserveAddends, Reserve
<1>5. \A i \in 1 .. Len(u) : ReserveAddends(u, s)[i] = Reserve(u[i], s)
  BY DEF ReserveAddends
<1>6. ReserveWorth(u, s) \in Int
  BY <1>1, <1>3, <1>4, TotalInt
<1> QED
  BY <1>1, <1>3, <1>4, <1>5, <1>6

LEMMA ReserveWorthLess ==
  ASSUME NEW u \in Seq(Iceberg), NEW s, NEW v \in Seq(Iceberg), DOMAIN v = DOMAIN u,
         NEW i \in 1 .. Len(u), NEW x \in Int, Reserve(v[i], s) = Reserve(u[i], s) + x,
         \A j \in DOMAIN u : j # i => v[j] = u[j]
  PROVE  ReserveWorth(v, s) = ReserveWorth(u, s) + x
<1> DEFINE n == Len(u)
           f == ReserveAddends(u, s)
           e == ReserveAddends(v, s)
<1>1. /\ n \in Nat /\ DOMAIN u = 1 .. n /\ f \in [1 .. n -> Int] /\ ReserveWorth(u, s) = Total(f, n)
      /\ \A j \in 1 .. n : f[j] = Reserve(u[j], s)
  BY ReserveWorthIs
<1>2. Len(v) = n
  BY <1>1
<1>3. /\ e \in [1 .. n -> Int] /\ ReserveWorth(v, s) = Total(e, n)
      /\ \A j \in 1 .. n : e[j] = Reserve(v[j], s)
  <2> HIDE DEF n
  <2> QED
    BY <1>2, ReserveWorthIs
<1> HIDE DEF f, e
<1>4. Bumped(n, f, e, i, x)
  BY <1>1, <1>3 DEF Bumped
<1> HIDE DEF n
<1> QED
  BY <1>1, <1>3, <1>4, TotalBump

LEMMA ReserveWorthGone ==
  ASSUME NEW u \in Seq(Iceberg), NEW s, NEW v \in Seq(Iceberg), NEW i \in 1 .. Len(u),
         DOMAIN v = 1 .. (Len(u) - 1),
         \A j \in 1 .. (Len(u) - 1) : v[j] = u[IF j = i THEN Len(u) ELSE j]
  PROVE  ReserveWorth(v, s) = ReserveWorth(u, s) - Reserve(u[i], s)
<1> DEFINE n == Len(u)
           f == ReserveAddends(u, s)
           e == ReserveAddends(v, s)
<1>1. /\ n \in Nat /\ f \in [1 .. n -> Int] /\ ReserveWorth(u, s) = Total(f, n)
      /\ \A j \in 1 .. n : f[j] = Reserve(u[j], s)
  BY ReserveWorthIs
<1>2. Len(v) = n - 1 /\ n \in Nat \ {0}
  BY <1>1
<1>3. /\ e \in [1 .. n - 1 -> Int] /\ ReserveWorth(v, s) = Total(e, n - 1)
      /\ \A j \in 1 .. n - 1 : e[j] = Reserve(v[j], s)
  <2> HIDE DEF n
  <2> QED
    BY <1>2, ReserveWorthIs
<1> HIDE DEF f, e
<1>4. \A j \in 1 .. n - 1 : e[j] = IF j = i THEN f[n] ELSE f[j]
  <2> SUFFICES ASSUME NEW j \in 1 .. n - 1 PROVE e[j] = IF j = i THEN f[n] ELSE f[j]
    OBVIOUS
  <2>1. v[j] = u[IF j = i THEN n ELSE j] /\ j \in 1 .. n /\ n \in 1 .. n
    BY <1>1, <1>2
  <2>2. e[j] = Reserve(v[j], s) /\ f[j] = Reserve(u[j], s) /\ f[n] = Reserve(u[n], s)
    BY <1>1, <1>3, <2>1
  <2> HIDE DEF n
  <2> QED
    BY <2>1, <2>2
<1>5. f[i] = Reserve(u[i], s) /\ i \in 1 .. n
  BY <1>1
<1> HIDE DEF n
<1>6. Total(e, n - 1) = Total(f, n) - f[i]
  BY ONLY <1>1, <1>2, <1>3, <1>4, <1>5, TotalSwapRemove
<1> QED
  BY <1>1, <1>3, <1>5, <1>6

LEMMA HiddenWorthIs ==
  ASSUME NEW u \in Seq(Hidden), NEW s
  PROVE  /\ Len(u) \in Nat /\ DOMAIN u = 1 .. Len(u)
         /\ HiddenAddends(u, s) \in [1 .. Len(u) -> Int]
         /\ \A i \in 1 .. Len(u) : HiddenAddends(u, s)[i] = Holding(u[i], s)
         /\ HiddenWorth(u, s) = Total(HiddenAddends(u, s), Len(u)) /\ HiddenWorth(u, s) \in Int
<1>1. Len(u) \in Nat /\ DOMAIN u = 1 .. Len(u) /\ \A i \in 1 .. Len(u) : u[i] \in Hidden
  OBVIOUS
<1>2. \A i \in 1 .. Len(u) : Holding(u[i], s) \in Int
  BY <1>1, HoldingInt
<1>3. HiddenAddends(u, s) \in [1 .. Len(u) -> Int]
  BY <1>2 DEF HiddenAddends
<1>4. HiddenWorth(u, s) = Total(HiddenAddends(u, s), Len(u))
  BY DEF HiddenWorth, HiddenAddends, Holding
<1>5. \A i \in 1 .. Len(u) : HiddenAddends(u, s)[i] = Holding(u[i], s)
  BY DEF HiddenAddends
<1>6. HiddenWorth(u, s) \in Int
  BY <1>1, <1>3, <1>4, TotalInt
<1> QED
  BY <1>1, <1>3, <1>4, <1>5, <1>6

LEMMA HiddenWorthLess ==
  ASSUME NEW u \in Seq(Hidden), NEW s, NEW v \in Seq(Hidden), DOMAIN v = DOMAIN u,
         NEW i \in 1 .. Len(u), NEW x \in Int, Holding(v[i], s) = Holding(u[i], s) + x,
         \A j \in DOMAIN u : j # i => v[j] = u[j]
  PROVE  HiddenWorth(v, s) = HiddenWorth(u, s) + x
<1> DEFINE n == Len(u)
           f == HiddenAddends(u, s)
           e == HiddenAddends(v, s)
<1>1. /\ n \in Nat /\ DOMAIN u = 1 .. n /\ f \in [1 .. n -> Int] /\ HiddenWorth(u, s) = Total(f, n)
      /\ \A j \in 1 .. n : f[j] = Holding(u[j], s)
  BY HiddenWorthIs
<1>2. Len(v) = n
  BY <1>1
<1>3. /\ e \in [1 .. n -> Int] /\ HiddenWorth(v, s) = Total(e, n)
      /\ \A j \in 1 .. n : e[j] = Holding(v[j], s)
  <2> HIDE DEF n
  <2> QED
    BY <1>2, HiddenWorthIs
<1> HIDE DEF f, e
<1>4. Bumped(n, f, e, i, x)
  BY <1>1, <1>3 DEF Bumped
<1> HIDE DEF n
<1> QED
  BY <1>1, <1>3, <1>4, TotalBump

LEMMA HiddenWorthGone ==
  ASSUME NEW u \in Seq(Hidden), NEW s, NEW v \in Seq(Hidden), NEW i \in 1 .. Len(u),
         DOMAIN v = 1 .. (Len(u) - 1),
         \A j \in 1 .. (Len(u) - 1) : v[j] = u[IF j < i THEN j ELSE j + 1]
  PROVE  HiddenWorth(v, s) = HiddenWorth(u, s) - Holding(u[i], s)
<1> DEFINE n == Len(u)
           f == HiddenAddends(u, s)
           e == HiddenAddends(v, s)
<1>1. /\ n \in Nat /\ f \in [1 .. n -> Int] /\ HiddenWorth(u, s) = Total(f, n)
      /\ \A j \in 1 .. n : f[j] = Holding(u[j], s)
  BY HiddenWorthIs
<1>2. Len(v) = n - 1 /\ n \in Nat \ {0}
  BY <1>1
<1>3. /\ e \in [1 .. n - 1 -> Int] /\ HiddenWorth(v, s) = Total(e, n - 1)
      /\ \A j \in 1 .. n - 1 : e[j] = Holding(v[j], s)
  <2> HIDE DEF n
  <2> QED
    BY <1>2, HiddenWorthIs
<1> HIDE DEF f, e
<1>4. \A j \in 1 .. n - 1 : e[j] = IF j < i THEN f[j] ELSE f[j + 1]
  <2> SUFFICES ASSUME NEW j \in 1 .. n - 1 PROVE e[j] = IF j < i THEN f[j] ELSE f[j + 1]
    OBVIOUS
  <2>1. v[j] = u[IF j < i THEN j ELSE j + 1] /\ j \in 1 .. n /\ j + 1 \in 1 .. n
    BY <1>1, <1>2
  <2>2. e[j] = Holding(v[j], s) /\ f[j] = Holding(u[j], s) /\ f[j + 1] = Holding(u[j + 1], s)
    BY <1>1, <1>3, <2>1
  <2> HIDE DEF n
  <2> QED
    BY <2>1, <2>2
<1>5. f[i] = Holding(u[i], s) /\ i \in 1 .. n
  BY <1>1
<1> HIDE DEF n
<1>6. Total(e, n - 1) = Total(f, n) - f[i]
  BY ONLY <1>1, <1>2, <1>3, <1>4, <1>5, TotalRemove
<1> QED
  BY <1>1, <1>3, <1>5, <1>6

LEMMA HiddenWorthAppend ==
  ASSUME NEW u \in Seq(Hidden), NEW s, NEW x \in Hidden
  PROVE  HiddenWorth(Append(u, x), s) = HiddenWorth(u, s) + Holding(x, s)
<1> DEFINE n == Len(u)
           v == Append(u, x)
           f == HiddenAddends(u, s)
           e == HiddenAddends(v, s)
<1>1. /\ n \in Nat /\ f \in [1 .. n -> Int] /\ HiddenWorth(u, s) = Total(f, n)
      /\ \A j \in 1 .. n : f[j] = Holding(u[j], s)
  BY HiddenWorthIs
<1>2. /\ v \in Seq(Hidden) /\ Len(v) = n + 1 /\ v[n + 1] = x
      /\ \A j \in 1 .. n : v[j] = u[j]
  OBVIOUS
<1> HIDE DEF v
<1>3. /\ e \in [1 .. n + 1 -> Int] /\ HiddenWorth(v, s) = Total(e, n + 1)
      /\ \A j \in 1 .. n + 1 : e[j] = Holding(v[j], s)
  <2> HIDE DEF n
  <2> QED
    BY <1>2, HiddenWorthIs
<1> HIDE DEF f, e
<1>4. \A j \in 1 .. n : e[j] = f[j]
  BY <1>1, <1>2, <1>3
<1>5. e[n + 1] = Holding(x, s)
  BY <1>1, <1>2, <1>3
<1> HIDE DEF n
<1>6. Total(e, n + 1) = Total(f, n) + e[n + 1]
  BY ONLY <1>1, <1>3, <1>4, TotalAppend
<1> QED
  BY <1>1, <1>3, <1>5, <1>6 DEF v

----------------------------------------------------------------------------
(* What a side displays or keeps in reserve, and what trading takes of it. *)

Shown(w, s) == LevelWorth(w.book, s) + ReserveWorth(w.icebergs, s)

LEMMA WorthIs ==
  ASSUME NEW w, NEW s
  PROVE  Worth(w, s) = Shown(w, s) + HiddenWorth(w.hidden, s)
BY DEF Worth, Shown

LEMMA ShownInt ==
  ASSUME NEW w, w \in Sim, GoodBook(w.book), NEW s \in Side
  PROVE  /\ LevelWorth(w.book, s) \in Int /\ ReserveWorth(w.icebergs, s) \in Int
         /\ HiddenWorth(w.hidden, s) \in Int /\ Shown(w, s) \in Int
<1>1. w.icebergs \in Seq(Iceberg) /\ w.hidden \in Seq(Hidden)
  BY SimFields
<1>2. LevelWorth(w.book, s) \in Int
  BY LevelsWhole, LevelWorthIs
<1>3. ReserveWorth(w.icebergs, s) \in Int /\ HiddenWorth(w.hidden, s) \in Int
  BY <1>1, ReserveWorthIs, HiddenWorthIs
<1> QED
  BY <1>2, <1>3 DEF Shown

LEMMA TimesLess ==
  \A x, y, z \in Int : x * (y - z) = x * y - x * z /\ x * y \in Int /\ x * y = y * x
OBVIOUS

(* A new slice carries its worth from the reserve to the level.            *)
LEMMA ReplenishShown ==
  ASSUME NEW w, NEW r \in Ref, Sane(w, r), NEW h \in Slots,
         w.book.id[r] = NullIndex => h \notin w.book.live, NEW s \in Side
  PROVE  Shown(Replenish(w, r, h), s) = Shown(w, s)
<1> DEFINE i == IcebergOf(w, r)
           L == Len(w.icebergs)
           e == w.icebergs[i]
           slice == IF e.display < e.hidden THEN e.display ELSE e.hidden
           moved == Front([w.icebergs EXCEPT ![i] = Last(w.icebergs)])
           cut == [e EXCEPT !.hidden = @ - slice]
           less == [w.icebergs EXCEPT ![i] = cut]
           ib == IF e.hidden = slice THEN moved ELSE less
           b == Insert(w.book, h, r, e.side, slice, e.px)
           v == [w EXCEPT !.book = b, !.icebergs = ib]
<1>1. w \in Sim /\ GoodBook(w.book)
  BY DEF Sane
<1>2. /\ DOMAIN w.icebergs = 1 .. L /\ L \in Nat
      /\ \A j \in 1 .. L : w.icebergs[j] \in Iceberg
      /\ w.icebergs \in Seq(Iceberg)
  BY <1>1, SimFields
<1>3. Find(w.book, r) = w.book.id[r]
  BY <1>1, Resolves
<1>4. CASE i = 0 \/ w.book.id[r] # NullIndex
  BY <1>3, <1>4 DEF Replenish
<1>5. CASE i # 0 /\ w.book.id[r] = NullIndex
  <2>1. i \in 1 .. L /\ e.ref = r
    BY <1>1, <1>2, <1>5, IcebergFound
  <2> HIDE DEF i, L
  <2>2. e \in Iceberg
    BY <1>2, <2>1
  <2>3. /\ e.display \in Nat /\ e.display > 0 /\ e.hidden \in Nat
        /\ e.side \in Side /\ e.px \in Ticks
    BY <2>2 DEF Iceberg
  <2>4. CASE e.hidden = 0
    BY <1>3, <1>5, <2>4 DEF Replenish, i
  <2>5. CASE e.hidden # 0
    <3>1. Replenish(w, r, h) = v
      BY <1>3, <1>5, <2>1, <2>5 DEF Replenish, i
    <3>2. slice \in Nat /\ slice > 0 /\ slice <= e.hidden
      BY <2>3, <2>5
    <3> HIDE DEF slice
    <3> DEFINE x == IF e.side = s THEN e.px * slice ELSE 0
    <3>3. LevelWorth(b, s) = LevelWorth(w.book, s) + x
      <4>1. slice \in Int
        BY <3>2
      <4> HIDE DEF e
      <4> QED
        BY <1>1, <2>3, <4>1, InsertWorth
    <3>4. x \in Int /\ Reserve(e, s) - x = Reserve(cut, s) /\ (e.hidden = slice => Reserve(e, s) = x)
          /\ cut \in Iceberg
      <4>1. cut \in Iceberg /\ cut.side = e.side /\ cut.px = e.px /\ cut.hidden = e.hidden - slice
        BY <2>1, <2>2, <2>3, <3>2 DEF Iceberg
      <4>2. e.px \in Int /\ e.hidden \in Int /\ slice \in Int
        BY <2>3, <3>2, TicksInt
      <4>3. e.px * (e.hidden - slice) = e.px * e.hidden - e.px * slice /\ e.px * slice \in Int
        BY <4>2, TimesLess
      <4> HIDE DEF cut, e
      <4> QED
        BY <4>1, <4>3 DEF Reserve
    <3>5. ReserveWorth(ib, s) = ReserveWorth(w.icebergs, s) - x
      <4>1. CASE e.hidden = slice
        <5>1. /\ moved \in Seq(Iceberg) /\ DOMAIN moved = 1 .. (L - 1)
              /\ \A j \in 1 .. (L - 1) : moved[j] = w.icebergs[IF j = i THEN L ELSE j]
          BY <1>2, <2>1, SwapRemove DEF L
        <5> HIDE DEF moved
        <5>2. ReserveWorth(moved, s) = ReserveWorth(w.icebergs, s) - Reserve(w.icebergs[i], s)
          BY <1>2, <2>1, <5>1, ReserveWorthGone DEF L
        <5> QED
          BY <3>4, <4>1, <5>2
      <4>2. CASE e.hidden # slice
        <5>1. /\ less \in Seq(Iceberg) /\ DOMAIN less = DOMAIN w.icebergs
              /\ less[i] = cut /\ \A j \in DOMAIN w.icebergs : j # i => less[j] = w.icebergs[j]
          BY <1>2, <2>1, <3>4 DEF L
        <5> DEFINE y == -x
        <5>2. y \in Int /\ Reserve(cut, s) = Reserve(w.icebergs[i], s) + y
          <6>1. Reserve(e, s) \in Int
            BY <2>2, ReserveInt
          <6> HIDE DEF x, cut
          <6> QED
            BY <3>4, <6>1
        <5> HIDE DEF y, less, cut
        <5>3. ReserveWorth(less, s) = ReserveWorth(w.icebergs, s) + y
          BY <1>2, <2>1, <5>1, <5>2, ReserveWorthLess DEF L
        <5>4. ReserveWorth(w.icebergs, s) \in Int
          BY <1>2, ReserveWorthIs
        <5> HIDE DEF x
        <5>5. ReserveWorth(less, s) = ReserveWorth(w.icebergs, s) - x
          BY <3>4, <5>3, <5>4 DEF y
        <5> QED
          BY <4>2, <5>5
      <4> QED
        BY <4>1, <4>2
    <3> HIDE DEF x, b, ib
    <3>6. v.book = b /\ v.icebergs = ib
      BY <1>1 DEF Sim
    <3> HIDE DEF v
    <3>7. LevelWorth(w.book, s) \in Int /\ ReserveWorth(w.icebergs, s) \in Int
      BY <1>1, ShownInt
    <3> QED
      BY <3>1, <3>3, <3>4, <3>5, <3>6, <3>7 DEF Shown
  <2> QED
    BY <2>4, <2>5
<1> QED
  BY <1>4, <1>5

(* A fill of k units at its price takes k times that price.                *)
LEMMA RefilledShown ==
  ASSUME NEW w, Sane(w, ZeroRef), NEW h \in w.book.live, NEW k \in Int,
         0 < k, k <= w.book.slot[h].qty
  PROVE  LET o == w.book.slot[h]
         IN  Shown(Refilled(w, h, k), o.side) = Shown(w, o.side) - o.px * k
<1> DEFINE o == w.book.slot[h]
           r == o.ref
           v == Take(w, h, k)
           s == o.side
           x == o.px * k
<1>1. w \in Sim /\ GoodBook(w.book) /\ Typed(w.book) /\ h \in Slots
  BY GoodParts DEF Sane
<1>2. s \in Side /\ o.px \in Ticks
  BY <1>1, GoodParts, LiveOrder
<1>3. /\ Sane(v, r) /\ r \in Ref /\ v.book = Reduce(w.book, h, k) /\ v.icebergs = w.icebergs
      /\ v.book.id[r] = NullIndex => h \notin v.book.live
  BY TakeSane
<1>4. LevelWorth(v.book, s) = LevelWorth(w.book, s) - x
  BY <1>1, <1>3, ReduceWorth
<1>5. LevelWorth(w.book, s) \in Int /\ ReserveWorth(w.icebergs, s) \in Int /\ x \in Int
  <2>1. o.px \in Int
    BY <1>2, TicksInt
  <2>2. x \in Int
    BY <2>1, TimesLess
  <2> QED
    BY <1>1, <1>2, <2>2, ShownInt
<1> HIDE DEF v, x, s, r
<1>6. Shown(Replenish(v, r, h), s) = Shown(v, s)
  BY <1>1, <1>2, <1>3, ReplenishShown
<1>7. Shown(v, s) = Shown(w, s) - x
  BY <1>3, <1>4, <1>5 DEF Shown
<1>8. Refilled(w, h, k) = Replenish(v, r, h)
  BY DEF Refilled, v, r
<1> QED
  BY <1>6, <1>7, <1>8 DEF s, x

(* An order that self-trade prevention removes takes what it was worth.    *)
LEMMA ExpungedShown ==
  ASSUME NEW w, Sane(w, ZeroRef), NEW h \in w.book.live, w.tracked[h].live
  PROVE  LET o == w.book.slot[h]
         IN  /\ Shown(Expunged(w, h), o.side) = Shown(w, o.side) - o.px * o.qty
             /\ Expunged(w, h).hidden = w.hidden
<1> DEFINE o == w.book.slot[h]
           v == Expunged(w, h)
           s == o.side
           x == o.px * o.qty
<1>1. w \in Sim /\ GoodBook(w.book) /\ Typed(w.book) /\ h \in Slots
  BY GoodParts DEF Sane
<1>2. s \in Side /\ o.px \in Ticks /\ o.qty \in Int /\ 0 < o.qty /\ o.qty <= o.qty
  BY <1>1, GoodParts, LiveOrder
<1>3. v.book = Drop(w.book, h) /\ v.hidden = w.hidden /\ v.icebergs = w.icebergs
  <2>1. v.book = Drop(w.book, h) /\ v.hidden = w.hidden
    BY <1>1, ExpungeParts
  <2>2. v.icebergs = w.icebergs
    BY <1>1 DEF Expunged, Untrack, Sim
  <2> QED
    BY <2>1, <2>2
<1>4. LevelWorth(v.book, s) = LevelWorth(w.book, s) - x
  <2>1. Reduce(w.book, h, o.qty) = Drop(w.book, h)
    BY DEF Reduce
  <2>2. LevelWorth(Reduce(w.book, h, o.qty), s) = LevelWorth(w.book, s) - x
    BY <1>1, <1>2, ReduceWorth
  <2> QED
    BY <1>3, <2>1, <2>2
<1>5. LevelWorth(w.book, s) \in Int /\ ReserveWorth(w.icebergs, s) \in Int /\ x \in Int
  <2>1. o.px \in Int
    BY <1>2, TicksInt
  <2>2. x \in Int
    BY <1>2, <2>1, TimesLess
  <2> QED
    BY <1>1, <1>2, <2>2, ShownInt
<1> HIDE DEF v, x, s
<1>6. Shown(v, s) = Shown(w, s) - x
  BY <1>3, <1>4, <1>5 DEF Shown
<1> QED
  BY <1>3, <1>6 DEF s, x, v

LEMMA KinShown ==
  ASSUME NEW w, NEW v, Kin(w, v), NEW s
  PROVE  Shown(v, s) = Shown(w, s)
BY DEF Kin, Shown

(* What non-displayed orders give up at t leaves the ledger.               *)
Tapping(p, s, t) == HiddenWorth(p.w.hidden, s) + t * p.taken

LEMMA TapTurnWorth ==
  ASSUME NEW p \in [w : Sim, at : Nat \ {0}, rem : Nat, taken : HeldQty], NEW s, NEW t \in Int
  PROVE  Tapping(TapTurn(p, s, t), s, t) = Tapping(p, s, t)
<1> DEFINE w == p.w
           e == w.hidden[p.at]
           k == IF p.rem < e.qty THEN p.rem ELSE e.qty
           cut == [e EXCEPT !.qty = @ - k]
           gone == RemoveAt(w.hidden, p.at)
           less == [w.hidden EXCEPT ![p.at] = cut]
           v1 == [w EXCEPT !.hidden = gone]
           v2 == [w EXCEPT !.hidden = less]
           p0 == [p EXCEPT !.at = @ + 1]
           p1 == [p EXCEPT !.w = v1, !.rem = @ - k, !.taken = @ + k]
           p2 == [p EXCEPT !.w = v2, !.at = @ + 1, !.rem = @ - k, !.taken = @ + k]
<1>1. /\ w \in Sim /\ p.at \in Nat \ {0} /\ p.rem \in Nat /\ p.taken \in Int
      /\ w.hidden \in Seq(Hidden)
  <2>1. w \in Sim /\ p.at \in Nat \ {0} /\ p.rem \in Nat /\ p.taken \in HeldQty
    OBVIOUS
  <2> QED
    BY <2>1, HeldQtyInt, SimFields
<1>2. CASE p.rem = 0 \/ p.at > Len(w.hidden)
  BY <1>2 DEF TapTurn
<1>3. CASE p.rem # 0 /\ ~(p.at > Len(w.hidden)) /\ (e.side # s \/ e.px # t)
  <2>1. TapTurn(p, s, t) = p0
    BY <1>3 DEF TapTurn
  <2>2. p0.w = p.w /\ p0.taken = p.taken
    OBVIOUS
  <2> QED
    BY <2>1, <2>2 DEF Tapping
<1>4. CASE p.rem # 0 /\ ~(p.at > Len(w.hidden)) /\ e.side = s /\ e.px = t
  <2>1. p.at \in 1 .. Len(w.hidden) /\ DOMAIN w.hidden = 1 .. Len(w.hidden) /\ e \in Hidden
    BY <1>1, <1>4
  <2>2. e.qty \in HeldQty /\ e.qty \in Int
    <3>1. e.qty \in HeldQty
      BY <2>1 DEF Hidden
    <3> QED
      BY <3>1, HeldQtyInt
  <2>3. k \in Int
    BY <1>1, <2>2
  <2>4. Holding(e, s) = t * e.qty /\ HiddenWorth(w.hidden, s) \in Int
    BY <1>1, <1>4, HiddenWorthIs DEF Holding
  <2>5. /\ t * (p.taken + k) = t * p.taken + t * k /\ t * k \in Int /\ t * p.taken \in Int
        /\ t * (e.qty - k) = t * e.qty - t * k /\ t * e.qty \in Int
    <3>1. \A x, y, z \in Int : x * (y + z) = x * y + x * z
      OBVIOUS
    <3> HIDE DEF e, k
    <3> QED
      BY <1>1, <2>2, <2>3, <3>1, TimesLess
  <2>6. CASE k = e.qty
    <3>1. TapTurn(p, s, t) = p1
      BY <1>4, <2>6 DEF TapTurn, WithHidden
    <3>2. /\ gone \in Seq(Hidden) /\ DOMAIN gone = 1 .. (Len(w.hidden) - 1)
          /\ \A j \in 1 .. (Len(w.hidden) - 1) :
               gone[j] = w.hidden[IF j < p.at THEN j ELSE j + 1]
      BY <1>1, <2>1, RemoveAtTyped
    <3> HIDE DEF gone, k
    <3>3. HiddenWorth(gone, s) = HiddenWorth(w.hidden, s) - Holding(w.hidden[p.at], s)
      BY <1>1, <2>1, <3>2, HiddenWorthGone
    <3>4. v1.hidden = gone
      BY <1>1 DEF Sim
    <3>5. p1.w = v1 /\ p1.taken = p.taken + k
      <4> HIDE DEF v1
      <4> QED
        OBVIOUS
    <3> HIDE DEF v1, p1
    <3>6. HiddenWorth(gone, s) = HiddenWorth(w.hidden, s) - t * k
      BY <2>4, <2>6, <3>3
    <3> HIDE DEF e
    <3> QED
      BY <2>4, <2>5, <3>1, <3>4, <3>5, <3>6 DEF Tapping
  <2>7. CASE k # e.qty
    <3>1. TapTurn(p, s, t) = p2
      BY <1>4, <2>7 DEF TapTurn, WithHidden
    <3>2. e.qty - k \in HeldQty
      BY <1>1, <2>2, <2>7 DEF HeldQty
    <3>3. cut \in Hidden /\ cut.side = e.side /\ cut.px = e.px /\ cut.qty = e.qty - k
      <4>1. cut = [e EXCEPT !.qty = e.qty - k]
        OBVIOUS
      <4> HIDE DEF k, cut, e
      <4> QED
        BY <2>1, <3>2, <4>1, HiddenUpdate
    <3> HIDE DEF k, cut
    <3>4. /\ less \in Seq(Hidden) /\ DOMAIN less = DOMAIN w.hidden
          /\ less[p.at] = cut /\ \A j \in DOMAIN w.hidden : j # p.at => less[j] = w.hidden[j]
      BY <1>1, <2>1, <3>3
    <3> DEFINE x == -(t * k)
    <3>5. x \in Int /\ Holding(cut, s) = Holding(e, s) + x
      <4>1. Holding(cut, s) = t * (e.qty - k)
        BY <1>4, <3>3 DEF Holding
      <4> HIDE DEF cut, e
      <4> QED
        BY <2>4, <2>5, <4>1
    <3> HIDE DEF less, x
    <3>6. HiddenWorth(less, s) = HiddenWorth(w.hidden, s) + x
      <4> DEFINE u == w.hidden
                 i == p.at
      <4>1. u \in Seq(Hidden) /\ DOMAIN u = 1 .. Len(u) /\ i \in 1 .. Len(u)
        BY <1>1, <2>1
      <4>2. /\ less \in Seq(Hidden) /\ DOMAIN less = DOMAIN u /\ less[i] = cut
            /\ \A j \in DOMAIN u : j # i => less[j] = u[j]
        BY <3>4
      <4>3. Holding(less[i], s) = Holding(u[i], s) + x
        BY <3>5, <4>2
      <4> HIDE DEF u, i, e
      <4>4. HiddenWorth(less, s) = HiddenWorth(u, s) + x
        BY <3>5, <4>1, <4>2, <4>3, HiddenWorthLess
      <4> QED
        BY <4>4 DEF u
    <3>7. v2.hidden = less
      BY <1>1 DEF Sim
    <3>8. p2.w = v2 /\ p2.taken = p.taken + k
      <4> HIDE DEF v2
      <4> QED
        OBVIOUS
    <3> HIDE DEF v2, p2, e
    <3>9. HiddenWorth(less, s) = HiddenWorth(w.hidden, s) - t * k
      BY <2>4, <2>5, <3>6 DEF x
    <3> QED
      BY <2>4, <2>5, <3>1, <3>7, <3>8, <3>9 DEF Tapping
  <2> QED
    BY <2>6, <2>7
<1> QED
  BY <1>2, <1>3, <1>4

LEMMA TapWorth ==
  ASSUME NEW w \in Sim, NEW s, NEW t \in Int, NEW q \in Nat
  PROVE  LET p == Tap(w, s, t, q)
         IN  HiddenWorth(p.w.hidden, s) = HiddenWorth(w.hidden, s) - t * p.taken
<1> DEFINE N == Len(w.hidden)
<1>1. PICK f : TapRun(w, s, t, q, f)
  BY TapRuns
<1>2. N \in Nat
  BY SimFields
<1> DEFINE K == {n \in 0 .. N : Tapping(f[n], s, t) = HiddenWorth(w.hidden, s)}
<1>3. 0 \in K
  <2>1. f[0].w = w /\ f[0].taken = 0
    BY <1>1 DEF TapRun
  <2>2. HiddenWorth(w.hidden, s) \in Int /\ t * 0 = 0
    BY SimFields, HiddenWorthIs
  <2> QED
    BY <1>2, <2>1, <2>2 DEF Tapping
<1>4. ASSUME NEW n \in 1 .. N, n - 1 \in K PROVE n \in K
  <2> DEFINE p == f[n - 1]
  <2>1. f[n] = TapTurn(p, s, t) /\ p \in Tappings(w, s, t, q)
    BY <1>1, <1>2 DEF TapRun
  <2>2. Tapping(p, s, t) = HiddenWorth(w.hidden, s)
    BY <1>4
  <2>3. p \in [w : Sim, at : Nat \ {0}, rem : Nat, taken : HeldQty]
    BY <2>1 DEF Tappings
  <2> HIDE DEF p
  <2>4. Tapping(f[n], s, t) = Tapping(p, s, t)
    BY <2>1, <2>3, TapTurnWorth
  <2> QED
    BY <1>2, <2>2, <2>4
<1> HIDE DEF K
<1>5. N \in K
  BY <1>2, <1>3, <1>4, TurnsPass
<1>6. Tap(w, s, t, q) = [w |-> f[N].w, taken |-> f[N].taken] /\ f[N] \in Tappings(w, s, t, q)
  BY <1>1, <1>2 DEF TapRun
<1> HIDE DEF N
<1>7. f[N].w.hidden \in Seq(Hidden) /\ f[N].taken \in Int
  <2>1. f[N].w \in Sim /\ f[N].taken \in HeldQty
    BY <1>6 DEF Tappings
  <2> QED
    BY <2>1, SimFields, HeldQtyInt
<1>8. HiddenWorth(f[N].w.hidden, s) \in Int /\ t * f[N].taken \in Int
  BY <1>7, HiddenWorthIs, TimesLess
<1>9. HiddenWorth(f[N].w.hidden, s) + t * f[N].taken = HiddenWorth(w.hidden, s)
  BY <1>5 DEF K, Tapping
<1> DEFINE x == HiddenWorth(f[N].w.hidden, s)
           y == t * f[N].taken
<1>10. x = HiddenWorth(w.hidden, s) - y
  <2>1. x \in Int /\ y \in Int /\ x + y = HiddenWorth(w.hidden, s)
    BY <1>8, <1>9
  <2> HIDE DEF x, y
  <2> QED
    BY <2>1
<1> QED
  BY <1>6, <1>10

----------------------------------------------------------------------------
(* A sweep balances: what its side loses is what it pays or removes, and   *)
(* what it fills is what it no longer wants.                               *)

Balance(c, s) == Worth(c.w, s) + c.notional + c.expunged
Asked(c) == c.filled + c.rem
Balances(c, d, s) == Balance(d, s) = Balance(c, s) /\ Asked(d) = Asked(c)

LEMMA BalancesTrans ==
  ASSUME NEW c, NEW d, NEW e, NEW s, Balances(c, d, s), Balances(d, e, s)
  PROVE  Balances(c, e, s)
BY DEF Balances

(* d has the accounts of c.                                                *)
SameAccounts(c, d) ==
  d.rem = c.rem /\ d.filled = c.filled /\ d.notional = c.notional /\ d.expunged = c.expunged

LEMMA SameBalances ==
  ASSUME NEW c, NEW d, SameAccounts(c, d), NEW s, Worth(d.w, s) = Worth(c.w, s)
  PROVE  Balances(c, d, s)
BY DEF SameAccounts, Balances, Balance, Asked

LEMMA PaidAccounts ==
  ASSUME NEW c \in SweepState, NEW v, NEW t, NEW q
  PROVE  LET d == Paid(c, v, t, q)
         IN  /\ d.w = v /\ d.rem = c.rem - q /\ d.filled = c.filled + q
             /\ d.notional = c.notional + q * t /\ d.expunged = c.expunged
<1> DEFINE n == c.rem - q
           f == c.filled + q
           m == c.notional + q * t
           d == [c EXCEPT !.w = v, !.rem = n, !.filled = f, !.notional = m, !.worst = t]
<1>1. Paid(c, v, t, q) = d
  BY DEF Paid
<1> HIDE DEF n, f, m
<1>2. d.w = v /\ d.rem = n /\ d.filled = f /\ d.notional = m /\ d.expunged = c.expunged
  BY DEF SweepState
<1> HIDE DEF d
<1> QED
  BY <1>1, <1>2 DEF n, f, m

LEMMA PaidBalances ==
  ASSUME NEW c \in SweepState, NEW v, NEW t \in Int, NEW q \in Int, NEW s,
         Worth(c.w, s) \in Int, Worth(v, s) = Worth(c.w, s) - t * q
  PROVE  Balances(c, Paid(c, v, t, q), s)
<1> DEFINE d == Paid(c, v, t, q)
           x == t * q
<1>1. c.rem \in Int /\ c.filled \in Int /\ c.notional \in Int /\ c.expunged \in Int
  BY SweepFields
<1>2. x \in Int /\ q * t = x
  BY TimesLess
<1>3. /\ d.w = v /\ d.rem = c.rem - q /\ d.filled = c.filled + q
      /\ d.notional = c.notional + x /\ d.expunged = c.expunged
  BY <1>2, PaidAccounts
<1> HIDE DEF d, x
<1>4. Worth(v, s) = Worth(c.w, s) - x
  BY DEF x
<1>5. Asked(d) = Asked(c)
  BY <1>1, <1>3 DEF Asked
<1>6. Balance(d, s) = Balance(c, s)
  BY <1>1, <1>2, <1>3, <1>4 DEF Balance
<1> QED
  BY <1>5, <1>6 DEF Balances, d

LEMMA ExpungeBalances ==
  ASSUME NEW c \in SweepState, NEW v, NEW x \in Int, NEW s,
         Worth(c.w, s) \in Int, Worth(v, s) = Worth(c.w, s) - x
  PROVE  Balances(c, ExpungedState(c, v, c.expunged + x), s)
<1> DEFINE m == c.expunged + x
           d == ExpungedState(c, v, m)
<1>1. c.notional \in Int /\ c.expunged \in Int
  BY SweepFields
<1> HIDE DEF m
<1>2. /\ d.w = v /\ d.rem = c.rem /\ d.filled = c.filled
      /\ d.notional = c.notional /\ d.expunged = m
  BY DEF SweepState, ExpungedState
<1> HIDE DEF d
<1>3. Balance(d, s) = Balance(c, s)
  BY <1>1, <1>2 DEF Balance, m
<1> QED
  BY <1>2, <1>3 DEF Balances, Asked, d, m

LEMMA SaneWorth ==
  ASSUME NEW w, NEW r, Sane(w, r), NEW s \in Side
  PROVE  /\ Worth(w, s) \in Int /\ Shown(w, s) \in Int /\ HiddenWorth(w.hidden, s) \in Int
         /\ Worth(w, s) = Shown(w, s) + HiddenWorth(w.hidden, s)
<1>1. w \in Sim /\ GoodBook(w.book)
  BY DEF Sane
<1>2. Shown(w, s) \in Int /\ HiddenWorth(w.hidden, s) \in Int
  BY <1>1, ShownInt
<1> QED
  BY <1>2, WorthIs

LEMMA MovedWorth ==
  ASSUME NEW w, NEW v, Moved(w, v), NEW s
  PROVE  Worth(v, s) = Worth(w, s)
BY KinShown, WorthIs DEF Moved

LEMMA NoteAccounts ==
  ASSUME NEW c \in SweepState, NEW s, NEW t, NEW q
  PROVE  SameAccounts(c, Note(c, s, t, q))
<1> DEFINE i == SelectInSeq(c.notes, LAMBDA n : n.px = t)
           flushed == IF c.over \in {NoNote, [c.over EXCEPT !.px = t]} THEN c.w
                      ELSE Subtract(c.w, s, c.over.px, c.over.qty, TRUE)
           ns1 == [c.notes EXCEPT ![i].qty = @ + q]
           ns2 == Append(c.notes, [px |-> t, qty |-> q])
           o == [px |-> t, qty |-> c.over.qty + q]
           d1 == [c EXCEPT !.notes = ns1]
           d2 == [c EXCEPT !.notes = ns2]
           d3 == [c EXCEPT !.w = flushed, !.over = o]
<1>1. Note(c, s, t, q) = IF i # 0 THEN d1 ELSE IF Len(c.notes) < TouchCap THEN d2 ELSE d3
  BY DEF Note
<1> HIDE DEF i, flushed, ns1, ns2, o
<1>2. SameAccounts(c, d1) /\ SameAccounts(c, d2) /\ SameAccounts(c, d3)
  BY DEF SweepState, SameAccounts
<1> HIDE DEF d1, d2, d3
<1> QED
  BY <1>1, <1>2

LEMMA NoteBalances ==
  ASSUME NEW c \in SweepState, Sane(c.w, ZeroRef), NEW s, NEW t \in Int, NEW q \in Int
  PROVE  Balances(c, Note(c, s, t, q), s)
<1> DEFINE d == Note(c, s, t, q)
<1>1. Kin(c.w, d.w) /\ d.w.hidden = c.w.hidden
  BY NoteTrades
<1>2. SameAccounts(c, d)
  BY NoteAccounts
<1> HIDE DEF d
<1>3. Worth(d.w, s) = Worth(c.w, s)
  BY <1>1, MovedWorth DEF Moved
<1>4. Balances(c, d, s)
  BY <1>2, <1>3, SameBalances
<1> QED
  BY <1>4 DEF d

LEMMA TapTakesWorth ==
  ASSUME NEW w, Sane(w, ZeroRef), NEW s \in Side, NEW t \in Int, NEW q \in Nat
  PROVE  LET p == Tap(w, s, t, q)
         IN  Worth(p.w, s) = Worth(w, s) - t * p.taken /\ p.taken \in Int
<1> DEFINE p == Tap(w, s, t, q)
           x == t * p.taken
<1>1. w \in Sim
  BY DEF Sane
<1>2. Kin(w, p.w) /\ p.taken \in HeldQty
  BY <1>1, TapKin
<1>3. p.taken \in Int
  BY <1>2, HeldQtyInt
<1>4. HiddenWorth(p.w.hidden, s) = HiddenWorth(w.hidden, s) - x
  BY <1>1, TapWorth
<1>5. x \in Int
  BY <1>3, TimesLess
<1> HIDE DEF p, x
<1>6. Shown(p.w, s) = Shown(w, s)
  BY <1>2, KinShown
<1>7. /\ Worth(w, s) = Shown(w, s) + HiddenWorth(w.hidden, s)
      /\ Worth(p.w, s) = Shown(p.w, s) + HiddenWorth(p.w.hidden, s)
      /\ Shown(w, s) \in Int /\ HiddenWorth(w.hidden, s) \in Int
  BY SaneWorth, WorthIs
<1>8. Worth(p.w, s) = Worth(w, s) - x
  BY <1>4, <1>5, <1>6, <1>7
<1> QED
  BY <1>3, <1>8 DEF p, x

LEMMA TappedBalances ==
  ASSUME NEW c \in SweepState, Sane(c.w, ZeroRef), NEW s \in Side, NEW t \in Int
  PROVE  Balances(c, Tapped(c, s, t), s)
<1> DEFINE p == Tap(c.w, s, t, c.rem)
           d1 == [c EXCEPT !.w = c.w]
           d2 == [c EXCEPT !.w = p.w]
           d3 == Paid(c, p.w, t, p.taken)
<1>1. c.w \in Sim /\ c.rem \in Nat
  BY SweepFields
<1>2. Worth(p.w, s) = Worth(c.w, s) - t * p.taken /\ p.taken \in Int
  BY <1>1, TapTakesWorth
<1>3. Tapped(c, s, t) = IF c.rem = 0 THEN d1 ELSE IF p.taken = 0 THEN d2 ELSE d3
  BY DEF Tapped
<1>4. Worth(c.w, s) \in Int
  BY SaneWorth
<1> HIDE DEF p
<1>5. d1.w = c.w /\ SameAccounts(c, d1) /\ d2.w = p.w /\ SameAccounts(c, d2)
  BY DEF SweepState, SameAccounts
<1>6. Balances(c, d3, s)
  BY <1>2, <1>4, PaidBalances
<1> HIDE DEF d1, d2, d3
<1>7. Balances(c, d1, s)
  BY <1>5, SameBalances
<1>8. p.taken = 0 => Balances(c, d2, s)
  <2> SUFFICES ASSUME p.taken = 0 PROVE Balances(c, d2, s)
    OBVIOUS
  <2>1. Worth(p.w, s) = Worth(c.w, s)
    BY <1>2, <1>4
  <2> QED
    BY <1>5, <2>1, SameBalances
<1> QED
  BY <1>3, <1>6, <1>7, <1>8

LEMMA HitBalances ==
  ASSUME NEW c \in SweepState, Sane(c.w, ZeroRef), NEW h \in c.w.book.live, NEW k \in Int,
         0 < k, k <= c.w.book.slot[h].qty
  PROVE  LET o == c.w.book.slot[h]
         IN  Balances(c, Paid(c, Refilled(c.w, h, k), o.px, k), o.side)
<1> DEFINE o == c.w.book.slot[h]
           v == Refilled(c.w, h, k)
           s == o.side
           t == o.px
           x == t * k
<1>1. GoodBook(c.w.book)
  BY DEF Sane
<1>2. s \in Side /\ t \in Int
  BY <1>1, GoodParts, LiveOrder, TicksInt
<1>3. Shown(v, s) = Shown(c.w, s) - x
  BY RefilledShown
<1>4. v.hidden = c.w.hidden
  BY FillSpends
<1>5. x \in Int
  BY <1>2, TimesLess
<1> HIDE DEF v, s, t, x, o
<1>6. /\ Worth(c.w, s) \in Int /\ Shown(c.w, s) \in Int /\ HiddenWorth(c.w.hidden, s) \in Int
      /\ Worth(c.w, s) = Shown(c.w, s) + HiddenWorth(c.w.hidden, s)
      /\ Worth(v, s) = Shown(v, s) + HiddenWorth(v.hidden, s)
  BY <1>2, SaneWorth, WorthIs
<1>7. Worth(v, s) = Worth(c.w, s) - t * k
  BY <1>3, <1>4, <1>5, <1>6 DEF x
<1>8. Balances(c, Paid(c, v, t, k), s)
  BY <1>2, <1>6, <1>7, PaidBalances
<1> QED
  BY <1>8 DEF v, s, t, o

LEMMA MatchBalances ==
  ASSUME NEW c \in SweepState, Sane(c.w, ZeroRef), c.rem # 0, NEW s \in Side, NEW t \in Ticks,
         NEW h \in OrdersAt(c.w.book, s, t), NEW mode
  PROVE  Balances(c, Match(c, s, t, h, mode), s)
<1> DEFINE o == c.w.book.slot[h]
           mine == c.w.tracked[h].live
           k == IF c.rem < o.qty THEN c.rem ELSE o.qty
           hit(e) == Paid(e, Replenish(Take(e.w, h, k), o.ref, h), t, k)
           d == Match(c, s, t, h, mode)
<1>1. /\ c.w \in Sim /\ c.rem \in Nat /\ GoodBook(c.w.book) /\ c.expunged \in Int
      /\ h \in c.w.book.live /\ t \in Int
  <2>1. c.w \in Sim /\ c.rem \in Nat /\ c.expunged \in Int
    BY SweepFields
  <2>2. GoodBook(c.w.book)
    BY DEF Sane
  <2>3. h \in c.w.book.live
    BY DEF OrdersAt
  <2>4. t \in Int
    BY TicksInt
  <2> QED
    BY <2>1, <2>2, <2>3, <2>4
<1>2. o.qty \in Int /\ o.qty > 0 /\ o.side = s /\ o.px = t
  <2>1. o.qty \in Int /\ o.qty > 0
    BY <1>1, GoodParts, LiveOrder
  <2> QED
    BY <2>1 DEF OrdersAt
<1>3. k \in Int /\ 0 < k /\ k <= o.qty /\ k <= c.rem
  BY <1>1, <1>2
<1> HIDE DEF k
<1>6. CASE mine /\ mode = "cancel_newest"
  <2> DEFINE u == [c EXCEPT !.stopped = TRUE]
  <2>1. d = u
    BY <1>6 DEF Match
  <2>2. u.w = c.w /\ SameAccounts(c, u)
    BY DEF SweepState, SameAccounts
  <2> HIDE DEF u, d
  <2>3. Balances(c, u, s)
    BY <2>2, SameBalances
  <2> QED
    BY <2>1, <2>3 DEF d
<1>7. CASE mine /\ mode = "cancel_oldest"
  <2> DEFINE v == Expunged(c.w, h)
             x == o.qty * t
             m == c.expunged + x
             u == ExpungedState(c, v, m)
             n == Note(u, s, t, o.qty)
  <2>1. d = n
    BY <1>7 DEF Match, ExpungedState, Expunged
  <2>2. Spends(c.w, v)
    BY <1>1, <1>7, ExpungeSpends DEF Expunged
  <2>3. x \in Int /\ x = o.px * o.qty /\ m \in Int
    <3>1. x \in Int /\ x = o.px * o.qty
      BY <1>1, <1>2, TimesLess
    <3> HIDE DEF x
    <3> QED
      BY <1>1, <3>1
  <2>4. Shown(v, s) = Shown(c.w, s) - x /\ v.hidden = c.w.hidden
    BY <1>1, <1>2, <1>7, <2>3, ExpungedShown
  <2> HIDE DEF v, m, x
  <2>5. /\ Worth(c.w, s) \in Int /\ Shown(c.w, s) \in Int /\ HiddenWorth(c.w.hidden, s) \in Int
        /\ Worth(c.w, s) = Shown(c.w, s) + HiddenWorth(c.w.hidden, s)
        /\ Worth(v, s) = Shown(v, s) + HiddenWorth(v.hidden, s)
    BY SaneWorth, WorthIs
  <2>6. Worth(v, s) = Worth(c.w, s) - x
    BY <2>3, <2>4, <2>5
  <2>7. Balances(c, u, s)
    <3>1. Balances(c, ExpungedState(c, v, c.expunged + x), s)
      BY <2>3, <2>5, <2>6, ExpungeBalances
    <3> QED
      BY <3>1 DEF m
  <2>8. Sane(v, ZeroRef) /\ v \in Sim
    BY <2>2 DEF Spends, Sane
  <2>9. u \in SweepState /\ u.w = v
    BY <2>3, <2>8, ExpungeUpdate
  <2> HIDE DEF u
  <2>10. Balances(u, n, s)
    BY <1>1, <1>2, <2>8, <2>9, NoteBalances
  <2> HIDE DEF n, d
  <2>11. Balances(c, n, s)
    BY <2>7, <2>10, BalancesTrans
  <2> QED
    BY <2>1, <2>11 DEF d
<1>8. CASE mine /\ mode = "decrement"
  <2> DEFINE e == Paid(c, Refilled(c.w, h, k), t, k)
             n == Note(e, s, t, k)
  <2>1. d = n
    BY <1>8 DEF Match, Refilled, k
  <2>2. e \in SweepState /\ Sane(e.w, ZeroRef)
    BY <1>1, <1>3, HitTrades
  <2>3. Balances(c, e, s)
    BY <1>1, <1>2, <1>3, HitBalances
  <2> HIDE DEF e
  <2>4. Balances(e, n, s)
    BY <1>1, <1>3, <2>2, NoteBalances
  <2> HIDE DEF n, d
  <2>5. Balances(c, n, s)
    BY <2>3, <2>4, BalancesTrans
  <2> QED
    BY <2>1, <2>5 DEF d
<1>9. CASE ~(mine /\ mode \in {"cancel_newest", "cancel_oldest", "decrement"})
  <2> DEFINE n == Note(c, s, t, k)
             e == Paid(n, Refilled(n.w, h, k), t, k)
             x == Tapped(e, s, t)
  <2>1. n \in SweepState /\ Sane(n.w, ZeroRef) /\ n.rem = c.rem /\ Kin(c.w, n.w)
    BY <1>1, <1>3, NoteIsTrade
  <2>2. n.w.book = c.w.book
    BY <2>1 DEF Kin
  <2>3. d = x
    BY <1>9, <2>2 DEF Match, Refilled, k
  <2>4. Balances(c, n, s)
    BY <1>1, <1>3, NoteBalances
  <2> HIDE DEF n
  <2>5. /\ h \in n.w.book.live /\ k <= n.w.book.slot[h].qty /\ k <= n.rem
        /\ n.w.book.slot[h].px = t /\ n.w.book.slot[h].side = s
    BY <1>1, <1>2, <1>3, <2>1, <2>2
  <2>6. e \in SweepState /\ Sane(e.w, ZeroRef)
    BY <1>1, <1>3, <2>1, <2>5, HitTrades
  <2>7. Balances(n, e, s)
    BY <1>3, <2>1, <2>5, HitBalances
  <2> HIDE DEF e
  <2>8. Balances(e, x, s)
    BY <1>1, <2>6, TappedBalances
  <2> HIDE DEF x, d
  <2>9. Balances(c, x, s)
    BY <2>4, <2>7, <2>8, BalancesTrans
  <2> QED
    BY <2>3, <2>9 DEF d
<1> QED
  BY <1>6, <1>7, <1>8, <1>9

LEMMA SweepTurnBalances ==
  ASSUME NEW s \in Side, NEW c \in Sweeps(s), NEW in, NEW mode
  PROVE  Balances(c, SweepTurn(c, in, s, mode), s)
<1> DEFINE t      == Touch(c.w, s)
           hid    == BestHidden(c.w, s)
           better == hid # NoTick /\ (t = NoTick \/ Better(s, hid, t))
           aim    == IF better THEN hid ELSE t
           within == in.type = "market" \/ ~Better(s, in.px, aim)
           h      == FrontSlot(c.w, s, t)
           d1     == Tapped(c, s, hid)
           d2     == Match(c, s, t, h, mode)
<1>1. /\ c \in SweepState /\ Sane(c.w, ZeroRef) /\ c.w \in Sim /\ GoodBook(c.w.book)
  BY SweepsParts
<1>2. hid \in Int /\ (t # NoTick => t \in Ticks)
  BY <1>1, AimBeyond, TouchTyped
<1>3. t # NoTick => h \in OrdersAt(c.w.book, s, t)
  BY <1>1, TouchRests DEF Touch, FrontSlot
<1>4. SweepTurn(c, in, s, mode) =
        IF c.rem = 0 \/ c.stopped \/ aim = NoTick \/ ~within THEN c ELSE IF better THEN d1 ELSE d2
  BY DEF SweepTurn
<1> HIDE DEF within
<1>5. ~better /\ aim # NoTick => t # NoTick
  OBVIOUS
<1> HIDE DEF t, hid, h, better, aim
<1>6. Balances(c, d1, s)
  BY <1>1, <1>2, TappedBalances
<1>7. t # NoTick /\ c.rem # 0 => Balances(c, d2, s)
  BY <1>1, <1>2, <1>3, MatchBalances
<1>8. Balances(c, c, s)
  BY DEF Balances
<1> HIDE DEF d1, d2
<1> QED
  BY <1>4, <1>5, <1>6, <1>7, <1>8

LEMMA SweepBalances ==
  ASSUME NEW s \in Side, NEW c \in Sweeps(s), NEW in, NEW mode
  PROVE  Balances(c, Sweep(c, in, s, mode), s)
<1> DEFINE N == c.rem + Cardinality(Slots)
<1>1. PICK f : SweepRun(c, in, s, mode, f)
  BY SweepRuns
<1>2. /\ N \in Nat /\ f[0] = c /\ Sweep(c, in, s, mode) = f[N]
      /\ \A n \in 1 .. N : f[n] = SweepTurn(f[n - 1], in, s, mode)
      /\ \A n \in 0 .. N : f[n] \in Sweeps(s)
  BY <1>1 DEF SweepRun
<1> HIDE DEF N
<1> DEFINE K == {n \in 0 .. N : Balances(c, f[n], s)}
<1>3. 0 \in K
  BY <1>2 DEF Balances
<1>4. ASSUME NEW n \in 1 .. N, n - 1 \in K PROVE n \in K
  <2>1. /\ f[n - 1] \in Sweeps(s) /\ f[n] = SweepTurn(f[n - 1], in, s, mode)
        /\ Balances(c, f[n - 1], s)
    BY <1>2, <1>4
  <2>2. Balances(f[n - 1], f[n], s)
    BY <2>1, SweepTurnBalances
  <2>3. Balances(c, f[n], s)
    BY <2>1, <2>2, BalancesTrans
  <2> QED
    BY <1>2, <2>3
<1> HIDE DEF K
<1>5. N \in K
  BY <1>2, <1>3, <1>4, TurnsPass
<1> QED
  BY <1>2, <1>5 DEF K

(* The subtractions that end a sweep leave its accounts as they are,       *)
(* unless it was stopped: then its notional is gone.                       *)
LEMMA SettledBalances ==
  ASSUME NEW s \in Side, NEW c \in Sweeps(s)
  PROVE  LET d == Settled(c, s)
         IN  /\ Asked(d) = Asked(c) /\ (~c.stopped => Balances(c, d, s))
             /\ d.stopped = c.stopped
<1> DEFINE N == Len(c.notes)
           dr == c.w.drift \union {<<s, c.notes[i].px>> : i \in DOMAIN c.notes}
           v == [c.w EXCEPT !.drift = dr]
           d == Settled(c, s)
<1>1. /\ c \in SweepState /\ c.w \in Sim /\ c.notes \in Seq(NoteRecord) /\ N \in Nat
  BY SweepsParts, SweepFields
<1>2. d.stopped = c.stopped
  BY SettledKeeps
<1>3. CASE c.stopped
  <2> DEFINE d1 == [c EXCEPT !.notional = 0, !.w.drift = dr]
  <2>1. d = d1
    BY <1>3 DEF Settled
  <2> HIDE DEF dr
  <2>2. d1.rem = c.rem /\ d1.filled = c.filled
    BY <1>1 DEF SweepState
  <2> HIDE DEF d1
  <2>3. Asked(d) = Asked(c)
    BY <2>1, <2>2 DEF Asked
  <2> HIDE DEF d
  <2> QED
    BY <1>2, <1>3, <2>3 DEF d
<1>4. CASE ~c.stopped
  <2>1. PICK f : SettleRun(c, s, f)
    BY SettleRuns
  <2> DEFINE d2 == [c EXCEPT !.w = f[N]]
  <2>2. Moved(c.w, f[N]) /\ d = d2
    BY <1>1, <1>4, <2>1 DEF SettleRun
  <2>3. d2.w = f[N] /\ SameAccounts(c, d2)
    BY <1>1 DEF SweepState, SameAccounts
  <2> HIDE DEF d2, d
  <2>4. Worth(d2.w, s) = Worth(c.w, s)
    BY <2>2, <2>3, MovedWorth
  <2>5. Balances(c, d2, s)
    BY <2>3, <2>4, SameBalances
  <2> QED
    BY <1>2, <2>2, <2>5 DEF Balances, d
<1> QED
  BY <1>3, <1>4

LEMMA CrossBalances ==
  ASSUME NEW w, Sane(w, ZeroRef), NEW in, in.side \in Side, in.qty \in Nat, NEW mode
  PROVE  LET d == Cross(w, in, mode)
             s == Opposite(in.side)
         IN  /\ Asked(d) = in.qty
             /\ ~d.stopped => Balance(d, s) = Worth(w, s)
<1> DEFINE s == Opposite(in.side)
           fresh == [w EXCEPT !.synced = {}]
           c == SweepFrom(fresh, in.qty)
           d == Sweep(c, in, s, mode)
<1>1. s \in Side
  BY DEF Opposite, Side
<1>2. w \in Sim
  BY DEF Sane
<1>3. Kin(w, fresh) /\ fresh.hidden = w.hidden
  <2>1. /\ w.hidden \in Seq(Hidden) /\ {} \in SUBSET Slots /\ w.drift \in SUBSET (Side \X Int)
    BY <1>2, SimFields
  <2>2. fresh.hidden = w.hidden
    BY <1>2 DEF Sim
  <2>3. Kin(w, fresh)
    BY <1>2, <2>1, BookkeepingKin
  <2> QED
    BY <2>2, <2>3
<1> HIDE DEF fresh
<1>4. Sane(fresh, ZeroRef) /\ fresh \in Sim
  BY <1>3, KinSane DEF Kin
<1>5. c \in SweepState
  <2>1. NoTick \in Int /\ NoNote \in NoteRecord /\ <<>> \in Seq(NoteRecord)
    BY BandAssumption DEF NoTick, NoNote, NoteRecord
  <2> QED
    BY <1>4, <2>1 DEF SweepFrom, SweepState
<1>6. c.w = fresh /\ c.filled = 0 /\ c.rem = in.qty /\ c.notional = 0 /\ c.expunged = 0
  BY DEF SweepFrom
<1> HIDE DEF c, s
<1>7. c \in Sweeps(s)
  BY <1>4, <1>5, <1>6 DEF Sweeps, Paced
<1>8. Asked(c) = in.qty /\ Balance(c, s) = Worth(w, s)
  <2>1. Worth(fresh, s) = Worth(w, s) /\ Worth(w, s) \in Int
    BY <1>1, <1>3, MovedWorth, SaneWorth DEF Moved
  <2> QED
    BY <1>6, <2>1 DEF Asked, Balance
<1>9. d \in Sweeps(s) /\ Balances(c, d, s)
  BY <1>1, <1>7, SweepKeeps, SweepBalances
<1>10. Cross(w, in, mode) = Settled(d, s)
  BY DEF Cross, d, c, fresh, s
<1> HIDE DEF d
<1> DEFINE e == Settled(d, s)
<1>11. Asked(e) = Asked(d) /\ (~d.stopped => Balances(d, e, s)) /\ e.stopped = d.stopped
  BY <1>1, <1>9, SettledBalances
<1> HIDE DEF e
<1>12. Asked(e) = in.qty /\ (~e.stopped => Balance(e, s) = Worth(w, s))
  BY <1>8, <1>9, <1>11 DEF Balances
<1> QED
  BY <1>10, <1>12 DEF e, s

----------------------------------------------------------------------------
(* Decisions balance.                                                      *)

(* What a decision that sends c to the end answers for: the units asked    *)
(* for, unless it is rejected, and the worth side s had.                   *)
Accounted(o, asked, worth, s) ==
  /\ \/ o.kind \in {"rejected_unknown", "rejected_would_cross"}
     \/ o.filled + o.rests + o.cancelled = asked
  /\ o.kind = "rejected_stp" \/ worth = Worth(o.w, s) + o.notional + o.expunged

LEMMA AckAccounted ==
  ASSUME NEW c \in SweepState, NEW s, NEW kind, NEW v, NEW rests \in Int, NEW cancelled \in Int,
         kind \in {"rejected_unknown", "rejected_would_cross"} \/ rests + cancelled = c.rem,
         kind = "rejected_stp" \/ Worth(v, s) = Worth(c.w, s)
  PROVE  Accounted(Ack(kind, v, c, rests, cancelled), Asked(c), Balance(c, s), s)
<1> DEFINE o == Ack(kind, v, c, rests, cancelled)
<1>1. /\ o.kind = kind /\ o.w = v /\ o.filled = c.filled /\ o.notional = c.notional
      /\ o.expunged = c.expunged /\ o.rests = rests /\ o.cancelled = cancelled
  BY DEF Ack
<1>2. c.filled \in Int /\ c.rem \in Int
  BY SweepFields
<1> HIDE DEF o
<1>3. \/ o.kind \in {"rejected_unknown", "rejected_would_cross"}
      \/ o.filled + o.rests + o.cancelled = Asked(c)
  BY <1>1, <1>2 DEF Asked
<1>4. o.kind = "rejected_stp" \/ Balance(c, s) = Worth(o.w, s) + o.notional + o.expunged
  BY <1>1 DEF Balance
<1> QED
  BY <1>3, <1>4 DEF Accounted, o

(* A remainder comes to rest on its own side.                              *)
LEMMA RemainderAccounted ==
  ASSUME NEW in, in.side \in Side, in.px \in Int, in.offset \in Int, NEW r \in Strategy,
         NEW peg \in PegKind, NEW c \in SweepState, Sane(c.w, ZeroRef),
         NEW o \in Remainder(c, r, in, peg)
  PROVE  LET p == Opposite(in.side) IN Accounted(o, Asked(c), Balance(c, p), p)
<1> DEFINE w == c.w
           s == in.side
           p == Opposite(s)
           kind == IF c.filled > 0 THEN "partial_then_rest" ELSE "rested"
           last == IF c.filled > 0 /\ c.rem = 0 THEN "filled" ELSE "partial_then_cancelled"
           entry == [ref |-> r, side |-> s, px |-> in.px, qty |-> c.rem,
                     peg |-> peg, offset |-> in.offset]
           seated(h) == Track([w EXCEPT !.book = Insert(@, h, r, s, c.rem, in.px)],
                              h, r, s, c.rem, in.px)
<1>1. w \in Sim /\ c.rem \in Nat /\ c.rem + 0 = c.rem /\ 0 + c.rem = c.rem
  BY SweepFields
<1>2. p \in Side /\ p # s
  BY DEF Opposite, Side
<1>3. \/ o = Ack("rejected_unknown", w, c, 0, 0)
      \/ /\ AddError(w.book, r, s, c.rem, in.px) = "ok"
         /\ \E h \in Slots \ w.book.live : o = Ack(kind, seated(h), c, c.rem, 0)
      \/ o = Ack(kind, [w EXCEPT !.hidden = Append(@, entry)], c, c.rem, 0)
      \/ o = Ack(last, w, c, 0, c.rem)
  BY DEF Remainder
<1>4. CASE o = Ack("rejected_unknown", w, c, 0, 0)
  BY <1>4, AckAccounted
<1>5. CASE AddError(w.book, r, s, c.rem, in.px) = "ok"
           /\ \E h \in Slots \ w.book.live : o = Ack(kind, seated(h), c, c.rem, 0)
  <2>1. PICK h \in Slots \ w.book.live : o = Ack(kind, seated(h), c, c.rem, 0)
    BY <1>5
  <2> DEFINE q == c.rem
             t == in.px
             b == Insert(w.book, h, r, s, q, t)
             v == Track([w EXCEPT !.book = b], h, r, s, q, t)
  <2>2. q \in Int /\ r \in Ref /\ t \in Int
    BY <1>1 DEF Strategy
  <2>3. seated(h) = v
    BY <1>1 DEF Sim
  <2>4. Sane(w, ZeroRef) /\ AddError(w.book, r, s, q, t) = "ok"
    BY <1>5
  <2>5. v.book = b /\ v.hidden = w.hidden /\ v.icebergs = w.icebergs
    BY <1>1 DEF Track, Sim
  <2>6. GoodBook(w.book)
    BY DEF Sane
  <2> HIDE DEF q, t, w, s, v, p
  <2>7. t \in Ticks
    BY <2>2, <2>4, Accepted DEF s
  <2>8. LevelWorth(b, p) = LevelWorth(w.book, p)
    <3>1. LevelWorth(b, p) = LevelWorth(w.book, p) + (IF s = p THEN t * q ELSE 0)
      BY <1>2, <2>2, <2>6, <2>7, InsertWorth DEF s
    <3>2. LevelWorth(w.book, p) \in Int
      BY <1>1, <1>2, <2>6, ShownInt
    <3> QED
      BY <1>2, <3>1, <3>2
  <2>9. Worth(v, p) = Worth(w, p)
    BY <2>5, <2>8 DEF Worth
  <2> HIDE DEF seated, kind
  <2>10. q + 0 = c.rem /\ q \in Int /\ 0 \in Int
    BY <1>1 DEF q
  <2>11. Worth(v, p) = Worth(c.w, p)
    BY <2>9 DEF w
  <2>12. Accounted(Ack(kind, v, c, q, 0), Asked(c), Balance(c, p), p)
    BY <2>10, <2>11, AckAccounted
  <2> QED
    BY <2>1, <2>3, <2>12 DEF q, p, s
<1>6. CASE o = Ack(kind, [w EXCEPT !.hidden = Append(@, entry)], c, c.rem, 0)
  <2> DEFINE hd == Append(w.hidden, entry)
             v == [w EXCEPT !.hidden = hd]
  <2>1. c.rem \in HeldQty
    BY <1>1 DEF HeldQty
  <2>2. entry \in Hidden /\ entry.side = s
    BY <2>1 DEF Hidden
  <2>3. v.hidden = hd /\ v.book = w.book /\ v.icebergs = w.icebergs
    BY <1>1 DEF Sim
  <2> HIDE DEF v, entry
  <2>4. HiddenWorth(hd, p) = HiddenWorth(w.hidden, p)
    <3>1. HiddenWorth(hd, p) = HiddenWorth(w.hidden, p) + Holding(entry, p)
      BY <1>1, <2>2, SimFields, HiddenWorthAppend
    <3>2. Holding(entry, p) = 0
      BY <1>2, <2>2 DEF Holding
    <3>3. HiddenWorth(w.hidden, p) \in Int
      BY <1>1, SimFields, HiddenWorthIs
    <3> QED
      BY <3>1, <3>2, <3>3
  <2>5. Worth(v, p) = Worth(c.w, p)
    BY <2>3, <2>4 DEF Worth
  <2> HIDE DEF kind, p
  <2>6. Accounted(Ack(kind, v, c, c.rem, 0), Asked(c), Balance(c, p), p)
    BY <1>1, <2>5, AckAccounted
  <2> QED
    BY <1>6, <2>6 DEF v, p
<1>7. CASE o = Ack(last, w, c, 0, c.rem)
  <2> HIDE DEF last, p
  <2>1. Accounted(Ack(last, w, c, 0, c.rem), Asked(c), Balance(c, p), p)
    BY <1>1, AckAccounted
  <2> QED
    BY <1>7, <2>1 DEF p
<1> QED
  BY <1>3, <1>4, <1>5, <1>6, <1>7

LEMMA OutcomesAccounted ==
  ASSUME NEW w0, Sane(w0, ZeroRef), NEW r \in Strategy, NEW in0 \in Inbounds, NEW mode,
         NEW halt, NEW o \in Outcomes(w0, r, in0, mode, halt)
  PROVE  LET s == Opposite(in0.side) IN Accounted(o, in0.qty, Worth(Repeg(w0), s), s)
<1> DEFINE w    == Repeg(w0)
           peg  == PegOf(in0)
           px   == IF peg = "none" THEN in0.px ELSE Reference(w, peg, in0.offset)
           in   == [in0 EXCEPT !.px = px, !.non_displayed = @ \/ peg # "none"]
           none == SweepFrom(w, in.qty)
           hits == ~halt /\ Crosses(w, in)
           c    == IF hits THEN Cross(w, in, mode) ELSE none
           s    == Opposite(in0.side)
<1>1. w0 \in Sim
  BY DEF Sane
<1>2. Sane(w, ZeroRef) /\ w \in Sim
  <2>1. Kin(w0, w)
    BY <1>1, RepegKin
  <2> QED
    BY <2>1, KinSane DEF Kin
<1> HIDE DEF w
<1>3. peg \in PegKind
  BY PegTyped
<1>4. px \in Int
  <2>1. in0.px \in Int /\ in0.offset \in Int
    BY SimAssumption
  <2>2. Reference(w, peg, in0.offset) \in Int
    BY <1>2, <2>1, ReferenceTyped
  <2> QED
    BY <2>1, <2>2
<1>5. /\ in.side = in0.side /\ in.qty = in0.qty /\ in.px \in Int
      /\ in.side \in Side /\ in.qty \in Nat /\ in.offset \in Int
  <2> DEFINE x == in0.non_displayed \/ peg # "none"
             u == [in0 EXCEPT !.px = px, !.non_displayed = x]
  <2> HIDE DEF px, peg
  <2>1. in = u
    OBVIOUS
  <2> HIDE DEF x, in
  <2>2. /\ u.side = in0.side /\ u.qty = in0.qty /\ u.px = px
        /\ u.side \in Side /\ u.qty \in Nat /\ u.offset \in Int
    BY <1>4, PricedOrder DEF u
  <2> HIDE DEF u
  <2> QED
    BY <1>4, <2>1, <2>2
<1>6. \/ o = Ack("rejected_unknown", w, none, 0, 0)
      \/ o = Ack("rejected_would_cross", w, none, 0, 0)
      \/ c.stopped /\ o = Ack("rejected_stp", c.w, c, 0, c.rem)
      \/ ~c.stopped /\ o \in Remainder(c, r, in, peg)
  BY DEF Outcomes, w
<1> HIDE DEF px, peg, in
<1>7. s = Opposite(in.side) /\ s \in Side
  BY <1>5 DEF Opposite, Side
<1>8. none \in SweepState /\ none.w = w /\ ~none.stopped
      /\ Asked(none) = in.qty /\ Balance(none, s) = Worth(w, s)
  <2>1. NoTick \in Int /\ NoNote \in NoteRecord /\ <<>> \in Seq(NoteRecord)
    BY BandAssumption DEF NoTick, NoNote, NoteRecord
  <2>2. none \in SweepState /\ none.w = w
    BY <1>2, <1>5, <2>1 DEF SweepFrom, SweepState
  <2>3. /\ none.w = w /\ ~none.stopped /\ none.filled = 0 /\ none.rem = in.qty
        /\ none.notional = 0 /\ none.expunged = 0
    BY DEF SweepFrom
  <2> HIDE DEF none, s
  <2>4. Worth(w, s) \in Int
    BY <1>2, <1>7, SaneWorth
  <2> QED
    BY <1>5, <2>2, <2>3, <2>4 DEF Asked, Balance
<1> HIDE DEF none
<1>9. Cross(w, in, mode) \in SweepState /\ Sane(Cross(w, in, mode).w, ZeroRef)
  <2>1. Cross(w, in, mode) \in Sweeps(s)
    BY <1>2, <1>5, CrossKeeps
  <2> QED
    BY <2>1, SweepsParts
<1>10. /\ Asked(Cross(w, in, mode)) = in.qty
       /\ ~Cross(w, in, mode).stopped => Balance(Cross(w, in, mode), s) = Worth(w, s)
  <2> HIDE DEF s
  <2>1. LET d == Cross(w, in, mode)
        IN  Asked(d) = in.qty /\ (~d.stopped => Balance(d, Opposite(in.side)) = Worth(w, Opposite(in.side)))
    BY <1>2, <1>5, CrossBalances
  <2> QED
    BY <1>7, <2>1
<1> HIDE DEF s
<1>11. /\ c \in SweepState /\ Sane(c.w, ZeroRef) /\ Asked(c) = in0.qty
       /\ ~c.stopped => Balance(c, s) = Worth(w, s)
  BY <1>2, <1>5, <1>8, <1>9, <1>10
<1> HIDE DEF c
<1>12. CASE o = Ack("rejected_unknown", w, none, 0, 0) \/ o = Ack("rejected_would_cross", w, none, 0, 0)
  <2>1. \/ Accounted(o, Asked(none), Balance(none, s), s)
    BY <1>8, <1>12, AckAccounted
  <2> QED
    BY <1>5, <1>8, <2>1 DEF w, s
<1>13. CASE c.stopped /\ o = Ack("rejected_stp", c.w, c, 0, c.rem)
  <2>1. c.rem \in Int /\ 0 + c.rem = c.rem
    BY <1>11, SweepFields
  <2>2. Accounted(o, Asked(c), Balance(c, s), s)
    BY <1>11, <1>13, <2>1, AckAccounted
  <2>3. o.kind = "rejected_stp"
    BY <1>13 DEF Ack
  <2> QED
    BY <1>11, <2>2, <2>3 DEF Accounted, s
<1>14. CASE ~c.stopped /\ o \in Remainder(c, r, in, peg)
  <2>1. Accounted(o, Asked(c), Balance(c, s), s)
    BY <1>3, <1>5, <1>7, <1>11, <1>14, RemainderAccounted
  <2> QED
    BY <1>11, <1>14, <2>1 DEF w, s
<1> QED
  BY <1>6, <1>12, <1>13, <1>14

(* DecisionsBalance (Simulate.hpp:136-139, 769-984): whatever a decision   *)
(* finds, the units it was asked for are filled, rest or are cancelled,    *)
(* and the other side loses in value what the acknowledgement reports as   *)
(* notional plus what self-trade prevention removed: no iceberg reserve or *)
(* hidden order is consumed unpaid and none is paid for twice, for every   *)
(* self-trade mode, buffer size and band.                                  *)
THEOREM DecisionsBalanceHolds == Spec => []DecisionsBalance
<1>1. ASSUME SimInv PROVE DecisionsBalance
  <2> DEFINE spare == {r \in Strategy : Find(sim.book, r) = NullIndex}
             r     == CHOOSE x \in spare : TRUE
  <2> SUFFICES ASSUME spare # {}, NEW in \in Inbounds,
                      NEW o \in Outcomes(sim, r, in, stp, halted)
               PROVE  LET s == Opposite(in.side)
                      IN  Accounted(o, in.qty, Worth(Repeg(sim), s), s)
    BY DEF DecisionsBalance, OnDecision, Accounted
  <2>1. r \in Strategy
    OBVIOUS
  <2> HIDE DEF spare, r
  <2>2. Sane(sim, ZeroRef)
    BY <1>1 DEF SimInv
  <2> QED
    BY <2>1, <2>2, OutcomesAccounted
<1> QED
  BY <1>1, SimInvHolds, PTL

=============================================================================
