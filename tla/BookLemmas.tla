----------------------------- MODULE BookLemmas -----------------------------
(***************************************************************************)
(* What each operation on a book value (Insert, Drop, Shrink) preserves,   *)
(* for every arena size, band and page layout: the types of its parts, the *)
(* id table, the queues' links, the levels' aggregates, the cached best    *)
(* prices and the pages.  The order book's proofs and the simulator's      *)
(* build on these.                                                         *)
(***************************************************************************)
EXTENDS BookOps, TLAPS, FiniteSetTheorems, WellFoundedInduction

----------------------------------------------------------------------------
(* Prices.                                                                 *)

LEMMA TicksInt == \A t \in Ticks : t \in Int
BY BandAssumption DEF Ticks

(* A nonempty set of ticks has a best one, on either side: first_above and *)
(* first_below have something to find whenever a level is occupied.        *)
LEMMA BestExists ==
  ASSUME NEW s \in Side, NEW T \in SUBSET Ticks, T # {}
  PROVE  \E x \in T : \A y \in T : ~Better(s, y, x)
<1>1. Lo \in Int /\ Hi \in Int
  BY BandAssumption
<1>2. CASE s = "B"
  <2> DEFINE U == {Hi - y : y \in T}
  <2>1. U \subseteq Nat /\ U # {}
    <3>1. \A y \in T : Hi - y \in Nat
      BY <1>1 DEF Ticks
    <3> QED BY <3>1
  <2>2. \E u \in U : \A v \in U : ~ (<<v, u>> \in OpToRel(<, Nat))
    BY <2>1, NatLessThanWellFounded, WFMin
  <2>3. PICK u \in U : \A v \in U : ~ (v < u)
    BY <2>1, <2>2 DEF OpToRel
  <2>4. PICK x \in T : u = Hi - x
    OBVIOUS
  <2>5. \A y \in T : ~(y > x)
    BY <1>1, <2>3, <2>4 DEF Ticks
  <2> QED
    BY <1>2, <2>5 DEF Better
<1>3. CASE s = "S"
  <2> DEFINE U == {y - Lo : y \in T}
  <2>1. U \subseteq Nat /\ U # {}
    <3>1. \A y \in T : y - Lo \in Nat
      BY <1>1 DEF Ticks
    <3> QED BY <3>1
  <2>2. \E u \in U : \A v \in U : ~ (<<v, u>> \in OpToRel(<, Nat))
    BY <2>1, NatLessThanWellFounded, WFMin
  <2>3. PICK u \in U : \A v \in U : ~ (v < u)
    BY <2>1, <2>2 DEF OpToRel
  <2>4. PICK x \in T : u = x - Lo
    OBVIOUS
  <2>5. \A y \in T : ~(y < x)
    BY <1>1, <2>3, <2>4 DEF Ticks
  <2> QED
    BY <1>3, <2>5 DEF Better
<1> QED
  BY <1>2, <1>3 DEF Side

LEMMA BestInProperties ==
  ASSUME NEW s \in Side, NEW T \in SUBSET Ticks
  PROVE  /\ T = {} => BestIn(s, T) = NoTick
         /\ T # {} => /\ BestIn(s, T) \in T
                      /\ \A y \in T : ~Better(s, y, BestIn(s, T))
         /\ BestIn(s, T) \in Ticks \union {NoTick}
BY BestExists DEF BestIn

(* A best element is the only one.                                         *)
LEMMA BestUnique ==
  ASSUME NEW s \in Side, NEW T \in SUBSET Ticks, NEW x \in T,
         \A y \in T : ~Better(s, y, x)
  PROVE  BestIn(s, T) = x
<1>1. /\ BestIn(s, T) \in T
      /\ \A y \in T : ~Better(s, y, BestIn(s, T))
  BY BestInProperties
<1>2. x \in Int /\ BestIn(s, T) \in Int
  BY <1>1, TicksInt
<1> QED
  BY <1>1, <1>2 DEF Better

LEMMA NoTickApart == NoTick \notin Ticks
BY BandAssumption DEF NoTick, Ticks

----------------------------------------------------------------------------
(* Types.                                                                  *)

LEMMA FieldUpdates ==
  /\ \A v \in Level, x \in Int : [v EXCEPT !.total = x] \in Level
  /\ \A v \in Order, x \in Int : [v EXCEPT !.qty = x] \in Order
  /\ \A v \in Order : \A x : LET u == [v EXCEPT !.qty = x]
                              IN  u.ref = v.ref /\ u.px = v.px /\ u.qty = x
<1>1. \A v \in Level, x \in Int : [v EXCEPT !.total = x] \in Level
  BY DEF Level
<1>2. \A v \in Order, x \in Int : [v EXCEPT !.qty = x] \in Order
  BY DEF Order
<1>3. \A v \in Order : \A x : LET u == [v EXCEPT !.qty = x]
                               IN  u.ref = v.ref /\ u.px = v.px /\ u.qty = x
  BY DEF Order
<1> QED
  BY <1>1, <1>2, <1>3

LEMMA BookRecord ==
  ASSUME NEW sl \in [Slots -> Order], NEW lf \in SUBSET Slots, NEW id \in [Ref -> Index],
         NEW lv \in [Side -> [Ticks -> Level]], NEW pg \in [Side -> SUBSET Pages],
         NEW bs \in [Side -> Ticks \union {NoTick}]
  PROVE  [slot |-> sl, live |-> lf, id |-> id, level |-> lv, page |-> pg, best |-> bs] \in Book
BY DEF Book

LEMMA BookFields ==
  ASSUME NEW b \in Book
  PROVE  /\ b.slot \in [Slots -> Order] /\ b.live \in SUBSET Slots /\ b.id \in [Ref -> Index]
         /\ b.level \in [Side -> [Ticks -> Level]] /\ b.page \in [Side -> SUBSET Pages]
         /\ b.best \in [Side -> Ticks \union {NoTick}]
BY DEF Book

LEMMA WithLevelTyped ==
  ASSUME NEW b, Typed(b), NEW s \in Side, NEW t \in Ticks, NEW lv \in Level
  PROVE  WithLevel(b, s, t, lv) \in [Side -> [Ticks -> Level]]
BY DEF WithLevel, Typed, Book

LEMMA LiveOrder ==
  ASSUME NEW b, Typed(b), NEW h \in b.live
  PROVE  /\ b \in Book /\ h \in Slots /\ b.slot[h] \in Order
         /\ b.slot[h].side \in Side /\ b.slot[h].px \in Ticks /\ b.slot[h].ref \in Ref
         /\ b.slot[h].prev \in Index /\ b.slot[h].next \in Index
         /\ b.slot[h].qty \in Int /\ b.slot[h].qty > 0
         /\ b.level[b.slot[h].side][b.slot[h].px] \in Level
BY DEF Typed, Book, Order

LEMMA InsertTyped ==
  ASSUME NEW b, Typed(b), NEW h \in Slots, NEW r \in Ref, NEW s \in Side,
         NEW q \in Int, q > 0, NEW t \in Ticks
  PROVE  Typed(Insert(b, h, r, s, q, t))
<1> DEFINE c == Insert(b, h, r, s, q, t)
           lv == b.level[s][t]
<1> USE DEF Typed
<1>1. b \in Book
  OBVIOUS
<1>2. lv \in Level
  BY <1>1 DEF Book
<1>3. c.slot \in [Slots -> Order]
  <2>1. \A i \in Slots : b.slot[i] \in Order
    BY <1>1 DEF Book
  <2>2. [ref |-> r, side |-> s, px |-> t, qty |-> q, prev |-> lv.tail, next |-> NullIndex] \in Order
    BY <1>2 DEF Order, Level, Index
  <2>3. \A i \in Slots : [b.slot[i] EXCEPT !.next = h] \in Order
    BY <2>1 DEF Order, Index
  <2> QED
    BY <2>1, <2>2, <2>3 DEF Insert
<1>4. c.level \in [Side -> [Ticks -> Level]]
  <2> DEFINE nlv == [total |-> lv.total + q,
                     head  |-> IF lv.tail = NullIndex THEN h ELSE lv.head,
                     tail  |-> h,
                     count |-> lv.count + 1]
  <2>1. nlv \in Level
    BY <1>2 DEF Level, Index
  <2> QED
    BY <2>1, WithLevelTyped DEF Insert
<1>5. /\ c.live \in SUBSET Slots
      /\ c.id \in [Ref -> Index]
      /\ c.page \in [Side -> SUBSET Pages]
      /\ c.best \in [Side -> Ticks \union {NoTick}]
  BY <1>1 DEF Insert, Book, Index, Pages
<1>6. c \in Book
  BY <1>3, <1>4, <1>5 DEF Insert, Book
<1>7. ASSUME NEW i \in c.live
      PROVE  c.slot[i].ref \in Ref /\ c.slot[i].px \in Ticks /\ c.slot[i].qty > 0
  <2>1. CASE i = h
    BY <2>1 DEF Insert
  <2>2. CASE i # h
    BY <2>2, <1>1 DEF Insert, Book, Order
  <2> QED BY <2>1, <2>2
<1> QED
  BY <1>6, <1>7

(* Refilling the best price touches nothing else.                          *)
LEMMA RefillFrame ==
  ASSUME NEW b, b \in Book, NEW s \in Side, NEW t \in Ticks
  PROVE  /\ Refill(b, s, t) \in Book
         /\ Refill(b, s, t).slot = b.slot
         /\ Refill(b, s, t).live = b.live
         /\ Refill(b, s, t).id = b.id
         /\ Refill(b, s, t).level = b.level
         /\ Refill(b, s, t).page = b.page
<1>1. NextBest(b, s, t) \in Ticks \union {NoTick}
  BY BestInProperties DEF NextBest, Occupied
<1> QED
  BY <1>1 DEF Refill, Book

LEMMA LessTyped ==
  ASSUME NEW b, Typed(b), NEW h \in b.live, NEW q \in Int, 0 < q, q < b.slot[h].qty
  PROVE  Typed(Less(b, h, q)) /\ Typed(Shrink(b, h, q))
<1> DEFINE o == b.slot[h]
           d == Less(b, h, q)
           lv == b.level[o.side][o.px]
           o2 == [o EXCEPT !.qty = @ - q]
           lv2 == [lv EXCEPT !.total = @ - q]
<1>1. /\ b \in Book /\ h \in Slots /\ o \in Order /\ o.side \in Side /\ o.px \in Ticks
      /\ o.ref \in Ref /\ o.qty \in Int /\ lv \in Level
  BY LiveOrder
<1>2. o.qty - q \in Int /\ o.qty - q > 0 /\ lv.total - q \in Int
  <2> HIDE DEF lv
  <2>1. lv.total \in Int
    BY <1>1 DEF Level
  <2> QED
    BY <1>1, <2>1
<1>3. /\ o2 \in Order /\ lv2 \in Level
      /\ o2.ref = o.ref /\ o2.px = o.px /\ o2.qty = o.qty - q
  BY <1>1, <1>2, FieldUpdates
<1>4. /\ d.slot = [i \in Slots |-> IF i = h THEN o2 ELSE b.slot[i]] /\ d.live = b.live
      /\ d = [slot |-> d.slot, live |-> b.live, id |-> b.id,
              level |-> WithLevel(b, o.side, o.px, lv2), page |-> b.page, best |-> b.best]
  BY DEF Less
<1> HIDE DEF d, o2, lv2
<1>5. d.slot \in [Slots -> Order]
  BY <1>1, <1>3, <1>4, BookFields
<1>6. WithLevel(b, o.side, o.px, lv2) \in [Side -> [Ticks -> Level]]
  BY <1>1, <1>3, WithLevelTyped
<1>7. d \in Book
  <2> DEFINE sl == d.slot
             nl == WithLevel(b, o.side, o.px, lv2)
  <2>1. /\ sl \in [Slots -> Order] /\ nl \in [Side -> [Ticks -> Level]]
        /\ b.live \in SUBSET Slots /\ b.id \in [Ref -> Index]
        /\ b.page \in [Side -> SUBSET Pages] /\ b.best \in [Side -> Ticks \union {NoTick}]
    BY <1>1, <1>5, <1>6, BookFields
  <2>2. d = [slot |-> sl, live |-> b.live, id |-> b.id, level |-> nl,
             page |-> b.page, best |-> b.best]
    BY <1>4, Zenon
  <2> HIDE DEF sl, nl
  <2> QED
    BY <2>1, <2>2, BookRecord
<1>8. ASSUME NEW i \in b.live
      PROVE  d.slot[i].ref \in Ref /\ d.slot[i].px \in Ticks /\ d.slot[i].qty > 0
  <2>1. i \in Slots /\ b.slot[i].ref \in Ref /\ b.slot[i].px \in Ticks /\ b.slot[i].qty > 0
    BY LiveOrder
  <2>2. d.slot[i] = IF i = h THEN o2 ELSE b.slot[i]
    BY <1>4, <2>1
  <2> QED
    BY <1>1, <1>2, <1>3, <2>1, <2>2
<1>9. Typed(d)
  BY <1>4, <1>7, <1>8 DEF Typed
<1>10. /\ Refill(d, o.side, o.px) \in Book
       /\ Refill(d, o.side, o.px).slot = d.slot /\ Refill(d, o.side, o.px).live = d.live
  BY <1>1, <1>7, RefillFrame
<1>11. Typed(Refill(d, o.side, o.px))
  <2> DEFINE e == Refill(d, o.side, o.px)
  <2>1. e \in Book /\ e.slot = d.slot /\ e.live = b.live
    BY <1>4, <1>10
  <2> HIDE DEF e
  <2>2. Typed(e)
    BY <1>8, <2>1 DEF Typed
  <2> QED
    BY <2>2 DEF e
<1> QED
  BY <1>9, <1>11 DEF Shrink, d

LEMMA UnlinkedFrame ==
  ASSUME NEW b, Typed(b), NEW h \in b.live
  PROVE  /\ Unlinked(b, h) \in [Slots -> Order]
         /\ \A i \in Slots \ {h} :
              /\ Unlinked(b, h)[i].ref = b.slot[i].ref
              /\ Unlinked(b, h)[i].side = b.slot[i].side
              /\ Unlinked(b, h)[i].px = b.slot[i].px
              /\ Unlinked(b, h)[i].qty = b.slot[i].qty
              /\ Unlinked(b, h)[i].next = IF i = b.slot[h].prev THEN b.slot[h].next
                                          ELSE b.slot[i].next
              /\ Unlinked(b, h)[i].prev = IF i = b.slot[h].next THEN b.slot[h].prev
                                          ELSE b.slot[i].prev
<1>1. h \in Slots /\ \A i \in Slots : b.slot[i] \in Order
  BY DEF Typed, Book
<1>2. FreeSlot \in Order
  BY DEF FreeSlot, Order, Side, Index
<1>3. ASSUME NEW i \in Slots \ {h}
      PROVE  LET u == [b.slot[i] EXCEPT
                         !.next = IF i = b.slot[h].prev THEN b.slot[h].next ELSE @,
                         !.prev = IF i = b.slot[h].next THEN b.slot[h].prev ELSE @]
             IN  /\ u \in Order
                 /\ u.ref = b.slot[i].ref /\ u.side = b.slot[i].side
                 /\ u.px = b.slot[i].px /\ u.qty = b.slot[i].qty
                 /\ u.next = IF i = b.slot[h].prev THEN b.slot[h].next ELSE b.slot[i].next
                 /\ u.prev = IF i = b.slot[h].next THEN b.slot[h].prev ELSE b.slot[i].prev
  BY <1>1 DEF Order
<1> QED
  BY <1>1, <1>2, <1>3 DEF Unlinked

LEMMA RestTyped ==
  ASSUME NEW b, Typed(b), NEW h \in b.live
  PROVE  /\ Typed(Rest(b, h))
         /\ Drop(b, h) = Refill(Rest(b, h), b.slot[h].side, b.slot[h].px)
<1> DEFINE o == b.slot[h]
           lv == b.level[o.side][o.px]
           d == Rest(b, h)
<1>1. /\ b \in Book /\ h \in Slots /\ o.side \in Side /\ o.px \in Ticks /\ o.qty \in Int
      /\ o.prev \in Index /\ o.next \in Index /\ lv \in Level
  BY LiveOrder
<1>2. Drained(lv, o) \in Level
  <2> HIDE DEF lv, o
  <2>1. lv.total \in Int /\ lv.count \in Int /\ lv.head \in Index /\ lv.tail \in Index
    BY <1>1 DEF Level
  <2>2. lv.total - o.qty \in Int /\ lv.count - 1 \in Int
    BY <1>1, <2>1
  <2> QED
    BY <1>1, <2>1, <2>2 DEF Drained, Level
<1>3. d = [slot |-> Unlinked(b, h), live |-> b.live \ {h}, id |-> Erased(b, h),
           level |-> WithLevel(b, o.side, o.px, Drained(lv, o)),
           page |-> b.page, best |-> b.best]
  BY DEF Rest
<1> HIDE DEF d
<1>4. WithLevel(b, o.side, o.px, Drained(lv, o)) \in [Side -> [Ticks -> Level]]
  BY <1>1, <1>2, WithLevelTyped
<1>5. Erased(b, h) \in [Ref -> Index]
  BY <1>1, BookFields DEF Erased, Index
<1>6. Unlinked(b, h) \in [Slots -> Order]
  BY UnlinkedFrame
<1>7. d \in Book
  <2> DEFINE sl == Unlinked(b, h)
             lf == b.live \ {h}
             id == Erased(b, h)
             nl == WithLevel(b, o.side, o.px, Drained(lv, o))
  <2>1. b.live \in SUBSET Slots
    BY <1>1, BookFields
  <2>2. lf \in SUBSET Slots
    BY <2>1
  <2>3. b.page \in [Side -> SUBSET Pages] /\ b.best \in [Side -> Ticks \union {NoTick}]
    BY <1>1, BookFields
  <2>4. d = [slot |-> sl, live |-> lf, id |-> id, level |-> nl,
             page |-> b.page, best |-> b.best]
    BY <1>3, Zenon
  <2>5. /\ sl \in [Slots -> Order] /\ id \in [Ref -> Index]
        /\ nl \in [Side -> [Ticks -> Level]]
    BY <1>4, <1>5, <1>6
  <2> HIDE DEF sl, lf, id, nl
  <2> QED
    BY <2>2, <2>3, <2>4, <2>5, BookRecord
<1>8. ASSUME NEW i \in b.live \ {h}
      PROVE  d.slot[i].ref \in Ref /\ d.slot[i].px \in Ticks /\ d.slot[i].qty > 0
  <2>1. i \in Slots \ {h} /\ b.slot[i].ref \in Ref /\ b.slot[i].px \in Ticks /\ b.slot[i].qty > 0
    BY LiveOrder
  <2> QED
    BY <1>3, <2>1, UnlinkedFrame
<1>9. Typed(d)
  BY <1>3, <1>7, <1>8 DEF Typed
<1> QED
  BY <1>9 DEF d, Drop

LEMMA DropTyped ==
  ASSUME NEW b, Typed(b), NEW h \in b.live
  PROVE  /\ Typed(Drop(b, h))
         /\ Drop(b, h).slot = Unlinked(b, h)
         /\ Drop(b, h).live = b.live \ {h}
         /\ Drop(b, h).id = Erased(b, h)
         /\ Drop(b, h).level = Rest(b, h).level
         /\ Drop(b, h).page = b.page
<1> DEFINE o == b.slot[h]
<1>1. o.side \in Side /\ o.px \in Ticks /\ Rest(b, h) \in Book
  BY RestTyped DEF Typed, Book, Order
<1>2. /\ Drop(b, h) \in Book
      /\ Drop(b, h).slot = Rest(b, h).slot
      /\ Drop(b, h).live = Rest(b, h).live
      /\ Drop(b, h).id = Rest(b, h).id
      /\ Drop(b, h).level = Rest(b, h).level
      /\ Drop(b, h).page = Rest(b, h).page
  BY <1>1, RestTyped, RefillFrame
<1>3. Typed(Rest(b, h))
  BY RestTyped
<1> QED
  BY <1>2, <1>3 DEF Rest, Typed

----------------------------------------------------------------------------
(* What each operation does to the orders, and to the sets of orders at a  *)
(* level.                                                                  *)

LEMMA InsertOrders ==
  ASSUME NEW b, Typed(b), NEW h \in Slots \ b.live, NEW r \in Ref, NEW s \in Side,
         NEW q \in Int, q > 0, NEW t \in Ticks
  PROVE  LET c == Insert(b, h, r, s, q, t)
         IN  /\ c.live = b.live \union {h}
             /\ c.slot[h].ref = r /\ c.slot[h].side = s /\ c.slot[h].px = t
             /\ c.slot[h].qty = q /\ c.slot[h].prev = b.level[s][t].tail
             /\ c.slot[h].next = NullIndex
             /\ \A i \in b.live :
                  /\ c.slot[i].ref = b.slot[i].ref /\ c.slot[i].side = b.slot[i].side
                  /\ c.slot[i].px = b.slot[i].px /\ c.slot[i].qty = b.slot[i].qty
                  /\ c.slot[i].prev = b.slot[i].prev
                  /\ c.slot[i].next = IF i = b.level[s][t].tail THEN h ELSE b.slot[i].next
             /\ \A x \in Side, y \in Ticks :
                  OrdersAt(c, x, y) = IF x = s /\ y = t THEN OrdersAt(b, x, y) \union {h}
                                      ELSE OrdersAt(b, x, y)
<1> DEFINE c == Insert(b, h, r, s, q, t)
<1>1. c.live = b.live \union {h}
  BY DEF Insert
<1>2. /\ c.slot[h].ref = r /\ c.slot[h].side = s /\ c.slot[h].px = t
      /\ c.slot[h].qty = q /\ c.slot[h].prev = b.level[s][t].tail
      /\ c.slot[h].next = NullIndex
  BY DEF Insert
<1>3. ASSUME NEW i \in b.live
      PROVE  /\ c.slot[i].ref = b.slot[i].ref /\ c.slot[i].side = b.slot[i].side
             /\ c.slot[i].px = b.slot[i].px /\ c.slot[i].qty = b.slot[i].qty
             /\ c.slot[i].prev = b.slot[i].prev
             /\ c.slot[i].next = IF i = b.level[s][t].tail THEN h ELSE b.slot[i].next
  <2>1. i \in Slots /\ i # h /\ b.slot[i] \in Order
    BY LiveOrder
  <2> QED
    BY <2>1 DEF Insert, Order
<1>4. ASSUME NEW x \in Side, NEW y \in Ticks
      PROVE  OrdersAt(c, x, y) = IF x = s /\ y = t THEN OrdersAt(b, x, y) \union {h}
                                 ELSE OrdersAt(b, x, y)
  BY <1>1, <1>2, <1>3 DEF OrdersAt
<1> QED
  BY <1>1, <1>2, <1>3, <1>4

LEMMA DropOrders ==
  ASSUME NEW b, Typed(b), NEW h \in b.live
  PROVE  LET c == Drop(b, h)
         IN  /\ c.live = b.live \ {h}
             /\ \A i \in b.live \ {h} :
                  /\ c.slot[i].ref = b.slot[i].ref /\ c.slot[i].side = b.slot[i].side
                  /\ c.slot[i].px = b.slot[i].px /\ c.slot[i].qty = b.slot[i].qty
                  /\ c.slot[i].next = IF i = b.slot[h].prev THEN b.slot[h].next
                                      ELSE b.slot[i].next
                  /\ c.slot[i].prev = IF i = b.slot[h].next THEN b.slot[h].prev
                                      ELSE b.slot[i].prev
             /\ \A x \in Side, y \in Ticks : OrdersAt(c, x, y) = OrdersAt(b, x, y) \ {h}
<1> DEFINE c == Drop(b, h)
<1>1. c.live = b.live \ {h} /\ c.slot = Unlinked(b, h) /\ b.live \subseteq Slots
  BY DropTyped DEF Typed, Book
<1>2. \A i \in b.live \ {h} :
                  /\ c.slot[i].ref = b.slot[i].ref /\ c.slot[i].side = b.slot[i].side
                  /\ c.slot[i].px = b.slot[i].px /\ c.slot[i].qty = b.slot[i].qty
                  /\ c.slot[i].next = IF i = b.slot[h].prev THEN b.slot[h].next
                                      ELSE b.slot[i].next
                  /\ c.slot[i].prev = IF i = b.slot[h].next THEN b.slot[h].prev
                                      ELSE b.slot[i].prev
  BY <1>1, UnlinkedFrame
<1>3. ASSUME NEW x \in Side, NEW y \in Ticks
      PROVE  OrdersAt(c, x, y) = OrdersAt(b, x, y) \ {h}
  BY <1>1, <1>2 DEF OrdersAt
<1> QED
  BY <1>1, <1>2, <1>3

LEMMA ShrinkOrders ==
  ASSUME NEW b, Typed(b), NEW h \in b.live, NEW q \in Int, 0 < q, q < b.slot[h].qty
  PROVE  LET c == Shrink(b, h, q)
         IN  /\ c.live = b.live /\ c.id = b.id /\ c.page = b.page
             /\ c.level = Less(b, h, q).level
             /\ \A i \in b.live :
                  /\ c.slot[i].ref = b.slot[i].ref /\ c.slot[i].side = b.slot[i].side
                  /\ c.slot[i].px = b.slot[i].px
                  /\ c.slot[i].next = b.slot[i].next /\ c.slot[i].prev = b.slot[i].prev
                  /\ c.slot[i].qty = IF i = h THEN b.slot[i].qty - q ELSE b.slot[i].qty
             /\ \A x \in Side, y \in Ticks : OrdersAt(c, x, y) = OrdersAt(b, x, y)
<1> DEFINE c == Shrink(b, h, q)
           d == Less(b, h, q)
<1>1. /\ c.live = d.live /\ c.id = d.id /\ c.page = d.page
      /\ c.level = d.level /\ c.slot = d.slot
  BY LessTyped, LiveOrder, RefillFrame DEF Shrink, Typed
<1>2. d.live = b.live /\ d.id = b.id /\ d.page = b.page
  BY DEF Less
<1>3. ASSUME NEW i \in b.live
      PROVE  /\ c.slot[i].ref = b.slot[i].ref /\ c.slot[i].side = b.slot[i].side
             /\ c.slot[i].px = b.slot[i].px
             /\ c.slot[i].next = b.slot[i].next /\ c.slot[i].prev = b.slot[i].prev
             /\ c.slot[i].qty = IF i = h THEN b.slot[i].qty - q ELSE b.slot[i].qty
  <2>1. i \in Slots /\ b.slot[i] \in Order
    BY LiveOrder
  <2>2. d.slot[i].ref = b.slot[i].ref /\ d.slot[i].side = b.slot[i].side
        /\ d.slot[i].px = b.slot[i].px
        /\ d.slot[i].next = b.slot[i].next /\ d.slot[i].prev = b.slot[i].prev
        /\ d.slot[i].qty = IF i = h THEN b.slot[i].qty - q ELSE b.slot[i].qty
    BY <2>1 DEF Less, Order
  <2> QED
    BY <1>1, <2>2
<1>4. ASSUME NEW x \in Side, NEW y \in Ticks
      PROVE  OrdersAt(c, x, y) = OrdersAt(b, x, y)
  BY <1>1, <1>2, <1>3 DEF OrdersAt
<1> QED
  BY <1>1, <1>2, <1>3, <1>4

----------------------------------------------------------------------------
(* The id table.                                                           *)

LEMMA InsertIndexed ==
  ASSUME NEW b, Typed(b), Indexed(b), NEW h \in Slots \ b.live, NEW r \in Ref,
         b.id[r] = NullIndex, NEW s \in Side, NEW q \in Int, q > 0, NEW t \in Ticks
  PROVE  Indexed(Insert(b, h, r, s, q, t))
<1> DEFINE c == Insert(b, h, r, s, q, t)
<1>1. b.id \in [Ref -> Index] /\ c.id = [b.id EXCEPT ![r] = h] /\ NullIndex \notin Slots
  BY SlotAssumption DEF Insert, Typed, Book
<1>2. c.live = b.live \union {h} /\ c.slot[h].ref = r
      /\ \A i \in b.live : c.slot[i].ref = b.slot[i].ref
  BY InsertOrders
<1>3. ASSUME NEW x \in Ref, c.id[x] # NullIndex
      PROVE  c.id[x] \in c.live /\ c.slot[c.id[x]].ref = x
  BY <1>1, <1>2, <1>3 DEF Indexed
<1>4. ASSUME NEW i \in c.live
      PROVE  c.id[c.slot[i].ref] = i
  <2>1. \A j \in b.live : b.slot[j].ref \in Ref /\ b.slot[j].ref # r
    BY LiveOrder, SlotAssumption DEF Indexed
  <2> QED
    BY <1>1, <1>2, <2>1 DEF Indexed
<1> QED
  BY <1>3, <1>4 DEF Indexed

LEMMA DropIndexed ==
  ASSUME NEW b, Typed(b), Indexed(b), NEW h \in b.live
  PROVE  Indexed(Drop(b, h))
<1> DEFINE c == Drop(b, h)
<1>1. b.id \in [Ref -> Index] /\ c.id = [b.id EXCEPT ![b.slot[h].ref] = NullIndex]
  BY DropTyped DEF Erased, Typed, Book
<1>2. /\ c.live = b.live \ {h}
      /\ \A i \in b.live \ {h} : c.slot[i].ref = b.slot[i].ref
      /\ b.slot[h].ref \in Ref
  BY DropOrders, LiveOrder
<1>3. ASSUME NEW x \in Ref, c.id[x] # NullIndex
      PROVE  c.id[x] \in c.live /\ c.slot[c.id[x]].ref = x
  BY <1>1, <1>2, <1>3 DEF Indexed
<1>4. ASSUME NEW i \in c.live
      PROVE  c.id[c.slot[i].ref] = i
  BY <1>1, <1>2, LiveOrder DEF Indexed
<1> QED
  BY <1>3, <1>4 DEF Indexed

LEMMA ShrinkIndexed ==
  ASSUME NEW b, Typed(b), Indexed(b), NEW h \in b.live, NEW q \in Int, 0 < q, q < b.slot[h].qty
  PROVE  Indexed(Shrink(b, h, q))
BY ShrinkOrders DEF Indexed

----------------------------------------------------------------------------
(* The queues.                                                             *)

LEMMA InsertLevels ==
  ASSUME NEW b, Typed(b), NEW h \in Slots, NEW r \in Ref, NEW s \in Side,
         NEW q \in Int, NEW t \in Ticks
  PROVE  LET c == Insert(b, h, r, s, q, t)
         IN  /\ c.level[s][t].total = b.level[s][t].total + q
             /\ c.level[s][t].count = b.level[s][t].count + 1
             /\ c.level[s][t].tail = h
             /\ c.level[s][t].head = IF b.level[s][t].tail = NullIndex THEN h
                                     ELSE b.level[s][t].head
             /\ \A x \in Side, y \in Ticks :
                  ~(x = s /\ y = t) => c.level[x][y] = b.level[x][y]
BY DEF Insert, WithLevel

LEMMA InsertQueued ==
  ASSUME NEW b, Typed(b), NEW a \in [Slots -> SUBSET Slots], Queued(b, a),
         NEW h \in Slots \ b.live, NEW r \in Ref, NEW s \in Side,
         NEW q \in Int, q > 0, NEW t \in Ticks
  PROVE  LET c == Insert(b, h, r, s, q, t)
         IN  Queued(c, Joined(a, c, h)) /\ Joined(a, c, h) \in [Slots -> SUBSET Slots]
<1> DEFINE c == Insert(b, h, r, s, q, t)
           a2 == Joined(a, c, h)
           tl == b.level[s][t].tail
<1>1. /\ c.live = b.live \union {h}
      /\ c.slot[h].side = s /\ c.slot[h].px = t
      /\ c.slot[h].prev = tl /\ c.slot[h].next = NullIndex
  BY InsertOrders
<1>2. \A i \in b.live :
        /\ c.slot[i].side = b.slot[i].side /\ c.slot[i].px = b.slot[i].px
        /\ c.slot[i].prev = b.slot[i].prev
        /\ c.slot[i].next = IF i = tl THEN h ELSE b.slot[i].next
  BY InsertOrders
<1>3. \A x \in Side, y \in Ticks :
        OrdersAt(c, x, y) = IF x = s /\ y = t THEN OrdersAt(b, x, y) \union {h}
                            ELSE OrdersAt(b, x, y)
  BY InsertOrders
<1>4. /\ c.level[s][t].tail = h
      /\ c.level[s][t].head = IF tl = NullIndex THEN h ELSE b.level[s][t].head
      /\ \A x \in Side, y \in Ticks : ~(x = s /\ y = t) => c.level[x][y] = b.level[x][y]
  BY InsertLevels
<1>5. /\ a2[h] = OrdersAt(b, s, t)
      /\ \A i \in b.live : a2[i] = a[i]
      /\ a2 \in [Slots -> SUBSET Slots]
  <2>1. b.live \subseteq Slots
    BY DEF Typed, Book
  <2> QED
    BY <1>1, <1>2, <2>1 DEF Joined, OrdersAt
<1>6. NullIndex \notin b.live /\ h \notin b.live /\ h # NullIndex
  BY SlotAssumption DEF Typed, Book
<1>7. \A x \in Side, y \in Ticks : OrdersAt(b, x, y) \subseteq b.live
  BY DEF OrdersAt
<1>8. \A i \in b.live : i \in OrdersAt(b, b.slot[i].side, b.slot[i].px)
                        /\ b.slot[i].side \in Side /\ b.slot[i].px \in Ticks
  BY LiveOrder DEF OrdersAt
<1>9. IF tl = NullIndex THEN OrdersAt(b, s, t) = {}
      ELSE /\ tl \in OrdersAt(b, s, t) /\ b.slot[tl].next = NullIndex
           /\ OrdersAt(b, s, t) = a[tl] \union {tl}
  BY <1>6, <1>7 DEF Queued, Anchored
<1>10. \A x \in Side, y \in Ticks : \A i \in OrdersAt(b, x, y) :
         b.slot[i].side = x /\ b.slot[i].px = y
  BY DEF OrdersAt
<1> HIDE DEF c, a2, tl
<1>11. LinkedBack(c, a2, h) /\ LinkedOn(c, h) /\ a2[h] \subseteq OrdersAt(c, s, t) \ {h}
  BY <1>1, <1>2, <1>3, <1>4, <1>5, <1>6, <1>7, <1>9 DEF LinkedBack, LinkedOn
<1>12. ASSUME NEW i \in b.live
       PROVE  LinkedBack(c, a2, i)
  <2>1. LinkedBack(b, a, i)
    BY DEF Queued
  <2>2. CASE b.slot[i].prev = NullIndex
    <3>1. b.level[b.slot[i].side][b.slot[i].px].head = i /\ a[i] = {}
      BY <2>1, <2>2 DEF LinkedBack
    <3>2. c.level[b.slot[i].side][b.slot[i].px].head = i
      BY <3>1, <1>4, <1>8, <1>9
    <3> QED
      BY <3>1, <3>2, <2>2, <1>2, <1>5 DEF LinkedBack
  <2>3. CASE b.slot[i].prev # NullIndex
    <3>1. /\ b.slot[i].prev \in OrdersAt(b, b.slot[i].side, b.slot[i].px)
          /\ b.slot[b.slot[i].prev].next = i
          /\ a[i] = a[b.slot[i].prev] \union {b.slot[i].prev}
      BY <2>1, <2>3 DEF LinkedBack
    <3>2. b.slot[i].prev # tl
      BY <3>1, <1>6, <1>7, <1>8, <1>9
    <3> QED
      BY <3>1, <3>2, <2>3, <1>2, <1>3, <1>5, <1>7, <1>8 DEF LinkedBack
  <2> QED BY <2>2, <2>3
<1>13. ASSUME NEW i \in b.live
       PROVE  LinkedOn(c, i)
  <2>1. LinkedOn(b, i)
    BY DEF Queued
  <2>2. CASE i = tl
    <3>1. i \in OrdersAt(b, s, t) /\ b.slot[i].side = s /\ b.slot[i].px = t
      BY <2>2, <1>6, <1>9, <1>10
    <3>2. c.slot[i].next = h /\ c.slot[i].side = s /\ c.slot[i].px = t
      BY <2>2, <3>1, <1>2
    <3>3. h \in OrdersAt(c, s, t) /\ c.slot[h].prev = i
      BY <2>2, <1>1, <1>3
    <3> QED
      BY <3>2, <3>3, <1>6 DEF LinkedOn
  <2>3. CASE i # tl /\ b.slot[i].next = NullIndex
    <3>1. b.level[b.slot[i].side][b.slot[i].px].tail = i
      BY <2>1, <2>3 DEF LinkedOn
    <3>2. ~(b.slot[i].side = s /\ b.slot[i].px = t)
      BY <2>3, <3>1 DEF tl
    <3>3. c.level[b.slot[i].side][b.slot[i].px].tail = i
      BY <3>1, <3>2, <1>4, <1>8
    <3> QED
      BY <3>3, <2>3, <1>2 DEF LinkedOn
  <2>4. CASE i # tl /\ b.slot[i].next # NullIndex
    <3>1. /\ b.slot[i].next \in OrdersAt(b, b.slot[i].side, b.slot[i].px)
          /\ b.slot[b.slot[i].next].prev = i
      BY <2>1, <2>4 DEF LinkedOn
    <3>2. /\ c.slot[i].next = b.slot[i].next
          /\ c.slot[i].side = b.slot[i].side /\ c.slot[i].px = b.slot[i].px
          /\ c.slot[b.slot[i].next].prev = i
      BY <2>4, <3>1, <1>2, <1>7, <1>8
    <3>3. b.slot[i].next \in OrdersAt(c, b.slot[i].side, b.slot[i].px)
      BY <3>1, <1>3, <1>8
    <3> QED
      BY <2>4, <3>2, <3>3 DEF LinkedOn
  <2> QED BY <2>2, <2>3, <2>4
<1>14. ASSUME NEW i \in b.live
       PROVE  a2[i] \subseteq OrdersAt(c, c.slot[i].side, c.slot[i].px) \ {i}
  BY <1>2, <1>3, <1>5, <1>8 DEF Queued
<1>15. ASSUME NEW x \in Side, NEW y \in Ticks
       PROVE  Anchored(c, a2, x, y)
  <2>1. CASE x = s /\ y = t
    <3>1. OrdersAt(c, s, t) = OrdersAt(b, s, t) \union {h}
      BY <1>3
    <3>2. CASE tl = NullIndex
      BY <2>1, <3>1, <3>2, <1>1, <1>4, <1>5, <1>9 DEF Anchored
    <3>3. CASE tl # NullIndex
      <4>1. b.level[s][t].head \in OrdersAt(b, s, t) /\ b.slot[b.level[s][t].head].prev = NullIndex
        BY <3>3, <1>9 DEF Queued, Anchored
      <4> QED
        BY <2>1, <3>1, <3>3, <4>1, <1>1, <1>2, <1>4, <1>5, <1>7 DEF Anchored
    <3> QED BY <3>2, <3>3
  <2>2. CASE ~(x = s /\ y = t)
    <3>1. Anchored(b, a, x, y)
      BY DEF Queued
    <3>2. c.level[x][y] = b.level[x][y] /\ OrdersAt(c, x, y) = OrdersAt(b, x, y)
      BY <2>2, <1>3, <1>4
    <3>3. tl \notin OrdersAt(b, x, y)
      BY <2>2, <1>6, <1>7, <1>9, <1>10
    <3> QED
      BY <3>1, <3>2, <3>3, <1>2, <1>5, <1>7 DEF Anchored
  <2> QED BY <2>1, <2>2
<1>16. Queued(c, a2)
  BY <1>1, <1>11, <1>12, <1>13, <1>14, <1>15 DEF Queued
<1> QED
  BY <1>5, <1>16 DEF c, a2

LEMMA DropLevels ==
  ASSUME NEW b, Typed(b), NEW h \in b.live
  PROVE  LET c == Drop(b, h)
             o == b.slot[h]
             lv == b.level[o.side][o.px]
         IN  /\ c.level[o.side][o.px].total = lv.total - o.qty
             /\ c.level[o.side][o.px].count = lv.count - 1
             /\ c.level[o.side][o.px].head = IF o.prev = NullIndex THEN o.next ELSE lv.head
             /\ c.level[o.side][o.px].tail = IF o.next = NullIndex THEN o.prev ELSE lv.tail
             /\ \A x \in Side, y \in Ticks :
                  ~(x = o.side /\ y = o.px) => c.level[x][y] = b.level[x][y]
<1> DEFINE o == b.slot[h]
           lv == b.level[o.side][o.px]
<1>1. o.side \in Side /\ o.px \in Ticks
  BY LiveOrder
<1>2. Drop(b, h).level = WithLevel(b, o.side, o.px, Drained(lv, o))
  BY DropTyped DEF Rest
<1> HIDE DEF o, lv
<1>3. \A w : /\ WithLevel(b, o.side, o.px, w)[o.side][o.px] = w
            /\ \A x \in Side, y \in Ticks :
                 ~(x = o.side /\ y = o.px) => WithLevel(b, o.side, o.px, w)[x][y] = b.level[x][y]
  BY <1>1 DEF WithLevel
<1>4. /\ Drop(b, h).level[o.side][o.px] = Drained(lv, o)
      /\ \A x \in Side, y \in Ticks :
           ~(x = o.side /\ y = o.px) => Drop(b, h).level[x][y] = b.level[x][y]
  BY <1>2, <1>3
<1>5. /\ Drained(lv, o).total = lv.total - o.qty
      /\ Drained(lv, o).count = lv.count - 1
      /\ Drained(lv, o).head = IF o.prev = NullIndex THEN o.next ELSE lv.head
      /\ Drained(lv, o).tail = IF o.next = NullIndex THEN o.prev ELSE lv.tail
  BY DEF Drained
<1> QED
  BY <1>4, <1>5 DEF o, lv

LEMMA DropQueued ==
  ASSUME NEW b, Typed(b), NEW a \in [Slots -> SUBSET Slots], Queued(b, a),
         NEW h \in b.live
  PROVE  Queued(Drop(b, h), Left(a, h)) /\ Left(a, h) \in [Slots -> SUBSET Slots]
<1> DEFINE c == Drop(b, h)
           a2 == Left(a, h)
           p == b.slot[h].prev
           n == b.slot[h].next
           s == b.slot[h].side
           t == b.slot[h].px
<1>1. /\ c.live = b.live \ {h}
      /\ s \in Side /\ t \in Ticks
  BY DropOrders, LiveOrder
<1>2. \A i \in b.live \ {h} :
        /\ c.slot[i].side = b.slot[i].side /\ c.slot[i].px = b.slot[i].px
        /\ c.slot[i].next = IF i = p THEN n ELSE b.slot[i].next
        /\ c.slot[i].prev = IF i = n THEN p ELSE b.slot[i].prev
  BY DropOrders
<1>3. \A x \in Side, y \in Ticks : OrdersAt(c, x, y) = OrdersAt(b, x, y) \ {h}
  BY DropOrders
<1>4. /\ c.level[s][t].head = IF p = NullIndex THEN n ELSE b.level[s][t].head
      /\ c.level[s][t].tail = IF n = NullIndex THEN p ELSE b.level[s][t].tail
      /\ \A x \in Side, y \in Ticks : ~(x = s /\ y = t) => c.level[x][y] = b.level[x][y]
  BY DropLevels, ZenonT(30)
<1>5. /\ \A i \in b.live \ {h} : a2[i] = a[i] \ {h}
      /\ a2 \in [Slots -> SUBSET Slots]
  <2>1. b.live \subseteq Slots
    BY DEF Typed, Book
  <2> QED
    BY <2>1 DEF Left
<1>6. NullIndex \notin b.live
  BY SlotAssumption DEF Typed, Book
<1>7. \A x \in Side, y \in Ticks : \A i \in OrdersAt(b, x, y) :
        i \in b.live /\ b.slot[i].side = x /\ b.slot[i].px = y
  BY DEF OrdersAt
<1>8. \A i \in b.live : /\ i \in OrdersAt(b, b.slot[i].side, b.slot[i].px)
                        /\ b.slot[i].side \in Side /\ b.slot[i].px \in Ticks
  BY LiveOrder DEF OrdersAt
<1>9. \A i \in b.live : /\ b.slot[i].prev = NullIndex =>
                             /\ b.level[b.slot[i].side][b.slot[i].px].head = i
                             /\ a[i] = {}
                        /\ b.slot[i].prev # NullIndex =>
                             /\ b.slot[i].prev \in OrdersAt(b, b.slot[i].side, b.slot[i].px)
                             /\ b.slot[b.slot[i].prev].next = i
                             /\ a[i] = a[b.slot[i].prev] \union {b.slot[i].prev}
  <2>1. ASSUME NEW i \in b.live PROVE LinkedBack(b, a, i)
    BY DEF Queued
  <2> QED
    BY <2>1 DEF LinkedBack
<1>10. \A i \in b.live : /\ b.slot[i].next = NullIndex =>
                              b.level[b.slot[i].side][b.slot[i].px].tail = i
                         /\ b.slot[i].next # NullIndex =>
                              /\ b.slot[i].next \in OrdersAt(b, b.slot[i].side, b.slot[i].px)
                              /\ b.slot[b.slot[i].next].prev = i
  <2>1. ASSUME NEW i \in b.live PROVE LinkedOn(b, i)
    BY DEF Queued
  <2> QED
    BY <2>1 DEF LinkedOn
<1>11. \A x \in Side, y \in Ticks :
         /\ OrdersAt(b, x, y) = {} =>
              b.level[x][y].head = NullIndex /\ b.level[x][y].tail = NullIndex
         /\ OrdersAt(b, x, y) # {} =>
              /\ b.level[x][y].head \in OrdersAt(b, x, y)
              /\ b.slot[b.level[x][y].head].prev = NullIndex
              /\ b.level[x][y].tail \in OrdersAt(b, x, y)
              /\ b.slot[b.level[x][y].tail].next = NullIndex
              /\ OrdersAt(b, x, y) = a[b.level[x][y].tail] \union {b.level[x][y].tail}
  BY DEF Queued, Anchored
<1>12. \A i \in b.live : a[i] \subseteq OrdersAt(b, b.slot[i].side, b.slot[i].px) \ {i}
  BY DEF Queued
(* The neighbours of h, when it has them, are other orders of its level.   *)
<1>13. p # NullIndex => /\ p \in b.live \ {h} /\ p \in OrdersAt(b, s, t)
                        /\ b.slot[p].next = h /\ a[h] = a[p] \union {p}
  <2>1. p # NullIndex => /\ p \in OrdersAt(b, s, t) /\ b.slot[p].next = h
                         /\ a[h] = a[p] \union {p}
    BY <1>9
  <2>2. h \notin a[h]
    BY <1>12
  <2> HIDE DEF p, s, t
  <2> QED
    BY <2>1, <2>2, <1>1, <1>7
<1>14. n # NullIndex => /\ n \in b.live \ {h} /\ n \in OrdersAt(b, s, t)
                        /\ b.slot[n].prev = h /\ a[n] = a[h] \union {h}
  <2>1. n # NullIndex => n \in OrdersAt(b, s, t) /\ b.slot[n].prev = h
    BY <1>10
  <2>2. n # NullIndex => n # h
    BY <2>1, <1>6, <1>13
  <2>3. n # NullIndex => n \in b.live \ {h}
    BY <2>1, <2>2, <1>1, <1>7
  <2>4. n # NullIndex => a[n] = a[h] \union {h}
    BY <2>1, <2>3, <1>6, <1>9
  <2> QED
    BY <2>1, <2>3, <2>4
<1>15. a2[h] = {} /\ h \notin a[h]
  BY <1>12, <1>1 DEF Left, Typed, Book
<1>16. /\ \A i \in b.live \ {h} : b.slot[i].prev = h => i = n
       /\ \A i \in b.live \ {h} : b.slot[i].next = h => i = p
  BY <1>6, <1>9, <1>10
<1>17. p = NullIndex => a[h] = {} /\ b.level[s][t].head = h
  BY <1>9
<1>18. n = NullIndex => b.level[s][t].tail = h
  BY <1>10
<1> HIDE DEF c, a2, p, n, s, t
<1>19. ASSUME NEW i \in b.live \ {h}
       PROVE  LinkedBack(c, a2, i)
  <2>1. CASE i = n
    <3>1. c.slot[i].prev = p /\ c.slot[i].side = s /\ c.slot[i].px = t
      BY <2>1, <1>2, <1>6, <1>7, <1>14, <1>1
    <3>2. a[i] = a[h] \union {h} /\ a2[i] = a[h]
      <4>1. a[i] = a[h] \union {h} /\ a2[i] = a[i] \ {h}
        BY <2>1, <1>5, <1>6, <1>14
      <4>2. (a[h] \union {h}) \ {h} = a[h]
        BY <1>15
      <4> QED
        BY <4>1, <4>2
    <3>3. CASE p = NullIndex
      BY <2>1, <3>1, <3>2, <3>3, <1>4, <1>17 DEF LinkedBack
    <3>4. CASE p # NullIndex
      <4>1. p \in OrdersAt(c, s, t) /\ c.slot[p].next = i
        BY <2>1, <3>4, <1>1, <1>2, <1>3, <1>13
      <4>2. a2[i] = a2[p] \union {p}
        BY <3>2, <3>4, <1>5, <1>13, <1>15
      <4> QED
        BY <3>1, <3>4, <4>1, <4>2 DEF LinkedBack
    <3> QED BY <3>3, <3>4
  <2>2. CASE i # n
    <3>1. /\ c.slot[i].prev = b.slot[i].prev /\ c.slot[i].side = b.slot[i].side
          /\ c.slot[i].px = b.slot[i].px /\ b.slot[i].prev # h
      BY <2>2, <1>2, <1>16
    <3>2. CASE b.slot[i].prev = NullIndex
      <4>1. b.level[b.slot[i].side][b.slot[i].px].head = i /\ a2[i] = {}
        BY <3>2, <1>5, <1>9
      <4>2. c.level[b.slot[i].side][b.slot[i].px].head = i
        BY <4>1, <1>4, <1>8, <1>17
      <4> QED
        BY <3>1, <3>2, <4>1, <4>2 DEF LinkedBack
    <3>3. CASE b.slot[i].prev # NullIndex
      <4> DEFINE j == b.slot[i].prev
      <4>1. /\ j \in OrdersAt(b, b.slot[i].side, b.slot[i].px) /\ b.slot[j].next = i
            /\ a[i] = a[j] \union {j} /\ j \in b.live \ {h}
        BY <3>1, <3>3, <1>7, <1>8, <1>9, SMTT(30)
      <4>2. c.slot[j].next = i
        BY <4>1, <1>2, <1>6, <1>13
      <4>3. j \in OrdersAt(c, b.slot[i].side, b.slot[i].px)
        BY <4>1, <1>3, <1>8
      <4>4. a2[i] = a2[j] \union {j}
        BY <4>1, <1>5
      <4> QED
        BY <3>1, <3>3, <4>2, <4>3, <4>4 DEF LinkedBack
    <3> QED BY <3>2, <3>3
  <2> QED BY <2>1, <2>2
<1>20. ASSUME NEW i \in b.live \ {h}
       PROVE  LinkedOn(c, i)
  <2>1. CASE i = p
    <3>1. c.slot[i].next = n /\ c.slot[i].side = s /\ c.slot[i].px = t
      BY <2>1, <1>1, <1>2, <1>6, <1>7, <1>13
    <3>2. CASE n = NullIndex
      BY <2>1, <3>1, <3>2, <1>4 DEF LinkedOn
    <3>3. CASE n # NullIndex
      <4>1. n \in OrdersAt(c, s, t) /\ c.slot[n].prev = i
        BY <2>1, <3>3, <1>1, <1>2, <1>3, <1>14
      <4> QED
        BY <3>1, <3>3, <4>1 DEF LinkedOn
    <3> QED BY <3>2, <3>3
  <2>2. CASE i # p
    <3>1. /\ c.slot[i].next = b.slot[i].next /\ c.slot[i].side = b.slot[i].side
          /\ c.slot[i].px = b.slot[i].px /\ b.slot[i].next # h
      BY <2>2, <1>2, <1>16
    <3>2. CASE b.slot[i].next = NullIndex
      <4>1. b.level[b.slot[i].side][b.slot[i].px].tail = i
        BY <3>2, <1>10
      <4>2. c.level[b.slot[i].side][b.slot[i].px].tail = i
        BY <4>1, <1>4, <1>8, <1>18
      <4> QED
        BY <3>1, <3>2, <4>2 DEF LinkedOn
    <3>3. CASE b.slot[i].next # NullIndex
      <4> DEFINE j == b.slot[i].next
      <4>1. /\ j \in OrdersAt(b, b.slot[i].side, b.slot[i].px) /\ b.slot[j].prev = i
            /\ j \in b.live \ {h}
        BY <3>1, <3>3, <1>7, <1>8, <1>10
      <4>2. c.slot[j].prev = i
        BY <4>1, <1>2, <1>6, <1>14
      <4>3. j \in OrdersAt(c, b.slot[i].side, b.slot[i].px)
        BY <4>1, <1>3, <1>8
      <4> QED
        BY <3>1, <3>3, <4>2, <4>3 DEF LinkedOn
    <3> QED BY <3>2, <3>3
  <2> QED BY <2>1, <2>2
<1>21. ASSUME NEW i \in b.live \ {h}
       PROVE  a2[i] \subseteq OrdersAt(c, c.slot[i].side, c.slot[i].px) \ {i}
  BY <1>2, <1>3, <1>5, <1>8, <1>12
<1>22. ASSUME NEW x \in Side, NEW y \in Ticks
       PROVE  Anchored(c, a2, x, y)
  <2>1. CASE ~(x = s /\ y = t)
    <3>0. h \notin OrdersAt(b, x, y)
      BY <2>1, <1>7 DEF s, t
    <3>1. c.level[x][y] = b.level[x][y] /\ OrdersAt(c, x, y) = OrdersAt(b, x, y)
      <4>1. OrdersAt(b, x, y) \ {h} = OrdersAt(b, x, y)
        BY <3>0
      <4> QED
        BY <2>1, <4>1, <1>3, <1>4
    <3>2. p \notin OrdersAt(b, x, y) /\ n \notin OrdersAt(b, x, y)
      BY <2>1, <1>1, <1>6, <1>7, <1>13, <1>14
    <3>3. CASE OrdersAt(b, x, y) = {}
      BY <3>1, <3>3, <1>11 DEF Anchored
    <3>4. CASE OrdersAt(b, x, y) # {}
      <4> DEFINE hd == b.level[x][y].head
                 tl == b.level[x][y].tail
      <4>1. /\ hd \in OrdersAt(b, x, y) /\ b.slot[hd].prev = NullIndex
            /\ tl \in OrdersAt(b, x, y) /\ b.slot[tl].next = NullIndex
            /\ OrdersAt(b, x, y) = a[tl] \union {tl}
        BY <3>4, <1>11
      <4>2. hd \in b.live \ {h} /\ tl \in b.live \ {h}
        BY <4>1, <3>0, <1>7
      <4>3. c.slot[hd].prev = NullIndex /\ c.slot[tl].next = NullIndex
        BY <4>1, <4>2, <3>2, <1>2
      <4>4. a2[tl] = a[tl]
        <5>1. h \notin a[tl]
          BY <4>1, <3>0
        <5>2. a[tl] \ {h} = a[tl]
          BY <5>1
        <5> QED
          BY <5>2, <4>2, <1>5
      <4> QED
        BY <3>1, <4>1, <4>3, <4>4 DEF Anchored
    <3> QED BY <3>3, <3>4
  <2>2. CASE x = s /\ y = t
    <3>1. h \in OrdersAt(b, s, t) /\ OrdersAt(c, s, t) = OrdersAt(b, s, t) \ {h}
      BY <1>1, <1>3, <1>8 DEF s, t
    <3> DEFINE hd == b.level[s][t].head
               tl == b.level[s][t].tail
    <3>2. /\ hd \in OrdersAt(b, s, t) /\ b.slot[hd].prev = NullIndex
          /\ tl \in OrdersAt(b, s, t) /\ b.slot[tl].next = NullIndex
          /\ OrdersAt(b, s, t) = a[tl] \union {tl}
          /\ hd \in b.live /\ tl \in b.live
      BY <3>1, <1>1, <1>7, <1>11
    <3>3. CASE OrdersAt(c, s, t) = {}
      <4>1. p = NullIndex /\ n = NullIndex
        BY <3>1, <3>3, <1>13, <1>14
      <4> QED
        BY <2>2, <3>3, <4>1, <1>4 DEF Anchored
    <3>4. CASE OrdersAt(c, s, t) # {}
      <4>1. ~(p = NullIndex /\ n = NullIndex)
        BY <3>1, <3>2, <3>4, <1>17, <1>18
      <4>2. /\ c.level[s][t].head \in OrdersAt(c, s, t)
            /\ c.slot[c.level[s][t].head].prev = NullIndex
        <5>1. CASE p = NullIndex
          <6>1. c.level[s][t].head = n /\ n \in b.live \ {h} /\ n \in OrdersAt(b, s, t)
            BY <5>1, <4>1, <1>4, <1>14
          <6> QED
            BY <5>1, <6>1, <3>1, <1>2
        <5>2. CASE p # NullIndex
          <6>1. c.level[s][t].head = hd /\ hd # h /\ hd # n
            BY <5>2, <3>2, <1>4, <1>6, <1>14 DEF p
          <6> QED
            BY <6>1, <3>1, <3>2, <1>2
        <5> QED BY <5>1, <5>2
      <4>3. /\ c.level[s][t].tail \in OrdersAt(c, s, t)
            /\ c.slot[c.level[s][t].tail].next = NullIndex
            /\ OrdersAt(c, s, t) = a2[c.level[s][t].tail] \union {c.level[s][t].tail}
        <5>1. CASE n = NullIndex
          <6>1. /\ c.level[s][t].tail = p /\ p \in b.live \ {h} /\ p \in OrdersAt(b, s, t)
                /\ a[h] = a[p] \union {p}
            BY <5>1, <4>1, <1>4, <1>13
          <6>2. OrdersAt(b, s, t) = a[h] \union {h}
            BY <5>1, <3>2, <1>18
          <6>3. a2[p] = a[p] \ {h}
            BY <6>1, <1>5
          <6>4. OrdersAt(c, s, t) = a2[p] \union {p}
            BY <6>1, <6>2, <6>3, <3>1, <1>15
          <6>5. c.slot[p].next = NullIndex
            BY <5>1, <6>1, <1>2
          <6> QED
            BY <6>1, <6>4, <6>5, <3>1
        <5>2. CASE n # NullIndex
          <6>1. c.level[s][t].tail = tl /\ tl # h /\ tl # p
            BY <5>2, <3>2, <1>4, <1>6, <1>13 DEF n
          <6>2. c.slot[tl].next = NullIndex /\ a2[tl] = a[tl] \ {h}
            BY <6>1, <3>2, <1>2, <1>5
          <6> QED
            BY <6>1, <6>2, <3>1, <3>2
        <5> QED BY <5>1, <5>2
      <4> QED
        BY <2>2, <3>4, <4>2, <4>3 DEF Anchored
    <3> QED BY <3>3, <3>4
  <2> QED BY <2>1, <2>2
<1>23. Queued(c, a2)
  BY <1>1, <1>19, <1>20, <1>21, <1>22 DEF Queued
<1> QED
  BY <1>5, <1>23 DEF c, a2

LEMMA ShrinkQueued ==
  ASSUME NEW b, Typed(b), NEW a \in [Slots -> SUBSET Slots], Queued(b, a),
         NEW h \in b.live, NEW q \in Int, 0 < q, q < b.slot[h].qty
  PROVE  Queued(Shrink(b, h, q), a)
<1> DEFINE c == Shrink(b, h, q)
<1>1. /\ c.live = b.live
      /\ \A i \in b.live :
           /\ c.slot[i].side = b.slot[i].side /\ c.slot[i].px = b.slot[i].px
           /\ c.slot[i].next = b.slot[i].next /\ c.slot[i].prev = b.slot[i].prev
      /\ \A x \in Side, y \in Ticks : OrdersAt(c, x, y) = OrdersAt(b, x, y)
  BY ShrinkOrders
<1>2. \A x \in Side, y \in Ticks :
        /\ c.level[x][y].head = b.level[x][y].head
        /\ c.level[x][y].tail = b.level[x][y].tail
  <2>1. \A x \in Side, y \in Ticks : b.level[x][y] \in Level
    BY DEF Typed, Book
  <2> QED
    <3>1. c.level = Less(b, h, q).level
      BY ShrinkOrders
    <3>2. ASSUME NEW x \in Side, NEW y \in Ticks
          PROVE  /\ Less(b, h, q).level[x][y].head = b.level[x][y].head
                 /\ Less(b, h, q).level[x][y].tail = b.level[x][y].tail
      BY <2>1 DEF Less, WithLevel, Level
    <3> QED
      BY <3>1, <3>2
<1>3. \A x \in Side, y \in Ticks : OrdersAt(b, x, y) \subseteq b.live
  BY DEF OrdersAt
<1>4. \A i \in b.live : b.slot[i].side \in Side /\ b.slot[i].px \in Ticks
  BY LiveOrder
<1> HIDE DEF c
<1>5. ASSUME NEW i \in b.live
      PROVE  LinkedBack(c, a, i)
  <2>1. LinkedBack(b, a, i)
    BY DEF Queued
  <2> QED
    <3>1. /\ c.slot[i].side = b.slot[i].side /\ c.slot[i].px = b.slot[i].px
          /\ c.slot[i].prev = b.slot[i].prev
          /\ b.slot[i].side \in Side /\ b.slot[i].px \in Ticks
      BY <1>1, <1>4
    <3>2. CASE b.slot[i].prev = NullIndex
      BY <2>1, <3>1, <3>2, <1>2 DEF LinkedBack
    <3>3. CASE b.slot[i].prev # NullIndex
      <4>1. /\ b.slot[i].prev \in OrdersAt(b, b.slot[i].side, b.slot[i].px)
            /\ b.slot[b.slot[i].prev].next = i
            /\ a[i] = a[b.slot[i].prev] \union {b.slot[i].prev}
        BY <2>1, <3>3 DEF LinkedBack
      <4>2. /\ b.slot[i].prev \in OrdersAt(c, b.slot[i].side, b.slot[i].px)
            /\ c.slot[b.slot[i].prev].next = i
        BY <4>1, <3>1, <1>1, <1>3
      <4> QED
        BY <4>1, <4>2, <3>1, <3>3 DEF LinkedBack
    <3> QED BY <3>2, <3>3
<1>6. ASSUME NEW i \in b.live
      PROVE  LinkedOn(c, i)
  <2>1. LinkedOn(b, i)
    BY DEF Queued
  <2> QED
    <3>1. /\ c.slot[i].side = b.slot[i].side /\ c.slot[i].px = b.slot[i].px
          /\ c.slot[i].next = b.slot[i].next
          /\ b.slot[i].side \in Side /\ b.slot[i].px \in Ticks
      BY <1>1, <1>4
    <3>2. CASE b.slot[i].next = NullIndex
      BY <2>1, <3>1, <3>2, <1>2 DEF LinkedOn
    <3>3. CASE b.slot[i].next # NullIndex
      <4>1. /\ b.slot[i].next \in OrdersAt(b, b.slot[i].side, b.slot[i].px)
            /\ b.slot[b.slot[i].next].prev = i
        BY <2>1, <3>3 DEF LinkedOn
      <4>2. /\ b.slot[i].next \in OrdersAt(c, b.slot[i].side, b.slot[i].px)
            /\ c.slot[b.slot[i].next].prev = i
        BY <4>1, <3>1, <1>1, <1>3
      <4> QED
        BY <4>1, <4>2, <3>1, <3>3 DEF LinkedOn
    <3> QED BY <3>2, <3>3
<1>7. ASSUME NEW x \in Side, NEW y \in Ticks
      PROVE  Anchored(c, a, x, y)
  <2>1. Anchored(b, a, x, y)
    BY DEF Queued
  <2> QED
    <3>1. /\ OrdersAt(c, x, y) = OrdersAt(b, x, y)
          /\ c.level[x][y].head = b.level[x][y].head /\ c.level[x][y].tail = b.level[x][y].tail
      BY <1>1, <1>2
    <3> QED
      BY <2>1, <3>1, <1>1, <1>3, SMTT(30) DEF Anchored
<1>8. \A i \in b.live : a[i] \subseteq OrdersAt(c, c.slot[i].side, c.slot[i].px) \ {i}
  BY <1>1, <1>4 DEF Queued
<1> QED
  BY <1>1, <1>5, <1>6, <1>7, <1>8 DEF Queued, c

----------------------------------------------------------------------------
(* A book whose index and queues are sound, and what keeps it so.          *)

Sound(b, a) ==
  /\ Typed(b)
  /\ Indexed(b)
  /\ Queued(b, a)
  /\ a \in [Slots -> SUBSET Slots]

LEMMA AddAccepted ==
  ASSUME NEW b, Typed(b), NEW r \in Ref \union {ZeroRef}, NEW s \in Side,
         NEW q \in Int, NEW t \in Int, AddError(b, r, s, q, t) = "ok"
  PROVE  r \in Ref /\ b.id[r] = NullIndex /\ q > 0 /\ t \in Ticks
BY BandAssumption DEF AddError, Find, InBand, Ticks

LEMMA FoundLive ==
  ASSUME NEW b, Typed(b), Indexed(b), NEW r \in Ref, Find(b, r) # NullIndex
  PROVE  Find(b, r) \in b.live
BY DEF Find, Indexed

LEMMA InsertSound ==
  ASSUME NEW b, NEW a, Sound(b, a), NEW h \in Slots \ b.live,
         NEW r \in Ref, b.id[r] = NullIndex,
         NEW s \in Side, NEW q \in Int, q > 0, NEW t \in Ticks
  PROVE  LET c == Insert(b, h, r, s, q, t)
         IN  Sound(c, Joined(a, c, h))
BY InsertTyped, InsertIndexed, InsertQueued DEF Sound

LEMMA DropSound ==
  ASSUME NEW b, NEW a, Sound(b, a), NEW h \in b.live
  PROVE  Sound(Drop(b, h), Left(a, h))
BY DropTyped, DropIndexed, DropQueued DEF Sound

LEMMA ShrinkTyped ==
  ASSUME NEW b, Typed(b), NEW h \in b.live, NEW q \in Int, 0 < q, q < b.slot[h].qty
  PROVE  Typed(Shrink(b, h, q))
BY LessTyped

LEMMA ReduceSound ==
  ASSUME NEW b, NEW a, Sound(b, a), NEW h \in b.live,
         NEW q \in Int, 0 < q, q <= b.slot[h].qty
  PROVE  Sound(Reduce(b, h, q), IF q = b.slot[h].qty THEN Left(a, h) ELSE a)
<1>1. CASE q = b.slot[h].qty
  BY <1>1, DropSound DEF Reduce
<1>2. CASE q # b.slot[h].qty
  <2>1. q < b.slot[h].qty
    BY <1>2, LiveOrder DEF Sound
  <2> QED
    BY <1>2, <2>1, ShrinkTyped, ShrinkIndexed, ShrinkQueued DEF Sound, Reduce
<1> QED
  BY <1>1, <1>2

----------------------------------------------------------------------------
(* Shares and their number.                                                *)

Held(h, n) == {h} \X (1 .. n)

(* The shares at a level but those of one order.                           *)
SharesBut(b, s, t, h) ==
  UNION {{i} \X (1 .. b.slot[i].qty) : i \in OrdersAt(b, s, t) \ {h}}

LEMMA HeldCount ==
  ASSUME NEW h, NEW n \in Nat
  PROVE  IsFiniteSet(Held(h, n)) /\ Cardinality(Held(h, n)) = n
<1>1. IsFiniteSet({h}) /\ Cardinality({h}) = 1
  BY FS_Singleton
<1>2. IsFiniteSet(1 .. n) /\ Cardinality(1 .. n) = n
  BY FS_Interval
<1> DEFINE S == {h}
           T == 1 .. n
<1>3. Held(h, n) = S \X T
  BY DEF Held
<1> HIDE DEF S, T
<1>4. IsFiniteSet(S) /\ IsFiniteSet(T) /\ Cardinality(S) = 1 /\ Cardinality(T) = n
  BY <1>1, <1>2 DEF S, T
<1>5. IsFiniteSet(S \X T) /\ Cardinality(S \X T) = Cardinality(S) * Cardinality(T)
  BY <1>4, FS_Product
<1>6. Cardinality(S \X T) = n
  <2>1. 1 * n = n
    OBVIOUS
  <2> QED
    BY <1>4, <1>5, <2>1, Zenon
<1> QED
  BY <1>3, <1>5, <1>6

LEMMA SharesSplit ==
  ASSUME NEW b, NEW s, NEW t, NEW h \in OrdersAt(b, s, t)
  PROVE  /\ Shares(b, s, t) = SharesBut(b, s, t, h) \union Held(h, b.slot[h].qty)
         /\ SharesBut(b, s, t, h) \intersect Held(h, b.slot[h].qty) = {}
<1>1. ASSUME NEW p \in Shares(b, s, t)
      PROVE  p \in SharesBut(b, s, t, h) \union Held(h, b.slot[h].qty)
  <2>1. PICK i \in OrdersAt(b, s, t) : p \in {i} \X (1 .. b.slot[i].qty)
    BY DEF Shares
  <2> QED
    BY <2>1 DEF SharesBut, Held
<1>2. SharesBut(b, s, t, h) \subseteq Shares(b, s, t)
  BY DEF SharesBut, Shares
<1>3. Held(h, b.slot[h].qty) \subseteq Shares(b, s, t)
  BY DEF Held, Shares
<1>4. ASSUME NEW p \in SharesBut(b, s, t, h) PROVE p \notin Held(h, b.slot[h].qty)
  <2>1. PICK i \in OrdersAt(b, s, t) \ {h} : p \in {i} \X (1 .. b.slot[i].qty)
    BY DEF SharesBut
  <2>2. p[1] = i
    BY <2>1
  <2>3. p \in Held(h, b.slot[h].qty) => p[1] = h
    BY DEF Held
  <2> QED
    BY <2>1, <2>2, <2>3
<1> QED
  BY <1>1, <1>2, <1>3, <1>4

LEMMA SharesCount ==
  ASSUME NEW b, NEW s, NEW t, NEW h \in OrdersAt(b, s, t), b.slot[h].qty \in Nat,
         IsFiniteSet(SharesBut(b, s, t, h))
  PROVE  /\ IsFiniteSet(Shares(b, s, t))
         /\ Cardinality(Shares(b, s, t)) = Cardinality(SharesBut(b, s, t, h)) + b.slot[h].qty
         /\ Cardinality(SharesBut(b, s, t, h)) \in Nat
<1> DEFINE S == SharesBut(b, s, t, h)
           T == Held(h, b.slot[h].qty)
<1>1. IsFiniteSet(T) /\ Cardinality(T) = b.slot[h].qty
  BY HeldCount
<1>2. Shares(b, s, t) = S \union T /\ S \intersect T = {}
  BY SharesSplit
<1>3. IsFiniteSet(S) /\ Cardinality(S) \in Nat
  BY FS_CardinalityType
<1> HIDE DEF S, T
<1>4. /\ IsFiniteSet(S \union T)
      /\ Cardinality(S \union T) = Cardinality(S) + Cardinality(T) - Cardinality(S \intersect T)
  BY <1>1, <1>3, FS_Union
<1>5. Cardinality(S \intersect T) = 0
  BY <1>2, FS_EmptySet
<1> QED
  BY <1>1, <1>2, <1>3, <1>4, <1>5 DEF S

LEMMA SharesButSame ==
  ASSUME NEW b, NEW c, NEW s, NEW t, NEW h,
         OrdersAt(c, s, t) \ {h} = OrdersAt(b, s, t) \ {h},
         \A i \in OrdersAt(b, s, t) \ {h} : c.slot[i].qty = b.slot[i].qty
  PROVE  SharesBut(c, s, t, h) = SharesBut(b, s, t, h)
BY DEF SharesBut

LEMMA SharesSame ==
  ASSUME NEW b, NEW c, NEW s, NEW t,
         OrdersAt(c, s, t) = OrdersAt(b, s, t),
         \A i \in OrdersAt(b, s, t) : c.slot[i].qty = b.slot[i].qty
  PROVE  Shares(c, s, t) = Shares(b, s, t)
BY DEF Shares

LEMMA SharesAbsent ==
  ASSUME NEW b, NEW s, NEW t, NEW h, h \notin OrdersAt(b, s, t)
  PROVE  SharesBut(b, s, t, h) = Shares(b, s, t)
<1>1. OrdersAt(b, s, t) \ {h} = OrdersAt(b, s, t)
  OBVIOUS
<1> QED
  BY <1>1 DEF SharesBut, Shares

----------------------------------------------------------------------------
(* The aggregates.                                                         *)

Finite(b) ==
  /\ \A s \in Side, t \in Ticks : IsFiniteSet(Shares(b, s, t))
  /\ \A s \in Side : IsFiniteSet(b.page[s])

LEMMA OrdersFinite ==
  ASSUME NEW b, Typed(b), NEW s, NEW t
  PROVE  IsFiniteSet(OrdersAt(b, s, t)) /\ Cardinality(OrdersAt(b, s, t)) \in Nat
<1>1. OrdersAt(b, s, t) \in SUBSET Slots
  BY DEF OrdersAt, Typed, Book
<1>2. IsFiniteSet(OrdersAt(b, s, t))
  BY <1>1, SlotAssumption, FS_Subset
<1> QED
  BY <1>2, FS_CardinalityType

(* One more order, one order less, or fewer shares in one order: what the  *)
(* shares and orders at its level become, and that other levels keep       *)
(* theirs.                                                                 *)
LEMMA InsertCounts ==
  ASSUME NEW b, Typed(b), Finite(b), NEW h \in Slots \ b.live, NEW r \in Ref, NEW s \in Side,
         NEW q \in Int, q > 0, NEW t \in Ticks
  PROVE  LET c == Insert(b, h, r, s, q, t)
         IN  \A x \in Side, y \in Ticks :
               /\ IsFiniteSet(Shares(c, x, y))
               /\ Cardinality(Shares(c, x, y)) =
                    IF x = s /\ y = t THEN Cardinality(Shares(b, x, y)) + q
                    ELSE Cardinality(Shares(b, x, y))
               /\ Cardinality(OrdersAt(c, x, y)) =
                    IF x = s /\ y = t THEN Cardinality(OrdersAt(b, x, y)) + 1
                    ELSE Cardinality(OrdersAt(b, x, y))
<1> DEFINE c == Insert(b, h, r, s, q, t)
<1>1. /\ c.slot[h].qty = q
      /\ \A i \in b.live : c.slot[i].qty = b.slot[i].qty
      /\ \A x \in Side, y \in Ticks :
           OrdersAt(c, x, y) = IF x = s /\ y = t THEN OrdersAt(b, x, y) \union {h}
                               ELSE OrdersAt(b, x, y)
  BY InsertOrders
<1> HIDE DEF c
<1>2. \A x, y : OrdersAt(b, x, y) \subseteq b.live
  BY DEF OrdersAt
<1>3. ASSUME NEW x \in Side, NEW y \in Ticks, ~(x = s /\ y = t)
      PROVE  OrdersAt(c, x, y) = OrdersAt(b, x, y) /\ Shares(c, x, y) = Shares(b, x, y)
  <2>1. OrdersAt(c, x, y) = OrdersAt(b, x, y)
    BY <1>1, <1>3
  <2>2. \A i \in OrdersAt(b, x, y) : c.slot[i].qty = b.slot[i].qty
    BY <1>1, <1>2
  <2> QED
    BY <2>1, <2>2, SharesSame
<1>4. OrdersAt(c, s, t) = OrdersAt(b, s, t) \union {h} /\ h \notin OrdersAt(b, s, t)
  BY <1>1, <1>2
<1>5. SharesBut(c, s, t, h) = Shares(b, s, t)
  <2>1. OrdersAt(c, s, t) \ {h} = OrdersAt(b, s, t) \ {h}
    BY <1>4
  <2>2. \A i \in OrdersAt(b, s, t) \ {h} : c.slot[i].qty = b.slot[i].qty
    BY <1>1, <1>2
  <2> QED
    BY <1>4, <2>1, <2>2, SharesButSame, SharesAbsent
<1>6. /\ IsFiniteSet(Shares(c, s, t))
      /\ Cardinality(Shares(c, s, t)) = Cardinality(Shares(b, s, t)) + q
  <2>1. h \in OrdersAt(c, s, t) /\ c.slot[h].qty \in Nat
    BY <1>1, <1>4
  <2>2. IsFiniteSet(SharesBut(c, s, t, h))
    BY <1>5 DEF Finite
  <2> QED
    BY <1>1, <1>5, <2>1, <2>2, SharesCount
<1>7. Cardinality(OrdersAt(c, s, t)) = Cardinality(OrdersAt(b, s, t)) + 1
  BY <1>4, OrdersFinite, FS_AddElement
<1> QED
  BY <1>3, <1>6, <1>7 DEF Finite, c

LEMMA DropCounts ==
  ASSUME NEW b, Typed(b), Finite(b), NEW h \in b.live
  PROVE  LET c == Drop(b, h)
             o == b.slot[h]
         IN  \A x \in Side, y \in Ticks :
               /\ IsFiniteSet(Shares(c, x, y))
               /\ Cardinality(Shares(c, x, y)) =
                    IF x = o.side /\ y = o.px THEN Cardinality(Shares(b, x, y)) - o.qty
                    ELSE Cardinality(Shares(b, x, y))
               /\ Cardinality(OrdersAt(c, x, y)) =
                    IF x = o.side /\ y = o.px THEN Cardinality(OrdersAt(b, x, y)) - 1
                    ELSE Cardinality(OrdersAt(b, x, y))
<1> DEFINE c == Drop(b, h)
           s == b.slot[h].side
           t == b.slot[h].px
<1>1. /\ \A i \in b.live \ {h} : c.slot[i].qty = b.slot[i].qty
      /\ \A x \in Side, y \in Ticks : OrdersAt(c, x, y) = OrdersAt(b, x, y) \ {h}
  BY DropOrders
<1>2. s \in Side /\ t \in Ticks /\ b.slot[h].qty \in Nat
  BY LiveOrder
<1>3. h \in OrdersAt(b, s, t) /\ \A x, y : OrdersAt(b, x, y) \subseteq b.live
  BY DEF OrdersAt
<1>4. \A x, y : ~(x = s /\ y = t) => h \notin OrdersAt(b, x, y)
  BY DEF OrdersAt
<1> HIDE DEF c, s, t
<1>5. ASSUME NEW x \in Side, NEW y \in Ticks, ~(x = s /\ y = t)
      PROVE  OrdersAt(c, x, y) = OrdersAt(b, x, y) /\ Shares(c, x, y) = Shares(b, x, y)
  <2>1. OrdersAt(c, x, y) = OrdersAt(b, x, y)
    <3>1. OrdersAt(c, x, y) = OrdersAt(b, x, y) \ {h}
      BY <1>1
    <3>2. h \notin OrdersAt(b, x, y)
      BY <1>4, <1>5
    <3> QED
      BY <3>1, <3>2
  <2>2. \A i \in OrdersAt(b, x, y) : c.slot[i].qty = b.slot[i].qty
    BY <1>1, <1>3, <1>4, <1>5
  <2> QED
    BY <2>1, <2>2, SharesSame
<1>6. SharesBut(b, s, t, h) = Shares(c, s, t)
  <2>1. OrdersAt(c, s, t) \ {h} = OrdersAt(b, s, t) \ {h} /\ h \notin OrdersAt(c, s, t)
    BY <1>1, <1>2
  <2>2. \A i \in OrdersAt(b, s, t) \ {h} : c.slot[i].qty = b.slot[i].qty
    BY <1>1, <1>3
  <2> QED
    BY <2>1, <2>2, SharesButSame, SharesAbsent
<1>7. /\ IsFiniteSet(Shares(c, s, t))
      /\ Cardinality(Shares(b, s, t)) = Cardinality(Shares(c, s, t)) + b.slot[h].qty
      /\ Cardinality(Shares(c, s, t)) \in Nat
  <2>1. SharesBut(b, s, t, h) \in SUBSET Shares(b, s, t)
    BY <1>3, SharesSplit
  <2>2. IsFiniteSet(SharesBut(b, s, t, h))
    BY <1>2, <2>1, FS_Subset DEF Finite
  <2> QED
    BY <1>2, <1>3, <1>6, <2>2, SharesCount
<1>8. Cardinality(OrdersAt(c, s, t)) = Cardinality(OrdersAt(b, s, t)) - 1
  BY <1>1, <1>2, <1>3, OrdersFinite, FS_RemoveElement
<1>9. Cardinality(Shares(c, s, t)) = Cardinality(Shares(b, s, t)) - b.slot[h].qty
  BY <1>2, <1>7
<1> QED
  BY <1>5, <1>7, <1>8, <1>9 DEF Finite, c, s, t

LEMMA ShrinkCounts ==
  ASSUME NEW b, Typed(b), Finite(b), NEW h \in b.live, NEW q \in Int, 0 < q, q < b.slot[h].qty
  PROVE  LET c == Shrink(b, h, q)
             o == b.slot[h]
         IN  \A x \in Side, y \in Ticks :
               /\ IsFiniteSet(Shares(c, x, y))
               /\ Cardinality(Shares(c, x, y)) =
                    IF x = o.side /\ y = o.px THEN Cardinality(Shares(b, x, y)) - q
                    ELSE Cardinality(Shares(b, x, y))
               /\ OrdersAt(c, x, y) = OrdersAt(b, x, y)
<1> DEFINE c == Shrink(b, h, q)
           s == b.slot[h].side
           t == b.slot[h].px
<1>1. /\ \A i \in b.live : c.slot[i].qty = IF i = h THEN b.slot[i].qty - q ELSE b.slot[i].qty
      /\ \A x \in Side, y \in Ticks : OrdersAt(c, x, y) = OrdersAt(b, x, y)
  BY ShrinkOrders
<1>2. s \in Side /\ t \in Ticks /\ b.slot[h].qty \in Nat /\ b.slot[h].qty - q \in Nat
  BY LiveOrder
<1>3. h \in OrdersAt(b, s, t) /\ \A x, y : OrdersAt(b, x, y) \subseteq b.live
  BY DEF OrdersAt
<1>4. \A x, y : ~(x = s /\ y = t) => h \notin OrdersAt(b, x, y)
  BY DEF OrdersAt
<1> HIDE DEF c, s, t
<1>5. ASSUME NEW x \in Side, NEW y \in Ticks, ~(x = s /\ y = t)
      PROVE  Shares(c, x, y) = Shares(b, x, y)
  <2>1. OrdersAt(c, x, y) = OrdersAt(b, x, y)
    BY <1>1
  <2>2. \A i \in OrdersAt(b, x, y) : c.slot[i].qty = b.slot[i].qty
    BY <1>1, <1>3, <1>4, <1>5
  <2> QED
    BY <2>1, <2>2, SharesSame
<1>6. SharesBut(c, s, t, h) = SharesBut(b, s, t, h)
  <2>1. OrdersAt(c, s, t) \ {h} = OrdersAt(b, s, t) \ {h}
    BY <1>1, <1>2
  <2>2. \A i \in OrdersAt(b, s, t) \ {h} : c.slot[i].qty = b.slot[i].qty
    BY <1>1, <1>3
  <2> QED
    BY <2>1, <2>2, SharesButSame
<1>7. IsFiniteSet(SharesBut(b, s, t, h))
  <2>1. SharesBut(b, s, t, h) \in SUBSET Shares(b, s, t)
    BY <1>3, SharesSplit
  <2> QED
    BY <1>2, <2>1, FS_Subset DEF Finite
<1>8. /\ Cardinality(Shares(b, s, t)) = Cardinality(SharesBut(b, s, t, h)) + b.slot[h].qty
      /\ Cardinality(SharesBut(b, s, t, h)) \in Nat
  BY <1>2, <1>3, <1>7, SharesCount
<1>9. /\ IsFiniteSet(Shares(c, s, t))
      /\ Cardinality(Shares(c, s, t)) = Cardinality(SharesBut(b, s, t, h)) + (b.slot[h].qty - q)
  <2>1. h \in OrdersAt(c, s, t) /\ c.slot[h].qty = b.slot[h].qty - q
    BY <1>1, <1>2, <1>3
  <2> QED
    BY <1>2, <1>6, <1>7, <2>1, SharesCount
<1>10. Cardinality(Shares(c, s, t)) = Cardinality(Shares(b, s, t)) - q
  BY <1>2, <1>8, <1>9
<1> QED
  BY <1>1, <1>5, <1>9, <1>10 DEF Finite, c, s, t

----------------------------------------------------------------------------
(* What the ladders and the cached prices hold of a book.                  *)

LevelsSound(b) == Typed(b) /\ Finite(b) /\ Aggregated(b) /\ BestCached(b) /\ Paged(b)

(* A level has quantity exactly when it has orders.                        *)
LEMMA OccupiedPrices ==
  ASSUME NEW b, Typed(b), Finite(b), Aggregated(b), NEW s \in Side
  PROVE  Occupied(b, s) = PricesOf(b, s) /\ PricesOf(b, s) \subseteq Ticks
<1>1. PricesOf(b, s) \subseteq Ticks
  BY DEF PricesOf, Typed
<1>2. ASSUME NEW t \in Ticks
      PROVE  b.level[s][t].total # 0 <=> OrdersAt(b, s, t) # {}
  <2>1. b.level[s][t].total # 0 <=> Shares(b, s, t) # {}
    BY FS_EmptySet DEF Aggregated, Finite
  <2>2. ASSUME NEW h \in OrdersAt(b, s, t) PROVE <<h, 1>> \in Shares(b, s, t)
    <3>1. h \in b.live
      BY DEF OrdersAt
    <3>2. 1 \in 1 .. b.slot[h].qty
      BY <3>1, LiveOrder
    <3>3. <<h, 1>> \in {h} \X (1 .. b.slot[h].qty)
      BY <3>2
    <3> QED
      BY <3>3 DEF Shares
  <2>3. Shares(b, s, t) # {} => OrdersAt(b, s, t) # {}
    BY DEF Shares
  <2> QED
    BY <2>1, <2>2, <2>3
<1>3. \A t \in Ticks : t \in PricesOf(b, s) <=> OrdersAt(b, s, t) # {}
  BY DEF PricesOf, OrdersAt
<1> QED
  BY <1>1, <1>2, <1>3 DEF Occupied

LEMMA EmptyLevels == LevelsSound(EmptyBook)
<1>1. Typed(EmptyBook)
  <2>1. FreeSlot \in Order /\ EmptyLevel \in Level
    BY DEF FreeSlot, EmptyLevel, Order, Level, Side, Index
  <2> QED
    BY <2>1 DEF Typed, EmptyBook, Book, Index
<1>2. \A s, t : OrdersAt(EmptyBook, s, t) = {} /\ Shares(EmptyBook, s, t) = {}
  <2>1. \A s, t : OrdersAt(EmptyBook, s, t) = {}
    BY DEF OrdersAt, EmptyBook
  <2> QED
    BY <2>1 DEF Shares
<1>3. Finite(EmptyBook)
  BY <1>2, FS_EmptySet DEF Finite, EmptyBook
<1>4. Aggregated(EmptyBook)
  BY <1>2, FS_EmptySet DEF Aggregated, EmptyBook, EmptyLevel
<1>5. BestCached(EmptyBook)
  <2>1. \A s \in Side : PricesOf(EmptyBook, s) = {}
    BY DEF PricesOf, EmptyBook
  <2> QED
    BY <2>1 DEF BestCached, EmptyBook, BestIn
<1>6. Paged(EmptyBook)
  BY PageAssumption, FS_EmptySet DEF Paged, EmptyBook
<1> QED
  BY <1>1, <1>3, <1>4, <1>5, <1>6 DEF LevelsSound

LEMMA InsertLevelsSound ==
  ASSUME NEW b, LevelsSound(b), NEW h \in Slots \ b.live, NEW r \in Ref, NEW s \in Side,
         NEW q \in Int, q > 0, NEW t \in Ticks, Claimable(b, s, t)
  PROVE  LevelsSound(Insert(b, h, r, s, q, t))
<1> DEFINE c == Insert(b, h, r, s, q, t)
<1>1. Typed(b) /\ Finite(b) /\ Aggregated(b) /\ BestCached(b) /\ Paged(b) /\ b \in Book
  BY DEF LevelsSound, Typed
<1>2. Typed(c)
  BY <1>1, InsertTyped
<1>3. \A x \in Side, y \in Ticks :
        /\ IsFiniteSet(Shares(c, x, y))
        /\ Cardinality(Shares(c, x, y)) =
             IF x = s /\ y = t THEN Cardinality(Shares(b, x, y)) + q
             ELSE Cardinality(Shares(b, x, y))
        /\ Cardinality(OrdersAt(c, x, y)) =
             IF x = s /\ y = t THEN Cardinality(OrdersAt(b, x, y)) + 1
             ELSE Cardinality(OrdersAt(b, x, y))
  BY <1>1, InsertCounts
<1>4. /\ c.level[s][t].total = b.level[s][t].total + q
      /\ c.level[s][t].count = b.level[s][t].count + 1
      /\ \A x \in Side, y \in Ticks : ~(x = s /\ y = t) => c.level[x][y] = b.level[x][y]
  <2>1. h \in Slots /\ Typed(b)
    BY <1>1
  <2>2. c.level[s][t].total = b.level[s][t].total + q
    BY <2>1, InsertLevels
  <2>3. c.level[s][t].count = b.level[s][t].count + 1
    BY <2>1, InsertLevels
  <2>4. \A x \in Side, y \in Ticks : ~(x = s /\ y = t) => c.level[x][y] = b.level[x][y]
    BY <2>1, InsertLevels
  <2> QED
    BY <2>2, <2>3, <2>4
<1>5. /\ c.live = b.live \union {h} /\ c.slot[h].side = s /\ c.slot[h].px = t
      /\ \A i \in b.live : c.slot[i].side = b.slot[i].side /\ c.slot[i].px = b.slot[i].px
  BY <1>1, InsertOrders
<1>6. /\ c.page = [b.page EXCEPT ![s] = @ \union {Page(t)}]
      /\ c.best = [b.best EXCEPT ![s] = IF @ = NoTick \/ Better(s, t, @) THEN t ELSE @]
  BY DEF Insert
<1>7. b.page \in [Side -> SUBSET Pages] /\ b.best \in [Side -> Ticks \union {NoTick}]
  BY <1>1 DEF Book
<1> HIDE DEF c
<1>8. Aggregated(c)
  BY <1>1, <1>3, <1>4 DEF Aggregated
<1>9. \A x \in Side : c.page[x] = IF x = s THEN b.page[x] \union {Page(t)} ELSE b.page[x]
  BY <1>6, <1>7
<1>10. Finite(c)
  <2>1. ASSUME NEW x \in Side PROVE IsFiniteSet(c.page[x])
    <3>1. IsFiniteSet(b.page[x])
      BY <1>1 DEF Finite
    <3>2. IsFiniteSet(b.page[x] \union {Page(t)})
      BY <3>1, FS_AddElement
    <3> QED
      BY <1>9, <3>1, <3>2
  <2> QED
    BY <1>3, <2>1 DEF Finite
<1>11. BestCached(c)
  <2> SUFFICES ASSUME NEW x \in Side PROVE c.best[x] = BestIn(x, PricesOf(c, x))
    BY DEF BestCached
  <2>1. PricesOf(b, x) \subseteq Ticks /\ PricesOf(c, x) \subseteq Ticks
    BY <1>1, <1>2, <1>8, <1>10, OccupiedPrices
  <2>2. b.best[x] = BestIn(x, PricesOf(b, x))
    BY <1>1 DEF BestCached
  <2>3. CASE x # s
    <3>1. PricesOf(c, x) = PricesOf(b, x)
      BY <1>5, <2>3 DEF PricesOf
    <3> QED
      BY <1>6, <1>7, <2>2, <2>3, <3>1
  <2>4. CASE x = s
    <3>1. PricesOf(c, s) = PricesOf(b, s) \union {t}
      BY <1>5 DEF PricesOf
    <3>2. c.best[s] = IF b.best[s] = NoTick \/ Better(s, t, b.best[s]) THEN t ELSE b.best[s]
      BY <1>6, <1>7
    <3>3. CASE PricesOf(b, s) = {}
      <4>1. b.best[s] = NoTick
        BY <2>2, <2>4, <3>3, BestInProperties
      <4>2. BestIn(s, PricesOf(c, s)) = t
        <5>1. ~Better(s, t, t)
          BY TicksInt DEF Better
        <5> QED
          BY <2>1, <2>4, <3>1, <3>3, <5>1, BestUnique
      <4> QED
        BY <2>4, <3>2, <4>1, <4>2
    <3>4. CASE PricesOf(b, s) # {}
      <4> DEFINE m == b.best[s]
      <4>1. m \in PricesOf(b, s) /\ \A y \in PricesOf(b, s) : ~Better(s, y, m)
        BY <2>1, <2>2, <2>4, <3>4, BestInProperties
      <4>2. m \in Ticks /\ m # NoTick /\ m \in Int /\ t \in Int
        BY <2>1, <2>4, <4>1, NoTickApart, TicksInt
      <4> HIDE DEF m
      <4>3. CASE Better(s, t, m)
        <5>1. \A y \in PricesOf(c, s) : y \in Int
          BY <2>1, <2>4, TicksInt
        <5>2. \A y \in PricesOf(c, s) : ~Better(s, y, t)
          BY <3>1, <4>1, <4>2, <4>3, <5>1 DEF Better
        <5>3. BestIn(s, PricesOf(c, s)) = t
          BY <2>1, <2>4, <3>1, <5>2, BestUnique
        <5> QED
          BY <2>4, <3>2, <4>3, <5>3 DEF m
      <4>4. CASE ~Better(s, t, m)
        <5>1. \A y \in PricesOf(c, s) : ~Better(s, y, m)
          BY <3>1, <4>1, <4>4
        <5>2. BestIn(s, PricesOf(c, s)) = m
          BY <2>1, <2>4, <3>1, <4>1, <5>1, BestUnique
        <5> QED
          BY <2>4, <3>2, <4>2, <4>4, <5>2 DEF m
      <4> QED
        BY <4>3, <4>4
    <3> QED
      BY <3>3, <3>4
  <2> QED
    BY <2>3, <2>4
<1>12. Paged(c)
  <2>1. ASSUME NEW x \in Side PROVE Cardinality(c.page[x]) <= PagePool
    <3>1. CASE x # s
      BY <1>1, <1>9, <3>1 DEF Paged
    <3>2. CASE x = s /\ Page(t) \in b.page[s]
      <4>1. c.page[s] = b.page[s]
        BY <1>9, <3>2
      <4> QED
        BY <1>1, <3>2, <4>1 DEF Paged
    <3>3. CASE x = s /\ Page(t) \notin b.page[s]
      <4>1. Cardinality(b.page[s]) < PagePool
        BY <3>3 DEF Claimable
      <4>2. /\ IsFiniteSet(b.page[s]) /\ Cardinality(b.page[s]) \in Nat
            /\ Cardinality(c.page[s]) = Cardinality(b.page[s]) + 1
        <5>1. IsFiniteSet(b.page[s]) /\ c.page[s] = b.page[s] \union {Page(t)}
          BY <1>1, <1>9 DEF Finite
        <5> QED
          BY <3>3, <5>1, FS_AddElement, FS_CardinalityType
      <4> QED
        BY <3>3, <4>1, <4>2, PageAssumption
    <3> QED
      BY <3>1, <3>2, <3>3
  <2>2. \A i \in c.live : Page(c.slot[i].px) \in c.page[c.slot[i].side]
    BY <1>1, <1>5, <1>9, LiveOrder, ZenonT(30) DEF Paged
  <2> QED
    BY <2>1, <2>2 DEF Paged
<1> QED
  BY <1>2, <1>8, <1>10, <1>11, <1>12 DEF LevelsSound, c

(* What remains of a book after shares left side s at tick t: the best     *)
(* price of that side is searched for again only when the level they left  *)
(* was the best one and is empty.                                          *)
LEMMA RefillBest ==
  ASSUME NEW b, Typed(b), Finite(b), Aggregated(b), BestCached(b),
         NEW d, Typed(d), Finite(d), Aggregated(d),
         NEW s \in Side, NEW t \in Ticks, d.best = b.best,
         t \in PricesOf(b, s),
         \A x \in Side, y \in Ticks : ~(x = s /\ y = t) =>
           (y \in PricesOf(d, x) <=> y \in PricesOf(b, x))
  PROVE  BestCached(Refill(d, s, t))
<1> DEFINE c == Refill(d, s, t)
<1>1. /\ d \in Book /\ d.best \in [Side -> Ticks \union {NoTick}]
      /\ c.live = d.live /\ c.slot = d.slot
  BY RefillFrame DEF Typed, Book
<1>2. \A x \in Side : PricesOf(c, x) = PricesOf(d, x)
  BY <1>1 DEF PricesOf
<1>3. \A x \in Side : /\ PricesOf(b, x) \subseteq Ticks /\ PricesOf(d, x) \subseteq Ticks
                      /\ Occupied(d, x) = PricesOf(d, x)
                      /\ b.best[x] = BestIn(x, PricesOf(b, x))
  BY OccupiedPrices DEF BestCached
<1>4. /\ \A x \in Side : x # s => c.best[x] = b.best[x]
      /\ c.best[s] = IF d.level[s][t].total = 0 /\ b.best[s] = t THEN NextBest(d, s, t)
                     ELSE b.best[s]
  BY <1>1 DEF Refill
<1>5. t \in PricesOf(d, s) <=> d.level[s][t].total # 0
  BY <1>3 DEF Occupied
<1> HIDE DEF c
<1>6. ASSUME NEW x \in Side, x # s PROVE c.best[x] = BestIn(x, PricesOf(c, x))
  <2>1. PricesOf(d, x) = PricesOf(b, x)
    BY <1>3, <1>6
  <2> QED
    BY <1>2, <1>3, <1>4, <1>6, <2>1
<1>7. c.best[s] = BestIn(s, PricesOf(d, s))
  <2>1. CASE t \in PricesOf(d, s)
    <3>1. PricesOf(d, s) = PricesOf(b, s)
      BY <1>3, <2>1
    <3> QED
      BY <1>3, <1>4, <1>5, <2>1, <3>1
  <2>2. CASE t \notin PricesOf(d, s)
    <3>1. PricesOf(d, s) = PricesOf(b, s) \ {t}
      BY <1>3, <2>2
    <3> DEFINE m == b.best[s]
    <3>2. m \in PricesOf(b, s) /\ \A y \in PricesOf(b, s) : ~Better(s, y, m)
      BY <1>3, BestInProperties
    <3>3. m \in Int /\ t \in Int /\ \A y \in PricesOf(b, s) : y \in Int
      BY <1>3, <3>2, TicksInt
    <3>4. CASE m = t
      <4>1. \A x \in PricesOf(d, s) : Better(s, t, x)
        BY <3>1, <3>2, <3>3, <3>4 DEF Better
      <4>2. {x \in Occupied(d, s) : Better(s, t, x)} = PricesOf(d, s)
        BY <1>3, <4>1
      <4> QED
        BY <1>4, <1>5, <2>2, <3>4, <4>2 DEF NextBest
    <3>5. CASE m # t
      <4>1. c.best[s] = m
        BY <1>4, <3>5
      <4>2. m \in PricesOf(d, s) /\ \A y \in PricesOf(d, s) : ~Better(s, y, m)
        BY <3>1, <3>2, <3>5
      <4> HIDE DEF m
      <4>3. BestIn(s, PricesOf(d, s)) = m
        BY <1>3, <4>2, BestUnique
      <4> QED
        BY <4>1, <4>3
    <3> QED
      BY <3>4, <3>5
  <2> QED
    BY <2>1, <2>2
<1> QED
  BY <1>2, <1>6, <1>7 DEF BestCached, c

LEMMA DropLevelsSound ==
  ASSUME NEW b, LevelsSound(b), NEW h \in b.live
  PROVE  LevelsSound(Drop(b, h))
<1> DEFINE c == Drop(b, h)
           d == Rest(b, h)
           s == b.slot[h].side
           t == b.slot[h].px
<1>1. Typed(b) /\ Finite(b) /\ Aggregated(b) /\ BestCached(b) /\ Paged(b)
  BY DEF LevelsSound
<1>2. /\ Typed(c) /\ Typed(d) /\ c = Refill(d, s, t)
      /\ s \in Side /\ t \in Ticks /\ b.slot[h].qty \in Nat
  BY <1>1, DropTyped, RestTyped, LiveOrder
<1>3. \A x \in Side, y \in Ticks :
        /\ IsFiniteSet(Shares(c, x, y))
        /\ Cardinality(Shares(c, x, y)) =
             IF x = s /\ y = t THEN Cardinality(Shares(b, x, y)) - b.slot[h].qty
             ELSE Cardinality(Shares(b, x, y))
        /\ Cardinality(OrdersAt(c, x, y)) =
             IF x = s /\ y = t THEN Cardinality(OrdersAt(b, x, y)) - 1
             ELSE Cardinality(OrdersAt(b, x, y))
  BY <1>1, DropCounts
<1>4. /\ c.level[s][t].total = b.level[s][t].total - b.slot[h].qty
      /\ c.level[s][t].count = b.level[s][t].count - 1
      /\ \A x \in Side, y \in Ticks : ~(x = s /\ y = t) => c.level[x][y] = b.level[x][y]
  BY <1>1, DropLevels
<1>5. /\ c.live = b.live \ {h}
      /\ \A i \in b.live \ {h} : c.slot[i].side = b.slot[i].side /\ c.slot[i].px = b.slot[i].px
  BY <1>1, DropOrders
<1>6. c.page = b.page /\ d.best = b.best
  BY <1>1, DropTyped DEF Rest
<1>7. d.live = c.live /\ d.slot = c.slot /\ d.level = c.level /\ d.page = c.page
  <2>1. d \in Book
    BY <1>2 DEF Typed
  <2> QED
    BY <1>2, <2>1, RefillFrame
<1>8. h \in b.live /\ b.slot[h].side = s /\ b.slot[h].px = t
  OBVIOUS
<1> HIDE DEF c, d, s, t
<1>9. Aggregated(c)
  BY <1>1, <1>2, <1>3, <1>4 DEF Aggregated
<1>10. Finite(c)
  BY <1>1, <1>3, <1>6 DEF Finite
<1>11. Finite(d) /\ Aggregated(d)
  BY <1>7, <1>9, <1>10 DEF Finite, Aggregated, Shares, OrdersAt
<1>12. BestCached(c)
  <2>1. t \in PricesOf(b, s)
    BY <1>8 DEF PricesOf
  <2>2. ASSUME NEW x \in Side, NEW y \in Ticks, ~(x = s /\ y = t)
        PROVE  y \in PricesOf(d, x) <=> y \in PricesOf(b, x)
    BY <1>5, <1>7, <1>8, <2>2 DEF PricesOf
  <2>3. BestCached(Refill(d, s, t))
    BY <1>1, <1>2, <1>6, <1>11, <2>1, <2>2, RefillBest
  <2> QED
    BY <1>2, <2>3
<1>13. Paged(c)
  BY <1>1, <1>5, <1>6 DEF Paged
<1> QED
  BY <1>2, <1>9, <1>10, <1>12, <1>13 DEF LevelsSound, c

LEMMA ShrinkLevelsSound ==
  ASSUME NEW b, LevelsSound(b), NEW h \in b.live, NEW q \in Int, 0 < q, q < b.slot[h].qty
  PROVE  LevelsSound(Shrink(b, h, q))
<1> DEFINE c == Shrink(b, h, q)
           d == Less(b, h, q)
           s == b.slot[h].side
           t == b.slot[h].px
<1>1. Typed(b) /\ Finite(b) /\ Aggregated(b) /\ BestCached(b) /\ Paged(b)
  BY DEF LevelsSound
<1>2. /\ Typed(c) /\ Typed(d) /\ c = Refill(d, s, t)
      /\ s \in Side /\ t \in Ticks /\ b.slot[h].qty \in Nat
  BY <1>1, LessTyped, LiveOrder DEF Shrink
<1>3. \A x \in Side, y \in Ticks :
        /\ IsFiniteSet(Shares(c, x, y))
        /\ Cardinality(Shares(c, x, y)) =
             IF x = s /\ y = t THEN Cardinality(Shares(b, x, y)) - q
             ELSE Cardinality(Shares(b, x, y))
        /\ OrdersAt(c, x, y) = OrdersAt(b, x, y)
  BY <1>1, ShrinkCounts
<1>4. /\ c.live = b.live /\ c.page = b.page /\ c.level = d.level
      /\ \A i \in b.live : c.slot[i].side = b.slot[i].side /\ c.slot[i].px = b.slot[i].px
  BY <1>1, ShrinkOrders
<1>5. /\ d.level[s][t].total = b.level[s][t].total - q
      /\ d.level[s][t].count = b.level[s][t].count
      /\ \A x \in Side, y \in Ticks : ~(x = s /\ y = t) => d.level[x][y] = b.level[x][y]
      /\ d.best = b.best
  <2> DEFINE lv == b.level[s][t]
  <2>1. lv \in Level /\ d.best = b.best
    <3>1. lv \in Level
      BY <1>1, LiveOrder
    <3>2. d.best = b.best
      BY DEF Less
    <3> QED
      BY <3>1, <3>2
  <2>2. d.level = WithLevel(b, s, t, [lv EXCEPT !.total = @ - q])
    BY DEF Less
  <2>3. /\ [lv EXCEPT !.total = @ - q].total = lv.total - q
        /\ [lv EXCEPT !.total = @ - q].count = lv.count
    BY <2>1 DEF Level
  <2> HIDE DEF d, s, t, lv
  <2>4. /\ d.level[s][t] = [lv EXCEPT !.total = @ - q]
        /\ \A x \in Side, y \in Ticks : ~(x = s /\ y = t) => d.level[x][y] = b.level[x][y]
    BY <1>2, <2>2 DEF WithLevel
  <2> QED
    BY <2>1, <2>3, <2>4 DEF lv
<1>6. d.live = c.live /\ d.slot = c.slot /\ d.page = c.page
  <2>1. d \in Book
    BY <1>2 DEF Typed
  <2> QED
    BY <1>2, <2>1, RefillFrame
<1>7. h \in b.live /\ b.slot[h].side = s /\ b.slot[h].px = t
  OBVIOUS
<1> HIDE DEF c, d, s, t
<1>8. Aggregated(c)
  BY <1>1, <1>2, <1>3, <1>4, <1>5 DEF Aggregated
<1>9. Finite(c)
  BY <1>1, <1>3, <1>4 DEF Finite
<1>10. Finite(d) /\ Aggregated(d)
  <2>1. \A x, y : OrdersAt(d, x, y) = OrdersAt(c, x, y)
    BY <1>6 DEF OrdersAt
  <2>2. \A x, y : Shares(d, x, y) = Shares(c, x, y)
    BY <1>6, <2>1 DEF Shares
  <2> QED
    BY <1>4, <1>6, <1>8, <1>9, <2>1, <2>2 DEF Finite, Aggregated
<1>11. BestCached(c)
  <2>1. t \in PricesOf(b, s)
    BY <1>7 DEF PricesOf
  <2>2. ASSUME NEW x \in Side, NEW y \in Ticks
        PROVE  y \in PricesOf(d, x) <=> y \in PricesOf(b, x)
    BY <1>4, <1>6 DEF PricesOf
  <2>3. BestCached(Refill(d, s, t))
    BY <1>1, <1>2, <1>5, <1>10, <2>1, <2>2, RefillBest
  <2> QED
    BY <1>2, <2>3
<1>12. Paged(c)
  BY <1>1, <1>4 DEF Paged
<1> QED
  BY <1>2, <1>8, <1>9, <1>11, <1>12 DEF LevelsSound, c

=============================================================================
