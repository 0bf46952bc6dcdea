-------------------------- MODULE OrderBookProofs --------------------------
(***************************************************************************)
(* Proofs about the order book for every arena size, band, page layout and *)
(* set of callers' inputs: one step per action of OrderBook, from the      *)
(* lemmas of BookLemmas on the book value the action moves to.  First the  *)
(* queues, then the ladders and the cached best prices, and last that the  *)
(* book implements PriceTimeBook.                                          *)
(***************************************************************************)
EXTENDS OrderBook, BookLemmas, Sequences

----------------------------------------------------------------------------
(* The invariant of the order book's queues, and each action's step.       *)

(* A delta is a 32-bit difference whatever it was computed from.           *)
LEMMA FoldTyped ==
  ASSUME NEW v \in [Side -> [Ticks -> Int]], NEW s \in Side, NEW t \in Ticks, NEW d \in Int
  PROVE  Fold(v, s, t, d) \in [Side -> [Ticks -> Int]]
<1>1. Narrow(d) \in Int
  BY InputAssumption DEF Narrow
<1> QED
  BY <1>1 DEF Fold

QueuesInv == Sound(book, ahead) /\ l2 \in [Side -> [Ticks -> Int]]

LEMMA EmptyBookSound == Init => QueuesInv
<1> SUFFICES ASSUME Init PROVE QueuesInv
  OBVIOUS
<1>1. book = EmptyBook /\ l2 \in [Side -> [Ticks -> Int]] /\ ahead \in [Slots -> SUBSET Slots]
  BY DEF Init
<1>2. Typed(EmptyBook)
  <2>1. FreeSlot \in Order /\ EmptyLevel \in Level
    BY DEF FreeSlot, EmptyLevel, Order, Level, Side, Index
  <2> QED
    BY <2>1 DEF Typed, EmptyBook, Book, Index
<1>3. Indexed(EmptyBook)
  BY DEF Indexed, EmptyBook
<1>4. Queued(EmptyBook, ahead)
  <2>1. EmptyBook.live = {}
    BY DEF EmptyBook
  <2>2. ASSUME NEW x \in Side, NEW y \in Ticks
        PROVE  Anchored(EmptyBook, ahead, x, y)
    BY <2>1 DEF Anchored, OrdersAt, EmptyBook, EmptyLevel
  <2> QED
    BY <2>1, <2>2 DEF Queued
<1> QED
  BY <1>1, <1>2, <1>3, <1>4 DEF QueuesInv, Sound

LEMMA TakeFromStep ==
  ASSUME QueuesInv, NEW h \in book.live, NEW q \in Int, 0 < q, q <= book.slot[h].qty,
         TakeFrom(h, q)
  PROVE  QueuesInv'
<1>1. Sound(book, ahead) /\ l2 \in [Side -> [Ticks -> Int]]
  BY DEF QueuesInv
<1>2. book.slot[h].side \in Side /\ book.slot[h].px \in Ticks /\ -q \in Int
  BY <1>1, LiveOrder DEF Sound
<1>3. Sound(book', ahead')
  BY <1>1, ReduceSound DEF TakeFrom
<1>4. l2' \in [Side -> [Ticks -> Int]]
  BY <1>1, <1>2, FoldTyped DEF TakeFrom
<1> QED
  BY <1>3, <1>4 DEF QueuesInv

LEMMA AddStep ==
  ASSUME QueuesInv, NEW r \in Ref \union {ZeroRef}, NEW s \in Side, NEW q \in Int,
         NEW t \in Int, Add(r, s, q, t)
  PROVE  QueuesInv'
<1>1. Sound(book, ahead) /\ Typed(book) /\ l2 \in [Side -> [Ticks -> Int]]
  BY DEF QueuesInv, Sound
<1>2. CASE AddError(book, r, s, q, t) # "ok"
  BY <1>2 DEF Add, QueuesInv, vars
<1>3. CASE AddError(book, r, s, q, t) = "ok"
  <2>1. r \in Ref /\ book.id[r] = NullIndex /\ q > 0 /\ t \in Ticks
    BY <1>1, <1>3, AddAccepted
  <2>2. PICK h \in Slots \ book.live :
          /\ book' = Insert(book, h, r, s, q, t)
          /\ l2' = Fold(l2, s, t, q)
          /\ ahead' = Joined(ahead, book', h)
    BY <1>3 DEF Add
  <2>3. Sound(book', ahead')
    BY <1>1, <2>1, <2>2, InsertSound
  <2>4. l2' \in [Side -> [Ticks -> Int]]
    BY <1>1, <2>1, <2>2, FoldTyped
  <2> QED
    BY <2>3, <2>4 DEF QueuesInv
<1> QED
  BY <1>2, <1>3

LEMMA ReplaceStep ==
  ASSUME QueuesInv, NEW r \in Ref, NEW n \in Ref \union {ZeroRef}, NEW q \in Int,
         NEW t \in Int, Replace(r, n, q, t)
  PROVE  QueuesInv'
<1> DEFINE h   == Find(book, r)
           o   == book.slot[h]
           mid == Drop(book, h)
           v   == Fold(l2, o.side, o.px, -o.qty)
<1>1. Sound(book, ahead) /\ Typed(book) /\ Indexed(book) /\ l2 \in [Side -> [Ticks -> Int]]
  BY DEF QueuesInv, Sound
<1>2. CASE ReplaceError(book, r, n, q, t) # "ok"
  BY <1>2 DEF Replace, QueuesInv, vars
<1>3. CASE ReplaceError(book, r, n, q, t) = "ok"
  <2>1. h \in book.live
    BY <1>1, <1>3, FoundLive DEF ReplaceError
  <2>2. o.side \in Side /\ o.px \in Ticks /\ -o.qty \in Int
    BY <1>1, <2>1, LiveOrder
  <2>3. Sound(mid, Left(ahead, h)) /\ Typed(mid)
    BY <1>1, <2>1, DropSound DEF Sound
  <2>4. v \in [Side -> [Ticks -> Int]]
    BY <1>1, <2>2, FoldTyped
  <2>5. CASE AddError(mid, n, o.side, q, t) = "ok"
    <3>1. n \in Ref /\ mid.id[n] = NullIndex /\ q > 0 /\ t \in Ticks
      BY <2>2, <2>3, <2>5, AddAccepted
    <3>2. PICK g \in Slots \ mid.live :
            /\ book' = Insert(mid, g, n, o.side, q, t)
            /\ l2' = Fold(v, o.side, t, q)
            /\ ahead' = Joined(Left(ahead, h), book', g)
      BY <1>3, <2>5 DEF Replace
    <3> HIDE DEF mid, v, o, h
    <3>3. Sound(book', ahead')
      BY <2>2, <2>3, <3>1, <3>2, InsertSound
    <3>4. l2' \in [Side -> [Ticks -> Int]]
      BY <2>2, <2>4, <3>1, <3>2, FoldTyped
    <3> QED
      BY <3>3, <3>4 DEF QueuesInv
  <2>6. CASE AddError(mid, n, o.side, q, t) # "ok"
    <3>1. book' = mid /\ l2' = v /\ ahead' = Left(ahead, h)
      BY <1>3, <2>6 DEF Replace
    <3> QED
      BY <2>3, <2>4, <3>1 DEF QueuesInv
  <2> QED BY <2>5, <2>6
<1> QED
  BY <1>2, <1>3

LEMMA QueuesInvStep == QueuesInv /\ [Next]_vars => QueuesInv'
<1> SUFFICES ASSUME QueuesInv, [Next]_vars PROVE QueuesInv'
  OBVIOUS
<1>1. Sound(book, ahead) /\ Typed(book) /\ Indexed(book) /\ Queued(book, ahead)
  BY DEF QueuesInv, Sound
<1>2. CASE UNCHANGED vars
  BY <1>2 DEF QueuesInv, vars
<1>3. ASSUME NEW r \in Ref, NEW n \in NewRef, NEW q \in Qty, NEW t \in PriceArg,
             Replace(r, n, q, t)
      PROVE  QueuesInv'
  BY <1>3, InputAssumption, ReplaceStep
<1>4. ASSUME NEW r \in Ref \union {ZeroRef}, NEW s \in Side, NEW q \in Qty,
             NEW t \in PriceArg, Add(r, s, q, t)
      PROVE  QueuesInv'
  BY <1>4, InputAssumption, AddStep
<1>5. ASSUME NEW r \in Ref, NEW q \in Qty, Execute(r, q)
      PROVE  QueuesInv'
  <2>1. CASE ExecuteError(book, r, q) # "ok"
    BY <1>5, <2>1, <1>2 DEF Execute
  <2>2. CASE ExecuteError(book, r, q) = "ok"
    <3>1. q \in Int /\ Find(book, r) \in book.live
      BY <1>1, <2>2, InputAssumption, FoundLive DEF ExecuteError
    <3>2. 0 < q /\ q <= book.slot[Find(book, r)].qty /\ TakeFrom(Find(book, r), q)
      BY <1>1, <1>5, <2>2, <3>1, LiveOrder DEF Execute, ExecuteError
    <3> QED
      BY <3>1, <3>2, TakeFromStep
  <2> QED BY <2>1, <2>2
<1>6. ASSUME NEW s \in Side, NEW t \in PriceArg, NEW q \in Qty, ExecuteFront(s, t, q)
      PROVE  QueuesInv'
  <2>1. CASE FrontError(book, s, t, q) # "ok"
    BY <1>6, <2>1, <1>2 DEF ExecuteFront
  <2>2. CASE FrontError(book, s, t, q) = "ok"
    <3>1. q \in Int /\ t \in Ticks /\ 0 < q /\ book.level[s][t].head # NullIndex
      BY <2>2, InputAssumption, BandAssumption DEF FrontError, HasLevel, InBand, Ticks
    <3>2. Anchored(book, ahead, s, t)
      BY <1>1, <3>1 DEF Queued
    <3>3. book.level[s][t].head \in book.live
      BY <3>1, <3>2 DEF Anchored, OrdersAt
    <3>4. /\ q <= book.slot[book.level[s][t].head].qty
          /\ TakeFrom(book.level[s][t].head, q)
      BY <1>6, <2>2 DEF ExecuteFront
    <3> QED
      BY <3>1, <3>3, <3>4, TakeFromStep
  <2> QED BY <2>1, <2>2
<1>7. ASSUME NEW r \in Ref, Remove(r)
      PROVE  QueuesInv'
  <2>1. CASE Find(book, r) = NullIndex
    BY <1>7, <2>1, <1>2 DEF Remove
  <2>2. CASE Find(book, r) # NullIndex
    <3>1. Find(book, r) \in book.live
      BY <1>1, <2>2, FoundLive
    <3>2. /\ book.slot[Find(book, r)].qty \in Int /\ 0 < book.slot[Find(book, r)].qty
          /\ TakeFrom(Find(book, r), book.slot[Find(book, r)].qty)
      BY <1>1, <1>7, <2>2, <3>1, LiveOrder DEF Remove
    <3> QED
      BY <3>1, <3>2, TakeFromStep
  <2> QED BY <2>1, <2>2
<1> QED
  BY <1>2, <1>3, <1>4, <1>5, <1>6, <1>7 DEF Next

(* Links, id table and arena stay consistent under every sequence of       *)
(* operations, whatever the arguments: audit() never fails.                *)
THEOREM QueuesInvariant == Spec => []QueuesInv
<1>1. Init => QueuesInv
  BY EmptyBookSound
<1>2. QueuesInv /\ [Next]_vars => QueuesInv'
  BY QueuesInvStep
<1> QED
  BY <1>1, <1>2, PTL DEF Spec

(* Every live slot of the arena holds a real order.                        *)
THEOREM TypesHold == Spec => []TypeOK
<1>1. QueuesInv => TypeOK
  BY DEF QueuesInv, Sound, TypeOK
<1> QED
  BY <1>1, QueuesInvariant, PTL

(* A reference resolves to the order that carries it, and only to that.    *)
THEOREM IndexHolds == Spec => []IndexExact
<1>1. QueuesInv => IndexExact
  BY DEF QueuesInv, Sound, IndexExact
<1> QED
  BY <1>1, QueuesInvariant, PTL

(* Every level's links hold its orders in arrival order.                   *)
THEOREM FifoHolds == Spec => []FifoExact
<1>1. QueuesInv => FifoExact
  BY DEF QueuesInv, Sound, FifoExact
<1> QED
  BY <1>1, QueuesInvariant, PTL

----------------------------------------------------------------------------
(* The consumer's fold.  A delta holds what it was computed from when no   *)
(* caller passes a quantity beyond its width.                              *)

SmallInputs == \A q \in Qty : q < DeltaSpan

Small(b) == \A h \in b.live : b.slot[h].qty < DeltaSpan

Folded(b, v) ==
  /\ v \in [Side -> [Ticks -> Int]]
  /\ \A s \in Side, t \in Ticks : v[s][t] = b.level[s][t].total

LEMMA NarrowExact ==
  ASSUME NEW d \in Int, -DeltaSpan <= d, d < DeltaSpan
  PROVE  Narrow(d) = d
<1> DEFINE n == 2 * DeltaSpan
           a == d + DeltaSpan
<1>1. DeltaSpan \in Nat \ {0} /\ n \in Nat \ {0} /\ a \in 0 .. (n - 1)
  BY InputAssumption
<1>2. a % n = a
  BY <1>1
<1> QED
  BY <1>1, <1>2 DEF Narrow

LEMMA FoldLevels ==
  ASSUME NEW b, Typed(b), NEW v, Folded(b, v), NEW s \in Side, NEW t \in Ticks,
         NEW d \in Int, -DeltaSpan <= d, d < DeltaSpan,
         NEW c, c.level[s][t].total = b.level[s][t].total + d,
         \A x \in Side, y \in Ticks : ~(x = s /\ y = t) => c.level[x][y] = b.level[x][y]
  PROVE  Folded(c, Fold(v, s, t, d))
<1>1. Narrow(d) = d
  BY NarrowExact
<1>2. v \in [Side -> [Ticks -> Int]] /\ \A x \in Side, y \in Ticks : v[x][y] = b.level[x][y].total
  BY DEF Folded
<1>3. Fold(v, s, t, d) = [v EXCEPT ![s] = [v[s] EXCEPT ![t] = v[s][t] + d]]
  BY <1>1 DEF Fold
<1>4. Fold(v, s, t, d) \in [Side -> [Ticks -> Int]]
  BY <1>2, <1>3
<1>5. ASSUME NEW x \in Side, NEW y \in Ticks
      PROVE  Fold(v, s, t, d)[x][y] = c.level[x][y].total
  <2>1. CASE x = s /\ y = t
    BY <1>2, <1>3, <2>1
  <2>2. CASE x = s /\ y # t
    BY <1>2, <1>3, <2>2
  <2>3. CASE x # s
    BY <1>2, <1>3, <2>3
  <2> QED
    BY <2>1, <2>2, <2>3
<1> QED
  BY <1>4, <1>5 DEF Folded

LEMMA InsertFolded ==
  ASSUME NEW b, Typed(b), Small(b), NEW v, Folded(b, v), NEW h \in Slots \ b.live,
         NEW r \in Ref, NEW s \in Side, NEW q \in Int, q > 0, q < DeltaSpan, NEW t \in Ticks
  PROVE  /\ Folded(Insert(b, h, r, s, q, t), Fold(v, s, t, q))
         /\ Small(Insert(b, h, r, s, q, t))
<1> DEFINE c == Insert(b, h, r, s, q, t)
<1>1. h \in Slots /\ DeltaSpan \in Nat
  BY InputAssumption
<1>2. /\ c.level[s][t].total = b.level[s][t].total + q
      /\ \A x \in Side, y \in Ticks : ~(x = s /\ y = t) => c.level[x][y] = b.level[x][y]
  BY <1>1, InsertLevels
<1>3. /\ c.live = b.live \union {h} /\ c.slot[h].qty = q
      /\ \A i \in b.live : c.slot[i].qty = b.slot[i].qty
  BY InsertOrders
<1> HIDE DEF c
<1>4. Folded(c, Fold(v, s, t, q))
  BY <1>1, <1>2, FoldLevels
<1>5. Small(c)
  BY <1>3 DEF Small
<1> QED
  BY <1>4, <1>5 DEF c

LEMMA DropFolded ==
  ASSUME NEW b, Typed(b), Small(b), NEW v, Folded(b, v), NEW h \in b.live
  PROVE  /\ Folded(Drop(b, h), Fold(v, b.slot[h].side, b.slot[h].px, -b.slot[h].qty))
         /\ Small(Drop(b, h))
<1> DEFINE c == Drop(b, h)
           s == b.slot[h].side
           t == b.slot[h].px
           d == -b.slot[h].qty
<1>1. /\ DeltaSpan \in Nat /\ s \in Side /\ t \in Ticks
      /\ d \in Int /\ -DeltaSpan <= d /\ d < DeltaSpan
  BY InputAssumption, LiveOrder DEF Small
<1>2. /\ c.level[s][t].total = b.level[s][t].total - b.slot[h].qty
      /\ \A x \in Side, y \in Ticks : ~(x = s /\ y = t) => c.level[x][y] = b.level[x][y]
  BY DropLevels
<1>3. c.level[s][t].total = b.level[s][t].total + d
  <2>1. b.level[s][t].total \in Int /\ b.slot[h].qty \in Int
    BY <1>1, LiveOrder DEF Typed, Book, Level
  <2> QED
    BY <1>2, <2>1
<1>4. c.live = b.live \ {h} /\ \A i \in b.live \ {h} : c.slot[i].qty = b.slot[i].qty
  BY DropOrders
<1> HIDE DEF c, s, t, d
<1>5. Folded(c, Fold(v, s, t, d))
  BY <1>1, <1>2, <1>3, FoldLevels
<1>6. Small(c)
  BY <1>4 DEF Small
<1> QED
  BY <1>5, <1>6 DEF c, s, t, d

LEMMA ShrinkFolded ==
  ASSUME NEW b, Typed(b), Small(b), NEW v, Folded(b, v), NEW h \in b.live,
         NEW q \in Int, 0 < q, q < b.slot[h].qty
  PROVE  /\ Folded(Shrink(b, h, q), Fold(v, b.slot[h].side, b.slot[h].px, -q))
         /\ Small(Shrink(b, h, q))
<1> DEFINE c == Shrink(b, h, q)
           s == b.slot[h].side
           t == b.slot[h].px
           lv == b.level[s][t]
<1>1. /\ DeltaSpan \in Nat /\ s \in Side /\ t \in Ticks /\ lv \in Level
      /\ b.slot[h].qty \in Int /\ b.slot[h].qty < DeltaSpan
  BY InputAssumption, LiveOrder DEF Small
<1>2. -q \in Int /\ -DeltaSpan <= -q /\ -q < DeltaSpan
  BY <1>1
<1>3. /\ c.live = b.live /\ c.level = Less(b, h, q).level
      /\ \A i \in b.live : c.slot[i].qty = IF i = h THEN b.slot[i].qty - q ELSE b.slot[i].qty
  BY ShrinkOrders
<1> DEFINE lv2 == [lv EXCEPT !.total = @ - q]
<1>4. c.level = WithLevel(b, s, t, lv2)
  BY <1>3 DEF Less
<1>5. lv2.total = lv.total + (-q)
  BY <1>1 DEF Level
<1> HIDE DEF c, s, t, lv, lv2
<1>6. /\ c.level[s][t].total = lv.total + (-q)
      /\ \A x \in Side, y \in Ticks : ~(x = s /\ y = t) => c.level[x][y] = b.level[x][y]
  BY <1>1, <1>4, <1>5 DEF WithLevel
<1>7. Folded(c, Fold(v, s, t, -q))
  BY <1>1, <1>2, <1>6, FoldLevels DEF lv
<1>8. Small(c)
  BY <1>1, <1>3, LiveOrder DEF Small
<1> QED
  BY <1>7, <1>8 DEF c, s, t

----------------------------------------------------------------------------
(* The invariant of the order book's levels, and each action's step.       *)

LevelsInv ==
  /\ QueuesInv
  /\ LevelsSound(book)
  /\ SmallInputs => Folded(book, l2) /\ Small(book)

LEMMA LevelsInvInit == Init => LevelsInv
<1> SUFFICES ASSUME Init PROVE LevelsInv
  OBVIOUS
<1>1. QueuesInv /\ LevelsSound(book)
  BY EmptyBookSound, EmptyLevels DEF Init
<1>2. Folded(book, l2) /\ Small(book)
  BY DEF Init, Folded, Small, EmptyBook, EmptyLevel
<1> QED
  BY <1>1, <1>2 DEF LevelsInv

LEMMA TakeFromLevels ==
  ASSUME LevelsInv, NEW h \in book.live, NEW q \in Int, 0 < q, q <= book.slot[h].qty,
         TakeFrom(h, q)
  PROVE  LevelsInv'
<1>1. QueuesInv /\ LevelsSound(book) /\ Typed(book)
  BY DEF LevelsInv, LevelsSound
<1>2. QueuesInv'
  BY <1>1, TakeFromStep
<1>3. /\ book' = Reduce(book, h, q)
      /\ l2' = Fold(l2, book.slot[h].side, book.slot[h].px, -q)
  BY DEF TakeFrom
<1>4. CASE q = book.slot[h].qty
  <2>1. book' = Drop(book, h)
    BY <1>3, <1>4 DEF Reduce
  <2>2. LevelsSound(book')
    BY <1>1, <2>1, DropLevelsSound
  <2>3. SmallInputs => Folded(book', l2') /\ Small(book')
    BY <1>1, <1>3, <1>4, <2>1, DropFolded DEF LevelsInv
  <2> QED
    BY <1>2, <2>2, <2>3 DEF LevelsInv
<1>5. CASE q # book.slot[h].qty
  <2>1. book' = Shrink(book, h, q) /\ q < book.slot[h].qty
    BY <1>1, <1>3, <1>5, LiveOrder DEF Reduce
  <2>2. LevelsSound(book')
    BY <1>1, <2>1, ShrinkLevelsSound
  <2>3. SmallInputs => Folded(book', l2') /\ Small(book')
    BY <1>1, <1>3, <2>1, ShrinkFolded DEF LevelsInv
  <2> QED
    BY <1>2, <2>2, <2>3 DEF LevelsInv
<1> QED
  BY <1>4, <1>5

LEMMA AddLevels ==
  ASSUME LevelsInv, NEW r \in Ref \union {ZeroRef}, NEW s \in Side, NEW q \in Qty,
         NEW t \in Int, Add(r, s, q, t)
  PROVE  LevelsInv'
<1>1. QueuesInv /\ LevelsSound(book) /\ Typed(book) /\ q \in Int
  BY InputAssumption DEF LevelsInv, LevelsSound
<1>2. QueuesInv'
  BY <1>1, AddStep
<1>3. CASE AddError(book, r, s, q, t) # "ok"
  BY <1>2, <1>3 DEF Add, LevelsInv, vars
<1>4. CASE AddError(book, r, s, q, t) = "ok"
  <2>1. r \in Ref /\ q > 0 /\ t \in Ticks
    BY <1>1, <1>4, AddAccepted
  <2>2. Claimable(book, s, t)
    BY <1>4 DEF AddError
  <2>3. PICK h \in Slots \ book.live :
          book' = Insert(book, h, r, s, q, t) /\ l2' = Fold(l2, s, t, q)
    BY <1>4 DEF Add
  <2>4. LevelsSound(book')
    BY <1>1, <2>1, <2>2, <2>3, InsertLevelsSound
  <2>5. SmallInputs => Folded(book', l2') /\ Small(book')
    BY <1>1, <2>1, <2>3, InsertFolded DEF LevelsInv, SmallInputs
  <2> QED
    BY <1>2, <2>4, <2>5 DEF LevelsInv
<1> QED
  BY <1>3, <1>4

LEMMA ReplaceLevels ==
  ASSUME LevelsInv, NEW r \in Ref, NEW n \in Ref \union {ZeroRef}, NEW q \in Qty,
         NEW t \in Int, Replace(r, n, q, t)
  PROVE  LevelsInv'
<1> DEFINE h   == Find(book, r)
           o   == book.slot[h]
           mid == Drop(book, h)
           v   == Fold(l2, o.side, o.px, -o.qty)
<1>1. QueuesInv /\ LevelsSound(book) /\ Typed(book) /\ Indexed(book) /\ q \in Int
  BY InputAssumption DEF LevelsInv, LevelsSound, QueuesInv, Sound
<1>2. QueuesInv'
  BY <1>1, ReplaceStep
<1>3. CASE ReplaceError(book, r, n, q, t) # "ok"
  BY <1>2, <1>3 DEF Replace, LevelsInv, vars
<1>4. CASE ReplaceError(book, r, n, q, t) = "ok"
  <2>1. h \in book.live
    BY <1>1, <1>4, FoundLive DEF ReplaceError
  <2>2. o.side \in Side
    BY <1>1, <2>1, LiveOrder
  <2>3. LevelsSound(mid) /\ Typed(mid)
    BY <1>1, <2>1, DropLevelsSound DEF LevelsSound
  <2>4. SmallInputs => Folded(mid, v) /\ Small(mid)
    BY <1>1, <2>1, DropFolded DEF LevelsInv
  <2>5. CASE AddError(mid, n, o.side, q, t) = "ok"
    <3>1. n \in Ref /\ q > 0 /\ t \in Ticks
      BY <1>1, <2>2, <2>3, <2>5, AddAccepted
    <3>2. Claimable(mid, o.side, t)
      BY <2>5 DEF AddError
    <3>3. PICK g \in Slots \ mid.live :
            /\ book' = Insert(mid, g, n, o.side, q, t)
            /\ l2' = Fold(v, o.side, t, q)
      BY <1>4, <2>5 DEF Replace
    <3> HIDE DEF mid, v, o, h
    <3>4. LevelsSound(book')
      BY <1>1, <2>2, <2>3, <3>1, <3>2, <3>3, InsertLevelsSound
    <3>5. SmallInputs => Folded(book', l2') /\ Small(book')
      BY <1>1, <2>2, <2>3, <2>4, <3>1, <3>3, InsertFolded DEF SmallInputs
    <3> QED
      BY <1>2, <3>4, <3>5 DEF LevelsInv
  <2>6. CASE AddError(mid, n, o.side, q, t) # "ok"
    <3>1. book' = mid /\ l2' = v
      BY <1>4, <2>6 DEF Replace
    <3> QED
      BY <1>2, <2>3, <2>4, <3>1 DEF LevelsInv
  <2> QED BY <2>5, <2>6
<1> QED
  BY <1>3, <1>4

LEMMA LevelsInvStep == LevelsInv /\ [Next]_vars => LevelsInv'
<1> SUFFICES ASSUME LevelsInv, [Next]_vars PROVE LevelsInv'
  OBVIOUS
<1>1. Typed(book) /\ Indexed(book) /\ Queued(book, ahead)
  BY DEF LevelsInv, QueuesInv, Sound
<1>2. CASE UNCHANGED vars
  BY <1>2 DEF LevelsInv, QueuesInv, vars
<1>3. ASSUME NEW r \in Ref, NEW n \in NewRef, NEW q \in Qty, NEW t \in PriceArg,
             Replace(r, n, q, t)
      PROVE  LevelsInv'
  BY <1>3, InputAssumption, ReplaceLevels
<1>4. ASSUME NEW r \in Ref \union {ZeroRef}, NEW s \in Side, NEW q \in Qty,
             NEW t \in PriceArg, Add(r, s, q, t)
      PROVE  LevelsInv'
  BY <1>4, InputAssumption, AddLevels
<1>5. ASSUME NEW r \in Ref, NEW q \in Qty, Execute(r, q)
      PROVE  LevelsInv'
  <2>1. CASE ExecuteError(book, r, q) # "ok"
    BY <1>5, <2>1, <1>2 DEF Execute
  <2>2. CASE ExecuteError(book, r, q) = "ok"
    <3>1. q \in Int /\ Find(book, r) \in book.live
      BY <1>1, <2>2, InputAssumption, FoundLive DEF ExecuteError
    <3>2. 0 < q /\ q <= book.slot[Find(book, r)].qty /\ TakeFrom(Find(book, r), q)
      BY <1>1, <1>5, <2>2, <3>1, LiveOrder DEF Execute, ExecuteError
    <3> QED
      BY <3>1, <3>2, TakeFromLevels
  <2> QED BY <2>1, <2>2
<1>6. ASSUME NEW s \in Side, NEW t \in PriceArg, NEW q \in Qty, ExecuteFront(s, t, q)
      PROVE  LevelsInv'
  <2>1. CASE FrontError(book, s, t, q) # "ok"
    BY <1>6, <2>1, <1>2 DEF ExecuteFront
  <2>2. CASE FrontError(book, s, t, q) = "ok"
    <3>1. q \in Int /\ t \in Ticks /\ 0 < q /\ book.level[s][t].head # NullIndex
      BY <2>2, InputAssumption, BandAssumption DEF FrontError, HasLevel, InBand, Ticks
    <3>2. Anchored(book, ahead, s, t)
      BY <1>1, <3>1 DEF Queued
    <3>3. book.level[s][t].head \in book.live
      BY <3>1, <3>2 DEF Anchored, OrdersAt
    <3>4. /\ q <= book.slot[book.level[s][t].head].qty
          /\ TakeFrom(book.level[s][t].head, q)
      BY <1>6, <2>2 DEF ExecuteFront
    <3> QED
      BY <3>1, <3>3, <3>4, TakeFromLevels
  <2> QED BY <2>1, <2>2
<1>7. ASSUME NEW r \in Ref, Remove(r)
      PROVE  LevelsInv'
  <2>1. CASE Find(book, r) = NullIndex
    BY <1>7, <2>1, <1>2 DEF Remove
  <2>2. CASE Find(book, r) # NullIndex
    <3>1. Find(book, r) \in book.live
      BY <1>1, <2>2, FoundLive
    <3>2. /\ book.slot[Find(book, r)].qty \in Int /\ 0 < book.slot[Find(book, r)].qty
          /\ TakeFrom(Find(book, r), book.slot[Find(book, r)].qty)
      BY <1>1, <1>7, <2>2, <3>1, LiveOrder DEF Remove
    <3> QED
      BY <3>1, <3>2, TakeFromLevels
  <2> QED BY <2>1, <2>2
<1> QED
  BY <1>2, <1>3, <1>4, <1>5, <1>6, <1>7 DEF Next

(* The levels of the book are those of its orders after every sequence of  *)
(* operations, whatever the arguments.                                     *)
THEOREM LevelsInvariant == Spec => []LevelsInv
BY LevelsInvInit, LevelsInvStep, PTL DEF Spec

(* Every level's aggregate is the sum of its orders' quantities, and its   *)
(* count their number.                                                     *)
THEOREM AggregatesHold == Spec => []AggregatesExact
<1>1. LevelsInv => AggregatesExact
  BY DEF LevelsInv, LevelsSound, AggregatesExact
<1> QED
  BY <1>1, LevelsInvariant, PTL

(* The cached best prices are the best prices of the resting orders.       *)
THEOREM BestHolds == Spec => []BestExact
<1>1. LevelsInv => BestExact
  BY DEF LevelsInv, LevelsSound, BestExact
<1> QED
  BY <1>1, LevelsInvariant, PTL

(* No ladder claims more pages than its pool has, and no order rests       *)
(* outside of them.                                                        *)
THEOREM PagesHold == Spec => []PagesWithinPool
<1>1. LevelsInv => PagesWithinPool
  BY DEF LevelsInv, LevelsSound, PagesWithinPool
<1> QED
  BY <1>1, LevelsInvariant, PTL

(* A consumer that folds the deltas holds the live aggregates, when no     *)
(* quantity exceeds what a delta can carry.                                *)
THEOREM FoldHolds == SmallInputs => (Spec => []L2FoldExact)
<1> SUFFICES ASSUME SmallInputs PROVE Spec => []L2FoldExact
  OBVIOUS
<1>1. LevelsInv => L2FoldExact
  BY DEF LevelsInv, Folded, L2FoldExact
<1> QED
  BY <1>1, LevelsInvariant, PTL

----------------------------------------------------------------------------
(* The order book implements the price-time queues of PriceTimeBook.  The  *)
(* slots of a level in the order their links give them are a chain; the    *)
(* chains are what a reader of the links meets, and every operation        *)
(* appends to one of them, takes a member out of one, or leaves them all   *)
(* as they are.                                                            *)

----------------------------------------------------------------------------
(* Chains.                                                                 *)

(* w holds the slots of a level from head to tail.                         *)
Chain(b, s, t, w) ==
  /\ w \in Seq(Slots)
  /\ \A i \in DOMAIN w : w[i] \in OrdersAt(b, s, t)
  /\ \A h \in OrdersAt(b, s, t) : \E i \in DOMAIN w : w[i] = h
  /\ \A i, j \in DOMAIN w : w[i] = w[j] => i = j
  /\ \A i \in DOMAIN w : b.slot[w[i]].next = IF i = Len(w) THEN NullIndex ELSE w[i + 1]
  /\ b.level[s][t].head = IF w = <<>> THEN NullIndex ELSE w[1]

Chained(b) == \A s \in Side, t \in Ticks : \E w : Chain(b, s, t, w)

(* What a reader of the chain is told.                                     *)
Reads(b, w) == [k \in 1 .. Len(w) |-> [ref |-> b.slot[w[k]].ref, qty |-> b.slot[w[k]].qty]]

LEMMA ChainFits ==
  ASSUME NEW b, NEW s, NEW t, NEW w, Chain(b, s, t, w)
  PROVE  Len(w) \in Nat /\ Cardinality(Slots) \in Nat /\ Len(w) <= Cardinality(Slots)
<1>1. w \in Seq(Slots) /\ Len(w) \in Nat /\ DOMAIN w = 1 .. Len(w)
  BY DEF Chain
<1>2. IsFiniteSet(Slots) /\ Cardinality(Slots) \in Nat
  BY SlotAssumption, FS_CardinalityType
<1>3. w \in Injection(1 .. Len(w), Slots)
  BY <1>1 DEF Chain, Injection, IsInjective
<1>4. Cardinality(1 .. Len(w)) <= Cardinality(Slots)
  BY <1>2, <1>3, FS_Injection
<1>5. Cardinality(1 .. Len(w)) = Len(w)
  <2> DEFINE n == Len(w)
  <2>1. n \in Nat
    BY <1>1
  <2> HIDE DEF n
  <2>2. 1 \in Int /\ n \in Int
    BY <2>1
  <2>3. Cardinality(1 .. n) = IF 1 > n THEN 0 ELSE n - 1 + 1
    BY <2>2, FS_Interval
  <2>4. Cardinality(1 .. n) = n
    BY <2>1, <2>3
  <2> QED
    BY <2>4 DEF n
<1> QED
  BY <1>1, <1>2, <1>4, <1>5

LEMMA WalkIs ==
  ASSUME NEW b, NEW s, NEW t, NEW w, Chain(b, s, t, w)
  PROVE  Walk(b, s, t) = [k \in 0 .. Cardinality(Slots) |->
                            IF k < Len(w) THEN w[k + 1] ELSE NullIndex]
<1> DEFINE N == Cardinality(Slots)
           Step(f) == [k \in 0 .. N |->
                         IF k = 0 THEN b.level[s][t].head
                         ELSE IF f[k - 1] = NullIndex THEN NullIndex
                         ELSE b.slot[f[k - 1]].next]
           g == [k \in 0 .. N |-> IF k < Len(w) THEN w[k + 1] ELSE NullIndex]
           f == Walk(b, s, t)
<1>1. f = CHOOSE x : x = Step(x)
  BY DEF Walk
<1>0. Len(w) \in Nat /\ N \in Nat /\ w \in Seq(Slots) /\ DOMAIN w = 1 .. Len(w)
  BY ChainFits, SMTT(30) DEF Chain
<1>2. \A k \in 1 .. Len(w) : w[k] \in Slots /\ w[k] # NullIndex
  BY <1>0, SlotAssumption
<1>3. /\ \A i \in 1 .. Len(w) : b.slot[w[i]].next = IF i = Len(w) THEN NullIndex ELSE w[i + 1]
      /\ b.level[s][t].head = IF Len(w) = 0 THEN NullIndex ELSE w[1]
  <2>1. w = <<>> <=> Len(w) = 0
    BY <1>0
  <2> QED
    BY <1>0, <2>1 DEF Chain
<1> DEFINE At(x, k) == IF k = 0 THEN b.level[s][t].head
                       ELSE IF x[k - 1] = NullIndex THEN NullIndex
                       ELSE b.slot[x[k - 1]].next
<1>4. ASSUME NEW k \in 0 .. N PROVE g[k] = At(g, k)
  <2>1. CASE k = 0
    <3>1. g[0] = IF 0 < Len(w) THEN w[1] ELSE NullIndex
      <4>1. 0 \in 0 .. N /\ 0 + 1 = 1
        BY <1>0
      <4> QED
        BY <4>1
    <3>2. At(g, k) = IF Len(w) = 0 THEN NullIndex ELSE w[1]
      BY <1>3, <2>1
    <3>3. Len(w) \in Nat
      BY <1>0
    <3>4. Len(w) = 0 <=> ~(0 < Len(w))
      BY <3>3
    <3> HIDE DEF g, At
    <3> QED
      BY <2>1, <3>1, <3>2, <3>4
  <2>2. CASE k # 0
    <3>1. k - 1 \in 0 .. N /\ k - 1 + 1 = k
      BY <1>0, <2>2
    <3>2. g[k - 1] = (IF k - 1 < Len(w) THEN w[k] ELSE NullIndex)
      BY <3>1
    <3>3. g[k] = IF k < Len(w) THEN w[k + 1] ELSE NullIndex
      OBVIOUS
    <3> HIDE DEF g
    <3>4. CASE k - 1 < Len(w)
      <4>1. k \in 1 .. Len(w)
        BY <1>0, <2>2, <3>4
      <4>2. g[k - 1] = w[k] /\ g[k - 1] # NullIndex
        BY <1>2, <3>2, <3>4, <4>1
      <4>3. At(g, k) = b.slot[w[k]].next
        BY <2>2, <4>2
      <4>4. b.slot[w[k]].next = IF k = Len(w) THEN NullIndex ELSE w[k + 1]
        BY <1>3, <4>1
      <4>5. k < Len(w) <=> k # Len(w)
        <5>1. Len(w) \in Nat /\ k \in Nat /\ k <= Len(w)
          BY <1>0, <4>1
        <5> QED
          BY <5>1
      <4> HIDE DEF At
      <4> QED
        BY <3>3, <4>3, <4>4, <4>5
    <3>5. CASE ~(k - 1 < Len(w))
      BY <1>0, <2>2, <3>2, <3>3, <3>5
    <3> QED
      BY <3>4, <3>5
  <2> QED
    BY <2>1, <2>2
<1>5. g = Step(g)
  BY <1>4, Zenon
<1>6. f = Step(f)
  <2> HIDE DEF Step, g, f
  <2> QED
    BY <1>1, <1>5, Zenon
<1>7. \A k \in 0 .. N : f[k] = At(f, k)
  <2> HIDE DEF f
  <2> QED
    BY <1>6, Zenon
<1>8. DOMAIN f = 0 .. N
  <2> HIDE DEF f
  <2> QED
    BY <1>6
<1> DEFINE Off == {k \in 0 .. N : f[k] # g[k]}
<1>9. Off = {}
  <2> SUFFICES ASSUME Off # {} PROVE FALSE
    OBVIOUS
  <2> HIDE DEF f, g
  <2>1. Off \subseteq Nat
    BY <1>0
  <2>2. \E m \in Off : \A k \in Off : ~(<<k, m>> \in OpToRel(<, Nat))
    BY <2>1, NatLessThanWellFounded, WFMin
  <2>3. PICK m \in Off : \A k \in Off : ~(k < m)
    BY <2>1, <2>2 DEF OpToRel
  <2>4. m \in 0 .. N /\ f[m] # g[m]
    OBVIOUS
  <2>5. CASE m = 0
    BY <1>4, <1>7, <2>4, <2>5
  <2>6. CASE m # 0
    <3>1. m - 1 \in 0 .. N /\ m - 1 < m
      BY <1>0, <2>4, <2>6
    <3>2. f[m - 1] = g[m - 1]
      BY <2>3, <3>1
    <3> QED
      BY <1>4, <1>7, <2>4, <2>6, <3>2
  <2> QED
    BY <2>5, <2>6
<1>10. DOMAIN g = 0 .. N
  OBVIOUS
<1>11. \A k \in 0 .. N : f[k] = g[k]
  BY <1>9
<1>12. f = [k \in 0 .. N |-> f[k]]
  <2> HIDE DEF f
  <2> QED
    BY <1>6, <1>8
<1> HIDE DEF f
<1> QED
  BY <1>11, <1>12 DEF f

(* A reader who follows the links meets the chain.                         *)
LEMMA QueueIsChain ==
  ASSUME NEW b, NEW s, NEW t, NEW w, Chain(b, s, t, w)
  PROVE  QueueOf(b, s, t) = Reads(b, w)
<1> DEFINE N == Cardinality(Slots)
           f == Walk(b, s, t)
           Ends(n) == f[n] = NullIndex /\ \A k \in 0 .. (n - 1) : f[k] # NullIndex
           len == CHOOSE n \in 0 .. N : Ends(n)
<1>1. Len(w) \in Nat /\ N \in Nat /\ Len(w) <= N /\ w \in Seq(Slots)
  BY ChainFits DEF Chain
<1>2. \A k \in 0 .. N : f[k] = IF k < Len(w) THEN w[k + 1] ELSE NullIndex
  <2>1. f = [k \in 0 .. N |-> IF k < Len(w) THEN w[k + 1] ELSE NullIndex]
    BY WalkIs
  <2> HIDE DEF f, N
  <2> QED
    BY <2>1
<1>3. QueueOf(b, s, t) =
        [k \in 1 .. len |-> [ref |-> b.slot[f[k - 1]].ref, qty |-> b.slot[f[k - 1]].qty]]
  BY DEF QueueOf
<1> HIDE DEF f, N
<1>4. \A k \in 1 .. Len(w) : w[k] # NullIndex
  BY <1>1, SlotAssumption
<1>5. \A n \in 0 .. N : Ends(n) <=> n = Len(w)
  BY <1>1, <1>2, <1>4
<1>6. Len(w) \in 0 .. N
  BY <1>1
<1> HIDE DEF Ends
<1>7. len = Len(w)
  BY <1>5, <1>6, Zenon
<1> HIDE DEF len
<1>8. \A k \in 1 .. Len(w) : f[k - 1] = w[k]
  BY <1>1, <1>2
<1> QED
  BY <1>3, <1>7, <1>8 DEF Reads

(* Sequences by their places.                                              *)
LEMMA AppendIs ==
  ASSUME NEW S, NEW u \in Seq(S), NEW e
  PROVE  Append(u, e) = [k \in 1 .. (Len(u) + 1) |-> IF k = Len(u) + 1 THEN e ELSE u[k]]
<1> DEFINE v == Append(u, e)
           n == Len(u) + 1
<1>1. v \in Seq(S \union {e}) /\ Len(v) = n /\ n \in Nat
  <2>1. u \in Seq(S \union {e})
    OBVIOUS
  <2> QED
    BY <2>1
<1>2. \A k \in 1 .. n : v[k] = IF k = n THEN e ELSE u[k]
  OBVIOUS
<1> HIDE DEF v, n
<1>3. v = [k \in 1 .. n |-> v[k]]
  BY <1>1
<1> QED
  BY <1>2, <1>3 DEF v, n

LEMMA RemoveAtIs ==
  ASSUME NEW S, NEW u \in Seq(S), NEW i \in 1 .. Len(u)
  PROVE  PriceTime!RemoveAt(u, i) =
           [k \in 1 .. (Len(u) - 1) |-> IF k < i THEN u[k] ELSE u[k + 1]]
<1> DEFINE x == SubSeq(u, 1, i - 1)
           y == SubSeq(u, i + 1, Len(u))
           v == x \o y
           n == Len(u) - 1
<1>1. Len(u) \in Nat /\ i \in Nat /\ 1 <= i /\ i <= Len(u)
  OBVIOUS
<1>2. x \in Seq(S) /\ Len(x) = i - 1 /\ \A k \in 1 .. (i - 1) : x[k] = u[k]
  BY <1>1
<1>3. y \in Seq(S) /\ Len(y) = Len(u) - i /\ \A k \in 1 .. (Len(u) - i) : y[k] = u[i + k]
  BY <1>1
<1> HIDE DEF x, y
<1>4. v \in Seq(S) /\ Len(v) = n /\ n \in Nat
  <2>1. v \in Seq(S) /\ Len(v) = Len(x) + Len(y)
    <3>1. x \in Seq(S) /\ y \in Seq(S)
      BY <1>2, <1>3
    <3> QED
      BY <3>1
  <2>2. Len(x) = i - 1 /\ Len(y) = Len(u) - i
    BY <1>2, <1>3
  <2> HIDE DEF v
  <2>3. Len(v) = Len(u) - 1 /\ Len(u) - 1 \in Nat
    BY <1>1, <2>1, <2>2
  <2> QED
    BY <2>1, <2>3
<1>5. ASSUME NEW k \in 1 .. n PROVE v[k] = IF k < i THEN u[k] ELSE u[k + 1]
  <2>1. CASE k < i
    BY <1>1, <1>2, <1>3, <2>1
  <2>2. CASE ~(k < i)
    <3>1. v[k] = y[k - (i - 1)] /\ k - (i - 1) \in 1 .. (Len(u) - i) /\ i + (k - (i - 1)) = k + 1
      BY <1>1, <1>2, <1>3, <2>2
    <3> QED
      BY <1>3, <2>2, <3>1
  <2> QED
    BY <2>1, <2>2
<1> HIDE DEF v, n
<1>6. v = [k \in 1 .. n |-> v[k]]
  BY <1>4
<1>7. v = [k \in 1 .. n |-> IF k < i THEN u[k] ELSE u[k + 1]]
  BY <1>5, <1>6
<1>8. PriceTime!RemoveAt(u, i) = v
  BY DEF PriceTime!RemoveAt, v, x, y
<1> QED
  BY <1>7, <1>8 DEF n

(* Back links and tails agree with the chains.                             *)
LEMMA ChainLinks ==
  ASSUME NEW b, Typed(b), NEW a, Queued(b, a), NEW s \in Side, NEW t \in Ticks,
         NEW w, Chain(b, s, t, w)
  PROVE  /\ \A i \in DOMAIN w : b.slot[w[i]].prev = IF i = 1 THEN NullIndex ELSE w[i - 1]
         /\ w = <<>> => b.level[s][t].tail = NullIndex
         /\ w # <<>> => Len(w) \in DOMAIN w /\ b.level[s][t].tail = w[Len(w)]
<1>1. /\ w \in Seq(Slots) /\ Len(w) \in Nat /\ DOMAIN w = 1 .. Len(w)
      /\ \A i \in DOMAIN w : w[i] \in OrdersAt(b, s, t) /\ w[i] # NullIndex
  BY SlotAssumption DEF Chain
<1>2. \A h \in OrdersAt(b, s, t) : \E i \in DOMAIN w : w[i] = h
  BY DEF Chain
<1>3. \A i, j \in DOMAIN w : w[i] = w[j] => i = j
  BY DEF Chain
<1>4. \A i \in DOMAIN w : b.slot[w[i]].next = IF i = Len(w) THEN NullIndex ELSE w[i + 1]
  BY DEF Chain
<1>5. b.level[s][t].head = IF w = <<>> THEN NullIndex ELSE w[1]
  BY DEF Chain
<1>6. ASSUME NEW i \in DOMAIN w
      PROVE  b.slot[w[i]].prev = IF i = 1 THEN NullIndex ELSE w[i - 1]
  <2> DEFINE p == b.slot[w[i]].prev
  <2>1. /\ p = NullIndex => b.level[s][t].head = w[i]
        /\ p # NullIndex => p \in OrdersAt(b, s, t) /\ b.slot[p].next = w[i]
    <3>1. w[i] \in b.live /\ b.slot[w[i]].side = s /\ b.slot[w[i]].px = t
      BY <1>1 DEF OrdersAt
    <3>2. LinkedBack(b, a, w[i])
      BY <3>1 DEF Queued
    <3> QED
      BY <3>1, <3>2 DEF LinkedBack
  <2> HIDE DEF p
  <2>2. i \in Nat /\ 1 <= i /\ i <= Len(w) /\ 1 \in DOMAIN w /\ w # <<>>
    BY <1>1
  <2>3. CASE p = NullIndex
    <3>1. i = 1
      BY <1>3, <1>5, <2>1, <2>2, <2>3
    <3> QED
      BY <2>3, <3>1 DEF p
  <2>4. CASE p # NullIndex
    <3>1. PICK j \in DOMAIN w : w[j] = p
      BY <1>2, <2>1, <2>4
    <3>2. j # Len(w) /\ w[j + 1] = w[i]
      BY <1>1, <1>4, <2>1, <2>4, <3>1
    <3>3. j \in Nat /\ 1 <= j /\ j + 1 \in DOMAIN w
      BY <1>1, <3>1, <3>2
    <3>4. j + 1 = i
      BY <1>3, <3>2, <3>3
    <3>5. i # 1 /\ i - 1 = j
      BY <3>3, <3>4
    <3> QED
      BY <3>1, <3>5 DEF p
  <2> QED
    BY <2>3, <2>4
<1>7. Anchored(b, a, s, t)
  BY DEF Queued
<1>8. w = <<>> => b.level[s][t].tail = NullIndex
  <2>1. w = <<>> => OrdersAt(b, s, t) = {}
    BY <1>2
  <2> QED
    BY <1>7, <2>1 DEF Anchored
<1>9. ASSUME w # <<>> PROVE Len(w) \in DOMAIN w /\ b.level[s][t].tail = w[Len(w)]
  <2>1. 1 \in DOMAIN w /\ Len(w) \in DOMAIN w
    BY <1>1, <1>9
  <2>2. OrdersAt(b, s, t) # {}
    BY <1>1, <2>1
  <2>3. b.level[s][t].tail \in OrdersAt(b, s, t) /\ b.slot[b.level[s][t].tail].next = NullIndex
    BY <1>7, <2>2 DEF Anchored
  <2>4. PICK j \in DOMAIN w : w[j] = b.level[s][t].tail
    BY <1>2, <2>3
  <2>5. j = Len(w)
    <3>1. j # Len(w) => w[j + 1] = NullIndex /\ j + 1 \in DOMAIN w
      BY <1>1, <1>4, <2>3, <2>4
    <3> QED
      BY <1>1, <3>1
  <2> QED
    BY <2>1, <2>4, <2>5
<1> QED
  BY <1>6, <1>8, <1>9

(* A new order extends its chain; the others stay.                         *)
LEMMA InsertChain ==
  ASSUME NEW b, Typed(b), NEW a, Queued(b, a), NEW h \in Slots \ b.live, NEW r \in Ref,
         NEW s \in Side, NEW q \in Int, q > 0, NEW t \in Ticks, NEW w, Chain(b, s, t, w)
  PROVE  LET c == Insert(b, h, r, s, q, t)
         IN  /\ Chain(c, s, t, Append(w, h))
             /\ Reads(c, Append(w, h)) = Append(Reads(b, w), [ref |-> r, qty |-> q])
<1> DEFINE c == Insert(b, h, r, s, q, t)
           n == Len(w) + 1
<1>1. /\ w \in Seq(Slots) /\ Len(w) \in Nat /\ DOMAIN w = 1 .. Len(w)
      /\ \A i \in DOMAIN w : w[i] \in OrdersAt(b, s, t) /\ w[i] \in b.live
  BY DEF Chain, OrdersAt
<1>2. /\ n \in Nat /\ Append(w, h) \in Seq(Slots) /\ Len(Append(w, h)) = n
      /\ DOMAIN Append(w, h) = DOMAIN w \union {n} /\ n \notin DOMAIN w
      /\ Append(w, h)[n] = h /\ \A i \in DOMAIN w : Append(w, h)[i] = w[i]
  BY <1>1
<1>3. /\ c.slot[h].ref = r /\ c.slot[h].qty = q /\ c.slot[h].next = NullIndex
      /\ \A i \in b.live : /\ c.slot[i].ref = b.slot[i].ref /\ c.slot[i].qty = b.slot[i].qty
                           /\ c.slot[i].next = IF i = b.level[s][t].tail THEN h ELSE b.slot[i].next
      /\ OrdersAt(c, s, t) = OrdersAt(b, s, t) \union {h}
  BY InsertOrders
<1>4. c.level[s][t].head = IF b.level[s][t].tail = NullIndex THEN h ELSE b.level[s][t].head
  BY InsertLevels
<1>5. /\ w = <<>> => b.level[s][t].tail = NullIndex
      /\ w # <<>> => Len(w) \in DOMAIN w /\ b.level[s][t].tail = w[Len(w)]
  BY ChainLinks
<1>6. h \notin b.live /\ NullIndex \notin b.live
  BY SlotAssumption DEF Typed, Book
<1> DEFINE v == Append(w, h)
<1> HIDE DEF c, v, n
<1>7. /\ \A i \in DOMAIN v : v[i] \in OrdersAt(c, s, t)
      /\ \A x \in OrdersAt(c, s, t) : \E i \in DOMAIN v : v[i] = x
  BY <1>1, <1>2, <1>3 DEF Chain, v
<1>8. \A i, j \in DOMAIN v : v[i] = v[j] => i = j
  BY <1>1, <1>2, <1>6 DEF Chain, v
<1>9. ASSUME NEW i \in DOMAIN v
      PROVE  c.slot[v[i]].next = IF i = Len(v) THEN NullIndex ELSE v[i + 1]
  <2>1. CASE i = n
    BY <1>2, <1>3, <2>1 DEF v
  <2>2. CASE i # n
    <3>1. i \in DOMAIN w /\ v[i] = w[i] /\ i \in Nat /\ i <= Len(w) /\ w # <<>>
      BY <1>1, <1>2, <2>2 DEF v
    <3>2. w[i] = b.level[s][t].tail <=> i = Len(w)
      BY <1>5, <3>1 DEF Chain
    <3>3. c.slot[v[i]].next = IF i = Len(w) THEN h ELSE w[i + 1]
      BY <1>1, <1>3, <3>1, <3>2 DEF Chain
    <3>4. i # Len(w) => i + 1 \in DOMAIN w
      BY <1>1, <3>1
    <3>5. i + 1 = n <=> i = Len(w)
      BY <1>1, <3>1 DEF n
    <3> QED
      BY <1>2, <2>2, <3>3, <3>4, <3>5 DEF v
  <2> QED
    BY <2>1, <2>2
<1>10. c.level[s][t].head = v[1] /\ v # <<>>
  <2>1. CASE w = <<>>
    <3>1. n = 1
      BY <2>1 DEF n
    <3>2. v # <<>>
      BY <1>2 DEF v
    <3> QED
      BY <1>2, <1>4, <1>5, <2>1, <3>1, <3>2 DEF v
  <2>2. CASE w # <<>>
    <3>1. 1 \in DOMAIN w /\ v[1] = w[1] /\ b.level[s][t].head = w[1]
      BY <1>1, <1>2, <2>2 DEF v, Chain
    <3>2. b.level[s][t].tail # NullIndex
      BY <1>1, <1>5, <1>6, <2>2
    <3>3. v # <<>>
      BY <1>2 DEF v
    <3> QED
      BY <1>4, <3>1, <3>2, <3>3
  <2> QED
    BY <2>1, <2>2
<1>11. Chain(c, s, t, v)
  <2>1. v \in Seq(Slots)
    BY <1>2 DEF v
  <2> QED
    BY <1>7, <1>8, <1>9, <1>10, <2>1 DEF Chain
<1>12. Reads(c, v) = Append(Reads(b, w), [ref |-> r, qty |-> q])
  <2> DEFINE rw == Reads(b, w)
             e == [ref |-> r, qty |-> q]
             T == {[ref |-> b.slot[w[k]].ref, qty |-> b.slot[w[k]].qty] : k \in 1 .. Len(w)}
  <2>1. rw \in Seq(T) /\ Len(rw) = Len(w)
    BY <1>1 DEF Reads
  <2>2. \A k \in 1 .. Len(w) : rw[k] = [ref |-> c.slot[v[k]].ref, qty |-> c.slot[v[k]].qty]
    BY <1>1, <1>2, <1>3 DEF Reads, v
  <2>3. e = [ref |-> c.slot[v[n]].ref, qty |-> c.slot[v[n]].qty]
    BY <1>2, <1>3 DEF v
  <2> HIDE DEF rw, e, T
  <2>4. Append(rw, e) = [k \in 1 .. n |-> IF k = n THEN e ELSE rw[k]]
    BY <1>1, <2>1, AppendIs DEF n
  <2>5. \A k \in 1 .. n : k = n \/ k \in 1 .. Len(w)
    BY <1>1 DEF n
  <2>6. Append(rw, e) = [k \in 1 .. n |-> [ref |-> c.slot[v[k]].ref, qty |-> c.slot[v[k]].qty]]
    BY <2>2, <2>3, <2>4, <2>5
  <2>7. Len(v) = n
    BY <1>2 DEF v
  <2> QED
    BY <2>6, <2>7 DEF Reads, rw, e
<1> QED
  BY <1>11, <1>12 DEF c, v

LEMMA InsertOtherChains ==
  ASSUME NEW b, Typed(b), NEW a, Queued(b, a), NEW h \in Slots \ b.live, NEW r \in Ref,
         NEW s \in Side, NEW q \in Int, q > 0, NEW t \in Ticks,
         NEW x \in Side, NEW y \in Ticks, ~(x = s /\ y = t), NEW w, Chain(b, x, y, w)
  PROVE  LET c == Insert(b, h, r, s, q, t)
         IN  Chain(c, x, y, w) /\ Reads(c, w) = Reads(b, w)
<1> DEFINE c == Insert(b, h, r, s, q, t)
<1>1. /\ \A i \in b.live : /\ c.slot[i].ref = b.slot[i].ref /\ c.slot[i].qty = b.slot[i].qty
                           /\ c.slot[i].next = IF i = b.level[s][t].tail THEN h ELSE b.slot[i].next
      /\ OrdersAt(c, x, y) = OrdersAt(b, x, y)
  BY InsertOrders
<1>2. c.level[x][y] = b.level[x][y]
  <2>1. \A u \in Side, v \in Ticks : ~(u = s /\ v = t) => c.level[u][v] = b.level[u][v]
    BY InsertLevels
  <2> HIDE DEF c
  <2> QED
    BY <2>1
<1>3. \A i \in DOMAIN w : w[i] \in b.live /\ b.slot[w[i]].side = x /\ b.slot[w[i]].px = y
  BY DEF Chain, OrdersAt
<1>4. b.level[s][t].tail \notin {w[i] : i \in DOMAIN w}
  <2>1. Anchored(b, a, s, t)
    BY DEF Queued
  <2>2. NullIndex \notin b.live
    BY SlotAssumption DEF Typed, Book
  <2> QED
    BY <1>3, <2>1, <2>2 DEF Anchored, OrdersAt
<1> HIDE DEF c
<1>5. Chain(c, x, y, w)
  BY <1>1, <1>2, <1>3, <1>4 DEF Chain
<1>6. Reads(c, w) = Reads(b, w)
  <2>1. w \in Seq(Slots)
    BY DEF Chain
  <2> QED
    BY <1>1, <1>3, <2>1 DEF Reads
<1> QED
  BY <1>5, <1>6 DEF c

(* An order that leaves is taken out of its chain; the others stay.        *)
Spliced(w, i) == [k \in 1 .. (Len(w) - 1) |-> IF k < i THEN w[k] ELSE w[k + 1]]

LEMMA DropChain ==
  ASSUME NEW b, Typed(b), NEW a \in [Slots -> SUBSET Slots], Queued(b, a),
         NEW s \in Side, NEW t \in Ticks, NEW w, Chain(b, s, t, w), NEW i \in DOMAIN w
  PROVE  LET c == Drop(b, w[i])
         IN  /\ Chain(c, s, t, Spliced(w, i))
             /\ Reads(c, Spliced(w, i)) = Spliced(Reads(b, w), i)
<1> DEFINE h == w[i]
           c == Drop(b, h)
           v == Spliced(w, i)
           n == Len(w) - 1
<1>1. /\ w \in Seq(Slots) /\ Len(w) \in Nat /\ DOMAIN w = 1 .. Len(w)
      /\ \A k \in DOMAIN w : w[k] \in OrdersAt(b, s, t) /\ w[k] \in b.live /\ w[k] \in Slots
      /\ i \in Nat /\ 1 <= i /\ i <= Len(w)
  BY DEF Chain, OrdersAt
<1>2. h \in b.live /\ b.slot[h].side = s /\ b.slot[h].px = t
  BY <1>1 DEF OrdersAt
<1>3. /\ \A x \in b.live \ {h} :
           /\ c.slot[x].ref = b.slot[x].ref /\ c.slot[x].qty = b.slot[x].qty
           /\ c.slot[x].next = IF x = b.slot[h].prev THEN b.slot[h].next ELSE b.slot[x].next
      /\ OrdersAt(c, s, t) = OrdersAt(b, s, t) \ {h}
  BY <1>2, DropOrders
<1>4. c.level[s][t].head = IF b.slot[h].prev = NullIndex THEN b.slot[h].next ELSE b.level[s][t].head
  <2> DEFINE lv == b.level[b.slot[h].side][b.slot[h].px]
  <2>1. c.level[b.slot[h].side][b.slot[h].px].head =
          IF b.slot[h].prev = NullIndex THEN b.slot[h].next ELSE lv.head
    <3> HIDE DEF h, lv
    <3> QED
      BY <1>2, DropLevels DEF lv
  <2> HIDE DEF c, h
  <2> QED
    BY <1>2, <2>1
<1>5. b.slot[h].prev = IF i = 1 THEN NullIndex ELSE w[i - 1]
  <2>1. \A k \in DOMAIN w : b.slot[w[k]].prev = IF k = 1 THEN NullIndex ELSE w[k - 1]
    BY ChainLinks
  <2> QED
    BY <2>1
<1>6. /\ \A k \in DOMAIN w : b.slot[w[k]].next = IF k = Len(w) THEN NullIndex ELSE w[k + 1]
      /\ \A j, k \in DOMAIN w : w[j] = w[k] => j = k
      /\ \A x \in OrdersAt(b, s, t) : \E k \in DOMAIN w : w[k] = x
      /\ b.level[s][t].head = IF w = <<>> THEN NullIndex ELSE w[1]
  BY DEF Chain
<1>7. NullIndex \notin Slots
  BY SlotAssumption
<1> DEFINE At(k) == IF k < i THEN k ELSE k + 1
<1>8. /\ n \in Nat /\ v \in Seq(Slots) /\ Len(v) = n /\ DOMAIN v = 1 .. n
      /\ \A k \in 1 .. n : /\ v[k] = w[At(k)] /\ At(k) \in DOMAIN w /\ At(k) # i
                           /\ At(k) \in Nat
  <2>1. n \in Nat /\ \A k \in 1 .. n : At(k) \in DOMAIN w /\ At(k) # i /\ At(k) \in Nat
    BY <1>1
  <2>2. v = [k \in 1 .. n |-> w[At(k)]]
    BY DEF Spliced
  <2> HIDE DEF At, n, v
  <2>3. \A k \in 1 .. n : w[At(k)] \in Slots
    BY <1>1, <2>1
  <2> QED
    BY <2>1, <2>2, <2>3
<1>9. \A k \in DOMAIN w \ {i} : \E j \in 1 .. n : At(j) = k
  <2> SUFFICES ASSUME NEW k \in DOMAIN w \ {i} PROVE \E j \in 1 .. n : At(j) = k
    OBVIOUS
  <2>1. CASE k < i
    <3>1. k \in 1 .. n /\ At(k) = k
      BY <1>1, <2>1
    <3> QED
      BY <3>1
  <2>2. CASE ~(k < i)
    <3>1. k - 1 \in 1 .. n /\ At(k - 1) = k
      BY <1>1, <2>2
    <3> QED
      BY <3>1
  <2> QED
    BY <2>1, <2>2
<1>10. \A j, k \in 1 .. n : At(j) = At(k) => j = k
  BY <1>1
<1> HIDE DEF c, v, n
<1>11. /\ \A k \in DOMAIN v : v[k] \in OrdersAt(c, s, t)
       /\ \A x \in OrdersAt(c, s, t) : \E k \in DOMAIN v : v[k] = x
       /\ \A j, k \in DOMAIN v : v[j] = v[k] => j = k
  <2> HIDE DEF At
  <2>1. \A k \in 1 .. n : w[At(k)] # h
    BY <1>6, <1>8
  <2>2. \A k \in DOMAIN v : v[k] \in OrdersAt(c, s, t)
    BY <1>1, <1>3, <1>8, <2>1
  <2>3. \A x \in OrdersAt(c, s, t) : \E k \in DOMAIN v : v[k] = x
    <3> SUFFICES ASSUME NEW x \in OrdersAt(c, s, t) PROVE \E k \in DOMAIN v : v[k] = x
      OBVIOUS
    <3>1. PICK k \in DOMAIN w : w[k] = x
      BY <1>3, <1>6
    <3>2. k \in DOMAIN w \ {i}
      BY <1>3, <3>1
    <3>3. PICK j \in 1 .. n : At(j) = k
      BY <1>9, <3>2
    <3> QED
      BY <1>8, <3>1, <3>3
  <2>4. \A j, k \in DOMAIN v : v[j] = v[k] => j = k
    BY <1>6, <1>8, <1>10
  <2> QED
    BY <2>2, <2>3, <2>4
<1>12. ASSUME NEW k \in DOMAIN v
       PROVE  c.slot[v[k]].next = IF k = Len(v) THEN NullIndex ELSE v[k + 1]
  <2>1. k \in 1 .. n /\ k \in Nat /\ n = Len(w) - 1 /\ n \in Nat
    BY <1>8 DEF n
  <2>2. v[k] = w[At(k)] /\ At(k) \in DOMAIN w /\ At(k) # i
    BY <1>8, <2>1
  <2>3. v[k] \in b.live \ {h}
    BY <1>1, <1>6, <2>2
  <2>4. k # n => k + 1 \in 1 .. n /\ v[k + 1] = w[At(k + 1)]
    BY <1>8, <2>1
  <2>5. CASE v[k] = b.slot[h].prev
    <3>1. i # 1 /\ v[k] = w[i - 1]
      BY <1>5, <1>7, <1>8, <2>5
    <3>2. i - 1 \in DOMAIN w /\ At(k) = i - 1
      <4>1. i - 1 \in DOMAIN w
        BY <1>1, <3>1
      <4>2. w[At(k)] = w[i - 1]
        BY <2>2, <3>1
      <4> HIDE DEF At
      <4> QED
        BY <1>6, <2>2, <4>1, <4>2
    <3>3. k = i - 1 /\ (k = n <=> i = Len(w)) /\ At(k + 1) = i + 1
      BY <1>1, <2>1, <3>2
    <3>4. c.slot[v[k]].next = IF i = Len(w) THEN NullIndex ELSE w[i + 1]
      BY <1>3, <1>6, <2>3, <2>5
    <3> QED
      BY <1>8, <2>4, <3>3, <3>4
  <2>6. CASE v[k] # b.slot[h].prev
    <3>1. At(k) + 1 # i
      <4>1. ASSUME At(k) + 1 = i PROVE FALSE
        <5>1. At(k) = i - 1 /\ i # 1
          BY <1>1, <1>8, <2>1, <2>2, <4>1
        <5> QED
          BY <1>5, <2>2, <2>6, <5>1
      <4> QED
        BY <4>1
    <3>2. c.slot[v[k]].next = IF At(k) = Len(w) THEN NullIndex ELSE w[At(k) + 1]
      BY <1>3, <1>6, <2>2, <2>3, <2>6
    <3>3. (At(k) = Len(w) <=> k = n) /\ (k # n => At(k + 1) = At(k) + 1)
      BY <1>1, <2>1, <2>2, <3>1
    <3> QED
      BY <1>8, <2>4, <3>2, <3>3
  <2> QED
    BY <2>5, <2>6
<1>13. c.level[s][t].head = IF v = <<>> THEN NullIndex ELSE v[1]
  <2>0. n = Len(w) - 1 /\ (v = <<>> <=> n = 0) /\ w # <<>>
    BY <1>1, <1>8 DEF n
  <2>1. CASE i = 1
    <3>1. b.slot[h].next = IF Len(w) = 1 THEN NullIndex ELSE w[2]
      <4>1. b.slot[w[i]].next = IF i = Len(w) THEN NullIndex ELSE w[i + 1]
        BY <1>6
      <4>2. i + 1 = 2
        BY <2>1
      <4> HIDE DEF h
      <4> QED
        BY <2>1, <4>1, <4>2 DEF h
    <3>2. n # 0 => 1 \in 1 .. n /\ At(1) = 2
      BY <1>1, <1>8, <2>1
    <3>3. n = 0 <=> Len(w) = 1
      BY <1>1, <2>0
    <3> QED
      BY <1>4, <1>5, <1>8, <2>0, <2>1, <3>1, <3>2, <3>3
  <2>2. CASE i # 1
    <3>1. 1 \in 1 .. n /\ At(1) = 1
      BY <1>1, <2>0, <2>2
    <3>2. b.slot[h].prev # NullIndex
      <4>1. i - 1 \in DOMAIN w
        BY <1>1, <2>2
      <4> QED
        BY <1>1, <1>5, <1>7, <2>2, <4>1
    <3>3. v # <<>> /\ v[1] = w[1]
      BY <1>8, <3>1
    <3> QED
      BY <1>4, <1>6, <2>0, <3>2, <3>3
  <2> QED
    BY <2>1, <2>2
<1>14. Chain(c, s, t, v)
  BY <1>8, <1>11, <1>12, <1>13 DEF Chain
<1>15. Reads(c, v) = Spliced(Reads(b, w), i)
  <2> DEFINE R(x, k) == [ref |-> x.slot[k].ref, qty |-> x.slot[k].qty]
             u == [k \in 1 .. Len(w) |-> R(b, w[k])]
             T == {R(b, w[k]) : k \in 1 .. Len(w)}
  <2>1. u \in Seq(T) /\ Len(u) = Len(w) /\ \A k \in 1 .. Len(w) : u[k] = R(b, w[k])
    BY <1>1
  <2>2. \A k \in 1 .. n : R(c, v[k]) = R(b, w[At(k)])
    <3> SUFFICES ASSUME NEW k \in 1 .. n PROVE R(c, v[k]) = R(b, w[At(k)])
      OBVIOUS
    <3> HIDE DEF At
    <3>1. v[k] = w[At(k)] /\ v[k] \in b.live \ {h}
      BY <1>1, <1>6, <1>8
    <3> QED
      BY <1>3, <3>1
  <2> HIDE DEF u, T, R
  <2>3. Spliced(u, i) = [k \in 1 .. n |-> IF k < i THEN u[k] ELSE u[k + 1]]
    BY <2>1 DEF Spliced, n
  <2>4. ASSUME NEW k \in 1 .. n PROVE (IF k < i THEN u[k] ELSE u[k + 1]) = R(c, v[k])
    <3>1. At(k) \in 1 .. Len(w)
      BY <1>1, <1>8
    <3>2. (IF k < i THEN u[k] ELSE u[k + 1]) = u[At(k)]
      OBVIOUS
    <3> HIDE DEF At
    <3> QED
      BY <2>1, <2>2, <3>1, <3>2
  <2>5. Spliced(u, i) = [k \in 1 .. n |-> R(c, v[k])]
    BY <2>3, <2>4
  <2>6. Reads(c, v) = [k \in 1 .. n |-> R(c, v[k])] /\ Reads(b, w) = u
    BY <1>8 DEF Reads, R, u
  <2> QED
    BY <2>5, <2>6
<1> QED
  BY <1>14, <1>15 DEF c, v

LEMMA DropOtherChains ==
  ASSUME NEW b, Typed(b), NEW a \in [Slots -> SUBSET Slots], Queued(b, a), NEW h \in b.live,
         NEW x \in Side, NEW y \in Ticks, ~(x = b.slot[h].side /\ y = b.slot[h].px),
         NEW w, Chain(b, x, y, w)
  PROVE  LET c == Drop(b, h)
         IN  Chain(c, x, y, w) /\ Reads(c, w) = Reads(b, w)
<1> DEFINE c == Drop(b, h)
<1>1. /\ \A i \in b.live \ {h} :
           /\ c.slot[i].ref = b.slot[i].ref /\ c.slot[i].qty = b.slot[i].qty
           /\ c.slot[i].next = IF i = b.slot[h].prev THEN b.slot[h].next ELSE b.slot[i].next
      /\ OrdersAt(c, x, y) = OrdersAt(b, x, y) \ {h}
  BY DropOrders
<1>2. c.level[x][y] = b.level[x][y]
  <2>1. \A u \in Side, v \in Ticks :
          ~(u = b.slot[h].side /\ v = b.slot[h].px) => c.level[u][v] = b.level[u][v]
    BY DropLevels
  <2> HIDE DEF c
  <2> QED
    BY <2>1
<1>3. \A i \in DOMAIN w : w[i] \in b.live \ {h} /\ b.slot[w[i]].side = x /\ b.slot[w[i]].px = y
  BY DEF Chain, OrdersAt
<1>4. b.slot[h].prev \notin {w[i] : i \in DOMAIN w}
  <2>1. LinkedBack(b, a, h)
    BY DEF Queued
  <2>2. NullIndex \notin b.live
    BY SlotAssumption DEF Typed, Book
  <2> QED
    BY <1>3, <2>1, <2>2 DEF LinkedBack, OrdersAt
<1>5. OrdersAt(c, x, y) = OrdersAt(b, x, y)
  BY <1>1 DEF OrdersAt
<1> HIDE DEF c
<1>6. Chain(c, x, y, w)
  BY <1>1, <1>2, <1>3, <1>4, <1>5 DEF Chain
<1>7. Reads(c, w) = Reads(b, w)
  <2>1. w \in Seq(Slots)
    BY DEF Chain
  <2> QED
    BY <1>1, <1>3, <2>1 DEF Reads
<1> QED
  BY <1>6, <1>7 DEF c

LEMMA ShrinkChains ==
  ASSUME NEW b, Typed(b), NEW h \in b.live, NEW q \in Int, 0 < q, q < b.slot[h].qty,
         NEW x \in Side, NEW y \in Ticks, NEW w, Chain(b, x, y, w)
  PROVE  LET c == Shrink(b, h, q)
         IN  /\ Chain(c, x, y, w)
             /\ Reads(c, w) =
                  [k \in 1 .. Len(w) |->
                     [ref |-> b.slot[w[k]].ref,
                      qty |-> IF w[k] = h THEN b.slot[w[k]].qty - q ELSE b.slot[w[k]].qty]]
<1> DEFINE c == Shrink(b, h, q)
<1>1. /\ \A i \in b.live :
           /\ c.slot[i].ref = b.slot[i].ref /\ c.slot[i].next = b.slot[i].next
           /\ c.slot[i].qty = IF i = h THEN b.slot[i].qty - q ELSE b.slot[i].qty
      /\ OrdersAt(c, x, y) = OrdersAt(b, x, y) /\ c.level = Less(b, h, q).level
  BY ShrinkOrders
<1>2. c.level[x][y].head = b.level[x][y].head
  <2>1. b.slot[h].side \in Side /\ b.slot[h].px \in Ticks
    BY LiveOrder
  <2>2. b.level[b.slot[h].side][b.slot[h].px] \in Level
    BY LiveOrder
  <2>3. [b.level[b.slot[h].side][b.slot[h].px] EXCEPT !.total = @ - q].head =
          b.level[b.slot[h].side][b.slot[h].px].head
    BY <2>2 DEF Level
  <2>4. Less(b, h, q).level =
          WithLevel(b, b.slot[h].side, b.slot[h].px,
                    [b.level[b.slot[h].side][b.slot[h].px] EXCEPT !.total = @ - q])
    BY DEF Less
  <2> DEFINE u == [b.level[b.slot[h].side][b.slot[h].px] EXCEPT !.total = @ - q]
             o == b.slot[h]
  <2>5. c.level = WithLevel(b, o.side, o.px, u)
    BY <1>1, <2>4
  <2>6. u.head = b.level[o.side][o.px].head
    BY <2>3
  <2> HIDE DEF c, u, o
  <2>7. c.level[x][y] = IF x = o.side /\ y = o.px THEN u ELSE b.level[x][y]
    BY <2>5 DEF WithLevel
  <2> QED
    BY <2>6, <2>7
<1>3. w \in Seq(Slots) /\ \A i \in DOMAIN w : w[i] \in b.live
  BY DEF Chain, OrdersAt
<1> HIDE DEF c
<1>4. Chain(c, x, y, w)
  BY <1>1, <1>2, <1>3 DEF Chain
<1>5. Reads(c, w) =
        [k \in 1 .. Len(w) |->
           [ref |-> b.slot[w[k]].ref,
            qty |-> IF w[k] = h THEN b.slot[w[k]].qty - q ELSE b.slot[w[k]].qty]]
  <2>1. \A k \in 1 .. Len(w) : w[k] \in b.live
    BY <1>3
  <2> QED
    BY <1>1, <2>1 DEF Reads
<1> QED
  BY <1>4, <1>5 DEF c

----------------------------------------------------------------------------
(* Queues: all the chains of a book as their reader sees them.             *)

LEMMA QueuesAt ==
  ASSUME NEW b, NEW s \in Side, NEW t \in Ticks, NEW w, Chain(b, s, t, w)
  PROVE  Queues(b)[s][t] = Reads(b, w)
<1>1. Queues(b)[s][t] = QueueOf(b, s, t)
  BY DEF Queues
<1> QED
  BY <1>1, QueueIsChain

LEMMA ReadsSeq ==
  ASSUME NEW b, NEW w, Len(w) \in Nat
  PROVE  \E S : Reads(b, w) \in Seq(S) /\ Len(Reads(b, w)) = Len(w)
<1> DEFINE T == {[ref |-> b.slot[w[k]].ref, qty |-> b.slot[w[k]].qty] : k \in 1 .. Len(w)}
<1>1. Reads(b, w) \in Seq(T) /\ Len(Reads(b, w)) = Len(w)
  BY DEF Reads
<1> QED
  BY <1>1

(* What two books whose queues agree but for one level have to show.       *)
LEMMA QueuesDiffer ==
  ASSUME NEW b, NEW c, NEW s \in Side, NEW t \in Ticks, NEW v,
         QueueOf(c, s, t) = v,
         \A x \in Side, y \in Ticks : ~(x = s /\ y = t) => QueueOf(c, x, y) = QueueOf(b, x, y)
  PROVE  Queues(c) = [Queues(b) EXCEPT ![s][t] = v]
<1>1. \A x \in Side, y \in Ticks :
        QueueOf(c, x, y) = IF x = s /\ y = t THEN v ELSE QueueOf(b, x, y)
  OBVIOUS
<1> QED
  BY <1>1 DEF Queues

(* A new order joins the back of its queue.                                *)
LEMMA InsertQueues ==
  ASSUME NEW b, Typed(b), NEW a, Queued(b, a), Chained(b), NEW h \in Slots \ b.live,
         NEW r \in Ref, NEW s \in Side, NEW q \in Int, q > 0, NEW t \in Ticks
  PROVE  LET c == Insert(b, h, r, s, q, t)
         IN  /\ Chained(c)
             /\ Queues(c) = [Queues(b) EXCEPT ![s][t] =
                               Append(Queues(b)[s][t], [ref |-> r, qty |-> q])]
<1> DEFINE c == Insert(b, h, r, s, q, t)
<1>1. PICK w : Chain(b, s, t, w)
  BY DEF Chained
<1>2. Chain(c, s, t, Append(w, h)) /\ Reads(c, Append(w, h)) = Append(Reads(b, w), [ref |-> r, qty |-> q])
  BY <1>1, InsertChain
<1>3. ASSUME NEW x \in Side, NEW y \in Ticks, ~(x = s /\ y = t)
      PROVE  (\E u : Chain(c, x, y, u)) /\ QueueOf(c, x, y) = QueueOf(b, x, y)
  <2>1. PICK u : Chain(b, x, y, u)
    BY DEF Chained
  <2>2. Chain(c, x, y, u) /\ Reads(c, u) = Reads(b, u)
    BY <1>3, <2>1, InsertOtherChains
  <2> HIDE DEF c
  <2>3. QueueOf(c, x, y) = Reads(c, u) /\ QueueOf(b, x, y) = Reads(b, u)
    BY <2>1, <2>2, QueueIsChain
  <2> QED
    BY <2>2, <2>3
<1> HIDE DEF c
<1>4. QueueOf(c, s, t) = Append(Queues(b)[s][t], [ref |-> r, qty |-> q])
  <2>1. QueueOf(c, s, t) = Reads(c, Append(w, h))
    BY <1>2, QueueIsChain
  <2>2. Queues(b)[s][t] = Reads(b, w)
    BY <1>1, QueuesAt
  <2> QED
    BY <1>2, <2>1, <2>2
<1>5. Queues(c) = [Queues(b) EXCEPT ![s][t] = Append(Queues(b)[s][t], [ref |-> r, qty |-> q])]
  BY <1>3, <1>4, QueuesDiffer
<1>6. Chained(c)
  BY <1>2, <1>3 DEF Chained
<1> QED
  BY <1>5, <1>6 DEF c

(* An order has a place in the queue of its level.                         *)
LEMMA PlaceOf ==
  ASSUME NEW b, Typed(b), Chained(b), NEW h \in b.live
  PROVE  \E w : /\ Chain(b, b.slot[h].side, b.slot[h].px, w)
                /\ Queues(b)[b.slot[h].side][b.slot[h].px] = Reads(b, w)
                /\ Len(w) \in Nat /\ DOMAIN w = 1 .. Len(w)
                /\ \E i \in DOMAIN w : w[i] = h
<1>1. b.slot[h].side \in Side /\ b.slot[h].px \in Ticks
  BY LiveOrder
<1>2. PICK w : Chain(b, b.slot[h].side, b.slot[h].px, w)
  BY <1>1 DEF Chained
<1>3. Queues(b)[b.slot[h].side][b.slot[h].px] = Reads(b, w)
  BY <1>1, <1>2, QueuesAt
<1>4. h \in OrdersAt(b, b.slot[h].side, b.slot[h].px)
  BY DEF OrdersAt
<1> QED
  BY <1>2, <1>3, <1>4 DEF Chain

(* A leaving order's entry goes from the place it had.                     *)
LEMMA DropQueues ==
  ASSUME NEW b, Typed(b), NEW a \in [Slots -> SUBSET Slots], Queued(b, a), Chained(b),
         NEW s \in Side, NEW t \in Ticks, NEW h \in OrdersAt(b, s, t)
  PROVE  LET c == Drop(b, h)
         IN  /\ Chained(c)
             /\ \E i \in DOMAIN Queues(b)[s][t] :
                  /\ Queues(b)[s][t][i] = [ref |-> b.slot[h].ref, qty |-> b.slot[h].qty]
                  /\ Queues(c) = [Queues(b) EXCEPT ![s][t] =
                                    PriceTime!RemoveAt(Queues(b)[s][t], i)]
<1> DEFINE c == Drop(b, h)
<1>1. h \in b.live /\ b.slot[h].side = s /\ b.slot[h].px = t
  BY DEF OrdersAt
<1>2. PICK w : /\ Chain(b, s, t, w) /\ Queues(b)[s][t] = Reads(b, w)
               /\ Len(w) \in Nat /\ DOMAIN w = 1 .. Len(w) /\ \E i \in DOMAIN w : w[i] = h
  BY <1>1, PlaceOf
<1>3. PICK i \in DOMAIN w : w[i] = h
  BY <1>2
<1>4. Chain(c, s, t, Spliced(w, i)) /\ Reads(c, Spliced(w, i)) = Spliced(Reads(b, w), i)
  BY <1>1, <1>2, <1>3, DropChain
<1>5. ASSUME NEW x \in Side, NEW y \in Ticks, ~(x = s /\ y = t)
      PROVE  (\E u : Chain(c, x, y, u)) /\ QueueOf(c, x, y) = QueueOf(b, x, y)
  <2>1. PICK u : Chain(b, x, y, u)
    BY DEF Chained
  <2>2. Chain(c, x, y, u) /\ Reads(c, u) = Reads(b, u)
    BY <1>1, <1>5, <2>1, DropOtherChains
  <2> HIDE DEF c
  <2>3. QueueOf(c, x, y) = Reads(c, u) /\ QueueOf(b, x, y) = Reads(b, u)
    BY <2>1, <2>2, QueueIsChain
  <2> QED
    BY <2>2, <2>3
<1> HIDE DEF c
<1>6. Chained(c)
  BY <1>4, <1>5 DEF Chained
<1> DEFINE u == Reads(b, w)
<1>7. DOMAIN u = 1 .. Len(w) /\ u[i] = [ref |-> b.slot[h].ref, qty |-> b.slot[h].qty]
  BY <1>2, <1>3 DEF Reads
<1>8. PriceTime!RemoveAt(u, i) = Spliced(u, i)
  <2>1. PICK S : u \in Seq(S) /\ Len(u) = Len(w)
    BY <1>2, ReadsSeq
  <2> HIDE DEF u
  <2> QED
    BY <1>2, <2>1, RemoveAtIs DEF Spliced
<1>9. QueueOf(c, s, t) = PriceTime!RemoveAt(u, i)
  BY <1>4, <1>8, QueueIsChain
<1>10. Queues(c) = [Queues(b) EXCEPT ![s][t] = PriceTime!RemoveAt(u, i)]
  <2>1. \A v : QueueOf(c, s, t) = v => Queues(c) = [Queues(b) EXCEPT ![s][t] = v]
    <3> HIDE DEF u
    <3>1. \A x \in Side, y \in Ticks : ~(x = s /\ y = t) => QueueOf(c, x, y) = QueueOf(b, x, y)
      BY <1>5
    <3> QED
      BY <3>1, QueuesDiffer
  <2> QED
    BY <1>9, <2>1, Zenon
<1> QED
  BY <1>2, <1>6, <1>7, <1>10 DEF c

(* An order that shrinks keeps its place.                                  *)
LEMMA ShrinkQueues ==
  ASSUME NEW b, Typed(b), Chained(b), NEW s \in Side, NEW t \in Ticks,
         NEW h \in OrdersAt(b, s, t), NEW q \in Int, 0 < q, q < b.slot[h].qty
  PROVE  LET c == Shrink(b, h, q)
         IN  /\ Chained(c)
             /\ \E i \in DOMAIN Queues(b)[s][t] :
                  /\ Queues(b)[s][t][i] = [ref |-> b.slot[h].ref, qty |-> b.slot[h].qty]
                  /\ Queues(c) = [Queues(b) EXCEPT ![s][t] =
                                    [Queues(b)[s][t] EXCEPT ![i].qty = @ - q]]
<1> DEFINE c == Shrink(b, h, q)
<1>1. h \in b.live /\ b.slot[h].side = s /\ b.slot[h].px = t
  BY DEF OrdersAt
<1>2. PICK w : /\ Chain(b, s, t, w) /\ Queues(b)[s][t] = Reads(b, w)
               /\ Len(w) \in Nat /\ DOMAIN w = 1 .. Len(w) /\ \E i \in DOMAIN w : w[i] = h
  BY <1>1, PlaceOf
<1>3. PICK i \in DOMAIN w : w[i] = h
  BY <1>2
<1>4. ASSUME NEW x \in Side, NEW y \in Ticks, NEW u, Chain(b, x, y, u)
      PROVE  /\ Chain(c, x, y, u)
             /\ Reads(c, u) =
                  [k \in 1 .. Len(u) |->
                     [ref |-> b.slot[u[k]].ref,
                      qty |-> IF u[k] = h THEN b.slot[u[k]].qty - q ELSE b.slot[u[k]].qty]]
  BY <1>1, <1>4, ShrinkChains
<1> HIDE DEF c
<1>5. Chained(c)
  BY <1>4 DEF Chained
<1>6. ASSUME NEW x \in Side, NEW y \in Ticks, ~(x = s /\ y = t)
      PROVE  QueueOf(c, x, y) = QueueOf(b, x, y)
  <2>1. PICK u : Chain(b, x, y, u)
    BY DEF Chained
  <2>2. \A k \in 1 .. Len(u) : u[k] # h
    <3>1. u \in Seq(Slots) /\ DOMAIN u = 1 .. Len(u)
      BY <2>1 DEF Chain
    <3> QED
      BY <1>1, <1>6, <2>1, <3>1 DEF Chain, OrdersAt
  <2>3. Reads(c, u) = Reads(b, u)
    BY <1>4, <2>1, <2>2 DEF Reads
  <2> QED
    BY <1>4, <2>1, <2>3, QueueIsChain
<1>7. \A k \in DOMAIN w : w[k] = h <=> k = i
  BY <1>2, <1>3 DEF Chain
<1> DEFINE u == Reads(b, w)
<1>8. DOMAIN u = 1 .. Len(w) /\ u[i] = [ref |-> b.slot[h].ref, qty |-> b.slot[h].qty]
  BY <1>2, <1>3 DEF Reads
<1>9. Reads(c, w) = [u EXCEPT ![i].qty = @ - q]
  <2>1. Reads(c, w) = [k \in 1 .. Len(w) |->
                         [ref |-> b.slot[w[k]].ref,
                          qty |-> IF w[k] = h THEN b.slot[w[k]].qty - q ELSE b.slot[w[k]].qty]]
    BY <1>1, <1>2, <1>4
  <2>2. [u EXCEPT ![i].qty = @ - q] =
          [k \in 1 .. Len(w) |-> IF k = i THEN [u[k] EXCEPT !.qty = u[k].qty - q] ELSE u[k]]
    <3>1. u = [k \in 1 .. Len(w) |-> u[k]]
      BY DEF Reads
    <3> HIDE DEF u
    <3> QED
      BY <3>1
  <2>3. \A k \in 1 .. Len(w) : u[k] = [ref |-> b.slot[w[k]].ref, qty |-> b.slot[w[k]].qty]
    BY DEF Reads
  <2> HIDE DEF u
  <2>4. ASSUME NEW k \in 1 .. Len(w)
        PROVE  [ref |-> b.slot[w[k]].ref,
                qty |-> IF w[k] = h THEN b.slot[w[k]].qty - q ELSE b.slot[w[k]].qty] =
               IF k = i THEN [u[k] EXCEPT !.qty = u[k].qty - q] ELSE u[k]
    <3>1. DOMAIN w = 1 .. Len(w)
      BY <1>2
    <3>2. w[k] = h <=> k = i
      BY <1>7, <3>1
    <3>3. u[k] = [ref |-> b.slot[w[k]].ref, qty |-> b.slot[w[k]].qty]
      BY <2>3
    <3>4. [u[k] EXCEPT !.qty = u[k].qty - q] =
            [ref |-> b.slot[w[k]].ref, qty |-> b.slot[w[k]].qty - q]
      BY <3>3
    <3> QED
      BY <3>2, <3>3, <3>4
  <2> QED
    BY <2>1, <2>2, <2>4
<1>10. QueueOf(c, s, t) = [u EXCEPT ![i].qty = @ - q]
  <2>1. Chain(c, s, t, w)
    BY <1>1, <1>2, <1>4
  <2>2. QueueOf(c, s, t) = Reads(c, w)
    BY <2>1, QueueIsChain
  <2> QED
    BY <1>9, <2>2, Zenon
<1>11. Queues(c) = [Queues(b) EXCEPT ![s][t] = [u EXCEPT ![i].qty = @ - q]]
  <2>1. PICK v : v = [u EXCEPT ![i].qty = @ - q]
    OBVIOUS
  <2>2. QueueOf(c, s, t) = v
    BY <1>10, <2>1
  <2> HIDE DEF u
  <2>3. Queues(c) = [Queues(b) EXCEPT ![s][t] = v]
    <3>1. \A x \in Side, y \in Ticks :
            QueueOf(c, x, y) = IF x = s /\ y = t THEN v ELSE QueueOf(b, x, y)
      BY <1>6, <2>2
    <3>2. \A x \in Side : [y \in Ticks |-> QueueOf(c, x, y)] =
            [y \in Ticks |-> IF x = s /\ y = t THEN v ELSE QueueOf(b, x, y)]
      BY <3>1
    <3> QED
      BY <3>2, ZenonT(30) DEF Queues
  <2> QED
    BY <2>1, <2>3, Zenon
<1> QED
  BY <1>2, <1>5, <1>8, <1>11 DEF c

(* Whatever rests in a queue is an order of the book.                      *)
LEMMA EntryIsOrder ==
  ASSUME NEW b, Chained(b), NEW s \in Side, NEW t \in Ticks, NEW i \in DOMAIN Queues(b)[s][t]
  PROVE  \E h \in b.live : b.slot[h].ref = Queues(b)[s][t][i].ref
<1>1. PICK w : Chain(b, s, t, w)
  BY DEF Chained
<1>2. Queues(b)[s][t] = Reads(b, w)
  BY <1>1, QueuesAt
<1>3. i \in 1 .. Len(w) /\ Queues(b)[s][t][i].ref = b.slot[w[i]].ref
  BY <1>2 DEF Reads
<1>4. w[i] \in b.live
  BY <1>1, <1>3 DEF Chain, OrdersAt
<1> QED
  BY <1>3, <1>4

----------------------------------------------------------------------------
(* The refinement, operation by operation.                                 *)

ChainsInv == QueuesInv /\ Chained(book)

LEMMA EmptyBookRefines == Init => ChainsInv /\ PriceTime!Init
<1> SUFFICES ASSUME Init PROVE Chained(book) /\ PriceTime!Init
  BY EmptyBookSound DEF ChainsInv
<1>1. ASSUME NEW s \in Side, NEW t \in Ticks PROVE Chain(book, s, t, <<>>)
  <2>1. OrdersAt(book, s, t) = {} /\ book.level[s][t].head = NullIndex
    BY DEF Init, EmptyBook, EmptyLevel, OrdersAt
  <2> QED
    BY <2>1 DEF Chain
<1>2. Chained(book)
  BY <1>1 DEF Chained
<1>3. \A s \in Side, t \in Ticks : QueueOf(book, s, t) = <<>>
  <2> SUFFICES ASSUME NEW s \in Side, NEW t \in Ticks PROVE QueueOf(book, s, t) = <<>>
    OBVIOUS
  <2>1. QueueOf(book, s, t) = Reads(book, <<>>)
    BY <1>1, QueueIsChain
  <2> QED
    BY <2>1 DEF Reads
<1> QED
  BY <1>2, <1>3 DEF PriceTime!Init, Queues

(* A reference without an order rests in no queue.                         *)
LEMMA NotResting ==
  ASSUME NEW r \in Ref, Chained(book), \A h \in book.live : book.slot[h].ref # r
  PROVE  r \notin PriceTime!Resting
<1>1. \A s \in Side, t \in Ticks : \A i \in DOMAIN Queues(book)[s][t] :
        Queues(book)[s][t][i].ref # r
  BY EntryIsOrder
<1> QED
  BY <1>1 DEF PriceTime!Resting

LEMMA AddRefines ==
  ASSUME ChainsInv, NEW r \in Ref \union {ZeroRef}, NEW s \in Side, NEW q \in Qty,
         NEW t \in PriceArg, Add(r, s, q, t)
  PROVE  /\ Chained(book')
         /\ \/ book' = book
            \/ \E n \in Ref, u \in Ticks, k \in Qty \ {0} : PriceTime!Join(n, s, k, u)
<1>1. Sound(book, ahead) /\ Typed(book) /\ Indexed(book) /\ Queued(book, ahead) /\ Chained(book)
  BY DEF ChainsInv, QueuesInv, Sound
<1>2. q \in Int /\ t \in Int
  BY InputAssumption
<1>3. CASE AddError(book, r, s, q, t) # "ok"
  BY <1>1, <1>3 DEF Add, vars
<1>4. CASE AddError(book, r, s, q, t) = "ok"
  <2>1. r \in Ref /\ book.id[r] = NullIndex /\ q > 0 /\ t \in Ticks
    BY <1>1, <1>2, <1>4, AddAccepted
  <2>2. PICK h \in Slots \ book.live : book' = Insert(book, h, r, s, q, t)
    BY <1>4 DEF Add
  <2>3. /\ Chained(book')
        /\ Queues(book') = [Queues(book) EXCEPT ![s][t] =
                              Append(Queues(book)[s][t], [ref |-> r, qty |-> q])]
    BY <1>1, <1>2, <2>1, <2>2, InsertQueues
  <2>4. \A g \in book.live : book.slot[g].ref # r
    <3>1. \A g \in book.live : g # NullIndex
      BY <1>1, SlotAssumption DEF Typed, Book
    <3> QED
      BY <1>1, <2>1, <3>1 DEF Indexed
  <2>5. r \notin PriceTime!Resting
    BY <1>1, <2>1, <2>4, NotResting
  <2>6. PriceTime!Join(r, s, q, t)
    BY <2>3, <2>5 DEF PriceTime!Join, PriceTime!Entry
  <2> QED
    BY <1>2, <2>1, <2>3, <2>6
<1> QED
  BY <1>3, <1>4

LEMMA TakeFromRefines ==
  ASSUME ChainsInv, NEW h \in book.live, NEW q \in Int, 0 < q, q <= book.slot[h].qty,
         TakeFrom(h, q)
  PROVE  /\ Chained(book')
         /\ \E s \in Side, t \in Ticks : \E i \in DOMAIN Queues(book)[s][t] :
              \E k \in 1 .. Queues(book)[s][t][i].qty : PriceTime!Leave(s, t, i, k)
<1>1. /\ Sound(book, ahead) /\ Typed(book) /\ Queued(book, ahead) /\ Chained(book)
      /\ ahead \in [Slots -> SUBSET Slots]
  BY DEF ChainsInv, QueuesInv, Sound
<1>2. PICK s \in Side, t \in Ticks : h \in OrdersAt(book, s, t)
  <2>1. book.slot[h].side \in Side /\ book.slot[h].px \in Ticks
    BY <1>1, LiveOrder
  <2> QED
    BY <2>1 DEF OrdersAt
<1>3. book.slot[h].qty \in Int /\ book' = Reduce(book, h, q)
  BY <1>1, LiveOrder DEF TakeFrom
<1> DEFINE u == Queues(book)[s][t]
<1>4. CASE q = book.slot[h].qty
  <2>1. book' = Drop(book, h)
    BY <1>3, <1>4 DEF Reduce
  <2>2. /\ Chained(book')
        /\ \E i \in DOMAIN u :
             /\ u[i] = [ref |-> book.slot[h].ref, qty |-> book.slot[h].qty]
             /\ Queues(book') = [Queues(book) EXCEPT ![s][t] = PriceTime!RemoveAt(u, i)]
    BY <1>1, <1>2, <2>1, DropQueues
  <2>3. PICK i \in DOMAIN u :
             /\ u[i] = [ref |-> book.slot[h].ref, qty |-> book.slot[h].qty]
             /\ Queues(book') = [Queues(book) EXCEPT ![s][t] = PriceTime!RemoveAt(u, i)]
    BY <2>2
  <2>4. u[i].qty = q /\ q \in 1 .. u[i].qty
    BY <1>4, <2>3
  <2>5. PriceTime!Leave(s, t, i, q)
    BY <2>3, <2>4 DEF PriceTime!Leave, PriceTime!Without
  <2> QED
    BY <2>2, <2>4, <2>5
<1>5. CASE q # book.slot[h].qty
  <2>1. book' = Shrink(book, h, q) /\ q < book.slot[h].qty
    BY <1>3, <1>5 DEF Reduce
  <2>2. /\ Chained(book')
        /\ \E i \in DOMAIN u :
             /\ u[i] = [ref |-> book.slot[h].ref, qty |-> book.slot[h].qty]
             /\ Queues(book') = [Queues(book) EXCEPT ![s][t] = [u EXCEPT ![i].qty = @ - q]]
    BY <1>1, <1>2, <2>1, ShrinkQueues, SMTT(30)
  <2>3. PICK i \in DOMAIN u :
             /\ u[i] = [ref |-> book.slot[h].ref, qty |-> book.slot[h].qty]
             /\ Queues(book') = [Queues(book) EXCEPT ![s][t] = [u EXCEPT ![i].qty = @ - q]]
    BY <2>2
  <2>4. u[i].qty # q /\ q \in 1 .. u[i].qty /\ q <= u[i].qty
    BY <1>3, <1>5, <2>3
  <2>5. PriceTime!Leave(s, t, i, q)
    BY <2>3, <2>4 DEF PriceTime!Leave, PriceTime!Without
  <2> QED
    BY <2>2, <2>4, <2>5
<1> QED
  BY <1>4, <1>5

LEMMA ReplaceRefines ==
  ASSUME ChainsInv, NEW r \in Ref, NEW n \in NewRef, NEW q \in Qty, NEW t \in PriceArg,
         Replace(r, n, q, t)
  PROVE  /\ Chained(book')
         /\ \/ book' = book
            \/ \E s \in Side, p \in Ticks : \E i \in DOMAIN Queues(book)[s][p] :
                 \/ \E k \in 1 .. Queues(book)[s][p][i].qty : PriceTime!Leave(s, p, i, k)
                 \/ \E m \in Ref, k \in Qty \ {0}, u \in Ticks : PriceTime!Requeue(s, p, i, m, k, u)
<1> DEFINE h == Find(book, r)
           o == book.slot[h]
           mid == Drop(book, h)
<1>1. /\ Sound(book, ahead) /\ Typed(book) /\ Indexed(book) /\ Queued(book, ahead)
      /\ Chained(book) /\ ahead \in [Slots -> SUBSET Slots]
  BY DEF ChainsInv, QueuesInv, Sound
<1>2. q \in Int /\ t \in Int /\ n \in Ref \union {ZeroRef}
  BY InputAssumption
<1>3. CASE ReplaceError(book, r, n, q, t) # "ok"
  BY <1>1, <1>3 DEF Replace, vars
<1>4. CASE ReplaceError(book, r, n, q, t) = "ok"
  <2>1. h \in book.live
    BY <1>1, <1>4, FoundLive DEF ReplaceError
  <2>2. /\ Sound(mid, Left(ahead, h)) /\ Typed(mid) /\ Indexed(mid) /\ Queued(mid, Left(ahead, h))
        /\ mid.live = book.live \ {h} /\ \A g \in book.live \ {h} : mid.slot[g].ref = book.slot[g].ref
    BY <1>1, <2>1, DropSound, DropOrders DEF Sound
  <2>3. \/ book' = mid
        \/ /\ AddError(mid, n, o.side, q, t) = "ok"
           /\ \E g \in Slots \ mid.live : book' = Insert(mid, g, n, o.side, q, t)
    BY <1>4 DEF Replace
  <2>4. PICK s, p : s = o.side /\ p = o.px
    OBVIOUS
  <2>5. s \in Side /\ p \in Ticks /\ h \in OrdersAt(book, s, p) /\ o.qty \in Int /\ o.qty > 0
    BY <1>1, <2>1, <2>4, LiveOrder DEF OrdersAt
  <2> HIDE DEF mid, h
  <2> DEFINE u == Queues(book)[s][p]
  <2>6. Chained(mid) /\ \E i \in DOMAIN u :
             /\ u[i] = [ref |-> o.ref, qty |-> o.qty]
             /\ Queues(mid) = [Queues(book) EXCEPT ![s][p] = PriceTime!RemoveAt(u, i)]
    BY <1>1, <2>5, DropQueues DEF mid
  <2>7. PICK i \in DOMAIN u :
             /\ u[i] = [ref |-> o.ref, qty |-> o.qty]
             /\ Queues(mid) = [Queues(book) EXCEPT ![s][p] = PriceTime!RemoveAt(u, i)]
    BY <2>6
  <2>8. CASE book' = mid
    <3>1. u[i].qty = o.qty /\ o.qty \in 1 .. u[i].qty /\ o.qty <= u[i].qty
      BY <2>5, <2>7
    <3>2. PriceTime!Leave(s, p, i, o.qty)
      BY <2>7, <2>8, <3>1 DEF PriceTime!Leave, PriceTime!Without
    <3> QED
      BY <2>5, <2>6, <2>8, <3>1, <3>2
  <2>9. CASE /\ AddError(mid, n, s, q, t) = "ok"
             /\ \E g \in Slots \ mid.live : book' = Insert(mid, g, n, s, q, t)
    <3>1. n \in Ref /\ mid.id[n] = NullIndex /\ q > 0 /\ t \in Ticks
      BY <1>2, <2>2, <2>5, <2>9, AddAccepted
    <3>2. PICK g \in Slots \ mid.live : book' = Insert(mid, g, n, s, q, t)
      BY <2>9
    <3>3. /\ Chained(book')
          /\ Queues(book') = [Queues(mid) EXCEPT ![s][t] =
                                Append(Queues(mid)[s][t], [ref |-> n, qty |-> q])]
      <4>1. /\ Chained(Insert(mid, g, n, s, q, t))
            /\ Queues(Insert(mid, g, n, s, q, t)) =
                 [Queues(mid) EXCEPT ![s][t] = Append(Queues(mid)[s][t], [ref |-> n, qty |-> q])]
        <5>1. PICK a : Queued(mid, a)
          BY <2>2
        <5>2. Typed(mid) /\ Chained(mid) /\ s \in Side /\ q \in Int
          BY <1>2, <2>2, <2>5, <2>6
        <5> HIDE DEF o, u
        <5> QED
          BY <3>1, <5>1, <5>2, InsertQueues
      <4> QED
        BY <3>2, <4>1, Zenon
    <3>4. n \notin PriceTime!Resting \/ n = u[i].ref
      <4>1. CASE \A x \in book.live : book.slot[x].ref # n
        BY <1>1, <3>1, <4>1, NotResting
      <4>2. ASSUME NEW x \in book.live, book.slot[x].ref = n PROVE n = u[i].ref
        <5>1. x # NullIndex
          BY <1>1, SlotAssumption DEF Typed, Book
        <5>2. x \notin mid.live
          BY <2>2, <3>1, <4>2, <5>1 DEF Indexed
        <5>3. x = h
          BY <2>2, <5>2
        <5> QED
          BY <2>7, <4>2, <5>3
      <4> QED
        BY <4>1, <4>2
    <3>5. PriceTime!Requeue(s, p, i, n, q, t)
      BY <2>7, <3>3, <3>4 DEF PriceTime!Requeue, PriceTime!Entry
    <3> QED
      BY <1>2, <2>5, <3>1, <3>3, <3>5
  <2> QED
    BY <2>3, <2>4, <2>8, <2>9
<1> QED
  BY <1>3, <1>4

LEMMA ChainsStep ==
  ChainsInv /\ [Next]_vars => ChainsInv' /\ [PriceTime!Next]_(Queues(book))
<1> SUFFICES ASSUME ChainsInv, [Next]_vars
             PROVE  ChainsInv' /\ [PriceTime!Next]_(Queues(book))
  OBVIOUS
<1>1. QueuesInv'
  BY QueuesInvStep DEF ChainsInv
<1>2. /\ Sound(book, ahead) /\ Typed(book) /\ Indexed(book) /\ Queued(book, ahead)
      /\ Chained(book)
  BY DEF ChainsInv, QueuesInv, Sound
<1> DEFINE Refined ==
             \/ book' = book
             \/ \E r \in Ref, s \in Side, q \in Qty \ {0}, t \in Ticks : PriceTime!Join(r, s, q, t)
             \/ \E s \in Side, t \in Ticks : \E i \in DOMAIN Queues(book)[s][t] :
                  \/ \E q \in 1 .. Queues(book)[s][t][i].qty : PriceTime!Leave(s, t, i, q)
                  \/ \E n \in Ref, q \in Qty \ {0}, u \in Ticks : PriceTime!Requeue(s, t, i, n, q, u)
<1>3. ASSUME NEW r \in Ref, NEW n \in NewRef, NEW q \in Qty, NEW t \in PriceArg,
             Replace(r, n, q, t)
      PROVE  Chained(book') /\ Refined
  BY <1>3, ReplaceRefines
<1>4. ASSUME NEW r \in Ref \union {ZeroRef}, NEW s \in Side, NEW q \in Qty,
             NEW t \in PriceArg, Add(r, s, q, t)
      PROVE  Chained(book') /\ Refined
  BY <1>4, AddRefines
<1>5. ASSUME NEW h \in book.live, NEW q \in Int, 0 < q, q <= book.slot[h].qty, TakeFrom(h, q)
      PROVE  Chained(book') /\ Refined
  BY <1>5, TakeFromRefines
<1>6. ASSUME book' = book PROVE Chained(book') /\ Refined
  BY <1>2, <1>6
<1> HIDE DEF Refined
<1>7. ASSUME NEW r \in Ref, NEW q \in Qty, Execute(r, q)
      PROVE  Chained(book') /\ Refined
  <2>1. CASE ExecuteError(book, r, q) # "ok"
    BY <1>6, <1>7, <2>1 DEF Execute, vars
  <2>2. CASE ExecuteError(book, r, q) = "ok"
    <3>1. q \in Int /\ Find(book, r) \in book.live
      BY <1>2, <2>2, InputAssumption, FoundLive DEF ExecuteError
    <3>2. 0 < q /\ q <= book.slot[Find(book, r)].qty /\ TakeFrom(Find(book, r), q)
      BY <1>2, <1>7, <2>2, <3>1, LiveOrder DEF Execute, ExecuteError
    <3> QED
      BY <1>5, <3>1, <3>2
  <2> QED BY <2>1, <2>2
<1>8. ASSUME NEW s \in Side, NEW t \in PriceArg, NEW q \in Qty, ExecuteFront(s, t, q)
      PROVE  Chained(book') /\ Refined
  <2>1. CASE FrontError(book, s, t, q) # "ok"
    BY <1>6, <1>8, <2>1 DEF ExecuteFront, vars
  <2>2. CASE FrontError(book, s, t, q) = "ok"
    <3>1. q \in Int /\ t \in Ticks /\ 0 < q /\ book.level[s][t].head # NullIndex
      BY <2>2, InputAssumption, BandAssumption DEF FrontError, HasLevel, InBand, Ticks
    <3>2. Anchored(book, ahead, s, t)
      BY <1>2, <3>1 DEF Queued
    <3>3. book.level[s][t].head \in book.live
      BY <3>1, <3>2 DEF Anchored, OrdersAt
    <3>4. /\ q <= book.slot[book.level[s][t].head].qty
          /\ TakeFrom(book.level[s][t].head, q)
      BY <1>8, <2>2 DEF ExecuteFront
    <3> QED
      BY <1>5, <3>1, <3>3, <3>4
  <2> QED BY <2>1, <2>2
<1>9. ASSUME NEW r \in Ref, Remove(r) PROVE Chained(book') /\ Refined
  <2>1. CASE Find(book, r) = NullIndex
    BY <1>6, <1>9, <2>1 DEF Remove, vars
  <2>2. CASE Find(book, r) # NullIndex
    <3>1. Find(book, r) \in book.live
      BY <1>2, <2>2, FoundLive
    <3>2. /\ book.slot[Find(book, r)].qty \in Int /\ 0 < book.slot[Find(book, r)].qty
          /\ TakeFrom(Find(book, r), book.slot[Find(book, r)].qty)
      BY <1>2, <1>9, <2>2, <3>1, LiveOrder DEF Remove
    <3> QED
      BY <1>5, <3>1, <3>2
  <2> QED BY <2>1, <2>2
<1>10. Chained(book') /\ Refined
  <2>1. CASE UNCHANGED vars
    BY <1>6, <2>1 DEF vars
  <2> QED
    BY <1>3, <1>4, <1>7, <1>8, <1>9, <2>1 DEF Next
<1>11. Refined => [PriceTime!Next]_(Queues(book))
  <2> SUFFICES ASSUME Refined, Queues(book)' # Queues(book) PROVE PriceTime!Next
    OBVIOUS
  <2>1. book' # book
    OBVIOUS
  <2> QED
    BY <2>1 DEF PriceTime!Next, Refined
<1>12. ChainsInv'
  BY <1>1, <1>10 DEF ChainsInv
<1> QED
  BY <1>10, <1>11, <1>12

(* Read through its links, the book is one queue per side and tick:        *)
(* whatever sequence of calls it is given, accepted or refused, each call  *)
(* appends to a queue, takes quantity out of one, gives an order a new     *)
(* place, or changes no queue (OrderBook.hpp:161-172, 301-339, 492-515).   *)
THEOREM PriceTimeHolds == Spec => ImplementsPriceTime
<1>1. Init => ChainsInv /\ PriceTime!Init
  BY EmptyBookRefines
<1>2. ChainsInv /\ [Next]_vars => ChainsInv' /\ [PriceTime!Next]_(Queues(book))
  BY ChainsStep
<1> QED
  BY <1>1, <1>2, PTL DEF Spec, ImplementsPriceTime, PriceTime!Spec

=============================================================================
