-------------------------- MODULE SimulatorProofs --------------------------
(***************************************************************************)
(* Proofs about the execution simulator, for every arena, band, set of     *)
(* orders, self-trade mode and size of its buffers.  First what its steps  *)
(* need of a book, then what each part of an operation keeps of the        *)
(* simulator's state, loops included, then one step per action.            *)
(***************************************************************************)
EXTENDS Simulator, BookLemmas, LoopLemmas

----------------------------------------------------------------------------
(* Books.                                                                  *)

(* A book that every audit of the order book accepts.                      *)
GoodBook(b) == LevelsSound(b) /\ \E a : Sound(b, a)

LEMMA GoodParts ==
  ASSUME NEW b, GoodBook(b)
  PROVE  /\ b \in Book /\ Typed(b) /\ LevelsSound(b) /\ Indexed(b)
         /\ Finite(b) /\ Aggregated(b) /\ BestCached(b) /\ Paged(b)
         /\ b.live \subseteq Slots
BY DEF GoodBook, LevelsSound, Sound, Typed, Book

LEMMA EmptyBookGood == GoodBook(EmptyBook)
<1> DEFINE a == [i \in Slots |-> {}]
<1>1. LevelsSound(EmptyBook)
  BY EmptyLevels
<1>2. Indexed(EmptyBook)
  BY DEF Indexed, EmptyBook
<1>3. Queued(EmptyBook, a)
  BY DEF Queued, EmptyBook, Anchored, OrdersAt, EmptyLevel
<1>4. a \in [Slots -> SUBSET Slots]
  OBVIOUS
<1> HIDE DEF a
<1>5. Sound(EmptyBook, a)
  BY <1>1, <1>2, <1>3, <1>4 DEF Sound, LevelsSound
<1> QED
  BY <1>1, <1>5 DEF GoodBook

(* The head of a level rests there.                                        *)
LEMMA HeadRests ==
  ASSUME NEW b, GoodBook(b), NEW s \in Side, NEW t \in Ticks,
         b.level[s][t].head # NullIndex
  PROVE  b.level[s][t].head \in OrdersAt(b, s, t)
<1>1. PICK a : Sound(b, a)
  BY DEF GoodBook
<1>2. Anchored(b, a, s, t)
  BY <1>1 DEF Sound, Queued
<1> QED
  BY <1>2 DEF Anchored

(* A best price is the price of a level with a head.                       *)
LEMMA TouchRests ==
  ASSUME NEW b, GoodBook(b), NEW s \in Side, b.best[s] # NoTick
  PROVE  /\ b.best[s] \in Ticks
         /\ b.level[s][b.best[s]].head \in OrdersAt(b, s, b.best[s])
<1> DEFINE t == b.best[s]
<1>1. PricesOf(b, s) \subseteq Ticks
  BY GoodParts, OccupiedPrices
<1>2. t = BestIn(s, PricesOf(b, s))
  BY GoodParts DEF BestCached
<1>3. t \in PricesOf(b, s)
  BY <1>1, <1>2, BestInProperties
<1>4. OrdersAt(b, s, t) # {} /\ t \in Ticks
  BY <1>1, <1>3 DEF PricesOf, OrdersAt
<1>5. PICK a : Sound(b, a)
  BY DEF GoodBook
<1>6. Anchored(b, a, s, t)
  BY <1>4, <1>5 DEF Sound, Queued
<1> HIDE DEF t
<1>7. b.level[s][t].head \in OrdersAt(b, s, t)
  BY <1>4, <1>6 DEF Anchored
<1> QED
  BY <1>4, <1>7 DEF t

(* What an insertion, a removal and a partial take leave of a good book.   *)
Inserted(b, c, h, r, s, q, t) ==
  /\ GoodBook(c)
  /\ c.live = b.live \union {h}
  /\ c.slot[h].ref = r /\ c.slot[h].side = s /\ c.slot[h].px = t /\ c.slot[h].qty = q
  /\ \A i \in b.live :
       /\ c.slot[i].ref = b.slot[i].ref /\ c.slot[i].side = b.slot[i].side
       /\ c.slot[i].px = b.slot[i].px /\ c.slot[i].qty = b.slot[i].qty
  /\ \A x \in Ref : c.id[x] = IF x = r THEN h ELSE b.id[x]
  /\ \A x \in Side : c.page[x] = IF x = s THEN b.page[x] \union {Page(t)} ELSE b.page[x]

LEMMA InsertGood ==
  ASSUME NEW b, GoodBook(b), NEW h \in Slots \ b.live, NEW r \in Ref, b.id[r] = NullIndex,
         NEW s \in Side, NEW q \in Int, q > 0, NEW t \in Ticks, Claimable(b, s, t)
  PROVE  Inserted(b, Insert(b, h, r, s, q, t), h, r, s, q, t)
<1> DEFINE c == Insert(b, h, r, s, q, t)
<1>0. Typed(b)
  BY GoodParts
<1>1. PICK a : Sound(b, a)
  BY DEF GoodBook
<1>2. LevelsSound(c) /\ Sound(c, Joined(a, c, h))
  BY <1>1, GoodParts, InsertLevelsSound, InsertSound
<1>3. /\ c.live = b.live \union {h}
      /\ c.slot[h].ref = r /\ c.slot[h].side = s /\ c.slot[h].px = t /\ c.slot[h].qty = q
      /\ \A i \in b.live :
           /\ c.slot[i].ref = b.slot[i].ref /\ c.slot[i].side = b.slot[i].side
           /\ c.slot[i].px = b.slot[i].px /\ c.slot[i].qty = b.slot[i].qty
  BY <1>0, InsertOrders
<1>4. b.id \in [Ref -> Index] /\ b.page \in [Side -> SUBSET Pages]
  BY GoodParts, BookFields
<1>5. /\ c.id = [b.id EXCEPT ![r] = h]
      /\ c.page = [b.page EXCEPT ![s] = @ \union {Page(t)}]
  BY DEF Insert
<1> HIDE DEF c
<1>6. /\ \A x \in Ref : c.id[x] = IF x = r THEN h ELSE b.id[x]
      /\ \A x \in Side : c.page[x] = IF x = s THEN b.page[x] \union {Page(t)} ELSE b.page[x]
  BY <1>4, <1>5
<1>7. GoodBook(c)
  BY <1>2 DEF GoodBook
<1> QED
  BY <1>3, <1>6, <1>7 DEF c, Inserted

LEMMA DropGood ==
  ASSUME NEW b, GoodBook(b), NEW h \in b.live
  PROVE  LET c == Drop(b, h)
         IN  /\ GoodBook(c)
             /\ c.live = b.live \ {h} /\ c.page = b.page
             /\ \A i \in b.live \ {h} :
                  /\ c.slot[i].ref = b.slot[i].ref /\ c.slot[i].side = b.slot[i].side
                  /\ c.slot[i].px = b.slot[i].px /\ c.slot[i].qty = b.slot[i].qty
             /\ \A x \in Ref : c.id[x] = IF x = b.slot[h].ref THEN NullIndex ELSE b.id[x]
<1> DEFINE c == Drop(b, h)
<1>1. PICK a : Sound(b, a)
  BY DEF GoodBook
<1>2. LevelsSound(c) /\ Sound(c, Left(a, h))
  BY <1>1, GoodParts, DropLevelsSound, DropSound
<1>3. /\ c.live = b.live \ {h}
      /\ \A i \in b.live \ {h} :
           /\ c.slot[i].ref = b.slot[i].ref /\ c.slot[i].side = b.slot[i].side
           /\ c.slot[i].px = b.slot[i].px /\ c.slot[i].qty = b.slot[i].qty
  BY GoodParts, DropOrders
<1>4. c.id = [b.id EXCEPT ![b.slot[h].ref] = NullIndex] /\ c.page = b.page
  BY GoodParts, DropTyped DEF Erased
<1>5. b.id \in [Ref -> Index]
  BY GoodParts, BookFields
<1> HIDE DEF c
<1>6. \A x \in Ref : c.id[x] = IF x = b.slot[h].ref THEN NullIndex ELSE b.id[x]
  BY <1>4, <1>5
<1>7. GoodBook(c)
  BY <1>2 DEF GoodBook
<1> QED
  BY <1>3, <1>4, <1>6, <1>7 DEF c

LEMMA ShrinkGood ==
  ASSUME NEW b, GoodBook(b), NEW h \in b.live, NEW q \in Int, 0 < q, q < b.slot[h].qty
  PROVE  LET c == Shrink(b, h, q)
         IN  /\ GoodBook(c)
             /\ c.live = b.live /\ c.page = b.page /\ c.id = b.id
             /\ \A i \in b.live :
                  /\ c.slot[i].ref = b.slot[i].ref /\ c.slot[i].side = b.slot[i].side
                  /\ c.slot[i].px = b.slot[i].px
                  /\ c.slot[i].qty = IF i = h THEN b.slot[i].qty - q ELSE b.slot[i].qty
<1> DEFINE c == Shrink(b, h, q)
<1>1. PICK a : Sound(b, a)
  BY DEF GoodBook
<1>2. LevelsSound(c)
  BY GoodParts, ShrinkLevelsSound
<1>3. Sound(c, a)
  BY <1>1, ShrinkTyped, ShrinkIndexed, ShrinkQueued DEF Sound
<1>4. /\ c.live = b.live /\ c.page = b.page /\ c.id = b.id
      /\ \A i \in b.live :
           /\ c.slot[i].ref = b.slot[i].ref /\ c.slot[i].side = b.slot[i].side
           /\ c.slot[i].px = b.slot[i].px
           /\ c.slot[i].qty = IF i = h THEN b.slot[i].qty - q ELSE b.slot[i].qty
  BY GoodParts, ShrinkOrders
<1> HIDE DEF c
<1>5. GoodBook(c)
  BY <1>2, <1>3 DEF GoodBook
<1> QED
  BY <1>4, <1>5 DEF c

(* A reference that resolves is that of the live order it resolves to.     *)
LEMMA Resolves ==
  ASSUME NEW b, GoodBook(b), NEW r \in Ref
  PROVE  /\ Find(b, r) = b.id[r]
         /\ b.id[r] # NullIndex => b.id[r] \in b.live /\ b.slot[b.id[r]].ref = r
         /\ \A h \in b.live : b.slot[h].ref = r <=> b.id[r] = h
<1>1. Indexed(b) /\ Typed(b) /\ NullIndex \notin b.live
  BY GoodParts, SlotAssumption DEF Typed, Book
<1> QED
  BY <1>1 DEF Indexed, Find

----------------------------------------------------------------------------
(* The simulator's state: types of its parts.                              *)

Tracker == [live : BOOLEAN, linked : BOOLEAN, ref : Ref \union {ZeroRef}, side : Side,
            px : Ticks \union {NoTick}, rem : Int, ahead : Int]

Iceberg == [ref : External, side : Side, px : Ticks, display : Nat \ {0}, hidden : Nat]

(* replace_strategy stores whatever quantity it is given.                  *)
HeldQty == IF ReplaceQty \subseteq Nat THEN Nat ELSE Int

Hidden == [ref : Strategy, side : Side, px : Int, qty : HeldQty, peg : PegKind, offset : Int]

Sim == [book : Book, tracked : [Slots -> Tracker], icebergs : Seq(Iceberg),
        hidden : Seq(Hidden), mapped : [Side -> SUBSET Ticks],
        fallback : [Side -> SUBSET Ticks], synced : SUBSET Slots,
        drift : SUBSET (Side \X Int)]

LEMMA SimFields ==
  ASSUME NEW w \in Sim
  PROVE  /\ w.book \in Book /\ w.tracked \in [Slots -> Tracker]
         /\ w.icebergs \in Seq(Iceberg) /\ w.hidden \in Seq(Hidden)
         /\ w.mapped \in [Side -> SUBSET Ticks] /\ w.fallback \in [Side -> SUBSET Ticks]
         /\ w.synced \in SUBSET Slots /\ w.drift \in SUBSET (Side \X Int)
BY DEF Sim

(* Replacing parts of the state, in the combinations the operations use.   *)
LEMMA SimUpdates ==
  ASSUME NEW w \in Sim, NEW b \in Book, NEW k \in [Slots -> Tracker],
         NEW ib \in Seq(Iceberg), NEW hd \in Seq(Hidden),
         NEW mp \in [Side -> SUBSET Ticks], NEW fb \in [Side -> SUBSET Ticks],
         NEW sy \in SUBSET Slots, NEW dr \in SUBSET (Side \X Int)
  PROVE  /\ [w EXCEPT !.book = b] \in Sim
         /\ [w EXCEPT !.tracked = k] \in Sim
         /\ [w EXCEPT !.hidden = hd] \in Sim
         /\ [w EXCEPT !.synced = sy] \in Sim
         /\ [w EXCEPT !.drift = dr] \in Sim
         /\ [w EXCEPT !.tracked = k, !.drift = dr] \in Sim
         /\ [w EXCEPT !.tracked = k, !.mapped = mp, !.fallback = fb] \in Sim
         /\ [w EXCEPT !.book = b, !.icebergs = ib] \in Sim
         /\ [w EXCEPT !.book = b, !.synced = sy, !.tracked = k] \in Sim
         /\ [w EXCEPT !.synced = sy, !.drift = dr] \in Sim
BY DEF Sim

LEMMA TickInBand == \A t \in Int : InBand(t) <=> t \in Ticks
BY BandAssumption DEF InBand, Ticks

LEMMA TotalsInt ==
  ASSUME NEW w \in Sim, NEW s \in Side, NEW t \in Int
  PROVE  QtyAt(w, s, t) \in Int
BY TickInBand DEF QtyAt, Sim, Book, Level

(* The walk that counts what is ahead of a slot, turn by turn.             *)
AheadTurn(b, c) ==
  IF c.at = NullIndex THEN c
  ELSE [at |-> b.slot[c.at].prev, sum |-> c.sum + b.slot[c.at].qty]

AheadWalk(b, h, f) ==
  /\ f[0] = [at |-> b.slot[h].prev, sum |-> 0]
  /\ \A n \in 1 .. Cardinality(Slots) : f[n] = AheadTurn(b, f[n - 1])
  /\ AheadOf(b, h) = f[Cardinality(Slots)].sum

LEMMA AheadWalks ==
  ASSUME NEW b, b \in Book, NEW h \in Slots
  PROVE  \E f : AheadWalk(b, h, f)
<1> DEFINE N == Cardinality(Slots)
           S == [at : Index, sum : Int]
           x0 == [at |-> b.slot[h].prev, sum |-> 0]
           Turn(c) == IF c.at = NullIndex THEN c
                      ELSE [at |-> b.slot[c.at].prev, sum |-> c.sum + b.slot[c.at].qty]
           Body(f) == [n \in 0 .. N |-> IF n = 0 THEN x0 ELSE Turn(f[n - 1])]
           f == CHOOSE x : x = Body(x)
           G == [n \in 1 .. N |-> [c \in S |-> Turn(c)]]
<1>1. AheadOf(b, h) = f[N].sum
  BY DEF AheadOf
<1>2. N \in Nat
  BY SlotAssumption, FS_CardinalityType
<1>3. \A i \in Slots : b.slot[i].prev \in Index /\ b.slot[i].qty \in Int
  BY DEF Book, Order
<1>4. x0 \in S
  BY <1>3
<1>5. \A c \in S : Turn(c) \in S
  BY <1>3 DEF Index
<1>6. \A c : Turn(c) = AheadTurn(b, c)
  BY DEF AheadTurn
<1> HIDE DEF N, S, Turn
<1>7. x0 = [at |-> b.slot[h].prev, sum |-> 0]
  OBVIOUS
<1> HIDE DEF x0
<1>8. G \in [1 .. N -> [S -> S]]
  BY <1>5
<1> HIDE DEF G
<1>9. PICK g : Turns(N, S, x0, G, g)
  BY <1>2, <1>4, <1>8, LoopExists
<1>10. g = Body(g)
  <2>1. \A n \in 1 .. N, c \in S : G[n][c] = Turn(c)
    BY DEF G
  <2>2. \A n \in 1 .. N : n - 1 \in 0 .. N /\ g[n] = Turn(g[n - 1])
    BY <1>2, <1>9, <2>1 DEF Turns
  <2>3. \A n \in 0 .. N : g[n] = IF n = 0 THEN x0 ELSE Turn(g[n - 1])
    BY <1>2, <1>9, <2>2 DEF Turns
  <2>4. g = [n \in 0 .. N |-> g[n]]
    BY <1>9 DEF Turns
  <2> QED
    BY <2>3, <2>4
<1> HIDE DEF Body
<1>11. f = Body(f)
  BY <1>10, Zenon
<1> HIDE DEF f
<1>12. f[0] = x0 /\ \A n \in 1 .. N : f[n] = Turn(f[n - 1])
  BY <1>2, <1>11 DEF Body
<1>13. AheadWalk(b, h, f)
  BY <1>1, <1>6, <1>7, <1>12 DEF AheadWalk, N
<1> QED
  BY <1>13

LEMMA AheadTyped ==
  ASSUME NEW b, b \in Book, NEW h \in Slots
  PROVE  AheadOf(b, h) \in Int
<1> DEFINE N == Cardinality(Slots)
           S == [at : Index, sum : Int]
<1>1. PICK f : AheadWalk(b, h, f)
  BY AheadWalks
<1>2. N \in Nat
  BY SlotAssumption, FS_CardinalityType
<1>3. \A i \in Slots : b.slot[i].prev \in Index /\ b.slot[i].qty \in Int
  BY DEF Book, Order
<1>4. f[0] \in S
  BY <1>1, <1>3 DEF AheadWalk
<1>5. \A c \in S : AheadTurn(b, c) \in S
  BY <1>3 DEF Index, AheadTurn
<1> HIDE DEF S
<1>6. \A n \in 1 .. N : f[n - 1] \in S => f[n] \in S
  BY <1>1, <1>5 DEF AheadWalk
<1> HIDE DEF N
<1>7. f[N] \in S
  BY <1>2, <1>4, <1>6, LoopKeeps
<1> QED
  BY <1>1, <1>7 DEF S, N, AheadWalk

----------------------------------------------------------------------------
(* The invariant.  Beyond the mirror it says that the book is a good one,  *)
(* that an iceberg's page is claimed, so that a replenishment always finds *)
(* room, and, when every iceberg is seeded with a reserve, that each       *)
(* registered one has its slice in the book.  While an operation is        *)
(* between consuming a slice and replenishing it, r is its reference.      *)

Mirrored(w) ==
  \A h \in Slots :
    LET k == w.tracked[h]
        o == w.book.slot[h]
    IN  /\ k.live = (h \in w.book.live /\ o.ref \in Strategy)
        /\ k.live => <<k.ref, k.side, k.px, k.rem>> = <<o.ref, o.side, o.px, o.qty>>

Placed(w) ==
  \A i \in DOMAIN w.icebergs : Page(w.icebergs[i].px) \in w.book.page[w.icebergs[i].side]

FullReserves == \A d \in IcebergSeeds : d.total > d.display

Covered(w, r) ==
  \A i \in DOMAIN w.icebergs :
    LET e == w.icebergs[i]
        h == w.book.id[e.ref]
        o == w.book.slot[h]
    IN  /\ e.hidden > 0
        /\ h # NullIndex \/ e.ref = r
        /\ h # NullIndex => o.side = e.side /\ o.px = e.px /\ o.qty <= e.display
        /\ \A j \in DOMAIN w.icebergs : w.icebergs[j].ref = e.ref => j = i

(* The same of one reserve.                                                *)
CoveredAt(w, r, i) ==
  LET e == w.icebergs[i]
      h == w.book.id[e.ref]
      o == w.book.slot[h]
  IN  /\ e.hidden > 0
      /\ h # NullIndex \/ e.ref = r
      /\ h # NullIndex => o.side = e.side /\ o.px = e.px /\ o.qty <= e.display
      /\ \A j \in DOMAIN w.icebergs : w.icebergs[j].ref = e.ref => j = i

LEMMA CoveredEach ==
  ASSUME NEW w, NEW r
  PROVE  Covered(w, r) <=> \A i \in DOMAIN w.icebergs : CoveredAt(w, r, i)
BY Zenon DEF Covered, CoveredAt

Sane(w, r) ==
  /\ w \in Sim
  /\ GoodBook(w.book)
  /\ Mirrored(w)
  /\ Placed(w)
  /\ FullReserves => Covered(w, r)

(* v differs from w in positions, bookkeeping and hidden orders only.      *)
Kin(w, v) ==
  /\ v \in Sim
  /\ v.book = w.book /\ v.icebergs = w.icebergs
  /\ \A h \in Slots : /\ v.tracked[h].live = w.tracked[h].live
                      /\ v.tracked[h].ref = w.tracked[h].ref
                      /\ v.tracked[h].side = w.tracked[h].side
                      /\ v.tracked[h].px = w.tracked[h].px
                      /\ v.tracked[h].rem = w.tracked[h].rem

(* Only positions changed.                                                 *)
Moved(w, v) == Kin(w, v) /\ v.hidden = w.hidden

LEMMA KinSane ==
  ASSUME NEW w, NEW r, Sane(w, r), NEW v, Kin(w, v)
  PROVE  Sane(v, r)
<1>1. v \in Sim /\ v.book = w.book /\ v.icebergs = w.icebergs
  BY DEF Kin
<1>2. Mirrored(v)
  BY DEF Kin, Mirrored, Sane
<1>3. Placed(v) /\ (FullReserves => Covered(v, r))
  BY <1>1 DEF Placed, Covered, Sane
<1> QED
  BY <1>1, <1>2, <1>3 DEF Sane

LEMMA KinTrans ==
  ASSUME NEW u, NEW v, NEW w, Kin(u, v), Kin(v, w)
  PROVE  Kin(u, w)
BY DEF Kin

LEMMA KinSelf == ASSUME NEW w \in Sim PROVE Kin(w, w)
BY DEF Kin

(* Changing where trackers believe they are.                               *)
LEMMA AheadUpdate ==
  ASSUME NEW k \in Tracker, NEW n \in Int
  PROVE  LET u == [k EXCEPT !.ahead = n]
         IN  /\ u \in Tracker
             /\ u.live = k.live /\ u.ref = k.ref /\ u.side = k.side /\ u.px = k.px
             /\ u.rem = k.rem
BY DEF Tracker

LEMMA PositionsKin ==
  ASSUME NEW w \in Sim, NEW f \in [Slots -> Int], NEW H, NEW d \in SUBSET (Side \X Int),
         NEW k, k = [h \in Slots |-> IF h \in H THEN [w.tracked[h] EXCEPT !.ahead = f[h]]
                                     ELSE w.tracked[h]]
  PROVE  Kin(w, [w EXCEPT !.tracked = k]) /\ Kin(w, [w EXCEPT !.tracked = k, !.drift = d])
<1>1. \A h \in Slots : w.tracked[h] \in Tracker
  BY SimFields
<1>2. \A h \in Slots : /\ k[h] \in Tracker
                       /\ k[h].live = w.tracked[h].live /\ k[h].ref = w.tracked[h].ref
                       /\ k[h].side = w.tracked[h].side /\ k[h].px = w.tracked[h].px
                       /\ k[h].rem = w.tracked[h].rem
  <2> SUFFICES ASSUME NEW h \in Slots
               PROVE  /\ k[h] \in Tracker
                      /\ k[h].live = w.tracked[h].live /\ k[h].ref = w.tracked[h].ref
                      /\ k[h].side = w.tracked[h].side /\ k[h].px = w.tracked[h].px
                      /\ k[h].rem = w.tracked[h].rem
    OBVIOUS
  <2>1. k[h] = IF h \in H THEN [w.tracked[h] EXCEPT !.ahead = f[h]] ELSE w.tracked[h]
    OBVIOUS
  <2>2. w.tracked[h] \in Tracker /\ f[h] \in Int
    BY <1>1
  <2> QED
    BY <2>1, <2>2, AheadUpdate
<1>3. k \in [Slots -> Tracker]
  BY <1>2
<1>4. [w EXCEPT !.tracked = k] \in Sim /\ [w EXCEPT !.tracked = k, !.drift = d] \in Sim
  BY <1>3 DEF Sim
<1> DEFINE v1 == [w EXCEPT !.tracked = k]
           v2 == [w EXCEPT !.tracked = k, !.drift = d]
<1>5. /\ v1.tracked = k /\ v1.book = w.book /\ v1.icebergs = w.icebergs
      /\ v2.tracked = k /\ v2.book = w.book /\ v2.icebergs = w.icebergs
  BY DEF Sim
<1> HIDE DEF v1, v2
<1>6. v1 \in Sim /\ v2 \in Sim
  BY <1>4 DEF v1, v2
<1>7. Kin(w, v1) /\ Kin(w, v2)
  BY <1>2, <1>5, <1>6 DEF Kin
<1> QED
  BY <1>7 DEF v1, v2

LEMMA RecomputeKin ==
  ASSUME NEW w \in Sim, NEW levels
  PROVE  Kin(w, RecomputeAll(w, levels)) /\ RecomputeAll(w, levels).hidden = w.hidden
<1> DEFINE H == {h \in Slots : w.tracked[h].live
                                /\ <<w.book.slot[h].side, w.book.slot[h].px>> \in levels}
           f == [h \in Slots |-> AheadOf(w.book, h)]
           k == [h \in Slots |-> IF h \in H THEN [w.tracked[h] EXCEPT !.ahead = f[h]]
                                 ELSE w.tracked[h]]
           d == w.drift \ levels
<1>1. f \in [Slots -> Int] /\ d \in SUBSET (Side \X Int)
  BY SimFields, AheadTyped
<1>2. RecomputeAll(w, levels) = [w EXCEPT !.tracked = k, !.drift = d]
  BY DEF RecomputeAll
<1>3. RecomputeAll(w, levels).hidden = w.hidden
  BY <1>2 DEF Sim
<1> HIDE DEF H, f, d
<1>4. Kin(w, [w EXCEPT !.tracked = k, !.drift = d])
  BY <1>1, PositionsKin
<1> QED
  BY <1>2, <1>3, <1>4

LEMMA SubtractKin ==
  ASSUME NEW w \in Sim, NEW s, NEW t, NEW q \in Int, NEW skip
  PROVE  Moved(w, Subtract(w, s, t, q, skip))
<1>1. CASE t \in w.mapped[s]
  <2> DEFINE H == Mates(w, s, t, skip)
             f == [h \in Slots |-> w.tracked[h].ahead - q]
             k == [h \in Slots |-> IF h \in H THEN [w.tracked[h] EXCEPT !.ahead = f[h]]
                                   ELSE w.tracked[h]]
             d == w.drift
  <2>1. f \in [Slots -> Int] /\ d \in SUBSET (Side \X Int)
    BY SimFields DEF Tracker
  <2>2. Subtract(w, s, t, q, skip) = [w EXCEPT !.tracked = k]
    <3>1. \A h \in Slots : k[h] = IF h \in H THEN [w.tracked[h] EXCEPT !.ahead = @ - q]
                                  ELSE w.tracked[h]
      BY SimFields DEF Tracker
    <3>2. k = [h \in Slots |-> IF h \in H THEN [w.tracked[h] EXCEPT !.ahead = @ - q]
                               ELSE w.tracked[h]]
      BY <3>1
    <3> HIDE DEF k
    <3> QED
      BY <1>1, <3>2 DEF Subtract
  <2>3. Subtract(w, s, t, q, skip).hidden = w.hidden
    BY <2>2 DEF Sim
  <2> HIDE DEF H, f, d
  <2>4. Kin(w, [w EXCEPT !.tracked = k])
    BY <2>1, PositionsKin
  <2> QED
    BY <2>2, <2>3, <2>4 DEF Moved
<1>2. CASE t \notin w.mapped[s]
  BY <1>2, RecomputeKin, KinSelf DEF Subtract, Recompute, Moved
<1> QED
  BY <1>1, <1>2

----------------------------------------------------------------------------
(* Trackers of orders that come and go.                                    *)

LEMMA NoRecordTyped == NoRecord \in Tracker /\ NoRecord.live = FALSE
BY DEF NoRecord, Tracker, Side

(* What it takes to keep the mirror when one slot's order changes.         *)
LEMMA MirrorMoves ==
  ASSUME NEW w, Mirrored(w), NEW h \in Slots, NEW v,
         \A i \in Slots \ {h} :
           /\ v.tracked[i] = w.tracked[i]
           /\ i \in v.book.live <=> i \in w.book.live
           /\ i \in w.book.live =>
                /\ v.book.slot[i].ref = w.book.slot[i].ref
                /\ v.book.slot[i].side = w.book.slot[i].side
                /\ v.book.slot[i].px = w.book.slot[i].px
                /\ v.book.slot[i].qty = w.book.slot[i].qty,
         v.tracked[h].live = (h \in v.book.live /\ v.book.slot[h].ref \in Strategy),
         v.tracked[h].live =>
           /\ v.tracked[h].ref = v.book.slot[h].ref /\ v.tracked[h].side = v.book.slot[h].side
           /\ v.tracked[h].px = v.book.slot[h].px /\ v.tracked[h].rem = v.book.slot[h].qty
  PROVE  Mirrored(v)
<1> SUFFICES ASSUME NEW i \in Slots
             PROVE  /\ v.tracked[i].live = (i \in v.book.live /\ v.book.slot[i].ref \in Strategy)
                    /\ v.tracked[i].live =>
                         <<v.tracked[i].ref, v.tracked[i].side,
                           v.tracked[i].px, v.tracked[i].rem>>
                           = <<v.book.slot[i].ref, v.book.slot[i].side,
                               v.book.slot[i].px, v.book.slot[i].qty>>
  BY DEF Mirrored
<1>1. CASE i = h
  BY <1>1
<1>2. CASE i # h
  <2>1. /\ w.tracked[i].live = (i \in w.book.live /\ w.book.slot[i].ref \in Strategy)
        /\ w.tracked[i].live =>
             <<w.tracked[i].ref, w.tracked[i].side, w.tracked[i].px, w.tracked[i].rem>>
               = <<w.book.slot[i].ref, w.book.slot[i].side,
                   w.book.slot[i].px, w.book.slot[i].qty>>
    BY DEF Mirrored
  <2> QED
    BY <1>2, <2>1
<1> QED
  BY <1>1, <1>2

----------------------------------------------------------------------------
(* Taking quantity from the head of a level, and replenishing its iceberg. *)

(* v is w after quantity left the order in slot h, of reference r.         *)
Reduced(w, v, h, r) ==
  /\ v.icebergs = w.icebergs
  /\ h \in w.book.live /\ w.book.id[r] = h
  /\ \A x \in Ref : x # r => v.book.id[x] = w.book.id[x]
  /\ \A i \in w.book.live \ {h} :
       /\ v.book.slot[i].side = w.book.slot[i].side /\ v.book.slot[i].px = w.book.slot[i].px
       /\ v.book.slot[i].qty = w.book.slot[i].qty
  /\ \/ v.book.id[r] = NullIndex
     \/ /\ v.book.id[r] = h
        /\ v.book.slot[h].side = w.book.slot[h].side /\ v.book.slot[h].px = w.book.slot[h].px
        /\ v.book.slot[h].qty <= w.book.slot[h].qty /\ v.book.slot[h].qty \in Int

LEMMA CoveredMoves ==
  ASSUME NEW w, w \in Sim, GoodBook(w.book), Covered(w, ZeroRef),
         NEW v, NEW h, NEW r \in Ref, Reduced(w, v, h, r)
  PROVE  Covered(v, r)
<1>0. v.icebergs = w.icebergs
  BY DEF Reduced
<1>1. ASSUME NEW i \in DOMAIN w.icebergs PROVE CoveredAt(v, r, i)
  <2> DEFINE e == w.icebergs[i]
             g == w.book.id[e.ref]
  <2> SUFFICES /\ e.hidden > 0
               /\ v.book.id[e.ref] # NullIndex \/ e.ref = r
               /\ v.book.id[e.ref] # NullIndex =>
                    /\ v.book.slot[v.book.id[e.ref]].side = e.side
                    /\ v.book.slot[v.book.id[e.ref]].px = e.px
                    /\ v.book.slot[v.book.id[e.ref]].qty <= e.display
               /\ \A j \in DOMAIN w.icebergs : w.icebergs[j].ref = e.ref => j = i
    BY <1>0 DEF CoveredAt
  <2>1. e \in Iceberg
    BY SimFields
  <2>2. e.ref \in Ref /\ e.ref # ZeroRef /\ e.display \in Int
    BY <2>1, SimAssumption, RefAssumption DEF Iceberg
  <2>3. /\ e.hidden > 0
        /\ g # NullIndex
        /\ w.book.slot[g].side = e.side /\ w.book.slot[g].px = e.px
        /\ w.book.slot[g].qty <= e.display
        /\ \A j \in DOMAIN w.icebergs : w.icebergs[j].ref = e.ref => j = i
    <3>1. CoveredAt(w, ZeroRef, i)
      BY CoveredEach
    <3> QED
      BY <2>2, <3>1 DEF CoveredAt
  <2> HIDE DEF e
  <2>4. g \in w.book.live /\ w.book.slot[g].ref = e.ref
    BY <2>2, <2>3, Resolves
  <2>5. w.book.slot[g].qty \in Int
    BY <2>4, GoodParts, LiveOrder
  <2>6. CASE e.ref = r
    <3>1. g = h
      BY <2>6 DEF Reduced
    <3> QED
      BY <2>2, <2>3, <2>5, <2>6, <3>1 DEF Reduced
  <2>7. CASE e.ref # r
    <3>1. h \in w.book.live /\ w.book.id[r] = h
      BY DEF Reduced
    <3>2. w.book.slot[h].ref = r
      BY <3>1, Resolves, GoodParts, SlotAssumption
    <3>3. g # h /\ v.book.id[e.ref] = g
      BY <2>2, <2>4, <2>7, <3>2 DEF Reduced
    <3>4. /\ v.book.slot[g].side = e.side /\ v.book.slot[g].px = e.px
          /\ v.book.slot[g].qty <= e.display
      BY <2>3, <2>4, <3>3 DEF Reduced
    <3> QED
      BY <2>3, <3>3, <3>4
  <2> QED
    BY <2>6, <2>7
<1> QED
  BY <1>0, <1>1, CoveredEach

LEMMA SyncUpdate ==
  ASSUME NEW k \in Tracker, NEW n \in Int
  PROVE  LET u == [k EXCEPT !.rem = n, !.ahead = 0]
         IN  /\ u \in Tracker
             /\ u.live = k.live /\ u.ref = k.ref /\ u.side = k.side /\ u.px = k.px
             /\ u.rem = n
<1> DEFINE m == [k EXCEPT !.rem = n]
<1>1. m \in Tracker /\ m.rem = n
  BY DEF Tracker
<1>2. m.live = k.live /\ m.ref = k.ref /\ m.side = k.side /\ m.px = k.px
  BY DEF Tracker
<1>3. [k EXCEPT !.rem = n, !.ahead = 0] = [m EXCEPT !.ahead = 0]
  BY DEF Tracker
<1> HIDE DEF m
<1>4. [m EXCEPT !.ahead = 0] \in Tracker
  BY <1>1, AheadUpdate
<1> QED
  BY <1>1, <1>2, <1>3, <1>4, AheadUpdate

LEMMA TakeSane ==
  ASSUME NEW w, Sane(w, ZeroRef), NEW h \in w.book.live, NEW q \in Int,
         0 < q, q <= w.book.slot[h].qty
  PROVE  LET v == Take(w, h, q)
             r == w.book.slot[h].ref
         IN  /\ Sane(v, r) /\ r \in Ref
             /\ v.book = Reduce(w.book, h, q)
             /\ v.icebergs = w.icebergs /\ v.hidden = w.hidden
             /\ v.book.id[r] = NullIndex => h \notin v.book.live
             /\ \A i \in Slots : v.tracked[i].live => w.tracked[i].live
             /\ \A i \in v.book.live : /\ i \in w.book.live
                                      /\ v.book.slot[i].side = w.book.slot[i].side
                                      /\ v.book.slot[i].px = w.book.slot[i].px
<1> DEFINE v == Take(w, h, q)
           o == w.book.slot[h]
           left == o.qty - q
           mine == w.tracked[h].live
           rec == IF ~mine THEN w.tracked[h]
                  ELSE IF left = 0 THEN NoRecord
                  ELSE [w.tracked[h] EXCEPT !.rem = left, !.ahead = 0]
           k == [w.tracked EXCEPT ![h] = rec]
           b == Reduce(w.book, h, q)
           sy == IF mine THEN w.synced \union {h} ELSE w.synced
<1>1. /\ w \in Sim /\ GoodBook(w.book) /\ Mirrored(w) /\ Placed(w)
      /\ FullReserves => Covered(w, ZeroRef)
  BY DEF Sane
<1>2. h \in Slots /\ o.ref \in Ref /\ o.qty \in Int /\ o.side \in Side /\ o.px \in Ticks
  BY <1>1, GoodParts, LiveOrder
<1>3. v = [w EXCEPT !.book = b, !.synced = sy, !.tracked = k]
  BY DEF Take
<1>4. left \in Int /\ (left = 0 <=> q = o.qty) /\ w.tracked[h] \in Tracker
  BY <1>1, <1>2, SimFields
<1> HIDE DEF left
<1>5. /\ rec \in Tracker /\ rec.live = (mine /\ left # 0)
      /\ mine /\ left # 0 => /\ rec.ref = w.tracked[h].ref /\ rec.side = w.tracked[h].side
                             /\ rec.px = w.tracked[h].px /\ rec.rem = left
  <2>1. mine \in BOOLEAN
    BY <1>4 DEF Tracker
  <2>2. CASE ~mine
    BY <1>4, <2>1, <2>2
  <2>3. CASE mine /\ left = 0
    BY <2>3, NoRecordTyped
  <2>4. CASE mine /\ left # 0
    <3>1. rec = [w.tracked[h] EXCEPT !.rem = left, !.ahead = 0]
      BY <2>4
    <3> HIDE DEF rec
    <3>2. /\ rec \in Tracker /\ rec.live = mine
          /\ rec.ref = w.tracked[h].ref /\ rec.side = w.tracked[h].side
          /\ rec.px = w.tracked[h].px /\ rec.rem = left
      BY <1>4, <3>1, SyncUpdate
    <3> HIDE DEF mine
    <3> QED
      BY <2>1, <2>4, <3>2
  <2> QED
    BY <2>1, <2>2, <2>3, <2>4
<1>6. /\ GoodBook(b) /\ b.page = w.book.page
      /\ b.live = IF left = 0 THEN w.book.live \ {h} ELSE w.book.live
      /\ \A i \in w.book.live \ {h} :
           /\ b.slot[i].ref = w.book.slot[i].ref /\ b.slot[i].side = w.book.slot[i].side
           /\ b.slot[i].px = w.book.slot[i].px /\ b.slot[i].qty = w.book.slot[i].qty
      /\ left # 0 => /\ b.slot[h].ref = o.ref /\ b.slot[h].side = o.side
                     /\ b.slot[h].px = o.px /\ b.slot[h].qty = left
      /\ \A x \in Ref : b.id[x] = IF left = 0 /\ x = o.ref THEN NullIndex ELSE w.book.id[x]
  <2>1. CASE left = 0
    <3>1. b = Drop(w.book, h)
      BY <1>4, <2>1 DEF Reduce
    <3> HIDE DEF b
    <3> QED
      BY <1>1, <2>1, <3>1, DropGood
  <2>2. CASE left # 0
    <3>1. b = Shrink(w.book, h, q) /\ q < o.qty
      BY <1>2, <1>4, <2>2 DEF Reduce
    <3> HIDE DEF b
    <3> QED
      BY <1>1, <2>2, <3>1, ShrinkGood DEF left
  <2> QED
    BY <2>1, <2>2
<1>7. /\ b \in Book /\ k \in [Slots -> Tracker] /\ sy \in SUBSET Slots
      /\ w.tracked \in [Slots -> Tracker]
  BY <1>1, <1>2, <1>5, <1>6, GoodParts, SimFields
<1> HIDE DEF b, rec, sy
<1>8. /\ k[h] = rec
      /\ \A i \in Slots \ {h} : k[i] = w.tracked[i]
  BY <1>2, <1>7
<1> HIDE DEF k
<1>9. /\ v \in Sim /\ v.book = b /\ v.tracked = k
      /\ v.icebergs = w.icebergs /\ v.hidden = w.hidden
  BY <1>1, <1>3, <1>7 DEF Sim
<1> HIDE DEF v
<1>10. Mirrored(v)
  <2>1. /\ mine = (o.ref \in Strategy)
        /\ mine => /\ w.tracked[h].ref = o.ref /\ w.tracked[h].side = o.side
                   /\ w.tracked[h].px = o.px
    BY <1>1, <1>2 DEF Mirrored
  <2>2. /\ v.tracked[h].live = (h \in v.book.live /\ v.book.slot[h].ref \in Strategy)
        /\ v.tracked[h].live =>
             /\ v.tracked[h].ref = v.book.slot[h].ref /\ v.tracked[h].side = v.book.slot[h].side
             /\ v.tracked[h].px = v.book.slot[h].px /\ v.tracked[h].rem = v.book.slot[h].qty
    BY <1>5, <1>6, <1>8, <1>9, <2>1
  <2>3. \A i \in Slots \ {h} :
           /\ v.tracked[i] = w.tracked[i]
           /\ i \in v.book.live <=> i \in w.book.live
           /\ i \in w.book.live =>
                /\ v.book.slot[i].ref = w.book.slot[i].ref
                /\ v.book.slot[i].side = w.book.slot[i].side
                /\ v.book.slot[i].px = w.book.slot[i].px
                /\ v.book.slot[i].qty = w.book.slot[i].qty
    BY <1>6, <1>8, <1>9
  <2> QED
    BY <1>1, <1>2, <2>2, <2>3, MirrorMoves
<1>11. Placed(v)
  BY <1>1, <1>6, <1>9 DEF Placed
<1>12. v.book.id[o.ref] = NullIndex => h \notin v.book.live
  <2>1. w.book.id[o.ref] = h /\ h # NullIndex
    BY <1>1, <1>2, Resolves, SlotAssumption
  <2> QED
    BY <1>2, <1>6, <1>9, <2>1
<1>13. FullReserves => Covered(v, o.ref)
  <2> SUFFICES ASSUME FullReserves PROVE Covered(v, o.ref)
    OBVIOUS
  <2>1. w.book.id[o.ref] = h /\ Covered(w, ZeroRef)
    BY <1>1, <1>2, Resolves
  <2>2. \/ v.book.id[o.ref] = NullIndex
        \/ /\ v.book.id[o.ref] = h
           /\ v.book.slot[h].side = o.side /\ v.book.slot[h].px = o.px
           /\ v.book.slot[h].qty <= o.qty /\ v.book.slot[h].qty \in Int
    BY <1>2, <1>4, <1>6, <1>9, <2>1 DEF left
  <2>3. Reduced(w, v, h, o.ref)
    BY <1>6, <1>9, <2>1, <2>2 DEF Reduced
  <2> QED
    BY <1>1, <1>2, <2>1, <2>3, CoveredMoves
<1>14. \A i \in Slots : v.tracked[i].live => w.tracked[i].live
  BY <1>5, <1>8, <1>9
<1>15. Sane(v, o.ref)
  BY <1>6, <1>9, <1>10, <1>11, <1>13 DEF Sane
<1>16. \A i \in v.book.live : /\ i \in w.book.live
                              /\ v.book.slot[i].side = w.book.slot[i].side
                              /\ v.book.slot[i].px = w.book.slot[i].px
  BY <1>6, <1>9
<1> QED
  BY <1>2, <1>9, <1>12, <1>14, <1>15, <1>16 DEF v, b

LEMMA LeastOf ==
  ASSUME NEW S \in SUBSET Nat, S # {}
  PROVE  Min(S) \in S /\ \A y \in S : Min(S) <= y
<1>1. \E m \in S : \A k \in S : ~(<<k, m>> \in OpToRel(<, Nat))
  BY NatLessThanWellFounded, WFMin
<1>2. PICK m \in S : \A k \in S : ~(k < m)
  BY <1>1 DEF OpToRel
<1>3. \A k \in S : m <= k
  BY <1>2
<1> QED
  BY <1>3 DEF Min

LEMMA IcebergFound ==
  ASSUME NEW w \in Sim, NEW r
  PROVE  LET i == IcebergOf(w, r)
         IN  \/ i = 0 /\ \A j \in DOMAIN w.icebergs : w.icebergs[j].ref # r
             \/ /\ i \in DOMAIN w.icebergs /\ i \in 1 .. Len(w.icebergs)
                /\ w.icebergs[i].ref = r
                /\ \A j \in DOMAIN w.icebergs : w.icebergs[j].ref = r => i <= j
<1> DEFINE I == {j \in 1 .. Len(w.icebergs) : w.icebergs[j].ref = r}
<1>1. IcebergOf(w, r) = IF I # {} THEN Min(I) ELSE 0
  BY DEF IcebergOf, SelectInSeq
<1>2. DOMAIN w.icebergs = 1 .. Len(w.icebergs) /\ Len(w.icebergs) \in Nat
  BY SimFields
<1>3. I \subseteq Nat
  BY <1>2
<1>4. CASE I = {}
  BY <1>1, <1>2, <1>4
<1>5. CASE I # {}
  <2>1. Min(I) \in I /\ \A j \in I : Min(I) <= j
    BY <1>3, <1>5, LeastOf
  <2> DEFINE m == Min(I)
  <2>2. m \in I /\ \A j \in I : m <= j
    BY <2>1
  <2> HIDE DEF m
  <2>3. /\ m \in DOMAIN w.icebergs /\ m \in 1 .. Len(w.icebergs)
        /\ w.icebergs[m].ref = r
        /\ \A j \in DOMAIN w.icebergs : w.icebergs[j].ref = r => m <= j
    BY <1>2, <2>2
  <2>4. IcebergOf(w, r) = m
    BY <1>1, <1>5 DEF m
  <2> QED
    BY <2>3, <2>4
<1> QED
  BY <1>4, <1>5

(* drop_iceberg: the last entry takes the place of the one that leaves.    *)
LEMMA SwapRemove ==
  ASSUME NEW T, NEW s \in Seq(T), NEW i \in 1 .. Len(s)
  PROVE  LET m == Front([s EXCEPT ![i] = Last(s)])
         IN  /\ m \in Seq(T) /\ DOMAIN m = 1 .. (Len(s) - 1)
             /\ \A j \in 1 .. (Len(s) - 1) : m[j] = s[IF j = i THEN Len(s) ELSE j]
<1> DEFINE u == [s EXCEPT ![i] = Last(s)]
<1>1. Len(s) \in Nat /\ Len(s) # 0 /\ s[Len(s)] \in T
  OBVIOUS
<1>2. u \in Seq(T) /\ Len(u) = Len(s)
  BY <1>1 DEF Last
<1>3. \A j \in 1 .. Len(s) : u[j] = s[IF j = i THEN Len(s) ELSE j]
  BY <1>1 DEF Last
<1> HIDE DEF u
<1>4. Front(u) = SubSeq(u, 1, Len(s) - 1)
  BY <1>2 DEF Front
<1>5. /\ SubSeq(u, 1, Len(s) - 1) \in Seq(T)
      /\ Len(SubSeq(u, 1, Len(s) - 1)) = Len(s) - 1
      /\ \A j \in 1 .. (Len(s) - 1) : SubSeq(u, 1, Len(s) - 1)[j] = u[j]
  BY <1>1, <1>2
<1>6. /\ Front(u) \in Seq(T) /\ Len(Front(u)) = Len(s) - 1
      /\ \A j \in 1 .. (Len(s) - 1) : Front(u)[j] = s[IF j = i THEN Len(s) ELSE j]
  BY <1>1, <1>3, <1>4, <1>5
<1>7. DOMAIN Front(u) = 1 .. (Len(s) - 1)
  BY <1>6
<1> QED
  BY <1>6, <1>7 DEF u

(* v rests what w does, but for a slice of an iceberg of reference r.      *)
Restocked(w, v, r, h) ==
  \A i \in v.book.live :
    \/ /\ i \in w.book.live /\ v.book.slot[i].side = w.book.slot[i].side
       /\ v.book.slot[i].px = w.book.slot[i].px
    \/ /\ i = h
       /\ \E j \in DOMAIN w.icebergs : /\ w.icebergs[j].ref = r
                                       /\ w.icebergs[j].side = v.book.slot[h].side
                                       /\ w.icebergs[j].px = v.book.slot[h].px

LEMMA ReplenishSane ==
  ASSUME NEW w, NEW r \in Ref, Sane(w, r), NEW h \in Slots,
         w.book.id[r] = NullIndex => h \notin w.book.live
  PROVE  LET v == Replenish(w, r, h)
         IN  /\ Sane(v, ZeroRef) /\ v.hidden = w.hidden /\ v.tracked = w.tracked
             /\ Restocked(w, v, r, h)
<1> DEFINE i == IcebergOf(w, r)
           L == Len(w.icebergs)
           e == w.icebergs[i]
           slice == IF e.display < e.hidden THEN e.display ELSE e.hidden
           moved == Front([w.icebergs EXCEPT ![i] = Last(w.icebergs)])
           cut == [e EXCEPT !.hidden = @ - slice]
           less == [w.icebergs EXCEPT ![i] = cut]
           ib == IF e.hidden = slice THEN moved ELSE less
           b == Insert(w.book, h, r, e.side, slice, e.px)
           v == [w EXCEPT !.book = b, !.icebergs = ib]
<1>1. /\ w \in Sim /\ GoodBook(w.book) /\ Mirrored(w) /\ Placed(w)
      /\ FullReserves => Covered(w, r)
  BY DEF Sane
<1>2. /\ DOMAIN w.icebergs = 1 .. L /\ L \in Nat
      /\ \A j \in 1 .. L : w.icebergs[j] \in Iceberg
      /\ w.icebergs \in Seq(Iceberg)
  BY <1>1, SimFields
<1>3. /\ Find(w.book, r) = w.book.id[r]
      /\ ZeroRef \notin Ref
  BY <1>1, Resolves, RefAssumption
<1>4. \A j \in 1 .. L : w.icebergs[j].ref # ZeroRef
  BY <1>2, <1>3, SimAssumption DEF Iceberg
<1>5. CASE i = 0 \/ w.book.id[r] # NullIndex
  <2>1. Replenish(w, r, h) = w
    BY <1>3, <1>5 DEF Replenish
  <2>2. i = 0 => \A j \in DOMAIN w.icebergs : w.icebergs[j].ref # r
    BY <1>1, <1>2, IcebergFound
  <2> HIDE DEF i
  <2>3. FullReserves => Covered(w, ZeroRef)
    BY <1>1, <1>2, <1>5, <2>2 DEF Covered
  <2>4. Restocked(w, w, r, h)
    BY DEF Restocked
  <2>5. Sane(w, ZeroRef)
    BY <1>1, <2>3 DEF Sane
  <2> QED
    BY <2>1, <2>4, <2>5
<1>6. CASE i # 0 /\ w.book.id[r] = NullIndex
  <2>1. i \in 1 .. L /\ e.ref = r
    BY <1>1, <1>2, <1>6, IcebergFound
  <2> HIDE DEF i, L
  <2>2. e \in Iceberg
    BY <1>2, <2>1
  <2>3. /\ e.display \in Nat /\ e.display > 0 /\ e.hidden \in Nat
        /\ e.side \in Side /\ e.px \in Ticks /\ e.ref \in External
    BY <2>2 DEF Iceberg
  <2>4. CASE e.hidden = 0
    <3>1. Replenish(w, r, h) = w
      BY <1>3, <1>6, <2>1, <2>4 DEF Replenish, i
    <3>2. ~FullReserves
      <4> SUFFICES ASSUME FullReserves PROVE FALSE
        OBVIOUS
      <4>1. CoveredAt(w, r, i)
        BY <1>1, <1>2, <2>1, CoveredEach
      <4>2. e.hidden > 0
        BY <4>1 DEF CoveredAt
      <4> QED
        BY <2>4, <4>2
    <3>3. Sane(w, ZeroRef)
      BY <1>1, <3>2 DEF Sane
    <3>4. Restocked(w, w, r, h)
      BY DEF Restocked
    <3> QED
      BY <3>1, <3>3, <3>4
  <2>5. CASE e.hidden # 0
    <3>1. Replenish(w, r, h) = v
      BY <1>3, <1>6, <2>1, <2>5 DEF Replenish, i
    <3>2. slice \in Nat /\ slice > 0 /\ slice <= e.hidden /\ slice <= e.display
      BY <2>3, <2>5
    <3> HIDE DEF slice
    <3>3. cut \in Iceberg /\ cut.ref = r /\ cut.side = e.side /\ cut.px = e.px
          /\ cut.display = e.display /\ cut.hidden = e.hidden - slice
      BY <2>1, <2>2, <2>3, <3>2 DEF Iceberg
    <3> HIDE DEF cut
    <3>4. Claimable(w.book, e.side, e.px)
      BY <1>1, <1>2, <2>1 DEF Claimable, Placed
    <3> DEFINE from(j) == IF e.hidden = slice /\ j = i THEN L ELSE j
    <3>5. /\ ib \in Seq(Iceberg)
          /\ DOMAIN ib = 1 .. (IF e.hidden = slice THEN L - 1 ELSE L)
          /\ \A j \in DOMAIN ib :
               ib[j] = IF e.hidden # slice /\ j = i THEN cut ELSE w.icebergs[from(j)]
      <4>1. CASE e.hidden = slice
        <5>1. moved \in Seq(Iceberg) /\ DOMAIN moved = 1 .. (L - 1)
              /\ \A j \in 1 .. (L - 1) : moved[j] = w.icebergs[IF j = i THEN L ELSE j]
          BY <1>2, <2>1, SwapRemove DEF L
        <5> HIDE DEF moved, e
        <5> QED
          BY <4>1, <5>1
      <4>2. CASE e.hidden # slice
        <5>1. less \in Seq(Iceberg) /\ DOMAIN less = 1 .. L
              /\ \A j \in 1 .. L : less[j] = IF j = i THEN cut ELSE w.icebergs[j]
          BY <1>2, <2>1, <3>3 DEF L
        <5> HIDE DEF less, e
        <5> QED
          BY <4>2, <5>1
      <4> QED
        BY <4>1, <4>2
    <3> HIDE DEF ib
    <3>6. /\ GoodBook(b)
          /\ b.live = w.book.live \union {h}
          /\ b.slot[h].ref = r /\ b.slot[h].side = e.side
          /\ b.slot[h].px = e.px /\ b.slot[h].qty = slice
          /\ \A j \in w.book.live :
               /\ b.slot[j].ref = w.book.slot[j].ref /\ b.slot[j].side = w.book.slot[j].side
               /\ b.slot[j].px = w.book.slot[j].px /\ b.slot[j].qty = w.book.slot[j].qty
          /\ \A x \in Ref : b.id[x] = IF x = r THEN h ELSE w.book.id[x]
          /\ \A x \in Side : b.page[x] = IF x = e.side THEN w.book.page[x] \union {Page(e.px)}
                                         ELSE w.book.page[x]
      <4>1. h \in Slots \ w.book.live /\ slice \in Int /\ w.book.id[r] = NullIndex
        BY <1>6, <3>2
      <4> HIDE DEF e, v
      <4>2. Inserted(w.book, b, h, r, e.side, slice, e.px)
        BY <1>1, <2>3, <3>2, <3>4, <4>1, InsertGood
      <4> HIDE DEF b
      <4> QED
        BY <4>2 DEF Inserted
    <3> HIDE DEF b, e
    <3>7. b \in Book
      BY <3>6, GoodParts
    <3>8. /\ v \in Sim /\ v.book = b /\ v.icebergs = ib
          /\ v.hidden = w.hidden /\ v.tracked = w.tracked
      BY <1>1, <3>5, <3>7 DEF Sim
    <3> HIDE DEF v
    <3>9. \A j \in DOMAIN ib : /\ from(j) \in 1 .. L
                               /\ ib[j].ref = w.icebergs[from(j)].ref
                               /\ ib[j].side = w.icebergs[from(j)].side
                               /\ ib[j].px = w.icebergs[from(j)].px
                               /\ ib[j].display = w.icebergs[from(j)].display
      BY <1>2, <2>1, <3>3, <3>5 DEF e
    <3>10. Placed(v)
      <4> SUFFICES ASSUME NEW j \in DOMAIN ib PROVE Page(ib[j].px) \in b.page[ib[j].side]
        BY <3>8 DEF Placed
      <4>1. Page(w.icebergs[from(j)].px) \in w.book.page[w.icebergs[from(j)].side]
        BY <1>1, <1>2, <3>9 DEF Placed
      <4>2. w.icebergs[from(j)].side \in Side
        BY <1>2, <3>9 DEF Iceberg
      <4> HIDE DEF from
      <4> QED
        BY <3>6, <3>9, <4>1, <4>2, ZenonT(30)
    <3>11. Mirrored(v)
      <4>1. w.tracked[h].live = FALSE
        BY <1>1, <1>6 DEF Mirrored
      <4>2. r \notin Strategy
        BY <2>1, <2>3 DEF Strategy
      <4>3. /\ v.tracked[h].live = FALSE
            /\ v.tracked[h].live = (h \in v.book.live /\ v.book.slot[h].ref \in Strategy)
        BY <3>6, <3>8, <4>1, <4>2
      <4>4. \A j \in Slots \ {h} :
           /\ v.tracked[j] = w.tracked[j]
           /\ j \in v.book.live <=> j \in w.book.live
           /\ j \in w.book.live =>
                /\ v.book.slot[j].ref = w.book.slot[j].ref
                /\ v.book.slot[j].side = w.book.slot[j].side
                /\ v.book.slot[j].px = w.book.slot[j].px
                /\ v.book.slot[j].qty = w.book.slot[j].qty
        BY <3>6, <3>8
      <4> QED
        BY <1>1, <4>3, <4>4, MirrorMoves
    <3>12. FullReserves => Covered(v, ZeroRef)
      <4> SUFFICES ASSUME FullReserves, NEW j \in DOMAIN ib
                   PROVE  /\ ib[j].hidden > 0
                          /\ b.id[ib[j].ref] # NullIndex
                          /\ LET g == b.id[ib[j].ref]
                             IN  /\ b.slot[g].side = ib[j].side /\ b.slot[g].px = ib[j].px
                                 /\ b.slot[g].qty <= ib[j].display
                          /\ \A k \in DOMAIN ib : ib[k].ref = ib[j].ref => k = j
        BY <3>8 DEF Covered
      <4>1. /\ from(j) \in 1 .. L
            /\ ib[j].ref = w.icebergs[from(j)].ref /\ ib[j].ref \in Ref
        BY <1>2, <3>9, SimAssumption DEF Iceberg
      <4> DEFINE d == w.icebergs[from(j)]
                 g == w.book.id[d.ref]
      <4>2. /\ d.hidden > 0
            /\ g # NullIndex \/ d.ref = r
            /\ g # NullIndex => /\ w.book.slot[g].side = d.side /\ w.book.slot[g].px = d.px
                                /\ w.book.slot[g].qty <= d.display
            /\ \A k \in DOMAIN w.icebergs : w.icebergs[k].ref = d.ref => k = from(j)
        BY <1>1, <1>2, <4>1 DEF Covered
      <4>3. \A k \in DOMAIN ib : ib[k].ref = ib[j].ref => k = j
        <5> SUFFICES ASSUME NEW k \in DOMAIN ib, ib[k].ref = ib[j].ref PROVE k = j
          OBVIOUS
        <5>1. from(k) \in DOMAIN w.icebergs /\ w.icebergs[from(k)].ref = d.ref
          <6>1. from(k) \in 1 .. L /\ ib[k].ref = w.icebergs[from(k)].ref
            BY <3>9
          <6> QED
            BY <1>2, <4>1, <6>1
        <5>2. from(k) = from(j)
          <6> HIDE DEF from, d
          <6> QED
            BY <4>2, <5>1
        <5> QED
          BY <1>2, <2>1, <3>5, <5>2
      <4>4. CASE d.ref = r
        <5>1. from(j) = i
          BY <1>2, <2>1, <4>2, <4>4 DEF e
        <5>2. e.hidden # slice /\ j = i
          BY <1>2, <2>1, <3>5, <5>1
        <5>3. ib[j] = cut
          BY <3>5, <5>2
        <5> HIDE DEF from, d
        <5> QED
          BY <1>3, <2>3, <3>2, <3>3, <3>6, <4>3, <5>2, <5>3, SlotAssumption
      <4>5. CASE d.ref # r
        <5>1. ib[j].hidden = d.hidden
          BY <2>1, <3>5, <4>1, <4>5, <3>3
        <5>2. g \in w.book.live /\ b.id[ib[j].ref] = g
          <6>1. d.ref \in Ref /\ ib[j].ref = d.ref /\ g # NullIndex
            BY <4>1, <4>2, <4>5
          <6> HIDE DEF d
          <6> QED
            BY <1>1, <3>6, <4>5, <6>1, Resolves
        <5>3. ib[j].side = d.side /\ ib[j].px = d.px /\ ib[j].display = d.display
          BY <3>9
        <5> HIDE DEF d, from
        <5> QED
          BY <3>6, <4>2, <4>3, <4>5, <5>1, <5>2, <5>3
      <4> QED
        BY <4>4, <4>5
    <3>13. Sane(v, ZeroRef)
      BY <3>6, <3>8, <3>10, <3>11, <3>12 DEF Sane
    <3>14. Restocked(w, v, r, h)
      BY <1>2, <2>1, <3>6, <3>8 DEF Restocked, e
    <3> QED
      BY <3>1, <3>8, <3>13, <3>14
  <2> QED
    BY <2>4, <2>5
<1> QED
  BY <1>5, <1>6

(* Bookkeeping and hidden orders do not matter to the book.                *)
LEMMA BookkeepingKin ==
  ASSUME NEW w \in Sim, NEW hd \in Seq(Hidden), NEW sy \in SUBSET Slots,
         NEW dr \in SUBSET (Side \X Int)
  PROVE  /\ Kin(w, [w EXCEPT !.hidden = hd])
         /\ Kin(w, [w EXCEPT !.synced = sy])
         /\ Kin(w, [w EXCEPT !.drift = dr])
         /\ Kin(w, [w EXCEPT !.synced = sy, !.drift = dr])
<1> DEFINE v1 == [w EXCEPT !.hidden = hd]
           v2 == [w EXCEPT !.synced = sy]
           v3 == [w EXCEPT !.drift = dr]
           v4 == [w EXCEPT !.synced = sy, !.drift = dr]
<1>1. v1 \in Sim /\ v2 \in Sim /\ v3 \in Sim /\ v4 \in Sim
  BY DEF Sim
<1>2. /\ v1.book = w.book /\ v1.icebergs = w.icebergs /\ v1.tracked = w.tracked
      /\ v2.book = w.book /\ v2.icebergs = w.icebergs /\ v2.tracked = w.tracked
      /\ v3.book = w.book /\ v3.icebergs = w.icebergs /\ v3.tracked = w.tracked
      /\ v4.book = w.book /\ v4.icebergs = w.icebergs /\ v4.tracked = w.tracked
  BY DEF Sim
<1> HIDE DEF v1, v2, v3, v4
<1>3. Kin(w, v1) /\ Kin(w, v2) /\ Kin(w, v3) /\ Kin(w, v4)
  BY <1>1, <1>2 DEF Kin
<1> QED
  BY <1>3 DEF v1, v2, v3, v4

----------------------------------------------------------------------------
(* Consuming a level.                                                      *)

(* The states of its loop.                                                 *)
Takings == {c \in [w : Sim, rem : Nat] : Sane(c.w, ZeroRef)}

LEMMA TakingsParts ==
  /\ \A c \in Takings : c.w \in Sim /\ c.rem \in Nat /\ Sane(c.w, ZeroRef)
  /\ \A w : Sane(w, ZeroRef) => \A q \in Nat : [w |-> w, rem |-> q] \in Takings
BY DEF Takings, Sane

LEMMA HeadTurnKeeps ==
  ASSUME NEW c \in Takings, NEW s \in Side, NEW t \in Ticks
  PROVE  HeadTurn(c, s, t) \in Takings
<1> DEFINE h == FrontSlot(c.w, s, t)
           o == c.w.book.slot[h]
           k == IF c.rem < o.qty THEN c.rem ELSE o.qty
           v == Take(c.w, h, k)
           u == Replenish(v, o.ref, h)
<1>1. c.rem \in Nat /\ Sane(c.w, ZeroRef) /\ GoodBook(c.w.book)
  BY TakingsParts DEF Sane
<1>2. CASE c.rem = 0 \/ h = NullIndex
  BY <1>2 DEF HeadTurn
<1>3. CASE c.rem # 0 /\ h # NullIndex
  <2>1. h \in c.w.book.live /\ h \in Slots
    BY <1>1, <1>3, HeadRests, GoodParts DEF FrontSlot, OrdersAt
  <2>2. o.qty \in Int /\ o.qty > 0
    BY <1>1, <2>1, GoodParts, LiveOrder
  <2>3. k \in Int /\ 0 < k /\ k <= o.qty /\ c.rem - k \in Nat
    BY <1>1, <1>3, <2>2
  <2> HIDE DEF h, k
  <2>4. Sane(v, o.ref) /\ o.ref \in Ref /\ (v.book.id[o.ref] = NullIndex => h \notin v.book.live)
    BY <1>1, <2>1, <2>3, TakeSane
  <2> HIDE DEF v
  <2>5. Sane(u, ZeroRef)
    BY <2>1, <2>4, ReplenishSane
  <2> HIDE DEF u
  <2>6. HeadTurn(c, s, t) = [w |-> u, rem |-> c.rem - k]
    BY <1>3 DEF HeadTurn, h, k, u, v
  <2> QED
    BY <2>3, <2>5, <2>6, TakingsParts
<1> QED
  BY <1>2, <1>3

(* f holds the states of the loop, f[n] after n turns.                     *)
HeadsRun(w, s, t, q, f) ==
  /\ f[0] = [w |-> w, rem |-> q]
  /\ \A n \in 1 .. q : f[n] = HeadTurn(f[n - 1], s, t)
  /\ \A n \in 0 .. q : f[n] \in Takings
  /\ Heads(w, s, t, q) = f[q].w

LEMMA HeadsRuns ==
  ASSUME NEW w, Sane(w, ZeroRef), NEW s \in Side, NEW t \in Ticks, NEW q \in Nat
  PROVE  \E f : HeadsRun(w, s, t, q, f)
<1> DEFINE x0 == [w |-> w, rem |-> q]
           Body(f) == [n \in 0 .. q |-> IF n = 0 THEN x0 ELSE HeadTurn(f[n - 1], s, t)]
           f == CHOOSE x : x = Body(x)
           G == [n \in 1 .. q |-> [c \in Takings |-> HeadTurn(c, s, t)]]
<1>1. Heads(w, s, t, q) = f[q].w
  BY DEF Heads
<1>2. x0 \in Takings
  BY TakingsParts
<1> HIDE DEF x0
<1>3. G \in [1 .. q -> [Takings -> Takings]]
  BY HeadTurnKeeps
<1> HIDE DEF G
<1>4. PICK g : Turns(q, Takings, x0, G, g)
  BY <1>2, <1>3, LoopExists
<1>5. g = Body(g)
  <2>1. \A n \in 1 .. q, c \in Takings : G[n][c] = HeadTurn(c, s, t)
    BY DEF G
  <2>2. \A n \in 1 .. q : n - 1 \in 0 .. q /\ g[n] = HeadTurn(g[n - 1], s, t)
    BY <1>4, <2>1 DEF Turns
  <2>3. \A n \in 0 .. q : g[n] = IF n = 0 THEN x0 ELSE HeadTurn(g[n - 1], s, t)
    BY <1>4, <2>2 DEF Turns
  <2>4. g = [n \in 0 .. q |-> g[n]]
    BY <1>4 DEF Turns
  <2> QED
    BY <2>3, <2>4
<1> HIDE DEF Body
<1>6. f = Body(f)
  BY <1>5, Zenon
<1> HIDE DEF f
<1>7. f[0] = x0 /\ \A n \in 1 .. q : f[n] = HeadTurn(f[n - 1], s, t)
  BY <1>6 DEF Body
<1>8. f[0] \in Takings /\ \A n \in 1 .. q : f[n - 1] \in Takings => f[n] \in Takings
  BY <1>2, <1>7, HeadTurnKeeps
<1>9. \A n \in 0 .. q : f[n] \in Takings
  BY <1>8, LoopKeeps
<1>10. HeadsRun(w, s, t, q, f)
  BY <1>1, <1>7, <1>9 DEF HeadsRun, x0
<1> QED
  BY <1>10

LEMMA HeadsSane ==
  ASSUME NEW w, Sane(w, ZeroRef), NEW s \in Side, NEW t \in Ticks, NEW q \in Nat
  PROVE  Sane(Heads(w, s, t, q), ZeroRef)
<1>1. PICK f : HeadsRun(w, s, t, q, f)
  BY HeadsRuns
<1>2. f[q] \in Takings /\ Heads(w, s, t, q) = f[q].w
  BY <1>1 DEF HeadsRun
<1> QED
  BY <1>2, TakingsParts

LEMMA ConsumeSane ==
  ASSUME NEW w, Sane(w, ZeroRef), NEW s \in Side, NEW t \in Int, NEW q \in Nat
  PROVE  Sane(Consume(w, s, t, q), ZeroRef)
<1> DEFINE fresh == [w EXCEPT !.synced = {}]
           sub == Subtract(fresh, s, t, q, FALSE)
           hd == Heads(sub, s, t, q)
           late == q > 0 /\ t \in w.fallback[s]
           dr == IF late THEN hd.drift \union {<<s, t>>} ELSE hd.drift
<1>1. w \in Sim
  BY DEF Sane
<1>2. Kin(w, fresh)
  BY <1>1, SimFields, BookkeepingKin
<1> HIDE DEF fresh
<1>3. Sane(fresh, ZeroRef)
  BY <1>2, KinSane
<1>4. CASE t \notin Ticks
  BY <1>3, <1>4, TickInBand DEF Consume, fresh
<1>5. CASE t \in Ticks
  <2>1. Kin(fresh, sub)
    <3>1. fresh \in Sim /\ q \in Int
      BY <1>2 DEF Kin
    <3>2. Moved(fresh, sub)
      BY <3>1, SubtractKin
    <3> QED
      BY <3>2 DEF Moved
  <2> HIDE DEF sub
  <2>2. Sane(sub, ZeroRef)
    BY <1>3, <2>1, KinSane
  <2>3. Sane(hd, ZeroRef)
    BY <1>5, <2>2, HeadsSane
  <2> HIDE DEF hd
  <2>4. hd \in Sim
    BY <2>3 DEF Sane
  <2>5. dr \in SUBSET (Side \X Int)
    BY <2>4, SimFields
  <2>6. Kin(hd, [hd EXCEPT !.drift = dr])
    BY <2>4, <2>5, SimFields, BookkeepingKin
  <2>7. Consume(w, s, t, q) = [hd EXCEPT !.drift = dr]
    BY <1>5, TickInBand DEF Consume, hd, sub, fresh
  <2> QED
    BY <2>3, <2>6, <2>7, KinSane
<1> QED
  BY <1>4, <1>5

----------------------------------------------------------------------------
(* Hidden orders.                                                          *)

LEMMA SeqOfFunction ==
  ASSUME NEW T, NEW n \in Nat, NEW f \in [1 .. n -> T]
  PROVE  f \in Seq(T) /\ Len(f) = n
OBVIOUS

LEMMA RemoveAtTyped ==
  ASSUME NEW T, NEW s \in Seq(T), NEW i \in 1 .. Len(s)
  PROVE  LET m == RemoveAt(s, i)
         IN  /\ m \in Seq(T) /\ DOMAIN m = 1 .. (Len(s) - 1)
             /\ \A j \in 1 .. (Len(s) - 1) : m[j] = s[IF j < i THEN j ELSE j + 1]
<1> DEFINE a == SubSeq(s, 1, i - 1)
           z == SubSeq(s, i + 1, Len(s))
<1>1. /\ a \in Seq(T) /\ Len(a) = i - 1
      /\ \A j \in 1 .. (i - 1) : a[j] = s[j]
  <2>1. \A j \in 1 .. (i - 1) : s[j] \in T
    OBVIOUS
  <2> QED
    BY <2>1
<1>2. /\ z \in Seq(T) /\ Len(z) = Len(s) - i
      /\ \A j \in 1 .. (Len(s) - i) : z[j] = s[j + i]
  <2>1. \A j \in (i + 1) .. Len(s) : s[j] \in T
    OBVIOUS
  <2> QED
    BY <2>1
<1>3. RemoveAt(s, i) = a \o z
  BY DEF RemoveAt
<1> HIDE DEF a, z
<1>4. a \o z \in Seq(T) /\ Len(a \o z) = Len(s) - 1
  <2>1. a \o z \in Seq(T) /\ Len(a \o z) = Len(a) + Len(z)
    <3>1. a \in Seq(T) /\ z \in Seq(T)
      BY <1>1, <1>2
    <3> QED
      BY <3>1
  <2>2. i \in Int /\ Len(s) \in Int
    OBVIOUS
  <2> QED
    BY <1>1, <1>2, <2>1, <2>2
<1>5. ASSUME NEW j \in 1 .. (Len(s) - 1)
      PROVE  (a \o z)[j] = s[IF j < i THEN j ELSE j + 1]
  <2>1. (a \o z)[j] = IF j <= Len(a) THEN a[j] ELSE z[j - Len(a)]
    BY <1>1, <1>2
  <2> QED
    BY <1>1, <1>2, <2>1
<1>6. DOMAIN (a \o z) = 1 .. (Len(s) - 1)
  BY <1>4
<1> QED
  BY <1>3, <1>4, <1>5, <1>6

LEMMA HeldQtyInt == HeldQty \subseteq Int /\ 0 \in HeldQty
BY DEF HeldQty

LEMMA HiddenReprice ==
  ASSUME NEW e \in Hidden, NEW t \in Int
  PROVE  [e EXCEPT !.px = t] \in Hidden
BY DEF Hidden

LEMMA HiddenUpdate ==
  ASSUME NEW e \in Hidden, NEW n \in HeldQty
  PROVE  LET u == [e EXCEPT !.qty = n]
         IN  /\ u \in Hidden
             /\ u.side = e.side /\ u.px = e.px /\ u.qty = n
BY DEF Hidden

(* The prices at which non-displayed orders rest.                          *)
HiddenPrices(w, s) ==
  {w.hidden[i].px : i \in {j \in DOMAIN w.hidden :
                             w.hidden[j].side = s /\ w.hidden[j].qty # 0}}

(* v hides nothing on side s that w does not, and no less at the price     *)
(* that stands for none.                                                   *)
Dims(w, v, s) ==
  /\ HiddenPrices(v, s) \subseteq HiddenPrices(w, s)
  /\ NoTick \in HiddenPrices(w, s) => NoTick \in HiddenPrices(v, s)

LEMMA DimsTrans ==
  ASSUME NEW u, NEW v, NEW w, NEW s, Dims(u, v, s), Dims(v, w, s)
  PROVE  Dims(u, w, s)
BY DEF Dims

LEMMA DimsSelf == \A w, s : Dims(w, w, s)
BY DEF Dims

(* The states of the walk over the ledger for q units at (s, t), from w0.  *)
Tappings(w0, s, t, q) ==
  {p \in [w : Sim, at : Nat \ {0}, rem : Nat, taken : HeldQty] :
     /\ Kin(w0, p.w) /\ p.rem + p.taken = q
     /\ t # NoTick => Dims(w0, p.w, s)}

LEMMA TappingUpdate ==
  ASSUME NEW p \in [w : Sim, at : Nat \ {0}, rem : Nat, taken : HeldQty],
         NEW v \in Sim, NEW i \in Nat \ {0}, NEW n \in Nat, NEW m \in HeldQty
  PROVE  LET u1 == [p EXCEPT !.w = v, !.rem = n, !.taken = m]
             u2 == [p EXCEPT !.w = v, !.at = i, !.rem = n, !.taken = m]
         IN  /\ u1 \in [w : Sim, at : Nat \ {0}, rem : Nat, taken : HeldQty]
             /\ u1.w = v /\ u1.rem = n /\ u1.taken = m
             /\ u2 \in [w : Sim, at : Nat \ {0}, rem : Nat, taken : HeldQty]
             /\ u2.w = v /\ u2.rem = n /\ u2.taken = m
OBVIOUS

LEMMA TapTurnKeeps ==
  ASSUME NEW w0, NEW q \in Nat, NEW s, NEW t, NEW p \in Tappings(w0, s, t, q)
  PROVE  TapTurn(p, s, t) \in Tappings(w0, s, t, q)
<1> DEFINE w == p.w
           e == w.hidden[p.at]
           k == IF p.rem < e.qty THEN p.rem ELSE e.qty
           cut == [e EXCEPT !.qty = @ - k]
           gone == RemoveAt(w.hidden, p.at)
           less == [w.hidden EXCEPT ![p.at] = cut]
           v1 == [w EXCEPT !.hidden = gone]
           v2 == [w EXCEPT !.hidden = less]
           p1 == [p EXCEPT !.w = v1, !.rem = p.rem - k, !.taken = p.taken + k]
           p2 == [p EXCEPT !.w = v2, !.at = p.at + 1, !.rem = p.rem - k, !.taken = p.taken + k]
<1>1. /\ w \in Sim /\ p.at \in Nat \ {0} /\ p.rem \in Nat /\ p.taken \in HeldQty
      /\ Kin(w0, w) /\ p.rem + p.taken = q
      /\ t # NoTick => Dims(w0, w, s)
  BY DEF Tappings
<1>2. w.hidden \in Seq(Hidden) /\ w.synced \in SUBSET Slots /\ w.drift \in SUBSET (Side \X Int)
  BY <1>1, SimFields
<1>3. CASE p.rem = 0 \/ p.at > Len(w.hidden)
  BY <1>3 DEF TapTurn
<1>4. CASE p.rem # 0 /\ ~(p.at > Len(w.hidden))
  <2>1. p.at \in 1 .. Len(w.hidden) /\ e \in Hidden
    BY <1>1, <1>2, <1>4
  <2>2. e.qty \in HeldQty /\ e.qty \in Int /\ p.taken \in Int
    <3>1. e.qty \in HeldQty
      BY <2>1 DEF Hidden
    <3> QED
      BY <1>1, <3>1, HeldQtyInt
  <2>3. k \in Int /\ p.rem - k \in Nat /\ e.qty - k \in HeldQty /\ p.taken + k \in HeldQty
        /\ (k # e.qty => e.qty # 0)
    BY <1>1, <1>4, <2>2, SMTT(30) DEF HeldQty
  <2>4. cut \in Hidden /\ cut.side = e.side /\ cut.px = e.px /\ cut.qty = e.qty - k
    <3>1. cut = [e EXCEPT !.qty = e.qty - k]
      OBVIOUS
    <3> HIDE DEF k, cut, e
    <3> QED
      BY <2>1, <2>3, <3>1, HiddenUpdate
  <2> HIDE DEF k, cut
  <2>5. /\ gone \in Seq(Hidden) /\ DOMAIN gone = 1 .. (Len(w.hidden) - 1)
        /\ \A j \in DOMAIN gone : gone[j] = w.hidden[IF j < p.at THEN j ELSE j + 1]
        /\ less \in Seq(Hidden) /\ DOMAIN less = 1 .. Len(w.hidden)
        /\ \A j \in DOMAIN less : less[j] = IF j = p.at THEN cut ELSE w.hidden[j]
    <3>1. /\ gone \in Seq(Hidden) /\ DOMAIN gone = 1 .. (Len(w.hidden) - 1)
          /\ \A j \in 1 .. (Len(w.hidden) - 1) :
               gone[j] = w.hidden[IF j < p.at THEN j ELSE j + 1]
      BY <1>2, <2>1, RemoveAtTyped
    <3>2. /\ less \in Seq(Hidden) /\ DOMAIN less = 1 .. Len(w.hidden)
          /\ \A j \in DOMAIN less : less[j] = IF j = p.at THEN cut ELSE w.hidden[j]
      BY <1>2, <2>1, <2>4
    <3> HIDE DEF gone, less
    <3> QED
      BY <3>1, <3>2
  <2> HIDE DEF gone, less
  <2>6. Kin(w, v1) /\ Kin(w, v2)
    BY <1>1, <1>2, <2>5, BookkeepingKin
  <2>7. Kin(w0, v1) /\ Kin(w0, v2) /\ v1 \in Sim /\ v2 \in Sim
    BY <1>1, <2>6, KinTrans DEF Kin
  <2>0. v1.hidden = gone /\ v2.hidden = less
    BY <1>1 DEF Sim
  <2> HIDE DEF v1, v2
  <2>8. /\ p \in [w : Sim, at : Nat \ {0}, rem : Nat, taken : HeldQty]
        /\ p.at + 1 \in Nat \ {0} /\ (p.rem - k) + (p.taken + k) = q
    <3>1. p \in [w : Sim, at : Nat \ {0}, rem : Nat, taken : HeldQty]
      BY DEF Tappings
    <3> QED
      BY <1>1, <2>2, <2>3, <3>1
  <2>9. /\ p1 \in [w : Sim, at : Nat \ {0}, rem : Nat, taken : HeldQty]
        /\ p1.w = v1 /\ p1.rem = p.rem - k /\ p1.taken = p.taken + k
        /\ p2 \in [w : Sim, at : Nat \ {0}, rem : Nat, taken : HeldQty]
        /\ p2.w = v2 /\ p2.rem = p.rem - k /\ p2.taken = p.taken + k
    BY <2>3, <2>7, <2>8, TappingUpdate
  <2>10. /\ p1 = [p EXCEPT !.w = v1, !.rem = @ - k, !.taken = @ + k]
         /\ p2 = [p EXCEPT !.w = v2, !.at = @ + 1, !.rem = @ - k, !.taken = @ + k]
    OBVIOUS
  <2> HIDE DEF p1, p2
  <2>11. CASE e.side # s \/ e.px # t
    <3>1. [p EXCEPT !.at = @ + 1] \in Tappings(w0, s, t, q)
      BY <1>1, <2>8 DEF Tappings
    <3> QED
      BY <1>4, <2>11, <3>1 DEF TapTurn
  <2>12. CASE e.side = s /\ e.px = t /\ k = e.qty
    <3>1. TapTurn(p, s, t) = p1
      BY <1>4, <2>10, <2>12 DEF TapTurn, WithHidden, k, v1, gone
    <3>2. t # NoTick => Dims(w, v1, s)
      <4> SUFFICES ASSUME t # NoTick PROVE Dims(w, v1, s)
        OBVIOUS
      <4>1. HiddenPrices(v1, s) \subseteq HiddenPrices(w, s)
        <5> SUFFICES ASSUME NEW j \in DOMAIN gone, gone[j].side = s, gone[j].qty # 0
                     PROVE  gone[j].px \in HiddenPrices(w, s)
          BY <2>0 DEF HiddenPrices
        <5> DEFINE i == IF j < p.at THEN j ELSE j + 1
        <5>1. i \in DOMAIN w.hidden /\ gone[j] = w.hidden[i]
          <6>1. Len(w.hidden) \in Nat /\ DOMAIN w.hidden = 1 .. Len(w.hidden)
            BY <1>2
          <6>2. j \in 1 .. (Len(w.hidden) - 1) /\ gone[j] = w.hidden[i]
            BY <2>5
          <6>3. i \in 1 .. Len(w.hidden)
            BY <2>1, <6>1, <6>2
          <6> QED
            BY <6>1, <6>2, <6>3
        <5> HIDE DEF i
        <5> QED
          BY <5>1 DEF HiddenPrices
      <4>2. NoTick \in HiddenPrices(w, s) => NoTick \in HiddenPrices(v1, s)
        <5> SUFFICES ASSUME NEW i \in DOMAIN w.hidden, w.hidden[i].side = s,
                            w.hidden[i].qty # 0, w.hidden[i].px = NoTick
                     PROVE  NoTick \in HiddenPrices(v1, s)
          BY DEF HiddenPrices
        <5>1. i # p.at
          BY <2>12
        <5> DEFINE j == IF i < p.at THEN i ELSE i - 1
        <5>2. j \in DOMAIN gone /\ gone[j] = w.hidden[i]
          <6>1. Len(w.hidden) \in Nat /\ DOMAIN w.hidden = 1 .. Len(w.hidden)
            BY <1>2
          <6>2. /\ j \in 1 .. (Len(w.hidden) - 1)
                /\ i = IF j < p.at THEN j ELSE j + 1
            BY <2>1, <5>1, <6>1
          <6> HIDE DEF j
          <6> QED
            BY <2>5, <6>2
        <5> HIDE DEF j
        <5> QED
          BY <2>0, <5>2 DEF HiddenPrices
      <4> QED
        BY <4>1, <4>2 DEF Dims
    <3>3. t # NoTick => Dims(w0, v1, s)
      BY <1>1, <3>2, DimsTrans
    <3> QED
      BY <2>7, <2>8, <2>9, <3>1, <3>3 DEF Tappings
  <2>13. CASE e.side = s /\ e.px = t /\ k # e.qty
    <3>1. TapTurn(p, s, t) = p2
      BY <1>4, <2>10, <2>13 DEF TapTurn, WithHidden, k, v2, less, cut
    <3>2. HiddenPrices(v2, s) = HiddenPrices(w, s)
      <4>1. cut.qty # 0 /\ e.qty # 0
        BY <2>2, <2>3, <2>4, <2>13
      <4>2. \A i \in DOMAIN w.hidden :
              /\ less[i].side = w.hidden[i].side /\ less[i].px = w.hidden[i].px
              /\ less[i].qty # 0 <=> w.hidden[i].qty # 0
        BY <1>2, <2>4, <2>5, <4>1, SMTT(30)
      <4>3. DOMAIN less = DOMAIN w.hidden
        BY <1>2, <2>5
      <4> HIDE DEF e
      <4> QED
        BY <2>0, <4>2, <4>3 DEF HiddenPrices
    <3>3. t # NoTick => Dims(w0, v2, s)
      BY <1>1, <3>2 DEF Dims
    <3> QED
      BY <2>7, <2>8, <2>9, <3>1, <3>3 DEF Tappings
  <2> QED
    BY <2>11, <2>12, <2>13
<1> QED
  BY <1>3, <1>4

(* f holds the states of the walk over w's ledger, f[n] after n turns.     *)
TapRun(w, s, t, q, f) ==
  LET N == Len(w.hidden)
  IN  /\ f[0] = [w |-> w, at |-> 1, rem |-> q, taken |-> 0]
      /\ \A n \in 1 .. N : f[n] = TapTurn(f[n - 1], s, t)
      /\ \A n \in 0 .. N : f[n] \in Tappings(w, s, t, q)
      /\ Tap(w, s, t, q) = [w |-> f[N].w, taken |-> f[N].taken]

LEMMA TapRuns ==
  ASSUME NEW w \in Sim, NEW s, NEW t, NEW q \in Nat
  PROVE  \E f : TapRun(w, s, t, q, f)
<1> DEFINE N == Len(w.hidden)
           S == Tappings(w, s, t, q)
           x0 == [w |-> w, at |-> 1, rem |-> q, taken |-> 0]
           Body(f) == [n \in 0 .. N |-> IF n = 0 THEN x0 ELSE TapTurn(f[n - 1], s, t)]
           f == CHOOSE x : x = Body(x)
           G == [n \in 1 .. N |-> [c \in S |-> TapTurn(c, s, t)]]
<1>1. Tap(w, s, t, q) = [w |-> f[N].w, taken |-> f[N].taken]
  BY DEF Tap
<1>2. N \in Nat
  BY SimFields
<1>3. x0 \in S
  <2>1. x0 \in [w : Sim, at : Nat \ {0}, rem : Nat, taken : HeldQty]
    BY HeldQtyInt
  <2>2. q + 0 = q /\ Kin(w, w) /\ Dims(w, w, s)
    BY KinSelf, DimsSelf
  <2> QED
    BY <2>1, <2>2 DEF Tappings
<1> HIDE DEF x0, N
<1>4. G \in [1 .. N -> [S -> S]]
  BY TapTurnKeeps
<1> HIDE DEF G
<1>5. PICK g : Turns(N, S, x0, G, g)
  <2> HIDE DEF S
  <2> QED
    BY <1>2, <1>3, <1>4, LoopExists
<1>6. g = Body(g)
  <2>1. \A n \in 1 .. N, c \in S : G[n][c] = TapTurn(c, s, t)
    BY DEF G
  <2> HIDE DEF S
  <2>2. \A n \in 1 .. N : n - 1 \in 0 .. N /\ g[n] = TapTurn(g[n - 1], s, t)
    BY <1>2, <1>5, <2>1 DEF Turns
  <2>3. \A n \in 0 .. N : g[n] = IF n = 0 THEN x0 ELSE TapTurn(g[n - 1], s, t)
    BY <1>2, <1>5, <2>2 DEF Turns
  <2>4. g = [n \in 0 .. N |-> g[n]]
    BY <1>5 DEF Turns
  <2> QED
    BY <2>3, <2>4
<1> HIDE DEF Body
<1>7. f = Body(f)
  BY <1>6, Zenon
<1> HIDE DEF f
<1>8. f[0] = x0 /\ \A n \in 1 .. N : f[n] = TapTurn(f[n - 1], s, t)
  BY <1>2, <1>7 DEF Body
<1>9. \A n \in 1 .. N : f[n - 1] \in S => f[n] \in S
  BY <1>8, TapTurnKeeps
<1>10. \A n \in 0 .. N : f[n] \in S
  <2> HIDE DEF S
  <2> QED
    BY <1>2, <1>3, <1>8, <1>9, LoopKeeps
<1>11. TapRun(w, s, t, q, f)
  BY <1>1, <1>8, <1>10 DEF TapRun, N, x0
<1> QED
  BY <1>11

LEMMA TapKin ==
  ASSUME NEW w \in Sim, NEW s, NEW t, NEW q \in Nat
  PROVE  LET p == Tap(w, s, t, q)
         IN  /\ Kin(w, p.w) /\ p.taken \in HeldQty /\ q - p.taken \in Nat
             /\ t # NoTick => Dims(w, p.w, s)
<1> DEFINE N == Len(w.hidden)
<1>1. PICK f : TapRun(w, s, t, q, f)
  BY TapRuns
<1>2. N \in Nat
  BY SimFields
<1>3. Tap(w, s, t, q) = [w |-> f[N].w, taken |-> f[N].taken] /\ f[N] \in Tappings(w, s, t, q)
  BY <1>1, <1>2 DEF TapRun
<1> HIDE DEF N
<1>4. /\ Kin(w, f[N].w) /\ f[N].taken \in HeldQty /\ f[N].rem \in Nat
      /\ f[N].rem + f[N].taken = q
      /\ t # NoTick => Dims(w, f[N].w, s)
  BY <1>3 DEF Tappings
<1>5. q - f[N].taken \in Nat
  <2> DEFINE x == f[N].taken
             y == f[N].rem
  <2>1. x \in Int /\ y \in Nat /\ y + x = q
    BY <1>4, HeldQtyInt
  <2> HIDE DEF x, y
  <2>2. q - x = y
    BY <2>1
  <2> QED
    BY <2>1, <2>2 DEF x
<1> QED
  BY <1>3, <1>4, <1>5

LEMMA TouchTyped ==
  ASSUME NEW w \in Sim, NEW s \in Side
  PROVE  Touch(w, s) \in Ticks \union {NoTick} /\ Touch(w, s) \in Int
<1>1. w.book.best[s] \in Ticks \union {NoTick}
  BY SimFields, BookFields
<1>2. NoTick \in Int
  BY BandAssumption DEF NoTick
<1> QED
  BY <1>1, <1>2, TicksInt DEF Touch

LEMMA ReferenceTyped ==
  ASSUME NEW w \in Sim, NEW peg, NEW offset \in Int
  PROVE  Reference(w, peg, offset) \in Int
<1>1. Touch(w, "B") \in Int /\ Touch(w, "S") \in Int
  BY TouchTyped DEF Side
<1>2. NoTick \in Int
  BY BandAssumption DEF NoTick
<1> QED
  BY <1>1, <1>2 DEF Reference

LEMMA RepegKin ==
  ASSUME NEW w \in Sim
  PROVE  Kin(w, Repeg(w))
<1> DEFINE Fixed(e) == LET px == Reference(w, e.peg, e.offset)
                       IN  IF e.peg = "none" \/ px = NoTick THEN e ELSE [e EXCEPT !.px = px]
           hd == [i \in DOMAIN w.hidden |-> Fixed(w.hidden[i])]
<1>1. w.hidden \in Seq(Hidden) /\ w.synced \in SUBSET Slots /\ w.drift \in SUBSET (Side \X Int)
  BY SimFields
<1>2. \A e \in Hidden : Fixed(e) \in Hidden
  <2> SUFFICES ASSUME NEW e \in Hidden PROVE Fixed(e) \in Hidden
    OBVIOUS
  <2>1. Reference(w, e.peg, e.offset) \in Int
    BY ReferenceTyped DEF Hidden
  <2>2. [e EXCEPT !.px = Reference(w, e.peg, e.offset)] \in Hidden
    BY <2>1, HiddenReprice
  <2> QED
    BY <2>2
<1>3. Repeg(w) = [w EXCEPT !.hidden = hd]
  BY DEF Repeg, WithHidden
<1> HIDE DEF Fixed
<1>4. hd \in Seq(Hidden)
  <2>1. \A i \in 1 .. Len(w.hidden) : hd[i] \in Hidden
    BY <1>1, <1>2
  <2>2. hd = [i \in 1 .. Len(w.hidden) |-> hd[i]] /\ Len(w.hidden) \in Nat
    BY <1>1
  <2> HIDE DEF hd
  <2>3. hd \in [1 .. Len(w.hidden) -> Hidden]
    BY <2>1, <2>2
  <2> QED
    BY <2>2, <2>3, SeqOfFunction
<1> HIDE DEF hd
<1> QED
  BY <1>1, <1>3, <1>4, BookkeepingKin

----------------------------------------------------------------------------
(* Prices on offer.                                                        *)

(* Some price of a finite set is as good as any.                           *)
LEMMA BestOfFew ==
  ASSUME NEW s \in Side, NEW T \in SUBSET Int, IsFiniteSet(T), T # {}
  PROVE  \E x \in T : \A y \in T : ~Better(s, y, x)
<1> DEFINE Bare == {n \in Nat : \E U \in SUBSET T :
                       /\ IsFiniteSet(U) /\ Cardinality(U) = n /\ U # {}
                       /\ \A x \in U : \E y \in U : Better(s, y, x)}
<1>1. Bare = {}
  <2> SUFFICES ASSUME Bare # {} PROVE FALSE
    OBVIOUS
  <2>1. Bare \subseteq Nat
    OBVIOUS
  <2> HIDE DEF Bare
  <2>2. \E m \in Bare : \A k \in Bare : ~(<<k, m>> \in OpToRel(<, Nat))
    BY <2>1, NatLessThanWellFounded, WFMin
  <2>3. PICK m \in Bare : \A k \in Bare : ~(k < m)
    BY <2>1, <2>2 DEF OpToRel
  <2>4. m \in Nat /\ \E U \in SUBSET T :
          /\ IsFiniteSet(U) /\ Cardinality(U) = m /\ U # {}
          /\ \A x \in U : \E y \in U : Better(s, y, x)
    BY DEF Bare
  <2>5. PICK U \in SUBSET T :
          /\ IsFiniteSet(U) /\ Cardinality(U) = m /\ U # {}
          /\ \A x \in U : \E y \in U : Better(s, y, x)
    BY <2>4
  <2>6. PICK z \in U : TRUE
    BY <2>5
  <2> DEFINE V == U \ {z}
  <2>7. IsFiniteSet(V) /\ Cardinality(V) = m - 1 /\ V \in SUBSET T
    BY <2>5, <2>6, FS_RemoveElement
  <2>8. PICK y \in U : Better(s, y, z)
    BY <2>5, <2>6
  <2>9. y \in V /\ m - 1 \in Nat /\ m - 1 < m
    <3>1. y # z
      BY <2>6, <2>8 DEF Better
    <3>2. y \in V
      BY <3>1
    <3>3. Cardinality(V) \in Nat
      BY <2>7, FS_CardinalityType
    <3> QED
      BY <2>4, <2>7, <3>2, <3>3
  <2>10. ASSUME NEW x \in V PROVE \E v \in V : Better(s, v, x)
    <3>1. PICK v \in U : Better(s, v, x)
      BY <2>5
    <3>2. CASE v = z
      <4>1. x \in Int /\ y \in Int /\ z \in Int
        BY <2>5
      <4>2. Better(s, y, x)
        BY <2>8, <3>1, <3>2, <4>1 DEF Better
      <4> QED
        BY <2>9, <4>2
    <3> QED
      BY <3>1, <3>2
  <2> HIDE DEF V
  <2>11. m - 1 \in Bare
    BY <2>7, <2>9, <2>10 DEF Bare
  <2> QED
    BY <2>3, <2>9, <2>11
<1>2. Cardinality(T) \in Nat /\ Cardinality(T) \notin Bare
  BY <1>1, FS_CardinalityType
<1> QED
  BY <1>2

LEMMA BestInFew ==
  ASSUME NEW s \in Side, NEW T \in SUBSET Int, IsFiniteSet(T)
  PROVE  /\ T = {} => BestIn(s, T) = NoTick
         /\ T # {} => BestIn(s, T) \in T /\ \A y \in T : ~Better(s, y, BestIn(s, T))
BY BestOfFew DEF BestIn

LEMMA HiddenFew ==
  ASSUME NEW w \in Sim, NEW s \in Side
  PROVE  /\ HiddenPrices(w, s) \in SUBSET Int /\ IsFiniteSet(HiddenPrices(w, s))
         /\ BestHidden(w, s) = BestIn(s, HiddenPrices(w, s))
         /\ BestHidden(w, s) \in Int
         /\ HiddenPrices(w, s) # {} =>
              /\ BestHidden(w, s) \in HiddenPrices(w, s)
              /\ \A y \in HiddenPrices(w, s) : ~Better(s, y, BestHidden(w, s))
         /\ HiddenPrices(w, s) = {} => BestHidden(w, s) = NoTick
<1> DEFINE H == HiddenPrices(w, s)
           J == {j \in DOMAIN w.hidden : w.hidden[j].side = s /\ w.hidden[j].qty # 0}
           at == [j \in J |-> w.hidden[j].px]
<1>1. w.hidden \in Seq(Hidden) /\ Len(w.hidden) \in Nat /\ DOMAIN w.hidden = 1 .. Len(w.hidden)
  BY SimFields
<1>2. \A j \in DOMAIN w.hidden : w.hidden[j].px \in Int
  <2>1. \A j \in DOMAIN w.hidden : w.hidden[j] \in Hidden
    BY <1>1
  <2>2. \A e \in Hidden : e.px \in Int
    BY DEF Hidden
  <2> QED
    BY <2>1, <2>2
<1>3. IsFiniteSet(J)
  <2>1. IsFiniteSet(1 .. Len(w.hidden))
    BY <1>1, FS_Interval
  <2> QED
    BY <1>1, <2>1, FS_Subset
<1>4. H = {at[j] : j \in J}
  BY DEF HiddenPrices
<1>5. H \in SUBSET Int
  BY <1>2 DEF HiddenPrices
<1>6. IsFiniteSet(H)
  <2>1. IsFiniteSet({at[j] : j \in J})
    <3> HIDE DEF J
    <3>1. at \in Surjection(J, {at[j] : j \in J})
      BY DEF Surjection
    <3> QED
      BY <1>3, <3>1, FS_Surjection
  <2> QED
    BY <1>4, <2>1
<1>7. BestHidden(w, s) = BestIn(s, H)
  BY DEF BestHidden, HiddenPrices
<1>8. NoTick \in Int
  BY BandAssumption DEF NoTick
<1> HIDE DEF H
<1>9. /\ H = {} => BestIn(s, H) = NoTick
      /\ H # {} => BestIn(s, H) \in H /\ \A y \in H : ~Better(s, y, BestIn(s, H))
  BY <1>5, <1>6, BestInFew
<1>10. BestIn(s, H) \in Int
  BY <1>5, <1>8, <1>9
<1> QED
  BY <1>5, <1>6, <1>7, <1>9, <1>10 DEF H

LEMMA TouchFew ==
  ASSUME NEW w \in Sim, GoodBook(w.book), NEW s \in Side
  PROVE  /\ PricesOf(w.book, s) \in SUBSET Ticks
         /\ PricesOf(w.book, s) = {} => Touch(w, s) = NoTick
         /\ PricesOf(w.book, s) # {} =>
              /\ Touch(w, s) \in PricesOf(w.book, s)
              /\ \A y \in PricesOf(w.book, s) : ~Better(s, y, Touch(w, s))
<1>1. PricesOf(w.book, s) \in SUBSET Ticks
  BY GoodParts, OccupiedPrices
<1>2. Touch(w, s) = BestIn(s, PricesOf(w.book, s))
  BY GoodParts DEF Touch, BestCached
<1> QED
  BY <1>1, <1>2, BestInProperties

(* What side s of w shows and hides is no better than p, as far as the     *)
(* program can tell.                                                       *)
Beyond(w, s, p) ==
  \A t \in {Touch(w, s), BestHidden(w, s)} : t = NoTick \/ ~Better(s, t, p)

(* v offers nothing on side s that w does not.                             *)
Thins(w, v, s) == PricesOf(v.book, s) \subseteq PricesOf(w.book, s) /\ Dims(w, v, s)

LEMMA ThinsTrans ==
  ASSUME NEW u, NEW v, NEW w, NEW s, Thins(u, v, s), Thins(v, w, s)
  PROVE  Thins(u, w, s)
BY DEF Thins, Dims

LEMMA BeyondThins ==
  ASSUME NEW w \in Sim, GoodBook(w.book), NEW v \in Sim, GoodBook(v.book),
         NEW s \in Side, Thins(w, v, s), NEW p \in Int, Beyond(w, s, p)
  PROVE  Beyond(v, s, p)
<1>1. Touch(v, s) = NoTick \/ ~Better(s, Touch(v, s), p)
  <2> SUFFICES ASSUME Touch(v, s) # NoTick PROVE ~Better(s, Touch(v, s), p)
    OBVIOUS
  <2>1. Touch(v, s) \in PricesOf(v.book, s)
    BY TouchFew
  <2>2. Touch(v, s) \in PricesOf(w.book, s)
    BY <2>1 DEF Thins
  <2>3. /\ ~Better(s, Touch(v, s), Touch(w, s))
        /\ Touch(w, s) \in PricesOf(w.book, s) /\ PricesOf(w.book, s) \in SUBSET Ticks
    BY <2>2, TouchFew
  <2>4. Touch(w, s) # NoTick /\ Touch(w, s) \in Int /\ Touch(v, s) \in Int
    BY <2>2, <2>3, NoTickApart, TicksInt
  <2>5. ~Better(s, Touch(w, s), p)
    BY <2>4 DEF Beyond
  <2> QED
    BY <2>3, <2>4, <2>5 DEF Better
<1>2. BestHidden(v, s) = NoTick \/ ~Better(s, BestHidden(v, s), p)
  <2> SUFFICES ASSUME BestHidden(v, s) # NoTick PROVE ~Better(s, BestHidden(v, s), p)
    OBVIOUS
  <2> DEFINE x == BestHidden(v, s)
             y == BestHidden(w, s)
  <2>1. /\ x \in HiddenPrices(v, s) /\ x \in Int /\ y \in Int
        /\ \A z \in HiddenPrices(v, s) : ~Better(s, z, x)
    BY HiddenFew
  <2>2. x \in HiddenPrices(w, s)
    BY <2>1 DEF Thins, Dims
  <2>3. ~Better(s, x, y) /\ y \in HiddenPrices(w, s)
    BY <2>2, HiddenFew
  <2>4. CASE y = NoTick
    <3>1. y \in HiddenPrices(v, s)
      BY <2>3, <2>4 DEF Thins, Dims
    <3>2. ~Better(s, y, x)
      BY <2>1, <3>1
    <3>3. x = y
      BY <2>1, <2>3, <3>2 DEF Better
    <3> QED
      BY <2>4, <3>3
  <2>5. CASE y # NoTick
    <3>1. ~Better(s, y, p)
      BY <2>5 DEF Beyond
    <3> QED
      BY <2>1, <2>3, <3>1 DEF Better
  <2> QED
    BY <2>4, <2>5
<1> QED
  BY <1>1, <1>2 DEF Beyond

----------------------------------------------------------------------------
(* A fill at the head of a level, with the slice that follows it.          *)

Refilled(w, h, k) == Replenish(Take(w, h, k), w.book.slot[h].ref, h)

(* Which trackers are live.                                                *)
Watched(w) == {h \in Slots : w.tracked[h].live}

(* v is w after some of its orders and trackers went.                      *)
Spends(w, v) ==
  /\ Sane(v, ZeroRef)
  /\ Watched(v) \subseteq Watched(w)
  /\ FullReserves => \A s \in Side : PricesOf(v.book, s) \subseteq PricesOf(w.book, s)

LEMMA FillSpends ==
  ASSUME NEW w, Sane(w, ZeroRef), NEW h \in w.book.live, NEW q \in Int,
         0 < q, q <= w.book.slot[h].qty
  PROVE  Spends(w, Refilled(w, h, q)) /\ Refilled(w, h, q).hidden = w.hidden
<1> DEFINE r == w.book.slot[h].ref
           v == Take(w, h, q)
           u == Replenish(v, r, h)
<1>1. h \in Slots /\ w \in Sim /\ GoodBook(w.book)
  BY GoodParts DEF Sane
<1>2. /\ Sane(v, r) /\ r \in Ref
      /\ v.icebergs = w.icebergs /\ v.hidden = w.hidden
      /\ v.book.id[r] = NullIndex => h \notin v.book.live
      /\ \A i \in Slots : v.tracked[i].live => w.tracked[i].live
      /\ \A i \in v.book.live : /\ i \in w.book.live
                                /\ v.book.slot[i].side = w.book.slot[i].side
                                /\ v.book.slot[i].px = w.book.slot[i].px
  BY TakeSane
<1> HIDE DEF v
<1>3. /\ Sane(u, ZeroRef) /\ u.hidden = v.hidden /\ u.tracked = v.tracked
      /\ Restocked(v, u, r, h)
  BY <1>1, <1>2, ReplenishSane
<1>4. Refilled(w, h, q) = u
  BY DEF Refilled, v
<1> HIDE DEF u
<1>5. Watched(u) \subseteq Watched(w)
  BY <1>2, <1>3 DEF Watched
<1>6. ASSUME FullReserves, NEW s \in Side, NEW i \in u.book.live, u.book.slot[i].side = s
      PROVE  \E g \in w.book.live : /\ w.book.slot[g].side = s
                                    /\ w.book.slot[g].px = u.book.slot[i].px
  <2>1. CASE i \in v.book.live /\ v.book.slot[i].side = u.book.slot[i].side
             /\ v.book.slot[i].px = u.book.slot[i].px
    BY <1>2, <1>6, <2>1
  <2>2. CASE /\ i = h
             /\ \E j \in DOMAIN v.icebergs : /\ v.icebergs[j].ref = r
                                             /\ v.icebergs[j].side = u.book.slot[h].side
                                             /\ v.icebergs[j].px = u.book.slot[h].px
    <3>1. PICK j \in DOMAIN w.icebergs : /\ w.icebergs[j].ref = r
                                         /\ w.icebergs[j].side = u.book.slot[h].side
                                         /\ w.icebergs[j].px = u.book.slot[h].px
      BY <1>2, <2>2
    <3>2. w.book.id[r] = h /\ h # NullIndex
      BY <1>1, <1>2, Resolves, SlotAssumption
    <3>3. Covered(w, ZeroRef)
      BY <1>6 DEF Sane
    <3> HIDE DEF r
    <3>4. w.book.slot[h].side = w.icebergs[j].side /\ w.book.slot[h].px = w.icebergs[j].px
      BY <3>1, <3>2, <3>3 DEF Covered
    <3> QED
      BY <1>6, <2>2, <3>1, <3>4
  <2> QED
    BY <1>3, <2>1, <2>2 DEF Restocked
<1>7. FullReserves => \A s \in Side : PricesOf(u.book, s) \subseteq PricesOf(w.book, s)
  BY <1>6 DEF PricesOf
<1> QED
  BY <1>2, <1>3, <1>4, <1>5, <1>7 DEF Spends

(* cancel_oldest: a tracked order leaves the book.                         *)
LEMMA ExpungeSpends ==
  ASSUME NEW w, Sane(w, ZeroRef), NEW h \in w.book.live, w.tracked[h].live
  PROVE  LET u == [Untrack(w, h) EXCEPT !.book = Drop(@, h)]
         IN  Spends(w, u) /\ h \notin Watched(u) /\ u.hidden = w.hidden
<1> DEFINE u == [Untrack(w, h) EXCEPT !.book = Drop(@, h)]
           b == Drop(w.book, h)
           k == [w.tracked EXCEPT ![h] = NoRecord]
           r == w.book.slot[h].ref
<1>1. /\ w \in Sim /\ GoodBook(w.book) /\ Mirrored(w) /\ Placed(w)
      /\ FullReserves => Covered(w, ZeroRef)
  BY DEF Sane
<1>2. h \in Slots /\ h # NullIndex /\ r \in Ref /\ r \in Strategy
  BY <1>1, GoodParts, LiveOrder, SlotAssumption DEF Mirrored
<1>3. /\ GoodBook(b)
      /\ b.live = w.book.live \ {h} /\ b.page = w.book.page
      /\ \A i \in w.book.live \ {h} :
           /\ b.slot[i].ref = w.book.slot[i].ref /\ b.slot[i].side = w.book.slot[i].side
           /\ b.slot[i].px = w.book.slot[i].px /\ b.slot[i].qty = w.book.slot[i].qty
      /\ \A x \in Ref : b.id[x] = IF x = r THEN NullIndex ELSE w.book.id[x]
  BY <1>1, DropGood
<1>4. u = [w EXCEPT !.tracked = k, !.book = b]
  <2>1. Untrack(w, h) = [w EXCEPT !.tracked = k]
    BY DEF Untrack
  <2>2. Untrack(w, h).book = w.book
    BY <1>1, <2>1 DEF Sim
  <2> QED
    BY <1>1, <2>1, <2>2 DEF Sim
<1> HIDE DEF b
<1>5. b \in Book /\ k \in [Slots -> Tracker] /\ k[h] = NoRecord
      /\ \A i \in Slots \ {h} : k[i] = w.tracked[i]
  BY <1>1, <1>2, <1>3, GoodParts, SimFields, NoRecordTyped
<1> HIDE DEF k
<1>6. /\ u \in Sim /\ u.book = b /\ u.tracked = k
      /\ u.icebergs = w.icebergs /\ u.hidden = w.hidden
  BY <1>1, <1>4, <1>5 DEF Sim
<1> HIDE DEF u
<1>7. Mirrored(u)
  <2>1. /\ u.tracked[h].live = (h \in u.book.live /\ u.book.slot[h].ref \in Strategy)
        /\ ~u.tracked[h].live
    BY <1>3, <1>5, <1>6, NoRecordTyped
  <2>2. \A i \in Slots \ {h} :
           /\ u.tracked[i] = w.tracked[i]
           /\ i \in u.book.live <=> i \in w.book.live
           /\ i \in w.book.live =>
                /\ u.book.slot[i].ref = w.book.slot[i].ref
                /\ u.book.slot[i].side = w.book.slot[i].side
                /\ u.book.slot[i].px = w.book.slot[i].px
                /\ u.book.slot[i].qty = w.book.slot[i].qty
    BY <1>3, <1>5, <1>6
  <2> QED
    BY <1>1, <1>2, <2>1, <2>2, MirrorMoves
<1>8. Placed(u)
  BY <1>1, <1>3, <1>6 DEF Placed
<1>9. FullReserves => Covered(u, ZeroRef)
  <2> SUFFICES ASSUME FullReserves, NEW i \in DOMAIN w.icebergs
               PROVE  CoveredAt(u, ZeroRef, i)
    BY <1>6, CoveredEach
  <2> DEFINE e == w.icebergs[i]
             g == w.book.id[e.ref]
  <2>1. e \in Iceberg
    BY <1>1, SimFields
  <2>2. e.ref \in Ref /\ e.ref \notin Strategy /\ e.ref # ZeroRef
    BY <2>1, SimAssumption, RefAssumption DEF Iceberg, Strategy
  <2>3. /\ e.hidden > 0
        /\ g # NullIndex
        /\ w.book.slot[g].side = e.side /\ w.book.slot[g].px = e.px
        /\ w.book.slot[g].qty <= e.display
        /\ \A j \in DOMAIN w.icebergs : w.icebergs[j].ref = e.ref => j = i
    BY <1>1, <2>2 DEF Covered
  <2>4. g \in w.book.live /\ w.book.slot[g].ref = e.ref
    <3>1. e.ref \in Ref /\ g # NullIndex
      BY <2>2, <2>3
    <3> HIDE DEF e
    <3> QED
      BY <1>1, <3>1, Resolves
  <2> HIDE DEF e, g
  <2>5. g # h /\ e.ref # r /\ u.book.id[e.ref] = g
    BY <1>2, <1>3, <1>6, <2>2, <2>4, SMTT(30) DEF g
  <2>6. /\ u.book.slot[g].side = e.side /\ u.book.slot[g].px = e.px
        /\ u.book.slot[g].qty <= e.display
    BY <1>3, <1>6, <2>3, <2>4, <2>5
  <2> QED
    BY <1>6, <2>3, <2>5, <2>6 DEF e, CoveredAt
<1>10. Sane(u, ZeroRef)
  BY <1>3, <1>6, <1>7, <1>8, <1>9 DEF Sane
<1>11. Watched(u) \subseteq Watched(w) /\ h \notin Watched(u)
  BY <1>2, <1>5, <1>6, NoRecordTyped DEF Watched
<1>12. \A s \in Side : PricesOf(u.book, s) \subseteq PricesOf(w.book, s)
  BY <1>3, <1>6 DEF PricesOf
<1> QED
  BY <1>6, <1>10, <1>11, <1>12 DEF Spends, u

LEMMA SpendsTrans ==
  ASSUME NEW u, NEW v, NEW w, Spends(u, v), Spends(v, w)
  PROVE  Spends(u, w)
BY DEF Spends

LEMMA KinSpends ==
  ASSUME NEW w, Sane(w, ZeroRef), NEW v, Kin(w, v)
  PROVE  Spends(w, v)
<1>1. Sane(v, ZeroRef)
  BY KinSane
<1> QED
  BY <1>1 DEF Spends, Kin, Watched, PricesOf

----------------------------------------------------------------------------
(* Sweeps.                                                                 *)

NoteRecord == [px : Int, qty : Int]

SweepState ==
  [w : Sim, rem : Nat, filled : Int, notional : Int, worst : Int, notes : Seq(NoteRecord),
   over : NoteRecord, stopped : BOOLEAN, expunged : Int]

(* d is c after trades at price t on side s, or none.                      *)
Trades(c, d, s, t) ==
  /\ d \in SweepState
  /\ Spends(c.w, d.w) /\ Dims(c.w, d.w, s)
  /\ d.worst = t \/ (d.worst = c.worst /\ d.filled = c.filled)
  /\ ReplaceQty \subseteq Nat => d.rem <= c.rem

LEMMA TradesTrans ==
  ASSUME NEW c \in SweepState, NEW d, NEW e, NEW s, NEW t, Trades(c, d, s, t), Trades(d, e, s, t)
  PROVE  Trades(c, e, s, t)
<1>1. Spends(c.w, e.w) /\ Dims(c.w, e.w, s)
  BY SpendsTrans, DimsTrans DEF Trades
<1>2. d.rem \in Nat /\ e.rem \in Nat /\ c.rem \in Nat
  BY DEF Trades, SweepState
<1> QED
  BY <1>1, <1>2 DEF Trades

LEMMA StopUpdate ==
  ASSUME NEW c \in SweepState
  PROVE  LET u == [c EXCEPT !.stopped = TRUE]
         IN  /\ u \in SweepState /\ u.w = c.w /\ u.rem = c.rem /\ u.worst = c.worst
             /\ u.filled = c.filled /\ u.stopped
BY DEF SweepState

LEMMA StateUpdate ==
  ASSUME NEW c \in SweepState, NEW v \in Sim
  PROVE  LET u == [c EXCEPT !.w = v]
         IN  /\ u \in SweepState /\ u.w = v /\ u.rem = c.rem /\ u.worst = c.worst
             /\ u.filled = c.filled /\ u.stopped = c.stopped
BY DEF SweepState

ExpungedState(c, v, m) == [c EXCEPT !.w = v, !.expunged = m]

LEMMA ExpungeUpdate ==
  ASSUME NEW c \in SweepState, NEW v \in Sim, NEW m \in Int
  PROVE  LET u == ExpungedState(c, v, m)
         IN  /\ u \in SweepState /\ u.w = v /\ u.rem = c.rem /\ u.worst = c.worst
             /\ u.filled = c.filled /\ u.stopped = c.stopped
BY DEF SweepState, ExpungedState

LEMMA NotesUpdate ==
  ASSUME NEW c \in SweepState, NEW ns \in Seq(NoteRecord)
  PROVE  LET u == [c EXCEPT !.notes = ns]
         IN  /\ u \in SweepState /\ u.w = c.w /\ u.rem = c.rem /\ u.worst = c.worst
             /\ u.filled = c.filled /\ u.stopped = c.stopped
BY DEF SweepState

OverState(c, v, o) == [c EXCEPT !.w = v, !.over = o]

LEMMA OverUpdate ==
  ASSUME NEW c \in SweepState, NEW v \in Sim, NEW o \in NoteRecord
  PROVE  LET u == OverState(c, v, o)
         IN  /\ u \in SweepState /\ u.w = v /\ u.rem = c.rem /\ u.worst = c.worst
             /\ u.filled = c.filled /\ u.stopped = c.stopped
BY DEF SweepState, OverState

PaidState(c, v, n, f, m, t) ==
  [c EXCEPT !.w = v, !.rem = n, !.filled = f, !.notional = m, !.worst = t]

LEMMA PaidUpdate ==
  ASSUME NEW c \in SweepState, NEW v \in Sim, NEW n \in Nat, NEW f \in Int, NEW m \in Int,
         NEW t \in Int
  PROVE  LET u == PaidState(c, v, n, f, m, t)
         IN  /\ u \in SweepState /\ u.w = v /\ u.rem = n /\ u.worst = t
             /\ u.filled = f /\ u.stopped = c.stopped
BY DEF SweepState, PaidState

LEMMA SweepFields ==
  ASSUME NEW c \in SweepState
  PROVE  /\ c.w \in Sim /\ c.rem \in Nat /\ c.filled \in Int /\ c.notional \in Int
         /\ c.worst \in Int /\ c.notes \in Seq(NoteRecord) /\ c.over \in NoteRecord
         /\ c.stopped \in BOOLEAN /\ c.expunged \in Int
BY DEF SweepState

LEMMA PaidTrades ==
  ASSUME NEW c \in SweepState, NEW v, Spends(c.w, v), NEW s, Dims(c.w, v, s),
         NEW t \in Int, NEW q \in Int, c.rem - q \in Nat,
         ReplaceQty \subseteq Nat => q >= 0
  PROVE  /\ Trades(c, Paid(c, v, t, q), s, t)
         /\ Paid(c, v, t, q).w = v /\ Paid(c, v, t, q).rem = c.rem - q
         /\ Paid(c, v, t, q).stopped = c.stopped
<1> DEFINE d == Paid(c, v, t, q)
           f == c.filled + q
           m == c.notional + q * t
           n == c.rem - q
<1>1. c.filled \in Int /\ c.notional \in Int /\ c.rem \in Nat
  BY SweepFields
<1>2. v \in Sim
  BY DEF Spends, Sane
<1>3. q * t \in Int
  OBVIOUS
<1>4. f \in Int /\ m \in Int /\ n \in Nat
  BY <1>1, <1>3
<1>5. d = PaidState(c, v, n, f, m, t)
  BY DEF Paid, PaidState
<1>6. n <= c.rem \/ ~(ReplaceQty \subseteq Nat)
  BY <1>1
<1> HIDE DEF f, m, n
<1> HIDE DEF d
<1>7. /\ d \in SweepState
      /\ d.w = v /\ d.rem = n /\ d.worst = t /\ d.stopped = c.stopped
  BY <1>2, <1>4, <1>5, PaidUpdate
<1>8. Trades(c, d, s, t)
  BY <1>6, <1>7 DEF Trades
<1> QED
  BY <1>7, <1>8 DEF d, n

(* v is w but for positions: same book, same hidden orders.                *)
LEMMA NoteTrades ==
  ASSUME NEW c \in SweepState, Sane(c.w, ZeroRef), NEW s, NEW t \in Int, NEW q \in Int
  PROVE  LET d == Note(c, s, t, q)
         IN  /\ d \in SweepState
             /\ Kin(c.w, d.w) /\ d.w.hidden = c.w.hidden
             /\ d.rem = c.rem /\ d.worst = c.worst /\ d.filled = c.filled
             /\ d.stopped = c.stopped
<1> DEFINE i == SelectInSeq(c.notes, LAMBDA n : n.px = t)
           flat == c.over \in {NoNote, [c.over EXCEPT !.px = t]}
           flushed == IF flat THEN c.w ELSE Subtract(c.w, s, c.over.px, c.over.qty, TRUE)
           ns1 == [c.notes EXCEPT ![i].qty = @ + q]
           ns2 == Append(c.notes, [px |-> t, qty |-> q])
           o == [px |-> t, qty |-> c.over.qty + q]
           d1 == [c EXCEPT !.notes = ns1]
           d2 == [c EXCEPT !.notes = ns2]
           d3 == [c EXCEPT !.w = flushed, !.over = o]
<1>1. /\ c.w \in Sim /\ c.notes \in Seq(NoteRecord) /\ c.over \in NoteRecord
      /\ c.over.qty \in Int
  BY SweepFields DEF NoteRecord
<1>2. i # 0 => i \in 1 .. Len(c.notes)
  <2> DEFINE I == {j \in 1 .. Len(c.notes) : c.notes[j].px = t}
  <2>1. i = IF I # {} THEN Min(I) ELSE 0
    BY DEF SelectInSeq
  <2>2. I \subseteq Nat
    BY <1>1
  <2>3. I # {} => Min(I) \in I
    BY <2>2, LeastOf
  <2> HIDE DEF i
  <2> QED
    BY <2>1, <2>3
<1> HIDE DEF i
<1>3. i # 0 => ns1 \in Seq(NoteRecord)
  <2> SUFFICES ASSUME i # 0 PROVE ns1 \in Seq(NoteRecord)
    OBVIOUS
  <2> DEFINE e == [c.notes[i] EXCEPT !.qty = @ + q]
  <2>1. c.notes[i] \in NoteRecord
    BY <1>1, <1>2
  <2>2. e \in NoteRecord
    BY <2>1 DEF NoteRecord
  <2>3. ns1 = [c.notes EXCEPT ![i] = e]
    BY <1>1, <1>2
  <2> HIDE DEF e
  <2> QED
    BY <1>1, <1>2, <2>2, <2>3
<1>4. ns2 \in Seq(NoteRecord)
  BY <1>1 DEF NoteRecord
<1>5. Kin(c.w, flushed) /\ flushed.hidden = c.w.hidden
  <2>1. CASE flat
    BY <1>1, <2>1, KinSelf
  <2>2. CASE ~flat
    <3> DEFINE v == Subtract(c.w, s, c.over.px, c.over.qty, TRUE)
    <3>1. Kin(c.w, v) /\ v.hidden = c.w.hidden
      <4>1. c.over.px \in Int /\ c.over.qty \in Int
        BY <1>1 DEF NoteRecord
      <4> QED
        <5> DEFINE w == c.w
                   p == c.over.px
                   n == c.over.qty
        <5>1. w \in Sim /\ n \in Int
          BY <1>1, <4>1
        <5> HIDE DEF w, p, n
        <5>2. Moved(w, Subtract(w, s, p, n, TRUE))
          BY <5>1, SubtractKin
        <5> QED
          BY <5>2 DEF w, p, n, Moved
    <3>2. flushed = v
      BY <2>2
    <3> HIDE DEF v, flushed
    <3> QED
      BY <3>1, <3>2
  <2> HIDE DEF flat, flushed
  <2> QED
    BY <2>1, <2>2
<1>6. flushed \in Sim
  BY <1>5 DEF Kin
<1>7. o \in NoteRecord
  BY <1>1 DEF NoteRecord
<1>8. Note(c, s, t, q) = IF i # 0 THEN d1 ELSE IF Len(c.notes) < TouchCap THEN d2 ELSE d3
  BY DEF Note, i
<1> HIDE DEF flushed, o, ns1, ns2
<1>9. i # 0 =>
      /\ d1 \in SweepState
      /\ d1.w = c.w /\ d1.rem = c.rem /\ d1.worst = c.worst /\ d1.filled = c.filled
      /\ d1.stopped = c.stopped
  <2> HIDE DEF d2, d3
  <2> QED
    BY <1>3, NotesUpdate
<1>10. /\ d2 \in SweepState
       /\ d2.w = c.w /\ d2.rem = c.rem /\ d2.worst = c.worst /\ d2.filled = c.filled
       /\ d2.stopped = c.stopped
  BY <1>4, NotesUpdate
<1>11. /\ d3 \in SweepState
       /\ d3.w = flushed /\ d3.rem = c.rem /\ d3.worst = c.worst /\ d3.filled = c.filled
       /\ d3.stopped = c.stopped
  <2> DEFINE u == OverState(c, flushed, o)
  <2>1. /\ u \in SweepState /\ u.w = flushed /\ u.rem = c.rem /\ u.worst = c.worst
        /\ u.filled = c.filled /\ u.stopped = c.stopped
    BY <1>6, <1>7, OverUpdate
  <2>2. d3 = u
    BY Zenon DEF OverState
  <2> HIDE DEF d1, d2, d3, u
  <2> QED
    BY <2>1, <2>2
<1>12. Kin(c.w, c.w)
  BY <1>1, KinSelf
<1> HIDE DEF d1, d2, d3
<1> QED
  BY <1>5, <1>8, <1>9, <1>10, <1>11, <1>12

LEMMA KinTrades ==
  ASSUME NEW c \in SweepState, Sane(c.w, ZeroRef), NEW d \in SweepState, Kin(c.w, d.w),
         NEW s, Dims(c.w, d.w, s), d.worst = c.worst, d.filled = c.filled, d.rem = c.rem, NEW t
  PROVE  Trades(c, d, s, t)
<1>1. Spends(c.w, d.w)
  BY KinSpends
<1>2. c.rem \in Nat
  BY SweepFields
<1> QED
  BY <1>1, <1>2 DEF Trades

LEMMA NoteIsTrade ==
  ASSUME NEW c \in SweepState, Sane(c.w, ZeroRef), NEW s, NEW t \in Int, NEW q \in Int
  PROVE  LET d == Note(c, s, t, q)
         IN  /\ Trades(c, d, s, t) /\ d \in SweepState /\ Sane(d.w, ZeroRef)
             /\ Kin(c.w, d.w) /\ d.rem = c.rem /\ d.stopped = c.stopped
<1> DEFINE d == Note(c, s, t, q)
<1>1. /\ d \in SweepState
      /\ Kin(c.w, d.w) /\ d.w.hidden = c.w.hidden
      /\ d.rem = c.rem /\ d.worst = c.worst /\ d.filled = c.filled
      /\ d.stopped = c.stopped
  BY NoteTrades
<1> HIDE DEF d
<1>2. Dims(c.w, d.w, s)
  BY <1>1 DEF Dims, HiddenPrices
<1>3. Trades(c, d, s, t)
  BY <1>1, <1>2, KinTrades
<1>4. Sane(d.w, ZeroRef)
  BY <1>3 DEF Trades, Spends
<1> QED
  BY <1>1, <1>3, <1>4 DEF d

LEMMA TappedTrades ==
  ASSUME NEW c \in SweepState, Sane(c.w, ZeroRef), NEW s, NEW t \in Int, t # NoTick
  PROVE  Trades(c, Tapped(c, s, t), s, t) /\ Tapped(c, s, t).stopped = c.stopped
<1> DEFINE p == Tap(c.w, s, t, c.rem)
           d1 == [c EXCEPT !.w = c.w]
           d2 == [c EXCEPT !.w = p.w]
           d3 == Paid(c, p.w, t, p.taken)
<1>1. c.w \in Sim /\ c.rem \in Nat
  BY SweepFields
<1>2. /\ Kin(c.w, p.w) /\ p.taken \in HeldQty /\ c.rem - p.taken \in Nat
      /\ Dims(c.w, p.w, s)
  BY <1>1, TapKin
<1> HIDE DEF p
<1>3. p.w \in Sim /\ Kin(c.w, c.w) /\ Dims(c.w, c.w, s)
  BY <1>1, <1>2, KinSelf, DimsSelf DEF Kin
<1>4. /\ d1 \in SweepState /\ d1.w = c.w /\ d1.rem = c.rem /\ d1.worst = c.worst
      /\ d1.filled = c.filled /\ d1.stopped = c.stopped
  BY <1>1, StateUpdate
<1>5. /\ d2 \in SweepState /\ d2.w = p.w /\ d2.rem = c.rem /\ d2.worst = c.worst
      /\ d2.filled = c.filled /\ d2.stopped = c.stopped
  BY <1>3, StateUpdate
<1>6. Spends(c.w, p.w)
  BY <1>2, KinSpends
<1>7. p.taken \in Int /\ (ReplaceQty \subseteq Nat => p.taken >= 0)
  BY <1>2 DEF HeldQty
<1>8. Trades(c, d3, s, t) /\ d3.stopped = c.stopped
  <2> DEFINE v == p.w
             q == p.taken
  <2>1. /\ Spends(c.w, v) /\ Dims(c.w, v, s) /\ q \in Int /\ c.rem - q \in Nat
        /\ ReplaceQty \subseteq Nat => q >= 0
    BY <1>2, <1>6, <1>7
  <2> HIDE DEF v, q
  <2>2. Trades(c, Paid(c, v, t, q), s, t)
    BY <2>1, PaidTrades
  <2>3. Paid(c, v, t, q).stopped = c.stopped
    BY <2>1, <2>2, PaidTrades
  <2> QED
    BY <2>2, <2>3 DEF v, q
<1>9. Tapped(c, s, t) = IF c.rem = 0 THEN d1 ELSE IF p.taken = 0 THEN d2 ELSE d3
  BY DEF Tapped, p
<1> HIDE DEF d1, d2, d3
<1>10. Trades(c, d1, s, t) /\ Trades(c, d2, s, t)
  BY <1>2, <1>3, <1>4, <1>5, KinTrades
<1> QED
  BY <1>4, <1>5, <1>8, <1>9, <1>10

(* What a match against a resting order does, besides trade.               *)
LEMMA HitTrades ==
  ASSUME NEW c \in SweepState, Sane(c.w, ZeroRef), NEW h \in c.w.book.live, NEW k \in Int,
         0 < k, k <= c.w.book.slot[h].qty, k <= c.rem, NEW s, NEW t \in Int
  PROVE  LET d == Paid(c, Refilled(c.w, h, k), t, k)
         IN  /\ Trades(c, d, s, t) /\ d \in SweepState /\ Sane(d.w, ZeroRef)
             /\ d.rem = c.rem - k /\ d.stopped = c.stopped
<1> DEFINE u == Refilled(c.w, h, k)
           d == Paid(c, u, t, k)
<1>1. Spends(c.w, u) /\ u.hidden = c.w.hidden
  BY FillSpends
<1> HIDE DEF u
<1>2. Dims(c.w, u, s)
  BY <1>1 DEF Dims, HiddenPrices
<1>3. c.rem \in Nat /\ c.rem - k \in Nat /\ k >= 0
  <2>1. c.rem \in Nat
    BY SweepFields
  <2> QED
    BY <2>1
<1>4. Trades(c, d, s, t) /\ d.w = u /\ d.rem = c.rem - k /\ d.stopped = c.stopped
  BY <1>1, <1>2, <1>3, PaidTrades
<1> HIDE DEF d
<1>5. d \in SweepState /\ Sane(d.w, ZeroRef)
  BY <1>4 DEF Trades, Spends
<1> QED
  BY <1>4, <1>5 DEF d, u

(* A turn that is not the last takes a unit or removes a tracked order.    *)
Advances(c, d) ==
  ReplaceQty \subseteq Nat => d.stopped \/ d.rem < c.rem \/ Watched(d.w) # Watched(c.w)

LEMMA MatchTrades ==
  ASSUME NEW c \in SweepState, Sane(c.w, ZeroRef), c.rem # 0, NEW h \in c.w.book.live,
         NEW s, NEW t \in Int, t # NoTick, NEW mode
  PROVE  LET d == Match(c, s, t, h, mode)
         IN  Trades(c, d, s, t) /\ Advances(c, d)
<1> DEFINE o == c.w.book.slot[h]
           mine == c.w.tracked[h].live
           k == IF c.rem < o.qty THEN c.rem ELSE o.qty
           hit(e) == Paid(e, Replenish(Take(e.w, h, k), o.ref, h), t, k)
           d == Match(c, s, t, h, mode)
<1>1. c.w \in Sim /\ c.rem \in Nat /\ GoodBook(c.w.book) /\ c.expunged \in Int
  BY SweepFields DEF Sane
<1>2. o.qty \in Int /\ o.qty > 0 /\ h \in Slots
  BY <1>1, GoodParts, LiveOrder
<1>3. k \in Int /\ 0 < k /\ k <= o.qty /\ k <= c.rem
  BY <1>1, <1>2
<1>4. Kin(c.w, c.w) /\ Dims(c.w, c.w, s)
  BY <1>1, KinSelf, DimsSelf
<1>5. mine \in BOOLEAN
  BY <1>1, <1>2, SimFields DEF Tracker
<1> HIDE DEF k
<1>6. CASE mine /\ mode = "cancel_newest"
  <2> DEFINE u == [c EXCEPT !.stopped = TRUE]
  <2>1. /\ u \in SweepState /\ u.w = c.w /\ u.rem = c.rem /\ u.worst = c.worst
        /\ u.filled = c.filled /\ u.stopped
    BY StopUpdate
  <2>2. d = u
    BY <1>6 DEF Match
  <2> HIDE DEF d, u
  <2>3. Trades(c, u, s, t)
    BY <1>4, <2>1, KinTrades
  <2> QED
    BY <2>1, <2>2, <2>3 DEF Advances, d
<1>7. CASE mine /\ mode = "cancel_oldest"
  <2> DEFINE v == [Untrack(c.w, h) EXCEPT !.book = Drop(@, h)]
             m == c.expunged + o.qty * t
             u == ExpungedState(c, v, m)
             n == Note(u, s, t, o.qty)
  <2>1. Spends(c.w, v) /\ h \notin Watched(v) /\ v.hidden = c.w.hidden
    BY <1>7, ExpungeSpends
  <2>2. d = n
    BY <1>7 DEF Match, ExpungedState
  <2>3. m \in Int
    <3>1. o.qty * t \in Int
      BY <1>2
    <3> QED
      BY <1>1, <3>1
  <2> HIDE DEF v, m
  <2>4. v \in Sim /\ Sane(v, ZeroRef)
    BY <2>1 DEF Spends, Sane
  <2>5. /\ u \in SweepState /\ u.w = v /\ u.rem = c.rem /\ u.worst = c.worst
        /\ u.filled = c.filled
    BY <2>3, <2>4, ExpungeUpdate
  <2> HIDE DEF u
  <2>6. Trades(c, u, s, t)
    BY <1>1, <2>1, <2>5 DEF Trades, Dims, HiddenPrices
  <2>7. Sane(u.w, ZeroRef)
    BY <2>4, <2>5
  <2>8. Trades(u, n, s, t) /\ Kin(u.w, n.w)
    BY <1>2, <2>5, <2>7, NoteIsTrade
  <2>9. h \notin Watched(n.w) /\ h \in Watched(c.w)
    BY <1>2, <1>7, <2>1, <2>5, <2>8 DEF Kin, Watched
  <2> HIDE DEF n, d
  <2>10. Trades(c, n, s, t)
    BY <2>6, <2>8, TradesTrans
  <2> QED
    BY <2>2, <2>9, <2>10 DEF Advances, d
<1>8. CASE mine /\ mode = "decrement"
  <2> DEFINE e == Paid(c, Refilled(c.w, h, k), t, k)
             n == Note(e, s, t, k)
  <2>1. d = n
    BY <1>8 DEF Match, Refilled, k
  <2>2. /\ Trades(c, e, s, t) /\ e \in SweepState /\ Sane(e.w, ZeroRef)
        /\ e.rem = c.rem - k
    BY <1>3, HitTrades
  <2> HIDE DEF e
  <2>3. Trades(e, n, s, t) /\ n.rem = e.rem
    BY <1>3, <2>2, NoteIsTrade
  <2> HIDE DEF n, d
  <2>4. Trades(c, n, s, t)
    BY <2>2, <2>3, TradesTrans
  <2>5. n.rem < c.rem
    BY <1>1, <1>3, <2>2, <2>3
  <2> QED
    BY <2>1, <2>4, <2>5 DEF Advances, d
<1>9. CASE ~(mine /\ mode \in {"cancel_newest", "cancel_oldest", "decrement"})
  <2> DEFINE n == Note(c, s, t, k)
             e == Paid(n, Refilled(n.w, h, k), t, k)
             f == Tapped(e, s, t)
  <2>1. /\ Trades(c, n, s, t) /\ n \in SweepState /\ Sane(n.w, ZeroRef)
        /\ Kin(c.w, n.w) /\ n.rem = c.rem
    BY <1>3, NoteIsTrade
  <2>2. n.w.book = c.w.book
    BY <2>1 DEF Kin
  <2>3. d = f
    BY <1>9, <2>2 DEF Match, Refilled, k
  <2> HIDE DEF n
  <2>4. h \in n.w.book.live /\ k <= n.w.book.slot[h].qty /\ k <= n.rem
    BY <1>3, <2>1, <2>2
  <2>5. /\ Trades(n, e, s, t) /\ e \in SweepState /\ Sane(e.w, ZeroRef)
        /\ e.rem = n.rem - k
    BY <1>3, <2>1, <2>4, HitTrades
  <2> HIDE DEF e
  <2>6. Trades(e, f, s, t)
    BY <2>5, TappedTrades
  <2> HIDE DEF f, d
  <2>7. Trades(n, f, s, t)
    BY <2>1, <2>5, <2>6, TradesTrans
  <2>8. Trades(c, f, s, t)
    BY <2>1, <2>7, TradesTrans
  <2>9. e.rem < c.rem /\ e.rem \in Nat /\ f.rem \in Nat
    BY <1>1, <1>3, <2>1, <2>5, <2>6, SweepFields DEF Trades
  <2>10. ReplaceQty \subseteq Nat => f.rem < c.rem
    BY <1>1, <2>6, <2>9 DEF Trades
  <2> QED
    BY <2>3, <2>8, <2>10 DEF Advances, d
<1> QED
  BY <1>5, <1>6, <1>7, <1>8, <1>9

(* Nothing is left at a better price than the worst paid.                  *)
Paced(c, s) == FullReserves /\ c.filled # 0 => Beyond(c.w, s, c.worst)

Sweeps(s) == {c \in SweepState : Sane(c.w, ZeroRef) /\ Paced(c, s)}

LEMMA SweepsParts ==
  ASSUME NEW s, NEW c \in Sweeps(s)
  PROVE  /\ c \in SweepState /\ Sane(c.w, ZeroRef) /\ Paced(c, s)
         /\ c.w \in Sim /\ GoodBook(c.w.book)
BY DEF Sweeps, Sane

LEMMA TradesPaced ==
  ASSUME NEW s \in Side, NEW c \in Sweeps(s), NEW t \in Int, Beyond(c.w, s, t),
         NEW d, Trades(c, d, s, t)
  PROVE  d \in Sweeps(s)
<1>1. /\ c \in SweepState /\ Sane(c.w, ZeroRef) /\ Paced(c, s) /\ c.w \in Sim
      /\ GoodBook(c.w.book) /\ c.worst \in Int
  BY SweepsParts, SweepFields
<1>2. d \in SweepState /\ Sane(d.w, ZeroRef) /\ d.w \in Sim /\ GoodBook(d.w.book)
  BY DEF Trades, Spends, Sane
<1>3. FullReserves => Thins(c.w, d.w, s)
  BY DEF Trades, Spends, Thins
<1>4. ASSUME FullReserves, d.filled # 0 PROVE Beyond(d.w, s, d.worst)
  <2>1. CASE d.worst = t
    BY <1>1, <1>2, <1>3, <1>4, <2>1, BeyondThins
  <2>2. CASE d.worst = c.worst /\ d.filled = c.filled
    <3>1. Beyond(c.w, s, c.worst)
      BY <1>1, <1>4, <2>2 DEF Paced
    <3> QED
      BY <1>1, <1>2, <1>3, <1>4, <2>2, <3>1, BeyondThins
  <2> QED
    BY <2>1, <2>2 DEF Trades
<1> QED
  BY <1>2, <1>4 DEF Sweeps, Paced

(* The price a turn aims at.                                               *)
LEMMA AimBeyond ==
  ASSUME NEW w \in Sim, NEW s \in Side
  PROVE  LET t      == Touch(w, s)
             hid    == BestHidden(w, s)
             better == hid # NoTick /\ (t = NoTick \/ Better(s, hid, t))
         IN  /\ better => Beyond(w, s, hid)
             /\ ~better => Beyond(w, s, t) \/ t = NoTick
             /\ t \in Int /\ hid \in Int
<1>1. Touch(w, s) \in Int /\ BestHidden(w, s) \in Int
  BY TouchTyped, HiddenFew
<1> QED
  BY <1>1 DEF Beyond, Better

LEMMA SweepTurnKeeps ==
  ASSUME NEW s \in Side, NEW c \in Sweeps(s), NEW in, NEW mode
  PROVE  SweepTurn(c, in, s, mode) \in Sweeps(s)
<1> DEFINE t      == Touch(c.w, s)
           hid    == BestHidden(c.w, s)
           better == hid # NoTick /\ (t = NoTick \/ Better(s, hid, t))
           aim    == IF better THEN hid ELSE t
           within == in.type = "market" \/ ~Better(s, in.px, aim)
           h      == FrontSlot(c.w, s, t)
           d1     == Tapped(c, s, hid)
           d2     == Match(c, s, t, h, mode)
<1>1. /\ c \in SweepState /\ Sane(c.w, ZeroRef) /\ c.w \in Sim /\ GoodBook(c.w.book)
  BY SweepsParts
<1>2. /\ better => Beyond(c.w, s, hid)
      /\ ~better => Beyond(c.w, s, t) \/ t = NoTick
      /\ t \in Int /\ hid \in Int
  BY <1>1, AimBeyond
<1>3. t # NoTick => h \in c.w.book.live
  BY <1>1, TouchRests DEF Touch, FrontSlot, OrdersAt
<1>4. SweepTurn(c, in, s, mode) =
        IF c.rem = 0 \/ c.stopped \/ aim = NoTick \/ ~within THEN c ELSE IF better THEN d1 ELSE d2
  BY DEF SweepTurn
<1> HIDE DEF within
<1>5. better => hid # NoTick
  OBVIOUS
<1> HIDE DEF t, hid, h
<1>6. better => d1 \in Sweeps(s)
  <2> SUFFICES ASSUME better PROVE d1 \in Sweeps(s)
    OBVIOUS
  <2>1. Trades(c, d1, s, hid)
    BY <1>1, <1>2, <1>5, TappedTrades
  <2> HIDE DEF d1
  <2> QED
    BY <1>2, <2>1, TradesPaced
<1>7. ~better /\ t # NoTick /\ c.rem # 0 => d2 \in Sweeps(s)
  <2> SUFFICES ASSUME ~better, t # NoTick, c.rem # 0 PROVE d2 \in Sweeps(s)
    OBVIOUS
  <2>1. Trades(c, d2, s, t)
    BY <1>1, <1>2, <1>3, MatchTrades
  <2> HIDE DEF d2
  <2> QED
    BY <1>2, <2>1, TradesPaced
<1> HIDE DEF d1, d2, better
<1> QED
  BY <1>4, <1>6, <1>7

(* f holds the states of the sweep from c, f[n] after n turns.             *)
SweepRun(c, in, s, mode, f) ==
  LET N == c.rem + Cardinality(Slots)
  IN  /\ f[0] = c
      /\ \A n \in 1 .. N : f[n] = SweepTurn(f[n - 1], in, s, mode)
      /\ \A n \in 0 .. N : f[n] \in Sweeps(s)
      /\ Sweep(c, in, s, mode) = f[N]
      /\ N \in Nat

LEMMA SweepRuns ==
  ASSUME NEW s \in Side, NEW c \in Sweeps(s), NEW in, NEW mode
  PROVE  \E f : SweepRun(c, in, s, mode, f)
<1> DEFINE N == c.rem + Cardinality(Slots)
           S == Sweeps(s)
           Body(f) == [n \in 0 .. N |-> IF n = 0 THEN c ELSE SweepTurn(f[n - 1], in, s, mode)]
           f == CHOOSE x : x = Body(x)
           G == [n \in 1 .. N |-> [x \in S |-> SweepTurn(x, in, s, mode)]]
<1>1. Sweep(c, in, s, mode) = f[N]
  BY DEF Sweep
<1>2. N \in Nat
  <2>1. c.rem \in Nat
    BY SweepsParts, SweepFields
  <2>2. Cardinality(Slots) \in Nat
    BY SlotAssumption, FS_CardinalityType
  <2> QED
    BY <2>1, <2>2
<1> HIDE DEF N
<1>3. G \in [1 .. N -> [S -> S]]
  BY SweepTurnKeeps
<1>4. \A n \in 1 .. N, x \in S : G[n][x] = SweepTurn(x, in, s, mode)
  OBVIOUS
<1> HIDE DEF G, S
<1>5. c \in S
  BY DEF S
<1>6. PICK g : Turns(N, S, c, G, g)
  BY <1>2, <1>3, <1>5, LoopExists
<1>7. g = Body(g)
  <2>1. \A n \in 1 .. N : n - 1 \in 0 .. N /\ g[n] = SweepTurn(g[n - 1], in, s, mode)
    BY <1>2, <1>4, <1>6 DEF Turns
  <2>2. \A n \in 0 .. N : g[n] = IF n = 0 THEN c ELSE SweepTurn(g[n - 1], in, s, mode)
    BY <1>2, <1>6, <2>1 DEF Turns
  <2>3. g = [n \in 0 .. N |-> g[n]]
    BY <1>6 DEF Turns
  <2> QED
    BY <2>2, <2>3
<1> HIDE DEF Body
<1>8. f = Body(f)
  BY <1>7, Zenon
<1> HIDE DEF f
<1>9. f[0] = c /\ \A n \in 1 .. N : f[n] = SweepTurn(f[n - 1], in, s, mode)
  BY <1>2, <1>8 DEF Body
<1>10. f[0] \in S /\ \A n \in 1 .. N : f[n - 1] \in S => f[n] \in S
  BY <1>5, <1>9, SweepTurnKeeps DEF S
<1>11. \A n \in 0 .. N : f[n] \in S
  BY <1>2, <1>10, LoopKeeps
<1>12. SweepRun(c, in, s, mode, f)
  BY <1>1, <1>2, <1>9, <1>11 DEF SweepRun, N, S
<1> QED
  BY <1>12

LEMMA SweepKeeps ==
  ASSUME NEW s \in Side, NEW c \in Sweeps(s), NEW in, NEW mode
  PROVE  Sweep(c, in, s, mode) \in Sweeps(s)
<1>1. PICK f : SweepRun(c, in, s, mode, f)
  BY SweepRuns
<1> QED
  BY <1>1 DEF SweepRun

----------------------------------------------------------------------------
(* How sweeps end.  When replacements never ask for a negative quantity,   *)
(* every turn that is not the last takes a unit or removes a tracked       *)
(* order, so a sweep with a unit left and no stop has reached its bound.   *)

(* An entry of the ledger that the walk has still to meet.                 *)
Pending(p, s, t) ==
  \E i \in DOMAIN p.w.hidden :
    /\ i >= p.at /\ p.w.hidden[i].side = s /\ p.w.hidden[i].px = t
    /\ p.w.hidden[i].qty # 0

LEMMA TapTurnPends ==
  ASSUME ReplaceQty \subseteq Nat, NEW w0, NEW s, NEW t, NEW q \in Nat, q > 0,
         NEW p \in Tappings(w0, s, t, q), p.taken > 0 \/ Pending(p, s, t)
  PROVE  LET u == TapTurn(p, s, t)
         IN  /\ p.taken > 0 => u.taken > 0
             /\ \/ u.taken > 0
                \/ Pending(u, s, t) /\ Len(u.w.hidden) - u.at < Len(p.w.hidden) - p.at
<1> DEFINE w == p.w
           hd == w.hidden
           at == p.at
           L == Len(hd)
           e == hd[at]
           k == IF p.rem < e.qty THEN p.rem ELSE e.qty
           gone == RemoveAt(hd, at)
           less == [hd EXCEPT ![at].qty = @ - k]
           u0 == [p EXCEPT !.at = @ + 1]
           u1 == [p EXCEPT !.w = WithHidden(w, gone), !.rem = @ - k, !.taken = @ + k]
           u2 == [p EXCEPT !.w = WithHidden(w, less), !.at = @ + 1, !.rem = @ - k,
                           !.taken = @ + k]
           u  == TapTurn(p, s, t)
<1>1. /\ p \in [w : Sim, at : Nat \ {0}, rem : Nat, taken : HeldQty]
      /\ w \in Sim /\ at \in Nat \ {0} /\ p.rem \in Nat /\ p.taken \in Nat
      /\ p.rem + p.taken = q
  BY DEF Tappings, HeldQty
<1>2. hd \in Seq(Hidden) /\ L \in Nat /\ DOMAIN hd = 1 .. L
  BY <1>1, SimFields
<1>3. u = IF p.rem = 0 \/ at > L THEN p
          ELSE IF e.side # s \/ e.px # t THEN u0
          ELSE IF k = e.qty THEN u1 ELSE u2
  BY DEF TapTurn
<1>4. /\ u1.taken = p.taken + k /\ u2.taken = p.taken + k /\ u0.taken = p.taken
      /\ u0.at = at + 1 /\ u0.w = w /\ u1.at = at
  BY <1>1
<1>5. u1.w.hidden = gone
  <2>1. u1.w = WithHidden(w, gone)
    BY <1>1
  <2>2. WithHidden(w, gone).hidden = gone
    BY <1>1 DEF WithHidden, Sim
  <2> QED
    BY <2>1, <2>2
<1>6. at <= L => e \in Hidden /\ e.qty \in Nat
  <2>1. at <= L => e \in Hidden
    BY <1>1, <1>2
  <2> QED
    BY <2>1 DEF Hidden, HeldQty
<1>7. at <= L => k \in Nat /\ (k = 0 => p.rem = 0 \/ e.qty = 0)
  BY <1>1, <1>6
<1>8. ASSUME p.taken > 0 PROVE u.taken > 0
  <2> HIDE DEF u, u0, u1, u2, k, L
  <2> QED
    BY <1>1, <1>2, <1>3, <1>4, <1>7, <1>8
<1>9. ASSUME ~(p.taken > 0)
      PROVE  \/ u.taken > 0
             \/ Pending(u, s, t) /\ Len(u.w.hidden) - u.at < Len(p.w.hidden) - p.at
  <2>1. PICK i \in 1 .. L : i >= at /\ hd[i].side = s /\ hd[i].px = t /\ hd[i].qty # 0
    BY <1>2, <1>9 DEF Pending
  <2>2. p.rem # 0 /\ p.taken = 0 /\ at <= L /\ ~(at > L)
    BY <1>1, <1>2, <1>9, <2>1
  <2>3. CASE e.side # s \/ e.px # t
    <3>1. u = u0
      BY <1>3, <2>2, <2>3
    <3>2. i # at
      BY <2>1, <2>3
    <3> HIDE DEF u0, u, L, e
    <3>3. i >= u.at /\ u.w = w /\ u.at = at + 1
      BY <1>1, <1>4, <2>1, <3>1, <3>2
    <3>4. Pending(u, s, t)
      BY <1>2, <2>1, <3>3 DEF Pending
    <3>5. Len(u.w.hidden) = L /\ Len(p.w.hidden) = L
      BY <3>3 DEF L
    <3>6. L - u.at < L - at
      BY <1>1, <1>2, <3>3
    <3> QED
      BY <3>4, <3>5, <3>6
  <2>4. CASE ~(e.side # s \/ e.px # t) /\ k = 0
    <3>1. e.qty = 0 /\ k = e.qty
      BY <1>7, <2>2, <2>4
    <3>2. u = u1
      BY <1>3, <2>2, <2>4, <3>1
    <3>3. i # at /\ i - 1 >= at /\ i - 1 \in 1 .. (L - 1) /\ at \in 1 .. L
      BY <1>1, <1>2, <2>1, <2>2, <3>1
    <3> HIDE DEF u1, u, k, L, e, gone
    <3>4. /\ gone \in Seq(Hidden) /\ DOMAIN gone = 1 .. (L - 1)
          /\ \A j \in 1 .. (L - 1) : gone[j] = hd[IF j < at THEN j ELSE j + 1]
      BY <1>2, <3>3, RemoveAtTyped DEF gone, L
    <3>5. gone[i - 1] = hd[i]
      <4>1. ~(i - 1 < at) /\ (i - 1) + 1 = i
        BY <1>1, <1>2, <3>3
      <4> QED
        BY <3>3, <3>4, <4>1
    <3>6. u.w.hidden = gone /\ u.at = at
      BY <1>4, <1>5, <3>2
    <3>7. Pending(u, s, t)
      BY <2>1, <3>3, <3>4, <3>5, <3>6 DEF Pending
    <3>8. Len(gone) = L - 1
      BY <1>2, <3>3, <3>4
    <3>9. Len(u.w.hidden) - u.at < Len(p.w.hidden) - p.at
      <4>1. (L - 1) - at < L - at
        BY <1>1, <1>2
      <4> QED
        BY <3>6, <3>8, <4>1 DEF L
    <3> QED
      BY <3>7, <3>9
  <2>5. CASE ~(e.side # s \/ e.px # t) /\ k # 0
    <3>1. k \in Nat /\ k > 0
      BY <1>7, <2>2, <2>5
    <3>2. u = u1 \/ u = u2
      BY <1>3, <2>2, <2>5
    <3> HIDE DEF u1, u2, u, k, L
    <3>3. u.taken > 0
      BY <1>4, <2>2, <3>1, <3>2
    <3> QED
      BY <3>3
  <2> QED
    BY <2>3, <2>4, <2>5
<1> QED
  BY <1>8, <1>9

(* A ledger with something at (s, t) gives some of it.                     *)
LEMMA TapTakes ==
  ASSUME ReplaceQty \subseteq Nat, NEW w \in Sim, NEW s, NEW t, NEW q \in Nat, q > 0,
         t \in HiddenPrices(w, s)
  PROVE  Tap(w, s, t, q).taken > 0
<1> DEFINE N == Len(w.hidden)
<1>1. PICK f : TapRun(w, s, t, q, f)
  BY TapRuns
<1> DEFINE H == {n \in 0 .. N : \/ f[n].taken > 0
                                \/ Pending(f[n], s, t)
                                   /\ Len(f[n].w.hidden) - f[n].at <= N - 1 - n}
<1>2. N \in Nat /\ DOMAIN w.hidden = 1 .. N
  BY SimFields
<1>3. /\ f[0] = [w |-> w, at |-> 1, rem |-> q, taken |-> 0]
      /\ \A n \in 1 .. N : f[n] = TapTurn(f[n - 1], s, t)
      /\ \A n \in 0 .. N : f[n] \in Tappings(w, s, t, q)
      /\ Tap(w, s, t, q).taken = f[N].taken
  BY <1>1 DEF TapRun
<1>4. 0 \in H
  <2>1. Pending(f[0], s, t)
    <3>1. f[0].w = w /\ f[0].at = 1
      BY <1>3
    <3>2. PICK j \in DOMAIN w.hidden : /\ w.hidden[j].side = s /\ w.hidden[j].qty # 0
                                       /\ w.hidden[j].px = t
      BY DEF HiddenPrices
    <3>3. j >= 1
      BY <1>2
    <3> QED
      BY <3>1, <3>2, <3>3 DEF Pending
  <2>2. Len(f[0].w.hidden) - f[0].at <= N - 1 - 0
    BY <1>2, <1>3
  <2> QED
    BY <1>2, <2>1, <2>2
<1>5. ASSUME NEW n \in 0 .. N
      PROVE  Len(f[n].w.hidden) \in Nat /\ f[n].at \in Nat
             /\ DOMAIN f[n].w.hidden = 1 .. Len(f[n].w.hidden)
  <2>1. f[n].w \in Sim /\ f[n].at \in Nat
    BY <1>3 DEF Tappings
  <2> QED
    BY <2>1, SimFields
<1>6. ASSUME NEW n \in 1 .. N, n - 1 \in H PROVE n \in H
  <2> DEFINE p == f[n - 1]
             u == f[n]
  <2>1. n - 1 \in 0 .. N /\ n \in 0 .. N
    BY <1>2
  <2>2. p \in Tappings(w, s, t, q) /\ u = TapTurn(p, s, t)
    BY <1>3, <2>1
  <2>3. \/ p.taken > 0
        \/ Pending(p, s, t) /\ Len(p.w.hidden) - p.at <= N - 1 - (n - 1)
    BY <1>6
  <2>4. /\ Len(p.w.hidden) \in Nat /\ p.at \in Nat
        /\ Len(u.w.hidden) \in Nat /\ u.at \in Nat
    BY <1>5, <2>1
  <2> HIDE DEF p, u
  <2>5. /\ p.taken > 0 => u.taken > 0
        /\ \/ u.taken > 0
           \/ Pending(u, s, t) /\ Len(u.w.hidden) - u.at < Len(p.w.hidden) - p.at
    BY <2>2, <2>3, TapTurnPends
  <2>6. u.taken > 0 \/ Len(u.w.hidden) - u.at <= N - 1 - n
    <3>1. CASE p.taken > 0
      BY <2>5, <3>1
    <3>2. CASE ~(p.taken > 0)
      <4> DEFINE x == Len(p.w.hidden) - p.at
                 y == Len(u.w.hidden) - u.at
      <4>1. x \in Int /\ y \in Int /\ x <= N - 1 - (n - 1)
        BY <2>3, <2>4, <3>2, SMTT(30)
      <4>2. u.taken > 0 \/ y < x
        BY <2>5
      <4> HIDE DEF x, y
      <4>3. u.taken > 0 \/ y <= N - 1 - n
        BY <1>2, <4>1, <4>2
      <4> QED
        BY <4>3 DEF y
    <3> QED
      BY <3>1, <3>2
  <2> QED
    BY <2>1, <2>5, <2>6 DEF u
<1>7. N \in H
  <2> HIDE DEF H
  <2> QED
    BY <1>2, <1>4, <1>6, TurnsPass
<1>8. ~(Pending(f[N], s, t) /\ Len(f[N].w.hidden) - f[N].at <= N - 1 - N)
  <2> SUFFICES ASSUME Pending(f[N], s, t), Len(f[N].w.hidden) - f[N].at <= N - 1 - N
               PROVE  FALSE
    OBVIOUS
  <2>1. Len(f[N].w.hidden) \in Nat /\ f[N].at \in Nat
        /\ DOMAIN f[N].w.hidden = 1 .. Len(f[N].w.hidden)
    BY <1>2, <1>5
  <2>2. PICK i \in 1 .. Len(f[N].w.hidden) : i >= f[N].at
    BY <2>1 DEF Pending
  <2> QED
    BY <1>2, <2>1, <2>2
<1> QED
  BY <1>3, <1>7, <1>8

LEMMA TappedAdvances ==
  ASSUME ReplaceQty \subseteq Nat, NEW c \in SweepState, Sane(c.w, ZeroRef), c.rem # 0,
         NEW s \in Side, NEW t \in Int, t # NoTick, t \in HiddenPrices(c.w, s)
  PROVE  Advances(c, Tapped(c, s, t))
<1> DEFINE p == Tap(c.w, s, t, c.rem)
           q == p.taken
           v == p.w
           d == Paid(c, v, t, q)
<1>1. c.w \in Sim /\ c.rem \in Nat /\ c.rem > 0
  BY SweepFields
<1>2. q > 0
  BY <1>1, TapTakes
<1>3. /\ Kin(c.w, v) /\ q \in HeldQty /\ c.rem - q \in Nat /\ Dims(c.w, v, s)
  BY <1>1, TapKin
<1>4. Tapped(c, s, t) = d
  BY <1>1, <1>2 DEF Tapped
<1> HIDE DEF p, q, v
<1>5. q \in Int
  BY <1>3, HeldQtyInt
<1>6. Spends(c.w, v)
  BY <1>3, KinSpends
<1>7. d.rem = c.rem - q
  <2>1. q >= 0
    BY <1>2, <1>5
  <2>2. Trades(c, Paid(c, v, t, q), s, t)
    BY <1>3, <1>5, <1>6, <2>1, PaidTrades
  <2>3. Paid(c, v, t, q).rem = c.rem - q
    BY <1>3, <1>5, <1>6, <2>1, <2>2, PaidTrades
  <2> QED
    BY <2>3
<1> HIDE DEF d
<1>8. d.rem < c.rem
  BY <1>1, <1>2, <1>5, <1>7
<1> QED
  BY <1>4, <1>8 DEF Advances

(* What ends a sweep of the orders of side s for in.                       *)
Ended(c, in, s) ==
  LET t      == Touch(c.w, s)
      hid    == BestHidden(c.w, s)
      better == hid # NoTick /\ (t = NoTick \/ Better(s, hid, t))
      aim    == IF better THEN hid ELSE t
  IN  \/ c.rem = 0 \/ c.stopped \/ aim = NoTick
      \/ ~(in.type = "market" \/ ~Better(s, in.px, aim))

LEMMA SweepTurnAdvances ==
  ASSUME ReplaceQty \subseteq Nat, NEW s \in Side, NEW c \in Sweeps(s), NEW in, NEW mode
  PROVE  LET d == SweepTurn(c, in, s, mode)
         IN  IF Ended(c, in, s) THEN d = c ELSE \E t : Trades(c, d, s, t) /\ Advances(c, d)
<1> DEFINE t      == Touch(c.w, s)
           hid    == BestHidden(c.w, s)
           better == hid # NoTick /\ (t = NoTick \/ Better(s, hid, t))
           aim    == IF better THEN hid ELSE t
           h      == FrontSlot(c.w, s, t)
           d1     == Tapped(c, s, hid)
           d2     == Match(c, s, t, h, mode)
           d      == SweepTurn(c, in, s, mode)
<1>1. /\ c \in SweepState /\ Sane(c.w, ZeroRef) /\ c.w \in Sim /\ GoodBook(c.w.book)
  BY SweepsParts
<1>2. t \in Int /\ hid \in Int
  BY <1>1, AimBeyond
<1>3. t # NoTick => h \in c.w.book.live
  BY <1>1, TouchRests DEF Touch, FrontSlot, OrdersAt
<1>4. hid # NoTick => hid \in HiddenPrices(c.w, s)
  <2>1. HiddenPrices(c.w, s) = {} => hid = NoTick
    BY <1>1, HiddenFew, BestInFew
  <2> QED
    BY <1>1, <2>1, HiddenFew
<1>5. d = IF Ended(c, in, s) THEN c ELSE IF better THEN d1 ELSE d2
  BY DEF SweepTurn, Ended
<1>6. Ended(c, in, s) \/ (c.rem # 0 /\ aim # NoTick)
  BY DEF Ended
<1> HIDE DEF t, hid, h
<1>7. ASSUME better, c.rem # 0 PROVE Trades(c, d1, s, hid) /\ Advances(c, d1)
  BY <1>1, <1>2, <1>4, <1>7, TappedTrades, TappedAdvances
<1>8. ASSUME ~better, c.rem # 0, aim # NoTick PROVE Trades(c, d2, s, t) /\ Advances(c, d2)
  BY <1>1, <1>2, <1>3, <1>8, MatchTrades
<1>9. aim # NoTick => hid # NoTick \/ ~better
  OBVIOUS
<1> HIDE DEF d1, d2, d, better, aim
<1>10. Ended(c, in, s) => d = c
  BY <1>5
<1>11. ~Ended(c, in, s) => \E x : Trades(c, d, s, x) /\ Advances(c, d)
  BY <1>5, <1>6, <1>7, <1>8
<1> QED
  BY <1>10, <1>11 DEF d

(* The turns a sweep may still take.                                       *)
TurnsLeft(c) == c.rem + Cardinality(Watched(c.w))

LEMMA WatchedFew ==
  ASSUME NEW w
  PROVE  /\ Watched(w) \subseteq Slots /\ IsFiniteSet(Watched(w))
         /\ Cardinality(Watched(w)) \in Nat
         /\ Cardinality(Watched(w)) <= Cardinality(Slots)
<1>1. Watched(w) \in SUBSET Slots
  BY DEF Watched
<1> QED
  BY <1>1, SlotAssumption, FS_Subset, FS_CardinalityType

LEMMA TurnsLeftFall ==
  ASSUME ReplaceQty \subseteq Nat, NEW c \in SweepState, NEW d, NEW s, NEW t,
         Trades(c, d, s, t), Advances(c, d)
  PROVE  d.stopped \/ TurnsLeft(d) <= TurnsLeft(c) - 1
<1> DEFINE m == Cardinality(Watched(c.w))
           n == Cardinality(Watched(d.w))
<1>1. c.rem \in Nat /\ d.rem \in Nat /\ d.rem <= c.rem
  BY SweepFields DEF Trades
<1>2. Watched(d.w) \in SUBSET Watched(c.w)
  BY DEF Trades, Spends
<1>3. m \in Nat /\ n \in Nat /\ n <= m /\ (n = m => Watched(d.w) = Watched(c.w))
  BY <1>2, WatchedFew, FS_Subset
<1>4. d.stopped \/ d.rem < c.rem \/ n # m
  BY <1>3 DEF Advances
<1>5. TurnsLeft(d) = d.rem + n /\ TurnsLeft(c) = c.rem + m
  BY DEF TurnsLeft
<1> HIDE DEF m, n
<1>6. d.stopped \/ d.rem + n <= c.rem + m - 1
  BY <1>1, <1>3, <1>4
<1> QED
  BY <1>1, <1>3, <1>5, <1>6

LEMMA SweepEnds ==
  ASSUME ReplaceQty \subseteq Nat, NEW s \in Side, NEW c \in Sweeps(s), NEW in, NEW mode
  PROVE  Ended(Sweep(c, in, s, mode), in, s)
<1> DEFINE N == c.rem + Cardinality(Slots)
<1>1. PICK f : SweepRun(c, in, s, mode, f)
  BY SweepRuns
<1> DEFINE H == {n \in 0 .. N : Ended(f[n], in, s) \/ TurnsLeft(f[n]) <= N - n}
<1>2. /\ f[0] = c
      /\ \A n \in 1 .. N : f[n] = SweepTurn(f[n - 1], in, s, mode)
      /\ \A n \in 0 .. N : f[n] \in Sweeps(s)
      /\ Sweep(c, in, s, mode) = f[N] /\ N \in Nat
  BY <1>1 DEF SweepRun
<1>3. \A n \in 0 .. N : f[n] \in SweepState /\ f[n].rem \in Nat /\ TurnsLeft(f[n]) \in Nat
  <2> SUFFICES ASSUME NEW n \in 0 .. N
               PROVE  f[n] \in SweepState /\ f[n].rem \in Nat /\ TurnsLeft(f[n]) \in Nat
    OBVIOUS
  <2>1. f[n] \in SweepState /\ f[n].rem \in Nat
    BY <1>2, SweepsParts, SweepFields
  <2> QED
    BY <2>1, WatchedFew DEF TurnsLeft
<1>4. 0 \in H
  <2>1. c.rem \in Nat /\ Cardinality(Slots) \in Nat
    BY SlotAssumption, FS_CardinalityType, SweepsParts, SweepFields
  <2>2. TurnsLeft(c) <= N
    BY <2>1, WatchedFew DEF TurnsLeft
  <2> QED
    BY <1>2, <2>2
<1> HIDE DEF N
<1>5. ASSUME NEW n \in 1 .. N, n - 1 \in H PROVE n \in H
  <2> DEFINE x == f[n - 1]
             y == f[n]
  <2>1. n - 1 \in 0 .. N /\ n \in 0 .. N /\ n \in Int
    BY <1>2
  <2>2. /\ x \in Sweeps(s) /\ x \in SweepState /\ y = SweepTurn(x, in, s, mode)
        /\ TurnsLeft(x) \in Nat /\ TurnsLeft(y) \in Nat
    BY <1>2, <1>3, <2>1
  <2>3. Ended(x, in, s) \/ TurnsLeft(x) <= N - (n - 1)
    BY <1>5
  <2> HIDE DEF x, y
  <2>4. IF Ended(x, in, s) THEN y = x ELSE \E t : Trades(x, y, s, t) /\ Advances(x, y)
    BY <2>2, SweepTurnAdvances
  <2>5. Ended(y, in, s) \/ TurnsLeft(y) <= N - n
    <3>1. CASE Ended(x, in, s)
      BY <2>4, <3>1
    <3>2. CASE ~Ended(x, in, s)
      <4>1. y.stopped \/ TurnsLeft(y) <= TurnsLeft(x) - 1
        BY <2>2, <2>4, <3>2, TurnsLeftFall
      <4>2. y.stopped => Ended(y, in, s)
        BY DEF Ended
      <4>3. TurnsLeft(y) <= TurnsLeft(x) - 1 => TurnsLeft(y) <= N - n
        BY <1>2, <2>1, <2>2, <2>3, <3>2
      <4> QED
        BY <4>1, <4>2, <4>3
    <3> QED
      BY <3>1, <3>2
  <2> QED
    BY <2>1, <2>5 DEF y
<1>6. N \in H
  <2> HIDE DEF H
  <2> QED
    BY <1>2, <1>4, <1>5, TurnsPass
<1>7. TurnsLeft(f[N]) <= N - N => f[N].rem = 0
  <2>1. f[N].rem \in Nat /\ Cardinality(Watched(f[N].w)) \in Nat
    BY <1>2, <1>3, WatchedFew
  <2> QED
    BY <1>2, <2>1 DEF TurnsLeft
<1>8. Ended(f[N], in, s)
  <2>1. f[N].rem = 0 => Ended(f[N], in, s)
    BY DEF Ended
  <2> QED
    BY <1>6, <1>7, <2>1
<1> QED
  BY <1>2, <1>8

(* The subtractions that end a sweep, and the ones an order stopped by     *)
(* cancel_newest leaves out.                                               *)
LEMMA MovedTrans ==
  ASSUME NEW u, NEW v, NEW w, Moved(u, v), Moved(v, w)
  PROVE  Moved(u, w)
BY KinTrans DEF Moved

LEMMA MovedSelf == ASSUME NEW w \in Sim PROVE Moved(w, w)
BY KinSelf DEF Moved

LEMMA MovedPaced ==
  ASSUME NEW s, NEW c \in Sweeps(s), NEW d \in SweepState, Moved(c.w, d.w),
         d.worst = c.worst, d.filled = c.filled
  PROVE  d \in Sweeps(s)
<1>1. Sane(c.w, ZeroRef) /\ Paced(c, s)
  BY SweepsParts
<1>2. Sane(d.w, ZeroRef)
  BY <1>1, KinSane DEF Moved
<1>3. Beyond(c.w, s, c.worst) => Beyond(d.w, s, d.worst)
  BY DEF Moved, Kin, Beyond, Touch, BestHidden
<1> QED
  BY <1>1, <1>2, <1>3 DEF Sweeps, Paced

LEMMA StopsUpdate ==
  ASSUME NEW c \in SweepState, NEW dr \in SUBSET (Side \X Int)
  PROVE  LET u == [c EXCEPT !.notional = 0, !.w.drift = dr]
         IN  /\ u \in SweepState /\ u.w = [c.w EXCEPT !.drift = dr] /\ u.rem = c.rem
             /\ u.worst = c.worst /\ u.filled = c.filled /\ u.stopped = c.stopped
<1>1. c.w \in Sim
  BY SweepFields
<1> DEFINE v == [c.w EXCEPT !.drift = dr]
<1>2. v \in Sim
  BY <1>1 DEF Sim
<1>3. [c EXCEPT !.notional = 0, !.w.drift = dr] = [c EXCEPT !.notional = 0, !.w = v]
  BY DEF SweepState
<1> HIDE DEF v
<1> DEFINE m == [c EXCEPT !.notional = 0]
<1>6. m \in SweepState
  BY DEF SweepState
<1>7. [c EXCEPT !.notional = 0, !.w = v] = [m EXCEPT !.w = v]
  BY DEF SweepState
<1> HIDE DEF m
<1>4. [c EXCEPT !.notional = 0, !.w = v] \in SweepState
  BY <1>2, <1>6, <1>7, StateUpdate
<1>5. LET u == [c EXCEPT !.notional = 0, !.w = v]
      IN  /\ u.w = v /\ u.rem = c.rem
          /\ u.worst = c.worst /\ u.filled = c.filled /\ u.stopped = c.stopped
  BY DEF SweepState
<1> QED
  BY <1>3, <1>4, <1>5 DEF v

(* f holds the states of the subtractions that end a sweep, f[n] after n.  *)
SettleRun(c, s, f) ==
  LET N == Len(c.notes)
  IN  /\ f[0] = IF c.over = NoNote THEN c.w ELSE Subtract(c.w, s, c.over.px, c.over.qty, TRUE)
      /\ \A n \in 1 .. N : f[n] = Subtract(f[n - 1], s, c.notes[n].px, c.notes[n].qty, TRUE)
      /\ \A n \in 0 .. N : f[n] \in Sim /\ Moved(c.w, f[n])
      /\ ~c.stopped => Settled(c, s) = [c EXCEPT !.w = f[N]]

LEMMA SettleRuns ==
  ASSUME NEW s \in Side, NEW c \in Sweeps(s)
  PROVE  \E f : SettleRun(c, s, f)
<1> DEFINE N == Len(c.notes)
           S == {v \in Sim : Moved(c.w, v)}
           late == IF c.over = NoNote THEN c.w ELSE Subtract(c.w, s, c.over.px, c.over.qty, TRUE)
           Step(n, v) == Subtract(v, s, c.notes[n].px, c.notes[n].qty, TRUE)
           Body(f) == [n \in 0 .. N |-> IF n = 0 THEN late ELSE Step(n, f[n - 1])]
           f == CHOOSE x : x = Body(x)
           G == [n \in 1 .. N |-> [v \in S |-> Step(n, v)]]
<1>1. /\ c \in SweepState /\ c.w \in Sim /\ c.notes \in Seq(NoteRecord) /\ c.over \in NoteRecord
  BY SweepsParts, SweepFields
<1>2. ~c.stopped => Settled(c, s) = [c EXCEPT !.w = f[N]]
  BY DEF Settled
<1>3. N \in Nat /\ \A n \in 1 .. N : c.notes[n].px \in Int /\ c.notes[n].qty \in Int
  <2>1. N \in Nat /\ \A n \in 1 .. N : c.notes[n] \in NoteRecord
    BY <1>1
  <2> QED
    BY <2>1 DEF NoteRecord
<1>4. Moved(c.w, late) /\ late \in Sim
  <2>1. c.over.qty \in Int
    BY <1>1 DEF NoteRecord
  <2>2. Moved(c.w, Subtract(c.w, s, c.over.px, c.over.qty, TRUE)) /\ Moved(c.w, c.w)
    BY <1>1, <2>1, SubtractKin, MovedSelf
  <2> QED
    BY <2>2 DEF Moved, Kin
<1>5. \A n \in 1 .. N, v \in S : Step(n, v) \in S
  <2> SUFFICES ASSUME NEW n \in 1 .. N, NEW v \in S PROVE Step(n, v) \in S
    OBVIOUS
  <2>1. Moved(v, Step(n, v))
    BY <1>3, SubtractKin
  <2> HIDE DEF Step
  <2>2. Moved(c.w, Step(n, v))
    BY <2>1, MovedTrans
  <2> QED
    BY <2>2 DEF Moved, Kin
<1> HIDE DEF late, N, Step
<1>6. G \in [1 .. N -> [S -> S]] /\ \A n \in 1 .. N, v \in S : G[n][v] = Step(n, v)
  BY <1>5
<1>7. late \in S
  BY <1>4
<1> HIDE DEF G, S
<1>8. PICK g : Turns(N, S, late, G, g)
  BY <1>3, <1>6, <1>7, LoopExists
<1>9. g = Body(g)
  <2>1. \A n \in 1 .. N : n - 1 \in 0 .. N /\ g[n] = Step(n, g[n - 1])
    BY <1>3, <1>6, <1>8 DEF Turns
  <2>2. \A n \in 0 .. N : g[n] = IF n = 0 THEN late ELSE Step(n, g[n - 1])
    BY <1>3, <1>8, <2>1 DEF Turns
  <2>3. g = [n \in 0 .. N |-> g[n]]
    BY <1>8 DEF Turns
  <2> QED
    BY <2>2, <2>3
<1> HIDE DEF Body
<1>10. f = Body(f)
  BY <1>9, Zenon
<1> HIDE DEF f
<1>11. f[0] = late /\ \A n \in 1 .. N : f[n] = Step(n, f[n - 1])
  BY <1>3, <1>10 DEF Body
<1>12. \A n \in 1 .. N : f[n - 1] \in S => f[n] \in S
  BY <1>3, <1>5, <1>11
<1>13. \A n \in 0 .. N : f[n] \in S
  BY <1>3, <1>7, <1>11, <1>12, LoopKeeps
<1>14. SettleRun(c, s, f)
  BY <1>2, <1>11, <1>13 DEF SettleRun, late, N, Step, S
<1> QED
  BY <1>14

LEMMA SettledKeeps ==
  ASSUME NEW s \in Side, NEW c \in Sweeps(s)
  PROVE  LET d == Settled(c, s)
         IN  d \in Sweeps(s) /\ Moved(c.w, d.w) /\ d.rem = c.rem /\ d.stopped = c.stopped
<1> DEFINE N == Len(c.notes)
           dr == c.w.drift \union {<<s, c.notes[i].px>> : i \in DOMAIN c.notes}
           d1 == [c EXCEPT !.notional = 0, !.w.drift = dr]
<1>1. /\ c \in SweepState /\ c.w \in Sim /\ c.notes \in Seq(NoteRecord) /\ N \in Nat
  BY SweepsParts, SweepFields
<1>2. CASE c.stopped
  <2>1. Settled(c, s) = d1
    BY <1>2 DEF Settled
  <2>2. dr \in SUBSET (Side \X Int)
    <3>1. \A i \in 1 .. N : c.notes[i] \in NoteRecord
      BY <1>1
    <3>2. \A i \in DOMAIN c.notes : <<s, c.notes[i].px>> \in Side \X Int
      <4>1. DOMAIN c.notes = 1 .. N
        BY <1>1
      <4>2. \A i \in 1 .. N : c.notes[i].px \in Int
        BY <3>1 DEF NoteRecord
      <4> QED
        BY <4>1, <4>2
    <3> QED
      BY <1>1, <3>2, SimFields
  <2> HIDE DEF dr
  <2>3. /\ d1 \in SweepState /\ d1.w = [c.w EXCEPT !.drift = dr] /\ d1.rem = c.rem
        /\ d1.worst = c.worst /\ d1.filled = c.filled /\ d1.stopped = c.stopped
    BY <1>1, <2>2, StopsUpdate
  <2> HIDE DEF d1
  <2>4. Kin(c.w, d1.w)
    <3>1. c.w.hidden \in Seq(Hidden) /\ c.w.synced \in SUBSET Slots
      BY <1>1, SimFields
    <3>2. Kin(c.w, [c.w EXCEPT !.drift = dr])
      BY <1>1, <2>2, <3>1, BookkeepingKin
    <3> QED
      BY <2>3, <3>2
  <2>5. Moved(c.w, d1.w)
    BY <1>1, <2>3, <2>4 DEF Moved, Sim
  <2> QED
    BY <2>1, <2>3, <2>5, MovedPaced
<1>3. CASE ~c.stopped
  <2>1. PICK f : SettleRun(c, s, f)
    BY SettleRuns
  <2> DEFINE d2 == [c EXCEPT !.w = f[N]]
  <2>2. f[N] \in Sim /\ Moved(c.w, f[N]) /\ Settled(c, s) = d2
    BY <1>1, <1>3, <2>1 DEF SettleRun
  <2>3. /\ d2 \in SweepState /\ d2.w = f[N] /\ d2.rem = c.rem /\ d2.worst = c.worst
        /\ d2.filled = c.filled /\ d2.stopped = c.stopped
    BY <1>1, <2>2, StateUpdate
  <2> HIDE DEF d2
  <2> QED
    BY <2>2, <2>3, MovedPaced
<1> QED
  BY <1>2, <1>3

LEMMA CrossKeeps ==
  ASSUME NEW w, Sane(w, ZeroRef), NEW in, in.side \in Side, in.qty \in Nat, NEW mode
  PROVE  /\ Cross(w, in, mode) \in Sweeps(Opposite(in.side))
         /\ ReplaceQty \subseteq Nat => Ended(Cross(w, in, mode), in, Opposite(in.side))
<1> DEFINE s == Opposite(in.side)
           fresh == [w EXCEPT !.synced = {}]
           c == SweepFrom(fresh, in.qty)
           d == Sweep(c, in, s, mode)
<1>1. s \in Side
  BY DEF Opposite, Side
<1>2. w \in Sim
  BY DEF Sane
<1>3. Kin(w, fresh)
  <2>1. /\ w.hidden \in Seq(Hidden) /\ {} \in SUBSET Slots /\ w.drift \in SUBSET (Side \X Int)
    BY <1>2, SimFields
  <2> QED
    BY <1>2, <2>1, BookkeepingKin
<1> HIDE DEF fresh
<1>4. Sane(fresh, ZeroRef) /\ fresh \in Sim
  BY <1>3, KinSane DEF Kin
<1>5. c \in SweepState
  <2>1. NoTick \in Int /\ NoNote \in NoteRecord /\ <<>> \in Seq(NoteRecord)
    BY BandAssumption DEF NoTick, NoNote, NoteRecord
  <2> QED
    BY <1>4, <2>1 DEF SweepFrom, SweepState
<1>6. c.w = fresh /\ c.filled = 0
  BY DEF SweepFrom
<1> HIDE DEF c
<1>7. c \in Sweeps(s)
  BY <1>4, <1>5, <1>6 DEF Sweeps, Paced
<1> HIDE DEF s
<1>8. d \in Sweeps(s)
  BY <1>1, <1>7, SweepKeeps
<1>9. ReplaceQty \subseteq Nat => Ended(d, in, s)
  BY <1>1, <1>7, SweepEnds
<1> DEFINE e == Settled(d, s)
<1>10. Cross(w, in, mode) = e
  BY DEF Cross, d, c, fresh, s
<1> HIDE DEF d
<1>11. e \in Sweeps(s) /\ Moved(d.w, e.w) /\ e.rem = d.rem /\ e.stopped = d.stopped
  BY <1>1, <1>8, SettledKeeps
<1> HIDE DEF e
<1>12. Touch(e.w, s) = Touch(d.w, s) /\ BestHidden(e.w, s) = BestHidden(d.w, s)
  BY <1>11 DEF Moved, Kin, Touch, BestHidden
<1>13. Ended(d, in, s) => Ended(e, in, s)
  BY <1>11, <1>12 DEF Ended
<1> QED
  BY <1>9, <1>10, <1>11, <1>13 DEF s

----------------------------------------------------------------------------
(* Orders that come to rest.                                               *)

(* Icebergs whose orders stay as they are stay covered.                    *)
LEMMA CoveredStays ==
  ASSUME NEW w \in Sim, GoodBook(w.book), Covered(w, ZeroRef), NEW v,
         v.icebergs = w.icebergs,
         \A i \in DOMAIN w.icebergs :
           v.book.id[w.icebergs[i].ref] = w.book.id[w.icebergs[i].ref],
         \A i \in w.book.live :
           /\ v.book.slot[i].side = w.book.slot[i].side
           /\ v.book.slot[i].px = w.book.slot[i].px
           /\ v.book.slot[i].qty = w.book.slot[i].qty
  PROVE  Covered(v, ZeroRef)
<1>1. ASSUME NEW i \in DOMAIN w.icebergs PROVE CoveredAt(v, ZeroRef, i)
  <2> DEFINE e == w.icebergs[i]
             g == w.book.id[e.ref]
  <2>1. /\ e.hidden > 0
        /\ g # NullIndex \/ e.ref = ZeroRef
        /\ g # NullIndex => /\ w.book.slot[g].side = e.side
                            /\ w.book.slot[g].px = e.px
                            /\ w.book.slot[g].qty <= e.display
        /\ \A j \in DOMAIN w.icebergs : w.icebergs[j].ref = e.ref => j = i
    BY <1>1 DEF Covered
  <2>2. e.ref \in Ref
    <3>1. e \in Iceberg
      BY <1>1, SimFields
    <3> QED
      BY <3>1, SimAssumption DEF Iceberg
  <2>3. g # NullIndex => g \in w.book.live
    BY <2>2, Resolves
  <2>4. v.book.id[e.ref] = g
    BY <1>1
  <2>5. v.icebergs[i] = e
    OBVIOUS
  <2> HIDE DEF g, e
  <2> QED
    BY <2>1, <2>3, <2>4, <2>5 DEF CoveredAt
<1> QED
  BY <1>1, CoveredEach

LEMMA RegisteredRests ==
  ASSUME NEW w \in Sim, Covered(w, ZeroRef), NEW i \in DOMAIN w.icebergs
  PROVE  w.icebergs[i].ref \in External /\ w.book.id[w.icebergs[i].ref] # NullIndex
<1>1. w.icebergs[i] \in Iceberg
  BY SimFields
<1>2. w.icebergs[i].ref \in External /\ w.icebergs[i].ref # ZeroRef
  BY <1>1, SimAssumption, RefAssumption DEF Iceberg
<1> QED
  BY <1>2 DEF Covered

(* An order inserted in slot h, tracked when it is the strategy's.         *)
LEMMA SeatSane ==
  ASSUME NEW w, Sane(w, ZeroRef), NEW h \in Slots \ w.book.live, NEW r \in Ref,
         w.book.id[r] = NullIndex, NEW s \in Side, NEW q \in Int, NEW t \in Ticks,
         NEW v \in Sim, Inserted(w.book, v.book, h, r, s, q, t), v.icebergs = w.icebergs,
         \A i \in Slots \ {h} : v.tracked[i] = w.tracked[i],
         v.tracked[h].live = (r \in Strategy),
         r \in Strategy => /\ v.tracked[h].ref = r /\ v.tracked[h].side = s
                           /\ v.tracked[h].px = t /\ v.tracked[h].rem = q
  PROVE  Sane(v, ZeroRef)
<1>1. /\ w \in Sim /\ GoodBook(w.book) /\ Mirrored(w) /\ Placed(w)
      /\ FullReserves => Covered(w, ZeroRef)
  BY DEF Sane
<1>2. GoodBook(v.book)
  BY DEF Inserted
<1>3. Mirrored(v)
  <2>1. \A i \in Slots \ {h} :
          /\ v.tracked[i] = w.tracked[i]
          /\ i \in v.book.live <=> i \in w.book.live
          /\ i \in w.book.live =>
               /\ v.book.slot[i].ref = w.book.slot[i].ref
               /\ v.book.slot[i].side = w.book.slot[i].side
               /\ v.book.slot[i].px = w.book.slot[i].px
               /\ v.book.slot[i].qty = w.book.slot[i].qty
    BY DEF Inserted
  <2>2. /\ h \in v.book.live /\ v.book.slot[h].ref = r /\ v.book.slot[h].side = s
        /\ v.book.slot[h].px = t /\ v.book.slot[h].qty = q
    BY DEF Inserted
  <2>3. v.tracked[h].live = (h \in v.book.live /\ v.book.slot[h].ref \in Strategy)
    <3>1. (h \in v.book.live /\ v.book.slot[h].ref \in Strategy) = (r \in Strategy)
      BY <2>2
    <3> QED
      BY <3>1, Zenon
  <2>4. v.tracked[h].live =>
          /\ v.tracked[h].ref = v.book.slot[h].ref /\ v.tracked[h].side = v.book.slot[h].side
          /\ v.tracked[h].px = v.book.slot[h].px /\ v.tracked[h].rem = v.book.slot[h].qty
    BY <2>2, Zenon
  <2> QED
    BY <1>1, <2>1, <2>3, <2>4, MirrorMoves
<1>4. Placed(v)
  <2> SUFFICES ASSUME NEW i \in DOMAIN w.icebergs
               PROVE  Page(w.icebergs[i].px) \in v.book.page[w.icebergs[i].side]
    BY DEF Placed
  <2>1. w.icebergs[i].side \in Side
    <3>1. w.icebergs[i] \in Iceberg
      BY <1>1, SimFields
    <3> QED
      BY <3>1 DEF Iceberg
  <2>2. Page(w.icebergs[i].px) \in w.book.page[w.icebergs[i].side]
    BY <1>1 DEF Placed
  <2> QED
    BY <2>1, <2>2 DEF Inserted
<1>5. ASSUME FullReserves PROVE Covered(v, ZeroRef)
  <2>1. Covered(w, ZeroRef)
    BY <1>1, <1>5
  <2>2. \A i \in DOMAIN w.icebergs :
          v.book.id[w.icebergs[i].ref] = w.book.id[w.icebergs[i].ref]
    <3> SUFFICES ASSUME NEW i \in DOMAIN w.icebergs
                 PROVE  v.book.id[w.icebergs[i].ref] = w.book.id[w.icebergs[i].ref]
      OBVIOUS
    <3> DEFINE x == w.icebergs[i].ref
    <3>1. x \in External /\ w.book.id[x] # NullIndex
      BY <1>1, <2>1, RegisteredRests
    <3> HIDE DEF x
    <3>2. x \in Ref /\ x # r
      BY <3>1, SimAssumption
    <3>3. v.book.id[x] = w.book.id[x]
      BY <3>2 DEF Inserted
    <3> QED
      BY <3>3 DEF x
  <2>3. \A i \in w.book.live : /\ v.book.slot[i].side = w.book.slot[i].side
                               /\ v.book.slot[i].px = w.book.slot[i].px
                               /\ v.book.slot[i].qty = w.book.slot[i].qty
    BY DEF Inserted
  <2> QED
    BY <1>1, <2>1, <2>2, <2>3, CoveredStays
<1> QED
  BY <1>2, <1>3, <1>4, <1>5 DEF Sane

(* An order the book accepts.                                              *)
LEMMA Accepted ==
  ASSUME NEW w, Sane(w, ZeroRef), NEW r \in Ref, NEW s \in Side, NEW q \in Int, NEW t \in Int,
         AddError(w.book, r, s, q, t) = "ok", NEW h \in Slots \ w.book.live
  PROVE  /\ t \in Ticks /\ q > 0 /\ w.book.id[r] = NullIndex
         /\ Inserted(w.book, Insert(w.book, h, r, s, q, t), h, r, s, q, t)
         /\ Insert(w.book, h, r, s, q, t) \in Book
<1>1. w \in Sim /\ GoodBook(w.book)
  BY DEF Sane
<1>2. /\ q > 0 /\ InBand(t) /\ Claimable(w.book, s, t) /\ Find(w.book, r) = NullIndex
  BY DEF AddError
<1>3. t \in Ticks /\ w.book.id[r] = NullIndex
  BY <1>2, TickInBand DEF Find
<1>4. Inserted(w.book, Insert(w.book, h, r, s, q, t), h, r, s, q, t)
  BY <1>1, <1>2, <1>3, InsertGood
<1>5. GoodBook(Insert(w.book, h, r, s, q, t))
  BY <1>4 DEF Inserted
<1> QED
  BY <1>2, <1>3, <1>4, <1>5, GoodParts

LEMMA TrackSane ==
  ASSUME NEW w, Sane(w, ZeroRef), NEW r \in Strategy, NEW s \in Side, NEW q \in Int,
         NEW t \in Ticks, NEW h \in Slots \ w.book.live, w.book.id[r] = NullIndex,
         NEW b \in Book, Inserted(w.book, b, h, r, s, q, t)
  PROVE  LET v == Track([w EXCEPT !.book = b], h, r, s, q, t)
         IN  Sane(v, ZeroRef) /\ v.book = b /\ v.hidden = w.hidden
<1> DEFINE u == [w EXCEPT !.book = b]
           room == t \in u.mapped[s] \/ Cardinality(u.mapped[s]) < MapSize
           n == QtyAt(u, s, t) - q
           e == [live |-> TRUE, linked |-> room, ref |-> r, side |-> s, px |-> t,
                 rem |-> q, ahead |-> n]
           k == [u.tracked EXCEPT ![h] = e]
           m1 == IF room THEN u.mapped[s] \union {t} ELSE u.mapped[s]
           m2 == IF room THEN u.fallback[s] ELSE u.fallback[s] \union {t}
           mp == [u.mapped EXCEPT ![s] = m1]
           fb == [u.fallback EXCEPT ![s] = m2]
           v == Track(u, h, r, s, q, t)
<1>1. w \in Sim /\ r \in Ref /\ t \in Int
  BY TicksInt DEF Sane, Strategy
<1>2. u \in Sim /\ u.book = b /\ u.tracked = w.tracked /\ u.icebergs = w.icebergs
      /\ u.hidden = w.hidden
  BY <1>1 DEF Sim
<1> HIDE DEF u
<1>3. room \in BOOLEAN
  OBVIOUS
<1>4. n \in Int
  BY <1>1, <1>2, TotalsInt
<1>5. v = [u EXCEPT !.tracked = k, !.mapped = mp, !.fallback = fb]
  BY <1>2 DEF Track, Sim
<1> HIDE DEF room, n
<1>6. e \in Tracker
  BY <1>1, <1>3, <1>4 DEF Tracker
<1>7. e.live = TRUE /\ e.ref = r /\ e.side = s /\ e.px = t /\ e.rem = q
  OBVIOUS
<1> HIDE DEF e
<1>8. /\ k \in [Slots -> Tracker] /\ k[h] = e
      /\ \A i \in Slots \ {h} : k[i] = w.tracked[i]
  BY <1>1, <1>2, <1>6, SimFields
<1>9. u.mapped \in [Side -> SUBSET Ticks] /\ u.fallback \in [Side -> SUBSET Ticks]
  BY <1>2, SimFields
<1>10. m1 \in SUBSET Ticks /\ m2 \in SUBSET Ticks
  BY <1>9
<1> HIDE DEF m1, m2
<1>11. mp \in [Side -> SUBSET Ticks] /\ fb \in [Side -> SUBSET Ticks]
  BY <1>9, <1>10
<1> HIDE DEF k, mp, fb, v
<1>12. v \in Sim
  BY <1>2, <1>5, <1>8, <1>11 DEF Sim
<1>13. v.book = b /\ v.icebergs = w.icebergs /\ v.tracked = k /\ v.hidden = w.hidden
  BY <1>2, <1>5 DEF Sim
<1>14. /\ \A i \in Slots \ {h} : v.tracked[i] = w.tracked[i]
       /\ v.tracked[h].live = (r \in Strategy)
       /\ v.tracked[h].ref = r /\ v.tracked[h].side = s
       /\ v.tracked[h].px = t /\ v.tracked[h].rem = q
  <2>1. v.tracked[h] = e
    BY <1>8, <1>13
  <2>2. (r \in Strategy) = TRUE
    OBVIOUS
  <2>3. v.tracked[h].live = (r \in Strategy)
    BY <1>7, <2>1, <2>2
  <2> QED
    BY <1>7, <1>8, <1>13, <2>1, <2>3
<1>15. Sane(v, ZeroRef)
  BY <1>1, <1>12, <1>13, <1>14, SeatSane
<1> QED
  BY <1>13, <1>15 DEF v, u

(* The other side's best price and hidden orders stay as they are.         *)
Leaves(w, v, s) == Touch(v, s) = Touch(w, s) /\ BestHidden(v, s) = BestHidden(w, s)

(* A remainder that hides.                                                 *)
LEMMA HideKin ==
  ASSUME NEW w \in Sim, NEW e \in Hidden
  PROVE  LET v == [w EXCEPT !.hidden = Append(@, e)]
         IN  Kin(w, v) /\ \A s : s # e.side => Leaves(w, v, s)
<1> DEFINE hd == Append(w.hidden, e)
           v == [w EXCEPT !.hidden = hd]
           N == Len(w.hidden)
<1>1. w.hidden \in Seq(Hidden)
  BY SimFields
<1>2. /\ hd \in Seq(Hidden) /\ Len(hd) = N + 1 /\ hd[N + 1] = e
      /\ \A i \in 1 .. N : hd[i] = w.hidden[i]
  BY <1>1
<1>3. N \in Nat /\ DOMAIN w.hidden = 1 .. N /\ DOMAIN hd = 1 .. (N + 1)
  BY <1>1, <1>2
<1> HIDE DEF hd
<1>4. Kin(w, v)
  BY <1>2, SimFields, BookkeepingKin
<1>5. v.hidden = hd /\ v.book = w.book
  BY DEF Sim
<1> HIDE DEF v
<1>6. ASSUME NEW s, s # e.side PROVE Leaves(w, v, s)
  <2>1. {j \in DOMAIN v.hidden : v.hidden[j].side = s /\ v.hidden[j].qty # 0}
          = {j \in DOMAIN w.hidden : w.hidden[j].side = s /\ w.hidden[j].qty # 0}
    BY <1>2, <1>3, <1>5, <1>6
  <2> DEFINE J == {j \in DOMAIN w.hidden : w.hidden[j].side = s /\ w.hidden[j].qty # 0}
  <2>2. \A j \in J : v.hidden[j].px = w.hidden[j].px
    BY <1>2, <1>3, <1>5
  <2>3. BestHidden(v, s) = BestIn(s, {v.hidden[j].px : j \in J})
    BY <2>1 DEF BestHidden
  <2>4. BestHidden(w, s) = BestIn(s, {w.hidden[j].px : j \in J})
    BY DEF BestHidden
  <2> HIDE DEF J
  <2>5. {v.hidden[j].px : j \in J} = {w.hidden[j].px : j \in J}
    BY <2>2
  <2> QED
    BY <1>5, <2>3, <2>4, <2>5 DEF Leaves, Touch
<1> QED
  BY <1>4, <1>6 DEF v, hd

----------------------------------------------------------------------------
(* Decisions.                                                              *)

LEMMA InsertLeaves ==
  ASSUME NEW w, NEW v, NEW h, NEW r, NEW s \in Side, NEW q, NEW t,
         w \in Sim, v.book = Insert(w.book, h, r, s, q, t), v.hidden = w.hidden
  PROVE  Leaves(w, v, Opposite(s))
<1>1. Opposite(s) \in Side /\ Opposite(s) # s
  BY DEF Opposite, Side
<1>2. w.book.best \in [Side -> Ticks \union {NoTick}]
  BY SimFields, BookFields
<1>3. v.book.best[Opposite(s)] = w.book.best[Opposite(s)]
  BY <1>1, <1>2 DEF Insert
<1>4. BestHidden(v, Opposite(s)) = BestHidden(w, Opposite(s))
  BY DEF BestHidden
<1> QED
  BY <1>3, <1>4 DEF Leaves, Touch

(* What every outcome of a decision that sends c to the end is.            *)
Ends(o, c, s) ==
  /\ Sane(o.w, ZeroRef) /\ o.filled = c.filled /\ o.worst = c.worst /\ Leaves(c.w, o.w, s)

LEMMA AckEnds ==
  ASSUME NEW c \in SweepState, NEW s, NEW kind, NEW v, Sane(v, ZeroRef), Leaves(c.w, v, s),
         NEW rests, NEW cancelled
  PROVE  Ends(Ack(kind, v, c, rests, cancelled), c, s)
BY DEF Ends, Ack

LEMMA RemainderEnds ==
  ASSUME NEW in, in.side \in Side, in.px \in Int, in.offset \in Int, NEW r \in Strategy,
         NEW peg \in PegKind, NEW c \in SweepState, Sane(c.w, ZeroRef),
         NEW o \in Remainder(c, r, in, peg)
  PROVE  Ends(o, c, Opposite(in.side))
<1> DEFINE w == c.w
           s == in.side
           p == Opposite(s)
           rests == in.type \notin {"market", "ioc"} /\ c.rem > 0
           kind == IF c.filled > 0 THEN "partial_then_rest" ELSE "rested"
           last == IF c.filled > 0 /\ c.rem = 0 THEN "filled" ELSE "partial_then_cancelled"
           entry == [ref |-> r, side |-> s, px |-> in.px, qty |-> c.rem,
                     peg |-> peg, offset |-> in.offset]
           seated(h) == Track([w EXCEPT !.book = Insert(@, h, r, s, c.rem, in.px)],
                              h, r, s, c.rem, in.px)
<1>1. w \in Sim /\ c.rem \in Nat
  BY SweepFields
<1>2. Leaves(w, w, p)
  BY DEF Leaves
<1>3. \/ o = Ack("rejected_unknown", w, c, 0, 0)
      \/ /\ AddError(w.book, r, s, c.rem, in.px) = "ok"
         /\ \E h \in Slots \ w.book.live : o = Ack(kind, seated(h), c, c.rem, 0)
      \/ o = Ack(kind, [w EXCEPT !.hidden = Append(@, entry)], c, c.rem, 0)
      \/ o = Ack(last, w, c, 0, c.rem)
  BY DEF Remainder
<1>4. CASE o = Ack("rejected_unknown", w, c, 0, 0)
  BY <1>2, <1>4, AckEnds
<1>5. CASE AddError(w.book, r, s, c.rem, in.px) = "ok"
           /\ \E h \in Slots \ w.book.live : o = Ack(kind, seated(h), c, c.rem, 0)
  <2>1. PICK h \in Slots \ w.book.live : o = Ack(kind, seated(h), c, c.rem, 0)
    BY <1>5
  <2> DEFINE b == Insert(w.book, h, r, s, c.rem, in.px)
             q == c.rem
             t == in.px
             v == Track([w EXCEPT !.book = b], h, r, s, q, t)
  <2>2. q \in Int /\ r \in Ref /\ t \in Int
    BY <1>1 DEF Strategy
  <2>3. seated(h) = v
    BY <1>1 DEF Sim
  <2>4. Sane(w, ZeroRef) /\ AddError(w.book, r, s, q, t) = "ok"
    BY <1>5
  <2>5. b = Insert(w.book, h, r, s, q, t)
    OBVIOUS
  <2> HIDE DEF b, q, t, w, s, v
  <2>6. /\ t \in Ticks /\ q > 0 /\ w.book.id[r] = NullIndex
        /\ Inserted(w.book, b, h, r, s, q, t) /\ b \in Book
    BY <2>2, <2>4, <2>5, Accepted DEF s
  <2>7. Sane(v, ZeroRef) /\ v.book = b /\ v.hidden = w.hidden
    BY <2>2, <2>4, <2>6, TrackSane DEF v, s
  <2>8. Leaves(w, v, p)
    BY <1>1, <2>5, <2>7, InsertLeaves DEF s
  <2> HIDE DEF seated, kind, p
  <2>9. Ends(Ack(kind, v, c, c.rem, 0), c, p)
    BY <2>7, <2>8, AckEnds DEF w
  <2> QED
    BY <2>1, <2>3, <2>9 DEF p, s
<1>6. CASE o = Ack(kind, [w EXCEPT !.hidden = Append(@, entry)], c, c.rem, 0)
  <2> DEFINE v == [w EXCEPT !.hidden = Append(@, entry)]
  <2>1. c.rem \in HeldQty
    BY <1>1 DEF HeldQty
  <2>2. entry \in Hidden /\ entry.side = s
    BY <2>1 DEF Hidden
  <2>3. p # s
    BY DEF Opposite, Side
  <2> HIDE DEF entry
  <2>4. Kin(w, v) /\ Leaves(w, v, p)
    BY <1>1, <2>2, <2>3, HideKin
  <2>5. Sane(v, ZeroRef)
    BY <2>4, KinSane
  <2> HIDE DEF v
  <2> QED
    BY <1>6, <2>4, <2>5, AckEnds DEF v
<1>7. CASE o = Ack(last, w, c, 0, c.rem)
  BY <1>2, <1>7, AckEnds
<1> QED
  BY <1>3, <1>4, <1>5, <1>6, <1>7

LEMMA PricedOrder ==
  ASSUME NEW in \in Inbounds, NEW t \in Int, NEW x
  PROVE  LET u == [in EXCEPT !.px = t, !.non_displayed = x]
         IN  /\ u.side = in.side /\ u.qty = in.qty /\ u.px = t /\ u.offset = in.offset
             /\ u.type = in.type
             /\ u.side \in Side /\ u.qty \in Nat /\ u.offset \in Int
<1>1. in \in [side : Side, qty : Nat, px : Int, type : OrderType, peg : PegKind,
              offset : Int, non_displayed : BOOLEAN]
  BY SimAssumption
<1> QED
  BY <1>1

LEMMA PegTyped ==
  ASSUME NEW in \in Inbounds
  PROVE  PegOf(in) \in PegKind
<1>1. in.peg \in PegKind
  BY SimAssumption
<1> QED
  BY <1>1 DEF PegOf, PegKind

LEMMA LeavesBeyond ==
  ASSUME NEW w, NEW v, NEW s, Leaves(w, v, s), NEW p, Beyond(w, s, p)
  PROVE  Beyond(v, s, p)
BY DEF Leaves, Beyond

(* A remainder that rests has met nothing displayed on the other side.     *)
LEMMA OutcomesUncrossed ==
  ASSUME ReplaceQty \subseteq Nat, NEW w0, Sane(w0, ZeroRef), NEW r \in Strategy,
         NEW in0 \in Inbounds, ~in0.non_displayed, PegOf(in0) = "none",
         in0.type \in {"day_limit", "post_only"}, NEW mode,
         NEW stop, ~stop, NEW o \in Outcomes(w0, r, in0, mode, stop), o.rests > 0
  PROVE  LET s == Opposite(in0.side)
         IN  Touch(o.w, s) = NoTick \/ Better(s, in0.px, Touch(o.w, s))
<1> DEFINE w    == Repeg(w0)
           peg  == PegOf(in0)
           px   == IF peg = "none" THEN in0.px ELSE Reference(w, peg, in0.offset)
           in   == [in0 EXCEPT !.px = px, !.non_displayed = @ \/ peg # "none"]
           none == SweepFrom(w, in.qty)
           hits == ~stop /\ Crosses(w, in)
           c    == IF hits THEN Cross(w, in, mode) ELSE none
           s    == Opposite(in0.side)
           t    == Touch(c.w, s)
           hid  == BestHidden(c.w, s)
<1>1. w0 \in Sim
  BY DEF Sane
<1>2. Sane(w, ZeroRef) /\ w \in Sim
  <2>1. Kin(w0, w)
    BY <1>1, RepegKin
  <2> QED
    BY <2>1, KinSane DEF Kin
<1> HIDE DEF w
<1>3. peg \in PegKind /\ px = in0.px /\ in0.px \in Int
  BY PegTyped, SimAssumption
<1>4. /\ in.side = in0.side /\ in.qty = in0.qty /\ in.px = in0.px /\ in.px \in Int
      /\ in.side \in Side /\ in.qty \in Nat /\ in.offset \in Int /\ in.type = in0.type
  <2> DEFINE x == in0.non_displayed \/ peg # "none"
             u == [in0 EXCEPT !.px = px, !.non_displayed = x]
  <2> HIDE DEF px, peg
  <2>1. in = u
    OBVIOUS
  <2> HIDE DEF x, in
  <2>2. /\ u.side = in0.side /\ u.qty = in0.qty /\ u.px = px /\ u.type = in0.type
        /\ u.side \in Side /\ u.qty \in Nat /\ u.offset \in Int
    BY <1>3, PricedOrder DEF u
  <2> HIDE DEF u
  <2> QED
    BY <1>3, <2>1, <2>2
<1>5. \/ o = Ack("rejected_unknown", w, none, 0, 0)
      \/ o = Ack("rejected_would_cross", w, none, 0, 0)
      \/ o = Ack("rejected_stp", c.w, c, 0, c.rem)
      \/ ~c.stopped /\ o \in Remainder(c, r, in, peg)
  BY DEF Outcomes, w
<1> HIDE DEF px, peg, in
<1>6. ~c.stopped /\ o \in Remainder(c, r, in, peg)
  <2>1. \A kind, v, x, n : Ack(kind, v, x, 0, n).rests = 0
    BY DEF Ack
  <2> HIDE DEF none, c
  <2> QED
    BY <1>5, <2>1
<1>7. none \in SweepState /\ none.w = w /\ none.filled = 0
  <2>1. NoTick \in Int /\ NoNote \in NoteRecord /\ <<>> \in Seq(NoteRecord)
    BY BandAssumption DEF NoTick, NoNote, NoteRecord
  <2> QED
    BY <1>2, <1>4, <2>1 DEF SweepFrom, SweepState
<1>8. /\ s \in Side /\ s = Opposite(in.side)
  BY <1>4 DEF Opposite, Side
<1>9. Cross(w, in, mode) \in Sweeps(s) /\ Ended(Cross(w, in, mode), in, s)
  BY <1>2, <1>4, <1>8, CrossKeeps
<1>10. none \in Sweeps(s)
  BY <1>2, <1>7 DEF Sweeps, Paced
<1>11. ~hits => Touch(w, s) = NoTick \/ Better(s, in.px, Touch(w, s))
  BY <1>4, <1>8 DEF Crosses
<1> HIDE DEF s, none
<1>12. c \in Sweeps(s) /\ c.w \in Sim
  <2>1. c \in Sweeps(s)
    BY <1>9, <1>10
  <2> HIDE DEF c
  <2> QED
    BY <2>1, SweepsParts
<1>13. c.rem > 0
  <2> HIDE DEF c
  <2>1. c.rem \in Nat
    BY <1>12, SweepsParts, SweepFields
  <2>2. \E kind, v, n, m : o = Ack(kind, v, c, n, m) /\ n \in {0, c.rem}
    BY <1>6, ZenonT(30) DEF Remainder
  <2>3. o.rests \in {0, c.rem}
    BY <2>2 DEF Ack
  <2> QED
    BY <2>1, <2>3
<1>14. t = NoTick \/ Better(s, in.px, t)
  <2>1. CASE ~hits
    BY <1>7, <1>11, <2>1
  <2>2. CASE hits
    <3>1. Ended(c, in, s)
      BY <1>9, <2>2
    <3>2. t \in Int /\ hid \in Int
      BY <1>8, <1>12, AimBeyond
    <3> HIDE DEF c, hits
    <3>3. in.type # "market" /\ c.rem # 0
      BY <1>4, <1>13
    <3>4. LET better == hid # NoTick /\ (t = NoTick \/ Better(s, hid, t))
              aim    == IF better THEN hid ELSE t
          IN  aim = NoTick \/ Better(s, in.px, aim)
      BY <1>6, <3>1, <3>3 DEF Ended
    <3> HIDE DEF t, hid
    <3> QED
      BY <1>4, <3>2, <3>4 DEF Better
  <2> QED
    BY <2>1, <2>2
<1>15. Leaves(c.w, o.w, s)
  <2>1. c \in SweepState /\ Sane(c.w, ZeroRef)
    BY <1>12, SweepsParts
  <2> HIDE DEF c
  <2>2. Ends(o, c, Opposite(in.side))
    BY <1>3, <1>4, <1>6, <2>1, RemainderEnds
  <2> QED
    BY <1>8, <2>2 DEF Ends
<1> HIDE DEF c
<1> QED
  BY <1>4, <1>14, <1>15 DEF Leaves, s

(* A decision leaves a sane state and, on the other side, no better price  *)
(* than the worst it paid.                                                 *)
LEMMA OutcomesSane ==
  ASSUME NEW w0, Sane(w0, ZeroRef), NEW r \in Strategy, NEW in0 \in Inbounds, NEW mode,
         NEW halt, NEW o \in Outcomes(w0, r, in0, mode, halt)
  PROVE  /\ Sane(o.w, ZeroRef)
         /\ FullReserves /\ o.filled > 0 => Beyond(o.w, Opposite(in0.side), o.worst)
<1> DEFINE w    == Repeg(w0)
           peg  == PegOf(in0)
           px   == IF peg = "none" THEN in0.px ELSE Reference(w, peg, in0.offset)
           in   == [in0 EXCEPT !.px = px, !.non_displayed = @ \/ peg # "none"]
           none == SweepFrom(w, in.qty)
           hits == ~halt /\ Crosses(w, in)
           c    == IF hits THEN Cross(w, in, mode) ELSE none
           s    == Opposite(in0.side)
<1>1. w0 \in Sim
  BY DEF Sane
<1>2. Sane(w, ZeroRef) /\ w \in Sim
  <2>1. Kin(w0, w)
    BY <1>1, RepegKin
  <2> QED
    BY <2>1, KinSane DEF Kin
<1> HIDE DEF w
<1>3. peg \in PegKind
  BY PegTyped
<1>4. px \in Int
  <2>1. in0.px \in Int /\ in0.offset \in Int
    BY SimAssumption
  <2>2. Reference(w, peg, in0.offset) \in Int
    BY <1>2, <2>1, ReferenceTyped
  <2> QED
    BY <2>1, <2>2
<1>5. /\ in.side = in0.side /\ in.qty = in0.qty /\ in.px \in Int
      /\ in.side \in Side /\ in.qty \in Nat /\ in.offset \in Int
  <2> DEFINE x == in0.non_displayed \/ peg # "none"
             u == [in0 EXCEPT !.px = px, !.non_displayed = x]
  <2> HIDE DEF px, peg
  <2>1. in = u
    OBVIOUS
  <2> HIDE DEF x, in
  <2>2. /\ u.side = in0.side /\ u.qty = in0.qty /\ u.px = px
        /\ u.side \in Side /\ u.qty \in Nat /\ u.offset \in Int
    BY <1>4, PricedOrder DEF u
  <2> HIDE DEF u
  <2> QED
    BY <1>4, <2>1, <2>2
<1>6. \/ o = Ack("rejected_unknown", w, none, 0, 0)
      \/ o = Ack("rejected_would_cross", w, none, 0, 0)
      \/ o = Ack("rejected_stp", c.w, c, 0, c.rem)
      \/ o \in Remainder(c, r, in, peg)
  BY DEF Outcomes, w
<1> HIDE DEF px, peg, in
<1>7. none \in SweepState /\ none.w = w /\ none.filled = 0
  <2>1. NoTick \in Int /\ NoNote \in NoteRecord /\ <<>> \in Seq(NoteRecord)
    BY BandAssumption DEF NoTick, NoNote, NoteRecord
  <2> QED
    BY <1>2, <1>5, <2>1 DEF SweepFrom, SweepState
<1>8. Cross(w, in, mode) \in Sweeps(s)
  BY <1>2, <1>5, CrossKeeps
<1>9. s = Opposite(in.side)
  BY <1>5
<1> HIDE DEF none, s
<1>10. none \in Sweeps(s)
  BY <1>2, <1>7 DEF Sweeps, Paced
<1>11. c \in Sweeps(s)
  BY <1>8, <1>10
<1> HIDE DEF c
<1>12. \E d \in Sweeps(s) : Ends(o, d, s)
  <2>1. c \in SweepState /\ Sane(c.w, ZeroRef) /\ none \in SweepState /\ Sane(none.w, ZeroRef)
    BY <1>10, <1>11, SweepsParts
  <2>2. Leaves(none.w, w, s) /\ Leaves(c.w, c.w, s)
    BY <1>7 DEF Leaves
  <2>3. CASE o = Ack("rejected_unknown", w, none, 0, 0)
    BY <1>2, <1>10, <2>1, <2>2, <2>3, AckEnds
  <2>4. CASE o = Ack("rejected_would_cross", w, none, 0, 0)
    BY <1>2, <1>10, <2>1, <2>2, <2>4, AckEnds
  <2>5. CASE o = Ack("rejected_stp", c.w, c, 0, c.rem)
    BY <1>11, <2>1, <2>2, <2>5, AckEnds
  <2>6. CASE o \in Remainder(c, r, in, peg)
    BY <1>3, <1>5, <1>9, <1>11, <2>1, <2>6, RemainderEnds
  <2> QED
    BY <1>6, <2>3, <2>4, <2>5, <2>6
<1>13. PICK d \in Sweeps(s) : Ends(o, d, s)
  BY <1>12
<1>14. d.filled \in Int /\ Paced(d, s)
  BY SweepsParts, SweepFields
<1>15. ASSUME FullReserves, o.filled > 0 PROVE Beyond(o.w, s, o.worst)
  <2>1. Leaves(d.w, o.w, s) /\ o.worst = d.worst /\ d.filled # 0
    BY <1>13, <1>14, <1>15 DEF Ends
  <2>2. Beyond(d.w, s, d.worst)
    BY <1>14, <1>15, <2>1 DEF Paced
  <2> QED
    BY <2>1, <2>2, LeavesBeyond
<1> QED
  BY <1>13, <1>15 DEF Ends, s

----------------------------------------------------------------------------
(* Depletions.                                                             *)

LEMMA TotalsNat ==
  ASSUME NEW w, Sane(w, ZeroRef), NEW s \in Side, NEW t \in Int
  PROVE  QtyAt(w, s, t) \in Nat
<1>1. CASE t \in Ticks
  <2>1. w.book.level[s][t].total = Cardinality(Shares(w.book, s, t))
        /\ IsFiniteSet(Shares(w.book, s, t))
    BY <1>1, GoodParts DEF Sane, Aggregated, Finite
  <2> QED
    BY <1>1, <2>1, TickInBand, FS_CardinalityType DEF QtyAt
<1>2. CASE t \notin Ticks
  BY <1>2, TickInBand DEF QtyAt
<1> QED
  BY <1>1, <1>2

Drains == {d \in [w : Sim, px : Int, rem : Nat] : Sane(d.w, ZeroRef)}

LEMMA DrainsParts ==
  /\ \A d \in Drains : d.w \in Sim /\ d.px \in Int /\ d.rem \in Nat /\ Sane(d.w, ZeroRef)
  /\ \A w : Sane(w, ZeroRef) =>
       \A t \in Int, q \in Nat : [w |-> w, px |-> t, rem |-> q] \in Drains
BY DEF Drains, Sane

(* What is taken is at most what was drawn: never less than one, never     *)
(* more than the level holds.                                              *)
LEMMA DepleteTurnKeeps ==
  ASSUME NEW d \in Drains, NEW s \in Side, NEW lvl \in Nat
  PROVE  DepleteTurn(d, s, lvl) \in Drains
<1> DEFINE n     == d.rem \div (lvl + 1)
           share == IF n = 0 THEN 1 ELSE n
           have  == QtyAt(d.w, s, d.px)
           k     == IF share < have THEN share ELSE have
           after == Consume(d.w, s, d.px, k)
           t     == NextBest(after.book, s, d.px)
           e     == [w |-> after, px |-> t, rem |-> d.rem - k]
<1>1. d.w \in Sim /\ d.px \in Int /\ d.rem \in Nat /\ Sane(d.w, ZeroRef)
  BY DrainsParts
<1>2. DepleteTurn(d, s, lvl) = IF d.rem = 0 \/ d.px = NoTick THEN d ELSE e
  BY DEF DepleteTurn
<1>3. ASSUME d.rem # 0 PROVE e \in Drains
  <2>1. n \in Nat /\ n <= d.rem
    <3> DEFINE m == lvl + 1
               y == d.rem
    <3>1. m \in Nat /\ m >= 1 /\ y \in Nat
      BY <1>1
    <3> HIDE DEF m, y
    <3>2. y \div m \in Nat /\ y \div m <= y
      BY <3>1
    <3> QED
      BY <3>2 DEF m, y
  <2> HIDE DEF n
  <2>2. have \in Nat
    BY <1>1, TotalsNat
  <2> HIDE DEF have
  <2>3. k \in Nat /\ d.rem - k \in Nat
    BY <1>1, <1>3, <2>1, <2>2
  <2> HIDE DEF k
  <2>4. Sane(after, ZeroRef)
    BY <1>1, <2>3, ConsumeSane
  <2> HIDE DEF after
  <2>5. t \in Int
    <3>1. t \in Ticks \union {NoTick}
      BY BestInProperties DEF NextBest, Occupied
    <3> QED
      BY <3>1, TicksInt, BandAssumption DEF NoTick
  <2> HIDE DEF t
  <2> QED
    BY <2>3, <2>4, <2>5, DrainsParts
<1> HIDE DEF e
<1> QED
  BY <1>2, <1>3

(* f holds the states of the loop of apply_depletion, f[n] after n turns.  *)
DepleteRun(w, s, q, f) ==
  /\ f[0] = [w |-> w, px |-> Touch(w, s), rem |-> q]
  /\ \A n \in 1 .. DepthLevels : f[n] = DepleteTurn(f[n - 1], s, n - 1)
  /\ \A n \in 0 .. DepthLevels : f[n] \in Drains
  /\ Deplete(w, s, q) = f[DepthLevels].w

LEMMA DepleteRuns ==
  ASSUME NEW w, Sane(w, ZeroRef), NEW s \in Side, NEW q \in Nat
  PROVE  \E f : DepleteRun(w, s, q, f)
<1> DEFINE N == DepthLevels
           S == Drains
           x0 == [w |-> w, px |-> Touch(w, s), rem |-> q]
           Body(f) == [n \in 0 .. N |-> IF n = 0 THEN x0 ELSE DepleteTurn(f[n - 1], s, n - 1)]
           f == CHOOSE x : x = Body(x)
           G == [n \in 1 .. N |-> [x \in S |-> DepleteTurn(x, s, n - 1)]]
<1>1. Deplete(w, s, q) = f[N].w
  BY DEF Deplete
<1>2. N \in Nat
  BY SimAssumption
<1>3. x0 \in S
  <2>1. Touch(w, s) \in Int
    BY TouchTyped DEF Sane
  <2> QED
    BY <2>1, DrainsParts
<1> HIDE DEF N, x0
<1>4. G \in [1 .. N -> [S -> S]]
  BY <1>2, DepleteTurnKeeps
<1>5. \A n \in 1 .. N, x \in S : G[n][x] = DepleteTurn(x, s, n - 1)
  OBVIOUS
<1> HIDE DEF G, S
<1>6. PICK g : Turns(N, S, x0, G, g)
  BY <1>2, <1>3, <1>4, LoopExists
<1>7. g = Body(g)
  <2>1. \A n \in 1 .. N : n - 1 \in 0 .. N /\ g[n] = DepleteTurn(g[n - 1], s, n - 1)
    BY <1>2, <1>5, <1>6 DEF Turns
  <2>2. \A n \in 0 .. N : g[n] = IF n = 0 THEN x0 ELSE DepleteTurn(g[n - 1], s, n - 1)
    BY <1>2, <1>6, <2>1 DEF Turns
  <2>3. g = [n \in 0 .. N |-> g[n]]
    BY <1>6 DEF Turns
  <2> QED
    BY <2>2, <2>3
<1> HIDE DEF Body
<1>8. f = Body(f)
  BY <1>7, Zenon
<1> HIDE DEF f
<1>9. f[0] = x0 /\ \A n \in 1 .. N : f[n] = DepleteTurn(f[n - 1], s, n - 1)
  BY <1>2, <1>8 DEF Body
<1>10. \A n \in 1 .. N : f[n - 1] \in S => f[n] \in S
  BY <1>2, <1>9, DepleteTurnKeeps DEF S
<1>11. \A n \in 0 .. N : f[n] \in S
  BY <1>2, <1>3, <1>9, <1>10, LoopKeeps
<1>12. DepleteRun(w, s, q, f)
  BY <1>1, <1>9, <1>11 DEF DepleteRun, S, N, x0
<1> QED
  BY <1>12

LEMMA DepleteSane ==
  ASSUME NEW w, Sane(w, ZeroRef), NEW s \in Side, NEW q \in Nat
  PROVE  Sane(Deplete(w, s, q), ZeroRef)
<1>1. PICK f : DepleteRun(w, s, q, f)
  BY DepleteRuns
<1>2. DepthLevels \in Nat
  BY SimAssumption
<1>3. f[DepthLevels] \in Drains /\ Deplete(w, s, q) = f[DepthLevels].w
  BY <1>1, <1>2 DEF DepleteRun
<1> QED
  BY <1>3, DrainsParts

----------------------------------------------------------------------------
(* The inductive invariant, one lemma per action.                          *)

(* The state is typed, its book passes every audit of the order book, the  *)
(* trackers mirror it and registered icebergs are placed and covered.      *)
SimInv == Sane(sim, ZeroRef)

LEMMA InitSimInv == Init => SimInv
<1> SUFFICES ASSUME Init PROVE SimInv
  OBVIOUS
<1>1. sim = IdleSim
  BY DEF Init
<1>2. GoodBook(EmptyBook)
  BY EmptyBookGood
<1>3. EmptyBook \in Book
  BY <1>2, GoodParts
<1>4. /\ [h \in Slots |-> NoRecord] \in [Slots -> Tracker]
      /\ [s \in Side |-> {}] \in [Side -> SUBSET Ticks]
      /\ <<>> \in Seq(Iceberg) /\ <<>> \in Seq(Hidden)
  BY NoRecordTyped
<1>5. IdleSim \in Sim
  BY <1>3, <1>4 DEF IdleSim, Sim
<1>6. /\ IdleSim.book = EmptyBook /\ DOMAIN IdleSim.icebergs = {}
      /\ \A h \in Slots : IdleSim.tracked[h] = NoRecord
  BY DEF IdleSim
<1>7. EmptyBook.live = {}
  BY DEF EmptyBook
<1>8. Mirrored(IdleSim)
  BY <1>6, <1>7, NoRecordTyped DEF Mirrored
<1>9. Placed(IdleSim) /\ Covered(IdleSim, ZeroRef)
  BY <1>6 DEF Placed, Covered
<1> QED
  BY <1>1, <1>2, <1>5, <1>6, <1>8, <1>9 DEF SimInv, Sane

LEMMA MovesKeep ==
  ASSUME NEW w, Sane(w, ZeroRef), Moves(w)
  PROVE  SimInv'
<1> DEFINE dr == {d \in w.drift : \E h \in Slots : /\ w.tracked[h].live
                                            /\ d = <<w.tracked[h].side, w.tracked[h].px>>}
           v == [w EXCEPT !.synced = {}, !.drift = dr]
<1>1. w \in Sim
  BY DEF Sane
<1>2. w.hidden \in Seq(Hidden) /\ {} \in SUBSET Slots /\ dr \in SUBSET (Side \X Int)
  BY <1>1, SimFields
<1>3. Done(w) = v
  BY DEF Done
<1> HIDE DEF dr
<1>4. Kin(w, v)
  BY <1>1, <1>2, BookkeepingKin
<1>5. Sane(v, ZeroRef)
  BY <1>4, KinSane
<1> QED
  BY <1>3, <1>5 DEF Moves, SimInv

LEMMA IdleKeeps ==
  ASSUME SimInv, UNCHANGED sim
  PROVE  SimInv'
BY DEF SimInv

(* An order of the replayed feed rests, untracked.                         *)
LEMMA ExternalSeated ==
  ASSUME NEW w, Sane(w, ZeroRef), NEW h \in Slots \ w.book.live, NEW r \in External,
         w.book.id[r] = NullIndex, NEW s \in Side, NEW q \in Int, NEW t \in Ticks,
         NEW b \in Book, Inserted(w.book, b, h, r, s, q, t)
  PROVE  LET v == [w EXCEPT !.book = b]
         IN  /\ Sane(v, ZeroRef) /\ v \in Sim /\ v.book = b /\ v.icebergs = w.icebergs
             /\ v.tracked = w.tracked
<1> DEFINE v == [w EXCEPT !.book = b]
<1>1. w \in Sim /\ Mirrored(w)
  BY DEF Sane
<1>2. /\ v \in Sim /\ v.book = b /\ v.icebergs = w.icebergs /\ v.tracked = w.tracked
  BY <1>1 DEF Sim
<1> HIDE DEF v
<1>3. r \in Ref /\ r \notin Strategy
  BY SimAssumption DEF Strategy
<1>4. v.tracked[h].live = (r \in Strategy)
  <2>1. (h \in w.book.live /\ w.book.slot[h].ref \in Strategy) = (r \in Strategy)
    BY <1>3
  <2>2. w.tracked[h].live = (h \in w.book.live /\ w.book.slot[h].ref \in Strategy)
    BY <1>1 DEF Mirrored
  <2> QED
    BY <1>2, <2>1, <2>2
<1>5. Sane(v, ZeroRef)
  BY <1>2, <1>3, <1>4, SeatSane
<1> QED
  BY <1>2, <1>5 DEF v

LEMMA SeedExternalKeeps ==
  ASSUME SimInv, NEW r \in External, NEW d \in Seeds, SeedExternal(r, d)
  PROVE  SimInv'
<1>1. Sane(sim, ZeroRef) /\ sim \in Sim
  BY DEF SimInv, Sane
<1>2. CASE AddError(sim.book, r, d.side, d.qty, d.px) # "ok"
  BY <1>2, IdleKeeps DEF SeedExternal, vars
<1>3. CASE AddError(sim.book, r, d.side, d.qty, d.px) = "ok"
  <2> DEFINE s == d.side
             q == d.qty
             t == d.px
  <2>1. s \in Side /\ q \in Int /\ t \in Int /\ r \in Ref
    BY SimAssumption
  <2>2. PICK h \in Slots \ sim.book.live :
          Moves([sim EXCEPT !.book = Insert(@, h, r, d.side, d.qty, d.px)])
    BY <1>3 DEF SeedExternal
  <2> DEFINE b == Insert(sim.book, h, r, s, q, t)
             v == [sim EXCEPT !.book = b]
  <2>3. Moves(v)
    BY <1>1, <2>2 DEF Sim
  <2> HIDE DEF v, b, s, q, t
  <2>4. /\ t \in Ticks /\ sim.book.id[r] = NullIndex
        /\ Inserted(sim.book, b, h, r, s, q, t) /\ b \in Book
    BY <1>1, <1>3, <2>1, Accepted DEF b, s, q, t
  <2>5. Sane(v, ZeroRef)
    BY <1>1, <2>1, <2>4, ExternalSeated DEF v
  <2> QED
    BY <2>3, <2>5, MovesKeep
<1> QED
  BY <1>2, <1>3

(* An iceberg registered when its first slice rests.                       *)
LEMMA RegisterSane ==
  ASSUME NEW u, Sane(u, ZeroRef), NEW e \in Iceberg, NEW h \in u.book.live,
         u.book.id[e.ref] = h, u.book.slot[h].side = e.side, u.book.slot[h].px = e.px,
         u.book.slot[h].qty <= e.display, Page(e.px) \in u.book.page[e.side],
         FullReserves => /\ e.hidden > 0
                         /\ \A j \in DOMAIN u.icebergs : u.icebergs[j].ref # e.ref,
         NEW v, v \in Sim, v.book = u.book, v.tracked = u.tracked,
         v.icebergs = Append(u.icebergs, e)
  PROVE  Sane(v, ZeroRef)
<1> DEFINE N == Len(u.icebergs)
<1>1. u \in Sim /\ GoodBook(u.book) /\ Mirrored(u) /\ Placed(u)
  BY DEF Sane
<1>2. /\ N \in Nat /\ DOMAIN u.icebergs = 1 .. N /\ DOMAIN v.icebergs = 1 .. (N + 1)
      /\ v.icebergs[N + 1] = e /\ \A i \in 1 .. N : v.icebergs[i] = u.icebergs[i]
  BY <1>1, SimFields
<1> HIDE DEF N
<1>3. Mirrored(v)
  BY <1>1 DEF Mirrored
<1>4. \A i \in 1 .. (N + 1) : i \in 1 .. N \/ i = N + 1
  BY <1>2
<1>5. Placed(v)
  <2> SUFFICES ASSUME NEW i \in 1 .. (N + 1)
               PROVE  Page(v.icebergs[i].px) \in u.book.page[v.icebergs[i].side]
    BY <1>2 DEF Placed
  <2>1. CASE i \in 1 .. N
    BY <1>1, <1>2, <2>1 DEF Placed
  <2>2. CASE i = N + 1
    BY <1>2, <2>2
  <2> QED
    BY <1>4, <2>1, <2>2
<1>6. ASSUME FullReserves PROVE Covered(v, ZeroRef)
  <2>1. Covered(u, ZeroRef)
    BY <1>6 DEF Sane
  <2>2. e.hidden > 0 /\ \A j \in 1 .. N : u.icebergs[j].ref # e.ref
    BY <1>2, <1>6
  <2>3. h # NullIndex
    BY <1>1, GoodParts, SlotAssumption
  <2>4. ASSUME NEW i \in DOMAIN v.icebergs PROVE CoveredAt(v, ZeroRef, i)
    <3> DEFINE x == v.icebergs[i]
    <3>1. CASE i \in 1 .. N
      <4>1. x = u.icebergs[i] /\ i \in DOMAIN u.icebergs
        BY <1>2, <3>1
      <4>2. CoveredAt(u, ZeroRef, i)
        BY <2>1, <4>1, CoveredEach
      <4> HIDE DEF x
      <4>3. /\ x.hidden > 0
            /\ u.book.id[x.ref] # NullIndex \/ x.ref = ZeroRef
            /\ u.book.id[x.ref] # NullIndex =>
                 /\ u.book.slot[u.book.id[x.ref]].side = x.side
                 /\ u.book.slot[u.book.id[x.ref]].px = x.px
                 /\ u.book.slot[u.book.id[x.ref]].qty <= x.display
            /\ \A j \in DOMAIN u.icebergs : u.icebergs[j].ref = x.ref => j = i
        BY <4>1, <4>2 DEF CoveredAt
      <4>4. x.ref # e.ref
        BY <2>2, <3>1, <4>1
      <4>5. \A j \in 1 .. (N + 1) : v.icebergs[j].ref = x.ref => j = i
        BY <1>2, <1>4, <4>3, <4>4
      <4> QED
        BY <1>2, <4>3, <4>5 DEF CoveredAt, x
    <3>2. CASE i = N + 1
      <4>1. x = e
        BY <1>2, <3>2
      <4> HIDE DEF x
      <4>2. \A j \in 1 .. (N + 1) : v.icebergs[j].ref = x.ref => j = i
        BY <1>2, <1>4, <2>2, <3>2, <4>1
      <4> QED
        BY <1>2, <2>2, <2>3, <4>1, <4>2 DEF CoveredAt, x
    <3> QED
      BY <1>2, <1>4, <3>1, <3>2
  <2> QED
    BY <2>4, CoveredEach
<1> QED
  BY <1>1, <1>3, <1>5, <1>6 DEF Sane

LEMMA SeedIcebergKeeps ==
  ASSUME SimInv, NEW r \in External, NEW d \in IcebergSeeds, SeedIceberg(r, d)
  PROVE  SimInv'
<1> DEFINE s == d.side
           q == d.display
           t == d.px
           w == sim
<1>1. Sane(w, ZeroRef) /\ w \in Sim
  BY DEF SimInv, Sane
<1>2. CASE AddError(w.book, r, s, q, t) # "ok"
  BY <1>2, IdleKeeps DEF SeedIceberg, vars
<1>3. CASE AddError(w.book, r, s, q, t) = "ok"
  <2>1. /\ s \in Side /\ q \in Nat \ {0} /\ q \in Int /\ t \in Int /\ r \in Ref
        /\ d.total - q \in Nat /\ (FullReserves => d.total - q > 0)
    BY SimAssumption DEF FullReserves
  <2> DEFINE e == [ref |-> r, side |-> s, px |-> t, display |-> q, hidden |-> d.total - q]
  <2>2. PICK h \in Slots \ w.book.live :
          Moves([w EXCEPT !.book = Insert(@, h, r, s, q, t), !.icebergs = Append(@, e)])
    BY <1>3 DEF SeedIceberg
  <2> DEFINE b == Insert(w.book, h, r, s, q, t)
             ib == Append(w.icebergs, e)
             u == [w EXCEPT !.book = b]
             v == [w EXCEPT !.book = b, !.icebergs = ib]
  <2>3. Moves(v)
    BY <1>1, <2>2 DEF Sim
  <2> HIDE DEF b, s, q, t, w, e
  <2>4. /\ t \in Ticks /\ w.book.id[r] = NullIndex
        /\ Inserted(w.book, b, h, r, s, q, t) /\ b \in Book
    BY <1>1, <1>3, <2>1, Accepted DEF b
  <2> HIDE DEF u
  <2>5. /\ Sane(u, ZeroRef) /\ u \in Sim /\ u.book = b /\ u.icebergs = w.icebergs
        /\ u.tracked = w.tracked
    BY <1>1, <2>1, <2>4, ExternalSeated DEF u
  <2>6. e \in Iceberg
    BY <2>1, <2>4 DEF e, Iceberg
  <2>7. /\ e.ref = r /\ e.side = s /\ e.px = t /\ e.display = q
        /\ (FullReserves => e.hidden > 0)
    BY <2>1 DEF e
  <2>8. ib \in Seq(Iceberg) /\ v \in Sim
    <3>1. ib \in Seq(Iceberg)
      BY <1>1, <2>6, SimFields
    <3> HIDE DEF ib
    <3> QED
      BY <1>1, <2>4, <3>1 DEF Sim
  <2>9. v.book = b /\ v.tracked = w.tracked /\ v.icebergs = ib
    BY <1>1 DEF Sim
  <2>10. ASSUME FullReserves, NEW j \in DOMAIN w.icebergs PROVE w.icebergs[j].ref # r
    BY <1>1, <2>4, <2>10, RegisteredRests DEF Sane
  <2>11. /\ h \in b.live /\ b.id[r] = h /\ b.slot[h].side = s /\ b.slot[h].px = t
         /\ b.slot[h].qty = q /\ Page(t) \in b.page[s]
    BY <2>1, <2>4 DEF Inserted
  <2> HIDE DEF v
  <2>12. b.slot[h].qty <= e.display
    BY <2>1, <2>7, <2>11
  <2>13. Sane(v, ZeroRef)
    <3>1. v.book = u.book /\ v.tracked = u.tracked /\ v.icebergs = Append(u.icebergs, e)
      BY <2>5, <2>9
    <3>2. /\ h \in u.book.live /\ u.book.id[e.ref] = h /\ u.book.slot[h].side = e.side
          /\ u.book.slot[h].px = e.px /\ u.book.slot[h].qty <= e.display
          /\ Page(e.px) \in u.book.page[e.side]
      BY <2>5, <2>7, <2>11, <2>12
    <3>3. FullReserves => /\ e.hidden > 0
                          /\ \A j \in DOMAIN u.icebergs : u.icebergs[j].ref # e.ref
      BY <2>5, <2>7, <2>10
    <3> QED
      BY <2>5, <2>6, <2>8, <3>1, <3>2, <3>3, RegisterSane
  <2> QED
    BY <2>3, <2>13, MovesKeep
<1> QED
  BY <1>2, <1>3

LEMMA DecideKeeps ==
  ASSUME SimInv, NEW r \in Strategy, NEW in \in Inbounds, Decide(r, in)
  PROVE  SimInv'
<1>1. PICK o \in Outcomes(sim, r, in, stp, halted) : Moves(o.w)
  BY DEF Decide
<1>2. Sane(o.w, ZeroRef)
  BY OutcomesSane DEF SimInv
<1> QED
  BY <1>1, <1>2, MovesKeep

LEMMA ApplyExternalKeeps ==
  ASSUME SimInv, NEW s \in Side, NEW t \in Ticks, NEW q \in FlowQty, ApplyExternal(s, t, q)
  PROVE  SimInv'
<1> DEFINE w     == Repeg(sim)
           avail == QtyAt(w, s, t)
           v     == Consume(w, s, t, q)
           u     == Consume(w, s, t, avail)
           p     == Tap(u, s, t, q - avail)
<1>1. t \in Int /\ q \in Nat
  BY TicksInt, SimAssumption
<1>2. Sane(w, ZeroRef)
  <2>1. sim \in Sim /\ Sane(sim, ZeroRef)
    BY DEF SimInv, Sane
  <2>2. Kin(sim, Repeg(sim))
    BY <2>1, RepegKin
  <2> QED
    BY <2>1, <2>2, KinSane
<1>3. Moves(IF q <= avail THEN v ELSE p.w)
  BY DEF ApplyExternal
<1> HIDE DEF w
<1>4. avail \in Nat
  BY <1>1, <1>2, TotalsNat
<1> HIDE DEF avail
<1>5. Sane(v, ZeroRef) /\ Sane(u, ZeroRef)
  BY <1>1, <1>2, <1>4, ConsumeSane
<1> HIDE DEF u, v
<1>6. CASE q <= avail
  BY <1>3, <1>5, <1>6, MovesKeep
<1>7. CASE ~(q <= avail)
  <2>1. q - avail \in Nat /\ u \in Sim
    BY <1>1, <1>4, <1>5, <1>7 DEF Sane
  <2>2. Kin(u, p.w)
    BY <2>1, TapKin
  <2> HIDE DEF p
  <2>3. Sane(p.w, ZeroRef)
    BY <1>5, <2>2, KinSane
  <2> QED
    BY <1>3, <1>7, <2>3, MovesKeep
<1> QED
  BY <1>6, <1>7

LEMMA AdvanceTimeKeeps ==
  ASSUME SimInv, NEW qb \in 0 .. MaxDraw, NEW qs \in 0 .. MaxDraw, AdvanceTime(qb, qs)
  PROVE  SimInv'
<1> DEFINE u == Deplete(sim, "B", qb)
           v == Deplete(u, "S", qs)
<1>1. qb \in Nat /\ qs \in Nat /\ "B" \in Side /\ "S" \in Side
  BY SimAssumption DEF Side
<1>2. Moves(v)
  BY DEF AdvanceTime
<1>3. Sane(u, ZeroRef)
  BY <1>1, DepleteSane DEF SimInv
<1> HIDE DEF u
<1>4. Sane(v, ZeroRef)
  BY <1>1, <1>3, DepleteSane
<1> QED
  BY <1>2, <1>4, MovesKeep

LEMMA HiddenFound ==
  ASSUME NEW w \in Sim, NEW r, HiddenOf(w, r) # 0
  PROVE  HiddenOf(w, r) \in 1 .. Len(w.hidden)
<1> DEFINE I == {j \in 1 .. Len(w.hidden) : w.hidden[j].ref = r}
<1>1. HiddenOf(w, r) = IF I # {} THEN Min(I) ELSE 0
  BY DEF HiddenOf, SelectInSeq
<1>2. Len(w.hidden) \in Nat
  BY SimFields
<1>3. I \subseteq Nat /\ I # {}
  BY <1>1, <1>2
<1>4. Min(I) \in I
  BY <1>3, LeastOf
<1> QED
  BY <1>1, <1>3, <1>4

LEMMA TrackedFound ==
  ASSUME NEW w, Sane(w, ZeroRef), NEW r \in Strategy, IsTracked(w, r)
  PROVE  /\ Find(w.book, r) \in w.book.live /\ w.tracked[Find(w.book, r)].live
         /\ w.book.slot[Find(w.book, r)].ref = r /\ r \in Ref
         /\ w.book.slot[Find(w.book, r)].side \in Side
<1>1. GoodBook(w.book) /\ r \in Ref
  BY DEF Sane, Strategy
<1>2. Find(w.book, r) \in w.book.live /\ w.book.slot[Find(w.book, r)].ref = r
  BY <1>1, Resolves DEF IsTracked
<1> QED
  BY <1>1, <1>2, GoodParts, LiveOrder DEF IsTracked

LEMMA CancelStrategyKeeps ==
  ASSUME SimInv, NEW r \in Strategy, CancelStrategy(r)
  PROVE  SimInv'
<1>1. Sane(sim, ZeroRef) /\ sim \in Sim
  BY DEF SimInv, Sane
<1>2. CASE IsTracked(sim, r)
  <2> DEFINE h == Find(sim.book, r)
             o == sim.book.slot[h]
             u == [Untrack(sim, h) EXCEPT !.book = Drop(@, h)]
             v == Recompute(u, o.side, o.px)
  <2>1. h \in sim.book.live /\ sim.tracked[h].live
    BY <1>1, <1>2, TrackedFound
  <2>2. Moves(v)
    BY <1>2 DEF CancelStrategy
  <2>3. Spends(sim, u)
    BY <1>1, <2>1, ExpungeSpends
  <2> HIDE DEF u
  <2>4. Sane(u, ZeroRef) /\ u \in Sim
    BY <2>3 DEF Spends, Sane
  <2>5. Sane(v, ZeroRef)
    BY <2>4, RecomputeKin, KinSane DEF Recompute
  <2> QED
    BY <2>2, <2>5, MovesKeep
<1>3. CASE ~IsTracked(sim, r) /\ HiddenOf(sim, r) # 0
  <2> DEFINE i  == HiddenOf(sim, r)
             hd == RemoveAt(sim.hidden, i)
             v  == [sim EXCEPT !.hidden = hd]
  <2>1. i \in 1 .. Len(sim.hidden) /\ sim.hidden \in Seq(Hidden)
    BY <1>1, <1>3, HiddenFound, SimFields
  <2>2. Moves(v)
    BY <1>1, <1>3 DEF CancelStrategy, Sim
  <2> HIDE DEF i
  <2>3. hd \in Seq(Hidden)
    BY <2>1, RemoveAtTyped
  <2> HIDE DEF hd
  <2>4. Kin(sim, v)
    BY <1>1, <2>3, SimFields, BookkeepingKin
  <2>5. Sane(v, ZeroRef)
    BY <1>1, <2>4, KinSane
  <2> QED
    BY <2>2, <2>5, MovesKeep
<1>4. CASE ~IsTracked(sim, r) /\ HiddenOf(sim, r) = 0
  BY <1>4, IdleKeeps DEF CancelStrategy, vars
<1> QED
  BY <1>2, <1>3, <1>4

LEMMA HiddenReplace ==
  ASSUME NEW e \in Hidden, NEW n \in Strategy, NEW t \in Int, NEW q \in ReplaceQty
  PROVE  [e EXCEPT !.ref = n, !.px = t, !.qty = q] \in Hidden
<1> DEFINE m1 == [e EXCEPT !.ref = n]
           m2 == [m1 EXCEPT !.px = t]
           m3 == [m2 EXCEPT !.qty = q]
<1>1. [e EXCEPT !.ref = n, !.px = t, !.qty = q] = m3
  BY DEF Hidden
<1>2. m1 \in Hidden
  BY DEF Hidden
<1> HIDE DEF m1
<1>3. m2 \in Hidden
  BY <1>2, HiddenReprice
<1> HIDE DEF m2
<1>4. q \in HeldQty
  BY SimAssumption DEF HeldQty
<1>5. m3 \in Hidden
  BY <1>3, <1>4, HiddenUpdate
<1> QED
  BY <1>1, <1>5

(* What replace_strategy rests in the slot its original gave back.         *)
LEMMA ReplacementSane ==
  ASSUME NEW w, Sane(w, ZeroRef), NEW r \in Strategy, IsTracked(w, r),
         NEW n \in Strategy, NEW q \in Int, NEW t \in Int, ReplaceError(w.book, r, n, q, t) = "ok"
  PROVE  LET h == Find(w.book, r)
             s == w.book.slot[h].side
             b == Insert(Drop(w.book, h), h, n, s, q, t)
         IN  Sane(Track([Untrack(w, h) EXCEPT !.book = b], h, n, s, q, t), ZeroRef)
<1> DEFINE h == Find(w.book, r)
           s == w.book.slot[h].side
           d == Drop(w.book, h)
           b == Insert(d, h, n, s, q, t)
           u == [Untrack(w, h) EXCEPT !.book = d]
           x == [Untrack(w, h) EXCEPT !.book = b]
           y == [u EXCEPT !.book = b]
<1>1. w \in Sim /\ GoodBook(w.book) /\ n \in Ref
  BY DEF Sane, Strategy
<1>2. h \in w.book.live /\ w.tracked[h].live /\ w.book.slot[h].ref = r /\ s \in Side
      /\ h \in Slots
  BY <1>1, TrackedFound, GoodParts
<1>3. /\ q > 0 /\ InBand(t) /\ Claimable(w.book, s, t)
      /\ (r = n \/ Find(w.book, n) = NullIndex)
  BY DEF ReplaceError
<1>4. t \in Ticks
  BY <1>3, TickInBand
<1> HIDE DEF h, s
<1>5. [Untrack(w, h) EXCEPT !.book = Drop(@, h)] = u
  BY <1>1 DEF Untrack, Sim
<1>6. x = y
  BY <1>1 DEF Untrack, Sim
<1>7. Spends(w, u)
  BY <1>2, <1>5, ExpungeSpends
<1>8. /\ GoodBook(d) /\ d.live = w.book.live \ {h} /\ d.page = w.book.page
      /\ \A z \in Ref : d.id[z] = IF z = r THEN NullIndex ELSE w.book.id[z]
  BY <1>1, <1>2, DropGood
<1>9. u.book = d
  BY <1>1 DEF Untrack, Sim
<1> HIDE DEF u, d, x
<1>10. Sane(u, ZeroRef)
  BY <1>7 DEF Spends
<1>11. d.id[n] = NullIndex
  BY <1>1, <1>3, <1>8 DEF Find
<1>12. Claimable(d, s, t)
  BY <1>3, <1>8 DEF Claimable
<1>13. Inserted(d, b, h, n, s, q, t)
  BY <1>1, <1>2, <1>3, <1>4, <1>8, <1>11, <1>12, InsertGood
<1>14. b \in Book
  BY <1>13, GoodParts DEF Inserted
<1> HIDE DEF b
<1>15. Sane(Track(y, h, n, s, q, t), ZeroRef)
  BY <1>2, <1>4, <1>8, <1>9, <1>10, <1>11, <1>13, <1>14, TrackSane
<1> QED
  BY <1>6, <1>15 DEF x, b, d, h, s

LEMMA ReplaceStrategyKeeps ==
  ASSUME SimInv, NEW r \in Strategy, NEW n \in Strategy, NEW q \in ReplaceQty,
         NEW t \in ReplacePrice, ReplaceStrategy(r, n, q, t)
  PROVE  SimInv'
<1>1. Sane(sim, ZeroRef) /\ sim \in Sim /\ q \in Int /\ t \in Int
  BY SimAssumption DEF SimInv, Sane
<1>2. CASE IsTracked(sim, r) /\ ReplaceError(sim.book, r, n, q, t) = "ok"
  <2> DEFINE h == Find(sim.book, r)
             o == sim.book.slot[h]
             s == o.side
             b == Insert(Drop(sim.book, h), h, n, s, q, t)
             done == Track([Untrack(sim, h) EXCEPT !.book = b], h, n, s, q, t)
             v1 == Recompute(done, s, o.px)
             dr == done.drift \union {<<s, t>>}
             v2 == [done EXCEPT !.drift = dr]
  <2>1. Sane(done, ZeroRef)
    BY <1>1, <1>2, ReplacementSane
  <2>2. s \in Side
    BY <1>1, <1>2, TrackedFound
  <2>3. Moves(IF o.px # t THEN v1 ELSE v2)
    <3>1. [Untrack(sim, h) EXCEPT !.book = Insert(Drop(@, h), h, n, s, q, t)]
            = [Untrack(sim, h) EXCEPT !.book = b]
      BY <1>1 DEF Untrack, Sim
    <3> HIDE DEF h, s, b
    <3> QED
      BY <1>2, <3>1 DEF ReplaceStrategy, h, s
  <2> HIDE DEF done, s
  <2>4. done \in Sim
    BY <2>1 DEF Sane
  <2>5. Sane(v1, ZeroRef)
    BY <2>1, <2>4, RecomputeKin, KinSane DEF Recompute
  <2>6. dr \in SUBSET (Side \X Int)
    BY <1>1, <2>2, <2>4, SimFields
  <2> HIDE DEF dr
  <2>7. Kin(done, v2)
    BY <2>4, <2>6, SimFields, BookkeepingKin
  <2>8. Sane(v2, ZeroRef)
    BY <2>1, <2>7, KinSane
  <2> HIDE DEF v1, v2
  <2> QED
    BY <2>3, <2>5, <2>8, MovesKeep
<1>3. CASE IsTracked(sim, r) /\ ReplaceError(sim.book, r, n, q, t) # "ok"
  BY <1>3, IdleKeeps DEF ReplaceStrategy, vars
<1>4. CASE ~IsTracked(sim, r) /\ HiddenOf(sim, r) # 0
  <2> DEFINE i  == HiddenOf(sim, r)
             m  == [sim.hidden[i] EXCEPT !.ref = n, !.px = t, !.qty = q]
             hd == [sim.hidden EXCEPT ![i] = m]
             v  == [sim EXCEPT !.hidden = hd]
  <2>1. i \in 1 .. Len(sim.hidden) /\ sim.hidden \in Seq(Hidden)
    BY <1>1, <1>4, HiddenFound, SimFields
  <2>2. m \in Hidden
    <3>1. sim.hidden[i] \in Hidden
      BY <2>1
    <3> QED
      BY <1>1, <3>1, HiddenReplace
  <2>3. Moves([sim EXCEPT !.hidden[i].ref = n, !.hidden[i].px = t, !.hidden[i].qty = q])
    BY <1>4 DEF ReplaceStrategy
  <2> HIDE DEF i
  <2>4. [sim EXCEPT !.hidden[i].ref = n, !.hidden[i].px = t, !.hidden[i].qty = q] = v
    BY <1>1, <2>1 DEF Sim
  <2> HIDE DEF m
  <2>5. hd \in Seq(Hidden)
    BY <2>1, <2>2
  <2> HIDE DEF hd
  <2>6. Kin(sim, v)
    BY <1>1, <2>5, SimFields, BookkeepingKin
  <2>7. Sane(v, ZeroRef)
    BY <1>1, <2>6, KinSane
  <2> QED
    BY <2>3, <2>4, <2>7, MovesKeep
<1>5. CASE ~IsTracked(sim, r) /\ HiddenOf(sim, r) = 0
  BY <1>5, IdleKeeps DEF ReplaceStrategy, vars
<1> QED
  BY <1>2, <1>3, <1>4, <1>5

LEMMA AuditKeeps ==
  ASSUME SimInv, Audit
  PROVE  SimInv'
<1>1. Sane(sim, ZeroRef) /\ sim \in Sim
  BY DEF SimInv, Sane
<1>2. PICK levels : Moves(RecomputeAll(sim, levels))
  BY DEF Audit
<1>3. Sane(RecomputeAll(sim, levels), ZeroRef)
  BY <1>1, RecomputeKin, KinSane
<1> QED
  BY <1>2, <1>3, MovesKeep

LEMMA NextKeeps ==
  ASSUME SimInv, [Next]_vars
  PROVE  SimInv'
<1>1. ASSUME NEW r \in External, NEW d \in Seeds, SeedExternal(r, d) PROVE SimInv'
  BY <1>1, SeedExternalKeeps
<1>2. ASSUME NEW r \in External, NEW d \in IcebergSeeds, SeedIceberg(r, d) PROVE SimInv'
  BY <1>2, SeedIcebergKeeps
<1>3. ASSUME NEW r \in Strategy, NEW in \in Inbounds, Decide(r, in) PROVE SimInv'
  BY <1>3, DecideKeeps
<1>4. ASSUME NEW s \in Side, NEW t \in Ticks, NEW q \in FlowQty, ApplyExternal(s, t, q)
      PROVE SimInv'
  BY <1>4, ApplyExternalKeeps
<1>5. ASSUME NEW qb \in 0 .. MaxDraw, NEW qs \in 0 .. MaxDraw, AdvanceTime(qb, qs) PROVE SimInv'
  BY <1>5, AdvanceTimeKeeps
<1>6. ASSUME NEW r \in Strategy, CancelStrategy(r) PROVE SimInv'
  BY <1>6, CancelStrategyKeeps
<1>7. ASSUME NEW r \in Strategy, NEW n \in Strategy, NEW q \in ReplaceQty,
             NEW t \in ReplacePrice, ReplaceStrategy(r, n, q, t)
      PROVE SimInv'
  BY <1>7, ReplaceStrategyKeeps
<1>8. ASSUME NEW x \in BOOLEAN, SetHalted(x) PROVE SimInv'
  BY <1>8, IdleKeeps DEF SetHalted
<1>9. CASE Audit
  BY <1>9, AuditKeeps
<1>10. CASE UNCHANGED vars
  BY <1>10, IdleKeeps DEF vars
<1> QED
  BY <1>1, <1>2, <1>3, <1>4, <1>5, <1>6, <1>7, <1>8, <1>9, <1>10 DEF Next

LEMMA SimInvHolds == Spec => []SimInv
<1>1. SimInv /\ [Next]_vars => SimInv'
  BY NextKeeps
<1> QED
  BY InitSimInv, <1>1, PTL DEF Spec

----------------------------------------------------------------------------
(* What follows from the invariant.                                        *)

(* TrackerMirrors (Simulate.hpp:1012-1017): after any operation the        *)
(* tracker array is the strategy's part of the book, slot by slot.         *)
THEOREM TrackerMirrorsHolds == Spec => []TrackerMirrors
<1>1. SimInv => TrackerMirrors
  BY DEF SimInv, Sane, Mirrored, TrackerMirrors
<1> QED
  BY <1>1, SimInvHolds, PTL

(* The book a run leaves is one every audit of the order book accepts      *)
(* (OrderBook.hpp:377-394, 569-606), whatever decisions, external flow,    *)
(* replenishments and replacements went through it.                        *)
THEOREM SimBookHolds == Spec => [](LevelsSound(sim.book) /\ \E a : Sound(sim.book, a))
<1>1. SimInv => LevelsSound(sim.book) /\ \E a : Sound(sim.book, a)
  BY DEF SimInv, Sane, GoodBook
<1> QED
  BY <1>1, SimInvHolds, PTL

(* ReservesQueued (replenish_if_iceberg, Simulate.hpp:686-703), when every *)
(* iceberg is seeded with more than it displays: an entry without a        *)
(* reserve stays registered when its slice is gone, and would shadow a     *)
(* later iceberg of the same reference.                                    *)
THEOREM ReservesQueuedHolds == FullReserves => (Spec => []ReservesQueued)
<1> SUFFICES ASSUME FullReserves PROVE Spec => []ReservesQueued
  OBVIOUS
<1>1. ASSUME SimInv PROVE ReservesQueued
  <2>1. sim \in Sim /\ GoodBook(sim.book) /\ Covered(sim, ZeroRef)
    BY <1>1 DEF SimInv, Sane
  <2> SUFFICES ASSUME NEW i \in DOMAIN sim.icebergs
               PROVE  LET e == sim.icebergs[i]
                          h == Find(sim.book, e.ref)
                          o == sim.book.slot[h]
                      IN  h # NullIndex /\ <<o.side, o.px>> = <<e.side, e.px>>
                          /\ o.qty <= e.display
    BY DEF ReservesQueued
  <2> DEFINE e == sim.icebergs[i]
  <2>2. e.ref \in External /\ sim.book.id[e.ref] # NullIndex
    BY <2>1, RegisteredRests
  <2>3. Find(sim.book, e.ref) = sim.book.id[e.ref]
    BY <2>2, SimAssumption DEF Find
  <2>4. LET h == sim.book.id[e.ref]
            o == sim.book.slot[h]
        IN  h # NullIndex => o.side = e.side /\ o.px = e.px /\ o.qty <= e.display
    BY <2>1 DEF Covered
  <2> QED
    BY <2>2, <2>3, <2>4
<1> QED
  BY <1>1, SimInvHolds, PTL

(* NoTradeThrough (Simulate.hpp:803-867), under the same hypothesis: what  *)
(* a decision leaves on the other side, shown or hidden, is no better than *)
(* the worst price it paid, also when it was stopped half way.             *)
THEOREM NoTradeThroughHolds == FullReserves => (Spec => []NoTradeThrough)
<1> SUFFICES ASSUME FullReserves PROVE Spec => []NoTradeThrough
  OBVIOUS
<1>1. ASSUME SimInv PROVE NoTradeThrough
  <2> DEFINE spare == {r \in Strategy : Find(sim.book, r) = NullIndex}
             r     == CHOOSE x \in spare : TRUE
  <2> SUFFICES ASSUME spare # {}, NEW in \in Inbounds,
                      NEW o \in Outcomes(sim, r, in, stp, halted), o.filled > 0
               PROVE  Beyond(o.w, Opposite(in.side), o.worst)
    BY DEF NoTradeThrough, OnDecision, Beyond
  <2>1. r \in Strategy
    OBVIOUS
  <2> HIDE DEF spare, r
  <2>2. Sane(sim, ZeroRef)
    BY <1>1 DEF SimInv
  <2> QED
    BY <2>1, <2>2, OutcomesSane
<1> QED
  BY <1>1, SimInvHolds, PTL

(* RestsUncrossed (Simulate.hpp:911-923, 947-966), when no replacement     *)
(* asks for a negative quantity: outside a halt a displayed remainder      *)
(* rests at a price the other side's displayed best would not have met.    *)
(* It rests on the termination of the sweep: a turn that is not the last   *)
(* takes a unit or removes a tracked order.                                *)
THEOREM RestsUncrossedHolds == ReplaceQty \subseteq Nat => (Spec => []RestsUncrossed)
<1> SUFFICES ASSUME ReplaceQty \subseteq Nat PROVE Spec => []RestsUncrossed
  OBVIOUS
<1>1. ASSUME SimInv PROVE RestsUncrossed
  <2> DEFINE spare == {r \in Strategy : Find(sim.book, r) = NullIndex}
             r     == CHOOSE x \in spare : TRUE
             shown == {in \in Inbounds : /\ ~in.non_displayed /\ PegOf(in) = "none"
                                         /\ in.type \in {"day_limit", "post_only"}}
  <2> SUFFICES ASSUME spare # {}, ~halted, NEW in \in shown,
                      NEW o \in Outcomes(sim, r, in, stp, halted), o.rests > 0
               PROVE  LET s == Opposite(in.side)
                      IN  Touch(o.w, s) = NoTick \/ Better(s, in.px, Touch(o.w, s))
    BY DEF RestsUncrossed, OnDecision
  <2>1. r \in Strategy
    OBVIOUS
  <2> HIDE DEF spare, r
  <2>2. Sane(sim, ZeroRef)
    BY <1>1 DEF SimInv
  <2>3. /\ in \in Inbounds /\ ~in.non_displayed /\ PegOf(in) = "none"
        /\ in.type \in {"day_limit", "post_only"}
    OBVIOUS
  <2> QED
    BY <2>1, <2>2, <2>3, OutcomesUncrossed
<1> QED
  BY <1>1, SimInvHolds, PTL

=============================================================================
