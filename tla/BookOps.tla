------------------------------ MODULE BookOps ------------------------------
(***************************************************************************)
(* The limit order book of include/mog/OrderBook.hpp as operations on a    *)
(* book value.  The book keeps the same redundant structures the code      *)
(* keeps: order slots with intrusive prev/next links, an id table, one     *)
(* level record per (side, tick) with its own aggregate, the set of        *)
(* ladder pages claimed so far, and the two cached best prices.            *)
(*                                                                         *)
(* The operations are written as functions from book to book because the   *)
(* code composes them: replace is remove followed by add, and the          *)
(* simulator runs several of them in one call.                             *)
(*                                                                         *)
(* Abstracted, with the module that models the detail: which free slot the *)
(* arena hands out (RefIndex), how the id table probes (RefIndex), how a   *)
(* ladder finds the next occupied tick (Ladder).                           *)
(***************************************************************************)
EXTENDS Integers, FiniteSets

CONSTANTS
  Ref,        (* order references, without the unset one                   *)
  ZeroRef,    (* OrderId{0}: the unset reference, never bookable           *)
  Slots,      (* arena slots; Config::arena_capacity is their number       *)
  NullIndex,  (* kNullIndex                                                *)
  Lo, Hi,     (* the band [Lo, Hi) of ticks a ladder covers                *)
  PageTicks,  (* ticks per ladder page, kPageTicks                         *)
  PagePool    (* pages each ladder may claim, Config::page_pool            *)

ASSUME RefAssumption   == ZeroRef \notin Ref
ASSUME SlotAssumption  == IsFiniteSet(Slots) /\ Slots # {} /\ NullIndex \notin Slots
ASSUME BandAssumption  == Lo \in Int /\ Hi \in Int /\ Lo < Hi
ASSUME PageAssumption  == PageTicks \in Nat \ {0} /\ PagePool \in Nat \ {0}

Side   == {"B", "S"}
Ticks  == Lo .. (Hi - 1)
NoTick == Hi                        \* kNoTick: a price no level has

Page(t) == (t - Lo) \div PageTicks  \* the directory entry of a tick
Pages   == {Page(t) : t \in Ticks}

InBand(t) == Lo <= t /\ t < Hi

(* What a slot holds while it is on the free list.                         *)
FreeSlot == [ref |-> ZeroRef, side |-> "B", px |-> NoTick, qty |-> 0,
             prev |-> NullIndex, next |-> NullIndex]

EmptyLevel == [total |-> 0, head |-> NullIndex, tail |-> NullIndex, count |-> 0]

EmptyBook ==
  [slot  |-> [i \in Slots |-> FreeSlot],
   live  |-> {},
   id    |-> [r \in Ref |-> NullIndex],
   level |-> [s \in Side |-> [t \in Ticks |-> EmptyLevel]],
   page  |-> [s \in Side |-> {}],
   best  |-> [s \in Side |-> NoTick]]

----------------------------------------------------------------------------
(* Prices.                                                                 *)

Better(s, x, y) == IF s = "B" THEN x > y ELSE x < y

BestIn(s, T) ==
  IF T = {} THEN NoTick ELSE CHOOSE x \in T : \A y \in T : ~Better(s, y, x)

Occupied(b, s) == {t \in Ticks : b.level[s][t].total # 0}

(* Operators named Mut... are mistakes one could make in the definition    *)
(* that follows.  Nothing uses them: they are put in its place to confirm  *)
(* that the properties notice.                                             *)
MutNextBest(b, s, t) == BestIn(s, {x \in Occupied(b, s) : Better(s, x, t)})

(* first_below for bids, first_above for asks: strictly beyond the tick.   *)
NextBest(b, s, t) == BestIn(s, {x \in Occupied(b, s) : Better(s, t, x)})

----------------------------------------------------------------------------
(* Lookups.                                                                *)

Find(b, r) == IF r \in Ref THEN b.id[r] ELSE NullIndex

MutClaimable(b, s, t) == TRUE
Claimable(b, s, t) == Page(t) \in b.page[s] \/ Cardinality(b.page[s]) < PagePool

Full(b) == b.live = Slots

(* The level ladder.peek(t) finds: none out of band or on an unclaimed page. *)
HasLevel(b, s, t) == InBand(t) /\ Page(t) \in b.page[s]

----------------------------------------------------------------------------
(* Mutations.                                                              *)

(* The levels of b with the one at (s, t) set to lv.                       *)
WithLevel(b, s, t, lv) ==
  [x \in Side |-> [y \in Ticks |-> IF x = s /\ y = t THEN lv ELSE b.level[x][y]]]

(* id_insert_at, ladder.apply(+q), push_tail and the best-price update, at *)
(* the slot h the arena handed out.                                        *)
Insert(b, h, r, s, q, t) ==
  LET lv == b.level[s][t]
  IN  [slot  |-> [i \in Slots |->
                    IF i = h THEN [ref |-> r, side |-> s, px |-> t, qty |-> q,
                                   prev |-> lv.tail, next |-> NullIndex]
                    ELSE IF i = lv.tail THEN [b.slot[i] EXCEPT !.next = h]
                    ELSE b.slot[i]],
       live  |-> b.live \union {h},
       id    |-> [b.id EXCEPT ![r] = h],
       level |-> WithLevel(b, s, t,
                    [total |-> lv.total + q,
                     head  |-> IF lv.tail = NullIndex THEN h ELSE lv.head,
                     tail  |-> h,
                     count |-> lv.count + 1]),
       page  |-> [b.page EXCEPT ![s] = @ \union {Page(t)}],
       best  |-> [b.best EXCEPT ![s] = IF @ = NoTick \/ Better(s, t, @) THEN t ELSE @]]

MutUnlinkedKeepsNext(b, h) ==
  [i \in Slots |->
     IF i = h THEN FreeSlot
     ELSE [b.slot[i] EXCEPT !.prev = IF i = b.slot[h].next THEN b.slot[h].prev ELSE @]]

MutUnlinkedKeepsPrev(b, h) ==
  [i \in Slots |->
     IF i = h THEN FreeSlot
     ELSE [b.slot[i] EXCEPT !.next = IF i = b.slot[h].prev THEN b.slot[h].next ELSE @]]

(* unlink: splice slot h out of its level.                                 *)
Unlinked(b, h) ==
  [i \in Slots |->
     IF i = h THEN FreeSlot
     ELSE [b.slot[i] EXCEPT !.next = IF i = b.slot[h].prev THEN b.slot[h].next ELSE @,
                            !.prev = IF i = b.slot[h].next THEN b.slot[h].prev ELSE @]]

MutDrained(lv, o) ==
  [total |-> lv.total - o.qty,
   head  |-> IF o.prev = NullIndex THEN o.next ELSE lv.head,
   tail  |-> IF o.next = NullIndex THEN o.prev ELSE lv.tail,
   count |-> IF lv.total = o.qty THEN 0 ELSE lv.count]

(* The level record after order o left it.                                 *)
Drained(lv, o) ==
  [total |-> lv.total - o.qty,
   head  |-> IF o.prev = NullIndex THEN o.next ELSE lv.head,
   tail  |-> IF o.next = NullIndex THEN o.prev ELSE lv.tail,
   count |-> lv.count - 1]

(* id_erase.                                                               *)
MutErased(b, h) == b.id
Erased(b, h) == [b.id EXCEPT ![b.slot[h].ref] = NullIndex]

(* The cached best after side s lost quantity at tick t.                   *)
Refill(b, s, t) ==
  IF b.level[s][t].total = 0 /\ b.best[s] = t
  THEN [b EXCEPT !.best[s] = NextBest(b, s, t)]
  ELSE b

(* reduce with something left: the order shrinks, ladder.apply(-q).        *)
Less(b, h, q) ==
  LET o == b.slot[h]
  IN  [slot  |-> [i \in Slots |-> IF i = h THEN [o EXCEPT !.qty = @ - q] ELSE b.slot[i]],
       live  |-> b.live,
       id    |-> b.id,
       level |-> WithLevel(b, o.side, o.px, [b.level[o.side][o.px] EXCEPT !.total = @ - q]),
       page  |-> b.page,
       best  |-> b.best]

Shrink(b, h, q) == Refill(Less(b, h, q), b.slot[h].side, b.slot[h].px)

(* reduce by the whole remainder: apply, unlink, release, id_erase.        *)
Rest(b, h) ==
  LET o == b.slot[h]
  IN  [slot  |-> Unlinked(b, h),
       live  |-> b.live \ {h},
       id    |-> Erased(b, h),
       level |-> WithLevel(b, o.side, o.px, Drained(b.level[o.side][o.px], o)),
       page  |-> b.page,
       best  |-> b.best]

Drop(b, h) == Refill(Rest(b, h), b.slot[h].side, b.slot[h].px)

Reduce(b, h, q) == IF q = b.slot[h].qty THEN Drop(b, h) ELSE Shrink(b, h, q)

----------------------------------------------------------------------------
(* Validation, in the order the code's early returns run.                  *)

AddError(b, r, s, q, t) ==
  IF r = ZeroRef THEN "zero_ref"
  ELSE IF q <= 0 THEN "bad_qty"
  ELSE IF ~InBand(t) THEN "out_of_band"
  ELSE IF ~Claimable(b, s, t) THEN "page_exhausted"
  ELSE IF Find(b, r) # NullIndex THEN "duplicate_ref"
  ELSE IF Full(b) THEN "arena_full"
  ELSE "ok"

MutExecuteError(b, r, q) ==
  IF q <= 0 THEN "bad_qty" ELSE IF Find(b, r) = NullIndex THEN "unknown_order" ELSE "ok"

ExecuteError(b, r, q) ==
  IF q <= 0 THEN "bad_qty"
  ELSE IF Find(b, r) = NullIndex THEN "unknown_order"
  ELSE IF q > b.slot[Find(b, r)].qty THEN "over_execute"
  ELSE "ok"

FrontError(b, s, t, q) ==
  IF q <= 0 THEN "bad_qty"
  ELSE IF ~HasLevel(b, s, t) THEN "empty_level"
  ELSE IF b.level[s][t].head = NullIndex THEN "empty_level"
  ELSE "ok"

ReplaceError(b, r, n, q, t) ==
  IF q <= 0 THEN "bad_qty"
  ELSE IF ~InBand(t) THEN "out_of_band"
  ELSE IF Find(b, r) = NullIndex THEN "unknown_order"
  ELSE IF ~Claimable(b, b.slot[Find(b, r)].side, t) THEN "page_exhausted"
  ELSE IF r # n /\ Find(b, n) # NullIndex THEN "duplicate_ref"
  ELSE "ok"

----------------------------------------------------------------------------
(* What audit() checks of a book (OrderBook.hpp:377-394, 569-606), as      *)
(* predicates on a book value.  In Queued, a[h] is the set of slots that   *)
(* joined h's level before h and are still there.                          *)

Index == Slots \union {NullIndex}

Order == [ref : Ref \union {ZeroRef}, side : Side, px : Ticks \union {NoTick},
          qty : Int, prev : Index, next : Index]

Level == [total : Int, head : Index, tail : Index, count : Int]

Book == [slot  : [Slots -> Order],
         live  : SUBSET Slots,
         id    : [Ref -> Index],
         level : [Side -> [Ticks -> Level]],
         page  : [Side -> SUBSET Pages],
         best  : [Side -> Ticks \union {NoTick}]]

(* A live slot holds a real order: a reference, a price in band and a      *)
(* positive quantity.                                                      *)
Typed(b) ==
  /\ b \in Book
  /\ \A h \in b.live : /\ b.slot[h].ref \in Ref
                       /\ b.slot[h].px \in Ticks
                       /\ b.slot[h].qty > 0

Indexed(b) ==
  /\ \A r \in Ref : b.id[r] # NullIndex =>
       b.id[r] \in b.live /\ b.slot[b.id[r]].ref = r
  /\ \A h \in b.live : b.id[b.slot[h].ref] = h

OrdersAt(b, s, t) == {h \in b.live : b.slot[h].side = s /\ b.slot[h].px = t}

(* One pair per resting share, so that their number is the quantity.       *)
Shares(b, s, t) == UNION {{h} \X (1 .. b.slot[h].qty) : h \in OrdersAt(b, s, t)}

Aggregated(b) ==
  \A s \in Side, t \in Ticks :
    /\ b.level[s][t].total = Cardinality(Shares(b, s, t))
    /\ b.level[s][t].count = Cardinality(OrdersAt(b, s, t))

LinkedBack(b, a, h) ==
  LET o == b.slot[h]
  IN  IF o.prev = NullIndex
      THEN b.level[o.side][o.px].head = h /\ a[h] = {}
      ELSE /\ o.prev \in OrdersAt(b, o.side, o.px)
           /\ b.slot[o.prev].next = h
           /\ a[h] = a[o.prev] \union {o.prev}

LinkedOn(b, h) ==
  LET o == b.slot[h]
  IN  IF o.next = NullIndex
      THEN b.level[o.side][o.px].tail = h
      ELSE o.next \in OrdersAt(b, o.side, o.px) /\ b.slot[o.next].prev = h

Anchored(b, a, s, t) ==
  LET lv == b.level[s][t]
  IN  IF OrdersAt(b, s, t) = {}
      THEN lv.head = NullIndex /\ lv.tail = NullIndex
      ELSE /\ lv.head \in OrdersAt(b, s, t) /\ b.slot[lv.head].prev = NullIndex
           /\ lv.tail \in OrdersAt(b, s, t) /\ b.slot[lv.tail].next = NullIndex
           /\ OrdersAt(b, s, t) = a[lv.tail] \union {lv.tail}

Queued(b, a) ==
  /\ \A h \in b.live : /\ LinkedBack(b, a, h)
                       /\ LinkedOn(b, h)
                       /\ a[h] \subseteq OrdersAt(b, b.slot[h].side, b.slot[h].px) \ {h}
  /\ \A s \in Side, t \in Ticks : Anchored(b, a, s, t)

(* How a changes when slot h joins the back of its level in book b, and    *)
(* when it leaves.                                                         *)
Joined(a, b, h) ==
  [a EXCEPT ![h] = {i \in b.live \ {h} :
                      b.slot[i].side = b.slot[h].side /\ b.slot[i].px = b.slot[h].px}]

Left(a, h) == [i \in Slots |-> IF i = h THEN {} ELSE a[i] \ {h}]

(* brute_best, over the orders rather than the aggregates.                 *)
PricesOf(b, s) == {b.slot[h].px : h \in {g \in b.live : b.slot[g].side = s}}

BestCached(b) == \A s \in Side : b.best[s] = BestIn(s, PricesOf(b, s))

Paged(b) ==
  /\ \A s \in Side : Cardinality(b.page[s]) <= PagePool
  /\ \A h \in b.live : Page(b.slot[h].px) \in b.page[b.slot[h].side]

=============================================================================
