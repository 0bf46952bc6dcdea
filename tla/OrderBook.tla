----------------------------- MODULE OrderBook -----------------------------
(***************************************************************************)
(* The order book as a state machine: one action per public operation of   *)
(* include/mog/OrderBook.hpp, together with a consumer that folds the       *)
(* LevelDelta stream the operations emit (SnapshotRing.hpp) into an L2      *)
(* view of its own.                                                        *)
(*                                                                         *)
(* "ahead" is a history variable no action reads: for each slot, the slots *)
(* that were queued at the same level before it and are still there.       *)
(***************************************************************************)
EXTENDS BookOps

CONSTANTS
  Qty,        (* quantities a caller passes, not all of them valid          *)
  PriceArg,   (* prices a caller passes, not all of them in band            *)
  NewRef,     (* references a caller passes as a replacement's new one      *)
  DeltaSpan   (* LevelDelta::qty_delta holds -DeltaSpan .. DeltaSpan - 1    *)

ASSUME InputAssumption ==
  /\ Qty \subseteq Int
  /\ PriceArg \subseteq Int
  /\ NewRef \subseteq Ref \union {ZeroRef}
  /\ DeltaSpan \in Nat \ {0}

VARIABLES
  book,   (* the OrderBook                                                 *)
  l2,     (* the delta consumer's view: quantity per side and tick         *)
  ahead   (* history: who was queued earlier at the same level             *)

vars == <<book, l2, ahead>>

----------------------------------------------------------------------------
(* A delta half as wide (see BookOps on Mut... operators).                 *)
MutNarrow(d) == ((d + DeltaSpan \div 2) % DeltaSpan) - DeltaSpan \div 2

(* static_cast<std::int32_t> of a 64-bit quantity.                         *)
Narrow(d) == ((d + DeltaSpan) % (2 * DeltaSpan)) - DeltaSpan

Fold(v, s, t, d) == [v EXCEPT ![s][t] = @ + Narrow(d)]

----------------------------------------------------------------------------
Init ==
  /\ book = EmptyBook
  /\ l2 = [s \in Side |-> [t \in Ticks |-> 0]]
  /\ ahead = [i \in Slots |-> {}]

(* add(ref, side, qty, price).                                             *)
Add(r, s, q, t) ==
  IF AddError(book, r, s, q, t) # "ok"
  THEN UNCHANGED vars
  ELSE \E h \in Slots \ book.live :
         /\ book' = Insert(book, h, r, s, q, t)
         /\ l2' = Fold(l2, s, t, q)
         /\ ahead' = Joined(ahead, book', h)

(* reduce(handle, order, qty): the end of every operation that takes       *)
(* quantity away.                                                          *)
TakeFrom(h, q) ==
  LET o == book.slot[h]
  IN  /\ book' = Reduce(book, h, q)
      /\ l2' = Fold(l2, o.side, o.px, -q)
      /\ ahead' = IF q = o.qty THEN Left(ahead, h) ELSE ahead

(* execute(ref, qty) and cancel(ref, qty), which is the same.              *)
Execute(r, q) ==
  IF ExecuteError(book, r, q) # "ok"
  THEN UNCHANGED vars
  ELSE TakeFrom(Find(book, r), q)

(* execute_front(side, price, qty).  reduce requires that the head still   *)
(* holds qty; callers clamp to it.                                         *)
ExecuteFront(s, t, q) ==
  IF FrontError(book, s, t, q) # "ok"
  THEN UNCHANGED vars
  ELSE LET h == book.level[s][t].head
       IN  q <= book.slot[h].qty /\ TakeFrom(h, q)

(* remove(ref).                                                            *)
Remove(r) ==
  IF Find(book, r) = NullIndex
  THEN UNCHANGED vars
  ELSE TakeFrom(Find(book, r), book.slot[Find(book, r)].qty)

(* replace(orig, new, qty, price): validate, remove, add.  The result of   *)
(* the add is asserted, not tested: with contracts compiled out a refused  *)
(* add leaves the removal standing.                                        *)
Replace(r, n, q, t) ==
  IF ReplaceError(book, r, n, q, t) # "ok"
  THEN UNCHANGED vars
  ELSE LET h     == Find(book, r)
           o     == book.slot[h]
           mid   == Drop(book, h)
           v     == Fold(l2, o.side, o.px, -o.qty)
       IN  IF AddError(mid, n, o.side, q, t) = "ok"
           THEN \E g \in Slots \ mid.live :
                  /\ book' = Insert(mid, g, n, o.side, q, t)
                  /\ l2' = Fold(v, o.side, t, q)
                  /\ ahead' = Joined(Left(ahead, h), book', g)
           ELSE /\ book' = mid
                /\ l2' = v
                /\ ahead' = Left(ahead, h)

Next ==
  \/ \E r \in Ref, n \in NewRef, q \in Qty, t \in PriceArg : Replace(r, n, q, t)
  \/ \E r \in Ref \union {ZeroRef}, s \in Side, q \in Qty, t \in PriceArg : Add(r, s, q, t)
  \/ \E r \in Ref, q \in Qty : Execute(r, q)
  \/ \E s \in Side, t \in PriceArg, q \in Qty : ExecuteFront(s, t, q)
  \/ \E r \in Ref : Remove(r)

Spec == Init /\ [][Next]_vars

----------------------------------------------------------------------------
(* Properties.                                                             *)

(* Every component holds a value of its kind, and a live slot holds a real *)
(* order (OrderBook.hpp:206-245, 517-567).                                 *)
TypeOK ==
  /\ Typed(book)
  /\ l2 \in [Side -> [Ticks -> Int]]
  /\ ahead \in [Slots -> SUBSET Slots]

(* The id table and the arena agree: a reference resolves to the live slot *)
(* that carries it, and every live slot is reachable by its reference.     *)
(* This is the membership half of audit() (OrderBook.hpp:384-393).         *)
IndexExact == Indexed(book)

(* Walking a level's links meets its orders exactly in arrival order: the  *)
(* order without a predecessor is the head and the oldest, every other one *)
(* has exactly its predecessor and that one's elders ahead, and the tail   *)
(* is the last (push_tail and unlink, OrderBook.hpp:492-515).              *)
FifoExact == Queued(book, ahead)

(* A level's aggregate, which the code maintains by adding and subtracting *)
(* deltas (Ladder.hpp:89-120), equals the sum over the orders queued there, *)
(* and its count is their number.                                          *)
AggregatesExact == Aggregated(book)

(* The cached best prices are the best prices of the resting orders,       *)
(* although they are only touched when a level gains its first or loses    *)
(* its last share (OrderBook.hpp:227-233, 552-559).                        *)
BestExact == BestCached(book)

(* The ladders never claim more pages than their pools hold, and every     *)
(* order rests on a claimed page: with contracts compiled out a claim past *)
(* the pool would index past the array (Ladder.hpp:77-99).                 *)
PagesWithinPool == Paged(book)

(* Folding every emitted delta reproduces the live L2 aggregates           *)
(* (docs/BOOK.md:116-119), through replaces that emit two deltas and       *)
(* removals at either end of a queue.                                      *)
L2FoldExact == \A s \in Side, t \in Ticks : l2[s][t] = book.level[s][t].total

(* The slots a reader meets who starts at the head of a level and follows  *)
(* next links, as for_each_in_level does (OrderBook.hpp:161-172), ...      *)
Walk(b, s, t) ==
  LET walk[k \in 0 .. Cardinality(Slots)] ==
        IF k = 0 THEN b.level[s][t].head
        ELSE IF walk[k - 1] = NullIndex THEN NullIndex
        ELSE b.slot[walk[k - 1]].next
  IN  walk

(* ... and what it reads there, up to where the links end.                 *)
QueueOf(b, s, t) ==
  LET walk == Walk(b, s, t)
      len  == CHOOSE n \in 0 .. Cardinality(Slots) :
                walk[n] = NullIndex /\ \A k \in 0 .. (n - 1) : walk[k] # NullIndex
  IN  [k \in 1 .. len |-> [ref |-> b.slot[walk[k - 1]].ref, qty |-> b.slot[walk[k - 1]].qty]]

Queues(b) == [s \in Side |-> [t \in Ticks |-> QueueOf(b, s, t)]]

PriceTime == INSTANCE PriceTimeBook WITH Qty <- Qty \ {0}, queue <- Queues(book)

(* Read through its links, the book behaves as the plain price-time queues *)
(* of PriceTimeBook: every operation is one of its steps or leaves every   *)
(* queue as it was, replace included (OrderBook.hpp:301-339).              *)
ImplementsPriceTime == PriceTime!Spec

(* The assertion after replace's add, MOG_CONTRACT_ASSERT(ok(added))       *)
(* (OrderBook.hpp:331-332): a replacement that passed validation is        *)
(* resting afterwards, with the quantity and price asked for.              *)
ReplaceLandsOn(r, n, q, t) ==
  Replace(r, n, q, t) /\ ReplaceError(book, r, n, q, t) = "ok" =>
    /\ n \in Ref
    /\ book'.id[n] \in book'.live
    /\ book'.slot[book'.id[n]].qty = q
    /\ book'.slot[book'.id[n]].px = t

ReplaceLands ==
  [][\A r \in Ref, n \in NewRef, q \in Qty, t \in PriceArg : ReplaceLandsOn(r, n, q, t)]_vars

=============================================================================
