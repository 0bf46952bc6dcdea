----------------------------- MODULE Simulator -----------------------------
(***************************************************************************)
(* The execution simulator of include/mog/Simulate.hpp over the book of    *)
(* BookOps: strategy orders tracked by arena slot with the units queued    *)
(* ahead of them, self-trade prevention, external icebergs, the ledger of  *)
(* non-displayed orders, external executions and halts.                    *)
(*                                                                         *)
(* One action per public operation.  A decision is atomic in the code (it  *)
(* runs inside one event), so Decide takes any inbound order in any state: *)
(* that covers every order in which the event queue can deliver decisions, *)
(* and the Scheduler module covers the queue itself.                       *)
(*                                                                         *)
(* Left out: timestamps and jitter, fees, the flow intensities (a draw is  *)
(* any number up to MaxDraw) and the digests.                              *)
(***************************************************************************)
EXTENDS BookOps, Sequences, SequencesExt, Folds

CONSTANTS
  External,     (* references below external_ref_limit                      *)
  Seeds,        (* what seed_external is called with: [side, qty, px]        *)
  IcebergSeeds, (* what seed_iceberg is called with: [side, px, display, total] *)
  Inbounds,     (* SimInbound without its reference: [side, qty, px, type,   *)
                (* peg, offset, non_displayed]                               *)
  ReplaceQty, ReplacePrice,   (* what replace_strategy is called with       *)
  FlowQty,      (* sizes apply_external is called with                      *)
  MaxDraw,      (* the largest depletion drawn for a side                   *)
  DepthLevels,  (* depth_depletion_levels, with depth_decay_alpha = 1       *)
  StpModes,     (* the self-trade modes of the runs                         *)
  MapSize,      (* tracked levels per side the level map holds              *)
  TouchCap,     (* levels a sweep buffers before it needs the overflow slot *)
  MaxHidden, MaxIcebergs      (* bounds on the ledgers, for TLC only        *)

OrderType == {"market", "ioc", "day_limit", "post_only",
              "midpoint_peg", "primary_peg", "market_peg"}
PegKind   == {"none", "mid", "bid", "ask"}
StpMode   == {"none", "cancel_newest", "cancel_oldest", "decrement"}

ASSUME SimAssumption ==
  /\ External \subseteq Ref
  /\ {MaxDraw, DepthLevels, MapSize, TouchCap, MaxHidden, MaxIcebergs} \subseteq Nat
  /\ Seeds \subseteq [side : Side, qty : Int, px : Int]
  /\ IcebergSeeds \subseteq [side : Side, px : Int, display : Nat \ {0}, total : Nat]
  /\ \A ib \in IcebergSeeds : ib.total >= ib.display
  /\ Inbounds \subseteq [side : Side, qty : Nat, px : Int, type : OrderType, peg : PegKind,
                         offset : Int, non_displayed : BOOLEAN]
  /\ ReplaceQty \subseteq Int /\ ReplacePrice \subseteq Int /\ FlowQty \subseteq Nat
  /\ StpModes \subseteq StpMode

VARIABLES
  sim,     (* the simulator's working state, see IdleSim                    *)
  halted,  (* trading halt                                                  *)
  stp      (* self-trade prevention mode, fixed for a run                   *)

vars == <<sim, halted, stp>>

Strategy == Ref \ External
Opposite(s) == IF s = "B" THEN "S" ELSE "B"
NoRecord == [live |-> FALSE, linked |-> FALSE, ref |-> ZeroRef, side |-> "B",
             px |-> NoTick, rem |-> 0, ahead |-> 0]

(* book; the tracker of each slot; the iceberg registry and the hidden     *)
(* ledger in the order of their vectors; the levels the map holds and the  *)
(* ones that found it full; the slots synced by the current operation; and *)
(* "drift", a history no operation reads: the levels the code leaves with  *)
(* positions it did not bring up to date.                                  *)
IdleSim ==
  [book |-> EmptyBook, tracked |-> [h \in Slots |-> NoRecord],
   icebergs |-> <<>>, hidden |-> <<>>,
   mapped |-> [s \in Side |-> {}], fallback |-> [s \in Side |-> {}],
   synced |-> {}, drift |-> {}]

Touch(w, s) == w.book.best[s]
QtyAt(w, s, t) == IF InBand(t) THEN w.book.level[s][t].total ELSE 0
FrontSlot(w, s, t) == w.book.level[s][t].head

----------------------------------------------------------------------------
(* Queue positions.                                                        *)

(* What a walk of the level's links counts before it meets slot h.         *)
AheadOf(b, h) ==
  LET back[n \in 0 .. Cardinality(Slots)] ==
        IF n = 0 THEN [at |-> b.slot[h].prev, sum |-> 0]
        ELSE LET was == back[n - 1]
             IN  IF was.at = NullIndex THEN was
                 ELSE [at |-> b.slot[was.at].prev, sum |-> was.sum + b.slot[was.at].qty]
  IN  back[Cardinality(Slots)].sum

(* recompute_positions, on every level of a set.                           *)
RecomputeAll(w, levels) ==
  [w EXCEPT !.tracked = [h \in Slots |->
                           IF @[h].live /\ <<w.book.slot[h].side, w.book.slot[h].px>> \in levels
                           THEN [@[h] EXCEPT !.ahead = AheadOf(w.book, h)]
                           ELSE @[h]],
            !.drift = @ \ levels]

Recompute(w, s, t) == RecomputeAll(w, {<<s, t>>})

(* track_resting, with link_tracked and level_get: slot h rests at the     *)
(* tail of its level, so all of the level but itself is ahead.             *)
Track(w, h, r, s, q, t) ==
  LET room == t \in w.mapped[s] \/ Cardinality(w.mapped[s]) < MapSize
  IN  [w EXCEPT !.tracked[h] = [live |-> TRUE, linked |-> room, ref |-> r, side |-> s, px |-> t,
                                rem |-> q, ahead |-> QtyAt(w, s, t) - q],
                !.mapped[s] = IF room THEN @ \union {t} ELSE @,
                !.fallback[s] = IF room THEN @ ELSE @ \union {t}]

(* live = false and unlink_tracked: nothing reads the record any more.     *)
Untrack(w, h) == [w EXCEPT !.tracked[h] = NoRecord]

(* Operators named Mut... are mistakes one could make in the definition    *)
(* that follows; nothing uses them (see BookOps).                          *)
MutMates(w, s, t, skip) ==
  {h \in Slots : w.tracked[h].linked /\ w.tracked[h].side = s /\ w.tracked[h].px = t}

(* The members of a level's list, without the ones synced in this sweep.   *)
Mates(w, s, t, skip) ==
  {h \in Slots : /\ w.tracked[h].linked /\ w.tracked[h].side = s /\ w.tracked[h].px = t
                 /\ ~(skip /\ h \in w.synced)}

(* subtract_level: a level the map could not take is walked instead.       *)
Subtract(w, s, t, q, skip) ==
  IF t \in w.mapped[s]
  THEN [w EXCEPT !.tracked = [h \in Slots |->
                   IF h \in Mates(w, s, t, skip)
                   THEN [w.tracked[h] EXCEPT !.ahead = @ - q]
                   ELSE w.tracked[h]]]
  ELSE IF t \in w.fallback[s] THEN Recompute(w, s, t)
  ELSE w

----------------------------------------------------------------------------
(* Taking quantity.                                                        *)

MutTake(w, h, q) ==
  LET all == q = w.book.slot[h].qty
  IN  [w EXCEPT !.book = Reduce(@, h, q),
                !.tracked[h] = IF ~@.live THEN @
                               ELSE IF all THEN NoRecord
                               ELSE [@ EXCEPT !.ahead = 0]]

(* reduce_and_sync: slot h, head of its level, loses q.                    *)
Take(w, h, q) ==
  LET left == w.book.slot[h].qty - q
      mine == w.tracked[h].live
  IN  [w EXCEPT !.book = Reduce(@, h, q),
                !.synced = IF mine THEN @ \union {h} ELSE @,
                !.tracked[h] = IF ~mine THEN @
                               ELSE IF left = 0 THEN NoRecord
                               ELSE [@ EXCEPT !.rem = left, !.ahead = 0]]

(* iceberg_index_of: the first entry of that reference, 0 if none.         *)
IcebergOf(w, r) == SelectInSeq(w.icebergs, LAMBDA e : e.ref = r)

(* replenish_if_iceberg and drop_iceberg.  The new slice lands in slot h,  *)
(* which the consumed one gave back an instant before (Arena.hpp:82-83).   *)
Replenish(w, r, h) ==
  LET i == IcebergOf(w, r)
  IN  IF i = 0 \/ Find(w.book, r) # NullIndex THEN w
      ELSE LET e     == w.icebergs[i]
               slice == IF e.display < e.hidden THEN e.display ELSE e.hidden
               moved == [w.icebergs EXCEPT ![i] = Last(w.icebergs)]
           IN  IF e.hidden = 0 THEN w
               ELSE [w EXCEPT !.book = Insert(@, h, r, e.side, slice, e.px),
                              !.icebergs =
                                IF e.hidden = slice THEN Front(moved)
                                ELSE [w.icebergs EXCEPT ![i].hidden = @ - slice]]

MutHeadTurn(c, s, t) ==
  LET h == FrontSlot(c.w, s, t)
      o == c.w.book.slot[h]
      k == IF c.rem < o.qty THEN c.rem ELSE o.qty
  IN  IF c.rem = 0 \/ h = NullIndex THEN c
      ELSE [w |-> Take(c.w, h, k), rem |-> c.rem - k]

(* One turn of the loop of consume_level: the head gives what it can of    *)
(* the rem units wanted.                                                   *)
HeadTurn(c, s, t) ==
  LET h == FrontSlot(c.w, s, t)
      o == c.w.book.slot[h]
      k == IF c.rem < o.qty THEN c.rem ELSE o.qty
  IN  IF c.rem = 0 \/ h = NullIndex THEN c
      ELSE [w |-> Replenish(Take(c.w, h, k), o.ref, h), rem |-> c.rem - k]

(* The loop, which ends after at most one turn per unit.                   *)
Heads(w, s, t, q) ==
  LET turn[n \in 0 .. q] ==
        IF n = 0 THEN [w |-> w, rem |-> q] ELSE HeadTurn(turn[n - 1], s, t)
  IN  turn[q].w

(* consume_level.  A level outside the map is walked before it loses       *)
(* anything, so what it then loses is missing from the positions.          *)
Consume(w, s, t, q) ==
  LET fresh == [w EXCEPT !.synced = {}]
      late  == q > 0 /\ t \in w.fallback[s]
  IN  IF ~InBand(t) THEN fresh
      ELSE [Heads(Subtract(fresh, s, t, q, FALSE), s, t, q) EXCEPT
              !.drift = IF late THEN @ \union {<<s, t>>} ELSE @]

(* w with another ledger of hidden orders.                                 *)
WithHidden(w, ledger) == [w EXCEPT !.hidden = ledger]

(* tap_hidden: the ledger's entries at (s, t) give up to q units, oldest   *)
(* first; an entry that reaches zero leaves.  One turn looks at entry at,  *)
(* and every turn passes an entry or removes it.  Yields [w, taken].       *)
TapTurn(p, s, t) ==
  LET e == p.w.hidden[p.at]
      k == IF p.rem < e.qty THEN p.rem ELSE e.qty
  IN  IF p.rem = 0 \/ p.at > Len(p.w.hidden) THEN p
      ELSE IF e.side # s \/ e.px # t THEN [p EXCEPT !.at = @ + 1]
      ELSE IF k = e.qty
      THEN [p EXCEPT !.w = WithHidden(p.w, RemoveAt(p.w.hidden, p.at)),
                     !.rem = @ - k, !.taken = @ + k]
      ELSE [p EXCEPT !.w = WithHidden(p.w, [p.w.hidden EXCEPT ![p.at].qty = @ - k]),
                     !.at = @ + 1, !.rem = @ - k, !.taken = @ + k]

Tap(w, s, t, q) ==
  LET turn[n \in 0 .. Len(w.hidden)] ==
        IF n = 0 THEN [w |-> w, at |-> 1, rem |-> q, taken |-> 0] ELSE TapTurn(turn[n - 1], s, t)
      end == turn[Len(w.hidden)]
  IN  [w |-> end.w, taken |-> end.taken]

(* hidden_reference, and repeg_hidden over the ledger.                     *)
Reference(w, peg, offset) ==
  LET b == Touch(w, "B")
      a == Touch(w, "S")
      p == IF peg = "bid" THEN b
           ELSE IF peg = "ask" THEN a
           ELSE IF b = NoTick \/ a = NoTick THEN NoTick ELSE (a + b) \div 2
  IN  IF p = NoTick THEN NoTick ELSE p + offset

Repeg(w) ==
  WithHidden(w, [i \in DOMAIN w.hidden |->
    LET e  == w.hidden[i]
        px == Reference(w, e.peg, e.offset)
    IN  IF e.peg = "none" \/ px = NoTick THEN e ELSE [e EXCEPT !.px = px]])

----------------------------------------------------------------------------
(* The sweep of an aggressive order.  Its state: the simulator w, the      *)
(* units rem still wanted, what was filled at what cost, the worst price   *)
(* paid, the levels noted for the final subtraction, and how it ended.     *)

BestHidden(w, s) ==
  BestIn(s, {w.hidden[i].px : i \in {j \in DOMAIN w.hidden :
               w.hidden[j].side = s /\ w.hidden[j].qty # 0}})

NoNote == [px |-> NoTick, qty |-> 0]
SweepFrom(w, q) == [w |-> w, rem |-> q, filled |-> 0, notional |-> 0, worst |-> NoTick,
                    notes |-> <<>>, over |-> NoNote, stopped |-> FALSE, expunged |-> 0]

(* note_take.  The overflow slot takes the new price before the old one is *)
(* compared with it, so what it had gathered carries over.                 *)
Note(c, s, t, q) ==
  LET i == SelectInSeq(c.notes, LAMBDA n : n.px = t)
      flushed == IF c.over \in {NoNote, [c.over EXCEPT !.px = t]} THEN c.w
                 ELSE Subtract(c.w, s, c.over.px, c.over.qty, TRUE)
  IN  IF i # 0 THEN [c EXCEPT !.notes[i].qty = @ + q]
      ELSE IF Len(c.notes) < TouchCap
      THEN [c EXCEPT !.notes = Append(@, [px |-> t, qty |-> q])]
      ELSE [c EXCEPT !.w = flushed, !.over = [px |-> t, qty |-> @.qty + q]]

(* What the loop adds to its totals when it trades q at t.                 *)
Paid(c, w, t, q) == [c EXCEPT !.w = w, !.rem = @ - q, !.filled = @ + q,
                              !.notional = @ + q * t, !.worst = t]

MutTapped(c, s, t) ==
  LET p == Tap(c.w, s, t, c.rem) IN [c EXCEPT !.w = p.w, !.rem = @ - p.taken]

(* The call of tap_hidden with what the sweep still wants.                 *)
Tapped(c, s, t) ==
  LET p == Tap(c.w, s, t, c.rem)
  IN  IF c.rem = 0 \/ p.taken = 0 THEN [c EXCEPT !.w = IF c.rem = 0 THEN @ ELSE p.w]
      ELSE Paid(c, p.w, t, p.taken)

(* One match against the head at slot h of level t, whatever the mode.     *)
Match(c, s, t, h, mode) ==
  LET o    == c.w.book.slot[h]
      mine == c.w.tracked[h].live
      k    == IF c.rem < o.qty THEN c.rem ELSE o.qty
      hit(d) == Paid(d, Replenish(Take(d.w, h, k), o.ref, h), t, k)
  IN  IF mine /\ mode = "cancel_newest" THEN [c EXCEPT !.stopped = TRUE]
      ELSE IF mine /\ mode = "cancel_oldest"
      THEN Note([c EXCEPT !.w = [Untrack(c.w, h) EXCEPT !.book = Drop(@, h)],
                          !.expunged = @ + o.qty * t], s, t, o.qty)
      ELSE IF mine /\ mode = "decrement" THEN Note(hit(c), s, t, k)
      ELSE Tapped(hit(Note(c, s, t, k)), s, t)

MutSweepTurn(c, in, s, mode) ==
  LET t == Touch(c.w, s)
  IN  IF c.rem = 0 \/ c.stopped \/ t = NoTick \/ (in.type # "market" /\ Better(s, in.px, t))
      THEN c
      ELSE Match(c, s, t, FrontSlot(c.w, s, t), mode)

(* One turn of the loop of cross.  Hidden orders at a better price than    *)
(* the touch go first; the price bound ends the sweep on either.           *)
SweepTurn(c, in, s, mode) ==
  LET t      == Touch(c.w, s)
      hid    == BestHidden(c.w, s)
      better == hid # NoTick /\ (t = NoTick \/ Better(s, hid, t))
      aim    == IF better THEN hid ELSE t
      within == in.type = "market" \/ ~Better(s, in.px, aim)
  IN  IF c.rem = 0 \/ c.stopped \/ aim = NoTick \/ ~within THEN c
      ELSE IF better THEN Tapped(c, s, hid)
      ELSE Match(c, s, t, FrontSlot(c.w, s, t), mode)

(* The loop: a turn takes a unit, or an order that self-trade prevention   *)
(* removes, or is the last.                                                *)
Sweep(c, in, s, mode) ==
  LET turn[n \in 0 .. c.rem + Cardinality(Slots)] ==
        IF n = 0 THEN c ELSE SweepTurn(turn[n - 1], in, s, mode)
  IN  turn[c.rem + Cardinality(Slots)]

(* The final subtractions of cross.  An order stopped by cancel_newest     *)
(* returns before them, and before its notional is handed back.            *)
Settled(c, s) ==
  LET late == IF c.over = NoNote THEN c.w ELSE Subtract(c.w, s, c.over.px, c.over.qty, TRUE)
      noted[n \in 0 .. Len(c.notes)] ==
        IF n = 0 THEN late ELSE Subtract(noted[n - 1], s, c.notes[n].px, c.notes[n].qty, TRUE)
  IN  IF c.stopped
      THEN [c EXCEPT !.notional = 0,
                     !.w.drift = @ \union {<<s, c.notes[i].px>> : i \in DOMAIN c.notes}]
      ELSE [c EXCEPT !.w = noted[Len(c.notes)]]

Cross(w, in, mode) ==
  LET s == Opposite(in.side)
  IN  Settled(Sweep(SweepFrom([w EXCEPT !.synced = {}], in.qty), in, s, mode), s)

----------------------------------------------------------------------------
(* decide: the whole decision on an inbound order of reference r, as the   *)
(* state it leaves and the acknowledgement it pushes.                      *)

PegOf(in) ==
  CASE in.type = "midpoint_peg" -> "mid"
    [] in.type = "primary_peg"  -> IF in.side = "B" THEN "bid" ELSE "ask"
    [] in.type = "market_peg"   -> IF in.side = "B" THEN "ask" ELSE "bid"
    [] OTHER                    -> in.peg

Ack(kind, w, c, rests, cancelled) ==
  [kind |-> kind, w |-> w, filled |-> c.filled, notional |-> c.notional, worst |-> c.worst,
   expunged |-> c.expunged, rests |-> rests, cancelled |-> cancelled]

(* The end of decide: the remainder rests, hides or is cancelled.  A rest  *)
(* the book refuses is rejected, whatever was filled before.               *)
Remainder(c, r, in, peg) ==
  LET w     == c.w
      any   == c.filled > 0
      rests == in.type \notin {"market", "ioc"} /\ c.rem > 0
      kind  == IF any THEN "partial_then_rest" ELSE "rested"
      entry == [ref |-> r, side |-> in.side, px |-> in.px, qty |-> c.rem,
                peg |-> peg, offset |-> in.offset]
  IN  IF rests /\ ~in.non_displayed
      THEN IF AddError(w.book, r, in.side, c.rem, in.px) # "ok"
           THEN {Ack("rejected_unknown", w, c, 0, 0)}
           ELSE {Ack(kind, Track([w EXCEPT !.book = Insert(@, h, r, in.side, c.rem, in.px)],
                                 h, r, in.side, c.rem, in.px), c, c.rem, 0) :
                 h \in Slots \ w.book.live}
      ELSE IF rests THEN {Ack(kind, [w EXCEPT !.hidden = Append(@, entry)], c, c.rem, 0)}
      ELSE {Ack(IF any /\ c.rem = 0 THEN "filled" ELSE "partial_then_cancelled",
                w, c, 0, c.rem)}

MutCrosses(w, in) ==
  LET t == Touch(w, Opposite(in.side))
  IN  in.type = "market" \/ (t # NoTick /\ Better(Opposite(in.side), t, in.px))

(* Whether decide sends the order to cross.                                *)
Crosses(w, in) ==
  LET t == Touch(w, Opposite(in.side))
  IN  \/ in.type = "market"
      \/ /\ in.type \in {"ioc", "day_limit", "post_only"}
         /\ t # NoTick /\ ~Better(Opposite(in.side), in.px, t)

Outcomes(w0, r, in0, mode, halt) ==
  LET w    == Repeg(w0)
      peg  == PegOf(in0)
      px   == IF peg = "none" THEN in0.px ELSE Reference(w, peg, in0.offset)
      in   == [in0 EXCEPT !.px = px, !.non_displayed = @ \/ peg # "none"]
      none == SweepFrom(w, in.qty)
      hits == ~halt /\ Crosses(w, in)
      c    == IF hits THEN Cross(w, in, mode) ELSE none
  IN  IF (peg # "none" /\ px = NoTick) \/ Find(w.book, r) # NullIndex
      THEN {Ack("rejected_unknown", w, none, 0, 0)}
      ELSE IF hits /\ in.type = "post_only" THEN {Ack("rejected_would_cross", w, none, 0, 0)}
      ELSE IF c.stopped THEN {Ack("rejected_stp", c.w, c, 0, c.rem)}
      ELSE Remainder(c, r, in, peg)

----------------------------------------------------------------------------
(* What no later operation reads: the synced slots, and levels of drift    *)
(* that no tracked order is left on.                                       *)
Done(w) ==
  [w EXCEPT !.synced = {},
            !.drift = {d \in @ : \E h \in Slots : /\ w.tracked[h].live
                                                 /\ d = <<w.tracked[h].side, w.tracked[h].px>>}]

Moves(w) == sim' = Done(w) /\ UNCHANGED <<halted, stp>>

Init == sim = IdleSim /\ halted = FALSE /\ stp \in StpModes

(* seed_external.                                                          *)
SeedExternal(r, d) ==
  IF AddError(sim.book, r, d.side, d.qty, d.px) # "ok" THEN UNCHANGED vars
  ELSE \E h \in Slots \ sim.book.live :
         Moves([sim EXCEPT !.book = Insert(@, h, r, d.side, d.qty, d.px)])

(* seed_iceberg: a display slice rests, the registry keeps the rest.       *)
SeedIceberg(r, d) ==
  IF AddError(sim.book, r, d.side, d.display, d.px) # "ok" THEN UNCHANGED vars
  ELSE /\ Len(sim.icebergs) < MaxIcebergs
       /\ \E h \in Slots \ sim.book.live :
            Moves([sim EXCEPT
              !.book = Insert(@, h, r, d.side, d.display, d.px),
              !.icebergs = Append(@, [ref |-> r, side |-> d.side, px |-> d.px,
                                      display |-> d.display, hidden |-> d.total - d.display])])

(* One iteration of run_until: the decision on an inbound order.           *)
Decide(r, in) ==
  \E o \in Outcomes(sim, r, in, stp, halted) :
    Len(o.w.hidden) <= MaxHidden /\ Moves(o.w)

(* apply_external: an observed execution at an exact level; what exceeds   *)
(* the displayed quantity reaches non-displayed orders at that price.      *)
ApplyExternal(s, t, q) ==
  LET w     == Repeg(sim)
      avail == QtyAt(w, s, t)
  IN  /\ ~halted
      /\ Moves(IF q <= avail THEN Consume(w, s, t, q)
               ELSE Tap(Consume(w, s, t, avail), s, t, q - avail).w)

(* apply_depletion: at most DepthLevels levels, each losing its share of   *)
(* what is left and never less than one.                                   *)
DepleteTurn(d, s, lvl) ==
  LET share == IF d.rem \div (lvl + 1) = 0 THEN 1 ELSE d.rem \div (lvl + 1)
      k     == IF share < QtyAt(d.w, s, d.px) THEN share ELSE QtyAt(d.w, s, d.px)
      after == Consume(d.w, s, d.px, k)
  IN  IF d.rem = 0 \/ d.px = NoTick THEN d
      ELSE [w |-> after, px |-> NextBest(after.book, s, d.px), rem |-> d.rem - k]

Deplete(w, s, q) ==
  LET turn[n \in 0 .. DepthLevels] ==
        IF n = 0 THEN [w |-> w, px |-> Touch(w, s), rem |-> q] ELSE DepleteTurn(turn[n - 1], s, n - 1)
  IN  turn[DepthLevels].w

(* advance_time: a draw for the bids, then one for the asks.               *)
AdvanceTime(qb, qs) ==
  ~halted /\ Moves(Deplete(Deplete(sim, "B", qb), "S", qs))

HiddenOf(w, r) == SelectInSeq(w.hidden, LAMBDA e : e.ref = r)

IsTracked(w, r) == Find(w.book, r) # NullIndex /\ w.tracked[Find(w.book, r)].live

(* cancel_strategy.                                                        *)
CancelStrategy(r) ==
  IF IsTracked(sim, r)
  THEN LET h == Find(sim.book, r)
           o == sim.book.slot[h]
       IN  Moves(Recompute([Untrack(sim, h) EXCEPT !.book = Drop(@, h)], o.side, o.px))
  ELSE IF HiddenOf(sim, r) # 0
  THEN Moves([sim EXCEPT !.hidden = RemoveAt(@, HiddenOf(sim, r))])
  ELSE UNCHANGED vars

(* replace_strategy.  The replacement takes over the slot its original     *)
(* gave back.  Mates are brought up to date on the old level only when the *)
(* price changes.                                                          *)
ReplaceStrategy(r, n, q, t) ==
  IF IsTracked(sim, r)
  THEN LET h    == Find(sim.book, r)
           o    == sim.book.slot[h]
           gone == [Untrack(sim, h) EXCEPT !.book = Insert(Drop(@, h), h, n, o.side, q, t)]
           done == Track(gone, h, n, o.side, q, t)
       IN  IF ReplaceError(sim.book, r, n, q, t) # "ok" THEN UNCHANGED vars
           ELSE Moves(IF o.px # t THEN Recompute(done, o.side, o.px)
                      ELSE [done EXCEPT !.drift = @ \union {<<o.side, t>>}])
  ELSE IF HiddenOf(sim, r) # 0
  THEN LET i == HiddenOf(sim, r)
       IN  Moves([sim EXCEPT !.hidden[i].ref = n, !.hidden[i].px = t, !.hidden[i].qty = q])
  ELSE UNCHANGED vars

(* set_halted.                                                             *)
SetHalted(x) == halted' = x /\ UNCHANGED <<sim, stp>>

(* audit, which recomputes every tracked level as a side effect.           *)
Audit ==
  LET levels == {<<sim.tracked[h].side, sim.tracked[h].px>> :
                   h \in {g \in Slots : sim.tracked[g].linked}}
                \union UNION {{s} \X sim.fallback[s] : s \in Side}
  IN  Moves(RecomputeAll(sim, levels))

Next ==
  \/ \E r \in External, d \in Seeds : SeedExternal(r, d)
  \/ \E r \in External, d \in IcebergSeeds : SeedIceberg(r, d)
  \/ \E r \in Strategy, in \in Inbounds : Decide(r, in)
  \/ \E s \in Side, t \in Ticks, q \in FlowQty : ApplyExternal(s, t, q)
  \/ \E qb, qs \in 0 .. MaxDraw : AdvanceTime(qb, qs)
  \/ \E r \in Strategy : CancelStrategy(r)
  \/ \E r, n \in Strategy, q \in ReplaceQty, t \in ReplacePrice : ReplaceStrategy(r, n, q, t)
  \/ \E x \in BOOLEAN : SetHalted(x)
  \/ Audit

Spec == Init /\ [][Next]_vars

----------------------------------------------------------------------------
(* Properties.  The ones about decisions quantify over every decision that *)
(* could be taken in the state reached, so they cover each step Decide can *)
(* take from it.                                                           *)

(* The tracker array mirrors the book slot by slot: a live tracker is the  *)
(* strategy order resting in its slot, with its quantity, side and price,  *)
(* and no strategy order rests untracked, through fills, self-trade        *)
(* removals, replacements and the reuse of slots (verify_one,              *)
(* Simulate.hpp:1012-1017).                                                *)
TrackerMirrors ==
  \A h \in Slots :
    LET k == sim.tracked[h]
        o == sim.book.slot[h]
    IN  /\ k.live = (h \in sim.book.live /\ o.ref \in Strategy)
        /\ k.live => <<k.ref, k.side, k.px, k.rem>> = <<o.ref, o.side, o.px, o.qty>>

(* The units a tracked order believes are queued ahead of it, kept by      *)
(* subtraction, are what a walk of its queue counts; on a level the code   *)
(* is known not to have brought up to date it may only overstate them, so  *)
(* an order never believes it is nearer the front than it is               *)
(* (docs/FILLMODEL.md:35-42, Simulate.hpp:626-653, 1129-1150).             *)
PositionsSound ==
  \A h \in Slots : sim.tracked[h].live =>
    LET k    == sim.tracked[h]
        real == AheadOf(sim.book, h)
    IN  k.ahead = real \/ (<<k.side, k.px>> \in sim.drift /\ k.ahead > real)

(* An iceberg whose reserve is not spent has a slice in the queue, at its  *)
(* side and price and no larger than its display: no reserve is stranded   *)
(* (replenish_if_iceberg, Simulate.hpp:686-703).                           *)
ReservesQueued ==
  \A i \in DOMAIN sim.icebergs :
    LET e == sim.icebergs[i]
        h == Find(sim.book, e.ref)
        o == sim.book.slot[h]
    IN  e.hidden > 0 /\ IcebergOf(sim, e.ref) = i =>
          h # NullIndex /\ <<o.side, o.px>> = <<e.side, e.px>> /\ o.qty <= e.display

(* f[1] + ... + f[n].                                                      *)
Total(f, n) ==
  LET sum[i \in 0 .. n] == IF i = 0 THEN 0 ELSE sum[i - 1] + f[i]
  IN  sum[n]

(* Everything a side still offers, in price times quantity: on its levels, *)
(* in the reserves of its icebergs and in its non-displayed orders.        *)
LevelWorth(b, s) ==
  Total([i \in 1 .. (Hi - Lo) |-> LET t == Lo + i - 1 IN t * b.level[s][t].total], Hi - Lo)

ReserveWorth(ib, s) ==
  Total([i \in 1 .. Len(ib) |-> IF ib[i].side = s THEN ib[i].px * ib[i].hidden ELSE 0], Len(ib))

HiddenWorth(hd, s) ==
  Total([i \in 1 .. Len(hd) |-> IF hd[i].side = s THEN hd[i].px * hd[i].qty ELSE 0], Len(hd))

Worth(w, s) == LevelWorth(w.book, s) + ReserveWorth(w.icebergs, s) + HiddenWorth(w.hidden, s)

(* Every decision on one of the orders asked.  Which reference not in use  *)
(* it carries makes no difference to what is quantified.                   *)
OnDecision(asked, P(_, _)) ==
  LET spare == {r \in Strategy : Find(sim.book, r) = NullIndex}
  IN  spare # {} =>
        \A in \in asked : \A o \in Outcomes(sim, CHOOSE r \in spare : TRUE, in, stp, halted) :
          P(in, o)

(* A decision accounts for every unit: what was asked for is filled, rests *)
(* or is cancelled, and the value the other side lost is the notional the  *)
(* acknowledgement reports plus what self-trade prevention removed         *)
(* (Simulate.hpp:136-139, 769-984).  An order stopped by cancel_newest     *)
(* reports no notional (Simulate.hpp:832-834) and is excepted.             *)
DecisionsBalance ==
  OnDecision(Inbounds, LAMBDA in, o :
    LET s == Opposite(in.side)
    IN  /\ o.kind \in {"rejected_unknown", "rejected_would_cross"}
           \/ o.filled + o.rests + o.cancelled = in.qty
        /\ o.kind = "rejected_stp"
           \/ Worth(Repeg(sim), s) = Worth(o.w, s) + o.notional + o.expunged)

(* A sweep never trades through: when it ends, nothing displayed or hidden *)
(* is left at a better price than the worst it paid (Simulate.hpp:803-867). *)
NoTradeThrough ==
  OnDecision({in \in Inbounds : in.type # "post_only"}, LAMBDA in, o :
    LET s == Opposite(in.side)
    IN  o.filled > 0 => \A t \in {Touch(o.w, s), BestHidden(o.w, s)} :
                          t = NoTick \/ ~Better(s, t, o.worst))

(* Outside a halt no displayed remainder rests at a price the other side's *)
(* displayed best would have met (Simulate.hpp:911-923, 947-966).          *)
RestsUncrossed ==
  LET shown == {in \in Inbounds : /\ ~in.non_displayed /\ PegOf(in) = "none"
                                  /\ in.type \in {"day_limit", "post_only"}}
  IN  OnDecision(IF halted THEN {} ELSE shown, LAMBDA in, o :
        LET s == Opposite(in.side)
        IN  o.rests > 0 => Touch(o.w, s) = NoTick \/ Better(s, in.px, Touch(o.w, s)))

(* Tracked positions are exact after any mutation touching the level       *)
(* (docs/FILLMODEL.md:103-108).  replace_strategy recomputes the mates of  *)
(* the order it removes only when the price changes                        *)
(* (Simulate.hpp:374-377).                                                 *)
PositionsExact ==
  \A h \in Slots : sim.tracked[h].live => sim.tracked[h].ahead = AheadOf(sim.book, h)

(* Positions never go negative (docs/FILLMODEL.md:40-42).  A sweep over    *)
(* more levels than the buffer holds books what it took from a level it    *)
(* has already subtracted to the next one as well (Simulate.hpp:795-801).  *)
AheadNonNegative == \A h \in Slots : sim.tracked[h].live => sim.tracked[h].ahead >= 0

=============================================================================
