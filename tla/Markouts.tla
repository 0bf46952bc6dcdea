------------------------------ MODULE Markouts ------------------------------
(***************************************************************************)
(* Markouts (Metrics.hpp): the price of each fill against the first mid    *)
(* sampled at or after each of three horizons.  Mids and fills stream in   *)
(* independently: a horizon that has been reached when the fill arrives is *)
(* measured at once, the others stay pending until a mid reaches them, and *)
(* a fill measured at all horizons leaves the pending list by swapping     *)
(* with the last.                                                          *)
(***************************************************************************)
EXTENDS Integers, Sequences, SequencesExt, FiniteSets, FiniteSetsExt

CONSTANTS
  Horizons,   \* kHorizons, in increasing order
  Time,       \* times of mids and fills
  Mid2,       \* doubled mids
  Price,      \* prices of fills
  MaxMids, MaxFills    \* bounds

VARIABLES
  mids,       \* mids_: samples [ts, mid2], times not decreasing
  pending,    \* pending_: [ts, price, side, measured]
  sum, n,     \* per horizon
  fills       \* history: every fill added

vars == <<mids, pending, sum, n, fills>>

H == DOMAIN Horizons

Init ==
  /\ mids = <<>> /\ pending = <<>> /\ fills = <<>>
  /\ sum = [h \in H |-> 0] /\ n = [h \in H |-> 0]

(* sample_at: the first sample at or after a time, none if there is none.  *)
SamplesAt(samples, ts) ==
  LET after == {i \in DOMAIN samples : samples[i].ts >= ts}
  IN IF after = {} THEN {} ELSE {samples[Min(after)]}

Markout(price, side, mid2) == IF side = "B" THEN mid2 \div 2 - price ELSE price - mid2 \div 2

(* A fill measured at every horizon that was not measured and is reached.  *)
Reached(samples, p) == {h \in H \ p.measured : SamplesAt(samples, p.ts + Horizons[h]) # {}}

Gain(samples, p, h) ==
  Markout(p.price, p.side, (CHOOSE s \in SamplesAt(samples, p.ts + Horizons[h]) : TRUE).mid2)

(* acc holds the sums, the counts and the pending list; accumulate.        *)
Measured(acc, samples, p) ==
  LET hs == Reached(samples, p) IN
  [acc EXCEPT !.sum = [h \in H |-> acc.sum[h] + IF h \in hs THEN Gain(samples, p, h) ELSE 0],
              !.n   = [h \in H |-> acc.n[h] + IF h \in hs THEN 1 ELSE 0]]

Left(samples, p) == [p EXCEPT !.measured = @ \union Reached(samples, p)]

(* A fill leaves the pending list: the last one takes its place.           *)
SwapOut(ps, i) == SubSeq([ps EXCEPT ![i] = ps[Len(ps)]], 1, Len(ps) - 1)

(* Mutant: the loop moves on after a swap.                                 *)
RECURSIVE MutResolved(_, _, _)
MutResolved(acc, samples, i) ==
  IF i > Len(acc.pending) THEN acc
  ELSE LET p    == Left(samples, acc.pending[i])
           next == Measured(acc, samples, acc.pending[i])
       IN IF p.measured = H
          THEN MutResolved([next EXCEPT !.pending = SwapOut(@, i)], samples, i + 1)
          ELSE MutResolved([next EXCEPT !.pending[i] = p], samples, i + 1)

(* The loop of add_mid over the pending fills, from the i-th on.           *)
RECURSIVE Resolved(_, _, _)
Resolved(acc, samples, i) ==
  IF i > Len(acc.pending) THEN acc
  ELSE LET p    == Left(samples, acc.pending[i])
           next == Measured(acc, samples, acc.pending[i])
       IN IF p.measured = H
          THEN Resolved([next EXCEPT !.pending = SwapOut(@, i)], samples, i)
          ELSE Resolved([next EXCEPT !.pending[i] = p], samples, i + 1)

Acc == [sum |-> sum, n |-> n, pending |-> pending]

(* add_mid: times do not decrease.                                         *)
AddMid(ts, mid2) ==
  /\ Len(mids) < MaxMids
  /\ mids # <<>> => ts >= mids[Len(mids)].ts
  /\ mids' = Append(mids, [ts |-> ts, mid2 |-> mid2])
  /\ LET acc == Resolved(Acc, mids', 1) IN
       sum' = acc.sum /\ n' = acc.n /\ pending' = acc.pending
  /\ UNCHANGED fills

(* add_fill                                                                *)
AddFill(ts, price, side) ==
  LET p   == [ts |-> ts, price |-> price, side |-> side, measured |-> {}]
      acc == Measured(Acc, mids, p)
  IN
  /\ Len(fills) < MaxFills
  /\ sum' = acc.sum /\ n' = acc.n
  /\ pending' = IF Left(mids, p).measured = H THEN pending ELSE Append(pending, Left(mids, p))
  /\ fills' = Append(fills, p)
  /\ UNCHANGED mids

Next ==
  \/ \E ts \in Time, m \in Mid2 : AddMid(ts, m)
  \/ \E ts \in Time, p \in Price, side \in {"B", "S"} : AddFill(ts, p, side)

----------------------------------------------------------------------------
(* Whatever the order in which fills and mids arrived, each fill counts    *)
(* once at every horizon a mid has reached, against the first such mid,    *)
(* and not yet at the others.                                              *)
MarkoutsExact ==
  \A h \in H :
    LET due == {i \in DOMAIN fills : h \in Reached(mids, fills[i])} IN
    /\ n[h] = Cardinality(due)
    /\ sum[h] = MapThenSumSet(LAMBDA i : Gain(mids, fills[i], h), due)
=============================================================================
