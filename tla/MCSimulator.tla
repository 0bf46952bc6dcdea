---------------------------- MODULE MCSimulator ----------------------------
(***************************************************************************)
(* A small instance of Simulator.  Depth is offered at two ticks; orders   *)
(* of the strategy rest on both sides, cross, hide and peg.  Three slots   *)
(* hold external and strategy orders at once, so that a queue can          *)
(* interleave them.                                                        *)
(***************************************************************************)
EXTENDS Simulator

MCSeeds == {[side |-> "S", qty |-> 1, px |-> t] : t \in {10}}

MCIcebergSeeds == {[side |-> "S", px |-> 11, display |-> 1, total |-> 2]}

Plain(s, q, t, type) == [side |-> s, qty |-> q, px |-> t, type |-> type,
                         peg |-> "none", offset |-> 0, non_displayed |-> FALSE]

MCInbounds ==
  {Plain("S", 2, 10, "post_only"), Plain("B", 1, 11, "day_limit"),
   Plain("B", 2, 10, "ioc"), Plain("B", 4, 10, "market"),
   [Plain("S", 1, 10, "day_limit") EXCEPT !.non_displayed = TRUE],
   Plain("S", 1, 10, "primary_peg")}

(* One order at each of three ticks, an order of the strategy behind the   *)
(* last one, and a sweep of all three, with room to note the first only.   *)
NoSeeds == {}
SweepSeeds == {[side |-> "S", qty |-> 1, px |-> t] : t \in {10, 11, 12}}
SweepInbounds == {Plain("S", 1, 12, "post_only"), Plain("B", 3, 10, "market")}

Symmetry == Permutations(Slots) \union Permutations(External) \union Permutations(Strategy)

=============================================================================
