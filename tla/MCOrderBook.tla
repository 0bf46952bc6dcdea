---------------------------- MODULE MCOrderBook ----------------------------
(***************************************************************************)
(* A small instance of OrderBook: three slots, so that a level can hold a  *)
(* head, a middle and a tail; four references, so that a reference can be  *)
(* fresh while the arena is full; two pages of two ticks and a pool of one *)
(* page per ladder, so that a claim can be refused; a price on either side *)
(* of the band.                                                            *)
(***************************************************************************)
EXTENDS OrderBook, TLC

Symmetry == Permutations(Ref) \union Permutations(Slots)

=============================================================================
