------------------------------ MODULE LevelMap ------------------------------
(***************************************************************************)
(* What a price ladder promises the book: one aggregate quantity per tick  *)
(* of the band, and a budget of pages that ticks open and never close.     *)
(***************************************************************************)
EXTENDS Integers, FiniteSets

CONSTANTS Lo, Hi, PageTicks, PagePool

VARIABLES
  qty,    (* the quantity resting at each tick                             *)
  open    (* the page numbers touched so far                               *)

Ticks   == Lo .. (Hi - 1)
Page(t) == (t - Lo) \div PageTicks

Init ==
  /\ qty = [t \in Ticks |-> 0]
  /\ open = {}

(* A tick gains or loses quantity, if its page is open or can be opened.   *)
Change ==
  \E t \in Ticks :
    /\ qty' # qty
    /\ qty'[t] \in Nat
    /\ qty' = [qty EXCEPT ![t] = qty'[t]]
    /\ open' = open \union {Page(t)}
    /\ Cardinality(open') <= PagePool

Steps == [Change]_<<qty, open>>

Spec == Init /\ [][Steps]_<<qty, open>>

=============================================================================
