------------------------------- MODULE RefMap -------------------------------
(***************************************************************************)
(* What the id table and the arena together promise the book: a finite map *)
(* from order references to distinct slots, with room for one order per    *)
(* slot.  This is the view BookOps takes ("id" and "live").                *)
(***************************************************************************)
EXTENDS FiniteSets

CONSTANTS Ref, Slot

VARIABLE at   (* a function from the references that rest to their slots    *)

Used == {at[r] : r \in DOMAIN at}

Init == at = [r \in {} |-> r]

Add ==
  \E r \in Ref \ DOMAIN at, h \in Slot \ Used :
    at' = [x \in DOMAIN at \union {r} |-> IF x = r THEN h ELSE at[x]]

Remove ==
  \E r \in DOMAIN at : at' = [x \in DOMAIN at \ {r} |-> at[x]]

(* A replacement: one order leaves, another takes any slot then free.      *)
Swap ==
  \E r \in DOMAIN at : \E n \in (Ref \ DOMAIN at) \union {r} :
    \E h \in (Slot \ Used) \union {at[r]} :
      at' = [x \in (DOMAIN at \ {r}) \union {n} |-> IF x = n THEN h ELSE at[x]]

Steps == [Add \/ Remove \/ Swap]_at

Spec == Init /\ [][Steps]_at

=============================================================================
