----------------------------- MODULE DeltaRing -----------------------------
(***************************************************************************)
(* The ring of level transitions of include/mog/SnapshotRing.hpp: pushes   *)
(* number the deltas of the book and overwrite the oldest entry once the   *)
(* ring is full; a reader traverses what is left and folds it.             *)
(***************************************************************************)
EXTENDS Integers, Sequences

CONSTANTS
  RingSize,    (* kCapacity, a power of two                                *)
  Deltas,      (* what is pushed                                           *)
  MaxPushes    (* bound: pushes                                            *)

RingAssumption == RingSize \in Nat \ {0} /\ MaxPushes \in Nat

VARIABLES
  ring,      (* slots_                                                     *)
  head,      (* head_: the slot the next push writes                       *)
  filled,    (* size_                                                      *)
  next,      (* next_seq_                                                  *)
  dropped,   (* dropped_                                                   *)
  pushed     (* history: every delta pushed                                *)

ringVars == <<ring, head, filled, next, dropped, pushed>>

Places == 0 .. (RingSize - 1)
Blank  == [seq |-> 0, delta |-> "none"]

RingInit ==
  /\ ring = [p \in Places |-> Blank]
  /\ head = 0 /\ filled = 0 /\ next = 0 /\ dropped = 0
  /\ pushed = <<>>

(* push                                                                    *)
PushDelta(d) ==
  /\ next < MaxPushes
  /\ ring' = [ring EXCEPT ![head] = [seq |-> next, delta |-> d]]
  /\ head' = (head + 1) % RingSize
  /\ filled' = IF filled < RingSize THEN filled + 1 ELSE filled
  /\ dropped' = IF filled < RingSize THEN dropped ELSE dropped + 1
  /\ next' = next + 1
  /\ pushed' = Append(pushed, d)

RingNext == \E d \in Deltas : PushDelta(d)

RingSpec == RingInit /\ [][RingNext]_ringVars

----------------------------------------------------------------------------
(* Operators named Mut... are mistakes one could make in the definition    *)
(* that follows; nothing uses them.                                        *)
MutBase == 0

(* Where a traversal starts.                                               *)
Base == IF filled < RingSize THEN 0 ELSE head

(* for_each: what a traversal hands to its callback, oldest first.         *)
Live == [i \in 1 .. filled |-> ring[(Base + i - 1) % RingSize]]

(* A reader that last folded the transition before number n either finds   *)
(* every later one in the ring, in order and without a hole, as the last   *)
(* ones a traversal hands it, or learns from dropped_count that it must    *)
(* start over (SnapshotRing.hpp:26, 46-51).                                *)
FoldOrTold ==
  \A n \in 0 .. next :
    dropped <= n =>
      LET unseen == {i \in DOMAIN Live : Live[i].seq >= n}
          seen   == filled - (next - n)
      IN  /\ seen >= 0 /\ unseen = seen + 1 .. filled
          /\ \A k \in 1 .. next - n :
               Live[seen + k] = [seq |-> n + k - 1, delta |-> pushed[n + k]]

=============================================================================
