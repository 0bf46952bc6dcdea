---------------------------- MODULE MCStructures ----------------------------
(***************************************************************************)
(* Small instances of the six data structures the engine stands on, one    *)
(* of which each behaviour exercises while the others rest in their        *)
(* initial states:                                                         *)
(*                                                                         *)
(*   ladder     ten ticks on three pages, the last one cut short by the    *)
(*              band; two words of two bits per page, so that a search can *)
(*              stay in its word, jump through the summary or leave the    *)
(*              page; a pool one page short                                *)
(*   ref_index  three slots and eight table entries, four references so    *)
(*              that one can be fresh while the arena is full, and homes   *)
(*              at the end and the start of the table, so that clusters    *)
(*              form, wrap around its end and are erased at every position *)
(*   heap       six entries: a right child with children of its own        *)
(*   wheel      three levels of two buckets                                *)
(*   deltas     a ring of four entries that is overwritten twice           *)
(*   orders     the gateway's table growing from two slots to sixteen,     *)
(*              four references that collide before or after it grew       *)
(***************************************************************************)
EXTENDS Ladder, RefIndex, Scheduler, DeltaRing

VARIABLES
  which,
  now, chain, sorted, lastSeq, wslot, wfree, built, wnextSeq, wissued, wpopped,
  hash, slots, used, kept

(* Hashes that collide in every size of the table, in some, and in none.   *)
MCHashes == {<<7, 7, 7, 0>>, <<3, 7, 7, 4>>, <<1, 3, 5, 7>>, <<6, 2, 7, 15>>}

MCDelta == {-2, -1, 1}

MCRef   == 1 .. 4
MCStart == {0, 6, 7}

W == INSTANCE TimingWheel WITH
  Base <- 2, Levels <- 3, Time <- {0, 3, 4, 7}, Capacity <- 3, MaxSeq <- 4, MaxGen <- 1,
  Guarded <- TRUE,
  slot <- wslot, free <- wfree, nextSeq <- wnextSeq, issued <- wissued, popped <- wpopped

O == INSTANCE OrderTable WITH
  Ref <- 1 .. 4, Meta <- {"first", "second"}, Hashes <- MCHashes, StartSize <- 2, MaxSlots <- 16,
  size <- used

ASSUME LadderAssumption /\ TableAssumption /\ SchedulerAssumption /\ RingAssumption
ASSUME W!WheelAssumption /\ O!OrderTableAssumption

ladder == <<dir, claimed, page>>
wheel  == <<now, chain, sorted, lastSeq, wslot, wfree, built, wnextSeq, wissued, wpopped>>
orders == <<hash, slots, used, kept>>

(* Three collide at the end of the table and the fourth beyond its wrap;   *)
(* runs that start at neighbouring positions; two pairs.                   *)
MCHomes == {<<7, 7, 7, 0>>, <<6, 6, 7, 0>>, <<6, 7, 0, 0>>}

structures == <<which, ladder, tableVars, schedVars, wheel, ringVars, orders>>

StructuresInit ==
  /\ which \in {"ladder", "ref_index", "heap", "wheel", "deltas", "orders"}
  /\ Init /\ TableInit /\ SchedInit /\ W!Init /\ RingInit /\ O!Init
  /\ home \in IF which = "ref_index" THEN MCHomes ELSE {[r \in 1 .. 4 |-> 0]}
  /\ which # "orders" => hash = <<1, 3, 5, 7>>

StructuresNext ==
  /\ which' = which
  /\ \/ which = "ladder" /\ Next /\ UNCHANGED <<tableVars, schedVars, wheel, ringVars, orders>>
     \/ which = "ref_index" /\ TableNext /\ UNCHANGED <<ladder, schedVars, wheel, ringVars, orders>>
     \/ which = "heap" /\ SchedNext /\ UNCHANGED <<ladder, tableVars, wheel, ringVars, orders>>
     \/ which = "wheel" /\ W!Next /\ UNCHANGED <<ladder, tableVars, schedVars, ringVars, orders>>
     \/ which = "deltas" /\ RingNext /\ UNCHANGED <<ladder, tableVars, schedVars, wheel, orders>>
     \/ which = "orders" /\ O!Next /\ UNCHANGED <<ladder, tableVars, schedVars, wheel, ringVars>>

StructuresSpec == StructuresInit /\ [][StructuresNext]_structures

----------------------------------------------------------------------------
(* The properties are stated, and related to the code, in the modules.     *)

(* The ladder: see MasksExact, SearchesExact and ImplementsLevelMap.       *)
(* The id table and the arena: see ArenaSound and ImplementsRefMap.        *)

(* The heap: see HeapSound and HeapIsQueue.                                *)
(* The delta ring: see FoldOrTold.                                         *)

(* The wheel is sound, and its scan for out-of-order inserts never runs.   *)
BucketsInOrder == which = "wheel" => W!BucketsInOrder
(* The wheel is an event queue.                                            *)
WheelIsQueue ==
  W!Queue!Init /\ [][which = "wheel" => W!Queue!Steps]_structures
(* The gateway's table finds every order, also after it grew.              *)
OrdersFound == which = "orders" => O!OrdersFound

=============================================================================
