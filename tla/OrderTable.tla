----------------------------- MODULE OrderTable -----------------------------
(***************************************************************************)
(* The gateway's table of orders (FlatOrderTable in OUCH.hpp): open        *)
(* addressing with linear probing, which doubles when it is half full and  *)
(* shifts entries back when one is erased.  Unlike the table of the order  *)
(* book (RefIndex) it grows, and then every entry gets another first place *)
(* to look.                                                                *)
(*                                                                         *)
(* hash is any function, chosen once; the place of a reference in a table  *)
(* of n slots is its hash modulo n.                                        *)
(***************************************************************************)
EXTENDS Integers, FiniteSets, FiniteSetsExt, SequencesExt

CONSTANTS
  Ref,         \* references of orders; 0 marks an empty slot
  Meta,        \* what is kept of an order
  Hashes,      \* the functions the hash may be
  StartSize,   \* slots of a constructed table, a power of two
  MaxSlots     \* bounds the growth

OrderTableAssumption ==
  /\ Ref \subseteq Nat \ {0} /\ StartSize \in Nat \ {0, 1}
  /\ Hashes \subseteq [Ref -> Nat]

VARIABLES
  hash,
  slots,       \* slots_: place -> [ref, meta]; mask_ is the last place
  size,        \* size_
  kept         \* history: reference -> what was last assigned and not erased

vars == <<hash, slots, size, kept>>

Unused == [ref |-> 0, meta |-> "none"]

Emptied(n) == [p \in 0 .. n - 1 |-> Unused]

Init ==
  /\ hash \in Hashes
  /\ slots = Emptied(StartSize)
  /\ size = 0
  /\ kept = [r \in {} |-> "none"]

Slots(tab) == Cardinality(DOMAIN tab)

(* The place k steps along the probe for r.                                *)
Place(tab, r, k) == (hash[r] + k) % Slots(tab)

(* The steps after which a probe for r stops: at r or at an empty slot.    *)
Stops(tab, r) == {k \in DOMAIN tab : tab[Place(tab, r, k)].ref \in {0, r}}

(* Nothing is entered, and nothing found, when no slot stops the probe.    *)
Entered(tab, r, m) ==
  IF Stops(tab, r) = {} THEN tab
  ELSE [tab EXCEPT ![Place(tab, r, Min(Stops(tab, r)))] = [ref |-> r, meta |-> m]]

(* find: the order's entry, or nothing.                                    *)
Find(tab, r) ==
  LET at == Place(tab, r, Min(Stops(tab, r))) IN
  IF Stops(tab, r) = {} \/ tab[at].ref # r THEN Unused ELSE tab[at]

(* Mutant: the entries stay where they are in the larger table.            *)
MutGrown(tab) == [p \in 0 .. 2 * Slots(tab) - 1 |-> IF p \in DOMAIN tab THEN tab[p] ELSE Unused]

(* grow: the entries are inserted again, place after place.                *)
Grown(tab) ==
  FoldLeft(LAMBDA t, p : IF tab[p].ref = 0 THEN t ELSE Entered(t, tab[p].ref, tab[p].meta),
           Emptied(2 * Slots(tab)), [i \in 1 .. Slots(tab) |-> i - 1])

(* insert_or_assign: the table grows first, also to assign.                *)
InsertOrAssign(r, m) ==
  LET full == 2 * size >= Slots(slots)
      tab  == IF full THEN Grown(slots) ELSE slots
  IN
  /\ Slots(tab) <= MaxSlots
  /\ slots' = Entered(tab, r, m)
  /\ size' = IF Find(tab, r) = Unused /\ Stops(tab, r) # {} THEN size + 1 ELSE size
  /\ kept' = [x \in DOMAIN kept \union {r} |-> IF x = r THEN m ELSE kept[x]]
  /\ UNCHANGED hash

(* home_in_gap: an entry that is first looked for at home, behind the hole *)
(* and not behind scan, stays.                                             *)
HomeInGap(hole, scan, home) ==
  IF hole < scan THEN hole < home /\ home <= scan ELSE hole < home \/ home <= scan

(* One step of the backward shift, which ends at an empty slot.            *)
Shifted(x, scan) ==
  IF x.done \/ x.tab[scan].ref = 0 THEN [x EXCEPT !.done = TRUE]
  ELSE IF HomeInGap(x.hole, scan, Place(x.tab, x.tab[scan].ref, 0)) THEN x
  ELSE [x EXCEPT !.tab[x.hole] = x.tab[scan], !.hole = scan]

(* erase: what follows the hole moves back into it where it may.           *)
Erase(r) ==
  LET n   == Slots(slots)
      hole == CHOOSE p \in DOMAIN slots : slots[p].ref = r
      end == FoldLeft(Shifted, [tab |-> slots, hole |-> hole, done |-> FALSE],
                      [k \in 1 .. n |-> (hole + k) % n])
  IN
  /\ Find(slots, r) # Unused
  /\ slots' = [end.tab EXCEPT ![end.hole] = Unused]
  /\ size' = size - 1
  /\ kept' = [x \in DOMAIN kept \ {r} |-> kept[x]]
  /\ UNCHANGED hash

Next == \E r \in Ref : Erase(r) \/ \E m \in Meta : InsertOrAssign(r, m)

Spec == Init /\ [][Next]_vars

----------------------------------------------------------------------------
(* However the table has grown, and whatever erasures have shifted, each   *)
(* order that was entered is found with what was assigned last, no other   *)
(* is, every slot in use is counted, and at least half the slots are free, *)
(* so that every probe ends.                                               *)
OrdersFound ==
  /\ \A r \in Ref : Find(slots, r) =
       IF r \in DOMAIN kept THEN [ref |-> r, meta |-> kept[r]] ELSE Unused
  /\ size = Cardinality(DOMAIN kept)
  /\ size = Cardinality({p \in DOMAIN slots : slots[p].ref # 0})
  /\ 2 * size <= Slots(slots)
=============================================================================
