------------------------------ MODULE RefIndex ------------------------------
(***************************************************************************)
(* How the book finds orders: the open-addressed id table with backward-   *)
(* shift deletion (OrderBook.hpp:396-490) and the order arena with its     *)
(* LIFO free list and generation counters (Arena.hpp).  The two are always *)
(* changed together, by the book's add, remove and replace.                *)
(*                                                                         *)
(* The hash is not modelled: "home" gives every reference any first probe  *)
(* position, chosen once.                                                  *)
(***************************************************************************)
EXTENDS Integers, FiniteSets

CONSTANTS
  Ref,          (* order references                                        *)
  ZeroRef,      (* marks an empty table entry, never a reference           *)
  Capacity,     (* arena slots                                             *)
  TableCap,     (* table entries, round_pow2(2 * Capacity)                 *)
  Homes,        (* first probe positions the hash may give                 *)
  GenSpan,      (* a generation counts modulo GenSpan, 2^32 in the code    *)
  MaxReleases   (* bound on the releases of one slot                       *)

TableAssumption ==
  /\ ZeroRef \notin Ref
  /\ Capacity \in Nat \ {0}
  /\ TableCap \in Nat /\ 2 * Capacity <= TableCap
  /\ Homes \subseteq 0 .. (TableCap - 1)
  /\ GenSpan \in Nat \ {0} /\ MaxReleases \in Nat

VARIABLES
  home,       (* probe_start of every reference                            *)
  entry,      (* entries_                                                  *)
  size,       (* table_size_                                               *)
  slot,       (* the arena's slots: reference, generation, free_next, live *)
  freeHead,   (* free_head_                                                *)
  watermark,  (* watermark_: slots below it have been constructed          *)
  stale       (* history: per slot, the generations released so far        *)

tableVars == <<home, entry, size, slot, freeHead, watermark, stale>>

Index     == 0 .. (Capacity - 1)
NullIndex == Capacity
Positions == 0 .. (TableCap - 1)

NoHandle   == [index |-> NullIndex, gen |-> 0]
EmptyEntry == [ref |-> ZeroRef, handle |-> NoHandle]
Unbuilt    == [ref |-> ZeroRef, gen |-> 0, next |-> NullIndex, live |-> FALSE]

TableInit ==
  /\ home \in [Ref -> Homes]
  /\ entry = [p \in Positions |-> EmptyEntry]
  /\ size = 0
  /\ slot = [i \in Index |-> Unbuilt]
  /\ freeHead = NullIndex
  /\ watermark = 0
  /\ stale = [i \in Index |-> {}]

----------------------------------------------------------------------------
(* The table, as a value tab.  Operators named Mut... are mistakes one     *)
(* could make in the definition that follows; nothing uses them.           *)

At(p) == p % TableCap

(* id_find_slot: where the probe for r stops, at r or at an empty entry.   *)
(* Nothing stops it in a table with neither.                               *)
StopsAt(tab, r, k) == tab[At(home[r] + k)].ref \in {ZeroRef, r}

ProbeEnds(tab, r) == \E k \in Positions : StopsAt(tab, r, k)

FindSlot(tab, r) ==
  At(home[r] + (CHOOSE k \in Positions : StopsAt(tab, r, k) /\
                  \A j \in Positions : j < k => ~StopsAt(tab, r, j)))

Found(tab, r) == LET e == tab[FindSlot(tab, r)]
                 IN  IF e.ref = r THEN e.handle ELSE NoHandle

MutStays(i, j, h) == h > i /\ h <= j

(* home_in_gap: the entry at j, whose probe starts at h, must not move to  *)
(* the gap at i.                                                           *)
Stays(i, j, h) ==
  IF i < j THEN h > i /\ h <= j ELSE h > i \/ h <= j

(* A turn of id_erase_at looks at the entry at j: unless it stays, it      *)
(* moves back into the gap.  An empty entry ends the cluster.              *)
ShiftTurn(was, j) ==
  IF was.done \/ was.tab[j].ref = ZeroRef
  THEN [tab |-> was.tab, gap |-> was.gap, done |-> TRUE]
  ELSE IF Stays(was.gap, j, home[was.tab[j].ref])
  THEN was
  ELSE [tab |-> [was.tab EXCEPT ![was.gap] = was.tab[j]], gap |-> j, done |-> FALSE]

(* id_erase_at: the k-th turn looks at the k-th entry after p.             *)
Erased(tab, p) ==
  LET shift[k \in 0 .. TableCap] ==
        IF k = 0 THEN [tab |-> tab, gap |-> p, done |-> FALSE]
        ELSE ShiftTurn(shift[k - 1], At(p + k))
      end == shift[TableCap]
  IN  [end.tab EXCEPT ![end.gap] = EmptyEntry]

----------------------------------------------------------------------------
(* The arena, as a record of its variables.                                *)

Arena == [slot |-> slot, freeHead |-> freeHead, watermark |-> watermark, stale |-> stale]

(* acquire: the last slot released, else the first never used, else none.  *)
Acquired(a) ==
  IF a.freeHead # NullIndex THEN a.freeHead
  ELSE IF a.watermark < Capacity THEN a.watermark
  ELSE NullIndex

AfterAcquire(a, r) ==
  LET i == Acquired(a)
  IN  [slot      |-> [a.slot EXCEPT ![i].ref = r, ![i].live = TRUE],
       freeHead  |-> IF a.freeHead = NullIndex THEN NullIndex ELSE a.slot[i].next,
       watermark |-> IF a.freeHead = NullIndex THEN a.watermark + 1 ELSE a.watermark,
       stale     |-> a.stale]

MutAfterRelease(a, i) ==
  [slot      |-> [a.slot EXCEPT ![i].live = FALSE, ![i].next = a.freeHead],
   freeHead  |-> i,
   watermark |-> a.watermark,
   stale     |-> [a.stale EXCEPT ![i] = @ \union {a.slot[i].gen}]]

(* release: the generation moves on, and the slot heads the free list.     *)
AfterRelease(a, i) ==
  [slot      |-> [a.slot EXCEPT ![i].live = FALSE, ![i].next = a.freeHead,
                                ![i].gen = (@ + 1) % GenSpan],
   freeHead  |-> i,
   watermark |-> a.watermark,
   stale     |-> [a.stale EXCEPT ![i] = @ \union {a.slot[i].gen}]]

Valid(a, h) == h.index < Capacity /\ a.slot[h.index].live /\ a.slot[h.index].gen = h.gen

Become(tab, n, a) ==
  /\ entry' = tab
  /\ size' = n
  /\ slot' = a.slot /\ freeHead' = a.freeHead /\ watermark' = a.watermark
  /\ stale' = a.stale
  /\ UNCHANGED home

----------------------------------------------------------------------------
(* id_insert_at(slot, ref, acquire(...)), at the entry the probe stopped.  *)
Inserted(tab, a, r) ==
  [tab EXCEPT ![FindSlot(tab, r)] =
     [ref |-> r, handle |-> [index |-> Acquired(a), gen |-> a.slot[Acquired(a)].gen]]]

(* add: refused as duplicate_ref or arena_full, else the order rests.      *)
Add(r) ==
  IF Found(entry, r) # NoHandle \/ Acquired(Arena) = NullIndex
  THEN UNCHANGED tableVars
  ELSE Become(Inserted(entry, Arena, r), size + 1, AfterAcquire(Arena, r))

(* remove, or the execution of all that is left: release, then erase.      *)
Remove(r) ==
  LET h == Found(entry, r)
  IN  IF h = NoHandle
      THEN UNCHANGED tableVars
      ELSE /\ Cardinality(stale[h.index]) < MaxReleases
           /\ Become(Erased(entry, FindSlot(entry, r)), size - 1, AfterRelease(Arena, h.index))

(* replace: remove, then add, which finds room again.                      *)
Replace(r, n) ==
  LET h   == Found(entry, r)
      tab == Erased(entry, FindSlot(entry, r))
      a   == AfterRelease(Arena, h.index)
  IN  IF h = NoHandle \/ (r # n /\ Found(entry, n) # NoHandle)
      THEN UNCHANGED tableVars
      ELSE /\ Cardinality(stale[h.index]) < MaxReleases
           /\ Become(Inserted(tab, a, n), size, AfterAcquire(a, n))

TableNext ==
  \/ \E r \in Ref : Add(r)
  \/ \E r \in Ref : Remove(r)
  \/ \E r, n \in Ref : Replace(r, n)

TableSpec == TableInit /\ [][TableNext]_tableVars

----------------------------------------------------------------------------
(* Properties.                                                             *)

(* Following the free list from its head.                                  *)
FreeWalk(a) ==
  LET walk[k \in 0 .. Capacity] ==
        IF k = 0 THEN a.freeHead
        ELSE IF walk[k - 1] = NullIndex THEN NullIndex
        ELSE a.slot[walk[k - 1]].next
  IN  walk

(* The free list holds exactly the constructed slots that are not live,    *)
(* each once: what audit() promises and does not check                     *)
(* (OrderBook.hpp:377-378).                                                *)
FreeListExact ==
  LET walk == FreeWalk(Arena)
      idle == {i \in Index : i < watermark /\ ~slot[i].live}
  IN  /\ walk[Cardinality(idle)] = NullIndex
      /\ {walk[k] : k \in 0 .. Capacity} \ {NullIndex} = idle
      /\ \A i \in Index : i >= watermark => ~slot[i].live

(* A handle captured before a release never validates again, while fewer   *)
(* than GenSpan releases have hit its slot (Arena.hpp:1-2, 76).            *)
NoReuse ==
  \A i \in Index : \A g \in stale[i] : ~Valid(Arena, [index |-> i, gen |-> g])

(* Both, as the runs check them.                                           *)
ArenaSound == FreeListExact /\ NoReuse

Map == INSTANCE RefMap WITH
  Slot <- Index,
  at   <- [r \in {x \in Ref : Found(entry, x) # NoHandle} |-> Found(entry, r).index]

(* Seen through its probes, the table is a map from references to slots.   *)
ImplementsRefMap == Map!Spec

=============================================================================
