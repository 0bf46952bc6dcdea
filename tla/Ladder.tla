------------------------------- MODULE Ladder -------------------------------
(***************************************************************************)
(* The paged price ladder of include/mog/Ladder.hpp: a directory from page *)
(* numbers to pool slots claimed on first touch, and per slot the levels'  *)
(* quantities, a bit mask of the occupied ones in words, and a summary of  *)
(* the words that are not zero.  A word is the set of its bit positions.   *)
(*                                                                         *)
(* BookOps uses the ladder through what this module establishes: a level   *)
(* per tick, a page budget, and searches that find the nearest occupied    *)
(* tick.                                                                   *)
(***************************************************************************)
EXTENDS Integers, FiniteSets

CONSTANTS
  Lo, Hi,      (* the band [Lo, Hi)                                        *)
  PageTicks,   (* ticks per page, kPageTicks                               *)
  WordBits,    (* bits per mask word, 64 in the code                       *)
  PagePool,    (* pool slots, Config::page_pool                            *)
  Delta,       (* the quantity changes callers apply, never zero           *)
  MaxTotal     (* bound on a level's quantity, for model checking          *)

LadderAssumption ==
  /\ Lo \in Int /\ Hi \in Int /\ Lo < Hi
  /\ PageTicks \in Nat \ {0} /\ WordBits \in Nat \ {0} /\ PagePool \in Nat \ {0}
  /\ Delta \subseteq Int \ {0}
  /\ MaxTotal \in Nat

VARIABLES
  dir,      (* dir_: the pool slot of each page number, or NoPage          *)
  claimed,  (* pages_claimed_                                              *)
  page      (* pages_                                                      *)

vars == <<dir, claimed, page>>

Ticks   == Lo .. (Hi - 1)
NoTick  == Hi + 1                  \* kNoTick: beyond every tick
NoPage  == PagePool                \* kNoPage: no pool slot
DirLen  == (Hi - Lo + PageTicks - 1) \div PageTicks
Dirs    == 0 .. (DirLen - 1)
Offsets == 0 .. (PageTicks - 1)
Words   == 0 .. ((PageTicks + WordBits - 1) \div WordBits - 1)
Bits    == 0 .. (WordBits - 1)

InBand(t)   == Lo <= t /\ t < Hi
DirOf(t)    == (t - Lo) \div PageTicks
OffsetOf(t) == (t - Lo) % PageTicks
WordOf(o)   == o \div WordBits
BitOf(o)    == o % WordBits
TickAt(d, o) == Lo + d * PageTicks + o

(* countr_zero and 63 - countl_zero, with their values for an empty word.  *)
Lowest(S)  == IF S = {} THEN WordBits ELSE CHOOSE x \in S : \A y \in S : x <= y
Highest(S) == IF S = {} THEN -1 ELSE CHOOSE x \in S : \A y \in S : y <= x

EmptyPage == [occupancy |-> 0, summary |-> {}, mask |-> [w \in Words |-> {}],
              total |-> [o \in Offsets |-> 0]]

Init ==
  /\ dir = [d \in Dirs |-> NoPage]
  /\ claimed = 0
  /\ page = [i \in 0 .. (PagePool - 1) |-> EmptyPage]

Claimable(t) == dir[DirOf(t)] # NoPage \/ claimed < PagePool

----------------------------------------------------------------------------
(* apply.  Operators named Mut... are mistakes one could make in the       *)
(* definition that follows; nothing uses them.                             *)

Occupy(p, o) ==
  [occupancy |-> p.occupancy + 1,
   summary   |-> p.summary \union {WordOf(o)},
   mask      |-> [p.mask EXCEPT ![WordOf(o)] = @ \union {BitOf(o)}],
   total     |-> p.total]

MutVacate(p, o) ==
  [occupancy |-> p.occupancy - 1,
   summary   |-> p.summary \ {WordOf(o)},
   mask      |-> [p.mask EXCEPT ![WordOf(o)] = @ \ {BitOf(o)}],
   total     |-> p.total]

Vacate(p, o) ==
  LET left == p.mask[WordOf(o)] \ {BitOf(o)}
  IN  [occupancy |-> p.occupancy - 1,
       summary   |-> IF left = {} THEN p.summary \ {WordOf(o)} ELSE p.summary,
       mask      |-> [p.mask EXCEPT ![WordOf(o)] = left],
       total     |-> p.total]

(* The page after the level at offset o changed by d.                      *)
Changed(p, o, d) ==
  LET n == p.total[o] + d
      q == [p EXCEPT !.total[o] = n]
  IN  IF p.total[o] = 0 /\ n # 0 THEN Occupy(q, o)
      ELSE IF p.total[o] # 0 /\ n = 0 THEN Vacate(q, o)
      ELSE q

(* The pool slot a touch of page number d lands on.                        *)
MutSlotFor(d) == IF dir[d] = NoPage THEN 0 ELSE dir[d]
SlotFor(d) == IF dir[d] = NoPage THEN claimed ELSE dir[d]

(* The directory once page number d lies in pool slot i.                   *)
Claims(d, i) == [x \in Dirs |-> IF x = d THEN i ELSE dir[x]]

(* apply(tick, delta).  The callers gate first touches through claimable   *)
(* and never take more than a level holds.                                 *)
Apply(t, d) ==
  LET i == SlotFor(DirOf(t))
      o == OffsetOf(t)
  IN  /\ Claimable(t)
      /\ page[i].total[o] + d \in 0 .. MaxTotal
      /\ dir' = Claims(DirOf(t), i)
      /\ claimed' = IF dir[DirOf(t)] = NoPage THEN claimed + 1 ELSE claimed
      /\ page' = [page EXCEPT ![i] = Changed(page[i], o, d)]

Next == \E t \in Ticks, d \in Delta : Apply(t, d)

Spec == Init /\ [][Next]_vars

----------------------------------------------------------------------------
(* The searches.                                                           *)

MutOffsetsUp(p, o) ==
  LET m == {x \in p.mask[WordOf(o)] : x > BitOf(o)}
      s == {w \in p.summary : w > WordOf(o)}
  IN  IF m # {} THEN {WordOf(o) * WordBits + Lowest(m)}
      ELSE IF s # {} THEN {Lowest(s) * WordBits + Lowest(p.mask[Lowest(s)])}
      ELSE {}

(* The first occupied offset of page p at o or above, if there is one: the *)
(* rest of the word of o, then the summary for a later word.               *)
OffsetsUp(p, o) ==
  LET m == {x \in p.mask[WordOf(o)] : x >= BitOf(o)}
      s == {w \in p.summary : w > WordOf(o)}
  IN  IF m # {} THEN {WordOf(o) * WordBits + Lowest(m)}
      ELSE IF s # {} THEN {Lowest(s) * WordBits + Lowest(p.mask[Lowest(s)])}
      ELSE {}

OffsetsDown(p, o) ==
  LET m == {x \in p.mask[WordOf(o)] : x <= BitOf(o)}
      s == {w \in p.summary : w < WordOf(o)}
  IN  IF m # {} THEN {WordOf(o) * WordBits + Highest(m)}
      ELSE IF s # {} THEN {Highest(s) * WordBits + Highest(p.mask[Highest(s)])}
      ELSE {}

(* The pages a search looks into: claimed and not empty.                   *)
Searched == {d \in Dirs : dir[d] # NoPage /\ page[dir[d]].occupancy # 0}

FirstAbove(from) ==
  LET start == IF from < Lo THEN Lo ELSE from + 1
      hits  == UNION {{TickAt(d, o) : o \in OffsetsUp(page[dir[d]],
                          IF d = DirOf(start) THEN OffsetOf(start) ELSE 0)} :
                      d \in {e \in Searched : e >= DirOf(start)}}
  IN  IF from >= Hi - 1 \/ hits = {} THEN NoTick ELSE Lowest(hits)

FirstBelow(from) ==
  LET start == IF from > Hi THEN Hi - 1 ELSE from - 1
      hits  == UNION {{TickAt(d, o) : o \in OffsetsDown(page[dir[d]],
                          IF d = DirOf(start) THEN OffsetOf(start) ELSE PageTicks - 1)} :
                      d \in {e \in Searched : e <= DirOf(start)}}
  IN  IF from <= Lo \/ hits = {} THEN NoTick ELSE Highest(hits)

----------------------------------------------------------------------------
(* Properties.                                                             *)

(* The quantity peek(t) shows; an unclaimed page shows none.               *)
QtyAt(t) == IF dir[DirOf(t)] = NoPage THEN 0 ELSE page[dir[DirOf(t)]].total[OffsetOf(t)]

TypeOK ==
  /\ dir \in [Dirs -> 0 .. PagePool]
  /\ claimed \in 0 .. PagePool
  /\ page \in [0 .. (PagePool - 1) ->
                 [occupancy : Nat, summary : SUBSET Words,
                  mask : [Words -> SUBSET Bits], total : [Offsets -> 0 .. MaxTotal]]]

(* The page directory and the summaries of each page agree with the        *)
(* levels: no two page numbers share a pool slot, which would merge two    *)
(* price ranges, and the slots handed out are the first pages_claimed_ of  *)
(* the pool; a bit is set exactly for a level with quantity, a summary bit *)
(* exactly for a word with bits, and occupancy counts the levels           *)
(* (Ladder.hpp:94-118).                                                    *)
MasksExact ==
  /\ \A d, e \in Dirs : dir[d] = dir[e] /\ dir[d] # NoPage => d = e
  /\ {dir[d] : d \in Dirs} \ {NoPage} = 0 .. (claimed - 1)
  /\ \A i \in DOMAIN page :
       LET used == {o \in Offsets : page[i].total[o] # 0}
       IN  /\ \A w \in Words : page[i].mask[w] = {BitOf(o) : o \in {u \in used : WordOf(u) = w}}
           /\ page[i].summary = {WordOf(o) : o \in used}
           /\ page[i].occupancy = Cardinality(used)

Occupied == {t \in Ticks : QtyAt(t) # 0}

(* first_above finds the nearest occupied tick above any starting point,   *)
(* in band or not, through the word, the summary and the directory, and    *)
(* first_below the nearest one below (Ladder.hpp:141-176, 179-222).        *)
SearchesExact ==
  \A from \in (Lo - 2) .. (Hi + 2) :
    LET above == {t \in Occupied : t > from}
        below == {t \in Occupied : t < from}
    IN  /\ FirstAbove(from) = IF above = {} THEN NoTick ELSE Lowest(above)
        /\ FirstBelow(from) = IF below = {} THEN NoTick ELSE Highest(below)

LevelsMap == INSTANCE LevelMap WITH
  qty  <- [t \in Ticks |-> QtyAt(t)],
  open <- {d \in Dirs : dir[d] # NoPage}

(* Seen through peek, the ladder is a map from ticks to quantities.        *)
ImplementsLevelMap == LevelsMap!Spec

=============================================================================
