-------------------------- MODULE StructureProofs --------------------------
(***************************************************************************)
(* Proofs about the price ladder, the event heap, the delta ring and the   *)
(* id table with its arena.  The ladder's masks stay exact, the searches   *)
(* through them find the nearest occupied tick, and it implements the map  *)
(* of ticks: for every band, page and word size, pool and level bound.     *)
(* The heap passes its own audit and is the event queue at every capacity, *)
(* and the ring at every size tells a reader the deltas it missed or that  *)
(* it cannot.  The table and the arena, for every number of slots, every   *)
(* table at least twice as large, every set of references and every hash,  *)
(* are together a map from references to slots (RefMap): the free list     *)
(* holds the idle slots, and a handle to a slot given back validates no    *)
(* more.                                                                   *)
(***************************************************************************)
EXTENDS Ladder, RefIndex, Scheduler, DeltaRing, Sequences, LoopLemmas, FiniteSetTheorems

----------------------------------------------------------------------------
(* Arithmetic of pages and words.                                          *)

LEMMA Times ==
  ASSUME NEW a \in Int, NEW b \in Int, NEW m \in Nat \ {0}, m * a < m * b
  PROVE  a < b
<1>1. CASE a >= b
  <2>1. a - b \in Nat
    BY <1>1
  <2>2. m * (a - b) >= 0
    BY <2>1
  <2>3. m * (a - b) = m * a - m * b
    OBVIOUS
  <2> QED
    BY <2>2, <2>3
<1> QED
  BY <1>1

LEMMA Division ==
  ASSUME NEW a \in Int, NEW m \in Nat \ {0}
  PROVE  /\ a \div m \in Int /\ a % m \in 0 .. (m - 1)
         /\ a = m * (a \div m) + (a % m)
OBVIOUS

(* A quotient and a rest determine each other.                             *)
LEMMA Quotient ==
  ASSUME NEW m \in Nat \ {0}, NEW q \in Int, NEW r \in 0 .. (m - 1)
  PROVE  (q * m + r) \div m = q /\ (q * m + r) % m = r
<1> DEFINE a == q * m + r
           p == a \div m
           s == a % m
<1>1. a \in Int /\ p \in Int /\ s \in 0 .. (m - 1) /\ a = m * p + s
  <2>1. a \in Int
    OBVIOUS
  <2> QED
    BY <2>1, Division
<1>2. m * p + s = m * q + r
  BY <1>1
<1> HIDE DEF p, s, a
<1>3. m * (p + 1) = m * p + m /\ m * (q + 1) = m * q + m
  BY <1>1
<1>4. m * p < m * (q + 1) /\ m * q < m * (p + 1)
  BY <1>1, <1>2, <1>3
<1>5. p < q + 1 /\ q < p + 1
  BY <1>1, <1>4, Times
<1>6. p = q
  BY <1>1, <1>5
<1>7. s = r
  BY <1>1, <1>2, <1>6
<1> QED
  BY <1>6, <1>7 DEF a, p, s

(* The quotients of the numbers below n are those below its quotient       *)
(* rounded up.                                                             *)
LEMMA Quotients ==
  ASSUME NEW m \in Nat \ {0}, NEW n \in Nat, NEW a \in 0 .. (n - 1)
  PROVE  a \div m \in 0 .. ((n + m - 1) \div m - 1)
<1> DEFINE q == a \div m
           x == n + m - 1
           u == x \div m
<1>1. q \in Int /\ a % m \in 0 .. (m - 1) /\ a = m * q + (a % m)
  BY Division
<1>2. x \in Int /\ u \in Int /\ x % m \in 0 .. (m - 1) /\ x = m * u + (x % m)
  <2>1. x \in Int
    OBVIOUS
  <2> QED
    BY <2>1, Division
<1>3. a >= 0 /\ a + m <= x
  OBVIOUS
<1> HIDE DEF q, u, x
<1>4. m * (q + 1) = m * q + m /\ m * (u + 1) = m * u + m /\ m * (-1) = -m
  BY <1>1, <1>2
<1>5. m * (q + 1) < m * (u + 1)
  BY <1>1, <1>2, <1>3, <1>4
<1>6. q < u
  <2>1. q + 1 < u + 1
    BY <1>1, <1>2, <1>5, Times
  <2> QED
    BY <1>1, <1>2, <2>1
<1>7. m * (-1) < m * q
  BY <1>1, <1>3, <1>4
<1>8. -1 < q
  BY <1>1, <1>7, Times
<1> QED
  BY <1>1, <1>2, <1>6, <1>8 DEF q, u, x

LEMMA Typing ==
  ASSUME LadderAssumption
  PROVE  /\ Lo \in Int /\ Hi \in Int /\ Lo < Hi /\ DirLen \in Int
         /\ PageTicks \in Nat \ {0} /\ WordBits \in Nat \ {0} /\ PagePool \in Nat \ {0}
         /\ Ticks \subseteq Int /\ Dirs \subseteq Nat /\ Offsets \subseteq Nat
         /\ Words \subseteq Nat /\ Bits \subseteq Nat
BY Division DEF LadderAssumption, Ticks, Dirs, DirLen, Offsets, Words, Bits

(* A tick has a page number and an offset, and is what they give.          *)
LEMMA TickPlace ==
  ASSUME LadderAssumption, NEW t \in Ticks
  PROVE  /\ DirOf(t) \in Dirs /\ OffsetOf(t) \in Offsets
         /\ TickAt(DirOf(t), OffsetOf(t)) = t
<1>1. t - Lo \in 0 .. ((Hi - Lo) - 1) /\ Hi - Lo \in Nat /\ t \in Int /\ Lo \in Int
  BY DEF LadderAssumption, Ticks
<1>2. PageTicks \in Nat \ {0}
  BY DEF LadderAssumption
<1>3. DirOf(t) \in Dirs
  BY <1>1, <1>2, Quotients DEF Dirs, DirLen, DirOf
<1>4. /\ DirOf(t) \in Int /\ OffsetOf(t) \in 0 .. (PageTicks - 1)
      /\ t - Lo = PageTicks * DirOf(t) + OffsetOf(t)
  <2>1. t - Lo \in Int
    BY <1>1
  <2> QED
    BY <1>2, <2>1, Division DEF DirOf, OffsetOf
<1>5. TickAt(DirOf(t), OffsetOf(t)) = t
  <2>1. /\ DirOf(t) * PageTicks = PageTicks * DirOf(t)
        /\ PageTicks * DirOf(t) \in Int /\ OffsetOf(t) \in Int
    BY <1>2, <1>4
  <2>2. t = Lo + PageTicks * DirOf(t) + OffsetOf(t)
    BY <1>1, <1>4, <2>1
  <2> QED
    BY <2>1, <2>2 DEF TickAt
<1> QED
  BY <1>3, <1>4, <1>5 DEF Offsets

(* And the page number and offset of a tick's place are its own.           *)
LEMMA PlaceTick ==
  ASSUME LadderAssumption, NEW d \in Int, NEW o \in Offsets
  PROVE  TickAt(d, o) \in Int /\ DirOf(TickAt(d, o)) = d /\ OffsetOf(TickAt(d, o)) = o
<1>1. Lo \in Int /\ PageTicks \in Nat \ {0} /\ o \in 0 .. (PageTicks - 1)
  BY DEF LadderAssumption, Offsets
<1>2. d * PageTicks \in Int
  BY <1>1
<1>3. TickAt(d, o) \in Int /\ TickAt(d, o) - Lo = d * PageTicks + o
  BY <1>1, <1>2 DEF TickAt
<1> QED
  BY <1>1, <1>3, Quotient DEF DirOf, OffsetOf

LEMMA BitPlace ==
  ASSUME LadderAssumption, NEW o \in Offsets
  PROVE  /\ WordOf(o) \in Words /\ BitOf(o) \in Bits
         /\ WordOf(o) * WordBits + BitOf(o) = o
<1>1. PageTicks \in Nat /\ o \in 0 .. (PageTicks - 1) /\ WordBits \in Nat \ {0}
  BY DEF LadderAssumption, Offsets
<1>2. WordOf(o) \in Words
  BY <1>1, Quotients DEF Words, WordOf
<1>3. /\ o \in Int /\ WordOf(o) \in Int /\ BitOf(o) \in 0 .. (WordBits - 1)
      /\ o = WordBits * WordOf(o) + BitOf(o)
  BY <1>1, Division DEF WordOf, BitOf
<1>4. WordOf(o) * WordBits = WordBits * WordOf(o)
  BY <1>1, <1>3
<1> QED
  BY <1>1, <1>2, <1>3, <1>4 DEF Bits

----------------------------------------------------------------------------
(* One page.                                                               *)

PageType ==
  [occupancy : Nat, summary : SUBSET Words,
   mask : [Words -> SUBSET Bits], total : [Offsets -> 0 .. MaxTotal]]

Used(p) == {o \in Offsets : p.total[o] # 0}

(* What MasksExact says of one page.                                       *)
PageExact(p) ==
  /\ \A w \in Words : p.mask[w] = {BitOf(o) : o \in {u \in Used(p) : WordOf(u) = w}}
  /\ p.summary = {WordOf(o) : o \in Used(p)}
  /\ p.occupancy = Cardinality(Used(p))

LEMMA UsedFinite ==
  ASSUME LadderAssumption, NEW p
  PROVE  IsFiniteSet(Used(p))
<1>1. IsFiniteSet(Offsets)
  BY FS_Interval DEF LadderAssumption, Offsets
<1> QED
  BY <1>1, FS_Subset DEF Used

LEMMA EmptyExact ==
  ASSUME LadderAssumption
  PROVE  EmptyPage \in PageType /\ PageExact(EmptyPage) /\ Used(EmptyPage) = {}
<1>1. Used(EmptyPage) = {}
  BY DEF Used, EmptyPage
<1>2. EmptyPage \in PageType
  BY DEF EmptyPage, PageType, LadderAssumption
<1>3. PageExact(EmptyPage)
  BY <1>1, FS_EmptySet DEF PageExact, EmptyPage
<1> QED
  BY <1>1, <1>2, <1>3

(* A level that got its first quantity.                                    *)
LEMMA OccupyExact ==
  ASSUME LadderAssumption, NEW p \in PageType, NEW o \in Offsets,
         NEW n \in 0 .. MaxTotal, n # 0, p.total[o] = 0, PageExact(p)
  PROVE  PageExact(Occupy([p EXCEPT !.total[o] = n], o))
<1> DEFINE q == Occupy([p EXCEPT !.total[o] = n], o)
<1>1. WordOf(o) \in Words /\ BitOf(o) \in Bits
  BY BitPlace
<1>2. q.total = [p.total EXCEPT ![o] = n]
  BY DEF Occupy, PageType
<1>3. Used(q) = Used(p) \union {o} /\ o \notin Used(p)
  BY <1>2 DEF Used, PageType
<1>4. q.occupancy = p.occupancy + 1 /\ q.summary = p.summary \union {WordOf(o)}
  BY DEF Occupy, PageType
<1>5. q.mask = [p.mask EXCEPT ![WordOf(o)] = @ \union {BitOf(o)}]
  BY DEF Occupy, PageType
<1>6. p.mask \in [Words -> SUBSET Bits]
  BY DEF PageType
<1> HIDE DEF q
<1>7. \A w \in Words : q.mask[w] = {BitOf(x) : x \in {u \in Used(q) : WordOf(u) = w}}
  BY <1>1, <1>3, <1>5, <1>6 DEF PageExact
<1>8. q.summary = {WordOf(x) : x \in Used(q)}
  BY <1>3, <1>4 DEF PageExact
<1>9. q.occupancy = Cardinality(Used(q))
  <2>1. Cardinality(Used(p) \union {o}) = Cardinality(Used(p)) + 1
    BY <1>3, UsedFinite, FS_AddElement
  <2>2. p.occupancy = Cardinality(Used(p))
    BY DEF PageExact
  <2> QED
    BY <1>3, <1>4, <2>1, <2>2
<1> QED
  BY <1>7, <1>8, <1>9 DEF PageExact, q

(* A level that lost its last quantity.                                    *)
LEMMA VacateExact ==
  ASSUME LadderAssumption, NEW p \in PageType, NEW o \in Offsets,
         p.total[o] # 0, PageExact(p)
  PROVE  PageExact(Vacate([p EXCEPT !.total[o] = 0], o)) /\ p.occupancy > 0
<1> DEFINE q == Vacate([p EXCEPT !.total[o] = 0], o)
           left == p.mask[WordOf(o)] \ {BitOf(o)}
<1>1. WordOf(o) \in Words /\ BitOf(o) \in Bits
  BY BitPlace
<1>2. q.total = [p.total EXCEPT ![o] = 0]
  BY DEF Vacate, PageType
<1>3. Used(q) = Used(p) \ {o} /\ o \in Used(p)
  BY <1>2 DEF Used, PageType
<1>4. /\ q.occupancy = p.occupancy - 1
      /\ q.summary = IF left = {} THEN p.summary \ {WordOf(o)} ELSE p.summary
  BY DEF Vacate, PageType
<1>5. q.mask = [p.mask EXCEPT ![WordOf(o)] = left]
  BY DEF Vacate, PageType
<1>6. p.mask \in [Words -> SUBSET Bits]
  BY DEF PageType
<1>7. \A x \in Offsets : WordOf(x) = WordOf(o) /\ BitOf(x) = BitOf(o) => x = o
  BY BitPlace
<1>8. Used(p) \subseteq Offsets
  BY DEF Used
<1>9. left = {BitOf(x) : x \in {u \in Used(q) : WordOf(u) = WordOf(o)}}
  BY <1>1, <1>3, <1>7, <1>8 DEF PageExact
<1> HIDE DEF q, left
<1>10. \A w \in Words : q.mask[w] = {BitOf(x) : x \in {u \in Used(q) : WordOf(u) = w}}
  <2> TAKE w \in Words
  <2>1. CASE w = WordOf(o)
    BY <1>5, <1>6, <1>9, <2>1
  <2>2. CASE w # WordOf(o)
    <3>1. {u \in Used(q) : WordOf(u) = w} = {u \in Used(p) : WordOf(u) = w}
      BY <1>3, <2>2
    <3> QED
      BY <1>5, <1>6, <2>2, <3>1 DEF PageExact
  <2> QED
    BY <2>1, <2>2
<1>11. q.summary = {WordOf(x) : x \in Used(q)}
  <2>1. CASE left = {}
    <3>1. \A x \in Used(q) : WordOf(x) # WordOf(o)
      BY <1>9, <2>1
    <3> QED
      BY <1>3, <1>4, <2>1, <3>1 DEF PageExact
  <2>2. CASE left # {}
    <3>1. PICK x \in Used(q) : WordOf(x) = WordOf(o)
      BY <1>9, <2>2
    <3> QED
      BY <1>3, <1>4, <2>2, <3>1 DEF PageExact
  <2> QED
    BY <2>1, <2>2
<1>12. Cardinality(Used(q)) = Cardinality(Used(p)) - 1 /\ Cardinality(Used(q)) \in Nat
  BY <1>3, UsedFinite, FS_RemoveElement, FS_CardinalityType
<1>13. q.occupancy = Cardinality(Used(q)) /\ p.occupancy > 0
  BY <1>4, <1>12 DEF PageExact, PageType
<1> QED
  BY <1>10, <1>11, <1>13 DEF PageExact, q

(* apply on the page: it stays exact and its levels are as they should be. *)
LEMMA ChangedExact ==
  ASSUME LadderAssumption, NEW p \in PageType, NEW o \in Offsets,
         NEW d \in Int, p.total[o] + d \in 0 .. MaxTotal, PageExact(p)
  PROVE  /\ Changed(p, o, d) \in PageType
         /\ PageExact(Changed(p, o, d))
         /\ Changed(p, o, d).total = [p.total EXCEPT ![o] = p.total[o] + d]
<1> DEFINE n == p.total[o] + d
           q == [p EXCEPT !.total[o] = n]
<1>1. WordOf(o) \in Words /\ BitOf(o) \in Bits
  BY BitPlace
<1>2. /\ q \in PageType /\ q.total = [p.total EXCEPT ![o] = n]
      /\ q.mask = p.mask /\ q.summary = p.summary /\ q.occupancy = p.occupancy
  BY DEF PageType
<1>3. p.total[o] \in Nat /\ n \in 0 .. MaxTotal
  BY DEF PageType
<1> HIDE DEF q, n
<1>4. CASE p.total[o] = 0 /\ n # 0
  <2>1. Changed(p, o, d) = Occupy(q, o)
    BY <1>4 DEF Changed, n, q
  <2>2. PageExact(Occupy(q, o))
    BY <1>3, <1>4, OccupyExact DEF q
  <2>3. Occupy(q, o) \in PageType /\ Occupy(q, o).total = q.total
    BY <1>1, <1>2 DEF Occupy, PageType
  <2> QED
    BY <1>2, <2>1, <2>2, <2>3 DEF n
<1>5. CASE p.total[o] # 0 /\ n = 0
  <2>1. Changed(p, o, d) = Vacate(q, o)
    BY <1>5 DEF Changed, n, q
  <2>2. PageExact(Vacate(q, o)) /\ p.occupancy > 0
    BY <1>3, <1>5, VacateExact DEF q
  <2>3. Vacate(q, o) \in PageType /\ Vacate(q, o).total = q.total
    BY <1>1, <1>2, <2>2 DEF Vacate, PageType
  <2> QED
    BY <1>2, <2>1, <2>2, <2>3 DEF n
<1>6. CASE p.total[o] = 0 <=> n = 0
  <2>1. Changed(p, o, d) = q
    BY <1>6 DEF Changed, n, q
  <2>2. Used(q) = Used(p)
    BY <1>2, <1>6 DEF Used, PageType
  <2>3. PageExact(q)
    BY <1>2, <2>2 DEF PageExact
  <2> QED
    BY <1>2, <2>1, <2>3 DEF n
<1> QED
  BY <1>4, <1>5, <1>6

----------------------------------------------------------------------------
(* The directory and the pool.                                             *)

Open == {d \in Dirs : dir[d] # NoPage}

(* The slots not handed out hold no quantity yet, and one was handed out   *)
(* for each page number that is open.                                      *)
Untouched ==
  /\ \A i \in claimed .. (PagePool - 1) : \A o \in Offsets : page[i].total[o] = 0
  /\ Cardinality(Open) = claimed

(* The last page may reach beyond the band, but no level there has any.    *)
Inside ==
  \A d \in Dirs : dir[d] # NoPage =>
    \A o \in Offsets : page[dir[d]].total[o] # 0 => TickAt(d, o) < Hi

LadderInv == LadderAssumption /\ TypeOK /\ MasksExact /\ Untouched /\ Inside

LEMMA MasksByPage ==
  MasksExact <=> /\ \A d, e \in Dirs : dir[d] = dir[e] /\ dir[d] # NoPage => d = e
                 /\ {dir[d] : d \in Dirs} \ {NoPage} = 0 .. (claimed - 1)
                 /\ \A i \in DOMAIN page : PageExact(page[i])
BY DEF MasksExact, PageExact, Used

LEMMA OpenFinite ==
  ASSUME LadderAssumption
  PROVE  IsFiniteSet(Open)
<1>1. IsFiniteSet(Dirs)
  BY FS_Interval, Typing DEF Dirs
<1> QED
  BY <1>1, FS_Subset DEF Open

LEMMA LadderInvInit == LadderAssumption /\ Init => LadderInv
<1> SUFFICES ASSUME LadderAssumption, Init PROVE LadderInv
  OBVIOUS
<1>1. PagePool \in Nat \ {0} /\ NoPage \in 0 .. PagePool
  BY DEF LadderAssumption, NoPage
<1>2. TypeOK
  BY <1>1, EmptyExact DEF Init, TypeOK, PageType
<1>3. Open = {}
  BY DEF Init, Open
<1>4. MasksExact
  <2>1. \A d \in Dirs : dir[d] = NoPage
    BY DEF Init
  <2>2. {dir[d] : d \in Dirs} \ {NoPage} = 0 .. (claimed - 1)
    BY <2>1 DEF Init
  <2>3. \A i \in DOMAIN page : PageExact(page[i])
    BY EmptyExact DEF Init
  <2> QED
    BY <2>1, <2>2, <2>3, MasksByPage
<1>5. Untouched /\ Inside
  BY <1>3, FS_EmptySet DEF Init, Untouched, EmptyPage, Inside
<1> QED
  BY <1>2, <1>4, <1>5 DEF LadderInv

(* The slot a touch lands on.                                              *)
LEMMA SlotPlace ==
  ASSUME LadderInv, NEW t \in Ticks, Claimable(t)
  PROVE  /\ DirOf(t) \in Dirs /\ OffsetOf(t) \in Offsets
         /\ SlotFor(DirOf(t)) \in 0 .. (PagePool - 1)
         /\ SlotFor(DirOf(t)) # NoPage
         /\ page[SlotFor(DirOf(t))] \in PageType
         /\ PageExact(page[SlotFor(DirOf(t))])
         /\ \A e \in Dirs : e # DirOf(t) => dir[e] # SlotFor(DirOf(t))
         /\ dir[DirOf(t)] = NoPage
              => SlotFor(DirOf(t)) = claimed /\ claimed \in 0 .. (PagePool - 1)
<1> DEFINE D == DirOf(t)
           i == SlotFor(D)
<1>1. D \in Dirs /\ OffsetOf(t) \in Offsets
  BY TickPlace DEF LadderInv
<1>2. PagePool \in Nat \ {0} /\ NoPage = PagePool /\ claimed \in 0 .. PagePool
  BY DEF LadderInv, LadderAssumption, NoPage, TypeOK
<1>5. \A j \in 0 .. (PagePool - 1) : page[j] \in PageType /\ PageExact(page[j])
  BY MasksByPage DEF LadderInv, TypeOK, PageType
<1> HIDE DEF D
<1>3. CASE dir[D] = NoPage
  <2>1. i = claimed /\ claimed < PagePool
    BY <1>3 DEF SlotFor, Claimable, D
  <2>2. \A e \in Dirs : dir[e] # NoPage => dir[e] \in 0 .. (claimed - 1)
    BY MasksByPage DEF LadderInv
  <2>3. \A e \in Dirs : dir[e] # claimed
    BY <1>2, <2>1, <2>2
  <2> QED
    BY <1>1, <1>2, <1>3, <1>5, <2>1, <2>3 DEF D
<1>4. CASE dir[D] # NoPage
  <2>1. i = dir[D]
    BY <1>4 DEF SlotFor
  <2>2. i \in 0 .. (PagePool - 1)
    BY <1>1, <1>2, <1>4, <2>1 DEF LadderInv, TypeOK
  <2>3. \A e \in Dirs : e # D => dir[e] # i
    BY <1>1, <1>4, <2>1, MasksByPage DEF LadderInv
  <2> QED
    BY <1>1, <1>2, <1>4, <1>5, <2>1, <2>2, <2>3 DEF D
<1> QED
  BY <1>3, <1>4

(* What a call of apply changes.                                           *)
LEMMA ApplyChanges ==
  ASSUME LadderInv, NEW t \in Ticks, NEW d \in Delta, Apply(t, d)
  PROVE  /\ \A e \in Dirs : dir'[e] = IF e = DirOf(t) THEN SlotFor(DirOf(t)) ELSE dir[e]
         /\ claimed' = IF dir[DirOf(t)] = NoPage THEN claimed + 1 ELSE claimed
         /\ DOMAIN page' = DOMAIN page
         /\ \A j \in DOMAIN page : j # SlotFor(DirOf(t)) => page'[j] = page[j]
         /\ page'[SlotFor(DirOf(t))] \in PageType
         /\ PageExact(page'[SlotFor(DirOf(t))])
         /\ page'[SlotFor(DirOf(t))].total =
              [page[SlotFor(DirOf(t))].total EXCEPT
                 ![OffsetOf(t)] = page[SlotFor(DirOf(t))].total[OffsetOf(t)] + d]
<1> DEFINE i == SlotFor(DirOf(t))
           o == OffsetOf(t)
<1>1. Claimable(t) /\ page[i].total[o] + d \in 0 .. MaxTotal
  BY DEF Apply
<1>2. /\ i \in 0 .. (PagePool - 1) /\ o \in Offsets
      /\ page[i] \in PageType /\ PageExact(page[i])
  BY <1>1, SlotPlace
<1>3. DOMAIN page = 0 .. (PagePool - 1) /\ d \in Int /\ LadderAssumption
  BY DEF LadderInv, TypeOK, LadderAssumption
<1>4. page' = [page EXCEPT ![i] = Changed(page[i], o, d)]
  BY DEF Apply
<1>5. page'[i] = Changed(page[i], o, d)
  BY <1>2, <1>3, <1>4
<1>6. /\ Changed(page[i], o, d) \in PageType /\ PageExact(Changed(page[i], o, d))
      /\ Changed(page[i], o, d).total = [page[i].total EXCEPT ![o] = page[i].total[o] + d]
  BY <1>1, <1>2, <1>3, ChangedExact
<1>7. /\ dir' = Claims(DirOf(t), i)
      /\ claimed' = IF dir[DirOf(t)] = NoPage THEN claimed + 1 ELSE claimed
  BY DEF Apply
<1>8. \A e \in Dirs : dir'[e] = IF e = DirOf(t) THEN i ELSE dir[e]
  BY <1>7 DEF Claims
<1> HIDE DEF i, o
<1>9. DOMAIN page' = DOMAIN page /\ \A j \in DOMAIN page : j # i => page'[j] = page[j]
  BY <1>4
<1> QED
  BY <1>5, <1>6, <1>7, <1>8, <1>9 DEF i, o

LEMMA ApplyStep ==
  ASSUME LadderInv, NEW t \in Ticks, NEW d \in Delta, Apply(t, d)
  PROVE  LadderInv'
<1> DEFINE D == DirOf(t)
           i == SlotFor(D)
<1>1. Claimable(t) /\ LadderAssumption
  BY DEF Apply, LadderInv
<1>2. /\ D \in Dirs /\ i \in 0 .. (PagePool - 1) /\ i # NoPage
      /\ \A e \in Dirs : e # D => dir[e] # i
      /\ dir[D] = NoPage => i = claimed /\ claimed \in 0 .. (PagePool - 1)
      /\ dir[D] # NoPage => i = dir[D]
  BY <1>1, SlotPlace DEF SlotFor
<1>3. /\ \A e \in Dirs : dir'[e] = IF e = D THEN i ELSE dir[e]
      /\ claimed' = IF dir[D] = NoPage THEN claimed + 1 ELSE claimed
      /\ DOMAIN page' = DOMAIN page
      /\ \A j \in DOMAIN page : j # i => page'[j] = page[j]
      /\ page'[i] \in PageType /\ PageExact(page'[i])
  BY ApplyChanges
<1>4. /\ PagePool \in Nat \ {0} /\ NoPage = PagePool /\ claimed \in 0 .. PagePool
      /\ dir \in [Dirs -> 0 .. PagePool] /\ DOMAIN page = 0 .. (PagePool - 1)
      /\ \A j \in DOMAIN page : page[j] \in PageType /\ PageExact(page[j])
  BY MasksByPage DEF LadderInv, LadderAssumption, NoPage, TypeOK, PageType
<1>5. dir' = Claims(D, i) /\ page' = [page EXCEPT ![i] = Changed(page[i], OffsetOf(t), d)]
  BY DEF Apply
<1> HIDE DEF D, i
<1>6. TypeOK'
  <2>1. dir' \in [Dirs -> 0 .. PagePool]
    BY <1>2, <1>4, <1>5 DEF Claims
  <2>2. claimed' \in 0 .. PagePool
    BY <1>2, <1>3, <1>4
  <2>3. \A j \in DOMAIN page : page'[j] \in PageType
    BY <1>3, <1>4
  <2>4. page' \in [0 .. (PagePool - 1) -> PageType]
    BY <1>4, <1>5, <2>3
  <2> QED
    BY <2>1, <2>2, <2>4 DEF TypeOK, PageType
<1>7. MasksExact'
  <2>1. \A e, f \in Dirs : dir'[e] = dir'[f] /\ dir'[e] # NoPage => e = f
    <3>1. \A e, f \in Dirs : dir[e] = dir[f] /\ dir[e] # NoPage => e = f
      BY MasksByPage DEF LadderInv
    <3> QED
      BY <1>2, <1>3, <3>1
  <2>2. {dir'[e] : e \in Dirs} \ {NoPage} = 0 .. (claimed' - 1)
    <3>1. {dir[e] : e \in Dirs} \ {NoPage} = 0 .. (claimed - 1)
      BY MasksByPage DEF LadderInv
    <3>2. CASE dir[D] = NoPage
      <4>1. {dir'[e] : e \in Dirs} \ {NoPage} = ({dir[e] : e \in Dirs} \ {NoPage}) \union {i}
        BY <1>2, <1>3, <3>2
      <4>2. 0 .. (claimed' - 1) = (0 .. (claimed - 1)) \union {claimed}
        BY <1>2, <1>3, <1>4, <3>2
      <4> QED
        BY <1>2, <3>1, <3>2, <4>1, <4>2
    <3>3. CASE dir[D] # NoPage
      <4>1. \A e \in Dirs : dir'[e] = dir[e]
        BY <1>2, <1>3, <3>3
      <4> QED
        BY <1>3, <3>1, <3>3, <4>1
    <3> QED
      BY <3>2, <3>3
  <2>3. \A j \in DOMAIN page' : PageExact(page'[j])
    BY <1>3, <1>4
  <2>4. (\A j \in DOMAIN page : PageExact(page[j]))'
    BY <2>3 DEF PageExact, Used
  <2> QED
    BY <2>1, <2>2, <2>4 DEF MasksExact, PageExact, Used
<1>8. Untouched'
  <2>1. ASSUME NEW j \in claimed' .. (PagePool - 1), NEW o \in Offsets
        PROVE  page'[j].total[o] = 0
    <3>1. j \in claimed .. (PagePool - 1) /\ j \in DOMAIN page /\ j # i
      <4>1. claimed' \in Int /\ claimed' >= claimed
        BY <1>3, <1>4
      <4>2. CASE dir[D] = NoPage
        BY <1>2, <1>3, <1>4, <4>1, <4>2
      <4>3. CASE dir[D] # NoPage
        <5>1. i \in 0 .. (claimed - 1)
          BY <1>2, <1>4, <4>3, MasksByPage DEF LadderInv
        <5> QED
          BY <1>3, <1>4, <4>1, <4>3, <5>1
      <4> QED
        BY <4>2, <4>3
    <3> QED
      BY <1>3, <3>1 DEF LadderInv, Untouched
  <2>2. Open' = Open \union {D}
    BY <1>2, <1>3 DEF Open
  <2>3. D \in Open <=> dir[D] # NoPage
    BY <1>2 DEF Open
  <2>4. Cardinality(Open) = claimed /\ IsFiniteSet(Open)
    BY <1>1, OpenFinite DEF LadderInv, Untouched
  <2>5. Cardinality(Open') = claimed'
    BY <1>3, <2>2, <2>3, <2>4, FS_AddElement
  <2> QED
    BY <2>1, <2>5 DEF Untouched
<1>9. Inside'
  <2> SUFFICES ASSUME NEW e \in Dirs, dir'[e] # NoPage,
                      NEW o \in Offsets, page'[dir'[e]].total[o] # 0
               PROVE  TickAt(e, o) < Hi
    BY DEF Inside, TickAt
  <2>1. CASE e # D
    <3>1. dir'[e] = dir[e] /\ dir[e] # i /\ dir[e] \in DOMAIN page
      BY <1>2, <1>3, <1>4, <2>1
    <3>2. page[dir[e]].total[o] # 0
      BY <1>3, <3>1
    <3> QED
      BY <3>1, <3>2 DEF LadderInv, Inside
  <2>2. CASE e = D
    <3>1. dir'[e] = i /\ page'[i].total[o] # 0
      BY <1>2, <1>3, <2>2
    <3>2. page'[i].total = [page[i].total EXCEPT ![OffsetOf(t)] = page[i].total[OffsetOf(t)] + d]
      BY ApplyChanges DEF i, D
    <3>3. page[i].total \in [Offsets -> 0 .. MaxTotal]
      BY <1>2, <1>4 DEF PageType
    <3>4. CASE o = OffsetOf(t)
      <4>1. TickAt(e, o) = t
        BY <1>1, <2>2, <3>4, TickPlace DEF D
      <4> QED
        BY <1>1, <4>1, Typing DEF Ticks
    <3>5. CASE o # OffsetOf(t)
      <4>1. page[i].total[o] # 0
        BY <3>1, <3>2, <3>3, <3>5
      <4>2. dir[D] # NoPage
        <5> SUFFICES ASSUME dir[D] = NoPage PROVE FALSE
          OBVIOUS
        <5>1. i \in claimed .. (PagePool - 1)
          BY <1>2, <1>4
        <5> QED
          BY <4>1, <5>1 DEF LadderInv, Untouched
      <4> QED
        BY <1>2, <2>2, <4>1, <4>2 DEF LadderInv, Inside
    <3> QED
      BY <3>4, <3>5
  <2> QED
    BY <2>1, <2>2
<1> QED
  BY <1>1, <1>6, <1>7, <1>8, <1>9 DEF LadderInv

LEMMA LadderInvStep == LadderInv /\ [Next]_vars => LadderInv'
<1> SUFFICES ASSUME LadderInv, [Next]_vars PROVE LadderInv'
  OBVIOUS
<1>1. CASE UNCHANGED vars
  <2>1. TypeOK' /\ LadderAssumption
    BY <1>1 DEF vars, LadderInv, TypeOK
  <2>2. MasksExact'
    BY <1>1 DEF vars, LadderInv, MasksExact
  <2>3. Untouched'
    BY <1>1 DEF vars, LadderInv, Untouched, Open
  <2>4. Inside'
    BY <1>1 DEF vars, LadderInv, Inside
  <2> QED
    BY <2>1, <2>2, <2>3, <2>4 DEF LadderInv
<1>2. ASSUME NEW t \in Ticks, NEW d \in Delta, Apply(t, d) PROVE LadderInv'
  BY <1>2, ApplyStep
<1> QED
  BY <1>1, <1>2 DEF Next

(* The page directory, masks, summaries and occupancies agree with the     *)
(* levels after every sequence of changes, for every band, page size and   *)
(* pool.                                                                   *)
THEOREM MasksHold == LadderAssumption /\ Spec => []MasksExact
<1>1. LadderAssumption /\ Init => LadderInv
  BY LadderInvInit
<1>2. LadderInv => MasksExact
  BY DEF LadderInv
<1> QED
  BY <1>1, <1>2, LadderInvStep, PTL DEF Spec

----------------------------------------------------------------------------
(* The ladder as a map.                                                    *)

Qty == [t \in Ticks |-> QtyAt(t)]

LEMMA QtyInit == LadderAssumption /\ Init => Qty = [t \in Ticks |-> 0] /\ Open = {}
<1> SUFFICES ASSUME LadderAssumption, Init PROVE Qty = [t \in Ticks |-> 0] /\ Open = {}
  OBVIOUS
<1>1. \A t \in Ticks : QtyAt(t) = 0
  BY TickPlace DEF Init, QtyAt
<1> QED
  BY <1>1 DEF Qty, Init, Open

(* A call changes the quantity at its tick and at no other, and opens the  *)
(* tick's page.                                                            *)
LEMMA QtyStep ==
  ASSUME LadderInv, LadderInv', NEW t \in Ticks, NEW d \in Delta, Apply(t, d)
  PROVE  /\ Qty' # Qty
         /\ Qty'[t] \in Nat
         /\ Qty' = [Qty EXCEPT ![t] = Qty'[t]]
         /\ Open' = Open \union {DirOf(t)}
         /\ Cardinality(Open') <= PagePool
<1> DEFINE D == DirOf(t)
           i == SlotFor(D)
           o == OffsetOf(t)
<1>1. /\ Claimable(t) /\ LadderAssumption
      /\ page[i].total[o] + d \in 0 .. MaxTotal /\ d \in Int /\ d # 0
  BY DEF Apply, LadderInv, LadderAssumption
<1>2. /\ D \in Dirs /\ o \in Offsets /\ i \in DOMAIN page /\ i # NoPage
      /\ \A e \in Dirs : e # D => dir[e] # i
      /\ dir[D] = NoPage => i = claimed /\ claimed \in 0 .. (PagePool - 1)
      /\ dir[D] # NoPage => i = dir[D]
  BY <1>1, SlotPlace DEF SlotFor, LadderInv, TypeOK
<1>3. /\ \A e \in Dirs : dir'[e] = IF e = D THEN i ELSE dir[e]
      /\ \A j \in DOMAIN page : j # i => page'[j] = page[j]
      /\ page'[i].total = [page[i].total EXCEPT ![o] = page[i].total[o] + d]
  BY ApplyChanges
<1>4. /\ page[i].total \in [Offsets -> Nat]
      /\ dir[D] = NoPage => \A x \in Offsets : page[i].total[x] = 0
      /\ dir \in [Dirs -> 0 .. PagePool] /\ NoPage = PagePool /\ PagePool \in Nat
  <2>1. page[i] \in PageType
    BY <1>1, SlotPlace
  <2>2. page[i].total \in [Offsets -> Nat]
    BY <2>1 DEF PageType
  <2>3. ASSUME dir[D] = NoPage, NEW x \in Offsets PROVE page[i].total[x] = 0
    <3>1. claimed \in claimed .. (PagePool - 1)
      BY <1>1, <1>2, <2>3 DEF LadderAssumption
    <3> QED
      BY <1>2, <2>3, <3>1 DEF LadderInv, Untouched
  <2> QED
    BY <2>2, <2>3 DEF LadderInv, TypeOK, LadderAssumption, NoPage
<1>5. \A x \in Ticks : /\ DirOf(x) \in Dirs /\ OffsetOf(x) \in Offsets
                       /\ DirOf(x) = D /\ OffsetOf(x) = o => x = t
  BY <1>1, TickPlace
<1> HIDE DEF D, i, o
<1>6. QtyAt(t)' = page[i].total[o] + d
  <2>1. QtyAt(t)' = IF dir'[D] = NoPage THEN 0 ELSE page'[dir'[D]].total[o]
    BY DEF QtyAt, D, o, DirOf, OffsetOf
  <2> QED
    BY <1>2, <1>3, <1>4, <2>1
<1>7. QtyAt(t) = page[i].total[o]
  <2>1. QtyAt(t) = IF dir[D] = NoPage THEN 0 ELSE page[dir[D]].total[o]
    BY DEF QtyAt, D, o
  <2> QED
    BY <1>2, <1>4, <2>1
<1>8. ASSUME NEW x \in Ticks, x # t PROVE QtyAt(x)' = QtyAt(x)
  <2> DEFINE E == DirOf(x)
             p == OffsetOf(x)
  <2>1. QtyAt(x)' = IF dir'[E] = NoPage THEN 0 ELSE page'[dir'[E]].total[p]
    BY DEF QtyAt, DirOf, OffsetOf
  <2>2. QtyAt(x) = IF dir[E] = NoPage THEN 0 ELSE page[dir[E]].total[p]
    BY DEF QtyAt
  <2>3. E \in Dirs /\ p \in Offsets /\ ~(E = D /\ p = o)
    BY <1>5, <1>8
  <2> HIDE DEF E, p
  <2>4. CASE E = D
    <3>1. p # o /\ page'[i].total[p] = page[i].total[p]
      BY <1>2, <1>3, <1>4, <2>3, <2>4
    <3>2. QtyAt(x)' = page[i].total[p]
      BY <1>2, <1>3, <2>1, <2>3, <2>4, <3>1
    <3> QED
      BY <1>2, <1>4, <2>2, <2>3, <2>4, <3>2
  <2>5. CASE E # D
    <3>1. dir'[E] = dir[E]
      BY <1>3, <2>3, <2>5
    <3>2. ASSUME dir[E] # NoPage PROVE page'[dir[E]] = page[dir[E]]
      <4>1. dir[E] \in DOMAIN page
        BY <1>4, <2>3, <3>2 DEF LadderInv, TypeOK
      <4> QED
        BY <1>2, <1>3, <2>3, <2>5, <4>1
    <3> QED
      BY <2>1, <2>2, <3>1, <3>2
  <2> QED
    BY <2>4, <2>5
<1>9. Open' = Open \union {D}
  BY <1>2, <1>3 DEF Open
<1>10. Cardinality(Open') <= PagePool
  <2>1. Cardinality(Open') = claimed' /\ claimed' \in 0 .. PagePool
    BY DEF LadderInv, Untouched, TypeOK
  <2> QED
    BY <1>4, <2>1
<1>11. Qty'[t] = QtyAt(t)' /\ Qty[t] = QtyAt(t)
  BY DEF Qty, Ticks
<1>12. page[i].total[o] \in Nat
  BY <1>2, <1>4
<1>13. QtyAt(t)' \in Nat /\ QtyAt(t)' # QtyAt(t)
  <2>1. page[i].total[o] + d \in Nat
    BY <1>1 DEF i, o, D, LadderAssumption
  <2> QED
    BY <1>1, <1>6, <1>7, <1>12, <2>1
<1>14. Qty' = [Qty EXCEPT ![t] = Qty'[t]]
  <2>1. Qty' = [x \in Ticks |-> QtyAt(x)']
    BY DEF Qty, Ticks
  <2>2. Qty' = [x \in Ticks |-> IF x = t THEN Qty'[t] ELSE Qty[x]]
    BY <1>8, <1>11, <2>1 DEF Qty
  <2> QED
    BY <2>2 DEF Qty
<1> QED
  BY <1>9, <1>10, <1>11, <1>13, <1>14 DEF D

(* Seen through peek the ladder is one quantity per tick, which apply      *)
(* changes at its tick and nowhere else, however the pages came to lie in  *)
(* the pool: for every band, page size and pool.                           *)
THEOREM LadderImplements == LadderAssumption /\ Spec => ImplementsLevelMap
<1>1. LadderAssumption /\ Init => LadderInv /\ LevelsMap!Init
  <2>1. LadderAssumption /\ Init => LevelsMap!Init
    BY QtyInit DEF LevelsMap!Init, Qty, Open, Ticks, LevelsMap!Ticks
  <2> QED
    BY <2>1, LadderInvInit
<1>2. LadderInv /\ LadderInv' /\ [Next]_vars
        => [LevelsMap!Steps]_<<[t \in Ticks |-> QtyAt(t)], {d \in Dirs : dir[d] # NoPage}>>
  <2> SUFFICES ASSUME LadderInv, LadderInv', [Next]_vars
               PROVE  LevelsMap!Change \/ (Qty' = Qty /\ Open' = Open)
    BY DEF LevelsMap!Steps, Qty, Open
  <2>1. CASE UNCHANGED vars
    BY <2>1 DEF vars, Qty, QtyAt, Open
  <2>2. ASSUME NEW t \in Ticks, NEW d \in Delta, Apply(t, d) PROVE LevelsMap!Change
    <3>1. LevelsMap!Cardinality(Open') = Cardinality(Open')
      BY DEF LevelsMap!Cardinality, Cardinality
    <3> QED
      BY <2>2, <3>1, QtyStep
         DEF LevelsMap!Change, LevelsMap!Ticks, LevelsMap!Page, Ticks, Qty, Open, DirOf
  <2> QED
    BY <2>1, <2>2 DEF Next
<1> QED
  BY <1>1, <1>2, LadderInvStep, PTL DEF Spec, ImplementsLevelMap, LevelsMap!Spec

----------------------------------------------------------------------------
(* The searches.                                                           *)

LEMMA LowestIs ==
  ASSUME NEW S \in SUBSET Int, S # {}, NEW n \in Int, \A x \in S : n <= x
  PROVE  Lowest(S) \in S /\ \A y \in S : Lowest(S) <= y
<1> DEFINE U == {y - n : y \in S}
<1>1. U \subseteq Nat /\ U # {}
  <2>1. \A y \in S : y - n \in Nat
    OBVIOUS
  <2> QED
    BY <2>1
<1>2. \E u \in U : \A v \in U : ~ (<<v, u>> \in OpToRel(<, Nat))
  BY <1>1, NatLessThanWellFounded, WFMin
<1>3. PICK u \in U : \A v \in U : ~ (v < u)
  BY <1>1, <1>2 DEF OpToRel
<1>4. PICK x \in S : u = x - n
  OBVIOUS
<1>5. \A y \in S : x <= y
  <2> TAKE y \in S
  <2>1. y - n \in U /\ y - n \in Int /\ u \in Int
    OBVIOUS
  <2>2. ~(y - n < u)
    BY <1>3, <2>1
  <2> QED
    BY <1>4, <2>1, <2>2
<1>6. \E z \in S : \A y \in S : z <= y
  BY <1>4, <1>5
<1> QED
  BY <1>6, Zenon DEF Lowest

LEMMA HighestIs ==
  ASSUME NEW S \in SUBSET Int, S # {}, NEW n \in Int, \A x \in S : x <= n
  PROVE  Highest(S) \in S /\ \A y \in S : y <= Highest(S)
<1> DEFINE U == {n - y : y \in S}
<1>1. U \subseteq Nat /\ U # {}
  <2>1. \A y \in S : n - y \in Nat
    OBVIOUS
  <2> QED
    BY <2>1
<1>2. \E u \in U : \A v \in U : ~ (<<v, u>> \in OpToRel(<, Nat))
  BY <1>1, NatLessThanWellFounded, WFMin
<1>3. PICK u \in U : \A v \in U : ~ (v < u)
  BY <1>1, <1>2 DEF OpToRel
<1>4. PICK x \in S : u = n - x
  OBVIOUS
<1>5. \A y \in S : y <= x
  <2> TAKE y \in S
  <2>1. n - y \in U /\ n - y \in Int /\ u \in Int
    OBVIOUS
  <2>2. ~(n - y < u)
    BY <1>3, <2>1
  <2> QED
    BY <1>4, <2>1, <2>2
<1>6. \E z \in S : \A y \in S : y <= z
  BY <1>4, <1>5
<1> QED
  BY <1>6, Zenon DEF Highest

(* Numbers are ordered by their quotients, and by their rests within one.  *)
LEMMA QuotientOrder ==
  ASSUME NEW m \in Nat \ {0}, NEW a \in Int, NEW b \in Int
  PROVE  /\ a \div m < b \div m => a < b
         /\ a \div m = b \div m => (a <= b <=> a % m <= b % m)
<1> DEFINE p == a \div m
           q == b \div m
           r == a % m
           s == b % m
<1>1. p \in Int /\ r \in 0 .. (m - 1) /\ a = m * p + r
  BY Division
<1>2. q \in Int /\ s \in 0 .. (m - 1) /\ b = m * q + s
  BY Division
<1> HIDE DEF p, q, r, s
<1>3. ASSUME p < q PROVE a < b
  <2>1. q - p - 1 \in Nat
    BY <1>1, <1>2, <1>3
  <2>2. m * (q - p - 1) >= 0
    BY <2>1
  <2>3. m * (q - p - 1) = m * q - m * p - m
    BY <1>1, <1>2
  <2>4. m * p \in Int /\ m * q \in Int
    BY <1>1, <1>2
  <2> QED
    BY <1>1, <1>2, <2>2, <2>3, <2>4
<1>4. ASSUME p = q PROVE a <= b <=> r <= s
  <2>1. m * p \in Int /\ m * p = m * q
    BY <1>1, <1>4
  <2> QED
    BY <1>1, <1>2, <2>1
<1> QED
  BY <1>3, <1>4 DEF p, q, r, s

LEMMA OffsetOrder ==
  ASSUME LadderAssumption, NEW a \in Offsets, NEW b \in Offsets
  PROVE  /\ WordOf(a) < WordOf(b) => a < b
         /\ WordOf(a) = WordOf(b) => (a <= b <=> BitOf(a) <= BitOf(b))
<1>1. a \in Int /\ b \in Int /\ WordBits \in Nat \ {0}
  BY Typing
<1> QED
  BY <1>1, QuotientOrder DEF WordOf, BitOf

LEMMA TickOrder ==
  ASSUME LadderAssumption, NEW a \in Int, NEW b \in Int
  PROVE  /\ DirOf(a) < DirOf(b) => a < b
         /\ DirOf(a) = DirOf(b) => (a <= b <=> OffsetOf(a) <= OffsetOf(b))
<1>1. Lo \in Int /\ a - Lo \in Int /\ b - Lo \in Int /\ PageTicks \in Nat \ {0}
  BY Typing
<1>2. /\ DirOf(a) < DirOf(b) => a - Lo < b - Lo
      /\ DirOf(a) = DirOf(b) => (a - Lo <= b - Lo <=> OffsetOf(a) <= OffsetOf(b))
  BY <1>1, QuotientOrder DEF DirOf, OffsetOf
<1> QED
  BY <1>1, <1>2

(* What an exact page tells a search of the bits and words.                *)
LEMMA Bitmap ==
  ASSUME LadderAssumption, NEW p \in PageType, PageExact(p)
  PROVE  /\ \A u \in Used(p) : /\ u \in Offsets /\ u \in Int
                               /\ WordOf(u) \in p.summary /\ WordOf(u) \in Int
                               /\ BitOf(u) \in p.mask[WordOf(u)] /\ BitOf(u) \in Int
         /\ \A w \in p.summary : w \in Words /\ p.mask[w] # {}
         /\ \A w \in Words : /\ p.mask[w] \subseteq Bits
                             /\ \A b \in p.mask[w] :
                                  \E u \in Used(p) : /\ WordOf(u) = w /\ BitOf(u) = b
                                                     /\ u = w * WordBits + b
<1>1. \A u \in Used(p) : u \in Offsets
  BY DEF Used
<1>2. \A u \in Used(p) : /\ WordOf(u) \in Words /\ BitOf(u) \in Bits
                         /\ WordOf(u) * WordBits + BitOf(u) = u
  BY <1>1, BitPlace
<1>3. \A u \in Used(p) : WordOf(u) \in p.summary /\ BitOf(u) \in p.mask[WordOf(u)]
  BY <1>2 DEF PageExact
<1>4. \A w \in Words : \A b \in p.mask[w] : \E u \in Used(p) : WordOf(u) = w /\ BitOf(u) = b
  BY DEF PageExact
<1>5. \A w \in p.summary : \E u \in Used(p) : WordOf(u) = w
  BY DEF PageExact
<1>6. \A w \in Words : p.mask[w] \subseteq Bits
  BY DEF PageType
<1> QED
  BY <1>1, <1>2, <1>3, <1>4, <1>5, <1>6, Typing

(* The search within a page finds the first level at o or above.           *)
LEMMA OffsetsUpFinds ==
  ASSUME LadderAssumption, NEW p \in PageType, PageExact(p), NEW o \in Offsets
  PROVE  /\ \A x \in OffsetsUp(p, o) : x \in Used(p) /\ x >= o
         /\ \A u \in Used(p) : u >= o => \E x \in OffsetsUp(p, o) : x <= u
<1> DEFINE W == WordOf(o)
           m == {x \in p.mask[W] : x >= BitOf(o)}
           s == {w \in p.summary : w > W}
<1>0. \A v \in p.summary : v \in Words /\ p.mask[v] # {}
  BY Bitmap
<1>1. /\ W \in Words /\ W \in Int /\ BitOf(o) \in Int /\ o \in Int
      /\ Words \subseteq Nat /\ Bits \subseteq Nat
  BY BitPlace, Typing
<1>2. m \subseteq Nat /\ s \subseteq Nat /\ s \subseteq p.summary
  BY <1>1, Bitmap
<1>3. \A u \in Used(p) : u >= o => \/ WordOf(u) = W /\ BitOf(u) \in m
                                   \/ WordOf(u) \in s
  <2> TAKE u \in Used(p)
  <2>1. u \in Offsets /\ u \in Int /\ WordOf(u) \in Int /\ BitOf(u) \in Int
    BY Bitmap
  <2>2. CASE WordOf(u) < W
    BY <1>1, <2>1, <2>2, OffsetOrder
  <2>3. CASE WordOf(u) = W
    BY <1>1, <2>1, <2>3, OffsetOrder, Bitmap
  <2>4. CASE WordOf(u) > W
    BY <2>4, Bitmap
  <2> QED
    BY <1>1, <2>1, <2>2, <2>3, <2>4
<1>4. OffsetsUp(p, o) = IF m # {} THEN {W * WordBits + Lowest(m)}
                        ELSE IF s # {} THEN {Lowest(s) * WordBits + Lowest(p.mask[Lowest(s)])}
                        ELSE {}
  BY DEF OffsetsUp
<1>5. ASSUME NEW w \in Words, NEW M \in SUBSET p.mask[w], M # {}
      PROVE  \E x \in Used(p) : /\ x = w * WordBits + Lowest(M)
                                /\ WordOf(x) = w /\ BitOf(x) \in M
                                /\ \A u \in Used(p) : WordOf(u) = w /\ BitOf(u) \in M => x <= u
  <2>1. M \subseteq Nat
    BY <1>1, Bitmap
  <2>2. Lowest(M) \in M /\ \A y \in M : Lowest(M) <= y
    BY <1>5, <2>1, LowestIs
  <2>3. PICK x \in Used(p) : /\ WordOf(x) = w /\ BitOf(x) = Lowest(M)
                             /\ x = w * WordBits + Lowest(M)
    BY <2>2, Bitmap
  <2>4. \A u \in Used(p) : WordOf(u) = w /\ BitOf(u) \in M => x <= u
    BY <2>2, <2>3, Bitmap, OffsetOrder
  <2> QED
    BY <2>2, <2>3, <2>4
<1>6. CASE m # {}
  <2>1. m \in SUBSET p.mask[W]
    OBVIOUS
  <2>2. PICK x \in Used(p) : /\ x = W * WordBits + Lowest(m)
                             /\ WordOf(x) = W /\ BitOf(x) \in m
                             /\ \A u \in Used(p) : WordOf(u) = W /\ BitOf(u) \in m => x <= u
    <3> HIDE DEF m
    <3> QED
      BY <1>1, <1>5, <1>6, <2>1
  <2>3. OffsetsUp(p, o) = {x}
    BY <1>4, <1>6, <2>2
  <2>4. x \in Offsets /\ x \in Int
    BY Bitmap
  <2>5. x >= o
    BY <1>1, <2>2, <2>4, OffsetOrder
  <2>6. ASSUME NEW u \in Used(p), u >= o PROVE x <= u
    <3>1. u \in Offsets /\ u \in Int /\ WordOf(u) \in Int
      BY Bitmap
    <3>2. CASE WordOf(u) = W /\ BitOf(u) \in m
      BY <2>2, <3>2
    <3>3. CASE WordOf(u) \in s
      BY <2>2, <2>4, <3>1, <3>3, OffsetOrder
    <3> QED
      BY <1>3, <2>6, <3>2, <3>3
  <2> QED
    BY <2>3, <2>5, <2>6
<1>7. CASE m = {} /\ s # {}
  <2> DEFINE k == Lowest(s)
  <2>1. k \in s /\ \A v \in s : k <= v
    BY <1>2, <1>7, LowestIs
  <2> HIDE DEF k
  <2>2. k \in p.summary /\ k > W
    BY <2>1
  <2>3. k \in Words /\ p.mask[k] # {} /\ k \in Int
    <3>1. k \in Words /\ p.mask[k] # {}
      BY <1>0, <2>2
    <3>2. \A v \in Words : v \in Int
      BY <1>1
    <3> QED
      BY <3>1, <3>2
  <2>4. PICK x \in Used(p) : /\ x = k * WordBits + Lowest(p.mask[k])
                             /\ WordOf(x) = k /\ BitOf(x) \in p.mask[k]
                             /\ \A u \in Used(p) : WordOf(u) = k /\ BitOf(u) \in p.mask[k] => x <= u
    BY <1>5, <2>3
  <2>5. OffsetsUp(p, o) = {x}
    BY <1>4, <1>7, <2>4 DEF k
  <2>6. x \in Offsets /\ x \in Int
    BY Bitmap
  <2>7. x >= o
    BY <1>1, <2>2, <2>4, <2>6, <2>3, OffsetOrder
  <2>8. ASSUME NEW u \in Used(p), u >= o PROVE x <= u
    <3>1. u \in Offsets /\ u \in Int /\ WordOf(u) \in Int /\ BitOf(u) \in p.mask[WordOf(u)]
      BY Bitmap
    <3>2. WordOf(u) \in s
      BY <1>3, <1>7, <2>8
    <3>3. CASE WordOf(u) = k
      BY <2>4, <3>1, <3>3
    <3>4. CASE WordOf(u) > k
      BY <2>4, <2>6, <3>1, <3>4, OffsetOrder
    <3> QED
      BY <2>1, <2>3, <3>1, <3>2, <3>3, <3>4
  <2> QED
    BY <2>5, <2>7, <2>8
<1>8. CASE m = {} /\ s = {}
  BY <1>3, <1>4, <1>8
<1> QED
  BY <1>6, <1>7, <1>8

(* The search within a page finds the last level at o or below.            *)
LEMMA OffsetsDownFinds ==
  ASSUME LadderAssumption, NEW p \in PageType, PageExact(p), NEW o \in Offsets
  PROVE  /\ \A x \in OffsetsDown(p, o) : x \in Used(p) /\ x <= o
         /\ \A u \in Used(p) : u <= o => \E x \in OffsetsDown(p, o) : u <= x
<1> DEFINE W == WordOf(o)
           m == {x \in p.mask[W] : x <= BitOf(o)}
           s == {w \in p.summary : w < W}
<1>0. \A v \in p.summary : v \in Words /\ p.mask[v] # {}
  BY Bitmap
<1>1. /\ W \in Words /\ W \in Int /\ BitOf(o) \in Int /\ o \in Int
      /\ Words \subseteq Nat /\ Bits \subseteq Nat /\ WordBits \in Nat
  BY BitPlace, Typing
<1>2. m \subseteq Nat /\ s \subseteq Nat /\ s \subseteq p.summary
  BY <1>1, Bitmap
<1>3. \A u \in Used(p) : u <= o => \/ WordOf(u) = W /\ BitOf(u) \in m
                                   \/ WordOf(u) \in s
  <2> TAKE u \in Used(p)
  <2>1. u \in Offsets /\ u \in Int /\ WordOf(u) \in Int /\ BitOf(u) \in Int
    BY Bitmap
  <2>2. CASE WordOf(u) > W
    BY <1>1, <2>1, <2>2, OffsetOrder
  <2>3. CASE WordOf(u) = W
    BY <1>1, <2>1, <2>3, OffsetOrder, Bitmap
  <2>4. CASE WordOf(u) < W
    BY <2>4, Bitmap
  <2> QED
    BY <1>1, <2>1, <2>2, <2>3, <2>4
<1>4. OffsetsDown(p, o) = IF m # {} THEN {W * WordBits + Highest(m)}
                        ELSE IF s # {} THEN {Highest(s) * WordBits + Highest(p.mask[Highest(s)])}
                        ELSE {}
  BY DEF OffsetsDown
<1>5. ASSUME NEW w \in Words, NEW M \in SUBSET p.mask[w], M # {}
      PROVE  \E x \in Used(p) : /\ x = w * WordBits + Highest(M)
                                /\ WordOf(x) = w /\ BitOf(x) \in M
                                /\ \A u \in Used(p) : WordOf(u) = w /\ BitOf(u) \in M => u <= x
  <2>1. M \subseteq Nat
    BY <1>1, Bitmap
  <2>2. Highest(M) \in M /\ \A y \in M : y <= Highest(M)
    <3>1. \A y \in M : y \in Bits
      BY Bitmap
    <3>2. \A y \in M : y <= WordBits
      BY <1>1, <3>1 DEF Bits
    <3>3. M \in SUBSET Int /\ WordBits \in Int
      BY <1>1, <2>1
    <3> QED
      BY <1>5, <3>2, <3>3, HighestIs
  <2>3. PICK x \in Used(p) : /\ WordOf(x) = w /\ BitOf(x) = Highest(M)
                             /\ x = w * WordBits + Highest(M)
    BY <2>2, Bitmap
  <2>4. \A u \in Used(p) : WordOf(u) = w /\ BitOf(u) \in M => u <= x
    BY <2>2, <2>3, Bitmap, OffsetOrder
  <2> QED
    BY <2>2, <2>3, <2>4
<1>6. CASE m # {}
  <2>1. m \in SUBSET p.mask[W]
    OBVIOUS
  <2>2. PICK x \in Used(p) : /\ x = W * WordBits + Highest(m)
                             /\ WordOf(x) = W /\ BitOf(x) \in m
                             /\ \A u \in Used(p) : WordOf(u) = W /\ BitOf(u) \in m => u <= x
    <3> HIDE DEF m
    <3> QED
      BY <1>1, <1>5, <1>6, <2>1
  <2>3. OffsetsDown(p, o) = {x}
    BY <1>4, <1>6, <2>2
  <2>4. x \in Offsets /\ x \in Int
    BY Bitmap
  <2>5. x <= o
    BY <1>1, <2>2, <2>4, OffsetOrder
  <2>6. ASSUME NEW u \in Used(p), u <= o PROVE u <= x
    <3>1. u \in Offsets /\ u \in Int /\ WordOf(u) \in Int
      BY Bitmap
    <3>2. CASE WordOf(u) = W /\ BitOf(u) \in m
      BY <2>2, <3>2
    <3>3. CASE WordOf(u) \in s
      BY <2>2, <2>4, <3>1, <3>3, OffsetOrder
    <3> QED
      BY <1>3, <2>6, <3>2, <3>3
  <2> QED
    BY <2>3, <2>5, <2>6
<1>7. CASE m = {} /\ s # {}
  <2> DEFINE k == Highest(s)
  <2>1. k \in s /\ \A v \in s : v <= k
    <3>1. \A v \in s : v <= W
      BY <1>1, <1>2
    <3>2. s \in SUBSET Int /\ s # {} /\ W \in Int
      BY <1>1, <1>2, <1>7
    <3> HIDE DEF s, W
    <3> QED
      BY <3>1, <3>2, HighestIs
  <2> HIDE DEF k
  <2>2. k \in p.summary /\ k < W
    BY <2>1
  <2>3. k \in Words /\ p.mask[k] # {} /\ k \in Int
    <3>1. k \in Words /\ p.mask[k] # {}
      BY <1>0, <2>2
    <3>2. \A v \in Words : v \in Int
      BY <1>1
    <3> QED
      BY <3>1, <3>2
  <2>4. PICK x \in Used(p) : /\ x = k * WordBits + Highest(p.mask[k])
                             /\ WordOf(x) = k /\ BitOf(x) \in p.mask[k]
                             /\ \A u \in Used(p) : WordOf(u) = k /\ BitOf(u) \in p.mask[k] => u <= x
    BY <1>5, <2>3
  <2>5. OffsetsDown(p, o) = {x}
    BY <1>4, <1>7, <2>4 DEF k
  <2>6. x \in Offsets /\ x \in Int
    BY Bitmap
  <2>7. x <= o
    BY <1>1, <2>2, <2>4, <2>6, <2>3, OffsetOrder
  <2>8. ASSUME NEW u \in Used(p), u <= o PROVE u <= x
    <3>1. u \in Offsets /\ u \in Int /\ WordOf(u) \in Int /\ BitOf(u) \in p.mask[WordOf(u)]
      BY Bitmap
    <3>2. WordOf(u) \in s
      BY <1>3, <1>7, <2>8
    <3>3. CASE WordOf(u) = k
      BY <2>4, <3>1, <3>3
    <3>4. CASE WordOf(u) < k
      BY <2>4, <2>6, <3>1, <3>4, OffsetOrder
    <3> QED
      BY <2>1, <2>3, <3>1, <3>2, <3>3, <3>4
  <2> QED
    BY <2>5, <2>7, <2>8
<1>8. CASE m = {} /\ s = {}
  BY <1>3, <1>4, <1>8
<1> QED
  BY <1>6, <1>7, <1>8

(* A tick with quantity, its page and its level.                           *)
LEMMA OccupiedPlace ==
  ASSUME LadderInv
  PROVE  /\ \A t \in Occupied :
              /\ t \in Ticks /\ t \in Int
              /\ DirOf(t) \in Searched /\ OffsetOf(t) \in Used(page[dir[DirOf(t)]])
              /\ TickAt(DirOf(t), OffsetOf(t)) = t
         /\ \A d \in Searched :
              /\ d \in Dirs /\ d \in Int
              /\ page[dir[d]] \in PageType /\ PageExact(page[dir[d]])
              /\ \A o \in Used(page[dir[d]]) :
                   /\ o \in Offsets /\ TickAt(d, o) \in Occupied
                   /\ DirOf(TickAt(d, o)) = d /\ OffsetOf(TickAt(d, o)) = o
<1>1. LadderAssumption
  BY DEF LadderInv
<1>2. ASSUME NEW d \in Dirs, dir[d] # NoPage
      PROVE  page[dir[d]] \in PageType /\ PageExact(page[dir[d]])
  <2>1. dir[d] \in DOMAIN page
    BY <1>2 DEF LadderInv, TypeOK, LadderAssumption, NoPage
  <2> QED
    BY <2>1, MasksByPage DEF LadderInv, TypeOK, PageType
<1>3. ASSUME NEW t \in Occupied
      PROVE  /\ t \in Ticks /\ t \in Int
             /\ DirOf(t) \in Searched /\ OffsetOf(t) \in Used(page[dir[DirOf(t)]])
             /\ TickAt(DirOf(t), OffsetOf(t)) = t
  <2> DEFINE D == DirOf(t)
             o == OffsetOf(t)
  <2>1. /\ t \in Ticks /\ t \in Int /\ D \in Dirs /\ o \in Offsets
        /\ TickAt(D, o) = t /\ QtyAt(t) # 0
    BY <1>1, TickPlace, Typing DEF Occupied
  <2>2. dir[D] # NoPage /\ page[dir[D]].total[o] # 0
    BY <2>1 DEF QtyAt
  <2>3. o \in Used(page[dir[D]])
    BY <2>1, <2>2 DEF Used
  <2>4. page[dir[D]].occupancy # 0
    BY <1>1, <1>2, <2>1, <2>2, <2>3, UsedFinite, FS_EmptySet DEF PageExact
  <2> QED
    BY <2>1, <2>2, <2>3, <2>4 DEF Searched
<1>4. ASSUME NEW d \in Searched, NEW o \in Used(page[dir[d]])
      PROVE  /\ o \in Offsets /\ TickAt(d, o) \in Occupied
             /\ DirOf(TickAt(d, o)) = d /\ OffsetOf(TickAt(d, o)) = o
  <2>1. d \in Dirs /\ d \in Nat /\ dir[d] # NoPage /\ o \in Offsets /\ o \in Nat
    BY <1>1, Typing DEF Searched, Used
  <2>2. page[dir[d]].total[o] # 0
    BY DEF Used
  <2> DEFINE t == TickAt(d, o)
  <2>3. t \in Int /\ DirOf(t) = d /\ OffsetOf(t) = o
    BY <1>1, <2>1, PlaceTick
  <2>4. t < Hi
    BY <2>1, <2>2 DEF LadderInv, Inside
  <2>5. t >= Lo
    <3>1. d * PageTicks \in Nat
      BY <1>1, <2>1, Typing
    <3> QED
      BY <1>1, <2>1, <3>1, Typing DEF TickAt
  <2> HIDE DEF t
  <2>6. t \in Ticks
    BY <1>1, <2>3, <2>4, <2>5, Typing DEF Ticks
  <2>7. QtyAt(t) # 0
    BY <2>1, <2>2, <2>3 DEF QtyAt
  <2> QED
    BY <2>1, <2>3, <2>6, <2>7 DEF Occupied, t
<1>5. \A d \in Searched : d \in Dirs /\ d \in Int /\ dir[d] # NoPage
  BY <1>1, Typing DEF Searched
<1> QED
  BY <1>2, <1>3, <1>4, <1>5

(* first_above finds the nearest occupied tick above.                      *)
LEMMA FirstAboveFinds ==
  ASSUME LadderInv, NEW from \in Int
  PROVE  FirstAbove(from) =
           LET above == {t \in Occupied : t > from}
           IN  IF above = {} THEN NoTick ELSE Lowest(above)
<1> DEFINE above == {t \in Occupied : t > from}
           start == IF from < Lo THEN Lo ELSE from + 1
           k(d) == IF d = DirOf(start) THEN OffsetOf(start) ELSE 0
           hits == UNION {{TickAt(d, o) : o \in OffsetsUp(page[dir[d]], k(d))} :
                          d \in {e \in Searched : e >= DirOf(start)}}
<1>1. /\ LadderAssumption /\ Lo \in Int /\ Hi \in Int /\ Lo < Hi /\ Offsets \subseteq Nat
      /\ Dirs \subseteq Nat /\ PageTicks \in Nat \ {0}
  BY Typing DEF LadderInv
<1>2. \A t \in Occupied : t \in Int /\ Lo <= t /\ t < Hi
  BY <1>1 DEF Occupied, Ticks
<1>3. FirstAbove(from) = IF from >= Hi - 1 \/ hits = {} THEN NoTick ELSE Lowest(hits)
  BY DEF FirstAbove
<1>4. CASE from >= Hi - 1
  <2>1. above = {}
    BY <1>1, <1>2, <1>4
  <2> QED
    BY <1>3, <1>4, <2>1
<1>5. CASE ~(from >= Hi - 1)
  <2>1. start \in Ticks /\ start \in Int
    BY <1>1, <1>5 DEF Ticks
  <2>2. \A t \in Occupied : t > from <=> t >= start
    BY <1>1, <1>2
  <2> HIDE DEF start
  <2>3. DirOf(start) \in Dirs /\ OffsetOf(start) \in Offsets /\ 0 \in Offsets
    BY <1>1, <2>1, TickPlace DEF Offsets
  <2>4. DirOf(start) \in Int /\ \A d : k(d) \in Offsets
    <3>1. \A x \in Dirs : x \in Int
      BY <1>1
    <3>2. DirOf(start) \in Int
      BY <2>3, <3>1
    <3>3. \A d : k(d) \in Offsets
      BY <2>3
    <3> QED
      BY <3>2, <3>3
  <2>5. ASSUME NEW h \in hits PROVE h \in above
    <3>0. PICK d \in {e \in Searched : e >= DirOf(start)} :
              h \in {TickAt(d, x) : x \in OffsetsUp(page[dir[d]], k(d))}
      OBVIOUS
    <3>1. PICK o \in OffsetsUp(page[dir[d]], k(d)) :
            d \in Searched /\ d >= DirOf(start) /\ h = TickAt(d, o)
      BY <3>0
    <3>2. page[dir[d]] \in PageType /\ PageExact(page[dir[d]]) /\ d \in Int
      BY OccupiedPlace
    <3>3. k(d) \in Offsets
      BY <2>4
    <3>4. o \in Used(page[dir[d]]) /\ o >= k(d)
      BY <1>1, <3>2, <3>3, OffsetsUpFinds
    <3>5. h \in Occupied /\ DirOf(h) = d /\ OffsetOf(h) = o /\ h \in Int
      BY <1>2, <3>1, <3>4, OccupiedPlace
    <3>6. h >= start
      <4>1. CASE d = DirOf(start)
        BY <1>1, <2>1, <3>4, <3>5, <4>1, TickOrder
      <4>2. CASE d > DirOf(start)
        BY <1>1, <2>1, <3>5, <4>2, TickOrder
      <4> QED
        BY <1>1, <2>3, <3>1, <3>2, <4>1, <4>2
    <3> QED
      BY <2>2, <3>5, <3>6
  <2>6. ASSUME NEW t \in above PROVE \E h \in hits : h <= t
    <3>1. /\ t \in Occupied /\ t \in Int /\ t >= start /\ DirOf(t) \in Searched
          /\ OffsetOf(t) \in Used(page[dir[DirOf(t)]])
          /\ TickAt(DirOf(t), OffsetOf(t)) = t
      BY <2>2, OccupiedPlace
    <3> DEFINE d == DirOf(t)
    <3>2. d \in Int /\ d \in Searched /\ page[dir[d]] \in PageType /\ PageExact(page[dir[d]])
      BY <3>1, OccupiedPlace
    <3>3. d >= DirOf(start)
      <4>1. d < DirOf(start) => t < start
        BY <1>1, <2>1, <3>1, TickOrder
      <4>2. ~(t < start)
        BY <2>1, <3>1
      <4> HIDE DEF d
      <4> QED
        BY <2>4, <3>2, <4>1, <4>2
    <3>4. OffsetOf(t) \in Offsets /\ OffsetOf(t) >= k(d)
      <4>1. OffsetOf(t) \in Offsets
        BY <3>1 DEF Used
      <4>2. d = DirOf(start) => OffsetOf(t) >= OffsetOf(start)
        BY <1>1, <2>1, <3>1, TickOrder
      <4>3. CASE d = DirOf(start)
        BY <4>1, <4>2, <4>3
      <4>4. CASE d # DirOf(start)
        <5>1. k(d) = 0 /\ OffsetOf(t) \in Nat
          BY <1>1, <4>1, <4>4
        <5> QED
          BY <4>1, <5>1
      <4> QED
        BY <4>3, <4>4
    <3>5. k(d) \in Offsets
      BY <2>4
    <3>6. PICK x \in OffsetsUp(page[dir[d]], k(d)) : x <= OffsetOf(t)
      BY <1>1, <3>1, <3>2, <3>4, <3>5, OffsetsUpFinds
    <3>7. TickAt(d, x) \in hits
      BY <3>2, <3>3
    <3>8. x \in Used(page[dir[d]])
      BY <1>1, <3>2, <3>5, OffsetsUpFinds
    <3>9. DirOf(TickAt(d, x)) = d /\ OffsetOf(TickAt(d, x)) = x /\ TickAt(d, x) \in Int
      BY <1>2, <3>2, <3>8, OccupiedPlace
    <3>10. TickAt(d, x) <= t
      BY <1>1, <3>1, <3>6, <3>9, TickOrder
    <3> QED
      BY <3>7, <3>10
  <2> HIDE DEF hits
  <2>7. CASE above = {}
    BY <1>3, <1>5, <2>5, <2>7
  <2>8. CASE above # {}
    <3>1. hits # {} /\ hits \subseteq above
      BY <2>5, <2>6, <2>8
    <3>2. above \subseteq Int /\ \A t \in above : Lo <= t
      BY <1>2
    <3>3. hits \subseteq Int /\ \A t \in hits : Lo <= t
      BY <3>1, <3>2
    <3> HIDE DEF above
    <3>4. Lowest(above) \in above /\ \A t \in above : Lowest(above) <= t
      BY <1>1, <2>8, <3>2, LowestIs
    <3>5. Lowest(hits) \in hits /\ \A t \in hits : Lowest(hits) <= t
      BY <1>1, <3>1, <3>3, LowestIs
    <3>6. PICK h \in hits : h <= Lowest(above)
      BY <2>6, <3>4
    <3>7. Lowest(hits) <= h /\ Lowest(above) <= Lowest(hits)
      BY <3>1, <3>4, <3>5
    <3>8. Lowest(hits) \in Int /\ Lowest(above) \in Int /\ h \in Int
      BY <3>2, <3>3, <3>4, <3>5
    <3>9. Lowest(hits) = Lowest(above)
      BY <3>6, <3>7, <3>8
    <3> QED
      BY <1>3, <1>5, <2>8, <3>1, <3>9 DEF above
  <2> QED
    BY <2>7, <2>8
<1> QED
  BY <1>4, <1>5

(* first_below finds the nearest occupied tick below.                      *)
LEMMA FirstBelowFinds ==
  ASSUME LadderInv, NEW from \in Int
  PROVE  FirstBelow(from) =
           LET below == {t \in Occupied : t < from}
           IN  IF below = {} THEN NoTick ELSE Highest(below)
<1> DEFINE below == {t \in Occupied : t < from}
           start == IF from > Hi THEN Hi - 1 ELSE from - 1
           k(d) == IF d = DirOf(start) THEN OffsetOf(start) ELSE PageTicks - 1
           hits == UNION {{TickAt(d, o) : o \in OffsetsDown(page[dir[d]], k(d))} :
                          d \in {e \in Searched : e <= DirOf(start)}}
<1>1. /\ LadderAssumption /\ Lo \in Int /\ Hi \in Int /\ Lo < Hi /\ Offsets \subseteq Nat
      /\ Dirs \subseteq Nat /\ PageTicks \in Nat \ {0}
  BY Typing DEF LadderInv
<1>2. \A t \in Occupied : t \in Int /\ Lo <= t /\ t < Hi
  BY <1>1 DEF Occupied, Ticks
<1>3. FirstBelow(from) = IF from <= Lo \/ hits = {} THEN NoTick ELSE Highest(hits)
  BY DEF FirstBelow
<1>4. CASE from <= Lo
  <2>1. below = {}
    BY <1>1, <1>2, <1>4
  <2> QED
    BY <1>3, <1>4, <2>1
<1>5. CASE ~(from <= Lo)
  <2>1. start \in Ticks /\ start \in Int
    BY <1>1, <1>5 DEF Ticks
  <2>2. \A t \in Occupied : t < from <=> t <= start
    BY <1>1, <1>2
  <2> HIDE DEF start
  <2>3. DirOf(start) \in Dirs /\ OffsetOf(start) \in Offsets /\ PageTicks - 1 \in Offsets
    BY <1>1, <2>1, TickPlace DEF Offsets
  <2>4. DirOf(start) \in Int /\ \A d : k(d) \in Offsets
    <3>1. \A x \in Dirs : x \in Int
      BY <1>1
    <3>2. DirOf(start) \in Int
      BY <2>3, <3>1
    <3>3. \A d : k(d) \in Offsets
      BY <2>3
    <3> QED
      BY <3>2, <3>3
  <2>5. ASSUME NEW h \in hits PROVE h \in below
    <3>0. PICK d \in {e \in Searched : e <= DirOf(start)} :
              h \in {TickAt(d, x) : x \in OffsetsDown(page[dir[d]], k(d))}
      OBVIOUS
    <3>1. PICK o \in OffsetsDown(page[dir[d]], k(d)) :
            d \in Searched /\ d <= DirOf(start) /\ h = TickAt(d, o)
      BY <3>0
    <3>2. page[dir[d]] \in PageType /\ PageExact(page[dir[d]]) /\ d \in Int
      BY OccupiedPlace
    <3>3. k(d) \in Offsets
      BY <2>4
    <3>4. o \in Used(page[dir[d]]) /\ o <= k(d)
      BY <1>1, <3>2, <3>3, OffsetsDownFinds
    <3>5. h \in Occupied /\ DirOf(h) = d /\ OffsetOf(h) = o /\ h \in Int
      BY <1>2, <3>1, <3>4, OccupiedPlace
    <3>6. h <= start
      <4>1. CASE d = DirOf(start)
        BY <1>1, <2>1, <3>4, <3>5, <4>1, TickOrder
      <4>2. CASE d < DirOf(start)
        BY <1>1, <2>1, <3>5, <4>2, TickOrder
      <4> QED
        BY <1>1, <2>3, <3>1, <3>2, <4>1, <4>2
    <3> QED
      BY <2>2, <3>5, <3>6
  <2>6. ASSUME NEW t \in below PROVE \E h \in hits : h >= t
    <3>1. /\ t \in Occupied /\ t \in Int /\ t <= start /\ DirOf(t) \in Searched
          /\ OffsetOf(t) \in Used(page[dir[DirOf(t)]])
          /\ TickAt(DirOf(t), OffsetOf(t)) = t
      BY <2>2, OccupiedPlace
    <3> DEFINE d == DirOf(t)
    <3>2. d \in Int /\ d \in Searched /\ page[dir[d]] \in PageType /\ PageExact(page[dir[d]])
      BY <3>1, OccupiedPlace
    <3>3. d <= DirOf(start)
      <4>1. d > DirOf(start) => t > start
        BY <1>1, <2>1, <3>1, TickOrder
      <4>2. ~(t > start)
        BY <2>1, <3>1
      <4> HIDE DEF d
      <4> QED
        BY <2>4, <3>2, <4>1, <4>2
    <3>4. OffsetOf(t) \in Offsets /\ OffsetOf(t) <= k(d)
      <4>1. OffsetOf(t) \in Offsets
        BY <3>1 DEF Used
      <4>2. d = DirOf(start) => OffsetOf(t) <= OffsetOf(start)
        BY <1>1, <2>1, <3>1, TickOrder
      <4>3. CASE d = DirOf(start)
        BY <4>1, <4>2, <4>3
      <4>4. CASE d # DirOf(start)
        <5>1. k(d) = PageTicks - 1
          BY <4>4
        <5>2. OffsetOf(t) <= PageTicks - 1
          BY <1>1, <4>1 DEF Offsets
        <5> QED
          BY <4>1, <5>1, <5>2
      <4> QED
        BY <4>3, <4>4
    <3>5. k(d) \in Offsets
      BY <2>4
    <3>6. PICK x \in OffsetsDown(page[dir[d]], k(d)) : x >= OffsetOf(t)
      BY <1>1, <3>1, <3>2, <3>4, <3>5, OffsetsDownFinds
    <3>7. TickAt(d, x) \in hits
      BY <3>2, <3>3
    <3>8. x \in Used(page[dir[d]])
      BY <1>1, <3>2, <3>5, OffsetsDownFinds
    <3>9. DirOf(TickAt(d, x)) = d /\ OffsetOf(TickAt(d, x)) = x /\ TickAt(d, x) \in Int
      BY <1>2, <3>2, <3>8, OccupiedPlace
    <3>10. TickAt(d, x) >= t
      BY <1>1, <3>1, <3>6, <3>9, TickOrder
    <3> QED
      BY <3>7, <3>10
  <2> HIDE DEF hits
  <2>7. CASE below = {}
    BY <1>3, <1>5, <2>5, <2>7
  <2>8. CASE below # {}
    <3>1. hits # {} /\ hits \subseteq below
      BY <2>5, <2>6, <2>8
    <3>2. below \subseteq Int /\ \A t \in below : t <= Hi
      BY <1>1, <1>2
    <3>3. hits \subseteq Int /\ \A t \in hits : t <= Hi
      BY <3>1, <3>2
    <3> HIDE DEF below
    <3>4. Highest(below) \in below /\ \A t \in below : t <= Highest(below)
      BY <1>1, <2>8, <3>2, HighestIs
    <3>5. Highest(hits) \in hits /\ \A t \in hits : t <= Highest(hits)
      BY <1>1, <3>1, <3>3, HighestIs
    <3>6. PICK h \in hits : h >= Highest(below)
      BY <2>6, <3>4
    <3>7. Highest(hits) >= h /\ Highest(below) >= Highest(hits)
      BY <3>1, <3>4, <3>5
    <3>8. Highest(hits) \in Int /\ Highest(below) \in Int /\ h \in Int
      BY <3>2, <3>3, <3>4, <3>5
    <3>9. Highest(hits) = Highest(below)
      BY <3>6, <3>7, <3>8
    <3> QED
      BY <1>3, <1>5, <2>8, <3>1, <3>9 DEF below
  <2> QED
    BY <2>7, <2>8
<1> QED
  BY <1>4, <1>5

(* first_above and first_below, from any starting point, find the nearest  *)
(* occupied tick through word, summary and directory in every state the    *)
(* ladder reaches: for every band, page size, word size and pool.          *)
THEOREM SearchesHold == LadderAssumption /\ Spec => []SearchesExact
<1>1. LadderAssumption /\ Init => LadderInv
  BY LadderInvInit
<1>2. LadderInv => SearchesExact
  <2> SUFFICES ASSUME LadderInv PROVE SearchesExact
    OBVIOUS
  <2>1. \A from \in (Lo - 2) .. (Hi + 2) : from \in Int
    BY Typing DEF LadderInv
  <2> QED
    BY <2>1, FirstAboveFinds, FirstBelowFinds DEF SearchesExact
<1> QED
  BY <1>1, <1>2, LadderInvStep, PTL DEF Spec

----------------------------------------------------------------------------
(* Heaps as values.  Position k has the positions 2k and 2k + 1 below it.  *)

Entry == [ts : Nat, seq : Nat, slot : EventSlots]

(* No two entries share a slot or a sequence number.                       *)
Apart(h) ==
  \A k, m \in DOMAIN h : k # m => h[k].slot # h[m].slot /\ h[k].seq # h[m].seq

Ordered(h) == \A k \in DOMAIN h : k > 1 => EntryLess(h[Parent(k)], h[k])

(* The heaps with the entries of h, in any order.                          *)
Shuffles(h) ==
  {g \in [DOMAIN h -> Entry] :
     /\ Apart(g)
     /\ \A k \in DOMAIN h : \E m \in DOMAIN h : g[m] = h[k]
     /\ \A k \in DOMAIN h : \E m \in DOMAIN h : h[m] = g[k]}

LEMMA EntryIs ==
  ASSUME NEW x \in Entry
  PROVE  x.ts \in Nat /\ x.seq \in Nat /\ x.slot \in EventSlots
BY DEF Entry

LEMMA ParentIs ==
  ASSUME NEW k \in Nat, k > 1
  PROVE  /\ Parent(k) \in Nat /\ 1 <= Parent(k) /\ Parent(k) < k
         /\ k = 2 * Parent(k) \/ k = 2 * Parent(k) + 1
BY DEF Parent

LEMMA LessOrder ==
  ASSUME NEW x \in Entry, NEW y \in Entry
  PROVE  /\ ~EntryLess(x, x)
         /\ x.seq # y.seq => EntryLess(x, y) \/ EntryLess(y, x)
         /\ \A z \in Entry : EntryLess(x, y) /\ EntryLess(y, z) => EntryLess(x, z)
<1>1. /\ x.ts \in Nat /\ x.seq \in Nat /\ y.ts \in Nat /\ y.seq \in Nat
      /\ \A z \in Entry : z.ts \in Nat /\ z.seq \in Nat
  BY DEF Entry
<1>2. ~EntryLess(x, x)
  BY <1>1 DEF EntryLess
<1>3. x.seq # y.seq => EntryLess(x, y) \/ EntryLess(y, x)
  BY <1>1 DEF EntryLess
<1>4. ASSUME NEW z \in Entry, EntryLess(x, y), EntryLess(y, z) PROVE EntryLess(x, z)
  BY <1>1, <1>4 DEF EntryLess
<1> QED
  BY <1>2, <1>3, <1>4

LEMMA ShuffleSelf ==
  ASSUME NEW h, h \in [DOMAIN h -> Entry], Apart(h)
  PROVE  h \in Shuffles(h)
BY DEF Shuffles

LEMMA SwapIs ==
  ASSUME NEW D, NEW g \in [D -> Entry], NEW i \in D, NEW j \in D
  PROVE  /\ Swapped(g, i, j) \in [D -> Entry]
         /\ \A k \in D : Swapped(g, i, j)[k] = IF k = j THEN g[i] ELSE IF k = i THEN g[j] ELSE g[k]
BY DEF Swapped

LEMMA SwapShuffles ==
  ASSUME NEW h, NEW g \in Shuffles(h), NEW i \in DOMAIN h, NEW j \in DOMAIN h
  PROVE  Swapped(g, i, j) \in Shuffles(h)
<1> DEFINE D == DOMAIN h
           s == Swapped(g, i, j)
           to(k) == IF k = j THEN i ELSE IF k = i THEN j ELSE k
<1>1. g \in [D -> Entry] /\ Apart(g) /\ DOMAIN g = D
  BY DEF Shuffles
<1>2. s \in [D -> Entry] /\ \A k \in D : s[k] = g[to(k)] /\ to(k) \in D
  BY <1>1, SwapIs
<1>3. \A k \in D : to(to(k)) = k
  OBVIOUS
<1> HIDE DEF s
<1>4. Apart(s)
  <2> SUFFICES ASSUME NEW k \in D, NEW m \in D, k # m
               PROVE  s[k].slot # s[m].slot /\ s[k].seq # s[m].seq
    BY <1>2 DEF Apart
  <2>1. to(k) # to(m) /\ to(k) \in D /\ to(m) \in D /\ s[k] = g[to(k)] /\ s[m] = g[to(m)]
    BY <1>2, <1>3
  <2> HIDE DEF to
  <2> QED
    BY <1>1, <2>1 DEF Apart
<1>5. ASSUME NEW k \in D PROVE \E m \in D : s[m] = h[k]
  <2>1. PICK m \in D : g[m] = h[k]
    BY DEF Shuffles
  <2>2. to(m) \in D /\ s[to(m)] = g[to(to(m))] /\ to(to(m)) = m
    BY <1>2, <1>3
  <2> HIDE DEF to
  <2> QED
    BY <2>1, <2>2
<1>6. ASSUME NEW k \in D PROVE \E m \in D : h[m] = s[k]
  <2>1. s[k] = g[to(k)] /\ to(k) \in D
    BY <1>2
  <2> HIDE DEF to
  <2> QED
    BY <2>1 DEF Shuffles
<1> QED
  BY <1>2, <1>4, <1>5, <1>6 DEF Shuffles, s

----------------------------------------------------------------------------
(* Sifting up.  The heap is ordered but for the entry at i, whose parent   *)
(* sorts before what is below i.                                           *)
UpOrdered(g, i) ==
  /\ \A k \in DOMAIN g : k > 1 /\ k # i => EntryLess(g[Parent(k)], g[k])
  /\ \A k \in DOMAIN g : k > 1 /\ Parent(k) = i /\ i > 1 => EntryLess(g[Parent(i)], g[k])

UpStates(h) ==
  {p \in [heap : Shuffles(h), at : DOMAIN h] : UpOrdered(p.heap, p.at)}

LEMMA UpTurnKeeps ==
  ASSUME NEW N \in Nat, NEW h, DOMAIN h = 1 .. N, NEW p \in UpStates(h)
  PROVE  /\ UpTurn(p) \in UpStates(h)
         /\ \/ UpTurn(p).at < p.at
            \/ UpTurn(p) = p /\ Ordered(p.heap)
<1> DEFINE g == p.heap
           i == p.at
           j == Parent(i)
           s == Swapped(g, i, j)
           u == [heap |-> s, at |-> j]
<1>1. /\ p \in [heap : Shuffles(h), at : DOMAIN h] /\ g \in Shuffles(h) /\ i \in 1 .. N
      /\ g \in [1 .. N -> Entry] /\ Apart(g) /\ UpOrdered(g, i)
  BY DEF UpStates, Shuffles
<1>2. CASE i > 1 /\ EntryLess(g[i], g[j])
  <2>1. UpTurn(p) = u
    BY <1>2 DEF UpTurn
  <2>2. j \in 1 .. N /\ j < i
    BY <1>1, <1>2, ParentIs
  <2>3. s \in Shuffles(h)
    BY <1>1, <2>2, SwapShuffles
  <2>4. /\ DOMAIN s = 1 .. N
        /\ \A k \in 1 .. N : s[k] = IF k = j THEN g[i] ELSE IF k = i THEN g[j] ELSE g[k]
    <3>1. s \in [1 .. N -> Entry]
          /\ \A k \in 1 .. N : s[k] = IF k = j THEN g[i] ELSE IF k = i THEN g[j] ELSE g[k]
      <4>1. g \in [1 .. N -> Entry] /\ i \in 1 .. N /\ j \in 1 .. N
        BY <1>1, <2>2
      <4> HIDE DEF g, i, j
      <4> QED
        BY <4>1, SwapIs
    <3> QED
      BY <3>1
  <2>5. \A k \in 1 .. N : g[k] \in Entry
    BY <1>1
  <2>6. /\ DOMAIN g = 1 .. N
        /\ \A k \in 1 .. N : k > 1 => Parent(k) \in 1 .. N /\ Parent(k) < k
    BY <1>1, ParentIs
  <2> HIDE DEF s
  <2>7. ASSUME NEW k \in 1 .. N, k > 1, k # j PROVE EntryLess(s[Parent(k)], s[k])
    <3> DEFINE q == Parent(k)
    <3>1. q \in 1 .. N /\ q # k /\ s[q] = (IF q = j THEN g[i] ELSE IF q = i THEN g[j] ELSE g[q])
      BY <2>4, <2>6, <2>7
    <3>2. k # i => EntryLess(g[q], g[k])
      BY <1>1, <2>6, <2>7 DEF UpOrdered
    <3>3. q = i => EntryLess(g[j], g[k])
      BY <1>1, <1>2, <2>6, <2>7 DEF UpOrdered
    <3>4. k = i => q = j /\ s[k] = g[j] /\ s[q] = g[i]
      BY <2>2, <2>4
    <3>5. k # i => s[k] = g[k]
      BY <2>4, <2>7
    <3>6. k # i /\ q = j => EntryLess(g[i], g[k])
      BY <1>1, <1>2, <2>2, <2>5, <3>2, LessOrder
    <3> HIDE DEF q, j, i, g
    <3> QED
      BY <1>2, <2>2, <3>1, <3>2, <3>3, <3>4, <3>5, <3>6 DEF q
  <2>8. ASSUME NEW k \in 1 .. N, k > 1, Parent(k) = j, j > 1
        PROVE  EntryLess(s[Parent(j)], s[k])
    <3> DEFINE q == Parent(j)
    <3>1. q \in 1 .. N /\ q < j /\ s[q] = g[q]
      BY <2>2, <2>4, <2>6, <2>8
    <3>2. EntryLess(g[q], g[j])
      BY <1>1, <2>2, <2>6, <2>8 DEF UpOrdered
    <3>3. CASE k = i
      BY <2>2, <2>4, <3>1, <3>2, <3>3
    <3>4. CASE k # i
      <4>1. EntryLess(g[j], g[k])
        BY <1>1, <2>6, <2>8, <3>4 DEF UpOrdered
      <4>2. k # j /\ s[k] = g[k]
        BY <2>4, <2>6, <2>8, <3>4
      <4>3. EntryLess(g[q], g[k])
        <5> HIDE DEF q, j, g
        <5> QED
          BY <2>2, <2>5, <3>1, <3>2, <4>1, LessOrder
      <4> QED
        BY <3>1, <4>2, <4>3
    <3> QED
      BY <3>3, <3>4
  <2>9. UpOrdered(s, j)
    BY <2>4, <2>7, <2>8 DEF UpOrdered
  <2>10. u \in UpStates(h) /\ u.at = j
    BY <1>1, <2>2, <2>3, <2>9 DEF UpStates
  <2> QED
    BY <2>1, <2>2, <2>10
<1>3. CASE ~(i > 1 /\ EntryLess(g[i], g[j]))
  <2>1. UpTurn(p) = p
    BY <1>3 DEF UpTurn
  <2>2. i > 1 => EntryLess(g[j], g[i])
    <3> SUFFICES ASSUME i > 1 PROVE EntryLess(g[j], g[i])
      OBVIOUS
    <3>1. j \in 1 .. N /\ j # i
      BY <1>1, ParentIs
    <3>2. g[i] \in Entry /\ g[j] \in Entry /\ g[i].seq # g[j].seq
      BY <1>1, <3>1 DEF Apart
    <3> QED
      BY <1>3, <3>2, LessOrder
  <2>3. Ordered(g)
    BY <1>1, <2>2 DEF Ordered, UpOrdered
  <2> QED
    BY <2>1, <2>3
<1> QED
  BY <1>2, <1>3
(* f holds the states of sift_up's loop from position i of h.              *)
UpRun(h, i, f) ==
  /\ f[0] = [heap |-> h, at |-> i]
  /\ \A n \in 1 .. Len(h) : f[n] = UpTurn(f[n - 1])
  /\ \A n \in 0 .. Len(h) : f[n] \in UpStates(h)
  /\ SiftUp(h, i) = f[Len(h)].heap

LEMMA UpRuns ==
  ASSUME NEW h \in Seq(Entry), Apart(h), NEW i \in 1 .. Len(h), UpOrdered(h, i)
  PROVE  \E f : UpRun(h, i, f)
<1> DEFINE N == Len(h)
           S == UpStates(h)
           x0 == [heap |-> h, at |-> i]
           Body(f) == [n \in 0 .. N |-> IF n = 0 THEN x0 ELSE UpTurn(f[n - 1])]
           f == CHOOSE x : x = Body(x)
           G == [n \in 1 .. N |-> [p \in S |-> UpTurn(p)]]
<1>1. SiftUp(h, i) = f[N].heap
  BY DEF SiftUp
<1>2. N \in Nat /\ DOMAIN h = 1 .. N /\ h \in [1 .. N -> Entry]
  OBVIOUS
<1>3. x0 \in S
  <2>1. h \in Shuffles(h)
    BY <1>2, ShuffleSelf
  <2> QED
    BY <1>2, <2>1 DEF UpStates
<1>4. \A p \in S : UpTurn(p) \in S
  BY <1>2, UpTurnKeeps
<1> HIDE DEF x0, N, S
<1>5. G \in [1 .. N -> [S -> S]]
  BY <1>4
<1> HIDE DEF G
<1>6. PICK g : Turns(N, S, x0, G, g)
  BY <1>2, <1>3, <1>5, LoopExists
<1>7. g = Body(g)
  <2>1. \A n \in 1 .. N, p \in S : G[n][p] = UpTurn(p)
    BY DEF G
  <2>2. \A n \in 1 .. N : n - 1 \in 0 .. N /\ g[n] = UpTurn(g[n - 1])
    BY <1>2, <1>6, <2>1 DEF Turns
  <2>3. \A n \in 0 .. N : g[n] = IF n = 0 THEN x0 ELSE UpTurn(g[n - 1])
    BY <1>2, <1>6, <2>2 DEF Turns
  <2>4. g = [n \in 0 .. N |-> g[n]]
    BY <1>6 DEF Turns
  <2> QED
    BY <2>3, <2>4
<1> HIDE DEF Body
<1>8. f = Body(f)
  BY <1>7, Zenon
<1> HIDE DEF f
<1>9. f[0] = x0 /\ \A n \in 1 .. N : f[n] = UpTurn(f[n - 1])
  BY <1>2, <1>8 DEF Body
<1>10. \A n \in 1 .. N : f[n - 1] \in S => f[n] \in S
  BY <1>4, <1>9
<1>11. \A n \in 0 .. N : f[n] \in S
  BY <1>2, <1>3, <1>9, <1>10, LoopKeeps
<1>12. UpRun(h, i, f)
  BY <1>1, <1>9, <1>11 DEF UpRun, N, S, x0
<1> QED
  BY <1>12

LEMMA SiftUpIs ==
  ASSUME NEW h \in Seq(Entry), Apart(h), NEW i \in 1 .. Len(h), UpOrdered(h, i)
  PROVE  SiftUp(h, i) \in Shuffles(h) /\ Ordered(SiftUp(h, i))
<1> DEFINE N == Len(h)
<1>1. PICK f : UpRun(h, i, f)
  BY UpRuns
<1> DEFINE Over(n) == UpTurn(f[n]) = f[n] /\ Ordered(f[n].heap)
           H == {n \in 0 .. N : Over(n) \/ f[n].at <= N - n}
<1>2. /\ N \in Nat /\ DOMAIN h = 1 .. N
      /\ f[0] = [heap |-> h, at |-> i]
      /\ \A n \in 1 .. N : f[n] = UpTurn(f[n - 1])
      /\ \A n \in 0 .. N : f[n] \in UpStates(h)
      /\ SiftUp(h, i) = f[N].heap
  BY <1>1 DEF UpRun
<1>3. \A n \in 0 .. N : f[n].at \in 1 .. N /\ f[n].heap \in Shuffles(h)
  BY <1>2 DEF UpStates
<1>4. 0 \in H
  BY <1>2
<1>5. ASSUME NEW n \in 1 .. N, n - 1 \in H PROVE n \in H
  <2>1. n - 1 \in 0 .. N /\ n \in 0 .. N /\ f[n] = UpTurn(f[n - 1])
    BY <1>2
  <2>2. CASE Over(n - 1)
    <3>1. f[n] = f[n - 1]
      BY <2>1, <2>2
    <3> QED
      BY <2>1, <2>2, <3>1
  <2>3. CASE ~Over(n - 1)
    <3>1. f[n - 1].at <= N - (n - 1)
      BY <1>5, <2>3
    <3>2. UpTurn(f[n - 1]).at < f[n - 1].at
      BY <1>2, <2>1, <2>3, UpTurnKeeps
    <3>3. f[n].at <= N - n
      BY <1>2, <1>3, <2>1, <3>1, <3>2
    <3> QED
      BY <2>1, <3>3
  <2> QED
    BY <2>2, <2>3
<1> HIDE DEF H
<1>6. N \in H
  BY <1>2, <1>4, <1>5, TurnsPass
<1>7. Ordered(f[N].heap)
  BY <1>2, <1>3, <1>6 DEF H
<1> QED
  BY <1>2, <1>3, <1>7

----------------------------------------------------------------------------
(* Sifting down.  The heap is ordered but below i, and what is below i     *)
(* sorts behind i's parent.                                                *)
DownOrdered(g, i) ==
  /\ \A k \in DOMAIN g : k > 1 /\ Parent(k) # i => EntryLess(g[Parent(k)], g[k])
  /\ \A k \in DOMAIN g : k > 1 /\ Parent(k) = i /\ i > 1 => EntryLess(g[Parent(i)], g[k])

DownStates(h) ==
  {p \in [heap : Shuffles(h), at : DOMAIN h] : DownOrdered(p.heap, p.at)}

(* The least of an entry and the at most two below it.                     *)
LEMMA BestIs ==
  ASSUME NEW N \in Nat, NEW g \in [1 .. N -> Entry], Apart(g), NEW i \in 1 .. N
  PROVE  /\ Best(g, i) \in Kids(g, i) \union {i}
         /\ \A m \in Kids(g, i) \union {i} :
              m = Best(g, i) \/ EntryLess(g[Best(g, i)], g[m])
<1> DEFINE K == Kids(g, i) \union {i}
           Least(k) == \A m \in K : m = k \/ EntryLess(g[k], g[m])
           a == 2 * i
           b == 2 * i + 1
<1>1. K \subseteq {i, a, b} /\ K \subseteq 1 .. N /\ i \in K
  <2>1. \A k \in Kids(g, i) : k \in 1 .. N /\ k \in {a, b}
    BY ParentIs DEF Kids
  <2> QED
    BY <2>1
<1>2. \A k, m \in K : k = m \/ EntryLess(g[k], g[m]) \/ EntryLess(g[m], g[k])
  <2> SUFFICES ASSUME NEW k \in K, NEW m \in K, k # m
               PROVE  EntryLess(g[k], g[m]) \/ EntryLess(g[m], g[k])
    OBVIOUS
  <2>1. k \in 1 .. N /\ m \in 1 .. N
    BY <1>1
  <2> HIDE DEF K
  <2>2. g[k] \in Entry /\ g[m] \in Entry /\ g[k].seq # g[m].seq
    BY <2>1 DEF Apart
  <2> QED
    BY <2>2, LessOrder
<1>3. \A k, m, n \in K : EntryLess(g[k], g[m]) /\ EntryLess(g[m], g[n]) => EntryLess(g[k], g[n])
  <2>1. \A k \in K : g[k] \in Entry
    BY <1>1
  <2> HIDE DEF K
  <2> QED
    BY <2>1, LessOrder
<1> HIDE DEF K, a, b
<1>4. \E k \in K : Least(k)
  <2>1. \A k \in K : k = i \/ k = a \/ k = b
    BY <1>1
  <2>2. PICK x \in K : (x = i \/ x = a) /\ \A m \in K : (m = i \/ m = a) => m = x \/ EntryLess(g[x], g[m])
    <3>1. CASE a \in K
      BY <1>1, <1>2, <3>1
    <3>2. CASE a \notin K
      BY <1>1, <3>2
    <3> QED
      BY <3>1, <3>2
  <2>3. CASE b \in K
    <3>1. CASE x = b \/ EntryLess(g[x], g[b])
      <4>1. Least(x)
        BY <2>1, <2>2, <3>1
      <4> QED
        BY <4>1
    <3>2. CASE x # b /\ EntryLess(g[b], g[x])
      <4>1. Least(b)
        <5> SUFFICES ASSUME NEW m \in K PROVE m = b \/ EntryLess(g[b], g[m])
          OBVIOUS
        <5> QED
          BY <1>3, <2>1, <2>2, <2>3, <3>2
      <4> QED
        BY <2>3, <4>1
    <3> QED
      BY <1>2, <2>3, <3>1, <3>2
  <2>4. CASE b \notin K
    <3>1. Least(x)
      BY <2>1, <2>2, <2>4
    <3> QED
      BY <3>1
  <2> QED
    BY <2>3, <2>4
<1>5. Best(g, i) = CHOOSE k \in K : Least(k)
  BY DEF Best, K
<1>6. Best(g, i) \in K /\ Least(Best(g, i))
  <2> HIDE DEF Least
  <2> QED
    BY <1>4, <1>5
<1> QED
  BY <1>6 DEF K
LEMMA DownTurnKeeps ==
  ASSUME NEW N \in Nat, NEW h, DOMAIN h = 1 .. N, NEW p \in DownStates(h)
  PROVE  /\ DownTurn(p) \in DownStates(h)
         /\ \/ DownTurn(p).at > p.at
            \/ DownTurn(p) = p /\ Ordered(p.heap)
<1> DEFINE g == p.heap
           i == p.at
           j == Best(g, i)
           s == Swapped(g, i, j)
           u == [heap |-> s, at |-> j]
<1>1. /\ p \in [heap : Shuffles(h), at : DOMAIN h] /\ g \in Shuffles(h) /\ i \in 1 .. N
      /\ g \in [1 .. N -> Entry] /\ Apart(g) /\ DownOrdered(g, i)
  BY DEF DownStates, Shuffles
<1>2. /\ DOMAIN g = 1 .. N
      /\ \A k \in 1 .. N : k > 1 => Parent(k) \in 1 .. N /\ Parent(k) < k
      /\ \A k \in 1 .. N : g[k] \in Entry
  BY <1>1, ParentIs
<1>3. /\ j = i \/ (j \in 1 .. N /\ j > 1 /\ Parent(j) = i)
      /\ \A m \in 1 .. N : m > 1 /\ Parent(m) = i => m = j \/ EntryLess(g[j], g[m])
      /\ i = j \/ EntryLess(g[j], g[i])
  <2>1. /\ j \in Kids(g, i) \union {i}
        /\ \A m \in Kids(g, i) \union {i} : m = j \/ EntryLess(g[j], g[m])
    BY <1>1, BestIs
  <2> HIDE DEF j
  <2> QED
    BY <1>2, <2>1 DEF Kids
<1>4. CASE j = i
  <2>1. DownTurn(p) = p
    BY <1>4 DEF DownTurn
  <2>2. \A k \in 1 .. N : k > 1 /\ Parent(k) = i => EntryLess(g[i], g[k])
    BY <1>2, <1>3, <1>4
  <2>3. Ordered(g)
    BY <1>1, <1>2, <2>2 DEF Ordered, DownOrdered
  <2> QED
    BY <2>1, <2>3
<1>5. CASE j # i
  <2>1. DownTurn(p) = u
    BY <1>5 DEF DownTurn
  <2>2. j \in 1 .. N /\ j > 1 /\ Parent(j) = i /\ i < j /\ EntryLess(g[j], g[i])
    BY <1>2, <1>3, <1>5
  <2>3. s \in Shuffles(h)
    BY <1>1, <2>2, SwapShuffles
  <2>4. /\ DOMAIN s = 1 .. N
        /\ \A k \in 1 .. N : s[k] = IF k = j THEN g[i] ELSE IF k = i THEN g[j] ELSE g[k]
    <3>1. s \in [1 .. N -> Entry]
          /\ \A k \in 1 .. N : s[k] = IF k = j THEN g[i] ELSE IF k = i THEN g[j] ELSE g[k]
      <4>1. g \in [1 .. N -> Entry] /\ i \in 1 .. N /\ j \in 1 .. N
        BY <1>1, <2>2
      <4> HIDE DEF g, i, j
      <4> QED
        BY <4>1, SwapIs
    <3> QED
      BY <3>1
  <2> HIDE DEF s, j
  <2>5. ASSUME NEW k \in 1 .. N, k > 1, Parent(k) # j PROVE EntryLess(s[Parent(k)], s[k])
    <3> DEFINE q == Parent(k)
    <3>1. q \in 1 .. N /\ q # k /\ s[q] = IF q = i THEN g[j] ELSE g[q]
      BY <1>2, <2>4, <2>5
    <3>2. k = j => q = i /\ s[k] = g[i]
      BY <2>2, <2>4
    <3>3. k = i => s[k] = g[j] /\ EntryLess(g[q], g[j])
      BY <1>1, <1>2, <2>2, <2>4, <2>5 DEF DownOrdered
    <3>4. k # i /\ k # j => s[k] = g[k]
      BY <2>4
    <3>5. q = i /\ k # j => EntryLess(g[j], g[k])
      BY <1>3, <2>5
    <3>6. q # i => EntryLess(g[q], g[k])
      BY <1>1, <1>2, <2>5 DEF DownOrdered
    <3> HIDE DEF q, i, g
    <3> QED
      BY <2>2, <3>1, <3>2, <3>3, <3>4, <3>5, <3>6 DEF q
  <2>6. ASSUME NEW k \in 1 .. N, k > 1, Parent(k) = j, j > 1
        PROVE  EntryLess(s[Parent(j)], s[k])
    <3>1. Parent(j) = i /\ s[i] = g[j]
      BY <1>1, <2>2, <2>4
    <3>2. k # i /\ k # j /\ s[k] = g[k]
      BY <1>2, <2>2, <2>4, <2>6
    <3>3. EntryLess(g[j], g[k])
      BY <1>1, <1>2, <2>2, <2>6 DEF DownOrdered
    <3> QED
      BY <3>1, <3>2, <3>3
  <2>7. DownOrdered(s, j)
    BY <2>4, <2>5, <2>6 DEF DownOrdered
  <2>8. u \in DownStates(h) /\ u.at = j
    <3>1. j \in DOMAIN h
      BY <2>2
    <3>2. u \in [heap : Shuffles(h), at : DOMAIN h]
      BY <2>3, <3>1
    <3> QED
      BY <2>7, <3>2 DEF DownStates
  <2> HIDE DEF u, i
  <2> QED
    BY <2>1, <2>2, <2>8 DEF i
<1> QED
  BY <1>4, <1>5

(* f holds the states of sift_down's loop from position i of h.            *)
DownRun(h, i, f) ==
  /\ f[0] = [heap |-> h, at |-> i]
  /\ \A n \in 1 .. Len(h) : f[n] = DownTurn(f[n - 1])
  /\ \A n \in 0 .. Len(h) : f[n] \in DownStates(h)
  /\ SiftDown(h, i) = f[Len(h)].heap

LEMMA DownRuns ==
  ASSUME NEW h \in Seq(Entry), Apart(h), NEW i \in 1 .. Len(h), DownOrdered(h, i)
  PROVE  \E f : DownRun(h, i, f)
<1> DEFINE N == Len(h)
           S == DownStates(h)
           x0 == [heap |-> h, at |-> i]
           Body(f) == [n \in 0 .. N |-> IF n = 0 THEN x0 ELSE DownTurn(f[n - 1])]
           f == CHOOSE x : x = Body(x)
           G == [n \in 1 .. N |-> [p \in S |-> DownTurn(p)]]
<1>1. SiftDown(h, i) = f[N].heap
  BY DEF SiftDown
<1>2. N \in Nat /\ DOMAIN h = 1 .. N /\ h \in [1 .. N -> Entry]
  OBVIOUS
<1>3. x0 \in S
  <2>1. h \in Shuffles(h)
    BY <1>2, ShuffleSelf
  <2> QED
    BY <1>2, <2>1 DEF DownStates
<1>4. \A p \in S : DownTurn(p) \in S
  BY <1>2, DownTurnKeeps
<1> HIDE DEF x0, N, S
<1>5. G \in [1 .. N -> [S -> S]]
  BY <1>4
<1> HIDE DEF G
<1>6. PICK g : Turns(N, S, x0, G, g)
  BY <1>2, <1>3, <1>5, LoopExists
<1>7. g = Body(g)
  <2>1. \A n \in 1 .. N, p \in S : G[n][p] = DownTurn(p)
    BY DEF G
  <2>2. \A n \in 1 .. N : n - 1 \in 0 .. N /\ g[n] = DownTurn(g[n - 1])
    BY <1>2, <1>6, <2>1 DEF Turns
  <2>3. \A n \in 0 .. N : g[n] = IF n = 0 THEN x0 ELSE DownTurn(g[n - 1])
    BY <1>2, <1>6, <2>2 DEF Turns
  <2>4. g = [n \in 0 .. N |-> g[n]]
    BY <1>6 DEF Turns
  <2> QED
    BY <2>3, <2>4
<1> HIDE DEF Body
<1>8. f = Body(f)
  BY <1>7, Zenon
<1> HIDE DEF f
<1>9. f[0] = x0 /\ \A n \in 1 .. N : f[n] = DownTurn(f[n - 1])
  BY <1>2, <1>8 DEF Body
<1>10. \A n \in 1 .. N : f[n - 1] \in S => f[n] \in S
  BY <1>4, <1>9
<1>11. \A n \in 0 .. N : f[n] \in S
  BY <1>2, <1>3, <1>9, <1>10, LoopKeeps
<1>12. DownRun(h, i, f)
  BY <1>1, <1>9, <1>11 DEF DownRun, N, S, x0
<1> QED
  BY <1>12

LEMMA SiftDownIs ==
  ASSUME NEW h \in Seq(Entry), Apart(h), NEW i \in 1 .. Len(h), DownOrdered(h, i)
  PROVE  SiftDown(h, i) \in Shuffles(h) /\ Ordered(SiftDown(h, i))
<1> DEFINE N == Len(h)
<1>1. PICK f : DownRun(h, i, f)
  BY DownRuns
<1> DEFINE Over(n) == DownTurn(f[n]) = f[n] /\ Ordered(f[n].heap)
           H == {n \in 0 .. N : Over(n) \/ f[n].at > n}
<1>2. /\ N \in Nat /\ DOMAIN h = 1 .. N
      /\ f[0] = [heap |-> h, at |-> i]
      /\ \A n \in 1 .. N : f[n] = DownTurn(f[n - 1])
      /\ \A n \in 0 .. N : f[n] \in DownStates(h)
      /\ SiftDown(h, i) = f[N].heap
  BY <1>1 DEF DownRun
<1>3. \A n \in 0 .. N : f[n].at \in 1 .. N /\ f[n].heap \in Shuffles(h)
  BY <1>2 DEF DownStates
<1>4. 0 \in H
  BY <1>2
<1>5. ASSUME NEW n \in 1 .. N, n - 1 \in H PROVE n \in H
  <2>1. n - 1 \in 0 .. N /\ n \in 0 .. N /\ f[n] = DownTurn(f[n - 1])
    BY <1>2
  <2>2. CASE Over(n - 1)
    <3>1. f[n] = f[n - 1]
      BY <2>1, <2>2
    <3> QED
      BY <2>1, <2>2, <3>1
  <2>3. CASE ~Over(n - 1)
    <3>1. f[n - 1].at > n - 1
      BY <1>5, <2>3
    <3>2. DownTurn(f[n - 1]).at > f[n - 1].at
      BY <1>2, <2>1, <2>3, DownTurnKeeps
    <3>3. f[n].at > n
      BY <1>2, <1>3, <2>1, <3>1, <3>2
    <3> QED
      BY <2>1, <3>3
  <2> QED
    BY <2>2, <2>3
<1> HIDE DEF H
<1>6. N \in H
  BY <1>2, <1>4, <1>5, TurnsPass
<1>7. Ordered(f[N].heap)
  BY <1>2, <1>3, <1>6 DEF H
<1> QED
  BY <1>2, <1>3, <1>7

----------------------------------------------------------------------------
(* What the two operations make of a heap: heaps again, with one entry     *)
(* more or less.                                                           *)

Heap(h) == h \in Seq(Entry) /\ Apart(h) /\ Ordered(h)

Holds(h, x) == \E k \in DOMAIN h : h[k] = x

LEMMA ShuffleIs ==
  ASSUME NEW h \in Seq(Entry), NEW g \in Shuffles(h)
  PROVE  /\ g \in Seq(Entry) /\ Len(g) = Len(h) /\ Apart(g)
         /\ \A x : Holds(g, x) <=> Holds(h, x)
<1> DEFINE N == Len(h)
<1>1. N \in Nat /\ DOMAIN h = 1 .. N
  OBVIOUS
<1>2. /\ g \in [1 .. N -> Entry] /\ Apart(g)
      /\ \A k \in 1 .. N : \E m \in 1 .. N : g[m] = h[k]
      /\ \A k \in 1 .. N : \E m \in 1 .. N : h[m] = g[k]
  BY <1>1 DEF Shuffles
<1> HIDE DEF N
<1>3. g \in Seq(Entry) /\ DOMAIN g = 1 .. N
  BY <1>1, <1>2
<1>4. Len(g) = N
  BY <1>1, <1>3
<1>5. \A x : Holds(g, x) <=> Holds(h, x)
  BY <1>1, <1>2, <1>3 DEF Holds
<1> QED
  BY <1>2, <1>3, <1>4, <1>5 DEF N

LEMMA PushedIs ==
  ASSUME NEW h, Heap(h), NEW e \in Entry,
         \A k \in DOMAIN h : h[k].slot # e.slot /\ h[k].seq # e.seq
  PROVE  LET r == SiftUp(Append(h, e), Len(h) + 1)
         IN  /\ Heap(r) /\ Len(r) = Len(h) + 1
             /\ \A x : Holds(r, x) <=> Holds(h, x) \/ x = e
<1> DEFINE N == Len(h)
           g == Append(h, e)
           r == SiftUp(g, N + 1)
<1>1. h \in Seq(Entry) /\ Apart(h) /\ Ordered(h) /\ N \in Nat /\ DOMAIN h = 1 .. N
  BY DEF Heap
<1>2. /\ g \in Seq(Entry) /\ Len(g) = N + 1 /\ DOMAIN g = 1 .. (N + 1)
      /\ g[N + 1] = e /\ \A k \in 1 .. N : g[k] = h[k]
  BY <1>1
<1>3. \A k \in 1 .. (N + 1) : k = N + 1 \/ k \in 1 .. N
  BY <1>1
<1> HIDE DEF N, g
<1>4. Apart(g)
  <2> SUFFICES ASSUME NEW k \in 1 .. (N + 1), NEW m \in 1 .. (N + 1), k # m
               PROVE  g[k].slot # g[m].slot /\ g[k].seq # g[m].seq
    BY <1>2 DEF Apart
  <2>1. CASE k = N + 1
    BY <1>1, <1>2, <1>3, <2>1
  <2>2. CASE m = N + 1
    BY <1>1, <1>2, <1>3, <2>2
  <2>3. CASE k # N + 1 /\ m # N + 1
    BY <1>1, <1>2, <1>3, <2>3 DEF Apart
  <2> QED
    BY <2>1, <2>2, <2>3
<1>5. UpOrdered(g, N + 1)
  <2>1. ASSUME NEW k \in DOMAIN g, k > 1, k # N + 1
        PROVE  EntryLess(g[Parent(k)], g[k])
    <3>1. k \in 1 .. N
      BY <1>2, <1>3, <2>1
    <3>2. Parent(k) \in 1 .. N
      BY <1>1, <2>1, <3>1, ParentIs
    <3>3. EntryLess(h[Parent(k)], h[k])
      BY <1>1, <2>1, <3>1 DEF Ordered
    <3> QED
      BY <1>2, <3>1, <3>2, <3>3
  <2>2. ASSUME NEW k \in DOMAIN g, k > 1 PROVE Parent(k) # N + 1
    BY <1>1, <1>2, <2>2, ParentIs
  <2> QED
    BY <2>1, <2>2 DEF UpOrdered
<1>6. N + 1 \in 1 .. Len(g)
  BY <1>1, <1>2
<1>7. r \in Shuffles(g) /\ Ordered(r)
  BY <1>2, <1>4, <1>5, <1>6, SiftUpIs
<1> HIDE DEF r
<1>8. r \in Seq(Entry) /\ Len(r) = N + 1 /\ Apart(r) /\ \A x : Holds(r, x) <=> Holds(g, x)
  BY <1>2, <1>7, ShuffleIs
<1>9. \A x : Holds(g, x) <=> Holds(h, x) \/ x = e
  BY <1>1, <1>2, <1>3 DEF Holds
<1> QED
  BY <1>7, <1>8, <1>9 DEF r, g, N, Heap

LEMMA RemovedIs ==
  ASSUME NEW h, Heap(h), NEW i \in 1 .. Len(h)
  PROVE  LET r == RemovedAt(h, i)
         IN  /\ Heap(r) /\ Len(r) = Len(h) - 1
             /\ \A x : Holds(r, x) <=> Holds(h, x) /\ x # h[i]
<1> DEFINE N == Len(h)
           s == Swapped(h, i, N)
           g == SubSeq(s, 1, N - 1)
           r == RemovedAt(h, i)
<1>1. h \in Seq(Entry) /\ Apart(h) /\ Ordered(h) /\ N \in Nat /\ DOMAIN h = 1 .. N
  BY DEF Heap
<1>2. i \in 1 .. N /\ N \in 1 .. N /\ h \in [1 .. N -> Entry]
  BY <1>1
<1>3. r = IF i > Len(g) THEN g
          ELSE IF i > 1 /\ EntryLess(g[i], g[Parent(i)]) THEN SiftUp(g, i)
          ELSE SiftDown(g, i)
  BY DEF RemovedAt
<1>4. s \in Seq(Entry) /\ Len(s) = N /\ \A k \in 1 .. N - 1 : s[k] = IF k = i THEN h[N] ELSE h[k]
  <2> HIDE DEF N
  <2>1. /\ s \in [1 .. N -> Entry]
        /\ \A k \in 1 .. N : s[k] = IF k = N THEN h[i] ELSE IF k = i THEN h[N] ELSE h[k]
    BY <1>2, SwapIs
  <2> HIDE DEF s
  <2>2. s \in Seq(Entry) /\ Len(s) = N
    BY <1>1, <2>1
  <2>3. \A k \in 1 .. N - 1 : k \in 1 .. N /\ k # N
    BY <1>1
  <2> QED
    BY <2>1, <2>2, <2>3
<1> HIDE DEF s, N
<1>5. /\ g \in Seq(Entry) /\ Len(g) = N - 1 /\ DOMAIN g = 1 .. N - 1
      /\ \A k \in 1 .. N - 1 : g[k] = IF k = i THEN h[N] ELSE h[k]
  BY <1>1, <1>2, <1>4
<1> HIDE DEF g
<1>6. Apart(g)
  <2> DEFINE from(k) == IF k = i THEN N ELSE k
  <2>1. \A k \in 1 .. N - 1 : from(k) \in 1 .. N /\ g[k] = h[from(k)]
    BY <1>1, <1>2, <1>5
  <2>2. \A k, m \in 1 .. N - 1 : k # m => from(k) # from(m)
    BY <1>1
  <2> HIDE DEF from
  <2> QED
    BY <1>1, <1>5, <2>1, <2>2 DEF Apart
<1>7. \A x : Holds(g, x) <=> Holds(h, x) /\ x # h[i]
  <2>1. \A k \in 1 .. N : k # i => h[k] # h[i]
    BY <1>1, <1>2 DEF Apart
  <2>2. ASSUME NEW x, Holds(g, x) PROVE Holds(h, x) /\ x # h[i]
    <3>1. PICK k \in 1 .. N - 1 : g[k] = x
      BY <1>5, <2>2 DEF Holds
    <3>2. k \in 1 .. N /\ k # N
      BY <1>1
    <3>3. CASE k = i
      BY <1>1, <1>2, <1>5, <2>1, <3>1, <3>2, <3>3 DEF Holds
    <3>4. CASE k # i
      BY <1>1, <1>5, <2>1, <3>1, <3>2, <3>4 DEF Holds
    <3> QED
      BY <3>3, <3>4
  <2>3. ASSUME NEW x, Holds(h, x), x # h[i] PROVE Holds(g, x)
    <3>1. PICK k \in 1 .. N : h[k] = x /\ k # i
      BY <1>1, <2>3 DEF Holds
    <3>2. CASE k = N
      <4>1. i \in 1 .. N - 1 /\ g[i] = x
        BY <1>1, <1>2, <1>5, <3>1, <3>2
      <4> QED
        BY <1>5, <4>1 DEF Holds
    <3>3. CASE k # N
      <4>1. k \in 1 .. N - 1
        BY <1>1, <3>3
      <4> QED
        BY <1>5, <3>1, <4>1 DEF Holds
    <3> QED
      BY <3>2, <3>3
  <2> QED
    BY <2>2, <2>3
<1>8. \A k \in 1 .. N : k > 1 => Parent(k) \in 1 .. N /\ Parent(k) < k
  BY <1>1, ParentIs
<1>9. \A k \in 1 .. N : h[k] \in Entry
  BY <1>1
<1>10. ASSUME NEW k \in 1 .. N - 1, k > 1, k # i, Parent(k) # i
       PROVE  EntryLess(g[Parent(k)], g[k])
  <2>1. k \in 1 .. N /\ Parent(k) \in 1 .. N - 1
    BY <1>1, <1>8, <1>10
  <2>2. EntryLess(h[Parent(k)], h[k])
    BY <1>1, <1>10, <2>1 DEF Ordered
  <2> QED
    BY <1>5, <1>10, <2>1, <2>2
<1>11. ASSUME NEW k \in 1 .. N - 1, k > 1, Parent(k) = i, i > 1
       PROVE  EntryLess(g[Parent(i)], g[k])
  <2>1. k \in 1 .. N /\ k # i /\ i < k /\ Parent(i) \in 1 .. N - 1 /\ Parent(i) # i
    BY <1>1, <1>2, <1>8, <1>11
  <2>2. EntryLess(h[Parent(i)], h[i]) /\ EntryLess(h[i], h[k])
    BY <1>1, <1>2, <1>11, <2>1 DEF Ordered
  <2>3. Parent(i) \in 1 .. N
    BY <1>2, <1>8, <1>11
  <2>4. EntryLess(h[Parent(i)], h[k])
    BY <1>2, <1>9, <2>1, <2>2, <2>3, LessOrder
  <2> QED
    BY <1>5, <2>1, <2>4
<1>12. r \in Shuffles(g) /\ Ordered(r)
  <2>1. CASE i > Len(g)
    <3>1. r = g
      BY <1>3, <2>1
    <3>2. ASSUME NEW k \in 1 .. N - 1, k > 1 PROVE EntryLess(g[Parent(k)], g[k])
      <4>1. k # i /\ Parent(k) # i
        <5>1. k < i
          BY <1>1, <1>2, <1>5, <2>1
        <5>2. Parent(k) < k /\ Parent(k) \in 1 .. N
          BY <1>1, <1>8, <3>2
        <5> QED
          BY <1>2, <5>1, <5>2
      <4> QED
        BY <1>10, <3>2, <4>1
    <3>3. Ordered(g)
      BY <1>5, <3>2 DEF Ordered
    <3>4. g \in [DOMAIN g -> Entry]
      BY <1>5
    <3> QED
      BY <1>6, <3>1, <3>3, <3>4, ShuffleSelf
  <2>2. CASE ~(i > Len(g)) /\ i > 1 /\ EntryLess(g[i], g[Parent(i)])
    <3>1. r = SiftUp(g, i)
      BY <1>3, <2>2
    <3>2. i \in 1 .. N - 1 /\ i \in 1 .. Len(g)
      BY <1>1, <1>2, <1>5, <2>2
    <3>3. ASSUME NEW k \in 1 .. N - 1, k > 1, Parent(k) = i PROVE EntryLess(g[i], g[k])
      <4>1. k \in 1 .. N /\ Parent(i) \in 1 .. N - 1
        BY <1>1, <1>2, <1>8, <2>2, <3>2
      <4>2. g[i] \in Entry /\ g[k] \in Entry /\ g[Parent(i)] \in Entry
        BY <1>5, <3>2, <4>1
      <4>3. EntryLess(g[Parent(i)], g[k])
        BY <1>11, <2>2, <3>3
      <4> QED
        BY <2>2, <4>2, <4>3, LessOrder
    <3>4. UpOrdered(g, i)
      BY <1>5, <1>10, <1>11, <3>3 DEF UpOrdered
    <3> QED
      BY <1>5, <1>6, <3>1, <3>2, <3>4, SiftUpIs
  <2>3. CASE ~(i > Len(g)) /\ ~(i > 1 /\ EntryLess(g[i], g[Parent(i)]))
    <3>1. r = SiftDown(g, i)
      BY <1>3, <2>3
    <3>2. i \in 1 .. N - 1 /\ i \in 1 .. Len(g)
      BY <1>1, <1>2, <1>5, <2>3
    <3>3. i > 1 => EntryLess(g[Parent(i)], g[i])
      <4> SUFFICES ASSUME i > 1 PROVE EntryLess(g[Parent(i)], g[i])
        OBVIOUS
      <4>1. Parent(i) \in 1 .. N - 1 /\ Parent(i) # i
        BY <1>1, <1>2, <1>8, <3>2
      <4>2. g[i] \in Entry /\ g[Parent(i)] \in Entry /\ g[i].seq # g[Parent(i)].seq
        BY <1>5, <1>6, <3>2, <4>1 DEF Apart
      <4> QED
        BY <2>3, <4>2, LessOrder
    <3>4. DownOrdered(g, i)
      <4>1. ASSUME NEW k \in 1 .. N - 1, k > 1, Parent(k) # i
            PROVE  EntryLess(g[Parent(k)], g[k])
        BY <1>10, <3>3, <4>1
      <4> QED
        BY <1>5, <1>11, <4>1 DEF DownOrdered
    <3> QED
      BY <1>5, <1>6, <3>1, <3>2, <3>4, SiftDownIs
  <2> QED
    BY <2>1, <2>2, <2>3
<1> HIDE DEF r
<1>13. r \in Seq(Entry) /\ Len(r) = N - 1 /\ Apart(r) /\ \A x : Holds(r, x) <=> Holds(g, x)
  BY <1>5, <1>12, ShuffleIs
<1> QED
  BY <1>7, <1>12, <1>13 DEF r, N, Heap

(* The root sorts before every other entry.                                *)
LEMMA RootLeast ==
  ASSUME NEW h, Heap(h), NEW k \in 1 .. Len(h), k # 1
  PROVE  EntryLess(h[1], h[k])
<1> DEFINE N == Len(h)
           H == {n \in 0 .. N : \A m \in 1 .. n : m # 1 => EntryLess(h[1], h[m])}
<1>1. h \in Seq(Entry) /\ Ordered(h) /\ N \in Nat /\ DOMAIN h = 1 .. N
  BY DEF Heap
<1>2. 0 \in H
  BY <1>1
<1>3. ASSUME NEW n \in 1 .. N, n - 1 \in H PROVE n \in H
  <2>1. \A m \in 1 .. n - 1 : m # 1 => EntryLess(h[1], h[m])
    BY <1>3
  <2>2. n # 1 => EntryLess(h[1], h[n])
    <3> SUFFICES ASSUME n # 1 PROVE EntryLess(h[1], h[n])
      OBVIOUS
    <3>1. Parent(n) \in 1 .. n - 1 /\ n \in 1 .. N /\ n > 1 /\ Parent(n) \in 1 .. N /\ 1 \in 1 .. N
      BY <1>1, ParentIs
    <3>2. EntryLess(h[Parent(n)], h[n])
      BY <1>1, <3>1 DEF Ordered
    <3>3. h[1] \in Entry /\ h[n] \in Entry /\ h[Parent(n)] \in Entry
      BY <1>1, <3>1
    <3>4. CASE Parent(n) = 1
      BY <3>2, <3>4
    <3>5. CASE Parent(n) # 1
      <4>1. EntryLess(h[1], h[Parent(n)])
        BY <2>1, <3>1, <3>5
      <4> QED
        BY <3>2, <3>3, <4>1, LessOrder
    <3> QED
      BY <3>4, <3>5
  <2>3. \A m \in 1 .. n : m \in 1 .. n - 1 \/ m = n
    OBVIOUS
  <2> QED
    BY <1>1, <2>1, <2>2, <2>3
<1> HIDE DEF H
<1>4. N \in H
  BY <1>1, <1>2, <1>3, TurnsPass
<1> QED
  BY <1>4 DEF H

----------------------------------------------------------------------------
(* The inductive invariant: a slot is live exactly while an entry of the   *)
(* heap holds it, constructed and free exactly while the free list holds   *)
(* it, and a handle's generation is its slot's only while it is live.      *)

SlotRecord == [seq : Nat, gen : Nat, pos : Nat, live : BOOLEAN]

TypesOk ==
  /\ Heap(heap)
  /\ eventSlot \in [EventSlots -> SlotRecord]
  /\ free \in Seq(EventSlots)
  /\ highWater \in 0 .. EventCap
  /\ nextSeq \in Nat
  /\ issued \subseteq EventSlots \X Nat

(* Entry x of the heap is at home at position k.                           *)
Homed(x, k) ==
  /\ eventSlot[x.slot].live
  /\ eventSlot[x.slot].pos = k
  /\ eventSlot[x.slot].seq = x.seq
  /\ x.seq < nextSeq
  /\ x.ts \in EventTime

Held(i) == \E k \in DOMAIN heap : heap[k].slot = i

Listed(f, i) == \E k \in DOMAIN f : f[k] = i

SlotKept(i) ==
  /\ eventSlot[i].live => Held(i) /\ i < highWater
  /\ Listed(free, i) <=> i < highWater /\ ~eventSlot[i].live

HandleOld(h) ==
  /\ h[2] <= eventSlot[h[1]].gen
  /\ h[2] = eventSlot[h[1]].gen => eventSlot[h[1]].live

Repeatless(f) == \A k, m \in DOMAIN f : k # m => f[k] # f[m]

SchedInv ==
  /\ TypesOk
  /\ \A k \in DOMAIN heap : Homed(heap[k], k)
  /\ \A i \in EventSlots : SlotKept(i)
  /\ Repeatless(free)
  /\ Len(heap) + Len(free) = highWater
  /\ \A h \in issued : HandleOld(h)

LEMMA LinkedIs ==
  ASSUME NEW sl \in [EventSlots -> SlotRecord], NEW h, Heap(h)
  PROVE  /\ Linked(sl, h) \in [EventSlots -> SlotRecord]
         /\ \A k \in DOMAIN h : Linked(sl, h)[h[k].slot].pos = k
         /\ \A i \in EventSlots : /\ Linked(sl, h)[i].seq = sl[i].seq
                                  /\ Linked(sl, h)[i].gen = sl[i].gen
                                  /\ Linked(sl, h)[i].live = sl[i].live
<1> DEFINE PosOf(i) == CHOOSE k \in DOMAIN h : h[k].slot = i
           Has(i) == \E k \in DOMAIN h : h[k].slot = i
           t == Linked(sl, h)
<1>1. /\ DOMAIN t = EventSlots
      /\ \A i \in EventSlots : t[i] = IF Has(i) THEN [sl[i] EXCEPT !.pos = PosOf(i)] ELSE sl[i]
  BY DEF Linked
<1>2. h \in Seq(Entry) /\ Apart(h) /\ DOMAIN h \subseteq Nat
  BY DEF Heap
<1>3. \A i \in EventSlots : Has(i) => PosOf(i) \in DOMAIN h /\ h[PosOf(i)].slot = i
  OBVIOUS
<1>4. \A k \in DOMAIN h : h[k].slot \in EventSlots /\ Has(h[k].slot)
  <2>1. \A k \in DOMAIN h : h[k] \in Entry
    BY <1>2
  <2>2. \A k \in DOMAIN h : h[k].slot \in EventSlots
    BY <2>1 DEF Entry
  <2> QED
    BY <2>2
<1>5. \A k \in DOMAIN h : PosOf(h[k].slot) = k
  BY <1>2, <1>3, <1>4 DEF Apart
<1> HIDE DEF t, PosOf, Has
<1>6. t = [i \in EventSlots |-> t[i]]
  <2> HIDE DEF t
  <2> QED
    BY DEF Linked, t
<1>7. ASSUME NEW i \in EventSlots
      PROVE  t[i] \in SlotRecord /\ t[i].seq = sl[i].seq /\ t[i].gen = sl[i].gen /\ t[i].live = sl[i].live
  <2>1. sl[i] \in SlotRecord
    OBVIOUS
  <2>2. CASE Has(i)
    BY <1>1, <1>2, <1>3, <2>1, <2>2 DEF SlotRecord
  <2>3. CASE ~Has(i)
    BY <1>1, <2>1, <2>3
  <2> QED
    BY <2>2, <2>3
<1>8. ASSUME NEW k \in DOMAIN h PROVE t[h[k].slot].pos = k
  <2>1. t[h[k].slot] = [sl[h[k].slot] EXCEPT !.pos = k] /\ sl[h[k].slot] \in SlotRecord
    BY <1>1, <1>4, <1>5
  <2> QED
    BY <2>1 DEF SlotRecord
<1>9. t \in [EventSlots -> SlotRecord]
  BY <1>6, <1>7
<1> QED
  BY <1>7, <1>8, <1>9 DEF t

LEMMA InitHolds ==
  ASSUME SchedulerAssumption, SchedInit
  PROVE  SchedInv
<1>1. Heap(heap)
  BY DEF SchedInit, Heap, Apart, Ordered
<1>2. eventSlot \in [EventSlots -> SlotRecord]
  BY DEF SchedInit, NewSlot, SlotRecord
<1>3. TypesOk
  BY <1>1, <1>2 DEF TypesOk, SchedInit, SchedulerAssumption
<1>4. \A i \in EventSlots : SlotKept(i)
  <2> SUFFICES ASSUME NEW i \in EventSlots PROVE SlotKept(i)
    OBVIOUS
  <2>1. eventSlot[i] = NewSlot /\ i \in Nat /\ ~(i < highWater) /\ free = <<>>
    <3>1. i \in Nat /\ highWater = 0 /\ free = <<>>
      BY DEF SchedInit, EventSlots
    <3>2. eventSlot[i] = NewSlot
      BY DEF SchedInit
    <3> QED
      BY <3>1, <3>2
  <2>2. ~eventSlot[i].live /\ ~Listed(free, i)
    BY <2>1 DEF NewSlot, Listed
  <2> QED
    BY <2>1, <2>2 DEF SlotKept
<1>5. /\ \A k \in DOMAIN heap : Homed(heap[k], k)
      /\ Repeatless(free)
      /\ Len(heap) + Len(free) = highWater
      /\ \A h \in issued : HandleOld(h)
  BY DEF SchedInit, Repeatless
<1> QED
  BY <1>3, <1>4, <1>5 DEF SchedInv

----------------------------------------------------------------------------
(* A push takes a slot no entry holds.                                     *)

PushSlot == IF free # <<>> THEN Head(free) ELSE highWater

PushEntry(ts) == [ts |-> ts, seq |-> nextSeq, slot |-> PushSlot]

LEMMA PushIs ==
  ASSUME SchedulerAssumption, SchedInv, NEW ts \in EventTime, Push(ts)
  PROVE  /\ PushSlot \in EventSlots /\ ~eventSlot[PushSlot].live /\ ~Held(PushSlot)
         /\ Heap(heap') /\ Len(heap') = Len(heap) + 1
         /\ \A x : Holds(heap', x) <=> Holds(heap, x) \/ x = PushEntry(ts)
         /\ eventSlot' \in [EventSlots -> SlotRecord]
         /\ \A k \in DOMAIN heap' : eventSlot'[heap'[k].slot].pos = k
         /\ \A j \in EventSlots :
              /\ eventSlot'[j].gen = eventSlot[j].gen
              /\ eventSlot'[j].seq = (IF j = PushSlot THEN nextSeq ELSE eventSlot[j].seq)
              /\ eventSlot'[j].live = (IF j = PushSlot THEN TRUE ELSE eventSlot[j].live)
<1> DEFINE i == PushSlot
           e == PushEntry(ts)
           s == [eventSlot EXCEPT ![i].seq = nextSeq, ![i].live = TRUE]
<1>1. /\ Heap(heap) /\ eventSlot \in [EventSlots -> SlotRecord]
      /\ free \in Seq(EventSlots) /\ highWater \in 0 .. EventCap /\ nextSeq \in Nat
      /\ heap \in Seq(Entry) /\ Len(heap) \in Nat /\ DOMAIN heap = 1 .. Len(heap)
  BY DEF SchedInv, TypesOk, Heap
<1>2. /\ heap' = SiftUp(Append(heap, e), Len(heap) + 1)
      /\ eventSlot' = Linked(s, heap')
      /\ Len(heap) < EventCap
  BY DEF Push, PushSlot, PushEntry
<1>3. i \in EventSlots /\ ~eventSlot[i].live
  <2>1. CASE free # <<>>
    <3>1. i = free[1] /\ 1 \in DOMAIN free
      BY <1>1, <2>1 DEF PushSlot
    <3>2. i \in EventSlots /\ Listed(free, i)
      BY <1>1, <3>1 DEF Listed
    <3> HIDE DEF i
    <3> QED
      BY <3>2 DEF SchedInv, SlotKept
  <2>2. CASE free = <<>>
    <3>1. i = highWater /\ Len(heap) + Len(free) = highWater /\ Len(free) = 0
      BY <2>2 DEF PushSlot, SchedInv
    <3>2. i \in EventSlots /\ ~(i < highWater)
      BY <1>1, <1>2, <3>1 DEF EventSlots, SchedulerAssumption
    <3> HIDE DEF i
    <3> QED
      BY <3>2 DEF SchedInv, SlotKept
  <2> QED
    BY <2>1, <2>2
<1>4. \A k \in DOMAIN heap : heap[k].slot # i /\ heap[k].seq # nextSeq
  <2> SUFFICES ASSUME NEW k \in DOMAIN heap
               PROVE  heap[k].slot # i /\ heap[k].seq # nextSeq
    OBVIOUS
  <2>1. heap[k] \in Entry /\ heap[k].seq \in Nat
    BY <1>1, EntryIs
  <2>2. eventSlot[heap[k].slot].live /\ heap[k].seq < nextSeq
    BY DEF SchedInv, Homed
  <2> QED
    BY <1>1, <1>3, <2>1, <2>2
<1>5. e \in Entry /\ e.slot = i /\ e.seq = nextSeq
  BY <1>1, <1>3 DEF PushEntry, Entry, SchedulerAssumption
<1> HIDE DEF i, e
<1>6. Heap(heap') /\ Len(heap') = Len(heap) + 1 /\ \A x : Holds(heap', x) <=> Holds(heap, x) \/ x = e
  BY <1>1, <1>2, <1>4, <1>5, PushedIs
<1>7. /\ s \in [EventSlots -> SlotRecord]
      /\ \A j \in EventSlots :
           /\ s[j].gen = eventSlot[j].gen
           /\ s[j].seq = (IF j = i THEN nextSeq ELSE eventSlot[j].seq)
           /\ s[j].live = (IF j = i THEN TRUE ELSE eventSlot[j].live)
  BY <1>1, <1>3 DEF SlotRecord
<1> HIDE DEF s
<1>8. /\ eventSlot' \in [EventSlots -> SlotRecord]
      /\ \A k \in DOMAIN heap' : eventSlot'[heap'[k].slot].pos = k
      /\ \A j \in EventSlots : /\ eventSlot'[j].seq = s[j].seq
                               /\ eventSlot'[j].gen = s[j].gen
                               /\ eventSlot'[j].live = s[j].live
  BY <1>2, <1>6, <1>7, LinkedIs
<1>9. ~Held(i)
  BY <1>4 DEF Held
<1>10. \A j \in EventSlots :
              /\ eventSlot'[j].gen = eventSlot[j].gen
              /\ eventSlot'[j].seq = (IF j = i THEN nextSeq ELSE eventSlot[j].seq)
              /\ eventSlot'[j].live = (IF j = i THEN TRUE ELSE eventSlot[j].live)
  BY <1>7, <1>8
<1> QED
  BY <1>3, <1>6, <1>8, <1>9, <1>10 DEF i, e

LEMMA PushKeeps ==
  ASSUME SchedulerAssumption, SchedInv, NEW ts \in EventTime, Push(ts)
  PROVE  SchedInv'
<1> DEFINE i == PushSlot
           e == PushEntry(ts)
<1>1. /\ i \in EventSlots /\ ~eventSlot[i].live /\ ~Held(i)
      /\ Heap(heap') /\ Len(heap') = Len(heap) + 1
      /\ \A x : Holds(heap', x) <=> Holds(heap, x) \/ x = e
      /\ eventSlot' \in [EventSlots -> SlotRecord]
      /\ \A k \in DOMAIN heap' : eventSlot'[heap'[k].slot].pos = k
      /\ \A j \in EventSlots :
           /\ eventSlot'[j].gen = eventSlot[j].gen
           /\ eventSlot'[j].seq = (IF j = i THEN nextSeq ELSE eventSlot[j].seq)
           /\ eventSlot'[j].live = (IF j = i THEN TRUE ELSE eventSlot[j].live)
  BY PushIs
<1>2. /\ Heap(heap) /\ eventSlot \in [EventSlots -> SlotRecord]
      /\ free \in Seq(EventSlots) /\ highWater \in 0 .. EventCap /\ nextSeq \in Nat
      /\ heap \in Seq(Entry) /\ Len(heap) \in Nat /\ issued \subseteq EventSlots \X Nat
      /\ Repeatless(free) /\ Len(heap) + Len(free) = highWater
  BY DEF SchedInv, TypesOk, Heap
<1>3. /\ free' = (IF free # <<>> THEN Tail(free) ELSE free)
      /\ highWater' = (IF free # <<>> THEN highWater ELSE highWater + 1)
      /\ nextSeq' = nextSeq + 1
      /\ issued' = issued \union {<<i, eventSlot[i].gen>>}
      /\ Len(heap) < EventCap
  BY DEF Push, PushSlot
<1>4. e.slot = i /\ e.seq = nextSeq /\ e.ts = ts
  BY DEF PushEntry
<1>5. i = IF free # <<>> THEN Head(free) ELSE highWater
  BY DEF PushSlot
<1> HIDE DEF i, e
(* The free list loses its head, or was empty.                             *)
<1>6. /\ free' \in Seq(EventSlots) /\ Repeatless(free')
      /\ \A j \in EventSlots : Listed(free', j) <=> Listed(free, j) /\ j # i
      /\ Len(free') = IF free # <<>> THEN Len(free) - 1 ELSE 0
  <2>1. CASE free # <<>>
    <3> DEFINE t == Tail(free)
    <3>1. /\ t \in Seq(EventSlots) /\ Len(t) = Len(free) - 1 /\ Len(free) \in Nat
          /\ DOMAIN t = 1 .. Len(free) - 1 /\ DOMAIN free = 1 .. Len(free)
          /\ \A k \in 1 .. Len(free) - 1 : t[k] = free[k + 1]
          /\ i = free[1] /\ free' = t /\ 1 \in DOMAIN free
      BY <1>2, <1>3, <1>5, <2>1
    <3> HIDE DEF t
    <3>2. Repeatless(t)
      <4>1. \A k \in DOMAIN t : k + 1 \in DOMAIN free /\ t[k] = free[k + 1]
        BY <3>1
      <4>2. \A k, m \in DOMAIN t : k # m => k + 1 # m + 1
        BY <3>1
      <4> QED
        BY <1>2, <4>1, <4>2 DEF Repeatless
    <3>3. ASSUME NEW j \in EventSlots, Listed(t, j) PROVE Listed(free, j) /\ j # i
      <4>1. PICK k \in 1 .. Len(free) - 1 : t[k] = j
        BY <3>1, <3>3 DEF Listed
      <4>2. k + 1 \in DOMAIN free /\ k + 1 # 1 /\ free[k + 1] = j
        BY <3>1, <4>1
      <4> QED
        BY <1>2, <3>1, <4>2 DEF Listed, Repeatless
    <3>4. ASSUME NEW j \in EventSlots, Listed(free, j), j # i PROVE Listed(t, j)
      <4>1. PICK k \in 1 .. Len(free) : free[k] = j
        BY <3>1, <3>4 DEF Listed
      <4>2. k # 1
        BY <3>1, <3>4, <4>1
      <4>3. k - 1 \in DOMAIN t /\ t[k - 1] = free[(k - 1) + 1] /\ (k - 1) + 1 = k
        BY <3>1, <4>1, <4>2
      <4> QED
        BY <4>1, <4>3 DEF Listed
    <3> QED
      BY <2>1, <3>1, <3>2, <3>3, <3>4
  <2>2. CASE free = <<>>
    <3>1. free' = <<>> /\ Len(free') = 0 /\ DOMAIN free' = {} /\ free' = free
      BY <1>3, <2>2
    <3>2. \A j \in EventSlots : ~Listed(free', j)
      BY <3>1 DEF Listed
    <3> QED
      BY <1>2, <2>2, <3>1, <3>2
  <2> QED
    BY <2>1, <2>2
<1>7. /\ highWater' \in 0 .. EventCap /\ Len(heap') + Len(free') = highWater'
      /\ \A j \in EventSlots : j < highWater' <=> j < highWater \/ j = i
  <2>1. CASE free # <<>>
    <3>1. i < highWater
      <4>1. i = free[1] /\ 1 \in DOMAIN free
        BY <1>2, <1>5, <2>1
      <4>2. Listed(free, i)
        BY <4>1 DEF Listed
      <4> QED
        BY <1>1, <4>2 DEF SchedInv, SlotKept
    <3>2. highWater' = highWater /\ Len(free') = Len(free) - 1 /\ Len(free) \in Nat
      BY <1>2, <1>3, <1>6, <2>1
    <3>3. \A j \in EventSlots : j < highWater' <=> j < highWater \/ j = i
      BY <3>1, <3>2
    <3>4. Len(heap') = Len(heap) + 1 /\ Len(heap) \in Nat /\ Len(heap) + Len(free) = highWater
      BY <1>1, <1>2
    <3>5. Len(heap') + Len(free') = highWater'
      BY <3>2, <3>4
    <3>6. highWater' \in 0 .. EventCap
      BY <1>2, <3>2
    <3> QED
      BY <3>3, <3>5, <3>6
  <2>2. CASE free = <<>>
    <3>1. i = highWater /\ highWater' = highWater + 1 /\ Len(free) = 0 /\ Len(free') = 0
      BY <1>3, <1>5, <1>6, <2>2
    <3> QED
      <4>1. \A j \in EventSlots : j \in Nat
        BY DEF EventSlots
      <4> QED
        BY <1>1, <1>2, <1>3, <3>1, <4>1 DEF SchedulerAssumption
  <2> QED
    BY <2>1, <2>2
<1>8. TypesOk'
  <2>1. issued' \subseteq EventSlots \X Nat
    BY <1>1, <1>2, <1>3 DEF SlotRecord
  <2> QED
    BY <1>1, <1>2, <1>3, <1>6, <1>7, <2>1 DEF TypesOk
<1>9. ASSUME NEW k \in DOMAIN heap' PROVE Homed(heap[k], k)'
  <2> DEFINE x == heap'[k]
  <2>1. x \in Entry
    BY <1>1 DEF Heap
  <2>6. x.slot \in EventSlots /\ x.seq \in Nat
    BY <2>1, EntryIs
  <2>2. Holds(heap', x)
    BY DEF Holds
  <2>3. eventSlot'[x.slot].pos = k
    BY <1>1
  <2>4. CASE x = e
    <3>1. x.slot = i /\ x.seq = nextSeq /\ x.ts = ts
      BY <1>4, <2>4
    <3> HIDE DEF x
    <3>2. /\ eventSlot'[x.slot].live
          /\ eventSlot'[x.slot].seq = nextSeq /\ nextSeq < nextSeq'
      <4>1. eventSlot'[i].live /\ eventSlot'[i].seq = nextSeq
        BY <1>1
      <4>2. nextSeq < nextSeq'
        BY <1>2, <1>3
      <4> QED
        BY <3>1, <4>1, <4>2
    <3>3. eventSlot'[x.slot].live /\ eventSlot'[x.slot].pos = k
          /\ eventSlot'[x.slot].seq = x.seq /\ x.seq < nextSeq' /\ x.ts \in EventTime
      BY <2>3, <3>1, <3>2
    <3> QED
      BY <3>3, Zenon DEF Homed, x
  <2>5. CASE x # e
    <3>1. Holds(heap, x)
      BY <1>1, <2>2, <2>5
    <3> HIDE DEF x
    <3>2. PICK m \in DOMAIN heap : heap[m] = x
      BY <3>1 DEF Holds
    <3>3. Homed(x, m) /\ x.slot # i
      BY <1>1, <3>2 DEF SchedInv, Held
    <3>4. /\ eventSlot'[x.slot].live
          /\ eventSlot'[x.slot].seq = x.seq /\ x.ts \in EventTime /\ x.seq < nextSeq
      BY <1>1, <2>6, <3>3 DEF Homed
    <3>5. x.seq < nextSeq'
      BY <1>2, <1>3, <2>6, <3>4
    <3> QED
      BY <2>3, <3>4, <3>5, Zenon DEF Homed, x
  <2> QED
    BY <2>4, <2>5
<1>10. ASSUME NEW j \in EventSlots PROVE SlotKept(j)'
  <2>1. SlotKept(j) /\ eventSlot'[j].live = (IF j = i THEN TRUE ELSE eventSlot[j].live)
    BY <1>1 DEF SchedInv
  <2>2. (Held(j))' <=> Held(j) \/ j = i
    <3>1. ASSUME NEW m \in DOMAIN heap PROVE \E k \in DOMAIN heap' : heap'[k] = heap[m]
      BY <1>1 DEF Holds
    <3>2. \E k \in DOMAIN heap' : heap'[k] = e
      BY <1>1 DEF Holds
    <3>3. ASSUME NEW k \in DOMAIN heap'
          PROVE  heap'[k] = e \/ \E m \in DOMAIN heap : heap[m] = heap'[k]
      BY <1>1 DEF Holds
    <3> QED
      BY <1>4, <3>1, <3>2, <3>3 DEF Held
  <2> QED
    BY <1>6, <1>7, <2>1, <2>2 DEF SlotKept
<1>11. ASSUME NEW h \in issued' PROVE HandleOld(h)'
  <2>1. CASE h = <<i, eventSlot[i].gen>>
    <3>1. h[1] = i /\ h[2] = eventSlot[i].gen /\ eventSlot[i].gen \in Nat
      BY <1>1, <1>2, <2>1 DEF SlotRecord
    <3>2. eventSlot'[i].gen = eventSlot[i].gen /\ eventSlot'[i].live
      BY <1>1
    <3>3. eventSlot'[h[1]].live /\ h[2] <= eventSlot'[h[1]].gen
      BY <3>1, <3>2
    <3> QED
      BY <3>3 DEF HandleOld
  <2>2. CASE h \in issued
    <3>1. HandleOld(h) /\ h[1] \in EventSlots
      BY <1>2, <2>2 DEF SchedInv
    <3> QED
      BY <1>1, <3>1 DEF HandleOld
  <2> QED
    BY <1>3, <2>1, <2>2
<1> QED
  BY <1>6, <1>7, <1>8, <1>9, <1>10, <1>11 DEF SchedInv

----------------------------------------------------------------------------
(* A cancellation or a pop takes out the entry at a position and gives its *)
(* slot back.                                                              *)

Drop(k) ==
  /\ heap' = RemovedAt(heap, k)
  /\ eventSlot' = Released(Linked(eventSlot, heap'), heap[k].slot)
  /\ free' = <<heap[k].slot>> \o free
  /\ UNCHANGED <<highWater, nextSeq, issued>>

LEMMA DropIs ==
  ASSUME SchedInv, NEW k \in DOMAIN heap, Drop(k)
  PROVE  /\ heap[k].slot \in EventSlots /\ eventSlot[heap[k].slot].live
         /\ Heap(heap') /\ Len(heap') = Len(heap) - 1
         /\ \A x : Holds(heap', x) <=> Holds(heap, x) /\ x # heap[k]
         /\ eventSlot' \in [EventSlots -> SlotRecord]
         /\ \A m \in DOMAIN heap' : eventSlot'[heap'[m].slot].pos = m
         /\ \A j \in EventSlots :
              /\ eventSlot'[j].seq = eventSlot[j].seq
              /\ eventSlot'[j].gen = (IF j = heap[k].slot THEN eventSlot[heap[k].slot].gen + 1
                                    ELSE eventSlot[j].gen)
              /\ eventSlot'[j].live = (IF j = heap[k].slot THEN FALSE ELSE eventSlot[j].live)
<1>10. PICK i : i = heap[k].slot
  OBVIOUS
<1> DEFINE s == Linked(eventSlot, heap')
<1>1. /\ Heap(heap) /\ eventSlot \in [EventSlots -> SlotRecord]
      /\ heap \in Seq(Entry) /\ Apart(heap) /\ Len(heap) \in Nat /\ DOMAIN heap = 1 .. Len(heap)
  BY DEF SchedInv, TypesOk, Heap
<1>2. heap[k] \in Entry
  BY <1>1
<1>3. i \in EventSlots /\ eventSlot[i].live
  BY <1>2, <1>10, EntryIs DEF SchedInv, Homed
<1>4. heap' = RemovedAt(heap, k) /\ eventSlot' = Released(s, i)
  BY <1>10 DEF Drop
<1>5. /\ Heap(heap') /\ Len(heap') = Len(heap) - 1
      /\ \A x : Holds(heap', x) <=> Holds(heap, x) /\ x # heap[k]
  BY <1>1, <1>4, RemovedIs
<1>6. /\ s \in [EventSlots -> SlotRecord]
      /\ \A m \in DOMAIN heap' : s[heap'[m].slot].pos = m
      /\ \A j \in EventSlots : /\ s[j].seq = eventSlot[j].seq
                               /\ s[j].gen = eventSlot[j].gen
                               /\ s[j].live = eventSlot[j].live
  BY <1>1, <1>5, LinkedIs
<1> HIDE DEF s
<1>7. /\ eventSlot' \in [EventSlots -> SlotRecord]
      /\ \A j \in EventSlots :
           /\ eventSlot'[j].pos = s[j].pos
           /\ eventSlot'[j].seq = s[j].seq
           /\ eventSlot'[j].gen = (IF j = i THEN s[i].gen + 1 ELSE s[j].gen)
           /\ eventSlot'[j].live = (IF j = i THEN FALSE ELSE s[j].live)
  BY <1>3, <1>4, <1>6 DEF Released, SlotRecord
<1>8. \A m \in DOMAIN heap' : eventSlot'[heap'[m].slot].pos = m
  <2>1. \A m \in DOMAIN heap' : heap'[m] \in Entry
    BY <1>5 DEF Heap
  <2> QED
    BY <1>6, <1>7, <2>1, EntryIs
<1>9. \A j \in EventSlots :
        /\ eventSlot'[j].seq = eventSlot[j].seq
        /\ eventSlot'[j].gen = (IF j = i THEN eventSlot[i].gen + 1 ELSE eventSlot[j].gen)
        /\ eventSlot'[j].live = (IF j = i THEN FALSE ELSE eventSlot[j].live)
  <2>1. ASSUME NEW j \in EventSlots
        PROVE  /\ eventSlot'[j].seq = eventSlot[j].seq
               /\ eventSlot'[j].gen = (IF j = i THEN eventSlot[i].gen + 1 ELSE eventSlot[j].gen)
    BY <1>3, <1>6, <1>7
  <2>2. ASSUME NEW j \in EventSlots
        PROVE  eventSlot'[j].live = (IF j = i THEN FALSE ELSE eventSlot[j].live)
    <3>1. s[j].live = eventSlot[j].live
      BY <1>6
    <3>2. eventSlot'[j].live = (IF j = i THEN FALSE ELSE s[j].live)
      BY <1>7
    <3> QED
      BY <3>1, <3>2
  <2> QED
    BY <2>1, <2>2
<1> QED
  BY <1>3, <1>5, <1>7, <1>8, <1>9, <1>10

LEMMA DropKeeps ==
  ASSUME SchedulerAssumption, SchedInv, NEW k \in DOMAIN heap, Drop(k)
  PROVE  SchedInv'
<1> DEFINE i == heap[k].slot
           f == <<i>> \o free
<1>1. /\ i \in EventSlots /\ eventSlot[i].live
      /\ Heap(heap') /\ Len(heap') = Len(heap) - 1
      /\ \A x : Holds(heap', x) <=> Holds(heap, x) /\ x # heap[k]
      /\ eventSlot' \in [EventSlots -> SlotRecord]
      /\ \A m \in DOMAIN heap' : eventSlot'[heap'[m].slot].pos = m
      /\ \A j \in EventSlots :
           /\ eventSlot'[j].seq = eventSlot[j].seq
           /\ eventSlot'[j].gen = (IF j = i THEN eventSlot[i].gen + 1 ELSE eventSlot[j].gen)
           /\ eventSlot'[j].live = (IF j = i THEN FALSE ELSE eventSlot[j].live)
  BY DropIs
<1>2. /\ Heap(heap) /\ eventSlot \in [EventSlots -> SlotRecord]
      /\ free \in Seq(EventSlots) /\ highWater \in 0 .. EventCap /\ nextSeq \in Nat
      /\ heap \in Seq(Entry) /\ Len(heap) \in Nat /\ issued \subseteq EventSlots \X Nat
      /\ Repeatless(free) /\ Len(heap) + Len(free) = highWater /\ Apart(heap)
  BY DEF SchedInv, TypesOk, Heap
<1>3. free' = f /\ highWater' = highWater /\ nextSeq' = nextSeq /\ issued' = issued
  BY DEF Drop
<1>4. ~Listed(free, i) /\ i < highWater
  BY <1>1 DEF SchedInv, SlotKept
<1>5. \A m \in DOMAIN heap : m # k => heap[m].slot # i
  BY <1>2 DEF Apart
<1> HIDE DEF i
<1>6. /\ f \in Seq(EventSlots) /\ Len(f) = Len(free) + 1 /\ Repeatless(f)
      /\ \A j \in EventSlots : Listed(f, j) <=> Listed(free, j) \/ j = i
  <2>1. /\ f \in Seq(EventSlots) /\ Len(f) = Len(free) + 1 /\ Len(free) \in Nat
        /\ DOMAIN f = 1 .. (Len(free) + 1) /\ DOMAIN free = 1 .. Len(free)
        /\ f[1] = i /\ \A m \in 1 .. Len(free) : f[m + 1] = free[m]
    BY <1>1, <1>2
  <2>2. \A m \in DOMAIN f : m = 1 \/ (m - 1 \in DOMAIN free /\ f[m] = free[m - 1])
    <3> SUFFICES ASSUME NEW m \in DOMAIN f, m # 1
                 PROVE  m - 1 \in DOMAIN free /\ f[m] = free[m - 1]
      OBVIOUS
    <3>1. m - 1 \in 1 .. Len(free) /\ (m - 1) + 1 = m
      BY <2>1
    <3>2. f[(m - 1) + 1] = free[m - 1]
      BY <2>1, <3>1
    <3> QED
      BY <2>1, <3>1, <3>2
  <2> HIDE DEF f
  <2>3. Repeatless(f)
    <3> SUFFICES ASSUME NEW m \in DOMAIN f, NEW n \in DOMAIN f, m # n PROVE f[m] # f[n]
      BY DEF Repeatless
    <3>1. CASE m = 1
      BY <1>4, <2>1, <2>2, <3>1 DEF Listed
    <3>2. CASE n = 1
      BY <1>4, <2>1, <2>2, <3>2 DEF Listed
    <3>3. CASE m # 1 /\ n # 1
      <4>1. m - 1 # n - 1
        BY <2>1
      <4> QED
        BY <1>2, <2>2, <3>3, <4>1 DEF Repeatless
    <3> QED
      BY <3>1, <3>2, <3>3
  <2>4. ASSUME NEW j \in EventSlots, Listed(f, j) PROVE Listed(free, j) \/ j = i
    BY <2>1, <2>2, <2>4 DEF Listed
  <2>5. ASSUME NEW j \in EventSlots, Listed(free, j) PROVE Listed(f, j)
    <3>1. PICK m \in 1 .. Len(free) : free[m] = j
      BY <2>1, <2>5 DEF Listed
    <3>2. m + 1 \in DOMAIN f /\ f[m + 1] = j
      BY <2>1, <3>1
    <3> QED
      BY <3>2 DEF Listed
  <2>6. Listed(f, i)
    <3>1. 1 \in DOMAIN f
      BY <2>1
    <3> QED
      BY <2>1, <3>1 DEF Listed
  <2> QED
    BY <2>1, <2>3, <2>4, <2>5, <2>6
<1> HIDE DEF f
<1>7. TypesOk'
  BY <1>1, <1>2, <1>3, <1>6 DEF TypesOk
<1>8. ASSUME NEW n \in DOMAIN heap' PROVE Homed(heap[n], n)'
  <2> DEFINE x == heap'[n]
  <2>1. x \in Entry
    BY <1>1 DEF Heap
  <2>2. x.slot \in EventSlots
    BY <2>1, EntryIs
  <2>3. Holds(heap', x)
    BY DEF Holds
  <2>4. eventSlot'[x.slot].pos = n
    BY <1>1
  <2>5. Holds(heap, x) /\ x # heap[k]
    BY <1>1, <2>3
  <2> HIDE DEF x
  <2>6. PICK m \in DOMAIN heap : heap[m] = x
    BY <2>5 DEF Holds
  <2>7. Homed(x, m) /\ x.slot # i
    BY <1>5, <2>5, <2>6 DEF SchedInv
  <2>8. /\ eventSlot'[x.slot].live = eventSlot[x.slot].live
        /\ eventSlot'[x.slot].seq = eventSlot[x.slot].seq
    BY <1>1, <2>2, <2>7
  <2>9. /\ eventSlot'[x.slot].live
        /\ eventSlot'[x.slot].seq = x.seq
        /\ x.seq < nextSeq' /\ x.ts \in EventTime
    BY <1>3, <2>7, <2>8 DEF Homed
  <2> QED
    BY <2>4, <2>9, Zenon DEF Homed, x
<1>9. ASSUME NEW j \in EventSlots PROVE SlotKept(j)'
  <2>1. SlotKept(j) /\ eventSlot'[j].live = (IF j = i THEN FALSE ELSE eventSlot[j].live)
    BY <1>1 DEF SchedInv
  <2>2. Held(j) /\ j # i => (Held(j))'
    <3> SUFFICES ASSUME Held(j), j # i PROVE \E n \in DOMAIN heap' : heap'[n].slot = j
      BY DEF Held
    <3>1. PICK m \in DOMAIN heap : heap[m].slot = j
      BY DEF Held
    <3>2. heap[m] # heap[k]
      BY <3>1 DEF i
    <3>3. Holds(heap', heap[m])
      BY <1>1, <3>2 DEF Holds
    <3> QED
      BY <3>1, <3>3 DEF Holds
  <2> QED
    BY <1>3, <1>4, <1>6, <2>1, <2>2 DEF SlotKept
<1>10. ASSUME NEW h \in issued' PROVE HandleOld(h)'
  <2>1. HandleOld(h) /\ h[1] \in EventSlots /\ h[2] \in Nat
    BY <1>2, <1>3 DEF SchedInv
  <2>2. eventSlot[h[1]].gen \in Nat
    BY <1>2, <2>1 DEF SlotRecord
  <2>3. CASE h[1] = i
    <3>1. eventSlot'[h[1]].gen = eventSlot[h[1]].gen + 1
      BY <1>1, <2>1, <2>3
    <3>2. h[2] <= eventSlot'[h[1]].gen /\ h[2] # eventSlot'[h[1]].gen
      BY <2>1, <2>2, <3>1 DEF HandleOld
    <3> QED
      BY <3>2 DEF HandleOld
  <2>4. CASE h[1] # i
    <3>1. /\ eventSlot'[h[1]].gen = eventSlot[h[1]].gen
          /\ eventSlot'[h[1]].live = eventSlot[h[1]].live
      BY <1>1, <2>1, <2>4
    <3> QED
      BY <2>1, <3>1 DEF HandleOld
  <2> QED
    BY <2>3, <2>4
<1>11. Repeatless(free') /\ Len(heap') + Len(free') = highWater'
  <2>1. Len(free) \in Nat
    BY <1>2
  <2>3. /\ Len(heap') = Len(heap) - 1 /\ Len(f) = Len(free) + 1
        /\ Len(heap) + Len(free) = highWater /\ Len(heap) \in Nat
    BY <1>1, <1>2, <1>6
  <2>2. Len(heap') + Len(f) = highWater
    BY <2>1, <2>3
  <2> QED
    BY <1>3, <1>6, <2>2
<1> QED
  BY <1>7, <1>8, <1>9, <1>10, <1>11 DEF SchedInv

LEMMA CancelKeeps ==
  ASSUME SchedulerAssumption, SchedInv, NEW h \in issued, Cancel(h)
  PROVE  \/ UNCHANGED schedVars
         \/ \E k \in DOMAIN heap : Drop(k) /\ popped' = popped
<1> DEFINE i == h[1]
           k == eventSlot[i].pos
<1>1. CASE ~(i \in EventSlots /\ eventSlot[i].live /\ eventSlot[i].gen = h[2])
  BY <1>1 DEF Cancel
<1>2. CASE i \in EventSlots /\ eventSlot[i].live /\ eventSlot[i].gen = h[2]
  <2>1. PICK m \in DOMAIN heap : heap[m].slot = i
    BY <1>2 DEF SchedInv, SlotKept, Held
  <2>2. m = k
    BY <2>1 DEF SchedInv, Homed
  <2>3. /\ heap' = RemovedAt(heap, k)
        /\ eventSlot' = Released(Linked(eventSlot, heap'), i)
        /\ free' = <<i>> \o free
        /\ UNCHANGED <<highWater, nextSeq, issued, popped>>
    BY <1>2 DEF Cancel
  <2> HIDE DEF k, i
  <2>4. Drop(m) /\ popped' = popped
    BY <2>1, <2>2, <2>3 DEF Drop
  <2> QED
    BY <2>4
<1> QED
  BY <1>1, <1>2

LEMMA PopDrops ==
  ASSUME SchedInv, PopMin
  PROVE  1 \in DOMAIN heap /\ Drop(1) /\ popped' = <<heap[1].ts, heap[1].seq>>
<1>1. heap \in Seq(Entry) /\ heap # <<>>
  BY DEF SchedInv, TypesOk, Heap, PopMin
<1>2. 1 \in DOMAIN heap
  BY <1>1
<1> QED
  BY <1>2 DEF PopMin, Drop

LEMMA ClearKeeps ==
  ASSUME SchedulerAssumption, SchedInv, Clear
  PROVE  SchedInv'
<1>1. /\ eventSlot \in [EventSlots -> SlotRecord]
      /\ issued \subseteq EventSlots \X Nat /\ EventCap \in Nat
  BY DEF SchedInv, TypesOk, SchedulerAssumption
<1>2. /\ heap' = <<>> /\ free' = [n \in 1 .. EventCap |-> n - 1]
      /\ highWater' = EventCap /\ nextSeq' = 0 /\ issued' = issued
      /\ eventSlot' = [i \in EventSlots |->
                        IF eventSlot[i].live THEN Released(eventSlot, i)[i] ELSE eventSlot[i]]
  BY DEF Clear
<1>3. ASSUME NEW i \in EventSlots
      PROVE  /\ eventSlot'[i] \in SlotRecord /\ ~eventSlot'[i].live
             /\ eventSlot'[i].gen = IF eventSlot[i].live THEN eventSlot[i].gen + 1 ELSE eventSlot[i].gen
  <2>1. eventSlot[i] \in SlotRecord
    BY <1>1
  <2>2. CASE eventSlot[i].live
    <3>1. PICK q : q = Released(eventSlot, i)
      OBVIOUS
    <3>2. /\ q \in [EventSlots -> SlotRecord]
          /\ q[i].gen = eventSlot[i].gen + 1 /\ q[i].live = FALSE
      BY <1>1, <3>1 DEF Released, SlotRecord
    <3>3. eventSlot'[i] = q[i]
      BY <1>2, <2>2, <3>1
    <3> QED
      BY <2>2, <3>2, <3>3
  <2>3. CASE ~eventSlot[i].live
    <3>1. eventSlot'[i] = eventSlot[i]
      BY <1>2, <2>3
    <3> QED
      BY <2>1, <2>3, <3>1
  <2> QED
    BY <2>2, <2>3
<1>4. free' \in Seq(EventSlots) /\ Len(free') = EventCap /\ DOMAIN free' = 1 .. EventCap
  BY <1>1, <1>2 DEF EventSlots
<1>5. eventSlot' \in [EventSlots -> SlotRecord]
  <2>1. eventSlot' = [i \in EventSlots |-> eventSlot'[i]]
    BY <1>2
  <2> QED
    BY <1>3, <2>1
<1>6. Heap(heap')
  BY <1>2 DEF Heap, Apart, Ordered
<1>7. TypesOk'
  BY <1>1, <1>2, <1>4, <1>5, <1>6 DEF TypesOk
<1>8. ASSUME NEW i \in EventSlots PROVE SlotKept(i)'
  <2>1. i \in Nat /\ i < EventCap
    BY <1>1 DEF EventSlots
  <2>2. i + 1 \in 1 .. EventCap /\ free'[i + 1] = i
    BY <1>1, <1>2, <2>1
  <2>3. Listed(free', i)
    BY <1>4, <2>2 DEF Listed
  <2> QED
    BY <1>2, <1>3, <2>1, <2>3 DEF SlotKept
<1>9. Repeatless(free')
  BY <1>1, <1>2 DEF Repeatless
<1>10. ASSUME NEW h \in issued' PROVE HandleOld(h)'
  <2>1. HandleOld(h) /\ h[1] \in EventSlots /\ h[2] \in Nat
    BY <1>1, <1>2, <1>10 DEF SchedInv
  <2>2. eventSlot[h[1]].gen \in Nat
    BY <1>1, <2>1 DEF SlotRecord
  <2>3. CASE eventSlot[h[1]].live
    <3>1. eventSlot'[h[1]].gen = eventSlot[h[1]].gen + 1
      BY <1>3, <2>1, <2>3
    <3>2. h[2] <= eventSlot'[h[1]].gen /\ h[2] # eventSlot'[h[1]].gen
      BY <2>1, <2>2, <3>1 DEF HandleOld
    <3> QED
      BY <3>2 DEF HandleOld
  <2>4. CASE ~eventSlot[h[1]].live
    <3>1. eventSlot'[h[1]].gen = eventSlot[h[1]].gen
      BY <1>3, <2>1, <2>4
    <3>2. h[2] <= eventSlot'[h[1]].gen /\ h[2] # eventSlot'[h[1]].gen
      BY <2>1, <2>4, <3>1 DEF HandleOld
    <3> QED
      BY <3>2 DEF HandleOld
  <2> QED
    BY <2>3, <2>4
<1>11. /\ \A k \in DOMAIN heap' : Homed(heap[k], k)'
       /\ Len(heap') + Len(free') = highWater'
  BY <1>1, <1>2, <1>4
<1> QED
  BY <1>7, <1>8, <1>9, <1>10, <1>11 DEF SchedInv

LEMMA NextKeeps ==
  ASSUME SchedulerAssumption, SchedInv, [SchedNext]_schedVars
  PROVE  SchedInv'
<1>1. CASE UNCHANGED schedVars
  BY <1>1 DEF schedVars, SchedInv, TypesOk, Homed, SlotKept, Held, HandleOld
<1>2. ASSUME NEW ts \in EventTime, Push(ts) PROVE SchedInv'
  BY <1>2, PushKeeps
<1>3. ASSUME NEW h \in issued, Cancel(h) PROVE SchedInv'
  BY <1>1, <1>3, CancelKeeps, DropKeeps
<1>4. CASE PopMin
  BY <1>4, PopDrops, DropKeeps
<1>5. CASE Clear
  BY <1>5, ClearKeeps
<1> QED
  BY <1>1, <1>2, <1>3, <1>4, <1>5 DEF SchedNext

LEMMA SoundNow ==
  ASSUME SchedulerAssumption, SchedInv
  PROVE  HeapSound
<1>1. /\ Heap(heap) /\ free \in Seq(EventSlots)
      /\ highWater \in 0 .. EventCap /\ EventCap \in Nat
      /\ Len(heap) \in Nat /\ Len(free) \in Nat /\ Len(heap) + Len(free) = highWater
  BY DEF SchedInv, TypesOk, Heap, SchedulerAssumption
<1>2. ASSUME NEW k \in DOMAIN heap
      PROVE  LET s == eventSlot[heap[k].slot]
             IN  /\ s.live /\ s.pos = k /\ s.seq = heap[k].seq
                 /\ k > 1 => EntryLess(heap[Parent(k)], heap[k])
  BY <1>1 DEF SchedInv, Homed, Heap, Ordered
<1>3. {free[k] : k \in DOMAIN free} = {i \in EventSlots : i < highWater /\ ~eventSlot[i].live}
  <2>1. \A k \in DOMAIN free : free[k] \in EventSlots /\ Listed(free, free[k])
    BY <1>1 DEF Listed
  <2>2. \A i \in EventSlots : Listed(free, i) <=> i < highWater /\ ~eventSlot[i].live
    BY DEF SchedInv, SlotKept
  <2>3. ASSUME NEW x PROVE x \in {free[k] : k \in DOMAIN free} <=> Listed(free, x)
    BY DEF Listed
  <2>4. ASSUME NEW x, Listed(free, x) PROVE x \in EventSlots
    BY <2>1, <2>4 DEF Listed
  <2> QED
    BY <2>2, <2>3, <2>4
<1>4. Len(free) + (EventCap - highWater) = EventCap - Len(heap)
  BY <1>1
<1> QED
  BY <1>2, <1>3, <1>4 DEF HeapSound

(* What audit() checks holds after every mix of pushes, cancellations,     *)
(* pops and clears, at every capacity: the heap is ordered, each entry and *)
(* its slot name each other, and the free list holds exactly the slots     *)
(* constructed and not live (Scheduler.hpp:135-160).                       *)
THEOREM SchedulerHolds ==
  ASSUME SchedulerAssumption
  PROVE  SchedSpec => []HeapSound
<1>1. SchedInit => SchedInv
  BY InitHolds
<1>2. SchedInv /\ [SchedNext]_schedVars => SchedInv'
  BY NextKeeps
<1>3. SchedInv => HeapSound
  BY SoundNow
<1> QED
  BY <1>1, <1>2, <1>3, PTL DEF SchedSpec

----------------------------------------------------------------------------
(* The heap implements the event queue: its pending events are the entries *)
(* with the handles their slots stand for.                                 *)

EventOf(sl, x) == [ts |-> x.ts, seq |-> x.seq, handle |-> <<x.slot, sl[x.slot].gen>>]

EventsOf(h, sl) == {EventOf(sl, h[k]) : k \in DOMAIN h}

Pending ==
  {[ts     |-> heap[k].ts, seq |-> heap[k].seq,
    handle |-> <<heap[k].slot, eventSlot[heap[k].slot].gen>>] : k \in DOMAIN heap}

LEMMA EventsAre ==
  ASSUME NEW h, NEW sl, NEW y
  PROVE  y \in EventsOf(h, sl) <=> \E x : Holds(h, x) /\ y = EventOf(sl, x)
<1>1. ASSUME y \in EventsOf(h, sl) PROVE \E x : Holds(h, x) /\ y = EventOf(sl, x)
  <2>1. PICK k \in DOMAIN h : y = EventOf(sl, h[k])
    BY <1>1 DEF EventsOf
  <2>2. Holds(h, h[k])
    BY DEF Holds
  <2> QED
    BY <2>1, <2>2
<1>2. ASSUME NEW x, Holds(h, x), y = EventOf(sl, x) PROVE y \in EventsOf(h, sl)
  BY <1>2 DEF EventsOf, Holds
<1> QED
  BY <1>1, <1>2

LEMMA EventsCount ==
  ASSUME NEW h \in Seq(Entry), NEW sl
  PROVE  IsFiniteSet(EventsOf(h, sl)) /\ Cardinality(EventsOf(h, sl)) <= Len(h)
<1> DEFINE N == Len(h)
           P == EventsOf(h, sl)
           f == [k \in 1 .. N |-> EventOf(sl, h[k])]
<1>1. N \in Nat /\ DOMAIN h = 1 .. N
  OBVIOUS
<1>2. f \in Surjection(1 .. N, P)
  <2>1. f \in [1 .. N -> P]
    BY <1>1 DEF EventsOf
  <2>2. \A y \in P : \E k \in 1 .. N : f[k] = y
    BY <1>1 DEF EventsOf
  <2> QED
    BY <2>1, <2>2 DEF Surjection
<1>3. IsFiniteSet(1 .. N) /\ Cardinality(1 .. N) = N
  BY <1>1, FS_Interval
<1> HIDE DEF f, N, P
<1>4. IsFiniteSet(P) /\ Cardinality(P) <= N
  BY <1>2, <1>3, FS_Surjection
<1> QED
  BY <1>4 DEF P, N

LEMMA QueuePush ==
  ASSUME SchedulerAssumption, SchedInv, NEW ts \in EventTime, Push(ts)
  PROVE  Queue!Push
<1> DEFINE e == PushEntry(ts)
           P == EventsOf(heap, eventSlot)
           Q == EventsOf(heap', eventSlot')
           new == [ts |-> ts, seq |-> nextSeq, handle |-> <<PushSlot, eventSlot[PushSlot].gen>>]
<1>1. /\ PushSlot \in EventSlots /\ ~eventSlot[PushSlot].live /\ ~Held(PushSlot)
      /\ \A x : Holds(heap', x) <=> Holds(heap, x) \/ x = e
      /\ \A j \in EventSlots : eventSlot'[j].gen = eventSlot[j].gen
  BY PushIs
<1>2. /\ issued' = issued \union {<<PushSlot, eventSlot[PushSlot].gen>>}
      /\ popped' = popped /\ Len(heap) < EventCap
  BY DEF Push, PushSlot
<1>3. heap \in Seq(Entry) /\ Len(heap) \in Nat /\ EventCap \in Nat
  BY DEF SchedInv, TypesOk, Heap, SchedulerAssumption
<1>4. ASSUME NEW x, Holds(heap, x)
      PROVE  /\ EventOf(eventSlot', x) = EventOf(eventSlot, x)
             /\ x.seq < nextSeq
  <2>1. PICK k \in DOMAIN heap : heap[k] = x
    BY <1>4 DEF Holds
  <2>2. x \in Entry /\ x.slot \in EventSlots
    BY <1>3, <2>1, EntryIs
  <2>3. Homed(x, k)
    BY <2>1 DEF SchedInv
  <2> QED
    BY <1>1, <2>2, <2>3 DEF EventOf, Homed
<1>5. EventOf(eventSlot', e) = new
  <2>1. e.ts = ts /\ e.seq = nextSeq /\ e.slot = PushSlot
    BY DEF PushEntry
  <2> QED
    BY <1>1, <2>1 DEF EventOf
<1>6. new.ts = ts /\ new.seq = nextSeq /\ new.handle = <<PushSlot, eventSlot[PushSlot].gen>>
  OBVIOUS
<1> HIDE DEF e, new, P, Q
<1>7. ASSUME NEW y PROVE y \in Q <=> y \in P \/ y = new
  <2>1. y \in Q <=> \E x : Holds(heap', x) /\ y = EventOf(eventSlot', x)
    BY EventsAre DEF Q
  <2>2. y \in P <=> \E x : Holds(heap, x) /\ y = EventOf(eventSlot, x)
    BY EventsAre DEF P
  <2> QED
    BY <1>1, <1>4, <1>5, <2>1, <2>2
<1>8. Q = P \union {new} /\ new \in Q
  BY <1>7
<1>9. Cardinality(P) < EventCap
  <2>1. IsFiniteSet(P) /\ Cardinality(P) <= Len(heap)
    BY <1>3, EventsCount DEF P
  <2>2. Cardinality(P) \in Nat
    BY <2>1, FS_CardinalityType
  <2> QED
    BY <1>2, <1>3, <2>1, <2>2
<1>10. \A y \in P : y.seq < new.seq
  <2> SUFFICES ASSUME NEW y \in P PROVE y.seq < new.seq
    OBVIOUS
  <2>1. PICK x : Holds(heap, x) /\ y = EventOf(eventSlot, x)
    BY EventsAre DEF P
  <2>2. y.seq = x.seq
    BY <2>1 DEF EventOf
  <2> QED
    BY <1>4, <1>6, <2>1, <2>2
<1>11. new.handle \notin issued
  <2> SUFFICES ASSUME new.handle \in issued PROVE FALSE
    OBVIOUS
  <2>1. HandleOld(new.handle)
    BY DEF SchedInv
  <2> QED
    BY <1>1, <1>6, <2>1 DEF HandleOld
<1>12. issued' = issued \union {new.handle}
  BY <1>2, <1>6
<1>13. /\ Q = P \union {new}
       /\ Cardinality(P) < EventCap
       /\ new.ts \in EventTime
       /\ \A f \in P : f.seq < new.seq
       /\ new.handle \notin issued
       /\ issued' = issued \union {new.handle}
       /\ popped' = popped
  BY <1>2, <1>6, <1>8, <1>9, <1>10, <1>11, <1>12
<1> QED
  <2>1. P = Pending
    BY DEF P, Pending, EventsOf, EventOf
  <2>2. Q = Pending'
    BY DEF Q, Pending, EventsOf, EventOf
  <2>3. (\E f \in Pending' :
           /\ Pending' = Pending \union {f}
           /\ Queue!Cardinality(Pending) < EventCap
           /\ f.ts \in EventTime
           /\ \A g \in Pending : g.seq < f.seq
           /\ f.handle \notin issued
           /\ issued' = issued \union {f.handle}
           /\ popped' = popped)
        => Queue!Push
    BY Zenon DEF Queue!Push, Pending
  <2>4. Queue!Cardinality(Pending) = Cardinality(Pending)
    BY DEF Queue!Cardinality, Cardinality
  <2> QED
    BY <1>8, <1>13, <2>1, <2>2, <2>3, <2>4, Zenon

LEMMA PendingAre == Pending = EventsOf(heap, eventSlot) /\ Pending' = EventsOf(heap', eventSlot')
BY DEF Pending, EventsOf, EventOf

LEMMA QueueDrop ==
  ASSUME SchedInv, NEW k \in DOMAIN heap, Drop(k)
  PROVE  LET e == EventOf(eventSlot, heap[k])
         IN  e \in Pending /\ \A y : y \in Pending' <=> y \in Pending /\ y # e
<1> DEFINE e == EventOf(eventSlot, heap[k])
<1>1. /\ \A x : Holds(heap', x) <=> Holds(heap, x) /\ x # heap[k]
      /\ \A j \in EventSlots : j # heap[k].slot => eventSlot'[j].gen = eventSlot[j].gen
  BY DropIs
<1>2. heap \in Seq(Entry) /\ Apart(heap)
  BY DEF SchedInv, TypesOk, Heap
<1>3. ASSUME NEW x, Holds(heap, x), x # heap[k]
      PROVE  EventOf(eventSlot', x) = EventOf(eventSlot, x) /\ EventOf(eventSlot, x) # e
  <2>1. PICK m \in DOMAIN heap : heap[m] = x /\ m # k
    BY <1>3 DEF Holds
  <2>2. x \in Entry /\ x.slot \in EventSlots
    BY <1>2, <2>1, EntryIs
  <2>3. x.slot # heap[k].slot /\ x.seq # heap[k].seq
    BY <1>2, <2>1 DEF Apart
  <2> QED
    BY <1>1, <2>2, <2>3 DEF EventOf
<1>4. Holds(heap, heap[k])
  BY DEF Holds
<1> HIDE DEF e
<1>5. \A y : y \in Pending <=> \E x : Holds(heap, x) /\ y = EventOf(eventSlot, x)
  BY EventsAre, PendingAre
<1>6. \A y : y \in Pending' <=> \E x : Holds(heap', x) /\ y = EventOf(eventSlot', x)
  BY EventsAre, PendingAre
<1>7. e \in Pending
  BY <1>4, <1>5 DEF e
<1>8. ASSUME NEW y PROVE y \in Pending' <=> y \in Pending /\ y # e
  <2>1. ASSUME y \in Pending' PROVE y \in Pending /\ y # e
    BY <1>1, <1>3, <1>5, <1>6, <2>1
  <2>2. ASSUME y \in Pending, y # e PROVE y \in Pending'
    <3>1. PICK x : Holds(heap, x) /\ y = EventOf(eventSlot, x)
      BY <1>5, <2>2
    <3>2. x # heap[k]
      BY <2>2, <3>1 DEF e
    <3> QED
      BY <1>1, <1>3, <1>6, <3>1, <3>2
  <2> QED
    BY <2>1, <2>2
<1> QED
  BY <1>7, <1>8 DEF e

LEMMA QueueCancel ==
  ASSUME SchedInv, NEW k \in DOMAIN heap, Drop(k), popped' = popped
  PROVE  Queue!Cancel
<1>1. PICK e \in Pending : \A y : y \in Pending' <=> y \in Pending /\ y # e
  BY QueueDrop
<1>2. Pending' = Pending \ {e} /\ issued' = issued /\ popped' = popped
  BY <1>1 DEF Drop
<1>3. (\E f \in Pending : Pending' = Pending \ {f} /\ UNCHANGED <<issued, popped>>) => Queue!Cancel
  BY Zenon DEF Queue!Cancel, Pending
<1> QED
  BY <1>2, <1>3

LEMMA QueuePop ==
  ASSUME SchedInv, 1 \in DOMAIN heap, Drop(1), popped' = <<heap[1].ts, heap[1].seq>>
  PROVE  Queue!Pop
<1>1. PICK e : e = EventOf(eventSlot, heap[1])
  OBVIOUS
<1>2. e \in Pending /\ \A y : y \in Pending' <=> y \in Pending /\ y # e
  BY <1>1, QueueDrop
<1>3. e.ts = heap[1].ts /\ e.seq = heap[1].seq
  BY <1>1 DEF EventOf
<1>4. Heap(heap) /\ DOMAIN heap = 1 .. Len(heap)
  BY DEF SchedInv, TypesOk, Heap
<1>5. ASSUME NEW y \in Pending \ {e} PROVE Queue!Before(e, y)
  <2>1. PICK x : Holds(heap, x) /\ y = EventOf(eventSlot, x)
    BY EventsAre, PendingAre
  <2>2. PICK k \in 1 .. Len(heap) : heap[k] = x
    BY <1>4, <2>1 DEF Holds
  <2>3. k # 1
    BY <1>1, <2>1, <2>2
  <2>4. EntryLess(heap[1], x)
    BY <1>4, <2>2, <2>3, RootLeast
  <2>5. y.ts = x.ts /\ y.seq = x.seq
    BY <2>1 DEF EventOf
  <2> QED
    BY <1>3, <2>4, <2>5 DEF Queue!Before, EntryLess
<1>6. Pending' = Pending \ {e} /\ issued' = issued /\ popped' = <<e.ts, e.seq>>
  BY <1>2, <1>3 DEF Drop
<1>7. (\E f \in Pending :
         /\ \A g \in Pending \ {f} : Queue!Before(f, g)
         /\ Pending' = Pending \ {f}
         /\ popped' = <<f.ts, f.seq>>
         /\ issued' = issued)
      => Queue!Pop
  BY Zenon DEF Queue!Pop, Pending
<1> QED
  BY <1>2, <1>5, <1>6, <1>7

LEMMA QueueStep ==
  ASSUME SchedulerAssumption, SchedInv, [SchedNext]_schedVars
  PROVE  \/ Queue!Push \/ Queue!Pop \/ Queue!Cancel \/ Queue!Clear
         \/ UNCHANGED <<Pending, issued, popped>>
<1>1. CASE UNCHANGED schedVars
  BY <1>1 DEF schedVars, Pending
<1>2. ASSUME NEW ts \in EventTime, Push(ts) PROVE Queue!Push
  BY <1>2, QueuePush
<1>3. ASSUME NEW h \in issued, Cancel(h) PROVE UNCHANGED schedVars \/ Queue!Cancel
  BY <1>3, CancelKeeps, QueueCancel
<1>4. CASE PopMin
  BY <1>4, PopDrops, QueuePop
<1>5. CASE Clear
  <2>1. Pending' = {} /\ popped' = <<>> /\ issued' = issued
    BY <1>5 DEF Clear, Pending
  <2>2. (Pending' = {} /\ popped' = <<>> /\ issued' = issued) => Queue!Clear
    BY Zenon DEF Queue!Clear, Pending
  <2> QED
    BY <2>1, <2>2
<1> QED
  BY <1>1, <1>2, <1>3, <1>4, <1>5 DEF SchedNext

(* Whatever its capacity, the heap is the event queue: pushes take a new   *)
(* handle and sort last among their timestamp, pops take the least event,  *)
(* and a cancellation takes out the event its handle names or nothing      *)
(* (docs/SCHEDULER.md:6-26).                                               *)
THEOREM HeapImplements ==
  ASSUME SchedulerAssumption
  PROVE  SchedSpec => HeapIsQueue
<1>1. SchedInit => SchedInv /\ Queue!Init
  <2>1. SchedInit => Queue!Init
    <3> SUFFICES ASSUME SchedInit PROVE Queue!Init
      OBVIOUS
    <3>1. Pending = {} /\ issued = {} /\ popped = <<>>
      BY DEF SchedInit, Pending
    <3>2. (Pending = {} /\ issued = {} /\ popped = <<>>) => Queue!Init
      BY Zenon DEF Queue!Init, Pending
    <3> QED
      BY <3>1, <3>2
  <2> QED
    BY <2>1, InitHolds
<1>2. SchedInv /\ [SchedNext]_schedVars => SchedInv'
  BY NextKeeps
<1>3. SchedInv /\ [SchedNext]_schedVars => [Queue!Steps]_<<Pending, issued, popped>>
  <2> SUFFICES ASSUME SchedInv, [SchedNext]_schedVars
               PROVE  Queue!Steps \/ UNCHANGED <<Pending, issued, popped>>
    OBVIOUS
  <2>1. (\/ Queue!Push \/ Queue!Pop \/ Queue!Cancel \/ Queue!Clear
         \/ UNCHANGED <<Pending, issued, popped>>) => Queue!Steps
    BY DEF Queue!Steps, Pending
  <2> QED
    BY <2>1, QueueStep
<1> QED
  BY <1>1, <1>2, <1>3, PTL DEF SchedSpec, HeapIsQueue, Queue!Spec, Pending

----------------------------------------------------------------------------
(* Arithmetic of the ring's places.                                        *)

LEMMA RemainderIs ==
  ASSUME NEW R \in Nat \ {0}, NEW a \in Int, NEW q \in Int, NEW m \in 0 .. (R - 1),
         a = R * q + m
  PROVE  a % R = m
<1> DEFINE p == a \div R
           r == a % R
<1>1. p \in Int /\ r \in 0 .. (R - 1) /\ a = R * p + r
  OBVIOUS
<1> HIDE DEF p, r
<1>2. R * (q - p) = r - m
  BY <1>1
<1>3. q - p >= 1 => R * (q - p) >= R
  BY <1>1
<1>4. q - p <= -1 => R * (q - p) <= -R
  BY <1>1
<1>5. q - p = 0
  BY <1>1, <1>2, <1>3, <1>4
<1>6. q = p
  BY <1>1, <1>5
<1> QED
  BY <1>1, <1>6 DEF r

(* Adding to a remainder, or a whole turn, changes no place.               *)
LEMMA RemainderAdds ==
  ASSUME NEW R \in Nat \ {0}, NEW a \in Int, NEW b \in Int
  PROVE  /\ ((a % R) + b) % R = (a + b) % R
         /\ (a + R) % R = a % R
         /\ a % R \in 0 .. (R - 1)
<1> DEFINE p == a \div R
           m == a % R
           n == a + b
           p2 == n \div R
           m2 == n % R
<1>1. /\ p \in Int /\ m \in 0 .. (R - 1) /\ a = R * p + m
      /\ p2 \in Int /\ m2 \in 0 .. (R - 1) /\ n = R * p2 + m2
  OBVIOUS
<1>2. n = a + b /\ n \in Int
  OBVIOUS
<1> HIDE DEF p, m, p2, m2, n
<1>3. m + b = R * (p2 - p) + m2 /\ m + b \in Int /\ p2 - p \in Int
  BY <1>1, <1>2
<1>4. (m + b) % R = m2
  BY <1>1, <1>3, RemainderIs
<1>5. a + R = R * (p + 1) + m /\ a + R \in Int /\ p + 1 \in Int
  BY <1>1
<1>6. (a + R) % R = m
  BY <1>1, <1>5, RemainderIs
<1> QED
  BY <1>1, <1>4, <1>6 DEF m, m2, n

(* Numbers less than a turn apart have different places.                   *)
LEMMA RemaindersDiffer ==
  ASSUME NEW R \in Nat \ {0}, NEW a \in Int, NEW b \in Int, a < b, b < a + R
  PROVE  a % R # b % R
<1> DEFINE p == a \div R
           m == a % R
           q == b \div R
           n == b % R
<1>1. /\ p \in Int /\ m \in 0 .. (R - 1) /\ a = R * p + m
      /\ q \in Int /\ n \in 0 .. (R - 1) /\ b = R * q + n
  OBVIOUS
<1> HIDE DEF p, m, q, n
<1> SUFFICES ASSUME m = n PROVE FALSE
  BY DEF m, n
<1>2. R * (q - p) = b - a
  BY <1>1
<1>3. q - p >= 1 => R * (q - p) >= R
  BY <1>1
<1>4. q - p <= 0 => R * (q - p) <= 0
  BY <1>1
<1> QED
  BY <1>1, <1>2, <1>3, <1>4

----------------------------------------------------------------------------
(* What the ring holds.  Push number k (from 1) is in place (k - 1) mod    *)
(* RingSize until RingSize more pushes have been made.                     *)
PlaceOf(n) == n % RingSize

Kept(k) == ring[PlaceOf(k - 1)] = [seq |-> k - 1, delta |-> pushed[k]]

RingInv ==
  /\ DOMAIN ring = Places
  /\ next \in Nat /\ filled \in Nat /\ dropped \in Nat
  /\ filled <= RingSize /\ dropped + filled = next
  /\ dropped > 0 => filled = RingSize
  /\ head = PlaceOf(next)
  /\ pushed \in Seq(Deltas) /\ Len(pushed) = next
  /\ \A k \in dropped + 1 .. next : Kept(k)

LEMMA PlacesTurn ==
  ASSUME RingAssumption, NEW a \in Int, NEW b \in Int
  PROVE  /\ PlaceOf(a) \in Places
         /\ PlaceOf(PlaceOf(a) + b) = PlaceOf(a + b)
         /\ PlaceOf(a + RingSize) = PlaceOf(a)
         /\ a < b /\ b < a + RingSize => PlaceOf(a) # PlaceOf(b)
<1>1. RingSize \in Nat \ {0}
  BY DEF RingAssumption
<1>2. a < b /\ b < a + RingSize => PlaceOf(a) # PlaceOf(b)
  BY <1>1, RemaindersDiffer DEF PlaceOf
<1> QED
  BY <1>1, <1>2, RemainderAdds DEF PlaceOf, Places

LEMMA RingStarts ==
  ASSUME RingAssumption, RingInit
  PROVE  RingInv
<1>1. RingSize \in Nat \ {0}
  BY DEF RingAssumption
<1>2. PlaceOf(0) = 0
  BY <1>1 DEF PlaceOf
<1>3. DOMAIN ring = Places
  BY DEF RingInit
<1>4. next = 0 /\ filled = 0 /\ dropped = 0 /\ head = 0 /\ pushed = <<>>
  BY DEF RingInit
<1>5. \A k \in dropped + 1 .. next : Kept(k)
  BY <1>4
<1> QED
  BY <1>1, <1>2, <1>3, <1>4, <1>5 DEF RingInv

LEMMA DeltaKeeps ==
  ASSUME RingAssumption, RingInv, NEW d \in Deltas, PushDelta(d)
  PROVE  RingInv'
<1>1. RingSize \in Nat \ {0}
  BY DEF RingAssumption
<1>2. /\ DOMAIN ring = Places
      /\ next \in Nat /\ filled \in Nat /\ dropped \in Nat
      /\ filled <= RingSize /\ dropped + filled = next
      /\ dropped > 0 => filled = RingSize
      /\ head = PlaceOf(next)
      /\ pushed \in Seq(Deltas) /\ Len(pushed) = next
  BY DEF RingInv
<1>3. /\ ring' = [ring EXCEPT ![head] = [seq |-> next, delta |-> d]]
      /\ head' = PlaceOf(head + 1)
      /\ filled' = IF filled < RingSize THEN filled + 1 ELSE filled
      /\ dropped' = IF filled < RingSize THEN dropped ELSE dropped + 1
      /\ next' = next + 1
      /\ pushed' = Append(pushed, d)
  BY DEF PushDelta, PlaceOf
<1>4. head \in Places
  BY <1>2, PlacesTurn
<1>5. head' = PlaceOf(next')
  BY <1>2, <1>3, PlacesTurn
<1>6. /\ next' \in Nat /\ filled' \in Nat /\ dropped' \in Nat
      /\ filled' <= RingSize /\ dropped' + filled' = next'
      /\ dropped' > 0 => filled' = RingSize
      /\ dropped <= dropped' /\ next - dropped' < RingSize
  BY <1>1, <1>2, <1>3
<1>7. /\ pushed' \in Seq(Deltas) /\ Len(pushed') = next'
      /\ pushed'[next + 1] = d
      /\ \A k \in 1 .. next : pushed'[k] = pushed[k]
  BY <1>2, <1>3
<1>8. ASSUME NEW k \in Int, dropped' < k, k <= next + 1 PROVE Kept(k)'
  <2>1. dropped' < k /\ k <= next + 1
    BY <1>8
  <2>2. CASE k = next + 1
    <3>1. PlaceOf(k - 1) = head /\ k - 1 = next
      BY <1>2, <2>2
    <3>2. ring'[head] = [seq |-> next, delta |-> d]
      BY <1>2, <1>3, <1>4
    <3>3. pushed'[k] = d
      BY <1>7, <2>2
    <3> QED
      BY <3>1, <3>2, <3>3 DEF Kept
  <2>3. CASE k # next + 1
    <3>1. k \in dropped + 1 .. next /\ k \in 1 .. next
      <4>1. next \in Nat /\ dropped \in Nat /\ dropped' \in Nat /\ dropped <= dropped'
        BY <1>2, <1>6
      <4>2. dropped < k /\ k <= next
        BY <2>1, <2>3, <4>1
      <4> QED
        BY <2>1, <4>1, <4>2
    <3>2. Kept(k)
      BY <3>1 DEF RingInv
    <3>3. PlaceOf(k - 1) # head
      <4> DEFINE a == k - 1
      <4>1. a \in Int /\ a < next /\ next < a + RingSize
        <5>1. /\ next \in Nat /\ dropped' \in Nat /\ RingSize \in Nat
              /\ next - dropped' < RingSize
          BY <1>1, <1>2, <1>6
        <5>2. k <= next
          BY <3>1
        <5>3. PICK m \in Nat : m = dropped'
          BY <5>1
        <5>4. m < k /\ next - m < RingSize
          BY <2>1, <5>1, <5>3
        <5> QED
          BY <5>1, <5>2, <5>4
      <4> HIDE DEF a
      <4>2. PlaceOf(a) # PlaceOf(next)
        BY <1>2, <4>1, PlacesTurn
      <4> QED
        BY <1>2, <4>2 DEF a
    <3>4. PlaceOf(k - 1) \in Places
      BY <2>1, PlacesTurn
    <3>5. ring'[PlaceOf(k - 1)] = ring[PlaceOf(k - 1)]
      BY <1>2, <1>3, <3>3, <3>4
    <3>6. pushed'[k] = pushed[k]
      BY <1>7, <3>1
    <3> QED
      BY <3>2, <3>5, <3>6 DEF Kept
  <2> QED
    BY <2>2, <2>3
<1>9. DOMAIN ring' = Places
  BY <1>2, <1>3
<1>10. \A k \in dropped' + 1 .. next' : Kept(k)'
  BY <1>2, <1>3, <1>6, <1>8
<1> QED
  BY <1>5, <1>6, <1>7, <1>9, <1>10 DEF RingInv

LEMMA RingTells ==
  ASSUME RingAssumption, RingInv
  PROVE  FoldOrTold
<1>1. RingSize \in Nat \ {0}
  BY DEF RingAssumption
<1>2. /\ next \in Nat /\ filled \in Nat /\ dropped \in Nat
      /\ filled <= RingSize /\ dropped + filled = next
      /\ dropped > 0 => filled = RingSize
      /\ head = PlaceOf(next)
  BY DEF RingInv
<1>3. ASSUME NEW i \in 1 .. filled
      PROVE  Live[i] = [seq |-> dropped + i - 1, delta |-> pushed[dropped + i]]
  <2> DEFINE k == dropped + i
             m == k - 1
  <2>1. k \in dropped + 1 .. next /\ m \in Int
    BY <1>2
  <2>2. Kept(k)
    BY <2>1 DEF RingInv
  <2>3. PlaceOf(Base + i - 1) = PlaceOf(m)
    <3>1. CASE filled < RingSize
      <4>1. Base + i - 1 = m
        BY <1>2, <3>1 DEF Base
      <4> QED
        BY <4>1
    <3>2. CASE ~(filled < RingSize)
      <4> DEFINE b == i - 1
      <4>1. Base = PlaceOf(next) /\ b \in Int /\ next + b = m + RingSize
        BY <1>1, <1>2, <3>2 DEF Base
      <4>2. Base + i - 1 = Base + b
        <5>1. Base \in Int
          BY <1>2, <4>1, PlacesTurn DEF Places
        <5> QED
          BY <5>1
      <4> HIDE DEF b, m
      <4>3. PlaceOf(Base + b) = PlaceOf(next + b)
        BY <1>2, <4>1, PlacesTurn
      <4>4. PlaceOf(m + RingSize) = PlaceOf(m)
        BY <2>1, PlacesTurn
      <4> QED
        BY <4>1, <4>2, <4>3, <4>4
    <3> QED
      BY <3>1, <3>2
  <2>4. Live[i] = ring[PlaceOf(Base + i - 1)]
    BY DEF Live, PlaceOf
  <2>5. Live[i] = [seq |-> k - 1, delta |-> pushed[k]]
    <3> HIDE DEF k
    <3> QED
      BY <2>2, <2>3, <2>4 DEF Kept
  <2>6. k - 1 = dropped + i - 1
    BY <1>2
  <2> QED
    BY <2>5, <2>6
<1>4. DOMAIN Live = 1 .. filled
  BY DEF Live
<1>5. ASSUME NEW n \in 0 .. next, dropped <= n
      PROVE  LET unseen == {i \in DOMAIN Live : Live[i].seq >= n}
                 seen   == filled - (next - n)
             IN  /\ seen >= 0 /\ unseen = seen + 1 .. filled
                 /\ \A k \in 1 .. next - n :
                      Live[seen + k] = [seq |-> n + k - 1, delta |-> pushed[n + k]]
  <2> DEFINE seen == filled - (next - n)
  <2>1. /\ n \in Int /\ seen \in Int /\ seen = n - dropped /\ seen >= 0 /\ seen <= filled
        /\ n <= next
    BY <1>2, <1>5
  <2> HIDE DEF seen
  <2>2. \A i \in 1 .. filled : Live[i].seq = dropped + i - 1
    <3> SUFFICES ASSUME NEW i \in 1 .. filled PROVE Live[i].seq = dropped + i - 1
      OBVIOUS
    <3>1. Live[i] = [seq |-> dropped + i - 1, delta |-> pushed[dropped + i]]
      BY <1>3
    <3> QED
      BY <3>1
  <2>3. {i \in DOMAIN Live : Live[i].seq >= n} = seen + 1 .. filled
    <3>1. \A i \in 1 .. filled : Live[i].seq >= n <=> i >= seen + 1
      BY <1>2, <2>1, <2>2
    <3>2. \A i \in seen + 1 .. filled : i \in 1 .. filled /\ i >= seen + 1
      BY <1>2, <2>1
    <3>3. \A i \in 1 .. filled : i >= seen + 1 => i \in seen + 1 .. filled
      BY <1>2, <2>1
    <3> QED
      BY <1>4, <3>1, <3>2, <3>3
  <2>4. ASSUME NEW k \in 1 .. next - n
        PROVE  Live[seen + k] = [seq |-> n + k - 1, delta |-> pushed[n + k]]
    <3> DEFINE i == seen + k
    <3>1. i \in 1 .. filled /\ dropped + i = n + k /\ dropped + i - 1 = n + k - 1
      BY <1>2, <2>1
    <3> HIDE DEF i
    <3>2. Live[i] = [seq |-> dropped + i - 1, delta |-> pushed[dropped + i]]
      BY <1>3, <3>1
    <3> QED
      BY <3>1, <3>2 DEF i
  <2> QED
    BY <2>1, <2>3, <2>4 DEF seen
<1> QED
  BY <1>5 DEF FoldOrTold

(* A reader that folds the ring after any pushes gets every transition it  *)
(* has not seen, in order, or is told that some are lost (SnapshotRing.hpp *)
(* :26, 46-51), whatever the size of the ring.                             *)
THEOREM DeltasHold ==
  ASSUME RingAssumption
  PROVE  RingSpec => [](RingInv /\ FoldOrTold)
<1>1. RingInit => RingInv
  BY RingStarts
<1>2. RingInv /\ [RingNext]_ringVars => RingInv'
  <2> SUFFICES ASSUME RingInv, [RingNext]_ringVars PROVE RingInv'
    OBVIOUS
  <2>1. CASE RingNext
    BY <2>1, DeltaKeeps DEF RingNext
  <2>2. CASE UNCHANGED ringVars
    BY <2>2 DEF RingInv, Kept, ringVars
  <2> QED
    BY <2>1, <2>2
<1>3. RingInv => FoldOrTold
  BY RingTells
<1> QED
  BY <1>1, <1>2, <1>3, PTL DEF RingSpec


----------------------------------------------------------------------------
(* Positions on the circle.                                                *)

(* The steps a probe takes from a to b.                                    *)
Dist(a, b) == IF a <= b THEN b - a ELSE b - a + TableCap

LEMMA TableFacts ==
  ASSUME TableAssumption
  PROVE  /\ TableCap \in Nat /\ Capacity \in Nat /\ Capacity > 0 /\ Capacity < TableCap
         /\ ZeroRef \notin Ref /\ Homes \subseteq Positions /\ NullIndex \notin Index
         /\ GenSpan \in Nat /\ GenSpan > 0 /\ MaxReleases \in Nat
BY DEF TableAssumption, Positions, NullIndex, Index

LEMMA AtIs ==
  ASSUME TableAssumption, NEW n \in 0 .. (TableCap + TableCap - 1)
  PROVE  At(n) = IF n < TableCap THEN n ELSE n - TableCap
<1> DEFINE N == TableCap
           q == n \div N
           m == n % N
<1>1. N \in Nat /\ N > 0 /\ n \in Nat /\ n < N + N
  BY TableFacts
<1>2. q \in Int /\ m \in 0 .. (N - 1) /\ n = N * q + m
  BY <1>1
<1> HIDE DEF q, m, N
<1>3. q <= 1
  <2>1. q >= 2 => N * q >= N + N
    BY <1>1, <1>2
  <2> QED
    BY <1>1, <1>2, <2>1
<1>4. q >= 0
  <2>1. q <= -1 => N * q <= -N
    BY <1>1, <1>2
  <2> QED
    BY <1>1, <1>2, <2>1
<1>5. CASE q = 0
  BY <1>1, <1>2, <1>5 DEF At, N, m
<1>6. CASE q = 1
  BY <1>1, <1>2, <1>6 DEF At, N, m
<1> QED
  BY <1>2, <1>3, <1>4, <1>5, <1>6

LEMMA Circle ==
  ASSUME TableAssumption, NEW a \in Positions, NEW b \in Positions
  PROVE  /\ Dist(a, b) \in Positions
         /\ At(a + Dist(a, b)) = b
         /\ At(a + b) \in Positions /\ Dist(a, At(a + b)) = b
         /\ Dist(a, b) = 0 <=> a = b
<1>1. TableCap \in Nat /\ a \in Nat /\ b \in Nat /\ a < TableCap /\ b < TableCap
  BY TableFacts DEF Positions
<1>2. Dist(a, b) \in Positions /\ (Dist(a, b) = 0 <=> a = b)
  BY <1>1 DEF Dist, Positions
<1>3. At(a + b) = IF a + b < TableCap THEN a + b ELSE a + b - TableCap
  BY <1>1, AtIs
<1>4. a + Dist(a, b) = IF a <= b THEN b ELSE b + TableCap
  BY <1>1 DEF Dist
<1>5. At(a + Dist(a, b)) = b
  <2> DEFINE n == a + Dist(a, b)
  <2>1. n = IF a <= b THEN b ELSE b + TableCap
    BY <1>4
  <2> HIDE DEF n
  <2>2. n \in 0 .. (TableCap + TableCap - 1)
    BY <1>1, <2>1
  <2>3. At(n) = IF n < TableCap THEN n ELSE n - TableCap
    BY <2>2, AtIs
  <2>4. At(n) = b
    BY <1>1, <2>1, <2>3
  <2> QED
    BY <2>4 DEF n
<1> QED
  BY <1>1, <1>2, <1>3, <1>5 DEF Dist, Positions

(* Different positions are at different distances.                         *)
LEMMA HomesApart ==
  ASSUME TableAssumption, NEW a \in Positions, NEW b \in Positions, NEW c \in Positions
  PROVE  Dist(a, b) = Dist(a, c) => b = c
<1>1. TableCap \in Nat /\ a \in Nat /\ b \in Nat /\ c \in Nat
      /\ a < TableCap /\ b < TableCap /\ c < TableCap
  BY TableFacts DEF Positions
<1> QED
  BY <1>1 DEF Dist

----------------------------------------------------------------------------
(* Tables.                                                                 *)

TableEntry == [ref : Ref \union {ZeroRef}, handle : [index : Index \union {NullIndex}, gen : Nat]]

Full(tab) == {p \in Positions : tab[p].ref # ZeroRef}

Entries(tab) == {tab[p] : p \in Full(tab)}

(* The probe for what lies at p passes q.                                  *)
Passes(tab, p, q) == Dist(home[tab[p].ref], q) < Dist(home[tab[p].ref], p)

(* Nothing empty lies on the way to an entry, and none is there twice.     *)
TableSound(tab) ==
  /\ tab \in [Positions -> TableEntry]
  /\ \A p \in Full(tab), q \in Positions : Passes(tab, p, q) => q \in Full(tab)
  /\ \A p, q \in Full(tab) : tab[p].ref = tab[q].ref => p = q
  /\ \A p \in Full(tab) : tab[p].handle.index \in Index
  /\ \A p \in Positions \ Full(tab) : tab[p] = EmptyEntry

(* Where the probe for r may stop.                                         *)
Stops(tab, r, p) ==
  /\ p \in Positions /\ tab[p].ref \in {ZeroRef, r}
  /\ \A q \in Positions : Dist(home[r], q) < Dist(home[r], p) => tab[q].ref \notin {ZeroRef, r}

LEMMA HomePlaced ==
  ASSUME TableAssumption, home \in [Ref -> Homes], NEW r \in Ref
  PROVE  home[r] \in Positions
BY TableFacts

LEMMA FindStops ==
  ASSUME TableAssumption, home \in [Ref -> Homes], NEW tab, Full(tab) # Positions, NEW r \in Ref
  PROVE  Stops(tab, r, FindSlot(tab, r))
<1> DEFINE K == {k \in Positions : StopsAt(tab, r, k)}
           First(k) == StopsAt(tab, r, k) /\ \A j \in Positions : j < k => ~StopsAt(tab, r, j)
           k0 == CHOOSE k \in Positions : First(k)
<1>1. home[r] \in Positions
  BY HomePlaced
<1>2. \A p \in Positions : StopsAt(tab, r, Dist(home[r], p)) <=> tab[p].ref \in {ZeroRef, r}
  BY <1>1, Circle DEF StopsAt
<1>3. K # {}
  <2>1. PICK e \in Positions : tab[e].ref = ZeroRef
    BY DEF Full
  <2>2. Dist(home[r], e) \in Positions
    BY <1>1, <2>1, Circle
  <2> QED
    BY <1>2, <2>1, <2>2
<1>4. K \subseteq Nat
  BY TableFacts DEF Positions
<1>5. \E k \in Positions : First(k)
  <2> HIDE DEF K
  <2>1. \E m \in K : \A k \in K : ~(<<k, m>> \in OpToRel(<, Nat))
    BY <1>3, <1>4, NatLessThanWellFounded, WFMin
  <2>2. PICK m \in K : \A k \in K : ~(k < m)
    BY <1>4, <2>1 DEF OpToRel
  <2> QED
    BY <2>2 DEF K
<1>6. k0 \in Positions /\ First(k0)
  <2> HIDE DEF First
  <2> QED
    BY <1>5
<1>7. FindSlot(tab, r) = At(home[r] + k0)
  BY DEF FindSlot
<1> HIDE DEF k0
<1> DEFINE p == At(home[r] + k0)
<1>8. p \in Positions /\ Dist(home[r], p) = k0
  BY <1>1, <1>6, Circle
<1> HIDE DEF p
<1>9. tab[p].ref \in {ZeroRef, r}
  BY <1>2, <1>6, <1>8
<1>10. ASSUME NEW q \in Positions, Dist(home[r], q) < Dist(home[r], p)
       PROVE  tab[q].ref \notin {ZeroRef, r}
  <2>1. Dist(home[r], q) \in Positions
    BY <1>1, Circle
  <2> QED
    BY <1>2, <1>6, <1>8, <1>10, <2>1
<1> QED
  BY <1>7, <1>8, <1>9, <1>10 DEF Stops, p

(* A reference that is in the table is found where it is, another nowhere. *)
LEMMA FindIs ==
  ASSUME TableAssumption, home \in [Ref -> Homes], NEW tab, TableSound(tab),
         Full(tab) # Positions, NEW r \in Ref
  PROVE  LET p == FindSlot(tab, r)
         IN  /\ Stops(tab, r, p)
             /\ \A q \in Full(tab) : tab[q].ref = r => q = p
             /\ p \in Full(tab) => tab[p].ref = r /\ Found(tab, r) = tab[p].handle
             /\ p \in Full(tab) <=> Found(tab, r) # NoHandle
             /\ p \notin Full(tab) => Found(tab, r) = NoHandle
<1> DEFINE p == FindSlot(tab, r)
<1>1. Stops(tab, r, p)
  BY FindStops
<1>2. Found(tab, r) = IF tab[p].ref = r THEN tab[p].handle ELSE NoHandle
  BY DEF Found
<1> HIDE DEF p
<1>3. r # ZeroRef /\ p \in Positions /\ home[r] \in Positions
  BY <1>1, TableFacts, HomePlaced DEF Stops
<1>4. ASSUME NEW q \in Full(tab), tab[q].ref = r PROVE q = p
  <2>1. q \in Positions
    BY DEF Full
  <2>2. ~(Dist(home[r], q) < Dist(home[r], p))
    BY <1>1, <1>4, <2>1 DEF Stops
  <2>3. ~(Dist(home[r], p) < Dist(home[r], q))
    <3>1. SUFFICES ASSUME Dist(home[r], p) < Dist(home[r], q) PROVE FALSE
      OBVIOUS
    <3>2. p \in Full(tab)
      BY <1>3, <1>4, <3>1 DEF TableSound, Passes
    <3>3. tab[p].ref = r
      BY <1>1, <3>2 DEF Stops, Full
    <3>4. p = q
      BY <1>4, <3>2, <3>3 DEF TableSound
    <3>5. Dist(home[r], q) \in Int
      BY <1>3, <2>1, Circle, TableFacts DEF Positions
    <3> QED
      BY <3>1, <3>4, <3>5
  <2>4. Dist(home[r], q) \in Int /\ Dist(home[r], p) \in Int
    BY <1>3, <2>1, Circle, TableFacts, SMTT(30) DEF Positions
  <2>5. Dist(home[r], q) = Dist(home[r], p)
    BY <2>2, <2>3, <2>4
  <2> QED
    BY <1>3, <2>1, <2>5, HomesApart
<1>5. p \in Full(tab) => tab[p].ref = r /\ Found(tab, r) = tab[p].handle
  BY <1>1, <1>2 DEF Stops, Full
<1>6. p \notin Full(tab) => Found(tab, r) = NoHandle
  BY <1>2, <1>3 DEF Full
<1>7. p \in Full(tab) => Found(tab, r) # NoHandle
  BY <1>5, TableFacts DEF TableSound, NoHandle
<1> QED
  BY <1>1, <1>4, <1>5, <1>6, <1>7 DEF p

(* A new entry goes where the probe for its reference stops.               *)
Placed(tab, e) == [tab EXCEPT ![FindSlot(tab, e.ref)] = e]

LEMMA InsertSound ==
  ASSUME TableAssumption, home \in [Ref -> Homes], NEW tab, TableSound(tab),
         Full(tab) # Positions, NEW e \in TableEntry, e.ref \in Ref, e.handle.index \in Index,
         Found(tab, e.ref) = NoHandle
  PROVE  /\ TableSound(Placed(tab, e))
         /\ \A y : y \in Entries(Placed(tab, e)) <=> y \in Entries(tab) \/ y = e
<1> DEFINE r == e.ref
           p == FindSlot(tab, r)
           t == Placed(tab, e)
<1>1. /\ Stops(tab, r, p) /\ p \notin Full(tab)
      /\ \A q \in Full(tab) : tab[q].ref # r
  <2>1. /\ Stops(tab, r, p)
        /\ \A q \in Full(tab) : tab[q].ref = r => q = p
        /\ p \in Full(tab) <=> Found(tab, r) # NoHandle
    BY FindIs
  <2> HIDE DEF p
  <2> QED
    BY <2>1
<1> HIDE DEF p
<1>2. p \in Positions /\ r # ZeroRef /\ tab \in [Positions -> TableEntry]
  BY <1>1, TableFacts DEF Stops, TableSound
<1>3. e \in TableEntry /\ e.ref = r /\ e.handle.index \in Index
  OBVIOUS
<1>4. /\ t[p] = e /\ \A q \in Positions : q # p => t[q] = tab[q]
      /\ t \in [Positions -> TableEntry]
  <2>1. t = [tab EXCEPT ![p] = e]
    BY DEF p, Placed
  <2> HIDE DEF t
  <2> QED
    BY <1>2, <1>3, <2>1
<1> HIDE DEF t, r
<1>5. t \in [Positions -> TableEntry]
  BY <1>4
<1>6. Full(t) = Full(tab) \union {p}
  BY <1>2, <1>3, <1>4 DEF Full
<1>7. \A q \in Full(tab) : q \in Positions /\ q # p /\ t[q] = tab[q]
  BY <1>1, <1>4 DEF Full
<1>8. \A x, y \in Full(t) : t[x].ref = t[y].ref => x = y
  BY <1>1, <1>3, <1>4, <1>6, <1>7 DEF TableSound
<1>9. ASSUME NEW x \in Full(t), NEW q \in Positions, Passes(t, x, q)
      PROVE  q \in Full(t)
  <2>1. CASE x = p
    <3>1. Dist(home[r], q) < Dist(home[r], p)
      BY <1>3, <1>4, <1>9, <2>1 DEF Passes
    <3>2. tab[q].ref # ZeroRef
      BY <1>1, <3>1 DEF Stops
    <3> QED
      BY <1>6, <3>2 DEF Full
  <2>2. CASE x # p
    <3>1. x \in Full(tab) /\ t[x] = tab[x]
      BY <1>6, <1>7, <2>2
    <3>2. Passes(tab, x, q)
      BY <1>9, <3>1 DEF Passes
    <3> QED
      BY <1>6, <3>1, <3>2 DEF TableSound
  <2> QED
    BY <2>1, <2>2
<1>10. \A x \in Full(t) : t[x].handle.index \in Index
  BY <1>3, <1>4, <1>6, <1>7 DEF TableSound
<1>11. \A x \in Positions \ Full(t) : t[x] = EmptyEntry
  BY <1>4, <1>6 DEF TableSound
<1>12. TableSound(t)
  BY <1>5, <1>8, <1>9, <1>10, <1>11 DEF TableSound
<1>13. ASSUME NEW y PROVE y \in Entries(t) <=> y \in Entries(tab) \/ y = e
  <2>1. ASSUME NEW x \in Full(t) PROVE t[x] \in Entries(tab) \/ t[x] = e
    BY <1>4, <1>6, <1>7 DEF Entries
  <2>2. ASSUME NEW x \in Full(tab) PROVE tab[x] \in Entries(t)
    BY <1>6, <1>7 DEF Entries
  <2>3. e \in Entries(t)
    BY <1>4, <1>6 DEF Entries
  <2>4. y \in Entries(t) <=> \E x \in Full(t) : y = t[x]
    BY DEF Entries
  <2>5. y \in Entries(tab) <=> \E x \in Full(tab) : y = tab[x]
    BY DEF Entries
  <2> QED
    BY <2>1, <2>2, <2>3, <2>4, <2>5
<1> QED
  BY <1>12, <1>13 DEF t

----------------------------------------------------------------------------
(* Backward-shift deletion.                                                *)

(* Stays is the question whether the gap lies on the entry's probe.        *)
LEMMA StaysIs ==
  ASSUME TableAssumption, NEW i \in Positions, NEW j \in Positions, i # j, NEW h \in Positions
  PROVE  Stays(i, j, h) <=> ~(Dist(h, i) < Dist(h, j))
<1>1. TableCap \in Nat /\ i \in Nat /\ j \in Nat /\ h \in Nat
      /\ i < TableCap /\ j < TableCap /\ h < TableCap
  BY TableFacts DEF Positions
<1> QED
  BY <1>1 DEF Dist, Stays

(* A probe to x that passes what lies before j passes j, if x is beyond.   *)
LEMMA PassesOn ==
  ASSUME TableAssumption, NEW p \in Positions, NEW g \in Positions, NEW j \in Positions,
         NEW x \in Positions, NEW h \in Positions,
         Dist(p, g) < Dist(p, j), Dist(p, j) < Dist(p, x), Dist(h, g) < Dist(h, x)
  PROVE  Dist(h, j) < Dist(h, x)
<1>1. TableCap \in Nat /\ p \in Nat /\ g \in Nat /\ j \in Nat /\ x \in Nat /\ h \in Nat
      /\ p < TableCap /\ g < TableCap /\ j < TableCap /\ x < TableCap /\ h < TableCap
  BY TableFacts DEF Positions
<1> QED
  BY <1>1, SMTT(30) DEF Dist

(* A probe that passes j to an x before it has gone around, past e.        *)
LEMMA PassesAround ==
  ASSUME TableAssumption, NEW p \in Positions, NEW x \in Positions, NEW j \in Positions,
         NEW e \in Positions, NEW h \in Positions,
         Dist(p, x) < Dist(p, j), Dist(p, j) < Dist(p, e), Dist(h, j) < Dist(h, x)
  PROVE  Dist(h, e) < Dist(h, x)
<1>1. TableCap \in Nat /\ p \in Nat /\ e \in Nat /\ j \in Nat /\ x \in Nat /\ h \in Nat
      /\ p < TableCap /\ e < TableCap /\ j < TableCap /\ x < TableCap /\ h < TableCap
  BY TableFacts DEF Positions
<1> QED
  BY <1>1, SMTT(30) DEF Dist

State == [tab : [Positions -> TableEntry], gap : Positions, done : BOOLEAN]

(* The copy in the gap apart, the entries of t are those of tab but the    *)
(* one at p, and can be reached through the gap.                           *)
Gapped(tab, p, t, gap) ==
  LET rest == Full(tab) \ {gap}
  IN  /\ Full(t) = Full(tab)
      /\ {t[x] : x \in rest} = {tab[x] : x \in Full(tab) \ {p}}
      /\ \A x, y \in rest : t[x].ref = t[y].ref => x = y
      /\ \A x \in rest, q \in Positions : Passes(t, x, q) => q \in Full(tab)
      /\ \A x \in Full(tab) : t[x].handle.index \in Index
      /\ \A x \in Positions \ Full(tab) : t[x] = EmptyEntry

(* After k turns of the erasure at p, those looked at can be reached       *)
(* without it: all of them when it is done, and it is before e.            *)
Shifting(tab, p, e, k, was) ==
  /\ was \in State /\ was.gap \in Full(tab)
  /\ Dist(p, was.gap) <= k /\ (~was.done => k < Dist(p, e))
  /\ Gapped(tab, p, was.tab, was.gap)
  /\ \A x \in Full(tab) \ {was.gap} :
       was.done \/ Dist(p, x) <= k => ~Passes(was.tab, x, was.gap)

LEMMA ShiftKeeps ==
  ASSUME TableAssumption, home \in [Ref -> Homes], NEW tab, NEW p \in Full(tab),
         NEW e \in Positions \ Full(tab), NEW k \in 1 .. TableCap,
         NEW was, Shifting(tab, p, e, k - 1, was)
  PROVE  Shifting(tab, p, e, k, ShiftTurn(was, At(p + k)))
<1> DEFINE F == Full(tab)
           g == was.gap
           j == At(p + k)
           v == ShiftTurn(was, j)
<1> SUFFICES Shifting(tab, p, e, k, v)
  OBVIOUS
<1>1. /\ TableCap \in Nat /\ k \in Nat /\ k <= TableCap /\ p \in Positions /\ e \in Positions
      /\ g \in Positions /\ g \in F /\ e \notin F /\ F \subseteq Positions
      /\ was.tab \in [Positions -> TableEntry] /\ was.done \in BOOLEAN
      /\ was = [tab |-> was.tab, gap |-> was.gap, done |-> was.done]
  BY TableFacts DEF Shifting, State, Full
<1>2. \A a, b \in Positions : Dist(a, b) \in Nat /\ Dist(a, b) < TableCap
  BY <1>1, Circle DEF Positions
<1>3. \A x \in F : was.tab[x].ref # ZeroRef /\ home[was.tab[x].ref] \in Positions
  <2>1. \A x \in F : was.tab[x].ref # ZeroRef /\ was.tab[x].ref \in Ref
    BY <1>1 DEF Shifting, Gapped, Full, TableEntry
  <2> QED
    BY <2>1, HomePlaced
<1>4. CASE was.done
  <2>1. v = was
    BY <1>1, <1>4 DEF ShiftTurn
  <2>2. Dist(p, g) <= k - 1 /\ Dist(p, g) <= k
    BY <1>1, <1>2 DEF Shifting
  <2> HIDE DEF v, j
  <2> QED
    BY <1>4, <2>1, <2>2 DEF Shifting
<1>5. CASE ~was.done
  <2>1. k - 1 < Dist(p, e) /\ Dist(p, g) <= k - 1
    BY <1>5 DEF Shifting
  <2>2. k \in Positions /\ k <= Dist(p, e) /\ Dist(p, g) < k
    BY <1>1, <1>2, <2>1 DEF Positions
  <2>3. j \in Positions /\ Dist(p, j) = k /\ j # g
    BY <1>1, <2>2, Circle
  <2> HIDE DEF j
  <2>4. CASE was.tab[j].ref = ZeroRef
    <3>1. v = [tab |-> was.tab, gap |-> g, done |-> TRUE]
      BY <2>4 DEF ShiftTurn
    <3> HIDE DEF v
    <3>2. v.tab = was.tab /\ v.gap = g /\ v.done = TRUE /\ v \in State
      BY <1>1, <3>1 DEF State
    <3>3. j \notin F
      BY <2>3, <2>4 DEF Shifting, Gapped, Full
    <3>4. ASSUME NEW x \in F \ {g} PROVE ~Passes(was.tab, x, g)
      <4>1. x \in Positions /\ Dist(p, x) \in Nat
        BY <1>1, <1>2
      <4>2. CASE Dist(p, x) <= k - 1
        BY <4>2 DEF Shifting
      <4>3. CASE Dist(p, x) > k - 1
        <5>1. Dist(p, x) # k
          BY <1>1, <2>3, <3>3, <4>1, HomesApart
        <5>2. Dist(p, g) < Dist(p, j) /\ Dist(p, j) < Dist(p, x)
          BY <1>1, <2>2, <2>3, <4>1, <4>3, <5>1
        <5>3. SUFFICES ASSUME Passes(was.tab, x, g) PROVE FALSE
          OBVIOUS
        <5>4. home[was.tab[x].ref] \in Positions
          BY <1>3
        <5> DEFINE h == home[was.tab[x].ref]
        <5>5. Dist(h, g) < Dist(h, x)
          BY <5>3 DEF Passes
        <5> HIDE DEF h
        <5>6. Dist(h, j) < Dist(h, x)
          BY <1>1, <2>3, <4>1, <5>2, <5>4, <5>5, PassesOn DEF h
        <5>7. Passes(was.tab, x, j)
          BY <5>6 DEF Passes, h
        <5> QED
          BY <2>3, <3>3, <5>7 DEF Shifting, Gapped
      <4> QED
        BY <1>1, <4>1, <4>2, <4>3
    <3>5. Dist(p, g) <= k
      BY <1>1, <1>2, <2>2
    <3> QED
      BY <3>2, <3>4, <3>5 DEF Shifting
  <2>5. CASE was.tab[j].ref # ZeroRef
    <3> DEFINE h == home[was.tab[j].ref]
    <3>1. j \in F /\ h \in Positions
      BY <1>3, <2>3, <2>5 DEF Shifting, Gapped, Full
    <3>2. k < Dist(p, e)
      <4>1. Dist(p, e) # k
        BY <1>1, <2>3, <3>1, HomesApart
      <4> QED
        BY <1>1, <1>2, <2>2, <4>1
    <3>3. Stays(g, j, h) <=> ~Passes(was.tab, j, g)
      BY <1>1, <2>3, <3>1, StaysIs DEF Passes
    <3>4. \A x \in F : Dist(p, x) <= k => x = j \/ Dist(p, x) <= k - 1
      <4>1. ASSUME NEW x \in F, Dist(p, x) <= k, x # j PROVE Dist(p, x) <= k - 1
        <5>1. Dist(p, x) # k /\ Dist(p, x) \in Nat
          BY <1>1, <1>2, <2>3, <4>1, HomesApart
        <5> QED
          BY <1>1, <4>1, <5>1
      <4> QED
        BY <4>1
    <3>5. Dist(p, g) <= k
      BY <1>1, <1>2, <2>2
    <3>6. CASE Stays(g, j, h)
      <4>1. v = was
        BY <1>5, <2>5, <3>6 DEF ShiftTurn
      <4> HIDE DEF v, h
      <4>2. \A x \in F \ {g} : Dist(p, x) <= k => ~Passes(was.tab, x, g)
        BY <3>3, <3>4, <3>6 DEF Shifting
      <4> QED
        BY <1>5, <3>2, <3>5, <4>1, <4>2 DEF Shifting
    <3>7. CASE ~Stays(g, j, h)
      <4> DEFINE t == [was.tab EXCEPT ![g] = was.tab[j]]
      <4>1. v = [tab |-> t, gap |-> j, done |-> FALSE]
        BY <1>5, <2>5, <3>7 DEF ShiftTurn
      <4> HIDE DEF v, h
      <4>2. t \in [Positions -> TableEntry] /\ t[g] = was.tab[j]
            /\ \A x \in Positions : x # g => t[x] = was.tab[x]
        BY <1>1, <2>3
      <4> HIDE DEF t
      <4>3. v.tab = t /\ v.gap = j /\ v.done = FALSE /\ v \in State
        BY <2>3, <4>1, <4>2 DEF State
      <4>4. Full(t) = F
        <5>1. Full(was.tab) = F
          BY DEF Shifting, Gapped
        <5> QED
          BY <1>1, <1>3, <2>5, <4>2, <5>1 DEF Full
      <4>5. {t[x] : x \in F \ {j}} = {was.tab[x] : x \in F \ {g}}
        <5>1. \A x \in F \ {j} : x # g => x \in F \ {g} /\ t[x] = was.tab[x]
          BY <1>1, <4>2
        <5>2. \A x \in F \ {g} : x # j => x \in F \ {j} /\ t[x] = was.tab[x]
          BY <1>1, <4>2
        <5>3. g \in F \ {j} /\ j \in F \ {g}
          BY <1>1, <2>3, <3>1
        <5> QED
          BY <4>2, <5>1, <5>2, <5>3
      <4>6. \A x, y \in F \ {j} : t[x].ref = t[y].ref => x = y
        <5>1. \A x, y \in F \ {g} : was.tab[x].ref = was.tab[y].ref => x = y
          BY DEF Shifting, Gapped
        <5> QED
          BY <1>1, <2>3, <3>1, <4>2, <5>1
      <4>7. Passes(was.tab, j, g)
        BY <3>3, <3>7
      <4>8. ASSUME NEW x \in F \ {j}, NEW q \in Positions, Passes(t, x, q) PROVE q \in F
        <5>1. CASE x # g
          <6>1. x \in F \ {g} /\ Passes(was.tab, x, q)
            BY <1>1, <4>2, <4>8, <5>1 DEF Passes
          <6> QED
            BY <6>1 DEF Shifting, Gapped
        <5>2. CASE x = g
          <6>1. Dist(h, q) < Dist(h, g) /\ Dist(h, g) < Dist(h, j)
            BY <4>2, <4>7, <4>8, <5>2 DEF Passes, h
          <6>2. Dist(h, q) < Dist(h, j)
            BY <1>1, <1>2, <2>3, <3>1, <6>1
          <6>3. Passes(was.tab, j, q)
            BY <6>2 DEF Passes, h
          <6> QED
            BY <2>3, <3>1, <6>3 DEF Shifting, Gapped
        <5> QED
          BY <5>1, <5>2
      <4>9. ASSUME NEW x \in F \ {j}, Dist(p, x) <= k PROVE ~Passes(t, x, j)
        <5>1. CASE x # g
          <6> DEFINE hx == home[was.tab[x].ref]
          <6>1. x \in Positions /\ hx \in Positions /\ t[x] = was.tab[x]
            BY <1>1, <1>3, <4>2, <5>1
          <6>2. SUFFICES ASSUME Dist(hx, j) < Dist(hx, x) PROVE FALSE
            BY <6>1 DEF Passes
          <6> HIDE DEF hx
          <6>3. Dist(p, x) < Dist(p, j) /\ Dist(p, j) < Dist(p, e)
            <7>1. Dist(p, x) <= k - 1 /\ Dist(p, x) \in Nat
              BY <1>1, <1>2, <3>4, <4>9
            <7> QED
              BY <1>1, <2>3, <3>2, <7>1
          <6>4. Dist(hx, e) < Dist(hx, x)
            BY <1>1, <2>3, <6>1, <6>2, <6>3, PassesAround
          <6>5. Passes(was.tab, x, e)
            BY <6>4 DEF Passes, hx
          <6> QED
            BY <1>1, <5>1, <6>5 DEF Shifting, Gapped
        <5>2. CASE x = g
          <6>1. Dist(h, g) < Dist(h, j)
            BY <4>7 DEF Passes, h
          <6>2. ~(Dist(h, j) < Dist(h, g))
            BY <1>1, <1>2, <2>3, <3>1, <6>1
          <6> QED
            BY <4>2, <5>2, <6>2 DEF Passes, h
        <5> QED
          BY <5>1, <5>2
      <4>10. \A x \in F : t[x].handle.index \in Index
        BY <1>1, <3>1, <4>2 DEF Shifting, Gapped
      <4>11. \A x \in Positions \ F : t[x] = EmptyEntry
        BY <1>1, <4>2 DEF Shifting, Gapped
      <4>12. Dist(p, j) <= k
        BY <1>1, <2>3
      <4>13. {t[x] : x \in F \ {j}} = {tab[x] : x \in F \ {p}}
        BY <4>5 DEF Shifting, Gapped
      <4>14. Gapped(tab, p, t, j)
        BY <4>4, <4>6, <4>8, <4>10, <4>11, <4>13 DEF Gapped
      <4> QED
        BY <3>1, <3>2, <4>3, <4>9, <4>12, <4>14 DEF Shifting
    <3> QED
      BY <3>6, <3>7
  <2> QED
    BY <2>4, <2>5
<1> QED
  BY <1>1, <1>4, <1>5

LEMMA EraseSound ==
  ASSUME TableAssumption, home \in [Ref -> Homes], NEW tab, TableSound(tab),
         Full(tab) # Positions, NEW p \in Full(tab)
  PROVE  LET t == Erased(tab, p)
         IN  /\ TableSound(t)
             /\ {t[x] : x \in Full(t)} = {tab[x] : x \in Full(tab) \ {p}}
             /\ Full(t) # Positions
<1> DEFINE N == TableCap
           x0 == [tab |-> tab, gap |-> p, done |-> FALSE]
           Body(f) == [k \in 0 .. N |-> IF k = 0 THEN x0 ELSE ShiftTurn(f[k - 1], At(p + k))]
           f == CHOOSE x : x = Body(x)
           end == f[N]
           G == [k \in 1 .. N |-> [was \in State |-> ShiftTurn(was, At(p + k))]]
           F == Full(tab)
<1>1. N \in Nat /\ N > 0 /\ p \in Positions /\ tab \in [Positions -> TableEntry] /\ F \subseteq Positions
  BY TableFacts DEF TableSound, Full
<1>2. PICK e \in Positions : e \notin F
  BY <1>1
<1>3. Erased(tab, p) = [end.tab EXCEPT ![end.gap] = EmptyEntry]
  BY DEF Erased
<1>4. \A k \in 1 .. N : At(p + k) \in Positions
  <2> SUFFICES ASSUME NEW k \in 1 .. N PROVE At(p + k) \in Positions
    OBVIOUS
  <2> DEFINE n == p + k
  <2>1. n \in 0 .. (TableCap + TableCap - 1)
    BY <1>1 DEF Positions
  <2> HIDE DEF n
  <2>2. At(n) = IF n < TableCap THEN n ELSE n - TableCap
    BY <2>1, AtIs
  <2>3. At(n) \in Positions
    BY <1>1, <2>1, <2>2 DEF Positions
  <2> QED
    BY <2>3 DEF n
<1> HIDE DEF N, F
<1>5. x0 \in State
  BY <1>1 DEF State
<1>6. G \in [1 .. N -> [State -> State]]
  <2>1. ASSUME NEW k \in 1 .. N, NEW was \in State PROVE ShiftTurn(was, At(p + k)) \in State
    <3> DEFINE j == At(p + k)
    <3>1. j \in Positions
      BY <1>4
    <3> HIDE DEF j
    <3>2. [was.tab EXCEPT ![was.gap] = was.tab[j]] \in [Positions -> TableEntry]
      BY <3>1 DEF State
    <3>3. ShiftTurn(was, j) \in State
      BY <3>1, <3>2 DEF State, ShiftTurn
    <3> QED
      BY <3>3 DEF j
  <2> QED
    BY <2>1
<1>7. \A k \in 1 .. N, was \in State : G[k][was] = ShiftTurn(was, At(p + k))
  OBVIOUS
<1> HIDE DEF G, x0
<1>8. PICK g : Turns(N, State, x0, G, g)
  BY <1>1, <1>5, <1>6, LoopExists
<1>9. g = Body(g)
  <2>1. \A k \in 1 .. N : k - 1 \in 0 .. N /\ g[k] = ShiftTurn(g[k - 1], At(p + k))
    BY <1>1, <1>7, <1>8 DEF Turns
  <2>2. \A k \in 0 .. N : g[k] = IF k = 0 THEN x0 ELSE ShiftTurn(g[k - 1], At(p + k))
    BY <1>1, <1>8, <2>1 DEF Turns
  <2>3. g = [k \in 0 .. N |-> g[k]]
    BY <1>8 DEF Turns
  <2> QED
    BY <2>2, <2>3
<1> HIDE DEF Body
<1>10. f = Body(f)
  BY <1>9, Zenon
<1> HIDE DEF f
<1>11. f[0] = x0 /\ \A k \in 1 .. N : f[k] = ShiftTurn(f[k - 1], At(p + k))
  BY <1>1, <1>10 DEF Body
<1> DEFINE H == {k \in 0 .. N : Shifting(tab, p, e, k, f[k])}
<1>12. 0 \in H
  <2>1. x0.tab = tab /\ x0.gap = p /\ x0.done = FALSE
    BY DEF x0
  <2>2. Dist(p, p) = 0 /\ Dist(p, e) # 0 /\ Dist(p, e) \in Nat
    BY <1>1, <1>2, Circle DEF Positions, F
  <2>3. Gapped(tab, p, tab, p)
    BY DEF Gapped, TableSound
  <2>4. \A x \in Full(tab) \ {p} : ~(Dist(p, x) <= 0)
    <3> SUFFICES ASSUME NEW x \in Full(tab) \ {p} PROVE ~(Dist(p, x) <= 0)
      OBVIOUS
    <3>1. x \in Positions /\ Dist(p, x) \in Nat /\ Dist(p, x) # 0
      BY <1>1, Circle DEF Positions, F
    <3> QED
      BY <3>1
  <2>5. Shifting(tab, p, e, 0, x0)
    BY <1>5, <2>1, <2>2, <2>3, <2>4 DEF Shifting
  <2> QED
    BY <1>1, <1>11, <2>5
<1>13. \A k \in 1 .. N : k - 1 \in H => k \in H
  <2> SUFFICES ASSUME NEW k \in 1 .. N, Shifting(tab, p, e, k - 1, f[k - 1])
               PROVE  Shifting(tab, p, e, k, f[k])
    BY <1>1
  <2>1. k \in 1 .. TableCap
    BY DEF N
  <2>2. e \in Positions \ Full(tab)
    BY <1>2 DEF F
  <2>3. Shifting(tab, p, e, k, ShiftTurn(f[k - 1], At(p + k)))
    BY <2>1, <2>2, ShiftKeeps
  <2> QED
    BY <1>11, <2>3
<1> HIDE DEF H
<1>14. N \in H
  BY <1>1, <1>12, <1>13, TurnsPass
<1>15. Shifting(tab, p, e, N, end)
  BY <1>14 DEF H
<1> HIDE DEF end
<1> DEFINE gap == end.gap
           t   == [end.tab EXCEPT ![gap] = EmptyEntry]
<1>16. /\ end.done /\ gap \in F /\ gap \in Positions /\ end.tab \in [Positions -> TableEntry]
       /\ Gapped(tab, p, end.tab, gap)
       /\ \A x \in F \ {gap} : ~Passes(end.tab, x, gap)
  <2>1. Dist(p, e) \in Positions
    BY <1>1, <1>2, Circle
  <2>2. ~(N < Dist(p, e))
    BY <1>1, <2>1 DEF Positions, N
  <2> QED
    BY <1>15, <2>2 DEF Shifting, State, F
<1> HIDE DEF gap
<1>17. EmptyEntry \in TableEntry /\ EmptyEntry.ref = ZeroRef
  BY DEF EmptyEntry, NoHandle, TableEntry
<1> HIDE DEF t
<1>18. /\ t \in [Positions -> TableEntry] /\ t[gap] = EmptyEntry
       /\ \A x \in Positions : x # gap => t[x] = end.tab[x]
  BY <1>16, <1>17 DEF t, gap
<1>19. Full(end.tab) = F
  BY <1>16 DEF Gapped, F
<1>20. Full(t) = F \ {gap}
  BY <1>17, <1>18, <1>19 DEF Full
<1>21. \A x \in Full(t) : x \in Positions /\ t[x] = end.tab[x] /\ x \in F \ {gap}
  BY <1>1, <1>18, <1>20
<1>22. {t[x] : x \in Full(t)} = {tab[x] : x \in F \ {p}}
  <2>1. {t[x] : x \in Full(t)} = {end.tab[x] : x \in F \ {gap}}
    BY <1>20, <1>21
  <2> QED
    BY <1>16, <2>1 DEF Gapped, F
<1>23. \A x, y \in Full(t) : t[x].ref = t[y].ref => x = y
  BY <1>16, <1>21 DEF Gapped, F
<1>24. ASSUME NEW x \in Full(t), NEW q \in Positions, Passes(t, x, q) PROVE q \in Full(t)
  <2>1. Passes(end.tab, x, q)
    BY <1>21, <1>24 DEF Passes
  <2>2. q \in F
    BY <1>16, <1>21, <2>1 DEF Gapped, F
  <2>3. q # gap
    BY <1>16, <1>21, <2>1
  <2> QED
    BY <1>20, <2>2, <2>3
<1>25. \A x \in Full(t) : t[x].handle.index \in Index
  BY <1>16, <1>21 DEF Gapped, F
<1>26. \A x \in Positions \ Full(t) : t[x] = EmptyEntry
  BY <1>16, <1>18, <1>20 DEF Gapped, F
<1>27. TableSound(t)
  BY <1>18, <1>23, <1>24, <1>25, <1>26 DEF TableSound
<1>28. Full(t) # Positions
  BY <1>16, <1>20
<1> QED
  BY <1>3, <1>22, <1>27, <1>28 DEF t, gap, F

----------------------------------------------------------------------------
(* The arena.                                                              *)

Cell == [ref : Ref \union {ZeroRef}, gen : Nat, next : Index \union {NullIndex}, live : BOOLEAN]

Idle(a) == {i \in Index : i < a.watermark /\ ~a.slot[i].live}

(* w holds the idle slots in the order the free list gives them.           *)
FreeChain(a, n, w) ==
  /\ w \in [1 .. n -> Index]
  /\ \A k \in 1 .. n : w[k] \in Idle(a)
  /\ \A i \in Idle(a) : \E k \in 1 .. n : w[k] = i
  /\ \A j, k \in 1 .. n : w[j] = w[k] => j = k
  /\ \A k \in 1 .. n : a.slot[w[k]].next = IF k = n THEN NullIndex ELSE w[k + 1]
  /\ a.freeHead = IF n = 0 THEN NullIndex ELSE w[1]

ArenaSane(a) ==
  /\ a.slot \in [Index -> Cell] /\ a.watermark \in 0 .. Capacity
  /\ \A i \in Index : i >= a.watermark => ~a.slot[i].live
  /\ \E n \in Nat : \E w : FreeChain(a, n, w)

LEMMA AcquireSane ==
  ASSUME TableAssumption, NEW a, ArenaSane(a), Acquired(a) # NullIndex, NEW r \in Ref
  PROVE  LET i == Acquired(a)
             b == AfterAcquire(a, r)
         IN  /\ ArenaSane(b) /\ i \in Index /\ ~a.slot[i].live
             /\ b.slot[i].live /\ b.slot[i].ref = r /\ b.slot[i].gen = a.slot[i].gen
             /\ a.slot[i].gen \in Nat
             /\ \A j \in Index : j # i => b.slot[j] = a.slot[j]
             /\ b.stale = a.stale
<1> DEFINE i == Acquired(a)
           b == AfterAcquire(a, r)
<1>1. /\ a.slot \in [Index -> Cell] /\ a.watermark \in Nat /\ a.watermark <= Capacity
      /\ \A k \in Index : k \in Nat /\ k < Capacity
      /\ Capacity \in Nat /\ NullIndex \notin Index
  BY TableFacts DEF ArenaSane, Index
<1>0. PICK n \in Nat : \E w : FreeChain(a, n, w)
  BY DEF ArenaSane
<1>2. PICK w : FreeChain(a, n, w)
  BY <1>0
<1>3. n = 0 <=> a.freeHead = NullIndex
  <2>1. n # 0 => 1 \in 1 .. n
    OBVIOUS
  <2> QED
    BY <1>1, <1>2, <2>1 DEF FreeChain
<1>4. i \in Index /\ ~a.slot[i].live
  <2>1. CASE a.freeHead # NullIndex
    <3>1. 1 \in 1 .. n /\ i = w[1]
      BY <1>2, <1>3, <2>1 DEF FreeChain, Acquired
    <3> QED
      BY <1>2, <3>1 DEF FreeChain, Idle
  <2>2. CASE a.freeHead = NullIndex
    <3>1. i = a.watermark /\ a.watermark < Capacity
      BY <2>2 DEF Acquired
    <3> QED
      BY <1>1, <3>1 DEF ArenaSane, Index
  <2> QED
    BY <2>1, <2>2
<1>5. b = [slot      |-> [a.slot EXCEPT ![i].ref = r, ![i].live = TRUE],
           freeHead  |-> IF a.freeHead = NullIndex THEN NullIndex ELSE a.slot[i].next,
           watermark |-> IF a.freeHead = NullIndex THEN a.watermark + 1 ELSE a.watermark,
           stale     |-> a.stale]
  BY DEF AfterAcquire
<1>6. CASE a.freeHead # NullIndex
  <2>1. 1 \in 1 .. n /\ i = w[1] /\ i < a.watermark
    BY <1>2, <1>3, <1>6 DEF FreeChain, Acquired, Idle
  <2> HIDE DEF i, b
  <2>2. /\ b.slot \in [Index -> Cell] /\ b.watermark = a.watermark /\ b.freeHead = a.slot[i].next
        /\ b.slot[i].live /\ b.slot[i].ref = r /\ b.slot[i].gen = a.slot[i].gen
        /\ \A j \in Index : j # i => b.slot[j] = a.slot[j]
        /\ b.stale = a.stale
    BY <1>1, <1>4, <1>5, <1>6 DEF Cell
  <2>3. Idle(b) = Idle(a) \ {i}
    BY <1>4, <2>2 DEF Idle
  <2> DEFINE m == n - 1
             v == [k \in 1 .. m |-> w[k + 1]]
  <2>4. m \in Nat /\ \A k \in 1 .. m : k \in 1 .. n /\ k + 1 \in 1 .. n /\ (k = m <=> k + 1 = n)
    BY <2>1
  <2>5. \A k \in 1 .. n : k # 1 => k - 1 \in 1 .. m /\ k - 1 + 1 = k
    BY <2>1
  <2>6. m = 0 <=> n = 1
    BY <2>1
  <2> HIDE DEF m
  <2>7. v \in [1 .. m -> Index] /\ \A k \in 1 .. m : v[k] = w[k + 1]
    BY <1>2, <2>4 DEF FreeChain
  <2> HIDE DEF v
  <2>8. \A k \in 1 .. m : v[k] \in Idle(b)
    <3>1. \A k \in 1 .. m : w[k + 1] \in Idle(a) /\ w[k + 1] # w[1]
      <4> SUFFICES ASSUME NEW k \in 1 .. m PROVE w[k + 1] \in Idle(a) /\ w[k + 1] # w[1]
        OBVIOUS
      <4>1. k + 1 # 1 /\ k + 1 \in 1 .. n
        BY <2>4
      <4> QED
        BY <1>2, <2>1, <4>1 DEF FreeChain
    <3> QED
      BY <2>1, <2>3, <2>7, <3>1
  <2>9. ASSUME NEW x \in Idle(b) PROVE \E k \in 1 .. m : v[k] = x
    <3>1. PICK k \in 1 .. n : w[k] = x
      BY <1>2, <2>3 DEF FreeChain
    <3>2. k # 1
      BY <2>1, <2>3, <3>1
    <3> QED
      BY <2>5, <2>7, <3>1, <3>2
  <2>10. ASSUME NEW j \in 1 .. m, NEW k \in 1 .. m, v[j] = v[k] PROVE j = k
    <3>1. w[j + 1] = w[k + 1] /\ j + 1 \in 1 .. n /\ k + 1 \in 1 .. n
      BY <2>4, <2>7, <2>10
    <3>2. \A x, y \in 1 .. n : w[x] = w[y] => x = y
      BY <1>2 DEF FreeChain
    <3>3. j + 1 = k + 1
      BY <3>1, <3>2
    <3> QED
      BY <3>3
  <2>11. ASSUME NEW k \in 1 .. m
         PROVE  b.slot[v[k]].next = IF k = m THEN NullIndex ELSE v[k + 1]
    <3>1. v[k] \in Index /\ v[k] # i
      BY <2>3, <2>7, <2>8
    <3>2. b.slot[v[k]].next = a.slot[w[k + 1]].next
      BY <2>2, <2>7, <3>1
    <3>3. a.slot[w[k + 1]].next = IF k + 1 = n THEN NullIndex ELSE w[k + 1 + 1]
      BY <1>2, <2>4 DEF FreeChain
    <3>4. k # m => v[k + 1] = w[k + 1 + 1]
      BY <2>4, <2>7
    <3> QED
      BY <2>4, <3>2, <3>3, <3>4
  <2>12. b.freeHead = IF m = 0 THEN NullIndex ELSE v[1]
    <3>1. a.slot[w[1]].next = IF 1 = n THEN NullIndex ELSE w[1 + 1]
      BY <1>2, <2>1 DEF FreeChain
    <3>2. m # 0 => v[1] = w[1 + 1]
      BY <2>4, <2>7
    <3> QED
      BY <2>1, <2>2, <2>6, <3>1, <3>2
  <2>13. FreeChain(b, m, v)
    BY <2>7, <2>8, <2>9, <2>10, <2>11, <2>12 DEF FreeChain
  <2>14. \A k \in Index : k >= b.watermark => ~b.slot[k].live
    BY <1>1, <1>4, <2>1, <2>2 DEF ArenaSane
  <2>15. ArenaSane(b)
    BY <1>1, <2>2, <2>4, <2>13, <2>14 DEF ArenaSane
  <2> QED
    BY <1>1, <1>4, <2>2, <2>15 DEF i, b, Cell
<1>7. CASE a.freeHead = NullIndex
  <2>1. i = a.watermark /\ a.watermark < Capacity
    BY <1>4, <1>7 DEF Acquired
  <2> HIDE DEF i, b
  <2>2. /\ b.slot \in [Index -> Cell] /\ b.watermark = a.watermark + 1 /\ b.freeHead = NullIndex
        /\ b.slot[i].live /\ b.slot[i].ref = r /\ b.slot[i].gen = a.slot[i].gen
        /\ \A j \in Index : j # i => b.slot[j] = a.slot[j]
        /\ b.stale = a.stale
    BY <1>1, <1>4, <1>5, <1>7 DEF Cell
  <2>3. Idle(a) = {} /\ w \in [1 .. 0 -> Index]
    BY <1>2, <1>3, <1>7 DEF FreeChain
  <2>4. Idle(b) = {}
    <3>1. \A k \in Index : k < a.watermark + 1 => k < a.watermark \/ k = i
      BY <1>1, <2>1
    <3> QED
      BY <2>2, <2>3, <3>1 DEF Idle
  <2>5. FreeChain(b, 0, w)
    BY <2>2, <2>3, <2>4 DEF FreeChain
  <2>6. \A k \in Index : k >= b.watermark => ~b.slot[k].live
    <3>1. \A k \in Index : k >= a.watermark + 1 => k >= a.watermark /\ k # i
      BY <1>1, <2>1
    <3> QED
      BY <2>2, <3>1 DEF ArenaSane
  <2>7. ArenaSane(b)
    BY <1>1, <2>1, <2>2, <2>5, <2>6 DEF ArenaSane
  <2> QED
    BY <1>1, <1>4, <2>2, <2>7 DEF i, b, Cell
<1> QED
  BY <1>6, <1>7

LEMMA ReleaseSane ==
  ASSUME TableAssumption, NEW a, ArenaSane(a), NEW i \in Index, a.slot[i].live
  PROVE  LET b == AfterRelease(a, i)
         IN  /\ ArenaSane(b) /\ ~b.slot[i].live /\ Acquired(b) = i
             /\ b.slot[i].gen = (a.slot[i].gen + 1) % GenSpan
             /\ \A j \in Index : j # i => b.slot[j] = a.slot[j]
             /\ b.stale = [a.stale EXCEPT ![i] = @ \union {a.slot[i].gen}]
<1> DEFINE b == AfterRelease(a, i)
<1>1. /\ a.slot \in [Index -> Cell] /\ a.watermark \in Nat /\ a.watermark <= Capacity
      /\ \A k \in Index : k \in Nat /\ k < Capacity
      /\ Capacity \in Nat /\ NullIndex \notin Index
  BY TableFacts DEF ArenaSane, Index
<1>0. PICK n \in Nat : \E w : FreeChain(a, n, w)
  BY DEF ArenaSane
<1>2. PICK w : FreeChain(a, n, w)
  BY <1>0
<1>3. i < a.watermark /\ i \notin Idle(a)
  BY <1>1 DEF ArenaSane, Idle
<1> DEFINE g == (a.slot[i].gen + 1) % GenSpan
<1>4. g \in Nat
  BY <1>1, TableFacts DEF Cell
<1>5. b = [slot      |-> [a.slot EXCEPT ![i].live = FALSE, ![i].next = a.freeHead, ![i].gen = g],
           freeHead  |-> i,
           watermark |-> a.watermark,
           stale     |-> [a.stale EXCEPT ![i] = @ \union {a.slot[i].gen}]]
  BY <1>1 DEF AfterRelease
<1> HIDE DEF b, g
<1>6. a.freeHead \in Index \union {NullIndex}
  <2>1. n # 0 => 1 \in 1 .. n
    OBVIOUS
  <2> QED
    BY <1>2, <2>1 DEF FreeChain
<1>7. /\ b.slot \in [Index -> Cell] /\ b.watermark = a.watermark /\ b.freeHead = i
      /\ ~b.slot[i].live /\ b.slot[i].next = a.freeHead /\ b.slot[i].gen = g
      /\ \A j \in Index : j # i => b.slot[j] = a.slot[j]
      /\ b.stale = [a.stale EXCEPT ![i] = @ \union {a.slot[i].gen}]
  BY <1>1, <1>4, <1>5, <1>6, ZenonT(30) DEF Cell
<1>8. Idle(b) = Idle(a) \union {i}
  BY <1>3, <1>7 DEF Idle
<1> DEFINE m == n + 1
           v == [k \in 1 .. m |-> IF k = 1 THEN i ELSE w[k - 1]]
<1>9. /\ m \in Nat /\ m # 0 /\ 1 \in 1 .. m
      /\ \A k \in 1 .. m : k # 1 => k - 1 \in 1 .. n /\ (k = m <=> k - 1 = n) /\ k - 1 + 1 = k
      /\ \A k \in 1 .. n : k + 1 \in 1 .. m /\ k + 1 # 1 /\ k + 1 - 1 = k
      /\ 1 = m <=> n = 0
  OBVIOUS
<1> HIDE DEF m
<1>10. v \in [1 .. m -> Index]
  BY <1>2, <1>9 DEF FreeChain
<1>11. v[1] = i /\ \A k \in 1 .. m : k # 1 => v[k] = w[k - 1]
  BY <1>9
<1> HIDE DEF v
<1>12. \A k \in 1 .. m : v[k] \in Idle(b)
  BY <1>2, <1>8, <1>9, <1>11 DEF FreeChain
<1>13. ASSUME NEW x \in Idle(b) PROVE \E k \in 1 .. m : v[k] = x
  <2>1. CASE x = i
    BY <1>9, <1>11, <2>1
  <2>2. CASE x # i
    <3>1. PICK k \in 1 .. n : w[k] = x
      BY <1>2, <1>8, <2>2 DEF FreeChain
    <3>2. v[k + 1] = x
      BY <1>9, <1>11, <3>1
    <3> QED
      BY <1>9, <3>2
  <2> QED
    BY <2>1, <2>2
<1>14. ASSUME NEW j \in 1 .. m, NEW k \in 1 .. m, v[j] = v[k] PROVE j = k
  <2>1. \A x \in 1 .. m : x # 1 => v[x] # i
    <3>1. \A x \in 1 .. n : w[x] # i
      BY <1>2, <1>3 DEF FreeChain
    <3> QED
      BY <1>9, <1>11, <3>1
  <2>2. CASE j = 1 \/ k = 1
    BY <1>11, <1>14, <2>1, <2>2
  <2>3. CASE j # 1 /\ k # 1
    <3>1. w[j - 1] = w[k - 1] /\ j - 1 \in 1 .. n /\ k - 1 \in 1 .. n
      BY <1>9, <1>11, <1>14, <2>3
    <3>2. \A x, y \in 1 .. n : w[x] = w[y] => x = y
      BY <1>2 DEF FreeChain
    <3>3. j - 1 = k - 1
      BY <3>1, <3>2
    <3> QED
      BY <3>3
  <2> QED
    BY <2>2, <2>3
<1>15. ASSUME NEW k \in 1 .. m
       PROVE  b.slot[v[k]].next = IF k = m THEN NullIndex ELSE v[k + 1]
  <2>1. CASE k = 1
    <3>1. n # 0 => v[1 + 1] = w[1]
      <4>1. n # 0 => 1 \in 1 .. n
        OBVIOUS
      <4>2. n # 0 => 1 + 1 \in 1 .. m /\ 1 + 1 # 1 /\ 1 + 1 - 1 = 1
        BY <1>9, <4>1
      <4> QED
        BY <1>11, <4>2
    <3>2. a.freeHead = IF n = 0 THEN NullIndex ELSE w[1]
      BY <1>2 DEF FreeChain
    <3> QED
      BY <1>7, <1>9, <1>11, <2>1, <3>1, <3>2
  <2>2. CASE k # 1
    <3>1. k - 1 \in 1 .. n /\ v[k] = w[k - 1] /\ (k = m <=> k - 1 = n)
      BY <1>9, <1>11, <2>2
    <3>2. a.slot[w[k - 1]].next = IF k - 1 = n THEN NullIndex ELSE w[k - 1 + 1]
      BY <1>2, <3>1 DEF FreeChain
    <3>3. w[k - 1] \in Index /\ w[k - 1] # i
      BY <1>2, <1>3, <3>1 DEF FreeChain
    <3>4. b.slot[v[k]].next = a.slot[w[k - 1]].next
      BY <1>7, <3>1, <3>3
    <3>5. k # m => v[k + 1] = w[k - 1 + 1]
      <4>1. k # m => k + 1 \in 1 .. m /\ k + 1 # 1 /\ k + 1 - 1 = k - 1 + 1
        BY <1>9
      <4> QED
        BY <1>11, <4>1
    <3> QED
      BY <3>1, <3>2, <3>4, <3>5
  <2> QED
    BY <2>1, <2>2
<1>16. b.freeHead = IF m = 0 THEN NullIndex ELSE v[1]
  BY <1>7, <1>9, <1>11
<1>17. FreeChain(b, m, v)
  BY <1>10, <1>12, <1>13, <1>14, <1>15, <1>16 DEF FreeChain
<1>18. \A k \in Index : k >= b.watermark => ~b.slot[k].live
  BY <1>7 DEF ArenaSane
<1>19. ArenaSane(b)
  BY <1>1, <1>7, <1>9, <1>17, <1>18 DEF ArenaSane
<1>20. Acquired(b) = i
  BY <1>1, <1>7 DEF Acquired
<1> QED
  BY <1>7, <1>19, <1>20 DEF b, g

(* Following the list from its head meets the idle slots in turn.          *)
LEMMA FreeWalkIs ==
  ASSUME TableAssumption, NEW a, ArenaSane(a), NEW n \in Nat, NEW w, FreeChain(a, n, w)
  PROVE  \A k \in 0 .. Capacity : FreeWalk(a)[k] = IF k < n THEN w[k + 1] ELSE NullIndex
<1> DEFINE N == Capacity
           Step(f) == [k \in 0 .. N |-> IF k = 0 THEN a.freeHead
                                        ELSE IF f[k - 1] = NullIndex THEN NullIndex
                                        ELSE a.slot[f[k - 1]].next]
           g == [k \in 0 .. N |-> IF k < n THEN w[k + 1] ELSE NullIndex]
           f == CHOOSE x : x = Step(x)
           At0(x, k) == IF k = 0 THEN a.freeHead
                        ELSE IF x[k - 1] = NullIndex THEN NullIndex
                        ELSE a.slot[x[k - 1]].next
<1>1. FreeWalk(a) = f
  BY DEF FreeWalk
<1>2. N \in Nat /\ NullIndex \notin Index
  BY TableFacts
<1>3. /\ \A k \in 1 .. n : w[k] # NullIndex
      /\ \A k \in 1 .. n : a.slot[w[k]].next = IF k = n THEN NullIndex ELSE w[k + 1]
      /\ a.freeHead = IF n = 0 THEN NullIndex ELSE w[1]
  BY <1>2 DEF FreeChain
<1> HIDE DEF N
<1>4. ASSUME NEW k \in 0 .. N, NEW x,
             k # 0 => x[k - 1] = IF k - 1 < n THEN w[k] ELSE NullIndex
      PROVE  At0(x, k) = IF k < n THEN w[k + 1] ELSE NullIndex
  <2>1. CASE k = 0
    <3>1. 0 < n <=> n # 0
      OBVIOUS
    <3> QED
      BY <1>3, <2>1, <3>1
  <2>2. CASE k # 0 /\ k - 1 < n
    <3>1. k \in 1 .. n /\ (k < n <=> k # n)
      BY <1>2, <2>2
    <3>2. x[k - 1] = w[k] /\ w[k] # NullIndex
      BY <1>3, <1>4, <2>2, <3>1
    <3>3. At0(x, k) = a.slot[w[k]].next
      BY <2>2, <3>2
    <3>4. a.slot[w[k]].next = IF k = n THEN NullIndex ELSE w[k + 1]
      BY <1>3, <3>1
    <3> HIDE DEF At0
    <3> QED
      BY <3>1, <3>3, <3>4
  <2>3. CASE k # 0 /\ ~(k - 1 < n)
    <3>1. ~(k < n)
      BY <1>2, <2>3
    <3> QED
      BY <1>4, <2>3, <3>1
  <2> QED
    BY <2>1, <2>2, <2>3
<1>5. ASSUME NEW k \in 0 .. N PROVE g[k] = At0(g, k)
  <2>1. k # 0 => k - 1 \in 0 .. N /\ k - 1 + 1 = k
    BY <1>2
  <2>2. k # 0 => g[k - 1] = IF k - 1 < n THEN w[k] ELSE NullIndex
    BY <2>1
  <2>3. g[k] = IF k < n THEN w[k + 1] ELSE NullIndex
    OBVIOUS
  <2> HIDE DEF g
  <2>4. At0(g, k) = IF k < n THEN w[k + 1] ELSE NullIndex
    BY <1>4, <2>2
  <2> HIDE DEF At0
  <2> QED
    BY <2>3, <2>4
<1>6. g = Step(g)
  BY <1>5, Zenon
<1>7. f = Step(f)
  <2> HIDE DEF Step, g, f
  <2>1. \E x : x = Step(x)
    BY <1>6, Zenon
  <2> QED
    BY <2>1, Zenon DEF f
<1>8. \A k \in 0 .. N : f[k] = At0(f, k)
  <2> HIDE DEF f
  <2> QED
    BY <1>7, Zenon
<1> HIDE DEF f, Step, g
<1> DEFINE H == {k \in 0 .. N : f[k] = IF k < n THEN w[k + 1] ELSE NullIndex}
<1>9. ASSUME NEW k \in 0 .. N, k # 0 => k - 1 \in H PROVE k \in H
  <2>1. k # 0 => k - 1 + 1 = k
    BY <1>2
  <2>2. k # 0 => f[k - 1] = IF k - 1 < n THEN w[k] ELSE NullIndex
    BY <1>9, <2>1
  <2>3. At0(f, k) = IF k < n THEN w[k + 1] ELSE NullIndex
    BY <1>4, <2>2
  <2> HIDE DEF At0
  <2> QED
    BY <1>8, <2>3
<1> HIDE DEF H, At0
<1>10. 0 \in H
  BY <1>2, <1>9
<1>11. ASSUME NEW k \in 0 .. N PROVE k \in H
  <2>1. \A m \in 1 .. k : m - 1 \in H => m \in H
    BY <1>2, <1>9
  <2>2. k \in Nat
    BY <1>2
  <2> QED
    BY <1>10, <2>1, <2>2, TurnsPass
<1> QED
  BY <1>1, <1>11 DEF H, N

LEMMA FreeListHolds ==
  ASSUME TableAssumption, ArenaSane(Arena)
  PROVE  FreeListExact
<1> DEFINE a    == Arena
           walk == FreeWalk(a)
           idle == {i \in Index : i < watermark /\ ~slot[i].live}
<1>1. a.slot = slot /\ a.watermark = watermark
  BY DEF Arena
<1> HIDE DEF a
<1>2. PICK n \in Nat : \E w : FreeChain(a, n, w)
  BY DEF ArenaSane, a
<1>3. PICK w : FreeChain(a, n, w)
  BY <1>2
<1>4. idle = Idle(a)
  BY <1>1 DEF Idle
<1> HIDE DEF idle
<1>5. \A k \in 0 .. Capacity : walk[k] = IF k < n THEN w[k + 1] ELSE NullIndex
  BY <1>3, FreeWalkIs DEF a
<1> HIDE DEF walk
<1>6. Capacity \in Nat /\ NullIndex \notin Index
  BY TableFacts
<1>7. Cardinality(idle) = n /\ n <= Capacity
  <2>1. w \in Bijection(1 .. n, Idle(a))
    BY <1>3 DEF FreeChain, Bijection, Injection, Surjection, IsInjective
  <2>2. IsFiniteSet(1 .. n) /\ Cardinality(1 .. n) = n
    <3>1. 1 \in Int /\ n \in Int
      OBVIOUS
    <3>2. IsFiniteSet(1 .. n) /\ Cardinality(1 .. n) = IF 1 > n THEN 0 ELSE n - 1 + 1
      BY <3>1, FS_Interval
    <3> QED
      BY <3>2
  <2>3. ExistsBijection(1 .. n, Idle(a))
    BY <2>1 DEF ExistsBijection
  <2>4. Cardinality(Idle(a)) = n /\ IsFiniteSet(Idle(a))
    BY <2>2, <2>3, FS_Bijection
  <2>5. IsFiniteSet(Index) /\ Cardinality(Index) = Capacity
    <3>1. 0 \in Int /\ Capacity - 1 \in Int
      BY <1>6
    <3>2. IsFiniteSet(Index) /\ Cardinality(Index) = IF 0 > Capacity - 1 THEN 0 ELSE Capacity - 1 - 0 + 1
      BY <3>1, FS_Interval DEF Index
    <3> QED
      BY <1>6, <3>2
  <2>6. Idle(a) \subseteq Index
    BY DEF Idle
  <2>7. Cardinality(Idle(a)) <= Cardinality(Index)
    BY <2>5, <2>6, FS_Subset
  <2> QED
    BY <1>4, <2>4, <2>5, <2>7
<1>8. walk[Cardinality(idle)] = NullIndex
  BY <1>5, <1>6, <1>7
<1>9. {walk[k] : k \in 0 .. Capacity} \ {NullIndex} = idle
  <2>1. ASSUME NEW k \in 0 .. Capacity, walk[k] # NullIndex PROVE walk[k] \in idle
    <3>1. k < n /\ walk[k] = w[k + 1] /\ k + 1 \in 1 .. n
      BY <1>5, <2>1
    <3> QED
      BY <1>3, <1>4, <3>1 DEF FreeChain
  <2>2. ASSUME NEW i \in idle PROVE \E k \in 0 .. Capacity : walk[k] = i /\ i # NullIndex
    <3>1. PICK k \in 1 .. n : w[k] = i
      BY <1>3, <1>4 DEF FreeChain
    <3>2. k - 1 \in 0 .. Capacity /\ k - 1 < n /\ k - 1 + 1 = k
      BY <1>6, <1>7
    <3>3. walk[k - 1] = i
      BY <1>5, <3>1, <3>2
    <3>4. i \in Index
      BY <1>4 DEF Idle
    <3> QED
      BY <1>6, <3>2, <3>3, <3>4
  <2> QED
    BY <2>1, <2>2
<1>10. \A i \in Index : i >= watermark => ~slot[i].live
  BY <1>1 DEF ArenaSane, a
<1> QED
  BY <1>8, <1>9, <1>10 DEF FreeListExact, walk, idle, a

----------------------------------------------------------------------------
(* The table and the arena together.                                       *)

(* An entry's handle is that of a live slot, which holds its reference.    *)
Lent(tab, a) ==
  \A e \in Entries(tab) :
    /\ a.slot[e.handle.index].live
    /\ a.slot[e.handle.index].ref = e.ref
    /\ a.slot[e.handle.index].gen = e.handle.gen

Sound(tab, a) == TableSound(tab) /\ ArenaSane(a) /\ Lent(tab, a)

LEMMA ListedIs ==
  ASSUME NEW tab, TableSound(tab)
  PROVE  /\ \A e \in Entries(tab) : e.ref \in Ref /\ e.handle.index \in Index /\ e.handle.gen \in Nat
         /\ \A d, e \in Entries(tab) : d.ref = e.ref => d = e
<1>1. ASSUME NEW e \in Entries(tab)
      PROVE  e.ref \in Ref /\ e.handle.index \in Index /\ e.handle.gen \in Nat
  <2>1. PICK p \in Full(tab) : e = tab[p]
    BY DEF Entries
  <2>2. p \in Positions /\ tab[p].ref # ZeroRef
    BY DEF Full
  <2> QED
    BY <2>1, <2>2 DEF TableSound, TableEntry
<1>2. ASSUME NEW d \in Entries(tab), NEW e \in Entries(tab), d.ref = e.ref PROVE d = e
  <2>1. PICK p \in Full(tab) : d = tab[p]
    BY DEF Entries
  <2>2. PICK q \in Full(tab) : e = tab[q]
    BY DEF Entries
  <2> QED
    BY <1>2, <2>1, <2>2 DEF TableSound
<1> QED
  BY <1>1, <1>2

(* Entries lend different slots, and there are fewer of these than of      *)
(* positions.                                                              *)
LEMMA Room ==
  ASSUME TableAssumption, NEW tab, NEW a, Sound(tab, a)
  PROVE  Full(tab) # Positions
<1> SUFFICES ASSUME Full(tab) = Positions PROVE FALSE
  OBVIOUS
<1>1. Capacity \in Nat /\ TableCap \in Nat /\ Capacity < TableCap /\ Capacity > 0
  BY TableFacts
<1> DEFINE f == [p \in Positions |-> tab[p].handle.index]
<1>2. f \in [Positions -> Index]
  BY DEF Sound, TableSound
<1>3. ASSUME NEW p \in Positions, NEW q \in Positions, f[p] = f[q] PROVE p = q
  <2>1. tab[p] \in Entries(tab) /\ tab[q] \in Entries(tab)
    BY DEF Entries
  <2>2. tab[p].handle.index = tab[q].handle.index
    BY <1>3
  <2>3. tab[p].ref = tab[q].ref
    BY <2>1, <2>2 DEF Sound, Lent
  <2> QED
    BY <2>3 DEF Sound, TableSound
<1>4. f \in Injection(Positions, Index)
  <2> HIDE DEF f
  <2> QED
    BY <1>2, <1>3 DEF Injection, IsInjective
<1>5. IsFiniteSet(Index) /\ Cardinality(Index) = Capacity
  <2>1. 0 \in Int /\ Capacity - 1 \in Int
    BY <1>1
  <2>2. IsFiniteSet(Index) /\ Cardinality(Index) = IF 0 > Capacity - 1 THEN 0 ELSE Capacity - 1 - 0 + 1
    BY <2>1, FS_Interval DEF Index
  <2> QED
    BY <1>1, <2>2
<1>6. Cardinality(Positions) = TableCap
  <2>1. 0 \in Int /\ TableCap - 1 \in Int
    BY <1>1
  <2>2. Cardinality(Positions) = IF 0 > TableCap - 1 THEN 0 ELSE TableCap - 1 - 0 + 1
    BY <2>1, FS_Interval DEF Positions
  <2> QED
    BY <1>1, <2>2
<1>7. Cardinality(Positions) <= Cardinality(Index)
  <2> HIDE DEF f
  <2> QED
    BY <1>4, <1>5, FS_Injection
<1> QED
  BY <1>1, <1>5, <1>6, <1>7

(* What Found answers, in terms of the entries.                            *)
LEMMA FoundIs ==
  ASSUME TableAssumption, home \in [Ref -> Homes], NEW tab, NEW a, Sound(tab, a), NEW r \in Ref
  PROVE  /\ Found(tab, r) # NoHandle =>
              \E e \in Entries(tab) : e.ref = r /\ e.handle = Found(tab, r)
                                     /\ FindSlot(tab, r) \in Full(tab) /\ tab[FindSlot(tab, r)] = e
         /\ \A e \in Entries(tab) : e.ref = r => Found(tab, r) = e.handle /\ Found(tab, r) # NoHandle
<1> DEFINE p == FindSlot(tab, r)
<1>1. /\ \A q \in Full(tab) : tab[q].ref = r => q = p
      /\ p \in Full(tab) => tab[p].ref = r /\ Found(tab, r) = tab[p].handle
      /\ p \in Full(tab) <=> Found(tab, r) # NoHandle
  <2>1. TableSound(tab) /\ Full(tab) # Positions
    BY Room DEF Sound
  <2> QED
    BY <2>1, FindIs
<1> HIDE DEF p
<1>2. ASSUME Found(tab, r) # NoHandle
      PROVE  \E e \in Entries(tab) : e.ref = r /\ e.handle = Found(tab, r)
                                    /\ p \in Full(tab) /\ tab[p] = e
  BY <1>1, <1>2 DEF Entries
<1>3. ASSUME NEW e \in Entries(tab), e.ref = r
      PROVE  Found(tab, r) = e.handle /\ Found(tab, r) # NoHandle
  <2>1. PICK q \in Full(tab) : e = tab[q]
    BY DEF Entries
  <2> QED
    BY <1>1, <1>3, <2>1
<1> QED
  BY <1>2, <1>3 DEF p

(* add, where it is not refused.                                           *)
LEMMA AddSound ==
  ASSUME TableAssumption, home \in [Ref -> Homes], NEW tab, NEW a, Sound(tab, a), NEW r \in Ref,
         Found(tab, r) = NoHandle, Acquired(a) # NullIndex
  PROVE  LET i == Acquired(a)
             e == [ref |-> r, handle |-> [index |-> i, gen |-> a.slot[i].gen]]
         IN  /\ Sound(Inserted(tab, a, r), AfterAcquire(a, r))
             /\ Entries(Inserted(tab, a, r)) = Entries(tab) \union {e}
             /\ i \in Index /\ \A d \in Entries(tab) : d.handle.index # i /\ d.ref # r
<1> DEFINE i == Acquired(a)
           g == a.slot[i].gen
           e == [ref |-> r, handle |-> [index |-> i, gen |-> g]]
           t == Inserted(tab, a, r)
           b == AfterAcquire(a, r)
<1>1. TableSound(tab) /\ ArenaSane(a) /\ Full(tab) # Positions
  BY Room DEF Sound
<1>2. /\ ArenaSane(b) /\ i \in Index /\ ~a.slot[i].live
      /\ b.slot[i].live /\ b.slot[i].ref = r /\ b.slot[i].gen = g /\ g \in Nat
      /\ \A j \in Index : j # i => b.slot[j] = a.slot[j]
  BY <1>1, AcquireSane
<1>3. t = [tab EXCEPT ![FindSlot(tab, r)] = e]
  BY DEF Inserted
<1>4. TableSound(t) /\ \A y : y \in Entries(t) <=> y \in Entries(tab) \/ y = e
  <2>1. e \in TableEntry /\ e.ref = r /\ e.handle.index \in Index
    BY <1>2 DEF TableEntry
  <2> HIDE DEF e, t
  <2>2. t = Placed(tab, e)
    BY <1>3, <2>1 DEF Placed
  <2> QED
    BY <1>1, <2>1, <2>2, InsertSound
<1>5. e.ref = r /\ e.handle.index = i /\ e.handle.gen = g
  OBVIOUS
<1> HIDE DEF i, g, e, t, b
<1>6. \A d \in Entries(tab) : d.handle.index # i /\ d.ref # r
  BY <1>2, FoundIs DEF Sound, Lent
<1>7. \A d \in Entries(tab) : d.handle.index \in Index
  BY <1>1, ListedIs
<1>8. Lent(t, b)
  <2> SUFFICES ASSUME NEW d \in Entries(t)
               PROVE  b.slot[d.handle.index].live /\ b.slot[d.handle.index].ref = d.ref
                      /\ b.slot[d.handle.index].gen = d.handle.gen
    BY DEF Lent
  <2>1. CASE d = e
    BY <1>2, <1>5, <2>1
  <2>2. CASE d \in Entries(tab)
    BY <1>2, <1>6, <1>7, <2>2 DEF Sound, Lent
  <2> QED
    BY <1>4, <2>1, <2>2
<1> QED
  BY <1>2, <1>4, <1>6, <1>8 DEF Sound, i, g, e, t, b

(* remove, of an order that rests.                                         *)
LEMMA RemoveSound ==
  ASSUME TableAssumption, home \in [Ref -> Homes], NEW tab, NEW a, Sound(tab, a), NEW r \in Ref,
         Found(tab, r) # NoHandle
  PROVE  LET h == Found(tab, r)
             t == Erased(tab, FindSlot(tab, r))
             b == AfterRelease(a, h.index)
         IN  /\ Sound(t, b) /\ h.index \in Index /\ Acquired(b) = h.index
             /\ \E e \in Entries(tab) :
                  /\ e.ref = r /\ e.handle = h
                  /\ Entries(t) = Entries(tab) \ {e}
<1> DEFINE h == Found(tab, r)
           p == FindSlot(tab, r)
           t == Erased(tab, p)
           i == h.index
           b == AfterRelease(a, i)
<1>1. TableSound(tab) /\ ArenaSane(a) /\ Full(tab) # Positions
  BY Room DEF Sound
<1>2. PICK e \in Entries(tab) : e.ref = r /\ e.handle = h /\ p \in Full(tab) /\ tab[p] = e
  BY FoundIs
<1>3. TableSound(t) /\ {t[x] : x \in Full(t)} = {tab[x] : x \in Full(tab) \ {p}}
  <2> HIDE DEF p
  <2> QED
    BY <1>1, <1>2, EraseSound
<1>4. i \in Index /\ a.slot[i].live /\ a.slot[i].ref = r
  BY <1>1, <1>2, ListedIs DEF Sound, Lent
<1>5. /\ ArenaSane(b) /\ Acquired(b) = i
      /\ \A j \in Index : j # i => b.slot[j] = a.slot[j]
  <2> HIDE DEF i
  <2> QED
    BY <1>1, <1>4, ReleaseSane
<1> HIDE DEF h, t, b, p
<1>6. Entries(t) = Entries(tab) \ {e}
  <2>1. \A x \in Full(tab) : x # p => tab[x] # e
    BY <1>1, <1>2 DEF TableSound
  <2>2. {tab[x] : x \in Full(tab) \ {p}} = {tab[x] : x \in Full(tab)} \ {e}
    BY <1>2, <2>1
  <2> QED
    BY <1>3, <2>2 DEF Entries
<1>7. \A d \in Entries(tab) : d # e => d.handle.index # i /\ d.handle.index \in Index
  <2>1. \A d \in Entries(tab) : d # e => d.ref # r
    BY <1>1, <1>2, ListedIs
  <2> QED
    BY <1>1, <1>4, <2>1, ListedIs DEF Sound, Lent
<1>8. Lent(t, b)
  BY <1>5, <1>6, <1>7 DEF Sound, Lent
<1>9. Sound(t, b)
  BY <1>3, <1>5, <1>8 DEF Sound
<1> QED
  BY <1>2, <1>4, <1>5, <1>6, <1>9 DEF h, t, b, p

----------------------------------------------------------------------------
(* Slots age.                                                              *)

(* A slot gave back the generations before its present one.                *)
Aged(a) ==
  /\ a.stale \in [Index -> SUBSET Nat]
  /\ \A i \in Index : a.stale[i] = 0 .. (a.slot[i].gen - 1) /\ a.slot[i].gen <= MaxReleases

LEMMA AcquireAged ==
  ASSUME TableAssumption, NEW a, ArenaSane(a), Aged(a), Acquired(a) # NullIndex, NEW r \in Ref
  PROVE  Aged(AfterAcquire(a, r))
<1> DEFINE b == AfterAcquire(a, r)
<1>1. b.stale = a.stale /\ \A i \in Index : b.slot[i].gen = a.slot[i].gen
  BY AcquireSane
<1> HIDE DEF b
<1> QED
  BY <1>1 DEF Aged, b

LEMMA ReleaseAged ==
  ASSUME TableAssumption, MaxReleases < GenSpan, NEW a, ArenaSane(a), Aged(a),
         NEW i \in Index, a.slot[i].live, Cardinality(a.stale[i]) < MaxReleases
  PROVE  Aged(AfterRelease(a, i))
<1> DEFINE b == AfterRelease(a, i)
           g == a.slot[i].gen
<1>1. /\ b.slot[i].gen = (g + 1) % GenSpan
      /\ \A j \in Index : j # i => b.slot[j] = a.slot[j]
      /\ b.stale = [a.stale EXCEPT ![i] = @ \union {g}]
  BY ReleaseSane
<1>2. g \in Nat /\ a.stale \in [Index -> SUBSET Nat] /\ a.stale[i] = 0 .. (g - 1)
  BY DEF ArenaSane, Cell, Aged
<1>3. GenSpan \in Nat /\ MaxReleases \in Nat
  BY TableFacts
<1> HIDE DEF b, g
<1>4. Cardinality(0 .. (g - 1)) = g
  <2>1. 0 \in Int /\ g - 1 \in Int
    BY <1>2
  <2>2. Cardinality(0 .. (g - 1)) = IF 0 > g - 1 THEN 0 ELSE g - 1 - 0 + 1
    BY <2>1, FS_Interval
  <2> QED
    BY <1>2, <2>2
<1>5. g + 1 <= MaxReleases /\ b.slot[i].gen = g + 1
  <2>1. g < MaxReleases
    BY <1>2, <1>4
  <2>2. g + 1 \in Nat /\ g + 1 < GenSpan
    BY <1>2, <1>3, <2>1
  <2>3. (g + 1) % GenSpan = g + 1
    BY <1>3, <2>2
  <2> QED
    BY <1>1, <1>2, <1>3, <2>1, <2>3
<1>6. b.stale \in [Index -> SUBSET Nat] /\ b.stale[i] = 0 .. g
  <2>1. 0 .. (g - 1) \union {g} = 0 .. g
    BY <1>2
  <2> QED
    BY <1>1, <1>2, <2>1, ZenonT(30)
<1>7. \A j \in Index : j # i => b.stale[j] = a.stale[j]
  BY <1>1, <1>2
<1>8. b.slot[i].gen - 1 = g
  BY <1>2, <1>5
<1>9. Aged(b)
  <2>1. b.stale[i] = 0 .. (b.slot[i].gen - 1) /\ b.slot[i].gen <= MaxReleases
    BY <1>5, <1>6, <1>8, Zenon
  <2>2. \A j \in Index : j # i =>
          b.stale[j] = 0 .. (b.slot[j].gen - 1) /\ b.slot[j].gen <= MaxReleases
    BY <1>1, <1>7 DEF Aged
  <2> QED
    BY <1>6, <2>1, <2>2 DEF Aged
<1> QED
  BY <1>9 DEF b

LEMMA NoReuseHolds ==
  ASSUME TableAssumption, ArenaSane(Arena), Aged(Arena)
  PROVE  NoReuse
<1> SUFFICES ASSUME NEW i \in Index, NEW g \in stale[i], Valid(Arena, [index |-> i, gen |-> g])
             PROVE  FALSE
  BY DEF NoReuse
<1>1. Arena.slot = slot /\ Arena.stale = stale
  BY DEF Arena
<1>2. slot[i].gen = g /\ stale[i] = 0 .. (g - 1) /\ slot[i].gen \in Nat
  BY <1>1 DEF Aged, Valid, ArenaSane, Cell
<1> QED
  BY <1>2

----------------------------------------------------------------------------
(* The steps.                                                              *)

RefInv == home \in [Ref -> Homes] /\ Sound(entry, Arena)

LEMMA Becomes ==
  ASSUME home \in [Ref -> Homes], NEW tab, NEW n, NEW a, Become(tab, n, a)
  PROVE  /\ Sound(tab, a) => RefInv'
         /\ Aged(a) => Aged(Arena)'
         /\ entry' = tab
<1>1. /\ entry' = tab /\ home' = home
      /\ Arena'.slot = a.slot /\ Arena'.freeHead = a.freeHead
      /\ Arena'.watermark = a.watermark /\ Arena'.stale = a.stale
  BY DEF Become, Arena
<1>2. ASSUME Sound(tab, a) PROVE RefInv'
  <2>1. TableSound(entry)'
    BY <1>1, <1>2 DEF Sound, TableSound, Full, Passes, Dist
  <2>2. ArenaSane(Arena)'
    <3>1. PICK k \in Nat : \E w : FreeChain(a, k, w)
      BY <1>2 DEF Sound, ArenaSane
    <3>2. PICK w : FreeChain(a, k, w)
      BY <3>1
    <3>3. FreeChain(Arena', k, w)
      BY <1>1, <3>2 DEF FreeChain, Idle
    <3>4. /\ Arena'.slot \in [Index -> Cell] /\ Arena'.watermark \in 0 .. Capacity
          /\ \A i \in Index : i >= Arena'.watermark => ~Arena'.slot[i].live
      BY <1>1, <1>2 DEF Sound, ArenaSane
    <3> QED
      BY <3>3, <3>4 DEF ArenaSane
  <2>3. Lent(entry, Arena)'
    BY <1>1, <1>2 DEF Sound, Lent, Entries, Full
  <2> QED
    BY <1>1, <2>1, <2>2, <2>3 DEF RefInv, Sound
<1>3. ASSUME Aged(a) PROVE Aged(Arena)'
  BY <1>1, <1>3 DEF Aged
<1> QED
  BY <1>1, <1>2, <1>3

LEMMA RefInit ==
  ASSUME TableAssumption, TableInit
  PROVE  RefInv /\ Aged(Arena) /\ Entries(entry) = {}
<1>1. entry \in [Positions -> TableEntry] /\ Full(entry) = {}
  BY DEF TableInit, Full, TableEntry, EmptyEntry, NoHandle
<1>2. \A p \in Positions : entry[p] = EmptyEntry
  BY DEF TableInit
<1>3. TableSound(entry)
  BY <1>1, <1>2 DEF TableSound
<1>4. Entries(entry) = {}
  BY <1>1 DEF Entries
<1>5. /\ Arena.slot = [i \in Index |-> Unbuilt] /\ Arena.freeHead = NullIndex
      /\ Arena.watermark = 0 /\ Arena.stale = [i \in Index |-> {}]
  BY DEF TableInit, Arena
<1>6. ArenaSane(Arena)
  <2>1. Arena.slot \in [Index -> Cell] /\ \A i \in Index : ~Arena.slot[i].live
    BY <1>5 DEF Unbuilt, Cell
  <2>2. Arena.watermark \in 0 .. Capacity /\ Idle(Arena) = {}
    BY <1>5, TableFacts DEF Idle, Index
  <2> DEFINE w == [k \in 1 .. 0 |-> NullIndex]
  <2>3. w \in [1 .. 0 -> Index]
    OBVIOUS
  <2> HIDE DEF w
  <2>4. FreeChain(Arena, 0, w)
    BY <1>5, <2>2, <2>3 DEF FreeChain
  <2>5. \E n \in Nat : \E v : FreeChain(Arena, n, v)
    BY <2>4
  <2> QED
    BY <2>1, <2>2, <2>5 DEF ArenaSane
<1>7. Aged(Arena)
  <2>1. \A i \in Index : Arena.slot[i].gen = 0 /\ Arena.stale[i] = {}
    BY <1>5 DEF Unbuilt
  <2>2. Arena.stale \in [Index -> SUBSET Nat]
    BY <1>5
  <2>3. 0 .. (0 - 1) = {} /\ 0 <= MaxReleases
    BY TableFacts
  <2> QED
    BY <2>1, <2>2, <2>3 DEF Aged
<1> QED
  BY <1>3, <1>4, <1>6, <1>7 DEF RefInv, Sound, Lent, TableInit

(* What a step does to the entries.                                        *)
Grows(L, M) ==
  \E e : /\ e.ref \in Ref /\ e.handle.index \in Index
         /\ \A d \in L : d.ref # e.ref /\ d.handle.index # e.handle.index
         /\ M = L \union {e}

Shrinks(L, M) == \E e \in L : M = L \ {e}

Swaps(L, M) ==
  \E e \in L : \E f : /\ f.ref \in Ref /\ f.handle.index = e.handle.index
                      /\ \A d \in L \ {e} : d.ref # f.ref
                      /\ M = (L \ {e}) \union {f}

Moved ==
  /\ RefInv'
  /\ MaxReleases < GenSpan /\ Aged(Arena) => Aged(Arena)'
  /\ \/ Grows(Entries(entry), Entries(entry'))
     \/ Shrinks(Entries(entry), Entries(entry'))
     \/ Swaps(Entries(entry), Entries(entry'))

LEMMA AddMoves ==
  ASSUME TableAssumption, RefInv, NEW r \in Ref, Add(r)
  PROVE  UNCHANGED tableVars \/ Moved
<1> SUFFICES ASSUME ~UNCHANGED tableVars PROVE Moved
  OBVIOUS
<1> DEFINE a == Arena
           i == Acquired(a)
           e == [ref |-> r, handle |-> [index |-> i, gen |-> a.slot[i].gen]]
           t == Inserted(entry, a, r)
           b == AfterAcquire(a, r)
<1>1. /\ Found(entry, r) = NoHandle /\ i # NullIndex /\ Become(t, size + 1, b)
      /\ home \in [Ref -> Homes] /\ Sound(entry, a)
  BY DEF Add, RefInv
<1>2. /\ Sound(t, b) /\ Entries(t) = Entries(entry) \union {e}
      /\ i \in Index /\ \A d \in Entries(entry) : d.handle.index # i /\ d.ref # r
  <2> HIDE DEF a
  <2> QED
    BY <1>1, AddSound
<1>3. Aged(a) => Aged(b)
  BY <1>1, AcquireAged DEF Sound
<1>4. e.ref = r /\ e.handle.index = i
  OBVIOUS
<1> HIDE DEF i, e, t, b
<1>5. RefInv' /\ (Aged(a) => Aged(Arena)') /\ entry' = t
  BY <1>1, <1>2, <1>3, Becomes
<1>6. Grows(Entries(entry), Entries(entry'))
  BY <1>2, <1>4, <1>5 DEF Grows
<1> QED
  BY <1>5, <1>6 DEF Moved

LEMMA RemoveMoves ==
  ASSUME TableAssumption, RefInv, NEW r \in Ref, Remove(r)
  PROVE  UNCHANGED tableVars \/ Moved
<1> SUFFICES ASSUME ~UNCHANGED tableVars PROVE Moved
  OBVIOUS
<1> DEFINE a == Arena
           h == Found(entry, r)
           t == Erased(entry, FindSlot(entry, r))
           i == h.index
           b == AfterRelease(a, i)
<1>1. /\ h # NoHandle /\ Become(t, size - 1, b) /\ Cardinality(a.stale[i]) < MaxReleases
      /\ home \in [Ref -> Homes] /\ Sound(entry, a)
  BY DEF Remove, RefInv, Arena
<1>2. /\ Sound(t, b) /\ i \in Index
      /\ \E e \in Entries(entry) :
           e.ref = r /\ e.handle = h /\ Entries(t) = Entries(entry) \ {e}
  <2> HIDE DEF a
  <2> QED
    BY <1>1, RemoveSound
<1> HIDE DEF h, t, a
<1>3. a.slot[i].live
  BY <1>1, <1>2 DEF Sound, Lent
<1>4. MaxReleases < GenSpan /\ Aged(a) => Aged(b)
  <2> HIDE DEF i
  <2> QED
    BY <1>1, <1>2, <1>3, ReleaseAged DEF Sound
<1> HIDE DEF b
<1>5. RefInv' /\ (Aged(b) => Aged(Arena)') /\ entry' = t
  BY <1>1, <1>2, Becomes
<1>6. Shrinks(Entries(entry), Entries(entry'))
  BY <1>2, <1>5 DEF Shrinks
<1> QED
  BY <1>4, <1>5, <1>6 DEF Moved, a

(* The slot the old order gives back is the one the new order takes.       *)
LEMMA ReplaceMoves ==
  ASSUME TableAssumption, RefInv, NEW r \in Ref, NEW n \in Ref, Replace(r, n)
  PROVE  UNCHANGED tableVars \/ Moved
<1> SUFFICES ASSUME ~UNCHANGED tableVars PROVE Moved
  OBVIOUS
<1> DEFINE c == Arena
           h == Found(entry, r)
           s == Erased(entry, FindSlot(entry, r))
           i == h.index
           a == AfterRelease(c, i)
           f == [ref |-> n, handle |-> [index |-> i, gen |-> a.slot[i].gen]]
           t == Inserted(s, a, n)
           b == AfterAcquire(a, n)
<1>1. /\ h # NoHandle /\ (r # n => Found(entry, n) = NoHandle)
      /\ Become(t, size, b) /\ Cardinality(c.stale[i]) < MaxReleases
      /\ home \in [Ref -> Homes] /\ Sound(entry, c)
  BY DEF Replace, RefInv, Arena
<1>2. /\ Sound(s, a) /\ i \in Index /\ Acquired(a) = i
      /\ \E e \in Entries(entry) :
           e.ref = r /\ e.handle = h /\ Entries(s) = Entries(entry) \ {e}
  <2> HIDE DEF c
  <2> QED
    BY <1>1, RemoveSound
<1> HIDE DEF h, s, a, c
<1>3. PICK e \in Entries(entry) : e.ref = r /\ e.handle = h /\ Entries(s) = Entries(entry) \ {e}
  BY <1>2
<1>4. Found(s, n) = NoHandle
  <2> SUFFICES ASSUME Found(s, n) # NoHandle PROVE FALSE
    OBVIOUS
  <2>1. PICK d \in Entries(s) : d.ref = n
    BY <1>1, <1>2, FoundIs
  <2>2. d \in Entries(entry) /\ d # e
    BY <1>3, <2>1
  <2>3. r # n
    BY <1>1, <1>3, <2>1, <2>2, ListedIs DEF Sound
  <2>4. Found(entry, n) # NoHandle
    BY <1>1, <2>1, <2>2, FoundIs
  <2> QED
    BY <1>1, <2>3, <2>4
<1>5. i # NullIndex
  BY <1>2, TableFacts
<1>6. /\ Sound(t, b) /\ Entries(t) = Entries(s) \union {f}
      /\ \A d \in Entries(s) : d.ref # n
  <2> HIDE DEF i
  <2>1. LET j == Acquired(a)
            g == [ref |-> n, handle |-> [index |-> j, gen |-> a.slot[j].gen]]
        IN  /\ Sound(t, b) /\ Entries(t) = Entries(s) \union {g}
            /\ \A d \in Entries(s) : d.handle.index # j /\ d.ref # n
    BY <1>1, <1>2, <1>4, <1>5, AddSound
  <2> HIDE DEF t, b
  <2> QED
    BY <1>2, <2>1
<1>7. MaxReleases < GenSpan /\ Aged(c) => Aged(b)
  <2>1. c.slot[i].live
    BY <1>1, <1>2, <1>3 DEF Sound, Lent
  <2> HIDE DEF i
  <2>2. MaxReleases < GenSpan /\ Aged(c) => Aged(a)
    BY <1>1, <1>2, <2>1, ReleaseAged DEF Sound, a
  <2> QED
    BY <1>2, <1>5, <2>2, AcquireAged DEF Sound
<1>8. f.ref = n /\ f.handle.index = e.handle.index
  BY <1>3
<1> HIDE DEF f, t, b, i
<1>9. RefInv' /\ (Aged(b) => Aged(Arena)') /\ entry' = t
  BY <1>1, <1>6, Becomes
<1>10. Swaps(Entries(entry), Entries(entry'))
  <2>1. /\ f.ref \in Ref /\ Entries(entry') = (Entries(entry) \ {e}) \union {f}
        /\ \A d \in Entries(entry) \ {e} : d.ref # f.ref
    BY <1>3, <1>6, <1>8, <1>9
  <2> QED
    BY <1>8, <2>1 DEF Swaps
<1> QED
  BY <1>7, <1>9, <1>10 DEF Moved, c

LEMMA NextMoves ==
  ASSUME TableAssumption, RefInv, TableNext
  PROVE  UNCHANGED tableVars \/ Moved
BY AddMoves, RemoveMoves, ReplaceMoves DEF TableNext

LEMMA RefStays ==
  ASSUME RefInv, UNCHANGED tableVars
  PROVE  RefInv' /\ (Aged(Arena) => Aged(Arena)')
<1>1. Become(entry, size, Arena)
  BY DEF Become, Arena, tableVars
<1> QED
  BY <1>1, Becomes DEF RefInv

(* The table finds every order where the arena keeps it.                   *)
THEOREM TableHolds == TableAssumption /\ TableSpec => []RefInv
<1> SUFFICES ASSUME TableAssumption PROVE TableSpec => []RefInv
  OBVIOUS
<1>1. TableInit => RefInv
  BY RefInit
<1>2. RefInv /\ [TableNext]_tableVars => RefInv'
  BY NextMoves, RefStays DEF Moved
<1> QED
  BY <1>1, <1>2, PTL DEF TableSpec

(* The free list holds the idle slots, each once, and a handle taken       *)
(* before its slot was released validates no more (Arena.hpp:1-2, 70-84),  *)
(* while fewer releases than generations hit a slot.                       *)
THEOREM ArenaHolds == TableAssumption /\ MaxReleases < GenSpan /\ TableSpec => []ArenaSound
<1> SUFFICES ASSUME TableAssumption, MaxReleases < GenSpan PROVE TableSpec => []ArenaSound
  OBVIOUS
<1> DEFINE Inv == RefInv /\ Aged(Arena)
<1>1. TableInit => Inv
  BY RefInit
<1>2. Inv /\ [TableNext]_tableVars => Inv'
  BY NextMoves, RefStays DEF Moved
<1>3. Inv => ArenaSound
  BY FreeListHolds, NoReuseHolds DEF ArenaSound, RefInv, Sound
<1> QED
  BY <1>1, <1>2, <1>3, PTL DEF TableSpec

----------------------------------------------------------------------------
(* The table as a map.                                                     *)

AtOf(L) == [r \in {e.ref : e \in L} |-> (CHOOSE e \in L : e.ref = r).handle.index]

Unique(L) == \A d, e \in L : d.ref = e.ref => d = e

Slotted == [r \in {x \in Ref : Found(entry, x) # NoHandle} |-> Found(entry, r).index]

LEMMA AtFacts ==
  ASSUME NEW L, Unique(L)
  PROVE  /\ DOMAIN AtOf(L) = {e.ref : e \in L}
         /\ \A e \in L : AtOf(L)[e.ref] = e.handle.index
         /\ AtOf(L) = [x \in DOMAIN AtOf(L) |-> AtOf(L)[x]]
<1>1. ASSUME NEW e \in L PROVE AtOf(L)[e.ref] = e.handle.index
  <2>1. e.ref \in {d.ref : d \in L}
    OBVIOUS
  <2>2. (CHOOSE d \in L : d.ref = e.ref) = e
    BY DEF Unique
  <2> QED
    BY <2>1, <2>2 DEF AtOf
<1> QED
  BY <1>1 DEF AtOf

LEMMA SlottedIs ==
  ASSUME TableAssumption, RefInv
  PROVE  Slotted = AtOf(Entries(entry)) /\ Unique(Entries(entry))
<1> DEFINE L == Entries(entry)
           D == {x \in Ref : Found(entry, x) # NoHandle}
<1>1. Unique(L) /\ \A e \in L : e.ref \in Ref
  BY ListedIs DEF RefInv, Sound, Unique
<1>2. ASSUME NEW e \in L PROVE e.ref \in D /\ Found(entry, e.ref).index = e.handle.index
  <2>1. home \in [Ref -> Homes] /\ Sound(entry, Arena) /\ e.ref \in Ref
    BY <1>1 DEF RefInv
  <2> QED
    BY <2>1, FoundIs
<1>3. ASSUME NEW x \in D PROVE \E e \in L : e.ref = x
  BY FoundIs DEF RefInv
<1> HIDE DEF L
<1>4. D = {e.ref : e \in L}
  BY <1>1, <1>2, <1>3
<1>5. \A x \in D : Found(entry, x).index = AtOf(L)[x]
  <2>1. \A e \in L : AtOf(L)[e.ref] = e.handle.index
    BY <1>1, AtFacts
  <2> HIDE DEF D
  <2> QED
    BY <1>2, <1>3, <2>1
<1>6. Slotted = [x \in D |-> Found(entry, x).index]
  BY DEF Slotted
<1>7. AtOf(L) = [x \in {e.ref : e \in L} |-> AtOf(L)[x]]
  BY <1>1, AtFacts
<1> HIDE DEF D
<1>8. Slotted = AtOf(L)
  BY <1>4, <1>5, <1>6, <1>7
<1> QED
  BY <1>1, <1>8 DEF L

With(f, r, h) == [x \in DOMAIN f \union {r} |-> IF x = r THEN h ELSE f[x]]

LEMMA GrowthMaps ==
  ASSUME NEW L, NEW e, Unique(L), Unique(L \union {e}), \A d \in L : d.ref # e.ref
  PROVE  /\ e.ref \notin DOMAIN AtOf(L)
         /\ (\A d \in L : d.handle.index # e.handle.index) =>
              e.handle.index \notin {AtOf(L)[x] : x \in DOMAIN AtOf(L)}
         /\ AtOf(L \union {e}) = With(AtOf(L), e.ref, e.handle.index)
<1> DEFINE M == L \union {e}
<1>0. Unique(L) /\ Unique(M)
  OBVIOUS
<1>1. /\ DOMAIN AtOf(L) = {d.ref : d \in L} /\ DOMAIN AtOf(M) = {d.ref : d \in M}
      /\ \A d \in L : AtOf(L)[d.ref] = d.handle.index
      /\ \A d \in M : AtOf(M)[d.ref] = d.handle.index
      /\ AtOf(M) = [x \in DOMAIN AtOf(M) |-> AtOf(M)[x]]
  <2> HIDE DEF M
  <2> QED
    BY <1>0, AtFacts
<1> DEFINE f == AtOf(L)
           g == AtOf(M)
<1>2. \A d \in M : d \in L \/ d = e
  OBVIOUS
<1>3. ASSUME NEW d \in M PROVE g[d.ref] = IF d.ref = e.ref THEN e.handle.index ELSE f[d.ref]
  BY <1>1, <1>2
<1>4. {d.ref : d \in M} = {d.ref : d \in L} \union {e.ref}
  OBVIOUS
<1> HIDE DEF f, g, M
<1>5. \A x \in DOMAIN g : g[x] = IF x = e.ref THEN e.handle.index ELSE f[x]
  <2> SUFFICES ASSUME NEW x \in DOMAIN g PROVE g[x] = IF x = e.ref THEN e.handle.index ELSE f[x]
    OBVIOUS
  <2>1. PICK d \in M : x = d.ref
    BY <1>1 DEF g
  <2> QED
    BY <1>3, <2>1
<1>6. DOMAIN g = DOMAIN f \union {e.ref} /\ g = [x \in DOMAIN g |-> g[x]]
  BY <1>1, <1>4 DEF f, g
<1>7. g = [x \in DOMAIN f \union {e.ref} |-> IF x = e.ref THEN e.handle.index ELSE f[x]]
  BY <1>5, <1>6
<1>8. e.ref \notin DOMAIN f
  BY <1>1 DEF f
<1>9. (\A d \in L : d.handle.index # e.handle.index) =>
        e.handle.index \notin {f[x] : x \in DOMAIN f}
  <2> SUFFICES ASSUME \A d \in L : d.handle.index # e.handle.index,
                      NEW x \in DOMAIN f, f[x] = e.handle.index
               PROVE  FALSE
    OBVIOUS
  <2>1. PICK d \in L : x = d.ref
    BY <1>1 DEF f
  <2> QED
    BY <1>1, <2>1 DEF f
<1> QED
  BY <1>7, <1>8, <1>9 DEF f, g, M, With

LEMMA ShrinkMaps ==
  ASSUME NEW L, Unique(L), NEW e \in L
  PROVE  /\ e.ref \in DOMAIN AtOf(L) /\ Unique(L \ {e})
         /\ AtOf(L \ {e}) = [x \in DOMAIN AtOf(L) \ {e.ref} |-> AtOf(L)[x]]
<1> DEFINE M == L \ {e}
<1>1. Unique(M) /\ M \subseteq L
  BY DEF Unique
<1>2. /\ DOMAIN AtOf(L) = {d.ref : d \in L} /\ DOMAIN AtOf(M) = {d.ref : d \in M}
      /\ \A d \in L : AtOf(L)[d.ref] = d.handle.index
      /\ \A d \in M : AtOf(M)[d.ref] = d.handle.index
      /\ AtOf(M) = [x \in DOMAIN AtOf(M) |-> AtOf(M)[x]]
  <2> HIDE DEF M
  <2> QED
    BY <1>1, AtFacts
<1>3. {d.ref : d \in M} = {d.ref : d \in L} \ {e.ref}
  BY DEF Unique
<1> HIDE DEF M
<1>4. \A x \in DOMAIN AtOf(M) : AtOf(M)[x] = AtOf(L)[x]
  BY <1>1, <1>2
<1>5. DOMAIN AtOf(M) = DOMAIN AtOf(L) \ {e.ref}
  BY <1>2, <1>3
<1>6. AtOf(M) = [x \in DOMAIN AtOf(L) \ {e.ref} |-> AtOf(L)[x]]
  BY <1>2, <1>4, <1>5
<1> QED
  BY <1>1, <1>2, <1>6 DEF M

MapsTo == Slotted = AtOf(Entries(entry)) /\ Unique(Entries(entry))

LEMMA MovesMap ==
  ASSUME TableAssumption, MapsTo, MapsTo', Moved
  PROVE  Map!Steps
<1> DEFINE L == Entries(entry)
           M == Entries(entry')
           f == AtOf(L)
           g == AtOf(M)
<1>1. /\ Slotted = f /\ Unique(L) /\ Unique(M)
      /\ Slotted' = g
  BY DEF MapsTo, Entries, Full
<1>2. Grows(L, M) \/ Shrinks(L, M) \/ Swaps(L, M)
  BY DEF Moved
<1> HIDE DEF L, M
<1>3. CASE Grows(L, M)
  <2>1. PICK e : /\ e.ref \in Ref /\ e.handle.index \in Index
                 /\ \A d \in L : d.ref # e.ref /\ d.handle.index # e.handle.index
                 /\ M = L \union {e}
    BY <1>3 DEF Grows
  <2> DEFINE k == AtOf(L \union {e})
  <2>2. /\ e.ref \notin DOMAIN f /\ e.handle.index \notin {f[x] : x \in DOMAIN f}
        /\ k = With(f, e.ref, e.handle.index)
    <3>1. Unique(L \union {e})
      BY <1>1, <2>1
    <3>2. Unique(L) /\ \A d \in L : d.ref # e.ref
      BY <1>1, <2>1
    <3>3. (\A d \in L : d.handle.index # e.handle.index) =>
            e.handle.index \notin {f[x] : x \in DOMAIN f}
      BY <3>1, <3>2, GrowthMaps
    <3>4. e.ref \notin DOMAIN f
      BY <3>1, <3>2, GrowthMaps
    <3>5. k = With(f, e.ref, e.handle.index)
      BY <3>1, <3>2, GrowthMaps
    <3> HIDE DEF f, k
    <3> QED
      BY <2>1, <3>3, <3>4, <3>5
  <2>3. g = k
    BY <2>1
  <2> HIDE DEF k, f, g
  <2>4. \E r \in Ref \ DOMAIN Slotted, h \in Index \ {Slotted[x] : x \in DOMAIN Slotted} :
          Slotted' = [x \in DOMAIN Slotted \union {r} |-> IF x = r THEN h ELSE Slotted[x]]
    BY <1>1, <2>1, <2>2, <2>3 DEF With
  <2>5. Map!Add
    BY <2>4 DEF Map!Add, Map!Used, Slotted
  <2> QED
    BY <2>5 DEF Map!Steps
<1>4. CASE Shrinks(L, M)
  <2>1. PICK e \in L : M = L \ {e}
    BY <1>4 DEF Shrinks
  <2>2. e.ref \in DOMAIN f /\ g = [x \in DOMAIN f \ {e.ref} |-> f[x]]
    BY <1>1, <2>1, ShrinkMaps
  <2> HIDE DEF f, g
  <2>3. \E r \in DOMAIN Slotted : Slotted' = [x \in DOMAIN Slotted \ {r} |-> Slotted[x]]
    BY <1>1, <2>2
  <2>4. Map!Remove
    BY <2>3 DEF Map!Remove, Slotted
  <2> QED
    BY <2>4 DEF Map!Steps
<1>5. CASE Swaps(L, M)
  <2>1. PICK e \in L : \E n : /\ n.ref \in Ref /\ n.handle.index = e.handle.index
                              /\ \A d \in L \ {e} : d.ref # n.ref
                              /\ M = (L \ {e}) \union {n}
    BY <1>5 DEF Swaps
  <2>2. PICK n : /\ n.ref \in Ref /\ n.handle.index = e.handle.index
                 /\ \A d \in L \ {e} : d.ref # n.ref
                 /\ M = (L \ {e}) \union {n}
    BY <2>1
  <2> DEFINE K == L \ {e}
             b == AtOf(K)
             k == AtOf(K \union {n})
  <2>3. e.ref \in DOMAIN f /\ Unique(K) /\ b = [x \in DOMAIN f \ {e.ref} |-> f[x]]
    BY <1>1, ShrinkMaps
  <2>4. M = K \union {n} /\ \A d \in K : d.ref # n.ref
    BY <2>2
  <2> HIDE DEF K
  <2>5. /\ n.ref \notin DOMAIN b
        /\ k = With(b, n.ref, n.handle.index)
    <3>1. Unique(K \union {n})
      BY <1>1, <2>4
    <3> QED
      BY <2>3, <2>4, <3>1, GrowthMaps
  <2>6. g = k
    BY <2>4
  <2>7. f[e.ref] = n.handle.index
    BY <1>1, <2>2, AtFacts
  <2> HIDE DEF f, g, b, k
  <2> DEFINE r == e.ref
             m == n.ref
             h == n.handle.index
  <2>8. r \in DOMAIN f /\ m \in Ref /\ f[r] = h
    BY <2>2, <2>3, <2>7
  <2> HIDE DEF r, m, h
  <2>9. m \in (Ref \ DOMAIN f) \union {r}
    BY <2>3, <2>5, <2>8 DEF r, m
  <2>10. g = [x \in (DOMAIN f \ {r}) \union {m} |-> IF x = m THEN h ELSE f[x]]
    <3>1. DOMAIN b = DOMAIN f \ {r} /\ \A x \in DOMAIN b : b[x] = f[x]
      BY <2>3 DEF r
    <3>2. g = [x \in DOMAIN b \union {m} |-> IF x = m THEN h ELSE b[x]]
      BY <2>5, <2>6 DEF m, h, With
    <3> QED
      BY <3>1, <3>2
  <2>11. Map!Swap
    <3> DEFINE InUse == {f[x] : x \in DOMAIN f}
    <3>1. h \in (Index \ InUse) \union {f[r]}
      BY <2>8
    <3>2. \E x \in DOMAIN f : \E y \in (Ref \ DOMAIN f) \union {x} :
            \E z \in (Index \ InUse) \union {f[x]} :
              g = [q \in (DOMAIN f \ {x}) \union {y} |-> IF q = y THEN z ELSE f[q]]
      BY <2>8, <2>9, <2>10, <3>1, Zenon
    <3>3. \E x \in DOMAIN Slotted : \E y \in (Ref \ DOMAIN Slotted) \union {x} :
            \E z \in (Index \ {Slotted[q] : q \in DOMAIN Slotted}) \union {Slotted[x]} :
              Slotted' = [q \in (DOMAIN Slotted \ {x}) \union {y} |-> IF q = y THEN z ELSE Slotted[q]]
      BY <1>1, <3>2
    <3> QED
      BY <3>3 DEF Map!Swap, Map!Used, Slotted
  <2> QED
    BY <2>11 DEF Map!Steps
<1> QED
  BY <1>2, <1>3, <1>4, <1>5

(* The id table and the arena implement a map from references to distinct  *)
(* slots: what the book takes them for.                                    *)
THEOREM TableImplements == TableAssumption /\ TableSpec => ImplementsRefMap
<1> SUFFICES ASSUME TableAssumption PROVE TableSpec => ImplementsRefMap
  OBVIOUS
<1>1. TableSpec => []RefInv
  BY TableHolds
<1>2. RefInv => MapsTo
  BY SlottedIs DEF MapsTo
<1>3. TableInit => Map!Init
  <2>1. TableInit => RefInv /\ Entries(entry) = {}
    BY RefInit
  <2> SUFFICES ASSUME TableInit PROVE Map!Init
    OBVIOUS
  <2>2. Slotted = AtOf({})
    BY <1>2, <2>1 DEF MapsTo
  <2>3. AtOf({}) = [r \in {} |-> r]
    BY DEF AtOf
  <2> QED
    BY <2>2, <2>3 DEF Map!Init, Slotted
<1>4. RefInv /\ MapsTo /\ MapsTo' /\ [TableNext]_tableVars => [Map!Steps]_Slotted
  <2>1. ASSUME UNCHANGED tableVars PROVE Slotted' = Slotted
    BY <2>1 DEF tableVars, Slotted, Found, FindSlot, StopsAt
  <2> QED
    BY <2>1, NextMoves, MovesMap
<1> QED
  BY <1>1, <1>2, <1>3, <1>4, PTL DEF TableSpec, ImplementsRefMap, Map!Spec, Slotted

=============================================================================
