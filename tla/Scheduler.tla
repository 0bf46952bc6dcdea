------------------------------ MODULE Scheduler ------------------------------
(***************************************************************************)
(* The heap engine of include/mog/Scheduler.hpp: a binary heap of entries  *)
(* over slots that know their heap position, so that cancelling needs no   *)
(* search.  Heap position 0 of the code is position 1 here.  The free list *)
(* of slots, intrusive in the code, is a sequence with its head first.     *)
(***************************************************************************)
EXTENDS Integers, FiniteSets, Sequences

CONSTANTS
  EventTime, (* timestamps                                                 *)
  EventCap,  (* capacity_: slots                                           *)
  MaxSeq,    (* bound on the pushes between two clears                     *)
  MaxGen,    (* bound on a slot's generation                               *)
  MaxFree    (* bound on the slots given back and not reused               *)

SchedulerAssumption ==
  /\ EventTime \subseteq Nat /\ EventCap \in Nat \ {0} /\ MaxSeq \in Nat /\ MaxGen \in Nat
  /\ MaxFree \in Nat

VARIABLES
  heap,       (* heap_: entries [ts, seq, slot]                            *)
  eventSlot,  (* slots_: [seq, gen, pos, live]                             *)
  free,       (* the free list                                             *)
  highWater,  (* watermark_: slots below it have been constructed          *)
  nextSeq,    (* next_seq_                                                 *)
  issued,     (* history: every handle push returned                       *)
  popped      (* history: the last pop, or <<>> after a clear              *)

schedVars == <<heap, eventSlot, free, highWater, nextSeq, issued, popped>>

EventSlots == 0 .. (EventCap - 1)
NewSlot == [seq |-> 0, gen |-> 0, pos |-> 1, live |-> FALSE]

SchedInit ==
  /\ heap = <<>>
  /\ eventSlot = [i \in EventSlots |-> NewSlot]
  /\ free = <<>>
  /\ highWater = 0
  /\ nextSeq = 0
  /\ issued = {}
  /\ popped = <<>>

----------------------------------------------------------------------------
(* Heap maintenance on a heap value h.  Operators named Mut... are         *)
(* mistakes one could make in the definition that follows; nothing uses    *)
(* them.                                                                   *)

EntryLess(x, y) == x.ts < y.ts \/ (x.ts = y.ts /\ x.seq < y.seq)

Parent(i) == i \div 2

Swapped(h, i, j) == [h EXCEPT ![i] = h[j], ![j] = h[i]]

(* A turn of the loop of sift_up, and the loop.                            *)
UpTurn(p) ==
  IF p.at > 1 /\ EntryLess(p.heap[p.at], p.heap[Parent(p.at)])
  THEN [heap |-> Swapped(p.heap, p.at, Parent(p.at)), at |-> Parent(p.at)]
  ELSE p

SiftUp(h, i) ==
  LET turn[n \in 0 .. Len(h)] ==
        IF n = 0 THEN [heap |-> h, at |-> i] ELSE UpTurn(turn[n - 1])
  IN  turn[Len(h)].heap

(* A turn of the loop of sift_down, and the loop.                          *)
Kids(h, i) == {k \in DOMAIN h : k > 1 /\ Parent(k) = i}

Best(h, i) ==
  CHOOSE k \in Kids(h, i) \union {i} :
    \A m \in Kids(h, i) \union {i} : m = k \/ EntryLess(h[k], h[m])

DownTurn(p) ==
  LET best == Best(p.heap, p.at)
  IN  IF best = p.at THEN p
      ELSE [heap |-> Swapped(p.heap, p.at, best), at |-> best]

SiftDown(h, i) ==
  LET turn[n \in 0 .. Len(h)] ==
        IF n = 0 THEN [heap |-> h, at |-> i] ELSE DownTurn(turn[n - 1])
  IN  turn[Len(h)].heap

MutRemovedAt(h, i) ==
  LET g == SubSeq(Swapped(h, i, Len(h)), 1, Len(h) - 1)
  IN  IF i > Len(g) THEN g ELSE SiftDown(g, i)

(* remove_at: the last entry takes the place and sifts either way.         *)
RemovedAt(h, i) ==
  LET g == SubSeq(Swapped(h, i, Len(h)), 1, Len(h) - 1)
  IN  IF i > Len(g) THEN g
      ELSE IF i > 1 /\ EntryLess(g[i], g[Parent(i)]) THEN SiftUp(g, i)
      ELSE SiftDown(g, i)

(* The slots once every entry of heap h has its backlink (swap_entries).   *)
Linked(sl, h) ==
  [i \in EventSlots |->
     IF \E k \in DOMAIN h : h[k].slot = i
     THEN [sl[i] EXCEPT !.pos = CHOOSE k \in DOMAIN h : h[k].slot = i]
     ELSE sl[i]]

MutReleased(sl, i) == [sl EXCEPT ![i].live = FALSE]

(* free_slot.                                                              *)
Released(sl, i) == [sl EXCEPT ![i].live = FALSE, ![i].gen = @ + 1]

----------------------------------------------------------------------------
(* push(ts, value); callers respect its precondition on the capacity.      *)
Push(ts) ==
  LET i == IF free # <<>> THEN Head(free) ELSE highWater
      h == SiftUp(Append(heap, [ts |-> ts, seq |-> nextSeq, slot |-> i]), Len(heap) + 1)
  IN  /\ Len(heap) < EventCap /\ nextSeq < MaxSeq
      /\ heap' = h
      /\ eventSlot' = Linked([eventSlot EXCEPT ![i].seq = nextSeq, ![i].live = TRUE], h)
      /\ free' = IF free # <<>> THEN Tail(free) ELSE free
      /\ highWater' = IF free # <<>> THEN highWater ELSE highWater + 1
      /\ nextSeq' = nextSeq + 1
      /\ issued' = issued \union {<<i, eventSlot[i].gen>>}
      /\ popped' = popped

(* cancel(h): false, and no effect, unless h still names a live slot.      *)
Cancel(h) ==
  IF ~(h[1] \in EventSlots /\ eventSlot[h[1]].live /\ eventSlot[h[1]].gen = h[2])
  THEN UNCHANGED schedVars
  ELSE LET left == RemovedAt(heap, eventSlot[h[1]].pos)
       IN  /\ eventSlot[h[1]].gen < MaxGen /\ Len(free) < MaxFree
           /\ heap' = left
           /\ eventSlot' = Released(Linked(eventSlot, left), h[1])
           /\ free' = <<h[1]>> \o free
           /\ UNCHANGED <<highWater, nextSeq, issued, popped>>

PopMin ==
  LET root == heap[1]
      left == RemovedAt(heap, 1)
  IN  /\ heap # <<>> /\ eventSlot[root.slot].gen < MaxGen /\ Len(free) < MaxFree
      /\ heap' = left
      /\ eventSlot' = Released(Linked(eventSlot, left), root.slot)
      /\ free' = <<root.slot>> \o free
      /\ popped' = <<root.ts, root.seq>>
      /\ UNCHANGED <<highWater, nextSeq, issued>>

(* clear: every slot becomes constructed and free, in index order.         *)
Clear ==
  /\ \A i \in EventSlots : eventSlot[i].live => eventSlot[i].gen < MaxGen
  /\ heap' = <<>>
  /\ eventSlot' = [i \in EventSlots |->
                   IF eventSlot[i].live THEN Released(eventSlot, i)[i] ELSE eventSlot[i]]
  /\ free' = [k \in 1 .. EventCap |-> k - 1]
  /\ highWater' = EventCap
  /\ nextSeq' = 0
  /\ popped' = <<>>
  /\ issued' = issued

SchedNext ==
  \/ \E ts \in EventTime : Push(ts)
  \/ \E h \in issued : Cancel(h)
  \/ PopMin
  \/ Clear

SchedSpec == SchedInit /\ [][SchedNext]_schedVars

----------------------------------------------------------------------------
(* Properties.                                                             *)

(* What audit() checks: the heap order, every entry's slot live and linked *)
(* back to it with its sequence number, and the free list exactly the      *)
(* constructed slots that are not live (Scheduler.hpp:135-160).            *)
HeapSound ==
  /\ \A k \in DOMAIN heap :
       LET s == eventSlot[heap[k].slot]
       IN  /\ s.live /\ s.pos = k /\ s.seq = heap[k].seq
           /\ k > 1 => EntryLess(heap[Parent(k)], heap[k])
  /\ {free[k] : k \in DOMAIN free} = {i \in EventSlots : i < highWater /\ ~eventSlot[i].live}
  /\ Len(free) + (EventCap - highWater) = EventCap - Len(heap)

Queue == INSTANCE EventQueue WITH
  Time <- EventTime, QueueCap <- EventCap,
  pending  <- {[ts     |-> heap[k].ts, seq |-> heap[k].seq,
                handle |-> <<heap[k].slot, eventSlot[heap[k].slot].gen>>] : k \in DOMAIN heap}

(* The heap pops in (timestamp, insertion) order through every mix of      *)
(* pushes, cancellations and clears, and a handle kept after its event     *)
(* popped never cancels another one (docs/SCHEDULER.md:6-26).              *)
HeapIsQueue == Queue!Spec

=============================================================================
