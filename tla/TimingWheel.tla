----------------------------- MODULE TimingWheel -----------------------------
(***************************************************************************)
(* The hierarchical timing wheel of include/mog/TimingWheel.hpp.  A        *)
(* timestamp is read as digits in base Base; an event waits at the level   *)
(* of the highest digit in which it differs from the watermark, in the     *)
(* bucket of its own digit there, and moves down as the watermark comes    *)
(* closer.                                                                 *)
(*                                                                         *)
(* A bucket's intrusive list is a sequence here, head first (the book's    *)
(* lists, linked in the same way, are modelled link by link in BookOps),   *)
(* and a level's occupancy mask is the set of its buckets that are not     *)
(* empty.                                                                  *)
(***************************************************************************)
EXTENDS Integers, FiniteSets, SequencesExt

CONSTANTS
  Base,      (* buckets per level: 64 in the code                          *)
  Levels,    (* levels: 11 in the code                                     *)
  Time,      (* timestamps pushed                                          *)
  Capacity,  (* slots                                                      *)
  MaxSeq,    (* bound on the pushes between two clears                     *)
  MaxGen,    (* bound on a slot's generation                               *)
  Guarded    (* TRUE: callers push no earlier than the watermark           *)
             (* FALSE: no earlier than the last event that came due        *)

WheelAssumption ==
  /\ Base \in Nat \ {0, 1} /\ Levels \in Nat \ {0}
  /\ Time \subseteq 0 .. (Base ^ Levels - 1)
  /\ Capacity \in Nat \ {0} /\ MaxSeq \in Nat /\ MaxGen \in Nat
  /\ Guarded \in BOOLEAN

VARIABLES
  now,        (* now_, the watermark                                       *)
  chain,      (* the buckets: per level and digit, a sequence of slots     *)
  sorted,     (* bucket_sorted, of level 0                                 *)
  lastSeq,    (* bucket_last_seq, of level 0                               *)
  slot,       (* slots_: [ts, seq, gen, live]                              *)
  free,       (* the free list                                             *)
  built,      (* watermark_: slots below it have been constructed          *)
  nextSeq,    (* next_seq_                                                 *)
  issued,     (* history: every handle push returned                       *)
  popped      (* history: the last pop, or <<>> after a clear              *)

wheel == <<now, chain, sorted, lastSeq>>
vars  == <<wheel, slot, free, built, nextSeq, issued, popped>>

Index   == 0 .. (Capacity - 1)
Level   == 0 .. (Levels - 1)
Bucket  == 0 .. (Base - 1)
Unbuilt == [ts |-> 0, seq |-> 0, gen |-> 0, live |-> FALSE]

Init ==
  /\ now = 0
  /\ chain = [l \in Level |-> [b \in Bucket |-> <<>>]]
  /\ sorted = [b \in Bucket |-> FALSE]
  /\ lastSeq = [b \in Bucket |-> 0]
  /\ slot = [i \in Index |-> Unbuilt]
  /\ free = <<>>
  /\ built = 0
  /\ nextSeq = 0
  /\ issued = {}
  /\ popped = <<>>

----------------------------------------------------------------------------
(* The wheel as a value w = [now, chain, sorted, lastSeq], over slots sl.  *)
(* Operators named Mut... are mistakes one could make in the definition    *)
(* that follows; nothing uses them.                                        *)

Digit(t, l) == (t \div (Base ^ l)) % Base

(* The timestamp with its digits below l cleared: now_ & ~mask_low_bits.   *)
Floor(t, l) == t - (t % (Base ^ l))

Occupied(w, l) == {b \in Bucket : w.chain[l][b] # <<>>}

Least(S) == CHOOSE x \in S : \A y \in S : x <= y

(* route_bucket: the level of the highest digit that differs.              *)
RouteLevel(n, t) ==
  LET differ == {l \in Level : Digit(t, l) # Digit(n, l)}
  IN  IF differ = {} THEN 0 ELSE CHOOSE l \in differ : \A m \in differ : m <= l

(* attach.  A bucket of level 0 stays sorted while sequence numbers rise.  *)
Attached(w, sl, i) ==
  LET l == RouteLevel(w.now, sl[i].ts)
      b == Digit(sl[i].ts, l)
  IN  [w EXCEPT
        !.chain[l][b] = Append(@, i),
        !.sorted[b]   = IF l # 0 THEN @
                        ELSE w.chain[0][b] = <<>> \/ (@ /\ sl[i].seq > w.lastSeq[b]),
        !.lastSeq[b]  = IF l # 0 THEN @ ELSE sl[i].seq]

(* The bucket slot i waits in.                                             *)
Where(w, i) == CHOOSE at \in Level \X Bucket : i \in ToSet(w.chain[at[1]][at[2]])

(* detach.                                                                 *)
Detached(w, i) ==
  LET l == Where(w, i)[1]
      b == Where(w, i)[2]
      c == Remove(w.chain[l][b], i)
  IN  [w EXCEPT !.chain[l][b] = c,
                !.sorted[b]   = IF l = 0 /\ c = <<>> THEN FALSE ELSE @]

MutDemoted(w, sl, l) ==
  LET behind == Reverse(FlattenSeq([k \in 1 .. Digit(w.now, l) + 1 |-> w.chain[l][k - 1]]))
  IN  FoldLeft(LAMBDA v, i : Attached(Detached(v, i), sl, i), w, behind)

(* settle's inner loop: every bucket of level l at or behind the           *)
(* watermark's digit re-routes, bucket by bucket from the head.            *)
Demoted(w, sl, l) ==
  LET behind == FlattenSeq([k \in 1 .. Digit(w.now, l) + 1 |-> w.chain[l][k - 1]])
  IN  FoldLeft(LAMBDA v, i : Attached(Detached(v, i), sl, i), w, behind)

DemotedAll(w, sl) ==
  LET down[l \in Level] == IF l = 0 THEN w ELSE Demoted(down[l - 1], sl, l)
  IN  down[Levels - 1]

(* settle: the watermark moves to the next pending timestamp.              *)
RECURSIVE Settled(_, _)
Settled(w, sl) ==
  LET later  == {b \in Occupied(w, 0) : b > Digit(w.now, 0)}
      bounds == {Floor(w.now, l + 1) + Least(Occupied(w, l)) * Base ^ l :
                 l \in {m \in Level \ {0} : Occupied(w, m) # {}}}
  IN  IF Digit(w.now, 0) \in Occupied(w, 0)
      THEN w
      ELSE IF later # {}
      THEN Settled([w EXCEPT !.now = Floor(w.now, 1) + Least(later)], sl)
      ELSE IF bounds # {}
      THEN Settled(DemotedAll([w EXCEPT !.now = Least(bounds)], sl), sl)
      ELSE w

MutFrontOfTick(w, sl) == Last(w.chain[0][Digit(w.now, 0)])

(* front_of_tick: the head of the current bucket if it is sorted, else its *)
(* least sequence number.                                                  *)
FrontOfTick(w, sl) ==
  LET c == w.chain[0][Digit(w.now, 0)]
  IN  IF w.sorted[Digit(w.now, 0)] THEN Head(c)
      ELSE CHOOSE i \in ToSet(c) : \A j \in ToSet(c) : sl[i].seq <= sl[j].seq

----------------------------------------------------------------------------
Wheel == [now |-> now, chain |-> chain, sorted |-> sorted, lastSeq |-> lastSeq]

Turn(w) ==
  now' = w.now /\ chain' = w.chain /\ sorted' = w.sorted /\ lastSeq' = w.lastSeq

Empty == \A i \in Index : ~slot[i].live

Released(sl, i) == [sl EXCEPT ![i].live = FALSE, ![i].gen = @ + 1]

(* push(ts, value).                                                        *)
Push(ts) ==
  LET i  == IF free # <<>> THEN Head(free) ELSE built
      sl == [slot EXCEPT ![i].ts = ts, ![i].seq = nextSeq, ![i].live = TRUE]
  IN  /\ \E j \in Index : ~slot[j].live
      /\ nextSeq < MaxSeq
      /\ ts >= (IF Guarded THEN now ELSE IF popped = <<>> THEN 0 ELSE popped[1])
      /\ slot' = sl
      /\ Turn(Attached(Wheel, sl, i))
      /\ free' = IF free # <<>> THEN Tail(free) ELSE free
      /\ built' = IF free # <<>> THEN built ELSE built + 1
      /\ nextSeq' = nextSeq + 1
      /\ issued' = issued \union {<<i, slot[i].gen>>}
      /\ popped' = popped

Cancel(h) ==
  IF ~(h[1] \in Index /\ slot[h[1]].live /\ slot[h[1]].gen = h[2])
  THEN UNCHANGED vars
  ELSE /\ slot[h[1]].gen < MaxGen
       /\ Turn(Detached(Wheel, h[1]))
       /\ slot' = Released(slot, h[1])
       /\ free' = <<h[1]>> \o free
       /\ UNCHANGED <<built, nextSeq, issued, popped>>

(* peek_min_ts, peek_min: both settle the wheel.                           *)
Peek ==
  /\ ~Empty
  /\ Turn(Settled(Wheel, slot))
  /\ UNCHANGED <<slot, free, built, nextSeq, issued, popped>>

(* pop_min.  front_of_tick requires an event in the current bucket.        *)
PopMin ==
  LET w == Settled(Wheel, slot)
      i == FrontOfTick(w, slot)
  IN  /\ ~Empty
      /\ Digit(w.now, 0) \in Occupied(w, 0)
      /\ slot[i].gen < MaxGen
      /\ Turn(Detached(w, i))
      /\ slot' = Released(slot, i)
      /\ free' = <<i>> \o free
      /\ popped' = <<slot[i].ts, slot[i].seq>>
      /\ UNCHANGED <<built, nextSeq, issued>>

(* clear leaves the sorted flags and last sequence numbers as they were.   *)
Clear ==
  /\ \A i \in Index : slot[i].live => slot[i].gen < MaxGen
  /\ now' = 0
  /\ chain' = [l \in Level |-> [b \in Bucket |-> <<>>]]
  /\ slot' = [i \in Index |-> IF slot[i].live THEN Released(slot, i)[i] ELSE slot[i]]
  /\ free' = [k \in 1 .. Capacity |-> k - 1]
  /\ built' = Capacity
  /\ nextSeq' = 0
  /\ popped' = <<>>
  /\ UNCHANGED <<sorted, lastSeq, issued>>

Next ==
  \/ \E ts \in Time : Push(ts)
  \/ \E h \in issued : Cancel(h)
  \/ Peek
  \/ PopMin
  \/ Clear

Spec == Init /\ [][Next]_vars

----------------------------------------------------------------------------
(* Properties.                                                             *)

(* The invariants the header lists and audit() checks                      *)
(* (TimingWheel.hpp:12-19, 170-222): no pending event lies behind the      *)
(* watermark; one above level 0 agrees with the watermark in every higher  *)
(* digit and is strictly ahead in its own; one at level 0 is inside the    *)
(* current window; every live slot is in exactly one bucket.               *)
WheelSound ==
  /\ \A l \in Level, b \in Bucket : \A i \in ToSet(chain[l][b]) :
       /\ slot[i].live /\ slot[i].ts >= now
       /\ Digit(slot[i].ts, l) = b
       /\ \A m \in Level : m > l => Digit(slot[i].ts, m) = Digit(now, m)
       /\ l > 0 => b > Digit(now, l)
  /\ \A i \in Index : slot[i].live =>
       Cardinality({at \in Level \X Bucket : i \in ToSet(chain[at[1]][at[2]])}) = 1

(* Demotions keep the events of one timestamp in the order they were       *)
(* pushed, so the flag that lets a pop take the head without looking is    *)
(* set on every bucket of level 0 that holds events: the linear scan for   *)
(* out-of-order inserts never runs (TimingWheel.hpp:62-66, 253-259, 313).  *)
BucketsInOrder ==
  /\ WheelSound
  /\ \A l \in Level, b \in Bucket :
       LET c == chain[l][b]
       IN  \A j, k \in DOMAIN c :
             j < k /\ slot[c[j]].ts = slot[c[k]].ts => slot[c[j]].seq < slot[c[k]].seq
  /\ \A b \in Bucket : chain[0][b] # <<>> => sorted[b]

Queue == INSTANCE EventQueue WITH
  QueueCap <- Capacity,
  pending  <- {[ts |-> slot[i].ts, seq |-> slot[i].seq, handle |-> <<i, slot[i].gen>>] :
               i \in {j \in Index : slot[j].live}}

(* The wheel pops in (timestamp, insertion) order, as the heap does, when  *)
(* pushes respect ts >= watermark (TimingWheel.hpp:6-22).                  *)
WheelIsQueue == Queue!Spec

(* "Both peek variants advance the watermark lazily; that movement is part *)
(* of settling and does not affect the pop sequence"                       *)
(* (TimingWheel.hpp:124-125): events come due in timestamp order for a     *)
(* caller that never schedules before the last event that came due.        *)
PopsInOrder ==
  [][popped # <<>> /\ popped' # <<>> => popped'[1] >= popped[1]]_vars

=============================================================================
