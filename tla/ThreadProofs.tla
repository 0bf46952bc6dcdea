---------------------------- MODULE ThreadProofs ----------------------------
(***************************************************************************)
(* Proofs about the two parts whose threads share memory: the pump and the *)
(* ring it fills for the logger, for every number of events and of places  *)
(* and every staleness of the cursors, and the parallel grid, for every    *)
(* list of tasks and number of threads.                                    *)
(***************************************************************************)
EXTENDS Telemetry, Grid, TLAPS

Item == [kind : Kinds \union {"book"}, seq : Nat] \union {Torn}

Places == 0 .. (Capacity - 1)

RingTyped ==
  /\ queues \in [Kinds -> Seq(Nat)] /\ seq \in Nat /\ books \in Nat
  /\ core \in [at : {"idle", "step", "pump", "try", "reload", "write", "publish"}, item : Item]
  /\ logger \in [at : {"idle", "pop", "reload", "copy", "release", "done"}, item : Item]
  /\ tail \in Nat /\ headCache \in Nat /\ head \in Nat /\ tailCache \in Nat
  /\ slots \in [Places -> Item]
  /\ log \in Seq(Item) /\ emitted \in Seq(Item)

(* Every cursor copy is behind its original, and the distance the producer *)
(* believes in, never less than the true one, fits the ring.               *)
Cursors ==
  /\ headCache <= head /\ head <= tailCache /\ tailCache <= tail
  /\ tail - headCache <= Capacity

(* What each thread has found out stays true until it acts on it.          *)
Decided ==
  /\ core.at \in {"write", "publish"} => tail - headCache < Capacity
  /\ logger.at \in {"copy", "release"} => head < tailCache
  /\ logger.at = "release" => logger.item = emitted[head + 1]

(* The log holds what was emitted first, the ring the rest.                *)
Contents ==
  /\ Len(emitted) = tail /\ Len(log) = head
  /\ \A i \in 1 .. head : log[i] = emitted[i]
  /\ \A i \in head .. (tail - 1) : slots[i % Capacity] = emitted[i + 1]

RingInv == RingTyped /\ Cursors /\ Decided /\ Contents

----------------------------------------------------------------------------
(* Arithmetic of the ring.                                                 *)

LEMMA PlaceInRing == \A n \in Nat : n % Capacity \in Places
BY CapacityAssumption DEF Places

(* Two cursors less than a capacity apart point at different slots.        *)
LEMMA PlacesApart ==
  ASSUME NEW a \in Nat, NEW b \in Nat, a < b, b - a < Capacity
  PROVE  a % Capacity # b % Capacity
<1>1. Capacity \in Nat /\ Capacity > 0
  BY CapacityAssumption
<1>2. a = Capacity * (a \div Capacity) + (a % Capacity)
  BY <1>1
<1>3. b = Capacity * (b \div Capacity) + (b % Capacity)
  BY <1>1
<1>4. a \div Capacity \in Int /\ b \div Capacity \in Int
  BY <1>1
<1>5. SUFFICES ASSUME a % Capacity = b % Capacity
               PROVE  FALSE
  OBVIOUS
<1> DEFINE d == (b \div Capacity) - (a \div Capacity)
<1>6. d \in Int /\ b - a = Capacity * d
  BY <1>1, <1>2, <1>3, <1>4, <1>5
<1>7. d > 0 => Capacity * d >= Capacity
  BY <1>1, <1>6
<1>8. d <= 0 => Capacity * d <= 0
  BY <1>1, <1>6
<1> QED
  BY <1>1, <1>6, <1>7, <1>8

----------------------------------------------------------------------------
LEMMA RingInvInit == Init => RingInv
<1> SUFFICES ASSUME Init PROVE RingInv
  OBVIOUS
<1>1. RingTyped
  BY CapacityAssumption DEF Init, RingTyped, Idle, Item, Places
<1>2. Cursors
  BY CapacityAssumption DEF Init, Cursors
<1>3. Decided
  BY DEF Init, Decided, Idle
<1>4. Contents
  BY DEF Init, Contents
<1> QED
  BY <1>1, <1>2, <1>3, <1>4 DEF RingInv

(* Steps that leave the ring and both threads' sides of it as they are and *)
(* move a thread to a place where it has found out nothing.                *)
LEMMA QuietStep ==
  ASSUME RingInv, RingTyped', UNCHANGED <<prod, cons, log, emitted>>,
         core'.at \notin {"write", "publish"} \/ core' = core,
         logger'.at \notin {"copy", "release"} \/ logger' = logger
  PROVE  RingInv'
BY DEF RingInv, Cursors, Decided, Contents, prod, cons

LEMMA SimulatorSteps ==
  ASSUME RingInv,
         \/ \E k \in Kinds : Record(k) \/ Pump(k)
         \/ Advance \/ EmitBookUpdate \/ Pumped \/ Finish \/ LoopAgain
  PROVE  RingInv'
<1> USE DEF RingInv
<1>1. ASSUME NEW k \in Kinds, Record(k) PROVE RingInv'
  <2>1. RingTyped'
    BY <1>1 DEF Record, RingTyped, prod, cons
  <2> QED
    BY <1>1, <2>1, QuietStep DEF Record
<1>2. ASSUME NEW k \in Kinds, Pump(k) PROVE RingInv'
  <2>1. queues[k] \in Seq(Nat) /\ queues[k] # <<>>
    BY <1>2 DEF Pump, Earliest, RingTyped
  <2>2. Head(queues[k]) \in Nat /\ Tail(queues[k]) \in Seq(Nat)
    BY <2>1
  <2>3. RingTyped'
    BY <1>2, <2>2 DEF Pump, RingTyped, prod, cons, Item
  <2>4. core'.at = "try" /\ logger' = logger /\ UNCHANGED <<prod, cons, log, emitted>>
    BY <1>2 DEF Pump
  <2> QED
    BY <2>3, <2>4, QuietStep
<1>3. CASE Advance
  <2>1. RingTyped' /\ core'.at = "step"
    BY <1>3 DEF Advance, RingTyped, sim, prod, cons
  <2> QED
    BY <1>3, <2>1, QuietStep DEF Advance
<1>4. CASE EmitBookUpdate
  <2>1. Book(books + 1) \in Item /\ books + 1 \in Nat
    BY DEF Book, Item, RingTyped
  <2>2. RingTyped' /\ core'.at \in {"try", "pump"}
    BY <1>4, <2>1 DEF EmitBookUpdate, RingTyped, prod, cons
  <2> QED
    BY <1>4, <2>2, QuietStep DEF EmitBookUpdate
<1>5. CASE Pumped
  <2>1. RingTyped' /\ core'.at = "idle"
    BY <1>5 DEF Pumped, Idle, RingTyped, sim, prod, cons, Item
  <2> QED
    BY <1>5, <2>1, QuietStep DEF Pumped
<1>6. CASE Finish
  <2>1. RingTyped'
    BY <1>6 DEF Finish, RingTyped, sim, prod, cons
  <2> QED
    BY <1>6, <2>1, QuietStep DEF Finish
<1>7. CASE LoopAgain
  <2>1. RingTyped' /\ logger'.at \in {"pop", "done"}
    BY <1>7 DEF LoopAgain, RingTyped, sim, prod, cons
  <2> QED
    BY <1>7, <2>1, QuietStep DEF LoopAgain
<1> QED
  BY <1>1, <1>2, <1>3, <1>4, <1>5, <1>6, <1>7

(* The producer: it writes where nothing unread lies.                      *)
LEMMA ProducerSteps ==
  ASSUME RingInv,
         \/ TryPush \/ WriteSlot \/ PublishTail
         \/ \E seen \in headCache .. head : ReloadHead(seen)
  PROVE  RingInv'
<1> USE CapacityAssumption DEF RingInv
<1>1. CASE TryPush
  <2>1. RingTyped'
    BY <1>1 DEF TryPush, RingTyped, sim, prod, cons
  <2>2. core'.at = "write" => tail - headCache < Capacity
    BY <1>1 DEF TryPush, Room, RingTyped
  <2>3. core'.at \in {"write", "reload"}
    BY <1>1 DEF TryPush, RingTyped
  <2> QED
    BY <1>1, <2>1, <2>2, <2>3 DEF TryPush, Cursors, Decided, Contents, prod, cons
<1>2. ASSUME NEW seen \in headCache .. head, ReloadHead(seen) PROVE RingInv'
  <2>1. RingTyped'
    <3>1. seen \in Nat
      BY DEF RingTyped
    <3>2. core' \in [at : {"write", "try"}, item : Item]
      BY <1>2 DEF ReloadHead, RingTyped
    <3> QED
      BY <1>2, <3>1, <3>2 DEF ReloadHead, RingTyped, sim, cons
  <2>2. core'.at \in {"write", "try"} /\ (core'.at = "write" => tail - seen < Capacity)
    BY <1>2 DEF ReloadHead, Room, RingTyped
  <2>3. Cursors'
    BY <1>2 DEF ReloadHead, Cursors, RingTyped, cons
  <2> QED
    BY <1>2, <2>1, <2>2, <2>3 DEF ReloadHead, Decided, Contents, cons
<1>3. ASSUME core.at \in {"write", "publish"}, NEW i \in head .. (tail - 1)
      PROVE  i % Capacity # tail % Capacity
  <2>1. i \in Nat /\ tail \in Nat /\ i < tail /\ tail - i < Capacity
    BY <1>3 DEF RingTyped, Cursors, Decided
  <2> QED
    BY <2>1, PlacesApart
<1>4. tail % Capacity \in Places
  BY PlaceInRing DEF RingTyped
<1>5. CASE WriteSlot
  <2>1. RingTyped'
    BY <1>4, <1>5 DEF WriteSlot, RingTyped, sim, cons, Item
  <2>2. Contents'
    <3>1. ASSUME NEW i \in head .. (tail - 1) PROVE slots'[i % Capacity] = slots[i % Capacity]
      <4> i \in Nat
        BY DEF RingTyped
      <4>1. i % Capacity \in Places
        BY PlaceInRing
      <4> QED
        BY <1>3, <1>4, <1>5, <4>1 DEF WriteSlot, RingTyped
    <3> QED
      BY <1>5, <3>1 DEF WriteSlot, Contents, cons
  <2>3. Decided' /\ Cursors'
    BY <1>5 DEF WriteSlot, Decided, Cursors, RingTyped, cons
  <2> QED
    BY <2>1, <2>2, <2>3
<1>6. CASE PublishTail
  <2>1. core.item \in Item
    BY DEF RingTyped
  <2>2. RingTyped'
    <3>1. slots' \in [Places -> Item]
      BY <1>4, <1>6, <2>1 DEF PublishTail, RingTyped
    <3>2. core' \in [at : {"pump"}, item : Item]
      BY <1>6 DEF PublishTail, RingTyped
    <3>3. emitted' \in Seq(Item) /\ tail' \in Nat
      BY <1>6, <2>1 DEF PublishTail, RingTyped
    <3> QED
      BY <1>6, <3>1, <3>2, <3>3 DEF PublishTail, RingTyped, sim, cons
  <2>3. /\ tail' = tail + 1 /\ head' = head /\ log' = log
        /\ Len(emitted') = tail + 1 /\ emitted'[tail + 1] = core.item
        /\ \A i \in 1 .. tail : emitted'[i] = emitted[i]
    <3>1. emitted \in Seq(Item) /\ Len(emitted) = tail /\ tail \in Nat
      BY DEF Contents, RingTyped
    <3>2. emitted' = Append(emitted, core.item)
      BY <1>6 DEF PublishTail
    <3>3. Len(emitted') = tail + 1 /\ emitted'[tail + 1] = core.item
      BY <2>1, <3>1, <3>2
    <3>4. \A i \in 1 .. tail : emitted'[i] = emitted[i]
      BY <2>1, <3>1, <3>2
    <3> QED
      BY <1>6, <3>3, <3>4 DEF PublishTail, cons
  <2>4. Cursors'
    BY <1>6, <2>3 DEF PublishTail, Cursors, Decided, RingTyped, cons
  <2>5. Contents'
    <3>1. ASSUME NEW i \in head .. (tail - 1) PROVE slots'[i % Capacity] = emitted'[i + 1]
      <4> i \in Nat
        BY DEF RingTyped
      <4>1. i % Capacity \in Places
        BY PlaceInRing
      <4>2. slots'[i % Capacity] = slots[i % Capacity]
        BY <1>3, <1>4, <1>6, <4>1 DEF PublishTail, RingTyped
      <4>3. slots[i % Capacity] = emitted[i + 1]
        BY DEF Contents
      <4>4. i + 1 \in 1 .. tail
        BY DEF RingTyped
      <4> QED
        BY <2>3, <4>2, <4>3, <4>4
    <3>2. slots'[tail % Capacity] = core.item
      BY <1>4, <1>6 DEF PublishTail, RingTyped
    <3>3. \A i \in 1 .. head : log[i] = emitted'[i]
      BY <2>3 DEF Contents, Cursors, RingTyped
    <3>4. \A i \in head .. tail : slots'[i % Capacity] = emitted'[i + 1]
      <4> SUFFICES ASSUME NEW i \in head .. tail PROVE slots'[i % Capacity] = emitted'[i + 1]
        OBVIOUS
      <4>1. CASE i = tail
        BY <2>3, <3>2, <4>1
      <4>2. CASE i \in head .. (tail - 1)
        BY <3>1, <4>2
      <4> QED
        BY <4>1, <4>2 DEF RingTyped
    <3>5. tail' - 1 = tail /\ Len(log') = head'
      BY <2>3 DEF RingTyped, Contents
    <3> QED
      BY <2>3, <3>3, <3>4, <3>5 DEF Contents
  <2>6. Decided'
    <3>1. head < tailCache => emitted'[head + 1] = emitted[head + 1]
      BY <2>3 DEF Cursors, RingTyped
    <3> QED
      BY <1>6, <2>3, <3>1 DEF PublishTail, Decided, RingTyped, cons
  <2> QED
    BY <2>2, <2>4, <2>5, <2>6
<1> QED
  BY <1>1, <1>2, <1>5, <1>6

(* The consumer: what it copies is whole, and the next one emitted.        *)
LEMMA ConsumerSteps ==
  ASSUME RingInv,
         \/ TryPop \/ CopySlot \/ ReleaseHead
         \/ \E seen \in tailCache .. tail : ReloadTail(seen)
  PROVE  RingInv'
<1> USE CapacityAssumption DEF RingInv
<1>1. CASE TryPop
  <2>1. RingTyped'
    BY <1>1 DEF TryPop, RingTyped, sim, prod, cons
  <2>2. logger'.at \in {"copy", "reload"} /\ (logger'.at = "copy" => head < tailCache)
    BY <1>1 DEF TryPop, RingTyped
  <2> QED
    BY <1>1, <2>1, <2>2 DEF TryPop, Cursors, Decided, Contents, prod, cons
<1>2. ASSUME NEW seen \in tailCache .. tail, ReloadTail(seen) PROVE RingInv'
  <2>1. RingTyped'
    <3>1. seen \in Nat
      BY DEF RingTyped
    <3>2. logger' \in [at : {"copy", "idle"}, item : Item]
      BY <1>2 DEF ReloadTail, RingTyped
    <3> QED
      BY <1>2, <3>1, <3>2 DEF ReloadTail, RingTyped, sim, prod
  <2>2. logger'.at \in {"copy", "idle"} /\ (logger'.at = "copy" => head < seen)
    BY <1>2 DEF ReloadTail, RingTyped
  <2>3. Cursors'
    BY <1>2 DEF ReloadTail, Cursors, RingTyped, prod
  <2> QED
    BY <1>2, <2>1, <2>2, <2>3 DEF ReloadTail, Decided, Contents, prod
<1>3. head % Capacity \in Places
  BY PlaceInRing DEF RingTyped
<1>4. logger.at \in {"copy", "release"} => slots[head % Capacity] = emitted[head + 1]
  BY DEF Contents, Decided, Cursors, RingTyped
<1>5. CASE CopySlot
  <2>1. slots[head % Capacity] \in Item
    BY <1>3 DEF RingTyped
  <2>2. RingTyped'
    BY <1>5, <2>1 DEF CopySlot, RingTyped, sim, prod, cons
  <2>3. Decided'
    BY <1>4, <1>5 DEF CopySlot, Decided, RingTyped, prod, cons
  <2> QED
    BY <1>5, <2>2, <2>3 DEF CopySlot, Cursors, Contents, prod, cons
<1>6. CASE ReleaseHead
  <2>1. Copied = emitted[head + 1] /\ Copied \in Item
    BY <1>3, <1>4, <1>6 DEF ReleaseHead, Copied, Decided, RingTyped
  <2>2. /\ head' = head + 1 /\ tail' = tail /\ emitted' = emitted /\ slots' = slots
        /\ Len(log') = head + 1 /\ log'[head + 1] = Copied
        /\ \A i \in 1 .. head : log'[i] = log[i]
    BY <1>6, <2>1 DEF ReleaseHead, Contents, RingTyped, prod
  <2>3. RingTyped'
    <3>1. log' \in Seq(Item) /\ head' \in Nat
      BY <1>6, <2>1 DEF ReleaseHead, RingTyped
    <3>2. logger' \in [at : {"pop"}, item : Item]
      BY <1>6 DEF ReleaseHead, RingTyped
    <3> QED
      BY <1>6, <3>1, <3>2 DEF ReleaseHead, RingTyped, sim, prod
  <2>4. Cursors' /\ Decided'
    BY <1>6 DEF ReleaseHead, Cursors, Decided, RingTyped, prod
  <2>5. Contents'
    <3>1. \A i \in 1 .. (head + 1) : log'[i] = emitted[i]
      <4> SUFFICES ASSUME NEW i \in 1 .. (head + 1) PROVE log'[i] = emitted[i]
        OBVIOUS
      <4>1. CASE i = head + 1
        BY <2>1, <2>2, <4>1
      <4>2. CASE i \in 1 .. head
        BY <2>2, <4>2 DEF Contents
      <4> QED
        BY <4>1, <4>2 DEF RingTyped
    <3>2. \A i \in (head + 1) .. (tail - 1) : slots[i % Capacity] = emitted[i + 1]
      <4> SUFFICES ASSUME NEW i \in (head + 1) .. (tail - 1)
                   PROVE  slots[i % Capacity] = emitted[i + 1]
        OBVIOUS
      <4>1. i \in head .. (tail - 1)
        BY DEF RingTyped
      <4> QED
        BY <4>1 DEF Contents
    <3> QED
      BY <2>2, <3>1, <3>2 DEF Contents
  <2> QED
    BY <2>3, <2>4, <2>5
<1> QED
  BY <1>1, <1>2, <1>5, <1>6

LEMMA RingInvStep == RingInv /\ [Next]_vars => RingInv'
<1> SUFFICES ASSUME RingInv, [Next]_vars PROVE RingInv'
  OBVIOUS
<1>1. CASE UNCHANGED vars
  BY <1>1 DEF vars, sim, prod, cons, RingInv, RingTyped, Cursors, Decided, Contents
<1>2. CASE Next
  BY <1>2, SimulatorSteps, ProducerSteps, ConsumerSteps DEF Next, CoreStep, LoggerStep
<1> QED
  BY <1>1, <1>2

(* The sequence the log and the ring make up together.                     *)
LEMMA RingInvFifo == RingInv => RingIsFifo
<1> SUFFICES ASSUME RingInv PROVE log \o Held = emitted
  BY DEF RingInv, Cursors, RingIsFifo
<1> USE CapacityAssumption DEF RingInv
<1>1. head \in Nat /\ tail \in Nat /\ head <= tail
  BY DEF RingTyped, Cursors
<1>2. \A i \in 1 .. (tail - head) : Held[i] = emitted[head + i]
  <2> SUFFICES ASSUME NEW i \in 1 .. (tail - head) PROVE Held[i] = emitted[head + i]
    OBVIOUS
  <2>1. head + i - 1 \in head .. (tail - 1) /\ (head + i - 1) + 1 = head + i
    BY <1>1
  <2>2. slots[(head + i - 1) % Capacity] = emitted[(head + i - 1) + 1]
    BY <2>1 DEF Contents
  <2> QED
    BY <2>1, <2>2 DEF Held
<1>3. \A i \in 1 .. (tail - head) : emitted[head + i] \in Item
  <2> SUFFICES ASSUME NEW i \in 1 .. (tail - head) PROVE emitted[head + i] \in Item
    OBVIOUS
  <2>1. head + i \in 1 .. Len(emitted)
    BY <1>1 DEF Contents
  <2> QED
    BY <2>1 DEF RingTyped
<1>4. Held \in Seq(Item) /\ Len(Held) = tail - head
  <2>1. Held = [i \in 1 .. (tail - head) |-> Held[i]]
    BY DEF Held
  <2>2. \A i \in 1 .. (tail - head) : Held[i] \in Item
    BY <1>2, <1>3
  <2>3. tail - head \in Nat
    BY <1>1
  <2>4. Held \in [1 .. (tail - head) -> Item]
    BY <2>1, <2>2
  <2> QED
    BY <2>3, <2>4
<1> DEFINE whole == log \o Held
<1>5. whole \in Seq(Item) /\ Len(whole) = tail
  <2>1. log \in Seq(Item) /\ Len(log) = head
    BY DEF Contents, RingTyped
  <2>2. whole \in Seq(Item) /\ Len(whole) = Len(log) + Len(Held)
    BY <1>4, <2>1
  <2> QED
    BY <1>1, <1>4, <2>1, <2>2
<1> HIDE DEF whole
<1>6. \A i \in 1 .. tail : whole[i] = emitted[i]
  <2> SUFFICES ASSUME NEW i \in 1 .. tail PROVE whole[i] = emitted[i]
    OBVIOUS
  <2>0. log \in Seq(Item) /\ Len(log) = head /\ i \in Nat
    BY DEF Contents, RingTyped
  <2>1. CASE i <= head
    <3>1. i \in 1 .. head
      BY <1>1, <2>0, <2>1
    <3>2. whole[i] = log[i]
      BY <1>4, <2>0, <3>1 DEF whole
    <3> QED
      BY <3>1, <3>2 DEF Contents
  <2>2. CASE i > head
    <3>1. whole[i] = Held[i - head]
      BY <1>1, <1>4, <2>0, <2>2 DEF whole
    <3>2. i - head \in 1 .. (tail - head) /\ head + (i - head) = i
      BY <1>1, <2>2
    <3> QED
      BY <1>2, <3>1, <3>2
  <2> QED
    BY <1>1, <2>0, <2>1, <2>2
<1>7. emitted \in Seq(Item) /\ Len(emitted) = tail
  BY DEF Contents, RingTyped
<1>8. whole = emitted
  BY <1>5, <1>6, <1>7
<1> QED
  BY <1>8 DEF whole

(* What the logger has written, followed by what the ring holds, is what   *)
(* the hooks pushed, for every capacity and however stale the cursors are  *)
(* that either thread sees (SpscRing.hpp:35-69).                           *)
THEOREM RingHolds == Spec => []RingIsFifo
<1>1. Init => RingInv
  BY RingInvInit
<1>2. RingInv /\ [Next]_vars => RingInv'
  BY RingInvStep
<1>3. RingInv => RingIsFifo
  BY RingInvFifo
<1> QED
  BY <1>1, <1>2, <1>3, PTL DEF Spec

----------------------------------------------------------------------------
(* The order of the events.                                                *)

Message == [kind : Kinds \union {"book"}, seq : Nat]
Pushing == core.at \in {"try", "reload", "write", "publish"}

(* Where the numbers handed out so far are: with a hook that has pushed    *)
(* them, with the one that is pushing, in the simulator's queues.          *)
Told(j) == {emitted[i].seq : i \in {x \in 1 .. j : emitted[x].kind # "book"}}
InHand  == IF Pushing /\ core.item.kind # "book" THEN {core.item.seq} ELSE {}
Queued  == UNION {{queues[k][i] : i \in DOMAIN queues[k]} : k \in Kinds}

(* Each queue rises, and no number is in two of them.                      *)
QueuesRise ==
  /\ \A k \in Kinds : \A i, j \in DOMAIN queues[k] : i < j => queues[k][i] < queues[k][j]
  /\ \A k, l \in Kinds : \A i \in DOMAIN queues[k], j \in DOMAIN queues[l] :
       queues[k][i] = queues[l][j] => k = l

(* The numbers handed out, split into what was, is being and will be told. *)
Stages ==
  /\ Told(Len(emitted)) \union InHand \union Queued = 1 .. seq
  /\ \A m \in Told(Len(emitted)) : \A n \in InHand \union Queued : m < n
  /\ \A m \in InHand : \A n \in Queued : m < n

OrderTyped == emitted \in Seq(Message) /\ (Pushing => core.item \in Message)

OrderInv == OrderTyped /\ QueuesRise /\ Stages /\ CausalOrder

(* What is left when nothing leaves a queue or reaches the log.            *)
LEMMA OrderQuiet ==
  ASSUME OrderInv, RingTyped, RingTyped', UNCHANGED <<queues, seq, emitted>>,
         InHand' = InHand, Pushing' => core'.item \in Message
  PROVE  OrderInv'
<1>1. Told(Len(emitted))' = Told(Len(emitted)) /\ Queued' = Queued
  BY DEF Told, Queued
<1>2. OrderTyped' /\ QueuesRise'
  BY DEF OrderInv, OrderTyped, QueuesRise
<1>3. Stages'
  BY <1>1 DEF OrderInv, Stages
<1>4. CausalOrder'
  BY DEF OrderInv, CausalOrder
<1> QED
  BY <1>2, <1>3, <1>4 DEF OrderInv

LEMMA OrderRecord ==
  ASSUME OrderInv, RingTyped, NEW k \in Kinds, Record(k)
  PROVE  OrderInv'
<1>1. queues[k] \in Seq(Nat) /\ seq \in Nat
  BY DEF RingTyped
<1> DEFINE q == queues[k]
<1>2. /\ queues' = [queues EXCEPT ![k] = Append(q, seq + 1)] /\ seq' = seq + 1
      /\ UNCHANGED <<core, emitted>>
  BY DEF Record
<1>3. /\ queues'[k] = Append(q, seq + 1) /\ \A l \in Kinds \ {k} : queues'[l] = queues[l]
      /\ DOMAIN queues' = Kinds
  BY <1>2 DEF RingTyped
<1>4. /\ Len(queues'[k]) = Len(q) + 1 /\ Len(q) \in Nat
      /\ DOMAIN queues'[k] = 1 .. (Len(q) + 1) /\ DOMAIN q = 1 .. Len(q)
      /\ queues'[k][Len(q) + 1] = seq + 1
      /\ \A i \in 1 .. Len(q) : queues'[k][i] = q[i]
  BY <1>1, <1>3
<1>5. \A l \in Kinds : \A i \in DOMAIN queues[l] : queues[l][i] \in Queued /\ queues[l][i] \in 1 .. seq
  BY DEF OrderInv, Stages, Queued
<1>6. Queued' = Queued \union {seq + 1}
  <2>1. ASSUME NEW n \in Queued' PROVE n \in Queued \union {seq + 1}
    <3>0. PICK l \in Kinds : \E i \in DOMAIN queues'[l] : n = queues'[l][i]
      BY DEF Queued
    <3>1. PICK i \in DOMAIN queues'[l] : n = queues'[l][i]
      BY <3>0
    <3>2. CASE l # k
      BY <1>3, <1>5, <3>1, <3>2
    <3>3. CASE l = k /\ i = Len(q) + 1
      BY <1>4, <3>1, <3>3
    <3>4. CASE l = k /\ i # Len(q) + 1
      <4>1. i \in 1 .. Len(q)
        BY <1>4, <3>1, <3>4
      <4> QED
        BY <1>4, <1>5, <3>1, <3>4, <4>1
    <3> QED
      BY <3>2, <3>3, <3>4
  <2>2. ASSUME NEW n \in Queued PROVE n \in Queued'
    <3>0. PICK l \in Kinds : \E i \in DOMAIN queues[l] : n = queues[l][i]
      BY DEF Queued
    <3>1. PICK i \in DOMAIN queues[l] : n = queues[l][i]
      BY <3>0
    <3>2. i \in DOMAIN queues'[l] /\ n = queues'[l][i]
      <4>1. CASE l # k
        BY <1>3, <3>1, <4>1
      <4>2. CASE l = k
        BY <1>4, <3>1, <4>2
      <4> QED
        BY <4>1, <4>2
    <3> QED
      BY <3>2 DEF Queued
  <2>3. seq + 1 \in Queued'
    <3>1. Len(q) + 1 \in DOMAIN queues'[k]
      BY <1>4
    <3> QED
      BY <1>4, <3>1 DEF Queued
  <2> QED
    BY <2>1, <2>2, <2>3
<1>7. QueuesRise'
  <2>1. \A l \in Kinds : \A i, j \in DOMAIN queues'[l] : i < j => queues'[l][i] < queues'[l][j]
    <3> SUFFICES ASSUME NEW l \in Kinds, NEW i \in DOMAIN queues'[l], NEW j \in DOMAIN queues'[l], i < j
                 PROVE  queues'[l][i] < queues'[l][j]
      OBVIOUS
    <3>1. CASE l # k
      BY <1>3, <3>1 DEF OrderInv, QueuesRise
    <3>2. CASE l = k /\ j = Len(q) + 1
      <4>1. i \in 1 .. Len(q) /\ queues'[l][j] = seq + 1
        BY <1>4, <3>2
      <4> QED
        BY <1>1, <1>4, <1>5, <3>2, <4>1
    <3>3. CASE l = k /\ j # Len(q) + 1
      <4>1. i \in 1 .. Len(q) /\ j \in 1 .. Len(q)
        BY <1>4, <3>3
      <4> QED
        BY <1>4, <3>3, <4>1 DEF OrderInv, QueuesRise
    <3> QED
      BY <3>1, <3>2, <3>3
  <2>2. ASSUME NEW l \in Kinds \ {k}, NEW i \in DOMAIN queues'[k], NEW j \in DOMAIN queues'[l]
        PROVE  queues'[k][i] # queues'[l][j]
    <3>1. queues'[l] = queues[l] /\ queues[l][j] \in 1 .. seq /\ j \in DOMAIN queues[l]
      BY <1>3, <1>5
    <3>2. CASE i = Len(q) + 1
      BY <1>1, <1>4, <3>1, <3>2
    <3>3. CASE i # Len(q) + 1
      <4>1. i \in DOMAIN queues[k] /\ queues'[k][i] = queues[k][i]
        BY <1>4, <3>3
      <4> QED
        BY <3>1, <4>1 DEF OrderInv, QueuesRise
    <3> QED
      BY <3>2, <3>3
  <2>3. ASSUME NEW l \in Kinds, NEW m \in Kinds, l # m, NEW i \in DOMAIN queues'[l], NEW j \in DOMAIN queues'[m]
        PROVE  queues'[l][i] # queues'[m][j]
    <3>1. CASE l = k \/ m = k
      BY <2>2, <2>3, <3>1
    <3>2. CASE l # k /\ m # k
      BY <1>3, <2>3, <3>2 DEF OrderInv, QueuesRise
    <3> QED
      BY <3>1, <3>2
  <2> QED
    BY <2>1, <2>3 DEF QueuesRise
<1>8. Told(Len(emitted))' = Told(Len(emitted)) /\ InHand' = InHand
  BY <1>2 DEF Told, InHand, Pushing
<1>9. Stages'
  <2>1. Told(Len(emitted)) \union InHand \union Queued = 1 .. seq
    BY DEF OrderInv, Stages
  <2>2. 1 .. seq' = (1 .. seq) \union {seq + 1}
    BY <1>1, <1>2
  <2>3. \A m \in 1 .. seq : m < seq + 1
    BY <1>1
  <2> QED
    BY <1>6, <1>8, <2>1, <2>2, <2>3 DEF OrderInv, Stages
<1>10. OrderTyped' /\ CausalOrder'
  BY <1>2 DEF OrderInv, OrderTyped, CausalOrder, Pushing
<1> QED
  BY <1>7, <1>9, <1>10 DEF OrderInv

(* The pump takes the least number that waits.                             *)
LEMMA OrderPump ==
  ASSUME OrderInv, RingTyped, NEW k \in Kinds, Pump(k)
  PROVE  OrderInv'
<1> DEFINE q == queues[k]
<1>1. q \in Seq(Nat) /\ q # <<>> /\ queues \in [Kinds -> Seq(Nat)]
  BY DEF Pump, Earliest, RingTyped
<1>2. /\ core' = [at |-> "try", item |-> [kind |-> k, seq |-> q[1]]]
      /\ queues' = [queues EXCEPT ![k] = Tail(q)] /\ UNCHANGED <<seq, emitted>>
  BY <1>1 DEF Pump
<1>3. /\ queues'[k] = Tail(q) /\ \A l \in Kinds \ {k} : queues'[l] = queues[l]
      /\ DOMAIN queues' = Kinds
  BY <1>1, <1>2
<1>4. /\ Len(q) \in Nat \ {0} /\ DOMAIN q = 1 .. Len(q)
      /\ DOMAIN queues'[k] = 1 .. (Len(q) - 1)
      /\ \A i \in 1 .. (Len(q) - 1) : queues'[k][i] = q[i + 1]
  BY <1>1, <1>3
<1>5. InHand = {} /\ InHand' = {q[1]} /\ q[1] \in Nat /\ k # "book"
  BY <1>1, <1>2 DEF InHand, Pushing, Pump, Kinds
<1>6. \A l \in Kinds : \A i \in DOMAIN queues[l] : queues[l][i] \in Nat /\ i \in Nat \ {0}
  <2> SUFFICES ASSUME NEW l \in Kinds, NEW i \in DOMAIN queues[l]
               PROVE  queues[l][i] \in Nat /\ i \in Nat \ {0}
    OBVIOUS
  <2>1. queues[l] \in Seq(Nat)
    BY <1>1
  <2> QED
    BY <2>1
<1>7. \A l \in Kinds : \A i \in DOMAIN queues'[l] : \E j \in DOMAIN queues[l] :
        queues'[l][i] = queues[l][j] /\ j = (IF l = k THEN i + 1 ELSE i)
  <2> SUFFICES ASSUME NEW l \in Kinds, NEW i \in DOMAIN queues'[l]
               PROVE  \E j \in DOMAIN queues[l] :
                        queues'[l][i] = queues[l][j] /\ j = (IF l = k THEN i + 1 ELSE i)
    OBVIOUS
  <2>1. CASE l = k
    <3>1. i + 1 \in DOMAIN q
      BY <1>4, <2>1
    <3> QED
      BY <1>4, <2>1, <3>1
  <2>2. CASE l # k
    BY <1>3, <2>2
  <2> QED
    BY <2>1, <2>2
<1>8. \A l \in Kinds : \A i \in DOMAIN queues'[l] : q[1] < queues'[l][i]
  <2> SUFFICES ASSUME NEW l \in Kinds, NEW i \in DOMAIN queues'[l] PROVE q[1] < queues'[l][i]
    OBVIOUS
  <2>1. PICK j \in DOMAIN queues[l] :
          queues'[l][i] = queues[l][j] /\ j = (IF l = k THEN i + 1 ELSE i)
    BY <1>7
  <2>2. 1 \in DOMAIN q
    BY <1>4
  <2>3. CASE l = k
    <3>1. 1 < j
      BY <1>4, <2>1, <2>3
    <3> QED
      BY <2>1, <2>2, <2>3, <3>1 DEF OrderInv, QueuesRise
  <2>4. CASE l # k
    <3>1. queues[l] \in Seq(Nat) /\ queues[l] # <<>>
      BY <1>1, <2>1
    <3>2. q[1] <= queues[l][1] /\ 1 \in DOMAIN queues[l]
      BY <1>1, <3>1 DEF Pump, Earliest
    <3>3. queues[l][1] <= queues[l][j]
      <4>1. CASE j = 1
        BY <1>6, <2>1, <4>1
      <4>2. CASE j # 1
        BY <1>6, <2>1, <3>2, <4>2 DEF OrderInv, QueuesRise
      <4> QED
        BY <4>1, <4>2
    <3>4. q[1] # queues[l][j]
      BY <2>1, <2>2, <2>4 DEF OrderInv, QueuesRise
    <3> QED
      BY <1>5, <1>6, <2>1, <3>2, <3>3, <3>4
  <2> QED
    BY <2>3, <2>4
<1>9. Queued = Queued' \union {q[1]} /\ \A n \in Queued' : q[1] < n
  <2>1. ASSUME NEW n \in Queued' PROVE n \in Queued /\ q[1] < n
    <3>1. PICK l \in Kinds : \E i \in DOMAIN queues'[l] : n = queues'[l][i]
      BY DEF Queued
    <3>2. PICK i \in DOMAIN queues'[l] : n = queues'[l][i]
      BY <3>1
    <3>3. \E j \in DOMAIN queues[l] : n = queues[l][j]
      BY <1>7, <3>2
    <3> QED
      BY <1>8, <3>2, <3>3 DEF Queued
  <2>2. ASSUME NEW n \in Queued PROVE n \in Queued' \union {q[1]}
    <3>1. PICK l \in Kinds : \E i \in DOMAIN queues[l] : n = queues[l][i]
      BY DEF Queued
    <3>2. PICK i \in DOMAIN queues[l] : n = queues[l][i]
      BY <3>1
    <3>3. CASE l # k
      BY <1>3, <3>2, <3>3 DEF Queued
    <3>4. CASE l = k /\ i # 1
      <4>1. i - 1 \in 1 .. (Len(q) - 1) /\ (i - 1) + 1 = i
        BY <1>4, <3>2, <3>4
      <4>2. i - 1 \in DOMAIN queues'[k] /\ queues'[k][i - 1] = n
        BY <1>4, <3>2, <3>4, <4>1
      <4> QED
        BY <4>2 DEF Queued
    <3>5. CASE l = k /\ i = 1
      BY <3>2, <3>5
    <3> QED
      BY <3>3, <3>4, <3>5
  <2>3. q[1] \in Queued
    <3>1. 1 \in DOMAIN q
      BY <1>4
    <3> QED
      BY <3>1 DEF Queued
  <2> QED
    BY <2>1, <2>2, <2>3
<1>10. Told(Len(emitted))' = Told(Len(emitted))
  BY <1>2 DEF Told
<1>11. Stages'
  BY <1>2, <1>5, <1>9, <1>10 DEF OrderInv, Stages
<1>12. QueuesRise'
  <2>1. ASSUME NEW l \in Kinds, NEW i \in DOMAIN queues'[l], NEW j \in DOMAIN queues'[l], i < j
        PROVE  queues'[l][i] < queues'[l][j]
    <3>1. PICK a \in DOMAIN queues[l] :
            queues'[l][i] = queues[l][a] /\ a = (IF l = k THEN i + 1 ELSE i)
      BY <1>7
    <3>2. PICK b \in DOMAIN queues[l] :
            queues'[l][j] = queues[l][b] /\ b = (IF l = k THEN j + 1 ELSE j)
      BY <1>7
    <3>3. i \in Int /\ j \in Int
      <4>1. CASE l = k
        BY <1>4, <4>1
      <4>2. CASE l # k
        BY <1>3, <1>6, <4>2
      <4> QED
        BY <4>1, <4>2
    <3>4. a < b
      BY <2>1, <3>1, <3>2, <3>3
    <3> QED
      BY <3>1, <3>2, <3>4 DEF OrderInv, QueuesRise
  <2>2. ASSUME NEW l \in Kinds, NEW m \in Kinds, NEW i \in DOMAIN queues'[l],
               NEW j \in DOMAIN queues'[m], queues'[l][i] = queues'[m][j]
        PROVE  l = m
    <3>1. PICK a \in DOMAIN queues[l] : queues'[l][i] = queues[l][a]
      BY <1>7
    <3>2. PICK b \in DOMAIN queues[m] : queues'[m][j] = queues[m][b]
      BY <1>7
    <3> QED
      BY <2>2, <3>1, <3>2 DEF OrderInv, QueuesRise
  <2> QED
    BY <2>1, <2>2 DEF QueuesRise
<1>13. OrderTyped' /\ CausalOrder'
  <2>1. core'.item \in Message
    BY <1>2, <1>5 DEF Message
  <2> QED
    BY <1>2, <2>1 DEF OrderInv, OrderTyped, CausalOrder
<1> QED
  BY <1>11, <1>12, <1>13 DEF OrderInv

(* A hook is done: what it pushed is the successor of what was told.       *)
LEMMA OrderPublish ==
  ASSUME OrderInv, RingTyped, RingTyped', PublishTail
  PROVE  OrderInv'
<1> DEFINE last == Len(emitted) + 1
<1>1. /\ core.at = "publish" /\ core'.at = "pump" /\ UNCHANGED <<queues, seq>>
      /\ emitted' = Append(emitted, core.item)
  BY DEF PublishTail, RingTyped, sim
<1>2. emitted \in Seq(Message) /\ core.item \in Message /\ Len(emitted) \in Nat
  BY <1>1 DEF OrderInv, OrderTyped, Pushing
<1>3. /\ emitted' \in Seq(Message) /\ Len(emitted') = last /\ emitted'[last] = core.item
      /\ \A i \in 1 .. Len(emitted) : emitted'[i] = emitted[i]
  BY <1>1, <1>2
<1>4. InHand' = {} /\ Queued' = Queued /\ QueuesRise'
  BY <1>1 DEF InHand, Pushing, Queued, OrderInv, QueuesRise
<1>5. \A j \in 0 .. Len(emitted) :
        {emitted'[i].seq : i \in {x \in 1 .. j : emitted'[x].kind # "book"}} = Told(j)
  <2> SUFFICES ASSUME NEW j \in 0 .. Len(emitted)
               PROVE {emitted'[i].seq : i \in {x \in 1 .. j : emitted'[x].kind # "book"}} = Told(j)
    OBVIOUS
  <2>1. \A i \in 1 .. j : emitted'[i] = emitted[i]
    BY <1>2, <1>3
  <2> QED
    BY <2>1 DEF Told
<1>6. Told(Len(emitted))' = Told(Len(emitted)) \union InHand
  <2> DEFINE In(x) == emitted'[x].kind # "book"
             Now   == {emitted'[i].seq : i \in {x \in 1 .. last : In(x)}}
  <2>1. Told(Len(emitted))' = Now
    BY <1>3 DEF Told
  <2>2. 1 .. last = (1 .. Len(emitted)) \union {last}
    BY <1>2
  <2>3. Len(emitted) \in 0 .. Len(emitted)
    BY <1>2
  <2>4. InHand = IF In(last) THEN {emitted'[last].seq} ELSE {}
    BY <1>1, <1>3 DEF InHand, Pushing
  <2>5. Now = {emitted'[i].seq : i \in {x \in 1 .. Len(emitted) : In(x)}} \union InHand
    BY <2>2, <2>4
  <2> QED
    BY <1>5, <2>1, <2>3, <2>5
<1>7. Stages'
  BY <1>1, <1>4, <1>6 DEF OrderInv, Stages
<1>8. CausalOrder'
  <2> DEFINE Occurred(j) == {emitted'[i].seq : i \in {x \in 1 .. j : emitted'[x].kind # "book"}}
  <2> SUFFICES ASSUME NEW j \in 1 .. last, emitted'[j].kind # "book"
               PROVE  Occurred(j - 1) = 1 .. (emitted'[j].seq - 1)
    <3>1. DOMAIN emitted' = 1 .. last
      BY <1>3
    <3> QED
      BY <3>1 DEF CausalOrder
  <2>1. j - 1 \in 0 .. Len(emitted) /\ Occurred(j - 1) = Told(j - 1)
    BY <1>2, <1>5
  <2>2. CASE j # last
    <3>1. j \in DOMAIN emitted /\ emitted'[j] = emitted[j]
      BY <1>2, <1>3, <2>2
    <3> QED
      BY <2>1, <3>1 DEF OrderInv, CausalOrder, Told
  <2>3. CASE j = last
    <3>1. InHand = {core.item.seq} /\ core.item.seq \in Nat /\ j - 1 = Len(emitted)
      BY <1>1, <1>2, <1>3, <2>3 DEF InHand, Pushing, Message
    <3>2. /\ Told(Len(emitted)) \union {core.item.seq} \union Queued = 1 .. seq
          /\ \A m \in Told(Len(emitted)) : m < core.item.seq
          /\ \A n \in Queued : core.item.seq < n
      BY <3>1 DEF OrderInv, Stages
    <3>3. seq \in Nat /\ core.item.seq \in 1 .. seq
      BY <3>2 DEF RingTyped
    <3>4. \A m \in 1 .. seq : m \in Told(Len(emitted)) <=> m < core.item.seq
      BY <3>2, <3>3
    <3>5. Told(Len(emitted)) = 1 .. (core.item.seq - 1)
      <4>1. Told(Len(emitted)) \subseteq 1 .. seq
        BY <3>2
      <4>2. \A m : m \in 1 .. (core.item.seq - 1) <=> m \in 1 .. seq /\ m < core.item.seq
        BY <3>1, <3>3
      <4> QED
        BY <3>4, <4>1, <4>2
    <3> QED
      BY <1>3, <2>1, <2>3, <3>1, <3>5
  <2> QED
    BY <2>2, <2>3
<1>9. OrderTyped'
  BY <1>1, <1>3 DEF OrderTyped, Pushing
<1> QED
  BY <1>4, <1>7, <1>8, <1>9 DEF OrderInv

LEMMA OrderInvInit == Init => OrderInv
<1> SUFFICES ASSUME Init PROVE OrderInv
  OBVIOUS
<1>1. emitted = <<>> /\ seq = 0 /\ queues = [k \in Kinds |-> <<>>] /\ core.at = "idle"
  BY DEF Init, Idle
<1>2. Told(Len(emitted)) = {} /\ InHand = {} /\ Queued = {}
  BY <1>1 DEF Told, InHand, Queued, Pushing
<1>3. Stages
  BY <1>1, <1>2 DEF Stages
<1>4. OrderTyped /\ QueuesRise /\ CausalOrder
  BY <1>1 DEF OrderTyped, QueuesRise, CausalOrder, Pushing
<1> QED
  BY <1>3, <1>4 DEF OrderInv

LEMMA OrderInvStep == OrderInv /\ RingInv /\ RingInv' /\ [Next]_vars => OrderInv'
<1> SUFFICES ASSUME OrderInv, RingInv, RingInv', [Next]_vars PROVE OrderInv'
  OBVIOUS
<1>1. RingTyped /\ RingTyped'
  BY DEF RingInv
<1>2. CASE \E k \in Kinds : Record(k) \/ Pump(k)
  BY <1>1, <1>2, OrderRecord, OrderPump
<1>3. CASE PublishTail
  BY <1>1, <1>3, OrderPublish
<1>4. CASE EmitBookUpdate
  <2>1. CASE moved
    <3>1. core'.at = "try" /\ core'.item = Book(books + 1) /\ books \in Nat
      BY <1>1, <1>4, <2>1 DEF EmitBookUpdate, RingTyped
    <3>2. core'.item \in Message /\ core'.item.kind = "book"
      BY <3>1 DEF Book, Message
    <3>3. InHand' = InHand
      BY <1>4, <3>2 DEF EmitBookUpdate, InHand, Pushing
    <3> QED
      BY <1>1, <1>4, <3>2, <3>3, OrderQuiet DEF EmitBookUpdate
  <2>2. CASE ~moved
    <3>1. core'.at = "pump" /\ core.at = "step"
      BY <1>1, <1>4, <2>2 DEF EmitBookUpdate, RingTyped
    <3> QED
      BY <1>1, <1>4, <3>1, OrderQuiet DEF EmitBookUpdate, InHand, Pushing
  <2> QED
    BY <2>1, <2>2
<1>5. CASE Advance \/ Pumped \/ Finish
  <2>1. /\ core.at \in {"idle", "step", "pump"} /\ core'.at \in {"idle", "step", "pump"}
        /\ UNCHANGED <<queues, seq, emitted>>
    BY <1>1, <1>5 DEF Advance, Pumped, Finish, RingTyped, Idle, sim
  <2> QED
    BY <1>1, <2>1, OrderQuiet DEF InHand, Pushing
<1>6. CASE TryPush \/ WriteSlot \/ \E seen \in headCache .. head : ReloadHead(seen)
  <2>1. /\ Pushing /\ Pushing' /\ core'.item = core.item
        /\ UNCHANGED <<queues, seq, emitted>>
    BY <1>1, <1>6 DEF TryPush, WriteSlot, ReloadHead, RingTyped, Pushing, sim
  <2> QED
    BY <1>1, <2>1, OrderQuiet DEF InHand, OrderInv, OrderTyped
<1>7. CASE LoggerStep \/ UNCHANGED vars
  <2>1. UNCHANGED <<core, queues, seq, emitted>>
    BY <1>7 DEF LoggerStep, LoopAgain, TryPop, CopySlot, ReleaseHead, ReloadTail, vars, sim
  <2> QED
    BY <1>1, <2>1, OrderQuiet DEF InHand, Pushing, OrderInv, OrderTyped
<1> QED
  BY <1>2, <1>3, <1>4, <1>5, <1>6, <1>7 DEF Next, CoreStep

(* The hooks see every event the simulator records, in the order of their  *)
(* numbers, whichever queue each waited in (Strategy.hpp:155-188).         *)
THEOREM CausalOrderHolds == Spec => []CausalOrder
<1>1. Init => RingInv /\ OrderInv
  BY RingInvInit, OrderInvInit
<1>2. (RingInv /\ OrderInv) /\ [Next]_vars => (RingInv /\ OrderInv)'
  BY RingInvStep, OrderInvStep
<1>3. OrderInv => CausalOrder
  BY DEF OrderInv
<1> QED
  BY <1>1, <1>2, <1>3, PTL DEF Spec

----------------------------------------------------------------------------
(* The grid.                                                               *)

(* The tasks that were drawn are the first nextIndex ones.                 *)
Drew(i) == i \in DOMAIN tasks /\ i <= nextIndex

(* The worker that has task i, which is running or not yet labelled.       *)
Has(w, i) == worker[w].pc \in {"run", "label"} /\ worker[w].idx = i

Typed ==
  /\ Threads \in Nat \ {0}
  /\ tasks \in Seq(Nat) /\ nextIndex \in Nat /\ returned \in BOOLEAN
  /\ worker \in [Workers -> [pc : {"claim", "run", "label", "exit"}, idx : Nat]]
  /\ results \in [DOMAIN tasks -> [result : Nat, id : Nat]]
  /\ runs \in [DOMAIN tasks -> Nat]

(* No two workers have the same task, and every task one has was drawn.    *)
Owned ==
  /\ \A w \in Workers : worker[w].pc \in {"run", "label"} => Drew(worker[w].idx)
  /\ \A v, w \in Workers :
       /\ worker[v].pc \in {"run", "label"} /\ worker[w].pc \in {"run", "label"}
       /\ worker[v].idx = worker[w].idx
       => v = w

(* What has become of a task: not drawn, drawn and not run, run and not    *)
(* labelled, or finished and in nobody's hands.                            *)
Progress ==
  \A i \in DOMAIN tasks :
    \/ i > nextIndex /\ runs[i] = 0
    \/ i <= nextIndex /\ runs[i] = 0 /\ \E w \in Workers : worker[w].pc = "run" /\ worker[w].idx = i
    \/ /\ i <= nextIndex /\ runs[i] = 1 /\ results[i].result = tasks[i]
       /\ \E w \in Workers : worker[w].pc = "label" /\ worker[w].idx = i
    \/ /\ i <= nextIndex /\ runs[i] = 1 /\ results[i] = [result |-> tasks[i], id |-> tasks[i]]
       /\ \A w \in Workers : ~Has(w, i)

(* Nobody leaves before the last task was drawn.                           *)
Exits ==
  /\ \A w \in Workers : worker[w].pc = "exit" => nextIndex >= Len(tasks)
  /\ returned => \A w \in Workers : worker[w].pc = "exit"

GridInv == Typed /\ Owned /\ Progress /\ Exits

----------------------------------------------------------------------------
LEMMA GridInvInit == GridAssumption /\ GridInit => GridInv
<1> SUFFICES ASSUME GridAssumption, GridInit PROVE GridInv
  OBVIOUS
<1>1. tasks \in Seq(Nat)
  BY DEF GridAssumption, GridInit
<1>2. DOMAIN tasks = 1 .. Len(tasks) /\ Len(tasks) \in Nat
  BY <1>1
<1>3. Typed
  BY <1>1 DEF GridInit, Typed, GridAssumption
<1>4. Owned /\ Exits
  BY DEF GridInit, Owned, Exits
<1>5. Progress
  BY <1>2 DEF GridInit, Progress
<1> QED
  BY <1>3, <1>4, <1>5 DEF GridInv

(* A worker draws the next index.                                          *)
LEMMA ClaimStep ==
  ASSUME GridInv, NEW w \in Workers, Claim(w)
  PROVE  GridInv'
<1> USE DEF GridInv
<1> DEFINE n == nextIndex + 1
<1>1. tasks \in Seq(Nat) /\ DOMAIN tasks = 1 .. Len(tasks) /\ Len(tasks) \in Nat
  BY DEF Typed
<1>2. /\ nextIndex \in Nat /\ nextIndex' = n /\ worker[w].pc = "claim"
      /\ tasks' = tasks /\ results' = results /\ runs' = runs /\ returned' = returned
      /\ Workers' = Workers
  BY DEF Claim, Drawn, Typed, Workers
<1>3. /\ \A v \in Workers : v # w => worker'[v] = worker[v]
      /\ worker'[w].idx = n
      /\ worker'[w].pc = IF nextIndex >= Len(tasks) THEN "exit" ELSE "run"
  BY DEF Claim, Drawn, Typed
<1>4. Typed'
  <2>1. worker' \in [Workers -> [pc : {"claim", "run", "label", "exit"}, idx : Nat]]
    BY <1>2 DEF Claim, Drawn, Typed
  <2> QED
    BY <1>2, <2>1 DEF Typed
<1>5. Owned'
  <2>1. \A v \in Workers : worker[v].pc \in {"run", "label"} => worker[v].idx <= nextIndex
    BY DEF Owned, Drew
  <2>2. ASSUME NEW v \in Workers, worker'[v].pc \in {"run", "label"}
        PROVE  worker'[v].idx \in DOMAIN tasks /\ worker'[v].idx <= n
    <3>1. CASE v = w
      BY <1>1, <1>2, <1>3, <2>2, <3>1
    <3>2. CASE v # w
      BY <1>2, <1>3, <2>2, <3>2 DEF Owned, Drew, Typed
    <3> QED
      BY <3>1, <3>2
  <2>3. ASSUME NEW u \in Workers, NEW v \in Workers,
               worker'[u].pc \in {"run", "label"}, worker'[v].pc \in {"run", "label"},
               worker'[u].idx = worker'[v].idx
        PROVE  u = v
    <3>1. CASE u # w /\ v # w
      BY <1>3, <2>3, <3>1 DEF Owned
    <3>2. ASSUME NEW x \in Workers, x # w, worker[x].pc \in {"run", "label"}
          PROVE  worker'[x].idx # n
      BY <1>2, <1>3, <2>1, <3>2 DEF Typed
    <3> QED
      BY <1>3, <2>3, <3>1, <3>2
  <2> QED
    BY <1>2, <2>2, <2>3 DEF Owned, Drew
<1>6. Progress'
  <2> SUFFICES ASSUME NEW i \in DOMAIN tasks
               PROVE  \/ i > n /\ runs[i] = 0
                      \/ /\ i <= n /\ runs[i] = 0
                         /\ \E v \in Workers : worker'[v].pc = "run" /\ worker'[v].idx = i
                      \/ /\ i <= n /\ runs[i] = 1 /\ results[i].result = tasks[i]
                         /\ \E v \in Workers : worker'[v].pc = "label" /\ worker'[v].idx = i
                      \/ /\ i <= n /\ runs[i] = 1
                         /\ results[i] = [result |-> tasks[i], id |-> tasks[i]]
                         /\ \A v \in Workers : ~Has(v, i)'
    BY <1>2 DEF Progress, Has
  <2>1. i \in Nat /\ (i <= nextIndex => i <= n) /\ (i <= nextIndex => i # n)
    BY <1>1, <1>2
  <2>2. CASE i > nextIndex /\ runs[i] = 0
    <3>1. CASE i = n
      <4>1. worker'[w].pc = "run"
        BY <1>1, <1>2, <1>3, <3>1
      <4> QED
        BY <1>3, <2>1, <2>2, <3>1, <4>1
    <3>2. CASE i # n
      BY <1>2, <2>1, <2>2, <3>2
    <3> QED
      BY <3>1, <3>2
  <2>3. CASE /\ i <= nextIndex /\ runs[i] = 0
             /\ \E v \in Workers : worker[v].pc = "run" /\ worker[v].idx = i
    <3>1. PICK v \in Workers : worker[v].pc = "run" /\ worker[v].idx = i
      BY <2>3
    <3>2. v # w
      BY <1>2, <3>1
    <3> QED
      BY <1>3, <2>1, <2>3, <3>1, <3>2
  <2>4. CASE /\ i <= nextIndex /\ runs[i] = 1 /\ results[i].result = tasks[i]
             /\ \E v \in Workers : worker[v].pc = "label" /\ worker[v].idx = i
    <3>1. PICK v \in Workers : worker[v].pc = "label" /\ worker[v].idx = i
      BY <2>4
    <3>2. v # w
      BY <1>2, <3>1
    <3> QED
      BY <1>3, <2>1, <2>4, <3>1, <3>2
  <2>5. CASE /\ i <= nextIndex /\ runs[i] = 1
             /\ results[i] = [result |-> tasks[i], id |-> tasks[i]]
             /\ \A v \in Workers : ~Has(v, i)
    <3>1. \A v \in Workers : ~Has(v, i)'
      BY <1>3, <2>1, <2>5 DEF Has
    <3> QED
      BY <2>1, <2>5, <3>1
  <2> QED
    BY <2>2, <2>3, <2>4, <2>5 DEF Progress
<1>7. Exits'
  <2>1. ASSUME NEW v \in Workers, worker'[v].pc = "exit" PROVE n >= Len(tasks)
    <3>1. CASE v = w
      BY <1>1, <1>2, <1>3, <2>1, <3>1
    <3>2. CASE v # w
      BY <1>1, <1>2, <1>3, <2>1, <3>2 DEF Exits
    <3> QED
      BY <3>1, <3>2
  <2>2. ~returned
    BY <1>2 DEF Exits
  <2> QED
    BY <1>2, <2>1, <2>2 DEF Exits
<1> QED
  BY <1>4, <1>5, <1>6, <1>7

(* A worker runs its task.                                                 *)
LEMMA RunStep ==
  ASSUME GridInv, NEW w \in Workers, Run(w)
  PROVE  GridInv'
<1> USE DEF GridInv
<1> DEFINE t == worker[w].idx
<1>1. /\ tasks' = tasks /\ nextIndex' = nextIndex /\ returned' = returned
      /\ worker[w].pc = "run" /\ Workers' = Workers
  BY DEF Run, Workers
<1>2. t \in DOMAIN tasks /\ t <= nextIndex
  BY <1>1 DEF Owned, Drew
<1>3. tasks \in Seq(Nat) /\ DOMAIN tasks \subseteq Nat /\ tasks[t] \in Nat
  BY <1>2 DEF Typed
<1>4. /\ \A v \in Workers : v # w => worker'[v] = worker[v]
      /\ worker'[w].pc = "label" /\ worker'[w].idx = t
  BY DEF Run, Typed
<1>5. /\ \A i \in DOMAIN tasks : i # t => results'[i] = results[i] /\ runs'[i] = runs[i]
      /\ results'[t].result = tasks[t] /\ runs'[t] = runs[t] + 1
  BY <1>2 DEF Run, Typed
<1>6. Typed'
  <2>1. worker' \in [Workers -> [pc : {"claim", "run", "label", "exit"}, idx : Nat]]
    BY DEF Run, Typed
  <2>2. results' \in [DOMAIN tasks -> [result : Nat, id : Nat]]
    BY <1>2, <1>3 DEF Run, Typed
  <2>3. runs' \in [DOMAIN tasks -> Nat]
    BY <1>2 DEF Run, Typed
  <2> QED
    BY <1>1, <2>1, <2>2, <2>3 DEF Typed
<1>7. \A v \in Workers : /\ worker'[v].idx = worker[v].idx
                         /\ worker'[v].pc \in {"run", "label"} <=> worker[v].pc \in {"run", "label"}
  BY <1>1, <1>4
<1>8. Owned'
  BY <1>1, <1>7 DEF Owned, Drew
<1>9. runs[t] = 0
  <2>1. Has(w, t)
    BY <1>1 DEF Has
  <2>2. ASSUME NEW v \in Workers, worker[v].pc = "label", worker[v].idx = t PROVE FALSE
    BY <1>1, <2>2 DEF Owned
  <2> QED
    BY <1>2, <1>3, <2>1, <2>2 DEF Progress, Typed
<1>10. Progress'
  <2> SUFFICES ASSUME NEW i \in DOMAIN tasks
               PROVE  \/ i > nextIndex /\ runs'[i] = 0
                      \/ /\ i <= nextIndex /\ runs'[i] = 0
                         /\ \E v \in Workers : worker'[v].pc = "run" /\ worker'[v].idx = i
                      \/ /\ i <= nextIndex /\ runs'[i] = 1 /\ results'[i].result = tasks[i]
                         /\ \E v \in Workers : worker'[v].pc = "label" /\ worker'[v].idx = i
                      \/ /\ i <= nextIndex /\ runs'[i] = 1
                         /\ results'[i] = [result |-> tasks[i], id |-> tasks[i]]
                         /\ \A v \in Workers : ~Has(v, i)'
    BY <1>1 DEF Progress, Has
  <2>1. CASE i = t
    BY <1>2, <1>4, <1>5, <1>9, <2>1
  <2>2. CASE i # t
    <3>1. /\ results'[i] = results[i] /\ runs'[i] = runs[i]
          /\ \A v \in Workers : worker[v].idx = i => worker'[v] = worker[v]
          /\ \A v \in Workers : Has(v, i)' <=> Has(v, i)
      BY <1>1, <1>4, <1>5, <1>7, <2>2 DEF Has
    <3>2. CASE i > nextIndex /\ runs[i] = 0
      BY <3>1, <3>2
    <3>3. CASE /\ i <= nextIndex /\ runs[i] = 0
               /\ \E v \in Workers : worker[v].pc = "run" /\ worker[v].idx = i
      BY <3>1, <3>3
    <3>4. CASE /\ i <= nextIndex /\ runs[i] = 1 /\ results[i].result = tasks[i]
               /\ \E v \in Workers : worker[v].pc = "label" /\ worker[v].idx = i
      BY <3>1, <3>4
    <3>5. CASE /\ i <= nextIndex /\ runs[i] = 1
               /\ results[i] = [result |-> tasks[i], id |-> tasks[i]]
               /\ \A v \in Workers : ~Has(v, i)
      BY <3>1, <3>5
    <3> QED
      BY <3>2, <3>3, <3>4, <3>5 DEF Progress
  <2> QED
    BY <2>1, <2>2
<1>11. Exits'
  BY <1>1, <1>4 DEF Exits
<1> QED
  BY <1>6, <1>8, <1>10, <1>11

(* A worker numbers its result and is free for the next task.              *)
LEMMA LabelStep ==
  ASSUME GridInv, NEW w \in Workers, Label(w)
  PROVE  GridInv'
<1> USE DEF GridInv
<1> DEFINE t == worker[w].idx
<1>1. /\ tasks' = tasks /\ nextIndex' = nextIndex /\ returned' = returned /\ runs' = runs
      /\ worker[w].pc = "label" /\ Workers' = Workers
  BY DEF Label, Workers
<1>2. t \in DOMAIN tasks /\ t <= nextIndex
  BY <1>1 DEF Owned, Drew
<1>3. tasks \in Seq(Nat) /\ DOMAIN tasks \subseteq Nat /\ tasks[t] \in Nat
  BY <1>2 DEF Typed
<1>4. /\ \A v \in Workers : v # w => worker'[v] = worker[v]
      /\ worker'[w].pc = "claim" /\ worker'[w].idx = t
  BY DEF Label, Typed
<1>5. /\ \A i \in DOMAIN tasks : i # t => results'[i] = results[i]
      /\ results'[t] = [results[t] EXCEPT !.id = tasks[t]]
      /\ results[t] \in [result : Nat, id : Nat]
  BY <1>2 DEF Label, Typed
<1>6. Typed'
  <2>1. worker' \in [Workers -> [pc : {"claim", "run", "label", "exit"}, idx : Nat]]
    BY DEF Label, Typed
  <2>2. results' \in [DOMAIN tasks -> [result : Nat, id : Nat]]
    BY <1>3 DEF Label, Typed
  <2> QED
    BY <1>1, <2>1, <2>2 DEF Typed
<1>7. \A v \in Workers : /\ worker'[v].idx = worker[v].idx
                         /\ worker'[v].pc \in {"run", "label"} => worker[v].pc \in {"run", "label"}
  BY <1>1, <1>4
<1>8. Owned'
  BY <1>1, <1>7 DEF Owned, Drew
<1>9. runs[t] = 1 /\ results[t].result = tasks[t]
  <2>1. Has(w, t)
    BY <1>1 DEF Has
  <2>2. ~\E v \in Workers : worker[v].pc = "run" /\ worker[v].idx = t
    BY <1>1 DEF Owned
  <2>3. ~(t > nextIndex)
    BY <1>2, <1>3 DEF Typed
  <2> HIDE DEF t
  <2>4. \/ /\ runs[t] = 1 /\ results[t].result = tasks[t]
        \/ runs[t] = 1 /\ results[t] = [result |-> tasks[t], id |-> tasks[t]]
    BY <1>2, <2>2, <2>3 DEF Progress
  <2> QED
    BY <2>4
<1>10. \A v \in Workers : worker'[v].pc \in {"run", "label"} => worker'[v].idx # t
  BY <1>1, <1>4, <1>7 DEF Owned
<1>11. results'[t] = [result |-> tasks[t], id |-> tasks[t]]
  BY <1>5, <1>9
<1>12. Progress'
  <2> SUFFICES ASSUME NEW i \in DOMAIN tasks
               PROVE  \/ i > nextIndex /\ runs[i] = 0
                      \/ /\ i <= nextIndex /\ runs[i] = 0
                         /\ \E v \in Workers : worker'[v].pc = "run" /\ worker'[v].idx = i
                      \/ /\ i <= nextIndex /\ runs[i] = 1 /\ results'[i].result = tasks[i]
                         /\ \E v \in Workers : worker'[v].pc = "label" /\ worker'[v].idx = i
                      \/ /\ i <= nextIndex /\ runs[i] = 1
                         /\ results'[i] = [result |-> tasks[i], id |-> tasks[i]]
                         /\ \A v \in Workers : ~Has(v, i)'
    BY <1>1 DEF Progress, Has
  <2>1. CASE i = t
    <3>1. \A v \in Workers : ~Has(v, i)'
      BY <1>1, <1>10, <2>1 DEF Has
    <3> HIDE DEF t
    <3> QED
      BY <1>2, <1>9, <1>11, <2>1, <3>1
  <2>2. CASE i # t
    <3>1. /\ results'[i] = results[i]
          /\ \A v \in Workers : worker[v].idx = i => worker'[v] = worker[v]
          /\ \A v \in Workers : Has(v, i)' => Has(v, i)
      BY <1>1, <1>4, <1>5, <1>7, <2>2 DEF Has
    <3>2. CASE i > nextIndex /\ runs[i] = 0
      BY <3>2
    <3>3. CASE /\ i <= nextIndex /\ runs[i] = 0
               /\ \E v \in Workers : worker[v].pc = "run" /\ worker[v].idx = i
      BY <3>1, <3>3
    <3>4. CASE /\ i <= nextIndex /\ runs[i] = 1 /\ results[i].result = tasks[i]
               /\ \E v \in Workers : worker[v].pc = "label" /\ worker[v].idx = i
      BY <3>1, <3>4
    <3>5. CASE /\ i <= nextIndex /\ runs[i] = 1
               /\ results[i] = [result |-> tasks[i], id |-> tasks[i]]
               /\ \A v \in Workers : ~Has(v, i)
      BY <3>1, <3>5
    <3> QED
      BY <3>2, <3>3, <3>4, <3>5 DEF Progress
  <2> QED
    BY <2>1, <2>2
<1>13. Exits'
  BY <1>1, <1>4 DEF Exits
<1> QED
  BY <1>6, <1>8, <1>12, <1>13

(* The invariant holds in every reachable state.                           *)
LEMMA GridInvStep == GridInv /\ [GridNext]_gridVars => GridInv'
<1> SUFFICES ASSUME GridInv, [GridNext]_gridVars PROVE GridInv'
  OBVIOUS
<1>1. CASE UNCHANGED gridVars
  BY <1>1 DEF gridVars, GridInv, Typed, Owned, Progress, Exits, Drew, Has, Workers
<1>2. CASE Join
  BY <1>2 DEF Join, GridInv, Typed, Owned, Progress, Exits, Drew, Has, Workers
<1>3. ASSUME NEW w \in Workers, Claim(w) PROVE GridInv'
  BY <1>3, ClaimStep
<1>4. ASSUME NEW w \in Workers, Run(w) PROVE GridInv'
  BY <1>4, RunStep
<1>5. ASSUME NEW w \in Workers, Label(w) PROVE GridInv'
  BY <1>5, LabelStep
<1> QED
  BY <1>1, <1>2, <1>3, <1>4, <1>5 DEF GridNext

(* When everybody left every task was drawn, and one that was drawn and is *)
(* in nobody's hands is finished.                                          *)
LEMMA GridInvExact == GridInv => GridExact
<1> SUFFICES ASSUME GridInv PROVE GridExact
  OBVIOUS
<1> USE DEF GridInv
<1>1. tasks \in Seq(Nat) /\ DOMAIN tasks = 1 .. Len(tasks) /\ Len(tasks) \in Nat
  BY DEF Typed
<1>2. ASSUME NEW i \in DOMAIN tasks PROVE runs[i] <= 1
  <2>1. runs[i] = 0 \/ runs[i] = 1
    BY DEF Progress
  <2> QED
    BY <2>1
<1>3. ASSUME returned, NEW i \in DOMAIN tasks
      PROVE  runs[i] = 1 /\ results[i] = [result |-> tasks[i], id |-> tasks[i]]
  <2>1. \A w \in Workers : worker[w].pc = "exit"
    BY <1>3 DEF Exits
  <2>2. 1 \in Workers
    BY <1>1 DEF Typed, Workers
  <2>3. i <= nextIndex
    BY <1>1, <2>1, <2>2 DEF Exits, Typed
  <2> QED
    BY <1>1, <2>1, <2>3 DEF Progress, Typed
<1> QED
  BY <1>2, <1>3 DEF GridExact

(* However the workers of run_grid are scheduled, no task runs twice and   *)
(* what is returned holds at every index the result and number of the task *)
(* given there: for any number of threads and any list of tasks.           *)
THEOREM GridHolds == GridAssumption /\ GridSpec => []GridExact
<1>1. GridAssumption /\ GridInit => GridInv
  BY GridInvInit
<1>2. GridInv /\ [GridNext]_gridVars => GridInv'
  BY GridInvStep
<1>3. GridInv => GridExact
  BY GridInvExact
<1> QED
  BY <1>1, <1>2, <1>3, PTL DEF GridSpec

=============================================================================
