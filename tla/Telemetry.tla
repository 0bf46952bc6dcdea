----------------------------- MODULE Telemetry -----------------------------
(***************************************************************************)
(* The path of an event from the simulator to the log: StrategyRunner      *)
(* (include/mog/Strategy.hpp) merges the simulator's three event queues by  *)
(* sequence number and hands each event to a hook, the hook pushes it into *)
(* the SPSC ring (include/mog/SpscRing.hpp), and a logger thread pops the   *)
(* ring into the log until the core stops producing and the ring is empty. *)
(*                                                                         *)
(* Two threads.  Each step is one access to shared memory.  The peer's     *)
(* cursor is read through an acquire load, which may return any value not  *)
(* older than the last one seen; a slot is written and copied without      *)
(* atomicity, so a write in progress leaves the slot Torn.                 *)
(***************************************************************************)
EXTENDS Integers, Sequences, SequencesExt, FiniteSets

CONSTANTS
  Capacity,   (* kCapacity                                                 *)
  MaxSeq,     (* bound: events the simulator produces                      *)
  MaxBook,    (* bound: changes of the top of the book reported            *)
  Torn        (* what a slot holds while it is being written               *)

ASSUME CapacityAssumption == Capacity \in Nat \ {0}
ASSUME BoundAssumption    == MaxSeq \in Nat /\ MaxBook \in Nat

Kinds   == {"trade", "fill", "ack"}
Book(n) == [kind |-> "book", seq |-> n]
Event   == [kind : Kinds, seq : 1 .. MaxSeq] \union {Book(n) : n \in 1 .. MaxBook}

VARIABLES
  queues,     (* the simulator's trades, reports and decisions             *)
  seq,        (* its sequence counter                                      *)
  core,       (* the core thread: where it is, what it is pushing          *)
  moved,      (* whether the top of the book differs from the last report  *)
  books,      (* how many such reports were made                           *)
  producing,  (* the flag the core clears when it is finished              *)
  tail, headCache, slots,     (* the ring, producer's side                 *)
  head, tailCache,            (* the ring, consumer's side                 *)
  logger,     (* the logger thread: where it is, what it has popped        *)
  log,        (* what it has appended                                      *)
  emitted     (* history: what the hooks have finished pushing             *)

sim  == <<queues, seq, moved, books>>
prod == <<tail, headCache, slots>>
cons == <<head, tailCache>>
vars == <<sim, core, producing, prod, cons, logger, log, emitted>>

Idle == [at |-> "idle", item |-> Torn]

Init ==
  /\ queues = [k \in Kinds |-> <<>>] /\ seq = 0 /\ moved = FALSE /\ books = 0
  /\ core = Idle /\ producing = TRUE
  /\ tail = 0 /\ headCache = 0 /\ slots = [i \in 0 .. (Capacity - 1) |-> Torn]
  /\ head = 0 /\ tailCache = 0
  /\ logger = Idle /\ log = <<>> /\ emitted = <<>>

----------------------------------------------------------------------------
(* The core thread, outside the ring.                                      *)

(* The simulator records one more event, ++seq_counter_: an execution made *)
(* by the driver between two steps, or anything in the course of one.      *)
Record(k) ==
  /\ core.at \in {"idle", "step"} /\ seq < MaxSeq /\ producing
  /\ seq' = seq + 1
  /\ queues' = [queues EXCEPT ![k] = Append(@, seq + 1)]
  /\ moved' \in {FALSE, books < MaxBook}
  /\ UNCHANGED <<core, books, producing, prod, cons, logger, log, emitted>>

(* advance_time and run_until start; the simulator works, then the runner  *)
(* reports the top of the book if it changed and starts to pump.           *)
Advance ==
  /\ core.at = "idle" /\ producing
  /\ core' = [core EXCEPT !.at = "step"]
  /\ UNCHANGED <<sim, producing, prod, cons, logger, log, emitted>>

EmitBookUpdate ==
  /\ core.at = "step"
  /\ core' = IF moved THEN [at |-> "try", item |-> Book(books + 1)] ELSE [core EXCEPT !.at = "pump"]
  /\ books' = IF moved THEN books + 1 ELSE books
  /\ moved' = FALSE
  /\ UNCHANGED <<queues, seq, producing, prod, cons, logger, log, emitted>>

(* Operators named Mut... are mistakes one could make in the definition    *)
(* that follows; nothing uses them.                                        *)
MutEarliest(k) == queues[k] # <<>>

(* drain_pump's comparison: k holds the smallest sequence number.          *)
Earliest(k) ==
  /\ queues[k] # <<>>
  /\ \A j \in Kinds : queues[j] # <<>> => Head(queues[k]) <= Head(queues[j])

(* drain_pump: the next event goes to its hook, which pushes it.           *)
Pump(k) ==
  /\ core.at = "pump" /\ Earliest(k)
  /\ core' = [at |-> "try", item |-> [kind |-> k, seq |-> Head(queues[k])]]
  /\ queues' = [queues EXCEPT ![k] = Tail(@)]
  /\ UNCHANGED <<seq, moved, books, producing, prod, cons, logger, log, emitted>>

(* The end of drain_pump, clear_events.                                    *)
Pumped ==
  /\ core.at = "pump" /\ \A k \in Kinds : queues[k] = <<>>
  /\ core' = Idle
  /\ UNCHANGED <<sim, producing, prod, cons, logger, log, emitted>>

(* The driver is done: everything was pumped.                              *)
Finish ==
  /\ core.at = "idle" /\ producing /\ \A k \in Kinds : queues[k] = <<>>
  /\ producing' = FALSE
  /\ UNCHANGED <<sim, core, prod, cons, logger, log, emitted>>

----------------------------------------------------------------------------
(* The producer's side of the ring: push_spin around try_push.             *)

Room(limit) == tail - limit < Capacity

(* try_push, the test against the cached cursor.                           *)
TryPush ==
  /\ core.at = "try"
  /\ core' = [core EXCEPT !.at = IF Room(headCache) THEN "write" ELSE "reload"]
  /\ UNCHANGED <<sim, producing, prod, cons, logger, log, emitted>>

(* The acquire load of the consumer's cursor; still no room: yield, again. *)
ReloadHead(seen) ==
  /\ core.at = "reload"
  /\ headCache' = seen
  /\ core' = [core EXCEPT !.at = IF Room(seen) THEN "write" ELSE "try"]
  /\ UNCHANGED <<sim, producing, tail, slots, cons, logger, log, emitted>>

(* slots_[t & kMask] = v begins, and is complete when tail is published.   *)
WriteSlot ==
  /\ core.at = "write"
  /\ slots' = [slots EXCEPT ![tail % Capacity] = Torn]
  /\ core' = [core EXCEPT !.at = "publish"]
  /\ UNCHANGED <<sim, producing, tail, headCache, cons, logger, log, emitted>>

(* The release store of tail.                                              *)
PublishTail ==
  /\ core.at = "publish"
  /\ slots' = [slots EXCEPT ![tail % Capacity] = core.item]
  /\ tail' = tail + 1
  /\ emitted' = Append(emitted, core.item)
  /\ core' = [core EXCEPT !.at = "pump"]
  /\ UNCHANGED <<sim, producing, headCache, cons, logger, log>>

----------------------------------------------------------------------------
(* The logger thread: while (producing || size() > 0) pop everything.      *)

MutLoopAgain ==
  /\ logger.at = "idle"
  /\ logger' = [logger EXCEPT !.at = IF producing THEN "pop" ELSE "done"]
  /\ UNCHANGED <<sim, core, producing, prod, cons, log, emitted>>

(* The loop's condition.  Seeing the flag cleared makes every earlier      *)
(* store of the core visible; a late view of it only costs another round.  *)
LoopAgain ==
  /\ logger.at = "idle"
  /\ logger' = [logger EXCEPT !.at = IF producing \/ tail # head THEN "pop" ELSE "done"]
  /\ UNCHANGED <<sim, core, producing, prod, cons, log, emitted>>

(* try_pop, the test against the cached cursor.                            *)
TryPop ==
  /\ logger.at = "pop"
  /\ logger' = [logger EXCEPT !.at = IF head < tailCache THEN "copy" ELSE "reload"]
  /\ UNCHANGED <<sim, core, producing, prod, cons, log, emitted>>

(* The acquire load of the producer's cursor; nothing there: round again.  *)
ReloadTail(seen) ==
  /\ logger.at = "reload"
  /\ tailCache' = seen
  /\ logger' = [logger EXCEPT !.at = IF head < seen THEN "copy" ELSE "idle"]
  /\ UNCHANGED <<sim, core, producing, prod, head, log, emitted>>

(* out = slots_[h & kMask] begins; it is complete when head is released.   *)
CopySlot ==
  /\ logger.at = "copy"
  /\ logger' = [at |-> "release", item |-> slots[head % Capacity]]
  /\ UNCHANGED <<sim, core, producing, prod, cons, log, emitted>>

(* What the copy yields: nothing sound if the slot changed under it.       *)
Copied == IF slots[head % Capacity] = logger.item THEN logger.item ELSE Torn

MutReleaseHead ==
  /\ logger.at = "release"
  /\ head' = tailCache
  /\ log' = Append(log, Copied)
  /\ logger' = [logger EXCEPT !.at = "pop"]
  /\ UNCHANGED <<sim, core, producing, prod, tailCache, emitted>>

(* The release store of head; the record is appended to its stream.        *)
ReleaseHead ==
  /\ logger.at = "release"
  /\ head' = head + 1
  /\ log' = Append(log, Copied)
  /\ logger' = [logger EXCEPT !.at = "pop"]
  /\ UNCHANGED <<sim, core, producing, prod, tailCache, emitted>>

----------------------------------------------------------------------------
CoreStep ==
  \/ Advance \/ EmitBookUpdate \/ (\E k \in Kinds : Pump(k)) \/ Pumped \/ Finish
  \/ TryPush \/ WriteSlot \/ PublishTail
  \/ \E seen \in headCache .. head : ReloadHead(seen)

LoggerStep ==
  \/ LoopAgain \/ TryPop \/ CopySlot \/ ReleaseHead
  \/ \E seen \in tailCache .. tail : ReloadTail(seen)

Next == CoreStep \/ LoggerStep \/ \E k \in Kinds : Record(k)

(* Both threads are scheduled, the driver goes on stepping while something *)
(* is due, and a thread that keeps loading a cursor sees its latest value  *)
(* in the end.                                                             *)
Fairness ==
  /\ WF_vars(CoreStep) /\ WF_vars(LoggerStep)
  /\ SF_vars(ReloadHead(head)) /\ SF_vars(ReloadTail(tail))

Spec == Init /\ [][Next]_vars /\ Fairness

----------------------------------------------------------------------------
(* Properties.                                                             *)

Held == [i \in 1 .. (tail - head) |-> slots[(head + i - 1) % Capacity]]

(* The cursors keep their order through stale loads, so the unsigned       *)
(* differences never wrap, and what the logger has written, followed by    *)
(* what the ring holds, is what the hooks pushed: nothing is lost,         *)
(* repeated, reordered or copied while it is being overwritten             *)
(* (SpscRing.hpp:35-69).                                                   *)
RingIsFifo ==
  /\ headCache <= head /\ head <= tailCache /\ tailCache <= tail
  /\ tail - headCache <= Capacity
  /\ log \o Held = emitted

(* The hooks see the simulator's events in the order they occurred and     *)
(* miss none, whichever queues they went through and however many steps    *)
(* they waited: the numbers before an event's own have been seen, and only *)
(* those (Strategy.hpp:155-188).                                           *)
CausalOrder ==
  LET Occurred(j) == {emitted[i].seq : i \in {x \in 1 .. j : emitted[x].kind # "book"}}
  IN  \A j \in DOMAIN emitted : emitted[j].kind # "book" =>
        Occurred(j - 1) = 1 .. (emitted[j].seq - 1)

(* Every event the simulator records is logged in the end, and when the    *)
(* driver stops the logger finishes with the log complete                  *)
(* (docs/API.md:68-86).                                                    *)
EverythingLogged ==
  /\ \A n \in 1 .. MaxSeq :
       seq >= n ~> \E i \in DOMAIN log : log[i].kind # "book" /\ log[i].seq = n
  /\ ~producing ~> logger.at = "done" /\ log = emitted

=============================================================================
