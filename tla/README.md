# A TLA+ model of mog

mog replays a Nasdaq TotalView-ITCH day into a limit order book and runs
strategies against it in a deterministic execution simulator. This directory
holds TLA+ modules translated from its C++ headers (`src/include/mog`), the TLC
configurations that check them on small instances, and TLAPS proofs about the
order book, its price ladder and delta ring, the event scheduler, the feed, the
execution simulator, the ring between the threads and the grid runner for every
instance. `PROJECT.json` names, for each definition, the
source lines it stands for.

1. [The system](#1-the-system)
2. [What is hard](#2-what-is-hard)
3. [The modules](#3-the-modules-and-the-code)
4. [The runs](#4-the-runs)
5. [The proofs](#5-the-proofs)
6. [Where code and words disagree](#6-where-the-code-and-its-words-disagree)
7. [What is not modelled](#7-what-is-not-modelled)
8. [Plan](#8-plan)

## 1. The system

    capture file --> MoldUDP64 framing --> ITCH decoder --> session model
                     (MoldUdp.hpp)         (Decode, Replay)  (Session.hpp)
                                               |
                                               v
             arena + id table + ladder <-- order book --> delta ring
             (Arena, RefIndex, Ladder)     (OrderBook)    (SnapshotRing)
                                               ^
                                               | apply / execute_front / add ...
      scheduler (binary heap) <----> execution simulator <---- OUCH gateway,
      (Scheduler.hpp)                (Simulate.hpp)            time travel,
                                               |               script rows
                                               v
                                      strategy pump --> SPSC ring --> logger thread
                                      (Strategy.hpp)    (SpscRing)    (strategy_e2e)

| component | state | operations | correct when |
|---|---|---|---|
| Order book (`OrderBook.hpp`) | per-tick FIFO queues through intrusive links, level aggregates, two cached best ticks | add, execute, cancel, remove, replace, execute_front, apply, audit | every queue is in arrival order, aggregates and bests equal what the queues say, a refused call changes nothing |
| Id table and arena (`Arena.hpp`, `OrderBook.hpp`) | open-addressing table from reference to handle; slots with generations, LIFO free list | find, insert, backward-shift erase; acquire, release, get | the pair is a map; a handle outlives its order only as an invalid handle |
| Price ladder (`Ladder.hpp`) | page directory over a fixed pool, word and summary masks, totals | add_qty, can_touch, best searches | it is a map from ticks to totals and the searches find its extremes |
| Delta ring (`SnapshotRing.hpp`) | ring of `LevelDelta` | push, for_each | folding the deltas gives the book's levels; a reader misses none unawares |
| Scheduler (`Scheduler.hpp`) | binary heap, slot table with generations and positions, free list | push, pop, peek, cancel, clear | pops in (timestamp, insertion) order; stale handles cancel nothing |
| Timing wheel (`TimingWheel.hpp`) | levels of bucket chains, a watermark | push, pop, peeks, cancel, clear | the same queue as the heap |
| Simulator (`Simulate.hpp`) | the book, a tracker per strategy order with units ahead, iceberg registry, hidden ledger, halt flag, bounded level map, reports and decisions | seed, seed_iceberg, submit/decide, advance_time (depletion), apply_external, cancel, replace, halt, audit | trackers mirror the book, positions never understate, quantities balance, nothing trades through |
| Strategy runner (`Strategy.hpp`) | indices into trades, reports, decisions | run_until, pump, submit | hooks hear events in sequence order, once |
| SPSC ring, logger (`SpscRing.hpp`, `tests/strategy_e2e.cpp`) | slots, two published cursors, a cached copy of each on the other side | try_push, push_spin, try_pop | what is pushed is popped, once, whole, in order |
| Capture reader (`Pcap.hpp`) | a cursor into the file | next packet | the payloads are those that were sent |
| ITCH decoder (`ITCHParser.hpp`, `Types.hpp`, `Wire.hpp`) | none | decode, encode | both decoders agree and decode what was encoded |
| MoldUDP64 framing (`MoldUdp.hpp`), replay (`Replay.hpp`), prints (`Trades.hpp`) | session, expected sequence number, messages of the current packet | packet by packet iteration, run_replay | messages heard are consecutive, or the replay fails |
| Session model (`Session.hpp`) | market phase, halt windows, imbalance snapshots, crosses | one handler per administrative message | halt queries answer for now and for past times |
| OUCH gateway (`OUCH.hpp`) | table of client orders, indices into the simulator's lists | inbound enter/replace/cancel, drain of outbound frames | every order's frames are in causal order and add up |
| Time travel (`TimeTravel.hpp`) | operation journal, cursor, a simulator rebuilt by seek | journaled operations, seek, fork | a rebuilt session equals the one that was lived |
| Script runner (`SimRun.hpp`) | rows, event log | per row: advance, act, collect | every fill is logged once, at its time |
| Column log (`ColumnLog.hpp`) | writer's streams and buffers; reader's position | add_stream, append, flush; open, pass over a stream | what is read is a prefix of what was flushed, wherever the file ends |
| Markouts (`Metrics.hpp`) | mids, pending fills, sums per horizon | add a mid, add a fill | each fill is measured once per horizon |
| Orchestrator (`Orchestrate.hpp`), grid (`GridRunner.hpp`) | several simulators; one atomic task counter | lock-step drive; parallel map | results do not depend on scheduling |
| The rest | impact, accounting statistics; digests; Arrow and Python export; CPU dispatch; allocation guard; CLI | pure functions, file and console I/O | outputs match reference vectors (tests) |

Interactions are calls, all on one thread, with two exceptions: the telemetry
logger is a second thread that shares only the SPSC ring and one atomic flag
with the core, and the grid runner has workers that share one atomic counter
and the vector of results. The simulator talks to the world through three append-only lists
(decisions, reports, trades) that the pump, the gateway and the script runner
read by index, and to itself through scheduled events.

## 2. What is hard

`PROJECT.json` lists the hazards, each at its line. In short:

* **Linked structures updated in place.** An order leaves the middle of a
  queue, its slot is reused at once (LIFO free list), its table entry is
  erased by shifting others back, and cached bests and masks must follow. One
  wrong link shows many calls later.
* **Two-level state.** The simulator mirrors book orders in trackers indexed by
  arena slot. A sweep that empties an external order can free a slot that an
  iceberg replenishment takes in the same step.
* **Three ways to bring queue positions up to date** (subtracting what was
  taken, recomputing a level, walking it when the level map is full), each with
  its own early returns.
* **Order of delivery.** Timing wheel demotion; the pump's merge; capture
  packets that are lost, late or repeated; the gateway's three lists, drained
  one after the other.
* **Indices and journals kept beside the state they speak of.** The gateway's
  and the script runner's places in the simulator's lists, the cursor of a
  journal that is cut and forked, the pending fills that are swapped while walked.
* **Weak memory.** Each side of the ring works from an arbitrarily old copy of
  the other's cursor.
* **Contracts that release builds compile out**, so that a precondition the
  code asserts is only a comment there.

* **Layouts in two places.** The fast decoder has its own offsets, sizes and
  checks beside those of the packed structures.

The one thing that outlives a crash is the column log, and its model cuts the
file anywhere. Only the ring and the grid have more than one thread.

## 3. The modules and the code

**The book in two layers.** `BookOps` is the data structure: a record with the
arena slots, the set of live ones, the id table (reference to slot), the levels
of each side (head, tail, total, count), the best ticks and the claimed pages,
and one operator per private step of `OrderBook.hpp` (`AddError`, `Insert`,
`Reduce`, ...). Level queues are the code's intrusive links (`prev`, `next`),
not sequences. `OrderBook` makes a state machine of it: one action per public
operation with every error path, and a consumer that folds the deltas through
the 32-bit field they travel in. `PriceTimeBook` is what the book promises,
plain queues of (reference, quantity) per side and price; `OrderBook` implements
it under the mapping "follow the links". Which free slot a new order gets is
left open here and pinned down in `RefIndex`.

**What the book stands on.** `RefIndex` is the probe table over the arena:
home positions are an arbitrary function of the references (chosen in `Init`),
so the properties do not lean on the hash; the free list is the code's LIFO
list; generations count modulo `GenSpan`. It implements `RefMap`. `Ladder` has
the page directory, the claim of a page on first touch, the word and summary
masks and the searches through them; it implements `LevelMap`. The order book
uses neither module's detail, only the abstract contract each is shown to
implement (`book.id` is a map, `book.level` is a map with pages), so the state
space of the book stays one that can be searched. `DeltaRing` is the ring the
deltas leave through, with the overwriting of its oldest entry.

**Event queues.** `Scheduler` and `TimingWheel` both implement `EventQueue`
(a set of pending events, the least (timestamp, insertion) one leaves). In the
wheel the property says so while callers respect the watermark (`Guarded`).

**Simulator.** `Simulator` keeps `BookOps`' book in a record beside the
trackers, the iceberg registry, the hidden ledger and the level map, and has
one action per public operation. Decisions run inside one event and hence
atomically; `Decide` takes any inbound order in any state, which covers every
order in which the event queue can deliver them. `Outcomes` is the whole of
`decide` and `cross`; properties about decisions quantify over every decision
possible in each reachable state. `drift` is a history variable naming the
levels on which the code does not bring positions up to date (see `PositionsSound`).

**Telemetry.** One core thread (advance the simulator, report the book, pump
three queues, push each event) and one logger thread, at the granularity of one
shared access per step. `headCache` and `tailCache` are the cursor copies; a
reload sees any value between the copy and the truth, which is what an acquire
load of a monotone counter promises. Copying a slot takes two steps and
yields `Torn` when the slot changed in between. `ColumnLog` is the file the
logger writes.

**From the capture to the book.** `PcapFile` builds the bytes of a capture file
from packets and reads them back as `Pcap.hpp` does. `Feed` begins with the
datagrams: a day is two sessions of messages, a capture any sequence of up to
`MaxPackets` packets drawn from everything the exchange could have sent (so
packets are lost, repeated and late), whole or cut off; a raw or length-prefixed
file is one stream of messages. `Accept`, `Refuse`, `Close` and `EndOfFile` are the
framing, `Deliver` hands the messages of the current packet to the decoder one
by one, and the handlers of the session model and of the print recorder are
inlined in it as the code calls them. `heard` is the history of what the decoder
got. `Feed` knows of the book the prices and quantities a print depends on;
cancels and replaces of the stream are left to `OrderBook`. `Codec` has the
layouts: each packed structure as a list of fields, from which offsets and
sizes follow, and next to it the fast decoder's own table of offsets.

**Callers of the simulator.** Four modules model what sits on top of it, each
with the simulator as its environment. `CallMachine` is a deterministic machine
that remembers which calls it carried out and which orders rest, that is, enough to
decide which calls are refused and to tell two histories apart; `TimeTravel`
journals its calls, seeks, cuts and forks. In `Gateway` the environment
decides, fills passively and answers; the client uses a token once and replaces
only orders it was told of. `OrderTable` is the gateway's growing hash table,
`ScriptRun` the script runner, and `Markouts` what is computed of the fills.
`Grid` runs tasks on workers at the granularity of one shared access; with one
worker the code runs the same loop on the caller's thread.

| module | code | variables and actions |
|---|---|---|
| `BookOps`, `OrderBook`, `PriceTimeBook` | `OrderBook.hpp` | book, l2; `Add`, `Execute`, `ExecuteFront`, `Remove`, `Replace`, ... |
| `RefIndex`, `RefMap` | `Arena.hpp`, table part of `OrderBook.hpp` | table, arena, free list |
| `Ladder`, `LevelMap` | `Ladder.hpp` | directory, pages, masks |
| `DeltaRing` | `SnapshotRing.hpp` | slots, head, size, next number, dropped; `PushDelta` |
| `Scheduler`, `TimingWheel`, `EventQueue` | `Scheduler.hpp`, `TimingWheel.hpp` | heap / chains, slots, free list |
| `Simulator` | `Simulate.hpp` | sim, halted, stp |
| `Telemetry` | `Strategy.hpp`, `SpscRing.hpp`, driver of `tests/strategy_e2e.cpp` | queues, cursors, two program counters |
| `ColumnLog` | `ColumnLog.hpp` | the file as cells, writer, reader; `AddStream`, `PatchCount`, append, flush, `Crash`, open, pass |
| `PcapFile` | `Pcap.hpp` | the file's bytes; a cut anywhere |
| `Feed` | `MoldUdp.hpp`, `Replay.hpp`, `Trades.hpp`, `SessionFeed.hpp`, `Session.hpp` | framing state, session model, prints |
| `Codec` | `Types.hpp`, `Wire.hpp`, `ITCHParser.hpp`, layouts and token digits of `OUCH.hpp` | the bytes received, what was sent |
| `CallMachine`, `TimeTravel` | `TimeTravel.hpp` | two sessions: journal, cursor, machine |
| `Gateway`, `OrderTable` | `OUCH.hpp` | table, indices, frames / slots, size |
| `ScriptRun` | `SimRun.hpp` | row, time, uncollected reports, events, summary |
| `Markouts` | `Metrics.hpp` | mids, pending fills, sums and counts |
| `Grid` | `GridRunner.hpp` | counter, workers, results |
| `MCOrderBook`, `MCSimulator`, `MCFeed` | - | instances and symmetry |
| `MCStructures`, `MCFrontEnds` | - | several independent modules, one of which each behaviour exercises |
| `BookLemmas`, `LoopLemmas`, `OrderBookProofs`, `StructureProofs`, `ThreadProofs`, `FeedProofs`, `SimulatorProofs`, `PositionProofs` | - | theorems (section 5) |

Definitions whose name begins with `Mut` are wrong variants of the definition
that follows them. No specification uses one; each is a plausible bug that some
property has to notice when it is put in the definition's place.

## 4. The runs

Five runs pass; the largest has well under a million distinct states.
`MCStructures` and `MCFrontEnds` put modules that do not interact side by side:
a variable `which`, chosen initially and never changed, says which of them moves,
so one run checks them all at the cost of the sum, not the product, of their
state spaces. `Ladder`, `RefIndex`, `Scheduler`, `DeltaRing`, `Feed` and `Grid` are
extended, so that runs and theorems speak of the same definitions; of the others there are instances, whose
properties are stated for the behaviours in which they move.

| run | instance | checks |
|---|---|---|
| `order_book` | 4 references, 3 slots, band 10-13, prices 9-12 and 14 (9 and 14 lie outside), pages of 2 ticks, one page per ladder, quantities 0-2, deltas 4 to a side; references and slots symmetric | `TypeOK`, `IndexExact`, `FifoExact`, `AggregatesExact`, `BestExact`, `PagesWithinPool`, `L2FoldExact`, `ImplementsPriceTime` |
| `structures`: ladder | ticks 10-19, pages of 4 in words of 2 bits, a pool of 2 for 3 pages, totals up to 2 | `MasksExact`, `SearchesExact`, `ImplementsLevelMap` |
| ref_index | 4 references, 3 slots, a table of 8, three placements of homes around its end, generations modulo 2, each slot released once at most with a handle kept | `ArenaSound`, `ImplementsRefMap` |
| heap | 2 timestamps, 6 slots, 6 pushes, one reuse per slot | `HeapSound`, `HeapIsQueue` |
| wheel | 3 levels of 2 buckets over 8 timestamps, of which 4 are used, 3 slots, 4 pushes | `BucketsInOrder`, `WheelIsQueue` |
| deltas | a ring of 4, 8 pushes | `FoldOrTold` |
| orders | a table growing from 2 to 16 slots, 4 references, 4 hash functions | `OrdersFound` |
| `simulator` | 2 external and 2 strategy references, 3 slots, 2 ticks, 4 self-trade modes, a level map of one level per side, depletion up to 2 | `TrackerMirrors`, `PositionsSound`, `ReservesQueued`, `DecisionsBalance`, `NoTradeThrough`, `RestsUncrossed` |
| `telemetry` | ring of 2, three simulator events, one book update | `RingIsFifo`, `CausalOrder`, `EverythingLogged` |
| `front_ends`: feed | 12 days of two sessions (3 and 2 messages) in captures of up to 4 packets; several hundred files of 5 messages; 2 stocks | `Continuity`, `HaltsExact`, `CrossesExact`, `PrintsExact` |
| pcap | one packet of any make (VLAN, IP options, other protocols, no UDP length, padding, cut by the snapshot length) or two, two byte orders, files cut at any byte | `PacketsExact` |
| codec | six contents of each of the seven ITCH and of the OUCH messages, undamaged, damaged or cut | `CodecExact` |
| travel | two sessions, three journaled calls together, one seeded and two submitted references, two moments | `Retraced` |
| gateway | three tokens, two entered or replaced orders, quantities 1 and 2 | `FramesTellAll` |
| script | four rows of nine kinds, quantities modulo 4, two passive fills | `FillsLogged` |
| log | two streams of one or two columns of two widths, three records, two flushes, a crash at any cell | `RowsArePrefix` |
| markouts | three horizons, three mids and two fills at four times | `MarkoutsExact` |
| grid | one, three or four tasks on three threads, with equal task numbers | `GridExact` |
| `replace_zero_ref`, `wheel_peek`, `stale_position`, `feed_loss`, `sweep_overflow`, `time_travel`, `ghost_replace` | as above, or one step larger | expected violations, see section 6 |

### Why the bounds are enough

* *Book.* Three live orders are the least at which an order can be removed from
  the middle of a queue with a neighbour on each side; a fourth reference makes
  a reused slot belong to somebody else. Two pages and a pool of one make the
  refusal of a first touch happen; two ticks per page keep a second tick on a
  claimed page usable. With a `DeltaSpan` of 4 the quantities of one operation fit (the
  code's assumption), and `Narrow` still cuts what does not.
* *Table.* A probe run of three that starts at 6 or 7 wraps around the end of
  the table, and home 0 collides with what wrapped: every branch of the
  backward-shift test is taken. A slot is released and reused with its old
  handle still in somebody's hands. The gateway's table doubles three times, with
  references that collide before the growth, after it, or both.
* *Ladder.* Four ticks a page in two words give both a word boundary inside a
  page and a page boundary; the third page is unclaimed at times, between and
  outside the claimed ones. The band of 10 ticks is no multiple of the page.
* *Queues.* Six heap entries give a right child with children, so removal from the
  middle can move the last entry either up or down. Three wheel levels
  let an event be demoted twice; two buckets a level make every bucket wrap.
* *Delta ring.* Eight pushes overwrite a ring of four completely, so a reader
  can be anywhere before, inside or behind what is left.
* *Simulator.* One iceberg with a reserve, one hidden order, two strategy
  orders and two external ones in three slots: a sweep can empty a tracked
  order, replenish into its slot and go on. A level map of one level makes the
  second level take the fallback walk (`stale_position` gives it two). More
  levels touched in a sweep than `TouchCap` are left to `sweep_overflow`, which
  has a `TouchCap` of one and sweeps three levels.
* *Ring.* With capacity 2 the ring is full, empty and wrapped with four events;
  the theorem of section 5 covers every capacity.
* *Feed.* Four packets are the least that lose a packet, take over a session,
  see a late packet of the old one and close. A file of five messages adds,
  halts, executes, resumes and ends.
* *Journals.* Three calls leave room for a seek back, a cut by a new call and a
  fork that goes on.
* *Gateway.* Two orders, one replaced by the other, with an execution on either
  side of the replacement and of a drain.
* *Column log.* Groups of one stream lie between groups of the other, rows differ
  in width, and a cut falls into the magic, the header, a group's head or its columns.
* *Markouts.* Two fills are the least at which the removal by swapping moves one;
  the times put a mid before, at and after every horizon.
* *Grid.* Four tasks on three workers: the counter runs past the end three times.

Deadlock is checked in the runs of the book, the wheel and the simulator. It is
not in the others, because the systems they model end: the driver of `telemetry`
stops after its last event, a replay, script, capture or message is read to its
end, a grid returns, and journals, logs, tables, rings and gateways stop at the
bounds on calls, pushes or references.

### Fairness

Only `Telemetry` makes liveness claims. Weak fairness of `CoreStep` and
`LoggerStep`: both are runnable operating-system threads that never block (both
sides spin), and the driver of the end-to-end test keeps advancing while events
are due. Strong fairness of `ReloadHead(head)` and `ReloadTail(tail)`: a thread
that reloads an atomic counter again and again sees its latest value in
finite time (the C++ memory model asks this of implementations), though any one
load may be stale. `Record`, which produces events, is not fair. Everything else
is a library called from one thread, which owes its caller an answer, not progress.

## 5. The proofs

All theorems hold for every value of the constants within the assumptions
named. Nothing else is assumed.

| module | theorem | says |
|---|---|---|
| `OrderBookProofs` | `TypesHold` | `Spec => []TypeOK` |
| | `IndexHolds` | `Spec => []IndexExact`: the id table lists exactly the live slots, under their references |
| | `FifoHolds` | `Spec => []FifoExact`: the links of a level are a doubly linked list of its orders in arrival order |
| | `QueuesInvariant` | the inductive invariant the three follow from |
| | `AggregatesHold` | `Spec => []AggregatesExact`: a level's total and count are those of its orders |
| | `BestHolds` | `Spec => []BestExact`: the cached best prices are the best of the resting orders |
| | `PagesHold` | `Spec => []PagesWithinPool`: no pool is overdrawn and every order has its page |
| | `FoldHolds` | `SmallInputs => (Spec => []L2FoldExact)`: folding the deltas gives the totals, if quantities fit a delta |
| | `LevelsInvariant` | the inductive invariant the four follow from |
| | `PriceTimeHolds` | `Spec => ImplementsPriceTime`: the linked book implements the plain queues of `PriceTimeBook` |
| `StructureProofs` | `TableHolds` | `TableAssumption /\ TableSpec => []RefInv`: no probe meets a hole before its entry, no reference is listed twice, and every entry leads to the live slot that holds its order |
| | `ArenaHolds` | `TableAssumption /\ MaxReleases < GenSpan /\ TableSpec => []ArenaSound`: the free list holds the idle slots, each once, and no handle to a released slot validates |
| | `TableImplements` | `TableAssumption /\ TableSpec => ImplementsRefMap`: table and arena are a map from references to distinct slots |
| | `MasksHold` | `Spec => []MasksExact`: masks, summaries and occupancy tell which levels hold quantity |
| | `LadderImplements` | `Spec => ImplementsLevelMap`: the ladder is a map from ticks to quantities |
| | `SearchesHold` | `Spec => []SearchesExact`: both searches find the nearest occupied tick or report none |
| | `SchedulerHolds` | `SchedSpec => []HeapSound`: the event heap passes its own audit |
| | `HeapImplements` | `SchedSpec => HeapIsQueue`: the heap is the event queue, and a handle never names a second event |
| | `DeltasHold` | `RingSpec => [](RingInv /\ FoldOrTold)`: a reader finds every delta it has not seen, or learns that some were dropped |
| `ThreadProofs` | `RingHolds` | `Spec => []RingIsFifo`: what was popped and what the ring holds is what was pushed |
| | `CausalOrderHolds` | `Spec => []CausalOrder`: the hooks see the simulator's events in the order in which they happened and miss none |
| | `GridHolds` | `GridSpec => []GridExact`: every task runs once and its result is in its place |
| `FeedProofs` | `ContinuityHolds` | `Spec => []Continuity`: within a stretch of a session the decoder hears consecutive messages, as they were sent |
| | `HaltsHold` | `Spec => []HaltsExact`: halt queries, for now and for past times, answer what the messages said |
| | `CrossesHold` | `Spec => []CrossesExact`: crosses and imbalance snapshots are those last told before |
| | `PrintsHold` | `Spec => []PrintsExact`: every execution is one print, at the price of the resting order, of shares that were added |
| `SimulatorProofs` | `TrackerMirrorsHolds` | `Spec => []TrackerMirrors`: trackers and strategy orders in the book are the same orders |
| | `ReservesQueuedHolds` | `FullReserves => (Spec => []ReservesQueued)`: every registered reserve has its slice in the book, where the registry says |
| | `NoTradeThroughHolds` | `FullReserves => (Spec => []NoTradeThrough)`: a decision leaves nothing better than the worst price it paid |
| | `RestsUncrossedHolds` | `ReplaceQty \subseteq Nat => (Spec => []RestsUncrossed)`: outside a halt what rests displayed meets nothing displayed |
| | `SimBookHolds` | the simulator's book keeps every invariant of `OrderBookProofs` |
| `PositionProofs` | `PositionsHold` | `Spec /\ []NotesFit(sim, stp) => []PositionsSound`: positions kept by subtraction are those a walk of the queue counts, or on a level known to be behind no smaller |
| | `PositionsHoldInBand` | `TouchCap >= Cardinality(Ticks) => (Spec => []PositionsSound)` |
| | `DecisionsBalanceHolds` | `Spec => []DecisionsBalance`: every unit a decision is asked for is filled, rests or is cancelled, and what the other side loses in value is paid for or expunged |

### The book's queues

Assumptions are those the modules state: `RefAssumption` (0 is no reference),
`SlotAssumption` (finitely many slots, at least one), `BandAssumption`,
`PageAssumption` and `InputAssumption` (callers pass integers; the delta field
is at least one bit wide and its sign).

*The invariant.* That the links of a level form one list through all its orders
is a statement about reachability along `next`, which needs induction over the
list and is out of the prover's reach. The history variable `ahead` (for each
slot, those queued earlier at its level and still there) takes its place: an
order without predecessor is its level's head and has nobody ahead, every other
has ahead of it exactly its predecessor and that one's elders, the links agree in both
directions, and the tail has everybody else ahead (`Queued`, which is `FifoExact`).
These are first-order statements about neighbours, and each operation disturbs a
bounded number of them. None of the parts is inductive alone: unlinking is
right only in a well-linked level of well-typed orders, and the order unlinked is
the one asked for only if the id table agrees with the arena. `QueuesInv` is
therefore the conjunction of `Typed`, `Indexed`, `Queued` and the types of `l2`
and `ahead`.

*The argument.* The operations are compositions of three steps:
`Insert` at the tail, `Drop` from anywhere, `Shrink` in place. For each there is a
lemma per conjunct (`InsertTyped`, `InsertIndexed`, `InsertQueued`, `DropTyped`,
...) in `BookLemmas`, which speaks of any book, so that the simulator's proofs can
cite them for the book it holds. `DropQueued`, the unlinking of a slot from the head, the middle or the tail,
is the heart of it: splitting on whether the slot has a neighbour on either side.
`AddStep`, `TakeFromStep` and `ReplaceStep` assemble them per action, and
`QueuesInvStep` over `Next`. `Replace` removes and then adds, so its second half
starts from the state the first half's lemma describes.

### The book's levels

`AggregatesExact` says a level's total as a cardinality: a resting order of
quantity q stands for the q pairs (slot, 1) ... (slot, q), and the total is the
number of pairs at the level (`Shares`). A sum over the orders of a level would need an order to add
them in; a cardinality changes by the library's facts about adding and removing
elements (`SharesSplit` cuts one order's pairs out of a level's, and
`InsertCounts`, `DropCounts` and `ShrinkCounts` say what becomes of both numbers).

`LevelsInv` adds to `QueuesInv` that the sets counted are finite, the aggregates
and the cached bests exact and the pages paid for. The parts need each other:
`Refill` recomputes a best price when the *total* of the touched level is zero,
which says that no order is left there only if aggregates are exact
(`OccupiedPrices`); and a new order may be inserted because `Claimable` was tested,
which bounds the pages.

`L2FoldExact` holds only while each quantity passed in fits the signed 32-bit
field of a delta (`SmallInputs`); the quantities of all live orders then fit too
(`Small`), as they only shrink. For larger quantities the fold is wrong in the
code as well, and the theorem says so in its hypothesis.

### The book and its queues

`PriceTimeBook` keeps sequences; the book keeps links. The mapping walks the links,
and what a walk returns is again a matter of induction. `ChainsInv` adds to
`QueuesInv` that for each level *some* sequence of slots holds its orders, once each,
and follows the links from the head to the end (`Chained`). That the walk is
this sequence (`WalkIs`, `QueueIsChain`) is proved by a least counterexample: the
least step at which walk and sequence part company cannot be the first, nor a
later one. A step of the book then appends to one chain, takes a member out of
one, or changes a quantity in it (`InsertChain`, `DropChain`, `ShrinkChains`), which
is what `Add`, `Execute`, `Cancel` and `Replace` of the abstract book do to the queue.

### The ladder

Assumption: `LadderAssumption`, the static assertions of `Ladder.hpp` and of the
simulator's configuration (a band, pages of whole words, a pool of at least one page,
totals in range). `MasksExact` is not inductive alone. A page is claimed from the
end of the pool without being cleared, so it must be known that what was not
claimed is empty and that the number of pages claimed is the number of directory
entries (`Untouched`); and the last page may reach beyond the band, where a search
must find nothing (`Inside`). `LadderInv` is the conjunction.

Most of the work is arithmetic: that a tick is determined by directory index, word
and bit, and that order on ticks is order on these three (`BitPlace`,
`QuotientOrder` and their neighbours). `SearchesExact` compares the search with the
least (or greatest) occupied tick. A search looks first in the start's own word,
then in the page's later words through the summary, then in later pages; each
stage is entered only if the earlier ones are empty, and each compares equal with
the least hit of the whole set.

### The event scheduler

Assumption: `SchedulerAssumption`, a positive capacity and natural timestamps.
`HeapSound` is the code's `audit`; three things are missing from it to make it
inductive, and `SchedInv` adds them: that entries share neither slot nor sequence
number (`Apart`), so that the backlinks determine one another; that every live slot
is held by an entry and the free list repeats none (`SlotKept`, `Repeatless`); and
that a handle's generation is at most its slot's, and equal only while the slot is
live (`HandleOld`).

*The loops.* Sifting an entry keeps the heap ordered but for the entry it moves.
Going up (`UpOrdered`) the entry may be smaller than its parent, and its parent
comes before all that is below the entry; going down (`DownOrdered`) it may be larger than
what is below it, and its parent comes before that. A turn keeps this and moves the entry
towards the root or away from it, or changes nothing, and then the heap is ordered
(`UpTurnKeeps`, `DownTurnKeeps`); so it has stopped after as many turns as there
are entries (`SiftUpIs`, `SiftDownIs`). Either way the entries are those there
were (`Shuffles`). `RemovedIs` puts this together for `remove_at`: the entry that takes the
hole's place is too small for it or too large, never both, and each test
the code makes leads to the loop that repairs it.

*The refinement.* The pending events are the entries with the handles their slots
stand for. A push adds one whose handle `HandleOld` shows to be new; that the root is
the least (`RootLeast`) follows along parents; and a cancellation takes out
the entry at the position its slot records, which is the entry that holds the slot.

### The delta ring

Assumption: `RingAssumption`, a positive size. `RingInv` says that the places
behind the head hold the last `filled` deltas, each under its sequence number: the
number behind a place is a remainder, and places less than a turn apart differ
(`RemainderAdds`). What a reader finds in `Live` from a number on is then
what was pushed from there on, or the number is older than `Base` and the count of
dropped deltas tells.

### The ring

`RingInv` says how the cursors and their cached copies lie (`Cursors`), what
each thread has found out and may rely on until it acts (`Decided`: the producer
about to write has seen room, the consumer about to copy has seen an item), and what log and
slots contain in terms of `emitted` (`Contents`). Two cursors less than a capacity
apart have different slots (`PlacesApart`), so a write never hits an item not yet
released: this is where the cached copies matter, as being behind only makes
both threads more careful. `Capacity` is any positive number; the power of two the
code asks for is needed only by its mask. The pump and its queues take part in this proof by their
types only.

`CausalOrder` is about what is pushed. `OrderInv` says that each of the three
queues of the simulator rises and no number is in two of them (`QueuesRise`), and
that the numbers handed out so far are, in this order, those told, the one in the
hands of the hook that is pushing, and those still queued (`Stages`). Picking the
least of three heads then takes the very next number, and a new event gets
a number above all of them.

### The feed

Assumption: `FeedAssumption`, that days and files consist of messages of the format.

* `FramingInv`: the messages still to be read of the packet are those the day holds
  from the expected number on (`PendingExact`), and each entry of `heard` is the
  message its session and number name, and follows its predecessor of the same
  stretch (`HeardExact`). A packet is accepted only at the expected number, and a new
  session begins a new stretch.
* `HaltsInv`: the windows answer as the trading actions heard do, now and for every
  number as the moment asked about (`WindowsExact`; `HaltsExact` asks for the times up to
  now), they begin and end at times heard, and one at most is open per instrument
  (`WindowsTyped`). Past moments are settled only while time runs forward (`InOrder`,
  `LatestLast`).
* `CrossInv`: `informative` is the set of last snapshots that said something; a cross
  copies it, and later snapshots leave the copy alone.
* `PrintsInv`: a live reference has the price of an add no delete has ended
  (`BookPriced`), which is what a print at the level's price takes over
  (`PricesExact`); what was printed of a reference together with what rests of it never
  exceeds what was added (`SharesExact`). As in the book, shares are counted as pairs
  (message, 1) ... (message, n), so sums are cardinalities. The number of prints during halts
  follows from what `HaltsInv` says at the moment of each.

### The simulator

Assumptions: those of the book and `SimAssumption` (inputs are of the types of the
interface, an iceberg displays at least one unit and no more than its total).

*The invariant.* `SimInv` says of the working state that it is typed, that its book is
good, that is, satisfies what section 5 proves of a book (`GoodBook`), that trackers
mirror the book (`Mirrored`), that the page of an iceberg is claimed
(`Placed`, without which a replenishment could be refused), and, under `FullReserves`,
that each registered iceberg has a slice in the book and nobody shares its
reference (`Covered`). It takes the reference of an order that has just been
emptied as a parameter, since between the fill and the replenishment one iceberg may
be without a slice.

*The argument.* A decision is a sweep: a loop of turns, each a loop over the orders of
one level or over the hidden orders. The loops are recursive functions of the number
of turns, and `LoopKeeps` (no least turn that breaks a property) replaces the
induction. Three relations carry what holds between the state before and after a
part: `Kin` (positions and bookkeeping may differ, the rest is the same),
`Spends` (no price appears in the book at which nothing rested, and no new strategy
order), `Trades` (a turn pays one price, the one it aimed at). From the last follows
`Paced`, that what is left is no better than the worst price paid, for every prefix of
the sweep; it holds also when self-trade prevention stops the sweep half way.

*`FullReserves`.* An iceberg seeded with a total equal to its display has no reserve.
Its registry entry is not removed when its slice is gone
(`Simulate.hpp:686-703`), and hides a later iceberg of the same reference: TLC finds reserves without a slice when an instance seeds
such icebergs and uses their reference again. The hypothesis excludes them, and the
run satisfies it. `NoTradeThrough` needs it for the same reason: that a slice comes back at the
price of the one just emptied, and not at a price the sweep has passed, is what `Covered` says.

*`RestsUncrossed`* adds that a sweep ends for one of the reasons the code gives and not
because it ran out of turns (`SweepEnds`). `TurnsLeft`, the quantity left plus the number
of live trackers, falls with every turn: a turn takes a unit or, under
self-trade prevention, removes one of the strategy's orders. The measure is a number only if no hidden
order has a negative quantity, and `replace_strategy` stores on a hidden order
whatever quantity it is given; so the theorem asks that callers replace by
natural numbers (`ReplaceQty \subseteq Nat`), as the gateway does (its quantities
are unsigned) and as the scenarios and the run do.

### The simulator's positions

*The invariant.* `PosInv` is `SimInv` with `Kept`: every tracked order counts its
position right, or too high on a level in `drift` (`Counted`), and every level with
a tracked order is in the level map or, if it was full, on the list that is scanned
instead (`Registered`). The second part is not in `PositionsSound`, but the first is not inductive
without it: the code finds the orders to subtract from through the map, and one it
does not find keeps a position that is too high.

*Counting.* The units ahead of an order are those of a set of orders (`Units`): the
cardinality of the pairs (slot, 1) ... (slot, q), as in the book's aggregates.
`WalkCounts` shows that the walk along `prev` the code makes counts those of the set
`ahead` of the book's proof. Filling the head of a queue takes as many units from
everyone behind it, removing an order takes its units from those behind and
nothing from those in front, and whatever joins at the tail is ahead of nobody.

*Sweeps.* While a decision sweeps, positions are late: a fill is noted per level and
subtracted when the sweep is over. `Positioned` takes the lateness as a parameter, a function from ticks to units
(`Late`: not for orders on the other side, nor for those whose position a replenishment has
just counted afresh), and the lemmas about turns say by how much each makes it
grow (`Later`). `Tallied` adds that the notes are exactly this function (`Noted`: one note
per level, none forgotten); settling the notes brings it back to zero
(`SettleRuns`). A sweep that `cancel_newest` stops, a replacement at its own price, and a level
that is not in the map leave something behind; `drift` names these levels.
Background flow and depletion (`HeadsRun`, `DepleteRuns`) are loops without
notes, and are brought up to date as they go.

*The hypothesis.* `NotesFit` says that no decision that could be taken now would sweep so many
levels that a note has to go into the last slot, which all further levels share
(`Simulate.hpp:776-801`). It is needed: run `sweep_overflow` shows
a position below zero without it. It is a hypothesis on the sweeps and not on
`Spec`, so that it holds of any band in which sweeps stay short; when the
buffer has room for every tick, as in the run `simulator`, it holds by itself
(`PositionsHoldInBand`).

### A decision's accounts

`DecisionsBalance` compares a state with what any decision would make of it, so
that it needs an invariant of the states (`SimInv`) and an argument about one decision.
What a side is worth, in price times quantity, is three sums: over the levels
(`LevelWorth`), the reserves of its icebergs (`ReserveWorth`) and its
non-displayed orders (`HiddenWorth`).

*Sums.* `Total` adds up a finite sequence by a recursive function. That this function
exists and does what its equation says (`TotalIs`) follows from the lemmas about loops, of which
it is an instance; changing one addend, appending one and removing one, also
by moving the last into its place as the iceberg registry does (`TotalBump`, `TotalAppend`,
`TotalSwapRemove`), then change the total by as much, by a loop that
compares the partial sums.

*What a step keeps.* Two quantities stay the same through every step of a sweep
(`Balances`): what the other side is worth plus the notional paid plus the value
expunged, and the units filled plus those still wanted.
A fill lowers the level by what it pays, and if it empties an iceberg's slice
the replenishment moves units from the reserve to the level
(`ReplenishShown`); `cancel_oldest` takes an order out of the worth and puts its value
into `expunged` (`ExpungedShown`); a hidden order gives up what is taken from it
(`TapTurnWorth`). `MatchBalances` puts the four self-trade modes together,
`SweepBalances` the turns; settling the notes changes positions only
(`SettledBalances`), and `RemainderAccounted` shows that what a sweep has left over
rests or is cancelled. Nothing is assumed beyond `Spec`, not even
`FullReserves`: a reserve whose slice is not in the book counts for what it holds.

### The id table and the arena

Assumptions are those of `TableAssumption`: the table has at least twice as many
entries as the arena has slots, and 0 is no reference. The hash is any function
(`home`), so that no theorem depends on how well it spreads.

*The table.* `TableSound` says that no reference is listed twice and that every
position a probe passes on its way to an entry is occupied (`Passes` compares
distances on the circle). With it, a probe that stops has found its reference or
proved it absent (`FindIs`); a probe stops because some entry is empty (`Room`), and
that is so because entries lend different slots (`Lent`) of which there are fewer:
a fact about the arena carries the termination of the table's loop.
Backward-shift deletion breaks `TableSound` from its first turn to its last: until the
end some entry is there twice. What it keeps is `Gapped`, that the table is sound but for
the copy in the gap, and `Shifting`, that every probe that passes the gap is for an
entry the loop has still to look at. `ShiftKeeps` is one turn (`StaysIs`: the code's test with its wrap-around cases is
the question whether the gap lies on the entry's probe), and after the turn that
meets an empty entry no probe passes the gap any more (`EraseSound`). The loop is a recursive function over
turns, and `LoopExists` with `LoopKeeps` replaces the induction.

*The arena.* That the free list is a walk through exactly the idle slots is said
by a sequence (`FreeChain`): it lists each idle slot once, and `next` is
the successor. Acquiring takes its head or raises the watermark, releasing puts a
slot in front. `Aged` says that a slot has given back exactly the generations before its present one,
which needs `MaxReleases < GenSpan`: with as many releases as generations the
counter wraps and an old handle validates again, in the model as in the code.

*The refinement* sees the table as the set of its entries. A step adds one, takes one
out, or exchanges one for another with the same slot (`Moved`): `replace` gets back the slot it has just
released, because the free list is a stack.

### The grid

`GridInv`'s parts say that the counter never falls behind an index in a worker's
hands, that two workers never hold the same one, and what a task's slot contains
depending on whether it is unclaimed, in hand or done. At the join every worker
has seen a counter past the end, hence every task is done. The number of workers,
of tasks and the tasks' numbers are arbitrary.

### What is only model-checked

* The properties of the front ends that speak of sequences built by recursion or
  by selecting from others: induction over data is out of the prover's reach.
* `BucketsInOrder` and `WheelIsQueue`, `MarkoutsExact`: `TimingWheel` and
  `Markouts` use RECURSIVE operators, which exclude them from proof.
* `EverythingLogged`: liveness.
* `OrderTable`, `Gateway`, `TimeTravel`, `ScriptRun`, `ColumnLog`: not attempted;
  see section 8.

## 6. Where the code and its words disagree

Seven runs are expected to fail. Each states what a comment, an assertion or a doc
says, and TLC shows a behaviour of the code that contradicts it; `PROJECT.json`
quotes the lines.

* `ReplaceLands` (`replace_zero_ref`): replacing an order by reference 0 passes
  validation, removes the original, fails to add, and reports success when
  contracts are compiled out.
* `PopsInOrder` (`wheel_peek`): peeking at the wheel moves the watermark past a
  time a caller may still schedule at; the event then pops late.
* `PositionsExact` (`stale_position`): a replace at the same price leaves the
  positions of the orders behind it as they were.
* `LossIsLoud` (`feed_loss`): an end-of-session packet is accepted whatever its
  sequence number, so a lost tail of a session goes unnoticed.
* `AheadNonNegative` (`sweep_overflow`): when a sweep touches more levels than the
  list of touches holds, two levels share an entry and a position goes negative.
* `Retraced` (`time_travel`): a submitted order that is pegged or not displayed
  comes back from a rewind without these marks. For other orders the property
  holds (`front_ends`).
* `ReplacedWereLive` (`ghost_replace`): replacing an order that was consumed before
  is answered with a Replaced frame for an order that does not exist.

## 7. What is not modelled

Inside the modelled parts:

* Slots of the simulator's level map are sets, not arrays; timestamps, latency
  jitter, fees and the intensities of background flow are left out of
  `Simulator` (a draw is any number up to `MaxDraw`); the digests everywhere.
* `PositionsSound` lets positions overstate on the levels in `drift`: those the
  code leaves behind after a same-price replace, after the early return of
  `cancel_newest`, and when the level map was full at the time of the walk.
  `DecisionsBalance` excepts the notional of `cancel_newest`, which the code
  does not report.
* Reusing the reference of a spent iceberg (the registry then finds the old
  entry first) and a full scheduler are outside the inputs: `Simulator` gives
  each order a reference of its own.
* The wrap of a 32-bit generation with a handle kept across it: `RefIndex` bounds
  the releases per slot below `GenSpan`.
* Strategy hooks that act on the simulator while being pumped; `size()` of the
  ring called by a third thread; a `capture` timestamp of 0, which `Session.hpp`
  also uses for "still open".
* `audit` of a time-travel session, which repairs positions without being journaled
  (positions are not part of `CallMachine`); `clear_events` while a gateway or a
  script runner holds indices into the lists, which no caller in the repository does.
* Numbers on the wire have their true widths and offsets but digits of a small
  radix; of the trades and packets only the fields that decide something exist.

Whole parts, with the reason:

* The orchestrator forwards calls to the instrument they name; a composition of
  instruments that share nothing says no more than `Simulator` does.
* Impact and accounting statistics are floating-point arithmetic; the calendar and
  the comparison of trade files are pure functions of records.
* Digests are bit arithmetic checked against vectors; Arrow, Python and
  reflection are marshalling; CPU dispatch and polyfills are library substitutes;
  the command line is argument parsing and file I/O.
* Contracts and the allocation guard have no state of their own: contracts appear
  as guards or as properties.

## 8. Plan

Done, in this order: `BookOps`/`OrderBook`/`PriceTimeBook`, `RefIndex`, `Ladder`,
`Scheduler` and `TimingWheel`, `Simulator`, `Telemetry`, `Feed`,
`OrderBookProofs`; then `DeltaRing`, `OrderTable`, the front ends (`TimeTravel`,
`Gateway`, `ScriptRun`, `ColumnLog`, `Markouts`, `Grid`, `Codec`, `PcapFile`), prints and files in
`Feed`, the proofs about the ladder, the ring between the threads and the grid;
then `FeedProofs`, the refinement of `PriceTimeBook`, `SimulatorProofs` with the
operator lemmas in `BookLemmas`, and the proofs about the id table; then those about the
event heap, with its refinement of `EventQueue`, the delta ring and, in
`PositionProofs`, the simulator's positions and the accounts of its decisions.

What could follow, in order of value:

1. A proof of `OrdersFound` for the gateway's growing table, which probes and
   erases as `RefIndex` does and also grows.
2. Proofs of the gateway's and the script runner's indices.
3. A gateway and a script runner over `Simulator` itself instead of an environment,
   once its state space allows it.
4. Strategy hooks that act on the simulator from inside the pump.
