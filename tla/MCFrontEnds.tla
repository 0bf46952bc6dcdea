----------------------------- MODULE MCFrontEnds -----------------------------
(***************************************************************************)
(* Small instances of what surrounds the simulator, one of which each      *)
(* behaviour exercises while the others rest in an initial state:          *)
(*                                                                         *)
(*   feed      captures of up to four packets of two sessions, and files   *)
(*             of five messages (MCFeed)                                   *)
(*   travel    two journals of three calls together, two strategy orders   *)
(*             and a seeded one                                            *)
(*   gateway   two orders or replacements under three tokens               *)
(*   script    four rows: an order first, then a halt, a resumption, a     *)
(*             trade, orders and a cancel at a later or the same time;     *)
(*             some rows malformed; two passive fills                      *)
(*   log       two streams of one or two columns of different widths,      *)
(*             three records, two row groups, a cut at any cell            *)
(*   markouts  three mids and two fills, at every relation of their times  *)
(*             to three horizons                                           *)
(*   grid      one to four tasks, also with equal numbers, on three        *)
(*             threads                                                     *)
(*   codec     six contents of every type of message                       *)
(*   pcap      one packet of any make, captured whole or in part, or two,  *)
(*             in files of either byte order cut at any byte               *)
(***************************************************************************)
EXTENDS MCFeed, Grid

VARIABLES
  which,
  travel, lived,
  order, decisions, reports, replaced, table, at, frames,
  script, row, prevTs, halted, open, uncollected, events, summary, makers, takers,
  file, writer, flushed, records, flushes, cut, reader,
  mids, unmeasured, sum, n, fills,
  wire, sent, damage,
  capture, buf, kept

T == INSTANCE TimeTravel WITH
  External <- {1}, Strategy <- {2, 3}, Moment <- {1, 2}, Flags <- {"displayed"}, MaxOps <- 3,
  session <- travel

G == INSTANCE Gateway WITH
  Token <- {1, 2, 3}, Share <- {1, 2}, MaxOpen <- 2

Row(kind, ts, qty, ref, flags) ==
  [kind |-> kind, ts |-> ts, qty |-> qty, ref |-> ref, flags |-> flags]

(* The quantity 6 wraps to 2, and 4 to 0.                                  *)
Rows(ts) ==
  {Row("halt", ts, 0, 0, "none"), Row("resume", ts, 0, 0, "none"), Row("trade", ts, 2, 0, "none"),
   Row("strat_ioc", ts, 6, 2, "none"), Row("strat_cancel", ts, 1, 1, "none"),
   Row("ext_add", ts, 4, 9, "none")}

MCScripts ==
  {<<>>} \union
  {<<Row("strat_limit", 1, 2, 1, "none"), a, b, c>> :
     a \in Rows(1) \union {Row("strat_ioc", 1, 1, 3, "peg"), Row("strat_limit", 1, 2, 3, "nd")},
     b \in Rows(2),
     c \in Rows(4) \union {Row("strat_limit", 2, 0, 1, "none"), Row("trade", 3, 1, 1, "unknown")}}

R == INSTANCE ScriptRun WITH
  Scripts <- MCScripts, Width <- 4, MaxFills <- 2, reports <- uncollected, counts <- summary

C == INSTANCE ColumnLog WITH
  Schemas <- {<<"u8">>, <<"u8", "u64">>, <<"u64", "u8">>},
  MaxStreams <- 2, MaxRecords <- 3, MaxFlushes <- 2

M == INSTANCE Markouts WITH
  Horizons <- <<1, 2, 4>>, Time <- {0, 2, 4, 5}, Mid2 <- {20, 23}, Price <- {9},
  MaxMids <- 3, MaxFills <- 2, pending <- unmeasured

MCGrids == {<<7>>, <<7, 8, 7>>, <<5, 6, 7, 8>>}

K == INSTANCE Codec WITH
  Radix <- 2, Patterns <- 0 .. 5

(* A UDP datagram as the exchange sends it.                                *)
Plain ==
  [vlan |-> FALSE, ip |-> TRUE, options |-> 0, udp |-> TRUE, length |-> TRUE,
   body |-> <<77, 78, 79>>, padding |-> <<>>, lost |-> 0, sec |-> 1, sub |-> 513]

(* Of every make, with or without padding; with the end of the body, of    *)
(* the UDP, IP or Ethernet header not captured.                            *)
Makes ==
  {[Plain EXCEPT !.vlan = v, !.ip = i, !.options = o, !.udp = u, !.length = l,
                 !.padding = IF x = 0 THEN <<9, 9>> ELSE <<>>, !.lost = x] :
     v, i, u, l \in BOOLEAN, o \in {-1, 0, 1}, x \in {0, 2, 8, 25, 28, 40}}

(* Byte orders and resolutions of the file.                                *)
Endings == {[swapped |-> TRUE, nano |-> FALSE], [swapped |-> FALSE, nano |-> TRUE]}

MCCaptures ==
  {[swapped |-> e.swapped, nano |-> e.nano, ethernet |-> eth, packets |-> ps] :
     e \in Endings, eth \in BOOLEAN,
     ps \in {<<>>, <<[Plain EXCEPT !.padding = <<9, 9>>], [Plain EXCEPT !.body = <<5>>, !.sec = 2]>>}
           \union {<<p>> : p \in {q \in Makes : q.ip \/ (q.options = 0 /\ q.udp /\ q.length)}}}

H == INSTANCE PcapFile WITH Captures <- MCCaptures

ASSUME T!MachineAssumption /\ G!GatewayAssumption /\ GridAssumption

feed   == <<format, day, mold, pending, outcome, failed, model, sinks, heard, stretch, packets>>
trip   == <<travel, lived>>
ouch   == <<order, decisions, reports, replaced, table, at, frames>>
runner == <<script, row, prevTs, halted, open, uncollected, events, summary, makers, takers>>
log    == <<file, writer, flushed, records, flushes, cut, reader>>
marks  == <<mids, unmeasured, sum, n, fills>>
grid   == <<tasks, nextIndex, worker, results, runs, returned>>
codec  == <<wire, sent, damage>>
pcap   == <<capture, buf, kept>>

everything == <<which, feed, trip, ouch, runner, log, marks, grid, codec, pcap>>

FrontEndsInit ==
  /\ which \in {"feed", "travel", "gateway", "script", "log", "markouts", "grid", "codec", "pcap"}
  /\ T!Init /\ G!Init /\ C!Init /\ M!Init
  /\ IF which = "feed" THEN Init
     ELSE Init /\ format = "moldudp64" /\ day = CHOOSE d \in Days : TRUE
  /\ R!Init /\ (which # "script" => script = <<>>)
  /\ GridInit /\ (which # "grid" => tasks = <<7>>)
  /\ K!Init /\ (which # "codec" => sent = K!Message("itch", "D", 0))
  /\ IF which = "pcap" THEN H!Init
     ELSE capture = [packets |-> <<>>] /\ buf = <<>> /\ kept = 0

FrontEndsNext ==
  /\ which' = which
  /\ \/ which = "feed" /\ Next
        /\ UNCHANGED <<trip, ouch, runner, log, marks, grid, codec, pcap>>
     \/ which = "travel" /\ T!Next
        /\ UNCHANGED <<feed, ouch, runner, log, marks, grid, codec, pcap>>
     \/ which = "gateway" /\ G!Next
        /\ UNCHANGED <<feed, trip, runner, log, marks, grid, codec, pcap>>
     \/ which = "script" /\ R!Next
        /\ UNCHANGED <<feed, trip, ouch, log, marks, grid, codec, pcap>>
     \/ which = "log" /\ C!Next
        /\ UNCHANGED <<feed, trip, ouch, runner, marks, grid, codec, pcap>>
     \/ which = "markouts" /\ M!Next
        /\ UNCHANGED <<feed, trip, ouch, runner, log, grid, codec, pcap>>
     \/ which = "grid" /\ GridNext
        /\ UNCHANGED <<feed, trip, ouch, runner, log, marks, codec, pcap>>
     \/ which = "codec" /\ K!Next
        /\ UNCHANGED <<feed, trip, ouch, runner, log, marks, grid, pcap>>
     \/ which = "pcap" /\ H!Next
        /\ UNCHANGED <<feed, trip, ouch, runner, log, marks, grid, codec>>

FrontEndsSpec == FrontEndsInit /\ [][FrontEndsNext]_everything

----------------------------------------------------------------------------
(* The properties are stated, and related to the code, in the modules.     *)

(* The feed: see Continuity, HaltsExact, CrossesExact and PrintsExact.     *)
(* The grid: see GridExact.                                                *)

(* Seeking in a journal leads back to the state lived through there.       *)
Retraced == which = "travel" => T!Retraced
(* The client of the gateway learns of every passive fill, once.           *)
FramesTellAll == which = "gateway" => G!FramesTellAll
(* Every fill of a script run is logged once, in order.                    *)
FillsLogged == which = "script" => R!FillsLogged
(* What is read from a column log is a prefix of what was flushed.         *)
RowsArePrefix == which = "log" => C!RowsArePrefix
(* Every fill is measured once at every horizon that was reached.          *)
MarkoutsExact == which = "markouts" => M!MarkoutsExact
(* The two decoders agree, and decode what was encoded.                    *)
CodecExact == which = "codec" => K!CodecExact
(* The packets of a capture are told as they were meant.                   *)
PacketsExact == which = "pcap" => H!PacketsExact

=============================================================================
