-------------------------------- MODULE Feed --------------------------------
(***************************************************************************)
(* Replay of a stream of messages: run_replay (include/mog/Replay.hpp) and *)
(* run_trades (Trades.hpp) take the messages from a raw or length-prefixed *)
(* file, or from a captured MoldUDP64 stream behind the framing and        *)
(* continuity check (MoldUdp.hpp), and hand each to the ITCH decoder        *)
(* (ITCHParser.hpp), which feeds order messages to the book and the print  *)
(* recorder and session messages to the session model (SessionFeed.hpp,    *)
(* Session.hpp).  The two entry points frame alike and differ in what they *)
(* sum up; here both sums are kept.                                        *)
(*                                                                         *)
(* A capture is whatever the network made of what the exchange sent: any   *)
(* packet may be missing, repeated, late or cut short, and the exchange    *)
(* may fail over from one session to another.  What was sent is fixed by   *)
(* day; each step reads one packet header or one message of the stream.    *)
(***************************************************************************)
EXTENDS Integers, Sequences, FiniteSets

CONSTANTS
  Days,        (* the days captured: a message stream per session          *)
  Files,       (* the message streams found in files without packets       *)
  Locates,     (* stock locate codes                                       *)
  MaxPackets   (* bound: packets in a capture                              *)

Executions == {"exec", "exec_at"}               (* at the level's price, at the wire's *)
Orders == Executions \union {"add", "delete"}   (* decoded, for the book   *)
Framed == {"other"}                             (* framed and skipped      *)
Codes  == {"O", "S", "Q", "M", "E", "C"}        (* system event codes      *)
Halts  == {"H", "P"}                            (* halted, paused          *)
Kinds  == Orders \union Framed \union Codes \union Halts \union {"T", "noii", "reg_sho", "garbled"}

(* Messages carry the fields of every kind; one that does not use a field  *)
(* has any value there.  Nothing is sent at midnight sharp: a window that  *)
(* ended then would be taken for an open one.                              *)
Message ==
  [kind : Kinds, locate : Locates, ts : Nat \ {0}, shares : Nat, ref : Nat, px : Int]

ASSUME FeedAssumption ==
  /\ \A d \in Days : \A s \in DOMAIN d : d[s] \in Seq(Message)
  /\ \A f \in Files : f \in Seq(Message)

VARIABLES
  format,      (* itch_raw, length_prefixed or moldudp64                   *)
  day,         (* what the exchange sent: session -> sequence of messages  *)
  hdr,         (* the header of the packet being read                      *)
  pending,     (* the messages of that packet still to be read             *)
  established, session, expected,               (* the continuity check    *)
  outcome,     (* reading, ok, or the error that ended it                  *)
  failed,      (* Chain::failed: a message did not decode                  *)
  phase, windows, latest, informative, crosses, sho, counts,   (* session::Model *)
  book,        (* the order book: live references with price and quantity  *)
  prints, tally,                                (* what the sinks sum up   *)
  heard,       (* history: what was delivered before any decoding error    *)
  stretch,     (* history: how often a session took over                   *)
  packets      (* how many headers were read                               *)

mold  == <<hdr, established, session, expected>>
model == <<phase, windows, latest, informative, crosses, sho, counts>>
sinks == <<book, prints, tally>>
vars  == <<format, day, mold, pending, outcome, failed, model, sinks, heard, stretch, packets>>

Sessions == DOMAIN day
NoHeader == [what |-> "none"]

(* What can be on the wire: runs of messages, heartbeats announcing the    *)
(* next message, and the end of a session.                                 *)
Data(s, first, last) ==
  [what |-> "data", session |-> s, seq |-> first, carried |-> SubSeq(day[s], first, last)]
Heartbeat(s, next) == [what |-> "heartbeat", session |-> s, seq |-> next, carried |-> <<>>]
End(s) == [what |-> "end", session |-> s, seq |-> Len(day[s]) + 1, carried |-> <<>>]

Packets ==
  (UNION {UNION {{Data(s, i, j) : j \in i .. Len(day[s])} : i \in 1 .. Len(day[s])} : s \in Sessions})
  \union (UNION {{Heartbeat(s, i) : i \in 1 .. (Len(day[s]) + 1)} : s \in Sessions})
  \union {End(s) : s \in Sessions}

Flat == format # "moldudp64"

(* A file without packets is one run of messages, all still to be read.    *)
Init ==
  /\ format \in {"itch_raw", "length_prefixed", "moldudp64"}
  /\ day \in IF Flat THEN {[s \in {"file"} |-> f] : f \in Files} ELSE Days
  /\ hdr = NoHeader /\ pending = IF Flat THEN day["file"] ELSE <<>>
  /\ established = Flat /\ session = IF Flat THEN "file" ELSE ""
  /\ expected = IF Flat THEN 1 ELSE 0
  /\ outcome = "reading" /\ failed = FALSE
  /\ phase = "idle" /\ windows = <<>> /\ latest = {} /\ informative = {} /\ sho = {}
  /\ crosses = [opening |-> {}, closing |-> {}, halt |-> <<>>, open_ts |-> 0, close_ts |-> 0]
  /\ counts = [system |-> 0, trading |-> 0, noii |-> 0, reg_sho |-> 0]
  /\ book = [r \in {} |-> 0] /\ prints = <<>>
  /\ tally = [failed |-> 0, unpriced |-> 0, halted |-> 0, first |-> 0, last |-> 0]
  /\ heard = <<>> /\ stretch = (IF Flat THEN 1 ELSE 0) /\ packets = 0

----------------------------------------------------------------------------
(* parse_moldudp64: headers.                                               *)

(* Operators named Mut... are mistakes one could make in the definition    *)
(* that follows; nothing uses them.                                        *)

(* A packet that (re)starts sequencing: the first one, or the first of     *)
(* another session unless it is an end of session.                         *)
TakesOver(p) == ~established \/ (p.what # "end" /\ p.session # session)

MutOutOfSequence(p) == p.what # "end" /\ ~TakesOver(p) /\ p.seq > expected

(* Any other packet must carry the expected sequence number, an end of     *)
(* session excepted: its number is not looked at.                          *)
OutOfSequence(p) == p.what # "end" /\ ~TakesOver(p) /\ p.seq # expected

Reading == ~Flat /\ outcome = "reading" /\ pending = <<>>

(* A header is loaded: the continuity check restarts or stays.             *)
Load(p) ==
  /\ Reading /\ packets < MaxPackets
  /\ packets' = packets + 1 /\ hdr' = p
  /\ established' = TRUE
  /\ session' = IF TakesOver(p) THEN p.session ELSE session
  /\ stretch' = IF TakesOver(p) THEN stretch + 1 ELSE stretch

(* expected_seq once the header was accepted.                              *)
Resume(p) == IF TakesOver(p) THEN p.seq ELSE expected

Accept(p) ==
  /\ p.what # "end" /\ ~OutOfSequence(p)
  /\ Load(p)
  /\ expected' = Resume(p)
  /\ pending' = p.carried
  /\ UNCHANGED <<format, day, outcome, failed, model, sinks, heard>>

(* sequence_gap or sequence_regression: the replay fails.                  *)
Refuse(p) ==
  /\ OutOfSequence(p)
  /\ Load(p)
  /\ outcome' = IF p.seq > expected THEN "sequence_gap" ELSE "sequence_regression"
  /\ UNCHANGED <<format, day, expected, pending, failed, model, sinks, heard>>

(* End of session: success, unless bytes follow.                           *)
Close(p, more) ==
  /\ p.what = "end"
  /\ Load(p)
  /\ expected' = Resume(p)
  /\ outcome' = IF more THEN "trailing_bytes" ELSE "ok"
  /\ UNCHANGED <<format, day, pending, failed, model, sinks, heard>>

(* The input ends: where a packet or message does, inside one, or at a     *)
(* message of length zero, which the framings with lengths refuse.         *)
EndOfFile(how) ==
  /\ outcome = "reading"
  /\ how = "whole" => pending = <<>>
  /\ how = "zero_length" => format # "itch_raw" /\ (Flat \/ pending # <<>>)
  /\ outcome' = CASE how = "whole" -> IF ~Flat /\ packets = 0 THEN "empty_stream" ELSE "ok"
                  [] how # "whole" /\ Flat -> "parse_error"
                  [] how = "zero_length" -> "bad_message_length"
                  [] how = "cut" /\ pending = <<>> -> "truncated_header"
                  [] OTHER -> "truncated_message"
  /\ UNCHANGED <<format, day, mold, pending, failed, model, sinks, heard, stretch, packets>>

----------------------------------------------------------------------------
(* The session model: one operator per handler.                            *)

Halted(l) == \E i \in DOMAIN windows : windows[i].locate = l /\ windows[i].end = 0

(* was_halted_at                                                           *)
WasHaltedAt(l, ts) ==
  \E i \in DOMAIN windows :
    /\ windows[i].locate = l /\ windows[i].start <= ts
    /\ windows[i].end = 0 \/ ts < windows[i].end

(* on_system_event: the phase; a cross when the market opens or closes.    *)
SystemEvent(m) ==
  /\ m.kind \in Codes
  /\ phase' = m.kind
  /\ crosses' = CASE m.kind = "Q" -> [crosses EXCEPT !.opening = informative, !.open_ts = m.ts]
                  [] m.kind = "M" -> [crosses EXCEPT !.closing = informative, !.close_ts = m.ts]
                  [] OTHER -> crosses
  /\ counts' = [counts EXCEPT !.system = @ + 1]
  /\ UNCHANGED <<windows, latest, informative, sho>>

(* on_trading_action: halted or paused.                                    *)
Halt(m) ==
  /\ m.kind \in Halts
  /\ windows' = IF Halted(m.locate) THEN windows
                ELSE Append(windows, [locate |-> m.locate, start |-> m.ts, end |-> 0])
  /\ counts' = [counts EXCEPT !.trading = @ + 1]
  /\ UNCHANGED <<phase, latest, informative, crosses, sho>>

MutCloses(w, m) == w.end = 0
Closes(w, m) == w.locate = m.locate /\ w.end = 0

(* on_trading_action: trading.  Once the stock has been halted, each such  *)
(* message records a cross from its last informative snapshot.             *)
Trade(m) ==
  /\ m.kind = "T"
  /\ windows' = [i \in DOMAIN windows |->
                   IF Closes(windows[i], m) THEN [windows[i] EXCEPT !.end = m.ts] ELSE windows[i]]
  /\ crosses' =
       LET known == {s \in informative : s.locate = m.locate}
       IN  IF \E i \in DOMAIN windows : windows[i].locate = m.locate
           THEN [crosses EXCEPT !.halt = IF known = {} THEN @ ELSE Append(@, known)]
           ELSE crosses
  /\ counts' = [counts EXCEPT !.trading = @ + 1]
  /\ UNCHANGED <<phase, latest, informative, sho>>

(* A map from locates to messages, as the set of its values.               *)
With(known, m) == {s \in known : s.locate # m.locate} \union {m}

MutIsInformative(m) == TRUE
IsInformative(m) == m.shares > 0

(* on_noii: a cleared imbalance must not erase the last informative one.   *)
Noii(m) ==
  /\ m.kind = "noii"
  /\ latest' = With(latest, m)
  /\ informative' = IF IsInformative(m) THEN With(informative, m) ELSE informative
  /\ counts' = [counts EXCEPT !.noii = @ + 1]
  /\ UNCHANGED <<phase, windows, crosses, sho>>

(* on_reg_sho                                                              *)
RegSho(m) ==
  /\ m.kind = "reg_sho"
  /\ sho' = With(sho, m)
  /\ counts' = [counts EXCEPT !.reg_sho = @ + 1]
  /\ UNCHANGED <<phase, windows, latest, informative, crosses>>

SessionFrame(m) ==
  /\ SystemEvent(m) \/ Halt(m) \/ Trade(m) \/ Noii(m) \/ RegSho(m)
  /\ UNCHANGED <<failed, sinks>>

----------------------------------------------------------------------------
(* The sinks: the book, and the recorder of prints.                        *)

MutAccepts(m) ==
  CASE m.kind = "add"         -> m.ref \notin DOMAIN book
    [] m.kind \in Executions -> m.ref \in DOMAIN book
    [] OTHER                  -> m.ref \in DOMAIN book

(* What the book says of a message (OrderBook::apply).                     *)
Accepts(m) ==
  CASE m.kind = "add"         -> m.ref \notin DOMAIN book
    [] m.kind \in Executions -> m.ref \in DOMAIN book /\ m.shares <= book[m.ref].qty
    [] OTHER                  -> m.ref \in DOMAIN book

Applied(m) ==
  LET left == IF m.kind = "delete" THEN 0 ELSE book[m.ref].qty - m.shares
      Set(qty, px) == [r \in DOMAIN book \union {m.ref} |->
                         IF r = m.ref THEN [px |-> px, qty |-> qty] ELSE book[r]]
  IN  CASE m.kind = "add" -> Set(m.shares, m.px)
        [] m.kind # "add" /\ left > 0 -> Set(left, book[m.ref].px)
        [] OTHER -> [r \in DOMAIN book \ {m.ref} |-> book[r]]

(* What the sinks count; first and last are the span of the timestamps.    *)
Tallied(m, done) ==
  LET run == m.kind \in Executions
  IN  [failed   |-> tally.failed + IF done THEN 0 ELSE 1,
       unpriced |-> tally.unpriced + IF run /\ ~done THEN 1 ELSE 0,
       halted   |-> tally.halted + IF run /\ done /\ WasHaltedAt(m.locate, m.ts) THEN 1 ELSE 0,
       first    |-> IF tally.first = 0 \/ m.ts < tally.first THEN m.ts ELSE tally.first,
       last     |-> IF m.ts > tally.last THEN m.ts ELSE tally.last]

(* ReplaySink::on_message and Recorder::on_message.  The match number of a *)
(* print is its place among the messages heard.                            *)
OrderMessage(m) ==
  LET done == Accepts(m)
      run  == m.kind \in Executions
  IN  /\ m.kind \in Orders
      /\ book' = IF done THEN Applied(m) ELSE book
      /\ prints' = IF ~(run /\ done) THEN prints
                   ELSE Append(prints,
                          [match |-> Len(heard) + 1, shares |-> m.shares,
                           px |-> IF m.kind = "exec_at" THEN m.px ELSE book[m.ref].px])
      /\ tally' = Tallied(m, done)
      /\ UNCHANGED <<failed, model>>

(* Framed messages nobody listens to.                                      *)
Pass(m) == m.kind \in Framed /\ UNCHANGED <<failed, model, sinks>>

(* Unknown type, wrong length, invalid side: the chain stops listening.    *)
Garbled(m) == m.kind = "garbled" /\ failed' = TRUE /\ UNCHANGED <<model, sinks>>

Decode(m) == SessionFrame(m) \/ OrderMessage(m) \/ Pass(m) \/ Garbled(m)

(* The next message, numbered by the running expectation.  A message that  *)
(* does not decode ends a replay without packets; with packets the framing *)
(* goes on and only the decoder stops.                                     *)
Deliver ==
  /\ outcome = "reading" /\ pending # <<>>
  /\ pending' = Tail(pending)
  /\ expected' = expected + 1
  /\ IF failed THEN UNCHANGED <<failed, model, sinks, heard>>
     ELSE /\ Decode(Head(pending))
          /\ heard' = Append(heard, [session |-> session, stretch |-> stretch,
                                     seq |-> expected, msg |-> Head(pending)])
  /\ outcome' = IF Flat /\ failed' THEN "parse_error" ELSE outcome
  /\ UNCHANGED <<format, day, hdr, established, session, stretch, packets>>

Next ==
  \/ \E p \in Packets : Accept(p) \/ Refuse(p) \/ \E more \in BOOLEAN : Close(p, more)
  \/ \E how \in {"whole", "cut", "zero_length"} : EndOfFile(how)
  \/ Deliver

Spec == Init /\ [][Next]_vars

----------------------------------------------------------------------------
(* Properties.                                                             *)

(* What run_replay returns: a framing error wins over a decoding error.    *)
Result == CASE outcome \in {"reading", "empty_stream", "parse_error"} -> outcome
            [] outcome = "ok" -> IF failed THEN "parse_error" ELSE "ok"
            [] OTHER -> "mold_gap"

(* Whatever the network lost, repeated or delayed: between two takeovers   *)
(* the decoder hears consecutive messages under their own numbers, and if  *)
(* the replay succeeds it heard every message it was handed                *)
(* (MoldUdp.hpp:1-4, 92-96; Replay.hpp:307-335).                           *)
Continuity ==
  /\ \A i \in DOMAIN heard : heard[i].msg = day[heard[i].session][heard[i].seq]
  /\ \A i \in 1 .. (Len(heard) - 1) :
       heard[i].stretch = heard[i + 1].stretch =>
         heard[i].session = heard[i + 1].session /\ heard[i + 1].seq = heard[i].seq + 1
  /\ heard # <<>> /\ ~failed /\ heard[Len(heard)].stretch = stretch =>
       expected = heard[Len(heard)].seq + 1
  /\ Result = "ok" => \A i \in DOMAIN heard : heard[i].msg.kind # "garbled"

Actions(l) ==
  {i \in DOMAIN heard : heard[i].msg.kind \in Halts \union {"T"} /\ heard[i].msg.locate = l}

(* Whether the last of the trading actions heard at these places halts.    *)
LastHalts(acts) == \E i \in acts : heard[i].msg.kind # "T" /\ \A j \in acts : j <= i

InOrder == \A i \in 1 .. (Len(heard) - 1) : heard[i].msg.ts <= heard[i + 1].msg.ts
Times   == 1 .. (IF heard = <<>> THEN 1 ELSE heard[Len(heard)].msg.ts + 1)

(* The halt windows answer as the last trading action before the time      *)
(* asked about would, for now and, while time runs forward in the capture, *)
(* for any past moment; a stock has at most one open window                *)
(* (Session.hpp:95-122, 147-170).                                          *)
HaltsExact ==
  \A l \in Locates :
    /\ Halted(l) <=> LastHalts(Actions(l))
    /\ InOrder => \A ts \in Times :
         WasHaltedAt(l, ts) <=> LastHalts({i \in Actions(l) : heard[i].msg.ts <= ts})
    /\ Cardinality({i \in DOMAIN windows : windows[i].locate = l /\ windows[i].end = 0}) <= 1

(* The last informative snapshots among the first n messages heard.        *)
Snapshots(n) ==
  LET noii(l) == {i \in 1 .. n : /\ heard[i].msg.kind = "noii" /\ heard[i].msg.locate = l
                                 /\ heard[i].msg.shares > 0}
  IN  UNION {{heard[i].msg : i \in {j \in noii(l) : \A k \in noii(l) : k <= j}} : l \in Locates}

(* Every execution heard is either a print or counted as unpriced; prints  *)
(* keep the order of the stream, one at the level's price carries the      *)
(* price of an add of its reference that no delete has ended, no more is   *)
(* printed of a reference than was added, and while time runs forward the  *)
(* prints during halts are those whose stock was halted by the last        *)
(* trading action heard before (Trades.hpp:28-37, 73-93).                  *)
PrintsExact ==
  LET Of(kinds, r) == {i \in DOMAIN heard : heard[i].msg.kind \in kinds /\ heard[i].msg.ref = r}
      Runs         == {i \in DOMAIN heard : heard[i].msg.kind \in Executions}
      Ref(p)       == heard[p.match].msg.ref
      Printed(r)   == {prints[i].match : i \in {x \in DOMAIN prints : Ref(prints[x]) = r}}
      Shares(S)    == Cardinality(UNION {{i} \X (1 .. heard[i].msg.shares) : i \in S})
      Before(n)    == {i \in Actions(heard[n].msg.locate) : i < n}
  IN  /\ Len(prints) + tally.unpriced = Cardinality(Runs)
      /\ \A i \in DOMAIN prints :
           LET n == prints[i].match
           IN  /\ n \in Runs /\ (i > 1 => prints[i - 1].match < n)
               /\ heard[n].msg.kind = "exec" =>
                    \E a \in Of({"add"}, Ref(prints[i])) :
                      /\ a < n /\ heard[a].msg.px = prints[i].px
                      /\ \A d \in Of({"delete"}, Ref(prints[i])) : d < a \/ d > n
               /\ Shares(Printed(Ref(prints[i]))) <= Shares(Of({"add"}, Ref(prints[i])))
      /\ InOrder => tally.halted = Cardinality({i \in DOMAIN prints : LastHalts(Before(prints[i].match))})

(* The opening and closing crosses are those of the last imbalance that    *)
(* said something before the last such event, even when the exchange has   *)
(* cleared it in between, and nothing that arrives later alters them       *)
(* (Session.hpp:124-131, 186-224).                                         *)
CrossesExact ==
  LET At(code) == {i \in DOMAIN heard : heard[i].msg.kind = code}
      From(code) == UNION {Snapshots(i) : i \in {j \in At(code) : \A k \in At(code) : k <= j}}
  IN  crosses.opening = From("Q") /\ crosses.closing = From("M")

(* A capture that stops short of what the session's end announces is never *)
(* taken for a complete one (MoldUdp.hpp:93-95).                           *)
LossIsLoud ==
  outcome = "ok" /\ hdr.what = "end" => hdr.session = session /\ hdr.seq = expected

=============================================================================
