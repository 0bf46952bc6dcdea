----------------------------- MODULE FeedProofs -----------------------------
(***************************************************************************)
(* Proofs about the replay of captures and files: what the decoder hears,  *)
(* and what the session model and the recorder of prints make of it, for   *)
(* every day, every file and whatever packets the network delivers.        *)
(***************************************************************************)
EXTENDS Feed, TLAPS, FiniteSetTheorems

(* One message handed to the decoder.                                      *)
Entry == [session : Sessions, stretch : Nat, seq : Int, msg : Message]

FeedTyped ==
  /\ \A s \in Sessions : day[s] \in Seq(Message)
  /\ pending \in Seq(Message) /\ expected \in Int /\ stretch \in Nat
  /\ heard \in Seq(Entry)

(* What is still to be read of the packet is what was sent from the        *)
(* expected number on.                                                     *)
PendingExact ==
  /\ ~established => pending = <<>> /\ heard = <<>>
  /\ pending # <<>> => session \in Sessions
  /\ \A k \in DOMAIN pending : pending[k] = day[session][expected + k - 1]

(* What was heard, and how the last of it lies to what comes.              *)
HeardExact ==
  /\ \A i \in DOMAIN heard : heard[i].msg = day[heard[i].session][heard[i].seq]
  /\ \A i \in 1 .. (Len(heard) - 1) :
       heard[i].stretch = heard[i + 1].stretch =>
         heard[i].session = heard[i + 1].session /\ heard[i + 1].seq = heard[i].seq + 1
  /\ \A i \in DOMAIN heard : heard[i].stretch <= stretch
  /\ heard # <<>> /\ ~failed /\ heard[Len(heard)].stretch = stretch =>
       expected = heard[Len(heard)].seq + 1 /\ session = heard[Len(heard)].session
  /\ ~failed => \A i \in DOMAIN heard : heard[i].msg.kind # "garbled"

FramingInv == FeedTyped /\ PendingExact /\ HeardExact

(* The decoder hears message m.                                            *)
Hear(m) ==
  /\ ~failed /\ outcome = "reading" /\ m \in Message /\ Decode(m)
  /\ heard' = Append(heard, [session |-> session, stretch |-> stretch,
                             seq |-> expected, msg |-> m])

----------------------------------------------------------------------------
(* Framing and continuity.                                                 *)

LEMMA FramingInit == Init => FramingInv
<1> SUFFICES ASSUME Init PROVE FramingInv
  OBVIOUS
<1> USE FeedAssumption
<1>0. heard = <<>> /\ failed = FALSE
  BY DEF Init
<1>1. heard = <<>> /\ failed = FALSE /\ heard \in Seq(Entry)
  BY <1>0
<1>2. CASE Flat
  <2>1. PICK f \in Files : day = [s \in {"file"} |-> f]
    BY <1>2 DEF Init
  <2>2. f \in Seq(Message) /\ day["file"] = f /\ Sessions = {"file"}
    BY <2>1 DEF Sessions
  <2>3. pending = f /\ established /\ session = "file" /\ expected = 1 /\ stretch = 1
    BY <1>2, <2>2 DEF Init
  <2>4. \A k \in DOMAIN pending : k \in Int /\ expected + k - 1 = k
    BY <2>2, <2>3
  <2>5. PendingExact
    BY <1>1, <2>2, <2>3, <2>4 DEF PendingExact
  <2>6. FeedTyped
    BY <1>1, <2>2, <2>3 DEF FeedTyped
  <2> QED
    BY <1>1, <2>5, <2>6 DEF FramingInv, HeardExact
<1>3. CASE ~Flat
  <2>1. day \in Days /\ pending = <<>> /\ expected = 0 /\ stretch = 0
    BY <1>3 DEF Init
  <2>2. \A s \in Sessions : day[s] \in Seq(Message)
    BY <2>1 DEF Sessions
  <2>3. FeedTyped
    BY <1>1, <2>1, <2>2 DEF FeedTyped
  <2> QED
    BY <1>1, <2>1, <2>3 DEF FramingInv, HeardExact, PendingExact
<1> QED
  BY <1>2, <1>3

(* Every packet carries a run of what was sent, under its numbers.         *)
LEMMA PacketCarries ==
  ASSUME FeedTyped, NEW p \in Packets
  PROVE  /\ p.session \in Sessions /\ p.seq \in Int /\ p.carried \in Seq(Message)
         /\ \A k \in DOMAIN p.carried : p.carried[k] = day[p.session][p.seq + k - 1]
<1>1. ASSUME NEW s \in Sessions
      PROVE  day[s] \in Seq(Message) /\ Len(day[s]) \in Nat
  BY DEF FeedTyped
<1>2. ASSUME NEW s \in Sessions, NEW i \in 1 .. Len(day[s]), NEW j \in i .. Len(day[s]), p = Data(s, i, j)
      PROVE  /\ p.session \in Sessions /\ p.seq \in Int /\ p.carried \in Seq(Message)
             /\ \A k \in DOMAIN p.carried : p.carried[k] = day[p.session][p.seq + k - 1]
  <2>1. p.session = s /\ p.seq = i /\ p.carried = SubSeq(day[s], i, j)
    BY <1>2 DEF Data
  <2>2. i \in Nat /\ j \in Nat /\ i >= 1 /\ i <= j /\ j <= Len(day[s])
    BY <1>1
  <2>3. /\ p.carried \in Seq(Message) /\ Len(p.carried) = j - i + 1
        /\ \A k \in 1 .. (j - i + 1) : p.carried[k] = day[s][i + k - 1]
    BY <1>1, <2>1, <2>2
  <2> QED
    BY <2>1, <2>2, <2>3
<1>3. ASSUME NEW s \in Sessions, NEW i \in 1 .. (Len(day[s]) + 1), p = Heartbeat(s, i)
      PROVE  p.session \in Sessions /\ p.seq \in Int /\ p.carried = <<>>
  BY <1>1, <1>3 DEF Heartbeat
<1>4. ASSUME NEW s \in Sessions, p = End(s)
      PROVE  p.session \in Sessions /\ p.seq \in Int /\ p.carried = <<>>
  BY <1>1, <1>4 DEF End
<1>5. \/ \E s \in Sessions : \E i \in 1 .. Len(day[s]) : \E j \in i .. Len(day[s]) : p = Data(s, i, j)
      \/ \E s \in Sessions : \E i \in 1 .. (Len(day[s]) + 1) : p = Heartbeat(s, i)
      \/ \E s \in Sessions : p = End(s)
  <2>1. CASE p \in UNION {UNION {{Data(s, i, j) : j \in i .. Len(day[s])} : i \in 1 .. Len(day[s])}
                         : s \in Sessions}
    BY <2>1
  <2>2. CASE p \in UNION {{Heartbeat(s, i) : i \in 1 .. (Len(day[s]) + 1)} : s \in Sessions}
    BY <2>2
  <2>3. CASE p \in {End(s) : s \in Sessions}
    BY <2>3
  <2> QED
    BY <2>1, <2>2, <2>3, Zenon DEF Packets
<1>6. p.carried = <<>> => /\ p.carried \in Seq(Message)
                          /\ \A k \in DOMAIN p.carried : p.carried[k] = day[p.session][p.seq + k - 1]
  OBVIOUS
<1>7. CASE \E s \in Sessions : \E i \in 1 .. Len(day[s]) : \E j \in i .. Len(day[s]) : p = Data(s, i, j)
  BY <1>2, <1>7, Zenon
<1>8. CASE \E s \in Sessions : \E i \in 1 .. (Len(day[s]) + 1) : p = Heartbeat(s, i)
  BY <1>3, <1>6, <1>8, Zenon
<1>9. CASE \E s \in Sessions : p = End(s)
  BY <1>4, <1>6, <1>9, Zenon
<1> QED
  BY <1>5, <1>7, <1>8, <1>9, Zenon

(* A header read: nothing is heard, and what was heard stays in line with  *)
(* what is expected unless the packet takes over.                          *)
LEMMA LoadStep ==
  ASSUME FramingInv, NEW p \in Packets, Load(p), expected' \in {expected, Resume(p)},
         expected' = expected \/ TakesOver(p), pending' \in Seq(Message),
         UNCHANGED <<day, failed, heard>>
  PROVE  HeardExact' /\ FeedTyped'
<1>1. p.seq \in Int
  BY PacketCarries DEF FramingInv
<1>2. /\ pending = <<>> /\ stretch \in Nat /\ heard \in Seq(Entry) /\ expected \in Int
      /\ stretch' = (IF TakesOver(p) THEN stretch + 1 ELSE stretch)
      /\ session' = (IF TakesOver(p) THEN p.session ELSE session)
  BY DEF Load, Reading, FramingInv, FeedTyped
<1>3. expected' \in Int
  BY <1>1, <1>2 DEF Resume
<1>4. FeedTyped'
  BY <1>2, <1>3 DEF FramingInv, FeedTyped, Sessions, Entry
<1>5. HeardExact'
  <2>1. \A i \in DOMAIN heard : heard[i].stretch \in Nat /\ heard[i].stretch <= stretch
    <3>1. \A i \in DOMAIN heard : heard[i] \in Entry
      BY <1>2
    <3> QED
      BY <3>1 DEF FramingInv, HeardExact, Entry
  <2>2. CASE TakesOver(p)
    <3>1. \A i \in DOMAIN heard : heard[i].stretch <= stretch' /\ heard[i].stretch # stretch'
      BY <1>2, <2>1, <2>2
    <3>2. heard # <<>> => Len(heard) \in DOMAIN heard
      BY <1>2
    <3> QED
      BY <3>1, <3>2 DEF FramingInv, HeardExact
  <2>3. CASE ~TakesOver(p)
    BY <1>2, <2>3 DEF FramingInv, HeardExact
  <2> QED
    BY <2>2, <2>3
<1> QED
  BY <1>4, <1>5

(* The framing alone, and the decoder where it hears nothing.              *)
LEMMA QuietSteps ==
  ASSUME [Next]_vars, ~(Deliver /\ ~failed)
  PROVE  UNCHANGED <<day, failed, model, sinks, heard>>
<1>1. CASE UNCHANGED vars
  BY <1>1 DEF vars
<1>2. ASSUME NEW p \in Packets, Accept(p) PROVE UNCHANGED <<day, failed, model, sinks, heard>>
  BY <1>2 DEF Accept
<1>3. ASSUME NEW p \in Packets, Refuse(p) PROVE UNCHANGED <<day, failed, model, sinks, heard>>
  BY <1>3 DEF Refuse
<1>4. ASSUME NEW p \in Packets, NEW more \in BOOLEAN, Close(p, more)
      PROVE  UNCHANGED <<day, failed, model, sinks, heard>>
  BY <1>4 DEF Close
<1>5. ASSUME NEW how \in {"whole", "cut", "zero_length"}, EndOfFile(how)
      PROVE  UNCHANGED <<day, failed, model, sinks, heard>>
  BY <1>5 DEF EndOfFile
<1>6. CASE Deliver
  BY <1>6 DEF Deliver
<1> QED
  BY <1>1, <1>2, <1>3, <1>4, <1>5, <1>6 DEF Next

LEMMA HearsNext ==
  ASSUME FramingInv, Deliver, ~failed
  PROVE  /\ Hear(Head(pending)) /\ Head(pending) = day[session][expected] /\ session \in Sessions
         /\ UNCHANGED <<day, session, stretch>> /\ expected' = expected + 1
<1>1. pending # <<>> /\ pending \in Seq(Message)
  BY DEF Deliver, FramingInv, FeedTyped
<1>2. Head(pending) \in Message /\ Head(pending) = pending[1] /\ 1 \in DOMAIN pending
  BY <1>1
<1>3. expected + 1 - 1 = expected
  BY DEF FramingInv, FeedTyped
<1>4. pending[1] = day[session][expected] /\ session \in Sessions
  BY <1>1, <1>2, <1>3 DEF FramingInv, PendingExact
<1> QED
  BY <1>2, <1>4 DEF Deliver, Hear

LEMMA DeliverStep ==
  ASSUME FramingInv, Deliver
  PROVE  FramingInv'
<1>1. pending # <<>> /\ pending \in Seq(Message) /\ heard \in Seq(Entry)
  BY DEF Deliver, FramingInv, FeedTyped
<1>2. /\ pending' = Tail(pending) /\ expected' = expected + 1
      /\ UNCHANGED <<day, established, session, stretch>>
  BY DEF Deliver
<1>3. expected \in Int /\ stretch \in Nat
  BY DEF FramingInv, FeedTyped
<1>4. established
  BY <1>1 DEF FramingInv, PendingExact
<1>5. PendingExact'
  <2>1. Len(pending) \in Nat \ {0} /\ DOMAIN pending' = 1 .. (Len(pending) - 1)
    BY <1>1, <1>2
  <2>2. ASSUME NEW k \in DOMAIN pending' PROVE pending'[k] = day'[session'][expected' + k - 1]
    <3>1. k \in Int /\ k + 1 \in DOMAIN pending /\ pending'[k] = pending[k + 1]
      BY <1>1, <1>2, <2>1
    <3>2. pending[k + 1] = day[session][expected + (k + 1) - 1]
      BY <3>1 DEF FramingInv, PendingExact
    <3>3. expected + (k + 1) - 1 = expected' + k - 1
      BY <1>2, <1>3, <3>1
    <3> QED
      BY <1>2, <3>1, <3>2, <3>3
  <2> QED
    BY <1>1, <1>2, <1>4, <2>2 DEF FramingInv, PendingExact, Sessions
<1>6. CASE failed
  <2>1. failed' /\ heard' = heard
    BY <1>6 DEF Deliver
  <2>2. FeedTyped'
    BY <1>1, <1>2, <1>3, <2>1 DEF FramingInv, FeedTyped, Sessions, Entry
  <2>3. HeardExact'
    BY <1>2, <2>1 DEF FramingInv, HeardExact
  <2> QED
    BY <1>5, <2>2, <2>3 DEF FramingInv
<1>7. CASE ~failed
  <2> DEFINE m == Head(pending)
             e == [session |-> session, stretch |-> stretch, seq |-> expected, msg |-> m]
             last == Len(heard)
  <2>1. Hear(m) /\ m = day[session][expected] /\ session \in Sessions /\ m \in Message
    BY <1>7, HearsNext DEF Hear
  <2>2. heard' = Append(heard, e) /\ e \in Entry
    BY <1>3, <2>1 DEF Hear, Entry
  <2>3. /\ heard' \in Seq(Entry) /\ last \in Nat /\ Len(heard') = last + 1
        /\ heard'[last + 1] = e /\ \A i \in 1 .. last : heard'[i] = heard[i]
        /\ DOMAIN heard = 1 .. last /\ DOMAIN heard' = 1 .. (last + 1)
    BY <1>1, <2>2
  <2>4. FeedTyped'
    BY <1>1, <1>2, <1>3, <2>3 DEF FramingInv, FeedTyped, Sessions, Entry
  <2>5. ASSUME ~failed' PROVE m.kind # "garbled"
    BY <2>1, <2>5 DEF Hear, Decode, SessionFrame, SystemEvent, Halt, Trade, Noii, RegSho,
         OrderMessage, Pass, Garbled, Orders, Executions, Framed, Codes, Halts
  <2>6. HeardExact'
    <3>1. \A i \in DOMAIN heard' : heard'[i].msg = day'[heard'[i].session][heard'[i].seq]
      BY <1>2, <2>1, <2>3 DEF FramingInv, HeardExact
    <3>2. \A i \in DOMAIN heard' : heard'[i].stretch <= stretch'
      BY <1>2, <1>3, <2>3 DEF FramingInv, HeardExact
    <3>3. ~failed' => \A i \in DOMAIN heard' : heard'[i].msg.kind # "garbled"
      BY <1>7, <2>3, <2>5 DEF FramingInv, HeardExact
    <3>4. expected' = heard'[last + 1].seq + 1 /\ session' = heard'[last + 1].session
      BY <1>2, <2>3
    <3>5. ASSUME NEW i \in 1 .. last, heard'[i].stretch = heard'[i + 1].stretch
          PROVE  heard'[i].session = heard'[i + 1].session /\ heard'[i + 1].seq = heard'[i].seq + 1
      <4>1. CASE i = last
        <5>1. heard # <<>> /\ heard'[i] = heard[last] /\ heard'[i + 1] = e
          BY <2>3, <3>5, <4>1
        <5>2. heard[last].stretch = stretch
          BY <3>5, <5>1
        <5> QED
          BY <1>7, <5>1, <5>2 DEF FramingInv, HeardExact
      <4>2. CASE i # last
        <5>0. last \in Nat
          BY <2>3
        <5>1. i \in 1 .. (last - 1) /\ i + 1 \in 1 .. last
          BY <4>2, <5>0
        <5> QED
          BY <2>3, <3>5, <5>1 DEF FramingInv, HeardExact
      <4> QED
        BY <4>1, <4>2
    <3>6. Len(heard') - 1 = last
      BY <2>3
    <3> QED
      BY <2>3, <3>1, <3>2, <3>3, <3>4, <3>5, <3>6 DEF HeardExact
  <2> QED
    BY <1>5, <2>4, <2>6 DEF FramingInv
<1> QED
  BY <1>6, <1>7

LEMMA FramingStep == FramingInv /\ [Next]_vars => FramingInv'
<1> SUFFICES ASSUME FramingInv, [Next]_vars PROVE FramingInv'
  OBVIOUS
<1>1. ASSUME NEW p \in Packets, Accept(p) PROVE FramingInv'
  <2>1. /\ Load(p) /\ ~OutOfSequence(p) /\ p.what # "end" /\ expected' = Resume(p)
        /\ pending' = p.carried /\ UNCHANGED <<day, failed, heard>>
    BY <1>1 DEF Accept
  <2>2. expected' = p.seq /\ session' = p.session /\ established'
    BY <2>1 DEF Load, OutOfSequence, Resume, TakesOver
  <2>3. /\ p.session \in Sessions /\ p.seq \in Int /\ p.carried \in Seq(Message)
        /\ \A k \in DOMAIN p.carried : p.carried[k] = day[p.session][p.seq + k - 1]
    BY PacketCarries DEF FramingInv
  <2>4. PendingExact'
    BY <2>1, <2>2, <2>3 DEF PendingExact, Sessions
  <2>5. expected' = expected \/ TakesOver(p)
    BY <2>1 DEF Resume
  <2> QED
    BY <2>1, <2>3, <2>4, <2>5, LoadStep DEF FramingInv
<1>2. ASSUME NEW p \in Packets, NEW more \in BOOLEAN, Refuse(p) \/ Close(p, more) PROVE FramingInv'
  <2>1. /\ Load(p) /\ expected' \in {expected, Resume(p)} /\ (expected' = expected \/ TakesOver(p))
        /\ UNCHANGED <<day, pending, failed, heard>>
    BY <1>2 DEF Refuse, Close, Resume
  <2>2. pending = <<>> /\ established' /\ pending' \in Seq(Message)
    BY <2>1 DEF Load, Reading
  <2>3. PendingExact'
    BY <2>1, <2>2 DEF PendingExact
  <2> QED
    BY <2>1, <2>2, <2>3, LoadStep DEF FramingInv
<1>3. ASSUME UNCHANGED <<day, pending, expected, established, session, stretch, failed, heard>>
      PROVE  FramingInv'
  BY <1>3 DEF FramingInv, FeedTyped, PendingExact, HeardExact, Sessions, Entry
<1>4. ASSUME NEW how \in {"whole", "cut", "zero_length"}, EndOfFile(how) PROVE FramingInv'
  BY <1>3, <1>4 DEF EndOfFile, mold
<1>5. CASE UNCHANGED vars
  BY <1>3, <1>5 DEF vars, mold
<1> QED
  BY <1>1, <1>2, <1>4, <1>5, DeliverStep DEF Next

LEMMA FramingContinuity == FramingInv => Continuity
BY DEF FramingInv, HeardExact, Continuity, Result

(* Whatever the network lost, repeated or delayed, the decoder hears       *)
(* consecutive messages under their own numbers, and a replay that         *)
(* succeeds heard nothing it could not decode (MoldUdp.hpp:1-4, 92-96).    *)
THEOREM ContinuityHolds == Spec => []Continuity
<1>1. FramingInv => Continuity
  BY FramingContinuity
<1> QED
  BY <1>1, FramingInit, FramingStep, PTL DEF Spec

----------------------------------------------------------------------------
(* What one more message does to the history.                              *)

LEMMA HeardGrows ==
  ASSUME FeedTyped, NEW m, Hear(m)
  PROVE  LET n == Len(heard) + 1
         IN  /\ n \in Nat /\ Len(heard') = n /\ DOMAIN heard = 1 .. (n - 1)
             /\ DOMAIN heard' = 1 .. n /\ DOMAIN heard' = DOMAIN heard \union {n}
             /\ n \notin DOMAIN heard /\ heard'[n].msg = m
             /\ \A i \in DOMAIN heard : heard'[i] = heard[i] /\ i \in Nat /\ i < n
<1> DEFINE e == [session |-> session, stretch |-> stretch, seq |-> expected, msg |-> m]
<1>1. heard \in Seq(Entry) /\ heard' = Append(heard, e) /\ e.msg = m
  BY DEF FeedTyped, Hear
<1> HIDE DEF e
<1>2. Len(heard) \in Nat /\ DOMAIN heard = 1 .. Len(heard)
  BY <1>1
<1>3. /\ Len(heard') = Len(heard) + 1 /\ DOMAIN heard' = 1 .. (Len(heard) + 1)
      /\ heard'[Len(heard) + 1] = e /\ \A i \in DOMAIN heard : heard'[i] = heard[i]
  BY <1>1, <1>2
<1> QED
  BY <1>1, <1>2, <1>3

LEMMA HeardTyped ==
  ASSUME FeedTyped, NEW i \in DOMAIN heard
  PROVE  /\ heard[i].msg \in Message /\ heard[i].msg.ts \in Nat \ {0}
         /\ heard[i].msg.locate \in Locates /\ heard[i].msg.kind \in Kinds
         /\ heard[i].msg.shares \in Nat /\ heard[i].msg.ref \in Nat /\ heard[i].msg.px \in Int
<1>1. heard[i] \in Entry
  BY DEF FeedTyped
<1> QED
  BY <1>1 DEF Entry, Message

(* While time runs forward, the latest message has the latest time.        *)
LatestLast == InOrder => \A i \in DOMAIN heard : heard[i].msg.ts <= heard[Len(heard)].msg.ts

LEMMA TimeGrows ==
  ASSUME FeedTyped, LatestLast, NEW m, Hear(m)
  PROVE  /\ InOrder' => InOrder /\ \A i \in DOMAIN heard : heard[i].msg.ts <= m.ts
         /\ LatestLast'
<1> DEFINE n == Len(heard) + 1
<1>1. /\ n \in Nat /\ Len(heard') = n /\ DOMAIN heard = 1 .. (n - 1)
      /\ DOMAIN heard' = DOMAIN heard \union {n}
      /\ heard'[n].msg = m /\ \A i \in DOMAIN heard : heard'[i] = heard[i]
  BY HeardGrows
<1>2. Len(heard) = n - 1 /\ m.ts \in Nat
  BY <1>1 DEF Hear, Message, FeedTyped
<1> HIDE DEF n
<1>3. ASSUME InOrder' PROVE InOrder /\ \A i \in DOMAIN heard : heard[i].msg.ts <= m.ts
  <2>1. \A i \in 1 .. (n - 1) : heard'[i].msg.ts <= heard'[i + 1].msg.ts
    BY <1>1, <1>3 DEF InOrder
  <2>2. InOrder
    <3> SUFFICES ASSUME NEW i \in 1 .. (n - 2) PROVE heard[i].msg.ts <= heard[i + 1].msg.ts
      BY <1>1, <1>2 DEF InOrder
    <3>1. i \in 1 .. (n - 1) /\ i + 1 \in 1 .. (n - 1)
      BY <1>1
    <3> QED
      BY <1>1, <2>1, <3>1
  <2>3. CASE DOMAIN heard = {}
    BY <2>2, <2>3
  <2>4. CASE DOMAIN heard # {}
    <3>1. n - 1 \in DOMAIN heard /\ n - 1 + 1 = n
      BY <1>1, <2>4
    <3>2. heard[n - 1].msg.ts <= m.ts
      BY <1>1, <2>1, <3>1
    <3>3. \A i \in DOMAIN heard : heard[i].msg.ts <= heard[n - 1].msg.ts
      BY <1>2, <2>2 DEF LatestLast
    <3>4. \A i \in DOMAIN heard : heard[i].msg.ts \in Nat
      BY HeardTyped
    <3> QED
      BY <1>2, <2>2, <3>1, <3>2, <3>3, <3>4
  <2> QED
    BY <2>3, <2>4
<1>4. LatestLast'
  BY <1>1, <1>2, <1>3 DEF LatestLast
<1> QED
  BY <1>3, <1>4

----------------------------------------------------------------------------
(* The halt windows.                                                       *)

Until(l, ts) == {i \in Actions(l) : heard[i].msg.ts <= ts}
Acts(m, l)   == m.kind \in Halts \union {"T"} /\ m.locate = l

(* Windows begin and end at times heard, and are open one at a time.       *)
WindowsTyped ==
  /\ windows \in Seq([locate : Locates, start : Nat, end : Nat])
  /\ \A w \in DOMAIN windows :
       /\ \E i \in DOMAIN heard : windows[w].start = heard[i].msg.ts
       /\ windows[w].end # 0 => \E i \in DOMAIN heard : windows[w].end = heard[i].msg.ts
  /\ \A v, w \in DOMAIN windows :
       windows[v].end = 0 /\ windows[w].end = 0 /\ windows[v].locate = windows[w].locate => v = w

(* They answer as the history does, now and for any time.                  *)
WindowsExact ==
  \A l \in Locates :
    /\ Halted(l) <=> LastHalts(Actions(l))
    /\ InOrder => \A ts \in Nat : WasHaltedAt(l, ts) <=> LastHalts(Until(l, ts))

HaltsInv == LatestLast /\ WindowsTyped /\ WindowsExact

LEMMA ActionsGrow ==
  ASSUME FeedTyped, NEW m, Hear(m), NEW l \in Locates, NEW ts \in Nat
  PROVE  /\ LastHalts(Actions(l))' <=>
              IF Acts(m, l) THEN m.kind # "T" ELSE LastHalts(Actions(l))
         /\ LastHalts(Until(l, ts))' <=>
              IF Acts(m, l) /\ m.ts <= ts THEN m.kind # "T" ELSE LastHalts(Until(l, ts))
<1> DEFINE n == Len(heard) + 1
<1>1. /\ n \in Nat /\ DOMAIN heard' = DOMAIN heard \union {n} /\ n \notin DOMAIN heard
      /\ heard'[n].msg = m
      /\ \A i \in DOMAIN heard : heard'[i] = heard[i] /\ i \in Nat /\ i < n
  BY HeardGrows
<1> HIDE DEF n
<1> DEFINE Last(h, S) == \E i \in S : h[i].msg.kind # "T" /\ \A j \in S : j <= i
<1>2. ASSUME NEW S \in SUBSET DOMAIN heard PROVE Last(heard', S) <=> Last(heard, S)
  BY <1>1
<1>3. ASSUME NEW S \in SUBSET DOMAIN heard PROVE Last(heard', S \union {n}) <=> m.kind # "T"
  BY <1>1
<1>4. Actions(l)' = IF Acts(m, l) THEN Actions(l) \union {n} ELSE Actions(l)
  BY <1>1 DEF Actions, Acts
<1>5. Until(l, ts)' = IF Acts(m, l) /\ m.ts <= ts THEN Until(l, ts) \union {n} ELSE Until(l, ts)
  <2>1. \A i \in Actions(l) : i \in DOMAIN heard
    BY DEF Actions
  <2> QED
    BY <1>1, <1>4, <2>1 DEF Until
<1>6. Actions(l) \in SUBSET DOMAIN heard /\ Until(l, ts) \in SUBSET DOMAIN heard
  BY DEF Actions, Until
<1>7. /\ LastHalts(Actions(l))' <=> Last(heard', Actions(l)')
      /\ LastHalts(Until(l, ts))' <=> Last(heard', Until(l, ts)')
      /\ LastHalts(Actions(l)) <=> Last(heard, Actions(l))
      /\ LastHalts(Until(l, ts)) <=> Last(heard, Until(l, ts))
  BY DEF LastHalts
<1> HIDE DEF Last
<1>8. CASE Acts(m, l)
  <2>1. LastHalts(Actions(l))' <=> m.kind # "T"
    BY <1>3, <1>4, <1>6, <1>7, <1>8
  <2>2. CASE m.ts <= ts
    BY <1>3, <1>5, <1>6, <1>7, <1>8, <2>1, <2>2
  <2>3. CASE ~(m.ts <= ts)
    BY <1>2, <1>5, <1>6, <1>7, <1>8, <2>1, <2>3
  <2> QED
    BY <2>2, <2>3
<1>9. CASE ~Acts(m, l)
  BY <1>2, <1>4, <1>5, <1>6, <1>7, <1>9
<1> QED
  BY <1>8, <1>9

(* What a message does to the windows.                                     *)
LEMMA WindowsMove ==
  ASSUME NEW m, Hear(m)
  PROVE  \/ m.kind \notin Halts \union {"T"} /\ windows' = windows
         \/ m.kind \in Halts /\ Halted(m.locate) /\ windows' = windows
         \/ /\ m.kind \in Halts /\ ~Halted(m.locate)
            /\ windows' = Append(windows, [locate |-> m.locate, start |-> m.ts, end |-> 0])
         \/ /\ m.kind = "T"
            /\ windows' = [i \in DOMAIN windows |->
                             IF Closes(windows[i], m) THEN [windows[i] EXCEPT !.end = m.ts]
                             ELSE windows[i]]
<1>1. CASE SessionFrame(m)
  <2>1. CASE Halt(m)
    BY <2>1 DEF Halt
  <2>2. CASE Trade(m)
    BY <2>2 DEF Trade
  <2>3. CASE SystemEvent(m) \/ Noii(m) \/ RegSho(m)
    BY <2>3 DEF SystemEvent, Noii, RegSho, Codes, Halts
  <2> QED
    BY <1>1, <2>1, <2>2, <2>3 DEF SessionFrame
<1>2. CASE OrderMessage(m)
  BY <1>2 DEF OrderMessage, model, Orders, Executions, Halts
<1>3. CASE Pass(m) \/ Garbled(m)
  BY <1>3 DEF Pass, Garbled, model, Framed, Halts
<1> QED
  BY <1>1, <1>2, <1>3 DEF Hear, Decode

Window == [locate : Locates, start : Nat, end : Nat]

LEMMA WindowsTypedStep ==
  ASSUME FeedTyped, WindowsTyped, NEW m, Hear(m)
  PROVE  WindowsTyped'
<1>1. /\ windows \in Seq(Window)
      /\ \A w \in DOMAIN windows :
           /\ \E i \in DOMAIN heard : windows[w].start = heard[i].msg.ts
           /\ windows[w].end # 0 => \E i \in DOMAIN heard : windows[w].end = heard[i].msg.ts
      /\ \A v, w \in DOMAIN windows :
           windows[v].end = 0 /\ windows[w].end = 0 /\ windows[v].locate = windows[w].locate => v = w
  BY DEF WindowsTyped, Window
<1>2. m.ts \in Nat /\ m.ts # 0 /\ m.locate \in Locates
  BY DEF Hear, Message
<1>3. /\ \A i \in DOMAIN heard : i \in DOMAIN heard' /\ heard'[i].msg.ts = heard[i].msg.ts
      /\ \E i \in DOMAIN heard' : m.ts = heard'[i].msg.ts
  BY HeardGrows
<1> DEFINE Was(t) == \E i \in DOMAIN heard : t = heard[i].msg.ts
           Is(t)  == \E i \in DOMAIN heard' : t = heard'[i].msg.ts
<1>4. (\A t : Was(t) => Is(t)) /\ Is(m.ts)
  BY <1>3
<1>5. \A w \in DOMAIN windows : Was(windows[w].start) /\ (windows[w].end # 0 => Was(windows[w].end))
  BY <1>1
<1> HIDE DEF Was
<1>6. SUFFICES
        /\ windows' \in Seq(Window)
        /\ \A w \in DOMAIN windows' :
             Is(windows'[w].start) /\ (windows'[w].end # 0 => Is(windows'[w].end))
        /\ \A v, w \in DOMAIN windows' :
             windows'[v].end = 0 /\ windows'[w].end = 0 /\ windows'[v].locate = windows'[w].locate
               => v = w
  BY Zenon DEF WindowsTyped, Window
<1> HIDE DEF Is
<1>7. CASE windows' = windows
  BY <1>1, <1>4, <1>5, <1>7
<1>8. CASE /\ ~Halted(m.locate)
           /\ windows' = Append(windows, [locate |-> m.locate, start |-> m.ts, end |-> 0])
  <2> DEFINE w0 == [locate |-> m.locate, start |-> m.ts, end |-> 0]
             k == Len(windows) + 1
  <2>1. /\ w0 \in Window /\ w0.locate = m.locate /\ w0.start = m.ts /\ w0.end = 0
        /\ windows' = Append(windows, w0)
    BY <1>2, <1>8 DEF Window
  <2> HIDE DEF w0
  <2>2. /\ windows' \in Seq(Window) /\ DOMAIN windows' = DOMAIN windows \union {k}
        /\ windows'[k] = w0 /\ k \notin DOMAIN windows
        /\ \A w \in DOMAIN windows : windows'[w] = windows[w]
    BY <1>1, <2>1
  <2> HIDE DEF k
  <2>3. \A w \in DOMAIN windows : ~(windows[w].end = 0 /\ windows[w].locate = m.locate)
    BY <1>8 DEF Halted
  <2> QED
    BY <1>1, <1>4, <1>5, <2>1, <2>2, <2>3
<1>9. CASE windows' = [i \in DOMAIN windows |->
                         IF Closes(windows[i], m) THEN [windows[i] EXCEPT !.end = m.ts] ELSE windows[i]]
  <2>1. DOMAIN windows' = DOMAIN windows /\ DOMAIN windows = 1 .. Len(windows) /\ Len(windows) \in Nat
    BY <1>1, <1>9
  <2>2. ASSUME NEW w \in DOMAIN windows
        PROVE  /\ windows'[w] \in Window /\ windows'[w].start = windows[w].start
               /\ windows'[w].locate = windows[w].locate
               /\ windows'[w].end \in {windows[w].end, m.ts}
               /\ windows'[w].end = 0 => windows[w].end = 0
    <3>1. windows[w] \in Window
      BY <1>1
    <3>2. windows'[w] = IF Closes(windows[w], m) THEN [windows[w] EXCEPT !.end = m.ts] ELSE windows[w]
      BY <1>9
    <3> QED
      BY <1>2, <3>1, <3>2 DEF Window
  <2>3. windows' \in Seq(Window)
    BY <1>9, <2>1, <2>2
  <2> QED
    BY <1>1, <1>4, <1>5, <2>1, <2>2, <2>3
<1> QED
  BY <1>7, <1>8, <1>9, WindowsMove

(* A halt opens from its time on, trading closes from its time on, and the *)
(* answers about other stocks and earlier times stay.                      *)
LEMMA WindowsAnswer ==
  ASSUME FeedTyped, WindowsTyped, NEW m, Hear(m), NEW l \in Locates
  PROVE  /\ Halted(l)' <=> IF Acts(m, l) THEN m.kind # "T" ELSE Halted(l)
         /\ (\A i \in DOMAIN heard : heard[i].msg.ts <= m.ts) =>
              \A ts \in Nat :
                WasHaltedAt(l, ts)' <=>
                  IF Acts(m, l) /\ m.ts <= ts THEN m.kind # "T" ELSE WasHaltedAt(l, ts)
<1>0. windows \in Seq(Window)
  BY DEF WindowsTyped, Window
<1>1. windows \in Seq(Window) /\ \A w \in DOMAIN windows : windows[w] \in Window
  BY <1>0
<1>2. m.ts \in Nat /\ m.ts # 0 /\ m.locate \in Locates
  BY DEF Hear, Message
<1>3. ASSUME \A i \in DOMAIN heard : heard[i].msg.ts <= m.ts
      PROVE  \A w \in DOMAIN windows : windows[w].start <= m.ts /\ windows[w].end <= m.ts
  <2>1. \A w \in DOMAIN windows :
          /\ \E i \in DOMAIN heard : windows[w].start = heard[i].msg.ts
          /\ windows[w].end # 0 => \E i \in DOMAIN heard : windows[w].end = heard[i].msg.ts
    BY DEF WindowsTyped
  <2> QED
    BY <1>2, <1>3, <2>1
<1>4. \A w \in DOMAIN windows : windows[w].start \in Nat /\ windows[w].end \in Nat
  BY <1>1 DEF Window
<1>5. CASE windows' = windows /\ ~Acts(m, l)
  BY <1>5 DEF Halted, WasHaltedAt
<1>6. CASE windows' = windows /\ m.kind \in Halts /\ Halted(m.locate)
  <2>1. CASE l = m.locate
    <3>1. PICK w \in DOMAIN windows : windows[w].locate = l /\ windows[w].end = 0
      BY <1>6, <2>1 DEF Halted
    <3>2. Acts(m, l) /\ m.kind # "T"
      BY <1>6, <2>1 DEF Acts, Halts
    <3>3. ASSUME \A i \in DOMAIN heard : heard[i].msg.ts <= m.ts, NEW ts \in Nat, m.ts <= ts
          PROVE  WasHaltedAt(l, ts)
      <4>1. windows[w].start <= ts
        BY <1>2, <1>3, <1>4, <3>3
      <4> QED
        BY <3>1, <4>1 DEF WasHaltedAt
    <3> QED
      BY <1>6, <2>1, <3>2, <3>3 DEF Halted, WasHaltedAt
  <2>2. CASE l # m.locate
    BY <1>6, <2>2 DEF Acts, Halted, WasHaltedAt
  <2> QED
    BY <2>1, <2>2
<1>7. CASE /\ m.kind \in Halts /\ ~Halted(m.locate)
           /\ windows' = Append(windows, [locate |-> m.locate, start |-> m.ts, end |-> 0])
  <2> DEFINE w0 == [locate |-> m.locate, start |-> m.ts, end |-> 0]
             k == Len(windows) + 1
  <2>1. w0.locate = m.locate /\ w0.start = m.ts /\ w0.end = 0 /\ windows' = Append(windows, w0)
    BY <1>7
  <2> HIDE DEF w0
  <2>2. /\ DOMAIN windows' = DOMAIN windows \union {k}
        /\ windows'[k] = w0 /\ k \notin DOMAIN windows
        /\ \A w \in DOMAIN windows : windows'[w] = windows[w]
    BY <1>1, <2>1
  <2> HIDE DEF k
  <2>3. Acts(m, l) <=> l = m.locate
    BY <1>7 DEF Acts
  <2>4. m.kind # "T"
    BY <1>7 DEF Halts
  <2>5. Halted(l)' <=> Halted(l) \/ l = m.locate
    BY <2>1, <2>2 DEF Halted
  <2>6. ASSUME NEW ts \in Nat
        PROVE  WasHaltedAt(l, ts)' <=> WasHaltedAt(l, ts) \/ (l = m.locate /\ m.ts <= ts)
    BY <2>1, <2>2 DEF WasHaltedAt
  <2> QED
    BY <2>3, <2>4, <2>5, <2>6
<1>8. CASE /\ m.kind = "T"
           /\ windows' = [i \in DOMAIN windows |->
                            IF Closes(windows[i], m) THEN [windows[i] EXCEPT !.end = m.ts]
                            ELSE windows[i]]
  <2>1. DOMAIN windows' = DOMAIN windows
    BY <1>8
  <2>2. ASSUME NEW w \in DOMAIN windows
        PROVE  /\ windows'[w].start = windows[w].start /\ windows'[w].locate = windows[w].locate
               /\ windows'[w].end = IF windows[w].locate = m.locate /\ windows[w].end = 0 THEN m.ts
                                    ELSE windows[w].end
    <3>1. windows[w] \in Window
      BY <1>1
    <3>2. windows'[w] = IF Closes(windows[w], m) THEN [windows[w] EXCEPT !.end = m.ts] ELSE windows[w]
      BY <1>8
    <3> QED
      BY <1>2, <3>1, <3>2 DEF Window, Closes
  <2>3. Acts(m, l) <=> l = m.locate
    BY <1>8 DEF Acts
  <2>4. CASE l # m.locate
    BY <2>1, <2>2, <2>3, <2>4 DEF Halted, WasHaltedAt
  <2>5. CASE l = m.locate
    <3>1. ~Halted(l)'
      BY <1>2, <2>1, <2>2, <2>5 DEF Halted
    <3>2. ASSUME \A i \in DOMAIN heard : heard[i].msg.ts <= m.ts, NEW ts \in Nat
          PROVE  WasHaltedAt(l, ts)' <=> ~(m.ts <= ts) /\ WasHaltedAt(l, ts)
      <4>1. ASSUME NEW w \in DOMAIN windows, windows[w].locate = l
            PROVE  (windows'[w].end = 0 \/ ts < windows'[w].end) <=>
                     ~(m.ts <= ts) /\ (windows[w].end = 0 \/ ts < windows[w].end)
        BY <1>2, <1>3, <1>4, <2>2, <2>5, <3>2, <4>1
      <4> QED
        BY <2>1, <2>2, <4>1 DEF WasHaltedAt
    <3> QED
      BY <1>8, <2>3, <2>5, <3>1, <3>2
  <2> QED
    BY <2>4, <2>5
<1>9. m.kind \notin Halts \union {"T"} => ~Acts(m, l)
  BY DEF Acts
<1> QED
  BY <1>5, <1>6, <1>7, <1>8, <1>9, WindowsMove

LEMMA HaltsInvInit == Init => HaltsInv
<1> SUFFICES ASSUME Init PROVE HaltsInv
  OBVIOUS
<1>1. heard = <<>> /\ windows = <<>>
  BY DEF Init
<1>2. DOMAIN heard = {} /\ DOMAIN windows = {}
  BY <1>1
<1>3. \A l \in Locates : Actions(l) = {}
  BY <1>2 DEF Actions
<1>4. WindowsExact
  BY <1>2, <1>3 DEF WindowsExact, Halted, WasHaltedAt, LastHalts, Until
<1>5. WindowsTyped
  BY <1>1, <1>2 DEF WindowsTyped
<1> QED
  BY <1>2, <1>4, <1>5 DEF HaltsInv, LatestLast

LEMMA HaltsInvStep == FramingInv /\ HaltsInv /\ [Next]_vars => HaltsInv'
<1> SUFFICES ASSUME FramingInv, HaltsInv, [Next]_vars PROVE HaltsInv'
  OBVIOUS
<1>1. CASE ~(Deliver /\ ~failed)
  <2>1. windows' = windows /\ heard' = heard
    BY <1>1, QuietSteps DEF model
  <2> QED
    BY <2>1 DEF HaltsInv, LatestLast, InOrder, WindowsTyped, WindowsExact, Halted, WasHaltedAt,
         LastHalts, Actions, Until
<1>2. CASE Deliver /\ ~failed
  <2> DEFINE m == Head(pending)
  <2>1. Hear(m) /\ FeedTyped /\ LatestLast /\ WindowsTyped
    BY <1>2, HearsNext DEF FramingInv, HaltsInv
  <2> HIDE DEF m
  <2>2. LatestLast' /\ (InOrder' => InOrder /\ \A i \in DOMAIN heard : heard[i].msg.ts <= m.ts)
    BY <2>1, TimeGrows
  <2>3. WindowsTyped'
    BY <2>1, WindowsTypedStep
  <2>4. ASSUME NEW l \in Locates
        PROVE  /\ Halted(l)' <=> LastHalts(Actions(l))'
               /\ InOrder' => \A ts \in Nat : WasHaltedAt(l, ts)' <=> LastHalts(Until(l, ts))'
    <3>1. 0 \in Nat
      OBVIOUS
    <3>2. Halted(l)' <=> LastHalts(Actions(l))'
      BY <2>1, <3>1, ActionsGrow, WindowsAnswer DEF HaltsInv, WindowsExact
    <3>3. ASSUME InOrder', NEW ts \in Nat PROVE WasHaltedAt(l, ts)' <=> LastHalts(Until(l, ts))'
      <4>1. WasHaltedAt(l, ts) <=> LastHalts(Until(l, ts))
        BY <2>2, <3>3 DEF HaltsInv, WindowsExact
      <4>2. WasHaltedAt(l, ts)' <=>
              IF Acts(m, l) /\ m.ts <= ts THEN m.kind # "T" ELSE WasHaltedAt(l, ts)
        BY <2>1, <2>2, <3>3, WindowsAnswer
      <4>3. LastHalts(Until(l, ts))' <=>
              IF Acts(m, l) /\ m.ts <= ts THEN m.kind # "T" ELSE LastHalts(Until(l, ts))
        BY <2>1, ActionsGrow
      <4> QED
        BY <4>1, <4>2, <4>3, Zenon
    <3> QED
      BY <3>2, <3>3
  <2> QED
    BY <2>2, <2>3, <2>4 DEF HaltsInv, WindowsExact
<1> QED
  BY <1>1, <1>2

LEMMA HaltsExactHolds == FramingInv /\ HaltsInv => HaltsExact
<1> SUFFICES ASSUME FramingInv, HaltsInv, NEW l \in Locates
             PROVE  /\ Halted(l) <=> LastHalts(Actions(l))
                    /\ InOrder => \A ts \in Times :
                         WasHaltedAt(l, ts) <=> LastHalts({i \in Actions(l) : heard[i].msg.ts <= ts})
                    /\ Cardinality({i \in DOMAIN windows :
                                      windows[i].locate = l /\ windows[i].end = 0}) <= 1
  BY DEF HaltsExact
<1>1. \A ts \in Times : ts \in Nat
  <2>1. heard # <<>> => Len(heard) \in DOMAIN heard
    BY DEF FramingInv, FeedTyped
  <2>2. heard # <<>> => heard[Len(heard)].msg.ts \in Nat
    BY <2>1, HeardTyped DEF FramingInv
  <2> QED
    BY <2>2 DEF Times
<1> DEFINE Open == {i \in DOMAIN windows : windows[i].locate = l /\ windows[i].end = 0}
<1>2. \A v, w \in Open : v = w
  BY DEF HaltsInv, WindowsTyped
<1>3. Cardinality(Open) <= 1
  <2>1. CASE Open = {}
    <3>1. Cardinality(Open) = 0
      BY <2>1, FS_EmptySet
    <3> QED
      BY <3>1
  <2>2. CASE Open # {}
    <3>1. PICK v : Open = {v}
      BY <1>2, <2>2
    <3>2. Cardinality(Open) = 1
      BY <3>1, FS_Singleton
    <3> QED
      BY <3>2
  <2> QED
    BY <2>1, <2>2
<1> QED
  BY <1>1, <1>3 DEF HaltsInv, WindowsExact, Until

(* The halt windows answer, for now and for any past moment, as the last   *)
(* trading action before it would (Session.hpp:95-122, 147-170).           *)
THEOREM HaltsHold == Spec => []HaltsExact
<1>1. FramingInv /\ HaltsInv => HaltsExact
  BY HaltsExactHolds
<1>2. Init => FramingInv /\ HaltsInv
  BY FramingInit, HaltsInvInit
<1>3. FramingInv /\ HaltsInv /\ [Next]_vars => (FramingInv /\ HaltsInv)'
  BY FramingStep, HaltsInvStep
<1> QED
  BY <1>1, <1>2, <1>3, PTL DEF Spec

----------------------------------------------------------------------------
(* The crosses.                                                            *)

Informs(i) == heard[i].msg.kind = "noii" /\ heard[i].msg.shares > 0

(* Place i tells the last informative imbalance of its stock by place n.   *)
LastInformer(i, n) ==
  /\ i \in 1 .. n /\ Informs(i)
  /\ \A k \in 1 .. n : Informs(k) /\ heard[k].msg.locate = heard[i].msg.locate => k <= i

SnapshotsTold ==
  \A n \in Nat : n <= Len(heard) =>
    \A s : s \in Snapshots(n) <=> \E i \in 1 .. n : LastInformer(i, n) /\ s = heard[i].msg

LEMMA SnapshotsAre == FeedTyped => SnapshotsTold
<1> SUFFICES ASSUME FeedTyped, NEW n \in Nat, n <= Len(heard), NEW s
             PROVE  s \in Snapshots(n) <=> \E i \in 1 .. n : LastInformer(i, n) /\ s = heard[i].msg
  BY DEF SnapshotsTold
<1>1. \A i \in 1 .. n : i \in DOMAIN heard
  BY DEF FeedTyped
<1>2. \A i \in 1 .. n : heard[i].msg.locate \in Locates
  BY <1>1, HeardTyped
<1> DEFINE N(l) == {i \in 1 .. n : /\ heard[i].msg.kind = "noii" /\ heard[i].msg.locate = l
                                   /\ heard[i].msg.shares > 0}
<1>3. Snapshots(n) = UNION {{heard[i].msg : i \in {j \in N(l) : \A k \in N(l) : k <= j}} : l \in Locates}
  BY DEF Snapshots
<1>4. \A l, i : i \in N(l) <=> i \in 1 .. n /\ Informs(i) /\ heard[i].msg.locate = l
  BY DEF Informs
<1> HIDE DEF N
<1>5. s \in Snapshots(n) <=>
        \E l \in Locates : \E i \in N(l) : (\A k \in N(l) : k <= i) /\ s = heard[i].msg
  BY <1>3
<1>6. ASSUME NEW l \in Locates, NEW i \in N(l), \A k \in N(l) : k <= i
      PROVE  i \in 1 .. n /\ LastInformer(i, n)
  BY <1>4, <1>6 DEF LastInformer
<1>7. ASSUME NEW i \in 1 .. n, LastInformer(i, n)
      PROVE  LET l == heard[i].msg.locate
             IN  l \in Locates /\ i \in N(l) /\ \A k \in N(l) : k <= i
  BY <1>2, <1>4, <1>7 DEF LastInformer
<1> QED
  BY <1>5, <1>6, <1>7

LEMMA SnapshotsAreNext == FeedTyped' => SnapshotsTold'
<1>1. FeedTyped => SnapshotsTold
  BY SnapshotsAre
<1> QED
  BY <1>1, PTL

(* A message adds to the snapshots at its place only, and only if it       *)
(* tells of an imbalance.                                                  *)
LEMMA SnapshotsGrow ==
  ASSUME FeedTyped, FeedTyped', NEW m, Hear(m), NEW n \in Nat, n = Len(heard)
  PROVE  /\ \A k \in 0 .. n : Snapshots(k)' = Snapshots(k)
         /\ Snapshots(n + 1)' = IF m.kind = "noii" /\ m.shares > 0 THEN With(Snapshots(n), m)
                                ELSE Snapshots(n)
<1>1. /\ n \in Nat /\ Len(heard') = n + 1 /\ heard'[n + 1].msg = m
      /\ \A i \in 1 .. n : heard'[i] = heard[i]
  <2>1. n + 1 - 1 = n /\ n \in Nat
    OBVIOUS
  <2> QED
    BY <2>1, HeardGrows
<1>2. ASSUME NEW k \in 0 .. n
      PROVE  /\ \A i \in 1 .. k : Informs(i)' = Informs(i)
             /\ \A i \in 1 .. k : LastInformer(i, k)' <=> LastInformer(i, k)
  <2>1. \A i \in 1 .. k : heard'[i] = heard[i]
    BY <1>1
  <2> QED
    BY <2>1 DEF LastInformer, Informs
<1>3. ASSUME NEW k \in 0 .. n PROVE Snapshots(k)' = Snapshots(k)
  <2>1. k \in Nat /\ k <= Len(heard) /\ k <= Len(heard')
    BY <1>1
  <2>2. \A s : s \in Snapshots(k) <=> \E i \in 1 .. k : LastInformer(i, k) /\ s = heard[i].msg
    BY <2>1, SnapshotsAre DEF SnapshotsTold
  <2>3. \A s : s \in Snapshots(k)' <=> \E i \in 1 .. k : LastInformer(i, k)' /\ s = heard'[i].msg
    BY <2>1, SnapshotsAreNext DEF SnapshotsTold
  <2>4. \A i \in 1 .. k : heard'[i] = heard[i]
    BY <1>1
  <2>5. \A s : s \in Snapshots(k)' <=> s \in Snapshots(k)
    BY <1>2, <2>2, <2>3, <2>4
  <2>6. \A S, T : (\A s : s \in S <=> s \in T) => S = T
    OBVIOUS
  <2> QED
    BY <2>5, <2>6
<1>4. Snapshots(n + 1)' = IF m.kind = "noii" /\ m.shares > 0 THEN With(Snapshots(n), m)
                          ELSE Snapshots(n)
  <2> DEFINE Tells == m.kind = "noii" /\ m.shares > 0
  <2>1. n + 1 \in Nat /\ n + 1 <= Len(heard') /\ n <= Len(heard) /\ n \in Nat
    BY <1>1
  <2>2. \A s : s \in Snapshots(n) <=> \E i \in 1 .. n : LastInformer(i, n) /\ s = heard[i].msg
    BY <2>1, SnapshotsAre DEF SnapshotsTold
  <2>3. \A s : s \in Snapshots(n + 1)' <=>
               \E i \in 1 .. (n + 1) : LastInformer(i, n + 1)' /\ s = heard'[i].msg
    BY <2>1, SnapshotsAreNext DEF SnapshotsTold
  <2>4. Informs(n + 1)' <=> Tells
    BY <1>1 DEF Informs
  <2>5. \A i \in 1 .. n : Informs(i)' <=> Informs(i)
    BY <1>1 DEF Informs
  <2> HIDE DEF Tells
  <2>6. LastInformer(n + 1, n + 1)' <=> Tells
    BY <1>1, <2>4 DEF LastInformer
  <2>7. ASSUME NEW i \in 1 .. n
        PROVE  LastInformer(i, n + 1)' <=>
                 LastInformer(i, n) /\ ~(Tells /\ heard[i].msg.locate = m.locate)
    <3>1. heard'[i] = heard[i] /\ ~(n + 1 <= i)
      BY <1>1
    <3>2. 1 .. (n + 1) = 1 .. n \union {n + 1}
      BY <1>1
    <3> QED
      BY <1>1, <2>4, <2>5, <3>1, <3>2 DEF LastInformer
  <2>8. \A s : s \in Snapshots(n + 1)' <=>
               \/ Tells /\ s = m
               \/ s \in Snapshots(n) /\ ~(Tells /\ s.locate = m.locate)
    <3>1. \A i : i \in 1 .. (n + 1) <=> i \in 1 .. n \/ i = n + 1
      BY <1>1
    <3> QED
      BY <1>1, <2>2, <2>3, <2>6, <2>7, <3>1
  <2> QED
    BY <2>8 DEF With, Tells
<1> QED
  BY <1>3, <1>4

(* What the session model keeps of the imbalances.                         *)
CrossesTyped ==
  crosses \in [opening : SUBSET Message, closing : SUBSET Message, halt : Seq(SUBSET Message),
               open_ts : Nat, close_ts : Nat]

CrossInv == CrossesTyped /\ informative = Snapshots(Len(heard)) /\ CrossesExact

(* What a message does to it.                                              *)
LEMMA CrossesMove ==
  ASSUME CrossesTyped, informative \in SUBSET Message, NEW m, Hear(m)
  PROVE  /\ CrossesTyped'
         /\ informative' = IF m.kind = "noii" /\ m.shares > 0 THEN With(informative, m)
                           ELSE informative
         /\ crosses'.opening = IF m.kind = "Q" THEN informative ELSE crosses.opening
         /\ crosses'.closing = IF m.kind = "M" THEN informative ELSE crosses.closing
<1>1. CASE SystemEvent(m)
  <2>1. m.ts \in Nat /\ m.kind \in Codes /\ informative' = informative
    BY <1>1 DEF Hear, Message, SystemEvent
  <2>2. crosses' = CASE m.kind = "Q" -> [crosses EXCEPT !.opening = informative, !.open_ts = m.ts]
                     [] m.kind = "M" -> [crosses EXCEPT !.closing = informative, !.close_ts = m.ts]
                     [] OTHER -> crosses
    BY <1>1 DEF SystemEvent
  <2> QED
    BY <2>1, <2>2 DEF CrossesTyped, Codes
<1>2. CASE Trade(m)
  <2> DEFINE known == {s \in informative : s.locate = m.locate}
  <2>1. m.kind = "T" /\ informative' = informative /\ known \in SUBSET Message
    BY <1>2 DEF Trade
  <2>2. \/ crosses' = crosses
        \/ crosses' = [crosses EXCEPT !.halt = Append(crosses.halt, known)]
    BY <1>2 DEF Trade, CrossesTyped
  <2> HIDE DEF known
  <2>3. crosses.halt \in Seq(SUBSET Message)
    BY DEF CrossesTyped
  <2>4. Append(crosses.halt, known) \in Seq(SUBSET Message)
    BY <2>1, <2>3
  <2> QED
    BY <2>1, <2>2, <2>4 DEF CrossesTyped
<1>3. CASE Noii(m)
  BY <1>3 DEF Noii, IsInformative, CrossesTyped
<1>4. CASE Halt(m) \/ RegSho(m)
  BY <1>4 DEF Halt, RegSho, Halts, CrossesTyped
<1>5. CASE OrderMessage(m)
  BY <1>5 DEF OrderMessage, model, Orders, Executions, CrossesTyped
<1>6. CASE Pass(m) \/ Garbled(m)
  BY <1>6 DEF Pass, Garbled, model, Framed, CrossesTyped
<1> QED
  BY <1>1, <1>2, <1>3, <1>4, <1>5, <1>6 DEF Hear, Decode, SessionFrame

LEMMA CrossInvInit == Init => CrossInv
<1> SUFFICES ASSUME Init PROVE CrossInv
  OBVIOUS
<1>1. heard = <<>> /\ informative = {}
  BY DEF Init
<1>2. crosses = [opening |-> {}, closing |-> {}, halt |-> <<>>, open_ts |-> 0, close_ts |-> 0]
  BY DEF Init
<1>3. DOMAIN heard = {} /\ Len(heard) = 0
  BY <1>1
<1>4. <<>> \in Seq(SUBSET Message)
  OBVIOUS
<1>5. CrossesTyped
  BY <1>2, <1>4 DEF CrossesTyped
<1>6. Snapshots(0) = {}
  BY DEF Snapshots
<1> QED
  BY <1>1, <1>2, <1>3, <1>5, <1>6 DEF CrossInv, CrossesExact

At(code) == {i \in DOMAIN heard : heard[i].msg.kind = code}
From(code) == UNION {Snapshots(i) : i \in {j \in At(code) : \A k \in At(code) : k <= j}}

LEMMA FromGrows ==
  ASSUME FeedTyped, FeedTyped', NEW m, Hear(m), NEW code, code # "noii",
         NEW n \in Nat, n = Len(heard)
  PROVE  From(code)' = IF m.kind = code THEN Snapshots(n) ELSE From(code)
<1>0. n + 1 - 1 = n /\ n \in Nat
  OBVIOUS
<1>1. /\ n \in Nat /\ Len(heard') = n + 1 /\ heard'[n + 1].msg = m
      /\ DOMAIN heard = 1 .. n /\ DOMAIN heard' = DOMAIN heard \union {n + 1}
      /\ \A i \in 1 .. n : heard'[i] = heard[i]
  <2>1. /\ Len(heard') = n + 1 /\ DOMAIN heard = 1 .. (n + 1 - 1)
        /\ DOMAIN heard' = DOMAIN heard \union {n + 1} /\ heard'[n + 1].msg = m
        /\ \A i \in DOMAIN heard : heard'[i] = heard[i]
    <3> DEFINE N == Len(heard) + 1
    <3>1. /\ Len(heard') = N /\ DOMAIN heard = 1 .. (N - 1)
          /\ DOMAIN heard' = DOMAIN heard \union {N} /\ heard'[N].msg = m
          /\ \A i \in DOMAIN heard : heard'[i] = heard[i]
      BY HeardGrows
    <3>2. N = n + 1
      OBVIOUS
    <3> HIDE DEF N
    <3> QED
      BY <3>1, <3>2
  <2> QED
    BY <1>0, <2>1
<1>2. \A k \in 0 .. n : Snapshots(k)' = Snapshots(k)
  BY SnapshotsGrow
<1>3. ASSUME m.kind = code PROVE Snapshots(n + 1)' = Snapshots(n)
  BY <1>3, SnapshotsGrow
<1> DEFINE Late == {j \in At(code) : \A k \in At(code) : k <= j}
<1>4. At(code)' = IF m.kind = code THEN At(code) \union {n + 1} ELSE At(code)
  BY <1>1 DEF At
<1>5. At(code) \in SUBSET (1 .. n)
  BY <1>1 DEF At
<1>6. Late' = IF m.kind = code THEN {n + 1} ELSE Late
  <2>1. CASE m.kind = code
    BY <1>1, <1>4, <1>5, <2>1
  <2>2. CASE m.kind # code
    BY <1>4, <2>2
  <2> QED
    BY <2>1, <2>2
<1>7. Late \in SUBSET (1 .. n)
  BY <1>5
<1>8. From(code) = UNION {Snapshots(i) : i \in Late} /\ From(code)' = UNION {Snapshots(i)' : i \in Late'}
  BY DEF From
<1> HIDE DEF Late
<1>9. CASE m.kind = code
  BY <1>3, <1>6, <1>8, <1>9
<1>10. CASE m.kind # code
  <2>1. \A i \in Late : Snapshots(i)' = Snapshots(i)
    BY <1>1, <1>2, <1>7
  <2> QED
    BY <1>6, <1>8, <1>10, <2>1
<1> QED
  BY <1>9, <1>10

LEMMA CrossInvStep == FramingInv /\ FramingInv' /\ CrossInv /\ [Next]_vars => CrossInv'
<1> SUFFICES ASSUME FramingInv, FramingInv', CrossInv, [Next]_vars PROVE CrossInv'
  OBVIOUS
<1>1. CASE ~(Deliver /\ ~failed)
  <2>1. crosses' = crosses /\ informative' = informative /\ heard' = heard
    BY <1>1, QuietSteps DEF model
  <2> QED
    BY <2>1 DEF CrossInv, CrossesTyped, CrossesExact, Snapshots
<1>2. CASE Deliver /\ ~failed
  <2> DEFINE m == Head(pending)
  <2>0. PICK n \in Nat : n = Len(heard)
    BY DEF FramingInv, FeedTyped
  <2>1. Hear(m) /\ FeedTyped /\ FeedTyped' /\ CrossesTyped
    BY <1>2, HearsNext DEF FramingInv, CrossInv
  <2> HIDE DEF m
  <2>2. informative = Snapshots(n) /\ n \in Nat /\ n <= Len(heard)
    BY <2>0 DEF CrossInv
  <2>3. informative \in SUBSET Message
    <3>1. \A i \in 1 .. n : heard[i].msg \in Message
      <4>1. DOMAIN heard = 1 .. n
        BY <2>0, <2>1 DEF FeedTyped
      <4> QED
        BY <2>1, <4>1, HeardTyped
    <3> QED
      BY <2>1, <2>2, <3>1, SnapshotsAre DEF SnapshotsTold
  <2>4. Len(heard') = n + 1
    BY <2>0, <2>1 DEF Hear, FeedTyped
  <2>5. informative' = Snapshots(n + 1)'
    BY <2>0, <2>1, <2>2, <2>3, CrossesMove, SnapshotsGrow
  <2>6. crosses.opening = From("Q") /\ crosses.closing = From("M")
    BY DEF CrossInv, CrossesExact, From, At
  <2>7. crosses'.opening = From("Q")' /\ crosses'.closing = From("M")'
    BY <2>0, <2>1, <2>2, <2>3, <2>6, CrossesMove, FromGrows
  <2>8. CrossesExact'
    BY <2>7 DEF CrossesExact, From, At
  <2>9. CrossesTyped'
    BY <2>1, <2>3, CrossesMove
  <2> QED
    BY <2>4, <2>5, <2>8, <2>9 DEF CrossInv
<1> QED
  BY <1>1, <1>2

(* The opening and closing crosses are those of the last imbalance that    *)
(* said something before the last such event, and nothing later alters     *)
(* them (Session.hpp:124-131, 186-224).                                    *)
THEOREM CrossesHold == Spec => []CrossesExact
<1>1. CrossInv => CrossesExact
  BY DEF CrossInv
<1>2. Init => FramingInv /\ CrossInv
  BY FramingInit, CrossInvInit
<1>3. FramingInv /\ CrossInv /\ [Next]_vars => (FramingInv /\ CrossInv)'
  BY FramingStep, CrossInvStep
<1> QED
  BY <1>1, <1>2, <1>3, PTL DEF Spec

----------------------------------------------------------------------------
(* The shares of the messages at some places of a history.                 *)

Cells(h, S) == UNION {{i} \X (1 .. h[i].msg.shares) : i \in S}

LEMMA CellsAre ==
  ASSUME NEW h, NEW S, NEW c
  PROVE  c \in Cells(h, S) <=> \E i \in S : c \in {i} \X (1 .. h[i].msg.shares)
BY DEF Cells

LEMMA CellsSame ==
  ASSUME NEW h, NEW g, NEW S, \A i \in S : h[i].msg = g[i].msg
  PROVE  Cells(h, S) = Cells(g, S)
<1>1. \A i \in S : {i} \X (1 .. h[i].msg.shares) = {i} \X (1 .. g[i].msg.shares)
  OBVIOUS
<1>2. \A c : (\E i \in S : c \in {i} \X (1 .. h[i].msg.shares))
              <=> \E i \in S : c \in {i} \X (1 .. g[i].msg.shares)
  BY <1>1, Zenon
<1>3. \A c : c \in Cells(h, S) <=> c \in Cells(g, S)
  BY <1>2, CellsAre
<1> QED
  BY <1>3

LEMMA CellsFewer ==
  ASSUME NEW h, NEW T, NEW S \in SUBSET T, IsFiniteSet(Cells(h, T))
  PROVE  /\ IsFiniteSet(Cells(h, S)) /\ Cardinality(Cells(h, S)) \in Nat
         /\ Cardinality(Cells(h, T)) \in Nat /\ Cardinality(Cells(h, S)) <= Cardinality(Cells(h, T))
<1>1. Cells(h, S) \in SUBSET Cells(h, T)
  BY CellsAre DEF Cells
<1> QED
  BY <1>1, FS_Subset, FS_CardinalityType

LEMMA CellsMore ==
  ASSUME NEW h, NEW S, NEW n, n \notin S, IsFiniteSet(Cells(h, S)), h[n].msg.shares \in Nat
  PROVE  /\ IsFiniteSet(Cells(h, S \union {n}))
         /\ Cardinality(Cells(h, S \union {n})) = Cardinality(Cells(h, S)) + h[n].msg.shares
<1> DEFINE q == h[n].msg.shares
           C == Cells(h, S)
           D == {n} \X (1 .. q)
<1>1. IsFiniteSet({n}) /\ Cardinality({n}) = 1
  BY FS_Singleton
<1>2. q \in Nat /\ IsFiniteSet(1 .. q) /\ Cardinality(1 .. q) = q
  <2>1. q \in Nat
    OBVIOUS
  <2> HIDE DEF q
  <2>2. IsFiniteSet(1 .. q) /\ Cardinality(1 .. q) = IF 1 > q THEN 0 ELSE q - 1 + 1
    <3>1. 1 \in Int /\ q \in Int
      BY <2>1
    <3> QED
      BY <3>1, FS_Interval
  <2> QED
    BY <2>1, <2>2
<1>3. IsFiniteSet(D) /\ Cardinality(D) = q
  <2>1. IsFiniteSet(D) /\ Cardinality(D) = Cardinality({n}) * Cardinality(1 .. q)
    BY <1>1, <1>2, FS_Product
  <2> QED
    BY <1>1, <1>2, <2>1
<1>4. Cells(h, S \union {n}) = C \union D
  <2>1. \A c : c \in Cells(h, S \union {n}) <=> c \in C \/ c \in D
    BY CellsAre
  <2> QED
    BY <2>1
<1>5. C \intersect D = {}
  <2>1. ASSUME NEW c \in C, c \in D PROVE FALSE
    <3>1. PICK i \in S : c \in {i} \X (1 .. h[i].msg.shares)
      BY CellsAre
    <3>2. c[1] = i
      BY <3>1
    <3>3. c[1] = n
      BY <2>1
    <3> QED
      BY <3>2, <3>3
  <2> QED
    BY <2>1
<1> HIDE DEF C, D, q
<1>6. /\ IsFiniteSet(C \union D)
      /\ Cardinality(C \union D) = Cardinality(C) + Cardinality(D) - Cardinality(C \intersect D)
  BY <1>3, FS_Union DEF C
<1>7. Cardinality(C \intersect D) = 0 /\ Cardinality(C) \in Nat
  BY <1>5, FS_EmptySet, FS_CardinalityType DEF C
<1>8. Cardinality(C \union D) = Cardinality(C) + q
  BY <1>2, <1>3, <1>6, <1>7
<1> QED
  BY <1>4, <1>6, <1>8 DEF C, q

----------------------------------------------------------------------------
(* The prints.                                                             *)

Resting(r) == IF r \in DOMAIN book THEN book[r].qty ELSE 0

BookTyped == \A r \in DOMAIN book : book[r].qty \in Nat /\ book[r].px \in Int

(* The book moves at the reference of the message only.                    *)
LEMMA BookMoves ==
  ASSUME BookTyped, NEW m \in Message, OrderMessage(m)
  PROVE  /\ BookTyped'
         /\ \A r : r # m.ref => /\ r \in DOMAIN book' <=> r \in DOMAIN book
                                /\ r \in DOMAIN book => book'[r] = book[r]
         /\ ~Accepts(m) => book' = book
         /\ Accepts(m) /\ m.kind = "add" =>
              Resting(m.ref) = 0 /\ Resting(m.ref)' = m.shares /\ book'[m.ref].px = m.px
         /\ Accepts(m) /\ m.kind \in Executions =>
              /\ m.ref \in DOMAIN book /\ m.shares <= Resting(m.ref)
              /\ Resting(m.ref)' = Resting(m.ref) - m.shares
              /\ m.ref \in DOMAIN book' => book'[m.ref].px = book[m.ref].px
         /\ m.kind = "delete" => m.ref \notin DOMAIN book'
<1>0. /\ m.ref \in Nat /\ m.shares \in Nat /\ m.px \in Int /\ m.kind \in Orders
      /\ book' = IF Accepts(m) THEN Applied(m) ELSE book
  BY DEF Message, OrderMessage
<1>1. CASE ~Accepts(m)
  BY <1>0, <1>1 DEF BookTyped, Accepts, Orders, Executions
<1> DEFINE Set(qty, px) == [r \in DOMAIN book \union {m.ref} |->
                              IF r = m.ref THEN [px |-> px, qty |-> qty] ELSE book[r]]
<1>2. CASE Accepts(m) /\ m.kind = "add"
  <2>1. book' = Set(m.shares, m.px)
    BY <1>0, <1>2 DEF Applied
  <2>0. m.ref \notin DOMAIN book
    BY <1>2 DEF Accepts, Executions
  <2>2. /\ DOMAIN book' = DOMAIN book \union {m.ref}
        /\ book'[m.ref] = [px |-> m.px, qty |-> m.shares]
        /\ \A r \in DOMAIN book : r # m.ref => book'[r] = book[r]
    BY <2>1
  <2> QED
    BY <1>0, <1>2, <2>0, <2>2 DEF BookTyped, Resting, Executions
<1>3. CASE Accepts(m) /\ m.kind \in Executions
  <2>1. m.ref \in DOMAIN book /\ m.shares <= book[m.ref].qty /\ m.kind # "add" /\ m.kind # "delete"
    BY <1>3 DEF Accepts, Executions
  <2>2. book[m.ref].qty \in Nat /\ book[m.ref].px \in Int /\ Resting(m.ref) = book[m.ref].qty
    BY <2>1 DEF BookTyped, Resting
  <2>3. CASE book[m.ref].qty - m.shares > 0
    <3>1. book' = Set(book[m.ref].qty - m.shares, book[m.ref].px)
      BY <1>0, <1>3, <2>1, <2>3 DEF Applied
    <3>2. /\ DOMAIN book' = DOMAIN book
          /\ book'[m.ref] = [px |-> book[m.ref].px, qty |-> book[m.ref].qty - m.shares]
          /\ \A r \in DOMAIN book : r # m.ref => book'[r] = book[r]
      BY <2>1, <3>1
    <3> QED
      BY <1>0, <1>3, <2>1, <2>2, <3>2 DEF BookTyped, Resting
  <2>4. CASE ~(book[m.ref].qty - m.shares > 0)
    <3>1. book' = [r \in DOMAIN book \ {m.ref} |-> book[r]]
      BY <1>0, <1>3, <2>1, <2>4 DEF Applied
    <3> QED
      BY <1>0, <1>3, <2>1, <2>2, <2>4, <3>1 DEF BookTyped, Resting
  <2> QED
    BY <2>3, <2>4
<1>4. CASE Accepts(m) /\ m.kind = "delete"
  <2>1. book' = [r \in DOMAIN book \ {m.ref} |-> book[r]]
    BY <1>0, <1>4 DEF Applied
  <2> QED
    BY <1>0, <1>4, <2>1 DEF BookTyped, Executions
<1> QED
  BY <1>0, <1>1, <1>2, <1>3, <1>4 DEF Orders

Told(kinds, r) == {i \in DOMAIN heard : heard[i].msg.kind \in kinds /\ heard[i].msg.ref = r}
Runs           == {i \in DOMAIN heard : heard[i].msg.kind \in Executions}
TradePrint     == [match : Nat, shares : Nat, px : Int]
Printed(r)     == {prints[i].match : i \in {x \in DOMAIN prints : heard[prints[x].match].msg.ref = r}}
Before(n)      == {i \in Actions(heard[n].msg.locate) : i < n}
HaltPrints     == {i \in DOMAIN prints : \E k \in Nat : k = prints[i].match /\ LastHalts(Before(k))}

PrintsTyped ==
  /\ prints \in Seq(TradePrint) /\ tally.unpriced \in Nat /\ tally.halted \in Nat
  /\ \A i \in DOMAIN prints :
       prints[i].match \in Runs /\ (i > 1 => prints[i - 1].match < prints[i].match)

(* A live reference has the price of an add after its last delete, ...     *)
BookPriced ==
  \A r \in DOMAIN book :
    \E a \in Told({"add"}, r) : /\ heard[a].msg.px = book[r].px
                                /\ \A d \in Told({"delete"}, r) : d < a

(* ... a print the price of its reference at its time.                     *)
PricesExact ==
  \A i \in DOMAIN prints :
    \A n, r \in Nat :
      n = prints[i].match /\ heard[n].msg.ref = r /\ heard[n].msg.kind = "exec" =>
        \E a \in Told({"add"}, r) : /\ a < n /\ heard[a].msg.px = prints[i].px
                                    /\ \A d \in Told({"delete"}, r) : d < a \/ d > n

(* What was printed of a reference and what rests of it was added.         *)
SharesExact ==
  /\ IsFiniteSet(Cells(heard, DOMAIN heard))
  /\ \A r \in Nat : Cardinality(Cells(heard, Printed(r))) + Resting(r)
                      <= Cardinality(Cells(heard, Told({"add"}, r)))

CountsExact == Len(prints) + tally.unpriced = Cardinality(Runs)
HaltedExact == InOrder => tally.halted = Cardinality(HaltPrints)

PrintsInv ==
  PrintsTyped /\ BookTyped /\ BookPriced /\ PricesExact /\ SharesExact /\ CountsExact /\ HaltedExact

Prints(m) == m.kind \in Executions /\ Accepts(m)

(* What a message does to the sinks.                                       *)
LEMMA SinksMove ==
  ASSUME NEW m, Hear(m)
  PROVE  (m.kind \notin Orders /\ UNCHANGED sinks) \/ (OrderMessage(m) /\ windows' = windows)
<1>1. CASE SessionFrame(m)
  <2>1. m.kind \in Codes \/ m.kind \in Halts \/ m.kind \in {"T", "noii", "reg_sho"}
    BY <1>1 DEF SessionFrame, SystemEvent, Halt, Trade, Noii, RegSho
  <2>2. UNCHANGED sinks
    BY <1>1 DEF SessionFrame
  <2> QED
    BY <2>1, <2>2 DEF Orders, Executions, Codes, Halts
<1>2. CASE OrderMessage(m)
  BY <1>2 DEF OrderMessage, model
<1>3. CASE Pass(m) \/ Garbled(m)
  <2>1. (m.kind \in Framed \/ m.kind = "garbled") /\ UNCHANGED sinks
    BY <1>3 DEF Pass, Garbled
  <2> QED
    BY <2>1 DEF Orders, Executions, Framed
<1> QED
  BY <1>1, <1>2, <1>3 DEF Hear, Decode

LEMMA PrintsMove ==
  ASSUME FeedTyped, PrintsTyped, BookTyped, NEW m, Hear(m), NEW n \in Nat, n = Len(heard) + 1
  PROVE  /\ Prints(m) =>
              /\ windows' = windows /\ m.ref \in DOMAIN book
              /\ tally'.unpriced = tally.unpriced
              /\ tally'.halted = tally.halted + IF WasHaltedAt(m.locate, m.ts) THEN 1 ELSE 0
              /\ \E p \in TradePrint : /\ prints' = Append(prints, p) /\ p.match = n
                                       /\ m.kind = "exec" => p.px = book[m.ref].px
         /\ ~Prints(m) =>
              /\ prints' = prints /\ tally'.halted = tally.halted
              /\ tally'.unpriced = tally.unpriced + IF m.kind \in Executions THEN 1 ELSE 0
<1>0. m \in Message /\ m.shares \in Nat /\ m.px \in Int /\ m.ref \in Nat
  BY DEF Hear, Message
<1>1. CASE m.kind \notin Orders /\ UNCHANGED sinks
  <2>1. prints' = prints /\ tally' = tally /\ m.kind \notin Executions
    BY <1>1 DEF sinks, Orders
  <2> QED
    BY <2>1 DEF Prints, PrintsTyped
<1>2. CASE OrderMessage(m) /\ windows' = windows
  <2>1. /\ tally'.unpriced = tally.unpriced + IF m.kind \in Executions /\ ~Accepts(m) THEN 1 ELSE 0
        /\ tally'.halted = tally.halted + IF m.kind \in Executions /\ Accepts(m)
                                             /\ WasHaltedAt(m.locate, m.ts) THEN 1 ELSE 0
    BY <1>2 DEF OrderMessage, Tallied
  <2>2. prints' = IF ~Prints(m) THEN prints
                  ELSE Append(prints,
                         [match |-> Len(heard) + 1, shares |-> m.shares,
                          px |-> IF m.kind = "exec_at" THEN m.px ELSE book[m.ref].px])
    BY <1>2 DEF OrderMessage, Prints
  <2>3. tally.unpriced \in Nat /\ tally.halted \in Nat
    BY DEF PrintsTyped
  <2>4. CASE Prints(m)
    <3>1. m.ref \in DOMAIN book /\ book[m.ref].px \in Int
      BY <1>0, <1>2, <2>4, BookMoves DEF Prints, BookTyped
    <3> DEFINE p == [match |-> Len(heard) + 1, shares |-> m.shares,
                     px |-> IF m.kind = "exec_at" THEN m.px ELSE book[m.ref].px]
    <3>2. p \in TradePrint /\ p.match = n /\ (m.kind = "exec" => p.px = book[m.ref].px)
      BY <1>0, <3>1 DEF TradePrint
    <3>3. prints' = Append(prints, p)
      BY <2>2, <2>4
    <3> HIDE DEF p
    <3> QED
      BY <1>2, <2>1, <2>3, <2>4, <3>1, <3>2, <3>3 DEF Prints
  <2>5. CASE ~Prints(m)
    BY <2>1, <2>2, <2>3, <2>5 DEF Prints
  <2> QED
    BY <2>4, <2>5
<1> QED
  BY <1>1, <1>2, SinksMove

LEMMA ToldGrows ==
  ASSUME FeedTyped, NEW m, Hear(m), NEW n \in Nat, n = Len(heard) + 1, NEW kinds, NEW r
  PROVE  /\ Told(kinds, r)' = IF m.kind \in kinds /\ m.ref = r THEN Told(kinds, r) \union {n}
                              ELSE Told(kinds, r)
         /\ Runs' = IF m.kind \in Executions THEN Runs \union {n} ELSE Runs
<1>1. /\ DOMAIN heard' = DOMAIN heard \union {n} /\ n \notin DOMAIN heard /\ heard'[n].msg = m
      /\ \A i \in DOMAIN heard : heard'[i] = heard[i]
  BY HeardGrows
<1> QED
  BY <1>1 DEF Told, Runs

LEMMA PrintsTypedStep ==
  ASSUME FeedTyped, PrintsTyped, BookTyped, NEW m, Hear(m), NEW n \in Nat, n = Len(heard) + 1
  PROVE  /\ PrintsTyped'
         /\ \A r : Printed(r)' = IF Prints(m) /\ m.ref = r THEN Printed(r) \union {n} ELSE Printed(r)
         /\ \A r : Printed(r) \subseteq DOMAIN heard
<1>1. /\ DOMAIN heard' = DOMAIN heard \union {n} /\ n \notin DOMAIN heard /\ heard'[n].msg = m
      /\ \A i \in DOMAIN heard : heard'[i] = heard[i] /\ i < n
  BY HeardGrows
<1>2. /\ prints \in Seq(TradePrint) /\ tally.unpriced \in Nat /\ tally.halted \in Nat
      /\ \A i \in DOMAIN prints :
           prints[i].match \in Runs /\ (i > 1 => prints[i - 1].match < prints[i].match)
  BY DEF PrintsTyped
<1>3. Runs \subseteq DOMAIN heard /\ Runs \subseteq Runs' /\ (m.kind \in Executions => n \in Runs')
  BY <1>1 DEF Runs
<1>4. \A r : Printed(r) \subseteq DOMAIN heard
  BY <1>2, <1>3 DEF Printed
<1>5. \A i \in DOMAIN prints : heard'[prints[i].match] = heard[prints[i].match]
  BY <1>1, <1>2, <1>3
<1>6. CASE ~Prints(m)
  <2>1. prints' = prints /\ tally'.unpriced \in Nat /\ tally'.halted \in Nat
    BY <1>2, <1>6, PrintsMove
  <2> QED
    BY <1>2, <1>3, <1>4, <1>5, <1>6, <2>1 DEF PrintsTyped, Printed
<1>7. CASE Prints(m)
  <2>1. PICK p \in TradePrint : prints' = Append(prints, p) /\ p.match = n
    BY <1>7, PrintsMove
  <2>2. tally'.unpriced \in Nat /\ tally'.halted \in Nat
    BY <1>2, <1>7, PrintsMove
  <2> DEFINE k == Len(prints) + 1
  <2>3. /\ prints' \in Seq(TradePrint) /\ k \in Nat /\ DOMAIN prints = 1 .. (k - 1)
        /\ DOMAIN prints' = DOMAIN prints \union {k}
        /\ prints'[k] = p /\ \A i \in DOMAIN prints : prints'[i] = prints[i]
    BY <1>2, <2>1
  <2> HIDE DEF k
  <2>4. ASSUME NEW i \in DOMAIN prints'
        PROVE  prints'[i].match \in Runs' /\ (i > 1 => prints'[i - 1].match < prints'[i].match)
    <3>1. CASE i \in DOMAIN prints
      <4>1. i > 1 => i - 1 \in DOMAIN prints
        BY <2>3, <3>1
      <4> QED
        BY <1>2, <1>3, <2>3, <3>1, <4>1
    <3>2. CASE i = k
      <4>1. i > 1 => i - 1 \in DOMAIN prints
        BY <2>3, <3>2
      <4> QED
        BY <1>1, <1>2, <1>3, <1>7, <2>1, <2>3, <3>2, <4>1 DEF Prints
    <3> QED
      BY <2>3, <3>1, <3>2
  <2>5. ASSUME NEW r
        PROVE  Printed(r)' = IF Prints(m) /\ m.ref = r THEN Printed(r) \union {n} ELSE Printed(r)
    <3>1. k \notin DOMAIN prints
      BY <2>3
    <3>2. {x \in DOMAIN prints' : heard'[prints'[x].match].msg.ref = r} =
            {x \in DOMAIN prints : heard[prints[x].match].msg.ref = r}
              \union (IF m.ref = r THEN {k} ELSE {})
      BY <1>1, <1>5, <2>1, <2>3, <3>1
    <3> QED
      BY <1>7, <2>1, <2>3, <3>2 DEF Printed
  <2> QED
    BY <1>4, <2>2, <2>3, <2>4, <2>5 DEF PrintsTyped
<1> QED
  BY <1>6, <1>7

LEMMA BookPricedStep ==
  ASSUME FeedTyped, BookTyped, BookPriced, NEW m, Hear(m)
  PROVE  BookPriced'
<1>0. PICK n \in Nat : n = Len(heard) + 1
  BY DEF FeedTyped
<1>1. /\ DOMAIN heard' = DOMAIN heard \union {n} /\ n \notin DOMAIN heard /\ heard'[n].msg = m
      /\ \A i \in DOMAIN heard : heard'[i] = heard[i] /\ i < n /\ i \in Nat
  BY <1>0, HeardGrows
<1>2. \A r : /\ Told({"add"}, r)' = IF m.kind = "add" /\ m.ref = r THEN Told({"add"}, r) \union {n}
                                    ELSE Told({"add"}, r)
             /\ Told({"delete"}, r)' = IF m.kind = "delete" /\ m.ref = r
                                       THEN Told({"delete"}, r) \union {n} ELSE Told({"delete"}, r)
  BY <1>0, ToldGrows
<1>3. \A kinds, r : Told(kinds, r) \subseteq DOMAIN heard
  BY DEF Told
<1>4. SUFFICES ASSUME NEW r \in DOMAIN book'
               PROVE  \E a \in Told({"add"}, r)' : /\ heard'[a].msg.px = book'[r].px
                                                   /\ \A d \in Told({"delete"}, r)' : d < a
  BY DEF BookPriced
<1>5. m \in Message
  BY DEF Hear
<1>6. ASSUME r \in DOMAIN book, book'[r].px = book[r].px, ~(m.kind = "delete" /\ m.ref = r)
      PROVE  \E a \in Told({"add"}, r)' : /\ heard'[a].msg.px = book'[r].px
                                          /\ \A d \in Told({"delete"}, r)' : d < a
  <2>1. PICK a \in Told({"add"}, r) : /\ heard[a].msg.px = book[r].px
                                      /\ \A d \in Told({"delete"}, r) : d < a
    BY <1>6 DEF BookPriced
  <2> QED
    BY <1>1, <1>2, <1>3, <1>6, <2>1
<1>7. CASE m.kind \notin Orders /\ UNCHANGED sinks
  BY <1>6, <1>7 DEF sinks, Orders
<1>8. CASE OrderMessage(m)
  <2>1. CASE r # m.ref \/ ~Accepts(m)
    <3>1. r \in DOMAIN book /\ book'[r] = book[r]
      BY <1>5, <1>8, <2>1, BookMoves
    <3>2. ~(m.kind = "delete" /\ m.ref = r)
      BY <1>5, <1>8, BookMoves
    <3> QED
      BY <1>6, <3>1, <3>2
  <2>2. CASE r = m.ref /\ Accepts(m) /\ m.kind = "add"
    <3>1. book'[r].px = m.px /\ n \in Told({"add"}, r)' /\ Told({"delete"}, r)' = Told({"delete"}, r)
      BY <1>2, <1>5, <1>8, <2>2, BookMoves
    <3> QED
      BY <1>1, <1>3, <3>1
  <2>3. CASE r = m.ref /\ Accepts(m) /\ m.kind \in Executions
    <3>1. r \in DOMAIN book /\ book'[r].px = book[r].px /\ m.kind # "delete"
      BY <1>4, <1>5, <1>8, <2>3, BookMoves DEF Executions
    <3> QED
      BY <1>6, <3>1
  <2>4. CASE r = m.ref /\ m.kind = "delete"
    BY <1>4, <1>5, <1>8, <2>4, BookMoves
  <2>5. m.kind \in Executions \union {"add", "delete"}
    BY <1>8 DEF OrderMessage, Orders
  <2> QED
    BY <2>1, <2>2, <2>3, <2>4, <2>5
<1> QED
  BY <1>7, <1>8, SinksMove

LEMMA PricesExactStep ==
  ASSUME FeedTyped, BookTyped, PrintsTyped, BookPriced, PricesExact, NEW m, Hear(m)
  PROVE  PricesExact'
<1>0. PICK n \in Nat : n = Len(heard) + 1
  BY DEF FeedTyped
<1>1. /\ DOMAIN heard' = DOMAIN heard \union {n} /\ n \notin DOMAIN heard /\ heard'[n].msg = m
      /\ \A i \in DOMAIN heard : heard'[i] = heard[i] /\ i < n /\ i \in Nat
  BY <1>0, HeardGrows
<1>2. \A kinds, r : /\ Told(kinds, r)' = IF m.kind \in kinds /\ m.ref = r THEN Told(kinds, r) \union {n}
                                         ELSE Told(kinds, r)
                    /\ Told(kinds, r) \subseteq DOMAIN heard
  BY <1>0, ToldGrows DEF Told
<1>3. ASSUME NEW i \in DOMAIN prints, prints'[i] = prints[i], NEW k \in Nat, NEW r \in Nat,
             k = prints'[i].match, heard'[k].msg.ref = r, heard'[k].msg.kind = "exec"
      PROVE  \E a \in Told({"add"}, r)' : /\ a < k /\ heard'[a].msg.px = prints'[i].px
                                          /\ \A d \in Told({"delete"}, r)' : d < a \/ d > k
  <2>1. k \in DOMAIN heard /\ heard'[k] = heard[k] /\ k < n
    BY <1>1, <1>3 DEF PrintsTyped, Runs
  <2>2. PICK a \in Told({"add"}, r) : /\ a < k /\ heard[a].msg.px = prints[i].px
                                      /\ \A d \in Told({"delete"}, r) : d < a \/ d > k
    BY <1>3, <2>1 DEF PricesExact
  <2>3. a \in Told({"add"}, r)' /\ heard'[a] = heard[a]
    BY <1>1, <1>2
  <2>4. \A d \in Told({"delete"}, r)' : d \in Told({"delete"}, r) \/ d = n
    BY <1>2
  <2> QED
    BY <1>3, <2>1, <2>2, <2>3, <2>4
<1>4. CASE ~Prints(m)
  <2>1. prints' = prints
    BY <1>0, <1>4, PrintsMove
  <2> QED
    BY <1>3, <2>1 DEF PricesExact
<1>5. CASE Prints(m)
  <2>1. PICK p \in TradePrint : /\ prints' = Append(prints, p) /\ p.match = n
                                /\ m.kind = "exec" => p.px = book[m.ref].px
    BY <1>0, <1>5, PrintsMove
  <2>2. PICK j \in Nat : /\ DOMAIN prints' = DOMAIN prints \union {j} /\ prints'[j] = p
                         /\ \A i \in DOMAIN prints : prints'[i] = prints[i]
    <3>1. prints \in Seq(TradePrint) /\ Len(prints) + 1 \in Nat
      BY DEF PrintsTyped
    <3>2. /\ DOMAIN Append(prints, p) = DOMAIN prints \union {Len(prints) + 1}
          /\ Append(prints, p)[Len(prints) + 1] = p
          /\ \A i \in DOMAIN prints : Append(prints, p)[i] = prints[i]
      BY <3>1
    <3> QED
      BY <2>1, <3>1, <3>2
  <2>3. ASSUME m.kind = "exec"
        PROVE  \E a \in Told({"add"}, m.ref)' : /\ a < n /\ heard'[a].msg.px = p.px
                                                /\ \A d \in Told({"delete"}, m.ref)' : d < a \/ d > n
    <3>1. m.ref \in DOMAIN book
      BY <1>0, <1>5, PrintsMove
    <3>2. PICK a \in Told({"add"}, m.ref) : /\ heard[a].msg.px = book[m.ref].px
                                            /\ \A d \in Told({"delete"}, m.ref) : d < a
      BY <3>1 DEF BookPriced
    <3>3. /\ Told({"add"}, m.ref)' = Told({"add"}, m.ref)
          /\ Told({"delete"}, m.ref)' = Told({"delete"}, m.ref)
      BY <1>2, <2>3
    <3> QED
      BY <1>1, <1>2, <2>1, <2>3, <3>2, <3>3
  <2> QED
    BY <1>1, <1>3, <2>1, <2>2, <2>3, SMTT(30) DEF PricesExact
<1> QED
  BY <1>4, <1>5

LEMMA SharesExactStep ==
  ASSUME FeedTyped, BookTyped, PrintsTyped, SharesExact, NEW m, Hear(m)
  PROVE  SharesExact'
<1>0. PICK n \in Nat : n = Len(heard) + 1
  BY DEF FeedTyped
<1>1. /\ DOMAIN heard' = DOMAIN heard \union {n} /\ n \notin DOMAIN heard /\ heard'[n].msg = m
      /\ \A i \in DOMAIN heard : heard'[i] = heard[i]
  BY <1>0, HeardGrows
<1>2. m \in Message /\ m.shares \in Nat /\ m.ref \in Nat
  BY DEF Hear, Message
<1>3. IsFiniteSet(Cells(heard, DOMAIN heard))
  BY DEF SharesExact
<1>4. ASSUME NEW S \in SUBSET DOMAIN heard
      PROVE  /\ Cardinality(Cells(heard, S)) \in Nat /\ Cells(heard', S) = Cells(heard, S)
             /\ IsFiniteSet(Cells(heard', S \union {n}))
             /\ Cardinality(Cells(heard', S \union {n})) = Cardinality(Cells(heard, S)) + m.shares
  <2>1. IsFiniteSet(Cells(heard, S)) /\ Cardinality(Cells(heard, S)) \in Nat
    BY <1>3, CellsFewer
  <2>2. Cells(heard', S) = Cells(heard, S)
    <3>1. \A i \in S : heard'[i].msg = heard[i].msg
      BY <1>1
    <3> QED
      BY <3>1, CellsSame
  <2>3. n \notin S /\ heard'[n].msg.shares = m.shares /\ IsFiniteSet(Cells(heard', S))
    BY <1>1, <2>1, <2>2
  <2>4. /\ IsFiniteSet(Cells(heard', S \union {n}))
        /\ Cardinality(Cells(heard', S \union {n})) = Cardinality(Cells(heard', S)) + heard'[n].msg.shares
    BY <1>2, <2>3, CellsMore
  <2> QED
    BY <2>1, <2>2, <2>3, <2>4
<1>5. IsFiniteSet(Cells(heard', DOMAIN heard'))
  BY <1>1, <1>4
<1>6. ASSUME NEW r \in Nat
      PROVE  Cardinality(Cells(heard', Printed(r)')) + Resting(r)'
               <= Cardinality(Cells(heard', Told({"add"}, r)'))
  <2> DEFINE P == Printed(r)
             A == Told({"add"}, r)
  <2>1. P \in SUBSET DOMAIN heard /\ A \in SUBSET DOMAIN heard
    BY <1>0, PrintsTypedStep DEF Told
  <2>2. /\ Printed(r)' = IF Prints(m) /\ m.ref = r THEN P \union {n} ELSE P
        /\ Told({"add"}, r)' = IF m.kind \in {"add"} /\ m.ref = r THEN A \union {n} ELSE A
    <3>1. Printed(r)' = IF Prints(m) /\ m.ref = r THEN P \union {n} ELSE P
      BY <1>0, PrintsTypedStep
    <3>2. Told({"add"}, r)' = IF m.kind \in {"add"} /\ m.ref = r THEN A \union {n} ELSE A
      BY <1>0, ToldGrows, ZenonT(30)
    <3> QED
      BY <3>1, <3>2
  <2>3. Cardinality(Cells(heard, P)) + Resting(r) <= Cardinality(Cells(heard, A))
    BY DEF SharesExact
  <2>4. Resting(r) \in Nat
    BY DEF Resting, BookTyped
  <2> HIDE DEF P, A
  <2> DEFINE p == Cardinality(Cells(heard, P))
             a == Cardinality(Cells(heard, A))
  <2>5. /\ p \in Nat /\ a \in Nat
        /\ Cells(heard', P) = Cells(heard, P) /\ Cells(heard', A) = Cells(heard, A)
        /\ Cardinality(Cells(heard', P \union {n})) = p + m.shares
        /\ Cardinality(Cells(heard', A \union {n})) = a + m.shares
    BY <1>4, <2>1
  <2>6. /\ Cardinality(Cells(heard', Printed(r)')) =
             p + (IF Prints(m) /\ m.ref = r THEN m.shares ELSE 0)
        /\ Cardinality(Cells(heard', Told({"add"}, r)')) =
             a + (IF m.kind = "add" /\ m.ref = r THEN m.shares ELSE 0)
    BY <2>2, <2>5
  <2>7. p + Resting(r) <= a
    BY <2>3
  <2> HIDE DEF p, a
  <2>8. SUFFICES p + (IF Prints(m) /\ m.ref = r THEN m.shares ELSE 0) + Resting(r)'
                   <= a + (IF m.kind = "add" /\ m.ref = r THEN m.shares ELSE 0)
    BY <2>6
  <2>9. CASE m.kind \notin Orders /\ UNCHANGED sinks
    <3>1. Resting(r)' = Resting(r) /\ ~Prints(m) /\ m.kind # "add"
      BY <2>9 DEF sinks, Resting, Prints, Orders
    <3> QED
      BY <2>5, <2>7, <3>1
  <2>10. CASE OrderMessage(m)
    <3>1. CASE r # m.ref
      <4>1. Resting(r)' = Resting(r)
        BY <1>2, <2>10, <3>1, BookMoves DEF Resting
      <4> QED
        BY <2>5, <2>7, <3>1, <4>1
    <3>2. CASE r = m.ref /\ ~Accepts(m)
      <4>1. Resting(r)' = Resting(r) /\ ~Prints(m)
        BY <1>2, <2>10, <3>2, BookMoves DEF Resting, Prints
      <4> QED
        BY <1>2, <2>4, <2>5, <2>7, <4>1
    <3>3. CASE r = m.ref /\ Accepts(m) /\ m.kind = "add"
      <4>1. Resting(r) = 0 /\ Resting(r)' = m.shares /\ ~Prints(m)
        BY <1>2, <2>10, <3>3, BookMoves DEF Prints, Executions
      <4> QED
        BY <1>2, <2>5, <2>7, <3>3, <4>1
    <3>4. CASE r = m.ref /\ Accepts(m) /\ m.kind \in Executions
      <4>1. Resting(r)' = Resting(r) - m.shares /\ m.kind # "add" /\ Prints(m)
        BY <1>2, <2>10, <3>4, BookMoves DEF Prints, Executions
      <4> QED
        BY <1>2, <2>4, <2>5, <2>7, <3>4, <4>1
    <3>5. CASE r = m.ref /\ m.kind = "delete"
      <4>1. r \notin DOMAIN book' /\ ~Prints(m)
        BY <1>2, <2>10, <3>5, BookMoves DEF Prints, Executions
      <4>2. Resting(r)' = 0
        BY <4>1 DEF Resting
      <4> QED
        BY <2>4, <2>5, <2>7, <3>5, <4>1, <4>2
    <3>6. m.kind \in Executions \union {"add", "delete"}
      BY <2>10 DEF OrderMessage, Orders
    <3> QED
      BY <3>1, <3>2, <3>3, <3>4, <3>5, <3>6
  <2> QED
    BY <2>9, <2>10, SinksMove
<1> QED
  BY <1>5, <1>6 DEF SharesExact

LEMMA CountsExactStep ==
  ASSUME FeedTyped, BookTyped, PrintsTyped, CountsExact, NEW m, Hear(m)
  PROVE  CountsExact'
<1>0. PICK n \in Nat : n = Len(heard) + 1
  BY DEF FeedTyped
<1>1. IsFiniteSet(Runs) /\ n \notin Runs /\ Cardinality(Runs) \in Nat
  <2>1. DOMAIN heard = 1 .. (n - 1)
    BY <1>0 DEF FeedTyped
  <2>2. IsFiniteSet(DOMAIN heard)
    <3>1. 1 \in Int /\ n - 1 \in Int
      BY <1>0
    <3> QED
      BY <2>1, <3>1, FS_Interval
  <2>3. Runs \in SUBSET DOMAIN heard
    BY DEF Runs
  <2>4. IsFiniteSet(Runs)
    BY <2>2, <2>3, FS_Subset
  <2> QED
    BY <2>1, <2>3, <2>4, FS_CardinalityType
<1>2. Cardinality(Runs') = Cardinality(Runs) + IF m.kind \in Executions THEN 1 ELSE 0
  <2>1. Runs' = IF m.kind \in Executions THEN Runs \union {n} ELSE Runs
    BY <1>0, ToldGrows
  <2>2. Cardinality(Runs \union {n}) = Cardinality(Runs) + 1
    BY <1>1, FS_AddElement
  <2> QED
    BY <1>1, <2>1, <2>2
<1>3. Len(prints) \in Nat /\ tally.unpriced \in Nat /\ prints \in Seq(TradePrint)
  BY DEF PrintsTyped
<1>4. Len(prints') + tally'.unpriced =
        Len(prints) + tally.unpriced + IF m.kind \in Executions THEN 1 ELSE 0
  <2>1. CASE Prints(m)
    <3>1. PICK p \in TradePrint : prints' = Append(prints, p)
      BY <1>0, <2>1, PrintsMove
    <3>2. tally'.unpriced = tally.unpriced /\ m.kind \in Executions
      BY <1>0, <2>1, PrintsMove DEF Prints
    <3>3. Len(prints') = Len(prints) + 1
      BY <1>3, <3>1
    <3> QED
      BY <1>3, <3>2, <3>3
  <2>2. CASE ~Prints(m)
    <3>1. /\ prints' = prints
          /\ tally'.unpriced = tally.unpriced + IF m.kind \in Executions THEN 1 ELSE 0
      BY <1>0, <2>2, PrintsMove
    <3> QED
      BY <1>3, <3>1
  <2> QED
    BY <2>1, <2>2
<1> QED
  BY <1>1, <1>2, <1>3, <1>4 DEF CountsExact

LEMMA HaltedExactStep ==
  ASSUME FeedTyped, BookTyped, PrintsTyped, HaltsInv, HaltedExact, NEW m, Hear(m)
  PROVE  HaltedExact'
<1>0. PICK n \in Nat : n = Len(heard) + 1
  BY DEF FeedTyped
<1>1. /\ DOMAIN heard' = DOMAIN heard \union {n} /\ n \notin DOMAIN heard /\ heard'[n].msg = m
      /\ \A i \in DOMAIN heard : heard'[i] = heard[i] /\ i \in Nat /\ i < n
  BY <1>0, HeardGrows
<1>2. m.ts \in Nat /\ m.locate \in Locates
  BY DEF Hear, Message
<1> DEFINE Last(h, S) == \E i \in S : h[i].msg.kind # "T" /\ \A j \in S : j <= i
<1>3. ASSUME NEW S \in SUBSET DOMAIN heard PROVE Last(heard', S) <=> Last(heard, S)
  BY <1>1
<1>4. ASSUME NEW k \in DOMAIN heard PROVE LastHalts(Before(k))' <=> LastHalts(Before(k))
  <2>1. Before(k)' = Before(k) /\ Before(k) \in SUBSET DOMAIN heard
    BY <1>1 DEF Before, Actions
  <2>2. (LastHalts(Before(k))' <=> Last(heard', Before(k)')) /\ (LastHalts(Before(k)) <=> Last(heard, Before(k)))
    BY DEF LastHalts
  <2> HIDE DEF Last
  <2> QED
    BY <1>3, <2>1, <2>2
<1>5. SUFFICES ASSUME InOrder' PROVE tally'.halted = Cardinality(HaltPrints')
  BY DEF HaltedExact
<1>6. InOrder /\ \A i \in DOMAIN heard : heard[i].msg.ts <= m.ts
  BY <1>5, TimeGrows DEF HaltsInv
<1>7. tally.halted = Cardinality(HaltPrints) /\ tally.halted \in Nat
  BY <1>6 DEF HaltedExact, PrintsTyped
<1>8. \A i \in DOMAIN prints : prints[i].match \in DOMAIN heard
  BY DEF PrintsTyped, Runs
<1>9. CASE ~Prints(m)
  <2>1. prints' = prints /\ tally'.halted = tally.halted
    BY <1>0, <1>9, PrintsMove
  <2>2. HaltPrints' = HaltPrints
    BY <1>4, <1>8, <2>1 DEF HaltPrints
  <2> QED
    BY <1>7, <2>1, <2>2
<1>10. CASE Prints(m)
  <2>1. PICK p \in TradePrint : prints' = Append(prints, p) /\ p.match = n
    BY <1>0, <1>10, PrintsMove
  <2>2. PICK j \in Nat : /\ DOMAIN prints' = DOMAIN prints \union {j} /\ prints'[j] = p
                         /\ j \notin DOMAIN prints /\ IsFiniteSet(DOMAIN prints)
                         /\ \A i \in DOMAIN prints : prints'[i] = prints[i]
    <3>1. prints \in Seq(TradePrint) /\ Len(prints) \in Int /\ 1 \in Int /\ Len(prints) + 1 \in Nat
      BY DEF PrintsTyped
    <3>2. /\ DOMAIN Append(prints, p) = DOMAIN prints \union {Len(prints) + 1}
          /\ Append(prints, p)[Len(prints) + 1] = p
          /\ Len(prints) + 1 \notin DOMAIN prints /\ DOMAIN prints = 1 .. Len(prints)
          /\ \A i \in DOMAIN prints : Append(prints, p)[i] = prints[i]
      BY <3>1
    <3>3. IsFiniteSet(1 .. Len(prints))
      BY <3>1, FS_Interval
    <3> QED
      BY <2>1, <3>1, <3>2, <3>3
  <2>3. LastHalts(Before(n))' <=> WasHaltedAt(m.locate, m.ts)
    <3>1. WasHaltedAt(m.locate, m.ts) <=> LastHalts(Until(m.locate, m.ts))
      BY <1>2, <1>6 DEF HaltsInv, WindowsExact
    <3>2. Until(m.locate, m.ts) = Actions(m.locate) /\ Actions(m.locate) \in SUBSET DOMAIN heard
      BY <1>6 DEF Until, Actions
    <3>3. m.kind \notin Halts \union {"T"}
      BY <1>10 DEF Prints, Executions, Halts
    <3>4. Before(n)' = Actions(m.locate)
      BY <1>1, <3>3 DEF Before, Actions
    <3>5. /\ LastHalts(Before(n))' <=> Last(heard', Before(n)')
          /\ LastHalts(Actions(m.locate)) <=> Last(heard, Actions(m.locate))
      BY DEF LastHalts
    <3> HIDE DEF Last
    <3> QED
      BY <1>3, <3>1, <3>2, <3>4, <3>5
  <2>4. HaltPrints' = IF WasHaltedAt(m.locate, m.ts) THEN HaltPrints \union {j} ELSE HaltPrints
    <3>1. \A i \in DOMAIN prints : i \in HaltPrints' <=> i \in HaltPrints
      BY <1>4, <1>8, <2>2 DEF HaltPrints
    <3>2. j \in HaltPrints' <=> WasHaltedAt(m.locate, m.ts)
      BY <2>1, <2>2, <2>3 DEF HaltPrints
    <3>3. HaltPrints' \subseteq DOMAIN prints \union {j} /\ HaltPrints \subseteq DOMAIN prints
      BY <2>2 DEF HaltPrints
    <3> QED
      BY <2>2, <3>1, <3>2, <3>3
  <2>5. tally'.halted = tally.halted + IF WasHaltedAt(m.locate, m.ts) THEN 1 ELSE 0
    BY <1>0, <1>10, PrintsMove
  <2>6. HaltPrints \in SUBSET DOMAIN prints
    BY DEF HaltPrints
  <2>7. IsFiniteSet(HaltPrints) /\ j \notin HaltPrints
    BY <2>2, <2>6, FS_Subset
  <2>8. Cardinality(HaltPrints \union {j}) = Cardinality(HaltPrints) + 1
    BY <2>7, FS_AddElement
  <2> QED
    BY <1>7, <2>4, <2>5, <2>8
<1> QED
  BY <1>9, <1>10

LEMMA PrintsInvInit == Init => PrintsInv
<1> SUFFICES ASSUME Init PROVE PrintsInv
  OBVIOUS
<1>1. heard = <<>> /\ prints = <<>>
  BY DEF Init
<1>2. tally = [failed |-> 0, unpriced |-> 0, halted |-> 0, first |-> 0, last |-> 0]
  BY DEF Init
<1>3. book = [r \in {} |-> 0]
  BY DEF Init
<1>4. DOMAIN heard = {} /\ DOMAIN prints = {} /\ DOMAIN book = {} /\ Len(prints) = 0
  BY <1>1, <1>3
<1>5. Cells(heard, {}) = {} /\ Runs = {} /\ HaltPrints = {}
  BY <1>4 DEF Cells, Runs, HaltPrints
<1>6. \A r : Printed(r) = {} /\ Told({"add"}, r) = {} /\ Resting(r) = 0
  BY <1>4 DEF Printed, Told, Resting
<1>7. IsFiniteSet({}) /\ Cardinality({}) = 0
  BY FS_EmptySet
<1>8. SharesExact
  <2>1. \A r : Cells(heard, Printed(r)) = {} /\ Cells(heard, Told({"add"}, r)) = {}
    BY <1>5, <1>6, Zenon
  <2>2. Cells(heard, DOMAIN heard) = {}
    BY <1>4, <1>5, Zenon
  <2>3. \A r : /\ Cardinality(Cells(heard, Printed(r))) = 0 /\ Resting(r) = 0
               /\ Cardinality(Cells(heard, Told({"add"}, r))) = 0
    BY <1>6, <1>7, <2>1, Zenon
  <2>4. IsFiniteSet(Cells(heard, DOMAIN heard))
    BY <1>7, <2>2, Zenon
  <2> QED
    BY <2>3, <2>4 DEF SharesExact
<1>9. CountsExact /\ HaltedExact
  BY <1>2, <1>4, <1>5, <1>7 DEF CountsExact, HaltedExact
<1> QED
  BY <1>1, <1>2, <1>4, <1>8, <1>9 DEF PrintsInv, PrintsTyped, BookTyped, BookPriced, PricesExact

LEMMA PrintsInvStep == FramingInv /\ HaltsInv /\ PrintsInv /\ [Next]_vars => PrintsInv'
<1> SUFFICES ASSUME FramingInv, HaltsInv, PrintsInv, [Next]_vars PROVE PrintsInv'
  OBVIOUS
<1>1. CASE ~(Deliver /\ ~failed)
  <2>1. prints' = prints /\ book' = book /\ tally' = tally /\ heard' = heard
    BY <1>1, QuietSteps DEF sinks
  <2>2. PrintsTyped' /\ BookTyped' /\ CountsExact'
    BY <2>1 DEF PrintsInv, PrintsTyped, BookTyped, CountsExact, Runs
  <2>3. BookPriced' /\ PricesExact'
    BY <2>1 DEF PrintsInv, BookPriced, PricesExact, Told
  <2>4. SharesExact'
    <3>1. \A r : Printed(r)' = Printed(r) /\ Told({"add"}, r)' = Told({"add"}, r) /\ Resting(r)' = Resting(r)
      BY <2>1 DEF Printed, Told, Resting
    <3> QED
      BY <2>1, <3>1 DEF PrintsInv, SharesExact
  <2>5. HaltPrints' = HaltPrints
    BY <2>1 DEF HaltPrints, Before, Actions, LastHalts
  <2>6. HaltedExact'
    BY <2>1, <2>5 DEF PrintsInv, HaltedExact, InOrder
  <2> QED
    BY <2>2, <2>3, <2>4, <2>6 DEF PrintsInv
<1>2. CASE Deliver /\ ~failed
  <2> DEFINE m == Head(pending)
  <2>1. Hear(m) /\ FeedTyped
    BY <1>2, HearsNext DEF FramingInv
  <2> HIDE DEF m
  <2>2. PICK n \in Nat : n = Len(heard) + 1
    BY <2>1 DEF FeedTyped
  <2>3. PrintsTyped /\ BookTyped /\ BookPriced /\ PricesExact /\ SharesExact /\ CountsExact /\ HaltedExact
    BY DEF PrintsInv
  <2>4. PrintsTyped'
    BY <2>1, <2>2, <2>3, PrintsTypedStep
  <2>5. BookTyped'
    <3>1. m \in Message
      BY <2>1 DEF Hear
    <3>2. CASE UNCHANGED sinks
      BY <2>3, <3>2 DEF sinks, BookTyped
    <3> QED
      BY <2>1, <2>3, <3>1, <3>2, SinksMove, BookMoves
  <2>6. BookPriced' /\ PricesExact' /\ SharesExact' /\ CountsExact' /\ HaltedExact'
    BY <2>1, <2>3, BookPricedStep, PricesExactStep, SharesExactStep, CountsExactStep, HaltedExactStep
  <2> QED
    BY <2>4, <2>5, <2>6 DEF PrintsInv
<1> QED
  BY <1>1, <1>2

LEMMA PrintsExactHolds == FramingInv /\ PrintsInv => PrintsExact
<1> SUFFICES ASSUME FramingInv, PrintsInv PROVE PrintsExact
  OBVIOUS
<1>1. ASSUME NEW i \in DOMAIN prints
      PROVE  LET n == prints[i].match
                 r == heard[n].msg.ref
             IN  /\ n \in Runs /\ (i > 1 => prints[i - 1].match < n)
                 /\ heard[n].msg.kind = "exec" =>
                      \E a \in Told({"add"}, r) : /\ a < n /\ heard[a].msg.px = prints[i].px
                                                  /\ \A d \in Told({"delete"}, r) : d < a \/ d > n
                 /\ Cardinality(Cells(heard, Printed(r))) <= Cardinality(Cells(heard, Told({"add"}, r)))
  <2> DEFINE n == prints[i].match
             r == heard[n].msg.ref
  <2>1. n \in Runs /\ (i > 1 => prints[i - 1].match < n)
    BY DEF PrintsInv, PrintsTyped
  <2>2. n \in DOMAIN heard
    BY <2>1 DEF Runs
  <2>3. n \in Nat /\ r \in Nat
    BY <2>2, HeardTyped DEF FramingInv, FeedTyped
  <2>4. heard[n].msg.kind = "exec" =>
          \E a \in Told({"add"}, r) : /\ a < n /\ heard[a].msg.px = prints[i].px
                                      /\ \A d \in Told({"delete"}, r) : d < a \/ d > n
    BY <2>3 DEF PrintsInv, PricesExact
  <2>5. /\ Cardinality(Cells(heard, Printed(r))) + Resting(r)
             <= Cardinality(Cells(heard, Told({"add"}, r)))
        /\ IsFiniteSet(Cells(heard, DOMAIN heard)) /\ Resting(r) \in Nat
    BY <2>3 DEF PrintsInv, SharesExact, Resting, BookTyped
  <2>6. Printed(r) \in SUBSET DOMAIN heard /\ Told({"add"}, r) \in SUBSET DOMAIN heard
    BY DEF PrintsInv, PrintsTyped, Printed, Runs, Told
  <2>7. /\ Cardinality(Cells(heard, Printed(r))) \in Nat
        /\ Cardinality(Cells(heard, Told({"add"}, r))) \in Nat
    BY <2>5, <2>6, CellsFewer
  <2> QED
    BY <2>1, <2>4, <2>5, <2>7
<1>2. Len(prints) + tally.unpriced = Cardinality(Runs)
  BY DEF PrintsInv, CountsExact
<1>3. InOrder => tally.halted = Cardinality({i \in DOMAIN prints : LastHalts(Before(prints[i].match))})
  <2>1. \A i \in DOMAIN prints : prints[i].match \in DOMAIN heard
    BY DEF PrintsInv, PrintsTyped, Runs
  <2>2. DOMAIN heard \subseteq Nat
    BY DEF FramingInv, FeedTyped
  <2>3. HaltPrints = {i \in DOMAIN prints : LastHalts(Before(prints[i].match))}
    BY <2>1, <2>2 DEF HaltPrints
  <2> QED
    BY <2>3 DEF PrintsInv, HaltedExact
<1> QED
  BY <1>1, <1>2, <1>3, Zenon DEF PrintsExact, Runs, Told, Printed, Cells, Before

(* Every execution heard is a print or counted as unpriced, prints carry   *)
(* the price of a live add, no more is printed of a reference than was     *)
(* added, and the prints during halts are those the trading actions say    *)
(* (Trades.hpp:28-37, 73-93).                                              *)
THEOREM PrintsHold == Spec => []PrintsExact
<1>1. FramingInv /\ PrintsInv => PrintsExact
  BY PrintsExactHolds
<1>2. Init => FramingInv /\ HaltsInv /\ PrintsInv
  BY FramingInit, HaltsInvInit, PrintsInvInit
<1>3. FramingInv /\ HaltsInv /\ PrintsInv /\ [Next]_vars => (FramingInv /\ HaltsInv /\ PrintsInv)'
  BY FramingStep, HaltsInvStep, PrintsInvStep
<1> QED
  BY <1>1, <1>2, <1>3, PTL DEF Spec

=============================================================================
