------------------------------ MODULE PcapFile ------------------------------
(***************************************************************************)
(* The reader of packet captures (Pcap.hpp): a file header in either byte  *)
(* order and either resolution of time, records one after the other, and   *)
(* in each the payload behind the Ethernet, VLAN, IPv4 and UDP headers.    *)
(* A file is a sequence of bytes; only Ports and Stamps are small numbers, *)
(* so that sums stay in TLC's range.                                       *)
(***************************************************************************)
EXTENDS Integers, Sequences, SequencesExt, FiniteSets

CONSTANT Captures    \* the captures taken: [swapped, nano, ethernet, packets]

VARIABLES
  capture,   \* the capture that was taken
  buf,       \* the bytes of its file
  kept       \* how many of them are left

vars == <<capture, buf, kept>>

Be16(v) == <<v \div 256, v % 256>>
Be32(v) == <<0, 0>> \o Be16(v)
Zeros(n) == [i \in 1 .. n |-> 0]

----------------------------------------------------------------------------
(* What is on the wire.  A packet is a record                              *)
(*   vlan, ip     whether it is tagged, whether it is IPv4                 *)
(*   options      words of IP options; -1 for a header length below five   *)
(*   udp          whether the protocol is UDP, else TCP                    *)
(*   length       whether the UDP length is filled in                      *)
(*   body         what it carries; padding follows up to the least frame   *)
(*   lost         how many bytes of the end were not captured              *)
(*   sec, sub     when                                                     *)
Ports == [src |-> 300, dst |-> 7]

Link(p) == Zeros(12) \o (IF p.vlan THEN <<129, 0, 0, 1>> ELSE <<>>)
                     \o (IF p.ip THEN <<8, 0>> ELSE <<8, 6>>)
Network(p) == <<64 + 5 + p.options>> \o Zeros(8) \o <<IF p.udp THEN 17 ELSE 6>> \o Zeros(10)
              \o (IF p.options = 1 THEN <<1, 2, 3, 4>> ELSE <<>>)
Udp(p) == Be16(Ports.src) \o Be16(Ports.dst)
          \o Be16(IF p.length THEN 8 + Len(p.body) ELSE 0) \o Zeros(2)

Behind(p) == (IF p.ip THEN Network(p) ELSE <<>>) \o (IF p.ip /\ p.udp THEN Udp(p) ELSE <<>>)
             \o p.body \o p.padding

Captured(p, bytes) == SubSeq(bytes, 1, Len(bytes) - p.lost)

(* The frame of a packet on Ethernet, or the packet itself.                *)
Raw(c, p) == Captured(p, IF c.ethernet THEN Link(p) \o Behind(p) ELSE Behind(p))

Number(c, v) == IF c.swapped THEN Reverse(Be32(v)) ELSE Be32(v)

Record(c, p) ==
  Number(c, p.sec) \o Number(c, p.sub) \o Number(c, Len(Raw(c, p))) \o Number(c, Len(Raw(c, p)))
  \o Raw(c, p)

Magic(nano) == IF nano THEN <<161, 178, 60, 77>> ELSE <<161, 178, 195, 212>>

FileOf(c) ==
  (IF c.swapped THEN Reverse(Magic(c.nano)) ELSE Magic(c.nano)) \o Zeros(16)
  \o Number(c, IF c.ethernet THEN 1 ELSE 101)
  \o FlattenSeq([i \in DOMAIN c.packets |-> Record(c, c.packets[i])])

Init == /\ capture \in Captures
        /\ buf = FileOf(capture)
        /\ kept = Len(buf)

(* The capture was still being written when the file was copied.           *)
CutOff == /\ kept = Len(buf)
          /\ kept' \in 0 .. Len(buf) - 1
          /\ UNCHANGED <<capture, buf>>

Next == CutOff

Spec == Init /\ [][Next]_vars

----------------------------------------------------------------------------
(* The reader.  Offsets are those of the code, counted from 0.             *)
Load16(b, at) == b[at + 1] * 256 + b[at + 2]
Load32(b, at) == Load16(b, at + 2)

Read32(b, swapped, at) ==
  IF swapped THEN Load32(Reverse(SubSeq(b, at + 1, at + 4)), 0) ELSE Load32(b, at)

From(b, at) == SubSeq(b, at + 1, Len(b))

(* parse_header                                                            *)
Header(b) ==
  LET m == SubSeq(b, 1, 4)
      straight == \E nano \in BOOLEAN : m = Magic(nano)
  IN IF Len(b) < 24 \/ ~(straight \/ \E nano \in BOOLEAN : m = Reverse(Magic(nano)))
     THEN [valid |-> FALSE]
     ELSE [valid |-> TRUE, swapped |-> ~straight, nano |-> m \in {Magic(TRUE), Reverse(Magic(TRUE))},
           link |-> Read32(b, ~straight, 20)]

Opaque(payload) == [protocol |-> 0, src |-> 0, dst |-> 0, payload |-> payload]

(* Mutant: the UDP length is not consulted.                                *)
MutDatagram(raw, at) ==
  [protocol |-> 17, src |-> Load16(raw, at), dst |-> Load16(raw, at + 2), payload |-> From(raw, at + 8)]

(* The payload of a datagram: as long as it says if that can be, else the  *)
(* rest of what was captured.                                              *)
Datagram(raw, at) ==
  LET n == Load16(raw, at + 4) IN
  [protocol |-> 17, src |-> Load16(raw, at), dst |-> Load16(raw, at + 2),
   payload |-> IF n >= 8 /\ at + n <= Len(raw) THEN SubSeq(raw, at + 9, at + n)
               ELSE From(raw, at + 8)]

(* extract_payload                                                         *)
Extracted(link, raw) ==
  LET tagged == Load16(raw, 12) = 33024 /\ Len(raw) >= 18
      l3     == IF tagged THEN 18 ELSE 14
      ipv4   == Load16(raw, l3 - 2) = 2048 /\ Len(raw) >= l3 + 20
      hdr    == (raw[l3 + 1] % 16) * 4
      l4     == l3 + hdr
  IN CASE link # 1 \/ Len(raw) < 14 -> Opaque(raw)
       [] OTHER -> CASE ~ipv4 -> Opaque(From(raw, l3))
                     [] OTHER -> CASE hdr < 20 \/ Len(raw) < l4 -> Opaque(From(raw, l3))
                                   [] raw[l3 + 10] = 17 /\ Len(raw) >= l4 + 8 -> Datagram(raw, l4)
                                   [] OTHER -> [Opaque(From(raw, l4)) EXCEPT !.protocol = raw[l3 + 10]]

(* One turn of for_each_packet: a record that is not whole ends it.        *)
Turn(b, h, x) ==
  LET n == Read32(b, h.swapped, x.offset + 8)
      ts == Read32(b, h.swapped, x.offset) * 1000000000
            + Read32(b, h.swapped, x.offset + 4) * (IF h.nano THEN 1 ELSE 1000)
      raw == SubSeq(b, x.offset + 17, x.offset + 16 + n)
  IN CASE x.done \/ x.offset + 16 > Len(b) -> [x EXCEPT !.done = TRUE]
       [] OTHER -> IF x.offset + 16 + n > Len(b) THEN [x EXCEPT !.done = TRUE]
                   ELSE [x EXCEPT !.offset = @ + 16 + n,
                           !.views = Append(@, [ts |-> ts, view |-> Extracted(h.link, raw)])]

(* for_each_packet: what the callback is given.                            *)
ForEachPacket(b) ==
  LET h == Header(b) IN
  IF ~h.valid THEN <<>>
  ELSE FoldLeft(LAMBDA x, i : Turn(b, h, x), [offset |-> 24, done |-> FALSE, views |-> <<>>],
                [i \in 1 .. 1 + Len(b) \div 16 |-> i]).views

----------------------------------------------------------------------------
(* What the sender of a packet meant: the body of a UDP datagram without   *)
(* the padding of its frame, as far as it was captured; behind anything    *)
(* else, or a header that was not captured whole, what there is.           *)
Meant(c, p) ==
  LET raw     == Raw(c, p)
      link    == Len(Link(p))
      network == link + Len(Network(p))
      udp     == network + Len(Udp(p))
      got     == Len(raw)
  IN CASE ~c.ethernet \/ got < 14 -> Opaque(raw)
       [] OTHER -> CASE got < link -> Opaque(From(raw, 14))
                     [] ~p.ip \/ p.options = -1 \/ got < network -> Opaque(From(raw, link))
                     [] ~p.udp \/ got < udp -> [Opaque(From(raw, network)) EXCEPT
                                                 !.protocol = IF p.udp THEN 17 ELSE 6]
                     [] OTHER -> [protocol |-> 17, src |-> Ports.src, dst |-> Ports.dst,
                                  payload |-> IF p.length /\ p.lost = 0 THEN p.body
                                              ELSE From(raw, udp)]

(* The records of a capture that are whole in the first n bytes.           *)
Whole(n) ==
  Cardinality({i \in DOMAIN capture.packets :
    24 + Len(FlattenSeq([j \in 1 .. i |-> Record(capture, capture.packets[j])])) <= n})

(* From a capture in either byte order and resolution, cut off anywhere,   *)
(* the reader hands over exactly the packets it holds whole, in order, at  *)
(* their times, each with what its sender meant: no header, no padding and *)
(* no byte of a neighbour in a payload.                                    *)
PacketsExact ==
  ForEachPacket(SubSeq(buf, 1, kept)) =
    [i \in 1 .. Whole(kept) |->
       LET p == capture.packets[i] IN
       [ts |-> p.sec * 1000000000 + p.sub * (IF capture.nano THEN 1 ELSE 1000),
        view |-> Meant(capture, p)]]
=============================================================================
