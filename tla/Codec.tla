------------------------------- MODULE Codec -------------------------------
(***************************************************************************)
(* The wire formats: the order messages of ITCH, with their reference      *)
(* codec (Types.hpp) and the fast decoder the parser uses instead          *)
(* (ITCHParser.hpp), and the frames of OUCH (OUCH.hpp).                    *)
(*                                                                         *)
(* A layout lists fields [name, kind, bytes] in the order of the packed    *)
(* structure, so that the offset of a field follows from those before it;  *)
(* the fast decoder has its own table of offsets.  A byte is an integer.   *)
(* Numbers are written with the digits of Radix, which stands for 256,     *)
(* most significant first: their values are scaled down, their widths and  *)
(* offsets are those of the code.  Characters are their codes.             *)
(***************************************************************************)
EXTENDS Integers, Sequences, SequencesExt, FiniteSets, TLC

CONSTANTS
  Radix,      \* values of a byte of a number, and of a decimal digit
  Patterns    \* numbers that choose the contents of sampled messages

VARIABLES
  wire,       \* the bytes received
  sent,       \* [family, type, fields]: what was encoded
  damage      \* whether the bytes were changed on their way

vars == <<wire, sent, damage>>

N(f, n) == <<<<f, "number", n>>>>
C(f)    == <<<<f, "char", 1>>>>
S(f, n) == <<<<f, "text", n>>>>

(* Character codes.                                                        *)
ch == [A |-> 65, B |-> 66, C |-> 67, D |-> 68, E |-> 69, F |-> 70, J |-> 74, L |-> 76, M |-> 77,
       N |-> 78, O |-> 79, P |-> 80, S |-> 83, U |-> 85, X |-> 88, Y |-> 89, space |-> 32, q |-> 63]

(* The packed structures of ITCH.                                          *)
Header == C("type") \o N("locate", 2) \o N("tracking", 2) \o N("ts", 6)
Add    == Header \o N("order_ref", 8) \o C("side") \o N("shares", 4) \o S("stock", 8)
                 \o N("price", 4)
Executed == Header \o N("order_ref", 8) \o N("executed_shares", 4) \o N("match_number", 8)

Itch ==
  [A |-> Add,
   F |-> Add \o S("attribution", 4),
   E |-> Executed,
   C |-> Executed \o C("printable") \o N("execution_price", 4),
   X |-> Header \o N("order_ref", 8) \o N("cancelled_shares", 4),
   D |-> Header \o N("order_ref", 8),
   U |-> Header \o N("original_order_ref", 8) \o N("new_order_ref", 8) \o N("shares", 4)
                \o N("price", 4)]

(* The sizes the decoders test against, and the frame tables.              *)
ItchSize == [A |-> 36, F |-> 40, E |-> 31, C |-> 36, X |-> 23, D |-> 19, U |-> 35]

(* The packed structures of OUCH, inbound and outbound.                    *)
Terms == C("capacity") \o C("intermarket_sweep") \o N("minimum_quantity", 4) \o C("cross_type")
Inbound ==
  [O |-> C("type") \o S("token", 14) \o C("side") \o N("shares", 4) \o S("stock", 8)
           \o N("price", 4) \o N("tif", 4) \o S("firm", 4) \o C("display") \o Terms
           \o C("customer_type"),
   U |-> C("type") \o S("existing", 14) \o S("token", 14) \o N("shares", 4) \o N("price", 4)
           \o N("tif", 4) \o C("display") \o C("intermarket_sweep") \o N("minimum_quantity", 4),
   X |-> C("type") \o S("token", 14) \o N("shares", 4),
   M |-> C("type") \o S("token", 14) \o C("side") \o N("shares", 4)]

Stamped == C("type") \o N("ts", 8) \o S("token", 14)
Placed  == C("side") \o N("shares", 4) \o S("stock", 8) \o N("price", 4) \o N("tif", 4)
             \o S("firm", 4) \o C("display") \o N("ref", 8) \o Terms \o C("order_state")
Outbound ==
  [S |-> C("type") \o N("ts", 8) \o C("event"),
   A |-> Stamped \o Placed \o C("bbo_weight"),
   E |-> Stamped \o N("shares", 4) \o N("price", 4) \o C("liquidity") \o N("match", 8),
   C |-> Stamped \o N("shares", 4) \o C("reason"),
   U |-> Stamped \o Placed \o S("previous", 14) \o C("bbo_weight"),
   D |-> Stamped \o N("shares", 4) \o C("reason") \o N("prevented", 4) \o N("price", 4)
           \o C("liquidity"),
   J |-> Stamped \o C("reason")]

InboundLength  == [O |-> 49, U |-> 47, X |-> 19, M |-> 20]
OutboundLength == [S |-> 10, A |-> 66, E |-> 40, C |-> 28, U |-> 80, D |-> 37, J |-> 24]

Layout(family) ==
  CASE family = "itch" -> Itch [] family = "inbound" -> Inbound [] family = "outbound" -> Outbound
FrameLength(family) ==
  CASE family = "itch" -> ItchSize [] family = "inbound" -> InboundLength
    [] family = "outbound" -> OutboundLength

Size(layout) == FoldLeft(LAMBDA n, f : n + f[3], 0, layout)
OffsetOf(layout, i) == Size(SubSeq(layout, 1, i - 1))

(* store_be: the low digits of a number, most significant first.  Values   *)
(* that do not fit are cut, negative ones wrap.                            *)
StoreNumber(v, n) == [i \in 1 .. n |-> (v \div Radix ^ (n - i)) % Radix]

(* load_be of n bytes from an offset.                                      *)
LoadNumber(buf, at, n) == FoldLeft(LAMBDA v, d : v * Radix + d, 0, SubSeq(buf, at + 1, at + n))

Store(field, v) == IF field[2] = "number" THEN StoreNumber(v, field[3])
                   ELSE IF field[2] = "char" THEN <<v>> ELSE v
Load(buf, kind, at, n) == IF kind = "number" THEN LoadNumber(buf, at, n)
                          ELSE IF kind = "char" THEN buf[at + 1] ELSE SubSeq(buf, at + 1, at + n)

(* The encoders.                                                           *)
Encode(layout, fields) ==
  FlattenSeq([i \in DOMAIN layout |-> Store(layout[i], fields[layout[i][1]])])

Names(layout) == {layout[i][1] : i \in DOMAIN layout}
Index(layout, f) == CHOOSE i \in DOMAIN layout : layout[i][1] = f

(* Reading a packed structure field by field.                              *)
Unpack(layout, buf) ==
  [f \in Names(layout) |->
     LET i == Index(layout, f) IN Load(buf, layout[i][2], OffsetOf(layout, i), layout[i][3])]

Typed(table, code) == {t \in DOMAIN table : ch[t] = code}

Failed(e) == [error |-> e, fields |-> <<>>]

(* decode_message and the decoders it calls, the reference.                *)
Reference(buf) ==
  LET types == IF Len(buf) = 0 THEN {} ELSE Typed(Itch, buf[1])
      t     == CHOOSE x \in types : TRUE
      m     == Unpack(Itch[t], buf)
  IN CASE Len(buf) < 11 -> Failed("truncated")
       [] OTHER -> CASE types = {} -> Failed("unknown_type")
                     [] Len(buf) < ItchSize[t] -> Failed("truncated")
                     [] t \in {"A", "F"} /\ m.side \notin {ch.B, ch.S} -> Failed("invalid_side")
                     [] OTHER -> [error |-> "", fields |-> m]

(* parse_one: [name, kind, offset, bytes] of what is loaded after the      *)
(* header.                                                                 *)
AddLoads == {<<"order_ref", "number", 11, 8>>, <<"side", "char", 19, 1>>,
  <<"shares", "number", 20, 4>>, <<"stock", "text", 24, 8>>, <<"price", "number", 32, 4>>}
ExecLoads == {<<"order_ref", "number", 11, 8>>, <<"executed_shares", "number", 19, 4>>,
  <<"match_number", "number", 23, 8>>}
Loads ==
  [A |-> AddLoads,
   F |-> AddLoads \union {<<"attribution", "text", 36, 4>>},
   E |-> ExecLoads,
   C |-> ExecLoads \union {<<"printable", "char", 31, 1>>, <<"execution_price", "number", 32, 4>>},
   X |-> {<<"order_ref", "number", 11, 8>>, <<"cancelled_shares", "number", 19, 4>>},
   D |-> {<<"order_ref", "number", 11, 8>>},
   U |-> {<<"original_order_ref", "number", 11, 8>>, <<"new_order_ref", "number", 19, 8>>,
          <<"shares", "number", 27, 4>>, <<"price", "number", 31, 4>>}]

(* load_header: locate and tracking are the halves of one number.          *)
LoadHeader(buf) ==
  LET both == LoadNumber(buf, 1, 4) IN
  [type |-> buf[1], locate |-> both \div Radix ^ 2, tracking |-> both % Radix ^ 2,
   ts |-> LoadNumber(buf, 5, 6)]

FastFields(t, buf) ==
  LoadHeader(buf) @@
  [f \in {l[1] : l \in Loads[t]} |->
     LET l == CHOOSE x \in Loads[t] : x[1] = f IN Load(buf, l[2], l[3], l[4])]

(* Mutant: the side of an add with attribution goes unchecked.             *)
MutAccepts(buf) ==
  /\ Len(buf) >= 11
  /\ \E t \in Typed(Itch, buf[1]) :
       /\ Len(buf) >= ItchSize[t]
       /\ t = "A" => buf[20] \in {ch.B, ch.S}

Accepts(buf) ==
  /\ Len(buf) >= 11
  /\ \E t \in Typed(Itch, buf[1]) :
       /\ Len(buf) >= ItchSize[t]
       /\ t \in {"A", "F"} => buf[20] \in {ch.B, ch.S}

(* classify_stream_error, for bytes parse_one did not accept.              *)
Classified(buf) ==
  IF Len(buf) < 11 THEN "truncated"
  ELSE IF Typed(Itch, buf[1]) = {} THEN "unknown_type"
  ELSE IF Len(buf) < ItchSize[CHOOSE t \in Typed(Itch, buf[1]) : TRUE] THEN "truncated"
  ELSE IF buf[1] \in {ch.A, ch.F} /\ buf[20] \notin {ch.B, ch.S} THEN "invalid_side"
  ELSE "truncated"

Fast(buf) ==
  IF Accepts(buf)
  THEN [error |-> "", fields |-> FastFields(CHOOSE t \in Typed(Itch, buf[1]) : TRUE, buf)]
  ELSE Failed(Classified(buf))

(* token_from_id: at least fourteen digits, of which the first fourteen;   *)
(* id_from_token takes whatever digits a token has.                        *)
TokenFromId(id) ==
  LET digits == CHOOSE n \in 14 .. 30 : id < Radix ^ n /\ (n = 14 \/ id >= Radix ^ (n - 1))
  IN SubSeq([i \in 1 .. digits |-> 48 + ((id \div Radix ^ (digits - i)) % Radix)], 1, 14)
IdFromToken(tok) ==
  FoldLeft(LAMBDA id, c : IF c \in 48 .. 57 THEN id * Radix + (c - 48) ELSE id, 0, tok)

----------------------------------------------------------------------------
(* What is sent: every type of message with sampled contents, among them   *)
(* values the fields are too narrow for.                                   *)
Content(family, t, field, k) ==
  LET seed == k * 37 + 11 * Len(field[1]) + field[3] IN
  CASE field[1] = "type" -> ch[t]
    [] field[1] = "side" -> IF k % 2 = 0 THEN ch.B ELSE ch.S
    [] field[1] \in {"token", "existing", "previous"} -> TokenFromId(seed * (k + 1))
    [] field[2] = "number" -> IF k = 1 THEN seed - 60 ELSE seed % Radix ^ field[3]
    [] field[2] = "char" -> IF k % 2 = 0 THEN ch.Y ELSE ch.N
    [] OTHER -> [i \in 1 .. field[3] |-> 65 + ((seed + i) % 26)]

Sample(family, t, k) ==
  LET layout == Layout(family)[t] IN
  [f \in Names(layout) |-> Content(family, t, layout[Index(layout, f)], k)]

Message(family, t, k) == [family |-> family, type |-> t, fields |-> Sample(family, t, k)]

Init ==
  /\ \E family \in {"itch", "inbound", "outbound"} :
       \E t \in DOMAIN Layout(family), k \in Patterns : sent = Message(family, t, k)
  /\ wire = Encode(Layout(sent.family)[sent.type], sent.fields)
  /\ damage = FALSE

(* The bytes end early, or one that steers the decoders is another.        *)
Cut == /\ ~damage /\ sent.family = "itch"
       /\ \E n \in 0 .. Len(wire) - 1 : wire' = SubSeq(wire, 1, n)
       /\ damage' = TRUE /\ UNCHANGED sent
Garble == /\ ~damage /\ sent.family = "itch"
          /\ \E i \in {1, 20} \intersect DOMAIN wire, c \in {ch.A, ch.F, ch.D, ch.B, ch.q} :
               wire' = [wire EXCEPT ![i] = c]
          /\ damage' = TRUE /\ UNCHANGED sent

Next == Cut \/ Garble

----------------------------------------------------------------------------
(* What a field's value becomes on the wire.                               *)
Narrowed(field, v) == IF field[2] = "number" THEN v % Radix ^ field[3] ELSE v

(* The fast decoder and the reference accept the same bytes, decode them   *)
(* to the same message and name the same error for the others; undamaged   *)
(* bytes have the length the frame tables say and decode to what was sent, *)
(* cut to the width of its field; and the order behind a token is found    *)
(* again if its number has at most fourteen digits.                        *)
CodecExact ==
  LET layout == Layout(sent.family)[sent.type] IN
  /\ sent.family = "itch" => Fast(wire) = Reference(wire)
  /\ ~damage =>
       /\ Len(wire) = FrameLength(sent.family)[sent.type]
       /\ \A i \in DOMAIN layout :
            Unpack(layout, wire)[layout[i][1]] = Narrowed(layout[i], sent.fields[layout[i][1]])
       /\ sent.family = "itch" => Reference(wire).fields = Unpack(layout, wire)
  /\ \A k \in Patterns : LET id == k * 911 IN
       id < Radix ^ 14 => IdFromToken(TokenFromId(id)) = id
=============================================================================
