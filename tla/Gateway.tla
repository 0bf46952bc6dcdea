------------------------------ MODULE Gateway ------------------------------
(***************************************************************************)
(* The OUCH gateway (OUCH.hpp): inbound frames become calls of the         *)
(* simulator, and what the simulator recorded becomes outbound frames, by  *)
(* three indices into its decisions, its fill reports and the gateway's    *)
(* own list of replacements, drained one list after the other.             *)
(*                                                                         *)
(* The simulator is here the environment: it decides pending orders, fills *)
(* resting ones and answers calls.  It records a report for a passive fill *)
(* only; what an order took while it crossed is part of its decision.      *)
(* Orders that self-trade prevention removes leave it as cancelled ones do. *)
(* The client uses a token once, and replaces only orders it was told of.  *)
(* An order is named by its reference; the token on the wire carries the   *)
(* digits of the reference and back (see Codec).                           *)
(***************************************************************************)
EXTENDS Integers, Sequences, SequencesExt, FiniteSets

CONSTANTS
  Token,      \* references the client uses, each for one order
  Share,      \* quantities of orders
  MaxOpen     \* bounds the orders the client enters or replaces

GatewayAssumption ==
  Token \subseteq Nat \ {0} /\ Share \subseteq Nat \ {0} /\ MaxOpen \in Nat

VARIABLES
  order,      \* the venue: reference -> [state, open, passive]
  decisions,  \* the simulator's decisions, in the order they were taken
  reports,    \* its reports of passive fills
  replaced,   \* replaced_events_ of the gateway
  table,      \* orders_: reference -> what is kept of the order
  at,         \* last_decision_idx_, last_replaced_idx_, last_report_idx_
  frames      \* the frames sent, oldest first

vars == <<order, decisions, reports, replaced, table, at, frames>>

(* "none": never entered; "pending": submitted, not decided.               *)
Unused == [state |-> "none", open |-> 0, passive |-> 0]

(* find of the table returns nothing for a reference it does not hold.     *)
Absent == [shares |-> 0, tif |-> "none"]

Init ==
  /\ order = [r \in Token |-> Unused]
  /\ decisions = <<>> /\ reports = <<>> /\ replaced = <<>> /\ frames = <<>>
  /\ table = [r \in Token |-> Absent]
  /\ at = [decision |-> 0, replaced |-> 0, report |-> 0]

InUse == {r \in Token : table[r] # Absent}

(* submit_enter: the order is noted before the simulator hears of it.      *)
SubmitEnter(r, n, tif) ==
  /\ r \notin InUse /\ Cardinality(InUse) < MaxOpen
  /\ table' = [table EXCEPT ![r] = [shares |-> n, tif |-> tif]]
  /\ order' = [order EXCEPT ![r] = [Unused EXCEPT !.state = "pending", !.open = n]]
  /\ UNCHANGED <<decisions, reports, replaced, at, frames>>

(* The client replaces what it has been told of: an accepted order or a    *)
(* replacement.                                                            *)
Told(r) == \E i \in DOMAIN frames : frames[i].type \in {"A", "U"} /\ frames[i].ref = r

(* submit_replace.  The simulator's answer for an order it does not have   *)
(* is a blank result that is not an error, so the gateway records a        *)
(* replacement all the same.                                               *)
SubmitReplace(r, fresh, n) ==
  /\ Told(r) /\ fresh \notin InUse /\ Cardinality(InUse) < MaxOpen
  /\ order' = IF order[r].state = "resting"
              THEN [order EXCEPT ![r].state = "gone", ![r].open = 0,
                                 ![fresh] = [Unused EXCEPT !.state = "resting", !.open = n]]
              ELSE order
  /\ table' = [table EXCEPT ![fresh] = [shares |-> n, tif |-> "day"]]
  /\ replaced' = Append(replaced, [ref |-> fresh, previous |-> r, shares |-> n,
                                   live |-> order[r].state = "resting"])
  /\ UNCHANGED <<decisions, reports, at, frames>>

(* submit_cancel: the client learns the outcome from the return value only. *)
SubmitCancel(r) ==
  /\ order[r].state = "resting"
  /\ order' = [order EXCEPT ![r].state = "gone", ![r].open = 0]
  /\ UNCHANGED <<decisions, reports, replaced, table, at, frames>>

(* The simulator decides a pending order of which it can fill f at once;   *)
(* a rejection for want of a price level can follow a partial fill.        *)
Decide(r, f, kind) ==
  LET n == order[r].open
      rests == kind \in {"rested", "partial_then_rest"}
  IN
  /\ order[r].state = "pending"
  /\ kind \in (CASE f = n -> {"filled"}
                 [] f = 0 /\ table[r].tif = "day" -> {"rested"}
                 [] f > 0 /\ f < n /\ table[r].tif = "day" -> {"partial_then_rest"}
                 [] OTHER -> {"partial_then_cancelled"})
              \union (IF f < n THEN {"rejected_stp", "rejected_unknown"} ELSE {})
  /\ order' = [order EXCEPT ![r].state = IF rests THEN "resting" ELSE "gone",
                            ![r].open = IF rests THEN n - f ELSE 0]
  /\ decisions' = Append(decisions,
       [ref |-> r, kind |-> kind, filled |-> f,
        cancelled |-> IF kind \in {"partial_then_cancelled", "rejected_stp"} THEN n - f ELSE 0])
  /\ UNCHANGED <<reports, replaced, table, at, frames>>

Decisions ==
  \E r \in Token, f \in 0 .. 2, kind \in {"rested", "filled", "partial_then_rest",
      "partial_then_cancelled", "rejected_stp", "rejected_unknown"} :
    f <= order[r].open /\ Decide(r, f, kind)

(* Another order trades against a resting one.                             *)
PassiveFill(r, f) ==
  LET left == order[r].open - f IN
  /\ order[r].state = "resting" /\ f \in 1 .. order[r].open
  /\ order' = [order EXCEPT ![r].open = left, ![r].passive = @ + f,
                            ![r].state = IF left = 0 THEN "gone" ELSE "resting"]
  /\ reports' = Append(reports, [ref |-> r, qty |-> f])
  /\ UNCHANGED <<decisions, replaced, table, at, frames>>

Frame(type, r, previous, n) == [type |-> type, ref |-> r, previous |-> previous, qty |-> n]

(* The frame of a decision: acceptances carry the quantity entered, not    *)
(* what is left; a decision for an order the table does not hold carries   *)
(* what was filled.                                                        *)
DecisionFrame(d) ==
  CASE d.kind \in {"rested", "filled", "partial_then_rest"} ->
         Frame("A", d.ref, 0, IF table[d.ref] = Absent THEN d.filled ELSE table[d.ref].shares)
    [] d.kind = "rejected_stp" -> Frame("D", d.ref, 0, d.cancelled)
    [] d.kind = "rejected_unknown" -> Frame("J", d.ref, 0, 0)
    [] d.kind = "partial_then_cancelled" -> Frame("C", d.ref, 0, d.cancelled)

ReplacedFrame(e) == Frame("U", e.ref, e.previous, e.shares)

ExecutedFrame(x) == Frame("E", x.ref, 0, x.qty)

(* Mutant: fill reports are drained first.                                 *)
MutOutbound ==
  [i \in 1 .. Len(reports) - at.report |-> ExecutedFrame(reports[at.report + i])]
  \o [i \in 1 .. Len(decisions) - at.decision |-> DecisionFrame(decisions[at.decision + i])]
  \o [i \in 1 .. Len(replaced) - at.replaced |-> ReplacedFrame(replaced[at.replaced + i])]

(* The frames of one drain, list after list.                               *)
Outbound ==
  [i \in 1 .. Len(decisions) - at.decision |-> DecisionFrame(decisions[at.decision + i])]
  \o [i \in 1 .. Len(replaced) - at.replaced |-> ReplacedFrame(replaced[at.replaced + i])]
  \o [i \in 1 .. Len(reports) - at.report |-> ExecutedFrame(reports[at.report + i])]

(* drain_outbound_stream                                                   *)
DrainOutbound ==
  /\ Outbound # <<>>
  /\ frames' = frames \o Outbound
  /\ at' = [decision |-> Len(decisions), replaced |-> Len(replaced), report |-> Len(reports)]
  /\ UNCHANGED <<order, decisions, reports, replaced, table>>

Next ==
  \/ \E r \in Token, n \in Share, tif \in {"day", "ioc"} : SubmitEnter(r, n, tif)
  \/ \E r, fresh \in Token, n \in Share : SubmitReplace(r, fresh, n)
  \/ \E r \in Token : SubmitCancel(r)
  \/ Decisions
  \/ \E r \in Token, f \in Share : PassiveFill(r, f)
  \/ DrainOutbound

Spec == Init /\ [][Next]_vars

----------------------------------------------------------------------------
(* What a client concludes from the frames it was sent.                    *)
Sent(type, r) == {i \in DOMAIN frames : frames[i].type = type /\ frames[i].ref = r}

Total(I) == MapThenSumSet(LAMBDA i : frames[i].qty, I)

Superseded(r) == \E i \in DOMAIN frames : frames[i].type = "U" /\ frames[i].previous = r

BelievedOpen(r) ==
  IF Superseded(r) \/ Sent("C", r) \union Sent("D", r) \union Sent("J", r) # {} THEN 0
  ELSE Total(Sent("A", r) \union Sent("U", r)) - Total(Sent("E", r))

Drained == Outbound = <<>>

(* An execution never reaches the client before the frame that introduced  *)
(* the order; and once all lists are drained the client knows every        *)
(* passive fill exactly once, and believes no order to have less open than *)
(* it has.  (It can believe more: what an order took while it crossed is   *)
(* not executed on the wire, and cancels are not acknowledged.)            *)
FramesTellAll ==
  /\ \A r \in Token : \A i \in Sent("E", r) : \E j \in Sent("A", r) \union Sent("U", r) : j < i
  /\ Drained => \A r \in Token :
       /\ Total(Sent("E", r)) = order[r].passive
       /\ order[r].state = "resting" => BelievedOpen(r) >= order[r].open

(* docs/FILLMODEL.md:89: a replace naming an order already consumed by     *)
(* depletion is rejected, so no replacement is reported for one.           *)
ReplacedWereLive == \A i \in DOMAIN replaced : replaced[i].live

=============================================================================
