----------------------------- MODULE ScriptRun -----------------------------
(***************************************************************************)
(* The script runner (SimRun.hpp): a table of market and strategy rows is  *)
(* read in full, then carried out row by row against one simulator whose   *)
(* fills are collected into a log of events.  Rows that halt or resume     *)
(* trading move the time like any other row, but skip the collection.      *)
(*                                                                         *)
(* The simulator is the environment: external flow and crossing orders     *)
(* fill resting strategy orders, each fill is appended to the simulator's  *)
(* reports; what an order takes is part of its decision.                   *)
(***************************************************************************)
EXTENDS Integers, Sequences, SequencesExt, FiniteSets

CONSTANTS
  Scripts,    \* sequences of rows [kind, ts, qty, ref, flags]
  Width,      \* quantities of rows are stored modulo this
  MaxFills    \* bounds the passive fills of a run

VARIABLES
  script,     \* the rows of the file
  row,        \* rows carried out; -1: rejected as a bad script
  prevTs,     \* prev_ts
  halted,     \* the simulator's halt
  open,       \* resting strategy orders: reference -> open quantity
  reports,    \* passive fills not yet collected
  events,     \* out.events
  counts,     \* the other fields of the summary
  makers,     \* history: passive fills [fill, row]
  takers      \* history: fills of crossing orders [fill, row]

vars == <<script, row, prevTs, halted, open, reports, events, counts, makers, takers>>

Init ==
  /\ script \in Scripts
  /\ row = 0 /\ prevTs = 0 /\ halted = FALSE /\ open = <<>>
  /\ reports = <<>> /\ events = <<>> /\ makers = <<>> /\ takers = <<>>
  /\ counts = [rows |-> 0, maker |-> 0, taker |-> 0, prints |-> 0]

Control == {"halt", "resume"}
Actions == {"ext_add", "trade", "strat_limit", "strat_ioc", "strat_cancel"}

(* apply_flag_column: what a submitted order becomes; a peg is never       *)
(* displayed and always rests.                                             *)
Column == [none |-> [hidden |-> FALSE, rests |-> FALSE], nd |-> [hidden |-> TRUE, rests |-> FALSE],
           peg |-> [hidden |-> TRUE, rests |-> TRUE]]

(* The checks of parse_script on one row; those of the quantity come       *)
(* before it is narrowed.                                                  *)
Valid(r) ==
  /\ r.kind \in Control \union Actions /\ r.ts >= 0
  /\ r.kind \in Actions => r.qty > 0 /\ r.ref >= 0
  /\ r.flags \in DOMAIN Column

BadScript == \E i \in DOMAIN script : ~Valid(script[i])

(* No row is carried out unless all are well formed.                       *)
Reject ==
  /\ row = 0 /\ BadScript /\ row' = -1
  /\ UNCHANGED <<script, prevTs, halted, open, reports, events, counts, makers, takers>>

Qty(r) == r.qty % Width

(* Passive fills the simulator can produce in one call: none, or a part of *)
(* one resting order.                                                      *)
Fills(resting) ==
  {<<>>} \union {<<[ref |-> r, qty |-> q]>> : r \in DOMAIN resting, q \in 1 .. Width}

Possible(resting, fs) == \A i \in DOMAIN fs : fs[i].qty <= resting[fs[i].ref]

After(resting, fs) ==
  LET left == [r \in DOMAIN resting |->
                 resting[r] - (IF fs # <<>> /\ fs[1].ref = r THEN fs[1].qty ELSE 0)]
  IN [r \in {x \in DOMAIN left : left[x] > 0} |-> left[r]]

With(resting, r, q) == [x \in DOMAIN resting \union {r} |-> IF x = r THEN q ELSE resting[x]]
Without(resting, r) == [x \in DOMAIN resting \ {r} |-> resting[x]]

(* advance_time moves by the gap since the row before, if there is one; a  *)
(* halted market stands still.                                             *)
Flow(r, resting, fs) ==
  /\ fs \in Fills(resting) /\ Possible(resting, fs)
  /\ fs # <<>> => r.ts > prevTs /\ ~halted

Rows(fs, i) == [k \in DOMAIN fs |-> [fill |-> fs[k], row |-> i]]

ControlRow ==
  LET r == script[row + 1] IN
  /\ row \in 0 .. Len(script) - 1 /\ ~BadScript /\ r.kind \in Control
  /\ \E fs \in Fills(open) :
       /\ Flow(r, open, fs) /\ Len(makers) + Len(fs) <= MaxFills
       /\ open' = After(open, fs)
       /\ reports' = reports \o fs
       /\ makers' = makers \o Rows(fs, row + 1)
  /\ halted' = (r.kind = "halt")
  /\ row' = row + 1 /\ prevTs' = r.ts
  /\ counts' = [counts EXCEPT !.rows = @ + 1]
  /\ UNCHANGED <<script, events, takers>>

(* The row is carried out on what rests: us are the passive fills it       *)
(* causes, own what a submitted order takes.                               *)
Carried(r, resting, us, own, next) ==
  CASE r.kind = "ext_add" -> us = <<>> /\ own = 0 /\ next = resting
    [] r.kind = "trade" ->
         /\ us \in Fills(resting) /\ Possible(resting, us) /\ own = 0
         /\ us # <<>> => ~halted /\ us[1].qty <= Qty(r)
         /\ next = After(resting, us)
    [] r.kind = "strat_cancel" -> us = <<>> /\ own = 0 /\ next = Without(resting, r.ref)
    [] OTHER ->
         LET column == Column[r.flags]
             rests  == r.kind = "strat_limit" \/ column.rests
             fresh  == r.ref \notin DOMAIN resting
         IN
         /\ us \in Fills(resting) /\ Possible(resting, us) /\ own \in 0 .. Qty(r)
         /\ own > 0 => fresh /\ ~halted
         /\ us # <<>> => us[1].qty <= own
         /\ next = IF fresh /\ rests /\ own < Qty(r)
                   THEN With(After(resting, us), r.ref, Qty(r) - own)
                   ELSE After(resting, us)

Event(type, ledger, ts, ref, qty) ==
  [type |-> type, ledger |-> ledger, ts |-> ts, ref |-> ref, qty |-> qty]

(* The log entries of a row: the reports collected, the decision of the    *)
(* row when it took something, and the print of a trade.                   *)
Collected(r, rs) == [k \in DOMAIN rs |-> Event("F", "M", r.ts, rs[k].ref, rs[k].qty)]
Crossed(r, own) == IF own = 0 THEN <<>> ELSE <<Event("F", "T", r.ts, r.ref, own)>>
Printed(r) ==
  IF r.kind = "trade" /\ ~halted THEN <<Event("P", "M", r.ts, 0, Qty(r))>> ELSE <<>>

(* Mutant: the reports of a row are not cleared.                           *)
MutCleared(rs) == rs

(* clear_reports: what is left to collect once a row was logged.           *)
Cleared(rs) == <<>>

ActionRow ==
  LET r == script[row + 1] IN
  /\ row \in 0 .. Len(script) - 1 /\ ~BadScript /\ r.kind \in Actions
  /\ \E before \in Fills(open) :
       /\ Flow(r, open, before)
       /\ \E us \in Fills(After(open, before)), own \in 0 .. Width :
            LET all == reports \o before \o us IN
            /\ Len(makers) + Len(before) + Len(us) <= MaxFills
            /\ Carried(r, After(open, before), us, own, open')
            /\ events' = events \o Collected(r, all) \o Crossed(r, own) \o Printed(r)
            /\ reports' = Cleared(all)
            /\ makers' = makers \o Rows(before \o us, row + 1)
            /\ takers' = takers \o Rows([k \in 1 .. Len(Crossed(r, own)) |->
                                           [ref |-> r.ref, qty |-> own]], row + 1)
            /\ counts' = [counts EXCEPT !.rows = @ + 1,
                 !.maker = @ + Len(all), !.taker = @ + Len(Crossed(r, own)),
                 !.prints = @ + Len(Printed(r))]
  /\ row' = row + 1 /\ prevTs' = r.ts
  /\ UNCHANGED <<script, halted>>

Next == Reject \/ ControlRow \/ ActionRow

----------------------------------------------------------------------------
Logged(type, ledger) == SelectSeq(events, LAMBDA e : e.type = type /\ e.ledger = ledger)

(* The row that logs the fills of a row: the first from it on that is not  *)
(* a halt or a resumption; none if the script ends before.                 *)
Logs(i) ==
  LET later == {j \in i .. Len(script) : script[j].kind \in Actions}
  IN IF later = {} THEN 0 ELSE CHOOSE j \in later : \A k \in later : j <= k

(* Every fill is logged once, in the order the fills happened: passive     *)
(* ones under the time of the first row from theirs on that collects (and  *)
(* those of control rows at the end never), crossing ones under their own  *)
(* row; the summary counts what is logged.                                 *)
FillsLogged ==
  LET passive  == Logged("F", "M")
      crossing == Logged("F", "T")
  IN
  /\ Len(passive) + Len(reports) = Len(makers) /\ Len(crossing) = Len(takers)
  /\ \A k \in DOMAIN passive :
       /\ passive[k].ref = makers[k].fill.ref /\ passive[k].qty = makers[k].fill.qty
       /\ Logs(makers[k].row) \in 1 .. row
       /\ passive[k].ts = script[Logs(makers[k].row)].ts
  /\ \A k \in DOMAIN crossing :
       /\ crossing[k].ref = takers[k].fill.ref /\ crossing[k].qty = takers[k].fill.qty
       /\ crossing[k].ts = script[takers[k].row].ts
  /\ \A k \in DOMAIN reports :
       Logs(makers[Len(passive) + k].row) \notin 1 .. row
  /\ counts.maker = Len(passive) /\ counts.taker = Len(crossing)
  /\ counts.prints = Len(Logged("P", "M"))
  /\ row >= 0 => counts.rows = row
=============================================================================
