---------------------------- MODULE CallMachine ----------------------------
(***************************************************************************)
(* The execution simulator as the layers above it see it: a deterministic  *)
(* machine driven by calls.  Of its state the model keeps what decides     *)
(* whether a call is refused (the orders resting in the book or hidden)    *)
(* and what later calls still have to work off (the submitted orders whose *)
(* decision lies ahead); everything else a call can influence is a function *)
(* of the calls that were carried out, so these are kept as they are.      *)
(* Two machines are in the same state when the records are equal.          *)
(* The simulator itself is modelled in Simulator.tla.                      *)
(***************************************************************************)
EXTENDS Integers, Sequences, SequencesExt, FiniteSets

CONSTANTS
  External,    \* references of the orders that are seeded
  Strategy,    \* references of the orders that are submitted
  Moment,      \* times at which a submitted order is decided
  Flags        \* what a submitted order can be besides displayed and unpegged

MachineAssumption == External \intersect Strategy = {} /\ Moment \subseteq Nat

(* A constructed simulator.                                                *)
Fresh == [calls |-> <<>>, resting |-> {}, waiting |-> {}]

(* The calls the layers make.  flag is the peg, the offset and the         *)
(* non-displayed mark of a submitted order.                                *)
Blank == [kind |-> "", ref |-> 0, fresh |-> 0, ts |-> 0, flag |-> "displayed"]

Calls ==
  {[Blank EXCEPT !.kind = k, !.ref = r] : k \in {"seed_external", "seed_iceberg"}, r \in External}
  \union {[Blank EXCEPT !.kind = "submit", !.ref = r, !.ts = t, !.flag = f] :
            r \in Strategy, t \in Moment, f \in Flags}
  \union {[Blank EXCEPT !.kind = "run_until", !.ts = t] : t \in Moment}
  \union {[Blank EXCEPT !.kind = k] : k \in {"set_stp", "drain", "apply_external", "advance_time"}}
  \union {[Blank EXCEPT !.kind = "cancel_strategy", !.ref = r] : r \in Strategy}
  \union {[Blank EXCEPT !.kind = "replace_strategy", !.ref = r, !.fresh = n] :
            r, n \in Strategy}

(* A call the simulator refuses, which leaves it as it was.  That a        *)
(* replacement's reference is taken is only noticed of displayed orders.   *)
Refused(sim, c) ==
  \/ c.kind \in {"seed_external", "seed_iceberg"} /\ c.ref \in sim.resting
  \/ c.kind = "cancel_strategy" /\ c.ref \notin sim.resting
  \/ /\ c.kind = "replace_strategy"
     /\ c.ref \in sim.resting /\ c.fresh # c.ref /\ c.fresh \in sim.resting

(* Replacing an unknown order changes nothing either, but returns a blank  *)
(* result that counts as a success.                                        *)
Ghost(sim, c) == c.kind = "replace_strategy" /\ c.ref \notin sim.resting

(* The orders decided at or before a time come to rest.                    *)
Decided(sim, until) ==
  [sim EXCEPT !.resting = @ \union {w.ref : w \in {x \in sim.waiting : x.ts <= until}},
              !.waiting = {x \in @ : x.ts > until}]

Latest == CHOOSE t \in Moment : \A u \in Moment : u <= t

(* External flow takes an order the model does not choose: which one is a  *)
(* function of the calls so far (the random state among them).             *)
Taken(sim) ==
  LET drawn == {r \in sim.resting : r % 2 = Len(sim.calls) % 2} IN
  [sim EXCEPT !.resting = @ \ drawn]

Effect(sim, c) ==
  CASE c.kind \in {"seed_external", "seed_iceberg"} -> [sim EXCEPT !.resting = @ \union {c.ref}]
    [] c.kind = "submit" -> [sim EXCEPT !.waiting = @ \union {[ref |-> c.ref, ts |-> c.ts]}]
    [] c.kind = "run_until" -> Decided(sim, c.ts)
    [] c.kind = "drain" -> Decided(sim, Latest)
    [] c.kind \in {"apply_external", "advance_time"} -> Taken(sim)
    [] c.kind = "set_stp" -> sim
    [] c.kind = "cancel_strategy" -> [sim EXCEPT !.resting = @ \ {c.ref}]
    [] c.kind = "replace_strategy" -> [sim EXCEPT !.resting = (@ \ {c.ref}) \union {c.fresh}]

(* The machine after a call.                                               *)
Performed(sim, c) ==
  IF Refused(sim, c) \/ Ghost(sim, c) THEN sim
  ELSE [Effect(sim, c) EXCEPT !.calls = Append(@, c)]
=============================================================================
