----------------------------- MODULE TimeTravel -----------------------------
(***************************************************************************)
(* Record and replay sessions (TimeTravel.hpp): a simulator whose mutating *)
(* calls are journaled, a cursor into the journal, seeking to any position *)
(* (backwards by building a new simulator and applying a prefix, forwards  *)
(* by applying the tail), and branches that share a prefix.  Calls made    *)
(* while the cursor is not at the end cut the journal there.               *)
(***************************************************************************)
EXTENDS CallMachine

CONSTANT MaxOps    \* bounds the operations in the two journals together

VARIABLES
  session,    \* session name -> [log, cursor, sim]
  lived       \* history: session name -> the states it went through, oldest first

vars == <<session, lived>>

Names == {"base", "branch"}

Init ==
  /\ session = [s \in Names |-> [log |-> <<>>, cursor |-> 0, sim |-> Fresh]]
  /\ lived = [s \in Names |-> <<Fresh>>]

(* What is journaled of a call: an operation has no field for the flags.   *)
Journaled(c) == [c EXCEPT !.flag = "displayed"]

(* Mutants: variations a plausible slip in the code would produce.         *)

(* record without the cut.                                                 *)
MutRecorded(x, c) ==
  [x EXCEPT !.log = Append(@, Journaled(c)), !.cursor = @ + 1]

(* record: the operations after the cursor are dropped.                    *)
Recorded(x, c) ==
  [x EXCEPT !.log = Append(SubSeq(@, 1, x.cursor), Journaled(c)), !.cursor = @ + 1]

Journals == Len(session["base"].log) + Len(session["branch"].log)

(* A mutating call: carried out first, journaled unless it was refused.    *)
Do(s, c) ==
  LET x    == session[s]
      next == [x EXCEPT !.sim = Performed(@, c)]
  IN
  /\ Journals < MaxOps
  /\ IF Refused(x.sim, c)
     THEN session' = [session EXCEPT ![s] = next] /\ UNCHANGED lived
     ELSE /\ session' = [session EXCEPT ![s] = Recorded(next, c)]
          /\ lived' = [lived EXCEPT ![s] = Append(SubSeq(@, 1, x.cursor + 1), next.sim)]

(* The operations between two positions applied to a simulator.            *)
Applied(sim, log, from, to) == FoldLeft(Performed, sim, SubSeq(log, from + 1, to))

(* seek: rewinding starts again from a new simulator.                      *)
Seek(s, k) ==
  LET x == session[s]
      from == IF k < x.cursor THEN 0 ELSE x.cursor
      sim  == IF k < x.cursor THEN Fresh ELSE x.sim
  IN
  /\ k \in 0 .. Len(x.log) /\ k # x.cursor
  /\ session' = [session EXCEPT ![s].sim = Applied(sim, x.log, from, k), ![s].cursor = k]
  /\ UNCHANGED lived

(* fork_at: an untouched session becomes a branch of the first k           *)
(* operations.  Its contract does not ask that its simulator is untouched: *)
(* a refused call leaves it so.                                            *)
ForkAt(k) ==
  LET prefix == SubSeq(session["base"].log, 1, k) IN
  /\ k \in 0 .. Len(session["base"].log) /\ Journals + k <= MaxOps
  /\ session["branch"].log = <<>> /\ session["branch"].cursor = 0
  /\ session' = [session EXCEPT !["branch"] =
       [log |-> prefix, cursor |-> k, sim |-> Applied(@.sim, prefix, 0, k)]]
  /\ lived' = [lived EXCEPT !["branch"] = SubSeq(lived["base"], 1, k + 1)]

Next ==
  \/ \E s \in Names, c \in Calls : Do(s, c)
  \/ \E s \in Names, k \in 0 .. MaxOps : Seek(s, k)
  \/ \E k \in 0 .. MaxOps : ForkAt(k)

Spec == Init /\ [][Next]_vars

----------------------------------------------------------------------------
(* However a session got to its position - by calls, by seeking back and   *)
(* forth, by cutting the journal, as a branch of another - its simulator   *)
(* is in the state that was lived through at that position: travelling     *)
(* neither loses nor repeats an operation.                                 *)
Retraced ==
  \A s \in Names : LET now == session[s].cursor + 1 IN
    now \in DOMAIN lived[s] /\ session[s].sim = lived[s][now]
=============================================================================
