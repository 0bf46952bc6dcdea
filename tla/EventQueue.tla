----------------------------- MODULE EventQueue -----------------------------
(***************************************************************************)
(* What both event engines promise their caller: a set of pending events   *)
(* that pops in (timestamp, insertion) order, and handles that name one    *)
(* event for ever, so that cancelling through a handle whose event is gone *)
(* does nothing (docs/SCHEDULER.md:6-26).                                  *)
(***************************************************************************)
EXTENDS Integers, FiniteSets

CONSTANTS Time, QueueCap

VARIABLES
  pending,   (* the events scheduled: [ts, seq, handle]                    *)
  issued,    (* every handle push ever returned                            *)
  popped     (* timestamp and sequence of the last pop; <<>> after a clear *)

Before(e, f) == e.ts < f.ts \/ (e.ts = f.ts /\ e.seq < f.seq)

Init ==
  /\ pending = {}
  /\ issued = {}
  /\ popped = <<>>

(* The new event sorts after every pending one of the same timestamp.      *)
Push ==
  \E e \in pending' :
    /\ pending' = pending \union {e}
    /\ Cardinality(pending) < QueueCap
    /\ e.ts \in Time
    /\ \A f \in pending : f.seq < e.seq
    /\ e.handle \notin issued
    /\ issued' = issued \union {e.handle}
    /\ popped' = popped

Pop ==
  \E e \in pending :
    /\ \A f \in pending \ {e} : Before(e, f)
    /\ pending' = pending \ {e}
    /\ popped' = <<e.ts, e.seq>>
    /\ issued' = issued

Cancel ==
  \E e \in pending :
    /\ pending' = pending \ {e}
    /\ UNCHANGED <<issued, popped>>

Clear ==
  /\ pending' = {}
  /\ popped' = <<>>
  /\ issued' = issued

Steps == [Push \/ Pop \/ Cancel \/ Clear]_<<pending, issued, popped>>

Spec == Init /\ [][Steps]_<<pending, issued, popped>>

=============================================================================
