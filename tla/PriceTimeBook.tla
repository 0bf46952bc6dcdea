--------------------------- MODULE PriceTimeBook ---------------------------
(***************************************************************************)
(* What a price-time priority book promises, with none of the structures   *)
(* that make it fast: one queue of (reference, quantity) entries per side  *)
(* and tick.  New quantity joins the back, quantity leaves from anywhere,  *)
(* and a replacement gives up its place.  OrderBook implements this.       *)
(***************************************************************************)
EXTENDS Integers, Sequences, SequencesExt

CONSTANTS Ref, Side, Ticks, Qty

VARIABLE queue

Entry(r, q) == [ref |-> r, qty |-> q]

Resting == {r \in Ref : \E s \in Side, t \in Ticks :
              \E i \in DOMAIN queue[s][t] : queue[s][t][i].ref = r}

(* The queue after q units of its i-th entry are gone.                     *)
Without(seq, i, q) ==
  IF seq[i].qty = q THEN RemoveAt(seq, i) ELSE [seq EXCEPT ![i].qty = @ - q]

Init == queue = [s \in Side |-> [t \in Ticks |-> <<>>]]

Join(r, s, q, t) ==
  /\ queue' = [queue EXCEPT ![s][t] = Append(@, Entry(r, q))]
  /\ r \notin Resting

Leave(s, t, i, q) ==
  /\ q <= queue[s][t][i].qty
  /\ queue' = [queue EXCEPT ![s][t] = Without(@, i, q)]

(* Remove the i-th entry and queue its replacement in the same step.       *)
Requeue(s, t, i, n, q, u) ==
  LET rest == [queue EXCEPT ![s][t] = RemoveAt(@, i)]
  IN  /\ queue' = [rest EXCEPT ![s][u] = Append(@, Entry(n, q))]
      /\ n \notin Resting \/ n = queue[s][t][i].ref

(* A step is something happening to at least one queue.                    *)
Next ==
  /\ queue' # queue
  /\ \/ \E r \in Ref, s \in Side, q \in Qty, t \in Ticks : Join(r, s, q, t)
     \/ \E s \in Side, t \in Ticks : \E i \in DOMAIN queue[s][t] :
          \/ \E q \in 1 .. queue[s][t][i].qty : Leave(s, t, i, q)
          \/ \E n \in Ref, q \in Qty, u \in Ticks : Requeue(s, t, i, n, q, u)

Spec == Init /\ [][Next]_queue

=============================================================================
