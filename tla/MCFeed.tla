------------------------------- MODULE MCFeed -------------------------------
(* Captures of two sessions: three messages in the first; in the second    *)
(* the end of a halt, or a late imbalance and a cross.  Files of five      *)
(* messages about orders and halts, on one stock or two.                   *)
EXTENDS Feed

Session(k, l, ts, n)      == [kind |-> k, locate |-> l, ts |-> ts, shares |-> n, ref |-> 0, px |-> 0]
Order(k, l, ts, n, r, px) == [kind |-> k, locate |-> l, ts |-> ts, shares |-> n, ref |-> r, px |-> px]

First ==
  {<<Session("H", 1, 1, 0), Session("T", 1, 2, 0), Session("H", 1, 3, 0)>>,
   <<Session("noii", 1, 1, 5), Session("noii", 1, 2, 0), Session("Q", 1, 3, 0)>>,
   <<Session("H", 1, 1, 0), Session("P", 2, 2, 0), Session("noii", 2, 3, 7)>>,
   <<Order("add", 1, 1, 2, 7, 10), Session("garbled", 1, 2, 0), Session("other", 1, 3, 0)>>,
   <<Order("add", 1, 1, 2, 7, 10), Session("H", 1, 2, 0), Order("exec", 1, 3, 1, 7, 0)>>,
   <<Session("noii", 1, 1, 5), Session("H", 1, 2, 0), Session("Q", 1, 3, 0)>>}

Second == {<<Session("T", 1, 4, 0), Session("M", 1, 5, 0)>>,
           <<Session("noii", 1, 4, 0), Session("Q", 1, 5, 0)>>}

MCDays == {[s \in {"A", "B"} |-> IF s = "A" THEN a ELSE b] : a \in First, b \in Second}

Places == {<<"H", 1>>, <<"H", 2>>, <<"T", 1>>}
MCFiles ==
  {<<Order("add", 1, 1, 2, 7, 10), a, b, c, d>> :
     a \in {Session(p[1], p[2], 2, 0) : p \in Places} \union {Order("add", 1, 2, 1, 7, 11),
            Order("exec", 1, 2, 1, 7, 0), Order("delete", 1, 2, 0, 7, 0), Session("noii", 2, 2, 4)},
     b \in {Session(p[1], p[2], 3, 0) : p \in Places} \union {Order("add", 1, 3, 1, 7, 12),
            Order("exec", 2, 3, 2, 7, 0), Session("noii", 2, 3, 0), Session("reg_sho", 1, 3, 1)},
     c \in {Order("exec", 1, 4, 1, 7, 0), Order("exec_at", 1, 1, 2, 7, 13), Session("Q", 1, 4, 0)},
     d \in {Session("M", 1, 5, 0), Order("exec", 1, 5, 1, 7, 0), Session("garbled", 1, 5, 0)}}
MCLocates == {1, 2}
=============================================================================
