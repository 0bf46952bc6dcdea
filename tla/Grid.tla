-------------------------------- MODULE Grid --------------------------------
(***************************************************************************)
(* The parallel grid runner (GridRunner.hpp): workers draw the index of    *)
(* the next task from a shared counter, run it, and store the result and   *)
(* the task's number in the slot of that index; the caller joins them all  *)
(* and returns the slots.                                                  *)
(***************************************************************************)
EXTENDS Integers, Sequences, FiniteSets

CONSTANTS
  Threads,      \* thread_count_
  Grids         \* the task lists: sequences of task numbers

(* The lists are those a caller passes to run_grid.                        *)
GridAssumption == Threads \in Nat \ {0} /\ Grids \subseteq Seq(Nat)

VARIABLES
  tasks,        \* the tasks of this call
  nextIndex,    \* next_index, an atomic counter
  worker,       \* worker -> [pc, idx]
  results,      \* index -> [result, id]; 0 where the slot is as constructed
  runs,         \* history: index -> times its task was run
  returned      \* whether run_grid has returned

gridVars == <<tasks, nextIndex, worker, results, runs, returned>>

Workers == 1 .. (IF Threads < Len(tasks) THEN Threads ELSE Len(tasks))

GridInit ==
  /\ tasks \in Grids
  /\ nextIndex = 0
  /\ worker = [w \in Workers |-> [pc |-> "claim", idx |-> 0]]
  /\ results = [i \in DOMAIN tasks |-> [result |-> 0, id |-> 0]]
  /\ runs = [i \in DOMAIN tasks |-> 0]
  /\ returned = FALSE

(* Mutant: the index is the counter after the addition.                    *)
MutDrawn(i) == [index |-> i + 1, next |-> i + 1]

(* fetch_add and what it returns.                                          *)
Drawn(i) == [index |-> i, next |-> i + 1]

Claim(w) ==
  LET d == Drawn(nextIndex) IN
  /\ worker[w].pc = "claim"
  /\ nextIndex' = d.next
  /\ worker' = [worker EXCEPT ![w] =
       [pc |-> IF d.index >= Len(tasks) THEN "exit" ELSE "run", idx |-> d.index + 1]]
  /\ UNCHANGED <<tasks, results, runs, returned>>

(* The task's function; its result is a function of the task.              *)
Run(w) ==
  LET i == worker[w].idx IN
  /\ worker[w].pc = "run"
  /\ results' = [results EXCEPT ![i] = [result |-> tasks[i], id |-> 0]]
  /\ runs' = [runs EXCEPT ![i] = @ + 1]
  /\ worker' = [worker EXCEPT ![w].pc = "label"]
  /\ UNCHANGED <<tasks, nextIndex, returned>>

(* The number of the task is stored after its result.                      *)
Label(w) ==
  LET i == worker[w].idx IN
  /\ worker[w].pc = "label"
  /\ results' = [results EXCEPT ![i].id = tasks[i]]
  /\ worker' = [worker EXCEPT ![w].pc = "claim"]
  /\ UNCHANGED <<tasks, nextIndex, runs, returned>>

(* join                                                                    *)
Join ==
  /\ ~returned /\ \A w \in Workers : worker[w].pc = "exit"
  /\ returned' = TRUE
  /\ UNCHANGED <<tasks, nextIndex, worker, results, runs>>

GridNext == (\E w \in Workers : Claim(w) \/ Run(w) \/ Label(w)) \/ Join

GridSpec == GridInit /\ [][GridNext]_gridVars

----------------------------------------------------------------------------
(* No task runs twice, and what is returned holds, at every index, the     *)
(* result and number of the task given at that index - however the workers *)
(* were scheduled, and also when tasks share a number.                     *)
GridExact ==
  /\ \A i \in DOMAIN tasks : runs[i] <= 1
  /\ returned => \A i \in DOMAIN tasks :
       runs[i] = 1 /\ results[i] = [result |-> tasks[i], id |-> tasks[i]]
=============================================================================
