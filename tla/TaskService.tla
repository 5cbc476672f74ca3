----------------------------- MODULE TaskService -----------------------------
(***************************************************************************)
(* What a user of TaskSystem sees, without queues, workers or locks: a     *)
(* task that was submitted is started once and run to its end, a limited   *)
(* number at a time; closing waits until nothing is left.                  *)
(***************************************************************************)
EXTENDS FiniteSets, Integers

CONSTANTS
  Task,
  MaxRunning  \* how many tasks run at once at most

VARIABLES
  state,  \* how far each task is
  open    \* "open", "closing" or "closed"

vars == <<state, open>>

In(what) == {t \in Task : state[t] = what}

Init == state = [t \in Task |-> "new"] /\ open = "open"

Move(t, from, to) ==
  /\ state[t] = from
  /\ state' = [state EXCEPT ![t] = to]
  /\ UNCHANGED open

Submit(t) == open = "open" /\ Move(t, "new", "submitted")

Start(t) ==
  /\ open # "closed"
  /\ Cardinality(In("running")) < MaxRunning
  /\ Move(t, "submitted", "running")

Finish(t) == open # "closed" /\ Move(t, "running", "done")

Close ==
  /\ open = "open"
  /\ open' = "closing"
  /\ UNCHANGED state

Closed ==
  /\ open = "closing"
  /\ In("submitted") \cup In("running") = {}
  /\ open' = "closed"
  /\ UNCHANGED state

Next ==
  \/ \E t \in Task : Submit(t) \/ Start(t) \/ Finish(t)
  \/ Close \/ Closed

Spec == Init /\ [][Next]_vars
=============================================================================
