-------------------------- MODULE AtomicActionQueue --------------------------
(***************************************************************************)
(* What ActionQueue promises its callers, and what module Crawler takes    *)
(* from it: push, and the taking of everything that was pushed, are        *)
(* indivisible; executeOrWaitAndExecute never returns with nothing, and    *)
(* executeOrWaitAndExecuteOrWaitUntil only once its time has come; a       *)
(* thread runs what it took in the order of the pushes.                    *)
(***************************************************************************)
EXTENDS Sequences, Integers

CONSTANTS
  Producer,  \* the threads that push
  Consumer,  \* the threads that execute
  Pushes     \* how many actions each producer pushes

(* The actions are told apart by who pushed them, and as which one. *)
Action == Producer \X (1..Pushes)

Method == {"execute", "executeOrWaitAndExecute",
           "executeOrWaitAndExecuteOrWaitUntil"}

VARIABLES
  actions,  \* pushed and not taken
  pushed,   \* how many actions each producer has pushed
  calling,  \* the method each consumer is in, or "none"
  taken,    \* whether it has taken its batch
  expired,  \* whether the time given has come
  batch     \* what it has taken and not run

vars == <<actions, pushed, calling, taken, expired, batch>>

Init ==
  /\ actions = <<>>
  /\ pushed = [p \in Producer |-> 0]
  /\ calling = [c \in Consumer |-> "none"]
  /\ taken = [c \in Consumer |-> FALSE]
  /\ expired = [c \in Consumer |-> FALSE]
  /\ batch = [c \in Consumer |-> <<>>]

Push(p) ==
  /\ pushed[p] < Pushes
  /\ pushed' = [pushed EXCEPT ![p] = @ + 1]
  /\ actions' = Append(actions, <<p, pushed'[p]>>)
  /\ UNCHANGED <<calling, taken, expired, batch>>

Call(c, method) ==
  /\ calling[c] = "none"
  /\ calling' = [calling EXCEPT ![c] = method]
  /\ taken' = [taken EXCEPT ![c] = FALSE]
  /\ expired' = [expired EXCEPT ![c] = FALSE]
  /\ UNCHANGED <<actions, pushed, batch>>

Expire(c) ==
  /\ calling[c] = "executeOrWaitAndExecuteOrWaitUntil"
  /\ expired' = [expired EXCEPT ![c] = TRUE]
  /\ UNCHANGED <<actions, pushed, calling, taken, batch>>

Take(c) ==
  /\ calling[c] \in Method /\ ~taken[c]
  /\ \/ actions # <<>>
     \/ calling[c] = "execute"
     \/ calling[c] = "executeOrWaitAndExecuteOrWaitUntil" /\ expired[c]
  /\ batch' = [batch EXCEPT ![c] = actions]
  /\ actions' = <<>>
  /\ taken' = [taken EXCEPT ![c] = TRUE]
  /\ UNCHANGED <<pushed, calling, expired>>

Run(c) ==
  /\ taken[c] /\ batch[c] # <<>>
  /\ batch' = [batch EXCEPT ![c] = Tail(@)]
  /\ UNCHANGED <<actions, pushed, calling, taken, expired>>

Return(c) ==
  /\ taken[c] /\ batch[c] = <<>>
  /\ calling' = [calling EXCEPT ![c] = "none"]
  /\ taken' = [taken EXCEPT ![c] = FALSE]
  /\ expired' = [expired EXCEPT ![c] = FALSE]
  /\ UNCHANGED <<actions, pushed, batch>>

Next ==
  \/ \E p \in Producer : Push(p)
  \/ \E c \in Consumer :
       \/ \E method \in Method : Call(c, method)
       \/ Expire(c) \/ Take(c) \/ Run(c) \/ Return(c)

Spec == Init /\ [][Next]_vars
=============================================================================
