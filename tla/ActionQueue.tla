----------------------------- MODULE ActionQueue -----------------------------
(***************************************************************************)
(* Class ActionQueue: a vector of actions, a mutex and a condition         *)
(* variable.  One action of the model is one step of a thread between two  *)
(* points where another thread can see the difference: taking the mutex,   *)
(* testing the predicate (and blocking, which releases the mutex), taking  *)
(* the batch, running one action; and the four steps of a push.  A blocked *)
(* thread is woken by a notification, by its time, or for no reason.       *)
(*                                                                         *)
(* The queue is an object with a lifetime.  Crawler::crawl declares one    *)
(* per round and destroys it when every action it counted has been run,    *)
(* without waiting for the threads that pushed them.                       *)
(***************************************************************************)
EXTENDS Sequences, Integers, FiniteSets

CONSTANTS
  Producer,  \* the threads that push
  Consumer,  \* the threads that execute
  Pushes,    \* how many actions each producer pushes
  Nobody     \* the owner of a free mutex

ASSUME QueueAssumption ==
  /\ Pushes \in Nat
  /\ Consumer # {}
  /\ Producer \cap Consumer = {}
  /\ Nobody \notin Producer \cup Consumer

Action == Producer \X (1..Pushes)

Method == {"execute", "executeOrWaitAndExecute",
           "executeOrWaitAndExecuteOrWaitUntil"}

VARIABLES
  alive,      \* whether the queue exists
  m_actions,
  m_mutex,    \* the thread holding it, or Nobody
  ppc,        \* where each producer is in push
  pushed,     \* how many actions each producer has pushed
  cpc,        \* where each consumer is
  method,     \* the method it is in, or "none"
  timedOut,   \* whether its time has come
  batch,      \* its local toBeExecuted
  ran         \* history: how often each action has been run

vars == <<alive, m_actions, m_mutex, ppc, pushed, cpc, method, timedOut,
          batch, ran>>

ProducerPc == {"idle", "append", "notify", "unlock"}
ConsumerPc == {"idle", "lock", "test", "blocked", "take", "run"}

Init ==
  /\ alive = TRUE
  /\ m_actions = <<>>
  /\ m_mutex = Nobody
  /\ ppc = [p \in Producer |-> "idle"]
  /\ pushed = [p \in Producer |-> 0]
  /\ cpc = [c \in Consumer |-> "idle"]
  /\ method = [c \in Consumer |-> "none"]
  /\ timedOut = [c \in Consumer |-> FALSE]
  /\ batch = [c \in Consumer |-> <<>>]
  /\ ran = [a \in Action |-> 0]

-----------------------------------------------------------------------------
(* push *)

PushLock(p) ==
  /\ ppc[p] = "idle" /\ pushed[p] < Pushes
  /\ m_mutex = Nobody
  /\ m_mutex' = p
  /\ ppc' = [ppc EXCEPT ![p] = "append"]
  /\ UNCHANGED <<alive, m_actions, pushed, cpc, method, timedOut, batch, ran>>

(* Mutants: nobody is notified; the mutex is released before the           *)
(* notification.                                                           *)
AppendWith(p, next, holder) ==
  /\ ppc[p] = "append"
  /\ pushed' = [pushed EXCEPT ![p] = @ + 1]
  /\ m_actions' = Append(m_actions, <<p, pushed'[p]>>)
  /\ ppc' = [ppc EXCEPT ![p] = next]
  /\ m_mutex' = holder
  /\ UNCHANGED <<alive, cpc, method, timedOut, batch, ran>>

AppendQuietly(p) == AppendWith(p, "unlock", p)
AppendAndUnlock(p) == AppendWith(p, "notify", Nobody)

PushAppend(p) ==
  /\ ppc[p] = "append"
  /\ pushed' = [pushed EXCEPT ![p] = @ + 1]
  /\ m_actions' = Append(m_actions, <<p, pushed'[p]>>)
  /\ ppc' = [ppc EXCEPT ![p] = "notify"]
  /\ UNCHANGED <<alive, m_mutex, cpc, method, timedOut, batch, ran>>

Blocked == {c \in Consumer : cpc[c] = "blocked"}

(* notify_one wakes some blocked thread, if there is one. *)
PushNotify(p) ==
  /\ ppc[p] = "notify"
  /\ IF Blocked = {}
     THEN UNCHANGED cpc
     ELSE \E c \in Blocked : cpc' = [cpc EXCEPT ![c] = "lock"]
  /\ ppc' = [ppc EXCEPT ![p] = "unlock"]
  /\ UNCHANGED <<alive, m_actions, m_mutex, pushed, method, timedOut, batch,
                 ran>>

(* The lock_guard is destroyed. *)
PushUnlock(p) ==
  /\ ppc[p] = "unlock"
  /\ m_mutex' = Nobody
  /\ ppc' = [ppc EXCEPT ![p] = "idle"]
  /\ UNCHANGED <<alive, m_actions, pushed, cpc, method, timedOut, batch, ran>>

-----------------------------------------------------------------------------
(* execute, executeOrWaitAndExecute, executeOrWaitAndExecuteOrWaitUntil *)

Call(c, m) ==
  /\ alive
  /\ cpc[c] = "idle"
  /\ cpc' = [cpc EXCEPT ![c] = "lock"]
  /\ method' = [method EXCEPT ![c] = m]
  /\ UNCHANGED <<alive, m_actions, m_mutex, ppc, pushed, timedOut, batch, ran>>

(* Take the mutex, at first or after having been woken. *)
Lock(c) ==
  /\ cpc[c] = "lock"
  /\ m_mutex = Nobody
  /\ m_mutex' = c
  /\ cpc' = [cpc EXCEPT ![c] = "test"]
  /\ UNCHANGED <<alive, m_actions, ppc, pushed, method, timedOut, batch, ran>>

MayTake(c) ==
  \/ method[c] = "execute"
  \/ m_actions # <<>>
  \/ method[c] = "executeOrWaitAndExecuteOrWaitUntil" /\ timedOut[c]

TestTrue(c) ==
  /\ cpc[c] = "test"
  /\ MayTake(c)
  /\ cpc' = [cpc EXCEPT ![c] = "take"]
  /\ UNCHANGED <<alive, m_actions, m_mutex, ppc, pushed, method, timedOut,
                 batch, ran>>

(* Blocking and releasing the mutex are one step of the condvar's wait. *)
Block(c) ==
  /\ cpc[c] = "test"
  /\ ~MayTake(c)
  /\ cpc' = [cpc EXCEPT ![c] = "blocked"]
  /\ m_mutex' = Nobody
  /\ UNCHANGED <<alive, m_actions, ppc, pushed, method, timedOut, batch, ran>>

WakeSpuriously(c) ==
  /\ cpc[c] = "blocked"
  /\ cpc' = [cpc EXCEPT ![c] = "lock"]
  /\ UNCHANGED <<alive, m_actions, m_mutex, ppc, pushed, method, timedOut,
                 batch, ran>>

WakeByTime(c) ==
  /\ cpc[c] = "blocked"
  /\ method[c] = "executeOrWaitAndExecuteOrWaitUntil"
  /\ cpc' = [cpc EXCEPT ![c] = "lock"]
  /\ timedOut' = [timedOut EXCEPT ![c] = TRUE]
  /\ UNCHANGED <<alive, m_actions, m_mutex, ppc, pushed, method, batch, ran>>

(* Mutant: the vector is copied, not swapped. *)
TakeCopy(c) ==
  /\ cpc[c] = "take"
  /\ batch' = [batch EXCEPT ![c] = m_actions]
  /\ m_mutex' = Nobody
  /\ cpc' = [cpc EXCEPT ![c] = "run"]
  /\ UNCHANGED <<alive, m_actions, ppc, pushed, method, timedOut, ran>>

(* Swap the vectors and release the mutex. *)
Take(c) ==
  /\ cpc[c] = "take"
  /\ batch' = [batch EXCEPT ![c] = m_actions]
  /\ m_actions' = <<>>
  /\ m_mutex' = Nobody
  /\ cpc' = [cpc EXCEPT ![c] = "run"]
  /\ UNCHANGED <<alive, ppc, pushed, method, timedOut, ran>>

RunAction(c) ==
  /\ cpc[c] = "run" /\ batch[c] # <<>>
  /\ ran' = [ran EXCEPT ![Head(batch[c])] = @ + 1]
  /\ batch' = [batch EXCEPT ![c] = Tail(@)]
  /\ UNCHANGED <<alive, m_actions, m_mutex, ppc, pushed, cpc, method, timedOut>>

Return(c) ==
  /\ cpc[c] = "run" /\ batch[c] = <<>>
  /\ cpc' = [cpc EXCEPT ![c] = "idle"]
  /\ method' = [method EXCEPT ![c] = "none"]
  /\ timedOut' = [timedOut EXCEPT ![c] = FALSE]
  /\ UNCHANGED <<alive, m_actions, m_mutex, ppc, pushed, batch, ran>>

-----------------------------------------------------------------------------
(***************************************************************************)
(* The end of the round, external to the class: every action that will be  *)
(* pushed has been run, which the owner knows from its own count, and no   *)
(* thread is in a method that executes.                                    *)
(***************************************************************************)
Destroy ==
  /\ alive
  /\ \A a \in Action : ran[a] > 0
  /\ \A c \in Consumer : cpc[c] = "idle"
  /\ alive' = FALSE
  /\ UNCHANGED <<m_actions, m_mutex, ppc, pushed, cpc, method, timedOut,
                 batch, ran>>

Terminated == ~alive /\ UNCHANGED vars

Next ==
  \/ \E p \in Producer :
       PushLock(p) \/ PushAppend(p) \/ PushNotify(p) \/ PushUnlock(p)
  \/ \E c \in Consumer :
       \/ \E m \in Method : Call(c, m)
       \/ Lock(c) \/ TestTrue(c) \/ Block(c)
       \/ WakeSpuriously(c) \/ WakeByTime(c)
       \/ Take(c) \/ RunAction(c) \/ Return(c)
  \/ Destroy
  \/ Terminated

Spec == Init /\ [][Next]_vars

(***************************************************************************)
(* Threads are scheduled and a thread that keeps finding the mutex free in *)
(* the end gets it.  Executing threads call again, as the crawl loop does. *)
(* Nothing is assumed of spurious wake-ups or of the time running out.     *)
(***************************************************************************)
Fairness ==
  /\ \A p \in Producer :
       /\ SF_vars(PushLock(p))
       /\ WF_vars(PushAppend(p) \/ PushNotify(p) \/ PushUnlock(p))
  /\ \A c \in Consumer :
       /\ SF_vars(Lock(c))
       /\ WF_vars(\E m \in Method : Call(c, m))
       /\ WF_vars(TestTrue(c) \/ Block(c) \/ Take(c) \/ RunAction(c)
                    \/ Return(c))

FairSpec == Spec /\ Fairness

-----------------------------------------------------------------------------
(* Every variable has its type, and no action is run more than once: a     *)
(* batch is moved out of the queue, not copied.                            *)
TypeOK ==
  /\ alive \in BOOLEAN
  /\ m_actions \in Seq(Action)
  /\ m_mutex \in Producer \cup Consumer \cup {Nobody}
  /\ ppc \in [Producer -> ProducerPc]
  /\ pushed \in [Producer -> 0..Pushes]
  /\ cpc \in [Consumer -> ConsumerPc]
  /\ method \in [Consumer -> Method \cup {"none"}]
  /\ timedOut \in [Consumer -> BOOLEAN]
  /\ batch \in [Consumer -> Seq(Action)]
  /\ ran \in [Action -> 0..1]

InPush == {p \in Producer : ppc[p] # "idle"}
InLock == {c \in Consumer : cpc[c] \in {"test", "take"}}

(***************************************************************************)
(* No lost wake-up: there is never an action in the queue with every       *)
(* executing thread asleep and no notification on its way.  The push that  *)
(* appended it still has to notify, or somebody is awake to find it.       *)
(***************************************************************************)
NoLostWakeup ==
  (m_actions # <<>> /\ Blocked = Consumer) =>
    \E p \in Producer : ppc[p] = "notify"

(***************************************************************************)
(* When the owner destroys the queue no thread is still inside push: the   *)
(* thread that ran the last action had to take the mutex after the push    *)
(* released it, its notification made.  (Notifying after the unlock, as    *)
(* JobQueue does, would let the condition variable die under the push.)    *)
(***************************************************************************)
DestroySafe == ~alive => InPush = {} /\ m_mutex = Nobody

(* Every action that is pushed is run. *)
EveryActionRuns ==
  \A a \in Action : (pushed[a[1]] >= a[2]) ~> (ran[a] > 0)

Atomic == INSTANCE AtomicActionQueue WITH
  actions <- m_actions,
  calling <- method,
  taken <- [c \in Consumer |-> cpc[c] = "run"],
  expired <- timedOut

(* The queue does what the atomic one does. *)
ImplementsAtomic == Atomic!Spec
=============================================================================
