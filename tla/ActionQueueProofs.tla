-------------------------- MODULE ActionQueueProofs --------------------------
(***************************************************************************)
(* Proofs about ActionQueue, for any number of pushing and executing       *)
(* threads and any number of pushes: mutual exclusion, no lost wake-up,    *)
(* the queue's safe destruction, and that it does what AtomicActionQueue   *)
(* says.                                                                   *)
(***************************************************************************)
EXTENDS ActionQueue, SequenceTheorems, TLAPS

-----------------------------------------------------------------------------
(* The inductive invariant *)

(* The mutex is held by the thread that is at a place between taking it    *)
(* and releasing it.                                                       *)
MutexHeld ==
  /\ \A p \in Producer : ppc[p] # "idle" <=> m_mutex = p
  /\ \A c \in Consumer : cpc[c] \in {"test", "take"} <=> m_mutex = c

(* What a method leaves behind for the next one. *)
IdleConsumer ==
  \A c \in Consumer :
    /\ cpc[c] = "idle" <=> method[c] = "none"
    /\ cpc[c] = "idle" => ~timedOut[c]
    /\ cpc[c] = "take" => MayTake(c)

(* An action is in the queue, in a batch or run only once it was pushed.   *)
PushedBefore(a) == a[2] <= pushed[a[1]]

OnlyPushed ==
  /\ \A i \in 1..Len(m_actions) : PushedBefore(m_actions[i])
  /\ \A c \in Consumer : \A i \in 1..Len(batch[c]) : PushedBefore(batch[c][i])
  /\ \A a \in Action : ran[a] > 0 => PushedBefore(a)

(* An action waits in one place only, at one index, until it is run.       *)
Once(s) == \A i, j \in 1..Len(s) : s[i] = s[j] => i = j
Apart(s, t) == \A i \in 1..Len(s), j \in 1..Len(t) : s[i] # t[j]

OnePlace ==
  /\ Once(m_actions)
  /\ \A c \in Consumer : Once(batch[c]) /\ Apart(m_actions, batch[c])
  /\ \A c, d \in Consumer : c # d => Apart(batch[c], batch[d])

NotYetRun ==
  /\ \A i \in 1..Len(m_actions) : ran[m_actions[i]] = 0
  /\ \A c \in Consumer : \A i \in 1..Len(batch[c]) : ran[batch[c][i]] = 0

(* While a push holds the mutex its action cannot have been taken.         *)
Untaken(a) ==
  /\ \A c \in Consumer : \A i \in 1..Len(batch[c]) : batch[c][i] # a
  /\ ran[a] = 0

PushNotTaken ==
  \A p \in Producer :
    /\ ppc[p] = "append" => pushed[p] < Pushes
    /\ ppc[p] \in {"notify", "unlock"} =>
         pushed[p] \in 1..Pushes /\ Untaken(<<p, pushed[p]>>)

(* The queue is destroyed when all is run and all executing threads left.  *)
DestroyedLate ==
  ~alive => (\A a \in Action : ran[a] > 0) /\ \A c \in Consumer : cpc[c] = "idle"

IInv ==
  /\ TypeOK
  /\ MutexHeld
  /\ IdleConsumer
  /\ OnlyPushed
  /\ OnePlace
  /\ NotYetRun
  /\ PushNotTaken
  /\ DestroyedLate
  /\ NoLostWakeup

-----------------------------------------------------------------------------
LEMMA InitInv == Init => IInv
  BY QueueAssumption
     DEF Init, IInv, TypeOK, ProducerPc, ConsumerPc, MutexHeld, IdleConsumer,
         OnlyPushed, OnePlace, Once, Apart, NotYetRun, PushNotTaken, DestroyedLate,
         NoLostWakeup, Untaken

(* A step that neither moves nor runs an action. *)
LEMMA PlacesStay ==
  ASSUME IInv, UNCHANGED <<m_actions, pushed, batch, ran>>
  PROVE  OnlyPushed' /\ OnePlace' /\ NotYetRun'
  BY DEF IInv, OnlyPushed, PushedBefore, OnePlace, NotYetRun

(* push *)

LEMMA PushLockInv ==
  ASSUME IInv, NEW p \in Producer, PushLock(p)
  PROVE  IInv'
<1> USE QueueAssumption DEF PushLock
<1>1. TypeOK'
  BY DEF IInv, TypeOK, ProducerPc
<1>2. MutexHeld'
  BY DEF IInv, TypeOK, MutexHeld
<1>3. /\ IdleConsumer' /\ OnlyPushed' /\ OnePlace' /\ NotYetRun'
      /\ DestroyedLate'
  BY PlacesStay DEF IInv, IdleConsumer, MayTake, DestroyedLate
<1>4. PushNotTaken'
  BY DEF IInv, TypeOK, PushNotTaken, Untaken
<1>5. NoLostWakeup'
  BY DEF IInv, TypeOK, NoLostWakeup, Blocked
<1> QED
  BY <1>1, <1>2, <1>3, <1>4, <1>5 DEF IInv

LEMMA PushAppendInv ==
  ASSUME IInv, NEW p \in Producer, PushAppend(p)
  PROVE  IInv'
<1> USE QueueAssumption
<1>a. ppc[p] = "append" /\ pushed[p] \in 0..Pushes /\ pushed[p] < Pushes
  BY DEF PushAppend, IInv, TypeOK, PushNotTaken
<1>b. pushed[p] + 1 \in 1..Pushes
  BY <1>a
<1>1. PICK n \in 1..Pushes : n = pushed[p] + 1
  BY <1>b
<1>2. PICK a \in Action : a = <<p, n>>
  BY DEF Action
<1>3. pushed' = [pushed EXCEPT ![p] = n] /\ pushed'[p] = n
  BY <1>1 DEF PushAppend, IInv, TypeOK
<1>4. /\ m_actions' = Append(m_actions, a)
      /\ ppc' = [ppc EXCEPT ![p] = "notify"]
      /\ UNCHANGED <<alive, m_mutex, cpc, method, timedOut, batch, ran>>
  BY <1>2, <1>3 DEF PushAppend
<1>5. /\ m_actions' \in Seq(Action) /\ m_actions' # <<>>
      /\ Len(m_actions) \in Nat /\ Len(m_actions') = Len(m_actions) + 1
      /\ \A i \in 1..Len(m_actions) : m_actions'[i] = m_actions[i]
      /\ m_actions'[Len(m_actions) + 1] = a
  BY <1>4 DEF IInv, TypeOK
<1>6. \A b \in Action : PushedBefore(b) => PushedBefore(b)' /\ b # a
  BY <1>1, <1>2, <1>3 DEF PushedBefore, IInv, TypeOK, Action
<1>7. TypeOK'
  BY <1>3, <1>4, <1>5 DEF IInv, TypeOK, ProducerPc
<1>8. MutexHeld'
  BY <1>4 DEF PushAppend, IInv, TypeOK, MutexHeld
<1>9. IdleConsumer'
  BY <1>4, <1>5 DEF IInv, IdleConsumer, MayTake
<1>10. OnlyPushed' /\ Untaken(a)
  <2>1. \A b \in Action : ran[b] > 0 => PushedBefore(b)' /\ b # a
    BY <1>6 DEF IInv, OnlyPushed
  <2>9. ran[a] = 0
    BY <2>1 DEF IInv, TypeOK
  <2>2. \A c \in Consumer : \A i \in 1..Len(batch[c]) :
          batch[c][i] \in Action
    BY DEF IInv, TypeOK
  <2>3. \A c \in Consumer : \A i \in 1..Len(batch[c]) :
          PushedBefore(batch[c][i])
    BY DEF IInv, OnlyPushed
  <2>4. \A c \in Consumer : \A i \in 1..Len(batch[c]) :
          a # batch[c][i] /\ batch[c][i][2] <= pushed'[batch[c][i][1]]
    BY <1>6, <2>2, <2>3 DEF PushedBefore
  <2>5. \A i \in 1..Len(m_actions) :
          m_actions[i] \in Action /\ PushedBefore(m_actions[i])
    BY DEF IInv, TypeOK, OnlyPushed
  <2>6. \A i \in 1..Len(m_actions) :
          m_actions[i][2] <= pushed'[m_actions[i][1]]
    BY <1>6, <2>5 DEF PushedBefore
  <2>7. a[2] <= pushed'[a[1]]
    BY <1>1, <1>2, <1>3
  <2>8. \A i \in 1..Len(m_actions') :
          m_actions'[i][2] <= pushed'[m_actions'[i][1]]
    <3> SUFFICES ASSUME NEW i \in 1..Len(m_actions')
                 PROVE  m_actions'[i][2] <= pushed'[m_actions'[i][1]]
      OBVIOUS
    <3>1. CASE i = Len(m_actions) + 1
      BY <3>1, <1>5, <2>7
    <3>2. CASE i # Len(m_actions) + 1
      BY <3>2, <1>5, <2>6
    <3> QED
      BY <3>1, <3>2
  <2> QED
    BY <1>4, <2>1, <2>4, <2>8, <2>9 DEF OnlyPushed, Untaken, PushedBefore
<1>14. OnePlace' /\ NotYetRun'
  <2>1. \A i \in 1..Len(m_actions) : m_actions[i] # a
    BY <1>6 DEF IInv, TypeOK, OnlyPushed
  <2>2. \A i \in 1..Len(m_actions') :
          i \in 1..Len(m_actions) \/ i = Len(m_actions) + 1
    BY <1>5
  <2>3. Once(m_actions')
    BY <1>5, <2>1, <2>2 DEF IInv, OnePlace, Once
  <2>4. ASSUME NEW c \in Consumer PROVE Apart(m_actions', batch[c])
    BY <1>5, <1>10, <2>2 DEF IInv, OnePlace, Apart, Untaken
  <2>5. \A i \in 1..Len(m_actions') : ran[m_actions'[i]] = 0
    BY <1>5, <1>10, <2>2 DEF IInv, NotYetRun, Untaken
  <2> QED
    BY <1>4, <2>3, <2>4, <2>5 DEF IInv, OnePlace, NotYetRun
<1>11. PushNotTaken'
  <2> SUFFICES ASSUME NEW q \in Producer
               PROVE  (/\ ppc[q] = "append" => pushed[q] < Pushes
                       /\ ppc[q] \in {"notify", "unlock"} =>
                            pushed[q] \in 1..Pushes
                              /\ Untaken(<<q, pushed[q]>>))'
    BY DEF PushNotTaken
  <2>1. CASE q = p
    BY <2>1, <1>2, <1>3, <1>4, <1>10 DEF IInv, TypeOK, Untaken
  <2>2. CASE q # p
    <3>1. pushed'[q] = pushed[q] /\ ppc'[q] = ppc[q]
      BY <2>2, <1>3, <1>4 DEF IInv, TypeOK
    <3> QED
      BY <3>1, <1>4 DEF PushNotTaken, Untaken, IInv
  <2> QED
    BY <2>1, <2>2
<1>12. DestroyedLate'
  BY <1>4 DEF IInv, DestroyedLate
<1>13. NoLostWakeup'
  BY <1>4 DEF NoLostWakeup, IInv, TypeOK
<1> QED
  BY <1>7, <1>8, <1>9, <1>10, <1>11, <1>12, <1>13, <1>14 DEF IInv

LEMMA PushNotifyInv ==
  ASSUME IInv, NEW p \in Producer, PushNotify(p)
  PROVE  IInv'
<1> USE QueueAssumption
<1>1. /\ ppc[p] = "notify" /\ ppc' = [ppc EXCEPT ![p] = "unlock"]
      /\ UNCHANGED <<alive, m_actions, m_mutex, pushed, method, timedOut, batch,
                     ran>>
      /\ \/ cpc' = cpc /\ Blocked = {}
         \/ \E c \in Blocked : cpc' = [cpc EXCEPT ![c] = "lock"]
  BY DEF PushNotify
<1>2. /\ cpc' \in [Consumer -> ConsumerPc]
      /\ \A c \in Consumer :
           cpc'[c] = cpc[c] \/ (cpc[c] = "blocked" /\ cpc'[c] = "lock")
      /\ \E c \in Consumer : cpc'[c] # "blocked"
  BY <1>1 DEF IInv, TypeOK, ConsumerPc, Blocked
<1>3. TypeOK'
  BY <1>1, <1>2 DEF IInv, TypeOK, ProducerPc
<1>4. MutexHeld'
  BY <1>1, <1>2 DEF IInv, TypeOK, MutexHeld
<1>5. IdleConsumer'
  BY <1>1, <1>2 DEF IInv, IdleConsumer, MayTake
<1>6. OnlyPushed' /\ OnePlace' /\ NotYetRun' /\ DestroyedLate'
  BY <1>1, <1>2, PlacesStay DEF IInv, DestroyedLate
<1>7. PushNotTaken'
  BY <1>1 DEF IInv, TypeOK, PushNotTaken, Untaken
<1>8. NoLostWakeup'
  BY <1>2 DEF NoLostWakeup, Blocked
<1> QED
  BY <1>3, <1>4, <1>5, <1>6, <1>7, <1>8 DEF IInv

LEMMA PushUnlockInv ==
  ASSUME IInv, NEW p \in Producer, PushUnlock(p)
  PROVE  IInv'
<1> USE QueueAssumption DEF PushUnlock
<1>1. TypeOK'
  BY DEF IInv, TypeOK, ProducerPc
<1>2. MutexHeld'
  BY DEF IInv, TypeOK, MutexHeld
<1>3. /\ IdleConsumer' /\ OnlyPushed' /\ OnePlace' /\ NotYetRun'
      /\ DestroyedLate'
  BY PlacesStay DEF IInv, IdleConsumer, MayTake, DestroyedLate
<1>4. PushNotTaken'
  BY DEF IInv, TypeOK, PushNotTaken, Untaken
<1>5. NoLostWakeup'
  BY DEF IInv, TypeOK, NoLostWakeup, Blocked
<1> QED
  BY <1>1, <1>2, <1>3, <1>4, <1>5 DEF IInv

(* execute, executeOrWaitAndExecute, executeOrWaitAndExecuteOrWaitUntil *)

LEMMA CallInv ==
  ASSUME IInv, NEW c \in Consumer, NEW m \in Method, Call(c, m)
  PROVE  IInv'
<1> USE QueueAssumption DEF Call
<1>1. TypeOK'
  BY DEF IInv, TypeOK, ConsumerPc
<1>2. MutexHeld'
  BY DEF IInv, TypeOK, MutexHeld
<1>3. IdleConsumer'
  BY DEF IInv, TypeOK, IdleConsumer, MayTake, Method
<1>4. OnlyPushed' /\ OnePlace' /\ NotYetRun' /\ PushNotTaken'
  BY PlacesStay DEF IInv, PushNotTaken, Untaken
<1>5. DestroyedLate'
  BY DEF IInv, TypeOK, DestroyedLate
<1>6. NoLostWakeup'
  BY DEF IInv, TypeOK, NoLostWakeup, Blocked
<1> QED
  BY <1>1, <1>2, <1>3, <1>4, <1>5, <1>6 DEF IInv

LEMMA LockInv ==
  ASSUME IInv, NEW c \in Consumer, Lock(c)
  PROVE  IInv'
<1> USE QueueAssumption DEF Lock
<1>1. TypeOK'
  BY DEF IInv, TypeOK, ConsumerPc
<1>2. MutexHeld'
  BY DEF IInv, TypeOK, MutexHeld
<1>3. IdleConsumer'
  BY DEF IInv, TypeOK, IdleConsumer, MayTake, Method
<1>4. OnlyPushed' /\ OnePlace' /\ NotYetRun' /\ PushNotTaken'
  BY PlacesStay DEF IInv, PushNotTaken, Untaken
<1>5. DestroyedLate'
  BY DEF IInv, TypeOK, DestroyedLate
<1>6. NoLostWakeup'
  BY DEF IInv, TypeOK, NoLostWakeup, Blocked
<1> QED
  BY <1>1, <1>2, <1>3, <1>4, <1>5, <1>6 DEF IInv

LEMMA TestTrueInv ==
  ASSUME IInv, NEW c \in Consumer, TestTrue(c)
  PROVE  IInv'
<1> USE QueueAssumption DEF TestTrue
<1>1. TypeOK'
  BY DEF IInv, TypeOK, ConsumerPc
<1>2. MutexHeld'
  BY DEF IInv, TypeOK, MutexHeld
<1>3. IdleConsumer'
  BY DEF IInv, TypeOK, IdleConsumer, MayTake, Method
<1>4. OnlyPushed' /\ OnePlace' /\ NotYetRun' /\ PushNotTaken'
  BY PlacesStay DEF IInv, PushNotTaken, Untaken
<1>5. DestroyedLate'
  BY DEF IInv, TypeOK, DestroyedLate
<1>6. NoLostWakeup'
  BY DEF IInv, TypeOK, NoLostWakeup, Blocked
<1> QED
  BY <1>1, <1>2, <1>3, <1>4, <1>5, <1>6 DEF IInv

(* A thread blocks on an empty queue only. *)
LEMMA BlockInv ==
  ASSUME IInv, NEW c \in Consumer, Block(c)
  PROVE  IInv'
<1> USE QueueAssumption DEF Block
<1>1. TypeOK'
  BY DEF IInv, TypeOK, ConsumerPc
<1>2. MutexHeld'
  BY DEF IInv, TypeOK, MutexHeld
<1>3. IdleConsumer'
  BY DEF IInv, TypeOK, IdleConsumer, MayTake
<1>4. OnlyPushed' /\ OnePlace' /\ NotYetRun' /\ PushNotTaken'
  BY PlacesStay DEF IInv, PushNotTaken, Untaken
<1>5. DestroyedLate'
  BY DEF IInv, TypeOK, DestroyedLate
<1>6. NoLostWakeup'
  BY DEF NoLostWakeup, MayTake
<1> QED
  BY <1>1, <1>2, <1>3, <1>4, <1>5, <1>6 DEF IInv

LEMMA WakeSpuriouslyInv ==
  ASSUME IInv, NEW c \in Consumer, WakeSpuriously(c)
  PROVE  IInv'
<1> USE QueueAssumption DEF WakeSpuriously
<1>1. TypeOK'
  BY DEF IInv, TypeOK, ConsumerPc
<1>2. MutexHeld'
  BY DEF IInv, TypeOK, MutexHeld
<1>3. IdleConsumer'
  BY DEF IInv, TypeOK, IdleConsumer, MayTake, Method
<1>4. OnlyPushed' /\ OnePlace' /\ NotYetRun' /\ PushNotTaken'
  BY PlacesStay DEF IInv, PushNotTaken, Untaken
<1>5. DestroyedLate'
  BY DEF IInv, TypeOK, DestroyedLate
<1>6. NoLostWakeup'
  BY DEF IInv, TypeOK, NoLostWakeup, Blocked
<1> QED
  BY <1>1, <1>2, <1>3, <1>4, <1>5, <1>6 DEF IInv

LEMMA WakeByTimeInv ==
  ASSUME IInv, NEW c \in Consumer, WakeByTime(c)
  PROVE  IInv'
<1> USE QueueAssumption DEF WakeByTime
<1>1. TypeOK'
  BY DEF IInv, TypeOK, ConsumerPc
<1>2. MutexHeld'
  BY DEF IInv, TypeOK, MutexHeld
<1>3. IdleConsumer'
  BY DEF IInv, TypeOK, IdleConsumer, MayTake, Method
<1>4. OnlyPushed' /\ OnePlace' /\ NotYetRun' /\ PushNotTaken'
  BY PlacesStay DEF IInv, PushNotTaken, Untaken
<1>5. DestroyedLate'
  BY DEF IInv, TypeOK, DestroyedLate
<1>6. NoLostWakeup'
  BY DEF IInv, TypeOK, NoLostWakeup, Blocked
<1> QED
  BY <1>1, <1>2, <1>3, <1>4, <1>5, <1>6 DEF IInv

(* The mutex is held, so no push is between its append and its unlock. *)
LEMMA TakeInv ==
  ASSUME IInv, NEW c \in Consumer, Take(c)
  PROVE  IInv'
<1> USE QueueAssumption DEF Take
<1>1. TypeOK'
  BY DEF IInv, TypeOK, ConsumerPc
<1>2. MutexHeld' /\ m_mutex = c /\ \A p \in Producer : ppc[p] = "idle"
  BY DEF IInv, TypeOK, MutexHeld
<1>3. IdleConsumer'
  BY DEF IInv, TypeOK, MutexHeld, IdleConsumer, MayTake
<1>4. OnlyPushed'
  <2>1. \A d \in Consumer : batch'[d] = IF d = c THEN m_actions ELSE batch[d]
    BY DEF IInv, TypeOK
  <2> QED
    BY <2>1 DEF IInv, OnlyPushed, PushedBefore
<1>8. OnePlace' /\ NotYetRun'
  <2>1. /\ \A d \in Consumer : batch'[d] = IF d = c THEN m_actions ELSE batch[d]
        /\ m_actions' = <<>> /\ ran' = ran
    BY DEF IInv, TypeOK
  <2>2. \A d \in Consumer : Once(batch'[d]) /\ Apart(m_actions', batch'[d])
    BY <2>1 DEF IInv, OnePlace, Apart
  <2>3. ASSUME NEW d \in Consumer, NEW e \in Consumer, d # e
        PROVE  Apart(batch'[d], batch'[e])
    BY <2>1, <2>3 DEF IInv, OnePlace, Apart
  <2>4. Once(m_actions')
    BY <2>1 DEF Once
  <2> QED
    BY <2>1, <2>2, <2>3, <2>4 DEF IInv, OnePlace, NotYetRun
<1>5. PushNotTaken'
  BY <1>2 DEF PushNotTaken
<1>6. DestroyedLate'
  BY DEF IInv, TypeOK, DestroyedLate
<1>7. NoLostWakeup'
  BY DEF NoLostWakeup
<1> QED
  BY <1>1, <1>2, <1>3, <1>4, <1>5, <1>6, <1>7, <1>8 DEF IInv

LEMMA RunActionInv ==
  ASSUME IInv, NEW c \in Consumer, RunAction(c)
  PROVE  IInv'
<1> USE QueueAssumption
<1>1. PICK a \in Action : /\ a = Head(batch[c]) /\ a = batch[c][1]
                          /\ 1 \in 1..Len(batch[c])
  BY DEF RunAction, IInv, TypeOK
<1>2. /\ cpc[c] = "run" /\ ran' = [ran EXCEPT ![a] = 1] /\ ran[a] = 0
      /\ \A d \in Consumer :
           batch'[d] = IF d = c THEN Tail(batch[c]) ELSE batch[d]
      /\ UNCHANGED <<alive, m_actions, m_mutex, ppc, pushed, cpc, method,
                     timedOut>>
  <2>1. ran[a] = 0
    BY <1>1 DEF IInv, NotYetRun
  <2>2. ran' = [ran EXCEPT ![a] = 1]
    <3>1. ran' = [ran EXCEPT ![a] = ran[a] + 1]
      BY <1>1 DEF RunAction
    <3> QED
      BY <2>1, <3>1
  <2> QED
    BY <2>1, <2>2 DEF RunAction, IInv, TypeOK
<1>3. /\ Tail(batch[c]) \in Seq(Action)
      /\ \A i \in 1..Len(Tail(batch[c])) :
           /\ i + 1 \in 1..Len(batch[c])
           /\ Tail(batch[c])[i] = batch[c][i + 1]
  BY DEF RunAction, IInv, TypeOK
<1>4. TypeOK'
  <2>1. ran' \in [Action -> 0..1]
    BY <1>2 DEF IInv, TypeOK
  <2>2. batch' \in [Consumer -> Seq(Action)]
    BY <1>1, <1>3 DEF RunAction, IInv, TypeOK
  <2> QED
    BY <1>2, <2>1, <2>2 DEF IInv, TypeOK
<1>5. MutexHeld' /\ IdleConsumer'
  BY <1>2 DEF IInv, MutexHeld, IdleConsumer, MayTake
<1>6. OnlyPushed'
  <2>1. \A d \in Consumer : \A i \in 1..Len(batch'[d]) :
          batch'[d][i][2] <= pushed[batch'[d][i][1]]
    <3> SUFFICES ASSUME NEW d \in Consumer, NEW i \in 1..Len(batch'[d])
                 PROVE  PushedBefore(batch'[d][i])
      BY DEF PushedBefore
    <3>1. CASE d = c
      <4>1. i + 1 \in 1..Len(batch[c]) /\ batch'[d][i] = batch[c][i + 1]
        BY <3>1, <1>2, <1>3
      <4>2. PushedBefore(batch[c][i + 1])
        BY <4>1 DEF IInv, OnlyPushed
      <4> QED
        BY <4>1, <4>2
    <3>2. CASE d # c
      BY <3>2, <1>2 DEF IInv, OnlyPushed
    <3> QED
      BY <3>1, <3>2
  <2>2. \A b \in Action : ran'[b] > 0 => b[2] <= pushed[b[1]]
    <3>1. a[2] <= pushed[a[1]]
      BY <1>1 DEF IInv, OnlyPushed, PushedBefore
    <3>2. \A b \in Action : ran[b] > 0 => b[2] <= pushed[b[1]]
      BY DEF IInv, OnlyPushed, PushedBefore
    <3>3. \A b \in Action : b # a => ran'[b] = ran[b]
      BY <1>2 DEF IInv, TypeOK
    <3> QED
      BY <3>1, <3>2, <3>3
  <2> QED
    BY <1>2, <2>1, <2>2 DEF IInv, OnlyPushed, PushedBefore
<1>7. PushNotTaken'
  <2>1. ASSUME NEW b \in Action, Untaken(b)
        PROVE  Untaken(b)'
    <3>1. ran'[b] = 0
      BY <1>1, <1>2, <2>1 DEF Untaken, IInv, TypeOK
    <3> SUFFICES ASSUME NEW d \in Consumer, NEW i \in 1..Len(batch'[d])
                 PROVE  batch'[d][i] # b
      BY <3>1 DEF Untaken
    <3>2. CASE d = c
      BY <3>2, <1>2, <1>3, <2>1 DEF Untaken
    <3>3. CASE d # c
      BY <3>3, <1>2, <2>1 DEF Untaken
    <3> QED
      BY <3>2, <3>3
  <2> QED
    BY <1>2, <2>1 DEF IInv, PushNotTaken, Action
<1>8. DestroyedLate' /\ NoLostWakeup'
  BY <1>2 DEF IInv, TypeOK, DestroyedLate, NoLostWakeup, Blocked
<1>9. OnePlace'
  <2>1. \A d \in Consumer : \A i \in 1..Len(batch'[d]) :
          \E j \in 1..Len(batch[d]) : /\ batch'[d][i] = batch[d][j]
                                    /\ j = IF d = c THEN i + 1 ELSE i
    <3> SUFFICES ASSUME NEW d \in Consumer, NEW i \in 1..Len(batch'[d])
                 PROVE  \E j \in 1..Len(batch[d]) :
                          /\ batch'[d][i] = batch[d][j]
                          /\ j = IF d = c THEN i + 1 ELSE i
      OBVIOUS
    <3>1. CASE d = c
      BY <3>1, <1>2, <1>3
    <3>2. CASE d # c
      BY <3>2, <1>2
    <3> QED
      BY <3>1, <3>2
  <2>2. ASSUME NEW d \in Consumer
        PROVE  Once(batch'[d]) /\ Apart(m_actions, batch'[d])
    <3>1. Once(batch[d]) /\ Apart(m_actions, batch[d])
      BY DEF IInv, OnePlace
    <3>2. Apart(m_actions, batch'[d])
      BY <2>1, <3>1 DEF Apart
    <3>3. ASSUME NEW i \in 1..Len(batch'[d]), NEW j \in 1..Len(batch'[d]),
                 batch'[d][i] = batch'[d][j]
          PROVE  i = j
      <4>1. PICK k \in 1..Len(batch[d]) : /\ batch'[d][i] = batch[d][k]
                                         /\ k = IF d = c THEN i + 1 ELSE i
        BY <2>1
      <4>2. PICK l \in 1..Len(batch[d]) : /\ batch'[d][j] = batch[d][l]
                                         /\ l = IF d = c THEN j + 1 ELSE j
        BY <2>1
      <4>3. k = l
        BY <3>1, <3>3, <4>1, <4>2 DEF Once
      <4> QED
        BY <4>1, <4>2, <4>3
    <3> QED
      BY <3>2, <3>3 DEF Once
  <2>3. ASSUME NEW d \in Consumer, NEW e \in Consumer, d # e
        PROVE  Apart(batch'[d], batch'[e])
    <3>1. Apart(batch[d], batch[e])
      BY <2>3 DEF IInv, OnePlace
    <3> QED
      BY <2>1, <3>1 DEF Apart
  <2> QED
    BY <1>2, <2>2, <2>3 DEF IInv, OnePlace
<1>10. NotYetRun'
  <2>1. ASSUME NEW i \in 1..Len(m_actions) PROVE ran'[m_actions[i]] = 0
    <3>1. m_actions[i] # a /\ m_actions[i] \in Action /\ ran[m_actions[i]] = 0
      BY <1>1 DEF IInv, TypeOK, OnePlace, Apart, NotYetRun
    <3> QED
      BY <1>2, <3>1 DEF IInv, TypeOK
  <2>2. ASSUME NEW d \in Consumer, NEW i \in 1..Len(batch'[d])
        PROVE  ran'[batch'[d][i]] = 0
    <3>1. batch'[d][i] # a /\ batch'[d][i] \in Action /\ ran[batch'[d][i]] = 0
      <4>1. CASE d = c
        <5>1. /\ batch'[d][i] = batch[c][i + 1] /\ i + 1 \in 1..Len(batch[c])
              /\ i + 1 # 1
          <6>1. i \in 1..Len(Tail(batch[c])) /\ batch'[d][i] = Tail(batch[c])[i]
            BY <4>1, <1>2
          <6>2. i \in Nat /\ i > 0
            BY <1>3, <6>1
          <6> QED
            BY <1>3, <6>1, <6>2
        <5>2. Once(batch[c])
          BY DEF IInv, OnePlace
        <5>3. batch[c][i + 1] # a
          BY <1>1, <5>1, <5>2 DEF Once
        <5> QED
          BY <5>1, <5>3 DEF IInv, TypeOK, NotYetRun
      <4>2. CASE d # c
        <5>1. batch'[d] = batch[d] /\ Apart(batch[c], batch[d])
          BY <4>2, <1>2 DEF IInv, OnePlace
        <5> QED
          BY <1>1, <5>1 DEF IInv, TypeOK, NotYetRun, Apart
      <4> QED
        BY <4>1, <4>2
    <3> QED
      BY <1>2, <3>1 DEF IInv, TypeOK
  <2> QED
    BY <1>2, <2>1, <2>2 DEF NotYetRun
<1> QED
  BY <1>4, <1>5, <1>6, <1>7, <1>8, <1>9, <1>10 DEF IInv

LEMMA ReturnInv ==
  ASSUME IInv, NEW c \in Consumer, Return(c)
  PROVE  IInv'
<1> USE QueueAssumption DEF Return
<1>1. TypeOK'
  BY DEF IInv, TypeOK, ConsumerPc
<1>2. MutexHeld'
  BY DEF IInv, TypeOK, MutexHeld
<1>3. IdleConsumer'
  BY DEF IInv, TypeOK, IdleConsumer, MayTake, Method
<1>4. OnlyPushed' /\ OnePlace' /\ NotYetRun' /\ PushNotTaken'
  BY PlacesStay DEF IInv, PushNotTaken, Untaken
<1>5. DestroyedLate'
  BY DEF IInv, TypeOK, DestroyedLate
<1>6. NoLostWakeup'
  BY DEF IInv, TypeOK, NoLostWakeup, Blocked
<1> QED
  BY <1>1, <1>2, <1>3, <1>4, <1>5, <1>6 DEF IInv

LEMMA NextInv ==
  ASSUME IInv, [Next]_vars
  PROVE  IInv'
<1>1. CASE Next
  <2>1. CASE \E p \in Producer :
               PushLock(p) \/ PushAppend(p) \/ PushNotify(p) \/ PushUnlock(p)
    BY <2>1, PushLockInv, PushAppendInv, PushNotifyInv, PushUnlockInv
  <2>2. CASE \E c \in Consumer, m \in Method : Call(c, m)
    BY <2>2, CallInv
  <2>3. CASE \E c \in Consumer :
               Lock(c) \/ TestTrue(c) \/ Block(c) \/ WakeSpuriously(c)
                 \/ WakeByTime(c)
    BY <2>3, LockInv, TestTrueInv, BlockInv, WakeSpuriouslyInv, WakeByTimeInv
  <2>4. CASE \E c \in Consumer : Take(c) \/ RunAction(c) \/ Return(c)
    BY <2>4, TakeInv, RunActionInv, ReturnInv
  <2>5. CASE Destroy
    <3> USE <2>5 DEF Destroy
    <3>1. TypeOK' /\ MutexHeld' /\ IdleConsumer' /\ DestroyedLate'
      BY DEF IInv, TypeOK, MutexHeld, IdleConsumer, MayTake, DestroyedLate
    <3>2. /\ OnlyPushed' /\ OnePlace' /\ NotYetRun' /\ PushNotTaken'
          /\ NoLostWakeup'
      BY PlacesStay DEF IInv, PushNotTaken, Untaken, NoLostWakeup, Blocked
    <3> QED
      BY <3>1, <3>2 DEF IInv
  <2>6. CASE Terminated
    BY <2>6, PlacesStay
       DEF Terminated, vars, IInv, TypeOK, MutexHeld, IdleConsumer, MayTake,
           PushNotTaken, Untaken, DestroyedLate, NoLostWakeup, Blocked
  <2> QED
    BY <1>1, <2>1, <2>2, <2>3, <2>4, <2>5, <2>6 DEF Next
<1>2. CASE UNCHANGED vars
  BY <1>2, PlacesStay
     DEF vars, IInv, TypeOK, MutexHeld, IdleConsumer, MayTake, PushNotTaken,
         Untaken, DestroyedLate, NoLostWakeup, Blocked
<1> QED
  BY <1>1, <1>2

(* Every reachable state of the queue satisfies the inductive invariant.   *)
THEOREM Invariance == Spec => []IInv
<1>1. Init => IInv
  BY InitInv
<1>2. IInv /\ [Next]_vars => IInv'
  BY NextInv
<1> QED
  BY <1>1, <1>2, PTL DEF Spec

-----------------------------------------------------------------------------
(* What it implies *)

(* Every variable of the queue keeps its type, and no action is run twice: *)
(* it is in the queue or in one batch until it is run.                     *)
THEOREM TypeCorrectness == Spec => []TypeOK
<1>1. IInv => TypeOK
  BY DEF IInv
<1> QED
  BY <1>1, Invariance, PTL

(***************************************************************************)
(* Between wait's test of the predicate and its blocking, and between      *)
(* push's append and its notify_one, no wake-up is lost: the queue is      *)
(* never left with an action and all the executing threads asleep.         *)
(***************************************************************************)
THEOREM WakeUpsKept == Spec => []NoLostWakeup
<1>1. IInv => NoLostWakeup
  BY DEF IInv
<1> QED
  BY <1>1, Invariance, PTL

(* At most one thread is between taking the mutex and releasing it. *)
MutualExclusion ==
  \A t, u \in InPush \cup InLock : t = u

(***************************************************************************)
(* Whatever waits, time-outs and spurious wake-ups there are, two threads  *)
(* are never at once inside the critical sections of ActionQueue, so the   *)
(* swap of the executing methods never meets the append of a push.         *)
(***************************************************************************)
THEOREM OneHoldsMutex == Spec => []MutualExclusion
<1>1. IInv => MutualExclusion
  BY QueueAssumption DEF IInv, MutexHeld, MutualExclusion, InPush, InLock
<1> QED
  BY <1>1, Invariance, PTL

(***************************************************************************)
(* The owner may destroy the queue as soon as it has counted every action  *)
(* run: no push is still inside, its unlock included, and the mutex is     *)
(* free.  A push that appended still holds the mutex, so its action cannot *)
(* have been taken, let alone run.                                         *)
(***************************************************************************)
THEOREM DestructionSafe == Spec => []DestroySafe
<1>1. IInv => DestroySafe
  <2> SUFFICES ASSUME IInv, ~alive
               PROVE  InPush = {} /\ m_mutex = Nobody
    BY DEF DestroySafe
  <2>1. (\A a \in Action : ran[a] > 0) /\ \A c \in Consumer : cpc[c] = "idle"
    BY DEF IInv, DestroyedLate
  <2>2. \A p \in Producer : ppc[p] = "idle"
    <3> SUFFICES ASSUME NEW p \in Producer, ppc[p] # "idle"
                 PROVE  FALSE
      OBVIOUS
    <3>1. ppc[p] \in {"append", "notify", "unlock"} /\ pushed[p] \in 0..Pushes
      BY DEF IInv, TypeOK, ProducerPc
    <3>2. CASE ppc[p] = "append"
      <4>1. pushed[p] < Pushes /\ Pushes \in Nat
        BY <3>2, QueueAssumption DEF IInv, PushNotTaken
      <4>2. <<p, Pushes>> \in Action /\ ran[<<p, Pushes>>] > 0
        BY <2>1, <3>1, <4>1 DEF Action
      <4> QED
        BY <3>1, <4>1, <4>2 DEF IInv, OnlyPushed, PushedBefore
    <3>3. CASE ppc[p] \in {"notify", "unlock"}
      <4>1. <<p, pushed[p]>> \in Action /\ ran[<<p, pushed[p]>>] = 0
        BY <3>3 DEF IInv, PushNotTaken, Untaken, Action
      <4> QED
        BY <2>1, <4>1
    <3> QED
      BY <3>1, <3>2, <3>3
  <2>3. m_mutex = Nobody
    BY <2>1, <2>2 DEF IInv, TypeOK, MutexHeld
  <2> QED
    BY <2>2, <2>3 DEF InPush
<1> QED
  BY <1>1, Invariance, PTL

-----------------------------------------------------------------------------
(* Refinement *)

(* The consumers that have taken their batch, as AtomicActionQueue has it. *)
takenBar == [c \in Consumer |-> cpc[c] = "run"]

LEMMA AtomicInit == Init => Atomic!Init
  BY DEF Init, Atomic!Init

LEMMA AtomicStep ==
  ASSUME IInv, IInv', [Next]_vars
  PROVE  [Atomic!Next]_(Atomic!vars)
<1> USE QueueAssumption
<1>1. ASSUME NEW p \in Producer, PushAppend(p)
      PROVE  Atomic!Push(p)
  BY <1>1 DEF PushAppend, Atomic!Push, IInv, PushNotTaken
<1>2. ASSUME NEW c \in Consumer, NEW m \in Method, Call(c, m)
      PROVE  Atomic!Call(c, m)
  <2>1. /\ method[c] = "none" /\ timedOut[c] = FALSE /\ cpc[c] = "idle"
        /\ timedOut \in [Consumer -> BOOLEAN]
        /\ cpc' = [cpc EXCEPT ![c] = "lock"] /\ cpc \in [Consumer -> ConsumerPc]
    BY <1>2 DEF Call, IInv, TypeOK, IdleConsumer
  <2>2. timedOut' = [timedOut EXCEPT ![c] = FALSE]
    BY <1>2, <2>1 DEF Call
  <2>3. takenBar' = [takenBar EXCEPT ![c] = FALSE]
    BY <2>1 DEF takenBar
  <2> QED
    BY <1>2, <2>1, <2>2, <2>3 DEF Call, Atomic!Call, takenBar
<1>3. ASSUME NEW c \in Consumer, WakeByTime(c)
      PROVE  Atomic!Expire(c)
  BY <1>3 DEF WakeByTime, Atomic!Expire, IInv, TypeOK
<1>4. ASSUME NEW c \in Consumer, Take(c)
      PROVE  Atomic!Take(c)
  BY <1>4 DEF Take, Atomic!Take, IInv, TypeOK, IdleConsumer, MayTake, Method, Atomic!Method
<1>5. ASSUME NEW c \in Consumer, RunAction(c)
      PROVE  Atomic!Run(c)
  BY <1>5 DEF RunAction, Atomic!Run, IInv, TypeOK
<1>6. ASSUME NEW c \in Consumer, Return(c)
      PROVE  Atomic!Return(c)
  BY <1>6 DEF Return, Atomic!Return, IInv, TypeOK
<1>7. ASSUME NEW p \in Producer, PushLock(p) \/ PushNotify(p) \/ PushUnlock(p)
      PROVE  UNCHANGED Atomic!vars
  BY <1>7 DEF PushLock, PushNotify, PushUnlock, Blocked, Atomic!vars, IInv, TypeOK
<1>8. ASSUME NEW c \in Consumer,
             Lock(c) \/ TestTrue(c) \/ Block(c) \/ WakeSpuriously(c)
      PROVE  UNCHANGED Atomic!vars
  BY <1>8 DEF Lock, TestTrue, Block, WakeSpuriously, Atomic!vars, IInv, TypeOK
<1>9. ASSUME Destroy \/ Terminated \/ UNCHANGED vars
      PROVE  UNCHANGED Atomic!vars
  BY <1>9 DEF Destroy, Terminated, vars, Atomic!vars
<1> QED
  BY <1>1, <1>2, <1>3, <1>4, <1>5, <1>6, <1>7, <1>8, <1>9
     DEF Next, Atomic!Next, Method, Atomic!Method

(***************************************************************************)
(* With any number of threads, the queue of a mutex, a condition variable  *)
(* and a swapped vector does what the queue with indivisible push and take *)
(* does, which is what module Crawler assumes of it.                       *)
(***************************************************************************)
THEOREM AtomicRefinement == Spec => ImplementsAtomic
<1>1. Init => Atomic!Init
  BY AtomicInit
<1>2. IInv /\ IInv' /\ [Next]_vars => [Atomic!Next]_(Atomic!vars)
  BY AtomicStep
<1> QED
  BY <1>1, <1>2, Invariance, PTL DEF Spec, ImplementsAtomic, Atomic!Spec
=============================================================================
