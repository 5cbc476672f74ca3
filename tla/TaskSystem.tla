----------------------------- MODULE TaskSystem -----------------------------
(***************************************************************************)
(* Classes TaskSystem and JobQueue: one queue and one worker thread per    *)
(* index.  async_ tries every queue with try_lock, starting at a rotating  *)
(* index, and then waits for the lock of the first; a worker tries to pop  *)
(* from all the queues, its own first, and then waits at its own.          *)
(*                                                                         *)
(* A critical section of JobQueue is one action; what follows the unlock,  *)
(* the notification, is another.  try_lock fails when somebody holds the   *)
(* mutex, and may fail when nobody does, so a try may always fail.  Only   *)
(* worker q ever waits on the condition variable of queue q.               *)
(*                                                                         *)
(* The constructor starts the threads one by one, and the system may       *)
(* refuse it one.  The destructor, or the exception of the constructor,    *)
(* releases the members in reverse order: done() on every queue that has a *)
(* releaser, then the joining of every thread.  As for any object, no      *)
(* async_ is under way when the destructor starts.                         *)
(***************************************************************************)
EXTENDS Sequences, Integers, FiniteSets, Functions

CONSTANTS
  Poster,     \* the threads that call async_
  Posts,      \* how many jobs each of them posts at most
  NrThreads,  \* m_hwConcurency
  Passes,     \* how often a worker tries each queue: 32 in the code
  IndexLimit  \* the number of values of an unsigned: 2^32

ASSUME TaskAssumption ==
  /\ Posts \in Nat
  /\ NrThreads \in Nat \ {0}
  /\ Passes \in Nat \ {0}
  /\ IndexLimit \in Nat \ {0}

Thread == 0 .. NrThreads - 1

(* The jobs are told apart by who posted them, and as which one. *)
Job == Poster \X (1..Posts)

VARIABLES
  m_jobIndex,
  m_jobQueue,  \* the jobs waiting in each queue
  m_done,      \* the m_done of each queue
  poster,      \* each poster in async_: where it is, how many calls it has
               \* begun, its currentJobIndex and threadIndexOffset
  worker,      \* each worker: where it is, its threadIndexOffset, its local
               \* job (no element or one)
  opc,         \* where the owner is
  closing,     \* the queue whose done() the owner is in
  ran          \* history: how often each job has been run

vars == <<m_jobIndex, m_jobQueue, m_done, poster, worker, opc, closing, ran>>

Init ==
  /\ m_jobIndex = 0
  /\ m_jobQueue = [q \in Thread |-> <<>>]
  /\ m_done = [q \in Thread |-> FALSE]
  /\ poster = [p \in Poster |->
                 [at |-> "idle", posted |-> 0, index |-> 0, offset |-> 0]]
  /\ worker = [w \in Thread |-> [at |-> "none", offset |-> 0, job |-> {}]]
  /\ opc = "construct" /\ closing = 0
  /\ ran = [j \in Job |-> 0]

-----------------------------------------------------------------------------
(* async_ *)

NewJob(p) == <<p, poster[p].posted>>

(* The queue tried next; the sum wraps like the unsigned it is. *)
TryQueue(p) ==
  ((poster[p].index + poster[p].offset) % IndexLimit) % NrThreads

Async(p) ==
  /\ opc = "use"
  /\ poster[p].at = "idle" /\ poster[p].posted < Posts
  /\ poster' = [poster EXCEPT ![p] =
                  [at |-> "tryPush", posted |-> @.posted + 1,
                   index |-> m_jobIndex, offset |-> 0]]
  /\ m_jobIndex' = (m_jobIndex + 1) % IndexLimit
  /\ UNCHANGED <<m_jobQueue, m_done, worker, opc, closing, ran>>

(* The job goes to the back of a queue, under its lock. *)
EmplaceBack(p, at) ==
  /\ m_jobQueue' = [m_jobQueue EXCEPT ![TryQueue(p)] = Append(@, NewJob(p))]
  /\ poster' = [poster EXCEPT ![p].at = at]
  /\ UNCHANGED <<m_jobIndex, m_done, worker, opc, closing, ran>>

(* tryPush gets the lock: the offset keeps the queue to be notified. *)
TryPush(p) == poster[p].at = "tryPush" /\ EmplaceBack(p, "notify")

(* It does not: the next queue, or after the last one the first. *)
TryPushFailsOf(p, tries) ==
  /\ poster[p].at = "tryPush"
  /\ poster' = [poster EXCEPT ![p] =
                  IF poster[p].offset + 1 # tries
                  THEN [poster[p] EXCEPT !.offset = @ + 1]
                  ELSE [poster[p] EXCEPT !.offset = 0, !.at = "push"]]
  /\ UNCHANGED <<m_jobIndex, m_jobQueue, m_done, worker, opc, closing, ran>>

(* Mutant: one try too many. *)
TryPushOnceMore(p) == TryPushFailsOf(p, NrThreads + 1)
TryPushFails(p) == TryPushFailsOf(p, NrThreads)

(* Mutant: push without its notification. *)
PushQuietly(p) == poster[p].at = "push" /\ EmplaceBack(p, "idle")

(* Every queue was locked: push to the first one, waiting for its lock. *)
Push(p) == poster[p].at = "push" /\ EmplaceBack(p, "notify")

WokenUp(q) ==
  [worker EXCEPT ![q].at = IF @ = "wait" THEN "pop" ELSE @]

(* m_ready.notify_one(), after the unlock; async_ returns. *)
Notify(p) ==
  /\ poster[p].at = "notify"
  /\ worker' = WokenUp(TryQueue(p))
  /\ poster' = [poster EXCEPT ![p].at = "idle"]
  /\ UNCHANGED <<m_jobIndex, m_jobQueue, m_done, opc, closing, ran>>

-----------------------------------------------------------------------------
(* run: the worker's loop *)

(* What a worker does that touches neither queues nor history. *)
Goes(w, to) ==
  /\ worker' = [worker EXCEPT ![w] = to]
  /\ UNCHANGED <<m_jobIndex, m_jobQueue, m_done, poster, opc, closing, ran>>

GoesTo(w, at) == Goes(w, [worker[w] EXCEPT !.at = at])

Taken(w, j) == [worker EXCEPT ![w].at = "run", ![w].job = {j}]

(* Mutants: the back of the queue is taken; the job is left in the queue. *)
TakeBack(w, q) ==
  /\ m_jobQueue[q] # <<>>
  /\ worker' = Taken(w, m_jobQueue[q][Len(m_jobQueue[q])])
  /\ m_jobQueue' = [m_jobQueue EXCEPT ![q] = SubSeq(@, 1, Len(@) - 1)]
  /\ UNCHANGED <<m_jobIndex, m_done, poster, opc, closing, ran>>

TakeCopy(w, q) ==
  /\ m_jobQueue[q] # <<>>
  /\ worker' = Taken(w, Head(m_jobQueue[q]))
  /\ UNCHANGED <<m_jobIndex, m_jobQueue, m_done, poster, opc, closing, ran>>

(* The front of a queue, which is not empty, becomes the worker's job. *)
TakeFrom(w, q) ==
  /\ m_jobQueue[q] # <<>>
  /\ worker' = Taken(w, Head(m_jobQueue[q]))
  /\ m_jobQueue' = [m_jobQueue EXCEPT ![q] = Tail(@)]
  /\ UNCHANGED <<m_jobIndex, m_done, poster, opc, closing, ran>>

TryPop(w) ==
  /\ worker[w].at = "try"
  /\ TakeFrom(w, (w + worker[w].offset) % NrThreads)

TryPopFails(w) ==
  /\ worker[w].at = "try"
  /\ IF worker[w].offset + 1 # NrThreads * Passes
     THEN Goes(w, [worker[w] EXCEPT !.offset = @ + 1])
     ELSE Goes(w, [worker[w] EXCEPT !.offset = 0, !.at = "pop"])

(* pop on the worker's own queue: a job, a wait, or the end. *)
Pop(w) == worker[w].at = "pop" /\ TakeFrom(w, w)

PopWaits(w) ==
  /\ worker[w].at = "pop"
  /\ m_jobQueue[w] = <<>> /\ ~m_done[w]
  /\ GoesTo(w, "wait")

(* Mutant: a closed queue fails at once, with jobs left in it. *)
PopFailsWhenDone(w) ==
  /\ worker[w].at = "pop"
  /\ m_done[w]
  /\ GoesTo(w, "exited")

PopFails(w) ==
  /\ worker[w].at = "pop"
  /\ m_jobQueue[w] = <<>> /\ m_done[w]
  /\ GoesTo(w, "exited")

WakeSpuriously(w) == worker[w].at = "wait" /\ GoesTo(w, "pop")

(* handleExceptions(job): the worker goes on, whatever the job does. *)
RunJob(w) ==
  /\ worker[w].at = "run"
  /\ ran' = [j \in Job |-> IF j \in worker[w].job THEN ran[j] + 1 ELSE ran[j]]
  /\ worker' = [worker EXCEPT ![w] = [at |-> "try", offset |-> 0, job |-> {}]]
  /\ UNCHANGED <<m_jobIndex, m_jobQueue, m_done, poster, opc, closing>>

-----------------------------------------------------------------------------
(* TaskSystem and ~TaskSystem *)

OwnerGoes(at) ==
  opc' = at /\ UNCHANGED <<m_jobIndex, m_jobQueue, m_done, poster, closing, ran>>

NrStarted == Cardinality({w \in Thread : worker[w].at # "none"})

StartThread ==
  /\ opc = "construct"
  /\ worker' = [worker EXCEPT ![NrStarted].at = "try"]
  /\ OwnerGoes(IF NrStarted + 1 = NrThreads THEN "use" ELSE "construct")

(* The constructor of a std::thread throws, with the releaser of its queue *)
(* set: the members built so far are destroyed.                            *)
StartThreadFails ==
  /\ opc = "construct"
  /\ OwnerGoes("release") /\ UNCHANGED worker

StartDestructor ==
  /\ opc = "use"
  /\ \A p \in Poster : poster[p].at = "idle"
  /\ OwnerGoes("release") /\ UNCHANGED worker

Releasers == {q \in Thread : q <= NrStarted}

(* done() on the next queue; a vector's elements die in some order. *)
SetDone(q) ==
  /\ opc = "release"
  /\ q \in Releasers /\ ~m_done[q]
  /\ m_done' = [m_done EXCEPT ![q] = TRUE]
  /\ closing' = q
  /\ opc' = "notifyAll"
  /\ UNCHANGED <<m_jobIndex, m_jobQueue, poster, worker, ran>>

AfterNotifyAll == IF \A q \in Releasers : m_done[q] THEN "join" ELSE "release"

(* Mutant: the queue is marked and nobody is told. *)
NotifyNobody ==
  opc = "notifyAll" /\ OwnerGoes(AfterNotifyAll) /\ UNCHANGED worker

NotifyAll ==
  /\ opc = "notifyAll"
  /\ worker' = WokenUp(closing)
  /\ OwnerGoes(AfterNotifyAll)

(* Mutant: the threads are not waited for. *)
JoinNobody == opc = "join" /\ OwnerGoes("gone") /\ UNCHANGED worker

Join ==
  /\ opc = "join"
  /\ \A w \in Thread : worker[w].at \in {"exited", "none"}
  /\ OwnerGoes("gone") /\ UNCHANGED worker

Terminated == opc = "gone" /\ UNCHANGED vars

AsyncStep(p) ==
  TryPush(p) \/ TryPushFails(p) \/ Push(p) \/ Notify(p)

(* What a worker does but run its job. *)
WorkerSearch(w) ==
  TryPop(w) \/ TryPopFails(w) \/ Pop(w) \/ PopWaits(w) \/ PopFails(w)

OwnerCloses == (\E q \in Thread : SetDone(q)) \/ NotifyAll \/ Join

OwnerStep == StartThread \/ StartThreadFails \/ OwnerCloses

Next ==
  \/ \E p \in Poster : Async(p) \/ AsyncStep(p)
  \/ \E w \in Thread : WorkerSearch(w) \/ RunJob(w) \/ WakeSpuriously(w)
  \/ StartDestructor \/ OwnerStep
  \/ Terminated

Spec == Init /\ [][Next]_vars

(* Threads that are inside the task system are scheduled. *)
Fairness ==
  /\ \A p \in Poster : WF_vars(AsyncStep(p))
  /\ \A w \in Thread : WF_vars(WorkerSearch(w) \/ RunJob(w))
  /\ WF_vars(OwnerStep)

FairSpec == Spec /\ Fairness

-----------------------------------------------------------------------------
PosterRecord ==
  [at : {"idle", "tryPush", "push", "notify"}, posted : 0..Posts,
   index : 0 .. IndexLimit - 1, offset : Thread]

(* A worker's threadIndexOffset. *)
Offset == 0 .. NrThreads * Passes - 1

WorkerRecord ==
  [at : {"none", "try", "pop", "wait", "run", "exited"}, offset : Offset,
   job : SUBSET Job]

(* Every variable has its type. *)
TypeOK ==
  /\ m_jobIndex \in 0 .. IndexLimit - 1
  /\ m_jobQueue \in [Thread -> Seq(Job)]
  /\ m_done \in [Thread -> BOOLEAN]
  /\ poster \in [Poster -> PosterRecord]
  /\ worker \in [Thread -> WorkerRecord]
  /\ opc \in {"construct", "use", "release", "notifyAll", "join", "gone"}
  /\ closing \in Thread
  /\ ran \in [Job -> Nat]

(* The jobs whose push has taken place. *)
Pushed ==
  {j \in Job :
     \/ j[2] < poster[j[1]].posted
     \/ j[2] = poster[j[1]].posted /\ poster[j[1]].at \in {"idle", "notify"}}

(* Where a job is waiting or being run. *)
PlacesIn(q, j) ==
  {<<q, i>> : i \in {k \in DOMAIN m_jobQueue[q] : m_jobQueue[q][k] = j}}

Hands(j) == {w \in Thread : j \in worker[w].job}

Places(j) ==
  (UNION {PlacesIn(q, j) : q \in Thread}) \cup (Hands(j) \X {0})

(***************************************************************************)
(* Stealing loses nothing and doubles nothing: a job that was pushed is in *)
(* one place, one queue or one worker's hands, until it has been run once. *)
(***************************************************************************)
JobsKept ==
  \A j \in Job :
    Cardinality(Places(j)) + ran[j] = IF j \in Pushed THEN 1 ELSE 0

(***************************************************************************)
(* A worker never sleeps beside its work or its end: when it waits at a    *)
(* queue that holds a job or is closed, a notification is on its way.      *)
(***************************************************************************)
NoSleepingWorker ==
  \A w \in Thread : worker[w].at = "wait" =>
    /\ m_jobQueue[w] # <<>> =>
         \E p \in Poster : poster[p].at = "notify" /\ TryQueue(p) = w
    /\ m_done[w] => opc = "notifyAll" /\ closing = w

(* What the user of the class sees of a job, and of the class. *)
StateOf(j) ==
  IF Hands(j) # {} THEN "running"
  ELSE IF ran[j] > 0 THEN "done"
  ELSE IF poster[j[1]].posted >= j[2] THEN "submitted" ELSE "new"

Phase ==
  CASE opc \in {"construct", "use"} -> "open"
    [] opc = "gone" -> "closed"
    [] OTHER -> "closing"

(***************************************************************************)
(* The class implements TaskService: a job given to async_ is started and  *)
(* run to its end once, at most NrThreads at a time, and "the TaskSystem   *)
(* destructor waits for all the tasks to finish", whichever queues and     *)
(* workers it took.                                                        *)
(***************************************************************************)
Service == INSTANCE TaskService WITH
  Task <- Job,
  MaxRunning <- NrThreads,
  state <- [j \in Job |-> StateOf(j)],
  open <- Phase

ImplementsService == Service!Spec

(* Every posted job is run although nobody destroys the system. *)
EveryJobRuns ==
  \A j \in Job : (poster[j[1]].posted >= j[2]) ~> (ran[j] = 1)

(* The destructor returns, and so does the exception of a constructor that *)
(* was refused a thread.                                                   *)
DestructorReturns == (opc = "release") ~> (opc = "gone")
=============================================================================
