-------------------------- MODULE TaskSystemProofs --------------------------
(***************************************************************************)
(* Proofs about TaskSystem, for any number of threads, posting threads and *)
(* jobs: stealing loses no job and doubles none, no worker sleeps beside   *)
(* its work, and the class does what TaskService says.                     *)
(***************************************************************************)
EXTENDS TaskSystem, Vectors, FiniteSetTheorems

-----------------------------------------------------------------------------
(* The inductive invariant *)

(* The job of a call of async_ is one of the poster's jobs. *)
PosterState ==
  \A p \in Poster : poster[p].at # "idle" => poster[p].posted # 0

(* A worker has a job in its hands while it runs it, and only then. *)
HandState ==
  \A w \in Thread :
    IF worker[w].at = "run" THEN \E j \in Job : worker[w].job = {j}
                            ELSE worker[w].job = {}

Queued == UNION {Range(m_jobQueue[q]) : q \in Thread}
Held == UNION {worker[w].job : w \in Thread}

(* No job is in two places. *)
OnePlace ==
  /\ \A q \in Thread : IsInjective(m_jobQueue[q])
  /\ \A q, r \in Thread : q # r =>
       /\ Range(m_jobQueue[q]) \cap Range(m_jobQueue[r]) = {}
       /\ worker[q].job \cap worker[r].job = {}
  /\ Queued \cap Held = {}

(* A job is in a place from its push to its end, and is run once. *)
NoneLost ==
  \A j \in Job :
    /\ j \in Queued \cup Held <=> j \in Pushed /\ ran[j] = 0
    /\ ran[j] = 0 \/ (ran[j] = 1 /\ j \in Pushed)

(* The threads are started in order; the constructor ends with the last. *)
ThreadsStarted ==
  \E n \in 0..NrThreads :
    /\ \A w \in Thread : worker[w].at # "none" <=> w < n
    /\ opc = "construct" => n < NrThreads
    /\ opc = "use" => n = NrThreads

(* async_ is called by whoever has a task system, and by nobody else. *)
CallersKnow ==
  /\ opc # "use" => \A p \in Poster : poster[p].at = "idle"
  /\ (\E w \in Thread : worker[w].at = "none") =>
       \A p \in Poster : poster[p].posted = 0

(* A worker leaves once its queue is closed and empty, and is joined. *)
ClosedInOrder ==
  /\ opc \in {"construct", "use"} => \A q \in Thread : ~m_done[q]
  /\ \A w \in Thread : worker[w].at = "exited" => m_done[w] /\ m_jobQueue[w] = <<>>
  /\ opc = "gone" => \A w \in Thread : worker[w].at \in {"exited", "none"}

IInv ==
  /\ TypeOK
  /\ PosterState
  /\ HandState
  /\ OnePlace
  /\ NoneLost
  /\ ThreadsStarted
  /\ CallersKnow
  /\ ClosedInOrder
  /\ NoSleepingWorker

-----------------------------------------------------------------------------
LEMMA ModRange ==
  ASSUME NEW a \in Nat, NEW b \in Nat \ {0}
  PROVE  a % b \in 0 .. b - 1
  OBVIOUS

LEMMA Product ==
  ASSUME NEW a \in Nat \ {0}, NEW b \in Nat \ {0}
  PROVE  a * b \in Nat \ {0}
  OBVIOUS

(* The offsets of a thread, which is about to try the next queue. *)
LEMMA Offsets ==
  /\ 0 \in Thread /\ 0 \in Offset
  /\ \A o \in Thread : o \in Nat /\ (o + 1 # NrThreads => o + 1 \in Thread)
  /\ \A o \in Offset :
       o \in Nat /\ (o + 1 # NrThreads * Passes => o + 1 \in Offset)
<1>1. PICK n \in Nat \ {0} : n = NrThreads * Passes
  BY TaskAssumption, Product
<1>2. Offset = 0 .. n - 1
  BY <1>1 DEF Offset
<1>3. NrThreads \in Nat \ {0}
  BY TaskAssumption
<1>4. /\ 0 \in Offset
      /\ \A o \in Offset : o \in Nat /\ (o + 1 # n => o + 1 \in Offset)
  BY <1>2
<1>5. /\ 0 \in Thread
      /\ \A o \in Thread : o \in Nat /\ (o + 1 # NrThreads => o + 1 \in Thread)
  BY <1>3 DEF Thread
<1> QED
  BY <1>1, <1>4, <1>5

(* The queue tried next is one of the queues. *)
LEMMA QueueIndex ==
  ASSUME TypeOK
  PROVE  /\ \A p \in Poster : TryQueue(p) \in Thread
         /\ \A w \in Thread : (w + worker[w].offset) % NrThreads \in Thread
         /\ (m_jobIndex + 1) % IndexLimit \in 0 .. IndexLimit - 1
<1> USE TaskAssumption
<1>1. ASSUME NEW p \in Poster PROVE TryQueue(p) \in Thread
  <2>1. poster[p].index \in Nat /\ poster[p].offset \in Nat
    BY Offsets DEF TypeOK, PosterRecord, WorkerRecord, PosterRecord
  <2>2. poster[p].index + poster[p].offset \in Nat
    BY <2>1
  <2>3. PICK n \in Nat : n = (poster[p].index + poster[p].offset) % IndexLimit
    BY <2>2, ModRange
  <2> QED
    BY <2>3, ModRange DEF TryQueue, Thread
<1>2. ASSUME NEW w \in Thread
      PROVE  (w + worker[w].offset) % NrThreads \in Thread
  <2>1. w \in Nat /\ worker[w].offset \in Nat
    BY Offsets DEF TypeOK, WorkerRecord
  <2>2. w + worker[w].offset \in Nat
    BY <2>1
  <2> QED
    BY <2>2, ModRange DEF Thread
<1>3. m_jobIndex + 1 \in Nat
  BY DEF TypeOK, PosterRecord, WorkerRecord
<1> QED
  BY <1>1, <1>2, <1>3, ModRange

(* A queue's jobs are jobs. *)
LEMMA QueueTypes ==
  ASSUME TypeOK
  PROVE  /\ \A q \in Thread : /\ m_jobQueue[q] \in Seq(Job)
                              /\ Range(m_jobQueue[q]) \subseteq Job
         /\ Queued \subseteq Job /\ Held \subseteq Job
<1>1. ASSUME NEW q \in Thread
      PROVE  m_jobQueue[q] \in Seq(Job) /\ Range(m_jobQueue[q]) \subseteq Job
  BY DEF TypeOK, PosterRecord, WorkerRecord, Range
<1>2. Held \subseteq Job
  BY DEF TypeOK, WorkerRecord, Held
<1> QED
  BY <1>1, <1>2 DEF Queued

LEMMA InitInv == Init => IInv
<1> SUFFICES ASSUME Init PROVE IInv
  OBVIOUS
<1> USE TaskAssumption DEF Init
<1>1. TypeOK
  BY Offsets DEF TypeOK, PosterRecord, WorkerRecord
<1>2. Queued = {} /\ Held = {}
  BY EmptyRange DEF Queued, Held
<1>3. PosterState /\ HandState /\ CallersKnow /\ ClosedInOrder /\ NoSleepingWorker
  BY DEF PosterState, HandState, CallersKnow, ClosedInOrder, NoSleepingWorker
<1>4. OnePlace
  BY <1>2, EmptyRange DEF OnePlace
<1>5. NoneLost
  BY <1>2 DEF NoneLost, Pushed, Job
<1>6. ThreadsStarted
  <2>1. \A w \in Thread : worker[w].at # "none" <=> w < 0
    BY DEF Thread
  <2> QED
    BY <2>1 DEF ThreadsStarted
<1> QED
  BY <1>1, <1>3, <1>4, <1>5, <1>6 DEF IInv

-----------------------------------------------------------------------------
(* What steps leave alone *)

(* A step that moves no job. *)
LEMMA JobsStay ==
  ASSUME OnePlace, NoneLost,
         UNCHANGED <<m_jobQueue, ran>>, Pushed' = Pushed,
         \A w \in Thread : worker'[w].job = worker[w].job
  PROVE  OnePlace' /\ NoneLost'
<1>1. Queued' = Queued /\ Held' = Held
  BY DEF Queued, Held
<1> QED
  BY <1>1 DEF OnePlace, NoneLost

(* A step of a worker that neither takes nor runs a job. *)
LEMMA WorkerStays ==
  ASSUME IInv, NEW w \in Thread,
         NEW to \in WorkerRecord,
         to.job = worker[w].job, to.at \notin {"none", "run"},
         worker[w].at \in {"try", "pop", "wait"},
         to.at = "wait" => m_jobQueue[w] = <<>> /\ ~m_done[w],
         to.at = "exited" => m_jobQueue[w] = <<>> /\ m_done[w],
         Goes(w, to)
  PROVE  IInv'
<1> USE DEF Goes
<1>1. /\ worker'[w] = to
      /\ \A x \in Thread \ {w} : worker'[x] = worker[x]
      /\ to.at \in {"try", "pop", "wait", "exited"}
  BY DEF IInv, TypeOK, PosterRecord, WorkerRecord
<1>2. \A x \in Thread :
        /\ worker'[x].job = worker[x].job
        /\ worker'[x].at = "run" <=> worker[x].at = "run"
        /\ worker'[x].at = "none" <=> worker[x].at = "none"
  BY <1>1
<1>3. TypeOK'
  BY DEF IInv, TypeOK, PosterRecord, WorkerRecord
<1>4. PosterState' /\ HandState'
  BY <1>2 DEF IInv, PosterState, HandState
<1>5. OnePlace' /\ NoneLost'
  BY <1>2, JobsStay DEF IInv, Pushed
<1>6. ThreadsStarted' /\ CallersKnow'
  BY <1>2 DEF IInv, ThreadsStarted, CallersKnow
<1>7. ClosedInOrder'
  BY <1>1 DEF IInv, ClosedInOrder
<1>8. NoSleepingWorker'
  BY <1>1 DEF IInv, NoSleepingWorker, TryQueue
<1> QED
  BY <1>3, <1>4, <1>5, <1>6, <1>7, <1>8 DEF IInv

(* What a notification does to the workers. *)
LEMMA WokenUpWorkers ==
  ASSUME IInv, NEW q \in Thread, worker' = WokenUp(q)
  PROVE  /\ worker' \in [Thread -> WorkerRecord]
         /\ worker'[q].at # "wait"
         /\ \A x \in Thread :
              /\ worker'[x].job = worker[x].job
              /\ worker'[x].at = "wait" => worker[x].at = "wait"
              /\ \A at \in {"none", "run", "exited"} :
                   worker'[x].at = at <=> worker[x].at = at
<1>1. worker \in [Thread -> WorkerRecord]
  BY DEF IInv, TypeOK, PosterRecord, WorkerRecord
<1>2. /\ worker'[q] = [worker[q] EXCEPT !.at = IF @ = "wait" THEN "pop" ELSE @]
      /\ \A x \in Thread \ {q} : worker'[x] = worker[x]
  BY <1>1 DEF WokenUp
<1>3. worker' \in [Thread -> WorkerRecord]
  <2>1. [worker[q] EXCEPT !.at = IF @ = "wait" THEN "pop" ELSE @] \in WorkerRecord
    BY <1>1 DEF WorkerRecord
  <2> QED
    BY <1>1, <2>1 DEF WokenUp
<1>4. /\ worker'[q].job = worker[q].job /\ worker'[q].at # "wait"
      /\ \A at \in {"none", "run", "exited"} :
           worker'[q].at = at <=> worker[q].at = at
  BY <1>1, <1>2 DEF WorkerRecord
<1> QED
  BY <1>2, <1>3, <1>4

-----------------------------------------------------------------------------
(* async_ *)

LEMMA AsyncInv ==
  ASSUME IInv, NEW p \in Poster, Async(p)
  PROVE  IInv'
<1> USE TaskAssumption DEF Async
<1>1. /\ poster[p].posted \in 0..Posts /\ poster[p].posted + 1 \in 0..Posts
      /\ poster[p].posted + 1 # 0
      /\ 0 \in Thread
  BY DEF IInv, TypeOK, PosterRecord, WorkerRecord, Thread
<1>2. TypeOK'
  <2>1. m_jobIndex' \in 0 .. IndexLimit - 1
    BY QueueIndex DEF IInv
  <2> QED
    BY <1>1, <2>1 DEF IInv, TypeOK, PosterRecord, WorkerRecord
<1>3. PosterState' /\ HandState'
  BY <1>1 DEF IInv, PosterState, HandState, TypeOK, PosterRecord, WorkerRecord
<1>4. Pushed' = Pushed
  <2>1. \A x \in Poster : IF x = p
          THEN /\ poster'[x].at = "tryPush" /\ poster[x].at = "idle"
               /\ poster'[x].posted = poster[x].posted + 1
          ELSE poster'[x] = poster[x]
    BY DEF IInv, TypeOK, PosterRecord, WorkerRecord
  <2>2. ASSUME NEW j \in Job PROVE j \in Pushed <=> j \in Pushed'
    <3>1. j[1] \in Poster /\ j[2] \in 1..Posts
      BY DEF Job
    <3>2. poster[j[1]].posted \in 0..Posts
      BY <3>1 DEF IInv, TypeOK, PosterRecord, WorkerRecord
    <3> QED
      BY <2>1, <3>1, <3>2 DEF Pushed
  <2> QED
    BY <2>2 DEF Pushed
<1>5. OnePlace' /\ NoneLost'
  BY <1>4, JobsStay DEF IInv
<1>6. ThreadsStarted' /\ ClosedInOrder'
  BY DEF IInv, ThreadsStarted, ClosedInOrder
<1>7. CallersKnow'
  <2>1. \A w \in Thread : worker[w].at # "none"
    BY DEF IInv, ThreadsStarted, Thread
  <2> QED
    BY <2>1 DEF CallersKnow
<1>8. NoSleepingWorker'
  BY DEF IInv, NoSleepingWorker, TryQueue, TypeOK, PosterRecord, WorkerRecord
<1> QED
  BY <1>2, <1>3, <1>5, <1>6, <1>7, <1>8 DEF IInv

(* tryPush and push put the job into a queue, whichever it is. *)
LEMMA EmplaceBackInv ==
  ASSUME IInv, NEW p \in Poster,
         poster[p].at \in {"tryPush", "push"}, EmplaceBack(p, "notify")
  PROVE  IInv'
<1> USE TaskAssumption DEF EmplaceBack
<1>1. PICK q \in Thread : q = TryQueue(p)
  BY QueueIndex DEF IInv
<1>p. /\ poster[p] \in PosterRecord
      /\ poster[p].posted \in 1..Posts
  BY DEF IInv, TypeOK, PosterRecord, PosterState
<1>2. PICK j \in Job : j = NewJob(p)
  BY <1>p DEF NewJob, Job
<1>3. j \notin Pushed
  BY <1>p, <1>2 DEF Pushed, NewJob, Job
<1>4. /\ m_jobQueue' = [m_jobQueue EXCEPT ![q] = Append(m_jobQueue[q], j)]
      /\ m_jobQueue[q] \in Seq(Job)
      /\ Append(m_jobQueue[q], j) \in Seq(Job)
      /\ m_jobQueue'[q] = Append(m_jobQueue[q], j)
      /\ \A r \in Thread \ {q} : m_jobQueue'[r] = m_jobQueue[r]
  BY <1>1, <1>2 DEF IInv, TypeOK, PosterRecord, WorkerRecord
<1>5. /\ poster'[p].at = "notify" /\ poster'[p].posted = poster[p].posted
      /\ \A x \in Poster \ {p} : poster'[x] = poster[x]
      /\ \A x \in Poster : /\ poster'[x].index = poster[x].index
                           /\ poster'[x].offset = poster[x].offset
  BY DEF IInv, TypeOK, PosterRecord, WorkerRecord
<1>6. Pushed' = Pushed \cup {j}
  <2>1. ASSUME NEW i \in Job
        PROVE  i \in Pushed' <=> i \in Pushed \/ i = j
    <3>1. i = <<i[1], i[2]>> /\ i[1] \in Poster /\ i[2] \in 1..Posts
      BY DEF Job
    <3>2. CASE i[1] = p
      <4>1. /\ i = j <=> i[2] = poster[p].posted
            /\ i \in Pushed' <=> i[2] <= poster[p].posted
            /\ i \in Pushed <=> i[2] < poster[p].posted
        BY <1>p, <1>2, <1>5, <3>1, <3>2 DEF Pushed, NewJob
      <4> QED
        BY <1>p, <3>1, <4>1
    <3>3. CASE i[1] # p
      BY <1>2, <1>5, <3>1, <3>3 DEF Pushed, NewJob
    <3> QED
      BY <3>2, <3>3
  <2> QED
    BY <2>1 DEF Pushed
<1>7. j \notin Queued \cup Held /\ ran[j] = 0
  BY <1>3 DEF IInv, NoneLost
<1>8. /\ Range(m_jobQueue'[q]) = Range(m_jobQueue[q]) \cup {j}
      /\ IsInjective(m_jobQueue'[q])
      /\ \A r \in Thread : j \notin Range(m_jobQueue[r])
  <2>1. \A r \in Thread : j \notin Range(m_jobQueue[r])
    BY <1>7 DEF Queued
  <2> QED
    BY <1>4, <2>1, AppendRange DEF IInv, OnePlace
<1>9. Queued' = Queued \cup {j} /\ Held' = Held
  BY <1>4, <1>8 DEF Queued, Held
<1>10. TypeOK'
  <2>1. m_jobQueue' \in [Thread -> Seq(Job)]
    BY <1>4 DEF IInv, TypeOK
  <2>2. poster' \in [Poster -> PosterRecord]
    BY DEF IInv, TypeOK, PosterRecord
  <2> QED
    BY <2>1, <2>2 DEF IInv, TypeOK
<1>11. PosterState' /\ HandState'
  BY <1>5 DEF IInv, PosterState, HandState
<1>12. OnePlace'
  <2>1. /\ \A r \in Thread : IsInjective(m_jobQueue'[r])
        /\ \A r, t \in Thread : r # t =>
             Range(m_jobQueue'[r]) \cap Range(m_jobQueue'[t]) = {}
    <3>1. ASSUME NEW r \in Thread, NEW t \in Thread, r # t
          PROVE  Range(m_jobQueue'[r]) \cap Range(m_jobQueue'[t]) = {}
      <4>1. Range(m_jobQueue[r]) \cap Range(m_jobQueue[t]) = {}
        BY <3>1 DEF IInv, OnePlace
      <4>2. CASE r = q
        BY <1>4, <1>8, <3>1, <4>1, <4>2
      <4>3. CASE t = q
        BY <1>4, <1>8, <3>1, <4>1, <4>3
      <4>4. CASE r # q /\ t # q
        BY <1>4, <4>1, <4>4
      <4> QED
        BY <4>2, <4>3, <4>4
    <3>2. \A r \in Thread : IsInjective(m_jobQueue'[r])
      BY <1>4, <1>8 DEF IInv, OnePlace
    <3> QED
      BY <3>1, <3>2
  <2>2. \A r, t \in Thread : r # t => worker'[r].job \cap worker'[t].job = {}
    BY DEF IInv, OnePlace
  <2>3. Queued' \cap Held' = {}
    BY <1>7, <1>9 DEF IInv, OnePlace
  <2> QED
    BY <2>1, <2>2, <2>3 DEF OnePlace
<1>13. NoneLost'
  BY <1>6, <1>7, <1>9 DEF IInv, NoneLost
<1>14. opc = "use"
  BY DEF IInv, CallersKnow
<1>15. ThreadsStarted' /\ CallersKnow' /\ ClosedInOrder'
  <2>1. CallersKnow'
    BY <1>5, <1>14 DEF IInv, CallersKnow
  <2>2. ClosedInOrder'
    BY <1>14 DEF IInv, ClosedInOrder
  <2> QED
    BY <2>1, <2>2 DEF IInv, ThreadsStarted
<1>16. NoSleepingWorker'
  <2>1. \A x \in Poster : TryQueue(x)' = TryQueue(x)
    BY <1>5 DEF TryQueue
  <2>2. \A x \in Poster : poster[x].at = "notify" => poster'[x].at = "notify"
    BY <1>5
  <2>3. \A w \in Thread : m_jobQueue'[w] # <<>> => w = q \/ m_jobQueue[w] # <<>>
    BY <1>4
  <2> QED
    BY <1>1, <1>5, <2>1, <2>2, <2>3 DEF IInv, NoSleepingWorker
<1> QED
  BY <1>10, <1>11, <1>12, <1>13, <1>15, <1>16 DEF IInv

(* A step of a poster that pushes nothing. *)
LEMMA PosterStays ==
  ASSUME IInv, NEW p \in Poster,
         NEW to \in PosterRecord,
         to.posted = poster[p].posted,
         poster[p].at # "idle",
         poster[p].at = "notify" <=> to.at = "idle",
         to.at # "notify",
         poster' = [poster EXCEPT ![p] = to]
  PROVE  /\ PosterState' /\ Pushed' = Pushed
         /\ opc = "use"
         /\ \A x \in Poster \ {p} :
              poster'[x] = poster[x] /\ TryQueue(x)' = TryQueue(x)
         /\ poster'[p].at = to.at
         /\ poster' \in [Poster -> PosterRecord]
<1>1. /\ poster'[p] = to
      /\ \A x \in Poster \ {p} : poster'[x] = poster[x]
  BY DEF IInv, TypeOK, PosterRecord, WorkerRecord
<1>2. PosterState'
  BY <1>1 DEF IInv, PosterState
<1>3. Pushed' = Pushed
  <2>1. \A x \in Poster :
          /\ poster'[x].posted = poster[x].posted
          /\ poster'[x].at \in {"idle", "notify"} <=>
               poster[x].at \in {"idle", "notify"}
    BY <1>1
  <2>2. ASSUME NEW j \in Job PROVE j \in Pushed <=> j \in Pushed'
    <3>1. j[1] \in Poster
      BY DEF Job
    <3> QED
      BY <2>1, <3>1 DEF Pushed
  <2> QED
    BY <2>2 DEF Pushed
<1>4. opc = "use"
  BY DEF IInv, CallersKnow
<1>5. \A x \in Poster \ {p} : TryQueue(x)' = TryQueue(x)
  BY <1>1 DEF TryQueue
<1>6. poster' \in [Poster -> PosterRecord]
  BY DEF IInv, TypeOK, PosterRecord, WorkerRecord
<1> QED
  BY <1>1, <1>2, <1>3, <1>4, <1>5, <1>6

LEMMA TryPushFailsInv ==
  ASSUME IInv, NEW p \in Poster, TryPushFails(p)
  PROVE  IInv'
<1> USE TaskAssumption DEF TryPushFails, TryPushFailsOf
<1>1. PICK to \in PosterRecord :
        /\ poster' = [poster EXCEPT ![p] = to]
        /\ to.at \in {"push", "tryPush"} /\ to.posted = poster[p].posted
  <2>1. poster[p] \in PosterRecord
    BY DEF IInv, TypeOK
  <2> DEFINE to == IF poster[p].offset + 1 # NrThreads
                   THEN [poster[p] EXCEPT !.offset = @ + 1]
                   ELSE [poster[p] EXCEPT !.offset = 0, !.at = "push"]
  <2> HIDE DEF to
  <2>2. poster' = [poster EXCEPT ![p] = to]
    BY DEF to
  <2>3. to \in PosterRecord /\ to.at \in {"push", "tryPush"}
        /\ to.posted = poster[p].posted
    <3>1. CASE poster[p].offset + 1 # NrThreads
      <4>1. poster[p].offset + 1 \in Thread
        BY <2>1, <3>1, Offsets DEF PosterRecord
      <4>2. to = [poster[p] EXCEPT !.offset = poster[p].offset + 1]
        BY <3>1 DEF to
      <4> QED
        BY <2>1, <4>1, <4>2 DEF PosterRecord
    <3>2. CASE poster[p].offset + 1 = NrThreads
      <4>1. to = [poster[p] EXCEPT !.offset = 0, !.at = "push"]
        BY <3>2 DEF to
      <4> QED
        BY <2>1, <4>1, Offsets DEF PosterRecord
    <3> QED
      BY <3>1, <3>2
  <2> QED
    BY <2>2, <2>3
<1>2. /\ PosterState' /\ Pushed' = Pushed
      /\ opc = "use"
      /\ \A x \in Poster \ {p} :
           poster'[x] = poster[x] /\ TryQueue(x)' = TryQueue(x)
      /\ poster' \in [Poster -> PosterRecord]
      /\ poster'[p].at = to.at
  BY <1>1, PosterStays
<1>3. TypeOK'
  BY <1>2 DEF IInv, TypeOK, PosterRecord, WorkerRecord
<1>4. OnePlace' /\ NoneLost'
  BY <1>2, JobsStay DEF IInv
<1>5. CallersKnow'
  <2>1. \A x \in Poster : poster'[x].posted = poster[x].posted
    BY <1>1 DEF IInv, TypeOK, PosterRecord, WorkerRecord
  <2> QED
    BY <1>2, <2>1 DEF IInv, CallersKnow
<1>6. HandState' /\ ThreadsStarted' /\ ClosedInOrder'
  BY DEF IInv, HandState, ThreadsStarted, ClosedInOrder
<1>7. NoSleepingWorker'
  BY <1>2 DEF IInv, NoSleepingWorker
<1> QED
  BY <1>2, <1>3, <1>4, <1>5, <1>6, <1>7 DEF IInv

LEMMA NotifyInv ==
  ASSUME IInv, NEW p \in Poster, Notify(p)
  PROVE  IInv'
<1> USE TaskAssumption DEF Notify
<1>1. PICK q \in Thread : q = TryQueue(p)
  BY QueueIndex DEF IInv
<1>2. PICK to \in PosterRecord :
        /\ poster' = [poster EXCEPT ![p] = to]
        /\ to.at = "idle" /\ to.posted = poster[p].posted
  <2>1. poster[p] \in PosterRecord
    BY DEF IInv, TypeOK
  <2>2. poster' = [poster EXCEPT ![p] = [poster[p] EXCEPT !.at = "idle"]]
    OBVIOUS
  <2> QED
    BY <2>1, <2>2 DEF PosterRecord
<1>3. /\ PosterState' /\ Pushed' = Pushed
      /\ opc = "use"
      /\ \A x \in Poster \ {p} :
           poster'[x] = poster[x] /\ TryQueue(x)' = TryQueue(x)
      /\ poster' \in [Poster -> PosterRecord]
  BY <1>2, PosterStays
<1>4. /\ worker' \in [Thread -> WorkerRecord]
      /\ worker'[q].at # "wait"
      /\ \A x \in Thread :
           /\ worker'[x].job = worker[x].job
           /\ worker'[x].at = "wait" => worker[x].at = "wait"
           /\ \A at \in {"none", "run", "exited"} :
                worker'[x].at = at <=> worker[x].at = at
  BY <1>1, WokenUpWorkers
<1>5. TypeOK'
  BY <1>3, <1>4 DEF IInv, TypeOK, PosterRecord, WorkerRecord
<1>6. OnePlace' /\ NoneLost'
  BY <1>3, <1>4, JobsStay DEF IInv
<1>7. HandState' /\ ThreadsStarted' /\ ClosedInOrder'
  <2>1. HandState'
    BY <1>4 DEF IInv, HandState
  <2>2. ThreadsStarted'
    BY <1>4 DEF IInv, ThreadsStarted
  <2>3. ClosedInOrder'
    BY <1>4 DEF IInv, ClosedInOrder
  <2> QED
    BY <2>1, <2>2, <2>3
<1>8. CallersKnow'
  <2>1. \A x \in Poster : poster'[x].posted = poster[x].posted
    BY <1>2 DEF IInv, TypeOK, PosterRecord, WorkerRecord
  <2> QED
    BY <1>3, <1>4, <2>1 DEF IInv, CallersKnow
<1>9. NoSleepingWorker'
  <2>1. ASSUME NEW w \in Thread, worker'[w].at = "wait"
        PROVE  w # q /\ worker[w].at = "wait"
    BY <1>4, <2>1
  <2>2. ASSUME NEW w \in Thread \ {q}, NEW x \in Poster,
               poster[x].at = "notify", TryQueue(x) = w
        PROVE  poster'[x].at = "notify" /\ TryQueue(x)' = w
    BY <1>1, <1>3, <2>2
  <2> QED
    BY <2>1, <2>2 DEF IInv, NoSleepingWorker
<1> QED
  BY <1>3, <1>5, <1>6, <1>7, <1>8, <1>9 DEF IInv

-----------------------------------------------------------------------------
(* run *)

(* tryPop and pop take the front of a queue, whichever it is. *)
LEMMA TakeFromInv ==
  ASSUME IInv, NEW w \in Thread, NEW q \in Thread,
         worker[w].at \in {"try", "pop"}, TakeFrom(w, q)
  PROVE  /\ IInv'
         /\ LET j == Head(m_jobQueue[q]) IN
              /\ j \in Queued /\ worker[w].job = {} /\ worker'[w].job = {j}
              /\ \A x \in Thread \ {w} : worker'[x] = worker[x]
<1> USE DEF TakeFrom
<1>1. m_jobQueue[q] \in Seq(Job) /\ m_jobQueue[q] # <<>>
  BY DEF IInv, TypeOK
<1>2. PICK j \in Job : j = Head(m_jobQueue[q])
  BY <1>1
<1>3. /\ j \in Range(m_jobQueue[q])
      /\ Tail(m_jobQueue[q]) \in Seq(Job)
      /\ Range(Tail(m_jobQueue[q])) = Range(m_jobQueue[q]) \ {j}
      /\ IsInjective(Tail(m_jobQueue[q]))
  BY <1>1, <1>2, TailRange DEF IInv, OnePlace
<1>4. /\ m_jobQueue'[q] = Tail(m_jobQueue[q])
      /\ \A r \in Thread \ {q} : m_jobQueue'[r] = m_jobQueue[r]
      /\ m_jobQueue' \in [Thread -> Seq(Job)]
  BY <1>3 DEF IInv, TypeOK
<1>5. /\ worker' \in [Thread -> WorkerRecord]
      /\ worker'[w].at = "run" /\ worker'[w].job = {j}
      /\ \A x \in Thread \ {w} : worker'[x] = worker[x]
  BY <1>2 DEF IInv, TypeOK, WorkerRecord, Taken
<1>6. worker[w].job = {}
  BY DEF IInv, HandState
<1>7. j \in Queued /\ j \notin Held
  BY <1>3 DEF Queued, IInv, OnePlace
<1>8. \A r \in Thread \ {q} : j \notin Range(m_jobQueue[r])
  BY <1>3 DEF IInv, OnePlace
<1>9. Queued' = Queued \ {j}
  <2>1. ASSUME NEW i \in Queued', NEW r \in Thread, i \in Range(m_jobQueue'[r])
        PROVE  i \in Queued \ {j}
    <3>1. i \in Range(m_jobQueue[r]) \ {j}
      BY <1>3, <1>4, <1>8, <2>1
    <3> QED
      BY <3>1 DEF Queued
  <2>2. ASSUME NEW i \in Queued \ {j}, NEW r \in Thread, i \in Range(m_jobQueue[r])
        PROVE  i \in Queued'
    <3>1. i \in Range(m_jobQueue'[r])
      BY <1>3, <1>4, <2>2
    <3> QED
      BY <3>1 DEF Queued
  <2> QED
    BY <2>1, <2>2 DEF Queued
<1>10. Held' = Held \cup {j}
  BY <1>5, <1>6 DEF Held
<1>11. TypeOK'
  BY <1>4, <1>5 DEF IInv, TypeOK
<1>12. PosterState' /\ HandState'
  BY <1>5 DEF IInv, PosterState, HandState
<1>13. OnePlace'
  <2>1. \A r \in Thread : IsInjective(m_jobQueue'[r])
    BY <1>3, <1>4 DEF IInv, OnePlace
  <2>2. \A r \in Thread : Range(m_jobQueue'[r]) \subseteq Range(m_jobQueue[r])
    BY <1>3, <1>4
  <2>3. \A r, t \in Thread : r # t =>
          Range(m_jobQueue'[r]) \cap Range(m_jobQueue'[t]) = {}
    BY <2>2 DEF IInv, OnePlace
  <2>4. \A x \in Thread : j \notin worker[x].job
    BY <1>7 DEF Held
  <2>5. \A x, y \in Thread : x # y => worker'[x].job \cap worker'[y].job = {}
    BY <1>5, <2>4 DEF IInv, OnePlace
  <2>6. Queued' \cap Held' = {}
    BY <1>9, <1>10 DEF IInv, OnePlace
  <2> QED
    BY <2>1, <2>3, <2>5, <2>6 DEF OnePlace
<1>14. NoneLost'
  <2>1. Queued' \cup Held' = Queued \cup Held
    BY <1>7, <1>9, <1>10
  <2>2. Pushed' = Pushed
    BY DEF Pushed
  <2> QED
    BY <2>1, <2>2 DEF IInv, NoneLost
<1>15. ThreadsStarted' /\ CallersKnow'
  <2>1. \A x \in Thread : worker'[x].at = "none" <=> worker[x].at = "none"
    BY <1>5
  <2> QED
    BY <2>1 DEF IInv, ThreadsStarted, CallersKnow
<1>16. ClosedInOrder'
  <2>1. \A x \in Thread : worker'[x].at = "exited" =>
          worker[x].at = "exited" /\ x # w
    BY <1>5
  <2>2. \A x \in Thread : m_jobQueue[x] = <<>> => m_jobQueue'[x] = <<>>
    BY <1>1, <1>4
  <2>3. opc # "gone"
    BY DEF IInv, ClosedInOrder
  <2> QED
    BY <2>1, <2>2, <2>3 DEF IInv, ClosedInOrder
<1>17. NoSleepingWorker'
  <2>1. \A x \in Thread : worker'[x].at = "wait" => worker[x].at = "wait"
    BY <1>5
  <2>2. \A x \in Thread : m_jobQueue'[x] # <<>> => m_jobQueue[x] # <<>>
    BY <1>1, <1>4
  <2> QED
    BY <2>1, <2>2 DEF IInv, NoSleepingWorker, TryQueue
<1>18. IInv'
  BY <1>11, <1>12, <1>13, <1>14, <1>15, <1>16, <1>17 DEF IInv
<1> QED
  BY <1>2, <1>5, <1>6, <1>7, <1>18

LEMMA WorkerSearchInv ==
  ASSUME IInv, NEW w \in Thread, WorkerSearch(w) \/ WakeSpuriously(w)
  PROVE  IInv'
<1>1. CASE TryPop(w)
  BY <1>1, TakeFromInv, QueueIndex DEF TryPop, IInv
<1>2. CASE TryPopFails(w)
  <2>1. /\ worker[w] \in WorkerRecord /\ worker[w].at = "try"
    BY <1>2 DEF IInv, TypeOK, TryPopFails
  <2>2. CASE worker[w].offset + 1 # NrThreads * Passes
    <3>1. PICK to \in WorkerRecord :
            to = [worker[w] EXCEPT !.offset = worker[w].offset + 1]
      <4>1. worker[w].offset + 1 \in Offset
        BY <2>1, <2>2, Offsets DEF WorkerRecord
      <4> QED
        BY <2>1, <4>1 DEF WorkerRecord
    <3>2. to.at = "try" /\ to.job = worker[w].job
      BY <2>1, <3>1 DEF WorkerRecord
    <3>3. Goes(w, to)
      BY <1>2, <2>2, <3>1 DEF TryPopFails
    <3> QED
      BY <2>1, <3>2, <3>3, WorkerStays
  <2>3. CASE worker[w].offset + 1 = NrThreads * Passes
    <3>1. PICK to \in WorkerRecord :
            to = [worker[w] EXCEPT !.offset = 0, !.at = "pop"]
      BY <2>1, Offsets DEF WorkerRecord
    <3>2. to.at = "pop" /\ to.job = worker[w].job
      BY <2>1, <3>1 DEF WorkerRecord
    <3>3. Goes(w, to)
      BY <1>2, <2>3, <3>1 DEF TryPopFails
    <3> QED
      BY <2>1, <3>2, <3>3, WorkerStays
  <2> QED
    BY <2>2, <2>3
<1>3. CASE Pop(w)
  BY <1>3, TakeFromInv DEF Pop
<1>4. ASSUME NEW at \in {"pop", "wait", "exited"}, GoesTo(w, at),
             worker[w].at \in {"pop", "wait"},
             at = "wait" => m_jobQueue[w] = <<>> /\ ~m_done[w],
             at = "exited" => m_jobQueue[w] = <<>> /\ m_done[w]
      PROVE  IInv'
  <2>1. PICK to \in WorkerRecord : to = [worker[w] EXCEPT !.at = at]
    BY DEF IInv, TypeOK, WorkerRecord
  <2>2. to.at = at /\ to.job = worker[w].job
    BY <2>1 DEF IInv, TypeOK, WorkerRecord
  <2>3. Goes(w, to)
    BY <1>4, <2>1 DEF GoesTo
  <2> QED
    BY <1>4, <2>2, <2>3, WorkerStays
<1>5. CASE PopWaits(w)
  BY <1>4, <1>5 DEF PopWaits
<1>6. CASE PopFails(w)
  BY <1>4, <1>6 DEF PopFails
<1>7. CASE WakeSpuriously(w)
  BY <1>4, <1>7 DEF WakeSpuriously
<1> QED
  BY <1>1, <1>2, <1>3, <1>5, <1>6, <1>7 DEF WorkerSearch

LEMMA RunJobInv ==
  ASSUME IInv, NEW w \in Thread, RunJob(w)
  PROVE  /\ IInv'
         /\ \E j \in Job :
              /\ worker[w].job = {j} /\ worker'[w].job = {}
              /\ ran[j] = 0 /\ ran' = [ran EXCEPT ![j] = 1]
              /\ \A x \in Thread \ {w} : worker'[x] = worker[x]
<1> USE DEF RunJob
<1>1. PICK j \in Job : worker[w].job = {j}
  BY DEF IInv, HandState
<1>2. /\ j \in Held /\ j \notin Queued
      /\ \A x \in Thread \ {w} : j \notin worker[x].job
  BY <1>1 DEF Held, IInv, OnePlace
<1>3. j \in Pushed /\ ran[j] = 0
  BY <1>2 DEF IInv, NoneLost
<1>4. /\ ran' \in [Job -> Nat]
      /\ ran'[j] = 1
      /\ \A i \in Job \ {j} : ran'[i] = ran[i]
      /\ ran' = [ran EXCEPT ![j] = 1]
  <2>1. ran' = [i \in Job |-> IF i = j THEN 1 ELSE ran[i]]
    BY <1>1, <1>3
  <2>2. ran \in [Job -> Nat]
    BY DEF IInv, TypeOK
  <2>3. ran' = [ran EXCEPT ![j] = 1]
    BY <2>1, <2>2
  <2>4. ran' \in [Job -> Nat]
    BY <2>1, <2>2
  <2>5. ran'[j] = 1 /\ \A i \in Job \ {j} : ran'[i] = ran[i]
    BY <2>1
  <2> QED
    BY <2>3, <2>4, <2>5
<1>5. /\ worker' \in [Thread -> WorkerRecord]
      /\ worker'[w].at = "try" /\ worker'[w].job = {}
      /\ \A x \in Thread \ {w} : worker'[x] = worker[x]
  BY Offsets DEF IInv, TypeOK, WorkerRecord
<1>6. Queued' = Queued /\ Held' = Held \ {j} /\ Pushed' = Pushed
  <2>1. Held' = Held \ {j}
    BY <1>1, <1>2, <1>5 DEF Held
  <2> QED
    BY <2>1 DEF Queued, Pushed
<1>7. TypeOK'
  BY <1>4, <1>5 DEF IInv, TypeOK
<1>8. PosterState' /\ HandState'
  BY <1>5 DEF IInv, PosterState, HandState
<1>9. OnePlace'
  BY <1>5, <1>6 DEF IInv, OnePlace
<1>10. NoneLost'
  BY <1>2, <1>3, <1>4, <1>6 DEF IInv, NoneLost
<1>11. ThreadsStarted' /\ CallersKnow'
  <2>1. \A x \in Thread : worker'[x].at = "none" <=> worker[x].at = "none"
    BY <1>5
  <2> QED
    BY <2>1 DEF IInv, ThreadsStarted, CallersKnow
<1>12. ClosedInOrder'
  BY <1>5 DEF IInv, ClosedInOrder
<1>13. NoSleepingWorker'
  BY <1>5 DEF IInv, NoSleepingWorker, TryQueue
<1>14. IInv'
  BY <1>7, <1>8, <1>9, <1>10, <1>11, <1>12, <1>13 DEF IInv
<1> QED
  BY <1>1, <1>3, <1>4, <1>5, <1>14

-----------------------------------------------------------------------------
(* TaskSystem and ~TaskSystem *)

(* A step of the owner that touches neither the workers nor the queues. *)
LEMMA OwnerStays ==
  ASSUME IInv, NEW at \in {"release", "gone"}, OwnerGoes(at), UNCHANGED worker,
         opc \notin {"notifyAll", "gone"},
         \A p \in Poster : poster[p].at = "idle",
         at = "gone" => \A w \in Thread : worker[w].at \in {"exited", "none"}
  PROVE  IInv'
<1> USE DEF OwnerGoes
<1>1. TypeOK'
  BY DEF IInv, TypeOK
<1>2. PosterState' /\ HandState'
  BY DEF IInv, PosterState, HandState
<1>3. OnePlace' /\ NoneLost'
  BY JobsStay DEF IInv, Pushed
<1>4. ThreadsStarted' /\ CallersKnow' /\ ClosedInOrder'
  BY DEF IInv, ThreadsStarted, CallersKnow, ClosedInOrder
<1>5. NoSleepingWorker'
  BY DEF IInv, NoSleepingWorker, TryQueue
<1> QED
  BY <1>1, <1>2, <1>3, <1>4, <1>5 DEF IInv

(* The number of the threads started is the index of the next one. *)
LEMMA NextThread ==
  ASSUME IInv, opc = "construct"
  PROVE  /\ NrStarted \in Thread
         /\ \A w \in Thread : worker[w].at # "none" <=> w < NrStarted
<1>1. PICK n \in 0..NrThreads :
        /\ \A w \in Thread : worker[w].at # "none" <=> w < n
        /\ n < NrThreads
  BY DEF IInv, ThreadsStarted
<1>2. n \in Thread /\ {w \in Thread : worker[w].at # "none"} = 0 .. n - 1
  BY <1>1, TaskAssumption DEF Thread
<1>3. Cardinality(0 .. n - 1) = n
  BY <1>1, FS_Interval
<1> QED
  BY <1>1, <1>2, <1>3 DEF NrStarted

LEMMA StartThreadInv ==
  ASSUME IInv, StartThread
  PROVE  IInv'
<1> USE TaskAssumption DEF StartThread, OwnerGoes
<1>1. PICK n \in Thread : n = NrStarted
  BY NextThread
<1>2. /\ \A w \in Thread : worker[w].at # "none" <=> w < n
      /\ worker[n].at = "none"
  BY <1>1, NextThread DEF Thread
<1>3. /\ worker' \in [Thread -> WorkerRecord]
      /\ worker'[n].at = "try" /\ worker'[n].job = worker[n].job
      /\ \A w \in Thread \ {n} : worker'[w] = worker[w]
  BY <1>1 DEF IInv, TypeOK, WorkerRecord
<1>4. opc' = IF n + 1 = NrThreads THEN "use" ELSE "construct"
  BY <1>1
<1>5. TypeOK'
  BY <1>3, <1>4 DEF IInv, TypeOK
<1>6. PosterState' /\ HandState'
  BY <1>2, <1>3 DEF IInv, PosterState, HandState
<1>7. OnePlace' /\ NoneLost'
  <2>1. \A w \in Thread : worker'[w].job = worker[w].job
    BY <1>3
  <2> QED
    BY <2>1, JobsStay DEF IInv, Pushed
<1>8. ThreadsStarted'
  <2>1. n + 1 \in 0..NrThreads /\ (n + 1 # NrThreads => n + 1 < NrThreads)
    BY DEF Thread
  <2>2. ASSUME NEW w \in Thread
        PROVE  worker'[w].at # "none" <=> w < n + 1
    <3>1. CASE w = n
      BY <1>3, <3>1 DEF Thread
    <3>2. CASE w # n
      BY <1>2, <1>3, <3>2 DEF Thread
    <3> QED
      BY <3>1, <3>2
  <2> QED
    BY <1>4, <2>1, <2>2 DEF ThreadsStarted
<1>9. CallersKnow'
  BY <1>2 DEF IInv, CallersKnow
<1>10. ClosedInOrder'
  BY <1>3, <1>4 DEF IInv, ClosedInOrder
<1>11. NoSleepingWorker'
  <2>1. \A w \in Thread : worker'[w].at = "wait" => worker[w].at = "wait"
    BY <1>3
  <2>2. \A q \in Thread : ~m_done[q]
    BY DEF IInv, ClosedInOrder
  <2> QED
    BY <2>1, <2>2 DEF IInv, NoSleepingWorker, TryQueue
<1> QED
  BY <1>5, <1>6, <1>7, <1>8, <1>9, <1>10, <1>11 DEF IInv

LEMMA SetDoneInv ==
  ASSUME IInv, NEW q \in Thread, SetDone(q)
  PROVE  IInv'
<1> USE DEF SetDone
<1>1. /\ m_done' \in [Thread -> BOOLEAN] /\ m_done'[q] = TRUE
      /\ \A r \in Thread \ {q} : m_done'[r] = m_done[r]
  BY DEF IInv, TypeOK
<1>2. \A r \in Thread : m_done[r] => m_done'[r]
  BY <1>1
<1>3. TypeOK'
  BY <1>1 DEF IInv, TypeOK
<1>4. PosterState' /\ HandState'
  BY DEF IInv, PosterState, HandState
<1>5. OnePlace' /\ NoneLost'
  BY JobsStay DEF IInv, Pushed
<1>6. ThreadsStarted' /\ CallersKnow'
  BY DEF IInv, ThreadsStarted, CallersKnow
<1>7. ClosedInOrder'
  BY <1>2 DEF IInv, ClosedInOrder
<1>8. NoSleepingWorker'
  BY <1>1 DEF IInv, NoSleepingWorker, TryQueue
<1> QED
  BY <1>3, <1>4, <1>5, <1>6, <1>7, <1>8 DEF IInv

LEMMA NotifyAllInv ==
  ASSUME IInv, NotifyAll
  PROVE  IInv'
<1> USE DEF NotifyAll, OwnerGoes
<1>1. PICK q \in Thread : q = closing
  BY DEF IInv, TypeOK
<1>2. /\ worker' \in [Thread -> WorkerRecord]
      /\ worker'[q].at # "wait"
      /\ \A x \in Thread :
           /\ worker'[x].job = worker[x].job
           /\ worker'[x].at = "wait" => worker[x].at = "wait"
           /\ \A at \in {"none", "run", "exited"} :
                worker'[x].at = at <=> worker[x].at = at
  BY <1>1, WokenUpWorkers
<1>3. opc' \in {"join", "release"}
  BY DEF AfterNotifyAll
<1>4. TypeOK'
  BY <1>2, <1>3 DEF IInv, TypeOK
<1>5. PosterState' /\ HandState'
  BY <1>2 DEF IInv, PosterState, HandState
<1>6. OnePlace' /\ NoneLost'
  BY <1>2, JobsStay DEF IInv, Pushed
<1>7. ThreadsStarted' /\ CallersKnow'
  <2>1. ThreadsStarted'
    BY <1>2, <1>3 DEF IInv, ThreadsStarted
  <2>2. CallersKnow'
    BY <1>2 DEF IInv, CallersKnow
  <2> QED
    BY <2>1, <2>2
<1>8. ClosedInOrder'
  BY <1>2, <1>3 DEF IInv, ClosedInOrder
<1>9. NoSleepingWorker'
  <2>1. \A w \in Thread : worker'[w].at = "wait" => w # q /\ worker[w].at = "wait"
    BY <1>2
  <2>2. \A p \in Poster : poster[p].at = "idle"
    BY DEF IInv, CallersKnow
  <2> QED
    BY <1>1, <2>1, <2>2 DEF IInv, NoSleepingWorker
<1> QED
  BY <1>4, <1>5, <1>6, <1>7, <1>8, <1>9 DEF IInv

LEMMA OwnerInv ==
  ASSUME IInv, StartDestructor \/ OwnerStep
  PROVE  IInv'
<1>1. CASE StartDestructor
  BY <1>1, OwnerStays DEF StartDestructor
<1>2. CASE StartThread
  BY <1>2, StartThreadInv
<1>3. CASE StartThreadFails
  <2>1. \A p \in Poster : poster[p].at = "idle"
    BY <1>3 DEF StartThreadFails, IInv, CallersKnow
  <2> QED
    BY <1>3, <2>1, OwnerStays DEF StartThreadFails
<1>4. CASE \E q \in Thread : SetDone(q)
  BY <1>4, SetDoneInv
<1>5. CASE NotifyAll
  BY <1>5, NotifyAllInv
<1>6. CASE Join
  <2>1. \A p \in Poster : poster[p].at = "idle"
    BY <1>6 DEF Join, IInv, CallersKnow
  <2> QED
    BY <1>6, <2>1, OwnerStays DEF Join
<1> QED
  BY <1>1, <1>2, <1>3, <1>4, <1>5, <1>6 DEF OwnerStep, OwnerCloses

LEMMA UnchangedInv ==
  ASSUME IInv, UNCHANGED vars
  PROVE  IInv'
<1> USE DEF vars
<1>1. TypeOK' /\ PosterState' /\ HandState'
  BY DEF IInv, TypeOK, PosterState, HandState
<1>2. OnePlace' /\ NoneLost'
  BY JobsStay DEF IInv, Pushed
<1>3. ThreadsStarted' /\ CallersKnow' /\ ClosedInOrder' /\ NoSleepingWorker'
  BY DEF IInv, ThreadsStarted, CallersKnow, ClosedInOrder, NoSleepingWorker,
         TryQueue
<1> QED
  BY <1>1, <1>2, <1>3 DEF IInv

LEMMA NextInv == IInv /\ [Next]_vars => IInv'
<1> SUFFICES ASSUME IInv, [Next]_vars PROVE IInv'
  OBVIOUS
<1>1. ASSUME NEW p \in Poster, Async(p) \/ AsyncStep(p) PROVE IInv'
  <2>1. CASE Async(p)
    BY <2>1, AsyncInv
  <2>2. CASE TryPush(p) \/ Push(p)
    BY <2>2, EmplaceBackInv DEF TryPush, Push
  <2>3. CASE TryPushFails(p)
    BY <2>3, TryPushFailsInv
  <2>4. CASE Notify(p)
    BY <2>4, NotifyInv
  <2> QED
    BY <1>1, <2>1, <2>2, <2>3, <2>4 DEF AsyncStep
<1>2. ASSUME NEW w \in Thread, WorkerSearch(w) \/ RunJob(w) \/ WakeSpuriously(w)
      PROVE  IInv'
  BY <1>2, WorkerSearchInv, RunJobInv
<1>3. CASE StartDestructor \/ OwnerStep
  BY <1>3, OwnerInv
<1>4. CASE Terminated \/ UNCHANGED vars
  BY <1>4, UnchangedInv DEF Terminated
<1> QED
  BY <1>1, <1>2, <1>3, <1>4 DEF Next

-----------------------------------------------------------------------------
(* The theorems *)

(* The inductive invariant holds in every reachable state. *)
THEOREM Invariance == Spec => []IInv
  BY InitInv, NextInv, PTL DEF Spec

(* Every variable of TaskSystem keeps its type. *)
THEOREM TypeCorrectness == Spec => []TypeOK
<1>1. IInv => TypeOK
  BY DEF IInv
<1> QED
  BY <1>1, Invariance, PTL

(* No worker sleeps beside a job in its queue or after its queue was       *)
(* closed, unless the notification that wakes it is on its way.            *)
THEOREM WorkersWakeUp == Spec => []NoSleepingWorker
<1>1. IInv => NoSleepingWorker
  BY DEF IInv
<1> QED
  BY <1>1, Invariance, PTL

(* A job is in one place at most, and in none exactly when it waits        *)
(* nowhere and nobody runs it.                                             *)
LEMMA PlacesOfJob ==
  ASSUME IInv, NEW j \in Job
  PROVE  Cardinality(Places(j)) = IF j \in Queued \cup Held THEN 1 ELSE 0
<1>1. \A q \in Thread : j \notin Range(m_jobQueue[q]) => PlacesIn(q, j) = {}
  BY DEF PlacesIn, Range
<1>2. CASE j \in Queued
  <2>1. PICK q \in Thread : j \in Range(m_jobQueue[q])
    BY <1>2 DEF Queued
  <2>2. PICK i \in DOMAIN m_jobQueue[q] : m_jobQueue[q][i] = j
    BY <2>1 DEF Range
  <2>3. PlacesIn(q, j) = {<<q, i>>}
    BY <2>2 DEF PlacesIn, IInv, OnePlace, IsInjective
  <2>4. \A r \in Thread \ {q} : PlacesIn(r, j) = {}
    BY <1>1, <2>1 DEF IInv, OnePlace
  <2>5. Hands(j) = {}
    BY <1>2 DEF IInv, OnePlace, Held, Hands
  <2>6. Places(j) = {<<q, i>>}
    BY <2>3, <2>4, <2>5 DEF Places
  <2> QED
    BY <1>2, <2>6, FS_Singleton
<1>3. CASE j \in Held
  <2>1. PICK w \in Thread : j \in worker[w].job
    BY <1>3 DEF Held
  <2>2. \A x \in Thread \ {w} : j \notin worker[x].job
    BY <2>1 DEF IInv, OnePlace
  <2>3. \A q \in Thread : PlacesIn(q, j) = {}
    BY <1>1, <1>3 DEF IInv, OnePlace, Queued
  <2>4. Hands(j) = {w}
    BY <2>1, <2>2 DEF Hands
  <2>5. Places(j) = {<<w, 0>>}
    BY <2>3, <2>4 DEF Places
  <2> QED
    BY <1>3, <2>5, FS_Singleton
<1>4. CASE j \notin Queued \cup Held
  <2>1. /\ \A q \in Thread : PlacesIn(q, j) = {}
        /\ Hands(j) = {}
    BY <1>1, <1>4 DEF Queued, Held, Hands
  <2>2. Places(j) = {}
    BY <2>1 DEF Places
  <2> QED
    BY <1>4, <2>2, FS_EmptySet
<1> QED
  BY <1>2, <1>3, <1>4

(* Stealing loses no job and runs none twice, for any number of threads    *)
(* and of jobs: a pushed job waits in one queue or is in one worker's      *)
(* hands until it has been run once.                                       *)
THEOREM NoJobLost == Spec => []JobsKept
<1>1. ASSUME IInv PROVE JobsKept
  <2> SUFFICES ASSUME NEW j \in Job
               PROVE  Cardinality(Places(j)) + ran[j]
                        = IF j \in Pushed THEN 1 ELSE 0
    BY DEF JobsKept
  <2>1. Cardinality(Places(j)) = IF j \in Queued \cup Held THEN 1 ELSE 0
    BY <1>1, PlacesOfJob
  <2>2. /\ j \in Queued \cup Held <=> j \in Pushed /\ ran[j] = 0
        /\ ran[j] = 0 \/ (ran[j] = 1 /\ j \in Pushed)
    BY <1>1 DEF IInv, NoneLost
  <2> QED
    BY <2>1, <2>2
<1> QED
  BY <1>1, Invariance, PTL

-----------------------------------------------------------------------------
(* TaskSystem implements TaskService. *)

stateBar == [j \in Job |-> StateOf(j)]

(* The state of a job, by where it is. *)
LEMMA StateValues ==
  ASSUME IInv, NEW j \in Job
  PROVE  StateOf(j) = IF j \in Held THEN "running"
                      ELSE IF ran[j] = 1 THEN "done"
                      ELSE IF poster[j[1]].posted >= j[2] THEN "submitted"
                      ELSE "new"
<1>1. j \in Held <=> Hands(j) # {}
  BY DEF Held, Hands
<1>2. ran[j] = 1 <=> ran[j] > 0
  BY DEF IInv, NoneLost
<1> QED
  BY <1>1, <1>2 DEF StateOf

(* A job waiting in a queue has been submitted. *)
LEMMA QueuedSubmitted ==
  ASSUME IInv, NEW j \in Queued
  PROVE  j \in Job /\ StateOf(j) = "submitted"
<1>1. j \in Job
  BY QueueTypes DEF IInv
<1>2. j \in Pushed /\ ran[j] = 0 /\ j \notin Held
  BY <1>1 DEF IInv, NoneLost, OnePlace
<1>3. poster[j[1]].posted >= j[2]
  BY <1>1, <1>2 DEF Pushed, Job, IInv, TypeOK, PosterRecord
<1> QED
  BY <1>1, <1>2, <1>3, StateValues

(* A step that changes no job's state. *)
LEMMA StateStays ==
  ASSUME UNCHANGED ran,
         \A w \in Thread : worker'[w].job = worker[w].job,
         \A p \in Poster : poster'[p].posted = poster[p].posted
  PROVE  UNCHANGED stateBar
<1>1. ASSUME NEW j \in Job PROVE StateOf(j)' = StateOf(j)
  <2>1. j[1] \in Poster
    BY DEF Job
  <2>2. Hands(j)' = Hands(j)
    BY DEF Hands
  <2> QED
    BY <2>1, <2>2 DEF StateOf
<1> QED
  BY <1>1 DEF stateBar

(* A step that moves one job on. *)
LEMMA StateMoves ==
  ASSUME NEW j \in Job, NEW from, NEW to,
         StateOf(j) = from, StateOf(j)' = to,
         \A i \in Job \ {j} : StateOf(i)' = StateOf(i),
         UNCHANGED Phase
  PROVE  Service!Move(j, from, to)
<1>1. stateBar[j] = from
  BY DEF stateBar
<1>2. stateBar' = [stateBar EXCEPT ![j] = to]
  BY DEF stateBar
<1> QED
  BY <1>1, <1>2 DEF Service!Move, stateBar

LEMMA AsyncRefines ==
  ASSUME IInv, IInv', NEW p \in Poster, Async(p)
  PROVE  \E j \in Job : Service!Submit(j)
<1> USE DEF Async
<1>1. /\ poster[p].posted \in 0..Posts /\ poster[p].posted + 1 \in 1..Posts
      /\ poster'[p].posted = poster[p].posted + 1
      /\ \A x \in Poster \ {p} : poster'[x] = poster[x]
  BY TaskAssumption DEF IInv, TypeOK, PosterRecord
<1>2. PICK j \in Job : j = <<p, poster[p].posted + 1>>
  BY <1>1 DEF Job
<1>3. Held' = Held /\ ran' = ran
  BY DEF Held
<1>4. j \notin Pushed
  BY <1>1, <1>2 DEF Pushed
<1>5. j \notin Held /\ ran[j] # 1
  BY <1>4 DEF IInv, NoneLost
<1>6. StateOf(j) = "new"
  <2>1. ~(poster[j[1]].posted >= j[2])
    BY <1>1, <1>2
  <2> QED
    BY <1>5, <2>1, StateValues
<1>7. StateOf(j)' = "submitted"
  <2>1. poster'[j[1]].posted >= j[2]
    BY <1>1, <1>2
  <2>2. Hands(j)' = {} /\ ran'[j] = 0
    BY <1>3, <1>5 DEF Hands, Held, IInv, NoneLost
  <2> QED
    BY <2>1, <2>2 DEF StateOf
<1>8. ASSUME NEW i \in Job \ {j} PROVE StateOf(i)' = StateOf(i)
  <2>1. i = <<i[1], i[2]>> /\ i[1] \in Poster /\ i[2] \in 1..Posts
    BY DEF Job
  <2>2. poster'[i[1]].posted >= i[2] <=> poster[i[1]].posted >= i[2]
    <3>1. CASE i[1] = p
      <4>1. i[2] # poster[p].posted + 1
        BY <1>2, <2>1, <3>1
      <4> QED
        BY <1>1, <2>1, <3>1, <4>1
    <3>2. CASE i[1] # p
      BY <1>1, <2>1, <3>2
    <3> QED
      BY <3>1, <3>2
  <2>3. Hands(i)' = Hands(i)
    BY DEF Hands
  <2> QED
    BY <1>3, <2>2, <2>3 DEF StateOf
<1>9. Phase = "open" /\ UNCHANGED Phase
  BY DEF Phase
<1> QED
  BY <1>6, <1>7, <1>8, <1>9, StateMoves DEF Service!Submit

(* Every job run has a worker of its own. *)
LEMMA HeldCount ==
  ASSUME IInv, NEW w \in Thread, worker[w].job = {}
  PROVE  IsFiniteSet(Held) /\ Cardinality(Held) < NrThreads
<1> DEFINE f == [j \in Held |-> CHOOSE x \in Thread : j \in worker[x].job]
<1>1. ASSUME NEW j \in Held
      PROVE  f[j] \in Thread \ {w} /\ worker[f[j]].job = {j}
  <2>1. f[j] \in Thread /\ j \in worker[f[j]].job
    BY DEF Held
  <2> QED
    BY <2>1 DEF IInv, HandState
<1> HIDE DEF f
<1>2. f \in [Held -> Thread \ {w}]
  <2>1. f = [j \in Held |-> f[j]]
    BY DEF f
  <2> QED
    BY <1>1, <2>1
<1>3. \A i, j \in Held : f[i] = f[j] => i = j
  BY <1>1
<1>4. f \in Injection(Held, Thread \ {w})
  BY <1>2, <1>3 DEF Injection, IsInjective
<1>5. IsFiniteSet(Thread) /\ Cardinality(Thread) = NrThreads
  BY TaskAssumption, FS_Interval DEF Thread
<1>6. IsFiniteSet(Thread \ {w}) /\ Cardinality(Thread \ {w}) = NrThreads - 1
  BY <1>5, FS_RemoveElement
<1>7. IsFiniteSet(Held) /\ Cardinality(Held) <= NrThreads - 1
  BY <1>4, <1>6, FS_Injection
<1> QED
  BY <1>7, FS_CardinalityType, TaskAssumption

(* TaskService has its own instance of Cardinality. *)
LEMMA SameCardinality == \A S : Service!Cardinality(S) = Cardinality(S)
  BY DEF Service!Cardinality, Cardinality

LEMMA InRunning == IInv => Service!In("running") = Held
<1> SUFFICES ASSUME IInv PROVE Service!In("running") = Held
  OBVIOUS
<1>1. \A j \in Job : StateOf(j) = "running" <=> j \in Held
  BY StateValues
<1>2. Held \subseteq Job
  BY QueueTypes DEF IInv
<1> QED
  BY <1>1, <1>2 DEF Service!In

LEMMA TakeFromRefines ==
  ASSUME IInv, NEW w \in Thread, NEW q \in Thread,
         worker[w].at \in {"try", "pop"}, TakeFrom(w, q)
  PROVE  \E j \in Job : Service!Start(j)
<1>1. PICK j \in Queued :
        /\ worker[w].job = {} /\ worker'[w].job = {j}
        /\ \A x \in Thread \ {w} : worker'[x] = worker[x]
  BY TakeFromInv
<1>2. j \in Job /\ StateOf(j) = "submitted"
  BY QueuedSubmitted
<1>3. UNCHANGED <<ran, poster, opc>>
  BY DEF TakeFrom
<1>4. StateOf(j)' = "running"
  BY <1>1 DEF StateOf, Hands
<1>5. ASSUME NEW i \in Job \ {j} PROVE StateOf(i)' = StateOf(i)
  <2>1. Hands(i)' = Hands(i)
    BY <1>1 DEF Hands
  <2> QED
    BY <1>3, <2>1 DEF StateOf
<1>6. Phase # "closed" /\ UNCHANGED Phase
  <2>1. opc # "gone"
    BY DEF IInv, ClosedInOrder
  <2> QED
    BY <1>3, <2>1 DEF Phase
<1>7. Service!Cardinality(Service!In("running")) < NrThreads
  BY <1>1, HeldCount, InRunning, SameCardinality
<1> QED
  BY <1>2, <1>4, <1>5, <1>6, <1>7, StateMoves DEF Service!Start

LEMMA RunJobRefines ==
  ASSUME IInv, NEW w \in Thread, RunJob(w)
  PROVE  \E j \in Job : Service!Finish(j)
<1>1. PICK j \in Job :
        /\ worker[w].job = {j} /\ worker'[w].job = {}
        /\ ran[j] = 0 /\ ran' = [ran EXCEPT ![j] = 1]
        /\ \A x \in Thread \ {w} : worker'[x] = worker[x]
  BY RunJobInv
<1>2. StateOf(j) = "running"
  BY <1>1, StateValues DEF Held
<1>3. ran'[j] = 1 /\ \A i \in Job \ {j} : ran'[i] = ran[i]
  BY <1>1 DEF IInv, TypeOK
<1>4. UNCHANGED <<poster, opc>>
  BY DEF RunJob
<1>5. StateOf(j)' = "done"
  <2>1. \A x \in Thread \ {w} : j \notin worker[x].job
    BY <1>1 DEF IInv, OnePlace
  <2>2. Hands(j)' = {}
    BY <1>1, <2>1 DEF Hands
  <2> QED
    BY <1>3, <2>2 DEF StateOf
<1>6. ASSUME NEW i \in Job \ {j} PROVE StateOf(i)' = StateOf(i)
  <2>1. Hands(i)' = Hands(i)
    BY <1>1 DEF Hands
  <2> QED
    BY <1>3, <1>4, <2>1 DEF StateOf
<1>7. Phase # "closed" /\ UNCHANGED Phase
  <2>1. opc # "gone"
    BY DEF RunJob, IInv, ClosedInOrder
  <2> QED
    BY <1>4, <2>1 DEF Phase
<1> QED
  BY <1>2, <1>5, <1>6, <1>7, StateMoves DEF Service!Finish

(* When the threads are joined no job is left. *)
LEMMA JoinRefines ==
  ASSUME IInv, Join
  PROVE  Service!Closed
<1> USE DEF Join, OwnerGoes
<1>1. Phase = "closing" /\ Phase' = "closed"
  BY DEF Phase
<1>2. UNCHANGED stateBar
  BY StateStays
<1>3. Held = {}
  BY DEF IInv, HandState, Held
<1>4. ASSUME NEW j \in Job PROVE StateOf(j) # "submitted"
  <2> SUFFICES ASSUME StateOf(j) = "submitted" PROVE FALSE
    OBVIOUS
  <2>1. /\ j \notin Held /\ ran[j] = 0 /\ poster[j[1]].posted >= j[2]
        /\ j[1] \in Poster /\ j[2] \in 1..Posts
    BY StateValues DEF IInv, NoneLost, Job
  <2>2. poster[j[1]].at = "idle" /\ poster[j[1]].posted \in Nat
    BY <2>1 DEF IInv, CallersKnow, TypeOK, PosterRecord
  <2>3. j \in Pushed
    BY <2>1, <2>2 DEF Pushed
  <2>4. PICK q \in Thread : j \in Range(m_jobQueue[q])
    BY <2>1, <2>3 DEF IInv, NoneLost, Queued
  <2>5. worker[q].at # "none"
    BY <2>1, <2>2 DEF IInv, CallersKnow
  <2>6. m_jobQueue[q] = <<>>
    BY <2>5 DEF IInv, ClosedInOrder
  <2> QED
    BY <2>4, <2>6, EmptyRange
<1>5. \A j \in Job : StateOf(j) # "running"
  BY <1>3, StateValues
<1>6. Service!In("submitted") \cup Service!In("running") = {}
  BY <1>4, <1>5 DEF Service!In
<1> QED
  BY <1>1, <1>2, <1>6 DEF Service!Closed, stateBar

(* The other steps are not seen, or close the class. *)
LEMMA OtherRefines ==
  ASSUME IInv,
         \/ \E p \in Poster : AsyncStep(p)
         \/ \E w \in Thread : TryPopFails(w) \/ PopWaits(w) \/ PopFails(w)
                              \/ WakeSpuriously(w)
         \/ StartDestructor \/ StartThread \/ StartThreadFails
         \/ (\E q \in Thread : SetDone(q)) \/ NotifyAll
         \/ UNCHANGED vars
  PROVE  UNCHANGED stateBar /\ (UNCHANGED Phase \/ Service!Close)
<1>1. ASSUME NEW p \in Poster, AsyncStep(p)
      PROVE  UNCHANGED stateBar /\ UNCHANGED Phase
  <2>1. UNCHANGED <<ran, opc>>
    BY <1>1 DEF AsyncStep, TryPush, TryPushFails, TryPushFailsOf, Push, Notify,
                EmplaceBack
  <2>2. \A x \in Poster : poster'[x].posted = poster[x].posted
    <3>1. CASE TryPushFails(p)
      BY <3>1 DEF TryPushFails, TryPushFailsOf, IInv, TypeOK, PosterRecord
    <3>2. CASE EmplaceBack(p, "notify")
      BY <3>2 DEF EmplaceBack, IInv, TypeOK, PosterRecord
    <3>3. CASE Notify(p)
      BY <3>3 DEF Notify, IInv, TypeOK, PosterRecord
    <3> QED
      BY <1>1, <3>1, <3>2, <3>3 DEF AsyncStep, TryPush, Push
  <2>3. \A w \in Thread : worker'[w].job = worker[w].job
    <3>1. CASE Notify(p)
      BY <3>1, QueueIndex, WokenUpWorkers DEF Notify, IInv
    <3>2. CASE ~Notify(p)
      BY <1>1, <3>2 DEF AsyncStep, TryPush, TryPushFails, TryPushFailsOf, Push,
                        EmplaceBack
    <3> QED
      BY <3>1, <3>2
  <2> QED
    BY <2>1, <2>2, <2>3, StateStays DEF Phase
<1>2. ASSUME NEW w \in Thread,
             TryPopFails(w) \/ PopWaits(w) \/ PopFails(w) \/ WakeSpuriously(w)
      PROVE  UNCHANGED stateBar /\ UNCHANGED Phase
  <2>1. UNCHANGED <<ran, poster, opc>>
    BY <1>2 DEF TryPopFails, PopWaits, PopFails, WakeSpuriously, GoesTo, Goes
  <2>2. \A x \in Thread : worker'[x].job = worker[x].job
    <3>1. /\ worker \in [Thread -> WorkerRecord]
          /\ \A to : worker' = [worker EXCEPT ![w] = to] /\ to.job = worker[w].job
                     => \A x \in Thread : worker'[x].job = worker[x].job
      BY DEF IInv, TypeOK
    <3>2. PICK to : worker' = [worker EXCEPT ![w] = to] /\ to.job = worker[w].job
      <4>1. CASE TryPopFails(w)
        BY <3>1, <4>1 DEF TryPopFails, Goes, WorkerRecord
      <4>2. CASE PopWaits(w) \/ PopFails(w) \/ WakeSpuriously(w)
        BY <3>1, <4>2 DEF PopWaits, PopFails, WakeSpuriously, GoesTo, Goes,
                          WorkerRecord
      <4> QED
        BY <1>2, <4>1, <4>2
    <3> QED
      BY <3>1, <3>2
  <2> QED
    BY <2>1, <2>2, StateStays DEF Phase
<1>3. CASE StartDestructor \/ StartThreadFails
  <2>1. UNCHANGED stateBar
    BY <1>3, StateStays DEF StartDestructor, StartThreadFails, OwnerGoes
  <2>2. Phase = "open" /\ Phase' = "closing"
    BY <1>3 DEF StartDestructor, StartThreadFails, OwnerGoes, Phase
  <2> QED
    BY <2>1, <2>2 DEF Service!Close, stateBar
<1>4. CASE StartThread
  <2>1. \A x \in Thread : worker'[x].job = worker[x].job
    BY <1>4 DEF StartThread, IInv, TypeOK, WorkerRecord
  <2> QED
    BY <1>4, <2>1, StateStays DEF StartThread, OwnerGoes, Phase
<1>5. CASE \E q \in Thread : SetDone(q)
  BY <1>5, StateStays DEF SetDone, Phase
<1>6. CASE NotifyAll
  <2>1. \A x \in Thread : worker'[x].job = worker[x].job
    BY <1>6, WokenUpWorkers DEF NotifyAll, IInv, TypeOK
  <2> QED
    BY <1>6, <2>1, StateStays DEF NotifyAll, OwnerGoes, AfterNotifyAll, Phase
<1>7. CASE UNCHANGED vars
  BY <1>7, StateStays DEF vars, Phase
<1> QED
  BY <1>1, <1>2, <1>3, <1>4, <1>5, <1>6, <1>7

LEMMA ServiceInit == Init => Service!Init
<1> SUFFICES ASSUME Init PROVE Service!Init
  OBVIOUS
<1>1. \A j \in Job : StateOf(j) = "new"
  BY DEF Init, StateOf, Hands, Job
<1>2. Phase = "open"
  BY DEF Init, Phase
<1> QED
  BY <1>1, <1>2 DEF Service!Init

LEMMA ServiceStep ==
  IInv /\ IInv' /\ [Next]_vars => [Service!Next]_(Service!vars)
<1> SUFFICES ASSUME IInv, IInv', [Next]_vars
             PROVE  [Service!Next]_(Service!vars)
  OBVIOUS
<1>1. CASE \E p \in Poster : Async(p)
  BY <1>1, AsyncRefines DEF Service!Next
<1>2. ASSUME NEW w \in Thread, TryPop(w) \/ Pop(w)
      PROVE  Service!Next
  <2>1. PICK q \in Thread : worker[w].at \in {"try", "pop"} /\ TakeFrom(w, q)
    BY <1>2, QueueIndex DEF TryPop, Pop, IInv
  <2> QED
    BY <2>1, TakeFromRefines DEF Service!Next
<1>3. CASE \E w \in Thread : RunJob(w)
  BY <1>3, RunJobRefines DEF Service!Next
<1>4. CASE Join
  BY <1>4, JoinRefines DEF Service!Next
<1>5. CASE \/ \E p \in Poster : AsyncStep(p)
           \/ \E w \in Thread : TryPopFails(w) \/ PopWaits(w) \/ PopFails(w)
                                \/ WakeSpuriously(w)
           \/ StartDestructor \/ StartThread \/ StartThreadFails
           \/ (\E q \in Thread : SetDone(q)) \/ NotifyAll
           \/ UNCHANGED vars
  <2>1. UNCHANGED stateBar /\ (UNCHANGED Phase \/ Service!Close)
    BY <1>5, OtherRefines
  <2> QED
    BY <2>1 DEF Service!Next, Service!vars, stateBar
<1> QED
  BY <1>1, <1>2, <1>3, <1>4, <1>5
     DEF Next, WorkerSearch, OwnerStep, OwnerCloses, Terminated

(***************************************************************************)
(* The work-stealing class is a plain task service, for any number of      *)
(* queues, posters and jobs: every job is started once and finished, at    *)
(* most NrThreads at once, and the destructor returns when none is left.   *)
(***************************************************************************)
THEOREM ServiceRefinement == Spec => ImplementsService
<1>1. IInv /\ [Next]_vars => IInv'
  BY NextInv
<1> QED
  BY <1>1, ServiceInit, ServiceStep, Invariance, PTL
     DEF Spec, ImplementsService, Service!Spec
=============================================================================
