----------------------------- MODULE MainProofs -----------------------------
(***************************************************************************)
(* Proofs about Main and Driver, for any list, options and prefix: when    *)
(* the program exits with 0 every URL's task has run, nobody is left to    *)
(* log, debug messages are those asked for, and when the prefix leaves     *)
(* room for the numbers every result has a file of its own.  What the task *)
(* system does is taken from TaskSystemProofs: the driver's steps are its  *)
(* steps.                                                                  *)
(***************************************************************************)
EXTENDS Main, TaskSystemProofs

-----------------------------------------------------------------------------
(* The inductive invariant of the driver *)

(* What the task system is doing while driverLoadLogic is at each place. *)
OwnerInStep ==
  /\ dpc = "readUrls" => opc = "construct" /\ \A w \in Thread : worker[w].at = "none"
  /\ dpc \in {"keepCrawling", "crawl", "return"} => opc = "use"
  /\ dpc = "end" => \/ opc = "gone"
                    \/ thrown /\ \A w \in Thread : worker[w].at = "none"
  /\ processorAlive => dpc \in {"keepCrawling", "crawl", "return"}

(* One crawl posts the valid URLs, before driverLoadLogic goes on. *)
CrawledOnce ==
  \A io \in Poster :
    /\ poster[io].posted <= nrValid
    /\ ~m_hasCrawled => nrValid = 0 /\ dpc # "crawl"
    /\ m_hasCrawled /\ dpc # "crawl" =>
         poster[io].posted = nrValid /\ poster[io].at = "idle"
    /\ dpc \in {"readUrls", "taskSystem"} => ~m_hasCrawled
    /\ dpc \in {"return", "destroyTaskSystem", "end"} => thrown \/ m_hasCrawled

(* How many jobs of a poster have been pushed, and taken. *)
NrPushed(io) ==
  poster[io].posted - IF poster[io].at \in {"tryPush", "push"} THEN 1 ELSE 0
NrTaken(w, done) == done + IF worker[w].at = "run" THEN 1 ELSE 0

(* The one worker runs the one poster's jobs in the order they came in: so *)
(* many are done, the next may be in its hands, the others are queued.     *)
InOrder(io, w, done) ==
  /\ \A n \in 1..Posts : ran[<<io, n>>] = IF n <= done THEN 1 ELSE 0
  /\ worker[w].at = "run" => worker[w].job = {<<io, done + 1>>}
  /\ NrPushed(io) = NrTaken(w, done) + Len(m_jobQueue[w])
  /\ \A i \in DOMAIN m_jobQueue[w] : m_jobQueue[w][i] = <<io, NrTaken(w, done) + i>>
  /\ m_seq <= done
  /\ processorAlive => m_seq = done

RunInOrder ==
  \A io \in Poster, w \in Thread : \E done \in 0..Posts : InOrder(io, w, done)

(* The prefix leaves room for the digits of all the numbers. *)
RoomForNumbers ==
  nrUrls > 0 => PrefixLength + MaxNumberOfDigits <= MaxFilenameLength

(* Every file has the number of its result, if there is room for it. *)
FilesNumbered ==
  /\ m_seq = 0 => DOMAIN files = {}
  /\ unsaved <= m_seq
  /\ RoomForNumbers =>
       /\ DOMAIN files \subseteq 0 .. m_seq - 1
       /\ IsFiniteSet(DOMAIN files)
       /\ SeparateFiles
       /\ NumberedInOrder

DriverInv ==
  /\ IInv
  /\ DriverTypeOK
  /\ nrUrls <= MaxUrls + 1
  /\ OwnerInStep
  /\ CrawledOnce
  /\ RunInOrder
  /\ FilesNumbered

-----------------------------------------------------------------------------
(* The inductive invariant of the program *)

(* The driver has not begun, or has ended, while main is elsewhere. *)
DriverInside ==
  /\ mainAt \in {"readOptions", "debug", "logOutput", "openOutput", "urlOptions"} =>
       dpc = "readUrls"
  /\ mainAt \in {"caught", "exited"} => dpc \in {"readUrls", "end"}

(* The other threads are in a log call only where they could begin one. *)
LogsWithin ==
  /\ ~Quiet("io") => dpc \in {"keepCrawling", "crawl", "return"}
  /\ ~Quiet("worker") => TaskThrew

(* The debug messages that are shown are those asked for. *)
EnabledAsked ==
  m_enabled = {c \in Component : Registered[c] \in asked \/ "" \in asked}

(* Main returns once, and 0 only when it did nothing or all of it. *)
ExitKnown ==
  /\ exitCode \in {{}, {0}, {1}}
  /\ exitCode # {} => mainAt = "exited"
  /\ exitCode = {0} => nrValid = 0 \/ (dpc = "end" /\ ~thrown)

MainInv ==
  /\ DriverInv
  /\ MainTypeOK
  /\ DriverInside
  /\ LogsWithin
  /\ EnabledAsked
  /\ ExitKnown

-----------------------------------------------------------------------------
(* Lemmas *)

(* There is one worker. *)
LEMMA OneWorker == Thread = {0}
  BY DriverAssumption DEF Thread

(* What the driver does to the task system, the task system may do. *)
LEMMA StepOfTaskSystem == [DriverNext]_dvars => [Next]_vars
<1> SUFFICES ASSUME [DriverNext]_dvars PROVE [Next]_vars
  OBVIOUS
<1>1. CASE MainStep
  <2> USE <1>1 DEF Next, OwnerStep
  <2>1. CASE BuildTaskSystem \/ DestroyTaskSystem
    BY <2>1 DEF BuildTaskSystem, DestroyTaskSystem
  <2>2. CASE ~(BuildTaskSystem \/ DestroyTaskSystem)
    BY <2>2 DEF MainStep, ReadUrls, ReadUrlsFails, TaskSystemFails, BuildCrawler,
                KeepCrawling, EndOfRound, DestroyProcessor, Return
  <2> QED
    BY <2>1, <2>2
<1>2. ASSUME NEW io \in Poster, IoStep(io) PROVE [Next]_vars
  BY <1>2 DEF IoStep, Callback, Next
<1>3. ASSUME NEW w \in Thread, WorkerStep(w) PROVE [Next]_vars
  BY <1>3 DEF WorkerStep, WriteResult, SaveResult, UseDestroyed, Next
<1>4. CASE DriverEnded \/ UNCHANGED dvars
  BY <1>4 DEF DriverEnded, dvars
<1> QED
  BY <1>1, <1>2, <1>3, <1>4 DEF DriverNext

(* The end of a name leaves some of the number's digits, and all of them   *)
(* when there is room.                                                     *)
LEMMA FileNames ==
  ASSUME nrUrls \in 1 .. MaxUrls + 1, NEW seq \in Nat
  PROVE  /\ FileName(seq) \in 0..seq
         /\ RoomForNumbers => FileName(seq) = seq
<1> DEFINE m == MaxNumberOfDigits
           kept == CHOOSE d \in KeptDigits : \A k \in KeptDigits : k <= d
<1>1. /\ MaxUrls \in Nat /\ PrefixLength \in Nat /\ MaxFilenameLength \in Nat
  BY DriverAssumption, TaskAssumption
<1>2. m \in 1..nrUrls
  BY PowerAssumption DEF MaxNumberOfDigits
<1>3. KeptDigits = {d \in 0..m : d = 0 \/ PrefixLength + d <= MaxFilenameLength}
  BY DEF KeptDigits
<1> HIDE DEF m
<1>4. m \in Nat /\ m <= MaxUrls + 1 /\ 0 \in KeptDigits
  BY <1>1, <1>2, <1>3
<1>5. \E d \in KeptDigits : \A k \in KeptDigits : k <= d
  <2>1. CASE PrefixLength + m <= MaxFilenameLength
    BY <1>3, <1>4, <2>1
  <2>2. CASE ~(PrefixLength + m <= MaxFilenameLength)
           /\ MaxFilenameLength - PrefixLength >= 0
    <3>1. MaxFilenameLength - PrefixLength \in KeptDigits
      BY <1>1, <1>3, <1>4, <2>2
    <3>2. ASSUME NEW k \in KeptDigits PROVE k <= MaxFilenameLength - PrefixLength
      BY <1>1, <1>3, <1>4, <2>2
    <3> QED
      BY <3>1, <3>2
  <2>3. CASE MaxFilenameLength - PrefixLength < 0
    BY <1>1, <1>3, <1>4, <2>3
  <2> QED
    BY <1>1, <2>1, <2>2, <2>3
<1>6. kept \in KeptDigits /\ \A k \in KeptDigits : k <= kept
  BY <1>5
<1>7. FileName(seq) = seq \div Radix^(m - kept)
  BY DEF FileName, m
<1> HIDE DEF kept
<1>8. kept \in 0..m /\ m - kept \in 0 .. MaxUrls + 1
  BY <1>1, <1>3, <1>4, <1>6
<1>9. Radix^(m - kept) \in Nat \ {0}
  BY <1>8, PowerAssumption, <1>1
<1>10. FileName(seq) \in 0..seq
  <2>1. PICK n \in Nat \ {0} : n = Radix^(m - kept)
    BY <1>9
  <2> QED
    BY <1>7, <2>1
<1>11. ASSUME RoomForNumbers PROVE FileName(seq) = seq
  <2>1. PrefixLength + m <= MaxFilenameLength
    BY <1>1, <1>11 DEF RoomForNumbers, m
  <2>2. m \in KeptDigits
    BY <1>3, <1>4, <2>1
  <2>3. m - kept = 0
    BY <1>4, <1>6, <1>8, <2>2
  <2> QED
    BY <1>7, <2>3, PowerAssumption
<1> QED
  BY <1>10, <1>11

(* The order of the jobs is that of the queue, the hands and the history.  *)
LEMMA InOrderStays ==
  ASSUME RunInOrder, m_jobQueue' = m_jobQueue, ran' = ran, m_seq' = m_seq,
         processorAlive' => processorAlive,
         \A w \in Thread : /\ worker'[w].at = "run" <=> worker[w].at = "run"
                          /\ worker'[w].job = worker[w].job,
         \A io \in Poster : NrPushed(io)' = NrPushed(io)
  PROVE  RunInOrder'
<1> SUFFICES ASSUME NEW io \in Poster, NEW w \in Thread
             PROVE  (\E done \in 0..Posts : InOrder(io, w, done))'
  BY DEF RunInOrder
<1>1. PICK done \in 0..Posts : InOrder(io, w, done)
  BY DEF RunInOrder
<1>2. NrTaken(w, done)' = NrTaken(w, done)
  BY DEF NrTaken
<1>3. InOrder(io, w, done)'
  BY <1>1, <1>2 DEF InOrder
<1> QED
  BY <1>3

(* The names are those of the results so far. *)
LEMMA FilesStay ==
  ASSUME FilesNumbered, nrUrls' = nrUrls, files' = files, m_seq' = m_seq,
         unsaved' = unsaved
  PROVE  FilesNumbered'
<1>1. RoomForNumbers' <=> RoomForNumbers
  BY DEF RoomForNumbers, MaxNumberOfDigits
<1> QED
  BY <1>1 DEF FilesNumbered, SeparateFiles, NumberedInOrder

-----------------------------------------------------------------------------
(* DriverInv is inductive: the main thread *)

(* The part of DriverInv that is the driver's own. *)
DriverOwn ==
  /\ DriverTypeOK
  /\ nrUrls <= MaxUrls + 1
  /\ OwnerInStep
  /\ CrawledOnce
  /\ RunInOrder
  /\ FilesNumbered

(* The values that the cases below do arithmetic with. *)
LEMMA DriverValues ==
  ASSUME DriverInv
  PROVE  /\ nrUrls \in Nat /\ nrValid \in Nat /\ m_seq \in Nat /\ unsaved \in Nat
         /\ Posts \in Nat /\ MaxUrls \in Nat /\ MaxUrls + 1 <= Posts
         /\ \A io \in Poster : /\ poster[io].posted \in 0..Posts
                              /\ NrPushed(io) \in Nat
                              /\ NrPushed(io) <= poster[io].posted
                              /\ poster[io].at \in {"idle", "tryPush", "push", "notify"}
         /\ \A w \in Thread : m_jobQueue[w] \in Seq(Job)
<1>1. /\ nrUrls \in Nat /\ nrValid \in Nat /\ m_seq \in Nat /\ unsaved \in Nat
  BY TaskAssumption DEF DriverInv, DriverTypeOK
<1>2. /\ Posts \in Nat /\ MaxUrls \in Nat /\ MaxUrls + 1 <= Posts
  BY TaskAssumption, DriverAssumption
<1>3. ASSUME NEW io \in Poster
      PROVE  /\ poster[io].posted \in 0..Posts
             /\ NrPushed(io) \in Nat
             /\ NrPushed(io) <= poster[io].posted
             /\ poster[io].at \in {"idle", "tryPush", "push", "notify"}
  <2>1. /\ poster[io].posted \in 0..Posts
        /\ poster[io].at \in {"idle", "tryPush", "push", "notify"}
        /\ poster[io].at # "idle" => poster[io].posted # 0
    BY DEF DriverInv, IInv, TypeOK, PosterRecord, PosterState
  <2> QED
    BY <1>2, <2>1 DEF NrPushed
<1>4. \A w \in Thread : m_jobQueue[w] \in Seq(Job)
  BY DEF DriverInv, IInv, TypeOK
<1> QED
  BY <1>1, <1>2, <1>3, <1>4

(* Nothing has been read, posted or written yet.                           *)
LEMMA DriverInitInv == DriverInit => DriverInv
<1> SUFFICES ASSUME DriverInit PROVE DriverInv
  OBVIOUS
<1> USE DEF DriverInit
<1>1. IInv
  BY InitInv
<1>2. DriverTypeOK /\ nrUrls <= MaxUrls + 1
  <2>1. DOMAIN files \subseteq 0..Posts
    OBVIOUS
  <2>2. nrUrls \in 0..Posts /\ nrValid \in 0..nrUrls /\ nrUrls <= MaxUrls + 1
    BY TaskAssumption, DriverAssumption
  <2>3. m_seq \in 0..nrValid /\ unsaved \in 0..nrValid
    OBVIOUS
  <2>4. dpc = "readUrls" /\ thrown = FALSE /\ m_hasCrawled = FALSE
        /\ processorAlive = FALSE
    OBVIOUS
  <2>5. files \in [DOMAIN files -> {{j} : j \in Job}]
    OBVIOUS
  <2> QED
    BY <2>1, <2>2, <2>3, <2>4, <2>5 DEF DriverTypeOK
<1>3. OwnerInStep /\ CrawledOnce
  BY DEF Init, OwnerInStep, CrawledOnce
<1>4. RunInOrder
  <2>1. ASSUME NEW io \in Poster, NEW w \in Thread PROVE InOrder(io, w, 0)
    BY DriverAssumption DEF Init, InOrder, NrPushed, NrTaken, Job
  <2> QED
    BY <2>1, TaskAssumption DEF RunInOrder
<1>5. FilesNumbered
  <2>1. DOMAIN files = {}
    OBVIOUS
  <2> QED
    BY <2>1, FS_EmptySet DEF FilesNumbered, SeparateFiles, NumberedInOrder
<1> QED
  BY <1>1, <1>2, <1>3, <1>4, <1>5 DEF DriverInv

(* While dpc goes on, the jobs and the files stay as they are. *)
LEMMA MainThreadStays ==
  ASSUME DriverInv, UNCHANGED <<vars, nrUrls, m_seq, files, unsaved>>,
         processorAlive' => processorAlive
  PROVE  RunInOrder' /\ FilesNumbered'
<1>1. \A io \in Poster : NrPushed(io)' = NrPushed(io)
  BY DEF NrPushed, vars
<1>2. \A w \in Thread : /\ worker'[w].at = "run" <=> worker[w].at = "run"
                       /\ worker'[w].job = worker[w].job
  BY DEF vars
<1>3. m_jobQueue' = m_jobQueue /\ ran' = ran
  BY DEF vars
<1> QED
  BY <1>1, <1>2, <1>3, InOrderStays, FilesStay DEF DriverInv

(* At most maxUrls lines of the list, and the URL.                         *)
LEMMA ReadUrlsInv ==
  ASSUME DriverInv, ReadUrls
  PROVE  DriverOwn'
<1> USE DEF ReadUrls, processor
<1>1. PICK lines \in 0 .. MaxUrls + 1, url \in 0..1 :
        nrUrls' = (IF lines < MaxUrls THEN lines ELSE MaxUrls) + url
  OBVIOUS
<1>2. /\ dpc = "readUrls" /\ nrValid = 0 /\ ~m_hasCrawled /\ m_seq = 0 /\ unsaved = 0
      /\ DOMAIN files = {}
  <2>1. PICK io \in Poster : TRUE
    BY DriverAssumption
  <2>2. nrValid = 0 /\ ~m_hasCrawled
    BY <2>1 DEF DriverInv, CrawledOnce
  <2>3. m_seq = 0
    BY <2>2 DEF DriverInv, DriverTypeOK
  <2>4. unsaved = 0
    BY <2>3, DriverValues DEF DriverInv, FilesNumbered
  <2> QED
    BY <2>2, <2>3, <2>4 DEF DriverInv, FilesNumbered
<1>3. DriverTypeOK' /\ nrUrls' <= MaxUrls + 1
  <2>1. nrUrls' \in 0..Posts /\ nrUrls' <= MaxUrls + 1 /\ nrUrls' \in Nat
    BY <1>1, DriverValues
  <2> QED
    BY <1>2, <2>1 DEF DriverTypeOK, DriverInv
<1>4. OwnerInStep' /\ CrawledOnce'
  BY <1>2 DEF DriverInv, OwnerInStep, CrawledOnce, vars
<1>5. RunInOrder'
  <2>1. \A io \in Poster : NrPushed(io)' = NrPushed(io)
    BY DEF NrPushed, vars
  <2> QED
    BY <2>1, InOrderStays DEF DriverInv, vars
<1>6. FilesNumbered'
  <2>1. DOMAIN files' = {} /\ m_seq' = 0 /\ unsaved' = 0
    BY <1>2
  <2> QED
    BY <2>1, FS_EmptySet DEF FilesNumbered, SeparateFiles, NumberedInOrder
<1> QED
  BY <1>3, <1>4, <1>5, <1>6 DEF DriverOwn

(* The constructors, the end of the round, and the way out. *)
LEMMA MainGoesInv ==
  ASSUME DriverInv,
         \/ ReadUrlsFails \/ TaskSystemFails \/ KeepCrawling
         \/ EndOfRound \/ DestroyProcessor \/ Return
  PROVE  DriverOwn'
<1> USE DEF ReadUrlsFails, TaskSystemFails, KeepCrawling, EndOfRound,
            DestroyProcessor, Return, MainGoes, lists, processor
<1>1. /\ UNCHANGED <<vars, nrUrls, m_seq, files, unsaved>>
      /\ processorAlive' => processorAlive
  OBVIOUS
<1>2. DriverTypeOK' /\ nrUrls' <= MaxUrls + 1
  <2>1. /\ nrValid' \in 0..nrUrls /\ m_seq \in 0..nrValid' /\ unsaved \in 0..nrValid'
    <3>1. CASE nrValid' = nrValid
      BY <3>1 DEF DriverInv, DriverTypeOK
    <3>2. CASE KeepCrawling /\ ~m_hasCrawled
      <4>1. PICK io \in Poster : TRUE
        BY DriverAssumption
      <4>2. nrValid = 0
        BY <3>2, <4>1 DEF DriverInv, CrawledOnce
      <4>3. m_seq = 0 /\ unsaved = 0
        BY <4>2 DEF DriverInv, DriverTypeOK
      <4> QED
        BY <3>2, <4>3, DriverValues
    <3> QED
      BY <3>1, <3>2
  <2>2. m_hasCrawled' \in BOOLEAN /\ thrown' \in BOOLEAN /\ processorAlive' \in BOOLEAN
    BY DEF DriverInv, DriverTypeOK
  <2>3. dpc' \in {"readUrls", "taskSystem", "keepCrawling", "crawl", "return",
                 "destroyTaskSystem", "end"}
    OBVIOUS
  <2> QED
    BY <1>1, <2>1, <2>2, <2>3 DEF DriverInv, DriverTypeOK
<1>3. OwnerInStep'
  BY <1>1 DEF DriverInv, OwnerInStep, vars
<1>4. CrawledOnce'
  <2> SUFFICES ASSUME NEW io \in Poster
      PROVE  /\ poster[io].posted <= nrValid'
             /\ ~m_hasCrawled' => nrValid' = 0 /\ dpc' # "crawl"
             /\ m_hasCrawled' /\ dpc' # "crawl" =>
                  poster[io].posted = nrValid' /\ poster[io].at = "idle"
             /\ dpc' \in {"readUrls", "taskSystem"} => ~m_hasCrawled'
             /\ dpc' \in {"return", "destroyTaskSystem", "end"} =>
                  thrown' \/ m_hasCrawled'
    BY <1>1 DEF CrawledOnce, vars
  <2>1. CASE KeepCrawling
    BY <2>1, DriverValues DEF DriverInv, CrawledOnce
  <2>2. CASE ~KeepCrawling
    BY <2>2 DEF DriverInv, CrawledOnce
  <2> QED
    BY <2>1, <2>2
<1> QED
  BY <1>1, <1>2, <1>3, <1>4, MainThreadStays DEF DriverOwn

(* The processor begins to count where the task system begins to run. *)
LEMMA BuildCrawlerInv ==
  ASSUME DriverInv, NEW fails \in BOOLEAN, BuildCrawler(fails)
  PROVE  DriverOwn'
<1> USE DEF BuildCrawler, lists
<1>1. UNCHANGED <<vars, nrUrls, nrValid, m_hasCrawled, m_seq, files, unsaved>>
      /\ dpc = "taskSystem"
  OBVIOUS
<1>2. DriverTypeOK' /\ nrUrls' <= MaxUrls + 1
  BY DEF DriverInv, DriverTypeOK
<1>3. OwnerInStep' /\ CrawledOnce'
  BY DEF DriverInv, OwnerInStep, CrawledOnce, vars
<1>4. RunInOrder'
  <2> SUFFICES ASSUME NEW io \in Poster, NEW w \in Thread
               PROVE  (\E done \in 0..Posts : InOrder(io, w, done))'
    BY DEF RunInOrder
  <2>1. PICK done \in 0..Posts : InOrder(io, w, done)
    BY DEF DriverInv, RunInOrder
  <2>2. NrPushed(io) = 0
    <3>1. poster[io].posted = 0
      BY <1>1, DriverValues DEF DriverInv, CrawledOnce
    <3> QED
      BY <3>1, DriverValues
  <2>3. done = 0 /\ m_seq = done
    <3>1. Len(m_jobQueue[w]) \in Nat /\ m_seq \in Nat /\ m_seq <= done
      BY <2>1, DriverValues DEF InOrder
    <3>2. done \in Nat /\ NrTaken(w, done) \in Nat /\ done <= NrTaken(w, done)
      BY DriverValues DEF NrTaken
    <3>3. 0 = NrTaken(w, done) + Len(m_jobQueue[w])
      BY <2>1, <2>2 DEF InOrder
    <3> QED
      BY <3>1, <3>2, <3>3
  <2>4. InOrder(io, w, done)'
    BY <1>1, <2>1, <2>3 DEF InOrder, NrPushed, NrTaken, vars
  <2> QED
    BY <2>4
<1>5. FilesNumbered'
  BY <1>1, FilesStay DEF DriverInv
<1> QED
  BY <1>2, <1>3, <1>4, <1>5 DEF DriverOwn

(* Its constructor and destructor start and wake the worker, no more.      *)
LEMMA TaskSystemStepInv ==
  ASSUME DriverInv, BuildTaskSystem \/ DestroyTaskSystem
  PROVE  DriverOwn'
<1>1. /\ UNCHANGED driver /\ dpc \in {"taskSystem", "destroyTaskSystem"}
      /\ UNCHANGED <<m_jobQueue, poster, ran>>
  BY DEF BuildTaskSystem, DestroyTaskSystem, StartThread, StartThreadFails,
         StartDestructor, OwnerCloses, SetDone, NotifyAll, Join, OwnerGoes
<1>2. \A w \in Thread : /\ worker'[w].at = "run" <=> worker[w].at = "run"
                       /\ worker'[w].job = worker[w].job
  <2>1. IInv
    BY DEF DriverInv
  <2>2. CASE StartThread
    <3>1. PICK n \in Thread : n = NrStarted
      BY <2>1, <2>2, NextThread DEF StartThread
    <3>2. worker[n].at = "none"
      BY <2>1, <2>2, <3>1, NextThread, OneWorker DEF StartThread
    <3>3. worker' = [worker EXCEPT ![n].at = "try"]
      BY <2>2, <3>1 DEF StartThread
    <3> QED
      BY <2>1, <3>2, <3>3 DEF IInv, TypeOK, WorkerRecord
  <2>3. CASE NotifyAll
    <3>1. closing \in Thread /\ worker' = WokenUp(closing)
      BY <2>1, <2>3 DEF NotifyAll, IInv, TypeOK
    <3> QED
      BY <2>1, <3>1, WokenUpWorkers
  <2>4. CASE UNCHANGED worker
    BY <2>4
  <2> QED
    BY <2>2, <2>3, <2>4
       DEF BuildTaskSystem, DestroyTaskSystem, StartThreadFails, StartDestructor,
           OwnerCloses, SetDone, Join
<1>3. DriverTypeOK' /\ nrUrls' <= MaxUrls + 1
  BY <1>1 DEF DriverInv, DriverTypeOK, driver, lists, processor
<1>4. OwnerInStep' /\ CrawledOnce'
  BY <1>1 DEF DriverInv, OwnerInStep, CrawledOnce, driver, lists, processor
<1>5. RunInOrder'
  <2>1. \A io \in Poster : NrPushed(io)' = NrPushed(io)
    BY <1>1 DEF NrPushed
  <2>2. m_jobQueue' = m_jobQueue /\ ran' = ran /\ m_seq' = m_seq
        /\ processorAlive' = processorAlive
    BY <1>1 DEF driver, processor
  <2> QED
    BY <1>2, <2>1, <2>2, InOrderStays DEF DriverInv
<1>6. FilesNumbered'
  BY <1>1, FilesStay DEF DriverInv, driver, lists, processor
<1> QED
  BY <1>3, <1>4, <1>5, <1>6 DEF DriverOwn

(* Every step of the main thread in driverLoadLogic.                       *)
LEMMA MainStepInv == DriverInv /\ MainStep => DriverOwn'
  BY ReadUrlsInv, MainGoesInv, BuildCrawlerInv, TaskSystemStepInv DEF MainStep

-----------------------------------------------------------------------------
(* DriverInv is inductive: the other threads *)

(* They take steps while the task system is alive, and leave it alive.     *)
LEMMA ThreadsWork ==
  ASSUME DriverInv,
         \/ \E io \in Poster : IoStep(io)
         \/ \E w \in Thread : WorkerStep(w)
  PROVE  /\ dpc \notin {"readUrls", "end"}
         /\ opc' = opc /\ dpc' = dpc /\ thrown' = thrown /\ UNCHANGED lists
         /\ processorAlive' = processorAlive
<1>1. CASE \E io \in Poster : IoStep(io)
  <2>1. PICK io \in Poster : IoStep(io)
    BY <1>1
  <2>2. opc = "use" /\ opc' = opc /\ UNCHANGED driver
    BY <2>1 DEF IoStep, Callback, Async, AsyncStep, TryPush, TryPushFails, TryPushFailsOf,
                Push, EmplaceBack, Notify, DriverInv, IInv, CallersKnow
  <2>3. worker[0].at # "none"
    BY <2>2, OneWorker, DriverAssumption DEF DriverInv, IInv, ThreadsStarted
  <2> QED
    BY <2>2, <2>3, OneWorker DEF DriverInv, OwnerInStep, driver, lists, processor
<1>2. CASE \E w \in Thread : WorkerStep(w)
  <2>1. PICK w \in Thread : WorkerStep(w)
    BY <1>2
  <2>2. worker[w].at \notin {"none", "exited"} /\ opc' = opc
    BY <2>1 DEF WorkerStep, WriteResult, SaveResult, UseDestroyed, WorkerSearch, TryPop,
                TryPopFails, Pop, PopWaits, PopFails, WakeSpuriously, TakeFrom, RunJob,
                GoesTo, Goes
  <2>3. dpc' = dpc /\ thrown' = thrown /\ UNCHANGED lists
        /\ processorAlive' = processorAlive
    BY <2>1 DEF WorkerStep, WriteResult, SaveResult, UseDestroyed, driver, processor
  <2>4. opc # "gone"
    BY <2>2 DEF DriverInv, IInv, ClosedInOrder
  <2> QED
    BY <2>2, <2>3, <2>4 DEF DriverInv, OwnerInStep
<1> QED
  BY <1>1, <1>2

(* A URL's callback calls async_, which puts its job behind the others.    *)
LEMMA IoStepInv ==
  ASSUME DriverInv, NEW io \in Poster, IoStep(io)
  PROVE  DriverOwn'
<1>1. /\ dpc \notin {"readUrls", "end"} /\ opc' = opc /\ UNCHANGED driver
      /\ Poster = {io} /\ IInv
  <2>1. UNCHANGED driver
    BY DEF IoStep, Callback
  <2> QED
    BY <2>1, ThreadsWork, DriverAssumption DEF DriverInv
<1>2. DriverTypeOK' /\ nrUrls' <= MaxUrls + 1
  BY <1>1 DEF DriverInv, DriverTypeOK, driver, lists, processor
<1>3. OwnerInStep'
  BY <1>1 DEF DriverInv, OwnerInStep, driver, processor
<1>4. FilesNumbered'
  BY <1>1, FilesStay DEF DriverInv, driver, lists, processor
<1>5. poster \in [Poster -> PosterRecord]
  BY <1>1 DEF IInv, TypeOK
<1>6. CASE Callback(io)
  <2>1. /\ poster' = [poster EXCEPT ![io] =
                        [at |-> "tryPush", posted |-> poster[io].posted + 1,
                         index |-> m_jobIndex, offset |-> 0]]
        /\ poster[io].at = "idle" /\ poster[io].posted < nrValid /\ dpc = "crawl"
        /\ UNCHANGED <<m_jobQueue, worker, ran>>
    BY <1>6 DEF Callback, Async
  <2>2. poster'[io].posted = poster[io].posted + 1 /\ poster'[io].at = "tryPush"
    BY <1>5, <2>1
  <2>3. CrawledOnce'
    BY <1>1, <2>1, <2>2, DriverValues DEF DriverInv, CrawledOnce, driver, lists
  <2>4. NrPushed(io)' = NrPushed(io)
    BY <2>1, <2>2, DriverValues DEF NrPushed
  <2>5. RunInOrder'
    BY <1>1, <2>1, <2>4, InOrderStays DEF DriverInv, driver, processor
  <2> QED
    BY <1>2, <1>3, <1>4, <2>3, <2>5 DEF DriverOwn
<1>7. CASE AsyncStep(io)
  <2>1. /\ poster[io].at # "idle"
        /\ poster'[io].posted = poster[io].posted
    BY <1>5, <1>7 DEF AsyncStep, TryPush, TryPushFails, TryPushFailsOf, Push, EmplaceBack,
                      Notify, PosterRecord
  <2>2. CrawledOnce'
    BY <1>1, <2>1 DEF DriverInv, CrawledOnce, driver, lists
  <2>3. CASE TryPush(io) \/ Push(io)
    <3>1. /\ poster[io].at \in {"tryPush", "push"} /\ poster'[io].at = "notify"
          /\ m_jobQueue' = [m_jobQueue EXCEPT ![TryQueue(io)] = Append(@, NewJob(io))]
          /\ UNCHANGED <<worker, ran>>
      BY <1>5, <2>3 DEF TryPush, Push, EmplaceBack, PosterRecord
    <3> SUFFICES ASSUME NEW w \in Thread
                 PROVE  (\E done \in 0..Posts : InOrder(io, w, done))'
      BY <1>1, <1>2, <1>3, <1>4, <2>2 DEF DriverOwn, RunInOrder
    <3>2. TryQueue(io) = w
      BY <1>1, QueueIndex, OneWorker DEF IInv
    <3>3. PICK done \in 0..Posts : InOrder(io, w, done)
      BY DEF DriverInv, RunInOrder
    <3>4. /\ m_jobQueue[w] \in Seq(Job)
          /\ m_jobQueue'[w] = Append(m_jobQueue[w], NewJob(io))
      BY <1>1, <3>1, <3>2 DEF IInv, TypeOK
    <3>5. /\ NrTaken(w, done)' = NrTaken(w, done) /\ NrTaken(w, done) \in Nat
          /\ NrPushed(io)' = NrPushed(io) + 1
          /\ poster[io].posted = NrPushed(io) + 1
      BY <2>1, <3>1, DriverValues DEF NrTaken, NrPushed
    <3>6. NewJob(io) = <<io, NrTaken(w, done) + Len(m_jobQueue[w]) + 1>>
      BY <3>3, <3>5 DEF NewJob, InOrder
    <3>7. \A i \in DOMAIN m_jobQueue'[w] :
            m_jobQueue'[w][i] = <<io, NrTaken(w, done) + i>>
      <4> SUFFICES ASSUME NEW i \in DOMAIN m_jobQueue'[w]
                   PROVE  m_jobQueue'[w][i] = <<io, NrTaken(w, done) + i>>
        OBVIOUS
      <4>1. CASE i = Len(m_jobQueue[w]) + 1
        <5>1. m_jobQueue'[w][i] = NewJob(io)
          BY <3>4, <4>1
        <5>2. NrTaken(w, done) + Len(m_jobQueue[w]) + 1 = NrTaken(w, done) + i
          BY <3>4, <3>5, <4>1
        <5> QED
          BY <3>6, <5>1, <5>2
      <4>2. CASE i \in DOMAIN m_jobQueue[w]
        BY <3>3, <3>4, <4>2 DEF InOrder
      <4> QED
        BY <3>4, <4>1, <4>2
    <3>8. NrPushed(io)' = NrTaken(w, done) + Len(m_jobQueue'[w])
      BY <3>3, <3>4, <3>5, DriverValues DEF InOrder
    <3>9. InOrder(io, w, done)'
      BY <1>1, <3>1, <3>3, <3>5, <3>7, <3>8 DEF InOrder, driver, processor
    <3> QED
      BY <3>9
  <2>4. CASE TryPushFails(io) \/ Notify(io)
    <3>1. /\ UNCHANGED <<m_jobQueue, ran>>
          /\ \A w \in Thread : /\ worker'[w].at = "run" <=> worker[w].at = "run"
                              /\ worker'[w].job = worker[w].job
      <4>1. CASE TryPushFails(io)
        BY <4>1 DEF TryPushFails, TryPushFailsOf
      <4>2. CASE Notify(io)
        <5>1. TryQueue(io) \in Thread /\ worker' = WokenUp(TryQueue(io))
          BY <1>1, <4>2, QueueIndex DEF Notify, IInv
        <5> QED
          BY <1>1, <4>2, <5>1, WokenUpWorkers DEF Notify
      <4> QED
        BY <2>4, <4>1, <4>2
    <3>2. NrPushed(io)' = NrPushed(io)
      <4>1. poster[io].at \in {"tryPush", "push"} <=> poster'[io].at \in {"tryPush", "push"}
        BY <1>5, <2>4 DEF TryPushFails, TryPushFailsOf, Notify, PosterRecord
      <4> QED
        BY <2>1, <4>1 DEF NrPushed
    <3>3. RunInOrder'
      BY <1>1, <3>1, <3>2, InOrderStays DEF DriverInv, driver, processor
    <3> QED
      BY <1>2, <1>3, <1>4, <2>2, <3>3 DEF DriverOwn
  <2> QED
    BY <1>7, <2>3, <2>4 DEF AsyncStep
<1> QED
  BY <1>6, <1>7 DEF IoStep

(* The worker takes the first of its queue, and writes results in order.   *)
LEMMA WorkerStepInv ==
  ASSUME DriverInv, NEW w \in Thread, WorkerStep(w)
  PROVE  DriverOwn'
<1>1. /\ dpc \notin {"readUrls", "end"} /\ opc' = opc /\ IInv
      /\ UNCHANGED <<dpc, thrown, nrUrls, nrValid, m_hasCrawled, processorAlive>>
      /\ Thread = {w}
  BY ThreadsWork, OneWorker DEF DriverInv, lists
<1>2. PICK io \in Poster : Poster = {io}
  BY DriverAssumption
<1>3. UNCHANGED poster
  BY DEF WorkerStep, WriteResult, SaveResult, UseDestroyed, WorkerSearch, TryPop,
         TryPopFails, Pop, PopWaits, PopFails, WakeSpuriously, TakeFrom, RunJob, GoesTo,
         Goes
<1>4. OwnerInStep' /\ CrawledOnce'
  BY <1>1, <1>3 DEF DriverInv, OwnerInStep, CrawledOnce
<1>5. NrPushed(io)' = NrPushed(io)
  BY <1>3 DEF NrPushed
<1>6. PICK done \in 0..Posts : InOrder(io, w, done)
  BY DEF DriverInv, RunInOrder
<1>7. /\ m_jobQueue[w] \in Seq(Job) /\ worker \in [Thread -> WorkerRecord]
      /\ m_jobQueue \in [Thread -> Seq(Job)] /\ ran \in [Job -> Nat]
      /\ done \in Nat
  BY <1>1, DriverValues DEF IInv, TypeOK
<1>8. ASSUME RunJob(w), m_seq' = m_seq + (IF processorAlive THEN 1 ELSE 0)
      PROVE  /\ worker[w].job = {<<io, done + 1>>} /\ done + 1 <= nrValid
             /\ InOrder(io, w, done + 1)' /\ done + 1 \in 0..Posts
  <2>1. /\ worker[w].at = "run" /\ worker[w].job = {<<io, done + 1>>}
        /\ worker'[w].at = "try" /\ UNCHANGED m_jobQueue
        /\ ran' = [j \in Job |-> IF j \in worker[w].job THEN ran[j] + 1 ELSE ran[j]]
    BY <1>6, <1>7, <1>8 DEF RunJob, InOrder
  <2>2. NrTaken(w, done) = done + 1 /\ NrTaken(w, done + 1)' = done + 1
    BY <1>7, <2>1 DEF NrTaken
  <2>3. NrPushed(io) = (done + 1) + Len(m_jobQueue[w]) /\ Len(m_jobQueue[w]) \in Nat
    BY <1>6, <1>7, <2>2 DEF InOrder
  <2>4. poster[io].posted <= nrValid
    BY DEF DriverInv, CrawledOnce
  <2>5. done + 1 <= nrValid /\ done + 1 \in 0..Posts
    <3>1. done + 1 <= NrPushed(io)
      BY <1>7, <2>3
    <3>2. NrPushed(io) <= poster[io].posted /\ poster[io].posted \in 0..Posts
          /\ NrPushed(io) \in Nat /\ nrValid \in Nat /\ Posts \in Nat
      BY DriverValues
    <3> QED
      BY <1>7, <2>4, <3>1, <3>2
  <2>6. ASSUME NEW n \in 1..Posts
        PROVE  ran'[<<io, n>>] = IF n <= done + 1 THEN 1 ELSE 0
    <3>1. /\ <<io, n>> \in Job /\ n \in Nat
          /\ ran[<<io, n>>] = IF n <= done THEN 1 ELSE 0
      BY <1>6, DriverValues DEF Job, InOrder
    <3>2. CASE n = done + 1
      BY <1>7, <2>1, <3>1, <3>2
    <3>3. CASE n # done + 1
      <4>1. ran'[<<io, n>>] = ran[<<io, n>>]
        BY <2>1, <3>1, <3>3
      <4>2. n <= done + 1 <=> n <= done
        BY <1>7, <3>1, <3>3
      <4> QED
        BY <3>1, <4>1, <4>2
    <3> QED
      BY <3>2, <3>3
  <2>7. m_seq' <= done + 1 /\ (processorAlive => m_seq' = done + 1)
    <3>1. m_seq \in Nat /\ m_seq <= done /\ (processorAlive => m_seq = done)
      BY <1>6, DriverValues DEF InOrder
    <3> QED
      BY <1>7, <1>8, <3>1
  <2>8. InOrder(io, w, done + 1)'
    <3>1. \A i \in DOMAIN m_jobQueue[w] : m_jobQueue[w][i] = <<io, (done + 1) + i>>
      BY <1>6, <2>2 DEF InOrder
    <3> QED
      BY <1>1, <1>5, <2>1, <2>2, <2>3, <2>6, <2>7, <3>1 DEF InOrder
  <2> QED
    BY <2>1, <2>5, <2>8
<1>9. ASSUME NEW d \in 0..Posts, InOrder(io, w, d)' PROVE RunInOrder'
  BY <1>1, <1>2, <1>9 DEF RunInOrder
<1>10. CASE UNCHANGED driver
  <2>1. /\ DriverTypeOK' /\ nrUrls' <= MaxUrls + 1 /\ m_seq' = m_seq
    BY <1>10 DEF DriverInv, DriverTypeOK, driver, lists, processor
  <2>2. FilesNumbered'
    BY <1>10, FilesStay DEF DriverInv, driver, lists, processor
  <2>3. ASSUME NEW q \in Thread, TakeFrom(w, q), worker[w].at \in {"try", "pop"}
        PROVE  InOrder(io, w, done)'
    <3>1. /\ q = w /\ m_jobQueue[w] # <<>> /\ ran' = ran
          /\ worker' = Taken(w, Head(m_jobQueue[w]))
          /\ m_jobQueue' = [m_jobQueue EXCEPT ![w] = Tail(@)]
      BY <1>1, <2>3 DEF TakeFrom
    <3>2. /\ worker'[w].at = "run" /\ worker'[w].job = {Head(m_jobQueue[w])}
          /\ m_jobQueue'[w] = Tail(m_jobQueue[w])
      BY <1>7, <3>1 DEF Taken, WorkerRecord
    <3>3. /\ Len(Tail(m_jobQueue[w])) = Len(m_jobQueue[w]) - 1
          /\ Len(m_jobQueue[w]) \in Nat \ {0}
          /\ \A i \in DOMAIN Tail(m_jobQueue[w]) :
               /\ i \in Nat /\ i + 1 \in DOMAIN m_jobQueue[w]
               /\ Tail(m_jobQueue[w])[i] = m_jobQueue[w][i + 1]
          /\ Head(m_jobQueue[w]) = m_jobQueue[w][1] /\ 1 \in DOMAIN m_jobQueue[w]
      BY <1>7, <3>1
    <3>4. NrTaken(w, done) = done /\ NrTaken(w, done)' = done + 1
      BY <1>7, <2>3, <3>2 DEF NrTaken
    <3>5. Head(m_jobQueue[w]) = <<io, done + 1>>
      BY <1>6, <3>3, <3>4 DEF InOrder
    <3>6. NrPushed(io)' = (done + 1) + Len(m_jobQueue'[w])
      BY <1>5, <1>6, <1>7, <3>2, <3>3, <3>4 DEF InOrder
    <3>7. ASSUME NEW i \in DOMAIN m_jobQueue'[w]
          PROVE  m_jobQueue'[w][i] = <<io, (done + 1) + i>>
      <4>1. m_jobQueue'[w][i] = <<io, done + (i + 1)>>
        BY <1>6, <3>2, <3>3, <3>4 DEF InOrder
      <4>2. done + (i + 1) = (done + 1) + i
        BY <1>7, <3>2, <3>3
      <4> QED
        BY <4>1, <4>2
    <3> QED
      BY <1>1, <1>6, <2>1, <3>1, <3>2, <3>4, <3>5, <3>6, <3>7 DEF InOrder
  <2>4. ASSUME TryPop(w) \/ Pop(w) PROVE RunInOrder'
    <3>1. PICK q \in Thread : TakeFrom(w, q) /\ worker[w].at \in {"try", "pop"}
      BY <1>1, <2>4, QueueIndex DEF TryPop, Pop, IInv
    <3> QED
      BY <1>9, <2>3, <3>1
  <2>5. ASSUME TryPopFails(w) \/ PopWaits(w) \/ PopFails(w) \/ WakeSpuriously(w)
        PROVE  RunInOrder'
    <3>1. /\ UNCHANGED <<m_jobQueue, ran>> /\ worker[w].at \in {"try", "pop", "wait"}
          /\ worker'[w].at \in {"try", "pop", "wait", "exited"}
      BY <1>7, <2>5 DEF TryPopFails, PopWaits, PopFails, WakeSpuriously, GoesTo, Goes,
                        WorkerRecord
    <3>2. NrTaken(w, done)' = NrTaken(w, done)
      BY <3>1 DEF NrTaken
    <3>3. InOrder(io, w, done)'
      BY <1>1, <1>5, <1>6, <2>1, <3>1, <3>2 DEF InOrder
    <3> QED
      BY <1>9, <3>3
  <2>6. ASSUME UseDestroyed(w) PROVE RunInOrder'
    <3>1. RunJob(w) /\ m_seq' = m_seq + (IF processorAlive THEN 1 ELSE 0)
      BY <2>1, <2>6, DriverValues DEF UseDestroyed
    <3> QED
      BY <1>8, <1>9, <3>1
  <2>7. RunInOrder' \/ \E opened \in BOOLEAN : SaveResult(w, opened)
    BY <2>4, <2>5, <2>6 DEF WorkerStep, WorkerSearch, WriteResult
  <2>8. ASSUME NEW opened \in BOOLEAN, SaveResult(w, opened) PROVE FALSE
    BY <2>1, <2>8, DriverValues DEF SaveResult
  <2> QED
    BY <1>4, <2>1, <2>2, <2>7, <2>8 DEF DriverOwn
<1>11. ASSUME NEW opened \in BOOLEAN, SaveResult(w, opened) PROVE DriverOwn'
  <2>1. /\ processorAlive /\ RunJob(w) /\ m_seq' = m_seq + 1
        /\ files' = IF opened
                    THEN [name \in DOMAIN files \cup {FileName(m_seq)} |->
                            IF name = FileName(m_seq) THEN worker[w].job
                            ELSE files[name]]
                    ELSE files
        /\ unsaved' = unsaved + IF opened THEN 0 ELSE 1
    BY <1>11 DEF SaveResult
  <2>2. /\ worker[w].job = {<<io, m_seq + 1>>} /\ m_seq + 1 <= nrValid
        /\ RunInOrder'
    <3>1. m_seq' = m_seq + (IF processorAlive THEN 1 ELSE 0) /\ m_seq = done
      BY <1>6, <2>1 DEF InOrder
    <3> QED
      BY <1>8, <1>9, <2>1, <3>1
  <2>3. /\ nrUrls \in 1 .. MaxUrls + 1 /\ nrUrls <= Posts
        /\ m_seq \in Nat /\ unsaved \in Nat /\ unsaved <= nrValid
        /\ nrValid \in 0..nrUrls /\ nrUrls \in 0..Posts
    <3>1. /\ nrValid \in 0..nrUrls /\ nrUrls \in 0..Posts /\ nrUrls <= MaxUrls + 1
          /\ unsaved \in 0..nrValid
      BY DEF DriverInv, DriverTypeOK
    <3> QED
      BY <2>2, <3>1, DriverValues
  <2>4. /\ FileName(m_seq) \in 0..m_seq
        /\ RoomForNumbers => FileName(m_seq) = m_seq
    BY <2>3, FileNames
  <2>5. unsaved <= m_seq /\ unsaved' <= m_seq' /\ unsaved' \in Nat
    <3>1. unsaved <= m_seq
      BY DEF DriverInv, FilesNumbered
    <3> QED
      BY <2>1, <2>3, <3>1
  <2>6. DOMAIN files' = DOMAIN files \cup (IF opened THEN {FileName(m_seq)} ELSE {})
    BY <2>1
  <2>7. DriverTypeOK' /\ nrUrls' <= MaxUrls + 1
    <3>1. m_seq' \in 0..nrValid /\ unsaved' \in 0..nrValid
      BY <2>1, <2>2, <2>3, <2>5
    <3>2. files' \in [DOMAIN files' -> {{j} : j \in Job}]
      <4>1. worker[w].job \in {{j} : j \in Job}
        <5>1. m_seq + 1 \in 1..Posts
          BY <2>2, <2>3, DriverValues
        <5>2. <<io, m_seq + 1>> \in Job
          BY <5>1 DEF Job
        <5> QED
          BY <2>2, <5>2
      <4>2. files \in [DOMAIN files -> {{j} : j \in Job}]
        BY DEF DriverInv, DriverTypeOK
      <4> QED
        BY <2>1, <4>1, <4>2
    <3>3. DOMAIN files' \subseteq 0..Posts
      <4>1. FileName(m_seq) \in 0..Posts /\ DOMAIN files \subseteq 0..Posts
        BY <2>2, <2>3, <2>4, DriverValues DEF DriverInv, DriverTypeOK
      <4> QED
        BY <2>6, <4>1
    <3> QED
      BY <1>1, <3>1, <3>2, <3>3 DEF DriverInv, DriverTypeOK
  <2>8. FilesNumbered'
    <3>1. m_seq' # 0 /\ (RoomForNumbers' <=> RoomForNumbers)
      BY <1>1, <2>1, <2>3 DEF RoomForNumbers, MaxNumberOfDigits
    <3>2. ASSUME RoomForNumbers
          PROVE  /\ DOMAIN files' \subseteq 0 .. m_seq' - 1
                 /\ IsFiniteSet(DOMAIN files')
                 /\ SeparateFiles'
                 /\ NumberedInOrder'
      <4>1. /\ DOMAIN files \subseteq 0 .. m_seq - 1 /\ IsFiniteSet(DOMAIN files)
            /\ Cardinality(DOMAIN files) + unsaved = m_seq
            /\ \A name \in DOMAIN files : files[name] = {<<io, name + 1>>}
            /\ FileName(m_seq) = m_seq
        BY <1>2, <2>4, <3>2 DEF DriverInv, FilesNumbered, SeparateFiles, NumberedInOrder
      <4>2. m_seq \notin DOMAIN files /\ Cardinality(DOMAIN files) \in Nat
        BY <2>3, <4>1, FS_CardinalityType
      <4>3. CASE opened
        <5>1. DOMAIN files' = DOMAIN files \cup {m_seq}
          BY <2>6, <4>1, <4>3
        <5>2. /\ IsFiniteSet(DOMAIN files')
              /\ Cardinality(DOMAIN files') = Cardinality(DOMAIN files) + 1
          BY <4>1, <4>2, <5>1, FS_AddElement
        <5>3. \A name \in DOMAIN files' : files'[name] = {<<io, name + 1>>}
          BY <2>1, <2>2, <4>1, <4>3, <5>1
        <5>4. DOMAIN files' \subseteq 0 .. m_seq' - 1
          BY <2>1, <2>3, <4>1, <5>1
        <5>5. Cardinality(DOMAIN files') + unsaved' = m_seq'
          BY <2>1, <2>3, <4>1, <4>2, <4>3, <5>2
        <5> QED
          BY <1>2, <5>2, <5>3, <5>4, <5>5 DEF SeparateFiles, NumberedInOrder
      <4>4. CASE ~opened
        <5>1. files' = files /\ unsaved' = unsaved + 1
          BY <2>1, <4>4
        <5>2. Cardinality(DOMAIN files) + unsaved' = m_seq'
          BY <2>1, <2>3, <4>1, <4>2, <5>1
        <5>3. DOMAIN files \subseteq 0 .. m_seq' - 1
          BY <2>1, <2>3, <4>1
        <5> QED
          BY <1>2, <4>1, <5>1, <5>2, <5>3 DEF SeparateFiles, NumberedInOrder
      <4> QED
        BY <4>3, <4>4
    <3> QED
      BY <2>5, <3>1, <3>2 DEF FilesNumbered
  <2> QED
    BY <1>4, <2>2, <2>7, <2>8 DEF DriverOwn
<1> QED
  BY <1>10, <1>11 DEF WorkerStep, WriteResult, UseDestroyed

(* Every step of the driver keeps its invariant.                           *)
LEMMA DriverNextInv == DriverInv /\ [DriverNext]_dvars => DriverInv'
<1> SUFFICES ASSUME DriverInv, [DriverNext]_dvars PROVE DriverInv'
  OBVIOUS
<1>1. IInv'
  BY StepOfTaskSystem, NextInv DEF DriverInv
<1>2. CASE UNCHANGED dvars
  <2>1. /\ DriverTypeOK' /\ nrUrls' <= MaxUrls + 1 /\ OwnerInStep' /\ CrawledOnce'
    BY <1>2 DEF DriverInv, DriverTypeOK, OwnerInStep, CrawledOnce, dvars, vars, driver,
                lists, processor
  <2>2. RunInOrder' /\ FilesNumbered'
    BY <1>2, MainThreadStays DEF dvars, driver, lists, processor
  <2> QED
    BY <1>1, <2>1, <2>2 DEF DriverInv
<1>3. CASE DriverNext
  BY <1>1, <1>2, <1>3, MainStepInv, IoStepInv, WorkerStepInv
     DEF DriverNext, DriverEnded, DriverOwn, DriverInv
<1> QED
  BY <1>2, <1>3

-----------------------------------------------------------------------------
(* The logger *)

(* A step of a log call concerns its own thread, and no component.         *)
LEMMA LogCalls ==
  ASSUME LoggerTypeOK, NEW t \in LogThread, Log(t) \/ Lock(t) \/ Write(t)
  PROVE  /\ LoggerTypeOK' /\ m_enabled' = m_enabled
         /\ \A x \in LogThread \ {t} : Quiet(x)' <=> Quiet(x)
         /\ Log(t) \/ ~Quiet(t)
<1> DEFINE Calls == Seq({"evaluate", "write"})
<1>1. logging \in [LogThread -> Calls] /\ logging[t] \in Calls
  BY DEF LoggerTypeOK
<1>2. PICK s \in Calls : logging' = [logging EXCEPT ![t] = s]
  <2>1. CASE Log(t)
    <3>1. Append(logging[t], "evaluate") \in Calls
      BY <1>1
    <3> QED
      BY <2>1, <3>1 DEF Log
  <2>2. CASE Lock(t)
    <3>1. Len(logging[t]) \in 1..Len(logging[t])
      BY <1>1, <2>2 DEF Lock, Quiet
    <3>2. [logging[t] EXCEPT ![Len(logging[t])] = "write"] \in Calls
      BY <1>1, <3>1
    <3> QED
      BY <2>2, <3>2 DEF Lock
  <2>3. CASE Write(t)
    <3>1. SubSeq(logging[t], 1, Len(logging[t]) - 1) \in Calls
      BY <1>1, <2>3 DEF Write, Quiet
    <3> QED
      BY <2>3, <3>1 DEF Write
  <2> QED
    BY <2>1, <2>2, <2>3
<1>3. logging' \in [LogThread -> Calls]
  BY <1>1, <1>2
<1>4. \A x \in LogThread \ {t} : logging'[x] = logging[x]
  BY <1>1, <1>2
<1>5. /\ m_enabled' = m_enabled /\ m_mutex' \in LogThread \cup {NoThread}
      /\ m_fout' \in {"closed", "good", "bad"}
  BY DEF LoggerTypeOK, Log, Lock, Write
<1> HIDE DEF Calls
<1>6. LoggerTypeOK'
  BY <1>3, <1>5 DEF LoggerTypeOK, Calls, Component
<1>7. \A x \in LogThread \ {t} : Quiet(x)' <=> Quiet(x)
  BY <1>4 DEF Quiet
<1>8. Log(t) \/ ~Quiet(t)
  BY DEF Lock, Write
<1> QED
  BY <1>5, <1>6, <1>7, <1>8

(* The options are read without a log call. *)
LEMMA LoggerOptions ==
  ASSUME LoggerTypeOK, (\E name : Enable(name)) \/ SwapOutput
  PROVE  LoggerTypeOK' /\ \A t \in LogThread : Quiet(t)' <=> Quiet(t)
  BY DEF LoggerTypeOK, EnableAll, EnableNamed, Enable, SwapOutput, Quiet, Named,
         Component

-----------------------------------------------------------------------------
(* MainInv is inductive *)

(* Nobody logs, and nothing has been asked for.                            *)
LEMMA MainInitInv == MainInit => MainInv
<1> SUFFICES ASSUME MainInit PROVE MainInv
  OBVIOUS
<1> USE DEF MainInit
<1>1. DriverInv
  BY DriverInitInv
<1>2. LoggerTypeOK /\ m_enabled = {} /\ \A t \in LogThread : Quiet(t)
  <2>1. logging \in [LogThread -> Seq({"evaluate", "write"})]
    BY DEF LoggerInit
  <2> QED
    BY <2>1 DEF LoggerInit, LoggerTypeOK, Quiet
<1>3. MainTypeOK
  BY <1>1, <1>2, FS_EmptySet, MainAssumption DEF MainTypeOK, DriverInv, IInv
<1>4. DriverInside /\ ExitKnown
  BY DEF DriverInit, DriverInside, ExitKnown
<1>5. LogsWithin
  BY <1>2, MainAssumption DEF LogsWithin
<1>6. EnabledAsked
  BY <1>2 DEF EnabledAsked
<1> QED
  BY <1>1, <1>3, <1>4, <1>5, <1>6 DEF MainInv

(* What main does is for the driver one of its steps, or none. *)
LEMMA StepOfDriver == [MainNext]_mainVars => [DriverNext]_dvars
<1> SUFFICES ASSUME [MainNext]_mainVars PROVE [DriverNext]_dvars
  OBVIOUS
<1>1. CASE Drive
  BY <1>1 DEF Drive, DriverNext
<1>2. CASE MainThread /\ ~Drive
  BY <1>2 DEF MainThread, ReadOptions, Throws, Exit, Proceeds, DebugAll, DebugOne,
              DebugUnknown, DebugDone, LogOutput, OpenOutput, NoLogOutput, UrlOptions,
              DriveEnds, Handled
<1>3. CASE IoThread \/ WorkerWakes \/ \E w \in Thread : Worker(w)
  BY <1>3 DEF IoThread, WorkerWakes, Worker, WorkerStep, DriverNext
<1>4. CASE \E t \in LogThread : CallLog(t) \/ Logs(t)
  BY <1>4 DEF CallLog, Logs
<1>5. CASE Exited \/ UNCHANGED mainVars
  BY <1>5 DEF Exited, mainVars
<1> QED
  BY <1>1, <1>2, <1>3, <1>4, <1>5 DEF MainNext

(* A worker that has run its task stays there, whatever the others do.     *)
LEMMA ThrewStays ==
  ASSUME DriverInv, TaskThrew,
         MainStep \/ (\E io \in Poster : IoStep(io)) \/ WorkerWakes
  PROVE  TaskThrew'
<1>1. PICK w \in Thread : worker[w].at = "try" /\ m_seq > 0
  BY DEF TaskThrew
<1>2. worker \in [Thread -> WorkerRecord] /\ IInv
  BY DEF DriverInv, IInv, TypeOK
<1>3. m_seq' = m_seq
  BY DEF MainStep, ReadUrls, ReadUrlsFails, MainGoes, TaskSystemFails, BuildCrawler,
         KeepCrawling, EndOfRound, DestroyProcessor, Return, BuildTaskSystem,
         DestroyTaskSystem, IoStep, Callback, WorkerWakes, driver, processor
<1>4. ASSUME NEW q \in Thread, worker' = WokenUp(q) PROVE worker'[w].at = "try"
  BY <1>1, <1>2, <1>4 DEF WokenUp, WorkerRecord
<1>5. CASE MainStep
  <2>1. CASE UNCHANGED vars
    BY <1>1, <1>3, <2>1 DEF TaskThrew, vars
  <2>2. CASE StartThread
    <3>1. PICK n \in Thread : n = NrStarted
      BY <1>2, <2>2, NextThread DEF StartThread
    <3>2. worker' = [worker EXCEPT ![n].at = "try"]
      BY <2>2, <3>1 DEF StartThread
    <3>3. worker'[w].at = "try"
      BY <1>1, <1>2, <3>2 DEF WorkerRecord
    <3> QED
      BY <1>1, <1>3, <3>3 DEF TaskThrew
  <2>3. CASE NotifyAll
    <3>1. worker'[w].at = "try"
      BY <1>2, <1>4, <2>3 DEF NotifyAll, IInv, TypeOK
    <3> QED
      BY <1>1, <1>3, <3>1 DEF TaskThrew
  <2>4. CASE UNCHANGED worker
    BY <1>1, <1>3, <2>4 DEF TaskThrew
  <2> QED
    BY <1>5, <2>1, <2>2, <2>3, <2>4
       DEF MainStep, ReadUrls, ReadUrlsFails, TaskSystemFails, BuildCrawler, KeepCrawling,
           EndOfRound, DestroyProcessor, Return, BuildTaskSystem, DestroyTaskSystem,
           OwnerCloses, StartThreadFails, StartDestructor, SetDone, Join
<1>6. ASSUME NEW io \in Poster, IoStep(io) PROVE TaskThrew'
  <2>1. CASE Notify(io)
    <3>1. worker'[w].at = "try"
      BY <1>2, <1>4, <1>6, <2>1, QueueIndex DEF Notify, IInv
    <3> QED
      BY <1>1, <1>3, <3>1 DEF TaskThrew
  <2>2. CASE UNCHANGED worker
    BY <1>1, <1>3, <2>2 DEF TaskThrew
  <2> QED
    BY <1>6, <2>1, <2>2 DEF IoStep, Callback, Async, AsyncStep, TryPush, TryPushFails,
                            TryPushFailsOf, Push, EmplaceBack
<1>7. CASE WorkerWakes
  <2>1. PICK x \in Thread : WakeSpuriously(x)
    BY <1>7 DEF WorkerWakes
  <2>2. x # w /\ worker' = [worker EXCEPT ![x] = [worker[x] EXCEPT !.at = "pop"]]
    BY <1>1, <2>1 DEF WakeSpuriously, GoesTo, Goes
  <2> QED
    BY <1>1, <1>2, <1>3, <2>2 DEF TaskThrew
<1> QED
  BY <1>5, <1>6, <1>7

(* The part of MainInv that is not the driver's. *)
MainOwn == MainTypeOK /\ DriverInside /\ LogsWithin /\ EnabledAsked /\ ExitKnown

(* Main reads an option, catches an exception, or exits. *)
LEMMA OptionInv ==
  ASSUME MainInv, DriverInv', MainThread, ~Drive
  PROVE  MainOwn'
<1>1. /\ UNCHANGED <<dvars, logged>> /\ mainAt # "exited"
      /\ mainAt = "drive" => dpc = "end"
      /\ mainAt' = "drive" => dpc = "readUrls"
      /\ mainAt' \in {"readOptions", "debug", "logOutput", "openOutput", "urlOptions"} =>
           dpc = "readUrls"
  BY DEF MainThread, ReadOptions, Throws, Exit, Proceeds, DebugAll, DebugOne,
         DebugUnknown, DebugDone, LogOutput, OpenOutput, NoLogOutput, UrlOptions,
         DriveEnds, Handled, MainInv, DriverInside
<1>2. /\ exitCode = {}
      /\ \/ exitCode' = {}
         \/ /\ mainAt' = "exited" /\ exitCode' \in {{0}, {1}}
            /\ exitCode' = {0} => mainAt = "readOptions" \/ (dpc = "end" /\ ~thrown)
  <2>1. exitCode = {}
    BY <1>1 DEF MainInv, ExitKnown
  <2>2. CASE exitCode' = exitCode
    BY <2>1, <2>2
  <2>3. CASE exitCode' # exitCode
    <3>1. \/ Exit("readOptions", 0) \/ Exit("caught", 1)
          \/ dpc = "end" /\ ~thrown /\ Exit("drive", 0)
      BY <2>3 DEF MainThread, ReadOptions, Throws, Proceeds, DebugAll, DebugOne,
                  DebugUnknown, DebugDone, LogOutput, OpenOutput, NoLogOutput,
                  UrlOptions, DriveEnds, Handled
    <3> QED
      BY <2>1, <3>1 DEF Exit
  <2> QED
    BY <2>1, <2>2, <2>3
<1>3. /\ \/ Log("main")
         \/ (\E name : Enable(name)) \/ SwapOutput
         \/ UNCHANGED logger
  BY DEF MainThread, ReadOptions, Throws, Exit, Proceeds, DebugAll, DebugOne,
         DebugUnknown, DebugDone, LogOutput, OpenOutput, NoLogOutput, UrlOptions,
         DriveEnds, Handled
<1>4. LoggerTypeOK' /\ \A t \in LogThread \ {"main"} : Quiet(t)' <=> Quiet(t)
  <2>1. LoggerTypeOK /\ "main" \in LogThread
    BY MainAssumption DEF MainInv, MainTypeOK
  <2>2. CASE UNCHANGED logger
    BY <2>1, <2>2 DEF logger, LoggerTypeOK, Quiet, Component
  <2> QED
    BY <1>3, <2>1, <2>2, LogCalls, LoggerOptions
<1>5. asked' \subseteq Names \cup {""} /\ EnabledAsked'
  <2>1. /\ asked \subseteq Names \cup {""}
        /\ m_enabled = {c \in Component : Registered[c] \in asked \/ "" \in asked}
    BY DEF MainInv, MainTypeOK, EnabledAsked
  <2>2. CASE UNCHANGED <<m_enabled, asked>>
    BY <2>1, <2>2 DEF EnabledAsked, Names, Component
  <2>3. CASE DebugAll
    BY <2>3 DEF DebugAll, Enable, EnableAll, EnabledAsked, Names, Component
  <2>4. ASSUME NEW name \in Names \cup {""}, DebugOne(name)
        PROVE  asked' \subseteq Names \cup {""} /\ EnabledAsked'
    <3>1. asked' = asked \cup {name} /\ Enable(name)
      BY <2>4 DEF DebugOne
    <3>2. CASE name = ""
      BY <2>1, <3>1, <3>2 DEF Enable, EnableAll, EnabledAsked, Names, Component
    <3>3. CASE name # ""
      BY <2>1, <3>1, <3>3
         DEF Enable, EnableNamed, Named, EnabledAsked, Names, Component
    <3> QED
      BY <3>2, <3>3
  <2> QED
    BY <2>2, <2>3, <2>4
       DEF MainThread, ReadOptions, Throws, Exit, Proceeds, Log, DebugUnknown, DebugDone,
           LogOutput, OpenOutput, NoLogOutput, UrlOptions, DriveEnds, Handled, SwapOutput,
           logger
<1>6. MainTypeOK'
  <2>1. mainAt' \in {"readOptions", "debug", "logOutput", "openOutput", "urlOptions",
                    "drive", "caught", "exited"}
    BY DEF MainThread, ReadOptions, Throws, Exit, Proceeds, DebugAll, DebugOne,
           DebugUnknown, DebugDone, LogOutput, OpenOutput, NoLogOutput, UrlOptions,
           DriveEnds, Handled
  <2>2. exitCode' \subseteq 0..1 /\ Cardinality(exitCode') <= 1
    BY <1>2, FS_EmptySet, FS_Singleton
  <2>3. TypeOK' /\ DriverTypeOK' /\ logged' \in 0..MaxLogs
    BY <1>1 DEF IInv, DriverInv, MainInv, MainTypeOK
  <2> QED
    BY <1>4, <1>5, <2>1, <2>2, <2>3 DEF MainTypeOK, Names, Component
<1>7. DriverInside'
  <2>1. mainAt' \in {"caught", "exited"} => dpc \in {"readUrls", "end"}
    BY <1>1 DEF MainThread, ReadOptions, Throws, Exit, Proceeds, DebugAll, DebugOne,
                DebugUnknown, DebugDone, LogOutput, OpenOutput, NoLogOutput, UrlOptions,
                DriveEnds, Handled, MainInv, DriverInside
  <2> QED
    BY <1>1, <2>1 DEF DriverInside, dvars, driver
<1>8. LogsWithin'
  <2>1. Quiet("io")' <=> Quiet("io")
    BY <1>4, MainAssumption
  <2>2. Quiet("worker")' <=> Quiet("worker")
    BY <1>4, MainAssumption
  <2>3. TaskThrew' <=> TaskThrew
    BY <1>1 DEF TaskThrew, dvars, vars, driver, processor
  <2> QED
    BY <1>1, <2>1, <2>2, <2>3 DEF MainInv, LogsWithin, dvars, driver
<1>9. ExitKnown'
  <2>1. mainAt = "readOptions" => nrValid = 0
    <3>1. PICK io \in Poster : TRUE
      BY DriverAssumption
    <3> QED
      BY <3>1 DEF MainInv, DriverInside, DriverInv, CrawledOnce
  <2>2. nrValid' = nrValid /\ dpc' = dpc /\ thrown' = thrown
    BY <1>1 DEF dvars, driver, lists
  <2> QED
    BY <1>2, <2>1, <2>2 DEF ExitKnown
<1> QED
  BY <1>5, <1>6, <1>7, <1>8, <1>9 DEF MainOwn

(* The driver's threads move on while main waits for driverLoadLogic.      *)
LEMMA DriveInv ==
  ASSUME MainInv, DriverInv',
         Drive \/ IoThread \/ WorkerWakes \/ \E w \in Thread : Worker(w)
  PROVE  MainOwn'
<1>1. UNCHANGED <<logger, main>>
  BY DEF Drive, IoThread, WorkerWakes, Worker
<1>2. mainAt = "drive"
  <2>1. CASE Drive
    BY <2>1 DEF Drive
  <2>2. CASE ~Drive
    <3>1. dpc \notin {"readUrls", "end"}
      BY <2>2, ThreadsWork DEF IoThread, WorkerWakes, Worker, WorkerStep, MainInv
    <3> QED
      BY <3>1 DEF MainInv, DriverInside, MainTypeOK
  <2> QED
    BY <2>1, <2>2
<1>3. MainTypeOK'
  BY <1>1 DEF MainInv, DriverInv, IInv, MainTypeOK, LoggerTypeOK, logger, main, Names, Component
<1>4. DriverInside' /\ EnabledAsked'
  BY <1>1, <1>2 DEF DriverInside, MainInv, EnabledAsked, logger, main, Component
<1>5. ExitKnown'
  BY <1>1, <1>2 DEF MainInv, ExitKnown, main
<1>6. /\ Quiet("io")' <=> Quiet("io")
      /\ Quiet("worker")' <=> Quiet("worker")
  BY <1>1 DEF Quiet, logger
<1>7. ~Quiet("io") => dpc' \in {"keepCrawling", "crawl", "return"}
  <2> SUFFICES ASSUME ~Quiet("io") PROVE dpc' \in {"keepCrawling", "crawl", "return"}
    OBVIOUS
  <2>1. dpc \in {"keepCrawling", "crawl", "return"}
    BY DEF MainInv, LogsWithin
  <2>2. CASE Drive
    BY <2>1, <2>2 DEF Drive, MainStep, ReadUrls, ReadUrlsFails, MainGoes, TaskSystemFails,
          BuildCrawler, KeepCrawling, EndOfRound, DestroyProcessor, Return,
          BuildTaskSystem, DestroyTaskSystem, driver
  <2>3. CASE ~Drive
    <3>1. dpc' = dpc
      BY <2>3, ThreadsWork DEF IoThread, WorkerWakes, Worker, WorkerStep, MainInv
    <3> QED
      BY <2>1, <3>1
  <2> QED
    BY <2>2, <2>3
<1>8. ~Quiet("worker") => TaskThrew'
  <2> SUFFICES ASSUME ~Quiet("worker") PROVE TaskThrew'
    OBVIOUS
  <2>1. TaskThrew /\ DriverInv
    BY DEF MainInv, LogsWithin
  <2>2. MainStep \/ (\E io \in Poster : IoStep(io)) \/ WorkerWakes
    BY DEF Drive, IoThread, Worker
  <2> QED
    BY <2>1, <2>2, ThrewStays
<1>9. LogsWithin'
  BY <1>6, <1>7, <1>8 DEF LogsWithin
<1> QED
  BY <1>3, <1>4, <1>5, <1>9 DEF MainOwn

(* A log call is begun where it may be, and is gone on with. *)
LEMMA LogInv ==
  ASSUME MainInv, DriverInv', NEW t \in LogThread, CallLog(t) \/ Logs(t)
  PROVE  MainOwn'
<1>1. /\ UNCHANGED <<dvars, mainAt, exitCode, asked>>
      /\ Log(t) \/ Lock(t) \/ Write(t)
      /\ Log(t) => LogsNow(t) \/ ~Quiet(t)
  BY DEF CallLog, Logs, main, Log, Lock, Write
<1>2. /\ LoggerTypeOK' /\ m_enabled' = m_enabled
      /\ \A x \in LogThread \ {t} : Quiet(x)' <=> Quiet(x)
      /\ Log(t) \/ ~Quiet(t)
  BY <1>1, LogCalls DEF MainInv, MainTypeOK
<1>3. logged' \in 0..MaxLogs
  <2>1. logged \in 0..MaxLogs
    BY DEF MainInv, MainTypeOK
  <2> QED
    BY <2>1, MainAssumption DEF CallLog, Logs, main
<1>4. MainTypeOK'
  BY <1>1, <1>2, <1>3 DEF MainInv, MainTypeOK, DriverInv, IInv, Names, Component
<1>5. DriverInside' /\ ExitKnown' /\ EnabledAsked'
  BY <1>1, <1>2 DEF MainInv, DriverInside, ExitKnown, EnabledAsked, Component, dvars,
                    driver, lists
<1>6. dpc' = dpc /\ (TaskThrew' <=> TaskThrew)
  BY <1>1 DEF TaskThrew, dvars, vars, driver, processor
<1>7. LogsWithin'
  <2>1. ~Quiet("io")' => dpc \in {"keepCrawling", "crawl", "return"}
    <3>1. CASE t = "io"
      BY <1>1, <1>2, <3>1 DEF MainInv, LogsWithin, LogsNow
    <3>2. CASE t # "io"
      BY <1>2, <3>2, MainAssumption DEF MainInv, LogsWithin
    <3> QED
      BY <3>1, <3>2
  <2>2. ~Quiet("worker")' => TaskThrew
    <3>1. CASE t = "worker"
      BY <1>1, <1>2, <3>1 DEF MainInv, LogsWithin, LogsNow
    <3>2. CASE t # "worker"
      BY <1>2, <3>2, MainAssumption DEF MainInv, LogsWithin
    <3> QED
      BY <3>1, <3>2
  <2> QED
    BY <1>6, <2>1, <2>2 DEF LogsWithin
<1> QED
  BY <1>4, <1>5, <1>7 DEF MainOwn

(* Every step of the program keeps the invariant.                          *)
LEMMA MainNextInv == MainInv /\ [MainNext]_mainVars => MainInv'
<1> SUFFICES ASSUME MainInv, [MainNext]_mainVars PROVE MainInv'
  OBVIOUS
<1>1. DriverInv'
  BY StepOfDriver, DriverNextInv DEF MainInv
<1>2. CASE UNCHANGED mainVars
  BY <1>1, <1>2
     DEF MainInv, DriverInv, IInv, MainTypeOK, LoggerTypeOK, Names, Component,
         DriverInside, LogsWithin, Quiet, TaskThrew, EnabledAsked, ExitKnown, mainVars, dvars, vars,
         driver, lists, processor, logger, main
<1>3. CASE MainThread /\ ~Drive
  BY <1>1, <1>3, OptionInv DEF MainOwn, MainInv
<1>4. CASE Drive \/ IoThread \/ WorkerWakes \/ \E w \in Thread : Worker(w)
  BY <1>1, <1>4, DriveInv DEF MainOwn, MainInv
<1>5. CASE \E t \in LogThread : CallLog(t) \/ Logs(t)
  BY <1>1, <1>5, LogInv DEF MainOwn, MainInv
<1> QED
  BY <1>2, <1>3, <1>4, <1>5 DEF MainNext, MainThread, Exited

-----------------------------------------------------------------------------
(* Theorems *)

(* The invariant the others follow from. *)
THEOREM MainInvariance == MainSpec => []MainInv
  BY MainInitInv, MainNextInv, PTL DEF MainSpec

(* Every variable of main, the driver and the logger has its type.         *)
THEOREM MainTypeCorrectness == MainSpec => []MainTypeOK
<1>1. MainInv => MainTypeOK
  BY DEF MainInv
<1> QED
  BY <1>1, MainInvariance, PTL

(* A task system that is gone has run all that was pushed.                 *)
LEMMA AllRun ==
  ASSUME IInv, opc = "gone", NEW j \in Pushed
  PROVE  ran[j] = 1
<1>1. j \in Job /\ j[1] \in Poster /\ j[2] \in Nat \ {0}
  BY TaskAssumption DEF Pushed, Job
<1>2. poster[j[1]].posted # 0
  BY <1>1 DEF Pushed, IInv, TypeOK, PosterRecord
<1>3. \A w \in Thread : worker[w].at = "exited"
  BY <1>1, <1>2 DEF IInv, CallersKnow, ClosedInOrder
<1>4. \A w \in Thread : m_jobQueue[w] = <<>> /\ worker[w].job = {}
  BY <1>3 DEF IInv, ClosedInOrder, HandState
<1>5. j \notin Queued /\ j \notin Held
  BY <1>4, EmptyRange DEF Queued, Held
<1> QED
  BY <1>1, <1>5 DEF IInv, NoneLost

(***************************************************************************)
(* Outside the driver nobody is left to log; and an exit with 0 means that *)
(* the task of every URL handed on has run once, for any list of URLs and  *)
(* whatever threads could be started.                                      *)
(***************************************************************************)
THEOREM NothingIsLeft == MainSpec => []ExitMeansDone
<1>1. MainInv => ExitMeansDone
  <2> SUFFICES ASSUME MainInv PROVE ExitMeansDone
    OBVIOUS
  <2>1. ASSUME mainAt # "drive"
        PROVE  /\ Quiet("io") /\ Quiet("worker")
               /\ \A w \in Thread : worker[w].at \in {"none", "exited"}
    <3>1. dpc \in {"readUrls", "end"}
      BY <2>1 DEF MainInv, MainTypeOK, DriverInside
    <3>2. \A w \in Thread : worker[w].at \in {"none", "exited"}
      BY <3>1 DEF MainInv, DriverInv, OwnerInStep, IInv, ClosedInOrder
    <3> QED
      BY <3>1, <3>2 DEF MainInv, LogsWithin, TaskThrew
  <2>2. ASSUME exitCode = {0}, NEW io \in Poster, NEW n \in 1..nrValid
        PROVE  ran[<<io, n>>] = 1
    <3>1. nrValid \in Nat /\ Posts \in Nat /\ nrValid <= Posts /\ n \in Nat
      BY DriverValues DEF MainInv, DriverInv, DriverTypeOK
    <3>2. opc = "gone" /\ poster[io].posted = nrValid /\ poster[io].at = "idle"
      BY <2>2, <3>1 DEF MainInv, ExitKnown, DriverInv, OwnerInStep, CrawledOnce
    <3>3. <<io, n>> \in Job
      BY <3>1 DEF Job
    <3>4. <<io, n>> \in Pushed
      BY <3>1, <3>2, <3>3 DEF Pushed
    <3> QED
      BY <3>2, <3>4, AllRun DEF MainInv, DriverInv
  <2> QED
    BY <2>1, <2>2 DEF ExitMeansDone
<1> QED
  BY <1>1, MainInvariance, PTL

(* Debug messages are shown of the components asked for, of all when the   *)
(* empty name was given, and of no other, however many share a name.       *)
THEOREM DebugShown == MainSpec => []DebugAsAsked
<1>1. MainInv => DebugAsAsked
  BY DEF MainInv, EnabledAsked, DebugAsAsked, Stream
<1> QED
  BY <1>1, MainInvariance, PTL

(***************************************************************************)
(* As long as the prefix leaves room for the digits of the numbers, every  *)
(* result that could be saved keeps a file of its own, and the number in   *)
(* the file's name is the place of its URL in the order of the answers.    *)
(***************************************************************************)
THEOREM OneFileEach == MainSpec => [](RoomForNumbers => SeparateFiles)
<1>1. MainInv => (RoomForNumbers => SeparateFiles)
  BY DEF MainInv, DriverInv, FilesNumbered
<1> QED
  BY <1>1, MainInvariance, PTL

(* Under the same condition, results are numbered in the order of answers. *)
THEOREM InOrderOfAnswers == MainSpec => [](RoomForNumbers => NumberedInOrder)
<1>1. MainInv => (RoomForNumbers => NumberedInOrder)
  BY DEF MainInv, DriverInv, FilesNumbered
<1> QED
  BY <1>1, MainInvariance, PTL

(***************************************************************************)
(* The driver uses the task system as it is meant to be used: whatever the *)
(* options and failures, the program's steps are steps of TaskSystem, so   *)
(* that what is proved of it there holds of the program.                   *)
(***************************************************************************)
THEOREM DriverUsesTaskSystem == MainSpec => Spec
<1>1. MainInit => Init
  BY DEF MainInit, DriverInit
<1>2. [MainNext]_mainVars => [Next]_vars
  BY StepOfDriver, StepOfTaskSystem
<1> QED
  BY <1>1, <1>2, PTL DEF MainSpec, Spec

(* So no job is lost in the program, also when a thread cannot be started. *)
THEOREM ProgramKeepsJobs == MainSpec => []JobsKept
  BY DriverUsesTaskSystem, NoJobLost, PTL
=============================================================================
