------------------------------- MODULE Crawler -------------------------------
(***************************************************************************)
(* Crawler::crawl and the callbacks it hands to the downloader.            *)
(*                                                                         *)
(* Two threads act.  The crawl thread runs the loop of Crawler::crawl: it  *)
(* fetches a batch, builds the per-host queues, starts downloads when a    *)
(* host is due and a slot is free, and runs the finish actions.  The io    *)
(* thread of the downloader ends transfers one at a time and runs their    *)
(* callbacks, which touch the queue of the host and push a finish action.  *)
(* One action is one step of one of the two, between which the other one   *)
(* may run; the methods of ActionQueue are atomic here and are modelled in *)
(* detail by module ActionQueue.                                           *)
(*                                                                         *)
(* All times are relative to the present, which is 0: Tick moves every     *)
(* recorded time one unit into the past.                                   *)
(***************************************************************************)
EXTENDS Urls, DownloadQueues, TimeHeap, Functions

CONSTANTS
  Batches,    \* the lists of elements the dispatcher may return
  MaxActive,  \* maxActiveQueues
  Delay,      \* perHostTimeout
  Horizon     \* bound of the model: no time older than this is told apart

ASSUME CrawlerAssumption ==
  /\ MaxActive \in Nat \ {0}
  /\ Delay \in Nat
  /\ Horizon \in Nat \ {0}
  /\ \A b \in Batches : b \in Seq(Elem) /\ IsInjective(b)

VARIABLES
  pc,            \* where the crawl thread is
  batch,         \* the part of urlsToCrawl not yet looked at
  urlList,       \* the URLs each robots.txt callback will release
  downloads,     \* downloadList
  heap,          \* timeHeap
  crtTime,       \* the clock value read at the top of the do loop
  active,        \* activeDownloads
  flying,        \* downloads handed to the downloader and not ended
  calling,       \* ended download whose callback is running
  notifying,     \* the same, at its call of onFinishedDownload
  finishActions, \* m_actions of the ActionQueue, by the queue they carry
  toBeExecuted,  \* the batch of actions the crawl thread is running
  (* History, read by the properties only. *)
  dispatched,    \* every element the dispatcher has returned so far
  ended,         \* the downloads ended in this round
  failed,        \* the robots.txt downloads that failed in this round
  since,         \* time since the host's last download ended, up to Delay
  callCount      \* how often each element's callback was called

crawlVars == <<pc, batch, urlList, downloads, heap, crtTime, active>>
ioVars == <<flying, calling, notifying>>
queueVars == <<finishActions, toBeExecuted>>
history == <<dispatched, ended, failed, since, callCount>>
vars == <<crawlVars, ioVars, queueVars, history>>

CrawlPc == {"keep", "populate", "loop", "wait", "waitUntil", "add",
            "drain", "execute", "done"}

InFlight == flying \cup calling \cup notifying

(* Mutant: off by one. *)
OneTooMany(n) == n <= MaxActive

canAddDownload(n) == n < MaxActive

NoUrls == [r \in {} |-> <<>>]

Init ==
  /\ pc = "keep"
  /\ batch = <<>>
  /\ urlList = NoUrls
  /\ downloads = NoQueues
  /\ heap = {}
  /\ crtTime = 0
  /\ active = 0
  /\ flying = {} /\ calling = {} /\ notifying = {}
  /\ finishActions = <<>> /\ toBeExecuted = <<>>
  /\ dispatched = {}
  /\ ended = {} /\ failed = {}
  /\ since = [h \in Host |-> Delay]
  /\ callCount = [e \in Elem |-> 0]

-----------------------------------------------------------------------------
(* The crawl thread: one round of the outer loop. *)

(* keepCrawling() returns true; the dispatcher returns fresh elements. *)
StartRound(b) ==
  /\ pc = "keep"
  /\ Range(b) \cap dispatched = {}
  /\ pc' = "populate"
  /\ batch' = b
  /\ dispatched' = dispatched \cup Range(b)
  /\ ended' = {} /\ failed' = {}
  /\ UNCHANGED <<urlList, downloads, heap, crtTime, active, ioVars, queueVars,
                 since, callCount>>

(* keepCrawling() returns false. *)
StopCrawling ==
  /\ pc = "keep"
  /\ pc' = "done"
  /\ UNCHANGED <<batch, urlList, downloads, heap, crtTime, active, ioVars,
                 queueVars, history>>

(* populateDownloadQueuesWithRobots, one element of the batch at a time. *)
SkipInvalidUrl ==
  /\ pc = "populate" /\ batch # <<>>
  /\ Head(batch) \notin ValidElem
  /\ batch' = Tail(batch)
  /\ UNCHANGED <<pc, urlList, downloads, heap, crtTime, active, ioVars,
                 queueVars, history>>

(* The first element of a scheme and host: its robots.txt goes first. *)
AddRobotsDownload ==
  /\ pc = "populate" /\ batch # <<>>
  /\ LET e == Head(batch)
         r == RobotOf(e)
     IN  /\ e \in ValidElem
         /\ r \notin DOMAIN urlList
         /\ downloads' =
              AddDownload(GetQueueByHost(downloads, r.host), r.host, r)
         /\ urlList' = [x \in DOMAIN urlList \cup {r} |->
                          IF x = r THEN <<e>> ELSE urlList[x]]
  /\ batch' = Tail(batch)
  /\ UNCHANGED <<pc, heap, crtTime, active, ioVars, queueVars, history>>

(* Mutant: a further URL goes straight into the host's queue. *)
QueueUrlAtOnce ==
  /\ pc = "populate" /\ batch # <<>>
  /\ LET e == Head(batch)
     IN  /\ e \in ValidElem
         /\ RobotOf(e) \in DOMAIN urlList
         /\ downloads' = AddDownload(downloads, UrlHost[e], e)
  /\ batch' = Tail(batch)
  /\ UNCHANGED <<pc, urlList, heap, crtTime, active, ioVars, queueVars,
                 history>>

AppendToUrlList ==
  /\ pc = "populate" /\ batch # <<>>
  /\ LET e == Head(batch)
         r == RobotOf(e)
     IN  /\ e \in ValidElem
         /\ r \in DOMAIN urlList
         /\ urlList' = [urlList EXCEPT ![r] = Append(@, e)]
  /\ batch' = Tail(batch)
  /\ UNCHANGED <<pc, downloads, heap, crtTime, active, ioVars, queueVars,
                 history>>

BuildHeap ==
  /\ pc = "populate" /\ batch = <<>>
  /\ heap' = HeapOf(DOMAIN downloads)
  /\ pc' = "loop"
  /\ UNCHANGED <<batch, urlList, downloads, crtTime, active, ioVars,
                 queueVars, history>>

RoundHasWork == DOMAIN downloads # {} \/ active > 0 \/ heap # {}

(* The inner loop ends; the queues, the heap and the action queue die. *)
EndRound ==
  /\ pc = "loop"
  /\ ~RoundHasWork
  /\ pc' = "keep"
  /\ urlList' = NoUrls
  /\ UNCHANGED <<batch, downloads, heap, crtTime, active, ioVars, queueVars,
                 history>>

(* No free slot or nobody waiting to be due: executeOrWaitAndExecute. *)
GoWait ==
  /\ pc = "loop"
  /\ RoundHasWork
  /\ ~canAddDownload(active) \/ heap = {}
  /\ pc' = "wait"
  /\ UNCHANGED <<batch, urlList, downloads, heap, crtTime, active, ioVars,
                 queueVars, history>>

ReadClock ==
  /\ pc = "loop"
  /\ canAddDownload(active) /\ heap # {}
  /\ pc' = IF TopIsDue(heap, 0) THEN "add" ELSE "waitUntil"
  /\ UNCHANGED <<batch, urlList, downloads, heap, crtTime, active, ioVars,
                 queueVars, history>>

(* executeOrWaitAndExecute returns from its wait with the whole queue. *)
WaitAndExecute ==
  /\ pc = "wait"
  /\ finishActions # <<>>
  /\ toBeExecuted' = finishActions
  /\ finishActions' = <<>>
  /\ pc' = "execute"
  /\ UNCHANGED <<batch, urlList, downloads, heap, crtTime, active, ioVars,
                 history>>

(* executeOrWaitAndExecuteOrWaitUntil(topTime()): an action or the time. *)
WaitUntilAndExecute ==
  /\ pc = "waitUntil"
  /\ finishActions # <<>> \/ TopIsDue(heap, 0)
  /\ toBeExecuted' = finishActions
  /\ finishActions' = <<>>
  /\ pc' = "execute"
  /\ UNCHANGED <<batch, urlList, downloads, heap, crtTime, active, ioVars,
                 history>>

(* One pass of the do loop: pop the top queue's next download, start it. *)
StartDownload(x) ==
  /\ pc = "add"
  /\ x \in Top(heap)
  /\ heap' = heap \ {x}
  /\ downloads' = PopDownload(downloads, x.queue)
  /\ flying' = flying \cup {NextDownload(downloads, x.queue)}
  /\ active' = active + 1
  /\ IF canAddDownload(active') /\ TopIsDue(heap', crtTime)
     THEN UNCHANGED <<pc, crtTime>>
     ELSE pc' = "drain" /\ crtTime' = 0
  /\ UNCHANGED <<batch, urlList, calling, notifying, queueVars, history>>

(* Mutant: the batch is cleared before it is run. *)
DrainLosingBatch ==
  /\ pc = "drain"
  /\ toBeExecuted' = <<>>
  /\ finishActions' = <<>>
  /\ pc' = "execute"
  /\ UNCHANGED <<batch, urlList, downloads, heap, crtTime, active, ioVars,
                 history>>

(* finishActions.execute(): whatever is there, without waiting. *)
Drain ==
  /\ pc = "drain"
  /\ toBeExecuted' = finishActions
  /\ finishActions' = <<>>
  /\ pc' = "execute"
  /\ UNCHANGED <<batch, urlList, downloads, heap, crtTime, active, ioVars,
                 history>>

(* Mutant: TimeHeap::push with its default delay. *)
NoDelay == 0

(* The delay a finish action gives a queue that still has downloads. *)
PushDelay == Delay

(* Mutants of the finish action: an empty queue is erased and pushed, is   *)
(* pushed and not erased, is neither.                                      *)
FinishActionWith(heapHosts, erased) ==
  /\ pc = "execute" /\ toBeExecuted # <<>>
  /\ LET h == Head(toBeExecuted)
     IN  /\ heap' = IF h \in heapHosts THEN Push(heap, h, PushDelay) ELSE heap
         /\ downloads' = IF h \in erased THEN Erase(downloads, h)
                                         ELSE downloads
  /\ active' = active - 1
  /\ toBeExecuted' = Tail(toBeExecuted)
  /\ UNCHANGED <<pc, batch, urlList, crtTime, ioVars, finishActions, history>>

EmptyQueues == {h \in DOMAIN downloads : downloads[h] = <<>>}

EraseAndPush == FinishActionWith(Host, EmptyQueues)
PushEmptyQueue == FinishActionWith(Host, {})
KeepEmptyQueue == FinishActionWith(DOMAIN downloads \ EmptyQueues, {})

(* DownloadFinishedAction, run by the crawl thread. *)
RunFinishAction ==
  /\ pc = "execute" /\ toBeExecuted # <<>>
  /\ LET h == Head(toBeExecuted)
     IN  IF downloads[h] # <<>>
         THEN /\ heap' = Push(heap, h, PushDelay)
              /\ UNCHANGED downloads
         ELSE /\ downloads' = Erase(downloads, h)
              /\ UNCHANGED heap
  /\ active' = active - 1
  /\ toBeExecuted' = Tail(toBeExecuted)
  /\ UNCHANGED <<pc, batch, urlList, crtTime, ioVars, finishActions, history>>

LoopBack ==
  /\ pc = "execute" /\ toBeExecuted = <<>>
  /\ pc' = "loop"
  /\ UNCHANGED <<batch, urlList, downloads, heap, crtTime, active, ioVars,
                 queueVars, history>>

-----------------------------------------------------------------------------
(* The io thread: it runs one callback at a time. *)

(* A transfer ends, well or badly, and its callback is called. *)
FinishDownload(job, ok) ==
  /\ job \in flying
  /\ calling = {} /\ notifying = {}
  /\ flying' = flying \ {job}
  /\ calling' = {job}
  /\ ended' = ended \cup {job}
  /\ failed' = IF job \in Robot /\ ~ok THEN failed \cup {job} ELSE failed
  /\ since' = [since EXCEPT ![HostOf(job)] = 0]
  /\ UNCHANGED <<crawlVars, notifying, queueVars, dispatched, callCount>>

(* The callback of a URL: the element's own callback. *)
CallUserCallback(e) ==
  /\ e \in calling
  /\ callCount' = [callCount EXCEPT ![e] = @ + 1]
  /\ calling' = {} /\ notifying' = {e}
  /\ UNCHANGED <<crawlVars, flying, queueVars, dispatched, ended, failed,
                 since>>

(* The callback of a robots.txt, whatever its result: release one URL. *)
AddUrl(r) ==
  /\ r \in calling
  /\ urlList[r] # <<>>
  /\ downloads' = AddDownload(downloads, r.host, Head(urlList[r]))
  /\ urlList' = [urlList EXCEPT ![r] = Tail(@)]
  /\ UNCHANGED <<pc, batch, heap, crtTime, active, ioVars, queueVars, history>>

(* Mutant: the callback goes on before all of its URLs are queued. *)
SomeUrlsAdded(r) ==
  /\ r \in calling
  /\ calling' = {} /\ notifying' = {r}
  /\ UNCHANGED <<crawlVars, flying, queueVars, history>>

AllUrlsAdded(r) ==
  /\ r \in calling
  /\ urlList[r] = <<>>
  /\ calling' = {} /\ notifying' = {r}
  /\ UNCHANGED <<crawlVars, flying, queueVars, history>>

(* Mutant: a callback that reports its end twice. *)
PushTwice(job) ==
  /\ job \in notifying
  /\ notifying' = {}
  /\ finishActions' = finishActions \o <<HostOf(job), HostOf(job)>>
  /\ UNCHANGED <<crawlVars, flying, calling, toBeExecuted, history>>

(* onFinishedDownload(dwQueue): push a finish action for the queue. *)
PushFinishAction(job) ==
  /\ job \in notifying
  /\ notifying' = {}
  /\ finishActions' = Append(finishActions, HostOf(job))
  /\ UNCHANGED <<crawlVars, flying, calling, toBeExecuted, history>>

-----------------------------------------------------------------------------
(* Time passes, while anything recorded still depends on it. *)
Tick ==
  /\ \A x \in heap : x.due > -Horizon
  /\ crtTime > -Horizon
  /\ heap # {} \/ \E h \in Host : since[h] < Delay
  /\ heap' = {Entry(x.queue, x.due - 1) : x \in heap}
  /\ crtTime' = IF pc = "add" THEN crtTime - 1 ELSE crtTime
  /\ since' = [h \in Host |-> IF since[h] < Delay THEN since[h] + 1 ELSE Delay]
  /\ UNCHANGED <<pc, batch, urlList, downloads, active, ioVars, queueVars,
                 dispatched, ended, failed, callCount>>

(* crawl() has returned and nothing is left to happen. *)
Terminated == pc = "done" /\ UNCHANGED vars

CrawlThread ==
  \/ \E b \in Batches : StartRound(b)
  \/ StopCrawling
  \/ SkipInvalidUrl \/ AddRobotsDownload \/ AppendToUrlList
  \/ BuildHeap \/ EndRound \/ GoWait \/ ReadClock
  \/ WaitAndExecute \/ WaitUntilAndExecute
  \/ \E x \in heap : StartDownload(x)
  \/ Drain \/ RunFinishAction \/ LoopBack

RunCallback ==
  \/ \E e \in Elem : CallUserCallback(e)
  \/ \E r \in Robot : AddUrl(r) \/ AllUrlsAdded(r)
  \/ \E job \in Job : PushFinishAction(job)

Next ==
  \/ CrawlThread
  \/ \E job \in Job, ok \in BOOLEAN : FinishDownload(job, ok)
  \/ RunCallback
  \/ Tick
  \/ Terminated

Spec == Init /\ [][Next]_vars

(***************************************************************************)
(* The crawl thread and the io thread are scheduled, every transfer ends   *)
(* (CURLOPT_TIMEOUT bounds it) and time passes.                            *)
(***************************************************************************)
Fairness ==
  /\ WF_vars(CrawlThread)
  /\ WF_vars(RunCallback)
  /\ \A job \in Job : WF_vars(\E ok \in BOOLEAN : FinishDownload(job, ok))
  /\ WF_vars(Tick)

FairSpec == Spec /\ Fairness

-----------------------------------------------------------------------------
(* Every variable has its type: the numbers in range, the maps over hosts. *)
TypeOK ==
  /\ pc \in CrawlPc
  /\ batch \in Seq(Elem)
  /\ DOMAIN urlList \subseteq Robot
  /\ urlList \in [DOMAIN urlList -> Seq(Elem)]
  /\ DOMAIN downloads \subseteq Host
  /\ downloads \in [DOMAIN downloads -> Seq(Job)]
  /\ heap \subseteq [queue : Host, due : Int]
  /\ crtTime \in Int
  /\ active \in Nat
  /\ flying \subseteq Job /\ calling \subseteq Job /\ notifying \subseteq Job
  /\ finishActions \in Seq(Host)
  /\ toBeExecuted \in Seq(Host)
  /\ dispatched \subseteq Elem
  /\ ended \subseteq Job
  /\ failed \subseteq Robot
  /\ since \in [Host -> 0..Delay]
  /\ callCount \in [Elem -> Nat]

HeapHosts == {x.queue : x \in heap}
JobHosts == {HostOf(job) : job \in InFlight}
QueuedHosts == Range(finishActions)
ExecHosts == Range(toBeExecuted)
BusyHosts == JobHosts \cup QueuedHosts \cup ExecHosts

InRound == pc \notin {"keep", "populate", "done"}

(***************************************************************************)
(* A host's queue is never in two hands.  During a round every queue that  *)
(* exists has exactly one owner: a heap entry (crawl thread), a job of the *)
(* downloader (io thread), a queued finish action, or one being executed;  *)
(* and no owner holds a queue that was erased.  This is what makes the     *)
(* unlocked use of DownloadQueues by two threads sound: an iterator held   *)
(* in a closure never dangles and no vector is changed by both.            *)
(***************************************************************************)
QueueOwnership ==
  /\ InRound => DOMAIN downloads = HeapHosts \cup BusyHosts
  /\ ~InRound => heap = {} /\ BusyHosts = {}
  /\ \A x, y \in heap : x.queue = y.queue => x = y
  /\ \A i, j \in InFlight : HostOf(i) = HostOf(j) => i = j
  /\ IsInjective(finishActions) /\ IsInjective(toBeExecuted)
  /\ HeapHosts \cap BusyHosts = {}
  /\ JobHosts \cap (QueuedHosts \cup ExecHosts) = {}
  /\ QueuedHosts \cap ExecHosts = {}
  /\ flying \cap (calling \cup notifying) = {}
  /\ calling \cap notifying = {}

(***************************************************************************)
(* activeDownloads, incremented by the loop and decremented by the finish  *)
(* actions, counts the queues between a start and the end of their finish  *)
(* action, and never exceeds maxActiveQueues.                              *)
(***************************************************************************)
ActiveCount ==
  /\ active = Cardinality(BusyHosts)
  /\ active <= MaxActive

(* TimeHeap::pop never pops an empty queue, for which popDownload throws. *)
PopSafe == \A x \in heap : downloads[x.queue] # <<>>

(***************************************************************************)
(* The crawl thread never sleeps for good: when executeOrWaitAndExecute    *)
(* waits on an empty action queue, some download is on its way whose       *)
(* callback will push.                                                     *)
(***************************************************************************)
WaitHasWaker == pc = "wait" /\ finishActions = <<>> => InFlight # {}

(***************************************************************************)
(* A round does not end before the callback of every valid URL it was      *)
(* given has been called, and no callback is called twice: every URL is    *)
(* answered once ("Call download result for each finished download").      *)
(***************************************************************************)
AnsweredOnce ==
  /\ \A e \in Elem : callCount[e] <= 1
  /\ pc = "keep" => \A e \in dispatched \cap ValidElem : callCount[e] = 1

(***************************************************************************)
(* Within a round a host is not asked again until Delay after its last     *)
(* download ended.                                                         *)
(***************************************************************************)
PoliteWithinRound ==
  [][\A job \in flying' \ flying :
       (\E j \in ended : HostOf(j) = HostOf(job))
         => since[HostOf(job)] >= Delay]_vars

(***************************************************************************)
(* No URL is downloaded before the robots.txt of its scheme and host has   *)
(* ended in the same round, and no download is made twice in a round.      *)
(***************************************************************************)
RobotsFirst ==
  [][\A job \in flying' \ flying :
       /\ job \notin ended
       /\ job \in Elem => RobotOf(job) \in ended]_vars

(* Every round comes to its end, so the dispatcher is asked again. *)
RoundEnds == (pc = "populate") ~> (pc = "keep")

(* Every valid URL the dispatcher returns is answered. *)
EveryUrlAnswered ==
  \A e \in ValidElem : (e \in dispatched) ~> (callCount[e] = 1)
=============================================================================
