---------------------------- MODULE CrawlerProofs ----------------------------
(***************************************************************************)
(* Proofs about Crawler, for every set of hosts and URLs, every batch the  *)
(* dispatcher may return, every limit and every delay.                     *)
(***************************************************************************)
EXTENDS Crawler, Vectors, FiniteSetTheorems, SequenceTheorems, TLAPS

-----------------------------------------------------------------------------
(* The inductive invariant: the properties and what their proofs need.     *)

(* A host's queue holds downloads of that host only, and the robots.txt    *)
(* downloads in it have a list of URLs of their host to release.           *)
QueueContents ==
  /\ \A h \in DOMAIN downloads : \A i \in 1..Len(downloads[h]) :
       /\ HostOf(downloads[h][i]) = h
       /\ downloads[h][i] \in Robot => downloads[h][i] \in DOMAIN urlList
  /\ \A r \in DOMAIN urlList : \A i \in 1..Len(urlList[r]) :
       UrlHost[urlList[r][i]] = r.host
  /\ InFlight \cap Robot \subseteq DOMAIN urlList

(* What the place of each thread says of the other variables. *)
PcInvariant ==
  /\ pc = "populate" => \A h \in DOMAIN downloads : downloads[h] # <<>>
  /\ pc \in {"keep", "done"} => DOMAIN downloads = {}
  /\ pc # "execute" => toBeExecuted = <<>>
  /\ pc = "wait" => RoundHasWork /\ (~canAddDownload(active) \/ heap = {})
  /\ pc = "add" => canAddDownload(active) /\ TopIsDue(heap, crtTime)
  /\ crtTime <= 0 /\ (pc # "add" => crtTime = 0)
  /\ \A i, j \in calling \cup notifying : i = j

IInv ==
  /\ TypeOK
  /\ QueueOwnership
  /\ ActiveCount /\ IsFiniteSet(BusyHosts)
  /\ PopSafe
  /\ QueueContents
  /\ PcInvariant

-----------------------------------------------------------------------------
(* The operations of DownloadQueues keep a map of queues a map of queues. *)

LEMMA RobotType ==
  /\ \A r \in Robot : r.scheme \in Scheme /\ r.host \in Host /\ HostOf(r) = r.host
  /\ \A e \in Elem : RobotOf(e) \in Robot /\ RobotOf(e).host = UrlHost[e]
                     /\ HostOf(e) = UrlHost[e]
  /\ \A job \in Job : HostOf(job) \in Host
  BY UrlAssumption DEF Robot, RobotOf, HostOf, Job

-----------------------------------------------------------------------------
(* Every action preserves the inductive invariant. *)

LEMMA InitInv == Init => IInv
<1> SUFFICES ASSUME Init PROVE IInv
  OBVIOUS
<1> USE DEF Init
<1>1. TypeOK
  BY CrawlerAssumption DEF TypeOK, CrawlPc, NoUrls, NoQueues
<1>2. HeapHosts = {} /\ BusyHosts = {}
  BY EmptyRange DEF HeapHosts, BusyHosts, JobHosts, QueuedHosts, ExecHosts,
                    InFlight
<1>3. QueueOwnership
  BY <1>2, EmptyRange DEF QueueOwnership, InRound, InFlight, JobHosts,
                          BusyHosts
<1>4. ActiveCount /\ IsFiniteSet(BusyHosts)
  BY <1>2, FS_EmptySet, CrawlerAssumption DEF ActiveCount
<1>5. PopSafe /\ QueueContents /\ PcInvariant
  BY DEF PopSafe, QueueContents, PcInvariant, NoUrls, NoQueues, InFlight
<1> QED
  BY <1>1, <1>3, <1>4, <1>5 DEF IInv

(* A step that leaves the owners alone. *)
OwnersUnchanged ==
  UNCHANGED <<heap, flying, calling, notifying, finishActions, toBeExecuted>>

LEMMA OwnersSame ==
  OwnersUnchanged => UNCHANGED <<HeapHosts, InFlight, JobHosts, QueuedHosts,
                                 ExecHosts, BusyHosts>>
  BY DEF OwnersUnchanged, HeapHosts, InFlight, JobHosts, QueuedHosts,
         ExecHosts, BusyHosts

LEMMA StartRoundInv ==
  ASSUME IInv, NEW b \in Batches, StartRound(b)
  PROVE  IInv'
<1> USE DEF StartRound, ioVars, queueVars
<1>0. OwnersUnchanged /\ UNCHANGED <<HeapHosts, InFlight, JobHosts, QueuedHosts,
                                     ExecHosts, BusyHosts>>
  BY OwnersSame DEF OwnersUnchanged
<1>1. TypeOK'
  BY CrawlerAssumption DEF IInv, TypeOK, CrawlPc, Range
<1>2. QueueOwnership'
  BY <1>0 DEF IInv, QueueOwnership, InRound
<1>3. ActiveCount' /\ IsFiniteSet(BusyHosts)'
  BY <1>0 DEF IInv, ActiveCount
<1>4. PopSafe' /\ QueueContents'
  BY <1>0 DEF IInv, PopSafe, QueueContents
<1>5. PcInvariant'
  BY DEF IInv, PcInvariant
<1> QED
  BY <1>1, <1>2, <1>3, <1>4, <1>5 DEF IInv

LEMMA PcStepInv ==
  ASSUME IInv,
         StopCrawling \/ GoWait \/ ReadClock \/ LoopBack
  PROVE  IInv'
<1> USE DEF StopCrawling, GoWait, ReadClock, LoopBack, ioVars,
            queueVars, history
<1>0. OwnersUnchanged /\ UNCHANGED <<HeapHosts, InFlight, JobHosts, QueuedHosts,
                                     ExecHosts, BusyHosts>>
  BY OwnersSame DEF OwnersUnchanged
<1>1. TypeOK'
  BY DEF IInv, TypeOK, CrawlPc, NoUrls
<1>2. QueueOwnership'
  BY <1>0 DEF IInv, QueueOwnership, InRound, RoundHasWork
<1>3. ActiveCount' /\ IsFiniteSet(BusyHosts)'
  BY <1>0 DEF IInv, ActiveCount
<1>4. PopSafe' /\ QueueContents'
  BY <1>0 DEF IInv, PopSafe, QueueContents
<1>5. PcInvariant'
  BY <1>0 DEF IInv, PcInvariant, RoundHasWork
<1> QED
  BY <1>1, <1>2, <1>3, <1>4, <1>5 DEF IInv

LEMMA EndRoundInv ==
  ASSUME IInv, EndRound
  PROVE  IInv'
<1> USE DEF EndRound, RoundHasWork, ioVars, queueVars, history
<1>0. OwnersUnchanged /\ UNCHANGED <<HeapHosts, InFlight, JobHosts, QueuedHosts,
                                     ExecHosts, BusyHosts>>
  BY OwnersSame DEF OwnersUnchanged
<1>1. TypeOK'
  BY DEF IInv, TypeOK, CrawlPc, NoUrls
<1>2. HeapHosts = {} /\ BusyHosts = {} /\ InFlight = {}
  BY DEF IInv, QueueOwnership, InRound, BusyHosts, JobHosts
<1>3. QueueOwnership'
  BY <1>0, <1>2 DEF IInv, QueueOwnership, InRound
<1>4. ActiveCount' /\ IsFiniteSet(BusyHosts)'
  BY <1>0 DEF IInv, ActiveCount
<1>5. PopSafe' /\ QueueContents'
  BY <1>0, <1>2 DEF IInv, PopSafe, QueueContents, NoUrls
<1>6. PcInvariant'
  BY DEF IInv, PcInvariant
<1> QED
  BY <1>1, <1>3, <1>4, <1>5, <1>6 DEF IInv

(* populateDownloadQueuesWithRobots. *)

LEMMA SkipInvalidUrlInv ==
  ASSUME IInv, SkipInvalidUrl
  PROVE  IInv'
<1> USE DEF SkipInvalidUrl, ioVars, queueVars, history
<1>0. OwnersUnchanged /\ UNCHANGED <<HeapHosts, InFlight, JobHosts, QueuedHosts,
                                     ExecHosts, BusyHosts>>
  BY OwnersSame DEF OwnersUnchanged
<1>1. TypeOK'
  BY DEF IInv, TypeOK
<1>2. QueueOwnership'
  BY <1>0 DEF IInv, QueueOwnership, InRound
<1>3. ActiveCount' /\ IsFiniteSet(BusyHosts)'
  BY <1>0 DEF IInv, ActiveCount
<1>4. PopSafe' /\ QueueContents'
  BY <1>0 DEF IInv, PopSafe, QueueContents
<1>5. PcInvariant'
  BY DEF IInv, PcInvariant, RoundHasWork
<1> QED
  BY <1>1, <1>2, <1>3, <1>4, <1>5 DEF IInv

LEMMA AddRobotsDownloadInv ==
  ASSUME IInv, AddRobotsDownload
  PROVE  IInv'
<1> USE DEF ioVars, queueVars, history
<1> DEFINE e == Head(batch)
           r == RobotOf(e)
           old == IF r.host \in DOMAIN downloads THEN downloads[r.host]
                                                 ELSE <<>>
<1>0. OwnersUnchanged /\ UNCHANGED <<HeapHosts, InFlight, JobHosts, QueuedHosts,
                                     ExecHosts, BusyHosts>>
  BY OwnersSame DEF OwnersUnchanged, AddRobotsDownload
<1>1. /\ pc = "populate" /\ pc' = pc /\ batch # <<>>
      /\ e \in Elem /\ r \in Robot /\ r.host = UrlHost[e] /\ HostOf(r) = r.host
      /\ r.host \in Host /\ r \in Job /\ r \notin DOMAIN urlList
      /\ Tail(batch) \in Seq(Elem)
  BY RobotType, TailRange DEF AddRobotsDownload, IInv, TypeOK, Job
<1>2. /\ downloads' = [h \in DOMAIN downloads \cup {r.host} |->
                         IF h = r.host THEN Append(old, r) ELSE downloads[h]]
      /\ old \in Seq(Job)
  <2>1. old \in Seq(Job)
    BY <1>1 DEF IInv, TypeOK
  <2>2. downloads' = AddDownload(GetQueueByHost(downloads, r.host), r.host, r)
    BY DEF AddRobotsDownload
  <2> HIDE DEF r
  <2>3. downloads' = [h \in DOMAIN downloads \cup {r.host} |->
                        IF h = r.host THEN Append(old, r) ELSE downloads[h]]
    BY <2>2 DEF AddDownload, GetQueueByHost
  <2> QED
    BY <2>1, <2>3
<1>3. urlList' = [x \in DOMAIN urlList \cup {r} |->
                    IF x = r THEN <<e>> ELSE urlList[x]]
  BY DEF AddRobotsDownload
<1> HIDE DEF e, r, old
<1>4. TypeOK'
  <2>1. urlList' \in [DOMAIN urlList' -> Seq(Elem)]
    BY <1>1, <1>3 DEF IInv, TypeOK
  <2>2. downloads' \in [DOMAIN downloads' -> Seq(Job)]
    BY <1>1, <1>2 DEF IInv, TypeOK
  <2> QED
    BY <1>1, <1>2, <1>3, <2>1, <2>2 DEF AddRobotsDownload, IInv, TypeOK, e, r
<1>5. heap = {} /\ BusyHosts = {} /\ InFlight = {}
  BY <1>1 DEF IInv, QueueOwnership, InRound, BusyHosts, JobHosts
<1>6. QueueOwnership'
  BY <1>0, <1>1 DEF AddRobotsDownload, IInv, QueueOwnership, InRound
<1>7. ActiveCount' /\ IsFiniteSet(BusyHosts)'
  BY <1>0 DEF IInv, ActiveCount, AddRobotsDownload
<1>8. PopSafe'
  BY <1>0, <1>5 DEF AddRobotsDownload, PopSafe
<1>9. QueueContents'
  <2>1. ASSUME NEW h \in DOMAIN downloads', NEW i \in 1..Len(downloads'[h])
        PROVE  /\ HostOf(downloads'[h][i]) = h
               /\ downloads'[h][i] \in Robot =>
                    downloads'[h][i] \in DOMAIN urlList'
    <3>1. CASE h # r.host
      BY <2>1, <3>1, <1>2, <1>3 DEF IInv, QueueContents
    <3>2. CASE h = r.host /\ i = Len(old) + 1
      BY <2>1, <3>2, <1>1, <1>2, <1>3
    <3>3. CASE h = r.host /\ i # Len(old) + 1
      <4>1. i \in 1..Len(old) /\ downloads'[h][i] = old[i]
        BY <2>1, <3>3, <1>1, <1>2
      <4>2. h \in DOMAIN downloads /\ old = downloads[h]
        BY <4>1, <3>3 DEF old
      <4> QED
        BY <4>1, <4>2, <1>3 DEF IInv, QueueContents
    <3> QED
      BY <3>1, <3>2, <3>3
  <2>2. ASSUME NEW x \in DOMAIN urlList', NEW i \in 1..Len(urlList'[x])
        PROVE  UrlHost[urlList'[x][i]] = x.host
    <3>1. CASE x = r
      BY <2>2, <3>1, <1>1, <1>3
    <3>2. CASE x # r
      BY <2>2, <3>2, <1>3 DEF IInv, QueueContents
    <3> QED
      BY <3>1, <3>2
  <2> QED
    BY <2>1, <2>2, <1>0, <1>5 DEF QueueContents
<1>10. PcInvariant'
  <2>1. \A h \in DOMAIN downloads' : downloads'[h] # <<>>
    <3>1. Append(old, r) # <<>>
      BY <1>1, <1>2
    <3> QED
      BY <3>1, <1>1, <1>2 DEF IInv, PcInvariant
  <2> QED
    BY <1>1, <2>1 DEF AddRobotsDownload, IInv, PcInvariant
<1> QED
  BY <1>4, <1>6, <1>7, <1>8, <1>9, <1>10 DEF IInv

LEMMA AppendToUrlListInv ==
  ASSUME IInv, AppendToUrlList
  PROVE  IInv'
<1> USE DEF ioVars, queueVars, history
<1> DEFINE e == Head(batch)
           r == RobotOf(e)
<1>0. OwnersUnchanged /\ UNCHANGED <<HeapHosts, InFlight, JobHosts, QueuedHosts,
                                     ExecHosts, BusyHosts>>
  BY OwnersSame DEF OwnersUnchanged, AppendToUrlList
<1>1. /\ batch # <<>> /\ e \in Elem /\ r.host = UrlHost[e]
      /\ r \in DOMAIN urlList /\ urlList[r] \in Seq(Elem)
      /\ Tail(batch) \in Seq(Elem)
  BY RobotType, TailRange DEF AppendToUrlList, IInv, TypeOK
<1>2. /\ DOMAIN urlList' = DOMAIN urlList
      /\ \A x \in DOMAIN urlList :
           urlList'[x] = IF x = r THEN Append(urlList[r], e) ELSE urlList[x]
      /\ urlList' \in [DOMAIN urlList' -> Seq(Elem)]
  BY <1>1 DEF AppendToUrlList, IInv, TypeOK
<1> HIDE DEF e, r
<1>3. TypeOK'
  BY <1>1, <1>2 DEF AppendToUrlList, IInv, TypeOK
<1>4. QueueOwnership'
  BY <1>0 DEF AppendToUrlList, IInv, QueueOwnership, InRound
<1>5. ActiveCount' /\ IsFiniteSet(BusyHosts)'
  BY <1>0 DEF AppendToUrlList, IInv, ActiveCount
<1>6. PopSafe'
  BY DEF AppendToUrlList, IInv, PopSafe
<1>7. QueueContents'
  <2>1. ASSUME NEW x \in DOMAIN urlList', NEW i \in 1..Len(urlList'[x])
        PROVE  UrlHost[urlList'[x][i]] = x.host
    <3>1. CASE x # r
      BY <2>1, <3>1, <1>2 DEF IInv, QueueContents
    <3>2. CASE x = r
      BY <2>1, <3>2, <1>1, <1>2 DEF IInv, QueueContents
    <3> QED
      BY <3>1, <3>2
  <2> QED
    BY <2>1, <1>0, <1>2 DEF AppendToUrlList, IInv, QueueContents
<1>8. PcInvariant'
  BY DEF AppendToUrlList, IInv, PcInvariant
<1> QED
  BY <1>3, <1>4, <1>5, <1>6, <1>7, <1>8 DEF IInv

LEMMA BuildHeapInv ==
  ASSUME IInv, BuildHeap
  PROVE  IInv'
<1> USE DEF BuildHeap, HeapOf, Entry, ioVars, queueVars, history
<1>1. BusyHosts = {} /\ UNCHANGED <<InFlight, JobHosts, QueuedHosts, ExecHosts,
                                    BusyHosts>>
  BY DEF IInv, QueueOwnership, InRound, InFlight, JobHosts, QueuedHosts,
         ExecHosts, BusyHosts
<1>2. HeapHosts' = DOMAIN downloads
  <2>1. \A g \in DOMAIN downloads : \E x \in heap' : x.queue = g
    <3> TAKE g \in DOMAIN downloads
    <3> WITNESS Entry(g, 0) \in heap'
    <3> QED
      OBVIOUS
  <2>2. \A x \in heap' : x.queue \in DOMAIN downloads
    OBVIOUS
  <2> QED
    BY <2>1, <2>2 DEF HeapHosts
<1>3. TypeOK'
  BY DEF IInv, TypeOK, CrawlPc
<1>4. QueueOwnership'
  BY <1>1, <1>2 DEF IInv, QueueOwnership, InRound
<1>5. ActiveCount' /\ IsFiniteSet(BusyHosts)'
  BY <1>1 DEF IInv, ActiveCount
<1>6. PopSafe' /\ QueueContents' /\ PcInvariant'
  BY <1>1 DEF IInv, PopSafe, QueueContents, PcInvariant
<1> QED
  BY <1>3, <1>4, <1>5, <1>6 DEF IInv

(* The crawl thread takes the batch of actions. *)

LEMMA TakeActionsInv ==
  ASSUME IInv, WaitAndExecute \/ WaitUntilAndExecute \/ Drain
  PROVE  IInv'
<1> USE DEF WaitAndExecute, WaitUntilAndExecute, Drain, ioVars, history
<1>1. toBeExecuted = <<>> /\ ExecHosts = {}
  BY EmptyRange DEF IInv, PcInvariant, ExecHosts
<1>2. /\ UNCHANGED <<InFlight, JobHosts, HeapHosts>>
      /\ ExecHosts' = QueuedHosts /\ QueuedHosts' = {}
  BY EmptyRange DEF InFlight, JobHosts, HeapHosts, ExecHosts, QueuedHosts
<1>3. UNCHANGED BusyHosts
  BY <1>1, <1>2 DEF BusyHosts
<1>4. TypeOK'
  BY EmptySeq DEF IInv, TypeOK, CrawlPc
<1>5. QueueOwnership'
  <2>1. IsInjective(finishActions') /\ IsInjective(toBeExecuted')
    BY EmptyRange DEF IInv, QueueOwnership
  <2> QED
    BY <1>1, <1>2, <1>3, <2>1 DEF IInv, QueueOwnership, InRound
<1>6. ActiveCount' /\ IsFiniteSet(BusyHosts)'
  BY <1>3 DEF IInv, ActiveCount
<1>7. PopSafe' /\ QueueContents' /\ PcInvariant'
  BY <1>2 DEF IInv, PopSafe, QueueContents, PcInvariant
<1> QED
  BY <1>4, <1>5, <1>6, <1>7 DEF IInv

(* The do loop starts the top of the heap. *)

LEMMA StartDownloadInv ==
  ASSUME IInv, NEW x \in heap, StartDownload(x)
  PROVE  IInv'
<1> DEFINE h == x.queue
           job == NextDownload(downloads, h)
<1>1. /\ h \in Host /\ h \in HeapHosts /\ h \in DOMAIN downloads
      /\ downloads[h] \in Seq(Job) /\ downloads[h] # <<>>
      /\ pc = "add" /\ InRound
  BY DEF StartDownload, IInv, TypeOK, HeapHosts, QueueOwnership, InRound, PopSafe
<1>2. /\ job \in Job /\ HostOf(job) = h
      /\ job \in Robot => job \in DOMAIN urlList
  <2>1. Len(downloads[h]) \in 1..Len(downloads[h])
    BY <1>1
  <2> QED
    BY <1>1, <2>1 DEF NextDownload, IInv, QueueContents
<1>3. /\ DOMAIN downloads' = DOMAIN downloads
      /\ \A g \in DOMAIN downloads :
           downloads'[g] = IF g = h THEN SubSeq(downloads[h], 1, Len(downloads[h]) - 1)
                                    ELSE downloads[g]
      /\ downloads'[h] \in Seq(Job)
      /\ downloads' \in [DOMAIN downloads' -> Seq(Job)]
      /\ \A i \in 1..Len(downloads'[h]) : /\ i \in 1..Len(downloads[h])
                                          /\ downloads'[h][i] = downloads[h][i]
  <2>1. downloads' = [downloads EXCEPT
                        ![h] = SubSeq(@, 1, Len(@) - 1)]
    BY DEF StartDownload, PopDownload
  <2> DEFINE s == downloads[h]
             t == SubSeq(s, 1, Len(s) - 1)
  <2>2. /\ t \in Seq(Job)
        /\ \A i \in 1..Len(t) : i \in 1..Len(s) /\ t[i] = s[i]
    BY <1>1
  <2>3. DOMAIN downloads' = DOMAIN downloads /\ downloads'[h] = t
    BY <2>1, <1>1
  <2> HIDE DEF s, t
  <2>4. \A g \in DOMAIN downloads : g # h => downloads'[g] = downloads[g]
    BY <2>1, <1>1
  <2>5. downloads' \in [DOMAIN downloads' -> Seq(Job)]
    BY <2>1, <2>2, <1>1 DEF IInv, TypeOK, s, t
  <2> QED
    BY <2>2, <2>3, <2>4, <2>5 DEF s, t
<1>4. /\ heap' = heap \ {x} /\ active' = active + 1
      /\ flying' = flying \cup {job}
      /\ UNCHANGED <<batch, urlList, calling, notifying, finishActions,
                     toBeExecuted, history>>
      /\ pc' \in {"add", "drain"}
      /\ crtTime' = IF pc' = "add" THEN crtTime ELSE 0
      /\ pc' = "add" => canAddDownload(active') /\ TopIsDue(heap', crtTime)
  BY <1>1 DEF StartDownload, queueVars
<1> HIDE DEF h, job
<1>5. /\ HeapHosts' = HeapHosts \ {h}
      /\ InFlight' = InFlight \cup {job}
      /\ JobHosts' = JobHosts \cup {h}
      /\ UNCHANGED <<QueuedHosts, ExecHosts>>
      /\ BusyHosts' = BusyHosts \cup {h}
  <2>1. HeapHosts' = HeapHosts \ {h}
    BY <1>4 DEF IInv, QueueOwnership, HeapHosts, h
  <2>2. InFlight' = InFlight \cup {job}
    BY <1>4 DEF InFlight
  <2>3. JobHosts' = JobHosts \cup {h}
    BY <2>2, <1>2 DEF JobHosts
  <2>4. UNCHANGED <<QueuedHosts, ExecHosts>>
    BY <1>4 DEF QueuedHosts, ExecHosts
  <2> QED
    BY <2>1, <2>2, <2>3, <2>4 DEF BusyHosts
<1>6. h \notin BusyHosts
  BY <1>1 DEF IInv, QueueOwnership
<1>7. TypeOK'
  <2>1. heap' \subseteq [queue : Host, due : Int] /\ crtTime' \in Int
        /\ active' \in Nat /\ pc' \in CrawlPc /\ flying' \subseteq Job
    BY <1>2, <1>4 DEF IInv, TypeOK, CrawlPc
  <2>2. DOMAIN downloads' \subseteq Host
        /\ downloads' \in [DOMAIN downloads' -> Seq(Job)]
    BY <1>3 DEF IInv, TypeOK
  <2> QED
    BY <2>1, <2>2, <1>4 DEF IInv, TypeOK, history
<1>8. QueueOwnership'
  <2>1. DOMAIN downloads' = HeapHosts' \cup BusyHosts' /\ InRound'
    BY <1>1, <1>3, <1>4, <1>5 DEF IInv, QueueOwnership, InRound
  <2>2. \A i, j \in InFlight' : HostOf(i) = HostOf(j) => i = j
    <3>1. \A i \in InFlight : HostOf(i) # h
      BY <1>6 DEF BusyHosts, JobHosts
    <3> QED
      BY <3>1, <1>2, <1>5 DEF IInv, QueueOwnership
  <2>3. job \notin InFlight
    BY <1>2, <1>6 DEF BusyHosts, JobHosts
  <2>4. /\ flying' \cap (calling' \cup notifying') = {}
        /\ calling' \cap notifying' = {}
    BY <2>3, <1>4 DEF IInv, QueueOwnership, InFlight
  <2> QED
    BY <2>1, <2>2, <2>4, <1>4, <1>5, <1>6
       DEF IInv, QueueOwnership, BusyHosts
<1>9. ActiveCount' /\ IsFiniteSet(BusyHosts)'
  <2>1. canAddDownload(active)
    BY <1>1 DEF IInv, PcInvariant
  <2>2. /\ IsFiniteSet(BusyHosts')
        /\ Cardinality(BusyHosts') = Cardinality(BusyHosts) + 1
    BY <1>5, <1>6, FS_AddElement DEF IInv
  <2> QED
    BY <2>1, <2>2, <1>4, CrawlerAssumption
       DEF IInv, ActiveCount, canAddDownload, TypeOK
<1>10. PopSafe'
  BY <1>3, <1>4 DEF IInv, PopSafe, QueueOwnership, HeapHosts, InRound, h, TypeOK
<1>11. QueueContents'
  <2>1. \A g \in DOMAIN downloads' : \A i \in 1..Len(downloads'[g]) :
          /\ HostOf(downloads'[g][i]) = g
          /\ downloads'[g][i] \in Robot => downloads'[g][i] \in DOMAIN urlList'
    BY <1>3, <1>4 DEF IInv, QueueContents
  <2> QED
    BY <2>1, <1>2, <1>4, <1>5 DEF IInv, QueueContents
<1>12. PcInvariant'
  BY <1>1, <1>4 DEF IInv, PcInvariant
<1> QED
  BY <1>7, <1>8, <1>9, <1>10, <1>11, <1>12 DEF IInv

(* A finish action gives the queue back to the heap, or erases it. *)

LEMMA RunFinishActionInv ==
  ASSUME IInv, RunFinishAction
  PROVE  IInv'
<1> DEFINE h == Head(toBeExecuted)
<1>1. /\ pc = "execute" /\ pc' = pc /\ InRound /\ InRound'
      /\ toBeExecuted # <<>> /\ toBeExecuted' = Tail(toBeExecuted)
      /\ active' = active - 1
      /\ UNCHANGED <<batch, urlList, crtTime, flying, calling, notifying,
                     finishActions, history>>
  BY DEF RunFinishAction, ioVars, InRound
<1>2. /\ h \in ExecHosts /\ h \in Host /\ h \in DOMAIN downloads
      /\ h \notin HeapHosts
      /\ toBeExecuted' \in Seq(Host)
      /\ ExecHosts' = ExecHosts \ {h} /\ IsInjective(toBeExecuted')
  BY <1>1, TailRange
     DEF IInv, TypeOK, QueueOwnership, ExecHosts, BusyHosts, InRound
<1>3. /\ UNCHANGED <<InFlight, JobHosts, QueuedHosts>>
      /\ h \in BusyHosts /\ h \notin JobHosts /\ h \notin QueuedHosts
  BY <1>1, <1>2 DEF InFlight, JobHosts, QueuedHosts, BusyHosts, IInv,
                    QueueOwnership
<1>4. BusyHosts' = BusyHosts \ {h}
  BY <1>2, <1>3 DEF BusyHosts
<1>5. ActiveCount' /\ IsFiniteSet(BusyHosts)' /\ active' \in Nat
  <2>1. /\ IsFiniteSet(BusyHosts')
        /\ Cardinality(BusyHosts') = Cardinality(BusyHosts) - 1
        /\ Cardinality(BusyHosts') \in Nat
    BY <1>3, <1>4, FS_RemoveElement, FS_CardinalityType DEF IInv
  <2> QED
    BY <2>1, <1>1, CrawlerAssumption DEF IInv, ActiveCount, TypeOK
<1>6. CASE downloads[h] # <<>>
  <2>1. heap' = heap \cup {Entry(h, Delay)} /\ downloads' = downloads
    BY <1>6 DEF RunFinishAction, Push, PushDelay
  <2> HIDE DEF h
  <2>2. Entry(h, Delay).queue = h /\ Entry(h, Delay) \in [queue : Host, due : Int]
    BY <1>2, CrawlerAssumption DEF Entry
  <2>3. HeapHosts' = HeapHosts \cup {h}
    BY <2>1, <2>2 DEF HeapHosts
  <2>4. TypeOK'
    BY <1>1, <1>2, <1>5, <2>1, <2>2 DEF IInv, TypeOK, history
  <2>5. \A x, y \in heap' : x.queue = y.queue => x = y
    BY <1>2, <2>1, <2>2 DEF IInv, QueueOwnership, HeapHosts
  <2>6. QueueOwnership'
    BY <1>1, <1>2, <1>3, <1>4, <2>1, <2>3, <2>5 DEF IInv, QueueOwnership
  <2>7. PopSafe'
    BY <1>6, <2>1, <2>2 DEF IInv, PopSafe
  <2>8. QueueContents' /\ PcInvariant'
    BY <1>1, <1>3, <2>1 DEF IInv, QueueContents, PcInvariant
  <2> QED
    BY <1>5, <2>4, <2>6, <2>7, <2>8 DEF IInv
<1>7. CASE downloads[h] = <<>>
  <2>1. heap' = heap /\ downloads' = Erase(downloads, h)
    BY <1>7 DEF RunFinishAction
  <2> HIDE DEF h
  <2>2. /\ DOMAIN downloads' = DOMAIN downloads \ {h}
        /\ \A g \in DOMAIN downloads' : downloads'[g] = downloads[g]
        /\ downloads' \in [DOMAIN downloads' -> Seq(Job)]
    BY <2>1 DEF Erase, Restrict, IInv, TypeOK
  <2>3. HeapHosts' = HeapHosts
    BY <2>1 DEF HeapHosts
  <2>4. TypeOK'
    BY <1>1, <1>2, <1>5, <2>1, <2>2 DEF IInv, TypeOK, history
  <2>5. QueueOwnership'
    BY <1>1, <1>2, <1>3, <1>4, <2>1, <2>2, <2>3 DEF IInv, QueueOwnership
  <2>6. PopSafe'
    BY <1>1, <1>2, <2>1, <2>2 DEF IInv, PopSafe, QueueOwnership, HeapHosts
  <2>7. QueueContents' /\ PcInvariant'
    BY <1>1, <1>3, <2>1, <2>2 DEF IInv, QueueContents, PcInvariant
  <2> QED
    BY <1>5, <2>4, <2>5, <2>6, <2>7 DEF IInv
<1> QED
  BY <1>6, <1>7

(* The io thread moves a download from one stage to the next. *)

LEMMA FinishDownloadInv ==
  ASSUME IInv, NEW job \in Job, NEW ok \in BOOLEAN, FinishDownload(job, ok)
  PROVE  IInv'
<1> USE DEF FinishDownload, crawlVars, queueVars
<1>1. UNCHANGED <<InFlight, JobHosts, HeapHosts, QueuedHosts, ExecHosts,
                  BusyHosts>>
  <2>1. InFlight' = InFlight
    BY DEF InFlight
  <2> QED
    BY <2>1 DEF JobHosts, HeapHosts, QueuedHosts, ExecHosts, BusyHosts
<1>2. TypeOK'
  <2>1. HostOf(job) \in Host /\ 0 \in 0..Delay
    BY RobotType, CrawlerAssumption
  <2>2. since' \in [Host -> 0..Delay]
    BY <2>1 DEF IInv, TypeOK
  <2>3. failed' \subseteq Robot
    BY DEF IInv, TypeOK
  <2> QED
    BY <2>2, <2>3 DEF IInv, TypeOK
<1>3. QueueOwnership'
  BY <1>1 DEF IInv, QueueOwnership, InRound
<1>4. ActiveCount' /\ IsFiniteSet(BusyHosts)'
  BY <1>1 DEF IInv, ActiveCount
<1>5. PopSafe' /\ QueueContents' /\ PcInvariant'
  BY <1>1 DEF IInv, PopSafe, QueueContents, PcInvariant, RoundHasWork
<1> QED
  BY <1>2, <1>3, <1>4, <1>5 DEF IInv

LEMMA CallbackEndsInv ==
  ASSUME IInv,
         \/ \E e \in Elem : CallUserCallback(e)
         \/ \E r \in Robot : AllUrlsAdded(r)
  PROVE  IInv'
<1> PICK job \in Job :
      /\ job \in calling /\ calling' = {} /\ notifying' = {job}
      /\ UNCHANGED <<crawlVars, flying, queueVars, dispatched, ended, failed,
                     since>>
      /\ \/ callCount' = callCount
         \/ job \in Elem /\ callCount' = [callCount EXCEPT ![job] = @ + 1]
  BY DEF CallUserCallback, AllUrlsAdded, history, Job
<1> USE DEF crawlVars, queueVars
<1>1. calling = {job} /\ notifying = {}
  BY DEF IInv, PcInvariant, QueueOwnership
<1>2. UNCHANGED <<InFlight, JobHosts, HeapHosts, QueuedHosts, ExecHosts,
                  BusyHosts>>
  <2>1. InFlight' = InFlight
    BY <1>1 DEF InFlight
  <2> QED
    BY <2>1 DEF JobHosts, HeapHosts, QueuedHosts, ExecHosts, BusyHosts
<1>3. TypeOK'
  <2>1. callCount \in [Elem -> Nat]
    BY DEF IInv, TypeOK
  <2>2. callCount' \in [Elem -> Nat]
    BY <2>1
  <2> QED
    BY <2>2 DEF IInv, TypeOK
<1>4. QueueOwnership'
  BY <1>1, <1>2 DEF IInv, QueueOwnership, InRound
<1>5. ActiveCount' /\ IsFiniteSet(BusyHosts)'
  BY <1>2 DEF IInv, ActiveCount
<1>6. PopSafe' /\ QueueContents' /\ PcInvariant'
  BY <1>2 DEF IInv, PopSafe, QueueContents, PcInvariant, RoundHasWork
<1> QED
  BY <1>3, <1>4, <1>5, <1>6 DEF IInv

(* The robots.txt callback adds a URL to the queue its download holds. *)

LEMMA AddUrlInv ==
  ASSUME IInv, NEW r \in Robot, AddUrl(r)
  PROVE  IInv'
<1> USE DEF ioVars, queueVars, history
<1> DEFINE h == r.host
           e == Head(urlList[r])
<1>0. OwnersUnchanged /\ UNCHANGED <<HeapHosts, InFlight, JobHosts, QueuedHosts,
                                     ExecHosts, BusyHosts>>
  BY OwnersSame DEF OwnersUnchanged, AddUrl
<1>1. r \in DOMAIN urlList /\ urlList[r] \in Seq(Elem) /\ urlList[r] # <<>>
  BY DEF AddUrl, IInv, QueueContents, InFlight, TypeOK
<1>2. /\ e \in Elem /\ e \in Job /\ HostOf(e) = h /\ e \notin Robot
      /\ Tail(urlList[r]) \in Seq(Elem)
  <2>1. e = urlList[r][1] /\ 1 \in 1..Len(urlList[r])
    BY <1>1
  <2>2. UrlHost[e] = h
    BY <1>1, <2>1 DEF IInv, QueueContents
  <2> QED
    BY <1>1, <2>2, TailRange, RobotType, UrlAssumption DEF Job
<1>3. h \in JobHosts /\ h \in BusyHosts /\ InRound /\ h \in DOMAIN downloads
      /\ downloads[h] \in Seq(Job)
  <2>1. r \in InFlight /\ HostOf(r) = h
    BY RobotType DEF AddUrl, InFlight
  <2>2. h \in JobHosts /\ h \in BusyHosts
    BY <2>1 DEF JobHosts, BusyHosts
  <2> QED
    BY <2>2 DEF IInv, QueueOwnership, TypeOK
<1>4. /\ DOMAIN downloads' = DOMAIN downloads
      /\ \A g \in DOMAIN downloads :
           downloads'[g] = IF g = h THEN Append(downloads[h], e)
                                    ELSE downloads[g]
      /\ downloads' \in [DOMAIN downloads' -> Seq(Job)]
  <2>1. downloads' = [downloads EXCEPT ![h] = Append(@, e)]
    BY DEF AddUrl, AddDownload
  <2> HIDE DEF h, e
  <2>2. Append(downloads[h], e) \in Seq(Job)
    BY <1>2, <1>3
  <2> QED
    BY <2>1, <2>2, <1>3 DEF IInv, TypeOK
<1>5. /\ DOMAIN urlList' = DOMAIN urlList
      /\ \A x \in DOMAIN urlList :
           urlList'[x] = IF x = r THEN Tail(urlList[r]) ELSE urlList[x]
      /\ urlList' \in [DOMAIN urlList' -> Seq(Elem)]
  BY <1>1, <1>2 DEF AddUrl, IInv, TypeOK
<1> HIDE DEF h, e
<1>6. TypeOK'
  BY <1>4, <1>5 DEF AddUrl, IInv, TypeOK
<1>7. QueueOwnership'
  BY <1>0, <1>4 DEF AddUrl, IInv, QueueOwnership, InRound
<1>8. ActiveCount' /\ IsFiniteSet(BusyHosts)'
  BY <1>0 DEF AddUrl, IInv, ActiveCount
<1>9. PopSafe'
  <2>1. Append(downloads[h], e) # <<>>
    BY <1>2, <1>3
  <2>2. \A x \in heap : x.queue \in DOMAIN downloads
    BY <1>3 DEF IInv, QueueOwnership, HeapHosts
  <2> QED
    BY <2>1, <2>2, <1>4 DEF AddUrl, IInv, PopSafe
<1>10. QueueContents'
  <2>1. ASSUME NEW g \in DOMAIN downloads', NEW i \in 1..Len(downloads'[g])
        PROVE  /\ HostOf(downloads'[g][i]) = g
               /\ downloads'[g][i] \in Robot =>
                    downloads'[g][i] \in DOMAIN urlList'
    <3>1. CASE g # h
      BY <2>1, <3>1, <1>4, <1>5 DEF IInv, QueueContents
    <3>2. CASE g = h /\ i = Len(downloads[h]) + 1
      BY <2>1, <3>2, <1>2, <1>3, <1>4
    <3>3. CASE g = h /\ i # Len(downloads[h]) + 1
      <4>1. i \in 1..Len(downloads[h]) /\ downloads'[g][i] = downloads[h][i]
        BY <2>1, <3>3, <1>2, <1>3, <1>4
      <4> QED
        BY <4>1, <3>3, <1>3, <1>5 DEF IInv, QueueContents
    <3> QED
      BY <3>1, <3>2, <3>3
  <2>2. ASSUME NEW x \in DOMAIN urlList', NEW i \in 1..Len(urlList'[x])
        PROVE  UrlHost[urlList'[x][i]] = x.host
    <3>1. CASE x # r
      BY <2>2, <3>1, <1>5 DEF IInv, QueueContents
    <3>2. CASE x = r
      <4>1. i + 1 \in 1..Len(urlList[r]) /\ urlList'[x][i] = urlList[r][i + 1]
        BY <2>2, <3>2, <1>1, <1>5
      <4> QED
        BY <4>1, <3>2, <1>1 DEF IInv, QueueContents
    <3> QED
      BY <3>1, <3>2
  <2> QED
    BY <2>1, <2>2, <1>0, <1>5 DEF IInv, QueueContents
<1>11. PcInvariant'
  BY <1>3, <1>4 DEF AddUrl, IInv, PcInvariant, RoundHasWork, InRound
<1> QED
  BY <1>6, <1>7, <1>8, <1>9, <1>10, <1>11 DEF IInv

(* onFinishedDownload passes the queue on to the crawl thread. *)

LEMMA PushFinishActionInv ==
  ASSUME IInv, NEW job \in Job, PushFinishAction(job)
  PROVE  IInv'
<1> DEFINE h == HostOf(job)
<1> USE DEF crawlVars
<1>1. /\ notifying = {job} /\ notifying' = {} /\ calling = {} /\ calling' = {}
      /\ UNCHANGED <<crawlVars, flying, toBeExecuted, history>>
      /\ finishActions' = Append(finishActions, h)
  BY DEF PushFinishAction, IInv, PcInvariant, QueueOwnership
<1>2. /\ h \in Host /\ InFlight = flying \cup {job} /\ InFlight' = flying
      /\ job \notin flying
  BY <1>1, RobotType DEF InFlight, IInv, QueueOwnership
<1>3. /\ h \in JobHosts /\ h \in BusyHosts
      /\ h \notin QueuedHosts /\ h \notin ExecHosts /\ h \notin HeapHosts
  BY <1>2 DEF JobHosts, BusyHosts, IInv, QueueOwnership
<1>4. JobHosts' = JobHosts \ {h}
  <2>1. \A i \in flying : HostOf(i) # h
    BY <1>2 DEF IInv, QueueOwnership
  <2> QED
    BY <1>2, <2>1 DEF JobHosts
<1>5. /\ finishActions' \in Seq(Host) /\ IsInjective(finishActions')
      /\ QueuedHosts' = QueuedHosts \cup {h}
  BY <1>1, <1>2, <1>3, AppendRange
     DEF IInv, TypeOK, QueueOwnership, QueuedHosts
<1>6. UNCHANGED <<HeapHosts, ExecHosts, BusyHosts>>
  BY <1>1, <1>3, <1>4, <1>5 DEF HeapHosts, ExecHosts, BusyHosts
<1> HIDE DEF h
<1>7. TypeOK'
  BY <1>1, <1>5 DEF IInv, TypeOK, history
<1>8. QueueOwnership'
  BY <1>1, <1>2, <1>3, <1>4, <1>5, <1>6 DEF IInv, QueueOwnership, InRound
<1>9. ActiveCount' /\ IsFiniteSet(BusyHosts)'
  BY <1>1, <1>6 DEF IInv, ActiveCount
<1>10. PopSafe' /\ QueueContents' /\ PcInvariant'
  BY <1>1, <1>2 DEF IInv, PopSafe, QueueContents, PcInvariant, RoundHasWork
<1> QED
  BY <1>7, <1>8, <1>9, <1>10 DEF IInv

(* Time moves every entry of the heap alike. *)

LEMMA TickInv ==
  ASSUME IInv, Tick
  PROVE  IInv'
<1> USE DEF ioVars, queueVars
<1>1. /\ \A x \in heap : x.queue \in Host /\ x.due \in Int
                         /\ Entry(x.queue, x.due - 1) \in heap'
      /\ \A y \in heap' : \E x \in heap : y = Entry(x.queue, x.due - 1)
  BY DEF Tick, IInv, TypeOK
<1>2. \A g, d : Entry(g, d).queue = g /\ Entry(g, d).due = d
  BY DEF Entry
<1>3. HeapHosts' = HeapHosts
  BY <1>1, <1>2 DEF HeapHosts
<1>4. UNCHANGED <<InFlight, JobHosts, QueuedHosts, ExecHosts, BusyHosts>>
  BY DEF Tick, InFlight, JobHosts, QueuedHosts, ExecHosts, BusyHosts
<1>5. TypeOK'
  <2>1. heap' \subseteq [queue : Host, due : Int]
    BY <1>1 DEF Entry
  <2>2. since' \in [Host -> 0..Delay] /\ crtTime' \in Int
    BY CrawlerAssumption DEF Tick, IInv, TypeOK
  <2> QED
    BY <2>1, <2>2 DEF Tick, IInv, TypeOK
<1>6. QueueOwnership'
  <2>1. \A x, y \in heap' : x.queue = y.queue => x = y
    BY <1>1, <1>2 DEF IInv, QueueOwnership
  <2>2. heap = {} => heap' = {}
    BY DEF Tick
  <2> QED
    BY <1>3, <1>4, <2>1, <2>2 DEF Tick, IInv, QueueOwnership, InRound
<1>7. ActiveCount' /\ IsFiniteSet(BusyHosts)'
  BY <1>4 DEF Tick, IInv, ActiveCount
<1>8. PopSafe'
  BY <1>1, <1>2 DEF Tick, IInv, PopSafe
<1>9. QueueContents'
  BY <1>4 DEF Tick, IInv, QueueContents
<1>10. PcInvariant'
  <2>1. TopIsDue(heap, crtTime) => TopIsDue(heap', crtTime - 1)
    <3> SUFFICES ASSUME NEW x \in heap, x.due <= crtTime
                 PROVE  \E y \in heap' : y.due <= crtTime - 1
      BY DEF TopIsDue
    <3>1. Entry(x.queue, x.due - 1) \in heap'
      BY <1>1
    <3>2. Entry(x.queue, x.due - 1).due <= crtTime - 1
      BY <1>1, <1>2 DEF IInv, TypeOK
    <3> QED
      BY <3>1, <3>2
  <2>2. (heap = {}) = (heap' = {})
    BY <1>1
  <2>3. UNCHANGED <<pc, active, downloads, toBeExecuted, calling, notifying>>
        /\ crtTime' = (IF pc = "add" THEN crtTime - 1 ELSE crtTime)
        /\ crtTime \in Int
    BY DEF Tick, IInv, TypeOK, queueVars
  <2>4. pc = "wait" => RoundHasWork' /\ (~canAddDownload(active) \/ heap' = {})
    BY <2>2, <2>3 DEF IInv, PcInvariant, RoundHasWork
  <2> QED
    BY <2>1, <2>3, <2>4 DEF IInv, PcInvariant
<1> QED
  BY <1>5, <1>6, <1>7, <1>8, <1>9, <1>10 DEF IInv

LEMMA StutterInv ==
  ASSUME IInv, UNCHANGED vars
  PROVE  IInv'
<1> USE DEF vars, crawlVars, ioVars, queueVars, history
<1>0. UNCHANGED <<HeapHosts, InFlight, JobHosts, QueuedHosts, ExecHosts,
                  BusyHosts>>
  BY OwnersSame DEF OwnersUnchanged
<1> QED
  BY <1>0 DEF IInv, TypeOK, QueueOwnership, InRound, ActiveCount, PopSafe,
              QueueContents, PcInvariant, RoundHasWork

LEMMA NextInv == IInv /\ [Next]_vars => IInv'
<1> SUFFICES ASSUME IInv, [Next]_vars PROVE IInv'
  OBVIOUS
<1>1. CASE CrawlThread
  BY <1>1, StartRoundInv, PcStepInv, EndRoundInv, SkipInvalidUrlInv,
     AddRobotsDownloadInv, AppendToUrlListInv, BuildHeapInv, TakeActionsInv,
     StartDownloadInv, RunFinishActionInv DEF CrawlThread
<1>2. CASE \E job \in Job, ok \in BOOLEAN : FinishDownload(job, ok)
  BY <1>2, FinishDownloadInv
<1>3. CASE RunCallback
  BY <1>3, CallbackEndsInv, AddUrlInv, PushFinishActionInv DEF RunCallback
<1>4. CASE Tick
  BY <1>4, TickInv
<1>5. CASE Terminated \/ UNCHANGED vars
  BY <1>5, StutterInv DEF Terminated
<1> QED
  BY <1>1, <1>2, <1>3, <1>4, <1>5 DEF Next

(* The invariant holds in every reachable state. *)
THEOREM Invariance == Spec => []IInv
  BY InitInv, NextInv, PTL DEF Spec

-----------------------------------------------------------------------------
(* The properties of Crawler that follow from it. *)

(* Every variable keeps its type; activeDownloads, a size_t, never drops   *)
(* below zero.                                                             *)
THEOREM TypeCorrectness == Spec => []TypeOK
  BY Invariance, PTL DEF IInv

(* A host's queue is never in the hands of both threads, and no closure    *)
(* holds the iterator of an erased queue.                                  *)
THEOREM Ownership == Spec => []QueueOwnership
  BY Invariance, PTL DEF IInv

(* activeDownloads counts the busy hosts and stays within maxActiveQueues. *)
THEOREM Counting == Spec => []ActiveCount
  BY Invariance, PTL DEF IInv

(* TimeHeap::pop never throws out of popDownload. *)
THEOREM PopNeverThrows == Spec => []PopSafe
  BY Invariance, PTL DEF IInv

LEMMA WakerExists == IInv => WaitHasWaker
<1> SUFFICES ASSUME IInv, pc = "wait", finishActions = <<>>, InFlight = {}
             PROVE  FALSE
  BY DEF WaitHasWaker
<1>1. toBeExecuted = <<>>
  BY DEF IInv, PcInvariant
<1>2. BusyHosts = {}
  BY <1>1, EmptyRange DEF BusyHosts, JobHosts, QueuedHosts, ExecHosts
<1>3. active = 0
  BY <1>2, FS_EmptySet DEF IInv, ActiveCount
<1>4. heap = {} /\ HeapHosts = {}
  BY <1>3, CrawlerAssumption DEF IInv, PcInvariant, canAddDownload, HeapHosts
<1>5. DOMAIN downloads = {}
  BY <1>2, <1>4 DEF IInv, QueueOwnership, InRound
<1> QED
  BY <1>3, <1>4, <1>5 DEF IInv, PcInvariant, RoundHasWork

(* When the crawl thread sleeps without a deadline somebody will wake it.  *)
THEOREM SleeperIsWoken == Spec => []WaitHasWaker
  BY Invariance, WakerExists, PTL

-----------------------------------------------------------------------------
(* Politeness within a round: an entry of the heap falls due no sooner     *)
(* than Delay after the host's last download of the round ended.           *)

EndedHosts == {HostOf(job) : job \in ended}

PoliteInv ==
  /\ \A x \in heap : x.queue \in EndedHosts /\ since[x.queue] < Delay
                       => x.due + since[x.queue] >= Delay
  /\ pc = "populate" => ended = {}

LEMMA PoliteStep ==
  ASSUME IInv, PoliteInv, [Next]_vars
  PROVE  PoliteInv'
<1>1. since \in [Host -> 0..Delay] /\ Delay \in Nat
      /\ \A x \in heap : x.queue \in Host /\ x.due \in Int
  BY CrawlerAssumption DEF IInv, TypeOK
<1>2. CASE /\ heap' \subseteq heap /\ ended' = ended /\ since' = since
           /\ pc' = "populate" => pc = "populate"
  BY <1>2 DEF PoliteInv, EndedHosts
<1>3. CASE \E b \in Batches : StartRound(b)
  BY <1>3 DEF StartRound, PoliteInv, EndedHosts
<1>4. CASE BuildHeap
  BY <1>4 DEF BuildHeap, PoliteInv, EndedHosts, history
<1>5. CASE RunFinishAction
  <2> DEFINE h == Head(toBeExecuted)
  <2>1. /\ UNCHANGED <<ended, since>> /\ pc' = "execute"
        /\ heap' = heap \/ heap' = heap \cup {Entry(h, Delay)}
    BY <1>5 DEF RunFinishAction, history, Push, PushDelay
  <2>2. h \in Host
    BY <1>5, TailRange DEF RunFinishAction, IInv, TypeOK
  <2> HIDE DEF h
  <2>3. Entry(h, Delay).queue = h /\ Entry(h, Delay).due = Delay
    BY DEF Entry
  <2> QED
    BY <1>1, <2>1, <2>2, <2>3 DEF PoliteInv, EndedHosts
<1>6. CASE \E job \in Job, ok \in BOOLEAN : FinishDownload(job, ok)
  <2> PICK job \in Job, ok \in BOOLEAN : FinishDownload(job, ok)
    BY <1>6
  <2>1. /\ HostOf(job) \in Host /\ HostOf(job) \in BusyHosts
        /\ pc' = pc /\ heap' = heap /\ ended' = ended \cup {job}
        /\ since' = [since EXCEPT ![HostOf(job)] = 0]
    BY RobotType DEF FinishDownload, BusyHosts, JobHosts, InFlight, crawlVars
  <2>2. pc # "populate"
    BY <2>1 DEF IInv, QueueOwnership, InRound
  <2>3. EndedHosts' = EndedHosts \cup {HostOf(job)}
    BY <2>1 DEF EndedHosts
  <2>4. \A x \in heap : x.queue # HostOf(job)
    BY <2>1 DEF IInv, QueueOwnership, HeapHosts
  <2>5. \A x \in heap : since'[x.queue] = since[x.queue]
    BY <1>1, <2>1, <2>4
  <2> QED
    BY <2>1, <2>2, <2>3, <2>4, <2>5 DEF PoliteInv
<1>7. CASE Tick
  <2>1. /\ UNCHANGED <<pc, ended>>
        /\ \A y \in heap' : \E x \in heap : y.queue = x.queue /\ y.due = x.due - 1
        /\ \A h \in Host : since'[h] = (IF since[h] < Delay THEN since[h] + 1
                                                            ELSE Delay)
    BY <1>7 DEF Tick, Entry
  <2> SUFFICES ASSUME NEW y \in heap', y.queue \in EndedHosts,
                      since'[y.queue] < Delay
               PROVE  y.due + since'[y.queue] >= Delay
    BY <2>1 DEF PoliteInv, EndedHosts
  <2> PICK x \in heap : y.queue = x.queue /\ y.due = x.due - 1
    BY <2>1
  <2>2. since[x.queue] \in Int /\ since[x.queue] < Delay
        /\ since'[x.queue] = since[x.queue] + 1
    BY <1>1, <2>1
  <2>3. x.due + since[x.queue] >= Delay
    BY <2>2 DEF PoliteInv
  <2> QED
    BY <1>1, <2>2, <2>3
<1>8. CASE \E x \in heap : StartDownload(x)
  BY <1>2, <1>8 DEF StartDownload, history
<1>9. CASE \/ StopCrawling \/ SkipInvalidUrl \/ AddRobotsDownload
           \/ AppendToUrlList \/ EndRound \/ GoWait \/ ReadClock
           \/ WaitAndExecute \/ WaitUntilAndExecute \/ Drain \/ LoopBack
  BY <1>2, <1>9
     DEF StopCrawling, SkipInvalidUrl, AddRobotsDownload, AppendToUrlList,
         EndRound, GoWait, ReadClock, WaitAndExecute, WaitUntilAndExecute,
         Drain, LoopBack, history
<1>10. CASE RunCallback
  BY <1>2, <1>10 DEF RunCallback, CallUserCallback, AddUrl, AllUrlsAdded,
                     PushFinishAction, crawlVars, history
<1>11. CASE Terminated \/ UNCHANGED vars
  BY <1>2, <1>11 DEF Terminated, vars, crawlVars, history
<1> QED
  BY <1>3, <1>4, <1>5, <1>6, <1>7, <1>8, <1>9, <1>10, <1>11
     DEF Next, CrawlThread

LEMMA PoliteStart ==
  ASSUME IInv, PoliteInv, [Next]_vars
  PROVE  \A job \in flying' \ flying :
           (\E j \in ended : HostOf(j) = HostOf(job))
             => since[HostOf(job)] >= Delay
<1> SUFFICES ASSUME NEW job \in flying' \ flying,
                    HostOf(job) \in EndedHosts
             PROVE  since[HostOf(job)] >= Delay
  BY DEF EndedHosts
<1>1. PICK x \in heap : StartDownload(x)
  BY DEF Next, CrawlThread, RunCallback, StartRound, StopCrawling,
         SkipInvalidUrl, AddRobotsDownload, AppendToUrlList, BuildHeap,
         EndRound, GoWait, ReadClock, WaitAndExecute, WaitUntilAndExecute,
         Drain, RunFinishAction, LoopBack, FinishDownload, CallUserCallback,
         AddUrl, AllUrlsAdded, PushFinishAction, Tick, Terminated, vars, ioVars
<1>2. /\ x.queue \in Host /\ x.due \in Int /\ crtTime \in Int
      /\ since \in [Host -> 0..Delay] /\ Delay \in Nat
  BY CrawlerAssumption DEF IInv, TypeOK
<1>3. HostOf(job) = x.queue
  <2>1. job = NextDownload(downloads, x.queue)
    BY <1>1 DEF StartDownload
  <2>2. /\ x.queue \in DOMAIN downloads
        /\ downloads[x.queue] \in Seq(Job) /\ downloads[x.queue] # <<>>
    BY <1>1 DEF StartDownload, IInv, TypeOK, HeapHosts, QueueOwnership, InRound,
                PopSafe
  <2>3. Len(downloads[x.queue]) \in 1..Len(downloads[x.queue])
    BY <2>2
  <2> QED
    BY <2>1, <2>2, <2>3 DEF NextDownload, IInv, QueueContents
<1>4. x.due <= 0
  <2>1. PICK y \in heap : y.due <= crtTime
    BY <1>1 DEF StartDownload, IInv, PcInvariant, TopIsDue
  <2>2. x.due <= y.due /\ y.due \in Int
    BY <1>1, <2>1 DEF StartDownload, Top, IInv, TypeOK
  <2> QED
    BY <1>2, <2>1, <2>2 DEF IInv, PcInvariant
<1> QED
  BY <1>2, <1>3, <1>4 DEF PoliteInv

(* Within a round a host is left alone for Delay after each download.      *)
THEOREM Politeness == Spec => PoliteWithinRound
<1>1. Init => PoliteInv
  BY DEF Init, PoliteInv
<1>2. IInv /\ PoliteInv /\ [Next]_vars => PoliteInv'
  BY PoliteStep
<1>3. IInv /\ PoliteInv /\ [Next]_vars =>
        [\A job \in flying' \ flying :
           (\E j \in ended : HostOf(j) = HostOf(job))
             => since[HostOf(job)] >= Delay]_vars
  BY PoliteStart
<1> QED
  BY <1>1, <1>2, <1>3, Invariance, PTL DEF Spec, PoliteWithinRound

=============================================================================
