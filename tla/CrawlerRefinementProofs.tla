----------------------- MODULE CrawlerRefinementProofs -----------------------
(***************************************************************************)
(* Proofs about Crawler, continued: where each job is at every moment, and *)
(* what follows for the user.  Every URL is answered once, a URL is        *)
(* downloaded after the robots.txt of its scheme and host, and Crawler     *)
(* does what CrawlService says, for every value of the constants.          *)
(***************************************************************************)
EXTENDS CrawlerRefinement, CrawlerProofs

-----------------------------------------------------------------------------
(* Where a job can be. *)

AllOf(lists) == UNION {Range(lists[k]) : k \in DOMAIN lists}

Waiting == Range(batch)
Listed == AllOf(urlList)
Queued == AllOf(downloads)
Running == flying \cup calling
Unanswered == {e \in dispatched : callCount[e] = 0}

(* No job is in two of these places, nor twice in one. *)
OnePlace ==
  /\ Waiting \cap Listed = {}
  /\ (Waiting \cup Listed) \cap (Queued \cup InFlight \cup ended) = {}
  /\ Queued \cap (InFlight \cup ended) = {}
  /\ flying \cap ended = {}
  /\ calling \cup notifying \subseteq ended
  /\ IsInjective(batch)
  /\ \A r \in DOMAIN urlList : IsInjective(urlList[r])
  /\ \A h \in DOMAIN downloads : IsInjective(downloads[h])

(* The valid URLs not yet answered are exactly those in one of the places. *)
NoneLost ==
  /\ Waiting \cup Listed \cup ((Queued \cup Running) \cap Elem)
       \subseteq Unanswered
  /\ Listed \cup ((Queued \cup Running) \cap Elem) \subseteq ValidElem
  /\ Unanswered \cap ValidElem
       \subseteq Waiting \cup Listed \cup Queued \cup Running
  /\ \A e \in Elem : callCount[e] <= 1 /\ (callCount[e] = 1 => e \in dispatched)

(* A list of URLs belongs to a robots.txt that is still to be downloaded,  *)
(* or is being; a URL leaves its list once that robots.txt has ended.      *)
RobotsOrder ==
  /\ \A r \in DOMAIN urlList : \A e \in Range(urlList[r]) : RobotOf(e) = r
  /\ \A r \in DOMAIN urlList : urlList[r] # <<>> => r \in Queued \cup Running
  /\ \A r \in Queued \cap Robot : urlList[r] # <<>>
  /\ \A e \in (Queued \cup flying) \cap Elem : RobotOf(e) \in ended

(* What one round leaves to the next. *)
RoundState ==
  /\ pc # "populate" => batch = <<>>
  /\ pc \in {"keep", "done"} => DOMAIN urlList = {}
  /\ pc = "populate" =>
       ended = {} /\ \A r \in DOMAIN urlList : urlList[r] # <<>>

JobInv == OnePlace /\ NoneLost /\ RobotsOrder /\ RoundState

-----------------------------------------------------------------------------
(* Whose lists the listed and the queued jobs are in. *)
LEMMA PlaceTypes ==
  ASSUME IInv
  PROVE  /\ Waiting \subseteq Elem /\ Listed \subseteq Elem
         /\ Queued \subseteq Job /\ Running \subseteq Job /\ InFlight \subseteq Job
         /\ \A h \in DOMAIN downloads : \A job \in Range(downloads[h]) :
              HostOf(job) = h
         /\ Queued \cap Robot \subseteq DOMAIN urlList
         /\ InFlight \cap Robot \subseteq DOMAIN urlList
         /\ ~InRound => InFlight = {}
<1>1. Waiting \subseteq Elem
  BY DEF Waiting, Range, IInv, TypeOK
<1>2. Listed \subseteq Elem
  BY DEF Listed, AllOf, Range, IInv, TypeOK
<1>3. \A h \in DOMAIN downloads : \A job \in Range(downloads[h]) :
        /\ job \in Job /\ HostOf(job) = h
        /\ job \in Robot => job \in DOMAIN urlList
  <2> SUFFICES ASSUME NEW h \in DOMAIN downloads, NEW i \in DOMAIN downloads[h]
               PROVE  /\ downloads[h][i] \in Job
                      /\ HostOf(downloads[h][i]) = h
                      /\ downloads[h][i] \in Robot =>
                           downloads[h][i] \in DOMAIN urlList
    BY DEF Range
  <2>1. downloads[h] \in Seq(Job) /\ i \in 1..Len(downloads[h])
    BY DEF IInv, TypeOK
  <2> QED
    BY <2>1 DEF IInv, QueueContents
<1>4. Queued \subseteq Job /\ Queued \cap Robot \subseteq DOMAIN urlList
  BY <1>3 DEF Queued, AllOf
<1>5. Running \subseteq Job /\ InFlight \subseteq Job
      /\ InFlight \cap Robot \subseteq DOMAIN urlList
  BY DEF Running, InFlight, IInv, TypeOK, QueueContents
<1>6. ~InRound => InFlight = {}
  BY DEF IInv, QueueOwnership, BusyHosts, JobHosts
<1> QED
  BY <1>1, <1>2, <1>3, <1>4, <1>5, <1>6

LEMMA NoLists ==
  ASSUME NEW f, DOMAIN f = {}
  PROVE  AllOf(f) = {}
  BY DEF AllOf
-----------------------------------------------------------------------------
(* Every action preserves JobInv. *)

LEMMA InitJobs == Init => JobInv
<1> SUFFICES ASSUME Init PROVE JobInv
  OBVIOUS
<1> USE DEF Init
<1>1. Waiting = {} /\ Listed = {} /\ Queued = {} /\ Running = {} /\ InFlight = {}
      /\ Unanswered = {}
  BY EmptyRange, NoLists
     DEF Waiting, Listed, Queued, Running, InFlight, Unanswered, NoUrls, NoQueues
<1>2. OnePlace
  BY <1>1, EmptyRange DEF OnePlace, NoUrls, NoQueues
<1>3. NoneLost /\ RobotsOrder /\ RoundState
  BY <1>1 DEF NoneLost, RobotsOrder, RoundState, NoUrls
<1> QED
  BY <1>2, <1>3 DEF JobInv

(* A step that moves no job. *)
JobsUnchanged ==
  /\ UNCHANGED <<batch, urlList, flying, calling, notifying, dispatched, ended,
                 callCount>>
  /\ DOMAIN downloads' \subseteq DOMAIN downloads
  /\ \A h \in DOMAIN downloads : IF h \in DOMAIN downloads'
                                 THEN downloads'[h] = downloads[h]
                                 ELSE downloads[h] = <<>>
  /\ pc' = "populate" => pc = "populate"
  /\ pc = "populate" => pc' = "populate" \/ batch = <<>>
  /\ pc' \in {"keep", "done"} => pc \in {"keep", "done"}

LEMMA JobsUnchangedInv ==
  ASSUME JobInv, JobsUnchanged
  PROVE  JobInv'
<1> USE DEF JobsUnchanged
<1>1. Queued' = Queued
  <2>1. \A h \in DOMAIN downloads' : Range(downloads'[h]) \subseteq Queued
    BY DEF Queued, AllOf
  <2>2. \A h \in DOMAIN downloads : Range(downloads[h]) \subseteq Queued'
    BY EmptyRange DEF Queued, AllOf
  <2>3. Queued' \subseteq Queued
    BY <2>1 DEF Queued, AllOf
  <2>4. Queued \subseteq Queued'
    BY <2>2 DEF Queued, AllOf
  <2> QED
    BY <2>3, <2>4
<1>2. UNCHANGED <<Waiting, Listed, Running, InFlight, Unanswered>>
  BY DEF Waiting, Listed, Running, InFlight, Unanswered
<1>3. OnePlace'
  BY <1>1, <1>2 DEF JobInv, OnePlace
<1>4. NoneLost' /\ RobotsOrder' /\ RoundState'
  BY <1>1, <1>2 DEF JobInv, NoneLost, RobotsOrder, RoundState
<1> QED
  BY <1>3, <1>4 DEF JobInv

LEMMA StartRoundJobs ==
  ASSUME IInv, JobInv, NEW b \in Batches, StartRound(b)
  PROVE  JobInv'
<1> USE DEF StartRound, ioVars, queueVars
<1>1. /\ DOMAIN urlList = {} /\ DOMAIN downloads = {} /\ InFlight = {}
      /\ batch = <<>> /\ b \in Seq(Elem) /\ IsInjective(b)
  BY PlaceTypes, CrawlerAssumption
     DEF JobInv, RoundState, IInv, PcInvariant, InRound
<1>2. /\ Waiting = {} /\ Listed = {} /\ Queued = {} /\ Running = {}
      /\ Waiting' = Range(b) /\ Listed' = {} /\ Queued' = {} /\ Running' = {}
      /\ InFlight' = {} /\ calling = {} /\ notifying = {} /\ flying = {}
  BY <1>1, NoLists, EmptyRange
     DEF Waiting, Listed, Queued, Running, InFlight
<1>3. Range(b) \subseteq Elem /\ Range(b) \cap dispatched = {}
  BY <1>1 DEF Range
<1>4. Unanswered' = Unanswered \cup Range(b)
  <2>1. \A e \in Range(b) : callCount[e] = 0
    BY <1>3 DEF JobInv, NoneLost, IInv, TypeOK
  <2> QED
    BY <2>1 DEF Unanswered
<1>5. OnePlace'
  BY <1>1, <1>2 DEF OnePlace
<1>6. NoneLost'
  BY <1>2, <1>4 DEF JobInv, NoneLost
<1>7. RobotsOrder' /\ RoundState'
  BY <1>1, <1>2 DEF RobotsOrder, RoundState
<1> QED
  BY <1>5, <1>6, <1>7 DEF JobInv

LEMMA EndRoundJobs ==
  ASSUME IInv, JobInv, EndRound
  PROVE  JobInv'
<1> USE DEF EndRound, ioVars, queueVars, history
<1>a. DOMAIN downloads = {} /\ batch = <<>> /\ InRound
  BY DEF RoundHasWork, InRound, JobInv, RoundState
<1>b. JobHosts = {}
  BY <1>a DEF IInv, QueueOwnership, BusyHosts
<1>1. /\ DOMAIN downloads = {} /\ InFlight = {} /\ flying = {} /\ calling = {}
      /\ notifying = {} /\ batch = <<>>
  BY <1>a, <1>b DEF JobHosts, InFlight
<1>2. Waiting = {} /\ Queued = {} /\ Running = {}
  BY <1>1, NoLists, EmptyRange DEF Waiting, Queued, Running
<1>3. Listed = {}
  <2>1. \A r \in DOMAIN urlList : urlList[r] = <<>>
    BY <1>2 DEF JobInv, RobotsOrder
  <2> QED
    BY <2>1, EmptyRange DEF Listed, AllOf
<1>4. DOMAIN urlList' = {} /\ Listed' = {}
  BY NoLists DEF NoUrls, Listed
<1>5. UNCHANGED <<Waiting, Queued, Running, InFlight, Unanswered>>
  BY DEF Waiting, Queued, Running, InFlight, Unanswered
<1>6. OnePlace'
  BY <1>1, <1>2, <1>4, <1>5, EmptyRange DEF OnePlace
<1>7. NoneLost'
  BY <1>2, <1>3, <1>4, <1>5 DEF JobInv, NoneLost
<1>8. RobotsOrder' /\ RoundState'
  BY <1>1, <1>2, <1>4, <1>5 DEF JobInv, RobotsOrder, RoundState
<1> QED
  BY <1>6, <1>7, <1>8 DEF JobInv

(* populateDownloadQueuesWithRobots. *)

LEMMA SkipInvalidUrlJobs ==
  ASSUME IInv, JobInv, SkipInvalidUrl
  PROVE  JobInv'
<1> USE DEF SkipInvalidUrl, ioVars, queueVars, history
<1> DEFINE e == Head(batch)
<1>1. /\ e \in Waiting /\ e \notin ValidElem
      /\ Waiting' = Waiting \ {e} /\ IsInjective(batch')
  BY TailRange DEF JobInv, OnePlace, IInv, TypeOK, Waiting
<1> HIDE DEF e
<1>2. UNCHANGED <<Listed, Queued, Running, InFlight, Unanswered>>
  BY DEF Listed, Queued, Running, InFlight, Unanswered
<1>3. OnePlace'
  BY <1>1, <1>2 DEF JobInv, OnePlace
<1>4. NoneLost'
  BY <1>1, <1>2 DEF JobInv, NoneLost
<1>5. RobotsOrder' /\ RoundState'
  BY <1>1, <1>2 DEF JobInv, RobotsOrder, RoundState
<1> QED
  BY <1>3, <1>4, <1>5 DEF JobInv

LEMMA AddRobotsDownloadJobs ==
  ASSUME IInv, JobInv, AddRobotsDownload
  PROVE  JobInv'
<1> USE DEF ioVars, queueVars, history
<1> DEFINE e == Head(batch)
           r == RobotOf(e)
           old == IF r.host \in DOMAIN downloads THEN downloads[r.host]
                                                 ELSE <<>>
<1>1. /\ pc = "populate" /\ pc' = pc /\ ended = {} /\ InFlight = {}
      /\ e \in Elem /\ e \in ValidElem /\ e \in Waiting
      /\ r \in Robot /\ r \in Job /\ r \notin Elem /\ r \notin DOMAIN urlList
      /\ Waiting' = Waiting \ {e} /\ IsInjective(batch')
  <2>1. /\ pc = "populate" /\ pc' = pc /\ e \in ValidElem /\ r \notin DOMAIN urlList
        /\ batch' = Tail(batch) /\ batch # <<>> /\ batch \in Seq(Elem)
        /\ IsInjective(batch)
    BY DEF AddRobotsDownload, JobInv, OnePlace, IInv, TypeOK
  <2>2. /\ e \in Elem /\ e \in Waiting
        /\ Waiting' = Waiting \ {e} /\ IsInjective(batch')
    BY <2>1, TailRange DEF Waiting
  <2>3. r \in Robot /\ r \in Job /\ r \notin Elem
    BY <2>2, RobotType, UrlAssumption DEF Job
  <2>4. ended = {} /\ InFlight = {}
    BY <2>1, PlaceTypes DEF JobInv, RoundState, InRound
  <2> QED
    BY <2>1, <2>2, <2>3, <2>4
<1>2. /\ downloads' = [h \in DOMAIN downloads \cup {r.host} |->
                         IF h = r.host THEN Append(old, r) ELSE downloads[h]]
      /\ old \in Seq(Job)
  <2>1. old \in Seq(Job)
    BY <1>1 DEF IInv, TypeOK
  <2>2. downloads' = AddDownload(GetQueueByHost(downloads, r.host), r.host, r)
    BY DEF AddRobotsDownload
  <2> HIDE DEF r
  <2>3. downloads' = [h \in DOMAIN downloads \cup {r.host} |->
                        IF h = r.host THEN Append(old, r) ELSE downloads[h]]
    BY <2>2 DEF AddDownload, GetQueueByHost
  <2> QED
    BY <2>1, <2>3
<1>3. /\ DOMAIN urlList' = DOMAIN urlList \cup {r} /\ urlList'[r] = <<e>>
      /\ \A x \in DOMAIN urlList : x # r /\ urlList'[x] = urlList[x]
  BY <1>1 DEF AddRobotsDownload
<1>4. UNCHANGED <<Running, InFlight, Unanswered, flying, calling, notifying, ended,
                  dispatched, callCount>>
  BY DEF AddRobotsDownload, Running, InFlight, Unanswered
<1> DEFINE k == r.host
<1> HIDE DEF e, r, old, k
<1>5. /\ IsInjective(old) /\ r \notin Range(old)
      /\ Range(old) = IF k \in DOMAIN downloads THEN Range(downloads[k]) ELSE {}
  <2>1. r \notin Queued
    BY <1>1, PlaceTypes
  <2> QED
    BY <2>1, EmptyRange DEF JobInv, OnePlace, Queued, AllOf, old, k
<1>6. /\ DOMAIN downloads' = DOMAIN downloads \cup {k}
      /\ \A x \in DOMAIN downloads : x # k => downloads'[x] = downloads[x]
      /\ downloads'[k] = Append(old, r)
      /\ Range(downloads'[k]) = Range(old) \cup {r} /\ IsInjective(downloads'[k])
  <2>1. Range(Append(old, r)) = Range(old) \cup {r} /\ IsInjective(Append(old, r))
    BY <1>1, <1>2, <1>5, AppendRange
  <2> QED
    BY <1>2, <2>1 DEF k
<1>7. Queued' = Queued \cup {r}
  <2>1. Range(old) \subseteq AllOf(downloads)
    BY <1>5 DEF AllOf
  <2>2. AllOf(downloads') \subseteq AllOf(downloads) \cup {r}
    BY <1>6, <2>1 DEF AllOf
  <2>3. AllOf(downloads) \cup {r} \subseteq AllOf(downloads')
    BY <1>5, <1>6 DEF AllOf
  <2> QED
    BY <2>2, <2>3 DEF Queued
<1>8. Listed' = Listed \cup {e}
  <2>1. Range(urlList'[r]) = {e}
    BY <1>1, <1>3, OneRange
  <2> QED
    BY <1>1, <1>3, <2>1 DEF Listed, AllOf
<1>9. r \notin Listed /\ r \notin Waiting
  BY <1>1, PlaceTypes
<1>10. OnePlace'
  <2>1. \A x \in DOMAIN urlList' : IsInjective(urlList'[x])
    BY <1>3, OneRange DEF JobInv, OnePlace
  <2>2. \A h \in DOMAIN downloads' : IsInjective(downloads'[h])
    BY <1>6 DEF JobInv, OnePlace
  <2> QED
    BY <2>1, <2>2, <1>1, <1>4, <1>7, <1>8, <1>9 DEF JobInv, OnePlace
<1>11. NoneLost'
  BY <1>1, <1>4, <1>7, <1>8 DEF JobInv, NoneLost
<1>12. RobotsOrder'
  <2>1. \A x \in DOMAIN urlList' : \A y \in Range(urlList'[x]) : RobotOf(y) = x
    BY <1>3, OneRange DEF JobInv, RobotsOrder, r
  <2>2. \A x \in DOMAIN urlList' :
          urlList'[x] # <<>> => x \in Queued' \cup Running'
    BY <1>3, <1>4, <1>7 DEF JobInv, RobotsOrder
  <2>3. \A x \in Queued' \cap Robot : urlList'[x] # <<>>
    BY <1>3, <1>7, PlaceTypes DEF JobInv, RobotsOrder
  <2> QED
    BY <2>1, <2>2, <2>3, <1>1, <1>4, <1>7 DEF JobInv, RobotsOrder
<1>13. RoundState'
  BY <1>1, <1>3, <1>4 DEF JobInv, RoundState
<1> QED
  BY <1>10, <1>11, <1>12, <1>13 DEF JobInv

LEMMA AppendToUrlListJobs ==
  ASSUME IInv, JobInv, AppendToUrlList
  PROVE  JobInv'
<1> USE DEF ioVars, queueVars, history
<1> DEFINE e == Head(batch)
           r == RobotOf(e)
<1>1. /\ pc = "populate" /\ pc' = pc /\ ended = {} /\ InFlight = {}
      /\ e \in Elem /\ e \in ValidElem /\ e \in Waiting
      /\ r \in DOMAIN urlList /\ urlList[r] \in Seq(Elem)
      /\ Waiting' = Waiting \ {e} /\ IsInjective(batch')
  <2>1. /\ pc = "populate" /\ pc' = pc /\ e \in ValidElem /\ r \in DOMAIN urlList
        /\ batch' = Tail(batch) /\ batch # <<>> /\ batch \in Seq(Elem)
        /\ IsInjective(batch) /\ urlList[r] \in Seq(Elem)
    BY DEF AppendToUrlList, JobInv, OnePlace, IInv, TypeOK
  <2>2. /\ e \in Elem /\ e \in Waiting
        /\ Waiting' = Waiting \ {e} /\ IsInjective(batch')
    BY <2>1, TailRange DEF Waiting
  <2>3. ended = {} /\ InFlight = {}
    BY <2>1, PlaceTypes DEF JobInv, RoundState, InRound
  <2> QED
    BY <2>1, <2>2, <2>3
<1>2. /\ DOMAIN urlList' = DOMAIN urlList
      /\ \A x \in DOMAIN urlList : x # r => urlList'[x] = urlList[x]
      /\ urlList'[r] = Append(urlList[r], e)
  BY <1>1 DEF AppendToUrlList
<1>3. UNCHANGED <<Queued, Running, InFlight, Unanswered, flying, calling,
                  notifying, ended, dispatched, callCount>>
  BY DEF AppendToUrlList, Queued, Running, InFlight, Unanswered
<1> HIDE DEF e, r
<1>4. /\ Range(urlList'[r]) = Range(urlList[r]) \cup {e}
      /\ IsInjective(urlList'[r]) /\ urlList'[r] # <<>>
  <2>1. e \notin Range(urlList[r]) /\ IsInjective(urlList[r])
    BY <1>1 DEF JobInv, OnePlace, Listed, AllOf
  <2>2. Append(urlList[r], e) # <<>>
    BY <1>1
  <2> QED
    BY <1>1, <1>2, <2>1, <2>2, AppendRange
<1>5. Listed' = Listed \cup {e}
  BY <1>1, <1>2, <1>4 DEF Listed, AllOf
<1>6. r \in Queued \cup Running
  BY <1>1 DEF JobInv, RobotsOrder, RoundState
<1>7. OnePlace'
  BY <1>1, <1>2, <1>3, <1>4, <1>5 DEF JobInv, OnePlace, AppendToUrlList
<1>8. NoneLost'
  BY <1>1, <1>3, <1>5 DEF JobInv, NoneLost
<1>9. RobotsOrder'
  <2>1. \A x \in DOMAIN urlList' : \A y \in Range(urlList'[x]) : RobotOf(y) = x
    BY <1>1, <1>2, <1>4 DEF JobInv, RobotsOrder, r
  <2>2. \A x \in DOMAIN urlList' :
          urlList'[x] # <<>> => x \in Queued' \cup Running'
    BY <1>2, <1>3, <1>6 DEF JobInv, RobotsOrder
  <2>3. \A x \in Queued' \cap Robot : urlList'[x] # <<>>
    BY <1>2, <1>3, <1>4, PlaceTypes DEF JobInv, RobotsOrder
  <2> QED
    BY <2>1, <2>2, <2>3, <1>3 DEF JobInv, RobotsOrder
<1>10. RoundState'
  BY <1>1, <1>2, <1>3, <1>4 DEF JobInv, RoundState
<1> QED
  BY <1>7, <1>8, <1>9, <1>10 DEF JobInv
(* The do loop moves a queued download to the downloader. *)

LEMMA StartFacts ==
  ASSUME IInv, JobInv, NEW x \in heap, StartDownload(x)
  PROVE  \E h \in DOMAIN downloads, job \in Job :
           /\ HostOf(job) = h /\ h \notin BusyHosts
           /\ job \in Queued /\ Queued' = Queued \ {job}
           /\ flying' = flying \cup {job}
           /\ DOMAIN downloads' = DOMAIN downloads
           /\ \A g \in DOMAIN downloads : IsInjective(downloads'[g])
           /\ canAddDownload(active)
<1> DEFINE h == x.queue
           job == NextDownload(downloads, h)
           s == downloads[h]
           t == SubSeq(s, 1, Len(s) - 1)
<1>1. /\ pc = "add" /\ InRound /\ h \in HeapHosts
      /\ downloads' = [downloads EXCEPT ![h] = SubSeq(@, 1, Len(@) - 1)]
      /\ flying' = flying \cup {job}
  BY DEF StartDownload, InRound, HeapHosts, PopDownload
<1>2. h \in DOMAIN downloads /\ h \notin BusyHosts /\ canAddDownload(active)
  BY <1>1 DEF IInv, QueueOwnership, PcInvariant
<1>3. s \in Seq(Job) /\ s # <<>> /\ IsInjective(s)
  BY <1>2 DEF IInv, TypeOK, PopSafe, JobInv, OnePlace
<1>4. job \in Range(s) /\ Range(t) = Range(s) \ {job} /\ IsInjective(t)
  BY <1>3, LastRange DEF NextDownload
<1>5. job \in Job /\ HostOf(job) = h
  BY <1>2, <1>4, PlaceTypes DEF Queued, AllOf
<1> HIDE DEF h, job, t
<1>6. /\ DOMAIN downloads' = DOMAIN downloads /\ downloads'[h] = t
      /\ \A g \in DOMAIN downloads : g # h => downloads'[g] = downloads[g]
  BY <1>1, <1>2 DEF t
<1>7. Queued' = Queued \ {job}
  <2>1. \A g \in DOMAIN downloads : g # h => job \notin Range(downloads[g])
    BY <1>5, PlaceTypes
  <2>2. AllOf(downloads') \subseteq AllOf(downloads) \ {job}
    BY <1>2, <1>4, <1>6, <2>1 DEF AllOf
  <2>3. AllOf(downloads) \ {job} \subseteq AllOf(downloads')
    BY <1>2, <1>4, <1>6 DEF AllOf
  <2> QED
    BY <2>2, <2>3 DEF Queued
<1>8. job \in Queued
  BY <1>2, <1>4 DEF Queued, AllOf
<1>9. \A g \in DOMAIN downloads : IsInjective(downloads'[g])
  BY <1>4, <1>6 DEF JobInv, OnePlace
<1> QED
  BY <1>1, <1>2, <1>5, <1>6, <1>7, <1>8, <1>9

LEMMA StartDownloadJobs ==
  ASSUME IInv, JobInv, NEW x \in heap, StartDownload(x)
  PROVE  JobInv'
<1> PICK h \in DOMAIN downloads, job \in Job :
      /\ job \in Queued /\ Queued' = Queued \ {job}
      /\ flying' = flying \cup {job}
      /\ DOMAIN downloads' = DOMAIN downloads
      /\ \A g \in DOMAIN downloads : IsInjective(downloads'[g])
  BY StartFacts
<1>1. /\ pc = "add" /\ pc' \in {"add", "drain"}
      /\ UNCHANGED <<batch, urlList, calling, notifying, dispatched, ended,
                     callCount>>
  BY DEF StartDownload, queueVars, history
<1>2. /\ UNCHANGED <<Waiting, Listed, Unanswered>>
      /\ Running' = Running \cup {job} /\ InFlight' = InFlight \cup {job}
  BY <1>1 DEF Waiting, Listed, Unanswered, Running, InFlight
<1>3. OnePlace'
  BY <1>1, <1>2 DEF JobInv, OnePlace
<1>4. NoneLost'
  BY <1>1, <1>2 DEF JobInv, NoneLost
<1>5. RobotsOrder'
  BY <1>1, <1>2 DEF JobInv, RobotsOrder
<1>6. RoundState'
  BY <1>1 DEF JobInv, RoundState
<1> QED
  BY <1>3, <1>4, <1>5, <1>6 DEF JobInv

LEMMA RunFinishActionJobs ==
  ASSUME IInv, JobInv, RunFinishAction
  PROVE  JobInv'
<1> DEFINE h == Head(toBeExecuted)
<1>1. UNCHANGED <<pc, batch, urlList, flying, calling, notifying, dispatched,
                  ended, callCount>>
  BY DEF RunFinishAction, ioVars, history
<1>2. /\ DOMAIN downloads' \subseteq DOMAIN downloads
      /\ \A g \in DOMAIN downloads : IF g \in DOMAIN downloads'
                                     THEN downloads'[g] = downloads[g]
                                     ELSE downloads[g] = <<>>
  <2>1. CASE downloads[h] # <<>>
    BY <2>1 DEF RunFinishAction
  <2>2. CASE downloads[h] = <<>>
    <3>1. downloads' = Erase(downloads, h)
      BY <2>2 DEF RunFinishAction
    <3> HIDE DEF h
    <3> QED
      BY <2>2, <3>1 DEF Erase, Restrict
  <2> QED
    BY <2>1, <2>2
<1> QED
  BY <1>1, <1>2, JobsUnchangedInv DEF JobsUnchanged

(* The io thread ends a transfer and runs its callback. *)

LEMMA FinishDownloadJobs ==
  ASSUME IInv, JobInv, NEW job \in Job, NEW ok \in BOOLEAN,
         FinishDownload(job, ok)
  PROVE  JobInv'
<1> USE DEF FinishDownload, crawlVars, queueVars
<1>1. UNCHANGED <<Waiting, Listed, Queued, Running, InFlight, Unanswered>>
  BY DEF Waiting, Listed, Queued, Running, InFlight, Unanswered
<1>2. job \in Running /\ job \in InFlight /\ InRound
  BY PlaceTypes DEF Running, InFlight
<1>3. OnePlace'
  BY <1>1, <1>2 DEF JobInv, OnePlace
<1>4. NoneLost' /\ RobotsOrder'
  BY <1>1 DEF JobInv, NoneLost, RobotsOrder
<1>5. RoundState'
  BY <1>2 DEF JobInv, RoundState, InRound
<1> QED
  BY <1>3, <1>4, <1>5 DEF JobInv

LEMMA CallUserCallbackJobs ==
  ASSUME IInv, JobInv, NEW e \in Elem, CallUserCallback(e)
  PROVE  JobInv'
<1> USE DEF CallUserCallback, crawlVars, queueVars
<1>1. /\ calling = {e} /\ notifying = {} /\ callCount[e] = 0
      /\ callCount \in [Elem -> Nat]
  BY DEF IInv, TypeOK, PcInvariant, QueueOwnership, JobInv, NoneLost, Running,
         Unanswered
<1>2. callCount'[e] = 1 /\ \A y \in Elem : y # e => callCount'[y] = callCount[y]
  BY <1>1
<1>3. /\ UNCHANGED <<Waiting, Listed, Queued, InFlight>>
      /\ Running' = flying /\ Running = flying \cup {e} /\ e \notin flying
  BY <1>1 DEF Waiting, Listed, Queued, Running, InFlight, IInv, QueueOwnership
<1>4. Unanswered' = Unanswered \ {e} /\ e \in dispatched
  <2>1. dispatched \subseteq Elem
    BY DEF IInv, TypeOK
  <2> QED
    BY <1>1, <1>2, <2>1 DEF Unanswered, JobInv, NoneLost, Running
<1>5. e \in InFlight /\ e \notin Robot
  BY UrlAssumption DEF InFlight
<1>6. OnePlace'
  BY <1>1, <1>3 DEF JobInv, OnePlace
<1>7. NoneLost'
  BY <1>2, <1>3, <1>4, <1>5 DEF JobInv, OnePlace, NoneLost
<1>8. RobotsOrder'
  <2>1. \A r \in DOMAIN urlList : r # e
    BY <1>5 DEF IInv, TypeOK
  <2> QED
    BY <1>3, <2>1 DEF JobInv, RobotsOrder
<1>9. RoundState'
  BY DEF JobInv, RoundState
<1> QED
  BY <1>6, <1>7, <1>8, <1>9 DEF JobInv

LEMMA AddUrlJobs ==
  ASSUME IInv, JobInv, NEW r \in Robot, AddUrl(r)
  PROVE  JobInv'
<1> USE DEF ioVars, queueVars, history
<1> DEFINE h == r.host
           e == Head(urlList[r])
<1>1. r \in DOMAIN urlList /\ urlList[r] \in Seq(Elem) /\ urlList[r] # <<>>
      /\ IsInjective(urlList[r]) /\ r \in calling
  BY DEF AddUrl, IInv, QueueContents, InFlight, TypeOK, JobInv, OnePlace
<1>2. /\ e \in Range(urlList[r]) /\ e \in Elem /\ e \in Job
      /\ Range(Tail(urlList[r])) = Range(urlList[r]) \ {e}
      /\ IsInjective(Tail(urlList[r]))
  BY <1>1, TailRange DEF Job
<1>3. /\ e \in Listed /\ RobotOf(e) = r /\ e \notin Robot
      /\ \A x \in DOMAIN urlList : x # r => e \notin Range(urlList[x])
  BY <1>1, <1>2, UrlAssumption DEF Listed, AllOf, JobInv, RobotsOrder
<1>4. h \in DOMAIN downloads /\ downloads[h] \in Seq(Job) /\ InRound
  <2>1. r \in InFlight /\ HostOf(r) = h
    BY RobotType DEF AddUrl, InFlight
  <2>2. h \in BusyHosts
    BY <2>1 DEF BusyHosts, JobHosts
  <2> QED
    BY <2>2 DEF IInv, QueueOwnership, TypeOK
<1>5. downloads' = [downloads EXCEPT ![h] = Append(@, e)]
  BY DEF AddUrl, AddDownload
<1>6. /\ DOMAIN urlList' = DOMAIN urlList /\ urlList'[r] = Tail(urlList[r])
      /\ \A x \in DOMAIN urlList : x # r => urlList'[x] = urlList[x]
  BY <1>1 DEF AddUrl
<1>7. UNCHANGED <<pc, batch, Waiting, Running, InFlight, Unanswered, flying, calling,
                  notifying, ended, dispatched, callCount>>
  BY DEF AddUrl, Waiting, Running, InFlight, Unanswered
<1> HIDE DEF h, e
<1>8. /\ DOMAIN downloads' = DOMAIN downloads
      /\ \A g \in DOMAIN downloads : g # h => downloads'[g] = downloads[g]
      /\ downloads'[h] = Append(downloads[h], e)
  BY <1>4, <1>5
<1>9. e \notin Queued /\ e \notin InFlight /\ e \notin ended /\ e \notin Waiting
  BY <1>3 DEF JobInv, OnePlace
<1>10. /\ Range(downloads'[h]) = Range(downloads[h]) \cup {e}
       /\ IsInjective(downloads'[h])
  <2>1. e \notin Range(downloads[h]) /\ IsInjective(downloads[h])
    BY <1>4, <1>9 DEF Queued, AllOf, JobInv, OnePlace
  <2> QED
    BY <1>2, <1>4, <1>8, <2>1, AppendRange
<1>11. Queued' = Queued \cup {e}
  BY <1>4, <1>8, <1>10 DEF Queued, AllOf
<1>12. Listed' = Listed \ {e}
  <2>1. AllOf(urlList') \subseteq AllOf(urlList) \ {e}
    BY <1>1, <1>2, <1>3, <1>6 DEF AllOf
  <2>2. AllOf(urlList) \ {e} \subseteq AllOf(urlList')
    BY <1>1, <1>2, <1>6 DEF AllOf
  <2> QED
    BY <2>1, <2>2 DEF Listed
<1>13. OnePlace'
  <2>1. \A x \in DOMAIN urlList' : IsInjective(urlList'[x])
    BY <1>2, <1>6 DEF JobInv, OnePlace
  <2>2. \A g \in DOMAIN downloads' : IsInjective(downloads'[g])
    BY <1>8, <1>10 DEF JobInv, OnePlace
  <2> QED
    BY <2>1, <2>2, <1>3, <1>7, <1>9, <1>11, <1>12 DEF JobInv, OnePlace
<1>14. NoneLost'
  BY <1>2, <1>3, <1>7, <1>11, <1>12 DEF JobInv, NoneLost
<1>15. RobotsOrder'
  <2>1. \A x \in DOMAIN urlList' : \A y \in Range(urlList'[x]) : RobotOf(y) = x
    BY <1>1, <1>2, <1>6 DEF JobInv, RobotsOrder
  <2>2. \A x \in DOMAIN urlList' :
          urlList'[x] # <<>> => x \in Queued' \cup Running'
    BY <1>1, <1>6, <1>7, <1>11 DEF JobInv, RobotsOrder
  <2>3. r \notin Queued /\ r \in ended
    BY <1>1 DEF JobInv, OnePlace, InFlight
  <2>4. \A x \in Queued' \cap Robot : urlList'[x] # <<>>
    BY <1>3, <1>6, <1>11, <2>3, PlaceTypes DEF JobInv, RobotsOrder
  <2> QED
    BY <1>3, <1>7, <1>11, <2>1, <2>2, <2>3, <2>4 DEF JobInv, RobotsOrder
<1>16. RoundState'
  BY <1>4, <1>6, <1>7 DEF JobInv, RoundState, InRound
<1> QED
  BY <1>13, <1>14, <1>15, <1>16 DEF JobInv

LEMMA AllUrlsAddedJobs ==
  ASSUME IInv, JobInv, NEW r \in Robot, AllUrlsAdded(r)
  PROVE  JobInv'
<1> USE DEF AllUrlsAdded, crawlVars, queueVars, history
<1>1. /\ calling = {r} /\ notifying = {} /\ urlList[r] = <<>>
      /\ r \notin Elem /\ r \notin ValidElem
  BY UrlAssumption DEF IInv, PcInvariant, QueueOwnership
<1>2. /\ UNCHANGED <<Waiting, Listed, Queued, InFlight, Unanswered>>
      /\ Running' = Running \ {r}
  BY <1>1 DEF Waiting, Listed, Queued, Running, InFlight, Unanswered, IInv,
              QueueOwnership
<1>3. OnePlace'
  BY <1>1, <1>2 DEF JobInv, OnePlace
<1>4. NoneLost'
  BY <1>1, <1>2 DEF JobInv, NoneLost
<1>5. RobotsOrder' /\ RoundState'
  BY <1>1, <1>2 DEF JobInv, RobotsOrder, RoundState
<1> QED
  BY <1>3, <1>4, <1>5 DEF JobInv

LEMMA PushFinishActionJobs ==
  ASSUME IInv, JobInv, NEW job \in Job, PushFinishAction(job)
  PROVE  JobInv'
<1> USE DEF PushFinishAction, crawlVars, history
<1>1. /\ UNCHANGED <<Waiting, Listed, Queued, Running, Unanswered>>
      /\ InFlight' \subseteq InFlight
  BY DEF Waiting, Listed, Queued, Running, Unanswered, InFlight
<1>2. OnePlace'
  BY <1>1 DEF JobInv, OnePlace
<1>3. NoneLost' /\ RobotsOrder' /\ RoundState'
  BY <1>1 DEF JobInv, NoneLost, RobotsOrder, RoundState
<1> QED
  BY <1>2, <1>3 DEF JobInv

LEMMA NextJobs ==
  ASSUME IInv, JobInv, [Next]_vars
  PROVE  JobInv'
<1>1. CASE \/ StopCrawling \/ BuildHeap \/ GoWait \/ ReadClock \/ WaitAndExecute
           \/ WaitUntilAndExecute \/ Drain \/ LoopBack \/ Tick
  <2>1. UNCHANGED <<batch, urlList, downloads, flying, calling, notifying,
                    dispatched, ended, callCount>>
    BY <1>1 DEF StopCrawling, BuildHeap, GoWait, ReadClock, WaitAndExecute,
                WaitUntilAndExecute, Drain, LoopBack, Tick, ioVars, history
  <2>2. \/ pc' = pc
        \/ pc = "populate" /\ pc' = "loop" /\ batch = <<>>
        \/ pc = "keep" /\ pc' = "done"
        \/ pc # "populate" /\ pc' \notin {"populate", "keep", "done"}
    <3>1. CASE StopCrawling \/ BuildHeap
      BY <3>1 DEF StopCrawling, BuildHeap
    <3>2. CASE Tick
      BY <3>2 DEF Tick
    <3>3. CASE GoWait \/ ReadClock \/ LoopBack
      BY <3>3 DEF GoWait, ReadClock, LoopBack
    <3>4. CASE WaitAndExecute \/ WaitUntilAndExecute \/ Drain
      BY <3>4 DEF WaitAndExecute, WaitUntilAndExecute, Drain
    <3> QED
      BY <1>1, <3>1, <3>2, <3>3, <3>4
  <2> QED
    BY <2>1, <2>2, JobsUnchangedInv DEF JobsUnchanged
<1>2. CASE Terminated \/ UNCHANGED vars
  BY <1>2, JobsUnchangedInv
     DEF JobsUnchanged, Terminated, vars, crawlVars, ioVars, history
<1>3. CASE \/ \E b \in Batches : StartRound(b)
           \/ SkipInvalidUrl \/ AddRobotsDownload \/ AppendToUrlList \/ EndRound
           \/ \E x \in heap : StartDownload(x)
           \/ RunFinishAction
  BY <1>3, StartRoundJobs, SkipInvalidUrlJobs, AddRobotsDownloadJobs,
     AppendToUrlListJobs, EndRoundJobs, StartDownloadJobs, RunFinishActionJobs
<1>4. CASE \E job \in Job, ok \in BOOLEAN : FinishDownload(job, ok)
  BY <1>4, FinishDownloadJobs
<1>5. CASE RunCallback
  BY <1>5, CallUserCallbackJobs, AddUrlJobs, AllUrlsAddedJobs,
     PushFinishActionJobs DEF RunCallback
<1> QED
  BY <1>1, <1>2, <1>3, <1>4, <1>5 DEF Next, CrawlThread

(* In every reachable state each job is in its one place.                  *)
THEOREM JobsInvariance == Spec => []JobInv
<1>1. Init => JobInv
  BY InitJobs
<1>2. IInv /\ JobInv /\ [Next]_vars => JobInv'
  BY NextJobs
<1> QED
  BY <1>1, <1>2, Invariance, PTL DEF Spec
-----------------------------------------------------------------------------
(* What follows for the user. *)

(* When the dispatcher is asked for the next list, every valid URL it has  *)
(* returned was answered, and none was answered twice.                     *)
THEOREM UrlsAnsweredOnce == Spec => []AnsweredOnce
<1>1. IInv /\ JobInv => AnsweredOnce
  <2> SUFFICES ASSUME IInv, JobInv, pc = "keep",
                      NEW e \in dispatched \cap ValidElem
               PROVE  callCount[e] = 1
    BY DEF AnsweredOnce, JobInv, NoneLost
  <2>1. Waiting = {} /\ Listed = {} /\ Queued = {} /\ Running = {}
    BY PlaceTypes, NoLists, EmptyRange
       DEF Waiting, Listed, Queued, Running, InFlight, JobInv, RoundState, IInv,
           PcInvariant, InRound
  <2>2. e \notin Unanswered /\ e \in Elem
    BY <2>1, UrlAssumption DEF JobInv, NoneLost
  <2> QED
    BY <2>2 DEF Unanswered, JobInv, NoneLost, IInv, TypeOK
<1> QED
  BY <1>1, Invariance, JobsInvariance, PTL

(* Which download a step starts. *)
LEMMA OnlyStartDownload ==
  ASSUME [Next]_vars, ~(flying' \subseteq flying)
  PROVE  \E x \in heap : StartDownload(x)
  BY DEF Next, CrawlThread, RunCallback, StartRound, StopCrawling,
         SkipInvalidUrl, AddRobotsDownload, AppendToUrlList, BuildHeap,
         EndRound, GoWait, ReadClock, WaitAndExecute, WaitUntilAndExecute,
         Drain, RunFinishAction, LoopBack, FinishDownload, CallUserCallback,
         AddUrl, AllUrlsAdded, PushFinishAction, Tick, Terminated, vars, ioVars

(***************************************************************************)
(* The robots.txt callback is what releases a URL, so a URL's download is  *)
(* started after its robots.txt ended in the round, and once.              *)
(***************************************************************************)
THEOREM RobotsGoFirst == Spec => RobotsFirst
<1>1. IInv /\ JobInv /\ [Next]_vars =>
        [\A job \in flying' \ flying :
           /\ job \notin ended
           /\ job \in Elem => RobotOf(job) \in ended]_vars
  <2> SUFFICES ASSUME IInv, JobInv, [Next]_vars, NEW job \in flying' \ flying
               PROVE  /\ job \notin ended
                      /\ job \in Elem => RobotOf(job) \in ended
    OBVIOUS
  <2>1. PICK x \in heap : StartDownload(x)
    BY OnlyStartDownload
  <2>2. job \in Queued
    BY <2>1, StartFacts
  <2> QED
    BY <2>2 DEF JobInv, OnePlace, RobotsOrder
<1> QED
  BY <1>1, Invariance, JobsInvariance, PTL DEF Spec, RobotsFirst

-----------------------------------------------------------------------------
(* Crawler implements CrawlService. *)

wantedBar == {e \in dispatched \cap ValidElem : callCount[e] = 0}
fetchedBar == (ended \cap Robot) \ calling

(* Each running fetch keeps a host busy, so there are at most as many. *)
LEMMA RunningCount ==
  ASSUME IInv
  PROVE  IsFiniteSet(Running) /\ Cardinality(Running) <= active
         /\ Cardinality(Running) \in Nat
<1> DEFINE f == [job \in Running |-> HostOf(job)]
<1>1. f \in [Running -> BusyHosts]
  BY DEF Running, InFlight, JobHosts, BusyHosts
<1>2. \A i, j \in Running : f[i] = f[j] => i = j
  BY DEF Running, InFlight, IInv, QueueOwnership
<1> HIDE DEF f
<1>3. f \in Injection(Running, BusyHosts)
  BY <1>1, <1>2 DEF Injection, IsInjective
<1>4. IsFiniteSet(BusyHosts) /\ active = Cardinality(BusyHosts)
  BY DEF IInv, ActiveCount
<1> QED
  BY <1>3, <1>4, FS_Injection, FS_CardinalityType

(* CrawlService has its own instance of these operators.                   *)
LEMMA SameOperators ==
  /\ Service!Job = Job /\ Service!Robot = Robot
  /\ \A job : Service!HostOf(job) = HostOf(job)
  /\ \A e : Service!RobotOf(e) = RobotOf(e)
  /\ \A S : Service!Cardinality(S) = Cardinality(S)
<1>1. Service!Robot = Robot
  BY DEF Service!Robot, Robot
<1>2. Service!Job = Job
  BY <1>1 DEF Service!Job, Job
<1>3. \A job : Service!HostOf(job) = HostOf(job)
  BY DEF Service!HostOf, HostOf
<1>4. \A e : Service!RobotOf(e) = RobotOf(e)
  BY DEF Service!RobotOf, RobotOf
<1>5. \A S : Service!Cardinality(S) = Cardinality(S)
  BY DEF Service!Cardinality, Cardinality
<1> QED
  BY <1>1, <1>2, <1>3, <1>4, <1>5

LEMMA ServiceInit == Init => Service!Init
  BY DEF Init, Service!Init

LEMMA StartRoundRefines ==
  ASSUME IInv, JobInv, AnsweredOnce, NEW b \in Batches, StartRound(b)
  PROVE  Service!Accept(Range(b)) /\ Range(b) \in SUBSET Elem
<1> USE DEF StartRound, ioVars
<1>1. Running = {}
  BY PlaceTypes DEF Running, InFlight, InRound
<1>2. wantedBar = {}
  BY UrlAssumption DEF wantedBar, AnsweredOnce
<1>3. Range(b) \subseteq Elem /\ Range(b) \cap dispatched = {}
  BY CrawlerAssumption DEF Range
<1>4. \A e \in Range(b) : callCount[e] = 0
  BY <1>3 DEF JobInv, NoneLost, IInv, TypeOK
<1>5. wantedBar' = Range(b) \cap ValidElem
  BY <1>2, <1>4 DEF wantedBar
<1> QED
  BY <1>1, <1>2, <1>3, <1>5 DEF Service!Accept, wantedBar, Running

LEMMA StartDownloadRefines ==
  ASSUME IInv, JobInv, NEW x \in heap, StartDownload(x)
  PROVE  \E job \in Job : Service!Fetch(job)
<1> PICK h \in DOMAIN downloads, job \in Job :
      /\ HostOf(job) = h /\ h \notin BusyHosts
      /\ job \in Queued /\ Queued' = Queued \ {job}
      /\ flying' = flying \cup {job}
      /\ canAddDownload(active)
  BY StartFacts
<1>1. UNCHANGED <<calling, notifying, dispatched, ended, callCount>>
  BY DEF StartDownload, history
<1>2. \A other \in Running : HostOf(other) # HostOf(job)
  BY DEF Running, InFlight, JobHosts, BusyHosts
<1>3. Cardinality(Running) < MaxActive
  <2>1. Cardinality(Running) <= active /\ Cardinality(Running) \in Nat
    BY RunningCount
  <2>2. active \in Nat /\ active < MaxActive /\ MaxActive \in Nat
    BY CrawlerAssumption DEF canAddDownload, IInv, TypeOK
  <2> QED
    BY <2>1, <2>2
<1>4. job \notin fetchedBar
  BY DEF JobInv, OnePlace, fetchedBar
<1>5. ASSUME job \in Robot
      PROVE  \E e \in wantedBar : RobotOf(e) = job
  <2>1. /\ job \in DOMAIN urlList /\ urlList[job] # <<>>
        /\ urlList[job] \in Seq(Elem)
    BY <1>5, PlaceTypes DEF JobInv, RobotsOrder, IInv, TypeOK
  <2>2. PICK e \in Range(urlList[job]) : TRUE
    BY <2>1, EmptyRange
  <2>3. RobotOf(e) = job /\ e \in Listed
    BY <2>1 DEF JobInv, RobotsOrder, Listed, AllOf
  <2>4. e \in wantedBar
    BY <2>3 DEF JobInv, NoneLost, Unanswered, wantedBar
  <2> QED
    BY <2>3, <2>4
<1>6. ASSUME job \notin Robot
      PROVE  job \in wantedBar /\ RobotOf(job) \in fetchedBar
  <2>1. job \in Elem
    BY <1>6 DEF Job
  <2>2. job \in wantedBar
    BY <2>1 DEF JobInv, NoneLost, Unanswered, wantedBar
  <2>3. RobotOf(job) \in ended /\ RobotOf(job) \in Robot
        /\ HostOf(RobotOf(job)) = HostOf(job)
    BY <2>1, RobotType DEF JobInv, RobotsOrder
  <2>4. RobotOf(job) \notin calling
    BY <1>2, <2>3 DEF Running
  <2> QED
    BY <2>2, <2>3, <2>4 DEF fetchedBar
<1>7. Service!Fetch(job)
  BY <1>1, <1>2, <1>3, <1>4, <1>5, <1>6, SameOperators
     DEF Service!Fetch, Running, wantedBar, fetchedBar
<1> QED
  BY <1>7

LEMMA FinishDownloadRefines ==
  ASSUME JobInv, NEW job \in Job, NEW ok \in BOOLEAN, FinishDownload(job, ok)
  PROVE  UNCHANGED Service!vars
<1> USE DEF FinishDownload
<1>1. Running' = Running
  BY DEF Running
<1>2. fetchedBar' = fetchedBar
  BY DEF fetchedBar, JobInv, OnePlace
<1> QED
  BY <1>1, <1>2 DEF Service!vars, Running, fetchedBar

LEMMA CallUserCallbackRefines ==
  ASSUME IInv, JobInv, NEW e \in Elem, CallUserCallback(e)
  PROVE  Service!Answer(e)
<1> USE DEF CallUserCallback
<1>1. /\ calling = {e} /\ e \notin flying /\ e \notin Robot /\ callCount[e] = 0
      /\ callCount \in [Elem -> Nat] /\ dispatched \subseteq Elem
  BY UrlAssumption
     DEF IInv, TypeOK, PcInvariant, QueueOwnership, JobInv, NoneLost, Running,
         Unanswered
<1>2. Running' = Running \ {e} /\ e \in Running
  BY <1>1 DEF Running
<1>3. callCount'[e] = 1 /\ \A y \in Elem : y # e => callCount'[y] = callCount[y]
  BY <1>1
<1>4. wantedBar' = wantedBar \ {e}
  BY <1>1, <1>3 DEF wantedBar
<1>5. fetchedBar' = fetchedBar
  BY <1>1 DEF fetchedBar
<1> QED
  BY <1>2, <1>4, <1>5 DEF Service!Answer, Running, wantedBar, fetchedBar

LEMMA AllUrlsAddedRefines ==
  ASSUME IInv, JobInv, NEW r \in Robot, AllUrlsAdded(r)
  PROVE  Service!RobotsFetched(r)
<1> USE DEF AllUrlsAdded, history
<1>1. calling = {r} /\ r \notin flying /\ r \in ended
  BY DEF IInv, PcInvariant, QueueOwnership, JobInv, OnePlace
<1>2. Running' = Running \ {r} /\ r \in Running
  BY <1>1 DEF Running
<1>3. fetchedBar' = fetchedBar \cup {r}
  BY <1>1 DEF fetchedBar
<1> QED
  BY <1>2, <1>3 DEF Service!RobotsFetched, Running, fetchedBar

(* The other steps are not seen. *)
LEMMA OthersStutter ==
  ASSUME UNCHANGED <<flying, calling, dispatched, ended, callCount>>
  PROVE  UNCHANGED Service!vars
  BY DEF Service!vars

LEMMA ServiceStep ==
  ASSUME IInv, JobInv, AnsweredOnce, [Next]_vars
  PROVE  [Service!Next]_(Service!vars)
<1>1. CASE \E b \in Batches : StartRound(b)
  BY <1>1, StartRoundRefines DEF Service!Next
<1>2. CASE \E x \in heap : StartDownload(x)
  BY <1>2, StartDownloadRefines, SameOperators DEF Service!Next
<1>3. CASE \E job \in Job, ok \in BOOLEAN : FinishDownload(job, ok)
  BY <1>3, FinishDownloadRefines
<1>4. CASE \E e \in Elem : CallUserCallback(e)
  BY <1>4, CallUserCallbackRefines DEF Service!Next
<1>5. CASE \E r \in Robot : AllUrlsAdded(r)
  BY <1>5, AllUrlsAddedRefines, SameOperators DEF Service!Next
<1>6. CASE \/ StopCrawling \/ SkipInvalidUrl \/ AddRobotsDownload
           \/ AppendToUrlList \/ BuildHeap \/ EndRound \/ GoWait \/ ReadClock
           \/ WaitAndExecute \/ WaitUntilAndExecute \/ Drain
           \/ RunFinishAction \/ LoopBack
  BY <1>6, OthersStutter
     DEF StopCrawling, SkipInvalidUrl, AddRobotsDownload, AppendToUrlList,
         BuildHeap, EndRound, GoWait, ReadClock, WaitAndExecute,
         WaitUntilAndExecute, Drain, RunFinishAction, LoopBack, ioVars, history
<1>7. CASE \/ \E r \in Robot : AddUrl(r)
           \/ \E job \in Job : PushFinishAction(job)
           \/ Tick \/ Terminated \/ UNCHANGED vars
  BY <1>7, OthersStutter
     DEF AddUrl, PushFinishAction, Tick, Terminated, vars, ioVars, history
<1> QED
  BY <1>1, <1>2, <1>3, <1>4, <1>5, <1>6, <1>7 DEF Next, CrawlThread, RunCallback

(***************************************************************************)
(* Crawler does what CrawlService says: lists are taken one after another, *)
(* every valid URL is fetched and answered once, after the robots.txt of   *)
(* its scheme and host, with one fetch at a time per host and at most      *)
(* maxActiveQueues in all.                                                 *)
(***************************************************************************)
THEOREM ServiceRefinement == Spec => ImplementsService
<1>1. Init => Service!Init
  BY ServiceInit
<1>2. IInv /\ JobInv /\ AnsweredOnce /\ [Next]_vars
        => [Service!Next]_(Service!vars)
  BY ServiceStep
<1> QED
  BY <1>1, <1>2, Invariance, JobsInvariance, UrlsAnsweredOnce, PTL
     DEF Spec, ImplementsService, Service!Spec

=============================================================================
