---------------------------- MODULE CrawlService ----------------------------
(***************************************************************************)
(* What a user of Crawler sees, without queues, heap or threads: lists of  *)
(* URLs go in, every valid URL is fetched once and answered once, its      *)
(* host's robots.txt is fetched before it, a host has one fetch at a time, *)
(* and at most MaxActive fetches run at once.                              *)
(***************************************************************************)
EXTENDS Urls

CONSTANT MaxActive

VARIABLES
  seen,     \* the URLs accepted so far
  wanted,   \* the valid ones not yet answered
  running,  \* the fetches under way
  fetched   \* the robots.txt files fetched for the present list

vars == <<seen, wanted, running, fetched>>

TypeOK ==
  /\ seen \subseteq Elem
  /\ wanted \subseteq ValidElem
  /\ running \subseteq Job
  /\ fetched \subseteq Robot

Init == seen = {} /\ wanted = {} /\ running = {} /\ fetched = {}

(* The next list is taken when the previous one is answered in full. *)
Accept(urls) ==
  /\ wanted = {} /\ running = {}
  /\ urls \cap seen = {}
  /\ seen' = seen \cup urls
  /\ wanted' = urls \cap ValidElem
  /\ fetched' = {}
  /\ UNCHANGED running

Fetch(job) ==
  /\ \A other \in running : HostOf(other) # HostOf(job)
  /\ Cardinality(running) < MaxActive
  /\ job \notin fetched
  /\ IF job \in Robot
     THEN \E e \in wanted : RobotOf(e) = job
     ELSE job \in wanted /\ RobotOf(job) \in fetched
  /\ running' = running \cup {job}
  /\ UNCHANGED <<seen, wanted, fetched>>

Answer(e) ==
  /\ e \in running
  /\ running' = running \ {e}
  /\ wanted' = wanted \ {e}
  /\ UNCHANGED <<seen, fetched>>

RobotsFetched(r) ==
  /\ r \in running
  /\ running' = running \ {r}
  /\ fetched' = fetched \cup {r}
  /\ UNCHANGED <<seen, wanted>>

Next ==
  \/ \E urls \in SUBSET Elem : Accept(urls)
  \/ \E job \in Job : Fetch(job)
  \/ \E e \in Elem : Answer(e)
  \/ \E r \in Robot : RobotsFetched(r)

Spec == Init /\ [][Next]_vars
=============================================================================
