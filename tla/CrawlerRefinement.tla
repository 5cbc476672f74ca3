-------------------------- MODULE CrawlerRefinement --------------------------
(***************************************************************************)
(* Crawler implements CrawlService.  A fetch runs from its start to the    *)
(* end of its callback's own work; a URL is wanted until its callback is   *)
(* called; a robots.txt is fetched once all its URLs are in the queue.     *)
(***************************************************************************)
EXTENDS Crawler

Service == INSTANCE CrawlService WITH
  seen <- dispatched,
  wanted <- {e \in dispatched \cap ValidElem : callCount[e] = 0},
  running <- flying \cup calling,
  fetched <- (ended \cap Robot) \ calling

(* Every behaviour of the crawler is one of the service. *)
ImplementsService == Service!Spec
=============================================================================
