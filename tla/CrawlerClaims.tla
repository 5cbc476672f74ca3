---------------------------- MODULE CrawlerClaims ----------------------------
(***************************************************************************)
(* What the documentation says of the crawler and the code does not do.    *)
(* Each property is found violated by a run of its own.                    *)
(***************************************************************************)
EXTENDS MCCrawler

(***************************************************************************)
(* crawler.h, "One download queue per host with 2 secs timeout between     *)
(* downloads per host": the delay also separates the last download of one  *)
(* round from the first of the next.  TimeHeap's constructor makes every   *)
(* queue due at once.                                                      *)
(***************************************************************************)
PoliteAlways ==
  [][\A job \in flying' \ flying : since[HostOf(job)] >= Delay]_vars

(***************************************************************************)
(* crawler.h, "if download error => set result to download error, don't    *)
(* crawl": after a failed robots.txt download its URLs are not downloaded. *)
(* The robots.txt callback ignores its result.                             *)
(***************************************************************************)
RobotsErrorStopsUrls ==
  [][\A job \in (flying' \ flying) \cap Elem : RobotOf(job) \notin failed]_vars
=============================================================================
