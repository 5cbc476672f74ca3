------------------------------ MODULE MCCrawler ------------------------------
(***************************************************************************)
(* Instances of Crawler for TLC.  Host h1 is reached over both schemes, so *)
(* that two robots.txt downloads share its queue; e1 and e5 share scheme   *)
(* and host; bad is an element whose URL is not valid.                     *)
(***************************************************************************)
EXTENDS CrawlerRefinement, SequencesExt, TLC

CONSTANTS e1, e2, e3, e4, e5, bad, h1, h2, h3, http, https

MCUrlHost == [e \in Elem |-> IF e = e3 THEN h2 ELSE IF e = e4 THEN h3 ELSE h1]
MCUrlScheme == [e \in Elem |-> IF e = e2 THEN https ELSE http]
MCValidElem == Elem \ {bad}

(* Three hosts for two slots, both schemes of a host, and a second round   *)
(* of one URL, before or after one with the same host among others.        *)
WideBatches ==
  {<<>>, <<e1, e2, e3>>, <<e4, bad, e3>>, <<e4, e3, e1>>, <<e2>>}

(* Both schemes of a host, an invalid element and a second host. *)
LiveBatches == {<<>>, <<e1>>, <<e1, e2>>, <<e2, bad, e3>>}

(* Every list of at most two valid elements, and some of three: two        *)
(* elements of one scheme and host among others, in several orders.        *)
MixedBatches ==
  {b \in BoundedSeq(Elem \ {bad}, 2) : IsInjective(b)}
    \cup {<<e1, e5, e2>>, <<e2, e1, e5>>, <<e5, e3, e1>>, <<e1, bad, e5>>}
=============================================================================
