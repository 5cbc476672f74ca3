-------------------------------- MODULE Urls --------------------------------
(***************************************************************************)
(* The data the crawler handles: the download elements the dispatcher      *)
(* returns, the robots.txt downloads derived from them, and the host whose *)
(* queue each of the two kinds of job belongs to.                          *)
(*                                                                         *)
(* A download element is an object (a Url with its callback), so two       *)
(* elements may carry the same URL text.  Of the text only what the code   *)
(* looks at is kept: whether the URL parses and passes isValid, and the    *)
(* exact scheme and host substrings.                                       *)
(***************************************************************************)
EXTENDS Integers, Sequences, FiniteSets

CONSTANTS
  Elem,       \* the download elements (struct DownloadElem)
  Host,       \* the host texts, compared as exact strings
  Scheme,     \* the scheme texts, compared as exact strings
  UrlHost,    \* the host text of each element
  UrlScheme,  \* the scheme text of each element
  ValidElem   \* the elements whose URL parses and passes isValid

(* The key of the robots map, also used as the name of its download. *)
Robot == [scheme : Scheme, host : Host]

(* What can stand in a download queue: a robots.txt or a URL download. *)
Job == Robot \cup Elem

ASSUME UrlAssumption ==
  /\ UrlHost \in [Elem -> Host]
  /\ UrlScheme \in [Elem -> Scheme]
  /\ ValidElem \subseteq Elem
  /\ Elem \cap Robot = {}

RobotOf(e) == [scheme |-> UrlScheme[e], host |-> UrlHost[e]]

HostOf(job) == IF job \in Elem THEN UrlHost[job] ELSE job.host
=============================================================================
