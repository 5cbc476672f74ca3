----------------------------- MODULE Downloader -----------------------------
(***************************************************************************)
(* The interface Downloader of crawler.h, as module Crawler relies on it:  *)
(* a download that was asked for has its callback called at most once, the *)
(* callbacks are called one at a time, on a thread of the downloader, and  *)
(* none is called or still running once the downloader is destroyed.       *)
(***************************************************************************)
CONSTANT Download  \* the elements given to download()

VARIABLES
  progress,  \* how far each download is
  open       \* whether the downloader exists

vars == <<progress, open>>

Init ==
  /\ progress = [d \in Download |-> "new"]
  /\ open = TRUE

Doing(what) == {d \in Download : progress[d] = what}

Ask(d) ==
  /\ open /\ progress[d] = "new"
  /\ progress' = [progress EXCEPT ![d] = "asked"]
  /\ UNCHANGED open

Call(d) ==
  /\ open /\ progress[d] = "asked" /\ Doing("callback") = {}
  /\ progress' = [progress EXCEPT ![d] = "callback"]
  /\ UNCHANGED open

Return(d) ==
  /\ progress[d] = "callback"
  /\ progress' = [progress EXCEPT ![d] = "ended"]
  /\ UNCHANGED open

(* An ongoing download is aborted by the destructor. *)
Abort(d) ==
  /\ open /\ progress[d] = "asked"
  /\ progress' = [progress EXCEPT ![d] = "aborted"]
  /\ UNCHANGED open

(* The destructor returns; what was never started is dropped. *)
Destroy ==
  /\ open /\ Doing("callback") = {}
  /\ open' = FALSE
  /\ progress' = [d \in Download |->
                    IF progress[d] = "asked" THEN "aborted" ELSE progress[d]]

Next ==
  \/ \E d \in Download : Ask(d) \/ Call(d) \/ Return(d) \/ Abort(d)
  \/ Destroy

Spec == Init /\ [][Next]_vars
=============================================================================
