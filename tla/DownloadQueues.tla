--------------------------- MODULE DownloadQueues ---------------------------
(***************************************************************************)
(* Class DownloadQueues: a map from host text to the vector of downloads   *)
(* still to be made for that host.  A map is a function whose domain is    *)
(* the set of its keys; an iterator is the key it points to.               *)
(***************************************************************************)
EXTENDS Sequences, Integers, Functions

NoQueues == [h \in {} |-> <<>>]

(* getQueueByHost: find the queue of a host, inserting an empty one. *)
GetQueueByHost(queues, host) ==
  [h \in DOMAIN queues \cup {host} |->
     IF h \in DOMAIN queues THEN queues[h] ELSE <<>>]

(* addDownload: emplace_back on the vector the iterator points to. *)
AddDownload(queues, host, job) ==
  [queues EXCEPT ![host] = Append(@, job)]

(* popDownload takes the back of the vector: the queue is a stack. *)
NextDownload(queues, host) == queues[host][Len(queues[host])]

PopDownload(queues, host) ==
  [queues EXCEPT ![host] = SubSeq(@, 1, Len(@) - 1)]

Erase(queues, host) == Restrict(queues, DOMAIN queues \ {host})
=============================================================================
