------------------------------ MODULE TimeHeap ------------------------------
(***************************************************************************)
(* Class TimeHeap: a binary heap of (due time, queue iterator) pairs       *)
(* ordered by due time.  Which of several entries with the least due time  *)
(* pop_heap moves to the back depends on the array layout, so any of them  *)
(* may be the next.  Times are relative to the present, which is 0.        *)
(*                                                                         *)
(* The heap is a set of entries: two equal entries would merge, but        *)
(* Crawler's QueueOwnership shows that a queue never has two.              *)
(***************************************************************************)
EXTENDS Integers

Entry(host, due) == [queue |-> host, due |-> due]

(* The constructor: every queue is due at once. *)
HeapOf(hosts) == {Entry(h, 0) : h \in hosts}

(* push: the queue is due after the given delay. *)
Push(heap, host, delay) == heap \cup {Entry(host, delay)}

(* The entries pop may take: those with the least due time. *)
Top(heap) == {x \in heap : \A y \in heap : x.due <= y.due}

(* crtTime >= topTime() *)
TopIsDue(heap, crtTime) == \E x \in heap : x.due <= crtTime
=============================================================================
