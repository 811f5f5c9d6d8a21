------------------------------- MODULE Deques -------------------------------
(***************************************************************************)
(* The double-ended queues of threads that the kernel keeps: the deque of  *)
(* one priority level (common/thread_queue_list.h) and the waiting list of *)
(* a wait object (kernel/wait_object.cpp).  A thread is in such a queue at *)
(* most once, so erasing "every" or "the first" match is the same          *)
(* operation, Without.                                                     *)
(***************************************************************************)
EXTENDS Naturals, Sequences, SequencesExt

\* std::deque::push_front.
PushFront(s, e) == <<e>> \o s

\* The erase-remove idiom of ThreadQueueList::remove, the find-and-erase of
\* WaitObject::RemoveWaitingThread: what is left of s once e is gone.
Without(s, e) ==
  IF \E i \in 1..Len(s) : s[i] = e
  THEN RemoveAt(s, CHOOSE i \in 1..Len(s) : s[i] = e)
  ELSE s

\* What keeps its order (remove_if, stable_partition) goes through a set I of
\* places in the one way that there is.
InOrder(I) ==
  {f \in [1..Cardinality(I) -> I] : \A i, j \in DOMAIN f : i < j => f[i] < f[j]}

\* No element occurs twice.
NoDuplicates(s) == \A i, j \in 1..Len(s) : s[i] = s[j] => i = j
=============================================================================
