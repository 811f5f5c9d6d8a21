-------------------------- MODULE MCThreadQueueList -------------------------
(* ThreadQueueList on a small instance: three threads, three levels. *)
EXTENDS ThreadQueueList

CONSTANTS t1, t2, t3

MCThreads == {t1, t2, t3}
=============================================================================
