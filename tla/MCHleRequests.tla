--------------------------- MODULE MCHleRequests ---------------------------
(***************************************************************************)
(* Two clients of emulated services, one slot for saved states.            *)
(***************************************************************************)
EXTENDS HleRequests

CONSTANTS t1, t2

TwoThreads == {t1, t2}
=============================================================================
