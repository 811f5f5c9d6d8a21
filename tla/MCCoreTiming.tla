---------------------------- MODULE MCCoreTiming ----------------------------
(***************************************************************************)
(* Two cores with short slices: a periodic event, an event of threads and  *)
(* one of a host thread.                                                   *)
(***************************************************************************)
EXTENDS CoreTiming

CONSTANTS tick, wake, host

AllIds == {tick, wake, host}
Periods == [id \in Ids |-> IF id = tick THEN 2 ELSE 0]
JustWake == {{wake}}
Soon == {0, 3}
HostId == {host}
=============================================================================
