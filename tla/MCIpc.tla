------------------------------- MODULE MCIpc -------------------------------
(***************************************************************************)
(* Two threads of a client process and two of a server, one port and two   *)
(* sessions at a time.  The address space has room for one buffer of one   *)
(* page per session.                                                       *)
(***************************************************************************)
EXTENDS Ipc, TLC

CONSTANTS c1, c2, s1, s2, x1, x2

TwoClients == {c1, c2}
TwoServers == {s1, s2}
TwoSessions == {x1, x2}

OneBuffer == {<<1>>}

Symmetry == Permutations(TwoClients) \cup Permutations(TwoServers) \cup Permutations(TwoSessions)
=============================================================================
