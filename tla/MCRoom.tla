------------------------------- MODULE MCRoom -------------------------------
(***************************************************************************)
(* A room for two and two clients: the host, and one that may come under   *)
(* the host's nickname or with a wrong password.  A third peer is there    *)
(* for a client that finds the room full, a fourth name for a connection   *)
(* that only one side keeps.                                               *)
(***************************************************************************)
EXTENDS Room

CONSTANTS c1, c2, p1, p2, p3, p4

TwoClients == {c1, c2}
FourPeers == {p1, p2, p3, p4}

Identity(nickname, console) ==
  [nickname |-> nickname, console_id_hash |-> console, ip |-> console,
   host |-> nickname = "host", valid |-> TRUE]

HostAndGuest ==
  [c \in TwoClients |->
     IF c = c1 THEN {Identity("host", "console1")}
     ELSE {Identity("host", "console2"), Identity("guest", "console2"),
           [Identity("guest", "console2") EXCEPT !.valid = FALSE]}]

NoneOrGuest == {{}, {"console2"}}

\* The guest is banned, the host throws itself out, the ban is lifted.
BanKickUnban ==
  {Packet("ModBan", "guest"), Packet("ModKick", "host"), Packet("ModUnban", "console2")}
=============================================================================
