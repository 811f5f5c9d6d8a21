-------------------------------- MODULE Room --------------------------------
(***************************************************************************)
(* The multiplayer room, network/room.cpp, and the members that connect to *)
(* it, network/room_member.cpp.                                            *)
(*                                                                         *)
(* Every member has two host threads: the one of the frontend, which joins *)
(* and leaves, and the loop thread, which talks to the room.  They share   *)
(* `state' and `send_list'.  The room has one thread.                      *)
(*                                                                         *)
(* ENet is external: a connection delivers what is sent in order, and      *)
(* whoever gives up a connection may lose what was not delivered yet; then *)
(* the other side is told that it is disconnected.  MAC addresses and      *)
(* versions, two more grounds to refuse a request, the bans of user names, *)
(* game information, chat, Wifi and status packets and what members are    *)
(* told of each other are left out.                                        *)
(***************************************************************************)
EXTENDS Integers, FiniteSets, SequencesExt

CONSTANTS
  Clients,
  Peers, NoPeer,     \* names of connections
  member_slots,
  IdentitiesOf,      \* client -> what it may join as; valid: with the right
                     \* password
  BanLists,          \* ban lists the room may be created with
  Moderations,       \* what a frontend may ask a moderator to do
  MaxCalls,          \* bound: requests the frontends make
  MaxLosses          \* bound: what the network loses

ASSUME RoomAssumption ==
  /\ NoPeer \notin Peers /\ member_slots \in Nat /\ MaxCalls \in Nat /\ MaxLosses \in Nat
  /\ \A c \in Clients : \A id \in IdentitiesOf[c] : id.host \in BOOLEAN
  /\ \A packet \in Moderations : packet.type \in {"ModKick", "ModBan", "ModUnban"}

\* A client has one console, whatever it calls itself.  (Its user may give it
\* another between two calls of Join; this is left out.  HandleJoinRequest does
\* not look at the peer, so a request of the first Join that is still in
\* send_list could then make one peer two members.)
ASSUME ConsoleAssumption ==
  \A c \in Clients : \A id1, id2 \in IdentitiesOf[c] : id1.console_id_hash = id2.console_id_hash

\* There is a name left for every new connection.
ASSUME PeersAssumption ==
  /\ IsFiniteSet(Clients) /\ Clients # {} /\ IsFiniteSet(Peers)
  /\ member_slots + Cardinality(Clients) <= Cardinality(Peers)

VARIABLES
  open,         \* the room's state
  members,      \* records, see Member
  ip_ban_list,
  link,         \* peer -> "free", "connected", "disconnecting", on the room's side
  up,           \* peer -> what the room has not received yet
  down,         \* client -> what it has not received yet
  peer,         \* client -> its connection
  state,        \* client -> state of the RoomMember
  send_list,    \* client -> packets for the loop thread to send
  loop,         \* client -> where the loop thread is: "turn", "late" (it will see
                \* only after a turn that Leave has been called), "ended", "none"
  call,         \* client -> the call its frontend has not returned from
  calls,        \* requests made so far
  losses        \* what the network has lost so far

roomVars == <<open, members, ip_ban_list>>
netVars == <<link, up, down>>
memberVars == <<peer, state, send_list, loop, call>>
vars == <<roomVars, netVars, memberVars, calls, losses>>

Packet(type, arg) == [type |-> type, arg |-> arg]
Disconnected == Packet("DISCONNECT", NoPeer)
NoCall == Packet("none", NoPeer)

Init ==
  /\ open = TRUE /\ members = {} /\ ip_ban_list \in BanLists
  /\ link = [p \in Peers |-> "free"] /\ up = [p \in Peers |-> <<>>]
  /\ down = [c \in Clients |-> <<>>]
  /\ peer = [c \in Clients |-> NoPeer] /\ state = [c \in Clients |-> "Idle"]
  /\ send_list = [c \in Clients |-> <<>>]
  /\ loop = [c \in Clients |-> "none"] /\ call = [c \in Clients |-> NoCall]
  /\ calls = 0 /\ losses = 0

-----------------------------------------------------------------------------
\* What the room sends.

\* A packet to some peers; nothing is sent on a connection that is given up.
Send(to, packet) ==
  [c \in Clients |->
     IF peer[c] \in to /\ link[peer[c]] = "connected" THEN Append(down[c], packet)
     ELSE down[c]]

\* enet_peer_disconnect: nothing more is received from the peer.
Hangup(sent, gone) ==
  [c \in Clients |->
     IF peer[c] \in gone /\ link[peer[c]] = "connected" THEN Append(sent[c], "DISCONNECT")
     ELSE sent[c]]

\* Mutant: only a peer that says good-bye is looked for among the members.
MemberOfConnected(p) == {m \in members : m.peer = p /\ link[p] = "connected"}

MemberOf(p) == {m \in members : m.peer = p}

\* What the room keeps of a client that has joined: Member; ip and host stand
\* for what is found by way of peer and user_data.
Member(id, p) ==
  [nickname |-> id.nickname, console_id_hash |-> id.console_id_hash, ip |-> id.ip,
   host |-> id.host, peer |-> p]

\* HasModPermission.
HasModPermission(M, p) == \E m \in M : m.peer = p /\ m.host

-----------------------------------------------------------------------------
\* The room's thread: ServerLoop takes the next packet of a peer.

\* What HandleJoinRequest answers, in the order of its checks.
Answer(id) ==
  CASE Cardinality(members) >= member_slots -> "RoomIsFull"
    [] ~id.valid -> "WrongPassword"
    [] \E m \in members : m.nickname = id.nickname -> "NameCollision"
    [] \E m \in members : m.console_id_hash = id.console_id_hash -> "ConsoleIdCollision"
    [] id.ip \in ip_ban_list -> "HostBanned"
    [] OTHER -> "JoinSuccess"

\* Mutant: a room that is full does not answer.
RefusedSilently(p, id) ==
  IF Answer(id) = "RoomIsFull" THEN down ELSE Send({p}, Answer(id))

Refused(p, id) == Send({p}, Answer(id))

HandleJoinRequest(p, id) ==
  LET M == members \cup {Member(id, p)} IN
    /\ \/ /\ Answer(id) = "JoinSuccess"
          /\ members' = M
          /\ down' = Send({p}, IF HasModPermission(M, p) THEN "JoinSuccessAsMod"
                               ELSE "JoinSuccess")
       \/ /\ Answer(id) # "JoinSuccess"
          /\ down' = Refused(p, id)
          /\ UNCHANGED members
    /\ up' = [up EXCEPT ![p] = Tail(@)]
    /\ UNCHANGED <<open, ip_ban_list, link, memberVars, calls, losses>>

\* HandleModKickPacket and HandleModBanPacket.  The target's peer is
\* disconnected at once; the packet that says why may be lost with it.
HandleModPacket(p, nickname, ban) ==
  LET targets == {m \in members : m.nickname = nickname}
      target == CHOOSE m \in targets : TRUE
      told == Send({target.peer}, IF ban THEN "HostBanned" ELSE "HostKicked")
  IN \/ /\ ~HasModPermission(members, p) \/ targets = {}
        /\ up' = [up EXCEPT ![p] = Tail(@)]
        /\ UNCHANGED <<roomVars, link, down, memberVars, calls, losses>>
     \/ /\ HasModPermission(members, p) /\ targets # {}
        /\ members' = members \ {target}
        /\ ip_ban_list' = IF ban THEN ip_ban_list \cup {target.ip} ELSE ip_ban_list
        /\ link' = [link EXCEPT ![target.peer] = "disconnecting"]
        /\ down' = Hangup(told, {target.peer})
        /\ up' = [q \in Peers |-> IF q = target.peer /\ link[q] = "connected" THEN <<Disconnected>>
                                  ELSE IF q = p THEN Tail(up[q]) ELSE up[q]]
        /\ UNCHANGED <<open, memberVars, calls, losses>>

\* HandleModUnbanPacket.
HandleModUnban(p, ip) ==
  /\ ip_ban_list' = IF HasModPermission(members, p) THEN ip_ban_list \ {ip} ELSE ip_ban_list
  /\ up' = [up EXCEPT ![p] = Tail(@)]
  /\ UNCHANGED <<open, members, link, down, memberVars, calls, losses>>

\* HandleClientDisconnection: the peer has disconnected, has timed out or has
\* confirmed that the room disconnected it.  The first member found with this
\* peer is removed.
HandleClientDisconnection(p) ==
  /\ \/ MemberOf(p) = {} /\ UNCHANGED members
     \/ \E m \in MemberOf(p) : members' = members \ {m}
  /\ link' = [link EXCEPT ![p] = "free"]
  /\ down' = Hangup(down, {p})
  /\ up' = [up EXCEPT ![p] = <<>>]
  /\ UNCHANGED <<open, ip_ban_list, memberVars, calls, losses>>

ServerLoop(p) ==
  /\ open /\ up[p] # <<>>
  /\ LET packet == Head(up[p]) IN
       CASE packet.type = "JoinRequest" -> HandleJoinRequest(p, packet.arg)
         [] packet.type = "ModKick" -> HandleModPacket(p, packet.arg, FALSE)
         [] packet.type = "ModBan" -> HandleModPacket(p, packet.arg, TRUE)
         [] packet.type = "ModUnban" -> HandleModUnban(p, packet.arg)
         [] packet.type = "DISCONNECT" -> HandleClientDisconnection(p)

\* Destroy: the room's thread ends with SendCloseMessage, then the host is
\* destroyed; peers that are not members find out when they time out.
Destroy ==
  /\ open
  /\ open' = FALSE /\ members' = {}
  /\ down' = Hangup(Send({m.peer : m \in members}, "CloseRoom"), Peers)
  /\ link' = [p \in Peers |-> "free"] /\ up' = [p \in Peers |-> <<>>]
  /\ UNCHANGED <<ip_ban_list, memberVars, calls, losses>>

-----------------------------------------------------------------------------
\* The network.

\* The connection of a client times out, on both sides.
LoseConnection(c) ==
  LET p == peer[c] IN
    /\ p # NoPeer /\ link[p] = "connected"
    /\ losses < MaxLosses /\ losses' = losses + 1
    /\ link' = [link EXCEPT ![p] = "disconnecting"]
    /\ \E q \in Prefixes(up[p]) : up' = [up EXCEPT ![p] = Append(q, Disconnected)]
    /\ \E q \in Prefixes(down[c]) : down' = [down EXCEPT ![c] = Append(q, "DISCONNECT")]
    /\ UNCHANGED <<roomVars, memberVars, calls>>

\* Of what the room sent before it gave up a connection something is lost.
LosePacket(c) ==
  /\ Len(down[c]) >= 2 /\ Last(down[c]) = "DISCONNECT"
  /\ losses < MaxLosses /\ losses' = losses + 1
  /\ down' = [down EXCEPT ![c] = Append(SubSeq(@, 1, Len(@) - 2), "DISCONNECT")]
  /\ UNCHANGED <<roomVars, link, up, memberVars, calls>>

-----------------------------------------------------------------------------
\* A member's frontend thread.

IsConnected(s) == s \in {"Joining", "Joined", "Moderator"}

\* Join, when no loop thread is left: a connection is made if the room has a
\* peer to spare (Create leaves one for a client that will be told that the
\* room is full) and the loop is started.  A Join that cannot connect leaves
\* everything as it was.
Join(c, id) ==
  /\ loop[c] = "none" /\ call[c] = NoCall
  /\ open /\ Cardinality({p \in Peers : link[p] # "free"}) <= member_slots
  /\ calls < MaxCalls /\ calls' = calls + 1
  /\ LET p == CHOOSE q \in Peers : link[q] = "free" /\ \A d \in Clients : peer[d] # q IN
       /\ peer' = [peer EXCEPT ![c] = p]
       /\ link' = [link EXCEPT ![p] = "connected"]
  /\ down' = [down EXCEPT ![c] = <<>>]
  /\ state' = [state EXCEPT ![c] = "Joining"]
  /\ loop' = [loop EXCEPT ![c] = "turn"]
  /\ call' = [call EXCEPT ![c] = Packet("Join", id)]
  /\ UNCHANGED <<roomVars, up, send_list, losses>>

\* Join returns when its request is in the list, behind whatever an earlier
\* connection has not sent; the loop thread runs already.
SendJoinRequest(c) ==
  /\ call[c].type = "Join"
  /\ send_list' = [send_list EXCEPT ![c] = Append(@, Packet("JoinRequest", call[c].arg))]
  /\ call' = [call EXCEPT ![c] = NoCall]
  /\ UNCHANGED <<roomVars, netVars, peer, state, loop, calls, losses>>

\* SendModerationRequest.
SendModerationRequest(c, packet) ==
  /\ IsConnected(state[c]) /\ call[c] = NoCall
  /\ calls < MaxCalls /\ calls' = calls + 1
  /\ send_list' = [send_list EXCEPT ![c] = Append(@, packet)]
  /\ UNCHANGED <<roomVars, netVars, peer, state, loop, call, losses>>

\* Leave, up to the join of the loop thread, which may just have looked at the
\* state; Join begins with it if the loop thread of the last connection was
\* not joined yet.
Leave(c) ==
  /\ loop[c] # "none" /\ call[c] = NoCall
  /\ state' = [state EXCEPT ![c] = "Idle"]
  /\ call' = [call EXCEPT ![c] = Packet("Leave", NoPeer)]
  /\ loop' \in IF IsConnected(state[c]) THEN {loop, [loop EXCEPT ![c] = "late"]} ELSE {loop}
  /\ UNCHANGED <<roomVars, netVars, peer, send_list, calls, losses>>

\* Leave returns.
Left(c) ==
  /\ call[c].type = "Leave" /\ loop[c] = "ended"
  /\ call' = [call EXCEPT ![c] = NoCall]
  /\ loop' = [loop EXCEPT ![c] = "none"]
  /\ UNCHANGED <<roomVars, netVars, peer, state, send_list, calls, losses>>

-----------------------------------------------------------------------------
\* A member's loop thread: MemberLoop.

\* The condition of the loop has failed: Disconnect.
LoopEnds(c) ==
  LET p == peer[c] IN
    /\ loop[c] = "turn" /\ ~IsConnected(state[c])
    /\ loop' = [loop EXCEPT ![c] = "ended"]
    /\ peer' = [peer EXCEPT ![c] = NoPeer]
    /\ down' = [down EXCEPT ![c] = <<>>]
    /\ IF link[p] = "connected"
       THEN \E q \in Prefixes(up[p]) : up' = [up EXCEPT ![p] = Append(q, Disconnected)]
       ELSE UNCHANGED up
    /\ UNCHANGED <<roomVars, link, state, send_list, call, calls, losses>>

\* Mutant: a lost connection is noticed only while joining.
AfterEventDeaf(s, event) ==
  CASE event = "JoinSuccess" -> "Joined"
    [] event = "JoinSuccessAsMod" -> "Moderator"
    [] event = "DISCONNECT" -> IF s = "Joining" THEN "Idle" ELSE s
    [] event = "NONE" -> s
    [] OTHER -> "Idle"

\* The state after an event.  While it joins, a member takes no notice of the
\* end of the connection.
AfterEvent(s, event) ==
  CASE event = "JoinSuccess" -> "Joined"
    [] event = "JoinSuccessAsMod" -> "Moderator"
    [] event = "DISCONNECT" -> IF s \in {"Joined", "Moderator"} THEN "Idle" ELSE s
    [] event = "NONE" -> s
    [] OTHER -> "Idle"

\* One turn: an event, if there is one, and all packets of the list.
LoopTurn(c) ==
  LET p == peer[c]
      event == IF down[c] = <<>> THEN "NONE" ELSE Head(down[c])
  IN /\ loop[c] = "late" \/ (loop[c] = "turn" /\ IsConnected(state[c]))
     /\ event # "NONE" \/ send_list[c] # <<>> \/ loop[c] = "late"
     /\ loop' = [loop EXCEPT ![c] = "turn"]
     /\ down' = IF event = "NONE" THEN down ELSE [down EXCEPT ![c] = Tail(@)]
     /\ state' = [state EXCEPT ![c] = AfterEvent(@, event)]
     /\ send_list' = [send_list EXCEPT ![c] = <<>>]
     /\ up' = IF link[p] = "connected" THEN [up EXCEPT ![p] = @ \o send_list[c]] ELSE up
     /\ UNCHANGED <<roomVars, link, peer, call, calls, losses>>

-----------------------------------------------------------------------------
Next ==
  \/ \E p \in Peers : ServerLoop(p)
  \/ Destroy
  \/ \E c \in Clients :
       \/ LoseConnection(c) \/ LosePacket(c)
       \/ \E id \in IdentitiesOf[c] : Join(c, id)
       \/ \E packet \in Moderations : SendModerationRequest(c, packet)
       \/ SendJoinRequest(c) \/ Leave(c) \/ Left(c) \/ LoopEnds(c) \/ LoopTurn(c)

Spec == Init /\ [][Next]_vars

-----------------------------------------------------------------------------
\* Properties.

TypeOK ==
  /\ state \in [Clients -> {"Idle", "Joining", "Joined", "Moderator"}]
  /\ loop \in [Clients -> {"none", "turn", "late", "ended"}]
  /\ link \in [Peers -> {"free", "connected", "disconnecting"}]
  /\ peer \in [Clients -> Peers \cup {NoPeer}]

\* The members of the room are at most member_slots, differ in nickname, in
\* console and in peer although members reconnect, are thrown out and send a
\* request twice, and each has a connection or one whose end is still to be
\* handled (HandleJoinRequest, HandleModKickPacket, HandleClientDisconnection, MemberLoop).
MembersConsistent ==
  /\ TypeOK
  /\ Cardinality(members) <= member_slots
  /\ \A m, n \in members :
       m # n => /\ m.nickname # n.nickname /\ m.console_id_hash # n.console_id_hash
                /\ m.peer # n.peer
  /\ \A m \in members :
       link[m.peer] = "connected" \/ (up[m.peer] # <<>> /\ Last(up[m.peer]) = Disconnected)

\* Who believes to have joined is a member of the room, or has an event to
\* receive that will say otherwise; and only a member that may moderate
\* believes it may.
JoinedIsMember ==
  \A c \in Clients :
    state[c] \in {"Joined", "Moderator"} =>
      \/ \E m \in members : m.peer = peer[c] /\ (m.host <=> state[c] = "Moderator")
      \/ ToSet(down[c]) \ {"JoinSuccess", "JoinSuccessAsMod"} # {}

\* Whoever is joining over a connection that holds has a request on the way to
\* the room or an answer on the way back, although the request passes through
\* two threads and a list that outlives connections (Join, SendJoinRequest,
\* MemberLoop, HandleJoinRequest).  It does not speak of a connection that is
\* lost while joining: MemberLoop takes no notice of that, see AfterEvent.
NoLostJoin ==
  \A c \in Clients :
    state[c] = "Joining" /\ link[peer[c]] = "connected" =>
      \/ call[c].type = "Join"
      \/ \E packet \in ToSet(send_list[c]) \cup ToSet(up[peer[c]]) : packet.type = "JoinRequest"
      \/ ToSet(down[c]) \ {"DISCONNECT"} # {}
=============================================================================
