----------------------------- MODULE RoomProofs -----------------------------
(***************************************************************************)
(* Proofs about Room, for any number of clients, connections and slots:    *)
(* the members are consistent, who believes to have joined is a member,    *)
(* and no request to join is lost.                                         *)
(*                                                                         *)
(* The room knows a connection only by its peer.  The argument is that all *)
(* that is on a connection comes from one client, which has one console,   *)
(* so that a second request on it is refused; and that a connection that   *)
(* the room has given up ends, on both sides, with the notice of its end.  *)
(***************************************************************************)
EXTENDS Room, SequenceTheorems, FiniteSetTheorems, TLAPS

-----------------------------------------------------------------------------
\* Facts about sequences.

\* Membership in ToSet, index by index.
LEMMA ToSetMember ==
  ASSUME NEW S, NEW s \in Seq(S), NEW e
  PROVE  e \in ToSet(s) <=> \E i \in 1..Len(s) : s[i] = e
BY LenProperties DEF ToSet

\* Appending an element.
LEMMA AppendFacts ==
  ASSUME NEW S, NEW s \in Seq(S), NEW e \in S
  PROVE  Append(s, e) \in Seq(S) /\ ToSet(Append(s, e)) = ToSet(s) \cup {e}
BY AppendProperties, LenProperties DEF ToSet

\* Dropping the head.
LEMMA TailFacts ==
  ASSUME NEW S, NEW s \in Seq(S), s # <<>>
  PROVE  /\ Tail(s) \in Seq(S)
         /\ Head(s) \in S
         /\ Head(s) \in ToSet(s)
         /\ ToSet(s) = ToSet(Tail(s)) \cup {Head(s)}
<1>1. /\ Tail(s) \in Seq(S)
      /\ Head(s) \in S
      /\ Head(s) = s[1]
      /\ Len(s) \in Nat \ {0}
      /\ Len(Tail(s)) = Len(s) - 1
      /\ \A i \in 1..Len(s) - 1 : Tail(s)[i] = s[i + 1]
  BY HeadTailProperties, EmptySeq, LenProperties
<1>2. Head(s) \in ToSet(s)
  BY <1>1, ToSetMember
<1>3. ASSUME NEW x PROVE x \in ToSet(s) <=> x \in ToSet(Tail(s)) \cup {Head(s)}
  <2>1. ASSUME x \in ToSet(s), x # Head(s) PROVE x \in ToSet(Tail(s))
    <3>1. PICK i \in 1..Len(s) : s[i] = x
      BY <2>1, ToSetMember
    <3>2. i - 1 \in 1..Len(s) - 1 /\ Tail(s)[i - 1] = x
      BY <1>1, <2>1, <3>1
    <3> QED BY <1>1, <3>2, ToSetMember
  <2>2. ASSUME x \in ToSet(Tail(s)) PROVE x \in ToSet(s)
    <3>1. PICK i \in 1..Len(s) - 1 : Tail(s)[i] = x
      <4>1. \E i \in 1..Len(Tail(s)) : Tail(s)[i] = x
        BY <1>1, <2>2, ToSetMember
      <4> QED BY <1>1, <4>1
    <3>2. i + 1 \in 1..Len(s) /\ s[i + 1] = x
      BY <1>1, <3>1
    <3> QED BY <3>2, ToSetMember
  <2> QED BY <1>2, <2>1, <2>2
<1> QED BY <1>1, <1>2, <1>3

-----------------------------------------------------------------------------
Ids == UNION {IdentitiesOf[c] : c \in Clients}
Packets == {Packet("JoinRequest", id) : id \in Ids} \cup Moderations \cup {Disconnected}
Success == {"JoinSuccess", "JoinSuccessAsMod"}
Refusals == {"RoomIsFull", "WrongPassword", "NameCollision", "ConsoleIdCollision", "HostBanned"}
Events == Success \cup Refusals \cup {"HostKicked", "CloseRoom", "DISCONNECT"}

QueuesOK ==
  /\ TypeOK
  /\ up \in [Peers -> Seq(Packets)] /\ send_list \in [Clients -> Seq(Packets)]
  /\ down \in [Clients -> Seq(Events)]
  /\ call \in [Clients -> {NoCall, Packet("Leave", NoPeer)} \cup {Packet("Join", id) : id \in Ids}]

\* A client that has no loop thread has no connection.
LoopsOK ==
  \A c \in Clients :
    IF loop[c] \in {"turn", "late"} THEN peer[c] \in Peers
    ELSE peer[c] = NoPeer /\ state[c] = "Idle"

\* A sequence that ends with the notice of the end of a connection.
EndsWith(s, e) == s # <<>> /\ Last(s) = e

\* What the room still has to handle for a connection that it has given up.
LinksOK ==
  \A p \in Peers : /\ link[p] = "free" => up[p] = <<>>
                   /\ link[p] = "disconnecting" => EndsWith(up[p], Disconnected)

MembersOK ==
  /\ IsFiniteSet(members) /\ Cardinality(members) <= member_slots
  /\ \A m \in members : m.peer \in Peers /\ link[m.peer] # "free"
  /\ \A m, n \in members :
       m # n => /\ m.nickname # n.nickname /\ m.console_id_hash # n.console_id_hash
                /\ m.peer # n.peer

\* The requests of a client carry one of its identities.
Requests(S) == {x \in S : x.type = "JoinRequest"}
RequestsOK ==
  \A c \in Clients :
    /\ \A x \in Requests(ToSet(send_list[c])) : x.arg \in IdentitiesOf[c]
    /\ call[c].type = "Join" => call[c].arg \in IdentitiesOf[c]

\* All that comes over a connection is from one client.
OwnedBy(c, p) ==
  /\ \A x \in Requests(ToSet(up[p])) : x.arg \in IdentitiesOf[c]
  /\ \A m \in members : m.peer = p => \E id \in IdentitiesOf[c] : m = Member(id, p)
  /\ \A d \in Clients : peer[d] = p => d = c
OwnersOK == \A p \in Peers : \E c \in Clients : OwnedBy(c, p)

\* A client was told, or is about to be told, that it has joined.
HasJoined(c) == state[c] \in {"Joined", "Moderator"} \/ ToSet(down[c]) \cap Success # {}

\* What it was told is true of a member.
Agrees(c, m) ==
  /\ m.peer = peer[c]
  /\ state[c] \in {"Joined", "Moderator"} => (m.host <=> state[c] = "Moderator")
  /\ "JoinSuccess" \in ToSet(down[c]) => ~m.host
  /\ "JoinSuccessAsMod" \in ToSet(down[c]) => m.host

JoinsOK ==
  \A c \in Clients :
    peer[c] # NoPeer =>
      IF link[peer[c]] = "connected"
      THEN /\ "DISCONNECT" \notin ToSet(down[c])
           /\ HasJoined(c) => \E m \in members : Agrees(c, m)
      ELSE HasJoined(c) => EndsWith(down[c], "DISCONNECT")

IInv ==
  /\ QueuesOK /\ LoopsOK /\ LinksOK /\ MembersOK /\ RequestsOK /\ OwnersOK
  /\ JoinsOK /\ NoLostJoin

-----------------------------------------------------------------------------
\* Sequences of packets and of events.

\* An empty queue.
LEMMA NothingQueued ==
  ASSUME NEW S
  PROVE  <<>> \in Seq(S) /\ ToSet(<<>>) = {}
BY EmptySeq DEF ToSet

\* Appending an element to a queue.
LEMMA Queued ==
  ASSUME NEW S, NEW s \in Seq(S), NEW e \in S
  PROVE  /\ Append(s, e) \in Seq(S) /\ ToSet(Append(s, e)) = ToSet(s) \cup {e}
         /\ EndsWith(Append(s, e), e)
BY AppendFacts, AppendProperties DEF EndsWith, Last

\* A queue of one element.
LEMMA QueuedAlone ==
  ASSUME NEW S, NEW e \in S
  PROVE  <<e>> \in Seq(S) /\ ToSet(<<e>>) = {e} /\ EndsWith(<<e>>, e)
BY DEF EndsWith, Last, ToSet

\* One queue after another.
LEMMA QueuedAll ==
  ASSUME NEW S, NEW s \in Seq(S), NEW t \in Seq(S)
  PROVE  s \o t \in Seq(S) /\ ToSet(s \o t) = ToSet(s) \cup ToSet(t)
<1>1. /\ s \o t \in Seq(S) /\ Len(s \o t) = Len(s) + Len(t)
      /\ \A i \in 1..Len(s) + Len(t) :
           (s \o t)[i] = IF i <= Len(s) THEN s[i] ELSE t[i - Len(s)]
  BY ConcatProperties
<1>2. Len(s) \in Nat /\ Len(t) \in Nat
  BY LenProperties
<1>3. \A x : x \in ToSet(s \o t) <=> \E i \in 1..Len(s) + Len(t) : (s \o t)[i] = x
  BY <1>1, ToSetMember
<1>4. ASSUME NEW x \in ToSet(s \o t) PROVE x \in ToSet(s) \cup ToSet(t)
  <2>1. PICK i \in 1..Len(s) + Len(t) : (s \o t)[i] = x
    BY <1>3
  <2>2. CASE i <= Len(s)
    BY <1>1, <1>2, <2>1, <2>2, ToSetMember
  <2>3. CASE i > Len(s)
    <3>1. i - Len(s) \in 1..Len(t) /\ t[i - Len(s)] = x
      BY <1>1, <1>2, <2>1, <2>3
    <3> QED BY <3>1, ToSetMember
  <2> QED BY <1>2, <2>2, <2>3
<1>5. ASSUME NEW x \in ToSet(s) PROVE x \in ToSet(s \o t)
  <2>1. PICK i \in 1..Len(s) : s[i] = x
    BY ToSetMember
  <2>2. i \in 1..Len(s) + Len(t) /\ (s \o t)[i] = x
    BY <1>1, <1>2, <2>1
  <2> QED BY <1>3, <2>2
<1>6. ASSUME NEW x \in ToSet(t) PROVE x \in ToSet(s \o t)
  <2>1. PICK i \in 1..Len(t) : t[i] = x
    BY ToSetMember
  <2>2. i + Len(s) \in 1..Len(s) + Len(t) /\ (s \o t)[i + Len(s)] = x
    BY <1>1, <1>2, <2>1
  <2> QED BY <1>3, <2>2
<1> QED BY <1>1, <1>4, <1>5, <1>6

\* Taking the head leaves a notice that is not the head where it is.
LEMMA Taken ==
  ASSUME NEW S, NEW s \in Seq(S), s # <<>>
  PROVE  /\ Head(s) \in S /\ Tail(s) \in Seq(S)
         /\ ToSet(s) = ToSet(Tail(s)) \cup {Head(s)}
         /\ \A e : EndsWith(s, e) /\ Tail(s) # <<>> => EndsWith(Tail(s), e)
         /\ \A e : EndsWith(s, e) /\ Head(s) # e => EndsWith(Tail(s), e)
<1>1. /\ Head(s) \in S /\ Tail(s) \in Seq(S) /\ ToSet(s) = ToSet(Tail(s)) \cup {Head(s)}
  BY TailFacts
<1>2. /\ Len(s) \in Nat \ {0} /\ Len(Tail(s)) = Len(s) - 1 /\ Head(s) = s[1]
      /\ \A i \in 1..Len(s) - 1 : Tail(s)[i] = s[i + 1]
  BY HeadTailProperties, EmptySeq, LenProperties
<1>3. Tail(s) = <<>> <=> Len(s) = 1
  BY <1>1, <1>2, EmptySeq
<1>4. Tail(s) # <<>> => Last(Tail(s)) = Last(s)
  BY <1>2, <1>3 DEF Last
<1>5. ASSUME NEW e, EndsWith(s, e), Head(s) # e PROVE Tail(s) # <<>>
  BY <1>2, <1>3, <1>5 DEF EndsWith, Last
<1> QED BY <1>1, <1>4, <1>5 DEF EndsWith

\* What arrives of a sequence of which the end is lost.
LEMMA Cut ==
  ASSUME NEW S, NEW s \in Seq(S), NEW n \in 0..Len(s)
  PROVE  SubSeq(s, 1, n) \in Seq(S) /\ ToSet(SubSeq(s, 1, n)) \subseteq ToSet(s)
<1>1. Len(s) \in Nat /\ n \in Nat /\ \A i \in 1..n : s[i] \in S
  BY LenProperties, ElementOfSeq
<1>2. /\ SubSeq(s, 1, n) \in Seq(S) /\ Len(SubSeq(s, 1, n)) = n
      /\ \A i \in 1..n : SubSeq(s, 1, n)[i] = s[i]
  BY <1>1, SubSeqProperties
<1>3. ASSUME NEW x \in ToSet(SubSeq(s, 1, n)) PROVE x \in ToSet(s)
  <2>1. PICK i \in 1..n : SubSeq(s, 1, n)[i] = x
    BY <1>2, ToSetMember
  <2> QED BY <1>1, <1>2, <2>1, ToSetMember
<1> QED BY <1>2, <1>3

\* What is left when a suffix of a queue is lost.
LEMMA CutPrefix ==
  ASSUME NEW S, NEW s \in Seq(S), NEW q \in Prefixes(s)
  PROVE  q \in Seq(S) /\ ToSet(q) \subseteq ToSet(s)
BY Cut DEF Prefixes

\* One element more, unless it is there already.
LEMMA OneMoreMember ==
  ASSUME NEW S, IsFiniteSet(S), NEW x
  PROVE  IsFiniteSet(S \cup {x}) /\ Cardinality(S \cup {x}) <= Cardinality(S) + 1
<1>1. /\ IsFiniteSet(S \cup {x})
      /\ Cardinality(S \cup {x}) = IF x \in S THEN Cardinality(S) ELSE Cardinality(S) + 1
  BY FS_AddElement
<1>2. Cardinality(S) \in Nat
  BY FS_CardinalityType
<1> QED
  BY <1>1, <1>2

-----------------------------------------------------------------------------
\* What the room receives and sends.

\* What is sent arrives at the end of the queues of the connected members.
LEMMA SendFacts ==
  ASSUME QueuesOK, NEW to, NEW e \in Events
  PROVE  /\ Send(to, e) \in [Clients -> Seq(Events)]
         /\ \A c \in Clients :
              IF peer[c] \in to /\ link[peer[c]] = "connected"
              THEN ToSet(Send(to, e)[c]) = ToSet(down[c]) \cup {e}
              ELSE Send(to, e)[c] = down[c]
<1>1. \A c \in Clients : down[c] \in Seq(Events)
  BY DEF QueuesOK
<1>2. \A c \in Clients : /\ Append(down[c], e) \in Seq(Events)
                         /\ ToSet(Append(down[c], e)) = ToSet(down[c]) \cup {e}
  BY <1>1, Queued
<1> QED
  BY <1>1, <1>2 DEF Send

\* The clients whose connection the room gives up, and no others, hear of it last.
LEMMA HangupFacts ==
  ASSUME NEW sent \in [Clients -> Seq(Events)], NEW gone
  PROVE  /\ Hangup(sent, gone) \in [Clients -> Seq(Events)]
         /\ \A c \in Clients :
              IF peer[c] \in gone /\ link[peer[c]] = "connected"
              THEN EndsWith(Hangup(sent, gone)[c], "DISCONNECT")
              ELSE Hangup(sent, gone)[c] = sent[c]
<1>1. "DISCONNECT" \in Events
  BY DEF Events
<1>2. \A c \in Clients : /\ Append(sent[c], "DISCONNECT") \in Seq(Events)
                         /\ EndsWith(Append(sent[c], "DISCONNECT"), "DISCONNECT")
  BY <1>1, Queued
<1> QED
  BY <1>2 DEF Hangup

\* A packet is one that the room knows.
LEMMA PacketTypes ==
  ASSUME NEW x \in Packets
  PROVE  \/ x.type = "JoinRequest" /\ x.arg \in Ids
         \/ x.type \in {"ModKick", "ModBan", "ModUnban"}
         \/ x = Disconnected /\ x.type = "DISCONNECT"
BY RoomAssumption DEF Packets, Packet, Disconnected

\* Taking a packet that is not the notice of the end.
LEMMA PacketTaken ==
  ASSUME IInv, NEW p \in Peers, up[p] # <<>>, Head(up[p]).type # "DISCONNECT",
         up' = [up EXCEPT ![p] = Tail(@)]
  PROVE  /\ up' \in [Peers -> Seq(Packets)]
         /\ \A q \in Peers : q # p => up'[q] = up[q]
         /\ ToSet(up[p]) = ToSet(up'[p]) \cup {Head(up[p])}
         /\ \A q \in Peers : EndsWith(up[q], Disconnected) => EndsWith(up'[q], Disconnected)
         /\ link[p] # "free"
<1>1. up[p] \in Seq(Packets)
  BY DEF IInv, QueuesOK
<1>2. Head(up[p]) # Disconnected
  BY DEF Disconnected, Packet
<1>3. /\ Tail(up[p]) \in Seq(Packets)
      /\ ToSet(up[p]) = ToSet(Tail(up[p])) \cup {Head(up[p])}
      /\ EndsWith(up[p], Disconnected) => EndsWith(Tail(up[p]), Disconnected)
  BY <1>1, <1>2, Taken
<1> QED
  BY <1>3 DEF IInv, QueuesOK, LinksOK

\* The answers, and what the room has found out when it accepts.
LEMMA AnswerFacts ==
  ASSUME NEW id
  PROVE  /\ Answer(id) \in Refusals \cup {"JoinSuccess"}
         /\ Answer(id) = "JoinSuccess" =>
              /\ ~(Cardinality(members) >= member_slots)
              /\ \A m \in members : /\ m.nickname # id.nickname
                                    /\ m.console_id_hash # id.console_id_hash
BY DEF Answer, Refusals

\* A request that is accepted came over a connection that no member has.
LEMMA NewPeer ==
  ASSUME IInv, NEW p \in Peers, NEW x \in Requests(ToSet(up[p])), Answer(x.arg) = "JoinSuccess"
  PROVE  \A m \in members : m.peer # p
<1>1. PICK c \in Clients : OwnedBy(c, p)
  BY DEF IInv, OwnersOK
<1>2. SUFFICES ASSUME NEW m \in members, m.peer = p PROVE FALSE
  OBVIOUS
<1>3. PICK id \in IdentitiesOf[c] : m = Member(id, p)
  BY <1>1, <1>2 DEF OwnedBy
<1>4. m.console_id_hash = id.console_id_hash
  BY <1>3 DEF Member
<1>5. x.arg \in IdentitiesOf[c]
  BY <1>1 DEF OwnedBy
<1>6. m.console_id_hash = x.arg.console_id_hash
  BY <1>4, <1>5, ConsoleAssumption
<1> QED
  BY <1>6, AnswerFacts

\* JoinRequest keeps the invariant.
LEMMA JoinRequestInv ==
  ASSUME IInv, NEW p \in Peers, up[p] # <<>>, Head(up[p]).type = "JoinRequest",
         HandleJoinRequest(p, Head(up[p]).arg)
  PROVE  IInv'
<1> USE DEF IInv, memberVars
<1>0. PICK x, new : x = Head(up[p]) /\ new = Member(x.arg, p)
  OBVIOUS
<1>1. UNCHANGED <<link, peer, state, send_list, loop, call>> /\ up' = [up EXCEPT ![p] = Tail(@)]
  BY DEF HandleJoinRequest
<1>2. /\ up' \in [Peers -> Seq(Packets)]
      /\ \A q \in Peers : q # p => up'[q] = up[q]
      /\ ToSet(up[p]) = ToSet(up'[p]) \cup {x}
      /\ \A q \in Peers : EndsWith(up[q], Disconnected) => EndsWith(up'[q], Disconnected)
      /\ link[p] # "free"
  BY <1>0, <1>1, PacketTaken
<1>3. LoopsOK' /\ RequestsOK'
  BY <1>1 DEF LoopsOK, RequestsOK
<1>4. LinksOK'
  BY <1>1, <1>2 DEF LinksOK, QueuesOK
<1>5. x \in Requests(ToSet(up[p]))
  BY <1>0, <1>2 DEF Requests
<1>6. \A q \in Peers : ToSet(up'[q]) \subseteq ToSet(up[q])
  BY <1>2
<1>7. CASE Answer(x.arg) = "JoinSuccess"
  <2>0. PICK e : e = IF HasModPermission(members \cup {new}, p) THEN "JoinSuccessAsMod"
                     ELSE "JoinSuccess"
    OBVIOUS
  <2>1. members' = members \cup {new} /\ down' = Send({p}, e)
    BY <1>0, <1>7, <2>0 DEF HandleJoinRequest
  <2>2. e \in Success /\ e \in Events
    BY <2>0 DEF Success, Events
  <2>3. \A m \in members : m.peer # p
    BY <1>5, <1>7, NewPeer
  <2>4. new.peer = p /\ new.nickname = x.arg.nickname /\ new.host = x.arg.host
        /\ new.console_id_hash = x.arg.console_id_hash
    BY <1>0 DEF Member
  <2>5. IF x.arg.host THEN e = "JoinSuccessAsMod" ELSE e = "JoinSuccess"
    BY <2>0, <2>3, <2>4 DEF HasModPermission
  <2>6. /\ down' \in [Clients -> Seq(Events)]
        /\ \A c \in Clients :
             IF peer[c] = p /\ link[p] = "connected"
             THEN ToSet(down'[c]) = ToSet(down[c]) \cup {e} ELSE down'[c] = down[c]
    <3>1. /\ Send({p}, e) \in [Clients -> Seq(Events)]
          /\ \A c \in Clients :
               IF peer[c] \in {p} /\ link[peer[c]] = "connected"
               THEN ToSet(Send({p}, e)[c]) = ToSet(down[c]) \cup {e}
               ELSE Send({p}, e)[c] = down[c]
      BY <2>2, SendFacts
    <3> QED
      BY <2>1, <3>1
  <2>7. MembersOK'
    <3>1. IsFiniteSet(members') /\ Cardinality(members') <= Cardinality(members) + 1
      BY <2>1, OneMoreMember DEF MembersOK
    <3>2. Cardinality(members) \in Nat /\ Cardinality(members') \in Nat
      BY <3>1, FS_CardinalityType DEF MembersOK
    <3>3. Cardinality(members') <= member_slots
      BY <3>1, <3>2, <1>7, AnswerFacts, RoomAssumption
    <3>4. \A m \in members : /\ m.nickname # new.nickname
                             /\ m.console_id_hash # new.console_id_hash /\ m.peer # new.peer
      BY <1>7, <2>3, <2>4, AnswerFacts
    <3>5. \A m \in members' : m.peer \in Peers /\ link'[m.peer] # "free"
      BY <1>1, <1>2, <2>1, <2>4 DEF MembersOK
    <3> QED
      BY <2>1, <3>1, <3>3, <3>4, <3>5 DEF MembersOK
  <2>8. OwnersOK'
    <3> SUFFICES ASSUME NEW q \in Peers PROVE \E c \in Clients : OwnedBy(c, q)'
      BY DEF OwnersOK
    <3>1. PICK c \in Clients : OwnedBy(c, q)
      BY DEF OwnersOK
    <3>2. q = p => x.arg \in IdentitiesOf[c]
      BY <3>1, <1>5 DEF OwnedBy
    <3>3. \A m \in members' : m.peer = q => \E id \in IdentitiesOf[c] : m = Member(id, q)
      BY <2>1, <2>4, <1>0, <3>1, <3>2 DEF OwnedBy
    <3> QED
      BY <1>1, <1>6, <3>1, <3>3 DEF OwnedBy, Requests
  <2>9. JoinsOK'
    <3> SUFFICES ASSUME NEW c \in Clients, peer[c] # NoPeer
                 PROVE  IF link[peer[c]] = "connected"
                        THEN /\ "DISCONNECT" \notin ToSet(down'[c])
                             /\ HasJoined(c)' => \E m \in members' : Agrees(c, m)'
                        ELSE HasJoined(c)' => EndsWith(down'[c], "DISCONNECT")
      BY <1>1 DEF JoinsOK
    <3>1. CASE peer[c] = p /\ link[p] = "connected"
      <4>1. ~HasJoined(c) /\ "DISCONNECT" \notin ToSet(down[c])
        BY <3>1, <2>3 DEF JoinsOK, Agrees
      <4>2. ToSet(down'[c]) = ToSet(down[c]) \cup {e}
        BY <2>6, <3>1
      <4>3. Agrees(c, new)'
        BY <4>1, <4>2, <3>1, <2>4, <2>5, <1>1 DEF HasJoined, Agrees, Success
      <4> QED
        BY <4>1, <4>2, <4>3, <2>1, <2>5, <3>1
    <3>2. CASE ~(peer[c] = p /\ link[p] = "connected")
      BY <3>2, <2>1, <2>6, <1>1 DEF JoinsOK, HasJoined, Agrees
    <3> QED
      BY <3>1, <3>2
  <2>10. NoLostJoin'
    <3> SUFFICES ASSUME NEW c \in Clients, state[c] = "Joining", link[peer[c]] = "connected",
                        call[c].type # "Join"
                 PROVE  \/ \E packet \in ToSet(send_list[c]) \cup ToSet(up'[peer[c]]) :
                              packet.type = "JoinRequest"
                        \/ ToSet(down'[c]) \ {"DISCONNECT"} # {}
      BY <1>1 DEF NoLostJoin
    <3>1. peer[c] \in Peers
      BY DEF LoopsOK
    <3>2. CASE peer[c] = p
      <4>1. ToSet(down'[c]) = ToSet(down[c]) \cup {e}
        BY <2>6, <3>2
      <4> QED
        BY <4>1, <2>2 DEF Success
    <3>3. CASE peer[c] # p
      BY <3>1, <3>3, <1>2, <2>6 DEF NoLostJoin
    <3> QED
      BY <3>2, <3>3
  <2>11. QueuesOK'
    BY <1>1, <1>2, <2>6 DEF QueuesOK, TypeOK
  <2> QED
    BY <1>3, <1>4, <2>7, <2>8, <2>9, <2>10, <2>11
<1>8. CASE Answer(x.arg) # "JoinSuccess"
  <2>0. PICK e : e = Answer(x.arg)
    OBVIOUS
  <2>1. UNCHANGED members /\ down' = Send({p}, e)
    BY <1>0, <1>8, <2>0 DEF HandleJoinRequest, Refused
  <2>2. e \in Refusals /\ e \in Events
    BY <1>8, <2>0, AnswerFacts DEF Events
  <2>3. /\ down' \in [Clients -> Seq(Events)]
        /\ \A c \in Clients :
             IF peer[c] = p /\ link[p] = "connected"
             THEN ToSet(down'[c]) = ToSet(down[c]) \cup {e} ELSE down'[c] = down[c]
    <3>1. /\ Send({p}, e) \in [Clients -> Seq(Events)]
          /\ \A c \in Clients :
               IF peer[c] \in {p} /\ link[peer[c]] = "connected"
               THEN ToSet(Send({p}, e)[c]) = ToSet(down[c]) \cup {e}
               ELSE Send({p}, e)[c] = down[c]
      BY <2>2, SendFacts
    <3> QED
      BY <2>1, <3>1
  <2>4. MembersOK'
    BY <1>1, <2>1 DEF MembersOK
  <2>5. OwnersOK'
    <3> SUFFICES ASSUME NEW q \in Peers PROVE \E c \in Clients : OwnedBy(c, q)'
      BY DEF OwnersOK
    <3> QED
      BY <1>1, <1>6, <2>1 DEF OwnersOK, OwnedBy, Requests
  <2>6. JoinsOK'
    <3> SUFFICES ASSUME NEW c \in Clients, peer[c] # NoPeer
                 PROVE  IF link[peer[c]] = "connected"
                        THEN /\ "DISCONNECT" \notin ToSet(down'[c])
                             /\ HasJoined(c)' => \E m \in members : Agrees(c, m)'
                        ELSE HasJoined(c)' => EndsWith(down'[c], "DISCONNECT")
      BY <1>1, <2>1 DEF JoinsOK
    <3>1. CASE peer[c] = p /\ link[p] = "connected"
      <4>1. ToSet(down'[c]) = ToSet(down[c]) \cup {e}
        BY <2>3, <3>1
      <4>2. HasJoined(c)' => HasJoined(c)
        BY <4>1, <2>2, <1>1 DEF HasJoined, Success, Refusals
      <4>3. \A m : Agrees(c, m) => Agrees(c, m)'
        BY <4>1, <2>2, <1>1 DEF Agrees, Refusals
      <4> QED
        BY <4>1, <4>2, <4>3, <3>1, <2>2 DEF JoinsOK, Refusals
    <3>2. CASE ~(peer[c] = p /\ link[p] = "connected")
      BY <3>2, <2>1, <2>3, <1>1 DEF JoinsOK, HasJoined, Agrees
    <3> QED
      BY <3>1, <3>2
  <2>7. NoLostJoin'
    <3> SUFFICES ASSUME NEW c \in Clients, state[c] = "Joining", link[peer[c]] = "connected",
                        call[c].type # "Join"
                 PROVE  \/ \E packet \in ToSet(send_list[c]) \cup ToSet(up'[peer[c]]) :
                              packet.type = "JoinRequest"
                        \/ ToSet(down'[c]) \ {"DISCONNECT"} # {}
      BY <1>1 DEF NoLostJoin
    <3>1. peer[c] \in Peers
      BY DEF LoopsOK
    <3>2. CASE peer[c] = p
      <4>1. ToSet(down'[c]) = ToSet(down[c]) \cup {e}
        BY <2>3, <3>2
      <4> QED
        BY <4>1, <2>2 DEF Refusals
    <3>3. CASE peer[c] # p
      BY <3>1, <3>3, <1>2, <2>3 DEF NoLostJoin
    <3> QED
      BY <3>2, <3>3
  <2>8. QueuesOK'
    BY <1>1, <1>2, <2>3 DEF QueuesOK, TypeOK
  <2> QED
    BY <1>3, <1>4, <2>4, <2>5, <2>6, <2>7, <2>8
<1> QED
  BY <1>7, <1>8

\* The room, or the network, gives up some connections: the members that go are
\* on them, and their clients are told.
LEMMA GivenUp ==
  ASSUME IInv, NEW gone \in SUBSET Peers,
         UNCHANGED <<peer, state, send_list, loop, call>>,
         members' \subseteq members, \A m \in members \ members' : m.peer \in gone,
         link' \in [Peers -> {"free", "connected", "disconnecting"}],
         \A p \in Peers : IF p \in gone THEN link'[p] # "connected" ELSE link'[p] = link[p],
         \A m \in members' : link'[m.peer] # "free",
         up' \in [Peers -> Seq(Packets)], LinksOK',
         \A p \in Peers : Requests(ToSet(up'[p])) \subseteq Requests(ToSet(up[p])),
         \A p \in Peers \ gone : Requests(ToSet(up'[p])) = Requests(ToSet(up[p])),
         down' \in [Clients -> Seq(Events)],
         \A c \in Clients : IF peer[c] \in gone /\ link[peer[c]] = "connected"
                            THEN EndsWith(down'[c], "DISCONNECT") ELSE down'[c] = down[c]
  PROVE  IInv'
<1> USE DEF IInv
<1>1. QueuesOK' /\ LoopsOK' /\ RequestsOK'
  BY DEF QueuesOK, TypeOK, LoopsOK, RequestsOK
<1>2. MembersOK'
  <2>1. IsFiniteSet(members') /\ Cardinality(members') <= Cardinality(members)
    BY FS_Subset DEF MembersOK
  <2>2. Cardinality(members') \in Nat /\ Cardinality(members) \in Nat
    BY <2>1, FS_CardinalityType DEF MembersOK
  <2>3. Cardinality(members') <= member_slots
    BY <2>1, <2>2, RoomAssumption DEF MembersOK
  <2> QED
    BY <2>1, <2>3 DEF MembersOK
<1>3. OwnersOK'
  <2> SUFFICES ASSUME NEW p \in Peers PROVE \E c \in Clients : OwnedBy(c, p)'
    BY DEF OwnersOK
  <2>1. PICK c \in Clients : OwnedBy(c, p)
    BY DEF OwnersOK
  <2> QED
    BY <2>1 DEF OwnedBy
<1>4. JoinsOK'
  <2> SUFFICES ASSUME NEW c \in Clients, peer[c] # NoPeer
               PROVE  IF link'[peer[c]] = "connected"
                      THEN /\ "DISCONNECT" \notin ToSet(down'[c])
                           /\ HasJoined(c)' => \E m \in members' : Agrees(c, m)'
                      ELSE HasJoined(c)' => EndsWith(down'[c], "DISCONNECT")
    BY DEF JoinsOK
  <2>1. peer[c] \in Peers
    BY DEF QueuesOK, TypeOK
  <2>2. CASE peer[c] \in gone
    <3>1. link'[peer[c]] # "connected"
      BY <2>2
    <3>2. link[peer[c]] # "connected" => (HasJoined(c)' <=> HasJoined(c)) /\ down'[c] = down[c]
      BY DEF HasJoined
    <3> QED
      BY <2>2, <3>1, <3>2 DEF JoinsOK
  <2>3. CASE peer[c] \notin gone
    <3>1. link'[peer[c]] = link[peer[c]] /\ down'[c] = down[c]
      BY <2>1, <2>3
    <3>2. (HasJoined(c)' <=> HasJoined(c)) /\ \A m : Agrees(c, m)' <=> Agrees(c, m)
      BY <3>1 DEF HasJoined, Agrees
    <3>3. \A m \in members : m.peer = peer[c] => m \in members'
      BY <2>3
    <3> QED
      BY <3>1, <3>2, <3>3 DEF JoinsOK, Agrees
  <2> QED
    BY <2>2, <2>3
<1>5. NoLostJoin'
  <2> SUFFICES ASSUME NEW c \in Clients, state[c] = "Joining", link'[peer[c]] = "connected",
                      call[c].type # "Join"
               PROVE  \/ \E packet \in ToSet(send_list[c]) \cup ToSet(up'[peer[c]]) :
                            packet.type = "JoinRequest"
                      \/ ToSet(down'[c]) \ {"DISCONNECT"} # {}
    BY DEF NoLostJoin
  <2>1. peer[c] \in Peers \ gone /\ link[peer[c]] = "connected" /\ down'[c] = down[c]
    BY DEF LoopsOK
  <2>2. \A x \in ToSet(up[peer[c]]) : x.type = "JoinRequest" => x \in ToSet(up'[peer[c]])
    BY <2>1 DEF Requests
  <2> QED
    BY <2>1, <2>2 DEF NoLostJoin
<1> QED
  BY <1>1, <1>2, <1>3, <1>4, <1>5

\* A packet has no effect beyond the list of bans.
LEMMA NoEffectInv ==
  ASSUME IInv, NEW p \in Peers, up[p] # <<>>,
         Head(up[p]).type \in {"ModKick", "ModBan", "ModUnban"},
         up' = [up EXCEPT ![p] = Tail(@)], UNCHANGED <<members, link, down, memberVars>>
  PROVE  IInv'
<1> USE DEF memberVars
<1>1. /\ up' \in [Peers -> Seq(Packets)]
      /\ \A q \in Peers : q # p => up'[q] = up[q]
      /\ ToSet(up[p]) = ToSet(up'[p]) \cup {Head(up[p])}
      /\ \A q \in Peers : EndsWith(up[q], Disconnected) => EndsWith(up'[q], Disconnected)
      /\ link[p] # "free"
  BY PacketTaken
<1>2. \A q \in Peers : Requests(ToSet(up'[q])) = Requests(ToSet(up[q]))
  BY <1>1 DEF Requests
<1>3. LinksOK'
  BY <1>1 DEF IInv, LinksOK
<1>4. \A m \in members : link[m.peer] # "free"
  BY DEF IInv, MembersOK
<1>5. link \in [Peers -> {"free", "connected", "disconnecting"}] /\ down \in [Clients -> Seq(Events)]
  BY DEF IInv, QueuesOK, TypeOK
<1>6. PICK gone \in SUBSET Peers : gone = {}
  OBVIOUS
<1> QED
  BY <1>1, <1>2, <1>3, <1>4, <1>5, <1>6, GivenUp

\* ModPacket keeps the invariant.
LEMMA ModPacketInv ==
  ASSUME IInv, NEW p \in Peers, up[p] # <<>>, Head(up[p]).type \in {"ModKick", "ModBan"},
         NEW ban \in BOOLEAN, HandleModPacket(p, Head(up[p]).arg, ban)
  PROVE  IInv'
<1> DEFINE nickname == Head(up[p]).arg
           targets == {m \in members : m.nickname = nickname}
<1>1. CASE ~HasModPermission(members, p) \/ targets = {}
  <2>1. up' = [up EXCEPT ![p] = Tail(@)] /\ UNCHANGED <<members, link, down, memberVars>>
    BY <1>1 DEF HandleModPacket, roomVars
  <2> QED
    BY <2>1, NoEffectInv
<1>2. CASE HasModPermission(members, p) /\ targets # {}
  <2>1. PICK target : target = CHOOSE m \in targets : TRUE
    OBVIOUS
  <2>2. target \in members /\ target.peer \in Peers /\ link[target.peer] # "free"
    <3>1. target \in targets
      BY <1>2, <2>1
    <3> QED
      BY <3>1 DEF IInv, MembersOK
  <2>3. PICK e : e = IF ban THEN "HostBanned" ELSE "HostKicked"
    OBVIOUS
  <2>4. /\ members' = members \ {target}
        /\ link' = [link EXCEPT ![target.peer] = "disconnecting"]
        /\ down' = Hangup(Send({target.peer}, e), {target.peer})
        /\ up' = [q \in Peers |-> IF q = target.peer /\ link[q] = "connected"
                                  THEN <<Disconnected>>
                                  ELSE IF q = p THEN Tail(up[q]) ELSE up[q]]
        /\ UNCHANGED memberVars
    BY <1>2, <2>1, <2>3 DEF HandleModPacket
  <2>5. e \in Events /\ Disconnected \in Packets
    BY <2>3 DEF Events, Refusals, Packets
  <2>0. PICK taken : taken = [up EXCEPT ![p] = Tail(@)]
    OBVIOUS
  <2>6. /\ taken \in [Peers -> Seq(Packets)]
        /\ \A q \in Peers : Requests(ToSet(taken[q])) = Requests(ToSet(up[q]))
        /\ \A q \in Peers : EndsWith(up[q], Disconnected) => EndsWith(taken[q], Disconnected)
    <3>1. /\ up[p] \in Seq(Packets) /\ Head(up[p]) # Disconnected
          /\ up \in [Peers -> Seq(Packets)]
      BY DEF IInv, QueuesOK, Disconnected, Packet
    <3>2. /\ Tail(up[p]) \in Seq(Packets)
          /\ ToSet(up[p]) = ToSet(Tail(up[p])) \cup {Head(up[p])}
          /\ EndsWith(up[p], Disconnected) => EndsWith(Tail(up[p]), Disconnected)
      BY <3>1, Taken
    <3>3. \A q \in Peers : taken[q] = IF q = p THEN Tail(up[p]) ELSE up[q]
      BY <2>0, <3>1
    <3>4. taken \in [Peers -> Seq(Packets)]
      BY <2>0, <3>1, <3>2
    <3>5. Requests(ToSet(Tail(up[p]))) = Requests(ToSet(up[p]))
      BY <3>2 DEF Requests
    <3> QED
      BY <3>2, <3>3, <3>4, <3>5
  <2>7. \A q \in Peers : up'[q] = IF q = target.peer /\ link[q] = "connected"
                                  THEN <<Disconnected>> ELSE taken[q]
    BY <2>0, <2>4 DEF IInv, QueuesOK
  <2>8. /\ <<Disconnected>> \in Seq(Packets) /\ Requests(ToSet(<<Disconnected>>)) = {}
        /\ EndsWith(<<Disconnected>>, Disconnected)
    BY <2>5, QueuedAlone DEF Requests, Disconnected, Packet
  <2>9. /\ up' \in [Peers -> Seq(Packets)]
        /\ \A q \in Peers : Requests(ToSet(up'[q])) \subseteq Requests(ToSet(up[q]))
        /\ \A q \in Peers \ {target.peer} : Requests(ToSet(up'[q])) = Requests(ToSet(up[q]))
    BY <2>4, <2>6, <2>7, <2>8
  <2>10. link' \in [Peers -> {"free", "connected", "disconnecting"}]
    BY <2>4 DEF IInv, QueuesOK, TypeOK
  <2>11. \A q \in Peers : link'[q] = IF q = target.peer THEN "disconnecting" ELSE link[q]
    BY <2>4 DEF IInv, QueuesOK, TypeOK
  <2>12. LinksOK'
    <3> SUFFICES ASSUME NEW q \in Peers
                 PROVE  /\ link'[q] = "free" => up'[q] = <<>>
                        /\ link'[q] = "disconnecting" => EndsWith(up'[q], Disconnected)
      BY DEF LinksOK
    <3>1. link[q] = "free" => up[q] = <<>> /\ q # p
      BY DEF IInv, LinksOK
    <3>2. link[q] = "disconnecting" => EndsWith(taken[q], Disconnected)
      BY <2>6 DEF IInv, LinksOK
    <3>3. link[target.peer] \in {"connected", "disconnecting"}
      BY <2>2 DEF IInv, QueuesOK, TypeOK
    <3>4. q # p => taken[q] = up[q]
      BY <2>0 DEF IInv, QueuesOK
    <3> QED
      BY <2>7, <2>8, <2>11, <3>1, <3>2, <3>3, <3>4
  <2>13. /\ Send({target.peer}, e) \in [Clients -> Seq(Events)]
         /\ \A c \in Clients : ~(peer[c] = target.peer /\ link[peer[c]] = "connected") =>
               Send({target.peer}, e)[c] = down[c]
    BY <2>5, SendFacts DEF IInv
  <2>14. /\ down' \in [Clients -> Seq(Events)]
         /\ \A c \in Clients : IF peer[c] \in {target.peer} /\ link[peer[c]] = "connected"
                                THEN EndsWith(down'[c], "DISCONNECT") ELSE down'[c] = down[c]
    <3>1. PICK sent \in [Clients -> Seq(Events)] : sent = Send({target.peer}, e)
      BY <2>13
    <3>2. /\ Hangup(sent, {target.peer}) \in [Clients -> Seq(Events)]
          /\ \A c \in Clients :
               IF peer[c] \in {target.peer} /\ link[peer[c]] = "connected"
               THEN EndsWith(Hangup(sent, {target.peer})[c], "DISCONNECT")
               ELSE Hangup(sent, {target.peer})[c] = sent[c]
      BY HangupFacts
    <3> QED
      BY <2>4, <2>13, <3>1, <3>2
  <2>15. /\ \A m \in members \ members' : m.peer \in {target.peer}
         /\ \A m \in members' : link'[m.peer] # "free"
    BY <2>4, <2>11 DEF IInv, MembersOK
  <2>16. {target.peer} \in SUBSET Peers /\ members' \subseteq members
         /\ UNCHANGED <<peer, state, send_list, loop, call>>
    BY <2>2, <2>4 DEF memberVars
  <2>17. \A q \in Peers : IF q \in {target.peer} THEN link'[q] # "connected"
                           ELSE link'[q] = link[q]
    BY <2>11
  <2> QED
    BY <2>9, <2>10, <2>12, <2>14, <2>15, <2>16, <2>17, GivenUp
<1> QED
  BY <1>1, <1>2

\* ClientDisconnection keeps the invariant.
LEMMA ClientDisconnectionInv ==
  ASSUME IInv, NEW p \in Peers, HandleClientDisconnection(p)
  PROVE  IInv'
<1> USE DEF HandleClientDisconnection
<1>1. \A q \in Peers : /\ link'[q] = IF q = p THEN "free" ELSE link[q]
                       /\ up'[q] = IF q = p THEN <<>> ELSE up[q]
  BY DEF IInv, QueuesOK, TypeOK
<1>2. link' \in [Peers -> {"free", "connected", "disconnecting"}]
  BY DEF IInv, QueuesOK, TypeOK
<1>3. up' \in [Peers -> Seq(Packets)]
  BY NothingQueued DEF IInv, QueuesOK
<1>4. ToSet(<<>>) = {}
  BY NothingQueued
<1>5. /\ \A q \in Peers : Requests(ToSet(up'[q])) \subseteq Requests(ToSet(up[q]))
      /\ \A q \in Peers \ {p} : Requests(ToSet(up'[q])) = Requests(ToSet(up[q]))
  BY <1>1, <1>4 DEF Requests
<1>6. LinksOK'
  BY <1>1 DEF LinksOK, IInv
<1>7. /\ down' \in [Clients -> Seq(Events)]
      /\ \A c \in Clients : IF peer[c] \in {p} /\ link[peer[c]] = "connected"
                             THEN EndsWith(down'[c], "DISCONNECT") ELSE down'[c] = down[c]
  BY HangupFacts DEF IInv, QueuesOK
<1>8. members' = members \ MemberOf(p)
  <2>1. \A m, n \in MemberOf(p) : m = n
    BY DEF IInv, MembersOK, MemberOf
  <2>2. CASE MemberOf(p) = {} /\ members' = members
    BY <2>2
  <2>3. ASSUME NEW m \in MemberOf(p), members' = members \ {m}
        PROVE  members' = members \ MemberOf(p)
    <3>1. MemberOf(p) = {m}
      BY <2>1
    <3> QED
      BY <2>3, <3>1
  <2> QED
    BY <2>2, <2>3
<1>9. /\ members' \subseteq members /\ \A m \in members \ members' : m.peer \in {p}
      /\ \A m \in members' : link'[m.peer] # "free"
  BY <1>1, <1>8 DEF IInv, MembersOK, MemberOf
<1>10. {p} \in SUBSET Peers /\ UNCHANGED <<peer, state, send_list, loop, call>>
       /\ \A q \in Peers : IF q \in {p} THEN link'[q] # "connected" ELSE link'[q] = link[q]
  BY <1>1 DEF memberVars
<1> QED
  BY <1>2, <1>3, <1>5, <1>6, <1>7, <1>9, <1>10, GivenUp

\* ServerLoop keeps the invariant.
LEMMA ServerLoopInv == ASSUME IInv, NEW p \in Peers, ServerLoop(p) PROVE IInv'
<1>1. up[p] # <<>> /\ up[p] \in Seq(Packets)
  BY DEF ServerLoop, IInv, QueuesOK
<1>2. PICK x : x = Head(up[p])
  OBVIOUS
<1>3. x \in Packets
  BY <1>1, <1>2, Taken
<1>4. CASE x.type = "JoinRequest"
  BY <1>1, <1>2, <1>4, JoinRequestInv DEF ServerLoop
<1>5. CASE x.type = "ModKick"
  <2>1. HandleModPacket(p, Head(up[p]).arg, FALSE)
    BY <1>2, <1>5 DEF ServerLoop
  <2> QED
    BY <1>1, <1>2, <1>5, <2>1, ModPacketInv
<1>6. CASE x.type = "ModBan"
  <2>1. HandleModPacket(p, Head(up[p]).arg, TRUE)
    BY <1>2, <1>6 DEF ServerLoop
  <2> QED
    BY <1>1, <1>2, <1>6, <2>1, ModPacketInv
<1>7. CASE x.type = "ModUnban"
  <2>1. HandleModUnban(p, Head(up[p]).arg)
    BY <1>2, <1>7 DEF ServerLoop
  <2> QED
    BY <1>1, <1>2, <1>7, <2>1, NoEffectInv DEF HandleModUnban
<1>8. CASE x.type = "DISCONNECT"
  BY <1>2, <1>8, ClientDisconnectionInv DEF ServerLoop
<1> QED
  BY <1>3, <1>4, <1>5, <1>6, <1>7, <1>8, PacketTypes

\* Destroy keeps the invariant.
LEMMA DestroyInv == ASSUME IInv, Destroy PROVE IInv'
<1> USE DEF Destroy
<1>1. PICK to : to = {m.peer : m \in members}
  OBVIOUS
<1>2. "CloseRoom" \in Events
  BY DEF Events
<1>3. /\ Send(to, "CloseRoom") \in [Clients -> Seq(Events)]
      /\ \A c \in Clients : link[peer[c]] # "connected" => Send(to, "CloseRoom")[c] = down[c]
  BY <1>2, SendFacts DEF IInv
<1>4. down' = Hangup(Send(to, "CloseRoom"), Peers)
  BY <1>1
<1>5. /\ Hangup(Send(to, "CloseRoom"), Peers) \in [Clients -> Seq(Events)]
      /\ \A c \in Clients :
           IF peer[c] \in Peers /\ link[peer[c]] = "connected"
           THEN EndsWith(Hangup(Send(to, "CloseRoom"), Peers)[c], "DISCONNECT")
           ELSE Hangup(Send(to, "CloseRoom"), Peers)[c] = Send(to, "CloseRoom")[c]
  BY <1>3, HangupFacts
<1>6. \A c \in Clients : peer[c] \notin Peers => Send(to, "CloseRoom")[c] = down[c]
  <2>1. \A m \in members : m.peer \in Peers
    BY DEF IInv, MembersOK
  <2>2. \A c \in Clients : peer[c] \notin Peers => peer[c] \notin to
    BY <1>1, <2>1
  <2> QED
    BY <2>2, <1>2, SendFacts DEF IInv
<1>7. /\ down' \in [Clients -> Seq(Events)]
      /\ \A c \in Clients : IF peer[c] \in Peers /\ link[peer[c]] = "connected"
                             THEN EndsWith(down'[c], "DISCONNECT") ELSE down'[c] = down[c]
  BY <1>3, <1>4, <1>5, <1>6
<1>8. up' \in [Peers -> Seq(Packets)] /\ \A q \in Peers : Requests(ToSet(up'[q])) = {}
  BY NothingQueued DEF Requests
<1>9. LinksOK' /\ link' \in [Peers -> {"free", "connected", "disconnecting"}]
  BY DEF LinksOK
<1>10. \A m \in members : m.peer \in Peers
  BY DEF IInv, MembersOK
<1>11. \A q \in Peers : IF q \in Peers THEN link'[q] # "connected" ELSE link'[q] = link[q]
  OBVIOUS
<1> QED
  BY <1>7, <1>8, <1>9, <1>10, <1>11, GivenUp DEF memberVars

-----------------------------------------------------------------------------
\* The network.

\* LoseConnection keeps the invariant.
LEMMA LoseConnectionInv == ASSUME IInv, NEW c \in Clients, LoseConnection(c) PROVE IInv'
<1>1. PICK p \in Peers : p = peer[c] /\ link[p] = "connected"
  BY DEF LoseConnection, IInv, QueuesOK, TypeOK
<1>2. Disconnected \in Packets /\ "DISCONNECT" \in Events
  BY DEF Packets, Events
<1>3. up[p] \in Seq(Packets) /\ down[c] \in Seq(Events)
  BY DEF IInv, QueuesOK
<1>4. PICK q \in Prefixes(up[p]) : up' = [up EXCEPT ![p] = Append(q, Disconnected)]
  BY <1>1 DEF LoseConnection
<1>5. PICK r \in Prefixes(down[c]) : down' = [down EXCEPT ![c] = Append(r, "DISCONNECT")]
  BY DEF LoseConnection
<1>6. /\ Append(q, Disconnected) \in Seq(Packets)
      /\ Requests(ToSet(Append(q, Disconnected))) \subseteq Requests(ToSet(up[p]))
      /\ EndsWith(Append(q, Disconnected), Disconnected)
  <2>1. q \in Seq(Packets) /\ ToSet(q) \subseteq ToSet(up[p])
    BY <1>3, CutPrefix
  <2>2. Disconnected.type = "DISCONNECT"
    BY DEF Disconnected, Packet
  <2> QED
    BY <1>2, <2>1, <2>2, Queued DEF Requests
<1>7. /\ Append(r, "DISCONNECT") \in Seq(Events)
      /\ EndsWith(Append(r, "DISCONNECT"), "DISCONNECT")
  <2>1. r \in Seq(Events)
    BY <1>3, CutPrefix
  <2> QED
    BY <1>2, <2>1, Queued
<1>8. /\ up' \in [Peers -> Seq(Packets)] /\ down' \in [Clients -> Seq(Events)]
      /\ link' \in [Peers -> {"free", "connected", "disconnecting"}]
  BY <1>1, <1>4, <1>5, <1>6, <1>7 DEF LoseConnection, IInv, QueuesOK, TypeOK
<1>9. \A n \in Peers : /\ up'[n] = IF n = p THEN Append(q, Disconnected) ELSE up[n]
                       /\ link'[n] = IF n = p THEN "disconnecting" ELSE link[n]
  BY <1>1, <1>4 DEF LoseConnection, IInv, QueuesOK, TypeOK
<1>10. \A d \in Clients : peer[d] = p => d = c
  BY <1>1 DEF IInv, OwnersOK, OwnedBy
<1>11. \A d \in Clients : IF peer[d] \in {p} /\ link[peer[d]] = "connected"
                          THEN EndsWith(down'[d], "DISCONNECT") ELSE down'[d] = down[d]
  BY <1>1, <1>5, <1>7, <1>10 DEF IInv, QueuesOK
<1>12. LinksOK'
  BY <1>6, <1>9 DEF IInv, LinksOK
<1>13. /\ {p} \in SUBSET Peers /\ UNCHANGED <<peer, state, send_list, loop, call, members>>
       /\ \A m \in members : link'[m.peer] # "free"
       /\ \A n \in Peers : IF n \in {p} THEN link'[n] # "connected" ELSE link'[n] = link[n]
  BY <1>9 DEF LoseConnection, memberVars, roomVars, IInv, MembersOK
<1>14. /\ \A n \in Peers : Requests(ToSet(up'[n])) \subseteq Requests(ToSet(up[n]))
       /\ \A n \in Peers \ {p} : Requests(ToSet(up'[n])) = Requests(ToSet(up[n]))
  BY <1>6, <1>9
<1> QED
  BY <1>8, <1>11, <1>12, <1>13, <1>14, GivenUp

\* LosePacket keeps the invariant.
LEMMA LosePacketInv == ASSUME IInv, NEW c \in Clients, LosePacket(c) PROVE IInv'
<1> USE DEF IInv, LosePacket, roomVars, memberVars
<1>1. PICK s \in Seq(Events) : s = down[c] /\ Len(s) >= 2 /\ Last(s) = "DISCONNECT"
  BY DEF QueuesOK
<1>2. PICK n : n = Len(s) - 2
  OBVIOUS
<1>3. n \in 0..Len(s) /\ Len(s) \in 1..Len(s) /\ s[Len(s)] = "DISCONNECT"
  BY <1>1, <1>2, LenProperties DEF Last
<1>4. PICK r : r = Append(SubSeq(s, 1, n), "DISCONNECT")
  OBVIOUS
<1>5. "DISCONNECT" \in ToSet(s)
  BY <1>3, ToSetMember
<1>6. r \in Seq(Events) /\ ToSet(r) \subseteq ToSet(s) /\ EndsWith(r, "DISCONNECT")
  <2>1. PICK q : q = SubSeq(s, 1, n)
    OBVIOUS
  <2>2. q \in Seq(Events) /\ ToSet(q) \subseteq ToSet(s)
    BY <1>3, <2>1, Cut
  <2>3. "DISCONNECT" \in Events
    BY DEF Events
  <2>4. /\ Append(q, "DISCONNECT") \in Seq(Events)
        /\ ToSet(Append(q, "DISCONNECT")) = ToSet(q) \cup {"DISCONNECT"}
        /\ EndsWith(Append(q, "DISCONNECT"), "DISCONNECT")
    BY <2>2, <2>3, Queued
  <2>5. r = Append(q, "DISCONNECT")
    BY <1>4, <2>1
  <2> QED
    BY <1>5, <2>2, <2>4, <2>5
<1>7. \A d \in Clients : down'[d] = IF d = c THEN r ELSE down[d]
  BY <1>1, <1>2, <1>4 DEF QueuesOK
<1>8. down' \in [Clients -> Seq(Events)]
  BY <1>1, <1>2, <1>4, <1>6 DEF QueuesOK
<1>9. QueuesOK' /\ LoopsOK' /\ LinksOK' /\ RequestsOK'
  BY <1>8 DEF QueuesOK, TypeOK, LoopsOK, LinksOK, RequestsOK
<1>10. MembersOK' /\ OwnersOK'
  BY DEF MembersOK, OwnersOK, OwnedBy
<1>11. peer[c] # NoPeer => link[peer[c]] # "connected"
  BY <1>1, <1>5 DEF JoinsOK
<1>12. JoinsOK'
  BY <1>1, <1>6, <1>7, <1>11 DEF JoinsOK, HasJoined, Agrees
<1>13. NoLostJoin'
  <2>1. state[c] = "Joining" => link[peer[c]] # "connected"
    BY <1>11, RoomAssumption DEF LoopsOK
  <2> QED
    BY <1>7, <2>1 DEF NoLostJoin
<1> QED
  BY <1>9, <1>10, <1>12, <1>13

-----------------------------------------------------------------------------
\* The members' frontends.

\* While the room has a peer to spare there is a name for it: the peers in use
\* and the connections of other clients are fewer than the names.
LEMMA FreeName ==
  ASSUME IInv, NEW c \in Clients, peer[c] = NoPeer,
         Cardinality({p \in Peers : link[p] # "free"}) <= member_slots
  PROVE  \E q \in Peers : link[q] = "free" /\ \A d \in Clients : peer[d] # q
<1> SUFFICES ASSUME \A q \in Peers : link[q] = "free" => \E d \in Clients : peer[d] = q
             PROVE  FALSE
  OBVIOUS
<1>1. PICK A : A = {p \in Peers : link[p] # "free"}
  OBVIOUS
<1>2. PICK D : D = Clients \ {c}
  OBVIOUS
<1>3. PICK f : f = [d \in D |-> peer[d]]
  OBVIOUS
<1>4. PICK B : B = {f[d] : d \in D}
  OBVIOUS
<1>5. IsFiniteSet(A) /\ Cardinality(A) \in Nat /\ Cardinality(A) <= member_slots
  BY <1>1, FS_Subset, FS_CardinalityType, PeersAssumption
<1>6. IsFiniteSet(D) /\ Cardinality(D) = Cardinality(Clients) - 1
  BY <1>2, FS_RemoveElement, PeersAssumption
<1>7. f \in Surjection(D, B)
  BY <1>3, <1>4 DEF Surjection
<1>8. IsFiniteSet(B) /\ Cardinality(B) <= Cardinality(D)
  BY <1>6, <1>7, FS_Surjection
<1>9. Cardinality(B) \in Nat /\ Cardinality(D) \in Nat /\ Cardinality(Clients) \in Nat
  BY <1>6, <1>8, FS_CardinalityType, PeersAssumption
<1>10. /\ IsFiniteSet(A \cup B) /\ Cardinality(A \cap B) \in Nat
       /\ Cardinality(A \cup B) = Cardinality(A) + Cardinality(B) - Cardinality(A \cap B)
  <2>1. IsFiniteSet(A \cap B)
    BY <1>5, FS_Subset
  <2> QED
    BY <1>5, <1>8, <2>1, FS_Union, FS_CardinalityType
<1>11. Peers \subseteq A \cup B
  <2> SUFFICES ASSUME NEW q \in Peers, link[q] = "free" PROVE q \in B
    BY <1>1
  <2>1. PICK d \in Clients : peer[d] = q
    OBVIOUS
  <2>2. d \in D
    BY <1>2, <2>1, RoomAssumption
  <2> QED
    BY <1>3, <1>4, <2>1, <2>2
<1>12. Cardinality(Peers) <= Cardinality(A \cup B)
  BY <1>10, <1>11, FS_Subset
<1>13. Cardinality(Peers) \in Nat /\ Cardinality(A \cup B) \in Nat
  BY <1>10, PeersAssumption, FS_CardinalityType
<1> QED
  BY <1>5, <1>6, <1>8, <1>9, <1>10, <1>12, <1>13, PeersAssumption, RoomAssumption

\* Join keeps the invariant.
LEMMA JoinInv ==
  ASSUME IInv, NEW c \in Clients, NEW id \in IdentitiesOf[c], Join(c, id) PROVE IInv'
<1> USE DEF IInv, Join, roomVars
<1>1. peer[c] = NoPeer
  BY DEF LoopsOK
<1>2. PICK p : p = CHOOSE q \in Peers : link[q] = "free" /\ \A d \in Clients : peer[d] # q
  OBVIOUS
<1>3. p \in Peers /\ link[p] = "free" /\ \A d \in Clients : peer[d] # p
  <2>1. \E q \in Peers : link[q] = "free" /\ \A d \in Clients : peer[d] # q
    BY <1>1, FreeName
  <2> QED
    BY <1>2, <2>1
<1>4. /\ peer' = [peer EXCEPT ![c] = p] /\ link' = [link EXCEPT ![p] = "connected"]
      /\ id \in Ids
  BY <1>2 DEF Ids
<1>5. ToSet(<<>>) = {} /\ <<>> \in Seq(Events)
  BY NothingQueued
<1>6. /\ peer' \in [Clients -> Peers \cup {NoPeer}] /\ down' \in [Clients -> Seq(Events)]
      /\ link' \in [Peers -> {"free", "connected", "disconnecting"}]
      /\ state' \in [Clients -> {"Idle", "Joining", "Joined", "Moderator"}]
      /\ loop' \in [Clients -> {"none", "turn", "late", "ended"}]
  BY <1>3, <1>4, <1>5 DEF QueuesOK, TypeOK
<1>7. \A d \in Clients : /\ peer'[d] = IF d = c THEN p ELSE peer[d]
                         /\ down'[d] = IF d = c THEN <<>> ELSE down[d]
                         /\ state'[d] = IF d = c THEN "Joining" ELSE state[d]
                         /\ loop'[d] = IF d = c THEN "turn" ELSE loop[d]
                         /\ call'[d] = IF d = c THEN Packet("Join", id) ELSE call[d]
  BY <1>4 DEF QueuesOK, TypeOK
<1>8. \A q \in Peers : link'[q] = IF q = p THEN "connected" ELSE link[q]
  BY <1>4 DEF QueuesOK, TypeOK
<1>9. QueuesOK'
  <2>1. call' \in [Clients -> {NoCall, Packet("Leave", NoPeer)} \cup {Packet("Join", i) : i \in Ids}]
    BY <1>4 DEF QueuesOK
  <2> QED
    BY <1>6, <2>1 DEF QueuesOK, TypeOK
<1>10. LoopsOK' /\ LinksOK'
  BY <1>3, <1>7, <1>8 DEF LoopsOK, LinksOK
<1>11. MembersOK'
  BY <1>8 DEF MembersOK
<1>12. RequestsOK'
  BY <1>7 DEF RequestsOK, Packet
<1>13. OwnersOK'
  <2> SUFFICES ASSUME NEW q \in Peers PROVE \E d \in Clients : OwnedBy(d, q)'
    BY DEF OwnersOK
  <2>1. CASE q = p
    <3>1. up[p] = <<>> /\ \A m \in members : m.peer # p
      BY <1>3 DEF LinksOK, MembersOK
    <3>2. OwnedBy(c, q)'
      BY <2>1, <3>1, <1>3, <1>5, <1>7 DEF OwnedBy, Requests
    <3> QED
      BY <3>2
  <2>2. CASE q # p
    BY <2>2, <1>1, <1>7, RoomAssumption DEF OwnersOK, OwnedBy
  <2> QED
    BY <2>1, <2>2
<1>14. JoinsOK'
  <2> SUFFICES ASSUME NEW d \in Clients, peer'[d] # NoPeer
               PROVE  IF link'[peer'[d]] = "connected"
                      THEN /\ "DISCONNECT" \notin ToSet(down'[d])
                           /\ HasJoined(d)' => \E m \in members' : Agrees(d, m)'
                      ELSE HasJoined(d)' => EndsWith(down'[d], "DISCONNECT")
    BY DEF JoinsOK
  <2>1. CASE d = c
    BY <2>1, <1>3, <1>5, <1>7, <1>8 DEF HasJoined
  <2>2. CASE d # c
    <3>1. peer'[d] = peer[d] /\ peer[d] \in Peers /\ link'[peer[d]] = link[peer[d]]
      BY <2>2, <1>3, <1>7, <1>8 DEF QueuesOK, TypeOK
    <3> QED
      BY <2>2, <3>1, <1>7 DEF JoinsOK, HasJoined, Agrees
  <2> QED
    BY <2>1, <2>2
<1>15. NoLostJoin'
  <2> SUFFICES ASSUME NEW d \in Clients, state'[d] = "Joining", link'[peer'[d]] = "connected",
                      call'[d].type # "Join"
               PROVE  \/ \E packet \in ToSet(send_list[d]) \cup ToSet(up[peer'[d]]) :
                            packet.type = "JoinRequest"
                      \/ ToSet(down'[d]) \ {"DISCONNECT"} # {}
    BY DEF NoLostJoin
  <2>1. d # c
    BY <1>7 DEF Packet
  <2>2. peer'[d] = peer[d] /\ peer[d] \in Peers /\ link'[peer[d]] = link[peer[d]]
    BY <2>1, <1>3, <1>7, <1>8 DEF LoopsOK
  <2> QED
    BY <2>1, <2>2, <1>7 DEF NoLostJoin
<1> QED
  BY <1>9, <1>10, <1>11, <1>12, <1>13, <1>14, <1>15

\* A packet goes into the list of a client.
LEMMA ListedInv ==
  ASSUME IInv, NEW c \in Clients, NEW x \in Packets,
         x.type = "JoinRequest" => x.arg \in IdentitiesOf[c],
         send_list' = [send_list EXCEPT ![c] = Append(@, x)],
         call' = call \/ (x.type = "JoinRequest" /\ call' = [call EXCEPT ![c] = NoCall]),
         UNCHANGED <<roomVars, netVars, peer, state, loop>>
  PROVE  IInv'
<1> USE DEF IInv, roomVars, netVars
<1>1. send_list[c] \in Seq(Packets)
  BY DEF QueuesOK
<1>2. /\ Append(send_list[c], x) \in Seq(Packets)
      /\ ToSet(Append(send_list[c], x)) = ToSet(send_list[c]) \cup {x}
  BY <1>1, Queued
<1>3. /\ send_list' \in [Clients -> Seq(Packets)]
      /\ \A d \in Clients :
           ToSet(send_list'[d]) = IF d = c THEN ToSet(send_list[d]) \cup {x} ELSE ToSet(send_list[d])
  BY <1>2 DEF QueuesOK
<1>4. \A d \in Clients : \/ call'[d] = call[d]
                         \/ d = c /\ call'[d] = NoCall /\ x.type = "JoinRequest"
  BY DEF QueuesOK
<1>5. QueuesOK'
  <2>1. call' \in [Clients -> {NoCall, Packet("Leave", NoPeer)} \cup {Packet("Join", i) : i \in Ids}]
    BY DEF QueuesOK
  <2> QED
    BY <1>3, <2>1 DEF QueuesOK, TypeOK
<1>6. LoopsOK' /\ LinksOK' /\ MembersOK'
  BY DEF LoopsOK, LinksOK, MembersOK
<1>7. OwnersOK' /\ JoinsOK'
  BY DEF OwnersOK, OwnedBy, JoinsOK, HasJoined, Agrees
<1>8. RequestsOK'
  <2>1. NoCall.type # "Join"
    BY DEF NoCall, Packet
  <2>2. \A d \in Clients : call'[d].type = "Join" => call'[d].arg \in IdentitiesOf[d]
    BY <2>1, <1>4 DEF RequestsOK
  <2>3. \A d \in Clients : \A y \in Requests(ToSet(send_list'[d])) : y.arg \in IdentitiesOf[d]
    BY <1>3 DEF RequestsOK, Requests
  <2> QED
    BY <2>2, <2>3 DEF RequestsOK
<1>9. NoLostJoin'
  <2> SUFFICES ASSUME NEW d \in Clients, state[d] = "Joining", link[peer[d]] = "connected",
                      call'[d].type # "Join"
               PROVE  \/ \E packet \in ToSet(send_list'[d]) \cup ToSet(up[peer[d]]) :
                            packet.type = "JoinRequest"
                      \/ ToSet(down[d]) \ {"DISCONNECT"} # {}
    BY DEF NoLostJoin
  <2>1. ToSet(send_list[d]) \subseteq ToSet(send_list'[d])
    BY <1>3
  <2>2. CASE call'[d] = call[d]
    BY <2>1, <2>2 DEF NoLostJoin
  <2>3. CASE d = c /\ x.type = "JoinRequest"
    BY <2>3, <1>3
  <2> QED
    BY <1>4, <2>2, <2>3
<1> QED
  BY <1>5, <1>6, <1>7, <1>8, <1>9

\* SendJoinRequest keeps the invariant.
LEMMA SendJoinRequestInv == ASSUME IInv, NEW c \in Clients, SendJoinRequest(c) PROVE IInv'
<1>1. PICK x : x = Packet("JoinRequest", call[c].arg)
  OBVIOUS
<1>2. call[c].arg \in IdentitiesOf[c] /\ call[c].arg \in Ids
  BY DEF IInv, RequestsOK, SendJoinRequest, Ids
<1>3. x \in Packets /\ x.type = "JoinRequest" /\ x.arg \in IdentitiesOf[c]
  BY <1>1, <1>2 DEF Packets, Packet
<1> QED
  BY <1>1, <1>3, ListedInv DEF SendJoinRequest

\* SendModerationRequest keeps the invariant.
LEMMA SendModerationRequestInv ==
  ASSUME IInv, NEW c \in Clients, NEW packet \in Moderations, SendModerationRequest(c, packet)
  PROVE  IInv'
<1>1. packet \in Packets /\ packet.type # "JoinRequest"
  BY RoomAssumption DEF Packets
<1> QED
  BY <1>1, ListedInv DEF SendModerationRequest

\* Only the threads of one client go on, and it does not come to be joining or
\* joined by it.
LEMMA ThreadsInv ==
  ASSUME IInv, NEW c \in Clients, NEW s, NEW l, NEW k,
         state' = [state EXCEPT ![c] = s], loop' = [loop EXCEPT ![c] = l],
         call' = [call EXCEPT ![c] = k],
         s \in {state[c], "Idle"}, l \in {"none", "turn", "late", "ended"},
         l \in {"turn", "late"} <=> loop[c] \in {"turn", "late"},
         k \in {NoCall, Packet("Leave", NoPeer)}, s = "Idle" \/ call[c].type # "Join",
         UNCHANGED <<roomVars, netVars, peer, send_list>>
  PROVE  IInv'
<1> USE DEF IInv, roomVars, netVars
<1>1. /\ state' \in [Clients -> {"Idle", "Joining", "Joined", "Moderator"}]
      /\ loop' \in [Clients -> {"none", "turn", "late", "ended"}]
  BY DEF QueuesOK, TypeOK
<1>2. call' \in [Clients -> {NoCall, Packet("Leave", NoPeer)} \cup {Packet("Join", i) : i \in Ids}]
  BY DEF QueuesOK
<1>3. k.type # "Join"
  BY DEF NoCall, Packet
<1>4. \A d \in Clients : /\ state'[d] = IF d = c THEN s ELSE state[d]
                         /\ loop'[d] = IF d = c THEN l ELSE loop[d]
                         /\ call'[d] = IF d = c THEN k ELSE call[d]
  BY DEF QueuesOK, TypeOK
<1>5. QueuesOK' /\ LinksOK' /\ MembersOK'
  BY <1>1, <1>2 DEF QueuesOK, TypeOK, LinksOK, MembersOK
<1>6. LoopsOK' /\ OwnersOK'
  BY <1>4 DEF LoopsOK, OwnersOK, OwnedBy
<1>7. RequestsOK'
  BY <1>3, <1>4 DEF RequestsOK
<1>8. JoinsOK'
  <2> SUFFICES ASSUME NEW d \in Clients
               PROVE  /\ HasJoined(d)' => HasJoined(d)
                      /\ \A m : Agrees(d, m) => Agrees(d, m)'
    BY DEF JoinsOK
  <2> QED
    BY <1>4 DEF HasJoined, Agrees
<1>9. NoLostJoin'
  BY <1>3, <1>4 DEF NoLostJoin
<1> QED
  BY <1>5, <1>6, <1>7, <1>8, <1>9

\* Leave keeps the invariant.
LEMMA LeaveInv == ASSUME IInv, NEW c \in Clients, Leave(c) PROVE IInv'
<1>1. PICK l : /\ loop' = [loop EXCEPT ![c] = l] /\ l \in {"none", "turn", "late", "ended"}
               /\ l \in {"turn", "late"} <=> loop[c] \in {"turn", "late"}
  <2>1. CASE loop' = loop
    <3>1. loop' = [loop EXCEPT ![c] = loop[c]] /\ loop[c] \in {"none", "turn", "late", "ended"}
      BY <2>1 DEF IInv, QueuesOK, TypeOK
    <3> QED
      BY <3>1
  <2>2. CASE loop' = [loop EXCEPT ![c] = "late"] /\ IsConnected(state[c])
    BY <2>2 DEF IInv, LoopsOK, IsConnected
  <2> QED
    BY <2>1, <2>2 DEF Leave
<1> QED
  BY <1>1, ThreadsInv DEF Leave

\* Left keeps the invariant.
LEMMA LeftInv == ASSUME IInv, NEW c \in Clients, Left(c) PROVE IInv'
<1>1. state' = [state EXCEPT ![c] = state[c]]
  BY DEF Left, IInv, QueuesOK, TypeOK
<1> QED
  BY <1>1, ThreadsInv DEF Left

-----------------------------------------------------------------------------
\* The members' loop threads.

\* LoopEnds keeps the invariant.
LEMMA LoopEndsInv == ASSUME IInv, NEW c \in Clients, LoopEnds(c) PROVE IInv'
<1> USE DEF IInv, roomVars
<1>1. PICK p \in Peers : p = peer[c] /\ state[c] = "Idle" /\ loop[c] = "turn"
  BY DEF LoopEnds, LoopsOK, IsConnected, QueuesOK, TypeOK
<1>2. /\ loop' = [loop EXCEPT ![c] = "ended"] /\ peer' = [peer EXCEPT ![c] = NoPeer]
      /\ down' = [down EXCEPT ![c] = <<>>]
      /\ UNCHANGED <<open, members, ip_ban_list, link, state, send_list, call>>
  BY DEF LoopEnds
<1>3. up[p] \in Seq(Packets) /\ Disconnected \in Packets /\ Disconnected.type = "DISCONNECT"
  BY DEF QueuesOK, Packets, Disconnected, Packet
<1>4. /\ up' \in [Peers -> Seq(Packets)]
      /\ \A q \in Peers : Requests(ToSet(up'[q])) \subseteq Requests(ToSet(up[q]))
      /\ \A q \in Peers : q # p \/ link[p] # "connected" => up'[q] = up[q]
  <2>1. CASE link[p] = "connected"
    <3>1. PICK q \in Prefixes(up[p]) : up' = [up EXCEPT ![p] = Append(q, Disconnected)]
      BY <1>1, <2>1 DEF LoopEnds
    <3>2. q \in Seq(Packets) /\ ToSet(q) \subseteq ToSet(up[p])
      BY <1>3, CutPrefix
    <3>3. /\ Append(q, Disconnected) \in Seq(Packets)
          /\ Requests(ToSet(Append(q, Disconnected))) \subseteq Requests(ToSet(up[p]))
      BY <1>3, <3>2, Queued DEF Requests
    <3> QED
      BY <2>1, <3>1, <3>3 DEF QueuesOK
  <2>2. CASE link[p] # "connected"
    BY <1>1, <2>2 DEF LoopEnds, QueuesOK
  <2> QED
    BY <2>1, <2>2
<1>5. ToSet(<<>>) = {} /\ <<>> \in Seq(Events)
  BY NothingQueued
<1>6. \A d \in Clients : /\ peer'[d] = IF d = c THEN NoPeer ELSE peer[d]
                         /\ loop'[d] = IF d = c THEN "ended" ELSE loop[d]
                         /\ d # c => down'[d] = down[d]
  BY <1>2 DEF QueuesOK, TypeOK
<1>7. QueuesOK'
  BY <1>2, <1>4, <1>5 DEF QueuesOK, TypeOK
<1>8. LoopsOK' /\ RequestsOK' /\ MembersOK'
  BY <1>1, <1>2, <1>6 DEF LoopsOK, RequestsOK, MembersOK
<1>9. LinksOK'
  BY <1>2, <1>4 DEF LinksOK
<1>10. OwnersOK'
  <2> SUFFICES ASSUME NEW q \in Peers PROVE \E d \in Clients : OwnedBy(d, q)'
    BY DEF OwnersOK
  <2>1. PICK d \in Clients : OwnedBy(d, q)
    BY DEF OwnersOK
  <2>2. OwnedBy(d, q)'
    BY <2>1, <1>2, <1>4, <1>6, RoomAssumption DEF OwnedBy
  <2> QED
    BY <2>2
<1>11. \A d \in Clients : d # c => peer[d] # p
  BY <1>1 DEF OwnersOK, OwnedBy
<1>12. JoinsOK'
  BY <1>2, <1>6 DEF JoinsOK, HasJoined, Agrees
<1>13. NoLostJoin'
  <2> SUFFICES ASSUME NEW d \in Clients, state[d] = "Joining", link[peer'[d]] = "connected",
                      call[d].type # "Join"
               PROVE  \/ \E packet \in ToSet(send_list[d]) \cup ToSet(up'[peer'[d]]) :
                            packet.type = "JoinRequest"
                      \/ ToSet(down'[d]) \ {"DISCONNECT"} # {}
    BY <1>2 DEF NoLostJoin
  <2>1. d # c /\ peer[d] \in Peers
    BY <1>1 DEF LoopsOK
  <2>2. peer'[d] = peer[d] /\ up'[peer[d]] = up[peer[d]] /\ down'[d] = down[d]
    BY <2>1, <1>4, <1>6, <1>11
  <2> QED
    BY <2>2 DEF NoLostJoin
<1> QED
  BY <1>7, <1>8, <1>9, <1>10, <1>12, <1>13

\* The states that an event leads to.
LEMMA AfterEventFacts ==
  ASSUME NEW s \in {"Idle", "Joining", "Joined", "Moderator"}, NEW event \in Events \cup {"NONE"}
  PROVE  /\ event = "JoinSuccess" => AfterEvent(s, event) = "Joined"
         /\ event = "JoinSuccessAsMod" => AfterEvent(s, event) = "Moderator"
         /\ event = "NONE" => AfterEvent(s, event) = s
         /\ event = "DISCONNECT" => AfterEvent(s, event) = IF s = "Joining" THEN s ELSE "Idle"
         /\ event \notin Success \cup {"NONE", "DISCONNECT"} => AfterEvent(s, event) = "Idle"
         /\ AfterEvent(s, event) \in {"Idle", "Joining", "Joined", "Moderator"}
BY DEF AfterEvent, Success, Events, Refusals

\* LoopTurn keeps the invariant.
LEMMA LoopTurnInv == ASSUME IInv, NEW c \in Clients, LoopTurn(c) PROVE IInv'
<1> USE DEF IInv, roomVars
<1>1. PICK p \in Peers : p = peer[c] /\ loop[c] \in {"turn", "late"}
  BY DEF LoopTurn, LoopsOK
<1>2. PICK event, s : event = (IF down[c] = <<>> THEN "NONE" ELSE Head(down[c]))
                      /\ s = AfterEvent(state[c], event)
  OBVIOUS
<1>3. /\ loop' = [loop EXCEPT ![c] = "turn"]
      /\ down' = IF event = "NONE" THEN down ELSE [down EXCEPT ![c] = Tail(@)]
      /\ state' = [state EXCEPT ![c] = s]
      /\ send_list' = [send_list EXCEPT ![c] = <<>>]
      /\ up' = IF link[p] = "connected" THEN [up EXCEPT ![p] = @ \o send_list[c]] ELSE up
      /\ UNCHANGED <<open, members, ip_ban_list, link, peer, call>>
  BY <1>1, <1>2 DEF LoopTurn, QueuesOK, TypeOK
<1>4. /\ \/ event = "NONE" /\ down'[c] = down[c] /\ down[c] = <<>>
         \/ /\ event \in Events /\ down[c] # <<>> /\ down'[c] = Tail(down[c])
            /\ ToSet(down[c]) = ToSet(down'[c]) \cup {event}
            /\ \A e : EndsWith(down[c], e) /\ (event # e \/ down'[c] # <<>>)
                        => EndsWith(down'[c], e)
      /\ down' \in [Clients -> Seq(Events)]
      /\ \A d \in Clients \ {c} : down'[d] = down[d]
  <2>1. down[c] \in Seq(Events) /\ down \in [Clients -> Seq(Events)]
    BY DEF QueuesOK
  <2>2. CASE down[c] = <<>>
    BY <1>2, <1>3, <2>1, <2>2
  <2>3. CASE down[c] # <<>>
    <3>1. /\ Head(down[c]) \in Events /\ Tail(down[c]) \in Seq(Events)
          /\ ToSet(down[c]) = ToSet(Tail(down[c])) \cup {Head(down[c])}
          /\ \A e : EndsWith(down[c], e) /\ Tail(down[c]) # <<>> => EndsWith(Tail(down[c]), e)
          /\ \A e : EndsWith(down[c], e) /\ Head(down[c]) # e => EndsWith(Tail(down[c]), e)
      BY <2>1, <2>3, Taken
    <3>2. event = Head(down[c]) /\ event # "NONE"
      BY <1>2, <2>3, <3>1 DEF Events, Success, Refusals
    <3>3. down' = [down EXCEPT ![c] = Tail(down[c])]
      BY <1>3, <3>2
    <3> QED
      BY <2>1, <2>3, <3>1, <3>2, <3>3
  <2> QED
    BY <2>2, <2>3
<1>5. /\ s \in {"Idle", "Joining", "Joined", "Moderator"}
      /\ event = "JoinSuccess" => s = "Joined"
      /\ event = "JoinSuccessAsMod" => s = "Moderator"
      /\ event = "NONE" => s = state[c]
      /\ event = "DISCONNECT" => s = IF state[c] = "Joining" THEN "Joining" ELSE "Idle"
      /\ event \notin Success \cup {"NONE", "DISCONNECT"} => s = "Idle"
  <2>1. event \in Events \cup {"NONE"} /\ state[c] \in {"Idle", "Joining", "Joined", "Moderator"}
    BY <1>4 DEF QueuesOK, TypeOK
  <2> QED
    BY <1>2, <2>1, AfterEventFacts
<1>6. /\ \A d \in Clients : /\ state'[d] = IF d = c THEN s ELSE state[d]
                            /\ loop'[d] = IF d = c THEN "turn" ELSE loop[d]
                            /\ send_list'[d] = IF d = c THEN <<>> ELSE send_list[d]
      /\ state' \in [Clients -> {"Idle", "Joining", "Joined", "Moderator"}]
      /\ loop' \in [Clients -> {"none", "turn", "late", "ended"}]
  BY <1>3, <1>5 DEF QueuesOK, TypeOK
<1>7. /\ up' \in [Peers -> Seq(Packets)]
      /\ \A q \in Peers : IF q = p /\ link[p] = "connected"
                          THEN ToSet(up'[q]) = ToSet(up[q]) \cup ToSet(send_list[c])
                          ELSE up'[q] = up[q]
  <2>1. /\ up \in [Peers -> Seq(Packets)] /\ up[p] \in Seq(Packets)
        /\ send_list[c] \in Seq(Packets)
    BY DEF QueuesOK
  <2>2. /\ up[p] \o send_list[c] \in Seq(Packets)
        /\ ToSet(up[p] \o send_list[c]) = ToSet(up[p]) \cup ToSet(send_list[c])
    BY <2>1, QueuedAll
  <2> QED
    BY <1>3, <2>1, <2>2
<1>8. ToSet(<<>>) = {} /\ <<>> \in Seq(Packets)
  BY NothingQueued
<1>9. QueuesOK'
  <2>1. send_list' \in [Clients -> Seq(Packets)]
    BY <1>3, <1>8 DEF QueuesOK
  <2> QED
    BY <1>3, <1>4, <1>6, <1>7, <2>1 DEF QueuesOK, TypeOK
<1>10. LoopsOK' /\ LinksOK' /\ MembersOK'
  BY <1>1, <1>3, <1>6, <1>7 DEF LoopsOK, LinksOK, MembersOK
<1>11. RequestsOK'
  BY <1>3, <1>6, <1>8 DEF RequestsOK, Requests
<1>12. OwnersOK'
  <2> SUFFICES ASSUME NEW q \in Peers PROVE \E d \in Clients : OwnedBy(d, q)'
    BY DEF OwnersOK
  <2>1. PICK d \in Clients : OwnedBy(d, q)
    BY DEF OwnersOK
  <2>2. \A x \in Requests(ToSet(up'[q])) : x.arg \in IdentitiesOf[d]
    <3>1. CASE q = p /\ link[p] = "connected"
      <4>1. d = c
        BY <1>1, <2>1, <3>1 DEF OwnedBy
      <4>2. ToSet(up'[q]) = ToSet(up[q]) \cup ToSet(send_list[c])
        BY <1>7, <3>1
      <4> QED
        BY <2>1, <4>1, <4>2 DEF OwnedBy, RequestsOK, Requests
    <3>2. CASE ~(q = p /\ link[p] = "connected")
      BY <1>7, <2>1, <3>2 DEF OwnedBy
    <3> QED
      BY <3>1, <3>2
  <2>3. OwnedBy(d, q)'
    BY <1>3, <2>1, <2>2 DEF OwnedBy
  <2> QED
    BY <2>3
<1>13. JoinsOK'
  <2> SUFFICES ASSUME NEW d \in Clients, peer[d] # NoPeer
               PROVE  IF link[peer[d]] = "connected"
                      THEN /\ "DISCONNECT" \notin ToSet(down'[d])
                           /\ HasJoined(d)' => \E m \in members : Agrees(d, m)'
                      ELSE HasJoined(d)' => EndsWith(down'[d], "DISCONNECT")
    BY <1>3 DEF JoinsOK
  <2>1. CASE d # c
    BY <2>1, <1>3, <1>4, <1>6 DEF JoinsOK, HasJoined, Agrees
  <2>2. CASE d = c
    <3>1. HasJoined(c)' => HasJoined(c)
      BY <1>4, <1>5, <1>6 DEF HasJoined, Success
    <3>2. ToSet(down'[c]) \subseteq ToSet(down[c])
      BY <1>4
    <3>3. ASSUME NEW m, Agrees(c, m) PROVE Agrees(c, m)'
      <4>1. state'[c] \in {"Joined", "Moderator"} => (m.host <=> state'[c] = "Moderator")
        BY <3>3, <1>4, <1>5, <1>6 DEF Agrees, Success
      <4> QED
        BY <3>2, <3>3, <4>1, <1>3 DEF Agrees
    <3>4. ASSUME HasJoined(c)', EndsWith(down[c], "DISCONNECT")
          PROVE  EndsWith(down'[c], "DISCONNECT")
      <4>1. event \in Events
        BY <3>4, <1>4 DEF EndsWith
      <4>2. event # "DISCONNECT" \/ down'[c] # <<>>
        BY <3>4, <4>1, <1>5, <1>6, <1>8 DEF HasJoined
      <4> QED
        BY <3>4, <4>1, <4>2, <1>4 DEF Events, Success, Refusals
    <3> QED
      BY <2>2, <3>1, <3>2, <3>3, <3>4 DEF JoinsOK
  <2> QED
    BY <2>1, <2>2
<1>14. NoLostJoin'
  <2> SUFFICES ASSUME NEW d \in Clients, state'[d] = "Joining", link[peer[d]] = "connected",
                      call[d].type # "Join"
               PROVE  \/ \E packet \in ToSet(send_list'[d]) \cup ToSet(up'[peer[d]]) :
                            packet.type = "JoinRequest"
                      \/ ToSet(down'[d]) \ {"DISCONNECT"} # {}
    BY <1>3 DEF NoLostJoin
  <2>1. CASE d # c
    <3>1. peer[d] \in Peers /\ state[d] = "Joining"
      BY <2>1, <1>6 DEF LoopsOK
    <3>2. ToSet(up[peer[d]]) \subseteq ToSet(up'[peer[d]])
      BY <1>7, <3>1
    <3> QED
      BY <2>1, <3>1, <3>2, <1>4, <1>6 DEF NoLostJoin
  <2>2. CASE d = c
    <3>1. state[c] = "Joining" /\ event \in {"NONE", "DISCONNECT"}
      BY <2>2, <1>4, <1>5, <1>6 DEF Success
    <3>2. ToSet(up'[p]) = ToSet(up[p]) \cup ToSet(send_list[c])
      BY <1>1, <1>7, <2>2
    <3>3. ToSet(down[c]) \ {"DISCONNECT"} = ToSet(down'[c]) \ {"DISCONNECT"}
      BY <1>4, <3>1 DEF Events, Success, Refusals
    <3> QED
      BY <1>1, <2>2, <3>1, <3>2, <3>3 DEF NoLostJoin
  <2> QED
    BY <2>1, <2>2
<1> QED
  BY <1>9, <1>10, <1>11, <1>12, <1>13, <1>14

-----------------------------------------------------------------------------
\* Results.

\* The invariant holds initially.
LEMMA InitInv == Init => IInv
<1> SUFFICES ASSUME Init PROVE IInv
  OBVIOUS
<1> USE DEF Init
<1>1. /\ <<>> \in Seq(Packets) /\ <<>> \in Seq(Events) /\ ToSet(<<>>) = {}
  BY NothingQueued
<1>2. QueuesOK /\ LoopsOK /\ LinksOK
  BY <1>1 DEF QueuesOK, TypeOK, LoopsOK, LinksOK
<1>3. MembersOK
  BY FS_EmptySet, RoomAssumption DEF MembersOK
<1>4. RequestsOK
  BY <1>1 DEF RequestsOK, Requests, NoCall, Packet
<1>5. OwnersOK
  BY <1>1, PeersAssumption, RoomAssumption DEF OwnersOK, OwnedBy, Requests
<1>6. JoinsOK /\ NoLostJoin
  BY DEF JoinsOK, NoLostJoin
<1> QED
  BY <1>2, <1>3, <1>4, <1>5, <1>6 DEF IInv

\* The invariant is inductive.
LEMMA NextInv == IInv /\ [Next]_vars => IInv'
<1> SUFFICES ASSUME IInv, [Next]_vars PROVE IInv'
  OBVIOUS
<1>1. ASSUME NEW p \in Peers, ServerLoop(p) PROVE IInv'
  BY <1>1, ServerLoopInv
<1>2. CASE Destroy
  BY <1>2, DestroyInv
<1>3. ASSUME NEW c \in Clients, LoseConnection(c) \/ LosePacket(c) PROVE IInv'
  BY <1>3, LoseConnectionInv, LosePacketInv
<1>4. ASSUME NEW c \in Clients, NEW id \in IdentitiesOf[c], Join(c, id) PROVE IInv'
  BY <1>4, JoinInv
<1>5. ASSUME NEW c \in Clients, NEW packet \in Moderations, SendModerationRequest(c, packet)
      PROVE  IInv'
  BY <1>5, SendModerationRequestInv
<1>6. ASSUME NEW c \in Clients, SendJoinRequest(c) PROVE IInv'
  BY <1>6, SendJoinRequestInv
<1>7. ASSUME NEW c \in Clients, Leave(c) \/ Left(c) PROVE IInv'
  BY <1>7, LeaveInv, LeftInv
<1>8. ASSUME NEW c \in Clients, LoopEnds(c) PROVE IInv'
  BY <1>8, LoopEndsInv
<1>9. ASSUME NEW c \in Clients, LoopTurn(c) PROVE IInv'
  BY <1>9, LoopTurnInv
<1>10. CASE UNCHANGED vars
  <2> USE <1>10 DEF vars, roomVars, netVars, memberVars
  <2>1. QueuesOK' /\ LoopsOK' /\ LinksOK' /\ MembersOK' /\ RequestsOK' /\ OwnersOK'
    BY DEF IInv, QueuesOK, TypeOK, LoopsOK, LinksOK, MembersOK, RequestsOK, OwnersOK, OwnedBy
  <2>2. JoinsOK' /\ NoLostJoin'
    BY DEF IInv, JoinsOK, HasJoined, Agrees, NoLostJoin
  <2> QED
    BY <2>1, <2>2 DEF IInv
<1> QED
  BY <1>1, <1>2, <1>3, <1>4, <1>5, <1>6, <1>7, <1>8, <1>9, <1>10 DEF Next

\* The invariant holds in every state of every run of the specification.
THEOREM InvHolds == Spec => []IInv
BY InitInv, NextInv, PTL DEF Spec

\* For any number of clients, connections and slots: the room never has more
\* members than slots or two of one nickname, console or connection, and none
\* whose connection is gone without a notice of it on the way.
THEOREM MembersConsistentTheorem == Spec => []MembersConsistent
<1>1. IInv => MembersConsistent
  <2> SUFFICES ASSUME IInv PROVE MembersConsistent
    OBVIOUS
  <2>1. \A p \in Peers : link[p] \in {"free", "connected", "disconnecting"}
    BY DEF IInv, QueuesOK, TypeOK
  <2> QED
    BY <2>1 DEF IInv, MembersConsistent, QueuesOK, MembersOK, LinksOK, EndsWith
<1> QED
  BY <1>1, InvHolds, PTL

\* For any number of clients: who believes to have joined, as a moderator or
\* not, is such a member of the room or has an event to receive that ends it.
THEOREM JoinedIsMemberTheorem == Spec => []JoinedIsMember
<1>1. IInv => JoinedIsMember
  <2> SUFFICES ASSUME IInv, NEW c \in Clients, state[c] \in {"Joined", "Moderator"}
               PROVE  \/ \E m \in members : m.peer = peer[c] /\ (m.host <=> state[c] = "Moderator")
                      \/ ToSet(down[c]) \ {"JoinSuccess", "JoinSuccessAsMod"} # {}
    BY DEF JoinedIsMember
  <2>1. peer[c] # NoPeer /\ HasJoined(c) /\ down[c] \in Seq(Events)
    BY RoomAssumption DEF IInv, LoopsOK, HasJoined, QueuesOK
  <2>2. CASE link[peer[c]] = "connected"
    BY <2>1, <2>2 DEF IInv, JoinsOK, Agrees
  <2>3. CASE link[peer[c]] # "connected"
    <3>1. down[c] # <<>> /\ Last(down[c]) = "DISCONNECT"
      BY <2>1, <2>3 DEF IInv, JoinsOK, EndsWith
    <3>2. "DISCONNECT" \in ToSet(down[c])
      BY <2>1, <3>1, EmptySeq, ToSetMember DEF Last
    <3> QED
      BY <3>2
  <2> QED
    BY <2>2, <2>3
<1> QED
  BY <1>1, InvHolds, PTL

\* For any number of clients: as long as its connection holds, a client that is
\* joining has a request on its way to the room or an answer on its way back.
THEOREM NoLostJoinTheorem == Spec => []NoLostJoin
<1>1. IInv => NoLostJoin
  BY DEF IInv
<1> QED
  BY <1>1, InvHolds, PTL
=============================================================================
