------------------------------ MODULE IpcProofs ------------------------------
(***************************************************************************)
(* Proofs about Ipc, for any number of threads and sessions and any size   *)
(* of the port: every request is accounted for, the port counts its        *)
(* connections exactly, and a server thread sleeps on nothing that is      *)
(* available but a request that a reply has freed.  What the buffers of a  *)
(* request do to the server's map plays no part in this.                   *)
(*                                                                         *)
(* A call leaves the sessions, the lists and the threads in some state,    *)
(* and then Settle runs the destructors.  Good is a predicate on such      *)
(* states: it is shown for what each call leaves, and that Settle keeps    *)
(* it is shown once.                                                       *)
(***************************************************************************)
EXTENDS Ipc, Deques, SequenceTheorems, FiniteSetTheorems, TLAPS

-----------------------------------------------------------------------------
\* Facts about sequences.

\* Membership in ToSet, index by index.
LEMMA ToSetMember ==
  ASSUME NEW S, NEW s \in Seq(S), NEW e
  PROVE  e \in ToSet(s) <=> \E i \in 1..Len(s) : s[i] = e
BY LenProperties DEF ToSet

\* Appending an element.
LEMMA AppendFacts ==
  ASSUME NEW S, NEW s \in Seq(S), NEW e \in S
  PROVE  /\ Append(s, e) \in Seq(S)
         /\ ToSet(Append(s, e)) = ToSet(s) \cup {e}
         /\ NoDuplicates(s) /\ e \notin ToSet(s) => NoDuplicates(Append(s, e))
<1>1. Append(s, e) \in Seq(S)
  BY AppendProperties
<1>2. ToSet(Append(s, e)) = ToSet(s) \cup {e}
  BY AppendProperties, LenProperties, <1>1 DEF ToSet
<1>3. NoDuplicates(s) /\ e \notin ToSet(s) => NoDuplicates(Append(s, e))
  BY AppendProperties, ToSetMember DEF NoDuplicates
<1> QED BY <1>1, <1>2, <1>3

-----------------------------------------------------------------------------
Statuses == {"Running", "WaitIPC", "WaitSynchAny", "Dead"}

\* A session is a record with the members that Closed has.
IsSession(s) ==
  /\ s = [client |-> s.client, server |-> s.server, port |-> s.port, pending |-> s.pending,
          handling |-> s.handling, context |-> s.context]
  /\ s.client \in BOOLEAN /\ s.server \in BOOLEAN /\ s.port \in BOOLEAN
  /\ s.pending \in Seq(Clients) /\ s.handling \in Clients \cup {NoThread}

Quiet(s) == s.pending = <<>> /\ s.handling = NoThread

\* A session that has lost an end has no requests.
SessionsOK(S) ==
  /\ S = [x \in Sessions |-> S[x]]
  /\ \A x \in Sessions : IsSession(S[x]) /\ (Quiet(S[x]) \/ (S[x].client /\ S[x].server))

ThreadsOK(st, W) ==
  /\ st \in [Clients \cup Servers -> Statuses]
  /\ W = [w \in Servers |-> W[w]]
  /\ \A w \in Servers : W[w] # {} <=> st[w] = "WaitSynchAny"

\* Requests come from threads of the clients' process, over a handle that it
\* has; a process that has ended has no such handle and no thread.
ClientsOK(S, CH, st, pr) ==
  /\ CH \in [Sessions -> {{}, {"client"}, {"server"}}]
  /\ \A x \in Sessions : /\ CH[x] # {} => S[x].client
                         /\ ~Quiet(S[x]) => CH[x] = {"client"}
  /\ pr \in {"Running", "Exited", "Destroyed"}
  /\ pr # "Running" => \A t \in Clients : st[t] = "Dead"
  /\ pr = "Destroyed" => \A x \in Sessions : CH[x] # {"client"}

\* How often a thread's request is in a session.
Count(s, t) == Cardinality({i \in DOMAIN s : s[i] = t})
Times(s, t) == Count(s.pending, t) + IF s.handling = t THEN 1 ELSE 0
Accounted(S, st, sent) ==
  /\ sent \in [Clients -> Sessions \cup {Port}]
  /\ \A t \in Clients, x \in Sessions :
       st[t] # "Dead" =>
         Times(S[x], t) = IF /\ st[t] = "WaitIPC" /\ sent[t] = x
                             /\ S[x].client /\ S[x].server THEN 1 ELSE 0

\* The connections of the port.
Ported(S) == {x \in Sessions : S[x].server /\ S[x].port}
PortOK(S, H, Q, n) ==
  /\ IsFiniteSet(Ported(S)) /\ n = Cardinality(Ported(S)) /\ n <= MaxSessions
  /\ H \subseteq Sessions /\ \A x \in H : S[x].server
  /\ Q \in Seq(Sessions) /\ NoDuplicates(Q)
  /\ \A x \in ToSet(Q) : S[x].server /\ S[x].port /\ x \notin H

Good(S, W, H, Q, n, sent, st, CH, pr) ==
  /\ SessionsOK(S) /\ ThreadsOK(st, W) /\ ClientsOK(S, CH, st, pr)
  /\ Accounted(S, st, sent) /\ PortOK(S, H, Q, n)

\* What Settle adds: a client remembers only a session that has both ends.
SentIsOpen == \A t \in Clients : sent_to[t] # Port => Open(sent_to[t])

\* NoLostRequest of such a state; and what a thread listens to still exists.
NoLost(S, W, Q) ==
  \A w \in Servers : \A o \in W[w] :
    /\ o = Port \/ (o \in Sessions /\ S[o].server)
    /\ \/ ShouldWait(S, Q, o)
       \/ o # Port /\ S[o].client /\ \E v \in Servers : o \notin W[v]

IInv ==
  /\ Good(session, wait_objects, server_handles, pending_sessions, active_sessions,
          sent_to, status, client_handles, process)
  /\ SentIsOpen /\ NoLost(session, wait_objects, pending_sessions)

-----------------------------------------------------------------------------
\* How often a thread is in a sequence.

\* Nobody is in an empty sequence.
LEMMA CountNone ==
  ASSUME NEW t
  PROVE  Count(<<>>, t) = 0
<1>1. {i \in DOMAIN <<>> : <<>>[i] = t} = {}
  OBVIOUS
<1> QED
  BY <1>1, FS_EmptySet DEF Count

\* A count is a number.
LEMMA CountType ==
  ASSUME NEW S, NEW s \in Seq(S), NEW t
  PROVE  IsFiniteSet({i \in DOMAIN s : s[i] = t}) /\ Count(s, t) \in Nat
<1>1. IsFiniteSet(1..Len(s)) /\ DOMAIN s = 1..Len(s)
  BY FS_Interval, LenProperties
<1>2. IsFiniteSet({i \in DOMAIN s : s[i] = t})
  BY <1>1, FS_Subset
<1> QED
  BY <1>2, FS_CardinalityType DEF Count

\* An element appended counts once.
LEMMA CountAppend ==
  ASSUME NEW S, NEW s \in Seq(S), NEW e \in S, NEW t
  PROVE  Count(Append(s, e), t) = Count(s, t) + IF e = t THEN 1 ELSE 0
<1>1. PICK r : r = Append(s, e)
  OBVIOUS
<1>2. /\ DOMAIN s = 1..Len(s) /\ DOMAIN r = 1..Len(s) + 1 /\ Len(s) \in Nat
      /\ \A i \in 1..Len(s) : r[i] = s[i]
      /\ r[Len(s) + 1] = e
  BY <1>1, AppendProperties, LenProperties
<1>3. PICK A, B : A = {i \in DOMAIN s : s[i] = t} /\ B = {i \in DOMAIN r : r[i] = t}
  OBVIOUS
<1>4. IsFiniteSet(A) /\ Count(s, t) = Cardinality(A) /\ Count(r, t) = Cardinality(B)
  BY <1>3, CountType DEF Count
<1>5. Cardinality(A) \in Nat
  BY <1>4, FS_CardinalityType
<1>6. CASE e = t
  <2>1. B = A \cup {Len(s) + 1} /\ Len(s) + 1 \notin A
    BY <1>2, <1>3, <1>6
  <2>2. Cardinality(A \cup {Len(s) + 1}) = Cardinality(A) + 1
    BY <1>4, <2>1, FS_AddElement
  <2> QED
    BY <1>1, <1>4, <1>6, <2>1, <2>2
<1>7. CASE e # t
  <2>1. B = A
    BY <1>2, <1>3, <1>7
  <2> QED
    BY <1>1, <1>4, <1>5, <1>7, <2>1
<1> QED
  BY <1>6, <1>7

\* A sequence taken apart at its end, as Acquire and Accept do.
LEMMA FrontLast ==
  ASSUME NEW S, NEW s \in Seq(S), s # <<>>
  PROVE  /\ Front(s) \in Seq(S) /\ Last(s) \in S /\ s = Append(Front(s), Last(s))
         /\ ToSet(s) = ToSet(Front(s)) \cup {Last(s)}
         /\ NoDuplicates(s) => NoDuplicates(Front(s)) /\ Last(s) \notin ToSet(Front(s))
         /\ \A t : Count(s, t) = Count(Front(s), t) + IF Last(s) = t THEN 1 ELSE 0
<1>1. PICK r \in Seq(S), e \in S : s = Append(r, e)
  BY SequenceEmptyOrAppend
<1>2. /\ Len(r) \in Nat /\ Len(s) = Len(r) + 1 /\ s[Len(r) + 1] = e
      /\ \A i \in 1..Len(r) : s[i] = r[i]
  BY <1>1, AppendProperties, LenProperties
<1>3. Last(s) = e
  BY <1>2 DEF Last
<1>4. Front(s) = r
  <2>1. \A i \in 1..Len(r) : s[i] \in S
    BY <1>2, ElementOfSeq
  <2>2. /\ SubSeq(s, 1, Len(r)) \in Seq(S) /\ Len(SubSeq(s, 1, Len(r))) = Len(r)
        /\ \A i \in 1..Len(r) : SubSeq(s, 1, Len(r))[i] = s[i]
    BY <1>2, <2>1, SubSeqProperties
  <2>3. SubSeq(s, 1, Len(r)) = r
    BY <1>2, <2>2, SeqEqual
  <2>4. Len(s) - 1 = Len(r)
    BY <1>2
  <2> QED
    BY <2>3, <2>4 DEF Front
<1>5. ToSet(s) = ToSet(r) \cup {e}
  BY <1>1, AppendFacts
<1>6. ASSUME NoDuplicates(s) PROVE NoDuplicates(r) /\ e \notin ToSet(r)
  <2>1. NoDuplicates(r)
    BY <1>2, <1>6 DEF NoDuplicates
  <2>2. \A i \in 1..Len(r) : r[i] # e
    BY <1>2, <1>6 DEF NoDuplicates
  <2> QED
    BY <2>1, <2>2, ToSetMember
<1>7. \A t : Count(s, t) = Count(r, t) + IF e = t THEN 1 ELSE 0
  BY <1>1, CountAppend
<1> QED
  BY <1>1, <1>3, <1>4, <1>5, <1>6, <1>7

-----------------------------------------------------------------------------
\* Sessions.

\* What CreateSessionPair, ~ClientSession and Acquire leave of a session.
LEMMA PairFacts ==
  ASSUME NEW port \in BOOLEAN
  PROVE  /\ IsSession(CreateSessionPair(port)) /\ Quiet(CreateSessionPair(port))
         /\ CreateSessionPair(port).client /\ CreateSessionPair(port).server
         /\ CreateSessionPair(port).port = port
<1>1. PICK s : s = CreateSessionPair(port)
  OBVIOUS
<1>2. s = [Closed EXCEPT !.client = TRUE, !.server = TRUE, !.port = port]
  BY <1>1 DEF CreateSessionPair
<1>3. /\ s.client = TRUE /\ s.server = TRUE /\ s.port = port
      /\ s.pending = <<>> /\ s.handling = NoThread /\ s.context = <<>>
  BY <1>2 DEF Closed
<1>4. s = [client |-> s.client, server |-> s.server, port |-> s.port, pending |-> s.pending,
           handling |-> s.handling, context |-> s.context]
  BY <1>2 DEF Closed
<1>5. IsSession(s) /\ Quiet(s)
  BY <1>3, <1>4, EmptySeq DEF IsSession, Quiet
<1> QED
  BY <1>1, <1>3, <1>5

\* A session whose client's end has gone is quiet.
LEMMA ClientGoneFacts ==
  ASSUME NEW s, IsSession(s)
  PROVE  /\ IsSession(ClientGone(s)) /\ Quiet(ClientGone(s)) /\ ~ClientGone(s).client
         /\ ClientGone(s).server = s.server /\ ClientGone(s).port = s.port
<1>1. PICK r : r = ClientGone(s)
  OBVIOUS
<1>2. /\ s = [client |-> s.client, server |-> s.server, port |-> s.port, pending |-> s.pending,
              handling |-> s.handling, context |-> s.context]
      /\ r = [s EXCEPT !.client = FALSE, !.pending = <<>>, !.handling = NoThread]
  BY <1>1 DEF ClientGone, IsSession
<1>3. /\ r.client = FALSE /\ r.server = s.server /\ r.port = s.port
      /\ r.pending = <<>> /\ r.handling = NoThread
  BY <1>2
<1>4. r = [client |-> r.client, server |-> r.server, port |-> r.port, pending |-> r.pending,
           handling |-> r.handling, context |-> r.context]
  BY <1>2
<1>5. IsSession(r) /\ Quiet(r)
  BY <1>3, <1>4, EmptySeq DEF IsSession, Quiet
<1> QED
  BY <1>1, <1>3, <1>5

\* A request changes its place in the session and nothing else does.
LEMMA AcquireFacts ==
  ASSUME NEW s, IsSession(s), s.client => s.pending # <<>> /\ s.handling = NoThread
  PROVE  /\ IsSession(Acquire(s)) /\ Acquire(s).client = s.client
         /\ Acquire(s).server = s.server /\ Acquire(s).port = s.port
         /\ ~s.client => Acquire(s) = s
         /\ \A t \in Clients : Times(Acquire(s), t) = Times(s, t)
<1>1. CASE ~s.client
  BY <1>1 DEF Acquire
<1>2. CASE s.client
  <2>1. PICK r : r = Acquire(s)
    OBVIOUS
  <2>2. /\ s = [client |-> s.client, server |-> s.server, port |-> s.port, pending |-> s.pending,
                handling |-> s.handling, context |-> s.context]
        /\ r = [s EXCEPT !.handling = Last(s.pending), !.pending = Front(s.pending)]
    BY <1>2, <2>1 DEF Acquire, IsSession
  <2>3. /\ r.client = s.client /\ r.server = s.server /\ r.port = s.port
        /\ r.pending = Front(s.pending) /\ r.handling = Last(s.pending)
    BY <2>2
  <2>4. r = [client |-> r.client, server |-> r.server, port |-> r.port, pending |-> r.pending,
             handling |-> r.handling, context |-> r.context]
    BY <2>2
  <2>5. s.pending \in Seq(Clients) /\ s.pending # <<>> /\ s.handling = NoThread
    BY <1>2 DEF IsSession
  <2>6. Front(s.pending) \in Seq(Clients) /\ Last(s.pending) \in Clients
    BY <2>5, FrontLast
  <2>7. IsSession(r)
    BY <2>3, <2>4, <2>6 DEF IsSession
  <2>8. ASSUME NEW t \in Clients PROVE Times(r, t) = Times(s, t)
    <3>1. Count(s.pending, t) = Count(Front(s.pending), t) + IF Last(s.pending) = t THEN 1 ELSE 0
      BY <2>5, FrontLast
    <3>2. Count(s.pending, t) \in Nat /\ t # NoThread
      BY <2>5, CountType, IpcAssumption
    <3> QED
      BY <2>3, <2>5, <3>1, <3>2 DEF Times
  <2> QED
    BY <1>2, <2>1, <2>3, <2>7, <2>8
<1> QED
  BY <1>1, <1>2

\* The context of a session plays no part in what is shown here.
LEMMA ContextFacts ==
  ASSUME NEW s, IsSession(s), NEW c
  PROVE  /\ IsSession([s EXCEPT !.context = c])
         /\ [s EXCEPT !.context = c].client = s.client
         /\ [s EXCEPT !.context = c].server = s.server
         /\ [s EXCEPT !.context = c].port = s.port
         /\ [s EXCEPT !.context = c].pending = s.pending
         /\ [s EXCEPT !.context = c].handling = s.handling
BY DEF IsSession

\* A quiet session has no request of any thread.
LEMMA QuietTimes ==
  ASSUME NEW s, Quiet(s), NEW t \in Clients
  PROVE  Times(s, t) = 0
BY CountNone, IpcAssumption DEF Quiet, Times

\* Settle keeps the state good and clears what has lost an end.
LEMMA SettleInv ==
  ASSUME NEW S, NEW W, NEW H, NEW Q, NEW n, NEW sent,
         Good(S, W, H, Q, n, sent, status', client_handles', process'),
         NoLost(S, W, Q),
         Settle(S, W, H, Q, n, sent)
  PROVE  IInv'
<1> USE DEF Good
<1>1. PICK gone : gone = Unreferenced(S, W, H, Q)
  OBVIOUS
<1>2. /\ gone \subseteq Sessions /\ \A x \in gone : S[x].server /\ x \notin H /\ x \notin ToSet(Q)
  BY <1>1 DEF Unreferenced
<1>3. \A x \in Sessions : session'[x] = IF x \in gone THEN ServerGone(S[x])
                                        ELSE IF ~S[x].client /\ ~S[x].server THEN Closed
                                        ELSE S[x]
  BY <1>1 DEF Settle
<1>4. /\ wait_objects' = W /\ server_handles' = H /\ pending_sessions' = Q
      /\ active_sessions' = n - Cardinality({x \in gone : S[x].port})
  BY <1>1 DEF Settle, CountAfter
<1>5. \A t \in Clients : sent_to'[t] = IF sent[t] # Port /\ S[sent[t]].client /\ S[sent[t]].server
                                           /\ sent[t] \notin gone
                                        THEN sent[t] ELSE Port
  BY <1>1 DEF Settle
<1>6. /\ IsSession(Closed) /\ Quiet(Closed)
      /\ ~Closed.client /\ ~Closed.server /\ ~Closed.port
  BY EmptySeq DEF Closed, IsSession, Quiet
<1>7. \A s : IsSession(s) =>
        /\ IsSession(ServerGone(s)) /\ Quiet(ServerGone(s))
        /\ ServerGone(s).client = s.client /\ ~ServerGone(s).server /\ ~ServerGone(s).port
  BY EmptySeq DEF Closed, IsSession, Quiet, ServerGone
<1>8. \A x \in Sessions :
        /\ IsSession(S[x]) /\ IsSession(session'[x]) /\ session'[x].client = S[x].client
        /\ session'[x].server <=> S[x].server /\ x \notin gone
        /\ session'[x] = S[x] \/ Quiet(session'[x])
        /\ S[x].client /\ S[x].server /\ x \notin gone => session'[x] = S[x]
        /\ session'[x].server => session'[x] = S[x]
  BY <1>3, <1>6, <1>7 DEF SessionsOK, IsSession
<1>9. SessionsOK(session')
  <2>1. session' = [x \in Sessions |-> session'[x]]
    BY DEF Settle
  <2>2. \A x \in Sessions : Quiet(session'[x]) \/ (session'[x].client /\ session'[x].server)
    <3> SUFFICES ASSUME NEW x \in Sessions, session'[x] = S[x], ~Quiet(S[x])
                 PROVE  session'[x].client /\ session'[x].server
      BY <1>8
    <3> QED
      BY DEF SessionsOK
  <2> QED
    BY <1>8, <2>1, <2>2 DEF SessionsOK
<1>10. ThreadsOK(status', wait_objects')
  BY <1>4
<1>11. ClientsOK(session', client_handles', status', process')
  <2>1. \A x \in Sessions : ~Quiet(session'[x]) => ~Quiet(S[x])
    BY <1>8
  <2> QED
    BY <1>8, <2>1 DEF ClientsOK
<1>12. Accounted(session', status', sent_to')
  <2>1. sent_to' \in [Clients -> Sessions \cup {Port}]
    BY <1>1 DEF Settle, Accounted
  <2> SUFFICES ASSUME NEW t \in Clients, NEW x \in Sessions, status'[t] # "Dead"
               PROVE  Times(session'[x], t) =
                        IF /\ status'[t] = "WaitIPC" /\ sent_to'[t] = x
                           /\ session'[x].client /\ session'[x].server THEN 1 ELSE 0
    BY <2>1 DEF Accounted
  <2>2. x # Port
    BY IpcAssumption
  <2>3. CASE S[x].client /\ S[x].server /\ x \notin gone
    <3>1. sent_to'[t] = x <=> sent[t] = x
      BY <1>5, <2>2, <2>3
    <3> QED
      BY <1>8, <2>3, <3>1 DEF Accounted
  <2>4. CASE ~(S[x].client /\ S[x].server /\ x \notin gone)
    <3>1. sent_to'[t] # x
      BY <1>5, <2>2, <2>4
    <3>2. Quiet(session'[x])
      <4>1. CASE session'[x] = S[x] /\ ~Quiet(S[x])
        BY <1>8, <4>1, <2>4 DEF SessionsOK
      <4> QED
        BY <1>8, <4>1
    <3> QED
      BY <3>1, <3>2, QuietTimes
  <2> QED
    BY <2>3, <2>4
<1>13. PortOK(session', server_handles', pending_sessions', active_sessions')
  <2>1. PICK A, B : A = Ported(S) /\ B = {x \in gone : S[x].port}
    OBVIOUS
  <2>2. Ported(session') = A \ B
    BY <1>2, <1>8, <2>1 DEF Ported
  <2>3. B \subseteq A /\ IsFiniteSet(A) /\ n = Cardinality(A) /\ n <= MaxSessions
    BY <1>2, <2>1 DEF Ported, PortOK
  <2>4. IsFiniteSet(B) /\ A \cap B = B /\ IsFiniteSet(A \ B)
    BY <2>3, FS_Subset
  <2>5. Cardinality(A \ B) = Cardinality(A) - Cardinality(B)
    BY <2>3, <2>4, FS_Difference
  <2>6. Cardinality(A) \in Nat /\ Cardinality(B) \in Nat
    BY <2>3, <2>4, FS_CardinalityType
  <2>7. active_sessions' = Cardinality(A \ B) /\ active_sessions' <= MaxSessions
    BY <1>4, <2>1, <2>3, <2>5, <2>6, IpcAssumption
  <2>8. \A x \in ToSet(Q) : x \in Sessions
    BY ToSetMember, ElementOfSeq DEF PortOK
  <2>9. \A x \in ToSet(Q) : session'[x].server /\ session'[x].port /\ x \notin H
    BY <1>2, <1>8, <2>8 DEF PortOK
  <2>10. \A x \in H : session'[x].server
    BY <1>2, <1>8 DEF PortOK
  <2> QED
    BY <1>4, <2>2, <2>4, <2>7, <2>9, <2>10 DEF PortOK
<1>14. SentIsOpen'
  <2> SUFFICES ASSUME NEW t \in Clients, sent_to'[t] # Port
               PROVE  session'[sent_to'[t]].client /\ session'[sent_to'[t]].server
    BY DEF SentIsOpen, Open
  <2>1. /\ sent_to'[t] = sent[t] /\ sent[t] \in Sessions
        /\ S[sent[t]].client /\ S[sent[t]].server /\ sent[t] \notin gone
    BY <1>5 DEF Accounted
  <2> QED
    BY <1>8, <2>1
<1>15. NoLost(session', wait_objects', pending_sessions')
  <2> SUFFICES ASSUME NEW w \in Servers, NEW o \in W[w]
               PROVE  /\ o = Port \/ (o \in Sessions /\ session'[o].server)
                      /\ \/ ShouldWait(session', Q, o)
                         \/ o # Port /\ session'[o].client /\ \E v \in Servers : o \notin W[v]
    BY <1>4 DEF NoLost
  <2>1. /\ o = Port \/ (o \in Sessions /\ S[o].server)
        /\ \/ ShouldWait(S, Q, o)
           \/ o # Port /\ S[o].client /\ \E v \in Servers : o \notin W[v]
    BY DEF NoLost
  <2>2. CASE o = Port
    BY <2>1, <2>2 DEF ShouldWait
  <2>3. CASE o # Port
    <3>1. o \in Sessions /\ S[o].server /\ o \notin gone
      BY <1>1, <2>1, <2>3 DEF Unreferenced
    <3>2. session'[o] = S[o]
      BY <1>8, <3>1
    <3> QED
      BY <2>1, <2>3, <3>1, <3>2 DEF ShouldWait
  <2> QED
    BY <2>2, <2>3
<1>16. Good(session', wait_objects', server_handles', pending_sessions', active_sessions',
            sent_to', status', client_handles', process')
  BY <1>9, <1>10, <1>11, <1>12, <1>13
<1> QED
  BY <1>14, <1>15, <1>16 DEF IInv

-----------------------------------------------------------------------------
\* What the calls leave for Settle.

\* Nothing is missed when threads wake up.
LEMMA WokenNoLost ==
  ASSUME NEW S, NEW Q, NoLost(S, wait_objects, Q), NEW woken
  PROVE  NoLost(S, WaitsOfOthers(woken), Q)
<1>1. \A w \in Servers : WaitsOfOthers(woken)[w] = IF w \in woken THEN {} ELSE wait_objects[w]
  BY DEF WaitsOfOthers
<1> QED
  BY <1>1 DEF NoLost

\* Nothing is missed when a session changes on which nobody sleeps, or one that
\* is not available afterwards.
LEMMA OtherNoLost ==
  ASSUME NEW S, NEW W, NEW Q, NoLost(S, W, Q), NEW S2, NEW x \in Sessions,
         \A y \in Sessions : y # x => S2[y] = S[y],
         \A w \in Servers : x \in W[w] => S2[x].server /\ ShouldWait(S2, Q, x)
  PROVE  NoLost(S2, W, Q)
<1> SUFFICES ASSUME NEW w \in Servers, NEW o \in W[w]
             PROVE  /\ o = Port \/ (o \in Sessions /\ S2[o].server)
                    /\ \/ ShouldWait(S2, Q, o)
                       \/ o # Port /\ S2[o].client /\ \E v \in Servers : o \notin W[v]
  BY DEF NoLost
<1>1. /\ o = Port \/ (o \in Sessions /\ S[o].server)
      /\ \/ ShouldWait(S, Q, o)
         \/ o # Port /\ S[o].client /\ \E v \in Servers : o \notin W[v]
  BY DEF NoLost
<1>2. CASE o = Port
  BY <1>1, <1>2 DEF ShouldWait
<1>3. CASE o = x
  BY <1>3
<1>4. CASE o # Port /\ o # x
  <2>1. S2[o] = S[o]
    BY <1>1, <1>4
  <2> QED
    BY <1>1, <1>4, <2>1 DEF ShouldWait
<1> QED
  BY <1>2, <1>3, <1>4

\* The threads of the server sleep and wake on their own.
LEMMA WakeGood ==
  ASSUME NEW S, NEW W, NEW H, NEW Q, NEW n, NEW sent, NEW st, NEW CH, NEW pr,
         Good(S, W, H, Q, n, sent, st, CH, pr),
         NEW st2, NEW W2, ThreadsOK(st2, W2), \A t \in Clients : st2[t] = st[t]
  PROVE  Good(S, W2, H, Q, n, sent, st2, CH, pr)
BY DEF Good, ClientsOK, Accounted

\* A woken server thread runs and waits for nothing; the others stay as they are.
LEMMA WokenOK ==
  ASSUME NEW st, ThreadsOK(st, wait_objects), NEW woken, woken \subseteq Servers
  PROVE  /\ ThreadsOK(Woken(st, woken), WaitsOfOthers(woken))
         /\ \A t \in Clients : Woken(st, woken)[t] = st[t]
         /\ \A w \in Servers : /\ Woken(st, woken)[w] = IF w \in woken THEN "Running" ELSE st[w]
                               /\ WaitsOfOthers(woken)[w] = IF w \in woken THEN {}
                                                            ELSE wait_objects[w]
BY IpcAssumption DEF ThreadsOK, Woken, WaitsOfOthers, Statuses

\* A thread that is given a request only moves it within its session.
LEMMA AcquiredGood ==
  ASSUME NEW S, NEW W, NEW H, NEW Q, NEW n, NEW sent, NEW st, NEW CH, NEW pr,
         Good(S, W, H, Q, n, sent, st, CH, pr),
         NEW x \in Sessions, ~ShouldWait(S, Q, x), NEW m, NEW requests
  PROVE  Good(ReceiveIPCRequest(S, m, x, requests).session, W, H, Q, n, sent, st, CH, pr)
<1> USE DEF Good
<1>1. PICK c : ReceiveIPCRequest(S, m, x, requests).session
                 = [S EXCEPT ![x] = [Acquire(S[x]) EXCEPT !.context = c]]
  BY DEF ReceiveIPCRequest
<1>2. PICK a, s, S2 : /\ a = Acquire(S[x]) /\ s = [a EXCEPT !.context = c]
                      /\ S2 = [S EXCEPT ![x] = s]
  OBVIOUS
<1>3. IsSession(S[x]) /\ (S[x].client => S[x].pending # <<>> /\ S[x].handling = NoThread)
  BY IpcAssumption DEF ShouldWait, SessionsOK
<1>4. /\ IsSession(a) /\ a.client = S[x].client /\ a.server = S[x].server /\ a.port = S[x].port
      /\ ~S[x].client => a = S[x]
      /\ \A t \in Clients : Times(a, t) = Times(S[x], t)
  BY <1>2, <1>3, AcquireFacts
<1>5. /\ IsSession(s) /\ s.client = a.client /\ s.server = a.server /\ s.port = a.port
      /\ s.pending = a.pending /\ s.handling = a.handling
  BY <1>2, <1>4, ContextFacts
<1>6. /\ S2 = [y \in Sessions |-> S2[y]] /\ S2[x] = s
      /\ \A y \in Sessions : y # x => S2[y] = S[y]
  BY <1>2 DEF SessionsOK
<1>7. ~Quiet(s) => ~Quiet(S[x])
  BY <1>3, <1>4, <1>5 DEF Quiet
<1>8. \A t \in Clients : Times(s, t) = Times(S[x], t)
  BY <1>4, <1>5 DEF Times
<1>9. \A y \in Sessions :
        /\ IsSession(S2[y]) /\ (~Quiet(S2[y]) => ~Quiet(S[y]))
        /\ S2[y].client = S[y].client /\ S2[y].server = S[y].server /\ S2[y].port = S[y].port
        /\ \A t \in Clients : Times(S2[y], t) = Times(S[y], t)
  BY <1>4, <1>5, <1>6, <1>7, <1>8 DEF SessionsOK
<1>10. SessionsOK(S2)
  BY <1>6, <1>9 DEF SessionsOK
<1>11. ClientsOK(S2, CH, st, pr)
  BY <1>9 DEF ClientsOK
<1>12. Accounted(S2, st, sent)
  BY <1>9 DEF Accounted
<1>13. PortOK(S2, H, Q, n)
  <2>1. Ported(S2) = Ported(S)
    BY <1>9 DEF Ported
  <2>2. \A y \in ToSet(Q) : y \in Sessions
    BY ToSetMember, ElementOfSeq DEF PortOK
  <2> QED
    BY <1>9, <2>1, <2>2 DEF PortOK
<1> QED
  BY <1>1, <1>2, <1>10, <1>11, <1>12, <1>13

\* A session that has just been acquired is not available, if it has a client.
LEMMA AcquiredWaits ==
  ASSUME NEW S, NEW Q, SessionsOK(S), NEW x \in Sessions, ~ShouldWait(S, Q, x),
         NEW m, NEW requests, NEW S2, S2 = ReceiveIPCRequest(S, m, x, requests).session
  PROVE  /\ \A y \in Sessions : y # x => S2[y] = S[y]
         /\ S2[x].server = S[x].server
         /\ S[x].client => ShouldWait(S2, Q, x)
<1>1. PICK c, a : /\ a = Acquire(S[x])
                  /\ S2 = [S EXCEPT ![x] = [a EXCEPT !.context = c]]
  BY DEF ReceiveIPCRequest
<1>2. S2[x] = [a EXCEPT !.context = c] /\ \A y \in Sessions : y # x => S2[y] = S[y]
  BY <1>1 DEF SessionsOK
<1>3. IsSession(S[x]) /\ (S[x].client => S[x].pending # <<>> /\ S[x].handling = NoThread)
  BY IpcAssumption DEF ShouldWait, SessionsOK
<1>4. IsSession(a) /\ a.client = S[x].client /\ a.server = S[x].server
  BY <1>1, <1>3, AcquireFacts
<1>5. S2[x].client = a.client /\ S2[x].server = a.server /\ S2[x].handling = a.handling
  BY <1>2, <1>4, ContextFacts
<1>6. ASSUME S[x].client PROVE ShouldWait(S2, Q, x)
  <2>1. Last(S[x].pending) \in Clients
    BY <1>3, <1>6, FrontLast DEF IsSession
  <2>2. a.handling = Last(S[x].pending)
    BY <1>1, <1>3, <1>6 DEF Acquire, IsSession
  <2>3. a.handling # NoThread
    BY <2>1, <2>2, IpcAssumption
  <2> QED
    BY <1>4, <1>5, <1>6, <2>3, IpcAssumption DEF ShouldWait
<1> QED
  BY <1>2, <1>4, <1>5, <1>6

\* So nothing is missed by acquiring one.
LEMMA AcquiredNoLost ==
  ASSUME NEW S, NEW W, NEW Q, SessionsOK(S), NoLost(S, W, Q),
         NEW x \in Sessions, ~ShouldWait(S, Q, x), NEW m, NEW requests,
         NEW S2, S2 = ReceiveIPCRequest(S, m, x, requests).session
  PROVE  NoLost(S2, W, Q)
<1>1. \A y \in Sessions : y # x => S2[y] = S[y]
  BY AcquiredWaits
<1>2. ASSUME NEW w \in Servers, x \in W[w]
      PROVE  S2[x].server /\ ShouldWait(S2, Q, x)
  <2>1. S[x].server /\ S[x].client
    BY <1>2, IpcAssumption DEF NoLost, ShouldWait
  <2> QED
    BY <2>1, AcquiredWaits
<1> QED
  BY <1>1, <1>2, OtherNoLost

-----------------------------------------------------------------------------
\* Connecting.

\* Nobody listens to a session that does not exist.
LEMMA NewNoLost ==
  ASSUME IInv, NEW x \in Sessions, ~session[x].server, NEW s
  PROVE  /\ NoLost([session EXCEPT ![x] = s], wait_objects, pending_sessions)
         /\ \A w \in Servers : x \notin wait_objects[w]
<1>1. \A w \in Servers : x \notin wait_objects[w]
  BY IpcAssumption DEF IInv, NoLost
<1>2. \A y \in Sessions : y # x => [session EXCEPT ![x] = s][y] = session[y]
  BY DEF IInv, Good, SessionsOK
<1>3. NoLost(session, wait_objects, pending_sessions)
  BY DEF IInv
<1> QED
  BY <1>1, <1>2, <1>3, OtherNoLost

\* A new pair of ends has no requests, and no list knows it.
LEMMA NewPair ==
  ASSUME IInv, NEW x \in Sessions, Unused(x), NEW s, IsSession(s), Quiet(s), s.server,
         NEW h \in {{}, {"client"}, {"server"}}, h # {} => s.client,
         h = {"client"} => process = "Running"
  PROVE  /\ SessionsOK([session EXCEPT ![x] = s])
         /\ Accounted([session EXCEPT ![x] = s], status, sent_to)
         /\ ClientsOK([session EXCEPT ![x] = s], [client_handles EXCEPT ![x] = h], status, process)
         /\ ~session[x].server /\ x \notin server_handles /\ x \notin ToSet(pending_sessions)
<1> USE DEF IInv, Good
<1>1. PICK S : S = [session EXCEPT ![x] = s]
  OBVIOUS
<1>3. /\ S = [y \in Sessions |-> S[y]] /\ S[x] = s
      /\ \A y \in Sessions : y # x => S[y] = session[y]
  BY <1>1 DEF SessionsOK
<1>4. ~session[x].server /\ ~session[x].client
  BY DEF Unused, Closed
<1>5. x \notin server_handles /\ x \notin ToSet(pending_sessions)
  BY <1>4 DEF PortOK
<1>6. SessionsOK(S)
  BY <1>3 DEF SessionsOK
<1>7. \A t \in Clients : sent_to[t] # x
  BY <1>4, IpcAssumption DEF SentIsOpen, Open
<1>8. Accounted(S, status, sent_to)
  <2>1. \A t \in Clients : Times(S[x], t) = 0
    BY <1>3, QuietTimes
  <2> QED
    BY <1>3, <1>7, <2>1 DEF Accounted
<1>9. ClientsOK(S, [client_handles EXCEPT ![x] = h], status, process)
  <2>1. PICK CH : CH = [client_handles EXCEPT ![x] = h]
    OBVIOUS
  <2>2. /\ CH \in [Sessions -> {{}, {"client"}, {"server"}}] /\ CH[x] = h
        /\ \A y \in Sessions : y # x => CH[y] = client_handles[y]
    BY <2>1 DEF ClientsOK
  <2>3. \A y \in Sessions : /\ CH[y] # {} => S[y].client
                            /\ ~Quiet(S[y]) => CH[y] = {"client"}
    BY <1>3, <2>2 DEF ClientsOK
  <2>4. process = "Destroyed" => \A y \in Sessions : CH[y] # {"client"}
    BY <2>2 DEF ClientsOK
  <2> QED
    BY <2>1, <2>2, <2>3, <2>4 DEF ClientsOK
<1> QED
  BY <1>1, <1>3, <1>4, <1>5, <1>6, <1>8, <1>9

\* Connect keeps the invariant.
LEMMA ConnectInv ==
  ASSUME IInv, NEW t \in Clients, NEW x \in Sessions, NEW room \in BOOLEAN, Connect(t, x, room)
  PROVE  IInv'
<1> USE DEF IInv, Good
<1>1. PICK S, W, Q, woken, n :
        /\ S = [session EXCEPT ![x] = IF room THEN CreateSessionPair(TRUE)
                                      ELSE ClientGone(CreateSessionPair(TRUE))]
        /\ woken = WaitersOf(Port) /\ W = WaitsOfOthers(woken)
        /\ Q = Append(pending_sessions, x) /\ n = active_sessions + 1
  OBVIOUS
<1>2. /\ Settle(S, W, server_handles, Q, n, sent_to)
      /\ status' = Woken(status, woken) /\ process' = process
      /\ client_handles' = [client_handles EXCEPT ![x] = IF room THEN {"client"} ELSE {}]
      /\ Unused(x) /\ active_sessions < MaxSessions /\ status[t] = "Running"
  BY <1>1 DEF Connect, CanCall
<1>3. process = "Running"
  BY <1>2 DEF ClientsOK
<1>4. /\ SessionsOK(S) /\ Accounted(S, status, sent_to)
      /\ ClientsOK(S, client_handles', status, process)
      /\ S[x].server /\ S[x].port
      /\ \A y \in Sessions : y # x => S[y] = session[y]
      /\ ~session[x].server /\ x \notin server_handles /\ x \notin ToSet(pending_sessions)
  <2>1. PICK h, s : /\ h = IF room THEN {"client"} ELSE {}
                    /\ s = IF room THEN CreateSessionPair(TRUE) ELSE ClientGone(CreateSessionPair(TRUE))
    OBVIOUS
  <2>2. IsSession(s) /\ Quiet(s) /\ s.server /\ s.port = TRUE /\ (room => s.client)
    BY <2>1, PairFacts, ClientGoneFacts
  <2>3. h \in {{}, {"client"}, {"server"}} /\ (h # {} => s.client)
    BY <2>1, <2>2
  <2>4. S = [session EXCEPT ![x] = s] /\ client_handles' = [client_handles EXCEPT ![x] = h]
    BY <1>1, <1>2, <2>1
  <2>5. IInv /\ Unused(x)
    BY <1>2
  <2>6. h = {"client"} => process = "Running"
    BY <1>3
  <2>7. S[x] = s /\ \A y \in Sessions : y # x => S[y] = session[y]
    BY <2>4 DEF SessionsOK
  <2> HIDE DEF IInv, Good
  <2>10. SessionsOK(S)
    BY <2>2, <2>3, <2>4, <2>5, <2>6, NewPair
  <2>8. Accounted(S, status, sent_to)
    BY <2>2, <2>3, <2>4, <2>5, <2>6, NewPair
  <2>9. ClientsOK(S, client_handles', status, process)
    BY <2>2, <2>3, <2>4, <2>5, <2>6, NewPair
  <2>11. ~session[x].server /\ x \notin server_handles /\ x \notin ToSet(pending_sessions)
    BY <2>2, <2>3, <2>5, <2>6, NewPair
  <2> QED
    BY <2>2, <2>7, <2>8, <2>9, <2>10, <2>11
<1>5. /\ ThreadsOK(status', W) /\ \A u \in Clients : status'[u] = status[u]
      /\ \A w \in Servers : /\ status'[w] = IF w \in woken THEN "Running" ELSE status[w]
                            /\ W[w] = IF w \in woken THEN {} ELSE wait_objects[w]
  BY <1>1, <1>2, WokenOK DEF WaitersOf
<1>6. PortOK(S, server_handles, Q, n)
  <2>1. /\ Q \in Seq(Sessions) /\ NoDuplicates(Q) /\ ToSet(Q) = ToSet(pending_sessions) \cup {x}
    BY <1>1, <1>4, AppendFacts DEF PortOK
  <2>2. Ported(S) = Ported(session) \cup {x} /\ x \notin Ported(session)
    BY <1>4 DEF Ported
  <2>3. /\ IsFiniteSet(Ported(S)) /\ Cardinality(Ported(S)) = Cardinality(Ported(session)) + 1
    BY <2>2, FS_AddElement DEF PortOK
  <2>4. n <= MaxSessions
    <3>1. active_sessions \in Nat
      BY FS_CardinalityType DEF PortOK
    <3> QED
      BY <1>1, <1>2, <3>1, IpcAssumption
  <2>5. \A y \in ToSet(pending_sessions) : y \in Sessions
    BY ToSetMember, ElementOfSeq DEF PortOK
  <2>6. \A y \in ToSet(Q) : S[y].server /\ S[y].port /\ y \notin server_handles
    BY <1>4, <2>1, <2>5 DEF PortOK
  <2> QED
    BY <1>1, <1>4, <2>1, <2>3, <2>4, <2>6 DEF PortOK
<1>7. NoLost(S, W, Q)
  <2>1. NoLost(S, wait_objects, pending_sessions)
    <3>1. PICK s : S = [session EXCEPT ![x] = s]
      BY <1>1
    <3> HIDE DEF IInv, Good
    <3> QED
      BY <1>4, <3>1, NewNoLost
  <2>2. NoLost(S, W, pending_sessions)
    BY <1>1, <2>1, WokenNoLost
  <2>3. \A w \in Servers : Port \notin W[w]
    BY <1>1, <1>5 DEF WaitersOf
  <2> QED
    BY <2>2, <2>3 DEF NoLost, ShouldWait
<1>8. ClientsOK(S, client_handles', status', process') /\ Accounted(S, status', sent_to)
  BY <1>2, <1>4, <1>5 DEF ClientsOK, Accounted
<1>9. Good(S, W, server_handles, Q, n, sent_to, status', client_handles', process')
  BY <1>4, <1>5, <1>6, <1>8
<1> QED
  BY <1>2, <1>7, <1>9, SettleInv

\* AcceptSession keeps the invariant.
LEMMA AcceptSessionInv ==
  ASSUME IInv, NEW t \in Servers, NEW room \in BOOLEAN, AcceptSession(t, room)
  PROVE  IInv'
<1> USE DEF IInv, Good
<1>1. PICK x, H, Q : /\ x = Last(pending_sessions) /\ Q = Front(pending_sessions)
                     /\ H = IF room THEN server_handles \cup {x} ELSE server_handles
  OBVIOUS
<1>2. /\ Settle(session, wait_objects, H, Q, active_sessions, sent_to)
      /\ status' = status /\ client_handles' = client_handles /\ process' = process
      /\ status[t] = "Running" /\ pending_sessions # <<>>
  BY <1>1 DEF AcceptSession, CanCall
<1>3. /\ Q \in Seq(Sessions) /\ x \in Sessions /\ ToSet(pending_sessions) = ToSet(Q) \cup {x}
      /\ NoDuplicates(Q) /\ x \notin ToSet(Q)
  BY <1>1, <1>2, FrontLast DEF PortOK
<1>4. PortOK(session, H, Q, active_sessions)
  BY <1>1, <1>3 DEF PortOK
<1>5. NoLost(session, wait_objects, Q)
  <2>1. NoLost(session, wait_objects, pending_sessions)
    OBVIOUS
  <2>2. \A w \in Servers : Port \notin wait_objects[w]
    BY <1>2, <2>1 DEF NoLost, ShouldWait
  <2> QED
    BY <2>1, <2>2 DEF NoLost, ShouldWait
<1> QED
  BY <1>2, <1>4, <1>5, SettleInv

\* CreateSession keeps the invariant.
LEMMA CreateSessionInv ==
  ASSUME IInv, NEW t \in Servers, NEW x \in Sessions, NEW room \in BOOLEAN,
         CreateSession(t, x, room)
  PROVE  IInv'
<1> USE DEF IInv, Good
<1>1. PICK S : S = [session EXCEPT ![x] = IF room THEN CreateSessionPair(FALSE)
                                          ELSE ClientGone(CreateSessionPair(FALSE))]
  OBVIOUS
<1>2. /\ Settle(S, wait_objects, server_handles \cup {x}, pending_sessions, active_sessions,
                sent_to)
      /\ status' = status /\ process' = process
      /\ client_handles' = [client_handles EXCEPT ![x] = IF room THEN {"server"} ELSE {}]
      /\ Unused(x) /\ status[t] = "Running"
  BY <1>1 DEF CreateSession, CanCall
<1>3. /\ SessionsOK(S) /\ Accounted(S, status, sent_to)
      /\ ClientsOK(S, client_handles', status, process)
      /\ S[x].server /\ ~S[x].port
      /\ \A y \in Sessions : y # x => S[y] = session[y]
      /\ ~session[x].server /\ x \notin server_handles /\ x \notin ToSet(pending_sessions)
  <2>1. PICK h, s : /\ h = IF room THEN {"server"} ELSE {}
                    /\ s = IF room THEN CreateSessionPair(FALSE) ELSE ClientGone(CreateSessionPair(FALSE))
    OBVIOUS
  <2>2. IsSession(s) /\ Quiet(s) /\ s.server /\ s.port = FALSE /\ (room => s.client)
    BY <2>1, PairFacts, ClientGoneFacts
  <2>3. h \in {{}, {"client"}, {"server"}} /\ (h # {} => s.client) /\ h # {"client"}
    BY <2>1, <2>2
  <2>4. S = [session EXCEPT ![x] = s] /\ client_handles' = [client_handles EXCEPT ![x] = h]
    BY <1>1, <1>2, <2>1
  <2>5. IInv /\ Unused(x)
    BY <1>2
  <2>6. h = {"client"} => process = "Running"
    BY <2>3
  <2>7. S[x] = s /\ \A y \in Sessions : y # x => S[y] = session[y]
    BY <2>4 DEF SessionsOK
  <2> HIDE DEF IInv, Good
  <2>10. SessionsOK(S)
    BY <2>2, <2>3, <2>4, <2>5, <2>6, NewPair
  <2>8. Accounted(S, status, sent_to)
    BY <2>2, <2>3, <2>4, <2>5, <2>6, NewPair
  <2>9. ClientsOK(S, client_handles', status, process)
    BY <2>2, <2>3, <2>4, <2>5, <2>6, NewPair
  <2>11. ~session[x].server /\ x \notin server_handles /\ x \notin ToSet(pending_sessions)
    BY <2>2, <2>3, <2>5, <2>6, NewPair
  <2> QED
    BY <2>2, <2>7, <2>8, <2>9, <2>10, <2>11
<1>4. PortOK(S, server_handles \cup {x}, pending_sessions, active_sessions)
  <2>1. Ported(S) = Ported(session)
    BY <1>3 DEF Ported
  <2>2. \A y \in ToSet(pending_sessions) : y \in Sessions
    BY ToSetMember, ElementOfSeq DEF PortOK
  <2> QED
    BY <1>3, <2>1, <2>2 DEF PortOK
<1>5. NoLost(S, wait_objects, pending_sessions)
  <2>1. PICK s : S = [session EXCEPT ![x] = s]
    BY <1>1
  <2> HIDE DEF IInv, Good
  <2> QED
    BY <1>3, <2>1, NewNoLost
<1>6. Good(S, wait_objects, server_handles \cup {x}, pending_sessions, active_sessions, sent_to,
           status', client_handles', process')
  BY <1>2, <1>3, <1>4
<1> QED
  BY <1>2, <1>5, <1>6, SettleInv
-----------------------------------------------------------------------------
\* Requests.

\* A client that was awake now waits, with its request among the pending ones.
LEMMA SentGood ==
  ASSUME IInv, NEW t \in Clients, NEW x \in Sessions, status[t] = "Running",
         "client" \in client_handles[x], session[x].server
  PROVE  Good([session EXCEPT ![x].pending = Append(@, t)], wait_objects, server_handles,
              pending_sessions, active_sessions, [sent_to EXCEPT ![t] = x],
              [status EXCEPT ![t] = "WaitIPC"], client_handles, process)
<1> USE DEF IInv, Good
<1>1. PICK S, s, st, sent : /\ s = [session[x] EXCEPT !.pending = Append(@, t)]
                            /\ S = [session EXCEPT ![x] = s]
                            /\ st = [status EXCEPT ![t] = "WaitIPC"]
                            /\ sent = [sent_to EXCEPT ![t] = x]
  OBVIOUS
<1>2. S = [session EXCEPT ![x].pending = Append(@, t)]
  BY <1>1
<1>3. client_handles[x] = {"client"} /\ session[x].client /\ process = "Running"
  BY DEF ClientsOK
<1>4. IsSession(session[x]) /\ session[x].pending \in Seq(Clients)
  BY DEF SessionsOK, IsSession
<1>5. Append(session[x].pending, t) \in Seq(Clients)
  BY <1>4, AppendProperties
<1>6. /\ s.client = session[x].client /\ s.server = session[x].server /\ s.port = session[x].port
      /\ s.pending = Append(session[x].pending, t) /\ s.handling = session[x].handling
      /\ IsSession(s)
  BY <1>1, <1>4, <1>5 DEF IsSession
<1>7. /\ S = [y \in Sessions |-> S[y]] /\ S[x] = s
      /\ \A y \in Sessions : y # x => S[y] = session[y]
  BY <1>1 DEF SessionsOK
<1>8. /\ st \in [Clients \cup Servers -> Statuses] /\ st[t] = "WaitIPC"
      /\ \A u \in Clients \cup Servers : u # t => st[u] = status[u]
      /\ t \notin Servers
  BY <1>1, IpcAssumption DEF ThreadsOK, Statuses
<1>9. /\ sent \in [Clients -> Sessions \cup {Port}] /\ sent[t] = x
      /\ \A u \in Clients : u # t => sent[u] = sent_to[u]
  BY <1>1 DEF Accounted
<1>10. SessionsOK(S)
  BY <1>3, <1>6, <1>7 DEF SessionsOK
<1>11. ThreadsOK(st, wait_objects)
  BY <1>8 DEF ThreadsOK
<1>12. ClientsOK(S, client_handles, st, process)
  BY <1>3, <1>6, <1>7 DEF ClientsOK
<1>13. Accounted(S, st, sent)
  <2>1. \A y \in Sessions : Times(session[y], t) = 0
    BY DEF Accounted
  <2>2. \A u \in Clients : Times(s, u) = Times(session[x], u) + IF u = t THEN 1 ELSE 0
    <3> TAKE u \in Clients
    <3>1. Count(s.pending, u) = Count(session[x].pending, u) + IF t = u THEN 1 ELSE 0
      BY <1>4, <1>6, CountAppend
    <3>2. Count(session[x].pending, u) \in Nat
      BY <1>4, CountType
    <3> QED
      BY <1>6, <3>1, <3>2 DEF Times
  <2> SUFFICES ASSUME NEW u \in Clients, NEW y \in Sessions, st[u] # "Dead"
               PROVE  Times(S[y], u) = IF /\ st[u] = "WaitIPC" /\ sent[u] = y
                                          /\ S[y].client /\ S[y].server THEN 1 ELSE 0
    BY <1>9 DEF Accounted
  <2>3. CASE u = t
    <3>1. CASE y = x
      <4>1. Times(S[y], u) = 1
        BY <1>7, <2>1, <2>2, <2>3, <3>1
      <4>2. S[y].client /\ S[y].server
        BY <1>3, <1>6, <1>7, <3>1
      <4> QED
        BY <1>8, <1>9, <2>3, <3>1, <4>1, <4>2
    <3>2. CASE y # x
      BY <1>7, <1>9, <2>1, <2>3, <3>2
    <3> QED
      BY <3>1, <3>2
  <2>4. CASE u # t
    <3>1. Times(session[y], u) = IF /\ status[u] = "WaitIPC" /\ sent_to[u] = y
                                    /\ session[y].client /\ session[y].server THEN 1 ELSE 0
      BY <1>8, <2>4 DEF Accounted
    <3>2. Times(S[y], u) = Times(session[y], u)
      BY <1>7, <2>2, <2>4, <3>1
    <3> QED
      BY <1>6, <1>7, <1>8, <1>9, <2>4, <3>1, <3>2
  <2> QED
    BY <2>3, <2>4
<1>14. PortOK(S, server_handles, pending_sessions, active_sessions)
  <2>1. Ported(S) = Ported(session)
    BY <1>6, <1>7 DEF Ported
  <2>2. \A y \in ToSet(pending_sessions) : y \in Sessions
    BY ToSetMember, ElementOfSeq DEF PortOK
  <2> QED
    BY <1>6, <1>7, <2>1, <2>2 DEF PortOK
<1> QED
  BY <1>1, <1>2, <1>10, <1>11, <1>12, <1>13, <1>14

\* SendSyncRequest keeps the invariant.
LEMMA SendSyncRequestInv ==
  ASSUME IInv, NEW t \in Clients, NEW x \in Sessions, NEW pages, SendSyncRequest(t, x, pages)
  PROVE  IInv'
<1>1. PICK S, st, sent, bu, m : /\ S = [session EXCEPT ![x].pending = Append(@, t)]
                                /\ st = [status EXCEPT ![t] = "WaitIPC"]
                                /\ sent = [sent_to EXCEPT ![t] = x]
                                /\ bu = buffers' /\ m = vma_map
  OBVIOUS
<1>2. /\ status[t] = "Running" /\ "client" \in client_handles[x] /\ session[x].server
      /\ client_handles' = client_handles /\ process' = process
  BY DEF SendSyncRequest, CanCall
<1>3. Good(S, wait_objects, server_handles, pending_sessions, active_sessions, sent, st,
           client_handles, process)
  BY <1>1, <1>2, SentGood
<1>6. /\ S[x].server /\ \A y \in Sessions : y # x => S[y] = session[y]
      /\ NoLost(session, wait_objects, pending_sessions)
  BY <1>1, <1>2 DEF IInv, Good, SessionsOK, IsSession
<1>7. ASSUME ~ShouldWait(S, pending_sessions, x)
      PROVE  NoLost(ReceiveIPCRequest(S, m, x, bu).session, wait_objects, pending_sessions)
  <2>1. PICK S2 : S2 = ReceiveIPCRequest(S, m, x, bu).session
    OBVIOUS
  <2>2. SessionsOK(S) /\ S[x].client
    <3>1. client_handles[x] # {}
      BY <1>2
    <3> QED
      BY <1>3, <3>1 DEF Good, ClientsOK
  <2>3. /\ \A y \in Sessions : y # x => S2[y] = S[y]
        /\ S2[x].server = S[x].server /\ ShouldWait(S2, pending_sessions, x)
    BY <1>7, <2>1, <2>2, AcquiredWaits
  <2>4. NoLost(S2, wait_objects, pending_sessions)
    BY <1>6, <2>3, OtherNoLost
  <2> QED
    BY <2>1, <2>4
<1>4. CASE /\ WaitersOf(x) = {} \/ ShouldWait(S, pending_sessions, x)
           /\ status' = st
           /\ Settle(S, wait_objects, server_handles, pending_sessions, active_sessions, sent)
  <2>1. NoLost(S, wait_objects, pending_sessions)
    <3>1. \A w \in Servers : x \in wait_objects[w] => ShouldWait(S, pending_sessions, x)
      BY <1>4 DEF WaitersOf
    <3> QED
      BY <1>6, <3>1, OtherNoLost
  <2>2. Good(S, wait_objects, server_handles, pending_sessions, active_sessions, sent, status',
             client_handles', process')
    BY <1>2, <1>3, <1>4
  <2> QED
    BY <1>4, <2>1, <2>2, SettleInv
<1>5. ASSUME ~ShouldWait(S, pending_sessions, x), NEW w \in WaitersOf(x),
             status' = Woken(st, {w}),
             Settle(ReceiveIPCRequest(S, m, x, bu).session, WaitsOfOthers({w}), server_handles,
                    pending_sessions, active_sessions, sent)
      PROVE  IInv'
  <2>1. PICK S2, W2 : /\ S2 = ReceiveIPCRequest(S, m, x, bu).session
                      /\ W2 = WaitsOfOthers({w})
    OBVIOUS
  <2>2. w \in Servers /\ {w} \subseteq Servers
    BY <1>5 DEF WaitersOf
  <2>3. Good(S2, wait_objects, server_handles, pending_sessions, active_sessions, sent, st,
             client_handles, process)
    BY <1>3, <1>5, <2>1, AcquiredGood
  <2>4. /\ ThreadsOK(status', W2) /\ \A u \in Clients : status'[u] = st[u]
        /\ status'[w] = "Running"
    BY <1>3, <1>5, <2>1, <2>2, WokenOK DEF Good
  <2>5. Good(S2, W2, server_handles, pending_sessions, active_sessions, sent, status',
             client_handles', process')
    BY <1>2, <2>3, <2>4, WakeGood
  <2>6. NoLost(S2, W2, pending_sessions)
    BY <1>5, <1>7, <2>1, WokenNoLost
  <2> QED
    BY <1>5, <2>1, <2>5, <2>6, SettleInv
<1> QED
  BY <1>1, <1>4, <1>5 DEF SendSyncRequest

\* The second half of svcReplyAndReceive, from a good state.
LEMMA ReceiveInv ==
  ASSUME NEW S, NEW st, NEW m, NEW w \in Servers, NEW objects \in Lists,
         Good(S, wait_objects, server_handles, pending_sessions, active_sessions, sent_to, st,
              client_handles', process'),
         NoLost(S, wait_objects, pending_sessions),
         st[w] = "Running", Receive(w, S, st, m, objects)
  PROVE  IInv'
<1>1. objects \subseteq {Port} \cup server_handles /\ server_handles \subseteq Sessions
  BY DEF Lists, Good, PortOK
<1>2. ASSUME NEW o \in objects, ~ShouldWait(S, pending_sessions, o), status' = st,
             Settle((IF o = Port THEN [session |-> S, map |-> m, ok |-> TRUE]
                     ELSE ReceiveIPCRequest(S, m, o, buffers)).session,
                    wait_objects, server_handles, pending_sessions, active_sessions, sent_to)
      PROVE  IInv'
  <2>1. PICK S2 : S2 = (IF o = Port THEN [session |-> S, map |-> m, ok |-> TRUE]
                        ELSE ReceiveIPCRequest(S, m, o, buffers)).session
    OBVIOUS
  <2>2. Good(S2, wait_objects, server_handles, pending_sessions, active_sessions, sent_to, st,
             client_handles', process')
    <3>1. CASE o = Port
      BY <2>1, <3>1
    <3>2. CASE o # Port
      <4>1. o \in Sessions /\ S2 = ReceiveIPCRequest(S, m, o, buffers).session
        BY <1>1, <1>2, <2>1, <3>2
      <4> QED
        BY <1>2, <4>1, AcquiredGood
    <3> QED
      BY <3>1, <3>2
  <2>3. NoLost(S2, wait_objects, pending_sessions)
    <3>1. CASE o = Port
      BY <2>1, <3>1
    <3>2. CASE o # Port
      <4>1. o \in Sessions /\ S2 = ReceiveIPCRequest(S, m, o, buffers).session
        BY <1>1, <1>2, <2>1, <3>2
      <4>2. SessionsOK(S)
        BY DEF Good
      <4> QED
        BY <1>2, <4>1, <4>2, AcquiredNoLost
    <3> QED
      BY <3>1, <3>2
  <2> QED
    BY <1>2, <2>1, <2>2, <2>3, SettleInv
<1>3. ASSUME \A o \in objects : ShouldWait(S, pending_sessions, o),
             status' = IF objects = {} THEN st ELSE [st EXCEPT ![w] = "WaitSynchAny"],
             Settle(S, [wait_objects EXCEPT ![w] = objects], server_handles,
                    pending_sessions, active_sessions, sent_to)
      PROVE  IInv'
  <2>1. PICK W : W = [wait_objects EXCEPT ![w] = objects]
    OBVIOUS
  <2>2. ThreadsOK(st, wait_objects)
    BY DEF Good
  <2>3. ThreadsOK(status', W) /\ \A t \in Clients : status'[t] = st[t]
    <3>1. CASE objects = {}
      BY <1>3, <2>1, <2>2, <3>1 DEF ThreadsOK
    <3>2. CASE objects # {}
      BY <1>3, <2>1, <2>2, <3>2, IpcAssumption DEF ThreadsOK, Statuses
    <3> QED
      BY <3>1, <3>2
  <2>4. Good(S, W, server_handles, pending_sessions, active_sessions, sent_to, status',
             client_handles', process')
    BY <2>3, WakeGood
  <2>5. NoLost(S, W, pending_sessions)
    <3>1. \A v \in Servers : W[v] = IF v = w THEN objects ELSE wait_objects[v]
      BY <2>1, <2>2 DEF ThreadsOK
    <3> SUFFICES ASSUME NEW v \in Servers, NEW o \in W[v]
                 PROVE  /\ o = Port \/ (o \in Sessions /\ S[o].server)
                        /\ \/ ShouldWait(S, pending_sessions, o)
                           \/ o # Port /\ S[o].client /\ \E u \in Servers : o \notin W[u]
      BY DEF NoLost
    <3>2. CASE o \in objects
      BY <1>1, <1>3, <3>2 DEF Good, PortOK
    <3>3. CASE o \notin objects
      <4>1. o \in wait_objects[v] /\ o \notin W[w]
        BY <3>1, <3>3
      <4> QED
        BY <4>1 DEF NoLost
    <3> QED
      BY <3>2, <3>3
  <2> QED
    BY <1>3, <2>1, <2>4, <2>5, SettleInv
<1> QED
  BY <1>2, <1>3 DEF Receive

\* ReceiveOnly keeps the invariant.
LEMMA ReceiveOnlyInv ==
  ASSUME IInv, NEW w \in Servers, NEW objects \in Lists, ReceiveOnly(w, objects)
  PROVE  IInv'
<1>1. /\ status[w] = "Running" /\ Receive(w, session, status, vma_map, objects)
      /\ client_handles' = client_handles /\ process' = process
  BY DEF ReceiveOnly, CanCall
<1> QED
  BY <1>1, ReceiveInv DEF IInv

\* The request that is answered leaves its session, and its thread wakes; no
\* other session has a request of that thread.
LEMMA AnsweredGood ==
  ASSUME IInv, NEW w \in Servers, NEW x \in Sessions, NEW t, t = session[x].handling,
         t # NoThread, NEW returned, status[w] = "Running",
         NEW moved \in {{}} \cup {{y} : y \in {z \in Sessions : client_handles[z] = {"server"}}}
  PROVE  /\ Good([session EXCEPT ![x] = Answered(@, returned)], wait_objects, server_handles,
                 pending_sessions, active_sessions, sent_to, Resumed(status, t),
                 [y \in Sessions |-> IF y \in moved THEN {"client"} ELSE client_handles[y]],
                 process)
         /\ NoLost([session EXCEPT ![x] = Answered(@, returned)], wait_objects, pending_sessions)
         /\ Resumed(status, t)[w] = status[w]
<1> USE DEF IInv, Good
<1>1. PICK S, s, st, CH : /\ s = Answered(session[x], returned) /\ S = [session EXCEPT ![x] = s]
                          /\ st = Resumed(status, t)
                          /\ CH = [y \in Sessions |-> IF y \in moved THEN {"client"}
                                                      ELSE client_handles[y]]
  OBVIOUS
<1>2. /\ IsSession(session[x]) /\ ~Quiet(session[x]) /\ session[x].client /\ session[x].server
      /\ session[x].pending \in Seq(Clients) /\ t \in Clients
  BY DEF SessionsOK, IsSession, Quiet
<1>3. /\ s.client = session[x].client /\ s.server = session[x].server /\ s.port = session[x].port
      /\ s.pending = session[x].pending /\ s.handling = NoThread /\ IsSession(s)
  <2>1. /\ session[x] = [client |-> session[x].client, server |-> session[x].server,
                         port |-> session[x].port, pending |-> session[x].pending,
                         handling |-> session[x].handling, context |-> session[x].context]
        /\ s = [session[x] EXCEPT !.handling = NoThread,
                                  !.context = KeptBuffers(session[x].context, returned)]
    BY <1>1, <1>2 DEF Answered, IsSession
  <2>2. /\ s.client = session[x].client /\ s.server = session[x].server /\ s.port = session[x].port
        /\ s.pending = session[x].pending /\ s.handling = NoThread
    BY <2>1
  <2>3. s = [client |-> s.client, server |-> s.server, port |-> s.port, pending |-> s.pending,
             handling |-> s.handling, context |-> s.context]
    BY <2>1
  <2> QED
    BY <1>2, <2>2, <2>3 DEF IsSession
<1>4. /\ S = [y \in Sessions |-> S[y]] /\ S[x] = s
      /\ \A y \in Sessions : y # x => S[y] = session[y]
  BY <1>1 DEF SessionsOK
<1>5. t \notin Servers
  BY <1>2, IpcAssumption
<1>6. /\ st \in [Clients \cup Servers -> Statuses]
      /\ \A u \in Clients \cup Servers : u # t => st[u] = status[u]
      /\ status[t] # "Dead" => st[t] = "Running"
      /\ status[t] = "Dead" => st[t] = "Dead"
  BY <1>1, <1>2 DEF Resumed, ThreadsOK, Statuses
<1>7. SessionsOK(S)
  BY <1>2, <1>3, <1>4 DEF SessionsOK
<1>8. ThreadsOK(st, wait_objects)
  BY <1>5, <1>6 DEF ThreadsOK
<1>9. client_handles[x] = {"client"} /\ process # "Destroyed"
  BY <1>2 DEF ClientsOK
<1>10. ClientsOK(S, CH, st, process)
  <2>1. CH \in [Sessions -> {{}, {"client"}, {"server"}}]
    BY <1>1 DEF ClientsOK
  <2>2. \A y \in Sessions : y \in moved => client_handles[y] # {}
    OBVIOUS
  <2>3. \A y \in Sessions : ~Quiet(S[y]) => ~Quiet(session[y])
    BY <1>2, <1>4
  <2>4. \A y \in Sessions : /\ CH[y] # {} => S[y].client
                            /\ ~Quiet(S[y]) => CH[y] = {"client"}
    BY <1>1, <1>3, <1>4, <2>2, <2>3 DEF ClientsOK
  <2>5. process # "Running" => \A u \in Clients : st[u] = "Dead"
    BY <1>2, <1>6 DEF ClientsOK
  <2> QED
    BY <1>9, <2>1, <2>4, <2>5 DEF ClientsOK
<1>11. Accounted(S, st, sent_to)
  <2>1. \A u \in Clients : Times(session[x], u) = Times(s, u) + IF u = t THEN 1 ELSE 0
    <3> TAKE u \in Clients
    <3>1. Count(session[x].pending, u) \in Nat /\ u # NoThread
      BY <1>2, CountType, IpcAssumption
    <3> QED
      BY <1>3, <3>1 DEF Times
  <2>2. \A u \in Clients : Times(s, u) \in Nat
    <3> TAKE u \in Clients
    <3>1. Count(s.pending, u) \in Nat
      BY <1>2, <1>3, CountType
    <3> QED
      BY <3>1 DEF Times
  <2> SUFFICES ASSUME NEW u \in Clients, NEW y \in Sessions, st[u] # "Dead"
               PROVE  Times(S[y], u) = IF /\ st[u] = "WaitIPC" /\ sent_to[u] = y
                                          /\ S[y].client /\ S[y].server THEN 1 ELSE 0
    BY DEF Accounted
  <2>3. status[u] # "Dead"
    BY <1>6
  <2>4. Times(session[y], u) = IF /\ status[u] = "WaitIPC" /\ sent_to[u] = y
                                  /\ session[y].client /\ session[y].server THEN 1 ELSE 0
    BY <2>3 DEF Accounted
  <2>5. CASE u = t
    <3>1. Times(session[x], u) = IF /\ status[u] = "WaitIPC" /\ sent_to[u] = x
                                    /\ session[x].client /\ session[x].server THEN 1 ELSE 0
      BY <2>3 DEF Accounted
    <3>2. sent_to[u] = x /\ Times(s, u) = 0
      BY <2>1, <2>2, <2>5, <3>1
    <3>3. Times(S[y], u) = 0
      BY <1>4, <2>4, <3>2
    <3> QED
      BY <1>6, <2>3, <2>5, <3>3
  <2>6. CASE u # t
    <3>1. Times(S[y], u) = Times(session[y], u)
      BY <1>4, <2>1, <2>2, <2>6
    <3>2. st[u] = status[u] /\ S[y].client = session[y].client /\ S[y].server = session[y].server
      BY <1>3, <1>4, <1>6, <2>6
    <3> QED
      BY <2>4, <3>1, <3>2
  <2> QED
    BY <2>5, <2>6
<1>12. PortOK(S, server_handles, pending_sessions, active_sessions)
  <2>1. Ported(S) = Ported(session)
    BY <1>3, <1>4 DEF Ported
  <2>2. \A y \in ToSet(pending_sessions) : y \in Sessions
    BY ToSetMember, ElementOfSeq DEF PortOK
  <2> QED
    BY <1>3, <1>4, <2>1, <2>2 DEF PortOK
<1>13. S = [session EXCEPT ![x] = Answered(@, returned)]
  BY <1>1
<1>14. Good(S, wait_objects, server_handles, pending_sessions, active_sessions, sent_to, st, CH,
            process)
  BY <1>7, <1>8, <1>10, <1>11, <1>12
<1>15. st[w] = status[w]
  BY <1>5, <1>6
<1>16. NoLost(S, wait_objects, pending_sessions)
  <2>1. wait_objects[w] = {}
    BY DEF ThreadsOK
  <2> SUFFICES ASSUME NEW v \in Servers, NEW o \in wait_objects[v]
               PROVE  /\ o = Port \/ (o \in Sessions /\ S[o].server)
                      /\ \/ ShouldWait(S, pending_sessions, o)
                         \/ /\ o # Port /\ S[o].client
                            /\ \E u \in Servers : o \notin wait_objects[u]
    BY DEF NoLost
  <2>2. o \notin wait_objects[w]
    BY <2>1
  <2>3. /\ o = Port \/ (o \in Sessions /\ session[o].server)
        /\ ShouldWait(session, pending_sessions, o) \/ (o # Port /\ session[o].client)
    BY DEF NoLost
  <2> HIDE DEF IInv, Good
  <2>4. CASE o = Port
    BY <2>3, <2>4 DEF ShouldWait
  <2>5. CASE o = x
    BY <1>2, <1>3, <1>4, <2>2, <2>5, IpcAssumption
  <2>6. CASE o # Port /\ o # x
    <3>1. S[o] = session[o]
      BY <1>4, <2>3, <2>6
    <3> QED
      BY <2>2, <2>3, <2>6, <3>1 DEF ShouldWait
  <2> QED
    BY <2>4, <2>5, <2>6
<1> HIDE DEF IInv, Good
<1> QED
  BY <1>1, <1>13, <1>14, <1>15, <1>16

\* ReplyAndReceive keeps the invariant.
LEMMA ReplyAndReceiveInv ==
  ASSUME IInv, NEW w \in Servers, NEW x \in Sessions, NEW objects \in Lists, NEW returned,
         NEW moved \in {{}} \cup {{y} : y \in {z \in Sessions : client_handles[z] = {"server"}}},
         ReplyAndReceive(w, x, objects, moved, returned)
  PROVE  IInv'
<1>1. PICK t, S, st, m : /\ t = session[x].handling
                         /\ S = [session EXCEPT ![x] = Answered(@, returned)]
                         /\ st = Resumed(status, t)
                         /\ m = TranslateReply(vma_map, session[x].context, returned)
  OBVIOUS
<1>2. status[w] = "Running" /\ t # NoThread /\ process' = process
  BY <1>1 DEF ReplyAndReceive, CanReply, CanCall
<1>3. CASE UNCHANGED <<status, sent_to, wait_objects, session, handleVars, active_sessions>>
  BY <1>2, <1>3 DEF handleVars, IInv, Good, SentIsOpen, Open
<1>4. CASE /\ client_handles' = [y \in Sessions |-> IF y \in moved THEN {"client"}
                                                    ELSE client_handles[y]]
           /\ Receive(w, S, st, m, objects)
  <2>1. /\ Good(S, wait_objects, server_handles, pending_sessions, active_sessions, sent_to, st,
                client_handles', process')
        /\ NoLost(S, wait_objects, pending_sessions) /\ st[w] = "Running"
    BY <1>1, <1>2, <1>4, AnsweredGood
  <2> QED
    BY <1>4, <2>1, ReceiveInv
<1> QED
  BY <1>1, <1>3, <1>4 DEF ReplyAndReceive
-----------------------------------------------------------------------------
\* Leaving.

\* The sessions that close lose their requests and wake who listens to them.
LEMMA DisconnectInv ==
  ASSUME IInv, NEW closing, closing \subseteq Sessions, Disconnect(closing),
         client_handles' \in [Sessions -> {{}, {"client"}, {"server"}}],
         \A y \in Sessions : client_handles'[y] = IF y \in closing THEN {} ELSE client_handles[y],
         process' \in {"Running", "Exited", "Destroyed"},
         process' # "Running" => \A t \in Clients : status[t] = "Dead",
         process' = "Destroyed" => \A y \in Sessions : client_handles'[y] # {"client"}
  PROVE  IInv'
<1> USE DEF IInv, Good
<1>1. PICK S, W, woken :
        /\ S = [x \in Sessions |-> IF x \in closing THEN ClientGone(session[x]) ELSE session[x]]
        /\ woken = WokenByClosing(closing) /\ W = WaitsOfOthers(woken)
  OBVIOUS
<1>2. /\ status' = Woken(status, woken)
      /\ Settle(S, W, server_handles, pending_sessions, active_sessions, sent_to)
  BY <1>1 DEF Disconnect
<1>3. woken \subseteq Servers
  BY <1>1 DEF WokenByClosing, WaitersOf
<1>4. /\ ThreadsOK(status', W) /\ \A t \in Clients : status'[t] = status[t]
      /\ \A w \in Servers : /\ status'[w] = IF w \in woken THEN "Running" ELSE status[w]
                            /\ W[w] = IF w \in woken THEN {} ELSE wait_objects[w]
  BY <1>1, <1>2, <1>3, WokenOK
<1>5. \A x \in Sessions : IsSession(session[x])
  BY DEF SessionsOK
<1>6. \A x \in Sessions :
        /\ IsSession(S[x]) /\ S[x].server = session[x].server /\ S[x].port = session[x].port
        /\ x \in closing => Quiet(S[x]) /\ ~S[x].client
        /\ x \notin closing => S[x] = session[x]
  BY <1>1, <1>5, ClientGoneFacts
<1>7. SessionsOK(S)
  BY <1>1, <1>6 DEF SessionsOK
<1>8. ClientsOK(S, client_handles', status', process')
  <2>1. \A x \in Sessions : /\ client_handles'[x] # {} => S[x].client
                            /\ ~Quiet(S[x]) => client_handles'[x] = {"client"}
    BY <1>6 DEF ClientsOK
  <2> QED
    BY <1>4, <2>1 DEF ClientsOK
<1>9. Accounted(S, status', sent_to)
  <2>1. \A t \in Clients, x \in Sessions : x \in closing => Times(S[x], t) = 0
    BY <1>6, QuietTimes
  <2> QED
    BY <1>4, <1>6, <2>1 DEF Accounted
<1>10. PortOK(S, server_handles, pending_sessions, active_sessions)
  <2>1. Ported(S) = Ported(session)
    BY <1>6 DEF Ported
  <2>2. \A y \in ToSet(pending_sessions) : y \in Sessions
    BY ToSetMember, ElementOfSeq DEF PortOK
  <2> QED
    BY <1>6, <2>1, <2>2 DEF PortOK
<1>11. NoLost(S, W, pending_sessions)
  <2> SUFFICES ASSUME NEW w \in Servers, NEW o \in W[w]
               PROVE  /\ o = Port \/ (o \in Sessions /\ S[o].server)
                      /\ \/ ShouldWait(S, pending_sessions, o)
                         \/ o # Port /\ S[o].client /\ \E v \in Servers : o \notin W[v]
    BY DEF NoLost
  <2>1. NoLost(session, W, pending_sessions)
    BY <1>1, WokenNoLost
  <2>2. /\ o = Port \/ (o \in Sessions /\ session[o].server)
        /\ \/ ShouldWait(session, pending_sessions, o)
           \/ o # Port /\ session[o].client /\ \E v \in Servers : o \notin W[v]
    BY <2>1 DEF NoLost
  <2> HIDE DEF IInv, Good
  <2>3. CASE o = Port
    BY <2>2, <2>3 DEF ShouldWait
  <2>4. CASE o # Port
    <3>1. w \notin woken /\ o \in wait_objects[w]
      BY <1>4
    <3>2. o \notin closing
      BY <1>1, <3>1 DEF WokenByClosing, WaitersOf
    <3>3. S[o] = session[o]
      BY <1>6, <2>2, <2>4, <3>2
    <3> QED
      BY <2>2, <2>4, <3>3 DEF ShouldWait
  <2> QED
    BY <2>3, <2>4
<1>12. Good(S, W, server_handles, pending_sessions, active_sessions, sent_to, status',
            client_handles', process')
  BY <1>4, <1>7, <1>8, <1>9, <1>10
<1> QED
  BY <1>2, <1>11, <1>12, SettleInv

\* CloseClientSession keeps the invariant.
LEMMA CloseClientSessionInv ==
  ASSUME IInv, NEW t \in Clients \cup Servers, NEW p, NEW x \in Sessions,
         CloseClientSession(t, p, x)
  PROVE  IInv'
<1>1. /\ client_handles' = [client_handles EXCEPT ![x] = {}] /\ Disconnect({x})
      /\ process' = process
  BY DEF CloseClientSession
<1>2. ClientsOK(session, client_handles, status, process)
  BY DEF IInv, Good
<1>3. /\ client_handles' \in [Sessions -> {{}, {"client"}, {"server"}}]
      /\ \A y \in Sessions : client_handles'[y] = IF y \in {x} THEN {} ELSE client_handles[y]
  BY <1>1, <1>2 DEF ClientsOK
<1>4. /\ process' \in {"Running", "Exited", "Destroyed"}
      /\ process' # "Running" => \A u \in Clients : status[u] = "Dead"
      /\ process' = "Destroyed" => \A y \in Sessions : client_handles'[y] # {"client"}
  BY <1>1, <1>2, <1>3 DEF ClientsOK
<1>5. {x} \subseteq Sessions
  OBVIOUS
<1> QED
  BY <1>1, <1>3, <1>4, <1>5, DisconnectInv

\* DestroyProcess keeps the invariant.
LEMMA DestroyProcessInv ==
  ASSUME IInv, DestroyProcess
  PROVE  IInv'
<1>1. PICK held : held = {x \in Sessions : "client" \in client_handles[x]}
  OBVIOUS
<1>2. /\ client_handles' = [x \in Sessions |-> client_handles[x] \ {"client"}]
      /\ Disconnect(held) /\ process = "Exited" /\ process' = "Destroyed"
  BY <1>1 DEF DestroyProcess
<1>3. ClientsOK(session, client_handles, status, process)
  BY DEF IInv, Good
<1>4. \A y \in Sessions : /\ client_handles'[y] = IF y \in held THEN {} ELSE client_handles[y]
                          /\ client_handles'[y] \in {{}, {"client"}, {"server"}}
                          /\ client_handles'[y] # {"client"}
  <2> TAKE y \in Sessions
  <2>1. /\ client_handles'[y] = client_handles[y] \ {"client"}
        /\ client_handles[y] \in {{}, {"client"}, {"server"}}
    BY <1>2, <1>3 DEF ClientsOK
  <2> QED
    BY <1>1, <2>1
<1>5. client_handles' \in [Sessions -> {{}, {"client"}, {"server"}}]
  BY <1>2, <1>4
<1>6. /\ process' \in {"Running", "Exited", "Destroyed"}
      /\ process' # "Running" => \A u \in Clients : status[u] = "Dead"
      /\ process' = "Destroyed" => \A y \in Sessions : client_handles'[y] # {"client"}
  BY <1>2, <1>3, <1>4 DEF ClientsOK
<1>7. held \subseteq Sessions
  BY <1>1
<1> QED
  BY <1>2, <1>4, <1>5, <1>6, <1>7, DisconnectInv

\* CloseServerSession keeps the invariant.
LEMMA CloseServerSessionInv ==
  ASSUME IInv, NEW t \in Servers, NEW x \in Sessions, CloseServerSession(t, x)
  PROVE  IInv'
<1>1. /\ Settle(session, wait_objects, server_handles \ {x}, pending_sessions, active_sessions,
                sent_to)
      /\ status' = status /\ client_handles' = client_handles /\ process' = process
      /\ status[t] = "Running"
  BY DEF CloseServerSession, CanCall
<1>2. PortOK(session, server_handles \ {x}, pending_sessions, active_sessions)
  BY DEF IInv, Good, PortOK
<1>3. Good(session, wait_objects, server_handles \ {x}, pending_sessions, active_sessions,
           sent_to, status', client_handles', process')
  BY <1>1, <1>2 DEF IInv, Good
<1>4. NoLost(session, wait_objects, pending_sessions)
  BY DEF IInv
<1> QED
  BY <1>1, <1>3, <1>4, SettleInv

\* TerminateProcess keeps the invariant.
LEMMA TerminateProcessInv ==
  ASSUME IInv, TerminateProcess
  PROVE  IInv'
<1> USE DEF IInv, Good
<1>1. /\ process' = "Exited"
      /\ status' = [t \in DOMAIN status |-> IF t \in Clients THEN "Dead" ELSE status[t]]
      /\ UNCHANGED <<sent_to, wait_objects, session, client_handles, server_handles,
                     pending_sessions, active_sessions>>
  BY DEF TerminateProcess, handleVars
<1>2. /\ status' \in [Clients \cup Servers -> Statuses]
      /\ \A t \in Clients : status'[t] = "Dead" /\ \A w \in Servers : status'[w] = status[w]
  BY <1>1, IpcAssumption DEF ThreadsOK, Statuses
<1>3. ThreadsOK(status', wait_objects')
  BY <1>1, <1>2 DEF ThreadsOK
<1>4. ClientsOK(session', client_handles', status', process')
  BY <1>1, <1>2 DEF ClientsOK
<1>5. Accounted(session', status', sent_to')
  BY <1>1, <1>2 DEF Accounted
<1>6. NoLost(session, wait_objects, pending_sessions)' /\ SentIsOpen'
  BY <1>1 DEF SentIsOpen, Open
<1> QED
  BY <1>1, <1>3, <1>4, <1>5, <1>6

\* RunProcess keeps the invariant.
LEMMA RunProcessInv ==
  ASSUME IInv, RunProcess
  PROVE  IInv'
<1> USE DEF IInv, Good
<1>1. /\ process = "Destroyed" /\ process' = "Running"
      /\ status' = [t \in DOMAIN status |-> IF t \in Clients THEN "Running" ELSE status[t]]
      /\ sent_to' = [t \in Clients |-> Port]
      /\ UNCHANGED <<wait_objects, session, client_handles, server_handles,
                     pending_sessions, active_sessions>>
  BY DEF RunProcess, handleVars
<1>2. /\ status' \in [Clients \cup Servers -> Statuses]
      /\ \A t \in Clients : status'[t] = "Running"
      /\ \A w \in Servers : status'[w] = status[w]
  BY <1>1, IpcAssumption DEF ThreadsOK, Statuses
<1>3. ThreadsOK(status', wait_objects')
  BY <1>1, <1>2 DEF ThreadsOK
<1>4. ClientsOK(session', client_handles', status', process')
  BY <1>1, <1>2 DEF ClientsOK
<1>5. \A x \in Sessions : Quiet(session[x])
  BY <1>1 DEF ClientsOK
<1>6. \A t \in Clients, x \in Sessions : Times(session'[x], t) = 0
  BY <1>1, <1>5, QuietTimes
<1>7. Accounted(session', status', sent_to')
  BY <1>1, <1>2, <1>6 DEF Accounted
<1>8. NoLost(session, wait_objects, pending_sessions)' /\ SentIsOpen'
  BY <1>1 DEF SentIsOpen
<1> QED
  BY <1>1, <1>3, <1>4, <1>7, <1>8
-----------------------------------------------------------------------------
\* The invariant.

\* It holds initially.
LEMMA InitInv == Init => IInv
<1> SUFFICES ASSUME Init PROVE IInv
  OBVIOUS
<1> USE DEF Init
<1>1. IsSession(Closed) /\ Quiet(Closed) /\ ~Closed.client /\ ~Closed.server
  BY EmptySeq DEF Closed, IsSession, Quiet
<1>2. \A x \in Sessions : session[x] = Closed
  OBVIOUS
<1>3. SessionsOK(session)
  BY <1>1 DEF SessionsOK
<1>4. ThreadsOK(status, wait_objects)
  BY DEF ThreadsOK, Statuses
<1>5. ClientsOK(session, client_handles, status, process)
  BY <1>1 DEF ClientsOK
<1>6. Accounted(session, status, sent_to)
  <2>1. \A t \in Clients, x \in Sessions : Times(session[x], t) = 0
    BY <1>1, <1>2, QuietTimes
  <2> QED
    BY <2>1 DEF Accounted
<1>7. PortOK(session, server_handles, pending_sessions, active_sessions)
  <2>1. Ported(session) = {}
    BY <1>1 DEF Ported
  <2>2. ToSet(<<>>) = {} /\ NoDuplicates(<<>>) /\ <<>> \in Seq(Sessions)
    BY EmptySeq DEF ToSet, NoDuplicates
  <2>3. IsFiniteSet({}) /\ Cardinality({}) = 0 /\ 0 <= MaxSessions
    BY FS_EmptySet, IpcAssumption
  <2>4. active_sessions = 0 /\ server_handles = {} /\ pending_sessions = <<>>
    OBVIOUS
  <2> HIDE DEF Init
  <2> QED
    BY <2>1, <2>2, <2>3, <2>4 DEF PortOK
<1>8. SentIsOpen /\ NoLost(session, wait_objects, pending_sessions)
  BY DEF SentIsOpen, NoLost
<1> QED
  BY <1>3, <1>4, <1>5, <1>6, <1>7, <1>8 DEF IInv, Good

\* The invariant is inductive.
LEMMA NextInv == IInv /\ [Next]_vars => IInv'
<1> SUFFICES ASSUME IInv, [Next]_vars PROVE IInv'
  OBVIOUS
<1>1. ASSUME NEW t \in Clients, NEW x \in Sessions, NEW room \in BOOLEAN, Connect(t, x, room)
      PROVE  IInv'
  BY <1>1, ConnectInv
<1>2. ASSUME NEW t \in Clients, NEW x \in Sessions, NEW pages \in Requests,
             SendSyncRequest(t, x, pages)
      PROVE  IInv'
  BY <1>2, SendSyncRequestInv
<1>3. ASSUME NEW t \in Clients \cup Servers, NEW p \in {"client", "server"}, NEW x \in Sessions,
             CloseClientSession(t, p, x)
      PROVE  IInv'
  BY <1>3, CloseClientSessionInv
<1>4. ASSUME NEW w \in Servers, NEW room \in BOOLEAN, AcceptSession(w, room)
      PROVE  IInv'
  BY <1>4, AcceptSessionInv
<1>5. ASSUME NEW w \in Servers, NEW room \in BOOLEAN, NEW x \in Sessions,
             CreateSession(w, x, room)
      PROVE  IInv'
  BY <1>5, CreateSessionInv
<1>6. ASSUME NEW w \in Servers, NEW objects \in Lists, ReceiveOnly(w, objects)
      PROVE  IInv'
  BY <1>6, ReceiveOnlyInv
<1>7. ASSUME NEW w \in Servers, NEW x \in server_handles,
             NEW moved \in {{}} \cup {{y} : y \in {z \in Sessions : client_handles[z] = {"server"}}},
             NEW returned \in SUBSET ToSet(session[x].context), NEW objects \in Lists,
             ReplyAndReceive(w, x, objects, moved, returned)
      PROVE  IInv'
  <2>1. x \in Sessions
    BY DEF IInv, Good, PortOK
  <2> QED
    BY <1>7, <2>1, ReplyAndReceiveInv
<1>8. ASSUME NEW w \in Servers, NEW x \in Sessions, CloseServerSession(w, x)
      PROVE  IInv'
  BY <1>8, CloseServerSessionInv
<1>9. CASE TerminateProcess \/ DestroyProcess \/ RunProcess
  BY <1>9, TerminateProcessInv, DestroyProcessInv, RunProcessInv
<1>10. CASE UNCHANGED vars
  <2>1. UNCHANGED <<status, sent_to, wait_objects, session, client_handles, server_handles,
                    pending_sessions, active_sessions, process>>
    BY <1>10 DEF vars, handleVars
  <2> QED
    BY <2>1 DEF IInv, Good, SentIsOpen, Open
<1> QED
  BY <1>1, <1>2, <1>3, <1>4, <1>5, <1>6, <1>7, <1>8, <1>9, <1>10 DEF Next

\* The ends of the sessions, their requests and the threads are in one of the
\* states that IInv describes, whatever calls the two processes make and
\* whenever the clients' process is terminated (server_session.cpp,
\* client_session.cpp, client_port.cpp, svc.cpp).
THEOREM InvHolds == Spec => []IInv
BY InitInv, NextInv, PTL DEF Spec

\* A client that waits for an answer has its request in exactly one place, and
\* no session has the request of a thread that is awake, for any number of
\* threads and sessions (HandleSyncRequest, Acquire, ~ClientSession,
\* svcReplyAndReceive).
THEOREM RequestsAccountedTheorem == Spec => []RequestsAccounted
<1>1. IInv => RequestsAccounted
  <2> SUFFICES ASSUME IInv PROVE RequestsAccounted
    OBVIOUS
  <2>1. TypeOK
    BY DEF IInv, Good, ThreadsOK, PortOK, SessionsOK, IsSession, TypeOK, Statuses
  <2>2. ASSUME NEW t \in Clients, NEW x \in Sessions, status[t] # "Dead"
        PROVE  Occurrences(x, t) = IF status[t] = "WaitIPC" /\ sent_to[t] = x THEN 1 ELSE 0
    <3>1. Occurrences(x, t) = Times(session[x], t)
      BY DEF Occurrences, Times, Count
    <3>2. Times(session[x], t) = IF /\ status[t] = "WaitIPC" /\ sent_to[t] = x
                                    /\ session[x].client /\ session[x].server THEN 1 ELSE 0
      BY <2>2 DEF IInv, Good, Accounted
    <3>3. sent_to[t] = x => session[x].client /\ session[x].server
      BY IpcAssumption DEF IInv, SentIsOpen, Open
    <3> QED
      BY <3>1, <3>2, <3>3
  <2> QED
    BY <2>1, <2>2 DEF RequestsAccounted
<1> QED
  BY <1>1, InvHolds, PTL

\* The port counts exactly the server's ends that exist, never more than
\* max_sessions, for any bound (ClientPort::Connect, ConnectionClosed,
\* svcAcceptSession).
THEOREM PortCountExactTheorem == Spec => []PortCountExact
<1>1. IInv => PortCountExact
  <2> SUFFICES ASSUME IInv PROVE PortCountExact
    OBVIOUS
  <2>1. PortOK(session, server_handles, pending_sessions, active_sessions)
    BY DEF IInv, Good
  <2>2. \A i \in DOMAIN pending_sessions : pending_sessions[i] \in ToSet(pending_sessions)
    BY DEF ToSet
  <2> QED
    BY <2>1, <2>2 DEF PortOK, Ported, PortCountExact
<1> QED
  BY <1>1, InvHolds, PTL

\* A thread of the server sleeps on no connection, on no client that has gone,
\* and on a request only if a reply of another thread, one that does not sleep
\* on it, has freed the session; for any number of threads and any lists that
\* they listen to (svcReplyAndReceive, WakeupAllWaitingThreads).
THEOREM NoLostRequestTheorem == Spec => []NoLostRequest
<1>1. IInv => NoLostRequest
  BY DEF IInv, NoLost, NoLostRequest
<1> QED
  BY <1>1, InvHolds, PTL
=============================================================================
