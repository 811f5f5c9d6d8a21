--------------------------------- MODULE Ipc --------------------------------
(***************************************************************************)
(* Ports and sessions between emulated processes: kernel/server_session,   *)
(* client_session, client_port, server_port, ipc.cpp and the supervisor    *)
(* calls on them.  One process has the server end of a port; the threads   *)
(* of another are its clients.                                             *)
(*                                                                         *)
(* A call is never interrupted (one host thread runs everything), so an    *)
(* action is a whole call with the wake-ups and destructors it causes.     *)
(* Which thread is scheduled next is left open: any thread that does not   *)
(* wait may make the next call.  Threads that wait for the same object are *)
(* woken in any order; module Kernel has the order by priority.            *)
(*                                                                         *)
(* The end of a session is an object that lives as long as something       *)
(* refers to it: a handle, for the server's end also pending_sessions and  *)
(* the wait_objects of a sleeping thread.                                  *)
(***************************************************************************)
EXTENDS VMAreas

CONSTANTS
  Clients, Servers,  \* the threads of the two processes
  Sessions, Port,    \* identities of sessions; the server's end of the port
  NoThread,          \* the null pointer
  MaxSessions,       \* max_sessions of the port
  Requests           \* the mapped buffers of a request: sequences of sizes

ASSUME IpcAssumption ==
  /\ MaxSessions \in Nat /\ NoThread \notin Clients \cup Servers
  /\ Port \notin Sessions /\ Clients \cap Servers = {}
  /\ Requests \subseteq Seq(Nat \ {0})

VARIABLES
  status,            \* thread -> "Running" (or ready), a wait, or "Dead"
  sent_to,           \* client -> the session of its last request, or Port once
                     \* either end of that session has gone
  buffers,           \* client -> the mapped buffers of that request
  wait_objects,      \* server thread -> what it sleeps on
  session,           \* session -> its two ends, see Closed
  client_handles,    \* session -> who has a handle of the client's end
  server_handles,    \* sessions of which the server has a handle
  pending_sessions,  \* sessions that wait to be accepted, the newest last
  active_sessions,   \* the connections that the port counts
  process,           \* of the clients: "Running", "Exited" or "Destroyed"
  vma_map,           \* the server's area for mapped buffers, from page 0
  left_behind,       \* history: the buffers of sessions that are gone
  panic              \* the assertion that failed, or "none"

handleVars == <<client_handles, server_handles, pending_sessions>>
vars == <<status, sent_to, buffers, wait_objects, session, handleVars,
          active_sessions, process, vma_map,
          left_behind, panic>>

\* A session neither end of which exists.  client and server: parent->client
\* and parent->server are not null; port: parent->port is not null; the rest
\* are the members of ServerSession.
Closed == [client |-> FALSE, server |-> FALSE, port |-> FALSE, pending |-> <<>>,
           handling |-> NoThread, context |-> <<>>]

\* KernelSystem::CreateSessionPair.
CreateSessionPair(port) == [Closed EXCEPT !.client = TRUE, !.server = TRUE, !.port = port]

Init ==
  /\ status = [t \in Clients \cup Servers |-> "Running"]
  /\ sent_to = [t \in Clients |-> Port] /\ buffers = [t \in Clients |-> <<>>]
  /\ wait_objects = [t \in Servers |-> {}]
  /\ session = [x \in Sessions |-> Closed]
  /\ client_handles = [x \in Sessions |-> {}] /\ server_handles = {}
  /\ pending_sessions = <<>> /\ active_sessions = 0
  /\ process = "Running" /\ vma_map = EmptyMap /\ left_behind = {}
  /\ panic = "none"

-----------------------------------------------------------------------------
\* Mapped buffers in the server's address space (TranslateCommandBuffer).

\* The memory of a buffer is its own: no other buffer continues it.
BufferMem(target) == 2 * target

Guard == [state |-> "Reserved", permissions |-> {}]

\* A buffer of some pages is mapped with a guard page on each side.
MapBuffer(m, pages) ==
  LET target == ToBase(m, 0, pages + 2)
      mapped == AfterMap(m, target, pages + 2, BufferMem(target), "Shared").map
      low == AfterChange(mapped, target, 1, Guard)
  IN AfterChange(low, target + pages + 1, 1, Guard)

\* The buffers of a request, in turn: the map, the new context, and whether
\* there was room for all of them.
TranslateRequest(m, pages) ==
  LET step(acc, n) ==
        IF acc.ok /\ CanMapToBase(acc.map, 0, MAX_ADDRESS, n + 2)
        THEN [map |-> MapBuffer(acc.map, n), ok |-> TRUE,
              context |-> Append(acc.context,
                            [target |-> ToBase(acc.map, 0, n + 2) + 1, pages |-> n,
                             kept |-> FALSE])]
        ELSE [acc EXCEPT !.ok = FALSE]
  IN FoldLeft(step, [map |-> m, ok |-> TRUE, context |-> <<>>], pages)

\* What the reply asserts of a buffer: it lies between its guard pages, and
\* everything in between is mapped.
Intact(m, buffer) ==
  /\ m[FindVMA(m, buffer.target - 1)].state = "Reserved"
  /\ m[FindVMA(m, buffer.target + buffer.pages)].state = "Reserved"
  /\ IsMappedRange(m, buffer.target - 1, buffer.pages + 2)

\* Mutant: the guard pages stay mapped.
UnmapBufferOnly(m, buffer) == AfterUnmapRange(m, buffer.target, buffer.pages)

UnmapBuffer(m, buffer) == AfterUnmapRange(m, buffer.target - 1, buffer.pages + 2)

\* The buffers that the reply names are unmapped.
TranslateReply(m, context, returned) ==
  FoldLeft(UnmapBuffer, m, SelectSeq(context, LAMBDA b : b \in returned))

\* The others stay in mapped_buffer_context, for a later reply to return.  That
\* they were kept once is history.
KeptBuffers(context, returned) ==
  LET rest == SelectSeq(context, LAMBDA b : b \notin returned)
  IN [i \in DOMAIN rest |-> [rest[i] EXCEPT !.kept = TRUE]]

-----------------------------------------------------------------------------
\* Sessions as objects to wait for.

\* ServerSession::ShouldWait and ServerPort::ShouldWait.
ShouldWait(S, pending, o) ==
  IF o = Port THEN pending = <<>>
  ELSE S[o].client /\ (S[o].pending = <<>> \/ S[o].handling # NoThread)

\* ServerSession::Acquire: the request that came last is handled first.
Acquire(s) ==
  IF ~s.client THEN s
  ELSE [s EXCEPT !.handling = Last(s.pending), !.pending = Front(s.pending)]

\* ReceiveIPCRequest of a session that has just been acquired; requests[t] are
\* the buffers of client t.  Of a closed session the thread is told that it is
\* closed and nothing is translated.
ReceiveIPCRequest(S, m, x, requests) ==
  LET s == Acquire(S[x])
      r == TranslateRequest(m, IF s.client THEN requests[s.handling] ELSE <<>>)
  IN [session |-> [S EXCEPT ![x] = [s EXCEPT !.context = @ \o r.context]],
      map |-> r.map, ok |-> r.ok]

WaitersOf(o) == {w \in Servers : o \in wait_objects[w]}

\* Threads that sleep are woken: SVC_IPCCallback, ResumeFromWait.
Woken(st, woken) == [t \in DOMAIN st |-> IF t \in woken THEN "Running" ELSE st[t]]
WaitsOfOthers(woken) == [w \in Servers |-> IF w \in woken THEN {} ELSE wait_objects[w]]

-----------------------------------------------------------------------------
\* The ends of a session go away.

\* Mutant: the request that is being handled survives its client.
ClientGoneKeepsRequest(s) == [s EXCEPT !.client = FALSE, !.pending = <<>>]

\* ~ClientSession.  Its wake-up of the server's threads is part of the call
\* that drops the last reference.
ClientGone(s) ==
  [s EXCEPT !.client = FALSE, !.pending = <<>>, !.handling = NoThread]

\* Server's ends that nothing refers to any more.
Unreferenced(S, W, H, Q) ==
  {x \in Sessions : /\ S[x].server /\ x \notin H /\ x \notin ToSet(Q)
                    /\ \A w \in Servers : x \notin W[w]}

\* Mutant: the port goes on counting a connection that the server has closed.
CountAfterNever(S, n, gone) == n

\* ClientPort::ConnectionClosed for each of them.
CountAfter(S, n, gone) == n - Cardinality({x \in gone : S[x].port})

\* ~ServerSession.  The threads that wait for an answer are not told.
ServerGone(s) == IF s.client THEN [Closed EXCEPT !.client = TRUE] ELSE Closed

\* The state after a call: S, W, H, Q and n as the call has left them, then
\* the destructors of the server's ends that it has dropped; sent is the
\* session to which each client has sent its request.
Settle(S, W, H, Q, n, sent) ==
  LET gone == Unreferenced(S, W, H, Q) IN
    /\ session' = [x \in Sessions |-> IF x \in gone THEN ServerGone(S[x])
                                      ELSE IF ~S[x].client /\ ~S[x].server THEN Closed
                                      ELSE S[x]]
    /\ wait_objects' = W /\ server_handles' = H /\ pending_sessions' = Q
    /\ active_sessions' = CountAfter(S, n, gone)
    /\ sent_to' = [t \in Clients |->
                    IF sent[t] # Port /\ S[sent[t]].client /\ S[sent[t]].server
                         /\ sent[t] \notin gone
                    THEN sent[t] ELSE Port]
    /\ left_behind' = left_behind \cup UNION {ToSet(S[x].context) : x \in gone}

-----------------------------------------------------------------------------
\* Connecting.

CanCall(t) == panic = "none" /\ status[t] = "Running"
Unused(x) == session[x] = Closed /\ client_handles[x] = {}

\* svcConnectToPort and svcCreateSessionToPort: ClientPort::Connect, then a
\* handle for the client's end if there is room for one.
Connect(t, x, room) ==
  LET s == CreateSessionPair(TRUE)
      woken == WaitersOf(Port)
  IN /\ CanCall(t) /\ Unused(x) /\ active_sessions < MaxSessions
     /\ client_handles' = [client_handles EXCEPT ![x] = IF room THEN {"client"} ELSE {}]
     /\ status' = Woken(status, woken)
     /\ Settle([session EXCEPT ![x] = IF room THEN s ELSE ClientGone(s)],
               WaitsOfOthers(woken), server_handles, Append(pending_sessions, x),
               active_sessions + 1, sent_to)
     /\ UNCHANGED <<buffers, process, vma_map, panic>>

\* svcAcceptSession: the connection that came last is accepted first.
AcceptSession(t, room) ==
  /\ CanCall(t) /\ pending_sessions # <<>>
  /\ Settle(session, wait_objects,
            IF room THEN server_handles \cup {Last(pending_sessions)} ELSE server_handles,
            Front(pending_sessions), active_sessions, sent_to)
  /\ UNCHANGED <<status, buffers, client_handles, process, vma_map, panic>>

\* svcCreateSession: a pair without a port.  The server gets both handles, or
\* only its own if its table has room for one.
CreateSession(t, x, room) ==
  LET s == CreateSessionPair(FALSE) IN
    /\ CanCall(t) /\ Unused(x)
    /\ client_handles' = [client_handles EXCEPT ![x] = IF room THEN {"server"} ELSE {}]
    /\ Settle([session EXCEPT ![x] = IF room THEN s ELSE ClientGone(s)],
              wait_objects, server_handles \cup {x}, pending_sessions,
              active_sessions, sent_to)
    /\ UNCHANGED <<status, buffers, process, vma_map, panic>>

-----------------------------------------------------------------------------
\* Requests.

FailedToMap(ok) == IF ok THEN "none" ELSE "Failed to map target address"

\* svcSendSyncRequest: ServerSession::HandleSyncRequest.  The client waits with
\* its request among the pending ones; a server thread that sleeps on the
\* session is woken, acquires it and receives a request.  With the server's end
\* closed the call returns an error.
SendSyncRequest(t, x, pages) ==
  LET S == [session EXCEPT ![x].pending = Append(@, t)]
      asleep == [status EXCEPT ![t] = "WaitIPC"]
      sent == [sent_to EXCEPT ![t] = x]
      r == ReceiveIPCRequest(S, vma_map, x, buffers')
  IN /\ CanCall(t) /\ "client" \in client_handles[x] /\ session[x].server
     /\ buffers' = [buffers EXCEPT ![t] = pages]
     /\ \/ /\ WaitersOf(x) = {} \/ ShouldWait(S, pending_sessions, x)
           /\ status' = asleep
           /\ Settle(S, wait_objects, server_handles, pending_sessions,
                     active_sessions, sent)
           /\ UNCHANGED <<vma_map, panic>>
        \/ /\ ~ShouldWait(S, pending_sessions, x)
           /\ \E w \in WaitersOf(x) :
                /\ status' = Woken(asleep, {w})
                /\ Settle(r.session, WaitsOfOthers({w}), server_handles,
                          pending_sessions, active_sessions, sent)
           /\ vma_map' = r.map
           /\ panic' = FailedToMap(r.ok)
     /\ UNCHANGED <<client_handles, process>>

\* The second half of svcReplyAndReceive, from the session, threads and map
\* that the reply has left: the first of the objects that is available is
\* acquired, or the thread sleeps on them all.  The order of the list is the
\* program's, so any available object may be the first.
Receive(w, S, st, m, objects) ==
  \/ /\ \E o \in objects : ~ShouldWait(S, pending_sessions, o)
     /\ status' = st
     /\ \E o \in objects :
          /\ ~ShouldWait(S, pending_sessions, o)
          /\ LET r == IF o = Port THEN [session |-> S, map |-> m, ok |-> TRUE]
                      ELSE ReceiveIPCRequest(S, m, o, buffers)
             IN /\ Settle(r.session, wait_objects, server_handles, pending_sessions,
                          active_sessions, sent_to)
                /\ vma_map' = r.map
                /\ panic' = FailedToMap(r.ok)
  \/ /\ \A o \in objects : ShouldWait(S, pending_sessions, o)
     /\ status' = IF objects = {} THEN st ELSE [st EXCEPT ![w] = "WaitSynchAny"]
     /\ Settle(S, [wait_objects EXCEPT ![w] = objects], server_handles,
               pending_sessions, active_sessions, sent_to)
     /\ vma_map' = m /\ UNCHANGED panic

\* What a thread of the server may listen to: any of the objects that the server
\* has handles for, each thread others.
Lists == SUBSET ({Port} \cup server_handles)

\* svcReplyAndReceive without a reply.
ReceiveOnly(w, objects) ==
  /\ CanCall(w) /\ objects # {}
  /\ Receive(w, session, status, vma_map, objects)
  /\ UNCHANGED <<buffers, client_handles, process>>

\* ResumeFromWait of the client.  For a thread that was stopped meanwhile debug
\* builds fail an assertion ("This should never happen", which module Kernel
\* records); a reply to it is what any server does whose client was terminated
\* in the middle of a request, so the model goes on as a release build does.
Resumed(st, t) == IF st[t] = "Dead" THEN st ELSE [st EXCEPT ![t] = "Running"]

Answered(s, returned) ==
  [s EXCEPT !.handling = NoThread, !.context = KeptBuffers(s.context, returned)]

\* The reply has somebody to go to.
CanReply(w, x) == CanCall(w) /\ session[x].handling # NoThread /\ session[x].client

\* svcReplyAndReceive with a reply to session x, which replaces the client's
\* command, returns some of the buffers that the session has mapped and may move
\* to the client the handle of the client's end of another session.  If x
\* handles no request the call fails and changes nothing.
ReplyAndReceive(w, x, objects, moved, returned) ==
  LET t == session[x].handling
      intact == \A b \in returned : Intact(vma_map, b)
  IN /\ CanReply(w, x)
     /\ IF ~intact
        THEN /\ panic' = "guard pages"
             /\ UNCHANGED <<status, sent_to, wait_objects, session, handleVars,
                            active_sessions, buffers, vma_map, left_behind>>
        ELSE /\ buffers' = [buffers EXCEPT ![t] = <<>>]
             /\ client_handles' = [y \in Sessions |-> IF y \in moved THEN {"client"}
                                                      ELSE client_handles[y]]
             /\ Receive(w, [session EXCEPT ![x] = Answered(@, returned)], Resumed(status, t),
                        TranslateReply(vma_map, session[x].context, returned), objects)
     /\ UNCHANGED process

-----------------------------------------------------------------------------
\* Leaving.

\* Mutant: the threads that wait for a session are not told that it has closed.
NoneWokenByClosing(closing) == {}

WokenByClosing(closing) == UNION {WaitersOf(x) : x \in closing}

\* The client's ends of some sessions lose their last handles: the threads
\* that sleep on their server's ends are woken.
Disconnect(closing) ==
  LET woken == WokenByClosing(closing) IN
    /\ status' = Woken(status, woken)
    /\ Settle([x \in Sessions |-> IF x \in closing THEN ClientGone(session[x]) ELSE session[x]],
              WaitsOfOthers(woken), server_handles, pending_sessions, active_sessions,
              sent_to)

\* svcCloseHandle of the client's end, by a thread of the process that has it.
CloseClientSession(t, p, x) ==
  /\ CanCall(t) /\ client_handles[x] = {p}
  /\ client_handles' = [client_handles EXCEPT ![x] = {}]
  /\ Disconnect({x})
  /\ UNCHANGED <<buffers, process, vma_map, panic>>

\* svcCloseHandle of the server's end.
CloseServerSession(t, x) ==
  /\ CanCall(t) /\ x \in server_handles
  /\ Settle(session, wait_objects, server_handles \ {x}, pending_sessions,
            active_sessions, sent_to)
  /\ UNCHANGED <<status, buffers, client_handles, process, vma_map, panic>>

\* KernelSystem::TerminateProcess of the clients' process: its threads are
\* stopped, wherever they are; the sessions are not told (Thread::Stop).
TerminateProcess ==
  /\ panic = "none" /\ process = "Running"
  /\ process' = "Exited"
  /\ status' = [t \in DOMAIN status |-> IF t \in Clients THEN "Dead" ELSE status[t]]
  /\ UNCHANGED <<sent_to, buffers, wait_objects, session, handleVars,
                 active_sessions, vma_map, left_behind, panic>>

\* ~Process, when nothing refers to it any more: its handles are closed.
DestroyProcess ==
  LET held == {x \in Sessions : "client" \in client_handles[x]} IN
    /\ panic = "none" /\ process = "Exited"
    /\ process' = "Destroyed"
    /\ client_handles' = [x \in Sessions |-> client_handles[x] \ {"client"}]
    /\ Disconnect(held)
    /\ UNCHANGED <<buffers, vma_map, panic>>

\* A new process with threads of its own.
RunProcess ==
  /\ panic = "none" /\ process = "Destroyed"
  /\ process' = "Running"
  /\ status' = [t \in DOMAIN status |-> IF t \in Clients THEN "Running" ELSE status[t]]
  /\ sent_to' = [t \in Clients |-> Port] /\ buffers' = [t \in Clients |-> <<>>]
  /\ UNCHANGED <<wait_objects, session, handleVars, active_sessions, vma_map,
                 left_behind, panic>>

Next ==
  \/ \E t \in Clients, x \in Sessions :
       \/ \E room \in BOOLEAN : Connect(t, x, room)
       \/ \E pages \in Requests : SendSyncRequest(t, x, pages)
       \/ CloseClientSession(t, "client", x)
  \/ \E w \in Servers, room \in BOOLEAN :
       AcceptSession(w, room) \/ \E x \in Sessions : CreateSession(w, x, room)
  \/ \E w \in Servers, objects \in Lists : ReceiveOnly(w, objects)
  \/ \E w \in Servers, x \in server_handles :
       /\ CanReply(w, x)
       /\ \E moved \in {{}} \cup {{y} : y \in {z \in Sessions : client_handles[z] = {"server"}}},
             returned \in SUBSET ToSet(session[x].context), objects \in Lists :
            ReplyAndReceive(w, x, objects, moved, returned)
  \/ \E w \in Servers, x \in Sessions :
       CloseServerSession(w, x) \/ CloseClientSession(w, "server", x)
  \/ TerminateProcess \/ DestroyProcess \/ RunProcess

Spec == Init /\ [][Next]_vars

-----------------------------------------------------------------------------
\* Properties.

Open(x) == session[x].client /\ session[x].server

TypeOK ==
  /\ status \in [Clients \cup Servers -> {"Running", "WaitIPC", "WaitSynchAny", "Dead"}]
  /\ server_handles \subseteq Sessions /\ pending_sessions \in Seq(Sessions)
  /\ \A x \in Sessions : /\ session[x].pending \in Seq(Clients)
                         /\ session[x].handling \in Clients \cup {NoThread}
  /\ \A w \in Servers : wait_objects[w] # {} <=> status[w] = "WaitSynchAny"

\* How often a session has the request of a thread: among the pending ones or
\* as the one that is handled.
Occurrences(x, t) ==
  Cardinality({i \in DOMAIN session[x].pending : session[x].pending[i] = t})
    + IF session[x].handling = t THEN 1 ELSE 0

\* A client that waits for an answer has its request in the session it sent it
\* to, pending or handled, exactly once and nowhere else, as long as both ends
\* of that session exist; and no session has the request of a thread that is
\* awake, so that no answer goes to a thread that does not wait for one
\* (HandleSyncRequest, Acquire, ~ClientSession, svcReplyAndReceive).
RequestsAccounted ==
  /\ TypeOK
  /\ \A t \in Clients, x \in Sessions :
       status[t] # "Dead" =>
         Occurrences(x, t) = IF status[t] = "WaitIPC" /\ sent_to[t] = x THEN 1 ELSE 0

\* The port counts the server's ends that still exist, however they came to be
\* dropped, and admits no more than max_sessions; the sessions that wait to be
\* accepted are among them (Connect, Accept, ConnectionClosed).
PortCountExact ==
  /\ active_sessions = Cardinality({x \in Sessions : session[x].server /\ session[x].port})
  /\ active_sessions <= MaxSessions
  /\ \A i \in DOMAIN pending_sessions :
       LET x == pending_sessions[i]
       IN session[x].server /\ session[x].port /\ x \notin server_handles

MappedPages == {p \in Pages : vma_map[FindVMA(vma_map, p)].state # "Free"}
PagesOf(buffer) == buffer.target - 1 .. buffer.target + buffer.pages
Contexts == left_behind \cup UNION {ToSet(session[x].context) : x \in Sessions}

\* The buffers of requests lie side by side between their guard pages until a
\* reply returns them, and a session with a client has more than an earlier
\* reply kept only while it handles a request; nothing else stays mapped but
\* what a session that closed in the middle of a request has left behind.  So a
\* reply finds what it asserts, and with buffers of one size and room for one
\* per session only what was kept or left behind can make a request fail
\* (TranslateCommandBuffer, mapped_buffer_context).
BuffersIntact ==
  /\ \A x \in Sessions : \A b \in ToSet(session[x].context) :
       /\ Intact(vma_map, b)
       /\ session[x].client /\ ~b.kept => session[x].handling # NoThread
  /\ \A x, y \in Sessions : \A i \in DOMAIN session[x].context, j \in DOMAIN session[y].context :
       <<x, i>> # <<y, j>> =>
         PagesOf(session[x].context[i]) \cap PagesOf(session[y].context[j]) = {}
  /\ MappedPages = UNION {PagesOf(b) : b \in Contexts}
  /\ panic # "none" => /\ panic = "Failed to map target address"
                       /\ \E b \in Contexts : b \in left_behind \/ b.kept

\* What a thread of the server sleeps on is not available: no connection and no
\* client that has gone is missed by anyone who listens for it, although all the
\* threads listen to lists of their own.  The one exception is a request that
\* waits behind another: the reply that frees the session wakes nobody but the
\* client, so the request waits on while threads sleep on its session, unless
\* all of them do; the last to fall asleep would have seen it
\* (svcReplyAndReceive, WakeupAllWaitingThreads).
NoLostRequest ==
  \A w \in Servers : \A o \in wait_objects[w] :
    \/ ShouldWait(session, pending_sessions, o)
    \/ /\ o # Port /\ session[o].client
       /\ \E v \in Servers : o \notin wait_objects[v]
=============================================================================
