-------------------------- MODULE KernelLifeProofs --------------------------
(***************************************************************************)
(* Proofs about Kernel that rest on KernelProofs and on what the history   *)
(* variable misuse has recorded.  Until a dead thread has made a call: no  *)
(* event is stale, priorities are inherited, and an exited process leaves  *)
(* nothing behind.  Until there has been any kind of misuse: no assertion  *)
(* fails and the list of the arbiter is exact.                             *)
(*                                                                         *)
(* What makes this inductive.  LifeInv says that a thread that has been    *)
(* stopped does not come back, DutyInv in which order calls stand on the   *)
(* stack, so that each finds what it asserts.                              *)
(***************************************************************************)
EXTENDS KernelProofs

-----------------------------------------------------------------------------
\* The calls that each step makes.

Ops(calls, S) == \A i \in DOMAIN calls : calls[i][1] \in S
Makes(S) == todo = <<>> /\ IsTodo(todo') /\ Ops(todo', S)
Pushes(S) == todo # <<>> /\ \E new : IsTodo(new) /\ Ops(new, S) /\ todo' = new \o todo
Returns(S) == todo # <<>> /\ \E new : IsTodo(new) /\ Ops(new, S) /\ todo' = new \o Tail(todo)

\* A call that just returns.
LEMMA JustReturns ==
  ASSUME todo # <<>>, Return(<<>>)
  PROVE  Returns({})
BY TodoNone DEF Returns, Return, Ops

\* A call that gives way to a single one.
LEMMA ReturnsOne ==
  ASSUME todo # <<>>, NEW op \in OpCalls, NEW x, NEW y, Return(<<Call(op, x, y)>>)
  PROVE  Returns({op})
<1>1. PICK new : new = <<Call(op, x, y)>>
  OBVIOUS
<1>2. IsTodo(new) /\ Ops(new, {op})
  BY <1>1, OneFacts DEF Ops
<1> QED
  BY <1>1, <1>2 DEF Returns, Return

\* A call that makes a single one before it goes on.
LEMMA PushesOne ==
  ASSUME todo # <<>>, NEW op \in OpCalls, NEW x, NEW y, todo' = <<Call(op, x, y)>> \o todo
  PROVE  Pushes({op})
<1>1. PICK new : new = <<Call(op, x, y)>>
  OBVIOUS
<1>2. IsTodo(new) /\ Ops(new, {op})
  BY <1>1, OneFacts DEF Ops
<1> QED
  BY <1>1, <1>2 DEF Pushes

\* A supervisor call or event that makes a single call, or none.
LEMMA MakesOne ==
  ASSUME todo = <<>>, NEW op \in OpCalls, NEW x, NEW y,
         todo' = <<>> \/ todo' = <<Call(op, x, y)>>
  PROVE  Makes({op})
<1>1. CASE todo' = <<>>
  BY <1>1, TodoNone DEF Makes, Ops
<1>2. CASE todo' = <<Call(op, x, y)>>
  BY <1>2, OneFacts DEF Makes, Ops
<1> QED
  BY <1>1, <1>2

\* The calls that end a wait.
Endings == {"WakeUp", "RemoveWaitingThread", "ResumeFromWait"}
LEMMA EndWaitOps ==
  ASSUME IInv, NEW t \in Threads, NEW cause, NEW e, e = EndWait(t, cause)
  PROVE  IsTodo(e) /\ Ops(e, Endings)
<1>1. /\ IsTodo(e) /\ e[1] = Call("WakeUp", t, cause)
      /\ \A i \in DOMAIN e : \/ i = 1 \/ e[i] = Resumed(t)
                             \/ \E o \in ToSet(wait_objects[t]) : e[i] = Leave(t, o)
  BY EndWaitFacts
<1> QED
  BY <1>1 DEF Ops, Endings, Resumed, Leave, Call

\* The waiter that WakeupAllWaitingThreads has found.
LEMMA WakeupNextCalls ==
  ASSUME IInv, NEW o \in Objects, WakeupNext(o)
  PROVE  \E t \in Threads, acquired \in Seq(Objects) : \E new :
           /\ Waiting(t, o) /\ ReadyFor(t, o)
           /\ panic' = "none" => WaitersWait(o) /\ status[t] \in Synching
           /\ acquired = IF status[t] = "WaitSynchAll" THEN wait_objects[t] ELSE <<o>>
           /\ new = ForEach("Acquire", t, acquired) \o EndWait(t, o)
           /\ IsTodo(new) /\ Ops(new, Endings \cup {"Acquire"}) /\ todo' = new \o todo
<1>1. waiting_threads[o] \in Seq(Threads) /\ wait_objects \in [Threads -> Seq(Objects)]
  BY ListTypes
<1>2. PICK i \in Candidate(o) :
        LET t == waiting_threads[o][i]
            acquired == IF status[t] = "WaitSynchAll" THEN wait_objects[t] ELSE <<o>>
        IN todo' = ForEach("Acquire", t, acquired) \o EndWait(t, o) \o todo
  BY ZenonT(40) DEF WakeupNext
<1>3. /\ i \in DOMAIN waiting_threads[o] /\ i \in 1..Len(waiting_threads[o])
      /\ ReadyFor(waiting_threads[o][i], o)
  BY <1>1, <1>2, LenProperties DEF Candidate
<1>4. PICK t \in Threads : t = waiting_threads[o][i]
  BY <1>1, <1>3, ElementOfSeq
<1>5. PICK acquired :
        /\ acquired = IF status[t] = "WaitSynchAll" THEN wait_objects[t] ELSE <<o>>
        /\ todo' = ForEach("Acquire", t, acquired) \o EndWait(t, o) \o todo
  BY <1>2, <1>4
<1>6. acquired \in Seq(Objects)
  <2>1. wait_objects[t] \in Seq(Objects) /\ <<o>> \in Seq(Objects)
    BY <1>1
  <2> QED
    BY <1>5, <2>1
<1>7. panic' = "none" => WaitersWait(o) /\ status[t] \in Synching
  BY <1>3, <1>4 DEF WakeupNext, AssertThat, WaitersWait, Synching
<1>8. Waiting(t, o)
  BY <1>1, <1>3, <1>4, ToSetMember DEF Waiting
<1>9. PICK a, e, new : a = ForEach("Acquire", t, acquired) /\ e = EndWait(t, o) /\ new = a \o e
  OBVIOUS
<1>10. IsTodo(a) /\ \A j \in DOMAIN a : a[j][1] = "Acquire"
  BY <1>6, <1>9, ForEachFacts DEF OpCalls
<1>11. IsTodo(e) /\ Ops(e, Endings)
  BY <1>9, EndWaitOps
<1>12. IsTodo(new)
  BY <1>9, <1>10, <1>11, TodoConcat
<1>13. \A j \in DOMAIN new : (j \in DOMAIN a /\ new[j] = a[j]) \/ \E k \in DOMAIN e : new[j] = e[k] /\ j = k + Len(a)
  BY <1>9, <1>10, <1>11, FromConcat
<1>14. Ops(new, Endings \cup {"Acquire"})
  BY <1>10, <1>11, <1>13 DEF Ops
<1> QED
  BY <1>3, <1>4, <1>5, <1>6, <1>7, <1>8, <1>9, <1>12, <1>14, ZenonT(40)

\* The calls on objects return, except that WakeupAllWaitingThreads ends the
\* wait of a thread.
ObjectOps ==
  {"Acquire", "AddWaitingThread", "RemoveWaitingThread", "WakeupAllWaitingThreads", "WakeUp",
   "ResumeFromWait"}
LEMMA ObjectCallOps ==
  ASSUME IInv, ObjectCall
  PROVE  /\ todo # <<>> /\ Head(todo)[1] \in ObjectOps
         /\ \/ Returns({})
            \/ Head(todo)[1] = "WakeupAllWaitingThreads" /\ Pushes(Endings \cup {"Acquire"})
<1>1. ASSUME NEW o \in Objects, WakeupNext(o)
      PROVE  /\ todo # <<>> /\ Head(todo)[1] \in ObjectOps
             /\ Head(todo)[1] = "WakeupAllWaitingThreads" /\ Pushes(Endings \cup {"Acquire"})
  <2>1. todo # <<>> /\ Head(todo)[1] = "WakeupAllWaitingThreads"
    BY <1>1 DEF WakeupNext, Calling
  <2> QED
    BY <1>1, <2>1, WakeupNextCalls DEF Pushes, ObjectOps
<1>2. ASSUME ~ \E o \in Objects : WakeupNext(o)
      PROVE  todo # <<>> /\ Head(todo)[1] \in ObjectOps /\ Return(<<>>)
  BY <1>2 DEF ObjectCall, AcquireMutex, AcquireSemaphore, AcquireSignal, AcquireThread, AddWaitingThread,
     RemoveWaitingThread, WakeupDone, SyncWakeUp, ResumeFromWait, Calling, ObjectOps
<1> QED
  BY <1>1, <1>2, JustReturns

\* The calls of the address arbiter resume threads.
ArbiterOps == {"ResumeAllThreads", "ResumeHighestPriorityThread", "WakeUp"}
LEMMA ResumeAllCalls ==
  ASSUME IInv, NEW a \in Addresses, ResumeAllThreads(a)
  PROVE  \E found, rest, new :
           /\ found \in InOrder(Matches(a)) /\ rest \in InOrder(Others(a))
           /\ arbiter_threads' = ThreadsAt(rest)
           /\ new = [i \in DOMAIN found |-> Call("ResumeFromWait", arbiter_threads[found[i]], "keep")]
           /\ IsTodo(new) /\ Ops(new, {"ResumeFromWait"}) /\ Return(new)
<1>1. PICK found, rest, new :
        /\ found \in InOrder(Matches(a)) /\ rest \in InOrder(Others(a))
        /\ arbiter_threads' = ThreadsAt(rest)
        /\ new = [i \in DOMAIN found |-> Call("ResumeFromWait", arbiter_threads[found[i]], "keep")]
        /\ Return(new)
  BY DEF ResumeAllThreads
<1>2. DOMAIN found = 1..Len(found) /\ Len(found) \in Nat
  <2>1. Matches(a) \in SUBSET DOMAIN arbiter_threads /\ arbiter_threads \in Seq(Threads)
    BY DEF Matches, IInv, CallInv, OtherTypes
  <2>2. found \in Seq(DOMAIN arbiter_threads)
    BY <1>1, <2>1, PlacesType
  <2> QED
    BY <2>2, LenProperties
<1>3. \A i \in DOMAIN new : new[i][1] = "ResumeFromWait"
  BY <1>1 DEF Call
<1>4. new = [i \in 1..Len(found) |-> new[i]] /\ \A i \in 1..Len(found) : new[i][1] \in OpCalls
  BY <1>1, <1>2, <1>3 DEF OpCalls
<1>5. IsTodo(new)
  BY <1>2, <1>4, TodoFunction
<1> QED
  BY <1>1, <1>3, <1>5 DEF Ops

\* All of them.
LEMMA ArbiterCallOps ==
  ASSUME IInv, ArbiterCall
  PROVE  /\ todo # <<>> /\ Head(todo)[1] \in ArbiterOps /\ Returns({"ResumeFromWait"})
         /\ Head(todo)[1] = "WakeUp" => Returns({})
<1>1. ASSUME NEW a \in Addresses, ResumeAllThreads(a)
      PROVE  todo # <<>> /\ Head(todo)[1] = "ResumeAllThreads" /\ Returns({"ResumeFromWait"})
  <2>1. todo # <<>> /\ Head(todo)[1] = "ResumeAllThreads"
    BY <1>1 DEF ResumeAllThreads, Calling
  <2> QED
    BY <1>1, <2>1, ResumeAllCalls DEF Returns, Return
<1>2. ASSUME NEW a \in Addresses, ResumeHighestPriorityThread(a)
      PROVE  todo # <<>> /\ Head(todo)[1] = "ResumeHighestPriorityThread" /\ Returns({"ResumeFromWait"})
  <2>1. todo # <<>> /\ Head(todo)[1] = "ResumeHighestPriorityThread"
    BY <1>2 DEF ResumeHighestPriorityThread, Calling
  <2>2. Return(<<>>) \/ \E u : Return(<<Call("ResumeFromWait", u, "keep")>>)
    BY <1>2 DEF ResumeHighestPriorityThread
  <2>3. Returns({}) => Returns({"ResumeFromWait"})
    BY DEF Returns, Ops
  <2>4. "ResumeFromWait" \in OpCalls
    BY DEF OpCalls
  <2> QED
    BY <2>1, <2>2, <2>3, <2>4, JustReturns, ReturnsOne
<1>3. ASSUME NEW t \in Threads, ArbiterWakeUp(t)
      PROVE  todo # <<>> /\ Head(todo)[1] = "WakeUp" /\ Returns({})
  BY <1>3, JustReturns DEF ArbiterWakeUp, Calling
<1>4. Returns({}) => Returns({"ResumeFromWait"})
  BY DEF Returns, Ops
<1> QED
  BY <1>1, <1>2, <1>3, <1>4 DEF ArbiterCall, ArbiterOps

\* No calls.
LEMMA MakesNone ==
  ASSUME todo = <<>>, todo' = <<>>, NEW S
  PROVE  Makes(S)
BY TodoNone DEF Makes, Ops

\* Calls of one kind.
LEMMA MakesMany ==
  ASSUME todo = <<>>, NEW op \in OpCalls, NEW n \in Nat, DOMAIN todo' = 1..n,
         todo' = [i \in 1..n |-> todo'[i]], \A i \in 1..n : todo'[i][1] = op
  PROVE  Makes({op})
<1>1. IsTodo(todo')
  BY TodoFunction
<1> QED
  BY <1>1 DEF Makes, Ops

\* The supervisor calls that wait: t sleeps on a list of objects, or takes one
\* or all of them.
ForAll(t, objects) == \E delay \in program.delays : WaitSynchronizationAll(t, objects, delay)
Sleeps(t) ==
  /\ WaitSvc(t)
  /\ \E objects \in program.handles[t], w \in Synching, delay \in program.delays :
       Executes(t) /\ Sleep(t, objects, w, delay) /\ (w = "WaitSynchAll" => ForAll(t, objects))
Takes(t) ==
  \E objects \in program.handles[t], one \in Seq(Objects) :
    /\ (one = objects /\ ForAll(t, objects)) \/ \E i \in DOMAIN objects : one = <<objects[i]>>
    /\ Executes(t) /\ Take(t, one) /\ \A i \in DOMAIN one : ~ShouldWait(one[i], t)

\* They do one of these.
LEMMA WaitSvcCases ==
  ASSUME IInv, NEW t \in Threads, WaitSvc(t)
  PROVE  /\ Executes(t)
         /\ Sleeps(t) \/ Takes(t) \/ \E delay \in program.delays : SleepThread(t, delay)
<1>1. ASSUME NEW objects \in program.handles[t], NEW delay \in program.delays,
             \/ Len(objects) = 1 /\ WaitSynchronization1(t, objects[1], delay)
             \/ WaitSynchronizationAny(t, objects, delay)
             \/ WaitSynchronizationAll(t, objects, delay)
      PROVE  Executes(t) /\ (Sleeps(t) \/ Takes(t))
  <2>1. objects \in Seq(Objects) /\ DOMAIN objects = 1..Len(objects)
    <3>1. objects \in Seq(Objects)
      BY KernelAssumption DEF IInv
    <3> QED
      BY <3>1, LenProperties
  <2>2. \A i \in DOMAIN objects : objects[i] \in Objects /\ <<objects[i]>> \in Seq(Objects)
    BY <2>1, ElementOfSeq
  <2>3. Executes(t)
    BY <1>1 DEF WaitSynchronization1, WaitSynchronizationAny, WaitSynchronizationAll
  <2>4. "WaitSynchAny" \in Synching /\ "WaitSynchAll" \in Synching
    BY DEF Synching
  <2>5. ASSUME NEW i \in DOMAIN objects, ~ShouldWait(objects[i], t), Take(t, <<objects[i]>>) PROVE Takes(t)
    <3>1. PICK one : one = <<objects[i]>>
      OBVIOUS
    <3>2. one \in Seq(Objects) /\ \A j \in DOMAIN one : one[j] = objects[i]
      BY <2>2, <3>1
    <3> QED
      BY <2>3, <2>5, <3>1, <3>2 DEF Takes
  <2>6. CASE Len(objects) = 1 /\ WaitSynchronization1(t, objects[1], delay)
    <3>1. 1 \in DOMAIN objects /\ objects = <<objects[1]>>
      BY <2>1, <2>6
    <3>2. CASE ShouldWait(objects[1], t)
      <4>1. Sleep(t, objects, "WaitSynchAny", delay)
        BY <2>6, <3>1, <3>2 DEF WaitSynchronization1
      <4> QED
        BY <2>3, <2>4, <4>1 DEF Sleeps
    <3>3. CASE ~ShouldWait(objects[1], t)
      BY <2>3, <2>5, <2>6, <3>1, <3>3 DEF WaitSynchronization1
    <3> QED
      BY <2>3, <3>2, <3>3
  <2>7. CASE WaitSynchronizationAny(t, objects, delay)
    BY <2>3, <2>4, <2>5, <2>7 DEF WaitSynchronizationAny, Sleeps
  <2>8. CASE WaitSynchronizationAll(t, objects, delay)
    <3>1. ForAll(t, objects)
      BY <2>8 DEF ForAll
    <3>2. CASE (\A i \in DOMAIN objects : ~ShouldWait(objects[i], t)) /\ Take(t, objects)
      BY <2>1, <2>3, <3>1, <3>2 DEF Takes
    <3>3. CASE Sleep(t, objects, "WaitSynchAll", delay)
      BY <2>3, <2>4, <3>1, <3>3 DEF Sleeps
    <3> QED
      BY <2>8, <3>2, <3>3 DEF WaitSynchronizationAll
  <2> QED
    BY <1>1, <2>6, <2>7, <2>8
<1>2. ASSUME NEW delay \in program.delays, SleepThread(t, delay) PROVE Executes(t)
  BY <1>2 DEF SleepThread
<1> QED
  BY <1>1, <1>2 DEF WaitSvc

\* What the supervisor calls on objects and priorities begin with.
LEMMA WaitSvcOps ==
  ASSUME IInv, NEW t \in Threads, WaitSvc(t)
  PROVE  Makes({"AddWaitingThread", "Acquire"})
<1>1. todo = <<>>
  BY WaitSvcCases DEF Executes, Executing, AtRest
<1>2. ASSUME NEW objects \in Seq(Objects), NEW op \in {"AddWaitingThread", "Acquire"},
             todo' = ForEach(op, t, objects)
      PROVE  Makes({"AddWaitingThread", "Acquire"})
  <2>1. op \in OpCalls
    BY DEF OpCalls
  <2>2. IsTodo(todo') /\ \A i \in DOMAIN todo' : todo'[i][1] = op
    BY <1>2, <2>1, ForEachFacts
  <2> QED
    BY <1>1, <2>2 DEF Makes, Ops
<1>3. CASE Sleeps(t)
  <2>1. PICK objects \in program.handles[t] : todo' = ForEach("AddWaitingThread", t, objects)
    BY <1>3 DEF Sleeps, Sleep
  <2>2. objects \in Seq(Objects)
    BY <2>1, KernelAssumption DEF IInv
  <2> QED
    BY <1>2, <2>1, <2>2
<1>4. CASE Takes(t)
  <2>1. PICK one \in Seq(Objects) : todo' = ForEach("Acquire", t, one)
    BY <1>4 DEF Takes, Take
  <2> QED
    BY <1>2, <2>1
<1>5. ASSUME NEW delay, SleepThread(t, delay) PROVE Makes({"AddWaitingThread", "Acquire"})
  BY <1>1, <1>5, MakesNone DEF SleepThread
<1> QED
  BY <1>3, <1>4, <1>5, WaitSvcCases

\* Signalling begins with waking the waiters.
LEMMA SignalOps ==
  ASSUME NEW t \in Threads,
         \/ \E m \in Mutexes : ReleaseMutex(t, m)
         \/ \E s \in Semaphores, n \in program.counts : ReleaseSemaphore(t, s, n)
         \/ \E e \in Events : SignalEvent(t, e)
         \/ \E e \in Signals : Clear(t, e)
         \/ \E x \in Timers : CancelTimer(t, x)
  PROVE  Executes(t) /\ Makes({"WakeupAllWaitingThreads"})
<1>1. Executes(t) /\ todo = <<>>
  BY DEF ReleaseMutex, ReleaseSemaphore, SignalEvent, Clear, CancelTimer, Executes, Executing, AtRest
<1>2. todo' = <<>> \/ \E o, y : todo' = <<Call("WakeupAllWaitingThreads", o, y)>>
  BY <1>1 DEF ReleaseMutex, ReleaseSemaphore, SignalEvent, Clear, CancelTimer
<1>3. "WakeupAllWaitingThreads" \in OpCalls
  BY DEF OpCalls
<1> QED
  BY <1>1, <1>2, <1>3, MakesOne

\* svcArbitrateAddress begins with resuming threads.
LEMMA ArbiterSvcOps ==
  ASSUME IInv, NEW t \in Threads, ArbiterSvc(t)
  PROVE  /\ Executes(t)
         /\ Makes({"ResumeAllThreads"}) \/ Makes({"ResumeHighestPriorityThread"})
<1>1. Executes(t) /\ todo = <<>>
  BY DEF ArbiterSvc, ArbitrateSignal, ArbitrateWait, ArbitrateNoWait, Executes, Executing, AtRest
<1>2. ASSUME NEW a, NEW value \in Int, ArbitrateSignal(t, a, value)
      PROVE  Makes({"ResumeAllThreads"}) \/ Makes({"ResumeHighestPriorityThread"})
  <2>1. CASE value < 0
    BY <1>1, <1>2, <2>1, MakesOne DEF ArbitrateSignal, OpCalls
  <2>2. CASE ~(value < 0)
    <3>1. todo' = [i \in 1..value |-> Call("ResumeHighestPriorityThread", a, value)]
      BY <1>2, <2>2 DEF ArbitrateSignal
    <3>2. \A i \in 1..value : todo'[i][1] = "ResumeHighestPriorityThread"
      BY <3>1 DEF Call
    <3>3. todo' = [i \in 1..value |-> todo'[i]] /\ DOMAIN todo' = 1..value /\ value \in Nat
      BY <2>2, <3>1
    <3>4. "ResumeHighestPriorityThread" \in OpCalls
      BY DEF OpCalls
    <3> QED
      BY <1>1, <3>2, <3>3, <3>4, MakesMany
  <2> QED
    BY <2>1, <2>2
<1>3. program.values \subseteq Int
  BY KernelAssumption DEF IInv
<1>4. ASSUME todo' = todo PROVE Makes({"ResumeAllThreads"})
  BY <1>1, <1>4, MakesNone
<1> QED
  BY <1>1, <1>2, <1>3, <1>4 DEF ArbiterSvc, ArbitrateWait, ArbitrateNoWait

\* The time of a thread is up.
LEMMA WakeupCallbackOps ==
  ASSUME IInv, NEW c \in Cores, NEW t \in Threads, ThreadWakeupCallback(c, t)
  PROVE  Makes(Endings)
<1>1. /\ todo = <<>>
      /\ todo' = EndWait(t, "Timeout") \/ todo' = <<Call("ResumeFromWait", t, "keep")>>
  BY DEF ThreadWakeupCallback, Advancing, AtRest
<1>2. CASE todo' = EndWait(t, "Timeout")
  BY <1>1, <1>2, EndWaitOps DEF Makes
<1>3. CASE todo' = <<Call("ResumeFromWait", t, "keep")>>
  <2>1. "ResumeFromWait" \in OpCalls
    BY DEF OpCalls
  <2>2. Makes({"ResumeFromWait"})
    BY <1>1, <1>3, <2>1, MakesOne
  <2> QED
    BY <2>2 DEF Makes, Ops, Endings
<1> QED
  BY <1>1, <1>2, <1>3

\* What a timer that expires begins with.
LEMMA TimerOps ==
  ASSUME todo = <<>>, NEW x, NEW again \in BOOLEAN, todo' = TimerSignal(x, again)
  PROVE  /\ Makes({"WakeupAllWaitingThreads", "ScheduleEvent"})
         /\ \A i \in DOMAIN todo' : todo'[i][2] = x
         /\ \A i \in DOMAIN todo' : todo'[i][1] = "ScheduleEvent" => \A j \in DOMAIN todo' : j <= i
<1>1. PICK a, b : /\ a = <<Call("WakeupAllWaitingThreads", x, "Signal")>>
                  /\ b = IF again THEN <<Call("ScheduleEvent", x, "Signal")>> ELSE <<>>
  OBVIOUS
<1>2. "WakeupAllWaitingThreads" \in OpCalls /\ "ScheduleEvent" \in OpCalls
  BY DEF OpCalls
<1>3. IsTodo(a) /\ DOMAIN a = {1} /\ a[1][1] = "WakeupAllWaitingThreads" /\ a[1][2] = x /\ Len(a) = 1
  BY <1>1, <1>2, OneFacts
<1>4. IsTodo(b) /\ (b = <<>> \/ (DOMAIN b = {1} /\ b[1][1] = "ScheduleEvent" /\ b[1][2] = x /\ Len(b) = 1))
  BY <1>1, <1>2, OneFacts, TodoNone
<1>5. PICK r : r = todo' /\ r = a \o b
  BY <1>1 DEF TimerSignal
<1>6. Stacked(r, a, b) /\ IsTodo(r)
  BY <1>3, <1>4, <1>5, StackConcat, TodoConcat
<1>7. /\ \A i \in DOMAIN r : (i = 1 /\ r[i] = a[1]) \/ (i = 2 /\ b # <<>> /\ r[i] = b[1])
      /\ DOMAIN r = 1..Len(r) /\ Len(r) \in Nat
  BY <1>3, <1>4, <1>6 DEF Stacked
<1>8. \A i \in DOMAIN r : r[i][2] = x /\ r[i][1] \in {"WakeupAllWaitingThreads", "ScheduleEvent"}
  BY <1>3, <1>4, <1>7
<1>9. \A i \in DOMAIN r : r[i][1] = "ScheduleEvent" => i = 2
  BY <1>3, <1>7
<1>10. \A i, j \in DOMAIN r : i = 2 => j <= i
  BY <1>7
<1> QED
  BY <1>5, <1>6, <1>8, <1>9, <1>10 DEF Makes, Ops

-----------------------------------------------------------------------------
\* The lives of threads.  The code looks at the current thread of a core and not
\* at its status, so a thread that another core has stopped can go on making
\* calls, and come back to life.  Such calls are recorded in misuse; what follows
\* is about the steps before the first of them, in which every thread that acts
\* is alive.
ActsAlive == \A t \in Threads : Executes(t) => status[t] # "Dead"
LivingStep == RunLoop \/ ActsAlive

Lives(t) == status[t] \notin {"None", "Dead"}
Stopping(t) == Call("Stop", t, "Stop")
EndingOn(p, c) == Call("TerminateProcessThreads", p, c)

\* A thread that is about to be stopped is in no list of threads.
Doomed(t) == \A c \in Cores : t \notin ToSet(thread_list[c])
StoppingOK ==
  \A i \in DOMAIN todo : todo[i][1] = "Stop" => \E t \in Threads : todo[i] = Stopping(t) /\ Doomed(t)

\* thread_list holds the living threads of each core.
RosterOK ==
  /\ \A c \in Cores : NoDuplicates(thread_list[c])
  /\ \A c \in Cores, t \in Threads : t \in ToSet(thread_list[c]) => CoreOf[t] = c /\ Lives(t)
  /\ \A t \in Threads : Lives(t) =>
       t \in registered /\ (t \in ToSet(thread_list[CoreOf[t]]) \/ Has(todo, Stopping(t)))

\* A thread or timer has at most one event, a thread only while it sleeps or has
\* just been woken; a timer that is about to be armed again has none.
SingleEvent(x) ==
  \A c \in Cores : events[c][x] > 0 => events[c][x] = 1 /\ \A d \in Cores \ {c} : events[d][x] = 0
NoEvent(x) == \A c \in Cores : events[c][x] = 0
EventsOK ==
  /\ \A x \in Sources : SingleEvent(x)
  /\ \A t \in Threads : status[t] \in Waits \cup {"Ready"} \/ NoEvent(t)
  /\ \A i \in DOMAIN todo : todo[i][1] = "ScheduleEvent" =>
       NoEvent(todo[i][2]) /\ \A j \in DOMAIN todo : j <= i

LifeInv == StoppingOK /\ RosterOK /\ EventsOK

-----------------------------------------------------------------------------
\* Most calls leave the calls that decide over lives on the stack as they are.
Heavy == {"Stop", "TerminateProcessThreads", "ScheduleEvent"}
Light(calls) == \A i \in DOMAIN calls : calls[i][1] \notin Heavy

Lowest(calls, i) == \A j \in DOMAIN calls : j <= i

\* The heavy calls of a stack are those of another.
HeavyFrom(r, a) ==
  \A i \in DOMAIN r : r[i][1] \in Heavy =>
    \E k \in DOMAIN a : r[i] = a[k] /\ (Lowest(a, k) => Lowest(r, i))
HeavyIn(r, a) == \A k \in DOMAIN a : a[k][1] \in Heavy => Has(r, a[k])
SameHeavy == HeavyFrom(todo', todo) /\ HeavyIn(todo', todo)

\* Light calls on top of a stack.
LEMMA LightConcat ==
  ASSUME NEW a, NEW b, IsTodo(a), IsTodo(b), Light(a), NEW r, r = a \o b
  PROVE  HeavyFrom(r, b) /\ HeavyIn(r, b)
<1>1. /\ \A i \in DOMAIN r : \/ i \in DOMAIN a /\ r[i] = a[i]
                            \/ \E k \in DOMAIN b : r[i] = b[k] /\ i = k + Len(a)
      /\ \A k \in DOMAIN b : k + Len(a) \in DOMAIN r /\ r[k + Len(a)] = b[k]
      /\ DOMAIN a = 1..Len(a) /\ DOMAIN b = 1..Len(b) /\ DOMAIN r = 1..Len(r)
      /\ Len(a) \in Nat /\ Len(b) \in Nat /\ Len(r) = Len(a) + Len(b)
  BY StackConcat DEF Stacked
<1>2. ASSUME NEW i \in DOMAIN r, r[i][1] \in Heavy
      PROVE  \E k \in DOMAIN b : r[i] = b[k] /\ (Lowest(b, k) => Lowest(r, i))
  <2>1. PICK k \in DOMAIN b : r[i] = b[k] /\ i = k + Len(a)
    BY <1>1, <1>2 DEF Light
  <2>2. ASSUME Lowest(b, k) PROVE Lowest(r, i)
    <3>1. k \in 1..Len(b) /\ Len(b) \in Nat
      BY <1>1
    <3>2. Len(b) \in DOMAIN b
      BY <1>1, <3>1
    <3>3. Len(b) <= k
      BY <2>2, <3>2 DEF Lowest
    <3> QED
      BY <1>1, <2>1, <3>1, <3>3 DEF Lowest
  <2> QED
    BY <2>1, <2>2
<1>3. HeavyIn(r, b)
  BY <1>1 DEF HeavyIn, Has
<1> QED
  BY <1>2, <1>3 DEF HeavyFrom

\* The head of a stack is gone.
LEMMA HeavyTail ==
  ASSUME NEW a, IsTodo(a), a # <<>>, NEW r, r = Tail(a)
  PROVE  /\ HeavyFrom(r, a)
         /\ Head(a)[1] \notin Heavy => HeavyIn(r, a)
<1>1. Popped(r, a)
  BY StackTail
<1>2. /\ 1 \in DOMAIN a /\ Head(a) = a[1] /\ DOMAIN a = 1..Len(a) /\ Len(a) \in Nat
      /\ \A i \in DOMAIN r : i \in Nat /\ i + 1 \in DOMAIN a /\ r[i] = a[i + 1]
      /\ \A k \in DOMAIN a : k = 1 \/ (k - 1 \in DOMAIN r /\ r[k - 1] = a[k])
  BY <1>1 DEF Popped
<1>3. ASSUME NEW i \in DOMAIN r
      PROVE  \E k \in DOMAIN a : r[i] = a[k] /\ (Lowest(a, k) => Lowest(r, i))
  <2>1. i \in Nat /\ i + 1 \in DOMAIN a /\ r[i] = a[i + 1]
    BY <1>2, <1>3
  <2>2. ASSUME Lowest(a, i + 1), NEW j \in DOMAIN r PROVE j <= i
    <3>1. j \in Nat /\ j + 1 \in DOMAIN a
      BY <1>2, <2>2
    <3>2. j + 1 <= i + 1
      BY <2>2, <3>1 DEF Lowest
    <3> QED
      BY <2>1, <3>1, <3>2
  <2> QED
    BY <2>1, <2>2 DEF Lowest
<1>4. Head(a)[1] \notin Heavy => HeavyIn(r, a)
  BY <1>2 DEF HeavyIn, Has
<1> QED
  BY <1>3, <1>4 DEF HeavyFrom

\* One stack after another.
LEMMA HeavyChain ==
  ASSUME NEW a, NEW b, NEW c
  PROVE  /\ HeavyFrom(c, b) /\ HeavyFrom(b, a) => HeavyFrom(c, a)
         /\ HeavyIn(c, b) /\ HeavyIn(b, a) => HeavyIn(c, a)
<1>1. ASSUME HeavyFrom(c, b), HeavyFrom(b, a) PROVE HeavyFrom(c, a)
  <2> SUFFICES ASSUME NEW i \in DOMAIN c, c[i][1] \in Heavy
               PROVE  \E k \in DOMAIN a : c[i] = a[k] /\ (Lowest(a, k) => Lowest(c, i))
    BY DEF HeavyFrom
  <2>1. PICK j \in DOMAIN b : c[i] = b[j] /\ (Lowest(b, j) => Lowest(c, i))
    BY <1>1 DEF HeavyFrom
  <2>2. PICK k \in DOMAIN a : b[j] = a[k] /\ (Lowest(a, k) => Lowest(b, j))
    BY <1>1, <2>1 DEF HeavyFrom
  <2> QED
    BY <2>1, <2>2
<1>2. ASSUME HeavyIn(c, b), HeavyIn(b, a) PROVE HeavyIn(c, a)
  BY <1>2 DEF HeavyIn, Has
<1> QED
  BY <1>1, <1>2

\* A call that returns, or makes light calls in its place.
LEMMA LightReturn ==
  ASSUME IsTodo(todo), todo # <<>>, NEW calls, IsTodo(calls), Light(calls), Return(calls)
  PROVE  HeavyFrom(todo', todo) /\ (Head(todo)[1] \notin Heavy => SameHeavy)
<1>1. PICK base : base = Tail(todo)
  OBVIOUS
<1>2. todo' = calls \o base
  BY <1>1 DEF Return
<1>3. HeavyFrom(base, todo) /\ (Head(todo)[1] \notin Heavy => HeavyIn(base, todo))
  BY <1>1, HeavyTail
<1>4. IsTodo(base)
  BY <1>1, TodoTail
<1>5. HeavyFrom(todo', base) /\ HeavyIn(todo', base)
  BY <1>2, <1>4, LightConcat
<1> QED
  BY <1>3, <1>5, HeavyChain DEF SameHeavy

\* A call that makes light calls and is not over.
LEMMA LightPush ==
  ASSUME IsTodo(todo), NEW calls, IsTodo(calls), Light(calls), todo' = calls \o todo
  PROVE  SameHeavy
BY LightConcat DEF SameHeavy

\* The stack stays, or has light calls only.
LEMMA LightStart ==
  ASSUME todo' = todo \/ (todo = <<>> /\ Light(todo'))
  PROVE  SameHeavy
BY DEF SameHeavy, HeavyFrom, HeavyIn, Has, Light, Lowest

\* A single light call.
LEMMA LightOne ==
  ASSUME NEW op \in OpCalls \ Heavy, NEW x, NEW y, NEW calls, calls = <<Call(op, x, y)>>
  PROVE  IsTodo(calls) /\ Light(calls)
BY OneFacts DEF Light

\* No call.
LEMMA LightNone == IsTodo(<<>>) /\ Light(<<>>)
BY TodoNone DEF Light

-----------------------------------------------------------------------------
\* What keeps each part of LifeInv.

\* The threads that are about to be stopped were so before, or are doomed now.
LEMMA StoppingKeeps ==
  ASSUME StoppingOK,
         \A c \in Cores : ToSet(thread_list'[c]) \subseteq ToSet(thread_list[c]),
         \A i \in DOMAIN todo' : todo'[i][1] = "Stop" =>
           Has(todo, todo'[i]) \/ \E t \in Threads : todo'[i] = Stopping(t) /\ Doomed(t)'
  PROVE  StoppingOK'
<1> SUFFICES ASSUME NEW i \in DOMAIN todo', todo'[i][1] = "Stop"
             PROVE  \E t \in Threads : todo'[i] = Stopping(t) /\ Doomed(t)'
  BY DEF StoppingOK, Stopping
<1>1. CASE Has(todo, todo'[i])
  <2>1. PICK k \in DOMAIN todo : todo[k] = todo'[i]
    BY <1>1 DEF Has
  <2>2. PICK t \in Threads : todo[k] = Stopping(t) /\ Doomed(t)
    BY <2>1 DEF StoppingOK
  <2> QED
    BY <2>1, <2>2 DEF Doomed
<1> QED
  BY <1>1

\* The lists of threads stay, and nobody dies or is born.
LEMMA RosterKeeps ==
  ASSUME RosterOK, thread_list' = thread_list, registered' = registered, HeavyIn(todo', todo),
         \A t \in Threads : Lives(t)' <=> Lives(t)
  PROVE  RosterOK'
<1>1. ASSUME NEW t, Has(todo, Stopping(t)) PROVE Has(todo', Stopping(t))
  BY <1>1 DEF Has, HeavyIn, Heavy, Stopping, Call
<1>2. \A c \in Cores : NoDuplicates(thread_list'[c])
  BY DEF RosterOK
<1>3. \A c \in Cores, t \in Threads : t \in ToSet(thread_list'[c]) => CoreOf[t] = c /\ Lives(t)'
  BY DEF RosterOK
<1>4. ASSUME NEW t \in Threads, Lives(t)'
      PROVE  t \in registered' /\ (t \in ToSet(thread_list'[CoreOf[t]]) \/ Has(todo', Stopping(t)))
  BY <1>1, <1>4 DEF RosterOK
<1> QED
  BY <1>2, <1>3, <1>4 DEF RosterOK, Stopping

\* An event fires or is cancelled.
Fewer(x) == \A c \in Cores : events'[c][x] \in {events[c][x], 0}

\* The only event of x is scheduled, for a thread that has gone to sleep.
Arms(x) == SingleEvent(x)' /\ (x \in Threads => status'[x] \in Waits)

\* Events are scheduled when there was none, and nobody runs with an event.
LEMMA EventsKeep ==
  ASSUME IInv, EventsOK,
         \A x \in Sources : Fewer(x) \/ Arms(x),
         \A t \in Threads : \/ status'[t] \in Waits \cup {"Ready"} \/ status'[t] = status[t] \/ NoEvent(t)',
         \A i \in DOMAIN todo' : todo'[i][1] = "ScheduleEvent" =>
           Lowest(todo', i) /\ \A c \in Cores : events'[c][todo'[i][2]] = 0
  PROVE  EventsOK'
<1>0. events \in [Cores -> [Sources -> Nat]]
  BY DEF IInv, CallInv, ThreadTypes
<1>1. ASSUME NEW x \in Sources PROVE SingleEvent(x)'
  <2>1. CASE Fewer(x)
    BY <1>0, <2>1 DEF Fewer, EventsOK, SingleEvent
  <2> QED
    BY <2>1 DEF Arms
<1>2. ASSUME NEW t \in Threads PROVE status'[t] \in Waits \cup {"Ready"} \/ NoEvent(t)'
  <2>1. CASE NoEvent(t) /\ Fewer(t)
    BY <2>1 DEF NoEvent, Fewer
  <2>2. t \in Sources
    BY DEF Sources
  <2> QED
    BY <2>1, <2>2 DEF EventsOK, Arms
<1> QED
  BY <1>1, <1>2 DEF EventsOK, NoEvent, Lowest

\* What most calls do: nobody dies or is born, and a thread that falls asleep
\* was executing.
LightStep ==
  /\ LoopStays /\ UNCHANGED <<current_thread, thread_list, registered>> /\ SameHeavy
  /\ \A t \in Threads : \/ status'[t] = status[t]
                        \/ status[t] \in Waits /\ status'[t] = "Ready"
                        \/ Executes(t) /\ status'[t] \in Waits
  /\ todo = <<>> \/ UNCHANGED events
  /\ \A x \in Sources : Fewer(x) \/ Arms(x)

\* The thread that executes runs.
LEMMA ExecutesAlive ==
  ASSUME IInv, ActsAlive, NEW t \in Threads, Executes(t)
  PROVE  status[t] = "Running" /\ todo = <<>> /\ Lives(t)
<1>1. CoreOf[t] \in Cores /\ current_thread[CoreOf[t]] = t /\ t # NoThread
  BY CoresAssumption, ThreadsAssumption DEF Executes
<1>2. Settled(CoreOf[t]) /\ ~halted
  BY DEF Executes, Executing, IsRunningCore, Settled
<1>3. status[t] = "Running"
  BY <1>1, <1>2 DEF IInv, QueueInv, SlicesOK, ActsAlive
<1> QED
  BY <1>3 DEF Executes, Executing, AtRest, Lives

\* Such calls keep the invariant.
LEMMA LightKeeps ==
  ASSUME IInv, LifeInv, ActsAlive, LightStep
  PROVE  LifeInv'
<1>2. \A i \in DOMAIN todo' : todo'[i][1] \in Heavy => Has(todo, todo'[i])
  BY DEF LightStep, SameHeavy, HeavyFrom, Has
<1>3. StoppingOK'
  BY <1>2, StoppingKeeps DEF LifeInv, LightStep, Heavy
<1>5. RosterOK'
  <2>1. ASSUME NEW t \in Threads PROVE Lives(t)' <=> Lives(t)
    <3>1. CASE Executes(t) /\ status'[t] \in Waits
      BY <3>1, ExecutesAlive DEF Lives, Waits
    <3>2. CASE status'[t] = status[t]
      BY <3>2 DEF Lives
    <3>3. CASE status[t] \in Waits /\ status'[t] = "Ready"
      BY <3>3 DEF Lives, Waits
    <3> QED
      BY <3>1, <3>2, <3>3 DEF LightStep
  <2> QED
    BY <2>1, RosterKeeps DEF LifeInv, LightStep, SameHeavy
<1>6. EventsOK'
  <2>1. \A t \in Threads : status'[t] \in Waits \cup {"Ready"} \/ status'[t] = status[t] \/ NoEvent(t)'
    BY DEF LightStep
  <2>2. ASSUME NEW i \in DOMAIN todo', todo'[i][1] = "ScheduleEvent"
        PROVE  Lowest(todo', i) /\ \A c \in Cores : events'[c][todo'[i][2]] = 0
    <3>1. PICK k \in DOMAIN todo : todo'[i] = todo[k] /\ (Lowest(todo, k) => Lowest(todo', i))
      BY <2>2 DEF LightStep, SameHeavy, HeavyFrom, Heavy
    <3>2. NoEvent(todo[k][2]) /\ Lowest(todo, k)
      BY <2>2, <3>1 DEF LifeInv, EventsOK, Lowest
    <3>3. events' = events
      BY <3>1 DEF LightStep
    <3> QED
      BY <3>1, <3>2, <3>3 DEF NoEvent
  <2> QED
    BY <2>1, <2>2, EventsKeep DEF LifeInv, LightStep
<1> QED
  BY <1>3, <1>5, <1>6 DEF LifeInv

\* Calls that leave the threads alone.
LEMMA QuietKeeps ==
  ASSUME IInv, LifeInv, ActsAlive, CallStep, SameHeavy, UNCHANGED <<status, thread_list, registered, events>>
  PROVE  LifeInv'
<1>1. LoopStays /\ current_thread' = current_thread
  BY DEF CallStep, Boosts, FallsAsleep, BecomesReady, Dies
<1>2. \A x \in Sources : Fewer(x)
  BY DEF Fewer
<1>3. LightStep
  BY <1>1, <1>2 DEF LightStep
<1> QED
  BY <1>3, LightKeeps

-----------------------------------------------------------------------------
\* The steps that decide over no life.

\* What a step makes of the heavy calls, when it makes none.
LEMMA LightShape ==
  ASSUME IInv, NEW S, S \cap Heavy = {},
         \/ todo' = todo \/ Makes(S) \/ Pushes(S)
         \/ Returns(S) /\ Head(todo)[1] \notin Heavy
  PROVE  SameHeavy
<1>1. \A calls : Ops(calls, S) => Light(calls)
  BY DEF Ops, Light
<1>2. IsTodo(todo)
  BY DEF IInv, CallInv
<1>3. CASE todo' = todo
  BY <1>3, LightStart
<1>4. CASE Makes(S)
  BY <1>1, <1>4, LightStart DEF Makes
<1>5. CASE Pushes(S)
  BY <1>1, <1>2, <1>5, LightPush DEF Pushes
<1>6. CASE Returns(S) /\ Head(todo)[1] \notin Heavy
  BY <1>1, <1>2, <1>6, LightReturn DEF Returns, Return
<1> QED
  BY <1>3, <1>4, <1>5, <1>6

\* No call moves RunLoop or switches contexts.
LEMMA CallStepFacts ==
  ASSUME CallStep
  PROVE  LoopStays /\ current_thread' = current_thread
BY DEF CallStep, Boosts, FallsAsleep, BecomesReady, Dies

\* The calls on objects.
LEMMA ObjectCallLife ==
  ASSUME IInv, LifeInv, ActsAlive, CallStep, ObjectCall
  PROVE  LifeInv'
<1>1. SameHeavy
  <2>1. Head(todo)[1] \notin Heavy
    BY ObjectCallOps DEF ObjectOps, Heavy
  <2>2. {} \cap Heavy = {} /\ (Endings \cup {"Acquire"}) \cap Heavy = {}
    BY DEF Endings, Heavy
  <2> QED
    BY <2>1, <2>2, ObjectCallOps, LightShape
<1>2. thread_list' = thread_list /\ registered' = registered /\ events' = events
  BY ZenonT(40) DEF ObjectCall, AcquireMutex, AcquireSemaphore, AcquireSignal, AcquireThread, AddWaitingThread,
     RemoveWaitingThread, WakeupNext, WakeupDone, SyncWakeUp, ResumeFromWait, coreVars
<1>3. \/ status' = status
      \/ \E t \in Threads : status[t] \in Waits /\ status' = [status EXCEPT ![t] = "Ready"]
  BY ZenonT(40) DEF ObjectCall, AcquireMutex, AcquireSemaphore, AcquireSignal, AcquireThread, AddWaitingThread,
     RemoveWaitingThread, WakeupNext, WakeupDone, SyncWakeUp, ResumeFromWait, threadVars
<1>4. status \in [Threads -> Statuses]
  BY DEF IInv, QueueInv, QueueTypes
<1>5. \A t \in Threads : status'[t] = status[t] \/ (status[t] \in Waits /\ status'[t] = "Ready")
  BY <1>3, <1>4
<1>6. \A x \in Sources : Fewer(x)
  BY <1>2 DEF Fewer
<1>7. LightStep
  BY <1>1, <1>2, <1>5, <1>6, CallStepFacts DEF LightStep
<1> QED
  BY <1>7, LightKeeps

\* The calls of the address arbiter.
LEMMA ArbiterCallLife ==
  ASSUME IInv, LifeInv, ActsAlive, CallStep, ArbiterCall
  PROVE  LifeInv'
<1>1. SameHeavy
  <2>1. Head(todo)[1] \notin Heavy
    BY ArbiterCallOps DEF ArbiterOps, Heavy
  <2>2. {"ResumeFromWait"} \cap Heavy = {}
    BY DEF Heavy
  <2> QED
    BY <2>1, <2>2, ArbiterCallOps, LightShape
<1>2. UNCHANGED <<status, thread_list, registered, events>>
  BY DEF ArbiterCall, ResumeAllThreads, ResumeHighestPriorityThread, ArbiterWakeUp, coreVars, threadVars
<1> QED
  BY <1>1, <1>2, QuietKeeps

\* The loops over mutexes.
LEMMA MutexLoopsLife ==
  ASSUME IInv, LifeInv, ActsAlive, CallStep, NEW t \in Threads,
         \/ MutexesReleased(t) \/ UpdatedPending(t)
         \/ \E m \in Mutexes : ReleaseThreadMutexes(t, m) \/ UpdatePending(t, m)
  PROVE  LifeInv'
<1>1. todo # <<>> /\ Head(todo)[1] \notin Heavy
  BY DEF MutexesReleased, UpdatedPending, ReleaseThreadMutexes, UpdatePending, Calling, Heavy
<1>2. \/ Return(<<>>) \/ \E y : Return(<<Call("UpdatePending", t, y)>>)
      \/ \E m : todo' = <<Call("WakeupAllWaitingThreads", m, "Stop")>> \o todo
  BY DEF MutexesReleased, UpdatedPending, ReleaseThreadMutexes, UpdatePending
<1>3. "UpdatePending" \in OpCalls /\ "WakeupAllWaitingThreads" \in OpCalls
  BY DEF OpCalls
<1>4. Returns({}) \/ Returns({"UpdatePending"}) \/ Pushes({"WakeupAllWaitingThreads"})
  BY <1>1, <1>2, <1>3, JustReturns, ReturnsOne, PushesOne
<1>5. {} \cap Heavy = {} /\ {"UpdatePending"} \cap Heavy = {} /\ {"WakeupAllWaitingThreads"} \cap Heavy = {}
  BY DEF Heavy
<1>6. SameHeavy
  BY <1>1, <1>4, <1>5, LightShape
<1>7. UNCHANGED <<status, thread_list, registered, events>>
  BY DEF MutexesReleased, UpdatedPending, ReleaseThreadMutexes, UpdatePending, coreVars, threadVars
<1> QED
  BY <1>6, <1>7, QuietKeeps

\* An event of x is scheduled when it has none: on the running core.
LEMMA ScheduledFacts ==
  ASSUME NEW ev \in [Cores -> [Sources -> Nat]], NEW x \in Sources, \A c \in Cores : ev[c][x] = 0,
         events' = Scheduled(ev, x)
  PROVE  /\ SingleEvent(x)'
         /\ \A y \in Sources, c \in Cores : y # x => events'[c][y] = ev[c][y]
<1>1. ASSUME NEW c \in Cores
      PROVE  /\ events'[c][x] = IF IsRunningCore(c) THEN 1 ELSE 0
             /\ \A y \in Sources : y # x => events'[c][y] = ev[c][y]
  <2>1. events'[c] = [ev[c] EXCEPT ![x] = ev[c][x] + IF IsRunningCore(c) THEN 1 ELSE 0]
    BY DEF Scheduled
  <2>2. ev[c] \in [Sources -> Nat]
    OBVIOUS
  <2>3. events'[c][x] = ev[c][x] + IF IsRunningCore(c) THEN 1 ELSE 0
    BY <2>1, <2>2
  <2>4. \A y \in Sources : y # x => events'[c][y] = ev[c][y]
    BY <2>1, <2>2
  <2> QED
    BY <2>3, <2>4
<1>2. \A c, d \in Cores : IsRunningCore(c) /\ IsRunningCore(d) => c = d
  <2>1. \A c \in Cores : c \in Int
    BY CoresAssumption DEF Cores
  <2> QED
    BY <2>1 DEF IsRunningCore
<1>3. SingleEvent(x)'
  <2> SUFFICES ASSUME NEW c \in Cores, events'[c][x] > 0
               PROVE  events'[c][x] = 1 /\ \A d \in Cores \ {c} : events'[d][x] = 0
    BY DEF SingleEvent
  <2>1. IsRunningCore(c) /\ events'[c][x] = 1
    BY <1>1
  <2> QED
    BY <1>1, <1>2, <2>1
<1> QED
  BY <1>1, <1>3

\* The events of x are cancelled.
LEMMA UnscheduledFacts ==
  ASSUME NEW ev \in [Cores -> [Sources -> Nat]], NEW x, NEW un, un = Unscheduled(ev, x)
  PROVE  /\ un \in [Cores -> [Sources -> Nat]]
         /\ x \in Sources => \A c \in Cores : un[c][x] = 0
         /\ \A y \in Sources, c \in Cores : y # x => un[c][y] = ev[c][y]
BY DEF Unscheduled

\* A thread that executes goes to sleep.
LEMMA SleepLife ==
  ASSUME IInv, LifeInv, ActsAlive, CallStep, NEW t \in Threads, Executes(t), NEW w \in Waits, PrepareReschedule,
         status' = [status EXCEPT ![t] = w], events' = events \/ events' = Scheduled(events, t),
         UNCHANGED <<thread_list, registered>>, SameHeavy
  PROVE  LifeInv'
<1>1. status \in [Threads -> Statuses] /\ events \in [Cores -> [Sources -> Nat]] /\ t \in Sources
  BY DEF IInv, QueueInv, QueueTypes, CallInv, ThreadTypes, Sources
<1>2. LoopStays /\ current_thread' = current_thread
  BY CallStepFacts
<1>4. status'[t] = w /\ \A u \in Threads : u # t => status'[u] = status[u]
  BY <1>1
<1>5. todo = <<>> /\ NoEvent(t)
  <2>1. status[t] = "Running" /\ todo = <<>>
    BY ExecutesAlive
  <2> QED
    BY <2>1 DEF LifeInv, EventsOK, Waits
<1>6. ASSUME NEW x \in Sources PROVE Fewer(x) \/ Arms(x)
  <2>1. CASE events' = events
    BY <2>1 DEF Fewer
  <2>2. CASE events' = Scheduled(events, t)
    <3>1. /\ SingleEvent(t)'
          /\ \A y \in Sources, c \in Cores : y # t => events'[c][y] = events[c][y]
      BY <1>1, <1>5, <2>2, ScheduledFacts DEF NoEvent
    <3> QED
      BY <1>4, <3>1 DEF Fewer, Arms
  <2> QED
    BY <2>1, <2>2
<1>7. \A u \in Threads : \/ status'[u] = status[u]
                         \/ Executes(u) /\ status'[u] \in Waits
  BY <1>4
<1>8. LightStep
  BY <1>2, <1>5, <1>6, <1>7 DEF LightStep
<1> QED
  BY <1>8, LightKeeps

\* The supervisor calls that wait.
LEMMA WaitSvcLife ==
  ASSUME IInv, LifeInv, ActsAlive, CallStep, NEW t \in Threads, WaitSvc(t)
  PROVE  LifeInv'
<1>1. SameHeavy
  <2>1. {"AddWaitingThread", "Acquire"} \cap Heavy = {}
    BY DEF Heavy
  <2> QED
    BY <2>1, WaitSvcOps, LightShape
<1>2. Executes(t)
  BY WaitSvcCases
<1>3. CASE Sleeps(t)
  <2>1. PICK w \in Synching : /\ status' = [status EXCEPT ![t] = w] /\ PrepareReschedule
                              /\ events' = events \/ events' = Scheduled(events, t)
                              /\ UNCHANGED <<thread_list, registered>>
    BY <1>3 DEF Sleeps, Sleep, WakeAfterDelay, coreVars
  <2>2. w \in Waits
    BY DEF Synching, Waits
  <2> QED
    BY <1>1, <1>2, <2>1, <2>2, SleepLife
<1>4. CASE Takes(t)
  <2>1. UNCHANGED <<status, thread_list, registered, events>>
    BY <1>4 DEF Takes, Take, coreVars, threadVars
  <2> QED
    BY <1>1, <2>1, QuietKeeps
<1>5. CASE \E delay \in program.delays : SleepThread(t, delay)
  <2>1. /\ status' = [status EXCEPT ![t] = "WaitSleep"] /\ PrepareReschedule
        /\ events' = events \/ events' = Scheduled(events, t)
        /\ UNCHANGED <<thread_list, registered>>
    BY <1>5 DEF SleepThread, WakeAfterDelay, coreVars
  <2>2. "WaitSleep" \in Waits
    BY DEF Waits
  <2> QED
    BY <1>1, <1>2, <2>1, <2>2, SleepLife
<1> QED
  BY <1>3, <1>4, <1>5, WaitSvcCases

\* svcArbitrateAddress.
LEMMA ArbiterSvcLife ==
  ASSUME IInv, LifeInv, ActsAlive, CallStep, NEW t \in Threads, ArbiterSvc(t)
  PROVE  LifeInv'
<1>1. SameHeavy
  <2>1. {"ResumeAllThreads"} \cap Heavy = {} /\ {"ResumeHighestPriorityThread"} \cap Heavy = {}
    BY DEF Heavy
  <2> QED
    BY <2>1, ArbiterSvcOps, LightShape
<1>2. Executes(t)
  BY ArbiterSvcOps
<1>3. ASSUME NEW a, NEW timed, NEW delay, ArbitrateWait(t, a, timed, delay) PROVE LifeInv'
  <2>1. /\ status' = [status EXCEPT ![t] = "WaitArb"] /\ PrepareReschedule
        /\ events' = events \/ events' = Scheduled(events, t)
        /\ UNCHANGED <<thread_list, registered>>
    BY <1>3 DEF ArbitrateWait, WakeAfterDelay, coreVars
  <2>2. "WaitArb" \in Waits
    BY DEF Waits
  <2> QED
    BY <1>1, <1>2, <2>1, <2>2, SleepLife
<1>4. ASSUME UNCHANGED <<status, thread_list, registered, events>> PROVE LifeInv'
  BY <1>1, <1>4, QuietKeeps
<1> QED
  BY <1>3, <1>4 DEF ArbiterSvc, ArbitrateSignal, ArbitrateNoWait, threadVars, coreVars

\* An event that fires was the only one.
LEMMA FiresFacts ==
  ASSUME IInv, EventsOK, NEW c \in Cores, NEW x \in Sources, events[c][x] > 0,
         events' = [events EXCEPT ![c][x] = @ - 1]
  PROVE  (\A y \in Sources : Fewer(y)) /\ NoEvent(x)'
<1>1. events \in [Cores -> [Sources -> Nat]]
  BY DEF IInv, CallInv, ThreadTypes
<1>2. events[c][x] = 1 /\ \A d \in Cores \ {c} : events[d][x] = 0
  BY DEF EventsOK, SingleEvent
<1>3. events'[c][x] = 0 /\ \A d \in Cores \ {c} : events'[d][x] = events[d][x]
  BY <1>1, <1>2
<1>4. \A d \in Cores, y \in Sources : y # x => events'[d][y] = events[d][y]
  BY <1>1
<1> QED
  BY <1>2, <1>3, <1>4 DEF Fewer, NoEvent

\* The time of a thread is up.
LEMMA ThreadWakeupLife ==
  ASSUME IInv, LifeInv, ActsAlive, CallStep, NEW c \in Cores, NEW t \in Threads, ThreadWakeupCallback(c, t)
  PROVE  LifeInv'
<1>1. SameHeavy
  <2>1. Endings \cap Heavy = {}
    BY DEF Heavy, Endings
  <2> QED
    BY <2>1, WakeupCallbackOps, LightShape
<1>2. \A x \in Sources : Fewer(x)
  <2>1. t \in Sources /\ events[c][t] > 0 /\ events' = [events EXCEPT ![c][t] = @ - 1]
    BY DEF Sources, ThreadWakeupCallback
  <2> QED
    BY <2>1, FiresFacts DEF LifeInv
<1>3. todo = <<>> /\ status' = status /\ thread_list' = thread_list /\ registered' = registered
  BY DEF ThreadWakeupCallback, Advancing, AtRest, threadVars, coreVars
<1>4. LightStep
  BY <1>1, <1>2, <1>3, CallStepFacts DEF LightStep
<1> QED
  BY <1>4, LightKeeps

-----------------------------------------------------------------------------
\* The steps that stop threads, create them or arm timers.

\* Thread::Stop.
LEMMA StopLife ==
  ASSUME IInv, LifeInv, CallStep, NEW t \in Threads, Stop(t)
  PROVE  LifeInv'
<1>1. /\ LoopStays /\ current_thread' = current_thread /\ thread_list' = thread_list
      /\ registered' = registered \ {t} /\ events' = Unscheduled(events, t)
      /\ status' = [status EXCEPT ![t] = "Dead"] /\ Return(StopCalls(t))
      /\ todo # <<>> /\ Head(todo)[1] = "Stop" /\ Head(todo)[2] = t
  BY CallStepFacts DEF Stop, Calling, StopCalls
<1>2. /\ status \in [Threads -> Statuses] /\ events \in [Cores -> [Sources -> Nat]] /\ t \in Sources
      /\ IsTodo(todo)
  BY DEF IInv, QueueInv, QueueTypes, CallInv, ThreadTypes, Sources
<1>3. PICK new : new = StopCalls(t)
  OBVIOUS
<1>4. IsTodo(new) /\ Light(new)
  <2>1. /\ IsTodo(new)
        /\ \A i \in DOMAIN new : \/ new[i][1] \in {"WakeupAllWaitingThreads", "ReleaseThreadMutexes"}
                                 \/ \E o \in ToSet(wait_objects[t]) : new[i] = Leave(t, o)
    BY <1>3, StopCallsFacts
  <2> QED
    BY <2>1 DEF Light, Heavy, Leave, Call
<1>5. HeavyFrom(todo', todo)
  BY <1>1, <1>2, <1>3, <1>4, LightReturn
<1>6. PICK base : base = Tail(todo) /\ todo' = new \o base /\ IsTodo(base)
  BY <1>1, <1>2, <1>3, TodoTail DEF Return
<1>7. Popped(base, todo)
  BY <1>1, <1>2, <1>6, StackTail
<1>8. \A x : Has(todo, x) => x = Head(todo) \/ Has(todo', x)
  <2>1. \A x : Has(todo, x) => x = Head(todo) \/ Has(base, x)
    BY <1>7 DEF Popped
  <2>2. \A x : Has(base, x) => Has(todo', x)
    BY <1>4, <1>6, HasConcat
  <2> QED
    BY <2>1, <2>2
<1>9. Doomed(t)
  <2>1. 1 \in DOMAIN todo /\ Head(todo) = todo[1]
    BY <1>7 DEF Popped
  <2>2. PICK u \in Threads : todo[1] = Stopping(u) /\ Doomed(u)
    BY <1>1, <2>1 DEF LifeInv, StoppingOK
  <2> QED
    BY <1>1, <2>1, <2>2 DEF Stopping, Call
<1>10. status'[t] = "Dead" /\ \A u \in Threads : u # t => status'[u] = status[u]
  BY <1>1, <1>2
<1>11. /\ \A c \in Cores : events'[c][t] = 0
       /\ \A x \in Sources, c \in Cores : x # t => events'[c][x] = events[c][x]
  BY <1>1, <1>2, UnscheduledFacts
<1>12. \A i \in DOMAIN todo' : todo'[i][1] \in Heavy => Has(todo, todo'[i])
  BY <1>5 DEF HeavyFrom, Has
<1>14. StoppingOK'
  BY <1>1, <1>12, StoppingKeeps DEF LifeInv, Heavy
<1>15. RosterOK'
  <2>1. \A u \in Threads : Lives(u)' <=> u # t /\ Lives(u)
    BY <1>10 DEF Lives
  <2>2. \A c \in Cores : NoDuplicates(thread_list'[c])
    BY <1>1 DEF LifeInv, RosterOK
  <2>3. \A c \in Cores, u \in Threads : u \in ToSet(thread_list'[c]) => CoreOf[u] = c /\ Lives(u)'
    BY <1>1, <1>9, <2>1 DEF LifeInv, RosterOK, Doomed
  <2>4. \A u \in Threads : u # t => Stopping(u) # Head(todo)
    BY <1>1 DEF Stopping, Call
  <2>5. ASSUME NEW u \in Threads, Lives(u)'
        PROVE  u \in registered' /\ (u \in ToSet(thread_list'[CoreOf[u]]) \/ Has(todo', Stopping(u)))
    BY <1>1, <1>8, <2>1, <2>4, <2>5 DEF LifeInv, RosterOK
  <2> QED
    BY <2>2, <2>3, <2>5 DEF RosterOK, Stopping
<1>16. EventsOK'
  <2>1. \A x \in Sources : Fewer(x)
    BY <1>11 DEF Fewer
  <2>2. \A u \in Threads : status'[u] = status[u] \/ NoEvent(u)'
    BY <1>10, <1>11 DEF NoEvent
  <2>3. ASSUME NEW i \in DOMAIN todo', todo'[i][1] = "ScheduleEvent"
        PROVE  Lowest(todo', i) /\ \A c \in Cores : events'[c][todo'[i][2]] = 0
    <3>1. PICK k \in DOMAIN todo : todo'[i] = todo[k] /\ (Lowest(todo, k) => Lowest(todo', i))
      BY <1>5, <2>3 DEF HeavyFrom, Heavy
    <3>2. NoEvent(todo[k][2]) /\ Lowest(todo, k)
      BY <2>3, <3>1 DEF LifeInv, EventsOK, Lowest
    <3>3. ASSUME NEW c \in Cores PROVE events'[c][todo[k][2]] = 0
      <4>1. events[c][todo[k][2]] = 0
        BY <3>2 DEF NoEvent
      <4>2. events'[c] = [events[c] EXCEPT ![t] = 0]
        BY <1>1 DEF Unscheduled
      <4>3. events[c] \in [Sources -> Nat]
        BY <1>2
      <4>4. CASE todo[k][2] = t
        BY <1>11, <4>4
      <4>5. CASE todo[k][2] # t
        BY <4>1, <4>2, <4>3, <4>5
      <4> QED
        BY <4>4, <4>5
    <3> QED
      BY <3>1, <3>2, <3>3
  <2> QED
    BY <2>1, <2>2, <2>3, EventsKeep DEF LifeInv
<1> QED
  BY <1>14, <1>15, <1>16 DEF LifeInv

\* A thread leaves the list of its core, to be stopped.
LEMMA LeavesList ==
  ASSUME IInv, LifeInv, NEW v \in Threads,
         thread_list' = [thread_list EXCEPT ![CoreOf[v]] = Without(@, v)],
         UNCHANGED <<status, registered, events>>,
         Has(todo', Stopping(v)), \A u : Has(todo, Stopping(u)) => Has(todo', Stopping(u)),
         \A i \in DOMAIN todo' : todo'[i][1] \in Heavy =>
           \/ todo'[i] = Stopping(v)
           \/ \E k \in DOMAIN todo : todo'[i] = todo[k] /\ (Lowest(todo, k) => Lowest(todo', i))
  PROVE  LifeInv'
<1>1. CoreOf[v] \in Cores /\ thread_list \in [Cores -> Seq(Threads)]
  BY CoresAssumption DEF IInv, CallInv, ThreadTypes
<1>2. /\ \A c \in Cores : c # CoreOf[v] => thread_list'[c] = thread_list[c]
      /\ thread_list'[CoreOf[v]] = Without(thread_list[CoreOf[v]], v)
  BY <1>1
<1>3. PICK l \in Seq(Threads) : l = thread_list[CoreOf[v]] /\ NoDuplicates(l)
  BY <1>1 DEF LifeInv, RosterOK
<1>4. NoDuplicates(Without(l, v)) /\ ToSet(Without(l, v)) = ToSet(l) \ {v}
  BY <1>3, WithoutFacts
<1>5. ASSUME NEW c \in Cores
      PROVE  NoDuplicates(thread_list'[c]) /\ ToSet(thread_list'[c]) = ToSet(thread_list[c]) \ {v}
  <2>1. CASE c = CoreOf[v]
    BY <1>2, <1>3, <1>4, <2>1
  <2>2. CASE c # CoreOf[v]
    BY <1>2, <2>2 DEF LifeInv, RosterOK
  <2> QED
    BY <2>1, <2>2
<1>6. Doomed(v)'
  BY <1>5 DEF Doomed
<1>8. \A i \in DOMAIN todo' : todo'[i][1] \in Heavy => todo'[i] = Stopping(v) \/ Has(todo, todo'[i])
  BY DEF Has
<1>9. \A c \in Cores : ToSet(thread_list'[c]) \subseteq ToSet(thread_list[c])
  BY <1>5
<1>10. StoppingOK'
  BY <1>6, <1>8, <1>9, StoppingKeeps DEF LifeInv, Heavy
<1>12. RosterOK'
  <2>1. \A u \in Threads : Lives(u)' <=> Lives(u)
    BY DEF Lives
  <2>2. \A c \in Cores, u \in Threads : u \in ToSet(thread_list'[c]) => CoreOf[u] = c /\ Lives(u)'
    BY <1>5, <2>1 DEF LifeInv, RosterOK
  <2>3. ASSUME NEW u \in Threads, Lives(u)'
        PROVE  u \in registered' /\ (u \in ToSet(thread_list'[CoreOf[u]]) \/ Has(todo', Stopping(u)))
    <3>1. u \in registered /\ (u \in ToSet(thread_list[CoreOf[u]]) \/ Has(todo, Stopping(u)))
      BY <2>1, <2>3 DEF LifeInv, RosterOK
    <3>2. CoreOf[u] \in Cores
      BY CoresAssumption
    <3> QED
      BY <1>5, <3>1, <3>2
  <2> QED
    BY <1>5, <2>2, <2>3 DEF RosterOK, Stopping
<1>13. EventsOK'
  <2>1. \A x \in Sources : Fewer(x)
    BY DEF Fewer
  <2>2. ASSUME NEW i \in DOMAIN todo', todo'[i][1] = "ScheduleEvent"
        PROVE  Lowest(todo', i) /\ \A c \in Cores : events'[c][todo'[i][2]] = 0
    <3>1. PICK k \in DOMAIN todo : todo'[i] = todo[k] /\ (Lowest(todo, k) => Lowest(todo', i))
      BY <2>2 DEF Heavy, Stopping, Call
    <3>2. NoEvent(todo[k][2]) /\ Lowest(todo, k)
      BY <2>2, <3>1 DEF LifeInv, EventsOK, Lowest
    <3> QED
      BY <3>1, <3>2 DEF NoEvent
  <2> QED
    BY <2>1, <2>2, EventsKeep DEF LifeInv
<1> QED
  BY <1>10, <1>12, <1>13 DEF LifeInv

\* One call on top of a stack.
OnTop(r, call, base) ==
  /\ \A c : Has(r, c) <=> c = call \/ Has(base, c)
  /\ \A i \in DOMAIN r : \/ r[i] = call
                         \/ \E k \in DOMAIN base : r[i] = base[k] /\ (Lowest(base, k) => Lowest(r, i))
LEMMA OneOnTop ==
  ASSUME NEW base, IsTodo(base), NEW op \in OpCalls, NEW x, NEW y, NEW r, r = <<Call(op, x, y)>> \o base
  PROVE  OnTop(r, Call(op, x, y), base)
<1>1. PICK a : a = <<Call(op, x, y)>>
  OBVIOUS
<1>2. IsTodo(a) /\ DOMAIN a = {1} /\ a[1] = Call(op, x, y) /\ Len(a) = 1
  BY <1>1, OneFacts
<1>3. \A c : Has(r, c) <=> c = Call(op, x, y) \/ Has(base, c)
  <2>1. \A c : Has(r, c) <=> Has(a, c) \/ Has(base, c)
    BY <1>1, <1>2, HasConcat
  <2>2. \A c : Has(a, c) <=> c = a[1]
    BY <1>2 DEF Has
  <2> QED
    BY <1>2, <2>1, <2>2
<1>4. /\ \A i \in DOMAIN r : \/ i \in DOMAIN a /\ r[i] = a[i]
                            \/ \E k \in DOMAIN base : r[i] = base[k] /\ i = k + 1
      /\ DOMAIN base = 1..Len(base) /\ DOMAIN r = 1..Len(r)
      /\ Len(base) \in Nat /\ Len(r) = 1 + Len(base)
  <2>1. Stacked(r, a, base)
    BY <1>1, <1>2, StackConcat
  <2> QED
    BY <1>2, <2>1 DEF Stacked
<1>5. ASSUME NEW i \in DOMAIN r, NEW k \in DOMAIN base, i = k + 1, Lowest(base, k) PROVE Lowest(r, i)
  <2>1. Len(base) <= k
    BY <1>4, <1>5 DEF Lowest
  <2> QED
    BY <1>4, <1>5, <2>1 DEF Lowest
<1>6. \A i \in DOMAIN r : \/ r[i] = Call(op, x, y)
                          \/ \E k \in DOMAIN base : r[i] = base[k] /\ (Lowest(base, k) => Lowest(r, i))
  BY <1>2, <1>4, <1>5
<1> QED
  BY <1>3, <1>6 DEF OnTop

\* TerminateProcessThreads stops the next thread.
LEMMA TerminateNextLife ==
  ASSUME IInv, LifeInv, CallStep, NEW p \in Processes, NEW c \in Cores, TerminateNext(p, c)
  PROVE  LifeInv'
<1>1. thread_list[c] \in Seq(Threads) /\ IsTodo(todo)
  BY DEF IInv, CallInv, ThreadTypes
<1>2. PICK i \in DOMAIN thread_list[c] :
        /\ thread_list[c][i] # current_thread[c]
        /\ thread_list' = [thread_list EXCEPT ![c] = Without(@, thread_list[c][i])]
        /\ todo' = <<Call("Stop", thread_list[c][i], "Stop")>> \o todo
  BY DEF TerminateNext, Victims
<1>3. PICK v \in Threads : v = thread_list[c][i] /\ v \in ToSet(thread_list[c])
  BY <1>1, <1>2, ElementOfSeq, LenProperties DEF ToSet
<1>4. CoreOf[v] = c
  BY <1>3 DEF LifeInv, RosterOK
<1>5. "Stop" \in OpCalls
  BY DEF OpCalls
<1>9. PICK r : r = todo'
  OBVIOUS
<1>8. r = <<Call("Stop", v, "Stop")>> \o todo
  BY <1>2, <1>3, <1>9
<1>10. OnTop(r, Call("Stop", v, "Stop"), todo)
  BY <1>1, <1>5, <1>8, OneOnTop
<1>6. /\ \A x : Has(todo', x) <=> x = Stopping(v) \/ Has(todo, x)
      /\ \A j \in DOMAIN todo' :
           \/ todo'[j] = Stopping(v)
           \/ \E k \in DOMAIN todo : todo'[j] = todo[k] /\ (Lowest(todo, k) => Lowest(todo', j))
  BY <1>9, <1>10 DEF Stopping, OnTop
<1>7. UNCHANGED <<status, registered, events>>
  BY DEF TerminateNext, threadVars
<1> QED
  BY <1>2, <1>3, <1>4, <1>6, <1>7, LeavesList

\* At last it stops the current thread of the core.
LEMMA TerminateCurrentLife ==
  ASSUME IInv, LifeInv, CallStep, NEW p \in Processes, NEW c \in Cores, TerminateCurrent(p, c)
  PROVE  LifeInv'
<1>1. /\ todo # <<>> /\ Head(todo)[1] = "TerminateProcessThreads"
      /\ UNCHANGED <<status, registered, events>>
  BY DEF TerminateCurrent, Calling, threadVars
<1>2. IsTodo(todo)
  BY DEF IInv, CallInv
<1>3. PICK base : base = Tail(todo) /\ IsTodo(base)
  BY <1>1, <1>2, TodoTail
<1>4. Popped(base, todo)
  BY <1>1, <1>2, <1>3, StackTail
<1>5. HeavyFrom(base, todo)
  BY <1>1, <1>2, <1>3, HeavyTail
<1>7. \A u : Has(todo, Stopping(u)) => Has(base, Stopping(u))
  <2>1. \A u : Stopping(u) # Head(todo)
    BY <1>1 DEF Stopping, Call
  <2> QED
    BY <1>4, <2>1 DEF Popped
<1>8. CASE current_thread[c] # NoThread /\ ProcessOf[current_thread[c]] = p
  <2>1. PICK v \in Threads : v = current_thread[c] /\ CoreOf[v] = c
    BY <1>8 DEF IInv, QueueInv, QueueTypes, CurrentOK
  <2>2. /\ thread_list' = [thread_list EXCEPT ![c] = Without(@, v)]
        /\ todo' = <<Call("Stop", v, "Stop")>> \o base
    BY <1>3, <1>8, <2>1 DEF TerminateCurrent, Return
  <2>3. "Stop" \in OpCalls
    BY DEF OpCalls
  <2>9. PICK r : r = todo' /\ r = <<Call("Stop", v, "Stop")>> \o base
    BY <2>2
  <2>10. OnTop(r, Call("Stop", v, "Stop"), base)
    BY <1>3, <2>3, <2>9, OneOnTop
  <2>4. /\ \A x : Has(todo', x) <=> x = Stopping(v) \/ Has(base, x)
        /\ \A j \in DOMAIN todo' :
             \/ todo'[j] = Stopping(v)
             \/ \E k \in DOMAIN base : todo'[j] = base[k] /\ (Lowest(base, k) => Lowest(todo', j))
    BY <2>9, <2>10 DEF Stopping, OnTop
  <2>5. ASSUME NEW j \in DOMAIN todo', todo'[j][1] \in Heavy
        PROVE  \/ todo'[j] = Stopping(v)
               \/ \E k \in DOMAIN todo : todo'[j] = todo[k] /\ (Lowest(todo, k) => Lowest(todo', j))
    BY <1>5, <2>4, <2>5 DEF HeavyFrom
  <2>7. \A u : Has(todo, Stopping(u)) => Has(todo', Stopping(u))
    BY <1>7, <2>4
  <2>8. Has(todo', Stopping(v))
    BY <2>4
  <2> QED
    BY <1>1, <2>1, <2>2, <2>5, <2>7, <2>8, LeavesList
<1>9. CASE ~(current_thread[c] # NoThread /\ ProcessOf[current_thread[c]] = p)
  <2>1. todo' = base /\ thread_list' = thread_list
    <3>1. Return(<<>>) /\ thread_list' = thread_list
      BY <1>9 DEF TerminateCurrent
    <3>2. base \in Seq(ToSet(base)) \/ \E S : base \in Seq(S)
      BY <1>3 DEF IsTodo
    <3> QED
      BY <1>3, <3>1, <3>2, ConcatEmptySeq DEF Return
  <2>2. \A i \in DOMAIN todo' : todo'[i][1] \in Heavy => Has(todo, todo'[i])
    BY <1>5, <2>1 DEF HeavyFrom, Has
  <2>3. StoppingOK'
    BY <1>1, <2>1, <2>2, StoppingKeeps DEF LifeInv, Heavy
  <2>4. RosterOK'
    <3>1. \A u \in Threads : Lives(u)' <=> Lives(u)
      BY <1>1 DEF Lives
    <3> QED
      BY <1>1, <1>7, <2>1, <3>1 DEF LifeInv, RosterOK, Stopping
  <2>5. EventsOK'
    <3>1. \A x \in Sources : Fewer(x)
      BY <1>1 DEF Fewer
    <3>2. ASSUME NEW i \in DOMAIN todo', todo'[i][1] = "ScheduleEvent"
          PROVE  Lowest(todo', i) /\ \A d \in Cores : events'[d][todo'[i][2]] = 0
      <4>1. PICK k \in DOMAIN todo : todo'[i] = todo[k] /\ (Lowest(todo, k) => Lowest(todo', i))
        BY <1>5, <2>1, <3>2 DEF HeavyFrom, Heavy
      <4>2. NoEvent(todo[k][2]) /\ Lowest(todo, k)
        BY <3>2, <4>1 DEF LifeInv, EventsOK, Lowest
      <4> QED
        BY <1>1, <4>1, <4>2 DEF NoEvent
    <3> QED
      BY <1>1, <3>1, <3>2, EventsKeep DEF LifeInv
  <2> QED
    BY <2>3, <2>4, <2>5 DEF LifeInv
<1> QED
  BY <1>8, <1>9

\* svcExitThread.
LEMMA ExitThreadLife ==
  ASSUME IInv, LifeInv, CallStep, NEW t \in Threads, ExitThread(t)
  PROVE  LifeInv'
<1>1. /\ thread_list' = [thread_list EXCEPT ![CoreOf[t]] = Without(@, t)]
      /\ todo' = <<Call("Stop", t, "Stop")>> /\ todo = <<>>
      /\ UNCHANGED <<status, registered, events>>
  BY DEF ExitThread, threadVars, Executes, Executing, AtRest
<1>3. DOMAIN todo' = {1} /\ todo'[1] = Stopping(t)
  <2>1. PICK r : r = todo' /\ r = <<Call("Stop", t, "Stop")>>
    BY <1>1
  <2>2. DOMAIN r = {1} /\ r[1] = Call("Stop", t, "Stop")
    BY <2>1, OneFacts DEF OpCalls
  <2> QED
    BY <2>1, <2>2 DEF Stopping
<1>4. Has(todo', Stopping(t)) /\ \A u : ~Has(todo, u)
  BY <1>1, <1>3 DEF Has
<1>5. \A i \in DOMAIN todo' : todo'[i] = Stopping(t)
  BY <1>3
<1> QED
  BY <1>1, <1>4, <1>5, LeavesList

\* A step between two calls that neither stops threads nor arms timers.
LEMMA RestLife ==
  ASSUME IInv, LifeInv, UNCHANGED <<thread_list, registered, status>>,
         todo = <<>>, \A i \in DOMAIN todo' : todo'[i][1] # "Stop",
         \A x \in Sources : Fewer(x),
         \A i \in DOMAIN todo' : todo'[i][1] = "ScheduleEvent" =>
           Lowest(todo', i) /\ \A c \in Cores : events'[c][todo'[i][2]] = 0
  PROVE  LifeInv'
<1>1. StoppingOK'
  BY StoppingKeeps DEF LifeInv
<1>2. RosterOK'
  <2>1. HeavyIn(todo', todo)
    BY DEF HeavyIn
  <2> QED
    BY <2>1, RosterKeeps DEF LifeInv, Lives
<1>3. EventsOK'
  BY EventsKeep DEF LifeInv
<1> QED
  BY <1>1, <1>2, <1>3 DEF LifeInv

\* svcExitProcess and svcTerminateProcess.
LEMMA TerminateProcessLife ==
  ASSUME IInv, LifeInv, NEW t \in Threads, NEW p \in Processes, TerminateProcess(t, p)
  PROVE  LifeInv'
<1>1. /\ todo = <<>>
      /\ todo' = [i \in 1..NumCores |-> Call("TerminateProcessThreads", p, i - 1)]
      /\ UNCHANGED <<status, thread_list, registered, events>>
  BY DEF TerminateProcess, threadVars, coreVars, Executes, Executing, AtRest
<1>2. \A i \in DOMAIN todo' : todo'[i][1] = "TerminateProcessThreads"
  BY <1>1 DEF Call
<1>3. \A x \in Sources : Fewer(x)
  BY <1>1 DEF Fewer
<1> QED
  BY <1>1, <1>2, <1>3, RestLife

\* A thread is created.
LEMMA CreateThreadLife ==
  ASSUME IInv, LifeInv, CallStep, NEW t \in Threads, CreateThread(t), todo = <<>>
  PROVE  LifeInv'
<1>1. /\ status[t] = "None" /\ status' = [status EXCEPT ![t] = "Ready"]
      /\ thread_list' = [thread_list EXCEPT ![CoreOf[t]] = Append(@, t)]
      /\ registered' = registered \cup {t} /\ events' = events /\ todo' = <<>>
      /\ LoopStays /\ current_thread' = current_thread
  BY CallStepFacts DEF CreateThread
<1>2. status \in [Threads -> Statuses] /\ thread_list \in [Cores -> Seq(Threads)] /\ CoreOf[t] \in Cores
  BY CoresAssumption DEF IInv, QueueInv, QueueTypes, CallInv, ThreadTypes
<1>3. status'[t] = "Ready" /\ \A u \in Threads : u # t => status'[u] = status[u]
  BY <1>1, <1>2
<1>4. \A c \in Cores : t \notin ToSet(thread_list[c])
  BY <1>1 DEF LifeInv, RosterOK, Lives
<1>5. ASSUME NEW c \in Cores
      PROVE  /\ NoDuplicates(thread_list'[c])
             /\ \A u : u \in ToSet(thread_list'[c]) <=> u \in ToSet(thread_list[c]) \/ (u = t /\ c = CoreOf[t])
  <2>1. CASE c = CoreOf[t]
    <3>1. PICK l \in Seq(Threads) : l = thread_list[c] /\ NoDuplicates(l)
      BY <1>2 DEF LifeInv, RosterOK
    <3>2. thread_list'[c] = Append(l, t)
      BY <1>1, <1>2, <2>1, <3>1
    <3>3. ToSet(Append(l, t)) = ToSet(l) \cup {t} /\ NoDuplicates(Append(l, t))
      BY <1>4, <3>1, AppendFacts
    <3> QED
      BY <2>1, <3>1, <3>2, <3>3
  <2>2. CASE c # CoreOf[t]
    BY <1>1, <1>2, <2>2 DEF LifeInv, RosterOK
  <2> QED
    BY <2>1, <2>2
<1>7. StoppingOK'
  BY <1>1 DEF StoppingOK
<1>8. RosterOK'
  <2>1. \A u \in Threads : Lives(u)' <=> u = t \/ Lives(u)
    BY <1>3 DEF Lives
  <2>2. \A c \in Cores, u \in Threads : u \in ToSet(thread_list'[c]) => CoreOf[u] = c /\ Lives(u)'
    BY <1>5, <2>1 DEF LifeInv, RosterOK
  <2>3. ASSUME NEW u \in Threads, Lives(u)'
        PROVE  u \in registered' /\ u \in ToSet(thread_list'[CoreOf[u]])
    <3>1. CoreOf[u] \in Cores
      BY CoresAssumption
    <3>2. CASE u = t
      BY <1>1, <1>5, <3>1, <3>2
    <3>3. CASE u # t
      <4>1. u \in registered /\ (u \in ToSet(thread_list[CoreOf[u]]) \/ Has(todo, Stopping(u)))
        BY <2>1, <2>3, <3>3 DEF LifeInv, RosterOK
      <4>2. ~Has(todo, Stopping(u))
        BY DEF Has
      <4> QED
        BY <1>1, <1>5, <3>1, <4>1, <4>2
    <3> QED
      BY <3>2, <3>3
  <2> QED
    BY <1>5, <2>2, <2>3 DEF RosterOK
<1>9. EventsOK'
  <2>1. \A x \in Sources : Fewer(x)
    BY <1>1 DEF Fewer
  <2> QED
    BY <1>1, <1>3, <2>1, EventsKeep DEF LifeInv
<1> QED
  BY <1>7, <1>8, <1>9 DEF LifeInv

\* A timer is no thread.
LEMMA TimersApart ==
  ASSUME NEW x \in Timers
  PROVE  x \in Sources /\ x \notin Threads
BY KindsAssumption DEF Sources, Signals

\* A periodic timer is armed again, by the last call on the stack.
LEMMA RearmLife ==
  ASSUME IInv, LifeInv, CallStep, NEW x \in Timers, Rearm(x)
  PROVE  LifeInv'
<1>1. /\ todo # <<>> /\ Head(todo)[1] = "ScheduleEvent" /\ Head(todo)[2] = x
      /\ events' = Scheduled(events, x) /\ Return(<<>>)
      /\ UNCHANGED <<status, thread_list, registered>> /\ LoopStays /\ current_thread' = current_thread
  BY CallStepFacts DEF Rearm, Calling, threadVars, coreVars
<1>2. IsTodo(todo) /\ events \in [Cores -> [Sources -> Nat]]
  BY DEF IInv, CallInv, ThreadTypes
<1>3. PICK base : base = Tail(todo) /\ IsTodo(base)
  BY <1>1, <1>2, TodoTail
<1>4. Popped(base, todo)
  BY <1>1, <1>2, <1>3, StackTail
<1>5. 1 \in DOMAIN todo /\ Head(todo) = todo[1] /\ DOMAIN base = {}
  <2>1. 1 \in DOMAIN todo /\ Head(todo) = todo[1]
    BY <1>4 DEF Popped
  <2>2. \A j \in DOMAIN todo : j <= 1
    BY <1>1, <2>1 DEF LifeInv, EventsOK
  <2>3. \A i \in DOMAIN base : i \in Nat /\ i + 1 \in DOMAIN todo /\ i # 0
    <3>1. \A i \in DOMAIN base : i \in Nat /\ i + 1 \in DOMAIN todo
      BY <1>4 DEF Popped
    <3>2. PICK S : base \in Seq(S)
      BY <1>3 DEF IsTodo
    <3>3. DOMAIN base = 1..Len(base) /\ Len(base) \in Nat
      BY <3>2, LenProperties
    <3> QED
      BY <3>1, <3>3
  <2>4. ASSUME NEW i \in DOMAIN base PROVE FALSE
    <3>1. i \in Nat /\ i + 1 <= 1 /\ i # 0
      BY <2>2, <2>3, <2>4
    <3> QED
      BY <3>1
  <2> QED
    BY <2>1, <2>4
<1>6. todo' = base /\ base = <<>>
  <2>1. PICK S : base \in Seq(S)
    BY <1>3 DEF IsTodo
  <2>2. base = <<>>
    BY <1>5, <2>1
  <2> QED
    BY <1>1, <1>3, <2>2 DEF Return
<1>7. NoEvent(x) /\ x \in Sources /\ x \notin Threads
  BY <1>1, <1>5, TimersApart DEF LifeInv, EventsOK
<1>8. ASSUME NEW y \in Sources PROVE Fewer(y) \/ Arms(y)
  <2>1. /\ SingleEvent(x)'
        /\ \A z \in Sources, c \in Cores : z # x => events'[c][z] = events[c][z]
    BY <1>1, <1>2, <1>7, ScheduledFacts DEF NoEvent
  <2> QED
    BY <1>7, <2>1 DEF Fewer, Arms
<1>9. DOMAIN todo' = {}
  BY <1>5, <1>6
<1>11. StoppingOK'
  BY <1>9 DEF StoppingOK
<1>12. RosterOK'
  <2>1. \A u : ~Has(todo, Stopping(u))
    <3>1. \A u : Stopping(u) # Head(todo)
      BY <1>1 DEF Stopping, Call
    <3>2. \A u : ~Has(base, Stopping(u))
      BY <1>5 DEF Has
    <3> QED
      BY <1>4, <3>1, <3>2 DEF Popped
  <2> QED
    BY <1>1, <2>1 DEF LifeInv, RosterOK, Lives
<1>13. EventsOK'
  BY <1>1, <1>8, <1>9, EventsKeep DEF LifeInv
<1> QED
  BY <1>11, <1>12, <1>13 DEF LifeInv

\* A timer that expires has no event left.
LEMMA TimerSignalLife ==
  ASSUME IInv, LifeInv, CallStep, NEW x \in Timers, NEW again \in BOOLEAN, todo = <<>>,
         todo' = TimerSignal(x, again), \A y \in Sources : Fewer(y), NoEvent(x)',
         UNCHANGED <<status, thread_list, registered>>
  PROVE  LifeInv'
<1>1. /\ \A i \in DOMAIN todo' : todo'[i][1] \in {"WakeupAllWaitingThreads", "ScheduleEvent"}
      /\ \A i \in DOMAIN todo' : todo'[i][2] = x
      /\ \A i \in DOMAIN todo' : todo'[i][1] = "ScheduleEvent" => \A j \in DOMAIN todo' : j <= i
  BY TimerOps DEF Makes, Ops
<1>2. ASSUME NEW i \in DOMAIN todo', todo'[i][1] = "ScheduleEvent"
      PROVE  Lowest(todo', i) /\ \A c \in Cores : events'[c][todo'[i][2]] = 0
  <2>1. todo'[i][2] = x /\ Lowest(todo', i)
    BY <1>1, <1>2 DEF Lowest
  <2>2. \A c \in Cores : events'[c][x] = 0
    BY DEF NoEvent
  <2> QED
    BY <2>1, <2>2
<1>3. \A i \in DOMAIN todo' : todo'[i][1] # "Stop"
  BY <1>1
<1> QED
  BY <1>2, <1>3, RestLife

\* A timer expires.
LEMMA TimerCallbackLife ==
  ASSUME IInv, LifeInv, CallStep, NEW c \in Cores, NEW x \in Timers, TimerCallback(c, x)
  PROVE  LifeInv'
<1>1. /\ todo = <<>> /\ events[c][x] > 0 /\ events' = [events EXCEPT ![c][x] = @ - 1]
      /\ todo' = TimerSignal(x, periodic[x]) /\ UNCHANGED <<status, thread_list, registered>>
  BY DEF TimerCallback, Advancing, AtRest, threadVars, coreVars
<1>2. periodic[x] \in BOOLEAN
  BY DEF IInv, CallInv, ObjectTypes
<1>3. (\A y \in Sources : Fewer(y)) /\ NoEvent(x)'
  BY <1>1, TimersApart, FiresFacts DEF LifeInv
<1> QED
  BY <1>1, <1>2, <1>3, TimerSignalLife

\* svcSetTimer.
LEMMA SetTimerLife ==
  ASSUME IInv, LifeInv, ActsAlive, CallStep, NEW t \in Threads, NEW x \in Timers, NEW now \in BOOLEAN,
         NEW again \in BOOLEAN, SetTimer(t, x, now, again)
  PROVE  LifeInv'
<1>1. todo = <<>> /\ UNCHANGED <<status, thread_list, registered>>
  BY DEF SetTimer, Executes, Executing, AtRest, threadVars, coreVars
<1>2. events \in [Cores -> [Sources -> Nat]] /\ x \in Sources /\ x \notin Threads
  BY TimersApart DEF IInv, CallInv, ThreadTypes
<1>3. PICK un : un = Unscheduled(events, x)
  OBVIOUS
<1>4. /\ un \in [Cores -> [Sources -> Nat]] /\ \A c \in Cores : un[c][x] = 0
      /\ \A y \in Sources, c \in Cores : y # x => un[c][y] = events[c][y]
  BY <1>2, <1>3, UnscheduledFacts
<1>5. CASE now
  <2>1. events' = un /\ todo' = TimerSignal(x, again)
    BY <1>3, <1>5 DEF SetTimer
  <2>2. (\A y \in Sources : Fewer(y)) /\ NoEvent(x)'
    BY <1>4, <2>1 DEF Fewer, NoEvent
  <2> QED
    BY <1>1, <2>1, <2>2, TimerSignalLife
<1>6. CASE ~now
  <2>1. events' = Scheduled(un, x) /\ todo' = todo
    BY <1>3, <1>6 DEF SetTimer
  <2>2. SingleEvent(x)' /\ \A y \in Sources, c \in Cores : y # x => events'[c][y] = un[c][y]
    BY <1>2, <1>4, <2>1, ScheduledFacts
  <2>3. \A y \in Sources : Fewer(y) \/ Arms(y)
    BY <1>2, <1>4, <2>2 DEF Fewer, Arms
  <2>4. LightStep
    BY <1>1, <2>1, <2>3, CallStepFacts, LightStart DEF LightStep
  <2> QED
    BY <2>4, LightKeeps
<1> QED
  BY <1>5, <1>6

\* The other supervisor calls that signal.
LEMMA SignalSvcLife ==
  ASSUME IInv, LifeInv, ActsAlive, CallStep, NEW t \in Threads, SignalSvc(t)
  PROVE  LifeInv'
<1>1. CASE \E x \in Timers, now, again \in BOOLEAN : SetTimer(t, x, now, again)
  BY <1>1, SetTimerLife
<1>2. CASE \/ \E m \in Mutexes : ReleaseMutex(t, m)
           \/ \E s \in Semaphores, n \in program.counts : ReleaseSemaphore(t, s, n)
           \/ \E e \in Events : SignalEvent(t, e)
           \/ \E e \in Signals : Clear(t, e)
           \/ \E x \in Timers : CancelTimer(t, x)
  <2>1. Makes({"WakeupAllWaitingThreads"})
    BY <1>2, SignalOps
  <2>2. {"WakeupAllWaitingThreads"} \cap Heavy = {}
    BY DEF Heavy
  <2>3. SameHeavy
    BY <2>1, <2>2, LightShape
  <2>4. UNCHANGED <<status, thread_list, registered>> /\ todo = <<>>
    BY <1>2, <2>1 DEF ReleaseMutex, ReleaseSemaphore, SignalEvent, Clear, CancelTimer, threadVars, coreVars, Makes
  <2>5. events' = events \/ \E x \in Timers : events' = Unscheduled(events, x)
    BY <1>2 DEF ReleaseMutex, ReleaseSemaphore, SignalEvent, Clear, CancelTimer
  <2>6. ASSUME NEW y \in Sources PROVE Fewer(y)
    <3>1. CASE events' = events
      BY <3>1 DEF Fewer
    <3>2. ASSUME NEW x \in Timers, events' = Unscheduled(events, x) PROVE Fewer(y)
      <4>1. events \in [Cores -> [Sources -> Nat]] /\ x \in Sources
        BY TimersApart DEF IInv, CallInv, ThreadTypes
      <4>2. (\A c \in Cores : events'[c][x] = 0) /\ (\A c \in Cores : y # x => events'[c][y] = events[c][y])
        BY <3>2, <4>1, UnscheduledFacts
      <4> QED
        BY <4>2 DEF Fewer
    <3> QED
      BY <2>5, <3>1, <3>2
  <2>7. LightStep
    BY <2>3, <2>4, <2>6, CallStepFacts DEF LightStep
  <2> QED
    BY <2>7, LightKeeps
<1> QED
  BY <1>1, <1>2 DEF SignalSvc

\* The supervisor calls on threads.
LEMMA ThreadSvcLife ==
  ASSUME IInv, LifeInv, ActsAlive, CallStep, NEW t \in Threads, ThreadSvc(t)
  PROVE  LifeInv'
<1>1. ASSUME NEW u \in Threads, SvcCreateThread(t, u) PROVE LifeInv'
  BY <1>1, CreateThreadLife DEF SvcCreateThread, Executes, Executing, AtRest
<1>2. ASSUME NEW u, NEW p, SetThreadPriority(t, u, p) PROVE LifeInv'
  <2>1. /\ todo = <<>> /\ todo' = <<Call("UpdatePending", u, pending_mutexes[u])>>
        /\ UNCHANGED <<status, thread_list, registered, events>>
    BY <1>2 DEF SetThreadPriority, Executes, Executing, AtRest, coreVars
  <2>2. "UpdatePending" \in OpCalls /\ {"UpdatePending"} \cap Heavy = {}
    BY DEF OpCalls, Heavy
  <2>3. SameHeavy
    BY <2>1, <2>2, MakesOne, LightShape
  <2> QED
    BY <2>1, <2>3, QuietKeeps
<1> QED
  BY <1>1, <1>2, ExitThreadLife, TerminateProcessLife DEF ThreadSvc

\* What a reschedule does to the threads: a thread that begins to run loses
\* its event.
LEMMA RescheduleThreads ==
  ASSUME IInv, NEW c \in Cores, Reschedule(c)
  PROVE  /\ \A u \in Threads : \/ status'[u] = status[u]
                               \/ status[u] \in {"Ready", "Running"} /\ status'[u] \in {"Ready", "Running"}
         /\ \A x \in Sources : Fewer(x)
         /\ \A u \in Threads : status'[u] \in Waits \cup {"Ready"} \/ status'[u] = status[u] \/ NoEvent(u)'
<1>1. status \in [Threads -> Statuses] /\ events \in [Cores -> [Sources -> Nat]]
  BY DEF IInv, QueueInv, QueueTypes, CallInv, ThreadTypes
<1>2. PICK next \in Threads \cup {NoThread} : SwitchContext(c, next)
  BY DEF Reschedule
<1>3. PICK stopped :
        /\ stopped = IF RunningOn(c) THEN [status EXCEPT ![current_thread[c]] = "Ready"] ELSE status
        /\ status' = IF next # NoThread /\ stopped[next] = "Ready"
                     THEN [stopped EXCEPT ![next] = "Running"] ELSE stopped
        /\ events' = IF next # NoThread /\ stopped[next] = "Ready" THEN Unscheduled(events, next) ELSE events
  BY <1>2 DEF SwitchContext
<1>4. /\ stopped \in [Threads -> Statuses]
      /\ \A u \in Threads : stopped[u] = status[u] \/ (status[u] = "Running" /\ stopped[u] = "Ready")
  BY <1>1, <1>3 DEF RunningOn, Statuses
<1>5. CASE next # NoThread /\ stopped[next] = "Ready"
  <2>1. next \in Threads /\ next \in Sources /\ events' = Unscheduled(events, next)
    BY <1>3, <1>5 DEF Sources
  <2>2. status'[next] = "Running" /\ \A u \in Threads : u # next => status'[u] = stopped[u]
    BY <1>3, <1>4, <1>5, <2>1
  <2>3. /\ \A d \in Cores : events'[d][next] = 0
        /\ \A y \in Sources, d \in Cores : y # next => events'[d][y] = events[d][y]
    BY <1>1, <2>1, UnscheduledFacts
  <2>4. \A x \in Sources : Fewer(x)
    BY <2>3 DEF Fewer
  <2>5. NoEvent(next)'
    BY <2>3 DEF NoEvent
  <2>6. ASSUME NEW u \in Threads
        PROVE  /\ \/ status'[u] = status[u]
                  \/ status[u] \in {"Ready", "Running"} /\ status'[u] \in {"Ready", "Running"}
               /\ status'[u] \in Waits \cup {"Ready"} \/ status'[u] = status[u] \/ NoEvent(u)'
    <3>1. CASE u = next
      BY <1>4, <1>5, <2>1, <2>2, <2>5, <3>1
    <3>2. CASE u # next
      BY <1>4, <2>2, <3>2
    <3> QED
      BY <3>1, <3>2
  <2> QED
    BY <2>4, <2>6
<1>6. CASE ~(next # NoThread /\ stopped[next] = "Ready")
  <2>1. status' = stopped /\ events' = events
    BY <1>3, <1>6
  <2> QED
    BY <1>4, <2>1 DEF Fewer
<1> QED
  BY <1>5, <1>6

\* A step of the run loop.
LEMMA RunLoopLife ==
  ASSUME IInv, LifeInv, RunLoop
  PROVE  LifeInv'
<1>1. todo = <<>> /\ todo' = todo /\ thread_list' = thread_list /\ registered' = registered
  BY DEF RunLoop, BeginRound, EndAdvance, EndSlice, Advancing, Executing, AtRest, coreVars
<1>3. StoppingOK'
  BY <1>1 DEF StoppingOK
<1>4. UNCHANGED <<status, events>> \/ \E c \in Cores : Reschedule(c)
  BY DEF RunLoop, BeginRound, EndAdvance, EndSlice, threadVars
<1>5. /\ \A u \in Threads : \/ status'[u] = status[u]
                            \/ status[u] \in {"Ready", "Running"} /\ status'[u] \in {"Ready", "Running"}
      /\ \A x \in Sources : Fewer(x)
      /\ \A u \in Threads : status'[u] \in Waits \cup {"Ready"} \/ status'[u] = status[u] \/ NoEvent(u)'
  <2>1. CASE UNCHANGED <<status, events>>
    BY <2>1 DEF Fewer
  <2>2. CASE \E c \in Cores : Reschedule(c)
    BY <2>2, RescheduleThreads
  <2> QED
    BY <1>4, <2>1, <2>2
<1>6. RosterOK'
  <2>1. \A u \in Threads : Lives(u)' <=> Lives(u)
    BY <1>5 DEF Lives
  <2>2. HeavyIn(todo', todo)
    BY <1>1 DEF HeavyIn
  <2> QED
    BY <1>1, <2>1, <2>2, RosterKeeps DEF LifeInv
<1>7. EventsOK'
  BY <1>1, <1>5, EventsKeep DEF LifeInv
<1> QED
  BY <1>3, <1>6, <1>7 DEF LifeInv

\* What is recorded stays recorded.
LEMMA MisuseStays ==
  ASSUME [Next]_vars
  PROVE  misuse \subseteq misuse'
BY DEF Next, Record, vars

\* Only the thread that executes makes supervisor calls.
LEMMA SvcExecutes ==
  ASSUME IInv, NEW t \in Threads, Svc(t)
  PROVE  Executes(t)
<1>1. WaitSvc(t) => Executes(t)
  BY WaitSvcCases
<1>2. SignalSvc(t) => Executes(t)
  BY DEF SignalSvc, ReleaseMutex, ReleaseSemaphore, SignalEvent, Clear, SetTimer, CancelTimer
<1>3. ThreadSvc(t) => Executes(t)
  BY DEF ThreadSvc, SvcCreateThread, SetThreadPriority, ExitThread, TerminateProcess
<1>4. ArbiterSvc(t) => Executes(t)
  BY ArbiterSvcOps
<1> QED
  BY <1>1, <1>2, <1>3, <1>4 DEF Svc

\* Somebody who executes while the step is none of RunLoop makes the step.
LEMMA ExecutorActs ==
  ASSUME IInv, Step, ~RunLoop, NEW t \in Threads, Executes(t)
  PROVE  Svc(t)
<1>1. /\ AtRest /\ phase \in {"execute", "delayed"} /\ IsRunningCore(CoreOf[t])
      /\ current_thread[CoreOf[t]] = t
  BY DEF Executes, Executing
<1>2. ~ObjectCall
  BY <1>1, ObjectCallOps DEF AtRest
<1>3. ~ArbiterCall
  BY <1>1, ArbiterCallOps DEF AtRest
<1>4. ~KernelCall
  BY <1>1 DEF KernelCall, Stop, MutexesReleased, UpdatedPending, ReleaseThreadMutexes, UpdatePending,
     TerminateNext, TerminateCurrent, Rearm, Calling, AtRest
<1>5. ~Callback
  BY <1>1 DEF Callback, ThreadWakeupCallback, TimerCallback, Advancing
<1>6. ~\E p \in Processes : Run(p)
  BY <1>1 DEF Run
<1>7. ASSUME NEW u \in Threads, Svc(u) PROVE u = t
  <2>1. Executes(u)
    BY <1>7, SvcExecutes
  <2>2. CoreOf[u] \in Int /\ CoreOf[t] \in Int
    BY CoresAssumption DEF Cores
  <2>3. CoreOf[u] = CoreOf[t]
    BY <1>1, <2>1, <2>2 DEF Executes, Executing, IsRunningCore
  <2> QED
    BY <1>1, <2>1, <2>3 DEF Executes
<1> QED
  BY <1>2, <1>3, <1>4, <1>5, <1>6, <1>7 DEF Step

\* As long as no dead thread has made a call, nobody who acts is dead.
LEMMA NobodyUndead ==
  ASSUME IInv, Next, "undead" \notin misuse'
  PROVE  LivingStep
<1> SUFFICES ASSUME ~RunLoop, NEW t \in Threads, Executes(t), status[t] = "Dead" PROVE FALSE
  BY DEF LivingStep, ActsAlive
<1>1. Svc(t)
  BY ExecutorActs DEF Next
<1>2. "undead" \in Misused
  BY <1>1 DEF Misused
<1> QED
  BY <1>2 DEF Next, Record

\* Every step.
LEMMA StepLife ==
  ASSUME IInv, LifeInv, [Next]_vars, "undead" \notin misuse'
  PROVE  LifeInv'
<1>1. CASE Next /\ RunLoop
  BY <1>1, RunLoopLife
<1>2. CASE Next /\ ~RunLoop
  <2>1. Step /\ CallStep /\ ActsAlive
    BY <1>2, CallsKeep, NobodyUndead DEF Next, CallKeeps, LivingStep
  <2>2. CASE Callback
    BY <2>1, <2>2, ThreadWakeupLife, TimerCallbackLife DEF Callback
  <2>3. CASE KernelCall
    BY <2>1, <2>3, StopLife, MutexLoopsLife, TerminateNextLife, TerminateCurrentLife, RearmLife DEF KernelCall
  <2>4. ASSUME NEW p \in Processes, Run(p) PROVE LifeInv'
    <3>1. MainThread[p] \in Threads /\ todo = <<>> /\ CreateThread(MainThread[p])
      BY <2>4, KernelAssumption DEF Run, AtRest
    <3> QED
      BY <2>1, <3>1, CreateThreadLife
  <2>5. CASE \E t \in Threads : Svc(t)
    BY <2>1, <2>5, WaitSvcLife, SignalSvcLife, ThreadSvcLife, ArbiterSvcLife DEF Svc
  <2> QED
    BY <1>2, <2>1, <2>2, <2>3, <2>4, <2>5, ObjectCallLife, ArbiterCallLife DEF Step
<1>3. CASE UNCHANGED vars
  <2>1. UNCHANGED <<status, thread_list, registered, events, todo>>
    BY <1>3 DEF vars, threadVars, coreVars
  <2>2. HeavyIn(todo', todo) /\ \A x \in Sources : Fewer(x)
    BY <2>1 DEF HeavyIn, Has, Fewer
  <2>3. StoppingOK' /\ RosterOK'
    BY <2>1, <2>2, RosterKeeps DEF LifeInv, StoppingOK, Doomed, Lives
  <2>4. EventsOK'
    BY <2>1, <2>2 DEF LifeInv, EventsOK, SingleEvent, NoEvent
  <2> QED
    BY <2>3, <2>4 DEF LifeInv
<1> QED
  BY <1>1, <1>2, <1>3

\* At first nobody lives.
LEMMA InitLife ==
  ASSUME Init
  PROVE  LifeInv
<1>1. /\ status = [t \in Threads |-> "None"] /\ current_thread = [c \in Cores |-> NoThread]
      /\ thread_list = [c \in Cores |-> <<>>] /\ todo = <<>>
      /\ events = [c \in Cores |-> [x \in Sources |-> 0]]
  BY DEF Init, SchedInit
<1>2. StoppingOK
  BY <1>1 DEF StoppingOK
<1>3. RosterOK
  <2>1. ToSet(<<>>) = {} /\ NoDuplicates(<<>>)
    BY DEF ToSet, NoDuplicates
  <2> QED
    BY <1>1, <2>1 DEF RosterOK, Lives
<1>4. EventsOK
  BY <1>1 DEF EventsOK, SingleEvent, NoEvent, Sources
<1> QED
  BY <1>2, <1>3, <1>4 DEF LifeInv

\* Until a dead thread makes a call, a thread that has been stopped does not come
\* back, thread_list holds exactly the living threads that are not about to be
\* stopped, and nobody runs with an event.
LEMMA LifeHolds == Spec => []("undead" \notin misuse => LifeInv)
<1>1. Init => LifeInv
  BY InitLife
<1>2. IInv /\ ("undead" \notin misuse => LifeInv) /\ [Next]_vars => ("undead" \notin misuse => LifeInv)'
  BY StepLife, MisuseStays
<1> QED
  BY <1>1, <1>2, InvHolds, PTL DEF Spec

\* Thread::WakeAfterDelay, Thread::Stop, SwitchContext and the timer calls keep at
\* most one event of a thread or timer in the timing queue, and never one of a
\* thread that runs, is dead or is no longer registered, until a dead thread makes
\* a call.
THEOREM NoStaleEventTheorem == Spec => []NoStaleEvent
<1>1. ("undead" \notin misuse => LifeInv) => NoStaleEvent
  <2> SUFFICES ASSUME LifeInv, NEW x \in Sources, NEW c \in Cores, events[c][x] > 0
               PROVE  /\ events[c][x] = 1 /\ \A d \in Cores \ {c} : events[d][x] = 0
                      /\ x \in Threads => status[x] \in Waits \cup {"Ready"} /\ x \in registered
    BY DEF NoStaleEvent
  <2>1. events[c][x] = 1 /\ \A d \in Cores \ {c} : events[d][x] = 0
    BY DEF LifeInv, EventsOK, SingleEvent
  <2>2. ASSUME x \in Threads PROVE status[x] \in Waits \cup {"Ready"} /\ x \in registered
    <3>1. status[x] \in Waits \cup {"Ready"}
      BY <2>1, <2>2 DEF LifeInv, EventsOK, NoEvent
    <3>2. Lives(x)
      BY <3>1 DEF Lives, Waits
    <3> QED
      BY <2>2, <3>1, <3>2 DEF LifeInv, RosterOK
  <2> QED
    BY <2>1, <2>2
<1> QED
  BY <1>1, LifeHolds, PTL

\* The calls of Thread::Stop are about the thread that is stopped.
LEMMA StopCallsOf ==
  ASSUME IInv, NEW t \in Threads, NEW new, new = StopCalls(t)
  PROVE  /\ IsTodo(new) /\ \A i \in DOMAIN new : new[i][2] = t
         /\ Ops(new, {"WakeupAllWaitingThreads", "RemoveWaitingThread", "ReleaseThreadMutexes"})
         /\ ReleasesIn(new, t)
<1>1. wait_objects[t] \in Seq(Objects)
  BY ListTypes
<1>2. PICK a, b, c, d : /\ a = <<Call("WakeupAllWaitingThreads", t, "Stop")>>
                        /\ b = ForEach("RemoveWaitingThread", t, wait_objects[t])
                        /\ c = <<Call("ReleaseThreadMutexes", t, "Stop")>> /\ d = a \o b
  OBVIOUS
<1>3. /\ "WakeupAllWaitingThreads" \in OpCalls /\ "RemoveWaitingThread" \in OpCalls
      /\ "ReleaseThreadMutexes" \in OpCalls
  BY DEF OpCalls
<1>4. IsTodo(a) /\ DOMAIN a = {1} /\ a[1][1] = "WakeupAllWaitingThreads" /\ a[1][2] = t
  BY <1>2, <1>3, OneFacts
<1>5. IsTodo(b) /\ \A i \in DOMAIN b : b[i][1] = "RemoveWaitingThread" /\ b[i][2] = t
  BY <1>1, <1>2, <1>3, ForEachFacts
<1>6. IsTodo(c) /\ DOMAIN c = {1} /\ c[1][1] = "ReleaseThreadMutexes" /\ c[1][2] = t
  BY <1>2, <1>3, OneFacts
<1>7. Stacked(d, a, b)
  BY <1>2, <1>4, <1>5, StackConcat
<1>8. new = d \o c
  BY <1>2 DEF StopCalls
<1>13. IsTodo(d)
  BY <1>7 DEF Stacked
<1>9. Stacked(new, d, c)
  BY <1>6, <1>8, <1>13, StackConcat
<1>10. \A i \in DOMAIN d : d[i][2] = t /\ d[i][1] \in {"WakeupAllWaitingThreads", "RemoveWaitingThread"}
  BY <1>4, <1>5, <1>7 DEF Stacked
<1>11. \A i \in DOMAIN new : /\ new[i][2] = t
                             /\ new[i][1] \in {"WakeupAllWaitingThreads", "RemoveWaitingThread", "ReleaseThreadMutexes"}
  BY <1>6, <1>9, <1>10 DEF Stacked
<1>12. ReleasesIn(new, t)
  BY <1>6, <1>9 DEF Stacked, ReleasesIn
<1> QED
  BY <1>9, <1>11, <1>12 DEF Ops, Stacked

-----------------------------------------------------------------------------
\* Priorities.  A thread that is not dead has the best of its nominal priority
\* and those of the mutexes it holds, in the middle of a call too; only the dead
\* give up all their mutexes.
InheritOK ==
  /\ \A t \in Threads : status[t] # "Dead" =>
       IsBest(current_priority[t], Lent(t, held_mutexes[t], mutex_priority))
  /\ \A t \in Threads : ReleasesIn(todo, t) => status[t] = "Dead"

\* The calls of a stack are those of the one before, or new ones.
LEMMA CallsFrom ==
  ASSUME IInv, NEW S, todo' = todo \/ Makes(S) \/ Pushes(S) \/ Returns(S)
  PROVE  \A i \in DOMAIN todo' : todo'[i][1] \in S \/ Has(todo, todo'[i])
<1>1. IsTodo(todo)
  BY DEF IInv, CallInv
<1>2. CASE todo' = todo
  BY <1>2 DEF Has
<1>3. CASE Makes(S)
  BY <1>3 DEF Makes, Ops
<1>4. CASE Pushes(S)
  <2>1. PICK new, r : IsTodo(new) /\ Ops(new, S) /\ r = new \o todo /\ r = todo'
    BY <1>4 DEF Pushes
  <2>2. Stacked(r, new, todo)
    BY <1>1, <2>1, StackConcat
  <2> QED
    BY <2>1, <2>2 DEF Stacked, Ops, Has
<1>5. CASE Returns(S)
  <2>1. PICK new, base, r : /\ IsTodo(new) /\ Ops(new, S) /\ base = Tail(todo) /\ r = new \o base /\ r = todo'
                            /\ todo # <<>>
    BY <1>5 DEF Returns
  <2>2. Popped(base, todo)
    BY <1>1, <2>1, StackTail
  <2>3. Stacked(r, new, base)
    BY <2>1, <2>2, StackConcat DEF Popped
  <2>4. \A i \in DOMAIN r : r[i][1] \in S \/ Has(base, r[i])
    BY <2>1, <2>3 DEF Stacked, Ops, Has
  <2>5. \A x : Has(base, x) => Has(todo, x)
    BY <2>2 DEF Popped
  <2> QED
    BY <2>1, <2>4, <2>5
<1> QED
  BY <1>2, <1>3, <1>4, <1>5

\* What the calls on threads and processes make.
LEMMA KernelCallOps ==
  ASSUME IInv, KernelCall
  PROVE  \/ Returns({}) \/ Returns({"UpdatePending"}) \/ Pushes({"WakeupAllWaitingThreads"})
         \/ Pushes({"Stop"}) \/ Returns({"Stop"})
         \/ \E t \in Threads : Stop(t)
<1>1. todo # <<>>
  BY DEF KernelCall, Stop, MutexesReleased, UpdatedPending, ReleaseThreadMutexes, UpdatePending,
     TerminateNext, TerminateCurrent, Rearm, Calling
<1>2. \/ Return(<<>>) \/ \E x, y : Return(<<Call("UpdatePending", x, y)>>)
      \/ \E m : todo' = <<Call("WakeupAllWaitingThreads", m, "Stop")>> \o todo
      \/ \E u : todo' = <<Call("Stop", u, "Stop")>> \o todo
      \/ \E u : Return(<<Call("Stop", u, "Stop")>>)
      \/ \E t \in Threads : Stop(t)
  BY DEF KernelCall, MutexesReleased, UpdatedPending, ReleaseThreadMutexes, UpdatePending,
     TerminateNext, TerminateCurrent, Rearm
<1>3. "UpdatePending" \in OpCalls /\ "WakeupAllWaitingThreads" \in OpCalls /\ "Stop" \in OpCalls
  BY DEF OpCalls
<1> QED
  BY <1>1, <1>2, <1>3, JustReturns, ReturnsOne, PushesOne

\* What the supervisor calls on threads begin with.
LEMMA ThreadSvcOps ==
  ASSUME IInv, NEW t \in Threads, ThreadSvc(t)
  PROVE  Makes({"UpdatePending"}) \/ Makes({"Stop"}) \/ Makes({"TerminateProcessThreads"})
<1>1. todo = <<>>
  BY DEF ThreadSvc, SvcCreateThread, SetThreadPriority, ExitThread, TerminateProcess, Executes, Executing, AtRest
<1>2. "UpdatePending" \in OpCalls /\ "Stop" \in OpCalls /\ "TerminateProcessThreads" \in OpCalls
  BY DEF OpCalls
<1>3. ASSUME NEW u \in Threads, SvcCreateThread(t, u) PROVE Makes({"Stop"})
  BY <1>1, <1>3, MakesNone DEF SvcCreateThread, CreateThread
<1>4. ASSUME NEW u, NEW p, SetThreadPriority(t, u, p) PROVE Makes({"UpdatePending"})
  BY <1>1, <1>2, <1>4, MakesOne DEF SetThreadPriority
<1>5. CASE ExitThread(t)
  BY <1>1, <1>2, <1>5, MakesOne DEF ExitThread
<1>6. ASSUME NEW p \in Processes, TerminateProcess(t, p) PROVE Makes({"TerminateProcessThreads"})
  <2>1. todo' = [i \in 1..NumCores |-> Call("TerminateProcessThreads", p, i - 1)]
    BY <1>6 DEF TerminateProcess
  <2>2. todo' = [i \in 1..NumCores |-> todo'[i]] /\ DOMAIN todo' = 1..NumCores /\ NumCores \in Nat
    BY <2>1, CoresAssumption
  <2>3. \A i \in 1..NumCores : todo'[i][1] = "TerminateProcessThreads"
    BY <2>1 DEF Call
  <2> QED
    BY <1>1, <1>2, <2>2, <2>3, MakesMany
<1> QED
  BY <1>3, <1>4, <1>5, <1>6 DEF ThreadSvc

\* Every step makes calls, or replaces the call on top by calls; only
\* WakeupAllWaitingThreads and a thread that need not wait acquire objects, and
\* only Thread::Stop releases the mutexes of a thread.
Shape(S) == todo' = todo \/ Makes(S) \/ Pushes(S) \/ Returns(S)
CommonOps == OpCalls \ {"Acquire", "ReleaseThreadMutexes"}

\* It may have more calls.
LEMMA ShapeMore ==
  ASSUME NEW S, NEW T, S \subseteq T, Shape(S)
  PROVE  Shape(T)
BY DEF Shape, Makes, Pushes, Returns, Ops

\* The calls of Thread::Stop.
LEMMA StopOps ==
  ASSUME IInv, NEW t \in Threads, Stop(t)
  PROVE  Returns({"WakeupAllWaitingThreads", "RemoveWaitingThread", "ReleaseThreadMutexes"})
<1>1. todo # <<>> /\ todo' = StopCalls(t) \o Tail(todo)
  BY DEF Stop, Calling, StopCalls, Return
<1> QED
  BY <1>1, StopCallsOf DEF Returns

\* The shape of every step.
LEMMA StepShape ==
  ASSUME IInv, Step
  PROVE  \/ Shape(CommonOps)
         \/ \E t \in Threads : Stop(t) \/ Takes(t)
         \/ \E o \in Objects : WakeupNext(o)
<1>0. /\ {} \subseteq CommonOps /\ {"ResumeFromWait"} \subseteq CommonOps /\ {"UpdatePending"} \subseteq CommonOps
      /\ {"WakeupAllWaitingThreads"} \subseteq CommonOps /\ {"Stop"} \subseteq CommonOps
      /\ {"WakeupAllWaitingThreads", "ScheduleEvent"} \subseteq CommonOps /\ Endings \subseteq CommonOps
      /\ {"TerminateProcessThreads"} \subseteq CommonOps /\ {"ResumeAllThreads"} \subseteq CommonOps
      /\ {"ResumeHighestPriorityThread"} \subseteq CommonOps
  BY DEF CommonOps, OpCalls, Endings
<1>1. ASSUME NEW S, S \subseteq CommonOps, todo' = todo \/ Makes(S) \/ Pushes(S) \/ Returns(S)
      PROVE  Shape(CommonOps)
  <2>1. Shape(S)
    BY <1>1 DEF Shape
  <2> QED
    BY <1>1, <2>1, ShapeMore
<1>2. CASE todo' = todo
  BY <1>2 DEF Shape
<1>3. CASE ObjectCall
  <2>1. CASE ~ \E o \in Objects : WakeupNext(o)
    <3>1. todo # <<>> /\ Return(<<>>)
      BY <1>3, <2>1 DEF ObjectCall, AcquireMutex, AcquireSemaphore, AcquireSignal, AcquireThread, AddWaitingThread,
         RemoveWaitingThread, WakeupDone, SyncWakeUp, ResumeFromWait, Calling
    <3> QED
      BY <1>0, <1>1, <3>1, JustReturns
  <2> QED
    BY <2>1
<1>4. CASE ArbiterCall
  BY <1>0, <1>1, <1>4, ArbiterCallOps
<1>5. CASE KernelCall
  BY <1>0, <1>1, <1>5, KernelCallOps
<1>6. CASE Callback
  <2>2. ASSUME NEW c \in Cores, NEW x \in Timers, TimerCallback(c, x)
        PROVE  Makes({"WakeupAllWaitingThreads", "ScheduleEvent"})
    <3>1. periodic[x] \in BOOLEAN /\ todo = <<>> /\ todo' = TimerSignal(x, periodic[x])
      BY <2>2 DEF IInv, CallInv, ObjectTypes, TimerCallback, Advancing, AtRest
    <3> QED
      BY <3>1, TimerOps
  <2> QED
    BY <1>0, <1>1, <1>6, <2>2, WakeupCallbackOps DEF Callback
<1>7. ASSUME NEW t \in Threads, WaitSvc(t) PROVE Shape(CommonOps) \/ Takes(t)
  <2>1. CASE Sleeps(t)
    <3>1. PICK objects \in program.handles[t] : todo' = ForEach("AddWaitingThread", t, objects)
      BY <2>1 DEF Sleeps, Sleep
    <3>2. objects \in Seq(Objects) /\ todo = <<>>
      BY <1>7, <3>1, KernelAssumption, WaitSvcCases DEF IInv, Executes, Executing, AtRest
    <3>3. IsTodo(todo') /\ \A i \in DOMAIN todo' : todo'[i][1] = "AddWaitingThread"
      BY <3>1, <3>2, ForEachFacts DEF OpCalls
    <3>4. "AddWaitingThread" \in CommonOps
      BY DEF CommonOps, OpCalls
    <3>5. Makes(CommonOps)
      BY <3>2, <3>3, <3>4 DEF Makes, Ops
    <3> QED
      BY <3>5 DEF Shape
  <2>2. ASSUME NEW delay, SleepThread(t, delay) PROVE Shape(CommonOps)
    BY <2>2 DEF SleepThread, Shape
  <2> QED
    BY <1>7, <2>1, <2>2, WaitSvcCases
<1>8. ASSUME NEW u \in Threads, SignalSvc(u) PROVE Shape(CommonOps)
  <2>1. ASSUME NEW x \in Timers, NEW now \in BOOLEAN, NEW again \in BOOLEAN, SetTimer(u, x, now, again)
        PROVE  todo' = todo \/ Makes({"WakeupAllWaitingThreads", "ScheduleEvent"})
    BY <2>1, TimerOps DEF SetTimer, Executes, Executing, AtRest
  <2> QED
    BY <1>0, <1>1, <1>8, <2>1, SignalOps DEF SignalSvc
<1>9. ASSUME NEW u \in Threads, ThreadSvc(u) PROVE Shape(CommonOps)
  BY <1>0, <1>1, <1>9, ThreadSvcOps
<1>10. ASSUME NEW u \in Threads, ArbiterSvc(u) PROVE Shape(CommonOps)
  BY <1>0, <1>1, <1>10, ArbiterSvcOps
<1>11. CASE RunLoop \/ \E p \in Processes : Run(p)
  BY <1>2, <1>11 DEF RunLoop, BeginRound, EndAdvance, EndSlice, Run, CreateThread
<1> QED
  BY <1>3, <1>4, <1>5, <1>6, <1>7, <1>8, <1>9, <1>10, <1>11 DEF Step, Svc

\* No step loses a call but the one on top.
LEMMA StepStack ==
  ASSUME IInv, Step
  PROVE  \A x : Has(todo, x) => Has(todo', x) \/ x = Head(todo)
<1>1. \E S : Shape(S)
  <2>1. ASSUME NEW t \in Threads, Takes(t) PROVE todo = <<>>
    BY <2>1 DEF Takes, Executes, Executing, AtRest
  <2>2. ASSUME NEW t \in Threads, Takes(t) PROVE Shape({"AddWaitingThread", "Acquire"})
    <3>1. PICK one \in Seq(Objects) : todo' = ForEach("Acquire", t, one)
      BY <2>2 DEF Takes, Take
    <3>2. IsTodo(todo') /\ \A i \in DOMAIN todo' : todo'[i][1] = "Acquire"
      BY <3>1, ForEachFacts DEF OpCalls
    <3> QED
      BY <2>1, <2>2, <3>2 DEF Shape, Makes, Ops
  <2>3. ASSUME NEW o \in Objects, WakeupNext(o) PROVE Shape(Endings \cup {"Acquire"})
    BY <2>3, WakeupNextCalls, ZenonT(40) DEF Shape, Pushes, WakeupNext, Calling
  <2> QED
    BY <2>2, <2>3, StepShape, StopOps DEF Shape
<1>2. PICK S : Shape(S)
  BY <1>1
<1>3. IsTodo(todo)
  BY DEF IInv, CallInv
<1>4. CASE todo' = todo \/ Makes(S)
  BY <1>4 DEF Makes, Has
<1>5. CASE Pushes(S)
  <2>1. PICK new : IsTodo(new) /\ todo' = new \o todo
    BY <1>5 DEF Pushes
  <2> QED
    BY <1>3, <2>1, HasConcat
<1>6. CASE Returns(S)
  <2>1. PICK new, base : IsTodo(new) /\ base = Tail(todo) /\ todo' = new \o base /\ todo # <<>>
    BY <1>6 DEF Returns
  <2>2. Popped(base, todo)
    BY <1>3, <2>1, StackTail
  <2>3. \A x : Has(base, x) => Has(todo', x)
    BY <2>1, <2>2, HasConcat DEF Popped
  <2> QED
    BY <2>2, <2>3 DEF Popped
<1> QED
  BY <1>2, <1>4, <1>5, <1>6 DEF Shape

\* Only Thread::Stop makes the call that releases the mutexes of a thread.
LEMMA StepReleases ==
  ASSUME IInv, Step, NEW t \in Threads, ReleasesIn(todo', t)
  PROVE  ReleasesIn(todo, t) \/ Stop(t)
<1>1. ASSUME NEW S, "ReleaseThreadMutexes" \notin S, Shape(S)
      PROVE  ReleasesIn(todo, t)
  <2>1. PICK i \in DOMAIN todo' : todo'[i][1] = "ReleaseThreadMutexes" /\ todo'[i][2] = t
    BY DEF ReleasesIn
  <2>2. Has(todo, todo'[i])
    BY <1>1, <2>1, CallsFrom DEF Shape
  <2> QED
    BY <2>1, <2>2 DEF Has, ReleasesIn
<1>2. CASE Shape(CommonOps)
  BY <1>1, <1>2 DEF CommonOps
<1>3. ASSUME NEW u \in Threads, Takes(u) PROVE FALSE
  <2>1. PICK one \in Seq(Objects) : todo' = ForEach("Acquire", u, one)
    BY <1>3 DEF Takes, Take
  <2>2. \A i \in DOMAIN todo' : todo'[i][1] = "Acquire"
    BY <2>1, ForEachFacts DEF OpCalls
  <2> QED
    BY <2>2 DEF ReleasesIn
<1>4. ASSUME NEW o \in Objects, WakeupNext(o) PROVE ReleasesIn(todo, t)
  <2>1. Shape(Endings \cup {"Acquire"}) /\ "ReleaseThreadMutexes" \notin Endings \cup {"Acquire"}
    BY <1>4, WakeupNextCalls, ZenonT(40) DEF Shape, Pushes, WakeupNext, Calling, Endings
  <2> QED
    BY <1>1, <2>1
<1>5. ASSUME NEW u \in Threads, Stop(u) PROVE ReleasesIn(todo, t) \/ u = t
  <2>0. IsTodo(todo) /\ todo # <<>>
    BY <1>5 DEF IInv, CallInv, Stop, Calling
  <2>1. PICK new, base, r : /\ new = StopCalls(u) /\ base = Tail(todo) /\ r = new \o base /\ r = todo'
    BY <1>5 DEF Stop, StopCalls, Return
  <2>2. /\ IsTodo(new) /\ \A i \in DOMAIN new : new[i][2] = u
    BY <2>1, StopCallsOf
  <2>3. Popped(base, todo)
    BY <2>0, <2>1, StackTail
  <2>4. Stacked(r, new, base)
    BY <2>1, <2>2, <2>3, StackConcat DEF Popped
  <2>5. PICK i \in DOMAIN r : r[i][1] = "ReleaseThreadMutexes" /\ r[i][2] = t
    BY <2>1 DEF ReleasesIn
  <2>6. CASE \E k \in DOMAIN base : r[i] = base[k]
    BY <2>3, <2>5, <2>6 DEF Popped, ReleasesIn
  <2> QED
    BY <2>2, <2>4, <2>5, <2>6 DEF Stacked
<1> QED
  BY <1>2, <1>3, <1>4, <1>5, StepShape

\* The dead stay dead.
LEMMA DeadStays ==
  ASSUME IInv, LivingStep, Step, NEW t \in Threads, status[t] = "Dead"
  PROVE  status'[t] = "Dead"
<1>1. status \in [Threads -> Statuses]
  BY DEF IInv, QueueInv, QueueTypes
<1>2. CASE ~RunLoop
  <2>1. CallStep
    BY <1>2, CallsKeep DEF CallKeeps
  <2>2. CASE FallsAsleep
    <3>1. PICK u \in Threads, w \in Waits : Executes(u) /\ status' = [status EXCEPT ![u] = w]
      BY <2>2 DEF FallsAsleep
    <3>2. status[u] = "Running"
      BY <1>2, <3>1, ExecutesAlive DEF LivingStep
    <3> QED
      BY <1>1, <3>1, <3>2
  <2>3. CASE Boosts \/ BecomesReady \/ Dies
    BY <1>1, <2>3 DEF Boosts, BecomesReady, Dies, Waits
  <2> QED
    BY <2>1, <2>2, <2>3 DEF CallStep
<1>3. CASE RunLoop
  <2>1. UNCHANGED <<status, events>> \/ \E c \in Cores : Reschedule(c)
    BY <1>3 DEF RunLoop, BeginRound, EndAdvance, EndSlice, threadVars
  <2> QED
    BY <2>1, RescheduleThreads
<1> QED
  BY <1>2, <1>3

\* A step that changes no priority.
LEMMA SamePriorities ==
  ASSUME IInv, LivingStep, InheritOK, Step,
         UNCHANGED <<nominal_priority, current_priority, mutex_priority, held_mutexes>>
  PROVE  InheritOK'
<1>1. ASSUME NEW t \in Threads, status'[t] # "Dead"
      PROVE  IsBest(current_priority[t], Lent(t, held_mutexes[t], mutex_priority))'
  BY <1>1, DeadStays DEF InheritOK, IsBest, Lent
<1>2. ASSUME NEW t \in Threads, ReleasesIn(todo', t) PROVE status'[t] = "Dead"
  <2>1. CASE Stop(t)
    <3>1. status \in [Threads -> Statuses]
      BY DEF IInv, QueueInv, QueueTypes
    <3> QED
      BY <2>1, <3>1 DEF Stop
  <2>2. CASE ReleasesIn(todo, t)
    BY <2>2, DeadStays DEF InheritOK
  <2> QED
    BY <1>2, <2>1, <2>2, StepReleases
<1> QED
  BY <1>1, <1>2 DEF InheritOK, ReleasesIn

\* A step that changes the priority of one thread.
LEMMA OnePriority ==
  ASSUME IInv, LivingStep, InheritOK, Step, UNCHANGED status, NEW t \in Threads, NEW p,
         current_priority' = [current_priority EXCEPT ![t] = p],
         IsBest(p, {nominal_priority'[t]} \cup {mutex_priority'[m] : m \in held_mutexes'[t]}),
         \A u \in Threads : u # t => /\ held_mutexes'[u] = held_mutexes[u]
                                     /\ nominal_priority'[u] = nominal_priority[u],
         \A u \in Threads : u # t /\ status[u] # "Dead" =>
           \A m \in held_mutexes[u] : mutex_priority'[m] = mutex_priority[m]
  PROVE  InheritOK'
<1>1. current_priority \in [Threads -> Priorities]
  BY DEF IInv, QueueInv, QueueTypes
<1>2. ASSUME NEW u \in Threads, status'[u] # "Dead"
      PROVE  IsBest(current_priority'[u], {nominal_priority'[u]} \cup {mutex_priority'[m] : m \in held_mutexes'[u]})
  <2>1. CASE u = t
    BY <1>1, <2>1
  <2>2. CASE u # t
    <3>1. IsBest(current_priority[u], {nominal_priority[u]} \cup {mutex_priority[m] : m \in held_mutexes[u]})
      BY <1>2 DEF InheritOK, Lent
    <3>2. current_priority'[u] = current_priority[u]
      BY <1>1, <2>2
    <3>3. {mutex_priority'[m] : m \in held_mutexes'[u]} = {mutex_priority[m] : m \in held_mutexes[u]}
      BY <1>2, <2>2
    <3> QED
      BY <2>2, <3>1, <3>2, <3>3
  <2> QED
    BY <2>1, <2>2
<1>3. \A u \in Threads : ReleasesIn(todo', u) => status'[u] = "Dead"
  <2>1. status \in [Threads -> Statuses]
    BY DEF IInv, QueueInv, QueueTypes
  <2>2. \A u \in Threads : Stop(u) => status'[u] = "Dead"
    BY <2>1 DEF Stop
  <2> QED
    BY <2>2, StepReleases, DeadStays DEF InheritOK
<1> QED
  BY <1>2, <1>3 DEF InheritOK, Lent, ReleasesIn

\* The mutexes of the living have them as their holders.
LEMMA HeldByLiving ==
  ASSUME IInv, InheritOK, NEW u \in Threads, status[u] # "Dead", NEW m \in held_mutexes[u]
  PROVE  holding_thread[m] = u
BY DEF IInv, CallInv, LocksOK, InheritOK

\* Mutex::UpdatePriority passes the new priority on to the holder.
LEMMA MutexPriorityInherit ==
  ASSUME IInv, LivingStep, InheritOK, Step, UNCHANGED <<status, nominal_priority, held_mutexes>>,
         NEW m \in Mutexes, NEW ws, UpdateMutexPriority(m, ws)
  PROVE  InheritOK'
<1>1. PICK best \in Priorities :
        IF holding_thread[m] = NoThread \/ best = mutex_priority[m]
        THEN UNCHANGED <<mutex_priority, current_priority, ready_queue>>
        ELSE /\ mutex_priority' = [mutex_priority EXCEPT ![m] = best]
             /\ UpdateThreadPriority(holding_thread[m],
                                     held_mutexes[holding_thread[m]], mutex_priority')
  BY DEF UpdateMutexPriority
<1>2. CASE UNCHANGED <<mutex_priority, current_priority>>
  BY <1>2, SamePriorities
<1>3. CASE ~UNCHANGED <<mutex_priority, current_priority>>
  <2>1. PICK t \in Threads : t = holding_thread[m]
    BY <1>1, <1>3 DEF IInv, CallInv, LockTypes
  <2>2. /\ mutex_priority' = [mutex_priority EXCEPT ![m] = best]
        /\ UpdateThreadPriority(t, held_mutexes[t], mutex_priority')
    BY <1>1, <1>3, <2>1
  <2>3. PICK p \in Priorities : /\ IsBest(p, Lent(t, held_mutexes[t], mutex_priority'))
                                /\ current_priority' = [current_priority EXCEPT ![t] = p]
    BY <2>2 DEF UpdateThreadPriority, BoostPriority
  <2>4. IsBest(p, {nominal_priority'[t]} \cup {mutex_priority'[n] : n \in held_mutexes'[t]})
    BY <2>3 DEF Lent
  <2>5. ASSUME NEW u \in Threads, u # t, status[u] # "Dead", NEW n \in held_mutexes[u]
        PROVE  mutex_priority'[n] = mutex_priority[n]
    <3>1. n # m
      BY <2>1, <2>5, HeldByLiving
    <3>2. mutex_priority \in [Mutexes -> Priorities] /\ n \in Mutexes
      BY DEF IInv, CallInv, ObjectTypes, LockTypes
    <3> QED
      BY <2>2, <3>1, <3>2
  <2> QED
    BY <2>3, <2>4, <2>5, OnePriority
<1> QED
  BY <1>2, <1>3

\* The calls on objects.
LEMMA ObjectCallInherit ==
  ASSUME IInv, LivingStep, InheritOK, Step, ObjectCall
  PROVE  InheritOK'
<1>1. ASSUME NEW t \in Threads, NEW m \in Mutexes, AcquireMutex(t, m) PROVE InheritOK'
  <2>1. CASE lock_count[m] = 0
    <3>1. /\ mutex_priority' = [mutex_priority EXCEPT ![m] = current_priority[t]]
          /\ held_mutexes' = [held_mutexes EXCEPT ![t] = @ \cup {m}]
          /\ UpdateThreadPriority(t, held_mutexes'[t], mutex_priority')
          /\ UNCHANGED <<status, nominal_priority>>
      BY <1>1, <2>1 DEF AcquireMutex
    <3>2. PICK p \in Priorities : /\ IsBest(p, Lent(t, held_mutexes'[t], mutex_priority'))
                                  /\ current_priority' = [current_priority EXCEPT ![t] = p]
      BY <3>1 DEF UpdateThreadPriority, BoostPriority
    <3>3. IsBest(p, {nominal_priority'[t]} \cup {mutex_priority'[n] : n \in held_mutexes'[t]})
      BY <3>1, <3>2 DEF Lent
    <3>4. \A u \in Threads : u # t => held_mutexes'[u] = held_mutexes[u]
      BY <3>1 DEF IInv, CallInv, LockTypes
    <3>5. ASSUME NEW u \in Threads, u # t, status[u] # "Dead", NEW n \in held_mutexes[u]
          PROVE  mutex_priority'[n] = mutex_priority[n]
      <4>0. ~(lock_count[m] > 0) /\ u # NoThread
        BY <2>1, ThreadsAssumption
      <4>1. n # m
        BY <3>5, <4>0, HeldByLiving DEF IInv, CallInv, LocksOK
      <4>2. mutex_priority \in [Mutexes -> Priorities] /\ n \in Mutexes
        BY DEF IInv, CallInv, ObjectTypes, LockTypes
      <4> QED
        BY <3>1, <4>1, <4>2
    <3> QED
      BY <3>1, <3>2, <3>3, <3>4, <3>5, OnePriority
  <2>2. CASE lock_count[m] # 0
    BY <1>1, <2>2, SamePriorities DEF AcquireMutex
  <2> QED
    BY <2>1, <2>2
<1>2. ASSUME NEW t \in Threads, NEW o \in Objects, AddWaitingThread(t, o) \/ RemoveWaitingThread(t, o)
      PROVE  InheritOK'
  <2>1. UNCHANGED <<status, nominal_priority, held_mutexes>>
    BY <1>2 DEF AddWaitingThread, RemoveWaitingThread, lockVars
  <2>2. CASE o \in Mutexes
    BY <1>2, <2>1, <2>2, MutexPriorityInherit DEF AddWaitingThread, RemoveWaitingThread
  <2>3. CASE o \notin Mutexes
    BY <1>2, <2>1, <2>3, SamePriorities DEF AddWaitingThread, RemoveWaitingThread
  <2> QED
    BY <2>2, <2>3
<1>3. CASE UNCHANGED <<nominal_priority, current_priority, mutex_priority, held_mutexes>>
  BY <1>3, SamePriorities
<1> QED
  BY <1>1, <1>2, <1>3 DEF ObjectCall, AcquireSemaphore, AcquireSignal, AcquireThread, WakeupNext, WakeupDone,
     SyncWakeUp, ResumeFromWait, threadVars, objectVars, lockVars

\* Every step.
LEMMA StepInherit ==
  ASSUME IInv, InheritOK, [Next]_vars, "undead" \notin misuse'
  PROVE  InheritOK'
<1>0. Next => LivingStep
  BY NobodyUndead
<1>1. CASE UNCHANGED vars
  BY <1>1 DEF vars, threadVars, objectVars, lockVars, InheritOK, IsBest, Lent, ReleasesIn
<1>2. ASSUME Step, LivingStep, UNCHANGED <<nominal_priority, current_priority, mutex_priority, held_mutexes>> PROVE InheritOK'
  BY <1>2, SamePriorities
<1>3. CASE ArbiterCall /\ Step /\ LivingStep
  BY <1>2, <1>3 DEF ArbiterCall, ResumeAllThreads, ResumeHighestPriorityThread, ArbiterWakeUp, threadVars,
     objectVars, lockVars
<1>4. CASE KernelCall /\ Step /\ LivingStep
  <2>1. ASSUME NEW t \in Threads, NEW m \in Mutexes, UpdatePending(t, m) PROVE InheritOK'
    <3>1. UNCHANGED <<status, nominal_priority, held_mutexes>> /\ UpdateMutexPriority(m, waiting_threads[m])
      BY <2>1 DEF UpdatePending, lockVars
    <3> QED
      BY <1>4, <3>1, MutexPriorityInherit
  <2>2. ASSUME NEW t \in Threads, MutexesReleased(t) PROVE InheritOK'
    <3>1. /\ UNCHANGED <<status, nominal_priority, current_priority, mutex_priority>>
          /\ held_mutexes' = [held_mutexes EXCEPT ![t] = {}] /\ todo # <<>> /\ Head(todo)[1] = "ReleaseThreadMutexes"
          /\ Head(todo)[2] = t
      BY <2>2 DEF MutexesReleased, Calling, threadVars
    <3>2. ReleasesIn(todo, t)
      <4>1. IsTodo(todo)
        BY DEF IInv, CallInv
      <4>2. PICK base : Popped(base, todo)
        BY <3>1, <4>1, StackTail
      <4> QED
        BY <3>1, <4>2 DEF Popped, ReleasesIn
    <3>3. status[t] = "Dead"
      BY <3>2 DEF InheritOK
    <3>4. \A u \in Threads : u # t => held_mutexes'[u] = held_mutexes[u]
      BY <3>1 DEF IInv, CallInv, LockTypes
    <3>5. ASSUME NEW u \in Threads, status'[u] # "Dead"
          PROVE  IsBest(current_priority'[u], {nominal_priority'[u]} \cup {mutex_priority'[m] : m \in held_mutexes'[u]})
      <4>1. u # t /\ status[u] # "Dead"
        BY <3>1, <3>3, <3>5
      <4>2. IsBest(current_priority[u], {nominal_priority[u]} \cup {mutex_priority[m] : m \in held_mutexes[u]})
        BY <4>1 DEF InheritOK, Lent
      <4>3. held_mutexes'[u] = held_mutexes[u]
        BY <3>4, <4>1
      <4> QED
        BY <3>1, <4>2, <4>3
    <3>6. \A u \in Threads : ReleasesIn(todo', u) => status'[u] = "Dead"
      <4>1. \A u \in Threads : ~Stop(u)
        BY <3>1 DEF Stop, Calling
      <4> QED
        BY <1>4, <4>1, StepReleases, DeadStays DEF InheritOK
    <3> QED
      BY <3>5, <3>6 DEF InheritOK, Lent, ReleasesIn
  <2>3. CASE UNCHANGED <<nominal_priority, current_priority, mutex_priority, held_mutexes>>
    BY <1>2, <1>4, <2>3
  <2> QED
    BY <1>4, <2>1, <2>2, <2>3 DEF KernelCall, Stop, UpdatedPending, ReleaseThreadMutexes, TerminateNext,
       TerminateCurrent, Rearm, threadVars, objectVars, lockVars
<1>5. CASE (Callback \/ RunLoop \/ \E p \in Processes : Run(p)) /\ Step /\ LivingStep
  BY <1>2, <1>5 DEF Callback, ThreadWakeupCallback, TimerCallback, RunLoop, BeginRound, EndAdvance, EndSlice,
     Run, CreateThread, threadVars, objectVars, lockVars
<1>6. ASSUME NEW t \in Threads, SignalSvc(t), Step, LivingStep PROVE InheritOK'
  <2>1. ASSUME NEW m \in Mutexes, ReleaseMutex(t, m) PROVE InheritOK'
    <3>1. CASE lock_count[m] = 1
      <4>1. /\ held_mutexes' = [held_mutexes EXCEPT ![t] = @ \ {m}]
            /\ UpdateThreadPriority(t, held_mutexes'[t], mutex_priority)
            /\ UNCHANGED <<status, nominal_priority, mutex_priority>>
        BY <2>1, <3>1 DEF ReleaseMutex
      <4>2. PICK p \in Priorities : /\ IsBest(p, Lent(t, held_mutexes'[t], mutex_priority))
                                    /\ current_priority' = [current_priority EXCEPT ![t] = p]
        BY <4>1 DEF UpdateThreadPriority, BoostPriority
      <4>3. IsBest(p, {nominal_priority'[t]} \cup {mutex_priority'[n] : n \in held_mutexes'[t]})
        BY <4>1, <4>2 DEF Lent
      <4>4. \A u \in Threads : u # t => held_mutexes'[u] = held_mutexes[u]
        BY <4>1 DEF IInv, CallInv, LockTypes
      <4> QED
        BY <1>6, <4>1, <4>2, <4>3, <4>4, OnePriority
    <3>2. CASE lock_count[m] # 1
      BY <1>2, <1>6, <2>1, <3>2 DEF ReleaseMutex
    <3> QED
      BY <3>1, <3>2
  <2>2. CASE UNCHANGED <<nominal_priority, current_priority, mutex_priority, held_mutexes>>
    BY <1>2, <1>6, <2>2
  <2> QED
    BY <1>6, <2>1, <2>2 DEF SignalSvc, ReleaseSemaphore, SignalEvent, Clear, SetTimer, CancelTimer, threadVars,
       objectVars, lockVars
<1>7. ASSUME NEW t \in Threads, ThreadSvc(t), Step, LivingStep PROVE InheritOK'
  <2>1. ASSUME NEW u \in Threads, NEW p \in Priorities, SetThreadPriority(t, u, p) PROVE InheritOK'
    <3>1. PICK best \in Priorities :
            /\ IsBest(best, {p} \cup {mutex_priority[m] : m \in held_mutexes[u]})
            /\ current_priority' = [current_priority EXCEPT ![u] = best]
      BY <2>1 DEF SetThreadPriority, BoostPriority
    <3>2. /\ nominal_priority' = [nominal_priority EXCEPT ![u] = p]
          /\ UNCHANGED <<status, mutex_priority, held_mutexes>>
      BY <2>1 DEF SetThreadPriority, objectVars, lockVars
    <3>3. nominal_priority'[u] = p /\ \A v \in Threads : v # u => nominal_priority'[v] = nominal_priority[v]
      BY <3>2 DEF IInv, CallInv, ThreadTypes
    <3>4. IsBest(best, {nominal_priority'[u]} \cup {mutex_priority'[m] : m \in held_mutexes'[u]})
      BY <3>1, <3>2, <3>3
    <3> QED
      BY <1>7, <3>1, <3>2, <3>3, <3>4, OnePriority
  <2>2. program.targets \subseteq Threads /\ program.priorities \subseteq Priorities
    BY KernelAssumption DEF IInv
  <2>3. CASE UNCHANGED <<nominal_priority, current_priority, mutex_priority, held_mutexes>>
    BY <1>2, <1>7, <2>3
  <2> QED
    BY <1>7, <2>1, <2>2, <2>3 DEF ThreadSvc, SvcCreateThread, CreateThread, ExitThread, TerminateProcess, threadVars,
       objectVars, lockVars
<1>8. ASSUME NEW t \in Threads, WaitSvc(t) \/ ArbiterSvc(t), Step, LivingStep PROVE InheritOK'
  <2>1. ASSUME WaitSvc(t) PROVE UNCHANGED <<nominal_priority, current_priority, mutex_priority, held_mutexes>>
    BY <2>1, WaitSvcCases DEF Sleeps, Sleep, Takes, Take, SleepThread, threadVars, objectVars, lockVars
  <2>2. ASSUME ArbiterSvc(t) PROVE UNCHANGED <<nominal_priority, current_priority, mutex_priority, held_mutexes>>
    BY <2>2 DEF ArbiterSvc, ArbitrateSignal, ArbitrateWait, ArbitrateNoWait, threadVars, objectVars, lockVars
  <2> QED
    BY <1>2, <1>8, <2>1, <2>2
<1>9. Next => Step
  BY DEF Next
<1> QED
  BY <1>0, <1>1, <1>3, <1>4, <1>5, <1>6, <1>7, <1>8, <1>9, ObjectCallInherit DEF Step, Svc

\* Until a dead thread makes a call, priorities are inherited at every moment.
LEMMA InheritHolds == Spec => []("undead" \notin misuse => InheritOK)
<1>1. Init => InheritOK
  <2> SUFFICES ASSUME Init PROVE InheritOK
    OBVIOUS
  <2>1. /\ nominal_priority = InitialPriority /\ current_priority = InitialPriority /\ todo = <<>>
        /\ held_mutexes = [t \in Threads |-> {}]
    BY DEF Init, SchedInit, ObjectInit
  <2>2. \A t \in Threads : InitialPriority[t] \in Nat
    BY PriorityAssumption DEF Priorities
  <2>3. \A t \in Threads : IsBest(current_priority[t], Lent(t, held_mutexes[t], mutex_priority))
    BY <2>1, <2>2 DEF IsBest, Lent
  <2> QED
    BY <2>1, <2>3 DEF InheritOK, ReleasesIn
<1>2. IInv /\ ("undead" \notin misuse => InheritOK) /\ [Next]_vars => ("undead" \notin misuse => InheritOK)'
  BY StepInherit, MisuseStays
<1> QED
  BY <1>1, <1>2, InvHolds, PTL DEF Spec

\* Between two calls a thread that is not dead has the best of its nominal
\* priority and those of the mutexes it holds (Thread::UpdatePriority), however
\* svcSetThreadPriority, locks, waits, timeouts and the ends of processes followed
\* each other, until a dead thread makes a call.
THEOREM InheritedPriorityTheorem == Spec => []InheritedPriority
<1>1. ("undead" \notin misuse => InheritOK) => InheritedPriority
  BY DEF InheritOK, InheritedPriority
<1> QED
  BY <1>1, InheritHolds, PTL

-----------------------------------------------------------------------------
\* The end of a process.  As long as a thread of a process that exits lives, the
\* call that will stop it is on the stack; a thread that does not live holds no
\* mutex, or is about to release its mutexes; and objects are acquired before
\* anything else, for a thread that lives.
ExitingOK ==
  \A t \in Threads : process_status[ProcessOf[t]] = "Exited" /\ Lives(t) =>
    Has(todo, Stopping(t)) \/ Has(todo, EndingOn(ProcessOf[t], CoreOf[t]))
LeftOK == \A t \in Threads : ~Lives(t) => held_mutexes[t] = {} \/ ReleasesIn(todo, t)
AcquiresOK ==
  \A i \in DOMAIN todo : todo[i][1] = "Acquire" =>
    Lives(todo[i][2]) /\ \A j \in DOMAIN todo : j < i => todo[j][1] = "Acquire"
ExitOK == ExitingOK /\ LeftOK /\ AcquiresOK

\* While calls are in progress nothing else happens.
LEMMA BusyStep ==
  ASSUME Step, todo # <<>>
  PROVE  ObjectCall \/ ArbiterCall \/ KernelCall
<1>1. \A t : ~Executes(t)
  BY DEF Executes, Executing, AtRest
<1>2. ~RunLoop /\ ~Callback /\ \A p : ~Run(p)
  BY DEF RunLoop, BeginRound, EndAdvance, EndSlice, Callback, ThreadWakeupCallback, TimerCallback, Run,
     Advancing, Executing, AtRest
<1>3. ASSUME NEW t PROVE ~WaitSvc(t) /\ ~SignalSvc(t) /\ ~ThreadSvc(t) /\ ~ArbiterSvc(t)
  BY <1>1 DEF WaitSvc, WaitSynchronization1, WaitSynchronizationAny, WaitSynchronizationAll, SleepThread,
     SignalSvc, ReleaseMutex, ReleaseSemaphore, SignalEvent, Clear, SetTimer, CancelTimer,
     ThreadSvc, SvcCreateThread, SetThreadPriority, ExitThread, TerminateProcess,
     ArbiterSvc, ArbitrateSignal, ArbitrateWait, ArbitrateNoWait
<1> QED
  BY <1>2, <1>3 DEF Step, Svc

\* The calls that decide over lives are made by the kernel.
LEMMA KernelHead ==
  ASSUME IInv, Step, todo # <<>>,
         Head(todo)[1] \in {"Stop", "TerminateProcessThreads", "ReleaseThreadMutexes"}
  PROVE  KernelCall
BY BusyStep, ObjectCallOps, ArbiterCallOps DEF ObjectOps, ArbiterOps

\* Threads come to life in CreateThread and die in Thread::Stop, nowhere else.
LEMMA LivesStep ==
  ASSUME IInv, LivingStep, Step, NEW t \in Threads
  PROVE  \/ Lives(t)' <=> Lives(t)
         \/ Stop(t)
         \/ \E p \in Processes : Run(p) /\ MainThread[p] = t
         \/ ~RunLoop /\ \E u \in Threads : SvcCreateThread(u, t)
<1>0. status \in [Threads -> Statuses]
  BY DEF IInv, QueueInv, QueueTypes
<1>1. CASE status' = status
  BY <1>1 DEF Lives
<1>2. ASSUME NEW u \in Threads, Lives(u), NEW w \in Waits \cup {"Ready"}, status' = [status EXCEPT ![u] = w]
      PROVE  Lives(t)' <=> Lives(t)
  <2>1. CASE u = t
    <3>1. status'[t] = w /\ w \notin {"None", "Dead"}
      BY <1>0, <1>2, <2>1 DEF Waits
    <3> QED
      BY <1>2, <2>1, <3>1 DEF Lives
  <2>2. CASE u # t
    BY <1>0, <1>2, <2>2 DEF Lives
  <2> QED
    BY <2>1, <2>2
<1>3. CASE ObjectCall
  <2>1. ASSUME NEW u \in Threads, ResumeFromWait(u) PROVE Lives(t)' <=> Lives(t)
    <3>1. status' = status \/ (status[u] \in Waits /\ status' = [status EXCEPT ![u] = "Ready"])
      BY <2>1 DEF ResumeFromWait
    <3>2. status[u] \in Waits => Lives(u)
      BY DEF Lives, Waits
    <3> QED
      BY <1>1, <1>2, <3>1, <3>2 DEF Lives
  <2> QED
    BY <1>1, <1>3, <2>1 DEF ObjectCall, AcquireMutex, AcquireSemaphore, AcquireSignal, AcquireThread,
       AddWaitingThread, RemoveWaitingThread, WakeupNext, WakeupDone, SyncWakeUp, threadVars
<1>4. CASE ArbiterCall
  BY <1>1, <1>4 DEF ArbiterCall, ResumeAllThreads, ResumeHighestPriorityThread, ArbiterWakeUp, threadVars
<1>5. CASE KernelCall
  <2>1. ASSUME NEW u \in Threads, Stop(u) PROVE u = t \/ (Lives(t)' <=> Lives(t))
    BY <1>0, <2>1 DEF Stop, Lives
  <2> QED
    BY <1>1, <1>5, <2>1 DEF KernelCall, MutexesReleased, UpdatedPending, ReleaseThreadMutexes, UpdatePending,
       TerminateNext, TerminateCurrent, Rearm, threadVars
<1>6. CASE Callback
  BY <1>1, <1>6 DEF Callback, ThreadWakeupCallback, TimerCallback, threadVars
<1>7. ASSUME ActsAlive, NEW u \in Threads, WaitSvc(u) \/ ArbiterSvc(u) PROVE Lives(t)' <=> Lives(t)
  <2>1. \/ status' = status
        \/ Executes(u) /\ \E w \in Waits : status' = [status EXCEPT ![u] = w]
    <3>1. CASE WaitSvc(u)
      BY <3>1, WaitSvcCases DEF Sleeps, Sleep, Takes, Take, SleepThread, threadVars, Waits, Synching
    <3>2. CASE ArbiterSvc(u)
      BY <3>2 DEF ArbiterSvc, ArbitrateSignal, ArbitrateWait, ArbitrateNoWait, threadVars, Waits
    <3> QED
      BY <1>7, <3>1, <3>2
  <2>2. Executes(u) => Lives(u)
    BY <1>7, ExecutesAlive
  <2> QED
    BY <1>2, <2>1, <2>2 DEF Lives
<1>8. ASSUME NEW u \in Threads, SignalSvc(u) PROVE status' = status
  BY <1>8 DEF SignalSvc, ReleaseMutex, ReleaseSemaphore, SignalEvent, Clear, SetTimer, CancelTimer, threadVars
<1>9. ASSUME NEW u \in Threads, ThreadSvc(u)
      PROVE  \/ Lives(t)' <=> Lives(t)
             \/ SvcCreateThread(u, t)
  <2>1. ASSUME NEW v \in Threads, SvcCreateThread(u, v) PROVE v = t \/ (Lives(t)' <=> Lives(t))
    BY <1>0, <2>1 DEF SvcCreateThread, CreateThread, Lives
  <2>2. CASE status' = status
    BY <2>2 DEF Lives
  <2> QED
    BY <1>9, <2>1, <2>2 DEF ThreadSvc, SetThreadPriority, ExitThread, TerminateProcess, threadVars
<1>10. ASSUME NEW p \in Processes, Run(p) PROVE MainThread[p] = t \/ (Lives(t)' <=> Lives(t))
  BY <1>0, <1>10, KernelAssumption DEF Run, CreateThread, Lives
<1>11. CASE RunLoop
  <2>1. UNCHANGED status \/ \E c \in Cores : Reschedule(c)
    BY <1>11 DEF RunLoop, BeginRound, EndAdvance, EndSlice, threadVars
  <2>2. \/ status'[t] = status[t]
        \/ status[t] \in {"Ready", "Running"} /\ status'[t] \in {"Ready", "Running"}
    BY <2>1, RescheduleThreads
  <2> QED
    BY <2>2 DEF Lives
<1> QED
  BY <1>1, <1>3, <1>4, <1>5, <1>6, <1>7, <1>8, <1>9, <1>10, <1>11 DEF Step, Svc, LivingStep

\* A process exits in TerminateProcess, and never runs again.
LEMMA ExitedStep ==
  ASSUME IInv, Step, NEW p \in Processes, process_status'[p] = "Exited"
  PROVE  process_status[p] = "Exited" \/ \E u \in Threads : TerminateProcess(u, p)
<1>0. process_status \in [Processes -> {"Created", "Running", "Exited"}]
  BY DEF IInv, CallInv, OtherTypes
<1>1. CASE process_status' = process_status
  BY <1>1
<1>2. ASSUME NEW q \in Processes, Run(q) PROVE process_status[p] = "Exited"
  BY <1>0, <1>2 DEF Run
<1>3. ASSUME NEW u \in Threads, NEW q \in Processes, TerminateProcess(u, q)
      PROVE  process_status[p] = "Exited" \/ q = p
  BY <1>0, <1>3 DEF TerminateProcess
<1>4. ASSUME ObjectCall \/ ArbiterCall \/ RunLoop \/ Callback \/ KernelCall PROVE process_status' = process_status
  BY <1>4 DEF ObjectCall, ArbiterCall, RunLoop, Callback, ThreadWakeupCallback, TimerCallback, KernelCall, Stop,
     MutexesReleased, UpdatedPending, ReleaseThreadMutexes, UpdatePending, TerminateNext, TerminateCurrent, Rearm
<1>5. ASSUME NEW u \in Threads, WaitSvc(u) \/ ArbiterSvc(u) \/ SignalSvc(u) PROVE process_status' = process_status
  <2>1. CASE WaitSvc(u)
    BY <2>1, WaitSvcCases DEF Sleeps, Sleep, Takes, Take, SleepThread
  <2> QED
    BY <1>5, <2>1 DEF ArbiterSvc, SignalSvc, ReleaseMutex, ReleaseSemaphore, SignalEvent, Clear, SetTimer, CancelTimer
<1>6. ASSUME NEW u \in Threads, ThreadSvc(u)
      PROVE  process_status' = process_status \/ \E q \in Processes : TerminateProcess(u, q)
  BY <1>6 DEF ThreadSvc, SvcCreateThread, SetThreadPriority, ExitThread
<1> QED
  BY <1>1, <1>2, <1>3, <1>4, <1>5, <1>6 DEF Step, Svc

\* A thread gets another mutex only by acquiring it.
LEMMA HeldStep ==
  ASSUME IInv, Step, NEW t \in Threads
  PROVE  \/ held_mutexes'[t] \subseteq held_mutexes[t]
         \/ todo # <<>> /\ Head(todo)[1] = "Acquire" /\ Head(todo)[2] = t
<1>0. held_mutexes \in [Threads -> SUBSET Mutexes]
  BY DEF IInv, CallInv, LockTypes
<1>1. CASE held_mutexes' = held_mutexes
  BY <1>1
<1>2. ASSUME NEW u \in Threads, NEW m \in Mutexes, AcquireMutex(u, m)
      PROVE  held_mutexes'[t] \subseteq held_mutexes[t] \/ (todo # <<>> /\ Head(todo)[1] = "Acquire" /\ Head(todo)[2] = t)
  <2>1. todo # <<>> /\ Head(todo) = Call("Acquire", u, m)
    BY <1>2 DEF AcquireMutex, Calling
  <2>2. held_mutexes' = held_mutexes \/ held_mutexes' = [held_mutexes EXCEPT ![u] = @ \cup {m}]
    BY <1>2, ZenonT(40) DEF AcquireMutex
  <2> QED
    BY <1>0, <2>1, <2>2 DEF Call
<1>3. CASE ObjectCall \/ ArbiterCall \/ RunLoop \/ Callback
  BY <1>1, <1>2, <1>3, ZenonT(40) DEF ObjectCall, AcquireSemaphore, AcquireSignal, AcquireThread, AddWaitingThread,
     RemoveWaitingThread, WakeupNext, WakeupDone, SyncWakeUp, ResumeFromWait, ArbiterCall, ResumeAllThreads,
     ResumeHighestPriorityThread, ArbiterWakeUp, RunLoop, Callback, ThreadWakeupCallback, TimerCallback,
     objectVars, lockVars
<1>4. CASE KernelCall
  <2>1. ASSUME NEW u \in Threads, MutexesReleased(u) PROVE held_mutexes'[t] \subseteq held_mutexes[t]
    BY <1>0, <2>1 DEF MutexesReleased
  <2> QED
    BY <1>1, <1>4, <2>1 DEF KernelCall, Stop, UpdatedPending, ReleaseThreadMutexes, UpdatePending,
       TerminateNext, TerminateCurrent, Rearm, objectVars, lockVars
<1>5. ASSUME NEW u \in Threads, WaitSvc(u) \/ ArbiterSvc(u) \/ ThreadSvc(u) PROVE held_mutexes' = held_mutexes
  <2>1. CASE WaitSvc(u)
    BY <2>1, WaitSvcCases DEF Sleeps, Sleep, Takes, Take, SleepThread, objectVars, lockVars
  <2>2. CASE ArbiterSvc(u)
    BY <2>2 DEF ArbiterSvc, ArbitrateSignal, ArbitrateWait, ArbitrateNoWait, objectVars, lockVars
  <2>3. CASE ThreadSvc(u)
    BY <2>3 DEF ThreadSvc, SvcCreateThread, SetThreadPriority, ExitThread, TerminateProcess, objectVars, lockVars
  <2> QED
    BY <1>5, <2>1, <2>2, <2>3
<1>6. ASSUME NEW u \in Threads, SignalSvc(u) PROVE held_mutexes'[t] \subseteq held_mutexes[t]
  <2>1. ASSUME NEW m \in Mutexes, ReleaseMutex(u, m) PROVE held_mutexes'[t] \subseteq held_mutexes[t]
    BY <1>0, <2>1 DEF ReleaseMutex
  <2> QED
    BY <1>1, <1>6, <2>1 DEF SignalSvc, ReleaseSemaphore, SignalEvent, Clear, SetTimer, CancelTimer, objectVars, lockVars
<1>7. ASSUME NEW p \in Processes, Run(p) PROVE held_mutexes' = held_mutexes
  BY <1>7 DEF Run, objectVars, lockVars
<1> QED
  BY <1>1, <1>3, <1>4, <1>5, <1>6, <1>7 DEF Step, Svc

\* The threads of a process that exits.
LEMMA StepExiting ==
  ASSUME IInv, LifeInv, LivingStep, ExitingOK, Step
  PROVE  ExitingOK'
<1> SUFFICES ASSUME NEW t \in Threads, process_status'[ProcessOf[t]] = "Exited", Lives(t)'
             PROVE  Has(todo', Stopping(t)) \/ Has(todo', EndingOn(ProcessOf[t], CoreOf[t]))
  BY DEF ExitingOK, Stopping, EndingOn
<1>0. ProcessOf[t] \in Processes /\ CoreOf[t] \in Cores /\ IsTodo(todo)
  BY KernelAssumption, CoresAssumption DEF IInv, CallInv
<1>1. ASSUME NEW u \in Threads, TerminateProcess(u, ProcessOf[t])
      PROVE  Has(todo', EndingOn(ProcessOf[t], CoreOf[t]))
  <2>1. todo' = [i \in 1..NumCores |-> Call("TerminateProcessThreads", ProcessOf[t], i - 1)]
    BY <1>1 DEF TerminateProcess
  <2>2. PICK k \in 1..NumCores : k = CoreOf[t] + 1 /\ k - 1 = CoreOf[t]
    BY <1>0, CoresAssumption DEF Cores
  <2>3. k \in DOMAIN todo' /\ todo'[k] = EndingOn(ProcessOf[t], CoreOf[t])
    BY <2>1, <2>2 DEF EndingOn
  <2> QED
    BY <2>3 DEF Has
<1>2. CASE process_status[ProcessOf[t]] = "Exited"
  <2>1. ASSUME NEW p \in Processes, Run(p) PROVE MainThread[p] # t
    <3>1. process_status \in [Processes -> {"Created", "Running", "Exited"}]
      BY DEF IInv, CallInv, OtherTypes
    <3>2. process_status'[p] = "Running"
      BY <2>1, <3>1 DEF Run
    <3>3. ProcessOf[MainThread[p]] = p
      BY KernelAssumption
    <3> QED
      BY <3>2, <3>3
  <2>2. ASSUME ~RunLoop, NEW u \in Threads PROVE ~SvcCreateThread(u, t)
    <3> SUFFICES ASSUME SvcCreateThread(u, t) PROVE FALSE
      OBVIOUS
    <3>1. Executes(u) /\ ProcessOf[u] = ProcessOf[t]
      BY DEF SvcCreateThread
    <3>2. Lives(u) /\ todo = <<>>
      BY <2>2, <3>1, ExecutesAlive DEF LivingStep
    <3> QED
      BY <1>2, <3>1, <3>2 DEF ExitingOK, Has
  <2>3. ~Stop(t)
    <3>1. status \in [Threads -> Statuses]
      BY DEF IInv, QueueInv, QueueTypes
    <3> QED
      BY <3>1 DEF Stop, Lives
  <2>4. Lives(t)
    BY <2>1, <2>2, <2>3, LivesStep
  <2>5. CASE Has(todo, Stopping(t))
    <3>1. CASE Stopping(t) = Head(todo)
      <4>1. todo # <<>> /\ Head(todo)[1] = "Stop" /\ Head(todo)[2] = t
        BY <2>5, <3>1 DEF Has, Stopping, Call
      <4>2. KernelCall
        BY <4>1, KernelHead
      <4>3. Stop(t)
        BY <4>1, <4>2 DEF KernelCall, Stop, MutexesReleased, UpdatedPending, ReleaseThreadMutexes,
           UpdatePending, TerminateNext, TerminateCurrent, Rearm, Calling
      <4> QED
        BY <2>3, <4>3
    <3> QED
      BY <2>5, <3>1, StepStack
  <2>6. CASE Has(todo, EndingOn(ProcessOf[t], CoreOf[t])) /\ ~Has(todo, Stopping(t))
    <3>1. CASE EndingOn(ProcessOf[t], CoreOf[t]) = Head(todo)
      <4>1. /\ todo # <<>> /\ Head(todo)[1] = "TerminateProcessThreads" /\ Head(todo)[2] = ProcessOf[t]
            /\ Head(todo)[3] = CoreOf[t]
        BY <2>6, <3>1 DEF Has, EndingOn, Call
      <4>2. KernelCall
        BY <4>1, KernelHead
      <4>3. TerminateNext(ProcessOf[t], CoreOf[t]) \/ TerminateCurrent(ProcessOf[t], CoreOf[t])
        <5>1. \E p \in Processes, c \in Cores : TerminateNext(p, c) \/ TerminateCurrent(p, c)
          BY <4>1, <4>2 DEF KernelCall, Stop, MutexesReleased, UpdatedPending, ReleaseThreadMutexes,
             UpdatePending, Rearm, Calling
        <5>2. \A p, c : TerminateNext(p, c) \/ TerminateCurrent(p, c) => p = Head(todo)[2] /\ c = Head(todo)[3]
          BY DEF TerminateNext, TerminateCurrent
        <5> QED
          BY <4>1, <5>1, <5>2
      <4>4. "Stop" \in OpCalls
        BY DEF OpCalls
      <4>5. CASE TerminateNext(ProcessOf[t], CoreOf[t])
        <5>1. PICK u, new : new = <<Call("Stop", u, "Stop")>> /\ todo' = new \o todo
          BY <4>5 DEF TerminateNext
        <5>2. IsTodo(new)
          BY <4>4, <5>1, OneFacts
        <5> QED
          BY <1>0, <2>6, <5>1, <5>2, HasConcat
      <4>6. CASE TerminateCurrent(ProcessOf[t], CoreOf[t])
        <5>1. t \in ToSet(thread_list[CoreOf[t]])
          BY <2>4, <2>6 DEF LifeInv, RosterOK
        <5>2. PICK i \in DOMAIN thread_list[CoreOf[t]] : thread_list[CoreOf[t]][i] = t
          BY <5>1 DEF ToSet
        <5>3. t = current_thread[CoreOf[t]]
          BY <4>6, <5>2 DEF TerminateCurrent, Victims
        <5>4. t # NoThread
          BY ThreadsAssumption
        <5>5. Return(<<Stopping(t)>>)
          BY <4>6, <5>3, <5>4 DEF TerminateCurrent, Stopping
        <5>6. PICK new, base : new = <<Call("Stop", t, "Stop")>> /\ base = Tail(todo) /\ todo' = new \o base
          BY <5>5 DEF Return, Stopping
        <5>7. IsTodo(new) /\ 1 \in DOMAIN new /\ new[1] = Stopping(t)
          BY <4>4, <5>6, OneFacts DEF Stopping
        <5>8. IsTodo(base)
          BY <1>0, <4>1, <5>6, TodoTail
        <5>9. Has(new, Stopping(t))
          BY <5>7 DEF Has
        <5> QED
          BY <5>6, <5>7, <5>8, <5>9, HasConcat
      <4> QED
        BY <4>3, <4>5, <4>6
    <3> QED
      BY <2>6, <3>1, StepStack
  <2> QED
    BY <1>2, <2>4, <2>5, <2>6 DEF ExitingOK
<1> QED
  BY <1>0, <1>1, <1>2, ExitedStep

\* The threads that do not live.
LEMMA StepLeft ==
  ASSUME IInv, LivingStep, LeftOK, AcquiresOK, Step
  PROVE  LeftOK'
<1> SUFFICES ASSUME NEW t \in Threads, ~Lives(t)' PROVE held_mutexes'[t] = {} \/ ReleasesIn(todo', t)
  BY DEF LeftOK, ReleasesIn
<1>0. IsTodo(todo) /\ status \in [Threads -> Statuses] /\ held_mutexes \in [Threads -> SUBSET Mutexes]
  BY DEF IInv, CallInv, QueueInv, QueueTypes, LockTypes
<1>1. CASE Stop(t)
  <2>1. PICK new, base : new = StopCalls(t) /\ base = Tail(todo) /\ todo' = new \o base /\ todo # <<>>
    BY <1>1 DEF Stop, StopCalls, Return, Calling
  <2>2. IsTodo(new) /\ ReleasesIn(new, t)
    BY <2>1, StopCallsOf
  <2>3. PICK i \in DOMAIN new : new[i][1] = "ReleaseThreadMutexes" /\ new[i][2] = t
    BY <2>2 DEF ReleasesIn
  <2>4. IsTodo(base)
    BY <1>0, <2>1, TodoTail
  <2>5. Has(new, new[i])
    BY DEF Has
  <2>6. Has(todo', new[i])
    BY <2>1, <2>2, <2>4, <2>5, HasConcat
  <2> QED
    BY <2>3, <2>6 DEF Has, ReleasesIn
<1>2. CASE ~Stop(t)
  <2>1. ~Lives(t)
    <3>1. ASSUME CreateThread(t) PROVE FALSE
      BY <1>0, <3>1 DEF CreateThread, Lives
    <3> QED
      BY <1>2, <3>1, LivesStep DEF Run, SvcCreateThread
  <2>2. CASE held_mutexes[t] = {}
    <3>1. ASSUME todo # <<>>, Head(todo)[1] = "Acquire", Head(todo)[2] = t PROVE FALSE
      <4>1. PICK base : Popped(base, todo)
        BY <1>0, <3>1, StackTail
      <4> QED
        BY <2>1, <3>1, <4>1 DEF Popped, AcquiresOK
    <3> QED
      BY <2>2, <3>1, HeldStep
  <2>3. CASE ReleasesIn(todo, t)
    <3>1. PICK i \in DOMAIN todo : todo[i][1] = "ReleaseThreadMutexes" /\ todo[i][2] = t
      BY <2>3 DEF ReleasesIn
    <3>2. CASE Has(todo', todo[i])
      BY <3>1, <3>2 DEF Has, ReleasesIn
    <3>3. CASE todo[i] = Head(todo)
      <4>1. todo # <<>> /\ Head(todo)[1] = "ReleaseThreadMutexes" /\ Head(todo)[2] = t
        BY <3>1, <3>3
      <4>2. KernelCall
        BY <4>1, KernelHead
      <4>3. MutexesReleased(t) \/ \E m \in Mutexes : ReleaseThreadMutexes(t, m)
        BY <4>1, <4>2 DEF KernelCall, Stop, MutexesReleased, UpdatedPending, ReleaseThreadMutexes,
           UpdatePending, TerminateNext, TerminateCurrent, Rearm, Calling
      <4>4. CASE MutexesReleased(t)
        BY <1>0, <4>4 DEF MutexesReleased
      <4>5. ASSUME NEW m \in Mutexes, ReleaseThreadMutexes(t, m) PROVE ReleasesIn(todo', t)
        <5>1. PICK new : new = <<Call("WakeupAllWaitingThreads", m, "Stop")>> /\ todo' = new \o todo
          BY <4>5 DEF ReleaseThreadMutexes
        <5>2. IsTodo(new)
          BY <5>1, OneFacts DEF OpCalls
        <5>3. Has(todo, todo[i])
          BY DEF Has
        <5>4. Has(todo', todo[i])
          BY <1>0, <5>1, <5>2, <5>3, HasConcat
        <5> QED
          BY <3>1, <5>4 DEF Has, ReleasesIn
      <4> QED
        BY <4>3, <4>4, <4>5
    <3>4. Has(todo, todo[i])
      BY DEF Has
    <3> QED
      BY <3>2, <3>3, <3>4, StepStack
  <2> QED
    BY <2>1, <2>2, <2>3 DEF LeftOK
<1> QED
  BY <1>1, <1>2

\* Acquire is called on top of the stack, for a thread that lives.
LEMMA StepAcquires ==
  ASSUME IInv, LivingStep, AcquiresOK, Step, panic' = "none"
  PROVE  AcquiresOK'
<1>0. IsTodo(todo)
  BY DEF IInv, CallInv
<1>1. CASE todo # <<>> /\ Head(todo)[1] = "Acquire"
  <2>1. ObjectCall
    <3>1. ~ArbiterCall
      BY <1>1, ArbiterCallOps DEF ArbiterOps
    <3>2. ~KernelCall
      BY <1>1, ZenonT(40) DEF KernelCall, Stop, MutexesReleased, UpdatedPending, ReleaseThreadMutexes,
         UpdatePending, TerminateNext, TerminateCurrent, Rearm, Calling
    <3> QED
      BY <1>1, <3>1, <3>2, BusyStep
  <2>2. UNCHANGED status /\ Return(<<>>)
    BY <1>1, <2>1, ZenonT(40) DEF ObjectCall, AcquireMutex, AcquireSemaphore, AcquireSignal, AcquireThread, AddWaitingThread,
       RemoveWaitingThread, WakeupNext, WakeupDone, SyncWakeUp, ResumeFromWait, Calling, threadVars
  <2>3. PICK r : r = Tail(todo) /\ r = todo'
    <3>1. \E S : Tail(todo) \in Seq(S)
      BY <1>0, <1>1, TodoTail DEF IsTodo
    <3> QED
      BY <2>2, <3>1 DEF Return
  <2>4. Popped(r, todo)
    BY <1>0, <1>1, <2>3, StackTail
  <2>5. \A i \in DOMAIN r : i \in Nat /\ i + 1 \in DOMAIN todo /\ r[i] = todo[i + 1]
    BY <2>4 DEF Popped
  <2>6. ASSUME NEW i \in DOMAIN r, r[i][1] = "Acquire"
        PROVE  Lives(r[i][2]) /\ \A j \in DOMAIN r : j < i => r[j][1] = "Acquire"
    <3>1. i + 1 \in DOMAIN todo /\ todo[i + 1][1] = "Acquire" /\ r[i] = todo[i + 1]
      BY <2>5, <2>6
    <3>2. Lives(todo[i + 1][2]) /\ \A j \in DOMAIN todo : j < i + 1 => todo[j][1] = "Acquire"
      BY <3>1 DEF AcquiresOK
    <3>3. \A j \in DOMAIN r : j < i => j + 1 < i + 1
      BY <2>5, <2>6
    <3> QED
      BY <2>5, <3>1, <3>2, <3>3
  <2> QED
    BY <2>2, <2>3, <2>6 DEF AcquiresOK, Lives
<1>2. CASE todo = <<>> \/ Head(todo)[1] # "Acquire"
  <2>1. \A i \in DOMAIN todo : todo[i][1] # "Acquire"
    <3> SUFFICES ASSUME NEW i \in DOMAIN todo, todo[i][1] = "Acquire" PROVE FALSE
      OBVIOUS
    <3>1. todo # <<>>
      OBVIOUS
    <3>2. PICK base : Popped(base, todo)
      BY <1>0, <3>1, StackTail
    <3>3. 1 \in DOMAIN todo /\ todo[1] = Head(todo) /\ i \in Nat /\ i >= 1
      BY <3>2 DEF Popped
    <3>4. i = 1 \/ 1 < i
      BY <3>3
    <3> QED
      BY <1>2, <3>1, <3>3, <3>4 DEF AcquiresOK
  <2>2. ASSUME NEW S, Shape(S), "Acquire" \notin S PROVE AcquiresOK'
    <3>1. \A i \in DOMAIN todo' : todo'[i][1] \in S \/ Has(todo, todo'[i])
      BY <2>2, CallsFrom DEF Shape
    <3>2. \A i \in DOMAIN todo' : todo'[i][1] # "Acquire"
      BY <2>1, <2>2, <3>1 DEF Has
    <3> QED
      BY <3>2 DEF AcquiresOK
  <2>3. ASSUME NEW t \in Threads, Stop(t) PROVE AcquiresOK'
    BY <2>2, <2>3, StopOps DEF Shape
  <2>4. ASSUME ActsAlive, NEW t \in Threads, Takes(t) PROVE AcquiresOK'
    <3>1. PICK one \in Seq(Objects) : todo' = ForEach("Acquire", t, one)
      BY <2>4 DEF Takes, Take
    <3>2. UNCHANGED status /\ Executes(t)
      BY <2>4 DEF Takes, Take, threadVars
    <3>3. Lives(t)
      BY <2>4, <3>2, ExecutesAlive
    <3>4. \A i \in DOMAIN todo' : todo'[i][1] = "Acquire" /\ todo'[i][2] = t
      BY <3>1 DEF ForEach, Call
    <3> QED
      BY <3>2, <3>3, <3>4 DEF AcquiresOK, Lives
  <2>5. ASSUME NEW o \in Objects, WakeupNext(o) PROVE AcquiresOK'
    <3>1. PICK t \in Threads, acquired \in Seq(Objects) :
            /\ status[t] \in Synching
            /\ \E new : new = ForEach("Acquire", t, acquired) \o EndWait(t, o) /\ todo' = new \o todo
      BY <2>5, WakeupNextCalls
    <3>2. PICK a, e, new, r : /\ a = ForEach("Acquire", t, acquired) /\ e = EndWait(t, o) /\ new = a \o e
                              /\ r = new \o todo /\ r = todo'
      BY <3>1
    <3>3. IsTodo(a) /\ \A j \in DOMAIN a : a[j] = Call("Acquire", t, acquired[j])
      <4>1. IsTodo(a)
        BY <3>2, ForEachFacts DEF OpCalls
      <4> QED
        BY <3>2, <4>1 DEF ForEach
    <3>4. IsTodo(e) /\ Ops(e, Endings)
      BY <3>2, EndWaitOps
    <3>5. Stacked(new, a, e)
      BY <3>2, <3>3, <3>4, StackConcat
    <3>6. IsTodo(new)
      BY <3>5 DEF Stacked
    <3>7. Stacked(r, new, todo)
      BY <1>0, <3>2, <3>6, StackConcat
    <3>8. ASSUME NEW i \in DOMAIN r, r[i][1] = "Acquire" PROVE i \in DOMAIN a
      <4>1. i \in DOMAIN new /\ r[i] = new[i]
        BY <2>1, <3>7, <3>8 DEF Stacked
      <4>2. \A k \in DOMAIN e : e[k][1] # "Acquire"
        BY <3>4 DEF Ops, Endings
      <4> QED
        BY <3>5, <3>8, <4>1, <4>2 DEF Stacked
    <3>9. \A j \in DOMAIN a : j \in DOMAIN r /\ r[j] = a[j]
      BY <3>5, <3>7 DEF Stacked
    <3>10. DOMAIN a = 1..Len(a) /\ DOMAIN r = 1..Len(r) /\ Len(a) \in Nat /\ Len(r) \in Nat
      <4>1. DOMAIN a = 1..Len(a) /\ Len(a) \in Nat /\ Len(new) \in Nat
        BY <3>5, <3>7 DEF Stacked
      <4>2. DOMAIN r = 1..Len(r) /\ Len(todo) \in Nat /\ Len(r) = Len(new) + Len(todo)
        BY <3>7 DEF Stacked
      <4> QED
        BY <4>1, <4>2
    <3>11. \A i \in DOMAIN a, j \in DOMAIN r : j < i => j \in DOMAIN a
      BY <3>10
    <3>12. \A j \in DOMAIN a : r[j][1] = "Acquire" /\ r[j][2] = t
      BY <3>3, <3>9 DEF Call
    <3>13. Lives(t) /\ UNCHANGED status
      BY <2>5, <3>1 DEF Lives, Synching, WakeupNext, threadVars
    <3>14. ASSUME NEW i \in DOMAIN r, r[i][1] = "Acquire"
           PROVE  Lives(r[i][2]) /\ \A j \in DOMAIN r : j < i => r[j][1] = "Acquire"
      BY <3>8, <3>11, <3>12, <3>13, <3>14
    <3> QED
      BY <3>2, <3>13, <3>14 DEF AcquiresOK, Lives
  <2>6. CASE Shape(CommonOps)
    BY <2>2, <2>6 DEF CommonOps
  <2>7. CASE RunLoop
    <3>1. todo' = todo
      BY <2>7 DEF RunLoop, BeginRound, EndAdvance, EndSlice
    <3> QED
      BY <2>1, <3>1 DEF AcquiresOK
  <2> QED
    BY <2>3, <2>4, <2>5, <2>6, <2>7, StepShape DEF LivingStep
<1> QED
  BY <1>1, <1>2

\* All three.
LEMMA StepExit ==
  ASSUME IInv, LifeInv, panic = "none" => ExitOK, [Next]_vars, "undead" \notin misuse', panic' = "none"
  PROVE  ExitOK'
<1>1. CASE UNCHANGED vars
  BY <1>1 DEF vars, threadVars, objectVars, lockVars, ExitOK, ExitingOK, LeftOK, AcquiresOK, Lives, Stopping,
     EndingOn, Has, ReleasesIn
<1>2. CASE Next
  <2>1. Step /\ LivingStep
    BY <1>2, NobodyUndead DEF Next
  <2> QED
    BY <2>1, StepsAlive, StepExiting, StepLeft, StepAcquires DEF ExitOK
<1> QED
  BY <1>1, <1>2

\* Until an assertion fails or a dead thread makes a call, this holds at every
\* moment.
Untroubled == panic = "none" /\ "undead" \notin misuse
LEMMA ExitHolds == Spec => [](Untroubled => ExitOK)
<1>1. Init => (Untroubled => ExitOK)
  <2> SUFFICES ASSUME Init PROVE ExitOK
    OBVIOUS
  <2>1. /\ status = [t \in Threads |-> "None"] /\ todo = <<>> /\ held_mutexes = [t \in Threads |-> {}]
    BY DEF Init, SchedInit, ObjectInit
  <2> QED
    BY <2>1 DEF ExitOK, ExitingOK, LeftOK, AcquiresOK, Lives
<1>2. IInv /\ ("undead" \notin misuse => LifeInv) /\ (Untroubled => ExitOK) /\ [Next]_vars =>
        (Untroubled => ExitOK)'
  <2> SUFFICES ASSUME IInv, "undead" \notin misuse => LifeInv, Untroubled => ExitOK, [Next]_vars, Untroubled'
               PROVE  ExitOK'
    OBVIOUS
  <2>1. "undead" \notin misuse /\ "undead" \notin misuse' /\ panic' = "none"
    BY MisuseStays DEF Untroubled
  <2> QED
    BY <2>1, StepExit DEF Untroubled
<1> QED
  BY <1>1, <1>2, InvHolds, LifeHolds, PTL DEF Spec

\* Once svcExitProcess or svcTerminateProcess is over (KernelSystem::
\* TerminateProcess), and until a dead thread makes a call, no thread of the
\* process lives, holds a mutex, is in a waiting list or in thread_list, or has an
\* event in the timing queue, on whatever cores the threads were.
THEOREM ExitedLeavesNothingTheorem == Spec => []ExitedLeavesNothing
<1>1. IInv /\ ("undead" \notin misuse => LifeInv) /\ WaitListsAgree /\ (Untroubled => ExitOK) => ExitedLeavesNothing
  <2> SUFFICES ASSUME IInv, LifeInv, WaitListsAgree, Untroubled => ExitOK, AtRest, "undead" \notin misuse,
                      NEW t \in Threads, process_status[ProcessOf[t]] = "Exited"
               PROVE  /\ status[t] \in {"Dead", "None"} /\ held_mutexes[t] = {}
                      /\ \A o \in Objects : t \notin ToSet(waiting_threads[o])
                      /\ \A c \in Cores : events[c][t] = 0 /\ t \notin ToSet(thread_list[c])
    BY DEF ExitedLeavesNothing
  <2>1. ExitOK /\ todo = <<>>
    BY DEF AtRest, Untroubled
  <2>2. ~Lives(t)
    BY <2>1 DEF ExitOK, ExitingOK, Has
  <2>3. status[t] \in {"Dead", "None"}
    BY <2>2 DEF Lives
  <2>4. held_mutexes[t] = {}
    BY <2>1, <2>2 DEF ExitOK, LeftOK, ReleasesIn
  <2>5. ASSUME NEW o \in Objects PROVE t \notin ToSet(waiting_threads[o])
    <3> SUFFICES ASSUME t \in ToSet(waiting_threads[o]) PROVE FALSE
      OBVIOUS
    <3>1. o \in ToSet(wait_objects[t])
      BY DEF WaitListsAgree
    <3>2. wait_objects[t] # <<>>
      BY <3>1 DEF ToSet
    <3> QED
      BY <2>3, <3>2 DEF WaitListsAgree
  <2>6. ASSUME NEW c \in Cores PROVE events[c][t] = 0 /\ t \notin ToSet(thread_list[c])
    <3>1. NoEvent(t)
      BY <2>3 DEF LifeInv, EventsOK, Waits
    <3> QED
      BY <2>2, <3>1 DEF NoEvent, LifeInv, RosterOK
  <2> QED
    BY <2>3, <2>4, <2>5, <2>6
<1> QED
  BY <1>1, InvHolds, LifeHolds, WaitListsAgreeTheorem, ExitHolds, PTL

-----------------------------------------------------------------------------
\* Assertions.  They hold as long as no step has been one of the kinds of misuse.
Clean == Misused = {}

\* Who makes a supervisor call runs.
LEMMA CallerRuns ==
  ASSUME Clean, IInv, NEW t \in Threads, Svc(t)
  PROVE  Executes(t) /\ status[t] = "Running" /\ todo = <<>> /\ Lives(t)
<1>1. Executes(t)
  BY SvcExecutes
<1>2. status[t] # "Dead"
  <2>1. SUFFICES ASSUME status[t] = "Dead" PROVE "undead" \in Misused
    BY DEF Clean
  <2> QED
    BY <2>1 DEF Misused
<1>3. CoreOf[t] \in Cores /\ current_thread[CoreOf[t]] = t /\ t # NoThread
  BY <1>1, CoresAssumption, ThreadsAssumption DEF Executes
<1>4. Settled(CoreOf[t]) /\ ~halted
  BY <1>1 DEF Executes, Executing, IsRunningCore, Settled
<1>5. status[t] = "Running"
  BY <1>2, <1>3, <1>4 DEF IInv, QueueInv, SlicesOK
<1> QED
  BY <1>1, <1>5 DEF Executes, Executing, AtRest, Lives

\* Nobody waits for all of a list that names a one-shot twice.
LEMMA NothingRepeated ==
  ASSUME Clean, NEW t \in Threads, NEW objects \in program.handles[t], ForAll(t, objects)
  PROVE  ~Repeats(objects)
<1> SUFFICES ASSUME Repeats(objects) PROVE "repeated" \in Misused
  BY DEF Clean
<1> QED
  BY DEF Misused, ForAll

\* A thread that is stopped waits neither for its own end nor on an address.
LEMMA CleanStop ==
  ASSUME Clean, NEW t \in Threads, Stop(t)
  PROVE  t \notin ToSet(wait_objects[t]) /\ status[t] # "WaitArb"
<1>1. ASSUME t \in ToSet(wait_objects[t]) PROVE "own end" \in Misused
  BY <1>1 DEF Misused
<1>2. ASSUME status[t] = "WaitArb" PROVE "address" \in Misused
  BY <1>2 DEF Misused
<1> QED
  BY <1>1, <1>2 DEF Clean

\* A process that is ended runs.
LEMMA CleanEnd ==
  ASSUME Clean, NEW t \in Threads, NEW p \in Processes, TerminateProcess(t, p)
  PROVE  process_status[p] = "Running"
<1>1. ASSUME process_status[p] # "Running" PROVE "not running" \in Misused
  BY <1>1 DEF Misused
<1> QED
  BY <1>1 DEF Clean

\* A call that resumes a thread which waits for no object; a call of the arbiter.
Keeps(call) == call[1] = "ResumeFromWait" /\ call[3] # "clear"
Arbitrates(call) == call[1] \in {"ResumeAllThreads", "ResumeHighestPriorityThread"} \/ Keeps(call)

\* The call a may be made before the call b that is below it on the stack: a
\* thread acquires its objects, is told, leaves the lists and is resumed before
\* anything else happens; a thread that is stopped leaves the lists once the
\* threads that wait for its end have been woken; and the calls of the arbiter
\* are among themselves.
Fits(a, b) ==
  /\ b[1] = "Acquire" => a[1] = "Acquire" /\ a[2] = b[2] /\ (OneShot(b[3]) => a[3] # b[3])
  /\ Clears(b) => a[1] \in Ending /\ a[2] = b[2]
  /\ b[1] = "RemoveWaitingThread" =>
       \/ a[1] \in Ending \/ Clears(a)
       \/ a[1] = "WakeupAllWaitingThreads" /\ a[2] = b[2]
  /\ Arbitrates(a) <=> Arbitrates(b)
Ordered(calls) == \A i, j \in DOMAIN calls : j < i => Fits(calls[j], calls[i])

\* Objects to be acquired are available.
AcquireOK ==
  \A i \in DOMAIN todo : todo[i][1] = "Acquire" /\ todo[i][3] \notin Semaphores =>
    ~ShouldWait(todo[i][3], todo[i][2])

\* A thread that is to be resumed still sleeps; the arbiter may resume one that
\* is ready.
Kept(t) == Call("ResumeFromWait", t, "keep")
ResumeOK ==
  /\ \A t \in Threads : Has(todo, Resumed(t)) => status[t] \in Synching \cup {"WaitArb"}
  /\ \A i \in DOMAIN todo : Keeps(todo[i]) =>
       \E t \in Threads : /\ todo[i] = Kept(t) /\ t \notin ToSet(arbiter_threads)
                          /\ status[t] \in {"WaitArb", "WaitSleep", "Ready"}

\* A thread that is told of the end of its wait is resumed thereafter.
TellOK ==
  \A i \in DOMAIN todo : todo[i][1] = "WakeUp" =>
    \E t \in Threads, x \in Objects \cup {"Timeout"} :
      /\ todo[i] = Call("WakeUp", t, x) /\ Has(todo, Resumed(t))
      /\ status[t] = "WaitArb" => x = "Timeout" /\ wakeup_callback[t] = "ArbiterCallback"

\* Who waits for all of a list names no one-shot twice; a dead thread does not wait
\* for itself.
HandlesOK == \A t \in Threads : status[t] = "WaitSynchAll" => ~Repeats(wait_objects[t])
SelfOK == \A t \in Threads : status[t] = "Dead" => ~Waiting(t, t)

\* The callback of a thread is that of its wait; a thread that sleeps on an
\* address without a callback has no timeout.
CallbackOK ==
  \A t \in Threads :
    /\ wakeup_callback[t] = "SVC_SyncCallback" => status[t] \in Synching \cup {"Dead"}
    /\ wakeup_callback[t] = "ArbiterCallback" => status[t] \in {"WaitArb", "Dead"}
    /\ status[t] = "WaitArb" /\ wakeup_callback[t] # "ArbiterCallback" => NoEvent(t)

\* The arbiter's list holds the threads that sleep on an address, once, except
\* those that are about to be resumed.
ArbiterOK ==
  /\ NoDuplicates(arbiter_threads)
  /\ \A t \in Threads : t \in ToSet(arbiter_threads) =>
       status[t] = "WaitArb" /\ (Has(todo, Resumed(t)) => Has(todo, Call("WakeUp", t, "Timeout")))
  /\ \A t \in Threads : status[t] = "WaitArb" =>
       t \in ToSet(arbiter_threads) \/ Has(todo, Kept(t)) \/ Has(todo, Resumed(t))

DutyInv ==
  /\ Ordered(todo) /\ AcquireOK /\ ResumeOK /\ TellOK /\ HandlesOK /\ SelfOK /\ CallbackOK
  /\ ArbiterOK

-----------------------------------------------------------------------------
\* The order of the calls on the stack.

\* Without the call on top.
LEMMA OrderedTail ==
  ASSUME NEW a, IsTodo(a), a # <<>>, Ordered(a), NEW r, r = Tail(a)
  PROVE  Ordered(r)
<1>1. Popped(r, a)
  BY StackTail
<1>2. \A i \in DOMAIN r : i \in Nat /\ i + 1 \in DOMAIN a /\ r[i] = a[i + 1]
  BY <1>1 DEF Popped
<1> SUFFICES ASSUME NEW i \in DOMAIN r, NEW j \in DOMAIN r, j < i PROVE Fits(r[j], r[i])
  BY DEF Ordered
<1>3. i + 1 \in DOMAIN a /\ j + 1 \in DOMAIN a /\ j + 1 < i + 1 /\ r[i] = a[i + 1] /\ r[j] = a[j + 1]
  BY <1>2
<1> QED
  BY <1>3 DEF Ordered

\* Calls on top of others.
LEMMA OrderedConcat ==
  ASSUME NEW a, NEW b, IsTodo(a), IsTodo(b), Ordered(a), Ordered(b),
         \A i \in DOMAIN a, k \in DOMAIN b : Fits(a[i], b[k]), NEW r, r = a \o b
  PROVE  Ordered(r)
<1>1. Stacked(r, a, b)
  BY StackConcat
<1>2. /\ \A i \in DOMAIN r : \/ i \in DOMAIN a /\ r[i] = a[i]
                            \/ \E k \in DOMAIN b : r[i] = b[k] /\ i = k + Len(a)
      /\ \A i \in DOMAIN a : i <= Len(a)
      /\ DOMAIN a = 1..Len(a) /\ DOMAIN b = 1..Len(b) /\ DOMAIN r = 1..Len(r)
      /\ Len(a) \in Nat /\ Len(b) \in Nat
  BY <1>1 DEF Stacked
<1> SUFFICES ASSUME NEW i \in DOMAIN r, NEW j \in DOMAIN r, j < i PROVE Fits(r[j], r[i])
  BY DEF Ordered
<1>3. CASE i \in DOMAIN a /\ r[i] = a[i]
  <2>1. ASSUME NEW k \in DOMAIN b, j = k + Len(a) PROVE FALSE
    BY <1>2, <1>3, <2>1
  <2>2. j \in DOMAIN a /\ r[j] = a[j]
    BY <1>2, <2>1
  <2> QED
    BY <1>3, <2>2 DEF Ordered
<1>4. ASSUME NEW k \in DOMAIN b, r[i] = b[k], i = k + Len(a) PROVE Fits(r[j], r[i])
  <2>1. CASE j \in DOMAIN a /\ r[j] = a[j]
    BY <1>4, <2>1
  <2>2. ASSUME NEW l \in DOMAIN b, r[j] = b[l], j = l + Len(a) PROVE Fits(r[j], r[i])
    <3>1. l < k
      BY <1>2, <1>4, <2>2
    <3> QED
      BY <1>4, <2>2, <3>1 DEF Ordered
  <2> QED
    BY <1>2, <2>1, <2>2
<1> QED
  BY <1>2, <1>3, <1>4

\* The calls that no wait and no arbitration makes; those of them that are made
\* only once all waits have ended.
Begun ==
  {"Stop", "TerminateProcessThreads", "UpdatePending", "ReleaseThreadMutexes", "ScheduleEvent",
   "AddWaitingThread", "WakeupAllWaitingThreads"}
Outer == Begun \ {"WakeupAllWaitingThreads"}
Calm(call) ==
  call[1] \notin {"Acquire", "RemoveWaitingThread", "ResumeFromWait", "ResumeAllThreads",
                  "ResumeHighestPriorityThread"}

\* Before them anything is in order, except the calls of the arbiter.
LEMMA CalmFits ==
  ASSUME NEW a, NEW b, Calm(b), ~Arbitrates(a)
  PROVE  Fits(a, b)
BY DEF Calm, Fits, Arbitrates, Keeps, Clears

\* They are calm.
LEMMA BegunCalm ==
  ASSUME NEW c, c[1] \in Begun
  PROVE  Calm(c) /\ ~Arbitrates(c)
BY DEF Calm, Begun, Arbitrates, Keeps

\* Only calm calls are in order.
LEMMA OrderedBegun ==
  ASSUME NEW calls, \A i \in DOMAIN calls : calls[i][1] \in Begun
  PROVE  Ordered(calls)
BY CalmFits, BegunCalm DEF Ordered

\* The head of the stack is its first call.
LEMMA StackHead ==
  ASSUME IsTodo(todo), todo # <<>>
  PROVE  /\ 1 \in DOMAIN todo /\ Head(todo) = todo[1] /\ Has(todo, Head(todo))
         /\ \A i \in DOMAIN todo : i = 1 \/ 1 < i
<1>1. PICK base : Popped(base, todo)
  BY StackTail
<1>2. 1 \in DOMAIN todo /\ Head(todo) = todo[1] /\ DOMAIN todo = 1..Len(todo) /\ Len(todo) \in Nat
  BY <1>1 DEF Popped
<1>3. \A i \in DOMAIN todo : i = 1 \/ 1 < i
  BY <1>2
<1> QED
  BY <1>2, <1>3 DEF Has

\* What is below the call on top.
LEMMA HeadFits ==
  ASSUME IsTodo(todo), todo # <<>>, Ordered(todo), NEW i \in DOMAIN todo
  PROVE  todo[i] = Head(todo) \/ Fits(Head(todo), todo[i])
BY StackHead DEF Ordered

\* Below a call that is made once all waits have ended there is no other.
LEMMA CalmBelow ==
  ASSUME IsTodo(todo), todo # <<>>, Ordered(todo), Head(todo)[1] \in Outer
  PROVE  \A i \in DOMAIN todo : Calm(todo[i])
<1>1. Calm(Head(todo)) /\ ~Arbitrates(Head(todo))
  BY BegunCalm DEF Outer
<1>2. Head(todo)[1] # "Acquire" /\ Head(todo)[1] \notin Ending /\ ~Clears(Head(todo))
      /\ Head(todo)[1] # "WakeupAllWaitingThreads"
  BY DEF Outer, Begun, Ending, Clears
<1> SUFFICES ASSUME NEW i \in DOMAIN todo, Fits(Head(todo), todo[i]) PROVE Calm(todo[i])
  BY <1>1, HeadFits
<1>3. todo[i][1] # "Acquire" /\ ~Clears(todo[i]) /\ todo[i][1] # "RemoveWaitingThread" /\ ~Arbitrates(todo[i])
  BY <1>1, <1>2 DEF Fits
<1> QED
  BY <1>3 DEF Calm, Arbitrates, Keeps, Clears

\* Below WakeupAllWaitingThreads of a thread that is stopped are the calls in
\* which that thread leaves its lists, and calm ones.
LEMMA CalmBelowWakeup ==
  ASSUME IsTodo(todo), todo # <<>>, Ordered(todo), Head(todo)[1] = "WakeupAllWaitingThreads",
         NEW i \in DOMAIN todo
  PROVE  Calm(todo[i]) \/ (todo[i][1] = "RemoveWaitingThread" /\ todo[i][2] = Head(todo)[2])
<1>1. Calm(Head(todo)) /\ ~Arbitrates(Head(todo))
  BY BegunCalm DEF Begun
<1>2. Head(todo)[1] # "Acquire" /\ Head(todo)[1] \notin Ending /\ ~Clears(Head(todo))
  BY DEF Ending, Clears
<1>3. CASE Fits(Head(todo), todo[i])
  <2>1. /\ todo[i][1] # "Acquire" /\ ~Clears(todo[i]) /\ ~Arbitrates(todo[i])
        /\ todo[i][1] = "RemoveWaitingThread" => todo[i][2] = Head(todo)[2]
    BY <1>1, <1>2, <1>3 DEF Fits
  <2> QED
    BY <2>1 DEF Calm, Arbitrates, Keeps, Clears
<1> QED
  BY <1>1, <1>3, HeadFits

\* What a step does to the stack: nothing, a call returns, calls are begun, or one
\* of the few steps that wake, stop or resume threads.
Begins == Makes(Begun) \/ (Head(todo)[1] \in Outer /\ (Pushes(Begun) \/ Returns(Begun)))
LEMMA StepKinds ==
  ASSUME IInv, Step
  PROVE  \/ todo' = todo \/ Returns({}) \/ Begins
         \/ \E t \in Threads : Stop(t) \/ Takes(t)
         \/ \E o \in Objects : WakeupNext(o)
         \/ \E c \in Cores, t \in Threads : ThreadWakeupCallback(c, t)
         \/ \E a \in Addresses : ResumeAllThreads(a) \/ ResumeHighestPriorityThread(a)
         \/ \E t \in Threads : ArbiterSvc(t)
<1>0. ASSUME NEW S, S \subseteq Begun
      PROVE  /\ Makes(S) => Makes(Begun)
             /\ Pushes(S) => Pushes(Begun)
             /\ Returns(S) => Returns(Begun)
  BY <1>0 DEF Makes, Pushes, Returns, Ops
<1>1. CASE ObjectCall
  <2>1. CASE ~ \E o \in Objects : WakeupNext(o)
    <3>1. todo # <<>> /\ Return(<<>>)
      BY <1>1, <2>1 DEF ObjectCall, AcquireMutex, AcquireSemaphore, AcquireSignal, AcquireThread, AddWaitingThread,
         RemoveWaitingThread, WakeupDone, SyncWakeUp, ResumeFromWait, Calling
    <3> QED
      BY <3>1, JustReturns
  <2> QED
    BY <2>1
<1>2. CASE ArbiterCall
  <2>1. ASSUME NEW t \in Threads, ArbiterWakeUp(t) PROVE Returns({})
    BY <2>1, JustReturns DEF ArbiterWakeUp, Calling
  <2> QED
    BY <1>2, <2>1 DEF ArbiterCall
<1>3. CASE KernelCall
  <2>1. CASE ~ \E t \in Threads : Stop(t)
    <3>1. Head(todo)[1] \in Outer
      BY <1>3, <2>1 DEF KernelCall, MutexesReleased, UpdatedPending, ReleaseThreadMutexes, UpdatePending,
         TerminateNext, TerminateCurrent, Rearm, Calling, Outer, Begun
    <3>2. \/ Returns({}) \/ Returns({"UpdatePending"}) \/ Pushes({"WakeupAllWaitingThreads"})
          \/ Pushes({"Stop"}) \/ Returns({"Stop"})
      BY <1>3, <2>1, KernelCallOps
    <3>3. {"UpdatePending"} \subseteq Begun /\ {"WakeupAllWaitingThreads"} \subseteq Begun /\ {"Stop"} \subseteq Begun
      BY DEF Begun
    <3> QED
      BY <1>0, <3>1, <3>2, <3>3 DEF Begins
  <2> QED
    BY <2>1
<1>4. CASE Callback
  <2>1. ASSUME NEW c \in Cores, NEW x \in Timers, TimerCallback(c, x) PROVE Makes(Begun)
    <3>1. periodic[x] \in BOOLEAN /\ todo = <<>> /\ todo' = TimerSignal(x, periodic[x])
      BY <2>1 DEF IInv, CallInv, ObjectTypes, TimerCallback, Advancing, AtRest
    <3>2. Makes({"WakeupAllWaitingThreads", "ScheduleEvent"})
      BY <3>1, TimerOps
    <3>3. {"WakeupAllWaitingThreads", "ScheduleEvent"} \subseteq Begun
      BY DEF Begun
    <3> QED
      BY <1>0, <3>2, <3>3
  <2> QED
    BY <1>4, <2>1 DEF Callback, Begins
<1>5. ASSUME NEW t \in Threads, WaitSvc(t) PROVE todo' = todo \/ Makes(Begun) \/ Takes(t)
  <2>1. CASE Sleeps(t)
    <3>1. PICK objects \in program.handles[t] : todo' = ForEach("AddWaitingThread", t, objects)
      BY <2>1 DEF Sleeps, Sleep
    <3>2. objects \in Seq(Objects) /\ todo = <<>>
      BY <1>5, <3>1, KernelAssumption, WaitSvcCases DEF IInv, Executes, Executing, AtRest
    <3>3. IsTodo(todo') /\ \A i \in DOMAIN todo' : todo'[i][1] = "AddWaitingThread"
      BY <3>1, <3>2, ForEachFacts DEF OpCalls
    <3> QED
      BY <3>2, <3>3 DEF Makes, Ops, Begun
  <2>2. ASSUME NEW delay, SleepThread(t, delay) PROVE todo' = todo
    BY <2>2 DEF SleepThread
  <2> QED
    BY <1>5, <2>1, <2>2, WaitSvcCases
<1>6. ASSUME NEW u \in Threads, SignalSvc(u) PROVE todo' = todo \/ Makes(Begun)
  <2>1. ASSUME NEW x \in Timers, NEW now \in BOOLEAN, NEW again \in BOOLEAN, SetTimer(u, x, now, again)
        PROVE  todo' = todo \/ Makes({"WakeupAllWaitingThreads", "ScheduleEvent"})
    BY <2>1, TimerOps DEF SetTimer, Executes, Executing, AtRest
  <2>2. {"WakeupAllWaitingThreads", "ScheduleEvent"} \subseteq Begun /\ {"WakeupAllWaitingThreads"} \subseteq Begun
    BY DEF Begun
  <2> QED
    BY <1>0, <1>6, <2>1, <2>2, SignalOps DEF SignalSvc
<1>7. ASSUME NEW u \in Threads, ThreadSvc(u) PROVE Makes(Begun)
  <2>1. {"UpdatePending"} \subseteq Begun /\ {"Stop"} \subseteq Begun /\ {"TerminateProcessThreads"} \subseteq Begun
    BY DEF Begun
  <2> QED
    BY <1>0, <1>7, <2>1, ThreadSvcOps
<1>8. CASE RunLoop \/ \E p \in Processes : Run(p)
  BY <1>8 DEF RunLoop, BeginRound, EndAdvance, EndSlice, Run, CreateThread
<1> QED
  BY <1>1, <1>2, <1>3, <1>4, <1>5, <1>6, <1>7, <1>8 DEF Step, Svc, Begins

\* The calls of the arbiter are in order among themselves.
LEMMA ArbitratesFits ==
  ASSUME NEW a, NEW b, Arbitrates(a), Arbitrates(b)
  PROVE  Fits(a, b)
BY DEF Fits, Arbitrates, Keeps, Clears

\* One call.
LEMMA OrderedOne ==
  ASSUME NEW op \in OpCalls, NEW x, NEW y, NEW calls, calls = <<Call(op, x, y)>>
  PROVE  Ordered(calls)
<1>1. DOMAIN calls = {1}
  BY OneFacts
<1> QED
  BY <1>1 DEF Ordered

\* A call that ends the wait of t, after the acquisitions.
EndCall(call, t) == call = Resumed(t) \/ (call[1] \in {"WakeUp", "RemoveWaitingThread"} /\ call[2] = t)
LEMMA EndCallFacts ==
  ASSUME NEW call, NEW t, EndCall(call, t)
  PROVE  /\ ~Arbitrates(call) /\ (call[1] \in Ending \/ Clears(call)) /\ call[1] # "Acquire"
         /\ call[2] = t
BY DEF EndCall, Resumed, Call, Arbitrates, Keeps, Clears, Ending

\* The calls that end a wait are in order.
LEMMA EndWaitOrder ==
  ASSUME IInv, NEW t \in Threads, NEW cause, NEW e, e = EndWait(t, cause)
  PROVE  IsTodo(e) /\ Ordered(e) /\ \A i \in DOMAIN e : EndCall(e[i], t)
<1>1. wait_objects[t] \in Seq(Objects)
  BY ListTypes
<1>2. PICK a, b, c : /\ a = <<Call("WakeUp", t, cause)>>
                     /\ b = ForEach("RemoveWaitingThread", t, wait_objects[t])
                     /\ c = <<Call("ResumeFromWait", t, "clear")>>
  OBVIOUS
<1>3. "WakeUp" \in OpCalls /\ "RemoveWaitingThread" \in OpCalls /\ "ResumeFromWait" \in OpCalls
  BY DEF OpCalls
<1>4. IsTodo(a) /\ DOMAIN a = {1} /\ a[1] = Call("WakeUp", t, cause) /\ Ordered(a)
  BY <1>2, <1>3, OneFacts, OrderedOne
<1>5. IsTodo(b) /\ \A i \in DOMAIN b : b[i][1] = "RemoveWaitingThread" /\ b[i][2] = t
  BY <1>1, <1>2, <1>3, ForEachFacts
<1>6. IsTodo(c) /\ DOMAIN c = {1} /\ c[1] = Resumed(t) /\ Ordered(c)
  BY <1>2, <1>3, OneFacts, OrderedOne DEF Resumed
<1>7. PICK d : d = a \o b
  OBVIOUS
<1>8. IsTodo(a) /\ IsTodo(b) /\ IsTodo(c) /\ IsTodo(d)
  BY <1>4, <1>5, <1>6, <1>7, TodoConcat
<1>9. e = d \o c
  BY <1>2, <1>7 DEF EndWait
<1>10. ASSUME NEW x, NEW y, EndCall(x, t), y[1] = "RemoveWaitingThread" PROVE Fits(x, y)
  <2>1. ~Arbitrates(x) /\ (x[1] \in Ending \/ Clears(x))
    BY <1>10, EndCallFacts
  <2>2. ~Arbitrates(y) /\ ~Clears(y)
    BY <1>10 DEF Arbitrates, Keeps, Clears
  <2> QED
    BY <1>10, <2>1, <2>2 DEF Fits
<1>11. /\ \A i \in DOMAIN a : EndCall(a[i], t)
       /\ \A i \in DOMAIN b : EndCall(b[i], t)
       /\ \A i \in DOMAIN c : EndCall(c[i], t)
  BY <1>4, <1>5, <1>6 DEF EndCall, Call
<1>12. Ordered(b)
  BY <1>5, <1>10, <1>11 DEF Ordered
<1>13. Ordered(d)
  BY <1>4, <1>5, <1>7, <1>10, <1>11, <1>12, OrderedConcat
<1>14. \A i \in DOMAIN d : d[i][1] \in Ending /\ d[i][2] = t /\ EndCall(d[i], t)
  <2>1. /\ \A i \in DOMAIN a : a[i][1] \in Ending /\ a[i][2] = t
        /\ \A i \in DOMAIN b : b[i][1] \in Ending /\ b[i][2] = t
    BY <1>4, <1>5 DEF Call, Ending
  <2>2. \A i \in DOMAIN d : (i \in DOMAIN a /\ d[i] = a[i]) \/ \E k \in DOMAIN b : d[i] = b[k] /\ i = k + Len(a)
    <3>1. Stacked(d, a, b)
      BY <1>7, <1>8, StackConcat
    <3> QED
      BY <3>1 DEF Stacked
  <2> QED
    BY <1>11, <2>1, <2>2
<1>15. ASSUME NEW i \in DOMAIN d PROVE Fits(d[i], Resumed(t))
  <2>1. d[i][1] \in Ending /\ d[i][2] = t /\ ~Arbitrates(d[i])
    BY <1>14, EndCallFacts
  <2> QED
    BY <2>1 DEF Fits, Resumed, Call, Arbitrates, Keeps, Clears
<1>16. Ordered(e)
  BY <1>6, <1>8, <1>9, <1>13, <1>15, OrderedConcat
<1>17. \A i \in DOMAIN e : EndCall(e[i], t)
  <2>1. \A i \in DOMAIN e : (i \in DOMAIN d /\ e[i] = d[i]) \/ \E k \in DOMAIN c : e[i] = c[k] /\ i = k + Len(d)
    <3>1. Stacked(e, d, c)
      BY <1>8, <1>9, StackConcat
    <3> QED
      BY <3>1 DEF Stacked
  <2> QED
    BY <1>11, <1>14, <2>1
<1>18. IsTodo(e)
  BY <1>6, <1>8, <1>9, TodoConcat
<1> QED
  BY <1>16, <1>17, <1>18

\* The calls of Stop are in order.
LEMMA StopCallsOrder ==
  ASSUME IInv, NEW t \in Threads, NEW new, new = StopCalls(t)
  PROVE  Ordered(new) /\ \A i \in DOMAIN new : ~Arbitrates(new[i]) /\ ~Clears(new[i])
<1>1. wait_objects[t] \in Seq(Objects)
  BY ListTypes
<1>2. PICK a, b, c : /\ a = <<Call("WakeupAllWaitingThreads", t, "Stop")>>
                     /\ b = ForEach("RemoveWaitingThread", t, wait_objects[t])
                     /\ c = <<Call("ReleaseThreadMutexes", t, "Stop")>>
  OBVIOUS
<1>3. /\ "WakeupAllWaitingThreads" \in OpCalls /\ "RemoveWaitingThread" \in OpCalls
      /\ "ReleaseThreadMutexes" \in OpCalls
  BY DEF OpCalls
<1>4. IsTodo(a) /\ Ordered(a) /\ \A i \in DOMAIN a : a[i][1] = "WakeupAllWaitingThreads" /\ a[i][2] = t
  BY <1>2, <1>3, OneFacts, OrderedOne
<1>5. IsTodo(b) /\ \A i \in DOMAIN b : b[i][1] = "RemoveWaitingThread" /\ b[i][2] = t
  BY <1>1, <1>2, <1>3, ForEachFacts
<1>6. IsTodo(c) /\ Ordered(c) /\ \A i \in DOMAIN c : c[i][1] = "ReleaseThreadMutexes"
  BY <1>2, <1>3, OneFacts, OrderedOne
<1>7. PICK d : d = a \o b
  OBVIOUS
<1>8. IsTodo(d)
  BY <1>4, <1>5, <1>7, TodoConcat
<1>9. new = d \o c
  BY <1>2, <1>7 DEF StopCalls
<1>10. ASSUME NEW x, NEW y, y[1] = "RemoveWaitingThread", y[2] = t, x[2] = t,
              x[1] \in {"RemoveWaitingThread", "WakeupAllWaitingThreads"}
       PROVE  Fits(x, y)
  BY <1>10 DEF Fits, Ending, Arbitrates, Keeps, Clears
<1>11. Ordered(b)
  BY <1>5, <1>10 DEF Ordered
<1>12. Ordered(d)
  <2>1. \A i \in DOMAIN a, k \in DOMAIN b : Fits(a[i], b[k])
    BY <1>4, <1>5, <1>10
  <2> QED
    BY <1>4, <1>5, <1>7, <1>11, <2>1, OrderedConcat
<1>13. \A i \in DOMAIN d : d[i][1] \in {"RemoveWaitingThread", "WakeupAllWaitingThreads"}
  BY <1>4, <1>5, <1>7, FromConcat
<1>14. \A i \in DOMAIN d : ~Arbitrates(d[i]) /\ ~Clears(d[i])
  BY <1>13 DEF Arbitrates, Keeps, Clears
<1>15. \A i \in DOMAIN c : ~Arbitrates(c[i]) /\ ~Clears(c[i]) /\ Calm(c[i])
  BY <1>6 DEF Arbitrates, Keeps, Clears, Calm
<1>16. Ordered(new)
  BY <1>6, <1>8, <1>9, <1>12, <1>14, <1>15, CalmFits, OrderedConcat
<1> QED
  BY <1>6, <1>8, <1>9, <1>14, <1>15, <1>16, FromConcat

\* The acquisitions of a thread that names no one-shot event twice are in order.
LEMMA AcquiresOrder ==
  ASSUME NEW t, NEW objects \in Seq(Objects), NEW calls, calls = ForEach("Acquire", t, objects),
         \A i, j \in DOMAIN objects : objects[i] = objects[j] /\ OneShot(objects[i]) => i = j
  PROVE  Ordered(calls)
<1> SUFFICES ASSUME NEW i \in DOMAIN calls, NEW j \in DOMAIN calls, j < i PROVE Fits(calls[j], calls[i])
  BY DEF Ordered
<1>1. /\ i \in DOMAIN objects /\ j \in DOMAIN objects
      /\ calls[i] = Call("Acquire", t, objects[i]) /\ calls[j] = Call("Acquire", t, objects[j])
  BY DEF ForEach
<1>2. i # j
  <2>1. DOMAIN objects \subseteq Int
    OBVIOUS
  <2> QED
    BY <1>1, <2>1
<1>3. OneShot(objects[i]) => objects[j] # objects[i]
  BY <1>1, <1>2
<1>4. /\ calls[i][1] = "Acquire" /\ calls[j][1] = "Acquire" /\ calls[i][2] = t /\ calls[j][2] = t
      /\ calls[i][3] = objects[i] /\ calls[j][3] = objects[j]
  BY <1>1 DEF Call
<1>5. ~Clears(calls[i]) /\ ~Arbitrates(calls[i]) /\ ~Arbitrates(calls[j])
  BY <1>4 DEF Clears, Arbitrates, Keeps
<1> QED
  BY <1>3, <1>4, <1>5 DEF Fits

\* Calls in place of the one on top, or on top of all.
LEMMA OrderedOnTop ==
  ASSUME NEW a, NEW b, IsTodo(a), IsTodo(b), b # <<>>, Ordered(a), Ordered(b),
         \A i \in DOMAIN a, k \in DOMAIN b : Fits(a[i], b[k]), NEW r, r = a \o b \/ r = a \o Tail(b)
  PROVE  Ordered(r)
<1>1. CASE r = a \o b
  BY <1>1, OrderedConcat
<1>2. CASE r = a \o Tail(b)
  <2>1. PICK base : base = Tail(b)
    OBVIOUS
  <2>2. Popped(base, b) /\ Ordered(base)
    BY <2>1, StackTail, OrderedTail
  <2>3. IsTodo(base) /\ \A k \in DOMAIN base : k + 1 \in DOMAIN b /\ base[k] = b[k + 1]
    BY <2>2 DEF Popped
  <2>4. \A i \in DOMAIN a, k \in DOMAIN base : Fits(a[i], base[k])
    BY <2>3
  <2> QED
    BY <1>2, <2>1, <2>2, <2>3, <2>4, OrderedConcat
<1> QED
  BY <1>1, <1>2

\* A call returns.
LEMMA OrderedPop ==
  ASSUME IsTodo(todo), Ordered(todo), Returns({})
  PROVE  Ordered(todo')
<1>1. PICK new : IsTodo(new) /\ Ops(new, {}) /\ todo' = new \o Tail(todo)
  BY DEF Returns
<1>2. \A i \in DOMAIN new : FALSE
  BY <1>1 DEF Ops
<1>3. Ordered(new)
  BY <1>2 DEF Ordered
<1>4. todo # <<>>
  BY DEF Returns
<1>5. \A i \in DOMAIN new, k \in DOMAIN todo : Fits(new[i], todo[k])
  BY <1>2
<1> QED
  BY <1>1, <1>3, <1>4, <1>5, OrderedOnTop

\* What a wake-up puts on the stack.
LEMMA WakeupOrder ==
  ASSUME IInv, NEW o \in Objects, NEW t \in Threads, NEW acquired \in Seq(Objects), ~Repeats(acquired),
         NEW new, new = ForEach("Acquire", t, acquired) \o EndWait(t, o)
  PROVE  /\ IsTodo(new) /\ Ordered(new)
         /\ \A i \in DOMAIN new : new[i][2] = t /\ (new[i][1] \in Ending \/ Clears(new[i])) /\ ~Arbitrates(new[i])
<1>1. PICK a, e : a = ForEach("Acquire", t, acquired) /\ e = EndWait(t, o)
  OBVIOUS
<1>2. "Acquire" \in OpCalls
  BY DEF OpCalls
<1>3. IsTodo(a) /\ \A i \in DOMAIN a : a[i][1] = "Acquire" /\ a[i][2] = t
  BY <1>1, <1>2, ForEachFacts
<1>4. IsTodo(e) /\ Ordered(e) /\ \A i \in DOMAIN e : EndCall(e[i], t)
  BY <1>1, EndWaitOrder
<1>5. \A i, j \in DOMAIN acquired : acquired[i] = acquired[j] /\ OneShot(acquired[i]) => i = j
  BY DEF Repeats
<1>6. Ordered(a)
  BY <1>1, <1>5, AcquiresOrder
<1>7. ASSUME NEW i \in DOMAIN a, NEW k \in DOMAIN e PROVE Fits(a[i], e[k])
  <2>1. a[i][1] \in Ending /\ a[i][2] = t /\ ~Arbitrates(a[i])
    BY <1>3 DEF Ending, Arbitrates, Keeps
  <2>2. e[k][2] = t /\ e[k][1] # "Acquire" /\ ~Arbitrates(e[k])
    BY <1>4, EndCallFacts
  <2> QED
    BY <2>1, <2>2 DEF Fits
<1>8. Ordered(new)
  BY <1>1, <1>3, <1>4, <1>6, <1>7, OrderedConcat
<1>9. \A i \in DOMAIN new : (i \in DOMAIN a /\ new[i] = a[i]) \/ \E k \in DOMAIN e : new[i] = e[k] /\ i = k + Len(a)
  <2>1. new = a \o e /\ IsTodo(a) /\ IsTodo(e)
    BY <1>1, <1>3, <1>4
  <2>2. Stacked(new, a, e)
    BY <2>1, StackConcat
  <2> QED
    BY <2>2 DEF Stacked
<1>10. /\ \A i \in DOMAIN a : a[i][2] = t /\ (a[i][1] \in Ending \/ Clears(a[i])) /\ ~Arbitrates(a[i])
       /\ \A i \in DOMAIN e : e[i][2] = t /\ (e[i][1] \in Ending \/ Clears(e[i])) /\ ~Arbitrates(e[i])
  <2>1. \A i \in DOMAIN a : a[i][2] = t /\ a[i][1] \in Ending /\ ~Arbitrates(a[i])
    BY <1>3 DEF Ending, Arbitrates, Keeps
  <2> QED
    BY <1>4, <2>1, EndCallFacts
<1>11. IsTodo(new)
  BY <1>1, <1>3, <1>4, TodoConcat
<1> QED
  BY <1>8, <1>9, <1>10, <1>11

\* The calls stay in order.
LEMMA StepOrder ==
  ASSUME Clean, IInv, HandlesOK, Ordered(todo), Step
  PROVE  Ordered(todo')
<1>0. IsTodo(todo) /\ IsTodo(<<>>)
  BY TodoNone DEF IInv, CallInv
<1>1. CASE Returns({})
  BY <1>0, <1>1, OrderedPop
<1>2. CASE Begins
  <2>1. CASE Makes(Begun)
    BY <2>1, OrderedBegun DEF Makes, Ops
  <2>2. CASE Head(todo)[1] \in Outer /\ (Pushes(Begun) \/ Returns(Begun))
    <3>1. PICK new : IsTodo(new) /\ Ops(new, Begun) /\ (todo' = new \o todo \/ todo' = new \o Tail(todo))
      BY <2>2 DEF Pushes, Returns
    <3>2. todo # <<>>
      BY <2>2 DEF Pushes, Returns
    <3>3. \A k \in DOMAIN todo : Calm(todo[k])
      BY <1>0, <2>2, <3>2, CalmBelow
    <3>4. Ordered(new) /\ \A i \in DOMAIN new : ~Arbitrates(new[i])
      BY <3>1, OrderedBegun, BegunCalm DEF Ops
    <3>5. \A i \in DOMAIN new, k \in DOMAIN todo : Fits(new[i], todo[k])
      BY <3>3, <3>4, CalmFits
    <3> QED
      BY <1>0, <3>1, <3>2, <3>4, <3>5, OrderedOnTop
  <2> QED
    BY <1>2, <2>1, <2>2 DEF Begins
<1>3. ASSUME NEW t \in Threads, Stop(t) PROVE Ordered(todo')
  <2>1. PICK new : new = StopCalls(t)
    OBVIOUS
  <2>2. todo # <<>> /\ Head(todo)[1] \in Outer /\ todo' = new \o Tail(todo)
    BY <1>3, <2>1 DEF Stop, Calling, Return, StopCalls, Outer, Begun
  <2>3. IsTodo(new) /\ Ordered(new) /\ \A i \in DOMAIN new : ~Arbitrates(new[i])
    BY <2>1, StopCallsOrder, StopCallsFacts
  <2>4. \A k \in DOMAIN todo : Calm(todo[k])
    BY <1>0, <2>2, CalmBelow
  <2>5. \A i \in DOMAIN new, k \in DOMAIN todo : Fits(new[i], todo[k])
    BY <2>3, <2>4, CalmFits
  <2> QED
    BY <1>0, <2>2, <2>3, <2>5, OrderedOnTop
<1>4. ASSUME NEW t \in Threads, Takes(t) PROVE Ordered(todo')
  <2>1. PICK objects \in program.handles[t], one \in Seq(Objects) :
          /\ (one = objects /\ ForAll(t, objects)) \/ \E i \in DOMAIN objects : one = <<objects[i]>>
          /\ todo' = ForEach("Acquire", t, one)
    BY <1>4 DEF Takes, Take
  <2>2. \A i, j \in DOMAIN one : one[i] = one[j] /\ OneShot(one[i]) => i = j
    <3>1. CASE one = objects /\ ForAll(t, objects)
      BY <2>1, <3>1, NothingRepeated DEF Repeats
    <3>2. ASSUME NEW i \in DOMAIN objects, one = <<objects[i]>> PROVE DOMAIN one = {1}
      BY <3>2
    <3> QED
      BY <2>1, <3>1, <3>2
  <2> QED
    BY <2>1, <2>2, AcquiresOrder
<1>5. ASSUME NEW o \in Objects, WakeupNext(o) PROVE Ordered(todo')
  <2>1. PICK t \in Threads, acquired \in Seq(Objects) : \E new :
           /\ acquired = IF status[t] = "WaitSynchAll" THEN wait_objects[t] ELSE <<o>>
           /\ new = ForEach("Acquire", t, acquired) \o EndWait(t, o) /\ todo' = new \o todo
    BY <1>5, WakeupNextCalls
  <2>2. PICK new : new = ForEach("Acquire", t, acquired) \o EndWait(t, o) /\ todo' = new \o todo
    BY <2>1
  <2>3. /\ IsTodo(new) /\ Ordered(new)
        /\ \A i \in DOMAIN new : (new[i][1] \in Ending \/ Clears(new[i])) /\ ~Arbitrates(new[i])
    <3>1. ~Repeats(acquired)
      <4>1. CASE status[t] # "WaitSynchAll"
        BY <2>1, <4>1 DEF Repeats
      <4>2. CASE status[t] = "WaitSynchAll"
        BY <2>1, <4>2 DEF HandlesOK
      <4> QED
        BY <4>1, <4>2
    <3> QED
      BY <2>2, <3>1, WakeupOrder
  <2>4. todo # <<>> /\ Head(todo)[1] = "WakeupAllWaitingThreads"
    BY <1>5 DEF WakeupNext, Calling
  <2>5. ASSUME NEW i \in DOMAIN new, NEW k \in DOMAIN todo PROVE Fits(new[i], todo[k])
    <3>1. CASE Calm(todo[k])
      BY <2>3, <3>1, CalmFits
    <3>2. CASE todo[k][1] = "RemoveWaitingThread"
      <4>1. ~Arbitrates(todo[k]) /\ ~Clears(todo[k])
        BY <3>2 DEF Arbitrates, Keeps, Clears
      <4> QED
        BY <2>3, <3>2, <4>1 DEF Fits
    <3> QED
      BY <1>0, <2>4, <3>1, <3>2, CalmBelowWakeup
  <2> QED
    BY <1>0, <2>2, <2>3, <2>4, <2>5, OrderedOnTop
<1>6. ASSUME NEW c \in Cores, NEW t \in Threads, ThreadWakeupCallback(c, t) PROVE Ordered(todo')
  <2>1. todo' = EndWait(t, "Timeout") \/ todo' = <<Call("ResumeFromWait", t, "keep")>>
    BY <1>6 DEF ThreadWakeupCallback
  <2>2. "ResumeFromWait" \in OpCalls
    BY DEF OpCalls
  <2> QED
    BY <2>1, <2>2, EndWaitOrder, OrderedOne
<1>7. ASSUME NEW a \in Addresses, ResumeAllThreads(a) \/ ResumeHighestPriorityThread(a) PROVE Ordered(todo')
  <2>1. todo # <<>> /\ Arbitrates(Head(todo))
    BY <1>7 DEF ResumeAllThreads, ResumeHighestPriorityThread, Calling, Arbitrates
  <2>2. \A k \in DOMAIN todo : Arbitrates(todo[k])
    BY <1>0, <2>1, HeadFits DEF Fits
  <2>3. PICK new : IsTodo(new) /\ todo' = new \o Tail(todo) /\ \A i \in DOMAIN new : Keeps(new[i])
    <3>1. CASE ResumeAllThreads(a)
      <4>1. PICK found, new : /\ new = [i \in DOMAIN found |-> Call("ResumeFromWait", arbiter_threads[found[i]], "keep")]
                              /\ IsTodo(new) /\ Return(new)
        BY <3>1, ResumeAllCalls
      <4>2. ASSUME NEW i \in DOMAIN new PROVE Keeps(new[i])
        <5>1. new[i] = Call("ResumeFromWait", arbiter_threads[found[i]], "keep")
          BY <4>1
        <5> QED
          BY <5>1 DEF Keeps, Call
      <4> QED
        BY <4>1, <4>2 DEF Return
    <3>2. CASE ResumeHighestPriorityThread(a)
      <4>1. CASE Return(<<>>)
        BY <1>0, <4>1 DEF Return
      <4>2. ASSUME NEW u, Return(<<Call("ResumeFromWait", u, "keep")>>)
            PROVE  \E new : IsTodo(new) /\ todo' = new \o Tail(todo) /\ \A i \in DOMAIN new : Keeps(new[i])
        <5>1. PICK new : new = <<Call("ResumeFromWait", u, "keep")>>
          OBVIOUS
        <5>2. "ResumeFromWait" \in OpCalls
          BY DEF OpCalls
        <5>3. IsTodo(new) /\ DOMAIN new = {1} /\ new[1] = Call("ResumeFromWait", u, "keep")
          BY <5>1, <5>2, OneFacts
        <5>4. \A i \in DOMAIN new : Keeps(new[i])
          BY <5>3 DEF Keeps, Call
        <5> QED
          BY <4>2, <5>1, <5>3, <5>4 DEF Return
      <4> QED
        BY <3>2, <4>1, <4>2 DEF ResumeHighestPriorityThread
    <3> QED
      BY <1>7, <3>1, <3>2
  <2>4. \A i \in DOMAIN new : Arbitrates(new[i])
    BY <2>3 DEF Arbitrates
  <2>5. Ordered(new)
    BY <2>4, ArbitratesFits DEF Ordered
  <2>6. \A i \in DOMAIN new, k \in DOMAIN todo : Fits(new[i], todo[k])
    BY <2>2, <2>4, ArbitratesFits
  <2> QED
    BY <1>0, <2>1, <2>3, <2>5, <2>6, OrderedOnTop
<1>8. ASSUME NEW t \in Threads, ArbiterSvc(t) PROVE Ordered(todo')
  <2>1. Makes({"ResumeAllThreads"}) \/ Makes({"ResumeHighestPriorityThread"})
    BY <1>8, ArbiterSvcOps
  <2>2. \A i \in DOMAIN todo' : Arbitrates(todo'[i])
    BY <2>1 DEF Makes, Ops, Arbitrates
  <2> QED
    BY <2>2, ArbitratesFits DEF Ordered
<1> QED
  BY <1>1, <1>2, <1>3, <1>4, <1>5, <1>6, <1>7, <1>8, StepKinds

-----------------------------------------------------------------------------
\* Acquisitions.

\* t acquires an object.
Acquiring(t) ==
  \/ \E m \in Mutexes : AcquireMutex(t, m)
  \/ \E s \in Semaphores : AcquireSemaphore(t, s)
  \/ \E e \in Signals : AcquireSignal(t, e)
  \/ \E u \in Threads : AcquireThread(t, u)

\* The call that does so is on top, and returns.
LEMMA AcquiringReturns ==
  ASSUME NEW t, Acquiring(t)
  PROVE  todo # <<>> /\ Head(todo)[1] = "Acquire" /\ Head(todo)[2] = t /\ Return(<<>>)
<1>1. ASSUME NEW x, Head(todo) = Call("Acquire", t, x) PROVE Head(todo)[1] = "Acquire" /\ Head(todo)[2] = t
  BY <1>1 DEF Call
<1>2. todo # <<>> /\ Return(<<>>) /\ \E x : Head(todo) = Call("Acquire", t, x)
  <2>1. ASSUME NEW m, AcquireMutex(t, m) PROVE todo # <<>> /\ Return(<<>>) /\ Head(todo) = Call("Acquire", t, m)
    BY <2>1 DEF AcquireMutex, Calling
  <2>2. ASSUME NEW m, AcquireSemaphore(t, m) PROVE todo # <<>> /\ Return(<<>>) /\ Head(todo) = Call("Acquire", t, m)
    BY <2>2 DEF AcquireSemaphore, Calling
  <2>3. ASSUME NEW m, AcquireSignal(t, m) PROVE todo # <<>> /\ Return(<<>>) /\ Head(todo) = Call("Acquire", t, m)
    BY <2>3 DEF AcquireSignal, Calling
  <2>4. ASSUME NEW m, AcquireThread(t, m) PROVE todo # <<>> /\ Return(<<>>) /\ Head(todo) = Call("Acquire", t, m)
    BY <2>4 DEF AcquireThread, Calling
  <2> QED
    BY <2>1, <2>2, <2>3, <2>4 DEF Acquiring
<1> QED
  BY <1>1, <1>2

\* While an object is to be acquired, the step acquires one.
LEMMA HeadAcquires ==
  ASSUME IInv, Ordered(todo), Step, NEW k \in DOMAIN todo, todo[k][1] = "Acquire"
  PROVE  /\ todo # <<>> /\ Head(todo)[1] = "Acquire"
         /\ \E t \in Threads : Acquiring(t)
<1>1. IsTodo(todo)
  BY DEF IInv, CallInv
<1>2. todo # <<>>
  OBVIOUS
<1>3. Head(todo)[1] = "Acquire"
  BY <1>1, <1>2, HeadFits DEF Fits
<1>4. ObjectCall \/ ArbiterCall \/ KernelCall
  BY <1>2, BusyStep
<1>5. ~ArbiterCall
  BY <1>3 DEF ArbiterCall, ResumeAllThreads, ResumeHighestPriorityThread, ArbiterWakeUp, Calling
<1>6. ~KernelCall
  BY <1>3 DEF KernelCall, Stop, MutexesReleased, UpdatedPending, ReleaseThreadMutexes, UpdatePending,
     TerminateNext, TerminateCurrent, Rearm, Calling
<1>7. ObjectCall
  BY <1>4, <1>5, <1>6
<1>8. /\ ~ \E t \in Threads, o \in Objects : AddWaitingThread(t, o) \/ RemoveWaitingThread(t, o)
      /\ ~ \E o \in Objects : WakeupNext(o) \/ WakeupDone(o)
      /\ ~ \E t \in Threads : SyncWakeUp(t) \/ ResumeFromWait(t)
  BY <1>3 DEF AddWaitingThread, RemoveWaitingThread, WakeupNext, WakeupDone, SyncWakeUp, ResumeFromWait, Calling
<1> QED
  BY <1>2, <1>3, <1>7, <1>8 DEF ObjectCall, Acquiring

\* One acquisition makes no other object that is to be acquired unavailable.
LEMMA AcquireKeeps ==
  ASSUME IInv, AcquireOK, NEW t \in Threads,
         Acquiring(t),
         NEW x, x \notin Semaphores, ~ShouldWait(x, t), OneShot(x) => Head(todo)[3] # x
  PROVE  ~(ShouldWait(x, t)')
<1> SUFFICES ASSUME ShouldWait(x, t)' PROVE FALSE
  OBVIOUS
<1>0. /\ lock_count \in [Mutexes -> Nat] /\ holding_thread \in [Mutexes -> Threads \cup {NoThread}]
      /\ signaled \in [Signals -> BOOLEAN]
  BY DEF IInv, CallInv, LockTypes, ObjectTypes
<1>1. ASSUME NEW m \in Mutexes, AcquireMutex(t, m) PROVE FALSE
  <2>1. /\ lock_count' = [lock_count EXCEPT ![m] = @ + 1] /\ Head(todo) = Call("Acquire", t, m)
        /\ IF lock_count[m] = 0 THEN holding_thread' = [holding_thread EXCEPT ![m] = t]
           ELSE UNCHANGED holding_thread
        /\ UNCHANGED <<status, signaled>>
    BY <1>1 DEF AcquireMutex, signalVars
  <2>2. x \in Mutexes => lock_count'[x] = 0 \/ holding_thread'[x] = t
    <3>1. CASE x \in Mutexes /\ x # m
      BY <1>0, <2>1, <3>1 DEF ShouldWait
    <3>2. CASE x = m
      <4>1. lock_count[m] = 0 \/ holding_thread[m] = t
        BY <1>0, <3>2 DEF ShouldWait
      <4> QED
        BY <1>0, <2>1, <3>2, <4>1
    <3> QED
      BY <3>1, <3>2
  <2> QED
    BY <2>1, <2>2 DEF ShouldWait
<1>2. ASSUME NEW s \in Semaphores, AcquireSemaphore(t, s) PROVE FALSE
  BY <1>2 DEF AcquireSemaphore, ShouldWait, lockVars, threadVars, Call
<1>3. ASSUME NEW e \in Signals, AcquireSignal(t, e) PROVE FALSE
  <2>1. /\ Head(todo) = Call("Acquire", t, e) /\ UNCHANGED <<status, lock_count, holding_thread>>
        /\ signaled' = [signaled EXCEPT ![e] = @ /\ ResetType[e] # "OneShot"]
    BY <1>3 DEF AcquireSignal, lockVars, threadVars
  <2>2. x \in Signals => signaled'[x]
    <3>1. CASE x \in Signals /\ x # e
      BY <1>0, <2>1, <3>1 DEF ShouldWait
    <3>2. CASE x = e
      <4>1. ~OneShot(x)
        BY <2>1, <3>2 DEF Call
      <4> QED
        BY <1>0, <2>1, <3>2, <4>1 DEF ShouldWait, OneShot
    <3> QED
      BY <3>1, <3>2
  <2> QED
    BY <2>1, <2>2 DEF ShouldWait, Call
<1>4. ASSUME NEW u \in Threads, AcquireThread(t, u) PROVE FALSE
  BY <1>4 DEF AcquireThread, ShouldWait, lockVars, objectVars, signalVars, threadVars, Call
<1> QED
  BY <1>1, <1>2, <1>3, <1>4 DEF Acquiring

\* What is on the stack after a step, and was there before, or is new.
LEMMA NewAcquire ==
  ASSUME IInv, Step, NEW i \in DOMAIN todo', todo'[i][1] = "Acquire"
  PROVE  Has(todo, todo'[i]) \/ (\E t \in Threads : Takes(t)) \/ (\E o \in Objects : WakeupNext(o))
<1>1. ASSUME NEW t \in Threads, Stop(t) PROVE Has(todo, todo'[i])
  BY <1>1, StopOps, CallsFrom
<1>2. CASE Shape(CommonOps)
  BY <1>2, CallsFrom DEF Shape, CommonOps
<1> QED
  BY <1>1, <1>2, StepShape

\* Objects that are to be acquired stay available.
LEMMA StepAcquire ==
  ASSUME IInv, WaitInv, Ordered(todo), AcquireOK, Step
  PROVE  AcquireOK'
<1>0. IsTodo(todo)
  BY DEF IInv, CallInv
<1>1. ASSUME NEW i \in DOMAIN todo', todo'[i][1] = "Acquire", NEW x, x = todo'[i][3], x \notin Semaphores,
             NEW y, y = todo'[i][2]
      PROVE  ~(ShouldWait(x, y)')
  <2>1. ASSUME NEW t \in Threads, Takes(t) PROVE ~(ShouldWait(x, y)')
    <3>1. PICK one \in Seq(Objects) : Take(t, one) /\ \A k \in DOMAIN one : ~ShouldWait(one[k], t)
      BY <2>1 DEF Takes
    <3>2. todo' = ForEach("Acquire", t, one) /\ UNCHANGED <<lock_count, holding_thread, available_count, signaled, status>>
      BY <3>1 DEF Take, objectVars, lockVars, signalVars, threadVars
    <3>3. i \in DOMAIN one /\ x = one[i] /\ y = t
      BY <1>1, <3>2 DEF ForEach, Call
    <3> QED
      BY <3>1, <3>2, <3>3 DEF ShouldWait
  <2>2. ASSUME NEW o \in Objects, WakeupNext(o), ~Has(todo, todo'[i]) PROVE ~(ShouldWait(x, y)')
    <3>1. PICK t \in Threads, acquired \in Seq(Objects) : \E new :
           /\ ReadyFor(t, o)
           /\ acquired = IF status[t] = "WaitSynchAll" THEN wait_objects[t] ELSE <<o>>
           /\ new = ForEach("Acquire", t, acquired) \o EndWait(t, o) /\ todo' = new \o todo
      BY <2>2, WakeupNextCalls
    <3>2. PICK new : new = ForEach("Acquire", t, acquired) \o EndWait(t, o) /\ todo' = new \o todo
      BY <3>1
    <3>3. PICK a, e : a = ForEach("Acquire", t, acquired) /\ e = EndWait(t, o)
      OBVIOUS
    <3>4. IsTodo(a) /\ IsTodo(e) /\ \A k \in DOMAIN e : EndCall(e[k], t)
      <4>1. "Acquire" \in OpCalls
        BY DEF OpCalls
      <4> QED
        BY <3>3, <4>1, ForEachFacts, EndWaitOrder
    <3>5. IsTodo(new)
      BY <3>2, <3>3, <3>4, TodoConcat
    <3>6. PICK r : r = todo'
      OBVIOUS
    <3>7. Stacked(r, new, todo) /\ Stacked(new, a, e)
      BY <1>0, <3>2, <3>3, <3>4, <3>5, <3>6, StackConcat
    <3>8. i \in DOMAIN new /\ r[i] = new[i]
      BY <1>1, <2>2, <3>6, <3>7 DEF Stacked, Has
    <3>9. \A k \in DOMAIN e : e[k][1] # "Acquire"
      BY <3>4, EndCallFacts
    <3>10. i \in DOMAIN a /\ new[i] = a[i]
      BY <1>1, <3>6, <3>7, <3>8, <3>9 DEF Stacked
    <3>11. i \in DOMAIN acquired /\ x = acquired[i] /\ y = t
      BY <1>1, <3>3, <3>6, <3>8, <3>10 DEF ForEach, Call
    <3>12. ~ShouldWait(acquired[i], t)
      <4>1. CASE status[t] = "WaitSynchAll"
        BY <3>1, <3>11, <4>1 DEF ReadyFor
      <4>2. CASE status[t] # "WaitSynchAll"
        <5>1. acquired = <<o>>
          BY <3>1, <4>2
        <5>2. acquired[i] = o
          BY <3>11, <5>1
        <5> QED
          BY <3>1, <5>2 DEF ReadyFor
      <4> QED
        BY <4>1, <4>2
    <3>13. UNCHANGED <<lock_count, holding_thread, available_count, signaled, status>>
      BY <2>2 DEF WakeupNext, objectVars, lockVars, signalVars, threadVars
    <3> QED
      BY <3>11, <3>12, <3>13 DEF ShouldWait
  <2>3. CASE Has(todo, todo'[i])
    <3>0. PICK n \in DOMAIN todo : todo[n] = todo'[i]
      BY <2>3 DEF Has
    <3>1. /\ todo # <<>> /\ Head(todo)[1] = "Acquire"
          /\ \E t \in Threads : Acquiring(t)
      BY <1>1, <3>0, HeadAcquires
    <3>2. PICK t \in Threads : Acquiring(t)
      BY <3>1
    <3>3. Return(<<>>) /\ Head(todo)[2] = t
      BY <3>2, AcquiringReturns
    <3>4. i + 1 \in DOMAIN todo /\ todo'[i] = todo[i + 1] /\ i \in Nat /\ 1 \in DOMAIN todo /\ Head(todo) = todo[1]
      <4>1. \A k \in DOMAIN todo' : k + 1 \in DOMAIN todo /\ todo'[k] = todo[k + 1]
        BY <1>0, <3>1, <3>3, PopFacts
      <4>2. PICK r : r = todo'
        OBVIOUS
      <4>3. todo' = Tail(todo)
        BY <1>0, <3>1, <3>3, PopFacts
      <4>4. Popped(r, todo)
        BY <1>0, <3>1, <4>2, <4>3, StackTail
      <4>5. i \in Nat /\ 1 \in DOMAIN todo /\ Head(todo) = todo[1]
        BY <1>1, <4>2, <4>4 DEF Popped
      <4> QED
        BY <1>1, <4>1, <4>5
    <3>5. Fits(todo[1], todo[i + 1])
      <4>1. 1 < i + 1
        <5>1. i # 0
          <6>1. DOMAIN todo = 1..Len(todo) /\ Len(todo) \in Nat
            BY <1>0 DEF IsTodo
          <6>2. i \in DOMAIN todo' /\ IsTodo(todo')
            BY <1>1, <1>0, <3>1, <3>3, PopFacts DEF Popped
          <6> QED
            BY <6>2 DEF IsTodo
        <5> QED
          BY <3>4, <5>1
      <4> QED
        BY <3>4, <4>1 DEF Ordered
    <3>6. y = t /\ (OneShot(x) => Head(todo)[3] # x)
      BY <1>1, <3>3, <3>4, <3>5 DEF Fits
    <3>7. ~ShouldWait(x, t)
      BY <1>1, <3>4, <3>6 DEF AcquireOK
    <3> QED
      BY <1>1, <3>2, <3>6, <3>7, AcquireKeeps
  <2> QED
    BY <1>1, <2>1, <2>2, <2>3, NewAcquire
<1> QED
  BY <1>1 DEF AcquireOK, ShouldWait

-----------------------------------------------------------------------------
\* What a step does to one thread.

\* Nothing, as far as its status, its callback and its events are concerned.
Unmoved(t) ==
  status'[t] = status[t] /\ wakeup_callback'[t] = wakeup_callback[t] /\ (NoEvent(t) => NoEvent(t)')
\* It is made ready or running.
Scheduling(t) ==
  /\ status[t] \in {"None", "Ready", "Running"} /\ status'[t] \in {"Ready", "Running"}
  /\ wakeup_callback'[t] = wakeup_callback[t]
\* It sleeps on an address.
Arbitrating(t) ==
  /\ ArbiterSvc(t)
  /\ \E a \in program.addresses, timed \in BOOLEAN, delay \in program.delays : ArbitrateWait(t, a, timed, delay)
ThreadStep(t) ==
  \/ Unmoved(t) \/ Scheduling(t) \/ Stop(t) \/ ResumeFromWait(t)
  \/ Sleeps(t) \/ (\E delay \in program.delays : SleepThread(t, delay)) \/ Arbitrating(t)

\* A thread that falls asleep ran.
LEMMA SleeperRan ==
  ASSUME Clean, IInv, NEW t \in Threads,
         Sleeps(t) \/ (\E delay \in program.delays : SleepThread(t, delay)) \/ Arbitrating(t)
  PROVE  Executes(t) /\ status[t] = "Running" /\ todo = <<>> /\ Lives(t)
<1>1. Svc(t)
  BY DEF Svc, WaitSvc, Sleeps, Arbitrating
<1> QED
  BY <1>1, CallerRuns

\* An event of something else is scheduled or not.
LEMMA OthersEvent ==
  ASSUME IInv, NEW t \in Threads, NEW x \in Sources, x # t,
         \/ events' = events \/ events' = Scheduled(events, x) \/ events' = Unscheduled(events, x)
         \/ events' = Scheduled(Unscheduled(events, x), x)
         \/ \E c \in Cores : events' = [events EXCEPT ![c][x] = @ - 1]
  PROVE  NoEvent(t) => NoEvent(t)'
<1>1. events \in [Cores -> [Sources -> Nat]] /\ t \in Sources
  BY DEF IInv, CallInv, ThreadTypes, Sources
<1>2. PICK un : un = Unscheduled(events, x)
  OBVIOUS
<1>3. un \in [Cores -> [Sources -> Nat]] /\ \A c \in Cores : un[c][t] = events[c][t]
  BY <1>1, <1>2, UnscheduledFacts
<1>4. ASSUME NEW ev \in [Cores -> [Sources -> Nat]], NEW c \in Cores PROVE Scheduled(ev, x)[c][t] = ev[c][t]
  BY <1>1 DEF Scheduled
<1>5. ASSUME NEW c \in Cores PROVE events'[c][t] = events[c][t]
  <2>1. CASE events' = [events EXCEPT ![c][x] = @ - 1]
    BY <1>1, <2>1
  <2>2. ASSUME NEW d \in Cores, events' = [events EXCEPT ![d][x] = @ - 1] PROVE events'[c][t] = events[c][t]
    BY <1>1, <2>2
  <2> QED
    BY <1>1, <1>2, <1>3, <1>4, <2>2
<1> QED
  BY <1>5 DEF NoEvent

\* The steps that do not concern t.
LEMMA UnmovedStep ==
  ASSUME IInv, NEW t \in Threads, status'[t] = status[t], wakeup_callback'[t] = wakeup_callback[t],
         NEW x \in Sources, x # t \/ events' = events,
         \/ events' = events \/ events' = Scheduled(events, x) \/ events' = Unscheduled(events, x)
         \/ events' = Scheduled(Unscheduled(events, x), x)
         \/ \E c \in Cores : events' = [events EXCEPT ![c][x] = @ - 1]
  PROVE  ThreadStep(t)
<1>1. CASE events' = events
  BY <1>1 DEF ThreadStep, Unmoved, NoEvent
<1>2. CASE x # t
  BY <1>2, OthersEvent DEF ThreadStep, Unmoved
<1> QED
  BY <1>1, <1>2

\* Nothing of it changes at all.
LEMMA StillStep ==
  ASSUME NEW t, UNCHANGED <<status, wakeup_callback, events>>
  PROVE  ThreadStep(t)
BY DEF ThreadStep, Unmoved, NoEvent

\* One of these happens to each thread.
LEMMA ThreadSteps ==
  ASSUME IInv, Step, NEW t \in Threads
  PROVE  ThreadStep(t)
<1>0. /\ status \in [Threads -> Statuses] /\ wakeup_callback \in [Threads -> Callbacks]
      /\ events \in [Cores -> [Sources -> Nat]] /\ t \in Sources
      /\ \A x \in Timers : x \in Sources /\ x # t
  BY TimersApart DEF IInv, CallInv, QueueInv, QueueTypes, ThreadTypes, Sources
<1>1. CASE RunLoop
  <2>1. CASE UNCHANGED <<status, events>>
    BY <1>1, <2>1, StillStep DEF RunLoop, BeginRound, EndAdvance, EndSlice, threadVars
  <2>2. ASSUME NEW c \in Cores, Reschedule(c) PROVE ThreadStep(t)
    <3>1. wakeup_callback' = wakeup_callback
      BY <1>1 DEF RunLoop, BeginRound, EndAdvance, EndSlice, threadVars
    <3>2. /\ \/ status'[t] = status[t]
             \/ status[t] \in {"Ready", "Running"} /\ status'[t] \in {"Ready", "Running"}
          /\ Fewer(t)
      BY <1>0, <2>2, RescheduleThreads
    <3>3. NoEvent(t) => NoEvent(t)'
      BY <3>2 DEF Fewer, NoEvent
    <3> QED
      BY <3>1, <3>2, <3>3 DEF ThreadStep, Unmoved, Scheduling
  <2> QED
    BY <1>1, <2>1, <2>2 DEF RunLoop, BeginRound, EndAdvance, EndSlice, threadVars
<1>2. ASSUME NEW c \in Cores, NEW u \in Threads, ThreadWakeupCallback(c, u) PROVE ThreadStep(t)
  <2>1. /\ UNCHANGED <<status, wakeup_callback>> /\ u \in Sources /\ events[c][u] > 0
        /\ events' = [events EXCEPT ![c][u] = @ - 1]
    BY <1>2 DEF ThreadWakeupCallback, threadVars, Sources
  <2>2. CASE u # t
    BY <2>1, <2>2, UnmovedStep
  <2>3. CASE u = t
    <3>1. ~NoEvent(t)
      BY <1>0, <2>1, <2>3 DEF NoEvent
    <3> QED
      BY <2>1, <3>1 DEF ThreadStep, Unmoved
  <2> QED
    BY <2>2, <2>3
<1>3. ASSUME NEW c \in Cores, NEW x \in Timers, TimerCallback(c, x) PROVE ThreadStep(t)
  <2>1. UNCHANGED <<status, wakeup_callback>> /\ events' = [events EXCEPT ![c][x] = @ - 1]
    BY <1>3 DEF TimerCallback, threadVars
  <2> QED
    BY <1>0, <2>1, UnmovedStep
<1>4. CASE ObjectCall
  <2>1. ASSUME NEW u \in Threads, ResumeFromWait(u) PROVE ThreadStep(t)
    <3>1. CASE u = t
      BY <2>1, <3>1 DEF ThreadStep
    <3>2. CASE u # t
      <4>1. events' = events /\ status'[t] = status[t] /\ wakeup_callback'[t] = wakeup_callback[t]
        BY <1>0, <2>1, <3>2, ZenonT(40) DEF ResumeFromWait
      <4> QED
        BY <4>1 DEF ThreadStep, Unmoved, NoEvent
    <3> QED
      BY <3>1, <3>2
  <2>2. ASSUME ~ \E u \in Threads : ResumeFromWait(u) PROVE UNCHANGED <<status, wakeup_callback, events>>
    BY <1>4, <2>2, ZenonT(40) DEF ObjectCall, AcquireMutex, AcquireSemaphore, AcquireSignal, AcquireThread, AddWaitingThread,
       RemoveWaitingThread, WakeupNext, WakeupDone, SyncWakeUp, threadVars
  <2> QED
    BY <2>1, <2>2, StillStep
<1>5. CASE ArbiterCall
  BY <1>5, StillStep DEF ArbiterCall, ResumeAllThreads, ResumeHighestPriorityThread, ArbiterWakeUp, threadVars
<1>6. CASE KernelCall
  <2>1. ASSUME NEW u \in Threads, Stop(u) PROVE ThreadStep(t)
    <3>1. CASE u = t
      BY <2>1, <3>1 DEF ThreadStep
    <3>2. CASE u # t
      <4>1. events' = Unscheduled(events, u) /\ status'[t] = status[t] /\ wakeup_callback'[t] = wakeup_callback[t]
        BY <1>0, <2>1, <3>2 DEF Stop
      <4> QED
        BY <3>2, <4>1, UnmovedStep DEF Sources
    <3> QED
      BY <3>1, <3>2
  <2>2. ASSUME NEW x \in Timers, Rearm(x) PROVE ThreadStep(t)
    <3>1. UNCHANGED <<status, wakeup_callback>> /\ events' = Scheduled(events, x)
      BY <2>2 DEF Rearm, threadVars
    <3> QED
      BY <1>0, <3>1, UnmovedStep
  <2>3. ASSUME ~ \E u \in Threads : Stop(u), ~ \E x \in Timers : Rearm(x)
        PROVE  UNCHANGED <<status, wakeup_callback, events>>
    BY <1>6, <2>3 DEF KernelCall, MutexesReleased, UpdatedPending, ReleaseThreadMutexes, UpdatePending,
       TerminateNext, TerminateCurrent, threadVars
  <2> QED
    BY <2>1, <2>2, <2>3, StillStep
<1>7. ASSUME NEW u \in Threads, WaitSvc(u) PROVE ThreadStep(t)
  <2>1. ASSUME NEW w, status' = [status EXCEPT ![u] = w], NEW b,
               wakeup_callback' = wakeup_callback \/ wakeup_callback' = [wakeup_callback EXCEPT ![u] = b],
               NEW delay, events' = WakeAfterDelay(events, u, delay), u # t
        PROVE  ThreadStep(t)
    <3>1. status'[t] = status[t] /\ wakeup_callback'[t] = wakeup_callback[t]
      BY <1>0, <2>1
    <3>2. events' = events \/ events' = Scheduled(events, u)
      BY <2>1 DEF WakeAfterDelay
    <3> QED
      BY <2>1, <3>1, <3>2, UnmovedStep DEF Sources
  <2>2. CASE Sleeps(u)
    BY <2>1, <2>2 DEF ThreadStep, Sleeps, Sleep
  <2>3. CASE Takes(u)
    BY <2>3, StillStep DEF Takes, Take, threadVars
  <2>4. ASSUME NEW delay \in program.delays, SleepThread(u, delay) PROVE ThreadStep(t)
    BY <2>1, <2>4 DEF ThreadStep, SleepThread
  <2> QED
    BY <1>7, <2>2, <2>3, <2>4, WaitSvcCases
<1>8. ASSUME NEW u \in Threads, SignalSvc(u) PROVE ThreadStep(t)
  <2>1. UNCHANGED <<status, wakeup_callback>>
    BY <1>8 DEF SignalSvc, ReleaseMutex, ReleaseSemaphore, SignalEvent, Clear, SetTimer, CancelTimer, threadVars
  <2>2. \/ events' = events
        \/ \E x \in Timers : events' = Unscheduled(events, x) \/ events' = Scheduled(Unscheduled(events, x), x)
    BY <1>8 DEF SignalSvc, ReleaseMutex, ReleaseSemaphore, SignalEvent, Clear, SetTimer, CancelTimer, threadVars
  <2> QED
    BY <1>0, <2>1, <2>2, UnmovedStep
<1>9. ASSUME NEW u \in Threads, CreateThread(u) PROVE ThreadStep(t)
  <2>1. events' = events /\ wakeup_callback' = wakeup_callback /\ status[u] = "None"
        /\ status' = [status EXCEPT ![u] = "Ready"]
    BY <1>9 DEF CreateThread
  <2>2. CASE u = t
    BY <1>0, <2>1, <2>2 DEF ThreadStep, Scheduling
  <2>3. CASE u # t
    BY <1>0, <2>1, <2>3 DEF ThreadStep, Unmoved, NoEvent
  <2> QED
    BY <2>2, <2>3
<1>10. ASSUME NEW u \in Threads, ThreadSvc(u) PROVE ThreadStep(t)
  <2>1. ASSUME ~ \E v \in Threads : SvcCreateThread(u, v) PROVE UNCHANGED <<status, wakeup_callback, events>>
    BY <1>10, <2>1 DEF ThreadSvc, SetThreadPriority, ExitThread, TerminateProcess, threadVars
  <2> QED
    BY <1>9, <2>1, StillStep DEF SvcCreateThread
<1>11. ASSUME NEW u \in Threads, ArbiterSvc(u) PROVE ThreadStep(t)
  <2>1. CASE ~Arbitrating(u)
    BY <1>11, <2>1, StillStep DEF ArbiterSvc, Arbitrating, ArbitrateSignal, ArbitrateNoWait, threadVars
  <2>2. ASSUME NEW a, NEW timed, NEW delay, ArbitrateWait(u, a, timed, delay), u # t PROVE ThreadStep(t)
    <3>1. status'[t] = status[t] /\ wakeup_callback'[t] = wakeup_callback[t]
      BY <1>0, <2>2 DEF ArbitrateWait
    <3>2. events' = events \/ events' = Scheduled(events, u)
      BY <2>2 DEF ArbitrateWait, WakeAfterDelay
    <3> QED
      BY <2>2, <3>1, <3>2, UnmovedStep DEF Sources
  <2> QED
    BY <2>1, <2>2 DEF ThreadStep, Arbitrating
<1>12. ASSUME NEW p \in Processes, Run(p) PROVE ThreadStep(t)
  BY <1>9, <1>12, KernelAssumption DEF Run
<1> QED
  BY <1>1, <1>2, <1>3, <1>4, <1>5, <1>6, <1>7, <1>8, <1>10, <1>11, <1>12 DEF Step, Svc, Callback

\* Unless it sleeps, a thread that does not wait for an object or an address has
\* no callback.
LEMMA NoCallback ==
  ASSUME IInv, CallbackOK, NEW t \in Threads, status[t] \in {"None", "Ready", "Running", "WaitSleep"}
  PROVE  wakeup_callback[t] = "null"
<1>1. wakeup_callback[t] \in Callbacks
  BY DEF IInv, CallInv, ThreadTypes
<1> QED
  BY <1>1 DEF CallbackOK, Callbacks, Synching

\* Callbacks and waits stay together.
LEMMA StepCallback ==
  ASSUME Clean, IInv, LifeInv, CallbackOK, Step
  PROVE  CallbackOK'
<1>0. /\ status \in [Threads -> Statuses] /\ wakeup_callback \in [Threads -> Callbacks]
  BY DEF IInv, CallInv, QueueInv, QueueTypes, ThreadTypes
<1>1. ASSUME NEW t \in Threads
      PROVE  /\ wakeup_callback'[t] = "SVC_SyncCallback" => status'[t] \in Synching \cup {"Dead"}
             /\ wakeup_callback'[t] = "ArbiterCallback" => status'[t] \in {"WaitArb", "Dead"}
             /\ status'[t] = "WaitArb" /\ wakeup_callback'[t] # "ArbiterCallback" => NoEvent(t)'
  <2>0. /\ wakeup_callback[t] = "SVC_SyncCallback" => status[t] \in Synching \cup {"Dead"}
        /\ wakeup_callback[t] = "ArbiterCallback" => status[t] \in {"WaitArb", "Dead"}
        /\ status[t] = "WaitArb" /\ wakeup_callback[t] # "ArbiterCallback" => NoEvent(t)
    BY DEF CallbackOK
  <2>1. CASE Unmoved(t)
    BY <2>0, <2>1 DEF Unmoved
  <2>2. CASE Scheduling(t)
    BY <2>2, NoCallback DEF Scheduling
  <2>3. CASE Stop(t)
    <3>1. status'[t] = "Dead"
      BY <1>0, <2>3 DEF Stop
    <3> QED
      BY <3>1
  <2>4. CASE ResumeFromWait(t)
    <3>1. CASE status[t] \in Waits
      <4>1. status'[t] = "Ready" /\ wakeup_callback'[t] = "null"
        BY <1>0, <2>4, <3>1 DEF ResumeFromWait
      <4> QED
        BY <4>1
    <3>2. CASE status[t] \notin Waits
      <4>1. UNCHANGED <<status, wakeup_callback>> /\ status[t] # "WaitArb"
        BY <2>4, <3>2 DEF ResumeFromWait, Waits
      <4> QED
        BY <2>0, <4>1
    <3> QED
      BY <3>1, <3>2
  <2>5. CASE Sleeps(t)
    <3>1. status'[t] \in Synching /\ wakeup_callback'[t] = "SVC_SyncCallback"
      BY <1>0, <2>5 DEF Sleeps, Sleep
    <3> QED
      BY <3>1 DEF Synching
  <2>6. ASSUME (\E delay \in program.delays : SleepThread(t, delay)) \/ Arbitrating(t)
        PROVE  wakeup_callback[t] = "null" /\ NoEvent(t)
    <3>1. status[t] = "Running"
      BY <2>6, SleeperRan
    <3>2. NoEvent(t)
      BY <3>1 DEF LifeInv, EventsOK, Waits
    <3> QED
      BY <3>1, <3>2, NoCallback
  <2>7. ASSUME NEW delay \in program.delays, SleepThread(t, delay)
        PROVE  wakeup_callback'[t] = "null" /\ status'[t] = "WaitSleep"
    BY <1>0, <2>6, <2>7 DEF SleepThread
  <2>8. CASE Arbitrating(t)
    <3>1. PICK a, timed, delay : ArbitrateWait(t, a, timed, delay) /\ timed \in BOOLEAN
      BY <2>8 DEF Arbitrating
    <3>2. wakeup_callback[t] = "null" /\ NoEvent(t)
      BY <2>6, <2>8
    <3>3. status'[t] = "WaitArb"
      BY <1>0, <3>1 DEF ArbitrateWait
    <3>4. CASE timed
      <4>1. wakeup_callback'[t] = "ArbiterCallback"
        BY <1>0, <3>1, <3>4 DEF ArbitrateWait
      <4> QED
        BY <3>3, <4>1
    <3>5. CASE ~timed
      <4>1. wakeup_callback' = wakeup_callback /\ events' = events
        BY <3>1, <3>5 DEF ArbitrateWait
      <4> QED
        BY <3>2, <4>1 DEF NoEvent
    <3> QED
      BY <3>1, <3>4, <3>5
  <2> QED
    BY <2>1, <2>2, <2>3, <2>4, <2>5, <2>7, <2>8, ThreadSteps DEF ThreadStep
<1> QED
  BY <1>1 DEF CallbackOK

-----------------------------------------------------------------------------
\* Threads that wait, and that wait for themselves.

\* What a step does to the objects a thread waits for: a thread that falls asleep
\* gets them, and one that is resumed or stopped loses them.
LEMMA WaitObjectsStep ==
  ASSUME IInv, Step, NEW t \in Threads
  PROVE  wait_objects'[t] = wait_objects[t] \/ wait_objects'[t] = <<>> \/ Sleeps(t)
<1>0. wait_objects \in [Threads -> Seq(Objects)]
  BY ListTypes
<1>1. ASSUME NEW u \in Threads, ResumeFromWait(u) PROVE wait_objects'[t] = wait_objects[t] \/ wait_objects'[t] = <<>>
  BY <1>0, <1>1 DEF ResumeFromWait
<1>2. ASSUME NEW u \in Threads, Stop(u) PROVE wait_objects'[t] = wait_objects[t] \/ wait_objects'[t] = <<>>
  BY <1>0, <1>2 DEF Stop
<1>3. CASE ObjectCall /\ ~ \E u \in Threads : ResumeFromWait(u)
  BY <1>3, ZenonT(40) DEF ObjectCall, AcquireMutex, AcquireSemaphore, AcquireSignal, AcquireThread, AddWaitingThread,
     RemoveWaitingThread, WakeupNext, WakeupDone, SyncWakeUp, objectVars, waitVars
<1>4. CASE ArbiterCall
  BY <1>4 DEF ArbiterCall, ResumeAllThreads, ResumeHighestPriorityThread, ArbiterWakeUp, objectVars, waitVars
<1>5. CASE KernelCall /\ ~ \E u \in Threads : Stop(u)
  BY <1>5 DEF KernelCall, MutexesReleased, UpdatedPending, ReleaseThreadMutexes, UpdatePending,
     TerminateNext, TerminateCurrent, Rearm, objectVars, waitVars
<1>6. ASSUME NEW u \in Threads, WaitSvc(u) PROVE wait_objects'[t] = wait_objects[t] \/ Sleeps(t)
  <2>1. CASE Sleeps(u)
    <3>1. PICK objects \in program.handles[u] : wait_objects' = [wait_objects EXCEPT ![u] = objects]
      BY <2>1 DEF Sleeps, Sleep
    <3> QED
      BY <1>0, <2>1, <3>1
  <2>2. CASE Takes(u)
    BY <2>2 DEF Takes, Take, objectVars, waitVars
  <2>3. ASSUME NEW delay, SleepThread(u, delay) PROVE wait_objects' = wait_objects
    BY <2>3 DEF SleepThread, objectVars, waitVars
  <2> QED
    BY <1>6, <2>1, <2>2, <2>3, WaitSvcCases
<1>7. ASSUME NEW u \in Threads, SignalSvc(u) \/ ThreadSvc(u) \/ ArbiterSvc(u) PROVE wait_objects' = wait_objects
  BY <1>7 DEF SignalSvc, ReleaseMutex, ReleaseSemaphore, SignalEvent, Clear, SetTimer, CancelTimer, ThreadSvc,
     SvcCreateThread, SetThreadPriority, ExitThread, TerminateProcess, ArbiterSvc, ArbitrateSignal, ArbitrateWait,
     ArbitrateNoWait, objectVars, waitVars
<1>8. CASE RunLoop \/ Callback \/ \E p \in Processes : Run(p)
  BY <1>8 DEF RunLoop, Callback, ThreadWakeupCallback, TimerCallback, Run, objectVars, waitVars
<1> QED
  BY <1>1, <1>2, <1>3, <1>4, <1>5, <1>6, <1>7, <1>8 DEF Step, Svc

\* Who waits for all of a list still names no one-shot twice.
LEMMA StepHandles ==
  ASSUME Clean, IInv, HandlesOK, Step
  PROVE  HandlesOK'
<1>0. status \in [Threads -> Statuses] /\ wait_objects \in [Threads -> Seq(Objects)]
  BY ListTypes
<1>1. ASSUME NEW t \in Threads, status'[t] = "WaitSynchAll", NEW w, w = wait_objects'[t] PROVE ~Repeats(w)
  <2>1. CASE w = <<>>
    BY <2>1 DEF Repeats
  <2>2. CASE Sleeps(t)
    <3>1. PICK objects \in program.handles[t], v \in Synching, delay \in program.delays :
            Sleep(t, objects, v, delay) /\ (v = "WaitSynchAll" => ForAll(t, objects))
      BY <2>2 DEF Sleeps
    <3>2. w = objects /\ v = "WaitSynchAll"
      BY <1>0, <1>1, <3>1 DEF Sleep
    <3> QED
      BY <3>1, <3>2, NothingRepeated
  <2>3. CASE w = wait_objects[t] /\ w # <<>> /\ ~Sleeps(t)
    <3>1. ~Scheduling(t)
      BY <1>1 DEF Scheduling
    <3>2. ~Stop(t)
      BY <1>0, <1>1 DEF Stop
    <3>3. ResumeFromWait(t) => status[t] = "WaitSynchAll"
      BY <1>0, <1>1 DEF ResumeFromWait
    <3>4. ~ \E delay \in program.delays : SleepThread(t, delay)
      BY <1>0, <1>1 DEF SleepThread
    <3>5. ~Arbitrating(t)
      BY <1>0, <1>1 DEF Arbitrating, ArbitrateWait
    <3>6. Unmoved(t) => status[t] = "WaitSynchAll"
      BY <1>1 DEF Unmoved
    <3>7. status[t] = "WaitSynchAll"
      BY <2>3, <3>1, <3>2, <3>3, <3>4, <3>5, <3>6, ThreadSteps DEF ThreadStep
    <3> QED
      BY <2>3, <3>7 DEF HandlesOK
  <2> QED
    BY <1>1, <2>1, <2>2, <2>3, WaitObjectsStep
<1> QED
  BY <1>1 DEF HandlesOK, Repeats

\* A thread enters a list only by AddWaitingThread.
LEMMA WaitingStep ==
  ASSUME IInv, Step, NEW t \in Threads, NEW o \in Objects, Waiting(t, o)'
  PROVE  Waiting(t, o) \/ AddWaitingThread(t, o)
<1>0. waiting_threads \in [Objects -> Seq(Threads)]
  BY ListTypes
<1>1. ASSUME NEW u \in Threads, NEW x \in Objects, AddWaitingThread(u, x) PROVE Waiting(t, o) \/ AddWaitingThread(t, o)
  <2>1. waiting_threads' = [waiting_threads EXCEPT ![x] = IF Contains(@, u) THEN @ ELSE Append(@, u)]
    BY <1>1 DEF AddWaitingThread
  <2>2. CASE x # o
    BY <1>0, <2>1, <2>2 DEF Waiting
  <2>3. CASE x = o /\ u # t
    <3>1. waiting_threads'[o] = waiting_threads[o] \/ waiting_threads'[o] = Append(waiting_threads[o], u)
      BY <1>0, <2>1, <2>3
    <3>2. waiting_threads[o] \in Seq(Threads)
      BY <1>0
    <3>3. ToSet(Append(waiting_threads[o], u)) = ToSet(waiting_threads[o]) \cup {u}
      BY <3>2, AppendFacts
    <3> QED
      BY <2>3, <3>1, <3>3 DEF Waiting
  <2> QED
    BY <1>1, <2>2, <2>3
<1>2. ASSUME NEW u \in Threads, NEW x \in Objects, RemoveWaitingThread(u, x) PROVE Waiting(t, o)
  <2>1. waiting_threads' = [waiting_threads EXCEPT ![x] = Without(@, u)]
    BY <1>2 DEF RemoveWaitingThread
  <2>2. ToSet(Without(waiting_threads[o], u)) \subseteq ToSet(waiting_threads[o])
    BY <1>0, WithoutFacts
  <2> QED
    BY <1>0, <2>1, <2>2 DEF Waiting
<1>3. CASE UNCHANGED waiting_threads
  BY <1>3 DEF Waiting
<1>4. CASE ObjectCall /\ ~ \E u \in Threads, x \in Objects : AddWaitingThread(u, x) \/ RemoveWaitingThread(u, x)
  BY <1>3, <1>4 DEF ObjectCall, AcquireMutex, AcquireSemaphore, AcquireSignal, AcquireThread, ResumeFromWait,
     WakeupNext, WakeupDone, SyncWakeUp, objectVars, waitVars
<1>5. CASE ArbiterCall \/ KernelCall
  BY <1>3, <1>5 DEF ArbiterCall, ResumeAllThreads, ResumeHighestPriorityThread, ArbiterWakeUp, KernelCall, Stop,
     MutexesReleased, UpdatedPending, ReleaseThreadMutexes, UpdatePending, TerminateNext, TerminateCurrent, Rearm,
     objectVars, waitVars
<1>6. ASSUME NEW u \in Threads, WaitSvc(u) PROVE waiting_threads' = waiting_threads
  BY <1>6 DEF WaitSvc, WaitSynchronization1, WaitSynchronizationAny, WaitSynchronizationAll, Sleep, Take,
     SleepThread, objectVars, waitVars
<1>7. ASSUME NEW u \in Threads, SignalSvc(u) \/ ThreadSvc(u) \/ ArbiterSvc(u) PROVE waiting_threads' = waiting_threads
  BY <1>7 DEF SignalSvc, ReleaseMutex, ReleaseSemaphore, SignalEvent, Clear, SetTimer, CancelTimer, ThreadSvc,
     SvcCreateThread, SetThreadPriority, ExitThread, TerminateProcess, ArbiterSvc, ArbitrateSignal, ArbitrateWait,
     ArbitrateNoWait, objectVars, waitVars
<1>8. CASE RunLoop \/ Callback \/ \E p \in Processes : Run(p)
  BY <1>3, <1>8 DEF RunLoop, Callback, ThreadWakeupCallback, TimerCallback, Run, objectVars, waitVars
<1> QED
  BY <1>1, <1>2, <1>3, <1>4, <1>5, <1>6, <1>7, <1>8 DEF Step, Svc

\* A thread sleeps on an address only by ArbitrateWait.
LEMMA WaitArbStep ==
  ASSUME IInv, Step, NEW t \in Threads, status'[t] = "WaitArb"
  PROVE  \/ Arbitrating(t)
         \/ status[t] = "WaitArb" /\ Unmoved(t)
<1>0. status \in [Threads -> Statuses]
  BY ListTypes
<1>1. ~Scheduling(t)
  BY DEF Scheduling
<1>2. ~Stop(t)
  BY <1>0 DEF Stop
<1>3. ~ResumeFromWait(t)
  BY <1>0 DEF ResumeFromWait, Waits
<1>4. ~Sleeps(t)
  BY <1>0 DEF Sleeps, Sleep, Synching
<1>5. ~ \E delay \in program.delays : SleepThread(t, delay)
  BY <1>0 DEF SleepThread
<1>6. Unmoved(t) => status[t] = "WaitArb"
  BY DEF Unmoved
<1> QED
  BY <1>1, <1>2, <1>3, <1>4, <1>5, <1>6, ThreadSteps DEF ThreadStep

-----------------------------------------------------------------------------
\* Who is woken, stopped and ended.

\* Where WakeupAllWaitingThreads looks at the list of an object, everybody in it
\* waits.
LEMMA WaitersHere ==
  ASSUME IInv, WaitInv, Ordered(todo), SelfOK, todo # <<>>, NEW o \in Objects,
         Head(todo)[1] = "WakeupAllWaitingThreads", Head(todo)[2] = o
  PROVE  /\ \A t \in Threads : Waiting(t, o) => status[t] \in Synching
         /\ WaitersWait(o)
<1>1. ASSUME NEW t \in Threads, Waiting(t, o) PROVE status[t] \in Synching
  <2>1. CASE o \in ToSet(wait_objects[t])
    <3>1. wait_objects[t] # <<>>
      BY <2>1 DEF ToSet
    <3> QED
      BY <3>1 DEF WaitInv, ListedOK
  <2>2. ASSUME status[t] = "Dead", Leaves(t, o) PROVE FALSE
    <3>1. PICK i \in DOMAIN todo : todo[i] = Leave(t, o)
      BY <2>2 DEF Leaves, Has
    <3>2. todo[i][1] = "RemoveWaitingThread" /\ todo[i][2] = t
      BY <3>1 DEF Leave, Call
    <3>3. t = o
      BY <3>2, CalmBelowWakeup, ListTypes DEF Calm
    <3> QED
      BY <1>1, <2>2, <3>3 DEF SelfOK
  <2> QED
    BY <1>1, <2>1, <2>2 DEF WaitInv, ListedOK
<1>2. waiting_threads[o] \in Seq(Threads)
  BY ListTypes
<1>3. ASSUME NEW i \in DOMAIN waiting_threads[o] PROVE status[waiting_threads[o][i]] \in Synching
  <2>1. waiting_threads[o][i] \in Threads
    BY <1>2, <1>3, ElementOfSeq, LenProperties
  <2>2. Waiting(waiting_threads[o][i], o)
    BY <1>2, <1>3, ToSetMember DEF Waiting
  <2> QED
    BY <1>1, <2>1, <2>2
<1> QED
  BY <1>1, <1>3 DEF WaitersWait, Synching

\* A dead thread still does not wait for itself.
LEMMA StepSelf ==
  ASSUME Clean, IInv, WaitInv, SelfOK, Step
  PROVE  SelfOK'
<1>0. status \in [Threads -> Statuses] /\ IsTodo(todo)
  BY ListTypes
<1>1. ASSUME NEW t \in Threads, AddWaitingThread(t, t) PROVE status[t] \in Synching
  <2>1. todo # <<>> /\ Head(todo) = Call("AddWaitingThread", t, t)
    BY <1>1 DEF AddWaitingThread, Calling
  <2>2. 1 \in DOMAIN todo /\ todo[1] = Call("AddWaitingThread", t, t)
    BY <1>0, <2>1, StackHead
  <2>3. Enters(todo)
    BY <2>2 DEF Enters, Call
  <2>4. PICK u \in Threads : \A i \in DOMAIN todo :
          \E o \in ToSet(wait_objects[u]) : todo[i] = Call("AddWaitingThread", u, o)
    BY <2>3 DEF WaitInv, EnteringOK
  <2>5. u = t /\ wait_objects[u] # <<>>
    BY <2>2, <2>4 DEF Call, ToSet
  <2> QED
    BY <2>5 DEF WaitInv, ListedOK
<1>2. ASSUME NEW t \in Threads, status'[t] = "Dead", Waiting(t, t)' PROVE FALSE
  <2>1. Waiting(t, t) \/ AddWaitingThread(t, t)
    BY <1>2, WaitingStep DEF Objects
  <2>2. CASE status[t] = "Dead"
    BY <1>1, <2>1, <2>2 DEF SelfOK, Synching
  <2>3. CASE status[t] # "Dead"
    <3>1. Stop(t)
      <4>1. ~Unmoved(t) /\ ~Scheduling(t)
        BY <1>2, <2>3 DEF Unmoved, Scheduling
      <4>2. ~ResumeFromWait(t)
        BY <1>0, <1>2, <2>3 DEF ResumeFromWait
      <4>3. ~Sleeps(t)
        BY <1>0, <1>2 DEF Sleeps, Sleep, Synching
      <4>4. ~Arbitrating(t)
        BY <1>0, <1>2 DEF Arbitrating, ArbitrateWait
      <4>5. ~ \E delay \in program.delays : SleepThread(t, delay)
        BY <1>0, <1>2 DEF SleepThread
      <4> QED
        BY <4>1, <4>2, <4>3, <4>4, <4>5, ThreadSteps DEF ThreadStep
    <3>2. waiting_threads' = waiting_threads
      BY <3>1 DEF Stop
    <3>3. Waiting(t, t)
      BY <1>2, <3>2 DEF Waiting
    <3>4. t \in ToSet(wait_objects[t])
      BY <2>3, <3>3 DEF WaitInv, ListedOK, Objects
    <3> QED
      BY <3>1, <3>4, CleanStop
  <2> QED
    BY <2>2, <2>3
<1> QED
  BY <1>2 DEF SelfOK, Waiting

-----------------------------------------------------------------------------
\* What the arbiter takes out of its list.

\* The places that stable_partition goes through are those of the set, once each.
LEMMA PlacesFacts ==
  ASSUME arbiter_threads \in Seq(Threads), NEW I \in SUBSET DOMAIN arbiter_threads,
         NEW f \in InOrder(I)
  PROVE  f \in Seq(DOMAIN arbiter_threads) /\ NoDuplicates(f) /\ ToSet(f) = I
<1>1. DOMAIN arbiter_threads = 1..Len(arbiter_threads) /\ Len(arbiter_threads) \in Nat
  BY LenProperties
<1>2. IsFiniteSet(I) /\ Cardinality(I) \in Nat
  <2>1. IsFiniteSet(DOMAIN arbiter_threads)
    BY <1>1, FS_Interval
  <2>2. IsFiniteSet(I)
    BY <2>1, FS_Subset
  <2> QED
    BY <2>2, FS_CardinalityType
<1>3. /\ f \in [1..Cardinality(I) -> I] /\ f \in Seq(DOMAIN arbiter_threads)
      /\ \A i, j \in DOMAIN f : i < j => f[i] < f[j]
  BY PlacesType DEF InOrder
<1>4. DOMAIN f = 1..Cardinality(I) /\ DOMAIN f = 1..Len(f) /\ Len(f) \in Nat
  BY <1>3, LenProperties
<1>5. \A i \in DOMAIN f : i \in Int /\ f[i] \in Int
  BY <1>1, <1>3, <1>4
<1>6. \A i, j \in DOMAIN f : f[i] = f[j] => i = j
  BY <1>3, <1>5
<1>7. Cardinality(1..Cardinality(I)) = Cardinality(I)
  BY <1>2, FS_Interval
<1>8. f \in Injection(1..Cardinality(I), I)
  BY <1>3, <1>6 DEF Injection, IsInjective
<1>9. f \in Surjection(1..Cardinality(I), I)
  BY <1>2, <1>7, <1>8, FS_Injection
<1>10. ToSet(f) = I
  BY <1>3, <1>4, <1>9 DEF Surjection, ToSet
<1> QED
  BY <1>3, <1>4, <1>6, <1>10 DEF NoDuplicates

\* The threads at given places.
LEMMA ThreadsAtFacts ==
  ASSUME arbiter_threads \in Seq(Threads), NoDuplicates(arbiter_threads),
         NEW f \in Seq(DOMAIN arbiter_threads), NoDuplicates(f), NEW s, s = ThreadsAt(f)
  PROVE  s \in Seq(Threads) /\ NoDuplicates(s) /\ ToSet(s) = {arbiter_threads[k] : k \in ToSet(f)}
<1>1. s \in Seq(Threads)
  BY ThreadsAtType
<1>2. /\ DOMAIN f = 1..Len(f) /\ DOMAIN s = DOMAIN f /\ DOMAIN s = 1..Len(s)
      /\ \A i \in DOMAIN f : f[i] \in DOMAIN arbiter_threads /\ s[i] = arbiter_threads[f[i]]
      /\ DOMAIN arbiter_threads = 1..Len(arbiter_threads)
  BY <1>1, LenProperties, ElementOfSeq DEF ThreadsAt
<1>3. NoDuplicates(s)
  BY <1>2 DEF NoDuplicates
<1>4. ToSet(s) = {arbiter_threads[k] : k \in ToSet(f)}
  BY <1>2 DEF ToSet
<1> QED
  BY <1>1, <1>3, <1>4

\* Two lists, one after the other.
Joined(r, a, b) == r = a \o b
LEMMA ConcatFacts ==
  ASSUME NEW S, NEW a \in Seq(S), NEW b \in Seq(S), NoDuplicates(a), NoDuplicates(b),
         \A x \in ToSet(a) : x \notin ToSet(b), NEW r, Joined(r, a, b)
  PROVE  r \in Seq(S) /\ NoDuplicates(r) /\ ToSet(r) = ToSet(a) \cup ToSet(b)
<1>1. /\ r \in Seq(S) /\ Len(r) = Len(a) + Len(b) /\ Len(a) \in Nat /\ Len(b) \in Nat
      /\ DOMAIN a = 1..Len(a) /\ DOMAIN b = 1..Len(b) /\ DOMAIN r = 1..Len(r)
      /\ \A i \in 1..Len(r) : r[i] = IF i <= Len(a) THEN a[i] ELSE b[i - Len(a)]
  BY ConcatProperties, LenProperties DEF Joined
<1>2. \A i \in 1..Len(r) : \/ i \in DOMAIN a /\ i <= Len(a) /\ r[i] = a[i]
                           \/ i - Len(a) \in DOMAIN b /\ i > Len(a) /\ r[i] = b[i - Len(a)]
  BY <1>1
<1>3. (\A i \in DOMAIN a : i \in DOMAIN r /\ r[i] = a[i]) /\ \A k \in DOMAIN b : k + Len(a) \in DOMAIN r /\ r[k + Len(a)] = b[k]
  BY <1>1
<1>6. /\ \A x : x \in ToSet(a) <=> \E i \in DOMAIN a : a[i] = x
      /\ \A x : x \in ToSet(b) <=> \E i \in DOMAIN b : b[i] = x
      /\ \A x : x \in ToSet(r) <=> \E i \in DOMAIN r : r[i] = x
  BY DEF ToSet
<1>4. ToSet(r) = ToSet(a) \cup ToSet(b)
  <2>1. ASSUME NEW x \in ToSet(r) PROVE x \in ToSet(a) \cup ToSet(b)
    BY <1>1, <1>2, <1>6, <2>1
  <2>2. ASSUME NEW x \in ToSet(a) \cup ToSet(b) PROVE x \in ToSet(r)
    <3>1. CASE x \in ToSet(a)
      BY <1>3, <1>6, <3>1
    <3>2. CASE x \in ToSet(b)
      <4>1. PICK k \in DOMAIN b : b[k] = x
        BY <1>6, <3>2
      <4> QED
        BY <1>3, <1>6, <4>1
    <3> QED
      BY <2>2, <3>1, <3>2
  <2> QED
    BY <2>1, <2>2
<1>5. ASSUME NEW i \in 1..Len(r), NEW j \in 1..Len(r), r[i] = r[j] PROVE i = j
  <2>1. CASE i <= Len(a) /\ j <= Len(a)
    BY <1>1, <1>2, <1>5, <2>1 DEF NoDuplicates
  <2>2. CASE i > Len(a) /\ j > Len(a)
    <3>1. i - Len(a) \in DOMAIN b /\ j - Len(a) \in DOMAIN b /\ b[i - Len(a)] = b[j - Len(a)]
      BY <1>1, <1>2, <1>5, <2>2
    <3>2. i - Len(a) = j - Len(a)
      BY <1>1, <3>1 DEF NoDuplicates
    <3> QED
      BY <1>1, <3>2
  <2>3. CASE i <= Len(a) /\ j > Len(a)
    <3>1. i \in DOMAIN a /\ r[i] = a[i] /\ j - Len(a) \in DOMAIN b /\ r[j] = b[j - Len(a)]
      BY <1>1, <1>2, <2>3
    <3>2. r[i] \in ToSet(a) /\ r[j] \in ToSet(b)
      BY <1>6, <3>1
    <3> QED
      BY <1>5, <3>2
  <2>4. CASE i > Len(a) /\ j <= Len(a)
    <3>1. j \in DOMAIN a /\ r[j] = a[j] /\ i - Len(a) \in DOMAIN b /\ r[i] = b[i - Len(a)]
      BY <1>1, <1>2, <2>4
    <3>2. r[j] \in ToSet(a) /\ r[i] \in ToSet(b)
      BY <1>6, <3>1
    <3> QED
      BY <1>5, <3>2
  <2> QED
    BY <1>1, <2>1, <2>2, <2>3, <2>4
<1> QED
  BY <1>1, <1>4, <1>5 DEF NoDuplicates

\* The threads S leave the list, and the calls `new' resume them.
TakesOut(new, S) ==
  /\ IsTodo(new) /\ Return(new)
  /\ NoDuplicates(arbiter_threads') /\ ToSet(arbiter_threads') = ToSet(arbiter_threads) \ S
  /\ S \subseteq ToSet(arbiter_threads)
  /\ \A i \in DOMAIN new : \E t \in S : new[i] = Kept(t)
  /\ \A t \in S : Has(new, Kept(t))

\* A place of the list is that of one thread.
LEMMA PlaceFacts ==
  ASSUME arbiter_threads \in Seq(Threads), NoDuplicates(arbiter_threads)
  PROVE  /\ \A i, j \in DOMAIN arbiter_threads : arbiter_threads[i] = arbiter_threads[j] => i = j
         /\ ToSet(arbiter_threads) = {arbiter_threads[k] : k \in DOMAIN arbiter_threads}
         /\ \A i \in DOMAIN arbiter_threads : arbiter_threads[i] \in Threads
BY LenProperties, ElementOfSeq DEF NoDuplicates, ToSet

\* ResumeAllThreads takes out those that wait on the address.
LEMMA AllTaken ==
  ASSUME IInv, NoDuplicates(arbiter_threads), NEW a \in Addresses, ResumeAllThreads(a)
  PROVE  \E new : \E S \in SUBSET Threads : TakesOut(new, S)
<1>1. arbiter_threads \in Seq(Threads)
  BY DEF IInv, CallInv, OtherTypes
<1>2. PICK found, rest, new :
        /\ found \in InOrder(Matches(a)) /\ rest \in InOrder(Others(a))
        /\ arbiter_threads' = ThreadsAt(rest)
        /\ new = [i \in DOMAIN found |-> Call("ResumeFromWait", arbiter_threads[found[i]], "keep")]
        /\ IsTodo(new) /\ Return(new)
  BY ResumeAllCalls
<1>3. Matches(a) \in SUBSET DOMAIN arbiter_threads /\ Others(a) \in SUBSET DOMAIN arbiter_threads
  BY DEF Matches, Others
<1>4. /\ found \in Seq(DOMAIN arbiter_threads) /\ NoDuplicates(found) /\ ToSet(found) = Matches(a)
      /\ rest \in Seq(DOMAIN arbiter_threads) /\ NoDuplicates(rest) /\ ToSet(rest) = Others(a)
  BY <1>1, <1>2, <1>3, PlacesFacts
<1>5. PICK S : S = {arbiter_threads[k] : k \in Matches(a)}
  OBVIOUS
<1>6. PICK s : s = arbiter_threads'
  OBVIOUS
<1>7. NoDuplicates(s) /\ ToSet(s) = {arbiter_threads[k] : k \in Others(a)}
  BY <1>1, <1>2, <1>4, <1>6, ThreadsAtFacts
<1>8. S \subseteq ToSet(arbiter_threads) /\ S \in SUBSET Threads
  BY <1>1, <1>3, <1>5, PlaceFacts
<1>9. ToSet(s) = ToSet(arbiter_threads) \ S
  BY <1>1, <1>3, <1>5, <1>7, PlaceFacts DEF Others
<1>10. DOMAIN new = DOMAIN found /\ \A i \in DOMAIN found : new[i] = Kept(arbiter_threads[found[i]])
  BY <1>2 DEF Kept
<1>11. \A i \in DOMAIN new : \E t \in S : new[i] = Kept(t)
  BY <1>4, <1>5, <1>10 DEF ToSet
<1>12. \A t \in S : Has(new, Kept(t))
  BY <1>4, <1>5, <1>10 DEF ToSet, Has
<1> QED
  BY <1>2, <1>6, <1>7, <1>8, <1>9, <1>11, <1>12 DEF TakesOut

\* ResumeHighestPriorityThread takes out one of them, if there is one.
LEMMA HighestTaken ==
  ASSUME IInv, NoDuplicates(arbiter_threads), NEW a \in Addresses, ResumeHighestPriorityThread(a)
  PROVE  \E new : \E S \in SUBSET Threads : TakesOut(new, S)
<1>1. arbiter_threads \in Seq(Threads) /\ "ResumeFromWait" \in OpCalls
  BY DEF IInv, CallInv, OtherTypes, OpCalls
<1>2. PICK found \in InOrder(Matches(a)), rest \in InOrder(Others(a)) :
         \/ \E i \in DOMAIN found :
              /\ arbiter_threads' = ThreadsAt(rest) \o ThreadsAt(Without(found, found[i]))
              /\ Return(<<Call("ResumeFromWait", arbiter_threads[found[i]], "keep")>>)
         \/ UNCHANGED arbiter_threads /\ Return(<<>>)
  BY ZenonT(40) DEF ResumeHighestPriorityThread
<1>3. Matches(a) \in SUBSET DOMAIN arbiter_threads /\ Others(a) \in SUBSET DOMAIN arbiter_threads
  BY DEF Matches, Others
<1>4. /\ found \in Seq(DOMAIN arbiter_threads) /\ NoDuplicates(found) /\ ToSet(found) = Matches(a)
      /\ rest \in Seq(DOMAIN arbiter_threads) /\ NoDuplicates(rest) /\ ToSet(rest) = Others(a)
  BY <1>1, <1>2, <1>3, PlacesFacts
<1>5. CASE UNCHANGED arbiter_threads /\ Return(<<>>)
  <2>1. IsTodo(<<>>) /\ DOMAIN <<>> = {}
    BY TodoNone
  <2>2. TakesOut(<<>>, {})
    BY <1>5, <2>1 DEF TakesOut
  <2> QED
    BY <2>2
<1>6. ASSUME NEW i \in DOMAIN found,
             arbiter_threads' = ThreadsAt(rest) \o ThreadsAt(Without(found, found[i])),
             Return(<<Call("ResumeFromWait", arbiter_threads[found[i]], "keep")>>)
      PROVE  \E new : \E S \in SUBSET Threads : TakesOut(new, S)
  <2>1. PICK g : g = Without(found, found[i])
    OBVIOUS
  <2>2. /\ g \in Seq(DOMAIN arbiter_threads) /\ NoDuplicates(g) /\ ToSet(g) = Matches(a) \ {found[i]}
        /\ found[i] \in Matches(a)
    <3>1. found[i] \in ToSet(found)
      BY DEF ToSet
    <3> QED
      BY <1>4, <2>1, <3>1, WithoutFacts
  <2>3. PICK p, q, s : p = ThreadsAt(rest) /\ q = ThreadsAt(g) /\ s = arbiter_threads'
    OBVIOUS
  <2>4. /\ p \in Seq(Threads) /\ NoDuplicates(p) /\ ToSet(p) = {arbiter_threads[k] : k \in Others(a)}
        /\ q \in Seq(Threads) /\ NoDuplicates(q) /\ ToSet(q) = {arbiter_threads[k] : k \in Matches(a) \ {found[i]}}
    BY <1>1, <1>4, <2>2, <2>3, ThreadsAtFacts
  <2>5. \A x \in ToSet(p) : x \notin ToSet(q)
    BY <1>1, <1>3, <2>4, PlaceFacts DEF Others
  <2>6. Joined(s, p, q)
    BY <1>6, <2>1, <2>3 DEF Joined
  <2>7. NoDuplicates(s) /\ ToSet(s) = ToSet(p) \cup ToSet(q)
    <3>1. p \in Seq(Threads) /\ q \in Seq(Threads) /\ NoDuplicates(p) /\ NoDuplicates(q)
      BY <2>4
    <3> QED
      BY <2>5, <2>6, <3>1, ConcatFacts
  <2>8. PICK u \in Threads : u = arbiter_threads[found[i]] /\ u \in ToSet(arbiter_threads)
    BY <1>1, <1>3, <2>2, PlaceFacts
  <2>9. ToSet(s) = ToSet(arbiter_threads) \ {u}
    BY <1>1, <1>3, <2>2, <2>4, <2>7, <2>8, PlaceFacts DEF Others
  <2>10. PICK new : new = <<Call("ResumeFromWait", u, "keep")>>
    OBVIOUS
  <2>11. IsTodo(new) /\ DOMAIN new = {1} /\ new[1] = Kept(u) /\ Return(new)
    BY <1>1, <1>6, <2>8, <2>10, OneFacts DEF Kept
  <2>12. Has(new, Kept(u)) /\ \A k \in DOMAIN new : new[k] = Kept(u)
    BY <2>11 DEF Has
  <2>13. TakesOut(new, {u})
    BY <2>3, <2>7, <2>8, <2>9, <2>11, <2>12 DEF TakesOut
  <2> QED
    BY <2>13
<1> QED
  BY <1>2, <1>5, <1>6

-----------------------------------------------------------------------------
\* Where the calls that end a wait come from.

\* The call on top of the stack is the one that is made.
LEMMA HeadStep ==
  ASSUME IInv, Step, todo # <<>>
  PROVE  /\ Head(todo)[1] = "ResumeFromWait" => \E u \in Threads : ResumeFromWait(u) /\ UNCHANGED arbiter_threads
         /\ Head(todo)[1] \in {"ResumeAllThreads", "ResumeHighestPriorityThread"} =>
              \E a \in Addresses : ResumeAllThreads(a) \/ ResumeHighestPriorityThread(a)
         /\ Head(todo)[1] = "WakeUp" => \E u \in Threads : (SyncWakeUp(u) /\ UNCHANGED arbiter_threads) \/ ArbiterWakeUp(u)
<1>1. CASE ObjectCall
  BY <1>1, ZenonT(40) DEF ObjectCall, AcquireMutex, AcquireSemaphore, AcquireSignal, AcquireThread, AddWaitingThread,
     RemoveWaitingThread, WakeupNext, WakeupDone, SyncWakeUp, ResumeFromWait, Calling, arbiterVars
<1>2. CASE ArbiterCall
  BY <1>2 DEF ArbiterCall, ResumeAllThreads, ResumeHighestPriorityThread, ArbiterWakeUp, Calling
<1>3. CASE KernelCall
  BY <1>3 DEF KernelCall, Stop, MutexesReleased, UpdatedPending, ReleaseThreadMutexes, UpdatePending,
     TerminateNext, TerminateCurrent, Rearm, Calling
<1> QED
  BY <1>1, <1>2, <1>3, BusyStep

\* An object has ended the wait of t; its time is up; its sleep is over; the
\* arbiter has taken it out of its list.
Notices == {"WakeUp", "ResumeFromWait"}
WokenBy(t, o, call) ==
  /\ WakeupNext(o) /\ Waiting(t, o) /\ Has(todo', Resumed(t))
  /\ call \in {Call("WakeUp", t, o), Resumed(t)}
TimedOut(t, c, call) ==
  /\ ThreadWakeupCallback(c, t) /\ status[t] \in Synching \cup {"WaitArb"} /\ Has(todo', Resumed(t))
  /\ call \in {Call("WakeUp", t, "Timeout"), Resumed(t)}
Elapsed(t, c, call) ==
  ThreadWakeupCallback(c, t) /\ status[t] \notin Synching \cup {"WaitArb"} /\ call = Kept(t)
TakenOut(t, a, call) ==
  /\ ResumeAllThreads(a) \/ ResumeHighestPriorityThread(a)
  /\ t \in ToSet(arbiter_threads) /\ t \notin ToSet(arbiter_threads') /\ call = Kept(t)

\* The calls of WakeupAllWaitingThreads.
LEMMA WokenCalls ==
  ASSUME IInv, NEW o \in Objects, WakeupNext(o), NEW i \in DOMAIN todo', todo'[i][1] \in Notices
  PROVE  Has(todo, todo'[i]) \/ \E t \in Threads : WokenBy(t, o, todo'[i])
<1>1. PICK t \in Threads, acquired \in Seq(Objects) : \E new :
         /\ Waiting(t, o) /\ new = ForEach("Acquire", t, acquired) \o EndWait(t, o)
         /\ IsTodo(new) /\ todo' = new \o todo
  BY WakeupNextCalls
<1>2. PICK new : /\ Waiting(t, o) /\ new = ForEach("Acquire", t, acquired) \o EndWait(t, o)
                 /\ IsTodo(new) /\ todo' = new \o todo
  BY <1>1
<1>3. PICK r, f, e : r = todo' /\ f = ForEach("Acquire", t, acquired) /\ e = EndWait(t, o)
  OBVIOUS
<1>4. IsTodo(todo) /\ IsTodo(f) /\ IsTodo(e) /\ Has(e, Resumed(t)) /\ e[1] = Call("WakeUp", t, o)
  BY <1>3, ListTypes, ForEachFacts, EndWaitFacts DEF OpCalls
<1>5. \A k \in DOMAIN f : f[k][1] = "Acquire"
  BY <1>3, ForEachFacts DEF OpCalls
<1>6. \A k \in DOMAIN e : k = 1 \/ e[k] = Resumed(t) \/ \E x \in ToSet(wait_objects[t]) : e[k] = Leave(t, x)
  BY <1>3, EndWaitFacts
<1>7. \A k \in DOMAIN e : e[k][1] \in Notices => e[k] \in {Call("WakeUp", t, o), Resumed(t)}
  <2>1. \A x : Leave(t, x)[1] \notin Notices
    BY DEF Leave, Call, Notices
  <2> QED
    BY <1>4, <1>6, <2>1
<1>8. new = f \o e /\ r = new \o todo
  BY <1>2, <1>3
<1>9. \A k \in DOMAIN new : new[k][1] \in Notices => new[k] \in {Call("WakeUp", t, o), Resumed(t)}
  <2>1. Stacked(new, f, e)
    BY <1>4, <1>8, StackConcat
  <2>2. ASSUME NEW k \in DOMAIN new, new[k][1] \in Notices PROVE new[k] \in {Call("WakeUp", t, o), Resumed(t)}
    <3>1. \/ k \in DOMAIN f /\ new[k] = f[k]
          \/ \E j \in DOMAIN e : new[k] = e[j] /\ k = j + Len(f)
      BY <2>1, <2>2 DEF Stacked
    <3>2. ~(k \in DOMAIN f /\ new[k] = f[k])
      BY <1>5, <2>2 DEF Notices
    <3> QED
      BY <1>7, <2>2, <3>1, <3>2
  <2> QED
    BY <2>2
<1>10. Has(r, Resumed(t))
  BY <1>2, <1>4, <1>8, HasConcat
<1>11. \/ i \in DOMAIN new /\ r[i] = new[i]
       \/ \E k \in DOMAIN todo : r[i] = todo[k]
  <2>1. Stacked(r, new, todo)
    BY <1>2, <1>4, <1>8, StackConcat
  <2> QED
    BY <1>3, <2>1 DEF Stacked
<1>12. CASE i \in DOMAIN new /\ r[i] = new[i]
  BY <1>2, <1>3, <1>9, <1>10, <1>12 DEF WokenBy
<1> QED
  BY <1>3, <1>11, <1>12 DEF Has

\* The calls of ThreadWakeupCallback.
LEMMA TimeoutCalls ==
  ASSUME IInv, NEW c \in Cores, NEW t \in Threads, ThreadWakeupCallback(c, t),
         NEW i \in DOMAIN todo', todo'[i][1] \in Notices
  PROVE  TimedOut(t, c, todo'[i]) \/ Elapsed(t, c, todo'[i])
<1>0. PICK r : r = todo'
  OBVIOUS
<1>1. CASE status[t] \in Synching \cup {"WaitArb"}
  <2>1. r = EndWait(t, "Timeout")
    BY <1>0, <1>1 DEF ThreadWakeupCallback, Synching
  <2>2. /\ Has(r, Resumed(t)) /\ r[1] = Call("WakeUp", t, "Timeout")
        /\ \A k \in DOMAIN r : k = 1 \/ r[k] = Resumed(t) \/ \E x \in ToSet(wait_objects[t]) : r[k] = Leave(t, x)
    BY <2>1, EndWaitFacts
  <2>3. r[i] \in {Call("WakeUp", t, "Timeout"), Resumed(t)}
    BY <1>0, <2>2 DEF Leave, Call, Notices
  <2> QED
    BY <1>0, <1>1, <2>2, <2>3 DEF TimedOut
<1>2. CASE status[t] \notin Synching \cup {"WaitArb"}
  <2>1. r = <<Call("ResumeFromWait", t, "keep")>> /\ "ResumeFromWait" \in OpCalls
    BY <1>0, <1>2 DEF ThreadWakeupCallback, Synching, OpCalls
  <2>2. r[i] = Kept(t)
    BY <1>0, <2>1, OneFacts DEF Kept
  <2> QED
    BY <1>0, <1>2, <2>2 DEF Elapsed
<1> QED
  BY <1>1, <1>2

\* The calls of the arbiter.
LEMMA ArbiterCalls ==
  ASSUME IInv, NoDuplicates(arbiter_threads), NEW a \in Addresses,
         ResumeAllThreads(a) \/ ResumeHighestPriorityThread(a),
         NEW i \in DOMAIN todo'
  PROVE  Has(todo, todo'[i]) \/ \E t \in Threads : TakenOut(t, a, todo'[i])
<1>1. PICK new : \E S \in SUBSET Threads : TakesOut(new, S)
  BY AllTaken, HighestTaken
<1>2. PICK S \in SUBSET Threads : TakesOut(new, S)
  BY <1>1
<1>3. IsTodo(todo) /\ todo # <<>>
  BY ListTypes DEF ResumeAllThreads, ResumeHighestPriorityThread, Calling
<1>4. PICK r, d : r = todo' /\ d = Tail(todo)
  OBVIOUS
<1>5. IsTodo(d) /\ \A x : Has(d, x) => Has(todo, x)
  BY <1>3, <1>4, StackTail DEF Popped
<1>6. IsTodo(new) /\ r = new \o d
  BY <1>2, <1>4 DEF TakesOut, Return
<1>7. Stacked(r, new, d)
  BY <1>5, <1>6, StackConcat
<1>8. (i \in DOMAIN new /\ r[i] = new[i]) \/ Has(d, r[i])
  BY <1>4, <1>7 DEF Stacked, Has
<1>9. CASE i \in DOMAIN new /\ r[i] = new[i]
  <2>1. PICK t \in S : new[i] = Kept(t)
    BY <1>2, <1>9 DEF TakesOut
  <2>2. t \in ToSet(arbiter_threads) /\ t \notin ToSet(arbiter_threads')
    BY <1>2, <2>1 DEF TakesOut
  <2> QED
    BY <1>4, <1>9, <2>1, <2>2 DEF TakenOut
<1> QED
  BY <1>4, <1>5, <1>8, <1>9

\* Nothing else makes such calls.
LEMMA NoticesFrom ==
  ASSUME IInv, Step, NoDuplicates(arbiter_threads), NEW i \in DOMAIN todo', todo'[i][1] \in Notices
  PROVE  \/ Has(todo, todo'[i])
         \/ \E t \in Threads, o \in Objects : WokenBy(t, o, todo'[i])
         \/ \E t \in Threads, c \in Cores : TimedOut(t, c, todo'[i]) \/ Elapsed(t, c, todo'[i])
         \/ \E t \in Threads, a \in Addresses : TakenOut(t, a, todo'[i])
<1>1. CASE todo' = todo
  BY <1>1 DEF Has
<1>2. ASSUME NEW S, Makes(S) \/ Pushes(S) \/ Returns(S), todo'[i][1] \notin S PROVE Has(todo, todo'[i])
  BY <1>2, CallsFrom
<1>3. CASE Returns({})
  BY <1>2, <1>3
<1>4. CASE Begins
  <2>1. todo'[i][1] \notin Begun
    BY DEF Begun, Notices
  <2> QED
    BY <1>2, <1>4, <2>1 DEF Begins
<1>5. ASSUME NEW t \in Threads, Stop(t) PROVE Has(todo, todo'[i])
  <2>1. todo'[i][1] \notin {"WakeupAllWaitingThreads", "RemoveWaitingThread", "ReleaseThreadMutexes"}
    BY DEF Notices
  <2> QED
    BY <1>2, <1>5, <2>1, StopOps
<1>6. ASSUME NEW t \in Threads, Takes(t) PROVE FALSE
  <2>1. PICK one \in Seq(Objects) : todo' = ForEach("Acquire", t, one)
    BY <1>6 DEF Takes, Take
  <2>2. PICK r : r = todo'
    OBVIOUS
  <2>3. r[i][1] = "Acquire"
    BY <2>1, <2>2, ForEachFacts DEF OpCalls
  <2> QED
    BY <2>2, <2>3 DEF Notices
<1>7. ASSUME NEW t \in Threads, ArbiterSvc(t) PROVE Has(todo, todo'[i])
  <2>1. todo'[i][1] \notin {"ResumeAllThreads"} /\ todo'[i][1] \notin {"ResumeHighestPriorityThread"}
    BY DEF Notices
  <2> QED
    BY <1>2, <1>7, <2>1, ArbiterSvcOps
<1> QED
  BY <1>1, <1>3, <1>4, <1>5, <1>6, <1>7, StepKinds, WokenCalls, TimeoutCalls, ArbiterCalls

-----------------------------------------------------------------------------
\* Threads that are told and resumed.

\* A thread that an object wakes waits for objects.
LEMMA WokenFacts ==
  ASSUME IInv, WaitInv, Ordered(todo), SelfOK, NEW t \in Threads, NEW o \in Objects, NEW call, WokenBy(t, o, call)
  PROVE  status[t] \in Synching /\ status'[t] = status[t]
<1>1. /\ todo # <<>> /\ Head(todo)[1] = "WakeupAllWaitingThreads" /\ Head(todo)[2] = o
      /\ Waiting(t, o) /\ status' = status
  BY DEF WokenBy, WakeupNext, Calling, threadVars
<1> QED
  BY <1>1, WaitersHere

\* A thread whose time is up has an event.
LEMMA TimeoutFacts ==
  ASSUME IInv, NEW t \in Threads, NEW c \in Cores, ThreadWakeupCallback(c, t)
  PROVE  ~NoEvent(t) /\ todo = <<>> /\ UNCHANGED <<status, wakeup_callback, arbiter_threads>>
<1>1. events[c][t] > 0 /\ events[c][t] \in Nat
  BY DEF ThreadWakeupCallback, IInv, CallInv, ThreadTypes, Sources
<1>2. events[c][t] # 0
  BY <1>1
<1> QED
  BY <1>2 DEF NoEvent, ThreadWakeupCallback, Advancing, AtRest, threadVars, arbiterVars

\* A thread that is told is resumed thereafter.
LEMMA StepTell ==
  ASSUME IInv, WaitInv, Ordered(todo), SelfOK, CallbackOK, NoDuplicates(arbiter_threads), TellOK, Step
  PROVE  TellOK'
<1>0. IsTodo(todo) /\ status \in [Threads -> Statuses]
  BY ListTypes
<1>1. ASSUME NEW i \in DOMAIN todo', todo'[i][1] = "WakeUp"
      PROVE  \E t \in Threads, x \in Objects \cup {"Timeout"} :
               /\ todo'[i] = Call("WakeUp", t, x) /\ Has(todo', Resumed(t))
               /\ status'[t] = "WaitArb" => x = "Timeout" /\ wakeup_callback'[t] = "ArbiterCallback"
  <2>1. CASE Has(todo, todo'[i])
    <3>1. PICK k \in DOMAIN todo : todo[k] = todo'[i] /\ todo # <<>>
      BY <2>1 DEF Has
    <3>2. PICK t \in Threads, x \in Objects \cup {"Timeout"} :
            /\ todo'[i] = Call("WakeUp", t, x) /\ Has(todo, Resumed(t))
            /\ status[t] = "WaitArb" => x = "Timeout" /\ wakeup_callback[t] = "ArbiterCallback"
      BY <1>1, <3>1 DEF TellOK
    <3>3. Head(todo)[1] \in {"Acquire", "WakeUp"}
      BY <1>0, <1>1, <3>1, TopFacts DEF WaitInv
    <3>4. Head(todo) # Resumed(t)
      BY <3>3 DEF Resumed, Call
    <3>5. Has(todo', Resumed(t))
      BY <3>2, <3>4, StepStack
    <3>6. ASSUME status'[t] = "WaitArb" PROVE x = "Timeout" /\ wakeup_callback'[t] = "ArbiterCallback"
      <4>1. ~Arbitrating(t)
        BY <3>1 DEF Arbitrating, ArbitrateWait, Executes, Executing, AtRest
      <4>2. status[t] = "WaitArb" /\ Unmoved(t)
        BY <3>6, <4>1, WaitArbStep
      <4> QED
        BY <3>2, <4>2 DEF Unmoved
    <3> QED
      BY <3>2, <3>5, <3>6
  <2>2. ASSUME NEW t \in Threads, NEW o \in Objects, WokenBy(t, o, todo'[i])
        PROVE  /\ todo'[i] = Call("WakeUp", t, o) /\ Has(todo', Resumed(t)) /\ status'[t] # "WaitArb"
    <3>1. status'[t] # "WaitArb"
      BY <2>2, WokenFacts DEF Synching
    <3>2. todo'[i] = Call("WakeUp", t, o) /\ Has(todo', Resumed(t))
      BY <1>1, <2>2 DEF WokenBy, Resumed, Call
    <3> QED
      BY <3>1, <3>2
  <2>3. ASSUME NEW t \in Threads, NEW c \in Cores, TimedOut(t, c, todo'[i])
        PROVE  /\ todo'[i] = Call("WakeUp", t, "Timeout") /\ Has(todo', Resumed(t))
               /\ status'[t] = "WaitArb" => wakeup_callback'[t] = "ArbiterCallback"
    <3>1. todo'[i] = Call("WakeUp", t, "Timeout") /\ Has(todo', Resumed(t))
      BY <1>1, <2>3 DEF TimedOut, Resumed, Call
    <3>2. ~NoEvent(t) /\ UNCHANGED <<status, wakeup_callback>>
      BY <2>3, TimeoutFacts DEF TimedOut
    <3> QED
      BY <3>1, <3>2 DEF CallbackOK
  <2>4. ASSUME NEW t, todo'[i] = Kept(t) PROVE FALSE
    BY <1>1, <2>4 DEF Kept, Call
  <2>5. todo'[i][1] \in Notices
    BY <1>1 DEF Notices
  <2> QED
    BY <2>1, <2>2, <2>3, <2>4, <2>5, NoticesFrom DEF Elapsed, TakenOut
<1> QED
  BY <1>1 DEF TellOK

\* A thread that is to be resumed after a wait still sleeps.
LEMMA StepResumed ==
  ASSUME IInv, WaitInv, Ordered(todo), SelfOK, NoDuplicates(arbiter_threads), ResumeOK, Step,
         NEW t \in Threads, Has(todo', Resumed(t))
  PROVE  status'[t] \in Synching \cup {"WaitArb"}
<1>0. IsTodo(todo) /\ status \in [Threads -> Statuses]
  BY ListTypes
<1>1. CASE Has(todo, Resumed(t))
  <2>1. PICK k \in DOMAIN todo : todo[k] = Resumed(t)
    BY <1>1 DEF Has
  <2>2. status[t] \in Synching \cup {"WaitArb"} /\ todo # <<>> /\ Clears(todo[k])
    BY <1>1, <2>1 DEF ResumeOK, Has, Resumed, Call, Clears
  <2>3. Head(todo) = Resumed(t) \/ Head(todo)[1] \in Ending
    BY <1>0, <2>1, <2>2, HeadFits DEF Fits
  <2>4. Head(todo)[1] \in Ending
    <3>1. SUFFICES ASSUME Head(todo) = Resumed(t), Head(todo)[1] \notin Ending PROVE FALSE
      BY <2>3
    <3>2. Head(todo)[1] = "ResumeFromWait"
      BY <3>1 DEF Resumed, Call
    <3>3. PICK u \in Threads : ResumeFromWait(u)
      BY <2>2, <3>2, HeadStep
    <3>4. Return(<<>>)
      BY <3>3 DEF ResumeFromWait
    <3>5. PICK j \in DOMAIN todo' : todo'[j] = Resumed(t)
      BY DEF Has
    <3>6. j + 1 \in DOMAIN todo /\ todo[j + 1] = Resumed(t) /\ j \in Nat /\ 1 \in DOMAIN todo /\ Head(todo) = todo[1]
      <4>1. todo' = Tail(todo) /\ Popped(todo', todo)
        BY <1>0, <2>2, <3>4, PopFacts
      <4> QED
        BY <3>5, <4>1 DEF Popped
    <3>7. 1 < j + 1 \/ j = 0
      BY <3>6
    <3>8. j # 0
      BY <1>0, <2>2, <3>4, <3>5, PopFacts, LenProperties DEF IsTodo, Popped
    <3>9. Fits(todo[1], todo[j + 1])
      BY <3>6, <3>7, <3>8 DEF Ordered
    <3> QED
      BY <3>1, <3>6, <3>9 DEF Fits, Clears, Resumed, Call
  <2>5. ~Scheduling(t)
    BY <2>2 DEF Scheduling, Synching
  <2>6. ~Stop(t) /\ ~ResumeFromWait(t)
    BY <2>4 DEF Stop, ResumeFromWait, Calling, Ending
  <2>7. ~Sleeps(t) /\ ~Arbitrating(t) /\ ~ \E delay \in program.delays : SleepThread(t, delay)
    BY <2>2 DEF Sleeps, Arbitrating, ArbitrateWait, SleepThread, Executes, Executing, AtRest
  <2>8. Unmoved(t)
    BY <2>5, <2>6, <2>7, ThreadSteps DEF ThreadStep
  <2> QED
    BY <2>2, <2>8 DEF Unmoved
<1>2. CASE ~Has(todo, Resumed(t))
  <2>1. PICK i \in DOMAIN todo' : todo'[i] = Resumed(t)
    BY DEF Has
  <2>2. todo'[i][1] \in Notices
    BY <2>1 DEF Resumed, Call, Notices
  <2>3. ASSUME NEW u, Resumed(t) = Kept(u) PROVE FALSE
    BY <2>3 DEF Kept, Resumed, Call
  <2>4. ASSUME NEW u \in Threads, NEW o \in Objects, WokenBy(u, o, todo'[i]) PROVE status'[t] \in Synching
    <3>1. u = t
      BY <2>1, <2>4 DEF WokenBy, Resumed, Call
    <3> QED
      BY <2>4, <3>1, WokenFacts
  <2>5. ASSUME NEW u \in Threads, NEW c \in Cores, TimedOut(u, c, todo'[i])
        PROVE  status'[t] \in Synching \cup {"WaitArb"}
    <3>1. u = t
      BY <2>1, <2>5 DEF TimedOut, Resumed, Call
    <3> QED
      BY <2>5, <3>1, TimeoutFacts DEF TimedOut
  <2> QED
    BY <1>2, <2>1, <2>2, <2>3, <2>4, <2>5, NoticesFrom DEF Elapsed, TakenOut
<1> QED
  BY <1>1, <1>2

\* A thread that the arbiter resumes, or whose sleep is over, is in no list of the
\* arbiter's.
LEMMA StepKept ==
  ASSUME IInv, LifeInv, Ordered(todo), ResumeOK, ArbiterOK, Step, NEW i \in DOMAIN todo', Keeps(todo'[i])
  PROVE  \E t \in Threads : /\ todo'[i] = Kept(t) /\ t \notin ToSet(arbiter_threads')
                            /\ status'[t] \in {"WaitArb", "WaitSleep", "Ready"}
<1>0. IsTodo(todo) /\ status \in [Threads -> Statuses] /\ NoDuplicates(arbiter_threads)
  BY ListTypes DEF ArbiterOK
<1>1. CASE Has(todo, todo'[i])
  <2>1. PICK k \in DOMAIN todo : todo[k] = todo'[i] /\ todo # <<>>
    BY <1>1 DEF Has
  <2>2. PICK t \in Threads : /\ todo[k] = Kept(t) /\ t \notin ToSet(arbiter_threads)
                             /\ status[t] \in {"WaitArb", "WaitSleep", "Ready"}
    BY <2>1 DEF ResumeOK
  <2>3. Arbitrates(Head(todo))
    BY <1>0, <2>1, HeadFits DEF Fits, Arbitrates
  <2>4. ASSUME NEW u \in Threads, ResumeFromWait(u), UNCHANGED arbiter_threads
        PROVE  t \notin ToSet(arbiter_threads') /\ status'[t] \in {"WaitArb", "WaitSleep", "Ready"}
    BY <1>0, <2>2, <2>4 DEF ResumeFromWait
  <2>5. ASSUME NEW a \in Addresses, ResumeAllThreads(a) \/ ResumeHighestPriorityThread(a)
        PROVE  t \notin ToSet(arbiter_threads') /\ status'[t] \in {"WaitArb", "WaitSleep", "Ready"}
    <3>1. PICK new : \E S \in SUBSET Threads : TakesOut(new, S)
      BY <1>0, <2>5, AllTaken, HighestTaken
    <3>2. ToSet(arbiter_threads') \subseteq ToSet(arbiter_threads)
      BY <3>1 DEF TakesOut
    <3>3. status' = status
      BY <2>5 DEF ResumeAllThreads, ResumeHighestPriorityThread, threadVars
    <3> QED
      BY <2>2, <3>2, <3>3
  <2>6. Head(todo)[1] = "ResumeFromWait" \/ Head(todo)[1] \in {"ResumeAllThreads", "ResumeHighestPriorityThread"}
    BY <2>3 DEF Arbitrates, Keeps
  <2> QED
    BY <2>1, <2>2, <2>4, <2>5, <2>6, HeadStep
<1>2. CASE ~Has(todo, todo'[i])
  <2>1. todo'[i][1] \in Notices /\ todo'[i][1] = "ResumeFromWait" /\ todo'[i][3] # "clear"
    BY DEF Keeps, Notices
  <2>2. ASSUME NEW t, NEW x, todo'[i] \in {Call("WakeUp", t, x), Resumed(t)} PROVE FALSE
    BY <2>1, <2>2 DEF Resumed, Call
  <2>3. ASSUME NEW t \in Threads, NEW c \in Cores, Elapsed(t, c, todo'[i])
        PROVE  /\ todo'[i] = Kept(t) /\ t \notin ToSet(arbiter_threads')
               /\ status'[t] \in {"WaitArb", "WaitSleep", "Ready"}
    <3>1. ~NoEvent(t) /\ UNCHANGED <<status, arbiter_threads>> /\ todo'[i] = Kept(t)
          /\ status[t] \notin Synching \cup {"WaitArb"}
      BY <2>3, TimeoutFacts DEF Elapsed
    <3>2. status[t] \in {"WaitSleep", "Ready"}
      BY <3>1 DEF LifeInv, EventsOK, Waits, Synching
    <3>3. t \notin ToSet(arbiter_threads)
      BY <3>2 DEF ArbiterOK
    <3> QED
      BY <3>1, <3>2, <3>3
  <2>4. ASSUME NEW t \in Threads, NEW a \in Addresses, TakenOut(t, a, todo'[i])
        PROVE  /\ todo'[i] = Kept(t) /\ t \notin ToSet(arbiter_threads')
               /\ status'[t] \in {"WaitArb", "WaitSleep", "Ready"}
    <3>1. /\ todo'[i] = Kept(t) /\ t \notin ToSet(arbiter_threads') /\ t \in ToSet(arbiter_threads)
          /\ status' = status
      BY <2>4 DEF TakenOut, ResumeAllThreads, ResumeHighestPriorityThread, threadVars
    <3> QED
      BY <3>1 DEF ArbiterOK
  <2> QED
    BY <1>0, <1>2, <2>1, <2>2, <2>3, <2>4, NoticesFrom DEF WokenBy, TimedOut
<1> QED
  BY <1>1, <1>2

\* Threads that are to be resumed sleep or are ready.
LEMMA StepResume ==
  ASSUME IInv, WaitInv, LifeInv, Ordered(todo), SelfOK, ResumeOK, ArbiterOK, Step
  PROVE  ResumeOK'
<1>1. NoDuplicates(arbiter_threads)
  BY DEF ArbiterOK
<1>2. ASSUME NEW t \in Threads, Has(todo', Resumed(t)) PROVE status'[t] \in Synching \cup {"WaitArb"}
  BY <1>1, <1>2, StepResumed
<1>3. ASSUME NEW i \in DOMAIN todo', Keeps(todo'[i])
      PROVE  \E t \in Threads : /\ todo'[i] = Kept(t) /\ t \notin ToSet(arbiter_threads')
                                /\ status'[t] \in {"WaitArb", "WaitSleep", "Ready"}
  BY <1>3, StepKept
<1> QED
  BY <1>2, <1>3 DEF ResumeOK, Keeps, Has, Resumed, Kept

-----------------------------------------------------------------------------
\* The arbiter's list.

\* What changes it.
LEMMA ArbiterListStep ==
  ASSUME Step
  PROVE  \/ UNCHANGED arbiter_threads
         \/ \E a \in Addresses : ResumeAllThreads(a) \/ ResumeHighestPriorityThread(a)
         \/ \E t \in Threads : ArbiterWakeUp(t) \/ Arbitrating(t)
<1>1. CASE ObjectCall \/ RunLoop \/ Callback \/ KernelCall
  BY <1>1 DEF ObjectCall, RunLoop, Callback, ThreadWakeupCallback, TimerCallback, KernelCall, Stop,
     MutexesReleased, UpdatedPending, ReleaseThreadMutexes, UpdatePending, TerminateNext, TerminateCurrent, Rearm,
     arbiterVars
<1>2. CASE ArbiterCall
  BY <1>2 DEF ArbiterCall
<1>3. ASSUME NEW t \in Threads, WaitSvc(t) PROVE UNCHANGED arbiter_threads
  BY <1>3 DEF WaitSvc, WaitSynchronization1, WaitSynchronizationAny, WaitSynchronizationAll, Sleep, Take,
     SleepThread, arbiterVars
<1>4. ASSUME NEW t \in Threads, SignalSvc(t) \/ ThreadSvc(t) PROVE UNCHANGED arbiter_threads
  BY <1>4 DEF SignalSvc, ReleaseMutex, ReleaseSemaphore, SignalEvent, Clear, SetTimer, CancelTimer, ThreadSvc,
     SvcCreateThread, SetThreadPriority, ExitThread, TerminateProcess, arbiterVars
<1>5. ASSUME NEW t \in Threads, ArbiterSvc(t) PROVE UNCHANGED arbiter_threads \/ Arbitrating(t)
  BY <1>5 DEF ArbiterSvc, ArbitrateSignal, ArbitrateNoWait, Arbitrating, arbiterVars
<1>6. CASE \E p \in Processes : Run(p)
  BY <1>6 DEF Run, arbiterVars
<1> QED
  BY <1>1, <1>2, <1>3, <1>4, <1>5, <1>6 DEF Step, Svc

\* A thread that begins to sleep on an address is put at the end of the list.
LEMMA ArbitratingFacts ==
  ASSUME Clean, IInv, ArbiterOK, NEW t \in Threads, Arbitrating(t)
  PROVE  /\ todo = <<>> /\ todo' = <<>> /\ status'[t] = "WaitArb"
         /\ NoDuplicates(arbiter_threads') /\ ToSet(arbiter_threads') = ToSet(arbiter_threads) \cup {t}
<1>1. /\ Executes(t) /\ arbiter_threads' = Append(arbiter_threads, t) /\ todo' = todo
      /\ status' = [status EXCEPT ![t] = "WaitArb"]
  BY DEF Arbitrating, ArbitrateWait
<1>2. arbiter_threads \in Seq(Threads) /\ status \in [Threads -> Statuses]
  BY ListTypes DEF IInv, CallInv, OtherTypes
<1>3. status[t] = "Running" /\ todo = <<>>
  BY SleeperRan
<1>4. t \notin ToSet(arbiter_threads) /\ NoDuplicates(arbiter_threads)
  BY <1>3 DEF ArbiterOK
<1> QED
  BY <1>1, <1>2, <1>3, <1>4, AppendFacts

\* A thread whose time is up leaves the list and is resumed.
LEMMA ArbiterWakeUpFacts ==
  ASSUME IInv, ArbiterOK, TellOK, Step, NEW t \in Threads, ArbiterWakeUp(t)
  PROVE  /\ NoDuplicates(arbiter_threads') /\ ToSet(arbiter_threads') = ToSet(arbiter_threads) \ {t}
         /\ Has(todo', Resumed(t)) /\ todo # <<>> /\ Head(todo)[1] = "WakeUp" /\ Head(todo)[2] = t
<1>1. /\ todo # <<>> /\ Head(todo)[1] = "WakeUp" /\ Head(todo)[2] = t
      /\ arbiter_threads' = Without(arbiter_threads, t)
  BY DEF ArbiterWakeUp, Calling
<1>2. arbiter_threads \in Seq(Threads) /\ NoDuplicates(arbiter_threads) /\ IsTodo(todo)
  BY ListTypes DEF IInv, CallInv, OtherTypes, ArbiterOK
<1>3. 1 \in DOMAIN todo /\ Head(todo) = todo[1]
  BY <1>1, <1>2, StackHead
<1>4. PICK u \in Threads, x \in Objects \cup {"Timeout"} : todo[1] = Call("WakeUp", u, x) /\ Has(todo, Resumed(u))
  BY <1>1, <1>3 DEF TellOK
<1>5. u = t /\ Head(todo) # Resumed(t)
  BY <1>1, <1>3, <1>4 DEF Call, Resumed
<1>6. Has(todo', Resumed(t))
  BY <1>4, <1>5, StepStack
<1> QED
  BY <1>1, <1>2, <1>6, WithoutFacts

\* It holds a thread once.
LEMMA StepOnce ==
  ASSUME Clean, IInv, TellOK, ArbiterOK, Step
  PROVE  NoDuplicates(arbiter_threads')
<1>0. NoDuplicates(arbiter_threads)
  BY DEF ArbiterOK
<1>1. ASSUME NEW a \in Addresses, ResumeAllThreads(a) \/ ResumeHighestPriorityThread(a)
      PROVE  NoDuplicates(arbiter_threads')
  BY <1>0, <1>1, AllTaken, HighestTaken DEF TakesOut
<1> QED
  BY <1>0, <1>1, ArbitratingFacts, ArbiterWakeUpFacts, ArbiterListStep

\* A thread in the list goes on sleeping.
LEMMA ListedSleeps ==
  ASSUME Clean, IInv, WaitInv, ResumeOK, ArbiterOK, Step,
         NEW t \in Threads, t \in ToSet(arbiter_threads)
  PROVE  status[t] = "WaitArb" /\ status'[t] = "WaitArb"
<1>0. status[t] = "WaitArb" /\ IsTodo(todo)
  BY ListTypes DEF ArbiterOK
<1>1. ~Scheduling(t)
  BY <1>0 DEF Scheduling
<1>2. ~Stop(t)
  BY <1>0, CleanStop
<1>3. ~ResumeFromWait(t)
  <2>1. SUFFICES ASSUME ResumeFromWait(t) PROVE FALSE
    OBVIOUS
  <2>2. todo # <<>> /\ Head(todo)[1] = "ResumeFromWait" /\ Head(todo)[2] = t
    BY <2>1 DEF ResumeFromWait, Calling
  <2>3. 1 \in DOMAIN todo /\ Head(todo) = todo[1]
    BY <1>0, <2>2, StackHead
  <2>4. CASE Clears(todo[1])
    <3>1. PICK u \in Threads : todo[1] = Resumed(u)
      BY <2>3, <2>4 DEF WaitInv, ResumingOK
    <3>2. Has(todo, Resumed(t))
      BY <2>2, <2>3, <3>1 DEF Has, Resumed, Call
    <3>3. Has(todo, Call("WakeUp", t, "Timeout"))
      BY <3>2 DEF ArbiterOK
    <3>4. \A i \in DOMAIN todo : todo[i][1] # "WakeUp"
      BY <1>0, <2>2, TopFacts DEF WaitInv
    <3> QED
      BY <3>3, <3>4 DEF Has, Call
  <2>5. CASE Keeps(todo[1])
    <3>1. PICK u \in Threads : todo[1] = Kept(u) /\ u \notin ToSet(arbiter_threads)
      BY <2>3, <2>5 DEF ResumeOK
    <3>2. u = t
      BY <2>2, <2>3, <3>1 DEF Kept, Call
    <3> QED
      BY <3>1, <3>2
  <2> QED
    BY <2>2, <2>3, <2>4, <2>5 DEF Clears, Keeps
<1>4. ~Sleeps(t) /\ ~Arbitrating(t) /\ ~ \E delay \in program.delays : SleepThread(t, delay)
  BY <1>0, SleeperRan
<1>5. Unmoved(t)
  BY <1>1, <1>2, <1>3, <1>4, ThreadSteps DEF ThreadStep
<1> QED
  BY <1>0, <1>5 DEF Unmoved

\* A thread that is in the list, and is to be resumed, is first told that its time
\* is up.
LEMMA ListedTold ==
  ASSUME IInv, WaitInv, Ordered(todo), SelfOK, TellOK, ArbiterOK, Step,
         NEW t \in Threads, t \in ToSet(arbiter_threads), t \in ToSet(arbiter_threads'), Has(todo', Resumed(t))
  PROVE  Has(todo', Call("WakeUp", t, "Timeout"))
<1>0. status[t] = "WaitArb" /\ IsTodo(todo) /\ NoDuplicates(arbiter_threads)
  BY ListTypes DEF ArbiterOK
<1>1. CASE Has(todo, Resumed(t))
  <2>1. Has(todo, Call("WakeUp", t, "Timeout"))
    BY <1>1 DEF ArbiterOK
  <2>2. ASSUME Head(todo) = Call("WakeUp", t, "Timeout") PROVE FALSE
    <3>1. todo # <<>> /\ Head(todo)[1] = "WakeUp" /\ Head(todo)[2] = t
      BY <2>1, <2>2 DEF Has, Call
    <3>2. 1 \in DOMAIN todo /\ Head(todo) = todo[1]
      BY <1>0, <3>1, StackHead
    <3>3. wakeup_callback[t] = "ArbiterCallback"
      BY <1>0, <2>2, <3>1, <3>2 DEF TellOK, Call
    <3>4. PICK u \in Threads : (SyncWakeUp(u) /\ UNCHANGED arbiter_threads) \/ ArbiterWakeUp(u)
      BY <3>1, HeadStep
    <3>5. u = t
      BY <3>1, <3>4 DEF SyncWakeUp, ArbiterWakeUp
    <3>6. ArbiterWakeUp(t)
      BY <3>3, <3>4, <3>5 DEF SyncWakeUp
    <3> QED
      BY <3>6, ArbiterWakeUpFacts
  <2> QED
    BY <2>1, <2>2, StepStack
<1>2. CASE ~Has(todo, Resumed(t))
  <2>1. PICK i \in DOMAIN todo' : todo'[i] = Resumed(t)
    BY DEF Has
  <2>2. todo'[i][1] \in Notices
    BY <2>1 DEF Resumed, Call, Notices
  <2>3. ASSUME NEW u, Resumed(t) = Kept(u) PROVE FALSE
    BY <2>3 DEF Kept, Resumed, Call
  <2>4. ASSUME NEW u \in Threads, NEW o \in Objects, WokenBy(u, o, todo'[i]) PROVE FALSE
    <3>1. u = t
      BY <2>1, <2>4 DEF WokenBy, Resumed, Call
    <3> QED
      BY <1>0, <2>4, <3>1, WokenFacts DEF Synching
  <2>5. ASSUME NEW u \in Threads, NEW c \in Cores, TimedOut(u, c, todo'[i])
        PROVE  Has(todo', Call("WakeUp", t, "Timeout"))
    <3>1. u = t
      BY <2>1, <2>5 DEF TimedOut, Resumed, Call
    <3>2. PICK r : r = todo'
      OBVIOUS
    <3>3. r = EndWait(t, "Timeout")
      BY <1>0, <2>5, <3>1, <3>2 DEF TimedOut, ThreadWakeupCallback
    <3>4. 1 \in DOMAIN r /\ r[1] = Call("WakeUp", t, "Timeout")
      BY <3>3, EndWaitFacts
    <3> QED
      BY <3>2, <3>4 DEF Has
  <2> QED
    BY <1>0, <1>2, <2>1, <2>2, <2>3, <2>4, <2>5, NoticesFrom DEF Elapsed, TakenOut
<1> QED
  BY <1>1, <1>2

\* Who sleeps on an address is in the list, or about to be resumed.
LEMMA SleeperListed ==
  ASSUME Clean, IInv, ResumeOK, TellOK, ArbiterOK, Step,
         NEW t \in Threads, status'[t] = "WaitArb"
  PROVE  t \in ToSet(arbiter_threads') \/ Has(todo', Kept(t)) \/ Has(todo', Resumed(t))
<1>0. status \in [Threads -> Statuses] /\ IsTodo(todo) /\ NoDuplicates(arbiter_threads)
  BY ListTypes DEF ArbiterOK
<1>1. CASE Arbitrating(t)
  BY <1>1, ArbitratingFacts
<1>2. ASSUME status[t] = "WaitArb"
      PROVE  t \in ToSet(arbiter_threads') \/ Has(todo', Kept(t)) \/ Has(todo', Resumed(t))
  <2>1. t \in ToSet(arbiter_threads) \/ Has(todo, Kept(t)) \/ Has(todo, Resumed(t))
    BY <1>2 DEF ArbiterOK
  <2>2. CASE t \in ToSet(arbiter_threads)
    <3>1. ASSUME NEW a \in Addresses, ResumeAllThreads(a) \/ ResumeHighestPriorityThread(a)
          PROVE  t \in ToSet(arbiter_threads') \/ Has(todo', Kept(t))
      <4>1. PICK new : \E S \in SUBSET Threads : TakesOut(new, S)
        BY <1>0, <3>1, AllTaken, HighestTaken
      <4>2. PICK S \in SUBSET Threads : TakesOut(new, S)
        BY <4>1
      <4>3. todo # <<>>
        BY <3>1 DEF ResumeAllThreads, ResumeHighestPriorityThread, Calling
      <4>4. CASE t \in S
        <5>1. PICK r, d : r = todo' /\ d = Tail(todo)
          OBVIOUS
        <5>2. IsTodo(d) /\ IsTodo(new) /\ r = new \o d /\ Has(new, Kept(t))
          BY <1>0, <4>2, <4>3, <4>4, <5>1, TodoTail DEF TakesOut, Return
        <5>3. Has(r, Kept(t))
          BY <5>2, HasConcat
        <5> QED
          BY <5>1, <5>3
      <4>5. CASE t \notin S
        BY <2>2, <4>2, <4>5 DEF TakesOut
      <4> QED
        BY <4>4, <4>5
    <3>2. ASSUME NEW u \in Threads, ArbiterWakeUp(u) PROVE t \in ToSet(arbiter_threads') \/ Has(todo', Resumed(t))
      BY <2>2, <3>2, ArbiterWakeUpFacts
    <3>3. ASSUME NEW u \in Threads, Arbitrating(u) PROVE t \in ToSet(arbiter_threads')
      BY <2>2, <3>3, ArbitratingFacts
    <3> QED
      BY <2>1, <2>2, <3>1, <3>2, <3>3, ArbiterListStep
  <2>3. ASSUME NEW x \in {Kept(t), Resumed(t)}, Has(todo, x) PROVE Has(todo', x)
    <3>1. SUFFICES ASSUME Head(todo) = x PROVE FALSE
      BY <2>3, StepStack
    <3>2. todo # <<>> /\ Head(todo)[1] = "ResumeFromWait" /\ Head(todo)[2] = t
      BY <2>3, <3>1 DEF Has, Kept, Resumed, Call
    <3>3. PICK u \in Threads : ResumeFromWait(u)
      BY <3>2, HeadStep
    <3>4. u = t
      BY <3>2, <3>3 DEF ResumeFromWait
    <3>5. status'[t] = "Ready"
      BY <1>0, <1>2, <3>3, <3>4 DEF ResumeFromWait, Waits
    <3> QED
      BY <3>5
  <2> QED
    BY <2>1, <2>2, <2>3
<1> QED
  BY <1>1, <1>2, WaitArbStep

\* The arbiter's list stays exact.
LEMMA StepArbiter ==
  ASSUME Clean, IInv, WaitInv, Ordered(todo), SelfOK, ResumeOK, TellOK, ArbiterOK, Step
  PROVE  ArbiterOK'
<1>1. NoDuplicates(arbiter_threads) /\ NoDuplicates(arbiter_threads')
  BY StepOnce DEF ArbiterOK
<1>2. ASSUME NEW t \in Threads, t \in ToSet(arbiter_threads')
      PROVE  status'[t] = "WaitArb" /\ (Has(todo', Resumed(t)) => Has(todo', Call("WakeUp", t, "Timeout")))
  <2>1. CASE t \in ToSet(arbiter_threads)
    BY <1>2, <2>1, ListedSleeps, ListedTold
  <2>2. CASE t \notin ToSet(arbiter_threads)
    <3>1. ASSUME NEW a \in Addresses, ResumeAllThreads(a) \/ ResumeHighestPriorityThread(a) PROVE FALSE
      BY <1>1, <1>2, <2>2, <3>1, AllTaken, HighestTaken DEF TakesOut
    <3>2. ASSUME NEW u \in Threads, ArbiterWakeUp(u) PROVE FALSE
      BY <1>2, <2>2, <3>2, ArbiterWakeUpFacts
    <3>3. PICK u \in Threads : Arbitrating(u)
      BY <1>2, <2>2, <3>1, <3>2, ArbiterListStep
    <3>4. t = u /\ todo' = <<>> /\ status'[u] = "WaitArb"
      BY <1>2, <2>2, <3>3, ArbitratingFacts
    <3>5. ~Has(todo', Resumed(t))
      BY <3>4 DEF Has
    <3> QED
      BY <3>4, <3>5
  <2> QED
    BY <2>1, <2>2
<1>3. ASSUME NEW t \in Threads, status'[t] = "WaitArb"
      PROVE  t \in ToSet(arbiter_threads') \/ Has(todo', Kept(t)) \/ Has(todo', Resumed(t))
  BY <1>3, SleeperListed
<1> QED
  BY <1>1, <1>2, <1>3 DEF ArbiterOK, Has, Resumed, Kept

-----------------------------------------------------------------------------
\* No assertion fails.

\* Acquire: the object is available.
LEMMA AcquireAsserts ==
  ASSUME IInv, AcquireOK, panic = "none", NEW t \in Threads,
         \/ \E m \in Mutexes : AcquireMutex(t, m)
         \/ \E e \in Signals : AcquireSignal(t, e)
         \/ \E u \in Threads : AcquireThread(t, u)
  PROVE  panic' = "none"
<1>1. PICK x \in Mutexes \cup Signals \cup Threads :
        /\ todo # <<>> /\ Head(todo) = Call("Acquire", t, x)
        /\ AssertThat(~ShouldWait(x, t), "object unavailable!")
  BY DEF AcquireMutex, AcquireSignal, AcquireThread, Calling
<1>2. 1 \in DOMAIN todo /\ todo[1] = Call("Acquire", t, x)
  BY <1>1, ListTypes, StackHead
<1>3. x \notin Semaphores
  BY KindsAssumption
<1>4. todo[1][1] = "Acquire" /\ todo[1][2] = t /\ todo[1][3] = x
  BY <1>2 DEF Call
<1>5. ~ShouldWait(x, t)
  BY <1>2, <1>3, <1>4 DEF AcquireOK
<1> QED
  BY <1>1, <1>5 DEF AssertThat

\* WakeupAllWaitingThreads: the list of the object holds waiting threads.
LEMMA WakeupAsserts ==
  ASSUME IInv, WaitInv, Ordered(todo), SelfOK, panic = "none", NEW o \in Objects, WakeupNext(o) \/ WakeupDone(o)
  PROVE  panic' = "none"
<1>1. /\ todo # <<>> /\ Head(todo)[1] = "WakeupAllWaitingThreads" /\ Head(todo)[2] = o
      /\ AssertThat(WaitersWait(o), "Inconsistent thread statuses in waiting_threads")
  BY DEF WakeupNext, WakeupDone, Calling
<1>2. WaitersWait(o)
  BY <1>1, WaitersHere
<1> QED
  BY <1>1, <1>2 DEF AssertThat

\* ResumeFromWait: the thread waits for no object, and is neither running nor dead.
LEMMA ResumeAsserts ==
  ASSUME IInv, WaitInv, ResumeOK, CallbackOK, panic = "none", NEW t \in Threads, ResumeFromWait(t)
  PROVE  panic' = "none"
<1>0. wait_objects \in [Threads -> Seq(Objects)] /\ IsTodo(todo)
  BY ListTypes
<1>1. todo # <<>> /\ Head(todo)[1] = "ResumeFromWait" /\ Head(todo)[2] = t
  BY DEF ResumeFromWait, Calling
<1>2. 1 \in DOMAIN todo /\ Head(todo) = todo[1]
  BY <1>0, <1>1, StackHead
<1>3. wait_objects'[t] = <<>> /\ status[t] \in {"WaitSynchAny", "WaitSynchAll", "WaitArb", "WaitSleep", "Ready"}
  <2>1. CASE Clears(todo[1])
    <3>1. PICK u \in Threads : todo[1] = Resumed(u)
      BY <1>2, <2>1 DEF WaitInv, ResumingOK
    <3>2. Has(todo, Resumed(t)) /\ Head(todo)[3] = "clear"
      BY <1>1, <1>2, <3>1 DEF Has, Resumed, Call
    <3>3. status[t] \in Synching \cup {"WaitArb"}
      BY <3>2 DEF ResumeOK
    <3>4. wait_objects'[t] = <<>>
      BY <1>0, <3>2 DEF ResumeFromWait
    <3> QED
      BY <3>3, <3>4 DEF Synching
  <2>2. CASE Keeps(todo[1])
    <3>1. PICK u \in Threads : todo[1] = Kept(u) /\ status[u] \in {"WaitArb", "WaitSleep", "Ready"}
      BY <1>2, <2>2 DEF ResumeOK
    <3>2. u = t /\ Head(todo)[3] # "clear"
      BY <1>1, <1>2, <3>1 DEF Kept, Call
    <3>3. wait_objects' = wait_objects
      BY <3>2 DEF ResumeFromWait
    <3>4. wait_objects[t] = <<>>
      BY <3>1, <3>2 DEF WaitInv, ListedOK, Synching
    <3> QED
      BY <3>1, <3>2, <3>3, <3>4
  <2> QED
    BY <1>1, <1>2, <2>1, <2>2 DEF Clears, Keeps
<1>4. status[t] = "Ready" => wakeup_callback[t] = "null"
  BY NoCallback
<1> QED
  BY <1>3, <1>4 DEF ResumeFromWait

\* The arbiter: its list holds threads that sleep on an address, and who is told by
\* its callback is told of a timeout.
LEMMA ArbiterAsserts ==
  ASSUME IInv, ResumeOK, TellOK, CallbackOK, ArbiterOK, panic = "none", ArbiterCall
  PROVE  panic' = "none"
<1>0. arbiter_threads \in Seq(Threads) /\ NoDuplicates(arbiter_threads) /\ IsTodo(todo)
  BY ListTypes DEF IInv, CallInv, OtherTypes, ArbiterOK
<1>1. ASSUME NEW a \in Addresses, ResumeAllThreads(a) \/ ResumeHighestPriorityThread(a) PROVE panic' = "none"
  <2>1. ASSUME NEW i \in DOMAIN arbiter_threads PROVE status[arbiter_threads[i]] = "WaitArb"
    <3>1. arbiter_threads[i] \in Threads /\ arbiter_threads[i] \in ToSet(arbiter_threads)
      BY <1>0, PlaceFacts
    <3> QED
      BY <3>1 DEF ArbiterOK
  <2>2. ArbiterWaits
    BY <2>1 DEF ArbiterWaits
  <2> QED
    BY <1>1, <2>2 DEF ResumeAllThreads, ResumeHighestPriorityThread, AssertThat
<1>2. ASSUME NEW t \in Threads, ArbiterWakeUp(t) PROVE panic' = "none"
  <2>1. todo # <<>> /\ Head(todo)[1] = "WakeUp" /\ Head(todo)[2] = t /\ wakeup_callback[t] = "ArbiterCallback"
    BY <1>2 DEF ArbiterWakeUp, Calling
  <2>2. 1 \in DOMAIN todo /\ Head(todo) = todo[1]
    BY <1>0, <2>1, StackHead
  <2>3. PICK u \in Threads, x \in Objects \cup {"Timeout"} :
          /\ todo[1] = Call("WakeUp", u, x) /\ Has(todo, Resumed(u))
          /\ status[u] = "WaitArb" => x = "Timeout"
    BY <2>1, <2>2 DEF TellOK
  <2>4. u = t /\ Head(todo)[3] = x
    BY <2>1, <2>2, <2>3 DEF Call
  <2>5. status[t] = "WaitArb"
    BY <2>1, <2>3, <2>4 DEF ResumeOK, CallbackOK, Synching
  <2> QED
    BY <1>2, <2>3, <2>4, <2>5 DEF ArbiterWakeUp, AssertThat
<1> QED
  BY <1>1, <1>2 DEF ArbiterCall

\* ThreadWakeupCallback: the thread is registered.
LEMMA CallbackAsserts ==
  ASSUME IInv, LifeInv, panic = "none", Callback
  PROVE  panic' = "none"
<1>1. ASSUME NEW c \in Cores, NEW t \in Threads, ThreadWakeupCallback(c, t) PROVE panic' = "none"
  <2>1. ~NoEvent(t)
    BY <1>1, TimeoutFacts
  <2>2. Lives(t)
    BY <2>1 DEF LifeInv, EventsOK, Waits, Lives
  <2>3. t \in registered
    BY <2>2 DEF LifeInv, RosterOK
  <2> QED
    BY <1>1, <2>3 DEF ThreadWakeupCallback, AssertThat
<1> QED
  BY <1>1 DEF Callback, TimerCallback

\* KernelSystem::TerminateProcess: the process runs.
LEMMA ExitAsserts ==
  ASSUME Clean, panic = "none", NEW t \in Threads, NEW p \in Processes, TerminateProcess(t, p)
  PROVE  panic' = "none"
BY CleanEnd DEF TerminateProcess, AssertThat

\* No step makes an assertion fail.
LEMMA StepAsserts ==
  ASSUME Clean, IInv, WaitInv, LifeInv, DutyInv, Step
  PROVE  panic' = "none"
<1>0. panic = "none"
  BY StepsAlive
<1>1. CASE ObjectCall
  <2>1. ASSUME NEW t \in Threads, NEW o \in Objects,
               AddWaitingThread(t, o) \/ RemoveWaitingThread(t, o) \/ SyncWakeUp(t)
        PROVE  panic' = "none"
    BY <1>0, <2>1 DEF AddWaitingThread, RemoveWaitingThread, SyncWakeUp
  <2>2. ASSUME NEW t \in Threads, (\E s \in Semaphores : AcquireSemaphore(t, s)) \/ SyncWakeUp(t) PROVE panic' = "none"
    BY <1>0, <2>2 DEF AcquireSemaphore, SyncWakeUp
  <2> QED
    BY <1>0, <1>1, <2>1, <2>2, AcquireAsserts, WakeupAsserts, ResumeAsserts DEF ObjectCall, DutyInv
<1>2. CASE ArbiterCall
  BY <1>0, <1>2, ArbiterAsserts DEF DutyInv
<1>3. CASE Callback
  BY <1>0, <1>3, CallbackAsserts
<1>4. CASE KernelCall
  BY <1>0, <1>4 DEF KernelCall, Stop, MutexesReleased, UpdatedPending, ReleaseThreadMutexes, UpdatePending,
     TerminateNext, TerminateCurrent, Rearm
<1>5. ASSUME NEW t \in Threads, WaitSvc(t) PROVE panic' = "none"
  BY <1>0, <1>5, WaitSvcCases DEF Sleeps, Sleep, Takes, Take, SleepThread
<1>6. ASSUME NEW t \in Threads, SignalSvc(t) PROVE panic' = "none"
  BY <1>0, <1>6 DEF SignalSvc, ReleaseMutex, ReleaseSemaphore, SignalEvent, Clear, SetTimer, CancelTimer
<1>7. ASSUME NEW t \in Threads, ThreadSvc(t) PROVE panic' = "none"
  <2>1. CASE ~ \E p \in Processes : TerminateProcess(t, p)
    BY <1>0, <1>7, <2>1 DEF ThreadSvc, SvcCreateThread, CreateThread, SetThreadPriority, ExitThread
  <2> QED
    BY <1>0, <2>1, ExitAsserts
<1>8. ASSUME NEW t \in Threads, ArbiterSvc(t) PROVE panic' = "none"
  BY <1>0, <1>8 DEF ArbiterSvc, ArbitrateSignal, ArbitrateWait, ArbitrateNoWait
<1>9. CASE RunLoop \/ \E p \in Processes : Run(p)
  BY <1>0, <1>9 DEF RunLoop, BeginRound, EndAdvance, EndSlice, Run, CreateThread
<1> QED
  BY <1>1, <1>2, <1>3, <1>4, <1>5, <1>6, <1>7, <1>8, <1>9 DEF Step, Svc

\* At first nothing is to be done.
LEMMA InitDuty ==
  ASSUME Init
  PROVE  DutyInv /\ panic = "none"
<1>1. /\ todo = <<>> /\ panic = "none" /\ arbiter_threads = <<>>
      /\ status = [t \in Threads |-> "None"] /\ wakeup_callback = [t \in Threads |-> "null"]
      /\ wait_objects = [t \in Threads |-> <<>>]
  BY DEF Init, SchedInit, ObjectInit, ArbiterInit
<1>2. Ordered(todo) /\ AcquireOK /\ ResumeOK /\ TellOK
  BY <1>1 DEF Ordered, AcquireOK, ResumeOK, TellOK, Has
<1>3. HandlesOK /\ CallbackOK
  BY <1>1 DEF HandlesOK, CallbackOK
<1>4. SelfOK
  BY <1>1 DEF SelfOK
<1>5. ArbiterOK
  <2>1. ToSet(<<>>) = {} /\ NoDuplicates(<<>>)
    BY DEF ToSet, NoDuplicates
  <2> QED
    BY <1>1, <2>1 DEF ArbiterOK
<1> QED
  BY <1>1, <1>2, <1>3, <1>4, <1>5 DEF DutyInv

\* A step that changes nothing keeps all this.
LEMMA IdleDuty ==
  ASSUME DutyInv, UNCHANGED vars
  PROVE  DutyInv'
<1>1. /\ UNCHANGED <<todo, status, wakeup_callback, events, arbiter_threads, wait_objects, waiting_threads>>
      /\ UNCHANGED <<process_status, program, lock_count, holding_thread, available_count, signaled>>
  BY DEF vars, threadVars, arbiterVars, objectVars, waitVars, lockVars, signalVars
<1>2. Ordered(todo)' /\ HandlesOK'
  BY <1>1 DEF DutyInv, Ordered, HandlesOK, Repeats
<1>3. AcquireOK'
  BY <1>1 DEF DutyInv, AcquireOK, ShouldWait
<1>4. ResumeOK' /\ TellOK'
  BY <1>1 DEF DutyInv, ResumeOK, TellOK, Has
<1>5. SelfOK' /\ CallbackOK'
  BY <1>1 DEF DutyInv, SelfOK, CallbackOK, Waiting, NoEvent
<1>6. ArbiterOK'
  BY <1>1 DEF DutyInv, ArbiterOK, Has
<1> QED
  BY <1>2, <1>3, <1>4, <1>5, <1>6 DEF DutyInv

\* Every step does what is to be done.
LEMMA StepDuty ==
  ASSUME Clean, IInv, WaitInv, LifeInv, DutyInv, Step
  PROVE  DutyInv'
<1>0. /\ Ordered(todo) /\ AcquireOK /\ ResumeOK /\ TellOK /\ HandlesOK /\ SelfOK /\ CallbackOK /\ ArbiterOK
      /\ NoDuplicates(arbiter_threads)
  BY DEF DutyInv, ArbiterOK
<1>1. Ordered(todo')
  BY <1>0, StepOrder
<1>2. AcquireOK' /\ HandlesOK' /\ CallbackOK'
  BY <1>0, StepAcquire, StepHandles, StepCallback
<1>3. ResumeOK' /\ TellOK'
  BY <1>0, StepResume, StepTell
<1>4. SelfOK' /\ ArbiterOK'
  BY <1>0, StepSelf, StepArbiter
<1> QED
  BY <1>1, <1>2, <1>3, <1>4 DEF DutyInv, Ordered

\* Without misuse no assertion fails and every call finds the threads as it expects
\* them.
Dutiful == misuse = {} => panic = "none" /\ DutyInv
LEMMA DutyHolds == Spec => []Dutiful
<1>1. Init => Dutiful
  BY InitDuty DEF Dutiful
<1>2. /\ IInv /\ ("undead" \notin misuse => LifeInv) /\ (panic = "none" => WaitInv)
      /\ Dutiful /\ [Next]_vars
      => Dutiful'
  <2> SUFFICES ASSUME IInv, "undead" \notin misuse => LifeInv, panic = "none" => WaitInv, Dutiful, [Next]_vars,
                      misuse' = {}
               PROVE  panic' = "none" /\ DutyInv'
    BY DEF Dutiful
  <2>1. misuse = {}
    BY MisuseStays
  <2>2. IInv /\ LifeInv /\ WaitInv /\ DutyInv /\ panic = "none"
    BY <2>1 DEF Dutiful
  <2>3. CASE Next
    <3>1. Step /\ Clean
      BY <2>3 DEF Next, Record, Clean
    <3> QED
      BY <2>2, <3>1, StepDuty, StepAsserts
  <2>4. CASE UNCHANGED vars
    BY <2>2, <2>4, IdleDuty DEF vars
  <2> QED
    BY <2>3, <2>4
<1> QED
  BY <1>1, <1>2, InvHolds, LifeHolds, WaitsHold, PTL DEF Spec

\* Mutex, Event, Timer and Thread::Acquire, WakeupAllWaitingThreads,
\* ResumeFromWait, ThreadWakeupCallback, the arbiter and TerminateProcess: the
\* first of their assertions to fail, if any does, is preceded by one of the kinds
\* of misuse that Misused lists.  A program that commits none of them, whatever
\* else it does with its threads, objects, timeouts and processes, meets none of
\* these assertions; and the list is complete.
THEOREM NoAssertionFailsTheorem == Spec => []NoAssertionFails
<1>1. Dutiful => NoAssertionFails
  BY DEF Dutiful, NoAssertionFails
<1> QED
  BY <1>1, DutyHolds, PTL

\* Between two calls AddressArbiter::waiting_threads holds exactly the threads that
\* sleep on an address, once each, until there is misuse.
THEOREM ArbiterListExactTheorem == Spec => []ArbiterListExact
<1>1. Dutiful => ArbiterListExact
  BY DEF Dutiful, DutyInv, ArbiterOK, ArbiterListExact, AtRest, Has
<1> QED
  BY <1>1, DutyHolds, PTL

=============================================================================
