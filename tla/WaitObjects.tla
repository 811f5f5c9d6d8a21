----------------------------- MODULE WaitObjects ----------------------------
(***************************************************************************)
(* The objects threads wait for: kernel/wait_object.cpp, mutex.cpp,        *)
(* semaphore.cpp, event.cpp, timer.cpp and the Thread object itself, which *)
(* is waited for until it is dead.                                         *)
(*                                                                         *)
(* Each operator named in quotes in `todo' is one call of the code; the    *)
(* action that runs it is the body of that function up to the next call    *)
(* that has effects of its own.                                            *)
(***************************************************************************)
EXTENDS Scheduler

CONSTANTS
  Mutexes, Semaphores, Events,   \* the other objects; Timers is Scheduler's
  ResetType,                     \* event or timer -> its ResetType
  MaxCount, InitialCount,        \* semaphore -> max_count, initial_count
  S32Max                         \* the largest s32

Signals == Events \cup Timers
Objects == Mutexes \cup Semaphores \cup Signals \cup Threads

\* The values of an s32, and the one that an integer n wraps to.
S32 == -S32Max - 1..S32Max
Wrap(n) == ((n + S32Max + 1) % (2 * S32Max + 2)) - S32Max - 1

ASSUME ObjectsAssumption ==
  /\ S32Max \in Nat \ {0}
  /\ ResetType \in [Signals -> {"OneShot", "Sticky", "Pulse"}]
  /\ MaxCount \in [Semaphores -> S32] /\ InitialCount \in [Semaphores -> S32]
  /\ \A s \in Semaphores : InitialCount[s] <= MaxCount[s]

\* The kinds of objects are disjoint, and a timeout is not an object.
ASSUME KindsAssumption ==
  /\ Mutexes \cap (Semaphores \cup Signals \cup Threads) = {}
  /\ Semaphores \cap (Signals \cup Threads) = {} /\ Signals \cap Threads = {}
  /\ "Timeout" \notin Objects

VARIABLES
  lock_count,        \* mutex -> how many times it is locked
  holding_thread,    \* mutex -> its holder, or NoThread
  mutex_priority,    \* mutex -> the priority it lends to its holder
  held_mutexes,      \* thread -> the mutexes it holds
  pending_mutexes,   \* thread -> the mutexes it waits for
  available_count,   \* semaphore -> free slots
  signaled,          \* event or timer -> whether it is signaled
  periodic,          \* timer -> whether interval_delay is not 0
  waiting_threads,   \* object -> threads in the order they began to wait
  wait_objects       \* thread -> the objects it waits for, as passed

lockVars == <<lock_count, holding_thread, held_mutexes>>
waitVars == <<pending_mutexes, waiting_threads, wait_objects>>
signalVars == <<available_count, signaled, periodic>>
objectVars == <<lockVars, mutex_priority, waitVars, signalVars>>

ObjectInit ==
  /\ lock_count = [m \in Mutexes |-> 0]
  /\ holding_thread = [m \in Mutexes |-> NoThread]
  /\ mutex_priority = [m \in Mutexes |-> ThreadPrioLowest]
  /\ held_mutexes = [t \in Threads |-> {}]
  /\ pending_mutexes = [t \in Threads |-> {}]
  /\ available_count = InitialCount
  /\ signaled = [e \in Signals |-> FALSE]
  /\ periodic = [x \in Timers |-> FALSE]
  /\ waiting_threads = [o \in Objects |-> <<>>]
  /\ wait_objects = [t \in Threads |-> <<>>]

-----------------------------------------------------------------------------
\* ShouldWait of each class.
ShouldWait(o, t) ==
  \/ o \in Mutexes /\ lock_count[o] > 0 /\ holding_thread[o] # t
  \/ o \in Semaphores /\ available_count[o] <= 0
  \/ o \in Signals /\ ~signaled[o]
  \/ o \in Threads /\ status[o] # "Dead"

-----------------------------------------------------------------------------
\* Priority inheritance.

\* p is the best, that is the smallest, priority of the set S.
IsBest(p, S) == p \in S /\ \A q \in S : p <= q

\* What Thread::UpdatePriority considers, given the held mutexes and their
\* priorities.
Lent(t, held, prio) == {nominal_priority[t]} \cup {prio[m] : m \in held}

\* Thread::UpdatePriority.
UpdateThreadPriority(t, held, prio) ==
  \E p \in Priorities : IsBest(p, Lent(t, held, prio)) /\ BoostPriority(t, p)

\* What Mutex::UpdatePriority considers when the list of waiters is ws.
Wanted(ws) ==
  {ThreadPrioLowest} \cup {current_priority[ws[i]] : i \in DOMAIN ws}

\* Mutant: the holder does not take over the new priority.
UpdateMutexPriorityAlone(m, ws) ==
  \E best \in Priorities :
    /\ IsBest(best, Wanted(ws))
    /\ IF holding_thread[m] = NoThread \/ best = mutex_priority[m]
       THEN UNCHANGED mutex_priority
       ELSE mutex_priority' = [mutex_priority EXCEPT ![m] = best]
    /\ UNCHANGED <<current_priority, ready_queue>>

\* Mutex::UpdatePriority.
UpdateMutexPriority(m, ws) ==
  \E best \in Priorities :
    /\ IsBest(best, Wanted(ws))
    /\ IF holding_thread[m] = NoThread \/ best = mutex_priority[m]
       THEN UNCHANGED <<mutex_priority, current_priority, ready_queue>>
       ELSE /\ mutex_priority' = [mutex_priority EXCEPT ![m] = best]
            /\ UpdateThreadPriority(holding_thread[m],
                                    held_mutexes[holding_thread[m]], mutex_priority')

-----------------------------------------------------------------------------
\* Acquire of each class, as the head of `todo'.

\* Mutex::Acquire: the first lock makes t the holder.
AcquireMutex(t, m) ==
  /\ Calling("Acquire") /\ Head(todo) = Call("Acquire", t, m)
  /\ AssertThat(~ShouldWait(m, t), "object unavailable!")
  /\ lock_count' = [lock_count EXCEPT ![m] = @ + 1]
  /\ IF lock_count[m] = 0
     THEN /\ mutex_priority' = [mutex_priority EXCEPT ![m] = current_priority[t]]
          /\ held_mutexes' = [held_mutexes EXCEPT ![t] = @ \cup {m}]
          /\ holding_thread' = [holding_thread EXCEPT ![m] = t]
          /\ UpdateThreadPriority(t, held_mutexes'[t], mutex_priority')
          /\ PrepareReschedule
     ELSE UNCHANGED <<mutex_priority, held_mutexes, holding_thread,
                      current_priority, ready_queue, flagVars>>
  /\ Return(<<>>)
  /\ UNCHANGED <<status, nominal_priority, wakeup_callback, coreVars, loopVars,
                 events, waitVars, signalVars>>

\* Semaphore::Acquire.
AcquireSemaphore(t, s) ==
  /\ Calling("Acquire") /\ Head(todo) = Call("Acquire", t, s)
  /\ available_count' =
       [available_count EXCEPT ![s] = IF @ <= 0 THEN @ ELSE @ - 1]
  /\ Return(<<>>)
  /\ UNCHANGED <<threadVars, coreVars, loopVars, flagVars, events, panic,
                 lockVars, mutex_priority, waitVars, signaled, periodic>>

\* Event::Acquire and Timer::Acquire.
AcquireSignal(t, e) ==
  /\ Calling("Acquire") /\ Head(todo) = Call("Acquire", t, e)
  /\ AssertThat(~ShouldWait(e, t), "object unavailable!")
  /\ signaled' = [signaled EXCEPT ![e] = @ /\ ResetType[e] # "OneShot"]
  /\ Return(<<>>)
  /\ UNCHANGED <<threadVars, coreVars, loopVars, flagVars, events,
                 lockVars, mutex_priority, waitVars, available_count, periodic>>

\* Thread::Acquire.
AcquireThread(t, u) ==
  /\ Calling("Acquire") /\ Head(todo) = Call("Acquire", t, u)
  /\ AssertThat(~ShouldWait(u, t), "object unavailable!")
  /\ Return(<<>>)
  /\ UNCHANGED <<threadVars, coreVars, loopVars, flagVars, events, objectVars>>

-----------------------------------------------------------------------------
\* The lists of waiters.

\* WaitObject::AddWaitingThread, and Mutex's override.
AddWaitingThread(t, o) ==
  /\ Calling("AddWaitingThread") /\ Head(todo) = Call("AddWaitingThread", t, o)
  /\ waiting_threads' =
       [waiting_threads EXCEPT ![o] = IF Contains(@, t) THEN @ ELSE Append(@, t)]
  /\ IF o \in Mutexes
     THEN /\ pending_mutexes' = [pending_mutexes EXCEPT ![t] = @ \cup {o}]
          /\ UpdateMutexPriority(o, waiting_threads'[o])
     ELSE UNCHANGED <<pending_mutexes, mutex_priority, current_priority, ready_queue>>
  /\ Return(<<>>)
  /\ UNCHANGED <<status, nominal_priority, wakeup_callback, coreVars, loopVars,
                 flagVars, events, panic, lockVars, signalVars, wait_objects>>

\* WaitObject::RemoveWaitingThread, and Mutex's override.
RemoveWaitingThread(t, o) ==
  /\ Calling("RemoveWaitingThread") /\ Head(todo) = Call("RemoveWaitingThread", t, o)
  /\ waiting_threads' = [waiting_threads EXCEPT ![o] = Without(@, t)]
  /\ IF o \in Mutexes
     THEN /\ pending_mutexes' = [pending_mutexes EXCEPT ![t] = @ \ {o}]
          /\ UpdateMutexPriority(o, waiting_threads'[o])
     ELSE UNCHANGED <<pending_mutexes, mutex_priority, current_priority, ready_queue>>
  /\ Return(<<>>)
  /\ UNCHANGED <<status, nominal_priority, wakeup_callback, coreVars, loopVars,
                 flagVars, events, panic, lockVars, signalVars, wait_objects>>

\* A loop of calls `op' of t with each of its wait objects.
ForEach(op, t, objects) == [i \in DOMAIN objects |-> Call(op, t, objects[i])]
\* A thread is ready to be given o: o is available to it and, when it waits
\* for all its objects, so are the others.
ReadyFor(t, o) ==
  /\ ~ShouldWait(o, t)
  /\ status[t] = "WaitSynchAll" =>
       \A i \in DOMAIN wait_objects[t] : ~ShouldWait(wait_objects[t][i], t)

\* WaitObject::GetHighestPriorityReadyThread: the position, if any, of the
\* first of the best waiters that are ready.
Candidate(o) ==
  {i \in DOMAIN waiting_threads[o] :
     LET p(j) == current_priority[waiting_threads[o][j]] IN
       /\ ReadyFor(waiting_threads[o][i], o)
       /\ \A j \in DOMAIN waiting_threads[o] :
            ReadyFor(waiting_threads[o][j], o) => p(i) < p(j) \/ (p(i) = p(j) /\ i <= j)}

\* GetHighestPriorityReadyThread asserts this of every waiter.
WaitersWait(o) ==
  \A i \in DOMAIN waiting_threads[o] :
    status[waiting_threads[o][i]] \in {"WaitSynchAny", "WaitSynchAll"}

\* Mutant: the thread stays in the lists of its objects.
EndWaitInLists(t, cause) ==
  <<Call("WakeUp", t, cause)>> \o <<Call("ResumeFromWait", t, "clear")>>

\* The calls that end a wait because of an object or of a "Timeout": the
\* callback, then the thread leaves every list it is in, then it is resumed.
EndWait(t, cause) ==
  <<Call("WakeUp", t, cause)>>
    \o ForEach("RemoveWaitingThread", t, wait_objects[t])
    \o <<Call("ResumeFromWait", t, "clear")>>

\* Mutant: a thread that waits for all objects is given this one only.
WakeupNextOnlyThis(o) ==
  /\ Calling("WakeupAllWaitingThreads") /\ Head(todo)[2] = o
  /\ AssertThat(WaitersWait(o), "Inconsistent thread statuses in waiting_threads")
  /\ \E i \in Candidate(o) :
       LET t == waiting_threads[o][i] IN
         todo' = <<Call("Acquire", t, o)>> \o EndWait(t, o) \o todo
  /\ UNCHANGED <<threadVars, coreVars, loopVars, flagVars, events, objectVars>>

\* WaitObject::WakeupAllWaitingThreads, one turn of its loop: the candidate
\* acquires this object, or all it waits for, and its wait ends.
WakeupNext(o) ==
  /\ Calling("WakeupAllWaitingThreads") /\ Head(todo)[2] = o
  /\ AssertThat(WaitersWait(o), "Inconsistent thread statuses in waiting_threads")
  /\ \E i \in Candidate(o) :
       LET t == waiting_threads[o][i]
           acquired == IF status[t] = "WaitSynchAll" THEN wait_objects[t] ELSE <<o>>
       IN todo' = ForEach("Acquire", t, acquired) \o EndWait(t, o) \o todo
  /\ UNCHANGED <<threadVars, coreVars, loopVars, flagVars, events, objectVars>>

\* The end of the loop, and of Event's and Timer's overrides: a pulse is over
\* once it has woken the threads that were waiting.
WakeupDone(o) ==
  /\ Calling("WakeupAllWaitingThreads") /\ Head(todo)[2] = o
  /\ Candidate(o) = {}
  /\ AssertThat(WaitersWait(o), "Inconsistent thread statuses in waiting_threads")
  /\ signaled' = IF o \in Signals /\ ResetType[o] = "Pulse"
                 THEN [signaled EXCEPT ![o] = FALSE] ELSE signaled
  /\ Return(<<>>)
  /\ UNCHANGED <<threadVars, coreVars, loopVars, flagVars, events,
                 lockVars, mutex_priority, waitVars, available_count, periodic>>

\* SVC_SyncCallback::WakeUp only writes the result registers of t, which are
\* not part of this model.
SyncWakeUp(t) ==
  /\ Calling("WakeUp") /\ Head(todo)[2] = t
  /\ wakeup_callback[t] \in {"SVC_SyncCallback", "null"}
  /\ Return(<<>>)
  /\ UNCHANGED <<threadVars, coreVars, loopVars, flagVars, events, panic, objectVars>>

\* wait_objects.clear(), when the caller does that, and
\* Thread::ResumeFromWait.
ResumeFromWait(t) ==
  /\ Calling("ResumeFromWait") /\ Head(todo)[2] = t
  /\ wait_objects' =
       IF Head(todo)[3] = "clear" THEN [wait_objects EXCEPT ![t] = <<>>] ELSE wait_objects
  /\ panic' = IF wait_objects'[t] # <<>>
              THEN "Thread is waking up while waiting for objects"
              ELSE IF status[t] = "Ready" /\ wakeup_callback[t] # "null"
              THEN "wakeup_callback == nullptr"
              ELSE IF status[t] = "Running" THEN "Thread has already resumed"
              ELSE IF status[t] = "Dead" THEN "Thread cannot be resumed because it's DEAD"
              ELSE panic
  /\ IF status[t] \in Waits
     THEN /\ wakeup_callback' = [wakeup_callback EXCEPT ![t] = "null"]
          /\ ready_queue' = push_back(ready_queue, t, current_priority[t])
          /\ status' = [status EXCEPT ![t] = "Ready"]
          /\ PrepareReschedule
     ELSE UNCHANGED <<wakeup_callback, ready_queue, status, flagVars>>
  /\ Return(<<>>)
  /\ UNCHANGED <<nominal_priority, current_priority, coreVars, loopVars, events,
                 lockVars, mutex_priority, pending_mutexes, waiting_threads,
                 signalVars>>

=============================================================================
