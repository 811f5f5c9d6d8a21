------------------------------- MODULE Kernel -------------------------------
(***************************************************************************)
(* The supervisor calls of kernel/svc.cpp on threads, processes and wait   *)
(* objects, the callbacks of the timing queue, and the composition of      *)
(* Scheduler, WaitObjects and AddressArbiter.                              *)
(***************************************************************************)
EXTENDS AddressArbiter, FiniteSets

CONSTANTS
  Processes, ProcessOf,  \* processes, and the owner of each thread
  MainThread,            \* process -> its main thread
  Programs,              \* what the threads may do, one of them per behaviour
  MaxLockCount           \* bound on the recursion of mutex locks

\* A program: the lists of objects each thread waits for, the timeouts it
\* uses, what it calls SetThreadPriority, ReleaseSemaphore and ArbitrateAddress
\* with, the threads that may call ExitThread, and the processes that each may
\* end with ExitProcess (its own) or TerminateProcess.
ASSUME KernelAssumption ==
  /\ ProcessOf \in [Threads -> Processes]
  /\ MainThread \in [Processes -> Threads]
  /\ \A p \in Processes : ProcessOf[MainThread[p]] = p
  /\ MaxLockCount \in Nat
  /\ \A g \in Programs :
       /\ g.handles \in [Threads -> SUBSET Seq(Objects)]
       /\ g.delays \subseteq {"zero", "finite", "forever"}
       /\ g.targets \subseteq Threads /\ g.priorities \subseteq Priorities
       /\ g.counts \subseteq S32
       /\ g.addresses \subseteq Addresses /\ g.values \subseteq Int
       /\ g.exiting \subseteq Threads /\ g.terminating \in [Threads -> SUBSET Processes]

VARIABLES
  process_status,   \* process -> ProcessStatus
  program,          \* the program that is run
  misuse            \* history: the kinds of misuse there have been, see Misused

vars == <<threadVars, coreVars, loopVars, flagVars, events, todo, panic,
          objectVars, arbiterVars, process_status, program, misuse>>

Init ==
  /\ SchedInit /\ ObjectInit /\ ArbiterInit
  /\ process_status = [p \in Processes |-> "Created"]
  /\ program \in Programs
  /\ misuse = {}

-----------------------------------------------------------------------------
\* Threads and processes come and go.

\* Process::Run: a process is started, between two rounds, with its main
\* thread (SetupMainThread).
Run(p) ==
  /\ AtRest /\ phase = "begin" /\ process_status[p] = "Created"
  /\ process_status' = [process_status EXCEPT ![p] = "Running"]
  /\ CreateThread(MainThread[p])
  /\ UNCHANGED <<flagVars, objectVars, arbiterVars>>

\* svcCreateThread.
SvcCreateThread(t, u) ==
  /\ Executes(t) /\ ProcessOf[u] = ProcessOf[t]
  /\ CreateThread(u)
  /\ PrepareReschedule
  /\ UNCHANGED <<objectVars, arbiterVars, process_status>>

\* Mutant: the wake-up event of a dead thread is left in the queue.
StopKeepsEvent(t) ==
  /\ Calling("Stop") /\ Head(todo)[2] = t
  /\ registered' = registered \ {t}
  /\ ready_queue' = IF status[t] = "Ready"
                    THEN remove(ready_queue, t, current_priority[t]) ELSE ready_queue
  /\ status' = [status EXCEPT ![t] = "Dead"]
  /\ Return(<<Call("WakeupAllWaitingThreads", t, "Stop")>>
              \o ForEach("RemoveWaitingThread", t, wait_objects[t])
              \o <<Call("ReleaseThreadMutexes", t, "Stop")>>)
  /\ wait_objects' = [wait_objects EXCEPT ![t] = <<>>]
  /\ UNCHANGED <<nominal_priority, current_priority, wakeup_callback, events,
                 current_thread, thread_list, loopVars, flagVars, panic, lockVars,
                 mutex_priority, pending_mutexes, waiting_threads, signalVars,
                 arbiterVars, process_status>>

\* Mutant: the thread stays in the lists of the objects it waited for.
StopInLists(t) ==
  /\ Calling("Stop") /\ Head(todo)[2] = t
  /\ events' = Unscheduled(events, t)
  /\ registered' = registered \ {t}
  /\ ready_queue' = IF status[t] = "Ready"
                    THEN remove(ready_queue, t, current_priority[t]) ELSE ready_queue
  /\ status' = [status EXCEPT ![t] = "Dead"]
  /\ Return(<<Call("WakeupAllWaitingThreads", t, "Stop")>>
              \o <<Call("ReleaseThreadMutexes", t, "Stop")>>)
  /\ wait_objects' = [wait_objects EXCEPT ![t] = <<>>]
  /\ UNCHANGED <<nominal_priority, current_priority, wakeup_callback,
                 current_thread, thread_list, loopVars, flagVars, panic, lockVars,
                 mutex_priority, pending_mutexes, waiting_threads, signalVars,
                 arbiterVars, process_status>>

\* Thread::Stop.  wait_objects is read by nothing until it is cleared.
Stop(t) ==
  /\ Calling("Stop") /\ Head(todo)[2] = t
  /\ events' = Unscheduled(events, t)
  /\ registered' = registered \ {t}
  /\ ready_queue' = IF status[t] = "Ready"
                    THEN remove(ready_queue, t, current_priority[t]) ELSE ready_queue
  /\ status' = [status EXCEPT ![t] = "Dead"]
  /\ Return(<<Call("WakeupAllWaitingThreads", t, "Stop")>>
              \o ForEach("RemoveWaitingThread", t, wait_objects[t])
              \o <<Call("ReleaseThreadMutexes", t, "Stop")>>)
  /\ wait_objects' = [wait_objects EXCEPT ![t] = <<>>]
  /\ UNCHANGED <<nominal_priority, current_priority, wakeup_callback,
                 current_thread, thread_list, loopVars, flagVars, panic, lockVars,
                 mutex_priority, pending_mutexes, waiting_threads, signalVars,
                 arbiterVars, process_status>>

\* Mutant: the mutex is freed but nobody is told.
ReleaseQuietly(t, m) ==
  /\ Calling("ReleaseThreadMutexes") /\ Head(todo)[2] = t
  /\ m \in held_mutexes[t] /\ holding_thread[m] = t
  /\ lock_count' = [lock_count EXCEPT ![m] = 0]
  /\ holding_thread' = [holding_thread EXCEPT ![m] = NoThread]
  /\ UNCHANGED <<threadVars, coreVars, loopVars, flagVars, events, todo, panic,
                 held_mutexes, mutex_priority, waitVars, signalVars, arbiterVars,
                 process_status>>

\* ReleaseThreadMutexes, one turn of its loop.  The set is ordered by the
\* addresses of the mutexes, so any of those not yet released may be next.
ReleaseThreadMutexes(t, m) ==
  /\ Calling("ReleaseThreadMutexes") /\ Head(todo)[2] = t
  /\ m \in held_mutexes[t] /\ holding_thread[m] = t
  /\ lock_count' = [lock_count EXCEPT ![m] = 0]
  /\ holding_thread' = [holding_thread EXCEPT ![m] = NoThread]
  /\ todo' = <<Call("WakeupAllWaitingThreads", m, "Stop")>> \o todo
  /\ UNCHANGED <<threadVars, coreVars, loopVars, flagVars, events, panic,
                 held_mutexes, mutex_priority, waitVars, signalVars, arbiterVars,
                 process_status>>

\* The end of that loop.
MutexesReleased(t) ==
  /\ Calling("ReleaseThreadMutexes") /\ Head(todo)[2] = t
  /\ \A m \in held_mutexes[t] : holding_thread[m] # t
  /\ held_mutexes' = [held_mutexes EXCEPT ![t] = {}]
  /\ Return(<<>>)
  /\ UNCHANGED <<threadVars, coreVars, loopVars, flagVars, events, panic,
                 lock_count, holding_thread, mutex_priority, waitVars, signalVars,
                 arbiterVars, process_status>>

\* svcExitThread: ThreadManager::ExitCurrentThread.  Nothing looks at
\* thread_list or at the flags before Stop returns.
ExitThread(t) ==
  /\ t \in program.exiting /\ Executes(t)
  /\ thread_list' = [thread_list EXCEPT ![CoreOf[t]] = Without(@, t)]
  /\ PrepareReschedule
  /\ todo' = <<Call("Stop", t, "Stop")>>
  /\ UNCHANGED <<threadVars, current_thread, registered, loopVars, events, panic,
                 objectVars, arbiterVars, process_status>>

\* KernelSystem::TerminateProcess, called by svcExitProcess for the process of t
\* and by svcTerminateProcess for any process.
TerminateProcess(t, p) ==
  /\ p \in program.terminating[t] /\ Executes(t)
  /\ AssertThat(process_status[p] = "Running", "Process has already exited")
  /\ process_status' = [process_status EXCEPT ![p] = "Exited"]
  /\ todo' = [i \in 1..NumCores |-> Call("TerminateProcessThreads", p, i - 1)]
  /\ UNCHANGED <<threadVars, coreVars, loopVars, flagVars, events, objectVars,
                 arbiterVars>>

\* The threads TerminateProcessThreads stops in its loop, by their positions.
Victims(p, c) ==
  {i \in DOMAIN thread_list[c] : /\ ProcessOf[thread_list[c][i]] = p
                                 /\ thread_list[c][i] # current_thread[c]}

\* ThreadManager::TerminateProcessThreads, one turn of its loop.
TerminateNext(p, c) ==
  /\ Calling("TerminateProcessThreads") /\ Head(todo)[2] = p /\ Head(todo)[3] = c
  /\ \E i \in Victims(p, c) :
       /\ \A j \in Victims(p, c) : i <= j
       /\ thread_list' = [thread_list EXCEPT ![c] = Without(@, thread_list[c][i])]
       /\ todo' = <<Call("Stop", thread_list[c][i], "Stop")>> \o todo
  /\ UNCHANGED <<threadVars, current_thread, registered, loopVars, flagVars,
                 events, panic, objectVars, arbiterVars, process_status>>

\* Mutant: the core's current thread is spared.
TerminateSparesCurrent(p, c) ==
  /\ Calling("TerminateProcessThreads") /\ Head(todo)[2] = p /\ Head(todo)[3] = c
  /\ Victims(p, c) = {}
  /\ Return(<<>>)
  /\ UNCHANGED <<threadVars, coreVars, loopVars, flagVars, events, panic,
                 objectVars, arbiterVars, process_status>>

\* Its end: the core's current thread goes last.
TerminateCurrent(p, c) ==
  LET cur == current_thread[c] IN
    /\ Calling("TerminateProcessThreads") /\ Head(todo)[2] = p /\ Head(todo)[3] = c
    /\ Victims(p, c) = {}
    /\ IF cur # NoThread /\ ProcessOf[cur] = p
       THEN /\ thread_list' = [thread_list EXCEPT ![c] = Without(@, cur)]
            /\ PrepareReschedule
            /\ Return(<<Call("Stop", cur, "Stop")>>)
       ELSE Return(<<>>) /\ UNCHANGED <<thread_list, flagVars>>
    /\ UNCHANGED <<threadVars, current_thread, registered, loopVars, events,
                   panic, objectVars, arbiterVars, process_status>>
-----------------------------------------------------------------------------
\* Waiting.

\* A bound of the model: a thread does not lock a mutex more often than this.
WithinLockBound(t, objects) ==
  \A i \in DOMAIN objects :
    objects[i] \in Mutexes /\ holding_thread[objects[i]] = t =>
      lock_count[objects[i]] < MaxLockCount

\* t goes to sleep on its objects.  AddWaitingThread does not depend on the
\* other assignments.
Sleep(t, objects, newStatus, delay) ==
  /\ delay # "zero"
  /\ status' = [status EXCEPT ![t] = newStatus]
  /\ wait_objects' = [wait_objects EXCEPT ![t] = objects]
  /\ wakeup_callback' = [wakeup_callback EXCEPT ![t] = "SVC_SyncCallback"]
  /\ events' = WakeAfterDelay(events, t, delay)
  /\ PrepareReschedule
  /\ todo' = ForEach("AddWaitingThread", t, objects)
  /\ UNCHANGED <<nominal_priority, current_priority, ready_queue, coreVars,
                 loopVars, panic, lockVars, mutex_priority, pending_mutexes,
                 waiting_threads, signalVars, arbiterVars, process_status>>

\* t takes objects at once.
Take(t, objects) ==
  /\ todo' = ForEach("Acquire", t, objects)
  /\ UNCHANGED <<threadVars, coreVars, loopVars, flagVars, events, panic,
                 objectVars, arbiterVars, process_status>>

\* svcWaitSynchronization1.
WaitSynchronization1(t, o, delay) ==
  /\ Executes(t) /\ WithinLockBound(t, <<o>>)
  /\ IF ShouldWait(o, t)
     THEN Sleep(t, <<o>>, "WaitSynchAny", delay)
     ELSE Take(t, <<o>>)

\* svcWaitSynchronizationN with wait_all = false: the first that is
\* available, or sleep.
WaitSynchronizationAny(t, objects, delay) ==
  /\ Executes(t) /\ WithinLockBound(t, objects)
  /\ \/ \E i \in DOMAIN objects :
          /\ ~ShouldWait(objects[i], t)
          /\ \A j \in 1..i - 1 : ShouldWait(objects[j], t)
          /\ Take(t, <<objects[i]>>)
     \/ /\ \A i \in DOMAIN objects : ShouldWait(objects[i], t)
        /\ Sleep(t, objects, "WaitSynchAny", delay)

\* svcWaitSynchronizationN with wait_all = true.
WaitSynchronizationAll(t, objects, delay) ==
  /\ Executes(t) /\ WithinLockBound(t, objects)
  /\ \/ /\ \A i \in DOMAIN objects : ~ShouldWait(objects[i], t)
        /\ Take(t, objects)
     \/ /\ \E i \in DOMAIN objects : ShouldWait(objects[i], t)
        /\ Sleep(t, objects, "WaitSynchAll", delay)

\* svcSleepThread.  A yield (a delay of 0) without another ready thread does
\* nothing.
SleepThread(t, delay) ==
  /\ Executes(t)
  /\ delay = "zero" => \E p \in Priorities : ready_queue[CoreOf[t]][p] # <<>>
  /\ status' = [status EXCEPT ![t] = "WaitSleep"]
  /\ events' = WakeAfterDelay(events, t, delay)
  /\ PrepareReschedule
  /\ UNCHANGED <<nominal_priority, current_priority, wakeup_callback, ready_queue,
                 coreVars, loopVars, todo, panic, objectVars, arbiterVars,
                 process_status>>

-----------------------------------------------------------------------------
\* Signalling.

\* Mutant: the mutex is free but still among the held ones.
ReleaseMutexKeepsHeld(t, m) ==
  /\ Executes(t) /\ holding_thread[m] = t /\ lock_count[m] > 0
  /\ lock_count' = [lock_count EXCEPT ![m] = @ - 1]
  /\ IF lock_count[m] = 1
     THEN /\ holding_thread' = [holding_thread EXCEPT ![m] = NoThread]
          /\ UpdateThreadPriority(t, held_mutexes[t] \ {m}, mutex_priority)
          /\ PrepareReschedule
          /\ todo' = <<Call("WakeupAllWaitingThreads", m, "Release")>>
     ELSE UNCHANGED <<holding_thread, current_priority, ready_queue, flagVars, todo>>
  /\ UNCHANGED <<status, nominal_priority, wakeup_callback, coreVars, loopVars,
                 events, panic, held_mutexes, mutex_priority, waitVars, signalVars,
                 arbiterVars, process_status>>

\* svcReleaseMutex: Mutex::Release by its holder; for any other thread it
\* fails and changes nothing.
ReleaseMutex(t, m) ==
  /\ Executes(t) /\ holding_thread[m] = t /\ lock_count[m] > 0
  /\ lock_count' = [lock_count EXCEPT ![m] = @ - 1]
  /\ IF lock_count[m] = 1
     THEN /\ held_mutexes' = [held_mutexes EXCEPT ![t] = @ \ {m}]
          /\ holding_thread' = [holding_thread EXCEPT ![m] = NoThread]
          /\ UpdateThreadPriority(t, held_mutexes'[t], mutex_priority)
          /\ PrepareReschedule
          /\ todo' = <<Call("WakeupAllWaitingThreads", m, "Release")>>
     ELSE UNCHANGED <<held_mutexes, holding_thread, current_priority, ready_queue,
                      flagVars, todo>>
  /\ UNCHANGED <<status, nominal_priority, wakeup_callback, coreVars, loopVars,
                 events, panic, mutex_priority, waitVars, signalVars, arbiterVars,
                 process_status>>

\* svcReleaseSemaphore.
ReleaseSemaphore(t, s, n) ==
  /\ Executes(t) /\ MaxCount[s] >= Wrap(n + available_count[s])
  /\ available_count' = [available_count EXCEPT ![s] = Wrap(@ + n)]
  /\ todo' = <<Call("WakeupAllWaitingThreads", s, "Release")>>
  /\ UNCHANGED <<threadVars, coreVars, loopVars, flagVars, events, panic,
                 lockVars, mutex_priority, waitVars, signaled, periodic,
                 arbiterVars, process_status>>

\* svcSignalEvent.
SignalEvent(t, e) ==
  /\ Executes(t)
  /\ signaled' = [signaled EXCEPT ![e] = TRUE]
  /\ todo' = <<Call("WakeupAllWaitingThreads", e, "Signal")>>
  /\ UNCHANGED <<threadVars, coreVars, loopVars, flagVars, events, panic,
                 lockVars, mutex_priority, waitVars, available_count, periodic,
                 arbiterVars, process_status>>

\* svcClearEvent and svcClearTimer.
Clear(t, e) ==
  /\ Executes(t)
  /\ signaled' = [signaled EXCEPT ![e] = FALSE]
  /\ UNCHANGED <<threadVars, coreVars, loopVars, flagVars, events, todo, panic,
                 lockVars, mutex_priority, waitVars, available_count, periodic,
                 arbiterVars, process_status>>

\* The calls of Timer::Signal: wake the waiters, then schedule the next
\* expiry of a periodic timer.
TimerSignal(x, again) ==
  <<Call("WakeupAllWaitingThreads", x, "Signal")>>
    \o IF again THEN <<Call("ScheduleEvent", x, "Signal")>> ELSE <<>>

\* Mutant: setting a timer does not cancel what was set before.
SetTimerKeeps(t, x, now, again) ==
  /\ Executes(t)
  /\ periodic' = [periodic EXCEPT ![x] = again]
  /\ IF now
     THEN /\ signaled' = [signaled EXCEPT ![x] = TRUE]
          /\ todo' = TimerSignal(x, again)
          /\ UNCHANGED events
     ELSE /\ events' = Scheduled(events, x)
          /\ UNCHANGED <<signaled, todo>>
  /\ UNCHANGED <<threadVars, coreVars, loopVars, flagVars, panic, lockVars,
                 mutex_priority, waitVars, available_count, arbiterVars,
                 process_status>>

\* svcSetTimer: Timer::Set with an initial delay of 0 or not, and an interval
\* or not.
SetTimer(t, x, now, again) ==
  /\ Executes(t)
  /\ periodic' = [periodic EXCEPT ![x] = again]
  /\ IF now
     THEN /\ signaled' = [signaled EXCEPT ![x] = TRUE]
          /\ todo' = TimerSignal(x, again)
          /\ events' = Unscheduled(events, x)
     ELSE /\ events' = Scheduled(Unscheduled(events, x), x)
          /\ UNCHANGED <<signaled, todo>>
  /\ UNCHANGED <<threadVars, coreVars, loopVars, flagVars, panic, lockVars,
                 mutex_priority, waitVars, available_count, arbiterVars,
                 process_status>>

\* svcCancelTimer.
CancelTimer(t, x) ==
  /\ Executes(t)
  /\ events' = Unscheduled(events, x)
  /\ UNCHANGED <<threadVars, coreVars, loopVars, flagVars, todo, panic,
                 objectVars, arbiterVars, process_status>>

\* The last statement of Timer::Signal.
Rearm(x) ==
  /\ Calling("ScheduleEvent") /\ Head(todo)[2] = x
  /\ events' = Scheduled(events, x)
  /\ Return(<<>>)
  /\ UNCHANGED <<threadVars, coreVars, loopVars, flagVars, panic, objectVars,
                 arbiterVars, process_status>>

-----------------------------------------------------------------------------
\* Priorities.

\* svcSetThreadPriority: Thread::SetPriority, UpdatePriority, then the
\* priorities of the mutexes u waits for.
SetThreadPriority(t, u, p) ==
  /\ Executes(t) /\ status[u] # "None"
  /\ nominal_priority' = [nominal_priority EXCEPT ![u] = p]
  /\ \E best \in Priorities :
       /\ IsBest(best, {p} \cup {mutex_priority[m] : m \in held_mutexes[u]})
       /\ BoostPriority(u, best)
  /\ todo' = <<Call("UpdatePending", u, pending_mutexes[u])>>
  /\ PrepareReschedule
  /\ UNCHANGED <<status, wakeup_callback, coreVars, loopVars, events, panic,
                 objectVars, arbiterVars, process_status>>

\* One turn of its loop over pending_mutexes, in any order.
UpdatePending(u, m) ==
  /\ Calling("UpdatePending") /\ Head(todo)[2] = u /\ m \in Head(todo)[3]
  /\ UpdateMutexPriority(m, waiting_threads[m])
  /\ Return(<<Call("UpdatePending", u, Head(todo)[3] \ {m})>>)
  /\ UNCHANGED <<status, nominal_priority, wakeup_callback, coreVars, loopVars,
                 flagVars, events, panic, lockVars, waitVars, signalVars,
                 arbiterVars, process_status>>

UpdatedPending(u) ==
  /\ Calling("UpdatePending") /\ Head(todo)[2] = u /\ Head(todo)[3] = {}
  /\ Return(<<>>)
  /\ UNCHANGED <<threadVars, coreVars, loopVars, flagVars, events, panic,
                 objectVars, arbiterVars, process_status>>

-----------------------------------------------------------------------------
\* Events of the timing queue that are due on the core that advances.

\* Mutant: the timeout of a wait for all objects is dropped.
WakeupNotAll(c, t) ==
  /\ Advancing(c) /\ events[c][t] > 0
  /\ events' = [events EXCEPT ![c][t] = @ - 1]
  /\ AssertThat(t \in registered, "wakeup_callback_table.at")
  /\ todo' = IF status[t] \in {"WaitSynchAny", "WaitArb"} THEN EndWait(t, "Timeout")
             ELSE IF status[t] = "WaitSynchAll" THEN <<>>
             ELSE <<Call("ResumeFromWait", t, "keep")>>
  /\ UNCHANGED <<threadVars, coreVars, loopVars, flagVars, objectVars,
                 arbiterVars, process_status>>

\* ThreadManager::ThreadWakeupCallback.
ThreadWakeupCallback(c, t) ==
  /\ Advancing(c) /\ events[c][t] > 0
  /\ events' = [events EXCEPT ![c][t] = @ - 1]
  /\ AssertThat(t \in registered, "wakeup_callback_table.at")
  /\ todo' = IF status[t] \in {"WaitSynchAny", "WaitSynchAll", "WaitArb"}
             THEN EndWait(t, "Timeout")
             ELSE <<Call("ResumeFromWait", t, "keep")>>
  /\ UNCHANGED <<threadVars, coreVars, loopVars, flagVars, objectVars,
                 arbiterVars, process_status>>

\* TimerManager::TimerCallback.
TimerCallback(c, x) ==
  /\ Advancing(c) /\ events[c][x] > 0
  /\ events' = [events EXCEPT ![c][x] = @ - 1]
  /\ signaled' = [signaled EXCEPT ![x] = TRUE]
  /\ todo' = TimerSignal(x, periodic[x])
  /\ UNCHANGED <<threadVars, coreVars, loopVars, flagVars, panic, lockVars,
                 mutex_priority, waitVars, available_count, periodic, arbiterVars,
                 process_status>>

-----------------------------------------------------------------------------
\* What the emulator can do next.

RunLoop ==
  /\ \/ BeginRound
     \/ \E c \in Cores : EndAdvance(c) \/ EndSlice(c)
  /\ UNCHANGED <<objectVars, arbiterVars, process_status>>

Callback ==
  \E c \in Cores :
    \/ \E t \in Threads : ThreadWakeupCallback(c, t)
    \/ \E x \in Timers : TimerCallback(c, x)

\* The calls that a call in progress has still to make.
ObjectCall ==
  /\ \/ \E t \in Threads, m \in Mutexes : AcquireMutex(t, m)
     \/ \E t \in Threads, s \in Semaphores : AcquireSemaphore(t, s)
     \/ \E t \in Threads, e \in Signals : AcquireSignal(t, e)
     \/ \E t, u \in Threads : AcquireThread(t, u)
     \/ \E t \in Threads, o \in Objects :
          AddWaitingThread(t, o) \/ RemoveWaitingThread(t, o)
     \/ \E o \in Objects : WakeupNext(o) \/ WakeupDone(o)
     \/ \E t \in Threads : SyncWakeUp(t) \/ ResumeFromWait(t)
  /\ UNCHANGED <<arbiterVars, process_status>>

ArbiterCall ==
  /\ \/ \E a \in Addresses : ResumeAllThreads(a) \/ ResumeHighestPriorityThread(a)
     \/ \E t \in Threads : ArbiterWakeUp(t)
  /\ UNCHANGED process_status

KernelCall ==
  \/ \E t \in Threads : Stop(t) \/ MutexesReleased(t) \/ UpdatedPending(t)
  \/ \E t \in Threads, m \in Mutexes : ReleaseThreadMutexes(t, m) \/ UpdatePending(t, m)
  \/ \E p \in Processes, c \in Cores : TerminateNext(p, c) \/ TerminateCurrent(p, c)
  \/ \E x \in Timers : Rearm(x)

\* The supervisor calls of a thread.
WaitSvc(t) ==
  \/ \E objects \in program.handles[t], delay \in program.delays :
       \/ Len(objects) = 1 /\ WaitSynchronization1(t, objects[1], delay)
       \/ WaitSynchronizationAny(t, objects, delay)
       \/ WaitSynchronizationAll(t, objects, delay)
  \/ \E delay \in program.delays : SleepThread(t, delay)

SignalSvc(t) ==
  \/ \E m \in Mutexes : ReleaseMutex(t, m)
  \/ \E s \in Semaphores, n \in program.counts : ReleaseSemaphore(t, s, n)
  \/ \E e \in Events : SignalEvent(t, e)
  \/ \E e \in Signals : Clear(t, e)
  \/ \E x \in Timers, now, again \in BOOLEAN : SetTimer(t, x, now, again)
  \/ \E x \in Timers : CancelTimer(t, x)

ThreadSvc(t) ==
  \/ \E u \in Threads : SvcCreateThread(t, u)
  \/ \E u \in program.targets, p \in program.priorities : SetThreadPriority(t, u, p)
  \/ ExitThread(t)
  \/ \E p \in Processes : TerminateProcess(t, p)

ArbiterSvc(t) ==
  /\ \/ \E a \in program.addresses, value \in program.values : ArbitrateSignal(t, a, value)
     \/ \E a \in program.addresses, timed \in BOOLEAN, delay \in program.delays :
          ArbitrateWait(t, a, timed, delay)
     \/ program.addresses # {} /\ ArbitrateNoWait(t)
  /\ UNCHANGED process_status

Svc(t) == WaitSvc(t) \/ SignalSvc(t) \/ ThreadSvc(t) \/ ArbiterSvc(t)

Step ==
  \/ RunLoop \/ Callback
  \/ ObjectCall \/ ArbiterCall \/ KernelCall
  \/ \E p \in Processes : Run(p)
  \/ \E t \in Threads : Svc(t)

\* One call of svcWaitSynchronizationN names a one-shot event or timer twice.
OneShot(o) == o \in Signals /\ ResetType[o] = "OneShot"
Repeats(objects) ==
  \E i, j \in DOMAIN objects : i # j /\ objects[i] = objects[j] /\ OneShot(objects[i])

\* The code turns away none of the following, and its assertions do not allow
\* for any of them: a thread that another core has stopped makes a supervisor
\* call in the slice its core still executes; a thread waits for all of a list
\* that names a one-shot twice; a thread is stopped while it waits for its own
\* end, or while it sleeps on an address; a process is ended that does not run.
\* The step that is taken is one of these kinds of misuse:
Misused ==
  {kind \in {"undead", "repeated", "own end", "address", "not running"} :
     \E t \in Threads :
       \/ kind = "undead" /\ status[t] = "Dead" /\ Svc(t)
       \/ kind = "repeated" /\ \E objects \in program.handles[t], delay \in program.delays :
            Repeats(objects) /\ WaitSynchronizationAll(t, objects, delay)
       \/ kind = "own end" /\ t \in ToSet(wait_objects[t]) /\ Stop(t)
       \/ kind = "address" /\ status[t] = "WaitArb" /\ Stop(t)
       \/ kind = "not running" /\ \E p \in Processes :
            process_status[p] # "Running" /\ TerminateProcess(t, p)}

Record == misuse' = misuse \cup Misused /\ UNCHANGED program

Next == Step /\ Record

Spec == Init /\ [][Next]_vars

-----------------------------------------------------------------------------
\* Properties.

OpCalls ==
  {"Acquire", "AddWaitingThread", "RemoveWaitingThread", "WakeUp",
   "ResumeFromWait", "WakeupAllWaitingThreads", "Stop", "ReleaseThreadMutexes",
   "TerminateProcessThreads", "ScheduleEvent", "UpdatePending",
   "ResumeAllThreads", "ResumeHighestPriorityThread"}

\* Every variable has its type: statuses, priorities and counts stay in
\* their ranges, and every queue and list holds threads.
TypeOK ==
  /\ status \in [Threads -> Statuses]
  /\ nominal_priority \in [Threads -> Priorities]
  /\ current_priority \in [Threads -> Priorities]
  /\ wakeup_callback \in [Threads -> Callbacks]
  /\ ready_queue \in [Cores -> [Priorities -> Seq(Threads)]]
  /\ current_thread \in [Cores -> Threads \cup {NoThread}]
  /\ thread_list \in [Cores -> Seq(Threads)]
  /\ registered \subseteq Threads
  /\ events \in [Cores -> [Sources -> Nat]]
  /\ phase \in Phases /\ remaining \subseteq Cores /\ late \subseteq Cores
  /\ reschedule_pending \in BOOLEAN /\ halted \in BOOLEAN
  /\ \A i \in DOMAIN todo : todo[i][1] \in OpCalls
  /\ lock_count \in [Mutexes -> Nat]
  /\ holding_thread \in [Mutexes -> Threads \cup {NoThread}]
  /\ mutex_priority \in [Mutexes -> Priorities]
  /\ held_mutexes \in [Threads -> SUBSET Mutexes]
  /\ pending_mutexes \in [Threads -> SUBSET Mutexes]
  /\ available_count \in [Semaphores -> S32]
  /\ signaled \in [Signals -> BOOLEAN]
  /\ periodic \in [Timers -> BOOLEAN]
  /\ waiting_threads \in [Objects -> Seq(Threads)]
  /\ wait_objects \in [Threads -> Seq(Objects)]
  /\ arbiter_threads \in Seq(Threads)
  /\ wait_address \in [Threads -> Addresses \cup {NoAddress}]
  /\ process_status \in [Processes -> {"Created", "Running", "Exited"}]

\* None of the kernel's assertions fails but for one of the five kinds of
\* misuse: without them an object is only acquired when it is available, a
\* waiting list and the arbiter's list only hold waiting threads, a thread is
\* only resumed when it waits for nothing and is neither running nor dead, the
\* wake-up event of a thread only fires while the thread is registered, and no
\* process ends twice.
NoAssertionFails == panic # "none" => misuse # {}

\* A thread whose mutexes are being released because it stopped.
Releasing(t) ==
  \E i \in DOMAIN todo : todo[i][1] = "ReleaseThreadMutexes" /\ todo[i][2] = t

\* Mutex::holding_thread, lock_count and Thread::held_mutexes always agree,
\* in the middle of a call too: a locked mutex has exactly one holder, who has
\* it among the held ones, and only a thread that is being stopped lists
\* mutexes it no longer holds.
MutexOwnership ==
  /\ TypeOK
  /\ \A m \in Mutexes : lock_count[m] > 0 <=> holding_thread[m] # NoThread
  /\ \A m \in Mutexes, t \in Threads : holding_thread[m] = t => m \in held_mutexes[t]
  /\ \A t \in Threads : \A m \in held_mutexes[t] : holding_thread[m] = t \/ Releasing(t)

\* The ready queue of a core holds exactly its ready threads, once each and at
\* the level of their current priority, whatever boosts, wake-ups and
\* terminations happened; and a running thread is its core's current one.
ReadyQueueExact ==
  /\ \A c \in Cores, p \in Priorities :
       /\ NoDuplicates(ready_queue[c][p])
       /\ \A t \in Threads :
            t \in ToSet(ready_queue[c][p]) <=>
              status[t] = "Ready" /\ CoreOf[t] = c /\ current_priority[t] = p
  /\ \A t \in Threads : status[t] = "Running" => current_thread[CoreOf[t]] = t

\* Between two calls the lists of both sides agree: a thread is in the waiting
\* list of exactly the objects it waits for, once; only a waiting thread waits
\* for objects; and pending_mutexes are the mutexes among them.
WaitListsAgree ==
  AtRest =>
    /\ \A o \in Objects : NoDuplicates(waiting_threads[o])
    /\ \A o \in Objects, t \in Threads :
         t \in ToSet(waiting_threads[o]) <=> o \in ToSet(wait_objects[t])
    /\ \A t \in Threads :
         /\ pending_mutexes[t] = ToSet(wait_objects[t]) \cap Mutexes
         /\ wait_objects[t] # <<>> => status[t] \in {"WaitSynchAny", "WaitSynchAll"}

\* No wake-up is lost: between two calls no thread sleeps on an object that it
\* could be given.
NoLostWakeup ==
  AtRest => \A o \in Objects : \A t \in ToSet(waiting_threads[o]) : ~ReadyFor(t, o)

\* A thread that is not dead has the best of its nominal priority and the
\* priorities of the mutexes it holds, and falls back when it releases them,
\* unless a dead thread has made a call.  It says nothing of the priority a mutex
\* itself has from its waiters, so nothing of chains of holders.
InheritedPriority ==
  AtRest /\ "undead" \notin misuse => \A t \in Threads : status[t] # "Dead" =>
    IsBest(current_priority[t], Lent(t, held_mutexes[t], mutex_priority))

\* The timing queue has at most one event of a thread or timer, and one of a
\* thread only while the thread may still need it: never once it runs again
\* or is dead; unless a dead thread has made a call, which can put it to sleep.
NoStaleEvent ==
  "undead" \notin misuse => \A x \in Sources, c \in Cores :
    events[c][x] > 0 =>
      /\ events[c][x] = 1 /\ \A d \in Cores \ {c} : events[d][x] = 0
      /\ x \in Threads => /\ status[x] \in Waits \cup {"Ready"}
                          /\ x \in registered

\* When a thread is told that an object ended its wait, it already owns the
\* mutexes it waited for: that object, or all of them.
ToldWhenOwned ==
  \A t \in Threads, o \in Objects :
    Calling("WakeUp") /\ Head(todo) = Call("WakeUp", t, o) =>
      LET granted == IF status[t] = "WaitSynchAll" THEN ToSet(wait_objects[t]) ELSE {o}
      IN /\ o \in ToSet(wait_objects[t])
         /\ \A m \in granted \cap Mutexes : holding_thread[m] = t

\* Between two calls the arbiter's list holds exactly the threads that sleep
\* on an address, once each, whatever timed out, was signalled or was stopped,
\* as long as there was none of the kinds of misuse.
ArbiterListExact ==
  AtRest /\ misuse = {} =>
    /\ NoDuplicates(arbiter_threads)
    /\ \A t \in Threads : t \in ToSet(arbiter_threads) <=> status[t] = "WaitArb"

\* A context switch never passes over a better thread that is ready on that
\* core, at the priority the thread has at that moment.
SwitchPicksBest ==
  [][\A c \in Cores :
       current_thread'[c] # current_thread[c] =>
         \A u \in Threads :
           status'[u] = "Ready" /\ CoreOf[u] = c =>
             /\ current_thread'[c] # NoThread
             /\ current_priority'[current_thread'[c]] <= current_priority'[u]]_vars

\* Once a process has been ended, by a thread of its own or of another process,
\* nothing of it is left: its threads are dead, those on the other cores and the
\* current ones of cores that have executed or are still to execute too, hold no
\* mutex, sit in no waiting list and have no event.  It stays so until a dead
\* thread makes a call in what is left of the round: the code lets it.
ExitedLeavesNothing ==
  AtRest /\ "undead" \notin misuse => \A t \in Threads : process_status[ProcessOf[t]] = "Exited" =>
    /\ status[t] \in {"Dead", "None"}
    /\ held_mutexes[t] = {}
    /\ \A o \in Objects : t \notin ToSet(waiting_threads[o])
    /\ \A c \in Cores : events[c][t] = 0 /\ t \notin ToSet(thread_list[c])

-----------------------------------------------------------------------------
\* What the run loop guarantees: it never stops, a slice is bounded by the
\* core's downcount, every core advances again (a core that lags executes only
\* what it lags), and an event that is due fires when its core advances.

Frame == Record /\ UNCHANGED <<objectVars, arbiterVars, process_status>>

Fairness ==
  /\ WF_vars((ObjectCall \/ ArbiterCall \/ KernelCall) /\ Record)
  /\ WF_vars(BeginRound /\ Frame)
  /\ SF_vars(BeginRound /\ late' = {} /\ Frame)
  /\ \A c \in Cores :
       /\ SF_vars(EndAdvance(c) /\ Frame)
       /\ SF_vars(EndSlice(c) /\ Frame)
       /\ \A t \in Threads : SF_vars(ThreadWakeupCallback(c, t) /\ Record)

FairSpec == Spec /\ Fairness

\* A call comes to its end: the loop of WakeupAllWaitingThreads runs out of
\* threads to wake, the loops of Stop and TerminateProcessThreads out of
\* mutexes and threads.
CallsEnd == todo # <<>> ~> todo = <<>>

\* A thread that waits with a timeout does not wait forever, whatever the
\* objects and the other threads do, given that rounds in which no core lags come
\* again and again (Fairness; that lags stay small is CoresStayTogether of module
\* CoreTiming): that the timeout is not lost on the way through the events, the
\* callbacks and ResumeFromWait.
TimedWaitEnds ==
  \A t \in Threads :
    (status[t] \in Waits /\ \E c \in Cores : events[c][t] > 0) ~> status[t] \notin Waits

-----------------------------------------------------------------------------
\* What comments and assertions of the code say, and the code does not keep.

\* "Inconsistent AddressArbiter state" (address_arbiter.cpp): every thread in
\* the arbiter's list sleeps on an address.
ArbiterStateConsistent == panic # "Inconsistent AddressArbiter state"

=============================================================================
