------------------------------ MODULE Scheduler -----------------------------
(***************************************************************************)
(* Threads, their ready queues and the run loop: kernel/thread.cpp,        *)
(* System::RunLoop and System::Reschedule of core/core.cpp, and what the   *)
(* kernel uses of core_timing.cpp.                                         *)
(*                                                                         *)
(* One host thread runs everything.  RunLoop visits the emulated cores in  *)
(* order: it fires their due events (Advance), reschedules them, then lets *)
(* each execute a slice, in which the current thread makes supervisor      *)
(* calls.  What may interleave is therefore the order of calls of threads  *)
(* on different cores, of events, and of reschedules; a call itself is     *)
(* never interrupted.  A call that runs other calls (wake every waiter,    *)
(* stop every thread of a process) leaves the calls still to be made in    *)
(* `todo', a stack: while it is not empty only its head may run.           *)
(*                                                                         *)
(* A ready queue is the abstract queue of module PriorityQueue, one FIFO   *)
(* per level, which ThreadQueueList is shown to implement.  The CPU        *)
(* limiter is off, so every thread CanSchedule.  Time is abstracted: an    *)
(* event that is scheduled may fire whenever its core advances.            *)
(***************************************************************************)
EXTENDS Deques, Integers

CONSTANTS
  Threads, NoThread,   \* threads, and the null pointer
  Timers,              \* timer objects: the other things that schedule events
  NumCores,            \* Core::GetNumCores()
  CoreOf,              \* thread -> its processor_id
  ThreadPrioLowest,    \* the worst priority; ThreadPrioHighest is 0
  InitialPriority,     \* thread -> the priority it is created with
  DelayedSets          \* the sets of cores that may lag behind a round

Cores == 0..NumCores - 1
Priorities == 0..ThreadPrioLowest

ASSUME CoresAssumption == NumCores \in Nat \ {0} /\ CoreOf \in [Threads -> Cores]
ASSUME PriorityAssumption ==
  /\ ThreadPrioLowest \in Nat
  /\ InitialPriority \in [Threads -> Priorities]
ASSUME ThreadsAssumption == NoThread \notin Threads
ASSUME DelayedAssumption == DelayedSets \subseteq SUBSET Cores

VARIABLES
  status,            \* thread -> ThreadStatus, "None" before it is created
  nominal_priority,  \* thread -> the priority the application gave it
  current_priority,  \* thread -> that priority or a better, inherited one
  wakeup_callback,   \* thread -> what to call when its wait ends
  ready_queue,       \* core -> level -> threads, oldest first
  current_thread,    \* core -> the thread whose context is loaded
  thread_list,       \* core -> its threads in the order of their creation
  registered,        \* the threads in a wakeup_callback_table
  events,            \* core -> thread or timer -> its events in the queue
  phase,             \* where RunLoop is
  remaining,         \* the cores RunLoop has still to visit in this phase
  late,              \* the cores found behind at the start of the round
  reschedule_pending,\* System::curr_core_reschedule_pending
  halted,            \* the running core was told to stop executing
  todo,              \* the calls still to be made, innermost first
  panic              \* the assertion that failed, or "none"

threadVars == <<status, nominal_priority, current_priority, wakeup_callback,
                ready_queue>>
coreVars == <<current_thread, thread_list, registered>>
loopVars == <<phase, remaining, late>>
flagVars == <<reschedule_pending, halted>>
schedVars == <<threadVars, coreVars, loopVars, flagVars, events, todo, panic>>

Waits == {"WaitSynchAny", "WaitSynchAll", "WaitArb", "WaitSleep"}
Statuses == Waits \cup {"None", "Ready", "Running", "Dead"}
Callbacks == {"null", "SVC_SyncCallback", "ArbiterCallback"}
Phases == {"begin", "catchup", "advance", "execute", "delayed"}
Sources == Threads \cup Timers

-----------------------------------------------------------------------------
\* The stack of calls.

AtRest == panic = "none" /\ todo = <<>>
Calling(op) == panic = "none" /\ todo # <<>> /\ Head(todo)[1] = op
Call(op, x, y) == <<op, x, y>>

\* The head of the stack is replaced by the calls it makes.
Return(calls) == todo' = calls \o Tail(todo)

\* ASSERT_MSG: the emulator goes no further once an assertion has failed.
AssertThat(condition, message) == panic' = IF condition THEN panic ELSE message

-----------------------------------------------------------------------------
\* RunLoop's cores and the flags that make it reschedule.

\* The loops over cpu_cores visit them in order.
IsRunningCore(c) == c \in remaining /\ \A d \in remaining : c <= d

Advancing(c) == AtRest /\ phase \in {"catchup", "advance"} /\ IsRunningCore(c)
Executing(c) == AtRest /\ phase \in {"execute", "delayed"} /\ IsRunningCore(c)

\* The current thread of the running core executes a supervisor call.  The
\* code looks at current_thread only, not at the status of the thread.
Executes(t) ==
  /\ Executing(CoreOf[t]) /\ ~halted
  /\ current_thread[CoreOf[t]] = t

\* System::PrepareReschedule: stop the running core and ask for a reschedule.
\* Outside a slice there is no execution to stop.
PrepareReschedule ==
  /\ reschedule_pending' = TRUE
  /\ halted' = (phase \in {"execute", "delayed"})

\* Timing::ScheduleEvent on the timer of the running core.
Scheduled(ev, x) ==
  [c \in Cores |-> [ev[c] EXCEPT ![x] = @ + IF IsRunningCore(c) THEN 1 ELSE 0]]

\* Timing::UnscheduleEvent: every core's queue is searched.
Unscheduled(ev, x) == [c \in Cores |-> [ev[c] EXCEPT ![x] = 0]]

\* Thread::WakeAfterDelay: a delay of -1 ns schedules nothing.
WakeAfterDelay(ev, t, delay) == IF delay = "forever" THEN ev ELSE Scheduled(ev, t)

-----------------------------------------------------------------------------
\* The ready queue of a thread's core.

push_back(q, t, p) == [q EXCEPT ![CoreOf[t]][p] = Append(@, t)]
push_front(q, t, p) == [q EXCEPT ![CoreOf[t]][p] = PushFront(@, t)]
remove(q, t, p) == [q EXCEPT ![CoreOf[t]][p] = Without(@, t)]
move(q, t, old, new) == push_back(remove(q, t, old), t, new)

\* Mutant: a ready thread keeps its place in the queue.
BoostPriorityQueued(t, p) ==
  /\ current_priority' = [current_priority EXCEPT ![t] = p]
  /\ UNCHANGED ready_queue

\* Thread::BoostPriority.
BoostPriority(t, p) ==
  /\ current_priority' = [current_priority EXCEPT ![t] = p]
  /\ ready_queue' = IF status[t] = "Ready"
                    THEN move(ready_queue, t, current_priority[t], p)
                    ELSE ready_queue

\* KernelSystem::CreateThread, with make_ready.
CreateThread(t) ==
  /\ status[t] = "None"
  /\ status' = [status EXCEPT ![t] = "Ready"]
  /\ thread_list' = [thread_list EXCEPT ![CoreOf[t]] = Append(@, t)]
  /\ registered' = registered \cup {t}
  /\ ready_queue' = push_back(ready_queue, t, current_priority[t])
  /\ UNCHANGED <<nominal_priority, current_priority, wakeup_callback,
                 current_thread, loopVars, events, todo, panic>>

-----------------------------------------------------------------------------
\* ThreadManager::PopNextReadyThread and SwitchContext.

RunningOn(c) ==
  /\ current_thread[c] # NoThread
  /\ status[current_thread[c]] = "Running"

\* The levels pop_first, or pop_first_better when a thread is running, may
\* pop from.
PopLevels(c) ==
  {p \in Priorities : /\ ready_queue[c][p] # <<>>
                      /\ RunningOn(c) => p < current_priority[current_thread[c]]}

\* Mutant: pop_first even when the current thread can go on.
PopAnyway(c, next) ==
  LET levels == {p \in Priorities : ready_queue[c][p] # <<>>} IN
    IF levels = {}
    THEN next = IF RunningOn(c) THEN current_thread[c] ELSE NoThread
    ELSE \E p \in levels : /\ \A q \in levels : p <= q
                           /\ next = Head(ready_queue[c][p])

\* next is the thread to run: the oldest of the best level, the running
\* thread when no level is better than its own, or none.
PopNextReadyThread(c, next) ==
  IF PopLevels(c) = {}
  THEN next = IF RunningOn(c) THEN current_thread[c] ELSE NoThread
  ELSE \E p \in PopLevels(c) : /\ \A q \in PopLevels(c) : p <= q
                               /\ next = Head(ready_queue[c][p])

\* SwitchContext(next): a thread that was still running goes to the front of
\* its level; next leaves the queue, its wake-up event is cancelled and it
\* runs.  A next that is not ready would be queued again.
SwitchContext(c, next) ==
  LET cur == current_thread[c]
      put_back == IF RunningOn(c)
                  THEN push_front(ready_queue, cur, current_priority[cur])
                  ELSE ready_queue
      stopped == IF RunningOn(c) THEN [status EXCEPT ![cur] = "Ready"] ELSE status
      left == IF next = NoThread THEN put_back
              ELSE remove(put_back, next, current_priority[next])
      switches == next # NoThread /\ stopped[next] = "Ready"
      requeues == next # NoThread /\ stopped[next] # "Ready"
  IN /\ current_thread' =
          IF requeues THEN current_thread ELSE [current_thread EXCEPT ![c] = next]
     /\ status' = IF switches THEN [stopped EXCEPT ![next] = "Running"] ELSE stopped
     /\ ready_queue' = IF requeues THEN push_back(left, next, current_priority[next])
                       ELSE left
     /\ events' = IF switches THEN Unscheduled(events, next) ELSE events

\* ThreadManager::Reschedule; switching from idle to idle changes nothing.
Reschedule(c) ==
  \E next \in Threads \cup {NoThread} :
    PopNextReadyThread(c, next) /\ SwitchContext(c, next)

-----------------------------------------------------------------------------
\* System::RunLoop.

\* The cores behind the global time are found.
BeginRound ==
  /\ AtRest /\ phase = "begin"
  /\ \E behind \in DelayedSets :
       /\ late' = behind
       /\ phase' = IF behind = {} THEN "advance" ELSE "catchup"
       /\ remaining' = IF behind = {} THEN Cores ELSE behind
  /\ UNCHANGED <<threadVars, coreVars, flagVars, events, todo, panic>>

\* What follows a phase whose last core has been visited.  A core that lags
\* by more than min_delay executes alone, the one that lags most; when the
\* lag is small the round goes on as usual.
NextPhase ==
  \/ /\ phase = "catchup"
     /\ \E c \in late : phase' = "delayed" /\ remaining' = {c} /\ late' = {}
  \/ /\ phase = "catchup"
     /\ phase' = "advance" /\ remaining' = Cores /\ late' = {}
  \/ /\ phase = "advance"
     /\ phase' = "execute" /\ remaining' = Cores /\ UNCHANGED late
  \/ /\ phase \in {"execute", "delayed"}
     /\ phase' = "begin" /\ remaining' = {} /\ UNCHANGED late

\* The loop variable moves on.
Visited(c) ==
  IF remaining = {c} THEN NextPhase
  ELSE remaining' = remaining \ {c} /\ UNCHANGED <<phase, late>>

\* Timer::Advance has fired the events that are due; the core is
\* rescheduled.
EndAdvance(c) ==
  /\ Advancing(c)
  /\ Reschedule(c)
  /\ Visited(c)
  /\ UNCHANGED <<nominal_priority, current_priority, wakeup_callback,
                 thread_list, registered, flagVars, todo, panic>>

\* The slice of core c ends.  Idle cores, and those that were asked to, are
\* rescheduled.
EndSlice(c) ==
  /\ Executing(c)
  /\ IF current_thread[c] = NoThread \/ reschedule_pending
     THEN Reschedule(c)
     ELSE UNCHANGED <<status, ready_queue, current_thread, events>>
  /\ reschedule_pending' = FALSE /\ halted' = FALSE
  /\ Visited(c)
  /\ UNCHANGED <<nominal_priority, current_priority, wakeup_callback,
                 thread_list, registered, todo, panic>>

SchedInit ==
  /\ status = [t \in Threads |-> "None"]
  /\ nominal_priority = InitialPriority
  /\ current_priority = InitialPriority
  /\ wakeup_callback = [t \in Threads |-> "null"]
  /\ ready_queue = [c \in Cores |-> [p \in Priorities |-> <<>>]]
  /\ current_thread = [c \in Cores |-> NoThread]
  /\ thread_list = [c \in Cores |-> <<>>]
  /\ registered = {}
  /\ events = [c \in Cores |-> [x \in Sources |-> 0]]
  /\ phase = "begin" /\ remaining = {} /\ late = {}
  /\ reschedule_pending = FALSE /\ halted = FALSE
  /\ todo = <<>> /\ panic = "none"
=============================================================================
