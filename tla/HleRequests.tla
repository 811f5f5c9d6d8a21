----------------------------- MODULE HleRequests -----------------------------
(***************************************************************************)
(* Requests to services that the emulator implements itself (kernel/       *)
(* hle_ipc.h, server_session.cpp) and the save states that must not be     *)
(* taken in the middle of one (core.cpp).                                  *)
(*                                                                         *)
(* Three kinds of host threads meet here: the emulator thread, which runs  *)
(* all threads of the console, System::RunLoop and Timing::Timer::Advance; *)
(* the host threads that run the blocking section of a request; and the    *)
(* frontend, which sends signals.  Between the start of a section and the  *)
(* step that puts the client to sleep the emulator thread can be overtaken *)
(* by the section.                                                         *)
(*                                                                         *)
(* Only the wake-up events of threads are modelled, as counts for every    *)
(* thread: their times are left open, and an event in the queue may be the *)
(* next that is due.                                                       *)
(***************************************************************************)
EXTENDS Integers, FiniteSets

CONSTANTS
  Threads,
  NoThread,   \* the emulator thread is not inside RunAsync
  Empty       \* a slot in which no state was saved

ASSUME NoThreadAssumption == NoThread \notin Threads

VARIABLES
  in_call,        \* the thread whose section was started and that does not sleep yet
  status,         \* thread -> "Running" (or ready), "WaitIPC", "WaitHleEvent", "Dead"
  section,        \* the threads for which a host thread runs a section
  ts_queue,       \* thread -> its wake-up events that other host threads have pushed
  event_queue,    \* thread -> its wake-up events in the queue of the timer
  wakeup_callback_table,
  pending_async_operations,
  current_signal, \* what the frontend asks for
  save_state_request_status,
  expired,        \* five seconds have passed since the request
  slot,           \* what was saved
  panic           \* what has stopped the emulator, or "none"

kernelVars == <<status, event_queue, wakeup_callback_table>>
asyncVars == <<in_call, section, ts_queue, pending_async_operations>>
requestVars == <<current_signal, save_state_request_status, expired, slot>>
vars == <<kernelVars, asyncVars, requestVars, panic>>

NoEvents == [t \in Threads |-> 0]
Fresh == [status |-> [t \in Threads |-> "Running"], event_queue |-> NoEvents,
          wakeup_callback_table |-> Threads]

Init ==
  /\ in_call = NoThread /\ section = {} /\ ts_queue = NoEvents
  /\ status = Fresh.status /\ event_queue = NoEvents /\ wakeup_callback_table = Threads
  /\ pending_async_operations = 0
  /\ current_signal = "None" /\ save_state_request_status = "NONE"
  /\ expired = FALSE /\ slot = Empty /\ panic = "none"

\* The emulator thread is between two calls.
Free == panic = "none" /\ in_call = NoThread

-----------------------------------------------------------------------------
\* Requests.

\* RunAsync and RunOnThreadWorker, up to the start of the section.
RunAsync(t) ==
  /\ Free /\ status[t] = "Running"
  /\ pending_async_operations' = pending_async_operations + 1
  /\ section' = section \cup {t} /\ in_call' = t
  /\ UNCHANGED <<kernelVars, ts_queue, requestVars, panic>>

\* SleepClientThread, from RunAsync: without a timeout.
SleepClientThread ==
  /\ panic = "none" /\ in_call # NoThread
  /\ status' = [status EXCEPT ![in_call] = "WaitHleEvent"]
  /\ in_call' = NoThread
  /\ UNCHANGED <<event_queue, wakeup_callback_table, section, ts_queue,
                 pending_async_operations, requestVars, panic>>

\* Mutant: the section's events go straight to the queue that only the
\* emulator thread may use, and one of two pushes at a time is lost.
WakeAfterDelayUnsafe(t) ==
  /\ \/ event_queue' = [event_queue EXCEPT ![t] = @ + 1]
     \/ UNCHANGED event_queue
  /\ UNCHANGED ts_queue

\* WakeAfterDelay in thread-safe mode: ScheduleEvent pushes to ts_queue.
WakeAfterDelay(t) ==
  /\ ts_queue' = [ts_queue EXCEPT ![t] = @ + 1]
  /\ UNCHANGED event_queue

\* The section of a request ends, on its host thread.
EndSection(t) ==
  /\ panic = "none" /\ t \in section
  /\ section' = section \ {t}
  /\ WakeAfterDelay(t)
  /\ UNCHANGED <<status, wakeup_callback_table, in_call, pending_async_operations,
                 requestVars, panic>>

\* RunAsync that is not really asynchronous, for a result that is due later.
RunDeterministic(t) ==
  /\ Free /\ status[t] = "Running"
  /\ pending_async_operations' = pending_async_operations + 1
  /\ status' = [status EXCEPT ![t] = "WaitHleEvent"]
  /\ event_queue' = [event_queue EXCEPT ![t] = @ + 1]
  /\ UNCHANGED <<wakeup_callback_table, in_call, section, ts_queue,
                 requestVars, panic>>

\* A handler that answers at once: HandleSyncRequest lets the client sleep for
\* IPCDelayNanoseconds.
HandleSyncRequest(t) ==
  /\ Free /\ status[t] = "Running"
  /\ status' = [status EXCEPT ![t] = "WaitIPC"]
  /\ event_queue' = [event_queue EXCEPT ![t] = @ + 1]
  /\ UNCHANGED <<wakeup_callback_table, asyncVars, requestVars, panic>>

-----------------------------------------------------------------------------
\* Wake-ups.

\* Timer::MoveEvents, as part of Advance.
MoveEvents ==
  /\ Free /\ ts_queue # NoEvents
  /\ event_queue' = [t \in Threads |-> event_queue[t] + ts_queue[t]]
  /\ ts_queue' = NoEvents
  /\ UNCHANGED <<status, wakeup_callback_table, in_call, section,
                 pending_async_operations, requestVars, panic>>

\* AsyncWakeUpCallback::WakeUp reports the end of an operation.
AfterWakeUp(t) ==
  IF status[t] = "WaitHleEvent" THEN pending_async_operations - 1
  ELSE pending_async_operations

\* An event is due: ThreadWakeupCallback.  wakeup_callback_table.at() throws for
\* a thread that is not in the table.
ThreadWakeupCallback(t) ==
  /\ Free /\ event_queue[t] > 0
  /\ event_queue' = [event_queue EXCEPT ![t] = @ - 1]
  /\ IF t \in wakeup_callback_table
     THEN /\ status' = [status EXCEPT ![t] = "Running"]
          /\ pending_async_operations' = AfterWakeUp(t)
          /\ UNCHANGED panic
     ELSE /\ panic' = "out_of_range"
          /\ UNCHANGED <<status, pending_async_operations>>
  /\ UNCHANGED <<wakeup_callback_table, in_call, section, ts_queue, requestVars>>

\* Thread::Stop, called for a thread that exits and for the threads of a process
\* that is terminated: UnscheduleEvent looks in event_queue only, and nobody
\* reports the end of the operation that the thread was waiting for.
Stop(t) ==
  /\ Free /\ status[t] # "Dead"
  /\ status' = [status EXCEPT ![t] = "Dead"]
  /\ event_queue' = [event_queue EXCEPT ![t] = 0]
  /\ wakeup_callback_table' = wakeup_callback_table \ {t}
  /\ UNCHANGED <<asyncVars, requestVars, panic>>

-----------------------------------------------------------------------------
\* Signals and save states.

\* SendSignal: another signal that was not taken yet is not replaced.
SendSignal(s) ==
  /\ current_signal = "None"
  /\ current_signal' = s
  /\ UNCHANGED <<kernelVars, asyncVars, save_state_request_status, expired, slot, panic>>

\* The clock of the host passes save_state_request_time + 5 s.
Expire ==
  /\ save_state_request_status # "NONE" /\ ~expired
  /\ expired' = TRUE
  /\ UNCHANGED <<kernelVars, asyncVars, current_signal, save_state_request_status,
                 slot, panic>>

\* System::serialize to a file: every timer moves its events first.
Snapshot ==
  [status |-> status, wakeup_callback_table |-> wakeup_callback_table,
   event_queue |-> [t \in Threads |-> event_queue[t] + ts_queue[t]]]

\* A kernel as a new one or as it was saved.  pending_async_operations is not
\* saved.
ReplaceKernel(k) ==
  /\ status' = k.status /\ event_queue' = k.event_queue
  /\ wakeup_callback_table' = k.wakeup_callback_table
  /\ ts_queue' = NoEvents /\ pending_async_operations' = 0

\* Mutant: nobody asks whether requests are in progress.
NeverPending == FALSE

AreAsyncOperationsPending == pending_async_operations # 0

\* SaveState; one that fails leaves the slot as it was, or nothing in it that
\* can be loaded when the file is not written in full.
SaveState ==
  /\ slot' \in {Snapshot, slot, Empty}
  /\ event_queue' = Snapshot.event_queue /\ ts_queue' = NoEvents
  /\ UNCHANGED <<status, wakeup_callback_table, pending_async_operations, panic>>

\* LoadState is refused, works, or fails after the old system was shut down.
LoadState ==
  /\ \/ UNCHANGED <<kernelVars, ts_queue, pending_async_operations, panic>>
     \/ ReplaceKernel(slot) /\ UNCHANGED panic
     \/ ReplaceKernel(Fresh) /\ panic' = "half loaded"
  /\ UNCHANGED slot

\* Mutant: a request waits for as long as it takes.
GiveUpNever == FALSE

GiveUp == expired

\* The part of RunLoop that performs a request, refuses it after five seconds
\* or lets it wait.
PerformRequest(request) ==
  \/ /\ ~AreAsyncOperationsPending
     /\ save_state_request_status' = "NONE" /\ expired' = FALSE
     /\ IF request = "SAVING" THEN SaveState ELSE LoadState
  \/ /\ AreAsyncOperationsPending
     /\ save_state_request_status' = IF GiveUp THEN "NONE" ELSE request
     /\ expired' = FALSE
     /\ UNCHANGED <<kernelVars, ts_queue, pending_async_operations, slot, panic>>

\* RunLoop up to the execution of the cores.  A signal to save or load while a
\* request waits is dropped; a reset does not touch the request.  A section
\* that runs during a reset ends with a thread whose manager was destroyed: it
\* may do anything.
RunLoop ==
  /\ Free
  /\ current_signal' = "None"
  /\ \/ /\ current_signal = "Reset"
        /\ ReplaceKernel(Fresh)
        /\ section' = {}
        /\ panic' \in IF section = {} THEN {"none"} ELSE {"none", "destroyed kernel"}
        /\ UNCHANGED <<save_state_request_status, expired, slot>>
     \/ /\ \/ current_signal \in {"Save", "Load"} /\ save_state_request_status # "NONE"
           \/ current_signal = "Load" /\ slot = Empty
        /\ UNCHANGED <<kernelVars, section, ts_queue, pending_async_operations,
                       save_state_request_status, expired, slot, panic>>
     \/ /\ current_signal = "Save" \/ (current_signal = "Load" /\ slot # Empty)
        /\ save_state_request_status = "NONE"
        /\ PerformRequest(IF current_signal = "Save" THEN "SAVING" ELSE "LOADING")
        /\ UNCHANGED section
     \/ /\ current_signal = "None" /\ save_state_request_status # "NONE"
        /\ PerformRequest(save_state_request_status)
        /\ UNCHANGED section
  /\ UNCHANGED in_call

Next ==
  \/ \E t \in Threads :
       \/ RunAsync(t) \/ EndSection(t)
       \/ RunDeterministic(t) \/ HandleSyncRequest(t)
       \/ ThreadWakeupCallback(t) \/ Stop(t)
  \/ SleepClientThread \/ MoveEvents \/ RunLoop \/ Expire
  \/ \E s \in {"Save", "Load", "Reset"} : SendSignal(s)

\* A section ends some day: the services put timeouts on what they wait for.
\* The emulator thread returns to RunLoop and to Advance again and again, and
\* emulated time passes every event; RunAsync always goes on to its sleep.  The
\* frontend does not send a signal for every turn of RunLoop.
Fairness ==
  /\ WF_vars(SleepClientThread) /\ SF_vars(MoveEvents)
  /\ SF_vars(RunLoop) /\ SF_vars(RunLoop /\ current_signal = "None") /\ WF_vars(Expire)
  /\ \A t \in Threads : WF_vars(EndSection(t)) /\ SF_vars(ThreadWakeupCallback(t))

Spec == Init /\ [][Next]_vars /\ Fairness

-----------------------------------------------------------------------------
\* Properties.

TypeOK ==
  /\ status \in [Threads -> {"Running", "WaitIPC", "WaitHleEvent", "Dead"}]
  /\ pending_async_operations \in Nat /\ in_call \in Threads \cup {NoThread}
  /\ save_state_request_status \in {"NONE", "SAVING", "LOADING"}

\* How many things will wake a thread: a section that is still running, or an
\* event in one of the two queues.
WakeUps(t) == (IF t \in section THEN 1 ELSE 0) + ts_queue[t] + event_queue[t]

\* The living threads that have an operation in progress, and the ones that were
\* stopped before its section or its event was through.
Waited == {t \in Threads : status[t] = "WaitHleEvent" \/ in_call = t}
LeftOver == {t \in Threads : status[t] = "Dead" /\ WakeUps(t) > 0}

\* A thread that sleeps for a service has exactly one thing that will wake it; a
\* thread that is awake or starting a section has none left over, so that the
\* callback finds its thread in the status it asserts (ThreadCallback::WakeUp).
\* A thread that was stopped leaves something over only if it was stopped in the
\* middle of an operation, which then is still counted: Stop cancels what is in
\* the queue, and if an event fires for a thread that is not in the table any
\* more, an operation is counted that no living thread waits for.
OneWakeUp ==
  /\ TypeOK
  /\ \A t \in Threads \ {u \in Threads : status[u] = "Dead"} :
       /\ WakeUps(t) = IF status[t] # "Running" \/ in_call = t THEN 1 ELSE 0
       /\ t \in wakeup_callback_table
  /\ Cardinality(Waited \cup LeftOver) <= pending_async_operations
  /\ panic = "out_of_range" => Cardinality(Waited) < pending_async_operations

\* A saved state is whole: no thread in it waits for a section that a later
\* process will not have, and every thread that sleeps in it has its event
\* (RunLoop, AreAsyncOperationsPending, Timer::serialize).
SavedIsWhole ==
  slot # Empty =>
    \A t \in Threads :
      /\ slot.status[t] # "WaitHleEvent"
      /\ slot.event_queue[t] = IF slot.status[t] = "WaitIPC" THEN 1 ELSE 0
      /\ t \in slot.wakeup_callback_table <=> slot.status[t] # "Dead"

\* The client of a service does not sleep for ever, whichever way the wake-up
\* takes and whatever is saved and loaded meanwhile.
ClientWakes ==
  \A t \in Threads :
    status[t] \in {"WaitIPC", "WaitHleEvent"}
      ~> status[t] \in {"Running", "Dead"} \/ panic # "none"

\* A request to save or load is performed or refused in the end, even when an
\* operation of a thread that was stopped is never reported as ended (RunLoop).
RequestEnds ==
  save_state_request_status # "NONE" ~> save_state_request_status = "NONE" \/ panic # "none"
=============================================================================
