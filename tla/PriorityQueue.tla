---------------------------- MODULE PriorityQueue ---------------------------
(***************************************************************************)
(* What the thread manager of one core expects of its ready queue: one     *)
(* FIFO queue per priority level, and pops that return the oldest thread   *)
(* of the best (numerically smallest) level that has one.  How the levels  *)
(* are found is left out: ThreadQueueList shows that the linked list of    *)
(* common/thread_queue_list.h implements this.                             *)
(***************************************************************************)
EXTENDS Deques

CONSTANTS Threads, NoThread, NUM_QUEUES

Levels == 0..NUM_QUEUES - 1

VARIABLES
  queue,             \* level -> its threads, oldest first
  status,            \* thread -> its status
  current_priority,  \* thread -> the level it is queued at when Ready
  current_thread,    \* the thread whose context is loaded, or NoThread
  op,                \* the queue operation in progress
  popped             \* what the last pop returned

vars == <<queue, status, current_priority, current_thread, op, popped>>

Statuses == {"absent", "Ready", "Running", "Waiting", "Dead"}
Pops == {"pop_first", "pop_first_better"}
Ops == Pops \cup {"idle", "get_first", "switch"}

TypeOK ==
  /\ queue \in [Levels -> Seq(Threads)]
  /\ status \in [Threads -> Statuses]
  /\ current_priority \in [Threads -> Levels]
  /\ current_thread \in Threads \cup {NoThread}
  /\ op \in Ops
  /\ popped \in Threads \cup {NoThread}

Init ==
  /\ queue = [p \in Levels |-> <<>>]
  /\ status = [t \in Threads |-> "absent"]
  /\ current_priority = [t \in Threads |-> 0]
  /\ current_thread = NoThread
  /\ op = "idle"
  /\ popped = NoThread

IsRunning == current_thread # NoThread /\ status[current_thread] = "Running"

-----------------------------------------------------------------------------
\* A new thread enters at the back of its level.
CreateThread(t, p) ==
  /\ op = "idle" /\ status[t] = "absent"
  /\ queue' = [queue EXCEPT ![p] = Append(@, t)]
  /\ status' = [status EXCEPT ![t] = "Ready"]
  /\ current_priority' = [current_priority EXCEPT ![t] = p]
  /\ UNCHANGED <<current_thread, op, popped>>

\* A waiting thread becomes ready at the back of its level.
ResumeFromWait(t) ==
  /\ op = "idle" /\ status[t] = "Waiting"
  /\ queue' = [queue EXCEPT ![current_priority[t]] = Append(@, t)]
  /\ status' = [status EXCEPT ![t] = "Ready"]
  /\ UNCHANGED <<current_priority, current_thread, op, popped>>

\* The running thread blocks; its context stays loaded until the next switch.
Block ==
  /\ op = "idle" /\ IsRunning
  /\ status' = [status EXCEPT ![current_thread] = "Waiting"]
  /\ UNCHANGED <<queue, current_priority, current_thread, op, popped>>

\* A thread ends; a ready one leaves the queue.
Stop(t) ==
  /\ op = "idle" /\ status[t] \in {"Ready", "Running", "Waiting"}
  /\ queue' = IF status[t] = "Ready"
              THEN [queue EXCEPT ![current_priority[t]] = Without(@, t)]
              ELSE queue
  /\ status' = [status EXCEPT ![t] = "Dead"]
  /\ UNCHANGED <<current_priority, current_thread, op, popped>>

\* A priority change requeues a ready thread at the back of its new level.
BoostPriority(t, p) ==
  /\ op = "idle" /\ status[t] # "absent"
  /\ LET left == [queue EXCEPT ![current_priority[t]] = Without(@, t)]
     IN  queue' = IF status[t] = "Ready"
                  THEN [left EXCEPT ![p] = Append(@, t)]
                  ELSE queue
  /\ current_priority' = [current_priority EXCEPT ![t] = p]
  /\ UNCHANGED <<status, current_thread, op, popped>>

\* The scheduler asks for a thread: any, or one better than the running one.
StartPop ==
  /\ op = "idle"
  /\ op' = IF IsRunning THEN "pop_first_better" ELSE "pop_first"
  /\ UNCHANGED <<queue, status, current_priority, current_thread, popped>>

\* The first level that a pop does not look at.
Limit ==
  IF op = "pop_first_better" THEN current_priority[current_thread] ELSE NUM_QUEUES

\* p is the best level below the limit that holds a thread.
IsBest(p) ==
  /\ p < Limit /\ queue[p] # <<>>
  /\ \A q \in Levels : q < p => queue[q] = <<>>

NoneBelowLimit == \A q \in Levels : q < Limit => queue[q] = <<>>

Pop ==
  /\ op \in Pops
  /\ \/ \E p \in Levels : /\ IsBest(p)
                          /\ popped' = Head(queue[p])
                          /\ queue' = [queue EXCEPT ![p] = Tail(@)]
     \/ NoneBelowLimit /\ popped' = NoThread /\ UNCHANGED queue
  /\ op' = "switch"
  /\ UNCHANGED <<status, current_priority, current_thread>>

\* The popped thread runs; a preempted one goes to the front of its level.
SwitchContext ==
  /\ op = "switch"
  /\ IF popped = NoThread
     THEN /\ current_thread' = IF IsRunning THEN current_thread ELSE NoThread
          /\ UNCHANGED <<queue, status>>
     ELSE /\ queue' = IF IsRunning
                      THEN [queue EXCEPT ![current_priority[current_thread]] =
                              PushFront(@, current_thread)]
                      ELSE queue
          /\ status' = [t \in Threads |->
                          IF t = popped THEN "Running"
                          ELSE IF t = current_thread /\ IsRunning THEN "Ready"
                          ELSE status[t]]
          /\ current_thread' = popped
  /\ op' = "idle" /\ popped' = NoThread
  /\ UNCHANGED current_priority

\* SleepThread(0) yields only if some thread is ready.
StartGetFirst ==
  /\ op = "idle" /\ IsRunning
  /\ op' = "get_first"
  /\ UNCHANGED <<queue, status, current_priority, current_thread, popped>>

GetFirst ==
  /\ op = "get_first"
  /\ status' = IF \A q \in Levels : queue[q] = <<>>
               THEN status
               ELSE [status EXCEPT ![current_thread] = "Waiting"]
  /\ op' = "idle"
  /\ UNCHANGED <<queue, current_priority, current_thread, popped>>

Next ==
  \/ \E t \in Threads, p \in Levels : CreateThread(t, p) \/ BoostPriority(t, p)
  \/ \E t \in Threads : ResumeFromWait(t) \/ Stop(t)
  \/ Block \/ StartPop \/ Pop \/ SwitchContext \/ StartGetFirst \/ GetFirst

Spec == Init /\ [][Next]_vars
=============================================================================
