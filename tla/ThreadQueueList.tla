--------------------------- MODULE ThreadQueueList --------------------------
(***************************************************************************)
(* The ready queue of one core: struct ThreadQueueList of                  *)
(* common/thread_queue_list.h as ThreadManager uses it.                    *)
(*                                                                         *)
(* Priority levels that have ever been used are linked in a list, best     *)
(* level first; push_front, push_back and remove rely on their caller to   *)
(* have linked the level, and pop_first_better relies on the level of the  *)
(* running thread being linked: its loop test `cur < stop` is true of the  *)
(* null pointer, so falling off the end of the list is a null dereference. *)
(* The walk along the list is one step per level visited.                  *)
(*                                                                         *)
(* A Queue* is the number ToIndex gives it; the order of these numbers is  *)
(* the order of the pointers (nullptr = 0, UnlinkedTag() = 1, then the     *)
(* levels).                                                                *)
(***************************************************************************)
EXTENDS Deques, Integers

CONSTANTS Threads, NoThread, NUM_QUEUES

ASSUME LevelsAssumption == NUM_QUEUES \in Nat \ {0}
ASSUME NoThreadAssumption == NoThread \notin Threads

Levels == 0..NUM_QUEUES - 1
Null == -2
UnlinkedTag == -1

VARIABLES
  first,             \* the best level ever used, or Null
  next_nonempty,     \* level -> next level ever used, Null, or UnlinkedTag
  data,              \* level -> its threads, oldest first
  status,            \* thread -> its status
  current_priority,  \* thread -> its level
  current_thread,    \* the thread whose context is loaded, or NoThread
  op,                \* the queue operation in progress
  cur,               \* the walk's current level, or Null
  popped             \* what the last pop returned

vars == <<first, next_nonempty, data, status, current_priority, current_thread,
          op, cur, popped>>
links == <<first, next_nonempty>>
walk == <<op, cur, popped>>

Statuses == {"absent", "Ready", "Running", "Waiting", "Dead"}
Ops == {"idle", "pop_first", "pop_first_better", "get_first", "switch"}

IsLinked(p) == next_nonempty[p] # UnlinkedTag
IsRunning == current_thread # NoThread /\ status[current_thread] = "Running"

Init ==
  /\ first = Null
  /\ next_nonempty = [p \in Levels |-> UnlinkedTag]
  /\ data = [p \in Levels |-> <<>>]
  /\ status = [t \in Threads |-> "absent"]
  /\ current_priority = [t \in Threads |-> 0]
  /\ current_thread = NoThread
  /\ op = "idle" /\ cur = Null /\ popped = NoThread

-----------------------------------------------------------------------------
\* Mutant of Link: a level without a predecessor forgets the rest of the list.
LinkDropsRest(p) ==
  \/ \E i \in Levels :
       /\ i < p /\ IsLinked(i)
       /\ \A j \in Levels : i < j /\ j < p => ~IsLinked(j)
       /\ next_nonempty' = [next_nonempty EXCEPT ![p] = next_nonempty[i], ![i] = p]
       /\ UNCHANGED first
  \/ /\ \A j \in Levels : j < p => ~IsLinked(j)
     /\ next_nonempty' = [next_nonempty EXCEPT ![p] = Null]
     /\ first' = p

\* Mutant of Link: the two assignments swapped, so the level follows itself.
LinkSwapped(p) ==
  \/ \E i \in Levels :
       /\ i < p /\ IsLinked(i)
       /\ \A j \in Levels : i < j /\ j < p => ~IsLinked(j)
       /\ next_nonempty' = [next_nonempty EXCEPT ![p] = p, ![i] = p]
       /\ UNCHANGED first
  \/ /\ \A j \in Levels : j < p => ~IsLinked(j)
     /\ next_nonempty' = [next_nonempty EXCEPT ![p] = first]
     /\ first' = p

\* link(): insert an unused level after its nearest used predecessor, or in
\* front of the list when it has none.
Link(p) ==
  \/ \E i \in Levels :
       /\ i < p /\ IsLinked(i)
       /\ \A j \in Levels : i < j /\ j < p => ~IsLinked(j)
       /\ next_nonempty' = [next_nonempty EXCEPT ![p] = next_nonempty[i], ![i] = p]
       /\ UNCHANGED first
  \/ /\ \A j \in Levels : j < p => ~IsLinked(j)
     /\ next_nonempty' = [next_nonempty EXCEPT ![p] = first]
     /\ first' = p

\* prepare(): link a level the first time it is used.
Prepare(p) == IF IsLinked(p) THEN UNCHANGED links ELSE Link(p)

push_back(d, p, t) == [d EXCEPT ![p] = Append(@, t)]
push_front(d, p, t) == [d EXCEPT ![p] = PushFront(@, t)]
remove(d, p, t) == [d EXCEPT ![p] = Without(@, t)]

\* move(): together with Prepare(new), which it calls between the two.
move(d, t, old, new) == push_back(remove(d, old, t), new, t)

\* KernelSystem::CreateThread: the only place where a level is first used
\* before the thread has it as its priority.
CreateThread(t, p) ==
  /\ op = "idle" /\ status[t] = "absent"
  /\ Prepare(p)
  /\ data' = push_back(data, p, t)
  /\ status' = [status EXCEPT ![t] = "Ready"]
  /\ current_priority' = [current_priority EXCEPT ![t] = p]
  /\ UNCHANGED <<current_thread, walk>>

\* Mutant of ResumeFromWait: queued at the best level whatever the priority.
ResumeAtFirst(t) ==
  /\ op = "idle" /\ status[t] = "Waiting"
  /\ data' = push_back(data, first, t)
  /\ status' = [status EXCEPT ![t] = "Ready"]
  /\ UNCHANGED <<links, current_priority, current_thread, walk>>

\* Thread::ResumeFromWait: no prepare, the level was linked when the thread
\* was given it.
ResumeFromWait(t) ==
  /\ op = "idle" /\ status[t] = "Waiting"
  /\ data' = push_back(data, current_priority[t], t)
  /\ status' = [status EXCEPT ![t] = "Ready"]
  /\ UNCHANGED <<links, current_priority, current_thread, walk>>

\* The running thread starts to wait.
Block ==
  /\ op = "idle" /\ IsRunning
  /\ status' = [status EXCEPT ![current_thread] = "Waiting"]
  /\ UNCHANGED <<links, data, current_priority, current_thread, walk>>

\* Thread::Stop, the part that touches the queue.
Stop(t) ==
  /\ op = "idle" /\ status[t] \in {"Ready", "Running", "Waiting"}
  /\ data' = IF status[t] = "Ready" THEN remove(data, current_priority[t], t) ELSE data
  /\ status' = [status EXCEPT ![t] = "Dead"]
  /\ UNCHANGED <<links, current_priority, current_thread, walk>>

\* Thread::BoostPriority and the queue part of Thread::SetPriority.
BoostPriority(t, p) ==
  /\ op = "idle" /\ status[t] # "absent"
  /\ Prepare(p)
  /\ data' = IF status[t] = "Ready" THEN move(data, t, current_priority[t], p) ELSE data
  /\ current_priority' = [current_priority EXCEPT ![t] = p]
  /\ UNCHANGED <<status, current_thread, walk>>

\* PopNextReadyThread: better than the running thread, or any thread.
StartPop ==
  /\ op = "idle"
  /\ op' = IF IsRunning THEN "pop_first_better" ELSE "pop_first"
  /\ cur' = first
  /\ UNCHANGED <<links, data, status, current_priority, current_thread, popped>>

\* ThreadManager::HaveReadyThreads, called by SleepThread(0).
StartGetFirst ==
  /\ op = "idle" /\ IsRunning
  /\ op' = "get_first"
  /\ cur' = first
  /\ UNCHANGED <<links, data, status, current_priority, current_thread, popped>>

\* The loop condition: `cur != nullptr`, or `cur < stop` for the better pop.
InLoop ==
  IF op = "pop_first_better" THEN cur < current_priority[current_thread] ELSE cur # Null

\* Mutant of Advance: the walk also skips the level after an empty one.
AdvanceTwo ==
  /\ op \in {"pop_first", "pop_first_better", "get_first"}
  /\ InLoop /\ cur # Null /\ data[cur] = <<>>
  /\ cur' = IF next_nonempty[cur] = Null THEN Null ELSE next_nonempty[next_nonempty[cur]]
  /\ UNCHANGED <<links, data, status, current_priority, current_thread, op, popped>>

\* The next iteration of any of the three loops: an empty level is passed.
Advance ==
  /\ op \in {"pop_first", "pop_first_better", "get_first"}
  /\ InLoop /\ cur # Null /\ data[cur] = <<>>
  /\ cur' = next_nonempty[cur]
  /\ UNCHANGED <<links, data, status, current_priority, current_thread, op, popped>>

\* Mutant of PopFound: the newest thread of the level is returned.
PopBack ==
  /\ op \in {"pop_first", "pop_first_better"}
  /\ InLoop /\ cur # Null /\ data[cur] # <<>>
  /\ popped' = Last(data[cur])
  /\ data' = [data EXCEPT ![cur] = Front(@)]
  /\ op' = "switch" /\ cur' = Null
  /\ UNCHANGED <<links, status, current_priority, current_thread>>

\* A pop finds a thread.
PopFound ==
  /\ op \in {"pop_first", "pop_first_better"}
  /\ InLoop /\ cur # Null /\ data[cur] # <<>>
  /\ popped' = Head(data[cur])
  /\ data' = [data EXCEPT ![cur] = Tail(@)]
  /\ op' = "switch" /\ cur' = Null
  /\ UNCHANGED <<links, status, current_priority, current_thread>>

\* A pop's loop ends without a thread.
PopNone ==
  /\ op \in {"pop_first", "pop_first_better"}
  /\ ~InLoop
  /\ popped' = NoThread
  /\ op' = "switch" /\ cur' = Null
  /\ UNCHANGED <<links, data, status, current_priority, current_thread>>

\* get_first finds a thread, so SleepThread(0) does sleep.
GetFirstFound ==
  /\ op = "get_first" /\ cur # Null /\ data[cur] # <<>>
  /\ status' = [status EXCEPT ![current_thread] = "Waiting"]
  /\ op' = "idle" /\ cur' = Null
  /\ UNCHANGED <<links, data, current_priority, current_thread, popped>>

\* get_first finds none, so the thread keeps running.
GetFirstNone ==
  /\ op = "get_first" /\ cur = Null
  /\ op' = "idle"
  /\ UNCHANGED <<links, data, status, current_priority, current_thread, cur, popped>>

\* SwitchContext to a popped thread: push_front of the preempted one first.
SwitchContext ==
  /\ op = "switch" /\ popped # NoThread
  /\ LET pushed == IF IsRunning
                   THEN push_front(data, current_priority[current_thread], current_thread)
                   ELSE data
     IN  data' = remove(pushed, current_priority[popped], popped)
  /\ status' = [t \in Threads |->
                  IF t = popped THEN "Running"
                  ELSE IF t = current_thread /\ IsRunning THEN "Ready"
                  ELSE status[t]]
  /\ current_thread' = popped
  /\ op' = "idle" /\ popped' = NoThread
  /\ UNCHANGED <<links, current_priority, cur>>

\* Nothing better: keep the running thread (pushed to the front and removed
\* again), or idle.
KeepCurrent ==
  /\ op = "switch" /\ popped = NoThread
  /\ current_thread' = IF IsRunning THEN current_thread ELSE NoThread
  /\ op' = "idle"
  /\ UNCHANGED <<links, data, status, current_priority, cur, popped>>

Next ==
  \/ \E t \in Threads, p \in Levels : CreateThread(t, p) \/ BoostPriority(t, p)
  \/ \E t \in Threads : ResumeFromWait(t) \/ Stop(t)
  \/ Block \/ StartPop \/ StartGetFirst \/ Advance \/ PopFound \/ PopNone
  \/ GetFirstFound \/ GetFirstNone \/ SwitchContext \/ KeepCurrent

Spec == Init /\ [][Next]_vars

\* The loops run inside one call of the scheduler: once started, nothing else
\* runs until they end.
LoopStep == Advance \/ PopFound \/ PopNone \/ GetFirstFound \/ GetFirstNone
FairSpec == Spec /\ WF_vars(LoopStep)

-----------------------------------------------------------------------------
\* Every variable has its type: pointers stay inside the array.
TypeOK ==
  /\ first \in Levels \cup {Null}
  /\ next_nonempty \in [Levels -> Levels \cup {Null, UnlinkedTag}]
  /\ data \in [Levels -> Seq(Threads)]
  /\ status \in [Threads -> Statuses]
  /\ current_priority \in [Threads -> Levels]
  /\ current_thread \in Threads \cup {NoThread}
  /\ op \in Ops
  /\ cur \in Levels \cup {Null}
  /\ popped \in Threads \cup {NoThread}

\* x is the pointer to the first used level after p.
IsSuccessor(x, p) ==
  IF x = Null
  THEN \A q \in Levels : p < q => ~IsLinked(q)
  ELSE /\ x \in Levels /\ p < x /\ IsLinked(x)
       /\ \A q \in Levels : p < q /\ q < x => ~IsLinked(q)

\* The list holds exactly the used levels, best first: every insertion order
\* of levels through link() gives the same sorted list.
ListSorted ==
  /\ IsSuccessor(first, -1)
  /\ \A p \in Levels : IsLinked(p) => IsSuccessor(next_nonempty[p], p)

\* push_front, push_back and remove never touch a level that was not prepared:
\* the level of every thread is on the list, whichever of creation, priority
\* changes and mutex boosts gave it that level.
LevelsPrepared ==
  /\ \A t \in Threads : status[t] # "absent" => IsLinked(current_priority[t])
  /\ \A p \in Levels : data[p] # <<>> => IsLinked(p)

\* A thread is in the queue exactly when it is Ready, once, at the level of
\* its current priority (a popped thread is in transit until the switch).
QueuedWhereItBelongs ==
  \A p \in Levels :
    /\ NoDuplicates(data[p])
    /\ \A t \in Threads :
         t \in ToSet(data[p]) <=>
           status[t] = "Ready" /\ current_priority[t] = p /\ popped # t

\* pop_first_better never dereferences the null pointer its loop test lets
\* through: the list always reaches the running thread's level first.
NoNullDereference == op = "pop_first_better" => cur # Null

\* No loop has passed a level that holds a thread.
WalkMissesNothing ==
  op \in {"pop_first", "pop_first_better", "get_first"} =>
    \A q \in Levels : cur = Null \/ q < cur => data[q] = <<>>

\* The list-based queue implements the priority queue.
PQ == INSTANCE PriorityQueue WITH queue <- data
ImplementsPriorityQueue == PQ!Spec

\* Every walk along the list ends, so the list has no cycle.
WalkEnds == (op \in {"pop_first", "pop_first_better", "get_first"}) ~> (op \in {"idle", "switch"})
=============================================================================
