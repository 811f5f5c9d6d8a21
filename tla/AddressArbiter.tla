--------------------------- MODULE AddressArbiter ---------------------------
(***************************************************************************)
(* kernel/address_arbiter.cpp: threads sleep on an address until another   *)
(* thread signals it or their time is up.  The words at the addresses are  *)
(* guest memory that any thread may write at any time, so whether the      *)
(* value is "less than" is a nondeterministic choice and the decrement of  *)
(* the Decrement variants leaves no trace.                                 *)
(***************************************************************************)
EXTENDS WaitObjects, FiniteSets

CONSTANTS Addresses, NoAddress

ASSUME AddressAssumption == NoAddress \notin Addresses

VARIABLES
  arbiter_threads,   \* AddressArbiter::waiting_threads
  wait_address       \* thread -> the address it last waited on

arbiterVars == <<arbiter_threads, wait_address>>

ArbiterInit ==
  /\ arbiter_threads = <<>>
  /\ wait_address = [t \in Threads |-> NoAddress]

WaitsOn(t, a) == wait_address[t] = a

\* The places of the threads that wait on a, and of the others.
Matches(a) == {i \in DOMAIN arbiter_threads : WaitsOn(arbiter_threads[i], a)}
Others(a) == DOMAIN arbiter_threads \ Matches(a)

\* The threads at the places f, whose order stable_partition keeps.
ThreadsAt(f) == [i \in DOMAIN f |-> arbiter_threads[f[i]]]

\* The predicate of both calls of stable_partition asserts this.
ArbiterWaits ==
  \A i \in DOMAIN arbiter_threads : status[arbiter_threads[i]] = "WaitArb"

\* ResumeAllThreads.
ResumeAllThreads(a) ==
  /\ Calling("ResumeAllThreads") /\ Head(todo)[2] = a
  /\ AssertThat(ArbiterWaits, "Inconsistent AddressArbiter state")
  /\ \E found \in InOrder(Matches(a)), rest \in InOrder(Others(a)) :
       /\ arbiter_threads' = ThreadsAt(rest)
       /\ Return([i \in DOMAIN found |->
                    Call("ResumeFromWait", arbiter_threads[found[i]], "keep")])
  /\ UNCHANGED <<threadVars, coreVars, loopVars, flagVars, events, objectVars,
                 wait_address>>

\* ResumeHighestPriorityThread: the first of the best that wait on a.  The
\* others that wait on a stay, behind those that wait elsewhere.
ResumeHighestPriorityThread(a) ==
  /\ Calling("ResumeHighestPriorityThread") /\ Head(todo)[2] = a
  /\ AssertThat(ArbiterWaits, "Inconsistent AddressArbiter state")
  /\ \E found \in InOrder(Matches(a)), rest \in InOrder(Others(a)) :
       LET p(i) == current_priority[arbiter_threads[found[i]]] IN
         \/ \E i \in DOMAIN found :
              /\ \A j \in DOMAIN found : p(i) < p(j) \/ (p(i) = p(j) /\ i <= j)
              /\ arbiter_threads' = ThreadsAt(rest) \o ThreadsAt(Without(found, found[i]))
              /\ Return(<<Call("ResumeFromWait", arbiter_threads[found[i]], "keep")>>)
         \/ found = <<>> /\ UNCHANGED arbiter_threads /\ Return(<<>>)
  /\ UNCHANGED <<threadVars, coreVars, loopVars, flagVars, events, objectVars,
                 wait_address>>

\* AddressArbiter::WakeUp: the time of t is up.
ArbiterWakeUp(t) ==
  /\ Calling("WakeUp") /\ Head(todo)[2] = t
  /\ wakeup_callback[t] = "ArbiterCallback"
  /\ AssertThat(Head(todo)[3] = "Timeout", "reason == ThreadWakeupReason::Timeout")
  /\ arbiter_threads' = Without(arbiter_threads, t)
  /\ Return(<<>>)
  /\ UNCHANGED <<threadVars, coreVars, loopVars, flagVars, events, objectVars,
                 wait_address>>

\* ArbitrateAddress, ArbitrationType::Signal: all threads when the value is
\* negative, up to that many otherwise.
ArbitrateSignal(t, a, value) ==
  /\ Executes(t)
  /\ todo' = IF value < 0 THEN <<Call("ResumeAllThreads", a, value)>>
             ELSE [i \in 1..value |-> Call("ResumeHighestPriorityThread", a, value)]
  /\ PrepareReschedule
  /\ UNCHANGED <<threadVars, coreVars, loopVars, events, panic, objectVars,
                 arbiterVars>>

\* Mutant: no callback for a timed wait.
ArbitrateWaitNoCallback(t, a, timed, delay) ==
  /\ Executes(t)
  /\ status' = [status EXCEPT ![t] = "WaitArb"]
  /\ wait_address' = [wait_address EXCEPT ![t] = a]
  /\ arbiter_threads' = Append(arbiter_threads, t)
  /\ events' = IF timed THEN WakeAfterDelay(events, t, delay) ELSE events
  /\ PrepareReschedule
  /\ UNCHANGED <<nominal_priority, current_priority, wakeup_callback, ready_queue,
                 coreVars, loopVars, todo, panic, objectVars>>

\* The four Wait types, when the value is less: t sleeps, with a timeout
\* when the type has one.
ArbitrateWait(t, a, timed, delay) ==
  /\ Executes(t)
  /\ status' = [status EXCEPT ![t] = "WaitArb"]
  /\ wait_address' = [wait_address EXCEPT ![t] = a]
  /\ arbiter_threads' = Append(arbiter_threads, t)
  /\ wakeup_callback' =
       IF timed THEN [wakeup_callback EXCEPT ![t] = "ArbiterCallback"] ELSE wakeup_callback
  /\ events' = IF timed THEN WakeAfterDelay(events, t, delay) ELSE events
  /\ PrepareReschedule
  /\ UNCHANGED <<nominal_priority, current_priority, ready_queue, coreVars,
                 loopVars, todo, panic, objectVars>>

\* The four Wait types, when it is not: only the reschedule of the SVC.
ArbitrateNoWait(t) ==
  /\ Executes(t)
  /\ PrepareReschedule
  /\ UNCHANGED <<threadVars, coreVars, loopVars, events, todo, panic, objectVars,
                 arbiterVars>>
=============================================================================
