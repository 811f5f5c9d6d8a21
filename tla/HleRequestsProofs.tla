-------------------------- MODULE HleRequestsProofs --------------------------
(***************************************************************************)
(* Proofs about HleRequests, for every set of threads: wake-ups are        *)
(* neither lost nor doubled, and a saved state is whole.                   *)
(*                                                                         *)
(* Whether a state may be saved depends on one number,                     *)
(* pending_async_operations.  The argument is that the number is never     *)
(* smaller than the set of threads that have an operation in progress, so  *)
(* that zero means that there is none.                                     *)
(***************************************************************************)
EXTENDS HleRequests, FiniteSetTheorems, TLAPS

Status == {"Running", "WaitIPC", "WaitHleEvent", "Dead"}

\* What TypeOK leaves open: the queues, the table and the sections.
QueuesOK ==
  /\ ts_queue \in [Threads -> Nat] /\ event_queue \in [Threads -> Nat]
  /\ section \in SUBSET Threads
  /\ wakeup_callback_table = {t \in Threads : status[t] # "Dead"}

\* How many things should wake a thread.
Sleeps(t) == status[t] # "Running" \/ in_call = t
WakeUpsOK == \A t \in Threads : status[t] # "Dead" => WakeUps(t) = IF Sleeps(t) THEN 1 ELSE 0

\* Who may have a section: a thread in RunAsync is awake, and one that waits
\* for the delay of a request has none, nor an event that a section left.
SectionsOK ==
  /\ in_call # NoThread => status[in_call] = "Running"
  /\ \A t \in Threads : status[t] = "WaitIPC" => t \notin section /\ ts_queue[t] = 0

\* The threads with an operation in progress: the ones that wait for its end,
\* the one that is starting it, and the ones that were stopped before a section
\* or an event was through.
InProgress == Waited \cup LeftOver
PendingOK ==
  IsFiniteSet(InProgress) /\ Cardinality(InProgress) <= pending_async_operations

\* A slot holds nothing or a whole state; a request to load that waits has one.
Whole(k) ==
  /\ k.status \in [Threads -> Status] /\ k.event_queue \in [Threads -> Nat]
  /\ k.wakeup_callback_table = {t \in Threads : k.status[t] # "Dead"}
  /\ \A t \in Threads : /\ k.status[t] # "WaitHleEvent"
                        /\ k.event_queue[t] = IF k.status[t] = "WaitIPC" THEN 1 ELSE 0
SlotOK ==
  /\ slot # Empty => Whole(slot)
  /\ save_state_request_status = "LOADING" => slot # Empty

\* An event has fired for a thread that was stopped in the middle of an
\* operation.
StoppedOK == panic = "out_of_range" => Cardinality(Waited) < pending_async_operations

IInv ==
  /\ TypeOK /\ QueuesOK /\ WakeUpsOK /\ SectionsOK
  /\ PendingOK /\ SlotOK /\ StoppedOK

-----------------------------------------------------------------------------
\* Lemmas.

\* When no operation is counted as pending, none is in progress.
LEMMA NothingInProgress ==
  ASSUME TypeOK, PendingOK, ~AreAsyncOperationsPending
  PROVE  InProgress = {}
<1>1. Cardinality(InProgress) = 0
  BY FS_CardinalityType DEF PendingOK, TypeOK, AreAsyncOperationsPending
<1> QED
  BY <1>1, FS_EmptySet DEF PendingOK

\* The set may shrink as long as the number stays.
LEMMA FewerInProgress ==
  ASSUME TypeOK, PendingOK, InProgress' \subseteq InProgress,
         pending_async_operations' = pending_async_operations
  PROVE  PendingOK'
<1>1. IsFiniteSet(InProgress') /\ Cardinality(InProgress') <= Cardinality(InProgress)
  BY FS_Subset DEF PendingOK
<1>2. Cardinality(InProgress') \in Nat /\ Cardinality(InProgress) \in Nat
  BY <1>1, FS_CardinalityType DEF PendingOK
<1> QED
  BY <1>1, <1>2 DEF PendingOK, TypeOK

\* A finite set with at most one more element.
LEMMA AtMostOneMore ==
  ASSUME NEW S, IsFiniteSet(S), NEW x, NEW T, T \subseteq S \cup {x}
  PROVE  IsFiniteSet(T) /\ Cardinality(T) <= Cardinality(S) + 1
<1>1. IsFiniteSet(S \cup {x})
  BY FS_AddElement
<1>2. Cardinality(S \cup {x}) = IF x \in S THEN Cardinality(S) ELSE Cardinality(S) + 1
  BY FS_AddElement
<1>3. IsFiniteSet(T) /\ Cardinality(T) <= Cardinality(S \cup {x})
  BY <1>1, FS_Subset
<1>4. Cardinality(T) \in Nat /\ Cardinality(S) \in Nat
  BY <1>3, FS_CardinalityType
<1> QED
  BY <1>2, <1>3, <1>4

\* RunAsync counts the operation before it can be seen.
LEMMA OneMoreInProgress ==
  ASSUME TypeOK, PendingOK, NEW t \in Threads, InProgress' \subseteq InProgress \cup {t},
         pending_async_operations' = pending_async_operations + 1
  PROVE  PendingOK'
<1>1. IsFiniteSet(InProgress') /\ Cardinality(InProgress') <= Cardinality(InProgress) + 1
  BY AtMostOneMore DEF PendingOK
<1>2. Cardinality(InProgress') \in Nat /\ Cardinality(InProgress) \in Nat
  BY <1>1, FS_CardinalityType DEF PendingOK
<1> QED
  BY <1>1, <1>2 DEF PendingOK, TypeOK

\* The callback of a thread that waits for an operation takes it out of the
\* count, which was not zero.
LEMMA OneLessInProgress ==
  ASSUME TypeOK, PendingOK, NEW t \in InProgress, InProgress' \subseteq InProgress \ {t},
         pending_async_operations' = pending_async_operations - 1
  PROVE  PendingOK' /\ pending_async_operations' \in Nat
<1> DEFINE S == InProgress \ {t}
<1>1. IsFiniteSet(S) /\ Cardinality(S) = Cardinality(InProgress) - 1
  BY FS_RemoveElement DEF PendingOK
<1>2. IsFiniteSet(InProgress') /\ Cardinality(InProgress') <= Cardinality(S)
  BY <1>1, FS_Subset
<1>3. /\ Cardinality(InProgress') \in Nat /\ Cardinality(S) \in Nat
      /\ Cardinality(InProgress) \in Nat
  BY <1>1, <1>2, FS_CardinalityType DEF PendingOK
<1> HIDE DEF S
<1> QED
  BY <1>1, <1>2, <1>3 DEF PendingOK, TypeOK

\* A new kernel is as whole as a saved one.
LEMMA FreshIsWhole == Whole(Fresh)
BY DEF Whole, Fresh, NoEvents, Status

\* A whole kernel put in the place of the old one, while no section runs,
\* establishes what the invariant says about kernels.
LEMMA ReplaceKernelOK ==
  ASSUME TypeOK, NEW k, Whole(k), ReplaceKernel(k), section' = {}, in_call = NoThread,
         UNCHANGED in_call
  PROVE  /\ status' \in [Threads -> Status] /\ pending_async_operations' \in Nat
         /\ QueuesOK' /\ WakeUpsOK' /\ SectionsOK' /\ PendingOK'
<1>1. /\ status' \in [Threads -> Status] /\ event_queue' \in [Threads -> Nat]
      /\ ts_queue' = [t \in Threads |-> 0] /\ pending_async_operations' = 0
  BY DEF ReplaceKernel, Whole, NoEvents
<1>2. QueuesOK' /\ SectionsOK'
  BY <1>1 DEF QueuesOK, SectionsOK, ReplaceKernel, Whole
<1>3. \A t \in Threads :
        /\ status'[t] # "WaitHleEvent"
        /\ WakeUps(t)' = IF status'[t] = "WaitIPC" THEN 1 ELSE 0
  BY <1>1 DEF ReplaceKernel, Whole, WakeUps
<1>4. WakeUpsOK'
  BY <1>1, <1>3, NoThreadAssumption DEF WakeUpsOK, Sleeps, Status
<1>5. InProgress' = {}
  BY <1>1, <1>3, NoThreadAssumption DEF InProgress, Waited, LeftOver
<1>6. PendingOK'
  BY <1>1, <1>5, FS_EmptySet DEF PendingOK
<1> QED
  BY <1>1, <1>2, <1>4, <1>6

\* While nothing is in progress, the state that serialize writes is whole.
LEMMA SnapshotIsWhole ==
  ASSUME IInv, in_call = NoThread, ~AreAsyncOperationsPending
  PROVE  /\ Whole(Snapshot) /\ section = {}
         /\ \A t \in Threads : status[t] = "Dead" => WakeUps(t) = 0
<1> USE DEF IInv
<1>1. InProgress = {}
  BY NothingInProgress
<1>2. \A t \in Threads : status[t] # "WaitHleEvent" /\ ~(status[t] = "Dead" /\ WakeUps(t) > 0)
  BY <1>1 DEF InProgress, Waited, LeftOver
<1>3. \A t \in Threads : WakeUps(t) \in Nat
  BY DEF WakeUps, QueuesOK
<1>4. \A t \in Threads : status[t] = "Dead" => WakeUps(t) = 0
  BY <1>2, <1>3
<1>5. \A t \in Threads : WakeUps(t) = IF status[t] = "WaitIPC" THEN 1 ELSE 0
  BY <1>2, <1>4, NoThreadAssumption DEF WakeUpsOK, Sleeps, TypeOK
<1>6. section = {}
  BY <1>5 DEF SectionsOK, QueuesOK, WakeUps
<1>7. \A t \in Threads : ts_queue[t] + event_queue[t] = IF status[t] = "WaitIPC" THEN 1 ELSE 0
  BY <1>5, <1>6 DEF WakeUps, QueuesOK
<1> QED
  BY <1>2, <1>4, <1>6, <1>7 DEF Whole, Snapshot, QueuesOK, TypeOK, Status

-----------------------------------------------------------------------------
\* The inductive invariant.

\* It holds initially.
LEMMA InitInv == Init => IInv
<1> SUFFICES ASSUME Init PROVE IInv
  OBVIOUS
<1>1. \A t \in Threads : status[t] = "Running" /\ WakeUps(t) = 0
  BY DEF Init, Fresh, NoEvents, WakeUps
<1>2. TypeOK /\ QueuesOK /\ SectionsOK /\ SlotOK /\ StoppedOK
  BY DEF Init, Fresh, NoEvents, TypeOK, QueuesOK, SectionsOK, SlotOK, StoppedOK
<1>3. WakeUpsOK
  BY <1>1, NoThreadAssumption DEF WakeUpsOK, Sleeps, Init
<1>4. InProgress = {}
  BY <1>1, NoThreadAssumption DEF InProgress, Waited, LeftOver, Init
<1>5. PendingOK
  BY <1>4, FS_EmptySet DEF PendingOK, Init
<1> QED
  BY <1>2, <1>3, <1>5 DEF IInv

\* RunAsync keeps the invariant.
LEMMA RunAsyncInv == ASSUME IInv, NEW t \in Threads, RunAsync(t) PROVE IInv'
<1> USE DEF IInv, RunAsync, Free, kernelVars, requestVars
<1>1. t \notin section /\ ts_queue[t] = 0 /\ event_queue[t] = 0
  BY NoThreadAssumption DEF WakeUpsOK, Sleeps, WakeUps, QueuesOK
<1>2. TypeOK' /\ QueuesOK' /\ SlotOK' /\ StoppedOK' /\ SectionsOK'
  BY NoThreadAssumption DEF TypeOK, QueuesOK, SlotOK, StoppedOK, SectionsOK
<1>3. \A u \in Threads \ {t} : WakeUps(u)' = WakeUps(u)
  BY DEF WakeUps
<1>4. WakeUps(t)' = 1
  BY <1>1 DEF WakeUps
<1>5. WakeUpsOK'
  BY <1>3, <1>4, NoThreadAssumption DEF WakeUpsOK, Sleeps
<1>6. InProgress' \subseteq InProgress \cup {t}
  BY <1>3 DEF InProgress, Waited, LeftOver
<1> QED
  BY <1>2, <1>5, <1>6, OneMoreInProgress

\* SleepClientThread keeps the invariant.
LEMMA SleepClientThreadInv == ASSUME IInv, SleepClientThread PROVE IInv'
<1> USE DEF IInv, SleepClientThread, requestVars
<1>1. in_call \in Threads /\ status[in_call] = "Running"
  BY DEF TypeOK, SectionsOK
<1>2. \A t \in Threads : status'[t] = IF t = in_call THEN "WaitHleEvent" ELSE status[t]
  BY DEF TypeOK
<1>3. TypeOK' /\ QueuesOK' /\ SlotOK' /\ StoppedOK' /\ SectionsOK'
  BY <1>1, <1>2 DEF TypeOK, QueuesOK, SlotOK, StoppedOK, SectionsOK
<1>4. \A t \in Threads : WakeUps(t)' = WakeUps(t)
  BY DEF WakeUps
<1>5. WakeUpsOK'
  BY <1>1, <1>2, <1>4, NoThreadAssumption DEF WakeUpsOK, Sleeps
<1>6. InProgress' \subseteq InProgress
  BY <1>1, <1>2, <1>4, NoThreadAssumption DEF InProgress, Waited, LeftOver
<1> QED
  BY <1>3, <1>5, <1>6, FewerInProgress

\* EndSection keeps the invariant.
LEMMA EndSectionInv == ASSUME IInv, NEW t \in Threads, EndSection(t) PROVE IInv'
<1> USE DEF IInv, EndSection, WakeAfterDelay, requestVars
<1>1. TypeOK' /\ QueuesOK' /\ SlotOK' /\ StoppedOK' /\ SectionsOK'
  BY DEF TypeOK, QueuesOK, SlotOK, StoppedOK, SectionsOK
<1>2. \A u \in Threads : WakeUps(u)' = WakeUps(u)
  BY DEF WakeUps, QueuesOK
<1>3. WakeUpsOK'
  BY <1>2 DEF WakeUpsOK, Sleeps
<1>4. InProgress' \subseteq InProgress
  BY <1>2 DEF InProgress, Waited, LeftOver
<1> QED
  BY <1>1, <1>3, <1>4, FewerInProgress

\* RunDeterministic keeps the invariant.
LEMMA RunDeterministicInv == ASSUME IInv, NEW t \in Threads, RunDeterministic(t) PROVE IInv'
<1> USE DEF IInv, RunDeterministic, Free, requestVars
<1>1. t \notin section /\ ts_queue[t] = 0 /\ event_queue[t] = 0
  BY NoThreadAssumption DEF WakeUpsOK, Sleeps, WakeUps, QueuesOK
<1>2. \A u \in Threads : status'[u] = IF u = t THEN "WaitHleEvent" ELSE status[u]
  BY DEF TypeOK
<1>3. TypeOK' /\ QueuesOK' /\ SlotOK' /\ StoppedOK' /\ SectionsOK'
  BY <1>2 DEF TypeOK, QueuesOK, SlotOK, StoppedOK, SectionsOK
<1>4. \A u \in Threads : WakeUps(u)' = IF u = t THEN 1 ELSE WakeUps(u)
  BY <1>1 DEF WakeUps, QueuesOK
<1>5. WakeUpsOK'
  BY <1>2, <1>4 DEF WakeUpsOK, Sleeps
<1>6. InProgress' \subseteq InProgress \cup {t}
  BY <1>2, <1>4 DEF InProgress, Waited, LeftOver
<1> QED
  BY <1>3, <1>5, <1>6, OneMoreInProgress

\* HandleSyncRequest keeps the invariant.
LEMMA HandleSyncRequestInv == ASSUME IInv, NEW t \in Threads, HandleSyncRequest(t) PROVE IInv'
<1> USE DEF IInv, HandleSyncRequest, Free, requestVars, asyncVars
<1>1. t \notin section /\ ts_queue[t] = 0 /\ event_queue[t] = 0
  BY NoThreadAssumption DEF WakeUpsOK, Sleeps, WakeUps, QueuesOK
<1>2. \A u \in Threads : status'[u] = IF u = t THEN "WaitIPC" ELSE status[u]
  BY DEF TypeOK
<1>3. TypeOK' /\ QueuesOK' /\ SlotOK' /\ StoppedOK' /\ SectionsOK'
  BY <1>1, <1>2 DEF TypeOK, QueuesOK, SlotOK, StoppedOK, SectionsOK
<1>4. \A u \in Threads : WakeUps(u)' = IF u = t THEN 1 ELSE WakeUps(u)
  BY <1>1 DEF WakeUps, QueuesOK
<1>5. WakeUpsOK'
  BY <1>2, <1>4 DEF WakeUpsOK, Sleeps
<1>6. InProgress' \subseteq InProgress
  BY <1>2, <1>4 DEF InProgress, Waited, LeftOver
<1> QED
  BY <1>3, <1>5, <1>6, FewerInProgress

\* MoveEvents keeps the invariant.
LEMMA MoveEventsInv == ASSUME IInv, MoveEvents PROVE IInv'
<1> USE DEF IInv, MoveEvents, Free, NoEvents, requestVars
<1>1. TypeOK' /\ QueuesOK' /\ SlotOK' /\ StoppedOK' /\ SectionsOK'
  BY DEF TypeOK, QueuesOK, SlotOK, StoppedOK, SectionsOK
<1>2. \A u \in Threads : WakeUps(u)' = WakeUps(u)
  BY DEF WakeUps, QueuesOK
<1>3. WakeUpsOK'
  BY <1>2 DEF WakeUpsOK, Sleeps
<1>4. InProgress' \subseteq InProgress
  BY <1>2 DEF InProgress, Waited, LeftOver
<1> QED
  BY <1>1, <1>3, <1>4, FewerInProgress

\* ThreadWakeupCallback keeps the invariant.
LEMMA ThreadWakeupCallbackInv ==
  ASSUME IInv, NEW t \in Threads, ThreadWakeupCallback(t) PROVE IInv'
<1> USE DEF IInv, ThreadWakeupCallback, Free, requestVars
<1>1. \A u \in Threads : WakeUps(u) \in Nat /\ WakeUps(u)' = IF u = t THEN WakeUps(u) - 1 ELSE WakeUps(u)
  BY DEF WakeUps, QueuesOK
<1>2. CASE status[t] = "Dead"
  <2>1. UNCHANGED <<status, pending_async_operations, in_call>>
    BY <1>2 DEF QueuesOK
  <2>2. TypeOK' /\ QueuesOK' /\ SlotOK' /\ SectionsOK'
    BY <1>2, <2>1 DEF TypeOK, QueuesOK, SlotOK, SectionsOK
  <2>5. StoppedOK'
    <3>1. t \in InProgress /\ Waited' \subseteq InProgress \ {t}
      BY <1>1, <1>2, <2>1, NoThreadAssumption DEF InProgress, Waited, LeftOver, WakeUps, QueuesOK
    <3>2. IsFiniteSet(InProgress \ {t}) /\ Cardinality(InProgress \ {t}) = Cardinality(InProgress) - 1
      BY <3>1, FS_RemoveElement DEF PendingOK
    <3>3. IsFiniteSet(Waited') /\ Cardinality(Waited') <= Cardinality(InProgress \ {t})
      BY <3>1, <3>2, FS_Subset
    <3>4. Cardinality(Waited') \in Nat /\ Cardinality(InProgress) \in Nat
      BY <3>3, FS_CardinalityType DEF PendingOK
    <3> QED
      BY <2>1, <3>2, <3>3, <3>4 DEF StoppedOK, PendingOK, TypeOK
  <2>3. WakeUpsOK'
    BY <1>1, <1>2, <2>1 DEF WakeUpsOK, Sleeps
  <2>4. InProgress' \subseteq InProgress
    BY <1>1, <1>2, <2>1 DEF InProgress, Waited, LeftOver
  <2> QED
    BY <2>1, <2>2, <2>3, <2>4, <2>5, FewerInProgress
<1>3. CASE status[t] # "Dead"
  <2>1. /\ pending_async_operations' = AfterWakeUp(t) /\ UNCHANGED <<panic, in_call>>
        /\ \A u \in Threads : status'[u] = IF u = t THEN "Running" ELSE status[u]
        /\ status' \in [Threads -> Status]
    BY <1>3 DEF QueuesOK, TypeOK, Status
  <2>2. WakeUps(t) = 1 /\ status[t] # "Running" /\ t \notin section
    BY <1>3, NoThreadAssumption DEF WakeUpsOK, WakeUps, QueuesOK, Sleeps
  <2>3. QueuesOK' /\ SlotOK' /\ StoppedOK' /\ SectionsOK'
    BY <1>3, <2>1, <2>2 DEF QueuesOK, SlotOK, StoppedOK, SectionsOK
  <2>4. WakeUpsOK'
    BY <1>1, <2>1, <2>2, NoThreadAssumption DEF WakeUpsOK, Sleeps
  <2>5. InProgress' \subseteq InProgress \ {t}
    BY <1>1, <2>1, NoThreadAssumption DEF InProgress, Waited, LeftOver
  <2>6. pending_async_operations' \in Nat /\ PendingOK'
    <3>1. CASE status[t] = "WaitHleEvent"
      <4>1. t \in InProgress
        BY <3>1 DEF InProgress, Waited, LeftOver
      <4> QED
        BY <3>1, <4>1, <2>1, <2>5, OneLessInProgress DEF AfterWakeUp
    <3>2. CASE status[t] # "WaitHleEvent"
      BY <3>2, <2>1, <2>5, FewerInProgress DEF AfterWakeUp, TypeOK
    <3> QED
      BY <3>1, <3>2
  <2>7. TypeOK'
    BY <2>1, <2>6 DEF TypeOK, Status
  <2> QED
    BY <2>3, <2>4, <2>6, <2>7
<1> QED
  BY <1>2, <1>3

\* Stop keeps the invariant.
LEMMA StopInv == ASSUME IInv, NEW t \in Threads, Stop(t) PROVE IInv'
<1> USE DEF IInv, Stop, Free, requestVars, asyncVars
<1>1. \A u \in Threads : status'[u] = IF u = t THEN "Dead" ELSE status[u]
  BY DEF TypeOK
<1>2. TypeOK' /\ QueuesOK' /\ SlotOK' /\ StoppedOK' /\ SectionsOK'
  BY <1>1 DEF TypeOK, QueuesOK, SlotOK, StoppedOK, SectionsOK
<1>3. \A u \in Threads \ {t} : WakeUps(u)' = WakeUps(u)
  BY DEF WakeUps, QueuesOK
<1>4. WakeUpsOK'
  BY <1>1, <1>3 DEF WakeUpsOK, Sleeps
<1>5. WakeUps(t)' > 0 => status[t] = "WaitHleEvent"
  <2>1. WakeUps(t)' > 0 => t \in section \/ ts_queue[t] > 0
    BY DEF WakeUps, QueuesOK
  <2> QED
    BY <2>1, NoThreadAssumption DEF WakeUpsOK, WakeUps, Sleeps, SectionsOK, QueuesOK, TypeOK
<1>6. InProgress' \subseteq InProgress
  BY <1>1, <1>3, <1>5 DEF InProgress, Waited, LeftOver
<1> QED
  BY <1>2, <1>4, <1>6, FewerInProgress

\* SaveState keeps the invariant.
LEMMA SaveStateInv ==
  ASSUME IInv, Free, ~AreAsyncOperationsPending, SaveState,
         save_state_request_status' = "NONE", UNCHANGED <<section, in_call>>
  PROVE  IInv'
<1> USE DEF IInv, SaveState, Free
<1>1. Whole(Snapshot)
  BY SnapshotIsWhole
<1>2. SlotOK'
  BY <1>1 DEF SlotOK, Whole
<1>3. event_queue' = [t \in Threads |-> event_queue[t] + ts_queue[t]] /\ ts_queue' = NoEvents
  BY DEF Snapshot
<1>4. TypeOK' /\ QueuesOK' /\ StoppedOK' /\ SectionsOK'
  BY <1>3 DEF TypeOK, QueuesOK, StoppedOK, SectionsOK, NoEvents
<1>5. \A u \in Threads : WakeUps(u)' = WakeUps(u)
  BY <1>3 DEF WakeUps, QueuesOK, NoEvents
<1>6. WakeUpsOK'
  BY <1>5 DEF WakeUpsOK, Sleeps
<1>7. InProgress' \subseteq InProgress
  BY <1>5 DEF InProgress, Waited, LeftOver
<1> QED
  BY <1>2, <1>4, <1>6, <1>7, FewerInProgress

\* What stays as it was when a request changes only itself.
LEMMA RequestOnlyInv ==
  ASSUME IInv, UNCHANGED <<kernelVars, asyncVars, panic>>, SlotOK',
         save_state_request_status' \in {"NONE", "SAVING", "LOADING"}
  PROVE  IInv'
<1> USE DEF IInv, kernelVars, asyncVars
<1>1. TypeOK' /\ QueuesOK' /\ StoppedOK' /\ SectionsOK'
  BY DEF TypeOK, QueuesOK, StoppedOK, SectionsOK, Waited
<1>2. WakeUpsOK' /\ PendingOK'
  BY DEF WakeUpsOK, PendingOK, Sleeps, WakeUps, InProgress, Waited, LeftOver
<1> QED
  BY <1>1, <1>2

\* LoadState keeps the invariant.
LEMMA LoadStateInv ==
  ASSUME IInv, Free, ~AreAsyncOperationsPending, LoadState, slot # Empty,
         save_state_request_status' = "NONE", UNCHANGED <<section, in_call>>
  PROVE  IInv'
<1> USE DEF IInv, LoadState, Free
<1>1. section = {}
  BY SnapshotIsWhole
<1>2. SlotOK' /\ Whole(slot)
  BY DEF SlotOK, Whole
<1>3. CASE UNCHANGED <<kernelVars, ts_queue, pending_async_operations, panic>>
  BY <1>2, <1>3, RequestOnlyInv DEF asyncVars
<1>4. ASSUME NEW k, Whole(k), ReplaceKernel(k), panic' \in {panic, "half loaded"} PROVE IInv'
  <2>1. /\ status' \in [Threads -> Status] /\ pending_async_operations' \in Nat
        /\ QueuesOK' /\ WakeUpsOK' /\ SectionsOK' /\ PendingOK'
    BY <1>1, <1>4, ReplaceKernelOK
  <2>2. TypeOK' /\ StoppedOK'
    BY <1>4, <2>1 DEF TypeOK, StoppedOK, Status
  <2> QED
    BY <1>2, <2>1, <2>2
<1>5. CASE ReplaceKernel(slot) /\ UNCHANGED panic
  BY <1>2, <1>4, <1>5
<1>6. CASE ReplaceKernel(Fresh) /\ panic' = "half loaded"
  BY <1>4, <1>6, FreshIsWhole
<1> QED
  BY <1>3, <1>5, <1>6

\* PerformRequest keeps the invariant.
LEMMA PerformRequestInv ==
  ASSUME IInv, Free, NEW request \in {"SAVING", "LOADING"}, PerformRequest(request),
         request = "LOADING" => slot # Empty, UNCHANGED <<section, in_call>>
  PROVE  IInv'
<1> USE DEF PerformRequest
<1>1. CASE ~AreAsyncOperationsPending /\ request = "SAVING"
  BY <1>1, SaveStateInv
<1>2. CASE ~AreAsyncOperationsPending /\ request # "SAVING"
  BY <1>2, LoadStateInv
<1>3. CASE AreAsyncOperationsPending
  <2>1. SlotOK'
    BY <1>3 DEF SlotOK, Whole, IInv
  <2> QED
    BY <1>3, <2>1, RequestOnlyInv DEF asyncVars
<1> QED
  BY <1>1, <1>2, <1>3

\* Reset keeps the invariant.
LEMMA ResetInv ==
  ASSUME IInv, Free, ReplaceKernel(Fresh), section' = {},
         panic' \in {"none", "destroyed kernel"},
         UNCHANGED <<save_state_request_status, expired, slot, in_call>>
  PROVE  IInv'
<1> USE DEF IInv, Free
<1>1. /\ status' \in [Threads -> Status] /\ pending_async_operations' \in Nat
      /\ QueuesOK' /\ WakeUpsOK' /\ SectionsOK' /\ PendingOK'
  BY FreshIsWhole, ReplaceKernelOK
<1>2. TypeOK' /\ StoppedOK' /\ SlotOK'
  BY <1>1 DEF TypeOK, StoppedOK, SlotOK, Whole, Status
<1> QED
  BY <1>1, <1>2

\* RunLoop keeps the invariant.
LEMMA RunLoopInv == ASSUME IInv, RunLoop PROVE IInv'
<1> USE DEF RunLoop
<1>1. CASE current_signal = "Reset" /\ ReplaceKernel(Fresh)
           /\ section' = {} /\ panic' \in {"none", "destroyed kernel"}
           /\ UNCHANGED <<save_state_request_status, expired, slot>>
  BY <1>1, ResetInv
<1>2. CASE UNCHANGED <<kernelVars, section, ts_queue, pending_async_operations,
                       save_state_request_status, expired, slot, panic>>
  <2>1. SlotOK'
    BY <1>2 DEF SlotOK, Whole, IInv
  <2> QED
    BY <1>2, <2>1, RequestOnlyInv DEF asyncVars, IInv, TypeOK
<1>3. CASE /\ current_signal = "Save" \/ (current_signal = "Load" /\ slot # Empty)
           /\ PerformRequest(IF current_signal = "Save" THEN "SAVING" ELSE "LOADING")
           /\ UNCHANGED section
  BY <1>3, PerformRequestInv
<1>4. CASE /\ save_state_request_status # "NONE" /\ UNCHANGED section
           /\ PerformRequest(save_state_request_status)
  BY <1>4, PerformRequestInv DEF IInv, TypeOK, SlotOK
<1> QED
  BY <1>1, <1>2, <1>3, <1>4

\* The invariant is inductive.
LEMMA NextInv == IInv /\ [Next]_vars => IInv'
<1> SUFFICES ASSUME IInv, [Next]_vars PROVE IInv'
  OBVIOUS
<1>1. ASSUME NEW t \in Threads, RunAsync(t) PROVE IInv'
  BY <1>1, RunAsyncInv
<1>2. ASSUME NEW t \in Threads, EndSection(t) PROVE IInv'
  BY <1>2, EndSectionInv
<1>3. ASSUME NEW t \in Threads, RunDeterministic(t) PROVE IInv'
  BY <1>3, RunDeterministicInv
<1>4. ASSUME NEW t \in Threads, HandleSyncRequest(t) PROVE IInv'
  BY <1>4, HandleSyncRequestInv
<1>5. ASSUME NEW t \in Threads, ThreadWakeupCallback(t) PROVE IInv'
  BY <1>5, ThreadWakeupCallbackInv
<1>6. ASSUME NEW t \in Threads, Stop(t) PROVE IInv'
  BY <1>6, StopInv
<1>7. CASE SleepClientThread
  BY <1>7, SleepClientThreadInv
<1>8. CASE MoveEvents
  BY <1>8, MoveEventsInv
<1>9. CASE RunLoop
  BY <1>9, RunLoopInv
<1>10. CASE UNCHANGED <<kernelVars, asyncVars, save_state_request_status, slot, panic>>
  <2>1. SlotOK'
    BY <1>10 DEF SlotOK, Whole, IInv
  <2> QED
    BY <1>10, <2>1, RequestOnlyInv DEF IInv, TypeOK
<1>11. CASE Expire \/ \E s \in {"Save", "Load", "Reset"} : SendSignal(s)
  BY <1>10, <1>11 DEF Expire, SendSignal
<1>12. CASE UNCHANGED vars
  BY <1>10, <1>12 DEF vars, requestVars
<1> QED
  BY <1>1, <1>2, <1>3, <1>4, <1>5, <1>6, <1>7, <1>8, <1>9, <1>11, <1>12 DEF Next

\* The invariant holds in every state of every run of the specification.
THEOREM InvHolds == Spec => []IInv
BY InitInv, NextInv, PTL DEF Spec

-----------------------------------------------------------------------------
\* Results.

\* For any number of client threads: a thread that sleeps for a service has
\* exactly one section or event that will wake it, one that is awake has none,
\* the callback table holds all threads that were not stopped, and an event is
\* left over only for an operation that is still counted.
THEOREM OneWakeUpTheorem == Spec => []OneWakeUp
<1>1. IInv => OneWakeUp
  <2> SUFFICES ASSUME IInv PROVE OneWakeUp
    OBVIOUS
  <2>1. ASSUME NEW t \in Threads \ {u \in Threads : status[u] = "Dead"}
        PROVE  /\ WakeUps(t) = IF status[t] # "Running" \/ in_call = t THEN 1 ELSE 0
               /\ t \in wakeup_callback_table
    BY DEF IInv, QueuesOK, WakeUpsOK, Sleeps
  <2> QED
    BY <2>1 DEF IInv, OneWakeUp, PendingOK, InProgress, StoppedOK
<1> QED
  BY <1>1, InvHolds, PTL

\* For any number of client threads: no save state is ever written with a
\* client in the middle of an operation, however sections, stops, resets and
\* loads are interleaved with the request to save.
THEOREM SavedIsWholeTheorem == Spec => []SavedIsWhole
<1>1. IInv => SavedIsWhole
  BY DEF IInv, SavedIsWhole, SlotOK, Whole
<1> QED
  BY <1>1, InvHolds, PTL
=============================================================================
