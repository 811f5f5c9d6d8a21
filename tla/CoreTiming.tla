----------------------------- MODULE CoreTiming -----------------------------
(***************************************************************************)
(* core/core_timing.cpp with the part of System::RunLoop (core/core.cpp)   *)
(* that keeps the cores in step: every core has a timer with its own clock *)
(* and its own events, and executes slices that end at its next event.     *)
(*                                                                         *)
(* Host threads (the network, asynchronous services) schedule events too,  *)
(* through ts_queue.  They read the clock of the core without a lock, so   *)
(* what they read is any value near it.                                    *)
(*                                                                         *)
(* The code orders its heap by time and then by fifo_order, which grows    *)
(* with each event; here event_queue is the sequence of the events in the  *)
(* order of their fifo_order.  Only differences of times are ever looked   *)
(* at, so each round starts by counting ticks from the slowest core.       *)
(***************************************************************************)
EXTENDS Integers, Sequences, FiniteSets, Deques

CONSTANTS
  NumCores,       \* Core::GetNumCores()
  Ids,            \* what events are about: a type and its user data
  Types,          \* the types, each as the set of its Ids
  Period,         \* id -> the interval after which its callback schedules it
                  \* again, 0 for one that does not
  MaxSlice,       \* MAX_SLICE_LENGTH
  MinDelay,       \* min_delay: the lag that is not worth a round of its own
  Delays,         \* the cycles_into_future that threads ask for
  HostIds,        \* the events that host threads schedule
  MaxOvershoot,   \* bound: the ticks a core may execute beyond its slice
  HostStaleness,  \* bound: how far behind a clock read by a host thread is
  MaxPending      \* bound: the events with the same id at one time

Cores == 0..NumCores - 1

ASSUME TimingAssumption ==
  /\ NumCores \in Nat \ {0} /\ MaxSlice \in Nat \ {0}
  /\ Period \in [Ids -> Nat] /\ Types \subseteq SUBSET Ids
  /\ Delays \subseteq Nat /\ HostIds \subseteq Ids
  /\ MinDelay \in Nat /\ MaxOvershoot \in Nat /\ HostStaleness \in Nat
  /\ MaxPending \in Nat

VARIABLES
  executed_ticks, slice_length, downcount,  \* the clock of each core
  is_timer_sane,                            \* core -> it is inside Advance
  event_queue,    \* core -> its events, in the order they were entered
  ts_queue,       \* core -> the events that others left for it
  phase,          \* where RunLoop is
  remaining,      \* the cores it has still to visit
  visiting,       \* it has begun with the first of them
  delay,          \* core -> its lag when the round began
  max_slice       \* the longest slice that the round allows

clockVars == <<executed_ticks, slice_length, downcount, is_timer_sane>>
queueVars == <<event_queue, ts_queue>>
roundVars == <<phase, remaining, visiting, delay, max_slice>>
vars == <<clockVars, queueVars, roundVars>>

Event(time, id) == [time |-> time, id |-> id]

-----------------------------------------------------------------------------
\* Timers.

\* Timer::GetTicks.
GetTicks(c) ==
  executed_ticks[c] + IF is_timer_sane[c] THEN 0 ELSE slice_length[c] - downcount[c]

\* Timing::GetGlobalTicks.
GetGlobalTicks == Max({GetTicks(c) : c \in Cores})

\* The front of the heap: the earliest event, the oldest of equals.
IsFront(q, i) ==
  \A j \in DOMAIN q : q[i].time < q[j].time \/ (q[i].time = q[j].time /\ i <= j)

\* What remove_if leaves of a queue: the events that are not about ids, in
\* their order (the set has one element).
Erased(q, ids) ==
  {[i \in DOMAIN f |-> q[f[i]]] : f \in InOrder({i \in DOMAIN q : q[i].id \notin ids})}

\* The time to the next event of core c, at most `limit': what
\* GetMaxSliceLength and SetNextSlice compute.
TimeToEvent(c, limit) ==
  Min({limit} \cup {event_queue[c][i].time - executed_ticks[c] : i \in DOMAIN event_queue[c]})

\* Timer::SetNextSlice.
SetNextSlice(c, limit) ==
  /\ slice_length' = [slice_length EXCEPT ![c] = TimeToEvent(c, limit)]
  /\ downcount' = [downcount EXCEPT ![c] = TimeToEvent(c, limit)]

\* Mutant: an event scheduled into the current slice does not shorten it.
ForceExceptionCheckNot(down, cycles) == down

\* Timer::ForceExceptionCheck: the downcount that is left.
ForceExceptionCheck(down, cycles) == IF down > cycles THEN cycles ELSE down

Pending(id) ==
  LET among(q) == {i \in DOMAIN q : q[i].id = id}
      inCore(c) == Cardinality(among(event_queue[c])) + Cardinality(among(ts_queue[c]))
      sum[n \in 0..NumCores] == IF n = 0 THEN 0 ELSE sum[n - 1] + inCore(n - 1)
  IN sum[NumCores]

-----------------------------------------------------------------------------
\* The run loop.

IsRunning(c) == c \in remaining /\ \A d \in remaining : c <= d

\* A round begins: how far is each core behind the fastest?
BeginRound ==
  LET base == Min({executed_ticks[c] : c \in Cores})
      rebased(queues) ==
        [c \in Cores |-> [i \in DOMAIN queues[c] |->
                            Event(queues[c][i].time - base, queues[c][i].id)]]
  IN /\ phase = "begin"
     /\ delay' = [c \in Cores |-> GetGlobalTicks - GetTicks(c)]
     /\ executed_ticks' = [c \in Cores |-> executed_ticks[c] - base]
     /\ event_queue' = rebased(event_queue) /\ ts_queue' = rebased(ts_queue)
     /\ LET behind == {c \in Cores : delay'[c] > 0} IN
          /\ phase' = IF behind = {} THEN "advance" ELSE "catchup"
          /\ remaining' = IF behind = {} THEN Cores ELSE behind
     /\ visiting' = FALSE /\ max_slice' = MaxSlice
     /\ UNCHANGED <<slice_length, downcount, is_timer_sane>>

\* Mutant: the ticks of the last slice are not added to the clock.
AdvanceClockStands(c) ==
  /\ phase \in {"catchup", "advance"} /\ IsRunning(c) /\ ~visiting
  /\ event_queue' = [event_queue EXCEPT ![c] = @ \o ts_queue[c]]
  /\ ts_queue' = [ts_queue EXCEPT ![c] = <<>>]
  /\ slice_length' = [slice_length EXCEPT ![c] = 0]
  /\ downcount' = [downcount EXCEPT ![c] = 0]
  /\ is_timer_sane' = [is_timer_sane EXCEPT ![c] = TRUE]
  /\ visiting' = TRUE
  /\ UNCHANGED <<executed_ticks, phase, remaining, delay, max_slice>>

\* Timer::Advance up to its loop: MoveEvents, and the clock is set.
Advance(c) ==
  /\ phase \in {"catchup", "advance"} /\ IsRunning(c) /\ ~visiting
  /\ event_queue' = [event_queue EXCEPT ![c] = @ \o ts_queue[c]]
  /\ ts_queue' = [ts_queue EXCEPT ![c] = <<>>]
  /\ executed_ticks' = [executed_ticks EXCEPT ![c] = @ + slice_length[c] - downcount[c]]
  /\ slice_length' = [slice_length EXCEPT ![c] = 0]
  /\ downcount' = [downcount EXCEPT ![c] = 0]
  /\ is_timer_sane' = [is_timer_sane EXCEPT ![c] = TRUE]
  /\ visiting' = TRUE
  /\ UNCHANGED <<phase, remaining, delay, max_slice>>

\* The condition of Advance's loop.
Due(c, i) == event_queue[c][i].time <= executed_ticks[c]

\* One turn of the loop: the front event is due and its callback runs.  The
\* callback of a periodic event schedules the next one, cycles_late earlier.
Fire(c) ==
  /\ phase \in {"catchup", "advance"} /\ IsRunning(c) /\ visiting
  /\ \E i \in DOMAIN event_queue[c] :
       LET e == event_queue[c][i]
           cycles_late == executed_ticks[c] - e.time
           again == Event(GetTicks(c) + Period[e.id] - cycles_late, e.id)
       IN /\ IsFront(event_queue[c], i) /\ Due(c, i)
          /\ event_queue' =
               [event_queue EXCEPT
                  ![c] = RemoveAt(@, i) \o IF Period[e.id] > 0 THEN <<again>> ELSE <<>>]
  /\ UNCHANGED <<clockVars, ts_queue, roundVars>>

\* Mutant: no core ever executes alone.
AfterCatchUpNever ==
  phase' = "advance" /\ remaining' = Cores /\ visiting' = FALSE

\* The first of the cores that lag most executes alone, if its lag is more
\* than min_delay.
AfterCatchUp ==
  LET worst == Max({delay[d] : d \in Cores}) IN
    IF worst > MinDelay
    THEN /\ phase' = "delayed" /\ visiting' = TRUE
         /\ remaining' = {Min({d \in Cores : delay[d] = worst})}
    ELSE phase' = "advance" /\ remaining' = Cores /\ visiting' = FALSE

\* The end of Advance for a core that lags: its slice is what it lags.
CatchUp(c) ==
  /\ phase = "catchup" /\ IsRunning(c) /\ visiting
  /\ \A i \in DOMAIN event_queue[c] : ~Due(c, i)
  /\ is_timer_sane' = [is_timer_sane EXCEPT ![c] = FALSE]
  /\ SetNextSlice(c, delay[c])
  /\ IF remaining # {c}
     THEN /\ remaining' = remaining \ {c} /\ visiting' = FALSE
          /\ UNCHANGED phase
     ELSE AfterCatchUp
  /\ UNCHANGED <<executed_ticks, queueVars, delay, max_slice>>

\* The end of Advance in an ordinary round: the next event of each core
\* (GetMaxSliceLength) limits the slice of all.
EndAdvance(c) ==
  /\ phase = "advance" /\ IsRunning(c) /\ visiting
  /\ \A i \in DOMAIN event_queue[c] : ~Due(c, i)
  /\ is_timer_sane' = [is_timer_sane EXCEPT ![c] = FALSE]
  /\ max_slice' = TimeToEvent(c, max_slice)
  /\ visiting' = FALSE
  /\ phase' = IF remaining = {c} THEN "execute" ELSE phase
  /\ remaining' = IF remaining = {c} THEN Cores ELSE remaining \ {c}
  /\ UNCHANGED <<executed_ticks, slice_length, downcount, queueVars, delay>>

\* The slice of core c begins.
BeginSlice(c) ==
  /\ phase = "execute" /\ IsRunning(c) /\ ~visiting
  /\ SetNextSlice(c, max_slice)
  /\ visiting' = TRUE
  /\ UNCHANGED <<executed_ticks, is_timer_sane, queueVars, phase, remaining, delay,
                 max_slice>>

InSlice(c) == phase \in {"execute", "delayed"} /\ IsRunning(c) /\ visiting

\* The slice ends: it is used up, or the core was told to stop after it had
\* executed something.  The next core gets no more than this one executed.
EndSlice(c) ==
  /\ InSlice(c) /\ downcount[c] < slice_length[c]
  /\ visiting' = FALSE
  /\ max_slice' = slice_length[c] - downcount[c]
  /\ phase' = IF remaining = {c} THEN "begin" ELSE phase
  /\ remaining' = remaining \ {c}
  /\ UNCHANGED <<clockVars, queueVars, delay>>

-----------------------------------------------------------------------------
\* What a core executes: n ticks, and then perhaps a call.

CanExecute(c, n) ==
  /\ InSlice(c) /\ downcount[c] > 0
  /\ downcount[c] - n >= -MaxOvershoot

\* Timer::AddTicks.
AddTicks(c, n) ==
  /\ CanExecute(c, n)
  /\ downcount' = [downcount EXCEPT ![c] = @ - n]
  /\ UNCHANGED <<executed_ticks, slice_length, is_timer_sane, queueVars, roundVars>>

\* Timer::Idle: no thread wants to run.
Idle(c) ==
  /\ InSlice(c) /\ downcount[c] = slice_length[c]
  /\ downcount' = [downcount EXCEPT ![c] = 0]
  /\ UNCHANGED <<executed_ticks, slice_length, is_timer_sane, queueVars, roundVars>>

\* Timing::ScheduleEvent by what runs on core r.  An event of r's own may cut
\* the slice; one for another core is left in that core's ts_queue.
ScheduleEvent(r, n, c, cycles, id) ==
  LET down == downcount[r] - n
      left == ForceExceptionCheck(down, cycles)
  IN /\ CanExecute(r, n) /\ Pending(id) < MaxPending
     /\ IF c = r
        THEN /\ downcount' = [downcount EXCEPT ![r] = left]
             /\ slice_length' = [slice_length EXCEPT ![r] = @ - (down - left)]
             /\ event_queue' =
                  [event_queue EXCEPT ![r] = Append(@, Event(GetTicks(r) + n + cycles, id))]
             /\ UNCHANGED ts_queue
        ELSE /\ downcount' = [downcount EXCEPT ![r] = down]
             /\ ts_queue' =
                  [ts_queue EXCEPT ![c] = Append(@, Event(GetTicks(c) + cycles, id))]
             /\ UNCHANGED <<slice_length, event_queue>>
     /\ UNCHANGED <<executed_ticks, is_timer_sane, roundVars>>

\* Timing::UnscheduleEvent of an id, RemoveEvent of all ids of a type.  The
\* events in a ts_queue remain.
UnscheduleEvent(r, n, ids) ==
  /\ CanExecute(r, n)
  /\ downcount' = [downcount EXCEPT ![r] = @ - n]
  /\ event_queue' \in [Cores -> UNION {Erased(event_queue[c], ids) : c \in Cores}]
  /\ \A c \in Cores : event_queue'[c] \in Erased(event_queue[c], ids)
  /\ UNCHANGED <<executed_ticks, slice_length, is_timer_sane, ts_queue, roundVars>>

\* ScheduleEvent in thread_safe_mode by a host thread, at any moment, with a
\* clock that is `skew' off.
HostSchedule(c, skew, cycles, id) ==
  LET future == Max({2 * MaxSlice, cycles}) IN
    /\ Pending(id) < MaxPending
    /\ ts_queue' =
         [ts_queue EXCEPT
            ![c] = Append(@, Event(executed_ticks[c] + skew + future, id))]
    /\ UNCHANGED <<clockVars, event_queue, roundVars>>

-----------------------------------------------------------------------------

\* Services schedule their periodic events on core 0 before the first slice.
Init ==
  /\ executed_ticks = [c \in Cores |-> 0]
  /\ slice_length = [c \in Cores |-> MaxSlice]
  /\ downcount = [c \in Cores |-> MaxSlice]
  /\ is_timer_sane = [c \in Cores |-> TRUE]
  /\ event_queue \in [Cores -> {<<>>} \cup {<<Event(Period[id], id)>> : id \in Ids}]
  /\ \A c \in Cores, i \in {1} : event_queue[c] # <<>> =>
       c = 0 /\ Period[event_queue[c][i].id] > 0
  /\ ts_queue = [c \in Cores |-> <<>>]
  /\ phase = "begin" /\ remaining = {} /\ visiting = FALSE
  /\ delay = [c \in Cores |-> 0] /\ max_slice = MaxSlice

Loop ==
  \/ BeginRound
  \/ \E c \in Cores : \/ Advance(c) \/ Fire(c) \/ CatchUp(c) \/ EndAdvance(c)
                      \/ BeginSlice(c) \/ EndSlice(c) \/ Idle(c)

Execute ==
  \E r \in Cores, n \in 1..MaxSlice + MaxOvershoot :
    \/ AddTicks(r, n)
    \/ \E c \in Cores, cycles \in Delays, id \in Ids \ HostIds :
         Period[id] = 0 /\ ScheduleEvent(r, n, c, cycles, id)
    \/ \E ids \in Types : UnscheduleEvent(r, n, ids)

Host ==
  \E c \in Cores, skew \in -HostStaleness..MaxSlice + MaxOvershoot, id \in HostIds :
    HostSchedule(c, skew, 0, id)

Next == Loop \/ Execute \/ Host

Spec == Init /\ [][Next]_vars

\* RunLoop is called again and again, and a core that executes uses up its
\* slice.
FairSpec == Spec /\ WF_vars(Loop \/ Execute)

-----------------------------------------------------------------------------
\* Properties.

Events == [time : Int, id : Ids]

\* Every variable has its type.
TypeOK ==
  /\ executed_ticks \in [Cores -> Int]
  /\ slice_length \in [Cores -> Nat]
  /\ downcount \in [Cores -> Int]
  /\ is_timer_sane \in [Cores -> BOOLEAN]
  /\ event_queue \in [Cores -> Seq(Events)]
  /\ ts_queue \in [Cores -> Seq(Events)]
  /\ phase \in {"begin", "catchup", "advance", "execute", "delayed"}
  /\ remaining \subseteq Cores /\ visiting \in BOOLEAN
  /\ delay \in [Cores -> Nat] /\ max_slice \in Nat

\* The slice of a core never reaches beyond its next event, whatever it and
\* the other cores schedule and cancel while it executes, so that an event of
\* the core's own queue is late only by what the core executes too much; and
\* it is never empty, so that no core stands still and GetMaxSliceLength's
\* assertion (the next event is in the future) holds.
SliceInBounds ==
  /\ phase = "execute" => max_slice > 0
  /\ \A c \in Cores : InSlice(c) =>
       /\ slice_length[c] > 0
       /\ \A i \in DOMAIN event_queue[c] :
            executed_ticks[c] + slice_length[c] <= event_queue[c][i].time

\* No core is ever further ahead of another than a slice, the lag that is
\* tolerated, and what each of the other cores may execute too much: a round
\* hands the excess of one core on to the next, and so do cores that make up
\* for the same lag one after the other.
CoresStayTogether ==
  /\ TypeOK
  /\ \A c, d \in Cores :
       GetTicks(d) - GetTicks(c) <= MaxSlice + MinDelay + MaxOvershoot * (NumCores - 1)

\* Every event that is not periodic eventually fires or is cancelled, those
\* that wait in a ts_queue too.
EventsFire ==
  \A id \in Ids : Period[id] = 0 => (Pending(id) > 0 ~> Pending(id) = 0)
=============================================================================
