# Formal specification of the Azahar kernel

Azahar is an emulator of the Nintendo 3DS. Its own core logic is a
re-implementation of the console's operating-system kernel: threads on several
emulated cores, wait objects, priority inheritance, timers, address arbiters,
processes and IPC, all driven by one host thread that multiplexes the emulated
cores. Around that kernel sit large parts that compute or do I/O: the CPU
emulators, video and audio, the services, file systems and user interfaces.

This directory holds TLA+ modules for that kernel, for the requests that reach
services and save states through it, and for the multiplayer room, the TLC
configurations that check them on small instances, and TLAPS proofs. Paths below are relative to
`src/src/`.

## Inventory

| Component | State | Operations | Meets other parts through | Hard to get right |
|---|---|---|---|---|
| Ready queue, `common/thread_queue_list.h` | one deque per priority; a hand-made singly linked list of the levels ever used | `prepare`, `push_front`, `push_back`, `move`, `remove`, `pop_first`, `pop_first_better`, `get_first` | one per core, called by `thread.cpp` | a level must be linked before it is used; links are spliced in the order in which priorities first appear |
| Threads, `kernel/thread.cpp` | status, nominal and current priority, wait objects, wake-up callback, current thread and thread list of each core | create, switch, resume, boost, time out, stop, exit, terminate | wait objects, ready queue, timing events, `System::RunLoop` | a timeout races a signal; a thread dies on another core |
| Run loop, `core/core.cpp` | running core, lag of the cores, reschedule flag | advance, reschedule, execute a slice | every core in turn | cores that lag execute alone and first |
| Wait objects, `kernel/wait_object.cpp` | list of waiting threads | add, remove, find the best ready waiter, wake | every object below | each wake-up changes what the next waiter may have |
| Mutex, `kernel/mutex.cpp` | lock count, holder, lent priority | acquire, release, update priority, release all of a thread | `held_mutexes` and `pending_mutexes` of threads | three cached priorities; recursive locks; death of a holder |
| Semaphore, event, timer | count; signalled flag, reset type; pending expiry | acquire, release, signal, clear, set, cancel | wait objects, timing events | s32 arithmetic; pulses; re-arming |
| Address arbiter, `kernel/address_arbiter.cpp` | list of sleeping threads | arbitrate, resume one or all, time out | guest memory, threads | three ways out of the list |
| Core timing, `core/core_timing.cpp` | event heap, thread-safe queue, ticks of each core | schedule, unschedule, advance | host threads schedule too | cancellation does not reach the thread-safe queue |
| Processes, `kernel/process.cpp` | status, memory map, handle table | create, run, exit, map, unmap | threads, resource limits | ends while its threads are on several cores |
| IPC, `kernel/*session*`, `*port*`, `hle_ipc.cpp` | pending requests, handled request, endpoints | connect, send, reply and receive, disconnect | threads, services, host threads of asynchronous services | a party goes away in the middle of a request |
| Handles and limits, `kernel/handle_table.cpp`, `resource_limit.cpp` | free list threaded through generations; reserved amounts | create, duplicate, close; reserve, release | every creating call | full table, reuse, generation wrap |
| Memory, `kernel/vm_manager.cpp`, `memory.cpp`, `shared_memory.cpp` | map of areas; free intervals of regions; blocks | map, unmap, reprotect, carve, merge; allocate, free; create, map, destroy | processes, IPC buffers | areas merge while a loop is among them; the same memory at several addresses; four accounts of one allocation |
| Requests to services, `kernel/hle_ipc.*` | sleeping clients, count of pending operations, running host threads | answer at once, sleep, run on a host thread, wake up | `ts_queue`, `Thread::Stop`, save states | the host thread overtakes the sleep, or outlives the client |
| Room, `network/room*.cpp` | members, bans; state, connection and unsent packets of a member | join, leave, moderate, relay | host threads, ENet | two threads share a member; connections end in any order with packets |
| Save states, `core/core.cpp`, `core/savestate.cpp` | pending signal, pending request and its time | save, load, reset | run loop, front ends, host threads of services | requests made in the middle of an operation |
| Movie, cheats | recording position; list of cheats | record, play | run loop, front ends | not modelled |
| Services, CPU, video, audio, file systems, loaders, front ends, tools | | | | not modelled, see the end |

The properties that make the modelled parts correct are listed with the runs.
`PROJECT.json` lists the hazards, each at its line.

## Modules

    Deques ------+--> ThreadQueueList --> MCThreadQueueList, ThreadQueueListProofs
                 |          |  implements
                 |     PriorityQueue
                 +--> Scheduler --> WaitObjects --> AddressArbiter --> Kernel --> MCKernel,
                 |                                            KernelProofs --> KernelLifeProofs
                 +--> CoreTiming --> MCCoreTiming, CoreTimingProofs

    HandleTable --> MCHandleTable, HandleTableProofs;   implements HandlePool
    VMAreas --+--> VMManager --> MCVMManager;           implements AddressSpace
              +--> ProcessMemory --> MCProcessMemory
              +--> Ipc --> MCIpc, IpcProofs
    HleRequests --> MCHleRequests, HleRequestsProofs
    Room --> MCRoom, RoomProofs

* `Deques`: the sequence operations of the queues, and the one order in which
  operations that keep an order go through a set of places.
* `ThreadQueueList`: one ready queue. `data` are the deques, `first` and
  `next_nonempty` the linked list; `UnlinkedTag` marks a level not linked yet.
  The actions are the callers in `thread.cpp`. The walk of `pop_first`,
  `pop_first_better` and `get_first` is one step per link (`Advance`), so that
  a wrong link shows as a wrong or endless walk.
* `PriorityQueue`: what the scheduler takes that queue for: one FIFO per level,
  the best non-empty level is popped. `ThreadQueueList` implements it under the
  mapping that forgets the links.
* `Scheduler`: threads, ready queues (as `PriorityQueue` has them), current
  threads, timing events and `RunLoop`.
* `WaitObjects`: waiting lists, mutexes, semaphores, events, timers, and
  threads as objects to wait for.
* `AddressArbiter`: the arbiter.
* `Kernel`: the supervisor calls, the event callbacks, termination, the
  next-state relation, fairness and the properties.
* `CoreTiming`: the clocks, event queues and slices of the cores and the part
  of `RunLoop` that keeps the cores in step; what `Scheduler` abstracts to
  "events that may fire".
* `HandleTable`: the handle table of a process with its free list threaded
  through the generations. `HandlePool` is what programs take it for: a set of
  handles, each for an object.
* `VMAreas`: the map of areas of an address space and what each call makes of
  it, as operators. `VMManager` makes them the calls of a state machine;
  `AddressSpace` is what such a map stands for, page by page. `ProcessMemory`
  uses the same operators for a process with its heap, linear heap, aliases,
  thread-local storage and shared memory blocks, and adds the regions of
  physical memory and the accounts.
* `Ipc`: a port, its sessions and the requests that threads of one process send
  to threads of another, with the mapped buffers in the server's address space
  (the operators of `VMAreas` again).
* `HleRequests`: requests to services of the emulator, three kinds of host
  threads and two event queues, and the save states that must not fall into the
  middle of one.
* `Room`: the multiplayer room and the two threads of every member.

### How the kernel model corresponds to the code

One host thread runs everything, so a supervisor call is never interrupted; what
interleaves are the calls of threads on different cores, the events and the
reschedules. `phase`, `remaining` and `late` say where `RunLoop` is: it finds
the cores that lag (`BeginRound`), advances them, perhaps executes the one that
lags most alone, else advances and reschedules all cores in order
(`EndAdvance`) and lets each execute a slice (`EndSlice`). A supervisor call is
possible only for the current thread of the executing core (`Executes`), which
like the code looks at `current_thread` and not at the thread's status.

A call that makes further calls with effects (wake every waiter, stop every
thread) leaves them in `todo`, a stack of calls; while it is not empty only its
head can run. So loops whose body changes what the loop looks at, such as
`WakeupAllWaitingThreads` inside `ReleaseThreadMutexes` inside `Stop` inside
`TerminateProcessThreads`, are followed turn by turn, and invariants that speak
of the inside of a call (`MutexOwnership`, `ToldWhenOwned`) are checked there.

An assertion of the code that fails sets `panic`, after which nothing happens.
`DEBUG_ASSERT` counts as an assertion.

`misuse` is a history variable: the kinds of misuse that have happened so far.
There are five kinds of steps that the code does not turn away although its
assertions do not allow for them (`Misused`):

| Kind | Step | What the code does then |
|---|---|---|
| `undead` | a thread that another core has stopped makes a supervisor call in the slice its core still executes | takes mutexes, sleeps or is made ready although it is dead (`core.cpp:300`) |
| `repeated` | a thread waits for all of a list that names a one-shot event or timer twice | acquires it twice (`event.cpp:39`) |
| `own end` | a thread is stopped while it waits for its own end | finds a dead thread in the list (`wait_object.cpp:55`) |
| `address` | a thread is stopped while it sleeps on an address | leaves it in the arbiter's list (`address_arbiter.cpp:35`) |
| `not running` | a process is ended that does not run | "Process has already exited" (`process.cpp:122`) |

The steps themselves are ordinary steps of the model, and the runs take them. The
properties that such a step breaks say so: `NoStaleEvent`, `InheritedPriority` and
`ExitedLeavesNothing` hold until a step of the first kind, `NoAssertionFails` says
that an assertion fails only after a step of one of the kinds, and
`ArbiterListExact` holds until then. The other properties hold regardless.

`TerminateProcess` is both `svcExitProcess` and `svcTerminateProcess`: a program
lists for each thread the processes that it may end, its own or others.

What is abstracted:

* Time: an event in the queue may fire whenever its core advances. This admits
  every order of timeouts and signals. `events` counts the events per core and
  owner, so a second event for the same owner is seen.
* Guest memory and the registers with a call's result. Whether a word is less
  than the value given to the arbiter is a free choice.
* The CPU limiters of core 1 are off, which is the case for every thread with
  `CanSchedule` true.
* Objects exist from the start, with the initial values their creating calls
  give them; `CreateMutex` with `initial_locked` is a creation followed by a
  wait. Handle lists are given directly as sequences of objects.
* The lent priority of a mutex has an initial value that nothing reads before
  the first `Acquire` sets it.
* Threads of a process that starts are made ready between two rounds.
* s32 values wrap at a small bound `S32Max`.

### Timing, handles and memory

`CoreTiming`. One action per piece of `RunLoop` between two points where
another core, a callback or a host thread can act: `BeginRound` measures the
lags, `CatchUp` lets a lagging core execute alone, `Advance` moves `ts_queue`
into `event_queue` and begins the events, `Fire` runs one callback,
`BeginSlice`, `InSlice` actions (`AddTicks`, `Idle`, `ScheduleEvent`,
`UnscheduleEvent`) and `EndSlice` are a slice. `HostSchedule` is any other host
thread; it reads a clock that is stale by at most `HostStaleness`. Only
differences of times matter, so each round counts ticks from the slowest core,
which makes the state space finite. Not modelled: the clock scale and the lock
while a save state is loaded.

`HandleTable`. `table` has the arrays `objects` and `generations`,
`next_free_slot` and `next_generation` (the code's members); `recent` is a
history variable with the handles created last. A handle is a slot and a
generation, with a bit for the one that `GetSlot` drops. Programs may look up
and close any word.

`VMManager`. Areas are records keyed by their first page, as in `vma_map`. The
loops of `UnmapRange`, `ReprotectRange` and `ChangeMemoryState` are folds over
the areas that the range touches, each changed and merged in turn, as in the
code. Nothing interrupts them. Only the loop of `svcControlProcess` is followed
turn by turn, because it keeps an iterator across calls: an iterator whose area
is gone leads on to any of the outcomes that a library can produce here, the
next area or the end. Whether areas have contiguous memory depends only on the
distance between a page and the page behind it; the run has one call that maps
memory at another distance than the rest.

`ProcessMemory`. One process and two regions, its own and `BASE`, as sets of
pages. `program`, chosen at the start, says which segments the process has,
which calls it makes and with which arguments. A call that returns an error before it has changed anything is not a
step; one that fails half-way is. An assertion that fails ends the behaviour
(`crashed`). Not modelled: other processes in the same region, sums of address
and size that wrap, the privileged forms of `Map` and `Unmap`, blocks in the
process's own region (`shared_device_mem`), kernel versions from 0x22C on, where
the linear heap of a process and the addresses of shared blocks are apart, and
permissions that do not fit those of a block.

### Requests, save states, rooms

`Ipc`. An action is a whole supervisor call. `Settle` is what happens at the end
of each: server ends that neither a handle, nor `pending_sessions`, nor the
`wait_objects` of a sleeping thread refer to are destroyed, the port's count
goes down, and what they had mapped is left behind. `sent_to` and `left_behind`
are history variables: which session a client waits for, and which buffers
belong to no session any more. Which thread runs next, and in which order
waiting threads are woken, is open: `Kernel` has the scheduling. A full handle
table is the parameter `room`. A thread of the server listens to any list of the
objects it has handles for (`Lists`), each thread to others. A reply returns any
of the buffers that its session has mapped (the descriptors of the reply decide),
the others stay in `mapped_buffer_context`; it may move the client's end of
another session. A reply to a client that was stopped meanwhile meets a
`DEBUG_ASSERT` (`thread.cpp:382`): any server does this whose client is terminated
in the middle of a request, so `Resumed` follows release builds, in which the
reply goes to nobody. Not modelled: the other descriptors of `TranslateCommandBuffer`,
buffers of a client that changes its memory meanwhile, named ports, the recorder.

`HleRequests`. `RunAsync` is two steps, the start of the host thread and
`SleepClientThread`, because the host thread runs in between: its event may be
pushed, though not fired, before the client sleeps. Wake-up events are counted
per thread in `ts_queue` and `event_queue`; `Stop` cancels those in the second
only. `RunLoop` is the part of the loop before the cores execute: it takes a
signal, performs a request, refuses it after five seconds (`expired`) or lets it
wait. `slot` has what a saved state says of threads and events. Not modelled: the
event that `SleepClientThread` returns for services that signal it themselves,
the signal `Shutdown`, the lock on the event queues while a state is loaded, and
a client that is one of several sharing a service's queue of work.

`Room`. The room's thread takes one packet of one peer (`ServerLoop`). A member
has a frontend thread (`call` says where it is in `Join` or `Leave`) and a loop
thread (`loop`); they share `state` and `send_list` as in the code, and `Leave`
may change the state just before or after the loop thread has looked at it
("late"). ENet is external: `up` and `down` are what is under way on a
connection, in order; when either side gives a connection up a suffix may be
lost and the other side is told. `peer` names are those of ENet's peers, reused
once both sides have let go. The identities of a client share one console
(`ConsoleAssumption`). The code reads the hash of the console at each `Join`
(`direct_connect.cpp:95`), and the user may have it generated anew in between
(`configure_system.cpp:590`), which is left out: `HandleJoinRequest`
(`room.cpp:316-436`) does not look at the peer, so a request of the first `Join`
that is still in `send_list` would then make one peer two members, of which
`HandleClientDisconnection` would erase one.

## Runs

| Run | Instance | Shows |
|---|---|---|
| `thread_queue_list` | 3 threads, 3 priorities | placement, no null dereference, the walk ends and misses nothing, refinement of `PriorityQueue` |
| `wait_objects` | 3 threads at priorities 0, 1, 2 on one core and one of three programs: 2 mutexes, locked at most twice, waited for alone or together, one boost, one exit; a semaphore released by -1 to 3 with s32 of 3 bits, once or twice in a list; 2 addresses, signals of all, 1 and 2; timeouts everywhere | ownership, ready queue, inheritance, no lost wake-up, all granted when told, the arbiter's list, best thread picked |
| `termination` | 3 threads of 2 processes on 2 cores of which one may lag, the threads of the second process on different cores; one of three programs: joins, a mutex, a one-shot event with a pulse timer, with or without timeouts, and the second process ended by any thread; threads that wait for themselves and an event named twice, with both processes ended by others | nothing is left of a process, waiting lists agree, no event is stale or double or fires for a dead thread, no assertion fails but for misuse |
| `progress` | 2 threads on 2 cores that may lag, a mutex, a sticky event | calls end, timed waits end (given rounds without a lagging core) |
| `core_timing` | 2 cores, slices of at most 2 ticks, 3 ids of events, one of them periodic and one scheduled by the host | a slice stops at the next event and is never empty, the cores stay together, every event fires unless it is cancelled |
| `handle_table` | 3 slots, generations 1 and 2, handles of 4 slots with and without the dropped bit | exact free list, late reuse, refinement of `HandlePool` |
| `vm_manager` | 4 pages, all ranges | the areas tile the address space, refinement of `AddressSpace` |
| `process_memory` | 5 pages of the application, 2 of `BASE`, 4 of heap addresses; three programs: heap, linear heap and threads; aliases and empty ranges; 2 shared blocks | regions, accounts and map agree, no page serves two, assertions hold for the first program |
| `ipc` | 2 clients, 2 server threads, 2 sessions of which the port admits one at a time, requests with a buffer of a page, any lists to listen to, any buffers returned | each request is in one place, the port's count, the buffers, what a sleeping server thread can miss and what not |
| `hle_requests` | 2 threads, one slot | one wake-up for each sleeper, none left over but for counted operations, saved states are whole, clients wake, requests to save and load end |
| `room` | a room for 2, a host and a guest that comes under two names or with a wrong password, one ban, 3 calls of the frontends, one loss | consistent members, who has joined is a member, no join is lost on a connection that holds |
| `arbiter_stopped` | a process ends while its thread sleeps on an address | finding: dead thread in the arbiter's list |

Bounds. Three threads are the least for which a best waiter can be passed over,
a holder can be boosted through a chain and a third thread can be ready in
between; two objects the least for waits for all that are partly available; two
cores the least for termination from elsewhere. Three priorities cover best,
middle and lowest (the boundary of the search for a waiter). `MaxLockCount`
bounds recursion: two in `wait_objects`, the least at which a release leaves the
mutex locked, one where mutexes are not the subject; `S32Max = 3` makes both
overflow and negative counts reachable. Other inputs are unbounded: a thread may
call anything its configuration lists, in any order, for ever.

In `CoreTiming`, `MaxOvershoot`, `HostStaleness` and `MaxPending` bound how far a
core runs beyond its slice, how old a clock a host thread reads, and how many
events there are of an id. Slices of two ticks let an event be due now,
within the slice and behind it. Three handle slots and two generations wrap both
the free list and the generations within a few calls. Three pages are the least
for an area with a neighbour on each side; the fourth adds ranges that cover
several areas in part. In `ProcessMemory` five pages fragment the region so that
a heap allocation has several blocks and the linear heap finds no room although
enough is free; the code of the programs with aliases and with blocks takes most
of them, because every page can be mapped several times. `MinMemoryUsed` bounds how often the failing
creation of a block lowers `memory_used`. The names of blocks are symmetric.

In `Ipc` two sessions with `MaxSessions = 1` let a session without a port, a
closed session that a thread still sleeps on and a refused connection stand
beside the port's one; the address space has room for one buffer with its guard
pages per session and no more, so that a buffer left behind is felt. Threads and
sessions are symmetric. `HleRequests` has no bound: its two threads call for
ever. In `Room`, `MaxCalls` and `MaxLosses` bound what the frontends ask for and
what the network loses: three calls are enough for a member to be thrown out and
return, or for both to join and one to be banned; peers number two more than
the members, one for a client that finds the room full, one for a connection
that only one side has let go. The room may be destroyed at any time.

Deadlock is checked in every run except five, in which the system may stop: in
`process_memory` a process ends; in `process_memory`, `termination`, `ipc` and
`hle_requests` an assertion or an exception may end everything; in `room` the
calls end.

Mutants. Every property is accompanied by a plausible defect of the code (the
definitions marked "Mutant") under which it fails.

## Fairness

`FairSpec` assumes what `RunLoop` does: a call in progress goes on; rounds begin
for ever; a slice ends (it is bounded by the downcount) and an advance ends; an
event that stays due fires when its core advances (`Timer::Advance` fires all
events that are due); and again and again a round begins in which no core lags
(a lagging core executes only as long as it lags). The last is an assumption about
the clocks, which `Kernel` leaves out: `TimedWaitEnds` does not show that lagging
cores cannot starve the others, only that a timeout is not lost on its way;
that lags stay bounded is `CoresStayTogether` of `CoreTiming`. Nothing is assumed
of the threads: they may loop, sleep or contend as they like.

`CoreTiming!FairSpec` assumes only that the loop goes on (weak fairness of a
step of `RunLoop` or of the slice that it executes). What host threads do is
not fair. The run has `MinDelay >= MaxOvershoot`, as the comment on `min_delay`
in `RunLoop` expects ("jit sometimes overshoot by a few ticks", against 100): a
lag up to the first is not made up, and a core exceeds its slice by no more than
the second. Nothing in the code enforces it.

`HleRequests` assumes that a section ends (services put timeouts on what they
wait for), that the emulator thread returns to `RunLoop` and to `Advance` again
and again, that emulated time passes every event, that `RunAsync` goes on to its
sleep, that the host's clock goes on, and that the frontend does not send a
signal in every turn of the loop: one in every turn would keep `RunLoop` from
looking at a request that waits. Threads may call and end as they like.

`Ipc` and `Room` have no fairness: what must eventually happen depends there on
the programs and on the network. `NoLostRequest` and `NoLostJoin` say instead
which sleeper has something that leads on. The first has an exception, which
is real: a request that waits behind another one is announced to nobody when the
reply frees the session, so that a thread that sleeps on the session misses it,
unless all threads of the server sleep on it: the last to fall asleep would have
seen it. The second is about connections that hold.

## Proofs

Each development begins with the facts about sequences that it needs
(membership, no duplicates, length: `AppendFacts`, `WithoutFacts` and the like),
so that it stands alone. `ThreadQueueListProofs` proves, for any set of threads
and any number of priority levels:

* `TypeCorrect`, and `NoNullPop`, `Placement` and `WalkMissesNothingTheorem`,
  which the run `thread_queue_list` checks on its instance;
* `Refinement`: `ThreadQueueList` implements `PriorityQueue`.

The inductive invariant `Inv` says more than each: besides types and placement,
the linked levels form a list in ascending order from `first` (stated by what
`next_nonempty` of each linked level is: the next linked level, or the end), every level that some
thread's current priority names is linked, and during a walk all levels
already passed are empty. The first is needed for the walk to be complete, the second for
`push` and `remove` to touch linked levels only, the third for the popped thread
to be the one the abstract queue pops. `Invariance` proves it inductive, one
step per action; the other theorems follow from it. The assumptions are those
on the constants in `ThreadQueueList`.

`HandleTableProofs` proves, for any number of slots and generations:

* `TypeCorrect`, and `FreeListCorrect` and `ReuseIsLate`, which the run
  `handle_table` checks;
* `Refinement`: `HandleTable` implements `HandlePool`.

Its inductive invariant is `GoodTable(table) /\ History(recent,
next_generation)`. `GoodTable` says that there is a sequence without repetition
that begins at `next_free_slot`, follows the generations of free slots, ends
outside the table and contains exactly the slots without an object: with this
witness the list needs no induction over its length. `History` says that the
generations of the handles in `recent` are found by counting back from
`next_generation`; without it nothing relates a handle to those created before
it. Facts about one table (`Create`, `Close`) are lemmas, which the
actions, a pair of handles included, cite once or twice.

In the modules below the inductive invariant is `IInv`, a conjunction of named
parts. `NextInv` (`StepInv` in `KernelProofs`) proves it inductive from one
lemma per action, `InvHolds` is the temporal theorem, and the theorems named
after a property of a run follow from it. `IInv`, and the further invariants of
the kernel below, were checked by TLC on the instances of the runs as well.

`KernelProofs`, for any number of threads, cores, priorities, objects and
processes and any programs: `MutexOwnershipTheorem`, `ReadyQueueExactTheorem`,
`WaitListsAgreeTheorem`, `NoLostWakeupTheorem`, `ToldWhenOwnedTheorem` and the
action property `SwitchPicksBestTheorem`. The invariant has two halves.

* About queues: the ready queues are exact (`QueuesExact`); the current thread
  of a core belongs to it (`CurrentOK`); and a core that has been rescheduled and
  not yet executed has a current thread that runs, unless another core has
  stopped it or it has just gone to sleep (`SlicesOK`). The last is what keeps a
  thread that is not running from being made ready a second time, or from being
  put back by the next reschedule.
* About calls: types, the form of the stack `todo`, and `LocksOK`, the agreement
  of the three accounts of a locked mutex with the exception of a thread for
  which `ReleaseThreadMutexes` is still on the stack.

The actions are many, the operations that touch the queues few. So each action is shown to be one of four kinds (`CallStep`: a thread is boosted, falls
asleep, becomes ready or dies, while the loop stays), and the half about queues is
proved once for each kind.

The three theorems about waiting rest on a second invariant, `WaitInv`, which
`WaitsHold` proves of every state in which no assertion has failed: after a
failed assertion the emulator goes no further, and the three properties claim
nothing. Between two calls the properties are nearly inductive; the work
is in what holds in the middle of a call, where a thread may be in the lists of
objects it no longer has, or sleep although it could run. Each part of `WaitInv`
excuses such a thread by a call that is still on the stack.

* `ListsOK`, `ListedOK`: nobody is in a list twice, `pending_mutexes` are the
  mutexes among them, and a thread in the list of an object has that object,
  unless `Stop` has just cleared its objects and its `RemoveWaitingThread` is
  still to come.
* `LeavingOK`, `EnteredOK`, `ResumingOK`: a thread whose wait is ending will leave
  every list it is in before `wait_objects` is cleared; a thread that has an object
  is in its list, or is entering it, or is about to be resumed.
* `EnteringOK`: while a thread goes to sleep nothing else is on the stack, and it
  could be given none of its objects.
* `ToldOK`: above the callback of a wait there are only acquisitions of the same
  thread, and what it is told it has is held by it or among them.
* `WokenOK`: a waiter that could be given an object is leaving its list, or
  `WakeupAllWaitingThreads` of the object is still to run, or, for a thread that
  waits for all its objects, that of any of them.

Most actions neither begin nor end a wait: `PlainStep` shows once that such a step
keeps `WaitInv` when it wakes the waiters of whatever it makes available, and each
of them is brought under it (`RestWaits`, `QuietWaits`, `FreeingWaits`). The
others have a lemma each: going to sleep (`SleepWaits`), entering and leaving a
list, acquiring (`GrantStep`), the calls that end a wait (`EndStep`),
`ResumeFromWait`, `Stop`, and the end of `WakeupAllWaitingThreads`
(`WakeupDoneWaits`), for which `CandidateFound` shows that
`GetHighestPriorityReadyThread` finds somebody whenever any waiter is ready.

Assumptions: those on the constants in `Scheduler`, `WaitObjects`,
`AddressArbiter` and `Kernel`, which give types, keep null values apart from real
ones, and keep the kinds of objects apart from each other (`KindsAssumption`:
they are different classes, and a timeout is none of them).

`KernelLifeProofs` goes on from there to the remaining invariants that the runs
check of `Kernel`: `NoStaleEventTheorem`, `InheritedPriorityTheorem`,
`ExitedLeavesNothingTheorem`, `NoAssertionFailsTheorem` and
`ArbiterListExactTheorem`, again for any number of threads, cores and objects.
There are no hypotheses about the programs or about where threads run: the
properties themselves name the kinds of misuse that can break them (`misuse`,
above). `LifeHolds` proves `LifeInv` as long as no dead thread has made a call;
`ExecutorActs` and `NobodyUndead` show that a step that is not recorded as such a
call is one of a living thread.

* `StoppingOK`: a thread for which `Stop` is on the stack is in no list of threads.
* `RosterOK`: `thread_list` holds the living threads of each core, except those
  about to be stopped.
* `EventsOK`: a thread or timer has at most one event, a thread only while it
  sleeps or has just been woken. `Rearm` finds that the timer has none, because
  it is the last call on the stack.

`InheritOK` (lemma `InheritHolds`) adds that the priority of a living thread is the best of those lent to
it, which each of `Acquire`, `Release`, `UpdatePending` and `svcSetThreadPriority`
restores in its own step. `ExitOK` (lemma `ExitHolds`) says that a living thread of a process that
exits has the call that will stop it on the stack (`ExitingOK`), that a dead
thread holds no mutex or is about to release them (`LeftOK`), and that objects are
acquired before anything else and for the living (`AcquiresOK`): nobody gives a
mutex to a thread that has been stopped.

`NoAssertionFails` and `ArbiterListExact` are about all five kinds of misuse.
`DutyHolds` proves, together, that as long as there was none no assertion has
failed and `DutyInv`, what the calls on the stack may rely on. So the five kinds
are all there are: no program can reach one of these assertions in another way.

* `Ordered`: which call may stand above which (`Fits`). A thread acquires its
  objects, is told, leaves the lists and is resumed before anything below is done;
  a one-shot object is not acquired twice; calls of the arbiter are among
  themselves. New calls go on top of the stack, so it is enough to look at what
  each call pushes (`OrderedConcat`, `StepOrder`).
* `AcquireOK`: the objects to be acquired are still available. The order is needed
  here: nothing between the decision and the acquisition takes them.
* `ResumeOK`, `TellOK`: a thread that is to be resumed still sleeps, and one that
  is told of the end of its wait will be resumed.
* `CallbackOK`: the callback of a thread is that of its wait, so a timeout finds
  the status it asserts.
* `HandlesOK`, `SelfOK`: who waits for all of a list names no one-shot twice in it;
  no dead thread is in its own list.
* `ArbiterOK`: the arbiter's list holds the threads that sleep on an address, except
  those about to be resumed.

`CoreTimingProofs`, for any number of cores and any slice, delay and overshoot
(`TimingAssumption` gives types only; `MinDelay >= MaxOvershoot` is not needed):
`SliceInBoundsTheorem` and `CoresStayTogetherTheorem`. The bound of the second is
not inductive: cores that lag execute alone one after the other, and each may
overshoot what the one before it has reached; and in an ordinary round a core
that exceeds its slice lengthens the slices of those behind it (`max_slice`).
`ClocksOK` therefore says of each core that its lag is at most `MaxSlice +
MinDelay` and one overshoot for each core ahead of it, which a core that
overtakes the others does not break, as it changes who is ahead; `RoundOK` has
the chain of executed ticks along the cores of a round; `LagsOK` relates `delay`
to the clocks it was measured from. That a finite set of times has a least
element, which `GetMaxSliceLength` and the choice of the core that lags most rest
on, comes from the well-foundedness of the naturals (`MinFacts`, `MaxFacts`).
With two cores the bound is `MaxSlice + MinDelay + MaxOvershoot`, the one the run
checks.

`IpcProofs`, for any number of clients, server threads and sessions and any limit
of the port (`IpcAssumption`): `RequestsAccountedTheorem`,
`PortCountExactTheorem`, `NoLostRequestTheorem`. `Good` describes the state of
sessions, threads and port by arguments and not by variables, because every call
changes them and then `Settle` destroys what nothing refers to: `Good` is shown for what each call
leaves, and one lemma shows that `Settle` keeps it. It adds to the properties
that a session without one of its ends has no requests, that a server thread has
wait objects exactly while it waits, and that requests come over handles that the
client's process still has; without the last an ended process could leave a
request that its session outlives. `NoLostRequest` is proved for any lists: a
thread falls asleep only on objects that it finds unavailable, and whatever makes
one available wakes its sleepers, except the reply; the thread that replies is
awake, and looks at its own list before it sleeps.

`HleRequestsProofs`, for any set of threads (`NoThreadAssumption`):
`OneWakeUpTheorem` and `SavedIsWholeTheorem`. Whether a state may be saved depends
on the number `pending_async_operations`. `PendingOK` says that it is never
smaller than the set of threads with an operation in progress, those stopped in
the middle included; so zero means that there is none, and an event that fires for
a thread that is gone belongs to an operation that is still counted.

`RoomProofs`, for any number of clients, identities, connections and slots:
`MembersConsistentTheorem`, `JoinedIsMemberTheorem`, `NoLostJoinTheorem`. The room
knows a client only by its peer. `OwnersOK` says that everything on a connection,
the member it made included, comes from one client; with `ConsoleAssumption` (the
identities of a client have one console) a second request on a connection is
therefore refused. `LinksOK` and `JoinsOK` say that a connection that the room has
given up ends on both sides with the notice of its end. `PeersAssumption` says
that ENet has a peer for every member and client.

Only model-checked:

* `WalkEnds`, `CallsEnd`, `TimedWaitEnds`, `EventsFire`, `ClientWakes`,
  `RequestEnds`: liveness under fairness is out of the prover's reach.
* `AreasTile` and the refinement of `AddressSpace` by `VMManager`; `BuffersIntact`
  of `Ipc`; the properties of `ProcessMemory`: the calls are folds over the areas
  they touch, and what a fold computes needs induction over data.

## Findings

The run `arbiter_stopped` ends in a counterexample, a sequence of calls after
which the code does not do what an assertion of it says. See `findings` in
`PROJECT.json`.

## Observations

Met while modelling; the models contain the behaviour, and where a property has
an exception for it the property says so.

* `svcExitProcess` and `svcTerminateProcess` on one core stop the current thread
  of another, whose slice in the same round still executes it (`core.cpp:300`
  looks only for a current thread); `thread.h:341` says "invalidating it from
  further use". The misuse `undead`.
* A second `svcTerminateProcess` of the same process, or one of a process that
  has not started, reaches an assertion (`process.cpp:122`).
* `WaitSynchronizationN` for all of a list that names a one-shot event twice
  acquires it twice; the second `Acquire` fails its assertion (`event.cpp:39`).
* A thread that waits for its own end is dead and in its own waiting list when
  `Stop` wakes the waiters, which `wait_object.cpp:55` asserts against.
* `GetSlot` drops bit 31 of a handle (`handle_table.cpp:20`), so that two words
  stand for each handle.
* Equal neighbouring areas can stay apart after `ReprotectRange` or
  `ChangeMemoryState`, whose range ended between them; `vm_manager.h:107` says
  they are always merged.
* `MapBackingMemoryToBase` looks at one free area only and fails when it is too
  small, although there may be room behind it (`vm_manager.cpp:90`).
* Memory with an alias can be freed through both addresses; the second time
  `Free` fails its assertion (`memory.cpp:278`).
* A shared memory block at an address whose creation fails takes its size off
  `memory_used` without having added it (`shared_memory.cpp:36`).
* `HeapAllocate` protects the area that its memory was merged into, and with it
  memory that was allocated before (`process.cpp:341`).
* `svcControlMemory(MEMOP_PROTECT)` with a size of 0 reaches an assertion
  (`vm_manager.cpp:298`).

Threads, timing and areas:

* `Thread::BoostPriority` changes the priority of a thread that waits for a
  mutex without updating the mutexes it waits for (`thread.cpp:504`): a boost
  does not travel along a chain of two mutexes. `thread.h:286` says "This
  prevents priority inversion via priority inheritance."
* The loop of `svcControlProcess` keeps its iterator while `Reprotect` may merge
  its area into the one before, which erases it (`svc.cpp:2170`).
* `MapBackingMemoryToBase` may also take a hole that is too small, though
  `vm_manager.h:126` says "at the first free address after the given base".
* `WaitSynchronizationN`, the semaphore and the handle slot have more edge cases
  than the runs name: a count that is a signed 32-bit sum (`semaphore.cpp:54`,
  in `wait_objects`), a periodic timer with an interval below one cycle that is
  re-armed from within `Advance` (`timer.cpp:94`, in no run).

IPC and services:

* A reply to a client whose thread was stopped resumes a dead thread:
  `thread.cpp:383` says "This should never happen".
* Two threads of a server share a session: one handles a request, the next is
  pending, the other sleeps on the session. When the first replies and listens
  elsewhere, the session is available and nobody wakes the sleeper
  (`svc.cpp:1008`). `NoLostRequest` has this as its one exception.
* Buffers that a reply does not name stay mapped until a later reply of the
  session names them (`ipc.cpp:156`).
* Buffers of a session that closed in the middle of a request stay mapped until
  the process ends; enough of them, and a later request fails its assertion
  (`ipc.cpp:212`).
* Clients that wait when the server's end closes sleep for ever
  (`server_session.cpp:42` has it as a TODO).
* A descriptor that moves several handles closes none of them at the source
  (`ipc.cpp:82`, `hle_ipc.cpp:194`).
* `Thread::Stop` cancels the events of the thread ("Cancel any outstanding
  wakeup events", `thread.cpp:109`), but not one in `ts_queue` nor one that a
  running section will push; when it fires `wakeup_callback_table.at` throws.
* The operation of a stopped thread is never reported as ended: from then on
  every request to save or load is refused after five seconds.
* A reset while a section runs lets the section use a thread manager that was
  destroyed. A request that waits survives the reset. A load that fails midway
  leaves a half-loaded system, with `save_state_status` at `LOADING`.
* `thread.cpp:82` serialises a wake-up callback that says it does not support it.

Room:

* `Leave` sets the state to `Idle` and joins the loop thread; a loop thread that
  handles `IdJoinSuccess` just then sets it back, and `Leave` waits for ever.
* `send_list` is not cleared between connections: a request that was not sent is
  sent on the next one, ahead of its own request, which then collides with it.
* A member whose connection ends while it is joining ignores that
  (`room_member.cpp:252`) and stays `Joining` until it leaves.
* The packet that tells a member why it was thrown out, or that the room closes,
  may be lost with the connection; it then sees a lost connection.

## Plan

1. (done) Ready queue, its abstract specification, proof of refinement.
2. (done) Scheduler, wait objects, arbiter, supervisor calls, termination.
3. (done) `CoreTiming`: clocks, slices, events and the thread-safe queue.
4. (done) `HandleTable`, its abstract specification, proof of refinement.
5. (done) `VMManager` against `AddressSpace`; `ProcessMemory`.
6. (done) `Ipc`: ports, sessions, requests between processes, disconnection.
7. (done) `HleRequests`: asynchronous answers, signals and save states.
8. (done) `Room` and `RoomMember`.
9. (done) Proofs of the safety invariants of `CoreTiming`, `Ipc` (except
   `BuffersIntact`), `HleRequests` and `Room`; of `MutexOwnership`,
   `ReadyQueueExact`, `SwitchPicksBest`, `WaitListsAgree`, `NoLostWakeup` and
   `ToldWhenOwned` of `Kernel`; and, up to the misuse they name, of
   `NoStaleEvent`, `InheritedPriority`, `ExitedLeavesNothing`, `NoAssertionFails`
   and `ArbiterListExact`.
10. The CPU limiters of core 1, joined to `CoreTiming`.
11. Resource limits of threads and objects; freeing a mapped shared block.
12. An abstract lock specification that mutexes implement.

## Not modelled

CPU emulation (`core/arm`), video, audio, file systems, loaders, services,
debugging tools, front ends and the web service: they compute data or do host
I/O, keep no protocol with the kernel beyond the calls above, and their
correctness is a matter of data that a model checker does not reach. They, the
second emulator in `ds_core` and the vendored libraries make up nearly all of the
repository's lines; the kernel, the timing, the room and the request state
machine that these modules cover are a small part of it by size.
