------------------------------ MODULE MCKernel ------------------------------
(***************************************************************************)
(* Small instances of Kernel.  Each configuration picks the objects, the   *)
(* cores and the programs that its question needs; the definitions below   *)
(* are the values it substitutes for the constants.                        *)
(***************************************************************************)
EXTENDS Kernel

CONSTANTS t1, t2, t3, m1, m2, s1, e1, x1, a1, a2, p1, p2

Empty == {}
EmptyFunction == <<>>

TwoThreads == {t1, t2}
ThreeThreads == {t1, t2, t3}
OneMutex == {m1}
TwoMutexes == {m1, m2}
OneSemaphore == {s1}
OneEvent == {e1}
OneTimer == {x1}
TwoAddresses == {a1, a2}
TwoProcesses == {p1, p2}

\* Priorities: t1 best, t3 worst.
Descending == [t \in Threads |-> (t1 :> 0 @@ t2 :> 1 @@ t3 :> 2)[t]]

\* t1 alone in p1; t2 creates t3 in p2.
ProcessOf2 == t1 :> p1 @@ t2 :> p2
ProcessOf3 == t1 :> p1 @@ t2 :> p2 @@ t3 :> p2
MainThread2 == p1 :> t1 @@ p2 :> t2

\* The two cores of an Old 3DS.  The threads of p2 are on different cores: t1
\* and t3 share core 0.
OneCore == [t \in Threads |-> 0]
TwoCores == t1 :> 0 @@ t2 :> 1
CoresOf3 == t1 :> 0 @@ t2 :> 1 @@ t3 :> 0

InStep == {{}}
MayLag == {{}, {0}, {1}}
SecondMayLag == {{}, {1}}

\* A semaphore with one of two slots free; what events and timers do.
Two == s1 :> 2
One == s1 :> 1
SignalReset == e1 :> "OneShot" @@ x1 :> "Pulse"
Sticky == e1 :> "Sticky"

\* A program that does nothing but sleep for a time; the others add to it.
Idle ==
  [handles |-> [t \in Threads |-> {}], delays |-> {"finite"}, targets |-> {},
   priorities |-> {}, counts |-> {}, addresses |-> {}, values |-> {},
   exiting |-> {}, terminating |-> [t \in Threads |-> {}]]

\* Two mutexes, alone and together; t2 is boosted and may end.
Locks ==
  [Idle EXCEPT !.handles = t1 :> {<<m1>>} @@ t2 :> {<<m1, m2>>}
                             @@ t3 :> {<<m1>>, <<m1, m2>>},
               !.targets = {t2}, !.priorities = {0}, !.exiting = {t2}]

\* A semaphore whose counts wrap at 3, once and twice in a list.
Slots ==
  [Idle EXCEPT !.handles = t1 :> {} @@ t2 :> {<<s1, s1>>} @@ t3 :> {<<s1>>},
               !.counts = {-1, 1, 2, 3}]

\* Two addresses, signalled for all, one or two threads.
Arbitration == [Idle EXCEPT !.addresses = {a1, a2}, !.values = {-1, 1, 2}]

\* A mutex, a one-shot event with a timer, and the end of another thread.
Ends ==
  [Idle EXCEPT !.handles = t1 :> {<<m1, t2>>} @@ t2 :> {<<e1, x1>>}
                             @@ t3 :> {<<m1>>},
               !.delays = {"zero", "finite"},
               !.exiting = {t1}, !.terminating = t1 :> {p2} @@ t2 :> {p2} @@ t3 :> {p2}]

\* The same without timeouts.
EndlessEnds == [Ends EXCEPT !.delays = {"forever"}]

\* Lists that name a thread itself and an event twice.
Misuses ==
  [Idle EXCEPT !.handles = t1 :> {<<e1, e1>>} @@ t2 :> {<<t2>>} @@ t3 :> {<<m1>>, <<t2, t3>>},
               !.exiting = {t3}, !.terminating = t1 :> {p2} @@ t2 :> {} @@ t3 :> {p1}]

\* A mutex and an event that stays signaled.
Mixed ==
  [Idle EXCEPT !.handles = [t \in Threads |-> {<<m1>>, <<e1>>, <<m1, e1>>}],
               !.exiting = {t1}]

ObjectPrograms == {Locks, Slots, Arbitration}
EndPrograms == {Ends, EndlessEnds, Misuses}
MixedPrograms == {Mixed}
AbandonedArbitration ==
  {[Arbitration EXCEPT !.terminating = t1 :> {} @@ t2 :> {p2} @@ t3 :> {p2}]}
=============================================================================
