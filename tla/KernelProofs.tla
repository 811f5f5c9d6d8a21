---------------------------- MODULE KernelProofs ----------------------------
(***************************************************************************)
(* Proofs about Kernel, for any number of cores, threads and objects and   *)
(* any programs.  First: the ready queues hold exactly the ready threads,  *)
(* mutexes and their holders agree, and a context switch picks the best    *)
(* thread.  Then, as long as no assertion has failed: the lists of waiters *)
(* agree, no wake-up is lost, and a thread is told of an object when it    *)
(* owns it.  KernelLifeProofs goes on from here.                           *)
(*                                                                         *)
(* What makes this inductive.  A thread may only go to sleep if it is not  *)
(* in a ready queue, and the code does not look at the status of the       *)
(* thread that makes a call: SlicesOK says why the current thread of a     *)
(* core that is about to execute is never ready.  While a thread is being  *)
(* stopped it lists mutexes that it no longer holds: LocksOK relates them  *)
(* to the calls that are still to be made.  And in the middle of a call    *)
(* the lists of waiters disagree, and threads that could run still sleep:  *)
(* WaitInv says which calls on the stack will put that right.              *)
(***************************************************************************)
EXTENDS Kernel, SequenceTheorems, FiniteSetTheorems, NaturalsInduction,
        WellFoundedInduction, TLAPS

-----------------------------------------------------------------------------
\* What the operations on ready queues and lists of waiters do.

\* Membership in ToSet, index by index.
LEMMA ToSetMember ==
  ASSUME NEW S, NEW s \in Seq(S), NEW e
  PROVE  e \in ToSet(s) <=> \E i \in 1..Len(s) : s[i] = e
BY LenProperties DEF ToSet

\* Appending an element, as push_back does.
LEMMA AppendFacts ==
  ASSUME NEW S, NEW s \in Seq(S), NEW e \in S
  PROVE  /\ Append(s, e) \in Seq(S)
         /\ ToSet(Append(s, e)) = ToSet(s) \cup {e}
         /\ NoDuplicates(s) /\ e \notin ToSet(s) => NoDuplicates(Append(s, e))
<1>1. Append(s, e) \in Seq(S)
  BY AppendProperties
<1>2. ToSet(Append(s, e)) = ToSet(s) \cup {e}
  BY AppendProperties, LenProperties, <1>1 DEF ToSet
<1>3. NoDuplicates(s) /\ e \notin ToSet(s) => NoDuplicates(Append(s, e))
  BY AppendProperties, ToSetMember DEF NoDuplicates
<1> QED BY <1>1, <1>2, <1>3

\* Prepending an element, as push_front does.
LEMMA PushFrontFacts ==
  ASSUME NEW S, NEW s \in Seq(S), NEW e \in S
  PROVE  /\ PushFront(s, e) \in Seq(S)
         /\ PushFront(s, e) # <<>>
         /\ ToSet(PushFront(s, e)) = ToSet(s) \cup {e}
         /\ NoDuplicates(s) /\ e \notin ToSet(s) => NoDuplicates(PushFront(s, e))
<1> DEFINE one == <<e>>
           all == one \o s
<1>1. /\ one \in Seq(S)
      /\ Len(one) = 1
      /\ one[1] = e
  OBVIOUS
<1>2. PushFront(s, e) = all
  BY DEF PushFront
<1> HIDE DEF one
<1>3. /\ all \in Seq(S)
      /\ Len(all) = Len(s) + 1
      /\ Len(s) \in Nat
      /\ \A i \in 1..Len(s) + 1 : all[i] = IF i = 1 THEN e ELSE s[i - 1]
  <2>1. /\ all \in Seq(S)
        /\ Len(all) = Len(one) + Len(s)
        /\ \A i \in 1..Len(one) + Len(s) :
              all[i] = IF i <= Len(one) THEN one[i] ELSE s[i - Len(one)]
    BY <1>1, ConcatProperties
  <2>2. Len(s) \in Nat
    BY LenProperties
  <2> HIDE DEF all
  <2> QED BY <1>1, <2>1, <2>2
<1> HIDE DEF all
<1>4. all # <<>>
  BY <1>3
<1>5. ToSet(all) = ToSet(s) \cup {e}
  <2>1. \A x : x \in ToSet(all) <=> \E i \in 1..Len(s) + 1 : all[i] = x
    BY <1>3, ToSetMember
  <2>2. ASSUME NEW x \in ToSet(all) PROVE x \in ToSet(s) \cup {e}
    BY <1>3, <2>1, ToSetMember
  <2>3. e \in ToSet(all)
    BY <1>3, <2>1
  <2>4. ASSUME NEW x \in ToSet(s) PROVE x \in ToSet(all)
    <3>1. PICK i \in 1..Len(s) : s[i] = x
      BY ToSetMember
    <3>2. i + 1 \in 1..Len(s) + 1 /\ all[i + 1] = x
      BY <1>3, <3>1
    <3> QED BY <2>1, <3>2
  <2> QED BY <2>2, <2>3, <2>4
<1>6. ASSUME NoDuplicates(s), e \notin ToSet(s) PROVE NoDuplicates(all)
  <2>1. \A i \in 1..Len(s) : s[i] # e
    BY <1>6, ToSetMember
  <2> SUFFICES ASSUME NEW i \in 1..Len(s) + 1, NEW j \in 1..Len(s) + 1, all[i] = all[j]
               PROVE  i = j
    BY <1>3 DEF NoDuplicates
  <2>2. CASE i = 1 \/ j = 1
    <3>1. ASSUME NEW n \in 1..Len(s) + 1, n # 1 PROVE all[n] # e
      <4>1. n - 1 \in 1..Len(s) /\ all[n] = s[n - 1]
        BY <1>3, <3>1
      <4> QED BY <2>1, <4>1
    <3>2. 1 \in 1..Len(s) + 1 /\ all[1] = e
      BY <1>3
    <3> QED BY <2>2, <3>1, <3>2
  <2>3. CASE i # 1 /\ j # 1
    <3>1. s[i - 1] = s[j - 1] /\ i - 1 \in 1..Len(s) /\ j - 1 \in 1..Len(s)
      BY <1>3, <2>3
    <3> QED BY <1>6, <3>1 DEF NoDuplicates
  <2> QED BY <2>2, <2>3
<1> QED BY <1>2, <1>3, <1>4, <1>5, <1>6

\* Dropping the head, as pop_front does.
LEMMA TailFacts ==
  ASSUME NEW S, NEW s \in Seq(S), s # <<>>
  PROVE  /\ Tail(s) \in Seq(S)
         /\ Head(s) \in S
         /\ Head(s) \in ToSet(s)
         /\ ToSet(Tail(s)) \subseteq ToSet(s)
         /\ ToSet(s) = ToSet(Tail(s)) \cup {Head(s)}
         /\ NoDuplicates(s) => NoDuplicates(Tail(s)) /\ Head(s) \notin ToSet(Tail(s))
<1>1. /\ Tail(s) \in Seq(S)
      /\ Head(s) \in S
      /\ Head(s) = s[1]
      /\ Len(s) \in Nat \ {0}
      /\ Len(Tail(s)) = Len(s) - 1
      /\ \A i \in 1..Len(s) - 1 : Tail(s)[i] = s[i + 1]
  BY HeadTailProperties, EmptySeq, LenProperties
<1>2. Head(s) \in ToSet(s)
  BY <1>1, ToSetMember
<1>3. ASSUME NEW x PROVE x \in ToSet(s) <=> x \in ToSet(Tail(s)) \cup {Head(s)}
  <2>1. ASSUME x \in ToSet(s), x # Head(s) PROVE x \in ToSet(Tail(s))
    <3>1. PICK i \in 1..Len(s) : s[i] = x
      BY <2>1, ToSetMember
    <3>2. i - 1 \in 1..Len(s) - 1 /\ Tail(s)[i - 1] = x
      BY <1>1, <2>1, <3>1
    <3> QED BY <1>1, <3>2, ToSetMember
  <2>2. ASSUME x \in ToSet(Tail(s)) PROVE x \in ToSet(s)
    <3>1. PICK i \in 1..Len(s) - 1 : Tail(s)[i] = x
      <4>1. \E i \in 1..Len(Tail(s)) : Tail(s)[i] = x
        BY <1>1, <2>2, ToSetMember
      <4> QED BY <1>1, <4>1
    <3>2. i + 1 \in 1..Len(s) /\ s[i + 1] = x
      BY <1>1, <3>1
    <3> QED BY <3>2, ToSetMember
  <2> QED BY <1>2, <2>1, <2>2
<1>4. ASSUME NoDuplicates(s) PROVE NoDuplicates(Tail(s)) /\ Head(s) \notin ToSet(Tail(s))
  <2>1. NoDuplicates(Tail(s))
    BY <1>1, <1>4 DEF NoDuplicates
  <2>2. \A i \in 1..Len(s) - 1 : Tail(s)[i] # Head(s)
    BY <1>1, <1>4 DEF NoDuplicates
  <2>3. ~ \E i \in 1..Len(Tail(s)) : Tail(s)[i] = Head(s)
    BY <1>1, <2>2
  <2>4. Head(s) \notin ToSet(Tail(s))
    BY <1>1, <2>3, ToSetMember
  <2> QED BY <2>1, <2>4
<1> QED BY <1>1, <1>2, <1>3, <1>4

\* Erasing an element.
LEMMA WithoutFacts ==
  ASSUME NEW S, NEW s \in Seq(S), NEW e
  PROVE  /\ Without(s, e) \in Seq(S)
         /\ ToSet(Without(s, e)) \subseteq ToSet(s)
         /\ e \notin ToSet(s) => Without(s, e) = s
         /\ NoDuplicates(s) => /\ NoDuplicates(Without(s, e))
                               /\ ToSet(Without(s, e)) = ToSet(s) \ {e}
<1>1. CASE ~ \E i \in 1..Len(s) : s[i] = e
  <2>1. Without(s, e) = s /\ e \notin ToSet(s)
    BY <1>1, ToSetMember DEF Without
  <2> QED BY <2>1
<1>2. CASE \E i \in 1..Len(s) : s[i] = e
  <2> DEFINE k == CHOOSE i \in 1..Len(s) : s[i] = e
             pre == SubSeq(s, 1, k - 1)
             post == SubSeq(s, k + 1, Len(s))
             w == Without(s, e)
  <2>1. k \in 1..Len(s) /\ s[k] = e
    BY <1>2
  <2>2. w = pre \o post
    BY <1>2 DEF Without, RemoveAt
  <2> HIDE DEF k, w
  <2>3. Len(s) \in Nat /\ \A i \in 1..Len(s) : s[i] \in S
    BY LenProperties
  <2>4. /\ pre \in Seq(S)
        /\ Len(pre) = k - 1
        /\ \A i \in 1..k - 1 : pre[i] = s[i]
    <3>1. k - 1 \in Int /\ \A i \in 1..k - 1 : s[i] \in S
      BY <2>1, <2>3
    <3>2. /\ pre \in Seq(S)
          /\ Len(pre) = IF 1 <= k - 1 THEN k - 1 - 1 + 1 ELSE 0
          /\ \A i \in 1..k - 1 - 1 + 1 : pre[i] = s[1 + i - 1]
      BY <3>1, SubSeqProperties
    <3> HIDE DEF pre
    <3> QED BY <2>1, <2>3, <3>2
  <2>5. /\ post \in Seq(S)
        /\ Len(post) = Len(s) - k
        /\ \A i \in 1..Len(s) - k : post[i] = s[k + i]
    <3>1. k + 1 \in Int /\ Len(s) \in Int /\ \A i \in k + 1..Len(s) : s[i] \in S
      BY <2>1, <2>3
    <3>2. /\ post \in Seq(S)
          /\ Len(post) = IF k + 1 <= Len(s) THEN Len(s) - (k + 1) + 1 ELSE 0
          /\ \A i \in 1..Len(s) - (k + 1) + 1 : post[i] = s[k + 1 + i - 1]
      BY <3>1, SubSeqProperties
    <3> HIDE DEF post
    <3> QED BY <2>1, <2>3, <3>2
  <2> HIDE DEF pre, post
  <2>6. /\ w \in Seq(S)
        /\ Len(w) = Len(s) - 1
        /\ \A i \in 1..Len(s) - 1 : w[i] = IF i < k THEN s[i] ELSE s[i + 1]
    <3>1. /\ w \in Seq(S)
          /\ Len(w) = Len(pre) + Len(post)
          /\ \A i \in 1..Len(pre) + Len(post) :
                w[i] = IF i <= Len(pre) THEN pre[i] ELSE post[i - Len(pre)]
      BY <2>2, <2>4, <2>5, ConcatProperties
    <3>2. Len(w) = Len(s) - 1
      BY <2>1, <2>3, <2>4, <2>5, <3>1
    <3>3. ASSUME NEW i \in 1..Len(s) - 1 PROVE w[i] = IF i < k THEN s[i] ELSE s[i + 1]
      <4>1. i \in 1..Len(pre) + Len(post)
        BY <2>1, <2>3, <2>4, <2>5
      <4>2. CASE i < k
        <5>1. i <= Len(pre) /\ i \in 1..k - 1
          BY <2>1, <2>3, <2>4, <4>2
        <5>2. w[i] = pre[i]
          BY <3>1, <4>1, <5>1
        <5> QED BY <2>4, <4>2, <5>1, <5>2
      <4>3. CASE ~(i < k)
        <5>1. ~(i <= Len(pre)) /\ i - Len(pre) \in 1..Len(s) - k /\ k + (i - Len(pre)) = i + 1
          BY <2>1, <2>3, <2>4, <4>3
        <5>2. w[i] = post[i - Len(pre)]
          BY <3>1, <4>1, <5>1
        <5>3. post[i - Len(pre)] = s[i + 1]
          BY <2>5, <5>1
        <5> QED BY <4>3, <5>2, <5>3
      <4> QED BY <4>2, <4>3
    <3> QED BY <3>1, <3>2, <3>3
  <2>7. ASSUME NEW x \in ToSet(w) PROVE x \in ToSet(s)
    <3>1. PICK i \in 1..Len(s) - 1 : w[i] = x
      BY <2>6, ToSetMember
    <3>2. \E j \in 1..Len(s) : s[j] = x
      BY <2>1, <2>3, <2>6, <3>1
    <3> QED BY <3>2, ToSetMember
  <2>8. ASSUME NEW x \in ToSet(s), x # e PROVE x \in ToSet(w)
    <3>1. PICK i \in 1..Len(s) : s[i] = x
      BY ToSetMember
    <3>2. i # k
      BY <2>1, <2>8, <3>1
    <3>3. \E j \in 1..Len(s) - 1 : w[j] = x
      <4>1. CASE i < k
        BY <2>1, <2>3, <2>6, <3>1, <4>1
      <4>2. CASE i > k
        <5>1. i - 1 \in 1..Len(s) - 1 /\ w[i - 1] = x
          BY <2>1, <2>3, <2>6, <3>1, <4>2
        <5> QED BY <5>1
      <4> QED BY <2>1, <2>3, <3>2, <4>1, <4>2
    <3> QED BY <2>6, <3>3, ToSetMember
  <2>9. ASSUME NoDuplicates(s) PROVE NoDuplicates(w) /\ e \notin ToSet(w)
    <3>1. NoDuplicates(w)
      BY <2>1, <2>3, <2>6, <2>9 DEF NoDuplicates
    <3>2. \A i \in 1..Len(s) - 1 : w[i] # e
      BY <2>1, <2>3, <2>6, <2>9 DEF NoDuplicates
    <3> QED BY <2>6, <3>1, <3>2, ToSetMember
  <2>10. e \in ToSet(s)
    BY <1>2, ToSetMember
  <2> QED BY <2>6, <2>7, <2>8, <2>9, <2>10 DEF w
<1> QED BY <1>1, <1>2

-----------------------------------------------------------------------------
\* The stack of calls.
IsTodo(calls) ==
  /\ \E S : calls \in Seq(S)
  /\ \A i \in DOMAIN calls : calls[i][1] \in OpCalls

\* A call that releases the mutexes of t is among the calls.
ReleasesIn(calls, t) ==
  \E i \in DOMAIN calls : calls[i][1] = "ReleaseThreadMutexes" /\ calls[i][2] = t

LocksOK ==
  /\ \A m \in Mutexes : lock_count[m] > 0 <=> holding_thread[m] # NoThread
  /\ \A m \in Mutexes, t \in Threads : holding_thread[m] = t => m \in held_mutexes[t]
  /\ \A t \in Threads : \A m \in held_mutexes[t] : holding_thread[m] = t \/ ReleasesIn(todo, t)

\* The ready queues q of threads with statuses st and priorities cp.
QueuesExact(q, st, cp) ==
  \A c \in Cores, p \in Priorities :
    /\ NoDuplicates(q[c][p])
    /\ \A t \in Threads :
         t \in ToSet(q[c][p]) <=> st[t] = "Ready" /\ CoreOf[t] = c /\ cp[t] = p

CurrentOK ==
  /\ \A c \in Cores : current_thread[c] # NoThread => CoreOf[current_thread[c]] = c
  /\ \A t \in Threads : status[t] = "Running" => current_thread[CoreOf[t]] = t

\* The cores that have been rescheduled and not yet executed their slice.
Settled(c) ==
  \/ phase \in {"execute", "delayed"} /\ c \in remaining
  \/ phase = "advance" /\ c \notin remaining
  \/ phase = "catchup" /\ c \in late \ remaining

\* The current thread of such a core runs, or another core has stopped it; once
\* it has gone to sleep it executes no more.
SlicesOK ==
  \A c \in Cores :
    Settled(c) /\ current_thread[c] # NoThread =>
      \/ status[current_thread[c]] \in {"Running", "Dead"}
      \/ phase \in {"execute", "delayed"} /\ IsRunningCore(c) /\ halted

Queues == [Cores -> [Priorities -> Seq(Threads)]]

QueueTypes ==
  /\ status \in [Threads -> Statuses]
  /\ current_priority \in [Threads -> Priorities]
  /\ ready_queue \in Queues
  /\ current_thread \in [Cores -> Threads \cup {NoThread}]
  /\ phase \in Phases /\ remaining \subseteq Cores /\ late \subseteq Cores

QueueInv ==
  /\ QueueTypes /\ QueuesExact(ready_queue, status, current_priority)
  /\ CurrentOK /\ SlicesOK

\* The types of the other variables.
ThreadTypes ==
  /\ nominal_priority \in [Threads -> Priorities]
  /\ wakeup_callback \in [Threads -> Callbacks]
  /\ thread_list \in [Cores -> Seq(Threads)]
  /\ registered \subseteq Threads
  /\ events \in [Cores -> [Sources -> Nat]]
  /\ reschedule_pending \in BOOLEAN /\ halted \in BOOLEAN

LockTypes ==
  /\ lock_count \in [Mutexes -> Nat]
  /\ holding_thread \in [Mutexes -> Threads \cup {NoThread}]
  /\ held_mutexes \in [Threads -> SUBSET Mutexes]

ObjectTypes ==
  /\ mutex_priority \in [Mutexes -> Priorities]
  /\ pending_mutexes \in [Threads -> SUBSET Mutexes]
  /\ available_count \in [Semaphores -> S32]
  /\ signaled \in [Signals -> BOOLEAN]
  /\ periodic \in [Timers -> BOOLEAN]
  /\ waiting_threads \in [Objects -> Seq(Threads)]
  /\ wait_objects \in [Threads -> Seq(Objects)]

OtherTypes ==
  /\ arbiter_threads \in Seq(Threads)
  /\ wait_address \in [Threads -> Addresses \cup {NoAddress}]
  /\ process_status \in [Processes -> {"Created", "Running", "Exited"}]

CallInv ==
  /\ ThreadTypes /\ LockTypes /\ ObjectTypes /\ OtherTypes
  /\ IsTodo(todo) /\ LocksOK

IInv == QueueInv /\ CallInv /\ program \in Programs

\* It has the types among its parts.
LEMMA InvTypes ==
  ASSUME IInv
  PROVE  TypeOK
BY DEF IInv, QueueInv, QueueTypes, Queues, CallInv, ThreadTypes, LockTypes, ObjectTypes,
       OtherTypes, IsTodo, TypeOK

-----------------------------------------------------------------------------
\* The stack of calls.

\* A single call.
LEMMA TodoOne ==
  ASSUME NEW op \in OpCalls, NEW x, NEW y
  PROVE  IsTodo(<<Call(op, x, y)>>)
<1>1. <<Call(op, x, y)>> \in Seq({Call(op, x, y)})
  OBVIOUS
<1>2. \A i \in DOMAIN <<Call(op, x, y)>> : <<Call(op, x, y)>>[i][1] = op
  BY DEF Call
<1> QED
  BY <1>1, <1>2 DEF IsTodo

\* No call at all.
LEMMA TodoNone == IsTodo(<<>>)
BY EmptySeq DEF IsTodo

\* Calls given as a function.
LEMMA TodoFunction ==
  ASSUME NEW n \in Nat, NEW calls, calls = [i \in 1..n |-> calls[i]],
         \A i \in 1..n : calls[i][1] \in OpCalls
  PROVE  IsTodo(calls)
<1>1. calls \in [1..n -> {calls[i] : i \in 1..n}]
  OBVIOUS
<1>2. calls \in Seq({calls[i] : i \in 1..n})
  BY <1>1, SeqDef
<1> QED
  BY <1>2 DEF IsTodo

\* One call for each of a list of objects.
LEMMA TodoForEach ==
  ASSUME NEW op \in OpCalls, NEW t, NEW S, NEW objects \in Seq(S)
  PROVE  IsTodo(ForEach(op, t, objects))
<1>1. PICK calls : calls = ForEach(op, t, objects)
  OBVIOUS
<1>2. Len(objects) \in Nat /\ DOMAIN objects = 1..Len(objects)
  BY LenProperties
<1>3. calls = [i \in 1..Len(objects) |-> Call(op, t, objects[i])]
  BY <1>1, <1>2 DEF ForEach
<1>4. \A i \in 1..Len(objects) : calls[i][1] = op
  BY <1>3 DEF Call
<1>5. calls = [i \in 1..Len(objects) |-> calls[i]]
  BY <1>3
<1> QED
  BY <1>1, <1>2, <1>4, <1>5, TodoFunction

\* Calls in front of others hide none of them.
LEMMA TodoConcat ==
  ASSUME NEW a, NEW b, IsTodo(a), IsTodo(b)
  PROVE  /\ IsTodo(a \o b)
         /\ \A t : ReleasesIn(b, t) => ReleasesIn(a \o b, t)
<1>1. PICK A, B : a \in Seq(A) /\ b \in Seq(B)
  BY DEF IsTodo
<1>2. PICK S : S = A \cup B
  OBVIOUS
<1>3. a \in Seq(S) /\ b \in Seq(S)
  <2>1. \A i \in 1..Len(a) : a[i] \in S
    BY <1>1, <1>2, ElementOfSeq
  <2>2. \A i \in 1..Len(b) : b[i] \in S
    BY <1>1, <1>2, ElementOfSeq
  <2>3. /\ a = [i \in 1..Len(a) |-> a[i]] /\ Len(a) \in Nat
        /\ b = [i \in 1..Len(b) |-> b[i]] /\ Len(b) \in Nat
    BY <1>1, LenProperties
  <2>4. a \in [1..Len(a) -> S] /\ b \in [1..Len(b) -> S]
    BY <2>1, <2>2, <2>3
  <2> QED
    BY <2>3, <2>4
<1>4. PICK r : r = a \o b
  OBVIOUS
<1>5. /\ r \in Seq(S) /\ Len(r) = Len(a) + Len(b)
      /\ \A i \in 1..Len(a) + Len(b) : r[i] = IF i <= Len(a) THEN a[i] ELSE b[i - Len(a)]
  BY <1>3, <1>4, ConcatProperties
<1>6. /\ Len(a) \in Nat /\ Len(b) \in Nat /\ DOMAIN a = 1..Len(a) /\ DOMAIN b = 1..Len(b)
      /\ DOMAIN r = 1..Len(r)
  BY <1>3, <1>5, LenProperties
<1>7. \A i \in DOMAIN r : r[i][1] \in OpCalls
  <2> SUFFICES ASSUME NEW i \in 1..Len(a) + Len(b) PROVE r[i][1] \in OpCalls
    BY <1>5, <1>6
  <2>1. CASE i <= Len(a)
    <3>1. i \in 1..Len(a) /\ r[i] = a[i]
      BY <1>5, <1>6, <2>1
    <3> QED
      BY <1>6, <3>1 DEF IsTodo
  <2>2. CASE ~(i <= Len(a))
    <3>1. i - Len(a) \in 1..Len(b) /\ r[i] = b[i - Len(a)]
      BY <1>5, <1>6, <2>2
    <3> QED
      BY <1>6, <3>1 DEF IsTodo
  <2> QED
    BY <2>1, <2>2
<1>8. ASSUME NEW t, ReleasesIn(b, t) PROVE ReleasesIn(r, t)
  <2>1. PICK j \in 1..Len(b) : b[j][1] = "ReleaseThreadMutexes" /\ b[j][2] = t
    BY <1>6, <1>8 DEF ReleasesIn
  <2>2. j + Len(a) \in 1..Len(a) + Len(b) /\ ~(j + Len(a) <= Len(a)) /\ j + Len(a) - Len(a) = j
    BY <1>6, <2>1
  <2>3. r[j + Len(a)] = b[j]
    BY <1>5, <2>2
  <2> QED
    BY <1>5, <1>6, <2>1, <2>2, <2>3 DEF ReleasesIn
<1> QED
  BY <1>4, <1>5, <1>7, <1>8 DEF IsTodo

\* The head of the stack has returned.
LEMMA TodoTail ==
  ASSUME NEW a, IsTodo(a), a # <<>>
  PROVE  /\ IsTodo(Tail(a))
         /\ \A t : /\ ReleasesIn(a, t)
                   /\ Head(a)[1] # "ReleaseThreadMutexes" \/ Head(a)[2] # t
                   => ReleasesIn(Tail(a), t)
<1>1. PICK A : a \in Seq(A)
  BY DEF IsTodo
<1>2. PICK r : r = Tail(a)
  OBVIOUS
<1>3. /\ r \in Seq(A) /\ Head(a) = a[1] /\ Len(a) \in Nat \ {0} /\ Len(r) = Len(a) - 1
      /\ \A i \in 1..Len(a) - 1 : r[i] = a[i + 1]
  BY <1>1, <1>2, HeadTailProperties, EmptySeq, LenProperties
<1>4. DOMAIN a = 1..Len(a) /\ DOMAIN r = 1..Len(a) - 1
  BY <1>1, <1>3, LenProperties
<1>5. \A i \in DOMAIN r : r[i][1] \in OpCalls
  BY <1>3, <1>4 DEF IsTodo
<1>6. ASSUME NEW t, ReleasesIn(a, t),
             Head(a)[1] # "ReleaseThreadMutexes" \/ Head(a)[2] # t
      PROVE  ReleasesIn(r, t)
  <2>1. PICK j \in 1..Len(a) : a[j][1] = "ReleaseThreadMutexes" /\ a[j][2] = t
    BY <1>4, <1>6 DEF ReleasesIn
  <2>2. j # 1
    BY <1>3, <1>6, <2>1
  <2>3. j - 1 \in 1..Len(a) - 1 /\ r[j - 1] = a[j]
    BY <1>3, <2>1, <2>2
  <2> QED
    BY <1>4, <2>1, <2>3 DEF ReleasesIn
<1> QED
  BY <1>2, <1>3, <1>5, <1>6 DEF IsTodo

-----------------------------------------------------------------------------
\* The ready queues.

\* The operations change one level of one core.
LEMMA QueueOps ==
  ASSUME NEW q \in Queues, NEW t \in Threads, NEW p \in Priorities
  PROVE  /\ push_back(q, t, p) \in Queues /\ push_front(q, t, p) \in Queues
         /\ remove(q, t, p) \in Queues
         /\ \A c \in Cores, r \in Priorities :
              /\ push_back(q, t, p)[c][r] = IF c = CoreOf[t] /\ r = p THEN Append(q[c][r], t)
                                            ELSE q[c][r]
              /\ push_front(q, t, p)[c][r] = IF c = CoreOf[t] /\ r = p THEN PushFront(q[c][r], t)
                                             ELSE q[c][r]
              /\ remove(q, t, p)[c][r] = IF c = CoreOf[t] /\ r = p THEN Without(q[c][r], t)
                                         ELSE q[c][r]
<1>1. CoreOf[t] \in Cores
  BY CoresAssumption
<1>2. \A c \in Cores, r \in Priorities : q[c][r] \in Seq(Threads)
  BY DEF Queues
<1>3. /\ Append(q[CoreOf[t]][p], t) \in Seq(Threads) /\ PushFront(q[CoreOf[t]][p], t) \in Seq(Threads)
      /\ Without(q[CoreOf[t]][p], t) \in Seq(Threads)
  BY <1>1, <1>2, AppendFacts, PushFrontFacts, WithoutFacts
<1>4. /\ q = [c \in Cores |-> q[c]]
      /\ \A c \in Cores : q[c] = [r \in Priorities |-> q[c][r]]
  BY DEF Queues
<1>5. push_back(q, t, p) = [c \in Cores |-> [r \in Priorities |->
        IF c = CoreOf[t] /\ r = p THEN Append(q[CoreOf[t]][p], t) ELSE q[c][r]]]
  <2>1. PICK g : g = [q[CoreOf[t]] EXCEPT ![p] = Append(@, t)]
    OBVIOUS
  <2>2. g = [r \in Priorities |-> IF r = p THEN Append(q[CoreOf[t]][p], t) ELSE q[CoreOf[t]][r]]
    BY <1>1, <1>4, <2>1
  <2>3. push_back(q, t, p) = [q EXCEPT ![CoreOf[t]] = g]
    BY <2>1 DEF push_back
  <2> QED
    BY <1>1, <1>4, <2>2, <2>3, ZenonT(40)
<1>6. push_front(q, t, p) = [c \in Cores |-> [r \in Priorities |->
        IF c = CoreOf[t] /\ r = p THEN PushFront(q[CoreOf[t]][p], t) ELSE q[c][r]]]
  <2>1. PICK g : g = [q[CoreOf[t]] EXCEPT ![p] = PushFront(@, t)]
    OBVIOUS
  <2>2. g = [r \in Priorities |-> IF r = p THEN PushFront(q[CoreOf[t]][p], t) ELSE q[CoreOf[t]][r]]
    BY <1>1, <1>4, <2>1
  <2>3. push_front(q, t, p) = [q EXCEPT ![CoreOf[t]] = g]
    BY <2>1 DEF push_front
  <2> QED
    BY <1>1, <1>4, <2>2, <2>3
<1>7. remove(q, t, p) = [c \in Cores |-> [r \in Priorities |->
        IF c = CoreOf[t] /\ r = p THEN Without(q[CoreOf[t]][p], t) ELSE q[c][r]]]
  <2>1. PICK g : g = [q[CoreOf[t]] EXCEPT ![p] = Without(@, t)]
    OBVIOUS
  <2>2. g = [r \in Priorities |-> IF r = p THEN Without(q[CoreOf[t]][p], t) ELSE q[CoreOf[t]][r]]
    BY <1>1, <1>4, <2>1
  <2>3. remove(q, t, p) = [q EXCEPT ![CoreOf[t]] = g]
    BY <2>1 DEF remove
  <2> QED
    BY <1>1, <1>4, <2>2, <2>3
<1> QED
  BY <1>2, <1>3, <1>5, <1>6, <1>7 DEF Queues

\* A thread that was not ready is queued.
LEMMA QueueIn ==
  ASSUME NEW q \in Queues, NEW st, NEW cp \in [Threads -> Priorities], QueuesExact(q, st, cp),
         NEW t \in Threads, st[t] # "Ready",
         NEW st2, st2[t] = "Ready", \A u \in Threads : u # t => st2[u] = st[u]
  PROVE  /\ QueuesExact(push_back(q, t, cp[t]), st2, cp)
         /\ QueuesExact(push_front(q, t, cp[t]), st2, cp)
<1>1. cp[t] \in Priorities /\ CoreOf[t] \in Cores
  BY CoresAssumption
<1>2. PICK s : s = q[CoreOf[t]][cp[t]]
  OBVIOUS
<1>3. s \in Seq(Threads) /\ NoDuplicates(s) /\ t \notin ToSet(s)
  BY <1>1, <1>2 DEF Queues, QueuesExact
<1>4. ToSet(Append(s, t)) = ToSet(s) \cup {t} /\ NoDuplicates(Append(s, t))
  BY <1>3, AppendFacts
<1>8. ToSet(PushFront(s, t)) = ToSet(s) \cup {t} /\ NoDuplicates(PushFront(s, t))
  BY <1>3, PushFrontFacts
<1>5. ASSUME NEW r,
             \A c \in Cores, p \in Priorities :
               IF c = CoreOf[t] /\ p = cp[t]
               THEN NoDuplicates(r[c][p]) /\ ToSet(r[c][p]) = ToSet(s) \cup {t}
               ELSE r[c][p] = q[c][p]
      PROVE  QueuesExact(r, st2, cp)
  <2> SUFFICES ASSUME NEW c \in Cores, NEW p \in Priorities
               PROVE  /\ NoDuplicates(r[c][p])
                      /\ \A u \in Threads :
                           u \in ToSet(r[c][p]) <=> st2[u] = "Ready" /\ CoreOf[u] = c /\ cp[u] = p
    BY DEF QueuesExact
  <2>1. CASE c = CoreOf[t] /\ p = cp[t]
    BY <1>2, <1>5, <2>1 DEF QueuesExact
  <2>2. CASE ~(c = CoreOf[t] /\ p = cp[t])
    BY <1>5, <2>2 DEF QueuesExact
  <2> QED
    BY <2>1, <2>2
<1>6. QueuesExact(push_back(q, t, cp[t]), st2, cp)
  <2>1. PICK r : r = push_back(q, t, cp[t])
    OBVIOUS
  <2>2. \A c \in Cores, p \in Priorities :
          r[c][p] = IF c = CoreOf[t] /\ p = cp[t] THEN Append(q[c][p], t) ELSE q[c][p]
    BY <1>1, <2>1, QueueOps
  <2> QED
    BY <1>2, <1>4, <1>5, <2>1, <2>2
<1>7. QueuesExact(push_front(q, t, cp[t]), st2, cp)
  <2>1. PICK r : r = push_front(q, t, cp[t])
    OBVIOUS
  <2>2. \A c \in Cores, p \in Priorities :
          r[c][p] = IF c = CoreOf[t] /\ p = cp[t] THEN PushFront(q[c][p], t) ELSE q[c][p]
    BY <1>1, <2>1, QueueOps
  <2> QED
    BY <1>2, <1>5, <1>8, <2>1, <2>2
<1> QED
  BY <1>6, <1>7

\* A ready thread leaves its queue.
LEMMA QueueOut ==
  ASSUME NEW q \in Queues, NEW st, NEW cp \in [Threads -> Priorities], QueuesExact(q, st, cp),
         NEW t \in Threads,
         NEW st2, st2[t] # "Ready", \A u \in Threads : u # t => st2[u] = st[u]
  PROVE  QueuesExact(remove(q, t, cp[t]), st2, cp)
<1>1. cp[t] \in Priorities /\ CoreOf[t] \in Cores
  BY CoresAssumption
<1>2. PICK s, r : s = q[CoreOf[t]][cp[t]] /\ r = remove(q, t, cp[t])
  OBVIOUS
<1>3. s \in Seq(Threads) /\ NoDuplicates(s)
  BY <1>1, <1>2 DEF Queues, QueuesExact
<1>4. ToSet(Without(s, t)) = ToSet(s) \ {t} /\ NoDuplicates(Without(s, t))
  BY <1>3, WithoutFacts
<1>5. \A c \in Cores, p \in Priorities :
        r[c][p] = IF c = CoreOf[t] /\ p = cp[t] THEN Without(s, t) ELSE q[c][p]
  BY <1>1, <1>2, QueueOps
<1> SUFFICES ASSUME NEW c \in Cores, NEW p \in Priorities
             PROVE  /\ NoDuplicates(r[c][p])
                    /\ \A u \in Threads :
                         u \in ToSet(r[c][p]) <=> st2[u] = "Ready" /\ CoreOf[u] = c /\ cp[u] = p
  BY <1>2 DEF QueuesExact
<1>6. CASE c = CoreOf[t] /\ p = cp[t]
  BY <1>2, <1>4, <1>5, <1>6 DEF QueuesExact
<1>7. CASE ~(c = CoreOf[t] /\ p = cp[t])
  BY <1>5, <1>7 DEF QueuesExact
<1> QED
  BY <1>6, <1>7

\* The status of a thread changes, but not whether it is ready; or the priority
\* of one that is not.
LEMMA QueueSame ==
  ASSUME NEW q, NEW st, NEW cp, QueuesExact(q, st, cp), NEW st2, NEW cp2,
         \A u \in Threads : /\ st2[u] = "Ready" <=> st[u] = "Ready"
                            /\ st[u] = "Ready" => cp2[u] = cp[u]
  PROVE  QueuesExact(q, st2, cp2)
BY DEF QueuesExact

\* Thread::BoostPriority: a ready thread moves to its new level.
LEMMA BoostExact ==
  ASSUME NEW t \in Threads, NEW p \in Priorities, status \in [Threads -> Statuses],
         current_priority \in [Threads -> Priorities], ready_queue \in Queues,
         QueuesExact(ready_queue, status, current_priority), BoostPriority(t, p)
  PROVE  /\ current_priority' \in [Threads -> Priorities] /\ ready_queue' \in Queues
         /\ QueuesExact(ready_queue', status, current_priority')
<1>1. PICK cp : cp = [current_priority EXCEPT ![t] = p]
  OBVIOUS
<1>2. /\ current_priority' = cp /\ cp \in [Threads -> Priorities] /\ cp[t] = p
      /\ \A u \in Threads : u # t => cp[u] = current_priority[u]
  BY <1>1 DEF BoostPriority
<1>3. CASE status[t] # "Ready"
  <2>1. ready_queue' = ready_queue
    BY <1>3 DEF BoostPriority
  <2>2. \A u \in Threads : status[u] = "Ready" => cp[u] = current_priority[u]
    BY <1>2, <1>3
  <2> QED
    BY <1>2, <2>1, <2>2, QueueSame
<1>4. CASE status[t] = "Ready"
  <2>1. PICK q, st : /\ q = remove(ready_queue, t, current_priority[t])
                     /\ st = [status EXCEPT ![t] = "Running"]
    OBVIOUS
  <2>2. ready_queue' = push_back(q, t, p)
    BY <1>4, <2>1 DEF BoostPriority, move
  <2>3. st[t] = "Running" /\ \A u \in Threads : u # t => st[u] = status[u]
    BY <2>1
  <2>4. q \in Queues /\ push_back(q, t, p) \in Queues
    BY <2>1, QueueOps
  <2>5. QueuesExact(q, st, current_priority)
    BY <2>1, <2>3, QueueOut
  <2>6. QueuesExact(q, st, cp)
    BY <1>2, <2>3, <2>5, QueueSame
  <2>7. QueuesExact(push_back(q, t, p), status, cp)
    BY <1>2, <1>4, <2>3, <2>4, <2>6, QueueIn
  <2> QED
    BY <1>2, <2>2, <2>4, <2>7
<1> QED
  BY <1>3, <1>4

-----------------------------------------------------------------------------
\* What a call does to the queues and to the current threads: one of these.

\* A call leaves the run loop where it is, and a core that was told to stop
\* executing does not go on.
LoopStays ==
  /\ UNCHANGED loopVars
  /\ halted' = halted \/ halted' = (phase \in {"execute", "delayed"})

\* Only priorities change.
Boosts ==
  /\ UNCHANGED <<status, current_thread>>
  /\ \/ UNCHANGED <<current_priority, ready_queue>>
     \/ \E t \in Threads, p \in Priorities : BoostPriority(t, p)

\* The calling thread goes to sleep.
FallsAsleep ==
  \E t \in Threads, w \in Waits :
    /\ Executes(t) /\ PrepareReschedule
    /\ status' = [status EXCEPT ![t] = w]
    /\ UNCHANGED <<current_priority, ready_queue, current_thread>>

\* A thread is created or its wait ends.
BecomesReady ==
  \E t \in Threads :
    /\ status[t] \in Waits \cup {"None"}
    /\ status' = [status EXCEPT ![t] = "Ready"]
    /\ ready_queue' = push_back(ready_queue, t, current_priority[t])
    /\ UNCHANGED <<current_priority, current_thread>>

\* A thread is stopped.
Dies ==
  \E t \in Threads :
    /\ status' = [status EXCEPT ![t] = "Dead"]
    /\ ready_queue' = IF status[t] = "Ready"
                      THEN remove(ready_queue, t, current_priority[t]) ELSE ready_queue
    /\ UNCHANGED <<current_priority, current_thread>>

CallStep == LoopStays /\ (Boosts \/ FallsAsleep \/ BecomesReady \/ Dies)

\* A call that changes no current thread, and the status of a thread that runs
\* only if the thread dies, leaves the slices alone.
LEMMA SlicesStay ==
  ASSUME QueueTypes, SlicesOK, LoopStays, current_thread' = current_thread,
         \A t \in Threads : \/ status'[t] = status[t] \/ status'[t] = "Dead"
                            \/ status[t] \notin {"Running", "Dead"}
  PROVE  SlicesOK'
<1>1. /\ phase' = phase /\ remaining' = remaining /\ late' = late
      /\ halted' = halted \/ halted' = (phase \in {"execute", "delayed"})
  BY DEF LoopStays, loopVars
<1> SUFFICES ASSUME NEW c \in Cores, Settled(c)', current_thread[c] # NoThread
             PROVE  \/ status'[current_thread[c]] \in {"Running", "Dead"}
                    \/ /\ phase' \in {"execute", "delayed"} /\ IsRunningCore(c)' /\ halted'
  BY DEF SlicesOK
<1>2. Settled(c) /\ current_thread[c] \in Threads
  BY <1>1 DEF Settled, QueueTypes
<1>3. CASE status[current_thread[c]] \in {"Running", "Dead"}
  BY <1>2, <1>3
<1>4. CASE phase \in {"execute", "delayed"} /\ IsRunningCore(c) /\ halted
  BY <1>1, <1>4 DEF IsRunningCore
<1> QED
  BY <1>2, <1>3, <1>4 DEF SlicesOK

\* Every call keeps the queues exact, and the current threads of the cores that
\* are about to execute running or dead.
LEMMA CallStepKeeps ==
  ASSUME QueueTypes, QueuesExact(ready_queue, status, current_priority), CurrentOK, SlicesOK,
         CallStep
  PROVE  /\ QueueTypes' /\ QueuesExact(ready_queue, status, current_priority)'
         /\ CurrentOK' /\ SlicesOK'
<1>1. /\ phase' = phase /\ remaining' = remaining /\ late' = late
      /\ halted' = halted \/ halted' = (phase \in {"execute", "delayed"})
  BY DEF CallStep, LoopStays, loopVars
<1>2. CASE Boosts
  <2>1. status' = status /\ current_thread' = current_thread
    BY <1>2 DEF Boosts
  <2>2. CASE UNCHANGED <<current_priority, ready_queue>>
    <3>1. current_priority' = current_priority /\ ready_queue' = ready_queue
      BY <2>2
    <3>2. QueueTypes' /\ CurrentOK'
      BY <1>1, <2>1, <3>1 DEF QueueTypes, CurrentOK
    <3>3. QueuesExact(ready_queue, status, current_priority)'
      BY <2>1, <3>1 DEF QueuesExact
    <3> QED
      BY <2>1, <3>2, <3>3, SlicesStay DEF CallStep
  <2>3. CASE \E t \in Threads, p \in Priorities : BoostPriority(t, p)
    <3>1. /\ current_priority' \in [Threads -> Priorities] /\ ready_queue' \in Queues
          /\ QueuesExact(ready_queue', status, current_priority')
      BY <2>3, BoostExact DEF QueueTypes
    <3>2. QueuesExact(ready_queue, status, current_priority)'
      BY <2>1, <3>1 DEF QueuesExact
    <3>3. QueueTypes' /\ CurrentOK'
      BY <1>1, <2>1, <3>1 DEF QueueTypes, CurrentOK
    <3> QED
      BY <2>1, <3>2, <3>3, SlicesStay DEF CallStep
  <2> QED
    BY <1>2, <2>2, <2>3 DEF Boosts
<1>3. CASE FallsAsleep
  <2>1. PICK t \in Threads, w \in Waits :
          /\ Executes(t) /\ PrepareReschedule
          /\ status' = [status EXCEPT ![t] = w]
          /\ UNCHANGED <<current_priority, ready_queue, current_thread>>
    BY <1>3 DEF FallsAsleep
  <2>2. /\ phase \in {"execute", "delayed"} /\ IsRunningCore(CoreOf[t]) /\ ~halted
        /\ current_thread[CoreOf[t]] = t /\ halted' = TRUE /\ CoreOf[t] \in Cores /\ t # NoThread
    BY <2>1, CoresAssumption, ThreadsAssumption DEF Executes, Executing, PrepareReschedule
  <2>3. status[t] \in {"Running", "Dead"}
    BY <2>2 DEF SlicesOK, Settled, IsRunningCore
  <2>4. /\ w \in Statuses /\ w # "Ready" /\ w # "Running"
        /\ status'[t] = w /\ \A u \in Threads : u # t => status'[u] = status[u]
        /\ status' \in [Threads -> Statuses]
    BY <2>1 DEF QueueTypes, Statuses, Waits
  <2>5. /\ current_priority' = current_priority /\ ready_queue' = ready_queue
        /\ current_thread' = current_thread
    BY <2>1
  <2>6. QueuesExact(ready_queue, status', current_priority)
    BY <2>3, <2>4, QueueSame
  <2>7. QueuesExact(ready_queue, status, current_priority)'
    BY <2>5, <2>6 DEF QueuesExact
  <2>8. QueueTypes' /\ CurrentOK'
    BY <1>1, <2>4, <2>5 DEF QueueTypes, CurrentOK
  <2>9. SlicesOK'
    BY <1>1, <2>2, <2>4, <2>5 DEF QueueTypes, CurrentOK, SlicesOK, Settled, IsRunningCore
  <2> QED
    BY <2>7, <2>8, <2>9
<1>4. CASE BecomesReady
  <2>1. PICK t \in Threads :
          /\ status[t] \in Waits \cup {"None"}
          /\ status' = [status EXCEPT ![t] = "Ready"]
          /\ ready_queue' = push_back(ready_queue, t, current_priority[t])
          /\ UNCHANGED <<current_priority, current_thread>>
    BY <1>4 DEF BecomesReady
  <2>2. /\ status[t] \notin {"Ready", "Running", "Dead"} /\ status'[t] = "Ready"
        /\ \A u \in Threads : u # t => status'[u] = status[u]
        /\ status' \in [Threads -> Statuses]
    BY <2>1 DEF QueueTypes, Statuses, Waits
  <2>3. current_priority' = current_priority /\ current_thread' = current_thread
    BY <2>1
  <2>4. ready_queue' \in Queues
    BY <2>1, QueueOps DEF QueueTypes
  <2>5. QueuesExact(push_back(ready_queue, t, current_priority[t]), status', current_priority)
    BY <2>2, QueueIn DEF QueueTypes
  <2>6. QueuesExact(ready_queue, status, current_priority)'
    BY <2>1, <2>3, <2>5 DEF QueuesExact
  <2>7. QueueTypes' /\ CurrentOK'
    BY <1>1, <2>2, <2>3, <2>4 DEF QueueTypes, CurrentOK
  <2>8. SlicesOK'
    BY <2>2, <2>3, SlicesStay DEF CallStep
  <2> QED
    BY <2>6, <2>7, <2>8
<1>5. CASE Dies
  <2>1. PICK t \in Threads :
          /\ status' = [status EXCEPT ![t] = "Dead"]
          /\ ready_queue' = IF status[t] = "Ready"
                            THEN remove(ready_queue, t, current_priority[t]) ELSE ready_queue
          /\ UNCHANGED <<current_priority, current_thread>>
    BY <1>5 DEF Dies
  <2>2. /\ status'[t] = "Dead" /\ \A u \in Threads : u # t => status'[u] = status[u]
        /\ status' \in [Threads -> Statuses]
    BY <2>1 DEF QueueTypes, Statuses
  <2>3. current_priority' = current_priority /\ current_thread' = current_thread
    BY <2>1
  <2>4. ready_queue' \in Queues
    BY <2>1, QueueOps DEF QueueTypes
  <2>5. QueuesExact(ready_queue', status', current_priority)
    <3>1. CASE status[t] = "Ready"
      <4>1. QueuesExact(remove(ready_queue, t, current_priority[t]), status', current_priority)
        BY <2>2, QueueOut DEF QueueTypes
      <4> QED
        BY <2>1, <3>1, <4>1
    <3>2. CASE status[t] # "Ready"
      <4>1. QueuesExact(ready_queue, status', current_priority)
        BY <2>2, <3>2, QueueSame
      <4> QED
        BY <2>1, <3>2, <4>1
    <3> QED
      BY <3>1, <3>2
  <2>6. QueuesExact(ready_queue, status, current_priority)'
    BY <2>3, <2>5 DEF QueuesExact
  <2>7. QueueTypes' /\ CurrentOK'
    BY <1>1, <2>2, <2>3, <2>4 DEF QueueTypes, CurrentOK
  <2>8. SlicesOK'
    BY <2>2, <2>3, SlicesStay DEF CallStep
  <2> QED
    BY <2>6, <2>7, <2>8
<1> QED
  BY <1>2, <1>3, <1>4, <1>5 DEF CallStep

-----------------------------------------------------------------------------
\* The run loop.

\* What Reschedule makes of core c.
Rescheduled(c) ==
  /\ status' \in [Threads -> Statuses] /\ ready_queue' \in Queues
  /\ current_thread' \in [Cores -> Threads \cup {NoThread}]
  /\ QueuesExact(ready_queue', status', current_priority)
  /\ \A d \in Cores : d # c => current_thread'[d] = current_thread[d]
  /\ \A u \in Threads : CoreOf[u] # c => status'[u] = status[u]
  /\ current_thread'[c] # NoThread =>
       CoreOf[current_thread'[c]] = c /\ status'[current_thread'[c]] = "Running"
  /\ \A u \in Threads : status'[u] = "Running" => current_thread'[CoreOf[u]] = u
  /\ events' = events \/ \E t \in Threads : events' = Unscheduled(events, t)

\* Nobody better is ready than the thread that core c switches to.
PickedBest(c) ==
  current_thread'[c] # current_thread[c] =>
    \A u \in Threads :
      status'[u] = "Ready" /\ CoreOf[u] = c =>
        /\ current_thread'[c] # NoThread
        /\ current_priority[current_thread'[c]] <= current_priority[u]

\* The core goes idle: no thread of it is ready.
LEMMA GoesIdle ==
  ASSUME QueueTypes, QueuesExact(ready_queue, status, current_priority), CurrentOK,
         NEW c \in Cores, PopLevels(c) = {}, ~RunningOn(c), SwitchContext(c, NoThread)
  PROVE  Rescheduled(c) /\ PickedBest(c)
<1>1. /\ current_thread' = [current_thread EXCEPT ![c] = NoThread]
      /\ status' = status /\ ready_queue' = ready_queue /\ events' = events
  BY DEF SwitchContext
<1>2. \A u \in Threads : status[u] = "Ready" => CoreOf[u] # c
  <2> SUFFICES ASSUME NEW u \in Threads, status[u] = "Ready", CoreOf[u] = c PROVE FALSE
    OBVIOUS
  <2>1. /\ current_priority[u] \in Priorities /\ ready_queue[c][current_priority[u]] \in Seq(Threads)
        /\ u \in ToSet(ready_queue[c][current_priority[u]])
    BY DEF QueueTypes, Queues, QueuesExact
  <2>2. ready_queue[c][current_priority[u]] # <<>>
    BY <2>1, ToSetMember
  <2> QED
    BY <2>1, <2>2 DEF PopLevels
<1>3. /\ current_thread' \in [Cores -> Threads \cup {NoThread}] /\ current_thread'[c] = NoThread
      /\ \A d \in Cores : d # c => current_thread'[d] = current_thread[d]
  BY <1>1 DEF QueueTypes
<1>4. \A u \in Threads : status[u] = "Running" => CoreOf[u] # c
  BY ThreadsAssumption DEF RunningOn, CurrentOK
<1>5. \A u \in Threads : status[u] = "Running" => current_thread'[CoreOf[u]] = u
  BY <1>3, <1>4, CoresAssumption DEF CurrentOK
<1> QED
  BY <1>1, <1>2, <1>3, <1>5 DEF Rescheduled, PickedBest, QueueTypes

\* The running thread goes on: it is queued at the front and taken out again.
LEMMA GoesOn ==
  ASSUME QueueTypes, QueuesExact(ready_queue, status, current_priority), CurrentOK,
         NEW c \in Cores, RunningOn(c), SwitchContext(c, current_thread[c])
  PROVE  Rescheduled(c) /\ PickedBest(c)
<1>1. PICK t \in Threads : t = current_thread[c]
  BY DEF RunningOn, QueueTypes
<1>2. t # NoThread /\ status[t] = "Running" /\ CoreOf[t] = c /\ current_priority[t] \in Priorities
  BY <1>1 DEF RunningOn, CurrentOK, QueueTypes
<1>3. PICK st, q : /\ st = [status EXCEPT ![t] = "Ready"]
                   /\ q = push_front(ready_queue, t, current_priority[t])
  OBVIOUS
<1>4. st[t] = "Ready" /\ \A u \in Threads : u # t => st[u] = status[u]
  BY <1>3 DEF QueueTypes
<1>5. /\ current_thread' = [current_thread EXCEPT ![c] = t] /\ status' = [st EXCEPT ![t] = "Running"]
      /\ ready_queue' = remove(q, t, current_priority[t]) /\ events' = Unscheduled(events, t)
  BY <1>1, <1>2, <1>3, <1>4 DEF SwitchContext
<1>6. q \in Queues /\ QueuesExact(q, st, current_priority)
  BY <1>2, <1>3, <1>4, QueueOps, QueueIn DEF QueueTypes
<1>7. status' = status /\ current_thread' = current_thread
  BY <1>1, <1>2, <1>3, <1>5 DEF QueueTypes, Statuses
<1>8. remove(q, t, current_priority[t]) \in Queues
  BY <1>2, <1>6, QueueOps
<1>9. QueuesExact(remove(q, t, current_priority[t]), status, current_priority)
  BY <1>2, <1>4, <1>6, QueueOut DEF QueueTypes
<1> QED
  BY <1>1, <1>2, <1>5, <1>7, <1>8, <1>9 DEF Rescheduled, PickedBest, QueueTypes, CurrentOK

\* The core switches to the oldest thread of the best level.
LEMMA SwitchesTo ==
  ASSUME QueueTypes, QueuesExact(ready_queue, status, current_priority), CurrentOK,
         NEW c \in Cores, NEW p \in PopLevels(c), \A r \in PopLevels(c) : p <= r,
         SwitchContext(c, Head(ready_queue[c][p]))
  PROVE  Rescheduled(c) /\ PickedBest(c)
<1>1. PICK next : next = Head(ready_queue[c][p])
  OBVIOUS
<1>2. /\ p \in Priorities /\ ready_queue[c][p] \in Seq(Threads) /\ ready_queue[c][p] # <<>>
      /\ RunningOn(c) => p < current_priority[current_thread[c]]
  BY DEF PopLevels, QueueTypes, Queues
<1>3. next \in Threads /\ next \in ToSet(ready_queue[c][p])
  BY <1>1, <1>2, TailFacts
<1>4. status[next] = "Ready" /\ CoreOf[next] = c /\ current_priority[next] = p /\ next # NoThread
  BY <1>2, <1>3, ThreadsAssumption DEF QueuesExact
<1>5. PICK st, q : /\ st = IF RunningOn(c) THEN [status EXCEPT ![current_thread[c]] = "Ready"]
                           ELSE status
                   /\ q = IF RunningOn(c)
                          THEN push_front(ready_queue, current_thread[c],
                                          current_priority[current_thread[c]])
                          ELSE ready_queue
  OBVIOUS
<1>6. /\ RunningOn(c) => /\ current_thread[c] \in Threads /\ CoreOf[current_thread[c]] = c
                         /\ status[current_thread[c]] = "Running"
                         /\ current_priority[current_thread[c]] \in Priorities
      /\ RunningOn(c) => st[current_thread[c]] = "Ready"
      /\ st \in [Threads -> Statuses]
      /\ \A u \in Threads : ~RunningOn(c) \/ u # current_thread[c] => st[u] = status[u]
  BY <1>5 DEF RunningOn, CurrentOK, QueueTypes, Statuses
<1>7. q \in Queues /\ QueuesExact(q, st, current_priority)
  <2>1. CASE ~RunningOn(c)
    BY <1>5, <2>1 DEF QueueTypes
  <2>2. CASE RunningOn(c)
    <3>1. q \in Queues
      BY <1>5, <1>6, <2>2, QueueOps DEF QueueTypes
    <3>2. QueuesExact(push_front(ready_queue, current_thread[c],
                                 current_priority[current_thread[c]]), st, current_priority)
      BY <1>6, <2>2, QueueIn DEF QueueTypes
    <3> QED
      BY <1>5, <2>2, <3>1, <3>2
  <2> QED
    BY <2>1, <2>2
<1>8. st[next] = "Ready"
  BY <1>3, <1>4, <1>6
<1>9. /\ current_thread' = [current_thread EXCEPT ![c] = next] /\ status' = [st EXCEPT ![next] = "Running"]
      /\ ready_queue' = remove(q, next, p) /\ events' = Unscheduled(events, next)
  BY <1>1, <1>4, <1>5, <1>8 DEF SwitchContext
<1>10. /\ status'[next] = "Running" /\ \A u \in Threads : u # next => status'[u] = st[u]
       /\ status' \in [Threads -> Statuses]
  BY <1>3, <1>6, <1>9 DEF Statuses
<1>11. ready_queue' \in Queues
  BY <1>2, <1>3, <1>7, <1>9, QueueOps
<1>12. QueuesExact(remove(q, next, current_priority[next]), status', current_priority)
  BY <1>3, <1>7, <1>10, QueueOut DEF QueueTypes
<1>13. /\ current_thread' \in [Cores -> Threads \cup {NoThread}] /\ current_thread'[c] = next
       /\ \A d \in Cores : d # c => current_thread'[d] = current_thread[d]
  BY <1>3, <1>9 DEF QueueTypes
<1>14. \A u \in Threads : CoreOf[u] # c => status'[u] = status[u]
  BY <1>4, <1>6, <1>10
<1>15. \A u \in Threads : status'[u] = "Running" => current_thread'[CoreOf[u]] = u
  <2> SUFFICES ASSUME NEW u \in Threads, status'[u] = "Running" PROVE current_thread'[CoreOf[u]] = u
    OBVIOUS
  <2>1. CASE u = next
    BY <1>4, <1>13, <2>1
  <2>2. CASE u # next
    <3>1. status[u] = "Running" /\ (~RunningOn(c) \/ u # current_thread[c])
      BY <1>6, <1>10, <2>2
    <3>2. current_thread[CoreOf[u]] = u /\ CoreOf[u] # c
      BY <3>1, ThreadsAssumption DEF CurrentOK, RunningOn
    <3> QED
      BY <1>13, <3>2, CoresAssumption
  <2> QED
    BY <2>1, <2>2
<1>16. Rescheduled(c)
  BY <1>3, <1>4, <1>9, <1>10, <1>11, <1>12, <1>13, <1>14, <1>15 DEF Rescheduled
<1>17. PickedBest(c)
  <2> SUFFICES ASSUME NEW u \in Threads, status'[u] = "Ready", CoreOf[u] = c
               PROVE  p <= current_priority[u]
    BY <1>4, <1>13 DEF PickedBest
  <2>1. u # next /\ st[u] = "Ready" /\ current_priority[u] \in Priorities
    BY <1>10 DEF QueueTypes
  <2>2. CASE RunningOn(c) /\ u = current_thread[c]
    BY <1>2, <2>1, <2>2, PriorityAssumption DEF Priorities
  <2>3. CASE ~(RunningOn(c) /\ u = current_thread[c])
    <3>1. status[u] = "Ready"
      BY <1>6, <2>1, <2>3
    <3>2. u \in ToSet(ready_queue[c][current_priority[u]])
      BY <2>1, <3>1 DEF QueuesExact
    <3>3. ready_queue[c][current_priority[u]] # <<>>
      BY <2>1, <3>2, ToSetMember DEF QueueTypes, Queues
    <3>4. CASE RunningOn(c) => current_priority[u] < current_priority[current_thread[c]]
      BY <2>1, <3>3, <3>4 DEF PopLevels
    <3>5. CASE RunningOn(c) /\ ~(current_priority[u] < current_priority[current_thread[c]])
      BY <1>2, <1>6, <2>1, <3>5, PriorityAssumption DEF Priorities
    <3> QED
      BY <3>4, <3>5
  <2> QED
    BY <2>2, <2>3
<1> QED
  BY <1>16, <1>17

\* Reschedule leaves the core with the best of its threads.
LEMMA RescheduleKeeps ==
  ASSUME QueueTypes, QueuesExact(ready_queue, status, current_priority), CurrentOK,
         NEW c \in Cores, Reschedule(c)
  PROVE  Rescheduled(c) /\ PickedBest(c)
<1>1. PICK next \in Threads \cup {NoThread} : PopNextReadyThread(c, next) /\ SwitchContext(c, next)
  BY DEF Reschedule
<1>2. CASE PopLevels(c) = {} /\ ~RunningOn(c)
  BY <1>1, <1>2, GoesIdle DEF PopNextReadyThread
<1>3. CASE PopLevels(c) = {} /\ RunningOn(c)
  BY <1>1, <1>3, GoesOn DEF PopNextReadyThread
<1>4. CASE PopLevels(c) # {}
  BY <1>1, <1>4, SwitchesTo DEF PopNextReadyThread
<1> QED
  BY <1>2, <1>3, <1>4

\* BeginRound keeps the part of the invariant about queues.
LEMMA BeginRoundKeeps ==
  ASSUME QueueInv, BeginRound
  PROVE  QueueInv'
<1>1. /\ status' = status /\ current_priority' = current_priority /\ ready_queue' = ready_queue
      /\ current_thread' = current_thread
  BY DEF BeginRound, threadVars, coreVars
<1>2. PICK behind \in DelayedSets :
        /\ late' = behind
        /\ phase' = IF behind = {} THEN "advance" ELSE "catchup"
        /\ remaining' = IF behind = {} THEN Cores ELSE behind
  BY DEF BeginRound
<1>3. QueueTypes' /\ CurrentOK'
  BY <1>1, <1>2, DelayedAssumption DEF QueueInv, QueueTypes, CurrentOK, Phases
<1>4. QueuesExact(ready_queue, status, current_priority)'
  BY <1>1 DEF QueueInv, QueuesExact
<1>5. \A c \in Cores : ~Settled(c)'
  BY <1>2 DEF Settled
<1> QED
  BY <1>3, <1>4, <1>5 DEF QueueInv, SlicesOK

\* The types and the queues of a core that is rescheduled, or not.
LEMMA VisitKeeps ==
  ASSUME QueueInv, NEW c \in Cores, current_priority' = current_priority,
         \/ Reschedule(c)
         \/ UNCHANGED <<status, ready_queue, current_thread, events>>,
         phase' \in Phases, remaining' \subseteq Cores, late' \subseteq Cores
  PROVE  /\ QueueTypes' /\ QueuesExact(ready_queue, status, current_priority)' /\ CurrentOK'
         /\ \A d \in Cores : d # c /\ current_thread'[d] # NoThread =>
              /\ current_thread'[d] = current_thread[d]
              /\ status'[current_thread'[d]] = status[current_thread[d]]
<1>1. CASE Reschedule(c)
  <2>1. Rescheduled(c)
    BY <1>1, RescheduleKeeps DEF QueueInv
  <2>2. QueueTypes'
    BY <2>1 DEF Rescheduled, QueueInv, QueueTypes
  <2>3. QueuesExact(ready_queue, status, current_priority)'
    BY <2>1 DEF Rescheduled, QueuesExact
  <2>4. CurrentOK'
    BY <2>1 DEF Rescheduled, QueueInv, CurrentOK
  <2>5. ASSUME NEW d \in Cores, d # c, current_thread'[d] # NoThread
        PROVE  /\ current_thread'[d] = current_thread[d]
               /\ status'[current_thread'[d]] = status[current_thread[d]]
    <3>1. current_thread'[d] = current_thread[d]
      BY <2>1, <2>5 DEF Rescheduled
    <3>2. current_thread[d] \in Threads /\ CoreOf[current_thread[d]] # c
      BY <2>5, <3>1 DEF QueueInv, QueueTypes, CurrentOK
    <3> QED
      BY <2>1, <3>1, <3>2 DEF Rescheduled
  <2> QED
    BY <2>2, <2>3, <2>4, <2>5
<1>2. CASE UNCHANGED <<status, ready_queue, current_thread, events>>
  <2>1. status' = status /\ ready_queue' = ready_queue /\ current_thread' = current_thread
    BY <1>2
  <2>2. QueuesExact(ready_queue, status, current_priority)'
    BY <2>1 DEF QueueInv, QueuesExact
  <2> QED
    BY <2>1, <2>2 DEF QueueInv, QueueTypes, CurrentOK
<1> QED
  BY <1>1, <1>2

\* Where RunLoop is after it has visited c.
LEMMA VisitedTypes ==
  ASSUME QueueTypes, NEW c \in Cores, Visited(c)
  PROVE  phase' \in Phases /\ remaining' \subseteq Cores /\ late' \subseteq Cores
<1>1. CASE remaining = {c} /\ phase = "catchup"
  BY <1>1 DEF Visited, NextPhase, QueueTypes, Phases
<1>2. CASE remaining = {c} /\ phase # "catchup"
  BY <1>2 DEF Visited, NextPhase, QueueTypes, Phases
<1>3. CASE remaining # {c}
  BY <1>3 DEF Visited, QueueTypes
<1> QED
  BY <1>1, <1>2, <1>3

\* EndAdvance keeps the part of the invariant about queues.
LEMMA EndAdvanceKeeps ==
  ASSUME QueueInv, NEW c \in Cores, EndAdvance(c)
  PROVE  QueueInv' /\ PickedBest(c) /\ Rescheduled(c)
<1>1. /\ phase \in {"catchup", "advance"} /\ c \in remaining /\ Visited(c) /\ Reschedule(c)
      /\ current_priority' = current_priority
  BY DEF EndAdvance, Advancing, IsRunningCore
<1>2. phase' \in Phases /\ remaining' \subseteq Cores /\ late' \subseteq Cores
  BY <1>1, VisitedTypes DEF QueueInv
<1>3. Rescheduled(c) /\ PickedBest(c)
  BY <1>1, RescheduleKeeps DEF QueueInv
<1>4. /\ QueueTypes' /\ QueuesExact(ready_queue, status, current_priority)' /\ CurrentOK'
      /\ \A d \in Cores : d # c /\ current_thread'[d] # NoThread =>
           /\ current_thread'[d] = current_thread[d]
           /\ status'[current_thread'[d]] = status[current_thread[d]]
  BY <1>1, <1>2, VisitKeeps
<1>5. ASSUME NEW d \in Cores, d # c, Settled(d)' PROVE Settled(d)
  <2>1. CASE remaining # {c}
    BY <1>1, <1>5, <2>1 DEF Visited, Settled
  <2>2. CASE remaining = {c} /\ phase = "advance"
    BY <1>1, <1>5, <2>2 DEF Settled
  <2>3. CASE remaining = {c} /\ phase = "catchup"
    BY <1>1, <1>5, <2>3 DEF Visited, NextPhase, Settled
  <2> QED
    BY <1>1, <2>1, <2>2, <2>3
<1>6. SlicesOK'
  <2> SUFFICES ASSUME NEW d \in Cores, Settled(d)', current_thread'[d] # NoThread
               PROVE  status'[current_thread'[d]] \in {"Running", "Dead"}
    BY DEF SlicesOK
  <2>1. CASE d = c
    BY <1>3, <2>1 DEF Rescheduled
  <2>2. CASE d # c
    BY <1>1, <1>4, <1>5, <2>2 DEF QueueInv, SlicesOK
  <2> QED
    BY <2>1, <2>2
<1> QED
  BY <1>3, <1>4, <1>6 DEF QueueInv

\* EndSlice keeps the part of the invariant about queues.
LEMMA EndSliceKeeps ==
  ASSUME QueueInv, NEW c \in Cores, EndSlice(c)
  PROVE  /\ QueueInv'
         /\ \/ Rescheduled(c) /\ PickedBest(c)
            \/ UNCHANGED <<status, ready_queue, current_thread, events>>
<1>1. /\ phase \in {"execute", "delayed"} /\ c \in remaining /\ Visited(c)
      /\ \A d \in remaining : c <= d
      /\ Reschedule(c) \/ UNCHANGED <<status, ready_queue, current_thread, events>>
      /\ current_priority' = current_priority
  BY DEF EndSlice, Executing, IsRunningCore
<1>2. phase' \in Phases /\ remaining' \subseteq Cores /\ late' \subseteq Cores
  BY <1>1, VisitedTypes DEF QueueInv
<1>3. \/ Rescheduled(c) /\ PickedBest(c)
      \/ UNCHANGED <<status, ready_queue, current_thread, events>>
  BY <1>1, RescheduleKeeps DEF QueueInv
<1>4. /\ QueueTypes' /\ QueuesExact(ready_queue, status, current_priority)' /\ CurrentOK'
      /\ \A d \in Cores : d # c /\ current_thread'[d] # NoThread =>
           /\ current_thread'[d] = current_thread[d]
           /\ status'[current_thread'[d]] = status[current_thread[d]]
  BY <1>1, <1>2, VisitKeeps
<1>5. ASSUME NEW d \in Cores, Settled(d)' PROVE Settled(d) /\ d # c /\ ~IsRunningCore(d)
  <2>1. CASE remaining # {c}
    <3>1. d \in remaining /\ d # c /\ Settled(d)
      BY <1>1, <1>5, <2>1 DEF Visited, Settled
    <3>2. c \in Int /\ d \in Int
      BY CoresAssumption DEF Cores
    <3> QED
      BY <1>1, <3>1, <3>2 DEF IsRunningCore
  <2>2. CASE remaining = {c}
    BY <1>1, <1>5, <2>2 DEF Visited, NextPhase, Settled
  <2> QED
    BY <2>1, <2>2
<1>6. SlicesOK'
  BY <1>4, <1>5 DEF QueueInv, SlicesOK
<1> QED
  BY <1>3, <1>4, <1>6 DEF QueueInv

-----------------------------------------------------------------------------
\* What every call does to the stack and to the mutexes.

\* The stack stays one, and a release of mutexes that was on it still is.
StackKeeps ==
  /\ IsTodo(todo')
  /\ \A t \in Threads : ReleasesIn(todo, t) => ReleasesIn(todo', t)

\* The call on top, unless it is ReleaseThreadMutexes, gives way to further calls.
LEMMA ReturnKeeps ==
  ASSUME IsTodo(todo), todo # <<>>, Head(todo)[1] # "ReleaseThreadMutexes",
         NEW calls, IsTodo(calls), Return(calls)
  PROVE  StackKeeps
<1>1. PICK rest : rest = Tail(todo)
  OBVIOUS
<1>2. IsTodo(rest) /\ \A t : ReleasesIn(todo, t) => ReleasesIn(rest, t)
  BY <1>1, TodoTail
<1>3. /\ IsTodo(calls \o rest)
      /\ \A t : ReleasesIn(rest, t) => ReleasesIn(calls \o rest, t)
  BY <1>2, TodoConcat
<1>4. todo' = calls \o rest
  BY <1>1 DEF Return
<1> QED
  BY <1>2, <1>3, <1>4 DEF StackKeeps

\* Calls are put on top of the stack.
LEMMA PushKeeps ==
  ASSUME IsTodo(todo), NEW calls, IsTodo(calls), todo' = calls \o todo
  PROVE  StackKeeps
BY TodoConcat DEF StackKeeps

\* An empty stack gets its first calls.
LEMMA StartKeeps ==
  ASSUME todo = <<>>, IsTodo(todo')
  PROVE  StackKeeps
BY DEF StackKeeps, ReleasesIn

\* The stack stays.
LEMMA SameKeeps ==
  ASSUME IsTodo(todo), todo' = todo
  PROVE  StackKeeps
BY DEF StackKeeps, ReleasesIn, IsTodo

\* The mutexes are left alone.
LEMMA LocksStay ==
  ASSUME LockTypes, LocksOK, UNCHANGED lockVars, StackKeeps
  PROVE  LockTypes' /\ LocksOK' /\ IsTodo(todo')
<1>1. lock_count' = lock_count /\ holding_thread' = holding_thread /\ held_mutexes' = held_mutexes
  BY DEF lockVars
<1>2. LocksOK'
  BY <1>1 DEF LocksOK, StackKeeps, ReleasesIn
<1> QED
  BY <1>1, <1>2 DEF LockTypes, StackKeeps, IsTodo

\* Nothing happens to the threads but that a reschedule may be asked for.
LEMMA QuietStep ==
  ASSUME UNCHANGED <<status, current_priority, ready_queue, current_thread>>,
         UNCHANGED loopVars, UNCHANGED flagVars \/ PrepareReschedule
  PROVE  CallStep
BY DEF CallStep, LoopStays, Boosts, PrepareReschedule, flagVars

\* The priorities change.
LEMMA BoostStep ==
  ASSUME UNCHANGED <<status, current_thread>>, UNCHANGED loopVars,
         UNCHANGED flagVars \/ PrepareReschedule,
         \/ UNCHANGED <<current_priority, ready_queue>>
         \/ \E t \in Threads, p \in Priorities : BoostPriority(t, p)
  PROVE  CallStep
BY DEF CallStep, LoopStays, Boosts, PrepareReschedule, flagVars

\* Mutex::UpdatePriority boosts the holder or does nothing.
LEMMA MutexPriorityStep ==
  ASSUME LockTypes, mutex_priority \in [Mutexes -> Priorities], NEW m \in Mutexes, NEW ws,
         UpdateMutexPriority(m, ws)
  PROVE  /\ mutex_priority' \in [Mutexes -> Priorities]
         /\ \/ UNCHANGED <<current_priority, ready_queue>>
            \/ \E t \in Threads, p \in Priorities : BoostPriority(t, p)
<1>1. PICK best \in Priorities :
        IF holding_thread[m] = NoThread \/ best = mutex_priority[m]
        THEN UNCHANGED <<mutex_priority, current_priority, ready_queue>>
        ELSE /\ mutex_priority' = [mutex_priority EXCEPT ![m] = best]
             /\ UpdateThreadPriority(holding_thread[m],
                                     held_mutexes[holding_thread[m]], mutex_priority')
  BY DEF UpdateMutexPriority
<1>2. CASE holding_thread[m] = NoThread \/ best = mutex_priority[m]
  BY <1>1, <1>2
<1>3. CASE ~(holding_thread[m] = NoThread \/ best = mutex_priority[m])
  <2>1. holding_thread[m] \in Threads
    BY <1>3 DEF LockTypes
  <2>2. \E p \in Priorities : BoostPriority(holding_thread[m], p)
    BY <1>1, <1>3 DEF UpdateThreadPriority
  <2> QED
    BY <1>1, <1>3, <2>1, <2>2
<1> QED
  BY <1>2, <1>3

\* The flags after a call.
LEMMA FlagTypes ==
  ASSUME reschedule_pending \in BOOLEAN, halted \in BOOLEAN,
         UNCHANGED flagVars \/ PrepareReschedule
  PROVE  reschedule_pending' \in BOOLEAN /\ halted' \in BOOLEAN
<1>1. CASE UNCHANGED flagVars
  BY <1>1 DEF flagVars
<1>2. CASE PrepareReschedule
  <2>1. reschedule_pending' = TRUE /\ halted' = (phase \in {"execute", "delayed"})
    BY <1>2 DEF PrepareReschedule
  <2>2. (phase \in {"execute", "delayed"}) \in BOOLEAN
    OBVIOUS
  <2> QED
    BY <2>1, <2>2
<1> QED
  BY <1>1, <1>2

\* The timing queues.
LEMMA EventTypes ==
  ASSUME events \in [Cores -> [Sources -> Nat]], NEW x \in Sources
  PROVE  /\ Scheduled(events, x) \in [Cores -> [Sources -> Nat]]
         /\ Unscheduled(events, x) \in [Cores -> [Sources -> Nat]]
         /\ Scheduled(Unscheduled(events, x), x) \in [Cores -> [Sources -> Nat]]
         /\ \A delay : WakeAfterDelay(events, x, delay) \in [Cores -> [Sources -> Nat]]
<1>1. ASSUME NEW ev \in [Cores -> [Sources -> Nat]]
      PROVE  Scheduled(ev, x) \in [Cores -> [Sources -> Nat]]
  <2>1. ASSUME NEW c \in Cores
        PROVE  [ev[c] EXCEPT ![x] = @ + IF IsRunningCore(c) THEN 1 ELSE 0] \in [Sources -> Nat]
    <3>1. ev[c] \in [Sources -> Nat] /\ ev[c][x] \in Nat
      OBVIOUS
    <3>2. (ev[c][x] + IF IsRunningCore(c) THEN 1 ELSE 0) \in Nat
      BY <3>1
    <3> QED
      BY <3>1, <3>2
  <2> QED
    BY <2>1 DEF Scheduled
<1>2. Unscheduled(events, x) \in [Cores -> [Sources -> Nat]]
  BY DEF Unscheduled
<1>3. \A delay : WakeAfterDelay(events, x, delay) \in [Cores -> [Sources -> Nat]]
  BY <1>1 DEF WakeAfterDelay
<1> QED
  BY <1>1, <1>2, <1>3

-----------------------------------------------------------------------------
\* The calls on objects.

CallKeeps == CallInv' /\ CallStep

\* A call that is over and has changed no mutex's lock.
LEMMA ReturnsQuietly ==
  ASSUME CallInv, todo # <<>>, Head(todo)[1] # "ReleaseThreadMutexes", Return(<<>>),
         UNCHANGED lockVars
  PROVE  LockTypes' /\ LocksOK' /\ IsTodo(todo')
BY ReturnKeeps, TodoNone, LocksStay DEF CallInv

\* AcquireMutex keeps the part of the invariant about calls.
LEMMA AcquireMutexKeeps ==
  ASSUME IInv, NEW t \in Threads, NEW m \in Mutexes, AcquireMutex(t, m),
         UNCHANGED <<arbiterVars, process_status>>
  PROVE  CallKeeps
<1>1. /\ todo # <<>> /\ Head(todo)[1] = "Acquire" /\ Return(<<>>)
      /\ lock_count' = [lock_count EXCEPT ![m] = @ + 1]
      /\ lock_count \in [Mutexes -> Nat] /\ t # NoThread
  BY ThreadsAssumption DEF AcquireMutex, Calling, IInv, CallInv, LockTypes
<1>2. StackKeeps
  BY <1>1, ReturnKeeps, TodoNone DEF IInv, CallInv
<1>3. UNCHANGED flagVars \/ PrepareReschedule
  BY DEF AcquireMutex
<1>4. CallStep
  <2>1. \/ UNCHANGED <<current_priority, ready_queue>>
        \/ \E u \in Threads, p \in Priorities : BoostPriority(u, p)
    BY DEF AcquireMutex, UpdateThreadPriority
  <2> QED
    BY <1>3, <2>1, BoostStep DEF AcquireMutex, coreVars
<1>5. ThreadTypes' /\ OtherTypes'
  BY <1>3, FlagTypes
  DEF AcquireMutex, IInv, CallInv, ThreadTypes, OtherTypes, coreVars, arbiterVars
<1>6. ObjectTypes'
  BY DEF AcquireMutex, IInv, QueueInv, QueueTypes, CallInv, ObjectTypes, waitVars, signalVars
<1>7. LockTypes' /\ LocksOK'
  <2>1. CASE lock_count[m] = 0
    <3>1. /\ held_mutexes' = [held_mutexes EXCEPT ![t] = @ \cup {m}]
          /\ holding_thread' = [holding_thread EXCEPT ![m] = t]
      BY <2>1 DEF AcquireMutex
    <3>5. ~(lock_count[m] > 0)
      BY <2>1
    <3>6. holding_thread[m] = NoThread
      BY <3>5 DEF IInv, CallInv, LocksOK
    <3>2. LockTypes'
      BY <1>1, <3>1 DEF IInv, CallInv, LockTypes
    <3>3. /\ \A n \in Mutexes : lock_count'[n] > 0 <=> holding_thread'[n] # NoThread
          /\ \A n \in Mutexes, u \in Threads : holding_thread'[n] = u => n \in held_mutexes'[u]
      BY <1>1, <3>1, <3>6 DEF IInv, CallInv, LockTypes, LocksOK
    <3>4. \A u \in Threads : \A n \in held_mutexes'[u] :
            holding_thread'[n] = u \/ ReleasesIn(todo', u)
      <4> SUFFICES ASSUME NEW u \in Threads, NEW n \in held_mutexes'[u],
                          ~ReleasesIn(todo', u)
                   PROVE  holding_thread'[n] = u
        OBVIOUS
      <4>1. ~ReleasesIn(todo, u)
        BY <1>2 DEF StackKeeps
      <4>2. \A k \in held_mutexes[u] : holding_thread[k] = u
        BY <4>1 DEF IInv, CallInv, LocksOK
      <4> QED
        BY <3>1, <3>6, <4>2, ThreadsAssumption DEF IInv, CallInv, LockTypes
    <3> QED
      BY <3>2, <3>3, <3>4 DEF LocksOK, ReleasesIn
  <2>2. CASE lock_count[m] # 0
    <3>1. held_mutexes' = held_mutexes /\ holding_thread' = holding_thread
      BY <2>2 DEF AcquireMutex
    <3>2. LockTypes'
      BY <1>1, <3>1 DEF IInv, CallInv, LockTypes
    <3>3. \A n \in Mutexes : lock_count'[n] > 0 <=> lock_count[n] > 0
      BY <1>1, <2>2
    <3>4. \A u \in Threads : \A n \in held_mutexes'[u] :
            holding_thread'[n] = u \/ ReleasesIn(todo', u)
      BY <1>2, <3>1 DEF IInv, CallInv, LocksOK, StackKeeps
    <3> QED
      BY <3>1, <3>2, <3>3, <3>4 DEF IInv, CallInv, LocksOK, ReleasesIn
  <2> QED
    BY <2>1, <2>2
<1> QED
  BY <1>2, <1>4, <1>5, <1>6, <1>7 DEF CallKeeps, CallInv, StackKeeps, IsTodo

\* AcquireSemaphore keeps the part of the invariant about calls.
LEMMA AcquireSemaphoreKeeps ==
  ASSUME IInv, NEW t \in Threads, NEW s \in Semaphores, AcquireSemaphore(t, s),
         UNCHANGED <<arbiterVars, process_status>>
  PROVE  CallKeeps
<1>1. LockTypes' /\ LocksOK' /\ IsTodo(todo')
  BY ReturnsQuietly DEF AcquireSemaphore, Calling, IInv
<1>2. CallStep
  BY QuietStep DEF AcquireSemaphore, threadVars, coreVars
<1>3. ThreadTypes' /\ OtherTypes'
  BY DEF AcquireSemaphore, IInv, CallInv, ThreadTypes, OtherTypes, threadVars, coreVars, flagVars,
         arbiterVars
<1>4. available_count' \in [Semaphores -> S32]
  <2>1. PICK n : n = available_count[s]
    OBVIOUS
  <2>2. n \in S32 /\ (n > 0 => n - 1 \in S32)
    BY <2>1, ObjectsAssumption DEF IInv, CallInv, ObjectTypes, S32
  <2>3. available_count' = [available_count EXCEPT ![s] = IF n <= 0 THEN n ELSE n - 1]
    BY <2>1 DEF AcquireSemaphore
  <2>4. (IF n <= 0 THEN n ELSE n - 1) \in S32
    BY <2>2, ObjectsAssumption DEF S32
  <2> QED
    BY <2>3, <2>4 DEF IInv, CallInv, ObjectTypes
<1>5. ObjectTypes'
  BY <1>4 DEF AcquireSemaphore, IInv, CallInv, ObjectTypes, waitVars
<1> QED
  BY <1>1, <1>2, <1>3, <1>5 DEF CallKeeps, CallInv

\* AcquireSignal keeps the part of the invariant about calls.
LEMMA AcquireSignalKeeps ==
  ASSUME IInv, NEW t \in Threads, NEW e \in Signals, AcquireSignal(t, e),
         UNCHANGED <<arbiterVars, process_status>>
  PROVE  CallKeeps
<1>1. LockTypes' /\ LocksOK' /\ IsTodo(todo')
  BY ReturnsQuietly DEF AcquireSignal, Calling, IInv
<1>2. CallStep
  BY QuietStep DEF AcquireSignal, threadVars, coreVars
<1>3. ThreadTypes' /\ OtherTypes'
  BY DEF AcquireSignal, IInv, CallInv, ThreadTypes, OtherTypes, threadVars, coreVars, flagVars,
         arbiterVars
<1>4. signaled' \in [Signals -> BOOLEAN]
  <2>1. (signaled[e] /\ ResetType[e] # "OneShot") \in BOOLEAN
    OBVIOUS
  <2> QED
    BY <2>1 DEF AcquireSignal, IInv, CallInv, ObjectTypes
<1>5. ObjectTypes'
  BY <1>4 DEF AcquireSignal, IInv, CallInv, ObjectTypes, waitVars
<1> QED
  BY <1>1, <1>2, <1>3, <1>5 DEF CallKeeps, CallInv

\* AcquireThread keeps the part of the invariant about calls.
LEMMA AcquireThreadKeeps ==
  ASSUME IInv, NEW t \in Threads, NEW u \in Threads, AcquireThread(t, u),
         UNCHANGED <<arbiterVars, process_status>>
  PROVE  CallKeeps
<1>1. LockTypes' /\ LocksOK' /\ IsTodo(todo')
  BY ReturnsQuietly DEF AcquireThread, Calling, IInv, objectVars
<1>2. CallStep
  BY QuietStep DEF AcquireThread, threadVars, coreVars
<1>3. ThreadTypes' /\ OtherTypes' /\ ObjectTypes'
  BY DEF AcquireThread, IInv, CallInv, ThreadTypes, OtherTypes, ObjectTypes, threadVars, coreVars,
         flagVars, arbiterVars, objectVars, waitVars, signalVars
<1> QED
  BY <1>1, <1>2, <1>3 DEF CallKeeps, CallInv

\* The lists of waiters.
LEMMA WaiterListTypes ==
  ASSUME ObjectTypes, NEW t \in Threads, NEW o \in Objects
  PROVE  /\ [waiting_threads EXCEPT ![o] = IF Contains(@, t) THEN @ ELSE Append(@, t)]
              \in [Objects -> Seq(Threads)]
         /\ [waiting_threads EXCEPT ![o] = Without(@, t)] \in [Objects -> Seq(Threads)]
<1>1. waiting_threads[o] \in Seq(Threads) /\ waiting_threads \in [Objects -> Seq(Threads)]
  BY DEF ObjectTypes
<1>2. Append(waiting_threads[o], t) \in Seq(Threads)
  BY <1>1, AppendFacts
<1>3. Without(waiting_threads[o], t) \in Seq(Threads)
  BY <1>1, WithoutFacts
<1> QED
  BY <1>1, <1>2, <1>3

\* AddWaitingThread and RemoveWaitingThread.
LEMMA WaiterKeeps ==
  ASSUME IInv, NEW t \in Threads, NEW o \in Objects,
         AddWaitingThread(t, o) \/ RemoveWaitingThread(t, o),
         UNCHANGED <<arbiterVars, process_status>>
  PROVE  CallKeeps
<1>1. /\ todo # <<>> /\ Head(todo)[1] # "ReleaseThreadMutexes" /\ Return(<<>>)
      /\ UNCHANGED lockVars
  BY DEF AddWaitingThread, RemoveWaitingThread, Calling
<1>2. LockTypes' /\ LocksOK' /\ IsTodo(todo')
  BY <1>1, ReturnsQuietly DEF IInv
<1>3. /\ UNCHANGED <<status, nominal_priority, wakeup_callback, coreVars, loopVars, flagVars, events,
                     signalVars, wait_objects>>
      /\ \/ waiting_threads' =
              [waiting_threads EXCEPT ![o] = IF Contains(@, t) THEN @ ELSE Append(@, t)]
         \/ waiting_threads' = [waiting_threads EXCEPT ![o] = Without(@, t)]
      /\ IF o \in Mutexes
         THEN /\ \/ pending_mutexes' = [pending_mutexes EXCEPT ![t] = @ \cup {o}]
                 \/ pending_mutexes' = [pending_mutexes EXCEPT ![t] = @ \ {o}]
              /\ UpdateMutexPriority(o, waiting_threads'[o])
         ELSE UNCHANGED <<pending_mutexes, mutex_priority, current_priority, ready_queue>>
  BY DEF AddWaitingThread, RemoveWaitingThread
<1>4. /\ mutex_priority' \in [Mutexes -> Priorities]
      /\ \/ UNCHANGED <<current_priority, ready_queue>>
         \/ \E u \in Threads, p \in Priorities : BoostPriority(u, p)
  <2>1. CASE o \in Mutexes
    <3>1. UpdateMutexPriority(o, waiting_threads'[o])
      BY <1>3, <2>1
    <3> QED
      BY <2>1, <3>1, MutexPriorityStep DEF IInv, CallInv, ObjectTypes
  <2>2. CASE o \notin Mutexes
    BY <1>3, <2>2 DEF IInv, CallInv, ObjectTypes
  <2> QED
    BY <2>1, <2>2
<1>5. CallStep
  BY <1>3, <1>4, BoostStep DEF coreVars
<1>6. ThreadTypes' /\ OtherTypes'
  BY <1>3 DEF IInv, CallInv, ThreadTypes, OtherTypes, coreVars, flagVars, arbiterVars
<1>7. waiting_threads' \in [Objects -> Seq(Threads)]
  <2>1. /\ [waiting_threads EXCEPT ![o] = IF Contains(@, t) THEN @ ELSE Append(@, t)]
             \in [Objects -> Seq(Threads)]
        /\ [waiting_threads EXCEPT ![o] = Without(@, t)] \in [Objects -> Seq(Threads)]
    BY WaiterListTypes DEF IInv, CallInv
  <2>2. \/ waiting_threads' =
             [waiting_threads EXCEPT ![o] = IF Contains(@, t) THEN @ ELSE Append(@, t)]
        \/ waiting_threads' = [waiting_threads EXCEPT ![o] = Without(@, t)]
    BY <1>3
  <2> QED
    BY <2>1, <2>2
<1>8. pending_mutexes' \in [Threads -> SUBSET Mutexes]
  <2>1. pending_mutexes \in [Threads -> SUBSET Mutexes]
    BY DEF IInv, CallInv, ObjectTypes
  <2>2. CASE o \in Mutexes
    <3>1. \/ pending_mutexes' = [pending_mutexes EXCEPT ![t] = @ \cup {o}]
          \/ pending_mutexes' = [pending_mutexes EXCEPT ![t] = @ \ {o}]
      BY <1>3, <2>2
    <3> QED
      BY <2>1, <2>2, <3>1
  <2>3. CASE o \notin Mutexes
    BY <1>3, <2>1, <2>3
  <2> QED
    BY <2>2, <2>3
<1>9. ObjectTypes'
  BY <1>3, <1>4, <1>7, <1>8 DEF IInv, CallInv, ObjectTypes, signalVars
<1> QED
  BY <1>2, <1>5, <1>6, <1>9 DEF CallKeeps, CallInv

\* The calls that end a wait.
LEMMA TodoEndWait ==
  ASSUME ObjectTypes, NEW t \in Threads, NEW cause
  PROVE  IsTodo(EndWait(t, cause))
<1>1. wait_objects[t] \in Seq(Objects)
  BY DEF ObjectTypes
<1>2. PICK a, b, c : /\ a = <<Call("WakeUp", t, cause)>>
                     /\ b = ForEach("RemoveWaitingThread", t, wait_objects[t])
                     /\ c = <<Call("ResumeFromWait", t, "clear")>>
  OBVIOUS
<1>3. "WakeUp" \in OpCalls /\ "RemoveWaitingThread" \in OpCalls /\ "ResumeFromWait" \in OpCalls
  BY DEF OpCalls
<1>4. IsTodo(a)
  BY <1>2, <1>3, TodoOne
<1>5. IsTodo(b)
  BY <1>1, <1>2, <1>3, TodoForEach
<1>6. IsTodo(c)
  BY <1>2, <1>3, TodoOne
<1>7. IsTodo(a \o b)
  BY <1>4, <1>5, TodoConcat
<1>8. IsTodo((a \o b) \o c)
  BY <1>6, <1>7, TodoConcat
<1> QED
  BY <1>2, <1>8 DEF EndWait

\* WakeupNext keeps the part of the invariant about calls.
LEMMA WakeupNextKeeps ==
  ASSUME IInv, NEW o \in Objects, WakeupNext(o), UNCHANGED <<arbiterVars, process_status>>
  PROVE  CallKeeps
<1>1. ObjectTypes /\ IsTodo(todo) /\ UNCHANGED lockVars
  BY ZenonT(40) DEF IInv, CallInv, WakeupNext, objectVars
<1>2. PICK i \in Candidate(o) :
        \E acquired : LET t == waiting_threads[o][i] IN
          /\ acquired = IF status[t] = "WaitSynchAll" THEN wait_objects[t] ELSE <<o>>
          /\ todo' = ForEach("Acquire", t, acquired) \o EndWait(t, o) \o todo
  BY ZenonT(40) DEF WakeupNext
<1>3. PICK t \in Threads : t = waiting_threads[o][i]
  <2>1. i \in DOMAIN waiting_threads[o] /\ waiting_threads[o] \in Seq(Threads)
    BY <1>1, <1>2 DEF Candidate, ObjectTypes
  <2> QED
    BY <2>1, ElementOfSeq, LenProperties
<1>a. PICK acquired :
        /\ acquired = IF status[t] = "WaitSynchAll" THEN wait_objects[t] ELSE <<o>>
        /\ todo' = ForEach("Acquire", t, acquired) \o EndWait(t, o) \o todo
  BY <1>2, <1>3
<1>4. acquired \in Seq(Objects)
  <2>1. wait_objects[t] \in Seq(Objects) /\ <<o>> \in Seq(Objects)
    BY <1>1 DEF ObjectTypes
  <2> QED
    BY <1>a, <2>1
<1>5. PICK a, b : a = ForEach("Acquire", t, acquired) /\ b = EndWait(t, o)
  OBVIOUS
<1>6. IsTodo(a)
  BY <1>4, <1>5, TodoForEach DEF OpCalls
<1>7. IsTodo(b)
  BY <1>1, <1>5, TodoEndWait
<1>8. IsTodo(a \o b)
  BY <1>6, <1>7, TodoConcat
<1>9. todo' = (a \o b) \o todo
  BY <1>a, <1>5
<1>10. StackKeeps
  BY <1>1, <1>8, <1>9, PushKeeps
<1>11. CallStep
  BY QuietStep DEF WakeupNext, threadVars, coreVars
<1>12. ThreadTypes' /\ OtherTypes' /\ ObjectTypes'
  BY DEF WakeupNext, IInv, CallInv, ThreadTypes, OtherTypes, ObjectTypes, threadVars, coreVars,
         flagVars, arbiterVars, objectVars, waitVars, signalVars
<1> QED
  BY <1>1, <1>10, <1>11, <1>12, LocksStay DEF IInv, CallKeeps, CallInv

\* WakeupDone keeps the part of the invariant about calls.
LEMMA WakeupDoneKeeps ==
  ASSUME IInv, NEW o \in Objects, WakeupDone(o), UNCHANGED <<arbiterVars, process_status>>
  PROVE  CallKeeps
<1>1. LockTypes' /\ LocksOK' /\ IsTodo(todo')
  BY ReturnsQuietly DEF WakeupDone, Calling, IInv
<1>2. CallStep
  BY QuietStep DEF WakeupDone, threadVars, coreVars
<1>3. ThreadTypes' /\ OtherTypes'
  BY DEF WakeupDone, IInv, CallInv, ThreadTypes, OtherTypes, threadVars, coreVars, flagVars,
         arbiterVars
<1>4. ObjectTypes'
  BY DEF WakeupDone, IInv, CallInv, ObjectTypes, waitVars
<1> QED
  BY <1>1, <1>2, <1>3, <1>4 DEF CallKeeps, CallInv

\* SyncWakeUp keeps the part of the invariant about calls.
LEMMA SyncWakeUpKeeps ==
  ASSUME IInv, NEW t \in Threads, SyncWakeUp(t), UNCHANGED <<arbiterVars, process_status>>
  PROVE  CallKeeps
<1>1. LockTypes' /\ LocksOK' /\ IsTodo(todo')
  BY ReturnsQuietly DEF SyncWakeUp, Calling, IInv, objectVars
<1>2. CallStep
  BY QuietStep DEF SyncWakeUp, threadVars, coreVars
<1>3. ThreadTypes' /\ OtherTypes' /\ ObjectTypes'
  BY DEF SyncWakeUp, IInv, CallInv, ThreadTypes, OtherTypes, ObjectTypes, threadVars, coreVars,
         flagVars, arbiterVars, objectVars, waitVars, signalVars
<1> QED
  BY <1>1, <1>2, <1>3 DEF CallKeeps, CallInv

\* ResumeFromWait keeps the part of the invariant about calls.
LEMMA ResumeFromWaitKeeps ==
  ASSUME IInv, NEW t \in Threads, ResumeFromWait(t), UNCHANGED <<arbiterVars, process_status>>
  PROVE  CallKeeps
<1>1. LockTypes' /\ LocksOK' /\ IsTodo(todo')
  BY ReturnsQuietly DEF ResumeFromWait, Calling, IInv
<1>2. UNCHANGED flagVars \/ PrepareReschedule
  BY DEF ResumeFromWait
<1>3. CallStep
  <2>1. CASE status[t] \in Waits
    <3>1. BecomesReady
      BY <2>1 DEF ResumeFromWait, BecomesReady, coreVars
    <3>2. LoopStays
      BY <1>2 DEF ResumeFromWait, LoopStays, flagVars, PrepareReschedule
    <3> QED
      BY <3>1, <3>2 DEF CallStep
  <2>2. CASE status[t] \notin Waits
    BY <1>2, <2>2, QuietStep DEF ResumeFromWait, coreVars
  <2> QED
    BY <2>1, <2>2
<1>4. ThreadTypes' /\ OtherTypes'
  BY <1>2, FlagTypes DEF ResumeFromWait, IInv, CallInv, ThreadTypes, OtherTypes, coreVars, Callbacks,
     arbiterVars
<1>5. wait_objects' \in [Threads -> Seq(Objects)]
  <2>1. <<>> \in Seq(Objects)
    BY EmptySeq
  <2> QED
    BY <2>1 DEF ResumeFromWait, IInv, CallInv, ObjectTypes
<1>6. ObjectTypes'
  BY <1>5 DEF ResumeFromWait, IInv, CallInv, ObjectTypes, signalVars
<1> QED
  BY <1>1, <1>3, <1>4, <1>6 DEF CallKeeps, CallInv

-----------------------------------------------------------------------------
\* The address arbiter.

\* The places that stable_partition goes through, and the threads at them.
LEMMA PlacesType ==
  ASSUME arbiter_threads \in Seq(Threads), NEW I \in SUBSET DOMAIN arbiter_threads,
         NEW f \in InOrder(I)
  PROVE  f \in Seq(DOMAIN arbiter_threads)
<1>1. DOMAIN arbiter_threads = 1..Len(arbiter_threads) /\ Len(arbiter_threads) \in Int
  BY LenProperties
<1>2. IsFiniteSet(DOMAIN arbiter_threads)
  BY <1>1, FS_Interval
<1>3. Cardinality(I) \in Nat
  <2>1. IsFiniteSet(I)
    BY <1>2, FS_Subset
  <2> QED
    BY <2>1, FS_CardinalityType
<1>4. f \in [1..Cardinality(I) -> DOMAIN arbiter_threads]
  BY DEF InOrder
<1> QED
  BY <1>3, <1>4

\* The threads at places of the list are threads.
LEMMA ThreadsAtType ==
  ASSUME arbiter_threads \in Seq(Threads), NEW f \in Seq(DOMAIN arbiter_threads)
  PROVE  ThreadsAt(f) \in Seq(Threads)
<1>1. DOMAIN arbiter_threads = 1..Len(arbiter_threads)
  BY LenProperties
<1>2. /\ DOMAIN f = 1..Len(f) /\ Len(f) \in Nat
      /\ \A i \in 1..Len(f) : f[i] \in DOMAIN arbiter_threads
  BY LenProperties, ElementOfSeq
<1>3. \A i \in 1..Len(f) : arbiter_threads[f[i]] \in Threads
  BY <1>1, <1>2, ElementOfSeq
<1>4. [i \in 1..Len(f) |-> arbiter_threads[f[i]]] \in [1..Len(f) -> Threads]
  BY <1>3
<1> QED
  BY <1>2, <1>4 DEF ThreadsAt

\* ResumeAllThreads keeps the part of the invariant about calls.
LEMMA ResumeAllThreadsKeeps ==
  ASSUME IInv, NEW a, ResumeAllThreads(a), UNCHANGED process_status
  PROVE  CallKeeps
<1>1. /\ todo # <<>> /\ Head(todo)[1] # "ReleaseThreadMutexes" /\ IsTodo(todo) /\ UNCHANGED lockVars
      /\ arbiter_threads \in Seq(Threads)
  BY DEF IInv, CallInv, OtherTypes, ResumeAllThreads, Calling, objectVars
<1>2. PICK found \in InOrder(Matches(a)), rest \in InOrder(Others(a)) :
        /\ arbiter_threads' = ThreadsAt(rest)
        /\ Return([i \in DOMAIN found |->
                     Call("ResumeFromWait", arbiter_threads[found[i]], "keep")])
  BY DEF ResumeAllThreads
<1>3. found \in Seq(DOMAIN arbiter_threads) /\ rest \in Seq(DOMAIN arbiter_threads)
  <2>1. Matches(a) \in SUBSET DOMAIN arbiter_threads /\ Others(a) \in SUBSET DOMAIN arbiter_threads
    BY DEF Matches, Others
  <2> QED
    BY <1>1, <2>1, PlacesType
<1>4. PICK calls :
        calls = [i \in DOMAIN found |-> Call("ResumeFromWait", arbiter_threads[found[i]], "keep")]
  OBVIOUS
<1>5. IsTodo(calls)
  <2>1. DOMAIN found = 1..Len(found) /\ Len(found) \in Nat
    BY <1>3, LenProperties
  <2>2. calls = [i \in 1..Len(found) |-> calls[i]]
    BY <1>4, <2>1
  <2>3. \A i \in 1..Len(found) : calls[i][1] \in OpCalls
    BY <1>4, <2>1 DEF Call, OpCalls
  <2> QED
    BY <2>1, <2>2, <2>3, TodoFunction
<1>6. StackKeeps
  BY <1>1, <1>2, <1>4, <1>5, ReturnKeeps
<1>7. CallStep
  BY QuietStep DEF ResumeAllThreads, threadVars, coreVars
<1>8. OtherTypes'
  BY <1>1, <1>2, <1>3, ThreadsAtType DEF IInv, CallInv, OtherTypes, ResumeAllThreads
<1>9. ThreadTypes' /\ ObjectTypes'
  BY DEF ResumeAllThreads, IInv, CallInv, ThreadTypes, ObjectTypes, threadVars, coreVars, flagVars,
         objectVars, waitVars, signalVars
<1> QED
  BY <1>1, <1>6, <1>7, <1>8, <1>9, LocksStay DEF IInv, CallKeeps, CallInv

\* ResumeHighest keeps the part of the invariant about calls.
LEMMA ResumeHighestKeeps ==
  ASSUME IInv, NEW a, ResumeHighestPriorityThread(a), UNCHANGED process_status
  PROVE  CallKeeps
<1>1. /\ todo # <<>> /\ Head(todo)[1] # "ReleaseThreadMutexes" /\ IsTodo(todo) /\ UNCHANGED lockVars
      /\ arbiter_threads \in Seq(Threads)
  BY DEF IInv, CallInv, OtherTypes, ResumeHighestPriorityThread, Calling, objectVars
<1>2. PICK found \in InOrder(Matches(a)), rest \in InOrder(Others(a)) :
        \/ \E i \in DOMAIN found :
             /\ arbiter_threads' = ThreadsAt(rest) \o ThreadsAt(Without(found, found[i]))
             /\ Return(<<Call("ResumeFromWait", arbiter_threads[found[i]], "keep")>>)
        \/ found = <<>> /\ UNCHANGED arbiter_threads /\ Return(<<>>)
  BY ZenonT(40) DEF ResumeHighestPriorityThread
<1>3. found \in Seq(DOMAIN arbiter_threads) /\ rest \in Seq(DOMAIN arbiter_threads)
  <2>1. Matches(a) \in SUBSET DOMAIN arbiter_threads /\ Others(a) \in SUBSET DOMAIN arbiter_threads
    BY DEF Matches, Others
  <2> QED
    BY <1>1, <2>1, PlacesType
<1>4. StackKeeps /\ arbiter_threads' \in Seq(Threads)
  <2>1. CASE found = <<>> /\ UNCHANGED arbiter_threads /\ Return(<<>>)
    BY <1>1, <2>1, TodoNone, ReturnKeeps
  <2>2. ASSUME NEW i \in DOMAIN found,
               arbiter_threads' = ThreadsAt(rest) \o ThreadsAt(Without(found, found[i])),
               Return(<<Call("ResumeFromWait", arbiter_threads[found[i]], "keep")>>)
        PROVE  StackKeeps /\ arbiter_threads' \in Seq(Threads)
    <3>1. Without(found, found[i]) \in Seq(DOMAIN arbiter_threads)
      BY <1>3, WithoutFacts
    <3>2. ThreadsAt(rest) \in Seq(Threads) /\ ThreadsAt(Without(found, found[i])) \in Seq(Threads)
      BY <1>1, <1>3, <3>1, ThreadsAtType
    <3>3. arbiter_threads' \in Seq(Threads)
      BY <2>2, <3>2, ConcatProperties
    <3>4. IsTodo(<<Call("ResumeFromWait", arbiter_threads[found[i]], "keep")>>)
      BY TodoOne DEF OpCalls
    <3> QED
      BY <1>1, <2>2, <3>3, <3>4, ReturnKeeps
  <2> QED
    BY <1>2, <2>1, <2>2
<1>5. CallStep
  BY QuietStep DEF ResumeHighestPriorityThread, threadVars, coreVars
<1>6. OtherTypes' /\ ThreadTypes' /\ ObjectTypes'
  BY <1>4 DEF ResumeHighestPriorityThread, IInv, CallInv, OtherTypes, ThreadTypes, ObjectTypes,
     threadVars, coreVars, flagVars, objectVars, waitVars, signalVars
<1> QED
  BY <1>1, <1>4, <1>5, <1>6, LocksStay DEF IInv, CallKeeps, CallInv

\* ArbiterWakeUp keeps the part of the invariant about calls.
LEMMA ArbiterWakeUpKeeps ==
  ASSUME IInv, NEW t \in Threads, ArbiterWakeUp(t), UNCHANGED process_status
  PROVE  CallKeeps
<1>1. LockTypes' /\ LocksOK' /\ IsTodo(todo')
  BY ReturnsQuietly DEF ArbiterWakeUp, Calling, IInv, objectVars
<1>2. CallStep
  BY QuietStep DEF ArbiterWakeUp, threadVars, coreVars
<1>3. ThreadTypes' /\ ObjectTypes'
  BY DEF ArbiterWakeUp, IInv, CallInv, ThreadTypes, ObjectTypes, threadVars, coreVars,
         flagVars, objectVars, waitVars, signalVars
<1>4. OtherTypes'
  BY WithoutFacts DEF ArbiterWakeUp, IInv, CallInv, OtherTypes
<1> QED
  BY <1>1, <1>2, <1>3, <1>4 DEF CallKeeps, CallInv

-----------------------------------------------------------------------------
\* The other calls of a call in progress.

\* Stop keeps the part of the invariant about calls.
LEMMA StopKeeps ==
  ASSUME IInv, NEW t \in Threads, Stop(t)
  PROVE  CallKeeps
<1>1. /\ todo # <<>> /\ Head(todo)[1] # "ReleaseThreadMutexes" /\ IsTodo(todo) /\ UNCHANGED lockVars
      /\ wait_objects[t] \in Seq(Objects)
  BY DEF IInv, CallInv, ObjectTypes, Stop, Calling
<1>2. PICK a, b, c : /\ a = <<Call("WakeupAllWaitingThreads", t, "Stop")>>
                     /\ b = ForEach("RemoveWaitingThread", t, wait_objects[t])
                     /\ c = <<Call("ReleaseThreadMutexes", t, "Stop")>>
  OBVIOUS
<1>3. /\ "WakeupAllWaitingThreads" \in OpCalls /\ "RemoveWaitingThread" \in OpCalls
      /\ "ReleaseThreadMutexes" \in OpCalls
  BY DEF OpCalls
<1>4. IsTodo(a)
  BY <1>2, <1>3, TodoOne
<1>5. IsTodo(b)
  BY <1>1, <1>2, <1>3, TodoForEach
<1>6. IsTodo(c)
  BY <1>2, <1>3, TodoOne
<1>7. IsTodo(a \o b)
  BY <1>4, <1>5, TodoConcat
<1>8. IsTodo((a \o b) \o c)
  BY <1>6, <1>7, TodoConcat
<1>9. Return((a \o b) \o c)
  BY <1>2 DEF Stop
<1>10. StackKeeps
  BY <1>1, <1>8, <1>9, ReturnKeeps
<1>11. CallStep
  <2>1. Dies
    BY DEF Stop, Dies
  <2>2. LoopStays
    BY DEF Stop, LoopStays, flagVars
  <2> QED
    BY <2>1, <2>2 DEF CallStep
<1>12. ThreadTypes'
  BY EventTypes DEF Stop, IInv, CallInv, ThreadTypes, flagVars, Sources
<1>13. ObjectTypes'
  <2>1. <<>> \in Seq(Objects)
    BY EmptySeq
  <2> QED
    BY <2>1 DEF Stop, IInv, CallInv, ObjectTypes, signalVars
<1>14. OtherTypes'
  BY DEF Stop, IInv, CallInv, OtherTypes, arbiterVars
<1> QED
  BY <1>1, <1>10, <1>11, <1>12, <1>13, <1>14, LocksStay DEF IInv, CallKeeps, CallInv

\* ReleaseThreadMutexes keeps the part of the invariant about calls.
LEMMA ReleaseThreadMutexesKeeps ==
  ASSUME IInv, NEW t \in Threads, NEW m \in Mutexes, ReleaseThreadMutexes(t, m)
  PROVE  CallKeeps
<1>1. /\ IsTodo(todo) /\ LockTypes /\ holding_thread[m] = t /\ t # NoThread
      /\ lock_count' = [lock_count EXCEPT ![m] = 0]
      /\ holding_thread' = [holding_thread EXCEPT ![m] = NoThread]
      /\ held_mutexes' = held_mutexes
  BY ThreadsAssumption DEF ReleaseThreadMutexes, IInv, CallInv
<1>2. ReleasesIn(todo, t)
  <2>1. PICK S : todo \in Seq(S)
    BY DEF IInv, CallInv, IsTodo
  <2>2. Len(todo) \in Nat \ {0} /\ DOMAIN todo = 1..Len(todo) /\ Head(todo) = todo[1]
    BY <2>1, LenProperties, EmptySeq, HeadTailProperties DEF ReleaseThreadMutexes, Calling
  <2> QED
    BY <2>2 DEF ReleaseThreadMutexes, Calling, ReleasesIn
<1>3. StackKeeps
  <2>1. IsTodo(<<Call("WakeupAllWaitingThreads", m, "Stop")>>)
    BY TodoOne DEF OpCalls
  <2> QED
    BY <1>1, <2>1, PushKeeps DEF ReleaseThreadMutexes
<1>4. LockTypes'
  BY <1>1 DEF LockTypes
<1>5. /\ \A n \in Mutexes : lock_count'[n] > 0 <=> holding_thread'[n] # NoThread
      /\ \A n \in Mutexes, u \in Threads : holding_thread'[n] = u => n \in held_mutexes'[u]
  BY <1>1, ThreadsAssumption DEF IInv, CallInv, LockTypes, LocksOK
<1>6. \A u \in Threads : \A n \in held_mutexes'[u] : holding_thread'[n] = u \/ ReleasesIn(todo', u)
  <2> SUFFICES ASSUME NEW u \in Threads, NEW n \in held_mutexes[u], ~ReleasesIn(todo', u)
               PROVE  holding_thread'[n] = u
    BY <1>1
  <2>1. ~ReleasesIn(todo, u) /\ u # t
    BY <1>2, <1>3 DEF StackKeeps
  <2>2. holding_thread[n] = u
    BY <2>1 DEF IInv, CallInv, LocksOK
  <2> QED
    BY <1>1, <2>1, <2>2 DEF LockTypes
<1>7. LocksOK'
  BY <1>5, <1>6 DEF LocksOK, ReleasesIn
<1>8. CallStep
  BY QuietStep DEF ReleaseThreadMutexes, threadVars, coreVars
<1>9. ThreadTypes' /\ ObjectTypes' /\ OtherTypes'
  BY DEF ReleaseThreadMutexes, IInv, CallInv, ThreadTypes, ObjectTypes, OtherTypes, threadVars,
         coreVars, flagVars, waitVars, signalVars, arbiterVars
<1> QED
  BY <1>3, <1>4, <1>7, <1>8, <1>9 DEF CallKeeps, CallInv, StackKeeps, IsTodo

\* MutexesReleased keeps the part of the invariant about calls.
LEMMA MutexesReleasedKeeps ==
  ASSUME IInv, NEW t \in Threads, MutexesReleased(t)
  PROVE  CallKeeps
<1>1. /\ IsTodo(todo) /\ LockTypes /\ todo # <<>> /\ Head(todo)[2] = t
      /\ lock_count' = lock_count /\ holding_thread' = holding_thread
      /\ held_mutexes' = [held_mutexes EXCEPT ![t] = {}]
      /\ \A m \in held_mutexes[t] : holding_thread[m] # t
  BY DEF MutexesReleased, Calling, IInv, CallInv
<1>2. PICK rest : rest = Tail(todo)
  OBVIOUS
<1>3. IsTodo(rest) /\ \A u : u # t /\ ReleasesIn(todo, u) => ReleasesIn(rest, u)
  BY <1>1, <1>2, TodoTail
<1>4. /\ IsTodo(<<>> \o rest)
      /\ \A u : ReleasesIn(rest, u) => ReleasesIn(<<>> \o rest, u)
  BY <1>3, TodoNone, TodoConcat
<1>5. todo' = <<>> \o rest
  BY <1>2 DEF MutexesReleased, Return
<1>6. LockTypes'
  BY <1>1 DEF LockTypes
<1>7. \A n \in Mutexes, u \in Threads : holding_thread'[n] = u => n \in held_mutexes'[u]
  BY <1>1 DEF IInv, CallInv, LockTypes, LocksOK
<1>8. \A u \in Threads : \A n \in held_mutexes'[u] : holding_thread'[n] = u \/ ReleasesIn(todo', u)
  <2> SUFFICES ASSUME NEW u \in Threads, NEW n \in held_mutexes'[u]
               PROVE  holding_thread[n] = u \/ ReleasesIn(todo', u)
    BY <1>1
  <2>1. u # t /\ n \in held_mutexes[u]
    BY <1>1 DEF LockTypes
  <2>2. holding_thread[n] = u \/ ReleasesIn(todo, u)
    BY <2>1 DEF IInv, CallInv, LocksOK
  <2> QED
    BY <1>3, <1>4, <1>5, <2>1, <2>2
<1>9. LocksOK'
  BY <1>1, <1>7, <1>8 DEF IInv, CallInv, LocksOK, ReleasesIn
<1>10. CallStep
  BY QuietStep DEF MutexesReleased, threadVars, coreVars
<1>11. ThreadTypes' /\ ObjectTypes' /\ OtherTypes'
  BY DEF MutexesReleased, IInv, CallInv, ThreadTypes, ObjectTypes, OtherTypes, threadVars,
         coreVars, flagVars, waitVars, signalVars, arbiterVars
<1>12. IsTodo(todo)'
  BY <1>4, <1>5 DEF IsTodo
<1> QED
  BY <1>6, <1>9, <1>10, <1>11, <1>12 DEF CallKeeps, CallInv

\* UpdatePending keeps the part of the invariant about calls.
LEMMA UpdatePendingKeeps ==
  ASSUME IInv, NEW u \in Threads, NEW m \in Mutexes, UpdatePending(u, m)
  PROVE  CallKeeps
<1>1. /\ todo # <<>> /\ Head(todo)[1] # "ReleaseThreadMutexes" /\ IsTodo(todo) /\ UNCHANGED lockVars
      /\ UpdateMutexPriority(m, waiting_threads[m])
  BY DEF IInv, CallInv, UpdatePending, Calling
<1>2. StackKeeps
  <2>1. PICK calls : calls = <<Call("UpdatePending", u, Head(todo)[3] \ {m})>>
    OBVIOUS
  <2>2. IsTodo(calls)
    BY <2>1, TodoOne DEF OpCalls
  <2>3. Return(calls)
    BY <2>1 DEF UpdatePending
  <2> QED
    BY <1>1, <2>2, <2>3, ReturnKeeps
<1>3. /\ mutex_priority' \in [Mutexes -> Priorities]
      /\ \/ UNCHANGED <<current_priority, ready_queue>>
         \/ \E t \in Threads, p \in Priorities : BoostPriority(t, p)
  BY <1>1, MutexPriorityStep DEF IInv, CallInv, ObjectTypes
<1>4. CallStep
  BY <1>3, BoostStep DEF UpdatePending, coreVars
<1>5. ThreadTypes' /\ ObjectTypes' /\ OtherTypes'
  BY <1>3 DEF UpdatePending, IInv, CallInv, ThreadTypes, ObjectTypes, OtherTypes,
     coreVars, flagVars, waitVars, signalVars, arbiterVars
<1> QED
  BY <1>1, <1>2, <1>4, <1>5, LocksStay DEF IInv, CallKeeps, CallInv

\* UpdatedPending keeps the part of the invariant about calls.
LEMMA UpdatedPendingKeeps ==
  ASSUME IInv, NEW u \in Threads, UpdatedPending(u)
  PROVE  CallKeeps
<1>1. LockTypes' /\ LocksOK' /\ IsTodo(todo')
  BY ReturnsQuietly DEF UpdatedPending, Calling, IInv, objectVars
<1>2. CallStep
  BY QuietStep DEF UpdatedPending, threadVars, coreVars
<1>3. ThreadTypes' /\ OtherTypes' /\ ObjectTypes'
  BY DEF UpdatedPending, IInv, CallInv, ThreadTypes, OtherTypes, ObjectTypes, threadVars, coreVars,
         flagVars, arbiterVars, objectVars, waitVars, signalVars
<1> QED
  BY <1>1, <1>2, <1>3 DEF CallKeeps, CallInv

\* Rearm keeps the part of the invariant about calls.
LEMMA RearmKeeps ==
  ASSUME IInv, NEW x \in Timers, Rearm(x)
  PROVE  CallKeeps
<1>1. LockTypes' /\ LocksOK' /\ IsTodo(todo')
  BY ReturnsQuietly DEF Rearm, Calling, IInv, objectVars
<1>2. CallStep
  BY QuietStep DEF Rearm, threadVars, coreVars
<1>3. ThreadTypes'
  BY EventTypes DEF Rearm, IInv, CallInv, ThreadTypes, threadVars, coreVars, flagVars, Sources
<1>4. OtherTypes' /\ ObjectTypes'
  BY DEF Rearm, IInv, CallInv, OtherTypes, ObjectTypes, arbiterVars, objectVars, waitVars, signalVars
<1> QED
  BY <1>1, <1>2, <1>3, <1>4 DEF CallKeeps, CallInv

\* A thread leaves the list of its core.
LEMMA ThreadListTypes ==
  ASSUME thread_list \in [Cores -> Seq(Threads)], NEW c \in Cores, NEW t
  PROVE  /\ [thread_list EXCEPT ![c] = Without(@, t)] \in [Cores -> Seq(Threads)]
         /\ t \in Threads => [thread_list EXCEPT ![c] = Append(@, t)] \in [Cores -> Seq(Threads)]
<1>1. thread_list[c] \in Seq(Threads)
  OBVIOUS
<1>2. Without(thread_list[c], t) \in Seq(Threads)
  BY <1>1, WithoutFacts
<1>3. t \in Threads => Append(thread_list[c], t) \in Seq(Threads)
  BY <1>1, AppendFacts
<1> QED
  BY <1>2, <1>3

\* TerminateNext keeps the part of the invariant about calls.
LEMMA TerminateNextKeeps ==
  ASSUME IInv, NEW p \in Processes, NEW c \in Cores, TerminateNext(p, c)
  PROVE  CallKeeps
<1>1. IsTodo(todo) /\ UNCHANGED lockVars /\ thread_list \in [Cores -> Seq(Threads)]
  BY DEF IInv, CallInv, ThreadTypes, TerminateNext, objectVars
<1>2. PICK i : /\ thread_list' = [thread_list EXCEPT ![c] = Without(@, thread_list[c][i])]
               /\ todo' = <<Call("Stop", thread_list[c][i], "Stop")>> \o todo
  BY DEF TerminateNext
<1>3. IsTodo(<<Call("Stop", thread_list[c][i], "Stop")>>)
  BY TodoOne DEF OpCalls
<1>4. StackKeeps
  BY <1>1, <1>2, <1>3, PushKeeps
<1>5. CallStep
  BY QuietStep DEF TerminateNext, threadVars
<1>6. thread_list' \in [Cores -> Seq(Threads)]
  BY <1>1, <1>2, ThreadListTypes
<1>7. ThreadTypes' /\ OtherTypes' /\ ObjectTypes'
  BY <1>6 DEF TerminateNext, IInv, CallInv, ThreadTypes, OtherTypes, ObjectTypes, threadVars,
     flagVars, arbiterVars, objectVars, waitVars, signalVars
<1> QED
  BY <1>1, <1>4, <1>5, <1>7, LocksStay DEF IInv, CallKeeps, CallInv

\* TerminateCurrent keeps the part of the invariant about calls.
LEMMA TerminateCurrentKeeps ==
  ASSUME IInv, NEW p \in Processes, NEW c \in Cores, TerminateCurrent(p, c)
  PROVE  CallKeeps
<1>1. /\ todo # <<>> /\ Head(todo)[1] # "ReleaseThreadMutexes" /\ IsTodo(todo) /\ UNCHANGED lockVars
      /\ thread_list \in [Cores -> Seq(Threads)]
  BY DEF IInv, CallInv, ThreadTypes, TerminateCurrent, Calling, objectVars
<1>2. \/ /\ thread_list' = [thread_list EXCEPT ![c] = Without(@, current_thread[c])]
         /\ PrepareReschedule /\ Return(<<Call("Stop", current_thread[c], "Stop")>>)
      \/ UNCHANGED <<thread_list, flagVars>> /\ Return(<<>>)
  BY DEF TerminateCurrent
<1>3. IsTodo(<<Call("Stop", current_thread[c], "Stop")>>)
  BY TodoOne DEF OpCalls
<1>4. StackKeeps
  BY <1>1, <1>2, <1>3, TodoNone, ReturnKeeps
<1>5. UNCHANGED flagVars \/ PrepareReschedule
  BY <1>2
<1>6. CallStep
  BY <1>5, QuietStep DEF TerminateCurrent, threadVars
<1>7. thread_list' \in [Cores -> Seq(Threads)]
  <2>1. [thread_list EXCEPT ![c] = Without(@, current_thread[c])] \in [Cores -> Seq(Threads)]
    BY <1>1, ThreadListTypes
  <2>2. \/ thread_list' = [thread_list EXCEPT ![c] = Without(@, current_thread[c])]
        \/ thread_list' = thread_list
    BY <1>2
  <2> QED
    BY <1>1, <2>1, <2>2
<1>8. ThreadTypes' /\ OtherTypes' /\ ObjectTypes'
  BY <1>5, <1>7, FlagTypes DEF TerminateCurrent, IInv, CallInv, ThreadTypes, OtherTypes, ObjectTypes,
     threadVars, arbiterVars, objectVars, waitVars, signalVars
<1> QED
  BY <1>1, <1>4, <1>6, <1>8, LocksStay DEF IInv, CallKeeps, CallInv

-----------------------------------------------------------------------------
\* The supervisor calls and the callbacks: they begin with an empty stack.

\* The mutexes are left alone.
LEMMA StartsQuietly ==
  ASSUME CallInv, todo = <<>>, IsTodo(todo'), UNCHANGED lockVars
  PROVE  LockTypes' /\ LocksOK' /\ IsTodo(todo')
BY StartKeeps, LocksStay DEF CallInv

\* Nothing but the flags and the stack changes.
OnlyCalls ==
  /\ UNCHANGED <<threadVars, coreVars, loopVars, events, objectVars, arbiterVars>>
  /\ UNCHANGED flagVars \/ PrepareReschedule
  /\ process_status' \in [Processes -> {"Created", "Running", "Exited"}]

\* Steps that only leave calls to make.
LEMMA OnlyCallsKeeps ==
  ASSUME IInv, todo = <<>>, IsTodo(todo'), OnlyCalls
  PROVE  CallKeeps
<1>1. LockTypes' /\ LocksOK' /\ IsTodo(todo')
  BY StartsQuietly DEF IInv, OnlyCalls, objectVars
<1>2. CallStep
  BY QuietStep DEF OnlyCalls, threadVars, coreVars
<1>3. ThreadTypes' /\ ObjectTypes' /\ OtherTypes'
  BY FlagTypes DEF OnlyCalls, IInv, CallInv, ThreadTypes, ObjectTypes, OtherTypes, threadVars,
     coreVars, objectVars, waitVars, signalVars, arbiterVars
<1> QED
  BY <1>1, <1>2, <1>3 DEF CallKeeps, CallInv

\* A thread is created.
LEMMA CreateThreadKeeps ==
  ASSUME IInv, todo = <<>>, NEW t \in Threads, CreateThread(t),
         UNCHANGED flagVars \/ PrepareReschedule,
         UNCHANGED <<objectVars, arbiterVars>>,
         process_status' \in [Processes -> {"Created", "Running", "Exited"}]
  PROVE  CallKeeps
<1>1. LockTypes' /\ LocksOK' /\ IsTodo(todo')
  BY StartsQuietly, TodoNone DEF IInv, CreateThread, objectVars
<1>2. CallStep
  <2>1. BecomesReady
    BY DEF CreateThread, BecomesReady
  <2>2. LoopStays
    BY DEF CreateThread, LoopStays, flagVars, PrepareReschedule
  <2> QED
    BY <2>1, <2>2 DEF CallStep
<1>3. thread_list' \in [Cores -> Seq(Threads)]
  BY ThreadListTypes, CoresAssumption DEF CreateThread, IInv, CallInv, ThreadTypes
<1>4. ThreadTypes' /\ ObjectTypes' /\ OtherTypes'
  BY <1>3, FlagTypes DEF CreateThread, IInv, CallInv, ThreadTypes, ObjectTypes, OtherTypes,
     objectVars, waitVars, signalVars, arbiterVars
<1> QED
  BY <1>1, <1>2, <1>4 DEF CallKeeps, CallInv

\* Run keeps the part of the invariant about calls.
LEMMA RunKeeps ==
  ASSUME IInv, NEW p \in Processes, Run(p)
  PROVE  CallKeeps
<1>1. MainThread[p] \in Threads
  BY KernelAssumption
<1>2. process_status' \in [Processes -> {"Created", "Running", "Exited"}]
  BY DEF Run, IInv, CallInv, OtherTypes
<1> QED
  BY <1>1, <1>2, CreateThreadKeeps DEF Run, AtRest

\* SvcCreateThread keeps the part of the invariant about calls.
LEMMA SvcCreateThreadKeeps ==
  ASSUME IInv, NEW t \in Threads, NEW u \in Threads, SvcCreateThread(t, u)
  PROVE  CallKeeps
<1>1. todo = <<>> /\ process_status' \in [Processes -> {"Created", "Running", "Exited"}]
  BY DEF SvcCreateThread, Executes, Executing, AtRest, IInv, CallInv, OtherTypes
<1> QED
  BY <1>1, CreateThreadKeeps DEF SvcCreateThread

\* ExitThread keeps the part of the invariant about calls.
LEMMA ExitThreadKeeps ==
  ASSUME IInv, NEW t \in Threads, ExitThread(t)
  PROVE  CallKeeps
<1>1. todo = <<>> /\ UNCHANGED lockVars
  BY DEF ExitThread, Executes, Executing, AtRest, objectVars
<1>2. IsTodo(todo')
  BY TodoOne DEF ExitThread, OpCalls
<1>3. LockTypes' /\ LocksOK' /\ IsTodo(todo')
  BY <1>1, <1>2, StartsQuietly DEF IInv
<1>4. CallStep
  BY QuietStep DEF ExitThread, threadVars
<1>5. thread_list' \in [Cores -> Seq(Threads)]
  BY ThreadListTypes, CoresAssumption DEF ExitThread, IInv, CallInv, ThreadTypes
<1>6. ThreadTypes' /\ ObjectTypes' /\ OtherTypes'
  BY <1>5, FlagTypes DEF ExitThread, IInv, CallInv, ThreadTypes, ObjectTypes, OtherTypes,
     threadVars, objectVars, waitVars, signalVars, arbiterVars
<1> QED
  BY <1>3, <1>4, <1>6 DEF CallKeeps, CallInv

\* TerminateProcess keeps the part of the invariant about calls.
LEMMA TerminateProcessKeeps ==
  ASSUME IInv, NEW t \in Threads, NEW p \in Processes, TerminateProcess(t, p)
  PROVE  CallKeeps
<1>1. todo = <<>>
  BY DEF TerminateProcess, Executes, Executing, AtRest
<1>2. IsTodo(todo')
  <2>1. PICK calls :
          calls = [i \in 1..NumCores |-> Call("TerminateProcessThreads", p, i - 1)]
    OBVIOUS
  <2>2. NumCores \in Nat
    BY CoresAssumption
  <2>3. calls = [i \in 1..NumCores |-> calls[i]] /\ \A i \in 1..NumCores : calls[i][1] \in OpCalls
    BY <2>1 DEF Call, OpCalls
  <2>4. IsTodo(calls)
    BY <2>2, <2>3, TodoFunction
  <2> QED
    BY <2>1, <2>4 DEF TerminateProcess
<1>3. process_status' \in [Processes -> {"Created", "Running", "Exited"}]
  BY DEF TerminateProcess, IInv, CallInv, OtherTypes
<1> QED
  BY <1>1, <1>2, <1>3, OnlyCallsKeeps DEF TerminateProcess, OnlyCalls

\* A thread goes to sleep on its objects.
LEMMA SleepKeeps ==
  ASSUME IInv, NEW t \in Threads, Executes(t), NEW objects \in Seq(Objects), NEW w \in Waits,
         NEW delay, Sleep(t, objects, w, delay)
  PROVE  CallKeeps
<1>1. todo = <<>>
  BY DEF Executes, Executing, AtRest
<1>2. IsTodo(todo')
  BY TodoForEach DEF Sleep, OpCalls
<1>3. LockTypes' /\ LocksOK' /\ IsTodo(todo')
  BY <1>1, <1>2, StartsQuietly DEF IInv, Sleep
<1>4. CallStep
  <2>1. FallsAsleep
    BY DEF Sleep, FallsAsleep, coreVars
  <2>2. LoopStays
    BY DEF Sleep, LoopStays, PrepareReschedule
  <2> QED
    BY <2>1, <2>2 DEF CallStep
<1>5. events' \in [Cores -> [Sources -> Nat]]
  BY EventTypes DEF Sleep, IInv, CallInv, ThreadTypes, Sources
<1>6. ThreadTypes' /\ OtherTypes'
  BY <1>5, FlagTypes DEF Sleep, IInv, CallInv, ThreadTypes, OtherTypes, coreVars, Callbacks,
     arbiterVars
<1>7. ObjectTypes'
  BY DEF Sleep, IInv, CallInv, ObjectTypes, signalVars
<1> QED
  BY <1>3, <1>4, <1>6, <1>7 DEF CallKeeps, CallInv

\* A thread takes objects that are available.
LEMMA TakeKeeps ==
  ASSUME IInv, NEW t \in Threads, Executes(t), NEW objects \in Seq(Objects), Take(t, objects)
  PROVE  CallKeeps
<1>1. todo = <<>>
  BY DEF Executes, Executing, AtRest
<1>2. IsTodo(todo')
  BY TodoForEach DEF Take, OpCalls
<1> QED
  BY <1>1, <1>2, OnlyCallsKeeps DEF Take, OnlyCalls, IInv, CallInv, OtherTypes

\* WaitSvc keeps the part of the invariant about calls.
LEMMA WaitSvcKeeps ==
  ASSUME IInv, NEW t \in Threads, WaitSvc(t)
  PROVE  CallKeeps
<1>1. "WaitSynchAny" \in Waits /\ "WaitSynchAll" \in Waits /\ "WaitSleep" \in Waits
  BY DEF Waits
<1>2. ASSUME NEW objects \in program.handles[t], NEW delay \in program.delays,
             \/ Len(objects) = 1 /\ WaitSynchronization1(t, objects[1], delay)
             \/ WaitSynchronizationAny(t, objects, delay)
             \/ WaitSynchronizationAll(t, objects, delay)
      PROVE  CallKeeps
  <2>1. objects \in Seq(Objects)
    BY KernelAssumption DEF IInv
  <2>2. \A i \in DOMAIN objects : objects[i] \in Objects /\ <<objects[i]>> \in Seq(Objects)
    BY <2>1, ElementOfSeq, LenProperties
  <2>3. CASE Len(objects) = 1 /\ WaitSynchronization1(t, objects[1], delay)
    <3>1. <<objects[1]>> \in Seq(Objects)
      BY <2>1, <2>2, <2>3, LenProperties
    <3> QED
      BY <1>1, <2>3, <3>1, SleepKeeps, TakeKeeps DEF WaitSynchronization1
  <2>4. CASE WaitSynchronizationAny(t, objects, delay)
    BY <1>1, <2>1, <2>2, <2>4, SleepKeeps, TakeKeeps DEF WaitSynchronizationAny
  <2>5. CASE WaitSynchronizationAll(t, objects, delay)
    BY <1>1, <2>1, <2>5, SleepKeeps, TakeKeeps DEF WaitSynchronizationAll
  <2> QED
    BY <1>2, <2>3, <2>4, <2>5
<1>3. ASSUME NEW delay \in program.delays, SleepThread(t, delay)
      PROVE  CallKeeps
  <2>1. todo = <<>> /\ UNCHANGED lockVars
    BY <1>3 DEF SleepThread, Executes, Executing, AtRest, objectVars
  <2>2. LockTypes' /\ LocksOK' /\ IsTodo(todo')
    BY <1>3, <2>1, StartsQuietly, TodoNone DEF IInv, SleepThread
  <2>3. CallStep
    <3>1. FallsAsleep
      BY <1>1, <1>3 DEF SleepThread, FallsAsleep, coreVars
    <3>2. LoopStays
      BY <1>3 DEF SleepThread, LoopStays, PrepareReschedule
    <3> QED
      BY <3>1, <3>2 DEF CallStep
  <2>4. events' \in [Cores -> [Sources -> Nat]]
    BY <1>3, EventTypes DEF SleepThread, IInv, CallInv, ThreadTypes, Sources
  <2>5. ThreadTypes' /\ OtherTypes' /\ ObjectTypes'
    BY <1>3, <2>4, FlagTypes DEF SleepThread, IInv, CallInv, ThreadTypes, OtherTypes, ObjectTypes,
       coreVars, arbiterVars, objectVars, waitVars, signalVars
  <2> QED
    BY <2>2, <2>3, <2>5 DEF CallKeeps, CallInv
<1> QED
  BY <1>2, <1>3 DEF WaitSvc

\* s32 arithmetic stays within s32.
LEMMA WrapType ==
  ASSUME NEW n \in Int
  PROVE  Wrap(n) \in S32
<1>1. PICK d : d = 2 * S32Max + 2
  OBVIOUS
<1>2. d \in Nat \ {0} /\ S32Max \in Nat /\ d = 2 * S32Max + 2
  BY <1>1, ObjectsAssumption
<1>3. (n + S32Max + 1) % d \in 0..d - 1
  BY <1>2
<1> QED
  BY <1>2, <1>3 DEF Wrap, S32

\* ReleaseMutex keeps the part of the invariant about calls.
LEMMA ReleaseMutexKeeps ==
  ASSUME IInv, NEW t \in Threads, NEW m \in Mutexes, ReleaseMutex(t, m)
  PROVE  CallKeeps
<1>1. /\ todo = <<>> /\ holding_thread[m] = t /\ lock_count[m] > 0 /\ lock_count[m] \in Nat
      /\ lock_count' = [lock_count EXCEPT ![m] = @ - 1] /\ LockTypes /\ t # NoThread
  BY ThreadsAssumption
  DEF ReleaseMutex, Executes, Executing, AtRest, IInv, CallInv, LockTypes
<1>2. UNCHANGED flagVars \/ PrepareReschedule
  BY DEF ReleaseMutex
<1>3. StackKeeps
  <2>1. CASE lock_count[m] = 1
    <3>1. IsTodo(todo')
      BY <2>1, TodoOne DEF ReleaseMutex, OpCalls
    <3> QED
      BY <1>1, <3>1, StartKeeps
  <2>2. CASE lock_count[m] # 1
    BY <2>2, SameKeeps DEF ReleaseMutex, IInv, CallInv
  <2> QED
    BY <2>1, <2>2
<1>4. CallStep
  <2>1. \/ UNCHANGED <<current_priority, ready_queue>>
        \/ \E u \in Threads, p \in Priorities : BoostPriority(u, p)
    BY DEF ReleaseMutex, UpdateThreadPriority
  <2> QED
    BY <1>2, <2>1, BoostStep DEF ReleaseMutex, coreVars
<1>5. ThreadTypes' /\ OtherTypes' /\ ObjectTypes'
  BY <1>2, FlagTypes DEF ReleaseMutex, IInv, CallInv, ThreadTypes, OtherTypes, ObjectTypes, coreVars,
     arbiterVars, waitVars, signalVars
<1>6. \A u \in Threads : \A n \in held_mutexes[u] : holding_thread[n] = u
  BY <1>1 DEF IInv, CallInv, LocksOK, ReleasesIn
<1>7. LockTypes' /\ LocksOK'
  <2>1. CASE lock_count[m] = 1
    <3>1. /\ held_mutexes' = [held_mutexes EXCEPT ![t] = @ \ {m}]
          /\ holding_thread' = [holding_thread EXCEPT ![m] = NoThread]
      BY <2>1 DEF ReleaseMutex
    <3>2. LockTypes'
      BY <1>1, <2>1, <3>1 DEF LockTypes
    <3>3. \A n \in Mutexes : lock_count'[n] > 0 <=> holding_thread'[n] # NoThread
      BY <1>1, <2>1, <3>1 DEF IInv, CallInv, LockTypes, LocksOK
    <3>4. \A n \in Mutexes, u \in Threads : holding_thread'[n] = u => n \in held_mutexes'[u]
      BY <1>1, <3>1, ThreadsAssumption DEF IInv, CallInv, LockTypes, LocksOK
    <3>5. \A u \in Threads : \A n \in held_mutexes'[u] : holding_thread'[n] = u
      BY <1>1, <1>6, <3>1 DEF LockTypes
    <3> QED
      BY <3>2, <3>3, <3>4, <3>5 DEF LocksOK
  <2>2. CASE lock_count[m] # 1
    <3>1. held_mutexes' = held_mutexes /\ holding_thread' = holding_thread
      BY <2>2 DEF ReleaseMutex
    <3>2. LockTypes'
      BY <1>1, <3>1 DEF LockTypes
    <3>3. \A n \in Mutexes : lock_count'[n] > 0 <=> lock_count[n] > 0
      BY <1>1, <2>2 DEF LockTypes
    <3> QED
      BY <1>6, <3>1, <3>2, <3>3 DEF IInv, CallInv, LocksOK
  <2> QED
    BY <2>1, <2>2
<1> QED
  BY <1>3, <1>4, <1>5, <1>7 DEF CallKeeps, CallInv, StackKeeps, IsTodo

\* ReleaseSemaphore, SignalEvent, Clear, SetTimer and CancelTimer: an object is
\* made available or not, and its waiters are to be woken.
SignalsOnly ==
  /\ UNCHANGED <<threadVars, coreVars, loopVars, flagVars, lockVars, mutex_priority, waitVars,
                 arbiterVars, process_status>>
  /\ events' \in [Cores -> [Sources -> Nat]]
  /\ available_count' \in [Semaphores -> S32]
  /\ signaled' \in [Signals -> BOOLEAN] /\ periodic' \in [Timers -> BOOLEAN]

\* Steps that only change an event or a timer and leave calls to make.
LEMMA SignalsOnlyKeeps ==
  ASSUME IInv, todo = <<>>, IsTodo(todo'), SignalsOnly
  PROVE  CallKeeps
<1>1. LockTypes' /\ LocksOK' /\ IsTodo(todo')
  BY StartsQuietly DEF IInv, SignalsOnly
<1>2. CallStep
  BY QuietStep DEF SignalsOnly, threadVars, coreVars
<1>3. ThreadTypes' /\ ObjectTypes' /\ OtherTypes'
  BY DEF SignalsOnly, IInv, CallInv, ThreadTypes, ObjectTypes, OtherTypes, threadVars, coreVars,
         flagVars, waitVars, arbiterVars
<1> QED
  BY <1>1, <1>2, <1>3 DEF CallKeeps, CallInv

\* The calls of Timer::Signal.
LEMMA TodoTimerSignal ==
  ASSUME NEW x, NEW again \in BOOLEAN
  PROVE  IsTodo(TimerSignal(x, again))
<1>1. IsTodo(<<Call("WakeupAllWaitingThreads", x, "Signal")>>)
  BY TodoOne DEF OpCalls
<1>2. IsTodo(IF again THEN <<Call("ScheduleEvent", x, "Signal")>> ELSE <<>>)
  BY TodoOne, TodoNone DEF OpCalls
<1> QED
  BY <1>1, <1>2, TodoConcat DEF TimerSignal

\* SignalSvc keeps the part of the invariant about calls.
LEMMA SignalSvcKeeps ==
  ASSUME IInv, NEW t \in Threads, SignalSvc(t)
  PROVE  CallKeeps
<1>1. /\ events \in [Cores -> [Sources -> Nat]] /\ available_count \in [Semaphores -> S32]
      /\ signaled \in [Signals -> BOOLEAN] /\ periodic \in [Timers -> BOOLEAN]
  BY DEF IInv, CallInv, ThreadTypes, ObjectTypes
<1>2. ASSUME NEW s \in Semaphores, NEW n \in program.counts, ReleaseSemaphore(t, s, n)
      PROVE  CallKeeps
  <2>1. todo = <<>>
    BY <1>2 DEF ReleaseSemaphore, Executes, Executing, AtRest
  <2>2. IsTodo(todo')
    BY <1>2, TodoOne DEF ReleaseSemaphore, OpCalls
  <2>3. n \in Int /\ available_count[s] \in Int
    BY <1>1, KernelAssumption, ObjectsAssumption DEF IInv, S32
  <2>4. Wrap(available_count[s] + n) \in S32
    BY <2>3, WrapType
  <2>5. available_count' \in [Semaphores -> S32]
    BY <1>1, <1>2, <2>4 DEF ReleaseSemaphore
  <2>6. SignalsOnly
    BY <1>1, <1>2, <2>5 DEF ReleaseSemaphore, SignalsOnly
  <2> QED
    BY <2>1, <2>2, <2>6, SignalsOnlyKeeps
<1>3. ASSUME NEW e \in Events, SignalEvent(t, e)
      PROVE  CallKeeps
  <2>1. todo = <<>>
    BY <1>3 DEF SignalEvent, Executes, Executing, AtRest
  <2>2. IsTodo(todo')
    BY <1>3, TodoOne DEF SignalEvent, OpCalls
  <2>3. SignalsOnly
    BY <1>1, <1>3 DEF SignalEvent, SignalsOnly, Signals
  <2> QED
    BY <2>1, <2>2, <2>3, SignalsOnlyKeeps
<1>4. ASSUME NEW e \in Signals, Clear(t, e)
      PROVE  CallKeeps
  <2>1. todo = <<>> /\ IsTodo(todo')
    BY <1>4, TodoNone DEF Clear, Executes, Executing, AtRest
  <2>2. SignalsOnly
    BY <1>1, <1>4 DEF Clear, SignalsOnly
  <2> QED
    BY <2>1, <2>2, SignalsOnlyKeeps
<1>5. ASSUME NEW x \in Timers, NEW now \in BOOLEAN, NEW again \in BOOLEAN, SetTimer(t, x, now, again)
      PROVE  CallKeeps
  <2>1. todo = <<>> /\ x \in Sources /\ x \in Signals
    BY <1>5 DEF SetTimer, Executes, Executing, AtRest, Sources, Signals
  <2>2. IsTodo(todo')
    <3>1. todo' = TimerSignal(x, again) \/ todo' = todo
      BY <1>5 DEF SetTimer
    <3> QED
      BY <2>1, <3>1, TodoTimerSignal, TodoNone
  <2>3. events' \in [Cores -> [Sources -> Nat]]
    <3>1. \/ events' = Unscheduled(events, x)
          \/ events' = Scheduled(Unscheduled(events, x), x)
      BY <1>5 DEF SetTimer
    <3> QED
      BY <1>1, <2>1, <3>1, EventTypes
  <2>4. /\ signaled' \in [Signals -> BOOLEAN] /\ periodic' \in [Timers -> BOOLEAN]
        /\ available_count' = available_count
    BY <1>1, <1>5, <2>1 DEF SetTimer
  <2>5. SignalsOnly
    BY <1>1, <1>5, <2>3, <2>4 DEF SetTimer, SignalsOnly
  <2> QED
    BY <2>1, <2>2, <2>5, SignalsOnlyKeeps
<1>6. ASSUME NEW x \in Timers, CancelTimer(t, x)
      PROVE  CallKeeps
  <2>1. todo = <<>> /\ IsTodo(todo') /\ x \in Sources
    BY <1>6, TodoNone DEF CancelTimer, Executes, Executing, AtRest, Sources
  <2>2. events' \in [Cores -> [Sources -> Nat]]
    BY <1>1, <1>6, <2>1, EventTypes DEF CancelTimer
  <2>3. SignalsOnly
    BY <1>1, <1>6, <2>2 DEF CancelTimer, SignalsOnly, objectVars, signalVars
  <2> QED
    BY <2>1, <2>3, SignalsOnlyKeeps
<1> QED
  BY <1>2, <1>3, <1>4, <1>5, <1>6, ReleaseMutexKeeps DEF SignalSvc

\* SetThreadPriority keeps the part of the invariant about calls.
LEMMA SetThreadPriorityKeeps ==
  ASSUME IInv, NEW t \in Threads, NEW u \in Threads, NEW p \in Priorities,
         SetThreadPriority(t, u, p)
  PROVE  CallKeeps
<1>1. todo = <<>> /\ UNCHANGED lockVars
  BY DEF SetThreadPriority, Executes, Executing, AtRest, objectVars
<1>2. IsTodo(todo')
  BY TodoOne DEF SetThreadPriority, OpCalls
<1>3. LockTypes' /\ LocksOK' /\ IsTodo(todo')
  BY <1>1, <1>2, StartsQuietly DEF IInv
<1>4. CallStep
  <2>1. \E v \in Threads, best \in Priorities : BoostPriority(v, best)
    BY DEF SetThreadPriority
  <2> QED
    BY <2>1, BoostStep DEF SetThreadPriority, coreVars
<1>5. ThreadTypes' /\ OtherTypes' /\ ObjectTypes'
  BY FlagTypes DEF SetThreadPriority, IInv, CallInv, ThreadTypes, OtherTypes, ObjectTypes, coreVars,
     arbiterVars, objectVars, waitVars, signalVars
<1> QED
  BY <1>3, <1>4, <1>5 DEF CallKeeps, CallInv

\* ThreadSvc keeps the part of the invariant about calls.
LEMMA ThreadSvcKeeps ==
  ASSUME IInv, NEW t \in Threads, ThreadSvc(t)
  PROVE  CallKeeps
<1>1. program.targets \subseteq Threads /\ program.priorities \subseteq Priorities
  BY KernelAssumption DEF IInv
<1>2. ASSUME NEW u \in program.targets, NEW p \in program.priorities, SetThreadPriority(t, u, p)
      PROVE  CallKeeps
  BY <1>1, <1>2, SetThreadPriorityKeeps
<1> QED
  BY <1>2, SvcCreateThreadKeeps, ExitThreadKeeps, TerminateProcessKeeps DEF ThreadSvc

\* ArbiterSvc keeps the part of the invariant about calls.
LEMMA ArbiterSvcKeeps ==
  ASSUME IInv, NEW t \in Threads, ArbiterSvc(t)
  PROVE  CallKeeps
<1>1. /\ program.addresses \subseteq Addresses /\ program.values \subseteq Int
      /\ process_status' \in [Processes -> {"Created", "Running", "Exited"}]
  BY KernelAssumption DEF IInv, CallInv, OtherTypes, ArbiterSvc
<1>2. ASSUME NEW a \in program.addresses, NEW value \in program.values, ArbitrateSignal(t, a, value)
      PROVE  CallKeeps
  <2>1. todo = <<>> /\ value \in Int
    BY <1>1, <1>2 DEF ArbitrateSignal, Executes, Executing, AtRest
  <2>2. IsTodo(todo')
    <3>1. CASE value < 0
      BY <1>2, <3>1, TodoOne DEF ArbitrateSignal, OpCalls
    <3>2. CASE ~(value < 0)
      <4>1. PICK calls :
              calls = [i \in 1..value |-> Call("ResumeHighestPriorityThread", a, value)]
        OBVIOUS
      <4>2. value \in Nat
        BY <2>1, <3>2
      <4>3. calls = [i \in 1..value |-> calls[i]] /\ \A i \in 1..value : calls[i][1] \in OpCalls
        BY <4>1 DEF Call, OpCalls
      <4>4. IsTodo(calls)
        BY <4>2, <4>3, TodoFunction
      <4> QED
        BY <1>2, <3>2, <4>1, <4>4 DEF ArbitrateSignal
    <3> QED
      BY <3>1, <3>2
  <2>3. OnlyCalls
    BY <1>1, <1>2 DEF ArbitrateSignal, OnlyCalls
  <2> QED
    BY <2>1, <2>2, <2>3, OnlyCallsKeeps
<1>3. ASSUME ArbitrateNoWait(t)
      PROVE  CallKeeps
  <2>1. todo = <<>> /\ IsTodo(todo')
    BY <1>3, TodoNone DEF ArbitrateNoWait, Executes, Executing, AtRest
  <2>2. OnlyCalls
    BY <1>1, <1>3 DEF ArbitrateNoWait, OnlyCalls
  <2> QED
    BY <2>1, <2>2, OnlyCallsKeeps
<1>4. ASSUME NEW a \in program.addresses, NEW timed \in BOOLEAN, NEW delay \in program.delays,
             ArbitrateWait(t, a, timed, delay)
      PROVE  CallKeeps
  <2>1. todo = <<>> /\ IsTodo(todo') /\ UNCHANGED lockVars
    BY <1>4, TodoNone DEF ArbitrateWait, Executes, Executing, AtRest, objectVars
  <2>2. LockTypes' /\ LocksOK' /\ IsTodo(todo')
    BY <2>1, StartsQuietly DEF IInv
  <2>3. CallStep
    <3>1. FallsAsleep
      BY <1>4 DEF ArbitrateWait, FallsAsleep, coreVars, Waits
    <3>2. LoopStays
      BY <1>4 DEF ArbitrateWait, LoopStays, PrepareReschedule
    <3> QED
      BY <3>1, <3>2 DEF CallStep
  <2>4. events' \in [Cores -> [Sources -> Nat]]
    <3>1. events' = events \/ events' = WakeAfterDelay(events, t, delay)
      BY <1>4 DEF ArbitrateWait
    <3>2. WakeAfterDelay(events, t, delay) \in [Cores -> [Sources -> Nat]]
      BY EventTypes DEF IInv, CallInv, ThreadTypes, Sources
    <3> QED
      BY <3>1, <3>2 DEF IInv, CallInv, ThreadTypes
  <2>5. ThreadTypes' /\ ObjectTypes'
    BY <1>4, <2>4, FlagTypes DEF ArbitrateWait, IInv, CallInv, ThreadTypes, ObjectTypes, coreVars,
       Callbacks, objectVars, waitVars, signalVars
  <2>6. OtherTypes'
    BY <1>1, <1>4, AppendFacts DEF ArbitrateWait, IInv, CallInv, OtherTypes
  <2> QED
    BY <2>2, <2>3, <2>5, <2>6 DEF CallKeeps, CallInv
<1> QED
  BY <1>2, <1>3, <1>4 DEF ArbiterSvc

\* The callbacks of the timing queue.
LEMMA CallbackKeeps ==
  ASSUME IInv, Callback
  PROVE  CallKeeps
<1>1. ASSUME NEW c \in Cores, NEW x \in Sources, events[c][x] > 0
      PROVE  [events EXCEPT ![c][x] = @ - 1] \in [Cores -> [Sources -> Nat]]
  <2>1. events \in [Cores -> [Sources -> Nat]] /\ events[c] \in [Sources -> Nat] /\ events[c][x] \in Nat
    BY DEF IInv, CallInv, ThreadTypes
  <2>2. events[c][x] - 1 \in Nat
    BY <1>1, <2>1
  <2> QED
    BY <2>1, <2>2
<1>2. ASSUME NEW c \in Cores, NEW t \in Threads, ThreadWakeupCallback(c, t)
      PROVE  CallKeeps
  <2>1. todo = <<>> /\ t \in Sources /\ UNCHANGED lockVars
    BY <1>2 DEF ThreadWakeupCallback, Advancing, AtRest, Sources, objectVars
  <2>2. IsTodo(todo')
    <3>1. todo' = EndWait(t, "Timeout") \/ todo' = <<Call("ResumeFromWait", t, "keep")>>
      BY <1>2 DEF ThreadWakeupCallback
    <3>2. IsTodo(EndWait(t, "Timeout"))
      BY TodoEndWait DEF IInv, CallInv
    <3>3. IsTodo(<<Call("ResumeFromWait", t, "keep")>>)
      BY TodoOne DEF OpCalls
    <3> QED
      BY <3>1, <3>2, <3>3
  <2>3. LockTypes' /\ LocksOK' /\ IsTodo(todo')
    BY <2>1, <2>2, StartsQuietly DEF IInv
  <2>4. CallStep
    BY <1>2, QuietStep DEF ThreadWakeupCallback, threadVars, coreVars
  <2>5. events' \in [Cores -> [Sources -> Nat]]
    BY <1>1, <1>2, <2>1 DEF ThreadWakeupCallback
  <2>6. ThreadTypes' /\ OtherTypes' /\ ObjectTypes'
    BY <1>2, <2>5 DEF ThreadWakeupCallback, IInv, CallInv, ThreadTypes, OtherTypes, ObjectTypes,
       threadVars, coreVars, flagVars, arbiterVars, objectVars, waitVars, signalVars
  <2> QED
    BY <2>3, <2>4, <2>6 DEF CallKeeps, CallInv
<1>3. ASSUME NEW c \in Cores, NEW x \in Timers, TimerCallback(c, x)
      PROVE  CallKeeps
  <2>1. todo = <<>> /\ x \in Sources /\ x \in Signals
    BY <1>3 DEF TimerCallback, Advancing, AtRest, Sources, Signals
  <2>2. /\ signaled \in [Signals -> BOOLEAN] /\ periodic \in [Timers -> BOOLEAN]
        /\ available_count \in [Semaphores -> S32]
    BY DEF IInv, CallInv, ObjectTypes
  <2>3. IsTodo(todo')
    BY <1>3, <2>2, TodoTimerSignal DEF TimerCallback
  <2>4. events' \in [Cores -> [Sources -> Nat]]
    BY <1>1, <1>3, <2>1 DEF TimerCallback
  <2>5. SignalsOnly
    BY <1>3, <2>1, <2>2, <2>4 DEF TimerCallback, SignalsOnly
  <2> QED
    BY <2>1, <2>3, <2>5, SignalsOnlyKeeps
<1> QED
  BY <1>2, <1>3 DEF Callback

-----------------------------------------------------------------------------
\* The specification.

\* A turn of the run loop: the stack, the objects and the other types.
LEMMA RunLoopKeeps ==
  ASSUME IInv, RunLoop
  PROVE  QueueInv' /\ CallInv'
<1>1. /\ todo' = todo /\ UNCHANGED <<objectVars, arbiterVars, process_status>>
      /\ UNCHANGED <<nominal_priority, wakeup_callback, thread_list, registered>>
  BY DEF RunLoop, BeginRound, EndAdvance, EndSlice, threadVars, coreVars
<1>2. UNCHANGED lockVars
  BY <1>1 DEF objectVars
<1>3. LockTypes' /\ LocksOK' /\ IsTodo(todo')
  BY <1>1, <1>2, SameKeeps, LocksStay DEF IInv, CallInv
<1>4. ObjectTypes' /\ OtherTypes'
  BY <1>1 DEF IInv, CallInv, ObjectTypes, OtherTypes, objectVars, waitVars, signalVars, arbiterVars
<1>5. QueueInv' /\ (events' = events \/ \E t \in Threads : events' = Unscheduled(events, t))
  BY BeginRoundKeeps, EndAdvanceKeeps, EndSliceKeeps
  DEF RunLoop, IInv, Rescheduled, BeginRound
<1>6. events' \in [Cores -> [Sources -> Nat]]
  BY <1>5, EventTypes DEF IInv, CallInv, ThreadTypes, Sources
<1>7. reschedule_pending' \in BOOLEAN /\ halted' \in BOOLEAN
  BY DEF RunLoop, BeginRound, EndAdvance, EndSlice, flagVars, IInv, CallInv, ThreadTypes
<1>8. ThreadTypes'
  BY <1>1, <1>6, <1>7 DEF IInv, CallInv, ThreadTypes
<1> QED
  BY <1>3, <1>4, <1>5, <1>8 DEF CallInv

\* Every step that is not one of RunLoop keeps the part about calls.
LEMMA CallsKeep ==
  ASSUME IInv, Step, ~RunLoop
  PROVE  CallKeeps
<1>1. CASE ObjectCall
  BY <1>1, AcquireMutexKeeps, AcquireSemaphoreKeeps, AcquireSignalKeeps, AcquireThreadKeeps,
     WaiterKeeps, WakeupNextKeeps, WakeupDoneKeeps, SyncWakeUpKeeps, ResumeFromWaitKeeps
  DEF ObjectCall
<1>2. CASE ArbiterCall
  BY <1>2, ResumeAllThreadsKeeps, ResumeHighestKeeps, ArbiterWakeUpKeeps DEF ArbiterCall
<1>3. CASE KernelCall
  BY <1>3, StopKeeps, MutexesReleasedKeeps, UpdatedPendingKeeps, ReleaseThreadMutexesKeeps,
     UpdatePendingKeeps, TerminateNextKeeps, TerminateCurrentKeeps, RearmKeeps DEF KernelCall
<1>4. CASE Callback
  BY <1>4, CallbackKeeps
<1>5. CASE \E p \in Processes : Run(p)
  BY <1>5, RunKeeps
<1>6. CASE \E t \in Threads : WaitSvc(t) \/ SignalSvc(t) \/ ThreadSvc(t) \/ ArbiterSvc(t)
  BY <1>6, WaitSvcKeeps, SignalSvcKeeps, ThreadSvcKeeps, ArbiterSvcKeeps
<1> QED
  BY <1>1, <1>2, <1>3, <1>4, <1>5, <1>6 DEF Step, Svc

\* The invariant holds at first.
LEMMA InitInv ==
  ASSUME Init
  PROVE  IInv
<1>1. \A c \in Cores, p \in Priorities : ready_queue[c][p] = <<>>
  BY DEF Init, SchedInit
<1>2. QueueTypes
  BY EmptySeq, PriorityAssumption
  DEF Init, SchedInit, QueueTypes, Queues, Statuses, Phases
<1>3. QueuesExact(ready_queue, status, current_priority)
  <2>1. NoDuplicates(<<>>) /\ ToSet(<<>>) = {}
    BY DEF NoDuplicates, ToSet
  <2> QED
    BY <1>1, <2>1 DEF QueuesExact, Init, SchedInit
<1>4. CurrentOK /\ SlicesOK
  BY DEF Init, SchedInit, CurrentOK, SlicesOK, Settled
<1>5. ThreadTypes
  BY EmptySeq, PriorityAssumption DEF Init, SchedInit, ThreadTypes, Callbacks
<1>6. LockTypes /\ LocksOK
  BY ThreadsAssumption DEF Init, ObjectInit, LockTypes, LocksOK
<1>7. ObjectTypes
  <2>1. ThreadPrioLowest \in Priorities /\ InitialCount \in [Semaphores -> S32]
    BY PriorityAssumption, ObjectsAssumption DEF Priorities
  <2> QED
    BY <2>1, EmptySeq DEF Init, ObjectInit, ObjectTypes
<1>8. OtherTypes
  BY EmptySeq DEF Init, ArbiterInit, OtherTypes
<1>9. IsTodo(todo) /\ program \in Programs
  BY TodoNone DEF Init, SchedInit
<1> QED
  BY <1>2, <1>3, <1>4, <1>5, <1>6, <1>7, <1>8, <1>9 DEF IInv, QueueInv, CallInv

\* The invariant is inductive.
LEMMA StepInv ==
  ASSUME IInv, [Next]_vars
  PROVE  IInv'
<1>1. CASE Next
  <2>1. program' = program /\ Step
    BY <1>1 DEF Next, Record
  <2>2. CASE RunLoop
    BY <2>1, <2>2, RunLoopKeeps DEF IInv
  <2>3. CASE ~RunLoop
    <3>1. CallInv' /\ CallStep
      BY <2>1, <2>3, CallsKeep DEF CallKeeps
    <3>2. QueueInv'
      BY <3>1, CallStepKeeps DEF IInv, QueueInv
    <3> QED
      BY <2>1, <3>1, <3>2 DEF IInv
  <2> QED
    BY <2>2, <2>3
<1>2. CASE UNCHANGED vars
  <2>1. QueueTypes' /\ CurrentOK'
    BY <1>2 DEF vars, threadVars, coreVars, loopVars, IInv, QueueInv, QueueTypes, CurrentOK
  <2>2. QueuesExact(ready_queue, status, current_priority)'
    BY <1>2 DEF vars, threadVars, IInv, QueueInv, QueuesExact
  <2>3. SlicesOK'
    BY <1>2 DEF vars, threadVars, coreVars, loopVars, flagVars, IInv, QueueInv, SlicesOK, Settled,
       IsRunningCore
  <2>4. LockTypes' /\ LocksOK' /\ IsTodo(todo')
    BY <1>2, SameKeeps, LocksStay DEF vars, objectVars, IInv, CallInv
  <2>5. ThreadTypes' /\ ObjectTypes' /\ OtherTypes' /\ program' = program
    BY <1>2 DEF vars, threadVars, coreVars, flagVars, objectVars, waitVars, signalVars, arbiterVars,
       IInv, CallInv, ThreadTypes, ObjectTypes, OtherTypes
  <2> QED
    BY <2>1, <2>2, <2>3, <2>4, <2>5 DEF IInv, QueueInv, CallInv
<1> QED
  BY <1>1, <1>2

\* The inductive invariant holds in every reachable state.
THEOREM InvHolds == Spec => []IInv
<1>1. Init => IInv
  BY InitInv
<1>2. IInv /\ [Next]_vars => IInv'
  BY StepInv
<1> QED
  BY <1>1, <1>2, PTL DEF Spec

\* Mutex::holding_thread, lock_count and Thread::held_mutexes always agree, in
\* the middle of svcReleaseMutex, Thread::Stop and WakeupAllWaitingThreads too.
THEOREM MutexOwnershipTheorem == Spec => []MutexOwnership
<1>1. IInv => MutexOwnership
  BY InvTypes DEF IInv, CallInv, LocksOK, MutexOwnership, Releasing, ReleasesIn
<1> QED
  BY <1>1, InvHolds, PTL

\* The ready queues hold exactly the ready threads, at the level of their
\* priority, after any boosts, wake-ups, terminations and context switches.
THEOREM ReadyQueueExactTheorem == Spec => []ReadyQueueExact
<1>1. IInv => ReadyQueueExact
  BY DEF IInv, QueueInv, QueuesExact, CurrentOK, ReadyQueueExact
<1> QED
  BY <1>1, InvHolds, PTL

\* ThreadManager::Reschedule never passes over a better ready thread.
THEOREM SwitchPicksBestTheorem == Spec => SwitchPicksBest
<1> DEFINE Picks ==
      \A c \in Cores :
        current_thread'[c] # current_thread[c] =>
          \A u \in Threads :
            status'[u] = "Ready" /\ CoreOf[u] = c =>
              /\ current_thread'[c] # NoThread
              /\ current_priority'[current_thread'[c]] <= current_priority'[u]
<1>1. ASSUME IInv, Next PROVE Picks
  <2>1. CASE ~RunLoop
    <3>1. CallStep
      BY <1>1, <2>1, CallsKeep DEF CallKeeps, Next
    <3>2. current_thread' = current_thread
      BY <3>1 DEF CallStep, Boosts, FallsAsleep, BecomesReady, Dies
    <3> QED
      BY <3>2
  <2>2. CASE BeginRound
    BY <2>2 DEF BeginRound, coreVars
  <2>3. ASSUME NEW d \in Cores, EndAdvance(d) \/ EndSlice(d) PROVE Picks
    <3>1. current_priority' = current_priority
      BY <2>3 DEF EndAdvance, EndSlice
    <3>2. \/ Rescheduled(d) /\ PickedBest(d)
          \/ current_thread' = current_thread
      BY <1>1, <2>3, EndAdvanceKeeps, EndSliceKeeps DEF IInv
    <3> QED
      BY <3>1, <3>2 DEF Rescheduled, PickedBest
  <2> QED
    BY <2>1, <2>2, <2>3 DEF RunLoop
<1>2. IInv /\ [Next]_vars => [Picks]_vars
  BY <1>1
<1> QED
  BY <1>2, InvHolds, PTL DEF Spec, SwitchPicksBest

-----------------------------------------------------------------------------
\* Waiting.  Once an assertion has failed nothing happens any more, so the
\* rest of the invariant speaks only of states in which none has.

Synching == {"WaitSynchAny", "WaitSynchAll"}
Waiting(t, o) == t \in ToSet(waiting_threads[o])

\* A call is on the stack; it is on the stack above place i.
Has(calls, call) == \E i \in DOMAIN calls : calls[i] = call
Above(calls, i, call) == \E j \in DOMAIN calls : j < i /\ calls[j] = call

Leave(t, o) == Call("RemoveWaitingThread", t, o)
Resumed(t) == Call("ResumeFromWait", t, "clear")
Leaves(t, o) == Has(todo, Leave(t, o))
Wakes(calls, o) ==
  \E i \in DOMAIN calls : calls[i][1] = "WakeupAllWaitingThreads" /\ calls[i][2] = o

\* Nobody is in a list twice, and a thread knows the mutexes that it waits for.
ListsOK ==
  /\ \A o \in Objects : NoDuplicates(waiting_threads[o])
  /\ \A m \in Mutexes, t \in Threads : m \in pending_mutexes[t] <=> Waiting(t, m)

\* A thread is in the lists of its objects, unless it was stopped and is about
\* to leave them; it has objects only while it sleeps on them.
ListedOK ==
  /\ \A t \in Threads, o \in Objects :
       Waiting(t, o) => o \in ToSet(wait_objects[t]) \/ (status[t] = "Dead" /\ Leaves(t, o))
  /\ \A t \in Threads : wait_objects[t] # <<>> => status[t] \in Synching

\* A thread whose wait is ending is about to leave every list that it is in,
\* before its list of objects is cleared.
Ending == {"Acquire", "WakeUp", "RemoveWaitingThread"}
LeavingOK ==
  \A t \in Threads, o \in Objects : Waiting(t, o) =>
    /\ \A i \in DOMAIN todo : todo[i][1] \in Ending /\ todo[i][2] = t => Leaves(t, o)
    /\ \A i \in DOMAIN todo : todo[i] = Resumed(t) => Above(todo, i, Leave(t, o))

\* A thread that goes to sleep enters the lists of all its objects, and there
\* is none among them that it could be given.
Enters(calls) == \E i \in DOMAIN calls : calls[i][1] = "AddWaitingThread"
EnteringOK ==
  Enters(todo) =>
    \E t \in Threads :
      /\ \A i \in DOMAIN todo :
           \E o \in ToSet(wait_objects[t]) : todo[i] = Call("AddWaitingThread", t, o)
      /\ \A o \in ToSet(wait_objects[t]) : ~ReadyFor(t, o)

\* A thread is in the list of each of its objects, unless it is only entering
\* or already leaving them; a thread that leaves lists will be resumed.
EnteredOK ==
  \A t \in Threads : \A o \in ToSet(wait_objects[t]) :
    /\ Waiting(t, o) \/ Has(todo, Call("AddWaitingThread", t, o)) \/ Has(todo, Resumed(t))
    /\ Leaves(t, o) => Has(todo, Resumed(t))

\* Only the end of a wait resumes a thread and clears its objects.
Clears(call) == call[1] = "ResumeFromWait" /\ call[3] = "clear"
ResumingOK ==
  \A i \in DOMAIN todo : Clears(todo[i]) => \E t \in Threads : todo[i] = Resumed(t)

\* A thread that is about to be told has the objects or is about to acquire
\* them, and nothing else comes first.
Granted(t, o) == IF status[t] = "WaitSynchAll" THEN ToSet(wait_objects[t]) ELSE {o}
ToldOK ==
  \A i \in DOMAIN todo : todo[i][1] = "WakeUp" =>
    /\ \A j \in DOMAIN todo : j < i => todo[j][1] = "Acquire" /\ todo[j][2] = todo[i][2]
    /\ \A t \in Threads, o \in Objects : todo[i] = Call("WakeUp", t, o) =>
         /\ o \in ToSet(wait_objects[t])
         /\ \A m \in Granted(t, o) \cap Mutexes :
              holding_thread[m] = t \/ Above(todo, i, Call("Acquire", t, m))

\* A waiting thread that could have its object is leaving, or the waiters of
\* that object are about to be woken; a thread that waits for all its objects
\* is found through any of them.
Found(t, o) ==
  \E x \in Objects : Wakes(todo, x) /\ Waiting(t, x) /\ (x = o \/ status[t] = "WaitSynchAll")
WokenOK ==
  \A t \in Threads, o \in Objects :
    Waiting(t, o) /\ ReadyFor(t, o) => Leaves(t, o) \/ Found(t, o)

WaitInv ==
  /\ ListsOK /\ ListedOK /\ LeavingOK /\ EnteringOK /\ EnteredOK /\ ResumingOK
  /\ ToldOK /\ WokenOK

\* The stack r is a above b; it is a without its head.
Stacked(r, a, b) ==
  /\ IsTodo(r)
  /\ \A i \in DOMAIN r : \/ i \in DOMAIN a /\ r[i] = a[i]
                        \/ \E k \in DOMAIN b : r[i] = b[k] /\ i = k + Len(a)
  /\ \A i \in DOMAIN a : i \in DOMAIN r /\ r[i] = a[i] /\ i <= Len(a)
  /\ \A k \in DOMAIN b : k + Len(a) \in DOMAIN r /\ r[k + Len(a)] = b[k]
  /\ DOMAIN a = 1..Len(a) /\ DOMAIN b = 1..Len(b) /\ DOMAIN r = 1..Len(r)
  /\ Len(a) \in Nat /\ Len(b) \in Nat /\ Len(r) = Len(a) + Len(b)
Popped(r, a) ==
  /\ IsTodo(r) /\ 1 \in DOMAIN a /\ Head(a) = a[1]
  /\ DOMAIN a = 1..Len(a) /\ Len(a) \in Nat
  /\ \A i \in DOMAIN r : i \in Nat /\ i + 1 \in DOMAIN a /\ r[i] = a[i + 1]
  /\ \A k \in DOMAIN a : k = 1 \/ (k - 1 \in DOMAIN r /\ r[k - 1] = a[k])
  /\ \A c : Has(a, c) <=> c = Head(a) \/ Has(r, c)
  /\ \A o : Wakes(r, o) => Wakes(a, o)
  /\ \A o : Wakes(a, o) =>
       Wakes(r, o) \/ (Head(a)[1] = "WakeupAllWaitingThreads" /\ Head(a)[2] = o)

\* Where a call of two stacks, one above the other, comes from.
LEMMA StackConcat ==
  ASSUME NEW a, NEW b, IsTodo(a), IsTodo(b), NEW r, r = a \o b
  PROVE  Stacked(r, a, b)
<1>1. PICK A, B : a \in Seq(A) /\ b \in Seq(B)
  BY DEF IsTodo
<1>2. PICK S : S = A \cup B
  OBVIOUS
<1>3. a \in Seq(S) /\ b \in Seq(S)
  BY <1>1, <1>2, SeqMonotonic
<1>4. /\ r \in Seq(S) /\ Len(r) = Len(a) + Len(b)
      /\ \A i \in 1..Len(a) + Len(b) : r[i] = IF i <= Len(a) THEN a[i] ELSE b[i - Len(a)]
  BY <1>3, ConcatProperties
<1>5. /\ Len(a) \in Nat /\ Len(b) \in Nat /\ DOMAIN a = 1..Len(a) /\ DOMAIN b = 1..Len(b)
      /\ DOMAIN r = 1..Len(r)
  BY <1>3, <1>4, LenProperties
<1>6. IsTodo(r)
  BY TodoConcat
<1>7. ASSUME NEW i \in DOMAIN r
      PROVE  \/ i \in DOMAIN a /\ r[i] = a[i]
             \/ \E k \in DOMAIN b : r[i] = b[k] /\ i = k + Len(a)
  <2>1. CASE i <= Len(a)
    BY <1>4, <1>5, <1>7, <2>1
  <2>2. CASE ~(i <= Len(a))
    <3>1. i - Len(a) \in 1..Len(b) /\ r[i] = b[i - Len(a)] /\ i = (i - Len(a)) + Len(a)
      BY <1>4, <1>5, <1>7, <2>2
    <3> QED
      BY <1>5, <3>1
  <2> QED
    BY <2>1, <2>2
<1>8. ASSUME NEW k \in DOMAIN b PROVE k + Len(a) \in DOMAIN r /\ r[k + Len(a)] = b[k]
  <2>1. /\ k + Len(a) \in 1..Len(a) + Len(b) /\ ~(k + Len(a) <= Len(a))
        /\ k + Len(a) - Len(a) = k
    BY <1>5, <1>8
  <2> QED
    BY <1>4, <1>5, <2>1
<1>9. \A i \in DOMAIN a : i \in DOMAIN r /\ r[i] = a[i] /\ i <= Len(a)
  BY <1>4, <1>5
<1>10. \A i \in DOMAIN r :
         \/ i \in DOMAIN a /\ r[i] = a[i]
         \/ \E k \in DOMAIN b : r[i] = b[k] /\ i = k + Len(a)
  BY <1>7
<1>11. \A k \in DOMAIN b : k + Len(a) \in DOMAIN r /\ r[k + Len(a)] = b[k]
  BY <1>8
<1>12. Len(r) = Len(a) + Len(b)
  BY <1>4
<1> QED
  BY <1>5, <1>6, <1>9, <1>10, <1>11, <1>12 DEF Stacked

\* What is on it.
LEMMA HasConcat ==
  ASSUME NEW a, NEW b, IsTodo(a), IsTodo(b)
  PROVE  /\ IsTodo(a \o b)
         /\ \A c : Has(a \o b, c) <=> Has(a, c) \/ Has(b, c)
         /\ \A o : Wakes(a \o b, o) <=> Wakes(a, o) \/ Wakes(b, o)
<1>1. PICK r : r = a \o b
  OBVIOUS
<1>2. IsTodo(r)
  BY <1>1, StackConcat DEF Stacked
<1>3. \A i \in DOMAIN r :
        \/ i \in DOMAIN a /\ r[i] = a[i]
        \/ \E k \in DOMAIN b : r[i] = b[k] /\ i = k + Len(a)
  BY <1>1, StackConcat DEF Stacked
<1>4. \A i \in DOMAIN a : i \in DOMAIN r /\ r[i] = a[i]
  BY <1>1, StackConcat DEF Stacked
<1>5. \A k \in DOMAIN b : k + Len(a) \in DOMAIN r /\ r[k + Len(a)] = b[k]
  BY <1>1, StackConcat DEF Stacked
<1>6. \A c : Has(r, c) <=> Has(a, c) \/ Has(b, c)
  BY <1>3, <1>4, <1>5 DEF Has
<1>7. \A o : Wakes(r, o) <=> Wakes(a, o) \/ Wakes(b, o)
  BY <1>3, <1>4, <1>5 DEF Wakes
<1> QED
  BY <1>1, <1>2, <1>6, <1>7

\* The head of the stack is gone.
LEMMA StackTail ==
  ASSUME NEW a, IsTodo(a), a # <<>>, NEW r, r = Tail(a)
  PROVE  Popped(r, a)
<1>1. PICK A : a \in Seq(A)
  BY DEF IsTodo
<1>3. /\ r \in Seq(A) /\ Head(a) = a[1] /\ Len(a) \in Nat \ {0} /\ Len(r) = Len(a) - 1
      /\ \A i \in 1..Len(a) - 1 : r[i] = a[i + 1]
  BY <1>1, HeadTailProperties, EmptySeq, LenProperties
<1>4. DOMAIN a = 1..Len(a) /\ DOMAIN r = 1..Len(a) - 1
  BY <1>1, <1>3, LenProperties
<1>5. IsTodo(r)
  BY TodoTail
<1>6. \A i \in DOMAIN r : i \in Nat /\ i + 1 \in DOMAIN a /\ r[i] = a[i + 1]
  BY <1>3, <1>4
<1>7. \A k \in DOMAIN a : k = 1 \/ (k - 1 \in DOMAIN r /\ r[k - 1] = a[k])
  BY <1>3, <1>4
<1>8. 1 \in DOMAIN a
  BY <1>3, <1>4
<1>9. \A c : Has(a, c) <=> c = Head(a) \/ Has(r, c)
  BY <1>3, <1>6, <1>7, <1>8 DEF Has
<1>10. \A o : Wakes(r, o) => Wakes(a, o)
  BY <1>6 DEF Wakes
<1>11. \A o : Wakes(a, o) =>
         Wakes(r, o) \/ (Head(a)[1] = "WakeupAllWaitingThreads" /\ Head(a)[2] = o)
  BY <1>3, <1>7 DEF Wakes
<1> QED
  BY <1>3, <1>4, <1>5, <1>6, <1>7, <1>8, <1>9, <1>10, <1>11 DEF Popped

\* Calls that neither begin nor end the wait of a thread.
PlainCall(call) ==
  call[1] \notin Ending \cup {"AddWaitingThread"} /\ ~Clears(call)
Plain(calls) == \A i \in DOMAIN calls : PlainCall(calls[i])

\* Such calls are made by a call of that kind, or by nobody, and take the
\* place of the head or come before it.
Grows ==
  /\ todo = <<>> \/ PlainCall(Head(todo))
  /\ \E new, base :
       /\ IsTodo(new) /\ Plain(new) /\ todo' = new \o base
       /\ base = todo \/ (todo # <<>> /\ base = Tail(todo))

\* Whether a thread could be given o.
LEMMA ReadyFacts ==
  ASSUME NEW t \in Threads, NEW o, wait_objects[t] \in Seq(Objects)
  PROVE  ReadyFor(t, o) <=>
           /\ ~ShouldWait(o, t)
           /\ status[t] = "WaitSynchAll" => \A x \in ToSet(wait_objects[t]) : ~ShouldWait(x, t)
<1>1. DOMAIN wait_objects[t] = 1..Len(wait_objects[t])
  BY LenProperties
<1>2. \A x : x \in ToSet(wait_objects[t]) <=> \E i \in 1..Len(wait_objects[t]) : wait_objects[t][i] = x
  BY ToSetMember
<1> QED
  BY <1>1, <1>2 DEF ReadyFor

\* The same after a step.
LEMMA ReadyFactsNext ==
  ASSUME NEW t \in Threads, NEW o, wait_objects'[t] \in Seq(Objects)
  PROVE  ReadyFor(t, o)' <=>
           /\ ~ShouldWait(o, t)'
           /\ status'[t] = "WaitSynchAll" =>
                \A x \in ToSet(wait_objects'[t]) : ~(ShouldWait(x, t)')
<1>1. DOMAIN wait_objects'[t] = 1..Len(wait_objects'[t])
  BY LenProperties
<1>2. \A x : x \in ToSet(wait_objects'[t]) <=>
             \E i \in 1..Len(wait_objects'[t]) : wait_objects'[t][i] = x
  BY ToSetMember
<1> QED
  BY <1>1, <1>2 DEF ReadyFor, ShouldWait

\* Such steps leave the calls that are about waits as they are; there are no
\* calls that enter a list, and nobody is about to be told.
LEMMA GrowsFacts ==
  ASSUME IsTodo(todo), EnteringOK, ToldOK, Grows
  PROVE  /\ ~Enters(todo) /\ ~Enters(todo') /\ \A i \in DOMAIN todo' : todo'[i][1] # "WakeUp"
         /\ \A t, o : Has(todo, Leave(t, o)) <=> Has(todo', Leave(t, o))
         /\ \A t : Has(todo, Resumed(t)) => Has(todo', Resumed(t))
         /\ \A i \in DOMAIN todo' :
              ~PlainCall(todo'[i]) => \E k \in DOMAIN todo : todo[k] = todo'[i]
         /\ \A t : \A i \in DOMAIN todo' : todo'[i] = Resumed(t) =>
              \E k \in DOMAIN todo :
                /\ todo[k] = Resumed(t)
                /\ \A o : Above(todo, k, Leave(t, o)) => Above(todo', i, Leave(t, o))
<1>1. PICK new, base :
        /\ IsTodo(new) /\ Plain(new) /\ todo' = new \o base
        /\ base = todo \/ (todo # <<>> /\ base = Tail(todo))
  BY DEF Grows
<1>2. \A t, o : ~PlainCall(Leave(t, o)) /\ ~PlainCall(Resumed(t))
  BY DEF PlainCall, Leave, Call, Ending, Resumed, Clears
<1>3. todo = <<>> \/ PlainCall(Head(todo))
  BY DEF Grows
<1>4. /\ IsTodo(base)
      /\ \A i \in DOMAIN base : \E k \in DOMAIN todo : base[i] = todo[k]
      /\ \A c : ~PlainCall(c) => (Has(todo, c) <=> Has(base, c))
      /\ \A i \in DOMAIN base : \E k \in DOMAIN todo :
           /\ base[i] = todo[k]
           /\ \A c : ~PlainCall(c) /\ Above(todo, k, c) => Above(base, i, c)
  <2>1. CASE base = todo
    BY <2>1
  <2>2. CASE todo # <<>> /\ base = Tail(todo)
    <3>1. Popped(base, todo)
      BY <2>2, StackTail
    <3> USE DEF Popped
    <3>2. ASSUME NEW i \in DOMAIN base, NEW c, ~PlainCall(c), Above(todo, i + 1, c)
          PROVE  Above(base, i, c)
      <4>1. PICK j \in DOMAIN todo : j < i + 1 /\ todo[j] = c
        BY <3>2 DEF Above
      <4>2. j # 1
        BY <1>3, <2>2, <3>1, <3>2, <4>1
      <4>3. j \in Nat /\ i \in Nat
        BY <3>1, <4>1
      <4>4. j - 1 \in DOMAIN base /\ base[j - 1] = c /\ j - 1 < i
        BY <3>1, <4>1, <4>2, <4>3
      <4> QED
        BY <4>4 DEF Above
    <3>3. \A c : ~PlainCall(c) => (Has(todo, c) <=> Has(base, c))
      BY <1>3, <2>2, <3>1
    <3> QED
      BY <3>1, <3>2, <3>3
  <2> QED
    BY <1>1, <2>1, <2>2
<1>5. PICK r : r = todo'
  OBVIOUS
<1>6. Stacked(r, new, base)
  BY <1>1, <1>4, <1>5, StackConcat
<1>7. \A c : ~PlainCall(c) => (Has(todo, c) <=> Has(r, c))
  <2>1. \A c : ~PlainCall(c) => ~Has(new, c)
    BY <1>1 DEF Plain, Has
  <2>2. \A c : Has(r, c) <=> Has(new, c) \/ Has(base, c)
    BY <1>1, <1>4, <1>5, HasConcat
  <2> QED
    BY <1>4, <2>1, <2>2
<1>8. ASSUME NEW i \in DOMAIN r, ~PlainCall(r[i])
      PROVE  \E k \in DOMAIN todo :
               /\ todo[k] = r[i]
               /\ \A c : ~PlainCall(c) /\ Above(todo, k, c) => Above(r, i, c)
  <2>1. PICK j \in DOMAIN base : r[i] = base[j] /\ i = j + Len(new)
    BY <1>1, <1>6, <1>8 DEF Plain, Stacked
  <2>2. PICK k \in DOMAIN todo :
          /\ base[j] = todo[k]
          /\ \A c : ~PlainCall(c) /\ Above(todo, k, c) => Above(base, j, c)
    BY <1>4, <2>1
  <2>3. ASSUME NEW c, Above(base, j, c) PROVE Above(r, i, c)
    <3>1. PICK l \in DOMAIN base : l < j /\ base[l] = c
      BY <2>3 DEF Above
    <3>2. l + Len(new) \in DOMAIN r /\ r[l + Len(new)] = c /\ l + Len(new) < i
      BY <1>6, <2>1, <3>1 DEF Stacked
    <3> QED
      BY <3>2 DEF Above
  <2> QED
    BY <2>1, <2>2, <2>3
<1>9. todo = <<>> \/ (1 \in DOMAIN todo /\ PlainCall(todo[1]) /\ DOMAIN todo = 1..Len(todo) /\ Len(todo) \in Nat)
  BY <1>3, StackTail DEF Popped
<1>10. todo = <<>> => DOMAIN todo = {}
  OBVIOUS
<1>11. ~Enters(todo)
  <2>1. SUFFICES ASSUME Enters(todo) PROVE FALSE
    OBVIOUS
  <2>2. \A i \in DOMAIN todo : todo[i][1] = "AddWaitingThread"
    BY <2>1 DEF EnteringOK, Call
  <2>3. 1 \in DOMAIN todo /\ PlainCall(todo[1])
    BY <1>9, <1>10, <2>1 DEF Enters
  <2> QED
    BY <2>2, <2>3 DEF PlainCall
<1>12. \A i \in DOMAIN todo : todo[i][1] # "WakeUp"
  <2>1. SUFFICES ASSUME NEW i \in DOMAIN todo, todo[i][1] = "WakeUp" PROVE FALSE
    OBVIOUS
  <2>2. 1 \in DOMAIN todo /\ PlainCall(todo[1]) /\ i \in Nat /\ i >= 1
    BY <1>9, <1>10, <2>1
  <2>3. i # 1 /\ 1 < i
    BY <2>1, <2>2 DEF PlainCall, Ending
  <2>4. todo[1][1] = "Acquire"
    BY <2>1, <2>2, <2>3 DEF ToldOK
  <2> QED
    BY <2>2, <2>4 DEF PlainCall, Ending
<1>13. ~Enters(r) /\ \A i \in DOMAIN r : r[i][1] # "WakeUp"
  <2>1. \A i \in DOMAIN r : PlainCall(r[i]) \/ \E k \in DOMAIN todo : todo[k] = r[i]
    BY <1>8
  <2> QED
    BY <1>11, <1>12, <2>1 DEF Enters, PlainCall, Ending
<1>14. \A i \in DOMAIN r : ~PlainCall(r[i]) => \E k \in DOMAIN todo : todo[k] = r[i]
  BY <1>8
<1>15. \A t : \A i \in DOMAIN r : r[i] = Resumed(t) =>
              \E k \in DOMAIN todo :
                /\ todo[k] = Resumed(t)
                /\ \A o : Above(todo, k, Leave(t, o)) => Above(r, i, Leave(t, o))
  BY <1>2, <1>8
<1>16. /\ \A t, o : Has(todo, Leave(t, o)) <=> Has(r, Leave(t, o))
       /\ \A t : Has(todo, Resumed(t)) => Has(r, Resumed(t))
  BY <1>2, <1>7
<1> QED
  BY <1>5, <1>11, <1>13, <1>14, <1>15, <1>16

\* The types of the lists.
LEMMA ListTypes ==
  ASSUME IInv
  PROVE  /\ waiting_threads \in [Objects -> Seq(Threads)] /\ wait_objects \in [Threads -> Seq(Objects)]
         /\ status \in [Threads -> Statuses] /\ IsTodo(todo)
         /\ holding_thread \in [Mutexes -> Threads \cup {NoThread}]
         /\ \A t \in Threads : ToSet(wait_objects[t]) \subseteq Objects
<1>1. /\ waiting_threads \in [Objects -> Seq(Threads)] /\ wait_objects \in [Threads -> Seq(Objects)]
      /\ status \in [Threads -> Statuses] /\ IsTodo(todo)
      /\ holding_thread \in [Mutexes -> Threads \cup {NoThread}]
  BY DEF IInv, CallInv, ObjectTypes, LockTypes, QueueInv, QueueTypes
<1>2. ASSUME NEW t \in Threads PROVE ToSet(wait_objects[t]) \subseteq Objects
  <2>1. wait_objects[t] \in Seq(Objects)
    BY <1>1
  <2>2. \A i \in 1..Len(wait_objects[t]) : wait_objects[t][i] \in Objects
    BY <2>1, ElementOfSeq
  <2>3. \A x : x \in ToSet(wait_objects[t]) <=> \E i \in 1..Len(wait_objects[t]) : wait_objects[t][i] = x
    BY <2>1, ToSetMember
  <2> QED
    BY <2>2, <2>3
<1> QED
  BY <1>1, <1>2

\* A thread that wakes up or goes to sleep on something else is in no list.
Settles(t) ==
  /\ wait_objects[t] = <<>> /\ status'[t] \notin Synching \cup {"Dead"}
  /\ status[t] = "Dead" => todo = <<>>

\* Whatever becomes available has its waiters woken, and the waiters of an
\* object are no longer to be woken only when none of them is ready.
Offers ==
  /\ \A o \in Objects, t \in Threads :
       ~(ShouldWait(o, t)') => ~ShouldWait(o, t) \/ Wakes(todo', o)
  /\ \A o \in Objects :
       Wakes(todo, o) => \/ Wakes(todo', o)
                         \/ \A t \in Threads : Waiting(t, o) => ~ReadyFor(t, o)

\* Steps that leave the lists alone and make no call about them.
LEMMA PlainStep ==
  ASSUME IInv, IInv', WaitInv, Grows, UNCHANGED waitVars, Offers,
         \A t \in Threads : status'[t] = status[t] \/ Settles(t)
  PROVE  WaitInv'
<1>1. /\ waiting_threads' = waiting_threads /\ wait_objects' = wait_objects
      /\ pending_mutexes' = pending_mutexes
  BY DEF waitVars
<1>2. /\ ~Enters(todo) /\ ~Enters(todo') /\ \A i \in DOMAIN todo' : todo'[i][1] # "WakeUp"
      /\ \A t, o : Has(todo, Leave(t, o)) <=> Has(todo', Leave(t, o))
      /\ \A t : Has(todo, Resumed(t)) => Has(todo', Resumed(t))
  BY ListTypes, GrowsFacts DEF WaitInv
<1>3. \A i \in DOMAIN todo' : ~PlainCall(todo'[i]) => \E k \in DOMAIN todo : todo[k] = todo'[i]
  BY ListTypes, GrowsFacts DEF WaitInv
<1>4. \A t : \A i \in DOMAIN todo' : todo'[i] = Resumed(t) =>
        \E k \in DOMAIN todo :
          /\ todo[k] = Resumed(t)
          /\ \A o : Above(todo, k, Leave(t, o)) => Above(todo', i, Leave(t, o))
  BY ListTypes, GrowsFacts DEF WaitInv
<1>5. \A t, o : (Waiting(t, o)' <=> Waiting(t, o)) /\ (Leaves(t, o)' <=> Leaves(t, o))
  BY <1>1, <1>2 DEF Waiting, Leaves
<1>6. \A t \in Threads, o \in Objects : Waiting(t, o) => status'[t] = status[t]
  <2>1. SUFFICES ASSUME NEW t \in Threads, NEW o \in Objects, Waiting(t, o), Settles(t) PROVE FALSE
    OBVIOUS
  <2>2. ToSet(wait_objects[t]) = {}
    BY <2>1 DEF Settles, ToSet
  <2>3. status[t] = "Dead" /\ Leaves(t, o)
    BY <2>1, <2>2 DEF WaitInv, ListedOK
  <2>4. todo = <<>>
    BY <2>1, <2>3 DEF Settles
  <2> QED
    BY <2>3, <2>4 DEF Leaves, Has
<1>7. ListsOK'
  BY <1>1, <1>5 DEF WaitInv, ListsOK
<1>8. ListedOK'
  <2>1. ASSUME NEW t \in Threads, NEW o \in Objects, Waiting(t, o)
        PROVE  o \in ToSet(wait_objects[t]) \/ (status'[t] = "Dead" /\ Leaves(t, o)')
    BY <1>5, <1>6, <2>1 DEF WaitInv, ListedOK
  <2>2. ASSUME NEW t \in Threads, wait_objects[t] # <<>> PROVE status'[t] \in Synching
    BY <2>2 DEF WaitInv, ListedOK, Settles
  <2> QED
    BY <1>1, <1>5, <2>1, <2>2 DEF ListedOK
<1>9. LeavingOK'
  <2> SUFFICES ASSUME NEW t \in Threads, NEW o \in Objects, Waiting(t, o)
      PROVE  /\ \A i \in DOMAIN todo' : todo'[i][1] \in Ending /\ todo'[i][2] = t => Leaves(t, o)'
             /\ \A i \in DOMAIN todo' : todo'[i] = Resumed(t) => Above(todo', i, Leave(t, o))
    BY <1>5 DEF LeavingOK
  <2>1. /\ \A i \in DOMAIN todo : todo[i][1] \in Ending /\ todo[i][2] = t => Leaves(t, o)
        /\ \A i \in DOMAIN todo : todo[i] = Resumed(t) => Above(todo, i, Leave(t, o))
    BY DEF WaitInv, LeavingOK
  <2>2. \A i \in DOMAIN todo' : todo'[i][1] \in Ending /\ todo'[i][2] = t => Leaves(t, o)'
    BY <1>3, <1>5, <2>1 DEF PlainCall
  <2>3. \A i \in DOMAIN todo' : todo'[i] = Resumed(t) => Above(todo', i, Leave(t, o))
    BY <1>4, <2>1
  <2> QED
    BY <2>2, <2>3
<1>10. EnteringOK' /\ ToldOK'
  BY <1>2 DEF EnteringOK, ToldOK
<1>11. \A t \in Threads : \A o \in ToSet(wait_objects[t]) :
         /\ Waiting(t, o) \/ Has(todo, Resumed(t))
         /\ Leaves(t, o) => Has(todo, Resumed(t))
  BY <1>2 DEF WaitInv, EnteredOK, Enters, Has, Call
<1>12. EnteredOK'
  BY <1>1, <1>2, <1>5, <1>11 DEF EnteredOK
<1>a. ResumingOK'
  BY <1>3 DEF WaitInv, ResumingOK, PlainCall
<1>13. ASSUME NEW t \in Threads, NEW o \in Objects, Waiting(t, o), ReadyFor(t, o)', ~Leaves(t, o)
       PROVE  Found(t, o)'
  <2>1. status'[t] = status[t]
    BY <1>6, <1>13
  <2>2. /\ ~(ShouldWait(o, t)')
        /\ status[t] = "WaitSynchAll" => \A x \in ToSet(wait_objects[t]) : ~(ShouldWait(x, t)')
    BY <1>1, <1>13, <2>1, ListTypes, ReadyFactsNext
  <2>3. o \in ToSet(wait_objects[t]) /\ ToSet(wait_objects[t]) \subseteq Objects
    BY <1>13, ListTypes DEF WaitInv, ListedOK
  <2>4. CASE ReadyFor(t, o)
    <3>1. PICK x \in Objects : Wakes(todo, x) /\ Waiting(t, x) /\ (x = o \/ status[t] = "WaitSynchAll")
      BY <1>13, <2>4 DEF WaitInv, WokenOK, Found
    <3>2. ReadyFor(t, x)
      <4>1. CASE x = o
        BY <2>4, <4>1
      <4>2. CASE status[t] = "WaitSynchAll"
        <5>1. x \in ToSet(wait_objects[t])
          BY <3>1, <4>2 DEF WaitInv, ListedOK
        <5>2. \A y \in ToSet(wait_objects[t]) : ~ShouldWait(y, t)
          BY <2>4, <4>2, ListTypes, ReadyFacts
        <5> QED
          BY <5>1, <5>2, ListTypes, ReadyFacts
      <4> QED
        BY <3>1, <4>1, <4>2
    <3>3. Wakes(todo', x)
      BY <3>1, <3>2 DEF Offers
    <3> QED
      BY <1>5, <2>1, <3>1, <3>3 DEF Found
  <2>5. CASE ~ReadyFor(t, o)
    <3>1. PICK x \in Objects : /\ ShouldWait(x, t) /\ ~(ShouldWait(x, t)')
                               /\ x = o \/ (status[t] = "WaitSynchAll" /\ x \in ToSet(wait_objects[t]))
      BY <2>2, <2>3, <2>5, ListTypes, ReadyFacts
    <3>2. Wakes(todo', x)
      BY <3>1 DEF Offers
    <3>3. Waiting(t, x)
      <4>1. CASE x = o
        BY <1>13, <4>1
      <4>2. CASE x \in ToSet(wait_objects[t]) /\ Has(todo, Resumed(t))
        <5>1. PICK i \in DOMAIN todo : todo[i] = Resumed(t)
          BY <4>2 DEF Has
        <5>2. Above(todo, i, Leave(t, o))
          BY <1>13, <5>1 DEF WaitInv, LeavingOK
        <5> QED
          BY <1>13, <5>2 DEF Above, Leaves, Has
      <4> QED
        BY <1>11, <3>1, <4>1, <4>2
    <3> QED
      BY <1>5, <2>1, <3>1, <3>2, <3>3 DEF Found
  <2> QED
    BY <2>4, <2>5
<1>14. WokenOK'
  BY <1>5, <1>13 DEF WokenOK
<1> QED
  BY <1>7, <1>8, <1>9, <1>10, <1>a, <1>12, <1>14 DEF WaitInv

\* What a call that returns leaves on the stack.
LEMMA PopFacts ==
  ASSUME IsTodo(todo), todo # <<>>, Return(<<>>)
  PROVE  /\ todo' = Tail(todo) /\ Popped(todo', todo)
         /\ \A c : c # Head(todo) => (Has(todo, c) <=> Has(todo', c))
         /\ \A i \in DOMAIN todo' : /\ i + 1 \in DOMAIN todo /\ todo'[i] = todo[i + 1]
                                    /\ \A c : Above(todo, i + 1, c) => c = Head(todo) \/ Above(todo', i, c)
         /\ \A o : Wakes(todo, o) => Wakes(todo', o) \/ (Head(todo)[1] = "WakeupAllWaitingThreads" /\ Head(todo)[2] = o)
         /\ Head(todo) = todo[1] /\ 1 \in DOMAIN todo
<1>1. PICK A : todo \in Seq(A)
  BY DEF IsTodo
<1>2. Tail(todo) \in Seq(A)
  BY <1>1, HeadTailProperties
<1>3. todo' = Tail(todo)
  BY <1>2, ConcatEmptySeq DEF Return
<1>4. PICK r : r = todo'
  OBVIOUS
<1>5. Popped(r, todo)
  BY <1>3, <1>4, StackTail
<1>6. ASSUME NEW i \in DOMAIN r, NEW c, Above(todo, i + 1, c), c # Head(todo)
      PROVE  Above(r, i, c)
  <2>1. PICK j \in DOMAIN todo : j < i + 1 /\ todo[j] = c
    BY <1>6 DEF Above
  <2>2. j # 1 /\ j \in Nat /\ i \in Nat
    BY <1>5, <1>6, <2>1 DEF Popped
  <2>3. j - 1 \in DOMAIN r /\ r[j - 1] = c /\ j - 1 < i
    BY <1>5, <2>1, <2>2 DEF Popped
  <2> QED
    BY <2>3 DEF Above
<1>7. \A i \in DOMAIN r : i + 1 \in DOMAIN todo /\ r[i] = todo[i + 1]
  BY <1>5 DEF Popped
<1>8. \A c : c # Head(todo) => (Has(todo, c) <=> Has(r, c))
  BY <1>5 DEF Popped
<1>9. \A o : Wakes(todo, o) => Wakes(r, o) \/ (Head(todo)[1] = "WakeupAllWaitingThreads" /\ Head(todo)[2] = o)
  BY <1>5 DEF Popped
<1>10. Head(todo) = todo[1] /\ 1 \in DOMAIN todo
  BY <1>5 DEF Popped
<1> QED
  BY <1>3, <1>4, <1>5, <1>6, <1>7, <1>8, <1>9, <1>10

\* Nobody enters a list while another call is on top, and nobody is about to be
\* told while something else comes first.
LEMMA TopFacts ==
  ASSUME IsTodo(todo), todo # <<>>, EnteringOK, ToldOK
  PROVE  /\ Head(todo)[1] # "AddWaitingThread" => ~Enters(todo)
         /\ Head(todo)[1] \notin {"Acquire", "WakeUp"} =>
              \A i \in DOMAIN todo : todo[i][1] # "WakeUp"
<1>1. Popped(Tail(todo), todo)
  BY StackTail
<1>2. 1 \in DOMAIN todo /\ Head(todo) = todo[1] /\ DOMAIN todo = 1..Len(todo) /\ Len(todo) \in Nat
  BY <1>1 DEF Popped
<1>3. ASSUME Enters(todo) PROVE Head(todo)[1] = "AddWaitingThread"
  BY <1>2, <1>3 DEF EnteringOK, Call
<1>4. ASSUME NEW i \in DOMAIN todo, todo[i][1] = "WakeUp"
      PROVE  Head(todo)[1] \in {"Acquire", "WakeUp"}
  <2>1. i = 1 \/ 1 < i
    BY <1>2
  <2> QED
    BY <1>2, <1>4, <2>1 DEF ToldOK
<1> QED
  BY <1>3, <1>4

\* Nothing becomes available.
NothingFreed == \A o \in Objects, t \in Threads : ~(ShouldWait(o, t)') => ~ShouldWait(o, t)

\* The waiters that are ready after a step that frees nothing were ready before.
LEMMA NotMoreReady ==
  ASSUME IInv, NothingFreed, NEW t \in Threads, NEW o \in Objects, status'[t] = status[t],
         wait_objects'[t] = wait_objects[t], ReadyFor(t, o)'
  PROVE  ReadyFor(t, o)
<1>1. wait_objects[t] \in Seq(Objects) /\ ToSet(wait_objects[t]) \subseteq Objects
  BY ListTypes
<1>2. /\ ~(ShouldWait(o, t)')
      /\ status[t] = "WaitSynchAll" => \A x \in ToSet(wait_objects[t]) : ~(ShouldWait(x, t)')
  BY <1>1, ReadyFactsNext
<1>3. /\ ~ShouldWait(o, t)
      /\ status[t] = "WaitSynchAll" => \A x \in ToSet(wait_objects[t]) : ~ShouldWait(x, t)
  BY <1>1, <1>2 DEF NothingFreed
<1> QED
  BY <1>1, <1>3, ReadyFacts

\* An acquisition or a callback is over.
LEMMA GrantStep ==
  ASSUME IInv, WaitInv, todo # <<>>, Head(todo)[1] \in {"Acquire", "WakeUp"}, Return(<<>>),
         UNCHANGED <<waitVars, status>>, NothingFreed,
         \A m \in Mutexes, t \in Threads :
           holding_thread[m] = t \/ Head(todo) = Call("Acquire", t, m) => holding_thread'[m] = t
  PROVE  WaitInv'
<1>1. /\ waiting_threads' = waiting_threads /\ wait_objects' = wait_objects
      /\ pending_mutexes' = pending_mutexes /\ status' = status
  BY DEF waitVars
<1>2. IsTodo(todo)
  BY ListTypes
<1>3. /\ \A c : c # Head(todo) => (Has(todo, c) <=> Has(todo', c))
      /\ \A i \in DOMAIN todo' : i + 1 \in DOMAIN todo /\ todo'[i] = todo[i + 1]
      /\ \A i \in DOMAIN todo' : \A c : Above(todo, i + 1, c) => c = Head(todo) \/ Above(todo', i, c)
      /\ \A o : Wakes(todo, o) => Wakes(todo', o)
  BY <1>2, PopFacts
<1>4. ~Enters(todo) /\ ~Enters(todo')
  BY <1>2, <1>3, TopFacts DEF WaitInv, Enters
<1>5. \A t, o : Head(todo) # Leave(t, o) /\ Head(todo) # Resumed(t)
  BY DEF Leave, Resumed, Call
<1>6. \A t, o : (Waiting(t, o)' <=> Waiting(t, o)) /\ (Leaves(t, o)' <=> Leaves(t, o))
  BY <1>1, <1>3, <1>5 DEF Waiting, Leaves
<1>7. ListsOK' /\ ListedOK'
  BY <1>1, <1>6 DEF WaitInv, ListsOK, ListedOK
<1>8. LeavingOK'
  <2> SUFFICES ASSUME NEW t \in Threads, NEW o \in Objects, Waiting(t, o)
      PROVE  /\ \A i \in DOMAIN todo' : todo'[i][1] \in Ending /\ todo'[i][2] = t => Leaves(t, o)'
             /\ \A i \in DOMAIN todo' : todo'[i] = Resumed(t) => Above(todo', i, Leave(t, o))
    BY <1>6 DEF LeavingOK
  <2>1. /\ \A i \in DOMAIN todo : todo[i][1] \in Ending /\ todo[i][2] = t => Leaves(t, o)
        /\ \A i \in DOMAIN todo : todo[i] = Resumed(t) => Above(todo, i, Leave(t, o))
    BY DEF WaitInv, LeavingOK
  <2> QED
    BY <1>3, <1>5, <1>6, <2>1
<1>9. EnteringOK'
  BY <1>4 DEF EnteringOK
<1>10. EnteredOK'
  <2>1. \A t \in Threads : \A o \in ToSet(wait_objects[t]) :
          /\ Waiting(t, o) \/ Has(todo, Resumed(t))
          /\ Leaves(t, o) => Has(todo, Resumed(t))
    BY <1>4 DEF WaitInv, EnteredOK, Enters, Has, Call
  <2>2. \A t : Has(todo, Resumed(t)) => Has(todo', Resumed(t))
    BY <1>3, <1>5
  <2> QED
    BY <1>1, <1>6, <2>1, <2>2 DEF EnteredOK
<1>11. ResumingOK'
  BY <1>3 DEF WaitInv, ResumingOK
<1>12. ToldOK'
  <2> SUFFICES ASSUME NEW i \in DOMAIN todo', todo'[i][1] = "WakeUp"
      PROVE  /\ \A j \in DOMAIN todo' : j < i => todo'[j][1] = "Acquire" /\ todo'[j][2] = todo'[i][2]
             /\ \A t \in Threads, o \in Objects : todo'[i] = Call("WakeUp", t, o) =>
                  /\ o \in ToSet(wait_objects[t])
                  /\ \A m \in Granted(t, o) \cap Mutexes :
                       holding_thread'[m] = t \/ Above(todo', i, Call("Acquire", t, m))
    BY <1>1 DEF ToldOK, Granted
  <2>1. i + 1 \in DOMAIN todo /\ todo'[i] = todo[i + 1] /\ todo[i + 1][1] = "WakeUp"
    BY <1>3
  <2>2. /\ \A j \in DOMAIN todo : j < i + 1 => todo[j][1] = "Acquire" /\ todo[j][2] = todo[i + 1][2]
        /\ \A t \in Threads, o \in Objects : todo[i + 1] = Call("WakeUp", t, o) =>
             /\ o \in ToSet(wait_objects[t])
             /\ \A m \in Granted(t, o) \cap Mutexes :
                  holding_thread[m] = t \/ Above(todo, i + 1, Call("Acquire", t, m))
    BY <2>1 DEF WaitInv, ToldOK
  <2>3. ASSUME NEW j \in DOMAIN todo', j < i
        PROVE  todo'[j][1] = "Acquire" /\ todo'[j][2] = todo'[i][2]
    <3>1. j \in Nat /\ i \in Nat
      BY <1>2, PopFacts DEF Popped
    <3>2. j + 1 \in DOMAIN todo /\ j + 1 < i + 1 /\ todo'[j] = todo[j + 1]
      BY <1>3, <2>3, <3>1
    <3> QED
      BY <2>1, <2>2, <3>2
  <2>4. ASSUME NEW t \in Threads, NEW o \in Objects, todo'[i] = Call("WakeUp", t, o),
               NEW m \in Granted(t, o) \cap Mutexes
        PROVE  holding_thread'[m] = t \/ Above(todo', i, Call("Acquire", t, m))
    BY <1>3, <2>1, <2>2, <2>4
  <2> QED
    BY <2>1, <2>2, <2>3, <2>4
<1>13. WokenOK'
  <2> SUFFICES ASSUME NEW t \in Threads, NEW o \in Objects, Waiting(t, o), ReadyFor(t, o)'
      PROVE  Leaves(t, o)' \/ Found(t, o)'
    BY <1>6 DEF WokenOK
  <2>1. Leaves(t, o) \/ Found(t, o)
    BY <1>1, NotMoreReady DEF WaitInv, WokenOK
  <2>2. Found(t, o) => Found(t, o)'
    BY <1>1, <1>3, <1>6 DEF Found
  <2> QED
    BY <1>6, <2>1, <2>2
<1> QED
  BY <1>7, <1>8, <1>9, <1>10, <1>11, <1>12, <1>13 DEF WaitInv

\* A thread enters the list of an object.
LEMMA AddWaitingThreadWaits ==
  ASSUME IInv, WaitInv, NEW t \in Threads, NEW o \in Objects, AddWaitingThread(t, o)
  PROVE  WaitInv'
<1>1. /\ todo # <<>> /\ Head(todo) = Call("AddWaitingThread", t, o) /\ Return(<<>>)
      /\ waiting_threads' = [waiting_threads EXCEPT ![o] = IF Contains(@, t) THEN @ ELSE Append(@, t)]
      /\ pending_mutexes' = IF o \in Mutexes THEN [pending_mutexes EXCEPT ![t] = @ \cup {o}] ELSE pending_mutexes
      /\ wait_objects' = wait_objects /\ status' = status /\ UNCHANGED <<lockVars, signalVars>>
  BY DEF AddWaitingThread, Calling
<1>2. /\ IsTodo(todo) /\ waiting_threads \in [Objects -> Seq(Threads)]
      /\ pending_mutexes \in [Threads -> SUBSET Mutexes]
  BY ListTypes DEF IInv, CallInv, ObjectTypes
<1>3. /\ \A c : c # Head(todo) => (Has(todo, c) <=> Has(todo', c))
      /\ \A i \in DOMAIN todo' : i + 1 \in DOMAIN todo /\ todo'[i] = todo[i + 1]
      /\ Head(todo) = todo[1] /\ 1 \in DOMAIN todo
  BY <1>1, <1>2, PopFacts
<1>4. /\ \A i \in DOMAIN todo :
           \E x \in ToSet(wait_objects[t]) : todo[i] = Call("AddWaitingThread", t, x)
      /\ \A x \in ToSet(wait_objects[t]) : ~ReadyFor(t, x)
      /\ o \in ToSet(wait_objects[t])
  <2>1. Enters(todo)
    BY <1>1, <1>3 DEF Enters, Call
  <2>2. PICK u \in Threads :
          /\ \A i \in DOMAIN todo :
               \E x \in ToSet(wait_objects[u]) : todo[i] = Call("AddWaitingThread", u, x)
          /\ \A x \in ToSet(wait_objects[u]) : ~ReadyFor(u, x)
    BY <2>1 DEF WaitInv, EnteringOK
  <2>3. PICK x \in ToSet(wait_objects[u]) :
          Call("AddWaitingThread", t, o) = Call("AddWaitingThread", u, x)
    BY <1>1, <1>3, <2>2
  <2>4. t = u /\ o = x
    BY <2>3 DEF Call
  <2> QED
    BY <2>2, <2>4
<1>5. \A i \in DOMAIN todo : todo[i][1] = "AddWaitingThread"
  BY <1>4 DEF Call
<1>6. \A i \in DOMAIN todo' : todo'[i][1] = "AddWaitingThread"
  BY <1>3, <1>5
<1>7. \A u, x : (ShouldWait(x, u)' <=> ShouldWait(x, u)) /\ (ReadyFor(u, x)' <=> ReadyFor(u, x))
  BY <1>1 DEF ShouldWait, ReadyFor, lockVars, signalVars
<1>8. ToSet(waiting_threads'[o]) = ToSet(waiting_threads[o]) \cup {t} /\ NoDuplicates(waiting_threads'[o])
  <2>1. waiting_threads[o] \in Seq(Threads) /\ NoDuplicates(waiting_threads[o])
    BY <1>2 DEF WaitInv, ListsOK
  <2>2. Contains(waiting_threads[o], t) <=> t \in ToSet(waiting_threads[o])
    BY <2>1, ToSetMember DEF Contains
  <2>3. waiting_threads'[o] = IF Contains(waiting_threads[o], t) THEN waiting_threads[o]
                              ELSE Append(waiting_threads[o], t)
    BY <1>1, <1>2
  <2> QED
    BY <2>1, <2>2, <2>3, AppendFacts
<1>9. \A x \in Objects : x # o => waiting_threads'[x] = waiting_threads[x]
  BY <1>1, <1>2
<1>10. \A u \in Threads, x \in Objects : Waiting(u, x)' <=> Waiting(u, x) \/ (u = t /\ x = o)
  BY <1>8, <1>9 DEF Waiting
<1>11. \A u, x : ~Leaves(u, x) /\ ~Has(todo, Resumed(u)) /\ ~Wakes(todo, x)
                 /\ ~(Leaves(u, x)') /\ ~Has(todo', Resumed(u))
  BY <1>5, <1>6 DEF Leaves, Has, Wakes, Leave, Resumed, Call
<1>12. ListsOK'
  <2>1. \A x \in Objects : NoDuplicates(waiting_threads'[x])
    BY <1>8, <1>9 DEF WaitInv, ListsOK
  <2>2. ASSUME NEW m \in Mutexes, NEW u \in Threads
        PROVE  m \in pending_mutexes'[u] <=> Waiting(u, m)'
    <3>1. m \in Objects /\ (m \in pending_mutexes[u] <=> Waiting(u, m))
      BY DEF Objects, WaitInv, ListsOK
    <3>2. m \in pending_mutexes'[u] <=> m \in pending_mutexes[u] \/ (u = t /\ m = o)
      BY <1>1, <1>2
    <3> QED
      BY <1>10, <3>1, <3>2
  <2> QED
    BY <2>1, <2>2 DEF ListsOK
<1>13. ListedOK'
  BY <1>1, <1>4, <1>10, <1>11 DEF WaitInv, ListedOK
<1>14. LeavingOK' /\ ToldOK' /\ ResumingOK'
  BY <1>6 DEF LeavingOK, ToldOK, ResumingOK, Ending, Resumed, Clears, Call
<1>15. EnteringOK'
  <2>1. \A i \in DOMAIN todo' :
          \E x \in ToSet(wait_objects'[t]) : todo'[i] = Call("AddWaitingThread", t, x)
    BY <1>1, <1>3, <1>4
  <2>2. \A x \in ToSet(wait_objects'[t]) : ~(ReadyFor(t, x)')
    BY <1>1, <1>4, <1>7
  <2> QED
    BY <2>1, <2>2 DEF EnteringOK
<1>16. EnteredOK'
  <2> SUFFICES ASSUME NEW u \in Threads, NEW x \in ToSet(wait_objects[u])
      PROVE  Waiting(u, x)' \/ Has(todo', Call("AddWaitingThread", u, x))
    BY <1>1, <1>11 DEF EnteredOK
  <2>1. x \in Objects
    BY ListTypes
  <2>2. Waiting(u, x) \/ Has(todo, Call("AddWaitingThread", u, x))
    BY <1>11 DEF WaitInv, EnteredOK
  <2>3. Call("AddWaitingThread", u, x) = Head(todo) => u = t /\ x = o
    BY <1>1 DEF Call
  <2> QED
    BY <1>3, <1>10, <2>1, <2>2, <2>3
<1>17. WokenOK'
  <2> SUFFICES ASSUME NEW u \in Threads, NEW x \in Objects, Waiting(u, x)', ReadyFor(u, x)'
      PROVE  FALSE
    BY DEF WokenOK
  <2>1. ReadyFor(u, x)
    BY <1>7
  <2>2. Waiting(u, x)
    BY <1>4, <1>10, <2>1
  <2> QED
    BY <1>11, <2>1, <2>2 DEF WaitInv, WokenOK, Found
<1> QED
  BY <1>12, <1>13, <1>14, <1>15, <1>16, <1>17 DEF WaitInv

\* A thread leaves the list of an object.
LEMMA RemoveWaitingThreadWaits ==
  ASSUME IInv, WaitInv, NEW t \in Threads, NEW o \in Objects, RemoveWaitingThread(t, o)
  PROVE  WaitInv'
<1>1. /\ todo # <<>> /\ Head(todo) = Leave(t, o) /\ Return(<<>>)
      /\ waiting_threads' = [waiting_threads EXCEPT ![o] = Without(@, t)]
      /\ pending_mutexes' = IF o \in Mutexes THEN [pending_mutexes EXCEPT ![t] = @ \ {o}] ELSE pending_mutexes
      /\ wait_objects' = wait_objects /\ status' = status /\ UNCHANGED <<lockVars, signalVars>>
  BY DEF RemoveWaitingThread, Calling, Leave
<1>2. /\ IsTodo(todo) /\ waiting_threads \in [Objects -> Seq(Threads)]
      /\ pending_mutexes \in [Threads -> SUBSET Mutexes]
  BY ListTypes DEF IInv, CallInv, ObjectTypes
<1>3. /\ \A c : c # Head(todo) => (Has(todo, c) <=> Has(todo', c))
      /\ \A i \in DOMAIN todo' : i + 1 \in DOMAIN todo /\ todo'[i] = todo[i + 1]
      /\ \A i \in DOMAIN todo' : \A c : Above(todo, i + 1, c) => c = Head(todo) \/ Above(todo', i, c)
      /\ Head(todo) = todo[1] /\ 1 \in DOMAIN todo
  BY <1>1, <1>2, PopFacts
<1>a. \A x : Wakes(todo, x) => Wakes(todo', x)
  BY <1>1, <1>2, PopFacts DEF Leave, Call
<1>4. ~Enters(todo) /\ ~Enters(todo') /\ \A i \in DOMAIN todo' : todo'[i][1] # "WakeUp"
  <2>1. Head(todo)[1] \notin {"AddWaitingThread", "Acquire", "WakeUp"}
    BY <1>1 DEF Leave, Call
  <2>2. ~Enters(todo) /\ \A i \in DOMAIN todo : todo[i][1] # "WakeUp"
    BY <1>1, <1>2, <2>1, TopFacts DEF WaitInv
  <2> QED
    BY <1>3, <2>2 DEF Enters
<1>5. \A u, x : /\ Leave(u, x) = Head(todo) => u = t /\ x = o
                /\ Resumed(u) # Head(todo)
  BY <1>1 DEF Leave, Resumed, Call
<1>6. \A u, x : (Leaves(u, x)' => Leaves(u, x)) /\ (Leaves(u, x) => Leaves(u, x)' \/ (u = t /\ x = o))
  <2>1. Popped(todo', todo)
    BY <1>1, <1>2, PopFacts
  <2>2. \A c : Has(todo, c) <=> c = Head(todo) \/ Has(todo', c)
    BY <2>1 DEF Popped
  <2> QED
    BY <1>5, <2>2 DEF Leaves
<1>7. \A u, x : (ShouldWait(x, u)' <=> ShouldWait(x, u)) /\ (ReadyFor(u, x)' <=> ReadyFor(u, x))
  BY <1>1 DEF ShouldWait, ReadyFor, lockVars, signalVars
<1>8. ToSet(waiting_threads'[o]) = ToSet(waiting_threads[o]) \ {t} /\ NoDuplicates(waiting_threads'[o])
  <2>1. waiting_threads[o] \in Seq(Threads) /\ NoDuplicates(waiting_threads[o])
    BY <1>2 DEF WaitInv, ListsOK
  <2>2. waiting_threads'[o] = Without(waiting_threads[o], t)
    BY <1>1, <1>2
  <2> QED
    BY <2>1, <2>2, WithoutFacts
<1>9. \A x \in Objects : x # o => waiting_threads'[x] = waiting_threads[x]
  BY <1>1, <1>2
<1>10. \A u \in Threads, x \in Objects : Waiting(u, x)' <=> Waiting(u, x) /\ ~(u = t /\ x = o)
  BY <1>8, <1>9 DEF Waiting
<1>12. ListsOK'
  <2>1. \A x \in Objects : NoDuplicates(waiting_threads'[x])
    BY <1>8, <1>9 DEF WaitInv, ListsOK
  <2>2. ASSUME NEW m \in Mutexes, NEW u \in Threads
        PROVE  m \in pending_mutexes'[u] <=> Waiting(u, m)'
    <3>1. m \in Objects /\ (m \in pending_mutexes[u] <=> Waiting(u, m))
      BY DEF Objects, WaitInv, ListsOK
    <3>2. m \in pending_mutexes'[u] <=> m \in pending_mutexes[u] /\ ~(u = t /\ m = o)
      BY <1>1, <1>2
    <3> QED
      BY <1>10, <3>1, <3>2
  <2> QED
    BY <2>1, <2>2 DEF ListsOK
<1>13. ListedOK'
  BY <1>1, <1>6, <1>10 DEF WaitInv, ListedOK
<1>14. LeavingOK'
  <2> SUFFICES ASSUME NEW u \in Threads, NEW x \in Objects, Waiting(u, x), ~(u = t /\ x = o)
      PROVE  /\ \A i \in DOMAIN todo' : todo'[i][1] \in Ending /\ todo'[i][2] = u => Leaves(u, x)'
             /\ \A i \in DOMAIN todo' : todo'[i] = Resumed(u) => Above(todo', i, Leave(u, x))
    BY <1>10 DEF LeavingOK
  <2>1. /\ \A i \in DOMAIN todo : todo[i][1] \in Ending /\ todo[i][2] = u => Leaves(u, x)
        /\ \A i \in DOMAIN todo : todo[i] = Resumed(u) => Above(todo, i, Leave(u, x))
    BY DEF WaitInv, LeavingOK
  <2> QED
    BY <1>3, <1>5, <1>6, <2>1
<1>15. EnteringOK' /\ ToldOK'
  BY <1>4 DEF EnteringOK, ToldOK
<1>16. EnteredOK'
  <2> SUFFICES ASSUME NEW u \in Threads, NEW x \in ToSet(wait_objects[u])
      PROVE  /\ Waiting(u, x)' \/ Has(todo', Resumed(u))
             /\ Leaves(u, x)' => Has(todo', Resumed(u))
    BY <1>1 DEF EnteredOK
  <2>1. x \in Objects
    BY ListTypes
  <2>2. /\ Waiting(u, x) \/ Has(todo, Resumed(u))
        /\ Leaves(u, x) => Has(todo, Resumed(u))
    BY <1>4 DEF WaitInv, EnteredOK, Enters, Has, Call
  <2>3. Leaves(t, o)
    BY <1>1, <1>3 DEF Leaves, Has
  <2>4. Has(todo, Resumed(u)) => Has(todo', Resumed(u))
    BY <1>3, <1>5
  <2> QED
    BY <1>6, <1>10, <2>1, <2>2, <2>3, <2>4
<1>17. ResumingOK'
  BY <1>3 DEF WaitInv, ResumingOK
<1>18. WokenOK'
  <2> SUFFICES ASSUME NEW u \in Threads, NEW x \in Objects, Waiting(u, x), ~(u = t /\ x = o),
                      ReadyFor(u, x)
      PROVE  Leaves(u, x)' \/ Found(u, x)'
    BY <1>7, <1>10 DEF WokenOK
  <2>1. CASE Leaves(u, x)
    BY <1>6, <2>1
  <2>2. CASE Found(u, x) /\ u # t
    BY <1>1, <1>a, <1>10, <2>2 DEF Found
  <2>3. CASE u = t
    <3>1. todo[1][1] \in Ending /\ todo[1][2] = t
      BY <1>1, <1>3 DEF Leave, Call, Ending
    <3>2. Leaves(u, x)
      BY <1>3, <2>3, <3>1 DEF WaitInv, LeavingOK
    <3> QED
      BY <1>6, <3>2
  <2> QED
    BY <2>1, <2>2, <2>3 DEF WaitInv, WokenOK
<1> QED
  BY <1>12, <1>13, <1>14, <1>15, <1>16, <1>17, <1>18 DEF WaitInv

\* What comes before a call of two stacks, one above the other.
LEMMA AboveConcat ==
  ASSUME NEW a, NEW b, IsTodo(a), IsTodo(b), NEW r, r = a \o b, NEW c
  PROVE  /\ \A i \in DOMAIN a : Above(a, i, c) => Above(r, i, c)
         /\ \A k \in DOMAIN b : Above(b, k, c) \/ Has(a, c) => Above(r, k + Len(a), c)
<1>1. Stacked(r, a, b)
  BY StackConcat
<1>2. ASSUME NEW i \in DOMAIN a, Above(a, i, c) PROVE Above(r, i, c)
  <2>1. PICK j \in DOMAIN a : j < i /\ a[j] = c
    BY <1>2 DEF Above
  <2>2. j \in DOMAIN r /\ r[j] = c
    BY <1>1, <2>1 DEF Stacked
  <2> QED
    BY <2>1, <2>2 DEF Above
<1>3. ASSUME NEW k \in DOMAIN b, Above(b, k, c) PROVE Above(r, k + Len(a), c)
  <2>1. PICK j \in DOMAIN b : j < k /\ b[j] = c
    BY <1>3 DEF Above
  <2>2. j + Len(a) \in DOMAIN r /\ r[j + Len(a)] = c /\ j + Len(a) < k + Len(a)
    BY <1>1, <2>1 DEF Stacked
  <2> QED
    BY <2>2 DEF Above
<1>4. ASSUME NEW k \in DOMAIN b, Has(a, c) PROVE Above(r, k + Len(a), c)
  <2>1. PICK j \in DOMAIN a : a[j] = c
    BY <1>4 DEF Has
  <2>2. j \in DOMAIN r /\ r[j] = c /\ j < k + Len(a)
    BY <1>1, <2>1 DEF Stacked
  <2> QED
    BY <2>2 DEF Above
<1> QED
  BY <1>2, <1>3, <1>4

\* A thread is resumed whose wait has ended.
LEMMA ResumeFromWaitWaits ==
  ASSUME IInv, WaitInv, panic' = "none", NEW t \in Threads, ResumeFromWait(t),
         Head(todo)[3] = "clear"
  PROVE  WaitInv'
<1>1. /\ todo # <<>> /\ Head(todo)[1] = "ResumeFromWait" /\ Head(todo)[2] = t /\ Return(<<>>)
      /\ wait_objects' = [wait_objects EXCEPT ![t] = <<>>]
      /\ UNCHANGED <<lockVars, signalVars, pending_mutexes, waiting_threads>>
      /\ status' = status \/ status' = [status EXCEPT ![t] = "Ready"]
  BY DEF ResumeFromWait, Calling
<1>2. status[t] # "Dead"
  BY DEF ResumeFromWait, Calling
<1>3. /\ IsTodo(todo) /\ status \in [Threads -> Statuses] /\ wait_objects \in [Threads -> Seq(Objects)]
  BY ListTypes
<1>4. /\ \A c : c # Head(todo) => (Has(todo, c) <=> Has(todo', c))
      /\ \A i \in DOMAIN todo' : i + 1 \in DOMAIN todo /\ todo'[i] = todo[i + 1]
      /\ \A i \in DOMAIN todo' : \A c : Above(todo, i + 1, c) => c = Head(todo) \/ Above(todo', i, c)
      /\ \A x : Wakes(todo, x) => Wakes(todo', x)
      /\ Head(todo) = todo[1] /\ 1 \in DOMAIN todo
  BY <1>1, <1>3, PopFacts
<1>5. Head(todo) = Resumed(t)
  <2>1. PICK u \in Threads : todo[1] = Resumed(u)
    BY <1>1, <1>4 DEF WaitInv, ResumingOK, Clears
  <2> QED
    BY <1>1, <1>4, <2>1 DEF Resumed, Call
<1>6. \A o \in Objects : ~Waiting(t, o)
  <2> SUFFICES ASSUME NEW o \in Objects, Waiting(t, o) PROVE FALSE
    OBVIOUS
  <2>1. Above(todo, 1, Leave(t, o))
    BY <1>4, <1>5 DEF WaitInv, LeavingOK
  <2>2. DOMAIN todo = 1..Len(todo) /\ Len(todo) \in Nat
    BY <1>3, LenProperties DEF IsTodo
  <2> QED
    BY <2>1, <2>2 DEF Above
<1>7. ~Enters(todo) /\ ~Enters(todo') /\ \A i \in DOMAIN todo' : todo'[i][1] # "WakeUp"
  <2>1. ~Enters(todo) /\ \A i \in DOMAIN todo : todo[i][1] # "WakeUp"
    BY <1>1, <1>3, TopFacts DEF WaitInv
  <2> QED
    BY <1>4, <2>1 DEF Enters
<1>8. \A u, x : Head(todo) # Leave(u, x)
  BY <1>1 DEF Leave, Call
<1>9. \A u, x : (Waiting(u, x)' <=> Waiting(u, x)) /\ (Leaves(u, x)' <=> Leaves(u, x))
  BY <1>1, <1>4, <1>8 DEF Waiting, Leaves
<1>10. \A u \in Threads : u # t => status'[u] = status[u] /\ wait_objects'[u] = wait_objects[u]
  BY <1>1, <1>3
<1>11. wait_objects'[t] = <<>> /\ ToSet(wait_objects'[t]) = {}
  BY <1>1, <1>3 DEF ToSet
<1>12. NothingFreed
  <2>1. \A u \in Threads : status'[u] = "Dead" => status[u] = "Dead"
    BY <1>1, <1>3
  <2> QED
    BY <1>1, <2>1 DEF NothingFreed, ShouldWait, lockVars, signalVars
<1>13. ListsOK'
  BY <1>1, <1>9 DEF WaitInv, ListsOK
<1>14. ListedOK'
  <2>1. ASSUME NEW u \in Threads, NEW x \in Objects, Waiting(u, x)
        PROVE  x \in ToSet(wait_objects'[u]) \/ (status'[u] = "Dead" /\ Leaves(u, x)')
    BY <1>6, <1>9, <1>10, <2>1 DEF WaitInv, ListedOK
  <2>2. ASSUME NEW u \in Threads, wait_objects'[u] # <<>> PROVE status'[u] \in Synching
    BY <1>10, <1>11, <2>2 DEF WaitInv, ListedOK
  <2> QED
    BY <1>9, <2>1, <2>2 DEF ListedOK
<1>15. LeavingOK'
  <2> SUFFICES ASSUME NEW u \in Threads, NEW x \in Objects, Waiting(u, x)
      PROVE  /\ \A i \in DOMAIN todo' : todo'[i][1] \in Ending /\ todo'[i][2] = u => Leaves(u, x)'
             /\ \A i \in DOMAIN todo' : todo'[i] = Resumed(u) => Above(todo', i, Leave(u, x))
    BY <1>9 DEF LeavingOK
  <2>1. /\ \A i \in DOMAIN todo : todo[i][1] \in Ending /\ todo[i][2] = u => Leaves(u, x)
        /\ \A i \in DOMAIN todo : todo[i] = Resumed(u) => Above(todo, i, Leave(u, x))
    BY DEF WaitInv, LeavingOK
  <2> QED
    BY <1>4, <1>8, <1>9, <2>1
<1>16. EnteringOK' /\ ToldOK'
  BY <1>7 DEF EnteringOK, ToldOK
<1>17. EnteredOK'
  <2> SUFFICES ASSUME NEW u \in Threads, NEW x \in ToSet(wait_objects'[u])
      PROVE  /\ Waiting(u, x) \/ Has(todo', Resumed(u))
             /\ Leaves(u, x) => Has(todo', Resumed(u))
    BY <1>9 DEF EnteredOK
  <2>1. u # t /\ x \in ToSet(wait_objects[u])
    BY <1>10, <1>11
  <2>2. /\ Waiting(u, x) \/ Has(todo, Resumed(u))
        /\ Leaves(u, x) => Has(todo, Resumed(u))
    BY <1>7, <2>1 DEF WaitInv, EnteredOK, Enters, Has, Call
  <2>3. Resumed(u) # Head(todo)
    BY <1>5, <2>1 DEF Resumed, Call
  <2> QED
    BY <1>4, <2>2, <2>3
<1>18. ResumingOK'
  BY <1>4 DEF WaitInv, ResumingOK
<1>19. WokenOK'
  <2> SUFFICES ASSUME NEW u \in Threads, NEW x \in Objects, Waiting(u, x), ReadyFor(u, x)'
      PROVE  Leaves(u, x)' \/ Found(u, x)'
    BY <1>9 DEF WokenOK
  <2>1. status'[u] = status[u] /\ wait_objects'[u] = wait_objects[u]
    BY <1>6, <1>10
  <2>2. Leaves(u, x) \/ Found(u, x)
    BY <1>12, <2>1, NotMoreReady DEF WaitInv, WokenOK
  <2>3. Found(u, x) => Found(u, x)'
    BY <1>4, <1>9, <2>1 DEF Found
  <2> QED
    BY <1>9, <2>2, <2>3
<1> QED
  BY <1>13, <1>14, <1>15, <1>16, <1>17, <1>18, <1>19 DEF WaitInv

\* One call for each of a list of objects.
LEMMA ForEachFacts ==
  ASSUME NEW op \in OpCalls, NEW t, NEW objects \in Seq(Objects), NEW calls,
         calls = ForEach(op, t, objects)
  PROVE  /\ IsTodo(calls)
         /\ \A i \in DOMAIN calls : \E o \in ToSet(objects) : calls[i] = Call(op, t, o)
         /\ \A i \in DOMAIN calls : calls[i][1] = op /\ calls[i][2] = t
         /\ \A o \in ToSet(objects) : Has(calls, Call(op, t, o))
<1>1. IsTodo(calls)
  BY TodoForEach
<1>2. DOMAIN calls = DOMAIN objects /\ \A i \in DOMAIN objects : calls[i] = Call(op, t, objects[i])
  BY DEF ForEach
<1>3. ToSet(objects) = {objects[i] : i \in DOMAIN objects}
  BY DEF ToSet
<1>4. \A i \in DOMAIN calls : \E o \in ToSet(objects) : calls[i] = Call(op, t, o)
  BY <1>2, <1>3
<1>5. \A i \in DOMAIN calls : calls[i][1] = op /\ calls[i][2] = t
  BY <1>4 DEF Call
<1>6. \A o \in ToSet(objects) : Has(calls, Call(op, t, o))
  BY <1>2, <1>3 DEF Has
<1> QED
  BY <1>1, <1>4, <1>5, <1>6

\* A single call.
LEMMA OneFacts ==
  ASSUME NEW op \in OpCalls, NEW x, NEW y, NEW calls, calls = <<Call(op, x, y)>>
  PROVE  /\ IsTodo(calls) /\ DOMAIN calls = {1} /\ calls[1] = Call(op, x, y)
         /\ calls[1][1] = op /\ calls[1][2] = x /\ calls[1][3] = y
         /\ Len(calls) = 1
BY TodoOne DEF Call

\* A call of two stacks, one above the other, is one of theirs.
LEMMA FromConcat ==
  ASSUME NEW a, NEW b, IsTodo(a), IsTodo(b), NEW r, r = a \o b
  PROVE  \A i \in DOMAIN r : \/ i \in DOMAIN a /\ r[i] = a[i]
                             \/ \E k \in DOMAIN b : r[i] = b[k] /\ i = k + Len(a)
<1>1. Stacked(r, a, b)
  BY StackConcat
<1> QED
  BY <1>1 DEF Stacked

\* The calls that Thread::Stop makes.
StopCalls(t) ==
  <<Call("WakeupAllWaitingThreads", t, "Stop")>>
    \o ForEach("RemoveWaitingThread", t, wait_objects[t])
    \o <<Call("ReleaseThreadMutexes", t, "Stop")>>

\* What is among them.
LEMMA StopCallsFacts ==
  ASSUME IInv, NEW t \in Threads, NEW new, new = StopCalls(t)
  PROVE  /\ IsTodo(new) /\ Wakes(new, t)
         /\ \A i \in DOMAIN new : \/ new[i][1] \in {"WakeupAllWaitingThreads", "ReleaseThreadMutexes"}
                                  \/ \E o \in ToSet(wait_objects[t]) : new[i] = Leave(t, o)
         /\ \A o \in ToSet(wait_objects[t]) : Has(new, Leave(t, o))
<1>1. wait_objects[t] \in Seq(Objects)
  BY ListTypes
<1>2. PICK a, b, c : /\ a = <<Call("WakeupAllWaitingThreads", t, "Stop")>>
                     /\ b = ForEach("RemoveWaitingThread", t, wait_objects[t])
                     /\ c = <<Call("ReleaseThreadMutexes", t, "Stop")>>
  OBVIOUS
<1>3. /\ "WakeupAllWaitingThreads" \in OpCalls /\ "RemoveWaitingThread" \in OpCalls
      /\ "ReleaseThreadMutexes" \in OpCalls
  BY DEF OpCalls
<1>4. IsTodo(a) /\ DOMAIN a = {1} /\ a[1][1] = "WakeupAllWaitingThreads" /\ a[1][2] = t
  BY <1>2, <1>3, OneFacts
<1>5. /\ IsTodo(b)
      /\ \A i \in DOMAIN b : \E o \in ToSet(wait_objects[t]) : b[i] = Leave(t, o)
      /\ \A o \in ToSet(wait_objects[t]) : Has(b, Leave(t, o))
  BY <1>1, <1>2, <1>3, ForEachFacts DEF Leave
<1>6. IsTodo(c) /\ DOMAIN c = {1} /\ c[1][1] = "ReleaseThreadMutexes"
  BY <1>2, <1>3, OneFacts
<1>7. PICK d : d = a \o b
  OBVIOUS
<1>8. IsTodo(d)
  BY <1>4, <1>5, <1>7, TodoConcat
<1>9. new = d \o c
  BY <1>2, <1>7 DEF StopCalls
<1>10. IsTodo(new)
  BY <1>6, <1>8, <1>9, TodoConcat
<1>11. /\ \A x : Has(d, x) <=> Has(a, x) \/ Has(b, x)
       /\ \A x : Wakes(d, x) <=> Wakes(a, x) \/ Wakes(b, x)
  BY <1>4, <1>5, <1>7, HasConcat
<1>12. /\ \A x : Has(new, x) <=> Has(d, x) \/ Has(c, x)
       /\ \A x : Wakes(new, x) <=> Wakes(d, x) \/ Wakes(c, x)
  BY <1>6, <1>8, <1>9, HasConcat
<1>13. Wakes(new, t)
  BY <1>4, <1>11, <1>12 DEF Wakes
<1>14. \A o \in ToSet(wait_objects[t]) : Has(new, Leave(t, o))
  BY <1>5, <1>11, <1>12
<1>15. \A i \in DOMAIN d : \/ d[i][1] = "WakeupAllWaitingThreads"
                           \/ \E o \in ToSet(wait_objects[t]) : d[i] = Leave(t, o)
  <2>0. Stacked(d, a, b)
    BY <1>4, <1>5, <1>7, StackConcat
  <2>1. \A i \in DOMAIN d : (i \in DOMAIN a /\ d[i] = a[i]) \/ \E k \in DOMAIN b : d[i] = b[k] /\ i = k + Len(a)
    BY <2>0 DEF Stacked
  <2> QED
    BY <1>4, <1>5, <2>1
<1>16. \A i \in DOMAIN new : \/ new[i][1] \in {"WakeupAllWaitingThreads", "ReleaseThreadMutexes"}
                             \/ \E o \in ToSet(wait_objects[t]) : new[i] = Leave(t, o)
  <2>0. Stacked(new, d, c)
    BY <1>6, <1>8, <1>9, StackConcat
  <2>1. \A i \in DOMAIN new :
          (i \in DOMAIN d /\ new[i] = d[i]) \/ \E k \in DOMAIN c : new[i] = c[k] /\ i = k + Len(d)
    BY <2>0 DEF Stacked
  <2> QED
    BY <1>6, <1>15, <2>1
<1> QED
  BY <1>10, <1>13, <1>14, <1>16

\* A thread is stopped.
LEMMA StopWaits ==
  ASSUME IInv, IInv', WaitInv, NEW t \in Threads, Stop(t)
  PROVE  WaitInv'
<1>1. /\ todo # <<>> /\ Head(todo)[1] = "Stop" /\ Return(StopCalls(t))
      /\ wait_objects' = [wait_objects EXCEPT ![t] = <<>>]
      /\ UNCHANGED <<lockVars, signalVars, pending_mutexes, waiting_threads>>
      /\ status' = [status EXCEPT ![t] = "Dead"]
  BY DEF Stop, Calling, StopCalls
<1>2. /\ IsTodo(todo) /\ status \in [Threads -> Statuses] /\ wait_objects \in [Threads -> Seq(Objects)]
  BY ListTypes
<1>3. PICK new, base : new = StopCalls(t) /\ base = Tail(todo)
  OBVIOUS
<1>4. /\ IsTodo(new) /\ Wakes(new, t)
      /\ \A i \in DOMAIN new : \/ new[i][1] \in {"WakeupAllWaitingThreads", "ReleaseThreadMutexes"}
                               \/ \E o \in ToSet(wait_objects[t]) : new[i] = Leave(t, o)
      /\ \A o \in ToSet(wait_objects[t]) : Has(new, Leave(t, o))
  BY <1>3, StopCallsFacts
<1>a. Popped(base, todo)
  BY <1>1, <1>2, <1>3, StackTail
<1>5. Popped(base, todo) /\ IsTodo(base)
  BY <1>a DEF Popped
<1>6. todo' = new \o base
  BY <1>1, <1>3 DEF Return
<1>7. \A u, x : Head(todo) # Leave(u, x) /\ Head(todo) # Resumed(u)
  BY <1>1 DEF Leave, Resumed, Call
<1>8. /\ \A u, x : Has(base, Leave(u, x)) <=> Has(todo, Leave(u, x))
      /\ \A u : Has(base, Resumed(u)) <=> Has(todo, Resumed(u))
      /\ \A x : Wakes(todo, x) => Wakes(base, x)
  BY <1>1, <1>5, <1>7, ZenonT(40) DEF Popped
<1>9. /\ \A c : Has(todo', c) <=> Has(new, c) \/ Has(base, c)
      /\ \A x : Wakes(todo', x) <=> Wakes(new, x) \/ Wakes(base, x)
  BY <1>4, <1>5, <1>6, HasConcat
<1>10. /\ \A u, x : Has(new, Leave(u, x)) => u = t /\ x \in ToSet(wait_objects[t])
       /\ \A i \in DOMAIN new : ~Clears(new[i]) /\ new[i][1] \notin {"AddWaitingThread", "WakeUp", "Acquire"}
       /\ \A i \in DOMAIN new : new[i][1] \in Ending => new[i][2] = t
       /\ \A u : \A i \in DOMAIN new : new[i] # Resumed(u)
  BY <1>4 DEF Has, Leave, Resumed, Call, Clears, Ending
<1>11. ~Enters(todo) /\ \A i \in DOMAIN todo : todo[i][1] # "WakeUp"
  BY <1>1, <1>2, TopFacts DEF WaitInv
<1>b. \A i \in DOMAIN todo' : \/ i \in DOMAIN new /\ todo'[i] = new[i]
                              \/ \E k \in DOMAIN base : todo'[i] = base[k] /\ i = k + Len(new)
  BY <1>4, <1>5, <1>6, FromConcat
<1>12. \A i \in DOMAIN todo' : (\E j \in DOMAIN new : todo'[i] = new[j]) \/ (\E j \in DOMAIN todo : todo'[i] = todo[j])
  <2>1. \A i \in DOMAIN base : \E j \in DOMAIN todo : base[i] = todo[j]
    BY <1>5 DEF Popped
  <2> QED
    BY <1>b, <2>1
<1>13. ~Enters(todo') /\ \A i \in DOMAIN todo' : todo'[i][1] # "WakeUp"
  BY <1>10, <1>11, <1>12 DEF Enters
<1>14. \A u, x : Waiting(u, x)' <=> Waiting(u, x)
  BY <1>1 DEF Waiting
<1>15. \A u, x : Leaves(u, x)' <=> Leaves(u, x) \/ Has(new, Leave(u, x))
  BY <1>8, <1>9 DEF Leaves
<1>16. \A x \in Objects : Waiting(t, x) => Leaves(t, x)'
  BY <1>4, <1>15 DEF WaitInv, ListedOK
<1>17. \A u \in Threads : u # t => status'[u] = status[u] /\ wait_objects'[u] = wait_objects[u]
  BY <1>1, <1>2
<1>18. wait_objects'[t] = <<>> /\ ToSet(wait_objects'[t]) = {} /\ status'[t] = "Dead"
  BY <1>1, <1>2 DEF ToSet
<1>19. ListsOK'
  BY <1>1, <1>14 DEF WaitInv, ListsOK
<1>20. ListedOK'
  <2>1. ASSUME NEW u \in Threads, NEW x \in Objects, Waiting(u, x)
        PROVE  x \in ToSet(wait_objects'[u]) \/ (status'[u] = "Dead" /\ Leaves(u, x)')
    <3>1. CASE u = t
      BY <1>16, <1>18, <2>1, <3>1
    <3>2. CASE u # t
      BY <1>15, <1>17, <2>1, <3>2 DEF WaitInv, ListedOK
    <3> QED
      BY <3>1, <3>2
  <2>2. ASSUME NEW u \in Threads, wait_objects'[u] # <<>> PROVE status'[u] \in Synching
    BY <1>17, <1>18, <2>2 DEF WaitInv, ListedOK
  <2> QED
    BY <1>14, <2>1, <2>2 DEF ListedOK
<1>21. LeavingOK'
  <2> SUFFICES ASSUME NEW u \in Threads, NEW x \in Objects, Waiting(u, x)
      PROVE  /\ \A i \in DOMAIN todo' : todo'[i][1] \in Ending /\ todo'[i][2] = u => Leaves(u, x)'
             /\ \A i \in DOMAIN todo' : todo'[i] = Resumed(u) => Above(todo', i, Leave(u, x))
    BY <1>14 DEF LeavingOK
  <2>1. /\ \A i \in DOMAIN todo : todo[i][1] \in Ending /\ todo[i][2] = u => Leaves(u, x)
        /\ \A i \in DOMAIN todo : todo[i] = Resumed(u) => Above(todo, i, Leave(u, x))
    BY DEF WaitInv, LeavingOK
  <2>2. \A i \in DOMAIN todo' : todo'[i][1] \in Ending /\ todo'[i][2] = u => Leaves(u, x)'
    BY <1>10, <1>12, <1>15, <1>16, <2>1
  <2>3. ASSUME NEW i \in DOMAIN todo', todo'[i] = Resumed(u) PROVE Above(todo', i, Leave(u, x))
    <3>1. PICK k \in DOMAIN base : todo'[i] = base[k] /\ i = k + Len(new)
      BY <1>b, <1>10, <2>3
    <3>2. k \in Nat /\ k + 1 \in DOMAIN todo /\ base[k] = todo[k + 1]
      BY <1>5 DEF Popped
    <3>3. PICK j \in DOMAIN todo : j < k + 1 /\ todo[j] = Leave(u, x)
      BY <2>1, <2>3, <3>1, <3>2 DEF Above
    <3>4. j \in Nat /\ j # 1
      BY <1>5, <1>7, <3>3 DEF Popped
    <3>5. j - 1 \in DOMAIN base /\ base[j - 1] = Leave(u, x) /\ j - 1 < k
      BY <1>5, <3>2, <3>3, <3>4 DEF Popped
    <3>6. Above(base, k, Leave(u, x))
      BY <3>5 DEF Above
    <3> QED
      BY <1>4, <1>5, <1>6, <3>1, <3>6, AboveConcat
  <2> QED
    BY <2>2, <2>3
<1>22. EnteringOK' /\ ToldOK'
  BY <1>13 DEF EnteringOK, ToldOK
<1>23. EnteredOK'
  <2> SUFFICES ASSUME NEW u \in Threads, NEW x \in ToSet(wait_objects'[u])
      PROVE  /\ Waiting(u, x) \/ Has(todo', Resumed(u))
             /\ Leaves(u, x)' => Has(todo', Resumed(u))
    BY <1>14 DEF EnteredOK
  <2>1. u # t /\ x \in ToSet(wait_objects[u])
    BY <1>17, <1>18
  <2>2. /\ Waiting(u, x) \/ Has(todo, Resumed(u))
        /\ Leaves(u, x) => Has(todo, Resumed(u))
    BY <1>11, <2>1 DEF WaitInv, EnteredOK, Enters, Has, Call
  <2> QED
    BY <1>8, <1>9, <1>10, <1>15, <2>1, <2>2
<1>24. ResumingOK'
  BY <1>10, <1>12 DEF WaitInv, ResumingOK
<1>25. ASSUME NEW u \in Threads, NEW x \in Objects, Waiting(u, x), ReadyFor(u, x)'
       PROVE  Leaves(u, x)' \/ Found(u, x)'
  <2>1. CASE u = t
    BY <1>16, <1>25, <2>1
  <2>2. CASE u # t /\ Leaves(u, x)
    BY <1>15, <2>2
  <2>3. CASE u # t /\ ~Leaves(u, x)
    <3>1. status'[u] = status[u] /\ wait_objects'[u] = wait_objects[u]
      BY <1>17, <2>3
    <3>2. wait_objects[u] \in Seq(Objects) /\ ToSet(wait_objects[u]) \subseteq Objects
      BY ListTypes
    <3>3. /\ ~(ShouldWait(x, u)')
          /\ status[u] = "WaitSynchAll" => \A y \in ToSet(wait_objects[u]) : ~(ShouldWait(y, u)')
      BY <1>25, <3>1, <3>2, ReadyFactsNext
    <3>4. CASE ReadyFor(u, x)
      <4>1. Found(u, x)
        BY <1>25, <2>3, <3>4 DEF WaitInv, WokenOK
      <4> QED
        BY <1>8, <1>9, <1>14, <3>1, <4>1 DEF Found
    <3>5. CASE ~ReadyFor(u, x)
      <4>1. PICK y \in Objects : /\ ShouldWait(y, u) /\ ~(ShouldWait(y, u)')
                                 /\ y = x \/ (status[u] = "WaitSynchAll" /\ y \in ToSet(wait_objects[u]))
        BY <3>2, <3>3, <3>5, ReadyFacts
      <4>2. y = t
        <5>1. y \in Threads /\ status[y] # "Dead" /\ status'[y] = "Dead"
          BY <1>1, <4>1 DEF ShouldWait, lockVars, signalVars
        <5> QED
          BY <1>17, <5>1
      <4>3. Wakes(todo', y)
        BY <1>4, <1>9, <4>2
      <4>4. Waiting(u, y)
        <5>1. CASE y = x
          BY <1>25, <5>1
        <5>2. CASE y \in ToSet(wait_objects[u])
          <6>1. ASSUME Has(todo, Resumed(u)) PROVE FALSE
            <7>1. PICK i \in DOMAIN todo : todo[i] = Resumed(u)
              BY <6>1 DEF Has
            <7>2. Above(todo, i, Leave(u, x))
              BY <1>25, <7>1 DEF WaitInv, LeavingOK
            <7> QED
              BY <2>3, <7>2 DEF Above, Leaves, Has
          <6> QED
            BY <1>11, <5>2, <6>1 DEF WaitInv, EnteredOK, Enters, Has, Call
        <5> QED
          BY <4>1, <5>1, <5>2
      <4> QED
        BY <1>14, <3>1, <4>1, <4>3, <4>4 DEF Found
    <3> QED
      BY <3>4, <3>5
  <2> QED
    BY <2>1, <2>2, <2>3
<1>26. WokenOK'
  BY <1>14, <1>25 DEF WokenOK
<1> QED
  BY <1>19, <1>20, <1>21, <1>22, <1>23, <1>24, <1>26 DEF WaitInv

\* The calls that end the wait of t: it acquires what it is given, is told, leaves
\* the lists and is resumed.
Ends(calls, t) ==
  /\ IsTodo(calls) /\ Has(calls, Resumed(t))
  /\ \A i \in DOMAIN calls : calls[i] = Resumed(t) \/ (calls[i][1] \in Ending /\ calls[i][2] = t)
  /\ \A o \in ToSet(wait_objects[t]) : Has(calls, Leave(t, o))
  /\ \A i \in DOMAIN calls : calls[i] = Resumed(t) =>
       \A o \in ToSet(wait_objects[t]) : Above(calls, i, Leave(t, o))
  /\ \A i \in DOMAIN calls : calls[i][1] = "WakeUp" =>
       /\ \A j \in DOMAIN calls : j < i => calls[j][1] = "Acquire"
       /\ \A o \in Objects : calls[i] = Call("WakeUp", t, o) =>
            /\ o \in ToSet(wait_objects[t])
            /\ \A m \in Granted(t, o) \cap Mutexes : Above(calls, i, Call("Acquire", t, m))

\* The calls of EndWait.
LEMMA EndWaitFacts ==
  ASSUME IInv, NEW t \in Threads, NEW cause, NEW e, e = EndWait(t, cause)
  PROVE  /\ IsTodo(e) /\ Has(e, Resumed(t)) /\ 1 \in DOMAIN e /\ e[1] = Call("WakeUp", t, cause)
         /\ \A i \in DOMAIN e : \/ i = 1 \/ e[i] = Resumed(t)
                                \/ \E o \in ToSet(wait_objects[t]) : e[i] = Leave(t, o)
         /\ \A o \in ToSet(wait_objects[t]) : Has(e, Leave(t, o))
         /\ \A i \in DOMAIN e : e[i] = Resumed(t) =>
              \A o \in ToSet(wait_objects[t]) : Above(e, i, Leave(t, o))
<1>1. wait_objects[t] \in Seq(Objects)
  BY ListTypes
<1>2. PICK a, b, c : /\ a = <<Call("WakeUp", t, cause)>>
                     /\ b = ForEach("RemoveWaitingThread", t, wait_objects[t])
                     /\ c = <<Call("ResumeFromWait", t, "clear")>>
  OBVIOUS
<1>3. "WakeUp" \in OpCalls /\ "RemoveWaitingThread" \in OpCalls /\ "ResumeFromWait" \in OpCalls
  BY DEF OpCalls
<1>4. IsTodo(a) /\ DOMAIN a = {1} /\ a[1] = Call("WakeUp", t, cause)
  BY <1>2, <1>3, OneFacts
<1>5. /\ IsTodo(b)
      /\ \A i \in DOMAIN b : \E o \in ToSet(wait_objects[t]) : b[i] = Leave(t, o)
      /\ \A o \in ToSet(wait_objects[t]) : Has(b, Leave(t, o))
  BY <1>1, <1>2, <1>3, ForEachFacts DEF Leave
<1>6. IsTodo(c) /\ DOMAIN c = {1} /\ c[1] = Resumed(t)
  BY <1>2, <1>3, OneFacts DEF Resumed
<1>7. PICK d : d = a \o b
  OBVIOUS
<1>8. Stacked(d, a, b)
  BY <1>4, <1>5, <1>7, StackConcat
<1>9. IsTodo(d)
  BY <1>8 DEF Stacked
<1>10. e = d \o c
  BY <1>2, <1>7 DEF EndWait
<1>11. Stacked(e, d, c)
  BY <1>6, <1>9, <1>10, StackConcat
<1>12. /\ \A x : Has(d, x) <=> Has(a, x) \/ Has(b, x)
       /\ \A x : Has(e, x) <=> Has(d, x) \/ Has(c, x)
  BY <1>4, <1>5, <1>6, <1>7, <1>9, <1>10, HasConcat
<1>13. IsTodo(e) /\ Has(e, Resumed(t)) /\ \A o \in ToSet(wait_objects[t]) : Has(e, Leave(t, o)) /\ Has(d, Leave(t, o))
  <2>1. IsTodo(e)
    BY <1>11 DEF Stacked
  <2>2. Has(c, Resumed(t))
    BY <1>6 DEF Has
  <2> QED
    BY <1>5, <1>12, <2>1, <2>2
<1>14. 1 \in DOMAIN d /\ d[1] = a[1] /\ 1 \in DOMAIN e /\ e[1] = a[1]
  <2>1. 1 \in DOMAIN d /\ d[1] = a[1]
    BY <1>4, <1>8 DEF Stacked
  <2> QED
    BY <1>11, <2>1 DEF Stacked
<1>15. \A i \in DOMAIN d : i = 1 \/ \E o \in ToSet(wait_objects[t]) : d[i] = Leave(t, o)
  BY <1>4, <1>5, <1>8 DEF Stacked
<1>16. \A i \in DOMAIN e : (i \in DOMAIN d /\ e[i] = d[i]) \/ \E k \in DOMAIN c : e[i] = c[k] /\ i = k + Len(d)
  BY <1>11 DEF Stacked
<1>17. \A i \in DOMAIN e : \/ i = 1 \/ e[i] = Resumed(t)
                           \/ \E o \in ToSet(wait_objects[t]) : e[i] = Leave(t, o)
  BY <1>6, <1>15, <1>16
<1>18. ASSUME NEW i \in DOMAIN e, e[i] = Resumed(t), NEW o \in ToSet(wait_objects[t])
       PROVE  Above(e, i, Leave(t, o))
  <2>1. \A j \in DOMAIN d : d[j] # Resumed(t)
    BY <1>4, <1>14, <1>15 DEF Resumed, Leave, Call
  <2>2. PICK k \in DOMAIN c : i = k + Len(d)
    BY <1>16, <1>18, <2>1
  <2> QED
    BY <1>6, <1>9, <1>10, <1>13, <2>2, AboveConcat
<1> QED
  BY <1>4, <1>13, <1>14, <1>17, <1>18

\* With the acquisitions before them.
LEMMA AcquireThenEnd ==
  ASSUME IInv, NEW t \in Threads, NEW acquired \in Seq(Objects), NEW cause,
         cause \in Objects => /\ cause \in ToSet(wait_objects[t])
                              /\ Granted(t, cause) \subseteq ToSet(acquired),
         NEW calls, calls = ForEach("Acquire", t, acquired) \o EndWait(t, cause)
  PROVE  Ends(calls, t)
<1>1. PICK a, e : a = ForEach("Acquire", t, acquired) /\ e = EndWait(t, cause)
  OBVIOUS
<1>2. /\ IsTodo(a)
      /\ \A i \in DOMAIN a : a[i][1] = "Acquire" /\ a[i][2] = t
      /\ \A o \in ToSet(acquired) : Has(a, Call("Acquire", t, o))
  BY <1>1, ForEachFacts DEF OpCalls
<1>3. /\ IsTodo(e) /\ Has(e, Resumed(t)) /\ 1 \in DOMAIN e /\ e[1] = Call("WakeUp", t, cause)
      /\ \A i \in DOMAIN e : \/ i = 1 \/ e[i] = Resumed(t)
                             \/ \E o \in ToSet(wait_objects[t]) : e[i] = Leave(t, o)
      /\ \A o \in ToSet(wait_objects[t]) : Has(e, Leave(t, o))
      /\ \A i \in DOMAIN e : e[i] = Resumed(t) =>
           \A o \in ToSet(wait_objects[t]) : Above(e, i, Leave(t, o))
  BY <1>1, EndWaitFacts
<1>4. Stacked(calls, a, e)
  BY <1>1, <1>2, <1>3, StackConcat
<1>5. IsTodo(calls) /\ \A c : Has(calls, c) <=> Has(a, c) \/ Has(e, c)
  BY <1>1, <1>2, <1>3, HasConcat
<1>6. \A i \in DOMAIN calls : \/ i \in DOMAIN a /\ calls[i] = a[i]
                              \/ \E k \in DOMAIN e : calls[i] = e[k] /\ i = k + Len(a)
  BY <1>4 DEF Stacked
<1>7. \A i \in DOMAIN e : e[i] = Resumed(t) \/ (e[i][1] \in Ending /\ e[i][2] = t)
  BY <1>3 DEF Leave, Call, Ending
<1>8. \A i \in DOMAIN calls : calls[i] = Resumed(t) \/ (calls[i][1] \in Ending /\ calls[i][2] = t)
  BY <1>2, <1>6, <1>7 DEF Ending
<1>9. ASSUME NEW i \in DOMAIN calls, calls[i] = Resumed(t), NEW o \in ToSet(wait_objects[t])
      PROVE  Above(calls, i, Leave(t, o))
  <2>1. PICK k \in DOMAIN e : calls[i] = e[k] /\ i = k + Len(a)
    BY <1>2, <1>6, <1>9 DEF Resumed, Call
  <2>2. Above(e, k, Leave(t, o))
    BY <1>3, <1>9, <2>1
  <2> QED
    BY <1>1, <1>2, <1>3, <2>1, <2>2, AboveConcat
<1>10. ASSUME NEW i \in DOMAIN calls, calls[i][1] = "WakeUp"
       PROVE  i = 1 + Len(a) /\ calls[i] = Call("WakeUp", t, cause)
  <2>1. PICK k \in DOMAIN e : calls[i] = e[k] /\ i = k + Len(a)
    BY <1>2, <1>6, <1>10
  <2>2. k = 1
    BY <1>3, <1>10, <2>1 DEF Resumed, Leave, Call
  <2> QED
    BY <1>3, <2>1, <2>2
<1>11. ASSUME NEW i \in DOMAIN calls, calls[i][1] = "WakeUp", NEW j \in DOMAIN calls, j < i
       PROVE  calls[j][1] = "Acquire"
  <2>1. i = 1 + Len(a)
    BY <1>10, <1>11
  <2>2. j \in DOMAIN a
    BY <1>4, <1>11, <2>1 DEF Stacked
  <2> QED
    BY <1>2, <1>4, <2>2 DEF Stacked
<1>12. ASSUME NEW i \in DOMAIN calls, NEW o \in Objects, calls[i] = Call("WakeUp", t, o)
       PROVE  /\ o \in ToSet(wait_objects[t])
              /\ \A m \in Granted(t, o) \cap Mutexes : Above(calls, i, Call("Acquire", t, m))
  <2>1. calls[i][1] = "WakeUp"
    BY <1>12 DEF Call
  <2>2. i = 1 + Len(a) /\ Call("WakeUp", t, o) = Call("WakeUp", t, cause)
    BY <1>10, <1>12, <2>1
  <2>3. o = cause
    BY <2>2 DEF Call
  <2>4. ASSUME NEW m \in Granted(t, o) PROVE Above(calls, i, Call("Acquire", t, m))
    <3>1. Has(a, Call("Acquire", t, m))
      BY <1>2, <2>3, <2>4
    <3> QED
      BY <1>1, <1>2, <1>3, <2>2, <3>1, AboveConcat
  <2> QED
    BY <2>3, <2>4
<1>13. Has(calls, Resumed(t)) /\ \A o \in ToSet(wait_objects[t]) : Has(calls, Leave(t, o))
  BY <1>3, <1>5
<1> QED
  BY <1>5, <1>8, <1>9, <1>11, <1>12, <1>13 DEF Ends

\* The wait of a thread ends.
LEMMA EndStep ==
  ASSUME IInv, WaitInv, NEW t \in Threads, status[t] # "Dead", NEW new, Ends(new, t),
         todo' = new \o todo,
         todo = <<>> \/ Head(todo)[1] = "WakeupAllWaitingThreads",
         UNCHANGED <<status, objectVars>>
  PROVE  WaitInv'
<1>1. /\ waiting_threads' = waiting_threads /\ wait_objects' = wait_objects /\ status' = status
      /\ pending_mutexes' = pending_mutexes /\ UNCHANGED <<lockVars, signalVars>>
  BY DEF objectVars, waitVars
<1>2. /\ IsTodo(new) /\ Has(new, Resumed(t))
      /\ \A i \in DOMAIN new : new[i] = Resumed(t) \/ (new[i][1] \in Ending /\ new[i][2] = t)
      /\ \A o \in ToSet(wait_objects[t]) : Has(new, Leave(t, o))
  BY DEF Ends
<1>3. IsTodo(todo)
  BY ListTypes
<1>4. /\ \A c : Has(todo', c) <=> Has(new, c) \/ Has(todo, c)
      /\ \A o : Wakes(todo', o) <=> Wakes(new, o) \/ Wakes(todo, o)
  BY <1>2, <1>3, HasConcat
<1>5. Stacked(todo', new, todo)
  BY <1>2, <1>3, StackConcat
<1>6. /\ \A i \in DOMAIN todo' : \/ i \in DOMAIN new /\ todo'[i] = new[i]
                                 \/ \E k \in DOMAIN todo : todo'[i] = todo[k] /\ i = k + Len(new)
      /\ \A i \in DOMAIN new : i \in DOMAIN todo' /\ todo'[i] = new[i]
  BY <1>5 DEF Stacked
<1>7. ~Enters(todo) /\ \A i \in DOMAIN todo : todo[i][1] # "WakeUp"
  <2>1. CASE todo = <<>>
    BY <2>1 DEF Enters
  <2>2. CASE todo # <<>>
    BY <1>3, <2>2, TopFacts DEF WaitInv
  <2> QED
    BY <2>1, <2>2
<1>8. \A i \in DOMAIN new : new[i][1] # "AddWaitingThread"
  BY <1>2 DEF Resumed, Call, Ending
<1>9. ~Enters(todo')
  BY <1>6, <1>7, <1>8 DEF Enters
<1>10. \A u, x : /\ Waiting(u, x)' <=> Waiting(u, x)
                 /\ Leaves(u, x)' <=> Leaves(u, x) \/ Has(new, Leave(u, x))
  BY <1>1, <1>4 DEF Waiting, Leaves
<1>11. \A x \in Objects : Waiting(t, x) => x \in ToSet(wait_objects[t])
  BY DEF WaitInv, ListedOK
<1>12. \A u, x : (ShouldWait(x, u)' <=> ShouldWait(x, u)) /\ (ReadyFor(u, x)' <=> ReadyFor(u, x))
  BY <1>1 DEF ShouldWait, ReadyFor, lockVars, signalVars
<1>13. \A u : u # t => \A i \in DOMAIN new : new[i][2] # u /\ new[i] # Resumed(u)
  BY <1>2 DEF Resumed, Call
<1>14. ListsOK' /\ ListedOK'
  BY <1>1, <1>10 DEF WaitInv, ListsOK, ListedOK
<1>15. LeavingOK'
  <2> SUFFICES ASSUME NEW u \in Threads, NEW x \in Objects, Waiting(u, x)
      PROVE  /\ \A i \in DOMAIN todo' : todo'[i][1] \in Ending /\ todo'[i][2] = u => Leaves(u, x)'
             /\ \A i \in DOMAIN todo' : todo'[i] = Resumed(u) => Above(todo', i, Leave(u, x))
    BY <1>10 DEF LeavingOK
  <2>1. /\ \A i \in DOMAIN todo : todo[i][1] \in Ending /\ todo[i][2] = u => Leaves(u, x)
        /\ \A i \in DOMAIN todo : todo[i] = Resumed(u) => Above(todo, i, Leave(u, x))
    BY DEF WaitInv, LeavingOK
  <2>2. u = t => Has(new, Leave(u, x))
    BY <1>2, <1>11
  <2>3. \A i \in DOMAIN todo' : todo'[i][1] \in Ending /\ todo'[i][2] = u => Leaves(u, x)'
    BY <1>6, <1>10, <1>13, <2>1, <2>2
  <2>4. ASSUME NEW i \in DOMAIN todo', todo'[i] = Resumed(u) PROVE Above(todo', i, Leave(u, x))
    <3>1. CASE i \in DOMAIN new /\ todo'[i] = new[i]
      <4>1. u = t
        BY <1>13, <2>4, <3>1
      <4>2. Above(new, i, Leave(u, x))
        BY <1>11, <2>4, <3>1, <4>1 DEF Ends
      <4> QED
        BY <1>2, <1>3, <3>1, <4>2, AboveConcat
    <3>2. ASSUME NEW k \in DOMAIN todo, todo'[i] = todo[k], i = k + Len(new)
          PROVE  Above(todo', i, Leave(u, x))
      <4>1. Above(todo, k, Leave(u, x))
        BY <2>1, <2>4, <3>2
      <4> QED
        BY <1>2, <1>3, <3>2, <4>1, AboveConcat
    <3> QED
      BY <1>6, <3>1, <3>2
  <2> QED
    BY <2>3, <2>4
<1>16. EnteringOK'
  BY <1>9 DEF EnteringOK
<1>17. EnteredOK'
  <2> SUFFICES ASSUME NEW u \in Threads, NEW x \in ToSet(wait_objects[u])
      PROVE  /\ Waiting(u, x) \/ Has(todo', Resumed(u))
             /\ Leaves(u, x)' => Has(todo', Resumed(u))
    BY <1>1, <1>10 DEF EnteredOK
  <2>1. /\ Waiting(u, x) \/ Has(todo, Resumed(u))
        /\ Leaves(u, x) => Has(todo, Resumed(u))
    BY <1>7 DEF WaitInv, EnteredOK, Enters, Has, Call
  <2>2. Has(new, Leave(u, x)) => u = t
    BY <1>13 DEF Has, Leave, Call
  <2> QED
    BY <1>2, <1>4, <1>10, <2>1, <2>2
<1>18. ResumingOK'
  <2>1. \A i \in DOMAIN new : Clears(new[i]) => new[i] = Resumed(t)
    BY <1>2 DEF Clears, Ending
  <2> QED
    BY <1>6, <2>1 DEF WaitInv, ResumingOK
<1>19. ToldOK'
  <2> SUFFICES ASSUME NEW i \in DOMAIN todo', todo'[i][1] = "WakeUp"
      PROVE  /\ \A j \in DOMAIN todo' : j < i => todo'[j][1] = "Acquire" /\ todo'[j][2] = todo'[i][2]
             /\ \A u \in Threads, o \in Objects : todo'[i] = Call("WakeUp", u, o) =>
                  /\ o \in ToSet(wait_objects[u])
                  /\ \A m \in Granted(u, o) \cap Mutexes :
                       holding_thread'[m] = u \/ Above(todo', i, Call("Acquire", u, m))
    BY <1>1 DEF ToldOK, Granted
  <2>1. i \in DOMAIN new /\ todo'[i] = new[i]
    BY <1>6, <1>7
  <2>2. new[i][2] = t
    BY <1>2, <2>1 DEF Resumed, Call
  <2>3. ASSUME NEW j \in DOMAIN todo', j < i
        PROVE  todo'[j][1] = "Acquire" /\ todo'[j][2] = todo'[i][2]
    <3>1. j \in DOMAIN new /\ todo'[j] = new[j]
      BY <1>5, <1>6, <2>1, <2>3 DEF Stacked
    <3>2. new[j][1] = "Acquire"
      BY <2>1, <2>3, <3>1 DEF Ends
    <3> QED
      BY <1>2, <2>1, <2>2, <3>1, <3>2 DEF Resumed, Call
  <2>4. ASSUME NEW u \in Threads, NEW o \in Objects, todo'[i] = Call("WakeUp", u, o)
        PROVE  /\ o \in ToSet(wait_objects[u])
               /\ \A m \in Granted(u, o) \cap Mutexes : Above(todo', i, Call("Acquire", u, m))
    <3>1. u = t
      BY <2>1, <2>2, <2>4 DEF Call
    <3>2. /\ o \in ToSet(wait_objects[t])
          /\ \A m \in Granted(t, o) \cap Mutexes : Above(new, i, Call("Acquire", t, m))
      BY <2>1, <2>4, <3>1 DEF Ends
    <3> QED
      BY <1>2, <1>3, <2>1, <3>1, <3>2, AboveConcat
  <2> QED
    BY <2>3, <2>4
<1>20. WokenOK'
  <2>1. \A u, o : Found(u, o) => Found(u, o)'
    BY <1>1, <1>4, <1>10 DEF Found
  <2> QED
    BY <1>10, <1>12, <2>1 DEF WaitInv, WokenOK
<1> QED
  BY <1>14, <1>15, <1>16, <1>17, <1>18, <1>19, <1>20 DEF WaitInv

\* WakeupAllWaitingThreads gives an object to one of its waiters.
LEMMA WakeupNextWaits ==
  ASSUME IInv, WaitInv, panic' = "none", NEW o \in Objects, WakeupNext(o)
  PROVE  WaitInv'
<1>1. /\ todo # <<>> /\ Head(todo)[1] = "WakeupAllWaitingThreads" /\ WaitersWait(o)
      /\ UNCHANGED <<status, objectVars>>
  BY DEF WakeupNext, Calling, AssertThat, threadVars
<1>2. waiting_threads[o] \in Seq(Threads) /\ wait_objects \in [Threads -> Seq(Objects)]
  BY ListTypes
<1>3. PICK i \in Candidate(o) :
        LET t == waiting_threads[o][i]
            acquired == IF status[t] = "WaitSynchAll" THEN wait_objects[t] ELSE <<o>>
        IN todo' = ForEach("Acquire", t, acquired) \o EndWait(t, o) \o todo
  BY ZenonT(40) DEF WakeupNext
<1>4. i \in DOMAIN waiting_threads[o] /\ i \in 1..Len(waiting_threads[o])
  BY <1>2, <1>3, LenProperties DEF Candidate
<1>5. PICK t \in Threads : t = waiting_threads[o][i]
  BY <1>2, <1>4, ElementOfSeq
<1>6. PICK acquired :
        /\ acquired = IF status[t] = "WaitSynchAll" THEN wait_objects[t] ELSE <<o>>
        /\ todo' = ForEach("Acquire", t, acquired) \o EndWait(t, o) \o todo
  BY <1>3, <1>5
<1>7. acquired \in Seq(Objects)
  <2>1. wait_objects[t] \in Seq(Objects) /\ <<o>> \in Seq(Objects)
    BY <1>2
  <2> QED
    BY <1>6, <2>1
<1>8. status[t] \in Synching
  BY <1>1, <1>4, <1>5 DEF WaitersWait, Synching
<1>9. Waiting(t, o)
  BY <1>2, <1>4, <1>5, ToSetMember DEF Waiting
<1>10. o \in ToSet(wait_objects[t])
  BY <1>8, <1>9 DEF WaitInv, ListedOK, Synching
<1>11. Granted(t, o) \subseteq ToSet(acquired)
  <2>1. o \in ToSet(<<o>>)
    BY DEF ToSet
  <2> QED
    BY <1>6, <2>1 DEF Granted
<1>12. PICK new : new = ForEach("Acquire", t, acquired) \o EndWait(t, o)
  OBVIOUS
<1>13. Ends(new, t)
  BY <1>7, <1>10, <1>11, <1>12, AcquireThenEnd
<1>14. todo' = new \o todo /\ status[t] # "Dead"
  BY <1>6, <1>8, <1>12 DEF Synching
<1> QED
  BY <1>1, <1>13, <1>14, EndStep

\* The time of a waiting thread is up.
LEMMA TimeoutWaits ==
  ASSUME IInv, WaitInv, todo = <<>>, NEW t \in Threads, status[t] # "Dead",
         todo' = EndWait(t, "Timeout"), UNCHANGED <<status, objectVars>>
  PROVE  WaitInv'
<1>1. PICK e, none : e = EndWait(t, "Timeout") /\ none = ForEach("Acquire", t, <<>>)
  OBVIOUS
<1>2. none = <<>>
  BY <1>1 DEF ForEach
<1>3. PICK S : e \in Seq(S)
  BY <1>1, EndWaitFacts DEF IsTodo
<1>4. e = none \o e /\ e = e \o <<>>
  BY <1>2, <1>3, ConcatEmptySeq
<1>5. <<>> \in Seq(Objects) /\ "Timeout" \notin Objects
  BY EmptySeq, KindsAssumption
<1>6. e = ForEach("Acquire", t, <<>>) \o EndWait(t, "Timeout")
  BY <1>1, <1>4
<1>7. Ends(e, t)
  BY <1>5, <1>6, AcquireThenEnd
<1>8. todo' = e \o todo
  BY <1>1, <1>4
<1> QED
  BY <1>7, <1>8, EndStep

\* A thread that makes a supervisor call is in no list.
LEMMA ExecutesFacts ==
  ASSUME IInv, WaitInv, NEW t \in Threads, Executes(t)
  PROVE  /\ todo = <<>> /\ status[t] \in {"Running", "Dead"} /\ wait_objects[t] = <<>>
         /\ \A o \in Objects : ~Waiting(t, o)
<1>1. todo = <<>>
  BY DEF Executes, Executing, AtRest
<1>2. status[t] \in {"Running", "Dead"}
  <2>1. CoreOf[t] \in Cores /\ current_thread[CoreOf[t]] = t /\ t # NoThread
    BY CoresAssumption, ThreadsAssumption DEF Executes
  <2>2. Settled(CoreOf[t]) /\ ~halted
    BY DEF Executes, Executing, IsRunningCore, Settled
  <2> QED
    BY <2>1, <2>2 DEF IInv, QueueInv, SlicesOK
<1>3. wait_objects[t] = <<>>
  BY <1>2 DEF WaitInv, ListedOK, Synching
<1>4. ToSet(wait_objects[t]) = {}
  BY <1>3 DEF ToSet
<1>5. \A o \in Objects : ~Leaves(t, o)
  BY <1>1 DEF Leaves, Has
<1> QED
  BY <1>1, <1>2, <1>3, <1>4, <1>5 DEF WaitInv, ListedOK

\* Between two calls every thread is in the lists of its objects, and nobody in
\* them is ready.
LEMMA RestFacts ==
  ASSUME WaitInv, todo = <<>>
  PROVE  /\ \A t \in Threads : \A o \in ToSet(wait_objects[t]) : Waiting(t, o)
         /\ \A t \in Threads, o \in Objects : Waiting(t, o) => ~ReadyFor(t, o) /\ o \in ToSet(wait_objects[t])
<1>1. \A c, o : ~Has(todo, c) /\ ~Wakes(todo, o)
  BY DEF Has, Wakes
<1> QED
  BY <1>1 DEF WaitInv, EnteredOK, WokenOK, ListedOK, Leaves, Found

\* A thread goes to sleep on objects that it cannot have.
LEMMA SleepWaits ==
  ASSUME IInv, WaitInv, NEW t \in Threads, Executes(t), NEW objects \in Seq(Objects),
         NEW w \in Synching, NEW delay, Sleep(t, objects, w, delay),
         \/ \A i \in DOMAIN objects : ShouldWait(objects[i], t)
         \/ w = "WaitSynchAll" /\ \E i \in DOMAIN objects : ShouldWait(objects[i], t)
  PROVE  WaitInv'
<1>1. /\ todo' = ForEach("AddWaitingThread", t, objects)
      /\ wait_objects' = [wait_objects EXCEPT ![t] = objects]
      /\ UNCHANGED <<lockVars, signalVars, pending_mutexes, waiting_threads>>
      /\ status' = [status EXCEPT ![t] = w]
  BY DEF Sleep
<1>2. /\ todo = <<>> /\ \A o \in Objects : ~Waiting(t, o)
  BY ExecutesFacts
<1>3. /\ \A u \in Threads : \A o \in ToSet(wait_objects[u]) : Waiting(u, o)
      /\ \A u \in Threads, o \in Objects :
           Waiting(u, o) => ~ReadyFor(u, o) /\ o \in ToSet(wait_objects[u])
  BY <1>2, RestFacts
<1>4. status \in [Threads -> Statuses] /\ wait_objects \in [Threads -> Seq(Objects)]
  BY ListTypes
<1>5. /\ \A i \in DOMAIN todo' : \E o \in ToSet(objects) : todo'[i] = Call("AddWaitingThread", t, o)
      /\ \A i \in DOMAIN todo' : todo'[i][1] = "AddWaitingThread"
      /\ \A o \in ToSet(objects) : Has(todo', Call("AddWaitingThread", t, o))
  BY <1>1, ForEachFacts DEF OpCalls
<1>6. \A u, o : ~(Leaves(u, o)') /\ ~Has(todo', Resumed(u))
  BY <1>5 DEF Leaves, Has, Leave, Resumed, Call
<1>7. \A u, o : Waiting(u, o)' <=> Waiting(u, o)
  BY <1>1 DEF Waiting
<1>8. \A u \in Threads : u # t => status'[u] = status[u] /\ wait_objects'[u] = wait_objects[u]
  BY <1>1, <1>4
<1>9. status'[t] = w /\ wait_objects'[t] = objects
  BY <1>1, <1>4
<1>10. NothingFreed
  <2>1. \A u \in Threads : status'[u] = "Dead" => status[u] = "Dead"
    BY <1>1, <1>4 DEF Synching
  <2> QED
    BY <1>1, <2>1 DEF NothingFreed, ShouldWait, lockVars, signalVars
<1>11. ListsOK'
  BY <1>1, <1>7 DEF WaitInv, ListsOK
<1>12. ListedOK'
  <2>1. ASSUME NEW u \in Threads, NEW o \in Objects, Waiting(u, o) PROVE o \in ToSet(wait_objects'[u])
    BY <1>2, <1>3, <1>8, <2>1
  <2>2. ASSUME NEW u \in Threads, wait_objects'[u] # <<>> PROVE status'[u] \in Synching
    BY <1>8, <1>9, <2>2 DEF WaitInv, ListedOK
  <2> QED
    BY <1>7, <2>1, <2>2 DEF ListedOK
<1>13. LeavingOK' /\ ToldOK' /\ ResumingOK'
  BY <1>5 DEF LeavingOK, ToldOK, ResumingOK, Ending, Resumed, Clears, Call
<1>14. EnteringOK'
  <2>1. ToSet(objects) = {objects[i] : i \in DOMAIN objects} /\ ToSet(objects) \subseteq Objects
    <3>1. ToSet(objects) = {objects[i] : i \in DOMAIN objects}
      BY DEF ToSet
    <3>2. \A i \in DOMAIN objects : objects[i] \in Objects
      BY LenProperties, ElementOfSeq
    <3> QED
      BY <3>1, <3>2
  <2>2. ASSUME NEW o \in ToSet(objects), ReadyFor(t, o)' PROVE FALSE
    <3>1. /\ ~(ShouldWait(o, t)')
          /\ w = "WaitSynchAll" => \A x \in ToSet(objects) : ~(ShouldWait(x, t)')
      BY <1>9, <2>2, ReadyFactsNext
    <3>2. /\ ~ShouldWait(o, t)
          /\ w = "WaitSynchAll" => \A x \in ToSet(objects) : ~ShouldWait(x, t)
      BY <1>10, <2>1, <3>1 DEF NothingFreed
    <3> QED
      BY <2>1, <3>2
  <2> QED
    BY <1>5, <1>9, <2>2 DEF EnteringOK
<1>15. EnteredOK'
  <2> SUFFICES ASSUME NEW u \in Threads, NEW o \in ToSet(wait_objects'[u])
      PROVE  Waiting(u, o) \/ Has(todo', Call("AddWaitingThread", u, o))
    BY <1>6, <1>7 DEF EnteredOK
  <2> QED
    BY <1>3, <1>5, <1>8, <1>9
<1>16. WokenOK'
  <2> SUFFICES ASSUME NEW u \in Threads, NEW o \in Objects, Waiting(u, o), ReadyFor(u, o)' PROVE FALSE
    BY <1>7 DEF WokenOK
  <2>1. u # t
    BY <1>2
  <2>2. ReadyFor(u, o)
    BY <1>8, <1>10, <2>1, NotMoreReady
  <2> QED
    BY <1>3, <2>2
<1> QED
  BY <1>11, <1>12, <1>13, <1>14, <1>15, <1>16 DEF WaitInv

\* A thread takes objects at once.
LEMMA TakeWaits ==
  ASSUME IInv, WaitInv, NEW t \in Threads, Executes(t), NEW objects \in Seq(Objects),
         Take(t, objects)
  PROVE  WaitInv'
<1>1. /\ todo' = ForEach("Acquire", t, objects) /\ status' = status
      /\ UNCHANGED <<lockVars, signalVars, pending_mutexes, waiting_threads, wait_objects>>
  BY DEF Take, threadVars, objectVars, waitVars
<1>2. /\ todo = <<>> /\ \A o \in Objects : ~Waiting(t, o)
  BY ExecutesFacts
<1>3. /\ \A u \in Threads : \A o \in ToSet(wait_objects[u]) : Waiting(u, o)
      /\ \A u \in Threads, o \in Objects :
           Waiting(u, o) => ~ReadyFor(u, o) /\ o \in ToSet(wait_objects[u])
  BY <1>2, RestFacts
<1>4. \A i \in DOMAIN todo' : todo'[i][1] = "Acquire" /\ todo'[i][2] = t
  BY <1>1, ForEachFacts DEF OpCalls
<1>5. \A u, o : ~(Leaves(u, o)') /\ ~Has(todo', Resumed(u))
  BY <1>4 DEF Leaves, Has, Leave, Resumed, Call
<1>6. \A u, o : (Waiting(u, o)' <=> Waiting(u, o)) /\ (ReadyFor(u, o)' <=> ReadyFor(u, o))
  BY <1>1 DEF Waiting, ReadyFor, ShouldWait, lockVars, signalVars
<1>7. ListsOK' /\ ListedOK'
  BY <1>1, <1>3, <1>6 DEF WaitInv, ListsOK, ListedOK
<1>8. LeavingOK'
  BY <1>2, <1>4, <1>6 DEF LeavingOK, Resumed, Call
<1>9. EnteringOK' /\ ToldOK' /\ ResumingOK'
  BY <1>4 DEF EnteringOK, Enters, ToldOK, ResumingOK, Clears
<1>10. EnteredOK'
  BY <1>1, <1>3, <1>5, <1>6 DEF EnteredOK
<1>11. WokenOK'
  BY <1>3, <1>6 DEF WokenOK
<1> QED
  BY <1>7, <1>8, <1>9, <1>10, <1>11 DEF WaitInv

-----------------------------------------------------------------------------
\* The other steps make plain calls.

Available == <<lock_count, holding_thread, available_count, signaled>>
StillWakes == \A o : Wakes(todo, o) => Wakes(todo', o)

\* A call with other effects gives way to plain calls.
LEMMA PlainReturn ==
  ASSUME IsTodo(todo), todo # <<>>, PlainCall(Head(todo)),
         Head(todo)[1] # "WakeupAllWaitingThreads", NEW calls, IsTodo(calls), Plain(calls),
         Return(calls)
  PROVE  Grows /\ StillWakes
<1>1. PICK base : base = Tail(todo)
  OBVIOUS
<1>2. Popped(base, todo)
  BY <1>1, StackTail
<1>3. IsTodo(base) /\ \A o : Wakes(todo, o) => Wakes(base, o)
  BY <1>2 DEF Popped
<1>4. todo' = calls \o base
  BY <1>1 DEF Return
<1>5. \A o : Wakes(todo', o) <=> Wakes(calls, o) \/ Wakes(base, o)
  BY <1>3, <1>4, HasConcat
<1> QED
  BY <1>1, <1>3, <1>4, <1>5 DEF Grows, StillWakes

\* Plain calls come before a call that has not ended.
LEMMA PlainPush ==
  ASSUME IsTodo(todo), todo = <<>> \/ PlainCall(Head(todo)), NEW calls, IsTodo(calls), Plain(calls),
         todo' = calls \o todo
  PROVE  Grows /\ StillWakes /\ \A o : Wakes(calls, o) => Wakes(todo', o)
<1>1. \A o : Wakes(todo', o) <=> Wakes(calls, o) \/ Wakes(todo, o)
  BY HasConcat
<1> QED
  BY <1>1 DEF Grows, StillWakes

\* The first calls are plain.
LEMMA PlainStart ==
  ASSUME todo = <<>>, IsTodo(todo'), Plain(todo')
  PROVE  Grows /\ StillWakes
<1>1. PICK S : todo' \in Seq(S)
  BY DEF IsTodo
<1>2. todo' = todo' \o <<>>
  BY <1>1, ConcatEmptySeq
<1>3. Grows
  BY <1>2 DEF Grows
<1> QED
  BY <1>3 DEF StillWakes, Wakes

\* No calls.
LEMMA PlainNone == IsTodo(<<>>) /\ Plain(<<>>)
BY TodoNone DEF Plain

\* A single call.
LEMMA PlainOne ==
  ASSUME NEW op \in OpCalls \ (Ending \cup {"AddWaitingThread"}), NEW x, NEW y,
         op = "ResumeFromWait" => y # "clear", NEW calls, calls = <<Call(op, x, y)>>
  PROVE  /\ IsTodo(calls) /\ Plain(calls)
         /\ op = "WakeupAllWaitingThreads" => Wakes(calls, x)
<1>1. /\ IsTodo(calls) /\ DOMAIN calls = {1}
      /\ calls[1][1] = op /\ calls[1][2] = x /\ calls[1][3] = y
  BY OneFacts
<1> QED
  BY <1>1 DEF Plain, PlainCall, Clears, Wakes

\* Steps that change nothing that a thread could wait for.
LEMMA QuietWaits ==
  ASSUME IInv, IInv', WaitInv, Grows, StillWakes, UNCHANGED waitVars, UNCHANGED Available,
         \A t \in Threads : status'[t] = status[t] \/ Settles(t)
  PROVE  WaitInv'
<1>1. \A u \in Threads : status'[u] = "Dead" => status[u] = "Dead"
  BY DEF Settles
<1>2. \A o \in Objects, t \in Threads : ~(ShouldWait(o, t)') => ~ShouldWait(o, t)
  BY <1>1 DEF Available, ShouldWait
<1>3. Offers
  BY <1>2 DEF Offers, StillWakes
<1> QED
  BY <1>3, PlainStep

\* Steps that make one object available and wake its waiters.
LEMMA FreeingWaits ==
  ASSUME IInv, IInv', WaitInv, Grows, StillWakes, UNCHANGED <<waitVars, status>>,
         NEW x, Wakes(todo', x),
         \A o \in Objects, t \in Threads : o # x /\ ShouldWait(o, t) => ShouldWait(o, t)'
  PROVE  WaitInv'
<1>1. Offers
  BY DEF Offers, StillWakes
<1>2. \A t \in Threads : status'[t] = status[t]
  OBVIOUS
<1> QED
  BY <1>1, <1>2, PlainStep

\* A call on top of the stack that is not about waits.
Unrelated ==
  {"ReleaseThreadMutexes", "UpdatePending", "TerminateProcessThreads", "ScheduleEvent",
   "ResumeAllThreads", "ResumeHighestPriorityThread"}

\* It is over, or makes further plain calls.
LEMMA UnrelatedReturns ==
  ASSUME IInv, IInv', WaitInv, todo # <<>>, Head(todo)[1] \in Unrelated, NEW calls, IsTodo(calls),
         Plain(calls), Return(calls), UNCHANGED <<waitVars, status>>, UNCHANGED Available
  PROVE  WaitInv'
<1>1. PlainCall(Head(todo)) /\ Head(todo)[1] # "WakeupAllWaitingThreads"
  BY DEF Unrelated, PlainCall, Ending, Clears
<1>2. Grows /\ StillWakes
  BY <1>1, ListTypes, PlainReturn
<1> QED
  BY <1>2, QuietWaits

\* The calls of the kernel.
LEMMA KernelCallWaits ==
  ASSUME IInv, IInv', WaitInv, KernelCall
  PROVE  WaitInv'
<1>1. ASSUME NEW t \in Threads, MutexesReleased(t) \/ UpdatedPending(t) PROVE WaitInv'
  <2>1. /\ todo # <<>> /\ Head(todo)[1] \in Unrelated /\ Return(<<>>)
        /\ UNCHANGED <<waitVars, status>> /\ UNCHANGED Available
    BY <1>1 DEF MutexesReleased, UpdatedPending, Calling, Unrelated, Available, threadVars, objectVars,
       lockVars, signalVars
  <2> QED
    BY <2>1, PlainNone, UnrelatedReturns
<1>2. ASSUME NEW t \in Threads, NEW m \in Mutexes, UpdatePending(t, m) PROVE WaitInv'
  <2>1. /\ todo # <<>> /\ Head(todo)[1] \in Unrelated
        /\ UNCHANGED <<waitVars, status>> /\ UNCHANGED Available
    BY <1>2 DEF UpdatePending, Calling, Unrelated, Available, lockVars, signalVars
  <2>2. PICK calls : calls = <<Call("UpdatePending", t, Head(todo)[3] \ {m})>> /\ Return(calls)
    BY <1>2 DEF UpdatePending
  <2>3. IsTodo(calls) /\ Plain(calls)
    BY <2>2, PlainOne DEF OpCalls, Ending
  <2> QED
    BY <2>1, <2>2, <2>3, UnrelatedReturns
<1>3. ASSUME NEW t \in Threads, NEW m \in Mutexes, ReleaseThreadMutexes(t, m) PROVE WaitInv'
  <2>1. /\ todo # <<>> /\ PlainCall(Head(todo))
        /\ UNCHANGED <<waitVars, status>> /\ UNCHANGED <<available_count, signaled>>
        /\ lock_count' = [lock_count EXCEPT ![m] = 0]
        /\ holding_thread' = [holding_thread EXCEPT ![m] = NoThread]
    BY <1>3 DEF ReleaseThreadMutexes, Calling, PlainCall, Ending, Clears, threadVars, signalVars
  <2>2. PICK calls : calls = <<Call("WakeupAllWaitingThreads", m, "Stop")>> /\ todo' = calls \o todo
    BY <1>3 DEF ReleaseThreadMutexes
  <2>3. IsTodo(calls) /\ Plain(calls) /\ Wakes(calls, m)
    BY <2>2, PlainOne DEF OpCalls, Ending
  <2>4. Grows /\ StillWakes /\ Wakes(todo', m)
    BY <2>1, <2>2, <2>3, ListTypes, PlainPush
  <2>5. lock_count \in [Mutexes -> Nat] /\ holding_thread \in [Mutexes -> Threads \cup {NoThread}]
    BY DEF IInv, CallInv, LockTypes
  <2>6. \A o \in Objects, u \in Threads : o # m /\ ShouldWait(o, u) => ShouldWait(o, u)'
    BY <2>1, <2>5 DEF ShouldWait
  <2> QED
    BY <2>1, <2>4, <2>6, FreeingWaits
<1>4. ASSUME NEW p \in Processes, NEW c \in Cores, TerminateNext(p, c) PROVE WaitInv'
  <2>1. /\ todo # <<>> /\ PlainCall(Head(todo)) /\ UNCHANGED waitVars /\ UNCHANGED Available
        /\ UNCHANGED status
    BY <1>4 DEF TerminateNext, Calling, PlainCall, Ending, Clears, Available, threadVars, objectVars,
       lockVars, signalVars
  <2>2. PICK u, calls : calls = <<Call("Stop", u, "Stop")>> /\ todo' = calls \o todo
    BY <1>4 DEF TerminateNext
  <2>3. IsTodo(calls) /\ Plain(calls)
    BY <2>2, PlainOne DEF OpCalls, Ending
  <2>4. Grows /\ StillWakes
    BY <2>1, <2>2, <2>3, ListTypes, PlainPush
  <2> QED
    BY <2>1, <2>4, QuietWaits
<1>5. ASSUME NEW p \in Processes, NEW c \in Cores, TerminateCurrent(p, c) PROVE WaitInv'
  <2>1. /\ todo # <<>> /\ Head(todo)[1] \in Unrelated
        /\ UNCHANGED <<waitVars, status>> /\ UNCHANGED Available
    BY <1>5 DEF TerminateCurrent, Calling, Unrelated, Available, threadVars, objectVars, lockVars,
       signalVars
  <2>2. CASE Return(<<>>)
    BY <2>1, <2>2, PlainNone, UnrelatedReturns
  <2>3. ASSUME NEW u, Return(<<Call("Stop", u, "Stop")>>) PROVE WaitInv'
    <3>1. PICK calls : calls = <<Call("Stop", u, "Stop")>> /\ Return(calls)
      BY <2>3
    <3>2. IsTodo(calls) /\ Plain(calls)
      BY <3>1, PlainOne DEF OpCalls, Ending
    <3> QED
      BY <2>1, <3>1, <3>2, UnrelatedReturns
  <2> QED
    BY <1>5, <2>2, <2>3 DEF TerminateCurrent
<1>6. ASSUME NEW x \in Timers, Rearm(x) PROVE WaitInv'
  <2>1. /\ todo # <<>> /\ Head(todo)[1] \in Unrelated /\ Return(<<>>)
        /\ UNCHANGED <<waitVars, status>> /\ UNCHANGED Available
    BY <1>6 DEF Rearm, Calling, Unrelated, Available, threadVars, objectVars, lockVars, signalVars
  <2> QED
    BY <2>1, PlainNone, UnrelatedReturns
<1> QED
  BY <1>1, <1>2, <1>3, <1>4, <1>5, <1>6, StopWaits DEF KernelCall

\* The calls of the address arbiter.
LEMMA ArbiterCallWaits ==
  ASSUME IInv, IInv', WaitInv, ArbiterCall
  PROVE  WaitInv'
<1>1. ASSUME NEW a \in Addresses, ResumeAllThreads(a) PROVE WaitInv'
  <2>1. /\ todo # <<>> /\ Head(todo)[1] \in Unrelated
        /\ UNCHANGED <<waitVars, status>> /\ UNCHANGED Available
    BY <1>1 DEF ResumeAllThreads, Calling, Unrelated, Available, threadVars, objectVars, lockVars,
       signalVars
  <2>2. PICK found, calls :
          /\ found \in InOrder(Matches(a))
          /\ calls = [i \in DOMAIN found |-> Call("ResumeFromWait", arbiter_threads[found[i]], "keep")]
          /\ Return(calls)
    BY <1>1 DEF ResumeAllThreads
  <2>3. DOMAIN found = 1..Len(found) /\ Len(found) \in Nat
    <3>1. Matches(a) \in SUBSET DOMAIN arbiter_threads /\ arbiter_threads \in Seq(Threads)
      BY DEF Matches, IInv, CallInv, OtherTypes
    <3>2. found \in Seq(DOMAIN arbiter_threads)
      BY <2>2, <3>1, PlacesType
    <3> QED
      BY <3>2, LenProperties
  <2>4. \A i \in DOMAIN calls : calls[i][1] = "ResumeFromWait" /\ calls[i][3] = "keep"
    BY <2>2 DEF Call
  <2>5. calls = [i \in 1..Len(found) |-> calls[i]] /\ \A i \in 1..Len(found) : calls[i][1] \in OpCalls
    BY <2>2, <2>3, <2>4 DEF OpCalls
  <2>6. IsTodo(calls)
    BY <2>3, <2>5, TodoFunction
  <2>7. Plain(calls)
    BY <2>4 DEF Plain, PlainCall, Ending, Clears
  <2> QED
    BY <2>1, <2>2, <2>6, <2>7, UnrelatedReturns
<1>2. ASSUME NEW a \in Addresses, ResumeHighestPriorityThread(a) PROVE WaitInv'
  <2>1. /\ todo # <<>> /\ Head(todo)[1] \in Unrelated
        /\ UNCHANGED <<waitVars, status>> /\ UNCHANGED Available
    BY <1>2 DEF ResumeHighestPriorityThread, Calling, Unrelated, Available, threadVars, objectVars,
       lockVars, signalVars
  <2>2. CASE Return(<<>>)
    BY <2>1, <2>2, PlainNone, UnrelatedReturns
  <2>3. ASSUME NEW u, Return(<<Call("ResumeFromWait", u, "keep")>>) PROVE WaitInv'
    <3>1. PICK calls : calls = <<Call("ResumeFromWait", u, "keep")>> /\ Return(calls)
      BY <2>3
    <3>2. IsTodo(calls) /\ Plain(calls)
      BY <3>1, PlainOne DEF OpCalls, Ending
    <3> QED
      BY <2>1, <3>1, <3>2, UnrelatedReturns
  <2>4. Return(<<>>) \/ \E u : Return(<<Call("ResumeFromWait", u, "keep")>>)
    BY <1>2 DEF ResumeHighestPriorityThread
  <2> QED
    BY <2>2, <2>3, <2>4
<1>3. ASSUME NEW t \in Threads, ArbiterWakeUp(t) PROVE WaitInv'
  <2>1. /\ todo # <<>> /\ Head(todo)[1] = "WakeUp" /\ Return(<<>>) /\ UNCHANGED <<waitVars, status>>
        /\ UNCHANGED Available
    BY <1>3 DEF ArbiterWakeUp, Calling, Available, threadVars, objectVars, lockVars, signalVars
  <2>2. NothingFreed
    BY <2>1 DEF NothingFreed, ShouldWait, Available
  <2>3. \A m \in Mutexes, u \in Threads :
          holding_thread[m] = u \/ Head(todo) = Call("Acquire", u, m) => holding_thread'[m] = u
    BY <2>1 DEF Available, Call
  <2> QED
    BY <2>1, <2>2, <2>3, GrantStep
<1> QED
  BY <1>1, <1>2, <1>3 DEF ArbiterCall

\* The acquisitions, and the callback of svcWaitSynchronization.
LEMMA AcquireWaits ==
  ASSUME IInv, WaitInv, panic' = "none", NEW t \in Threads,
         \/ \E m \in Mutexes : AcquireMutex(t, m)
         \/ \E s \in Semaphores : AcquireSemaphore(t, s)
         \/ \E e \in Signals : AcquireSignal(t, e)
         \/ \E u \in Threads : AcquireThread(t, u)
         \/ SyncWakeUp(t)
  PROVE  WaitInv'
<1>1. /\ todo # <<>> /\ Head(todo)[1] \in {"Acquire", "WakeUp"} /\ Return(<<>>)
      /\ UNCHANGED <<waitVars, status>>
  BY DEF AcquireMutex, AcquireSemaphore, AcquireSignal, AcquireThread, SyncWakeUp, Calling, threadVars,
     objectVars
<1>2. /\ lock_count \in [Mutexes -> Nat] /\ holding_thread \in [Mutexes -> Threads \cup {NoThread}]
      /\ \A m \in Mutexes : lock_count[m] > 0 <=> holding_thread[m] # NoThread
      /\ available_count \in [Semaphores -> S32] /\ signaled \in [Signals -> BOOLEAN]
  BY DEF IInv, CallInv, LockTypes, LocksOK, ObjectTypes
<1>3. ASSUME NEW m \in Mutexes, AcquireMutex(t, m) PROVE WaitInv'
  <2>1. /\ Head(todo) = Call("Acquire", t, m) /\ ~ShouldWait(m, t) /\ panic = "none"
        /\ UNCHANGED <<available_count, signaled>>
        /\ lock_count' = [lock_count EXCEPT ![m] = @ + 1]
        /\ holding_thread' = IF lock_count[m] = 0 THEN [holding_thread EXCEPT ![m] = t] ELSE holding_thread
    BY <1>3 DEF AcquireMutex, Calling, AssertThat, signalVars
  <2>2. holding_thread'[m] = t /\ lock_count'[m] > 0
    BY <1>2, <2>1 DEF ShouldWait
  <2>3. \A n \in Mutexes : n # m => holding_thread'[n] = holding_thread[n] /\ lock_count'[n] = lock_count[n]
    BY <1>2, <2>1
  <2>4. holding_thread[m] = NoThread \/ holding_thread[m] = t
    BY <1>2, <2>1 DEF ShouldWait
  <2>5. NothingFreed
    <3> SUFFICES ASSUME NEW o \in Objects, NEW u \in Threads, ShouldWait(o, u) PROVE ShouldWait(o, u)'
      BY DEF NothingFreed
    <3>1. CASE o # m
      BY <1>1, <2>1, <2>3, <3>1 DEF ShouldWait
    <3>2. CASE o = m
      <4>1. o \notin Semaphores \cup Signals \cup Threads
        BY <3>2, KindsAssumption
      <4>2. lock_count[m] > 0 /\ holding_thread[m] # u
        BY <3>2, <4>1 DEF ShouldWait
      <4>3. holding_thread'[m] # u
        BY <1>2, <2>2, <2>4, <4>2
      <4> QED
        BY <2>2, <3>2, <4>3 DEF ShouldWait
    <3> QED
      BY <3>1, <3>2
  <2>6. \A n \in Mutexes, u \in Threads :
          holding_thread[n] = u \/ Head(todo) = Call("Acquire", u, n) => holding_thread'[n] = u
    BY <2>1, <2>2, <2>3, <2>4, ThreadsAssumption DEF Call
  <2> QED
    BY <1>1, <2>5, <2>6, GrantStep
<1>4. ASSUME NEW o \in Objects \ Mutexes, Head(todo) = Call("Acquire", t, o),
             UNCHANGED <<lock_count, holding_thread>>,
             \A s \in Semaphores : available_count[s] <= 0 => available_count'[s] <= 0,
             \A e \in Signals : ~signaled[e] => ~(signaled'[e])
      PROVE  WaitInv'
  <2>1. NothingFreed
    BY <1>1, <1>4 DEF NothingFreed, ShouldWait
  <2>2. \A n \in Mutexes, u \in Threads :
          holding_thread[n] = u \/ Head(todo) = Call("Acquire", u, n) => holding_thread'[n] = u
    BY <1>4 DEF Call
  <2> QED
    BY <1>1, <2>1, <2>2, GrantStep
<1>5. CASE SyncWakeUp(t)
  <2>1. Head(todo)[1] = "WakeUp" /\ UNCHANGED Available
    BY <1>5 DEF SyncWakeUp, Calling, Available, objectVars, lockVars, signalVars
  <2>2. NothingFreed
    BY <1>1, <2>1 DEF NothingFreed, ShouldWait, Available
  <2>3. \A m \in Mutexes, u \in Threads :
          holding_thread[m] = u \/ Head(todo) = Call("Acquire", u, m) => holding_thread'[m] = u
    BY <2>1 DEF Available, Call
  <2> QED
    BY <1>1, <2>2, <2>3, GrantStep
<1>6. Semaphores \subseteq Objects \ Mutexes /\ Signals \subseteq Objects \ Mutexes
      /\ Threads \subseteq Objects \ Mutexes
  BY KindsAssumption DEF Objects
<1>7. ASSUME NEW s \in Semaphores, AcquireSemaphore(t, s) PROVE WaitInv'
  <2>1. /\ Head(todo) = Call("Acquire", t, s) /\ UNCHANGED <<lock_count, holding_thread, signaled>>
        /\ available_count' = [available_count EXCEPT ![s] = IF @ <= 0 THEN @ ELSE @ - 1]
    BY <1>7 DEF AcquireSemaphore, lockVars
  <2>2. \A x \in Semaphores : available_count[x] <= 0 => available_count'[x] <= 0
    BY <1>2, <2>1
  <2> QED
    BY <1>4, <1>6, <2>1, <2>2
<1>8. ASSUME NEW e \in Signals, AcquireSignal(t, e) PROVE WaitInv'
  <2>1. /\ Head(todo) = Call("Acquire", t, e) /\ UNCHANGED <<lock_count, holding_thread, available_count>>
        /\ signaled' = [signaled EXCEPT ![e] = @ /\ ResetType[e] # "OneShot"]
    BY <1>8 DEF AcquireSignal, lockVars
  <2>2. \A x \in Signals : ~signaled[x] => ~(signaled'[x])
    BY <1>2, <2>1
  <2> QED
    BY <1>4, <1>6, <2>1, <2>2
<1>9. ASSUME NEW u \in Threads, AcquireThread(t, u) PROVE WaitInv'
  <2>1. Head(todo) = Call("Acquire", t, u) /\ UNCHANGED Available
    BY <1>9 DEF AcquireThread, Available, objectVars, lockVars, signalVars
  <2> QED
    BY <1>4, <1>6, <2>1 DEF Available
<1> QED
  BY <1>3, <1>5, <1>7, <1>8, <1>9

\* A nonempty set of natural numbers has a least element.
LEMMA LeastNat ==
  ASSUME NEW S, S \subseteq Nat, S # {}
  PROVE  \E x \in S : \A y \in S : x <= y
<1>1. PICK R : R = OpToRel(<, Nat)
  OBVIOUS
<1>2. \A y, z \in Nat : y < z => <<y, z>> \in R
  BY <1>1, Zenon DEF OpToRel
<1>3. IsWellFoundedOn(R, Nat)
  BY <1>1, NatLessThanWellFounded, Zenon
<1>4. PICK x \in S : \A y \in S : ~ (<<y, x>> \in R)
  BY <1>3, WFMin
<1>5. ASSUME NEW y \in S PROVE x <= y
  <2>1. ~ (y < x)
    BY <1>2, <1>4, Zenon
  <2> QED
    BY <2>1
<1> QED
  BY <1>5

\* GetHighestPriorityReadyThread finds a thread if any waiter is ready.
LEMMA CandidateFound ==
  ASSUME IInv, NEW o \in Objects, Candidate(o) = {}, NEW t \in Threads, Waiting(t, o)
  PROVE  ~ReadyFor(t, o)
<1>1. waiting_threads[o] \in Seq(Threads) /\ current_priority \in [Threads -> Priorities]
  BY ListTypes DEF IInv, QueueInv, QueueTypes
<1>2. PICK ws : ws = waiting_threads[o]
  OBVIOUS
<1>3. /\ DOMAIN ws = 1..Len(ws) /\ Len(ws) \in Nat /\ \A i \in DOMAIN ws : ws[i] \in Threads
  BY <1>1, <1>2, LenProperties, ElementOfSeq
<1>4. PICK n \in DOMAIN ws : ws[n] = t
  BY <1>1, <1>2, <1>3, ToSetMember DEF Waiting
<1> SUFFICES ASSUME ReadyFor(t, o) PROVE FALSE
  OBVIOUS
<1>5. PICK R : R = {i \in DOMAIN ws : ReadyFor(ws[i], o)}
  OBVIOUS
<1>6. PICK P : P = {current_priority[ws[i]] : i \in R}
  OBVIOUS
<1>7. n \in R /\ P # {} /\ P \subseteq Nat /\ R \subseteq Nat
  BY <1>1, <1>3, <1>4, <1>5, <1>6, PriorityAssumption DEF Priorities
<1>8. PICK p \in P : \A q \in P : p <= q
  BY <1>7, LeastNat
<1>9. PICK B : B = {i \in R : current_priority[ws[i]] = p}
  OBVIOUS
<1>10. B # {} /\ B \subseteq Nat
  BY <1>6, <1>7, <1>8, <1>9
<1>11. PICK k \in B : \A j \in B : k <= j
  BY <1>10, LeastNat
<1>12. k \in DOMAIN ws /\ ReadyFor(ws[k], o) /\ current_priority[ws[k]] = p
  BY <1>5, <1>9, <1>11
<1>13. ASSUME NEW j \in DOMAIN ws, ReadyFor(ws[j], o)
       PROVE  \/ current_priority[ws[k]] < current_priority[ws[j]]
              \/ (current_priority[ws[k]] = current_priority[ws[j]] /\ k <= j)
  <2>1. j \in R /\ current_priority[ws[j]] \in P
    BY <1>5, <1>6, <1>13
  <2>2. CASE current_priority[ws[j]] = p
    BY <1>9, <1>11, <1>12, <2>1, <2>2
  <2>3. CASE current_priority[ws[j]] # p
    <3>1. p \in Nat /\ current_priority[ws[j]] \in Nat /\ p <= current_priority[ws[j]]
      BY <1>7, <1>8, <2>1
    <3>2. p < current_priority[ws[j]]
      BY <2>3, <3>1
    <3> QED
      BY <1>12, <3>2
  <2> QED
    BY <2>2, <2>3
<1>14. k \in Candidate(o)
  BY <1>2, <1>12, <1>13 DEF Candidate
<1> QED
  BY <1>14

\* WakeupAllWaitingThreads is over.
LEMMA WakeupDoneWaits ==
  ASSUME IInv, IInv', WaitInv, NEW o \in Objects, WakeupDone(o)
  PROVE  WaitInv'
<1>1. /\ todo # <<>> /\ Head(todo)[1] = "WakeupAllWaitingThreads" /\ Head(todo)[2] = o
      /\ Candidate(o) = {} /\ Return(<<>>) /\ UNCHANGED <<waitVars, status>>
      /\ UNCHANGED <<lock_count, holding_thread, available_count>>
      /\ signaled' = IF o \in Signals /\ ResetType[o] = "Pulse"
                     THEN [signaled EXCEPT ![o] = FALSE] ELSE signaled
  BY DEF WakeupDone, Calling, threadVars, lockVars
<1>2. IsTodo(todo) /\ signaled \in [Signals -> BOOLEAN]
  BY ListTypes DEF IInv, CallInv, ObjectTypes
<1>3. Grows
  <2>1. PlainCall(Head(todo))
    BY <1>1 DEF PlainCall, Ending, Clears
  <2>2. todo' = <<>> \o Tail(todo)
    BY <1>1 DEF Return
  <2> QED
    BY <1>1, <2>1, <2>2, PlainNone DEF Grows
<1>4. \A x : Wakes(todo, x) => Wakes(todo', x) \/ x = o
  BY <1>1, <1>2, PopFacts
<1>5. \A x \in Objects, t \in Threads : ~(ShouldWait(x, t)') => ~ShouldWait(x, t)
  <2>1. \A e \in Signals : ~signaled[e] => ~(signaled'[e])
    BY <1>1, <1>2
  <2> QED
    BY <1>1, <2>1 DEF ShouldWait
<1>6. Offers
  BY <1>1, <1>4, <1>5, CandidateFound DEF Offers
<1>7. \A t \in Threads : status'[t] = status[t]
  BY <1>1
<1> QED
  BY <1>1, <1>3, <1>6, <1>7, PlainStep

\* A thread is resumed that waited for no objects.
LEMMA KeepWaits ==
  ASSUME IInv, IInv', WaitInv, panic' = "none", NEW t \in Threads, ResumeFromWait(t),
         Head(todo)[3] # "clear"
  PROVE  WaitInv'
<1>1. /\ todo # <<>> /\ Head(todo)[1] = "ResumeFromWait" /\ Return(<<>>) /\ wait_objects[t] = <<>>
      /\ status[t] # "Dead" /\ UNCHANGED waitVars /\ UNCHANGED Available
      /\ status' = status \/ status' = [status EXCEPT ![t] = "Ready"]
  BY DEF ResumeFromWait, Calling, waitVars, Available, lockVars, signalVars
<1>2. PlainCall(Head(todo)) /\ Head(todo)[1] # "WakeupAllWaitingThreads"
  BY <1>1 DEF PlainCall, Ending, Clears
<1>3. Grows /\ StillWakes
  BY <1>1, <1>2, ListTypes, PlainNone, PlainReturn
<1>4. \A u \in Threads : status'[u] = status[u] \/ Settles(u)
  BY <1>1, ListTypes DEF Settles, Synching
<1> QED
  BY <1>1, <1>3, <1>4, QuietWaits

\* The calls on objects.
LEMMA ObjectCallWaits ==
  ASSUME IInv, IInv', WaitInv, panic' = "none", ObjectCall
  PROVE  WaitInv'
BY AcquireWaits, AddWaitingThreadWaits, RemoveWaitingThreadWaits, WakeupNextWaits, WakeupDoneWaits,
   ResumeFromWaitWaits, KeepWaits DEF ObjectCall

-----------------------------------------------------------------------------
\* The steps between two calls.

\* A first call that leaves the lists alone, and wakes the waiters of what it
\* makes available.
LEMMA RestWaits ==
  ASSUME IInv, IInv', WaitInv, todo = <<>>, IsTodo(todo'), Plain(todo'), UNCHANGED waitVars,
         \A o \in Objects, t \in Threads : ShouldWait(o, t) => ShouldWait(o, t)' \/ Wakes(todo', o),
         \A t \in Threads : status'[t] = status[t] \/ Settles(t)
  PROVE  WaitInv'
<1>1. Grows /\ StillWakes
  BY PlainStart
<1>2. Offers
  BY <1>1 DEF Offers, StillWakes
<1> QED
  BY <1>1, <1>2, PlainStep

\* The same when nothing becomes available.
LEMMA RestQuiet ==
  ASSUME IInv, IInv', WaitInv, todo = <<>>, IsTodo(todo'), Plain(todo'), UNCHANGED waitVars,
         UNCHANGED Available, \A t \in Threads : status'[t] = status[t] \/ Settles(t)
  PROVE  WaitInv'
BY PlainStart, QuietWaits

\* A thread that was not asleep changes its status.
LEMMA SettlesAlone ==
  ASSUME IInv, WaitInv, NEW t \in Threads, status[t] \notin Synching, todo = <<>>,
         NEW s, s \notin Synching \cup {"Dead"}, status' = [status EXCEPT ![t] = s]
  PROVE  \A u \in Threads : status'[u] = status[u] \/ Settles(u)
<1>1. wait_objects[t] = <<>>
  BY DEF WaitInv, ListedOK
<1>2. status'[t] = s /\ \A u \in Threads : u # t => status'[u] = status[u]
  BY ListTypes
<1> QED
  BY <1>1, <1>2 DEF Settles

\* A step of the run loop.
LEMMA RunLoopWaits ==
  ASSUME IInv, IInv', WaitInv, RunLoop
  PROVE  WaitInv'
<1>1. todo = <<>> /\ todo' = todo /\ UNCHANGED waitVars /\ UNCHANGED Available
  BY DEF RunLoop, BeginRound, EndAdvance, EndSlice, Advancing, Executing, AtRest, objectVars, Available,
     lockVars, signalVars
<1>2. IsTodo(todo') /\ Plain(todo')
  BY <1>1, PlainNone
<1>3. status \in [Threads -> Statuses]
  BY ListTypes
<1>4. ASSUME NEW c \in Cores, Reschedule(c), NEW u \in Threads PROVE status'[u] = status[u] \/ Settles(u)
  <2>1. PICK next \in Threads \cup {NoThread} : SwitchContext(c, next)
    BY <1>4 DEF Reschedule
  <2>2. PICK stopped :
          /\ stopped = IF RunningOn(c) THEN [status EXCEPT ![current_thread[c]] = "Ready"] ELSE status
          /\ status' = IF next # NoThread /\ stopped[next] = "Ready"
                       THEN [stopped EXCEPT ![next] = "Running"] ELSE stopped
    BY <2>1 DEF SwitchContext
  <2>3. /\ stopped \in [Threads -> Statuses]
        /\ stopped[u] = status[u] \/ (status[u] = "Running" /\ stopped[u] = "Ready")
    BY <1>3, <2>2 DEF RunningOn, Statuses
  <2>4. status'[u] = stopped[u] \/ (stopped[u] = "Ready" /\ status'[u] = "Running")
    BY <2>2, <2>3
  <2>5. \/ status'[u] = status[u]
        \/ status[u] \in {"Ready", "Running"} /\ status'[u] \in {"Ready", "Running"}
    BY <2>3, <2>4
  <2> QED
    BY <1>1, <2>5 DEF Settles, Synching, WaitInv, ListedOK
<1>5. \A u \in Threads : status'[u] = status[u] \/ Settles(u)
  BY <1>4 DEF RunLoop, BeginRound, EndAdvance, EndSlice, threadVars
<1> QED
  BY <1>1, <1>2, <1>5, RestQuiet

\* A thread is created.
LEMMA CreateThreadWaits ==
  ASSUME IInv, IInv', WaitInv, todo = <<>>, NEW t \in Threads, CreateThread(t), UNCHANGED objectVars
  PROVE  WaitInv'
<1>1. /\ todo' = todo /\ UNCHANGED waitVars /\ UNCHANGED Available /\ status[t] \notin Synching
      /\ status' = [status EXCEPT ![t] = "Ready"]
  BY DEF CreateThread, objectVars, Available, lockVars, signalVars, Synching
<1>2. "Ready" \notin Synching \cup {"Dead"}
  BY DEF Synching
<1>3. \A u \in Threads : status'[u] = status[u] \/ Settles(u)
  BY <1>1, <1>2, SettlesAlone
<1> QED
  BY <1>1, <1>3, PlainNone, RestQuiet

\* A timer expires: its waiters are woken, and it may be armed again.
LEMMA TimerSignalPlain ==
  ASSUME NEW x, NEW again \in BOOLEAN, NEW calls, calls = TimerSignal(x, again)
  PROVE  IsTodo(calls) /\ Plain(calls) /\ Wakes(calls, x)
<1>1. PICK a : a = <<Call("WakeupAllWaitingThreads", x, "Signal")>>
  OBVIOUS
<1>2. PICK b : b = IF again THEN <<Call("ScheduleEvent", x, "Signal")>> ELSE <<>>
  OBVIOUS
<1>3. IsTodo(a) /\ Plain(a) /\ Wakes(a, x)
  BY <1>1, PlainOne DEF OpCalls, Ending
<1>4. IsTodo(b) /\ Plain(b)
  <2>1. CASE again
    <3>1. b = <<Call("ScheduleEvent", x, "Signal")>>
      BY <1>2, <2>1
    <3> QED
      BY <3>1, PlainOne DEF OpCalls, Ending
  <2>2. CASE ~again
    BY <1>2, <2>2, PlainNone
  <2> QED
    BY <2>1, <2>2
<1>5. calls = a \o b
  BY <1>1, <1>2 DEF TimerSignal
<1>6. IsTodo(calls) /\ Wakes(calls, x)
  BY <1>3, <1>4, <1>5, HasConcat
<1>7. \A i \in DOMAIN calls : (i \in DOMAIN a /\ calls[i] = a[i]) \/ \E k \in DOMAIN b : calls[i] = b[k]
  BY <1>3, <1>4, <1>5, StackConcat DEF Stacked
<1>8. Plain(calls)
  BY <1>3, <1>4, <1>7 DEF Plain
<1> QED
  BY <1>6, <1>8

\* An event or a timer is signaled and its waiters are woken.
LEMMA SignaledWaits ==
  ASSUME IInv, IInv', WaitInv, todo = <<>>, NEW e \in Signals,
         signaled' = [signaled EXCEPT ![e] = TRUE],
         IsTodo(todo'), Plain(todo'), Wakes(todo', e),
         UNCHANGED <<status, waitVars, lock_count, holding_thread, available_count>>
  PROVE  WaitInv'
<1>1. signaled \in [Signals -> BOOLEAN]
  BY DEF IInv, CallInv, ObjectTypes
<1>2. \A x \in Signals : x # e => signaled'[x] = signaled[x]
  BY <1>1
<1>3. ASSUME NEW o \in Objects, NEW t \in Threads, ShouldWait(o, t) PROVE ShouldWait(o, t)' \/ Wakes(todo', o)
  BY <1>2, <1>3 DEF ShouldWait
<1>4. \A t \in Threads : status'[t] = status[t]
  OBVIOUS
<1> QED
  BY <1>3, <1>4, RestWaits

\* An event of the timing queue fires.
LEMMA CallbackWaits ==
  ASSUME IInv, IInv', WaitInv, Callback
  PROVE  WaitInv'
<1>1. ASSUME NEW c \in Cores, NEW t \in Threads, ThreadWakeupCallback(c, t) PROVE WaitInv'
  <2>1. todo = <<>> /\ UNCHANGED <<status, objectVars>>
    BY <1>1 DEF ThreadWakeupCallback, Advancing, AtRest, threadVars
  <2>2. CASE status[t] \in {"WaitSynchAny", "WaitSynchAll", "WaitArb"}
    <3>1. todo' = EndWait(t, "Timeout") /\ status[t] # "Dead"
      BY <1>1, <2>2 DEF ThreadWakeupCallback
    <3> QED
      BY <2>1, <3>1, TimeoutWaits
  <2>3. CASE status[t] \notin {"WaitSynchAny", "WaitSynchAll", "WaitArb"}
    <3>1. todo' = <<Call("ResumeFromWait", t, "keep")>>
      BY <1>1, <2>3 DEF ThreadWakeupCallback
    <3>2. IsTodo(todo') /\ Plain(todo')
      BY <3>1, PlainOne DEF OpCalls, Ending
    <3>3. UNCHANGED waitVars /\ UNCHANGED Available /\ \A u \in Threads : status'[u] = status[u]
      BY <2>1 DEF objectVars, Available, lockVars, signalVars
    <3> QED
      BY <2>1, <3>2, <3>3, RestQuiet
  <2> QED
    BY <2>2, <2>3
<1>2. ASSUME NEW c \in Cores, NEW x \in Timers, TimerCallback(c, x) PROVE WaitInv'
  <2>1. /\ todo = <<>> /\ signaled' = [signaled EXCEPT ![x] = TRUE]
        /\ todo' = TimerSignal(x, periodic[x])
        /\ UNCHANGED <<status, waitVars, lock_count, holding_thread, available_count>>
    BY <1>2 DEF TimerCallback, Advancing, AtRest, threadVars, lockVars
  <2>2. periodic[x] \in BOOLEAN /\ x \in Signals
    BY DEF IInv, CallInv, ObjectTypes, Signals
  <2>3. IsTodo(todo') /\ Plain(todo') /\ Wakes(todo', x)
    BY <2>1, <2>2, TimerSignalPlain
  <2> QED
    BY <2>1, <2>2, <2>3, SignaledWaits
<1> QED
  BY <1>1, <1>2 DEF Callback

\* svcWaitSynchronization1, svcWaitSynchronizationN and svcSleepThread.
LEMMA WaitSvcWaits ==
  ASSUME IInv, IInv', WaitInv, NEW t \in Threads, WaitSvc(t)
  PROVE  WaitInv'
<1>1. ASSUME NEW objects \in program.handles[t], NEW delay \in program.delays,
             \/ Len(objects) = 1 /\ WaitSynchronization1(t, objects[1], delay)
             \/ WaitSynchronizationAny(t, objects, delay)
             \/ WaitSynchronizationAll(t, objects, delay)
      PROVE  WaitInv'
  <2>1. objects \in Seq(Objects) /\ DOMAIN objects = 1..Len(objects)
    <3>1. objects \in Seq(Objects)
      BY KernelAssumption DEF IInv
    <3> QED
      BY <3>1, LenProperties
  <2>2. \A i \in DOMAIN objects : objects[i] \in Objects /\ <<objects[i]>> \in Seq(Objects)
    BY <2>1, ElementOfSeq
  <2>3. Executes(t)
    BY <1>1 DEF WaitSynchronization1, WaitSynchronizationAny, WaitSynchronizationAll
  <2>4. "WaitSynchAny" \in Synching /\ "WaitSynchAll" \in Synching
    BY DEF Synching
  <2>5. CASE Len(objects) = 1 /\ WaitSynchronization1(t, objects[1], delay)
    <3>1. 1 \in DOMAIN objects
      BY <2>1, <2>5
    <3>2. PICK one : one = <<objects[1]>>
      OBVIOUS
    <3>3. one \in Seq(Objects)
      BY <2>2, <3>1, <3>2
    <3>4. CASE ShouldWait(objects[1], t)
      <4>1. Sleep(t, one, "WaitSynchAny", delay)
        BY <2>5, <3>2, <3>4 DEF WaitSynchronization1
      <4>2. \A i \in DOMAIN one : ShouldWait(one[i], t)
        BY <3>2, <3>4
      <4> QED
        BY <2>3, <2>4, <3>3, <4>1, <4>2, SleepWaits
    <3>5. CASE ~ShouldWait(objects[1], t)
      <4>1. Take(t, one)
        BY <2>5, <3>2, <3>5 DEF WaitSynchronization1
      <4> QED
        BY <2>3, <3>3, <4>1, TakeWaits
    <3> QED
      BY <3>4, <3>5
  <2>6. CASE WaitSynchronizationAny(t, objects, delay)
    <3>1. ASSUME NEW i \in DOMAIN objects, Take(t, <<objects[i]>>) PROVE WaitInv'
      <4>1. PICK one : one = <<objects[i]>> /\ one \in Seq(Objects) /\ Take(t, one)
        BY <2>2, <3>1
      <4> QED
        BY <2>3, <4>1, TakeWaits
    <3>2. ASSUME \A i \in DOMAIN objects : ShouldWait(objects[i], t),
                 Sleep(t, objects, "WaitSynchAny", delay)
          PROVE  WaitInv'
      BY <2>1, <2>3, <2>4, <3>2, SleepWaits
    <3> QED
      BY <2>6, <3>1, <3>2 DEF WaitSynchronizationAny
  <2>7. CASE WaitSynchronizationAll(t, objects, delay)
    <3>1. ASSUME Take(t, objects) PROVE WaitInv'
      BY <2>1, <2>3, <3>1, TakeWaits
    <3>2. ASSUME \E i \in DOMAIN objects : ShouldWait(objects[i], t),
                 Sleep(t, objects, "WaitSynchAll", delay)
          PROVE  WaitInv'
      BY <2>1, <2>3, <2>4, <3>2, SleepWaits
    <3> QED
      BY <2>7, <3>1, <3>2 DEF WaitSynchronizationAll
  <2> QED
    BY <1>1, <2>5, <2>6, <2>7
<1>2. ASSUME NEW delay, SleepThread(t, delay) PROVE WaitInv'
  <2>1. /\ Executes(t) /\ todo' = todo /\ UNCHANGED waitVars /\ UNCHANGED Available
        /\ status' = [status EXCEPT ![t] = "WaitSleep"]
    BY <1>2 DEF SleepThread, objectVars, Available, lockVars, signalVars
  <2>2. todo = <<>> /\ status[t] \notin Synching /\ "WaitSleep" \notin Synching \cup {"Dead"}
    BY <2>1, ExecutesFacts DEF Synching
  <2>3. \A u \in Threads : status'[u] = status[u] \/ Settles(u)
    BY <2>1, <2>2, SettlesAlone
  <2> QED
    BY <2>1, <2>2, <2>3, PlainNone, RestQuiet
<1> QED
  BY <1>1, <1>2 DEF WaitSvc

\* A thread releases a mutex that it holds.
LEMMA ReleaseMutexWaits ==
  ASSUME IInv, IInv', WaitInv, NEW t \in Threads, NEW m \in Mutexes, ReleaseMutex(t, m)
  PROVE  WaitInv'
<1>1. /\ todo = <<>> /\ holding_thread[m] = t /\ lock_count[m] > 0
      /\ lock_count' = [lock_count EXCEPT ![m] = @ - 1]
      /\ UNCHANGED <<status, waitVars, available_count, signaled>>
  BY DEF ReleaseMutex, Executes, Executing, AtRest, signalVars
<1>2. lock_count \in [Mutexes -> Nat] /\ holding_thread \in [Mutexes -> Threads \cup {NoThread}]
  BY DEF IInv, CallInv, LockTypes
<1>3. \A u \in Threads : status'[u] = status[u]
  BY <1>1
<1>4. \A n \in Mutexes : n # m => lock_count'[n] = lock_count[n]
  BY <1>1, <1>2
<1>5. CASE lock_count[m] = 1
  <2>1. /\ holding_thread' = [holding_thread EXCEPT ![m] = NoThread]
        /\ todo' = <<Call("WakeupAllWaitingThreads", m, "Release")>>
    BY <1>5 DEF ReleaseMutex
  <2>2. IsTodo(todo') /\ Plain(todo') /\ Wakes(todo', m)
    BY <2>1, PlainOne DEF OpCalls, Ending
  <2>3. \A n \in Mutexes : n # m => holding_thread'[n] = holding_thread[n]
    BY <1>2, <2>1
  <2>4. ASSUME NEW o \in Objects, NEW u \in Threads, ShouldWait(o, u)
        PROVE  ShouldWait(o, u)' \/ Wakes(todo', o)
    BY <1>1, <1>4, <2>2, <2>3, <2>4 DEF ShouldWait
  <2> QED
    BY <1>1, <1>3, <2>2, <2>4, RestWaits
<1>6. CASE lock_count[m] # 1
  <2>1. holding_thread' = holding_thread /\ todo' = todo
    BY <1>6 DEF ReleaseMutex
  <2>2. lock_count'[m] > 0
    BY <1>1, <1>2, <1>6
  <2>3. ASSUME NEW o \in Objects, NEW u \in Threads, ShouldWait(o, u) PROVE ShouldWait(o, u)'
    BY <1>1, <1>4, <2>1, <2>2, <2>3 DEF ShouldWait
  <2> QED
    BY <1>1, <1>3, <2>1, <2>3, PlainNone, RestWaits
<1> QED
  BY <1>5, <1>6

\* svcReleaseMutex, svcReleaseSemaphore, svcSignalEvent, svcClearEvent, and the
\* calls on timers.
LEMMA SignalSvcWaits ==
  ASSUME IInv, IInv', WaitInv, NEW t \in Threads, SignalSvc(t)
  PROVE  WaitInv'
<1>1. ASSUME NEW s \in Semaphores, NEW n \in program.counts, ReleaseSemaphore(t, s, n) PROVE WaitInv'
  <2>1. /\ todo = <<>> /\ todo' = <<Call("WakeupAllWaitingThreads", s, "Release")>>
        /\ available_count' = [available_count EXCEPT ![s] = Wrap(@ + n)]
        /\ UNCHANGED <<status, waitVars, lock_count, holding_thread, signaled>>
    BY <1>1 DEF ReleaseSemaphore, Executes, Executing, AtRest, threadVars, lockVars
  <2>2. IsTodo(todo') /\ Plain(todo') /\ Wakes(todo', s)
    BY <2>1, PlainOne DEF OpCalls, Ending
  <2>3. available_count \in [Semaphores -> S32]
    BY DEF IInv, CallInv, ObjectTypes
  <2>4. \A x \in Semaphores : x # s => available_count'[x] = available_count[x]
    BY <2>1, <2>3
  <2>5. ASSUME NEW o \in Objects, NEW u \in Threads, ShouldWait(o, u)
        PROVE  ShouldWait(o, u)' \/ Wakes(todo', o)
    BY <2>1, <2>2, <2>4, <2>5 DEF ShouldWait
  <2>6. \A u \in Threads : status'[u] = status[u]
    BY <2>1
  <2> QED
    BY <2>1, <2>2, <2>5, <2>6, RestWaits
<1>2. ASSUME NEW e \in Events, SignalEvent(t, e) PROVE WaitInv'
  <2>1. /\ todo = <<>> /\ todo' = <<Call("WakeupAllWaitingThreads", e, "Signal")>>
        /\ signaled' = [signaled EXCEPT ![e] = TRUE] /\ e \in Signals
        /\ UNCHANGED <<status, waitVars, lock_count, holding_thread, available_count>>
    BY <1>2 DEF SignalEvent, Executes, Executing, AtRest, threadVars, lockVars, Signals
  <2>2. IsTodo(todo') /\ Plain(todo') /\ Wakes(todo', e)
    BY <2>1, PlainOne DEF OpCalls, Ending
  <2> QED
    BY <2>1, <2>2, SignaledWaits
<1>3. ASSUME NEW e \in Signals, Clear(t, e) PROVE WaitInv'
  <2>1. /\ todo = <<>> /\ todo' = todo /\ signaled' = [signaled EXCEPT ![e] = FALSE]
        /\ UNCHANGED <<status, waitVars, lock_count, holding_thread, available_count>>
    BY <1>3 DEF Clear, Executes, Executing, AtRest, threadVars, lockVars
  <2>2. signaled \in [Signals -> BOOLEAN]
    BY DEF IInv, CallInv, ObjectTypes
  <2>3. \A x \in Signals : ~signaled[x] => ~(signaled'[x])
    BY <2>1, <2>2
  <2>4. ASSUME NEW o \in Objects, NEW u \in Threads, ShouldWait(o, u) PROVE ShouldWait(o, u)'
    BY <2>1, <2>3, <2>4 DEF ShouldWait
  <2>5. \A u \in Threads : status'[u] = status[u]
    BY <2>1
  <2> QED
    BY <2>1, <2>4, <2>5, PlainNone, RestWaits
<1>4. ASSUME NEW x \in Timers, NEW now \in BOOLEAN, NEW again \in BOOLEAN, SetTimer(t, x, now, again)
      PROVE  WaitInv'
  <2>1. /\ todo = <<>> /\ x \in Signals
        /\ UNCHANGED <<status, waitVars, lock_count, holding_thread, available_count>>
    BY <1>4 DEF SetTimer, Executes, Executing, AtRest, threadVars, lockVars, Signals
  <2>2. CASE now
    <3>1. todo' = TimerSignal(x, again) /\ signaled' = [signaled EXCEPT ![x] = TRUE]
      BY <1>4, <2>2 DEF SetTimer
    <3>2. IsTodo(todo') /\ Plain(todo') /\ Wakes(todo', x)
      BY <3>1, TimerSignalPlain
    <3> QED
      BY <2>1, <3>1, <3>2, SignaledWaits
  <2>3. CASE ~now
    <3>1. todo' = todo /\ UNCHANGED waitVars /\ UNCHANGED Available /\ \A u \in Threads : status'[u] = status[u]
      BY <1>4, <2>1, <2>3 DEF SetTimer, Available
    <3> QED
      BY <2>1, <3>1, PlainNone, RestQuiet
  <2> QED
    BY <2>2, <2>3
<1>5. ASSUME NEW x \in Timers, CancelTimer(t, x) PROVE WaitInv'
  <2>1. /\ todo = <<>> /\ todo' = todo /\ UNCHANGED waitVars /\ UNCHANGED Available
        /\ \A u \in Threads : status'[u] = status[u]
    BY <1>5 DEF CancelTimer, Executes, Executing, AtRest, threadVars, objectVars, lockVars, signalVars,
       Available
  <2> QED
    BY <2>1, PlainNone, RestQuiet
<1> QED
  BY <1>1, <1>2, <1>3, <1>4, <1>5, ReleaseMutexWaits DEF SignalSvc

\* svcCreateThread, svcSetThreadPriority, svcExitThread, svcExitProcess and svcTerminateProcess.
LEMMA ThreadSvcWaits ==
  ASSUME IInv, IInv', WaitInv, NEW t \in Threads, ThreadSvc(t)
  PROVE  WaitInv'
<1>1. ASSUME NEW u \in Threads, SvcCreateThread(t, u) PROVE WaitInv'
  BY <1>1, CreateThreadWaits DEF SvcCreateThread, Executes, Executing, AtRest
<1>2. ASSUME todo = <<>>, IsTodo(todo'), Plain(todo'), UNCHANGED <<status, objectVars>> PROVE WaitInv'
  <2>1. UNCHANGED waitVars /\ UNCHANGED Available /\ \A u \in Threads : status'[u] = status[u]
    BY <1>2 DEF objectVars, lockVars, signalVars, Available
  <2> QED
    BY <1>2, <2>1, RestQuiet
<1>3. ASSUME NEW u, NEW p, SetThreadPriority(t, u, p) PROVE WaitInv'
  <2>1. /\ todo = <<>> /\ UNCHANGED <<status, objectVars>>
        /\ todo' = <<Call("UpdatePending", u, pending_mutexes[u])>>
    BY <1>3 DEF SetThreadPriority, Executes, Executing, AtRest
  <2>2. IsTodo(todo') /\ Plain(todo')
    BY <2>1, PlainOne DEF OpCalls, Ending
  <2> QED
    BY <1>2, <2>1, <2>2
<1>4. CASE ExitThread(t)
  <2>1. todo = <<>> /\ UNCHANGED <<status, objectVars>> /\ todo' = <<Call("Stop", t, "Stop")>>
    BY <1>4 DEF ExitThread, Executes, Executing, AtRest, threadVars
  <2>2. IsTodo(todo') /\ Plain(todo')
    BY <2>1, PlainOne DEF OpCalls, Ending
  <2> QED
    BY <1>2, <2>1, <2>2
<1>5. ASSUME NEW p \in Processes, TerminateProcess(t, p) PROVE WaitInv'
  <2>1. /\ todo = <<>> /\ UNCHANGED <<status, objectVars>>
        /\ todo' = [i \in 1..NumCores |-> Call("TerminateProcessThreads", p, i - 1)]
    BY <1>5 DEF TerminateProcess, Executes, Executing, AtRest, threadVars
  <2>2. \A i \in 1..NumCores : todo'[i][1] = "TerminateProcessThreads"
    BY <2>1 DEF Call
  <2>3. todo' = [i \in 1..NumCores |-> todo'[i]]
    BY <2>1
  <2>4. NumCores \in Nat /\ \A i \in 1..NumCores : todo'[i][1] \in OpCalls
    BY <2>2, CoresAssumption DEF OpCalls
  <2>5. IsTodo(todo')
    BY <2>3, <2>4, TodoFunction
  <2>6. Plain(todo')
    BY <2>1, <2>2 DEF Plain, PlainCall, Ending, Clears
  <2> QED
    BY <1>2, <2>1, <2>5, <2>6
<1> QED
  BY <1>1, <1>3, <1>4, <1>5 DEF ThreadSvc

\* svcArbitrateAddress.
LEMMA ArbiterSvcWaits ==
  ASSUME IInv, IInv', WaitInv, NEW t \in Threads, ArbiterSvc(t)
  PROVE  WaitInv'
<1>1. Executes(t) /\ todo = <<>> /\ UNCHANGED waitVars /\ UNCHANGED Available
  BY DEF ArbiterSvc, ArbitrateSignal, ArbitrateWait, ArbitrateNoWait, Executes, Executing, AtRest, objectVars,
     lockVars, signalVars, Available
<1>2. ASSUME NEW a, NEW value \in Int, ArbitrateSignal(t, a, value) PROVE WaitInv'
  <2>1. \A u \in Threads : status'[u] = status[u]
    BY <1>2 DEF ArbitrateSignal, threadVars
  <2>2. CASE value < 0
    <3>1. todo' = <<Call("ResumeAllThreads", a, value)>>
      BY <1>2, <2>2 DEF ArbitrateSignal
    <3>2. IsTodo(todo') /\ Plain(todo')
      BY <3>1, PlainOne DEF OpCalls, Ending
    <3> QED
      BY <1>1, <2>1, <3>2, RestQuiet
  <2>3. CASE ~(value < 0)
    <3>1. todo' = [i \in 1..value |-> Call("ResumeHighestPriorityThread", a, value)]
      BY <1>2, <2>3 DEF ArbitrateSignal
    <3>2. \A i \in 1..value : todo'[i][1] = "ResumeHighestPriorityThread"
      BY <3>1 DEF Call
    <3>3. todo' = [i \in 1..value |-> todo'[i]]
      BY <3>1
    <3>4. value \in Nat /\ \A i \in 1..value : todo'[i][1] \in OpCalls
      BY <2>3, <3>2 DEF OpCalls
    <3>5. IsTodo(todo')
      BY <3>3, <3>4, TodoFunction
    <3>6. Plain(todo')
      BY <3>1, <3>2 DEF Plain, PlainCall, Ending, Clears
    <3> QED
      BY <1>1, <2>1, <3>5, <3>6, RestQuiet
  <2> QED
    BY <2>2, <2>3
<1>3. ASSUME NEW a, NEW timed, NEW delay, ArbitrateWait(t, a, timed, delay) PROVE WaitInv'
  <2>1. todo' = todo /\ status' = [status EXCEPT ![t] = "WaitArb"]
    BY <1>3 DEF ArbitrateWait
  <2>2. status[t] \notin Synching /\ "WaitArb" \notin Synching \cup {"Dead"}
    BY <1>1, ExecutesFacts DEF Synching
  <2>3. \A u \in Threads : status'[u] = status[u] \/ Settles(u)
    BY <1>1, <2>1, <2>2, SettlesAlone
  <2> QED
    BY <1>1, <2>1, <2>3, PlainNone, RestQuiet
<1>4. CASE ArbitrateNoWait(t)
  <2>1. todo' = todo /\ \A u \in Threads : status'[u] = status[u]
    BY <1>4 DEF ArbitrateNoWait, threadVars
  <2> QED
    BY <1>1, <2>1, PlainNone, RestQuiet
<1>5. program.values \subseteq Int
  BY KernelAssumption DEF IInv
<1> QED
  BY <1>2, <1>3, <1>4, <1>5 DEF ArbiterSvc

-----------------------------------------------------------------------------
\* Every step keeps the invariant about waiting, as long as no assertion fails.

\* No step is taken after one has failed.
LEMMA StepsAlive ==
  ASSUME Step
  PROVE  panic = "none"
<1>1. CASE RunLoop \/ Callback
  BY <1>1 DEF RunLoop, BeginRound, EndAdvance, EndSlice, Callback, ThreadWakeupCallback, TimerCallback,
     Advancing, Executing, AtRest
<1>2. CASE ObjectCall
  BY <1>2, ZenonT(40) DEF ObjectCall, AcquireMutex, AcquireSemaphore, AcquireSignal, AcquireThread, AddWaitingThread,
     RemoveWaitingThread, WakeupNext, WakeupDone, SyncWakeUp, ResumeFromWait, Calling
<1>3. CASE ArbiterCall
  BY <1>3 DEF ArbiterCall, ResumeAllThreads, ResumeHighestPriorityThread, ArbiterWakeUp, Calling
<1>4. CASE KernelCall
  BY <1>4 DEF KernelCall, Stop, MutexesReleased, UpdatedPending, ReleaseThreadMutexes, UpdatePending,
     TerminateNext, TerminateCurrent, Rearm, Calling
<1>5. CASE \E p \in Processes : Run(p)
  BY <1>5 DEF Run, AtRest
<1>6. ASSUME NEW t \in Threads, WaitSvc(t) \/ SignalSvc(t) \/ ThreadSvc(t) \/ ArbiterSvc(t)
      PROVE  panic = "none"
  <2>1. Executes(t)
    BY <1>6 DEF WaitSvc, WaitSynchronization1, WaitSynchronizationAny, WaitSynchronizationAll, SleepThread,
       SignalSvc, ReleaseMutex, ReleaseSemaphore, SignalEvent, Clear, SetTimer, CancelTimer, ThreadSvc,
       SvcCreateThread, SetThreadPriority, ExitThread, TerminateProcess, ArbiterSvc, ArbitrateSignal,
       ArbitrateWait, ArbitrateNoWait
  <2> QED
    BY <2>1 DEF Executes, Executing, AtRest
<1> QED
  BY <1>1, <1>2, <1>3, <1>4, <1>5, <1>6 DEF Step, Svc

\* They all keep it.
LEMMA StepWaits ==
  ASSUME IInv, IInv', panic = "none" => WaitInv, [Next]_vars, panic' = "none"
  PROVE  WaitInv'
<1>1. CASE Next
  <2>1. Step /\ WaitInv
    BY <1>1, StepsAlive DEF Next
  <2>2. ASSUME NEW p \in Processes, Run(p) PROVE WaitInv'
    <3>1. MainThread[p] \in Threads /\ todo = <<>> /\ CreateThread(MainThread[p]) /\ UNCHANGED objectVars
      BY <2>2, KernelAssumption DEF Run, AtRest
    <3> QED
      BY <2>1, <3>1, CreateThreadWaits
  <2> QED
    BY <2>1, <2>2, RunLoopWaits, CallbackWaits, ObjectCallWaits, ArbiterCallWaits, KernelCallWaits,
       WaitSvcWaits, SignalSvcWaits, ThreadSvcWaits, ArbiterSvcWaits DEF Step, Svc
<1>2. CASE UNCHANGED vars
  <2>1. UNCHANGED <<status, todo, panic, objectVars>>
    BY <1>2 DEF vars, threadVars
  <2>2. WaitInv /\ UNCHANGED <<waitVars, lockVars, signalVars>>
    BY <2>1 DEF objectVars
  <2>3. UNCHANGED <<waiting_threads, wait_objects, pending_mutexes, lock_count, holding_thread,
                    available_count, signaled>>
    BY <2>2 DEF waitVars, lockVars, signalVars
  <2>4. ListsOK' /\ ListedOK' /\ LeavingOK'
    BY <2>1, <2>2, <2>3 DEF WaitInv, ListsOK, ListedOK, LeavingOK, Waiting, Leaves
  <2>5. \A t, o : ReadyFor(t, o)' <=> ReadyFor(t, o)
    BY <2>1, <2>3 DEF ReadyFor, ShouldWait
  <2>6. EnteringOK' /\ WokenOK'
    BY <2>1, <2>2, <2>3, <2>5 DEF WaitInv, EnteringOK, WokenOK, Waiting, Leaves, Found
  <2>7. EnteredOK' /\ ResumingOK' /\ ToldOK'
    BY <2>1, <2>2, <2>3 DEF WaitInv, EnteredOK, ResumingOK, ToldOK, Waiting, Leaves, Granted
  <2> QED
    BY <2>4, <2>6, <2>7 DEF WaitInv
<1> QED
  BY <1>1, <1>2

\* Nobody waits at first.
LEMMA InitWaits ==
  ASSUME Init
  PROVE  WaitInv
<1>1. /\ todo = <<>> /\ waiting_threads = [o \in Objects |-> <<>>]
      /\ wait_objects = [t \in Threads |-> <<>>] /\ pending_mutexes = [t \in Threads |-> {}]
  BY DEF Init, SchedInit, ObjectInit
<1>2. ToSet(<<>>) = {} /\ NoDuplicates(<<>>)
  BY DEF ToSet, NoDuplicates
<1>3. \A o \in Objects : waiting_threads[o] = <<>> /\ \A t : ~Waiting(t, o)
  BY <1>1, <1>2 DEF Waiting
<1>4. \A t \in Threads : wait_objects[t] = <<>> /\ ToSet(wait_objects[t]) = {}
  BY <1>1, <1>2
<1>5. Mutexes \subseteq Objects
  BY DEF Objects
<1>6. ListsOK
  BY <1>1, <1>2, <1>3, <1>5 DEF ListsOK
<1>7. ListedOK /\ LeavingOK /\ EnteredOK /\ WokenOK
  BY <1>3, <1>4 DEF ListedOK, LeavingOK, EnteredOK, WokenOK
<1>8. EnteringOK /\ ResumingOK /\ ToldOK
  BY <1>1 DEF EnteringOK, Enters, ResumingOK, ToldOK
<1> QED
  BY <1>6, <1>7, <1>8 DEF WaitInv

\* As long as no assertion of the kernel has failed, the lists of waiters, the
\* calls in progress and what is available fit together as WaitInv says.
THEOREM WaitsHold == Spec => [](panic = "none" => WaitInv)
<1>1. Init => (panic = "none" => WaitInv)
  BY InitWaits
<1>2. IInv /\ IInv' /\ (panic = "none" => WaitInv) /\ [Next]_vars => (panic = "none" => WaitInv)'
  BY StepWaits
<1> QED
  BY <1>1, <1>2, InvHolds, PTL DEF Spec

\* Between two calls WaitObject::waiting_threads and Thread::wait_objects agree,
\* whatever AddWaitingThread, RemoveWaitingThread, ThreadWakeupCallback and
\* Thread::Stop did to them.
THEOREM WaitListsAgreeTheorem == Spec => []WaitListsAgree
<1>1. ASSUME IInv, panic = "none" => WaitInv, AtRest
      PROVE  /\ \A o \in Objects : NoDuplicates(waiting_threads[o])
             /\ \A o \in Objects, t \in Threads :
                  t \in ToSet(waiting_threads[o]) <=> o \in ToSet(wait_objects[t])
             /\ \A t \in Threads :
                  /\ pending_mutexes[t] = ToSet(wait_objects[t]) \cap Mutexes
                  /\ wait_objects[t] # <<>> => status[t] \in {"WaitSynchAny", "WaitSynchAll"}
  <2>1. WaitInv /\ todo = <<>>
    BY <1>1 DEF AtRest
  <2>2. /\ \A t \in Threads : \A o \in ToSet(wait_objects[t]) : Waiting(t, o)
        /\ \A t \in Threads, o \in Objects : Waiting(t, o) => o \in ToSet(wait_objects[t])
    BY <2>1, RestFacts
  <2>3. Mutexes \subseteq Objects /\ \A t \in Threads : pending_mutexes[t] \subseteq Mutexes
    BY <1>1 DEF Objects, IInv, CallInv, ObjectTypes
  <2>4. \A t \in Threads : pending_mutexes[t] = ToSet(wait_objects[t]) \cap Mutexes
    BY <2>1, <2>2, <2>3 DEF WaitInv, ListsOK
  <2>5. \A o \in Objects : NoDuplicates(waiting_threads[o])
    BY <2>1 DEF WaitInv, ListsOK
  <2>6. \A t \in Threads : wait_objects[t] # <<>> => status[t] \in {"WaitSynchAny", "WaitSynchAll"}
    BY <2>1 DEF WaitInv, ListedOK, Synching
  <2> QED
    BY <2>2, <2>4, <2>5, <2>6 DEF Waiting
<1>2. IInv /\ (panic = "none" => WaitInv) => WaitListsAgree
  BY <1>1 DEF WaitListsAgree
<1> QED
  BY <1>2, InvHolds, WaitsHold, PTL

\* Between two calls no thread sleeps on an object that WakeupAllWaitingThreads
\* could give it: every Release, Signal, Stop and expiry of a timer wakes those
\* that it makes ready, and svcWaitSynchronization puts nobody else to sleep.
THEOREM NoLostWakeupTheorem == Spec => []NoLostWakeup
<1>1. ASSUME IInv, panic = "none" => WaitInv, AtRest, NEW o \in Objects, NEW t \in ToSet(waiting_threads[o])
      PROVE  ~ReadyFor(t, o)
  <2>1. WaitInv /\ todo = <<>>
    BY <1>1 DEF AtRest
  <2>2. t \in Threads
    <3>1. waiting_threads[o] \in Seq(Threads)
      BY <1>1, ListTypes
    <3>2. \E i \in 1..Len(waiting_threads[o]) : waiting_threads[o][i] = t
      BY <3>1, ToSetMember
    <3> QED
      BY <3>1, <3>2, ElementOfSeq
  <2> QED
    BY <2>1, <2>2, RestFacts DEF Waiting
<1>2. IInv /\ (panic = "none" => WaitInv) => NoLostWakeup
  BY <1>1 DEF NoLostWakeup
<1> QED
  BY <1>2, InvHolds, WaitsHold, PTL

\* When the callback of a wait is called with an object, the thread already
\* holds the mutexes it was given: WakeupAllWaitingThreads acquires first.
THEOREM ToldWhenOwnedTheorem == Spec => []ToldWhenOwned
<1>1. ASSUME IInv, panic = "none" => WaitInv, NEW t \in Threads, NEW o \in Objects, Calling("WakeUp"),
             Head(todo) = Call("WakeUp", t, o)
      PROVE  /\ o \in ToSet(wait_objects[t])
             /\ \A m \in Granted(t, o) \cap Mutexes : holding_thread[m] = t
  <2>1. WaitInv /\ todo # <<>>
    BY <1>1 DEF Calling
  <2>2. PICK rest : rest = Tail(todo)
    OBVIOUS
  <2>3. Popped(rest, todo)
    BY <1>1, <2>1, <2>2, ListTypes, StackTail
  <2>4. /\ 1 \in DOMAIN todo /\ todo[1] = Call("WakeUp", t, o) /\ todo[1][1] = "WakeUp"
        /\ DOMAIN todo = 1..Len(todo) /\ Len(todo) \in Nat
    BY <1>1, <2>3 DEF Popped, Call
  <2>5. \A call : ~Above(todo, 1, call)
    BY <2>4 DEF Above
  <2> QED
    BY <2>1, <2>4, <2>5 DEF WaitInv, ToldOK
<1>2. IInv /\ (panic = "none" => WaitInv) => ToldWhenOwned
  BY <1>1 DEF ToldWhenOwned, Granted
<1> QED
  BY <1>2, InvHolds, WaitsHold, PTL
=============================================================================
