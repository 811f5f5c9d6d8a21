-------------------------- MODULE CoreTimingProofs --------------------------
(***************************************************************************)
(* Proofs about CoreTiming, for any number of cores, any events and any    *)
(* lengths of slices: a slice ends at the next event and is not empty, and *)
(* no core runs away from another.                                         *)
(***************************************************************************)
EXTENDS CoreTiming, SequenceTheorems, FiniteSetTheorems, WellFoundedInduction, TLAPS

-----------------------------------------------------------------------------
\* The inductive invariant.

\* The ticks of core c since its clock was last set, and the clock of c when the
\* core that lags most began to execute alone.
Executed(c) == slice_length[c] - downcount[c]
Base(c) ==
  IF phase = "delayed" /\ c \in remaining THEN executed_ticks[c] ELSE GetTicks(c)

Clocks == [c \in Cores |-> GetTicks(c)]
Bases == [c \in Cores |-> Base(c)]

\* No clock of T lags by more than a slice, the tolerated lag and what each of
\* the cores ahead of it may have executed too much.
Above(T, c) == {d \in Cores : T[d] > T[c]}
Close(T) ==
  \A c, d \in Cores :
    T[d] - T[c] <= MaxSlice + MinDelay + MaxOvershoot * Cardinality(Above(T, c))

\* Every variable has its type; clocks are counted from the slowest core.
TypesOK == TypeOK /\ executed_ticks \in [Cores -> Nat] /\ max_slice > 0

\* What a core executed counts from its clock, unless the clock stands still.
ClocksOK ==
  /\ \A c \in Cores :
       /\ Executed(c) >= 0 /\ downcount[c] >= -MaxOvershoot
       /\ is_timer_sane[c] => Executed(c) = 0
  /\ Close(Clocks)

\* The clock of c is set and its slice has not begun; no event is due; the
\* slice of c has begun and ends at the next event.
Fresh(c) == ~is_timer_sane[c] /\ slice_length[c] = 0 /\ downcount[c] = 0
NoneDue(c) == \A i \in DOMAIN event_queue[c] : ~Due(c, i)
SliceFits(c) ==
  /\ ~is_timer_sane[c] /\ slice_length[c] > 0
  /\ \A i \in DOMAIN event_queue[c] :
       executed_ticks[c] + slice_length[c] <= event_queue[c][i].time

\* A core that is being advanced has its clock set.  One that has been is
\* fresh in an ordinary round; if it lags, its slice is at most its lag.
AdvanceOK ==
  /\ phase \in {"catchup", "advance"} =>
       /\ remaining # {} /\ max_slice <= MaxSlice
       /\ \A c \in Cores : IsRunning(c) /\ visiting =>
            is_timer_sane[c] /\ slice_length[c] = 0 /\ downcount[c] = 0
  /\ phase = "catchup" =>
       /\ \A c \in remaining : delay[c] > 0
       /\ \A c \in Cores \ remaining : delay[c] > 0 =>
            SliceFits(c) /\ Executed(c) = 0 /\ slice_length[c] <= delay[c]
  /\ phase = "advance" =>
       /\ \A c \in Cores : delay[c] <= MinDelay
       /\ \A c \in Cores \ remaining : Fresh(c) /\ NoneDue(c)

\* The lags that the round began with are those of the clocks, until the core
\* with the worst executes alone, and then no more than it lags.
LagsOK ==
  /\ phase \in {"catchup", "advance", "delayed"} =>
       /\ \E c \in Cores : delay[c] = 0
       /\ \A c, d \in Cores : Base(c) + delay[c] = Base(d) + delay[d]
  /\ phase = "delayed" =>
       /\ Close(Bases)
       /\ \E c \in Cores :
            /\ remaining = {c} /\ visiting /\ SliceFits(c) /\ slice_length[c] <= delay[c]
            /\ \A d \in Cores : delay[d] <= delay[c]

\* In an ordinary round the clocks are close when they are set, and a core
\* executes no more than one before it and what each may execute too much.
Spread ==
  /\ \A c, d \in Cores : executed_ticks[d] - executed_ticks[c] <= MinDelay
  /\ \A c \in Cores : ~is_timer_sane[c] /\ Executed(c) <= MaxSlice + MaxOvershoot * (c + 1)
  /\ \A c, d \in Cores : d < c => Executed(c) <= Executed(d) + MaxOvershoot * (c - d)

\* The cores execute in their order; m is the one whose turn it is.
RoundOK ==
  phase = "execute" =>
    /\ Spread
    /\ \E m \in Cores :
         /\ remaining = m..NumCores - 1
         /\ max_slice <= MaxSlice + MaxOvershoot * m
         /\ \A d \in Cores : d < m => max_slice <= Executed(d) + MaxOvershoot * (m - 1 - d)
         /\ visiting => SliceFits(m) /\ slice_length[m] <= max_slice
         /\ \A c \in Cores : c > m \/ (c = m /\ ~visiting) => Fresh(c) /\ NoneDue(c)

IInv == TypesOK /\ ClocksOK /\ AdvanceOK /\ LagsOK /\ RoundOK

-----------------------------------------------------------------------------
\* Numbers and sets.

\* The parameters are numbers, and so are cores.
LEMMA Params ==
  /\ MaxSlice \in Nat /\ MinDelay \in Nat /\ MaxOvershoot \in Nat
  /\ NumCores \in Nat /\ NumCores > 0 /\ MaxSlice > 0
BY TimingAssumption

\* Cores are the numbers below NumCores.
LEMMA CoreFacts ==
  /\ \A c : c \in Cores <=> c \in Nat /\ c < NumCores
  /\ Cores \subseteq Nat /\ 0 \in Cores
BY Params DEF Cores

\* Products with the overshoot grow with the other factor.
LEMMA Overshoots ==
  ASSUME NEW a \in Nat, NEW b \in Nat
  PROVE  /\ MaxOvershoot * a \in Nat
         /\ MaxOvershoot * (a + 1) = MaxOvershoot * a + MaxOvershoot
         /\ a <= b => MaxOvershoot * a <= MaxOvershoot * b
<1>1. MaxOvershoot \in Nat
  BY TimingAssumption
<1>2. MaxOvershoot * a \in Nat /\ MaxOvershoot * b \in Nat
  BY <1>1
<1>3. MaxOvershoot * (a + 1) = MaxOvershoot * a + MaxOvershoot
  BY <1>1
<1>4. ASSUME a <= b PROVE MaxOvershoot * a <= MaxOvershoot * b
  <2>1. PICK n \in Nat : b = a + n
    BY <1>4
  <2>2. MaxOvershoot * b = MaxOvershoot * a + MaxOvershoot * n /\ MaxOvershoot * n \in Nat
    BY <1>1, <2>1
  <2> QED
    BY <1>2, <2>2
<1> QED
  BY <1>2, <1>3, <1>4

\* A set of naturals has a minimum.
LEMMA MinFacts ==
  ASSUME NEW S, S \subseteq Nat, S # {}
  PROVE  Min(S) \in S /\ \A y \in S : Min(S) <= y
<1>1. PICK R : R = OpToRel(<, Nat)
  OBVIOUS
<1>a. \A y, z \in Nat : y < z => <<y, z>> \in R
  BY <1>1, Zenon DEF OpToRel
<1>b. IsWellFoundedOn(R, Nat)
  BY <1>1, NatLessThanWellFounded, Zenon
<1>c. PICK x \in S : \A y \in S : ~ (<<y, x>> \in R)
  BY <1>b, WFMin
<1>2. ASSUME NEW y \in S PROVE x <= y
  <2>1. ~ (y < x)
    BY <1>a, <1>c, Zenon
  <2> QED
    BY <2>1
<1> QED
  BY <1>2 DEF Min

\* A set of integers with an upper bound has a maximum.
LEMMA MaxFacts ==
  ASSUME NEW S, S \subseteq Int, S # {}, NEW b \in Int, \A x \in S : x <= b
  PROVE  Max(S) \in S /\ \A y \in S : y <= Max(S)
<1>1. PICK D : D = {b - x : x \in S}
  OBVIOUS
<1>2. D \subseteq Nat /\ D # {}
  <2>1. PICK x : x \in S
    OBVIOUS
  <2>2. b - x \in D
    BY <1>1, <2>1
  <2>3. D \subseteq Nat
    BY <1>1
  <2> QED
    BY <2>2, <2>3
<1>3. PICK n \in D : \A m \in D : n <= m
  BY <1>2, MinFacts
<1>4. PICK x \in S : n = b - x
  BY <1>1, <1>3
<1>5. \A y \in S : y <= x
  BY <1>1, <1>3, <1>4
<1> QED
  BY <1>5 DEF Max

\* The cores are finitely many, and a core is not above itself.
LEMMA AboveFacts ==
  ASSUME NEW T \in [Cores -> Int], NEW c \in Cores
  PROVE  /\ IsFiniteSet(Above(T, c)) /\ IsFiniteSet(Cores)
         /\ Cardinality(Above(T, c)) \in Nat
         /\ Cardinality(Above(T, c)) <= NumCores - 1
         /\ \A I \in SUBSET Above(T, c) :
              /\ IsFiniteSet(I) /\ Cardinality(I) \in Nat
              /\ Cardinality(I) <= Cardinality(Above(T, c))
<1>1. IsFiniteSet(Cores) /\ Cardinality(Cores) = NumCores /\ NumCores \in Nat
  BY FS_Interval, TimingAssumption DEF Cores
<1>2. IsFiniteSet(Cores \ {c}) /\ Cardinality(Cores \ {c}) = NumCores - 1
  BY <1>1, FS_RemoveElement
<1>3. Above(T, c) \in SUBSET (Cores \ {c})
  BY DEF Above
<1>4. IsFiniteSet(Above(T, c)) /\ Cardinality(Above(T, c)) <= NumCores - 1
  BY <1>2, <1>3, FS_Subset
<1>5. Cardinality(Above(T, c)) \in Nat
  BY <1>4, FS_CardinalityType
<1>6. ASSUME NEW I \in SUBSET Above(T, c)
      PROVE  IsFiniteSet(I) /\ Cardinality(I) \in Nat /\ Cardinality(I) <= Cardinality(Above(T, c))
  BY <1>4, FS_Subset, FS_CardinalityType
<1> QED
  BY <1>1, <1>4, <1>5, <1>6

-----------------------------------------------------------------------------
\* Clocks that are close.

\* The bound grows with the set of cores ahead.
LEMMA BoundGrows ==
  ASSUME NEW T \in [Cores -> Int], NEW c \in Cores, NEW I \in SUBSET Above(T, c),
         NEW n \in Int, n <= MaxSlice + MinDelay + MaxOvershoot * Cardinality(I)
  PROVE  n <= MaxSlice + MinDelay + MaxOvershoot * Cardinality(Above(T, c))
<1>1. PICK a \in Nat, b \in Nat :
        a = Cardinality(I) /\ b = Cardinality(Above(T, c)) /\ a <= b
  BY AboveFacts
<1>2. MaxOvershoot * a \in Nat /\ MaxOvershoot * b \in Nat /\ MaxOvershoot * a <= MaxOvershoot * b
  BY <1>1, Overshoots
<1>3. n <= MaxSlice + MinDelay + MaxOvershoot * a
  BY <1>1
<1>4. n <= MaxSlice + MinDelay + MaxOvershoot * b
  BY <1>2, <1>3, TimingAssumption
<1> QED
  BY <1>1, <1>4

\* Only differences of clocks count.
LEMMA ShiftClose ==
  ASSUME NEW T \in [Cores -> Int], NEW U \in [Cores -> Int], NEW b \in Int,
         \A c \in Cores : U[c] = T[c] - b, Close(T)
  PROVE  Close(U)
<1>1. ASSUME NEW c \in Cores PROVE Above(U, c) = Above(T, c)
  BY DEF Above
<1>2. ASSUME NEW c \in Cores, NEW d \in Cores PROVE U[d] - U[c] = T[d] - T[c]
  OBVIOUS
<1> QED
  BY <1>1, <1>2 DEF Close

\* Clocks E that are close by the tolerated lag, and cores that each execute X,
\* no more than one before it and what each may execute too much.
LEMMA ChainClose ==
  ASSUME NEW E \in [Cores -> Int], NEW X \in [Cores -> Nat], NEW T \in [Cores -> Int],
         \A c \in Cores : T[c] = E[c] + X[c],
         \A c, d \in Cores : E[d] - E[c] <= MinDelay,
         \A c \in Cores : X[c] <= MaxSlice + MaxOvershoot * (c + 1),
         \A c, d \in Cores : d < c => X[c] <= X[d] + MaxOvershoot * (c - d)
  PROVE  Close(T)
<1> SUFFICES ASSUME NEW c \in Cores, NEW d \in Cores
             PROVE  T[d] - T[c] <= MaxSlice + MinDelay + MaxOvershoot * Cardinality(Above(T, c))
  BY DEF Close
<1> USE Params
<1>1. d \in Nat /\ c \in Nat
  BY CoreFacts
<1>n. PICK n \in Int : n = T[d] - T[c]
  OBVIOUS
<1>2. CASE T[d] <= T[c]
  <2>1. PICK k \in Nat : k = Cardinality(Above(T, c))
    BY AboveFacts
  <2>2. MaxOvershoot * k \in Nat
    BY Overshoots
  <2>3. n <= MaxSlice + MinDelay + MaxOvershoot * k
    BY <1>2, <1>n, <2>2
  <2> QED
    BY <1>n, <2>1, <2>3
<1>3. CASE T[d] > T[c] /\ \A e \in Cores : e < d => T[e] > T[c]
  <2>1. 0..d \in SUBSET Above(T, c)
    <3>1. ASSUME NEW e \in 0..d PROVE e \in Cores /\ T[e] > T[c]
      <4>1. e \in Cores /\ (e < d \/ e = d)
        BY <1>1, CoreFacts
      <4> QED
        BY <1>3, <4>1
    <3> QED
      BY <3>1 DEF Above
  <2>2. Cardinality(0..d) = d + 1
    BY <1>1, FS_Interval
  <2>3. X[d] <= MaxSlice + MaxOvershoot * (d + 1) /\ MaxOvershoot * (d + 1) \in Nat
    BY <1>1, Overshoots
  <2>4. n <= MinDelay + X[d]
    BY <1>n
  <2>5. n <= MaxSlice + MinDelay + MaxOvershoot * (d + 1)
    BY <1>1, <1>n, <2>3, <2>4
  <2> QED
    BY <1>n, <2>1, <2>2, <2>5, BoundGrows
<1>4. CASE T[d] > T[c] /\ \E e \in Cores : e < d /\ T[e] <= T[c]
  <2>1. PICK N : N = {e \in Cores : e < d /\ T[e] <= T[c]}
    OBVIOUS
  <2>2. N # {} /\ N \subseteq Int /\ \A e \in N : e <= d
    BY <1>1, <1>4, <2>1, CoreFacts
  <2>3. PICK e \in N : \A f \in N : f <= e
    <3>1. d \in Int
      BY <1>1
    <3> QED
      BY <2>2, <3>1, MaxFacts
  <2>4. e \in Cores /\ e \in Nat /\ e < d /\ T[e] <= T[c]
    BY <2>1, <2>3, CoreFacts
  <2>5. (e + 1)..d \in SUBSET Above(T, c)
    <3>1. ASSUME NEW f \in (e + 1)..d PROVE f \in Cores /\ T[f] > T[c]
      <4>1. f \in Cores /\ f > e /\ f <= d
        BY <1>1, <2>4, CoreFacts
      <4>2. f \in N \/ T[f] > T[c]
        BY <1>1, <1>4, <2>1, <4>1
      <4> QED
        BY <2>3, <2>4, <4>1, <4>2, CoreFacts
    <3> QED
      BY <3>1 DEF Above
  <2>6. Cardinality((e + 1)..d) = d - e
    BY <1>1, <2>4, FS_Interval
  <2>7. PICK k \in Nat : k = d - e
    BY <1>1, <2>4
  <2>8. X[d] <= X[e] + MaxOvershoot * k /\ MaxOvershoot * k \in Nat
    BY <2>4, <2>7, Overshoots
  <2>9. E[d] - E[e] <= MinDelay /\ T[d] = E[d] + X[d] /\ T[e] = E[e] + X[e]
    BY <2>4
  <2>10. n <= MaxSlice + MinDelay + MaxOvershoot * k
    BY <1>1, <1>n, <2>4, <2>8, <2>9
  <2> QED
    BY <1>n, <2>5, <2>6, <2>7, <2>10, BoundGrows
<1> QED
  BY <1>2, <1>3, <1>4

\* The slowest core executes alone, no further than the fastest and what it may
\* execute too much.
LEMMA LoneClose ==
  ASSUME NEW T \in [Cores -> Int], NEW c \in Cores, NEW n \in Nat, NEW g \in Cores,
         NEW U \in [Cores -> Int], U[c] = T[c] + n, \A d \in Cores \ {c} : U[d] = T[d],
         \A d \in Cores : T[c] <= T[d] /\ T[d] <= T[g],
         T[c] + n <= T[g] + MaxOvershoot, Close(T)
  PROVE  Close(U)
<1> SUFFICES ASSUME NEW x \in Cores, NEW d \in Cores
             PROVE  U[d] - U[x] <= MaxSlice + MinDelay + MaxOvershoot * Cardinality(Above(U, x))
  BY DEF Close
<1> USE Params
<1>n. PICK n0 \in Int : n0 = U[d] - U[x]
  OBVIOUS
<1>1. /\ \A e \in Cores \ {c} : U[e] = T[e]
      /\ U[c] = T[c] + n
  OBVIOUS
<1>2. CASE x # c
  <2>1. Above(T, x) \in SUBSET Above(U, x)
    BY <1>1, <1>2 DEF Above
  <2>2. ASSUME NEW e \in Cores, U[d] <= T[e]
        PROVE  U[d] - U[x] <= MaxSlice + MinDelay + MaxOvershoot * Cardinality(Above(U, x))
    <3>1. T[e] - T[x] <= MaxSlice + MinDelay + MaxOvershoot * Cardinality(Above(T, x))
      BY DEF Close
    <3>2. PICK k \in Nat : k = Cardinality(Above(T, x))
      BY AboveFacts
    <3>3. MaxOvershoot * k \in Nat
      BY Overshoots
    <3>4. n0 <= MaxSlice + MinDelay + MaxOvershoot * k
      BY <1>n, <1>1, <1>2, <2>2, <3>1, <3>2, <3>3
    <3> QED
      BY <2>1, <3>2, <3>4, <1>n, BoundGrows
  <2>3. CASE d = c /\ U[c] > T[g]
    <3>1. Above(T, x) \cup {c} \in SUBSET Above(U, x) /\ c \notin Above(T, x)
      BY <1>1, <1>2, <2>3 DEF Above
    <3>2. PICK k \in Nat : k = Cardinality(Above(T, x))
      BY AboveFacts
    <3>3. Cardinality(Above(T, x) \cup {c}) = k + 1
      BY <3>1, <3>2, AboveFacts, FS_AddElement
    <3>4. T[g] - T[x] <= MaxSlice + MinDelay + MaxOvershoot * k
      BY <3>2 DEF Close
    <3>5. MaxOvershoot * k \in Nat /\ MaxOvershoot * (k + 1) = MaxOvershoot * k + MaxOvershoot
      BY Overshoots
    <3>6. n0 <= MaxSlice + MinDelay + MaxOvershoot * (k + 1)
      BY <1>n, <1>1, <1>2, <2>3, <3>4, <3>5
    <3> QED
      BY <3>1, <3>3, <3>6, <1>n, BoundGrows
  <2>4. CASE d = c /\ U[c] <= T[g]
    BY <2>2, <2>4
  <2>5. CASE d # c
    BY <1>1, <2>2, <2>5
  <2> QED
    BY <2>3, <2>4, <2>5
<1>3. CASE x = c
  <2>1. PICK P : P = {T[e] : e \in {f \in Cores : T[f] <= U[c]}}
    OBVIOUS
  <2>2. T[c] \in P
    BY <1>1, <2>1
  <2>3. P \subseteq Int /\ \A v \in P : v <= U[c]
    BY <2>1
  <2>4. PICK v \in P : \A w \in P : w <= v
    BY <2>2, <2>3, MaxFacts
  <2>5. PICK e \in Cores : v = T[e] /\ T[e] <= U[c]
    BY <2>1, <2>4
  <2>6. Above(T, e) \in SUBSET Above(U, c)
    <3>1. ASSUME NEW f \in Cores, T[f] > T[e] PROVE U[f] > U[c]
      <4>1. T[f] \notin P
        BY <2>4, <2>5, <3>1
      <4>2. T[f] > U[c]
        BY <2>1, <4>1
      <4>3. f # c
        BY <2>2, <4>1
      <4> QED
        BY <1>1, <4>2, <4>3
    <3> QED
      BY <3>1 DEF Above
  <2>7. PICK k \in Nat : k = Cardinality(Above(T, e))
    BY AboveFacts
  <2>8. T[d] - T[e] <= MaxSlice + MinDelay + MaxOvershoot * k
    BY <2>7 DEF Close
  <2>9. MaxOvershoot * k \in Nat
    BY Overshoots
  <2>10. n0 <= MaxSlice + MinDelay + MaxOvershoot * k
    <3>1. CASE d = c
      BY <1>n, <1>3, <2>9, <3>1
    <3>2. CASE d # c
      BY <1>n, <1>1, <1>3, <2>5, <2>8, <2>9, <3>2
    <3> QED
      BY <3>1, <3>2
  <2> QED
    BY <1>3, <2>6, <2>7, <2>10, <1>n, BoundGrows
<1> QED
  BY <1>2, <1>3

-----------------------------------------------------------------------------
\* Clocks, slices and queues of a state.

\* The clock of a core and what it has executed since.
LEMMA TicksFacts ==
  ASSUME IInv, NEW c \in Cores
  PROVE  /\ GetTicks(c) = executed_ticks[c] + Executed(c)
         /\ executed_ticks[c] \in Nat /\ slice_length[c] \in Nat /\ downcount[c] \in Int
         /\ Executed(c) \in Nat /\ GetTicks(c) \in Nat /\ delay[c] \in Nat
         /\ is_timer_sane[c] \in BOOLEAN /\ max_slice \in Nat /\ max_slice > 0
<1>1. /\ executed_ticks[c] \in Nat /\ slice_length[c] \in Nat /\ downcount[c] \in Int
      /\ delay[c] \in Nat /\ is_timer_sane[c] \in BOOLEAN /\ max_slice \in Nat /\ max_slice > 0
  BY DEF IInv, TypesOK, TypeOK
<1>2. Executed(c) >= 0 /\ (is_timer_sane[c] => Executed(c) = 0)
  BY DEF IInv, ClocksOK
<1>3. Executed(c) \in Nat
  BY <1>1, <1>2 DEF Executed
<1>4. GetTicks(c) = executed_ticks[c] + Executed(c)
  BY <1>1, <1>2 DEF GetTicks, Executed
<1> QED
  BY <1>1, <1>3, <1>4

\* The clocks are those that GetTicks shows.
LEMMA ClocksType ==
  ASSUME IInv
  PROVE  Clocks \in [Cores -> Int] /\ \A c \in Cores : Clocks[c] = GetTicks(c)
BY TicksFacts DEF Clocks

\* An event of a queue has a time.
LEMMA EventTime ==
  ASSUME NEW q \in Seq(Events), NEW i \in DOMAIN q
  PROVE  q[i] \in Events /\ q[i].time \in Int /\ q[i].id \in Ids
<1>1. q[i] \in Events
  BY ElementOfSeq, LenProperties
<1> QED
  BY <1>1 DEF Events

\* When no event is due, the time to the next is positive, at most the limit,
\* and leads to no event's past.
LEMMA TimeToEventFacts ==
  ASSUME IInv, NEW c \in Cores, NEW limit \in Nat, limit > 0, NoneDue(c)
  PROVE  /\ TimeToEvent(c, limit) \in Nat
         /\ TimeToEvent(c, limit) > 0 /\ TimeToEvent(c, limit) <= limit
         /\ \A i \in DOMAIN event_queue[c] :
              executed_ticks[c] + TimeToEvent(c, limit) <= event_queue[c][i].time
<1>1. PICK q \in Seq(Events), t \in Nat : q = event_queue[c] /\ t = executed_ticks[c]
  BY DEF IInv, TypesOK, TypeOK
<1>2. PICK S : S = {limit} \cup {q[i].time - t : i \in DOMAIN q}
  OBVIOUS
<1>3. ASSUME NEW i \in DOMAIN q PROVE q[i].time \in Int /\ q[i].time - t > 0
  BY <1>1, EventTime DEF NoneDue, Due
<1>4. S \subseteq Nat /\ S # {} /\ \A x \in S : x > 0
  BY <1>2, <1>3
<1>5. Min(S) \in S /\ \A y \in S : Min(S) <= y
  BY <1>4, MinFacts
<1>6. TimeToEvent(c, limit) = Min(S)
  BY <1>1, <1>2 DEF TimeToEvent
<1>7. PICK m \in Nat : m = Min(S) /\ m > 0 /\ m <= limit
  BY <1>2, <1>4, <1>5
<1>8. ASSUME NEW i \in DOMAIN q PROVE t + m <= q[i].time
  <2>1. q[i].time - t \in S
    BY <1>2
  <2> QED
    BY <1>3, <1>5, <1>7, <2>1
<1> QED
  BY <1>1, <1>6, <1>7, <1>8

\* The core in its slice, and that the slice fits.
LEMMA InSliceFacts ==
  ASSUME IInv, NEW c \in Cores, InSlice(c)
  PROVE  /\ SliceFits(c)
         /\ phase = "delayed" =>
              remaining = {c} /\ slice_length[c] <= delay[c] /\ \A d \in Cores : delay[d] <= delay[c]
         /\ phase = "execute" =>
              /\ remaining = c..NumCores - 1 /\ slice_length[c] <= max_slice
              /\ max_slice <= MaxSlice + MaxOvershoot * c
              /\ \A d \in Cores : d < c => max_slice <= Executed(d) + MaxOvershoot * (c - 1 - d)
              /\ \A d \in Cores : d > c => Fresh(d) /\ NoneDue(d)
<1>1. CASE phase = "delayed"
  BY <1>1 DEF IInv, LagsOK, InSlice, IsRunning
<1>2. CASE phase = "execute"
  <2>1. PICK m \in Cores :
          /\ remaining = m..NumCores - 1
          /\ max_slice <= MaxSlice + MaxOvershoot * m
          /\ \A d \in Cores : d < m => max_slice <= Executed(d) + MaxOvershoot * (m - 1 - d)
          /\ visiting => SliceFits(m) /\ slice_length[m] <= max_slice
          /\ \A d \in Cores : d > m \/ (d = m /\ ~visiting) => Fresh(d) /\ NoneDue(d)
    BY <1>2 DEF IInv, RoundOK
  <2>2. c = m
    BY <2>1, CoreFacts, Params DEF InSlice, IsRunning
  <2>3. visiting
    BY DEF InSlice
  <2> QED
    BY <1>2, <2>1, <2>2, <2>3
<1> QED
  BY <1>1, <1>2 DEF InSlice

-----------------------------------------------------------------------------
\* A step within a slice.

Keeps == TypesOK' /\ ClocksOK' /\ AdvanceOK' /\ LagsOK' /\ RoundOK'

\* Core c executes up to n ticks before the end s of its slice; queues keep
\* events, and lose some, and c gets none before the end of its slice.
SliceStep(c, s, n) ==
  /\ InSlice(c)
  /\ s > 0 /\ s <= slice_length[c] /\ n >= -MaxOvershoot /\ s - n >= Executed(c)
  /\ slice_length' = [slice_length EXCEPT ![c] = s]
  /\ downcount' = [downcount EXCEPT ![c] = n]
  /\ event_queue' \in [Cores -> Seq(Events)] /\ ts_queue' \in [Cores -> Seq(Events)]
  /\ \A d \in Cores : \A i \in DOMAIN event_queue'[d] :
       \/ \E j \in DOMAIN event_queue[d] : event_queue'[d][i] = event_queue[d][j]
       \/ d = c /\ event_queue'[c][i].time >= executed_ticks[c] + s
  /\ UNCHANGED <<executed_ticks, is_timer_sane, roundVars>>

\* Such steps keep the invariant.
LEMMA SliceStepKeeps ==
  ASSUME IInv, NEW c \in Cores, NEW s \in Nat, NEW n \in Int, SliceStep(c, s, n)
  PROVE  Keeps
<1> USE Params
<1>1. /\ SliceFits(c)
      /\ phase = "delayed" =>
           remaining = {c} /\ slice_length[c] <= delay[c] /\ \A d \in Cores : delay[d] <= delay[c]
      /\ phase = "execute" =>
           /\ remaining = c..NumCores - 1 /\ slice_length[c] <= max_slice
           /\ max_slice <= MaxSlice + MaxOvershoot * c
           /\ \A d \in Cores : d < c => max_slice <= Executed(d) + MaxOvershoot * (c - 1 - d)
           /\ \A d \in Cores : d > c => Fresh(d) /\ NoneDue(d)
  BY InSliceFacts DEF SliceStep
<1>2. TypesOK'
  BY DEF SliceStep, IInv, TypesOK, TypeOK, roundVars
<1>3. /\ \A d \in Cores \ {c} : /\ slice_length'[d] = slice_length[d] /\ downcount'[d] = downcount[d]
                                /\ Executed(d)' = Executed(d) /\ GetTicks(d)' = GetTicks(d)
      /\ slice_length'[c] = s /\ downcount'[c] = n /\ Executed(c)' = s - n
      /\ GetTicks(c)' = executed_ticks[c] + (s - n)
      /\ UNCHANGED <<executed_ticks, is_timer_sane, phase, remaining, visiting, delay, max_slice>>
  <2>1. /\ UNCHANGED <<executed_ticks, is_timer_sane, phase, remaining, visiting, delay, max_slice>>
        /\ slice_length' = [slice_length EXCEPT ![c] = s]
        /\ downcount' = [downcount EXCEPT ![c] = n]
    BY DEF SliceStep, roundVars
  <2>2. slice_length \in [Cores -> Nat] /\ downcount \in [Cores -> Int]
    BY DEF IInv, TypesOK, TypeOK
  <2>3. /\ \A d \in Cores \ {c} : slice_length'[d] = slice_length[d] /\ downcount'[d] = downcount[d]
        /\ slice_length'[c] = s /\ downcount'[c] = n
    BY <2>1, <2>2
  <2>4. ~is_timer_sane[c]
    BY <1>1 DEF SliceFits
  <2> QED
    BY <2>1, <2>3, <2>4 DEF Executed, GetTicks
<1>4. \A d \in Cores \ {c} : NoneDue(d) => NoneDue(d)'
  BY <1>3 DEF NoneDue, Due, SliceStep
<1>5. SliceFits(c)'
  <2>1. ASSUME NEW i \in DOMAIN event_queue'[c]
        PROVE  executed_ticks[c] + s <= event_queue'[c][i].time
    <3>1. executed_ticks[c] \in Nat /\ slice_length[c] \in Nat
      BY TicksFacts
    <3>2. s <= slice_length[c] /\ event_queue[c] \in Seq(Events) /\ event_queue'[c] \in Seq(Events)
      BY DEF SliceStep, IInv, TypesOK, TypeOK
    <3>3. CASE event_queue'[c][i].time >= executed_ticks[c] + s
      <4>1. event_queue'[c][i].time \in Int
        BY <3>2, EventTime
      <4> QED
        BY <3>1, <3>3, <4>1
    <3>4. ASSUME NEW j \in DOMAIN event_queue[c], event_queue'[c][i] = event_queue[c][j]
          PROVE  executed_ticks[c] + s <= event_queue'[c][i].time
      <4>1. event_queue[c][j].time \in Int
        BY <3>2, EventTime
      <4>2. executed_ticks[c] + slice_length[c] <= event_queue[c][j].time
        BY <1>1 DEF SliceFits
      <4> QED
        BY <3>1, <3>2, <3>4, <4>1, <4>2
    <3> QED
      BY <3>3, <3>4 DEF SliceStep
  <2>2. ~is_timer_sane[c] /\ s > 0
    BY <1>1 DEF SliceFits, SliceStep
  <2> QED
    BY <1>3, <2>1, <2>2 DEF SliceFits
<1>6. s - n >= Executed(c) /\ Executed(c) \in Nat /\ n >= -MaxOvershoot /\ s <= slice_length[c]
      /\ slice_length[c] \in Nat /\ executed_ticks[c] \in Nat /\ max_slice \in Nat /\ delay[c] \in Nat
  BY TicksFacts DEF SliceStep
<1>7. ASSUME phase = "execute" PROVE Spread'
  <2>1. s - n <= max_slice + MaxOvershoot
    BY <1>1, <1>6, <1>7
  <2>2. c \in Nat /\ MaxOvershoot * c \in Nat
        /\ MaxOvershoot * (c + 1) = MaxOvershoot * c + MaxOvershoot
    BY CoreFacts, Overshoots
  <2>3. Executed(c)' <= MaxSlice + MaxOvershoot * (c + 1)
    BY <1>1, <1>3, <1>6, <1>7, <2>1, <2>2
  <2>4. ASSUME NEW d \in Cores, d < c PROVE Executed(c)' <= Executed(d)' + MaxOvershoot * (c - d)
    <3>1. PICK k \in Nat : k = c - 1 - d /\ c - d = k + 1
      BY <2>4, CoreFacts
    <3>2. max_slice <= Executed(d) + MaxOvershoot * k
      BY <1>1, <1>7, <2>4, <3>1
    <3>3. MaxOvershoot * k \in Nat /\ MaxOvershoot * (k + 1) = MaxOvershoot * k + MaxOvershoot
      BY Overshoots
    <3>4. Executed(d)' = Executed(d) /\ Executed(d) \in Nat /\ Executed(c)' = s - n
      <4>1. d # c
        BY <2>4, CoreFacts
      <4> QED
        BY <1>3, <4>1, TicksFacts
    <3>5. Executed(c)' <= Executed(d)' + MaxOvershoot * (k + 1)
      BY <1>6, <2>1, <3>2, <3>3, <3>4
    <3> QED
      BY <3>1, <3>5
  <2>5. ASSUME NEW d \in Cores, NEW e \in Cores, d < e
        PROVE  Executed(e)' <= Executed(d)' + MaxOvershoot * (e - d)
    <3>1. CASE e = c
      BY <2>4, <2>5, <3>1
    <3>2. CASE e # c
      <4>1. Executed(e) <= Executed(d) + MaxOvershoot * (e - d)
        BY <1>7, <2>5 DEF IInv, RoundOK, Spread
      <4>2. PICK k \in Nat : k = e - d
        BY <2>5, CoreFacts
      <4>3. MaxOvershoot * k \in Nat /\ Executed(d) \in Nat /\ Executed(e) \in Nat
        BY Overshoots, TicksFacts
      <4>4. /\ Executed(e)' = Executed(e)
            /\ d = c => Executed(d)' = s - n
            /\ d # c => Executed(d)' = Executed(d)
        BY <1>3, <3>2
      <4>5. Executed(e)' <= Executed(d)' + MaxOvershoot * k
        BY <1>6, <4>1, <4>2, <4>3, <4>4
      <4> QED
        BY <4>2, <4>5
    <3> QED
      BY <3>1, <3>2
  <2>6. \A d \in Cores : ~is_timer_sane'[d] /\ Executed(d)' <= MaxSlice + MaxOvershoot * (d + 1)
    BY <1>3, <1>7, <2>3 DEF IInv, RoundOK, Spread
  <2>7. \A d, e \in Cores : executed_ticks'[d] - executed_ticks'[e] <= MinDelay
    BY <1>3, <1>7 DEF IInv, RoundOK, Spread
  <2> QED
    BY <2>5, <2>6, <2>7 DEF Spread
<1>8. RoundOK'
  <2> SUFFICES ASSUME phase = "execute" PROVE RoundOK'
    BY <1>3 DEF RoundOK
  <2>1. \A d \in Cores : d < c => max_slice' <= Executed(d)' + MaxOvershoot * (c - 1 - d)
    BY <1>1, <1>3, CoreFacts
  <2>2. \A d \in Cores : d > c => Fresh(d)' /\ NoneDue(d)'
    BY <1>1, <1>3, <1>4, CoreFacts DEF Fresh
  <2>3. visiting' /\ slice_length'[c] <= max_slice' /\ remaining' = c..NumCores - 1
        /\ max_slice' <= MaxSlice + MaxOvershoot * c
    BY <1>1, <1>3, <1>6 DEF SliceStep, InSlice
  <2>4. \A d \in Cores : d > c \/ (d = c /\ ~visiting') => Fresh(d)' /\ NoneDue(d)'
    BY <2>2, <2>3
  <2> QED
    BY <1>5, <1>7, <2>1, <2>3, <2>4 DEF RoundOK
<1>9. \A d \in Cores : /\ Executed(d)' >= 0 /\ downcount'[d] >= -MaxOvershoot
                       /\ is_timer_sane'[d] => Executed(d)' = 0
  <2>1. \A d \in Cores : /\ Executed(d) >= 0 /\ downcount[d] >= -MaxOvershoot
                         /\ is_timer_sane[d] => Executed(d) = 0
    BY DEF IInv, ClocksOK
  <2>2. ~is_timer_sane[c]
    BY <1>1 DEF SliceFits
  <2>3. s - n >= 0
    BY <1>6
  <2> QED
    BY <1>3, <1>6, <2>1, <2>2, <2>3
<1>10. Clocks' \in [Cores -> Int] /\ \A d \in Cores : Clocks'[d] = GetTicks(d)'
  <2>1. \A d \in Cores : GetTicks(d)' \in Int
    BY <1>3, <1>6, TicksFacts
  <2> QED
    BY <2>1 DEF Clocks
<1>11. ASSUME phase = "delayed" PROVE LagsOK' /\ Close(Clocks)'
  <2>1. \A d \in Cores : Base(d)' = Base(d)
    BY <1>1, <1>3, <1>11 DEF Base
  <2>2. Bases' = Bases
    BY <2>1 DEF Bases
  <2>3. Close(Bases) /\ (\E d \in Cores : delay[d] = 0)
        /\ \A d, e \in Cores : Base(d) + delay[d] = Base(e) + delay[e]
    BY <1>11 DEF IInv, LagsOK
  <2>4. LagsOK'
    <3>1. Close(Bases)' /\ (\E d \in Cores : delay'[d] = 0)
          /\ \A d, e \in Cores : Base(d)' + delay'[d] = Base(e)' + delay'[e]
      BY <1>3, <2>1, <2>2, <2>3
    <3>2. /\ remaining' = {c} /\ visiting' /\ SliceFits(c)' /\ slice_length'[c] <= delay'[c]
          /\ \A d \in Cores : delay'[d] <= delay'[c]
      BY <1>1, <1>3, <1>5, <1>6, <1>11 DEF SliceStep, InSlice
    <3> QED
      BY <3>1, <3>2 DEF LagsOK
  <2>5. Bases \in [Cores -> Int] /\ \A d \in Cores : Bases[d] = Base(d) /\ delay[d] \in Nat
    BY TicksFacts DEF Bases, Base
  <2>6. PICK g \in Cores : delay[g] = 0
    BY <2>3
  <2>7. \A d \in Cores : Bases[c] <= Bases[d] /\ Bases[d] <= Bases[g]
    BY <1>1, <1>11, <2>3, <2>5, <2>6
  <2>8. Bases[c] = executed_ticks[c] /\ \A d \in Cores \ {c} : Bases[d] = Clocks'[d]
    BY <1>1, <1>3, <1>10, <1>11, <2>5 DEF Base
  <2>9. PICK k \in Nat : k = s - n
    BY <1>6
  <2>10. Clocks'[c] = Bases[c] + k
    BY <1>3, <1>10, <2>8, <2>9
  <2>11. PICK U : U = [Bases EXCEPT ![c] = Bases[c] + k]
    OBVIOUS
  <2>12. Clocks' = U
    BY <1>10, <2>5, <2>8, <2>10, <2>11
  <2>13. Bases[c] + k <= Bases[g] + MaxOvershoot
    <3>1. Bases[c] + delay[c] = Bases[g]
      BY <2>3, <2>5, <2>6
    <3>2. k <= delay[c] + MaxOvershoot
      BY <1>1, <1>6, <1>11, <2>9
    <3> QED
      BY <1>6, <2>5, <2>9, <3>1, <3>2
  <2>14. U \in [Cores -> Int]
    BY <1>10, <2>12
  <2>15. Close(U)
    <3>1. PICK B \in [Cores -> Int] : B = Bases
      BY <2>5
    <3>2. /\ U[c] = B[c] + k /\ Close(B)
          /\ \A d \in Cores \ {c} : U[d] = B[d]
          /\ \A d \in Cores : B[c] <= B[d] /\ B[d] <= B[g]
          /\ B[c] + k <= B[g] + MaxOvershoot
      BY <2>3, <2>7, <2>11, <2>13, <3>1
    <3> QED
      BY <2>6, <2>9, <2>14, <3>1, <3>2, LoneClose
  <2> QED
    BY <2>4, <2>12, <2>15
<1>12. ASSUME phase = "execute" PROVE LagsOK' /\ Close(Clocks)'
  <2>1. LagsOK'
    BY <1>3, <1>12 DEF LagsOK
  <2>2. PICK X : X = [d \in Cores |-> Executed(d)']
    OBVIOUS
  <2>3. PICK T, E : T = Clocks' /\ E = executed_ticks
    OBVIOUS
  <2>4. X \in [Cores -> Nat] /\ T \in [Cores -> Int] /\ E \in [Cores -> Int]
    <3>1. \A d \in Cores : Executed(d)' \in Nat
      BY <1>3, <1>6, TicksFacts
    <3>2. executed_ticks \in [Cores -> Int]
      BY DEF IInv, TypesOK, TypeOK
    <3> QED
      BY <1>10, <2>2, <2>3, <3>1, <3>2
  <2>5. \A d \in Cores : T[d] = E[d] + X[d]
    BY <1>3, <1>10, <2>2, <2>3, TicksFacts
  <2>6. /\ \A d, e \in Cores : E[e] - E[d] <= MinDelay
        /\ \A d \in Cores : X[d] <= MaxSlice + MaxOvershoot * (d + 1)
        /\ \A d, e \in Cores : e < d => X[d] <= X[e] + MaxOvershoot * (d - e)
    BY <1>3, <1>7, <1>12, <2>2, <2>3 DEF Spread
  <2>7. Close(T)
    BY <2>4, <2>5, <2>6, ChainClose
  <2> QED
    BY <2>1, <2>3, <2>7
<1>13. AdvanceOK'
  BY <1>3 DEF AdvanceOK, SliceStep, InSlice
<1> QED
  BY <1>2, <1>8, <1>9, <1>11, <1>12, <1>13 DEF Keeps, ClocksOK, SliceStep, InSlice

\* What is erased from a queue leaves a queue of some of its events.
LEMMA ErasedFacts ==
  ASSUME NEW q \in Seq(Events), NEW ids, NEW r \in Erased(q, ids)
  PROVE  /\ r \in Seq(Events)
         /\ \A i \in DOMAIN r : \E j \in DOMAIN q : r[i] = q[j]
<1>1. PICK I : I = {i \in DOMAIN q : q[i].id \notin ids}
  OBVIOUS
<1>2. PICK f \in InOrder(I) : r = [i \in DOMAIN f |-> q[f[i]]]
  BY <1>1 DEF Erased
<1>3. Len(q) \in Nat /\ DOMAIN q = 1..Len(q)
  BY LenProperties
<1>4. IsFiniteSet(1..Len(q)) /\ I \in SUBSET (1..Len(q))
  BY <1>1, <1>3, FS_Interval
<1>5. PICK k \in Nat : k = Cardinality(I)
  BY <1>4, FS_Subset, FS_CardinalityType
<1>6. f \in [1..k -> I]
  BY <1>2, <1>5 DEF InOrder
<1>7. \A i \in 1..k : f[i] \in DOMAIN q /\ q[f[i]] \in Events
  BY <1>1, <1>6, EventTime
<1>8. DOMAIN r = 1..k /\ \A i \in 1..k : r[i] = q[f[i]]
  BY <1>2, <1>6
<1>9. r \in [1..k -> Events]
  BY <1>2, <1>6, <1>7
<1> QED
  BY <1>7, <1>8, <1>9, SeqDef

\* An event at the end of a queue.
LEMMA AppendEvent ==
  ASSUME NEW q \in Seq(Events), NEW time \in Int, NEW id \in Ids
  PROVE  /\ Append(q, Event(time, id)) \in Seq(Events)
         /\ \A i \in DOMAIN Append(q, Event(time, id)) :
              \/ \E j \in DOMAIN q : Append(q, Event(time, id))[i] = q[j]
              \/ Append(q, Event(time, id))[i].time = time
<1>1. PICK e \in Events : e = Event(time, id) /\ e.time = time
  <2>1. [time |-> time, id |-> id] \in Events /\ [time |-> time, id |-> id].time = time
    BY DEF Events
  <2> QED
    BY <2>1 DEF Event
<1>2. /\ Append(q, e) \in Seq(Events) /\ DOMAIN Append(q, e) = 1..Len(q) + 1
      /\ \A i \in 1..Len(q) : Append(q, e)[i] = q[i]
      /\ Append(q, e)[Len(q) + 1] = e
      /\ DOMAIN q = 1..Len(q) /\ Len(q) \in Nat
  BY AppendProperties, LenProperties
<1>3. ASSUME NEW i \in 1..Len(q) + 1 PROVE i \in 1..Len(q) \/ i = Len(q) + 1
  BY <1>2
<1> QED
  BY <1>1, <1>2, <1>3

\* What a core executes is a step of its slice.
LEMMA AddTicksSteps ==
  ASSUME IInv, NEW c \in Cores, NEW n \in 1..MaxSlice + MaxOvershoot, AddTicks(c, n)
  PROVE  Keeps
<1> USE Params
<1>1. PICK s \in Nat, m \in Int : s = slice_length[c] /\ m = downcount[c] - n
  BY TicksFacts
<1>2. SliceFits(c) /\ InSlice(c)
  BY InSliceFacts DEF AddTicks, CanExecute
<1>3. s > 0 /\ m >= -MaxOvershoot /\ s - m >= Executed(c) /\ s <= slice_length[c]
  BY <1>1, <1>2, TicksFacts DEF SliceFits, AddTicks, CanExecute, Executed
<1>4. slice_length' = [slice_length EXCEPT ![c] = s] /\ downcount' = [downcount EXCEPT ![c] = m]
  BY <1>1 DEF AddTicks, IInv, TypesOK, TypeOK
<1>5. /\ event_queue' \in [Cores -> Seq(Events)] /\ ts_queue' \in [Cores -> Seq(Events)]
      /\ event_queue' = event_queue
      /\ UNCHANGED <<executed_ticks, is_timer_sane, roundVars>>
  BY DEF AddTicks, queueVars, IInv, TypesOK, TypeOK
<1>6. SliceStep(c, s, m)
  BY <1>2, <1>3, <1>4, <1>5 DEF SliceStep
<1> QED
  BY <1>6, SliceStepKeeps

\* Idle keeps the invariant.
LEMMA IdleSteps ==
  ASSUME IInv, NEW c \in Cores, Idle(c)
  PROVE  Keeps
<1> USE Params
<1>1. PICK s \in Nat : s = slice_length[c]
  BY TicksFacts
<1>2. SliceFits(c) /\ InSlice(c)
  BY InSliceFacts DEF Idle
<1>3. s > 0 /\ 0 >= -MaxOvershoot /\ s - 0 >= Executed(c) /\ s <= slice_length[c]
  BY <1>1, <1>2, TicksFacts DEF SliceFits, Idle, Executed
<1>4. slice_length' = [slice_length EXCEPT ![c] = s] /\ downcount' = [downcount EXCEPT ![c] = 0]
  BY <1>1 DEF Idle, IInv, TypesOK, TypeOK
<1>5. /\ event_queue' \in [Cores -> Seq(Events)] /\ ts_queue' \in [Cores -> Seq(Events)]
      /\ event_queue' = event_queue
      /\ UNCHANGED <<executed_ticks, is_timer_sane, roundVars>>
  BY DEF Idle, queueVars, IInv, TypesOK, TypeOK
<1>6. SliceStep(c, s, 0)
  BY <1>2, <1>3, <1>4, <1>5 DEF SliceStep
<1> QED
  BY <1>6, SliceStepKeeps

\* Unschedule keeps the invariant.
LEMMA UnscheduleSteps ==
  ASSUME IInv, NEW c \in Cores, NEW n \in 1..MaxSlice + MaxOvershoot, NEW ids,
         UnscheduleEvent(c, n, ids)
  PROVE  Keeps
<1> USE Params
<1>1. PICK s \in Nat, m \in Int : s = slice_length[c] /\ m = downcount[c] - n
  BY TicksFacts
<1>2. SliceFits(c) /\ InSlice(c)
  BY InSliceFacts DEF UnscheduleEvent, CanExecute
<1>3. s > 0 /\ m >= -MaxOvershoot /\ s - m >= Executed(c) /\ s <= slice_length[c]
  BY <1>1, <1>2, TicksFacts DEF SliceFits, UnscheduleEvent, CanExecute, Executed
<1>4. slice_length' = [slice_length EXCEPT ![c] = s] /\ downcount' = [downcount EXCEPT ![c] = m]
  BY <1>1 DEF UnscheduleEvent, IInv, TypesOK, TypeOK
<1>5. ts_queue' \in [Cores -> Seq(Events)] /\ UNCHANGED <<executed_ticks, is_timer_sane, roundVars>>
  BY DEF UnscheduleEvent, IInv, TypesOK, TypeOK
<1>6. ASSUME NEW d \in Cores
      PROVE  /\ event_queue'[d] \in Seq(Events)
             /\ \A i \in DOMAIN event_queue'[d] :
                  \E j \in DOMAIN event_queue[d] : event_queue'[d][i] = event_queue[d][j]
  <2>1. event_queue[d] \in Seq(Events) /\ event_queue'[d] \in Erased(event_queue[d], ids)
    BY DEF UnscheduleEvent, IInv, TypesOK, TypeOK
  <2> QED
    BY <2>1, ErasedFacts
<1>7. event_queue' \in [Cores -> Seq(Events)]
  <2>1. \E S : event_queue' \in [Cores -> S]
    BY DEF UnscheduleEvent
  <2> QED
    BY <1>6, <2>1
<1>8. SliceStep(c, s, m)
  BY <1>2, <1>3, <1>4, <1>5, <1>6, <1>7 DEF SliceStep
<1> QED
  BY <1>8, SliceStepKeeps

\* Schedule keeps the invariant.
LEMMA ScheduleSteps ==
  ASSUME IInv, NEW r \in Cores, NEW n \in 1..MaxSlice + MaxOvershoot, NEW c \in Cores,
         NEW cycles \in Nat, NEW id \in Ids, ScheduleEvent(r, n, c, cycles, id)
  PROVE  Keeps
<1> USE Params
<1>1. PICK down \in Int, left \in Int :
        down = downcount[r] - n /\ left = ForceExceptionCheck(down, cycles)
  BY TicksFacts DEF ForceExceptionCheck
<1>2. SliceFits(r) /\ InSlice(r)
  BY InSliceFacts DEF ScheduleEvent, CanExecute
<1>3. /\ slice_length[r] \in Nat /\ slice_length[r] > 0 /\ Executed(r) \in Nat
      /\ Executed(r) = slice_length[r] - downcount[r] /\ down >= -MaxOvershoot
      /\ downcount[r] \in Int /\ down = downcount[r] - n /\ executed_ticks[r] \in Nat
      /\ GetTicks(r) = executed_ticks[r] + Executed(r) /\ GetTicks(c) \in Nat
  BY <1>1, <1>2, TicksFacts DEF SliceFits, ScheduleEvent, CanExecute, Executed
<1>4. UNCHANGED <<executed_ticks, is_timer_sane, roundVars>>
  BY DEF ScheduleEvent
<1>5. event_queue \in [Cores -> Seq(Events)] /\ ts_queue \in [Cores -> Seq(Events)]
      /\ slice_length \in [Cores -> Nat] /\ downcount \in [Cores -> Int]
  BY DEF IInv, TypesOK, TypeOK
<1>6. CASE c = r
  <2>1. left <= down /\ left <= cycles /\ left >= -MaxOvershoot
    BY <1>1, <1>3 DEF ForceExceptionCheck
  <2>2. PICK s \in Int : s = slice_length[r] - (down - left)
    BY <1>3
  <2>3. s \in Nat /\ s > 0 /\ s <= slice_length[r] /\ s - left >= Executed(r)
    <3>1. left >= 0 \/ left = down
      BY <1>1 DEF ForceExceptionCheck
    <3> QED
      BY <1>3, <2>1, <2>2, <3>1
  <2>4. PICK time \in Int : time = GetTicks(r) + n + cycles /\ time >= executed_ticks[r] + s
    BY <1>3, <2>1, <2>2
  <2>5. /\ downcount' = [downcount EXCEPT ![r] = left]
        /\ slice_length' = [slice_length EXCEPT ![r] = s]
        /\ event_queue' = [event_queue EXCEPT ![r] = Append(@, Event(time, id))]
        /\ ts_queue' = ts_queue
    BY <1>1, <1>6, <2>2, <2>4 DEF ScheduleEvent
  <2>6. PICK q \in Seq(Events) :
          /\ q = Append(event_queue[r], Event(time, id))
          /\ \A i \in DOMAIN q : (\E j \in DOMAIN event_queue[r] : q[i] = event_queue[r][j])
                                 \/ q[i].time = time
    <3>1. PICK old \in Seq(Events) : old = event_queue[r]
      BY <1>5
    <3>2. PICK q \in Seq(Events) : q = Append(old, Event(time, id))
      BY AppendEvent
    <3>3. \A i \in DOMAIN q : (\E j \in DOMAIN old : q[i] = old[j]) \/ q[i].time = time
      BY <3>2, AppendEvent
    <3> QED
      BY <3>1, <3>2, <3>3
  <2>7. /\ event_queue' \in [Cores -> Seq(Events)] /\ event_queue'[r] = q
        /\ \A d \in Cores \ {r} : event_queue'[d] = event_queue[d]
    BY <1>5, <2>5, <2>6
  <2>8. \A d \in Cores : \A i \in DOMAIN event_queue'[d] :
          \/ \E j \in DOMAIN event_queue[d] : event_queue'[d][i] = event_queue[d][j]
          \/ d = r /\ event_queue'[r][i].time >= executed_ticks[r] + s
    <3>1. ASSUME NEW i \in DOMAIN q
          PROVE  (\E j \in DOMAIN event_queue[r] : q[i] = event_queue[r][j])
                 \/ q[i].time >= executed_ticks[r] + s
      BY <2>4, <2>6
    <3> QED
      BY <2>7, <3>1
  <2>9. SliceStep(r, s, left)
    BY <1>2, <1>4, <1>5, <2>1, <2>3, <2>5, <2>7, <2>8 DEF SliceStep
  <2> QED
    BY <2>3, <2>9, SliceStepKeeps
<1>7. CASE c # r
  <2>1. PICK s \in Nat : s = slice_length[r] /\ s > 0 /\ s - down >= Executed(r)
    BY <1>3
  <2>2. PICK time \in Int : time = GetTicks(c) + cycles
    BY <1>3
  <2>3. /\ downcount' = [downcount EXCEPT ![r] = down]
        /\ slice_length' = slice_length /\ event_queue' = event_queue
        /\ ts_queue' = [ts_queue EXCEPT ![c] = Append(@, Event(time, id))]
    BY <1>1, <1>7, <2>2 DEF ScheduleEvent
  <2>4. slice_length' = [slice_length EXCEPT ![r] = s]
    BY <1>5, <2>1, <2>3
  <2>5. ts_queue' \in [Cores -> Seq(Events)]
    BY <1>5, <2>3, AppendEvent
  <2>6. SliceStep(r, s, down)
    <3>1. s <= slice_length[r]
      BY <2>1
    <3> QED
      BY <3>1, <1>2, <1>3, <1>4, <1>5, <2>1, <2>3, <2>4, <2>5 DEF SliceStep
  <2> QED
    BY <2>6, SliceStepKeeps
<1> QED
  BY <1>6, <1>7

-----------------------------------------------------------------------------
\* Steps that leave the clocks alone.

\* Queues grow and shrink, an event_queue only of a core still to be advanced.
LEMMA QueueStepKeeps ==
  ASSUME IInv, UNCHANGED <<clockVars, roundVars>>,
         event_queue' \in [Cores -> Seq(Events)], ts_queue' \in [Cores -> Seq(Events)],
         \A d \in Cores : \/ event_queue'[d] = event_queue[d]
                          \/ phase \in {"catchup", "advance"} /\ d \in remaining
  PROVE  Keeps
<1>1. UNCHANGED <<executed_ticks, slice_length, downcount, is_timer_sane, phase, remaining,
                  visiting, delay, max_slice>>
  BY DEF clockVars, roundVars
<1>2. TypesOK'
  BY <1>1 DEF IInv, TypesOK, TypeOK
<1>3. \A d \in Cores : Executed(d)' = Executed(d) /\ GetTicks(d)' = GetTicks(d)
                       /\ Base(d)' = Base(d) /\ (Fresh(d)' <=> Fresh(d))
  BY <1>1 DEF Executed, GetTicks, Base, Fresh
<1>4. Clocks' = Clocks /\ Bases' = Bases
  BY <1>3 DEF Clocks, Bases
<1>5. \A d \in Cores : event_queue'[d] = event_queue[d] =>
        (NoneDue(d) => NoneDue(d)') /\ (SliceFits(d) => SliceFits(d)')
  BY <1>1 DEF NoneDue, Due, SliceFits
<1>6. ClocksOK'
  BY <1>1, <1>3, <1>4 DEF IInv, ClocksOK
<1>7. AdvanceOK'
  <2>1. phase \in {"catchup", "advance"} =>
          /\ remaining # {} /\ max_slice <= MaxSlice
          /\ \A c \in Cores : IsRunning(c)' /\ visiting =>
               is_timer_sane[c] /\ slice_length[c] = 0 /\ downcount[c] = 0
    BY <1>1 DEF IInv, AdvanceOK, IsRunning
  <2>2. phase = "catchup" =>
          /\ \A c \in remaining : delay[c] > 0
          /\ \A c \in Cores \ remaining : delay[c] > 0 =>
               SliceFits(c)' /\ Executed(c)' = 0 /\ slice_length[c] <= delay[c]
    BY <1>3, <1>5 DEF IInv, AdvanceOK
  <2>3. phase = "advance" =>
          /\ \A c \in Cores : delay[c] <= MinDelay
          /\ \A c \in Cores \ remaining : Fresh(c)' /\ NoneDue(c)'
    BY <1>3, <1>5 DEF IInv, AdvanceOK
  <2> QED
    BY <1>1, <2>1, <2>2, <2>3 DEF AdvanceOK
<1>8. LagsOK'
  <2>1. phase = "delayed" =>
          \E c \in Cores :
            /\ remaining = {c} /\ visiting /\ SliceFits(c)' /\ slice_length[c] <= delay[c]
            /\ \A d \in Cores : delay[d] <= delay[c]
    BY <1>5 DEF IInv, LagsOK
  <2>2. phase \in {"catchup", "advance", "delayed"} =>
          /\ \E c \in Cores : delay[c] = 0
          /\ \A c, d \in Cores : Base(c)' + delay[c] = Base(d)' + delay[d]
    BY <1>3 DEF IInv, LagsOK
  <2>3. phase = "delayed" => Close(Bases)
    BY DEF IInv, LagsOK
  <2> QED
    BY <1>1, <1>4, <2>1, <2>2, <2>3 DEF LagsOK
<1>9. RoundOK'
  <2>1. phase = "execute" => Spread'
    BY <1>1, <1>3 DEF IInv, RoundOK, Spread
  <2>2. ASSUME phase = "execute"
        PROVE  \E m \in Cores :
          /\ remaining = m..NumCores - 1
          /\ max_slice <= MaxSlice + MaxOvershoot * m
          /\ \A d \in Cores : d < m => max_slice <= Executed(d)' + MaxOvershoot * (m - 1 - d)
          /\ visiting => SliceFits(m)' /\ slice_length[m] <= max_slice
          /\ \A c \in Cores : c > m \/ (c = m /\ ~visiting) => Fresh(c)' /\ NoneDue(c)'
    <3>1. PICK m \in Cores :
          /\ remaining = m..NumCores - 1
          /\ max_slice <= MaxSlice + MaxOvershoot * m
          /\ \A d \in Cores : d < m => max_slice <= Executed(d) + MaxOvershoot * (m - 1 - d)
          /\ visiting => SliceFits(m) /\ slice_length[m] <= max_slice
          /\ \A c \in Cores : c > m \/ (c = m /\ ~visiting) => Fresh(c) /\ NoneDue(c)
      BY <2>2 DEF IInv, RoundOK
    <3>2. \A d \in Cores : event_queue'[d] = event_queue[d]
      BY <2>2
    <3> QED
      BY <1>3, <1>5, <3>1, <3>2
  <2> QED
    BY <1>1, <2>1, <2>2 DEF RoundOK
<1> QED
  BY <1>2, <1>6, <1>7, <1>8, <1>9 DEF Keeps

\* HostSchedule keeps the invariant.
LEMMA HostScheduleKeeps ==
  ASSUME IInv, NEW c \in Cores, NEW skew \in Int, NEW id \in Ids, HostSchedule(c, skew, 0, id)
  PROVE  Keeps
<1> USE Params
<1>1. PICK S : S = {2 * MaxSlice, 0}
  OBVIOUS
<1>2. PICK future \in Int : future = Max(S)
  <2>1. S \subseteq Int /\ S # {} /\ 2 * MaxSlice \in Int /\ \A x \in S : x <= 2 * MaxSlice
    BY <1>1
  <2>2. Max(S) \in S
    BY <2>1, MaxFacts
  <2> QED
    BY <2>1, <2>2
<1>3. PICK time \in Int : time = executed_ticks[c] + skew + future
  BY TicksFacts
<1>4. /\ ts_queue' = [ts_queue EXCEPT ![c] = Append(@, Event(time, id))]
      /\ UNCHANGED <<clockVars, roundVars>> /\ event_queue' = event_queue
  BY <1>1, <1>2, <1>3 DEF HostSchedule
<1>5. event_queue \in [Cores -> Seq(Events)] /\ ts_queue \in [Cores -> Seq(Events)]
  BY DEF IInv, TypesOK, TypeOK
<1>6. ts_queue' \in [Cores -> Seq(Events)]
  BY <1>4, <1>5, AppendEvent
<1> QED
  BY <1>4, <1>5, <1>6, QueueStepKeeps

\* Fire keeps the invariant.
LEMMA FireKeeps ==
  ASSUME IInv, NEW c \in Cores, Fire(c)
  PROVE  Keeps
<1>1. PICK q \in Seq(Events), ts \in [Cores -> Seq(Events)] :
        q = event_queue[c] /\ ts = ts_queue /\ event_queue \in [Cores -> Seq(Events)]
  BY DEF IInv, TypesOK, TypeOK
<1>2. PICK i \in DOMAIN q :
        LET e == q[i]
            again == Event(GetTicks(c) + Period[e.id] - (executed_ticks[c] - e.time), e.id)
        IN event_queue' =
             [event_queue EXCEPT
                ![c] = RemoveAt(q, i) \o IF Period[e.id] > 0 THEN <<again>> ELSE <<>>]
  BY <1>1 DEF Fire
<1>3. q[i].time \in Int /\ q[i].id \in Ids
  BY EventTime
<1>4. PICK time \in Int : time = GetTicks(c) + Period[q[i].id] - (executed_ticks[c] - q[i].time)
  <2>1. Period[q[i].id] \in Nat
    BY <1>3, TimingAssumption
  <2> QED
    BY <1>3, <2>1, TicksFacts
<1>5. PICK more \in Seq(Events) :
        more = IF Period[q[i].id] > 0 THEN <<Event(time, q[i].id)>> ELSE <<>>
  <2>1. PICK e \in Events : e = Event(time, q[i].id)
    BY <1>3 DEF Event, Events
  <2>2. <<e>> \in Seq(Events) /\ <<>> \in Seq(Events)
    OBVIOUS
  <2> QED
    BY <2>1, <2>2
<1>6. RemoveAt(q, i) \in Seq(Events)
  <2>1. Len(q) \in Nat /\ i \in 1..Len(q)
    BY LenProperties
  <2>2. SubSeq(q, 1, i - 1) \in Seq(Events) /\ SubSeq(q, i + 1, Len(q)) \in Seq(Events)
    BY <2>1, SubSeqProperties, LenProperties, ElementOfSeq
  <2> QED
    BY <2>2, ConcatProperties DEF RemoveAt
<1>7. PICK r \in Seq(Events) : r = RemoveAt(q, i) \o more
  BY <1>6, ConcatProperties
<1>8. event_queue' = [event_queue EXCEPT ![c] = r]
  BY <1>2, <1>4, <1>5, <1>7
<1>9. event_queue' \in [Cores -> Seq(Events)] /\ \A d \in Cores \ {c} : event_queue'[d] = event_queue[d]
  BY <1>1, <1>8
<1>10. /\ phase \in {"catchup", "advance"} /\ c \in remaining
       /\ ts_queue' = ts_queue /\ UNCHANGED <<clockVars, roundVars>>
  BY DEF Fire, IsRunning
<1> QED
  BY <1>1, <1>9, <1>10, QueueStepKeeps

-----------------------------------------------------------------------------
\* The run loop.

\* A core takes the events left for it and adds what it executed to its clock.
LEMMA AdvanceKeeps ==
  ASSUME IInv, NEW c \in Cores, Advance(c)
  PROVE  Keeps
<1> USE Params
<1>1. /\ phase \in {"catchup", "advance"} /\ IsRunning(c) /\ ~visiting /\ c \in remaining
      /\ visiting' = TRUE /\ UNCHANGED <<phase, remaining, delay, max_slice>>
      /\ executed_ticks' = [executed_ticks EXCEPT ![c] = @ + slice_length[c] - downcount[c]]
      /\ slice_length' = [slice_length EXCEPT ![c] = 0]
      /\ downcount' = [downcount EXCEPT ![c] = 0]
      /\ is_timer_sane' = [is_timer_sane EXCEPT ![c] = TRUE]
  BY DEF Advance, IsRunning
<1>2. PICK t \in Nat : t = executed_ticks[c] + slice_length[c] - downcount[c]
                       /\ t = GetTicks(c)
  BY TicksFacts DEF Executed
<1>3. /\ executed_ticks' = [executed_ticks EXCEPT ![c] = t] /\ executed_ticks \in [Cores -> Nat]
      /\ slice_length \in [Cores -> Nat] /\ downcount \in [Cores -> Int]
      /\ is_timer_sane \in [Cores -> BOOLEAN]
      /\ event_queue \in [Cores -> Seq(Events)] /\ ts_queue \in [Cores -> Seq(Events)]
  BY <1>1, <1>2 DEF IInv, TypesOK, TypeOK
<1>4. /\ event_queue' \in [Cores -> Seq(Events)] /\ ts_queue' \in [Cores -> Seq(Events)]
      /\ \A d \in Cores \ {c} : event_queue'[d] = event_queue[d]
  <2>1. event_queue' = [event_queue EXCEPT ![c] = @ \o ts_queue[c]]
        /\ ts_queue' = [ts_queue EXCEPT ![c] = <<>>]
    BY DEF Advance
  <2>2. PICK q \in Seq(Events) : q = event_queue[c] \o ts_queue[c]
    BY <1>3, ConcatProperties
  <2>3. <<>> \in Seq(Events) /\ event_queue' = [event_queue EXCEPT ![c] = q]
    BY <2>1, <2>2
  <2> QED
    BY <1>3, <2>1, <2>3
<1>5. TypesOK'
  <2>1. /\ executed_ticks' \in [Cores -> Nat] /\ executed_ticks' \in [Cores -> Int]
        /\ slice_length' \in [Cores -> Nat] /\ downcount' \in [Cores -> Int]
        /\ is_timer_sane' \in [Cores -> BOOLEAN]
    BY <1>1, <1>3
  <2>2. /\ phase' \in {"begin", "catchup", "advance", "execute", "delayed"}
        /\ remaining' \subseteq Cores /\ visiting' \in BOOLEAN
        /\ delay' \in [Cores -> Nat] /\ max_slice' \in Nat /\ max_slice' > 0
    BY <1>1 DEF IInv, TypesOK, TypeOK
  <2> QED
    BY <1>4, <2>1, <2>2 DEF TypesOK, TypeOK
<1>6. /\ executed_ticks'[c] = t /\ slice_length'[c] = 0 /\ downcount'[c] = 0 /\ is_timer_sane'[c]
      /\ \A d \in Cores \ {c} :
           /\ executed_ticks'[d] = executed_ticks[d] /\ slice_length'[d] = slice_length[d]
           /\ downcount'[d] = downcount[d] /\ is_timer_sane'[d] = is_timer_sane[d]
  BY <1>1, <1>3
<1>7. /\ Executed(c)' = 0 /\ GetTicks(c)' = t
      /\ \A d \in Cores \ {c} :
           /\ Executed(d)' = Executed(d) /\ GetTicks(d)' = GetTicks(d)
           /\ (Fresh(d)' <=> Fresh(d)) /\ (NoneDue(d)' <=> NoneDue(d))
           /\ (SliceFits(d)' <=> SliceFits(d))
  BY <1>2, <1>4, <1>6 DEF Executed, GetTicks, Fresh, NoneDue, Due, SliceFits
<1>8. \A d \in Cores : GetTicks(d)' = GetTicks(d) /\ Base(d)' = Base(d)
  BY <1>1, <1>2, <1>7 DEF Base
<1>9. Clocks' = Clocks
  BY <1>8 DEF Clocks
<1>10. ClocksOK'
  BY <1>6, <1>7, <1>9 DEF IInv, ClocksOK
<1>11. AdvanceOK'
  <2>1. remaining # {} /\ max_slice <= MaxSlice
    BY <1>1 DEF IInv, AdvanceOK
  <2>2. \A d \in Cores : IsRunning(d)' => d = c
    BY <1>1, CoreFacts DEF IsRunning
  <2>3. phase = "catchup" =>
          /\ \A d \in remaining : delay[d] > 0
          /\ \A d \in Cores \ remaining : delay[d] > 0 =>
               SliceFits(d)' /\ Executed(d)' = 0 /\ slice_length'[d] <= delay[d]
    BY <1>1, <1>6, <1>7 DEF IInv, AdvanceOK
  <2>4. phase = "advance" =>
          /\ \A d \in Cores : delay[d] <= MinDelay
          /\ \A d \in Cores \ remaining : Fresh(d)' /\ NoneDue(d)'
    BY <1>1, <1>7 DEF IInv, AdvanceOK
  <2> QED
    BY <1>1, <1>6, <2>1, <2>2, <2>3, <2>4 DEF AdvanceOK
<1>12. LagsOK'
  BY <1>1, <1>8 DEF IInv, LagsOK
<1>13. RoundOK'
  BY <1>1 DEF RoundOK
<1> QED
  BY <1>5, <1>10, <1>11, <1>12, <1>13 DEF Keeps

\* The core whose events have fired: its clock stands, no event is due.
LEMMA VisitedFacts ==
  ASSUME IInv, NEW c \in Cores, phase \in {"catchup", "advance"}, IsRunning(c), visiting,
         \A i \in DOMAIN event_queue[c] : ~Due(c, i)
  PROVE  /\ is_timer_sane[c] /\ slice_length[c] = 0 /\ downcount[c] = 0 /\ NoneDue(c)
         /\ GetTicks(c) = executed_ticks[c] /\ Executed(c) = 0 /\ c \in remaining
<1>1. is_timer_sane[c] /\ slice_length[c] = 0 /\ downcount[c] = 0
  BY DEF IInv, AdvanceOK
<1>2. Executed(c) = 0
  BY <1>1 DEF Executed
<1> QED
  BY <1>1, <1>2, TicksFacts DEF NoneDue, IsRunning

\* The lags are bounded, so that one of them is the worst.
LEMMA WorstFacts ==
  ASSUME IInv, phase = "catchup"
  PROVE  LET worst == Max({delay[d] : d \in Cores}) IN
           /\ worst \in Nat /\ \A d \in Cores : delay[d] <= worst
           /\ \E d \in Cores : delay[d] = worst
           /\ LET w == Min({d \in Cores : delay[d] = worst}) IN
                w \in Cores /\ delay[w] = worst
<1> USE Params
<1>1. PICK S : S = {delay[d] : d \in Cores}
  OBVIOUS
<1>2. PICK g \in Cores : delay[g] = 0
  BY DEF IInv, LagsOK
<1>3. PICK b \in Nat : b = MaxSlice + MinDelay + MaxOvershoot * NumCores
  BY Overshoots
<1>4. ASSUME NEW d \in Cores PROVE delay[d] \in Nat /\ delay[d] <= b
  <2>1. Base(d) + delay[d] = Base(g) + delay[g] /\ Base(d) = GetTicks(d) /\ Base(g) = GetTicks(g)
    BY DEF IInv, LagsOK, Base
  <2>2. delay[d] = GetTicks(g) - GetTicks(d) /\ GetTicks(g) \in Nat /\ GetTicks(d) \in Nat
    BY <1>2, <2>1, TicksFacts
  <2>3. PICK k \in Nat : k = Cardinality(Above(Clocks, d)) /\ k <= NumCores - 1
    BY ClocksType, AboveFacts
  <2>4. GetTicks(g) - GetTicks(d) <= MaxSlice + MinDelay + MaxOvershoot * k
    BY <2>3, ClocksType DEF IInv, ClocksOK, Close
  <2>5. MaxOvershoot * k \in Nat /\ MaxOvershoot * k <= MaxOvershoot * NumCores
        /\ MaxOvershoot * NumCores \in Nat
    <3>1. k <= NumCores
      BY <2>3
    <3> QED
      BY <3>1, Overshoots
  <2> QED
    BY <1>3, <2>2, <2>4, <2>5, TicksFacts
<1>5. S \subseteq Int /\ S # {} /\ b \in Int /\ \A x \in S : x <= b
  BY <1>1, <1>2, <1>4
<1>6. PICK worst : worst = Max(S) /\ worst \in S /\ \A y \in S : y <= worst
  BY <1>5, MaxFacts
<1>7. worst \in Nat /\ (\A d \in Cores : delay[d] <= worst) /\ \E d \in Cores : delay[d] = worst
  BY <1>1, <1>4, <1>6
<1>8. PICK W : W = {d \in Cores : delay[d] = worst}
  OBVIOUS
<1>9. Min(W) \in W
  <2>1. W \subseteq Nat /\ W # {}
    BY <1>7, <1>8, CoreFacts
  <2> QED
    BY <2>1, MinFacts
<1>10. Min(W) \in Cores /\ delay[Min(W)] = worst
  BY <1>8, <1>9
<1> QED
  BY <1>1, <1>6, <1>7, <1>8, <1>10

\* CatchUp keeps the invariant.
LEMMA CatchUpKeeps ==
  ASSUME IInv, NEW c \in Cores, CatchUp(c)
  PROVE  Keeps
<1> USE Params
<1>1. phase = "catchup" /\ IsRunning(c) /\ visiting /\ \A i \in DOMAIN event_queue[c] : ~Due(c, i)
  BY DEF CatchUp
<1>2. /\ is_timer_sane[c] /\ slice_length[c] = 0 /\ downcount[c] = 0 /\ NoneDue(c)
      /\ GetTicks(c) = executed_ticks[c] /\ Executed(c) = 0 /\ c \in remaining
  BY <1>1, VisitedFacts
<1>3. delay[c] \in Nat /\ delay[c] > 0
  BY <1>1, <1>2, TicksFacts DEF IInv, AdvanceOK
<1>4. PICK s \in Nat :
        /\ s = TimeToEvent(c, delay[c]) /\ s > 0 /\ s <= delay[c]
        /\ \A i \in DOMAIN event_queue[c] : executed_ticks[c] + s <= event_queue[c][i].time
  BY <1>2, <1>3, TimeToEventFacts
<1>5. /\ slice_length' = [slice_length EXCEPT ![c] = s] /\ downcount' = [downcount EXCEPT ![c] = s]
      /\ is_timer_sane' = [is_timer_sane EXCEPT ![c] = FALSE]
      /\ UNCHANGED <<executed_ticks, event_queue, ts_queue, delay, max_slice>>
  BY <1>4 DEF CatchUp, SetNextSlice, queueVars
<1>6. /\ slice_length \in [Cores -> Nat] /\ downcount \in [Cores -> Int]
      /\ is_timer_sane \in [Cores -> BOOLEAN]
  BY DEF IInv, TypesOK, TypeOK
<1>7. /\ slice_length'[c] = s /\ downcount'[c] = s /\ ~is_timer_sane'[c]
      /\ \A d \in Cores \ {c} : /\ slice_length'[d] = slice_length[d]
                                /\ downcount'[d] = downcount[d]
                                /\ is_timer_sane'[d] = is_timer_sane[d]
  BY <1>5, <1>6
<1>8. /\ Executed(c)' = 0 /\ GetTicks(c)' = executed_ticks[c] /\ SliceFits(c)'
      /\ \A d \in Cores \ {c} :
           /\ Executed(d)' = Executed(d) /\ GetTicks(d)' = GetTicks(d)
           /\ (SliceFits(d)' <=> SliceFits(d))
  <2>1. executed_ticks[c] \in Nat
    BY TicksFacts
  <2>2. Executed(c)' = 0 /\ GetTicks(c)' = executed_ticks[c]
    BY <1>5, <1>7, <2>1 DEF Executed, GetTicks
  <2>3. SliceFits(c)'
    BY <1>4, <1>5, <1>7 DEF SliceFits
  <2>4. ASSUME NEW d \in Cores \ {c}
        PROVE  /\ Executed(d)' = Executed(d) /\ GetTicks(d)' = GetTicks(d)
               /\ (SliceFits(d)' <=> SliceFits(d))
    BY <1>5, <1>7 DEF Executed, GetTicks, SliceFits
  <2> QED
    BY <2>2, <2>3, <2>4
<1>9. \A d \in Cores : GetTicks(d)' = GetTicks(d)
  BY <1>2, <1>8
<1>10. Clocks' = Clocks
  BY <1>9 DEF Clocks
<1>11. ClocksOK'
  BY <1>7, <1>8, <1>10 DEF IInv, ClocksOK
<1>12. \A d \in Cores : Base(d) = GetTicks(d) /\ (phase' # "delayed" => Base(d)' = GetTicks(d))
  BY <1>1, <1>9 DEF Base
<1>13. /\ \E d \in Cores : delay[d] = 0
       /\ \A d, e \in Cores : GetTicks(d) + delay[d] = GetTicks(e) + delay[e]
  BY <1>1, <1>12 DEF IInv, LagsOK
<1>14. \A d \in Cores : delay[d] > 0 /\ d \notin remaining \ {c} =>
         SliceFits(d)' /\ Executed(d)' = 0 /\ slice_length'[d] <= delay[d]
  BY <1>1, <1>4, <1>7, <1>8 DEF IInv, AdvanceOK
<1>15. /\ slice_length' \in [Cores -> Nat] /\ downcount' \in [Cores -> Int]
       /\ is_timer_sane' \in [Cores -> BOOLEAN] /\ executed_ticks' \in [Cores -> Nat]
       /\ executed_ticks' \in [Cores -> Int] /\ event_queue' \in [Cores -> Seq(Events)]
       /\ ts_queue' \in [Cores -> Seq(Events)] /\ delay' \in [Cores -> Nat]
       /\ max_slice' \in Nat /\ max_slice' > 0 /\ max_slice' <= MaxSlice /\ remaining \subseteq Cores
  BY <1>1, <1>5, <1>6 DEF IInv, TypesOK, TypeOK, AdvanceOK
<1>16. CASE remaining # {c}
  <2>1. remaining' = remaining \ {c} /\ visiting' = FALSE /\ phase' = phase
    BY <1>16 DEF CatchUp
  <2>2. TypesOK'
    BY <1>1, <1>15, <2>1 DEF TypesOK, TypeOK
  <2>3. AdvanceOK'
    <3>1. remaining' # {}
      BY <1>2, <1>16, <2>1
    <3>2. \A d \in remaining' : delay'[d] > 0
      BY <1>1, <1>5, <2>1 DEF IInv, AdvanceOK
    <3>3. \A d \in Cores \ remaining' : delay'[d] > 0 =>
            SliceFits(d)' /\ Executed(d)' = 0 /\ slice_length'[d] <= delay'[d]
      BY <1>5, <1>14, <2>1
    <3> QED
      BY <1>1, <1>15, <2>1, <3>1, <3>2, <3>3 DEF AdvanceOK
  <2>4. LagsOK'
    BY <1>1, <1>5, <1>12, <1>13, <2>1 DEF LagsOK
  <2>5. RoundOK'
    BY <1>1, <2>1 DEF RoundOK
  <2> QED
    BY <1>11, <2>2, <2>3, <2>4, <2>5 DEF Keeps
<1>17. CASE remaining = {c}
  <2>1. PICK worst \in Nat, w \in Cores :
          /\ worst = Max({delay[d] : d \in Cores}) /\ w = Min({d \in Cores : delay[d] = worst})
          /\ delay[w] = worst /\ \A d \in Cores : delay[d] <= worst
    BY <1>1, WorstFacts
  <2>2. AfterCatchUp
    BY <1>17 DEF CatchUp
  <2>3. CASE worst > MinDelay
    <3>1. phase' = "delayed" /\ visiting' = TRUE /\ remaining' = {w}
      BY <2>1, <2>2, <2>3 DEF AfterCatchUp
    <3>2. TypesOK'
      BY <1>15, <3>1 DEF TypesOK, TypeOK
    <3>3. SliceFits(w)' /\ Executed(w)' = 0 /\ slice_length'[w] <= delay[w]
      BY <1>14, <1>17, <2>1, <2>3
    <3>4. executed_ticks'[w] = GetTicks(w)'
      <4>1. executed_ticks'[w] \in Nat /\ slice_length'[w] \in Nat /\ downcount'[w] \in Int
        BY <1>15
      <4> QED
        BY <3>3, <4>1 DEF GetTicks, Executed, SliceFits
    <3>5. \A d \in Cores : Base(d)' = GetTicks(d)
      BY <1>9, <3>1, <3>4 DEF Base
    <3>6. Bases' = Clocks
      BY <3>5 DEF Bases, Clocks
    <3>7. Close(Bases)'
      BY <3>6 DEF IInv, ClocksOK
    <3>8. LagsOK'
      <4>1. /\ \E d \in Cores : delay'[d] = 0
            /\ \A d, e \in Cores : Base(d)' + delay'[d] = Base(e)' + delay'[e]
        BY <1>5, <1>13, <3>5
      <4>2. /\ remaining' = {w} /\ visiting' /\ SliceFits(w)' /\ slice_length'[w] <= delay'[w]
            /\ \A d \in Cores : delay'[d] <= delay'[w]
        BY <1>5, <2>1, <3>1, <3>3
      <4> QED
        BY <3>7, <4>1, <4>2 DEF LagsOK
    <3>9. AdvanceOK' /\ RoundOK'
      BY <3>1 DEF AdvanceOK, RoundOK
    <3> QED
      BY <1>11, <3>2, <3>8, <3>9 DEF Keeps
  <2>4. CASE ~ (worst > MinDelay)
    <3>1. phase' = "advance" /\ remaining' = Cores /\ visiting' = FALSE
      BY <2>1, <2>2, <2>4 DEF AfterCatchUp
    <3>2. TypesOK'
      BY <1>15, <3>1 DEF TypesOK, TypeOK
    <3>3. ASSUME NEW d \in Cores PROVE delay'[d] <= MinDelay
      <4>1. delay[d] \in Nat /\ delay'[d] = delay[d] /\ delay[d] <= worst
        BY <1>5, <2>1, TicksFacts
      <4> QED
        BY <2>4, <4>1
    <3>4. AdvanceOK'
      BY <1>15, <3>1, <3>3, CoreFacts DEF AdvanceOK
    <3>5. LagsOK' /\ RoundOK'
      BY <1>5, <1>12, <1>13, <3>1 DEF LagsOK, RoundOK
    <3> QED
      BY <1>11, <3>2, <3>4, <3>5 DEF Keeps
  <2> QED
    BY <2>3, <2>4
<1> QED
  BY <1>16, <1>17

\* EndAdvance keeps the invariant.
LEMMA EndAdvanceKeeps ==
  ASSUME IInv, NEW c \in Cores, EndAdvance(c)
  PROVE  Keeps
<1> USE Params
<1>1. phase = "advance" /\ IsRunning(c) /\ visiting /\ \A i \in DOMAIN event_queue[c] : ~Due(c, i)
  BY DEF EndAdvance
<1>2. /\ is_timer_sane[c] /\ slice_length[c] = 0 /\ downcount[c] = 0 /\ NoneDue(c)
      /\ GetTicks(c) = executed_ticks[c] /\ Executed(c) = 0 /\ c \in remaining
  BY <1>1, VisitedFacts
<1>3. PICK s \in Nat : s = TimeToEvent(c, max_slice) /\ s > 0 /\ s <= max_slice
  BY <1>2, TicksFacts, TimeToEventFacts
<1>4. /\ max_slice' = s /\ visiting' = FALSE /\ is_timer_sane' = [is_timer_sane EXCEPT ![c] = FALSE]
      /\ UNCHANGED <<executed_ticks, slice_length, downcount, event_queue, ts_queue, delay>>
  BY <1>3 DEF EndAdvance, queueVars
<1>5. s <= MaxSlice
  BY <1>1, <1>3, TicksFacts DEF IInv, AdvanceOK
<1>6. /\ executed_ticks' \in [Cores -> Nat] /\ executed_ticks' \in [Cores -> Int]
      /\ slice_length' \in [Cores -> Nat] /\ downcount' \in [Cores -> Int]
      /\ is_timer_sane \in [Cores -> BOOLEAN] /\ is_timer_sane' \in [Cores -> BOOLEAN]
      /\ event_queue' \in [Cores -> Seq(Events)] /\ ts_queue' \in [Cores -> Seq(Events)]
      /\ delay' \in [Cores -> Nat] /\ remaining \subseteq Cores
  BY <1>4 DEF IInv, TypesOK, TypeOK
<1>7. ~is_timer_sane'[c] /\ \A d \in Cores \ {c} : is_timer_sane'[d] = is_timer_sane[d]
  BY <1>4, <1>6
<1>8. /\ \A d \in Cores : Executed(d)' = Executed(d) /\ (NoneDue(d)' <=> NoneDue(d))
      /\ \A d \in Cores \ {c} : (Fresh(d)' <=> Fresh(d)) /\ GetTicks(d)' = GetTicks(d)
      /\ Fresh(c)'
  BY <1>2, <1>4, <1>7 DEF Executed, NoneDue, Due, Fresh, GetTicks
<1>9. GetTicks(c)' = GetTicks(c)
  BY <1>2, <1>4, <1>7, TicksFacts DEF GetTicks
<1>10. Clocks' = Clocks /\ \A d \in Cores : GetTicks(d)' = GetTicks(d)
  BY <1>8, <1>9 DEF Clocks
<1>11. ClocksOK'
  BY <1>2, <1>4, <1>7, <1>8, <1>10 DEF IInv, ClocksOK
<1>12. \A d \in Cores : d \notin remaining \ {c} => Fresh(d)' /\ NoneDue(d)'
  BY <1>1, <1>2, <1>8 DEF IInv, AdvanceOK
<1>13. /\ \E d \in Cores : delay[d] = 0
       /\ \A d, e \in Cores : GetTicks(d) + delay[d] = GetTicks(e) + delay[e]
       /\ \A d \in Cores : delay[d] <= MinDelay
  BY <1>1 DEF IInv, LagsOK, AdvanceOK, Base
<1>14. CASE remaining # {c}
  <2>1. phase' = phase /\ remaining' = remaining \ {c}
    BY <1>14 DEF EndAdvance
  <2>2. TypesOK'
    BY <1>1, <1>3, <1>4, <1>6, <2>1 DEF TypesOK, TypeOK
  <2>3. AdvanceOK'
    <3>1. remaining' # {}
      BY <1>2, <1>14, <2>1
    <3>2. \A d \in Cores \ remaining' : Fresh(d)' /\ NoneDue(d)'
      BY <1>12, <2>1
    <3> QED
      BY <1>1, <1>4, <1>5, <1>13, <2>1, <3>1, <3>2 DEF AdvanceOK
  <2>4. LagsOK' /\ RoundOK'
    BY <1>1, <1>4, <1>10, <1>13, <2>1 DEF LagsOK, RoundOK, Base
  <2> QED
    BY <1>11, <2>2, <2>3, <2>4 DEF Keeps
<1>15. CASE remaining = {c}
  <2>1. phase' = "execute" /\ remaining' = Cores
    BY <1>15 DEF EndAdvance
  <2>2. TypesOK'
    BY <1>3, <1>4, <1>6, <2>1 DEF TypesOK, TypeOK
  <2>3. AdvanceOK' /\ LagsOK'
    BY <2>1 DEF AdvanceOK, LagsOK
  <2>4. \A d \in Cores : Fresh(d)' /\ NoneDue(d)' /\ Executed(d)' = 0 /\ executed_ticks'[d] = GetTicks(d)
    <3>1. \A d \in Cores : Fresh(d)' /\ NoneDue(d)'
      BY <1>12, <1>15
    <3>2. \A d \in Cores : Executed(d)' = 0
      BY <3>1 DEF Fresh, Executed
    <3> QED
      BY <1>4, <1>8, <3>1, <3>2, TicksFacts
  <2>5. Spread'
    <3>1. \A d, e \in Cores : executed_ticks'[e] - executed_ticks'[d] <= MinDelay
      BY <1>13, <2>4, TicksFacts
    <3>2. \A d \in Cores : ~is_timer_sane'[d] /\ Executed(d)' <= MaxSlice + MaxOvershoot * (d + 1)
      <4>1. ASSUME NEW d \in Cores PROVE MaxOvershoot * (d + 1) \in Nat
        BY CoreFacts, Overshoots
      <4> QED
        BY <2>4, <4>1 DEF Fresh
    <3>3. ASSUME NEW d \in Cores, NEW e \in Cores, e < d
          PROVE  Executed(d)' <= Executed(e)' + MaxOvershoot * (d - e)
      <4>1. d - e \in Nat
        BY <3>3, CoreFacts
      <4>2. MaxOvershoot * (d - e) \in Nat
        BY <4>1, Overshoots
      <4> QED
        BY <2>4, <4>2
    <3> QED
      BY <3>1, <3>2, <3>3 DEF Spread
  <2>6. RoundOK'
    <3>1. 0 \in Cores /\ remaining' = 0..NumCores - 1 /\ max_slice' <= MaxSlice + MaxOvershoot * 0
      BY <1>4, <1>5, <2>1, CoreFacts DEF Cores
    <3>2. \A d \in Cores : ~ (d < 0)
      BY CoreFacts
    <3> QED
      BY <1>4, <2>4, <2>5, <3>1, <3>2 DEF RoundOK
  <2> QED
    BY <1>11, <2>2, <2>3, <2>6 DEF Keeps
<1> QED
  BY <1>14, <1>15

\* BeginSlice keeps the invariant.
LEMMA BeginSliceKeeps ==
  ASSUME IInv, NEW c \in Cores, BeginSlice(c)
  PROVE  Keeps
<1> USE Params
<1>1. phase = "execute" /\ IsRunning(c) /\ ~visiting
  BY DEF BeginSlice
<1>2. PICK m \in Cores :
        /\ remaining = m..NumCores - 1
        /\ max_slice <= MaxSlice + MaxOvershoot * m
        /\ \A d \in Cores : d < m => max_slice <= Executed(d) + MaxOvershoot * (m - 1 - d)
        /\ \A d \in Cores : d > m \/ (d = m /\ ~visiting) => Fresh(d) /\ NoneDue(d)
  BY <1>1 DEF IInv, RoundOK
<1>3. c = m
  <2>1. m \in Nat /\ m < NumCores /\ c \in Nat
    BY CoreFacts
  <2>2. m \in remaining
    BY <1>2, <2>1
  <2>3. c <= m /\ c \in m..NumCores - 1
    BY <1>1, <1>2, <2>2 DEF IsRunning
  <2> QED
    BY <2>1, <2>3
<1>4. Fresh(c) /\ NoneDue(c) /\ max_slice \in Nat /\ max_slice > 0
  BY <1>1, <1>2, <1>3, TicksFacts
<1>5. PICK s \in Nat :
        /\ s = TimeToEvent(c, max_slice) /\ s > 0 /\ s <= max_slice
        /\ \A i \in DOMAIN event_queue[c] : executed_ticks[c] + s <= event_queue[c][i].time
  BY <1>4, TimeToEventFacts
<1>6. /\ slice_length' = [slice_length EXCEPT ![c] = s] /\ downcount' = [downcount EXCEPT ![c] = s]
      /\ visiting' = TRUE
      /\ UNCHANGED <<executed_ticks, is_timer_sane, event_queue, ts_queue, phase, remaining,
                     delay, max_slice>>
  BY <1>5 DEF BeginSlice, SetNextSlice, queueVars
<1>7. TypesOK'
  BY <1>6 DEF IInv, TypesOK, TypeOK
<1>8. /\ slice_length'[c] = s /\ downcount'[c] = s
      /\ \A d \in Cores \ {c} : slice_length'[d] = slice_length[d] /\ downcount'[d] = downcount[d]
  BY <1>6 DEF IInv, TypesOK, TypeOK
<1>9. \A d \in Cores : /\ Executed(d)' = Executed(d) /\ GetTicks(d)' = GetTicks(d)
                       /\ (NoneDue(d)' <=> NoneDue(d))
  <2>1. Executed(c) = 0 /\ Executed(c)' = 0
    BY <1>4, <1>8 DEF Executed, Fresh
  <2>2. executed_ticks[c] \in Nat /\ GetTicks(c) = executed_ticks[c] /\ GetTicks(c)' = executed_ticks[c]
    BY <1>4, <1>6, <1>8, <2>1, TicksFacts DEF GetTicks, Fresh
  <2>3. \A d \in Cores \ {c} : Executed(d)' = Executed(d) /\ GetTicks(d)' = GetTicks(d)
    BY <1>6, <1>8 DEF Executed, GetTicks
  <2>4. \A d \in Cores : NoneDue(d)' <=> NoneDue(d)
    BY <1>6 DEF NoneDue, Due
  <2> QED
    BY <2>1, <2>2, <2>3, <2>4
<1>10. Clocks' = Clocks
  BY <1>9 DEF Clocks
<1>11. ClocksOK'
  BY <1>6, <1>8, <1>9, <1>10 DEF IInv, ClocksOK
<1>12. SliceFits(c)'
  BY <1>4, <1>5, <1>6, <1>8 DEF SliceFits, Fresh
<1>13. Spread'
  BY <1>1, <1>6, <1>9 DEF IInv, RoundOK, Spread
<1>14. \A d \in Cores : d > c => Fresh(d)' /\ NoneDue(d)'
  <2>1. ASSUME NEW d \in Cores, d > c PROVE d # c /\ Fresh(d) /\ NoneDue(d)
    BY <1>2, <1>3, <2>1, CoreFacts
  <2> QED
    BY <1>6, <1>8, <1>9, <2>1 DEF Fresh
<1>15. RoundOK'
  <2>1. \A d \in Cores : d < c => max_slice' <= Executed(d)' + MaxOvershoot * (c - 1 - d)
    BY <1>2, <1>3, <1>6, <1>9
  <2>2. /\ remaining' = c..NumCores - 1 /\ max_slice' <= MaxSlice + MaxOvershoot * c
        /\ visiting' /\ slice_length'[c] <= max_slice'
    BY <1>2, <1>3, <1>5, <1>6, <1>8
  <2> QED
    BY <1>12, <1>13, <1>14, <2>1, <2>2 DEF RoundOK
<1>16. AdvanceOK' /\ LagsOK'
  BY <1>1, <1>6 DEF AdvanceOK, LagsOK
<1> QED
  BY <1>7, <1>11, <1>15, <1>16 DEF Keeps

\* EndSlice keeps the invariant.
LEMMA EndSliceKeeps ==
  ASSUME IInv, NEW c \in Cores, EndSlice(c)
  PROVE  Keeps
<1> USE Params
<1>1. /\ InSlice(c) /\ downcount[c] < slice_length[c] /\ visiting' = FALSE
      /\ max_slice' = slice_length[c] - downcount[c]
      /\ phase' = IF remaining = {c} THEN "begin" ELSE phase
      /\ remaining' = remaining \ {c}
      /\ UNCHANGED <<executed_ticks, slice_length, downcount, is_timer_sane, event_queue, ts_queue,
                     delay>>
  BY DEF EndSlice, clockVars, queueVars
<1>2. max_slice' = Executed(c) /\ max_slice' \in Nat /\ max_slice' > 0
  BY <1>1, TicksFacts DEF Executed
<1>3. TypesOK'
  BY <1>1, <1>2 DEF IInv, TypesOK, TypeOK
<1>4. \A d \in Cores : /\ Executed(d)' = Executed(d) /\ GetTicks(d)' = GetTicks(d)
                       /\ (Fresh(d)' <=> Fresh(d)) /\ (NoneDue(d)' <=> NoneDue(d))
  BY <1>1 DEF Executed, GetTicks, Fresh, NoneDue, Due
<1>5. Clocks' = Clocks
  BY <1>4 DEF Clocks
<1>6. ClocksOK'
  BY <1>1, <1>4, <1>5 DEF IInv, ClocksOK
<1>7. CASE remaining = {c}
  BY <1>1, <1>3, <1>6, <1>7 DEF Keeps, AdvanceOK, LagsOK, RoundOK
<1>8. CASE remaining # {c}
  <2>1. phase = "execute" /\ phase' = "execute"
    BY <1>1, <1>8, InSliceFacts DEF InSlice
  <2>2. remaining = c..NumCores - 1 /\ \A d \in Cores : d > c => Fresh(d) /\ NoneDue(d)
    BY <1>1, <2>1, InSliceFacts
  <2>3. PICK m \in Cores : m = c + 1
    BY <1>8, <2>2, CoreFacts
  <2>4. remaining' = m..NumCores - 1
    BY <1>1, <2>2, <2>3, CoreFacts
  <2>5. Spread /\ Spread'
    BY <1>1, <1>4, <2>1 DEF IInv, RoundOK, Spread
  <2>6. max_slice' <= MaxSlice + MaxOvershoot * m
    BY <1>2, <2>3, <2>5 DEF Spread
  <2>7. ASSUME NEW d \in Cores, d < m
        PROVE  max_slice' <= Executed(d)' + MaxOvershoot * (m - 1 - d)
    <3>1. m - 1 - d = c - d /\ Executed(d)' = Executed(d) /\ Executed(d) \in Nat
      BY <1>4, <2>3, CoreFacts, TicksFacts
    <3>2. CASE d = c
      <4>1. MaxOvershoot * (c - d) = 0
        BY <3>2, CoreFacts
      <4> QED
        BY <1>2, <3>1, <3>2, <4>1
    <3>3. CASE d # c
      <4>1. d < c
        BY <2>3, <2>7, <3>3, CoreFacts
      <4>2. Executed(c) <= Executed(d) + MaxOvershoot * (c - d)
        BY <2>5, <4>1 DEF Spread
      <4> QED
        BY <1>2, <3>1, <4>2
    <3> QED
      BY <3>2, <3>3
  <2>8. \A d \in Cores : d > m \/ (d = m /\ ~visiting') => Fresh(d)' /\ NoneDue(d)'
    <3>1. \A d \in Cores : d > m \/ d = m => d > c
      BY <2>3, CoreFacts
    <3> QED
      BY <1>4, <2>2, <3>1
  <2>9. RoundOK'
    BY <1>1, <2>4, <2>5, <2>6, <2>7, <2>8 DEF RoundOK
  <2> QED
    BY <1>3, <1>6, <2>1, <2>9 DEF Keeps, AdvanceOK, LagsOK
<1> QED
  BY <1>7, <1>8

\* The fastest core, and the lags behind it.
LEMMA GlobalFacts ==
  ASSUME IInv
  PROVE  /\ GetGlobalTicks \in Nat
         /\ \A c \in Cores : GetTicks(c) <= GetGlobalTicks
         /\ \E c \in Cores : GetTicks(c) = GetGlobalTicks
<1> USE Params
<1>1. PICK S : S = {GetTicks(c) : c \in Cores}
  OBVIOUS
<1>2. PICK k \in Nat : k = Cardinality(Above(Clocks, 0))
  BY ClocksType, AboveFacts, CoreFacts
<1>3. PICK b \in Int : b = GetTicks(0) + MaxSlice + MinDelay + MaxOvershoot * k
  BY Overshoots, TicksFacts, CoreFacts
<1>4. ASSUME NEW c \in Cores PROVE GetTicks(c) \in Nat /\ GetTicks(c) <= b
  <2>1. Clocks[c] - Clocks[0] <= MaxSlice + MinDelay + MaxOvershoot * k
    BY <1>2, CoreFacts DEF IInv, ClocksOK, Close
  <2>2. GetTicks(c) \in Nat /\ GetTicks(0) \in Nat /\ MaxOvershoot * k \in Nat
    BY TicksFacts, CoreFacts, Overshoots
  <2>3. Clocks[c] = GetTicks(c) /\ Clocks[0] = GetTicks(0)
    BY ClocksType, CoreFacts
  <2> QED
    BY <1>3, <2>1, <2>2, <2>3
<1>5. S \subseteq Int /\ S # {} /\ \A x \in S : x <= b
  BY <1>1, <1>4, CoreFacts
<1>6. Max(S) \in S /\ \A y \in S : y <= Max(S)
  BY <1>5, MaxFacts
<1> QED
  BY <1>1, <1>4, <1>6 DEF GetGlobalTicks

\* BeginRound keeps the invariant.
LEMMA BeginRoundKeeps ==
  ASSUME IInv, BeginRound
  PROVE  Keeps
<1> USE Params
<1>1. PICK base \in Nat :
        /\ base = Min({executed_ticks[c] : c \in Cores})
        /\ \A c \in Cores : base <= executed_ticks[c]
  <2>1. PICK S : S = {executed_ticks[c] : c \in Cores}
    OBVIOUS
  <2>2. S \subseteq Nat /\ S # {}
    BY <2>1, TicksFacts, CoreFacts
  <2>3. Min(S) \in S /\ \A y \in S : Min(S) <= y
    BY <2>2, MinFacts
  <2> QED
    BY <2>1, <2>2, <2>3
<1>2. /\ delay' = [c \in Cores |-> GetGlobalTicks - GetTicks(c)]
      /\ executed_ticks' = [c \in Cores |-> executed_ticks[c] - base]
      /\ event_queue' =
           [c \in Cores |-> [i \in DOMAIN event_queue[c] |->
              Event(event_queue[c][i].time - base, event_queue[c][i].id)]]
      /\ ts_queue' =
           [c \in Cores |-> [i \in DOMAIN ts_queue[c] |->
              Event(ts_queue[c][i].time - base, ts_queue[c][i].id)]]
      /\ visiting' = FALSE /\ max_slice' = MaxSlice
      /\ UNCHANGED <<slice_length, downcount, is_timer_sane>>
  BY <1>1 DEF BeginRound
<1>3. PICK behind : /\ behind = {c \in Cores : delay'[c] > 0}
                    /\ phase' = IF behind = {} THEN "advance" ELSE "catchup"
                    /\ remaining' = IF behind = {} THEN Cores ELSE behind
  BY DEF BeginRound
<1>4. \A c \in Cores : /\ delay'[c] \in Nat /\ delay'[c] = GetGlobalTicks - GetTicks(c)
                       /\ executed_ticks'[c] \in Nat /\ executed_ticks'[c] = executed_ticks[c] - base
  BY <1>1, <1>2, GlobalFacts, TicksFacts
<1>5. ASSUME NEW q \in Seq(Events)
      PROVE  [i \in DOMAIN q |-> Event(q[i].time - base, q[i].id)] \in Seq(Events)
  <2>1. Len(q) \in Nat /\ DOMAIN q = 1..Len(q)
    BY LenProperties
  <2>2. ASSUME NEW i \in 1..Len(q) PROVE Event(q[i].time - base, q[i].id) \in Events
    <3>1. q[i].time \in Int /\ q[i].id \in Ids
      BY <2>1, EventTime
    <3>2. q[i].time - base \in Int
      BY <3>1
    <3> QED
      BY <3>1, <3>2 DEF Event, Events
  <2>3. [i \in 1..Len(q) |-> Event(q[i].time - base, q[i].id)] \in [1..Len(q) -> Events]
    BY <2>2
  <2>4. [i \in 1..Len(q) |-> Event(q[i].time - base, q[i].id)] \in Seq(Events)
    BY <2>1, <2>3, SeqDef
  <2> QED
    BY <2>1, <2>4
<1>6. event_queue' \in [Cores -> Seq(Events)] /\ ts_queue' \in [Cores -> Seq(Events)]
  <2>1. \A c \in Cores : event_queue[c] \in Seq(Events) /\ ts_queue[c] \in Seq(Events)
    BY DEF IInv, TypesOK, TypeOK
  <2>2. \A c \in Cores : event_queue'[c] \in Seq(Events) /\ ts_queue'[c] \in Seq(Events)
    BY <1>2, <1>5, <2>1
  <2> QED
    BY <1>2, <2>2
<1>7. TypesOK'
  <2>1. executed_ticks' \in [Cores -> Nat] /\ executed_ticks' \in [Cores -> Int]
        /\ delay' \in [Cores -> Nat]
    BY <1>2, <1>4
  <2>2. slice_length' \in [Cores -> Nat] /\ downcount' \in [Cores -> Int]
        /\ is_timer_sane' \in [Cores -> BOOLEAN]
    BY <1>2 DEF IInv, TypesOK, TypeOK
  <2>3. phase' \in {"advance", "catchup"} /\ remaining' \subseteq Cores
    BY <1>3
  <2> QED
    BY <1>2, <1>6, <2>1, <2>2, <2>3 DEF TypesOK, TypeOK
<1>8. \A c \in Cores : Executed(c)' = Executed(c) /\ GetTicks(c)' = GetTicks(c) - base
                       /\ GetTicks(c)' \in Int
  <2>1. \A c \in Cores : Executed(c)' = Executed(c)
    BY <1>2 DEF Executed
  <2>2. ASSUME NEW c \in Cores PROVE GetTicks(c)' = GetTicks(c) - base
    <3>1. /\ executed_ticks[c] \in Nat /\ slice_length[c] \in Nat /\ downcount[c] \in Int
          /\ slice_length'[c] = slice_length[c] /\ downcount'[c] = downcount[c]
          /\ is_timer_sane'[c] = is_timer_sane[c] /\ executed_ticks'[c] = executed_ticks[c] - base
      BY <1>2, <1>4, TicksFacts
    <3> QED
      BY <3>1 DEF GetTicks
  <2> QED
    BY <2>1, <2>2, TicksFacts
<1>9. Close(Clocks)'
  <2>1. PICK T \in [Cores -> Int] : T = Clocks
    BY ClocksType
  <2>2. PICK U \in [Cores -> Int] : U = Clocks'
    BY <1>8 DEF Clocks
  <2>3. \A c \in Cores : U[c] = T[c] - base
    BY <1>8, <2>1, <2>2 DEF Clocks
  <2>4. Close(T) /\ base \in Int
    BY <2>1 DEF IInv, ClocksOK
  <2>5. Close(U)
    BY <2>3, <2>4, ShiftClose
  <2> QED
    BY <2>2, <2>5
<1>10. ClocksOK'
  BY <1>2, <1>8, <1>9 DEF IInv, ClocksOK
<1>11. AdvanceOK'
  <2>1. remaining' # {} /\ max_slice' <= MaxSlice /\ ~visiting'
    <3>1. Cores # {}
      BY CoreFacts
    <3>2. remaining' # {}
      BY <1>3, <3>1
    <3>3. max_slice' <= MaxSlice /\ ~visiting'
      BY <1>2
    <3> QED
      BY <3>2, <3>3
  <2>2. phase' = "catchup" =>
          (\A c \in remaining' : delay'[c] > 0) /\ \A c \in Cores \ remaining' : ~ (delay'[c] > 0)
    BY <1>3
  <2>3. phase' = "advance" => remaining' = Cores /\ \A c \in Cores : delay'[c] <= MinDelay
    BY <1>3, <1>4
  <2> QED
    BY <2>1, <2>2, <2>3 DEF AdvanceOK
<1>12. LagsOK'
  <2>1. phase' # "delayed"
    BY <1>3
  <2>2. \A c \in Cores : Base(c)' = GetTicks(c) - base
    BY <1>8, <2>1 DEF Base
  <2>3. \A c, d \in Cores : Base(c)' + delay'[c] = Base(d)' + delay'[d]
    BY <1>4, <2>2, GlobalFacts, TicksFacts
  <2>4. \E c \in Cores : delay'[c] = 0
    BY <1>4, GlobalFacts
  <2> QED
    BY <2>1, <2>3, <2>4 DEF LagsOK
<1>13. RoundOK'
  BY <1>3 DEF RoundOK
<1> QED
  BY <1>7, <1>10, <1>11, <1>12, <1>13 DEF Keeps

-----------------------------------------------------------------------------
\* The theorems.

\* The invariant holds initially.
LEMMA InitHolds == Init => IInv
<1> SUFFICES ASSUME Init PROVE IInv
  OBVIOUS
<1> USE Params
<1>1. /\ executed_ticks = [c \in Cores |-> 0] /\ slice_length = [c \in Cores |-> MaxSlice]
      /\ downcount = [c \in Cores |-> MaxSlice] /\ is_timer_sane = [c \in Cores |-> TRUE]
      /\ ts_queue = [c \in Cores |-> <<>>] /\ phase = "begin" /\ remaining = {}
      /\ visiting = FALSE /\ delay = [c \in Cores |-> 0] /\ max_slice = MaxSlice
  BY DEF Init
<1>2. event_queue \in [Cores -> Seq(Events)]
  <2>1. ASSUME NEW id \in Ids PROVE <<Event(Period[id], id)>> \in Seq(Events)
    <3>1. Period[id] \in Int
      BY TimingAssumption
    <3>2. PICK e \in Events : e = Event(Period[id], id)
      BY <3>1 DEF Event, Events
    <3> QED
      BY <3>2
  <2>2. PICK S : S = {<<>>} \cup {<<Event(Period[id], id)>> : id \in Ids}
    OBVIOUS
  <2>3. ASSUME NEW q \in S PROVE q \in Seq(Events)
    <3>1. CASE q = <<>>
      BY <3>1
    <3>2. ASSUME NEW id \in Ids, q = <<Event(Period[id], id)>> PROVE q \in Seq(Events)
      BY <2>1, <3>2
    <3> QED
      BY <2>2, <3>1, <3>2
  <2>4. event_queue \in [Cores -> S]
    BY <2>2 DEF Init
  <2> QED
    BY <2>3, <2>4
<1>3. TypesOK
  <2>1. ts_queue \in [Cores -> Seq(Events)]
    <3>1. <<>> \in Seq(Events)
      OBVIOUS
    <3> QED
      BY <1>1, <3>1
  <2>2. /\ executed_ticks \in [Cores -> Nat] /\ executed_ticks \in [Cores -> Int]
        /\ slice_length \in [Cores -> Nat] /\ downcount \in [Cores -> Int]
        /\ is_timer_sane \in [Cores -> BOOLEAN] /\ delay \in [Cores -> Nat]
    BY <1>1
  <2> QED
    BY <1>1, <1>2, <2>1, <2>2 DEF TypesOK, TypeOK
<1>4. \A c \in Cores : Executed(c) = 0 /\ GetTicks(c) = 0 /\ downcount[c] >= -MaxOvershoot
  BY <1>1 DEF Executed, GetTicks
<1>5. Close(Clocks)
  <2>1. PICK T \in [Cores -> Int] : T = Clocks
    <3>1. Clocks \in [Cores -> Int]
      BY <1>4 DEF Clocks
    <3> QED
      BY <3>1
  <2>2. \A c \in Cores : T[c] = 0
    BY <1>4, <2>1 DEF Clocks
  <2>3. ASSUME NEW c \in Cores, NEW d \in Cores
        PROVE  T[d] - T[c] <= MaxSlice + MinDelay + MaxOvershoot * Cardinality(Above(T, c))
    <3>1. PICK k \in Nat : k = Cardinality(Above(T, c))
      BY AboveFacts
    <3>2. MaxOvershoot * k \in Nat
      BY Overshoots
    <3>3. T[d] - T[c] <= MaxSlice + MinDelay + MaxOvershoot * k
      BY <2>2, <3>2
    <3> QED
      BY <3>1, <3>3
  <2> QED
    BY <2>1, <2>3 DEF Close
<1>6. ClocksOK
  BY <1>4, <1>5 DEF ClocksOK
<1> QED
  BY <1>1, <1>3, <1>6 DEF IInv, AdvanceOK, LagsOK, RoundOK

\* Next keeps the invariant.
LEMMA NextKeeps == IInv /\ [Next]_vars => IInv'
<1> SUFFICES ASSUME IInv, [Next]_vars PROVE Keeps
  BY DEF Keeps, IInv
<1>1. CASE BeginRound
  BY <1>1, BeginRoundKeeps
<1>2. ASSUME NEW c \in Cores, Advance(c) PROVE Keeps
  BY <1>2, AdvanceKeeps
<1>3. ASSUME NEW c \in Cores, Fire(c) PROVE Keeps
  BY <1>3, FireKeeps
<1>4. ASSUME NEW c \in Cores, CatchUp(c) PROVE Keeps
  BY <1>4, CatchUpKeeps
<1>5. ASSUME NEW c \in Cores, EndAdvance(c) PROVE Keeps
  BY <1>5, EndAdvanceKeeps
<1>6. ASSUME NEW c \in Cores, BeginSlice(c) PROVE Keeps
  BY <1>6, BeginSliceKeeps
<1>7. ASSUME NEW c \in Cores, EndSlice(c) PROVE Keeps
  BY <1>7, EndSliceKeeps
<1>8. ASSUME NEW c \in Cores, Idle(c) PROVE Keeps
  BY <1>8, IdleSteps
<1>9. CASE Execute
  <2>1. PICK r \in Cores, n \in 1..MaxSlice + MaxOvershoot :
          \/ AddTicks(r, n)
          \/ \E c \in Cores, cycles \in Delays, id \in Ids \ HostIds :
               Period[id] = 0 /\ ScheduleEvent(r, n, c, cycles, id)
          \/ \E ids \in Types : UnscheduleEvent(r, n, ids)
    BY <1>9 DEF Execute
  <2>2. CASE AddTicks(r, n)
    BY <2>2, AddTicksSteps
  <2>3. ASSUME NEW c \in Cores, NEW cycles \in Delays, NEW id \in Ids,
               ScheduleEvent(r, n, c, cycles, id)
        PROVE  Keeps
    <3>1. cycles \in Nat
      BY TimingAssumption
    <3> QED
      BY <2>3, <3>1, ScheduleSteps
  <2>4. ASSUME NEW ids \in Types, UnscheduleEvent(r, n, ids) PROVE Keeps
    BY <2>4, UnscheduleSteps
  <2> QED
    BY <2>1, <2>2, <2>3, <2>4
<1>10. CASE Host
  <2>1. PICK c \in Cores, skew \in -HostStaleness..MaxSlice + MaxOvershoot, id \in HostIds :
          HostSchedule(c, skew, 0, id)
    BY <1>10 DEF Host
  <2>2. skew \in Int /\ id \in Ids
    BY TimingAssumption
  <2> QED
    BY <2>1, <2>2, HostScheduleKeeps
<1>11. CASE UNCHANGED vars
  <2>1. UNCHANGED <<clockVars, roundVars>> /\ event_queue' = event_queue /\ ts_queue' = ts_queue
    BY <1>11 DEF vars, queueVars
  <2>2. event_queue \in [Cores -> Seq(Events)] /\ ts_queue \in [Cores -> Seq(Events)]
    BY DEF IInv, TypesOK, TypeOK
  <2> QED
    BY <2>1, <2>2, QueueStepKeeps
<1> QED
  BY <1>1, <1>2, <1>3, <1>4, <1>5, <1>6, <1>7, <1>8, <1>9, <1>10, <1>11 DEF Next, Loop

\* The invariant holds in every state.
THEOREM InvHolds == Spec => []IInv
BY InitHolds, NextKeeps, PTL DEF Spec

\* SliceFrom keeps the invariant.
LEMMA SliceFromInv == IInv => SliceInBounds
<1> SUFFICES ASSUME IInv PROVE SliceInBounds
  OBVIOUS
<1>1. max_slice > 0
  BY DEF IInv, TypesOK
<1>2. \A c \in Cores : InSlice(c) => SliceFits(c)
  BY InSliceFacts
<1> QED
  BY <1>1, <1>2 DEF SliceInBounds, SliceFits

\* TogetherFrom keeps the invariant.
LEMMA TogetherFromInv == IInv => CoresStayTogether
<1> SUFFICES ASSUME IInv PROVE CoresStayTogether
  OBVIOUS
<1> USE Params
<1>1. TypeOK
  BY DEF IInv, TypesOK
<1>2. ASSUME NEW c \in Cores, NEW d \in Cores
      PROVE  GetTicks(d) - GetTicks(c) <= MaxSlice + MinDelay + MaxOvershoot * (NumCores - 1)
  <2>1. PICK k \in Nat, n \in Nat :
          k = Cardinality(Above(Clocks, c)) /\ n = NumCores - 1 /\ k <= n
    BY ClocksType, AboveFacts
  <2>2. GetTicks(d) - GetTicks(c) <= MaxSlice + MinDelay + MaxOvershoot * k
    BY <2>1, ClocksType DEF IInv, ClocksOK, Close
  <2>3. MaxOvershoot * k \in Nat /\ MaxOvershoot * n \in Nat /\ MaxOvershoot * k <= MaxOvershoot * n
    BY <2>1, Overshoots
  <2>4. GetTicks(d) - GetTicks(c) <= MaxSlice + MinDelay + MaxOvershoot * n
    BY <2>2, <2>3, TicksFacts
  <2> QED
    BY <2>1, <2>4
<1> QED
  BY <1>1, <1>2 DEF CoresStayTogether

\* The slice that RunLoop gives a core is not empty and ends at the core's next
\* event, whatever the cores schedule and cancel while they execute.
THEOREM SliceInBoundsTheorem == Spec => []SliceInBounds
BY InvHolds, SliceFromInv, PTL

\* RunLoop keeps any number of cores together, up to a slice, the lag it
\* tolerates and what the cores may execute too much.
THEOREM CoresStayTogetherTheorem == Spec => []CoresStayTogether
BY InvHolds, TogetherFromInv, PTL
=============================================================================
