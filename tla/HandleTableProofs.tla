------------------------- MODULE HandleTableProofs -------------------------
(***************************************************************************)
(* Proofs about HandleTable: the free list, the reuse of handles, and that *)
(* the table implements the pool of handles, for every number of slots and *)
(* of generations.                                                         *)
(***************************************************************************)
EXTENDS HandleTable, FiniteSetTheorems, TLAPS

\* The part of TypeOK that is about a table.
TableTyped(t) ==
  /\ t.objects \in [Slots -> Objects \cup {NullObject}]
  /\ t.generations \in [Slots -> 0..MAX_COUNT \cup 1..GenLimit - 1]
  /\ t.next_free_slot \in 0..MAX_COUNT
  /\ t.next_generation \in 1..GenLimit - 1
  /\ \A i \in Slots \ Free(t) : t.generations[i] \in 1..GenLimit - 1

\* The part of FreeListExact that is about a table.
HasFreeList(t) == \E f \in [1..Cardinality(Free(t)) -> Free(t)] : IsFreeList(t, f)

GoodTable(t) == TableTyped(t) /\ HasFreeList(t)

\* The slots, and among them the free ones, are finitely many.
LEMMA FreeFinite ==
  ASSUME NEW t
  PROVE  /\ IsFiniteSet(Slots) /\ Cardinality(Slots) = MAX_COUNT
         /\ IsFiniteSet(Free(t)) /\ Cardinality(Free(t)) \in 0..MAX_COUNT
         /\ Cardinality(Free(t)) = MAX_COUNT => Free(t) = Slots
<1>1. IsFiniteSet(Slots) /\ Cardinality(Slots) = MAX_COUNT
  BY FS_Interval, HandleAssumption DEF Slots
<1>2. Free(t) \subseteq Slots
  BY DEF Free
<1>3. /\ IsFiniteSet(Free(t)) /\ Cardinality(Free(t)) <= Cardinality(Slots)
      /\ Cardinality(Slots) = Cardinality(Free(t)) => Slots = Free(t)
  BY <1>1, <1>2, FS_Subset
<1>4. Cardinality(Free(t)) \in Nat
  BY <1>3, FS_CardinalityType
<1> QED
  BY <1>1, <1>3, <1>4, HandleAssumption

\* Create finds the table full exactly if no slot is free, and otherwise it
\* takes a free slot.
LEMMA FullIsFull ==
  ASSUME NEW t, GoodTable(t)
  PROVE  /\ IsFull(t) <=> Free(t) = {}
         /\ ~IsFull(t) => t.next_free_slot \in Free(t)
<1> DEFINE n == Cardinality(Free(t))
<1>1. n \in Nat /\ (n = 0 <=> Free(t) = {})
  BY FreeFinite, FS_EmptySet, FS_CardinalityType
<1>2. PICK f \in [1..n -> Free(t)] : IsFreeList(t, f)
  BY DEF GoodTable, HasFreeList
<1>3. CASE n = 0
  <2>1. t.next_free_slot = MAX_COUNT
    BY <1>2, <1>3 DEF IsFreeList
  <2> QED
    BY <1>1, <1>3, <2>1, HandleAssumption DEF IsFull
<1>4. CASE n > 0
  <2>1. t.next_free_slot = f[1] /\ f[1] \in Free(t)
    BY <1>1, <1>2, <1>4 DEF IsFreeList
  <2>2. f[1] \in 0..MAX_COUNT - 1
    BY <2>1 DEF Free, Slots
  <2> QED
    BY <1>1, <1>4, <2>1, <2>2, HandleAssumption DEF IsFull
<1> QED
  BY <1>1, <1>3, <1>4

\* The next generation is again one that is not 0.
LEMMA NextGenerationType ==
  ASSUME NEW g \in 1..GenLimit - 1
  PROVE  NextGeneration(g) \in 1..GenLimit - 1
BY HandleAssumption DEF NextGeneration

\* Create takes one slot out of the free list and leaves the others in it.
LEMMA CreateGood ==
  ASSUME NEW t, GoodTable(t), ~IsFull(t), NEW obj \in Objects
  PROVE  LET u == AfterCreate(t, obj) IN
           /\ GoodTable(u)
           /\ Free(u) = Free(t) \ {t.next_free_slot}
           /\ Cardinality(Free(u)) = Cardinality(Free(t)) - 1
<1> DEFINE u == AfterCreate(t, obj)
           s == t.next_free_slot
           n == Cardinality(Free(t))
<1>1. s \in Free(t) /\ s \in Slots
  BY FullIsFull DEF Free
<1>2. TableTyped(t)
  BY DEF GoodTable
<1>3. /\ u.objects = [t.objects EXCEPT ![s] = obj]
      /\ u.generations = [t.generations EXCEPT ![s] = t.next_generation]
      /\ u.next_free_slot = t.generations[s]
      /\ u.next_generation = NextGeneration(t.next_generation)
  BY DEF AfterCreate
<1> HIDE DEF u
<1>4. Free(u) = Free(t) \ {s}
  BY <1>1, <1>2, <1>3, HandleAssumption DEF Free, TableTyped
<1>5. Cardinality(Free(u)) = n - 1 /\ n \in Nat /\ n > 0
  <2>1. IsFiniteSet(Free(t)) /\ n \in Nat
    BY FreeFinite, FS_CardinalityType
  <2>2. n # 0
    BY <1>1, <2>1, FS_EmptySet
  <2>3. Cardinality(Free(t) \ {s}) = n - 1
    BY <1>1, <2>1, FS_RemoveElement
  <2> QED
    BY <1>4, <2>1, <2>2, <2>3
<1>6. PICK f \in [1..n -> Free(t)] : IsFreeList(t, f)
  BY DEF GoodTable, HasFreeList
<1> DEFINE g == [i \in 1..n - 1 |-> f[i + 1]]
<1>7. f[1] = s
  BY <1>5, <1>6 DEF IsFreeList
<1>8. g \in [1..n - 1 -> Free(u)]
  <2> SUFFICES ASSUME NEW i \in 1..n - 1 PROVE f[i + 1] \in Free(t) \ {s}
    BY <1>4
  <2>1. i + 1 \in 1..n /\ 1 \in 1..n /\ i + 1 # 1
    BY <1>5
  <2>2. f[i + 1] # f[1]
    BY <2>1, <1>6 DEF IsFreeList
  <2> QED
    BY <2>1, <2>2, <1>6, <1>7
<1>9. IsFreeList(u, g)
  <2>1. ASSUME NEW i \in DOMAIN g, NEW j \in DOMAIN g, g[i] = g[j] PROVE i = j
    <3>1. i + 1 \in DOMAIN f /\ j + 1 \in DOMAIN f /\ f[i + 1] = f[j + 1]
      BY <2>1, <1>5, <1>6
    <3>2. i + 1 = j + 1
      BY <3>1, <1>6 DEF IsFreeList
    <3> QED
      BY <3>2, <1>5
  <2>2. ASSUME NEW x \in Free(u) PROVE \E i \in DOMAIN g : g[i] = x
    <3>1. PICK k \in 1..n : f[k] = x
      BY <1>4, <1>6 DEF IsFreeList
    <3>2. k # 1
      BY <3>1, <1>4, <1>7
    <3>3. k - 1 \in 1..n - 1 /\ g[k - 1] = f[k]
      BY <3>1, <3>2, <1>5
    <3> QED
      BY <3>1, <3>3
  <2>3. u.next_free_slot = IF 1 \in DOMAIN g THEN g[1] ELSE MAX_COUNT
    <3>1. 1 \in 1..n
      BY <1>5
    <3>2. t.generations[s] = IF 2 \in 1..n THEN f[2] ELSE MAX_COUNT
      BY <3>1, <1>6, <1>7 DEF IsFreeList
    <3> QED
      BY <3>2, <1>3, <1>5
  <2>4. ASSUME NEW i \in DOMAIN g
        PROVE  u.generations[g[i]] = IF i + 1 \in DOMAIN g THEN g[i + 1] ELSE MAX_COUNT
    <3>1. g[i] \in Slots /\ g[i] # s /\ g[i] = f[i + 1] /\ i + 1 \in 1..n
      BY <1>4, <1>5, <1>8 DEF Free
    <3>2. t.generations[f[i + 1]] = IF i + 2 \in 1..n THEN f[i + 2] ELSE MAX_COUNT
      BY <3>1, <1>6 DEF IsFreeList
    <3>3. u.generations[g[i]] = t.generations[f[i + 1]]
      BY <3>1, <1>1, <1>2, <1>3 DEF TableTyped
    <3> QED
      BY <3>2, <3>3, <1>5
  <2> QED
    BY <2>1, <2>2, <2>3, <2>4 DEF IsFreeList
<1>10. HasFreeList(u)
  BY <1>5, <1>8, <1>9 DEF HasFreeList
<1>11. u.next_free_slot \in 0..MAX_COUNT
  <2>1. 1 \in 1..n
    BY <1>5
  <2>2. t.generations[s] = IF 2 \in 1..n THEN f[2] ELSE MAX_COUNT
    BY <2>1, <1>6, <1>7 DEF IsFreeList
  <2>3. 2 \in 1..n => f[2] \in Slots
    BY <1>6 DEF Free
  <2> QED
    BY <2>2, <2>3, <1>3, HandleAssumption DEF Slots
<1>12. TableTyped(u)
  <2>1. u.objects \in [Slots -> Objects \cup {NullObject}]
    BY <1>1, <1>2, <1>3 DEF TableTyped
  <2>2. u.generations \in [Slots -> 0..MAX_COUNT \cup 1..GenLimit - 1]
    BY <1>1, <1>2, <1>3 DEF TableTyped
  <2>3. u.next_generation \in 1..GenLimit - 1
    BY <1>2, <1>3, NextGenerationType DEF TableTyped
  <2>4. ASSUME NEW i \in Slots \ Free(u) PROVE u.generations[i] \in 1..GenLimit - 1
    BY <2>4, <1>1, <1>2, <1>3, <1>4 DEF TableTyped
  <2> QED
    BY <1>11, <2>1, <2>2, <2>3, <2>4 DEF TableTyped
<1> QED
  BY <1>4, <1>5, <1>10, <1>12 DEF GoodTable, u

\* Close puts the slot of a valid handle at the head of the free list.
LEMMA CloseGood ==
  ASSUME NEW t, GoodTable(t), NEW h \in Handles, IsValid(t, h)
  PROVE  LET u == AfterClose(t, h) IN
           /\ GoodTable(u)
           /\ Free(u) = Free(t) \cup {GetSlot(h)}
           /\ Cardinality(Free(u)) = Cardinality(Free(t)) + 1
<1> DEFINE u == AfterClose(t, h)
           s == GetSlot(h)
           n == Cardinality(Free(t))
<1>1. s \in Slots /\ s \notin Free(t)
  <2>1. s \in Nat
    BY HandleAssumption DEF Handles, GetSlot
  <2> QED
    BY <2>1, HandleAssumption DEF IsValid, Slots, Free
<1>2. TableTyped(t)
  BY DEF GoodTable
<1>3. /\ u.objects = [t.objects EXCEPT ![s] = NullObject]
      /\ u.generations = [t.generations EXCEPT ![s] = t.next_free_slot]
      /\ u.next_free_slot = s
      /\ u.next_generation = t.next_generation
  BY DEF AfterClose
<1> HIDE DEF u, s
<1>4. Free(u) = Free(t) \cup {s}
  BY <1>1, <1>2, <1>3, HandleAssumption DEF Free, TableTyped
<1>5. Cardinality(Free(u)) = n + 1 /\ n \in Nat
  <2>1. IsFiniteSet(Free(t)) /\ n \in Nat
    BY FreeFinite, FS_CardinalityType
  <2>2. Cardinality(Free(t) \cup {s}) = n + 1
    BY <1>1, <2>1, FS_AddElement
  <2> QED
    BY <1>4, <2>1, <2>2
<1>6. PICK f \in [1..n -> Free(t)] : IsFreeList(t, f)
  BY DEF GoodTable, HasFreeList
<1> DEFINE g == [i \in 1..n + 1 |-> IF i = 1 THEN s ELSE f[i - 1]]
<1>7. g \in [1..n + 1 -> Free(u)]
  <2> SUFFICES ASSUME NEW i \in 1..n + 1, i # 1 PROVE f[i - 1] \in Free(t)
    BY <1>4
  <2> QED
    BY <1>5, <1>6
<1>8. IsFreeList(u, g)
  <2>0. ASSUME NEW i \in 1..n + 1, i # 1
        PROVE  i - 1 \in 1..n /\ g[i] = f[i - 1] /\ g[i] # s /\ g[i] \in Slots
    <3>1. i - 1 \in 1..n /\ g[i] = f[i - 1]
      BY <2>0, <1>5
    <3>2. f[i - 1] \in Free(t)
      BY <3>1, <1>6
    <3> QED
      BY <3>1, <3>2, <1>1 DEF Free
  <2>1. ASSUME NEW i \in DOMAIN g, NEW j \in DOMAIN g, g[i] = g[j] PROVE i = j
    <3>1. g[1] = s
      BY <1>5
    <3>2. CASE i = 1 \/ j = 1
      BY <2>0, <2>1, <3>1, <3>2
    <3>3. CASE i # 1 /\ j # 1
      <4>1. i - 1 = j - 1
        BY <2>0, <2>1, <3>3, <1>6 DEF IsFreeList
      <4> QED
        BY <4>1, <1>5
    <3> QED
      BY <3>2, <3>3
  <2>2. ASSUME NEW x \in Free(u) PROVE \E i \in DOMAIN g : g[i] = x
    <3>1. CASE x = s
      <4>1. 1 \in DOMAIN g /\ g[1] = s
        BY <1>5
      <4> QED
        BY <3>1, <4>1
    <3>2. CASE x # s
      <4>1. PICK k \in 1..n : f[k] = x
        BY <3>2, <1>4, <1>6 DEF IsFreeList
      <4>2. k + 1 \in 1..n + 1 /\ g[k + 1] = f[k]
        BY <4>1, <1>5
      <4> QED
        BY <4>1, <4>2
    <3> QED
      BY <3>1, <3>2
  <2>3. u.next_free_slot = IF 1 \in DOMAIN g THEN g[1] ELSE MAX_COUNT
    BY <1>3, <1>5
  <2>4. ASSUME NEW i \in DOMAIN g
        PROVE  u.generations[g[i]] = IF i + 1 \in DOMAIN g THEN g[i + 1] ELSE MAX_COUNT
    <3>1. CASE i = 1
      <4>1. u.generations[g[i]] = t.next_free_slot
        BY <3>1, <1>1, <1>2, <1>3, <1>5 DEF TableTyped
      <4>2. t.next_free_slot = IF 1 \in 1..n THEN f[1] ELSE MAX_COUNT
        BY <1>6 DEF IsFreeList
      <4>3. 2 \in 1..n + 1 <=> 1 \in 1..n
        BY <1>5
      <4>4. 2 \in 1..n + 1 => g[2] = f[1]
        BY <2>0
      <4> QED
        BY <3>1, <4>1, <4>2, <4>3, <4>4
    <3>2. CASE i # 1
      <4>1. u.generations[g[i]] = t.generations[f[i - 1]] /\ i - 1 \in 1..n
        BY <3>2, <2>0, <1>1, <1>2, <1>3 DEF TableTyped
      <4>2. t.generations[f[i - 1]] =
              IF (i - 1) + 1 \in 1..n THEN f[(i - 1) + 1] ELSE MAX_COUNT
        BY <4>1, <1>6 DEF IsFreeList
      <4>3. (i - 1) + 1 = i /\ (i \in 1..n <=> i + 1 \in 1..n + 1)
        BY <1>5
      <4>4. i + 1 \in 1..n + 1 => g[i + 1] = f[i]
        BY <1>5
      <4> QED
        BY <4>1, <4>2, <4>3, <4>4
    <3> QED
      BY <3>1, <3>2
  <2> QED
    BY <2>1, <2>2, <2>3, <2>4 DEF IsFreeList
<1>9. HasFreeList(u)
  BY <1>5, <1>7, <1>8 DEF HasFreeList
<1>10. TableTyped(u)
  <2>1. u.objects \in [Slots -> Objects \cup {NullObject}]
    BY <1>1, <1>2, <1>3 DEF TableTyped
  <2>2. u.generations \in [Slots -> 0..MAX_COUNT \cup 1..GenLimit - 1]
    BY <1>1, <1>2, <1>3 DEF TableTyped
  <2>3. u.next_free_slot \in 0..MAX_COUNT
    BY <1>1, <1>3, HandleAssumption DEF Slots
  <2>4. ASSUME NEW i \in Slots \ Free(u) PROVE u.generations[i] \in 1..GenLimit - 1
    BY <2>4, <1>1, <1>2, <1>3, <1>4 DEF TableTyped
  <2> QED
    BY <1>2, <1>3, <2>1, <2>2, <2>3, <2>4 DEF TableTyped
<1> QED
  BY <1>4, <1>5, <1>9, <1>10 DEF GoodTable, u, s

-----------------------------------------------------------------------------
\* The reuse of handles.

\* The generation that was handed out k creations before g is.
Before(g, k) == IF g - 1 - k >= 1 THEN g - 1 - k ELSE g - 1 - k + GenLimit - 1

\* The generations in the history count down from the one that is next.
History(seq, g) ==
  /\ seq \in Seq(Issuable) /\ Len(seq) < GenLimit
  /\ \A i \in 1..Len(seq) : seq[i].generation = Before(g, Len(seq) - i)

\* A creation adds the next generation to the history.
LEMMA RememberHistory ==
  ASSUME NEW g \in 1..GenLimit - 1, NEW seq, History(seq, g),
         NEW h \in Issuable, h.generation = g
  PROVE  History(Remember(seq, h), NextGeneration(g))
<1> DEFINE kept == IF Len(seq) = GenLimit - 1 THEN Tail(seq) ELSE seq
           n == Len(kept)
           new == Append(kept, h)
<1>1. seq \in Seq(Issuable) /\ Len(seq) \in Nat /\ Len(seq) < GenLimit
  BY DEF History
<1>2. kept \in Seq(Issuable) /\ n \in Nat /\ n < GenLimit - 1
  <2>1. CASE Len(seq) = GenLimit - 1
    <3>1. seq # <<>>
      BY <1>1, <2>1, HandleAssumption
    <3>2. Tail(seq) \in Seq(Issuable) /\ Len(Tail(seq)) = Len(seq) - 1
      BY <1>1, <3>1
    <3> QED
      BY <1>1, <2>1, <3>2, HandleAssumption
  <2>2. CASE Len(seq) # GenLimit - 1
    BY <1>1, <2>2, HandleAssumption
  <2> QED
    BY <2>1, <2>2
<1>3. ASSUME NEW i \in 1..n PROVE kept[i].generation = Before(g, n - i)
  <2>1. CASE Len(seq) = GenLimit - 1
    <3>1. seq # <<>> /\ n = Len(seq) - 1
      BY <1>1, <2>1, HandleAssumption
    <3>2. kept[i] = seq[i + 1] /\ i + 1 \in 1..Len(seq)
      BY <1>1, <2>1, <3>1
    <3>3. Len(seq) - (i + 1) = n - i
      BY <1>1, <3>1
    <3> QED
      BY <3>2, <3>3 DEF History
  <2>2. CASE Len(seq) # GenLimit - 1
    BY <1>1, <2>2 DEF History
  <2> QED
    BY <2>1, <2>2
<1> HIDE DEF kept
<1>4. new \in Seq(Issuable) /\ Len(new) = n + 1 /\ n + 1 < GenLimit
  BY <1>2, HandleAssumption
<1>5. ASSUME NEW i \in 1..n + 1
      PROVE  new[i].generation = Before(NextGeneration(g), n + 1 - i)
  <2>1. CASE i = n + 1
    <3>1. new[i] = h
      BY <1>2, <2>1
    <3>2. Before(NextGeneration(g), 0) = g
      BY HandleAssumption DEF Before, NextGeneration
    <3>3. n + 1 - i = 0
      BY <1>2, <2>1
    <3> QED
      BY <3>1, <3>2, <3>3
  <2>2. CASE i # n + 1
    <3>1. i \in 1..n /\ new[i] = kept[i]
      BY <1>2, <2>2
    <3>2. new[i].generation = Before(g, n - i)
      BY <3>1, <1>3
    <3> QED
      BY <1>2, <3>1, <3>2, HandleAssumption DEF Before, NextGeneration
  <2> QED
    BY <2>1, <2>2
<1>6. History(new, NextGeneration(g))
  <2>1. \A i \in 1..Len(new) : new[i].generation = Before(NextGeneration(g), Len(new) - i)
    BY <1>4, <1>5
  <2> QED
    BY <1>4, <2>1 DEF History
<1> QED
  BY <1>6 DEF Remember, kept

\* The handles in the history are distinct.
LEMMA HistoryDistinct ==
  ASSUME NEW g \in 1..GenLimit - 1, NEW seq, History(seq, g)
  PROVE  \A i, j \in DOMAIN seq : seq[i] = seq[j] => i = j
<1>1. seq \in Seq(Issuable) /\ Len(seq) \in Nat /\ Len(seq) < GenLimit
  BY DEF History
<1> SUFFICES ASSUME NEW i \in 1..Len(seq), NEW j \in 1..Len(seq), seq[i] = seq[j]
             PROVE  i = j
  BY <1>1
<1>2. Before(g, Len(seq) - i) = Before(g, Len(seq) - j)
  BY DEF History
<1> QED
  BY <1>1, <1>2, HandleAssumption DEF Before

\* A handle that Create makes is one that may be handed out.
LEMMA NewHandleIssuable ==
  ASSUME NEW t, GoodTable(t), ~IsFull(t)
  PROVE  NewHandle(t) \in Issuable /\ NewHandle(t).generation = t.next_generation
<1>1. t.next_free_slot \in Slots
  BY FullIsFull DEF Free
<1>2. t.next_generation \in 1..GenLimit - 1
  BY DEF GoodTable, TableTyped
<1> QED
  BY <1>1, <1>2 DEF NewHandle, Handle, Issuable

-----------------------------------------------------------------------------
\* The invariant.

\* The inductive invariant: the table is good, and the history goes with it.
Inv == GoodTable(table) /\ History(recent, table.next_generation)

LEMMA InitInv == Init => Inv
<1> SUFFICES ASSUME Init PROVE Inv
  OBVIOUS
<1> DEFINE f == [i \in 1..MAX_COUNT |-> i - 1]
<1>1. /\ table.objects = [i \in Slots |-> NullObject]
      /\ table.generations = [i \in Slots |-> i + 1]
      /\ table.next_free_slot = 0 /\ table.next_generation = 1
      /\ recent = <<>>
  BY DEF Init
<1>2. Free(table) = Slots
  BY <1>1 DEF Free
<1>3. Cardinality(Free(table)) = MAX_COUNT
  BY <1>2, FreeFinite
<1>4. f \in [1..MAX_COUNT -> Slots]
  BY HandleAssumption DEF Slots
<1>5. IsFreeList(table, f)
  <2>1. \A i, j \in DOMAIN f : f[i] = f[j] => i = j
    BY HandleAssumption
  <2>2. ASSUME NEW s \in Slots PROVE \E i \in DOMAIN f : f[i] = s
    <3>1. s + 1 \in DOMAIN f /\ f[s + 1] = s
      BY HandleAssumption DEF Slots
    <3> QED
      BY <3>1
  <2>3. table.next_free_slot = IF 1 \in DOMAIN f THEN f[1] ELSE MAX_COUNT
    BY <1>1, HandleAssumption
  <2>4. ASSUME NEW i \in DOMAIN f
        PROVE  table.generations[f[i]] = IF i + 1 \in DOMAIN f THEN f[i + 1] ELSE MAX_COUNT
    BY <1>1, <1>4, HandleAssumption DEF Slots
  <2> QED
    BY <1>2, <2>1, <2>2, <2>3, <2>4 DEF IsFreeList
<1>6. HasFreeList(table)
  BY <1>2, <1>3, <1>4, <1>5 DEF HasFreeList
<1>7. TableTyped(table)
  <2>1. table.generations \in [Slots -> 0..MAX_COUNT \cup 1..GenLimit - 1]
    BY <1>1, HandleAssumption DEF Slots
  <2>2. table.objects \in [Slots -> Objects \cup {NullObject}]
    BY <1>1
  <2> QED
    BY <1>1, <1>2, <2>1, <2>2, HandleAssumption DEF TableTyped
<1>8. History(recent, table.next_generation)
  BY <1>1, HandleAssumption DEF History
<1> QED
  BY <1>6, <1>7, <1>8 DEF Inv, GoodTable

\* What a creation does to the table and the history together.
LEMMA CreateInv ==
  ASSUME NEW t, NEW seq, GoodTable(t), History(seq, t.next_generation),
         ~IsFull(t), NEW obj \in Objects
  PROVE  LET u == AfterCreate(t, obj) IN
           GoodTable(u) /\ History(Remember(seq, NewHandle(t)), u.next_generation)
<1>1. t.next_generation \in 1..GenLimit - 1
  BY DEF GoodTable, TableTyped
<1>2. AfterCreate(t, obj).next_generation = NextGeneration(t.next_generation)
  BY DEF AfterCreate
<1> QED
  BY <1>1, <1>2, CreateGood, NewHandleIssuable, RememberHistory

\* What a handle is looked up as is an object.
LEMMA GetGenericType ==
  ASSUME NEW t, GoodTable(t), NEW h \in Handles, NEW obj \in GetGeneric(t, h)
  PROVE  obj \in Objects
<1>1. CASE h = CurrentThread
  BY <1>1, HandleAssumption DEF GetGeneric
<1>2. CASE h # CurrentThread /\ h = CurrentProcess
  BY <1>2, HandleAssumption DEF GetGeneric
<1>3. CASE h # CurrentThread /\ h # CurrentProcess
  <2>1. IsValid(t, h) /\ obj = t.objects[GetSlot(h)]
    BY <1>3 DEF GetGeneric
  <2>2. GetSlot(h) \in Slots
    <3>1. GetSlot(h) \in Nat
      BY HandleAssumption DEF Handles, GetSlot
    <3> QED
      BY <2>1, <3>1, HandleAssumption DEF IsValid, Slots
  <2> QED
    BY <2>1, <2>2 DEF IsValid, GoodTable, TableTyped
<1> QED
  BY <1>1, <1>2, <1>3

LEMMA NextInv == Inv /\ [Next]_vars => Inv'
<1> SUFFICES ASSUME Inv, [Next]_vars PROVE Inv'
  OBVIOUS
<1>0. GoodTable(table) /\ History(recent, table.next_generation)
  BY DEF Inv
<1>1. ASSUME UNCHANGED <<table, recent>> PROVE Inv'
  BY <1>0, <1>1 DEF Inv
<1>2. ASSUME NEW obj \in Objects, NEW call, NEW arg, Create(obj, call, arg) PROVE Inv'
  <2>1. CASE ~IsFull(table)
    <3>1. table' = AfterCreate(table, obj) /\ recent' = Remember(recent, NewHandle(table))
      BY <1>2, <2>1 DEF Create
    <3> QED
      BY <3>1, <2>1, <1>0, CreateInv DEF Inv
  <2>2. CASE IsFull(table)
    BY <1>1, <1>2, <2>2 DEF Create
  <2> QED
    BY <2>1, <2>2
<1>3. ASSUME NEW obj \in Objects, CreateObject(obj) PROVE Inv'
  BY <1>2, <1>3 DEF CreateObject
<1>4. ASSUME NEW first \in Objects, NEW second \in Objects, CreatePair(first, second)
      PROVE  Inv'
  <2> DEFINE t == AfterCreate(table, first)
             seq == Remember(recent, NewHandle(table))
  <2>1. ~IsFull(table) => GoodTable(t) /\ History(seq, t.next_generation)
    BY <1>0, CreateInv
  <2>2. CASE ~IsFull(table) /\ ~IsFull(t)
    <3>1. table' = AfterCreate(t, second) /\ recent' = Remember(seq, NewHandle(t))
      BY <1>4, <2>2 DEF CreatePair
    <3> QED
      BY <3>1, <2>1, <2>2, CreateInv DEF Inv
  <2>3. CASE ~IsFull(table) /\ IsFull(t)
    <3>1. table' = t /\ recent' = seq
      BY <1>4, <2>3 DEF CreatePair
    <3> QED
      BY <3>1, <2>1, <2>3 DEF Inv
  <2>4. CASE IsFull(table)
    BY <1>1, <1>4, <2>4 DEF CreatePair
  <2> QED
    BY <2>2, <2>3, <2>4
<1>5. ASSUME NEW h \in Handles, Duplicate(h) PROVE Inv'
  <2>1. CASE GetGeneric(table, h) = {}
    BY <1>1, <1>5, <2>1 DEF Duplicate
  <2>2. CASE GetGeneric(table, h) # {}
    <3>1. PICK obj \in GetGeneric(table, h) : Create(obj, "Duplicate", <<h>>)
      BY <1>5, <2>2 DEF Duplicate
    <3> QED
      BY <3>1, <1>0, <1>2, GetGenericType
  <2> QED
    BY <2>1, <2>2
<1>6. ASSUME NEW h \in Handles, Close(h) PROVE Inv'
  <2>1. CASE IsValid(table, h)
    <3>1. table' = AfterClose(table, h) /\ recent' = recent
      BY <1>6, <2>1 DEF Close
    <3>2. AfterClose(table, h).next_generation = table.next_generation
      BY DEF AfterClose
    <3> QED
      BY <3>1, <3>2, <2>1, <1>0, CloseGood DEF Inv
  <2>2. CASE ~IsValid(table, h)
    BY <1>1, <1>6, <2>2 DEF Close
  <2> QED
    BY <2>1, <2>2
<1>7. ASSUME NEW h \in Handles, Lookup(h) PROVE Inv'
  BY <1>1, <1>7 DEF Lookup
<1>8. CASE UNCHANGED vars
  BY <1>1, <1>8 DEF vars
<1> QED
  BY <1>3, <1>4, <1>5, <1>6, <1>7, <1>8 DEF Next

\* The inductive invariant holds in every reachable state.
THEOREM Invariance == Spec => []Inv
BY InitInv, NextInv, PTL DEF Spec

\* The table keeps its types.
THEOREM TypeCorrect == Spec => []TypeOK
<1>1. Inv => TypeOK
  BY DEF Inv, GoodTable, TableTyped, History, TypeOK
<1> QED
  BY <1>1, Invariance, PTL

\* The free list holds exactly the free slots, for any number of slots.
THEOREM FreeListCorrect == Spec => []FreeListExact
<1>1. Inv => FreeListExact
  BY DEF Inv, GoodTable, HasFreeList, FreeListExact
<1> QED
  BY <1>1, Invariance, PTL

\* A handle is not handed out twice among GenLimit - 1 creations.
THEOREM ReuseIsLate == Spec => []NoEarlyReuse
<1>1. Inv => NoEarlyReuse
  <2> SUFFICES ASSUME Inv PROVE NoEarlyReuse
    OBVIOUS
  <2>1. table.next_generation \in 1..GenLimit - 1 /\ History(recent, table.next_generation)
    BY DEF Inv, GoodTable, TableTyped
  <2> QED
    BY <2>1, HistoryDistinct DEF NoEarlyReuse
<1> QED
  BY <1>1, Invariance, PTL

-----------------------------------------------------------------------------
\* The table implements the pool.

\* The slot of a handle that may be handed out is the one it says.
LEMMA IssuableSlot ==
  ASSUME NEW h \in Issuable
  PROVE  GetSlot(h) = h.slot /\ h.slot \in Slots /\ h.slot < MAX_COUNT
BY HandleAssumption DEF Issuable, GetSlot, Slots

\* A slot in use has one valid handle, made of the slot and its generation.
LEMMA ValidHandle ==
  ASSUME NEW t, GoodTable(t), NEW h
  PROVE  h \in ValidHandles(t)
           <=> \E s \in Slots \ Free(t) : h = Handle(s, t.generations[s])
<1>1. ASSUME h \in ValidHandles(t)
      PROVE  \E s \in Slots \ Free(t) : h = Handle(s, t.generations[s])
  <2>1. h \in Issuable /\ IsValid(t, h)
    BY <1>1 DEF ValidHandles
  <2>2. GetSlot(h) = h.slot /\ h.slot \in Slots
    BY <2>1, IssuableSlot
  <2>3. h.slot \notin Free(t) /\ t.generations[h.slot] = h.generation
    BY <2>1, <2>2 DEF IsValid, Free
  <2>4. h = Handle(h.slot, h.generation)
    BY <2>1 DEF Issuable, Handle
  <2> QED
    BY <2>2, <2>3, <2>4
<1>2. ASSUME NEW s \in Slots \ Free(t), h = Handle(s, t.generations[s])
      PROVE  h \in ValidHandles(t)
  <2>1. t.generations[s] \in 1..GenLimit - 1 /\ t.objects[s] # NullObject
    BY DEF GoodTable, TableTyped, Free
  <2>2. h \in Issuable /\ h.slot = s /\ h.generation = t.generations[s]
    BY <1>2, <2>1 DEF Issuable, Handle
  <2>3. GetSlot(h) = s /\ s < MAX_COUNT
    BY <2>2, IssuableSlot
  <2> QED
    BY <2>1, <2>2, <2>3 DEF ValidHandles, IsValid
<1> QED
  BY <1>1, <1>2

\* There are as many valid handles as slots in use.
LEMMA ValidCount ==
  ASSUME NEW t, GoodTable(t)
  PROVE  Cardinality(ValidHandles(t)) = MAX_COUNT - Cardinality(Free(t))
<1> DEFINE Used == Slots \ Free(t)
           b == [s \in Used |-> Handle(s, t.generations[s])]
<1>1. b \in Bijection(Used, ValidHandles(t))
  <2>1. b \in [Used -> ValidHandles(t)]
    BY ValidHandle
  <2>2. \A s, r \in Used : b[s] = b[r] => s = r
    BY DEF Handle
  <2>3. \A h \in ValidHandles(t) : \E s \in Used : b[s] = h
    BY ValidHandle
  <2> QED
    BY <2>1, <2>2, <2>3 DEF Bijection, Injection, Surjection, IsInjective
<1>2. IsFiniteSet(Slots) /\ IsFiniteSet(Free(t)) /\ Cardinality(Slots) = MAX_COUNT
  BY FreeFinite
<1>3. Slots \cap Free(t) = Free(t)
  BY DEF Free
<1>4. IsFiniteSet(Used) /\ Cardinality(Used) = Cardinality(Slots) - Cardinality(Slots \cap Free(t))
  BY <1>2, FS_Difference
<1>5. ExistsBijection(Used, ValidHandles(t))
  BY <1>1 DEF ExistsBijection
<1>6. Cardinality(ValidHandles(t)) = Cardinality(Used)
  BY <1>4, <1>5, FS_Bijection
<1> QED
  BY <1>2, <1>3, <1>4, <1>6

\* The pool after a creation.
LEMMA CreatePool ==
  ASSUME NEW t, GoodTable(t), ~IsFull(t), NEW obj \in Objects
  PROVE  LET h == NewHandle(t) IN
           /\ h \in Issuable /\ h \notin ValidHandles(t)
           /\ ValidHandles(AfterCreate(t, obj)) = ValidHandles(t) \cup {h}
           /\ PoolOf(AfterCreate(t, obj)) =
                [x \in ValidHandles(t) \cup {h} |-> IF x = h THEN obj ELSE PoolOf(t)[x]]
<1> DEFINE u == AfterCreate(t, obj)
           s == t.next_free_slot
           h == NewHandle(t)
<1>1. s \in Free(t) /\ s \in Slots
  BY FullIsFull DEF Free
<1>2. /\ u.objects = [t.objects EXCEPT ![s] = obj]
      /\ u.generations = [t.generations EXCEPT ![s] = t.next_generation]
  BY DEF AfterCreate
<1>3. GoodTable(u) /\ Free(u) = Free(t) \ {s}
  BY CreateGood
<1>4. /\ t.objects \in [Slots -> Objects \cup {NullObject}]
      /\ t.generations \in [Slots -> 0..MAX_COUNT \cup 1..GenLimit - 1]
  BY DEF GoodTable, TableTyped
<1>5. h = Handle(s, u.generations[s]) /\ h.slot = s
  BY <1>1, <1>2, <1>4 DEF NewHandle, Handle
<1> HIDE DEF u, h
<1>6. h \in Issuable
  BY NewHandleIssuable DEF h
<1>7. h \notin ValidHandles(t)
  BY <1>1, <1>5, ValidHandle DEF Handle
<1>8. ASSUME NEW x PROVE x \in ValidHandles(u) <=> x \in ValidHandles(t) \cup {h}
  <2>1. \A r \in Slots \ {s} : u.generations[r] = t.generations[r]
    BY <1>1, <1>2, <1>4
  <2>2. x \in ValidHandles(u) => x \in ValidHandles(t) \cup {h}
    BY <2>1, <1>1, <1>3, <1>5, ValidHandle
  <2>3. x \in ValidHandles(t) => x \in ValidHandles(u)
    BY <2>1, <1>1, <1>3, ValidHandle
  <2>4. h \in ValidHandles(u)
    BY <1>1, <1>3, <1>5, ValidHandle
  <2> QED
    BY <2>2, <2>3, <2>4
<1>9. ValidHandles(u) = ValidHandles(t) \cup {h}
  BY <1>8
<1>10. ASSUME NEW x \in ValidHandles(t) \cup {h}
       PROVE  u.objects[x.slot] = IF x = h THEN obj ELSE PoolOf(t)[x]
  <2>1. CASE x = h
    BY <2>1, <1>1, <1>2, <1>4, <1>5
  <2>2. CASE x # h
    <3>1. PICK r \in Slots \ Free(t) : x = Handle(r, t.generations[r])
      BY <2>2, ValidHandle
    <3>2. x.slot = r /\ r # s
      BY <3>1, <1>1 DEF Handle
    <3> QED
      BY <2>2, <3>1, <3>2, <1>1, <1>2, <1>4 DEF PoolOf
  <2> QED
    BY <2>1, <2>2
<1>11. PoolOf(u) = [x \in ValidHandles(t) \cup {h} |-> IF x = h THEN obj ELSE PoolOf(t)[x]]
  BY <1>9, <1>10 DEF PoolOf
<1> QED
  BY <1>6, <1>7, <1>9, <1>11 DEF u, h

\* A word is a valid handle if what it is taken for is open.
LEMMA ValidWord ==
  ASSUME NEW t, GoodTable(t), NEW h \in Handles
  PROVE  /\ IsValid(t, h) <=> Canonical(h) \in ValidHandles(t)
         /\ Canonical(h).slot = GetSlot(h)
         /\ IsValid(t, h) => GetSlot(h) \in Slots \ Free(t)
<1>1. /\ Canonical(h).slot = GetSlot(h) /\ Canonical(h).generation = h.generation
      /\ GetSlot(h) \in Nat
  BY HandleAssumption DEF Canonical, Handle, Handles, GetSlot
<1>2. IsValid(t, h) => GetSlot(h) \in Slots \ Free(t)
  BY <1>1, HandleAssumption DEF IsValid, Slots, Free
<1>3. IsValid(t, h) => Canonical(h) \in ValidHandles(t)
  <2>1. IsValid(t, h) => Canonical(h) = Handle(GetSlot(h), t.generations[GetSlot(h)])
    BY DEF Canonical, IsValid
  <2> QED
    BY <2>1, <1>2, ValidHandle
<1>4. Canonical(h) \in ValidHandles(t) => IsValid(t, h)
  <2> SUFFICES ASSUME Canonical(h) \in ValidHandles(t) PROVE IsValid(t, h)
    OBVIOUS
  <2>1. PICK s \in Slots \ Free(t) : Canonical(h) = Handle(s, t.generations[s])
    BY ValidHandle
  <2>2. GetSlot(h) = s /\ h.generation = t.generations[s]
    BY <1>1, <2>1 DEF Handle
  <2>3. s < MAX_COUNT
    BY HandleAssumption DEF Slots
  <2> QED
    BY <2>1, <2>2, <2>3 DEF IsValid, Free
<1> QED
  BY <1>1, <1>2, <1>3, <1>4

\* The pool after a handle has been closed.
LEMMA ClosePool ==
  ASSUME NEW t, GoodTable(t), NEW h \in Handles, IsValid(t, h)
  PROVE  /\ ValidHandles(AfterClose(t, h)) = ValidHandles(t) \ {Canonical(h)}
         /\ PoolOf(AfterClose(t, h)) =
              [x \in ValidHandles(t) \ {Canonical(h)} |-> PoolOf(t)[x]]
<1> DEFINE u == AfterClose(t, h)
           s == GetSlot(h)
<1>1. s \in Slots \ Free(t) /\ Canonical(h) \in ValidHandles(t) /\ Canonical(h).slot = s
  BY ValidWord
<1>2. /\ u.objects = [t.objects EXCEPT ![s] = NullObject]
      /\ u.generations = [t.generations EXCEPT ![s] = t.next_free_slot]
  BY DEF AfterClose
<1>3. GoodTable(u) /\ Free(u) = Free(t) \cup {s}
  BY CloseGood
<1>4. /\ t.objects \in [Slots -> Objects \cup {NullObject}]
      /\ t.generations \in [Slots -> 0..MAX_COUNT \cup 1..GenLimit - 1]
  BY DEF GoodTable, TableTyped
<1> HIDE DEF u, s
<1>5. \A r \in Slots \ {s} : u.generations[r] = t.generations[r] /\ u.objects[r] = t.objects[r]
  BY <1>1, <1>2, <1>4
<1>6. Canonical(h) = Handle(s, t.generations[s])
  <2>1. PICK r \in Slots \ Free(t) : Canonical(h) = Handle(r, t.generations[r])
    BY <1>1, ValidHandle
  <2> QED
    BY <1>1, <2>1 DEF Handle
<1>7. ASSUME NEW x PROVE x \in ValidHandles(u) <=> x \in ValidHandles(t) \ {Canonical(h)}
  <2>1. ASSUME x \in ValidHandles(u) PROVE x \in ValidHandles(t) \ {Canonical(h)}
    <3>1. PICK r \in Slots \ Free(u) : x = Handle(r, u.generations[r])
      BY <2>1, <1>3, ValidHandle
    <3>2. r \in Slots \ Free(t) /\ r # s /\ x = Handle(r, t.generations[r])
      BY <3>1, <1>3, <1>5
    <3>3. x # Canonical(h)
      BY <3>2, <1>6 DEF Handle
    <3> QED
      BY <3>2, <3>3, ValidHandle
  <2>2. ASSUME x \in ValidHandles(t) \ {Canonical(h)} PROVE x \in ValidHandles(u)
    <3>1. PICK r \in Slots \ Free(t) : x = Handle(r, t.generations[r])
      BY <2>2, ValidHandle
    <3>2. r # s
      BY <2>2, <3>1, <1>6
    <3> QED
      BY <3>1, <3>2, <1>3, <1>5, ValidHandle
  <2> QED
    BY <2>1, <2>2
<1>8. ValidHandles(u) = ValidHandles(t) \ {Canonical(h)}
  BY <1>7
<1>9. ASSUME NEW x \in ValidHandles(t) \ {Canonical(h)}
      PROVE  u.objects[x.slot] = PoolOf(t)[x]
  <2>1. PICK r \in Slots \ Free(t) : x = Handle(r, t.generations[r])
    BY ValidHandle
  <2>2. r # s /\ x.slot = r
    BY <2>1, <1>6 DEF Handle
  <2> QED
    BY <2>1, <2>2, <1>5 DEF PoolOf
<1> QED
  BY <1>8, <1>9 DEF PoolOf, u

\* The pool counts its handles as the table does.
LEMMA SameCardinality ==
  ASSUME NEW S
  PROVE  Pool!Cardinality(S) = Cardinality(S)
BY DEF Pool!Cardinality, Cardinality

\* The objects that a word can stand for in the pool are those that
\* GetGeneric finds in the table.
LEMMA SameMeaning ==
  ASSUME Inv, NEW h \in Handles
  PROVE  Pool!Meaning(h) = GetGeneric(table, h)
<1>1. GoodTable(table)
  BY DEF Inv
<1>a. CurrentThread # CurrentProcess
  BY DEF CurrentThread, CurrentProcess, Handle
<1>b. CASE h = CurrentThread
  BY <1>a, <1>b DEF Pool!Meaning, GetGeneric
<1>2. CASE h = CurrentProcess
  BY <1>a, <1>2 DEF Pool!Meaning, GetGeneric
<1>3. CASE h # CurrentThread /\ h # CurrentProcess
  <2>1. Pool!Meaning(h) = {pool[x] : x \in DOMAIN pool \cap {Canonical(h)}}
    BY <1>3 DEF Pool!Meaning, Pool!Open
  <2>2. DOMAIN pool = ValidHandles(table)
    BY DEF pool, PoolOf
  <2>3. CASE IsValid(table, h)
    <3>1. Canonical(h) \in ValidHandles(table) /\ Canonical(h).slot = GetSlot(h)
      BY <1>1, <2>3, ValidWord
    <3>2. pool[Canonical(h)] = table.objects[GetSlot(h)]
      BY <3>1 DEF pool, PoolOf
    <3>3. Pool!Meaning(h) = {table.objects[GetSlot(h)]}
      BY <2>1, <2>2, <3>1, <3>2
    <3> QED
      BY <1>3, <2>3, <3>3 DEF GetGeneric
  <2>4. CASE ~IsValid(table, h)
    <3>1. Canonical(h) \notin ValidHandles(table)
      BY <1>1, <2>4, ValidWord
    <3> QED
      BY <1>3, <2>1, <2>2, <2>4, <3>1 DEF GetGeneric
  <2> QED
    BY <2>3, <2>4
<1> QED
  BY <1>b, <1>2, <1>3

\* A creation in the table is one in the pool.
LEMMA CreateRefines ==
  ASSUME Inv, NEW obj \in Objects, NEW call, NEW arg, Create(obj, call, arg)
  PROVE  Pool!Add(obj, call, arg)
<1>1. GoodTable(table)
  BY DEF Inv
<1>2. DOMAIN pool = ValidHandles(table) /\ pool = PoolOf(table) /\ pool' = PoolOf(table')
  BY DEF pool, PoolOf
<1>3. /\ Cardinality(ValidHandles(table)) = MAX_COUNT - Cardinality(Free(table))
      /\ Cardinality(Free(table)) \in 0..MAX_COUNT
      /\ Cardinality(Free(table)) = 0 <=> Free(table) = {}
      /\ IsFull(table) <=> Free(table) = {}
  BY <1>1, ValidCount, FreeFinite, FS_EmptySet, FullIsFull
<1>4. CASE ~IsFull(table)
  <2> DEFINE h == NewHandle(table)
  <2>1. table' = AfterCreate(table, obj) /\ reply' = Answer(call, arg, "Success", <<h>>)
    BY <1>4 DEF Create
  <2>2. /\ h \in Issuable /\ h \notin ValidHandles(table)
        /\ PoolOf(AfterCreate(table, obj)) =
             [x \in ValidHandles(table) \cup {h} |-> IF x = h THEN obj ELSE PoolOf(table)[x]]
    BY <1>1, <1>4, CreatePool
  <2>3. Cardinality(ValidHandles(table)) < MAX_COUNT
    BY <1>3, <1>4, HandleAssumption
  <2> HIDE DEF h
  <2> QED
    BY <1>2, <2>1, <2>2, <2>3, SameCardinality DEF Pool!Add, Pool!Open, Pool!Answer, Answer
<1>5. CASE IsFull(table)
  <2>1. table' = table /\ reply' = Answer(call, arg, "OutOfHandles", <<>>)
    BY <1>5 DEF Create
  <2>2. Cardinality(ValidHandles(table)) = MAX_COUNT
    BY <1>3, <1>5, HandleAssumption
  <2> QED
    BY <1>2, <2>1, <2>2, SameCardinality DEF Pool!Add, Pool!Open, Pool!Answer, Answer
<1> QED
  BY <1>4, <1>5

\* So are two of them.
LEMMA CreatePairRefines ==
  ASSUME Inv, NEW first \in Objects, NEW second \in Objects, CreatePair(first, second)
  PROVE  Pool!CreatePair(first, second)
<1> DEFINE t == AfterCreate(table, first)
           h == NewHandle(table)
           k == NewHandle(t)
<1>1. GoodTable(table)
  BY DEF Inv
<1>2. DOMAIN pool = ValidHandles(table) /\ pool = PoolOf(table) /\ pool' = PoolOf(table')
  BY DEF pool, PoolOf
<1>3. /\ Cardinality(ValidHandles(table)) = MAX_COUNT - Cardinality(Free(table))
      /\ Cardinality(Free(table)) \in 0..MAX_COUNT
      /\ Cardinality(Free(table)) = 0 <=> Free(table) = {}
      /\ IsFull(table) <=> Free(table) = {}
  BY <1>1, ValidCount, FreeFinite, FS_EmptySet, FullIsFull
<1>4. ASSUME ~IsFull(table)
      PROVE  /\ GoodTable(t)
             /\ h \in Issuable /\ h \notin ValidHandles(table)
             /\ ValidHandles(t) = ValidHandles(table) \cup {h}
             /\ PoolOf(t) = [x \in ValidHandles(table) \cup {h} |->
                               IF x = h THEN first ELSE PoolOf(table)[x]]
             /\ Cardinality(Free(t)) = Cardinality(Free(table)) - 1
             /\ Cardinality(Free(t)) = 0 <=> Free(t) = {}
             /\ IsFull(t) <=> Free(t) = {}
  <2>1. GoodTable(t) /\ Cardinality(Free(t)) = Cardinality(Free(table)) - 1
    BY <1>1, <1>4, CreateGood
  <2>2. Cardinality(Free(t)) = 0 <=> Free(t) = {}
    BY FreeFinite, FS_EmptySet
  <2>3. IsFull(t) <=> Free(t) = {}
    BY <2>1, FullIsFull
  <2> QED
    BY <1>1, <1>4, <2>1, <2>2, <2>3, CreatePool
<1>5. CASE ~IsFull(table) /\ ~IsFull(t)
  <2>1. /\ table' = AfterCreate(t, second)
        /\ reply' = Answer("CreatePair", <<first, second>>, "Success", <<h, k>>)
    BY <1>5 DEF CreatePair
  <2>2. /\ k \in Issuable /\ k \notin ValidHandles(t)
        /\ PoolOf(AfterCreate(t, second)) =
             [x \in ValidHandles(t) \cup {k} |-> IF x = k THEN second ELSE PoolOf(t)[x]]
    BY <1>4, <1>5, CreatePool
  <2>3. Cardinality(ValidHandles(table)) < MAX_COUNT - 1
    BY <1>3, <1>4, <1>5, HandleAssumption
  <2> HIDE DEF t, h, k
  <2>4. pool' = [x \in ValidHandles(table) \cup {h, k} |->
                   IF x = k THEN second ELSE IF x = h THEN first ELSE pool[x]]
    <3>1. ValidHandles(t) \cup {k} = ValidHandles(table) \cup {h, k}
      BY <1>4, <1>5
    <3> QED
      BY <3>1, <1>2, <1>4, <1>5, <2>1, <2>2
  <2>5. /\ h \in Issuable /\ k \in Issuable
        /\ h \notin DOMAIN pool /\ k \notin DOMAIN pool \cup {h}
    BY <1>2, <1>4, <1>5, <2>2
  <2>6. Pool!Cardinality(DOMAIN pool) < MAX_COUNT - 1
    BY <1>2, <2>3, SameCardinality
  <2>7. reply' = Pool!Answer("CreatePair", <<first, second>>, "Success", <<h, k>>)
    BY <2>1 DEF Pool!Answer, Answer
  <2> QED
    BY <1>2, <2>4, <2>5, <2>6, <2>7 DEF Pool!CreatePair, Pool!Open
<1>6. CASE ~IsFull(table) /\ IsFull(t)
  <2>1. /\ table' = t
        /\ reply' = Answer("CreatePair", <<first, second>>, "OutOfHandles", <<>>)
    BY <1>6 DEF CreatePair
  <2>2. Cardinality(ValidHandles(table)) = MAX_COUNT - 1
    BY <1>3, <1>4, <1>6, HandleAssumption
  <2> HIDE DEF t, h, k
  <2> QED
    BY <1>2, <1>4, <1>6, <2>1, <2>2, SameCardinality DEF Pool!CreatePair, Pool!Open, Pool!Answer, Answer
<1>7. CASE IsFull(table)
  <2>1. /\ table' = table
        /\ reply' = Answer("CreatePair", <<first, second>>, "OutOfHandles", <<>>)
    BY <1>7 DEF CreatePair
  <2>2. Cardinality(ValidHandles(table)) = MAX_COUNT
    BY <1>3, <1>7, HandleAssumption
  <2> QED
    BY <1>2, <2>1, <2>2, SameCardinality DEF Pool!CreatePair, Pool!Open, Pool!Answer, Answer
<1> QED
  BY <1>5, <1>6, <1>7

\* Every step of the table is a step of the pool or leaves it unchanged.
LEMMA StepRefines == Inv /\ [Next]_vars => [Pool!Next]_<<pool, reply>>
<1> SUFFICES ASSUME Inv, [Next]_vars PROVE [Pool!Next]_<<pool, reply>>
  OBVIOUS
<1>1. GoodTable(table)
  BY DEF Inv
<1>2. DOMAIN pool = ValidHandles(table) /\ pool = PoolOf(table) /\ pool' = PoolOf(table')
  BY DEF pool, PoolOf
<1>3. ASSUME NEW obj \in Objects, CreateObject(obj) PROVE Pool!Next
  <2>1. Pool!Create(obj)
    BY <1>3, CreateRefines DEF CreateObject, Pool!Create
  <2>2. reply'.call = "Create"
    BY <1>3 DEF CreateObject, Create, Answer
  <2> QED
    BY <2>1, <2>2 DEF Pool!Next
<1>4. ASSUME NEW first \in Objects, NEW second \in Objects, CreatePair(first, second)
      PROVE  Pool!Next
  <2>1. Pool!CreatePair(first, second)
    BY <1>4, CreatePairRefines
  <2>2. reply'.arg = <<first, second>>
    BY <1>4 DEF CreatePair, Answer
  <2> QED
    BY <2>1, <2>2 DEF Pool!Next
<1>5. ASSUME NEW h \in Handles, Duplicate(h) PROVE Pool!Next
  <2>1. Pool!Meaning(h) = GetGeneric(table, h)
    BY SameMeaning
  <2>2. Pool!Duplicate(h) /\ reply'.arg = <<h>>
    <3>1. CASE GetGeneric(table, h) = {}
      <4>1. table' = table /\ reply' = Answer("Duplicate", <<h>>, "InvalidHandle", <<>>)
        BY <1>5, <3>1 DEF Duplicate
      <4> QED
        BY <4>1, <3>1, <2>1, <1>2 DEF Pool!Duplicate, Pool!Answer, Answer
    <3>2. CASE GetGeneric(table, h) # {}
      <4>1. PICK obj \in GetGeneric(table, h) : Create(obj, "Duplicate", <<h>>)
        BY <1>5, <3>2 DEF Duplicate
      <4>2. Pool!Add(obj, "Duplicate", <<h>>)
        BY <4>1, <1>1, GetGenericType, CreateRefines
      <4>3. reply'.arg = <<h>>
        BY <4>1 DEF Create, Answer
      <4> QED
        BY <4>2, <4>3, <2>1 DEF Pool!Duplicate
    <3> QED
      BY <3>1, <3>2
  <2> QED
    BY <2>2 DEF Pool!Next
<1>6. ASSUME NEW h \in Handles, Close(h) PROVE Pool!Next
  <2>1. Pool!Close(h) /\ reply'.arg = <<h>>
    <3>1. CASE IsValid(table, h)
      <4>1. table' = AfterClose(table, h) /\ reply' = Answer("Close", <<h>>, "Success", <<>>)
        BY <1>6, <3>1 DEF Close
      <4>2. /\ PoolOf(AfterClose(table, h)) =
                 [x \in ValidHandles(table) \ {Canonical(h)} |-> PoolOf(table)[x]]
            /\ Canonical(h) \in ValidHandles(table)
        BY <1>1, <3>1, ClosePool, ValidWord
      <4> QED
        BY <4>1, <4>2, <1>2 DEF Pool!Close, Pool!Open, Pool!Answer, Answer
    <3>2. CASE ~IsValid(table, h)
      <4>1. table' = table /\ reply' = Answer("Close", <<h>>, "InvalidHandle", <<>>)
        BY <1>6, <3>2 DEF Close
      <4>2. Canonical(h) \notin ValidHandles(table)
        BY <1>1, <3>2, ValidWord
      <4> QED
        BY <4>1, <4>2, <1>2 DEF Pool!Close, Pool!Open, Pool!Answer, Answer
    <3> QED
      BY <3>1, <3>2
  <2> QED
    BY <2>1 DEF Pool!Next
<1>7. ASSUME NEW h \in Handles, Lookup(h) PROVE Pool!Next
  <2>1. Pool!Meaning(h) = GetGeneric(table, h) /\ pool' = pool
    BY <1>2, <1>7, SameMeaning DEF Lookup
  <2>2. Pool!Lookup(h) /\ reply'.arg = <<h>>
    BY <1>7, <2>1 DEF Lookup, Pool!Lookup, Pool!Answer, Answer
  <2> QED
    BY <2>2 DEF Pool!Next
<1>8. CASE UNCHANGED vars
  BY <1>2, <1>8 DEF vars
<1> QED
  BY <1>3, <1>4, <1>5, <1>6, <1>7, <1>8 DEF Next

\* The handle table implements the pool of handles: for any number of slots
\* and generations every call answers what it would answer on the pool, and a
\* handle means its object from its creation to its end.
THEOREM Refinement == Spec => ImplementsHandlePool
<1>1. Init => Pool!Init
  <2> SUFFICES ASSUME Init PROVE Pool!Init
    OBVIOUS
  <2>1. ValidHandles(table) = {}
    <3>1. GoodTable(table)
      BY InitInv DEF Inv
    <3>2. Free(table) = Slots
      BY DEF Init, Free
    <3> QED
      BY <3>1, <3>2, ValidHandle
  <2>2. pool = [h \in {} |-> h]
    BY <2>1 DEF pool, PoolOf
  <2>3. reply = Pool!Answer("None", <<>>, "Success", <<>>)
    BY DEF Init, Answer, Pool!Answer
  <2> QED
    BY <2>2, <2>3 DEF Pool!Init
<1> QED
  BY <1>1, StepRefines, Invariance, PTL DEF Spec, ImplementsHandlePool, Pool!Spec
=============================================================================
