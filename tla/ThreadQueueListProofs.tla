------------------------ MODULE ThreadQueueListProofs -----------------------
(***************************************************************************)
(* The ready queue is correct for every number of threads and levels: its  *)
(* list stays sorted, no pop dereferences the null pointer, and it         *)
(* implements the priority queue.                                          *)
(***************************************************************************)
EXTENDS ThreadQueueList, SequenceTheorems, TLAPS

-----------------------------------------------------------------------------
\* What the operations on the deque of one level do.

\* Membership in ToSet, index by index.
LEMMA ToSetMember ==
  ASSUME NEW S, NEW s \in Seq(S), NEW e
  PROVE  e \in ToSet(s) <=> \E i \in 1..Len(s) : s[i] = e
BY LenProperties DEF ToSet

\* Appending an element, as push_back does.
LEMMA AppendFacts ==
  ASSUME NEW S, NEW s \in Seq(S), NEW e \in S
  PROVE  /\ Append(s, e) \in Seq(S)
         /\ ToSet(Append(s, e)) = ToSet(s) \cup {e}
         /\ NoDuplicates(s) /\ e \notin ToSet(s) => NoDuplicates(Append(s, e))
<1>1. Append(s, e) \in Seq(S)
  BY AppendProperties
<1>2. ToSet(Append(s, e)) = ToSet(s) \cup {e}
  BY AppendProperties, LenProperties, <1>1 DEF ToSet
<1>3. NoDuplicates(s) /\ e \notin ToSet(s) => NoDuplicates(Append(s, e))
  BY AppendProperties, ToSetMember DEF NoDuplicates
<1> QED BY <1>1, <1>2, <1>3

\* Prepending an element, as push_front does.
LEMMA PushFrontFacts ==
  ASSUME NEW S, NEW s \in Seq(S), NEW e \in S
  PROVE  /\ PushFront(s, e) \in Seq(S)
         /\ PushFront(s, e) # <<>>
         /\ ToSet(PushFront(s, e)) = ToSet(s) \cup {e}
         /\ NoDuplicates(s) /\ e \notin ToSet(s) => NoDuplicates(PushFront(s, e))
<1> DEFINE one == <<e>>
           all == one \o s
<1>1. /\ one \in Seq(S)
      /\ Len(one) = 1
      /\ one[1] = e
  OBVIOUS
<1>2. PushFront(s, e) = all
  BY DEF PushFront
<1> HIDE DEF one
<1>3. /\ all \in Seq(S)
      /\ Len(all) = Len(s) + 1
      /\ Len(s) \in Nat
      /\ \A i \in 1..Len(s) + 1 : all[i] = IF i = 1 THEN e ELSE s[i - 1]
  <2>1. /\ all \in Seq(S)
        /\ Len(all) = Len(one) + Len(s)
        /\ \A i \in 1..Len(one) + Len(s) :
              all[i] = IF i <= Len(one) THEN one[i] ELSE s[i - Len(one)]
    BY <1>1, ConcatProperties
  <2>2. Len(s) \in Nat
    BY LenProperties
  <2> HIDE DEF all
  <2> QED BY <1>1, <2>1, <2>2
<1> HIDE DEF all
<1>4. all # <<>>
  BY <1>3
<1>5. ToSet(all) = ToSet(s) \cup {e}
  <2>1. \A x : x \in ToSet(all) <=> \E i \in 1..Len(s) + 1 : all[i] = x
    BY <1>3, ToSetMember
  <2>2. ASSUME NEW x \in ToSet(all) PROVE x \in ToSet(s) \cup {e}
    BY <1>3, <2>1, ToSetMember
  <2>3. e \in ToSet(all)
    BY <1>3, <2>1
  <2>4. ASSUME NEW x \in ToSet(s) PROVE x \in ToSet(all)
    <3>1. PICK i \in 1..Len(s) : s[i] = x
      BY ToSetMember
    <3>2. i + 1 \in 1..Len(s) + 1 /\ all[i + 1] = x
      BY <1>3, <3>1
    <3> QED BY <2>1, <3>2
  <2> QED BY <2>2, <2>3, <2>4
<1>6. ASSUME NoDuplicates(s), e \notin ToSet(s) PROVE NoDuplicates(all)
  <2>1. \A i \in 1..Len(s) : s[i] # e
    BY <1>6, ToSetMember
  <2> SUFFICES ASSUME NEW i \in 1..Len(s) + 1, NEW j \in 1..Len(s) + 1, all[i] = all[j]
               PROVE  i = j
    BY <1>3 DEF NoDuplicates
  <2>2. CASE i = 1 \/ j = 1
    <3>1. ASSUME NEW n \in 1..Len(s) + 1, n # 1 PROVE all[n] # e
      <4>1. n - 1 \in 1..Len(s) /\ all[n] = s[n - 1]
        BY <1>3, <3>1
      <4> QED BY <2>1, <4>1
    <3>2. 1 \in 1..Len(s) + 1 /\ all[1] = e
      BY <1>3
    <3> QED BY <2>2, <3>1, <3>2
  <2>3. CASE i # 1 /\ j # 1
    <3>1. s[i - 1] = s[j - 1] /\ i - 1 \in 1..Len(s) /\ j - 1 \in 1..Len(s)
      BY <1>3, <2>3
    <3> QED BY <1>6, <3>1 DEF NoDuplicates
  <2> QED BY <2>2, <2>3
<1> QED BY <1>2, <1>3, <1>4, <1>5, <1>6

\* Dropping the head, as pop_front does.
LEMMA TailFacts ==
  ASSUME NEW S, NEW s \in Seq(S), s # <<>>
  PROVE  /\ Tail(s) \in Seq(S)
         /\ Head(s) \in S
         /\ Head(s) \in ToSet(s)
         /\ ToSet(Tail(s)) \subseteq ToSet(s)
         /\ ToSet(s) = ToSet(Tail(s)) \cup {Head(s)}
         /\ NoDuplicates(s) => NoDuplicates(Tail(s)) /\ Head(s) \notin ToSet(Tail(s))
<1>1. /\ Tail(s) \in Seq(S)
      /\ Head(s) \in S
      /\ Head(s) = s[1]
      /\ Len(s) \in Nat \ {0}
      /\ Len(Tail(s)) = Len(s) - 1
      /\ \A i \in 1..Len(s) - 1 : Tail(s)[i] = s[i + 1]
  BY HeadTailProperties, EmptySeq, LenProperties
<1>2. Head(s) \in ToSet(s)
  BY <1>1, ToSetMember
<1>3. ASSUME NEW x PROVE x \in ToSet(s) <=> x \in ToSet(Tail(s)) \cup {Head(s)}
  <2>1. ASSUME x \in ToSet(s), x # Head(s) PROVE x \in ToSet(Tail(s))
    <3>1. PICK i \in 1..Len(s) : s[i] = x
      BY <2>1, ToSetMember
    <3>2. i - 1 \in 1..Len(s) - 1 /\ Tail(s)[i - 1] = x
      BY <1>1, <2>1, <3>1
    <3> QED BY <1>1, <3>2, ToSetMember
  <2>2. ASSUME x \in ToSet(Tail(s)) PROVE x \in ToSet(s)
    <3>1. PICK i \in 1..Len(s) - 1 : Tail(s)[i] = x
      <4>1. \E i \in 1..Len(Tail(s)) : Tail(s)[i] = x
        BY <1>1, <2>2, ToSetMember
      <4> QED BY <1>1, <4>1
    <3>2. i + 1 \in 1..Len(s) /\ s[i + 1] = x
      BY <1>1, <3>1
    <3> QED BY <3>2, ToSetMember
  <2> QED BY <1>2, <2>1, <2>2
<1>4. ASSUME NoDuplicates(s) PROVE NoDuplicates(Tail(s)) /\ Head(s) \notin ToSet(Tail(s))
  <2>1. NoDuplicates(Tail(s))
    BY <1>1, <1>4 DEF NoDuplicates
  <2>2. \A i \in 1..Len(s) - 1 : Tail(s)[i] # Head(s)
    BY <1>1, <1>4 DEF NoDuplicates
  <2>3. ~ \E i \in 1..Len(Tail(s)) : Tail(s)[i] = Head(s)
    BY <1>1, <2>2
  <2>4. Head(s) \notin ToSet(Tail(s))
    BY <1>1, <2>3, ToSetMember
  <2> QED BY <2>1, <2>4
<1> QED BY <1>1, <1>2, <1>3, <1>4

\* Erasing an element.
LEMMA WithoutFacts ==
  ASSUME NEW S, NEW s \in Seq(S), NEW e
  PROVE  /\ Without(s, e) \in Seq(S)
         /\ ToSet(Without(s, e)) \subseteq ToSet(s)
         /\ e \notin ToSet(s) => Without(s, e) = s
         /\ NoDuplicates(s) => /\ NoDuplicates(Without(s, e))
                               /\ ToSet(Without(s, e)) = ToSet(s) \ {e}
<1>1. CASE ~ \E i \in 1..Len(s) : s[i] = e
  <2>1. Without(s, e) = s /\ e \notin ToSet(s)
    BY <1>1, ToSetMember DEF Without
  <2> QED BY <2>1
<1>2. CASE \E i \in 1..Len(s) : s[i] = e
  <2> DEFINE k == CHOOSE i \in 1..Len(s) : s[i] = e
             pre == SubSeq(s, 1, k - 1)
             post == SubSeq(s, k + 1, Len(s))
             w == Without(s, e)
  <2>1. k \in 1..Len(s) /\ s[k] = e
    BY <1>2
  <2>2. w = pre \o post
    BY <1>2 DEF Without, RemoveAt
  <2> HIDE DEF k, w
  <2>3. Len(s) \in Nat /\ \A i \in 1..Len(s) : s[i] \in S
    BY LenProperties
  <2>4. /\ pre \in Seq(S)
        /\ Len(pre) = k - 1
        /\ \A i \in 1..k - 1 : pre[i] = s[i]
    <3>1. k - 1 \in Int /\ \A i \in 1..k - 1 : s[i] \in S
      BY <2>1, <2>3
    <3>2. /\ pre \in Seq(S)
          /\ Len(pre) = IF 1 <= k - 1 THEN k - 1 - 1 + 1 ELSE 0
          /\ \A i \in 1..k - 1 - 1 + 1 : pre[i] = s[1 + i - 1]
      BY <3>1, SubSeqProperties
    <3> HIDE DEF pre
    <3> QED BY <2>1, <2>3, <3>2
  <2>5. /\ post \in Seq(S)
        /\ Len(post) = Len(s) - k
        /\ \A i \in 1..Len(s) - k : post[i] = s[k + i]
    <3>1. k + 1 \in Int /\ Len(s) \in Int /\ \A i \in k + 1..Len(s) : s[i] \in S
      BY <2>1, <2>3
    <3>2. /\ post \in Seq(S)
          /\ Len(post) = IF k + 1 <= Len(s) THEN Len(s) - (k + 1) + 1 ELSE 0
          /\ \A i \in 1..Len(s) - (k + 1) + 1 : post[i] = s[k + 1 + i - 1]
      BY <3>1, SubSeqProperties
    <3> HIDE DEF post
    <3> QED BY <2>1, <2>3, <3>2
  <2> HIDE DEF pre, post
  <2>6. /\ w \in Seq(S)
        /\ Len(w) = Len(s) - 1
        /\ \A i \in 1..Len(s) - 1 : w[i] = IF i < k THEN s[i] ELSE s[i + 1]
    <3>1. /\ w \in Seq(S)
          /\ Len(w) = Len(pre) + Len(post)
          /\ \A i \in 1..Len(pre) + Len(post) :
                w[i] = IF i <= Len(pre) THEN pre[i] ELSE post[i - Len(pre)]
      BY <2>2, <2>4, <2>5, ConcatProperties
    <3>2. Len(w) = Len(s) - 1
      BY <2>1, <2>3, <2>4, <2>5, <3>1
    <3>3. ASSUME NEW i \in 1..Len(s) - 1 PROVE w[i] = IF i < k THEN s[i] ELSE s[i + 1]
      <4>1. i \in 1..Len(pre) + Len(post)
        BY <2>1, <2>3, <2>4, <2>5
      <4>2. CASE i < k
        <5>1. i <= Len(pre) /\ i \in 1..k - 1
          BY <2>1, <2>3, <2>4, <4>2
        <5>2. w[i] = pre[i]
          BY <3>1, <4>1, <5>1
        <5> QED BY <2>4, <4>2, <5>1, <5>2
      <4>3. CASE ~(i < k)
        <5>1. ~(i <= Len(pre)) /\ i - Len(pre) \in 1..Len(s) - k /\ k + (i - Len(pre)) = i + 1
          BY <2>1, <2>3, <2>4, <4>3
        <5>2. w[i] = post[i - Len(pre)]
          BY <3>1, <4>1, <5>1
        <5>3. post[i - Len(pre)] = s[i + 1]
          BY <2>5, <5>1
        <5> QED BY <4>3, <5>2, <5>3
      <4> QED BY <4>2, <4>3
    <3> QED BY <3>1, <3>2, <3>3
  <2>7. ASSUME NEW x \in ToSet(w) PROVE x \in ToSet(s)
    <3>1. PICK i \in 1..Len(s) - 1 : w[i] = x
      BY <2>6, ToSetMember
    <3>2. \E j \in 1..Len(s) : s[j] = x
      BY <2>1, <2>3, <2>6, <3>1
    <3> QED BY <3>2, ToSetMember
  <2>8. ASSUME NEW x \in ToSet(s), x # e PROVE x \in ToSet(w)
    <3>1. PICK i \in 1..Len(s) : s[i] = x
      BY ToSetMember
    <3>2. i # k
      BY <2>1, <2>8, <3>1
    <3>3. \E j \in 1..Len(s) - 1 : w[j] = x
      <4>1. CASE i < k
        BY <2>1, <2>3, <2>6, <3>1, <4>1
      <4>2. CASE i > k
        <5>1. i - 1 \in 1..Len(s) - 1 /\ w[i - 1] = x
          BY <2>1, <2>3, <2>6, <3>1, <4>2
        <5> QED BY <5>1
      <4> QED BY <2>1, <2>3, <3>2, <4>1, <4>2
    <3> QED BY <2>6, <3>3, ToSetMember
  <2>9. ASSUME NoDuplicates(s) PROVE NoDuplicates(w) /\ e \notin ToSet(w)
    <3>1. NoDuplicates(w)
      BY <2>1, <2>3, <2>6, <2>9 DEF NoDuplicates
    <3>2. \A i \in 1..Len(s) - 1 : w[i] # e
      BY <2>1, <2>3, <2>6, <2>9 DEF NoDuplicates
    <3> QED BY <2>6, <3>1, <3>2, ToSetMember
  <2>10. e \in ToSet(s)
    BY <1>2, ToSetMember
  <2> QED BY <2>6, <2>7, <2>8, <2>9, <2>10 DEF w
<1> QED BY <1>1, <1>2

-----------------------------------------------------------------------------
Walking == {"pop_first", "pop_first_better", "get_first"}

\* What the loops and the switch that follows them rely on.
WalkState ==
  /\ op \in {"pop_first_better", "get_first"} => IsRunning
  /\ op \in Walking /\ cur # Null => IsLinked(cur)
  /\ popped # NoThread => op = "switch" /\ status[popped] = "Ready"

\* The inductive invariant.
Inv ==
  /\ TypeOK
  /\ ListSorted
  /\ LevelsPrepared
  /\ QueuedWhereItBelongs
  /\ WalkState
  /\ NoNullDereference
  /\ WalkMissesNothing

\* prepare() links the level it is given, keeps every used level on the list
\* and keeps the list sorted.
LEMMA PrepareKeepsOrder ==
  ASSUME TypeOK, ListSorted, NEW p \in Levels, Prepare(p)
  PROVE  /\ first' \in Levels \cup {Null}
         /\ next_nonempty' \in [Levels -> Levels \cup {Null, UnlinkedTag}]
         /\ ListSorted'
         /\ IsLinked(p)'
         /\ \A q \in Levels : IsLinked(q) => IsLinked(q)'
<1>0. /\ Levels \subseteq Int
      /\ Null \in Int /\ Null \notin Levels /\ Null < -1
      /\ UnlinkedTag = -1 /\ UnlinkedTag \notin Levels
      /\ Null # UnlinkedTag
      /\ \A q \in Levels : -1 < q
  BY LevelsAssumption DEF Levels, Null, UnlinkedTag
<1>1. CASE IsLinked(p)
  BY <1>0, <1>1 DEF Prepare, links, TypeOK, ListSorted, IsSuccessor, IsLinked
<1>2. CASE ~IsLinked(p)
  <2>1. Link(p)
    BY <1>0, <1>2 DEF Prepare
  <2>2. ASSUME NEW i \in Levels, i < p, IsLinked(i),
               \A j \in Levels : i < j /\ j < p => ~IsLinked(j),
               next_nonempty' = [next_nonempty EXCEPT ![p] = next_nonempty[i], ![i] = p],
               UNCHANGED first
        PROVE  /\ first' \in Levels \cup {Null}
               /\ next_nonempty' \in [Levels -> Levels \cup {Null, UnlinkedTag}]
               /\ ListSorted'
               /\ IsLinked(p)'
               /\ \A q \in Levels : IsLinked(q) => IsLinked(q)'
    <3>1. next_nonempty' \in [Levels -> Levels \cup {Null, UnlinkedTag}]
      BY <2>2 DEF TypeOK
    <3>2. /\ next_nonempty'[p] = next_nonempty[i]
          /\ next_nonempty'[i] = p
          /\ \A q \in Levels : q # p /\ q # i => next_nonempty'[q] = next_nonempty[q]
      BY <2>2 DEF TypeOK
    <3>3. /\ i < p
          /\ next_nonempty[i] # UnlinkedTag
          /\ next_nonempty[p] = UnlinkedTag
          /\ \A q \in Levels : i < q /\ q < p => next_nonempty[q] = UnlinkedTag
          /\ first' = first
      BY <1>2, <2>2 DEF IsLinked
    <3>4. \A q \in Levels : next_nonempty'[q] = UnlinkedTag <=> q # p /\ next_nonempty[q] = UnlinkedTag
      BY <1>0, <3>2, <3>3
    <3>5. IsSuccessor(first, -1)'
      <4>1. IsSuccessor(first, -1)
        BY DEF ListSorted
      <4>2. i \in Levels /\ -1 < i /\ first # Null
        BY <1>0, <3>3, <4>1 DEF IsSuccessor, IsLinked
      <4>3. ~(p < first)
        <5>1. ~(i < first) /\ first \in Levels
          BY <3>3, <4>1, <4>2 DEF IsSuccessor, IsLinked
        <5> QED BY <3>3, <5>1, LevelsAssumption DEF Levels
      <4> QED BY <1>0, <3>3, <3>4, <4>1, <4>2, <4>3 DEF IsSuccessor, IsLinked
    <3>6. ASSUME NEW q \in Levels, next_nonempty'[q] # UnlinkedTag
           PROVE  IsSuccessor(next_nonempty[q], q)'
      <4>1. CASE q = p
        <5>1. IsSuccessor(next_nonempty[i], i)
          BY <3>3 DEF ListSorted, IsLinked
        <5>2. next_nonempty[i] = Null \/ (next_nonempty[i] \in Levels /\ p < next_nonempty[i])
          <6>1. next_nonempty[i] = Null \/ (next_nonempty[i] \in Levels /\ next_nonempty[i] # p /\ i < next_nonempty[i] /\ IsLinked(next_nonempty[i]))
            BY <3>3, <5>1 DEF IsSuccessor, IsLinked
          <6>2. next_nonempty[i] # Null => ~(next_nonempty[i] < p)
            BY <3>3, <6>1 DEF IsLinked
          <6> QED BY <6>1, <6>2, LevelsAssumption DEF Levels
        <5>3. \A r \in Levels : p < r => i < r /\ r # p
          BY <3>3, LevelsAssumption DEF Levels
        <5> QED BY <3>2, <3>4, <4>1, <5>1, <5>2, <5>3 DEF IsSuccessor, IsLinked
      <4>2. CASE q = i
        BY <1>0, <3>2, <3>3, <3>4, <4>2 DEF IsSuccessor, IsLinked
      <4>3. CASE q # p /\ q # i
        <5>1. next_nonempty[q] # UnlinkedTag /\ next_nonempty'[q] = next_nonempty[q]
          BY <3>2, <3>4, <3>6, <4>3
        <5>2. IsSuccessor(next_nonempty[q], q)
          BY <5>1 DEF ListSorted, IsLinked
        <5>3. q < i \/ p < q
          BY <1>0, <3>3, <4>3, <5>1
        <5>4. CASE p < q
          <6>1. \A r \in Levels : q < r => r # p
            BY <5>4, LevelsAssumption DEF Levels
          <6> QED BY <3>4, <5>1, <5>2, <6>1 DEF IsSuccessor, IsLinked
        <5>5. CASE q < i
          <6>1. next_nonempty[q] \in Levels /\ ~(i < next_nonempty[q])
            BY <3>3, <5>2, <5>5 DEF IsSuccessor, IsLinked
          <6>2. \A r \in Levels : r < next_nonempty[q] => r # p
            BY <3>3, <6>1, LevelsAssumption DEF Levels
          <6> QED BY <1>0, <3>4, <5>1, <5>2, <6>1, <6>2 DEF IsSuccessor, IsLinked
        <5> QED BY <5>3, <5>4, <5>5
      <4> QED BY <4>1, <4>2, <4>3
    <3>7. ListSorted'
      BY <3>5, <3>6 DEF ListSorted, IsLinked
    <3> QED BY <2>2, <3>1, <3>4, <3>7 DEF TypeOK, IsLinked
  <2>3. ASSUME \A j \in Levels : j < p => ~IsLinked(j),
               next_nonempty' = [next_nonempty EXCEPT ![p] = first],
               first' = p
        PROVE  /\ first' \in Levels \cup {Null}
               /\ next_nonempty' \in [Levels -> Levels \cup {Null, UnlinkedTag}]
               /\ ListSorted'
               /\ IsLinked(p)'
               /\ \A q \in Levels : IsLinked(q) => IsLinked(q)'
    <3>1. /\ next_nonempty' \in [Levels -> Levels \cup {Null, UnlinkedTag}]
          /\ next_nonempty'[p] = first
          /\ \A q \in Levels : q # p => next_nonempty'[q] = next_nonempty[q]
      BY <2>3 DEF TypeOK
    <3>2. /\ first' = p
          /\ first \in Levels \cup {Null}
          /\ next_nonempty[p] = UnlinkedTag
          /\ \A q \in Levels : q < p => next_nonempty[q] = UnlinkedTag
      BY <1>2, <2>3 DEF IsLinked, TypeOK
    <3>3. \A q \in Levels : next_nonempty'[q] = UnlinkedTag <=> q # p /\ next_nonempty[q] = UnlinkedTag
      BY <1>0, <3>1, <3>2
    <3>4. IsSuccessor(first, -1)'
      BY <1>0, <3>2, <3>3 DEF IsSuccessor, IsLinked
    <3>5. ASSUME NEW q \in Levels, next_nonempty'[q] # UnlinkedTag
          PROVE  IsSuccessor(next_nonempty[q], q)'
      <4>1. CASE q = p
        <5>1. IsSuccessor(first, -1)
          BY DEF ListSorted
        <5>2. first = Null \/ p < first
          BY <1>0, <3>2, <5>1 DEF IsSuccessor, IsLinked
        <5> QED BY <1>0, <3>1, <3>2, <3>3, <4>1, <5>1, <5>2 DEF IsSuccessor, IsLinked
      <4>2. CASE q # p
        <5>1. next_nonempty[q] # UnlinkedTag /\ next_nonempty'[q] = next_nonempty[q]
          BY <3>1, <3>3, <3>5, <4>2
        <5>2. IsSuccessor(next_nonempty[q], q)
          BY <5>1 DEF ListSorted, IsLinked
        <5>3. p < q
          BY <1>0, <3>2, <4>2, <5>1
        <5> QED BY <1>0, <3>2, <3>3, <4>2, <5>1, <5>2, <5>3 DEF IsSuccessor, IsLinked
      <4> QED BY <4>1, <4>2
    <3>6. ListSorted'
      BY <3>4, <3>5 DEF ListSorted, IsLinked
    <3> QED BY <1>0, <3>1, <3>2, <3>3, <3>6 DEF IsLinked
  <2> QED BY <1>0, <2>1, <2>2, <2>3 DEF Link
<1> QED BY <1>0, <1>1, <1>2

-----------------------------------------------------------------------------
\* The effect of the three deque operations on the array of levels.
LEMMA QueueOps ==
  ASSUME NEW d \in [Levels -> Seq(Threads)], NEW p \in Levels, NEW t \in Threads
  PROVE  /\ push_back(d, p, t) \in [Levels -> Seq(Threads)]
         /\ push_back(d, p, t)[p] = Append(d[p], t)
         /\ push_front(d, p, t) \in [Levels -> Seq(Threads)]
         /\ push_front(d, p, t)[p] = PushFront(d[p], t)
         /\ remove(d, p, t) \in [Levels -> Seq(Threads)]
         /\ remove(d, p, t)[p] = Without(d[p], t)
         /\ \A q \in Levels : q # p => /\ push_back(d, p, t)[q] = d[q]
                                      /\ push_front(d, p, t)[q] = d[q]
                                      /\ remove(d, p, t)[q] = d[q]
<1>1. d[p] \in Seq(Threads)
  OBVIOUS
<1>2. /\ Append(d[p], t) \in Seq(Threads)
      /\ PushFront(d[p], t) \in Seq(Threads)
      /\ Without(d[p], t) \in Seq(Threads)
  BY <1>1, AppendFacts, PushFrontFacts, WithoutFacts
<1> QED BY <1>2 DEF push_back, push_front, remove

\* At rest no thread is in transit.
LEMMA IdleNothingPopped ==
  ASSUME WalkState, op = "idle"
  PROVE  popped = NoThread
BY DEF WalkState

\* Enqueuing a thread that was in no level, at the level of its priority.
LEMMA EnqueueKeepsPlacement ==
  ASSUME TypeOK, TypeOK', QueuedWhereItBelongs, popped = NoThread, popped' = NoThread,
         NEW t \in Threads, status[t] # "Ready", status'[t] = "Ready",
         \A u \in Threads : u # t => status'[u] = status[u]
                                    /\ current_priority'[u] = current_priority[u],
         data' = push_back(data, current_priority'[t], t)
  PROVE  QueuedWhereItBelongs'
<1> DEFINE p == current_priority'[t]
<1>1. p \in Levels /\ data \in [Levels -> Seq(Threads)]
  BY DEF TypeOK
<1> HIDE DEF p
<1>2. SUFFICES ASSUME NEW q \in Levels
               PROVE  /\ NoDuplicates(data'[q])
                      /\ \A u \in Threads : u \in ToSet(data'[q]) <=>
                            status'[u] = "Ready" /\ current_priority'[u] = q
  BY NoThreadAssumption DEF QueuedWhereItBelongs
<1>3. /\ NoDuplicates(data[q])
      /\ \A u \in Threads : u \in ToSet(data[q]) <=>
            status[u] = "Ready" /\ current_priority[u] = q
  BY NoThreadAssumption DEF QueuedWhereItBelongs
<1>4. t \notin ToSet(data[q])
  BY <1>3
<1>5. CASE q = p
  <2>1. data'[q] = Append(data[q], t) /\ data[q] \in Seq(Threads)
    BY <1>1, <1>5, QueueOps DEF p
  <2>2. NoDuplicates(data'[q]) /\ ToSet(data'[q]) = ToSet(data[q]) \cup {t}
    BY <1>3, <1>4, <2>1, AppendFacts
  <2> QED BY <1>3, <1>5, <2>2 DEF p
<1>6. CASE q # p
  <2>1. data'[q] = data[q]
    BY <1>1, <1>6, QueueOps DEF p
  <2> QED BY <1>3, <1>4, <1>6, <2>1 DEF p
<1> QED BY <1>5, <1>6

\* Removing a ready thread that is then no longer ready, or has another level.
LEMMA RemoveKeepsPlacement ==
  ASSUME TypeOK, QueuedWhereItBelongs, popped = NoThread,
         NEW t \in Threads, status[t] = "Ready", NEW q \in Levels
  PROVE  LET d == remove(data, current_priority[t], t)
         IN  /\ d \in [Levels -> Seq(Threads)]
             /\ NoDuplicates(d[q])
             /\ \A u \in Threads : u \in ToSet(d[q]) <=>
                   u # t /\ status[u] = "Ready" /\ current_priority[u] = q
<1> DEFINE p == current_priority[t]
           d == remove(data, p, t)
<1>1. p \in Levels /\ data \in [Levels -> Seq(Threads)] /\ data[q] \in Seq(Threads)
  BY DEF TypeOK
<1> HIDE DEF p
<1>2. /\ NoDuplicates(data[q])
      /\ \A u \in Threads : u \in ToSet(data[q]) <=>
            status[u] = "Ready" /\ current_priority[u] = q
  BY NoThreadAssumption DEF QueuedWhereItBelongs
<1>3. d \in [Levels -> Seq(Threads)]
  BY <1>1, QueueOps
<1>4. CASE q = p
  <2>1. d[q] = Without(data[q], t)
    BY <1>1, <1>4, QueueOps
  <2>2. NoDuplicates(d[q]) /\ ToSet(d[q]) = ToSet(data[q]) \ {t}
    BY <1>1, <1>2, <2>1, WithoutFacts
  <2> QED BY <1>2, <1>3, <2>2 DEF p
<1>5. CASE q # p
  <2>1. d[q] = data[q]
    BY <1>1, <1>5, QueueOps
  <2> HIDE DEF d
  <2>2. t \notin ToSet(data[q])
    BY <1>2, <1>5 DEF p
  <2> QED BY <1>2, <1>3, <2>1, <2>2 DEF p, d
<1> QED BY <1>4, <1>5

-----------------------------------------------------------------------------
\* Used levels stay used, so a thread's level stays prepared.
LEMMA PreparedStays ==
  ASSUME TypeOK, LevelsPrepared,
         \A q \in Levels : IsLinked(q) => IsLinked(q)',
         \A t \in Threads : status'[t] # "absent" =>
            IsLinked(current_priority[t])' \/
            (status[t] # "absent" /\ current_priority'[t] = current_priority[t]),
         \A q \in Levels : data'[q] # <<>> => IsLinked(q)' \/ data[q] # <<>>
  PROVE  LevelsPrepared'
<1>1. ASSUME NEW t \in Threads, status'[t] # "absent" PROVE IsLinked(current_priority[t])'
  <2>1. CASE status[t] # "absent" /\ current_priority'[t] = current_priority[t]
    <3>1. IsLinked(current_priority[t]) /\ current_priority[t] \in Levels
      BY <2>1 DEF LevelsPrepared, TypeOK
    <3> QED BY <2>1, <3>1 DEF IsLinked
  <2> QED BY <1>1, <2>1
<1>2. ASSUME NEW q \in Levels, data'[q] # <<>> PROVE IsLinked(q)'
  BY <1>2 DEF LevelsPrepared
<1> QED BY <1>1, <1>2 DEF LevelsPrepared

\* Nothing but the list changes the links.
LEMMA LinksUnchanged ==
  ASSUME ListSorted, UNCHANGED links
  PROVE  /\ ListSorted'
         /\ \A q \in Levels : IsLinked(q) <=> IsLinked(q)'
BY DEF ListSorted, IsSuccessor, IsLinked, links

\* The popped thread is in no level, so the remove() of SwitchContext has
\* nothing left to do: the only effect is the push_front of a preempted thread.
LEMMA SwitchData ==
  ASSUME Inv, SwitchContext
  PROVE  /\ popped \in Threads /\ status[popped] = "Ready"
         /\ IsRunning => /\ current_thread \in Threads /\ current_thread # popped
                         /\ data' = push_front(data, current_priority[current_thread], current_thread)
         /\ ~IsRunning => data' = data
<1> DEFINE c == current_thread
           pushed == IF IsRunning THEN push_front(data, current_priority[c], c) ELSE data
           p == current_priority[popped]
<1>1. /\ popped \in Threads /\ status[popped] = "Ready" /\ p \in Levels
      /\ data \in [Levels -> Seq(Threads)]
  BY DEF Inv, TypeOK, WalkState, SwitchContext
<1>2. IsRunning => c \in Threads /\ c # popped /\ current_priority[c] \in Levels
  BY <1>1 DEF Inv, TypeOK, IsRunning
<1>3. popped \notin ToSet(data[p]) /\ data[p] \in Seq(Threads)
  BY <1>1 DEF Inv, QueuedWhereItBelongs
<1>4. data' = remove(pushed, p, popped)
  BY DEF SwitchContext
<1>5. /\ pushed \in [Levels -> Seq(Threads)]
      /\ popped \notin ToSet(pushed[p])
  <2>1. CASE IsRunning
    <3>1. /\ pushed \in [Levels -> Seq(Threads)]
          /\ p = current_priority[c] => pushed[p] = PushFront(data[p], c)
          /\ p # current_priority[c] => pushed[p] = data[p]
      <4> DEFINE pc == current_priority[c]
      <4>1. c \in Threads /\ pc \in Levels /\ pushed = push_front(data, pc, c)
        BY <1>2, <2>1
      <4> HIDE DEF pc, c, pushed, p
      <4>2. /\ push_front(data, pc, c) \in [Levels -> Seq(Threads)]
            /\ push_front(data, pc, c)[pc] = PushFront(data[pc], c)
            /\ \A q \in Levels : q # pc => push_front(data, pc, c)[q] = data[q]
        BY <1>1, <4>1, QueueOps
      <4>3. p = pc \/ p # pc
        OBVIOUS
      <4>4. CASE p = pc
        BY <4>1, <4>2, <4>4 DEF pc
      <4>5. CASE p # pc
        BY <1>1, <4>1, <4>2, <4>5 DEF pc
      <4> QED BY <4>3, <4>4, <4>5
    <3>2. ToSet(PushFront(data[p], c)) = ToSet(data[p]) \cup {c}
      BY <1>2, <1>3, <2>1, PushFrontFacts
    <3> QED BY <1>2, <1>3, <2>1, <3>1, <3>2
  <2>2. CASE ~IsRunning
    BY <1>1, <1>3, <2>2
  <2> QED BY <2>1, <2>2
<1> HIDE DEF pushed, p
<1>6. Without(pushed[p], popped) = pushed[p]
  <2>1. pushed[p] \in Seq(Threads)
    BY <1>1, <1>5
  <2> QED BY <1>5, <2>1, WithoutFacts
<1>7. data' = pushed
  BY <1>1, <1>4, <1>5, <1>6 DEF remove
<1> QED BY <1>1, <1>2, <1>7 DEF pushed

\* The invariant holds initially.
LEMMA InvInit == Init => Inv
<1> SUFFICES ASSUME Init PROVE Inv
  OBVIOUS
<1>1. TypeOK
  <2>1. 0 \in Levels /\ <<>> \in Seq(Threads)
    BY LevelsAssumption, EmptySeq DEF Levels
  <2> QED BY <2>1 DEF Init, TypeOK, Statuses, Ops
<1>2. ListSorted
  BY DEF Init, ListSorted, IsSuccessor, IsLinked
<1>3. LevelsPrepared
  BY DEF Init, LevelsPrepared
<1>4. QueuedWhereItBelongs
  BY DEF Init, QueuedWhereItBelongs, NoDuplicates, ToSet
<1>5. WalkState /\ NoNullDereference /\ WalkMissesNothing
  BY DEF Init, WalkState, NoNullDereference, WalkMissesNothing, Walking
<1> QED BY <1>1, <1>2, <1>3, <1>4, <1>5 DEF Inv

\* Every step keeps the invariant.
LEMMA InvNext == Inv /\ [Next]_vars => Inv'
<1> SUFFICES ASSUME Inv, [Next]_vars PROVE Inv'
  OBVIOUS
<1>0. /\ TypeOK /\ ListSorted /\ LevelsPrepared /\ QueuedWhereItBelongs
      /\ WalkState /\ NoNullDereference /\ WalkMissesNothing
  BY DEF Inv
\* Steps at rest that leave the walk alone: only the queue's own parts matter.
<1>a. ASSUME op = "idle", UNCHANGED walk, TypeOK', ListSorted', LevelsPrepared',
             QueuedWhereItBelongs'
      PROVE  Inv'
  <2>1. popped = NoThread
    BY <1>0, <1>a, IdleNothingPopped
  <2>2. WalkState' /\ NoNullDereference' /\ WalkMissesNothing'
    BY <1>a, <2>1 DEF walk, WalkState, NoNullDereference, WalkMissesNothing, Walking
  <2> QED BY <1>a, <2>2 DEF Inv
<1>1. ASSUME NEW t \in Threads, NEW p \in Levels, CreateThread(t, p) PROVE Inv'
  <2>1. /\ op = "idle" /\ status[t] = "absent" /\ Prepare(p)
        /\ data' = push_back(data, p, t)
        /\ status' = [status EXCEPT ![t] = "Ready"]
        /\ current_priority' = [current_priority EXCEPT ![t] = p]
        /\ current_thread' = current_thread
        /\ UNCHANGED walk
    BY <1>1 DEF CreateThread
  <2>2. popped = NoThread /\ popped' = NoThread
    BY <1>0, <2>1, IdleNothingPopped DEF walk
  <2>3. /\ first' \in Levels \cup {Null}
        /\ next_nonempty' \in [Levels -> Levels \cup {Null, UnlinkedTag}]
        /\ ListSorted' /\ IsLinked(p)'
        /\ \A q \in Levels : IsLinked(q) => IsLinked(q)'
    BY <1>0, <2>1, PrepareKeepsOrder
  <2>4. data' \in [Levels -> Seq(Threads)] /\ \A q \in Levels : q # p => data'[q] = data[q]
    BY <1>0, <2>1, QueueOps DEF TypeOK
  <2>5. TypeOK'
    BY <1>0, <2>1, <2>3, <2>4 DEF TypeOK, walk, Statuses
  <2>6. current_priority'[t] = p /\ \A u \in Threads : u # t =>
          current_priority'[u] = current_priority[u] /\ status'[u] = status[u]
    BY <1>0, <2>1 DEF TypeOK
  <2>7. LevelsPrepared'
    <3>1. \A u \in Threads : status'[u] # "absent" =>
            IsLinked(current_priority[u])' \/
            (status[u] # "absent" /\ current_priority'[u] = current_priority[u])
      BY <2>3, <2>6 DEF IsLinked
    <3> QED BY <1>0, <2>3, <2>4, <3>1, PreparedStays
  <2>8. QueuedWhereItBelongs'
    <3>1. status[t] # "Ready" /\ status'[t] = "Ready"
      BY <1>0, <2>1 DEF TypeOK
    <3> QED BY <1>0, <2>1, <2>2, <2>5, <2>6, <3>1, EnqueueKeepsPlacement
  <2> QED BY <1>a, <2>1, <2>3, <2>5, <2>7, <2>8
<1>2. ASSUME NEW t \in Threads, ResumeFromWait(t) PROVE Inv'
  <2>1. /\ op = "idle" /\ status[t] = "Waiting"
        /\ data' = push_back(data, current_priority[t], t)
        /\ status' = [status EXCEPT ![t] = "Ready"]
        /\ UNCHANGED links /\ current_priority' = current_priority
        /\ current_thread' = current_thread
        /\ UNCHANGED walk
    BY <1>2 DEF ResumeFromWait
  <2>2. popped = NoThread /\ popped' = NoThread
    BY <1>0, <2>1, IdleNothingPopped DEF walk
  <2>3. ListSorted' /\ \A q \in Levels : IsLinked(q) <=> IsLinked(q)'
    BY <1>0, <2>1, LinksUnchanged
  <2>4. /\ current_priority[t] \in Levels
        /\ data' \in [Levels -> Seq(Threads)]
        /\ \A q \in Levels : q # current_priority[t] => data'[q] = data[q]
    <3>1. current_priority[t] \in Levels /\ data \in [Levels -> Seq(Threads)]
      BY <1>0 DEF TypeOK
    <3> QED BY <2>1, <3>1, QueueOps
  <2>5. TypeOK'
    BY <1>0, <2>1, <2>4 DEF TypeOK, walk, links, Statuses
  <2>6. status'[t] = "Ready" /\ \A u \in Threads : u # t => status'[u] = status[u]
    BY <1>0, <2>1 DEF TypeOK
  <2>7. LevelsPrepared'
    <3>1. IsLinked(current_priority[t])
      BY <1>0, <2>1 DEF LevelsPrepared
    <3>2. \A u \in Threads : status'[u] # "absent" => status[u] # "absent"
      BY <2>1, <2>6
    <3>3. \A q \in Levels : data'[q] # <<>> => IsLinked(q)' \/ data[q] # <<>>
      BY <2>3, <2>4, <3>1
    <3> QED BY <1>0, <2>1, <2>3, <3>2, <3>3, PreparedStays
  <2>8. QueuedWhereItBelongs'
    BY <1>0, <2>1, <2>2, <2>5, <2>6, EnqueueKeepsPlacement
  <2> QED BY <1>a, <2>1, <2>3, <2>5, <2>7, <2>8
<1>3. ASSUME Block PROVE Inv'
  <2>1. /\ op = "idle" /\ current_thread \in Threads /\ status[current_thread] = "Running"
        /\ status' = [status EXCEPT ![current_thread] = "Waiting"]
        /\ UNCHANGED <<links, data, current_priority, current_thread>>
        /\ UNCHANGED walk
    BY <1>0, <1>3 DEF Block, IsRunning, TypeOK
  <2>3. ListSorted' /\ \A q \in Levels : IsLinked(q) <=> IsLinked(q)'
    BY <1>0, <2>1, LinksUnchanged
  <2>5. TypeOK'
    BY <1>0, <2>1 DEF TypeOK, walk, links, Statuses
  <2>6. status'[current_thread] = "Waiting"
        /\ \A u \in Threads : u # current_thread => status'[u] = status[u]
    BY <1>0, <2>1 DEF TypeOK
  <2>7. LevelsPrepared'
    <3>2. \A u \in Threads : status'[u] # "absent" => status[u] # "absent"
      BY <2>1, <2>6
    <3> QED BY <1>0, <2>1, <2>3, <3>2, PreparedStays
  <2>8. QueuedWhereItBelongs'
    <3>1. \A u \in Threads : status'[u] = "Ready" <=> status[u] = "Ready"
      BY <2>1, <2>6
    <3> QED BY <1>0, <2>1, <3>1 DEF QueuedWhereItBelongs, walk
  <2> QED BY <1>a, <2>1, <2>3, <2>5, <2>7, <2>8
<1>4. ASSUME NEW t \in Threads, Stop(t) PROVE Inv'
  <2>1. /\ op = "idle" /\ status[t] \in {"Ready", "Running", "Waiting"}
        /\ data' = IF status[t] = "Ready" THEN remove(data, current_priority[t], t) ELSE data
        /\ status' = [status EXCEPT ![t] = "Dead"]
        /\ UNCHANGED <<links, current_priority, current_thread>>
        /\ UNCHANGED walk
    BY <1>4 DEF Stop
  <2>2. popped = NoThread /\ popped' = NoThread
    BY <1>0, <2>1, IdleNothingPopped DEF walk
  <2>3. ListSorted' /\ \A q \in Levels : IsLinked(q) <=> IsLinked(q)'
    BY <1>0, <2>1, LinksUnchanged
  <2>4. status'[t] = "Dead" /\ \A u \in Threads : u # t => status'[u] = status[u]
    BY <1>0, <2>1 DEF TypeOK
  <2>5. data' \in [Levels -> Seq(Threads)]
        /\ \A q \in Levels : q = current_priority[t] \/ data'[q] = data[q]
    <3>1. current_priority[t] \in Levels /\ data \in [Levels -> Seq(Threads)]
      BY <1>0 DEF TypeOK
    <3> QED BY <2>1, <3>1, QueueOps
  <2>6. TypeOK'
    BY <1>0, <2>1, <2>5 DEF TypeOK, walk, links, Statuses
  <2>7. LevelsPrepared'
    <3>1. IsLinked(current_priority[t])
      BY <1>0, <2>1 DEF LevelsPrepared
    <3>2. \A u \in Threads : status'[u] # "absent" => status[u] # "absent"
      BY <2>1, <2>4
    <3>3. \A q \in Levels : data'[q] # <<>> => IsLinked(q)' \/ data[q] # <<>>
      BY <2>3, <2>5, <3>1
    <3> QED BY <1>0, <2>1, <2>3, <3>2, <3>3, PreparedStays
  <2>8. QueuedWhereItBelongs'
    <3> SUFFICES ASSUME NEW q \in Levels
                 PROVE  /\ NoDuplicates(data'[q])
                        /\ \A u \in Threads : u \in ToSet(data'[q]) <=>
                              status'[u] = "Ready" /\ current_priority'[u] = q
      BY <2>2, NoThreadAssumption DEF QueuedWhereItBelongs
    <3>1. CASE status[t] = "Ready"
      <4>1. /\ NoDuplicates(data'[q])
            /\ \A u \in Threads : u \in ToSet(data'[q]) <=>
                  u # t /\ status[u] = "Ready" /\ current_priority[u] = q
        BY <1>0, <2>1, <2>2, <3>1, RemoveKeepsPlacement
      <4> QED BY <2>1, <2>4, <4>1
    <3>2. CASE status[t] # "Ready"
      <4>1. /\ NoDuplicates(data[q])
            /\ \A u \in Threads : u \in ToSet(data[q]) <=>
                  status[u] = "Ready" /\ current_priority[u] = q
        BY <1>0, <2>2, NoThreadAssumption DEF QueuedWhereItBelongs
      <4> QED BY <2>1, <2>4, <3>2, <4>1
    <3> QED BY <3>1, <3>2
  <2> QED BY <1>a, <2>1, <2>3, <2>6, <2>7, <2>8
<1>5. ASSUME NEW t \in Threads, NEW p \in Levels, BoostPriority(t, p) PROVE Inv'
  <2> DEFINE left == remove(data, current_priority[t], t)
  <2>1. /\ op = "idle" /\ status[t] # "absent" /\ Prepare(p)
        /\ data' = IF status[t] = "Ready" THEN push_back(left, p, t) ELSE data
        /\ current_priority' = [current_priority EXCEPT ![t] = p]
        /\ status' = status /\ current_thread' = current_thread
        /\ UNCHANGED walk
    BY <1>5 DEF BoostPriority, move
  <2>2. popped = NoThread /\ popped' = NoThread
    BY <1>0, <2>1, IdleNothingPopped DEF walk
  <2>3. /\ first' \in Levels \cup {Null}
        /\ next_nonempty' \in [Levels -> Levels \cup {Null, UnlinkedTag}]
        /\ ListSorted' /\ IsLinked(p)'
        /\ \A q \in Levels : IsLinked(q) => IsLinked(q)'
    BY <1>0, <2>1, PrepareKeepsOrder
  <2>4. left \in [Levels -> Seq(Threads)]
        /\ \A q \in Levels : q = current_priority[t] \/ left[q] = data[q]
    <3>1. current_priority[t] \in Levels /\ data \in [Levels -> Seq(Threads)]
      BY <1>0 DEF TypeOK
    <3> QED BY <3>1, QueueOps
  <2> HIDE DEF left
  <2>5. data' \in [Levels -> Seq(Threads)]
        /\ \A q \in Levels : q = current_priority[t] \/ q = p \/ data'[q] = data[q]
    <3>1. push_back(left, p, t) \in [Levels -> Seq(Threads)]
          /\ \A q \in Levels : q # p => push_back(left, p, t)[q] = left[q]
      BY <2>4, QueueOps
    <3> QED BY <1>0, <2>1, <2>4, <3>1 DEF TypeOK
  <2>6. TypeOK'
    BY <1>0, <2>1, <2>3, <2>5 DEF TypeOK, walk
  <2>7. current_priority'[t] = p
        /\ \A u \in Threads : u # t => current_priority'[u] = current_priority[u]
    BY <1>0, <2>1 DEF TypeOK
  <2>8. LevelsPrepared'
    <3>1. IsLinked(current_priority[t])' \/ current_priority[t] \notin Levels
      BY <1>0, <2>1, <2>3 DEF LevelsPrepared, IsLinked
    <3>2. \A u \in Threads : status'[u] # "absent" =>
            IsLinked(current_priority[u])' \/
            (status[u] # "absent" /\ current_priority'[u] = current_priority[u])
      BY <2>1, <2>3, <2>7 DEF IsLinked
    <3>3. \A q \in Levels : data'[q] # <<>> => IsLinked(q)' \/ data[q] # <<>>
      <4>1. IsLinked(current_priority[t]) /\ current_priority[t] \in Levels
        BY <1>0, <2>1 DEF LevelsPrepared, TypeOK
      <4>2. \A q \in Levels : q = current_priority[t] => IsLinked(q)'
        BY <2>3, <4>1
      <4> QED BY <2>3, <2>5, <4>2
    <3> QED BY <1>0, <2>3, <3>2, <3>3, PreparedStays
  <2>9. QueuedWhereItBelongs'
    <3> SUFFICES ASSUME NEW q \in Levels
                 PROVE  /\ NoDuplicates(data'[q])
                        /\ \A u \in Threads : u \in ToSet(data'[q]) <=>
                              status'[u] = "Ready" /\ current_priority'[u] = q
      BY <2>2, NoThreadAssumption DEF QueuedWhereItBelongs
    <3>1. CASE status[t] = "Ready"
      <4>1. /\ NoDuplicates(left[q])
            /\ \A u \in Threads : u \in ToSet(left[q]) <=>
                  u # t /\ status[u] = "Ready" /\ current_priority[u] = q
        BY <1>0, <2>2, <3>1, RemoveKeepsPlacement DEF left
      <4>2. CASE q = p
        <5>1. data'[q] = Append(left[q], t) /\ left[q] \in Seq(Threads)
          BY <2>1, <2>4, <3>1, <4>2, QueueOps
        <5>2. NoDuplicates(data'[q]) /\ ToSet(data'[q]) = ToSet(left[q]) \cup {t}
          BY <4>1, <5>1, AppendFacts
        <5> QED BY <2>1, <2>7, <3>1, <4>1, <4>2, <5>2
      <4>3. CASE q # p
        <5>1. data'[q] = left[q]
          BY <2>1, <2>4, <3>1, <4>3, QueueOps
        <5> QED BY <2>1, <2>7, <3>1, <4>1, <4>3, <5>1
      <4> QED BY <4>2, <4>3
    <3>2. CASE status[t] # "Ready"
      <4>1. /\ NoDuplicates(data[q])
            /\ \A u \in Threads : u \in ToSet(data[q]) <=>
                  status[u] = "Ready" /\ current_priority[u] = q
        BY <1>0, <2>2, NoThreadAssumption DEF QueuedWhereItBelongs
      <4> QED BY <2>1, <2>7, <3>2, <4>1
    <3> QED BY <3>1, <3>2
  <2> QED BY <1>a, <2>1, <2>3, <2>6, <2>8, <2>9
\* The walk: links, statuses and priorities do not change.
<1>b. ASSUME UNCHANGED <<links, status, current_priority>>, TypeOK',
             \A q \in Levels : data'[q] # <<>> => data[q] # <<>>
      PROVE  /\ ListSorted' /\ LevelsPrepared'
             /\ \A q \in Levels : IsLinked(q) <=> IsLinked(q)'
  <2>1. ListSorted' /\ \A q \in Levels : IsLinked(q) <=> IsLinked(q)'
    BY <1>0, <1>b, LinksUnchanged
  <2>2. LevelsPrepared'
    BY <1>0, <1>b, <2>1, PreparedStays
  <2> QED BY <2>1, <2>2
\* The first level of the list: everything before it is empty, and a running
\* thread's level is on the list.
<1>c. /\ first # Null => IsLinked(first)
      /\ \A q \in Levels : first = Null \/ q < first => data[q] = <<>>
      /\ IsRunning => first # Null
  <2>1. IsSuccessor(first, -1)
    BY <1>0 DEF ListSorted
  <2>2. \A q \in Levels : -1 < q
    BY LevelsAssumption DEF Levels
  <2>3. \A q \in Levels : first = Null \/ q < first => ~IsLinked(q)
    BY <2>1, <2>2 DEF IsSuccessor
  <2>4. IsRunning => current_priority[current_thread] \in Levels
                     /\ IsLinked(current_priority[current_thread])
    BY <1>0 DEF IsRunning, LevelsPrepared, TypeOK
  <2> QED BY <1>0, <2>1, <2>3, <2>4 DEF IsSuccessor, LevelsPrepared
<1>6. ASSUME StartPop PROVE Inv'
  <2>1. /\ op = "idle" /\ cur' = first
        /\ op' = IF IsRunning THEN "pop_first_better" ELSE "pop_first"
        /\ UNCHANGED <<links, status, current_priority>>
        /\ data' = data /\ current_thread' = current_thread /\ popped' = popped
    BY <1>6 DEF StartPop
  <2>2. TypeOK'
    BY <1>0, <2>1 DEF TypeOK, links, Ops
  <2>3. ListSorted' /\ LevelsPrepared' /\ \A q \in Levels : IsLinked(q) <=> IsLinked(q)'
    BY <1>b, <2>1, <2>2
  <2>4. QueuedWhereItBelongs'
    BY <1>0, <2>1 DEF QueuedWhereItBelongs
  <2>5. popped = NoThread
    BY <1>0, <2>1, IdleNothingPopped
  <2>6. WalkState' /\ NoNullDereference' /\ WalkMissesNothing'
    <3>1. IsRunning' <=> IsRunning
      BY <2>1 DEF IsRunning
    <3>2. cur' # Null => IsLinked(cur)'
      BY <1>c, <2>1 DEF IsLinked, links
    <3>3. WalkState'
      BY <2>1, <2>5, <3>1, <3>2 DEF WalkState
    <3> QED BY <1>c, <2>1, <3>3 DEF NoNullDereference, WalkMissesNothing
  <2> QED BY <2>2, <2>3, <2>4, <2>6 DEF Inv
<1>7. ASSUME StartGetFirst PROVE Inv'
  <2>1. /\ op = "idle" /\ cur' = first /\ op' = "get_first" /\ IsRunning
        /\ UNCHANGED <<links, status, current_priority>>
        /\ data' = data /\ current_thread' = current_thread /\ popped' = popped
    BY <1>7 DEF StartGetFirst
  <2>2. TypeOK'
    BY <1>0, <2>1 DEF TypeOK, links, Ops
  <2>3. ListSorted' /\ LevelsPrepared' /\ \A q \in Levels : IsLinked(q) <=> IsLinked(q)'
    BY <1>b, <2>1, <2>2
  <2>4. QueuedWhereItBelongs'
    BY <1>0, <2>1 DEF QueuedWhereItBelongs
  <2>5. popped = NoThread
    BY <1>0, <2>1, IdleNothingPopped
  <2>6. WalkState' /\ NoNullDereference' /\ WalkMissesNothing'
    <3>1. IsRunning'
      BY <2>1 DEF IsRunning
    <3>2. cur' # Null => IsLinked(cur)'
      BY <1>c, <2>1 DEF IsLinked, links
    <3>3. WalkState'
      BY <2>1, <2>5, <3>1, <3>2 DEF WalkState
    <3> QED BY <1>c, <2>1, <3>3 DEF NoNullDereference, WalkMissesNothing
  <2> QED BY <2>2, <2>3, <2>4, <2>6 DEF Inv
<1>8. ASSUME Advance PROVE Inv'
  <2>1. /\ op \in Walking /\ InLoop /\ cur # Null /\ data[cur] = <<>>
        /\ cur' = next_nonempty[cur] /\ op' = op
        /\ UNCHANGED <<links, status, current_priority>>
        /\ data' = data /\ current_thread' = current_thread /\ popped' = popped
    BY <1>8 DEF Advance, Walking
  <2>2. cur \in Levels /\ IsLinked(cur) /\ IsSuccessor(next_nonempty[cur], cur)
    BY <1>0, <2>1 DEF TypeOK, WalkState, ListSorted
  <2>3. cur' # Null => cur' \in Levels /\ cur < cur' /\ IsLinked(next_nonempty[cur])
    BY <2>1, <2>2 DEF IsSuccessor
  <2>4. TypeOK'
    BY <1>0, <2>1, <2>3 DEF TypeOK, links
  <2>5. ListSorted' /\ LevelsPrepared' /\ \A q \in Levels : IsLinked(q) <=> IsLinked(q)'
    BY <1>b, <2>1, <2>4
  <2>6. QueuedWhereItBelongs'
    BY <1>0, <2>1 DEF QueuedWhereItBelongs
  <2>7. WalkState'
    <3>1. IsRunning' <=> IsRunning
      BY <2>1 DEF IsRunning
    <3>2. cur' # Null => IsLinked(cur)'
      BY <2>1, <2>3, <2>5 DEF IsLinked, links
    <3> QED BY <1>0, <2>1, <3>1, <3>2 DEF WalkState
  <2>8. NoNullDereference'
    <3>1. ASSUME op = "pop_first_better", cur' = Null PROVE FALSE
      <4>1. current_priority[current_thread] \in Levels
            /\ IsLinked(current_priority[current_thread])
        BY <1>0, <3>1 DEF WalkState, IsRunning, LevelsPrepared, TypeOK
      <4>2. cur < current_priority[current_thread]
        BY <2>1, <3>1 DEF InLoop
      <4> QED BY <2>1, <2>2, <3>1, <4>1, <4>2 DEF IsSuccessor
    <3> QED BY <2>1, <3>1 DEF NoNullDereference
  <2>9. WalkMissesNothing'
    <3>1. ASSUME NEW q \in Levels, cur' = Null \/ q < cur' PROVE data[q] = <<>>
      <4>1. CASE q < cur
        BY <1>0, <2>1, <4>1 DEF WalkMissesNothing, Walking
      <4>2. CASE q = cur
        BY <2>1, <4>2
      <4>3. CASE cur < q
        <5>1. ~IsLinked(q)
          BY <2>1, <2>2, <3>1, <4>3 DEF IsSuccessor
        <5> QED BY <1>0, <5>1 DEF LevelsPrepared
      <4>4. q < cur \/ q = cur \/ cur < q
        BY <2>2, LevelsAssumption DEF Levels
      <4> QED BY <4>1, <4>2, <4>3, <4>4
    <3> QED BY <2>1, <3>1 DEF WalkMissesNothing
  <2> QED BY <2>4, <2>5, <2>6, <2>7, <2>8, <2>9 DEF Inv
<1>9. ASSUME PopFound PROVE Inv'
  <2>1. /\ op \in Walking /\ cur # Null /\ data[cur] # <<>>
        /\ popped' = Head(data[cur])
        /\ data' = [data EXCEPT ![cur] = Tail(@)]
        /\ op' = "switch" /\ cur' = Null
        /\ UNCHANGED <<links, status, current_priority>>
        /\ current_thread' = current_thread
    BY <1>9 DEF PopFound, Walking
  <2>2. cur \in Levels /\ data[cur] \in Seq(Threads)
    BY <1>0, <2>1 DEF TypeOK
  <2>3. popped = NoThread
    BY <1>0, <2>1 DEF WalkState, Walking
  <2>4. /\ NoDuplicates(data[cur])
        /\ Tail(data[cur]) \in Seq(Threads)
        /\ popped' \in Threads /\ popped' \in ToSet(data[cur])
        /\ ToSet(data[cur]) = ToSet(Tail(data[cur])) \cup {popped'}
        /\ NoDuplicates(Tail(data[cur])) /\ popped' \notin ToSet(Tail(data[cur]))
    BY <1>0, <2>1, <2>2, TailFacts DEF QueuedWhereItBelongs
  <2>5. /\ data' \in [Levels -> Seq(Threads)]
        /\ data'[cur] = Tail(data[cur])
        /\ \A q \in Levels : q # cur => data'[q] = data[q]
    BY <1>0, <2>1, <2>2, <2>4 DEF TypeOK
  <2>6. TypeOK'
    BY <1>0, <2>1, <2>4, <2>5 DEF TypeOK, links, Ops
  <2>7. ListSorted' /\ LevelsPrepared'
    BY <1>b, <2>1, <2>5, <2>6
  <2>8. \A u \in Threads, q \in Levels : u \in ToSet(data[q]) <=>
           status[u] = "Ready" /\ current_priority[u] = q
    BY <1>0, <2>3, NoThreadAssumption DEF QueuedWhereItBelongs
  <2>9. QueuedWhereItBelongs'
    <3> SUFFICES ASSUME NEW q \in Levels
                 PROVE  /\ NoDuplicates(data'[q])
                        /\ \A u \in Threads : u \in ToSet(data'[q]) <=>
                              status[u] = "Ready" /\ current_priority[u] = q /\ popped' # u
      BY <2>1 DEF QueuedWhereItBelongs
    <3>1. CASE q = cur
      BY <2>4, <2>5, <2>8, <3>1
    <3>2. CASE q # cur
      <4>1. NoDuplicates(data[q]) /\ popped' \notin ToSet(data[q])
        BY <1>0, <2>2, <2>4, <2>8, <3>2 DEF QueuedWhereItBelongs
      <4> QED BY <2>5, <2>8, <3>2, <4>1
    <3> QED BY <3>1, <3>2
  <2>10. WalkState' /\ NoNullDereference' /\ WalkMissesNothing'
    BY <2>1, <2>2, <2>4, <2>8 DEF WalkState, NoNullDereference, WalkMissesNothing, Walking
  <2> QED BY <2>6, <2>7, <2>9, <2>10 DEF Inv
<1>10. ASSUME PopNone PROVE Inv'
  <2>1. /\ op \in Walking /\ popped' = NoThread /\ data' = data
        /\ op' = "switch" /\ cur' = Null
        /\ UNCHANGED <<links, status, current_priority>>
        /\ current_thread' = current_thread
    BY <1>10 DEF PopNone, Walking
  <2>2. popped = NoThread
    BY <1>0, <2>1 DEF WalkState, Walking
  <2>3. TypeOK'
    BY <1>0, <2>1 DEF TypeOK, links, Ops
  <2>4. ListSorted' /\ LevelsPrepared'
    BY <1>b, <2>1, <2>3
  <2>5. QueuedWhereItBelongs'
    BY <1>0, <2>1, <2>2 DEF QueuedWhereItBelongs
  <2>6. WalkState' /\ NoNullDereference' /\ WalkMissesNothing'
    BY <2>1 DEF WalkState, NoNullDereference, WalkMissesNothing, Walking
  <2> QED BY <2>3, <2>4, <2>5, <2>6 DEF Inv
<1>11. ASSUME GetFirstFound PROVE Inv'
  <2>1. /\ op = "get_first" /\ current_thread \in Threads /\ status[current_thread] = "Running"
        /\ status' = [status EXCEPT ![current_thread] = "Waiting"]
        /\ UNCHANGED <<links, data, current_priority, current_thread, popped>>
        /\ op' = "idle" /\ cur' = Null
    BY <1>0, <1>11 DEF GetFirstFound, WalkState, IsRunning, TypeOK
  <2>2. popped = NoThread
    BY <1>0, <2>1 DEF WalkState
  <2>3. ListSorted' /\ \A q \in Levels : IsLinked(q) <=> IsLinked(q)'
    BY <1>0, <2>1, LinksUnchanged
  <2>4. TypeOK'
    BY <1>0, <2>1 DEF TypeOK, links, Statuses, Ops
  <2>5. status'[current_thread] = "Waiting"
        /\ \A u \in Threads : u # current_thread => status'[u] = status[u]
    BY <1>0, <2>1 DEF TypeOK
  <2>6. LevelsPrepared'
    <3>1. \A u \in Threads : status'[u] # "absent" => status[u] # "absent"
      BY <2>1, <2>5
    <3> QED BY <1>0, <2>1, <2>3, <3>1, PreparedStays
  <2>7. QueuedWhereItBelongs'
    <3>1. \A u \in Threads : status'[u] = "Ready" <=> status[u] = "Ready"
      BY <2>1, <2>5
    <3> QED BY <1>0, <2>1, <3>1 DEF QueuedWhereItBelongs
  <2>8. WalkState' /\ NoNullDereference' /\ WalkMissesNothing'
    BY <2>1, <2>2 DEF WalkState, NoNullDereference, WalkMissesNothing, Walking
  <2> QED BY <2>3, <2>4, <2>6, <2>7, <2>8 DEF Inv
<1>12. ASSUME GetFirstNone PROVE Inv'
  <2>1. /\ op = "get_first" /\ op' = "idle"
        /\ UNCHANGED <<links, status, current_priority>>
        /\ UNCHANGED <<data, current_thread, cur, popped>>
    BY <1>12 DEF GetFirstNone
  <2>2. popped = NoThread
    BY <1>0, <2>1 DEF WalkState
  <2>3. TypeOK'
    BY <1>0, <2>1 DEF TypeOK, links, Ops
  <2>4. ListSorted' /\ LevelsPrepared'
    BY <1>b, <2>1, <2>3
  <2>5. QueuedWhereItBelongs'
    BY <1>0, <2>1 DEF QueuedWhereItBelongs
  <2>6. WalkState' /\ NoNullDereference' /\ WalkMissesNothing'
    BY <2>1, <2>2 DEF WalkState, NoNullDereference, WalkMissesNothing, Walking
  <2> QED BY <2>3, <2>4, <2>5, <2>6 DEF Inv
<1>13. ASSUME SwitchContext PROVE Inv'
  <2>1. /\ op = "switch" /\ popped # NoThread
        /\ status' = [t \in Threads |->
                        IF t = popped THEN "Running"
                        ELSE IF t = current_thread /\ IsRunning THEN "Ready"
                        ELSE status[t]]
        /\ current_thread' = popped
        /\ op' = "idle" /\ popped' = NoThread
        /\ UNCHANGED <<links, current_priority, cur>>
    BY <1>13 DEF SwitchContext
  <2>2. /\ popped \in Threads /\ status[popped] = "Ready"
        /\ IsRunning => /\ current_thread \in Threads /\ current_thread # popped
                        /\ data' = push_front(data, current_priority[current_thread], current_thread)
        /\ ~IsRunning => data' = data
    BY <1>13, SwitchData
  <2> DEFINE p == current_priority[current_thread]
  <2>3. IsRunning => p \in Levels /\ status[current_thread] = "Running"
    BY <1>0, <2>2 DEF TypeOK, IsRunning
  <2>4. data \in [Levels -> Seq(Threads)]
    BY <1>0 DEF TypeOK
  <2>a. ASSUME IsRunning
        PROVE  /\ data' \in [Levels -> Seq(Threads)]
               /\ data'[p] = PushFront(data[p], current_thread)
               /\ \A q \in Levels : q # p => data'[q] = data[q]
    <3>1. current_thread \in Threads /\ p \in Levels /\ data' = push_front(data, p, current_thread)
      BY <2>2, <2>3, <2>a
    <3> HIDE DEF p
    <3> QED BY <2>4, <3>1, QueueOps
  <2>5. data' \in [Levels -> Seq(Threads)]
    BY <2>2, <2>4, <2>a
  <2>6. TypeOK'
    BY <1>0, <2>1, <2>2, <2>5 DEF TypeOK, links, Statuses, Ops
  <2>7. ListSorted' /\ \A q \in Levels : IsLinked(q) <=> IsLinked(q)'
    BY <1>0, <2>1, LinksUnchanged
  <2>8. LevelsPrepared'
    <3>1. \A u \in Threads : status'[u] # "absent" => status[u] # "absent"
      BY <2>1, <2>2, <2>3
    <3>2. \A q \in Levels : data'[q] # <<>> => IsLinked(q)' \/ data[q] # <<>>
      <4>1. CASE IsRunning
        <5>1. IsLinked(p)
          BY <1>0, <2>2, <2>3, <4>1 DEF LevelsPrepared
        <5>2. \A q \in Levels : q # p => data'[q] = data[q]
          BY <2>a, <4>1
        <5> HIDE DEF p
        <5> QED BY <2>7, <5>1, <5>2
      <4>2. CASE ~IsRunning
        BY <2>2, <4>2
      <4> QED BY <4>1, <4>2
    <3> QED BY <1>0, <2>1, <2>7, <3>1, <3>2, PreparedStays
  <2>9. QueuedWhereItBelongs'
    <3> SUFFICES ASSUME NEW q \in Levels
                 PROVE  /\ NoDuplicates(data'[q])
                        /\ \A u \in Threads : u \in ToSet(data'[q]) <=>
                              status'[u] = "Ready" /\ current_priority[u] = q
      BY <2>1, NoThreadAssumption DEF QueuedWhereItBelongs
    <3>1. /\ NoDuplicates(data[q]) /\ data[q] \in Seq(Threads)
          /\ \A u \in Threads : u \in ToSet(data[q]) <=>
                status[u] = "Ready" /\ current_priority[u] = q /\ popped # u
      BY <1>0, <2>4 DEF QueuedWhereItBelongs
    <3>2. CASE ~IsRunning
      <4>1. \A u \in Threads : status'[u] = "Ready" <=> status[u] = "Ready" /\ popped # u
        BY <2>1, <3>2
      <4> QED BY <2>2, <3>1, <3>2, <4>1
    <3>3. CASE IsRunning
      <4>1. \A u \in Threads : status'[u] = "Ready" <=>
              u = current_thread \/ (status[u] = "Ready" /\ popped # u)
        BY <2>1, <2>2, <2>3, <3>3
      <4>2. current_thread \notin ToSet(data[q])
        BY <2>2, <2>3, <3>1, <3>3
      <4>3. CASE q = p
        <5>1. data'[q] = PushFront(data[q], current_thread)
          BY <2>a, <3>3, <4>3
        <5>2. NoDuplicates(data'[q]) /\ ToSet(data'[q]) = ToSet(data[q]) \cup {current_thread}
          <6>1. current_thread \in Threads
            BY <2>2, <3>3
          <6>2. NoDuplicates(data[q]) /\ data[q] \in Seq(Threads)
            BY <3>1
          <6>3. /\ NoDuplicates(PushFront(data[q], current_thread))
                /\ ToSet(PushFront(data[q], current_thread)) = ToSet(data[q]) \cup {current_thread}
            BY <4>2, <6>1, <6>2, PushFrontFacts
          <6> QED BY <5>1, <6>3
        <5> QED BY <3>1, <4>1, <4>3, <5>2
      <4>4. CASE q # p
        <5>1. data'[q] = data[q]
          BY <2>a, <3>3, <4>4
        <5> QED BY <3>1, <4>1, <4>4, <5>1
      <4> QED BY <4>3, <4>4
    <3> QED BY <3>2, <3>3
  <2>10. WalkState' /\ NoNullDereference' /\ WalkMissesNothing'
    BY <2>1 DEF WalkState, NoNullDereference, WalkMissesNothing, Walking
  <2> QED BY <2>6, <2>7, <2>8, <2>9, <2>10 DEF Inv
<1>14. ASSUME KeepCurrent PROVE Inv'
  <2>1. /\ op = "switch" /\ popped = NoThread /\ op' = "idle"
        /\ current_thread' \in {current_thread, NoThread}
        /\ UNCHANGED <<links, status, current_priority>>
        /\ UNCHANGED <<data, cur, popped>>
    BY <1>14 DEF KeepCurrent
  <2>2. TypeOK'
    BY <1>0, <2>1 DEF TypeOK, links, Ops
  <2>3. ListSorted' /\ LevelsPrepared'
    BY <1>b, <2>1, <2>2
  <2>4. QueuedWhereItBelongs'
    BY <1>0, <2>1 DEF QueuedWhereItBelongs
  <2>5. WalkState' /\ NoNullDereference' /\ WalkMissesNothing'
    BY <2>1 DEF WalkState, NoNullDereference, WalkMissesNothing, Walking
  <2> QED BY <2>2, <2>3, <2>4, <2>5 DEF Inv
<1>15. ASSUME UNCHANGED vars PROVE Inv'
  <2>1. /\ UNCHANGED <<links, status, current_priority>>
        /\ UNCHANGED <<data, current_thread, op, cur, popped>>
    BY <1>15 DEF vars, links
  <2>2. TypeOK'
    BY <1>0, <2>1 DEF TypeOK, links
  <2>3. ListSorted' /\ LevelsPrepared'
    BY <1>b, <2>1, <2>2
  <2>4. QueuedWhereItBelongs'
    BY <1>0, <2>1 DEF QueuedWhereItBelongs
  <2>5. WalkState' /\ NoNullDereference' /\ WalkMissesNothing'
    BY <1>0, <2>1 DEF WalkState, NoNullDereference, WalkMissesNothing, IsRunning, IsLinked, links
  <2> QED BY <2>2, <2>3, <2>4, <2>5 DEF Inv
<1> QED
  BY <1>1, <1>2, <1>3, <1>4, <1>5, <1>6, <1>7, <1>8, <1>9, <1>10, <1>11, <1>12, <1>13,
     <1>14, <1>15 DEF Next

\* Every state of every execution satisfies the invariant.
THEOREM Invariance == Spec => []Inv
<1>1. Init => Inv
  BY InvInit
<1>2. Inv /\ [Next]_vars => Inv'
  BY InvNext
<1> QED BY <1>1, <1>2, PTL DEF Spec

\* Type correctness: pointers into the array of levels stay inside it.
THEOREM TypeCorrect == Spec => []TypeOK
<1>1. Inv => TypeOK
  BY DEF Inv
<1> QED BY <1>1, Invariance, PTL

\* pop_first_better never follows the null pointer, whatever the order in
\* which threads are created, boosted, blocked and woken.
THEOREM NoNullPop == Spec => []NoNullDereference
<1>1. Inv => NoNullDereference
  BY DEF Inv
<1> QED BY <1>1, Invariance, PTL

\* A thread is queued exactly when it is Ready, once, at its own level.
THEOREM Placement == Spec => []QueuedWhereItBelongs
<1>1. Inv => QueuedWhereItBelongs
  BY DEF Inv
<1> QED BY <1>1, Invariance, PTL

\* No loop passes a level that holds a thread: what pop_first, pop_first_better
\* and get_first return is the best there is, on a list of any length.
THEOREM WalkMissesNothingTheorem == Spec => []WalkMissesNothing
<1>1. Inv => WalkMissesNothing
  BY DEF Inv
<1> QED BY <1>1, Invariance, PTL

-----------------------------------------------------------------------------
\* Every step of the list is a step of the priority queue, or one it does not
\* see (a walk past an empty level, the linking of a level).
LEMMA StepSimulation == Inv /\ [Next]_vars => [PQ!Next]_(PQ!vars)
<1> SUFFICES ASSUME Inv, [Next]_vars PROVE PQ!Next \/ UNCHANGED PQ!vars
  OBVIOUS
<1>0. /\ TypeOK /\ ListSorted /\ LevelsPrepared /\ QueuedWhereItBelongs
      /\ WalkState /\ NoNullDereference /\ WalkMissesNothing
  BY DEF Inv
<1>l. Levels = PQ!Levels
  BY DEF Levels, PQ!Levels
<1>r. IsRunning = PQ!IsRunning
  BY DEF IsRunning, PQ!IsRunning
<1>1. ASSUME NEW t \in Threads, NEW p \in Levels, CreateThread(t, p) PROVE PQ!Next
  <2>1. PQ!CreateThread(t, p)
    BY <1>1 DEF CreateThread, PQ!CreateThread, push_back, walk
  <2> QED BY <1>l, <2>1 DEF PQ!Next
<1>2. ASSUME NEW t \in Threads, ResumeFromWait(t) PROVE PQ!Next
  <2>1. PQ!ResumeFromWait(t)
    BY <1>2 DEF ResumeFromWait, PQ!ResumeFromWait, push_back, walk
  <2> QED BY <2>1 DEF PQ!Next
<1>3. ASSUME Block PROVE PQ!Next
  <2>1. PQ!Block
    BY <1>3, <1>r DEF Block, PQ!Block, walk
  <2> QED BY <2>1 DEF PQ!Next
<1>4. ASSUME NEW t \in Threads, Stop(t) PROVE PQ!Next
  <2>1. PQ!Stop(t)
    BY <1>4 DEF Stop, PQ!Stop, remove, walk, Without, PQ!Without, RemoveAt, PQ!RemoveAt
  <2> QED BY <2>1 DEF PQ!Next
<1>5. ASSUME NEW t \in Threads, NEW p \in Levels, BoostPriority(t, p) PROVE PQ!Next
  <2>1. PQ!BoostPriority(t, p)
    BY <1>5 DEF BoostPriority, PQ!BoostPriority, move, push_back, remove, walk,
                Without, PQ!Without, RemoveAt, PQ!RemoveAt
  <2> QED BY <1>l, <2>1 DEF PQ!Next
<1>6. ASSUME StartPop PROVE PQ!Next
  <2>1. PQ!StartPop
    BY <1>6, <1>r DEF StartPop, PQ!StartPop
  <2> QED BY <2>1 DEF PQ!Next
<1>7. ASSUME StartGetFirst PROVE PQ!Next
  <2>1. PQ!StartGetFirst
    BY <1>7, <1>r DEF StartGetFirst, PQ!StartGetFirst
  <2> QED BY <2>1 DEF PQ!Next
<1>8. ASSUME Advance PROVE UNCHANGED PQ!vars
  BY <1>8 DEF Advance, PQ!vars
<1>9. ASSUME PopFound PROVE PQ!Next
  <2>1. /\ op \in {"pop_first", "pop_first_better"} /\ InLoop /\ cur # Null
        /\ data[cur] # <<>> /\ cur \in Levels
    BY <1>0, <1>9 DEF PopFound, TypeOK
  <2>2. cur < PQ!Limit
    <3>1. CASE op = "pop_first_better"
      BY <2>1, <3>1 DEF InLoop, PQ!Limit
    <3>2. CASE op # "pop_first_better"
      BY <2>1, <3>2, LevelsAssumption DEF PQ!Limit, Levels
    <3> QED BY <3>1, <3>2
  <2>3. PQ!IsBest(cur)
    BY <1>0, <1>l, <2>1, <2>2 DEF PQ!IsBest, WalkMissesNothing
  <2>4. PQ!Pop
    BY <1>9, <1>l, <2>1, <2>3 DEF PopFound, PQ!Pop, PQ!Pops
  <2> QED BY <2>4 DEF PQ!Next
<1>10. ASSUME PopNone PROVE PQ!Next
  <2>1. op \in {"pop_first", "pop_first_better"} /\ ~InLoop
    BY <1>10 DEF PopNone
  <2>2. PQ!NoneBelowLimit
    <3> SUFFICES ASSUME NEW q \in Levels, q < PQ!Limit PROVE data[q] = <<>>
      BY <1>l DEF PQ!NoneBelowLimit
    <3>1. CASE op = "pop_first_better"
      <4>1. /\ cur # Null /\ cur \in Levels
            /\ current_priority[current_thread] \in Levels
        BY <1>0, <3>1 DEF NoNullDereference, TypeOK, WalkState, IsRunning
      <4>2. ~(cur < current_priority[current_thread]) /\ q < current_priority[current_thread]
        BY <2>1, <3>1 DEF InLoop, PQ!Limit
      <4>3. q < cur
        BY <4>1, <4>2, LevelsAssumption DEF Levels
      <4> QED BY <1>0, <3>1, <4>3 DEF WalkMissesNothing
    <3>2. CASE op # "pop_first_better"
      BY <1>0, <2>1, <3>2 DEF InLoop, WalkMissesNothing
    <3> QED BY <3>1, <3>2
  <2>3. PQ!Pop
    BY <1>10, <2>1, <2>2 DEF PopNone, PQ!Pop, PQ!Pops
  <2> QED BY <2>3 DEF PQ!Next
<1>11. ASSUME GetFirstFound PROVE PQ!Next
  <2>1. ~ \A q \in Levels : data[q] = <<>>
    BY <1>0, <1>11 DEF GetFirstFound, TypeOK
  <2>2. PQ!GetFirst
    BY <1>11, <1>l, <2>1 DEF GetFirstFound, PQ!GetFirst
  <2> QED BY <2>2 DEF PQ!Next
<1>12. ASSUME GetFirstNone PROVE PQ!Next
  <2>1. \A q \in Levels : data[q] = <<>>
    BY <1>0, <1>12 DEF GetFirstNone, WalkMissesNothing
  <2>2. PQ!GetFirst
    BY <1>12, <1>l, <2>1 DEF GetFirstNone, PQ!GetFirst
  <2> QED BY <2>2 DEF PQ!Next
<1>13. ASSUME SwitchContext PROVE PQ!Next
  <2>1. /\ IsRunning => data' = push_front(data, current_priority[current_thread], current_thread)
        /\ ~IsRunning => data' = data
    BY <1>13, SwitchData
  <2>2. PQ!SwitchContext
    BY <1>13, <1>r, <2>1 DEF SwitchContext, PQ!SwitchContext, push_front, PushFront, PQ!PushFront
  <2> QED BY <2>2 DEF PQ!Next
<1>14. ASSUME KeepCurrent PROVE PQ!Next
  <2>1. PQ!SwitchContext
    BY <1>14, <1>r DEF KeepCurrent, PQ!SwitchContext
  <2> QED BY <2>1 DEF PQ!Next
<1>15. ASSUME UNCHANGED vars PROVE UNCHANGED PQ!vars
  BY <1>15 DEF vars, PQ!vars
<1> QED
  BY <1>1, <1>2, <1>3, <1>4, <1>5, <1>6, <1>7, <1>8, <1>9, <1>10, <1>11, <1>12, <1>13,
     <1>14, <1>15 DEF Next

\* The linked list of levels implements the priority queue: a pop returns the
\* oldest thread of the best level, and the queue loses nothing.
THEOREM Refinement == Spec => ImplementsPriorityQueue
<1>1. Init => PQ!Init
  <2>1. Levels = PQ!Levels
    BY DEF Levels, PQ!Levels
  <2> QED BY <2>1 DEF Init, PQ!Init
<1>2. Inv /\ [Next]_vars => [PQ!Next]_(PQ!vars)
  BY StepSimulation
<1> QED BY <1>1, <1>2, Invariance, PTL DEF Spec, ImplementsPriorityQueue, PQ!Spec
=============================================================================
