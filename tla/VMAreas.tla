------------------------------ MODULE VMAreas ------------------------------
(***************************************************************************)
(* core/hle/kernel/vm_manager.cpp: the map of areas (VMAs) that stands for *)
(* an address space, and what the calls make of such a map as ranges are   *)
(* mapped, unmapped and changed.  Addresses and sizes are in pages.        *)
(*                                                                         *)
(* An area that is free has the type Free, no permissions and no memory;   *)
(* the type is therefore left out.                                         *)
(***************************************************************************)
EXTENDS Integers, FiniteSetsExt, SequencesExt

CONSTANT MAX_ADDRESS   \* the number of pages

Pages == 0..MAX_ADDRESS - 1

Null == -1

ReadWrite == {"R", "W"}
ReadWriteExecute == {"R", "W", "X"}

FreeArea(size) ==
  [size |-> size, state |-> "Free", permissions |-> {}, backing |-> Null]

\* Reset: a single free area.
EmptyMap == [b \in {0} |-> FreeArea(MAX_ADDRESS)]

-----------------------------------------------------------------------------
\* Splitting and merging.

\* The area in which a page is, or the end of the map.
FindVMA(m, target) ==
  IF target >= MAX_ADDRESS THEN MAX_ADDRESS
  ELSE CHOOSE b \in DOMAIN m : b <= target /\ target < b + m[b].size

\* Mutant: the memory behind the areas is not looked at.
CanBeMergedAnyway(a, next) == a.permissions = next.permissions /\ a.state = next.state

\* CanBeMergedWith: a and the area next after it.
CanBeMergedWith(a, next) ==
  /\ a.permissions = next.permissions /\ a.state = next.state
  /\ a.state # "Free" => next.backing = a.backing + a.size

\* SplitVMA, after offset pages.
SplitVMA(m, b, offset) ==
  LET right == [m[b] EXCEPT !.size = @ - offset,
                            !.backing = IF m[b].state = "Free" THEN @ ELSE @ + offset]
  IN [x \in DOMAIN m \cup {b + offset} |->
        CASE x = b -> [m[b] EXCEPT !.size = offset]
          [] x = b + offset -> right
          [] OTHER -> m[x]]

\* Mutant: the area that was merged is erased and the other does not grow.
MergedLost(m, b, next) == [x \in DOMAIN m \ {next} |-> m[x]]

\* Area next is merged into b, the one before it.
Merged(m, b, next) ==
  [x \in DOMAIN m \ {next} |->
     IF x = b THEN [m[b] EXCEPT !.size = @ + m[next].size] ELSE m[x]]

\* MergeAdjacent: b with its neighbours; the area where b is then.
MergeAdjacent(m, b) ==
  LET next == b + m[b].size
      m1 == IF next \in DOMAIN m /\ CanBeMergedWith(m[b], m[next])
            THEN Merged(m, b, next) ELSE m
      prev == {x \in DOMAIN m1 : x + m1[x].size = b /\ CanBeMergedWith(m1[x], m1[b])}
  IN IF prev = {} THEN [map |-> m1, iter |-> b]
     ELSE LET x == CHOOSE x \in prev : TRUE
          IN [map |-> Merged(m1, x, b), iter |-> x]

\* The map with a split where page p begins, if there is none yet.
SplitAt(m, p) ==
  LET b == FindVMA(m, p)
  IN IF p = MAX_ADDRESS \/ p = b THEN m ELSE SplitVMA(m, b, p - b)

\* The map in which the range begins and ends with an area.
Carved(m, target, size) == SplitAt(SplitAt(m, target), target + size)

\* The areas that a range touches.
Touched(m, target, size) ==
  {b \in DOMAIN m : b < target + size /\ target < b + m[b].size}

\* The loop over the areas of a range: each is changed and merged, and the
\* next one is looked for behind the area that resulted.  changed[b] is what
\* area b becomes: a merge takes areas away but alters none that is still to come.
ForEachArea(m, changed) ==
  LET step(acc, b) ==
        IF b \in DOMAIN acc
        THEN MergeAdjacent([acc EXCEPT ![b] = changed[b]], b).map
        ELSE acc
  IN FoldLeft(step, m, SetToSortSeq(DOMAIN changed, <))

-----------------------------------------------------------------------------
\* The calls, as conditions and results on a map.

\* CarveVMA finds a free area that holds the range.
CanMap(m, target, size) ==
  LET b == FindVMA(m, target) IN
    b # MAX_ADDRESS /\ m[b].state = "Free" /\ target + size <= b + m[b].size

\* MapBackingMemory: the map, and the area that the caller is handed.
AfterMap(m, target, size, backing, state) ==
  LET area == [size |-> size, state |-> state, permissions |-> ReadWrite,
               backing |-> backing]
  IN MergeAdjacent([Carved(m, target, size) EXCEPT ![target] = area], target)

\* The area that MapBackingMemoryToBase picks: the first free one that does
\* not end before the memory would if it were mapped at base.
PickedArea(m, base, size) ==
  LET found == {b \in DOMAIN m : /\ m[b].state = "Free"
                                 /\ b + m[b].size > base /\ b + m[b].size >= base + size}
  IN IF found = {} THEN Null ELSE Min(found)

ToBase(m, base, size) == Max({base, PickedArea(m, base, size)})

CanMapToBase(m, base, region_size, size) ==
  /\ PickedArea(m, base, size) # Null
  /\ ToBase(m, base, size) + size <= base + region_size
  /\ CanMap(m, ToBase(m, base, size), size)

\* CarveVMARange finds nothing free in the range.
IsMappedRange(m, target, size) ==
  \A b \in Touched(m, target, size) : m[b].state # "Free"

\* Mutant: only the first area of the range is unmapped.
AfterUnmapFirst(m, target, size) ==
  LET carved == Carved(m, target, size)
  IN ForEachArea(carved,
       [b \in Touched(carved, target, 1) |-> FreeArea(carved[b].size)])

AfterUnmapRange(m, target, size) ==
  LET carved == Carved(m, target, size)
  IN ForEachArea(carved,
       [b \in Touched(carved, target, size) |-> FreeArea(carved[b].size)])

AfterReprotectRange(m, target, size, permissions) ==
  LET carved == Carved(m, target, size)
  IN ForEachArea(carved,
       [b \in Touched(carved, target, size) |->
          [carved[b] EXCEPT !.permissions = permissions]])

\* Reprotect of a whole area.
AfterReprotect(m, b, permissions) ==
  MergeAdjacent([m EXCEPT ![b].permissions = permissions], b).map

\* What ChangeMemoryState asks of every area of the range.
IsExpected(m, target, size, old) ==
  \A b \in Touched(m, target, size) :
    m[b].state = old.state /\ old.permissions \subseteq m[b].permissions

AfterChange(m, target, size, new) ==
  LET carved == Carved(m, target, size)
  IN ForEachArea(carved,
       [b \in Touched(carved, target, size) |->
          [carved[b] EXCEPT !.permissions = new.permissions, !.state = new.state]])

\* The page of memory behind a page that is mapped.
BackingOf(m, p) == LET b == FindVMA(m, p) IN m[b].backing + (p - b)
=============================================================================
