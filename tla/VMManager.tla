----------------------------- MODULE VMManager -----------------------------
(***************************************************************************)
(* core/hle/kernel/vm_manager.cpp: the address space of a process under    *)
(* the calls that the kernel makes, and a loop over the areas in svc.cpp.  *)
(***************************************************************************)
EXTENDS VMAreas

CONSTANTS
  Calls,         \* the arguments that the kernel's calls pass
  Permissions    \* sets of permissions that are asked for

\* Callers pass ranges that are not empty and lie in the address space.
ASSUME CallsAssumption ==
  \A r \in Calls.ranges \cup Calls.map :
    r.size > 0 /\ r.target >= 0 /\ r.target + r.size <= MAX_ADDRESS

VARIABLES
  vma_map,   \* the areas, by their first page
  reply,     \* what the last call returned
  it         \* the iterator of the loop in svcControlProcess, or Null

vars == <<vma_map, reply, it>>

-----------------------------------------------------------------------------
\* The calls.

Replies(result) == reply' = result /\ UNCHANGED it

Fails == Replies("Failure") /\ UNCHANGED vma_map

MapBackingMemory(target, size, backing, state) ==
  \/ /\ CanMap(vma_map, target, size)
     /\ vma_map' = AfterMap(vma_map, target, size, backing, state).map
     /\ Replies("Success")
  \/ ~CanMap(vma_map, target, size) /\ Fails

MapBackingMemoryToBase(base, region_size, size, backing, state) ==
  LET target == ToBase(vma_map, base, size) IN
    \/ /\ CanMapToBase(vma_map, base, region_size, size)
       /\ vma_map' = AfterMap(vma_map, target, size, backing, state).map
       /\ Replies("Success")
    \/ ~CanMapToBase(vma_map, base, region_size, size) /\ Fails

ChangeMemoryState(target, size, old, new) ==
  \/ /\ IsExpected(vma_map, target, size, old)
     /\ vma_map' = AfterChange(vma_map, target, size, new)
     /\ Replies("Success")
  \/ ~IsExpected(vma_map, target, size, old) /\ Fails

UnmapRange(target, size) ==
  \/ /\ IsMappedRange(vma_map, target, size)
     /\ vma_map' = AfterUnmapRange(vma_map, target, size)
     /\ Replies("Success")
  \/ ~IsMappedRange(vma_map, target, size) /\ Fails

ReprotectRange(target, size, permissions) ==
  \/ /\ IsMappedRange(vma_map, target, size)
     /\ vma_map' = AfterReprotectRange(vma_map, target, size, permissions)
     /\ Replies("Success")
  \/ ~IsMappedRange(vma_map, target, size) /\ Fails

\* Reprotect: a whole area, which a caller has from MapBackingMemory.
Reprotect(b, permissions) ==
  /\ vma_map[b].state # "Free"
  /\ vma_map' = AfterReprotect(vma_map, b, permissions)
  /\ Replies("Success")

-----------------------------------------------------------------------------
\* svcControlProcess(PROCESSOP_SET_MMU_TO_RWX) walks over the map with an
\* iterator of its own while it changes the map.

BeginRWX == it' = 0 /\ reply' = "Success" /\ UNCHANGED vma_map

\* The areas behind page p.
Behind(p) == {b \in DOMAIN vma_map : b > p}

\* The body of the loop.
StepRWX ==
  /\ it # Null /\ reply # "Stepped"
  /\ \/ /\ vma_map[it].state # "Free"
        /\ vma_map' = AfterReprotect(vma_map, it, ReadWriteExecute)
     \/ vma_map[it].state = "Free" /\ UNCHANGED vma_map
  /\ reply' = "Stepped" /\ UNCHANGED it

\* it++.  If the area has been merged into the one before it, the iterator is
\* no longer valid: the loop goes on behind it or ends.
AdvanceRWX ==
  /\ it # Null /\ reply = "Stepped"
  /\ \/ Behind(it) # {} /\ it' = Min(Behind(it))
     \/ (Behind(it) = {} \/ it \notin DOMAIN vma_map) /\ it' = Null
  /\ reply' = "Success" /\ UNCHANGED vma_map

\* The constructor, which resets the map.
Init == vma_map = EmptyMap /\ reply = "Success" /\ it = Null

Next ==
  \/ /\ it = Null
     /\ \/ \E c \in Calls.map : MapBackingMemory(c.target, c.size, c.backing, c.state)
        \/ \E c \in Calls.to_base :
             MapBackingMemoryToBase(c.base, c.region_size, c.size, c.backing, c.state)
        \/ \E c \in Calls.change, r \in Calls.ranges :
             ChangeMemoryState(r.target, r.size, c.old, c.new)
        \/ \E r \in Calls.ranges : UnmapRange(r.target, r.size)
        \/ \E r \in Calls.ranges, permissions \in Permissions :
             ReprotectRange(r.target, r.size, permissions)
        \/ \E b \in DOMAIN vma_map, permissions \in Permissions : Reprotect(b, permissions)
        \/ BeginRWX
  \/ StepRWX
  \/ AdvanceRWX

Spec == Init /\ [][Next]_vars

-----------------------------------------------------------------------------
\* Properties.

\* "elem.base + elem.size == next.base": the areas cover the address space and
\* do not overlap, through every order of splits and merges (SplitVMA,
\* MergeAdjacent).  This is the type of the map too.
AreasTile ==
  /\ 0 \in DOMAIN vma_map /\ DOMAIN vma_map \subseteq Pages
  /\ \A b \in DOMAIN vma_map :
       LET next == b + vma_map[b].size IN
         /\ vma_map[b].size > 0
         /\ next \in DOMAIN vma_map \cup {MAX_ADDRESS}
         /\ \A c \in DOMAIN vma_map : c <= b \/ next <= c

\* What is at a page.
PageAt(p) ==
  LET b == FindVMA(vma_map, p)
      a == vma_map[b]
  IN [state |-> a.state, permissions |-> a.permissions,
      backing |-> IF a.state = "Free" THEN Null ELSE BackingOf(vma_map, p)]

Space == INSTANCE AddressSpace
           WITH space <- [p \in Pages |-> PageAt(p)],
                reply <- IF reply = "Failure" THEN reply ELSE "Success"

\* The map of areas stands for an address space of single pages: every call
\* changes just the pages of its range, and one that fails changes none.
ImplementsAddressSpace == Space!Spec
=============================================================================
