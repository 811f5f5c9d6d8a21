---------------------------- MODULE AddressSpace ----------------------------
(***************************************************************************)
(* What a process sees of its address space: for each page a state, the    *)
(* permissions and the page of memory behind it.  VMManager implements it  *)
(* with a map of areas.                                                    *)
(***************************************************************************)
EXTENDS Integers

CONSTANTS
  MAX_ADDRESS,   \* the number of pages
  Calls,         \* the arguments of the calls that are made, see VMManager
  Permissions    \* sets of permissions that are asked for

VARIABLES
  space,    \* what is at each page
  reply     \* what the last call returned

Pages == 0..MAX_ADDRESS - 1

Null == -1

ReadWrite == {"R", "W"}
ReadWriteExecute == {"R", "W", "X"}

FreePage == [state |-> "Free", permissions |-> {}, backing |-> Null]

\* The pages of a range.
Range(target, size) == target..target + size - 1

IsFree(s, pages) == \A p \in pages : s[p].state = "Free"
IsMapped(s, pages) == \A p \in pages : s[p].state # "Free"

\* Page p and the next one belong together.
Joined(s, p) ==
  /\ p + 1 \in Pages
  /\ s[p].state = s[p + 1].state /\ s[p].permissions = s[p + 1].permissions
  /\ s[p].state # "Free" => s[p + 1].backing = s[p].backing + 1

\* The pages between which nothing changes, with page p among them.
AreaOf(s, p) ==
  {q \in Pages : \A r \in Pages : ((p <= r /\ r < q) \/ (q <= r /\ r < p)) => Joined(s, r)}

\* Memory from page backing on is put behind a range.
Mapped(s, target, size, backing, state, permissions) ==
  [p \in Pages |->
     IF p \in Range(target, size)
     THEN [state |-> state, permissions |-> permissions,
           backing |-> backing + (p - target)]
     ELSE s[p]]

Unmapped(s, pages) == [p \in Pages |-> IF p \in pages THEN FreePage ELSE s[p]]

Reprotected(s, pages, permissions) ==
  [p \in Pages |-> IF p \in pages THEN [s[p] EXCEPT !.permissions = permissions] ELSE s[p]]

\* The state and the permissions that the caller expects are there.
HasState(s, pages, state, permissions) ==
  \A p \in pages : s[p].state = state /\ permissions \subseteq s[p].permissions

Restated(s, pages, state, permissions) ==
  [p \in Pages |-> IF p \in pages
                   THEN [s[p] EXCEPT !.state = state, !.permissions = permissions]
                   ELSE s[p]]

\* Where size free pages begin, from base on and within region_size pages.
Rooms(s, base, region_size, size) ==
  {t \in base..base + region_size - size : IsFree(s, Range(t, size))}

-----------------------------------------------------------------------------
\* The calls, each in one step; a call that fails changes nothing.

Init == space = [p \in Pages |-> FreePage] /\ reply = "Success"

Fails == reply' = "Failure" /\ UNCHANGED space

MapBackingMemory(target, size, backing, state) ==
  \/ /\ reply' = "Success" /\ IsFree(space, Range(target, size))
     /\ space' = Mapped(space, target, size, backing, state, ReadWrite)
  \/ ~IsFree(space, Range(target, size)) /\ Fails

\* The memory goes to the first address where there is room; the call may
\* also fail.
MapBackingMemoryToBase(base, region_size, size, backing, state) ==
  LET rooms == Rooms(space, base, region_size, size) IN
    \/ /\ reply' = "Success"
       /\ \E t \in rooms :
            /\ \A u \in rooms : t <= u
            /\ space' = Mapped(space, t, size, backing, state, ReadWrite)
    \/ Fails

UnmapRange(target, size) ==
  \/ /\ reply' = "Success" /\ IsMapped(space, Range(target, size))
     /\ space' = Unmapped(space, Range(target, size))
  \/ ~IsMapped(space, Range(target, size)) /\ Fails

ReprotectRange(target, size, permissions) ==
  \/ /\ reply' = "Success" /\ IsMapped(space, Range(target, size))
     /\ space' = Reprotected(space, Range(target, size), permissions)
  \/ ~IsMapped(space, Range(target, size)) /\ Fails

\* The permissions of page p and of pages next to it that belong together
\* with it.
Reprotect(p, permissions) ==
  /\ reply' = "Success" /\ IsMapped(space, {p})
  /\ \E size \in 1..MAX_ADDRESS - p :
       /\ Range(p, size) \subseteq AreaOf(space, p)
       /\ space' = Reprotected(space, Range(p, size), permissions)

ChangeMemoryState(target, size, old, new) ==
  LET pages == Range(target, size) IN
    \/ /\ reply' = "Success" /\ HasState(space, pages, old.state, old.permissions)
       /\ space' = Restated(space, pages, new.state, new.permissions)
    \/ ~HasState(space, pages, old.state, old.permissions) /\ Fails

\* A call that has nothing to change.
Nothing == reply' = "Success" /\ UNCHANGED space

Next ==
  \/ Nothing
  \/ \E c \in Calls.map : MapBackingMemory(c.target, c.size, c.backing, c.state)
  \/ \E c \in Calls.to_base :
       MapBackingMemoryToBase(c.base, c.region_size, c.size, c.backing, c.state)
  \/ \E c \in Calls.change, r \in Calls.ranges :
       ChangeMemoryState(r.target, r.size, c.old, c.new)
  \/ \E r \in Calls.ranges : UnmapRange(r.target, r.size)
  \/ \E r \in Calls.ranges, permissions \in Permissions :
       ReprotectRange(r.target, r.size, permissions)
  \/ \E p \in Pages, permissions \in Permissions \cup {ReadWriteExecute} :
       Reprotect(p, permissions)

Spec == Init /\ [][Next]_<<space, reply>>
=============================================================================
