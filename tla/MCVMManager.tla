---------------------------- MODULE MCVMManager ----------------------------
\* Calls for TLC.
EXTENDS VMManager

CONSTANTS
  RegionBase,    \* where MapBackingMemoryToBase begins
  RegionSize     \* and how far it goes

MCRanges == {r \in [target : Pages, size : 1..MAX_ADDRESS] : r.target + r.size <= MAX_ADDRESS}

MapCall(r, backing) ==
  [target |-> r.target, size |-> r.size, backing |-> backing, state |-> "Private"]

\* Memory that continues what is behind the neighbours, and, for one page,
\* some that does not.
MCCalls ==
  [ranges |-> MCRanges,
   map |-> {MapCall(r, r.target) : r \in MCRanges} \cup {MapCall([target |-> 1, size |-> 1], 0)},
   to_base |-> {[base |-> RegionBase, region_size |-> RegionSize, size |-> n,
                 backing |-> RegionBase, state |-> "Private"] : n \in 1..RegionSize},
   change |-> {[old |-> [state |-> "Private", permissions |-> ReadWrite],
                new |-> [state |-> "Locked", permissions |-> {"R"}]],
               [old |-> [state |-> "Locked", permissions |-> {}],
                new |-> [state |-> "Private", permissions |-> ReadWrite]]}]

MCPermissions == {{"R"}}
============================================================================
