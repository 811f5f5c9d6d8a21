--------------------------- MODULE ProcessMemory ---------------------------
(***************************************************************************)
(* The memory of a process: core/hle/kernel/process.cpp, memory.cpp (the   *)
(* regions of physical memory), shared_memory.cpp and the supervisor calls *)
(* that reach them.  Addresses and sizes are in pages.                     *)
(*                                                                         *)
(* A call that returns an error before it has changed anything is not a    *)
(* step.  An assertion that fails stops the program: crashed is set and    *)
(* nothing happens any more.                                               *)
(***************************************************************************)
EXTENDS VMAreas

CONSTANTS
  Programs,                 \* the programs that may be run: the segments of each
                            \* (code, data, the stack), the calls it makes, and
                            \* their addresses, sizes and permissions
  HEAP_VADDR, HEAP_VADDR_END,
  SHARED_MEMORY_VADDR_END,
  LINEAR_HEAP_VADDR,        \* where page 0 of the physical memory appears
  TLS_AREA_VADDR,
  AppPages,                 \* the physical pages of the application's region
  BasePages,                \* and those of the region BASE
  SlotsPerPage,             \* threads whose local storage fits in a page
  BlockIds,                 \* names for shared memory blocks
  MinMemoryUsed             \* bound: how far down failing calls take memory_used

ASSUME MemoryAssumption ==
  /\ AppPages \cap BasePages = {}
  /\ HEAP_VADDR < HEAP_VADDR_END /\ HEAP_VADDR_END <= SHARED_MEMORY_VADDR_END
  /\ SHARED_MEMORY_VADDR_END <= LINEAR_HEAP_VADDR
  /\ AppPages # {} /\ AppPages = Min(AppPages)..Max(AppPages)

VARIABLES
  program,        \* the program that the process runs
  status,         \* of the process: "Created", "Running" or "Destroyed"
  segments,       \* what Run has still to map
  crashed,        \* an assertion has failed
  vma_map,        \* vm_manager: the areas of the address space
  free_blocks,    \* the pages of each region that are free
  used,           \* the pages of each region that are in use, counted
  holding_memory, \* the pages that the process holds
  holding_tls_memory,  \* those of them that are for thread-local storage
  tls_slots,      \* the slots in use in each page for thread-local storage
  memory_used,    \* what the process has in use; below 0 it wraps in the code
  commit,         \* the current value of the limit on committed memory
  shared_count,   \* and of that on shared memory blocks
  blocks          \* the shared memory blocks, by their names

vars == <<program, status, segments, crashed, vma_map, free_blocks, used, holding_memory,
          holding_tls_memory, tls_slots, memory_used, commit, shared_count, blocks>>

process == <<program, status, segments>>
accounts == <<holding_memory, memory_used, commit>>
shared == <<shared_count, blocks>>
tls == <<holding_tls_memory, tls_slots>>

Span(target, size) == target..target + size - 1

Running == status = "Running" /\ ~crashed

\* ASSERT: the program stops.
Assertion(fails) ==
  /\ fails /\ crashed' = TRUE
  /\ UNCHANGED <<process, vma_map, free_blocks, used, accounts, tls, shared>>

-----------------------------------------------------------------------------
\* MemoryRegionInfo.

Regions == {"APPLICATION", "BASE"}

\* HeapAllocate: from the higher addresses, in as many blocks as it takes.
HeapPages(size) ==
  {p \in free_blocks["APPLICATION"] :
     Cardinality({q \in free_blocks["APPLICATION"] : q > p}) < size}

HasHeap(size) == size > 0 /\ Cardinality(free_blocks["APPLICATION"]) >= size

\* LinearAllocate: the places of size pages in a row.
LinearPlaces(region, size) ==
  {p \in free_blocks[region] : Span(p, size) \subseteq free_blocks[region]}

Take(region, pages) ==
  /\ free_blocks' = [free_blocks EXCEPT ![region] = @ \ pages]
  /\ used' = [used EXCEPT ![region] = @ + Cardinality(pages)]

\* Free, of blocks that the assertion finds allocated.
Give(region, pages) ==
  /\ free_blocks' = [free_blocks EXCEPT ![region] = @ \cup pages]
  /\ used' = [used EXCEPT ![region] = @ - Cardinality(pages)]

\* What the process is charged for memory that it gets: its own count, and
\* the limit on committed memory.
Charge(size) == memory_used' = memory_used + size /\ commit' = commit + size

Release(size) == memory_used' = memory_used - size /\ commit' = commit - size

-----------------------------------------------------------------------------
\* Blocks of memory mapped one after the other, each of them then protected
\* as the area that it has become part of.

MapBlock(m, target, block, state, permissions) ==
  LET r == AfterMap(m, target, block.size, block.backing, state)
  IN AfterReprotect(r.map, r.iter, permissions)

\* blocks_: a sequence of [at, size, backing], at being relative to target.
MapBlocks(m, target, blocks_, state, permissions) ==
  LET step(acc, block) == MapBlock(acc, target + block.at, block, state, permissions)
  IN FoldLeft(step, m, blocks_)

\* A set of physical pages as such a sequence.
BlocksOf(pages) ==
  LET starts == {p \in pages : p - 1 \notin pages}
      length(p) == CHOOSE n \in 1..Cardinality(pages) :
                     Span(p, n) \subseteq pages /\ p + n \notin pages
      block(p) == [at |-> Cardinality({q \in pages : q < p}), size |-> length(p), backing |-> p]
      s == SetToSortSeq(starts, <)
  IN [i \in DOMAIN s |-> block(s[i])]

\* GetBackingBlocksForRange: one block for each area of the range.
BackingBlocks(m, target, size) ==
  LET s == SetToSortSeq(Touched(m, target, size), <)
      from(b) == Max({b, target})
      to(b) == Min({b + m[b].size, target + size})
  IN [i \in DOMAIN s |->
        [at |-> from(s[i]) - target, size |-> to(s[i]) - from(s[i]),
         backing |-> BackingOf(m, from(s[i]))]]

-----------------------------------------------------------------------------
\* The heap.

InHeap(target, size) == target >= HEAP_VADDR /\ target + size <= HEAP_VADDR_END

\* Process::HeapAllocate after the check of the range.
HeapAllocate(target, size, permissions, state) ==
  /\ CanMap(vma_map, target, size) /\ HasHeap(size)
  /\ vma_map' = MapBlocks(vma_map, target, BlocksOf(HeapPages(size)), state, permissions)
  /\ Take("APPLICATION", HeapPages(size))
  /\ holding_memory' = holding_memory \cup HeapPages(size)
  /\ Charge(size)

\* svcControlMemory(MEMOP_COMMIT).
CommitHeap(target, size, permissions) ==
  /\ Running /\ "COMMIT" \in program.calls /\ InHeap(target, size)
  /\ HeapAllocate(target, size, permissions, "Private")
  /\ UNCHANGED <<process, crashed, tls, shared>>

\* The physical pages behind a range that is mapped.
Backing(target, size) == {BackingOf(vma_map, p) : p \in Span(target, size)}

\* Mutant: pages that were free before are not seen.
FreesFreeTwice(target, size) == Cardinality(Backing(target, size)) # size

\* Free would be asked to free what is free already, or the same page twice.
FreesFree(target, size) ==
  \/ Backing(target, size) \cap free_blocks["APPLICATION"] # {}
  \/ Cardinality(Backing(target, size)) # size

\* svcControlMemory(MEMOP_FREE), Process::HeapFree: whatever is mapped in the
\* range is taken for memory of the heap.
FreeHeap(target, size) ==
  /\ Running /\ "FREE" \in program.calls /\ InHeap(target, size) /\ size > 0
  /\ IsMappedRange(vma_map, target, size)
  /\ \/ Assertion(FreesFree(target, size))
     \/ /\ ~FreesFree(target, size)
        /\ Give("APPLICATION", Backing(target, size))
        /\ holding_memory' = holding_memory \ Backing(target, size)
        /\ vma_map' = AfterUnmapRange(vma_map, target, size)
        /\ Release(size)
        /\ UNCHANGED <<process, crashed, tls, shared>>

-----------------------------------------------------------------------------
\* The linear heap, where addresses follow those of the physical memory.

\* GetLinearHeapBase and GetLinearHeapLimit.
LinearHeapBase == LINEAR_HEAP_VADDR + Min(AppPages)
LinearHeapLimit == LINEAR_HEAP_VADDR + Max(AppPages) + 1

InLinear(target, size) == target >= LinearHeapBase /\ target + size <= LinearHeapLimit

\* Where LinearAllocate puts the memory: at the first place, or where the
\* caller wants it to be.
LinearChoice(target, size) ==
  IF target = 0 THEN {p \in LinearPlaces("APPLICATION", size) :
                        \A q \in LinearPlaces("APPLICATION", size) : p <= q}
  ELSE {p \in {target - LINEAR_HEAP_VADDR} :
          InLinear(target, size) /\ Span(p, size) \subseteq free_blocks["APPLICATION"]}

\* svcControlMemory(MEMOP_COMMIT | MEMOP_LINEAR), Process::LinearAllocate.
CommitLinear(target, size, permissions) ==
  /\ Running /\ "LINEAR" \in program.calls
  /\ \E p \in LinearChoice(target, size) :
       LET at == LINEAR_HEAP_VADDR + p
           block == [size |-> size, backing |-> p]
           fails == size = 0 \/ ~CanMap(vma_map, at, size)
       IN \/ Assertion(fails)
          \/ /\ ~fails
             /\ vma_map' = MapBlock(vma_map, at, block, "Continuous", permissions)
             /\ Take("APPLICATION", Span(p, size))
             /\ holding_memory' = holding_memory \cup Span(p, size)
             /\ Charge(size)
             /\ UNCHANGED <<process, crashed, tls, shared>>

\* svcControlMemory(MEMOP_FREE), Process::LinearFree: the range is unmapped
\* and the physical pages of the same place are freed.
FreeLinear(target, size) ==
  LET pages == Span(target - LINEAR_HEAP_VADDR, size) IN
    /\ Running /\ "FREE" \in program.calls /\ InLinear(target, size) /\ size > 0
    /\ IsMappedRange(vma_map, target, size)
    /\ \/ Assertion(pages \cap free_blocks["APPLICATION"] # {})
       \/ /\ pages \cap free_blocks["APPLICATION"] = {}
          /\ vma_map' = AfterUnmapRange(vma_map, target, size)
          /\ Give("APPLICATION", pages)
          /\ holding_memory' = holding_memory \ pages
          /\ Release(size)
          /\ UNCHANGED <<process, crashed, tls, shared>>

-----------------------------------------------------------------------------
\* Protection and aliases.

InSpace(target, size) == target + size <= MAX_ADDRESS

\* svcControlMemory(MEMOP_PROTECT).
Protect(target, size, permissions) ==
  /\ Running /\ "PROTECT" \in program.calls
  /\ \/ Assertion(size = 0 \/ ~InSpace(target, size))
     \/ /\ size > 0 /\ InSpace(target, size) /\ IsMappedRange(vma_map, target, size)
        /\ vma_map' = AfterReprotectRange(vma_map, target, size, permissions)
        /\ UNCHANGED <<process, crashed, free_blocks, used, accounts, tls, shared>>

Overlap(target, source, size) == Span(target, size) \cap Span(source, size) # {}

\* ChangeMemoryState of no pages: one area at most is looked at before
\* CarveVMARange asserts that there are some.
ChangesNothing(target, size, old) ==
  size = 0 /\ (target \in DOMAIN vma_map \/ IsExpected(vma_map, target, 1, old))

\* svcControlMemory(MEMOP_MAP), Process::Map: target becomes an alias of
\* source, which must be private memory.
Map(target, source, size, permissions) ==
  LET old == [state |-> "Private", permissions |-> ReadWrite]
      new == [state |-> "Aliased", permissions |-> ReadWrite]
      m == AfterChange(vma_map, source, size, new)
  IN /\ Running /\ "MAP" \in program.calls /\ InHeap(source, size)
     /\ ~Overlap(target, source, size) /\ CanMap(vma_map, target, size)
     /\ \/ Assertion(ChangesNothing(source, size, old))
        \/ /\ size > 0 /\ IsExpected(vma_map, source, size, old)
           /\ vma_map' = MapBlocks(m, target, BackingBlocks(m, source, size), "Alias", permissions)
           /\ UNCHANGED <<process, crashed, free_blocks, used, accounts, tls, shared>>

\* svcControlMemory(MEMOP_UNMAP), Process::Unmap: target is unmapped even if
\* source turns out not to be aliased.
Unmap(target, source, size, permissions) ==
  LET old == [state |-> "Aliased", permissions |-> {}]
      new == [state |-> "Private", permissions |-> permissions]
      m == AfterUnmapRange(vma_map, target, size)
  IN /\ Running /\ "MAP" \in program.calls /\ InHeap(source, size)
     /\ ~Overlap(target, source, size)
     /\ \/ Assertion(size = 0 \/ ~InSpace(target, size))
        \/ /\ size > 0 /\ InSpace(target, size) /\ IsMappedRange(vma_map, target, size)
           /\ vma_map' = IF IsExpected(m, source, size, old)
                         THEN AfterChange(m, source, size, new) ELSE m
           /\ UNCHANGED <<process, crashed, free_blocks, used, accounts, tls, shared>>

-----------------------------------------------------------------------------
\* Thread-local storage, with the threads that come and go.

\* Process::AllocateThreadLocalStorage in page i, slot j that are in use.
UseSlot(i, j) ==
  /\ tls_slots' = [tls_slots EXCEPT ![i] = @ \cup {j}]
  /\ UNCHANGED <<process, crashed, vma_map, free_blocks, used, accounts, holding_tls_memory, shared>>

Slots == 0..SlotsPerPage - 1

HasSlot(i) == tls_slots[i] # Slots

\* A thread is created: it gets the first slot that is not in use, in a new
\* page if there is none.
AllocateThreadLocalStorage ==
  /\ Running /\ "THREADS" \in program.calls
  /\ \/ \E i \in DOMAIN tls_slots :
          /\ HasSlot(i) /\ \A k \in 1..i - 1 : ~HasSlot(k)
          /\ UseSlot(i, Min(Slots \ tls_slots[i]))
     \/ /\ \A i \in DOMAIN tls_slots : ~HasSlot(i)
        /\ LinearPlaces("BASE", 1) # {}
        /\ LET p == Min(LinearPlaces("BASE", 1))
               at == TLS_AREA_VADDR + Len(tls_slots)
           IN /\ Take("BASE", {p})
              /\ holding_tls_memory' = holding_tls_memory \cup {p}
              /\ vma_map' = IF CanMap(vma_map, at, 1)
                            THEN AfterMap(vma_map, at, 1, p, "Locked").map ELSE vma_map
        /\ tls_slots' = Append(tls_slots, {0})
        /\ memory_used' = memory_used + 1
        /\ UNCHANGED <<process, crashed, holding_memory, commit, shared>>

\* A thread stops: its slot is free again, its page stays.
FreeThreadLocalStorage(i, j) ==
  /\ Running /\ "THREADS" \in program.calls /\ j \in tls_slots[i]
  /\ tls_slots' = [tls_slots EXCEPT ![i] = @ \ {j}]
  /\ UNCHANGED <<process, crashed, vma_map, free_blocks, used, accounts, holding_tls_memory, shared>>

-----------------------------------------------------------------------------
\* Shared memory blocks.

Block(size, base_address, held, backing_blocks) ==
  [size |-> size, base_address |-> base_address, held |-> held,
   backing_blocks |-> backing_blocks]

WithBlock(id, block) == [x \in DOMAIN blocks \cup {id} |-> IF x = id THEN block ELSE blocks[x]]

\* svcCreateMemoryBlock without an address: the memory comes from the region
\* BASE.
CreateMemoryBlock(id, size) ==
  /\ Running /\ "BLOCKS" \in program.calls /\ id \notin DOMAIN blocks
  /\ \/ Assertion(LinearPlaces("BASE", size) = {})
     \/ /\ LinearPlaces("BASE", size) # {}
        /\ LET p == Min(LinearPlaces("BASE", size))
               backing == <<[at |-> 0, size |-> size, backing |-> p]>>
           IN /\ Take("BASE", Span(p, size))
              /\ blocks' = WithBlock(id, Block(size, 0, Span(p, size), backing))
        /\ memory_used' = memory_used + size
        /\ shared_count' = shared_count + 1
        /\ UNCHANGED <<process, crashed, vma_map, holding_memory, commit, tls>>

\* The call fails after a block has been begun: its destructor gives back the
\* count that was reserved, and takes the size off memory_used.
AbandonBlock(size) ==
  /\ memory_used' = memory_used - size
  /\ UNCHANGED <<shared_count, blocks>>

\* With an address: the memory there is locked.  The call fails if it is not
\* private memory.
CreateMemoryBlockAt(id, address, size, permissions) ==
  LET old == [state |-> "Private", permissions |-> ReadWrite]
      new == [state |-> "Locked", permissions |-> permissions]
      m == AfterChange(vma_map, address, size, new)
  IN /\ Running /\ "BLOCKS" \in program.calls /\ id \notin DOMAIN blocks
     /\ address > 0 /\ address + size <= SHARED_MEMORY_VADDR_END
     /\ \/ Assertion(ChangesNothing(address, size, old))
        \/ /\ size > 0 /\ IsExpected(vma_map, address, size, old)
           /\ vma_map' = m
           /\ blocks' = WithBlock(id, Block(size, address, {}, BackingBlocks(m, address, size)))
           /\ shared_count' = shared_count + 1
           /\ UNCHANGED <<process, crashed, free_blocks, used, accounts, tls>>
        \/ /\ ~IsExpected(vma_map, address, size, old) /\ ~ChangesNothing(address, size, old)
           /\ memory_used - size >= MinMemoryUsed
           /\ AbandonBlock(size)
           /\ UNCHANGED <<process, crashed, vma_map, free_blocks, used, holding_memory, commit, tls>>

\* The last handle of a block is closed: ~SharedMemory.
DestroyBlock(id) ==
  LET block == blocks[id]
      old == [state |-> "Locked", permissions |-> {}]
      new == [state |-> "Private", permissions |-> ReadWrite]
  IN /\ Running /\ "BLOCKS" \in program.calls /\ id \in DOMAIN blocks
     /\ Give("BASE", block.held)
     /\ vma_map' = IF /\ block.base_address # 0
                      /\ IsExpected(vma_map, block.base_address, block.size, old)
                   THEN AfterChange(vma_map, block.base_address, block.size, new)
                   ELSE vma_map
     /\ memory_used' = IF block.base_address # 0 THEN memory_used ELSE memory_used - block.size
     /\ blocks' = [x \in DOMAIN blocks \ {id} |-> blocks[x]]
     /\ shared_count' = shared_count - 1
     /\ UNCHANGED <<process, crashed, holding_memory, commit, tls>>

\* svcMapMemoryBlock, SharedMemory::Map with permissions that fit those of the
\* block.
MapMemoryBlock(id, address, permissions) ==
  LET block == blocks[id]
      target == IF block.base_address = 0 /\ address = 0
                THEN LINEAR_HEAP_VADDR + block.backing_blocks[1].backing ELSE address
  IN /\ Running /\ "BLOCKS" \in program.calls /\ id \in DOMAIN blocks
     /\ address # 0 =>
          address >= HEAP_VADDR /\ address + block.size < SHARED_MEMORY_VADDR_END
     /\ CanMap(vma_map, target, block.size)
     /\ \/ Assertion(block.size = 0)
        \/ /\ block.size > 0
           /\ vma_map' = MapBlocks(vma_map, target, block.backing_blocks, "Shared", permissions)
           /\ UNCHANGED <<process, crashed, free_blocks, used, accounts, tls, shared>>

\* svcUnmapMemoryBlock: whatever is at the address is unmapped.
UnmapMemoryBlock(id, address) ==
  /\ Running /\ "BLOCKS" \in program.calls /\ id \in DOMAIN blocks
  /\ LET size == blocks[id].size IN
       \/ Assertion(size = 0 \/ ~InSpace(address, size))
       \/ /\ size > 0 /\ InSpace(address, size) /\ IsMappedRange(vma_map, address, size)
          /\ vma_map' = AfterUnmapRange(vma_map, address, size)
          /\ UNCHANGED <<process, crashed, free_blocks, used, accounts, tls, shared>>

-----------------------------------------------------------------------------
\* Beginning and end of the process.

\* Process::Run maps the segments one after the other; one for which there is
\* no memory is passed over.
MapSegment ==
  /\ status = "Created" /\ ~crashed /\ segments # <<>>
  /\ LET g == Head(segments) IN
       \/ HeapAllocate(g.addr, g.size, g.permissions, g.state)
       \/ /\ ~(CanMap(vma_map, g.addr, g.size) /\ HasHeap(g.size))
          /\ UNCHANGED <<vma_map, free_blocks, used, accounts>>
  /\ segments' = Tail(segments)
  /\ UNCHANGED <<program, status, crashed, tls, shared>>

Run ==
  /\ status = "Created" /\ ~crashed /\ segments = <<>>
  /\ status' = "Running"
  /\ UNCHANGED <<program, segments, crashed, vma_map, free_blocks, used, accounts, tls, shared>>

HeldByBlocks == UNION {blocks[id].held : id \in DOMAIN blocks}

\* ~Process: its handles are closed, and with them the blocks, whose owner is
\* no longer there; then FreeAllMemory.  Nothing of it is free already (the
\* invariants of the regions), so that the assertion in Free holds.
DestroyProcess ==
  LET back == holding_tls_memory \cup HeldByBlocks IN
    /\ Running
    /\ free_blocks' = [APPLICATION |-> free_blocks["APPLICATION"] \cup holding_memory,
                       BASE |-> free_blocks["BASE"] \cup back]
    /\ used' = [APPLICATION |-> used["APPLICATION"] - Cardinality(holding_memory),
                BASE |-> used["BASE"] - Cardinality(back)]
    /\ memory_used' = memory_used - Cardinality(holding_memory) - Cardinality(holding_tls_memory)
    /\ commit' = commit - Cardinality(holding_memory)
    /\ holding_memory' = {} /\ holding_tls_memory' = {} /\ tls_slots' = <<>>
    /\ blocks' = [id \in {} |-> Null]
    /\ status' = "Destroyed"
    /\ UNCHANGED <<program, segments, crashed, vma_map, shared_count>>

Init ==
  /\ program \in Programs
  /\ status = "Created" /\ segments = program.segments /\ crashed = FALSE
  /\ vma_map = EmptyMap
  /\ free_blocks = [APPLICATION |-> AppPages, BASE |-> BasePages]
  /\ used = [APPLICATION |-> 0, BASE |-> 0]
  /\ holding_memory = {} /\ holding_tls_memory = {} /\ tls_slots = <<>>
  /\ memory_used = 0 /\ commit = 0 /\ shared_count = 0
  /\ blocks = [id \in {} |-> Null]

Next ==
  \/ MapSegment \/ Run
  \/ \E target \in program.addresses, size \in program.sizes :
       \/ FreeHeap(target, size) \/ FreeLinear(target, size)
       \/ \E permissions \in program.permissions :
            \/ CommitHeap(target, size, permissions)
            \/ CommitLinear(target, size, permissions)
            \/ Protect(target, size, permissions)
            \/ \E source \in program.addresses :
                 \/ Map(target, source, size, permissions)
                 \/ Unmap(target, source, size, permissions)
            \/ \E id \in BlockIds : CreateMemoryBlockAt(id, target, size, permissions)
  \/ \E id \in BlockIds, size \in program.sizes : CreateMemoryBlock(id, size)
  \/ \E id \in BlockIds : DestroyBlock(id)
  \/ \E id \in BlockIds, address \in program.addresses :
       \/ \E permissions \in program.permissions : MapMemoryBlock(id, address, permissions)
       \/ UnmapMemoryBlock(id, address)
  \/ AllocateThreadLocalStorage
  \/ \E i \in DOMAIN tls_slots, j \in Slots : FreeThreadLocalStorage(i, j)
  \/ DestroyProcess

Spec == Init /\ [][Next]_vars

-----------------------------------------------------------------------------
\* Properties.

\* The application's region consists of what is free and what the process
\* holds, through every order of allocations from both ends, releases and
\* aliases; the count of used memory agrees (MemoryRegionInfo), and so does
\* what is counted against the limit on committed memory.
ApplicationRegionExact ==
  /\ holding_memory \cap free_blocks["APPLICATION"] = {}
  /\ holding_memory \cup free_blocks["APPLICATION"] = AppPages
  /\ used["APPLICATION"] = Cardinality(holding_memory)
  /\ commit = Cardinality(holding_memory)

\* The same of the region BASE, which thread-local storage and shared memory
\* blocks live on; no page serves two of them.
BaseRegionExact ==
  LET parts == {free_blocks["BASE"], holding_tls_memory} \cup {blocks[id].held : id \in DOMAIN blocks}
  IN /\ UNION parts = BasePages
     /\ \A p \in BasePages : p \notin free_blocks["BASE"] \/ p \notin holding_tls_memory \cup HeldByBlocks
     /\ \A id, k \in DOMAIN blocks : id # k => blocks[id].held \cap blocks[k].held = {}
     /\ holding_tls_memory \cap HeldByBlocks = {}
     /\ used["BASE"] = Cardinality(BasePages \ free_blocks["BASE"])

\* What svcGetProcessInfo reports as memory in use is what the process holds,
\* of a process that makes no shared memory blocks (a block whose creation
\* fails at an address takes its size off without having added it).
MemoryUsedExact ==
  status # "Destroyed" /\ "BLOCKS" \notin program.calls =>
    memory_used = Cardinality(holding_memory) + Cardinality(holding_tls_memory)

\* The limit on shared memory counts the blocks that exist, failed creations
\* included.
SharedCountExact == status # "Destroyed" => shared_count = Cardinality(DOMAIN blocks)

\* No page of either region is lost or serves two purposes, and the counts of
\* the regions and those a program can read or run into agree with the pages.
MemoryAccounted ==
  /\ ApplicationRegionExact /\ BaseRegionExact
  /\ MemoryUsedExact /\ SharedCountExact

MappedPages == {p \in Pages : vma_map[FindVMA(vma_map, p)].state # "Free"}

\* Without aliases and blocks every page that is mapped has memory of its own,
\* which the process holds, and the other way round: no allocation ever hands
\* out memory that is still in sight.
OwnMemory ==
  LET held == holding_memory \cup holding_tls_memory IN
    status # "Destroyed" /\ program.calls \cap {"MAP", "BLOCKS"} = {} =>
      /\ {BackingOf(vma_map, p) : p \in MappedPages} = held
      /\ Cardinality(MappedPages) = Cardinality(held)

\* A process that makes no aliases and no shared memory blocks, and whose
\* ranges are not empty and lie in the address space, never runs into an
\* assertion: "must be allocated blocks" (MemoryRegionInfo::Free) and the
\* one on the mapping of the linear heap (Process::LinearAllocate) hold.
AssertionsHold ==
  /\ program.calls \cap {"MAP", "BLOCKS"} = {}
  /\ \A target \in program.addresses, size \in program.sizes :
       size > 0 /\ InSpace(target, size)
  => ~crashed
=============================================================================
