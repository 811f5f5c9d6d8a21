-------------------------- MODULE MCProcessMemory --------------------------
\* Three programs for TLC.  The code of the second and the third leaves them
\* little memory, for what they do with it takes many more orders.
EXTENDS ProcessMemory

MCSymmetry == Permutations(BlockIds)

Code(size) == [addr |-> 1, size |-> size, permissions |-> {"R", "X"}, state |-> "Code"]

\* A stack for which there is not enough memory.
Stack == [addr |-> HEAP_VADDR_END - Cardinality(AppPages), size |-> Cardinality(AppPages),
          permissions |-> ReadWrite, state |-> "Locked"]

\* The heap, the linear heap and threads.
Plain ==
  [segments |-> <<Code(1), Stack>>,
   calls |-> {"COMMIT", "FREE", "LINEAR", "PROTECT", "THREADS"},
   addresses |-> {0} \cup HEAP_VADDR..MAX_ADDRESS - 2, sizes |-> {1, 2},
   permissions |-> {ReadWrite}]

\* Memory with two addresses, and requests for nothing.
Aliases ==
  [segments |-> <<Code(Cardinality(AppPages) - 2)>>,
   calls |-> {"COMMIT", "FREE", "LINEAR", "MAP", "PROTECT"},
   addresses |-> {0, HEAP_VADDR_END - 2, HEAP_VADDR_END - 1, LINEAR_HEAP_VADDR},
   sizes |-> {0, 1, 2}, permissions |-> {ReadWrite}]

\* Shared memory blocks.
Shares ==
  [segments |-> <<Code(Cardinality(AppPages) - 1)>>,
   calls |-> {"COMMIT", "BLOCKS", "THREADS"},
   addresses |-> {0, HEAP_VADDR_END - 2, HEAP_VADDR_END - 1},
   sizes |-> {0, 1, 2}, permissions |-> {ReadWrite}]

MCPrograms == {Plain, Aliases, Shares}
=============================================================================
