SPECIFICATION Spec
CONSTANTS
  Programs <- MCPrograms
  MAX_ADDRESS = 19
  HEAP_VADDR = 5
  HEAP_VADDR_END = 9
  SHARED_MEMORY_VADDR_END = 10
  LINEAR_HEAP_VADDR = 10
  TLS_AREA_VADDR = 17
  AppPages = {0, 1, 2, 3, 4}
  BasePages = {5, 6}
  SlotsPerPage = 1
  BlockIds = {b1, b2}
  MinMemoryUsed = 3
SYMMETRY MCSymmetry
CHECK_DEADLOCK FALSE
INVARIANTS
  MemoryAccounted
  OwnMemory
  AssertionsHold
