\* Three slots, two generations; handles of four slots with and without the
\* bit that is dropped.
CONSTANTS
  thread = thread
  process = process
  NullObject = NullObject
  Objects <- ModelObjects
  Threads <- ModelThreads
  Process = process
  MAX_COUNT = 3
  SlotLimit = 4
  GenLimit = 3
SPECIFICATION Spec
INVARIANTS
  FreeListExact
  NoEarlyReuse
PROPERTY ImplementsHandlePool
