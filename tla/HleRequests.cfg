SPECIFICATION Spec
CONSTANTS
  t1 = t1
  t2 = t2
  NoThread = NoThread
  Empty = Empty
  Threads <- TwoThreads
CHECK_DEADLOCK FALSE
INVARIANTS
  OneWakeUp
  SavedIsWhole
PROPERTIES
  ClientWakes
  RequestEnds
