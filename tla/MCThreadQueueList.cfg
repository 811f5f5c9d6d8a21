SPECIFICATION FairSpec
CONSTANTS
  t1 = t1
  t2 = t2
  t3 = t3
  NoThread = NoThread
  Threads <- MCThreads
  NUM_QUEUES = 3
INVARIANTS
  QueuedWhereItBelongs
  NoNullDereference
  WalkMissesNothing
PROPERTIES
  ImplementsPriorityQueue
  WalkEnds
