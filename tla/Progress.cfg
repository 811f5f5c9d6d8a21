SPECIFICATION FairSpec
CONSTANTS
  t1 = t1
  t2 = t2
  t3 = t3
  m1 = m1
  m2 = m2
  s1 = s1
  e1 = e1
  x1 = x1
  a1 = a1
  a2 = a2
  p1 = p1
  p2 = p2
  NoThread = NoThread
  NoAddress = NoAddress
  Threads <- TwoThreads
  Timers <- Empty
  NumCores = 2
  CoreOf <- TwoCores
  ThreadPrioLowest = 2
  InitialPriority <- Descending
  DelayedSets <- MayLag
  Mutexes <- OneMutex
  Semaphores <- Empty
  Events <- OneEvent
  ResetType <- Sticky
  MaxCount <- EmptyFunction
  InitialCount <- EmptyFunction
  S32Max = 3
  Addresses <- Empty
  Processes <- TwoProcesses
  ProcessOf <- ProcessOf2
  MainThread <- MainThread2
  Programs <- MixedPrograms
  MaxLockCount = 1
PROPERTIES
  CallsEnd
  TimedWaitEnds
