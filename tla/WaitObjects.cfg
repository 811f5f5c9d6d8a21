SPECIFICATION Spec
CONSTANTS
  t1 = t1
  t2 = t2
  t3 = t3
  m1 = m1
  m2 = m2
  s1 = s1
  e1 = e1
  x1 = x1
  a1 = a1
  a2 = a2
  p1 = p1
  p2 = p2
  NoThread = NoThread
  NoAddress = NoAddress
  Threads <- ThreeThreads
  Timers <- Empty
  NumCores = 1
  CoreOf <- OneCore
  ThreadPrioLowest = 2
  InitialPriority <- Descending
  DelayedSets <- InStep
  Mutexes <- TwoMutexes
  Semaphores <- OneSemaphore
  Events <- Empty
  ResetType <- EmptyFunction
  MaxCount <- Two
  InitialCount <- One
  S32Max = 3
  Addresses <- TwoAddresses
  Processes <- TwoProcesses
  ProcessOf <- ProcessOf3
  MainThread <- MainThread2
  Programs <- ObjectPrograms
  MaxLockCount = 2
INVARIANTS
  MutexOwnership
  ReadyQueueExact
  NoLostWakeup
  InheritedPriority
  ToldWhenOwned
  ArbiterListExact
PROPERTIES
  SwitchPicksBest
