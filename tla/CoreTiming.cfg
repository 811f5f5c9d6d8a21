SPECIFICATION FairSpec
CONSTANTS
  tick = tick
  wake = wake
  host = host
  NumCores = 2
  Ids <- AllIds
  Types <- JustWake
  Period <- Periods
  MaxSlice = 2
  MinDelay = 1
  Delays <- Soon
  HostIds <- HostId
  MaxOvershoot = 1
  HostStaleness = 1
  MaxPending = 1
INVARIANTS
  SliceInBounds
  CoresStayTogether
PROPERTIES
  EventsFire
