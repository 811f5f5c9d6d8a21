SPECIFICATION Spec
CONSTANTS
  c1 = c1
  c2 = c2
  s1 = s1
  s2 = s2
  x1 = x1
  x2 = x2
  NoThread = NoThread
  Port = Port
  Clients <- TwoClients
  Servers <- TwoServers
  Sessions <- TwoSessions
  MaxSessions = 1
  MAX_ADDRESS = 6
  Requests <- OneBuffer
SYMMETRY Symmetry
CHECK_DEADLOCK FALSE
INVARIANTS
  RequestsAccounted
  PortCountExact
  BuffersIntact
  NoLostRequest
