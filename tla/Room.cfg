SPECIFICATION Spec
CONSTANTS
  c1 = c1
  c2 = c2
  p1 = p1
  p2 = p2
  p3 = p3
  p4 = p4
  NoPeer = NoPeer
  Clients <- TwoClients
  Peers <- FourPeers
  member_slots = 2
  IdentitiesOf <- HostAndGuest
  BanLists <- NoneOrGuest
  MaxCalls = 3
  MaxLosses = 1
  Moderations <- BanKickUnban
CHECK_DEADLOCK FALSE
INVARIANTS
  MembersConsistent
  JoinedIsMember
  NoLostJoin
