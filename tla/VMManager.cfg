SPECIFICATION Spec
CONSTANTS
  MAX_ADDRESS = 4
  RegionBase = 1
  RegionSize = 2
  Calls <- MCCalls
  Permissions <- MCPermissions
INVARIANTS
  AreasTile
PROPERTIES
  ImplementsAddressSpace
