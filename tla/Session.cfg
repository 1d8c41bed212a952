SPECIFICATION MCSpec
CONSTANTS
  alice = alice
  bob = bob
  de = de
  nl = nl
  us = us
  c1 = c1
  c2 = c2
  Accounts = {alice, bob}
  Locations <- MCLocations
  Requests <- MCRequests
  Calls = {c1, c2}
  Ops = {"sign_in", "refresh", "logout", "connect", "refresh_cached"}
  None = none
  Blank = blank
  Tombstone = tombstone
  MaxPairs = 2
  Early = FALSE
  Blocked = {2}
  MaxEntries = 2
  MaxNow = 1
  MaxCommands = 2
  MaxTrouble = 1
CHECK_DEADLOCK FALSE
SYMMETRY Symmetry
INVARIANTS
  TypeOK
  DiskFollowsMemory
  SignedOutStaysOut
  CacheIsOwners
PROPERTIES
  
  ServedLeaseIsUsable
