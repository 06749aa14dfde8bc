SPECIFICATION Spec
CONSTANTS
  a = a  b = b  hub = hub  guest = guest
  c1 = c1  c2 = c2  x = x  y = y
  Node <- OneNode
  Infra = {hub}
  Guest = {guest}
  Slot <- OneCall
  SlotNode <- BothOf
  Path = {x}
  TmpPath <- OnePath
  Seed <- NoSeedOne
  StaleAge = 0
  MaxOutages = 1
  MaxMisreads = 1
  MaxFaults = 0
  MaxJoins = 1
  MaxForgets = 1
INVARIANTS HubNeverOffline
CHECK_DEADLOCK FALSE
