SPECIFICATION Spec
CONSTANTS
  a = a  b = b  hub = hub  guest = guest
  c1 = c1  c2 = c2  x = x  y = y
  Node <- TwoNodes
  Infra = {}
  Guest = {}
  Slot <- OneCall
  SlotNode <- OneCallOf
  Path = {x, y}
  TmpPath <- OwnPath
  Seed <- NoSeeds
  StaleAge = 0
  MaxOutages = 1
  MaxMisreads = 0
  MaxFaults = 0
  MaxJoins = 0
  MaxForgets = 0
INVARIANTS LeftNodeOffline
CHECK_DEADLOCK FALSE
