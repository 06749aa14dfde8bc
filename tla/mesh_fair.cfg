SPECIFICATION FairSpec
CONSTANTS
  a = a  b = b  hub = hub  guest = guest
  c1 = c1  c2 = c2  x = x  y = y
  Node <- TwoNodes
  Infra = {hub}
  Guest = {}
  Slot <- OneCall
  SlotNode <- OneCallOf
  Path = {x, y}
  TmpPath <- OwnPath
  Seed <- SeedIsA
  StaleAge = 0
  MaxOutages = 2
  MaxMisreads = 0
  MaxFaults = 1
  MaxJoins = 0
  MaxForgets = 0
INVARIANTS NeverTorn HubKept
PROPERTIES RunningNodeListed DeadEntryLeaves
CHECK_DEADLOCK FALSE
