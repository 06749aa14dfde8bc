SPECIFICATION FairSpec
CONSTANTS
  Message = {m1, m2, m3}
  NoTurn = NoTurn
INVARIANTS NothingStranded BusyWithTurn StartsInOrder MessageConserved
PROPERTIES WaitingServed
CHECK_DEADLOCK FALSE
