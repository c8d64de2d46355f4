SPECIFICATION FairSpec
CONSTANTS
  o1 = o1
  o2 = o2
  a1 = a1
  a2 = a2
  Outputs = {o1, o2}
  MaxSlot = 1
  SameSlotSpends = TRUE
  Reissues = TRUE
  SomeAtStart = TRUE
  NoRow = NoRow
  Addrs = {}
  Holds <- NoHolds
  NoEntry = NoEntry
  MaxFaults = 2
INVARIANTS
  ViewInv
PROPERTIES
  CatchesUp
  PendingDrains
