SPECIFICATION SerialSpec
CONSTANTS
  o1 = o1
  o2 = o2
  a1 = a1
  a2 = a2
  Outputs = {o1, o2}
  MaxSlot = 2
  SameSlotSpends = TRUE
  Reissues = FALSE
  SomeAtStart = TRUE
  NoRow = NoRow
  Addrs = {}
  Holds <- NoHolds
  NoEntry = NoEntry
  MaxFaults = 0
SYMMETRY OutputSymmetry
INVARIANTS
  SerialInv
  CreatedSlotsAreBookings
  UncommittedAreAhead
  AcceptNeverConflicts
  ByIDAnswersCommitted
PROPERTIES
  StrictView
