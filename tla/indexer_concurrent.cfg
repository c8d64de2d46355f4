SPECIFICATION Spec
CONSTANTS
  o1 = o1
  o2 = o2
  a1 = a1
  a2 = a2
  Outputs = {o1, o2}
  MaxSlot = 2
  SameSlotSpends = FALSE
  Reissues = FALSE
  SomeAtStart = TRUE
  NoRow = NoRow
  Addrs = {a1}
  Holds <- OneAddressEach
  NoEntry = NoEntry
  MaxFaults = 0
SYMMETRY OutputSymmetry
INVARIANTS
  OnceInv
  CountInv
  CommittedRowsAreLedger
  LastCommittedIsCommitted
  RefCountsExact
  MultiAddressesResolvable
PROPERTIES
  CommitSettles
  RelaxedView
