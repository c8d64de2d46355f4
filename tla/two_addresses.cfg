SPECIFICATION Spec
CONSTANTS
  o1 = o1
  o2 = o2
  a1 = a1
  a2 = a2
  Outputs = {o1, o2}
  MaxSlot = 2
  SameSlotSpends = FALSE
  Reissues = FALSE
  SomeAtStart = FALSE
  NoRow = NoRow
  Addrs = {a1, a2}
  Holds <- TwoAddresses
  NoEntry = NoEntry
  MaxFaults = 0
INVARIANTS
  MultiAddressesResolvable
