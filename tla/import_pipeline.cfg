SPECIFICATION Spec
CONSTANTS
  o1 = o1
  o2 = o2
  o3 = o3
  m1 = m1
  m2 = m2
  Outputs = {o1, o2, o3}
  Tables <- Pipelines
  DrainOrder <- InOrder
  ItemsOf <- OwnAddresses
  Ledgers <- SomeLedgers
  Workers = {1, 2}
  BatchSize = 2
  InputCap = 2
  OutputCap = 1
  MaxSlot = 2
  Endings = {"stop", "crash", "cancel", "stream", "write"}
  MaxEndings = 1
INVARIANTS
  ImportInv
  UninterruptedIsComplete
  ImportStartsEmpty
  NeverFatal
