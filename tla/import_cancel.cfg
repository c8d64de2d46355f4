SPECIFICATION Spec
CONSTANTS
  o1 = o1
  o2 = o2
  o3 = o3
  m1 = m1
  m2 = m2
  Outputs = {o1, o2}
  Tables <- Pipelines
  DrainOrder <- InOrder
  ItemsOf <- OwnAddresses
  Ledgers <- AnyLedger
  Workers = {1}
  BatchSize = 1
  InputCap = 2
  OutputCap = 1
  MaxSlot = 1
  Endings = {"cancel"}
  MaxEndings = 1
INVARIANTS
  StatusMeansComplete
