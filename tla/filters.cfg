SPECIFICATION Spec
CONSTANTS
  a = a
  acc = acc
  t1 = t1
  t2 = t2
  tag = tag
  Addresses = {a, acc}
  AccountAddresses = {acc}
  Tokens = {t1, t2}
  Tags = {tag}
  LastSlot = 1
  CombinedOptions <- AllOptions
  MaxCombined = 3
  MaxOptions = 1
  NULL = NULL
INVARIANTS
  FilterInv
  CombinedIsExact
  FoundByCountedAddress
  CountedAddressFinds
  DetailsAgree
