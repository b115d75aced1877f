SPECIFICATION Spec
CONSTANTS
  c1 = c1
  c2 = c2
  Absent = Absent
  NoValue = NoValue
  NoTtl = NoTtl
  NoLimit = NoLimit
  Char = {42, 97, 98, 124}
  Sep = 124
  Star <- MCStar
  Proc = {c1, c2}
  Namespaces <- MCNamespaces
  Keys <- MCKeys
  Value <- MCValue
  NamespaceTtl = 1
  TtlUnit = 2
  RefreshOnRead = FALSE
  MaxClock = 1
  Faults = FALSE
  Batches <- FilterBatches
INVARIANT
  SearchMatchesFilter
