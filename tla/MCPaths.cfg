SPECIFICATION Spec
CONSTANTS
  Char = {42, 97, 98, 124}
  Sep = 124
  Star <- MCStar
  NoLimit = NoLimit
  Stores <- MCStores
  PrefixPatterns <- MCPrefixPatterns
  SuffixPatterns <- MCSuffixPatterns
  Depths <- MCDepths
  Limits = {1, 2}
  Strings <- MCStrings
  Keys <- MCKeys
INVARIANTS
  QueriesAreExact
  ListingsCover
  KeysAreDistinct
