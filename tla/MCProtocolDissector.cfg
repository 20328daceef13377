CONSTANTS
  Lengths <- MCLengths
  Addresses <- MCAddresses
  Bytes = {0, 1, 2, 63, 191, 192, 255}
  Words = {0, 1, 2, 5, 9, 16}
  HelloLens = {0, 45, 56}
  MaxHops = 3
  None = None
SPECIFICATION Spec
INVARIANTS
  ReadsInBounds
  SniInsideHello
  DnsNameIsWhole
  ShortHeaderIsFlagged
  AddressKept
PROPERTY DissectEnds
