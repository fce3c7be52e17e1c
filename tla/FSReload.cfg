SPECIFICATION Spec
CONSTANTS
  a = a
  b = b
  Names = {a, b}
  Versions = {1}
  BlockSize = 2
  DataBlocks = 3
  MaxFiles = 2
  MaxOpen = 1
  Radix = 4
  Amounts = {0, 1, 3}
  MaxSize = 4
  MaxMounts = 2
  MaxUpdates = 3
SYMMETRY NameSymmetry
INVARIANT
  LoadsWhatWasSaved
