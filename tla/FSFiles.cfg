SPECIFICATION Spec
CONSTANTS
  a = a
  b = b
  Names = {a, b}
  Versions = {1}
  BlockSize = 2
  DataBlocks = 3
  MaxFiles = 2
  MaxOpen = 2
  Radix = 16
  Amounts = {0, 1, 3}
  MaxSize = 4
  MaxMounts = 1
  MaxUpdates = 3
SYMMETRY NameSymmetry
INVARIANTS
  ReadsBack
  DescriptorsValid
PROPERTY
  KeepsFiles
