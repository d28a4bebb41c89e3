SPECIFICATION Spec
CONSTANTS
  a = a
  b = b
  x = x
  y = y
  Names = {a, b}
  Tags = {x, y}
  Hash <- MCHash
  SameHash = 1
  NBlocks = 5
  NVersions = 4
  DeleteChunk = 2
  MountChunk = 2
  Sequential = TRUE
  MaxReaders = 0
SYMMETRY Symmetry
INVARIANT EarlyReadsAreAlwaysRight
