SPECIFICATION TrieSpec
SYMMETRY Symmetry
CONSTANTS
  Calls = {c1, c2}
  MaxBlocks = 3
INVARIANTS
  TypeOK
  ReadsAreRight
  RootBack
  BlocksKeepTheirState
