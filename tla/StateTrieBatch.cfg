SPECIFICATION TrieSpec
SYMMETRY Symmetry
CONSTANTS
  Calls = {c1, c2}
  MaxBlocks = 2
INVARIANTS
  BackForGood
