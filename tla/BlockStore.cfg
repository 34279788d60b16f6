CONSTANTS
  Blocks = {b1, b2, b3, b4}
  NoBlock = NoBlock
  MaxCrashes = 2
SPECIFICATION Spec
SYMMETRY Symmetry
INVARIANTS
  StoresAgree
  PutAllOrNothing
  PopsSucceed
  StartsAgain
CHECK_DEADLOCK FALSE
