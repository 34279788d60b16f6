SPECIFICATION Spec
CONSTANTS
  MaxValue = 2
  MaxRemote = 3
  MaxLocal = 3
INVARIANTS
  ChainIsContinuous
  AccountsByNumber
  StorageByNumber
