SPECIFICATION Spec
CONSTANTS
  Frames <- MCNested
  Fees = {63, 64000}
  CallFee = 700
  GasLimit = 6721975
  Margins <- MCMargins
  NoEstimate = NoEstimate
  Throws = Throws
INVARIANT EstimateSuffices
CHECK_DEADLOCK FALSE
