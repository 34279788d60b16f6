SPECIFICATION Spec
CONSTANTS
  Frames <- MCFlat
  Fees = {63, 64000}
  CallFee = 700
  GasLimit = 6721975
  Margins <- MCMargins
  NoEstimate = NoEstimate
  Throws = Throws
INVARIANT FlatCallsEstimated
CHECK_DEADLOCK FALSE
