CONSTANTS
  Requests = {r1, r2, r3, r4}
  InitOutcomes = {"done", "failed"}
SPECIFICATION FairSpec
INVARIANTS
  OneInEngine
  NoLostWakeup
  ServedInOrder
  AnsweredOnce
PROPERTY EveryRequestAnswered
CHECK_DEADLOCK FALSE
