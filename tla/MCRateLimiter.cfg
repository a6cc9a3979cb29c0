CONSTANTS
  RatePerSec = 2
  MaxTime = 4
  MaxStepBack = 1
SPECIFICATION Spec
INVARIANTS TypeOK RateRespected NoSpuriousRefusal StallIsBounded
CHECK_DEADLOCK FALSE
