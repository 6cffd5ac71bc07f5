SPECIFICATION Spec
CONSTANTS
  MaxBufs = 3
  MaxLen = 3
  IntMax = 7
INVARIANTS TypeOK InPlace NoEmptyCall NoShortAnswer
