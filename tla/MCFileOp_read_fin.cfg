SPECIFICATION Spec
CONSTANTS
  IsWrite = FALSE
  HupOnEnd = FALSE
  RdyOnEnd = TRUE
  Ops = {"rw"}
  Habits = {"nest"}
  Lens = {2}
  MaxAvail = 3
  MaxBytes = 4
  MaxOps = 2
  MaxDepth = 3
INVARIANT NoLostEnd
CHECK_DEADLOCK FALSE
