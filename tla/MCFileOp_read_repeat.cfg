SPECIFICATION Spec
CONSTANTS
  IsWrite = FALSE
  HupOnEnd = TRUE
  RdyOnEnd = TRUE
  Ops = {"rw", "rwv", "srAll"}
  Habits = {"nest", "cancel", "repeat", "busy"}
  Lens = {2}
  MaxAvail = 3
  MaxBytes = 3
  MaxOps = 3
  MaxDepth = 4
INVARIANTS NoLostData NoLostEnd CallbackOnce
CHECK_DEADLOCK FALSE
