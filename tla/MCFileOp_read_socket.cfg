SPECIFICATION LiveSpec
CONSTANTS
  IsWrite = FALSE
  HupOnEnd = TRUE
  RdyOnEnd = TRUE
  Ops = {"rw", "rwAll", "srAll"}
  Habits = {"nest", "cancel"}
  Lens = {2}
  MaxAvail = 3
  MaxBytes = 4
  MaxOps = 3
  MaxDepth = 3
INVARIANTS NoLostEnd CallbackOnce EndIsTheEnd NoCallAfterCancel
PROPERTIES EndReported DataReported
CHECK_DEADLOCK FALSE
