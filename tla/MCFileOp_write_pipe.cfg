SPECIFICATION Spec
CONSTANTS
  IsWrite = TRUE
  HupOnEnd = TRUE
  RdyOnEnd = FALSE
  Ops = {"rw", "rwAll", "rwvAll", "sendFile", "close", "wait"}
  Habits = {"nest", "cancel", "tail"}
  Lens = {2, 3}
  MaxAvail = 3
  MaxBytes = 4
  MaxOps = 3
  MaxDepth = 3
INVARIANTS TypeOK NoOpForgotten Conservation
CHECK_DEADLOCK FALSE
