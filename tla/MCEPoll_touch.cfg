SPECIFICATION Spec
CONSTANTS
  FDs = {f1, f2}
  Null = Null
  EVENTSPERCYCLE = 2
  Events = {"IN", "OUT"}
INVARIANT NoDanglingRepeat
