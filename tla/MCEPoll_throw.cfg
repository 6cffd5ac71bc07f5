SPECIFICATION ThrowSpec
CONSTANTS
  FDs = {f1, f2, f3}
  Null = Null
  EVENTSPERCYCLE = 2
  Events = {"IN", "ERR"}
SYMMETRY Symmetry
INVARIANTS TypeOK NoDanglingFD
