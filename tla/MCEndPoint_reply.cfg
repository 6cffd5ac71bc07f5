SPECIFICATION Spec
CONSTANTS
  Objects = {o1, o2}
  Base = 2
  Addresses <- MCAddresses
  Chars <- MCChars
  Garbage <- MCGarbage
  Nul = Nul
  Habits = {}
  None = None
INVARIANTS Addressed WritesFit AddressOrder
