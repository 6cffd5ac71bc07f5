SPECIFICATION LiveSpec
CONSTANTS
  a = a
  b = b
  Chars <- MCChars
  Texts <- MCTexts
  Nul = Nul
  Junk = Junk
  Modulus = 16
  minCapacity = 2
  MaxSize = 4
  FormatRoom = 2
INVARIANTS NoOverrun Contents
PROPERTY CallsReturn
