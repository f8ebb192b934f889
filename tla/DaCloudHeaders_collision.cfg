SPECIFICATION MCSpec
CONSTANTS
  Request = {h1, h2}
  Names <- MCNames
  Texts <- MCTexts
  Nul = "0"
  BUFLEN = 6
  LENGTHS = 40
  MaxLength = 2
  MaxAdds = 2
  Faults = {"header", "key", "value"}
INVARIANTS
  SameKeySameRequest
CHECK_DEADLOCK FALSE
