SPECIFICATION MCSpec
CONSTANTS
  Request = {h1}
  Names <- MCNames
  Texts <- MCTexts
  Nul = "0"
  BUFLEN = 6
  LENGTHS = 40
  MaxLength = 80
  MaxAdds = 4
  Faults = {"header", "key", "value"}
INVARIANTS
  TypeOK
  EveryHeaderCounts
  StreamingAgrees
CHECK_DEADLOCK FALSE
