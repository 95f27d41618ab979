SPECIFICATION Spec
CONSTANTS
  Tokens <- AllTokens
  Texts <- NoTexts
  Parts <- NoTexts
  DftScheme = "http"
  ByteTexts <- ShortBytes
  Stray = {0, 65}
  MaxAssigns = 0
INVARIANTS
  DecodeInverts
CHECK_DEADLOCK FALSE
