SPECIFICATION Spec
CONSTANTS
  Tokens <- AllTokens
  Texts <- ShortTexts
  Parts <- AllParts
  DftScheme = "http"
  ByteTexts <- ShortBytes
  Stray = {0, 65}
  MaxAssigns = 1
INVARIANTS
  TypeOK
  BuiltIsParsed
  LocateRejoins
  EncodeDecodable
CHECK_DEADLOCK FALSE
