CONSTANTS
  SchemeChars = {"A", "a"}
  Lower <- MCLower
  DigitOf <- MCDigitOf
  Blanks = {" "}
  UlongMax = 90
  Alphabet <- MCAlphabet
  Stanzas <- MCStanzas
  MaxChars = 3
  Values <- MCValues
  OctetBits = 2
  MaxNumber = 5
SPECIFICATION MCSpec
INVARIANTS
  DenotesParts
  ThrowsWhenInvalid
  WritesFormat
  AddressesConvert
CHECK_DEADLOCK FALSE
