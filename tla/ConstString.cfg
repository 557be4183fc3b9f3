SPECIFICATION Spec
CONSTANTS
  Strings <- ShortStrings
  MaxLength = 5
INVARIANTS
  LengthsDifferByLoneBackslashes
  TextHasItsLength
