SPECIFICATION Spec
CONSTANTS
  Texts <- ShortTexts
  MaxLength = 5
  IntBits = 8
INVARIANTS
  LexemesAreMaximal
  LocationsRight
  ComplaintsNameLines
  IntegersReadBack
