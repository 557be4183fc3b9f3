SPECIFICATION Spec
CONSTANTS
  Letters <- ABxy
  Inputs <- ShortTexts
  MaxText = 12
  MaxWritten = 30
  MaxLines = 3
INVARIANTS
  TypeOK
  ResolvesAllAtOnce
  CommentsRemoved
PROPERTIES
  EndsUnlessCaught
