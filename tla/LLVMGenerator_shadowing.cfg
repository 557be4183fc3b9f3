SPECIFICATION Spec
CONSTANTS
  g = g
  p = p
  a = a
  b = b
  Symbols = {a, b}
  NameOf <- ShadowingNames
  TypeOf <- IntTypes
  Globals = {}
  ParamLists <- NoParams
  NodeClasses = {"Compound_Instruction", "Assignment", "Return_Instruction"}
  SourceTypes = {"int"}
  MaxNodes = 5
  MaxFunctions = 1
  MaxArgs = 0
INVARIANTS
  UniqueDefinitions
