SPECIFICATION Spec
CONSTANTS
  g = g
  p = p
  a = a
  b = b
  Symbols = {g}
  NameOf <- DistinctNames
  TypeOf <- MixedTypes
  Globals = {g}
  ParamLists <- NoParams
  NodeClasses = {"Binary_Expression", "Expression_Instruction", "Return_Instruction"}
  SourceTypes = {"string"}
  MaxNodes = 5
  MaxFunctions = 2
  MaxArgs = 0
INVARIANTS
  FreesOnlyOwnStrings
