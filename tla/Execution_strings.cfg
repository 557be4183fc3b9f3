SPECIFICATION ExecutionSpec
CONSTANTS
  g = g
  p = p
  a = a
  b = b
  Symbols = {g}
  NameOf <- DistinctNames
  TypeOf <- StringTypes
  Globals = {g}
  ParamLists <- NoParams
  NodeClasses = {"Binary_Expression", "Assignment", "While_Instruction", "Function_Call", "Return_Instruction"}
  SourceTypes = {"string"}
  MaxNodes = 6
  MaxFunctions = 2
  MaxArgs = 0
  MaxActivations = 2
  MaxBlocks = 4
  LoopExits = {}
INVARIANTS
  TypeOK
  ConstStringsDefined
  StringFunctionsDeclared
  FreedOnceAndLast
  OnlyFreesMissValues
  NothingLeaks
  DanglingIsInherited
  FreedByMaker
PROPERTIES
  HeapUsedLegally
