SPECIFICATION FairExecution
CONSTANTS
  g = g
  p = p
  a = a
  b = b
  Symbols = {g, a}
  NameOf <- DistinctNames
  TypeOf <- StringTypes
  Globals = {g}
  ParamLists <- NoParams
  NodeClasses = {"Cond_Instruction", "While_Instruction", "Do_Instruction", "For_Instruction", "Return_Instruction", "Expression_Instruction"}
  SourceTypes = {"int"}
  MaxNodes = 5
  MaxFunctions = 1
  MaxArgs = 0
  MaxActivations = 1
  MaxBlocks = 0
  LoopExits = {2, 3, 5, 6, 7, 8, 9}
INVARIANTS
  BranchesResolved
  ValuesComputed
  NoFallThrough
PROPERTIES
  CallsEnd
