SPECIFICATION Spec
CONSTANTS
  g = g
  p = p
  a = a
  b = b
  Symbols = {g, p}
  NameOf <- DistinctNames
  TypeOf <- MixedTypes
  Globals = {g}
  ParamLists <- OneParam
  NodeClasses = {"Unary_Expression", "Binary_Expression", "Function_Call", "Return_Instruction", "Assignment", "Cond_Instruction", "While_Instruction", "Do_Instruction", "For_Instruction", "Expression_Instruction", "Instruction", "Compound_Instruction"}
  SourceTypes = {"int"}
  MaxNodes = 4
  MaxFunctions = 1
  MaxArgs = 1
INVARIANTS
  OperandsVisited
  RegistersNamedOnce
  ValuesComputed
  MemoryAllocated
