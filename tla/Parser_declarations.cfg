SPECIFICATION Spec
CONSTANTS
  Names = {"f", "x"}
  Rules = {"declaration", "function_definition", "function_declarator", "declarator_list", "parameter_list", "instruction", "unary", "binary", "call"}
  MaxSize = 5
  MaxSymbols = 4
  MaxArgs = 1
INVARIANTS
  TypesClaimed
  SymbolsTyped
  LinesAgree
  TableMatchesOutput
  CallsMatchLines
