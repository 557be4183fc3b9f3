SPECIFICATION Spec
CONSTANTS
  Names = {"f"}
  Rules = {"declaration", "function_declarator", "function_definition", "instruction"}
  MaxSize = 4
  MaxSymbols = 3
  MaxArgs = 1
INVARIANTS
  DeclaredBeforeDefined
