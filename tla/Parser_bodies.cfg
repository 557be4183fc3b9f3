SPECIFICATION Spec
CONSTANTS
  Names = {"f", "x"}
  Rules = {"declaration", "function_definition", "function_declarator", "parameter_list", "local_declaration", "instruction", "compound", "empty", "assignment", "if", "if_else", "while", "do", "for"}
  MaxSize = 4
  MaxSymbols = 4
  MaxArgs = 1
INVARIANTS
  TypeOK
  NoInternalError
  ScopesMatchBlocks
  GlobalsAddressed
  HeadingsMeetDefinitions
PROPERTIES
  TablesScopeLexically
