SPECIFICATION DisasmSpec
CONSTANTS
  Programs <- TightPrograms
  Bindings <- MCBindings
  CODE_AREA_SIZE = 64
  MaxOps = 0
INVARIANT
  CodeInsideArea
CHECK_DEADLOCK FALSE
