SPECIFICATION DisasmSpec
CONSTANTS
  Programs <- TightPrograms
  Bindings <- MCBindings
  CODE_AREA_SIZE = 100
  MaxOps = 0
INVARIANT
  ReadsInside
CHECK_DEADLOCK FALSE
