SPECIFICATION DisasmSpec
CONSTANTS
  Programs <- MCPrograms
  Bindings <- MCBindings
  CODE_AREA_SIZE = 100
  MaxOps = 4
INVARIANTS
  CompileTypeOK
  CompileInv
  JumpsLand
  ListingInv
PROPERTIES
  RelocNeverAborts
  CompileEnds
  ListingEnds
CHECK_DEADLOCK FALSE
