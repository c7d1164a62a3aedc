SPECIFICATION OwnSpec
CONSTANTS
  Programs <- BalancedPrograms
  Bindings <- MCBindings
  CODE_AREA_SIZE = 16384
  ApiMayFail = TRUE
  MaxCalls = 6
  MaxRebinds = 1
  DictObjs <- MCDictObjs
  NLocals = 3
  EntryRsp = 1000
  StackDepth <- MCStackDepth
INVARIANTS
  FrameIntact
  StackAtDepth
PROPERTY
  StackEffects
CHECK_DEADLOCK FALSE
