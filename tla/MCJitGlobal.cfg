SPECIFICATION OwnSpec
CONSTANTS
  Programs <- GlobalPrograms
  Bindings <- MCBindings
  CODE_AREA_SIZE = 16384
  ApiMayFail = FALSE
  MaxCalls = 9
  MaxRebinds = 1
  DictObjs <- MCDictObjs
  NLocals = 3
  EntryRsp = 1000
  StackDepth <- MCStackDepth
PROPERTY
  ImplementsLiveBytecode
CHECK_DEADLOCK FALSE
