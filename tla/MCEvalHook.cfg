SPECIFICATION Spec
CONSTANTS
  t1 = t1
  t2 = t2
  a1 = a1
  a2 = a2
  a3 = a3
  Threads <- MCThreads
  Functions <- MCFunctions
  TestFns <- MCTestFns
  Builders <- MCBuilders
  Areas <- MCAreas
  MaxDepth = 2
SYMMETRY HookSymmetry
INVARIANTS
  HookTypeOK
  SwitchWorks
  AreasMatchActivations
CHECK_DEADLOCK FALSE
