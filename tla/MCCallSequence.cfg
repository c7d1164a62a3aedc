SPECIFICATION Spec
CONSTANTS
  Slots <- MCSlots
  Words <- MCWords
INVARIANT
  CallInv
PROPERTY
  ImplementsAlignedCall
CHECK_DEADLOCK FALSE
