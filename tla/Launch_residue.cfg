\* The launch stops when both processes ended.
SPECIFICATION Spec
CONSTANTS
  Residue <- AnyResidue
CHECK_DEADLOCK FALSE
PROPERTIES ProceedsOnInstruction
