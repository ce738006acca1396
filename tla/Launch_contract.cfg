\* The launch stops when both processes ended.
SPECIFICATION Spec
CONSTANTS
  Residue <- NoStrayGo
CHECK_DEADLOCK FALSE
INVARIANTS TypeOK GroupRemoved
PROPERTIES HoldsUntilReady HeldIsReleased LaunchesOrEnds
