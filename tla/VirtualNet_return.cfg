SPECIFICATION Spec
CONSTANTS
  Names = {a}
  Namespaces = {n1, n2}
  Host = Host
  None = None
  Lengths <- MC_Lengths
PROPERTIES ReturnLeavesNoPair
