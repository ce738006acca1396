SPECIFICATION Spec
CONSTANTS
  Names = {a, b}
  Namespaces = {n1, n2, n3}
  Host = Host
  None = None
  Lengths <- MC_Lengths
INVARIANTS TypeOK CommandOnline RequestsReadBack
PROPERTIES HostRouteKept PairRemoved
