SPECIFICATION Spec
CONSTANTS
    a = a
    b = b
    p1 = p1
    p2 = p2
    p3 = p3
    p4 = p4
    None = None
    Containers = {a}
    Pids = {p1, p2}
    Dests <- MC_Dests
    Below <- MC_Below
    Configs <- NoConfigs
    MaxFaults = 0
    MaxLeft = 4
    Overlap = {}
SYMMETRY SymmPids
INVARIANTS
    PidFileNamesEntry
