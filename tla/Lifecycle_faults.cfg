SPECIFICATION Spec
CONSTANTS
    a = a
    b = b
    p1 = p1
    p2 = p2
    p3 = p3
    p4 = p4
    None = None
    Containers = {a}
    Pids = {p1, p2, p3}
    Dests <- MC_Dests
    Below <- MC_Below
    Configs <- MixedConfigs
    MaxFaults = 2
    MaxLeft = 6
    Overlap = {}
SYMMETRY SymmPids
INVARIANTS
    EntrySeesVolumes
    ResumesAsCreated
PROPERTIES
    InfoSurvives
