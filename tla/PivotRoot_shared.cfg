SPECIFICATION Spec
CONSTANTS
    Dests <- MC_Dests
    Below <- MC_Below
    Volumes <- MC_Volumes
    HostShared = TRUE
    MayFail = {"private"}
    MaxMounts = 8
INVARIANTS HostKept
