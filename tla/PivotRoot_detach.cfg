SPECIFICATION Spec
CONSTANTS
    Dests <- MC_Dests
    Below <- MC_Below
    Volumes <- MC_Volumes
    HostShared = TRUE
    MayFail = {"detach"}
    MaxMounts = 8
INVARIANTS HostHidden
