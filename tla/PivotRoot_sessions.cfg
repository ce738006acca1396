SPECIFICATION Spec
CONSTANTS
    Dests <- MC_Dests
    Below <- MC_Below
    Volumes <- MC_Volumes
    HostShared = TRUE
    MayFail = {"bind", "mkdir", "pivot", "chdir", "detach", "rmdir"}
    MaxMounts = 8
INVARIANTS TypeOK HostKept VolumesInside NeverBlocked
