\* The script ends.
SPECIFICATION Spec
CONSTANTS
    a = a
    ab = ab
    b = b
    Containers = {a, ab, b}
    Target = a
    Matched = {a, ab}
    Dests <- MC_Dests
    Below <- MC_Below
    Volumes <- NestedVolumes
    Directories = {"/srv", "/srv/sub"}
    MaxMounts = 1
CHECK_DEADLOCK FALSE
INVARIANTS TypeOK OthersKept HostKept
PROPERTIES StoppedIsRemoved
