\* The script ends.
SPECIFICATION Spec
CONSTANTS
    a = a
    ab = ab
    b = b
    Containers = {a}
    Target = a
    Matched = {a}
    Dests <- MC_Dests
    Below <- MC_Below
    Volumes <- FlatVolumes
    Directories = {"/srv"}
    MaxMounts = 0
CHECK_DEADLOCK FALSE
INVARIANTS HostSpared
