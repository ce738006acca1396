\* The script ends.
SPECIFICATION Spec
CONSTANTS
    a = a
    ab = ab
    b = b
    Containers = {a}
    Target = a
    Matched = {a}
    Dests <- MC_Dests
    Below <- MC_Below
    Volumes <- DeepVolumes
    Directories = {"/srv", "/srv/sub", "/srv/sub/deep"}
    MaxMounts = 0
CHECK_DEADLOCK FALSE
INVARIANTS HostKept
