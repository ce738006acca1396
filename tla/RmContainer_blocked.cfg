\* The script ends.
SPECIFICATION Spec
CONSTANTS
    a = a
    ab = ab
    b = b
    Containers = {a, ab}
    Target = a
    Matched = {a, ab}
    Dests <- MC_Dests
    Below <- MC_Below
    Volumes <- FlatVolumes
    Directories = {"/srv"}
    MaxMounts = 0
CHECK_DEADLOCK FALSE
PROPERTIES AlwaysRemoved
