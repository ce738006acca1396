SPECIFICATION Spec
CONSTANTS
    Images <- MC_Images
    Stem <- MC_Stem
    Shells = {"p"}
    MaxKills = 0
INVARIANTS RefusedIsComplete
