SPECIFICATION Spec
CONSTANTS
    Images <- MC_Images
    Stem <- MC_Stem
    Shells = {"p", "q"}
    MaxKills = 0
PROPERTIES ImagesReadOnly
