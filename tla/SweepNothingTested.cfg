\* One core and an interrupt are enough.
SPECIFICATION Spec
CONSTANTS
    NCores = 1
    MaxRounds = 1
    ProbeChoices = {{"ch"}}
    Platforms = {"linux", "windows"}
    LoosePins = FALSE
INVARIANT
    NothingTestedMeansAllSkipped
