\* Three cores, so that a core can be skipped, interrupted or found faulty before,
\* between and after others, and a system that may honour a pin loosely.
SPECIFICATION Spec
CONSTANTS
    NCores = 3
    MaxRounds = 1
    ProbeChoices = {{"ch"}, {"rbx"}, {"ch", "rbx"}}
    Platforms = {"linux", "windows"}
    LoosePins = TRUE
INVARIANTS
    TypeOK
    DetectionIsNeverLost
    NoWrongBlame
    CleanMeansComplete
    InterruptedMeansPartial
    EveryCoreAccountedFor
PROPERTY
    Terminates
