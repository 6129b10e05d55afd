SPECIFICATION Spec
CONSTANTS
    Platforms = {"linux", "windows"}
    Modes = {"run"}
    NCores = 2
    MaxPasses = 3
INVARIANTS
    NothingSurvives
