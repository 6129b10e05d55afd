SPECIFICATION Spec
CONSTANTS
    Platforms = {"linux", "windows"}
    Modes = {"run", "selftest"}
    NCores = 2
    MaxPasses = 3
INVARIANTS
    DetectionHasACause
    CrashIsNeverADetection
    DeathOnlyFromDamage
    SelfTestRecovers
    NoHalfPreparation
