\* Two cores and one beside them, each with any of seven cost lines; every probe and
\* every run may be measured right or very long, and every run up to
\* 9 ns short, by the milliseconds it is counted in.
SPECIFICATION Spec
CONSTANTS
    NCores = 2
    k_target_ns_per_sample = 250
    MaxInt = 4095
    Lines <- MCLines
    Disturbances = {0, 3000}
    Truncations = {0, 9}
    LayerArgs = {0, 1, 64}
INVARIANTS
    CalibrationPicksTheBest
    CalibratedSweepIsInRange
    SlowCoreIsSaid
