\* As Pacing.cfg.
SPECIFICATION Spec
CONSTANTS
    NCores = 2
    k_target_ns_per_sample = 250
    MaxInt = 4095
    Lines <- MCLines
    Disturbances = {0, 3000}
    Truncations = {0, 9}
    LayerArgs = {0, 1, 64}
INVARIANT FastCoreIsSaid
