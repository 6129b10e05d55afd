\* A run of three time units; rounds of up to three so that a round can overrun
\* the deadline and skip a progress mark; a cap of two so that a third detection
\* goes unlisted; two samples of two values so that none, one or both drift.
SPECIFICATION Spec
CONSTANTS
    Duration = 3
    MaxStep = 3
    Lag = 1
    k_progress_interval_s = 2
    k_max_reported_per_cpu = 2
    SampleCount = 2
    Values = {v1, v2}
INVARIANTS
    TypeOK
    ReportIsComplete
    DriftIsAgainstOwnRounds
    ProgressNeverBacklogs
    FullDurationOrMarked
    InterruptIsPrompt
PROPERTIES
    RunEnds
    ImplementsContract
