\* Up to three arguments, so that a flag can be repeated or overruled, and up to
\* four lines, so that every question can be answered and one answered wrongly.
SPECIFICATION Spec
CONSTANTS
    Minutes = {"m1", "m2"}
    MaxArgs = 3
    MaxLines = 4
INVARIANTS
    SweepIsReady
    RefusalIsEarly
PROPERTIES
    CommandLineStands
    StartupEnds
CHECK_DEADLOCK FALSE
