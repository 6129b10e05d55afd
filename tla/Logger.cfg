\* Two runs of up to four calls: a line before, in and after a progress line, a
\* death at each point, and a second run under another or the same name.
SPECIFICATION Spec
CONSTANTS
    Times = {"t1", "t2"}
    MaxCalls = 4
    MaxRuns = 2
INVARIANTS
    DeathKeepsTheReport
    ScreenShowsEveryLine
CHECK_DEADLOCK FALSE
