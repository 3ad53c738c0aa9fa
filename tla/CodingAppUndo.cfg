\* One prompt, nobody else changes anything, no write fails.
SPECIFICATION Spec
CONSTANTS
    Files = {f1, f2}
    Contents = {c1, c2}
    Absent = Absent
    None = None
    Tools = {t1, t2}
    MaxRuns = 1
    MaxCalls = 2
    MaxFaults = 0
SYMMETRY Symmetry
INVARIANT RefusalIsTrue
CHECK_DEADLOCK FALSE
