\* Two parallel calls on two files in two contents; two runs with three
\* calls in all; one outside edit, failed undo, lost save or restart.
SPECIFICATION Spec
CONSTANTS
    Files = {f1, f2}
    Contents = {c1, c2}
    Absent = Absent
    None = None
    Tools = {t1, t2}
    MaxRuns = 2
    MaxCalls = 3
    MaxFaults = 1
SYMMETRY Symmetry
INVARIANTS
    StacksApply
    OpenIffPending
    StoreAgrees
CHECK_DEADLOCK FALSE
