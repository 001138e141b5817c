SPECIFICATION Spec
CONSTANTS
    Isins = {i1, i2}
    Files = {f1, f2}
    MaxRuns = 3
INVARIANTS TypeOK RunFileIsHonest SuccessIsComplete StoppedRunIsResumable
PROPERTY ProgressIsKept
CHECK_DEADLOCK FALSE
