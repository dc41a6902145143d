SPECIFICATION Spec
CONSTANTS
    i1 = i1
    i2 = i2
    i3 = i3
    i4 = i4
    i5 = i5
    l1 = l1
    Stack = {i1, i2, i3, i4, i5}
    Launched = {l1}
    MinBackends = 4
    GroupLimit = 2
    DeleteLimit = 3
    MaxRuns = 4
    MaxFails = 2
    MaxDeaths = 1
SYMMETRY Symmetry
INVARIANTS GroupIsProtected ImportResumes 
PROPERTY KeepKeeps
CHECK_DEADLOCK FALSE
