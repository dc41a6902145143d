SPECIFICATION Spec
CONSTANTS
    b1 = b1
    b2 = b2
    n1 = n1
    e1 = e1
    e2 = e2
    Inst = {b1, b2, n1}
    Initial = {b1, b2}
    Exec = {e1, e2}
    Grace = 2
    JoinBy = 1
    ExecLimit = 1
    TerminateLimit = 1
    Capacities = {1, 2}
    MaxApiFailures = 0
    MaxCrashes = 0
    MaxFaults = 0
SYMMETRY Symmetry
INVARIANTS ServingAreProtected
PROPERTIES NoServingLost
