SPECIFICATION Spec
CONSTANTS
    b1 = b1
    b2 = b2
    n1 = n1
    e1 = e1
    e2 = e2
    Inst = {b1, n1}
    Initial = {b1}
    Exec = {e1}
    Grace = 2
    JoinBy = 1
    ExecLimit = 1
    TerminateLimit = 1
    Capacities = {1, 2}
    MaxApiFailures = 1
    MaxCrashes = 1
    MaxFaults = 1
INVARIANTS TypeOK ScaleInErrorsShown ManagedInv
PROPERTIES ManagedSpec
