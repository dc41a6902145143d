SPECIFICATION Spec
CONSTANTS
    Secret = {"old", "new"}
    MaxRuns = 4
    MaxCrashes = 2
    MaxChanges = 3
INVARIANTS  MigratedUnlessDisturbed
CHECK_DEADLOCK FALSE
