SPECIFICATION Spec
CONSTANTS
    ScaleLambdas <- MCScaleLambdas
    Dns = TRUE
    Commands = {"import", "update", "dryUpdate", "destroy"}
    Upgraded = {"joinRole", "join", "scale", "lt", "asg", "table"}
    MaxRuns = 4
    MaxAborts = 2
    MaxQuiet = 1
INVARIANTS
    NeededIsKept  LaunchedInstancesJoin GroupUsesTemplate RolesLive
    OneTargetUnlessReplaced  
PROPERTIES DryRunKeepsResources TreeSpec
CHECK_DEADLOCK FALSE
