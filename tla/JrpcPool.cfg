SPECIFICATION FairSpec
CONSTANTS
    Calls = {"c1", "c2", "c3"}
    Authed = TRUE
    Deadlines = {"c1", "c2", "c3"}
    MayClose = TRUE
    Ips <- MCIps
    Healthy = {"ip2"}
INVARIANTS AnswersAreTrue HealthyAreKept
PROPERTIES CallsReturn 
CHECK_DEADLOCK FALSE
