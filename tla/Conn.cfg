SPECIFICATION FairSpec
CONSTANTS
    Peer = {"a", "b"}
    Request = {"call", "note", "back"}
    To <- MCTo
    Notify = {"note"}
    MaxFaults = 1
    Deadlines = {"call"}
INVARIANTS TypeOK RunNeverBlocks HandledInOrder NothingLeft
PROPERTIES RequestResponseSpec DeadlinesHold CallsReturn
CHECK_DEADLOCK FALSE
