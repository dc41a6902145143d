SPECIFICATION Spec
CONSTANTS
    Resource <- MCResource
    Sub <- MCSub
    Grouping = {"cluster"}
    Versions = {1, 2}
INVARIANTS TypeOK SuccessDeploys
PROPERTY SubResourcesFirst
