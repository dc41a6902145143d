SPECIFICATION SubnetSpec
CONSTANTS
    Subnet = {"s1", "s2", "s3"}
    Zone = {"a", "b"}
    Table = {"main", "other"}
    None = "none"
INVARIANTS OtherZone RefusedOnlyWithoutSharer
CHECK_DEADLOCK FALSE
