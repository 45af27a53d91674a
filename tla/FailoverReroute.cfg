SPECIFICATION FailoverSpec
CONSTANTS
    FleetNode <- MCFleetNode
    FleetStatus = {"healthy", "dead"}
    Hint = {"us-east"}
    MaxEntries = 1
PROPERTY ReroutedToLeader
CHECK_DEADLOCK FALSE
