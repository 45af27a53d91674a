SPECIFICATION FleetSpec
CONSTANTS
    n1 = n1
    Node = {n1}
    Drains = TRUE
    SelfReports = {TRUE}
    MaxFaults = 3
    d1 = d1
    d2 = d2
    none = none
    Deployment = {d1, d2}
    NoDeployment = none
    Weights = {0, 50}
    MaxChecks = 2
    MaxRestarts = 1
    FleetNode <- MCFleetNode
    FleetStatus = {"healthy", "overloaded", "dead"}
    Hint = {"", "us-east", "europe", "JAPAN", "mars"}
    MaxEntries = 1
    ScaleLoad = {10, 90}
    ScaleStatus = {"healthy", "dead"}
    ScaleNodes = 2
    ScaleOutThresh = 75
    ScaleInThresh = 20
    Cooldown = 2
    MaxDecisions = 3
    Latency = {0, 5, 9}
    Burst = {1, 21}
    MaxBursts = 2
    MaxOutages = 1
    MaxMinutes = 2
    SampleDay = {0, 1, 3}
    SampleValue = {0, 6}
    MaxSamples = 3
    HorizonDays = {0, 2, 30}
    Started = {"metadata", "scheduler", "controlPlane", "gateway", "auth", "worker",
               "deployment", "capacity", "sla"}
    MaxInFlight = 2
INVARIANTS
    ReportsTrue
    PlanSound
    BreachNotPromoted
    TrafficAtRest
    PlacedNoFarther
PROPERTIES
    FailoverKeeps
    CooldownHolds
    RpcsFinished
    Detects
    Recovers
    Ends
    SignalStops
CHECK_DEADLOCK FALSE
