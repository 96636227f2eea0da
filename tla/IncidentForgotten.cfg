SPECIFICATION Spec
CONSTANTS
    w1 = w1
    w2 = w2
    i1 = i1
    i2 = i2
    i3 = i3
    Workers <- OneWorker
    Incidents <- TwoIncidents
    Threshold = 1
    RetryAfter = 1
    MaxQueue = 1
    MaxFaults = 0
INVARIANTS
    RecoveryHeard
