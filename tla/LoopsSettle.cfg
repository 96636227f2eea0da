SPECIFICATION FairLoops
CONSTANTS
    w1 = w1
    w2 = w2
    i1 = i1
    i2 = i2
    i3 = i3
    iw = iw
    io = io
    fn = fn
    fh = fh
    fd = fd
    f1a = f1a
    f1b = f1b
    fl = fl
    Workers <- OneWorker
    Incidents <- TwoIncidents
    Threshold = 2
    RetryAfter = 1
    MaxQueue = 2
    MaxFaults = 1
PROPERTIES
    OutageHeard
    RecoverySettled
    FilingsSettled
