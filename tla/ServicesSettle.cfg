SPECIFICATION FairServices
CONSTANTS
    w1 = w1
    w2 = w2
    i1 = i1
    i2 = i2
    i3 = i3
    x = x
    y = y
    p1 = p1
    r1 = r1
    Workers <- OneWorker
    Scheduled = w1
    Items <- Three
    Signal <- Signals
    Written <- Writings
    Rank <- Ranks
    Symbol <- Names
    Excluded <- Nothing
    Legacy <- Old
    Stays <- Exits
    Days = 2
    Cutoff <- Cutoffs
    OpenAt <- Opens
    AfterHours <- Evenings
    Horizon = 2
    Slots = 1
    Floor = 1
    FloorDates = 1
    Deadline = 2
    Transient = 1
    MaxSetback = 2
    MaxFaults = 1
    MaxClock = 6
    f_Workers = {w1, w2}
    f_Scheduled = w1
    f_Jobs = {i1, i2}
    f_Rank <- SignalRanks
    f_Old = {}
    f_Ahead = {i2}
    f_Refused = {i1}
    f_Unfit = {}
    f_MaxAttempts = 2
    f_MaxFaults = 1
    o_Callers = {w1, w2}
    o_Packets = {i1, i2}
    o_SymbolOf <- PacketSymbols
    o_Cadence = 2
    o_MaxClock = 2
    o_MaxSetbacks = 1
    b_Symbols = {1, 2}
    b_Wanted <- WantedBars
    b_PerCycle = 1
    b_Failing = {1}
    b_MaxFaults = 1
    d_Kinds = {"autopilot", "canary"}
    d_MaxFaults = 4
INVARIANTS
    UniverseKept
    FeaturesTrue
    ChainsSpaced
    BarsTrue
    QuarantineAlone
PROPERTIES
    VerdictsKept
    TrialSettled
    SignalsSettled
    SymbolsServed
    MissingRecorded
    WorkerReturns
CHECK_DEADLOCK FALSE
