SPECIFICATION FairCapture
CONSTANTS
    w1 = w1
    w2 = w2
    j1 = j1
    j2 = j2
    j3 = j3
    o1 = o1
    o2 = o2
    d1 = d1
    d2 = d2
    c1 = c1
    c2 = c2
    n1 = n1
    r1 = r1
    r2 = r2
    i1 = i1
    i2 = i2
    x = x
    Workers <- TwoWorkers
    Jobs <- ThreeJobs
    Rank <- RankOfThree
    Outside <- OutOfWindow
    Upgraded <- LeftBehind
    MaxAttempts = 2
    MaxFaults = 1
    a_Operators = {o1, o2}
    a_Workers = {w1}
    a_Definitions = {d1, d2}
    a_Boundaries = {2}
    a_Lead = 2
    a_Edited <- EditedByHand
    a_MaxClock = 3
    a_MaxSetbacks = 1
    a_MaxCrashes = 1
    h_Syncs = {o1, o2}
    h_Archives = {c1, c2}
    h_Served <- ServedArchives
    h_Malformed = {}
    h_LegacySnapshot <- FirstQuarter
    h_MaxReplaced = 1
    h_MaxFaults = 1
    c_Pool <- OwnerFilings
    c_DaysPerYear = 2
    c_Months = {1, 2}
    c_LastYear = 5
    c_MaxCaptures = 1
    e_Packets = {n1}
    e_OldCode = {n1}
    e_Runs = {r1, r2}
    e_Scheduled = r1
    e_MaxAttempts = 2
    e_MaxClock = 1
    e_MaxFaults = 1
    e_MaxRestores = 1
    e_MaxSetbacks = 1
    t_Workers = {w1, w2}
    t_Scheduled = w1
    t_Items = {i1, i2}
    t_Signal <- TrialSignals
    t_Written <- TrialWritings
    t_Rank <- TrialRanks
    t_Symbol <- TrialNames
    t_Excluded = {}
    t_Legacy = {}
    t_Stays <- TrialStays
    t_Days = 2
    t_Cutoff <- Cutoffs
    t_OpenAt <- Opens
    t_AfterHours = {5}
    t_Horizon = 2
    t_Slots = 1
    t_Floor = 2
    t_FloorDates = 1
    t_Deadline = 5
    t_Transient = 1
    t_MaxSetback = 2
    t_MaxFaults = 1
    t_MaxClock = 5
INVARIANTS
    LeaseNeverLost
    MarketAskedOnce
    SettledTruly
    ProspectiveOnly
    HistoryTrue
    EvidenceTrue
    TrialSound
PROPERTIES
    SignalsKept
