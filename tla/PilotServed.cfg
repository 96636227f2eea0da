SPECIFICATION FairSpec
CONSTANTS
    p1 = p1
    p2 = p2
    p3 = p3
    e1 = e1
    f1 = f1
    f2 = f2
    NoEvent = NoEvent
    Packets <- TwoPackets
    Filing <- FilingsOfTwo
    Legacy <- NoPackets
    RowId <- RowIdOfTwo
    Event <- OneEventOfTwo
    NotifyApproveOnly = TRUE
    DecisionLimit = 1
    OperatorVerdicts <- EitherWay
    OperatorReports <- OnlyApprove
    WindowEnds = TRUE
    MaxCommands = 1
    MaxFaults = 1
INVARIANTS
    SuppressedByApproval
PROPERTIES
    EveryPacketDecided
    EveryReportSettled
