SPECIFICATION Spec
CONSTANTS
    p1 = p1
    p2 = p2
    p3 = p3
    e1 = e1
    f1 = f1
    f2 = f2
    NoEvent = NoEvent
    Packets <- TwoPackets
    Filing <- FilingsOfTwo
    Legacy <- NoPackets
    RowId <- RowIdOfTwo
    Event <- OneEventOfTwo
    NotifyApproveOnly = FALSE
    DecisionLimit = 2
    OperatorVerdicts <- NoVerdicts
    OperatorReports <- NoVerdicts
    WindowEnds = FALSE
    MaxCommands = 0
    MaxFaults = 0
INVARIANTS
    SuppressedByApproval
