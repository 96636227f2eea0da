SPECIFICATION Spec
CONSTANTS
    p1 = p1
    p2 = p2
    p3 = p3
    e1 = e1
    f1 = f1
    f2 = f2
    NoEvent = NoEvent
    Packets <- ThreePackets
    Filing <- FilingsTwinned
    Legacy <- TwoPackets
    RowId <- RowIdOfThree
    Event <- OneEventOfThree
    NotifyApproveOnly = FALSE
    DecisionLimit = 2
    OperatorVerdicts <- EitherWay
    OperatorReports <- EitherWay
    WindowEnds = FALSE
    MaxCommands = 2
    MaxFaults = 1
INVARIANTS
    LedgersTrue
    OneAlertPerEvent
PROPERTIES
    DecisionKept
