SPECIFICATION Spec
CONSTANTS
    p1 = p1
    p2 = p2
    s1 = s1
    s2 = s2
    Packets <- OnePacket
    Symbols <- OneSymbol
    Symbol <- SymbolOfOne
    Rank <- RankOfOne
    Quantity = 2
    EntryInPieces = TRUE
    MaxDay = 3
    MaxCancels = 0
    MaxSlots = 1
    MaxSessions = 2
    MaxFaults = 1
    PromptRestart = TRUE
INVARIANTS
    NeverShort
    AtMostOneTimedExit
PROPERTIES
    RowEndsSold
    ExitSessionKept
    TimedExitInWindow
