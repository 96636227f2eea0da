SPECIFICATION FairSpec
CONSTANTS
    p1 = p1
    p2 = p2
    s1 = s1
    s2 = s2
    Packets <- OnePacket
    Symbols <- OneSymbol
    Symbol <- SymbolOfOne
    Rank <- RankOfOne
    Quantity = 1
    EntryInPieces = FALSE
    MaxDay = 3
    MaxCancels = 0
    MaxSlots = 1
    MaxSessions = 2
    MaxFaults = 1
    PromptRestart = TRUE
PROPERTIES
    OverdueSold
