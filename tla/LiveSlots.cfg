SPECIFICATION SlotsSpec
CONSTANTS
    p1 = p1
    p2 = p2
    s1 = s1
    s2 = s2
    Packets <- TwoPackets
    Symbols <- TwoSymbols
    Symbol <- SymbolsApart
    Rank <- RankOfTwo
    Quantity = 1
    EntryInPieces = FALSE
    MaxDay = 3
    MaxCancels = 0
    MaxSlots = 1
    MaxSessions = 1
    MaxFaults = 1
    PromptRestart = FALSE
INVARIANTS
    SlotCap
PROPERTIES
    NoEntryOverUnknown
