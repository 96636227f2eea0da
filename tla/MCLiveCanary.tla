--------------------------- MODULE MCLiveCanary ---------------------------
(* Small instances of LiveCanary for TLC. *)
EXTENDS LiveCanary, TLC

CONSTANTS p1, p2, s1, s2

OnePacket  == {p1}
TwoPackets == {p1, p2}
OneSymbol  == {s1}
TwoSymbols == {s1, s2}

SymbolOfOne  == p1 :> s1
SymbolsApart == p1 :> s1 @@ p2 :> s2

RankOfOne == p1 :> 1
RankOfTwo == p1 :> 1 @@ p2 :> 2
=============================================================================
