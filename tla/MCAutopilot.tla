---------------------------- MODULE MCAutopilot ----------------------------
(* Small instances of Autopilot for TLC. *)
EXTENDS Autopilot, TLC

CONSTANTS p1, p2, p3, e1, f1, f2

TwoPackets   == {p1, p2}
ThreePackets == {p1, p2, p3}
NoPackets    == {}

\* Each packet its own filing, or the first two rows of one filing.
FilingsOfTwo   == p1 :> f1 @@ p2 :> f2
FilingsTwinned == p1 :> f1 @@ p2 :> f1 @@ p3 :> f2
RowIdOfTwo     == p1 :> 1 @@ p2 :> 2
RowIdOfThree   == p1 :> 1 @@ p2 :> 2 @@ p3 :> 3

\* Every packet reports one and the same trade.
OneEventOfTwo   == p1 :> e1 @@ p2 :> e1
OneEventOfThree == p1 :> e1 @@ p2 :> e1 @@ p3 :> e1

EitherWay    == {"approve", "deadletter"}
OnlyApprove  == {"approve"}
NoVerdicts   == {}
=============================================================================
