--------------------------- MODULE MCCaptureJobs ---------------------------
(* Small instances of CaptureJobs for TLC. *)
EXTENDS CaptureJobs, TLC

CONSTANTS w1, w2, j1, j2, j3

TwoWorkers == {w1, w2}
ThreeJobs  == {j1, j2, j3}

RankOfThree == j1 :> 1 @@ j2 :> 2 @@ j3 :> 3

\* j2 was left behind by an earlier release, j3 is outside the window.
LeftBehind   == {j2}
OutOfWindow  == {j3}
=============================================================================
