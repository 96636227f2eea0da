----------------------------- MODULE MCCapture -----------------------------
(* The capture jobs, the activation that allows them, the store of owner histories, the  *)
(* classification recorded with a job, the evidence of notifications and the research    *)
(* trial with two passes, in one run.  They share no variable; the initial state chooses *)
(* the one that moves.                                                                   *)
EXTENDS MCCaptureJobs, Records, Overlapped

CONSTANTS o1, o2, d1, d2, c1, c2, n1, r1, r2, i1, i2, x

VARIABLE part

\* Two operators and two drafts, one boundary; an active registry altered by hand.
EditedByHand == {[status |-> "active", definition |-> d1, prepared |-> 0, at |-> 1]}

\* Two syncs over two quarters; the second address may serve the first archive, and a
\* snapshot of format 1 holds the first quarter.
ServedArchives == <<{c1}, {c1, c2}>>
FirstQuarter == <<c1>>

\* Filings of one issuer, on the second of the two days of a year unless said otherwise.
Original(n, y, m) ==
    [number |-> n, filed |-> 2 * y + 1, form |-> "4", amendment |-> FALSE, original |-> 0,
     owners |-> "owner", trades |-> {<<y, m>>}, invalid |-> FALSE]
Amendment(n, filed, y, m) ==
    [Original(n, y, m) EXCEPT !.filed = filed, !.amendment = TRUE, !.original = 2 * y + 1]

\* A trade in the first month of each of three years.  The third year's may be filed twice,
\* so that an amendment of it is ambiguous; it may be amended twice on the first of January,
\* to one month and to another; the second year's may be amended later, and an invalid
\* filing may come last.
OwnerFilings ==
    {Original(1, 1, 1), Original(2, 2, 1), Original(3, 3, 1), Original(4, 3, 2),
     Amendment(5, 8, 3, 2), Amendment(6, 8, 3, 1), Amendment(7, 9, 2, 2),
     [Original(8, 4, 1) EXCEPT !.invalid = TRUE]}

ASSUME Trial!ActivationAssumption
ASSUME Archive!HistoryAssumption
ASSUME Owner!OwnerAssumption

\* One packet of notifications, which a process of an older build may deliver too, and two
\* runs of the monitor that may overlap.
ASSUME Ev!EvidenceAssumption

\* The trial's first candidate is for the first of two sessions, and written in time or when
\* that session is over; it is still held on the second session, and both have one symbol.
TrialSignals  == i1 :> 0 @@ i2 :> 1
TrialWritings == i1 :> {0, 4} @@ i2 :> {1}
TrialRanks    == i1 :> 1 @@ i2 :> 2
TrialNames    == [i \in {i1, i2} |-> x]
TrialStays    == i1 :> 2 @@ i2 :> 1
Cutoffs       == <<1, 3>>
Opens         == <<2, 4>>

ASSUME Passes!TrialAssumption

Moving(name) == part = name

\* One thing goes wrong with the evidence: a fault, a database that is put back, or a
\* clock that is set back.
OneTrouble == e_faults' + e_restores' + e_setbacks' <= 1

InitCapture ==
    /\ part \in {"jobs", "activation", "history", "owner", "evidence", "trial"}
    /\ Init /\ Trial!Init /\ Archive!Init /\ Owner!Init /\ Ev!Init /\ Passes!Init
    /\ Moving("jobs") \/ \A j \in Jobs : evidence[j] = "none" /\ attempts[j][2] = "none"
    /\ Moving("activation") \/ (a_deployed = Trial!Draft(d1) /\ a_evidence = {})
    /\ Moving("history") \/ h_upstream[2] = c2

NextCapture ==
    /\ \/ Moving("jobs") /\ Next
            /\ UNCHANGED <<activation, history, owner, delivery, passes>>
       \/ Moving("activation") /\ Trial!Next
            /\ UNCHANGED <<vars, history, owner, delivery, passes>>
       \/ Moving("history") /\ Archive!Next
            /\ UNCHANGED <<vars, activation, owner, delivery, passes>>
       \/ Moving("owner") /\ Owner!Next
            /\ UNCHANGED <<vars, activation, history, delivery, passes>>
       \/ Moving("evidence") /\ Ev!Next /\ OneTrouble
            /\ UNCHANGED <<vars, activation, history, owner, passes>>
       \/ Moving("trial") /\ Passes!Next
            /\ UNCHANGED <<vars, activation, history, owner, delivery>>
       \/ /\ \/ Moving("owner") /\ c_year = 5            \* the filings of the pool end
             \/ Moving("trial") /\ t_clock = t_MaxClock   \* and so does the trial's clock
          /\ UNCHANGED <<vars, activation, history, owner, delivery, passes>>
    /\ UNCHANGED part

\* The capture task runs as in CaptureJobs; nothing is asked of the others.
FairCapture ==
    /\ InitCapture
    /\ [][NextCapture]_<<vars, part, activation, history, owner, delivery, passes>>
    /\ WF_vars(Moving("jobs")
                 /\ \E w \in Workers : Claim(w) \/ ClaimNothing(w) \/ Process(w) \/ Handle(w))
    /\ \A j \in Jobs : WF_vars(Moving("jobs") /\ Time(j))

\* Every signal's market data are kept in the end, with the exceptions that SignalKept names
\* (capture.py).
SignalsKept == Moving("jobs") => SignalKept
=============================================================================
