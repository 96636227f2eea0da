------------------------ MODULE OptionChainAdmission ------------------------
(***************************************************************************)
(* research/option_chain_admission.py: before a would-be approval is       *)
(* committed, the autopilot captures the symbol's option chain by a child  *)
(* process.  The admission of a packet is committed before the launch, so  *)
(* that no crash can launch twice for a packet, and a launch keeps the     *)
(* provider from being asked about the symbol again for a cadence.         *)
(***************************************************************************)
EXTENDS Naturals

CONSTANTS
    Callers,     \* processes inside capture_predecision_option_chain
    Packets,
    SymbolOf,    \* the issuer symbol of each packet
    Cadence,     \* OPTION_CHAIN_PROVIDER_CADENCE_SECONDS
    MaxClock,    \* bound on the clock
    MaxSetbacks  \* bound on deaths and on clocks set back

AdmissionAssumption ==
    /\ DOMAIN SymbolOf = Packets
    /\ Cadence \in Nat \ {0}
    /\ MaxClock \in Nat
    /\ MaxSetbacks \in Nat

VARIABLES
    clock,
    admission,  \* research_option_chain_admissions
    call,       \* what each caller is doing
    launched,   \* children started for each packet
    setbacks

vars == <<clock, admission, call, launched, setbacks>>

Final    == {"succeeded", "failed"}    \* "failed" stands for "timed_out" too
Launches == Final \cup {"admitted"}   \* rows that count towards the cadence
Times    == 0 .. MaxClock

Absent == [status |-> "absent"]
Row == {Absent} \cup [status : Launches, at : Times]
       \cup [status : {"skipped_cadence"}, at : Times, prior : Packets]
Idle == [at |-> "idle"]
Calls ==
    {Idle} \cup [at : {"admit"}, packet : Packets, now : Times]
           \cup [at : {"launch"}, packet : Packets]
           \cup [at : {"finalize"}, packet : Packets, ran : BOOLEAN]

Init ==
    /\ clock = 0
    /\ admission = [p \in Packets |-> Absent]
    /\ call = [c \in Callers |-> Idle]
    /\ launched = [p \in Packets |-> 0]
    /\ setbacks = 0

At(c, stage) == call[c].at = stage
Goto(c, next) == call' = [call EXCEPT ![c] = next]
Rows == {p \in Packets : admission[p].status # "absent"}

\* The caller reads the clock before it opens the transaction.
Call(c, p) ==
    /\ At(c, "idle")
    /\ Goto(c, [at |-> "admit", packet |-> p, now |-> clock])
    /\ UNCHANGED <<clock, admission, launched, setbacks>>

-----------------------------------------------------------------------------
(* _admit, one BEGIN IMMEDIATE transaction *)

\* Mutant: the order of the admissions is not checked.
Unordered(now) == FALSE

\* now < admitted_at_utc of the last row
Regressed(now) == \E p \in Rows : now < admission[p].at

\* Mutant: an admission without a result does not count.
RecentFinal(p, now) == {q \in Rows : /\ SymbolOf[q] = SymbolOf[p]
                                     /\ admission[q].status \in Final
                                     /\ admission[q].at + Cadence > now}

\* Launches of the symbol inside the cadence, finished or not.
Recent(p, now) == {q \in Rows : /\ SymbolOf[q] = SymbolOf[p]
                                /\ admission[q].status \in Launches
                                /\ admission[q].at + Cadence > now}

Latest(S) == {p \in S : \A q \in S : admission[q].at <= admission[p].at}

Admit(c) ==
    LET p == call[c].packet  now == call[c].now
    IN  /\ At(c, "admit")
        /\ admission[p].status = "absent"
        /\ ~Regressed(now)
        /\ Recent(p, now) = {}
        /\ admission' = [admission EXCEPT ![p] = [status |-> "admitted", at |-> now]]
        /\ Goto(c, [at |-> "launch", packet |-> p])
        /\ UNCHANGED <<clock, launched, setbacks>>

Skip(c) ==
    LET p == call[c].packet  now == call[c].now
    IN  /\ At(c, "admit")
        /\ admission[p].status = "absent"
        /\ ~Regressed(now)
        /\ \E q \in Latest(Recent(p, now)) :
             admission' = [admission EXCEPT ![p] =
                [status |-> "skipped_cadence", at |-> now, prior |-> q]]
        /\ Goto(c, Idle)
        /\ UNCHANGED <<clock, launched, setbacks>>

\* The packet has its row, or the clock is behind the durable state.
Return(c) ==
    /\ At(c, "admit")
    /\ (admission[call[c].packet].status # "absent" \/ Regressed(call[c].now))
    /\ Goto(c, Idle)
    /\ UNCHANGED <<clock, admission, launched, setbacks>>

-----------------------------------------------------------------------------
(* capture_predecision_option_chain after the admission, and _finalize *)

Ending(c, ran) == [at |-> "finalize", packet |-> call[c].packet, ran |-> ran]

\* The child runs to its exit or its timeout.
Launch(c) ==
    /\ At(c, "launch")
    /\ launched' = [launched EXCEPT ![call[c].packet] = @ + 1]
    /\ Goto(c, Ending(c, TRUE))
    /\ UNCHANGED <<clock, admission, setbacks>>

\* OSError: no child was started.
LaunchFails(c) ==
    /\ At(c, "launch")
    /\ Goto(c, Ending(c, FALSE))
    /\ UNCHANGED <<clock, admission, launched, setbacks>>

\* The clock is read again; behind the admission it is refused and the row stays.
Finalize(c) ==
    LET p == call[c].packet
    IN  /\ At(c, "finalize")
        /\ \/ /\ admission[p].status = "admitted"
              /\ clock >= admission[p].at
              /\ \E status \in Final :
                   /\ status = "succeeded" => call[c].ran
                   /\ admission' = [admission EXCEPT ![p].status = status]
           \/ /\ (admission[p].status # "admitted" \/ clock < admission[p].at)
              /\ UNCHANGED admission
        /\ Goto(c, Idle)
        /\ UNCHANGED <<clock, launched, setbacks>>

\* The autopilot dies, or cannot clean up the child's process tree.
Die(c) ==
    /\ ~At(c, "idle")
    /\ setbacks < MaxSetbacks
    /\ setbacks' = setbacks + 1
    /\ Goto(c, Idle)
    /\ UNCHANGED <<clock, admission, launched>>

Tick ==
    /\ clock < MaxClock
    /\ clock' = clock + 1
    /\ UNCHANGED <<admission, call, launched, setbacks>>

ClockSetBack ==
    /\ setbacks < MaxSetbacks
    /\ clock > 0
    /\ setbacks' = setbacks + 1
    /\ clock' = clock - 1
    /\ UNCHANGED <<admission, call, launched>>

Next ==
    \/ \E c \in Callers :
         \/ \E p \in Packets : Call(c, p)
         \/ Admit(c) \/ Skip(c) \/ Return(c)
         \/ Launch(c) \/ LaunchFails(c) \/ Finalize(c) \/ Die(c)
    \/ Tick \/ ClockSetBack

Spec == Init /\ [][Next]_vars

-----------------------------------------------------------------------------
TypeOK ==
    /\ clock \in Times
    /\ admission \in [Packets -> Row]
    /\ call \in [Callers -> Calls]
    /\ launched \in [Packets -> 0 .. 1]
    /\ setbacks \in 0 .. MaxSetbacks

\* A packet's child is started at most once, whatever died between the admission
\* and its result, and only for a packet whose admission says so.
LaunchedOnce ==
    \A p \in Packets :
      /\ launched[p] <= 1
      /\ launched[p] = 1 => admission[p].status \in Launches

\* Two launches for one symbol are a cadence apart, and a packet was skipped only
\* for a launch of its symbol within the cadence before it, although the callers
\* read the clock outside the transaction and the clock may be set back.
CadenceKept ==
    \A p, q \in Rows :
      /\ (p # q /\ SymbolOf[p] = SymbolOf[q]
          /\ admission[p].status \in Launches /\ admission[q].status \in Launches)
           => \/ admission[p].at + Cadence <= admission[q].at
              \/ admission[q].at + Cadence <= admission[p].at
      /\ (admission[p].status = "skipped_cadence" /\ q = admission[p].prior)
           => /\ SymbolOf[p] = SymbolOf[q]
              /\ admission[q].status \in Launches
              /\ admission[q].at <= admission[p].at
              /\ admission[p].at < admission[q].at + Cadence

\* Both together: what is launched, once, and how far apart.
ChainsSpaced == LaunchedOnce /\ CadenceKept

\* A packet gets one verdict, which is kept; a success means that its child ran.
Ledger == INSTANCE Verdicts WITH
    Items    <- Packets,
    Outcomes <- Final \cup {"skipped_cadence"},
    Earned   <- {"succeeded"},
    Open     <- "none",
    asked    <- {p \in Packets : launched[p] > 0},
    verdict  <- [p \in Packets |-> IF admission[p].status \in {"absent", "admitted"}
                                     THEN "none" ELSE admission[p].status]
=============================================================================
