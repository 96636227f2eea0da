---------------------- MODULE OptionChainAdmission_proofs ----------------------
(* Theorems about OptionChainAdmission, for any callers, packets, symbols and    *)
(* cadence, and for any number of deaths and of clocks set back.                 *)
EXTENDS OptionChainAdmission, TLAPS

-----------------------------------------------------------------------------
(* The inductive invariant. *)

(* A caller that has committed the admission of its packet. *)
Underway(c) == call[c].at \in {"launch", "finalize"}

(* Only the caller whose transaction wrote the row goes on with the packet. *)
OneEach ==
    \A c, d \in Callers :
       Underway(c) /\ Underway(d) /\ call[c].packet = call[d].packet => c = d

(* Its row says so, and counts the child it has started. *)
Admitted(c) ==
    /\ Underway(c) => admission[call[c].packet].status \in Launches
    /\ call[c].at = "launch" => /\ admission[call[c].packet].status = "admitted"
                                /\ launched[call[c].packet] = 0
    /\ call[c].at = "finalize" /\ call[c].ran => launched[call[c].packet] = 1

Apart(p, q) ==
    \/ admission[p].at + Cadence <= admission[q].at
    \/ admission[q].at + Cadence <= admission[p].at

SpacedAt(p, q) ==
    (p # q /\ SymbolOf[p] = SymbolOf[q]
      /\ admission[p].status \in Launches /\ admission[q].status \in Launches)
       => Apart(p, q)

SkippedFor(p, q) ==
    /\ SymbolOf[p] = SymbolOf[q]
    /\ admission[q].status \in Launches
    /\ admission[q].at <= admission[p].at
    /\ admission[p].at < admission[q].at + Cadence

SkippedAt(p) ==
    admission[p].status = "skipped_cadence" => SkippedFor(p, admission[p].prior)

IInv ==
    /\ TypeOK
    /\ LaunchedOnce
    /\ OneEach
    /\ \A c \in Callers : Admitted(c)
    /\ \A p, q \in Packets : SpacedAt(p, q)
    /\ \A p \in Packets : SkippedAt(p)

-----------------------------------------------------------------------------
(* What the rows and the callers are. *)

LEMMA RowShape ==
    ASSUME TypeOK, NEW p \in Packets
    PROVE  /\ admission[p].status \in Launches \cup {"absent", "skipped_cadence"}
           /\ admission[p].status = "absent" <=> admission[p] = Absent
           /\ admission[p].status # "absent" => admission[p].at \in Times
           /\ admission[p].status \in Launches =>
                admission[p] \in [status : Launches, at : Times]
           /\ admission[p].status = "skipped_cadence" =>
                admission[p].prior \in Packets
BY DEF TypeOK, Row, Absent, Launches, Final

LEMMA CallShape ==
    ASSUME TypeOK, NEW c \in Callers
    PROVE  /\ call[c].at \in {"idle", "admit", "launch", "finalize"}
           /\ call[c].at # "idle" => call[c].packet \in Packets
           /\ call[c].at = "admit" => call[c].now \in Times
           /\ call[c].at = "finalize" => call[c].ran \in BOOLEAN
BY DEF TypeOK, Calls, Idle

(* A step that keeps the rows and the children keeps what is said of them; only the caller *)
(* that moved is to be looked at.                                                          *)
LEMMA CallerStep ==
    ASSUME IInv, NEW c \in Callers, TypeOK', UNCHANGED <<admission, launched>>,
           \A d \in Callers : d # c => call'[d] = call[d],
           Underway(c)' => Underway(c) /\ call'[c].packet = call[c].packet,
           Admitted(c)'
    PROVE  IInv'
<1>1. LaunchedOnce'
  BY DEF IInv, LaunchedOnce, Launches, Final
<1>2. OneEach'
  BY DEF IInv, OneEach, Underway
<1>3. \A d \in Callers : Admitted(d)'
  BY DEF IInv, Admitted, Underway, Launches, Final
<1>4. (\A p, q \in Packets : SpacedAt(p, q)') /\ \A p \in Packets : SkippedAt(p)'
  BY DEF IInv, SpacedAt, SkippedAt, SkippedFor, Apart, Launches, Final
<1> QED
  BY <1>1, <1>2, <1>3, <1>4 DEF IInv

-----------------------------------------------------------------------------
(* The steps. *)

LEMMA IdleStep ==
    ASSUME IInv, TypeOK', UNCHANGED <<admission, launched>>,
           NEW c \in Callers, call' = [call EXCEPT ![c] = Idle]
    PROVE  IInv'
<1>1. \A d \in Callers : d # c => call'[d] = call[d]
  BY DEF IInv, TypeOK
<1>2. call'[c] = Idle
  BY DEF IInv, TypeOK
<1> QED
  BY <1>1, <1>2, CallerStep DEF Underway, Admitted, Idle

LEMMA Calling ==
    ASSUME IInv, NEW c \in Callers, NEW p \in Packets, Call(c, p)
    PROVE  IInv'
<1>1. call' = [call EXCEPT ![c] = [at |-> "admit", packet |-> p, now |-> clock]]
  BY DEF Call, Goto
<1>2. TypeOK'
  BY <1>1 DEF IInv, TypeOK, Call, Calls
<1>3. \A d \in Callers : d # c => call'[d] = call[d]
  BY <1>1 DEF IInv, TypeOK
<1>4. call'[c].at = "admit"
  BY <1>1 DEF IInv, TypeOK
<1> QED
  BY <1>2, <1>3, <1>4, CallerStep DEF Call, Underway, Admitted

(* A row that is written for the first time, at a time no row is later than. *)
LEMMA NewRow ==
    ASSUME IInv, NEW c \in Callers, At(c, "admit"), admission[call[c].packet] = Absent,
           NEW row \in Row, row.status # "absent", row.at = call[c].now,
           ~ Regressed(call[c].now),
           admission' = [admission EXCEPT ![call[c].packet] = row],
           row.status = "skipped_cadence" => row.prior \in Recent(call[c].packet, call[c].now),
           row.status \in Launches => Recent(call[c].packet, call[c].now) = {},
           AdmissionAssumption
    PROVE  /\ \A p, q \in Packets : SpacedAt(p, q)'
           /\ \A p \in Packets : SkippedAt(p)'
           /\ call[c].packet \in Packets /\ admission'[call[c].packet] = row
           /\ \A q \in Packets : q # call[c].packet => admission'[q] = admission[q]
<1> DEFINE me == call[c].packet
           now == call[c].now
<1>1. me \in Packets /\ now \in Times
  BY CallShape DEF IInv, At
<1>2. admission'[me] = row /\ \A q \in Packets : q # me => admission'[q] = admission[q]
  BY <1>1 DEF IInv, TypeOK
<1>3. \A q \in Packets : admission[q].status # "absent" =>
         admission[q].at \in Times /\ admission[q].at <= now
  BY <1>1, RowShape DEF IInv, Regressed, Rows, Times, AdmissionAssumption
<1>4. \A q \in Packets : SymbolOf[q] = SymbolOf[me] /\ admission[q].status \in Launches
         /\ row.status \in Launches => admission[q].at + Cadence <= now
  BY <1>1, <1>3, RowShape DEF IInv, Recent, Rows, Times, AdmissionAssumption, Launches, Final
<1>5. ASSUME NEW p \in Packets, NEW q \in Packets
      PROVE  SpacedAt(p, q)'
  BY <1>1, <1>2, <1>4 DEF IInv, SpacedAt, Apart
<1>6. ASSUME NEW p \in Packets
      PROVE  SkippedAt(p)'
  <2>1. CASE p # me
    <3>1. SUFFICES ASSUME admission[p].status = "skipped_cadence"
                   PROVE  SkippedFor(p, admission[p].prior)'
      BY <1>2, <2>1 DEF SkippedAt
    <3>2. SkippedFor(p, admission[p].prior) /\ admission[p].prior \in Packets
      BY <3>1, RowShape DEF IInv, SkippedAt
    <3>3. admission[p].prior # me
      BY <3>2 DEF SkippedFor, Absent, Launches, Final
    <3> QED
      BY <1>2, <2>1, <3>2, <3>3 DEF SkippedFor
  <2>2. CASE p = me
    <3>1. SUFFICES ASSUME row.status = "skipped_cadence"
                   PROVE  SkippedFor(p, row.prior)'
      BY <1>2, <2>2 DEF SkippedAt
    <3>2. row.prior \in Packets /\ row.prior # me
      BY <3>1 DEF Recent, Rows, Absent
    <3>3. /\ SymbolOf[row.prior] = SymbolOf[me]
          /\ admission[row.prior].status \in Launches
          /\ admission[row.prior].at + Cadence > now
      BY <3>1 DEF Recent, Rows
    <3>4. admission[row.prior].at <= now
      BY <3>2, <3>3, <1>3 DEF Launches, Final
    <3> QED
      BY <1>2, <2>2, <3>2, <3>3, <3>4 DEF SkippedFor
  <2> QED
    BY <2>1, <2>2
<1> QED
  BY <1>1, <1>2, <1>5, <1>6

LEMMA Admitting ==
    ASSUME IInv, AdmissionAssumption, NEW c \in Callers, Admit(c)
    PROVE  IInv'
<1> DEFINE me  == call[c].packet
           row == [status |-> "admitted", at |-> call[c].now]
<1>1. me \in Packets /\ call[c].now \in Times /\ admission[me] = Absent
  BY CallShape, RowShape DEF IInv, Admit, At
<1>2. row \in Row /\ row.status \in Launches /\ row.at = call[c].now
  BY <1>1 DEF Row, Launches
<1>3. /\ \A p, q \in Packets : SpacedAt(p, q)'
      /\ \A p \in Packets : SkippedAt(p)'
      /\ admission'[me] = row
      /\ \A q \in Packets : q # me => admission'[q] = admission[q]
  BY <1>1, <1>2, NewRow DEF Admit, Launches, Final
<1>4. call' = [call EXCEPT ![c] = [at |-> "launch", packet |-> me]]
  BY DEF Admit, Goto
<1>5. TypeOK'
  BY <1>1, <1>2, <1>4 DEF IInv, TypeOK, Admit, Calls
<1>6. /\ call'[c] = [at |-> "launch", packet |-> me]
      /\ \A d \in Callers : d # c => call'[d] = call[d]
  BY <1>4 DEF IInv, TypeOK
<1>7. launched[me] = 0 /\ UNCHANGED launched
  BY <1>1 DEF IInv, LaunchedOnce, TypeOK, Absent, Launches, Final, Admit
<1>8. LaunchedOnce'
  BY <1>1, <1>3, <1>7 DEF IInv, LaunchedOnce, Launches, Final
<1>9. \A d \in Callers : Underway(d) => call[d].packet # me
  BY <1>1 DEF IInv, Admitted, Absent, Launches, Final
<1>10. OneEach'
  BY <1>6, <1>9 DEF IInv, OneEach, Underway
<1>11. \A d \in Callers : Admitted(d)'
  <2>1. Admitted(c)'
    BY <1>3, <1>6, <1>7 DEF Admitted, Underway, Launches, Final
  <2>2. ASSUME NEW d \in Callers, d # c
        PROVE  Admitted(d)'
    BY <1>3, <1>6, <1>7, <1>9, <2>2, CallShape DEF IInv, Admitted, Underway
  <2> QED
    BY <2>1, <2>2
<1> QED
  BY <1>3, <1>5, <1>8, <1>10, <1>11 DEF IInv

LEMMA Skipping ==
    ASSUME IInv, AdmissionAssumption, NEW c \in Callers, Skip(c)
    PROVE  IInv'
<1> DEFINE me == call[c].packet
<1>1. me \in Packets /\ call[c].now \in Times /\ admission[me] = Absent
  BY CallShape, RowShape DEF IInv, Skip, At
<1>2. PICK q \in Latest(Recent(me, call[c].now)) :
         admission' = [admission EXCEPT ![me] =
           [status |-> "skipped_cadence", at |-> call[c].now, prior |-> q]]
  BY DEF Skip
<1> DEFINE row == [status |-> "skipped_cadence", at |-> call[c].now, prior |-> q]
<1>3. row.prior \in Recent(me, call[c].now) /\ q \in Packets
  BY DEF Latest, Recent, Rows
<1>4. row \in Row /\ row.status = "skipped_cadence" /\ row.at = call[c].now
  BY <1>1, <1>3 DEF Row
<1>5. /\ \A p1, p2 \in Packets : SpacedAt(p1, p2)'
      /\ \A p \in Packets : SkippedAt(p)'
      /\ admission'[me] = row
      /\ \A p \in Packets : p # me => admission'[p] = admission[p]
  BY <1>1, <1>2, <1>3, <1>4, NewRow DEF Skip, Launches, Final
<1>6. call' = [call EXCEPT ![c] = Idle] /\ UNCHANGED launched
  BY DEF Skip, Goto
<1>7. TypeOK'
  BY <1>1, <1>2, <1>4, <1>6 DEF IInv, TypeOK, Skip, Calls
<1>8. call'[c] = Idle /\ \A d \in Callers : d # c => call'[d] = call[d]
  BY <1>6 DEF IInv, TypeOK
<1>9. LaunchedOnce'
  BY <1>1, <1>5, <1>6 DEF IInv, LaunchedOnce, Launches, Final, Absent
<1>10. OneEach'
  BY <1>8 DEF IInv, OneEach, Underway, Idle
<1>11. ASSUME NEW d \in Callers
       PROVE  Admitted(d)'
  <2>1. Underway(d) => call[d].packet # me
    BY <1>1 DEF IInv, Admitted, Absent, Launches, Final
  <2> QED
    BY <1>5, <1>6, <1>8, <2>1, CallShape DEF IInv, Admitted, Underway, Idle
<1> QED
  BY <1>5, <1>7, <1>9, <1>10, <1>11 DEF IInv

LEMMA Launching ==
    ASSUME IInv, NEW c \in Callers, Launch(c)
    PROVE  IInv'
<1> DEFINE me == call[c].packet
<1>1. me \in Packets /\ Underway(c) /\ launched[me] = 0 /\ admission[me].status \in Launches
  BY CallShape DEF IInv, Launch, At, Underway, Admitted
<1>2. launched' = [launched EXCEPT ![me] = launched[me] + 1] /\ UNCHANGED admission
  BY DEF Launch
<1>3. call' = [call EXCEPT ![c] = [at |-> "finalize", packet |-> me, ran |-> TRUE]]
  BY DEF Launch, Goto, Ending
<1>4. TypeOK'
  BY <1>1, <1>2, <1>3 DEF IInv, TypeOK, Launch, Calls
<1>5. /\ call'[c] = [at |-> "finalize", packet |-> me, ran |-> TRUE]
      /\ \A d \in Callers : d # c => call'[d] = call[d]
  BY <1>3 DEF IInv, TypeOK
<1>6. /\ launched'[me] = 1
      /\ \A p \in Packets : p # me => launched'[p] = launched[p]
  BY <1>1, <1>2 DEF IInv, TypeOK
<1>7. LaunchedOnce'
  BY <1>1, <1>2, <1>6 DEF IInv, LaunchedOnce
<1>8. OneEach'
  BY <1>1, <1>5 DEF IInv, OneEach, Underway
<1>9. ASSUME NEW d \in Callers
      PROVE  Admitted(d)'
  <2>1. CASE d = c
    BY <1>1, <1>2, <1>5, <1>6, <2>1 DEF Admitted, Underway
  <2>2. CASE d # c
    <3>1. Underway(d) => call[d].packet # me /\ call[d].packet \in Packets
      BY <1>1, <2>2, CallShape DEF IInv, OneEach, Underway
    <3> QED
      BY <1>2, <1>5, <1>6, <2>2, <3>1 DEF IInv, Admitted, Underway
  <2> QED
    BY <2>1, <2>2
<1>10. (\A p, q \in Packets : SpacedAt(p, q)') /\ \A p \in Packets : SkippedAt(p)'
  BY <1>2 DEF IInv, SpacedAt, SkippedAt, SkippedFor, Apart
<1> QED
  BY <1>4, <1>7, <1>8, <1>9, <1>10 DEF IInv

LEMMA FailingToLaunch ==
    ASSUME IInv, NEW c \in Callers, LaunchFails(c)
    PROVE  IInv'
<1>1. call[c].packet \in Packets
  BY CallShape DEF IInv, LaunchFails, At
<1>2. call' = [call EXCEPT ![c] =
                 [at |-> "finalize", packet |-> call[c].packet, ran |-> FALSE]]
  BY DEF LaunchFails, Goto, Ending
<1>3. TypeOK'
  BY <1>1, <1>2 DEF IInv, TypeOK, LaunchFails, Calls
<1>4. /\ call'[c] = [at |-> "finalize", packet |-> call[c].packet, ran |-> FALSE]
      /\ \A d \in Callers : d # c => call'[d] = call[d]
  BY <1>2 DEF IInv, TypeOK
<1>5. Underway(c) /\ Admitted(c)'
  BY <1>4 DEF IInv, Admitted, Underway, LaunchFails, At, Launches
<1> QED
  BY <1>3, <1>4, <1>5, CallerStep DEF LaunchFails

LEMMA Finalizing ==
    ASSUME IInv, NEW c \in Callers, Finalize(c)
    PROVE  IInv'
<1> DEFINE me == call[c].packet
<1>1. me \in Packets /\ Underway(c)
  BY CallShape DEF IInv, Finalize, At, Underway
<1>2. call' = [call EXCEPT ![c] = Idle] /\ UNCHANGED <<clock, launched, setbacks>>
  BY DEF Finalize, Goto
<1>3. CASE UNCHANGED admission
  <2>1. TypeOK'
    BY <1>2, <1>3 DEF IInv, TypeOK, Calls
  <2> QED
    BY <1>2, <1>3, <2>1, IdleStep
<1>4. CASE \E status \in Final :
             /\ admission[me].status = "admitted"
             /\ admission' = [admission EXCEPT ![me].status = status]
  <2>1. PICK status \in Final :
           /\ admission[me].status = "admitted"
           /\ admission' = [admission EXCEPT ![me].status = status]
    BY <1>4
  <2>2. admission[me] \in [status : Launches, at : Times]
    BY <1>1, <2>1, RowShape DEF IInv, Launches
  <2>3. /\ admission'[me] = [admission[me] EXCEPT !.status = status]
        /\ \A q \in Packets : q # me => admission'[q] = admission[q]
    BY <1>1, <2>1 DEF IInv, TypeOK
  <2>4. /\ admission'[me] \in Row
        /\ admission'[me].status \in Final
        /\ admission'[me].at = admission[me].at
    BY <2>2, <2>3 DEF Row, Launches
  <2>5. TypeOK'
    BY <1>1, <1>2, <2>1, <2>3, <2>4 DEF IInv, TypeOK, Calls
  <2>6. call'[c] = Idle /\ \A d \in Callers : d # c => call'[d] = call[d]
    BY <1>2 DEF IInv, TypeOK
  <2>7. LaunchedOnce'
    BY <1>2, <2>3, <2>4 DEF IInv, LaunchedOnce, Launches
  <2>8. OneEach'
    BY <2>6 DEF IInv, OneEach, Underway, Idle
  <2>9. ASSUME NEW d \in Callers
        PROVE  Admitted(d)'
    <3>1. Underway(d) /\ d # c => call[d].packet # me /\ call[d].packet \in Packets
      BY <1>1, CallShape DEF IInv, OneEach, Underway
    <3> QED
      BY <1>2, <2>3, <2>6, <3>1 DEF IInv, Admitted, Underway, Idle
  <2>10. \A p, q \in Packets : SpacedAt(p, q)'
    BY <1>1, <2>1, <2>3, <2>4 DEF IInv, SpacedAt, Apart, Launches
  <2>11. ASSUME NEW p \in Packets
         PROVE  SkippedAt(p)'
    <3>1. SUFFICES ASSUME p # me, admission[p].status = "skipped_cadence"
                   PROVE  SkippedFor(p, admission[p].prior)'
      BY <2>3, <2>4 DEF SkippedAt, Final
    <3>2. SkippedFor(p, admission[p].prior) /\ admission[p].prior \in Packets
      BY <3>1, RowShape DEF IInv, SkippedAt
    <3> QED
      BY <2>3, <2>4, <3>1, <3>2 DEF SkippedFor, Launches
  <2> QED
    BY <2>5, <2>7, <2>8, <2>9, <2>10, <2>11 DEF IInv
<1> QED
  BY <1>3, <1>4 DEF Finalize

LEMMA Inductive ==
    ASSUME AdmissionAssumption, IInv, [Next]_vars
    PROVE  IInv'
<1>1. ASSUME NEW c \in Callers, Return(c)
      PROVE  IInv'
  <2>1. call' = [call EXCEPT ![c] = Idle] /\ UNCHANGED <<clock, admission, launched, setbacks>>
    BY <1>1 DEF Return, Goto
  <2>2. TypeOK'
    BY <2>1 DEF IInv, TypeOK, Calls
  <2> QED
    BY <2>1, <2>2, IdleStep
<1>2. ASSUME NEW c \in Callers, Die(c)
      PROVE  IInv'
  <2>1. call' = [call EXCEPT ![c] = Idle] /\ UNCHANGED <<clock, admission, launched>>
    BY <1>2 DEF Die, Goto
  <2>2. TypeOK'
    BY <1>2, <2>1 DEF IInv, TypeOK, Calls, Die, AdmissionAssumption
  <2> QED
    BY <2>1, <2>2, IdleStep
<1>3. CASE Tick \/ ClockSetBack \/ UNCHANGED vars
  <2>1. UNCHANGED <<admission, call, launched>>
    BY <1>3 DEF Tick, ClockSetBack, vars
  <2>2. clock' \in Times /\ setbacks' \in 0 .. MaxSetbacks
    BY <1>3 DEF Tick, ClockSetBack, vars, IInv, TypeOK, Times, AdmissionAssumption
  <2> QED
    BY <2>1, <2>2 DEF IInv, TypeOK, LaunchedOnce, OneEach, Admitted, Underway,
                      SpacedAt, Apart, SkippedAt, SkippedFor
<1> QED
  BY <1>1, <1>2, <1>3, Calling, Admitting, Skipping, Launching, FailingToLaunch, Finalizing
     DEF Next

LEMMA Initial ==
    ASSUME AdmissionAssumption, Init
    PROVE  IInv
BY DEF AdmissionAssumption, Init, IInv, TypeOK, Times, Row, Absent, Calls, Idle, LaunchedOnce,
       OneEach, Admitted, Underway, SpacedAt, SkippedAt, Launches, Final

LEMMA Invariance == ASSUME AdmissionAssumption PROVE Spec => []IInv
<1>1. Init => IInv
  BY Initial
<1>2. IInv /\ [Next]_vars => IInv'
  BY Inductive
<1> QED
  BY <1>1, <1>2, PTL DEF Spec

-----------------------------------------------------------------------------
(* The theorems. *)

(* Rows, calls and counters stay within their types (option_chain_admission.py, the CHECKs *)
(* of research_option_chain_admissions).                                                   *)
THEOREM TypeCorrect == ASSUME AdmissionAssumption PROVE Spec => []TypeOK
<1>1. IInv => TypeOK
  BY DEF IInv
<1> QED
  BY <1>1, Invariance, PTL

(* However many autopilots call and die and however the clock moves, the child of a packet *)
(* is started at most once, under a committed admission (_admit and its primary key).      *)
THEOREM ChildStartedOnce == ASSUME AdmissionAssumption PROVE Spec => []LaunchedOnce
<1>1. IInv => LaunchedOnce
  BY DEF IInv
<1> QED
  BY <1>1, Invariance, PTL

(* Any two launches of a symbol are a cadence apart, and a packet is skipped only for a    *)
(* launch of its symbol within the cadence before it (_admit).                             *)
THEOREM LaunchesSpaced == ASSUME AdmissionAssumption PROVE Spec => []CadenceKept
<1>1. IInv => CadenceKept
  <2>1. SUFFICES ASSUME IInv, NEW p \in Rows, NEW q \in Rows
                 PROVE  /\ SpacedAt(p, q)
                        /\ (admission[p].status = "skipped_cadence" /\ q = admission[p].prior)
                             => SkippedFor(p, q)
    BY DEF CadenceKept, SpacedAt, Apart, SkippedFor
  <2> QED
    BY <2>1 DEF IInv, SkippedAt, Rows
<1> QED
  BY <1>1, Invariance, PTL

(* Both together, for any callers, packets, symbols and cadence.                          *)
THEOREM ChainsAreSpaced == ASSUME AdmissionAssumption PROVE Spec => []ChainsSpaced
<1>1. LaunchedOnce /\ CadenceKept => ChainsSpaced
  BY DEF ChainsSpaced
<1> QED
  BY <1>1, ChildStartedOnce, LaunchesSpaced, PTL

-----------------------------------------------------------------------------
(* The verdicts of the packets implement Verdicts. *)

Asked == {p \in Packets : launched[p] > 0}
Verdict(p) == IF admission[p].status \in {"absent", "admitted"} THEN "none" ELSE admission[p].status

(* A step that starts no child and changes no row is a stutter. *)
LEMMA Stutter ==
    ASSUME UNCHANGED <<admission, launched>>
    PROVE  UNCHANGED Ledger!vars
BY DEF Ledger!vars

(* A step that gives one packet the verdict it did not have settles it. *)
LEMMA Settles ==
    ASSUME IInv, IInv', UNCHANGED launched, NEW p \in Packets,
           \A q \in Packets : q # p => admission'[q] = admission[q],
           Verdict(p) = "none", Verdict(p)' = "succeeded" => launched[p] > 0
    PROVE  Ledger!Settle
<1>1. \A q \in Packets : Verdict(q)' \in (Final \cup {"skipped_cadence"}) \cup {"none"}
  BY RowShape DEF IInv, Verdict, Launches, Final, TypeOK, Row, Absent
<1>2. \A q \in Packets : Verdict(q)' # Verdict(q) => q = p
  BY DEF Verdict
<1> QED
  BY <1>1, <1>2 DEF Ledger!Settle, Verdict

LEMMA StepImplements ==
    ASSUME AdmissionAssumption, IInv, IInv', [Next]_vars
    PROVE  [Ledger!Next]_(Ledger!vars)
<1>1. ASSUME NEW c \in Callers, Admit(c)
      PROVE  UNCHANGED Ledger!vars
  <2> DEFINE me == call[c].packet
  <2>1. me \in Packets /\ UNCHANGED launched
        /\ admission' = [admission EXCEPT ![me] = [status |-> "admitted", at |-> call[c].now]]
    BY <1>1, CallShape DEF IInv, Admit, At
  <2>2. \A q \in Packets : Verdict(q)' = Verdict(q)
    BY <1>1, <2>1 DEF Verdict, IInv, TypeOK, Admit
  <2> QED
    BY <2>1, <2>2 DEF Ledger!vars, Verdict
<1>2. ASSUME NEW c \in Callers, Skip(c)
      PROVE  Ledger!Settle
  <2>1. call[c].packet \in Packets
    BY <1>2, CallShape DEF IInv, Skip, At
  <2>2. PICK q \in Latest(Recent(call[c].packet, call[c].now)) :
           admission' = [admission EXCEPT ![call[c].packet] =
             [status |-> "skipped_cadence", at |-> call[c].now, prior |-> q]]
    BY <1>2 DEF Skip
  <2>3. /\ \A p \in Packets : p # call[c].packet => admission'[p] = admission[p]
        /\ admission'[call[c].packet].status = "skipped_cadence"
    BY <2>1, <2>2 DEF IInv, TypeOK
  <2>4. PICK p \in Packets : p = call[c].packet
    BY <2>1
  <2> QED
    BY <1>2, <2>3, <2>4, Settles DEF Skip, Verdict
<1>3. ASSUME NEW c \in Callers, Launch(c)
      PROVE  \E p \in Packets : Ledger!Ask(p)
  <2> DEFINE me == call[c].packet
  <2>1. me \in Packets /\ UNCHANGED admission
        /\ launched' = [launched EXCEPT ![me] = launched[me] + 1]
    BY <1>3, CallShape DEF IInv, Launch, At
  <2>2. Asked' = Asked \cup {me}
    BY <2>1 DEF IInv, TypeOK, Asked
  <2> QED
    BY <2>1, <2>2 DEF Ledger!Ask, Asked
<1>4. ASSUME NEW c \in Callers, Finalize(c)
      PROVE  Ledger!Settle \/ UNCHANGED Ledger!vars
  <2>1. call[c].packet \in Packets /\ UNCHANGED launched
    BY <1>4, CallShape DEF IInv, Finalize, At
  <2>2. CASE UNCHANGED admission
    BY <2>1, <2>2, Stutter
  <2>3. CASE \E status \in Final :
               /\ admission[call[c].packet].status = "admitted"
               /\ status = "succeeded" => call[c].ran
               /\ admission' = [admission EXCEPT ![call[c].packet].status = status]
    <3>1. PICK status \in Final :
             /\ admission[call[c].packet].status = "admitted"
             /\ status = "succeeded" => call[c].ran
             /\ admission' = [admission EXCEPT ![call[c].packet].status = status]
      BY <2>3
    <3>2. PICK p \in Packets : p = call[c].packet
      BY <2>1
    <3>3. admission[p] \in [status : Launches, at : Times]
      BY <3>1, <3>2, RowShape DEF IInv, Launches
    <3>4. /\ admission'[p].status = status
          /\ \A q \in Packets : q # p => admission'[q] = admission[q]
      BY <3>1, <3>2, <3>3 DEF IInv, TypeOK
    <3>5. status = "succeeded" => launched[p] > 0
      BY <1>4, <3>1, <3>2, CallShape DEF IInv, Admitted, Finalize, At
    <3>6. Verdict(p) = "none" /\ (Verdict(p)' = "succeeded" => status = "succeeded")
      BY <3>1, <3>2, <3>4 DEF Verdict, Final
    <3> QED
      BY <2>1, <3>4, <3>5, <3>6, Settles
  <2> QED
    BY <1>4, <2>2, <2>3 DEF Finalize
<1>5. ASSUME NEW c \in Callers, NEW p \in Packets, Call(c, p)
      PROVE  UNCHANGED Ledger!vars
  BY <1>5, Stutter DEF Call
<1>6. ASSUME NEW c \in Callers, Return(c) \/ LaunchFails(c) \/ Die(c)
      PROVE  UNCHANGED Ledger!vars
  BY <1>6, Stutter DEF Return, LaunchFails, Die
<1>7. CASE Tick \/ ClockSetBack \/ UNCHANGED vars
  BY <1>7, Stutter DEF Tick, ClockSetBack, vars
<1>8. ASSUME NEW c \in Callers,
             \/ \E p \in Packets : Call(c, p)
             \/ Admit(c) \/ Skip(c) \/ Return(c)
             \/ Launch(c) \/ LaunchFails(c) \/ Finalize(c) \/ Die(c)
      PROVE  Ledger!Next \/ UNCHANGED Ledger!vars
  BY <1>1, <1>2, <1>3, <1>4, <1>5, <1>6, <1>8 DEF Ledger!Next
<1> QED
  BY <1>7, <1>8 DEF Next

(* A packet gets one verdict, which is kept, and it is called a success only when its      *)
(* child was started (research_option_chain_admission_terminal_immutable, _finalize).      *)
THEOREM VerdictsAreKept == ASSUME AdmissionAssumption PROVE Spec => Ledger!Spec
<1>1. Init => Ledger!Init
  BY DEF Init, Ledger!Init, Absent
<1>2. IInv /\ IInv' /\ [Next]_vars => [Ledger!Next]_(Ledger!vars)
  BY StepImplements
<1> QED
  BY <1>1, <1>2, Invariance, PTL DEF Spec, Ledger!Spec

=============================================================================
