------------------------------ MODULE Verdicts ------------------------------
(***************************************************************************)
(* What every evidence stream of the research program promises about the   *)
(* items it is given: an item gets at most one verdict, the verdict is     *)
(* never changed, and a verdict that only an outside service can justify   *)
(* is given only to an item the service was asked about.                   *)
(*                                                                         *)
(* The modules of the streams instantiate this one with their own tables   *)
(* as the refinement mapping.                                              *)
(***************************************************************************)
CONSTANTS
    Items,      \* what is to be settled
    Outcomes,   \* the verdicts
    Earned,     \* those only an answer of the outside service can justify
    Open        \* no verdict yet

VARIABLES
    asked,      \* items the service was asked about
    verdict     \* the verdict on record for each item

vars == <<asked, verdict>>

Init ==
    /\ asked = {}
    /\ verdict = [i \in Items |-> Open]

Ask(i) ==
    /\ asked' = asked \cup {i}
    /\ UNCHANGED verdict

\* One transaction may settle several items.
Settle ==
    /\ verdict' \in [Items -> Outcomes \cup {Open}]
    /\ \A i \in Items : verdict'[i] # verdict[i] =>
         /\ verdict[i] = Open
         /\ verdict'[i] \in Earned => i \in asked
    /\ UNCHANGED asked

Next == Settle \/ \E i \in Items : Ask(i)

Spec == Init /\ [][Next]_vars
=============================================================================
