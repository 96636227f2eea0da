----------------------------- MODULE MCSlots -----------------------------
(* The canary with two packets, once with a symbol each and once with one     *)
(* symbol for both: the account's reading of positions by symbol then has to  *)
(* tell the rows apart.  Which of the two it is, the first state chooses.     *)
EXTENDS MCLiveCanary

VARIABLE twins      \* the two packets share their symbol

SharedSymbol == p1 :> s1 @@ p2 :> s1
Twins == INSTANCE LiveCanary WITH Symbol <- SharedSymbol

SlotsInit == Init /\ twins \in BOOLEAN
SlotsNext ==
    /\ \/ ~twins /\ Next
       \/ twins /\ Twins!Next
    /\ UNCHANGED twins

SlotsSpec == SlotsInit /\ [][SlotsNext]_<<vars, twins>>
=============================================================================
