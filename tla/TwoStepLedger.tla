--------------------------- MODULE TwoStepLedger ---------------------------
(***************************************************************************)
(* What a table with a separate counter column promises: the counter       *)
(* counts rows that are there.  A row is entered first and counted later   *)
(* or, when something fails in between, never; nothing is counted twice    *)
(* and nothing is ever taken back.                                         *)
(***************************************************************************)
EXTENDS Naturals

CONSTANT Account
VARIABLES entered, counted

Init == /\ entered = [a \in Account |-> 0]
        /\ counted = [a \in Account |-> 0]

Enter(a) == /\ entered' = [entered EXCEPT ![a] = @ + 1]
            /\ UNCHANGED counted

Count(a) == /\ counted[a] < entered[a]
            /\ counted' = [counted EXCEPT ![a] = @ + 1]
            /\ UNCHANGED entered

Next == \E a \in Account : Enter(a) \/ Count(a)

Spec == Init /\ [][Next]_<<entered, counted>>
=============================================================================
