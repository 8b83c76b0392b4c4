------------------------------ MODULE Consent ------------------------------
(***************************************************************************)
(* What ending a game promises: it ends only when one seat has asked and   *)
(* every other seat has agreed since, each for itself and once; any        *)
(* refusal forgets all agreements.                                         *)
(***************************************************************************)
CONSTANTS Seat, NoSeat

VARIABLES asker, agreed, ended

Init == asker = NoSeat /\ agreed = {} /\ ended = FALSE

Ask(s) ==
    /\ ~ended /\ asker = NoSeat
    /\ asker' = s /\ UNCHANGED <<agreed, ended>>

Agree(s) ==
    /\ asker # NoSeat /\ s \notin agreed \cup {asker}
    /\ IF agreed \cup {s, asker} = Seat
       THEN asker' = NoSeat /\ agreed' = {} /\ ended' = TRUE
       ELSE agreed' = agreed \cup {s} /\ UNCHANGED <<asker, ended>>

\* The asker takes it back, or another seat refuses.
Refuse ==
    /\ asker # NoSeat
    /\ asker' = NoSeat /\ agreed' = {} /\ UNCHANGED ended

NewGame == asker = NoSeat /\ ended' = FALSE /\ UNCHANGED <<asker, agreed>>

Next == (\E s \in Seat : Ask(s) \/ Agree(s)) \/ Refuse \/ NewGame

Spec == Init /\ [][Next]_<<asker, agreed, ended>>
=============================================================================
