------------------------------ MODULE Recovery ------------------------------
(***************************************************************************)
(* What checkpoints promise of a table's games across restarts             *)
(* (docs/16 section 5, docs/29 section 5): what is played goes on, and     *)
(* what a restart brings back was once the state of the table.  It may be  *)
(* older than the latest state; it is never invented.                      *)
(***************************************************************************)
EXTENDS Sequences, SequencesExt

CONSTANT Nothing        \* no game

VARIABLES
    now,        \* [game, path]: the game in memory and the commands that made it, or Nothing
    lived,      \* every state the table has been in
    dead        \* games whose checkpoints have been purged

Init == now = Nothing /\ lived = {} /\ dead = {}

Lived == now' # Nothing /\ lived' = lived \cup {now'}

Begin == Lived /\ Len(now'.path) = 1 /\ now' \notin lived /\ dead' = dead

Extend ==
    /\ now # Nothing /\ Lived /\ now'.game = now.game
    /\ Len(now'.path) = Len(now.path) + 1 /\ Front(now'.path) = now.path
    /\ now' \notin lived /\ dead' = dead

Purge == \E g \in {m.game : m \in lived} : dead' = dead \cup {g} /\ UNCHANGED <<now, lived>>

Down == now' = Nothing /\ UNCHANGED <<lived, dead>>

\* Back to a moment of a game that has not been purged.
Up == now = Nothing /\ now' \in lived /\ now'.game \notin dead /\ UNCHANGED <<lived, dead>>

Spec == Init /\ [][Begin \/ Extend \/ Purge \/ Down \/ Up]_<<now, lived, dead>>
=============================================================================
