--------------------------- MODULE WallKnowledge ---------------------------
(***************************************************************************)
(* Who may know where the tiles of the wall are.  Beside TableActor, this  *)
(* module remembers which shuffle every past wall came from and which      *)
(* tiles have been drawn out of each shuffle: a tile of the wall that was  *)
(* drawn before, in the same shuffle, sits where somebody has seen it.     *)
(***************************************************************************)
EXTENDS TableActor

VARIABLES
    shuffles,   \* shuffles made in this game
    shuffleOf,  \* actor seq -> the shuffle that the wall of that moment came from
    drawn,      \* pairs <<shuffle, tile>>: drawn from the wall in that shuffle's order
    rewinds     \* corrections applied in this game

knowledge == <<shuffles, shuffleOf, drawn, rewinds>>

KnowInit == ActorInit /\ shuffles = 0 /\ shuffleOf = <<>> /\ drawn = {} /\ rewinds = 0

Shuffle == IF seq = 0 THEN 0 ELSE shuffleOf[seq]

\* Each submission moves seq by one and notes the shuffle of the wall it leaves.
Noted(shuffle) == shuffleOf' = Append(shuffleOf, shuffle)

KnowDeal ==
    ActorDeal /\ shuffles' = 1 /\ Noted(1) /\ drawn' = {} /\ rewinds' = 0

\* What leaves the wall has been seen by the seat that drew it.
KnowPlay ==
    /\ Submit /\ Noted(Shuffle)
    /\ drawn' = IF Live(game)'
                THEN drawn \cup {<<Shuffle, t>> : t \in TilesIn(game.wall) \ TilesIn(game'.wall)}
                ELSE drawn
    /\ UNCHANGED <<shuffles, rewinds>>

KnowQuiet ==
    /\ Remark \/ SeatChange
           \/ \E s \in Seat : Propose(s) \/ RespondReject(s) \/ RespondEarly(s)
    /\ Noted(Shuffle) /\ UNCHANGED <<shuffles, drawn, rewinds>>

\* A rewind shuffles afresh, or brings back the order of the restored wall.
KnowRewind ==
    /\ \E s \in Seat : RespondLast(s)
    /\ \E i \in DOMAIN history :
          /\ history[i].seq = asked
          /\ IF CrossesWallDraw(game, history[i].game)
             THEN shuffles' = shuffles + 1 /\ Noted(shuffles + 1)
             ELSE UNCHANGED shuffles /\ Noted(shuffleOf[asked])
    /\ rewinds' = rewinds + 1 /\ UNCHANGED drawn

KnowNext == KnowDeal \/ KnowPlay \/ KnowQuiet \/ KnowRewind

KnowSpec == KnowInit /\ [][KnowNext]_<<actorVars, knowledge>>

\* As long as a game has been rewound at most once, no tile of its wall sits
\* where a seat has seen it: the first rewind shuffles whenever it has to.
FirstRewindUnseen ==
    Live(game) /\ rewinds <= 1 => \A t \in TilesIn(game.wall) : <<Shuffle, t>> \notin drawn
=============================================================================
