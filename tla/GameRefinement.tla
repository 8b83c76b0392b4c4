--------------------------- MODULE GameRefinement ---------------------------
(***************************************************************************)
(* Game implements two abstract specifications: Custody, by where each     *)
(* tile is, and Consent, by the conclusion process.                        *)
(***************************************************************************)
EXTENDS Game

\* The holder of a tile, as a pair of Custody.
Place(t) ==
    CASE t \in TilesIn(game.wall) -> <<"wall", NoSeat>>
      [] t \in TilesIn(game.discards) -> <<"discards", NoSeat>>
      [] OnTable(game, t) -> <<"table", NoSeat>>
      [] InHand(game, t) -> <<"hand", CHOOSE s \in Seat : t \in game.hands[s]>>
      [] InFlight(game, t) -> <<"flight", CHOOSE s \in Seat : t \in game.inFlight[s]>>
      [] OTHER -> <<IF Live(game) THEN "lost" ELSE "box", NoSeat>>

Dealer == INSTANCE Custody WITH place <- [t \in Tile |-> Place(t)]

Ending == INSTANCE Consent WITH
    asker <- game.process.initiator,
    agreed <- game.process.accepted,
    ended <- game.lifecycle = "concluded"

\* Tiles change hands only along the edges of Custody, every command moving
\* tiles by exactly one of them, whatever its turn, overlay or order.
MovesTilesLikeADealer == Dealer!Spec

\* A game concludes only by the agreement that Consent describes.
EndsByConsent == Ending!Spec

\* Both refinements at once: a step of the game is at the same time a step of
\* custody and one that the agreement to end allows, or a stutter of either.
DealsAndEndsByConsent == MovesTilesLikeADealer /\ EndsByConsent
=============================================================================
