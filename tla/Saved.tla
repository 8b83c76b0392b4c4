------------------------------- MODULE Saved -------------------------------
(***************************************************************************)
(* A game in a checkpoint: dealer-core/src/checkpoint/checkpoint.ts turns  *)
(* a game state into a payload that names its parts one by one, and a      *)
(* restart or a rewind builds a state from it, or refuses.  Durability     *)
(* says when which checkpoint is read; here is what comes back.            *)
(*                                                                         *)
(* Salt, commitment and faces go along unread, and are left out.           *)
(***************************************************************************)
EXTENDS Game

\* Mutant: forgets the tiles in flight.
LivePartOfTable(g) ==
    [turn |-> g.turn, wall |-> g.wall, hands |-> g.hands, discards |-> g.discards,
     exposures |-> g.exposures, inFlight |-> NoTiles, revealed |-> g.revealed,
     nextExposureId |-> g.nextExposureId, paused |-> g.paused, correction |-> g.correction]

\* CheckpointLivePart: what games in play and concluding games have in common.
LivePart(g) ==
    [turn |-> g.turn, wall |-> g.wall, hands |-> g.hands, discards |-> g.discards,
     exposures |-> g.exposures, inFlight |-> g.inFlight, revealed |-> g.revealed,
     nextExposureId |-> g.nextExposureId, paused |-> g.paused, correction |-> g.correction]

RoundPart(g) == [routing |-> g.routing, committed |-> g.committed]

\* Of the hands, a concluded game has only the revealed ones.
ConcludedPart(g) ==
    [discards |-> g.discards, exposures |-> g.exposures,
     revealedHands |-> [s \in g.revealed |-> g.hands[s]]]

\* checkpoint: the payload.  The pass round goes with a game in play only, the
\* process with a concluding one only.
Payload(g) ==
    CASE g.lifecycle = "idle" -> [lifecycle |-> "idle"]
      [] g.lifecycle = "concluded" -> [lifecycle |-> "concluded", concluded |-> ConcludedPart(g)]
      [] g.lifecycle = "in_play" ->
            [lifecycle |-> "in_play", live |-> LivePart(g), passRound |-> RoundPart(g)]
      [] g.lifecycle = "concluding" ->
            [lifecycle |-> "concluding", live |-> LivePart(g), process |-> g.process]

WithLive(p, round, process) ==
    [lifecycle |-> p.lifecycle, turn |-> p.live.turn, wall |-> p.live.wall,
     hands |-> p.live.hands, discards |-> p.live.discards, exposures |-> p.live.exposures,
     nextExposureId |-> p.live.nextExposureId, inFlight |-> p.live.inFlight,
     routing |-> round.routing, committed |-> round.committed,
     revealed |-> p.live.revealed, paused |-> p.live.paused,
     correction |-> p.live.correction, process |-> process]

\* buildState.
Built(p) ==
    CASE p.lifecycle = "idle" -> IdleGame
      [] p.lifecycle = "concluded" ->
            LET c == p.concluded
                shown == DOMAIN c.revealedHands
            IN  [IdleGame EXCEPT
                    !.lifecycle = "concluded",
                    !.discards = c.discards,
                    !.exposures = c.exposures,
                    !.revealed = shown,
                    !.hands = [s \in Seat |-> IF s \in shown THEN c.revealedHands[s] ELSE {}]]
      [] p.lifecycle = "in_play" -> WithLive(p, p.passRound, NoProcess)
      [] p.lifecycle = "concluding" -> WithLive(p, RoundPart(IdleGame), p.process)

\* restore refuses a live state that fails the conservation check.
Restorable(p) == Live(Built(p)) => Exclusive(Built(p)) /\ Accounted(Built(p))

-----------------------------------------------------------------------------
(* Properties. *)

\* A concluding game has no pass round, whatever became of one left open.
Settled(g) ==
    IF InPlay(g) THEN g ELSE [g EXCEPT !.routing = NoRound, !.committed = NoTiles]

\* Whenever the process stops, the game can be brought back, unless in this game
\* a conclusion was begun over an open pass round; and what is brought back is
\* the game itself: every part of it that a later command, a view or a rewind
\* could read is in the payload, in every phase.
RestartLosesNothing ==
    /\ ~overran => Restorable(Payload(game))
    /\ Built(Payload(game)) = Settled(game)
=============================================================================
