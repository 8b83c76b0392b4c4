------------------------------- MODULE Screen -------------------------------
(***************************************************************************)
(* What a player is offered: web/src/gametable decides, from the seat view *)
(* alone, which buttons to show and enable; dealer-core decides, from the  *)
(* whole state, which commands to take.  The two were written apart, and   *)
(* between them lie the projector and server/src/table/view.ts.            *)
(*                                                                         *)
(* The view is the present one and nothing is armed (an armed act hides    *)
(* the others until it is confirmed or cancelled).  Left out, for want of  *)
(* a button: swap_exposed_tile; while another seat holds a pause, a second *)
(* request_pause; and withdraw_declaration, see BandShows.                 *)
(***************************************************************************)
EXTENDS Game

-----------------------------------------------------------------------------
(* The seat view. *)

NoVote == [proposer |-> NoSeat, answered |-> {}]

\* The correction or conclusion put to the vote, if it is of that kind.
CorrectionVote(g) == [proposer |-> g.correction.proposer, answered |-> g.correction.accepted]
ProcessVote(g, kind) ==
    IF g.lifecycle = "concluding" /\ g.process.kind = kind
    THEN [proposer |-> g.process.initiator, answered |-> g.process.accepted]
    ELSE NoVote

\* Mutant: the tiles in flight of every seat.
AnyCommitment(g, s) == UNION {g.inFlight[r] : r \in Seat}

\* ownCommitment is read from the tiles in flight, not from the round's record.
OwnCommitment(g, s) == g.inFlight[s]

SeatView(g, s) ==
    [seat |-> s,
     gameState |-> g.lifecycle,
     turn |-> g.turn,
     wallRemaining |-> Len(g.wall),
     discards |-> g.discards,
     ownHand |-> IF Live(g) THEN g.hands[s] ELSE {},
     paused |-> g.paused # {},
     correction |-> CorrectionVote(g),
     declaration |-> ProcessVote(g, "declaration"),
     endGame |-> ProcessVote(g, "end_game"),
     passRoundOpen |-> InPlay(g) /\ RoundOpen(g),
     ownCommitment |-> IF InPlay(g) /\ RoundOpen(g) THEN OwnCommitment(g, s) ELSE {}]

-----------------------------------------------------------------------------
(* GameTable: what the view v of a seat offers it. *)

Playing(v) == v.gameState = "in_play"
OnTheTable(v) == v.gameState \in {"in_play", "concluding"}

\* Mutant: overlooks the pause.
BlockedButForPause(v) == v.correction # NoVote \/ v.passRoundOpen

\* blockingReason is not null.
Blocked(v) == v.paused \/ v.correction # NoVote \/ v.passRoundOpen

\* Either end of the wall.
OffersDraw(v) == Playing(v) /\ v.turn = v.seat /\ ~Blocked(v) /\ v.wallRemaining > 0
OffersDiscard(v, t) == Playing(v) /\ ~Blocked(v) /\ t \in v.ownHand
OffersClaim(v) == Playing(v) /\ v.discards # <<>>
OffersExpose(v, T) == OnTheTable(v) /\ T # {} /\ T \subseteq v.ownHand
OffersRetract(v, e) == OnTheTable(v) /\ e.owner = v.seat
OffersDeclare(v) == Playing(v) /\ ~Blocked(v)
OffersReveal(v) == OnTheTable(v)
OffersEnd(v) == OnTheTable(v) /\ v.endGame = NoVote
OffersPause(v) == v.gameState # "concluded" /\ ~v.paused
OffersResume(v) == v.gameState # "concluded" /\ v.paused

OffersCorrection(v) == Playing(v) /\ v.correction = NoVote

\* VoteBand: the buttons of a band are hidden once the seat has responded.
BandShows(v, vote, responded) == vote # NoVote /\ ~responded

\* GameTable takes the proposer to have responded, so that it shows it no button,
\* not even the "Withdraw" it passes along for a declarer.
OffersAnswer(v, vote) ==
    BandShows(v, vote, v.seat = vote.proposer \/ v.seat \in vote.answered)

\* PassRoundPanel: commit or withdraw, depending on the own commitment.
OffersOpenRound(v) == Playing(v) /\ ~Blocked(v)
OffersCommit(v, T) ==
    v.passRoundOpen /\ v.ownCommitment = {} /\ T # {} /\ T \subseteq v.ownHand
OffersWithdraw(v) == v.passRoundOpen /\ v.ownCommitment # {}
OffersCancel(v) == v.passRoundOpen

-----------------------------------------------------------------------------
(* Properties. *)

\* What is offered on the present view is taken, for the acts whose overlays the
\* screen claims to account for, for answers, and (as long as no conclusion was
\* begun over an open round) for the pass panel of a seat that takes part.
OffersAreTaken ==
    \A s \in Seat : LET v == SeatView(game, s) IN
        /\ OffersDraw(v) => CanDraw(game, s)
        /\ \A t \in Tile : OffersDiscard(v, t) => CanDiscard(game, s, t)
        /\ OffersOpenRound(v) => \A r \in RoutingInputs : CanOpenRound(game, r)
        /\ OffersReveal(v) => CanReveal(game)
        /\ OffersDeclare(v) \/ (OffersEnd(v) /\ Playing(v)) => InPlay(game)
        /\ OffersAnswer(v, v.declaration) => CanRespond(game, s, "declaration")
        /\ OffersAnswer(v, v.endGame) => CanRespond(game, s, "end_game")
        /\ OffersPause(v) /\ Live(game) => CanPause(game, s)
        /\ ~overran /\ s \in Participants(game) =>
              /\ OffersWithdraw(v) => CanWithdrawPass(game, s)
              /\ \A T \in Handles :
                    OffersCommit(v, T) /\ ~v.paused => CanCommit(game, s, T)

\* The table never waits for an act that its player is not offered: whatever the
\* dealer would take from a seat now (with the same proviso for a commitment),
\* the seat's screen offers on the present view; and what is put to the vote, and
\* keeps the next proposal from being offered, somebody is offered to answer, so
\* that a declaration is decided though nobody is offered to withdraw it.
NothingAwaitedIsHidden ==
    /\ \A s \in Seat : LET v == SeatView(game, s) IN
        /\ CanDraw(game, s) => OffersDraw(v)
        /\ \A t \in Tile : CanDiscard(game, s, t) => OffersDiscard(v, t)
        /\ CanClaim(game) => OffersClaim(v)
        /\ \A T \in Handles : CanExpose(game, s, T) => OffersExpose(v, T)
        /\ \A e \in game.exposures : CanRetract(game, s, e) => OffersRetract(v, e)
        /\ (\E r \in RoutingInputs : CanOpenRound(game, r)) => OffersOpenRound(v)
        /\ ~overran => \A T \in Handles : CanCommit(game, s, T) => OffersCommit(v, T)
        /\ CanWithdrawPass(game, s) => OffersWithdraw(v)
        /\ CanCancelRound(game, s) => OffersCancel(v)
        /\ CanRespond(game, s, "declaration") => OffersAnswer(v, v.declaration)
        /\ CanRespond(game, s, "end_game") => OffersAnswer(v, v.endGame)
        /\ CanRespondCorrection(game, s) => OffersAnswer(v, v.correction)
        /\ CanResume(game, s) => OffersResume(v)
    /\ InPlay(game) /\ (\E s \in Seat : ~OffersCorrection(SeatView(game, s))) =>
        \E s \in Seat : LET v == SeatView(game, s) IN OffersAnswer(v, v.correction)
    /\ game.lifecycle = "concluding" =>
        \E s \in Seat : LET v == SeatView(game, s) IN
            OffersAnswer(v, v.declaration) \/ OffersAnswer(v, v.endGame)
=============================================================================
