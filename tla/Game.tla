-------------------------------- MODULE Game --------------------------------
(***************************************************************************)
(* One table's game as a state machine over DealerCore: any seat may send  *)
(* any command at any moment, and the host deals again after a conclusion. *)
(* Commands are applied one at a time (the actor's submit is synchronous), *)
(* so a step is one accepted command; a rejected one changes nothing.      *)
(* Corrections need the host's checkpoint window and are in TableActor;    *)
(* here no correction is ever pending.                                     *)
(***************************************************************************)
EXTENDS DealerCore

CONSTANTS               \* bounds on the commands that are tried
    MaxExposures,       \* exposures laid down per game
    Pausers, Revealers, \* seats that ever pause the table, reveal their hand
    RoutingInputs       \* routings that pass rounds are opened with

ASSUME BoundsAssumption ==
    /\ MaxExposures \in Nat
    /\ Pausers \subseteq Seat /\ Revealers \subseteq Seat
    /\ RoutingInputs \subseteq Routings

VARIABLES
    game,       \* the GameState the actor holds
    overran     \* history: this game, a conclusion was begun over an open pass round

vars == <<game, overran>>

-----------------------------------------------------------------------------
(* The machine. *)

Init == game = IdleGame /\ overran = FALSE

Play(g) == game' = g /\ UNCHANGED overran

\* start_deal, from idle or (folded to idle by the actor) from concluded.
StartDeal ==
    /\ game.lifecycle \in {"idle", "concluded"}
    /\ \E order \in Orders(Tile) : game' = Deal(order)
    /\ overran' = FALSE

Draw(s) == CanDraw(game, s) /\ (Play(DrawHead(game, s)) \/ Play(DrawTail(game, s)))
Discard(s) == \E t \in game.hands[s] : CanDiscard(game, s, t) /\ Play(DiscardTile(game, s, t))
Claim(s) == CanClaim(game) /\ Play(ClaimDiscard(game, s))

Expose(s) ==
    /\ game.nextExposureId <= MaxExposures
    /\ \E T \in Handles : CanExpose(game, s, T) /\ Play(ExposeTiles(game, s, T))

Retract(s) == \E e \in game.exposures : CanRetract(game, s, e) /\ Play(RetractExposure(game, s, e))

Swap(s) ==
    \E t \in game.hands[s], e \in game.exposures : \E x \in e.tiles :
        CanSwap(game, s, t, e, x) /\ Play(SwapExposedTile(game, s, t, e, x))

OpenRound == \E r \in RoutingInputs : CanOpenRound(game, r) /\ Play(OpenPassRound(game, r))
Commit(s) == \E T \in Handles : CanCommit(game, s, T) /\ Play(CommitPass(game, s, T))
Withdraw(s) == CanWithdrawPass(game, s) /\ Play(WithdrawPass(game, s))
Cancel(s) == CanCancelRound(game, s) /\ Play(CancelPassRound(game))

BeginConclusion(s, kind) ==
    /\ InPlay(game)
    /\ game' = BeginProcess(game, s, kind)
    /\ overran' = (overran \/ RoundOpen(game))

RespondAccept(s, kind) == CanRespond(game, s, kind) /\ Play(Accept(game, s))
RespondRefuse(s, kind) == CanRespond(game, s, kind) /\ Play(BackToPlay(game))
WithdrawDeclaration(s) == CanWithdrawDeclaration(game, s) /\ Play(BackToPlay(game))
Reveal(s) == s \in Revealers /\ CanReveal(game) /\ Play(RevealHand(game, s))

Pause(s) == s \in Pausers /\ CanPause(game, s) /\ Play(RequestPause(game, s))
Resume(s) == CanResume(game, s) /\ Play(RequestResume(game, s))

Kinds == {"declaration", "end_game"}

\* Every command of dealer-core but start_deal and the correction commands.
Command ==
    \/ OpenRound
    \/ \E s \in Seat :
          \/ Draw(s) \/ Discard(s) \/ Claim(s)
          \/ Expose(s) \/ Retract(s) \/ Swap(s)
          \/ Commit(s) \/ Withdraw(s) \/ Cancel(s)
          \/ WithdrawDeclaration(s) \/ Reveal(s)
          \/ Pause(s) \/ Resume(s)
          \/ \E kind \in Kinds :
                BeginConclusion(s, kind) \/ RespondAccept(s, kind) \/ RespondRefuse(s, kind)

Next == StartDeal \/ Command

Spec == Init /\ [][Next]_vars

-----------------------------------------------------------------------------
(* Properties. *)

\* The state is a GameState: every command of dealer-core returns one.
TypeOK == game \in GameState /\ overran \in BOOLEAN

\* Half of the conservation check of state/conservation.ts: no handle is ever
\* in two locations, whatever the seats do and in whatever order, including
\* conclusions begun over an open pass round.
NoTileTwice == Exclusive(game)

\* The other half, as the code keeps it: as long as nobody began a conclusion
\* over an open pass round, every tile of a live game is in some location.
ConservedUnlessOverrun == Live(game) /\ ~overran => Accounted(game)

\* The conservation invariant as conservation.ts and docs/07 state it, for
\* every live game.
Conservation == Live(game) => Exclusive(game) /\ Accounted(game)

\* While a round is open, what its record says a seat committed is what lies
\* in flight for that seat: withdraw, cancel and execution move the recorded
\* tiles, so a mismatch would copy or lose some.
RoundBooksBalance == BooksBalance(game)

ConcealedFrom(s) ==
    TilesIn(game.wall) \cup (UNION {game.inFlight[r] : r \in Seat})
        \cup (UNION {game.hands[r] : r \in Others(s) \ game.revealed})

\* No seat's view shows a tile of the wall, a tile in flight, or a tile in the
\* hand of another seat that has not revealed.
ViewsConceal == Live(game) => \A s \in Seat : VisibleTo(game, s) \cap ConcealedFrom(s) = {}

\* While any seat holds a pause, nothing on the table moves and no tile changes
\* hands: a step that stays live at most returns a seat's own tiles in flight.
PausedFreezesTiles ==
    [][game.paused # {} /\ Live(game)' =>
          /\ UNCHANGED <<game.wall, game.discards, game.exposures, game.turn>>
          /\ \A s \in Seat : /\ game.hands[s] \subseteq game.hands'[s]
                             /\ game.hands'[s] \ game.hands[s] \subseteq game.inFlight[s]]_vars

\* A pass is simultaneous: a tile in flight leaves it back to its own sender, or
\* when the whole round executes, and then every tile in flight arrives at the
\* seat it was routed to (in a game with no conclusion begun over a round).
PassIsSimultaneous ==
    [][Live(game) /\ Live(game)' /\ ~overran =>
         \A s \in Seat : \A t \in game.inFlight[s] \ game.inFlight'[s] :
            \/ t \in game.hands'[s]
            \/ /\ ~RoundOpen(game)'
               /\ \A p \in Participants(game) :
                      game.inFlight[p] \subseteq game.hands'[game.routing[p]]]_vars
=============================================================================
