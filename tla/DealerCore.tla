----------------------------- MODULE DealerCore -----------------------------
(***************************************************************************)
(* The pure core of the dealer: packages/dealer-core/src, whose apply()    *)
(* maps a game state and a command to the next game state or a rejection.  *)
(* A game state is a record; a command c is a pair of operators, the guard *)
(* CanC(g, ...) under which apply() accepts and the state C(g, ...) that   *)
(* it then returns.  A rejected command leaves the state as it is.         *)
(*                                                                         *)
(* What is abstracted, and why nothing here tells the difference:          *)
(*  - a tile is its handle (faces never influence a command);              *)
(*  - a hand is the set of its handles: its order is only ever changed by  *)
(*    arrange_hand, a permutation, and by appending, so arrange_hand is    *)
(*    the identity here;                                                   *)
(*  - the wall and the discard pile are sequences, because draw_tile takes *)
(*    an end of the one and claim_discard the top of the other;            *)
(*  - a seat is its index in SEAT_ORDER, 1 = east; NoSeat is "null";       *)
(*  - the routing of a pass round maps each "from" seat to its "to" seat   *)
(*    and every other seat to NoSeat, so "no round" is the map to NoSeat;  *)
(*    committed[s] = {} is "not committed", since a commitment is never    *)
(*    empty;                                                               *)
(*  - paused is the set of holders: PauseState is null exactly when empty; *)
(*  - the sequence number lives in the host of the game (TableActor).      *)
(*                                                                         *)
(* A definition marked "Mutant" is a plausible mistake in the one after    *)
(* it; nothing uses it, and the runs are known to tell the two apart.      *)
(***************************************************************************)
EXTENDS Integers, Sequences, FiniteSets

CONSTANTS
    Tile,           \* the handles of one game's tile set
    NumSeats,       \* SEAT_ORDER.length
    OpeningHand,    \* tiles dealt to every seat; east gets one more
    MaxHandles,     \* schema bound on the handles of one command
    Orders(_)       \* Orders(T): the wall orders a shuffle of the tiles T yields

Seat == 1 .. NumSeats
NoSeat == 0
East == 1
\* Mutant: forgets to wrap around after the last seat.
NextSeatUnwrapped(s) == s + 1

NextSeat(s) == (s % NumSeats) + 1

TilesIn(q) == {q[i] : i \in DOMAIN q}
Injective(q) == \A i, j \in DOMAIN q : q[i] = q[j] => i = j
IsOrder(q, T) == q \in Seq(T) /\ TilesIn(q) = T /\ Injective(q)

ASSUME SeatAssumption == NumSeats \in Nat /\ NumSeats >= 2
ASSUME DealAssumption ==
    /\ OpeningHand \in Nat
    /\ MaxHandles \in Nat \ {0}
    /\ IsFiniteSet(Tile)
    /\ Cardinality(Tile) >= NumSeats * OpeningHand + 1
ASSUME OrderAssumption ==
    \A T \in SUBSET Tile : \A q \in Orders(T) : IsOrder(q, T)

-----------------------------------------------------------------------------
(* Game states. *)

Handles == {T \in SUBSET Tile : T # {} /\ Cardinality(T) <= MaxHandles}
Routings == {r \in [Seat -> Seat \cup {NoSeat}] :
                Cardinality({s \in Seat : r[s] # NoSeat}) >= 2}

NoRound == [s \in Seat |-> NoSeat]
NoTiles == [s \in Seat |-> {}]
NoCorrection == [proposer |-> NoSeat, rewindTo |-> 0, accepted |-> {}]
NoProcess == [kind |-> "none", initiator |-> NoSeat, accepted |-> {}]

Exposure == [id : Nat, owner : Seat, tiles : SUBSET Tile]

GameState ==
    [lifecycle : {"idle", "in_play", "concluding", "concluded"},
     turn : Seat,
     wall : Seq(Tile),
     hands : [Seat -> SUBSET Tile],
     discards : Seq(Tile),
     exposures : SUBSET Exposure,
     nextExposureId : Nat,
     inFlight : [Seat -> SUBSET Tile],
     routing : [Seat -> Seat \cup {NoSeat}],
     committed : [Seat -> SUBSET Tile],
     revealed : SUBSET Seat,
     paused : SUBSET Seat,
     correction : [proposer : Seat \cup {NoSeat}, rewindTo : Nat, accepted : SUBSET Seat],
     process : [kind : {"none", "declaration", "end_game"},
                initiator : Seat \cup {NoSeat},
                accepted : SUBSET Seat]]

InPlay(g) == g.lifecycle = "in_play"
Live(g) == g.lifecycle \in {"in_play", "concluding"}

Participants(g) == {s \in Seat : g.routing[s] # NoSeat}
RoundOpen(g) == \E s \in Seat : g.routing[s] # NoSeat
Others(s) == Seat \ {s}

\* Mutant: overlooks a pending correction.
UnblockedByVote(g) == g.paused = {} /\ ~RoundOpen(g)

\* overlayBlocker returns null: nothing blocks a movement command.
Unblocked(g) == g.paused = {} /\ g.correction = NoCorrection /\ ~RoundOpen(g)

\* The same for the commands that a concluding game still takes: the pass
\* round only counts while the game is in play.
UnblockedLive(g) ==
    /\ Live(g)
    /\ g.paused = {}
    /\ g.correction = NoCorrection
    /\ InPlay(g) => ~RoundOpen(g)

IdleGame ==
    [lifecycle |-> "idle", turn |-> East, wall |-> <<>>, hands |-> NoTiles,
     discards |-> <<>>, exposures |-> {}, nextExposureId |-> 0,
     inFlight |-> NoTiles, routing |-> NoRound, committed |-> NoTiles,
     revealed |-> {}, paused |-> {}, correction |-> NoCorrection,
     process |-> NoProcess]

-----------------------------------------------------------------------------
(* start_deal: the shuffled tiles are dealt seat by seat from the head, the *)
(* rest is the wall.                                                        *)

OpeningCount(s) == IF s = East THEN OpeningHand + 1 ELSE OpeningHand
DealtBefore(s) == IF s = East THEN 0 ELSE (s - 1) * OpeningHand + 1

Deal(order) ==
    [IdleGame EXCEPT
        !.lifecycle = "in_play",
        !.hands = [s \in Seat |->
                     {order[i] : i \in DealtBefore(s) + 1 .. DealtBefore(s) + OpeningCount(s)}],
        !.wall = SubSeq(order, NumSeats * OpeningHand + 2, Len(order)),
        !.nextExposureId = 1]

-----------------------------------------------------------------------------
(* Movement commands. *)

CanDraw(g, s) == InPlay(g) /\ Unblocked(g) /\ g.turn = s /\ g.wall # <<>>

DrawHead(g, s) ==
    [g EXCEPT !.wall = Tail(g.wall),
              !.hands = [g.hands EXCEPT ![s] = @ \cup {Head(g.wall)}],
              !.turn = NextSeat(s)]

DrawTail(g, s) ==
    [g EXCEPT !.wall = SubSeq(g.wall, 1, Len(g.wall) - 1),
              !.hands = [g.hands EXCEPT ![s] = @ \cup {g.wall[Len(g.wall)]}],
              !.turn = NextSeat(s)]

CanDiscard(g, s, t) == InPlay(g) /\ Unblocked(g) /\ t \in g.hands[s]

DiscardTile(g, s, t) ==
    [g EXCEPT !.hands = [g.hands EXCEPT ![s] = @ \ {t}],
              !.discards = Append(g.discards, t)]

CanClaim(g) == InPlay(g) /\ Unblocked(g) /\ g.discards # <<>>

\* Mutant: leaves the claimed tile on the pile.
ClaimLeavingTile(g, s) ==
    [g EXCEPT !.hands = [g.hands EXCEPT ![s] = @ \cup {g.discards[Len(g.discards)]}],
              !.turn = s]

ClaimDiscard(g, s) ==
    [g EXCEPT !.discards = SubSeq(g.discards, 1, Len(g.discards) - 1),
              !.hands = [g.hands EXCEPT ![s] = @ \cup {g.discards[Len(g.discards)]}],
              !.turn = s]

CanExpose(g, s, T) == UnblockedLive(g) /\ T \in Handles /\ T \subseteq g.hands[s]

ExposeTiles(g, s, T) ==
    [g EXCEPT !.hands = [g.hands EXCEPT ![s] = @ \ T],
              !.exposures = @ \cup {[id |-> g.nextExposureId, owner |-> s, tiles |-> T]},
              !.nextExposureId = @ + 1]

CanRetract(g, s, e) == UnblockedLive(g) /\ e \in g.exposures /\ e.owner = s

RetractExposure(g, s, e) ==
    [g EXCEPT !.exposures = @ \ {e},
              !.hands = [g.hands EXCEPT ![s] = @ \cup e.tiles]]

\* Seat s gives tile t for the tile x of exposure e, whoever owns e.
CanSwap(g, s, t, e, x) ==
    InPlay(g) /\ Unblocked(g) /\ t \in g.hands[s] /\ e \in g.exposures /\ x \in e.tiles

SwapExposedTile(g, s, t, e, x) ==
    [g EXCEPT !.hands = [g.hands EXCEPT ![s] = (@ \ {t}) \cup {x}],
              !.exposures = (@ \ {e}) \cup
                  {[id |-> e.id, owner |-> e.owner, tiles |-> (e.tiles \ {x}) \cup {t}]}]

-----------------------------------------------------------------------------
(* The pass round. *)

CanOpenRound(g, r) ==
    InPlay(g) /\ g.paused = {} /\ g.correction = NoCorrection /\ ~RoundOpen(g) /\ r \in Routings

OpenPassRound(g, r) == [g EXCEPT !.routing = r, !.committed = NoTiles]

\* Mutant: overlooks a pause.
CanCommitPaused(g, s, T) ==
    /\ InPlay(g)
    /\ s \in Participants(g) /\ g.committed[s] = {}
    /\ T \in Handles /\ T \subseteq g.hands[s]

CanCommit(g, s, T) ==
    /\ InPlay(g) /\ g.paused = {}
    /\ s \in Participants(g) /\ g.committed[s] = {}
    /\ T \in Handles /\ T \subseteq g.hands[s]

\* The hand gives up T, and T becomes the seat's in-flight tiles, replacing
\* whatever was recorded there.
Committed(g, s, T) ==
    [g EXCEPT !.hands = [g.hands EXCEPT ![s] = @ \ T],
              !.inFlight = [g.inFlight EXCEPT ![s] = T],
              !.committed = [g.committed EXCEPT ![s] = T]]

\* Mutant: reads the routing backwards.
ExecuteBackwards(g) ==
    [g EXCEPT !.hands = [s \in Seat |-> g.hands[s] \cup
                  (IF g.routing[s] = NoSeat THEN {} ELSE g.committed[g.routing[s]])],
              !.inFlight = [s \in Seat |-> IF s \in Participants(g) THEN {} ELSE g.inFlight[s]],
              !.routing = NoRound,
              !.committed = NoTiles]

\* Every committed set moves to the seat its sender is routed to, at once.
ExecutePassRound(g) ==
    [g EXCEPT !.hands = [s \in Seat |->
                  g.hands[s] \cup UNION {g.committed[f] : f \in {p \in Seat : g.routing[p] = s}}],
              !.inFlight = [s \in Seat |-> IF s \in Participants(g) THEN {} ELSE g.inFlight[s]],
              !.routing = NoRound,
              !.committed = NoTiles]

CommitPass(g, s, T) ==
    LET c == Committed(g, s, T)
    IN  IF \A p \in Participants(c) : c.committed[p] # {} THEN ExecutePassRound(c) ELSE c

CanWithdrawPass(g, s) == InPlay(g) /\ RoundOpen(g) /\ g.committed[s] # {}

WithdrawPass(g, s) ==
    [g EXCEPT !.hands = [g.hands EXCEPT ![s] = @ \cup g.committed[s]],
              !.inFlight = [g.inFlight EXCEPT ![s] = {}],
              !.committed = [g.committed EXCEPT ![s] = {}]]

CanCancelRound(g, s) == InPlay(g) /\ s \in Participants(g)

\* Mutant: returns only the tiles of the seats that other seats give to.
CancelForReceivers(g) ==
    [g EXCEPT !.hands = [s \in Seat |-> g.hands[s] \cup
                  (IF \E p \in Seat : g.routing[p] = s THEN g.committed[s] ELSE {})],
              !.inFlight = [s \in Seat |-> IF g.committed[s] # {} THEN {} ELSE g.inFlight[s]],
              !.routing = NoRound,
              !.committed = NoTiles]

CancelPassRound(g) ==
    [g EXCEPT !.hands = [s \in Seat |-> g.hands[s] \cup g.committed[s]],
              !.inFlight = [s \in Seat |-> IF g.committed[s] # {} THEN {} ELSE g.inFlight[s]],
              !.routing = NoRound,
              !.committed = NoTiles]

-----------------------------------------------------------------------------
(* Conclusion: a declaration or a proposal to end, put to the other seats.  *)

\* declare_mahjong and propose_end_game: no overlay blocks them.
BeginProcess(g, s, kind) ==
    [g EXCEPT !.lifecycle = "concluding",
              !.process = [kind |-> kind, initiator |-> s, accepted |-> {}]]

CanRespond(g, s, kind) ==
    /\ g.lifecycle = "concluding" /\ g.process.kind = kind
    /\ s # g.process.initiator /\ s \notin g.process.accepted

\* dispute, decline or withdraw: back to play, with no pass round.
BackToPlay(g) ==
    [g EXCEPT !.lifecycle = "in_play", !.process = NoProcess,
              !.routing = NoRound, !.committed = NoTiles]

\* Concealed material is purged: the wall, tiles in flight, the hands of the
\* seats that did not reveal; discards, exposures and revealed hands stay.
ConcludeGame(g) ==
    [IdleGame EXCEPT
        !.lifecycle = "concluded",
        !.discards = g.discards,
        !.exposures = g.exposures,
        !.revealed = g.revealed,
        !.hands = [s \in Seat |-> IF s \in g.revealed THEN g.hands[s] ELSE {}]]

\* Mutant: concludes on the first acceptance.
AcceptForAll(g, s) == ConcludeGame(g)

Accept(g, s) ==
    LET accepted == g.process.accepted \cup {s}
    IN  IF Others(g.process.initiator) \subseteq accepted
        THEN ConcludeGame(g)
        ELSE [g EXCEPT !.process.accepted = accepted]

CanWithdrawDeclaration(g, s) ==
    g.lifecycle = "concluding" /\ g.process.kind = "declaration" /\ g.process.initiator = s

CanReveal(g) == Live(g)
RevealHand(g, s) == [g EXCEPT !.revealed = @ \cup {s}]

-----------------------------------------------------------------------------
(* Pause holds. *)

CanPause(g, s) == Live(g) /\ s \notin g.paused
RequestPause(g, s) == [g EXCEPT !.paused = @ \cup {s}]
CanResume(g, s) == Live(g) /\ s \in g.paused
RequestResume(g, s) == [g EXCEPT !.paused = @ \ {s}]

-----------------------------------------------------------------------------
(* Correction: a proposal to rewind, put to the other seats.  The host      *)
(* supplies the sequence numbers and the state to restore.                  *)

CanPropose(g, seq, rewindTo, oldest) ==
    /\ InPlay(g) /\ ~RoundOpen(g) /\ g.correction = NoCorrection
    /\ rewindTo < seq /\ rewindTo >= oldest

ProposeCorrection(g, s, rewindTo) ==
    [g EXCEPT !.correction = [proposer |-> s, rewindTo |-> rewindTo, accepted |-> {}]]

CanRespondCorrection(g, s) ==
    /\ InPlay(g) /\ g.correction # NoCorrection
    /\ s # g.correction.proposer /\ s \notin g.correction.accepted

RejectCorrection(g) == [g EXCEPT !.correction = NoCorrection]

\* Mutant: one acceptance is enough.
CompletesAtOnce(g, s) == s \in Others(g.correction.proposer)

CompletesUnanimity(g, s) == Others(g.correction.proposer) \subseteq g.correction.accepted \cup {s}

AcceptCorrection(g, s) == [g EXCEPT !.correction.accepted = @ \cup {s}]

\* Mutant: compares the walls the wrong way round.
CrossesBackwards(g, restored) == Len(restored.wall) < Len(g.wall)

CrossesWallDraw(g, restored) == Len(restored.wall) > Len(g.wall)

\* Mutant: leaves the discard pile as it is now.
ApplyKeepingDiscards(g, restored, w) ==
    [restored EXCEPT !.wall = w, !.discards = g.discards,
                     !.paused = g.paused, !.correction = NoCorrection]

\* The retained state comes back with wall order w: the restored wall itself,
\* or a fresh shuffle of it when the rewind crosses a wall draw.
ApplyCorrection(g, restored, w) ==
    [restored EXCEPT !.wall = w, !.paused = g.paused, !.correction = NoCorrection]

RestoredWalls(g, restored) ==
    IF CrossesWallDraw(g, restored) THEN Orders(TilesIn(restored.wall)) ELSE {restored.wall}

-----------------------------------------------------------------------------
(* The projector: the tiles whose faces the view of a seat shows.           *)

Exposed(g) == UNION {e.tiles : e \in g.exposures}

\* Mutant: shows the declarer's hand to everyone.
VisibleOnDeclaration(g, s) ==
    TilesIn(g.discards) \cup Exposed(g)
        \cup (UNION {g.hands[r] : r \in g.revealed \cup ({g.process.initiator} \cap Seat)})
        \cup (IF Live(g) THEN g.hands[s] ELSE {})

VisibleTo(g, s) ==
    TilesIn(g.discards) \cup Exposed(g) \cup (UNION {g.hands[r] : r \in g.revealed})
        \cup (IF Live(g) THEN g.hands[s] ELSE {})

-----------------------------------------------------------------------------
(* The conservation check: wall, hands, discards, exposures and tiles in    *)
(* flight hold every tile of the game exactly once.                         *)

InHand(g, t) == \E s \in Seat : t \in g.hands[s]
InFlight(g, t) == \E s \in Seat : t \in g.inFlight[s]
OnTable(g, t) == \E e \in g.exposures : t \in e.tiles

\* Every tile is in some location of the game.
Accounted(g) ==
    \A t \in Tile : \/ t \in TilesIn(g.wall) \/ t \in TilesIn(g.discards)
                    \/ InHand(g, t) \/ InFlight(g, t) \/ OnTable(g, t)

\* No tile is in two locations, nor twice in one.
Exclusive(g) ==
    /\ Injective(g.wall) /\ Injective(g.discards)
    /\ \A s, r \in Seat : s # r => /\ g.hands[s] \cap g.hands[r] = {}
                                   /\ g.inFlight[s] \cap g.inFlight[r] = {}
    /\ \A e, f \in g.exposures : e # f => e.id # f.id /\ e.tiles \cap f.tiles = {}
    /\ \A t \in Tile :
          /\ t \in TilesIn(g.wall) => ~(t \in TilesIn(g.discards) \/ InHand(g, t)
                                        \/ InFlight(g, t) \/ OnTable(g, t))
          /\ t \in TilesIn(g.discards) => ~(InHand(g, t) \/ InFlight(g, t) \/ OnTable(g, t))
          /\ InHand(g, t) => ~(InFlight(g, t) \/ OnTable(g, t))
          /\ InFlight(g, t) => ~OnTable(g, t)

\* What the record of the pass round says a seat committed is in flight for it.
BooksBalance(g) ==
    \A s \in Seat : g.committed[s] # {} =>
        g.routing[s] # NoSeat /\ g.inFlight[s] = g.committed[s]
=============================================================================
