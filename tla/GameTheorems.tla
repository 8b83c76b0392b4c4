---------------------------- MODULE GameTheorems ----------------------------
(***************************************************************************)
(* Game for every tile set, number of seats, shuffle, routing and bound on *)
(* the commands: the state is sound, no tile is lost unless a conclusion   *)
(* was begun over an open pass round, a pass is simultaneous, and what the *)
(* state is made of in each phase of the game gives what a checkpoint      *)
(* brings back, what a pause freezes and how the game ends.  The events    *)
(* tell a seat no more than its view shows.                                *)
(***************************************************************************)
EXTENDS Game, DealerCoreTheorems, Saved, GameRefinement, Feed

-----------------------------------------------------------------------------
(* The state is sound: no tile twice, the books balance, views conceal. *)

\* The inductive invariant: the state is sound.
Inv == Sound(game) /\ overran \in BOOLEAN

LEMMA InitInv == Init => Inv
BY IdleSound DEF Init, Inv

LEMMA NextInv == Inv /\ [Next]_vars => Inv'
<1> SUFFICES ASSUME Inv, [Next]_vars PROVE Inv'
  OBVIOUS
<1> USE DEF Play
<1>1. Sound(game) /\ overran \in BOOLEAN
  BY DEF Inv
<1>2. CASE StartDeal
  BY <1>2, DealSound DEF StartDeal, Inv
<1>3. CASE OpenRound
  BY <1>1, <1>3, OpenRoundSound DEF OpenRound, Inv
<1>4. ASSUME NEW s \in Seat, Draw(s) PROVE Inv'
  BY <1>1, <1>4, DrawHeadSound, DrawTailSound DEF Draw, Inv
<1>5. ASSUME NEW s \in Seat, Discard(s) PROVE Inv'
  BY <1>1, <1>5, DiscardSound DEF Discard, Inv
<1>6. ASSUME NEW s \in Seat, Claim(s) PROVE Inv'
  BY <1>1, <1>6, ClaimSound DEF Claim, Inv
<1>7. ASSUME NEW s \in Seat, Expose(s) PROVE Inv'
  BY <1>1, <1>7, ExposeSound DEF Expose, Inv
<1>8. ASSUME NEW s \in Seat, Retract(s) PROVE Inv'
  BY <1>1, <1>8, RetractSound DEF Retract, Inv
<1>9. ASSUME NEW s \in Seat, Swap(s) PROVE Inv'
  BY <1>1, <1>9, SwapSound DEF Swap, Inv
<1>10. ASSUME NEW s \in Seat, Commit(s) PROVE Inv'
  BY <1>1, <1>10, CommitSound DEF Commit, Inv
<1>11. ASSUME NEW s \in Seat, Withdraw(s) PROVE Inv'
  BY <1>1, <1>11, WithdrawSound DEF Withdraw, Inv
<1>12. ASSUME NEW s \in Seat, Cancel(s) PROVE Inv'
  BY <1>1, <1>12, CancelSound DEF Cancel, Inv
<1>13. ASSUME NEW s \in Seat, WithdrawDeclaration(s) PROVE Inv'
  BY <1>1, <1>13, BackToPlaySound DEF WithdrawDeclaration, CanWithdrawDeclaration, Inv
<1>14. ASSUME NEW s \in Seat, Reveal(s) \/ Pause(s) \/ Resume(s) PROVE Inv'
  BY <1>1, <1>14, FlagsSound DEF Reveal, Pause, Resume, Inv
<1>15. ASSUME NEW s \in Seat, NEW kind \in Kinds, BeginConclusion(s, kind) PROVE Inv'
  BY <1>1, <1>15, BeginProcessSound DEF BeginConclusion, Kinds, Inv
<1>16. ASSUME NEW s \in Seat, NEW kind \in Kinds, RespondAccept(s, kind) PROVE Inv'
  BY <1>1, <1>16, AcceptSound DEF RespondAccept, Inv
<1>17. ASSUME NEW s \in Seat, NEW kind \in Kinds, RespondRefuse(s, kind) PROVE Inv'
  BY <1>1, <1>17, BackToPlaySound DEF RespondRefuse, CanRespond, Inv
<1>18. CASE UNCHANGED vars
  BY <1>1, <1>18 DEF vars, Inv
<1> QED
  BY <1>2, <1>3, <1>4, <1>5, <1>6, <1>7, <1>8, <1>9, <1>10, <1>11, <1>12, <1>13, <1>14,
     <1>15, <1>16, <1>17, <1>18
  DEF Next, Command

\* Every reachable game state is sound.
THEOREM AlwaysSound == Spec => []Inv
BY InitInv, NextInv, PTL DEF Spec

\* Every command of dealer-core returns a well-formed game state.
THEOREM TypeCorrect == Spec => []TypeOK
<1>1. Inv => TypeOK
  BY DEF Inv, Sound, TypeOK
<1> QED BY <1>1, AlwaysSound, PTL

\* No tile is ever in two of wall, discards, hands, exposures and flight.
THEOREM TilesNeverDoubled == Spec => []NoTileTwice
<1>1. Inv => NoTileTwice
  BY DEF Inv, Sound, NoTileTwice
<1> QED BY <1>1, AlwaysSound, PTL

\* What a pass round records as committed is what lies in flight.
THEOREM BooksAlwaysBalance == Spec => []RoundBooksBalance
<1>1. Inv => RoundBooksBalance
  BY DEF Inv, Sound, RoundBooksBalance
<1> QED BY <1>1, AlwaysSound, PTL

\* No view shows a seat a concealed tile: the projector shows only locations
\* that are disjoint from the wall, from flight and from hidden hands.
LEMMA ViewsConcealState == Inv => ViewsConceal
<1>1. ASSUME Inv, Live(game), NEW s \in Seat, NEW u, u \in VisibleTo(game, s)
      PROVE  u \notin ConcealedFrom(s)
  <2>1. Exclusive(game) /\ game.revealed \subseteq Seat
    BY <1>1 DEF Inv, Sound, GameState
  <2>2. \/ u \in TilesIn(game.discards)
        \/ OnTable(game, u)
        \/ \E r \in Seat : (r \in game.revealed \/ r = s) /\ u \in game.hands[r]
    <3>1. u \in Exposed(game) => OnTable(game, u)
      BY DEF Exposed, OnTable
    <3>2. u \in UNION {game.hands[r] : r \in game.revealed} =>
              \E r \in game.revealed : u \in game.hands[r]
      OBVIOUS
    <3>3. \/ u \in TilesIn(game.discards) \/ u \in Exposed(game) \/ u \in game.hands[s]
          \/ u \in UNION {game.hands[r] : r \in game.revealed}
      BY <1>1 DEF VisibleTo
    <3> QED BY <2>1, <3>1, <3>2, <3>3
  <2>3. u \in Tile
    <3>1. TilesIn(game.discards) \subseteq Tile
      <4>1. game.discards \in Seq(Tile)
        BY <1>1 DEF Inv, Sound, GameState
      <4> QED BY <4>1, LenProperties DEF TilesIn
    <3>2. \A e \in game.exposures : e.tiles \subseteq Tile
      <4>1. game.exposures \subseteq Exposure
        BY <1>1 DEF Inv, Sound, GameState
      <4> QED BY <4>1 DEF Exposure
    <3>3. \A r \in Seat : game.hands[r] \subseteq Tile
      BY <1>1 DEF Inv, Sound, GameState
    <3> QED BY <2>2, <3>1, <3>2, <3>3 DEF OnTable
  <2>4. u \notin TilesIn(game.wall) /\ \A r \in Seat : u \notin game.inFlight[r]
    BY <2>1, <2>2, <2>3 DEF Exclusive, InHand, InFlight
  <2>5. \A r \in Others(s) \ game.revealed : u \notin game.hands[r]
    BY <2>1, <2>2, <2>3 DEF Exclusive, InHand, Others
  <2>6. /\ u \notin UNION {game.inFlight[r] : r \in Seat}
        /\ u \notin UNION {game.hands[r] : r \in Others(s) \ game.revealed}
    BY <2>4, <2>5
  <2> QED BY <2>4, <2>6 DEF ConcealedFrom
<1> QED BY <1>1 DEF ViewsConceal

\* So in no game played by the commands of dealer-core.
THEOREM ViewsAlwaysConceal == Spec => []ViewsConceal
BY ViewsConcealState, AlwaysSound, PTL

-----------------------------------------------------------------------------
(* What the commands keep accounted for. *)

\* Tiles in flight are on the record of the pass round.
FlightRecorded(g) == \A s \in Seat : g.committed[s] = {} => g.inFlight[s] = {}

\* Every tile is somewhere, and what is in flight can be brought back.
Complete(g) == Accounted(g) /\ FlightRecorded(g)

\* draw_tile, from either end.
LEMMA DrawComplete ==
    ASSUME NEW g, Sound(g), Complete(g), NEW s \in Seat, CanDraw(g, s)
    PROVE  Complete(DrawHead(g, s)) /\ Complete(DrawTail(g, s))
<1>1. /\ g \in GameState /\ g.wall \in Seq(Tile) /\ g.wall # <<>> /\ Injective(g.wall)
  BY DEF Sound, CanDraw, GameState, Exclusive
<1>2. ASSUME NEW h \in {DrawHead(g, s), DrawTail(g, s)} PROVE Complete(h)
  <2>1. \E u : /\ TilesIn(h.wall) = TilesIn(g.wall) \ {u}
               /\ h.hands = [g.hands EXCEPT ![s] = @ \cup {u}]
    <3>1. CASE h = DrawHead(g, s)
      <4>1. h.wall = Tail(g.wall) /\ h.hands = [g.hands EXCEPT ![s] = @ \cup {Head(g.wall)}]
        BY <1>1, <3>1 DEF DrawHead, GameState
      <4> QED BY <1>1, <4>1, TailTiles
    <3>2. CASE h = DrawTail(g, s)
      <4>1. /\ h.wall = SubSeq(g.wall, 1, Len(g.wall) - 1)
            /\ h.hands = [g.hands EXCEPT ![s] = @ \cup {g.wall[Len(g.wall)]}]
        BY <1>1, <3>2 DEF DrawTail, GameState
      <4> QED BY <1>1, <4>1, FrontTiles
    <3> QED BY <1>2, <3>1, <3>2
  <2>2. /\ h.discards = g.discards /\ h.exposures = g.exposures
        /\ h.inFlight = g.inFlight /\ h.committed = g.committed
    BY <1>1, <1>2 DEF DrawHead, DrawTail, GameState
  <2>3. \A t \in Tile : /\ t \in TilesIn(g.wall) => t \in TilesIn(h.wall) \/ InHand(h, t)
                        /\ InHand(g, t) => InHand(h, t)
    BY <1>1, <2>1 DEF InHand, GameState
  <2>4. Accounted(h)
    BY <2>2, <2>3 DEF Complete, Accounted, InFlight, OnTable
  <2> QED BY <2>2, <2>4 DEF Complete, FlightRecorded
<1> QED BY <1>2

\* discard_tile.
LEMMA DiscardComplete ==
    ASSUME NEW g, Sound(g), Complete(g), NEW s \in Seat, NEW t, CanDiscard(g, s, t)
    PROVE  Complete(DiscardTile(g, s, t))
<1> DEFINE h == DiscardTile(g, s, t)
           pile == Append(g.discards, t)
<1>1. /\ g \in GameState /\ g.discards \in Seq(Tile) /\ Injective(g.discards)
      /\ t \in g.hands[s] /\ t \in Tile /\ t \notin TilesIn(g.discards)
  BY DEF Sound, CanDiscard, GameState, Exclusive, InHand
<1>2. TilesIn(pile) = TilesIn(g.discards) \cup {t}
  BY <1>1, AppendTiles
<1>3. /\ h.discards = pile /\ h.hands = [g.hands EXCEPT ![s] = @ \ {t}]
      /\ h.wall = g.wall /\ h.exposures = g.exposures
      /\ h.inFlight = g.inFlight /\ h.committed = g.committed
  BY <1>1 DEF DiscardTile, GameState
<1> HIDE DEF pile, h
<1>4. \A u \in Tile : InHand(g, u) => InHand(h, u) \/ u \in TilesIn(h.discards)
  BY <1>1, <1>2, <1>3 DEF InHand, GameState
<1>5. Accounted(h)
  BY <1>2, <1>3, <1>4 DEF Complete, Accounted, InFlight, OnTable
<1> QED BY <1>3, <1>5 DEF Complete, FlightRecorded, h

\* claim_discard.
LEMMA ClaimComplete ==
    ASSUME NEW g, Sound(g), Complete(g), NEW s \in Seat, CanClaim(g)
    PROVE  Complete(ClaimDiscard(g, s))
<1> DEFINE h == ClaimDiscard(g, s)
           top == g.discards[Len(g.discards)]
           rest == SubSeq(g.discards, 1, Len(g.discards) - 1)
<1>1. /\ g \in GameState /\ g.discards \in Seq(Tile) /\ g.discards # <<>> /\ Injective(g.discards)
  BY DEF Sound, CanClaim, GameState, Exclusive
<1>2. TilesIn(rest) = TilesIn(g.discards) \ {top}
  BY <1>1, FrontTiles
<1>3. /\ h.discards = rest /\ h.hands = [g.hands EXCEPT ![s] = @ \cup {top}]
      /\ h.wall = g.wall /\ h.exposures = g.exposures
      /\ h.inFlight = g.inFlight /\ h.committed = g.committed
  BY <1>1 DEF ClaimDiscard, GameState
<1> HIDE DEF rest, top, h
<1>4. \A u \in Tile : /\ InHand(g, u) => InHand(h, u)
                      /\ u \in TilesIn(g.discards) => u \in TilesIn(h.discards) \/ InHand(h, u)
  BY <1>1, <1>2, <1>3 DEF InHand, GameState
<1>5. Accounted(h)
  BY <1>3, <1>4 DEF Complete, Accounted, InFlight, OnTable
<1> QED BY <1>3, <1>5 DEF Complete, FlightRecorded, h

\* expose_tiles.
LEMMA ExposeComplete ==
    ASSUME NEW g, Sound(g), Complete(g), NEW s \in Seat, NEW T, CanExpose(g, s, T)
    PROVE  Complete(ExposeTiles(g, s, T))
<1> DEFINE h == ExposeTiles(g, s, T)
           laid == [id |-> g.nextExposureId, owner |-> s, tiles |-> T]
<1>1. g \in GameState /\ laid.tiles = T
  BY DEF Sound
<1>2. /\ h.exposures = g.exposures \cup {laid} /\ h.hands = [g.hands EXCEPT ![s] = @ \ T]
      /\ h.wall = g.wall /\ h.discards = g.discards
      /\ h.inFlight = g.inFlight /\ h.committed = g.committed
  BY <1>1 DEF ExposeTiles, GameState
<1> HIDE DEF laid, h
<1>3. \A u \in Tile : /\ InHand(g, u) => InHand(h, u) \/ OnTable(h, u)
                      /\ OnTable(g, u) => OnTable(h, u)
  BY <1>1, <1>2 DEF InHand, OnTable, GameState
<1>4. Accounted(h)
  BY <1>2, <1>3 DEF Complete, Accounted, InFlight
<1> QED BY <1>2, <1>4 DEF Complete, FlightRecorded, h

\* retract_exposure.
LEMMA RetractComplete ==
    ASSUME NEW g, Sound(g), Complete(g), NEW s \in Seat, NEW e, CanRetract(g, s, e)
    PROVE  Complete(RetractExposure(g, s, e))
<1> DEFINE h == RetractExposure(g, s, e)
<1>1. g \in GameState
  BY DEF Sound
<1>2. /\ h.exposures = g.exposures \ {e} /\ h.hands = [g.hands EXCEPT ![s] = @ \cup e.tiles]
      /\ h.wall = g.wall /\ h.discards = g.discards
      /\ h.inFlight = g.inFlight /\ h.committed = g.committed
  BY <1>1 DEF RetractExposure, GameState
<1> HIDE DEF h
<1>3. \A u \in Tile : /\ InHand(g, u) => InHand(h, u)
                      /\ OnTable(g, u) => OnTable(h, u) \/ InHand(h, u)
  BY <1>1, <1>2 DEF InHand, OnTable, GameState
<1>4. Accounted(h)
  BY <1>2, <1>3 DEF Complete, Accounted, InFlight
<1> QED BY <1>2, <1>4 DEF Complete, FlightRecorded, h

\* swap_exposed_tile.
LEMMA SwapComplete ==
    ASSUME NEW g, Sound(g), Complete(g), NEW s \in Seat, NEW t, NEW e, NEW x, CanSwap(g, s, t, e, x)
    PROVE  Complete(SwapExposedTile(g, s, t, e, x))
<1> DEFINE h == SwapExposedTile(g, s, t, e, x)
           new == [id |-> e.id, owner |-> e.owner, tiles |-> (e.tiles \ {x}) \cup {t}]
<1>1. g \in GameState /\ new.tiles = (e.tiles \ {x}) \cup {t}
  BY DEF Sound
<1>2. /\ h.exposures = (g.exposures \ {e}) \cup {new}
      /\ h.hands = [g.hands EXCEPT ![s] = (@ \ {t}) \cup {x}]
      /\ h.wall = g.wall /\ h.discards = g.discards
      /\ h.inFlight = g.inFlight /\ h.committed = g.committed
  BY <1>1 DEF SwapExposedTile, GameState
<1> HIDE DEF new, h
<1>3. ASSUME NEW u \in Tile, InHand(g, u) PROVE InHand(h, u) \/ OnTable(h, u)
  <2>1. PICK r \in Seat : u \in g.hands[r]
    BY <1>3 DEF InHand
  <2>2. CASE r = s /\ u = t
    BY <1>1, <1>2, <2>2 DEF OnTable
  <2>3. CASE ~(r = s /\ u = t)
    <3>1. u \in h.hands[r]
      BY <1>1, <1>2, <2>1, <2>3 DEF GameState
    <3> QED BY <3>1 DEF InHand
  <2> QED BY <2>2, <2>3
<1>4. ASSUME NEW u \in Tile, OnTable(g, u) PROVE InHand(h, u) \/ OnTable(h, u)
  <2>1. u = x => u \in h.hands[s]
    BY <1>1, <1>2 DEF GameState
  <2>2. PICK f \in g.exposures : u \in f.tiles
    BY <1>4 DEF OnTable
  <2>3. u # x => OnTable(h, u)
    BY <1>1, <1>2, <2>2 DEF OnTable
  <2> QED BY <2>1, <2>3 DEF InHand
<1>5. Accounted(h)
  BY <1>2, <1>3, <1>4 DEF Complete, Accounted, InFlight
<1> QED BY <1>2, <1>5 DEF Complete, FlightRecorded, h

-----------------------------------------------------------------------------
(* The pass round and the conclusion. *)

\* With no round open nothing is committed, and so nothing in flight.
LEMMA NothingInFlight ==
    ASSUME NEW g, Sound(g), Complete(g), ~RoundOpen(g)
    PROVE  \A s \in Seat : g.committed[s] = {} /\ g.inFlight[s] = {}
BY DEF Sound, BooksBalance, RoundOpen, Complete, FlightRecorded

\* open_pass_round finds nothing in flight that its empty record would forget.
LEMMA OpenRoundComplete ==
    ASSUME NEW g, Sound(g), Complete(g), NEW r, CanOpenRound(g, r)
    PROVE  Complete(OpenPassRound(g, r))
<1> DEFINE h == OpenPassRound(g, r)
<1>1. g \in GameState
  BY DEF Sound
<1>2. /\ h.wall = g.wall /\ h.discards = g.discards /\ h.hands = g.hands
      /\ h.inFlight = g.inFlight /\ h.exposures = g.exposures
  BY <1>1 DEF OpenPassRound, GameState
<1> HIDE DEF h
<1>3. \A s \in Seat : h.inFlight[s] = {}
  BY <1>2, NothingInFlight DEF CanOpenRound
<1> QED BY <1>2, <1>3 DEF Complete, FlightRecorded, Accounted, InHand, InFlight, OnTable, h

\* A commitment finds nothing of the seat in flight, and so replaces nothing.
LEMMA CommittedComplete ==
    ASSUME NEW g, Sound(g), Complete(g), NEW s \in Seat, NEW T, CanCommit(g, s, T)
    PROVE  Complete(Committed(g, s, T))
<1> DEFINE h == Committed(g, s, T)
<1>1. g \in GameState /\ T # {} /\ g.inFlight[s] = {}
  BY DEF Sound, CanCommit, Handles, Complete, FlightRecorded
<1>2. /\ h.hands = [g.hands EXCEPT ![s] = @ \ T]
      /\ h.inFlight = [g.inFlight EXCEPT ![s] = T]
      /\ h.committed = [g.committed EXCEPT ![s] = T]
      /\ h.wall = g.wall /\ h.discards = g.discards /\ h.exposures = g.exposures
  BY <1>1 DEF Committed, GameState
<1> HIDE DEF h
<1>3. \A u \in Tile : InHand(g, u) => InHand(h, u) \/ InFlight(h, u)
  BY <1>1, <1>2 DEF InHand, InFlight, GameState
<1>4. \A u \in Tile : InFlight(g, u) => InFlight(h, u)
  BY <1>1, <1>2 DEF InFlight, GameState
<1>5. Accounted(h)
  BY <1>2, <1>3, <1>4 DEF Complete, Accounted, OnTable
<1>6. FlightRecorded(h)
  BY <1>1, <1>2 DEF Complete, FlightRecorded, GameState
<1> QED BY <1>5, <1>6 DEF Complete, h

\* Execution: what is in flight was committed, and arrives.
LEMMA ExecuteComplete ==
    ASSUME NEW g, Sound(g), Complete(g)
    PROVE  Complete(ExecutePassRound(g))
<1> DEFINE h == ExecutePassRound(g)
           arriving(s) == UNION {g.committed[f] : f \in {p \in Seat : g.routing[p] = s}}
<1>1. g \in GameState
      /\ \A s \in Seat : \A u \in g.inFlight[s] : u \in g.committed[s] /\ g.routing[s] # NoSeat
  BY DEF Sound, Complete, FlightRecorded, BooksBalance, GameState
<1>2. /\ h.hands = [s \in Seat |-> g.hands[s] \cup arriving(s)]
      /\ h.inFlight = [s \in Seat |-> IF s \in Participants(g) THEN {} ELSE g.inFlight[s]]
      /\ h.wall = g.wall /\ h.discards = g.discards /\ h.exposures = g.exposures
  BY <1>1 DEF ExecutePassRound, GameState
<1>3. \A s \in Seat : \A u : u \in arriving(s) <=> \E p \in Seat : g.routing[p] = s /\ u \in g.committed[p]
  OBVIOUS
<1> HIDE DEF arriving, h
<1>4. \A u \in Tile : (InHand(g, u) => InHand(h, u)) /\ (InFlight(g, u) => InHand(h, u))
  <2>1. \A u \in Tile : InHand(g, u) => InHand(h, u)
    BY <1>2 DEF InHand
  <2>2. ASSUME NEW u \in Tile, NEW p \in Seat, u \in g.inFlight[p] PROVE InHand(h, u)
    <3>1. g.routing[p] \in Seat /\ u \in g.committed[p]
      BY <1>1, <2>2 DEF GameState
    <3>2. u \in h.hands[g.routing[p]]
      BY <1>2, <1>3, <3>1
    <3> QED BY <3>1, <3>2 DEF InHand
  <2> QED BY <2>1, <2>2 DEF InFlight
<1>5. Accounted(h)
  BY <1>2, <1>4 DEF Complete, Accounted, OnTable
<1>6. FlightRecorded(h)
  BY <1>1, <1>2 DEF FlightRecorded, Participants
<1> QED BY <1>5, <1>6 DEF Complete, h

\* commit_pass, with the execution that the last commitment triggers.
LEMMA CommitComplete ==
    ASSUME NEW g, Sound(g), Complete(g), NEW s \in Seat, NEW T, CanCommit(g, s, T)
    PROVE  Complete(CommitPass(g, s, T))
BY CommittedSound, CommittedComplete, ExecuteComplete DEF CommitPass

\* withdraw_pass.
LEMMA WithdrawComplete ==
    ASSUME NEW g, Sound(g), Complete(g), NEW s \in Seat, CanWithdrawPass(g, s)
    PROVE  Complete(WithdrawPass(g, s))
<1> DEFINE h == WithdrawPass(g, s)
<1>1. g \in GameState /\ g.inFlight[s] = g.committed[s]
  BY DEF Sound, CanWithdrawPass, BooksBalance
<1>2. /\ h.hands = [g.hands EXCEPT ![s] = @ \cup g.committed[s]]
      /\ h.inFlight = [g.inFlight EXCEPT ![s] = {}]
      /\ h.committed = [g.committed EXCEPT ![s] = {}]
      /\ h.wall = g.wall /\ h.discards = g.discards /\ h.exposures = g.exposures
  BY <1>1 DEF WithdrawPass, GameState
<1> HIDE DEF h
<1>3. \A u \in Tile : InHand(g, u) => InHand(h, u)
  BY <1>1, <1>2 DEF InHand, GameState
<1>4. \A u \in Tile : InFlight(g, u) => InFlight(h, u) \/ InHand(h, u)
  BY <1>1, <1>2 DEF InHand, InFlight, GameState
<1>5. Accounted(h)
  BY <1>2, <1>3, <1>4 DEF Complete, Accounted, OnTable
<1>6. FlightRecorded(h)
  BY <1>1, <1>2 DEF Complete, FlightRecorded, GameState
<1> QED BY <1>5, <1>6 DEF Complete, h

\* cancel_pass_round.
LEMMA CancelComplete ==
    ASSUME NEW g, Sound(g), Complete(g)
    PROVE  Complete(CancelPassRound(g))
<1> DEFINE h == CancelPassRound(g)
<1>1. g \in GameState /\ \A s \in Seat : g.inFlight[s] = g.committed[s]
  BY DEF Sound, Complete, FlightRecorded, BooksBalance
<1>2. /\ h.hands = [s \in Seat |-> g.hands[s] \cup g.committed[s]]
      /\ h.inFlight = [s \in Seat |-> IF g.committed[s] # {} THEN {} ELSE g.inFlight[s]]
      /\ h.wall = g.wall /\ h.discards = g.discards /\ h.exposures = g.exposures
  BY <1>1 DEF CancelPassRound, GameState
<1> HIDE DEF h
<1>3. \A u \in Tile : (InHand(g, u) => InHand(h, u)) /\ (InFlight(g, u) => InHand(h, u))
  BY <1>1, <1>2 DEF InHand, InFlight
<1>4. Accounted(h)
  BY <1>2, <1>3 DEF Complete, Accounted, OnTable
<1>5. FlightRecorded(h)
  BY <1>1, <1>2 DEF FlightRecorded
<1> QED BY <1>4, <1>5 DEF Complete, h

\* A command that moves no tile and keeps the record of commitments.
LEMMA SameTilesComplete ==
    ASSUME NEW g, Complete(g), NEW h,
           h.wall = g.wall, h.discards = g.discards, h.hands = g.hands,
           h.inFlight = g.inFlight, h.exposures = g.exposures,
           FlightRecorded(h)
    PROVE  Complete(h)
BY DEF Complete, Accounted, InHand, InFlight, OnTable

\* The clearing of the round is harmless when there was none.
LEMMA BackToPlayComplete ==
    ASSUME NEW g, Sound(g), Complete(g), ~RoundOpen(g)
    PROVE  Complete(BackToPlay(g))
<1> DEFINE h == BackToPlay(g)
<1>1. /\ h.wall = g.wall /\ h.discards = g.discards /\ h.hands = g.hands
      /\ h.inFlight = g.inFlight /\ h.exposures = g.exposures
  BY DEF BackToPlay, Sound, GameState
<1> HIDE DEF h
<1>2. FlightRecorded(h)
  BY <1>1, NothingInFlight DEF FlightRecorded
<1> QED BY <1>1, <1>2, SameTilesComplete DEF h

-----------------------------------------------------------------------------
(* The deal. *)

\* Division with remainder, and the sign of the quotient.
LEMMA Quotient ==
    ASSUME NEW a \in Nat, NEW k \in Nat, k > 0
    PROVE  \E q \in Nat, r \in 0 .. k - 1 : a = q * k + r
<1> DEFINE q == a \div k
           r == a % k
<1>1. q \in Int /\ r \in Int /\ a = k * q + r
  OBVIOUS
<1>2. r >= 0 /\ r < k
  OBVIOUS
<1> HIDE DEF q, r
<1>3. k * q = q * k
  BY <1>1
<1>4. q \in Nat
  <2> SUFFICES ASSUME q < 0 PROVE FALSE
    BY <1>1
  <2>1. 1 \in Nat /\ -q \in Nat /\ 1 <= -q
    BY <1>1
  <2>2. 1 * k <= (-q) * k
    BY <2>1, MulMonotone
  <2>3. (-q) * k = -(q * k) /\ 1 * k = k /\ q * k \in Int
    BY <1>1
  <2> QED BY <1>1, <1>2, <1>3, <2>2, <2>3
<1> QED BY <1>1, <1>2, <1>3, <1>4

\* The opening hands take up the whole head of the order.
LEMMA DealtCovers ==
    ASSUME NEW i \in 1 .. NumSeats * OpeningHand + 1
    PROVE  \E s \in Seat : i \in Dealt(s)
<1>1. OpeningHand \in Nat /\ NumSeats \in Nat /\ NumSeats >= 2 /\ Seat = 1 .. NumSeats
  BY SeatAssumption, DealAssumption DEF Seat
<1>2. NumSeats * OpeningHand \in Nat
  BY <1>1, MulMonotone
<1>3. CASE i <= OpeningHand + 1
  <2>1. Dealt(1) = 1 .. OpeningHand + 1
    BY <1>1 DEF Dealt, DealtBefore, OpeningCount, East
  <2> QED BY <1>1, <1>2, <1>3, <2>1
<1>4. CASE i > OpeningHand + 1
  <2>1. OpeningHand > 0
    <3> SUFFICES ASSUME OpeningHand = 0 PROVE FALSE
      BY <1>1
    <3>1. NumSeats * OpeningHand = 0
      BY <1>1
    <3> QED BY <1>4, <3>1
  <2>2. i - 2 \in Nat
    BY <1>1, <1>2, <1>4, <2>1
  <2>3. PICK q \in Nat, r \in 0 .. OpeningHand - 1 : i - 2 = q * OpeningHand + r
    BY <1>1, <2>1, <2>2, Quotient
  <2>4. q * OpeningHand \in Nat
    BY <1>1, MulMonotone
  <2>5. q # 0
    <3> SUFFICES ASSUME q = 0 PROVE FALSE
      OBVIOUS
    <3>1. q * OpeningHand = 0
      BY <1>1
    <3> QED BY <1>1, <1>2, <1>4, <2>3, <3>1
  <2>6. q < NumSeats
    <3> SUFFICES ASSUME NumSeats <= q PROVE FALSE
      BY <1>1
    <3>1. NumSeats * OpeningHand <= q * OpeningHand
      BY <1>1, MulMonotone
    <3> QED BY <1>1, <1>2, <2>3, <2>4, <3>1
  <2>7. q + 1 \in Seat /\ q + 1 # East /\ (q + 1) - 1 = q
    BY <1>1, <2>5, <2>6 DEF East
  <2>8. Dealt(q + 1) = q * OpeningHand + 1 + 1 .. q * OpeningHand + 1 + OpeningHand
    BY <2>7 DEF Dealt, DealtBefore, OpeningCount
  <2>9. i \in Dealt(q + 1)
    BY <1>1, <1>2, <2>3, <2>4, <2>8
  <2> QED BY <2>7, <2>9
<1> QED BY <1>1, <1>2, <1>3, <1>4

\* start_deal: what is not dealt is the wall.
LEMMA DealComplete ==
    ASSUME NEW order \in Orders(Tile)
    PROVE  Complete(Deal(order))
<1> DEFINE h == Deal(order)
           n == NumSeats * OpeningHand + 1
<1>1. IsOrder(order, Tile)
  BY OrderAssumption
<1>2. /\ order \in Seq(Tile) /\ DOMAIN order = 1 .. Len(order) /\ Len(order) \in Nat
      /\ n \in Nat /\ n <= Len(order)
  <2>1. NumSeats * OpeningHand \in Nat
    BY SeatAssumption, DealAssumption, MulMonotone
  <2> QED BY <1>1, <2>1, OrderLength, DealAssumption DEF IsOrder
<1>3. /\ h.wall = SubSeq(order, n + 1, Len(order))
      /\ h.hands = [s \in Seat |-> {order[i] : i \in Dealt(s)}]
      /\ h.inFlight = NoTiles
  <2>1. n + 1 = NumSeats * OpeningHand + 2
    BY SeatAssumption, DealAssumption, MulMonotone
  <2> HIDE DEF n
  <2> QED BY <2>1 DEF Deal, IdleGame, Dealt
<1> HIDE DEF h
<1>4. ASSUME NEW i \in 1 .. n PROVE InHand(h, order[i])
  <2>1. PICK s \in Seat : i \in Dealt(s)
    BY DealtCovers
  <2> QED BY <1>3, <2>1 DEF InHand
<1> HIDE DEF n
<1>5. ASSUME NEW i \in n + 1 .. Len(order) PROVE order[i] \in TilesIn(h.wall)
  <2>1. DOMAIN h.wall = 1 .. Len(order) - n /\ \A j \in 1 .. Len(order) - n : h.wall[j] = order[n + j]
    BY <1>2, <1>3
  <2>2. i - n \in 1 .. Len(order) - n /\ n + (i - n) = i
    BY <1>2
  <2>3. h.wall[i - n] = order[i]
    BY <2>1, <2>2
  <2> QED BY <2>1, <2>2, <2>3 DEF TilesIn
<1>6. Accounted(h)
  <2> SUFFICES ASSUME NEW t \in Tile PROVE t \in TilesIn(h.wall) \/ InHand(h, t)
    BY DEF Accounted
  <2>1. PICK i \in 1 .. Len(order) : t = order[i]
    BY <1>1, <1>2 DEF IsOrder, TilesIn
  <2>2. i \in 1 .. n \/ i \in n + 1 .. Len(order)
    BY <1>2
  <2> QED BY <1>4, <1>5, <2>1, <2>2
<1>7. FlightRecorded(h)
  BY <1>3 DEF FlightRecorded, NoTiles
<1> QED BY <1>6, <1>7 DEF Complete, h

-----------------------------------------------------------------------------
(* The invariant. *)

\* As long as no conclusion was begun over an open pass round, a live game has
\* all its tiles, and a concluding one has no round whose record it could clear.
TilesKept ==
    Live(game) /\ ~overran => Complete(game) /\ (InPlay(game) \/ ~RoundOpen(game))

LEMMA InitKept == Init => TilesKept
BY DEF Init, IdleGame, TilesKept, Live

LEMMA NextKept == Inv /\ TilesKept /\ [Next]_vars => TilesKept'
<1> SUFFICES ASSUME Inv, TilesKept, [Next]_vars PROVE TilesKept'
  OBVIOUS
<1> USE DEF Play
<1>1. Sound(game)
  BY DEF Inv
<1>2. CASE UNCHANGED vars
  BY <1>2 DEF vars, TilesKept
<1>3. CASE StartDeal
  <2>1. PICK order \in Orders(Tile) : game' = Deal(order)
    BY <1>3 DEF StartDeal
  <2>2. InPlay(game')
    BY <2>1 DEF Deal, IdleGame, InPlay
  <2> QED BY <2>1, <2>2, DealComplete DEF TilesKept
<1>4. CASE Command
  <2> SUFFICES ASSUME ~overran', Live(game')
               PROVE  Complete(game') /\ (InPlay(game') \/ ~RoundOpen(game'))
    BY DEF TilesKept
  <2> DEFINE Kept(h) == Complete(h) /\ (InPlay(h) \/ ~RoundOpen(h))
  <2>1. game \in GameState /\ (Live(game) /\ ~overran => Kept(game))
    BY <1>1 DEF Sound, TilesKept
  <2>2. ASSUME NEW s \in Seat, Draw(s) PROVE Kept(game')
    <3>1. CanDraw(game, s) /\ Kept(game) /\ InPlay(game)
      BY <2>1, <2>2 DEF Draw, CanDraw, InPlay, Live
    <3>2. InPlay(DrawHead(game, s)) /\ InPlay(DrawTail(game, s))
      BY <2>1, <3>1 DEF DrawHead, DrawTail, InPlay, GameState
    <3> QED BY <1>1, <2>2, <3>1, <3>2, DrawComplete DEF Draw
  <2>3. ASSUME NEW s \in Seat, Discard(s) PROVE Kept(game')
    <3>1. PICK t \in game.hands[s] : CanDiscard(game, s, t) /\ Play(DiscardTile(game, s, t))
      BY <2>3 DEF Discard
    <3>2. InPlay(game) /\ Complete(game)
      BY <2>1, <3>1 DEF CanDiscard, InPlay, Live
    <3>3. InPlay(DiscardTile(game, s, t))
      BY <2>1, <3>2 DEF DiscardTile, InPlay, GameState
    <3> QED BY <1>1, <3>1, <3>2, <3>3, DiscardComplete
  <2>4. ASSUME NEW s \in Seat, Claim(s) PROVE Kept(game')
    <3>1. InPlay(game) /\ Complete(game)
      BY <2>1, <2>4 DEF Claim, CanClaim, InPlay, Live
    <3>2. InPlay(ClaimDiscard(game, s))
      BY <2>1, <3>1 DEF ClaimDiscard, InPlay, GameState
    <3> QED BY <1>1, <2>4, <3>1, <3>2, ClaimComplete DEF Claim
  <2>5. ASSUME NEW s \in Seat, Expose(s) PROVE Kept(game')
    <3>1. PICK T \in Handles : CanExpose(game, s, T) /\ Play(ExposeTiles(game, s, T))
      BY <2>5 DEF Expose
    <3>2. Live(game) /\ Kept(game)
      BY <2>1, <3>1 DEF CanExpose, UnblockedLive
    <3>3. game'.lifecycle = game.lifecycle /\ game'.routing = game.routing
      BY <2>1, <3>1 DEF ExposeTiles, GameState
    <3>4. InPlay(game') \/ ~RoundOpen(game')
      BY <3>2, <3>3 DEF InPlay, RoundOpen
    <3> QED BY <1>1, <3>1, <3>2, <3>4, ExposeComplete
  <2>6. ASSUME NEW s \in Seat, Retract(s) PROVE Kept(game')
    <3>1. PICK e \in game.exposures : CanRetract(game, s, e) /\ Play(RetractExposure(game, s, e))
      BY <2>6 DEF Retract
    <3>2. Live(game) /\ Kept(game)
      BY <2>1, <3>1 DEF CanRetract, UnblockedLive
    <3>3. game'.lifecycle = game.lifecycle /\ game'.routing = game.routing
      BY <2>1, <3>1 DEF RetractExposure, GameState
    <3>4. InPlay(game') \/ ~RoundOpen(game')
      BY <3>2, <3>3 DEF InPlay, RoundOpen
    <3> QED BY <1>1, <3>1, <3>2, <3>4, RetractComplete
  <2>7. ASSUME NEW s \in Seat, Swap(s) PROVE Kept(game')
    <3>1. PICK t \in game.hands[s], e \in game.exposures : \E x \in e.tiles :
              CanSwap(game, s, t, e, x) /\ Play(SwapExposedTile(game, s, t, e, x))
      BY <2>7 DEF Swap
    <3>2. PICK x \in e.tiles : CanSwap(game, s, t, e, x) /\ Play(SwapExposedTile(game, s, t, e, x))
      BY <3>1
    <3>3. InPlay(game) /\ Complete(game)
      BY <2>1, <3>2 DEF CanSwap, InPlay, Live
    <3>4. InPlay(SwapExposedTile(game, s, t, e, x))
      BY <2>1, <3>3 DEF SwapExposedTile, InPlay, GameState
    <3> QED BY <1>1, <3>2, <3>3, <3>4, SwapComplete
  <2>8. CASE OpenRound
    <3>1. PICK r \in RoutingInputs : CanOpenRound(game, r) /\ Play(OpenPassRound(game, r))
      BY <2>8 DEF OpenRound
    <3>2. InPlay(game) /\ Complete(game)
      BY <2>1, <3>1 DEF CanOpenRound, InPlay, Live
    <3>3. InPlay(OpenPassRound(game, r))
      BY <2>1, <3>2 DEF OpenPassRound, InPlay, GameState
    <3> QED BY <1>1, <3>1, <3>2, <3>3, OpenRoundComplete
  <2>9. ASSUME NEW s \in Seat, Commit(s) PROVE Kept(game')
    <3>1. PICK T \in Handles : CanCommit(game, s, T) /\ Play(CommitPass(game, s, T))
      BY <2>9 DEF Commit
    <3>2. InPlay(game) /\ Complete(game)
      BY <2>1, <3>1 DEF CanCommit, InPlay, Live
    <3>3. InPlay(CommitPass(game, s, T))
      BY <2>1, <3>2 DEF CommitPass, Committed, ExecutePassRound, InPlay, GameState
    <3> QED BY <1>1, <3>1, <3>2, <3>3, CommitComplete
  <2>10. ASSUME NEW s \in Seat, Withdraw(s) PROVE Kept(game')
    <3>1. InPlay(game) /\ Complete(game)
      BY <2>1, <2>10 DEF Withdraw, CanWithdrawPass, InPlay, Live
    <3>2. InPlay(WithdrawPass(game, s))
      BY <2>1, <3>1 DEF WithdrawPass, InPlay, GameState
    <3> QED BY <1>1, <2>10, <3>1, <3>2, WithdrawComplete DEF Withdraw
  <2>11. ASSUME NEW s \in Seat, Cancel(s) PROVE Kept(game')
    <3>1. InPlay(game) /\ Complete(game)
      BY <2>1, <2>11 DEF Cancel, CanCancelRound, InPlay, Live
    <3>2. InPlay(CancelPassRound(game))
      BY <2>1, <3>1 DEF CancelPassRound, InPlay, GameState
    <3> QED BY <1>1, <2>11, <3>1, <3>2, CancelComplete DEF Cancel
  <2>12. ASSUME NEW s \in Seat, WithdrawDeclaration(s) \/ \E kind \in Kinds : RespondRefuse(s, kind)
         PROVE  Kept(game')
    <3>1. game.lifecycle = "concluding" /\ Play(BackToPlay(game))
      BY <2>12 DEF WithdrawDeclaration, CanWithdrawDeclaration, RespondRefuse, CanRespond
    <3>2. Complete(game) /\ ~RoundOpen(game)
      BY <2>1, <3>1 DEF InPlay, Live
    <3>3. InPlay(BackToPlay(game))
      BY <2>1 DEF BackToPlay, InPlay, GameState
    <3> QED BY <1>1, <3>1, <3>2, <3>3, BackToPlayComplete
  <2>13. ASSUME NEW s \in Seat, NEW kind \in Kinds, BeginConclusion(s, kind) PROVE Kept(game')
    <3>1. InPlay(game) /\ ~overran /\ ~RoundOpen(game)
      BY <2>13 DEF BeginConclusion, Inv
    <3>2. /\ game'.wall = game.wall /\ game'.discards = game.discards /\ game'.hands = game.hands
          /\ game'.inFlight = game.inFlight /\ game'.exposures = game.exposures
          /\ game'.committed = game.committed /\ game'.routing = game.routing
      BY <2>1, <2>13 DEF BeginConclusion, BeginProcess, GameState
    <3>3. Complete(game)
      BY <2>1, <3>1 DEF InPlay, Live
    <3>4. FlightRecorded(game')
      BY <3>2, <3>3 DEF Complete, FlightRecorded
    <3>5. Complete(game')
      BY <3>2, <3>3, <3>4, SameTilesComplete
    <3> QED BY <3>1, <3>2, <3>5 DEF RoundOpen
  <2>14. ASSUME NEW s \in Seat,
                \/ \E kind \in Kinds : RespondAccept(s, kind)
                \/ Reveal(s) \/ Pause(s) \/ Resume(s)
         PROVE  Kept(game')
    <3>1. Live(game) /\ Kept(game)
      BY <2>1, <2>14 DEF RespondAccept, CanRespond, Reveal, CanReveal, Pause, CanPause,
                         Resume, CanResume, Live
    <3>2. ~Live(ConcludeGame(game))
      BY DEF ConcludeGame, IdleGame, Live
    <3>3. \/ \E kind \in Kinds : RespondAccept(s, kind) /\ game' \in
                 {ConcludeGame(game),
                  [game EXCEPT !.process.accepted = game.process.accepted \cup {s}]}
          \/ game' \in {RevealHand(game, s), RequestPause(game, s), RequestResume(game, s)}
      BY <2>14 DEF RespondAccept, Accept, Reveal, Pause, Resume
    <3>4. /\ game'.wall = game.wall /\ game'.discards = game.discards /\ game'.hands = game.hands
          /\ game'.inFlight = game.inFlight /\ game'.exposures = game.exposures
          /\ game'.committed = game.committed /\ game'.routing = game.routing
          /\ game'.lifecycle = game.lifecycle
      BY <2>1, <3>2, <3>3 DEF RevealHand, RequestPause, RequestResume, GameState
    <3>5. FlightRecorded(game')
      BY <3>1, <3>4 DEF Complete, FlightRecorded
    <3>6. Complete(game')
      BY <3>1, <3>4, <3>5, SameTilesComplete
    <3> QED BY <3>1, <3>4, <3>6 DEF InPlay, RoundOpen
  <2> QED
    BY <1>4, <2>2, <2>3, <2>4, <2>5, <2>6, <2>7, <2>8, <2>9, <2>10, <2>11, <2>12, <2>13, <2>14
    DEF Command
<1> QED BY <1>2, <1>3, <1>4 DEF Next

\* Every tile of a live game is in one of its locations, as long as nobody began
\* a conclusion over an open pass round.
THEOREM TilesNeverLost == Spec => []ConservedUnlessOverrun
<1>1. TilesKept => ConservedUnlessOverrun
  BY DEF TilesKept, Complete, ConservedUnlessOverrun
<1> QED BY <1>1, InitKept, NextKept, AlwaysSound, PTL DEF Spec

-----------------------------------------------------------------------------
(* The simultaneous pass. *)

\* Every tile that leaves the flight returns to its sender, or arrives together
\* with all the others while the round closes.
Delivered ==
    \A s \in Seat : \A t \in game.inFlight[s] \ game.inFlight'[s] :
       \/ t \in game.hands'[s]
       \/ /\ ~RoundOpen(game)'
          /\ \A p \in Participants(game) : game.inFlight[p] \subseteq game.hands'[game.routing[p]]

\* As long as no conclusion was begun over a round, what is in flight is recorded.
LEMMA FlightIsCommitted ==
    ASSUME Inv, TilesKept, Live(game), ~overran
    PROVE  /\ game \in GameState
           /\ \A s \in Seat : /\ game.inFlight[s] = game.committed[s]
                              /\ game.committed[s] # {} => s \in Participants(game)
BY DEF Inv, Sound, TilesKept, Complete, FlightRecorded, BooksBalance, Participants

\* A commitment releases nothing, unless it is the last: then all arrive at once.
LEMMA CommitDelivers ==
    ASSUME Inv, TilesKept, Live(game), ~overran, NEW s \in Seat, Commit(s)
    PROVE  Delivered
<1>1. PICK T \in Handles : CanCommit(game, s, T) /\ game' = CommitPass(game, s, T)
  BY DEF Commit, Play
<1> DEFINE c == Committed(game, s, T)
<1>2. /\ game \in GameState /\ game.committed[s] = {} /\ game.inFlight[s] = {}
      /\ \A r \in Seat : game.inFlight[r] = game.committed[r]
  BY <1>1, FlightIsCommitted DEF CanCommit
<1>3. /\ c.routing = game.routing
      /\ c.hands = [game.hands EXCEPT ![s] = @ \ T]
      /\ c.inFlight = [game.inFlight EXCEPT ![s] = T]
      /\ c.committed = [game.committed EXCEPT ![s] = T]
  BY <1>2 DEF Committed, GameState
<1>4. /\ \A r \in Seat : game.inFlight[r] \subseteq c.inFlight[r]
      /\ \A r \in Seat : game.inFlight[r] \subseteq c.committed[r]
  BY <1>2, <1>3 DEF GameState
<1>5. CASE game' = c
  BY <1>4, <1>5 DEF Delivered
<1>6. CASE game' = ExecutePassRound(c)
  <2>1. /\ game'.routing = NoRound
        /\ game'.hands = [r \in Seat |->
             c.hands[r] \cup UNION {c.committed[f] : f \in {p \in Seat : c.routing[p] = r}}]
    BY <1>2, <1>6 DEF ExecutePassRound, Committed, GameState
  <2>2. ~RoundOpen(game')
    BY <2>1 DEF RoundOpen, NoRound
  <2> HIDE DEF c
  <2>3. ASSUME NEW p \in Participants(game)
        PROVE  game.inFlight[p] \subseteq game'.hands[game.routing[p]]
    <3>1. p \in Seat /\ game.routing[p] \in Seat
      BY <1>2, <2>3 DEF Participants, GameState
    <3>2. c.committed[p] \subseteq game'.hands[game.routing[p]]
      BY <1>3, <2>1, <3>1
    <3> QED BY <1>4, <3>1, <3>2
  <2> QED BY <2>2, <2>3 DEF Delivered, RoundOpen
<1> QED BY <1>1, <1>5, <1>6 DEF CommitPass

\* withdraw_pass and cancel_pass_round return tiles to their senders.
LEMMA ReturnDelivers ==
    ASSUME Inv, TilesKept, Live(game), ~overran, NEW s \in Seat, Withdraw(s) \/ Cancel(s)
    PROVE  Delivered
<1>1. game \in GameState /\ \A r \in Seat : game.inFlight[r] = game.committed[r]
  BY FlightIsCommitted
<1>2. CASE Withdraw(s)
  <2>1. /\ game'.hands = [game.hands EXCEPT ![s] = @ \cup game.committed[s]]
        /\ game'.inFlight = [game.inFlight EXCEPT ![s] = {}]
    BY <1>1, <1>2 DEF Withdraw, WithdrawPass, Play, GameState
  <2> QED BY <1>1, <2>1 DEF Delivered, GameState
<1>3. CASE Cancel(s)
  <2>1. game'.hands = [r \in Seat |-> game.hands[r] \cup game.committed[r]]
    BY <1>1, <1>3 DEF Cancel, CancelPassRound, Play, GameState
  <2> QED BY <1>1, <2>1 DEF Delivered
<1> QED BY <1>2, <1>3

\* Every other step of a live game leaves the flight alone.
LEMMA FlightAlone ==
    ASSUME Inv, [Next]_vars, Live(game), Live(game'),
           \A s \in Seat : ~Commit(s) /\ ~Withdraw(s) /\ ~Cancel(s)
    PROVE  game'.inFlight = game.inFlight
<1> USE DEF Play
<1>1. game \in GameState
  BY DEF Inv, Sound
<1>2. CASE UNCHANGED vars
  BY <1>2 DEF vars
<1>3. ~StartDeal
  BY DEF StartDeal, Live
<1>4. CASE OpenRound
  BY <1>1, <1>4 DEF OpenRound, OpenPassRound, GameState
<1>5. ASSUME NEW s \in Seat,
             Draw(s) \/ Discard(s) \/ Claim(s) \/ Expose(s) \/ Retract(s) \/ Swap(s)
             \/ Reveal(s) \/ Pause(s) \/ Resume(s)
      PROVE  game'.inFlight = game.inFlight
  BY <1>1, <1>5 DEF Draw, DrawHead, DrawTail, Discard, DiscardTile, Claim, ClaimDiscard,
                    Expose, ExposeTiles, Retract, RetractExposure, Swap, SwapExposedTile,
                    Reveal, RevealHand, Pause, RequestPause, Resume, RequestResume, GameState
<1>6. ASSUME NEW s \in Seat, WithdrawDeclaration(s) PROVE game'.inFlight = game.inFlight
  BY <1>1, <1>6 DEF WithdrawDeclaration, BackToPlay, GameState
<1>7. ASSUME NEW s \in Seat, NEW kind \in Kinds,
             BeginConclusion(s, kind) \/ RespondRefuse(s, kind)
      PROVE  game'.inFlight = game.inFlight
  BY <1>1, <1>7 DEF BeginConclusion, BeginProcess, RespondRefuse, BackToPlay, GameState
<1>8. ASSUME NEW s \in Seat, NEW kind \in Kinds, RespondAccept(s, kind)
      PROVE  game'.inFlight = game.inFlight
  <2>1. game' # ConcludeGame(game)
    BY DEF ConcludeGame, IdleGame, Live
  <2> QED BY <1>1, <1>8, <2>1 DEF RespondAccept, Accept, GameState
<1> QED BY <1>2, <1>3, <1>4, <1>5, <1>6, <1>7, <1>8 DEF Next, Command

LEMMA PassStep ==
    ASSUME Inv, TilesKept, [Next]_vars, Live(game), Live(game'), ~overran
    PROVE  Delivered
<1>1. CASE \E s \in Seat : Commit(s) \/ Withdraw(s) \/ Cancel(s)
  BY <1>1, CommitDelivers, ReturnDelivers
<1>2. CASE \A s \in Seat : ~Commit(s) /\ ~Withdraw(s) /\ ~Cancel(s)
  BY <1>2, FlightAlone DEF Delivered
<1> QED BY <1>1, <1>2

\* A pass is simultaneous: a tile leaves the flight back to its sender, or as all
\* tiles in flight arrive where the round routes them.
THEOREM PassAlwaysSimultaneous == Spec => PassIsSimultaneous
<1>1. Inv /\ TilesKept /\ [Next]_vars =>
        [Live(game) /\ Live(game)' /\ ~overran =>
         \A s \in Seat : \A t \in game.inFlight[s] \ game.inFlight'[s] :
            \/ t \in game.hands'[s]
            \/ /\ ~RoundOpen(game)'
               /\ \A p \in Participants(game) :
                      game.inFlight[p] \subseteq game.hands'[game.routing[p]]]_vars
  BY PassStep DEF Live, Delivered
<1>2. Init => Inv /\ TilesKept
  BY InitInv, InitKept
<1>3. Inv /\ TilesKept /\ [Next]_vars => Inv' /\ TilesKept'
  BY NextInv, NextKept
<1> QED BY <1>1, <1>2, <1>3, PTL DEF Spec, PassIsSimultaneous

-----------------------------------------------------------------------------
(* What a game state is made of in each phase. *)

\* Before the first deal there is nothing; a process belongs to a concluding game
\* and is then undecided; of a concluded game, only what everybody may see remains.
Phased(g) ==
    /\ g.lifecycle = "idle" => g = IdleGame
    /\ g.lifecycle # "concluding" => g.process = NoProcess
    /\ g.lifecycle = "concluding" =>
          /\ g.process.kind \in {"declaration", "end_game"}
          /\ g.process.initiator \in Seat
          /\ g.process.accepted \subseteq Others(g.process.initiator)
    /\ g.lifecycle = "concluded" => \E h \in GameState : g = ConcludeGame(h)

\* Commands that stay in their phase.
LEMMA SamePhase ==
    ASSUME NEW g, Phased(g), Live(g), NEW h,
           h.lifecycle = g.lifecycle, h.process = g.process
    PROVE  Phased(h)
BY DEF Phased, Live

LEMMA InitPhased == Init => Phased(game)
BY DEF Init, Phased, IdleGame

\* Commands that leave the phase and the process alone.
Quiet(s) ==
    \/ Draw(s) \/ Discard(s) \/ Claim(s) \/ Expose(s) \/ Retract(s) \/ Swap(s)
    \/ OpenRound \/ Commit(s) \/ Withdraw(s) \/ Cancel(s)
    \/ Reveal(s) \/ Pause(s) \/ Resume(s)

LEMMA QuietStep ==
    ASSUME game \in GameState, NEW s \in Seat, Quiet(s)
    PROVE  Live(game) /\ game'.lifecycle = game.lifecycle /\ game'.process = game.process
<1> DEFINE Same(h) == h.lifecycle = game.lifecycle /\ h.process = game.process
<1> USE DEF Play
<1>1. CASE OpenRound
  BY <1>1 DEF OpenRound, CanOpenRound, InPlay, Live, OpenPassRound, GameState
<1>2. CASE Draw(s) \/ Discard(s) \/ Claim(s) \/ Expose(s) \/ Retract(s) \/ Swap(s)
           \/ Reveal(s) \/ Pause(s) \/ Resume(s)
  <2>1. Live(game)
    BY <1>2 DEF Draw, CanDraw, Discard, CanDiscard, Claim, CanClaim, Expose, CanExpose,
                Retract, CanRetract, Swap, CanSwap, Reveal, CanReveal, Pause, CanPause,
                Resume, CanResume, UnblockedLive, InPlay, Live
  <2>2. Same(game')
    BY <1>2 DEF Draw, DrawHead, DrawTail, Discard, DiscardTile, Claim, ClaimDiscard,
                Expose, ExposeTiles, Retract, RetractExposure, Swap, SwapExposedTile,
                Reveal, RevealHand, Pause, RequestPause, Resume, RequestResume, GameState
  <2> QED BY <2>1, <2>2
<1>3. CASE Commit(s) \/ Withdraw(s) \/ Cancel(s)
  <2>1. Live(game)
    BY <1>3 DEF Commit, CanCommit, Withdraw, CanWithdrawPass, Cancel, CanCancelRound, InPlay, Live
  <2>2. \A T : Same(Committed(game, s, T)) /\ Same(ExecutePassRound(Committed(game, s, T)))
    BY DEF Committed, ExecutePassRound, GameState
  <2>3. Commit(s) => Same(game')
    BY <2>2 DEF Commit, CommitPass
  <2>4. Withdraw(s) \/ Cancel(s) => Same(game')
    BY DEF Withdraw, WithdrawPass, Cancel, CancelPassRound, GameState
  <2> QED BY <1>3, <2>1, <2>3, <2>4
<1> QED BY <1>1, <1>2, <1>3 DEF Quiet

\* The commands of a phase, and those that lead into another.
LEMMA NextPhased == Inv /\ Phased(game) /\ [Next]_vars => Phased(game)'
<1> SUFFICES ASSUME Inv, Phased(game), [Next]_vars PROVE Phased(game')
  OBVIOUS
<1> USE DEF Play
<1>1. game \in GameState
  BY DEF Inv, Sound
<1>2. CASE UNCHANGED vars
  BY <1>2 DEF vars
<1>3. CASE StartDeal
  <2>1. game'.lifecycle = "in_play" /\ game'.process = NoProcess
    BY <1>3 DEF StartDeal, Deal, IdleGame
  <2> QED BY <2>1 DEF Phased
<1>4. ASSUME NEW s \in Seat, Quiet(s) PROVE Phased(game')
  BY <1>1, <1>4, QuietStep, SamePhase
<1>7. ASSUME NEW s \in Seat, WithdrawDeclaration(s) \/ \E kind \in Kinds : RespondRefuse(s, kind)
      PROVE  Phased(game')
  <2>1. game'.lifecycle = "in_play" /\ game'.process = NoProcess
    BY <1>1, <1>7 DEF WithdrawDeclaration, RespondRefuse, BackToPlay, GameState
  <2> QED BY <2>1 DEF Phased
<1>8. ASSUME NEW s \in Seat, NEW kind \in Kinds, BeginConclusion(s, kind) PROVE Phased(game')
  <2>1. /\ game'.lifecycle = "concluding"
        /\ game'.process = [kind |-> kind, initiator |-> s, accepted |-> {}]
    BY <1>1, <1>8 DEF BeginConclusion, BeginProcess, GameState
  <2> QED BY <2>1 DEF Phased, Kinds
<1>9. ASSUME NEW s \in Seat, NEW kind \in Kinds, RespondAccept(s, kind) PROVE Phased(game')
  <2>1. CASE game' = ConcludeGame(game)
    <3>1. game'.lifecycle = "concluded" /\ game'.process = NoProcess
      BY <2>1 DEF ConcludeGame, IdleGame
    <3> QED BY <1>1, <2>1, <3>1 DEF Phased
  <2>2. CASE game' = [game EXCEPT !.process.accepted = game.process.accepted \cup {s}]
    <3>1. /\ game.lifecycle = "concluding" /\ s # game.process.initiator
      BY <1>9 DEF RespondAccept, CanRespond
    <3>2. /\ game'.lifecycle = "concluding"
          /\ game'.process.kind = game.process.kind
          /\ game'.process.initiator = game.process.initiator
          /\ game'.process.accepted = game.process.accepted \cup {s}
      BY <1>1, <2>2, <3>1 DEF GameState
    <3> QED BY <3>1, <3>2 DEF Phased, Others
  <2> QED BY <1>9, <2>1, <2>2 DEF RespondAccept, Accept
<1>5. East \in Seat
  BY SeatAssumption DEF East, Seat
<1> QED BY <1>2, <1>3, <1>4, <1>5, <1>7, <1>8, <1>9 DEF Next, Command, Quiet

\* In every reachable state the game is sound, complete and in phase.
THEOREM AlwaysPhased == Spec => [](Inv /\ TilesKept /\ Phased(game))
BY InitInv, NextInv, InitKept, NextKept, InitPhased, NextPhased, PTL DEF Spec

-----------------------------------------------------------------------------
(* Checkpoints. *)

\* The record of a round that is not open is already settled.
LEMMA NothingToSettle ==
    ASSUME NEW g \in GameState, g.routing = NoRound, g.committed = NoTiles
    PROVE  Settled(g) = g
BY DEF Settled, GameState

\* A payload brings back what it was made of, but for the record of a round that
\* a conclusion was begun over.
LEMMA BroughtBack ==
    ASSUME NEW g \in GameState, Phased(g)
    PROVE  Built(Payload(g)) = Settled(g)
<1>1. CASE g.lifecycle = "idle"
  <2>1. Payload(g).lifecycle = "idle"
    BY <1>1 DEF Payload
  <2>2. Built(Payload(g)) = IdleGame
    BY <2>1 DEF Built
  <2>3. g = IdleGame
    BY <1>1 DEF Phased
  <2>4. g.routing = NoRound /\ g.committed = NoTiles
    BY <2>3 DEF IdleGame
  <2> QED BY <2>2, <2>3, <2>4, NothingToSettle
<1>2. CASE g.lifecycle = "in_play"
  <2>1. Payload(g) = [lifecycle |-> "in_play", live |-> LivePart(g), passRound |-> RoundPart(g)]
    BY <1>2 DEF Payload
  <2>2. Built(Payload(g)) = WithLive(Payload(g), RoundPart(g), NoProcess)
    BY <2>1 DEF Built
  <2>3. WithLive(Payload(g), RoundPart(g), NoProcess) = g
    BY <1>2, <2>1 DEF WithLive, LivePart, RoundPart, Phased, GameState
  <2> QED BY <1>2, <2>2, <2>3 DEF Settled, InPlay
<1>3. CASE g.lifecycle = "concluding"
  <2>1. Payload(g) = [lifecycle |-> "concluding", live |-> LivePart(g), process |-> g.process]
    BY <1>3 DEF Payload
  <2>2. Built(Payload(g)) = WithLive(Payload(g), RoundPart(IdleGame), g.process)
    BY <2>1 DEF Built
  <2>3. RoundPart(IdleGame) = [routing |-> NoRound, committed |-> NoTiles]
    BY DEF RoundPart, IdleGame
  <2> DEFINE w == [g EXCEPT !.routing = NoRound, !.committed = NoTiles]
  <2>4. Settled(g) = w
    BY <1>3 DEF Settled, InPlay
  <2>5. w \in GameState
    BY DEF GameState, NoRound, NoTiles
  <2>6. /\ w.lifecycle = g.lifecycle /\ w.turn = g.turn /\ w.wall = g.wall /\ w.hands = g.hands
        /\ w.discards = g.discards /\ w.exposures = g.exposures
        /\ w.nextExposureId = g.nextExposureId /\ w.inFlight = g.inFlight
        /\ w.routing = NoRound /\ w.committed = NoTiles /\ w.revealed = g.revealed
        /\ w.paused = g.paused /\ w.correction = g.correction /\ w.process = g.process
    BY DEF GameState
  <2> HIDE DEF w
  <2>7. WithLive(Payload(g), RoundPart(IdleGame), g.process) = w
    BY <1>3, <2>1, <2>3, <2>5, <2>6 DEF WithLive, LivePart, GameState
  <2> QED BY <2>2, <2>4, <2>7
<1>4. CASE g.lifecycle = "concluded"
  <2>1. Payload(g) = [lifecycle |-> "concluded", concluded |-> ConcludedPart(g)]
    BY <1>4 DEF Payload
  <2>2. PICK h \in GameState : g = ConcludeGame(h)
    BY <1>4 DEF Phased
  <2>3. /\ g.revealed = h.revealed /\ g.revealed \subseteq Seat
        /\ g.discards = h.discards /\ g.exposures = h.exposures
        /\ g.hands = [s \in Seat |-> IF s \in g.revealed THEN h.hands[s] ELSE {}]
        /\ g.routing = NoRound /\ g.committed = NoTiles
    <3>1. h.revealed \subseteq Seat
      BY DEF GameState
    <3> QED BY <2>2, <3>1 DEF ConcludeGame, IdleGame
  <2> DEFINE c == ConcludedPart(g)
             shown == DOMAIN c.revealedHands
             hands == [s \in Seat |-> IF s \in shown THEN c.revealedHands[s] ELSE {}]
  <2>4. /\ shown = g.revealed /\ c.discards = g.discards /\ c.exposures = g.exposures
        /\ hands = g.hands
    BY <2>3 DEF ConcludedPart
  <2>5. Payload(g).lifecycle = "concluded" /\ Payload(g).concluded = c
    BY <2>1
  <2>6. Built(Payload(g)) = [IdleGame EXCEPT !.lifecycle = "concluded", !.discards = c.discards,
                                             !.exposures = c.exposures, !.revealed = shown,
                                             !.hands = hands]
    BY <2>5 DEF Built
  <2> HIDE DEF c, shown, hands
  <2>7. Built(Payload(g)) = [IdleGame EXCEPT !.lifecycle = "concluded", !.discards = g.discards,
                                             !.exposures = g.exposures, !.revealed = g.revealed,
                                             !.hands = g.hands]
    BY <2>4, <2>6
  <2>8. g.hands = [s \in Seat |-> IF s \in h.revealed THEN h.hands[s] ELSE {}]
    BY <2>2 DEF ConcludeGame, IdleGame
  <2>9. Built(Payload(g)) = g
    BY <2>2, <2>3, <2>7, <2>8 DEF ConcludeGame
  <2> QED BY <2>3, <2>9, NothingToSettle
<1> QED BY <1>1, <1>2, <1>3, <1>4 DEF GameState

\* Whatever the phase a checkpoint is taken in, it is accepted at restore (unless
\* a conclusion was begun over an open round) and yields the same game.
LEMMA StateBroughtBack == Inv /\ TilesKept /\ Phased(game) => RestartLosesNothing
<1> SUFFICES ASSUME Inv, TilesKept, Phased(game) PROVE RestartLosesNothing
  OBVIOUS
<1>1. game \in GameState /\ Exclusive(game)
  BY DEF Inv, Sound
<1>2. Built(Payload(game)) = Settled(game)
  BY <1>1, BroughtBack
<1>3. /\ Settled(game).lifecycle = game.lifecycle /\ Settled(game).wall = game.wall
      /\ Settled(game).discards = game.discards /\ Settled(game).hands = game.hands
      /\ Settled(game).inFlight = game.inFlight /\ Settled(game).exposures = game.exposures
  BY <1>1 DEF Settled, GameState
<1>4. Live(game) /\ ~overran => Accounted(game)
  BY DEF TilesKept, Complete
<1>5. Exclusive(Settled(game)) /\ (Accounted(game) => Accounted(Settled(game)))
  BY <1>1, <1>3 DEF Exclusive, Accounted, InHand, InFlight, OnTable
<1> QED BY <1>2, <1>3, <1>4, <1>5 DEF RestartLosesNothing, Restorable, Live

\* A process that stops at any moment of a game can bring the game back.
THEOREM CheckpointsBringBack == Spec => []RestartLosesNothing
BY StateBroughtBack, AlwaysPhased, PTL

-----------------------------------------------------------------------------
(* What a step may not do. *)

\* A game that nobody plays is not paused.
LEMMA PausedIsLive ==
    ASSUME Inv, Phased(game), game.paused # {}
    PROVE  Live(game)
<1>1. game.lifecycle \in {"idle", "in_play", "concluding", "concluded"}
  BY DEF Inv, Sound, GameState
<1>2. game.lifecycle # "idle"
  BY DEF Phased, IdleGame
<1>3. game.lifecycle # "concluded"
  BY DEF Phased, ConcludeGame, IdleGame
<1> QED BY <1>1, <1>2, <1>3 DEF Live

\* What a paused table lets happen moves no tile, but for those a seat takes back.
LEMMA PausedStep ==
    ASSUME Inv, Phased(game), [Next]_vars, game.paused # {}, Live(game')
    PROVE  /\ UNCHANGED <<game.wall, game.discards, game.exposures, game.turn>>
           /\ \A s \in Seat : /\ game.hands[s] \subseteq game.hands'[s]
                              /\ game.hands'[s] \ game.hands[s] \subseteq game.inFlight[s]
<1> DEFINE Frozen ==
             /\ UNCHANGED <<game.wall, game.discards, game.exposures, game.turn>>
             /\ \A s \in Seat : /\ game.hands[s] \subseteq game.hands'[s]
                                /\ game.hands'[s] \ game.hands[s] \subseteq game.inFlight[s]
<1> SUFFICES Frozen
  OBVIOUS
<1> USE DEF Play
<1>1. game \in GameState /\ BooksBalance(game) /\ Live(game)
  BY PausedIsLive DEF Inv, Sound
<1>2. CASE UNCHANGED vars
  BY <1>2 DEF vars
<1>3. ~StartDeal /\ ~OpenRound
  BY <1>1 DEF StartDeal, OpenRound, CanOpenRound, Live
<1>4. \A s \in Seat : ~Draw(s) /\ ~Discard(s) /\ ~Claim(s) /\ ~Expose(s) /\ ~Retract(s)
                      /\ ~Swap(s) /\ ~Commit(s)
  BY DEF Draw, CanDraw, Discard, CanDiscard, Claim, CanClaim, Expose, CanExpose, Retract,
         CanRetract, Swap, CanSwap, Commit, CanCommit, Unblocked, UnblockedLive
<1>5. ASSUME NEW s \in Seat, Withdraw(s) PROVE Frozen
  <2>1. game.inFlight[s] = game.committed[s]
    BY <1>1, <1>5 DEF Withdraw, CanWithdrawPass, BooksBalance
  <2>2. /\ game'.hands = [game.hands EXCEPT ![s] = @ \cup game.committed[s]]
        /\ game'.wall = game.wall /\ game'.discards = game.discards
        /\ game'.exposures = game.exposures /\ game'.turn = game.turn
    BY <1>1, <1>5 DEF Withdraw, WithdrawPass, GameState
  <2> QED BY <1>1, <2>1, <2>2 DEF GameState
<1>6. ASSUME NEW s \in Seat, Cancel(s) PROVE Frozen
  <2>1. \A r \in Seat : game.committed[r] \subseteq game.inFlight[r]
    BY <1>1 DEF BooksBalance
  <2>2. /\ game'.hands = [r \in Seat |-> game.hands[r] \cup game.committed[r]]
        /\ game'.wall = game.wall /\ game'.discards = game.discards
        /\ game'.exposures = game.exposures /\ game'.turn = game.turn
    BY <1>1, <1>6 DEF Cancel, CancelPassRound, GameState
  <2> QED BY <2>1, <2>2
<1>7. ASSUME NEW s \in Seat,
             \/ WithdrawDeclaration(s) \/ Reveal(s) \/ Pause(s) \/ Resume(s)
             \/ \E kind \in Kinds : RespondRefuse(s, kind) \/ BeginConclusion(s, kind)
      PROVE  Frozen
  <2> DEFINE Still == /\ game'.wall = game.wall /\ game'.discards = game.discards
                      /\ game'.hands = game.hands /\ game'.exposures = game.exposures
                      /\ game'.turn = game.turn
  <2>1. CASE game' = BackToPlay(game)
    <3>1. Still
      BY <1>1, <2>1 DEF BackToPlay, GameState
    <3> QED BY <3>1
  <2>2. CASE game' \in {RevealHand(game, s), RequestPause(game, s), RequestResume(game, s)}
    <3>1. Still
      BY <1>1, <2>2 DEF RevealHand, RequestPause, RequestResume, GameState
    <3> QED BY <3>1
  <2>3. ASSUME NEW kind \in Kinds, game' = BeginProcess(game, s, kind) PROVE Frozen
    <3>1. Still
      BY <1>1, <2>3 DEF BeginProcess, GameState
    <3> QED BY <3>1
  <2> QED BY <1>7, <2>1, <2>2, <2>3
             DEF WithdrawDeclaration, RespondRefuse, Reveal, Pause, Resume, BeginConclusion
<1>8. ASSUME NEW s \in Seat, NEW kind \in Kinds, RespondAccept(s, kind) PROVE Frozen
  <2>1. game' # ConcludeGame(game)
    BY DEF ConcludeGame, IdleGame, Live
  <2>2. game' = [game EXCEPT !.process.accepted = game.process.accepted \cup {s}]
    BY <1>8, <2>1 DEF RespondAccept, Accept
  <2>3. /\ game'.wall = game.wall /\ game'.discards = game.discards /\ game'.hands = game.hands
        /\ game'.exposures = game.exposures /\ game'.turn = game.turn
    BY <1>1, <2>2 DEF GameState
  <2> QED BY <2>3
<1> QED BY <1>2, <1>3, <1>4, <1>5, <1>6, <1>7, <1>8 DEF Next, Command

\* While any seat holds a pause no tile moves, but back from flight to its sender.
THEOREM PauseAlwaysFreezes == Spec => PausedFreezesTiles
<1>1. Inv /\ Phased(game) /\ [Next]_vars =>
        [game.paused # {} /\ Live(game)' =>
          /\ UNCHANGED <<game.wall, game.discards, game.exposures, game.turn>>
          /\ \A s \in Seat : /\ game.hands[s] \subseteq game.hands'[s]
                             /\ game.hands'[s] \ game.hands[s] \subseteq game.inFlight[s]]_vars
  BY PausedStep DEF Live
<1> QED BY <1>1, AlwaysPhased, PTL DEF Spec, PausedFreezesTiles

-----------------------------------------------------------------------------
(* The end by consent. *)

\* The initial game of Consent.
LEMMA ConsentInit == Init => Ending!Init
BY DEF Init, IdleGame, NoProcess, Ending!Init

\* Every step of the game is one that Consent allows, or none of its business.
LEMMA ConsentStep ==
    ASSUME Inv, Phased(game), [Next]_vars
    PROVE  [Ending!Next]_<<game.process.initiator, game.process.accepted, game.lifecycle = "concluded">>
<1> DEFINE Same == /\ game'.process = game.process
                   /\ (game'.lifecycle = "concluded") = (game.lifecycle = "concluded")
           Allowed == Ending!Next \/ Same
<1> SUFFICES Allowed
  OBVIOUS
<1> USE DEF Play
<1>1. game \in GameState /\ NoSeat \notin Seat
  BY DEF Inv, Sound, NoSeat, Seat
<1>2. CASE UNCHANGED vars
  BY <1>2 DEF vars
<1>3. CASE StartDeal
  <2>1. game.process = NoProcess
    BY <1>3 DEF StartDeal, Phased
  <2>2. game'.process = NoProcess /\ game'.lifecycle = "in_play"
    BY <1>3 DEF StartDeal, Deal, IdleGame
  <2>3. Ending!NewGame
    BY <2>1, <2>2 DEF Ending!NewGame, NoProcess
  <2> QED BY <2>3 DEF Ending!Next
<1>4. ASSUME NEW s \in Seat, NEW kind \in Kinds, BeginConclusion(s, kind) PROVE Allowed
  <2>1. game.process = NoProcess /\ game.lifecycle = "in_play"
    BY <1>4 DEF BeginConclusion, InPlay, Phased
  <2>2. /\ game'.lifecycle = "concluding"
        /\ game'.process = [kind |-> kind, initiator |-> s, accepted |-> {}]
    BY <1>1, <1>4 DEF BeginConclusion, BeginProcess, GameState
  <2>3. Ending!Ask(s)
    BY <2>1, <2>2 DEF Ending!Ask, NoProcess
  <2> QED BY <2>3 DEF Ending!Next
<1>5. ASSUME NEW s \in Seat, WithdrawDeclaration(s) \/ \E kind \in Kinds : RespondRefuse(s, kind)
      PROVE  Allowed
  <2>1. game.lifecycle = "concluding" /\ game.process.initiator \in Seat
    BY <1>5 DEF WithdrawDeclaration, CanWithdrawDeclaration, RespondRefuse, CanRespond, Phased
  <2>2. game'.process = NoProcess /\ game'.lifecycle = "in_play"
    BY <1>1, <1>5 DEF WithdrawDeclaration, RespondRefuse, BackToPlay, GameState
  <2>3. Ending!Refuse
    BY <1>1, <2>1, <2>2 DEF Ending!Refuse, NoProcess
  <2> QED BY <2>3 DEF Ending!Next
<1>6. ASSUME NEW s \in Seat, NEW kind \in Kinds, RespondAccept(s, kind) PROVE Allowed
  <2> DEFINE all == game.process.accepted \cup {s, game.process.initiator}
  <2>1. /\ game.lifecycle = "concluding" /\ game.process.initiator \in Seat
        /\ game.process.accepted \subseteq Others(game.process.initiator)
        /\ s # game.process.initiator /\ s \notin game.process.accepted
    BY <1>6 DEF RespondAccept, CanRespond, Phased
  <2>2. all = Seat <=> Others(game.process.initiator) \subseteq game.process.accepted \cup {s}
    BY <2>1 DEF Others
  <2>3. CASE all = Seat
    <3>1. game' = ConcludeGame(game)
      BY <1>6, <2>2, <2>3 DEF RespondAccept, Accept
    <3>2. game'.lifecycle = "concluded" /\ game'.process = NoProcess
      BY <3>1 DEF ConcludeGame, IdleGame
    <3> QED BY <1>1, <2>1, <2>3, <3>2 DEF Ending!Agree, Ending!Next, NoProcess
  <2>4. CASE all # Seat
    <3>1. game' = [game EXCEPT !.process.accepted = game.process.accepted \cup {s}]
      BY <1>6, <2>2, <2>4 DEF RespondAccept, Accept
    <3>2. /\ game'.lifecycle = "concluding"
          /\ game'.process.initiator = game.process.initiator
          /\ game'.process.accepted = game.process.accepted \cup {s}
      BY <1>1, <2>1, <3>1 DEF GameState
    <3> QED BY <1>1, <2>1, <2>4, <3>2 DEF Ending!Agree, Ending!Next
  <2> QED BY <2>3, <2>4
<1>7. ASSUME NEW s \in Seat, Quiet(s) PROVE Allowed
  BY <1>1, <1>7, QuietStep
<1>8. East \in Seat
  BY SeatAssumption DEF East, Seat
<1> QED BY <1>2, <1>3, <1>4, <1>5, <1>6, <1>7, <1>8 DEF Next, Command, Quiet

\* A game ends only by the agreement of every seat but the one that asked.
THEOREM ConsentImplemented == Spec => EndsByConsent
BY ConsentInit, ConsentStep, AlwaysPhased, PTL DEF Spec, EndsByConsent, Ending!Spec

-----------------------------------------------------------------------------
(* The game implements Custody: whatever its turn, overlays and orders, every *)
(* command moves tiles along one edge of custody, or moves none.              *)

\* Place for any game state, and the custody it makes up.
PlaceOf(g, t) ==
    CASE t \in TilesIn(g.wall) -> <<"wall", NoSeat>>
      [] t \in TilesIn(g.discards) -> <<"discards", NoSeat>>
      [] OnTable(g, t) -> <<"table", NoSeat>>
      [] InHand(g, t) -> <<"hand", CHOOSE s \in Seat : t \in g.hands[s]>>
      [] InFlight(g, t) -> <<"flight", CHOOSE s \in Seat : t \in g.inFlight[s]>>
      [] OTHER -> <<IF Live(g) THEN "lost" ELSE "box", NoSeat>>

Holder(g) == [t \in Tile |-> PlaceOf(g, t)]

\* The places of Custody are apart.
PlacesApart ==
    /\ Dealer!Box \notin {Dealer!Wall, Dealer!Discards, Dealer!Table, Dealer!Lost}
    /\ Dealer!Wall \notin {Dealer!Discards, Dealer!Table, Dealer!Lost}
    /\ Dealer!Discards \notin {Dealer!Table, Dealer!Lost}
    /\ Dealer!Table # Dealer!Lost
    /\ \A s \in Seat :
          {Dealer!Hand(s), Dealer!Flight(s)}
            \cap {Dealer!Box, Dealer!Wall, Dealer!Discards, Dealer!Table, Dealer!Lost} = {}
    /\ \A s, r \in Seat : /\ Dealer!Hand(s) # Dealer!Flight(r)
                          /\ s # r => /\ Dealer!Hand(s) # Dealer!Hand(r)
                                      /\ Dealer!Flight(s) # Dealer!Flight(r)

\* They differ in name or in seat.
LEMMA Apart == PlacesApart
BY DEF PlacesApart, Dealer!Box, Dealer!Wall, Dealer!Discards, Dealer!Table, Dealer!Lost,
       Dealer!Hand, Dealer!Flight

Somewhere(g, t) ==
    \/ t \in TilesIn(g.wall) \/ t \in TilesIn(g.discards)
    \/ InHand(g, t) \/ InFlight(g, t) \/ OnTable(g, t)

\* A tile's place is the location that holds it.
Located(g) ==
    /\ DOMAIN Holder(g) = Tile
    /\ \A t \in Tile :
          /\ Holder(g)[t] = Dealer!Wall <=> t \in TilesIn(g.wall)
          /\ Holder(g)[t] = Dealer!Discards <=> t \in TilesIn(g.discards)
          /\ Holder(g)[t] = Dealer!Table <=> OnTable(g, t)
          /\ \A s \in Seat : /\ Holder(g)[t] = Dealer!Hand(s) <=> t \in g.hands[s]
                             /\ Holder(g)[t] = Dealer!Flight(s) <=> t \in g.inFlight[s]
          /\ Holder(g)[t] = Dealer!Lost <=> Live(g) /\ ~Somewhere(g, t)
          /\ Holder(g)[t] = Dealer!Box <=> ~Live(g) /\ ~Somewhere(g, t)

\* In a sound state no tile has two locations, so its place tells its location.
LEMMA SoundLocated ==
    ASSUME NEW g, Sound(g)
    PROVE  Located(g)
<1>1. Exclusive(g)
  BY DEF Sound
<1> SUFFICES ASSUME NEW t \in Tile
             PROVE  /\ PlaceOf(g, t) = Dealer!Wall <=> t \in TilesIn(g.wall)
                    /\ PlaceOf(g, t) = Dealer!Discards <=> t \in TilesIn(g.discards)
                    /\ PlaceOf(g, t) = Dealer!Table <=> OnTable(g, t)
                    /\ \A s \in Seat : /\ PlaceOf(g, t) = Dealer!Hand(s) <=> t \in g.hands[s]
                                       /\ PlaceOf(g, t) = Dealer!Flight(s) <=> t \in g.inFlight[s]
                    /\ PlaceOf(g, t) = Dealer!Lost <=> Live(g) /\ ~Somewhere(g, t)
                    /\ PlaceOf(g, t) = Dealer!Box <=> ~Live(g) /\ ~Somewhere(g, t)
  BY DEF Located, Holder
<1> USE Apart DEF PlacesApart
<1>2. CASE t \in TilesIn(g.wall)
  <2>1. t \notin TilesIn(g.discards) /\ ~InHand(g, t) /\ ~InFlight(g, t) /\ ~OnTable(g, t)
    BY <1>1, <1>2 DEF Exclusive
  <2>2. PlaceOf(g, t) = Dealer!Wall
    BY <1>2, <2>1 DEF PlaceOf, Dealer!Wall
  <2> QED BY <1>2, <2>1, <2>2 DEF Somewhere, InHand, InFlight
<1>3. CASE t \in TilesIn(g.discards)
  <2>1. t \notin TilesIn(g.wall) /\ ~InHand(g, t) /\ ~InFlight(g, t) /\ ~OnTable(g, t)
    BY <1>1, <1>3 DEF Exclusive
  <2>2. PlaceOf(g, t) = Dealer!Discards
    BY <1>3, <2>1 DEF PlaceOf, Dealer!Discards
  <2> QED BY <1>3, <2>1, <2>2 DEF Somewhere, InHand, InFlight
<1>4. CASE OnTable(g, t)
  <2>1. t \notin TilesIn(g.wall) /\ t \notin TilesIn(g.discards) /\ ~InHand(g, t) /\ ~InFlight(g, t)
    BY <1>1, <1>4 DEF Exclusive
  <2>2. PlaceOf(g, t) = Dealer!Table
    BY <1>4, <2>1 DEF PlaceOf, Dealer!Table
  <2> QED BY <1>4, <2>1, <2>2 DEF Somewhere, InHand, InFlight
<1>5. ASSUME NEW s \in Seat, t \in g.hands[s]
      PROVE  /\ PlaceOf(g, t) = Dealer!Hand(s) /\ InHand(g, t)
             /\ \A r \in Seat : t \in g.hands[r] <=> r = s
  <2>1. InHand(g, t) /\ \A r \in Seat : t \in g.hands[r] <=> r = s
    BY <1>1, <1>5 DEF Exclusive, InHand
  <2>2. t \notin TilesIn(g.wall) /\ t \notin TilesIn(g.discards) /\ ~OnTable(g, t) /\ ~InFlight(g, t)
    BY <1>1, <2>1 DEF Exclusive
  <2>3. (CHOOSE r \in Seat : t \in g.hands[r]) = s
    BY <2>1
  <2> QED BY <2>1, <2>2, <2>3 DEF PlaceOf, Dealer!Hand
<1>6. CASE InHand(g, t)
  <2>1. PICK s \in Seat : t \in g.hands[s]
    BY <1>6 DEF InHand
  <2>2. t \notin TilesIn(g.wall) /\ t \notin TilesIn(g.discards) /\ ~OnTable(g, t) /\ ~InFlight(g, t)
    BY <1>1, <1>6 DEF Exclusive
  <2>3. PlaceOf(g, t) = Dealer!Hand(s) /\ \A r \in Seat : t \in g.hands[r] <=> r = s
    BY <1>5, <2>1
  <2> QED BY <1>6, <2>2, <2>3 DEF Somewhere, InFlight
<1>7. ASSUME NEW s \in Seat, t \in g.inFlight[s]
      PROVE  /\ PlaceOf(g, t) = Dealer!Flight(s) /\ InFlight(g, t)
             /\ \A r \in Seat : t \in g.inFlight[r] <=> r = s
  <2>1. InFlight(g, t) /\ \A r \in Seat : t \in g.inFlight[r] <=> r = s
    BY <1>1, <1>7 DEF Exclusive, InFlight
  <2>2. t \notin TilesIn(g.wall) /\ t \notin TilesIn(g.discards) /\ ~OnTable(g, t) /\ ~InHand(g, t)
    BY <1>1, <2>1 DEF Exclusive
  <2>3. (CHOOSE r \in Seat : t \in g.inFlight[r]) = s
    BY <2>1
  <2> QED BY <2>1, <2>2, <2>3 DEF PlaceOf, Dealer!Flight
<1>8. CASE InFlight(g, t)
  <2>1. PICK s \in Seat : t \in g.inFlight[s]
    BY <1>8 DEF InFlight
  <2>2. t \notin TilesIn(g.wall) /\ t \notin TilesIn(g.discards) /\ ~OnTable(g, t) /\ ~InHand(g, t)
    BY <1>1, <1>8 DEF Exclusive
  <2>3. PlaceOf(g, t) = Dealer!Flight(s) /\ \A r \in Seat : t \in g.inFlight[r] <=> r = s
    BY <1>7, <2>1
  <2> QED BY <1>8, <2>2, <2>3 DEF Somewhere, InHand
<1>9. CASE ~Somewhere(g, t)
  <2>1. PlaceOf(g, t) = IF Live(g) THEN Dealer!Lost ELSE Dealer!Box
    BY <1>9 DEF Somewhere, PlaceOf, Dealer!Lost, Dealer!Box
  <2> QED BY <1>9, <2>1 DEF Somewhere, InHand, InFlight
<1> QED BY <1>2, <1>3, <1>4, <1>6, <1>8, <1>9 DEF Somewhere

\* u is where it was.
Stays(g, h, u) ==
    /\ u \in TilesIn(g.wall) <=> u \in TilesIn(h.wall)
    /\ u \in TilesIn(g.discards) <=> u \in TilesIn(h.discards)
    /\ OnTable(g, u) <=> OnTable(h, u)
    /\ \A s \in Seat : /\ u \in g.hands[s] <=> u \in h.hands[s]
                       /\ u \in g.inFlight[s] <=> u \in h.inFlight[s]

\* A tile that stays where it was keeps its place.
LEMMA StaysHeld ==
    ASSUME NEW g, Sound(g), NEW h, Sound(h), Live(g) <=> Live(h),
           NEW u \in Tile, Stays(g, h, u)
    PROVE  Holder(g)[u] = Holder(h)[u]
<1>1. Located(g) /\ Located(h)
  BY SoundLocated
<1>2. Somewhere(g, u) <=> Somewhere(h, u)
  BY DEF Stays, Somewhere, InHand, InFlight
<1>3. CASE ~Somewhere(g, u)
  BY <1>1, <1>2, <1>3 DEF Located
<1>4. CASE Somewhere(g, u)
  BY <1>1, <1>4 DEF Located, Somewhere, Stays, InHand, InFlight
<1> QED BY <1>3, <1>4

\* The step from g to h moves no tile or is one that Custody allows.
Custodial(g, h) == Holder(g) = Holder(h) \/ Dealer!Step(Holder(g), Holder(h))

\* When every tile stays, nothing moves.
LEMMA AllStay ==
    ASSUME NEW g, Sound(g), NEW h, Sound(h), Live(g) <=> Live(h),
           \A u \in Tile : Stays(g, h, u)
    PROVE  Custodial(g, h)
BY StaysHeld DEF Custodial, Holder

\* All of T goes from one place to another, and nothing else moves.
LEMMA AlongEdge ==
    ASSUME NEW g, Sound(g), NEW h, Sound(h), Live(g) <=> Live(h),
           NEW T \in SUBSET Tile, T # {}, NEW from, NEW to, from # to,
           \A u \in T : Holder(g)[u] = from /\ Holder(h)[u] = to,
           \A u \in Tile \ T : Stays(g, h, u)
    PROVE  /\ Dealer!Moved(Holder(g), Holder(h)) = T
           /\ Dealer!Edge(Holder(g), Holder(h), from, to)
<1>1. \A u \in Tile \ T : Holder(g)[u] = Holder(h)[u]
  BY StaysHeld
<1>2. Dealer!Moved(Holder(g), Holder(h)) = T
  BY <1>1 DEF Dealer!Moved
<1> QED BY <1>2 DEF Dealer!Edge, Dealer!Goes

-----------------------------------------------------------------------------
(* The movements. *)

\* draw_tile takes one tile from the wall, at either end.
LEMMA DrawCustody ==
    ASSUME NEW g, Sound(g), NEW s \in Seat, CanDraw(g, s),
           NEW h \in {DrawHead(g, s), DrawTail(g, s)}
    PROVE  Custodial(g, h)
<1>1. /\ g \in GameState /\ g.wall \in Seq(Tile) /\ g.wall # <<>> /\ Injective(g.wall)
  BY DEF Sound, CanDraw, GameState, Exclusive
<1>2. \E u \in Tile : /\ u \in TilesIn(g.wall) /\ TilesIn(h.wall) = TilesIn(g.wall) \ {u}
                      /\ h.hands = [g.hands EXCEPT ![s] = @ \cup {u}]
  <2>1. CASE h = DrawHead(g, s)
    <3>1. h.wall = Tail(g.wall) /\ h.hands = [g.hands EXCEPT ![s] = @ \cup {Head(g.wall)}]
      BY <1>1, <2>1 DEF DrawHead, GameState
    <3> QED BY <1>1, <3>1, TailTiles
  <2>2. CASE h = DrawTail(g, s)
    <3>1. /\ h.wall = SubSeq(g.wall, 1, Len(g.wall) - 1)
          /\ h.hands = [g.hands EXCEPT ![s] = @ \cup {g.wall[Len(g.wall)]}]
      BY <1>1, <2>2 DEF DrawTail, GameState
    <3> QED BY <1>1, <3>1, FrontTiles
  <2> QED BY <2>1, <2>2
<1>3. PICK u \in Tile : /\ u \in TilesIn(g.wall) /\ TilesIn(h.wall) = TilesIn(g.wall) \ {u}
                        /\ h.hands = [g.hands EXCEPT ![s] = @ \cup {u}]
  BY <1>2
<1>4. /\ h.discards = g.discards /\ h.exposures = g.exposures /\ h.inFlight = g.inFlight
      /\ h.lifecycle = g.lifecycle
  BY <1>1 DEF DrawHead, DrawTail, GameState
<1>5. \A v \in Tile \ {u} : Stays(g, h, v)
  BY <1>1, <1>3, <1>4 DEF Stays, OnTable, GameState
<1>6. Sound(h)
  BY DrawHeadSound, DrawTailSound
<1>7. u \in h.hands[s]
  BY <1>1, <1>3 DEF GameState
<1>8. Holder(g)[u] = Dealer!Wall /\ Holder(h)[u] = Dealer!Hand(s)
  BY <1>3, <1>6, <1>7, SoundLocated DEF Located
<1>9. /\ Dealer!Moved(Holder(g), Holder(h)) = {u}
      /\ Dealer!Edge(Holder(g), Holder(h), Dealer!Wall, Dealer!Hand(s))
  <2>1. Dealer!Wall # Dealer!Hand(s)
    BY Apart DEF PlacesApart
  <2>2. \A v \in {u} : Holder(g)[v] = Dealer!Wall /\ Holder(h)[v] = Dealer!Hand(s)
    BY <1>8
  <2>3. {u} \in SUBSET Tile /\ {u} # {}
    OBVIOUS
  <2> QED BY <1>4, <1>5, <1>6, <2>1, <2>2, <2>3, AlongEdge DEF Live
<1> QED BY <1>9 DEF Custodial, Dealer!Step, Dealer!Draw, Dealer!OneTile

\* discard_tile.
LEMMA DiscardCustody ==
    ASSUME NEW g, Sound(g), NEW s \in Seat, NEW t, CanDiscard(g, s, t)
    PROVE  Custodial(g, DiscardTile(g, s, t))
<1> DEFINE h == DiscardTile(g, s, t)
           pile == Append(g.discards, t)
<1>1. /\ g \in GameState /\ g.discards \in Seq(Tile) /\ Injective(g.discards)
      /\ t \in g.hands[s] /\ t \in Tile /\ t \notin TilesIn(g.discards)
  BY DEF Sound, CanDiscard, GameState, Exclusive, InHand
<1>2. TilesIn(pile) = TilesIn(g.discards) \cup {t}
  BY <1>1, AppendTiles
<1>3. /\ h.discards = pile /\ h.hands = [g.hands EXCEPT ![s] = @ \ {t}]
      /\ h.wall = g.wall /\ h.exposures = g.exposures
      /\ h.inFlight = g.inFlight /\ h.lifecycle = g.lifecycle
  BY <1>1 DEF DiscardTile, GameState
<1>4. Sound(h)
  BY DiscardSound
<1> HIDE DEF pile, h
<1>5. \A v \in Tile \ {t} : Stays(g, h, v)
  BY <1>1, <1>2, <1>3 DEF Stays, OnTable, GameState
<1>6. \A v \in {t} : Holder(g)[v] = Dealer!Hand(s) /\ Holder(h)[v] = Dealer!Discards
  BY <1>1, <1>2, <1>3, <1>4, SoundLocated DEF Located
<1>7. Dealer!Hand(s) # Dealer!Discards
  BY Apart DEF PlacesApart
<1>8. /\ Dealer!Moved(Holder(g), Holder(h)) = {t}
      /\ Dealer!Edge(Holder(g), Holder(h), Dealer!Hand(s), Dealer!Discards)
  <2>1. {t} \in SUBSET Tile /\ {t} # {}
    BY <1>1
  <2> QED BY <1>3, <1>4, <1>5, <1>6, <1>7, <2>1, AlongEdge DEF Live
<1> QED BY <1>1, <1>8 DEF Custodial, Dealer!Step, Dealer!Discard, Dealer!OneTile, h

\* claim_discard.
LEMMA ClaimCustody ==
    ASSUME NEW g, Sound(g), NEW s \in Seat, CanClaim(g)
    PROVE  Custodial(g, ClaimDiscard(g, s))
<1> DEFINE h == ClaimDiscard(g, s)
           top == g.discards[Len(g.discards)]
           rest == SubSeq(g.discards, 1, Len(g.discards) - 1)
<1>1. /\ g \in GameState /\ g.discards \in Seq(Tile) /\ g.discards # <<>> /\ Injective(g.discards)
  BY DEF Sound, CanClaim, GameState, Exclusive
<1>2. TilesIn(rest) = TilesIn(g.discards) \ {top} /\ top \in TilesIn(g.discards) /\ top \in Tile
  BY <1>1, FrontTiles
<1>3. /\ h.discards = rest /\ h.hands = [g.hands EXCEPT ![s] = @ \cup {top}]
      /\ h.wall = g.wall /\ h.exposures = g.exposures
      /\ h.inFlight = g.inFlight /\ h.lifecycle = g.lifecycle
  BY <1>1 DEF ClaimDiscard, GameState
<1>4. Sound(h)
  BY ClaimSound
<1> HIDE DEF rest, top, h
<1>5. \A v \in Tile \ {top} : Stays(g, h, v)
  BY <1>1, <1>2, <1>3 DEF Stays, OnTable, GameState
<1>6. top \in h.hands[s]
  BY <1>1, <1>3 DEF GameState
<1>7. \A v \in {top} : Holder(g)[v] = Dealer!Discards /\ Holder(h)[v] = Dealer!Hand(s)
  BY <1>2, <1>4, <1>6, SoundLocated DEF Located
<1>8. Dealer!Hand(s) # Dealer!Discards
  BY Apart DEF PlacesApart
<1>9. /\ Dealer!Moved(Holder(g), Holder(h)) = {top}
      /\ Dealer!Edge(Holder(g), Holder(h), Dealer!Discards, Dealer!Hand(s))
  <2>1. {top} \in SUBSET Tile /\ {top} # {}
    BY <1>2
  <2> QED BY <1>3, <1>4, <1>5, <1>7, <1>8, <2>1, AlongEdge DEF Live
<1> QED BY <1>2, <1>9 DEF Custodial, Dealer!Step, Dealer!Claim, Dealer!OneTile, h

\* expose_tiles lays tiles of one hand on the table.
LEMMA ExposeCustody ==
    ASSUME NEW g, Sound(g), NEW s \in Seat, NEW T, CanExpose(g, s, T)
    PROVE  Custodial(g, ExposeTiles(g, s, T))
<1> DEFINE h == ExposeTiles(g, s, T)
           laid == [id |-> g.nextExposureId, owner |-> s, tiles |-> T]
<1>1. /\ g \in GameState /\ laid.tiles = T
      /\ T \in SUBSET Tile /\ T # {} /\ T \subseteq g.hands[s]
  BY DEF Sound, CanExpose, Handles
<1>2. /\ h.exposures = g.exposures \cup {laid} /\ h.hands = [g.hands EXCEPT ![s] = @ \ T]
      /\ h.wall = g.wall /\ h.discards = g.discards
      /\ h.inFlight = g.inFlight /\ h.lifecycle = g.lifecycle
  BY <1>1 DEF ExposeTiles, GameState
<1>3. Sound(h)
  BY ExposeSound
<1> HIDE DEF laid, h
<1>4. \A v \in Tile \ T : Stays(g, h, v)
  BY <1>1, <1>2 DEF Stays, OnTable, GameState
<1>5. \A v \in T : OnTable(h, v)
  BY <1>1, <1>2 DEF OnTable
<1>6. \A v \in T : Holder(g)[v] = Dealer!Hand(s) /\ Holder(h)[v] = Dealer!Table
  BY <1>1, <1>3, <1>5, SoundLocated DEF Located
<1>7. Dealer!Hand(s) # Dealer!Table
  BY Apart DEF PlacesApart
<1>8. Dealer!Edge(Holder(g), Holder(h), Dealer!Hand(s), Dealer!Table)
  BY <1>1, <1>2, <1>3, <1>4, <1>6, <1>7, AlongEdge DEF Live
<1> QED BY <1>8 DEF Custodial, Dealer!Step, Dealer!Lay, h

\* retract_exposure takes back all tiles of an exposure, which may have none.
LEMMA RetractCustody ==
    ASSUME NEW g, Sound(g), NEW s \in Seat, NEW e, CanRetract(g, s, e)
    PROVE  Custodial(g, RetractExposure(g, s, e))
<1> DEFINE h == RetractExposure(g, s, e)
<1>1. g \in GameState /\ e \in g.exposures /\ e.tiles \in SUBSET Tile
  BY DEF Sound, CanRetract, GameState, Exposure
<1>2. /\ h.exposures = g.exposures \ {e} /\ h.hands = [g.hands EXCEPT ![s] = @ \cup e.tiles]
      /\ h.wall = g.wall /\ h.discards = g.discards
      /\ h.inFlight = g.inFlight /\ h.lifecycle = g.lifecycle
  BY <1>1 DEF RetractExposure, GameState
<1>3. Sound(h)
  BY RetractSound
<1> HIDE DEF h
<1>4. \A v \in Tile \ e.tiles : Stays(g, h, v)
  BY <1>1, <1>2 DEF Stays, OnTable, GameState
<1>5. CASE e.tiles = {}
  BY <1>2, <1>3, <1>4, <1>5, AllStay DEF Live, h
<1>6. CASE e.tiles # {}
  <2>1. \A v \in e.tiles : OnTable(g, v) /\ v \in h.hands[s]
    BY <1>1, <1>2 DEF OnTable, GameState
  <2>2. \A v \in e.tiles : Holder(g)[v] = Dealer!Table /\ Holder(h)[v] = Dealer!Hand(s)
    BY <1>1, <1>3, <2>1, SoundLocated DEF Located
  <2>3. Dealer!Table # Dealer!Hand(s)
    BY Apart DEF PlacesApart
  <2>4. Dealer!Edge(Holder(g), Holder(h), Dealer!Table, Dealer!Hand(s))
    BY <1>1, <1>2, <1>3, <1>4, <1>6, <2>2, <2>3, AlongEdge DEF Live
  <2> QED BY <2>4 DEF Custodial, Dealer!Step, Dealer!TakeBack, h
<1> QED BY <1>5, <1>6

\* swap_exposed_tile: one tile each way.
LEMMA SwapCustody ==
    ASSUME NEW g, Sound(g), NEW s \in Seat, NEW t, NEW e, NEW x, CanSwap(g, s, t, e, x)
    PROVE  Custodial(g, SwapExposedTile(g, s, t, e, x))
<1> DEFINE h == SwapExposedTile(g, s, t, e, x)
           new == [id |-> e.id, owner |-> e.owner, tiles |-> (e.tiles \ {x}) \cup {t}]
<1>1. /\ g \in GameState /\ new.tiles = (e.tiles \ {x}) \cup {t}
      /\ t \in Tile /\ t \in g.hands[s] /\ e \in g.exposures /\ x \in e.tiles /\ x \in Tile
  BY DEF Sound, CanSwap, GameState, Exposure
<1>2. /\ h.exposures = (g.exposures \ {e}) \cup {new}
      /\ h.hands = [g.hands EXCEPT ![s] = (@ \ {t}) \cup {x}]
      /\ h.wall = g.wall /\ h.discards = g.discards
      /\ h.inFlight = g.inFlight /\ h.lifecycle = g.lifecycle
  BY <1>1 DEF SwapExposedTile, GameState
<1>3. Sound(h)
  BY SwapSound
<1> HIDE DEF new, h
<1>4. \A v \in Tile \ {t, x} : Stays(g, h, v)
  <2>1. \A v \in Tile \ {t, x} : OnTable(g, v) <=> OnTable(h, v)
    BY <1>1, <1>2 DEF OnTable
  <2>2. \A v \in Tile \ {t, x} : \A r \in Seat : v \in g.hands[r] <=> v \in h.hands[r]
    BY <1>1, <1>2 DEF GameState
  <2> QED BY <1>2, <2>1, <2>2 DEF Stays
<1>5. OnTable(g, x) /\ x \in h.hands[s] /\ OnTable(h, t)
  BY <1>1, <1>2 DEF OnTable, GameState
<1>6. /\ Holder(g)[t] = Dealer!Hand(s) /\ Holder(h)[t] = Dealer!Table
      /\ Holder(g)[x] = Dealer!Table /\ Holder(h)[x] = Dealer!Hand(s)
  BY <1>1, <1>3, <1>5, SoundLocated DEF Located
<1>7. Dealer!Table # Dealer!Hand(s)
  BY Apart DEF PlacesApart
<1>8. \A v \in Tile \ {t, x} : Holder(g)[v] = Holder(h)[v]
  BY <1>2, <1>3, <1>4, StaysHeld DEF Live
<1>9. Dealer!Moved(Holder(g), Holder(h)) = {t, x}
  BY <1>1, <1>6, <1>7, <1>8 DEF Dealer!Moved
<1>10. Dealer!Exchange(Holder(g), Holder(h), s)
  BY <1>6, <1>9 DEF Dealer!Exchange, Dealer!Goes
<1> QED BY <1>10 DEF Custodial, Dealer!Step, h

-----------------------------------------------------------------------------
(* The pass round. *)

\* A commitment sends tiles of the hand; the seat's stranded tiles are lost.
LEMMA SendCustody ==
    ASSUME NEW g, Sound(g), NEW s \in Seat, NEW T, CanCommit(g, s, T)
    PROVE  Dealer!Send(Holder(g), Holder(Committed(g, s, T)), s)
<1> DEFINE h == Committed(g, s, T)
<1>1. /\ g \in GameState /\ T \in SUBSET Tile /\ T # {} /\ T \subseteq g.hands[s]
      /\ g.lifecycle = "in_play"
  BY DEF Sound, CanCommit, Handles, InPlay
<1>2. /\ h.hands = [g.hands EXCEPT ![s] = @ \ T] /\ h.inFlight = [g.inFlight EXCEPT ![s] = T]
      /\ h.wall = g.wall /\ h.discards = g.discards /\ h.exposures = g.exposures
      /\ h.lifecycle = g.lifecycle
  BY <1>1 DEF Committed, GameState
<1>3. Sound(h)
  BY CommittedSound
<1> HIDE DEF h
<1>4. Located(g) /\ Located(h)
  BY <1>3, SoundLocated
<1>5. \A t \in T : Holder(g)[t] = Dealer!Hand(s) /\ Holder(h)[t] = Dealer!Flight(s)
  BY <1>1, <1>2, <1>4 DEF Located, GameState
<1>6. \A t \in g.hands[s] \ T : Holder(g)[t] = Dealer!Hand(s) /\ Holder(h)[t] = Dealer!Hand(s)
  BY <1>1, <1>2, <1>4 DEF Located, GameState
<1>7. ASSUME NEW t \in g.inFlight[s]
      PROVE  Holder(g)[t] = Dealer!Flight(s) /\ Holder(h)[t] = Dealer!Lost
  <2>1. t \in Tile /\ InFlight(g, t)
    BY <1>1, <1>7 DEF InFlight, GameState
  <2>2. /\ t \notin TilesIn(g.wall) /\ t \notin TilesIn(g.discards) /\ ~InHand(g, t) /\ ~OnTable(g, t)
        /\ \A r \in Seat \ {s} : t \notin g.inFlight[r]
    BY <1>7, <2>1 DEF Sound, Exclusive
  <2>3. ~InHand(h, t) /\ ~OnTable(h, t)
    BY <1>1, <1>2, <2>2 DEF InHand, OnTable, GameState
  <2>4. ~InFlight(h, t)
    BY <1>1, <1>2, <2>2 DEF InHand, InFlight, GameState
  <2>5. ~Somewhere(h, t) /\ Live(h)
    BY <1>1, <1>2, <2>2, <2>3, <2>4 DEF Somewhere, Live
  <2> QED BY <1>4, <1>7, <2>1, <2>5 DEF Located
<1>8. ASSUME NEW t \in Tile, t \notin g.hands[s], t \notin g.inFlight[s]
      PROVE  /\ Holder(g)[t] \notin {Dealer!Hand(s), Dealer!Flight(s)}
             /\ Holder(h)[t] = Holder(g)[t]
  <2>1. Stays(g, h, t)
    BY <1>1, <1>2, <1>8 DEF Stays, OnTable, GameState
  <2> QED BY <1>2, <1>3, <1>4, <1>8, <2>1, StaysHeld DEF Live, Located
<1>9. \E t \in Dealer!Moved(Holder(g), Holder(h)) : Holder(g)[t] = Dealer!Hand(s)
  <2>1. PICK t \in T : TRUE
    BY <1>1
  <2>2. Dealer!Hand(s) # Dealer!Flight(s)
    BY Apart DEF PlacesApart
  <2> QED BY <1>1, <1>5, <2>1, <2>2 DEF Dealer!Moved
<1>10. ASSUME NEW t \in Tile
       PROVE  \/ Holder(g)[t] = Dealer!Hand(s) /\ Holder(h)[t] \in {Dealer!Hand(s), Dealer!Flight(s)}
              \/ Holder(g)[t] = Dealer!Flight(s) /\ Holder(h)[t] = Dealer!Lost
              \/ Holder(g)[t] \notin {Dealer!Hand(s), Dealer!Flight(s)} /\ Holder(h)[t] = Holder(g)[t]
  BY <1>5, <1>6, <1>7, <1>8
<1> QED BY <1>9, <1>10 DEF Dealer!Send, h

\* The execution that the last commitment triggers: the tiles of a sender land in
\* one hand, all senders at once.
LEMMA LandCustody ==
    ASSUME NEW g, Sound(g), NEW s \in Seat, NEW T, CanCommit(g, s, T),
           \A p \in Participants(Committed(g, s, T)) : Committed(g, s, T).committed[p] # {}
    PROVE  Dealer!Land(Holder(g), Holder(ExecutePassRound(Committed(g, s, T))), s)
<1> DEFINE c == Committed(g, s, T)
           h == ExecutePassRound(c)
           arriving(r) == UNION {c.committed[f] : f \in {p \in Seat : c.routing[p] = r}}
<1>1. /\ g \in GameState /\ T \in SUBSET Tile /\ T # {} /\ T \subseteq g.hands[s]
      /\ g.lifecycle = "in_play" /\ g.routing[s] \in Seat
  BY DEF Sound, CanCommit, Handles, InPlay, Participants, GameState
<1>2. /\ c.hands = [g.hands EXCEPT ![s] = @ \ T] /\ c.inFlight = [g.inFlight EXCEPT ![s] = T]
      /\ c.committed = [g.committed EXCEPT ![s] = T] /\ c.routing = g.routing
      /\ c.wall = g.wall /\ c.discards = g.discards /\ c.exposures = g.exposures
      /\ c.lifecycle = g.lifecycle
  BY <1>1 DEF Committed, GameState
<1>3. Sound(c) /\ Sound(h)
  BY CommittedSound, ExecuteSound
<1>4. \A p \in Participants(c) : c.committed[p] # {}
  OBVIOUS
<1> HIDE DEF c
<1>5. /\ h.hands = [r \in Seat |-> c.hands[r] \cup arriving(r)]
      /\ h.inFlight = [r \in Seat |-> IF r \in Participants(c) THEN {} ELSE c.inFlight[r]]
      /\ h.wall = c.wall /\ h.discards = c.discards /\ h.exposures = c.exposures
      /\ h.lifecycle = c.lifecycle
  <2>1. c \in GameState
    BY <1>3 DEF Sound
  <2> QED BY <2>1 DEF ExecutePassRound, GameState
<1>6. \A r \in Seat : \A u : u \in arriving(r) <=> \E p \in Seat : c.routing[p] = r /\ u \in c.committed[p]
  OBVIOUS
<1> HIDE DEF arriving, h
<1>7. Located(g) /\ Located(h)
  BY <1>3, SoundLocated
<1>8. \A p \in Seat : /\ p \in Participants(c) <=> g.routing[p] \in Seat
                      /\ p \in Participants(c) => c.inFlight[p] = c.committed[p]
                      /\ p \notin Participants(c) => c.committed[p] = {}
  <2>1. c.routing = g.routing /\ NoSeat \notin Seat /\ \A p \in Seat : g.routing[p] \in Seat \cup {NoSeat}
    <3>1. NoSeat \notin Seat
      BY DEF NoSeat, Seat
    <3> QED BY <1>1, <1>2, <3>1 DEF GameState
  <2>2. BooksBalance(c)
    BY <1>3 DEF Sound
  <2> QED BY <1>4, <2>1, <2>2 DEF Participants, BooksBalance
<1>9. ASSUME NEW p \in Participants(c), NEW t \in c.committed[p]
      PROVE  t \in h.hands[g.routing[p]]
  BY <1>2, <1>5, <1>6, <1>8 DEF Participants
<1>10. ASSUME NEW t \in Tile, Somewhere(h, t) PROVE Somewhere(c, t)
  <2>1. InHand(h, t) => InHand(c, t) \/ InFlight(c, t)
    <3>1. ASSUME NEW r \in Seat, t \in h.hands[r], t \notin c.hands[r] PROVE InFlight(c, t)
      <4>1. PICK p \in Seat : t \in c.committed[p]
        BY <1>5, <1>6, <3>1
      <4> QED BY <1>8, <4>1 DEF InFlight
    <3> QED BY <3>1 DEF InHand
  <2>2. InFlight(h, t) => InFlight(c, t)
    BY <1>5 DEF InFlight
  <2> QED BY <1>5, <1>10, <2>1, <2>2 DEF Somewhere, OnTable
<1>11. \E r \in Seat : \A t \in Tile : Holder(g)[t] = Dealer!Hand(s) =>
                                         Holder(h)[t] \in {Dealer!Hand(s), Dealer!Hand(r)}
  <2>1. ASSUME NEW t \in Tile, t \in g.hands[s]
        PROVE  t \in h.hands[s] \/ t \in h.hands[g.routing[s]]
    <3>1. t \in T => t \in h.hands[g.routing[s]]
      BY <1>1, <1>2, <1>8, <1>9 DEF GameState
    <3>2. t \notin T => t \in h.hands[s]
      BY <1>1, <1>2, <1>5, <2>1 DEF GameState
    <3> QED BY <3>1, <3>2
  <2> QED BY <1>1, <1>7, <2>1 DEF Located
<1>12. ASSUME NEW p \in Seat \ {s}
       PROVE  Dealer!Together(Holder(g), Holder(h), Dealer!Flight(p),
                              Dealer!Hands \cup {Dealer!Flight(p)})
  <2>1. c.inFlight[p] = g.inFlight[p]
    BY <1>1, <1>2 DEF GameState
  <2>2. CASE p \in Participants(c)
    <3>1. \A t \in Tile : Holder(g)[t] = Dealer!Flight(p) => Holder(h)[t] = Dealer!Hand(g.routing[p])
      BY <1>7, <1>8, <1>9, <2>1, <2>2 DEF Located
    <3> QED BY <1>8, <2>2, <3>1 DEF Dealer!Together, Dealer!Hands
  <2>3. CASE p \notin Participants(c)
    <3>1. \A t \in Tile : Holder(g)[t] = Dealer!Flight(p) => Holder(h)[t] = Dealer!Flight(p)
      BY <1>5, <1>7, <2>1, <2>3 DEF Located
    <3> QED BY <3>1 DEF Dealer!Together
  <2> QED BY <2>2, <2>3
<1>13. ASSUME NEW t \in Tile, Holder(g)[t] = Dealer!Flight(s) PROVE Holder(h)[t] = Dealer!Lost
  <2>1. Holder(c)[t] = Dealer!Lost
    <3>1. Dealer!Hand(s) # Dealer!Flight(s)
      BY Apart DEF PlacesApart
    <3> QED BY <1>13, <3>1, SendCustody DEF Dealer!Send, c
  <2>2. ~Somewhere(c, t)
    BY <1>3, <2>1, SoundLocated DEF Located
  <2>3. ~Somewhere(h, t) /\ Live(h)
    BY <1>1, <1>2, <1>5, <1>10, <2>2 DEF Live
  <2> QED BY <1>7, <2>3 DEF Located
<1>14. ASSUME NEW t \in Dealer!Moved(Holder(g), Holder(h)),
              Holder(g)[t] \notin {Dealer!Hand(s)} \cup {Dealer!Flight(p) : p \in Seat}
       PROVE  FALSE
  <2>1. /\ t \in Tile /\ Holder(g)[t] # Holder(h)[t]
        /\ t \notin g.hands[s] /\ \A p \in Seat : t \notin g.inFlight[p]
    BY <1>7, <1>14 DEF Located, Dealer!Moved
  <2>2. t \notin T /\ \A p \in Seat : t \notin c.inFlight[p] /\ t \notin c.committed[p]
    BY <1>1, <1>2, <1>8, <2>1 DEF GameState
  <2>3. \A r \in Seat : /\ t \in g.hands[r] <=> t \in h.hands[r]
                        /\ t \in g.inFlight[r] <=> t \in h.inFlight[r]
    BY <1>1, <1>2, <1>5, <1>6, <2>1, <2>2 DEF GameState
  <2>4. Stays(g, h, t)
    BY <1>2, <1>5, <2>3 DEF Stays, OnTable
  <2> QED BY <1>2, <1>3, <1>5, <2>1, <2>4, StaysHeld DEF Live
<1> QED BY <1>11, <1>12, <1>13, <1>14 DEF Dealer!Land, h, c

\* commit_pass.
LEMMA CommitCustody ==
    ASSUME NEW g, Sound(g), NEW s \in Seat, NEW T, CanCommit(g, s, T)
    PROVE  Custodial(g, CommitPass(g, s, T))
BY SendCustody, LandCustody DEF CommitPass, Custodial, Dealer!Step

\* Some seats get back all their tiles in flight, and nothing else moves.
LEMMA ReturnCustody ==
    ASSUME NEW g, Sound(g), NEW h, Sound(h), Live(g) <=> Live(h),
           \A s \in Seat : \/ h.hands[s] = g.hands[s] \cup g.inFlight[s] /\ h.inFlight[s] = {}
                           \/ h.hands[s] = g.hands[s] /\ h.inFlight[s] = g.inFlight[s],
           h.wall = g.wall, h.discards = g.discards, h.exposures = g.exposures
    PROVE  Custodial(g, h)
<1>1. Located(g) /\ Located(h)
  BY SoundLocated
<1>2. ASSUME NEW s \in Seat
      PROVE  Dealer!Together(Holder(g), Holder(h), Dealer!Flight(s),
                             {Dealer!Flight(s), Dealer!Hand(s)})
  <2>1. CASE h.hands[s] = g.hands[s] \cup g.inFlight[s] /\ h.inFlight[s] = {}
    <3>1. \A t \in Tile : Holder(g)[t] = Dealer!Flight(s) => Holder(h)[t] = Dealer!Hand(s)
      BY <1>1, <2>1 DEF Located
    <3> QED BY <3>1 DEF Dealer!Together
  <2>2. CASE h.hands[s] = g.hands[s] /\ h.inFlight[s] = g.inFlight[s]
    <3>1. \A t \in Tile : Holder(g)[t] = Dealer!Flight(s) => Holder(h)[t] = Dealer!Flight(s)
      BY <1>1, <2>2 DEF Located
    <3> QED BY <3>1 DEF Dealer!Together
  <2> QED BY <2>1, <2>2
<1>3. ASSUME NEW t \in Dealer!Moved(Holder(g), Holder(h)),
             \A s \in Seat : Holder(g)[t] # Dealer!Flight(s)
      PROVE  FALSE
  <2>1. t \in Tile /\ Holder(g)[t] # Holder(h)[t] /\ \A s \in Seat : t \notin g.inFlight[s]
    BY <1>1, <1>3 DEF Located, Dealer!Moved
  <2>2. Stays(g, h, t)
    BY <2>1 DEF Stays, OnTable
  <2> QED BY <2>1, <2>2, StaysHeld
<1>4. Dealer!Return(Holder(g), Holder(h))
  BY <1>2, <1>3 DEF Dealer!Return
<1> QED BY <1>4 DEF Custodial, Dealer!Step

\* withdraw_pass: what a seat committed is what it has in flight.
LEMMA TakenBackCustody ==
    ASSUME NEW g, Sound(g), NEW s \in Seat, CanWithdrawPass(g, s)
    PROVE  Custodial(g, WithdrawPass(g, s))
<1> DEFINE h == WithdrawPass(g, s)
<1>1. g \in GameState /\ g.inFlight[s] = g.committed[s]
  BY DEF Sound, CanWithdrawPass, BooksBalance
<1>2. /\ h.hands = [g.hands EXCEPT ![s] = @ \cup g.committed[s]]
      /\ h.inFlight = [g.inFlight EXCEPT ![s] = {}]
      /\ h.wall = g.wall /\ h.discards = g.discards /\ h.exposures = g.exposures
      /\ h.lifecycle = g.lifecycle
  BY <1>1 DEF WithdrawPass, GameState
<1>3. Sound(h)
  BY WithdrawSound
<1> HIDE DEF h
<1>4. \A r \in Seat : \/ h.hands[r] = g.hands[r] \cup g.inFlight[r] /\ h.inFlight[r] = {}
                      \/ h.hands[r] = g.hands[r] /\ h.inFlight[r] = g.inFlight[r]
  BY <1>1, <1>2 DEF GameState
<1>5. Live(g) <=> Live(h)
  BY <1>2 DEF Live
<1> QED BY <1>2, <1>3, <1>4, <1>5, ReturnCustody DEF h

\* cancel_pass_round: so it is for every seat on the record.
LEMMA CancelCustody ==
    ASSUME NEW g, Sound(g)
    PROVE  Custodial(g, CancelPassRound(g))
<1> DEFINE h == CancelPassRound(g)
<1>1. g \in GameState /\ \A s \in Seat : g.committed[s] # {} => g.inFlight[s] = g.committed[s]
  BY DEF Sound, BooksBalance
<1>2. /\ h.hands = [s \in Seat |-> g.hands[s] \cup g.committed[s]]
      /\ h.inFlight = [s \in Seat |-> IF g.committed[s] # {} THEN {} ELSE g.inFlight[s]]
      /\ h.wall = g.wall /\ h.discards = g.discards /\ h.exposures = g.exposures
      /\ h.lifecycle = g.lifecycle
  BY <1>1 DEF CancelPassRound, GameState
<1>3. Sound(h)
  BY CancelSound
<1> HIDE DEF h
<1>4. \A s \in Seat : \/ h.hands[s] = g.hands[s] \cup g.inFlight[s] /\ h.inFlight[s] = {}
                      \/ h.hands[s] = g.hands[s] /\ h.inFlight[s] = g.inFlight[s]
  BY <1>1, <1>2
<1>5. Live(g) <=> Live(h)
  BY <1>2 DEF Live
<1> QED BY <1>2, <1>3, <1>4, <1>5, ReturnCustody DEF h

-----------------------------------------------------------------------------
(* The beginning and the end. *)

\* start_deal gathers what a concluded game left in view, and all else from the
\* box, and deals every tile.
LEMMA DealCustody ==
    ASSUME NEW g, Sound(g), Phased(g), g.lifecycle \in {"idle", "concluded"},
           NEW order \in Orders(Tile)
    PROVE  Custodial(g, Deal(order))
<1> DEFINE h == Deal(order)
<1>1. g.wall = <<>> /\ g.inFlight = NoTiles /\ ~Live(g)
  <2>1. CASE g.lifecycle = "idle"
    BY <2>1 DEF Phased, IdleGame, Live
  <2>2. CASE g.lifecycle = "concluded"
    BY <2>2 DEF Phased, ConcludeGame, IdleGame, Live
  <2> QED BY <2>1, <2>2
<1>2. h.discards = <<>> /\ h.exposures = {} /\ h.inFlight = NoTiles
  BY DEF Deal, IdleGame
<1>3. Sound(h) /\ Accounted(h)
  BY DealSound, DealComplete DEF Complete
<1> HIDE DEF h
<1>4. Located(g) /\ Located(h)
  BY <1>3, SoundLocated
<1>5. ASSUME NEW t \in Tile
      PROVE  Holder(g)[t] \in {Dealer!Box, Dealer!Discards, Dealer!Table} \cup Dealer!Hands
  <2>1. t \notin TilesIn(g.wall) /\ ~InFlight(g, t)
    BY <1>1 DEF TilesIn, InFlight, NoTiles
  <2>2. \/ ~Somewhere(g, t)
        \/ t \in TilesIn(g.discards) \/ OnTable(g, t) \/ \E s \in Seat : t \in g.hands[s]
    BY <2>1 DEF Somewhere, InHand
  <2>3. ASSUME NEW s \in Seat, t \in g.hands[s] PROVE Holder(g)[t] = Dealer!Hand(s)
    BY <1>4, <2>3 DEF Located
  <2>4. ~Somewhere(g, t) => Holder(g)[t] = Dealer!Box
    BY <1>1, <1>4 DEF Located
  <2>5. /\ t \in TilesIn(g.discards) => Holder(g)[t] = Dealer!Discards
        /\ OnTable(g, t) => Holder(g)[t] = Dealer!Table
    BY <1>4 DEF Located
  <2> QED BY <2>2, <2>3, <2>4, <2>5 DEF Dealer!Hands
<1>6. ASSUME NEW t \in Tile
      PROVE  Holder(h)[t] \in {Dealer!Wall} \cup Dealer!Hands
  <2>1. t \in TilesIn(h.wall) \/ InHand(h, t)
    BY <1>2, <1>3 DEF Accounted, TilesIn, InFlight, OnTable, NoTiles
  <2> QED BY <1>4, <2>1 DEF Located, InHand, Dealer!Hands
<1>7. Dealer!Deal(Holder(g), Holder(h))
  BY <1>5, <1>6 DEF Dealer!Deal
<1> QED BY <1>7 DEF Custodial, Dealer!Step, h

\* The last acceptance: all that is concealed goes back to the box.
LEMMA ConcludeCustody ==
    ASSUME NEW g, Sound(g), Live(g)
    PROVE  Custodial(g, ConcludeGame(g))
<1> DEFINE h == ConcludeGame(g)
<1>1. /\ h.wall = <<>> /\ h.discards = g.discards /\ h.exposures = g.exposures
      /\ h.inFlight = NoTiles /\ h.lifecycle = "concluded"
      /\ h.hands = [s \in Seat |-> IF s \in g.revealed THEN g.hands[s] ELSE {}]
  BY DEF ConcludeGame, IdleGame
<1>2. Sound(h)
  BY ConcludeSound
<1> HIDE DEF h
<1>3. Located(g) /\ Located(h) /\ ~Live(h)
  BY <1>1, <1>2, SoundLocated DEF Live
<1>4. \A t \in Tile : /\ t \notin TilesIn(h.wall) /\ ~InFlight(h, t)
                      /\ OnTable(h, t) <=> OnTable(g, t)
                      /\ t \in TilesIn(h.discards) <=> t \in TilesIn(g.discards)
  BY <1>1 DEF TilesIn, InFlight, OnTable, NoTiles
<1>5. ASSUME NEW s \in Seat
      PROVE  Dealer!Together(Holder(g), Holder(h), Dealer!Hand(s), {Dealer!Hand(s), Dealer!Box})
  <2>1. CASE s \in g.revealed
    <3>1. \A t \in Tile : Holder(g)[t] = Dealer!Hand(s) => Holder(h)[t] = Dealer!Hand(s)
      BY <1>1, <1>3, <2>1 DEF Located
    <3> QED BY <3>1 DEF Dealer!Together
  <2>2. CASE s \notin g.revealed
    <3>1. ASSUME NEW t \in Tile, Holder(g)[t] = Dealer!Hand(s) PROVE Holder(h)[t] = Dealer!Box
      <4>1. t \in g.hands[s] /\ InHand(g, t)
        BY <1>3, <3>1 DEF Located, InHand
      <4>2. /\ t \notin TilesIn(g.discards) /\ ~OnTable(g, t)
            /\ \A r \in Seat \ {s} : t \notin g.hands[r]
        BY <4>1 DEF Sound, Exclusive
      <4>3. ~InHand(h, t)
        BY <1>1, <2>2, <4>2 DEF InHand
      <4>4. ~Somewhere(h, t)
        BY <1>4, <4>2, <4>3 DEF Somewhere
      <4> QED BY <1>3, <4>4 DEF Located
    <3> QED BY <3>1 DEF Dealer!Together
  <2> QED BY <2>1, <2>2
<1>6. ASSUME NEW t \in Tile, Holder(g)[t] \in {Dealer!Discards, Dealer!Table}
      PROVE  Holder(h)[t] = Holder(g)[t]
  BY <1>3, <1>4, <1>6 DEF Located
<1>7. ASSUME NEW t \in Tile, Holder(g)[t] \notin {Dealer!Discards, Dealer!Table} \cup Dealer!Hands
      PROVE  Holder(h)[t] = Dealer!Box
  <2>1. t \notin TilesIn(g.discards) /\ ~OnTable(g, t) /\ \A s \in Seat : t \notin g.hands[s]
    BY <1>3, <1>7 DEF Located, Dealer!Hands
  <2>2. ~InHand(h, t)
    BY <1>1, <2>1 DEF InHand
  <2>3. ~Somewhere(h, t)
    BY <1>4, <2>1, <2>2 DEF Somewhere
  <2> QED BY <1>3, <2>3 DEF Located
<1>8. Dealer!Conclude(Holder(g), Holder(h))
  BY <1>5, <1>6, <1>7 DEF Dealer!Conclude
<1> QED BY <1>8 DEF Custodial, Dealer!Step, h

-----------------------------------------------------------------------------
(* The refinement. *)

\* A command that leaves the tiles where they are.
LEMMA NothingMoves ==
    ASSUME NEW g, Sound(g), NEW h, Sound(h), Live(g) <=> Live(h),
           h.wall = g.wall, h.discards = g.discards, h.hands = g.hands,
           h.inFlight = g.inFlight, h.exposures = g.exposures
    PROVE  Custodial(g, h)
<1>1. \A u \in Tile : Stays(g, h, u)
  BY DEF Stays, OnTable
<1> QED BY <1>1, AllStay

\* Every step of the game is one of custody or moves nothing.
LEMMA CustodyStep ==
    ASSUME Inv, Phased(game), [Next]_vars
    PROVE  Custodial(game, game')
<1> USE DEF Play
<1>1. Sound(game) /\ Sound(game') /\ game \in GameState
  BY NextInv DEF Inv, Sound
<1>2. CASE UNCHANGED vars
  BY <1>2 DEF vars, Custodial
<1>3. CASE StartDeal
  BY <1>1, <1>3, DealCustody DEF StartDeal
<1>4. ASSUME NEW s \in Seat, Draw(s) \/ Discard(s) \/ Claim(s) PROVE Custodial(game, game')
  <2>1. CASE Draw(s)
    BY <1>1, <2>1, DrawCustody DEF Draw
  <2>2. CASE Discard(s)
    BY <1>1, <2>2, DiscardCustody DEF Discard
  <2>3. CASE Claim(s)
    BY <1>1, <2>3, ClaimCustody DEF Claim
  <2> QED BY <1>4, <2>1, <2>2, <2>3
<1>5. ASSUME NEW s \in Seat, Expose(s) \/ Retract(s) \/ Swap(s) PROVE Custodial(game, game')
  <2>1. CASE Expose(s)
    BY <1>1, <2>1, ExposeCustody DEF Expose
  <2>2. CASE Retract(s)
    BY <1>1, <2>2, RetractCustody DEF Retract
  <2>3. CASE Swap(s)
    BY <1>1, <2>3, SwapCustody DEF Swap
  <2> QED BY <1>5, <2>1, <2>2, <2>3
<1>6. ASSUME NEW s \in Seat, Commit(s) \/ Withdraw(s) \/ Cancel(s) PROVE Custodial(game, game')
  <2>1. CASE Commit(s)
    BY <1>1, <2>1, CommitCustody DEF Commit
  <2>2. CASE Withdraw(s)
    BY <1>1, <2>2, TakenBackCustody DEF Withdraw
  <2>3. CASE Cancel(s)
    BY <1>1, <2>3, CancelCustody DEF Cancel
  <2> QED BY <1>6, <2>1, <2>2, <2>3
<1>7. CASE OpenRound
  <2>1. /\ game'.wall = game.wall /\ game'.discards = game.discards /\ game'.hands = game.hands
        /\ game'.inFlight = game.inFlight /\ game'.exposures = game.exposures
        /\ game'.lifecycle = game.lifecycle
    BY <1>1, <1>7 DEF OpenRound, OpenPassRound, GameState
  <2> QED BY <1>1, <2>1, NothingMoves DEF Live
<1>8. ASSUME NEW s \in Seat, Reveal(s) \/ Pause(s) \/ Resume(s) PROVE Custodial(game, game')
  <2>1. /\ game'.wall = game.wall /\ game'.discards = game.discards /\ game'.hands = game.hands
        /\ game'.inFlight = game.inFlight /\ game'.exposures = game.exposures
        /\ game'.lifecycle = game.lifecycle
    BY <1>1, <1>8 DEF Reveal, RevealHand, Pause, RequestPause, Resume, RequestResume, GameState
  <2> QED BY <1>1, <2>1, NothingMoves DEF Live
<1>9. ASSUME NEW s \in Seat, WithdrawDeclaration(s) \/ \E kind \in Kinds : RespondRefuse(s, kind)
      PROVE  Custodial(game, game')
  <2>1. /\ game'.wall = game.wall /\ game'.discards = game.discards /\ game'.hands = game.hands
        /\ game'.inFlight = game.inFlight /\ game'.exposures = game.exposures
        /\ game.lifecycle = "concluding" /\ game'.lifecycle = "in_play"
    BY <1>1, <1>9 DEF WithdrawDeclaration, CanWithdrawDeclaration, RespondRefuse, CanRespond,
                      BackToPlay, GameState
  <2> QED BY <1>1, <2>1, NothingMoves DEF Live
<1>10. ASSUME NEW s \in Seat, NEW kind \in Kinds, BeginConclusion(s, kind)
       PROVE  Custodial(game, game')
  <2>1. /\ game'.wall = game.wall /\ game'.discards = game.discards /\ game'.hands = game.hands
        /\ game'.inFlight = game.inFlight /\ game'.exposures = game.exposures
        /\ game.lifecycle = "in_play" /\ game'.lifecycle = "concluding"
    BY <1>1, <1>10 DEF BeginConclusion, BeginProcess, InPlay, GameState
  <2> QED BY <1>1, <2>1, NothingMoves DEF Live
<1>11. ASSUME NEW s \in Seat, NEW kind \in Kinds, RespondAccept(s, kind)
       PROVE  Custodial(game, game')
  <2>1. Live(game)
    BY <1>11 DEF RespondAccept, CanRespond, Live
  <2>2. CASE game' = ConcludeGame(game)
    BY <1>1, <2>1, <2>2, ConcludeCustody
  <2>3. CASE game' = [game EXCEPT !.process.accepted = game.process.accepted \cup {s}]
    <3>1. /\ game'.wall = game.wall /\ game'.discards = game.discards /\ game'.hands = game.hands
          /\ game'.inFlight = game.inFlight /\ game'.exposures = game.exposures
          /\ game'.lifecycle = game.lifecycle
      BY <1>1, <2>3 DEF GameState
    <3> QED BY <1>1, <3>1, NothingMoves DEF Live
  <2> QED BY <1>11, <2>2, <2>3 DEF RespondAccept, Accept
<1> QED BY <1>2, <1>3, <1>4, <1>5, <1>6, <1>7, <1>8, <1>9, <1>10, <1>11 DEF Next, Command

\* Before the first deal all tiles are in the box.
LEMMA CustodyInit == Init => Dealer!Init
<1> SUFFICES ASSUME Init PROVE Dealer!Init
  OBVIOUS
<1>1. Located(game)
  BY InitInv, SoundLocated DEF Inv
<1>2. ASSUME NEW t \in Tile PROVE Holder(game)[t] = Dealer!Box
  <2>1. ~Somewhere(game, t) /\ ~Live(game)
    BY DEF Init, IdleGame, Somewhere, TilesIn, InHand, InFlight, OnTable, NoTiles, Live
  <2> QED BY <1>1, <2>1 DEF Located
<1>3. Holder(game) = [t \in Tile |-> Place(t)]
  BY DEF Holder, PlaceOf, Place
<1>4. Holder(game) = [t \in Tile |-> Dealer!Box]
  BY <1>2 DEF Holder
<1> QED BY <1>3, <1>4 DEF Dealer!Init

\* Tiles change hands only along the edges of Custody, in every game of any size,
\* and the game ends only as Consent allows.
THEOREM CustodyImplemented == Spec => DealsAndEndsByConsent
<1>1. Inv /\ Phased(game) /\ [Next]_vars => [Dealer!Next]_([t \in Tile |-> Place(t)])
  <2> SUFFICES ASSUME Inv, Phased(game), [Next]_vars
               PROVE  [Dealer!Next]_([t \in Tile |-> Place(t)])
    OBVIOUS
  <2>1. Holder(game) = [t \in Tile |-> Place(t)] /\ Holder(game') = [t \in Tile |-> Place(t)]'
    BY DEF Holder, PlaceOf, Place
  <2>2. Custodial(game, game')
    BY CustodyStep
  <2> QED BY <2>1, <2>2 DEF Custodial, Dealer!Next
<1>2. Spec => Dealer!Spec
  BY <1>1, CustodyInit, AlwaysPhased, PTL DEF Spec, Dealer!Spec
<1> QED BY <1>2, ConsentImplemented DEF DealsAndEndsByConsent, MovesTilesLikeADealer

-----------------------------------------------------------------------------
(* What the seats are told: an event and the view that travels with it.      *)

\* What EventsWithinView asks of one event.
Within(g, e, v) ==
    LET w == WireEvent(e, v)
    IN  /\ w.faces \subseteq VisibleTo(g, v) \cup VisibleTo(e.after, v)
        /\ \A s \in DOMAIN w.sizes : w.sizes[s] = ShownSize(e.after, s)
        /\ w.wall \subseteq {ShownWall(e.after)}

\* Why an event may carry its tiles: its seat holds them, or they are face up just
\* before or just after it.
Told(g, e) ==
    /\ e.seat \in Seat /\ Live(e.after)
    /\ \/ e.type \in {"TilesDealt", "PassCommitted", "PassRoundExecuted"}
       \/ e.type = "TileDrawn" /\ e.tiles \subseteq e.after.hands[e.seat]
       \/ /\ e.type \in FaceUp
          /\ \A v \in Seat : e.tiles \subseteq VisibleTo(g, v) \cup VisibleTo(e.after, v)

\* Such an event stays within the views.
LEMMA ToldWithin ==
    ASSUME NEW g, NEW e, Told(g, e), NEW v \in Seat
    PROVE  Within(g, e, v)
<1>1. /\ WireEvent(e, v).faces = Faces(e, v)
      /\ WireEvent(e, v).sizes = [s \in Sized(e) |-> HandSize(e.after, s)]
      /\ WireEvent(e, v).wall =
            IF e.type \in {"TilesDealt", "TileDrawn"} THEN {Len(e.after.wall)} ELSE {}
  BY DEF WireEvent
<1>2. Live(e.after)
  BY DEF Told
<1>3. Faces(e, v) \subseteq VisibleTo(g, v) \cup VisibleTo(e.after, v)
  <2>1. e.after.hands[v] \subseteq VisibleTo(e.after, v)
    BY <1>2 DEF VisibleTo
  <2>2. CASE e.type \in {"TilesDealt", "PassCommitted", "PassRoundExecuted"}
    BY <2>1, <2>2 DEF Faces, FaceUp
  <2>3. CASE e.type = "TileDrawn"
    <3>1. e.tiles \subseteq e.after.hands[e.seat]
      BY <2>3 DEF Told, FaceUp
    <3> QED BY <2>1, <2>3, <3>1 DEF Faces, FaceUp
  <2>4. CASE e.type \in FaceUp
    <3>1. e.tiles \subseteq VisibleTo(g, v) \cup VisibleTo(e.after, v)
      BY <2>4 DEF Told, FaceUp
    <3> QED BY <2>4, <3>1 DEF Faces, FaceUp
  <2> QED BY <2>2, <2>3, <2>4 DEF Told
<1>4. \A s \in Sized(e) : HandSize(e.after, s) = ShownSize(e.after, s)
  BY <1>2 DEF ShownSize
<1>5. ShownWall(e.after) = Len(e.after.wall)
  BY <1>2 DEF ShownWall
<1> QED BY <1>1, <1>3, <1>4, <1>5 DEF Within

\* The parts of an event.
LEMMA EventParts ==
    ASSUME NEW type, NEW s, NEW tiles, NEW after
    PROVE  LET e == Event(type, s, tiles, after)
           IN  e.type = type /\ e.seat = s /\ e.tiles = tiles /\ e.after = after
BY DEF Event

\* Draws, discards and claims.
LEMMA MovesTold ==
    ASSUME NEW g \in GameState, NEW s \in Seat,
           NEW e \in DrawEvents(g, s) \cup DiscardEvents(g, s) \cup ClaimEvents(g, s)
    PROVE  Told(g, e)
<1>1. CASE e \in DrawEvents(g, s)
  <2>1. CanDraw(g, s)
    BY <1>1 DEF DrawEvents
  <2>2. \/ e = Event("TileDrawn", s, {Head(g.wall)}, DrawHead(g, s))
        \/ e = Event("TileDrawn", s, {g.wall[Len(g.wall)]}, DrawTail(g, s))
    BY <1>1, <2>1 DEF DrawEvents
  <2>6. g.hands \in [Seat -> SUBSET Tile]
    BY DEF GameState
  <2>7. /\ DrawHead(g, s).lifecycle = g.lifecycle
        /\ DrawHead(g, s).hands[s] = g.hands[s] \cup {Head(g.wall)}
    BY <2>6 DEF DrawHead, GameState
  <2>8. /\ DrawTail(g, s).lifecycle = g.lifecycle
        /\ DrawTail(g, s).hands[s] = g.hands[s] \cup {g.wall[Len(g.wall)]}
    BY <2>6 DEF DrawTail, GameState
  <2>3. PICK h, t : /\ e = Event("TileDrawn", s, {t}, h)
                    /\ t \in h.hands[s] /\ h.lifecycle = g.lifecycle
    BY <2>2, <2>7, <2>8
  <2>4. Live(h)
    BY <2>1, <2>3 DEF CanDraw, InPlay, Live
  <2> QED BY <2>3, <2>4, EventParts DEF Told
<1>2. CASE e \in DiscardEvents(g, s)
  <2>1. PICK t \in g.hands[s] : /\ CanDiscard(g, s, t)
                                /\ e = Event("TileDiscarded", s, {t}, DiscardTile(g, s, t))
    BY <1>2 DEF DiscardEvents
  <2> DEFINE h == DiscardTile(g, s, t)
  <2>2. h.discards = Append(g.discards, t) /\ h.lifecycle = g.lifecycle
    BY DEF DiscardTile, GameState
  <2>3. Live(h)
    BY <2>1, <2>2 DEF CanDiscard, InPlay, Live
  <2>4. t \in TilesIn(h.discards)
    <3>1. g.discards \in Seq(Tile)
      BY DEF GameState
    <3>2. Len(g.discards) + 1 \in DOMAIN Append(g.discards, t)
          /\ Append(g.discards, t)[Len(g.discards) + 1] = t
      BY <3>1
    <3> QED BY <2>2, <3>2 DEF TilesIn
  <2>5. \A v \in Seat : t \in VisibleTo(h, v)
    BY <2>4 DEF VisibleTo
  <2> HIDE DEF h
  <2> QED BY <2>1, <2>3, <2>5, EventParts DEF Told, FaceUp, h
<1>3. CASE e \in ClaimEvents(g, s)
  <2> DEFINE t == g.discards[Len(g.discards)]
             h == ClaimDiscard(g, s)
  <2>1. CanClaim(g) /\ e = Event("DiscardClaimed", s, {t}, h)
    BY <1>3 DEF ClaimEvents
  <2>2. h.lifecycle = g.lifecycle
    BY DEF ClaimDiscard, GameState
  <2>3. Live(h)
    BY <2>1, <2>2 DEF CanClaim, InPlay, Live
  <2>4. t \in TilesIn(g.discards)
    <3>1. g.discards \in Seq(Tile) /\ g.discards # <<>>
      BY <2>1 DEF GameState, CanClaim
    <3>2. Len(g.discards) \in DOMAIN g.discards
      BY <3>1
    <3> QED BY <3>2 DEF TilesIn
  <2>5. \A v \in Seat : t \in VisibleTo(g, v)
    BY <2>4 DEF VisibleTo
  <2> HIDE DEF h, t
  <2> QED BY <2>1, <2>3, <2>5, EventParts DEF Told, FaceUp
<1> QED BY <1>1, <1>2, <1>3

\* What lies exposed is visible to all.
LEMMA ExposedSeen ==
    ASSUME NEW g, NEW e \in g.exposures, NEW v
    PROVE  e.tiles \subseteq VisibleTo(g, v)
BY DEF VisibleTo, Exposed

\* A swap gives a tile of the hand for a tile of an exposure.
LEMMA SwapEventsAre ==
    ASSUME NEW g, NEW s, NEW ev \in SwapEvents(g, s)
    PROVE  \E t \in g.hands[s], x \in g.exposures : \E y \in x.tiles :
              CanSwap(g, s, t, x, y) /\ ev = SwapEvent(g, s, t, x, y)
<1>1. \E t \in g.hands[s], x \in g.exposures :
         ev \in {SwapEvent(g, s, t, x, y) : y \in {z \in x.tiles : CanSwap(g, s, t, x, z)}}
  BY DEF SwapEvents
<1> QED BY <1>1

\* Exposures laid down, taken back and swapped.
LEMMA ExposuresTold ==
    ASSUME NEW g \in GameState, NEW s \in Seat,
           NEW e \in ExposeEvents(g, s) \cup RetractEvents(g, s) \cup SwapEvents(g, s)
    PROVE  Told(g, e)
<1>1. CASE e \in ExposeEvents(g, s)
  <2>1. PICK T \in Handles : CanExpose(g, s, T) /\ e = Event("TilesExposed", s, T, ExposeTiles(g, s, T))
    BY <1>1 DEF ExposeEvents
  <2> DEFINE h == ExposeTiles(g, s, T)
             x == [id |-> g.nextExposureId, owner |-> s, tiles |-> T]
  <2>2. x \in h.exposures /\ x.tiles = T /\ h.lifecycle = g.lifecycle
    BY DEF ExposeTiles, GameState
  <2>3. Live(h)
    BY <2>1, <2>2 DEF CanExpose, UnblockedLive, Live
  <2>4. \A v \in Seat : T \subseteq VisibleTo(h, v)
    BY <2>2, ExposedSeen
  <2> HIDE DEF h, x
  <2> QED BY <2>1, <2>3, <2>4, EventParts DEF Told, FaceUp, h
<1>2. CASE e \in RetractEvents(g, s)
  <2>1. PICK x \in g.exposures : /\ CanRetract(g, s, x)
                                 /\ e = Event("ExposureRetracted", s, x.tiles, RetractExposure(g, s, x))
    BY <1>2 DEF RetractEvents
  <2> DEFINE h == RetractExposure(g, s, x)
  <2>2. h.lifecycle = g.lifecycle
    BY DEF RetractExposure, GameState
  <2>3. Live(h)
    BY <2>1, <2>2 DEF CanRetract, UnblockedLive, Live
  <2>4. \A v \in Seat : x.tiles \subseteq VisibleTo(g, v)
    BY ExposedSeen
  <2> HIDE DEF h
  <2> QED BY <2>1, <2>3, <2>4, EventParts DEF Told, FaceUp, h
<1>3. CASE e \in SwapEvents(g, s)
  <2>1. PICK t \in g.hands[s], x \in g.exposures :
           \E y \in x.tiles :
              CanSwap(g, s, t, x, y) /\ e = SwapEvent(g, s, t, x, y)
    BY <1>3, SwapEventsAre
  <2>2. PICK y \in x.tiles :
           /\ CanSwap(g, s, t, x, y)
           /\ e = Event("ExposedTileSwapped", s, {t, y}, SwapExposedTile(g, s, t, x, y))
    BY <2>1 DEF SwapEvent
  <2> DEFINE h == SwapExposedTile(g, s, t, x, y)
             z == [id |-> x.id, owner |-> x.owner, tiles |-> (x.tiles \ {y}) \cup {t}]
  <2>3. z \in h.exposures /\ z.tiles = (x.tiles \ {y}) \cup {t} /\ h.lifecycle = g.lifecycle
    <3>1. h.exposures = (g.exposures \ {x}) \cup {z} /\ h.lifecycle = g.lifecycle
      BY DEF SwapExposedTile, GameState
    <3> HIDE DEF h
    <3> QED BY <3>1
  <2>4. Live(h)
    BY <2>2, <2>3 DEF CanSwap, InPlay, Live
  <2>5. \A v \in Seat : t \in VisibleTo(h, v) /\ y \in VisibleTo(g, v)
    BY <2>3, ExposedSeen
  <2> HIDE DEF h, z
  <2> QED BY <2>2, <2>4, <2>5, EventParts DEF Told, FaceUp, h
<1> QED BY <1>1, <1>2, <1>3

\* Commitments, reveals and deals.
LEMMA OthersTold ==
    ASSUME NEW g \in GameState, NEW s \in Seat,
           NEW e \in CommitEvents(g, s) \cup RevealEvents(g, s) \cup DealEvents(g)
    PROVE  Told(g, e)
<1>1. CASE e \in CommitEvents(g, s)
  <2>1. PICK T \in Handles :
           /\ CanCommit(g, s, T)
           /\ \/ e = Event("PassCommitted", s, T, CommitPass(g, s, T))
              \/ e = Event("PassRoundExecuted", s, {}, CommitPass(g, s, T))
    BY <1>1 DEF CommitEvents
  <2>2. CommitPass(g, s, T).lifecycle = g.lifecycle
    BY DEF CommitPass, Committed, ExecutePassRound, GameState
  <2>3. Live(CommitPass(g, s, T))
    BY <2>1, <2>2 DEF CanCommit, InPlay, Live
  <2> QED BY <2>1, <2>3, EventParts DEF Told
<1>2. CASE e \in RevealEvents(g, s)
  <2> DEFINE h == RevealHand(g, s)
  <2>1. CanReveal(g) /\ e = Event("HandRevealed", s, g.hands[s], h)
    BY <1>2 DEF RevealEvents
  <2>2. h.lifecycle = g.lifecycle /\ h.hands = g.hands /\ s \in h.revealed
    BY DEF RevealHand, GameState
  <2>3. Live(h)
    BY <2>1, <2>2 DEF CanReveal, Live
  <2>4. \A v \in Seat : g.hands[s] \subseteq VisibleTo(h, v)
    BY <2>2 DEF VisibleTo
  <2> HIDE DEF h
  <2> QED BY <2>1, <2>3, <2>4, EventParts DEF Told, FaceUp
<1>3. CASE e \in DealEvents(g)
  <2>1. PICK o : e = Event("TilesDealt", East, {}, Deal(o))
    BY <1>3 DEF DealEvents
  <2>2. Live(Deal(o)) /\ East \in Seat
    BY SeatAssumption DEF Live, Deal, IdleGame, East, Seat
  <2> QED BY <2>1, <2>2, EventParts DEF Told
<1> QED BY <1>1, <1>2, <1>3

\* What a seat is told, its view shows: in a sound state, of every command that the
\* table would take there, and for every viewer.
LEMMA StateTells == Inv => EventsWithinView
<1> SUFFICES ASSUME Inv PROVE EventsWithinView
  OBVIOUS
<1>1. game \in GameState /\ East \in Seat
  BY SeatAssumption DEF Inv, Sound, East, Seat
<1>2. \A v \in Seat : Summary(game).faces \subseteq VisibleTo(game, v)
  BY DEF Summary, VisibleTo
<1>3. ASSUME NEW e \in DealerEvents(game), NEW v \in Seat PROVE Within(game, e, v)
  <2>1. Told(game, e)
    <3>1. CASE e \in DealEvents(game)
      BY <1>1, <3>1, OthersTold
    <3>2. ASSUME NEW s \in Seat,
                 e \in DrawEvents(game, s) \cup DiscardEvents(game, s) \cup ClaimEvents(game, s)
                       \cup ExposeEvents(game, s) \cup RetractEvents(game, s)
                       \cup SwapEvents(game, s) \cup CommitEvents(game, s)
                       \cup RevealEvents(game, s)
          PROVE  Told(game, e)
      BY <1>1, <3>2, MovesTold, ExposuresTold, OthersTold
    <3> QED BY <3>1, <3>2, Zenon DEF DealerEvents
  <2> QED BY <2>1, ToldWithin
<1> QED BY <1>2, <1>3 DEF EventsWithinView, Within

\* So the events of a game give away nothing that the screens do not.
THEOREM EventsStayWithinViews == Spec => []EventsWithinView
BY StateTells, AlwaysSound, PTL
=============================================================================
