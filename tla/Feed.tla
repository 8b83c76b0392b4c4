-------------------------------- MODULE Feed --------------------------------
(***************************************************************************)
(* What the seats are told: server/src/table/events.ts turns each event of *)
(* a command into one wire event per viewer, and server/src/table/view.ts  *)
(* composes the view that travels with it.  The two resolve faces and      *)
(* numbers separately, so they can disagree, and the event has its own     *)
(* idea of what a viewer may see.                                          *)
(*                                                                         *)
(* Left out: texts, signals and commitments, the events about seats, which *)
(* carry no tile and no count, and those of corrections (TableActor).      *)
(***************************************************************************)
EXTENDS Game

\* A DealerEvent of a command that seat s may send now: the tiles it names, and
\* the state after the command, from which toWireEvent resolves the rest.
Event(type, s, tiles, after) == [type |-> type, seat |-> s, tiles |-> tiles, after |-> after]

DrawEvents(g, s) ==
    IF CanDraw(g, s)
    THEN {Event("TileDrawn", s, {Head(g.wall)}, DrawHead(g, s)),
          Event("TileDrawn", s, {g.wall[Len(g.wall)]}, DrawTail(g, s))}
    ELSE {}

DiscardEvents(g, s) ==
    {Event("TileDiscarded", s, {t}, DiscardTile(g, s, t)) : t \in {x \in g.hands[s] : CanDiscard(g, s, x)}}

ClaimEvents(g, s) ==
    IF CanClaim(g)
    THEN {Event("DiscardClaimed", s, {g.discards[Len(g.discards)]}, ClaimDiscard(g, s))}
    ELSE {}

ExposeEvents(g, s) ==
    {Event("TilesExposed", s, T, ExposeTiles(g, s, T)) : T \in {U \in Handles : CanExpose(g, s, U)}}

RetractEvents(g, s) ==
    {Event("ExposureRetracted", s, e.tiles, RetractExposure(g, s, e)) :
        e \in {x \in g.exposures : CanRetract(g, s, x)}}

\* The tile given and the tile taken.
SwapEvent(g, s, t, e, x) ==
    Event("ExposedTileSwapped", s, {t, x}, SwapExposedTile(g, s, t, e, x))
SwapEvents(g, s) ==
    UNION {{SwapEvent(g, s, t, e, x) : x \in {y \in e.tiles : CanSwap(g, s, t, e, y)}} :
              t \in g.hands[s], e \in g.exposures}

\* A commitment that completes the round has a second event.
CommitEvents(g, s) ==
    UNION {LET h == CommitPass(g, s, T) IN
              {Event("PassCommitted", s, T, h)}
              \cup (IF RoundOpen(h) THEN {} ELSE {Event("PassRoundExecuted", s, {}, h)}) :
           T \in {U \in Handles : CanCommit(g, s, U)}}

RevealEvents(g, s) ==
    IF CanReveal(g) THEN {Event("HandRevealed", s, g.hands[s], RevealHand(g, s))} ELSE {}

DealEvents(g) ==
    IF Live(g) THEN {} ELSE {Event("TilesDealt", East, {}, Deal(o)) : o \in Orders(Tile)}

\* The events of every command the table would accept now that concern tiles.
DealerEvents(g) ==
    DealEvents(g) \cup UNION {DrawEvents(g, s) \cup DiscardEvents(g, s) \cup ClaimEvents(g, s)
                              \cup ExposeEvents(g, s) \cup RetractEvents(g, s) \cup SwapEvents(g, s)
                              \cup CommitEvents(g, s) \cup RevealEvents(g, s) : s \in Seat}

-----------------------------------------------------------------------------
(* toWireEvent: the payload of event e for viewer v. *)

\* Events whose tiles are face up for everyone.
FaceUp == {"TileDiscarded", "DiscardClaimed", "TilesExposed", "ExposureRetracted",
           "ExposedTileSwapped", "HandRevealed"}

\* Mutant: a drawn tile counts as face up.
FacesToAll(e, v) ==
    CASE e.type = "TilesDealt" -> e.after.hands[v]
      [] e.type \in FaceUp \cup {"TileDrawn"} -> e.tiles
      [] OTHER -> {}

\* OWN fields only go to the seat they are about; the tiles of a commitment, and
\* those received from a pass, are not in the event for anyone.
Faces(e, v) ==
    CASE e.type = "TilesDealt" -> e.after.hands[v]
      [] e.type = "TileDrawn" -> IF v = e.seat THEN e.tiles ELSE {}
      [] e.type \in FaceUp -> e.tiles
      [] OTHER -> {}

\* The seats whose hand size the event states: as of the state after it.
Sized(e) ==
    CASE e.type \in {"TilesDealt", "PassRoundExecuted"} -> Seat
      [] e.type \in {"PassCommitted", "HandRevealed"} -> {}
      [] OTHER -> {e.seat}

HandSize(g, s) == Cardinality(g.hands[s])

WireEvent(e, v) ==
    [type |-> e.type,
     faces |-> Faces(e, v),
     sizes |-> [s \in Sized(e) |-> HandSize(e.after, s)],
     wall |-> IF e.type \in {"TilesDealt", "TileDrawn"} THEN {Len(e.after.wall)} ELSE {}]

\* publicCheckpointSummary, the column of a checkpoint that is not encrypted.
Summary(g) ==
    [lifecycle |-> g.lifecycle,
     turn |-> IF Live(g) THEN {g.turn} ELSE {},
     faces |-> TilesIn(g.discards) \cup Exposed(g),
     sizes |-> [s \in Seat |-> IF Live(g) THEN HandSize(g, s) ELSE 0]]

-----------------------------------------------------------------------------
(* Properties. *)

\* projectTableView, as far as an event repeats it; the faces are VisibleTo.
ShownSize(g, s) == IF Live(g) THEN HandSize(g, s) ELSE 0
ShownWall(g) == IF Live(g) THEN Len(g.wall) ELSE 0

\* An event tells a seat no face that the seat's own view does not show just
\* before or just after it, and states the sizes of the view that travels with
\* it: the two translations never disagree, so the event log gives away nothing
\* a screen does not, whichever command and whichever viewer.  Nor does the plain
\* column of a checkpoint tell an operator what any seat could not see.
EventsWithinView ==
    /\ \A v \in Seat : Summary(game).faces \subseteq VisibleTo(game, v)
    /\ \A e \in DealerEvents(game) : \A v \in Seat :
        LET w == WireEvent(e, v)
        IN  /\ w.faces \subseteq VisibleTo(game, v) \cup VisibleTo(e.after, v)
            /\ \A s \in DOMAIN w.sizes : w.sizes[s] = ShownSize(e.after, s)
            /\ w.wall \subseteq {ShownWall(e.after)}
=============================================================================
