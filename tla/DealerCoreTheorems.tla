------------------------- MODULE DealerCoreTheorems -------------------------
(***************************************************************************)
(* What the commands of DealerCore preserve, for every tile set, number of *)
(* seats and shuffle: the state stays a GameState, no tile is ever in two  *)
(* places, and the books of the pass round balance.                        *)
(***************************************************************************)
EXTENDS DealerCore, SequenceTheorems, FiniteSetTheorems, TLAPS

-----------------------------------------------------------------------------
(* Sequences of distinct tiles. *)

\* Taking the head of the wall removes exactly that tile.
LEMMA TailTiles ==
    ASSUME NEW S, NEW q \in Seq(S), q # <<>>, Injective(q)
    PROVE  /\ Tail(q) \in Seq(S) /\ Injective(Tail(q))
           /\ Head(q) \in S /\ Head(q) \in TilesIn(q)
           /\ TilesIn(Tail(q)) = TilesIn(q) \ {Head(q)}
<1>1. Len(q) \in Nat \ {0} /\ DOMAIN q = 1 .. Len(q) /\ Head(q) = q[1]
  BY EmptySeq, LenProperties, HeadTailProperties
<1>2. Tail(q) \in Seq(S) /\ DOMAIN Tail(q) = 1 .. Len(q) - 1
  BY HeadTailProperties, LenProperties
<1>3. \A i \in 1 .. Len(q) - 1 : Tail(q)[i] = q[i + 1]
  BY HeadTailProperties
<1>4. Injective(Tail(q))
  BY <1>1, <1>2, <1>3 DEF Injective
<1>5. TilesIn(Tail(q)) \subseteq TilesIn(q) \ {Head(q)}
  BY <1>1, <1>2, <1>3 DEF TilesIn, Injective
<1>6. ASSUME NEW t \in TilesIn(q) \ {Head(q)} PROVE t \in TilesIn(Tail(q))
  <2>1. PICK i \in 1 .. Len(q) : t = q[i] /\ i # 1
    BY <1>1, <1>6 DEF TilesIn
  <2>2. i - 1 \in 1 .. Len(q) - 1 /\ Tail(q)[i - 1] = t
    BY <1>1, <1>3, <2>1
  <2> QED BY <1>2, <2>2 DEF TilesIn
<1>7. Head(q) \in S /\ Head(q) \in TilesIn(q)
  BY <1>1 DEF TilesIn
<1> QED BY <1>2, <1>4, <1>5, <1>6, <1>7

\* An index of a sequence that is not the last is an index of its front.
LEMMA NotLast ==
    ASSUME NEW n \in Nat, NEW i \in 1 .. n, i # n
    PROVE  i \in 1 .. n - 1
OBVIOUS

\* Taking the last element of the wall or of the discards removes exactly it.
LEMMA FrontTiles ==
    ASSUME NEW S, NEW q \in Seq(S), q # <<>>, Injective(q)
    PROVE  LET f == SubSeq(q, 1, Len(q) - 1)
           IN  /\ f \in Seq(S) /\ Injective(f)
               /\ q[Len(q)] \in S /\ q[Len(q)] \in TilesIn(q)
               /\ TilesIn(f) = TilesIn(q) \ {q[Len(q)]}
<1> DEFINE f == SubSeq(q, 1, Len(q) - 1)
<1>1. Len(q) \in Nat \ {0} /\ DOMAIN q = 1 .. Len(q)
  BY EmptySeq, LenProperties
<1>2. f \in Seq(S) /\ DOMAIN f = 1 .. Len(q) - 1
  BY <1>1
<1>3. \A i \in 1 .. Len(q) - 1 : f[i] = q[i]
  BY <1>1
<1>4. Injective(f)
  BY <1>1, <1>2, <1>3 DEF Injective
<1>5. TilesIn(f) \subseteq TilesIn(q) \ {q[Len(q)]}
  BY <1>1, <1>2, <1>3 DEF TilesIn, Injective
<1>6. ASSUME NEW t, t \in TilesIn(q) \ {q[Len(q)]} PROVE t \in TilesIn(f)
  <2>1. PICK i \in 1 .. Len(q) : t = q[i]
    BY <1>1, <1>6 DEF TilesIn
  <2>2. i # Len(q)
    BY <1>6, <2>1
  <2>3. i \in 1 .. Len(q) - 1
    BY <1>1, <2>1, <2>2, NotLast
  <2>4. f[i] = t
    BY <1>3, <2>1, <2>3
  <2> QED BY <1>2, <2>3, <2>4 DEF TilesIn
<1>7. q[Len(q)] \in S /\ q[Len(q)] \in TilesIn(q)
  BY <1>1 DEF TilesIn
<1> QED BY <1>2, <1>4, <1>5, <1>6, <1>7

\* Discarding a tile that is not in the pile adds exactly that tile.
LEMMA AppendTiles ==
    ASSUME NEW S, NEW q \in Seq(S), NEW t \in S, t \notin TilesIn(q), Injective(q)
    PROVE  /\ Append(q, t) \in Seq(S) /\ Injective(Append(q, t))
           /\ TilesIn(Append(q, t)) = TilesIn(q) \cup {t}
<1> DEFINE a == Append(q, t)
<1>1. /\ a \in Seq(S) /\ DOMAIN a = 1 .. Len(q) + 1 /\ DOMAIN q = 1 .. Len(q)
      /\ Len(q) \in Nat /\ a[Len(q) + 1] = t
      /\ \A i \in 1 .. Len(q) : a[i] = q[i]
  BY LenProperties
<1>2. Injective(a)
  BY <1>1 DEF Injective, TilesIn
<1>3. TilesIn(a) = TilesIn(q) \cup {t}
  BY <1>1 DEF TilesIn
<1> QED BY <1>1, <1>2, <1>3

-----------------------------------------------------------------------------
(* The invariant of a game state. *)

\* Ids of laid exposures are older than the next id to hand out.
IdsFresh(g) == Live(g) => \A e \in g.exposures : e.id < g.nextExposureId

Sound(g) == g \in GameState /\ Exclusive(g) /\ BooksBalance(g) /\ IdsFresh(g)

\* draw_tile from the head moves the head of the wall into the drawing hand.
LEMMA DrawHeadSound ==
    ASSUME NEW g, Sound(g), NEW s \in Seat, CanDraw(g, s)
    PROVE  Sound(DrawHead(g, s))
<1> DEFINE h == DrawHead(g, s)
<1>1. /\ g \in GameState /\ g.wall \in Seq(Tile) /\ g.wall # <<>> /\ Injective(g.wall)
  BY DEF Sound, CanDraw, GameState, Exclusive
<1>2. /\ Tail(g.wall) \in Seq(Tile) /\ Injective(Tail(g.wall))
      /\ Head(g.wall) \in Tile /\ Head(g.wall) \in TilesIn(g.wall)
      /\ TilesIn(Tail(g.wall)) = TilesIn(g.wall) \ {Head(g.wall)}
  BY <1>1, TailTiles
<1>3. NextSeat(s) \in Seat
  BY SeatAssumption DEF NextSeat, Seat
<1>4. /\ h.wall = Tail(g.wall) /\ h.turn = NextSeat(s)
      /\ h.hands = [g.hands EXCEPT ![s] = @ \cup {Head(g.wall)}]
      /\ h.lifecycle = g.lifecycle /\ h.discards = g.discards /\ h.exposures = g.exposures
      /\ h.nextExposureId = g.nextExposureId /\ h.inFlight = g.inFlight
      /\ h.routing = g.routing /\ h.committed = g.committed
  BY <1>1 DEF DrawHead, GameState
<1>5. h \in GameState
  BY <1>1, <1>2, <1>3 DEF DrawHead, GameState
<1>6. Exclusive(h)
  BY <1>1, <1>2, <1>4 DEF Sound, Exclusive, InHand, InFlight, OnTable, GameState
<1>7. BooksBalance(h) /\ IdsFresh(h)
  BY <1>4 DEF Sound, BooksBalance, IdsFresh, Live
<1> QED BY <1>5, <1>6, <1>7 DEF Sound

\* draw_tile from the tail moves the last tile of the wall.
LEMMA DrawTailSound ==
    ASSUME NEW g, Sound(g), NEW s \in Seat, CanDraw(g, s)
    PROVE  Sound(DrawTail(g, s))
<1> DEFINE h == DrawTail(g, s)
           last == g.wall[Len(g.wall)]
           rest == SubSeq(g.wall, 1, Len(g.wall) - 1)
<1>1. /\ g \in GameState /\ g.wall \in Seq(Tile) /\ g.wall # <<>> /\ Injective(g.wall)
  BY DEF Sound, CanDraw, GameState, Exclusive
<1>2. /\ rest \in Seq(Tile) /\ Injective(rest) /\ last \in Tile /\ last \in TilesIn(g.wall)
      /\ TilesIn(rest) = TilesIn(g.wall) \ {last}
  BY <1>1, FrontTiles
<1>3. NextSeat(s) \in Seat
  BY SeatAssumption DEF NextSeat, Seat
<1>4. /\ h.wall = rest /\ h.turn = NextSeat(s)
      /\ h.hands = [g.hands EXCEPT ![s] = @ \cup {last}]
      /\ h.lifecycle = g.lifecycle /\ h.discards = g.discards /\ h.exposures = g.exposures
      /\ h.nextExposureId = g.nextExposureId /\ h.inFlight = g.inFlight
      /\ h.routing = g.routing /\ h.committed = g.committed
  BY <1>1 DEF DrawTail, GameState
<1> HIDE DEF last, rest
<1>5. h \in GameState
  BY <1>1, <1>2, <1>3 DEF DrawTail, GameState, last, rest
<1> HIDE DEF h
<1>6. Exclusive(h)
  BY <1>1, <1>2, <1>4 DEF Sound, Exclusive, InHand, InFlight, OnTable, GameState
<1>7. BooksBalance(h) /\ IdsFresh(h)
  BY <1>4 DEF Sound, BooksBalance, IdsFresh, Live
<1> QED BY <1>5, <1>6, <1>7 DEF Sound, h

\* discard_tile moves a tile from a hand to the top of the discards.
LEMMA DiscardSound ==
    ASSUME NEW g, Sound(g), NEW s \in Seat, NEW t, CanDiscard(g, s, t)
    PROVE  Sound(DiscardTile(g, s, t))
<1> DEFINE h == DiscardTile(g, s, t)
           pile == Append(g.discards, t)
<1>1. /\ g \in GameState /\ g.discards \in Seq(Tile) /\ Injective(g.discards)
      /\ t \in g.hands[s] /\ t \in Tile /\ t \notin TilesIn(g.discards)
  BY DEF Sound, CanDiscard, GameState, Exclusive, InHand
<1>2. pile \in Seq(Tile) /\ Injective(pile) /\ TilesIn(pile) = TilesIn(g.discards) \cup {t}
  BY <1>1, AppendTiles
<1>3. /\ h.discards = pile /\ h.hands = [g.hands EXCEPT ![s] = @ \ {t}]
      /\ h.lifecycle = g.lifecycle /\ h.wall = g.wall /\ h.exposures = g.exposures
      /\ h.nextExposureId = g.nextExposureId /\ h.inFlight = g.inFlight
      /\ h.routing = g.routing /\ h.committed = g.committed
  BY <1>1 DEF DiscardTile, GameState
<1> HIDE DEF pile
<1>4. h \in GameState
  BY <1>1, <1>2 DEF DiscardTile, GameState, pile
<1> HIDE DEF h
<1>5. Exclusive(h)
  BY <1>1, <1>2, <1>3 DEF Sound, Exclusive, InHand, InFlight, OnTable, GameState
<1>6. BooksBalance(h) /\ IdsFresh(h)
  BY <1>3 DEF Sound, BooksBalance, IdsFresh, Live
<1> QED BY <1>4, <1>5, <1>6 DEF Sound, h

\* claim_discard moves the top of the discards to the claimer's hand.
LEMMA ClaimSound ==
    ASSUME NEW g, Sound(g), NEW s \in Seat, CanClaim(g)
    PROVE  Sound(ClaimDiscard(g, s))
<1> DEFINE h == ClaimDiscard(g, s)
           top == g.discards[Len(g.discards)]
           rest == SubSeq(g.discards, 1, Len(g.discards) - 1)
<1>1. /\ g \in GameState /\ g.discards \in Seq(Tile) /\ g.discards # <<>> /\ Injective(g.discards)
  BY DEF Sound, CanClaim, GameState, Exclusive
<1>2. /\ rest \in Seq(Tile) /\ Injective(rest) /\ top \in Tile /\ top \in TilesIn(g.discards)
      /\ TilesIn(rest) = TilesIn(g.discards) \ {top}
  BY <1>1, FrontTiles
<1>3. /\ h.discards = rest /\ h.hands = [g.hands EXCEPT ![s] = @ \cup {top}]
      /\ h.lifecycle = g.lifecycle /\ h.wall = g.wall /\ h.exposures = g.exposures
      /\ h.nextExposureId = g.nextExposureId /\ h.inFlight = g.inFlight
      /\ h.routing = g.routing /\ h.committed = g.committed
  BY <1>1 DEF ClaimDiscard, GameState
<1> HIDE DEF top, rest
<1>4. h \in GameState
  BY <1>1, <1>2 DEF ClaimDiscard, GameState, top, rest
<1> HIDE DEF h
<1>5. Exclusive(h)
  BY <1>1, <1>2, <1>3 DEF Sound, Exclusive, InHand, InFlight, OnTable, GameState
<1>6. BooksBalance(h) /\ IdsFresh(h)
  BY <1>3 DEF Sound, BooksBalance, IdsFresh, Live
<1> QED BY <1>4, <1>5, <1>6 DEF Sound, h

\* expose_tiles lays down tiles of a hand under an id no other exposure has.
LEMMA ExposeSound ==
    ASSUME NEW g, Sound(g), NEW s \in Seat, NEW T, CanExpose(g, s, T)
    PROVE  Sound(ExposeTiles(g, s, T))
<1> DEFINE h == ExposeTiles(g, s, T)
           laid == [id |-> g.nextExposureId, owner |-> s, tiles |-> T]
<1>1. g \in GameState /\ T \in SUBSET Tile /\ T \subseteq g.hands[s] /\ Live(g)
  BY DEF Sound, CanExpose, UnblockedLive, Handles
<1>2. /\ laid \in Exposure /\ laid.tiles = T /\ laid.id = g.nextExposureId
      /\ g.nextExposureId + 1 \in Nat /\ g.nextExposureId \in Nat
  BY <1>1 DEF Exposure, GameState
<1>3. \A e \in g.exposures : e.id < g.nextExposureId /\ e.id \in Nat /\ e.tiles \in SUBSET Tile
  BY <1>1 DEF Sound, IdsFresh, GameState, Exposure
<1>4. /\ h.exposures = g.exposures \cup {laid} /\ h.hands = [g.hands EXCEPT ![s] = @ \ T]
      /\ h.nextExposureId = g.nextExposureId + 1
      /\ h.lifecycle = g.lifecycle /\ h.wall = g.wall /\ h.discards = g.discards
      /\ h.inFlight = g.inFlight /\ h.routing = g.routing /\ h.committed = g.committed
  BY <1>1 DEF ExposeTiles, GameState
<1> HIDE DEF laid
<1>5. h \in GameState
  BY <1>1, <1>2 DEF ExposeTiles, GameState, laid
<1> HIDE DEF h
<1>6. Exclusive(h)
  <2>1. \A e \in g.exposures : e.id # laid.id /\ e.tiles \cap T = {}
    BY <1>1, <1>2, <1>3 DEF Sound, Exclusive, InHand, OnTable
  <2>2. \A e, f \in h.exposures : e # f => e.id # f.id /\ e.tiles \cap f.tiles = {}
    BY <1>2, <1>4, <2>1 DEF Sound, Exclusive
  <2>3. \A r, r2 \in Seat : r # r2 => h.hands[r] \cap h.hands[r2] = {}
    BY <1>1, <1>4 DEF Sound, Exclusive, GameState
  <2>4. \A u \in Tile : OnTable(h, u) <=> OnTable(g, u) \/ u \in T
    BY <1>2, <1>4 DEF OnTable
  <2>5. \A u \in Tile : InHand(h, u) => InHand(g, u) /\ u \notin T
    BY <1>1, <1>4 DEF InHand, GameState, Sound, Exclusive
  <2>6. \A u \in Tile : (u \in T => InHand(g, u)) /\ (InFlight(h, u) <=> InFlight(g, u))
    BY <1>1, <1>4 DEF InHand, InFlight
  <2> QED BY <1>1, <1>4, <2>2, <2>3, <2>4, <2>5, <2>6 DEF Sound, Exclusive
<1>7. BooksBalance(h) /\ IdsFresh(h)
  BY <1>1, <1>2, <1>3, <1>4 DEF Sound, BooksBalance, IdsFresh, Live
<1> QED BY <1>5, <1>6, <1>7 DEF Sound, h

\* retract_exposure returns the tiles of an exposure to the hand of its owner.
LEMMA RetractSound ==
    ASSUME NEW g, Sound(g), NEW s \in Seat, NEW e, CanRetract(g, s, e)
    PROVE  Sound(RetractExposure(g, s, e))
<1> DEFINE h == RetractExposure(g, s, e)
<1>1. g \in GameState /\ e \in g.exposures /\ e \in Exposure /\ e.tiles \in SUBSET Tile
  BY DEF Sound, CanRetract, GameState, Exposure
<1>2. /\ h.exposures = g.exposures \ {e} /\ h.hands = [g.hands EXCEPT ![s] = @ \cup e.tiles]
      /\ h.nextExposureId = g.nextExposureId
      /\ h.lifecycle = g.lifecycle /\ h.wall = g.wall /\ h.discards = g.discards
      /\ h.inFlight = g.inFlight /\ h.routing = g.routing /\ h.committed = g.committed
  BY <1>1 DEF RetractExposure, GameState
<1>3. h \in GameState
  BY <1>1 DEF RetractExposure, GameState
<1> HIDE DEF h
<1>4. Exclusive(h)
  <2>1. \A r \in Seat : g.hands[r] \cap e.tiles = {}
    BY <1>1 DEF Sound, Exclusive, InHand, OnTable
  <2>2. \A f, f2 \in h.exposures : f # f2 => f.id # f2.id /\ f.tiles \cap f2.tiles = {}
    BY <1>2 DEF Sound, Exclusive
  <2>3. \A r, r2 \in Seat : r # r2 => h.hands[r] \cap h.hands[r2] = {}
    BY <1>1, <1>2, <2>1 DEF Sound, Exclusive, GameState
  <2>4. \A u \in Tile : OnTable(h, u) => OnTable(g, u) /\ u \notin e.tiles
    BY <1>1, <1>2 DEF OnTable, Sound, Exclusive
  <2>5. \A u \in Tile : InHand(h, u) => InHand(g, u) \/ u \in e.tiles
    BY <1>1, <1>2 DEF InHand, GameState
  <2>6. \A u \in Tile : (u \in e.tiles => OnTable(g, u)) /\ (InFlight(h, u) <=> InFlight(g, u))
    BY <1>1, <1>2 DEF OnTable, InFlight
  <2> QED BY <1>1, <1>2, <2>2, <2>3, <2>4, <2>5, <2>6 DEF Sound, Exclusive
<1>5. BooksBalance(h) /\ IdsFresh(h)
  BY <1>2 DEF Sound, BooksBalance, IdsFresh, Live
<1> QED BY <1>3, <1>4, <1>5 DEF Sound, h

\* swap_exposed_tile exchanges one tile of a hand with one of an exposure.
LEMMA SwapSound ==
    ASSUME NEW g, Sound(g), NEW s \in Seat, NEW t, NEW e, NEW x, CanSwap(g, s, t, e, x)
    PROVE  Sound(SwapExposedTile(g, s, t, e, x))
<1> DEFINE h == SwapExposedTile(g, s, t, e, x)
           new == [id |-> e.id, owner |-> e.owner, tiles |-> (e.tiles \ {x}) \cup {t}]
<1>1. /\ g \in GameState /\ e \in g.exposures /\ e \in Exposure /\ x \in e.tiles
      /\ t \in g.hands[s] /\ t \in Tile /\ x \in Tile /\ Live(g)
  BY DEF Sound, CanSwap, InPlay, Live, GameState, Exposure
<1>2. new \in Exposure /\ new.id = e.id /\ new.tiles = (e.tiles \ {x}) \cup {t}
  BY <1>1 DEF Exposure
<1>3. /\ h.exposures = (g.exposures \ {e}) \cup {new}
      /\ h.hands = [g.hands EXCEPT ![s] = (@ \ {t}) \cup {x}]
      /\ h.nextExposureId = g.nextExposureId
      /\ h.lifecycle = g.lifecycle /\ h.wall = g.wall /\ h.discards = g.discards
      /\ h.inFlight = g.inFlight /\ h.routing = g.routing /\ h.committed = g.committed
  BY <1>1 DEF SwapExposedTile, GameState
<1> HIDE DEF new
<1>4. h \in GameState
  BY <1>1, <1>2 DEF SwapExposedTile, GameState, new
<1> HIDE DEF h
<1>5. \A f \in g.exposures : f # e => /\ f.id # e.id /\ f.tiles \cap e.tiles = {}
                                     /\ t \notin f.tiles /\ x \notin f.tiles
  BY <1>1 DEF Sound, Exclusive, InHand, OnTable
<1>6. \A r \in Seat : x \notin g.hands[r] /\ x \notin g.inFlight[r]
  BY <1>1 DEF Sound, Exclusive, InHand, InFlight, OnTable
<1>7. Exclusive(h)
  <2>1. \A f, f2 \in h.exposures : f # f2 => f.id # f2.id /\ f.tiles \cap f2.tiles = {}
    BY <1>1, <1>2, <1>3, <1>5 DEF Sound, Exclusive
  <2>2. \A r, r2 \in Seat : r # r2 => h.hands[r] \cap h.hands[r2] = {}
    BY <1>1, <1>3, <1>6 DEF Sound, Exclusive, GameState
  <2>3. \A u \in Tile : OnTable(h, u) => u = t \/ (OnTable(g, u) /\ u # x)
    BY <1>1, <1>2, <1>3, <1>5 DEF OnTable
  <2>4. \A u \in Tile : InHand(h, u) => u = x \/ (InHand(g, u) /\ u # t)
    BY <1>1, <1>3 DEF InHand, GameState, Sound, Exclusive
  <2>5. InHand(g, t) /\ OnTable(g, x) /\ \A u \in Tile : InFlight(h, u) <=> InFlight(g, u)
    BY <1>1, <1>3 DEF InHand, OnTable, InFlight
  <2> QED BY <1>1, <1>3, <2>1, <2>2, <2>3, <2>4, <2>5 DEF Sound, Exclusive
<1>8. BooksBalance(h) /\ IdsFresh(h)
  BY <1>1, <1>2, <1>3 DEF Sound, BooksBalance, IdsFresh, Live
<1> QED BY <1>4, <1>7, <1>8 DEF Sound, h

-----------------------------------------------------------------------------
(* The pass round. *)

\* open_pass_round moves no tile and starts with nothing committed.
LEMMA OpenRoundSound ==
    ASSUME NEW g, Sound(g), NEW r, CanOpenRound(g, r)
    PROVE  Sound(OpenPassRound(g, r))
<1> DEFINE h == OpenPassRound(g, r)
<1>1. /\ g \in GameState /\ r \in [Seat -> Seat \cup {NoSeat}]
      /\ NoTiles \in [Seat -> SUBSET Tile] /\ \A s \in Seat : NoTiles[s] = {}
  BY DEF Sound, CanOpenRound, Routings, NoTiles
<1>2. /\ h.committed = NoTiles /\ h.wall = g.wall /\ h.discards = g.discards
      /\ h.hands = g.hands /\ h.inFlight = g.inFlight /\ h.exposures = g.exposures
      /\ h.nextExposureId = g.nextExposureId /\ h.lifecycle = g.lifecycle
  BY <1>1 DEF OpenPassRound, GameState
<1>3. h \in GameState
  BY <1>1 DEF OpenPassRound, GameState
<1> HIDE DEF h
<1>4. Exclusive(h) /\ IdsFresh(h)
  BY <1>2 DEF Sound, Exclusive, InHand, InFlight, OnTable, IdsFresh, Live
<1>5. BooksBalance(h)
  BY <1>1, <1>2 DEF BooksBalance
<1> QED BY <1>3, <1>4, <1>5 DEF Sound, h

\* A commitment moves the committed tiles from the hand into flight.
LEMMA CommittedSound ==
    ASSUME NEW g, Sound(g), NEW s \in Seat, NEW T, CanCommit(g, s, T)
    PROVE  Sound(Committed(g, s, T))
<1> DEFINE h == Committed(g, s, T)
<1>1. g \in GameState /\ T \in SUBSET Tile /\ T \subseteq g.hands[s] /\ g.routing[s] # NoSeat
  BY DEF Sound, CanCommit, Handles, Participants
<1>2. /\ h.hands = [g.hands EXCEPT ![s] = @ \ T]
      /\ h.inFlight = [g.inFlight EXCEPT ![s] = T]
      /\ h.committed = [g.committed EXCEPT ![s] = T]
      /\ h.wall = g.wall /\ h.discards = g.discards /\ h.exposures = g.exposures
      /\ h.nextExposureId = g.nextExposureId /\ h.lifecycle = g.lifecycle /\ h.routing = g.routing
  BY <1>1 DEF Committed, GameState
<1>3. h \in GameState
  BY <1>1 DEF Committed, GameState
<1> HIDE DEF h
<1>4. Exclusive(h)
  <2>1. \A u \in Tile : InHand(h, u) => InHand(g, u) /\ u \notin T
    BY <1>1, <1>2 DEF InHand, GameState, Sound, Exclusive
  <2>2. \A u \in Tile : InFlight(h, u) => InFlight(g, u) \/ u \in T
    BY <1>1, <1>2 DEF InFlight, GameState
  <2>3. \A u \in T : InHand(g, u)
    BY <1>1 DEF InHand
  <2>4. \A u \in Tile : OnTable(h, u) <=> OnTable(g, u)
    BY <1>2 DEF OnTable
  <2>5. \A r, r2 \in Seat : r # r2 => h.hands[r] \cap h.hands[r2] = {}
    BY <1>1, <1>2 DEF Sound, Exclusive, GameState
  <2>6. \A r \in Seat : T \cap g.inFlight[r] = {}
    BY <1>1, <2>3 DEF Sound, Exclusive, InFlight, GameState
  <2>7. \A r, r2 \in Seat : r # r2 => h.inFlight[r] \cap h.inFlight[r2] = {}
    BY <1>1, <1>2, <2>6 DEF Sound, Exclusive, GameState
  <2> QED BY <1>1, <1>2, <2>1, <2>2, <2>3, <2>4, <2>5, <2>7 DEF Sound, Exclusive
<1>5. BooksBalance(h) /\ IdsFresh(h)
  BY <1>1, <1>2 DEF Sound, BooksBalance, IdsFresh, Live, GameState
<1> QED BY <1>3, <1>4, <1>5 DEF Sound, h

\* Execution moves every committed set to the seat its sender is routed to.
LEMMA ExecuteSound ==
    ASSUME NEW g, Sound(g)
    PROVE  Sound(ExecutePassRound(g))
<1> DEFINE h == ExecutePassRound(g)
           arriving(s) == UNION {g.committed[f] : f \in {p \in Seat : g.routing[p] = s}}
<1>1. g \in GameState /\ BooksBalance(g) /\ Exclusive(g)
  BY DEF Sound
<1>2. /\ h.hands = [s \in Seat |-> g.hands[s] \cup arriving(s)]
      /\ h.inFlight = [s \in Seat |-> IF s \in Participants(g) THEN {} ELSE g.inFlight[s]]
      /\ h.routing = NoRound /\ h.committed = NoTiles
      /\ h.wall = g.wall /\ h.discards = g.discards /\ h.exposures = g.exposures
      /\ h.nextExposureId = g.nextExposureId /\ h.lifecycle = g.lifecycle
  BY <1>1 DEF ExecutePassRound, GameState
<1>3. \A s \in Seat : \A u : u \in arriving(s) <=> \E p \in Seat : g.routing[p] = s /\ u \in g.committed[p]
  OBVIOUS
<1> HIDE DEF arriving
<1>4. h \in GameState
  <2>1. h.hands \in [Seat -> SUBSET Tile] /\ h.inFlight \in [Seat -> SUBSET Tile]
    BY <1>1, <1>2, <1>3 DEF GameState
  <2>2. h.routing \in [Seat -> Seat \cup {NoSeat}] /\ h.committed \in [Seat -> SUBSET Tile]
    BY <1>2 DEF NoRound, NoTiles
  <2> QED BY <1>1, <1>2, <2>1, <2>2 DEF ExecutePassRound, GameState
<1> HIDE DEF h
<1>5. \A p \in Seat : \A u \in g.committed[p] : u \in g.inFlight[p] /\ g.routing[p] # NoSeat
  BY <1>1 DEF BooksBalance
<1>6. Exclusive(h)
  <2>1. \A u \in Tile : InFlight(h, u) =>
            InFlight(g, u) /\ \A p \in Seat : u \notin g.committed[p]
    BY <1>1, <1>2, <1>5 DEF InFlight, Participants, Exclusive
  <2>2. \A u \in Tile : InHand(h, u) =>
            InHand(g, u) \/ (InFlight(g, u) /\ \E p \in Seat : u \in g.committed[p])
    BY <1>1, <1>2, <1>3, <1>5 DEF InHand, InFlight
  <2>3. \A r, r2 \in Seat : r # r2 => arriving(r) \cap arriving(r2) = {}
    BY <1>1, <1>3, <1>5 DEF Exclusive
  <2>4. \A r, r2 \in Seat : arriving(r) \cap g.hands[r2] = {}
    BY <1>1, <1>3, <1>5 DEF Exclusive, InHand, InFlight, GameState
  <2>5. \A r, r2 \in Seat : r # r2 => /\ h.hands[r] \cap h.hands[r2] = {}
                                     /\ h.inFlight[r] \cap h.inFlight[r2] = {}
    BY <1>1, <1>2, <2>3, <2>4 DEF Exclusive
  <2>6. \A u \in Tile : OnTable(h, u) <=> OnTable(g, u)
    BY <1>2 DEF OnTable
  <2> QED BY <1>1, <1>2, <2>1, <2>2, <2>5, <2>6 DEF Exclusive
<1>7. BooksBalance(h) /\ IdsFresh(h)
  BY <1>2 DEF Sound, BooksBalance, IdsFresh, Live, NoTiles
<1> QED BY <1>4, <1>6, <1>7 DEF Sound, h

\* commit_pass, with the execution that the last commitment triggers.
LEMMA CommitSound ==
    ASSUME NEW g, Sound(g), NEW s \in Seat, NEW T, CanCommit(g, s, T)
    PROVE  Sound(CommitPass(g, s, T))
BY CommittedSound, ExecuteSound DEF CommitPass

\* withdraw_pass takes the seat's own tiles back out of flight.
LEMMA WithdrawSound ==
    ASSUME NEW g, Sound(g), NEW s \in Seat, CanWithdrawPass(g, s)
    PROVE  Sound(WithdrawPass(g, s))
<1> DEFINE h == WithdrawPass(g, s)
<1>1. g \in GameState /\ g.committed[s] \in SUBSET Tile /\ g.inFlight[s] = g.committed[s]
  BY DEF Sound, CanWithdrawPass, BooksBalance, GameState
<1>2. /\ h.hands = [g.hands EXCEPT ![s] = @ \cup g.committed[s]]
      /\ h.inFlight = [g.inFlight EXCEPT ![s] = {}]
      /\ h.committed = [g.committed EXCEPT ![s] = {}]
      /\ h.wall = g.wall /\ h.discards = g.discards /\ h.exposures = g.exposures
      /\ h.nextExposureId = g.nextExposureId /\ h.lifecycle = g.lifecycle /\ h.routing = g.routing
  BY <1>1 DEF WithdrawPass, GameState
<1>3. h \in GameState
  BY <1>1 DEF WithdrawPass, GameState
<1> HIDE DEF h
<1>4. Exclusive(h)
  <2>1. \A u \in g.committed[s] : InFlight(g, u)
    BY <1>1 DEF InFlight
  <2>2. \A u \in Tile : InHand(h, u) => InHand(g, u) \/ u \in g.committed[s]
    BY <1>1, <1>2 DEF InHand, GameState
  <2>3. \A u \in Tile : InFlight(h, u) => InFlight(g, u) /\ u \notin g.committed[s]
    BY <1>1, <1>2 DEF InFlight, GameState, Sound, Exclusive
  <2>4. \A u \in Tile : OnTable(h, u) <=> OnTable(g, u)
    BY <1>2 DEF OnTable
  <2>5. \A r, r2 \in Seat : r # r2 => h.inFlight[r] \cap h.inFlight[r2] = {}
    BY <1>1, <1>2 DEF Sound, Exclusive, GameState
  <2>6. \A r \in Seat : g.committed[s] \cap g.hands[r] = {}
    BY <1>1, <2>1 DEF Sound, Exclusive, InHand, GameState
  <2>7. \A r, r2 \in Seat : r # r2 => h.hands[r] \cap h.hands[r2] = {}
    BY <1>1, <1>2, <2>6 DEF Sound, Exclusive, GameState
  <2> QED BY <1>1, <1>2, <2>1, <2>2, <2>3, <2>4, <2>5, <2>7 DEF Sound, Exclusive
<1>5. BooksBalance(h) /\ IdsFresh(h)
  BY <1>1, <1>2 DEF Sound, BooksBalance, IdsFresh, Live, GameState
<1> QED BY <1>3, <1>4, <1>5 DEF Sound, h

\* cancel_pass_round gives every committed seat its own tiles back.
LEMMA CancelSound ==
    ASSUME NEW g, Sound(g)
    PROVE  Sound(CancelPassRound(g))
<1> DEFINE h == CancelPassRound(g)
<1>1. g \in GameState /\ Exclusive(g)
      /\ \A s \in Seat : \A u \in g.committed[s] : u \in g.inFlight[s] /\ u \in Tile
  BY DEF Sound, BooksBalance, GameState
<1>2. /\ h.hands = [s \in Seat |-> g.hands[s] \cup g.committed[s]]
      /\ h.inFlight = [s \in Seat |-> IF g.committed[s] # {} THEN {} ELSE g.inFlight[s]]
      /\ h.routing = NoRound /\ h.committed = NoTiles
      /\ h.wall = g.wall /\ h.discards = g.discards /\ h.exposures = g.exposures
      /\ h.nextExposureId = g.nextExposureId /\ h.lifecycle = g.lifecycle
  BY <1>1 DEF CancelPassRound, GameState
<1>3. h \in GameState
  <2>1. h.hands \in [Seat -> SUBSET Tile] /\ h.inFlight \in [Seat -> SUBSET Tile]
    BY <1>1, <1>2 DEF GameState
  <2>2. h.routing \in [Seat -> Seat \cup {NoSeat}] /\ h.committed \in [Seat -> SUBSET Tile]
    BY <1>2 DEF NoRound, NoTiles
  <2> QED BY <1>1, <1>2, <2>1, <2>2 DEF CancelPassRound, GameState
<1> HIDE DEF h
<1>4. Exclusive(h)
  <2>1. \A s \in Seat : \A u \in g.committed[s] : InFlight(g, u) /\ ~InFlight(h, u)
    BY <1>1, <1>2 DEF InFlight, Exclusive
  <2>2. \A u \in Tile : InHand(h, u) => InHand(g, u) \/ \E s \in Seat : u \in g.committed[s]
    BY <1>1, <1>2 DEF InHand
  <2>3. \A u \in Tile : InFlight(h, u) => InFlight(g, u)
    BY <1>1, <1>2 DEF InFlight
  <2>4. \A u \in Tile : OnTable(h, u) <=> OnTable(g, u)
    BY <1>2 DEF OnTable
  <2>5. \A r, r2 \in Seat : r # r2 => h.inFlight[r] \cap h.inFlight[r2] = {}
    BY <1>1, <1>2 DEF Exclusive
  <2>6. \A r, r2 \in Seat : g.hands[r] \cap g.committed[r2] = {}
    BY <1>1, <2>1 DEF Exclusive, InHand, GameState
  <2>7. \A r, r2 \in Seat : r # r2 => g.committed[r] \cap g.committed[r2] = {}
    BY <1>1 DEF Exclusive
  <2>8. \A r, r2 \in Seat : r # r2 => h.hands[r] \cap h.hands[r2] = {}
    BY <1>1, <1>2, <2>6, <2>7 DEF Exclusive
  <2> QED BY <1>1, <1>2, <2>1, <2>2, <2>3, <2>4, <2>5, <2>8 DEF Exclusive
<1>5. BooksBalance(h) /\ IdsFresh(h)
  BY <1>2 DEF Sound, BooksBalance, IdsFresh, Live, NoTiles
<1> QED BY <1>3, <1>4, <1>5 DEF Sound, h

-----------------------------------------------------------------------------
(* Conclusion, presence and the deal. *)

\* Commands that touch neither tiles nor exposures nor the books.
LEMMA SameTilesSound ==
    ASSUME NEW g, Sound(g), NEW h \in GameState,
           h.wall = g.wall, h.discards = g.discards, h.hands = g.hands,
           h.inFlight = g.inFlight, h.exposures = g.exposures,
           h.nextExposureId = g.nextExposureId, Live(h) => Live(g),
           BooksBalance(h)
    PROVE  Sound(h)
BY DEF Sound, Exclusive, InHand, InFlight, OnTable, IdsFresh

\* declare_mahjong and propose_end_game.
LEMMA BeginProcessSound ==
    ASSUME NEW g, Sound(g), InPlay(g), NEW s \in Seat, NEW kind \in {"declaration", "end_game"}
    PROVE  Sound(BeginProcess(g, s, kind))
<1> DEFINE h == BeginProcess(g, s, kind)
<1>1. h \in GameState
  BY DEF Sound, BeginProcess, GameState
<1>2. /\ h.wall = g.wall /\ h.discards = g.discards /\ h.hands = g.hands
      /\ h.inFlight = g.inFlight /\ h.exposures = g.exposures
      /\ h.nextExposureId = g.nextExposureId /\ h.routing = g.routing /\ h.committed = g.committed
  BY DEF Sound, BeginProcess, GameState
<1> HIDE DEF h
<1>3. BooksBalance(h)
  BY <1>2 DEF Sound, BooksBalance
<1> QED BY <1>1, <1>2, <1>3, SameTilesSound DEF InPlay, Live, h

\* dispute, decline and withdraw_declaration.
LEMMA BackToPlaySound ==
    ASSUME NEW g, Sound(g), g.lifecycle = "concluding"
    PROVE  Sound(BackToPlay(g))
<1> DEFINE h == BackToPlay(g)
<1>1. h \in GameState
  BY DEF Sound, BackToPlay, GameState, NoProcess, NoRound, NoTiles
<1>2. /\ h.wall = g.wall /\ h.discards = g.discards /\ h.hands = g.hands
      /\ h.inFlight = g.inFlight /\ h.exposures = g.exposures
      /\ h.nextExposureId = g.nextExposureId /\ h.committed = NoTiles
  BY DEF Sound, BackToPlay, GameState
<1> HIDE DEF h
<1>3. BooksBalance(h)
  BY <1>2 DEF BooksBalance, NoTiles
<1> QED BY <1>1, <1>2, <1>3, SameTilesSound DEF Live, h

\* The game before any deal.
LEMMA IdleSound == Sound(IdleGame)
<1>1. East \in Seat
  BY SeatAssumption DEF East, Seat
<1>2. IdleGame \in GameState
  BY <1>1 DEF IdleGame, GameState, NoTiles, NoRound, NoProcess, NoCorrection
<1>3. TilesIn(<<>>) = {} /\ Injective(<<>>)
  BY DEF TilesIn, Injective
<1>4. Exclusive(IdleGame)
  BY <1>3 DEF Exclusive, IdleGame, InHand, InFlight, OnTable, NoTiles
<1>5. BooksBalance(IdleGame) /\ IdsFresh(IdleGame)
  BY DEF BooksBalance, IdsFresh, IdleGame, Live, NoTiles
<1> QED BY <1>2, <1>4, <1>5 DEF Sound

\* Multiples of the opening count grow with the seat index.
LEMMA MulMonotone ==
    ASSUME NEW a \in Nat, NEW b \in Nat, a <= b, NEW k \in Nat
    PROVE  a * k \in Nat /\ b * k \in Nat /\ a * k <= b * k
<1>1. b * k = a * k + (b - a) * k /\ b - a \in Nat
  OBVIOUS
<1>2. (b - a) * k \in Nat /\ a * k \in Nat /\ b * k \in Nat
  BY <1>1
<1> QED BY <1>1, <1>2

\* The positions of the wall order that are dealt to seat s.
Dealt(s) == DealtBefore(s) + 1 .. DealtBefore(s) + OpeningCount(s)

\* The opening hands are cut from different parts of the head of the order.
LEMMA DealtApart ==
    ASSUME NEW s \in Seat
    PROVE  /\ Dealt(s) \subseteq 1 .. NumSeats * OpeningHand + 1
           /\ \A r \in Seat : r # s => Dealt(r) \cap Dealt(s) = {}
<1>1. OpeningHand \in Nat /\ NumSeats \in Nat /\ Seat = 1 .. NumSeats
  BY SeatAssumption, DealAssumption DEF Seat
<1>2. ASSUME NEW r \in Seat
      PROVE  /\ (r - 1) * OpeningHand \in Nat
             /\ r * OpeningHand = (r - 1) * OpeningHand + OpeningHand
             /\ r * OpeningHand <= NumSeats * OpeningHand
  <2>1. r \in Nat /\ r - 1 \in Nat /\ r <= NumSeats
    BY <1>1
  <2>2. (r - 1) * OpeningHand \in Nat /\ r * OpeningHand <= NumSeats * OpeningHand
    BY <1>1, <2>1, MulMonotone
  <2>3. r * OpeningHand = (r - 1) * OpeningHand + OpeningHand
    BY <1>1, <2>1
  <2> QED BY <2>2, <2>3
<1>3. ASSUME NEW r \in Seat
      PROVE  Dealt(r) = IF r = 1 THEN 1 .. OpeningHand + 1
                        ELSE (r - 1) * OpeningHand + 2 .. r * OpeningHand + 1
  BY <1>1, <1>2 DEF Dealt, DealtBefore, OpeningCount, East
<1>4. Dealt(s) \subseteq 1 .. NumSeats * OpeningHand + 1
  <2>1. /\ (s - 1) * OpeningHand \in Nat /\ s * OpeningHand \in Nat
        /\ NumSeats * OpeningHand \in Nat /\ s * OpeningHand <= NumSeats * OpeningHand
    BY <1>1, <1>2, MulMonotone
  <2>2. s = 1 => s * OpeningHand = OpeningHand
    BY <1>1
  <2>3. \A i \in Dealt(s) : i \in Int /\ 1 <= i /\ i <= s * OpeningHand + 1
    BY <1>1, <1>3, <2>1, <2>2
  <2> QED BY <2>1, <2>3
<1>5. ASSUME NEW r \in Seat, NEW u \in Seat, r < u PROVE Dealt(r) \cap Dealt(u) = {}
  <2>1. r \in Nat /\ u - 1 \in Nat /\ r <= u - 1 /\ u # 1
    BY <1>1, <1>5
  <2>2. r * OpeningHand <= (u - 1) * OpeningHand
    BY <1>1, <2>1, MulMonotone
  <2>3. r = 1 => r * OpeningHand = OpeningHand
    BY <1>1
  <2>4. r * OpeningHand \in Nat /\ (u - 1) * OpeningHand \in Nat /\ u * OpeningHand \in Nat
    BY <1>1, <1>2, <2>1, MulMonotone
  <2>5. \A i \in Dealt(r) : i <= r * OpeningHand + 1
    BY <1>1, <1>2, <1>3, <2>3, <2>4
  <2>6. \A i \in Dealt(u) : i >= (u - 1) * OpeningHand + 2 /\ i \in Int
    BY <1>1, <1>3, <2>1, <2>4
  <2> QED BY <1>1, <2>2, <2>4, <2>5, <2>6
<1>6. \A r \in Seat : r # s => r < s \/ s < r
  BY <1>1
<1> QED BY <1>4, <1>5, <1>6

\* A wall order of all the tiles is as long as the tile set is large.
LEMMA OrderLength ==
    ASSUME NEW q, IsOrder(q, Tile)
    PROVE  Len(q) = Cardinality(Tile) /\ Len(q) \in Nat /\ DOMAIN q = 1 .. Len(q)
<1>1. q \in Seq(Tile) /\ Len(q) \in Nat /\ DOMAIN q = 1 .. Len(q) /\ q \in [1 .. Len(q) -> Tile]
  BY LenProperties DEF IsOrder
<1>2. q \in Bijection(1 .. Len(q), Tile)
  BY <1>1 DEF IsOrder, Injective, TilesIn, Bijection, Injection, Surjection, IsInjective
<1> QED BY <1>1, <1>2, FS_CountingElements DEF ExistsBijection

\* start_deal: the opening hands and the wall share no tile.
LEMMA DealSound ==
    ASSUME NEW order \in Orders(Tile)
    PROVE  Sound(Deal(order))
<1> DEFINE h == Deal(order)
           n == NumSeats * OpeningHand + 1
<1>1. IsOrder(order, Tile)
  BY OrderAssumption
<1>2. /\ order \in Seq(Tile) /\ DOMAIN order = 1 .. Len(order) /\ Len(order) \in Nat
      /\ n \in Nat /\ n <= Len(order) /\ Injective(order)
  <2>1. NumSeats * OpeningHand \in Nat
    BY SeatAssumption, DealAssumption, MulMonotone
  <2> QED BY <1>1, <2>1, OrderLength, DealAssumption DEF IsOrder
<1>3. /\ h.wall = SubSeq(order, n + 1, Len(order))
      /\ h.hands = [s \in Seat |-> {order[i] : i \in Dealt(s)}]
      /\ h.discards = <<>> /\ h.exposures = {} /\ h.inFlight = NoTiles
      /\ h.committed = NoTiles
  <2>1. n + 1 = NumSeats * OpeningHand + 2
    BY SeatAssumption, DealAssumption, MulMonotone
  <2> HIDE DEF n
  <2> QED BY <2>1 DEF Deal, IdleGame, Dealt
<1> HIDE DEF n
<1>4. /\ h.wall \in Seq(Tile) /\ Injective(h.wall)
      /\ \A u \in TilesIn(h.wall) : \E j \in n + 1 .. Len(order) : u = order[j]
  <2>1. /\ h.wall \in Seq(Tile) /\ DOMAIN h.wall = 1 .. Len(order) - n
        /\ \A i \in 1 .. Len(order) - n : h.wall[i] = order[n + i]
    <3> HIDE DEF h
    <3> QED BY <1>2, <1>3
  <2>2. \A i \in 1 .. Len(order) - n : n + i \in n + 1 .. Len(order) /\ n + i \in DOMAIN order
    BY <1>2
  <2> HIDE DEF h
  <2>3. Injective(h.wall)
    <3> SUFFICES ASSUME NEW i \in 1 .. Len(order) - n, NEW j \in 1 .. Len(order) - n,
                        order[n + i] = order[n + j]
                 PROVE  i = j
      BY <2>1 DEF Injective
    <3>1. n + i = n + j
      BY <1>2, <2>2 DEF Injective
    <3> QED BY <1>2, <3>1
  <2> QED BY <2>1, <2>2, <2>3 DEF TilesIn
<1>5. \A s \in Seat : /\ Dealt(s) \subseteq 1 .. n /\ Dealt(s) \subseteq DOMAIN order
                      /\ \A r \in Seat : r # s => Dealt(r) \cap Dealt(s) = {}
  BY <1>2, DealtApart DEF n
<1>6. h.hands \in [Seat -> SUBSET Tile]
  BY <1>2, <1>3, <1>5
<1>7. h \in GameState
  <2>1. IdleGame \in GameState
    BY IdleSound DEF Sound
  <2>2. h = [IdleGame EXCEPT !.lifecycle = "in_play", !.hands = h.hands, !.wall = h.wall,
                             !.nextExposureId = 1]
    BY <1>3 DEF Deal, Dealt, n
  <2>3. 1 \in Nat
    OBVIOUS
  <2> HIDE DEF h
  <2> QED BY <1>4, <1>6, <2>1, <2>2, <2>3 DEF GameState
<1> HIDE DEF h
<1>8. \A s, r \in Seat : s # r => h.hands[s] \cap h.hands[r] = {}
  BY <1>2, <1>3, <1>5 DEF Injective
<1>9. \A u \in TilesIn(h.wall) : ~InHand(h, u)
  <2> SUFFICES ASSUME NEW u \in TilesIn(h.wall), NEW s \in Seat, u \in h.hands[s] PROVE FALSE
    BY DEF InHand
  <2>1. PICK j \in n + 1 .. Len(order) : u = order[j]
    BY <1>4
  <2>2. PICK i \in Dealt(s) : u = order[i]
    BY <1>3
  <2>3. i \in 1 .. n /\ i \in DOMAIN order /\ j \in DOMAIN order
    BY <1>2, <1>5
  <2>4. i = j
    BY <1>2, <2>1, <2>2, <2>3 DEF Injective
  <2> QED BY <1>2, <2>3, <2>4
<1>10. TilesIn(<<>>) = {} /\ Injective(<<>>)
  BY DEF TilesIn, Injective
<1>11. \A u : ~InFlight(h, u) /\ ~OnTable(h, u)
  BY <1>3 DEF InFlight, OnTable, NoTiles
<1>12. Exclusive(h)
  BY <1>3, <1>4, <1>8, <1>9, <1>10, <1>11 DEF Exclusive, NoTiles
<1>13. BooksBalance(h) /\ IdsFresh(h)
  BY <1>3 DEF BooksBalance, IdsFresh, NoTiles
<1> QED BY <1>7, <1>12, <1>13 DEF Sound, h

\* The purge at conclusion only removes tiles.
LEMMA ConcludeSound ==
    ASSUME NEW g, Sound(g)
    PROVE  Sound(ConcludeGame(g))
<1> DEFINE h == ConcludeGame(g)
<1>1. g \in GameState
  BY DEF Sound
<1>2. /\ h.wall = <<>> /\ h.discards = g.discards /\ h.exposures = g.exposures
      /\ h.hands = [s \in Seat |-> IF s \in g.revealed THEN g.hands[s] ELSE {}]
      /\ h.inFlight = NoTiles /\ h.committed = NoTiles /\ h.lifecycle = "concluded"
  BY DEF ConcludeGame, IdleGame
<1>3. h \in GameState
  <2>1. IdleGame \in GameState
    BY IdleSound DEF Sound
  <2>2. h.hands \in [Seat -> SUBSET Tile]
    BY <1>1, <1>2 DEF GameState
  <2> QED BY <1>1, <1>2, <2>1, <2>2 DEF ConcludeGame, GameState
<1> HIDE DEF h
<1>4. TilesIn(<<>>) = {} /\ Injective(<<>>)
  BY DEF TilesIn, Injective
<1>5. \A u : ~InFlight(h, u)
  BY <1>2 DEF InFlight, NoTiles
<1>6. \A u : InHand(h, u) => InHand(g, u)
  BY <1>2 DEF InHand
<1>7. \A r, r2 \in Seat : r # r2 => /\ h.hands[r] \cap h.hands[r2] = {}
                                   /\ h.inFlight[r] \cap h.inFlight[r2] = {}
  BY <1>2 DEF Sound, Exclusive, NoTiles
<1>8. Exclusive(h)
  BY <1>2, <1>4, <1>5, <1>6, <1>7 DEF Sound, Exclusive, OnTable
<1>9. BooksBalance(h) /\ IdsFresh(h)
  BY <1>2 DEF BooksBalance, IdsFresh, Live, NoTiles
<1> QED BY <1>3, <1>8, <1>9 DEF Sound, h

\* accept, for a declaration as for a proposal to end.
LEMMA AcceptSound ==
    ASSUME NEW g, Sound(g), NEW s \in Seat, NEW kind, CanRespond(g, s, kind)
    PROVE  Sound(Accept(g, s))
<1> DEFINE h == [g EXCEPT !.process.accepted = g.process.accepted \cup {s}]
<1>1. h \in GameState
  BY DEF Sound, GameState
<1>2. /\ h.wall = g.wall /\ h.discards = g.discards /\ h.hands = g.hands
      /\ h.inFlight = g.inFlight /\ h.exposures = g.exposures /\ h.lifecycle = g.lifecycle
      /\ h.nextExposureId = g.nextExposureId /\ h.routing = g.routing /\ h.committed = g.committed
  BY DEF Sound, GameState
<1>3. Accept(g, s) \in {ConcludeGame(g), h}
  BY DEF Accept
<1> HIDE DEF h
<1>4. BooksBalance(h)
  BY <1>2 DEF Sound, BooksBalance
<1>5. Sound(h)
  BY <1>1, <1>2, <1>4, SameTilesSound DEF Live
<1> QED BY <1>3, <1>5, ConcludeSound

\* reveal_hand, request_pause and request_resume.
LEMMA FlagsSound ==
    ASSUME NEW g, Sound(g), NEW s \in Seat
    PROVE  Sound(RevealHand(g, s)) /\ Sound(RequestPause(g, s)) /\ Sound(RequestResume(g, s))
<1>1. ASSUME NEW h \in {RevealHand(g, s), RequestPause(g, s), RequestResume(g, s)}
      PROVE  Sound(h)
  <2>1. h \in GameState
    BY <1>1 DEF Sound, GameState, RevealHand, RequestPause, RequestResume
  <2>2. /\ h.wall = g.wall /\ h.discards = g.discards /\ h.hands = g.hands
        /\ h.inFlight = g.inFlight /\ h.exposures = g.exposures /\ h.lifecycle = g.lifecycle
        /\ h.nextExposureId = g.nextExposureId /\ h.routing = g.routing /\ h.committed = g.committed
    BY <1>1 DEF Sound, GameState, RevealHand, RequestPause, RequestResume
  <2>3. BooksBalance(h)
    BY <2>2 DEF Sound, BooksBalance
  <2> QED BY <2>1, <2>2, <2>3, SameTilesSound DEF Live
<1> QED BY <1>1

=============================================================================
