--------------------------- MODULE ActorTheorems ---------------------------
(***************************************************************************)
(* The host of a game for every tile set, number of seats, shuffle, window *)
(* and length of play: its numbering and its window, what corrections do   *)
(* to the tiles, that what a seat sees, is told and finds on its screen    *)
(* stays right through them, and who has seen the tiles of the wall.       *)
(***************************************************************************)
EXTENDS WallKnowledge, GameTheorems, Screen

\* What TilesKept asks of the present game, of any game state.
Whole(g) == Live(g) => Complete(g) /\ (InPlay(g) \/ ~RoundOpen(g))

-----------------------------------------------------------------------------
(* The correction commands. *)

\* A proposal and an answer touch nothing but the correction.
LEMMA CorrectionOnly ==
    ASSUME NEW g, Sound(g), NEW h \in GameState, \E c : h = [g EXCEPT !.correction = c]
    PROVE  Sound(h) /\ (Whole(g) => Whole(h))
<1>1. /\ h.wall = g.wall /\ h.discards = g.discards /\ h.hands = g.hands
      /\ h.inFlight = g.inFlight /\ h.exposures = g.exposures
      /\ h.nextExposureId = g.nextExposureId /\ h.lifecycle = g.lifecycle
      /\ h.routing = g.routing /\ h.committed = g.committed
  BY DEF Sound, GameState
<1>2. BooksBalance(h)
  BY <1>1 DEF Sound, BooksBalance
<1>3. Sound(h)
  BY <1>1, <1>2, SameTilesSound DEF Live
<1>4. ASSUME Whole(g), Live(h) PROVE Complete(h) /\ (InPlay(h) \/ ~RoundOpen(h))
  <2>1. Complete(g) /\ (InPlay(g) \/ ~RoundOpen(g))
    BY <1>1, <1>4 DEF Whole, Live
  <2>2. FlightRecorded(h)
    BY <1>1, <2>1 DEF Complete, FlightRecorded
  <2> QED BY <1>1, <2>1, <2>2, SameTilesComplete DEF InPlay, RoundOpen
<1> QED BY <1>3, <1>4 DEF Whole

\* What a rewind brings back is as sound and as whole as what was retained: a
\* fresh shuffle has the tiles of the restored wall.
LEMMA ApplySound ==
    ASSUME NEW g, Sound(g), NEW r, Sound(r), InPlay(r), NEW w \in RestoredWalls(g, r)
    PROVE  LET h == ApplyCorrection(g, r, w)
           IN  Sound(h) /\ InPlay(h) /\ h.correction = NoCorrection /\ (Whole(r) => Whole(h))
<1> DEFINE h == ApplyCorrection(g, r, w)
<1>1. r \in GameState /\ g \in GameState /\ Injective(r.wall) /\ r.wall \in Seq(Tile)
  BY DEF Sound, Exclusive, GameState
<1>2. TilesIn(r.wall) \in SUBSET Tile
  BY <1>1 DEF TilesIn
<1>3. w \in Seq(Tile) /\ TilesIn(w) = TilesIn(r.wall) /\ Injective(w)
  <2>1. CASE w = r.wall
    BY <1>1, <2>1
  <2>2. CASE w \in Orders(TilesIn(r.wall))
    <3>1. IsOrder(w, TilesIn(r.wall))
      BY <1>2, <2>2, OrderAssumption
    <3>2. w \in Seq(TilesIn(r.wall)) /\ TilesIn(w) = TilesIn(r.wall) /\ Injective(w)
      BY <3>1 DEF IsOrder
    <3>3. w \in Seq(Tile)
      BY <1>2, <3>2
    <3> QED BY <3>2, <3>3
  <2> QED BY <2>1, <2>2 DEF RestoredWalls
<1>4. h \in GameState
  BY <1>1, <1>3 DEF ApplyCorrection, GameState, NoCorrection
<1>5. /\ h.wall = w /\ h.discards = r.discards /\ h.hands = r.hands
      /\ h.inFlight = r.inFlight /\ h.exposures = r.exposures
      /\ h.nextExposureId = r.nextExposureId /\ h.lifecycle = r.lifecycle
      /\ h.routing = r.routing /\ h.committed = r.committed /\ h.correction = NoCorrection
  BY <1>1 DEF ApplyCorrection, GameState
<1> HIDE DEF h
<1>6. Exclusive(h) /\ BooksBalance(h) /\ IdsFresh(h)
  BY <1>3, <1>5 DEF Sound, Exclusive, BooksBalance, IdsFresh, InHand, InFlight, OnTable, Live
<1>7. ASSUME Whole(r) PROVE Whole(h)
  <2>1. Complete(r)
    BY <1>7 DEF Whole, InPlay, Live
  <2>2. Complete(h)
    BY <1>3, <1>5, <2>1 DEF Complete, Accounted, FlightRecorded, InHand, InFlight, OnTable
  <2> QED BY <1>5, <2>2 DEF Whole, InPlay
<1> QED BY <1>4, <1>5, <1>6, <1>7 DEF Sound, InPlay, h

-----------------------------------------------------------------------------
(* Commands and a pending vote. *)

\* No command starts a vote, puts a tile on the wall or forgets that a round was
\* overrun.
LEMMA CommandShape ==
    ASSUME Inv, Command
    PROVE  /\ game'.correction \in {game.correction, NoCorrection}
           /\ Live(game') => /\ Len(game'.wall) <= Len(game.wall)
                             /\ TilesIn(game'.wall) \subseteq TilesIn(game.wall)
           /\ overran => overran'
<1> DEFINE Shape(h) == /\ h.correction \in {game.correction, NoCorrection}
                       /\ Live(h) => /\ Len(h.wall) <= Len(game.wall)
                                     /\ TilesIn(h.wall) \subseteq TilesIn(game.wall)
<1> USE DEF Play
<1>1. game \in GameState /\ game.wall \in Seq(Tile) /\ Len(game.wall) \in Nat
      /\ Len(game.wall) <= Len(game.wall) /\ overran \in BOOLEAN /\ Injective(game.wall)
  BY DEF Inv, Sound, Exclusive, GameState
<1>2. ASSUME NEW s \in Seat, Draw(s) PROVE Shape(game') /\ overran' = overran
  <2>1. game.wall # <<>>
    BY <1>2 DEF Draw, CanDraw
  <2>2. Len(Tail(game.wall)) <= Len(game.wall)
        /\ Len(SubSeq(game.wall, 1, Len(game.wall) - 1)) <= Len(game.wall)
        /\ TilesIn(Tail(game.wall)) \subseteq TilesIn(game.wall)
        /\ TilesIn(SubSeq(game.wall, 1, Len(game.wall) - 1)) \subseteq TilesIn(game.wall)
    BY <1>1, <2>1, TailTiles, FrontTiles
  <2>3. game'.correction = game.correction
        /\ game'.wall \in {Tail(game.wall), SubSeq(game.wall, 1, Len(game.wall) - 1)}
    BY <1>1, <1>2 DEF Draw, DrawHead, DrawTail, GameState
  <2> QED BY <1>2, <2>2, <2>3 DEF Draw
<1>3. ASSUME NEW s \in Seat,
             Discard(s) \/ Claim(s) \/ Expose(s) \/ Retract(s) \/ Swap(s)
      PROVE  game'.correction = game.correction /\ game'.wall = game.wall /\ overran' = overran
  BY <1>1, <1>3 DEF Discard, DiscardTile, Claim, ClaimDiscard, Expose, ExposeTiles,
                    Retract, RetractExposure, Swap, SwapExposedTile, GameState
<1>4. CASE OpenRound
  BY <1>1, <1>4 DEF OpenRound, OpenPassRound, GameState
<1>5. ASSUME NEW s \in Seat, Commit(s)
      PROVE  game'.correction = game.correction /\ game'.wall = game.wall /\ overran' = overran
  <2>1. \A T : LET c == Committed(game, s, T) IN
          /\ c.correction = game.correction /\ c.wall = game.wall
          /\ ExecutePassRound(c).correction = game.correction
          /\ ExecutePassRound(c).wall = game.wall
    BY <1>1 DEF Committed, ExecutePassRound, GameState
  <2> QED BY <1>5, <2>1 DEF Commit, CommitPass
<1>6. ASSUME NEW s \in Seat, Withdraw(s) \/ Cancel(s)
      PROVE  game'.correction = game.correction /\ game'.wall = game.wall /\ overran' = overran
  BY <1>1, <1>6 DEF Withdraw, WithdrawPass, Cancel, CancelPassRound, GameState
<1>7. ASSUME NEW s \in Seat, WithdrawDeclaration(s) \/ Reveal(s) \/ Pause(s) \/ Resume(s)
      PROVE  game'.correction = game.correction /\ game'.wall = game.wall /\ overran' = overran
  BY <1>1, <1>7 DEF WithdrawDeclaration, BackToPlay, Reveal, RevealHand, Pause, RequestPause,
                    Resume, RequestResume, GameState
<1>8. ASSUME NEW s \in Seat, NEW kind \in Kinds, BeginConclusion(s, kind) \/ RespondRefuse(s, kind)
      PROVE  game'.correction = game.correction /\ game'.wall = game.wall /\ (overran => overran')
  <2>1. CASE BeginConclusion(s, kind)
    BY <1>1, <2>1 DEF BeginConclusion, BeginProcess, GameState
  <2>2. CASE RespondRefuse(s, kind)
    BY <1>1, <2>2 DEF RespondRefuse, BackToPlay, GameState
  <2> QED BY <1>8, <2>1, <2>2
<1>9. ASSUME NEW s \in Seat, NEW kind \in Kinds, RespondAccept(s, kind)
      PROVE  Shape(game') /\ overran' = overran
  <2>1. ConcludeGame(game).correction = NoCorrection /\ ~Live(ConcludeGame(game))
    BY DEF ConcludeGame, IdleGame, Live
  <2>2. \A A : LET h == [game EXCEPT !.process.accepted = A] IN
            h.correction = game.correction /\ h.wall = game.wall
    BY <1>1 DEF GameState
  <2> QED BY <1>1, <1>9, <2>1, <2>2 DEF RespondAccept, Accept
<1> QED BY <1>1, <1>2, <1>3, <1>4, <1>5, <1>6, <1>7, <1>8, <1>9 DEF Command

\* Under a vote a command moves no tile and opens no round; it may end the game.
LEMMA UnderVote ==
    ASSUME Inv, Pending(game), ~RoundOpen(game), Command
    PROVE  \/ game' = ConcludeGame(game)
           \/ /\ UNCHANGED <<game.wall, game.hands, game.discards, game.exposures,
                             game.inFlight, game.turn, game.correction>>
              /\ ~RoundOpen(game')
<1> DEFINE Frozen == /\ UNCHANGED <<game.wall, game.hands, game.discards, game.exposures,
                                    game.inFlight, game.turn, game.correction>>
                     /\ game'.routing \in {game.routing, NoRound}
<1> USE DEF Play
<1>1. game \in GameState
  BY DEF Inv, Sound
<1>2. ~OpenRound
  BY DEF OpenRound, CanOpenRound, Pending
<1>3. \A s \in Seat : ~Draw(s) /\ ~Discard(s) /\ ~Claim(s) /\ ~Expose(s) /\ ~Retract(s) /\ ~Swap(s)
  BY DEF Draw, CanDraw, Discard, CanDiscard, Claim, CanClaim, Expose, CanExpose, Retract,
         CanRetract, Swap, CanSwap, Unblocked, UnblockedLive, Pending
<1>4. \A s \in Seat : ~Commit(s) /\ ~Withdraw(s) /\ ~Cancel(s)
  BY DEF Commit, CanCommit, Withdraw, CanWithdrawPass, Cancel, CanCancelRound, Participants, RoundOpen
<1>5. ASSUME NEW s \in Seat, Reveal(s) \/ Pause(s) \/ Resume(s) PROVE Frozen
  BY <1>1, <1>5 DEF Reveal, RevealHand, Pause, RequestPause, Resume, RequestResume, GameState
<1>6. ASSUME NEW s \in Seat, WithdrawDeclaration(s) PROVE Frozen
  BY <1>1, <1>6 DEF WithdrawDeclaration, BackToPlay, GameState
<1>7. ASSUME NEW s \in Seat, NEW kind \in Kinds, BeginConclusion(s, kind) PROVE Frozen
  BY <1>1, <1>7 DEF BeginConclusion, BeginProcess, GameState
<1>8. ASSUME NEW s \in Seat, NEW kind \in Kinds, RespondRefuse(s, kind) PROVE Frozen
  BY <1>1, <1>8 DEF RespondRefuse, BackToPlay, GameState
<1>9. ASSUME NEW s \in Seat, NEW kind \in Kinds, RespondAccept(s, kind), game' # ConcludeGame(game)
      PROVE  Frozen
  BY <1>1, <1>9 DEF RespondAccept, Accept, GameState
<1>10. Frozen => ~RoundOpen(game')
  BY DEF RoundOpen, NoRound
<1> QED BY <1>2, <1>3, <1>4, <1>5, <1>6, <1>7, <1>8, <1>9, <1>10 DEF Command

-----------------------------------------------------------------------------
(* The invariant. *)

Numbers ==
    /\ seq \in Nat /\ gameSeq \in Nat /\ asked \in Nat
    /\ history \in Seq(Entry) /\ Len(history) <= Window

\* What is retained is as sound as the game, and as whole.
WindowSound ==
    \A i \in DOMAIN history : /\ Sound(history[i].game)
                              /\ ~overran => Whole(history[i].game)

\* A pending proposal is about the past, and denotes what its proposer named,
\* whether or not the named state has tiles; no round is open under it.
VoteSound ==
    Pending(game) =>
        /\ ~RoundOpen(game)
        /\ game.correction.rewindTo <= gameSeq
        /\ \A i \in DOMAIN history :
              history[i].gameSeq = game.correction.rewindTo => history[i].seq = asked

ActorInv == Inv /\ TilesKept /\ Numbers /\ HistoryOrdered /\ WindowSound /\ VoteSound

LEMMA InitActor == ActorInit => ActorInv
<1> SUFFICES ASSUME ActorInit PROVE ActorInv
  OBVIOUS
<1>1. Inv /\ TilesKept
  BY InitInv, InitKept DEF ActorInit
<1>2. /\ seq = 0 /\ gameSeq = 0 /\ asked = 0 /\ history = <<>>
      /\ game.correction = NoCorrection
  BY DEF ActorInit, Init, IdleGame
<1>3. Numbers
  BY <1>2, WindowAssumption DEF Numbers
<1> QED BY <1>1, <1>2, <1>3 DEF ActorInv, HistoryOrdered, WindowSound, VoteSound, Pending

\* What a recorded window is made of: the new entry last, before it old ones in
\* their order.
LEMMA RetainedEntries ==
    ASSUME history \in Seq(Entry), Len(history) <= Window, NEW e \in Entry
    PROVE  /\ Retained(e) \in Seq(Entry) /\ Len(Retained(e)) <= Window
           /\ \E d \in {0, 1} :
                 \A i \in DOMAIN Retained(e) :
                    \/ i = Len(Retained(e)) /\ Retained(e)[i] = e
                    \/ /\ i < Len(Retained(e)) /\ i + d \in DOMAIN history
                       /\ Retained(e)[i] = history[i + d]
<1> DEFINE n == Len(history)
           q == Retained(e)
<1>1. n \in Nat /\ DOMAIN history = 1 .. n /\ Window \in Nat \ {0}
  BY LenProperties, WindowAssumption
<1>2. CASE n < Window
  <2>1. q = Append(history, e)
    BY <1>2 DEF Retained
  <2>2. /\ q \in Seq(Entry) /\ Len(q) = n + 1 /\ q[n + 1] = e
        /\ \A i \in 1 .. n : q[i] = history[i]
    BY <2>1, AppendProperties
  <2>3. DOMAIN q = 1 .. n + 1
    BY <2>2, LenProperties
  <2> HIDE DEF q
  <2>4. \A i \in DOMAIN q : \/ i = Len(q) /\ q[i] = e
                            \/ i < Len(q) /\ i + 0 \in DOMAIN history /\ q[i] = history[i + 0]
    BY <1>1, <2>2, <2>3
  <2> QED BY <1>1, <1>2, <2>2, <2>4 DEF q
<1>3. CASE n >= Window
  <2> DEFINE t == Tail(history)
  <2>1. q = Append(t, e) /\ history # <<>>
    BY <1>1, <1>3 DEF Retained
  <2>2. t \in Seq(Entry) /\ Len(t) = n - 1 /\ \A i \in 1 .. n - 1 : t[i] = history[i + 1]
    BY <2>1, HeadTailProperties
  <2> HIDE DEF t
  <2>3. /\ q \in Seq(Entry) /\ Len(q) = n /\ q[n] = e
        /\ \A i \in 1 .. n - 1 : q[i] = history[i + 1]
    <3>1. /\ q \in Seq(Entry) /\ Len(q) = Len(t) + 1 /\ q[Len(t) + 1] = e
          /\ \A i \in 1 .. Len(t) : q[i] = t[i]
      BY <2>1, <2>2, AppendProperties
    <3> QED BY <1>1, <2>2, <3>1
  <2>4. DOMAIN q = 1 .. n
    BY <2>3, LenProperties
  <2> HIDE DEF q
  <2>5. \A i \in DOMAIN q : \/ i = Len(q) /\ q[i] = e
                            \/ i < Len(q) /\ i + 1 \in DOMAIN history /\ q[i] = history[i + 1]
    BY <1>1, <2>3, <2>4
  <2> QED BY <1>1, <1>3, <2>3, <2>5 DEF q
<1> QED BY <1>1, <1>2, <1>3

\* A step that is numbered and recorded keeps the window in order and sound; what
\* denoted the named state before still does, and the new entry is out of reach.
LEMMA Recording ==
    ASSUME ActorInv, Numbered, Checkpointed, asked' \in Nat,
           Sound(game'), ~overran' => Whole(game') /\ ~overran
    PROVE  /\ Numbers' /\ HistoryOrdered' /\ WindowSound'
           /\ \A c \in Nat :
                 c <= gameSeq
                 /\ (\A i \in DOMAIN history : history[i].gameSeq = c => history[i].seq = asked')
                 => \A i \in DOMAIN history' : history'[i].gameSeq = c => history'[i].seq = asked'
<1> DEFINE e == [seq |-> seq', gameSeq |-> gameSeq', game |-> game']
<1>1. /\ seq \in Nat /\ gameSeq \in Nat /\ seq' = seq + 1 /\ gameSeq' = gameSeq + 1
      /\ history \in Seq(Entry) /\ Len(history) <= Window /\ history' = Retained(e)
  BY DEF ActorInv, Numbers, Numbered, Checkpointed
<1>2. e \in Entry /\ e.seq = seq + 1 /\ e.gameSeq = gameSeq + 1 /\ e.game = game'
  BY <1>1 DEF Entry, Sound
<1> HIDE DEF e
<1>3. /\ history' \in Seq(Entry) /\ Len(history') <= Window
      /\ \E d \in {0, 1} :
           \A i \in DOMAIN history' :
              \/ i = Len(history') /\ history'[i] = e
              \/ /\ i < Len(history') /\ i + d \in DOMAIN history
                 /\ history'[i] = history[i + d]
  BY <1>1, <1>2, RetainedEntries
<1>4. PICK d \in {0, 1} :
           \A i \in DOMAIN history' :
              \/ i = Len(history') /\ history'[i] = e
              \/ /\ i < Len(history') /\ i + d \in DOMAIN history
                 /\ history'[i] = history[i + d]
  BY <1>3
<1>5. /\ DOMAIN history' = 1 .. Len(history') /\ Len(history') \in Nat
      /\ DOMAIN history = 1 .. Len(history) /\ Len(history) \in Nat
  BY <1>1, <1>3, LenProperties
<1>6. /\ \A i \in DOMAIN history : history[i].seq \in Nat /\ history[i].gameSeq \in Nat
      /\ \A i, j \in DOMAIN history : i < j =>
            history[i].seq < history[j].seq /\ history[i].gameSeq < history[j].gameSeq
      /\ \A i \in DOMAIN history : history[i].seq <= seq /\ history[i].gameSeq <= gameSeq
  <2>1. \A i \in DOMAIN history : history[i] \in Entry
    BY <1>1, <1>5
  <2> QED BY <2>1 DEF ActorInv, HistoryOrdered, Entry
<1>7. Numbers'
  BY <1>1, <1>3 DEF Numbers
<1>8. HistoryOrdered'
  <2>1. ASSUME NEW i \in DOMAIN history', NEW j \in DOMAIN history', i < j
        PROVE  history'[i].seq < history'[j].seq /\ history'[i].gameSeq < history'[j].gameSeq
    <3>1. i \in Nat /\ j \in Nat /\ i < Len(history') /\ i + d \in DOMAIN history
          /\ history'[i] = history[i + d]
      BY <1>4, <1>5, <2>1
    <3>2. CASE j = Len(history') /\ history'[j] = e
      BY <1>1, <1>2, <1>6, <3>1, <3>2
    <3>3. CASE j + d \in DOMAIN history /\ history'[j] = history[j + d]
      <4>1. i + d < j + d
        BY <2>1, <3>1
      <4> QED BY <1>6, <3>1, <3>3, <4>1
    <3> QED BY <1>4, <3>2, <3>3
  <2>2. ASSUME NEW i \in DOMAIN history'
        PROVE  history'[i].seq <= seq' /\ history'[i].gameSeq <= gameSeq'
    BY <1>1, <1>2, <1>4, <1>6
  <2> QED BY <2>1, <2>2 DEF HistoryOrdered
<1>9. WindowSound'
  BY <1>2, <1>4 DEF WindowSound, ActorInv
<1>10. ASSUME NEW c \in Nat, c <= gameSeq,
              \A i \in DOMAIN history : history[i].gameSeq = c => history[i].seq = asked',
              NEW i \in DOMAIN history', history'[i].gameSeq = c
       PROVE  history'[i].seq = asked'
  <2>1. history'[i] # e
    BY <1>1, <1>2, <1>10
  <2> QED BY <1>4, <1>10, <2>1
<1> QED BY <1>7, <1>8, <1>9, <1>10
\* A recorded step in which the vote, if any, stays what it was.
LEMMA RecordedKeeps ==
    ASSUME ActorInv, Inv', TilesKept', Numbered, Checkpointed, UNCHANGED asked,
           overran => overran',
           Pending(game') => game'.correction = game.correction /\ ~RoundOpen(game')
    PROVE  ActorInv'
<1>1. /\ Sound(game') /\ asked' \in Nat /\ overran \in BOOLEAN /\ overran' \in BOOLEAN
      /\ game \in GameState
  BY DEF Inv, ActorInv, Numbers, Sound
<1>2. ~overran' => Whole(game') /\ ~overran
  BY DEF TilesKept, Whole
<1>3. /\ Numbers' /\ HistoryOrdered' /\ WindowSound'
      /\ \A c \in Nat :
            c <= gameSeq
            /\ (\A i \in DOMAIN history : history[i].gameSeq = c => history[i].seq = asked')
            => \A i \in DOMAIN history' : history'[i].gameSeq = c => history'[i].seq = asked'
  BY <1>1, <1>2, Recording
<1>4. VoteSound'
  <2> SUFFICES ASSUME Pending(game')
               PROVE  /\ ~RoundOpen(game')
                      /\ game'.correction.rewindTo <= gameSeq'
                      /\ \A i \in DOMAIN history' :
                           history'[i].gameSeq = game'.correction.rewindTo => history'[i].seq = asked'
    BY DEF VoteSound, Pending, RoundOpen
  <2> DEFINE c == game.correction.rewindTo
  <2>1. game'.correction = game.correction /\ ~RoundOpen(game') /\ Pending(game)
    BY DEF Pending
  <2>2. c \in Nat /\ c <= gameSeq
        /\ \A i \in DOMAIN history : history[i].gameSeq = c => history[i].seq = asked'
    BY <1>1, <2>1 DEF ActorInv, VoteSound, GameState
  <2>3. gameSeq \in Nat /\ gameSeq' = gameSeq + 1
    BY DEF ActorInv, Numbers, Numbered
  <2>4. \A i \in DOMAIN history' : history'[i].gameSeq = c => history'[i].seq = asked'
    BY <1>3, <2>2
  <2> QED BY <2>1, <2>2, <2>3, <2>4
<1> QED BY <1>3, <1>4 DEF ActorInv

\* An answer is numbered and not recorded.
LEMMA AnswerKeeps ==
    ASSUME ActorInv, NEW h, Answer(h), Sound(h), ~overran => Whole(h),
           Pending(h) => /\ Pending(game) /\ ~RoundOpen(h)
                         /\ h.correction.rewindTo = game.correction.rewindTo
    PROVE  ActorInv'
<1>1. /\ game' = h /\ overran' = overran /\ history' = history /\ asked' = asked
      /\ seq' = seq + 1 /\ gameSeq' = gameSeq + 1
  BY DEF Answer, Play, Numbered
<1>2. Inv' /\ TilesKept'
  BY <1>1 DEF ActorInv, Inv, TilesKept, Whole
<1>3. Numbers' /\ WindowSound'
  BY <1>1 DEF ActorInv, Numbers, WindowSound
<1>4. seq \in Nat /\ gameSeq \in Nat
      /\ \A i \in DOMAIN history : history[i].seq \in Nat /\ history[i].gameSeq \in Nat
  <2>1. history \in Seq(Entry)
    BY DEF ActorInv, Numbers
  <2>2. \A i \in DOMAIN history : history[i] \in Entry
    BY <2>1
  <2> QED BY <2>2 DEF ActorInv, Numbers, Entry
<1>5. HistoryOrdered'
  BY <1>1, <1>4 DEF ActorInv, HistoryOrdered
<1>6. VoteSound'
  <2> SUFFICES ASSUME Pending(h)
               PROVE  /\ ~RoundOpen(h)
                      /\ h.correction.rewindTo <= gameSeq + 1
                      /\ \A i \in DOMAIN history :
                           history[i].gameSeq = h.correction.rewindTo => history[i].seq = asked
    BY <1>1 DEF VoteSound
  <2>1. game.correction.rewindTo \in Nat
    BY DEF ActorInv, Inv, Sound, GameState
  <2> QED BY <1>4, <2>1 DEF ActorInv, VoteSound
<1> QED BY <1>2, <1>3, <1>5, <1>6 DEF ActorInv

LEMMA DealKeeps ==
    ASSUME ActorInv, ActorDeal
    PROVE  ActorInv'
<1>1. Inv' /\ TilesKept'
  BY NextInv, NextKept DEF ActorInv, ActorDeal, Next
<1> DEFINE e == [seq |-> seq', gameSeq |-> gameSeq', game |-> game']
<1>2. /\ seq' = seq + 1 /\ gameSeq' = 1 /\ history' = <<e>> /\ asked' = asked
      /\ seq \in Nat /\ asked \in Nat
  BY DEF ActorInv, Numbers, ActorDeal
<1>3. e \in Entry /\ e.seq = seq' /\ e.gameSeq = 1 /\ e.game = game' /\ Sound(game')
  BY <1>1, <1>2 DEF Entry, Inv, Sound
<1> HIDE DEF e
<1>4. history' \in Seq(Entry) /\ Len(history') = 1 /\ DOMAIN history' = {1} /\ history'[1] = e
  BY <1>2, <1>3
<1>5. Numbers' /\ HistoryOrdered' /\ WindowSound'
  BY <1>1, <1>2, <1>3, <1>4, WindowAssumption DEF Numbers, HistoryOrdered, WindowSound, TilesKept, Whole
<1>6. game'.correction = NoCorrection
  BY DEF ActorDeal, StartDeal, Deal, IdleGame
<1> QED BY <1>1, <1>5, <1>6 DEF ActorInv, VoteSound, Pending

LEMMA SubmitKeeps ==
    ASSUME ActorInv, Submit
    PROVE  ActorInv'
<1>1. Inv' /\ TilesKept'
  BY NextInv, NextKept DEF ActorInv, Submit, Next
<1>2. overran => overran'
  BY CommandShape DEF ActorInv, Submit
<1>3. ASSUME Pending(game') PROVE game'.correction = game.correction /\ ~RoundOpen(game')
  <2>1. game'.correction = game.correction /\ Pending(game)
    BY <1>3, CommandShape DEF ActorInv, Submit, Pending
  <2>2. game' # ConcludeGame(game)
    BY <1>3 DEF Pending, ConcludeGame, IdleGame
  <2> QED BY <2>1, <2>2, UnderVote DEF ActorInv, VoteSound, Submit
<1> QED BY <1>1, <1>2, <1>3, RecordedKeeps DEF Submit

LEMMA RemarkKeeps ==
    ASSUME ActorInv, Remark
    PROVE  ActorInv'
<1>1. game' = game /\ overran' = overran
  BY DEF Remark, vars
<1>2. Inv' /\ TilesKept'
  BY <1>1 DEF ActorInv, Inv, TilesKept
<1>3. Pending(game') => game'.correction = game.correction /\ ~RoundOpen(game')
  BY <1>1 DEF ActorInv, VoteSound
<1> QED BY <1>1, <1>2, <1>3, RecordedKeeps DEF Remark

LEMMA SeatChangeKeeps ==
    ASSUME ActorInv, SeatChange
    PROVE  ActorInv'
<1>1. /\ game' = game /\ overran' = overran /\ gameSeq' = gameSeq /\ history' = history
      /\ asked' = asked /\ seq' = seq + 1
  BY DEF SeatChange, vars
<1>2. Inv' /\ TilesKept' /\ Numbers' /\ WindowSound' /\ VoteSound'
  BY <1>1 DEF ActorInv, Inv, TilesKept, Numbers, WindowSound, VoteSound
<1>3. seq \in Nat /\ \A i \in DOMAIN history : history[i].seq \in Nat
  <2>1. history \in Seq(Entry)
    BY DEF ActorInv, Numbers
  <2>2. \A i \in DOMAIN history : history[i] \in Entry
    BY <2>1
  <2> QED BY <2>2 DEF ActorInv, Numbers, Entry
<1>4. HistoryOrdered'
  BY <1>1, <1>3 DEF ActorInv, HistoryOrdered
<1> QED BY <1>2, <1>4 DEF ActorInv

LEMMA ProposeKeeps ==
    ASSUME ActorInv, NEW s \in Seat, Propose(s)
    PROVE  ActorInv'
<1>1. PICK k \in DOMAIN history :
        /\ CanPropose(game, gameSeq, history[k].gameSeq, history[1].gameSeq)
        /\ Numbered /\ Play(ProposeCorrection(game, s, history[k].gameSeq))
        /\ Checkpointed /\ asked' = history[k].seq
  BY DEF Propose
<1> DEFINE c == history[k].gameSeq
<1>2. /\ Sound(game) /\ game \in GameState /\ overran \in BOOLEAN /\ (~overran => Whole(game))
      /\ seq \in Nat /\ gameSeq \in Nat /\ history \in Seq(Entry)
      /\ game' = ProposeCorrection(game, s, c) /\ overran' = overran
  BY <1>1 DEF ActorInv, Inv, TilesKept, Whole, Sound, Numbers, Play
<1>3. c \in Nat /\ asked' \in Nat /\ DOMAIN history \subseteq Nat
      /\ \A i \in DOMAIN history : history[i].gameSeq \in Nat
  <2>1. \A i \in DOMAIN history : history[i] \in Entry
    BY <1>2
  <2> QED BY <1>1, <1>2, <2>1, LenProperties DEF Entry
<1>4. game' \in GameState /\ game'.correction.rewindTo = c /\ game'.routing = game.routing
  BY <1>2, <1>3 DEF ProposeCorrection, GameState
<1>5. Sound(game') /\ (~overran => Whole(game'))
  <2>1. \E x : game' = [game EXCEPT !.correction = x]
    BY <1>2 DEF ProposeCorrection
  <2> QED BY <1>2, <1>4, <2>1, CorrectionOnly
<1>6. /\ Numbers' /\ HistoryOrdered' /\ WindowSound'
      /\ \A n \in Nat :
            n <= gameSeq
            /\ (\A i \in DOMAIN history : history[i].gameSeq = n => history[i].seq = asked')
            => \A i \in DOMAIN history' : history'[i].gameSeq = n => history'[i].seq = asked'
  BY <1>1, <1>2, <1>3, <1>5, Recording
<1>7. \A i \in DOMAIN history : history[i].gameSeq = c => history[i].seq = asked'
  <2>1. ASSUME NEW i \in DOMAIN history, history[i].gameSeq = c PROVE i = k
    BY <1>3, <2>1 DEF ActorInv, HistoryOrdered
  <2> QED BY <1>1, <2>1
<1>8. c <= gameSeq /\ ~RoundOpen(game) /\ gameSeq' = gameSeq + 1
  BY <1>1, <1>2, <1>3 DEF CanPropose, Numbered
<1>9. VoteSound'
  <2>1. c <= gameSeq' /\ ~RoundOpen(game')
    BY <1>2, <1>3, <1>4, <1>8 DEF RoundOpen
  <2>2. \A i \in DOMAIN history' : history'[i].gameSeq = c => history'[i].seq = asked'
    BY <1>3, <1>6, <1>7, <1>8
  <2> HIDE DEF c
  <2> QED BY <1>4, <2>1, <2>2 DEF VoteSound, RoundOpen
<1>10. Inv' /\ TilesKept'
  BY <1>2, <1>5 DEF Inv, TilesKept, Whole
<1> QED BY <1>6, <1>9, <1>10 DEF ActorInv

LEMMA AnswersKeep ==
    ASSUME ActorInv, NEW s \in Seat, RespondReject(s) \/ RespondEarly(s)
    PROVE  ActorInv'
<1>1. /\ Sound(game) /\ game \in GameState /\ (~overran => Whole(game)) /\ Pending(game)
      /\ ~RoundOpen(game)
  BY DEF ActorInv, Inv, TilesKept, Whole, Sound, RespondReject, RespondEarly,
         CanRespondCorrection, Pending, VoteSound
<1>2. CASE RespondReject(s)
  <2> DEFINE h == RejectCorrection(game)
  <2>1. h \in GameState /\ h.correction = NoCorrection
    BY <1>1 DEF RejectCorrection, GameState, NoCorrection
  <2>2. \E x : h = [game EXCEPT !.correction = x]
    BY DEF RejectCorrection
  <2>3. Answer(h)
    BY <1>2 DEF RespondReject
  <2> HIDE DEF h
  <2>4. Sound(h) /\ (~overran => Whole(h))
    BY <1>1, <2>1, <2>2, CorrectionOnly
  <2> QED BY <2>1, <2>3, <2>4, AnswerKeeps DEF Pending
<1>3. CASE RespondEarly(s)
  <2> DEFINE h == AcceptCorrection(game, s)
  <2>1. /\ h \in GameState /\ h.routing = game.routing
        /\ h.correction.rewindTo = game.correction.rewindTo
    BY <1>1 DEF AcceptCorrection, GameState
  <2>2. \E x : h = [game EXCEPT !.correction = x]
    <3>1. h = [game EXCEPT !.correction =
                 [game.correction EXCEPT !.accepted = game.correction.accepted \cup {s}]]
      BY DEF AcceptCorrection
    <3> QED BY <3>1
  <2>3. Answer(h)
    BY <1>3 DEF RespondEarly
  <2> HIDE DEF h
  <2>4. Sound(h) /\ (~overran => Whole(h))
    BY <1>1, <2>1, <2>2, CorrectionOnly
  <2>5. ~RoundOpen(h)
    BY <1>1, <2>1 DEF RoundOpen
  <2> QED BY <1>1, <2>1, <2>3, <2>4, <2>5, AnswerKeeps
<1> QED BY <1>2, <1>3

LEMMA RewindKeeps ==
    ASSUME ActorInv, NEW s \in Seat, RespondLast(s)
    PROVE  ActorInv'
<1>1. PICK i \in DOMAIN history : InPlay(history[i].game)
        /\ \E w \in RestoredWalls(game, history[i].game) :
              Answer(ApplyCorrection(game, history[i].game, w))
  BY DEF RespondLast, Targets
<1>2. PICK w \in RestoredWalls(game, history[i].game) :
              Answer(ApplyCorrection(game, history[i].game, w))
  BY <1>1
<1> DEFINE r == history[i].game
           h == ApplyCorrection(game, r, w)
<1>3. Sound(game) /\ Sound(r) /\ (~overran => Whole(r))
  BY DEF ActorInv, Inv, WindowSound
<1>4. Sound(h) /\ h.correction = NoCorrection /\ (Whole(r) => Whole(h))
  BY <1>1, <1>2, <1>3, ApplySound
<1>5. Answer(h)
  BY <1>2
<1> HIDE DEF h, r
<1> QED BY <1>3, <1>4, <1>5, AnswerKeeps DEF Pending

LEMMA NextActor == ActorInv /\ [ActorNext]_actorVars => ActorInv'
<1> SUFFICES ASSUME ActorInv, [ActorNext]_actorVars PROVE ActorInv'
  OBVIOUS
<1>1. CASE UNCHANGED actorVars
  <2>1. game' = game /\ overran' = overran /\ seq' = seq /\ gameSeq' = gameSeq
        /\ history' = history /\ asked' = asked
    BY <1>1 DEF actorVars, vars, hostVars
  <2> QED BY <2>1 DEF ActorInv, Inv, TilesKept, Numbers, HistoryOrdered, WindowSound, VoteSound
<1> QED BY <1>1, DealKeeps, SubmitKeeps, RemarkKeeps, SeatChangeKeeps, ProposeKeeps, AnswersKeep,
           RewindKeeps DEF ActorNext, Correct

\* Every reachable state of the host has the invariant.
THEOREM ActorSound == ActorSpec => []ActorInv
BY InitActor, NextActor, PTL DEF ActorSpec

-----------------------------------------------------------------------------
(* Properties. *)

\* Numbers, window and state are well-formed, and the window within its capacity.
THEOREM ActorTypeCorrect == ActorSpec => []ActorTypeOK
<1>1. ActorInv => ActorTypeOK
  BY DEF ActorInv, Inv, Sound, Numbers, ActorTypeOK, TypeOK
<1> QED BY <1>1, ActorSound, PTL

\* Both numberings of the window increase strictly up to the present.
THEOREM WindowAlwaysOrdered == ActorSpec => []HistoryOrdered
<1>1. ActorInv => HistoryOrdered
  BY DEF ActorInv
<1> QED BY <1>1, ActorSound, PTL

\* What a pending proposal denotes is what its proposer named.
THEOREM ProposalsKeepMeaning == ActorSpec => []TargetsAgree
<1>1. ActorInv => TargetsAgree
  BY DEF ActorInv, VoteSound, TargetsAgree, Targets
<1> QED BY <1>1, ActorSound, PTL

\* Rewinds neither double a tile nor lose one.
THEOREM RewindsConserve == ActorSpec => []RewindConserves
<1>1. ActorInv => RewindConserves
  BY DEF ActorInv, Inv, Sound, TilesKept, Complete, RewindConserves, NoTileTwice,
         ConservedUnlessOverrun
<1> QED BY <1>1, ActorSound, PTL

\* No tile moves under a vote.
THEOREM VotesFreezeTiles == ActorSpec => VoteFreezesTiles
<1>1. ActorInv /\ [ActorNext]_actorVars =>
        [Pending(game) /\ Pending(game)' =>
          UNCHANGED <<game.wall, game.hands, game.discards, game.exposures,
                      game.inFlight, game.turn>>]_actorVars
  <2> SUFFICES ASSUME ActorInv, ActorNext, Pending(game), Pending(game')
               PROVE  UNCHANGED <<game.wall, game.hands, game.discards, game.exposures,
                                  game.inFlight, game.turn>>
    BY DEF Pending
  <2>1. game \in GameState /\ Inv /\ ~RoundOpen(game)
    BY DEF ActorInv, Inv, Sound, VoteSound
  <2>2. CASE ActorDeal
    BY <2>2 DEF ActorDeal, StartDeal, Deal, IdleGame, Pending
  <2>3. CASE Submit
    <3>1. game' # ConcludeGame(game)
      BY DEF Pending, ConcludeGame, IdleGame
    <3> QED BY <2>1, <2>3, <3>1, UnderVote DEF Submit
  <2>4. CASE Remark \/ SeatChange
    BY <2>4 DEF Remark, SeatChange, vars
  <2>5. ASSUME NEW s \in Seat, Propose(s) PROVE FALSE
    BY <2>5 DEF Propose, CanPropose, Pending
  <2>6. ASSUME NEW s \in Seat, RespondReject(s) PROVE FALSE
    BY <2>1, <2>6 DEF RespondReject, Answer, Play, RejectCorrection, Pending, GameState
  <2>7. ASSUME NEW s \in Seat, RespondEarly(s)
        PROVE  UNCHANGED <<game.wall, game.hands, game.discards, game.exposures,
                           game.inFlight, game.turn>>
    BY <2>1, <2>7 DEF RespondEarly, Answer, Play, AcceptCorrection, GameState
  <2>8. ASSUME NEW s \in Seat, RespondLast(s) PROVE FALSE
    <3>1. PICK i \in DOMAIN history : \E w : game' = ApplyCorrection(game, history[i].game, w)
      BY <2>8 DEF RespondLast, Targets, Answer, Play
    <3>2. history[i].game \in GameState
      BY DEF ActorInv, WindowSound, Sound
    <3> QED BY <3>1, <3>2 DEF ApplyCorrection, GameState, Pending
  <2> QED BY <2>2, <2>3, <2>4, <2>5, <2>6, <2>7, <2>8 DEF ActorNext, Correct
<1> QED BY <1>1, ActorSound, PTL DEF ActorSpec, VoteFreezesTiles

\* During a game, tiles return to the wall only as the last of the other seats
\* agrees to a correction.
THEOREM WallNeedsConsent == ActorSpec => WallGrowsOnlyByConsent
<1>1. ActorInv /\ [ActorNext]_actorVars =>
        [Live(game) /\ Live(game)' /\ Len(game.wall') > Len(game.wall) =>
          /\ Pending(game)
          /\ Cardinality(Others(game.correction.proposer) \ game.correction.accepted) = 1]_actorVars
  <2> SUFFICES ASSUME ActorInv, ActorNext, Live(game), Live(game'),
                      Len(game'.wall) > Len(game.wall)
               PROVE  /\ Pending(game)
                      /\ Cardinality(Others(game.correction.proposer) \ game.correction.accepted) = 1
    BY DEF Live
  <2>1. game \in GameState /\ Inv /\ Len(game.wall) \in Nat
    BY DEF ActorInv, Inv, Sound, GameState
  <2>2. game'.wall # game.wall
    BY <2>1
  <2>3. ~ActorDeal
    BY DEF ActorDeal, StartDeal, Live
  <2>4. ~Submit
    <3>1. Sound(game') \/ ~Command
      BY <2>1, NextInv DEF Next, Inv
    <3>2. Sound(game') => Len(game'.wall) \in Nat
      BY DEF Sound, GameState
    <3> QED BY <2>1, <3>1, <3>2, CommandShape DEF Submit
  <2>5. ~Remark /\ ~SeatChange
    BY <2>2 DEF Remark, SeatChange, vars
  <2>6. ASSUME NEW s \in Seat PROVE ~Propose(s) /\ ~RespondReject(s) /\ ~RespondEarly(s)
    BY <2>1, <2>2 DEF Propose, ProposeCorrection, RespondReject, RejectCorrection, RespondEarly,
                      AcceptCorrection, Answer, Play, GameState
  <2>7. PICK s \in Seat : RespondLast(s)
    BY <2>3, <2>4, <2>5, <2>6 DEF ActorNext, Correct
  <2>8. /\ Pending(game) /\ s \in Others(game.correction.proposer) \ game.correction.accepted
        /\ Others(game.correction.proposer) \subseteq game.correction.accepted \cup {s}
    BY <2>7 DEF RespondLast, CanRespondCorrection, CompletesUnanimity, Pending, Others
  <2>9. Others(game.correction.proposer) \ game.correction.accepted = {s}
    BY <2>8
  <2> QED BY <2>8, <2>9, FS_Singleton
<1> QED BY <1>1, ActorSound, PTL DEF ActorSpec, WallGrowsOnlyByConsent

-----------------------------------------------------------------------------
(* What a host shows, tells and saves of a game that corrections may rewind. *)

\* What a step retains is the present state, or was retained before.
LEMMA EntriesFrom ==
    ASSUME ActorInv, ActorInv', history' = history \/ Checkpointed
    PROVE  \A i \in DOMAIN history' :
              \/ history'[i].seq = seq' /\ history'[i].game = game'
              \/ \E j \in DOMAIN history : history'[i] = history[j]
<1>1. CASE history' = history
  BY <1>1
<1>2. CASE Checkpointed
  <2> DEFINE e == [seq |-> seq', gameSeq |-> gameSeq', game |-> game']
  <2>1. history' = Retained(e) /\ e \in Entry /\ e.seq = seq' /\ e.game = game'
    BY <1>2 DEF Checkpointed, ActorInv, Numbers, Inv, Sound, Entry
  <2> HIDE DEF e
  <2>2. history \in Seq(Entry) /\ Len(history) <= Window
    BY DEF ActorInv, Numbers
  <2>3. \E d \in {0, 1} :
           \A i \in DOMAIN history' :
              \/ i = Len(history') /\ history'[i] = e
              \/ /\ i < Len(history') /\ i + d \in DOMAIN history
                 /\ history'[i] = history[i + d]
    BY <2>1, <2>2, RetainedEntries
  <2> QED BY <2>1, <2>3
<1> QED BY <1>1, <1>2

\* The present game and every retained one are in phase.
AllPhased == Phased(game) /\ \A i \in DOMAIN history : Phased(history[i].game)

LEMMA NextAllPhased == ActorInv /\ AllPhased /\ [ActorNext]_actorVars => AllPhased'
<1> SUFFICES ASSUME ActorInv, AllPhased, [ActorNext]_actorVars PROVE AllPhased'
  OBVIOUS
<1>1. Inv /\ game \in GameState /\ ActorInv'
  BY NextActor DEF ActorInv, Inv, Sound
<1>2. CASE UNCHANGED actorVars \/ SeatChange
  <2>1. game' = game /\ history' = history
    BY <1>2 DEF actorVars, vars, hostVars, SeatChange
  <2> QED BY <2>1 DEF AllPhased
<1>3. ASSUME Phased(game'), history' = history \/ Checkpointed PROVE AllPhased'
  <2>1. \A i \in DOMAIN history' :
           \/ history'[i].game = game'
           \/ \E j \in DOMAIN history : history'[i] = history[j]
    BY <1>1, <1>3, EntriesFrom
  <2> QED BY <1>3, <2>1 DEF AllPhased
<1>4. CASE ActorDeal
  <2>1. Phased(game')
    BY <1>1, <1>4, NextPhased DEF AllPhased, ActorDeal, Next
  <2>2. DOMAIN history' = {1} /\ history'[1].game = game'
    BY <1>4 DEF ActorDeal
  <2> QED BY <2>1, <2>2 DEF AllPhased
<1>5. CASE Submit \/ Remark
  <2>1. Phased(game')
    BY <1>1, <1>5, NextPhased DEF AllPhased, Submit, Remark, Next
  <2> QED BY <1>3, <1>5, <2>1 DEF Submit, Remark
<1>6. ASSUME NEW s \in Seat, Propose(s) \/ RespondReject(s) \/ RespondEarly(s)
      PROVE  AllPhased'
  <2>1. /\ InPlay(game) /\ (history' = history \/ Checkpointed)
        /\ \/ \E n : game' = ProposeCorrection(game, s, n)
           \/ game' = RejectCorrection(game)
           \/ game' = AcceptCorrection(game, s)
    BY <1>6 DEF Propose, CanPropose, RespondReject, RespondEarly, CanRespondCorrection, Answer, Play
  <2>2. game'.lifecycle = game.lifecycle /\ game'.process = game.process
    BY <1>1, <2>1 DEF ProposeCorrection, RejectCorrection, AcceptCorrection, GameState
  <2> QED BY <1>3, <2>1, <2>2, SamePhase DEF AllPhased, InPlay, Live
<1>7. ASSUME NEW s \in Seat, RespondLast(s) PROVE AllPhased'
  <2>1. PICK i \in DOMAIN history : InPlay(history[i].game) /\
           \E w \in RestoredWalls(game, history[i].game) :
              history' = history /\ game' = ApplyCorrection(game, history[i].game, w)
    BY <1>7 DEF RespondLast, Targets, Answer, Play
  <2> DEFINE r == history[i].game
  <2>2. r \in GameState /\ InPlay(r) /\ Phased(r)
    BY <2>1 DEF ActorInv, WindowSound, Sound, AllPhased
  <2>3. PICK w : game' = ApplyCorrection(game, r, w)
    BY <2>1
  <2> HIDE DEF r
  <2>4. game'.lifecycle = r.lifecycle /\ game'.process = r.process
    BY <2>2, <2>3 DEF ApplyCorrection, GameState
  <2> QED BY <1>3, <2>1, <2>2, <2>4, SamePhase DEF InPlay, Live
<1> QED BY <1>2, <1>4, <1>5, <1>6, <1>7 DEF ActorNext, Correct

\* Corrections neither show a seat more than it may see nor tell it so.
THEOREM HostConceals == ActorSpec => [](ViewsConceal /\ EventsWithinView)
<1>1. ActorInv => ViewsConceal /\ EventsWithinView
  BY ViewsConcealState, StateTells DEF ActorInv
<1> QED BY <1>1, ActorSound, PTL

\* A game that has been corrected is brought back from its checkpoint as any other.
THEOREM HostBringsBack == ActorSpec => []RestartLosesNothing
<1>1. ActorInit => AllPhased
  BY InitPhased DEF ActorInit, AllPhased
<1>2. ActorSpec => []AllPhased
  BY <1>1, NextAllPhased, ActorSound, PTL DEF ActorSpec
<1>3. ActorInv /\ AllPhased => RestartLosesNothing
  BY StateBroughtBack DEF ActorInv, AllPhased
<1> QED BY <1>2, <1>3, ActorSound, PTL

-----------------------------------------------------------------------------
(* The screen. *)

\* Whatever is put to the vote was put there by a seat, and another seat has yet
\* to answer.
Undecided(g) ==
    /\ g.correction # NoCorrection =>
          /\ g.correction.proposer \in Seat
          /\ \E s \in Others(g.correction.proposer) : s \notin g.correction.accepted
    /\ g.lifecycle = "concluding" =>
          /\ g.process.kind \in Kinds /\ g.process.initiator \in Seat
          /\ \E s \in Others(g.process.initiator) : s \notin g.process.accepted

\* No seat is alone at the table.
LEMMA OthersExist == ASSUME NEW s \in Seat PROVE \E r \in Seat : r \in Others(s)
<1>1. 1 \in Seat /\ 2 \in Seat /\ 1 # 2
  BY SeatAssumption DEF Seat
<1> QED BY <1>1 DEF Others

LEMMA InitUndecided == Init => Undecided(game)
BY DEF Init, IdleGame, Undecided

\* The commands of dealer-core, and the deal.
LEMMA NextUndecided == Inv /\ Undecided(game) /\ [Next]_vars => Undecided(game)'
<1> SUFFICES ASSUME Inv, Undecided(game), [Next]_vars PROVE Undecided(game')
  OBVIOUS
<1> USE DEF Play
<1>1. game \in GameState /\ East \in Seat
  BY SeatAssumption DEF Inv, Sound, East, Seat
<1> DEFINE Asked(g) == g.lifecycle = "concluding" =>
              /\ g.process.kind \in Kinds /\ g.process.initiator \in Seat
              /\ \E s \in Others(g.process.initiator) : s \notin g.process.accepted
<1>2. CASE UNCHANGED vars
  BY <1>2 DEF vars
<1>3. CASE StartDeal
  <2>1. game'.lifecycle = "in_play" /\ game'.correction = NoCorrection
    BY <1>3 DEF StartDeal, Deal, IdleGame
  <2> QED BY <2>1 DEF Undecided
<1>4. CASE Command
  <2>1. game'.correction \in {game.correction, NoCorrection}
    BY <1>4, CommandShape
  <2>2. ASSUME NEW s \in Seat, Quiet(s) PROVE Asked(game')
    BY <1>1, <2>2, QuietStep DEF Undecided
  <2>3. ASSUME NEW s \in Seat, WithdrawDeclaration(s) \/ \E kind \in Kinds : RespondRefuse(s, kind)
        PROVE  Asked(game')
    BY <1>1, <2>3 DEF WithdrawDeclaration, RespondRefuse, BackToPlay, GameState
  <2>4. ASSUME NEW s \in Seat, NEW kind \in Kinds, BeginConclusion(s, kind) PROVE Asked(game')
    <3>1. game'.process = [kind |-> kind, initiator |-> s, accepted |-> {}]
      BY <1>1, <2>4 DEF BeginConclusion, BeginProcess, GameState
    <3> QED BY <3>1, OthersExist
  <2>5. ASSUME NEW s \in Seat, NEW kind \in Kinds, RespondAccept(s, kind) PROVE Asked(game')
    <3>1. CASE game' = ConcludeGame(game)
      BY <3>1 DEF ConcludeGame, IdleGame
    <3>2. CASE /\ ~(Others(game.process.initiator) \subseteq game.process.accepted \cup {s})
               /\ game' = [game EXCEPT !.process.accepted = game.process.accepted \cup {s}]
      <4>1. game.lifecycle = "concluding"
        BY <2>5 DEF RespondAccept, CanRespond
      <4>2. /\ game'.process.kind = game.process.kind
            /\ game'.process.initiator = game.process.initiator
            /\ game'.process.accepted = game.process.accepted \cup {s}
        BY <1>1, <3>2 DEF GameState
      <4> QED BY <3>2, <4>1, <4>2 DEF Undecided
    <3> QED BY <2>5, <3>1, <3>2 DEF RespondAccept, Accept
  <2>6. Asked(game')
    BY <1>1, <1>4, <2>2, <2>3, <2>4, <2>5 DEF Command, Quiet
  <2> QED BY <2>1, <2>6 DEF Undecided, NoCorrection
<1> QED BY <1>2, <1>3, <1>4 DEF Next

\* The host's own steps.
LEMMA ActorUndecided == ActorInv /\ Undecided(game) /\ [ActorNext]_actorVars => Undecided(game)'
<1> SUFFICES ASSUME ActorInv, Undecided(game), [ActorNext]_actorVars PROVE Undecided(game')
  OBVIOUS
<1>1. Inv /\ game \in GameState
  BY DEF ActorInv, Inv, Sound
<1>2. CASE UNCHANGED actorVars \/ Remark \/ SeatChange
  BY <1>2 DEF actorVars, vars, Remark, SeatChange
<1>3. CASE ActorDeal \/ Submit
  BY <1>1, <1>3, NextUndecided DEF ActorDeal, Submit, Next
<1>4. ASSUME NEW s \in Seat, Propose(s) PROVE Undecided(game')
  <2>1. PICK n : InPlay(game) /\ game' = ProposeCorrection(game, s, n)
    BY <1>4 DEF Propose, CanPropose, Play
  <2>2. /\ game'.correction = [proposer |-> s, rewindTo |-> n, accepted |-> {}]
        /\ game'.lifecycle = "in_play"
    BY <1>1, <2>1 DEF ProposeCorrection, InPlay, GameState
  <2> QED BY <2>2, OthersExist DEF Undecided
<1>5. ASSUME NEW s \in Seat, RespondReject(s) PROVE Undecided(game')
  <2>1. game'.correction = NoCorrection /\ game'.lifecycle = "in_play"
    BY <1>1, <1>5 DEF RespondReject, CanRespondCorrection, InPlay, Answer, Play, RejectCorrection,
                      GameState
  <2> QED BY <2>1 DEF Undecided
<1>6. ASSUME NEW s \in Seat, RespondEarly(s) PROVE Undecided(game')
  <2>1. /\ game.correction # NoCorrection
        /\ ~(Others(game.correction.proposer) \subseteq game.correction.accepted \cup {s})
    BY <1>6 DEF RespondEarly, CanRespondCorrection, CompletesUnanimity
  <2>2. game'.lifecycle = "in_play"
    BY <1>1, <1>6 DEF RespondEarly, CanRespondCorrection, InPlay, Answer, Play, AcceptCorrection,
                      GameState
  <2>3. /\ game'.correction.proposer = game.correction.proposer
        /\ game'.correction.accepted = game.correction.accepted \cup {s}
    BY <1>1, <1>6 DEF RespondEarly, Answer, Play, AcceptCorrection, GameState
  <2> QED BY <2>1, <2>2, <2>3 DEF Undecided
<1>7. ASSUME NEW s \in Seat, RespondLast(s) PROVE Undecided(game')
  <2>1. PICK i \in DOMAIN history : InPlay(history[i].game) /\
           \E w \in RestoredWalls(game, history[i].game) :
              game' = ApplyCorrection(game, history[i].game, w)
    BY <1>7 DEF RespondLast, Targets, Answer, Play
  <2>2. Sound(game) /\ Sound(history[i].game)
    BY DEF ActorInv, Inv, WindowSound
  <2>3. game'.correction = NoCorrection /\ InPlay(game')
    BY <2>1, <2>2, ApplySound
  <2> QED BY <2>3 DEF Undecided, InPlay
<1> QED BY <1>2, <1>3, <1>4, <1>5, <1>6, <1>7 DEF ActorNext, Correct

\* What the view says of overlays and votes is so.
LEMMA ViewSays ==
    ASSUME Inv, Undecided(game), NEW s \in Seat
    PROVE  LET v == SeatView(game, s) IN
           /\ v.seat = s /\ v.gameState = game.lifecycle /\ v.turn = game.turn
           /\ v.wallRemaining > 0 <=> game.wall # <<>>
           /\ v.discards = game.discards
           /\ Live(game) => v.ownHand = game.hands[s]
           /\ v.paused <=> game.paused # {}
           /\ v.correction # NoVote <=> game.correction # NoCorrection
           /\ v.passRoundOpen <=> InPlay(game) /\ RoundOpen(game)
           /\ v.passRoundOpen => v.ownCommitment = game.inFlight[s]
           /\ Playing(v) => (Blocked(v) <=> ~Unblocked(game))
           /\ OffersAnswer(v, v.correction) <=>
                 /\ game.correction # NoCorrection
                 /\ s # game.correction.proposer /\ s \notin game.correction.accepted
           /\ OffersAnswer(v, v.declaration) <=> CanRespond(game, s, "declaration")
           /\ OffersAnswer(v, v.endGame) <=> CanRespond(game, s, "end_game")
<1> DEFINE v == SeatView(game, s)
<1>1. /\ game.wall \in Seq(Tile) /\ game.correction.proposer \in Seat \cup {NoSeat}
      /\ NoSeat \notin Seat
  BY SeatAssumption DEF Inv, Sound, GameState, NoSeat, Seat
<1>2. /\ v.seat = s /\ v.gameState = game.lifecycle /\ v.turn = game.turn
      /\ v.wallRemaining = Len(game.wall) /\ v.discards = game.discards
      /\ v.ownHand = (IF Live(game) THEN game.hands[s] ELSE {})
      /\ v.paused = (game.paused # {})
      /\ v.correction = CorrectionVote(game)
      /\ v.declaration = ProcessVote(game, "declaration")
      /\ v.endGame = ProcessVote(game, "end_game")
      /\ v.passRoundOpen = (InPlay(game) /\ RoundOpen(game))
      /\ v.ownCommitment =
            (IF InPlay(game) /\ RoundOpen(game) THEN OwnCommitment(game, s) ELSE {})
  BY DEF SeatView
<1> HIDE DEF v
<1>3. Len(game.wall) > 0 <=> game.wall # <<>>
  BY <1>1
<1>4. /\ CorrectionVote(game).proposer = game.correction.proposer
      /\ CorrectionVote(game).answered = game.correction.accepted
      /\ CorrectionVote(game) # NoVote <=> game.correction # NoCorrection
  <2>1. game.correction = NoCorrection => CorrectionVote(game) = NoVote
    BY DEF CorrectionVote, NoVote, NoCorrection
  <2>2. game.correction # NoCorrection => CorrectionVote(game) # NoVote
    BY <1>1 DEF Undecided, CorrectionVote, NoVote
  <2> QED BY <2>1, <2>2 DEF CorrectionVote
<1>5. ASSUME NEW kind \in Kinds
      PROVE  LET vote == ProcessVote(game, kind) IN
             (vote # NoVote /\ ~(s = vote.proposer \/ s \in vote.answered))
             <=> CanRespond(game, s, kind)
  <2>1. CASE game.lifecycle = "concluding" /\ game.process.kind = kind
    <3>1. /\ ProcessVote(game, kind).proposer = game.process.initiator
          /\ ProcessVote(game, kind).answered = game.process.accepted
      BY <2>1 DEF ProcessVote
    <3>2. ProcessVote(game, kind) # NoVote
      BY <1>1, <2>1, <3>1 DEF Undecided, NoVote
    <3> QED BY <2>1, <3>1, <3>2 DEF CanRespond
  <2>2. CASE ~(game.lifecycle = "concluding" /\ game.process.kind = kind)
    BY <2>2 DEF ProcessVote, CanRespond
  <2> QED BY <2>1, <2>2
<1>6. v.correction # NoVote <=> game.correction # NoCorrection
  BY <1>2, <1>4
<1>7. Playing(v) => (Blocked(v) <=> ~Unblocked(game))
  BY <1>2, <1>6 DEF Playing, Blocked, Unblocked, InPlay
<1>8. OffersAnswer(v, v.correction) <=>
         /\ game.correction # NoCorrection
         /\ s # game.correction.proposer /\ s \notin game.correction.accepted
  BY <1>2, <1>4 DEF OffersAnswer, BandShows
<1>9. /\ OffersAnswer(v, v.declaration) <=> CanRespond(game, s, "declaration")
      /\ OffersAnswer(v, v.endGame) <=> CanRespond(game, s, "end_game")
  BY <1>2, <1>5 DEF OffersAnswer, BandShows, Kinds
<1> QED BY <1>2, <1>3, <1>6, <1>7, <1>8, <1>9 DEF v, OwnCommitment

\* What the screen offers is taken.
LEMMA ScreenTaken ==
    ASSUME Inv, TilesKept, Undecided(game)
    PROVE  OffersAreTaken
<1> SUFFICES ASSUME NEW s \in Seat
             PROVE  LET v == SeatView(game, s) IN
        /\ OffersDraw(v) => CanDraw(game, s)
        /\ \A t \in Tile : OffersDiscard(v, t) => CanDiscard(game, s, t)
        /\ OffersOpenRound(v) => \A r \in RoutingInputs : CanOpenRound(game, r)
        /\ OffersReveal(v) => CanReveal(game)
        /\ OffersDeclare(v) \/ (OffersEnd(v) /\ Playing(v)) => InPlay(game)
        /\ OffersAnswer(v, v.declaration) => CanRespond(game, s, "declaration")
        /\ OffersAnswer(v, v.endGame) => CanRespond(game, s, "end_game")
        /\ OffersPause(v) /\ Live(game) => CanPause(game, s)
        /\ ~overran /\ s \in Participants(game) =>
              /\ OffersWithdraw(v) => CanWithdrawPass(game, s)
              /\ \A T \in Handles :
                    OffersCommit(v, T) /\ ~v.paused => CanCommit(game, s, T)
  BY DEF OffersAreTaken
<1> DEFINE v == SeatView(game, s)
<1>1. /\ v.seat = s /\ v.gameState = game.lifecycle /\ v.turn = game.turn
      /\ v.wallRemaining > 0 <=> game.wall # <<>>
      /\ v.discards = game.discards
      /\ Live(game) => v.ownHand = game.hands[s]
      /\ v.paused <=> game.paused # {}
      /\ v.passRoundOpen <=> InPlay(game) /\ RoundOpen(game)
      /\ v.passRoundOpen => v.ownCommitment = game.inFlight[s]
      /\ Playing(v) => (Blocked(v) <=> ~Unblocked(game))
      /\ OffersAnswer(v, v.declaration) <=> CanRespond(game, s, "declaration")
      /\ OffersAnswer(v, v.endGame) <=> CanRespond(game, s, "end_game")
  BY ViewSays
<1> HIDE DEF v
<1>2. OffersDraw(v) => CanDraw(game, s)
  BY <1>1 DEF OffersDraw, CanDraw, Playing, InPlay
<1>3. \A t \in Tile : OffersDiscard(v, t) => CanDiscard(game, s, t)
  BY <1>1 DEF OffersDiscard, CanDiscard, Playing, InPlay, Live
<1>4. OffersOpenRound(v) => \A r \in RoutingInputs : CanOpenRound(game, r)
  BY <1>1, BoundsAssumption DEF OffersOpenRound, CanOpenRound, Unblocked, Playing, InPlay
<1>5. /\ OffersReveal(v) => CanReveal(game)
      /\ OffersDeclare(v) \/ (OffersEnd(v) /\ Playing(v)) => InPlay(game)
      /\ OffersPause(v) /\ Live(game) => CanPause(game, s)
  BY <1>1 DEF OffersReveal, CanReveal, OnTheTable, Live, OffersDeclare, OffersEnd, Playing, InPlay,
              OffersPause, CanPause
<1>6. ASSUME ~overran, s \in Participants(game)
      PROVE  /\ OffersWithdraw(v) => CanWithdrawPass(game, s)
             /\ \A T \in Handles : OffersCommit(v, T) /\ ~v.paused => CanCommit(game, s, T)
  <2>1. Live(game) => game.inFlight[s] = game.committed[s]
    BY <1>6, FlightIsCommitted
  <2>2. v.passRoundOpen => /\ InPlay(game) /\ RoundOpen(game) /\ v.ownCommitment = game.committed[s]
                           /\ v.ownHand = game.hands[s]
    BY <1>1, <2>1 DEF InPlay, Live
  <2>3. OffersWithdraw(v) => CanWithdrawPass(game, s)
    BY <2>2 DEF OffersWithdraw, CanWithdrawPass
  <2>4. ASSUME NEW T \in Handles, OffersCommit(v, T), ~v.paused PROVE CanCommit(game, s, T)
    BY <1>1, <1>6, <2>2, <2>4 DEF OffersCommit, CanCommit
  <2> QED BY <2>3, <2>4
<1> QED BY <1>1, <1>2, <1>3, <1>4, <1>5, <1>6 DEF v

\* What the dealer would take, the screen offers.
LEMMA ScreenShows ==
    ASSUME Inv, TilesKept, Undecided(game)
    PROVE  NothingAwaitedIsHidden
<1>1. ASSUME NEW s \in Seat
      PROVE  LET v == SeatView(game, s) IN
        /\ CanDraw(game, s) => OffersDraw(v)
        /\ \A t \in Tile : CanDiscard(game, s, t) => OffersDiscard(v, t)
        /\ CanClaim(game) => OffersClaim(v)
        /\ \A T \in Handles : CanExpose(game, s, T) => OffersExpose(v, T)
        /\ \A e \in game.exposures : CanRetract(game, s, e) => OffersRetract(v, e)
        /\ (\E r \in RoutingInputs : CanOpenRound(game, r)) => OffersOpenRound(v)
        /\ ~overran => \A T \in Handles : CanCommit(game, s, T) => OffersCommit(v, T)
        /\ CanWithdrawPass(game, s) => OffersWithdraw(v)
        /\ CanCancelRound(game, s) => OffersCancel(v)
        /\ CanRespond(game, s, "declaration") => OffersAnswer(v, v.declaration)
        /\ CanRespond(game, s, "end_game") => OffersAnswer(v, v.endGame)
        /\ CanRespondCorrection(game, s) => OffersAnswer(v, v.correction)
        /\ CanResume(game, s) => OffersResume(v)
  <2> DEFINE v == SeatView(game, s)
  <2>1. /\ v.seat = s /\ v.gameState = game.lifecycle /\ v.turn = game.turn
        /\ v.wallRemaining > 0 <=> game.wall # <<>>
        /\ v.discards = game.discards
        /\ Live(game) => v.ownHand = game.hands[s]
        /\ v.paused <=> game.paused # {}
        /\ v.passRoundOpen <=> InPlay(game) /\ RoundOpen(game)
        /\ v.passRoundOpen => v.ownCommitment = game.inFlight[s]
        /\ Playing(v) => (Blocked(v) <=> ~Unblocked(game))
        /\ OffersAnswer(v, v.correction) <=>
              /\ game.correction # NoCorrection
              /\ s # game.correction.proposer /\ s \notin game.correction.accepted
        /\ OffersAnswer(v, v.declaration) <=> CanRespond(game, s, "declaration")
        /\ OffersAnswer(v, v.endGame) <=> CanRespond(game, s, "end_game")
    BY ViewSays
  <2> HIDE DEF v
  <2>2. Playing(v) <=> InPlay(game)
    BY <2>1 DEF Playing, InPlay
  <2>3. OnTheTable(v) <=> Live(game)
    BY <2>1 DEF OnTheTable, Live
  <2>4. CanDraw(game, s) => OffersDraw(v)
    BY <2>1, <2>2 DEF OffersDraw, CanDraw
  <2>5. /\ \A t \in Tile : CanDiscard(game, s, t) => OffersDiscard(v, t)
        /\ CanClaim(game) => OffersClaim(v)
    BY <2>1, <2>2 DEF OffersDiscard, CanDiscard, OffersClaim, CanClaim, InPlay, Live
  <2>6. /\ \A T \in Handles : CanExpose(game, s, T) => OffersExpose(v, T)
        /\ \A e \in game.exposures : CanRetract(game, s, e) => OffersRetract(v, e)
    BY <2>1, <2>3 DEF OffersExpose, CanExpose, UnblockedLive, OffersRetract, CanRetract, Handles
  <2>7. (\E r \in RoutingInputs : CanOpenRound(game, r)) => OffersOpenRound(v)
    BY <2>1, <2>2 DEF OffersOpenRound, CanOpenRound, Unblocked
  <2>8. ASSUME ~overran, NEW T \in Handles, CanCommit(game, s, T) PROVE OffersCommit(v, T)
    <3>1. InPlay(game) /\ RoundOpen(game) /\ Live(game)
      BY <2>8 DEF CanCommit, Participants, RoundOpen, InPlay, Live
    <3>2. game.inFlight[s] = {} /\ T # {} /\ T \subseteq game.hands[s]
      BY <2>8, <3>1, FlightIsCommitted DEF CanCommit, Handles
    <3> QED BY <2>1, <3>1, <3>2 DEF OffersCommit
  <2>9. CanWithdrawPass(game, s) => OffersWithdraw(v)
    BY <2>1 DEF OffersWithdraw, CanWithdrawPass, Inv, Sound, BooksBalance
  <2>10. CanCancelRound(game, s) => OffersCancel(v)
    BY <2>1 DEF OffersCancel, CanCancelRound, Participants, RoundOpen
  <2>11. CanRespondCorrection(game, s) => OffersAnswer(v, v.correction)
    BY <2>1 DEF CanRespondCorrection
  <2>12. CanResume(game, s) => OffersResume(v)
    BY <2>1 DEF CanResume, OffersResume, Live
  <2> QED BY <2>1, <2>4, <2>5, <2>6, <2>7, <2>8, <2>9, <2>10, <2>11, <2>12 DEF v
<1>2. ASSUME InPlay(game), \E s \in Seat : ~OffersCorrection(SeatView(game, s))
      PROVE  \E s \in Seat : LET v == SeatView(game, s) IN OffersAnswer(v, v.correction)
  <2>1. game.correction # NoCorrection
    BY <1>2, ViewSays DEF OffersCorrection, Playing, InPlay
  <2>2. PICK s \in Others(game.correction.proposer) : s \notin game.correction.accepted
    BY <2>1 DEF Undecided
  <2>3. s \in Seat /\ s # game.correction.proposer
    BY DEF Others
  <2> QED BY <2>1, <2>2, <2>3, ViewSays
<1>3. ASSUME game.lifecycle = "concluding"
      PROVE  \E s \in Seat : LET v == SeatView(game, s) IN
                OffersAnswer(v, v.declaration) \/ OffersAnswer(v, v.endGame)
  <2>1. PICK s \in Others(game.process.initiator) : s \notin game.process.accepted
    BY <1>3 DEF Undecided
  <2>2. s \in Seat /\ s # game.process.initiator /\ game.process.kind \in Kinds
    BY <1>3 DEF Others, Undecided
  <2>3. CanRespond(game, s, "declaration") \/ CanRespond(game, s, "end_game")
    BY <1>3, <2>1, <2>2 DEF CanRespond, Kinds
  <2> QED BY <2>2, <2>3, ViewSays
<1> QED BY <1>1, <1>2, <1>3, Zenon DEF NothingAwaitedIsHidden

\* A game without corrections: what the screen offers is taken, whatever is
\* paused, passed or put to the vote.
THEOREM OffersAlwaysTaken == Spec => []OffersAreTaken
<1>1. Inv /\ TilesKept /\ Undecided(game) => OffersAreTaken
  BY ScreenTaken
<1>2. Spec => [](Inv /\ TilesKept)
  BY AlwaysSound, InitKept, NextKept, PTL DEF Spec
<1>3. Spec => []Undecided(game)
  BY InitUndecided, NextUndecided, AlwaysSound, PTL DEF Spec
<1> QED BY <1>1, <1>2, <1>3, PTL

\* A game with corrections: nothing that the table waits for is hidden, and what
\* is offered is taken there too.
THEOREM NothingEverHidden == ActorSpec => [](NothingAwaitedIsHidden /\ OffersAreTaken)
<1>1. ActorInv /\ Undecided(game) => NothingAwaitedIsHidden /\ OffersAreTaken
  BY ScreenTaken, ScreenShows DEF ActorInv
<1>2. ActorInit => Undecided(game)
  BY InitUndecided DEF ActorInit
<1>3. ActorSpec => []Undecided(game)
  BY <1>2, ActorUndecided, ActorSound, PTL DEF ActorSpec
<1> QED BY <1>1, <1>3, ActorSound, PTL

-----------------------------------------------------------------------------
(* Who has seen the tiles of the wall. *)

\* Different tiles in a row are as many as the row is long.
LEMMA DistinctTiles ==
    ASSUME NEW q \in Seq(Tile), Injective(q)
    PROVE  IsFiniteSet(TilesIn(q)) /\ Cardinality(TilesIn(q)) = Len(q)
<1> DEFINE n == Len(q)
           f == [i \in 1 .. n |-> q[i]]
<1>1. n \in Nat /\ DOMAIN q = 1 .. n
  BY LenProperties
<1>2. f \in [1 .. n -> TilesIn(q)] /\ \A i \in 1 .. n : f[i] = q[i]
  BY <1>1 DEF TilesIn
<1>3. \A i, j \in 1 .. n : f[i] = f[j] => i = j
  BY <1>1, <1>2 DEF Injective
<1>4. \A t \in TilesIn(q) : \E i \in 1 .. n : f[i] = t
  BY <1>1, <1>2 DEF TilesIn
<1> HIDE DEF f, n
<1>5. f \in Bijection(1 .. n, TilesIn(q))
  <2>1. f \in Injection(1 .. n, TilesIn(q))
    BY <1>2, <1>3, Zenon DEF Injection, IsInjective
  <2>2. f \in Surjection(1 .. n, TilesIn(q))
    BY <1>2, <1>4, Zenon DEF Surjection
  <2> QED BY <2>1, <2>2 DEF Bijection
<1>6. ExistsBijection(1 .. n, TilesIn(q))
  BY <1>5 DEF ExistsBijection
<1> QED BY <1>1, <1>6, FS_CountingElements, FS_NatBijection DEF n

\* Every command but the deal is of a live game.
LEMMA CommandLive == ASSUME Inv, Command PROVE Live(game)
<1>1. game \in GameState /\ East \in Seat
  BY SeatAssumption DEF Inv, Sound, East, Seat
<1>2. ASSUME NEW s \in Seat, Quiet(s) PROVE Live(game)
  BY <1>1, <1>2, QuietStep
<1>3. ASSUME NEW s \in Seat, WithdrawDeclaration(s) PROVE Live(game)
  BY <1>3 DEF WithdrawDeclaration, CanWithdrawDeclaration, Live
<1>4. ASSUME NEW s \in Seat, NEW kind \in Kinds,
             BeginConclusion(s, kind) \/ RespondAccept(s, kind) \/ RespondRefuse(s, kind)
      PROVE  Live(game)
  BY <1>4 DEF BeginConclusion, RespondAccept, RespondRefuse, CanRespond, InPlay, Live
<1> QED BY <1>1, <1>2, <1>3, <1>4 DEF Command, Quiet

\* Each submission has a shuffle, the present one included.
ShufflesNoted ==
    /\ shuffles \in Nat /\ rewinds \in Nat
    /\ shuffleOf \in Seq(Nat) /\ Len(shuffleOf) = seq
    /\ Shuffle <= shuffles
    /\ \A p \in drawn : p[1] \in Nat /\ p[1] <= shuffles
    /\ \A i \in DOMAIN history : history[i].seq # 0 /\ shuffleOf[history[i].seq] <= shuffles

\* Until the first rewind the wall only loses tiles, and its order never changes.
WallsShrink ==
    rewinds = 0 /\ Live(game) =>
        \A i \in DOMAIN history : Live(history[i].game) =>
            /\ TilesIn(game.wall) \subseteq TilesIn(history[i].game.wall)
            /\ shuffleOf[history[i].seq] = Shuffle

KnowInv == ActorInv /\ ShufflesNoted /\ WallsShrink /\ FirstRewindUnseen

LEMMA InitKnow == KnowInit => KnowInv
<1> SUFFICES ASSUME KnowInit PROVE KnowInv
  OBVIOUS
<1>1. ActorInv
  BY InitActor DEF KnowInit
<1>2. /\ seq = 0 /\ history = <<>> /\ shuffles = 0 /\ shuffleOf = <<>> /\ drawn = {}
      /\ rewinds = 0 /\ ~Live(game)
  BY DEF KnowInit, ActorInit, Init, IdleGame, Live
<1>3. DOMAIN history = {} /\ shuffleOf \in Seq(Nat) /\ Len(shuffleOf) = 0
  BY <1>2
<1> QED BY <1>1, <1>2, <1>3 DEF KnowInv, ShufflesNoted, WallsShrink, FirstRewindUnseen, Shuffle

\* What the watching adds constrains nothing.
LEMMA KnowStepIsActorStep ==
    ASSUME [KnowNext]_<<actorVars, knowledge>>
    PROVE  [ActorNext]_actorVars
BY DEF KnowNext, KnowDeal, KnowPlay, KnowQuiet, KnowRewind, ActorNext, Correct, actorVars

\* Noting a shuffle leaves those noted before.
LEMMA NotedShuffle ==
    ASSUME seq \in Nat, seq' = seq + 1, shuffleOf \in Seq(Nat), Len(shuffleOf) = seq,
           NEW x \in Nat, Noted(x)
    PROVE  /\ shuffleOf' \in Seq(Nat) /\ Len(shuffleOf') = seq' /\ Shuffle' = x
           /\ \A i \in 1 .. seq : shuffleOf'[i] = shuffleOf[i]
<1>1. shuffleOf' = Append(shuffleOf, x)
  BY DEF Noted
<1>2. /\ shuffleOf' \in Seq(Nat) /\ Len(shuffleOf') = seq + 1 /\ shuffleOf'[seq + 1] = x
      /\ \A i \in 1 .. seq : shuffleOf'[i] = shuffleOf[i]
  BY <1>1, AppendProperties
<1> QED BY <1>2 DEF Shuffle

\* The entries of the window are of the past, and have a shuffle.
LEMMA EntriesPast ==
    ASSUME KnowInv
    PROVE  /\ seq \in Nat /\ Shuffle \in Nat
           /\ \A i \in DOMAIN history : history[i].seq \in 1 .. seq
           /\ \A i \in DOMAIN history : shuffleOf[history[i].seq] \in Nat
<1>1. /\ seq \in Nat /\ history \in Seq(Entry)
      /\ \A i \in DOMAIN history : history[i].seq <= seq /\ history[i].seq # 0
      /\ shuffleOf \in Seq(Nat) /\ Len(shuffleOf) = seq
  BY DEF KnowInv, ActorInv, Numbers, HistoryOrdered, ShufflesNoted
<1>2. \A i \in DOMAIN history : history[i].seq \in Nat
  <2>1. \A i \in DOMAIN history : history[i] \in Entry
    BY <1>1
  <2> QED BY <2>1 DEF Entry
<1>3. \A i \in 1 .. seq : shuffleOf[i] \in Nat
  BY <1>1, LenProperties
<1> QED BY <1>1, <1>2, <1>3 DEF Shuffle

\* A step that shuffles nothing and puts nothing back on the wall, recorded or not.
LEMMA SameShuffle ==
    ASSUME KnowInv, ActorInv', seq' = seq + 1, Noted(Shuffle),
           shuffles' = shuffles, rewinds' = rewinds,
           history' = history \/ Checkpointed,
           Live(game') => Live(game) /\ TilesIn(game'.wall) \subseteq TilesIn(game.wall),
           \A p \in drawn' : p \in drawn \/ p[1] = Shuffle,
           FirstRewindUnseen'
    PROVE  KnowInv'
<1>1. /\ seq \in Nat /\ Shuffle \in Nat
      /\ \A i \in DOMAIN history : history[i].seq \in 1 .. seq
      /\ \A i \in DOMAIN history : shuffleOf[history[i].seq] \in Nat
  BY EntriesPast
<1>2. /\ shuffleOf' \in Seq(Nat) /\ Len(shuffleOf') = seq' /\ Shuffle' = Shuffle
      /\ \A i \in 1 .. seq : shuffleOf'[i] = shuffleOf[i]
  BY <1>1, NotedShuffle DEF KnowInv, ShufflesNoted
<1>3. \A i \in DOMAIN history' :
         \/ history'[i].seq = seq' /\ history'[i].game = game'
         \/ \E j \in DOMAIN history : history'[i] = history[j]
  BY EntriesFrom DEF KnowInv
<1>4. shuffleOf'[seq'] = Shuffle'
  BY <1>1, <1>2 DEF Shuffle
<1>5. ShufflesNoted'
  <2>1. \A i \in DOMAIN history' : history'[i].seq # 0 /\ shuffleOf'[history'[i].seq] <= shuffles
    BY <1>1, <1>2, <1>3, <1>4 DEF KnowInv, ShufflesNoted
  <2>2. \A p \in drawn' : p[1] \in Nat /\ p[1] <= shuffles
    BY <1>1 DEF KnowInv, ShufflesNoted
  <2> QED BY <1>1, <1>2, <2>1, <2>2 DEF KnowInv, ShufflesNoted
<1>6. WallsShrink'
  <2> SUFFICES ASSUME rewinds = 0, Live(game'), NEW i \in DOMAIN history', Live(history'[i].game)
               PROVE  /\ TilesIn(game'.wall) \subseteq TilesIn(history'[i].game.wall)
                      /\ shuffleOf'[history'[i].seq] = Shuffle'
    BY DEF WallsShrink
  <2>1. CASE history'[i].seq = seq' /\ history'[i].game = game'
    BY <1>4, <2>1
  <2>2. CASE \E j \in DOMAIN history : history'[i] = history[j]
    <3>1. PICK j \in DOMAIN history : history'[i] = history[j]
      BY <2>2
    <3>2. /\ TilesIn(game.wall) \subseteq TilesIn(history[j].game.wall)
          /\ shuffleOf[history[j].seq] = Shuffle
      BY <3>1 DEF KnowInv, WallsShrink
    <3> QED BY <1>1, <1>2, <3>1, <3>2
  <2> QED BY <1>3, <2>1, <2>2
<1> QED BY <1>5, <1>6 DEF KnowInv

LEMMA KnowDealKeeps ==
    ASSUME KnowInv, KnowDeal
    PROVE  KnowInv'
<1>1. ActorInv'
  BY DealKeeps DEF KnowInv, KnowDeal
<1>2. /\ seq \in Nat /\ seq' = seq + 1 /\ shuffles' = 1 /\ rewinds' = 0 /\ drawn' = {}
      /\ history' = <<[seq |-> seq', gameSeq |-> gameSeq', game |-> game']>>
  BY EntriesPast DEF KnowDeal, ActorDeal
<1>3. /\ DOMAIN history' = {1} /\ history'[1].seq = seq' /\ history'[1].game = game'
  BY <1>2
<1>4. /\ shuffleOf' \in Seq(Nat) /\ Len(shuffleOf') = seq' /\ Shuffle' = 1
  BY <1>2, NotedShuffle DEF KnowInv, ShufflesNoted, KnowDeal
<1>5. shuffleOf'[seq'] = Shuffle'
  BY <1>2 DEF Shuffle
<1> QED BY <1>1, <1>2, <1>3, <1>4, <1>5
        DEF KnowInv, ShufflesNoted, WallsShrink, FirstRewindUnseen

LEMMA KnowPlayKeeps ==
    ASSUME KnowInv, KnowPlay
    PROVE  KnowInv'
<1>1. ActorInv' /\ Inv
  BY SubmitKeeps DEF KnowInv, ActorInv, KnowPlay
<1>2. /\ Command /\ Checkpointed /\ seq' = seq + 1 /\ Noted(Shuffle)
      /\ shuffles' = shuffles /\ rewinds' = rewinds
      /\ drawn' = IF Live(game')
                  THEN drawn \cup {<<Shuffle, t>> : t \in TilesIn(game.wall) \ TilesIn(game'.wall)}
                  ELSE drawn
  BY DEF KnowPlay, Submit, Numbered, Live
<1>3. Live(game') => Live(game) /\ TilesIn(game'.wall) \subseteq TilesIn(game.wall)
  BY <1>1, <1>2, CommandLive, CommandShape
<1>4. \A p \in drawn' : p \in drawn \/ p[1] = Shuffle
  BY <1>2
<1>5. Shuffle' = Shuffle
  BY <1>2, EntriesPast, NotedShuffle DEF KnowInv, ShufflesNoted
<1>6. FirstRewindUnseen'
  <2> SUFFICES ASSUME Live(game'), rewinds <= 1, NEW t \in TilesIn(game'.wall)
               PROVE  <<Shuffle, t>> \notin drawn'
    BY <1>2, <1>5 DEF FirstRewindUnseen, Live
  <2>1. <<Shuffle, t>> \notin drawn
    BY <1>3 DEF KnowInv, FirstRewindUnseen
  <2> QED BY <1>2, <2>1
<1> QED BY <1>1, <1>2, <1>3, <1>4, <1>6, SameShuffle

LEMMA KnowQuietKeeps ==
    ASSUME KnowInv, KnowQuiet
    PROVE  KnowInv'
<1>1. /\ Noted(Shuffle) /\ shuffles' = shuffles /\ drawn' = drawn /\ rewinds' = rewinds
      /\ ActorInv /\ game \in GameState
  BY DEF KnowQuiet, KnowInv, ActorInv, Inv, Sound
<1>2. /\ ActorInv' /\ seq' = seq + 1 /\ (history' = history \/ Checkpointed)
      /\ game'.wall = game.wall /\ game'.lifecycle = game.lifecycle
  <2>1. CASE Remark \/ SeatChange
    BY <1>1, <2>1, RemarkKeeps, SeatChangeKeeps DEF Remark, SeatChange, Numbered, vars
  <2>2. ASSUME NEW s \in Seat, Propose(s)
        PROVE  /\ ActorInv' /\ seq' = seq + 1 /\ Checkpointed
               /\ game'.wall = game.wall /\ game'.lifecycle = game.lifecycle
    <3>1. \E n : seq' = seq + 1 /\ Checkpointed /\ game' = ProposeCorrection(game, s, n)
      BY <2>2 DEF Propose, Numbered, Play
    <3> QED BY <1>1, <2>2, <3>1, ProposeKeeps DEF ProposeCorrection, GameState
  <2>3. ASSUME NEW s \in Seat, RespondReject(s) \/ RespondEarly(s)
        PROVE  /\ ActorInv' /\ seq' = seq + 1 /\ history' = history
               /\ game'.wall = game.wall /\ game'.lifecycle = game.lifecycle
    <3>1. /\ seq' = seq + 1 /\ history' = history
          /\ game' = RejectCorrection(game) \/ game' = AcceptCorrection(game, s)
      BY <2>3 DEF RespondReject, RespondEarly, Answer, Numbered, Play
    <3> QED BY <1>1, <2>3, <3>1, AnswersKeep DEF RejectCorrection, AcceptCorrection, GameState
  <2> QED BY <2>1, <2>2, <2>3 DEF KnowQuiet
<1>3. Shuffle' = Shuffle
  BY <1>1, <1>2, EntriesPast, NotedShuffle DEF KnowInv, ShufflesNoted
<1>4. FirstRewindUnseen'
  BY <1>1, <1>2, <1>3 DEF KnowInv, FirstRewindUnseen, Live
<1> QED BY <1>1, <1>2, <1>4, SameShuffle DEF Live

\* The step that rewinds: a wall that gains tiles is shuffled; one that does not is
\* the present wall, up to the order it already had.
LEMMA KnowRewindKeeps ==
    ASSUME KnowInv, KnowRewind
    PROVE  KnowInv'
<1>1. PICK s \in Seat : RespondLast(s)
  BY DEF KnowRewind
<1>2. PICK k \in Targets :
         /\ InPlay(history[k].game)
         /\ \E w \in RestoredWalls(game, history[k].game) :
               Answer(ApplyCorrection(game, history[k].game, w))
  BY <1>1 DEF RespondLast
<1> DEFINE r == history[k].game
<1>3. PICK w \in RestoredWalls(game, r) : Answer(ApplyCorrection(game, r, w))
  BY <1>2
<1>4. PICK i \in DOMAIN history :
         /\ history[i].seq = asked
         /\ IF CrossesWallDraw(game, history[i].game)
            THEN shuffles' = shuffles + 1 /\ Noted(shuffles + 1)
            ELSE UNCHANGED shuffles /\ Noted(shuffleOf[asked])
  BY DEF KnowRewind
<1>5. /\ k \in DOMAIN history /\ history[k].gameSeq = game.correction.rewindTo
      /\ Pending(game) /\ InPlay(game)
  BY <1>1, <1>2 DEF Targets, RespondLast, CanRespondCorrection, Pending
<1>6. /\ seq \in Nat /\ Shuffle \in Nat
      /\ \A j \in DOMAIN history : history[j].seq \in 1 .. seq
      /\ \A j \in DOMAIN history : shuffleOf[history[j].seq] \in Nat
      /\ DOMAIN history \subseteq Nat
  <2>1. history \in Seq(Entry)
    BY DEF KnowInv, ActorInv, Numbers
  <2> QED BY <2>1, EntriesPast, LenProperties
<1>7. i = k /\ history[k].seq = asked
  <2>1. history[k].seq = asked
    BY <1>5 DEF KnowInv, ActorInv, VoteSound
  <2>2. history[i].seq = history[k].seq /\ i \in Nat /\ k \in Nat
    BY <1>4, <1>5, <1>6, <2>1
  <2>3. \A a, b \in DOMAIN history : a < b => history[a].seq < history[b].seq
    BY DEF KnowInv, ActorInv, HistoryOrdered
  <2>4. ~(i < k) /\ ~(k < i)
    BY <1>4, <1>5, <1>6, <2>2, <2>3
  <2> QED BY <2>1, <2>2, <2>4
<1>8. /\ seq' = seq + 1 /\ history' = history /\ drawn' = drawn /\ rewinds' = rewinds + 1
      /\ game' = ApplyCorrection(game, r, w)
      /\ rewinds \in Nat /\ shuffles \in Nat /\ Shuffle <= shuffles
  BY <1>3 DEF KnowRewind, Answer, Numbered, Play, KnowInv, ShufflesNoted
<1>9. ActorInv'
  BY <1>1, RewindKeeps DEF KnowInv
<1>10. Sound(r) /\ Sound(game) /\ game'.wall = w
  <2>1. Sound(r) /\ Sound(game)
    BY <1>5 DEF KnowInv, ActorInv, WindowSound, Inv
  <2> QED BY <1>8, <2>1 DEF Sound, ApplyCorrection, GameState
<1>11. WallsShrink'
  BY <1>8 DEF WallsShrink
<1>12. CASE CrossesWallDraw(game, r)
  <2>1. /\ shuffles' = shuffles + 1 /\ shuffleOf' \in Seq(Nat) /\ Len(shuffleOf') = seq'
        /\ Shuffle' = shuffles + 1 /\ \A j \in 1 .. seq : shuffleOf'[j] = shuffleOf[j]
    BY <1>4, <1>6, <1>7, <1>8, <1>12, NotedShuffle DEF KnowInv, ShufflesNoted
  <2>2. \A p \in drawn : p[1] \in Nat /\ p[1] <= shuffles
    BY DEF KnowInv, ShufflesNoted
  <2>3. \A j \in DOMAIN history : shuffleOf'[history[j].seq] <= shuffles + 1 /\ history[j].seq # 0
    BY <1>6, <1>8, <2>1 DEF KnowInv, ShufflesNoted
  <2>4. ShufflesNoted'
    BY <1>8, <2>1, <2>2, <2>3 DEF ShufflesNoted
  <2>5. FirstRewindUnseen'
    <3>1. \A t : <<shuffles + 1, t>> \notin drawn
      BY <1>8, <2>2
    <3> QED BY <1>8, <2>1, <3>1 DEF FirstRewindUnseen
  <2> QED BY <1>9, <1>11, <2>4, <2>5 DEF KnowInv
<1>13. CASE ~CrossesWallDraw(game, r)
  <2>1. /\ shuffles' = shuffles /\ shuffleOf' \in Seq(Nat) /\ Len(shuffleOf') = seq'
        /\ Shuffle' = shuffleOf[history[k].seq]
        /\ \A j \in 1 .. seq : shuffleOf'[j] = shuffleOf[j]
    BY <1>4, <1>5, <1>6, <1>7, <1>8, <1>13, NotedShuffle DEF KnowInv, ShufflesNoted
  <2>2. ShufflesNoted'
    <3>1. Shuffle' <= shuffles /\ \A p \in drawn : p[1] \in Nat /\ p[1] <= shuffles
      BY <1>5, <2>1 DEF KnowInv, ShufflesNoted
    <3>2. \A j \in DOMAIN history : history[j].seq # 0 /\ shuffleOf'[history[j].seq] <= shuffles
      BY <1>6, <2>1 DEF KnowInv, ShufflesNoted
    <3> QED BY <1>8, <2>1, <3>1, <3>2 DEF ShufflesNoted
  <2>3. ASSUME rewinds = 0 PROVE Shuffle' = Shuffle /\ TilesIn(w) = TilesIn(game.wall)
    <3>1. Live(game) /\ Live(r)
      BY <1>2, <1>5 DEF InPlay, Live
    <3>2. TilesIn(game.wall) \subseteq TilesIn(r.wall) /\ Shuffle' = Shuffle
      BY <1>5, <2>1, <2>3, <3>1 DEF KnowInv, WallsShrink
    <3>3. /\ game.wall \in Seq(Tile) /\ Injective(game.wall)
          /\ r.wall \in Seq(Tile) /\ Injective(r.wall)
      BY <1>10 DEF Sound, Exclusive, GameState
    <3>4. Len(r.wall) \in Nat /\ Len(game.wall) \in Nat /\ Len(r.wall) <= Len(game.wall)
      BY <1>13, <3>3 DEF CrossesWallDraw
    <3>5. /\ IsFiniteSet(TilesIn(r.wall)) /\ Cardinality(TilesIn(r.wall)) = Len(r.wall)
          /\ IsFiniteSet(TilesIn(game.wall)) /\ Cardinality(TilesIn(game.wall)) = Len(game.wall)
      BY <3>3, DistinctTiles
    <3>6. TilesIn(r.wall) = TilesIn(game.wall)
      BY <3>2, <3>4, <3>5, FS_Subset
    <3>7. w = r.wall
      BY <1>3, <1>13 DEF RestoredWalls
    <3> QED BY <3>2, <3>6, <3>7
  <2>4. FirstRewindUnseen'
    <3> SUFFICES ASSUME rewinds + 1 <= 1, NEW t \in TilesIn(w)
                 PROVE  <<Shuffle', t>> \notin drawn
      BY <1>8, <1>10 DEF FirstRewindUnseen
    <3>1. rewinds = 0 /\ Live(game)
      BY <1>5, <1>8 DEF InPlay, Live
    <3> QED BY <2>3, <3>1 DEF KnowInv, FirstRewindUnseen
  <2> QED BY <1>9, <1>11, <2>2, <2>4 DEF KnowInv
<1> QED BY <1>12, <1>13

LEMMA NextKnow == KnowInv /\ [KnowNext]_<<actorVars, knowledge>> => KnowInv'
<1> SUFFICES ASSUME KnowInv, [KnowNext]_<<actorVars, knowledge>> PROVE KnowInv'
  OBVIOUS
<1>1. CASE UNCHANGED <<actorVars, knowledge>>
  <2>1. /\ game' = game /\ overran' = overran /\ seq' = seq /\ gameSeq' = gameSeq
        /\ history' = history /\ asked' = asked
        /\ shuffles' = shuffles /\ shuffleOf' = shuffleOf /\ drawn' = drawn /\ rewinds' = rewinds
    BY <1>1 DEF actorVars, vars, hostVars, knowledge
  <2>2. ActorInv'
    BY KnowStepIsActorStep, NextActor DEF KnowInv
  <2> QED BY <2>1, <2>2 DEF KnowInv, ShufflesNoted, WallsShrink, FirstRewindUnseen, Shuffle
<1> QED BY <1>1, KnowDealKeeps, KnowPlayKeeps, KnowQuietKeeps, KnowRewindKeeps DEF KnowNext

\* So what is proved of the host holds of the host that is watched.
THEOREM WatchedHost == KnowSpec => ActorSpec
<1>1. KnowInit => ActorInit
  BY DEF KnowInit
<1>2. [KnowNext]_<<actorVars, knowledge>> => [ActorNext]_actorVars
  BY KnowStepIsActorStep
<1> QED BY <1>1, <1>2, PTL DEF KnowSpec, ActorSpec

\* As long as a game was rewound at most once, nobody has seen where a tile of its
\* wall sits, however long it is played and whatever window and shuffle it has.
THEOREM FirstRewindAlwaysUnseen == KnowSpec => []FirstRewindUnseen
<1>1. KnowInv => FirstRewindUnseen
  BY DEF KnowInv
<1> QED BY <1>1, InitKnow, NextKnow, PTL DEF KnowSpec
=============================================================================
