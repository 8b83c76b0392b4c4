# Mahjong Dealer: models and proofs

TLA+ modules, TLC configurations and TLAPS proofs about the Mahjong Dealer: a server that deals and
moves tiles for four players and enforces no rules of Mahjong. What must never go wrong is custody of
the tiles, secrecy of what is concealed, and consent: nothing that binds everyone happens unless
everyone agreed. Around that core, a table must survive lost sockets, late database writes, crashes
and overlapping requests. This file says what the parts of the system are, which module models which,
what is checked, what is proved, and what is left.

Paths below are relative to `src/packages` unless they begin with `docs` or `db`.

## 1. The system

| Part | State it keeps | Operations | What makes it correct |
|---|---|---|---|
| Dealer core (`dealer-core/src`) | a `GameState`: lifecycle, turn, wall, hands, discards, exposures, tiles in flight, pass round, reveals, pause holds, pending correction, concluding process | 24 commands, each a pure function state -> state or rejection; views; checkpoint and restore | every tile in one place, passes at once, an end by agreement, views that conceal, checkpoints that bring back |
| Table actor (`server/src/table/actor.ts`, `checkpoints.ts`, `receipts.ts`, `events.ts`, `view.ts`) | the game, the table, a wire sequence number, the last 10 states, receipts, a log of frames per seat | `submit`, seat changes, force-close | two sequence spaces stay aligned, a rewind restores what was voted for, an event shows no more than the view |
| Table entity (`server/src/table/table.ts`) | occupants, readiness, connection, host, status | occupy, vacate, ready, start, close | a host whenever anyone is there, games start by agreement |
| Gateway (`server/src/gateway`) | connection per seat, delivery cursors, receipts, tickets, rate buckets | bind, resume, command, close, heartbeat miss, eviction, revocation poll | a retried command applies once, decisions are made on what was shown, absence pauses, one voice per seat |
| Durability (`server/src/checkpoint`, `gateway.ts` `syncCheckpoint`) | encrypted checkpoint, correction and game rows | writes nobody awaits, purge, shutdown, restore | a restart loses at most the last writes and invents nothing |
| Tables service and manager (`server/src/tables`) | table and seat rows, the map of live tables, idempotency keys | create, join, leave, close, issue ticket, restore | rows follow the actor; a retried creation makes one table |
| Authentication (`server/src/auth`), administration | account and session rows | login, validate, step up, log out, change password, disable | a session that is over is refused; attempts are counted |
| Web client (`web/src`) | the last view, what is armed | connects, resumes, offers acts | what it offers is taken, what is awaited is offered |

**How they interact.** A WebSocket frame reaches the gateway, which checks it and calls
`actor.submit` synchronously; the actor calls the core's `apply`, numbers and checkpoints the result
and appends frames to four logs, which the gateway then delivers. REST handlers call the same actor
and gateway objects, and then await the database. Checkpoint writes are started after each accepted
command and not awaited. The client replaces its view by each view it receives, and decides from it
alone which buttons it shows.

**What is hard.** There is one thread, so a submission is atomic and the interleaving of *commands*
is the concurrency of the core: any seat may send anything at any moment, and four overlays (pause,
correction, pass round, conclusion) may hold together. Around it the awaits interleave: database
writes, polls, requests. Rewinds make history non-linear, restarts make it end early. The same fact
is often kept twice: tiles in flight and the record of the round, event and view, actor and row, two
sequence numbers, screen and core. `PROJECT.json` lists each hazard at its line.

## 2. Modules

| Module | What it is | Source |
|---|---|---|
| `DealerCore` | the core as operators: a guard `CanX` and a result `X` per command, over one record | `dealer-core/src` |
| `Game` | one table's game: any seat sends any command; the invariants | `dealer-core/src/commands` |
| `Saved` | a game in a checkpoint and back, part by part | `dealer-core/src/checkpoint` |
| `Feed` | the wire event of each command for each viewer, and the public summary | `server/src/table/events.ts`, `checkpoint/snapshot.ts` |
| `Screen` | the seat view, and what the table screen offers on it | `web/src/gametable`, `server/src/table/view.ts` |
| `Custody` | abstract: where each tile is and the edges along which custody passes | - |
| `Consent` | abstract: a proposal, agreements, the end | - |
| `GameRefinement` | the refinement mappings from `Game` to both | - |
| `TableActor` | `Game` within its host: numbering, the window, corrections | `server/src/table/actor.ts`, `checkpoints.ts` |
| `WallKnowledge` | `TableActor` with the history of who has seen which tile of which shuffle | - |
| `Seating` | seats, readiness, host, status, start and close; the lobby | `server/src/table/table.ts`, `actor.ts`, `web/src/screens/Table.tsx` |
| `Gateway` | connections, delivery, idempotency, presence, revocation | `server/src/gateway`, `web/src/ws` |
| `Durability` | checkpoint writes, purge, crash, shutdown, restore | `server/src/checkpoint`, `gateway.ts` |
| `Recovery` | abstract: a restart brings back a moment that was lived | - |
| `Tables` | REST requests as processes over actors and rows | `server/src/tables`, `admin/service.ts` |
| `Auth` | requests on one account and its sessions as processes | `server/src/auth`, `admin/service.ts` |
| `DealerCoreTheorems` | what each command of `DealerCore` does to a sound state | - |
| `GameTheorems` | proofs about `Game`, `Saved` and `Feed`: soundness, conservation, simultaneous passes, phases and checkpoints, the refinements of `Consent` and `Custody`, events within views | - |
| `ActorTheorems` | proofs about `TableActor`, `Screen` and `WallKnowledge` | - |
| `SeatingTheorems`, `GatewayTheorems`, `DurabilityTheorems`, `TablesTheorems`, `AuthTheorems` | proofs about the module each is named for | - |
| `MCGame`, `MCActor`, `MCSeating`, `MCGateway`, `MCDurability`, `MCTables`, `MCAuth` | instances for TLC | - |

Definitions commented "Mutant" are plausible mistakes in the definition that follows. Nothing uses
them; substituting one for its neighbour must break the property named in `PROJECT.json`, which shows
that the property depends on the code it is about.

### How state and steps correspond to the code

**The core (`DealerCore`, `Game`).** A step is one accepted command; a rejection changes nothing but
the sender's frame log and is not a step. Tiles are handles: no command looks at a face. Hands are
sets: `arrange_hand` permutes a hand and nothing else looks at its order; wall and discards are
sequences because a command takes their ends. `TileLocations.exposures` is one set of records with an
owner. A pass round is its routing (`from -> to`, `NoSeat` elsewhere) and what was committed; no round
is the routing to nowhere. A conclusion keeps the routing in the record, as the spread in the code
does, and clears it when play resumes; the *locations* are left alone. The history variable `overran`
marks a game in which a conclusion was begun over an open round. The core's own `seq` lives in
`TableActor` as `gameSeq`, next to the actor's `seq`.

**Saved.** `Payload` and `Built` are `checkpoint` and `buildState`, with the same four cases and the
same parts; `Restorable` is the conservation check of `restore`. Faces, salt and commitment go along
unread.

**Feed and Screen.** Both are functions of the game state, evaluated in every state that `Game` (or
`TableActor`) reaches. `DealerEvents(g)` are the events of every command the table would take now;
`WireEvent(e, v)` is the case of `toWireEvent` with the faces and counts it carries to viewer `v`.
`SeatView` is the view as far as the screen decides by it; `OffersX` are the conditions under which
the screen renders or enables a button when nothing is armed.

**The actor.** The window holds `[seq, gameSeq, game]`. `Remark` is any submission that leaves the
game as it is, and is numbered and checkpointed all the same (chat, signals, arranging a hand);
`SeatChange` moves the actor's number alone. A correction's target is kept in the game's
numbering and looked up when the last seat accepts, as in the code; where that look-up or the restore
would throw, there is no step.

**Seating.** `lifecycle` stands for the game with "in progress" for `in_play` and `concluding`;
`willing` is a history variable: the players who asked for the next game from the seat they are in.

**Gateway.** One record `g` holds what a handler changes at once: numbers, logs, connections, sockets,
presence, holders. A handler is a step, except for the revocation poll, whose three steps are the
snapshot, the awaited answer and what is done with it. A view is identified with the number it is the
view at, since a client replaces its view wholesale; a log is a sequence of numbers, with 0 for a
reject frame. `late` marks a connection whose ticket was redeemed after its seat changed hands.

**Durability.** A game state is the sequence of commands that made it. A write is a record in `flight`
from its call until it lands or fails, in any order; a crash drops what is in flight, a graceful
shutdown waits for it. The rows are those of `games`, `table checkpoints` and `correction_checkpoints`,
with the unique index on games not concluded. A path is a sequence of commands, each with the moment
it was applied; `InOrder` is the `ORDER BY seq ASC` of the read that refills the window, whose rows
have distinct numbers. `lived` is a history variable.

**Tables and Auth.** Every operation reads, decides, and writes in later statements, so a request is a
process: a step is one statement and the code up to the next. Requests overlap; a statement may fail,
a restart may cut every request off. In `Auth`, passwords are versions and a hash comparison is an
equality; a tick of the clock is the unit of every duration. The history variables (`muddled`,
`answers`, `departed`, `hostless`; `ended`, `tally`, `raced`) record what the properties' provisos speak of.

## 3. What the runs check

| Run | Instance | Shows |
|---|---|---|
| `game_two` | 2 seats, 4 tiles, opening hand 1, up to 2 tiles a command, an exposure; 0.4 M states | types; no tile doubled; none lost unless a conclusion overran a round; a checkpoint brings back the game; views and events conceal; what the screen offers is taken |
| `game_three` | 3 seats, 3 tiles, two exposures, two routings; 0.9 M | a pause freezes tiles; passes execute at once; every command is a step of `Custody` and of `Consent` |
| `actor_rewind` | 3 seats, 3 tiles, window 3, 7 submissions; 0.9 M | the window is ordered in both numberings; a pending proposal denotes the snapshot its proposer named; tiles are conserved through rewinds; up to the first rewind nobody knows where a tile of the wall is; nothing moves under a vote; the wall grows only with everyone's consent; the table never waits for an act nobody is offered |
| `seating` | 4 seats, 5 players (symmetric) | a present host, a truthful status and a lobby that leads to the game; games start by agreement |
| `gateway_delivery` | 2 seats, 2 sockets, one retransmitted command, log of 2 frames, numbers up to 4; 0.8 M | a command is applied once; sensitive decisions are made on what was shown; nobody is left behind |
| `gateway_presence` | 2 seats, 3 players of whom two come and go, one session that ends; 0.3 M | absence holds the game; a seat has one voice; a live connection of an ended session does not last |
| `durability` | 2 games, 4 commands, retention 2, 2 writes in flight, 2 restarts | a row is a past state of its own game; a command occurs once in a history; what is purged stays dead; implements `Recovery` |
| `tables` | 3 accounts, 2 tables of 2 seats, 2 requests at a time, 4 in all, one key, one failing statement, one restart; 1.1 M | at rest rows mirror actors; closed rows belong to closed tables; a key names one table |
| `auth` | 2 requests at a time, 3 in all, 2 sessions, clock to 4, one request cut off; 2.2 M | a session that is over is refused; every attempt counts |
| `claim_conserved`, `claim_window`, `claim_seated` | | three claims that do not hold, below |

**Provisos.** Some properties carry one, and it is part of what they say: `ConservedUnlessOverrun` and
the pass panel of `OffersAreTaken` leave out games in which a conclusion overran a round (see
`claim_conserved`); `RestMirrors` speaks of tables whose last join or leave ran alone (see
`claim_seated`), and has them hosted unless they were restored without a host; `AttemptsAreCounted` leaves out histories in which two requests held the same count,
where an update is lost, and is otherwise exact; `ShownUpToDate` leaves out a table closed over REST,
whose event nothing delivers.

**Bounds, and why they suffice.** Tiles are interchangeable and the wall's order matters only through
which tile is drawn, so `MCOrders` yields one canonical order for each set of tiles. Three seats are
the least at which "all others" differs from "another"; two suffice where it makes no difference. One
tile more than a hand lets draws, discards, claims and exposures all happen with tiles left over;
`MaxExposures` bounds exposures per game because their ids grow. Routings include a ring, an exchange,
a seat that passes to itself, and two seats giving to a third that takes no part. `Pausers` and `Revealers` limit
who pauses and reveals, as any seat is like another in that. `Window`, `Retention` and `Backlog` are
2 or 3 instead of 10 and more, so that they fill and slide within the bound on steps: with 7
submissions a game is dealt, the window slides, a correction is proposed, answered and applied.
`Frail`, `Leavers`, `Mortal` and `Kinds` in `Gateway` let one socket or player of each kind misbehave;
`Polling` is off in `gateway_delivery` because the poll only closes connections, and without a poller
the code runs the same. In `Tables`
and `Auth` two requests are all an overlap takes, and the third and fourth follow one that was spoiled.
`Seating` runs at its real size.

**Deadlock** is checked in `game_two`, `game_three`, `claim_conserved` and `seating`. The other
instances stop at a bound on their numbers, moments or requests, so there it is not.

**Fairness.** `Gateway` assumes `WF_vars(Poll)`: the revocation poll runs on a `setInterval`, and its
query is taken to be answered in the end. That is all `RevokedIsClosed` needs. Nothing else in the code
justifies fairness: a player need not answer, a client need not reconnect, and there is no timer behind
a vote or a round (the 60-second correction timeout of `docs/05` 8.3 and the 10-minute round timeout of
`docs/10` 6 are not implemented). In the place of a liveness property that would need fair players,
`NothingAwaitedIsHidden` and `LobbyLeadsToGame` say that whoever the table waits for is offered the act.

### Disagreements the runs exhibit

Each of these runs checks one claim, which TLC refutes with a short trace.

- `claim_conserved`: open a round, commit, declare, withdraw the declaration, commit in a new round.
  The first commitment was left in flight and the second overwrites it; its tiles are nowhere.
  `conservation.ts:22` calls this fatal. A checkpoint of such a game is refused at restore, so that
  its table is skipped at startup.
- `claim_window`: of the two writes of a command only the correction entry lands before a crash. The
  game that is restored is older than its window, plays on under numbers the window already has, and a
  rewind to such a number restores a state its players never saw. `writer.ts:171`: "an emptier window,
  never a wrong one".
- `claim_seated`: two overlapping requests of one account both find it unseated and seat it in two
  actors; the database constraint that `docs/04` 5.3 relies on then fails one request and leaves its
  actor as it is.

### Disagreements met while modelling, without a run

The modules follow the code in these too; a trace of an earlier module or a reading shows each.

*Corrections.* The last acceptance throws when the target has left the window meanwhile (`actor.ts:671`)
or is a checkpoint of a concluding game (`correction.ts:86`). Conclusions and reveals are accepted while
a correction is pending (`docs/05` 273). A rewind undoes a reveal (`correction.ts:120`; `state.ts:101`
calls it irreversible). A second rewind can bring back an order of the wall that was seen on an
abandoned branch, since only lengths are compared (`correction.ts:96`): hence `FirstRewindUnseen`.

*Delivery.* Later frames of a command that has several under one number are dropped live
(`gateway.ts:600` against its comment at 592), so that `GameConcluded`, `PassRoundExecuted` and
`TilesDealt` reach a client only in a backlog; the views that come along make up for it, which is what
`ShownUpToDate` is about. Conversely `GameTable`'s `seenSeq` drops the second event of a number from a
backlog. The client never passes `resumeFromSeq`. A throttled or malformed retransmission overwrites
a receipt (`gateway.ts:577` against 487); `AppliedOnce` holds because the actor has receipts too. A
connection closed for a revoked session leaves its seat "connected". `docs/22` section 3 has
"away -> connected" on a heartbeat, which no handler does. A REST close delivers no event, and
`checkSessionRevocation` has no catch.

*Durability.* `docs/29:91` bounds the loss of a crash by one public action; several writes may be in
flight, and land in another order. A record may land after the deletion of its game and stay there.
`concludeAndPurge` clears the id of a newer game (`writer.ts:114`). A start whose predecessor's row is
still in play is refused by the index of `0001_initial_schema.sql:113`, and that game never becomes
durable.

*Tables.* The socket's `close_table` writes no row. Seat rows of a closed table keep its players
seated (`docs/04:199`). The next host is the next occupied seat, not the longest seated
(`docs/04:188`). Readiness rows are stale after a restart. Between `syncSeats` and `setHost` the row
names a host who has left; a crash there, or a failing `setHost`, makes `restore.ts` bring the table
back with players and no host. `table.ts:115` replaces a host only when the host leaves and
`table.ts:86` gives a hostless table one only when somebody joins, so that a full one can neither deal
nor be closed by its players, while `docs/04:187` says that the role "transfers to the longest-seated
remaining player" and `docs/04:295` counts a table with no host as mitigated. It takes three seats to
see, so the instance of `tables` does not reach it: a proof of `RestMirrors` without `hostless` fails
there. A creation that fails after `occupySeat` leaves a live actor without
rows.

*Sessions.* A login verified before a change of password may issue its session after the revocation;
a disabling cut off before its revocation leaves sessions that revive when the account is enabled.

*Screen.* The declarer is never offered to withdraw (`Interaction_Patterns.md:116`, FR-115): the band
hides its buttons from a seat that has responded, and the declarer counts as one. There is no button
for `swap_exposed_tile`, nor for a second holder of a pause. After a conclusion over a round was
refused, the pass panel offers only a withdrawal, which the core rejects. Selection, armed acts and
the concluded banner survive into the next game. "Start dealing" is shown to every seat
(`Table.tsx:26` says so).

## 4. What is proved

Each theorem holds for every value of the constants that its module's named assumptions admit:

- the core and the actor: every tile set, number of seats (at least 2), opening hand that the tiles
  suffice for, routing and every shuffle that yields a permutation (`SeatAssumption`,
  `DealAssumption`, `OrderAssumption` of `DealerCore`, `BoundsAssumption` of `Game`), every window of at
  least one state (`WindowAssumption` of `TableActor`);
- `Seating`: every number of seats and set of players (`SeatsAssumption`, `PlayerAssumption`);
- `Gateway`: at least one seat, every set of players, sockets and retransmitted identifiers, every
  backlog of at least one frame, every set of commands sent, and everybody free to leave, to be
  disconnected and to be logged out (`GatewayAssumption`);
- `Durability`: every retention of at least one, every set of retransmitted commands and every number
  of games, moments, writes in flight and restarts (`DurabilityAssumption`, which also says that
  `Fresh`, `"start"` and `Nothing` are no identifiers and no states);
- `Tables`: every set of accounts and keys and at least two seats, every number of tables, requests, failing
  statements and restarts (`SizesAssumption`, `NamesAssumption`);
- `Auth`: every positive duration and threshold, every drift and number of sessions, requests and
  failures, up to any time (`DurationsAssumption`).

The bounds on numbers of things are guards of the models; since the theorems hold for every value of
them, they hold of runs of any length.

| Theorem | Module | States |
|---|---|---|
| `TypeCorrect` | `GameTheorems` | `Spec => []TypeOK` |
| `TilesNeverDoubled` | `GameTheorems` | `Spec => []NoTileTwice` |
| `BooksAlwaysBalance` | `GameTheorems` | `Spec => []RoundBooksBalance` |
| `ViewsAlwaysConceal` | `GameTheorems` | `Spec => []ViewsConceal` |
| `TilesNeverLost` | `GameTheorems` | `Spec => []ConservedUnlessOverrun` |
| `PassAlwaysSimultaneous` | `GameTheorems` | `Spec => PassIsSimultaneous` |
| `CheckpointsBringBack` | `GameTheorems` | `Spec => []RestartLosesNothing` |
| `PauseAlwaysFreezes` | `GameTheorems` | `Spec => PausedFreezesTiles` |
| `ConsentImplemented` | `GameTheorems` | `Spec => EndsByConsent`, the refinement of `Consent` |
| `CustodyImplemented` | `GameTheorems` | `Spec => DealsAndEndsByConsent`, both refinements |
| `EventsStayWithinViews` | `GameTheorems` | `Spec => []EventsWithinView` |
| `ActorTypeCorrect` | `ActorTheorems` | `ActorSpec => []ActorTypeOK` |
| `WindowAlwaysOrdered` | `ActorTheorems` | `ActorSpec => []HistoryOrdered` |
| `ProposalsKeepMeaning` | `ActorTheorems` | `ActorSpec => []TargetsAgree` |
| `RewindsConserve` | `ActorTheorems` | `ActorSpec => []RewindConserves` |
| `VotesFreezeTiles` | `ActorTheorems` | `ActorSpec => VoteFreezesTiles` |
| `WallNeedsConsent` | `ActorTheorems` | `ActorSpec => WallGrowsOnlyByConsent` |
| `HostConceals` | `ActorTheorems` | `ActorSpec => [](ViewsConceal /\ EventsWithinView)` |
| `HostBringsBack` | `ActorTheorems` | `ActorSpec => []RestartLosesNothing` |
| `OffersAlwaysTaken` | `ActorTheorems` | `Spec => []OffersAreTaken` (the `Spec` of `Game`) |
| `NothingEverHidden` | `ActorTheorems` | `ActorSpec => [](NothingAwaitedIsHidden /\ OffersAreTaken)` |
| `WatchedHost` | `ActorTheorems` | `KnowSpec => ActorSpec` |
| `FirstRewindAlwaysUnseen` | `ActorTheorems` | `KnowSpec => []FirstRewindUnseen` |
| `SeatingTypeCorrect` | `SeatingTheorems` | `Spec => []SeatingTypeOK` |
| `HostAndStatus` | `SeatingTheorems` | a host whenever anyone is there, and a truthful status |
| `TableAlwaysGoesOn` | `SeatingTheorems` | `Spec => []TableCanGoOn` |
| `StartsAreAgreed` | `SeatingTheorems` | `Spec => GamesAreAgreed` |
| `TypeCorrect` | `GatewayTheorems` | `Spec => []GatewayTypeOK` |
| `AppliedAtMostOnce` | `GatewayTheorems` | `Spec => []AppliedOnce` |
| `DecisionsInformed` | `GatewayTheorems` | `Spec => []DecidedOnShown` |
| `EverybodyShown` | `GatewayTheorems` | `Spec => []ShownUpToDate` |
| `AbsenceHolds` | `GatewayTheorems` | `Spec => []AbsentSeatHolds` |
| `OneVoice` | `GatewayTheorems` | `Spec => []OneVoicePerSeat` |
| `TypeCorrect` | `DurabilityTheorems` | `Spec => []DurabilityTypeOK` |
| `RowIsOfThePast` | `DurabilityTheorems` | `Spec => []RowTellsThePast` |
| `AppliedOnceEver` | `DurabilityTheorems` | `Spec => []OnceInHistory` |
| `PurgedNeverPlayed` | `DurabilityTheorems` | `Spec => []PurgedStaysDead` |
| `RecoveryImplemented` | `DurabilityTheorems` | `Spec => BringsBackThePast`, the refinement of `Recovery` |
| `TypeCorrect` | `TablesTheorems` | `Spec => []TablesTypeOK` |
| `RowsMirror` | `TablesTheorems` | `Spec => []RestMirrors` |
| `NoTableDropped` | `TablesTheorems` | `Spec => []ClosedRowsAreClosed` |
| `KeyNamesOneTable` | `TablesTheorems` | `Spec => []OneTablePerKey` |
| `TypeCorrect` | `AuthTheorems` | `Spec => []AuthTypeOK` |
| `OverRefused` | `AuthTheorems` | `Spec => []OverIsRefused` |
| `AttemptsCounted` | `AuthTheorems` | `Spec => []AttemptsAreCounted` |

**The argument** has layers, each an invariant that is inductive relative to the ones before.

1. `Inv` (`GameTheorems`). `NoTileTwice` alone is not inductive: an exposure laid down under an id in
   use would merge with or shadow another, and a withdrawal copies tiles back from the *record* of the
   round, which is harmless only while the record agrees with the tiles in flight. So `Inv` joins the
   type, `Exclusive`, `BooksBalance` and the freshness of `nextExposureId`. `DealerCoreTheorems`
   proves for every command that it preserves them (`DrawHeadSound`, `CommitSound`, ...), on lemmas
   about the ends of an injective sequence; the deal starts from disjoint intervals of a permutation
   (`DealtApart`, `DealSound`). `ViewsConceal` follows from exclusiveness, state by state.
2. `TilesKept` (`GameTheorems`). No tile is lost when every tile in flight is recorded
   (`FlightRecorded`, the converse of `BooksBalance`), for then each withdrawal, cancellation and
   execution brings all of them back, and a commitment finds nothing to overwrite. That holds as long
   as no round is open in a concluding game, which is what `overran` denies. One lemma per command
   (`CommitComplete`, `ExecuteComplete`, ...); that a deal hands out every tile is an argument about
   quotient and remainder (`Quotient`, `DealtCovers`). The simultaneous pass is read off
   the same invariant: what is in flight is what is committed, so the step that executes the round
   delivers all of it.
3. `Phased` (`GameTheorems`). Which parts of the state each lifecycle may use: an idle game is
   `IdleGame`, a concluded one has nothing concealed left, a process exists exactly in a concluding
   game and its initiator has not accepted it. From it follow that a checkpoint, which names other
   parts in each phase, forgets none (`BroughtBack`); that a paused game is live; and that a game
   concludes on the acceptance of all the others (`ConsentStep`).
4. *Custody* (`GameTheorems`). Since a sound state has every tile in at most one location, the
   place of a tile *is* its location (`SoundLocated`), and one lemma per command says which tiles
   change place and along which edge (`DrawCustody`, `SendCustody`, `LandCustody`, ...). Two cases
   are not obvious: a commitment over stranded tiles, which `Send` and `Land` let fall to `Lost` from
   that seat's flight alone; and a deal, which reaches every tile by `DealComplete` and finds none in
   a wall or in flight by `Phased`.
5. `ActorInv` (`ActorTheorems`). A rewind brings back an old state, so the invariants of the game
   must hold of every state in the window (`WindowSound`); then a restored state, with a fresh
   permutation of its own wall, is as sound and as whole as any (`ApplySound`). That numbers increase
   through a rewind (`HistoryOrdered`), and that while a vote is pending no round is open and the
   proposal's number is that of the snapshot its proposer named (`VoteSound`), makes the look-up at
   the last acceptance find that snapshot or none.
6. `Kept` (`SeatingTheorems`). The next host is the least of a set of seats by distance around the
   table, which exists because the natural numbers are well founded; that the one who asked for a game
   is still in the seat needs that nobody has two seats and that a ready seat is a willing one. The
   lobby leads to the game because the deal is offered exactly when the guard of `StartDeal` holds of
   the host, who is there and at a full table (`LobbyLeads`).
7. `DurabilityInv` (`DurabilityTheorems`). A write that lands late is harmless only because of what it
   was when it was issued: so the invariant speaks of every snapshot, saved or in flight, as one set
   (`Snaps`): it was lived, its receipts are the retransmitted commands of its path (`Told`), and if it is of the
   game in memory it is a prefix of it (`Past`). A record that lands after a newer one, or after the
   deletion, is then one more such snapshot. Most steps leave the game in memory as it is
   and only let writes land or fail; one lemma (`CalmKeeps`) serves them all. `Ordered` says that a
   game is purged only by writes that were issued at its end, whence `PurgedStaysDead`; that moments
   are numbered makes what is begun or played new, which `Recovery` asks of `Begin` and `Extend`.
8. `TablesInv` (`TablesTheorems`). What a request knows at each of its places (`Placed`), that a
   table is muddled or has at most one writer, whose picture is the actor's (`Alone`), and what a
   table without a writer owes its row (`Mirrored`). `OneTablePerKey` is not about keys: a retry finds the stored answer or,
   while there is none, the seat that the first creation took, in an actor or in a row (`Keeps`,
   `RowsApart`); that a departure is what undoes it is why the property excepts it.
9. `AuthInv` (`AuthTheorems`). What was ended stays revoked, and a request that comes to a statement
   about sessions names sessions there are (`Ends`, `KnowsSession`); the times in the rows and in the hands of requests lie within what
   the bounds allow from now (`InTime`, `OnTime`); as long as nothing raced, at most one request holds
   a count or a step between its read and its write, and it is still the row's (`Counted`,
   `Stepped`). The delay of a lockout is a recursive function, of which induction would be needed to
   say that it is total: it is shown well defined by the least length at which two tables of doublings
   would differ, or be missing (`TablesAgree`, `TableExists`).
10. `GatewayInv` (`GatewayTheorems`). A handler composes several updates of the wire state, so its
   parts are stated of *any* state `h`, and a lemma says of each update what it keeps: `Ready` is what
   holds within a handler, `Fine` what it must leave behind. In between, a connection that has resumed
   may be behind, provided its log holds a newer event (`Caught`); a delivery then makes it current,
   because whatever a log still holds is followed by the latest event (`Tells`): trimming drops only
   the front. That a cursor moved silently to the present skips nothing is the same fact (`NewIs`,
   `DeliverShows`). `Voice` says which sockets may still act, `Held` that absence pauses; `Calm` what
   the latter needs: a game in play has all its players, and a seat with a live connection is
   present or excused. A REST close leaves connections behind the table, but then no game is in play
   and no decision is open (`DecisionInformed`). `AppliedOnce` needs that a receipt may be replaced
   but never removed (`Counted`).

   The attempt found a mistake in the model: `AbsentSeatHolds` was not an invariant, because a game
   could start with a vacant seat, and whoever sat down there later was absent from it without
   holding it. `actor.ts:594` starts a game only at a seated table, so `Acceptable` now says so. The
   instance of `gateway_presence` is too short for the trace; with `MaxSeq = 5` TLC finds it and,
   after the correction, none.

11. *Events* (`Told`, `GameTheorems`). An event may carry its tiles for one of few reasons: no face
   of it is sent but the viewer's own hand; or it is a draw, whose seat holds the tile after it; or
   its tiles are face up just before or just after it. Each kind of command gives its events their
   reason (`MovesTold`, `ExposuresTold`, `OthersTold`), and `ToldWithin` turns any reason into the
   property, with the sizes, since every event leaves a live game behind. Nothing but soundness of the
   state is used, so it holds of a host with corrections too (`HostConceals`).
12. *Screen* (`Undecided`, `ActorTheorems`). What the screen offers and what the core takes are two
   readings of one state, of view and of guard, and agree case by case (`ViewSays`, `ScreenTaken`,
   `ScreenShows`), given two facts that the state alone does not show: that a round is open in a concluding
   game only when `overran` (`TilesKept`), and that what is put to the vote was proposed by a seat
   and another has yet to answer (`Undecided`), since the step that gives the last answer also closes the vote.
13. `AllPhased` (`ActorTheorems`) extends `Phased` to every retained state, so that a restored game is
   in phase and its checkpoints bring it back (`HostBringsBack`).
14. `KnowInv` (`ActorTheorems`). `ShufflesNoted` bounds the shuffles noted for the states of the
   window. Until the first rewind a game has one shuffle, and its wall only loses tiles
   (`WallsShrink`). A first rewind then restores a longer wall and shuffles it, and of a new shuffle
   nobody has seen anything; or one that is not longer, which therefore has the very same tiles
   (`DistinctTiles`: a wall without repetitions has as many tiles as places) in the same order, and none
   of them was seen before. After a rewind the walls of the window need not contain the present one,
   which is why the property stops there (section 3).

The invariants of 7 to 14 were checked by TLC, part by part, before they were proved: on the
instances of `durability`, `tables` (and three seats, where `hostless` was found to be needed),
`auth`, both of the gateway (and with a longer one of `gateway_presence`), and `actor_rewind`. So were
`ViewsConceal`, `EventsWithinView` and `RestartLosesNothing` on `actor_rewind`, which is not among its
properties because the runs of `Game` check them with more commands.

**Model-checked only.** `RevokedIsClosed` of `Gateway`, which is liveness under fairness and beyond the
prover. Every other property of a passing run is stated by a theorem. `TableCanGoOn` says that a deal
can be started by the guard of `StartDeal`, `CanStartDeal`, rather than by ENABLED. The runs of
the actor are over `KnowSpec`, which notes who has seen which tile, and most of its theorems over
`ActorSpec`; `WatchedHost` says that the former is the latter with a history. No module with a
theorem reaches a RECURSIVE operator.

## 5. Plan

Done: the core with its checkpoints, events and screen; the actor with corrections; the seats; the
gateway; durability; tables; sessions; the proofs above. What would add most next:

1. `Gateway` over `Durability`: retransmission across a restart with live sockets, which are now two
   modules that each abstract the other.

## 6. Not modelled

Tile faces, the wall commitment and its hash, encryption, formats of frames and rows, HTTP and
WebSocket mechanics, configuration, health and logging: pure data or pure I/O. Rejection codes: a
guard says whether a command is accepted, not which of several reasons is named. The audit log, which
is appended to and never read back. Rate buckets: `Gateway` lets any frame be throttled. Of
authentication, registration (it gives `Auth` its initial state), display names and the rate limits of
routes. Of the client, what is local to a component (arming, selection, chat, banners) and the screens
that are forms over REST. The migration runner. Within `TableActor`, closing the table and a forced
close, which end the window, are left to `Seating`.
