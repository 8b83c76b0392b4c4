----------------------------- MODULE Durability -----------------------------
(***************************************************************************)
(* The durable side of one table: CheckpointWriter, its three              *)
(* repositories, the gateway's syncCheckpoint, the graceful shutdown and   *)
(* the restore at startup.                                                 *)
(*                                                                         *)
(* A game state is the sequence of commands that made it (its path), each  *)
(* command being numbered by the moment it was applied, so that states of  *)
(* different branches differ; the game's own sequence number is the length *)
(* of the path.  A write to the database is a record in flight from the    *)
(* call that starts it to the moment it takes effect or fails; the pool    *)
(* has several connections, so writes land in any order.  Encryption and   *)
(* serialisation give back what they were given; the summary in            *)
(* public_state and games.seq are never read.                              *)
(***************************************************************************)
EXTENDS Integers, Sequences, SequencesExt, FiniteSetsExt

CONSTANTS
    CmdId,          \* identifiers of commands that are retransmitted
    Fresh,          \* stands for an identifier used once
    Nothing,        \* no snapshot, no game
    Retention,      \* CORRECTION_CHECKPOINT_RETENTION, and the actor's window
    MaxGames,       \* bound: games started
    MaxMoments,     \* bound: commands applied in all
    MaxFlight,      \* bound: writes in flight when a command starts more
    MaxRestarts     \* bound: crashes and shutdowns

Game == 1 .. MaxGames
NoGame == 0

\* A path: the commands of a game, each with the moment it was applied.
Command == CmdId \cup {Fresh, "start", "end"}
Path == Seq(Nat \X Command)

ASSUME DurabilityAssumption ==
    /\ Retention \in Nat \ {0} /\ MaxGames \in Nat /\ MaxMoments \in Nat
    /\ MaxFlight \in Nat /\ MaxRestarts \in Nat /\ Fresh \notin CmdId
    /\ "start" \notin CmdId /\ Nothing \notin [game : Game, path : Path]

VARIABLES
    up,         \* "up", "stopping" (the flush of a graceful shutdown) or "down"
    actor,      \* the table's actor
    frames,     \* the gateway's receipts: identifiers answered by this process
    games,      \* table games: the state of each row
    saved,      \* table checkpoints: the snapshot of each game
    kept,       \* table correction_checkpoints: paths, at most one of a length
    flight,     \* writes started and not yet landed
    begun,      \* history: how many games were ever started
    moments,    \* history: how many commands were ever applied
    restarts,   \* bound: how often the process ended
    lived       \* history: every [game, path] that was in memory

vars == <<up, actor, frames, games, saved, kept, flight, begun, moments, restarts, lived>>
database == <<games, saved, kept>>
history == <<begun, moments, lived>>

-----------------------------------------------------------------------------
(* The actor. *)

\* id: currentGameId, the key under which it is saved; game: the game in memory.
NewActor == [id |-> NoGame, game |-> NoGame, path |-> <<>>, receipts |-> {}, window |-> <<>>]

Ended(path) == path # <<>> /\ Last(path)[2] = "end"
InPlay(a) == a.path # <<>> /\ ~Ended(a.path)

\* CheckpointHistory.record.
Recorded(window, path) ==
    LET w == Append(window, path)
    IN  SubSeq(w, Max({1, Len(w) - Retention + 1}), Len(w))

\* Mutant: leaves the receipts out of the snapshot.
SnapshotBare(a) == [game |-> a.id, path |-> a.path, receipts |-> {}]

\* snapshot, as far as readGameState reads it back.
Snapshot(a) == [game |-> a.id, path |-> a.path, receipts |-> a.receipts]

\* The actor after one more command of its game.
Applied(a, c) ==
    LET path == Append(a.path, <<moments + 1, c>>)
    IN  [a EXCEPT !.path = path, !.window = Recorded(@, path),
                  !.receipts = IF c \in CmdId THEN @ \cup {c} ELSE @]

-----------------------------------------------------------------------------
(* The writes that a step starts. *)

\* flushSync; "chain" is the path whose correction entry follows it, if any.
Flush(a, chain) ==
    IF a.id = NoGame THEN {}
    ELSE {[op |-> "record", game |-> a.id, snap |-> Snapshot(a), chain |-> chain]}

\* persistCorrectionCheckpoint: only the entry that the command itself recorded.
Entry(a, path) ==
    IF a.id # NoGame /\ a.window # <<>> /\ Last(a.window) = path
    THEN {[op |-> "window", game |-> a.id, path |-> path]} ELSE {}

\* concludeAndPurge: four statements, one after another; "turn" keeps apart the
\* calls that overlap.
Purging(a, turn) ==
    IF a.id = NoGame THEN {} ELSE {[op |-> "conclude", game |-> a.id, turn |-> turn]}

\* syncCheckpoint after a command that started no game.
Sync(a, path, turn) ==
    IF Ended(a.path) THEN Purging(a, turn) ELSE Flush(a, <<>>) \cup Entry(a, path)

-----------------------------------------------------------------------------
(* Commands. *)

Init ==
    /\ up = "up" /\ actor = NewActor /\ frames = {}
    /\ games = [g \in Game |-> "none"] /\ saved = [g \in Game |-> Nothing]
    /\ kept = [g \in Game |-> {}] /\ flight = {}
    /\ begun = 0 /\ moments = 0 /\ restarts = 0 /\ lived = {}

\* A socket that is being closed still delivers what was under way.
Serving == up \in {"up", "stopping"} /\ Cardinality(flight) <= MaxFlight

\* The number of the command just applied and the state it made are history.
Counted ==
    /\ moments < MaxMoments /\ moments' = moments + 1
    /\ lived' = lived \cup {[game |-> actor'.game, path |-> actor'.path]}

\* start_deal: a new game, whose row must exist before its checkpoint is written.
Start ==
    /\ Serving /\ ~InPlay(actor) /\ begun < MaxGames
    /\ LET path == <<<<moments + 1, "start">>>>
       IN  /\ actor' = [id |-> begun + 1, game |-> begun + 1, path |-> path,
                        receipts |-> {}, window |-> <<path>>]
           /\ flight' = flight \cup {[op |-> "start", game |-> begun + 1, path |-> path]}
    /\ Counted /\ begun' = begun + 1
    /\ UNCHANGED <<up, frames, database, restarts>>

\* Any other command of the game (a rewind among them), or its end.
Play(c) ==
    /\ Serving /\ InPlay(actor) /\ c \notin frames \cup actor.receipts
    /\ actor' = Applied(actor, c)
    /\ frames' = IF c \in CmdId THEN frames \cup {c} ELSE frames
    /\ flight' = flight \cup Sync(actor', actor'.path, 1)
    /\ Counted /\ UNCHANGED <<up, database, begun, restarts>>

\* A retransmission that the actor knows and this process does not: it is
\* acknowledged again, and the checkpoint with it.
Repeat(c) ==
    /\ Serving /\ c \in actor.receipts \ frames
    /\ frames' = frames \cup {c}
    /\ flight' = flight \cup Sync(actor, <<>>, 2)
    /\ UNCHANGED <<up, actor, database, history, restarts>>

\* A command that is accepted while the concluded game is being purged
\* (set_ready) starts the purge again.
Ready ==
    /\ Serving /\ Ended(actor.path) /\ actor.id # NoGame
    /\ flight' = flight \cup Purging(actor, 2)
    /\ UNCHANGED <<up, actor, frames, database, history, restarts>>

-----------------------------------------------------------------------------
(* Writes landing. *)

\* startGame, under the index that allows one unconcluded game per table; then
\* flushSync of whatever the actor holds by now.
LandStart(w) ==
    /\ w.op = "start"
    /\ IF \E g \in Game : games[g] = "in_play"
       THEN flight' = flight \ {w} /\ UNCHANGED games
       ELSE /\ games' = [games EXCEPT ![w.game] = "in_play"]
            /\ flight' = (flight \ {w}) \cup Flush(actor, w.path)
    /\ UNCHANGED <<actor, saved, kept>>

\* record: the one row of the game is overwritten; without a games row the
\* foreign key refuses it.
LandRecord(w) ==
    /\ w.op = "record"
    /\ IF games[w.game] = "none"
       THEN flight' = flight \ {w} /\ UNCHANGED saved
       ELSE /\ saved' = [saved EXCEPT ![w.game] = w.snap]
            /\ flight' = (flight \ {w}) \cup (IF w.chain = <<>> THEN {} ELSE Entry(actor, w.chain))
    /\ UNCHANGED <<actor, games, kept>>

\* Mutant: keeps one row more.
NewestAndOne(paths) == {p \in paths : Cardinality({q \in paths : Len(q) > Len(p)}) <= Retention}

Newest(paths) == {p \in paths : Cardinality({q \in paths : Len(q) > Len(p)}) < Retention}

\* The correction row: ignored if the game has one with its number, then the
\* rows beyond the newest are deleted.  (In between there is one row too many,
\* which the limit of the reading query hides.)
LandWindow(w) ==
    /\ w.op = "window"
    /\ flight' = flight \ {w}
    /\ kept' = IF games[w.game] = "none" \/ \E p \in kept[w.game] : Len(p) = Len(w.path)
               THEN kept ELSE [kept EXCEPT ![w.game] = Newest(@ \cup {w.path})]
    /\ UNCHANGED <<actor, games, saved>>

Then(w, op) == (flight \ {w}) \cup {[w EXCEPT !.op = op]}

\* markConcluded, the two deletions, markPurged.  An update of a row that does
\* not exist changes nothing.
LandConclude(w) ==
    /\ w.op = "conclude" /\ flight' = Then(w, "delete")
    /\ games' = [games EXCEPT ![w.game] = IF @ = "in_play" THEN "concluded" ELSE @]
    /\ UNCHANGED <<actor, saved, kept>>

LandDelete(w) ==
    /\ w.op = "delete" /\ flight' = Then(w, "deletewindow")
    /\ saved' = [saved EXCEPT ![w.game] = Nothing]
    /\ UNCHANGED <<actor, games, kept>>

LandDeleteWindow(w) ==
    /\ w.op = "deletewindow" /\ flight' = Then(w, "purge")
    /\ kept' = [kept EXCEPT ![w.game] = {}]
    /\ UNCHANGED <<actor, games, saved>>

\* The actor's game id is then cleared, whichever game it is by now.
LandPurge(w) ==
    /\ w.op = "purge" /\ flight' = flight \ {w}
    /\ games' = [games EXCEPT ![w.game] = IF @ = "none" THEN @ ELSE "purged"]
    /\ actor' = [actor EXCEPT !.id = NoGame]
    /\ UNCHANGED <<saved, kept>>

Land(w) ==
    /\ \/ LandStart(w) \/ LandRecord(w) \/ LandWindow(w)
       \/ LandConclude(w) \/ LandDelete(w) \/ LandDeleteWindow(w) \/ LandPurge(w)
    /\ UNCHANGED <<up, frames, history, restarts>>

\* A write fails: it is logged, and what would have followed it does not.
Fail(w) ==
    /\ flight' = flight \ {w}
    /\ UNCHANGED <<up, actor, frames, database, history, restarts>>

-----------------------------------------------------------------------------
(* The process ends and starts. *)

Gone == up' = "down" /\ actor' = NewActor /\ frames' = {} /\ UNCHANGED <<database, history>>

\* What the database has not executed is lost.
Crash ==
    /\ up # "down" /\ restarts < MaxRestarts /\ restarts' = restarts + 1
    /\ flight' = {} /\ Gone

\* SIGTERM: notifyShuttingDown, then flushAllCheckpointsSync.
Stop ==
    /\ up = "up" /\ restarts < MaxRestarts /\ up' = "stopping"
    /\ flight' = flight \cup Flush(actor, <<>>)
    /\ UNCHANGED <<actor, frames, database, history, restarts>>

\* The pools end when no query is running.
Exit == up = "stopping" /\ flight = {} /\ restarts' = restarts + 1 /\ flight' = flight /\ Gone

Rows == {g \in Game : games[g] # "none"}

\* The rows of a game's window in the order of their numbers, no two of them equal.
InOrder(paths) ==
    [i \in 1 .. Cardinality(paths) |->
        CHOOSE p \in paths : Cardinality({q \in paths : Len(q) < Len(p)}) = i - 1]

\* fromRestoredParts.
Restored(snap, paths) ==
    LET a == IF snap = Nothing THEN NewActor
             ELSE [NewActor EXCEPT !.id = snap.game, !.game = snap.game, !.path = snap.path,
                                   !.receipts = snap.receipts]
    IN  [a EXCEPT !.window = InOrder(paths)]

\* Mutant: does not look at purged_at.
LatestAnyhow == IF Rows = {} THEN NoGame ELSE Max(Rows)

\* The latest game, unless it has been purged.
Latest == IF Rows = {} \/ games[Max(Rows)] = "purged" THEN NoGame ELSE Max(Rows)

\* restoreLiveTables, before any traffic.
Boot ==
    /\ up = "down" /\ up' = "up"
    /\ actor' = IF Latest = NoGame THEN NewActor ELSE Restored(saved[Latest], kept[Latest])
    /\ UNCHANGED <<frames, database, flight, history, restarts>>

Next ==
    \/ Start \/ Ready \/ Crash \/ Stop \/ Exit \/ Boot
    \/ \E c \in CmdId \cup {Fresh, "end"} : Play(c)
    \/ \E c \in CmdId : Repeat(c)
    \/ \E w \in flight : Land(w) \/ Fail(w)

Spec == Init /\ [][Next]_vars

-----------------------------------------------------------------------------
(* Properties. *)

DurabilityTypeOK ==
    /\ up \in {"up", "stopping", "down"}
    /\ actor.id \in {NoGame, actor.game} /\ actor.game \in 0 .. begun
    /\ actor.receipts \subseteq CmdId /\ Len(actor.window) <= Retention
    /\ games \in [Game -> {"none", "in_play", "concluded", "purged"}]
    /\ \A g \in Game : /\ saved[g] = Nothing \/ saved[g].game = g
                       /\ Cardinality(kept[g]) <= Retention

\* While a game is played under its own id, the row that a crash would restore
\* holds an earlier state of that very history, with the receipts of that state,
\* whatever the order in which the writes landed or were lost.
RowTellsThePast ==
    actor.id # NoGame /\ saved[actor.id] # Nothing =>
        LET row == saved[actor.id]
        IN  /\ IsPrefix(row.path, actor.path)
            /\ row.receipts = CmdId \cap {row.path[i][2] : i \in DOMAIN row.path}

\* A command that is retransmitted, also after a crash that lost some of what
\* followed it, stands at most once in the history that survives.
OnceInHistory ==
    \A i, j \in DOMAIN actor.path :
        i # j /\ actor.path[i][2] \in CmdId => actor.path[i][2] # actor.path[j][2]

\* A game whose material was purged is not played again, although a checkpoint
\* of it may land after the purge.
PurgedStaysDead == InPlay(actor) => games[actor.game] # "purged"

\* What a restart brings back was lived: Recovery is implemented.
Moment == IF actor.path = <<>> THEN Nothing ELSE [game |-> actor.game, path |-> actor.path]
RecoveryLog == INSTANCE Recovery WITH
    now <- Moment, dead <- {g \in Game : games[g] = "purged"}, lived <- lived
BringsBackThePast == RecoveryLog!Spec

\* The comment on readCorrectionHistory: "an emptier window, never a wrong one".
\* Of the numbers that the game has reached, the window holds the game's own states,
\* so that a rewind to one restores what the players saw then.
WindowNeverWrong ==
    InPlay(actor) => \A i \in DOMAIN actor.window :
        Len(actor.window[i]) <= Len(actor.path) => IsPrefix(actor.window[i], actor.path)
=============================================================================
