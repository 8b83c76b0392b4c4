----------------------------- MODULE TableActor -----------------------------
(***************************************************************************)
(* The host of a game: server/src/table/actor.ts with its checkpoint       *)
(* window, checkpoints.ts.  It numbers what it applies twice, with its own *)
(* wire sequence number seq (every accepted command and every seat change) *)
(* and with the game's sequence number (accepted core commands), keeps the *)
(* last Window states, and rewinds the game to one of them when all the    *)
(* other seats accept.  submit() runs to completion, so a step is one      *)
(* accepted submission.  Seats, readiness and closing are in Seating; here *)
(* they only move seq.                                                     *)
(***************************************************************************)
EXTENDS Game

CONSTANTS
    Window,         \* capacity of CheckpointHistory
    MaxSeq          \* bound: submissions per behaviour

ASSUME WindowAssumption == Window \in Nat \ {0} /\ MaxSeq \in Nat

VARIABLES
    seq,            \* the actor's wire sequence number
    gameSeq,        \* GameState.seq
    history,        \* CheckpointHistory: entries of [seq, gameSeq, game], oldest first
    asked           \* history: the actor seq named by the last correction proposal

hostVars == <<seq, gameSeq, history, asked>>
actorVars == <<vars, hostVars>>

-----------------------------------------------------------------------------
(* The machine. *)

ActorInit == Init /\ seq = 0 /\ gameSeq = 0 /\ history = <<>> /\ asked = 0

\* Mutant: never drops an entry.
RetainedForever(entry) == Append(history, entry)

\* record: push, and drop the oldest beyond the capacity.
Retained(entry) ==
    IF Len(history) < Window THEN Append(history, entry) ELSE Append(Tail(history), entry)

Numbered == seq < MaxSeq /\ seq' = seq + 1 /\ gameSeq' = gameSeq + 1
Checkpointed == history' = Retained([seq |-> seq', gameSeq |-> gameSeq', game |-> game'])

\* A new game starts a fresh window with the state right after the deal.
ActorDeal ==
    /\ seq < MaxSeq
    /\ StartDeal
    /\ seq' = seq + 1 /\ gameSeq' = 1
    /\ history' = <<[seq |-> seq', gameSeq |-> gameSeq', game |-> game']>>
    /\ UNCHANGED asked

Submit == Numbered /\ Command /\ Checkpointed /\ UNCHANGED asked

\* send_table_message and send_signal, in any lifecycle (and arrange_hand):
\* the game does not change, yet the result is numbered and checkpointed.
Remark == Numbered /\ UNCHANGED vars /\ Checkpointed /\ UNCHANGED asked

\* A seat occupied, vacated, connected, lost or (un)ready.
SeatChange ==
    /\ seq < MaxSeq /\ seq' = seq + 1
    /\ UNCHANGED <<vars, gameSeq, history, asked>>

\* Mutant: names the target in the actor's numbering.
ProposeUntranslated(s) ==
    \E i \in DOMAIN history :
        /\ Live(history[i].game) /\ Live(history[1].game)
        /\ CanPropose(game, gameSeq, history[i].seq, history[1].seq)
        /\ Numbered
        /\ Play(ProposeCorrection(game, s, history[i].seq))
        /\ Checkpointed
        /\ asked' = history[i].seq

\* The target's snapshot names the state in the game's own numbering; both it
\* and the oldest snapshot must be of a game with tiles.
Propose(s) ==
    \E i \in DOMAIN history :
        /\ Live(history[i].game) /\ Live(history[1].game)
        /\ CanPropose(game, gameSeq, history[i].gameSeq, history[1].gameSeq)
        /\ Numbered
        /\ Play(ProposeCorrection(game, s, history[i].gameSeq))
        /\ Checkpointed
        /\ asked' = history[i].seq

\* respond_correction records no checkpoint.
Answer(g) == Numbered /\ Play(g) /\ UNCHANGED <<history, asked>>

RespondReject(s) == CanRespondCorrection(game, s) /\ Answer(RejectCorrection(game))

RespondEarly(s) ==
    /\ CanRespondCorrection(game, s) /\ ~CompletesUnanimity(game, s)
    /\ Answer(AcceptCorrection(game, s))

\* findActorSeqForGameSeq: the retained snapshots that the proposal denotes.
Targets ==
    {i \in DOMAIN history : Live(history[i].game) /\ history[i].gameSeq = game.correction.rewindTo}

\* Mutant: the restored state brings its own sequence number back.
RespondLastRenumbering(s) ==
    /\ CanRespondCorrection(game, s) /\ CompletesUnanimity(game, s)
    /\ \E i \in Targets :
          /\ \A j \in Targets : i <= j
          /\ InPlay(history[i].game)
          /\ seq < MaxSeq /\ seq' = seq + 1 /\ gameSeq' = history[i].gameSeq + 1
          /\ \E w \in RestoredWalls(game, history[i].game) :
                Play(ApplyCorrection(game, history[i].game, w))
    /\ UNCHANGED <<history, asked>>

\* The last acceptance restores the target.  Without a retained target, or with
\* one that was concluding, the code throws and nothing changes.
RespondLast(s) ==
    /\ CanRespondCorrection(game, s) /\ CompletesUnanimity(game, s)
    /\ \E i \in Targets :
          /\ \A j \in Targets : i <= j
          /\ InPlay(history[i].game)
          /\ \E w \in RestoredWalls(game, history[i].game) :
                Answer(ApplyCorrection(game, history[i].game, w))

Correct == \E s \in Seat : Propose(s) \/ RespondReject(s) \/ RespondEarly(s) \/ RespondLast(s)

ActorNext == ActorDeal \/ Submit \/ Remark \/ SeatChange \/ Correct

ActorSpec == ActorInit /\ [][ActorNext]_actorVars

-----------------------------------------------------------------------------
(* Properties. *)

Entry == [seq : Nat, gameSeq : Nat, game : GameState]
Pending(g) == g.correction # NoCorrection

\* Well-formed numbers, and a window of well-formed states within its capacity.
ActorTypeOK ==
    /\ TypeOK /\ seq \in Nat /\ gameSeq \in Nat /\ asked \in Nat
    /\ history \in Seq(Entry) /\ Len(history) <= Window

\* Both numberings of the window strictly increase and end at or before the
\* present, rewinds included: so at(seq) and findActorSeqForGameSeq, which take
\* the first match, take the only one, and a proposal is never ambiguous.
HistoryOrdered ==
    /\ \A i, j \in DOMAIN history : i < j =>
          history[i].seq < history[j].seq /\ history[i].gameSeq < history[j].gameSeq
    /\ \A i \in DOMAIN history : history[i].seq <= seq /\ history[i].gameSeq <= gameSeq

\* A pending proposal, kept in the game's numbering, still denotes the snapshot
\* the proposer named in the actor's numbering, whatever was applied in between.
TargetsAgree == Pending(game) => \A i \in Targets : history[i].seq = asked

\* Through any number of rewinds, no tile is in two places, and none leaves the
\* table of a game in which no conclusion was begun over an open round.
RewindConserves == NoTileTwice /\ ConservedUnlessOverrun

\* While a correction is pending no tile moves, whatever else is accepted.
VoteFreezesTiles ==
    [][Pending(game) /\ Pending(game)' =>
          UNCHANGED <<game.wall, game.hands, game.discards, game.exposures,
                      game.inFlight, game.turn>>]_actorVars

\* During a game, tiles go back to the wall only in a step that follows the
\* consent of every other seat but the one that now answers.
WallGrowsOnlyByConsent ==
    [][Live(game) /\ Live(game)' /\ Len(game.wall') > Len(game.wall) =>
          /\ Pending(game)
          /\ Cardinality(Others(game.correction.proposer) \ game.correction.accepted) = 1]_actorVars
=============================================================================
