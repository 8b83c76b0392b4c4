------------------------------ MODULE Gateway ------------------------------
(***************************************************************************)
(* The gateway of one table: server/src/gateway, with what it uses of the  *)
(* actor (numbering, frame logs, presence, receipts) and of the client     *)
(* (web/src/ws).  Every handler runs to completion, so it is one step; only *)
(* the revocation poll awaits between its reads and its writes.            *)
(*                                                                         *)
(* The game is what the gateway can tell of it: whether one is in play,    *)
(* and which seats hold a pause.  A frame's view is the view at its number *)
(* (projectTableView at seq), and a client replaces its view wholesale, so *)
(* a view is a number.  A frame log holds the numbers of event frames and  *)
(* 0 for a reject frame.  Binds that fail (no ticket, deadline, origin)    *)
(* close a socket that nothing knows and are not steps.                    *)
(*                                                                         *)
(* Definitions marked "Mutant" are mistakes that the properties detect.    *)
(***************************************************************************)
EXTENDS Integers, Sequences, SequencesExt, FiniteSetsExt

CONSTANTS
    NumSeats,       \* SEAT_ORDER.length
    Player,         \* accounts, each with one session
    Owner,          \* Owner[s]: who sits at s when the behaviour begins
    NoPlayer,       \* the occupant of a free seat
    Socket,         \* sockets open at a time
    NoSocket,       \* the connection of an unbound seat
    CmdId,          \* command identifiers that are retransmitted
    FreshId,        \* stands for an identifier used once
    Backlog,        \* BACKLOG_DEPTH
    Polling,        \* whether the gateway was given an isSessionActive to poll
    Kinds,          \* bound: kinds of commands sent
    Leavers,        \* bound: players who may leave their seat or sit down
    Mortal,         \* bound: players whose session may end
    Frail,          \* bound: sockets that may miss heartbeats or be closed by the gateway
    MaxTickets,     \* bound: tickets outstanding at a time
    MaxSeq          \* bound: the wire number is below this when a step adds to it

Seat == 1 .. NumSeats

ASSUME GatewayAssumption ==
    /\ NumSeats \in Nat \ {0} /\ Backlog \in Nat \ {0}
    /\ NoSocket \notin Socket /\ FreshId \notin CmdId /\ NoPlayer \notin Player
    /\ MaxSeq \in Nat /\ MaxTickets \in Nat /\ Owner \in [Seat -> Player \cup {NoPlayer}]

VARIABLES
    g,          \* the actor's wire state, the connection map and the sockets
    frames,     \* TableGateway.receipts: CmdId -> the frame to repeat
    tickets,    \* outstanding connect tickets
    active,     \* players whose session is active (in the database)
    poll,       \* checkSessionRevocation: connections still to check
    verdict,    \* its awaited answer: connections found inactive
    applied,    \* history: how often each CmdId was applied
    informed    \* history: whether every sensitive decision was made on the latest public view

vars == <<g, frames, tickets, active, poll, verdict, applied, informed>>

-----------------------------------------------------------------------------
(* Data. *)

Idle == [phase |-> "idle"]
NoFrame == [seat |-> 0, seq |-> 0]

\* What a command does if accepted: how many frames it puts in each log, and
\* whether it is staleness-checked.  A GameConcluded comes with the response
\* that caused it; only HandArranged has no wire event.
FramesOf(kind) ==
    CASE kind = "arrange" -> 0 [] kind = "conclude" -> 2 [] kind = "start" -> 3 [] OTHER -> 1

Sensitive(kind) == kind \in {"claim", "conclude"}

\* What the actor accepts, as far as the gateway's own actions depend on it.
Acceptable(h, s, kind) ==
    CASE kind = "start" -> ~h.inPlay /\ ~h.closed /\ \A r \in Seat : h.tenant[r] # NoPlayer
      [] kind = "close" -> ~h.inPlay
      [] kind = "chat" -> TRUE
      [] kind = "conclude" -> h.inPlay
      [] kind = "pause" -> h.inPlay /\ s \notin h.holders
      [] kind = "unpause" -> h.inPlay /\ s \in h.holders
      [] OTHER -> h.inPlay /\ h.holders = {}

Bound(h) == {s \in Seat : h.conns[s] # NoSocket}

-----------------------------------------------------------------------------
(* The actor's frame logs. *)

\* Mutant: trims one frame late.
TrimmedLate(log) == SubSeq(log, Max({1, Len(log) - Backlog}), Len(log))

Trimmed(log) == SubSeq(log, Max({1, Len(log) - Backlog + 1}), Len(log))

\* Every event goes to every seat's log, each copy with that seat's view.
Broadcast(h, n) ==
    LET q == h.seq + 1
    IN  [h EXCEPT !.seq = q,
                  !.latest = IF n = 0 THEN @ ELSE q,
                  !.log = [s \in Seat |-> Trimmed(h.log[s] \o [i \in 1 .. n |-> q])]]

\* A rejected submission leaves a reject frame in the sender's log.
Refused(h, s) == [h EXCEPT !.log[s] = Trimmed(Append(@, 0))]

SetSeatConnection(h, s, c) ==
    IF h.presence[s] = c THEN h ELSE Broadcast([h EXCEPT !.presence[s] = c], 1)

-----------------------------------------------------------------------------
(* Delivery. *)

\* Events in the log of a bound seat beyond its cursor.
New(h, s) == {q \in ToSet(h.log[s]) : q > h.sock[h.conns[s]].cursor}

\* useTableLive: the view of a frame replaces the client's view; nothing is sent to
\* a socket that is being closed.
Sees(c, view) == [c EXCEPT !.shown = IF c.closing THEN @ ELSE view]

\* One connection sent what is new to it: the cursor follows each frame sent, so
\* of several frames with one number only the first passes.
SentTo(h, s) ==
    LET c == h.sock[h.conns[s]]
        last == Max(New(h, s))
    IN  Sees([c EXCEPT !.cursor = last], last)

\* Mutant: moves every cursor to the present, also when frames were sent to some.
DeliverForgetful(h) ==
    [h EXCEPT !.sock = [k \in Socket |->
        IF \E s \in Bound(h) : h.conns[s] = k THEN [h.sock[k] EXCEPT !.cursor = h.seq] ELSE h.sock[k]]]

\* deliverNewFrames: when nothing was sent to anyone, nobody fell behind.
Deliver(h) ==
    LET behind == {s \in Bound(h) : New(h, s) # {}}
        Holds(k, S) == \E s \in S : h.conns[s] = k
    IN  [h EXCEPT !.sock = [k \in Socket |->
            IF Holds(k, behind) THEN SentTo(h, h.sock[k].seat)
            ELSE IF behind = {} /\ Holds(k, Bound(h)) THEN [h.sock[k] EXCEPT !.cursor = h.seq]
            ELSE h.sock[k]]]

Closing(h, k) == IF k = NoSocket THEN h ELSE [h EXCEPT !.sock[k].closing = TRUE]

-----------------------------------------------------------------------------
(* Presence and the pause. *)

\* Mutant: pauses before the seat is marked, and only if it was connected.
AutoPauseIfConnected(h, s) ==
    IF h.presence[s] = "connected" /\ h.inPlay /\ s \notin h.holders
    THEN Deliver(Broadcast([h EXCEPT !.holders = @ \cup {s}], 1))
    ELSE Refused(h, s)

\* autoPauseOnAbsence: request_pause on behalf of the seat.
AutoPause(h, s) ==
    IF h.inPlay /\ s \notin h.holders
    THEN Deliver(Broadcast([h EXCEPT !.holders = @ \cup {s}], 1))
    ELSE Refused(h, s)

\* autoResumeOnReturn.
AutoResume(h, s) ==
    IF h.inPlay /\ s \in h.holders
    THEN Deliver(Broadcast([h EXCEPT !.holders = @ \ {s}], 1))
    ELSE Refused(h, s)

\* A connection that ends: only the one in the map marks its seat absent.
Gone(h, k) ==
    LET s == h.sock[k].seat
        bare == [h EXCEPT !.sock[k] = Idle]
    IN  IF h.conns[s] # k THEN bare
        ELSE AutoPause(Deliver(SetSeatConnection([bare EXCEPT !.conns[s] = NoSocket], s, "absent")), s)

-----------------------------------------------------------------------------
(* The machine. *)

Init ==
    /\ g = [seq |-> 0, latest |-> 0, log |-> [s \in Seat |-> <<>>],
            conns |-> [s \in Seat |-> NoSocket], sock |-> [k \in Socket |-> Idle],
            presence |-> [s \in Seat |-> "absent"], tenant |-> Owner,
            inPlay |-> FALSE, holders |-> {}, closed |-> FALSE, withheld |-> FALSE,
            excused |-> {}]
    /\ frames = [c \in CmdId |-> NoFrame]
    /\ tickets = {} /\ active = Player /\ poll = {} /\ verdict = {}
    /\ applied = [c \in CmdId |-> 0]
    /\ informed = TRUE

Talking == UNCHANGED <<tickets, active, poll, verdict>>
Silent == UNCHANGED <<frames, applied, informed>>

\* issueConnectTicket: for a seated player with an active session.
Issue(s) ==
    /\ g.tenant[s] \in active /\ Cardinality(tickets) < MaxTickets
    /\ tickets' = tickets \cup {[seat |-> s, player |-> g.tenant[s]]}
    /\ UNCHANGED <<g, active, poll, verdict>> /\ Silent

Expire(t) == tickets' = tickets \ {t} /\ UNCHANGED <<g, active, poll, verdict>> /\ Silent

\* Mutant: the older connection is replaced but not closed.
BindBeside(k, t) ==
    /\ g.seq < MaxSeq /\ g.sock[k] = Idle /\ ~ \E s \in Seat : <<s, k>> \in poll \cup verdict
    /\ tickets' = tickets \ {t}
    /\ LET conn == [phase |-> "bound", seat |-> t.seat, player |-> t.player, late |-> FALSE,
                    cursor |-> g.seq, shown |-> 0, closing |-> FALSE, misses |-> 0]
           opened == [g EXCEPT !.conns[t.seat] = k, !.sock[k] = conn, !.excused = @ \ {t.seat}]
       IN  g' = AutoResume(Deliver(SetSeatConnection(opened, t.seat, "connected")), t.seat)
    /\ UNCHANGED <<active, poll, verdict>> /\ Silent

\* handleBind: redeem the ticket, close the seat's older connection, take its place.
Bind(k, t) ==
    /\ g.seq < MaxSeq /\ g.sock[k] = Idle /\ ~ \E s \in Seat : <<s, k>> \in poll \cup verdict
    /\ tickets' = tickets \ {t}
    /\ LET conn == [phase |-> "bound", seat |-> t.seat, player |-> t.player,
                    late |-> g.tenant[t.seat] # t.player,
                    cursor |-> g.seq, shown |-> 0, closing |-> FALSE, misses |-> 0]
           opened == [Closing(g, g.conns[t.seat]) EXCEPT !.conns[t.seat] = k, !.sock[k] = conn,
                                                         !.excused = @ \ {t.seat}]
       IN  g' = AutoResume(Deliver(SetSeatConnection(opened, t.seat, "connected")), t.seat)
    /\ UNCHANGED <<active, poll, verdict>> /\ Silent

\* The socket's close event, whoever closed it.
OnClose(k) == g.seq < MaxSeq /\ g' = Gone(g, k) /\ Talking /\ Silent

\* startHeartbeat: the first missed pong marks the seat away, the second terminates.
Miss(k) ==
    /\ g.seq < MaxSeq /\ k \in Frail
    /\ LET s == g.sock[k].seat
           missed == [g EXCEPT !.sock[k].misses = 1]
       IN  g' = IF g.sock[k].misses = 1 THEN Gone(g, k)
                ELSE IF g.conns[s] = k THEN Deliver(SetSeatConnection(missed, s, "away"))
                ELSE missed
    /\ Talking /\ Silent

\* A pong forgives the misses and tells nobody.
Pong(k) ==
    /\ g.sock[k].misses > 0 /\ ~g.sock[k].closing
    /\ g' = [g EXCEPT !.sock[k].misses = 0]
    /\ Talking /\ Silent

\* An ill-formed or out-of-sequence frame, a second bind, or a consumer too slow
\* for what was sent to it: the socket is closed, and its close event follows.
CloseSocket(k) == k \in Frail /\ ~g.sock[k].closing /\ g' = Closing(g, k) /\ Talking /\ Silent

\* rejectAndRecord.
Recorded(c, s, q) == frames' = IF c \in CmdId THEN [frames EXCEPT ![c] = [seat |-> s, seq |-> q]] ELSE frames

\* A frame over the rate is refused, whatever it was.  (The streak of refusals
\* after which the socket is closed is not counted: CloseSocket.)
Throttle(k, c) ==
    /\ c \in CmdId /\ Recorded(c, g.sock[k].seat, 0)
    /\ UNCHANGED <<g, applied, informed>> /\ Talking

\* A command with ill-formed parameters.
Malformed(k, c) ==
    /\ g.sock[k].phase = "ready"
    /\ c \in CmdId /\ Recorded(c, g.sock[k].seat, 0)
    /\ UNCHANGED <<g, applied, informed>> /\ Talking

\* handleResume: replay the backlog after last, or send a view if there is a gap.
\* The numbers of a log ascend: its first event after last has the least of them.
Resume(k, last) ==
    LET c == g.sock[k]
        backlog == {q \in ToSet(g.log[c.seat]) : q > last}
        gap == IF backlog = {} THEN last < g.seq ELSE Min(backlog) # last + 1
        view == IF gap THEN g.seq ELSE IF backlog = {} THEN c.shown ELSE Max(backlog)
    IN  /\ g' = [g EXCEPT !.sock[k] = Sees([c EXCEPT !.phase = "ready", !.cursor = g.seq], view)]
        /\ Talking /\ Silent

\* The game's part of an accepted command.
Played(h, s, k, kind) ==
    CASE kind = "start" -> [h EXCEPT !.inPlay = TRUE, !.holders = {},
                                     !.excused = {r \in Seat : h.presence[r] = "absent"}]
      [] kind = "conclude" -> [h EXCEPT !.inPlay = FALSE, !.holders = {}, !.excused = {}]
      [] kind = "close" -> [h EXCEPT !.closed = TRUE]
      [] kind = "pause" -> [h EXCEPT !.holders = @ \cup {s}]
      [] kind = "unpause" -> [h EXCEPT !.holders = @ \ {s},
                                       !.excused = IF h.conns[s] = k THEN @ ELSE @ \cup {s}]
      [] OTHER -> h

Stale(k, kind) == Sensitive(kind) /\ g.sock[k].cursor < g.seq

\* Mutant: consults no receipt.
AdmitAgain(k, kind, c) == g.sock[k].phase = "ready" /\ ~Stale(k, kind)

\* A well-formed command that is neither a repetition nor stale reaches the actor.
Admit(k, kind, c) ==
    /\ g.sock[k].phase = "ready"
    /\ c \in CmdId => frames[c] = NoFrame
    /\ ~Stale(k, kind)

\* The command is applied, acknowledged, recorded and delivered.  (In the life of
\* a process the actor knows no identifier that frames does not: see Durability.)
Accept(k, kind, c) ==
    LET s == g.sock[k].seat
        played == Broadcast(Played(g, s, k, kind), FramesOf(kind))
    IN  /\ g.seq < MaxSeq /\ Admit(k, kind, c)
        /\ Acceptable(g, s, kind)
        /\ g' = Deliver(played)
        /\ Recorded(c, s, g'.seq)
        /\ applied' = IF c \in CmdId THEN [applied EXCEPT ![c] = @ + 1] ELSE applied
        /\ informed' = (informed /\ (Sensitive(kind) /\ ~g.sock[k].closing => g.sock[k].shown >= g.latest))
        /\ Talking

\* The actor refuses.
Refuse(k, kind, c) ==
    /\ Admit(k, kind, c) /\ ~Acceptable(g, g.sock[k].seat, kind)
    /\ g' = Refused(g, g.sock[k].seat)
    /\ Recorded(c, g.sock[k].seat, 0)
    /\ UNCHANGED <<applied, informed>> /\ Talking

\* STALE_STATE.
RefuseStale(k, kind, c) ==
    /\ g.sock[k].phase = "ready" /\ Stale(k, kind)
    /\ c \in CmdId /\ frames[c] = NoFrame /\ Recorded(c, g.sock[k].seat, 0)
    /\ UNCHANGED <<g, applied, informed>> /\ Talking

\* The table is closed and the game discarded, in any phase.
Shut(h) == Broadcast([h EXCEPT !.closed = TRUE, !.inPlay = FALSE, !.holders = {}, !.excused = {}], 1)

\* The actor's vacateSeat: the last seat vacated closes the table.
Vacated(h, s) ==
    LET left == Broadcast([h EXCEPT !.tenant[s] = NoPlayer, !.presence[s] = "absent"], 1)
    IN  IF \A r \in Seat : left.tenant[r] = NoPlayer THEN Shut(left) ELSE left

\* vacateSeat: with its connection, which would go on receiving the seat's views.
Vacate(s) ==
    /\ g.seq < MaxSeq /\ ~g.inPlay /\ ~g.closed /\ g.tenant[s] \in Leavers
    /\ LET left == Deliver(Vacated(g, s))
       IN  g' = [Closing(left, g.conns[s]) EXCEPT !.conns[s] = NoSocket]
    /\ Talking /\ Silent

\* occupySeat, then deliverPendingFrames.
Occupy(s, p) ==
    /\ g.seq < MaxSeq /\ ~g.closed /\ g.tenant[s] = NoPlayer /\ p \in Leavers \ {g.tenant[r] : r \in Seat}
    /\ g' = Deliver(Broadcast([g EXCEPT !.tenant[s] = p, !.presence[s] = "absent"], 1))
    /\ Talking /\ Silent

\* close_table over REST: submitted to the actor, and nothing delivers its event.
RestClose ==
    /\ g.seq < MaxSeq /\ ~g.inPlay /\ ~g.closed
    /\ g' = Broadcast([g EXCEPT !.closed = TRUE, !.withheld = TRUE], 1)
    /\ Talking /\ Silent

\* An administrator's force-close.
ForceClose ==
    /\ g.seq < MaxSeq
    /\ g' = Deliver(Shut(g))
    /\ Talking /\ Silent

\* The player's session ends: log-out, revocation, expiry, a disabled account.
EndSession(p) ==
    /\ active' = active \ {p}
    /\ UNCHANGED <<g, tickets, poll, verdict>> /\ Silent

\* checkSessionRevocation: snapshot the connections, ask for each in turn, and
\* act on the answer if the connection is still the seat's.
PollStart ==
    /\ Polling /\ poll = {} /\ verdict = {} /\ Bound(g) # {}
    /\ poll' = {<<s, g.conns[s]>> : s \in Bound(g)}
    /\ UNCHANGED <<g, tickets, active, verdict>> /\ Silent

PollAsk(s, k) ==
    /\ <<s, k>> \in poll /\ verdict = {}
    /\ poll' = poll \ {<<s, k>>}
    /\ verdict' = IF g.sock[k] # Idle /\ g.sock[k].player \notin active THEN {<<s, k>>} ELSE {}
    /\ UNCHANGED <<g, tickets, active>> /\ Silent

\* Mutant: leaves the map entry to the close event, which may never come.
PollActLeavesEntry(s, k) ==
    /\ <<s, k>> \in verdict /\ verdict' = {}
    /\ g' = IF g.conns[s] = k THEN Closing(g, k) ELSE g
    /\ UNCHANGED <<tickets, active, poll>> /\ Silent

PollAct(s, k) ==
    /\ <<s, k>> \in verdict /\ verdict' = {}
    /\ g' = IF g.conns[s] = k THEN [Closing(g, k) EXCEPT !.conns[s] = NoSocket] ELSE g
    /\ UNCHANGED <<tickets, active, poll>> /\ Silent

Poll == PollStart \/ \E s \in Seat, k \in Socket : PollAsk(s, k) \/ PollAct(s, k)

\* TableSocket, once bound: from 0, its default and what the table screen leaves it
\* at, or from the last view it was shown.
ResumesFrom(c) == {0, c.shown}

\* A frame arrives on a bound connection.  After the server has closed a socket
\* messages that were under way still arrive, until its close event.
Frame(k) ==
    \/ \E c \in CmdId \cup {FreshId} : Throttle(k, c) \/ Malformed(k, c)
    \/ \E last \in ResumesFrom(g.sock[k]) : Resume(k, last)
    \/ \E kind \in Kinds, c \in CmdId \cup {FreshId} :
          Accept(k, kind, c) \/ Refuse(k, kind, c) \/ RefuseStale(k, kind, c)

Next ==
    \/ \E k \in Socket : g.sock[k] # Idle /\ (OnClose(k) \/ Miss(k) \/ Pong(k) \/ CloseSocket(k) \/ Frame(k))
    \/ \E k \in Socket, t \in tickets : Bind(k, t)
    \/ \E t \in tickets : Expire(t)
    \/ \E s \in Seat : Issue(s) \/ Vacate(s) \/ \E p \in active : Occupy(s, p)
    \/ RestClose \/ ForceClose \/ Poll
    \/ \E p \in active \cap Mortal : EndSession(p)

\* Timers and the database keep answering: the poll's next step is always taken.
Spec == Init /\ [][Next]_vars /\ WF_vars(Poll)

-----------------------------------------------------------------------------
(* Properties. *)

Connection ==
    [phase : {"bound", "ready"}, seat : Seat, player : Player, late : BOOLEAN, cursor : Nat,
     shown : Nat, closing : BOOLEAN, misses : 0 .. 1]

GatewayTypeOK ==
    /\ g.seq \in Nat /\ g.latest \in 0 .. g.seq
    /\ \A s \in Seat : g.log[s] \in Seq(0 .. g.seq) /\ Len(g.log[s]) <= Backlog
    /\ g.conns \in [Seat -> Socket \cup {NoSocket}]
    /\ \A k \in Socket : g.sock[k] \in Connection \cup {Idle}
    /\ \A s \in Bound(g) : g.sock[g.conns[s]] # Idle /\ g.sock[g.conns[s]].seat = s
    /\ g.presence \in [Seat -> {"connected", "away", "absent"}]
    /\ g.tenant \in [Seat -> Player \cup {NoPlayer}] /\ g.holders \subseteq Seat

\* A retransmitted command is applied at most once in the life of the process,
\* through throttling, reconnection, a table closed and games started between
\* its transmissions, though receipts are overwritten and cleared meanwhile.
AppliedOnce == \A c \in CmdId : applied[c] <= 1

\* The staleness check: a decision that depends on the table's state is applied
\* only when the deciding connection has been sent the view of everything that
\* is public, though its cursor is also moved by binds and by silent commands.
DecidedOnShown == informed

\* A seat's connection that has resumed has been shown everything that is public,
\* through lost cursors, silent commands and a trimmed log; it can be behind only
\* once the table was closed over REST, whose event nothing delivers.
ShownUpToDate ==
    \A s \in Bound(g) :
        LET c == g.sock[g.conns[s]]
        IN  c.phase = "ready" /\ ~c.closing =>
                c.shown >= g.latest \/ g.withheld

\* Absence pauses: a seat absent from a game in play holds it until it returns,
\* unless it was absent when the game began or was released by a message of a
\* connection that had been replaced.
AbsentSeatHolds ==
    g.inPlay => \A s \in Seat : g.presence[s] = "absent" => s \in g.holders \cup g.excused

\* Every connection that is not its seat's is being closed, and a seat's is its
\* occupant's, unless its ticket was older than the vacancy when it was redeemed.
OneVoicePerSeat ==
    \A k \in Socket : g.sock[k] # Idle =>
        LET c == g.sock[k]
        IN  IF g.conns[c.seat] = k THEN g.tenant[c.seat] = c.player \/ c.late ELSE c.closing

\* A live connection of an ended session does not last.
RevokedIsClosed ==
    \A s \in Seat, k \in Socket :
        g.conns[s] = k /\ g.sock[k].player \notin active ~> g.conns[s] # k
=============================================================================
