------------------------------ MODULE Seating ------------------------------
(***************************************************************************)
(* The table around the game: server/src/table/table.ts, and the           *)
(* operations of actor.ts that seat players, collect readiness, start a    *)
(* deal and close the table.  Of the game only its lifecycle matters here; *)
(* it concludes by Conclude, whatever led to that.                         *)
(***************************************************************************)
EXTENDS Integers, FiniteSets

CONSTANTS
    Player,     \* accounts that may sit down
    NoPlayer,   \* the occupant of a free seat
    NumSeats    \* SEAT_ORDER.length

ASSUME SeatsAssumption == NumSeats \in Nat /\ NumSeats >= 2
ASSUME PlayerAssumption == NoPlayer \notin Player

Seat == 1 .. NumSeats
NoSeat == 0

VARIABLES
    occupant,   \* seat -> player, or NoPlayer
    ready,      \* seats that are ready
    connection, \* seat -> "connected", "away" or "absent"
    host,       \* a seat, or NoSeat
    status,     \* "open", "seated", "closed"
    lifecycle,  \* of the game: "idle", "in_play" (concluding included), "concluded"
    willing     \* history: players who asked for the next game from the seat they are in

vars == <<occupant, ready, connection, host, status, lifecycle, willing>>

-----------------------------------------------------------------------------
(* The table entity. *)

Taken == {s \in Seat : occupant[s] # NoPlayer}
Free == Seat \ Taken
Lowest(S) == CHOOSE s \in S : \A r \in S : s <= r

\* Mutant: hands the table to the next seat, taken or not, and never wraps.
NextHostBlindly(from, taken) == IF taken = {} THEN NoSeat ELSE from + 1

\* nextOccupiedHost: the first taken seat after "from" in seat order.
NextHost(from, taken) ==
    LET steps(s) == (s - from + NumSeats) % NumSeats
    IN  IF taken = {} THEN NoSeat
        ELSE CHOOSE s \in taken : \A r \in taken : steps(s) <= steps(r)

AllReady == \A s \in Seat : occupant[s] # NoPlayer /\ s \in ready
GameInProgress == lifecycle = "in_play"

Init ==
    /\ occupant = [s \in Seat |-> NoPlayer]
    /\ ready = {}
    /\ connection = [s \in Seat |-> "absent"]
    /\ host = NoSeat /\ status = "open" /\ lifecycle = "idle"
    /\ willing = {}

Occupy(p) ==
    /\ status # "closed"
    /\ p \notin {occupant[s] : s \in Seat}
    /\ Free # {}
    /\ LET s == Lowest(Free)
       IN  /\ occupant' = [occupant EXCEPT ![s] = p]
           /\ ready' = ready \ {s}
           /\ connection' = [connection EXCEPT ![s] = "absent"]
           /\ status' = IF Free = {s} THEN "seated" ELSE "open"
           /\ host' = IF host = NoSeat THEN s ELSE host
    /\ UNCHANGED <<lifecycle, willing>>

\* The last seat vacated closes the table and discards the game.
Vacate(s) ==
    /\ status # "closed" /\ occupant[s] # NoPlayer /\ ~GameInProgress
    /\ occupant' = [occupant EXCEPT ![s] = NoPlayer]
    /\ ready' = ready \ {s}
    /\ connection' = [connection EXCEPT ![s] = "absent"]
    /\ host' = IF host = s THEN NextHost(s, Taken \ {s}) ELSE host
    /\ status' = IF Taken = {s} THEN "closed" ELSE "open"
    /\ lifecycle' = IF Taken = {s} THEN "idle" ELSE lifecycle
    /\ willing' = willing \ {occupant[s]}

\* The gateway's presence tracking: bind, heartbeat miss, close.
SetSeatConnection(s, c) ==
    /\ connection[s] # c
    /\ connection' = [connection EXCEPT ![s] = c]
    /\ UNCHANGED <<occupant, ready, host, status, lifecycle, willing>>

\* set_ready and clear_ready, whatever the table's status and whether or not the
\* seat is taken (the actor checks neither).
Readiness(s, on) ==
    /\ ~GameInProgress
    /\ ready' = IF on THEN ready \cup {s} ELSE ready \ {s}
    /\ willing' = IF on THEN willing \cup ({occupant[s]} \ {NoPlayer}) ELSE willing \ {occupant[s]}
    /\ UNCHANGED <<occupant, connection, host, status, lifecycle>>

CanStartDeal(s) == host = s /\ status = "seated" /\ AllReady /\ ~GameInProgress

StartDeal(s) ==
    /\ CanStartDeal(s)
    /\ lifecycle' = "in_play"
    /\ UNCHANGED <<occupant, ready, connection, host, status, willing>>

\* Mutant: leaves every seat ready.
ConcludeStillReady ==
    /\ GameInProgress
    /\ lifecycle' = "concluded" /\ willing' = {}
    /\ UNCHANGED <<occupant, ready, connection, host, status>>

\* A game that concludes clears every seat's readiness.
Conclude ==
    /\ GameInProgress
    /\ lifecycle' = "concluded" /\ ready' = {} /\ willing' = {}
    /\ UNCHANGED <<occupant, connection, host, status>>

CloseTable(s) ==
    /\ host = s /\ ~GameInProgress
    /\ status' = "closed"
    /\ UNCHANGED <<occupant, ready, connection, host, lifecycle, willing>>

\* An administrator's force-close, in any phase.
ForceClose ==
    /\ status' = "closed" /\ lifecycle' = "idle"
    /\ UNCHANGED <<occupant, ready, connection, host, willing>>

Next ==
    \/ \E p \in Player : Occupy(p)
    \/ \E s \in Seat :
          \/ Vacate(s) \/ StartDeal(s) \/ CloseTable(s)
          \/ \E c \in {"connected", "away", "absent"} : SetSeatConnection(s, c)
          \/ \E on \in BOOLEAN : Readiness(s, on)
    \/ Conclude \/ ForceClose

Spec == Init /\ [][Next]_vars

-----------------------------------------------------------------------------
(* Properties. *)

SeatingTypeOK ==
    /\ occupant \in [Seat -> Player \cup {NoPlayer}]
    /\ ready \subseteq Seat
    /\ connection \in [Seat -> {"connected", "away", "absent"}]
    /\ host \in Seat \cup {NoSeat}
    /\ status \in {"open", "seated", "closed"}
    /\ lifecycle \in {"idle", "in_play", "concluded"}
    /\ willing \subseteq Player

\* A table that is not closed is hosted by a taken seat whenever anyone is
\* there to host it: through departures of the host there is always somebody
\* who can start the game or close the table.
HostPresent ==
    status # "closed" => IF Taken = {} THEN host = NoSeat ELSE host \in Taken

\* The status says whether the table is full, and a game is only ever in
\* progress at a full table that is not closed, so play never waits for a seat
\* that nobody can fill.
StatusTellsOccupancy ==
    /\ status # "closed" => (status = "seated" <=> Free = {})
    /\ GameInProgress => status = "seated"

\* Table.tsx, the lobby (back at it, after a game concluded): nothing on the
\* wire says who hosts, so "Start dealing" is shown to every seat of a table
\* that qualifies.
LobbyShown == lifecycle # "in_play"
OffersDeal == LobbyShown /\ status = "seated" /\ ready = Seat
OffersReady(s) == LobbyShown /\ s \notin ready
OffersUnready(s) == LobbyShown /\ s \in ready

\* The lobby leads to the game: it offers the deal exactly when the actor would
\* take it from somebody seated there, and until then some seat may get ready.
LobbyLeadsToGame ==
    status # "closed" =>
        /\ OffersDeal <=> \E s \in Taken : CanStartDeal(s)
        /\ LobbyShown /\ Free = {} /\ ~OffersDeal => \E s \in Taken : OffersReady(s)

\* A table that is not closed can always go on: somebody there may start the
\* game or close it, a game in progress waits for no empty seat, and the lobby
\* offers what it takes to begin.
TableCanGoOn == HostPresent /\ StatusTellsOccupancy /\ LobbyLeadsToGame

\* A game starts only when every seat's present occupant has agreed to it since
\* the last game concluded: neither a predecessor in the seat nor the previous
\* game's agreement counts.
GamesAreAgreed ==
    [][~GameInProgress /\ GameInProgress' =>
          {occupant[s] : s \in Seat} \subseteq willing]_vars
=============================================================================
