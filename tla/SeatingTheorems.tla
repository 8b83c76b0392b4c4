-------------------------- MODULE SeatingTheorems --------------------------
(***************************************************************************)
(* The table around the game, for any number of seats and any set of       *)
(* players.                                                                *)
(***************************************************************************)
EXTENDS Seating, WellFoundedInduction, TLAPS

\* A non-empty set of natural numbers has a least element.
LEMMA LeastNatural ==
    ASSUME NEW T, T \subseteq Nat, T # {}
    PROVE  \E x \in T : \A y \in T : x <= y
<1>1. \E x \in T : \A y \in T : ~(<<y, x>> \in OpToRel(<, Nat))
  BY NatLessThanWellFounded, WFMin
<1>2. PICK x \in T : \A y \in T : ~(<<y, x>> \in OpToRel(<, Nat))
  BY <1>1
<1>3. ASSUME NEW y \in T PROVE x <= y
  <2>1. x \in Nat /\ y \in Nat /\ <<y, x>>[1] = y /\ <<y, x>>[2] = x
    BY <1>2
  <2>2. ~(<<y, x>>[1] < <<y, x>>[2])
    BY <1>2, <2>1, Zenon DEF OpToRel
  <2>3. ~(y < x)
    BY <2>1, <2>2
  <2> QED BY <2>1, <2>3
<1> QED BY <1>2, <1>3

\* The lowest of some seats is one of them.
LEMMA LowestIn ==
    ASSUME NEW S, S \subseteq Seat, S # {}
    PROVE  Lowest(S) \in S
<1>1. \E s \in S : \A r \in S : s <= r
  <2>1. S \subseteq Nat
    BY SeatsAssumption DEF Seat
  <2> QED BY <2>1, LeastNatural, Zenon
<1> QED BY <1>1 DEF Lowest

\* The next host is a taken seat.
LEMMA NextHostIn ==
    ASSUME NEW from \in Seat, NEW taken, taken \subseteq Seat, taken # {}
    PROVE  NextHost(from, taken) \in taken
<1> DEFINE steps(s) == (s - from + NumSeats) % NumSeats
           Steps == {steps(s) : s \in taken}
<1>1. \A s \in taken : steps(s) \in Nat
  BY SeatsAssumption DEF Seat
<1>2. PICK x \in Steps : \A y \in Steps : x <= y
  <2>1. Steps \subseteq Nat /\ Steps # {}
    BY <1>1
  <2> QED BY <2>1, LeastNatural
<1>3. \E s \in taken : \A r \in taken : steps(s) <= steps(r)
  <2>1. PICK s \in taken : x = steps(s)
    BY <1>2
  <2>2. \A r \in taken : steps(r) \in Steps
    OBVIOUS
  <2> QED BY <1>2, <2>1, <2>2
<1>4. NextHost(from, taken) = CHOOSE s \in taken : \A r \in taken : steps(s) <= steps(r)
  BY DEF NextHost
<1> HIDE DEF steps
<1> QED BY <1>3, <1>4

-----------------------------------------------------------------------------
(* The invariant. *)

\* Nobody sits twice, and a ready seat's occupant has asked for the next game:
\* readiness dies with the occupancy and with the game it was given for.
OneSeatEach == \A s, r \in Seat : occupant[s] = occupant[r] /\ occupant[s] # NoPlayer => s = r
ReadyIsWilling == \A s \in ready : occupant[s] # NoPlayer => occupant[s] \in willing

Kept == SeatingTypeOK /\ HostPresent /\ StatusTellsOccupancy /\ OneSeatEach /\ ReadyIsWilling

LEMMA InitKept == Init => Kept
<1> SUFFICES ASSUME Init PROVE Kept
  OBVIOUS
<1>1. Taken = {} /\ Free # {}
  BY SeatsAssumption DEF Init, Taken, Free, Seat
<1>2. SeatingTypeOK /\ OneSeatEach /\ ReadyIsWilling
  BY DEF Init, SeatingTypeOK, OneSeatEach, ReadyIsWilling
<1>3. HostPresent /\ StatusTellsOccupancy
  BY <1>1 DEF Init, HostPresent, StatusTellsOccupancy, GameInProgress
<1> QED BY <1>2, <1>3 DEF Kept

LEMMA OccupyKept ==
    ASSUME Kept, NEW p \in Player, Occupy(p)
    PROVE  Kept'
<1> DEFINE s == Lowest(Free)
<1> USE DEF Kept
<1>1. s \in Seat /\ occupant[s] = NoPlayer
  BY LowestIn DEF Occupy, Free, Taken
<1>2. /\ occupant' = [occupant EXCEPT ![s] = p]
      /\ ready' = ready \ {s}
      /\ connection' = [connection EXCEPT ![s] = "absent"]
      /\ status' = IF Free = {s} THEN "seated" ELSE "open"
      /\ host' = IF host = NoSeat THEN s ELSE host
      /\ lifecycle' = lifecycle /\ willing' = willing
      /\ status # "closed" /\ p \notin {occupant[r] : r \in Seat} /\ p # NoPlayer
  BY PlayerAssumption DEF Occupy
<1> HIDE DEF s
<1>3. SeatingTypeOK'
  BY <1>1, <1>2 DEF SeatingTypeOK
<1>4. Taken' = Taken \cup {s} /\ Free' = Free \ {s} /\ s \in Free
  BY <1>1, <1>2 DEF Taken, Free, SeatingTypeOK
<1>5. HostPresent'
  BY <1>1, <1>2, <1>4 DEF HostPresent, SeatingTypeOK, NoSeat, Seat
<1>6. StatusTellsOccupancy'
  BY <1>2, <1>4 DEF StatusTellsOccupancy, GameInProgress
<1>7. OneSeatEach'
  BY <1>1, <1>2 DEF OneSeatEach, SeatingTypeOK
<1>8. ReadyIsWilling'
  BY <1>1, <1>2 DEF ReadyIsWilling, SeatingTypeOK
<1> QED BY <1>3, <1>5, <1>6, <1>7, <1>8

LEMMA VacateKept ==
    ASSUME Kept, NEW s \in Seat, Vacate(s)
    PROVE  Kept'
<1> USE DEF Kept
<1>1. /\ occupant' = [occupant EXCEPT ![s] = NoPlayer]
      /\ ready' = ready \ {s}
      /\ connection' = [connection EXCEPT ![s] = "absent"]
      /\ host' = IF host = s THEN NextHost(s, Taken \ {s}) ELSE host
      /\ status' = IF Taken = {s} THEN "closed" ELSE "open"
      /\ lifecycle' = IF Taken = {s} THEN "idle" ELSE lifecycle
      /\ willing' = willing \ {occupant[s]}
      /\ status # "closed" /\ occupant[s] # NoPlayer /\ ~GameInProgress
  BY DEF Vacate
<1>2. Taken' = Taken \ {s} /\ s \in Taken /\ Taken \subseteq Seat /\ s \in Free'
  BY <1>1 DEF Taken, Free, SeatingTypeOK
<1>3. Taken \ {s} # {} => NextHost(s, Taken \ {s}) \in Taken \ {s}
  BY <1>2, NextHostIn
<1>4. Taken \ {s} = {} => NextHost(s, Taken \ {s}) = NoSeat
  BY DEF NextHost
<1>5. SeatingTypeOK'
  <2>1. host' \in Seat \cup {NoSeat}
    BY <1>1, <1>2, <1>3, <1>4 DEF SeatingTypeOK
  <2> QED BY <1>1, <2>1 DEF SeatingTypeOK
<1>6. HostPresent'
  BY <1>1, <1>2, <1>3, <1>4 DEF HostPresent
<1>7. StatusTellsOccupancy'
  BY <1>1, <1>2 DEF StatusTellsOccupancy, GameInProgress
<1>8. OneSeatEach'
  BY <1>1 DEF OneSeatEach, SeatingTypeOK
<1>9. ReadyIsWilling'
  BY <1>1 DEF ReadyIsWilling, OneSeatEach, SeatingTypeOK
<1> QED BY <1>5, <1>6, <1>7, <1>8, <1>9

LEMMA ReadinessKept ==
    ASSUME Kept, NEW s \in Seat, NEW on \in BOOLEAN, Readiness(s, on)
    PROVE  Kept'
<1> USE DEF Kept
<1>1. /\ ready' = IF on THEN ready \cup {s} ELSE ready \ {s}
      /\ willing' = IF on THEN willing \cup ({occupant[s]} \ {NoPlayer}) ELSE willing \ {occupant[s]}
      /\ UNCHANGED <<occupant, connection, host, status, lifecycle>>
  BY DEF Readiness
<1>2. SeatingTypeOK'
  BY <1>1 DEF SeatingTypeOK
<1>3. HostPresent' /\ StatusTellsOccupancy' /\ OneSeatEach'
  BY <1>1 DEF HostPresent, StatusTellsOccupancy, OneSeatEach, GameInProgress, Taken, Free
<1>4. ReadyIsWilling'
  BY <1>1 DEF ReadyIsWilling, OneSeatEach, SeatingTypeOK
<1> QED BY <1>2, <1>3, <1>4

LEMMA NextKept == Kept /\ [Next]_vars => Kept'
<1> SUFFICES ASSUME Kept, [Next]_vars PROVE Kept'
  OBVIOUS
<1> USE DEF Kept, SeatingTypeOK, HostPresent, StatusTellsOccupancy, OneSeatEach, ReadyIsWilling,
            Taken, Free, GameInProgress
<1>1. ASSUME NEW s \in Seat, StartDeal(s) PROVE Kept'
  BY <1>1 DEF StartDeal, CanStartDeal, AllReady
<1>2. ASSUME NEW s \in Seat, CloseTable(s) PROVE Kept'
  BY <1>2 DEF CloseTable
<1>3. ASSUME NEW s \in Seat, NEW c \in {"connected", "away", "absent"}, SetSeatConnection(s, c)
      PROVE  Kept'
  BY <1>3 DEF SetSeatConnection
<1>4. CASE Conclude
  BY <1>4 DEF Conclude
<1>5. CASE ForceClose
  BY <1>5 DEF ForceClose
<1>6. CASE UNCHANGED vars
  BY <1>6 DEF vars
<1> QED BY <1>1, <1>2, <1>3, <1>4, <1>5, <1>6, OccupyKept, VacateKept, ReadinessKept DEF Next

\* What is kept, and what a step may not do.
THEOREM AlwaysKept == Spec => []Kept
BY InitKept, NextKept, PTL DEF Spec

\* Every seat, flag and status is of its type.
THEOREM SeatingTypeCorrect == Spec => []SeatingTypeOK
<1>1. Kept => SeatingTypeOK
  BY DEF Kept
<1> QED BY <1>1, AlwaysKept, PTL

\* Whenever somebody is at a table that is not closed, a taken seat hosts it; its
\* status tells whether it is full, and only a full table plays.
THEOREM HostAndStatus == Spec => [](HostPresent /\ StatusTellsOccupancy)
<1>1. Kept => HostPresent /\ StatusTellsOccupancy
  BY DEF Kept
<1> QED BY <1>1, AlwaysKept, PTL

\* The lobby of a full table offers the deal when the host may start it, and to get
\* ready as long as somebody is not.
LEMMA LobbyLeads == Kept => LobbyLeadsToGame
<1> SUFFICES ASSUME Kept, status # "closed" PROVE LobbyLeadsToGame
  BY DEF LobbyLeadsToGame
<1>1. /\ ready \subseteq Seat /\ Taken \subseteq Seat
      /\ status = "seated" <=> Taken = Seat
      /\ status = "seated" => host \in Taken
  <2>1. status = "seated" <=> Free = {}
    BY DEF Kept, StatusTellsOccupancy
  <2>2. Seat # {}
    BY SeatsAssumption DEF Seat
  <2> QED BY <2>1, <2>2 DEF Kept, SeatingTypeOK, HostPresent, Free, Taken
<1>2. AllReady <=> Taken = Seat /\ ready = Seat
  BY <1>1 DEF AllReady, Taken
<1>3. OffersDeal <=> \E s \in Taken : CanStartDeal(s)
  BY <1>1, <1>2 DEF OffersDeal, LobbyShown, CanStartDeal, GameInProgress
<1>4. LobbyShown /\ Free = {} /\ ~OffersDeal => \E s \in Taken : OffersReady(s)
  <2> SUFFICES ASSUME LobbyShown, Free = {}, ~OffersDeal
               PROVE  \E s \in Taken : OffersReady(s)
    OBVIOUS
  <2>1. Taken = Seat
    BY <1>1 DEF Free
  <2>2. ready # Seat
    BY <1>1, <2>1 DEF OffersDeal
  <2> QED BY <1>1, <2>1, <2>2 DEF OffersReady
<1> QED BY <1>3, <1>4 DEF LobbyLeadsToGame

\* A table that is not closed can always go on: through every departure somebody
\* there may start the game or close the table, and the lobby offers what it takes.
THEOREM TableAlwaysGoesOn == Spec => []TableCanGoOn
<1>1. Kept => TableCanGoOn
  BY LobbyLeads DEF Kept, TableCanGoOn
<1> QED BY <1>1, AlwaysKept, PTL

\* A game starts only when the present occupant of every seat has asked for it.
THEOREM StartsAreAgreed == Spec => GamesAreAgreed
<1>1. Kept /\ [Next]_vars =>
        [~GameInProgress /\ GameInProgress' => {occupant[s] : s \in Seat} \subseteq willing]_vars
  <2> SUFFICES ASSUME Kept, Next, ~GameInProgress, GameInProgress'
               PROVE  {occupant[s] : s \in Seat} \subseteq willing
    BY DEF GameInProgress, vars
  <2>1. ASSUME NEW s \in Seat, StartDeal(s) PROVE {occupant[r] : r \in Seat} \subseteq willing
    BY <2>1 DEF StartDeal, CanStartDeal, AllReady, Kept, ReadyIsWilling
  <2>2. ASSUME NEW s \in Seat, Vacate(s) PROVE FALSE
    BY <2>2 DEF Vacate, GameInProgress
  <2>3. ASSUME lifecycle' = lifecycle \/ lifecycle' \in {"idle", "concluded"} PROVE FALSE
    BY <2>3 DEF GameInProgress
  <2> QED
    BY <2>1, <2>2, <2>3 DEF Next, Occupy, CloseTable, SetSeatConnection, Readiness, Conclude, ForceClose
<1> QED BY <1>1, AlwaysKept, PTL DEF Spec, GamesAreAgreed
=============================================================================
