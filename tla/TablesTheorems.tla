--------------------------- MODULE TablesTheorems ---------------------------
(***************************************************************************)
(* The tables service for every set of accounts, keys and requests, every  *)
(* number of seats and tables, whatever statements fail and however often  *)
(* the process is restarted: what the rows mirror, which tables are closed *)
(* and that an idempotency key names one table.                            *)
(***************************************************************************)
EXTENDS Tables, WellFoundedInduction, TLAPS

\* What an actor, a row, a creation and a request are made of.
ActorState == [seats : Seating, host : Seat \cup {NoSeat}, status : Status, playing : BOOLEAN]
RowState == [seats : Seating, host : Account \cup {NoAccount}, status : Status]
Creation == [who : Account, key : Key \cup {NoKey}, table : Table]
Request ==
    [kind : Kinds, who : Account \cup {NoAccount}, key : Key \cup {NoKey},
     table : Table \cup {NoTable}, at : Places, seats : Seating,
     host : Account \cup {NoAccount}, status : Status, lone : BOOLEAN]

\* Every variable has its type.
Typed ==
    /\ made \in 0 .. MaxTables /\ live \subseteq 1 .. made /\ recorded \subseteq 1 .. made
    /\ actor \in [Table -> ActorState] /\ row \in [Table -> RowState]
    /\ req \in [Req -> Request]
    /\ answers \subseteq Creation /\ cache \subseteq answers
    /\ muddled \subseteq Table /\ departed \subseteq Account /\ hostless \subseteq live

\* Which kinds of request wait where.
KindsAt(at) ==
    CASE at = "find_key" -> {"create"}
      [] at = "find_seat" -> {"create", "join"}
      [] at = "find_code" -> {"join"}
      [] at = "find_table" -> {"close", "force"}
      [] at = "insert" -> {"create"}
      [] at = "status" -> {"join", "leave", "close", "force"}
      [] at = "seats" -> {"create", "join", "leave"}
      [] at = "host" -> {"create", "join", "leave"}
      [] at = "store" -> {"create"}
      [] OTHER -> {"none"}

\* The requests that change seats.
Seaters == {"create", "join", "leave"}

\* What a request waiting at its place knows: its kind, who asks, and a table whose
\* row exists, but for one it has yet to insert, which nobody else knows of.
Placed(r) ==
    /\ req[r].kind \in KindsAt(req[r].at)
    /\ req[r].kind \in Seaters => req[r].who \in Account
    /\ req[r].key # NoKey => req[r].kind = "create"
    /\ req[r].table = NoTable
          <=> \/ req[r].at \in {"done", "find_key"}
              \/ req[r].at = "find_seat" /\ req[r].kind = "create"
    /\ req[r].table # NoTable /\ req[r].at # "insert" => req[r].table \in recorded
    /\ req[r].at = "insert" => /\ req[r].table \notin recorded
                               /\ \A q \in Req \ {r} : req[q].table # req[r].table
    /\ req[r].at \in Writes \ {"store"} /\ req[r].kind \in Seaters => req[r].table \in live

\* Rows exist only as recorded; a table without one is unknown to everybody else.
Known ==
    /\ \A r \in Req : Placed(r)
    /\ \A t \in Table \ recorded : row[t] = NoRow
    /\ \A x \in answers : x.table \in recorded

\* The host of a live table is seated in it, and only a closed one, or one restored
\* without its host, has none.
HostSeated ==
    \A t \in live :
        /\ actor[t].host # NoSeat => actor[t].host \in Taken(actor[t].seats)
        /\ actor[t].host = NoSeat /\ actor[t].status # "closed" => t \in hostless

\* Rows are closed as their tables are, and by nobody else.
StatusTrue ==
    /\ \A r \in Req : req[r].at = "status" /\ req[r].kind \in {"close", "force"}
                        => actor[req[r].table].status = "closed"
    /\ \A t \in live : actor[t].status # "closed" =>
          /\ t \in recorded => row[t].status # "closed"
          /\ \A r \in Req : req[r].at = "status" /\ req[r].table = t => req[r].status # "closed"

\* What the only writer of a table has yet to write of it.
Alone(r) ==
    LET t == req[r].table
    IN  /\ Writers(t) = {r}
        /\ req[r].at = "status" => req[r].status = actor[t].status
        /\ req[r].at = "insert" => actor[t].status = "open"
        /\ req[r].at \in {"seats", "host"} =>
              row[t].status = actor[t].status /\ req[r].host = HostAccount(actor[t])
        /\ req[r].at = "seats" => req[r].seats = actor[t].seats
        /\ req[r].at = "host" => row[t].seats = actor[t].seats

\* A row as its table.
SeatsMirrored(t) == row[t].seats = actor[t].seats /\ row[t].host = HostAccount(actor[t])

\* A table that nobody writes to, and that is not muddled, is as its row.
Mirrored ==
    /\ \A r \in Req : req[r].at \in Writes \ {"store"} /\ req[r].lone => Alone(r)
    /\ \A t \in live \ muddled :
          /\ Writers(t) = {} => /\ t \in recorded
                                /\ SeatsMirrored(t) /\ row[t].status = actor[t].status
          /\ \A r \in Writers(t) : /\ req[r].lone
                                   /\ req[r].kind \in {"close", "force"} => SeatsMirrored(t)
    /\ \A t \in recorded \ (live \cup muddled) :
          row[t].host = NoAccount \/ Holds(row[t].seats, row[t].host)

\* An account that has not departed sits in one open row.
RowsApart ==
    \A t, u \in Table : \A a \in Account :
        Holds(row[t].seats, a) /\ Holds(row[u].seats, a) => t = u

\* a keeps the seat it has at t, and so does every picture of t yet to be written.
Keeps(a, t) ==
    /\ t \in live => Holds(actor[t].seats, a)
    /\ \A r \in Req : req[r].at = "seats" /\ req[r].table = t => Holds(req[r].seats, a)

\* Creations still being written.
Creates(r) == req[r].kind = "create" /\ req[r].at \in Writes

\* A key leads its account to one table, whether answered or being written.
Owned ==
    /\ \A x \in answers : x.who \notin departed =>
          Keeps(x.who, x.table) /\ Holds(row[x.table].seats, x.who)
    /\ \A r \in Req : Creates(r) /\ req[r].who \notin departed =>
          /\ Keeps(req[r].who, req[r].table)
          /\ req[r].at \in {"host", "store"} => Holds(row[req[r].table].seats, req[r].who)

\* The inductive invariant.
TablesInv ==
    /\ Typed /\ Known /\ HostSeated /\ StatusTrue /\ Mirrored /\ RowsApart /\ Owned
\* A non-empty set of natural numbers has a least element.
LEMMA LeastNatural ==
    ASSUME NEW T, T \subseteq Nat, T # {}
    PROVE  \E x \in T : \A y \in T : x <= y
<1>1. \E x \in T : \A y \in T : ~(<<y, x>> \in OpToRel(<, Nat))
  BY NatLessThanWellFounded, WFMin
<1>2. PICK x \in T : \A y \in T : ~(<<y, x>> \in OpToRel(<, Nat))
  BY <1>1
<1>3. ASSUME NEW y \in T PROVE x <= y
  <2>1. x \in Nat /\ y \in Nat /\ <<y, x>>[1] = y /\ <<y, x>>[2] = x
    BY <1>2
  <2>2. ~(<<y, x>>[1] < <<y, x>>[2])
    BY <1>2, <2>1, Zenon DEF OpToRel
  <2>3. ~(y < x)
    BY <2>1, <2>2
  <2> QED BY <2>1, <2>3
<1> QED BY <1>2, <1>3

-----------------------------------------------------------------------------
(* Sitting down and leaving. *)

\* A state of a table is what its fields are.
LEMMA IsActorState ==
    ASSUME NEW seats \in Seating, NEW host \in Seat \cup {NoSeat}, NEW status \in Status,
           NEW playing \in BOOLEAN
    PROVE  [seats |-> seats, host |-> host, status |-> status, playing |-> playing] \in ActorState
BY DEF ActorState

\* And what one has.
LEMMA ActorStateFields ==
    ASSUME NEW x \in ActorState
    PROVE  /\ x.seats \in Seating /\ x.host \in Seat \cup {NoSeat} /\ x.status \in Status
           /\ x.playing \in BOOLEAN
           /\ x = [seats |-> x.seats, host |-> x.host, status |-> x.status,
                   playing |-> x.playing]
BY DEF ActorState

\* A new table, and a new row, hold nobody.
LEMMA NothingYet ==
    /\ NoSeats \in Seating /\ NoActor \in ActorState /\ NoRow \in RowState
    /\ \A a \in Account : ~Holds(NoSeats, a)
<1>1. NoSeats \in Seating
  BY DEF NoSeats, Seating
<1>2. NoActor \in ActorState
  BY <1>1 DEF NoActor, ActorState, Status
<1>3. NoRow \in RowState
  BY <1>1 DEF NoRow, RowState, Status
<1>4. \A a \in Account : ~Holds(NoSeats, a)
  BY NamesAssumption DEF NoSeats, Holds
<1> QED BY <1>1, <1>2, <1>3, <1>4

\* An account that sits down where a seat is free has one, nobody loses one, the
\* host is seated, and the table is not closed by it.
LEMMA OccupiedIs ==
    ASSUME NEW x \in ActorState, NEW a \in Account, Taken(x.seats) # Seat,
           x.host # NoSeat => x.host \in Taken(x.seats)
    PROVE  /\ Occupied(x, a) \in ActorState
           /\ Occupied(x, a).status \in {"open", "seated"}
           /\ Holds(Occupied(x, a).seats, a)
           /\ \A b \in Account : Holds(x.seats, b) => Holds(Occupied(x, a).seats, b)
           /\ Occupied(x, a).host \in Taken(Occupied(x, a).seats)
           /\ Occupied(x, a).playing = x.playing
           /\ Taken(x.seats) = {} => Occupied(x, a).status = "open"
<1> DEFINE free == Seat \ Taken(x.seats)
           s == CHOOSE f \in free : \A g \in free : f <= g
           seats == [x.seats EXCEPT ![s] = a]
           host == IF x.host = NoSeat THEN s ELSE x.host
           status == IF free = {s} THEN "seated" ELSE "open"
<1>1. s \in free
  <2>1. free \subseteq Nat /\ free # {}
    BY SizesAssumption DEF Seat, Taken
  <2>2. \E f \in free : \A g \in free : f <= g
    BY <2>1, LeastNatural, Zenon
  <2> QED BY <2>2
<1>2. s \in Seat /\ x.seats[s] = NoAccount /\ x.seats \in Seating
  BY <1>1, ActorStateFields DEF Taken
<1> HIDE DEF s
<1>3. Occupied(x, a) = [x EXCEPT !.seats[s] = a, !.host = host, !.status = status]
  BY DEF Occupied, s
<1>4. Occupied(x, a) = [seats |-> seats, host |-> host, status |-> status, playing |-> x.playing]
  <2>1. x = [seats |-> x.seats, host |-> x.host, status |-> x.status, playing |-> x.playing]
    BY ActorStateFields
  <2> HIDE DEF host, status, free
  <2> QED BY <1>3, <2>1
<1>5. /\ seats \in Seating /\ seats[s] = a /\ a # NoAccount
      /\ \A r \in Seat \ {s} : seats[r] = x.seats[r]
  BY <1>2, NamesAssumption DEF Seating
<1>6. Taken(seats) = Taken(x.seats) \cup {s}
  BY <1>2, <1>5 DEF Taken
<1> HIDE DEF seats
<1>7. host \in Taken(seats)
  BY <1>6
<1>8. Taken(x.seats) = {} => status = "open"
  BY SizesAssumption DEF Seat
<1>9. \A b \in Account : Holds(x.seats, b) => Holds(seats, b)
  BY <1>2, <1>5, NamesAssumption DEF Holds
<1>10. Holds(seats, a)
  BY <1>2, <1>5 DEF Holds
<1>11. host \in Seat \cup {NoSeat} /\ status \in {"open", "seated"} /\ status \in Status
  BY <1>7 DEF Taken, Status
<1> HIDE DEF host, status
<1>12. x.playing \in BOOLEAN
  BY ActorStateFields
<1>13. Occupied(x, a) \in ActorState
  BY <1>4, <1>5, <1>11, <1>12 DEF ActorState
<1>14. /\ Occupied(x, a).seats = seats /\ Occupied(x, a).host = host
       /\ Occupied(x, a).status = status /\ Occupied(x, a).playing = x.playing
  BY <1>4
<1> QED BY <1>7, <1>8, <1>9, <1>10, <1>11, <1>13, <1>14

\* The next host is a taken seat.
LEMMA NextHostIn ==
    ASSUME NEW from \in Seat, NEW taken, taken \subseteq Seat, taken # {}
    PROVE  NextHost(from, taken) \in taken
<1> DEFINE steps(s) == (s - from + NumSeats) % NumSeats
           Steps == {steps(s) : s \in taken}
<1>1. \A s \in taken : steps(s) \in Nat
  BY SizesAssumption DEF Seat
<1>2. PICK x \in Steps : \A y \in Steps : x <= y
  <2>1. Steps \subseteq Nat /\ Steps # {}
    BY <1>1
  <2> QED BY <2>1, LeastNatural
<1>3. \E s \in taken : \A r \in taken : steps(s) <= steps(r)
  <2>1. PICK s \in taken : x = steps(s)
    BY <1>2
  <2>2. \A r \in taken : steps(r) \in Steps
    OBVIOUS
  <2> QED BY <1>2, <2>1, <2>2
<1>4. NextHost(from, taken) = CHOOSE s \in taken : \A r \in taken : steps(s) <= steps(r)
  BY DEF NextHost
<1> HIDE DEF steps
<1> QED BY <1>3, <1>4

\* An account that leaves takes no other from its seat, and a table that still
\* has somebody keeps a seated host if it had one.
LEMMA VacatedIs ==
    ASSUME NEW x \in ActorState, NEW a \in Account, CanVacate(x, a),
           x.host # NoSeat => x.host \in Taken(x.seats)
    PROVE  /\ Vacated(x, a) \in ActorState
           /\ Vacated(x, a).status \in {"open", "closed"}
           /\ \A b \in Account : b # a /\ Holds(x.seats, b) => Holds(Vacated(x, a).seats, b)
           /\ Vacated(x, a).host # NoSeat
                => Vacated(x, a).host \in Taken(Vacated(x, a).seats)
           /\ Vacated(x, a).host = NoSeat
                => x.host = NoSeat \/ Vacated(x, a).status = "closed"
<1> DEFINE s == CHOOSE f \in Seat : x.seats[f] = a
           left == Taken(x.seats) \ {s}
           seats == [x.seats EXCEPT ![s] = NoAccount]
           host == IF x.host = s THEN NextHost(s, left) ELSE x.host
           status == IF left = {} THEN "closed" ELSE "open"
<1>1. s \in Seat /\ x.seats[s] = a /\ x.seats \in Seating
  <2>1. \E f \in Seat : x.seats[f] = a
    BY DEF CanVacate, Holds
  <2> QED BY <2>1, ActorStateFields
<1> HIDE DEF s
<1>2. Vacated(x, a) = [x EXCEPT !.seats[s] = NoAccount, !.host = host, !.status = status]
  BY DEF Vacated, s
<1>3. Vacated(x, a) = [seats |-> seats, host |-> host, status |-> status, playing |-> x.playing]
  <2>1. x = [seats |-> x.seats, host |-> x.host, status |-> x.status, playing |-> x.playing]
    BY ActorStateFields
  <2> HIDE DEF host, status, left
  <2> QED BY <1>2, <2>1
<1>4. /\ seats \in Seating /\ seats[s] = NoAccount
      /\ \A r \in Seat \ {s} : seats[r] = x.seats[r]
  BY <1>1 DEF Seating
<1>5. Taken(seats) = left /\ left \subseteq Seat
  BY <1>1, <1>4 DEF Taken
<1> HIDE DEF seats
<1>6. host # NoSeat => host \in left
  <2>1. CASE x.host # s
    BY <2>1
  <2>2. CASE x.host = s /\ left # {}
    BY <2>2, <1>1, <1>5, NextHostIn
  <2>3. CASE x.host = s /\ left = {}
    BY <2>3 DEF NextHost
  <2> QED BY <2>1, <2>2, <2>3
<1>7. host = NoSeat => x.host = NoSeat \/ status = "closed"
  <2>1. CASE x.host # s
    BY <2>1
  <2>2. CASE x.host = s /\ left # {}
    <3>1. NextHost(s, left) \in Seat
      BY <2>2, <1>1, <1>5, NextHostIn
    <3> QED BY <2>2, <3>1, SizesAssumption DEF NoSeat, Seat
  <2>3. CASE x.host = s /\ left = {}
    BY <2>3
  <2> QED BY <2>1, <2>2, <2>3
<1>8. \A b \in Account : b # a /\ Holds(x.seats, b) => Holds(seats, b)
  BY <1>1, <1>4 DEF Holds
<1>9. host \in Seat \cup {NoSeat} /\ status \in {"open", "closed"} /\ status \in Status
  BY <1>5, <1>6 DEF Status
<1> HIDE DEF host, status, left
<1>10. x.playing \in BOOLEAN
  BY ActorStateFields
<1>11. Vacated(x, a) \in ActorState
  BY <1>3, <1>4, <1>9, <1>10 DEF ActorState
<1>12. /\ Vacated(x, a).seats = seats /\ Vacated(x, a).host = host
       /\ Vacated(x, a).status = status
  BY <1>3
<1> QED BY <1>5, <1>6, <1>7, <1>8, <1>9, <1>11, <1>12

-----------------------------------------------------------------------------
(* What becomes of a request. *)

\* A request has its fields.
LEMMA RequestFields ==
    ASSUME NEW q \in Request
    PROVE  /\ q.kind \in Kinds /\ q.who \in Account \cup {NoAccount} /\ q.key \in Key \cup {NoKey}
           /\ q.table \in Table \cup {NoTable} /\ q.at \in Places /\ q.seats \in Seating
           /\ q.host \in Account \cup {NoAccount} /\ q.status \in Status /\ q.lone \in BOOLEAN
           /\ q = [kind |-> q.kind, who |-> q.who, key |-> q.key, table |-> q.table, at |-> q.at,
                   seats |-> q.seats, host |-> q.host, status |-> q.status, lone |-> q.lone]
BY DEF Request

\* A record of those fields is a request.
LEMMA IsRequest ==
    ASSUME NEW kind \in Kinds, NEW who \in Account \cup {NoAccount}, NEW key \in Key \cup {NoKey},
           NEW table \in Table \cup {NoTable}, NEW at \in Places, NEW seats \in Seating,
           NEW host \in Account \cup {NoAccount}, NEW status \in Status, NEW lone \in BOOLEAN
    PROVE  [kind |-> kind, who |-> who, key |-> key, table |-> table, at |-> at,
            seats |-> seats, host |-> host, status |-> status, lone |-> lone] \in Request
BY DEF Request

\* A request that is done.
LEMMA IdleIs ==
    /\ Idle \in Request
    /\ Idle.kind = "none" /\ Idle.who = NoAccount /\ Idle.key = NoKey /\ Idle.table = NoTable
    /\ Idle.at = "done" /\ Idle.seats = NoSeats
<1>1. FALSE \in BOOLEAN
  OBVIOUS
<1>2. "none" \in Kinds /\ "done" \in Places /\ "open" \in Status
  BY DEF Kinds, Places, Status
<1>3. Idle \in Request
  BY <1>1, <1>2, NothingYet, IsRequest DEF Idle
<1> QED BY <1>3 DEF Idle

\* The other requests are what they were; or all but who has been alone.
Stays(r) == \A q \in Req \ {r} : req'[q] = req[q]

\* A request stays as it was, but perhaps for whether it writes alone.
AlikeAt(q) ==
    /\ req'[q].kind = req[q].kind /\ req'[q].who = req[q].who /\ req'[q].key = req[q].key
    /\ req'[q].table = req[q].table /\ req'[q].at = req[q].at /\ req'[q].seats = req[q].seats
    /\ req'[q].host = req[q].host /\ req'[q].status = req[q].status

\* So does every request but r.
Alike(r) == \A q \in Req \ {r} : AlikeAt(q)

\* A request that is accepted, as it begins.
LEMMA AcceptIs ==
    ASSUME req \in [Req -> Request], NEW r \in Req, NEW kind \in Kinds,
           NEW who \in Account \cup {NoAccount}, NEW key \in Key \cup {NoKey},
           NEW t \in Table \cup {NoTable}, NEW at \in Places, Accept(r, kind, who, key, t, at)
    PROVE  /\ req' \in [Req -> Request] /\ Stays(r) /\ req[r] = Idle
           /\ req'[r].kind = kind /\ req'[r].who = who /\ req'[r].key = key
           /\ req'[r].table = t /\ req'[r].at = at
<1> DEFINE new == [Idle EXCEPT !.kind = kind, !.who = who, !.key = key, !.table = t, !.at = at]
<1>1. req' = [req EXCEPT ![r] = new] /\ req[r] = Idle
  BY DEF Accept
<1>2. new \in Request
  BY IdleIs DEF Request
<1>3. /\ new.kind = kind /\ new.who = who /\ new.key = key /\ new.table = t /\ new.at = at
  BY IdleIs DEF Request
<1> HIDE DEF new
<1> QED BY <1>1, <1>2, <1>3 DEF Stays

\* A request that finishes, is done.
LEMMA FinishIs ==
    ASSUME req \in [Req -> Request], NEW r \in Req, Finish(r)
    PROVE  req' \in [Req -> Request] /\ Stays(r) /\ req'[r] = Idle
BY IdleIs DEF Finish, Stays

\* A request that moves on keeps all but what the move gives it.
LEMMA MoveIs ==
    ASSUME req \in [Req -> Request], NEW r \in Req, NEW at \in Places,
           req' = [req EXCEPT ![r].at = at]
    PROVE  /\ req' \in [Req -> Request] /\ Stays(r)
           /\ req'[r].kind = req[r].kind /\ req'[r].who = req[r].who /\ req'[r].key = req[r].key
           /\ req'[r].table = req[r].table /\ req'[r].at = at
<1> DEFINE old == req[r]
           new == [old EXCEPT !.at = at]
<1>1. old \in Request /\ req' = [req EXCEPT ![r] = new]
  OBVIOUS
<1> HIDE DEF old
<1>2. new \in Request
  BY <1>1 DEF Request
<1>3. /\ new.kind = old.kind /\ new.who = old.who /\ new.key = old.key /\ new.table = old.table
      /\ new.at = at
  BY <1>1 DEF Request
<1> HIDE DEF new
<1> QED BY <1>1, <1>2, <1>3 DEF Stays, old

\* A picture of the table is taken as its actor is.
LEMMA PictureIs ==
    ASSUME req \in [Req -> Request], actor \in [Table -> ActorState], NEW r \in Req,
           req[r].table \in Table, Pictured(r)
    PROVE  /\ req' \in [Req -> Request] /\ Stays(r)
           /\ req'[r].kind = req[r].kind /\ req'[r].who = req[r].who /\ req'[r].key = req[r].key
           /\ req'[r].table = req[r].table /\ req'[r].at = "seats"
           /\ req'[r].seats = actor[req[r].table].seats
           /\ req'[r].host = HostAccount(actor[req[r].table])
           /\ req'[r].lone = req[r].lone
<1> DEFINE old == req[r]
           x == actor[req[r].table]
           host == HostAccount(x)
           new == [old EXCEPT !.at = "seats", !.seats = x.seats, !.host = host]
<1>1. old \in Request /\ x \in ActorState /\ x.seats \in Seating
  BY ActorStateFields
<1>2. host \in Account \cup {NoAccount}
  <2>1. x.seats \in Seating /\ x.host \in Seat \cup {NoSeat}
    BY <1>1, ActorStateFields
  <2> HIDE DEF x
  <2> QED BY <2>1 DEF HostAccount, Seating
<1>3. "seats" \in Places
  BY DEF Places, Writes
<1>4. req' = [req EXCEPT ![r] = new]
  BY DEF Pictured
<1> HIDE DEF old, x, host
<1>5. new \in Request
  BY <1>1, <1>2, <1>3 DEF Request
<1>6. /\ new.kind = old.kind /\ new.who = old.who /\ new.key = old.key /\ new.table = old.table
      /\ new.at = "seats" /\ new.seats = x.seats /\ new.host = host /\ new.lone = old.lone
  BY <1>1 DEF Request
<1> HIDE DEF new
<1> QED BY <1>4, <1>5, <1>6 DEF Stays, old, x, host

\* A request whose seats are written turns to the host.
LEMMA SyncedIs ==
    ASSUME req \in [Req -> Request], NEW r \in Req,
           req' = [req EXCEPT ![r].at = "host", ![r].seats = NoSeats]
    PROVE  /\ req' \in [Req -> Request] /\ Stays(r)
           /\ req'[r].kind = req[r].kind /\ req'[r].who = req[r].who /\ req'[r].key = req[r].key
           /\ req'[r].table = req[r].table /\ req'[r].at = "host"
           /\ req'[r].host = req[r].host /\ req'[r].lone = req[r].lone
<1> DEFINE old == req[r]
           new == [old EXCEPT !.at = "host", !.seats = NoSeats]
<1>1. old \in Request
  OBVIOUS
<1>2. "host" \in Places
  BY DEF Places, Writes
<1>3. req' = [req EXCEPT ![r] = new]
  OBVIOUS
<1> HIDE DEF old
<1>4. new \in Request
  BY <1>1, <1>2, NothingYet DEF Request
<1>5. /\ new.kind = old.kind /\ new.who = old.who /\ new.key = old.key /\ new.table = old.table
      /\ new.at = "host" /\ new.host = old.host /\ new.lone = old.lone
  BY <1>1 DEF Request
<1> HIDE DEF new
<1> QED BY <1>3, <1>4, <1>5 DEF Stays, old

\* The other writers of t are no longer alone, and r is alone if there are none.
Joined(r, t) ==
    /\ \A q \in Req \ {r} : /\ req'[q].lone => req[q].lone /\ q \notin Writers(t)
                            /\ req[q].lone /\ q \notin Writers(t) => req'[q].lone
    /\ req'[r].lone <=> Writers(t) = {}

\* req' as Changed and StartLeave have it.
LEMMA JoinedIs ==
    ASSUME req \in [Req -> Request], NEW r \in Req, NEW t \in Table, NEW new \in Request,
           new.lone = (Writers(t) = {}),
           req' = [q \in Req |-> IF q = r THEN new
                                 ELSE IF q \in Writers(t) THEN [req[q] EXCEPT !.lone = FALSE]
                                 ELSE req[q]]
    PROVE  req' \in [Req -> Request] /\ Alike(r) /\ Joined(r, t) /\ req'[r] = new
<1>1. req'[r] = new
  OBVIOUS
<1>2. ASSUME NEW q \in Req \ {r}
      PROVE  /\ req'[q] \in Request /\ AlikeAt(q)
             /\ req'[q].lone => req[q].lone /\ q \notin Writers(t)
             /\ req[q].lone /\ q \notin Writers(t) => req'[q].lone
  <2>1. CASE q \notin Writers(t)
    <3>1. req'[q] = req[q]
      BY <2>1
    <3> QED BY <2>1, <3>1 DEF AlikeAt
  <2>2. CASE q \in Writers(t)
    <3> DEFINE old == req[q]
               less == [old EXCEPT !.lone = FALSE]
    <3>1. old \in Request /\ req'[q] = less
      BY <2>2
    <3>2. FALSE \in BOOLEAN
      OBVIOUS
    <3> HIDE DEF old
    <3>3. less \in Request
      BY <3>1, <3>2 DEF Request
    <3>4. /\ less.kind = old.kind /\ less.who = old.who /\ less.key = old.key
          /\ less.table = old.table /\ less.at = old.at /\ less.seats = old.seats
          /\ less.host = old.host /\ less.status = old.status /\ ~less.lone
      BY <3>1 DEF Request
    <3> HIDE DEF less
    <3> QED BY <2>2, <3>1, <3>3, <3>4 DEF AlikeAt, old
  <2> QED BY <2>1, <2>2
<1>3. req' \in [Req -> Request]
  <2>1. \A q \in Req : req'[q] \in Request
    BY <1>1, <1>2
  <2> QED BY <2>1
<1>4. req'[r].lone <=> Writers(t) = {}
  BY <1>1
<1> QED BY <1>1, <1>2, <1>3, <1>4 DEF Alike, Joined

-----------------------------------------------------------------------------
(* Where the requests are. *)

\* What a request waits for tells its kind.
LEMMA KindsAre ==
    ASSUME NEW r \in Req, Placed(r)
    PROVE  /\ req[r].at = "find_key" => req[r].kind = "create"
           /\ req[r].at = "find_seat" => req[r].kind \in {"create", "join"}
           /\ req[r].at = "find_code" => req[r].kind = "join"
           /\ req[r].at = "find_table" => req[r].kind \in {"close", "force"}
           /\ req[r].at = "insert" => req[r].kind = "create"
           /\ req[r].at = "status" => req[r].kind \in {"join", "leave", "close", "force"}
           /\ req[r].at \in {"seats", "host"} => req[r].kind \in Seaters
           /\ req[r].at = "store" => req[r].kind = "create"
BY DEF Placed, KindsAt, Seaters

\* The tables made are tables.
LEMMA TablesAre ==
    ASSUME Typed
    PROVE  1 .. made \subseteq Table /\ live \subseteq Table /\ recorded \subseteq Table
           /\ NoTable \notin Table
<1>1. made \in 0 .. MaxTables /\ MaxTables \in Nat
  <2>1. MaxTables \in Nat
    BY SizesAssumption
  <2> QED BY <2>1 DEF Typed
<1>2. 1 .. made \subseteq Table /\ NoTable \notin Table
  BY <1>1 DEF Table, NoTable
<1> QED BY <1>2 DEF Typed

\* No request is about a table yet to be created.
LEMMA OnlyMade ==
    ASSUME Typed, Known, NEW q \in Req
    PROVE  req[q].table = NoTable \/ req[q].table \in 1 .. made
<1>1. Placed(q)
  BY DEF Known
<1>2. CASE req[q].at # "insert"
  BY <1>1, <1>2 DEF Placed, Typed
<1>3. CASE req[q].at = "insert"
  <2>1. req[q].kind \in Seaters
    BY <1>1, <1>3, KindsAre DEF Seaters
  <2> QED BY <1>1, <1>3, <2>1 DEF Placed, Writes, Typed
<1> QED BY <1>2, <1>3

\* A step of r that moves no other request keeps them where they may be.
LEMMA KnownStep ==
    ASSUME Typed, Known, NEW r \in Req, Alike(r),
           recorded \subseteq recorded', recorded' \subseteq recorded \cup {req[r].table},
           live \subseteq live',
           \A t \in Table \ recorded' : row'[t] = row[t],
           \A x \in answers' : x.table \in recorded',
           req'[r].table \in recorded' \/ req'[r].table \in {NoTable, req[r].table, made + 1},
           Placed(r)'
    PROVE  Known'
<1>1. ASSUME NEW q \in Req, q # r PROVE Placed(q)'
  <2>1. Placed(q) /\ AlikeAt(q)
    BY <1>1 DEF Known, Alike
  <2>2. req[q].at = "insert" => req[q].table \notin recorded'
    BY <1>1, <2>1 DEF Placed
  <2>3. req[q].at = "insert" => \A p \in Req \ {q} : req'[p].table # req[q].table
    <3> SUFFICES ASSUME req[q].at = "insert", NEW p \in Req \ {q}, req'[p].table = req[q].table
                 PROVE  FALSE
      OBVIOUS
    <3>1. req[p].table # req[q].table
      BY <2>1 DEF Placed
    <3>2. p = r
      BY <3>1 DEF Alike, AlikeAt
    <3>3. req[q].table # NoTable
      BY <2>1 DEF Placed
    <3>4. req[q].table # made + 1
      <4>1. req[q].table \in 1 .. made
        BY <3>3, OnlyMade
      <4> QED BY <4>1 DEF Typed
    <3> QED BY <2>2, <3>1, <3>2, <3>3, <3>4
  <2> QED BY <1>1, <2>1, <2>2, <2>3 DEF Placed, AlikeAt
<1>2. \A t \in Table \ recorded' : row'[t] = NoRow
  BY DEF Known
<1> QED BY <1>1, <1>2 DEF Known

\* A step of r that changes neither actor nor row.
Quiet(r) ==
    /\ UNCHANGED <<live, actor, recorded, row, muddled, departed, hostless>>
    /\ Stays(r)
    /\ req[r].at \notin Writes \ {"store"} /\ req'[r].at \notin Writes
    /\ \A x \in answers' : x \in answers \/ (x = Answer(r) /\ req[r].at = "store")

\* What such a step has to show to keep the requests in their places.
LEMMA QuietKnown ==
    ASSUME Typed, Known, NEW r \in Req,
           UNCHANGED <<live, actor, recorded, row, muddled, departed, hostless, made>>,
           req' \in [Req -> Request], Stays(r), answers' \subseteq Creation, cache' \subseteq answers',
           \A x \in answers' : x.table \in recorded,
           req'[r].table \in recorded \cup {NoTable, req[r].table}, Placed(r)'
    PROVE  Typed' /\ Known'
<1>1. Alike(r)
  BY DEF Stays, Alike, AlikeAt
<1>2. Known'
  <2>1. /\ recorded \subseteq recorded' /\ recorded' \subseteq recorded \cup {req[r].table}
        /\ live \subseteq live'
    OBVIOUS
  <2>2. \A t \in Table \ recorded' : row'[t] = row[t]
    OBVIOUS
  <2>3. \A x \in answers' : x.table \in recorded'
    OBVIOUS
  <2>4. req'[r].table \in recorded' \/ req'[r].table \in {NoTable, req[r].table, made + 1}
    OBVIOUS
  <2> QED BY <1>1, <2>1, <2>2, <2>3, <2>4, KnownStep
<1>3. Typed'
  BY DEF Typed
<1> QED BY <1>2, <1>3

\* A request that ends is nowhere.
LEMMA IdlePlaced ==
    ASSUME NEW r \in Req, req'[r] = Idle
    PROVE  Placed(r)' /\ req'[r].at = "done" /\ req'[r].table = NoTable /\ "done" \notin Writes
BY IdleIs DEF Placed, KindsAt, Seaters, Writes

\* Requests that begin with a look-up change no table and no row.
LEMMA StartsQuiet ==
    ASSUME Typed, Known, NEW r \in Req,
           \/ \E a \in Account, k \in Key \cup {NoKey} : StartCreate(r, a, k)
           \/ \E a \in Account, t \in Table : StartJoin(r, a, t) \/ StartClose(r, a, t)
           \/ \E t \in Table : StartForce(r, t)
    PROVE  Typed' /\ Known' /\ Quiet(r)
<1>1. req \in [Req -> Request] /\ answers \subseteq Creation /\ cache \subseteq answers
  BY DEF Typed
<1>2. /\ {"create", "join", "close", "force"} \subseteq Kinds
      /\ {"find_key", "find_seat", "find_table"} \subseteq Places
      /\ Places \cap {"find_key", "find_seat", "find_table"} \cap Writes = {}
  BY DEF Kinds, Places, Writes
<1>3. NoTable \notin Table /\ \A x \in answers : x.table \in recorded
  BY DEF Known, NoTable, Table
<1>4. \A a \in Account, t \in Table : Knows(a, t) => t \in recorded
  <2>1. \A t \in Table : Told(t) => t \in recorded
    BY <1>3 DEF Told
  <2>2. \A a \in Account, t \in Table : Holds(row[t].seats, a) => t \in recorded
    BY NothingYet DEF Known, NoRow
  <2> QED BY <2>1, <2>2 DEF Knows
<1>5. ASSUME NEW kind \in {"create", "join", "close", "force"},
             NEW who \in Account \cup {NoAccount}, NEW key \in Key \cup {NoKey},
             NEW t \in Table \cup {NoTable}, NEW at \in {"find_key", "find_seat", "find_table"},
             Accept(r, kind, who, key, t, at),
             kind \in KindsAt(at), kind \in Seaters => who \in Account, key # NoKey => kind = "create",
             t = NoTable <=> at = "find_key" \/ (at = "find_seat" /\ kind = "create"),
             t # NoTable => t \in recorded,
             UNCHANGED <<live, actor, made, database, faults, restarts, history>>
      PROVE  Typed' /\ Known' /\ Quiet(r)
  <2>1. /\ req' \in [Req -> Request] /\ Stays(r) /\ req[r] = Idle
        /\ req'[r].kind = kind /\ req'[r].who = who /\ req'[r].key = key
        /\ req'[r].table = t /\ req'[r].at = at
    BY <1>1, <1>2, <1>5, AcceptIs
  <2>2. UNCHANGED <<live, actor, recorded, row, cache, answers, muddled, departed, hostless, made>>
    BY <1>5 DEF database, history
  <2>3. at \notin Writes /\ at # "insert" /\ at # "done"
    BY <1>2 DEF Writes
  <2>4. Placed(r)'
    <3>1. recorded' = recorded /\ live' = live
      BY <2>2
    <3>2. req'[r].kind \in KindsAt(req'[r].at)
      BY <1>5, <2>1
    <3>3. req'[r].table = NoTable
            <=> \/ req'[r].at \in {"done", "find_key"}
                \/ req'[r].at = "find_seat" /\ req'[r].kind = "create"
      BY <1>5, <2>1, <2>3
    <3>4. /\ req'[r].kind \in Seaters => req'[r].who \in Account
          /\ req'[r].key # NoKey => req'[r].kind = "create"
          /\ req'[r].table # NoTable => req'[r].table \in recorded
      BY <1>5, <2>1
    <3>5. req'[r].at # "insert" /\ req'[r].at \notin Writes
      BY <2>1, <2>3
    <3> QED BY <3>1, <3>2, <3>3, <3>4, <3>5 DEF Placed
  <2>5. Typed' /\ Known'
    BY <1>1, <1>3, <1>5, <2>1, <2>2, <2>4, QuietKnown
  <2>6. Quiet(r)
    <3>1. req[r].at \notin Writes
      BY <2>1, IdleIs DEF Writes
    <3>2. req'[r].at \notin Writes
      BY <2>1, <2>3
    <3>3. \A x \in answers' : x \in answers
      BY <2>2
    <3> QED BY <2>1, <2>2, <3>1, <3>2, <3>3 DEF Quiet
  <2> QED BY <2>5, <2>6
<1>6. ASSUME NEW a \in Account, NEW k \in Key \cup {NoKey}, StartCreate(r, a, k)
      PROVE  Typed' /\ Known' /\ Quiet(r)
  <2>1. CASE k = NoKey
    BY <1>5, <1>6, <2>1, Zenon DEF StartCreate, KindsAt, Seaters
  <2>2. CASE k # NoKey
    BY <1>5, <1>6, <2>2, Zenon DEF StartCreate, KindsAt, Seaters
  <2> QED BY <2>1, <2>2
<1>7. ASSUME NEW a \in Account, NEW t \in Table, StartJoin(r, a, t)
      PROVE  Typed' /\ Known' /\ Quiet(r)
  <2>1. t \in recorded /\ t # NoTable
    BY <1>3, <1>7 DEF StartJoin, Told
  <2>2. "join" \in KindsAt("find_seat")
    BY DEF KindsAt
  <2> QED BY <1>5, <1>7, <2>1, <2>2 DEF StartJoin
<1>8. ASSUME NEW a \in Account, NEW t \in Table, StartClose(r, a, t)
      PROVE  Typed' /\ Known' /\ Quiet(r)
  <2>1. t \in recorded /\ t # NoTable
    BY <1>3, <1>4, <1>8 DEF StartClose
  <2>2. "close" \in KindsAt("find_table") /\ "close" \notin Seaters
    BY DEF KindsAt, Seaters
  <2> QED BY <1>5, <1>8, <2>1, <2>2 DEF StartClose
<1>9. ASSUME NEW t \in Table, StartForce(r, t)
      PROVE  Typed' /\ Known' /\ Quiet(r)
  <2>1. t \in recorded /\ t # NoTable
    BY <1>3, <1>9 DEF StartForce
  <2>2. "force" \in KindsAt("find_table") /\ "force" \notin Seaters
    BY DEF KindsAt, Seaters
  <2> QED BY <1>5, <1>9, <2>1, <2>2 DEF StartForce
<1> QED BY <1>6, <1>7, <1>8, <1>9

\* Nor do the look-ups and refusals of those under way.
LEMMA ServesQuiet ==
    ASSUME Typed, Known, NEW r \in Req,
           \/ FindKey(r) \/ RefuseSeated(r) \/ FindSeatJoin(r) \/ Store(r)
           \/ FindCode(r) /\ UNCHANGED <<actor, muddled, hostless>> /\ Finish(r)
           \/ FindTable(r) /\ UNCHANGED <<actor, muddled>> /\ Finish(r)
           \/ Fail(r) /\ req[r].at = "store"
    PROVE  Typed' /\ Known' /\ Quiet(r)
<1>1. req \in [Req -> Request] /\ answers \subseteq Creation /\ cache \subseteq answers
  BY DEF Typed
<1>2. /\ "find_seat" \in Places /\ "find_code" \in Places /\ "find_seat" \notin Writes
      /\ "find_code" \notin Writes /\ "find_key" \notin Writes /\ "find_table" \notin Writes
  BY DEF Places, Writes
<1>3. Placed(r) /\ \A x \in answers : x.table \in recorded
  BY DEF Known
<1>4. ASSUME Finish(r), req[r].at \notin Writes \ {"store"},
             UNCHANGED <<live, actor, recorded, row, muddled, departed, hostless, made>>,
             answers' \subseteq Creation, cache' \subseteq answers',
             \A x \in answers' : x \in answers \/ (x = Answer(r) /\ req[r].at = "store"),
             \A x \in answers' : x.table \in recorded
      PROVE  Typed' /\ Known' /\ Quiet(r)
  <2>1. req' \in [Req -> Request] /\ Stays(r) /\ req'[r] = Idle
    BY <1>1, <1>4, FinishIs
  <2>2. Placed(r)' /\ req'[r].at \notin Writes /\ req'[r].table = NoTable
    BY <2>1, IdlePlaced
  <2>3. Typed' /\ Known'
    BY <1>4, <2>1, <2>2, QuietKnown
  <2>4. Quiet(r)
    BY <1>4, <2>1, <2>2 DEF Quiet
  <2> QED BY <2>3, <2>4
<1>5. ASSUME NEW at \in {"find_seat", "find_code"}, req' = [req EXCEPT ![r].at = at],
             req[r].at \in {"find_key", "find_seat"},
             at = "find_code" => req[r].at = "find_seat" /\ req[r].kind = "join",
             at = "find_seat" => req[r].at = "find_key",
             UNCHANGED <<live, actor, recorded, row, muddled, departed, hostless, made>>,
             answers' = answers, cache' = cache
      PROVE  Typed' /\ Known' /\ Quiet(r)
  <2>1. at \in Places /\ at \notin Writes /\ req[r].at \notin Writes /\ at # "insert"
    BY <1>2, <1>5 DEF Writes
  <2>2. /\ req' \in [Req -> Request] /\ Stays(r)
        /\ req'[r].kind = req[r].kind /\ req'[r].who = req[r].who /\ req'[r].key = req[r].key
        /\ req'[r].table = req[r].table /\ req'[r].at = at
    BY <1>1, <1>5, <2>1, MoveIs
  <2>3. Placed(r)'
    <3>1. CASE at = "find_seat"
      <4>1. req[r].kind = "create" /\ req[r].table = NoTable
        BY <1>3, <1>5, <3>1, KindsAre DEF Placed
      <4> QED BY <1>3, <2>2, <3>1, <4>1 DEF Placed, KindsAt, Writes
    <3>2. CASE at = "find_code"
      <4>1. req[r].kind = "join" /\ req[r].table # NoTable /\ req[r].table \in recorded
        BY <1>3, <1>5, <3>2 DEF Placed
      <4>2. recorded' = recorded
        BY <1>5
      <4> QED BY <1>3, <2>2, <3>2, <4>1, <4>2 DEF Placed, KindsAt, Writes
    <3> QED BY <1>5, <3>1, <3>2
  <2>4. Typed' /\ Known'
    <3>1. answers' \subseteq Creation /\ cache' \subseteq answers'
      BY <1>1, <1>5
    <3> QED BY <1>3, <1>5, <2>2, <2>3, <3>1, QuietKnown
  <2>5. Quiet(r)
    BY <1>5, <2>1, <2>2 DEF Quiet
  <2> QED BY <2>4, <2>5
<1>6. CASE FindKey(r)
  <2> DEFINE hit == {c \in cache : c.who = req[r].who /\ c.key = req[r].key}
  <2>1. UNCHANGED <<live, actor, recorded, row, cache, muddled, departed, hostless, made>>
    BY <1>6 DEF FindKey, database
  <2>2. req[r].at = "find_key" /\ req[r].at \notin Writes
    BY <1>2, <1>6 DEF FindKey
  <2>3. CASE hit # {}
    <3>1. Finish(r) /\ answers' = answers
      <4>1. Finish(r) /\ answers' = answers \cup hit
        BY <1>6, <2>3 DEF FindKey
      <4>2. hit \subseteq answers
        BY <1>1
      <4> QED BY <4>1, <4>2
    <3> QED BY <1>1, <1>3, <1>4, <2>1, <2>2, <3>1
  <2>4. CASE hit = {}
    <3>1. req' = [req EXCEPT ![r].at = "find_seat"] /\ answers' = answers
      BY <1>6, <2>4 DEF FindKey
    <3> QED BY <1>5, <2>1, <2>2, <3>1
  <2> QED BY <2>3, <2>4
<1>7. CASE RefuseSeated(r)
  <2>1. /\ UNCHANGED <<live, actor, recorded, row, cache, answers, muddled, departed, hostless, made>>
        /\ Finish(r) /\ req[r].at \notin Writes
    BY <1>2, <1>7 DEF RefuseSeated, database, history
  <2> QED BY <1>1, <1>3, <1>4, <2>1
<1>8. CASE FindSeatJoin(r)
  <2>1. /\ UNCHANGED <<live, actor, recorded, row, cache, answers, muddled, departed, hostless, made>>
        /\ req[r].at = "find_seat" /\ req[r].kind = "join"
        /\ req' = [req EXCEPT ![r].at = "find_code"]
    BY <1>8 DEF FindSeatJoin, database, history
  <2> QED BY <1>5, <2>1
<1>9. CASE FindCode(r) /\ UNCHANGED <<actor, muddled, hostless>> /\ Finish(r)
  <2>1. /\ UNCHANGED <<live, actor, recorded, row, cache, answers, muddled, departed, hostless, made>>
        /\ Finish(r) /\ req[r].at \notin Writes
    BY <1>2, <1>9 DEF FindCode, database
  <2> QED BY <1>1, <1>3, <1>4, <2>1
<1>10. CASE FindTable(r) /\ UNCHANGED <<actor, muddled>> /\ Finish(r)
  <2>1. /\ UNCHANGED <<live, actor, recorded, row, cache, answers, muddled, departed, hostless, made>>
        /\ Finish(r) /\ req[r].at \notin Writes
    BY <1>2, <1>10 DEF FindTable, database
  <2> QED BY <1>1, <1>3, <1>4, <2>1
<1>11. CASE Store(r)
  <2>1. /\ UNCHANGED <<live, actor, recorded, row, muddled, departed, hostless, made>>
        /\ Finish(r) /\ req[r].at = "store" /\ answers' = answers \cup {Answer(r)}
        /\ cache' \subseteq cache \cup {Answer(r)}
    BY <1>11 DEF Store
  <2>2. Answer(r) \in Creation /\ Answer(r).table \in recorded
    <3>1. req[r].kind = "create" /\ req[r].table # NoTable
      BY <1>3, <2>1, KindsAre DEF Placed
    <3>2. req[r].who \in Account /\ req[r].table \in recorded
      BY <1>3, <2>1, <3>1 DEF Placed, Seaters
    <3>3. req[r].key \in Key \cup {NoKey} /\ req[r].table \in Table
      BY <1>1, <3>1, RequestFields
    <3> QED BY <3>2, <3>3 DEF Answer, Creation
  <2> QED BY <1>1, <1>3, <1>4, <2>1, <2>2
<1>12. CASE Fail(r) /\ req[r].at = "store"
  <2>1. /\ UNCHANGED <<live, actor, recorded, row, cache, answers, muddled, departed, hostless, made>>
        /\ Finish(r)
    BY <1>12 DEF Fail, database
  <2> QED BY <1>1, <1>3, <1>4, <1>12, <2>1
<1> QED BY <1>6, <1>7, <1>8, <1>9, <1>10, <1>11, <1>12

\* A quiet step keeps all there is to keep.
LEMMA QuietKeeps ==
    ASSUME TablesInv, NEW r \in Req, Quiet(r)
    PROVE  HostSeated' /\ StatusTrue' /\ Mirrored' /\ RowsApart' /\ Owned'
<1>1. UNCHANGED <<live, actor, recorded, row, muddled, departed, hostless>>
  BY DEF Quiet
<1>2. \A q \in Req \ {r} : req'[q] = req[q]
  BY DEF Quiet, Stays
<1>3. req'[r].at \notin Writes /\ req[r].at \notin Writes \ {"store"}
  BY DEF Quiet
<1>4. \A t : Writers(t)' = Writers(t)
  BY <1>2, <1>3 DEF Writers
<1>5. HostSeated' /\ RowsApart'
  BY <1>1 DEF TablesInv, HostSeated, RowsApart
<1>6. StatusTrue'
  <2>1. req'[r].at # "status"
    BY <1>3 DEF Writes
  <2>2. StatusTrue
    BY DEF TablesInv
  <2> QED BY <1>1, <1>2, <2>1, <2>2 DEF StatusTrue
<1>7. Mirrored'
  <2>1. \A q \in Req \ {r} : Alone(q) => Alone(q)'
    BY <1>1, <1>2, <1>4 DEF Alone
  <2>2. \A t : SeatsMirrored(t) => SeatsMirrored(t)'
    BY <1>1 DEF SeatsMirrored
  <2>3. Mirrored
    BY DEF TablesInv
  <2>4. \A t : r \notin Writers(t)
    BY <1>3 DEF Writers
  <2>5. \A q \in Req : req'[q].at \in Writes \ {"store"} /\ req'[q].lone => Alone(q)'
    BY <1>2, <1>3, <2>1, <2>3 DEF Mirrored
  <2>6. \A t \in live' \ muddled' :
          /\ Writers(t)' = {} => /\ t \in recorded'
                                 /\ SeatsMirrored(t)' /\ row'[t].status = actor'[t].status
          /\ \A q \in Writers(t)' : /\ req'[q].lone
                                    /\ req'[q].kind \in {"close", "force"} => SeatsMirrored(t)'
    <3> SUFFICES ASSUME NEW t \in live \ muddled
                 PROVE  /\ Writers(t) = {} => /\ t \in recorded
                                              /\ SeatsMirrored(t)'
                                              /\ row[t].status = actor[t].status
                        /\ \A q \in Writers(t) :
                              /\ req'[q].lone
                              /\ req'[q].kind \in {"close", "force"} => SeatsMirrored(t)'
      BY <1>1, <1>4
    <3>1. \A q \in Writers(t) : req'[q] = req[q]
      BY <1>2, <2>4 DEF Writers
    <3> QED BY <2>2, <2>3, <3>1 DEF Mirrored
  <2>7. \A t \in recorded' \ (live' \cup muddled') :
          row'[t].host = NoAccount \/ Holds(row'[t].seats, row'[t].host)
    BY <1>1, <2>3 DEF Mirrored
  <2> QED BY <2>5, <2>6, <2>7 DEF Mirrored
<1>8. Owned'
  <2>1. req'[r].at # "seats" /\ req[r].at # "seats"
    BY <1>3 DEF Writes
  <2>2. \A a, t : Keeps(a, t) => Keeps(a, t)'
    BY <1>1, <1>2, <2>1 DEF Keeps
  <2>3. Owned
    BY DEF TablesInv
  <2>4. ASSUME NEW x \in answers', x.who \notin departed'
        PROVE  Keeps(x.who, x.table)' /\ Holds(row'[x.table].seats, x.who)
    <3>1. CASE x \in answers
      BY <1>1, <2>2, <2>3, <2>4, <3>1 DEF Owned
    <3>2. CASE x = Answer(r) /\ req[r].at = "store"
      <4>1. req[r].kind = "create"
        BY <3>2, KindsAre DEF TablesInv, Known
      <4>2. x.who = req[r].who /\ x.table = req[r].table
        BY <3>2 DEF Answer
      <4>3. Creates(r)
        BY <3>2, <4>1 DEF Creates, Writes
      <4> QED BY <1>1, <2>2, <2>3, <2>4, <3>2, <4>2, <4>3 DEF Owned
    <3> QED BY <2>4, <3>1, <3>2 DEF Quiet
  <2>5. ASSUME NEW q \in Req, Creates(q)', req'[q].who \notin departed'
        PROVE  /\ Keeps(req[q].who, req[q].table)'
               /\ req'[q].at \in {"host", "store"} => Holds(row'[req'[q].table].seats, req'[q].who)
    <3>1. q # r
      BY <1>3, <2>5 DEF Creates
    <3>2. req'[q] = req[q] /\ Creates(q)
      BY <1>2, <2>5, <3>1 DEF Creates
    <3> QED BY <1>1, <2>2, <2>3, <2>5, <3>2 DEF Owned
  <2> QED BY <2>4, <2>5 DEF Owned
<1> QED BY <1>5, <1>6, <1>7, <1>8

-----------------------------------------------------------------------------
(* Steps that change the actor of a table and await the first write. *)

\* Request r has changed the actor of t to x.
Begun(r, t, x) ==
    /\ UNCHANGED <<recorded, row, answers, cache>>
    /\ actor' = [actor EXCEPT ![t] = x]
    /\ req[r].at \notin Writes
    /\ req'[r].table = t /\ req'[r].status = x.status /\ req'[r].at \in {"insert", "status"}
    /\ Alike(r) /\ Joined(r, t)
    /\ muddled' = IF Writers(t) = {} THEN muddled ELSE muddled \cup {t}
    /\ live' = live \/ live' = live \cup {t}

\* A change of a table by a request that begins to write it keeps what is known.
LEMMA BegunKnown ==
    ASSUME Typed, Known, NEW r \in Req, NEW t \in Table, NEW x \in ActorState, Begun(r, t, x),
           req' \in [Req -> Request], t \in recorded \/ t = made + 1,
           made' \in 0 .. MaxTables, made <= made', live' \subseteq 1 .. made',
           departed' \subseteq Account, hostless' \subseteq live', Placed(r)'
    PROVE  Typed' /\ Known'
<1>1. Known'
  <2>1. Alike(r) /\ recorded' = recorded /\ row' = row /\ answers' = answers /\ live \subseteq live'
    BY DEF Begun
  <2>2. req'[r].table = t
    BY DEF Begun
  <2>3. \A y \in answers' : y.table \in recorded'
    BY <2>1 DEF Known
  <2>4. req'[r].table \in recorded' \/ req'[r].table \in {NoTable, req[r].table, made + 1}
    BY <2>1, <2>2
  <2> QED BY <2>1, <2>3, <2>4, KnownStep
<1>2. Typed'
  <2>1. made \in 0 .. MaxTables /\ recorded \subseteq 1 .. made
    BY DEF Typed
  <2>2. recorded' \subseteq 1 .. made'
    BY <2>1, SizesAssumption DEF Begun
  <2>3. actor' \in [Table -> ActorState] /\ row' \in [Table -> RowState]
    BY DEF Typed, Begun
  <2>4. answers' \subseteq Creation /\ cache' \subseteq answers' /\ muddled' \subseteq Table
    BY DEF Typed, Begun
  <2> QED BY <2>2, <2>3, <2>4 DEF Typed
<1> QED BY <1>1, <1>2

\* What the change may do to the table, for everything else to be kept.
Proper(r, t, x) ==
    /\ t \in live' => /\ x.host # NoSeat => x.host \in Taken(x.seats)
                      /\ x.host = NoSeat /\ x.status # "closed" => t \in hostless'
    /\ hostless \ {t} \subseteq hostless'
    /\ x.status # "closed" => (t \in live /\ actor[t].status # "closed") \/ t \notin recorded
    /\ req'[r].kind \in {"close", "force"} =>
          x.status = "closed" /\ x.seats = actor[t].seats /\ x.host = actor[t].host
    /\ t \notin recorded => \A q \in Req \ {r} : req[q].table # t
    /\ req'[r].at = "status" => t \in recorded
    /\ req'[r].at = "insert" => x.status = "open" /\ t \notin recorded
    /\ req'[r].kind = "create" <=> req'[r].at = "insert"
    /\ departed \subseteq departed'
    /\ t \in recorded => /\ live' = live
                         /\ \A a \in Account \ departed' :
                               Holds(actor[t].seats, a) => Holds(x.seats, a)
    /\ req'[r].kind = "create" => Holds(x.seats, req'[r].who)

\* It keeps the invariant if it is proper.
LEMMA BegunKeeps ==
    ASSUME TablesInv, NEW r \in Req, NEW t \in Table, NEW x \in ActorState, Begun(r, t, x),
           Proper(r, t, x), Typed'
    PROVE  HostSeated' /\ StatusTrue' /\ Mirrored' /\ RowsApart' /\ Owned'
<1>1. /\ recorded' = recorded /\ row' = row /\ answers' = answers
      /\ actor'[t] = x /\ \A u \in Table \ {t} : actor'[u] = actor[u]
      /\ live' = live \/ live' = live \cup {t}
      /\ live \subseteq Table /\ live' \subseteq Table /\ recorded \subseteq Table
  <2>1. made \in 0 .. MaxTables /\ live \subseteq 1 .. made /\ recorded \subseteq 1 .. made
    BY DEF TablesInv, Typed
  <2>2. live \subseteq Table /\ recorded \subseteq Table
    BY <2>1, SizesAssumption DEF Table
  <2>3. actor \in [Table -> ActorState]
    BY DEF TablesInv, Typed
  <2> QED BY <2>2, <2>3 DEF Begun
<1>2. /\ req[r].at \notin Writes /\ req'[r].table = t /\ req'[r].status = x.status
      /\ req'[r].at \in {"insert", "status"}
  BY DEF Begun
<1>3. \A q \in Req \ {r} : AlikeAt(q)
  BY DEF Begun, Alike
<1>4. /\ Typed /\ HostSeated /\ StatusTrue /\ Mirrored /\ RowsApart /\ Owned
      /\ \A q \in Req : Placed(q)
  BY DEF TablesInv, Known
<1>5. Writers(t)' = Writers(t) \cup {r} /\ r \notin Writers(t)
  BY <1>2, <1>3 DEF Writers, AlikeAt, Writes
<1>6. \A u \in Table \ {t} : Writers(u)' = Writers(u) /\ r \notin Writers(u)
  BY <1>2, <1>3 DEF Writers, AlikeAt
<1>7. HostSeated'
  <2> SUFFICES ASSUME NEW u \in live'
               PROVE  /\ actor'[u].host # NoSeat => actor'[u].host \in Taken(actor'[u].seats)
                      /\ actor'[u].host = NoSeat /\ actor'[u].status # "closed" => u \in hostless'
    BY DEF HostSeated
  <2>1. CASE u = t
    BY <1>1, <2>1 DEF Proper
  <2>2. CASE u # t
    <3>1. u \in live /\ actor'[u] = actor[u]
      BY <1>1, <2>2
    <3> QED BY <1>4, <2>2, <3>1 DEF HostSeated, Proper
  <2> QED BY <2>1, <2>2
<1>8. StatusTrue'
  <2>1. ASSUME NEW q \in Req, req'[q].at = "status", req'[q].kind \in {"close", "force"}
        PROVE  actor'[req'[q].table].status = "closed"
    <3>1. CASE q = r
      BY <1>1, <1>2, <2>1, <3>1 DEF Proper
    <3>2. CASE q # r
      <4>1. /\ req[q].at = "status" /\ req[q].kind \in {"close", "force"}
            /\ req'[q].table = req[q].table
        BY <1>3, <2>1, <3>2 DEF AlikeAt
      <4>2. actor[req[q].table].status = "closed"
        BY <1>4, <4>1 DEF StatusTrue
      <4>3. req[q].table \in recorded
        BY <1>4, <4>1 DEF Placed
      <4> QED BY <1>1, <4>1, <4>2, <4>3 DEF Proper
    <3> QED BY <3>1, <3>2
  <2>2. ASSUME NEW u \in live', actor'[u].status # "closed"
        PROVE  /\ u \in recorded' => row'[u].status # "closed"
               /\ \A q \in Req : req'[q].at = "status" /\ req'[q].table = u
                                   => req'[q].status # "closed"
    <3>1. CASE u = t
      <4>1. (t \in live /\ actor[t].status # "closed") \/ t \notin recorded
        BY <1>1, <2>2, <3>1 DEF Proper
      <4>2. t \in recorded => row[t].status # "closed"
        BY <1>4, <4>1 DEF StatusTrue
      <4>3. ASSUME NEW q \in Req, req'[q].at = "status", req'[q].table = t
            PROVE  req'[q].status # "closed"
        <5>1. CASE q = r
          BY <1>1, <1>2, <2>2, <3>1, <5>1
        <5>2. CASE q # r
          <6>1. req[q].at = "status" /\ req[q].table = t /\ req'[q].status = req[q].status
            BY <1>3, <4>3, <5>2 DEF AlikeAt
          <6>2. t \in recorded
            BY <5>2, <6>1 DEF Proper
          <6> QED BY <1>4, <4>1, <6>1, <6>2 DEF StatusTrue
        <5> QED BY <5>1, <5>2
      <4> QED BY <1>1, <3>1, <4>2, <4>3
    <3>2. CASE u # t
      <4>1. u \in live /\ actor'[u] = actor[u]
        BY <1>1, <2>2, <3>2
      <4>2. \A q \in Req : req'[q].at = "status" /\ req'[q].table = u =>
               req[q].at = "status" /\ req[q].table = u /\ req'[q].status = req[q].status
        BY <1>2, <1>3, <3>2 DEF AlikeAt
      <4> QED BY <1>1, <1>4, <2>2, <4>1, <4>2 DEF StatusTrue
    <3> QED BY <3>1, <3>2
  <2> QED BY <2>1, <2>2 DEF StatusTrue
<1>9. Mirrored'
  <2>1. \A u \in Table \ {t} : SeatsMirrored(u)' <=> SeatsMirrored(u)
    BY <1>1 DEF SeatsMirrored
  <2>2. ASSUME NEW q \in Req, req'[q].at \in Writes \ {"store"}, req'[q].lone
        PROVE  Alone(q)'
    <3>1. CASE q = r
      <4>1. Writers(t) = {}
        BY <2>2, <3>1 DEF Begun, Joined
      <4>2. Writers(t)' = {q} /\ req'[q].table = t
        BY <1>2, <1>5, <3>1, <4>1
      <4>3. {p \in Req : req'[p].table = req'[q].table /\ req'[p].at \in Writes \ {"store"}} = {q}
        BY <4>2 DEF Writers
      <4> QED BY <1>1, <1>2, <3>1, <4>2, <4>3 DEF Alone, Writers, Proper
    <3>2. CASE q # r
      <4>1. AlikeAt(q) /\ req[q].lone /\ q \notin Writers(t)
        BY <1>3, <2>2, <3>2 DEF Begun, Joined
      <4>2. Alone(q)
        BY <1>4, <2>2, <4>1 DEF Mirrored, AlikeAt
      <4>3. req[q].table # t /\ req[q].table \in Table
        <5>1. req[q].at \in Writes \ {"store"}
          BY <2>2, <4>1 DEF AlikeAt
        <5>2. req[q].table # t
          BY <4>1, <5>1 DEF Writers
        <5>3. req[q].table # NoTable
          BY <1>4, <5>1 DEF Placed, Writes
        <5> QED BY <1>4, <5>2, <5>3, RequestFields DEF Typed
      <4>4. actor'[req[q].table] = actor[req[q].table]
        BY <1>1, <4>3
      <4>5. {p \in Req : req'[p].table = req'[q].table /\ req'[p].at \in Writes \ {"store"}} = {q}
        <5>1. Writers(req[q].table) = {q} /\ req'[q].table = req[q].table
          BY <4>1, <4>2 DEF Alone, AlikeAt
        <5>2. ASSUME NEW u \in Table, u = req[q].table PROVE Writers(u)' = {q}
          BY <1>6, <4>3, <5>1, <5>2
        <5> QED BY <4>3, <5>1, <5>2 DEF Writers
      <4> QED BY <1>1, <4>1, <4>2, <4>4, <4>5 DEF Alone, Writers, AlikeAt
    <3> QED BY <3>1, <3>2
  <2>3. ASSUME NEW u \in live' \ muddled'
        PROVE  /\ Writers(u)' = {} => /\ u \in recorded'
                                      /\ SeatsMirrored(u)' /\ row'[u].status = actor'[u].status
               /\ \A q \in Writers(u)' : /\ req'[q].lone
                                         /\ req'[q].kind \in {"close", "force"} => SeatsMirrored(u)'
    <3>1. CASE u = t
      <4>1. Writers(t) = {} /\ t \notin muddled
        BY <2>3, <3>1 DEF Begun
      <4>2. Writers(t)' = {r} /\ req'[r].lone
        BY <1>5, <4>1 DEF Begun, Joined
      <4>3. req'[r].kind \in {"close", "force"} => SeatsMirrored(t)'
        <5> SUFFICES ASSUME req'[r].kind \in {"close", "force"} PROVE SeatsMirrored(t)'
          OBVIOUS
        <5>1. req'[r].kind # "create"
          OBVIOUS
        <5>2. t \in live
          <6>1. req'[r].at = "status"
            BY <1>2, <5>1 DEF Proper
          <6>2. t \in recorded
            BY <6>1 DEF Proper
          <6> QED BY <2>3, <3>1, <6>2 DEF Proper
        <5>3. SeatsMirrored(t)
          BY <1>4, <4>1, <5>2 DEF Mirrored
        <5> QED BY <1>1, <5>3 DEF SeatsMirrored, HostAccount, Proper
      <4> QED BY <3>1, <4>2, <4>3
    <3>2. CASE u # t
      <4>1. u \in live \ muddled /\ u \in Table /\ actor'[u] = actor[u]
        BY <1>1, <2>3, <3>2 DEF Begun
      <4>2. ASSUME NEW q \in Writers(u)
            PROVE  AlikeAt(q) /\ (req[q].lone => req'[q].lone)
        <5>1. q \in Req \ {r} /\ q \notin Writers(t)
          BY <1>6, <3>2, <4>1 DEF Writers
        <5> QED BY <1>3, <5>1 DEF Begun, Joined
      <4> QED BY <1>1, <1>4, <1>6, <2>1, <3>2, <4>1, <4>2 DEF Mirrored, AlikeAt
    <3> QED BY <3>1, <3>2
  <2>4. \A u \in recorded' \ (live' \cup muddled') :
          row'[u].host = NoAccount \/ Holds(row'[u].seats, row'[u].host)
    BY <1>1, <1>4 DEF Mirrored, Begun
  <2> QED BY <2>2, <2>3, <2>4 DEF Mirrored
<1>10. RowsApart'
  BY <1>1, <1>4 DEF RowsApart
<1>11. Owned'
  <2>1. ASSUME NEW u \in Table, NEW a \in Account \ departed', Keeps(a, u), u # t \/ t \in recorded
        PROVE  Keeps(a, u)'
    <3>1. \A q \in Req : req'[q].at = "seats" /\ req'[q].table = u => Holds(req'[q].seats, a)
      <4>1. \A q \in Req : req'[q].at = "seats" =>
               req[q].at = "seats" /\ req'[q].table = req[q].table /\ req'[q].seats = req[q].seats
        BY <1>2, <1>3 DEF AlikeAt
      <4> QED BY <2>1, <4>1 DEF Keeps
    <3>2. u \in live' => Holds(actor'[u].seats, a)
      <4>1. CASE u # t
        BY <1>1, <2>1, <4>1 DEF Keeps
      <4>2. CASE u = t
        BY <1>1, <2>1, <4>2 DEF Keeps, Proper
      <4> QED BY <4>1, <4>2
    <3> QED BY <3>1, <3>2 DEF Keeps
  <2>2. ASSUME NEW y \in answers', y.who \notin departed'
        PROVE  Keeps(y.who, y.table)' /\ Holds(row'[y.table].seats, y.who)
    <3>1. y \in answers /\ y.who \notin departed
      BY <1>1, <2>2 DEF Proper
    <3>2. y.who \in Account /\ y.table \in Table /\ y.table \in recorded
      BY <3>1 DEF TablesInv, Typed, Known, Creation
    <3>3. Keeps(y.who, y.table) /\ Holds(row[y.table].seats, y.who)
      BY <1>4, <3>1 DEF Owned
    <3> QED BY <1>1, <2>1, <2>2, <3>2, <3>3
  <2>3. ASSUME NEW q \in Req, Creates(q)', req'[q].who \notin departed'
        PROVE  /\ Keeps(req[q].who, req[q].table)'
               /\ req'[q].at \in {"host", "store"}
                    => Holds(row'[req'[q].table].seats, req'[q].who)
    <3>1. CASE q # r
      <4>1. AlikeAt(q) /\ Creates(q) /\ req[q].who \notin departed
        BY <1>3, <2>3, <3>1 DEF Creates, AlikeAt, Proper
      <4>2. req[q].who \in Account /\ req[q].table \in Table
        <5>1. req[q].table # NoTable /\ req[q].who \in Account
          BY <1>4, <4>1 DEF Creates, Placed, Writes, Seaters
        <5> QED BY <1>4, <5>1, RequestFields DEF Typed
      <4>3. req[q].table # t \/ t \in recorded
        BY <3>1 DEF Proper
      <4>4. Keeps(req[q].who, req[q].table)
        BY <1>4, <4>1 DEF Owned
      <4>5. req'[q].who = req[q].who
        BY <4>1 DEF AlikeAt
      <4>6. Keeps(req[q].who, req[q].table)'
        <5>1. req'[q].table = req[q].table
          BY <4>1 DEF AlikeAt
        <5>2. \A a, u : a = req[q].who /\ u = req[q].table => Keeps(a, u)'
          BY <2>1, <2>3, <4>2, <4>3, <4>4, <4>5
        <5> QED BY <4>5, <5>1, <5>2 DEF Keeps
      <4> QED BY <1>1, <1>4, <4>1, <4>6 DEF Owned, AlikeAt
    <3>2. CASE q = r
      <4>1. req'[r].kind = "create" /\ req'[r].at = "insert" /\ t \notin recorded
        BY <2>3, <3>2 DEF Creates, Proper
      <4>2. Holds(x.seats, req'[r].who)
        BY <4>1 DEF Proper
      <4>3. \A p \in Req : req'[p].at = "seats" => req'[p].table # t
        BY <1>2, <1>3, <4>1 DEF Proper, AlikeAt
      <4> QED BY <1>1, <1>2, <3>2, <4>1, <4>2, <4>3 DEF Keeps
    <3> QED BY <3>1, <3>2
  <2> QED BY <2>2, <2>3 DEF Owned
<1> QED BY <1>7, <1>8, <1>9, <1>10, <1>11

\* The request that has changed the actor of t, whatever it waits for next.
LEMMA ChangedIs ==
    ASSUME req \in [Req -> Request], NEW r \in Req, NEW t \in Table, NEW x \in ActorState,
           NEW at \in Places, Changed(r, t, x, at)
    PROVE  /\ req' \in [Req -> Request] /\ Alike(r) /\ Joined(r, t)
           /\ req'[r].kind = req[r].kind /\ req'[r].who = req[r].who /\ req'[r].key = req[r].key
           /\ req'[r].table = t /\ req'[r].at = at /\ req'[r].status = x.status
           /\ actor' = [actor EXCEPT ![t] = x]
           /\ muddled' = IF Writers(t) = {} THEN muddled ELSE muddled \cup {t}
<1> DEFINE old == req[r]
           lone == Writers(t) = {}
           new == [old EXCEPT !.table = t, !.at = at, !.status = x.status, !.lone = lone]
<1>1. /\ req' = [q \in Req |-> IF q = r THEN new
                               ELSE IF q \in Writers(t) THEN [req[q] EXCEPT !.lone = FALSE]
                               ELSE req[q]]
      /\ actor' = [actor EXCEPT ![t] = x]
      /\ muddled' = IF Writers(t) = {} THEN muddled ELSE muddled \cup {t}
  BY DEF Changed
<1>2. old \in Request /\ x.status \in Status
  BY ActorStateFields
<1>3. lone \in BOOLEAN
  OBVIOUS
<1> HIDE DEF old, lone
<1>4. new \in Request
  BY <1>2, <1>3 DEF Request
<1>5. /\ new.kind = old.kind /\ new.who = old.who /\ new.key = old.key
      /\ new.table = t /\ new.at = at /\ new.status = x.status
  BY <1>2 DEF Request
<1>6. new.lone = lone
  BY <1>2 DEF Request
<1> HIDE DEF new
<1>7. new.lone = (Writers(t) = {})
  BY <1>6 DEF lone
<1>8. req' \in [Req -> Request] /\ Alike(r) /\ Joined(r, t) /\ req'[r] = new
  BY <1>1, <1>4, <1>7, JoinedIs
<1> QED BY <1>1, <1>5, <1>8 DEF old

\* A table is created with its creator on the first seat.
LEMMA CreateBegins ==
    ASSUME Typed, Known, NEW r \in Req, FindSeatCreate(r)
    PROVE  /\ Typed' /\ Known'
           /\ \E t \in Table, x \in ActorState : Begun(r, t, x) /\ Proper(r, t, x)
<1> DEFINE t == made + 1
           a == req[r].who
           x == Occupied(NoActor, a)
<1>1. /\ req \in [Req -> Request] /\ made \in 0 .. MaxTables /\ MaxTables \in Nat
      /\ live \subseteq 1 .. made /\ recorded \subseteq 1 .. made
      /\ departed \subseteq Account /\ hostless \subseteq live
  <2>1. MaxTables \in Nat
    BY SizesAssumption
  <2> QED BY <2>1 DEF Typed
<1>2. /\ req[r].at = "find_seat" /\ req[r].kind = "create" /\ made < MaxTables /\ made' = t
      /\ live' = live \cup {t} /\ Changed(r, t, x, "insert")
      /\ UNCHANGED <<recorded, row, cache, answers, departed, hostless>>
  BY DEF FindSeatCreate, database
<1>3. t \in Table /\ t \notin recorded /\ t \notin live
  BY <1>1, <1>2 DEF Table
<1>4. a \in Account
  BY <1>2 DEF Known, Placed, Seaters
<1>5. /\ x \in ActorState /\ x.status = "open" /\ Holds(x.seats, a) /\ x.host \in Taken(x.seats)
  <2>1. Taken(NoActor.seats) = {} /\ NoActor.host = NoSeat
    BY DEF Taken, NoActor, NoSeats
  <2>2. Seat # {}
    BY SizesAssumption DEF Seat
  <2> QED BY <1>4, <2>1, <2>2, NothingYet, OccupiedIs
<1> HIDE DEF x
<1>6. "insert" \in Places /\ "find_seat" \notin Writes
  BY DEF Places, Writes
<1>7. /\ req' \in [Req -> Request] /\ Alike(r) /\ Joined(r, t)
      /\ req'[r].kind = "create" /\ req'[r].who = a /\ req'[r].key = req[r].key
      /\ req'[r].table = t /\ req'[r].at = "insert" /\ req'[r].status = x.status
      /\ actor' = [actor EXCEPT ![t] = x]
      /\ muddled' = IF Writers(t) = {} THEN muddled ELSE muddled \cup {t}
  BY <1>1, <1>2, <1>3, <1>5, <1>6, ChangedIs
<1>8. Begun(r, t, x)
  BY <1>2, <1>6, <1>7 DEF Begun
<1>9. \A q \in Req : req[q].table # t
  <2>1. t # NoTable
    BY <1>1 DEF NoTable
  <2> QED BY <1>1, <2>1, OnlyMade
<1>10. Placed(r)'
  <2>1. \A q \in Req \ {r} : req'[q].table # t
    BY <1>7, <1>9 DEF Alike, AlikeAt
  <2>2. t # NoTable /\ t \in live' /\ t \notin recorded'
    BY <1>1, <1>2, <1>3 DEF NoTable
  <2> QED BY <1>4, <1>7, <2>1, <2>2 DEF Placed, KindsAt
<1>11. Typed' /\ Known'
  <2>1. /\ made' \in 0 .. MaxTables /\ made <= made' /\ live' \subseteq 1 .. made'
    BY <1>1, <1>2
  <2>2. departed' \subseteq Account /\ hostless' \subseteq live'
    BY <1>1, <1>2
  <2> QED BY <1>3, <1>5, <1>7, <1>8, <1>10, <2>1, <2>2, BegunKnown
<1>12. Proper(r, t, x)
  <2>1. x.host # NoSeat
    BY <1>5, SizesAssumption DEF Taken, Seat, NoSeat
  <2> QED BY <1>2, <1>3, <1>5, <1>7, <1>9, <2>1 DEF Proper
<1> QED BY <1>3, <1>5, <1>8, <1>11, <1>12

\* Somebody sits down at a table that has a free seat.
LEMMA JoinBegins ==
    ASSUME Typed, Known, HostSeated, NEW r \in Req, FindCode(r),
           ~(UNCHANGED <<actor, muddled, hostless>> /\ Finish(r))
    PROVE  /\ Typed' /\ Known'
           /\ \E t \in Table, x \in ActorState : Begun(r, t, x) /\ Proper(r, t, x)
<1> DEFINE t == req[r].table
           a == req[r].who
           x == Occupied(actor[t], a)
<1>1. /\ req \in [Req -> Request] /\ actor \in [Table -> ActorState]
      /\ made \in 0 .. MaxTables /\ MaxTables \in Nat
      /\ live \subseteq 1 .. made /\ recorded \subseteq 1 .. made
      /\ departed \subseteq Account /\ hostless \subseteq live
  <2>1. MaxTables \in Nat
    BY SizesAssumption
  <2> QED BY <2>1 DEF Typed
<1>2. /\ req[r].at = "find_code" /\ t \in recorded /\ t \in live
      /\ CanOccupy(actor[t], a) /\ Changed(r, t, x, "status") /\ hostless' = hostless \ {t}
      /\ UNCHANGED <<live, made, recorded, row, cache, answers, departed>>
  BY DEF FindCode, database
<1>3. t \in Table /\ t # NoTable
  BY <1>2, TablesAre
<1>4. Placed(r) /\ req[r].kind = "join" /\ a \in Account
  BY <1>2, KindsAre DEF Known, Placed, Seaters
<1>5. /\ x \in ActorState /\ x.status \in {"open", "seated"}
      /\ \A b \in Account : Holds(actor[t].seats, b) => Holds(x.seats, b)
      /\ x.host \in Taken(x.seats) /\ actor[t].status # "closed"
  <2>1. actor[t].host # NoSeat => actor[t].host \in Taken(actor[t].seats)
    BY <1>2 DEF HostSeated
  <2>2. Taken(actor[t].seats) # Seat /\ actor[t].status # "closed"
    BY <1>2 DEF CanOccupy
  <2>3. actor[t] \in ActorState
    BY <1>1, <1>3
  <2> QED BY <1>4, <2>1, <2>2, <2>3, OccupiedIs
<1> HIDE DEF x
<1>6. "status" \in Places /\ "find_code" \notin Writes
  BY DEF Places, Writes
<1>7. /\ req' \in [Req -> Request] /\ Alike(r) /\ Joined(r, t)
      /\ req'[r].kind = "join" /\ req'[r].who = a /\ req'[r].key = req[r].key
      /\ req'[r].table = t /\ req'[r].at = "status" /\ req'[r].status = x.status
      /\ actor' = [actor EXCEPT ![t] = x]
      /\ muddled' = IF Writers(t) = {} THEN muddled ELSE muddled \cup {t}
  BY <1>1, <1>2, <1>3, <1>4, <1>5, <1>6, ChangedIs
<1>8. Begun(r, t, x)
  BY <1>2, <1>6, <1>7 DEF Begun
<1>9. Placed(r)'
  BY <1>2, <1>3, <1>4, <1>7 DEF Placed, KindsAt, Seaters
<1>10. Typed' /\ Known'
  <2>1. /\ made' \in 0 .. MaxTables /\ made <= made' /\ live' \subseteq 1 .. made'
    BY <1>1, <1>2
  <2>2. departed' \subseteq Account /\ hostless' \subseteq live'
    BY <1>1, <1>2
  <2> QED BY <1>2, <1>3, <1>5, <1>7, <1>8, <1>9, <2>1, <2>2, BegunKnown
<1>11. Proper(r, t, x)
  <2>1. x.host # NoSeat
    BY <1>5, SizesAssumption DEF Taken, Seat, NoSeat
  <2> QED BY <1>2, <1>3, <1>5, <1>7, <2>1 DEF Proper
<1> QED BY <1>3, <1>5, <1>8, <1>10, <1>11

\* A table is closed, over its host's or an administrator's request.
LEMMA CloseBegins ==
    ASSUME Typed, Known, HostSeated, NEW r \in Req, FindTable(r),
           ~(UNCHANGED <<actor, muddled>> /\ Finish(r))
    PROVE  /\ Typed' /\ Known'
           /\ \E t \in Table, x \in ActorState : Begun(r, t, x) /\ Proper(r, t, x)
<1> DEFINE t == req[r].table
           y == actor[t]
           x == AfterClose(req[r].kind, y)
<1>1. /\ req \in [Req -> Request] /\ actor \in [Table -> ActorState]
      /\ made \in 0 .. MaxTables /\ MaxTables \in Nat
      /\ live \subseteq 1 .. made /\ recorded \subseteq 1 .. made
      /\ departed \subseteq Account /\ hostless \subseteq live
  <2>1. MaxTables \in Nat
    BY SizesAssumption
  <2> QED BY <2>1 DEF Typed
<1>2. /\ req[r].at = "find_table" /\ MayClose(r, t) /\ Changed(r, t, x, "status")
      /\ UNCHANGED <<live, made, recorded, row, cache, answers, departed, hostless>>
  BY DEF FindTable, database
<1>3. t \in recorded /\ (req[r].kind = "force" \/ ~y.playing)
  BY <1>2 DEF MayClose
<1>4. t \in Table /\ t # NoTable
  BY <1>3, TablesAre
<1>5. Placed(r) /\ req[r].kind \in {"close", "force"}
  BY <1>2, KindsAre DEF Known
<1>6. y \in ActorState
  BY <1>1, <1>4
<1>7. x \in ActorState /\ x.status = "closed" /\ x.seats = y.seats /\ x.host = y.host
  <2> DEFINE kind == req[r].kind
  <2>1. kind = "force" \/ (kind # "force" /\ ~y.playing)
    BY <1>3
  <2> HIDE DEF y, kind
  <2>2. "closed" \in Status /\ FALSE \in BOOLEAN
    BY Zenon DEF Status
  <2>3. x = [y EXCEPT !.status = "closed"] \/ x = [y EXCEPT !.status = "closed", !.playing = FALSE]
    BY <2>1 DEF AfterClose, Closed, ForceClosed, kind
  <2> QED BY <1>6, <2>2, <2>3 DEF ActorState
<1> HIDE DEF x, y
<1>8. "status" \in Places /\ "find_table" \notin Writes
  BY DEF Places, Writes
<1>9. /\ req' \in [Req -> Request] /\ Alike(r) /\ Joined(r, t)
      /\ req'[r].kind = req[r].kind /\ req'[r].who = req[r].who /\ req'[r].key = req[r].key
      /\ req'[r].table = t /\ req'[r].at = "status" /\ req'[r].status = x.status
      /\ actor' = [actor EXCEPT ![t] = x]
      /\ muddled' = IF Writers(t) = {} THEN muddled ELSE muddled \cup {t}
  BY <1>1, <1>2, <1>4, <1>7, <1>8, ChangedIs
<1>10. Begun(r, t, x)
  BY <1>2, <1>8, <1>9 DEF Begun
<1>11. Placed(r)'
  BY <1>2, <1>3, <1>4, <1>5, <1>9 DEF Placed, KindsAt, Seaters
<1>12. Typed' /\ Known'
  <2>1. /\ made' \in 0 .. MaxTables /\ made <= made' /\ live' \subseteq 1 .. made'
    BY <1>1, <1>2
  <2>2. departed' \subseteq Account /\ hostless' \subseteq live'
    BY <1>1, <1>2
  <2> QED BY <1>3, <1>4, <1>7, <1>9, <1>10, <1>11, <2>1, <2>2, BegunKnown
<1>13. Proper(r, t, x)
  <2>1. t \in live => (y.host # NoSeat => y.host \in Taken(y.seats))
    BY DEF HostSeated, y
  <2>2. live' = live /\ hostless' = hostless /\ departed' = departed
    BY <1>2
  <2>3. \A a \in Account : Holds(actor[t].seats, a) => Holds(x.seats, a)
    BY <1>7 DEF y
  <2>4. x.seats = actor[t].seats /\ x.host = actor[t].host
    BY <1>7 DEF y
  <2>5. req'[r].kind # "create" /\ req'[r].at # "insert"
    BY <1>5, <1>9
  <2> QED BY <1>3, <1>7, <1>9, <2>1, <2>2, <2>3, <2>4, <2>5 DEF Proper
<1> QED BY <1>4, <1>7, <1>10, <1>12, <1>13

\* Somebody leaves.
LEMMA LeaveBegins ==
    ASSUME Typed, Known, HostSeated, NEW r \in Req, NEW a \in Account, NEW t \in Table,
           StartLeave(r, a, t)
    PROVE  /\ Typed' /\ Known'
           /\ \E x \in ActorState : Begun(r, t, x) /\ Proper(r, t, x)
<1> DEFINE y == actor[t]
           x == Vacated(y, a)
           lone == Writers(t) = {}
           new == [Idle EXCEPT !.kind = "leave", !.who = a, !.table = t, !.at = "status",
                               !.status = x.status, !.lone = lone]
<1>1. /\ req \in [Req -> Request] /\ actor \in [Table -> ActorState]
      /\ made \in 0 .. MaxTables /\ MaxTables \in Nat
      /\ live \subseteq 1 .. made /\ recorded \subseteq 1 .. made
      /\ departed \subseteq Account /\ hostless \subseteq live
  <2>1. MaxTables \in Nat
    BY SizesAssumption
  <2> QED BY <2>1 DEF Typed
<1>2. /\ t \in live /\ CanVacate(y, a) /\ Knows(a, t) /\ req[r] = Idle
      /\ actor' = [actor EXCEPT ![t] = x] /\ departed' = departed \cup {a}
      /\ muddled' = IF Writers(t) = {} THEN muddled ELSE muddled \cup {t}
      /\ UNCHANGED <<live, made, recorded, row, cache, answers, hostless>>
      /\ req' = [q \in Req |-> IF q = r THEN new
                               ELSE IF q \in Writers(t) THEN [req[q] EXCEPT !.lone = FALSE]
                               ELSE req[q]]
  BY DEF StartLeave, database
<1>3. t \in recorded
  <2>1. Told(t) => t \in recorded
    BY DEF Known, Told
  <2>2. Holds(row[t].seats, a) => t \in recorded
    BY NothingYet DEF Known, NoRow
  <2> QED BY <1>2, <2>1, <2>2 DEF Knows
<1>4. /\ x \in ActorState /\ x.status \in {"open", "closed"}
      /\ \A b \in Account : b # a /\ Holds(y.seats, b) => Holds(x.seats, b)
      /\ x.host # NoSeat => x.host \in Taken(x.seats)
      /\ x.host = NoSeat => y.host = NoSeat \/ x.status = "closed"
  <2>1. y.host # NoSeat => y.host \in Taken(y.seats)
    BY <1>2 DEF HostSeated
  <2>2. y \in ActorState
    BY <1>1
  <2> QED BY <1>2, <2>1, <2>2, VacatedIs
<1>5. y.status # "closed"
  BY <1>2 DEF CanVacate
<1> HIDE DEF x, y
<1>6. new \in Request /\ new.lone = lone
  <2>1. lone \in BOOLEAN
    OBVIOUS
  <2>2. "leave" \in Kinds /\ "status" \in Places /\ x.status \in Status
    BY <1>4, ActorStateFields DEF Kinds, Places, Writes
  <2> HIDE DEF lone
  <2> QED BY <2>1, <2>2, IdleIs DEF Request
<1>7. /\ new.kind = "leave" /\ new.who = a /\ new.key = NoKey /\ new.table = t
      /\ new.at = "status" /\ new.status = x.status
  <2> HIDE DEF lone
  <2> QED BY IdleIs DEF Request
<1> HIDE DEF new
<1>8. req' \in [Req -> Request] /\ Alike(r) /\ Joined(r, t) /\ req'[r] = new
  <2>1. new.lone = (Writers(t) = {})
    <3> HIDE DEF lone
    <3> QED BY <1>6 DEF lone
  <2> QED BY <1>1, <1>2, <1>6, <2>1, JoinedIs
<1>9. Begun(r, t, x)
  <2>1. req[r].at \notin Writes
    BY <1>2, IdleIs DEF Writes
  <2> QED BY <1>2, <1>7, <1>8, <2>1 DEF Begun
<1>10. t # NoTable
  BY DEF Table, NoTable
<1>11. Placed(r)'
  BY <1>2, <1>3, <1>7, <1>8, <1>10 DEF Placed, KindsAt, Seaters
<1>12. Typed' /\ Known'
  <2>1. /\ made' \in 0 .. MaxTables /\ made <= made' /\ live' \subseteq 1 .. made'
    BY <1>1, <1>2
  <2>2. departed' \subseteq Account /\ hostless' \subseteq live'
    BY <1>1, <1>2
  <2> QED BY <1>3, <1>4, <1>8, <1>9, <1>11, <2>1, <2>2, BegunKnown
<1>13. Proper(r, t, x)
  <2>1. y.host = NoSeat => t \in hostless
    BY <1>2, <1>5 DEF HostSeated, y
  <2>2. live' = live /\ hostless' = hostless /\ departed' = departed \cup {a}
    BY <1>2
  <2>3. \A b \in Account \ departed' : Holds(actor[t].seats, b) => Holds(x.seats, b)
    BY <1>4, <2>2 DEF y
  <2>4. actor[t].status # "closed"
    BY <1>5 DEF y
  <2>5. req'[r].kind = "leave" /\ req'[r].at = "status"
    BY <1>7, <1>8
  <2> QED BY <1>2, <1>3, <1>4, <2>1, <2>2, <2>3, <2>4, <2>5 DEF Proper
<1> QED BY <1>4, <1>9, <1>12, <1>13

-----------------------------------------------------------------------------
(* Steps that write the rows of a table. *)

\* Request r has made the rows of t into y, or failed to.
Wrote(r, t, y) ==
    /\ UNCHANGED <<live, actor, departed, hostless, made>> /\ Stays(r)
    /\ req[r].at \in Writes \ {"store"} /\ req[r].table = t
    /\ row' = [row EXCEPT ![t] = y]
    /\ recorded' = recorded \/ recorded' = recorded \cup {t}
    /\ \A u \in Table \ {t} : u \in muddled' <=> u \in muddled
    /\ \A x \in answers' : \/ x \in answers
                           \/ x = Answer(r) /\ req[r].at = "host" /\ req[r].kind = "create"

\* What the writing may do, for everything to be kept.
Fitting(r, t, y) ==
    /\ req'[r].at \in {"seats", "host", "store", "done"}
    /\ t \in live /\ t \in recorded' /\ actor[t].status # "closed" => y.status # "closed"
    /\ \/ y.seats = row[t].seats
       \/ /\ req[r].at = "seats" /\ y.seats = req[r].seats
          /\ \A u \in Table \ {t}, a \in Account : Holds(y.seats, a) => ~Holds(row[u].seats, a)
    /\ req'[r].at # "done" => /\ req'[r].kind = req[r].kind /\ req'[r].who = req[r].who
                              /\ req'[r].table = t /\ req[r].kind \in Seaters
    /\ req'[r].at = "seats" => t \in live /\ req'[r].seats = actor[t].seats
    /\ req'[r].at = "host" => req[r].at = "seats" /\ y.seats = req[r].seats
    /\ req'[r].at = "store" => req[r].at = "host"
    /\ req'[r].at \in {"seats", "host"} =>
          /\ req'[r].lone = req[r].lone
          /\ t \in muddled => t \in muddled'
          /\ req[r].lone => /\ y.status = actor[t].status /\ req'[r].host = HostAccount(actor[t])
                            /\ req'[r].at = "host" => y.seats = actor[t].seats
    /\ req'[r].at \in {"store", "done"} /\ t \in live /\ t \notin muddled' =>
          /\ req[r].lone /\ t \in recorded'
          /\ y.seats = actor[t].seats /\ y.host = HostAccount(actor[t])
          /\ y.status = actor[t].status
    /\ t \notin live => /\ y.seats = row[t].seats /\ y.host = row[t].host /\ t \in recorded
                        /\ t \in muddled => t \in muddled'

\* A statement of the one writer of a table keeps the invariant if it is fitting.
LEMMA WroteKeeps ==
    ASSUME TablesInv, NEW r \in Req, NEW t \in Table, NEW y, Wrote(r, t, y), Fitting(r, t, y)
    PROVE  HostSeated' /\ StatusTrue' /\ Mirrored' /\ RowsApart' /\ Owned'
<1>1. /\ UNCHANGED <<live, actor, departed, hostless>>
      /\ \A q \in Req \ {r} : req'[q] = req[q]
      /\ req[r].at \in Writes \ {"store"} /\ req[r].table = t
      /\ row'[t] = y /\ \A u \in Table \ {t} : row'[u] = row[u]
      /\ \A u \in Table \ {t} : /\ u \in recorded' <=> u \in recorded
                                /\ u \in muddled' <=> u \in muddled
      /\ recorded \subseteq recorded'
      /\ \A x \in answers' : \/ x \in answers
                             \/ x = Answer(r) /\ req[r].at = "host" /\ req[r].kind = "create"
  BY DEF Wrote, Stays, TablesInv, Typed
<1>2. /\ Typed /\ HostSeated /\ StatusTrue /\ Mirrored /\ RowsApart /\ Owned
      /\ \A q \in Req : Placed(q)
      /\ live \subseteq Table /\ recorded \subseteq Table
  BY TablesAre DEF TablesInv, Known
<1>3. recorded' \subseteq Table
  BY <1>2 DEF Wrote
<1>4. HostSeated'
  BY <1>1, <1>2 DEF HostSeated
<1>5. StatusTrue'
  <2>1. ASSUME NEW q \in Req, req'[q].at = "status" PROVE req'[q] = req[q]
    BY <1>1, <2>1 DEF Fitting
  <2>2. ASSUME NEW u \in live, actor[u].status # "closed", u \in recorded'
        PROVE  row'[u].status # "closed"
    <3>1. CASE u = t
      BY <1>1, <2>2, <3>1 DEF Fitting
    <3>2. CASE u # t
      BY <1>1, <1>2, <2>2, <3>2 DEF StatusTrue
    <3> QED BY <3>1, <3>2
  <2> QED BY <1>1, <1>2, <2>1, <2>2 DEF StatusTrue
<1>6. r \in Writers(t)
  BY <1>1 DEF Writers
<1>7. \A u \in Table \ {t} : Writers(u)' = Writers(u) /\ r \notin Writers(u)
  <2>1. req'[r].at \in Writes \ {"store"} => req'[r].table = t
    BY DEF Fitting, Writes
  <2> QED BY <1>1, <2>1 DEF Writers
<1>8. ASSUME Writers(t) = {r}
      PROVE  Writers(t)' = IF req'[r].at \in {"seats", "host"} THEN {r} ELSE {}
  <2>1. req'[r].at \in {"seats", "host"} => req'[r].table = t /\ req'[r].at \in Writes \ {"store"}
    BY DEF Fitting, Writes
  <2>2. req'[r].at \notin {"seats", "host"} => req'[r].at \notin Writes \ {"store"}
    BY DEF Fitting, Writes
  <2> QED BY <1>1, <1>8, <2>1, <2>2 DEF Writers
<1>9. Mirrored'
  <2>1. req[r].lone => Alone(r) /\ Writers(t) = {r}
    BY <1>1, <1>2 DEF Mirrored, Alone
  <2>2. ASSUME NEW q \in Req, req'[q].at \in Writes \ {"store"}, req'[q].lone
        PROVE  Alone(q)'
    <3>1. CASE q = r
      <4>1. req'[r].at \in {"seats", "host"}
        BY <2>2, <3>1 DEF Fitting, Writes
      <4>2. req[r].lone /\ req'[r].table = t
        BY <2>2, <3>1, <4>1 DEF Fitting
      <4>3. {p \in Req : req'[p].table = req'[q].table /\ req'[p].at \in Writes \ {"store"}} = {q}
        BY <1>8, <2>1, <3>1, <4>1, <4>2 DEF Writers
      <4> QED BY <1>1, <3>1, <4>1, <4>2, <4>3 DEF Alone, Writers, Fitting
    <3>2. CASE q # r
      <4>1. req'[q] = req[q]
        BY <1>1, <3>2
      <4>2. Alone(q)
        BY <1>2, <2>2, <4>1 DEF Mirrored
      <4>3. req[q].table # t /\ req[q].table \in Table
        <5>1. req[q].table # t
          BY <1>6, <3>2, <4>2 DEF Alone
        <5>2. req[q].table # NoTable
          BY <1>2, <2>2, <4>1 DEF Placed, Writes
        <5> QED BY <1>2, <5>1, <5>2, RequestFields DEF Typed
      <4>4. {p \in Req : req'[p].table = req'[q].table /\ req'[p].at \in Writes \ {"store"}} = {q}
        <5>1. Writers(req[q].table) = {q}
          BY <4>2 DEF Alone
        <5>2. ASSUME NEW u \in Table, u = req[q].table PROVE Writers(u)' = {q}
          BY <1>7, <4>3, <5>1, <5>2
        <5> QED BY <4>1, <4>3, <5>2 DEF Writers
      <4> QED BY <1>1, <4>1, <4>2, <4>3, <4>4 DEF Alone, Writers
    <3> QED BY <3>1, <3>2
  <2>3. ASSUME NEW u \in live, u \notin muddled'
        PROVE  /\ Writers(u)' = {} => /\ u \in recorded'
                                      /\ SeatsMirrored(u)' /\ row'[u].status = actor'[u].status
               /\ \A q \in Writers(u)' : /\ req'[q].lone
                                         /\ req'[q].kind \in {"close", "force"} => SeatsMirrored(u)'
    <3>1. CASE u = t /\ req'[r].at \in {"seats", "host"}
      <4>1. t \notin muddled
        BY <2>3, <3>1 DEF Fitting
      <4>2. req[r].lone
        BY <1>2, <1>6, <2>3, <3>1, <4>1 DEF Mirrored
      <4>3. Writers(t)' = {r}
        BY <1>8, <2>1, <3>1, <4>2
      <4> QED BY <3>1, <4>2, <4>3 DEF Fitting, Seaters
    <3>2. CASE u = t /\ req'[r].at \in {"store", "done"}
      <4>1. /\ req[r].lone /\ t \in recorded'
            /\ y.seats = actor[t].seats /\ y.host = HostAccount(actor[t])
            /\ y.status = actor[t].status
        BY <2>3, <3>2 DEF Fitting
      <4>2. Writers(t)' = {}
        BY <1>8, <2>1, <3>2, <4>1
      <4> QED BY <1>1, <3>2, <4>1, <4>2 DEF SeatsMirrored
    <3>3. CASE u # t
      <4>1. u \in Table \ {t} /\ u \notin muddled /\ Writers(u)' = Writers(u)
        BY <1>1, <1>2, <1>7, <2>3, <3>3
      <4>2. \A q \in Writers(u) : req'[q] = req[q]
        BY <1>1, <1>7, <4>1 DEF Writers
      <4>3. SeatsMirrored(u) => SeatsMirrored(u)'
        BY <1>1, <4>1 DEF SeatsMirrored
      <4> QED BY <1>1, <1>2, <2>3, <4>1, <4>2, <4>3 DEF Mirrored
    <3> QED BY <3>1, <3>2, <3>3 DEF Fitting
  <2>4. ASSUME NEW u \in recorded', u \notin live, u \notin muddled'
        PROVE  row'[u].host = NoAccount \/ Holds(row'[u].seats, row'[u].host)
    <3>1. CASE u = t
      BY <1>1, <1>2, <2>4, <3>1 DEF Mirrored, Fitting
    <3>2. CASE u # t
      BY <1>1, <1>2, <1>3, <2>4, <3>2 DEF Mirrored
    <3> QED BY <3>1, <3>2
  <2> QED BY <1>1, <2>2, <2>3, <2>4 DEF Mirrored
<1>10. RowsApart'
  <2>1. CASE y.seats = row[t].seats
    <3>1. \A u \in Table : row'[u].seats = row[u].seats
      BY <1>1, <2>1
    <3> QED BY <1>2, <3>1 DEF RowsApart
  <2>2. CASE \A u \in Table \ {t}, a \in Account : Holds(y.seats, a) => ~Holds(row[u].seats, a)
    BY <1>1, <1>2, <2>2 DEF RowsApart
  <2> QED BY <2>1, <2>2 DEF Fitting
<1>11. Owned'
  <2>1. \A u, a : Keeps(a, u) => Keeps(a, u)'
    BY <1>1 DEF Keeps, Fitting
  <2>2. ASSUME NEW a, NEW u \in Table, Keeps(a, u), Holds(row[u].seats, a)
        PROVE  Holds(row'[u].seats, a)
    <3>1. CASE u = t
      <4>1. req[r].at = "seats" => Holds(req[r].seats, a)
        BY <1>1, <2>2, <3>1 DEF Keeps
      <4> QED BY <1>1, <2>2, <3>1, <4>1 DEF Fitting
    <3>2. CASE u # t
      BY <1>1, <2>2, <3>2
    <3> QED BY <3>1, <3>2
  <2>3. \A x \in answers : x.table \in Table
    BY <1>2 DEF Typed, Creation
  <2>4. ASSUME NEW q \in Req, Creates(q)
        PROVE  req[q].table \in Table
    <3>1. req[q].table # NoTable
      BY <1>2, <2>4 DEF Creates, Placed, Writes
    <3> QED BY <1>2, <3>1, RequestFields DEF Typed
  <2>5. ASSUME NEW x \in answers', x.who \notin departed'
        PROVE  Keeps(x.who, x.table)' /\ Holds(row'[x.table].seats, x.who)
    <3>1. CASE x \in answers
      <4>1. Keeps(x.who, x.table) /\ Holds(row[x.table].seats, x.who)
        BY <1>1, <1>2, <2>5, <3>1 DEF Owned
      <4> QED BY <2>1, <2>2, <2>3, <3>1, <4>1
    <3>2. CASE x = Answer(r) /\ req[r].at = "host" /\ req[r].kind = "create"
      <4>1. x.who = req[r].who /\ x.table = req[r].table
        BY <3>2 DEF Answer
      <4>2. Creates(r)
        BY <3>2 DEF Creates, Writes
      <4>3. Keeps(x.who, x.table) /\ Holds(row[x.table].seats, x.who)
        BY <1>1, <1>2, <2>5, <3>2, <4>1, <4>2 DEF Owned
      <4> QED BY <1>1, <2>1, <2>2, <4>1, <4>3
    <3> QED BY <1>1, <2>5, <3>1, <3>2
  <2>6. ASSUME NEW q \in Req, Creates(q)', req'[q].who \notin departed'
        PROVE  /\ \A a, u : a = req'[q].who /\ u = req'[q].table => Keeps(a, u)'
               /\ req'[q].at \in {"host", "store"}
                    => Holds(row'[req'[q].table].seats, req'[q].who)
    <3>1. Creates(q) /\ req'[q].who = req[q].who /\ req'[q].table = req[q].table
      <4>1. CASE q = r
        BY <1>1, <2>6, <4>1 DEF Creates, Fitting, Writes
      <4>2. CASE q # r
        BY <1>1, <2>6, <4>2 DEF Creates
      <4> QED BY <4>1, <4>2
    <3>2. Keeps(req[q].who, req[q].table)
      BY <1>1, <1>2, <2>6, <3>1 DEF Owned
    <3>3. \A a, u : a = req'[q].who /\ u = req'[q].table => Keeps(a, u)'
      BY <2>1, <3>1, <3>2
    <3>4. req'[q].at \in {"host", "store"} => Holds(row'[req[q].table].seats, req[q].who)
      <4>1. CASE req[q].at \in {"host", "store"}
        <5>1. Holds(row[req[q].table].seats, req[q].who)
          BY <1>1, <1>2, <2>6, <3>1, <4>1 DEF Owned
        <5> QED BY <2>2, <2>4, <3>1, <3>2, <5>1
      <4>2. CASE req[q].at \notin {"host", "store"} /\ req'[q].at \in {"host", "store"}
        <5>1. q = r
          BY <1>1, <4>2
        <5>2. req[r].at = "seats" /\ y.seats = req[r].seats
          BY <4>2, <5>1 DEF Fitting
        <5>3. Holds(req[r].seats, req[r].who)
          BY <3>2, <5>1, <5>2 DEF Keeps
        <5> QED BY <1>1, <5>1, <5>2, <5>3
      <4> QED BY <4>1, <4>2
    <3> QED BY <3>1, <3>3, <3>4
  <2>7. \A q \in Req : Creates(q)' /\ req'[q].who \notin departed' =>
           /\ Keeps(req[q].who, req[q].table)'
           /\ req'[q].at \in {"host", "store"} => Holds(row'[req'[q].table].seats, req'[q].who)
    BY <2>6 DEF Keeps
  <2> QED BY <2>5, <2>7 DEF Owned
<1> QED BY <1>4, <1>5, <1>9, <1>10, <1>11

\* It keeps what is known.
LEMMA WroteKnown ==
    ASSUME Typed, Known, NEW r \in Req, NEW t \in Table, NEW y \in RowState, Wrote(r, t, y),
           req' \in [Req -> Request], cache' \subseteq answers', muddled' \subseteq Table,
           t \in recorded' \/ y = row[t], req'[r].table \in {NoTable, t}, Placed(r)'
    PROVE  Typed' /\ Known'
<1>1. /\ live' = live /\ departed' = departed /\ hostless' = hostless /\ made' = made
      /\ actor' = actor /\ row' = [row EXCEPT ![t] = y] /\ Stays(r) /\ req[r].table = t
      /\ req[r].at \in Writes \ {"store"} /\ recorded \subseteq recorded'
      /\ recorded' \subseteq recorded \cup {t}
  BY DEF Wrote
<1>2. t \in 1 .. made
  <2>1. t # NoTable
    BY TablesAre
  <2> QED BY <1>1, <2>1, OnlyMade
<1>3. answers' \subseteq Creation /\ \A x \in answers' : x.table \in recorded'
  <2> SUFFICES ASSUME NEW x \in answers' PROVE x \in Creation /\ x.table \in recorded'
    OBVIOUS
  <2>1. CASE x \in answers
    BY <1>1, <2>1 DEF Typed, Known
  <2>2. CASE x = Answer(r) /\ req[r].at = "host" /\ req[r].kind = "create"
    <3>1. req[r].who \in Account /\ t \in recorded
      <4>1. Placed(r) /\ t # NoTable
        BY TablesAre DEF Known
      <4> QED BY <1>1, <2>2, <4>1 DEF Placed, Seaters
    <3>2. req[r].key \in Key \cup {NoKey}
      BY RequestFields DEF Typed
    <3> QED BY <1>1, <2>2, <3>1, <3>2 DEF Answer, Creation
  <2> QED BY <2>1, <2>2 DEF Wrote
<1>4. Known'
  <2>1. Alike(r) /\ live \subseteq live'
    BY <1>1 DEF Stays, Alike, AlikeAt
  <2>2. \A u \in Table \ recorded' : row'[u] = row[u]
    <3>1. row \in [Table -> RowState]
      BY DEF Typed
    <3> QED BY <1>1, <3>1
  <2>3. req'[r].table \in recorded' \/ req'[r].table \in {NoTable, req[r].table, made + 1}
    BY <1>1
  <2> QED BY <1>1, <1>3, <2>1, <2>2, <2>3, KnownStep
<1>5. Typed'
  <2>1. recorded' \subseteq 1 .. made'
    BY <1>1, <1>2 DEF Typed
  <2>2. row' \in [Table -> RowState]
    BY <1>1 DEF Typed
  <2> QED BY <1>1, <1>3, <2>1, <2>2 DEF Typed
<1> QED BY <1>4, <1>5

\* The state of some rows is what its fields are.
LEMMA RowStateFields ==
    ASSUME NEW y \in RowState
    PROVE  y.seats \in Seating /\ y.host \in Account \cup {NoAccount} /\ y.status \in Status
BY DEF RowState

\* A request that waits for a write is about a table, and where it stands.
LEMMA WritingAt ==
    ASSUME Typed, Known, NEW r \in Req, req[r].at \in Writes \ {"store"}
    PROVE  /\ req[r].table \in Table
           /\ req[r].at # "insert" => req[r].table \in recorded
           /\ req[r].kind \in Seaters => req[r].table \in live /\ req[r].who \in Account
           /\ req[r].at \in {"insert", "seats", "host"} => req[r].kind \in Seaters
<1>1. Placed(r)
  BY DEF Known
<1>2. req[r].table # NoTable
  BY <1>1 DEF Placed, Writes
<1>3. req[r].table \in Table
  BY <1>2, RequestFields DEF Typed
<1> QED BY <1>1, <1>2, <1>3, KindsAre DEF Placed, Seaters

\* The insert of a row is fitting.
LEMMA InsertWrites ==
    ASSUME TablesInv, NEW r \in Req, Insert(r)
    PROVE  /\ Typed' /\ Known'
           /\ \E t \in Table, y \in RowState : Wrote(r, t, y) /\ Fitting(r, t, y)
<1> DEFINE t == req[r].table
           y == [NoRow EXCEPT !.host = req[r].who]
<1>1. /\ req[r].at = "insert" /\ recorded' = recorded \cup {t}
      /\ row' = [row EXCEPT ![t] = y] /\ Pictured(r)
      /\ UNCHANGED <<live, actor, made, cache, muddled, answers, departed, hostless>>
  BY DEF Insert, history
<1>2. /\ Typed /\ Known /\ req \in [Req -> Request] /\ actor \in [Table -> ActorState]
      /\ cache \subseteq answers /\ muddled \subseteq Table
  BY DEF TablesInv, Typed
<1>3. req[r].at \in Writes \ {"store"}
  BY <1>1 DEF Writes
<1>4. t \in Table /\ req[r].kind \in Seaters /\ t \in live /\ req[r].who \in Account
  BY <1>1, <1>2, <1>3, WritingAt
<1>5. /\ req' \in [Req -> Request] /\ Stays(r)
      /\ req'[r].kind = req[r].kind /\ req'[r].who = req[r].who /\ req'[r].key = req[r].key
      /\ req'[r].table = t /\ req'[r].at = "seats" /\ req'[r].seats = actor[t].seats
      /\ req'[r].host = HostAccount(actor[t]) /\ req'[r].lone = req[r].lone
  BY <1>1, <1>2, <1>4, PictureIs
<1>6. y \in RowState /\ y.seats = NoSeats /\ y.status = "open"
  BY <1>4, NothingYet DEF NoRow, RowState
<1>7. row[t].seats = NoSeats
  <2>1. Placed(r)
    BY <1>2 DEF Known
  <2>2. t \notin recorded
    BY <1>1, <2>1 DEF Placed
  <2>3. row[t] = NoRow
    BY <1>2, <1>4, <2>2 DEF Known
  <2> QED BY <2>3 DEF NoRow
<1> HIDE DEF y
<1>8. Wrote(r, t, y)
  BY <1>1, <1>3, <1>5 DEF Wrote
<1>9. Placed(r)'
  <2>1. Placed(r) /\ t # NoTable
    BY <1>2, <1>4, TablesAre DEF Known
  <2> QED BY <1>1, <1>4, <1>5, <2>1 DEF Placed, KindsAt, Seaters
<1>10. Typed' /\ Known'
  BY <1>1, <1>2, <1>4, <1>5, <1>6, <1>8, <1>9, WroteKnown
<1>11. Fitting(r, t, y)
  <2>1. req[r].lone => actor[t].status = "open"
    BY <1>1, <1>3 DEF TablesInv, Mirrored, Alone
  <2> QED BY <1>1, <1>4, <1>5, <1>6, <1>7, <2>1 DEF Fitting
<1> QED BY <1>4, <1>6, <1>8, <1>10, <1>11

\* The update of a status is.
LEMMA SetStatusWrites ==
    ASSUME TablesInv, NEW r \in Req, SetStatus(r)
    PROVE  /\ Typed' /\ Known'
           /\ \E t \in Table, y \in RowState : Wrote(r, t, y) /\ Fitting(r, t, y)
<1> DEFINE t == req[r].table
           closes == req[r].kind \in {"close", "force"}
           status == IF closes THEN "closed" ELSE req[r].status
           y == [row[t] EXCEPT !.status = status]
<1>1. /\ req[r].at = "status" /\ row' = [row EXCEPT ![t] = y]
      /\ IF closes THEN Finish(r) ELSE Pictured(r)
      /\ UNCHANGED <<live, actor, made, recorded, cache, muddled, answers, departed, hostless>>
  BY DEF SetStatus, history
<1>2. /\ Typed /\ Known /\ req \in [Req -> Request] /\ actor \in [Table -> ActorState]
      /\ row \in [Table -> RowState] /\ cache \subseteq answers /\ muddled \subseteq Table
  BY DEF TablesInv, Typed
<1>3. req[r].at \in Writes \ {"store"}
  BY <1>1 DEF Writes
<1>4. t \in Table /\ t \in recorded /\ (req[r].kind \in Seaters => t \in live /\ req[r].who \in Account)
  BY <1>1, <1>2, <1>3, WritingAt
<1>5. row[t] \in RowState
  BY <1>2, <1>4
<1>6. status \in Status /\ (closes => status = "closed") /\ (~closes => status = req[r].status)
  BY <1>2, RequestFields DEF Status
<1> HIDE DEF status
<1>7. y \in RowState /\ y.seats = row[t].seats /\ y.host = row[t].host /\ y.status = status
  BY <1>5, <1>6 DEF RowState
<1> HIDE DEF y
<1>8. Placed(r) /\ t # NoTable
  BY <1>2, <1>4, TablesAre DEF Known
<1>9. CASE closes
  <2>1. req' \in [Req -> Request] /\ Stays(r) /\ req'[r] = Idle
    BY <1>1, <1>2, <1>9, FinishIs
  <2>2. Placed(r)' /\ req'[r].at = "done" /\ req'[r].table = NoTable
    BY <2>1, IdlePlaced
  <2>3. Wrote(r, t, y)
    BY <1>1, <1>3, <2>1 DEF Wrote
  <2>4. Typed' /\ Known'
    BY <1>1, <1>2, <1>4, <1>7, <2>1, <2>2, <2>3, WroteKnown
  <2>5. Fitting(r, t, y)
    <3>1. actor[t].status = "closed"
      BY <1>1, <1>9 DEF TablesInv, StatusTrue
    <3>2. r \in Writers(t)
      BY <1>3 DEF Writers
    <3>3. t \in live /\ t \notin muddled => req[r].lone /\ SeatsMirrored(t)
      BY <1>9, <3>2 DEF TablesInv, Mirrored
    <3> QED BY <1>1, <1>4, <1>6, <1>7, <1>9, <2>2, <3>1, <3>3 DEF Fitting, SeatsMirrored
  <2> QED BY <1>4, <1>7, <2>3, <2>4, <2>5
<1>10. CASE ~closes
  <2>1. req[r].kind \in Seaters
    BY <1>1, <1>8, <1>10, KindsAre DEF Seaters
  <2>2. /\ req' \in [Req -> Request] /\ Stays(r)
        /\ req'[r].kind = req[r].kind /\ req'[r].who = req[r].who /\ req'[r].key = req[r].key
        /\ req'[r].table = t /\ req'[r].at = "seats" /\ req'[r].seats = actor[t].seats
        /\ req'[r].host = HostAccount(actor[t]) /\ req'[r].lone = req[r].lone
    BY <1>1, <1>2, <1>4, <1>10, PictureIs
  <2>3. Wrote(r, t, y)
    BY <1>1, <1>3, <2>2 DEF Wrote
  <2>4. Placed(r)'
    BY <1>1, <1>4, <1>8, <2>1, <2>2 DEF Placed, KindsAt, Seaters
  <2>5. Typed' /\ Known'
    BY <1>1, <1>2, <1>4, <1>7, <2>2, <2>3, <2>4, WroteKnown
  <2>6. Fitting(r, t, y)
    <3>1. t \in live /\ actor[t].status # "closed" => req[r].status # "closed"
      BY <1>1 DEF TablesInv, StatusTrue
    <3>2. req[r].lone => req[r].status = actor[t].status
      BY <1>1, <1>3 DEF TablesInv, Mirrored, Alone
    <3> QED BY <1>1, <1>4, <1>6, <1>7, <1>10, <2>1, <2>2, <3>1, <3>2 DEF Fitting
  <2> QED BY <1>4, <1>7, <2>3, <2>5, <2>6
<1> QED BY <1>9, <1>10

\* The writing of seats is.
LEMMA SyncSeatsWrites ==
    ASSUME TablesInv, NEW r \in Req, SyncSeats(r)
    PROVE  /\ Typed' /\ Known'
           /\ \E t \in Table, y \in RowState : Wrote(r, t, y) /\ Fitting(r, t, y)
<1> DEFINE t == req[r].table
           y == [row[t] EXCEPT !.seats = req[r].seats]
<1>1. /\ req[r].at = "seats" /\ ~Clashes(t, req[r].seats) /\ row' = [row EXCEPT ![t] = y]
      /\ req' = [req EXCEPT ![r].at = "host", ![r].seats = NoSeats]
      /\ UNCHANGED <<live, actor, made, recorded, cache, muddled, answers, departed, hostless>>
  BY DEF SyncSeats, history
<1>2. /\ Typed /\ Known /\ req \in [Req -> Request] /\ actor \in [Table -> ActorState]
      /\ row \in [Table -> RowState] /\ cache \subseteq answers /\ muddled \subseteq Table
  BY DEF TablesInv, Typed
<1>3. req[r].at \in Writes \ {"store"}
  BY <1>1 DEF Writes
<1>4. /\ t \in Table /\ t \in recorded /\ req[r].kind \in Seaters
      /\ t \in live /\ req[r].who \in Account
  BY <1>1, <1>2, <1>3, WritingAt
<1>5. row[t] \in RowState /\ req[r].seats \in Seating
  BY <1>2, <1>4, RequestFields
<1>6. /\ y \in RowState /\ y.seats = req[r].seats /\ y.host = row[t].host
      /\ y.status = row[t].status
  BY <1>5 DEF RowState
<1> HIDE DEF y
<1>7. Placed(r) /\ t # NoTable
  BY <1>2, <1>4, TablesAre DEF Known
<1>8. /\ req' \in [Req -> Request] /\ Stays(r)
      /\ req'[r].kind = req[r].kind /\ req'[r].who = req[r].who /\ req'[r].key = req[r].key
      /\ req'[r].table = t /\ req'[r].at = "host" /\ req'[r].host = req[r].host
      /\ req'[r].lone = req[r].lone
  BY <1>1, <1>2, SyncedIs
<1>9. Wrote(r, t, y)
  BY <1>1, <1>3, <1>8 DEF Wrote
<1>10. Placed(r)'
  BY <1>1, <1>4, <1>7, <1>8 DEF Placed, KindsAt, Seaters
<1>11. Typed' /\ Known'
  BY <1>1, <1>2, <1>4, <1>6, <1>8, <1>9, <1>10, WroteKnown
<1>12. Fitting(r, t, y)
  <2>1. ASSUME NEW u \in Table \ {t}, NEW a \in Account, Holds(y.seats, a)
        PROVE  ~Holds(row[u].seats, a)
    <3>1. PICK s \in Seat : req[r].seats[s] = a
      BY <1>6, <2>1 DEF Holds
    <3>2. s \in Taken(req[r].seats)
      BY <3>1, NamesAssumption DEF Taken
    <3>3. u \in recorded => ~Holds(row[u].seats, a)
      BY <1>1, <2>1, <3>1, <3>2 DEF Clashes
    <3>4. u \notin recorded => ~Holds(row[u].seats, a)
      BY <1>2, NothingYet DEF Known, NoRow
    <3> QED BY <3>3, <3>4
  <2>2. t \in live /\ actor[t].status # "closed" => row[t].status # "closed"
    BY <1>4 DEF TablesInv, StatusTrue
  <2>3. req[r].lone => /\ row[t].status = actor[t].status /\ req[r].host = HostAccount(actor[t])
                       /\ req[r].seats = actor[t].seats
    BY <1>1, <1>3 DEF TablesInv, Mirrored, Alone
  <2> QED BY <1>1, <1>4, <1>6, <1>8, <2>1, <2>2, <2>3 DEF Fitting
<1> QED BY <1>4, <1>6, <1>9, <1>11, <1>12

\* The update of a host is.
LEMMA SetHostWrites ==
    ASSUME TablesInv, NEW r \in Req, SetHost(r)
    PROVE  /\ Typed' /\ Known'
           /\ \E t \in Table, y \in RowState : Wrote(r, t, y) /\ Fitting(r, t, y)
<1> DEFINE t == req[r].table
           y == [row[t] EXCEPT !.host = req[r].host]
<1>1. /\ req[r].at = "host" /\ row' = [row EXCEPT ![t] = y]
      /\ muddled' = IF req[r].lone THEN muddled \ {t} ELSE muddled
      /\ IF req[r].key = NoKey THEN Finish(r) ELSE req' = [req EXCEPT ![r].at = "store"]
      /\ answers' = IF req[r].kind = "create" /\ req[r].key = NoKey
                    THEN answers \cup {Answer(r)} ELSE answers
      /\ UNCHANGED <<live, actor, made, recorded, cache, departed, hostless>>
  BY DEF SetHost
<1>2. /\ Typed /\ Known /\ req \in [Req -> Request] /\ actor \in [Table -> ActorState]
      /\ row \in [Table -> RowState] /\ cache \subseteq answers /\ muddled \subseteq Table
  BY DEF TablesInv, Typed
<1>3. req[r].at \in Writes \ {"store"}
  BY <1>1 DEF Writes
<1>4. /\ t \in Table /\ t \in recorded /\ req[r].kind \in Seaters
      /\ t \in live /\ req[r].who \in Account
  BY <1>1, <1>2, <1>3, WritingAt
<1>5. row[t] \in RowState /\ req[r].host \in Account \cup {NoAccount}
  BY <1>2, <1>4, RequestFields
<1>6. /\ y \in RowState /\ y.host = req[r].host /\ y.seats = row[t].seats
      /\ y.status = row[t].status
  BY <1>5 DEF RowState
<1> HIDE DEF y
<1>7. Placed(r) /\ t # NoTable
  BY <1>2, <1>4, TablesAre DEF Known
<1>8. cache' \subseteq answers' /\ muddled' \subseteq Table
  BY <1>1, <1>2
<1>9. \A u \in Table \ {t} : u \in muddled' <=> u \in muddled
  BY <1>1
<1>10. \A x \in answers' : \/ x \in answers
                           \/ x = Answer(r) /\ req[r].at = "host" /\ req[r].kind = "create"
  BY <1>1
<1>11. /\ req' \in [Req -> Request] /\ Stays(r) /\ Placed(r)' /\ req'[r].table \in {NoTable, t}
       /\ \/ req'[r].at = "done"
          \/ /\ req'[r].at = "store" /\ req'[r].table = t
             /\ req'[r].kind = req[r].kind /\ req'[r].who = req[r].who
  <2>1. CASE req[r].key = NoKey
    <3>1. req' \in [Req -> Request] /\ Stays(r) /\ req'[r] = Idle
      BY <1>1, <1>2, <2>1, FinishIs
    <3> QED BY <3>1, IdlePlaced
  <2>2. CASE req[r].key # NoKey
    <3>1. "store" \in Places /\ req[r].kind = "create"
      BY <1>7, <2>2 DEF Places, Writes, Placed
    <3>2. /\ req' \in [Req -> Request] /\ Stays(r)
          /\ req'[r].kind = req[r].kind /\ req'[r].who = req[r].who /\ req'[r].key = req[r].key
          /\ req'[r].table = t /\ req'[r].at = "store"
      BY <1>1, <1>2, <2>2, <3>1, MoveIs
    <3>3. Placed(r)'
      BY <1>1, <1>4, <1>7, <3>1, <3>2 DEF Placed, KindsAt, Seaters
    <3> QED BY <3>2, <3>3
  <2> QED BY <2>1, <2>2
<1>12. Wrote(r, t, y)
  BY <1>1, <1>3, <1>9, <1>10, <1>11 DEF Wrote
<1>13. Typed' /\ Known'
  BY <1>1, <1>2, <1>4, <1>6, <1>8, <1>11, <1>12, WroteKnown
<1>14. Fitting(r, t, y)
  <2>1. r \in Writers(t)
    BY <1>3 DEF Writers
  <2>2. t \notin muddled => req[r].lone
    BY <1>4, <2>1 DEF TablesInv, Mirrored
  <2>3. t \notin muddled' => req[r].lone
    BY <1>1, <2>2
  <2>4. t \in live /\ actor[t].status # "closed" => row[t].status # "closed"
    BY <1>4 DEF TablesInv, StatusTrue
  <2>5. req[r].lone => /\ row[t].status = actor[t].status /\ req[r].host = HostAccount(actor[t])
                       /\ row[t].seats = actor[t].seats
    BY <1>1, <1>3 DEF TablesInv, Mirrored, Alone
  <2>6. recorded' = recorded
    BY <1>1
  <2> QED BY <1>1, <1>4, <1>6, <1>11, <2>3, <2>4, <2>5, <2>6 DEF Fitting
<1> QED BY <1>4, <1>6, <1>12, <1>13, <1>14

\* A statement that fails leaves its row, and its table muddled; that is fitting too.
LEMMA FailWrites ==
    ASSUME TablesInv, NEW r \in Req, Fail(r), req[r].at # "store"
    PROVE  /\ Typed' /\ Known'
           /\ \E t \in Table, y \in RowState : Wrote(r, t, y) /\ Fitting(r, t, y)
<1> DEFINE t == req[r].table
           y == row[t]
<1>1. /\ req[r].at \in Writes \ {"store"} /\ muddled' = muddled \cup {t} /\ Finish(r)
      /\ UNCHANGED <<live, actor, made, recorded, row, cache, answers, departed, hostless>>
  BY DEF Fail, database
<1>2. /\ Typed /\ Known /\ req \in [Req -> Request] /\ actor \in [Table -> ActorState]
      /\ row \in [Table -> RowState] /\ cache \subseteq answers /\ muddled \subseteq Table
  BY DEF TablesInv, Typed
<1>3. /\ t \in Table /\ (req[r].kind \in Seaters => t \in live)
      /\ (req[r].at # "insert" => t \in recorded)
      /\ (req[r].at \in {"insert", "seats", "host"} => req[r].kind \in Seaters)
  BY <1>1, <1>2, WritingAt
<1>4. req' \in [Req -> Request] /\ Stays(r) /\ req'[r] = Idle
  BY <1>1, <1>2, FinishIs
<1>5. Placed(r)' /\ req'[r].at = "done" /\ req'[r].table = NoTable
  BY <1>4, IdlePlaced
<1>6. row' = [row EXCEPT ![t] = y] /\ y \in RowState
  BY <1>1, <1>2, <1>3
<1>7. Wrote(r, t, y)
  BY <1>1, <1>4, <1>6 DEF Wrote
<1>8. Typed' /\ Known'
  BY <1>1, <1>2, <1>3, <1>4, <1>5, <1>6, <1>7, WroteKnown
<1>9. Fitting(r, t, y)
  <2>1. t \in live /\ t \in recorded /\ actor[t].status # "closed" => row[t].status # "closed"
    BY DEF TablesInv, StatusTrue
  <2>2. t \notin live => t \in recorded
    BY <1>3
  <2> QED BY <1>1, <1>5, <2>1, <2>2 DEF Fitting
<1> QED BY <1>3, <1>6, <1>7, <1>8, <1>9

-----------------------------------------------------------------------------
(* The other steps. *)

\* A deal or the end of one touches nothing that the rows mirror.
LEMMA PlayKeeps ==
    ASSUME TablesInv, NEW t \in Table, Deal(t) \/ Conclude(t)
    PROVE  TablesInv'
<1> PICK playing \in BOOLEAN : actor' = [actor EXCEPT ![t] = [actor[t] EXCEPT !.playing = playing]]
  <2>1. TRUE \in BOOLEAN /\ FALSE \in BOOLEAN
    OBVIOUS
  <2> QED BY <2>1 DEF Deal, Conclude
<1> DEFINE x == [actor[t] EXCEPT !.playing = playing]
<1>1. UNCHANGED <<live, req, made, recorded, row, cache, muddled, answers, departed, hostless>>
  BY DEF Deal, Conclude, database, history
<1>2. actor \in [Table -> ActorState] /\ live \subseteq Table
  BY TablesAre DEF TablesInv, Typed
<1>3. /\ x \in ActorState /\ x.seats = actor[t].seats /\ x.host = actor[t].host
      /\ x.status = actor[t].status
  <2>1. actor[t] \in ActorState
    BY <1>2
  <2> QED BY <2>1 DEF ActorState
<1>4. /\ actor' \in [Table -> ActorState]
      /\ \A u \in Table : /\ actor'[u].seats = actor[u].seats /\ actor'[u].host = actor[u].host
                          /\ actor'[u].status = actor[u].status
  <2>1. actor' = [actor EXCEPT ![t] = x]
    OBVIOUS
  <2> HIDE DEF x
  <2> QED BY <1>2, <1>3, <2>1
<1>5. \A u : Writers(u)' = Writers(u)
  BY <1>1 DEF Writers
<1>6. Typed' /\ Known'
  BY <1>1, <1>4 DEF TablesInv, Typed, Known, Placed
<1>7. HostSeated'
  BY <1>1, <1>2, <1>4 DEF TablesInv, HostSeated
<1>8. \A q \in Req : req[q].at \in Writes \ {"store"} => req[q].table \in Table
  <2> SUFFICES ASSUME NEW q \in Req, req[q].at \in Writes \ {"store"}
               PROVE  req[q].table \in Table
    OBVIOUS
  <2> QED BY WritingAt DEF TablesInv
<1>9. StatusTrue'
  <2>1. \A q \in Req : req[q].at = "status" => req[q].table \in Table
    BY <1>8 DEF Writes
  <2> QED BY <1>1, <1>2, <1>4, <2>1 DEF TablesInv, StatusTrue
<1>10. \A u \in Table : HostAccount(actor'[u]) = HostAccount(actor[u])
  BY <1>4 DEF HostAccount
<1>11. Mirrored'
  <2>1. \A u \in Table : SeatsMirrored(u)' <=> SeatsMirrored(u)
    BY <1>1, <1>4, <1>10 DEF SeatsMirrored
  <2>2. \A q \in Req : req[q].at \in Writes \ {"store"} /\ Alone(q) => Alone(q)'
    BY <1>1, <1>4, <1>5, <1>8, <1>10 DEF Alone
  <2>3. Mirrored
    BY DEF TablesInv
  <2>4. \A q \in Req : req'[q].at \in Writes \ {"store"} /\ req'[q].lone => Alone(q)'
    BY <1>1, <2>2, <2>3 DEF Mirrored
  <2>5. \A u \in live' \ muddled' :
          /\ Writers(u)' = {} => /\ u \in recorded'
                                 /\ SeatsMirrored(u)' /\ row'[u].status = actor'[u].status
          /\ \A q \in Writers(u)' : /\ req'[q].lone
                                    /\ req'[q].kind \in {"close", "force"} => SeatsMirrored(u)'
    BY <1>1, <1>2, <1>4, <1>5, <2>1, <2>3 DEF Mirrored
  <2> QED BY <1>1, <2>3, <2>4, <2>5 DEF Mirrored
<1>12. RowsApart'
  BY <1>1 DEF TablesInv, RowsApart
<1>13. Owned'
  <2>1. \A a, u : Keeps(a, u) => Keeps(a, u)'
    BY <1>1, <1>2, <1>4 DEF Keeps
  <2> QED BY <1>1, <2>1 DEF TablesInv, Owned, Creates
<1> QED BY <1>6, <1>7, <1>9, <1>11, <1>12, <1>13 DEF TablesInv

\* Closed over the socket, a table is muddled, and nobody writes it alone.
LEMMA SocketCloseKeeps ==
    ASSUME TablesInv, NEW t \in Table, SocketClose(t)
    PROVE  TablesInv'
<1> DEFINE x == Closed(actor[t])
<1>1. /\ UNCHANGED <<live, made, recorded, row, cache, answers, departed, hostless>>
      /\ t \in live /\ muddled' = muddled \cup {t} /\ actor' = [actor EXCEPT ![t] = x]
      /\ req' = [q \in Req |-> IF q \in Writers(t) THEN [req[q] EXCEPT !.lone = FALSE] ELSE req[q]]
  BY DEF SocketClose, database
<1>2. /\ actor \in [Table -> ActorState] /\ live \subseteq Table /\ req \in [Req -> Request]
      /\ Typed /\ Known /\ HostSeated /\ StatusTrue /\ Mirrored /\ RowsApart /\ Owned
  BY TablesAre DEF TablesInv, Typed
<1>3. x \in ActorState /\ x.seats = actor[t].seats /\ x.host = actor[t].host /\ x.status = "closed"
  <2>1. actor[t] \in ActorState /\ "closed" \in Status
    BY <1>2 DEF Status
  <2> QED BY <2>1 DEF Closed, ActorState
<1> HIDE DEF x
<1>4. /\ actor' \in [Table -> ActorState] /\ actor'[t].status = "closed"
      /\ \A u \in Table : /\ actor'[u].seats = actor[u].seats /\ actor'[u].host = actor[u].host
                          /\ u # t => actor'[u].status = actor[u].status
  BY <1>1, <1>2, <1>3
<1>5. ASSUME NEW q \in Req
      PROVE  /\ req'[q] \in Request /\ AlikeAt(q)
             /\ req'[q].lone => req[q].lone /\ q \notin Writers(t)
             /\ req[q].lone /\ q \notin Writers(t) => req'[q].lone
  <2>1. CASE q \notin Writers(t)
    <3>1. req'[q] = req[q]
      BY <1>1, <2>1
    <3> QED BY <1>2, <2>1, <3>1 DEF AlikeAt
  <2>2. CASE q \in Writers(t)
    <3> DEFINE old == req[q]
               less == [old EXCEPT !.lone = FALSE]
    <3>1. old \in Request /\ req'[q] = less
      BY <1>1, <1>2, <2>2
    <3>2. FALSE \in BOOLEAN
      OBVIOUS
    <3> HIDE DEF old
    <3>3. less \in Request
      BY <3>1, <3>2 DEF Request
    <3>4. /\ less.kind = old.kind /\ less.who = old.who /\ less.key = old.key
          /\ less.table = old.table /\ less.at = old.at /\ less.seats = old.seats
          /\ less.host = old.host /\ less.status = old.status /\ ~less.lone
      BY <3>1 DEF Request
    <3> HIDE DEF less
    <3> QED BY <2>2, <3>1, <3>3, <3>4 DEF AlikeAt, old
  <2> QED BY <2>1, <2>2
<1>6. \A u : Writers(u)' = Writers(u)
  BY <1>5 DEF Writers, AlikeAt
<1>7. Typed'
  <2>1. req' \in [Req -> Request]
    BY <1>1, <1>5
  <2> QED BY <1>1, <1>2, <1>4, <2>1 DEF Typed
<1>8. Known'
  <2>1. \A q \in Req : Placed(q)'
    BY <1>1, <1>2, <1>5 DEF Known, Placed, AlikeAt
  <2> QED BY <1>1, <1>2, <2>1 DEF Known
<1>9. HostSeated'
  BY <1>1, <1>2, <1>4 DEF HostSeated
<1>10. \A q \in Req : req[q].at \in Writes \ {"store"} => req[q].table \in Table
  <2> SUFFICES ASSUME NEW q \in Req, req[q].at \in Writes \ {"store"}
               PROVE  req[q].table \in Table
    OBVIOUS
  <2> QED BY <1>2, WritingAt
<1>11. StatusTrue'
  <2>1. \A q \in Req : req'[q].at = "status" =>
           /\ req[q].at = "status" /\ req'[q].kind = req[q].kind /\ req'[q].table = req[q].table
           /\ req'[q].status = req[q].status /\ req[q].table \in Table
    BY <1>5, <1>10 DEF AlikeAt, Writes
  <2>2. \A q \in Req : req'[q].at = "status" /\ req'[q].kind \in {"close", "force"} =>
           actor'[req'[q].table].status = "closed"
    BY <1>2, <1>4, <2>1 DEF StatusTrue
  <2>3. ASSUME NEW u \in live', actor'[u].status # "closed"
        PROVE  u # t /\ u \in live /\ u \in Table /\ actor[u].status # "closed"
    BY <1>1, <1>2, <1>4, <2>3
  <2> QED BY <1>1, <1>2, <2>1, <2>2, <2>3 DEF StatusTrue
<1>12. Mirrored'
  <2>1. \A u \in Table : SeatsMirrored(u)' <=> SeatsMirrored(u)
    BY <1>1, <1>4 DEF SeatsMirrored, HostAccount
  <2>2. ASSUME NEW q \in Req, req'[q].at \in Writes \ {"store"}, req'[q].lone
        PROVE  Alone(q)'
    <3>1. /\ AlikeAt(q) /\ req[q].lone /\ q \notin Writers(t) /\ req[q].at \in Writes \ {"store"}
      BY <1>5, <2>2 DEF AlikeAt
    <3>2. Alone(q) /\ req[q].table \in Table /\ req[q].table # t
      BY <1>2, <1>10, <3>1 DEF Mirrored, Writers
    <3>3. {p \in Req : req'[p].table = req'[q].table /\ req'[p].at \in Writes \ {"store"}} = {q}
      <4>1. Writers(req[q].table) = {q}
        BY <3>2 DEF Alone
      <4> QED BY <1>5, <3>1, <4>1 DEF Writers, AlikeAt
    <3>4. /\ actor'[req'[q].table].status = actor[req[q].table].status
          /\ actor'[req'[q].table].seats = actor[req[q].table].seats
          /\ HostAccount(actor'[req'[q].table]) = HostAccount(actor[req[q].table])
      BY <1>4, <3>1, <3>2 DEF AlikeAt, HostAccount
    <3> QED BY <1>1, <3>1, <3>2, <3>3, <3>4 DEF Alone, Writers, AlikeAt
  <2>3. ASSUME NEW u \in live' \ muddled'
        PROVE  /\ Writers(u)' = {} => /\ u \in recorded'
                                      /\ SeatsMirrored(u)' /\ row'[u].status = actor'[u].status
               /\ \A q \in Writers(u)' : /\ req'[q].lone
                                         /\ req'[q].kind \in {"close", "force"} => SeatsMirrored(u)'
    <3>1. u # t /\ u \in live \ muddled /\ u \in Table
      BY <1>1, <1>2, <2>3
    <3>2. \A q \in Writers(u) : q \notin Writers(t) /\ q \in Req
      BY <3>1 DEF Writers
    <3>3. \A q \in Writers(u) : AlikeAt(q) /\ (req[q].lone => req'[q].lone)
      BY <1>5, <3>2
    <3> QED BY <1>1, <1>2, <1>4, <1>6, <2>1, <3>1, <3>3 DEF Mirrored, AlikeAt
  <2>4. \A u \in recorded' \ (live' \cup muddled') :
          row'[u].host = NoAccount \/ Holds(row'[u].seats, row'[u].host)
    BY <1>1, <1>2 DEF Mirrored
  <2> QED BY <2>2, <2>3, <2>4 DEF Mirrored
<1>13. RowsApart'
  BY <1>1, <1>2 DEF RowsApart
<1>14. Owned'
  <2>1. \A a, u : Keeps(a, u) => Keeps(a, u)'
    BY <1>1, <1>2, <1>4, <1>5 DEF Keeps, AlikeAt
  <2>2. \A q \in Req : Creates(q)' => Creates(q) /\ AlikeAt(q)
    BY <1>5 DEF Creates, AlikeAt
  <2>3. \A q \in Req : AlikeAt(q) => (Keeps(req[q].who, req[q].table) => Keeps(req[q].who, req[q].table)')
    BY <2>1 DEF AlikeAt, Keeps
  <2> QED BY <1>1, <1>2, <2>1, <2>2, <2>3 DEF Owned, AlikeAt
<1> QED BY <1>7, <1>8, <1>9, <1>11, <1>12, <1>13, <1>14 DEF TablesInv

\* A restart brings a table back as its rows tell it.
LEMMA RestartKeeps ==
    ASSUME TablesInv, Restart
    PROVE  TablesInv'
<1>1. /\ live' \subseteq {t \in recorded : row[t].status # "closed"}
      /\ req' = [r \in Req |-> Idle]
      /\ muddled' = muddled \cup {t \in Table : Writers(t) # {}}
      /\ hostless' = {t \in live' : Restored(t).host = NoSeat}
      /\ UNCHANGED <<made, recorded, row, cache, answers, departed>>
  BY DEF Restart, database
<1>2. PICK resumed \in SUBSET {t \in live \cap live' : actor[t].playing} :
         actor' = [t \in Table |-> IF t \notin live' THEN NoActor
                                   ELSE [Restored(t) EXCEPT !.playing = t \in resumed]]
  BY DEF Restart
<1>3. /\ Typed /\ Known /\ HostSeated /\ StatusTrue /\ Mirrored /\ RowsApart /\ Owned
      /\ recorded \subseteq Table /\ row \in [Table -> RowState] /\ live' \subseteq Table
  BY <1>1, TablesAre DEF TablesInv, Typed
<1>4. ASSUME NEW t \in live'
      PROVE  /\ actor'[t] \in ActorState
             /\ actor'[t].seats = row[t].seats /\ actor'[t].status = row[t].status
             /\ actor'[t].host = Restored(t).host
             /\ Restored(t).host # NoSeat => /\ Restored(t).host \in Seat
                                             /\ row[t].seats[Restored(t).host] = row[t].host
                                             /\ row[t].host # NoAccount
             /\ Restored(t).host = NoSeat =>
                   row[t].host = NoAccount \/ ~Holds(row[t].seats, row[t].host)
  <2> DEFINE host == Restored(t).host
             playing == t \in resumed
             x == [seats |-> row[t].seats, status |-> row[t].status, host |-> host,
                   playing |-> playing]
  <2>1. t \in Table /\ row[t] \in RowState
    BY <1>3
  <2>2. host = IF row[t].host # NoAccount /\ Holds(row[t].seats, row[t].host)
               THEN CHOOSE s \in Seat : row[t].seats[s] = row[t].host ELSE NoSeat
    BY DEF Restored
  <2>3. actor'[t] = x
    <3>1. actor'[t] = [Restored(t) EXCEPT !.playing = playing]
      BY <1>2, <2>1
    <3>2. Restored(t) = [seats |-> row[t].seats, status |-> row[t].status, host |-> host,
                         playing |-> FALSE]
      BY DEF Restored
    <3> HIDE DEF host, playing
    <3>3. [Restored(t) EXCEPT !.playing = playing] = x
      BY <3>2
    <3> QED BY <3>1, <3>3
  <2> HIDE DEF host
  <2>4. \/ /\ host \in Seat /\ row[t].seats[host] = row[t].host /\ row[t].host # NoAccount
        \/ host = NoSeat /\ (row[t].host = NoAccount \/ ~Holds(row[t].seats, row[t].host))
    BY <2>2 DEF Holds
  <2>5. playing \in BOOLEAN
    OBVIOUS
  <2> HIDE DEF playing
  <2>6. x \in ActorState
    BY <2>1, <2>4, <2>5, RowStateFields DEF ActorState
  <2>7. x.seats = row[t].seats /\ x.status = row[t].status /\ x.host = host
    OBVIOUS
  <2>8. NoSeat \notin Seat
    BY DEF NoSeat, Seat
  <2> HIDE DEF x
  <2> QED BY <2>3, <2>4, <2>6, <2>7, <2>8 DEF host
<1>5. ASSUME NEW t \in Table \ live' PROVE actor'[t] \in ActorState
  BY <1>2, NothingYet
<1>6. \A r \in Req : req'[r] = Idle /\ req'[r].at \notin Writes /\ Placed(r)'
  BY <1>1, IdlePlaced DEF Writes
<1>7. Typed'
  <2>1. actor' \in [Table -> ActorState]
    BY <1>2, <1>4, <1>5
  <2>2. req' \in [Req -> Request]
    BY <1>1, IdleIs
  <2>3. live' \subseteq 1 .. made' /\ muddled' \subseteq Table /\ hostless' \subseteq live'
    BY <1>1, <1>3 DEF Typed
  <2> QED BY <1>1, <1>3, <2>1, <2>2, <2>3 DEF Typed
<1>8. Known'
  BY <1>1, <1>3, <1>6 DEF Known
<1>9. HostSeated'
  BY <1>1, <1>4 DEF HostSeated, Taken
<1>10. StatusTrue'
  <2>1. \A r \in Req : req'[r].at # "status"
    BY <1>6 DEF Writes
  <2> QED BY <1>1, <1>4, <2>1 DEF StatusTrue
<1>11. \A t : Writers(t)' = {}
  BY <1>6 DEF Writers
<1>12. ASSUME NEW t \in recorded, t \notin muddled'
       PROVE  row[t].host = NoAccount \/ Holds(row[t].seats, row[t].host)
  <2>1. t \in Table /\ t \notin muddled /\ Writers(t) = {}
    BY <1>1, <1>3, <1>12
  <2>2. CASE t \in live
    <3>1. row[t].seats = actor[t].seats /\ row[t].host = HostAccount(actor[t])
      BY <1>3, <2>1, <2>2 DEF Mirrored, SeatsMirrored
    <3>2. actor[t].host # NoSeat => actor[t].host \in Taken(actor[t].seats)
      BY <1>3, <2>2 DEF HostSeated
    <3> QED BY <3>1, <3>2 DEF HostAccount, Taken, Holds
  <2>3. CASE t \notin live
    BY <1>3, <2>1, <2>3 DEF Mirrored
  <2> QED BY <2>2, <2>3
<1>13. Mirrored'
  <2>1. \A r \in Req : ~(req'[r].at \in Writes \ {"store"})
    BY <1>6
  <2>2. ASSUME NEW t \in live' \ muddled'
        PROVE  t \in recorded' /\ SeatsMirrored(t)' /\ row'[t].status = actor'[t].status
    <3>1. t \in recorded
      BY <1>1
    <3>2. row[t].host = NoAccount \/ Holds(row[t].seats, row[t].host)
      BY <1>12, <3>1
    <3>3. row[t].host = HostAccount(actor'[t])
      BY <1>4, <3>2 DEF HostAccount
    <3> QED BY <1>1, <1>4, <3>1, <3>3 DEF SeatsMirrored
  <2>3. \A t \in recorded' \ (live' \cup muddled') :
          row'[t].host = NoAccount \/ Holds(row'[t].seats, row'[t].host)
    BY <1>1, <1>12
  <2> QED BY <1>11, <2>1, <2>2, <2>3 DEF Mirrored
<1>14. RowsApart'
  BY <1>1, <1>3 DEF RowsApart
<1>15. Owned'
  <2>1. \A r \in Req : ~Creates(r)' /\ req'[r].at # "seats"
    BY <1>6 DEF Creates, Writes
  <2>2. ASSUME NEW x \in answers', x.who \notin departed'
        PROVE  Keeps(x.who, x.table)' /\ Holds(row'[x.table].seats, x.who)
    <3>1. Holds(row[x.table].seats, x.who)
      BY <1>1, <1>3, <2>2 DEF Owned
    <3>2. x.table \in live' => Holds(actor'[x.table].seats, x.who)
      BY <1>4, <3>1
    <3> QED BY <1>1, <2>1, <3>1, <3>2 DEF Keeps
  <2> QED BY <2>1, <2>2 DEF Owned
<1> QED BY <1>7, <1>8, <1>9, <1>10, <1>13, <1>14, <1>15 DEF TablesInv

-----------------------------------------------------------------------------
(* The theorems. *)

\* The invariant holds of no table.
LEMMA InitTables == Init => TablesInv
<1> SUFFICES ASSUME Init PROVE TablesInv
  OBVIOUS
<1>1. /\ live = {} /\ actor = [t \in Table |-> NoActor] /\ recorded = {}
      /\ row = [t \in Table |-> NoRow] /\ cache = {} /\ req = [r \in Req |-> Idle] /\ made = 0
      /\ muddled = {} /\ answers = {} /\ departed = {} /\ hostless = {}
  BY DEF Init
<1>2. \A r \in Req : /\ req[r] = Idle /\ req[r].at = "done" /\ req[r].kind = "none"
                     /\ req[r].key = NoKey /\ req[r].table = NoTable
  BY <1>1, IdleIs
<1>3. Typed
  <2>1. 0 \in 0 .. MaxTables
    BY SizesAssumption
  <2> QED BY <1>1, <2>1, NothingYet, IdleIs DEF Typed
<1>4. Known
  <2>1. \A r \in Req : Placed(r)
    BY <1>2 DEF Placed, KindsAt, Seaters, Writes
  <2> QED BY <1>1, <2>1 DEF Known
<1>5. \A r \in Req : req[r].at \notin Writes
  BY <1>2 DEF Writes
<1>6. HostSeated /\ Mirrored
  BY <1>1, <1>5 DEF HostSeated, Mirrored
<1>7. StatusTrue /\ Owned
  BY <1>1, <1>2, <1>5 DEF StatusTrue, Owned, Creates
<1>8. RowsApart
  BY <1>1, NothingYet DEF RowsApart, NoRow
<1> QED BY <1>3, <1>4, <1>6, <1>7, <1>8 DEF TablesInv

\* Every step keeps it.
LEMMA NextTables == TablesInv /\ [Next]_vars => TablesInv'
<1> SUFFICES ASSUME TablesInv, [Next]_vars PROVE TablesInv'
  OBVIOUS
<1>1. Typed /\ Known /\ HostSeated
  BY DEF TablesInv
<1>2. ASSUME NEW r \in Req, Typed', Known', Quiet(r) PROVE TablesInv'
  BY <1>2, QuietKeeps DEF TablesInv
<1>3. ASSUME NEW r \in Req, Typed', Known',
             NEW t \in Table, NEW x \in ActorState, Begun(r, t, x), Proper(r, t, x)
      PROVE  TablesInv'
  BY <1>3, BegunKeeps DEF TablesInv
<1>4. ASSUME NEW r \in Req, Typed', Known',
             NEW t \in Table, NEW y \in RowState, Wrote(r, t, y), Fitting(r, t, y)
      PROVE  TablesInv'
  BY <1>4, WroteKeeps DEF TablesInv
<1>5. ASSUME NEW r \in Req, Serve(r) PROVE TablesInv'
  <2>1. CASE FindKey(r) \/ RefuseSeated(r) \/ FindSeatJoin(r) \/ Store(r)
    BY <1>1, <1>2, <2>1, ServesQuiet
  <2>2. CASE FindSeatCreate(r)
    BY <1>1, <1>3, <2>2, CreateBegins
  <2>3. CASE FindCode(r)
    <3>1. CASE UNCHANGED <<actor, muddled, hostless>> /\ Finish(r)
      BY <1>1, <1>2, <2>3, <3>1, ServesQuiet
    <3>2. CASE ~(UNCHANGED <<actor, muddled, hostless>> /\ Finish(r))
      BY <1>1, <1>3, <2>3, <3>2, JoinBegins
    <3> QED BY <3>1, <3>2
  <2>4. CASE FindTable(r)
    <3>1. CASE UNCHANGED <<actor, muddled>> /\ Finish(r)
      BY <1>1, <1>2, <2>4, <3>1, ServesQuiet
    <3>2. CASE ~(UNCHANGED <<actor, muddled>> /\ Finish(r))
      BY <1>1, <1>3, <2>4, <3>2, CloseBegins
    <3> QED BY <3>1, <3>2
  <2>5. CASE Insert(r)
    BY <1>4, <2>5, InsertWrites
  <2>6. CASE SetStatus(r)
    BY <1>4, <2>6, SetStatusWrites
  <2>7. CASE SyncSeats(r)
    BY <1>4, <2>7, SyncSeatsWrites
  <2>8. CASE SetHost(r)
    BY <1>4, <2>8, SetHostWrites
  <2>9. CASE Fail(r)
    <3>1. CASE req[r].at = "store"
      BY <1>1, <1>2, <2>9, <3>1, ServesQuiet
    <3>2. CASE req[r].at # "store"
      BY <1>4, <2>9, <3>2, FailWrites
    <3> QED BY <3>1, <3>2
  <2> QED BY <1>5, <2>1, <2>2, <2>3, <2>4, <2>5, <2>6, <2>7, <2>8, <2>9 DEF Serve
<1>6. ASSUME NEW r \in Req, NEW a \in Account, NEW t \in Table, StartLeave(r, a, t)
      PROVE  TablesInv'
  BY <1>1, <1>3, <1>6, LeaveBegins
<1>7. ASSUME NEW r \in Req,
             \/ \E a \in Account, k \in Key \cup {NoKey} : StartCreate(r, a, k)
             \/ \E a \in Account, t \in Table : StartJoin(r, a, t) \/ StartClose(r, a, t)
             \/ \E t \in Table : StartForce(r, t)
      PROVE  TablesInv'
  BY <1>1, <1>2, <1>7, StartsQuiet
<1>8. ASSUME NEW t \in Table, Deal(t) \/ Conclude(t) \/ SocketClose(t) PROVE TablesInv'
  BY <1>8, PlayKeeps, SocketCloseKeeps
<1>9. CASE Restart
  BY <1>9, RestartKeeps
<1>10. CASE UNCHANGED vars
  <2>1. UNCHANGED <<live, actor, req, made, recorded, row, cache, muddled, answers, departed,
                    hostless>>
    BY <1>10 DEF vars, memory, database, history
  <2>2. Typed' /\ Known'
    BY <1>1, <2>1 DEF Typed, Known, Placed
  <2>3. HostSeated' /\ StatusTrue' /\ RowsApart'
    BY <2>1 DEF TablesInv, HostSeated, StatusTrue, RowsApart
  <2>4. Mirrored'
    <3>1. \A t : Writers(t)' = Writers(t)
      BY <2>1 DEF Writers
    <3> QED BY <2>1, <3>1 DEF TablesInv, Mirrored, Alone, SeatsMirrored
  <2>5. Owned'
    BY <2>1 DEF TablesInv, Owned, Creates, Keeps
  <2> QED BY <2>2, <2>3, <2>4, <2>5 DEF TablesInv
<1>11. CASE Next
  <2>1. CASE \E r \in Req :
                \/ Serve(r)
                \/ \E a \in Account, k \in Key \cup {NoKey} : StartCreate(r, a, k)
                \/ \E a \in Account, t \in Table :
                      StartJoin(r, a, t) \/ StartLeave(r, a, t) \/ StartClose(r, a, t)
                \/ \E t \in Table : StartForce(r, t)
    BY <1>5, <1>6, <1>7, <2>1
  <2>2. CASE \E t \in Table : Deal(t) \/ Conclude(t) \/ SocketClose(t)
    BY <1>8, <2>2
  <2> QED BY <1>9, <1>11, <2>1, <2>2 DEF Next
<1> QED BY <1>10, <1>11

\* The inductive invariant.
THEOREM TablesInvariant == Spec => []TablesInv
<1>1. Init => TablesInv
  BY InitTables
<1>2. TablesInv /\ [Next]_vars => TablesInv'
  BY NextTables
<1> QED BY <1>1, <1>2, PTL DEF Spec

\* Every variable has its type, live and recorded tables are among those made,
\* and a request that writes is about a table that has rows.
THEOREM TypeCorrect == Spec => []TablesTypeOK
<1>1. TablesInv => TablesTypeOK
  <2> SUFFICES ASSUME TablesInv PROVE TablesTypeOK
    OBVIOUS
  <2>1. Typed /\ Known
    BY DEF TablesInv
  <2>2. ASSUME NEW r \in Req
        PROVE  /\ req[r].kind \in Kinds /\ req[r].at \in Places
               /\ req[r].at \in Writes \ {"insert"} => req[r].table \in recorded
    <3>1. req[r] \in Request /\ Placed(r)
      BY <2>1 DEF Typed, Known
    <3> QED BY <3>1, RequestFields DEF Placed, Writes
  <2> QED BY <2>1, <2>2 DEF Typed, TablesTypeOK, ActorState, RowState
<1> QED BY <1>1, TablesInvariant, PTL

\* At rest the rows of a table tell what its actor holds, whatever came before.
THEOREM RowsMirror == Spec => []RestMirrors
<1>1. TablesInv => RestMirrors
  <2> SUFFICES ASSUME TablesInv, NEW t \in live \ muddled, Writers(t) = {}
               PROVE  /\ t \in recorded
                      /\ row[t].seats = actor[t].seats /\ row[t].status = actor[t].status
                      /\ row[t].host = HostAccount(actor[t])
                      /\ actor[t].status # "closed" /\ t \notin hostless
                            => actor[t].host \in Taken(actor[t].seats)
    BY DEF RestMirrors
  <2>1. t \in recorded /\ SeatsMirrored(t) /\ row[t].status = actor[t].status
    BY DEF TablesInv, Mirrored
  <2>2. actor[t].status # "closed" /\ t \notin hostless => actor[t].host \in Taken(actor[t].seats)
    BY DEF TablesInv, HostSeated
  <2> QED BY <2>1, <2>2 DEF SeatsMirrored
<1> QED BY <1>1, TablesInvariant, PTL

\* The row of a table that people are still playing at never says "closed".
THEOREM NoTableDropped == Spec => []ClosedRowsAreClosed
<1>1. TablesInv => ClosedRowsAreClosed
  BY DEF TablesInv, StatusTrue, ClosedRowsAreClosed
<1> QED BY <1>1, TablesInvariant, PTL

\* A key names one table, however often and however closely it is used.
THEOREM KeyNamesOneTable == Spec => []OneTablePerKey
<1>1. TablesInv => OneTablePerKey
  <2> SUFFICES ASSUME TablesInv, NEW x \in answers, NEW y \in answers,
                      x.who = y.who, x.who \notin departed
               PROVE  x.table = y.table
    BY DEF OneTablePerKey
  <2>1. Holds(row[x.table].seats, x.who) /\ Holds(row[y.table].seats, x.who)
    BY DEF TablesInv, Owned
  <2>2. x.who \in Account /\ x.table \in Table /\ y.table \in Table
    BY DEF TablesInv, Typed, Creation
  <2> QED BY <2>1, <2>2 DEF TablesInv, RowsApart
<1> QED BY <1>1, TablesInvariant, PTL
=============================================================================
