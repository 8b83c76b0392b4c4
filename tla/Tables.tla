------------------------------- MODULE Tables -------------------------------
(***************************************************************************)
(* Tables as the REST surface keeps them: server/src/tables/service.ts and *)
(* http.ts over the live actors of manager.ts and over the rows of         *)
(* postgres-repository.ts, with admin/service.ts forceCloseTable and the   *)
(* restore of restore.ts.                                                  *)
(*                                                                         *)
(* The actor is changed at once and its rows after it, in several awaited  *)
(* statements, so a request is a process: between two of its statements    *)
(* any other request, a socket command or a restart may come.  A step is   *)
(* one statement and the handler's code up to its next one.  A statement   *)
(* that writes was given its arguments when the handler reached it.        *)
(***************************************************************************)
EXTENDS Integers, FiniteSets

CONSTANTS
    Account, NoAccount,
    Key, NoKey,     \* Idempotency-Key headers
    Req,            \* requests that can be in flight together
    NumSeats,       \* SEAT_ORDER.length
    MaxTables,      \* bound: tables created
    MaxRequests,    \* bound: requests served
    MaxFaults,      \* bound: statements that fail
    MaxRestarts     \* bound: restarts of the process

ASSUME SizesAssumption ==
    /\ NumSeats \in Nat /\ NumSeats >= 2
    /\ {MaxTables, MaxRequests, MaxFaults, MaxRestarts} \subseteq Nat
ASSUME NamesAssumption == NoAccount \notin Account /\ NoKey \notin Key

Seat == 1 .. NumSeats
NoSeat == 0
Table == 1 .. MaxTables
NoTable == 0
Seating == [Seat -> Account \cup {NoAccount}]
Status == {"open", "seated", "closed"}

VARIABLES
    live,       \* tables that the manager holds
    actor,      \* table -> the actor's [seats, host, status, playing]
    recorded,   \* tables that have rows
    row,        \* table -> its rows: [seats, host (an account), status]
    cache,      \* idempotency_keys: [who, key, table]
    req,        \* request -> [kind, who, key, table, at, seats, host, status, lone]
    made,       \* tables created so far
    served, faults, restarts,   \* counters of the bounds
    muddled,    \* history: tables whose rows nothing promises to mirror the actor
    answers,    \* history: creations answered with 201: [who, key, table]; the answer
                \* carries the table's id and its join code
    departed,   \* history: accounts that gave up a seat
    hostless    \* history: tables restored without their host, until somebody sits down

memory == <<live, actor, req, made>>
database == <<recorded, row, cache>>
counters == <<served, faults, restarts>>
history == <<muddled, answers, departed, hostless>>
vars == <<memory, database, counters, history>>

-----------------------------------------------------------------------------
(* The table entity, as the handlers read and change it. *)

NoSeats == [s \in Seat |-> NoAccount]
NoActor == [seats |-> NoSeats, host |-> NoSeat, status |-> "open", playing |-> FALSE]
NoRow == [seats |-> NoSeats, host |-> NoAccount, status |-> "open"]

Taken(seats) == {s \in Seat : seats[s] # NoAccount}
Holds(seats, a) == \E s \in Seat : seats[s] = a
HostAccount(x) == IF x.host = NoSeat THEN NoAccount ELSE x.seats[x.host]

CanOccupy(x, a) == x.status # "closed" /\ ~Holds(x.seats, a) /\ Taken(x.seats) # Seat

\* occupySeat: the lowest free seat; the first to sit is the host.
Occupied(x, a) ==
    LET free == Seat \ Taken(x.seats)
        s == CHOOSE f \in free : \A g \in free : f <= g
    IN  [x EXCEPT !.seats[s] = a,
                  !.host = IF x.host = NoSeat THEN s ELSE x.host,
                  !.status = IF free = {s} THEN "seated" ELSE "open"]

\* Mutant: the next seat, taken or not, and never back to the first.
NextHostUnwrapped(from, taken) == IF taken = {} THEN NoSeat ELSE from + 1

\* nextOccupiedHost.
NextHost(from, taken) ==
    LET steps(s) == (s - from + NumSeats) % NumSeats
    IN  IF taken = {} THEN NoSeat
        ELSE CHOOSE s \in taken : \A r \in taken : steps(s) <= steps(r)

CanVacate(x, a) == x.status # "closed" /\ Holds(x.seats, a) /\ ~x.playing

\* vacateSeat: the last seat vacated closes the table and drops the game.
Vacated(x, a) ==
    LET s == CHOOSE f \in Seat : x.seats[f] = a
        left == Taken(x.seats) \ {s}
    IN  [x EXCEPT !.seats[s] = NoAccount,
                  !.host = IF x.host = s THEN NextHost(s, left) ELSE x.host,
                  !.status = IF left = {} THEN "closed" ELSE "open"]

Closed(x) == [x EXCEPT !.status = "closed"]
ForceClosed(x) == [x EXCEPT !.status = "closed", !.playing = FALSE]

-----------------------------------------------------------------------------
(* Requests. *)

Idle == [kind |-> "none", who |-> NoAccount, key |-> NoKey, table |-> NoTable, at |-> "done",
         seats |-> NoSeats, host |-> NoAccount, status |-> "open", lone |-> FALSE]

Kinds == {"none", "create", "join", "leave", "close", "force"}
Writes == {"insert", "status", "seats", "host", "store"}
Places == {"done", "find_key", "find_seat", "find_code", "find_table"} \cup Writes

\* Requests that have changed the actor of t and are still writing its rows.
Writers(t) == {r \in Req : req[r].table = t /\ req[r].at \in Writes \ {"store"}}

\* Whom the id of t has reached: it comes with the answer to its creation, and
\* in tables/mine to an account seated in its rows.
Told(t) == \E x \in answers : x.table = t
Knows(a, t) == Told(t) \/ Holds(row[t].seats, a)

Accept(r, kind, who, key, t, at) ==
    /\ req[r] = Idle /\ served < MaxRequests
    /\ served' = served + 1
    /\ req' = [req EXCEPT ![r] = [Idle EXCEPT !.kind = kind, !.who = who, !.key = key,
                                              !.table = t, !.at = at]]

Finish(r) == req' = [req EXCEPT ![r] = Idle]

\* Request r has just changed the actor of t to x, and awaits the write "at".
\* With other writers about, nobody's picture of the table is the last one.
Changed(r, t, x, at) ==
    /\ actor' = [actor EXCEPT ![t] = x]
    /\ req' = [q \in Req |->
                  IF q = r THEN [req[r] EXCEPT !.table = t, !.at = at, !.status = x.status,
                                               !.lone = Writers(t) = {}]
                  ELSE IF q \in Writers(t) THEN [req[q] EXCEPT !.lone = FALSE]
                  ELSE req[q]]
    /\ muddled' = IF Writers(t) = {} THEN muddled ELSE muddled \cup {t}

StartCreate(r, a, k) ==
    /\ Accept(r, "create", a, k, NoTable, IF k = NoKey THEN "find_seat" ELSE "find_key")
    /\ UNCHANGED <<live, actor, made, database, faults, restarts, history>>

\* Somebody who was given the code of t joins.
StartJoin(r, a, t) ==
    /\ Told(t)
    /\ Accept(r, "join", a, NoKey, t, "find_seat")
    /\ UNCHANGED <<live, actor, made, database, faults, restarts, history>>

\* DELETE /tables/{id}.
StartClose(r, a, t) ==
    /\ Knows(a, t) /\ Accept(r, "close", a, NoKey, t, "find_table")
    /\ UNCHANGED <<live, actor, made, database, faults, restarts, history>>

\* An administrator's force-close of a table in the list of tables.
StartForce(r, t) ==
    /\ t \in recorded /\ Accept(r, "force", NoAccount, NoKey, t, "find_table")
    /\ UNCHANGED <<live, actor, made, database, faults, restarts, history>>

\* A cached response short-circuits the creation.
FindKey(r) ==
    /\ req[r].at = "find_key"
    /\ LET hit == {c \in cache : c.who = req[r].who /\ c.key = req[r].key}
       IN  IF hit # {} THEN Finish(r) /\ answers' = answers \cup hit
           ELSE req' = [req EXCEPT ![r].at = "find_seat"] /\ UNCHANGED answers
    /\ UNCHANGED <<live, actor, made, database, counters, muddled, departed, hostless>>

\* findSeatForAccountAnywhere: in the rows of any table, closed ones included.
SeatedInRows(a) == \E t \in recorded : Holds(row[t].seats, a)

RefuseSeated(r) ==
    /\ req[r].at = "find_seat" /\ SeatedInRows(req[r].who)
    /\ Finish(r)
    /\ UNCHANGED <<live, actor, made, database, counters, history>>

FindSeatCreate(r) ==
    /\ req[r].at = "find_seat" /\ req[r].kind = "create" /\ ~SeatedInRows(req[r].who)
    /\ made < MaxTables /\ made' = made + 1
    /\ live' = live \cup {made'}
    /\ Changed(r, made', Occupied(NoActor, req[r].who), "insert")
    /\ UNCHANGED <<database, counters, answers, departed, hostless>>

FindSeatJoin(r) ==
    /\ req[r].at = "find_seat" /\ req[r].kind = "join" /\ ~SeatedInRows(req[r].who)
    /\ req' = [req EXCEPT ![r].at = "find_code"]
    /\ UNCHANGED <<live, actor, made, database, counters, history>>

\* findLiveByJoinCodeHash, then the seat; a full table is answered like none.
FindCode(r) ==
    LET t == req[r].table
    IN  /\ req[r].at = "find_code"
        /\ IF t \in recorded \cap live /\ row[t].status # "closed" /\ CanOccupy(actor[t], req[r].who)
           THEN /\ Changed(r, t, Occupied(actor[t], req[r].who), "status")
                /\ hostless' = hostless \ {t}
           ELSE Finish(r) /\ UNCHANGED <<actor, muddled, hostless>>
        /\ UNCHANGED <<live, made, database, counters, answers, departed>>

\* Leaving reads no row: the seat is vacated as the request arrives.
StartLeave(r, a, t) ==
    /\ t \in live /\ CanVacate(actor[t], a) /\ Knows(a, t)
    /\ req[r] = Idle /\ served < MaxRequests /\ served' = served + 1
    /\ LET x == Vacated(actor[t], a)
       IN  /\ actor' = [actor EXCEPT ![t] = x]
           /\ req' = [q \in Req |->
                         IF q = r THEN [Idle EXCEPT !.kind = "leave", !.who = a, !.table = t,
                                                    !.at = "status", !.status = x.status,
                                                    !.lone = Writers(t) = {}]
                         ELSE IF q \in Writers(t) THEN [req[q] EXCEPT !.lone = FALSE]
                         ELSE req[q]]
    /\ muddled' = IF Writers(t) = {} THEN muddled ELSE muddled \cup {t}
    /\ departed' = departed \cup {a}
    /\ UNCHANGED <<live, made, database, faults, restarts, answers, hostless>>

\* Mutant: does not ask whether the actor refuses.
MayCloseUnasked(r, t) ==
    t \in recorded /\ (req[r].kind = "force" \/ (t \in live /\ row[t].host = req[r].who))

\* The host by the row closes the table in the name of the actor's host, unless
\* a game is on; an administrator closes it whatever is played, and its row even
\* if no actor is there.
MayClose(r, t) ==
    /\ t \in recorded
    /\ \/ req[r].kind = "force"
       \/ /\ t \in live /\ row[t].host = req[r].who
          /\ actor[t].host # NoSeat /\ ~actor[t].playing

AfterClose(kind, x) ==
    IF kind = "force" THEN ForceClosed(x) ELSE IF x.playing THEN x ELSE Closed(x)

FindTable(r) ==
    LET t == req[r].table
    IN  /\ req[r].at = "find_table"
        /\ IF MayClose(r, t)
           THEN Changed(r, t, AfterClose(req[r].kind, actor[t]), "status")
           ELSE Finish(r) /\ UNCHANGED <<actor, muddled>>
        /\ UNCHANGED <<live, made, database, counters, answers, departed, hostless>>

-----------------------------------------------------------------------------
(* The statements that write. *)

\* The handler takes its picture of the actor for syncSeats and setHost.
Pictured(r) ==
    req' = [req EXCEPT ![r].at = "seats", ![r].seats = actor[req[r].table].seats,
                       ![r].host = HostAccount(actor[req[r].table])]

\* INSERT INTO tables and its four empty table_seats, in one transaction.
Insert(r) ==
    LET t == req[r].table
    IN  /\ req[r].at = "insert"
        /\ recorded' = recorded \cup {t}
        /\ row' = [row EXCEPT ![t] = [NoRow EXCEPT !.host = req[r].who]]
        /\ Pictured(r)
        /\ UNCHANGED <<live, actor, made, cache, counters, history>>

SetStatus(r) ==
    LET t == req[r].table
    IN  /\ req[r].at = "status"
        /\ IF req[r].kind \in {"close", "force"}
           THEN row' = [row EXCEPT ![t].status = "closed"] /\ Finish(r)
           ELSE row' = [row EXCEPT ![t].status = req[r].status] /\ Pictured(r)
        /\ UNCHANGED <<live, actor, made, recorded, cache, counters, history>>

\* Mutant: the index table_seats_one_per_account_key is per table.
ClashesAtTable(t, seats) ==
    \E s \in Taken(seats) : \E f \in Seat : f > s /\ row[t].seats[f] = seats[s]

\* The unique index on account_id refuses an account that another row still
\* holds: at another table, or at a seat whose UPDATE is yet to come.
Clashes(t, seats) ==
    \E s \in Taken(seats) :
        \/ \E u \in recorded \ {t} : Holds(row[u].seats, seats[s])
        \/ \E f \in Seat : f > s /\ row[t].seats[f] = seats[s]

SyncSeats(r) ==
    LET t == req[r].table
    IN  /\ req[r].at = "seats" /\ ~Clashes(t, req[r].seats)
        /\ row' = [row EXCEPT ![t].seats = req[r].seats]
        /\ req' = [req EXCEPT ![r].at = "host", ![r].seats = NoSeats]
        /\ UNCHANGED <<live, actor, made, recorded, cache, counters, history>>

\* The statement is refused, or fails: the handler throws (500), the actor keeps
\* its change and nothing retries the rows.
Fail(r) ==
    /\ req[r].at \in Writes
    /\ \/ req[r].at = "seats" /\ Clashes(req[r].table, req[r].seats) /\ UNCHANGED faults
       \/ faults < MaxFaults /\ faults' = faults + 1
    /\ muddled' = IF req[r].at = "store" THEN muddled ELSE muddled \cup {req[r].table}
    /\ Finish(r)
    /\ UNCHANGED <<live, actor, made, database, served, restarts, answers, departed, hostless>>

Answer(r) == [who |-> req[r].who, key |-> req[r].key, table |-> req[r].table]

\* Mutant: the host is mirrored only when there is none.
SetHostOnce(r) ==
    LET t == req[r].table
    IN  /\ req[r].at = "host"
        /\ row' = IF row[t].host = NoAccount THEN [row EXCEPT ![t].host = req[r].host] ELSE row
        /\ muddled' = IF req[r].lone THEN muddled \ {t} ELSE muddled
        /\ IF req[r].key = NoKey THEN Finish(r) ELSE req' = [req EXCEPT ![r].at = "store"]
        /\ answers' = IF req[r].kind = "create" /\ req[r].key = NoKey
                      THEN answers \cup {Answer(r)} ELSE answers
        /\ UNCHANGED <<live, actor, made, recorded, cache, counters, departed, hostless>>

\* The last statement of syncSeatsFromActor.  A picture that was the last one
\* from its first change on leaves the rows as the actor is.
SetHost(r) ==
    LET t == req[r].table
    IN  /\ req[r].at = "host"
        /\ row' = [row EXCEPT ![t].host = req[r].host]
        /\ muddled' = IF req[r].lone THEN muddled \ {t} ELSE muddled
        /\ IF req[r].key = NoKey THEN Finish(r) ELSE req' = [req EXCEPT ![r].at = "store"]
        /\ answers' = IF req[r].kind = "create" /\ req[r].key = NoKey
                      THEN answers \cup {Answer(r)} ELSE answers
        /\ UNCHANGED <<live, actor, made, recorded, cache, counters, departed, hostless>>

\* INSERT ... ON CONFLICT DO NOTHING, and the answer is this request's own.
Store(r) ==
    /\ req[r].at = "store"
    /\ cache' = IF \E c \in cache : c.who = req[r].who /\ c.key = req[r].key
                THEN cache ELSE cache \cup {Answer(r)}
    /\ answers' = answers \cup {Answer(r)}
    /\ Finish(r)
    /\ UNCHANGED <<live, actor, made, recorded, row, counters, muddled, departed, hostless>>

-----------------------------------------------------------------------------
(* What else happens to a table. *)

\* start_deal by the host of a full table, and the end of the game.
Deal(t) ==
    /\ t \in live /\ actor[t].status = "seated" /\ actor[t].host # NoSeat /\ ~actor[t].playing
    /\ actor' = [actor EXCEPT ![t].playing = TRUE]
    /\ UNCHANGED <<live, req, made, database, counters, history>>

Conclude(t) ==
    /\ t \in live /\ actor[t].playing
    /\ actor' = [actor EXCEPT ![t].playing = FALSE]
    /\ UNCHANGED <<live, req, made, database, counters, history>>

\* close_table over the socket changes the actor and no row.
SocketClose(t) ==
    /\ t \in live /\ actor[t].host # NoSeat /\ ~actor[t].playing /\ actor[t].status # "closed"
    /\ actor' = [actor EXCEPT ![t] = Closed(actor[t])]
    /\ req' = [q \in Req |-> IF q \in Writers(t) THEN [req[q] EXCEPT !.lone = FALSE] ELSE req[q]]
    /\ muddled' = muddled \cup {t}
    /\ UNCHANGED <<live, made, database, counters, answers, departed, hostless>>

\* buildTableFromRepository: the host is the seat of the row's host account.  If
\* that account has left, there is none: nobody starts a deal or closes the
\* table, and leaving hands no host on, until an account joins and is the host.
Restored(t) ==
    [seats |-> row[t].seats, status |-> row[t].status,
     host |-> IF row[t].host # NoAccount /\ Holds(row[t].seats, row[t].host)
              THEN CHOOSE s \in Seat : row[t].seats[s] = row[t].host ELSE NoSeat,
     playing |-> FALSE]

\* The process ends, with the requests it was serving, and restoreLiveTables
\* reads the tables that are not closed, skipping those it fails to restore.
\* Whether a game comes back depends on its checkpoint (Durability).
Restart ==
    /\ restarts < MaxRestarts /\ restarts' = restarts + 1
    /\ \E skipped \in SUBSET recorded :
          live' = {t \in recorded : row[t].status # "closed"} \ skipped
    /\ \E resumed \in SUBSET {t \in live \cap live' : actor[t].playing} :
          actor' = [t \in Table |->
                       IF t \notin live' THEN NoActor
                       ELSE [Restored(t) EXCEPT !.playing = t \in resumed]]
    /\ req' = [r \in Req |-> Idle]
    /\ muddled' = muddled \cup {t \in Table : Writers(t) # {}}
    /\ hostless' = {t \in live' : Restored(t).host = NoSeat}
    /\ UNCHANGED <<made, database, served, faults, answers, departed>>

Init ==
    /\ live = {} /\ actor = [t \in Table |-> NoActor]
    /\ recorded = {} /\ row = [t \in Table |-> NoRow] /\ cache = {}
    /\ req = [r \in Req |-> Idle] /\ made = 0
    /\ served = 0 /\ faults = 0 /\ restarts = 0
    /\ muddled = {} /\ answers = {} /\ departed = {} /\ hostless = {}

Serve(r) ==
    \/ FindKey(r) \/ RefuseSeated(r) \/ FindSeatCreate(r) \/ FindSeatJoin(r)
    \/ FindCode(r) \/ FindTable(r)
    \/ Insert(r) \/ SetStatus(r) \/ SyncSeats(r) \/ SetHost(r) \/ Store(r) \/ Fail(r)

Next ==
    \/ \E r \in Req :
          \/ Serve(r)
          \/ \E a \in Account, k \in Key \cup {NoKey} : StartCreate(r, a, k)
          \/ \E a \in Account, t \in Table :
                StartJoin(r, a, t) \/ StartLeave(r, a, t) \/ StartClose(r, a, t)
          \/ \E t \in Table : StartForce(r, t)
    \/ \E t \in Table : Deal(t) \/ Conclude(t) \/ SocketClose(t)
    \/ Restart

Spec == Init /\ [][Next]_vars

-----------------------------------------------------------------------------
(* Properties. *)

TablesTypeOK ==
    /\ live \subseteq 1 .. made /\ recorded \subseteq 1 .. made /\ made \in 0 .. MaxTables
    /\ actor \in [Table -> [seats : Seating, host : Seat \cup {NoSeat}, status : Status,
                            playing : BOOLEAN]]
    /\ row \in [Table -> [seats : Seating, host : Account \cup {NoAccount}, status : Status]]
    /\ cache \subseteq answers /\ muddled \subseteq Table /\ departed \subseteq Account
    /\ hostless \subseteq live
    /\ \A r \in Req : /\ req[r].kind \in Kinds /\ req[r].at \in Places
                      /\ req[r].at \in Writes \ {"insert"} => req[r].table \in recorded

\* At rest, the rows of a table tell exactly what its actor holds, host and
\* status included, so a restart then loses nothing; and the table has its host,
\* unless it was restored without one and nobody has joined since.
\* It takes that since the last join or leave that ran alone from its first
\* change to its last statement, no two requests on the table overlapped, none
\* failed, none was cut off by a restart, and nobody closed it over the socket.
RestMirrors ==
    \A t \in live \ muddled :
        Writers(t) = {} =>
            /\ t \in recorded
            /\ row[t].seats = actor[t].seats /\ row[t].status = actor[t].status
            /\ row[t].host = HostAccount(actor[t])
            /\ actor[t].status # "closed" /\ t \notin hostless
                  => actor[t].host \in Taken(actor[t].seats)

\* Whatever overlaps or fails, the row of a live table says "closed" only if its
\* actor is closed: no restart drops a table that people are still playing at.
ClosedRowsAreClosed ==
    \A t \in live \cap recorded : row[t].status = "closed" => actor[t].status = "closed"

\* A key names one table: however often a creation is retried, and even when two
\* attempts run together, all the answers of one key to an account that has not
\* left a seat meanwhile name the same table.
OneTablePerKey ==
    \A x, y \in answers :
        x.who = y.who /\ x.key = y.key /\ x.key # NoKey /\ x.who \notin departed
            => x.table = y.table

\* docs/04 5.3: an account occupies at most one seat across the entire system at
\* any moment; asked here only when no request is being served.
SeatedOnce ==
    (\A r \in Req : req[r] = Idle) =>
        \A t, u \in live : \A a \in Account :
            Holds(actor[t].seats, a) /\ Holds(actor[u].seats, a) => t = u
=============================================================================
