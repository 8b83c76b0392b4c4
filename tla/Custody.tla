------------------------------ MODULE Custody ------------------------------
(***************************************************************************)
(* What a neutral dealer may do with tiles: who holds each tile, and the   *)
(* only ways custody passes.  Nothing is said of turns, overlays, orders   *)
(* or answers: a dealer that implements this module moves tiles only       *)
(* along these edges, one kind of edge per step.                           *)
(*                                                                         *)
(* A tile that is in no location of a game in progress is Lost.  The only  *)
(* way to Lost is from flight, when the seat that still had tiles in       *)
(* flight commits again.                                                   *)
(***************************************************************************)
CONSTANTS Tile, Seat, NoSeat

VARIABLE place      \* who holds each tile

Box == <<"box", NoSeat>>            \* between games
Wall == <<"wall", NoSeat>>
Discards == <<"discards", NoSeat>>
Table == <<"table", NoSeat>>        \* laid down, face up
Lost == <<"lost", NoSeat>>
Hand(s) == <<"hand", s>>
Flight(s) == <<"flight", s>>        \* committed to a pass by s
Hands == {Hand(s) : s \in Seat}

Init == place = [t \in Tile |-> Box]

\* A step takes custody from the function h to the function k.
Moved(h, k) == {t \in Tile : k[t] # h[t]}
Goes(h, k, T, from, to) == T # {} /\ \A t \in T : h[t] = from /\ k[t] = to

\* All that moves takes one edge.
Edge(h, k, from, to) == Goes(h, k, Moved(h, k), from, to)
OneTile(h, k, from, to) == (\E t \in Tile : Moved(h, k) = {t}) /\ Edge(h, k, from, to)

Draw(h, k, s) == OneTile(h, k, Wall, Hand(s))
Discard(h, k, s) == OneTile(h, k, Hand(s), Discards)
Claim(h, k, s) == OneTile(h, k, Discards, Hand(s))
Lay(h, k, s) == Edge(h, k, Hand(s), Table)
TakeBack(h, k, s) == Edge(h, k, Table, Hand(s))

Exchange(h, k, s) ==
    \E t, x \in Moved(h, k) :
        /\ Moved(h, k) = {t, x}
        /\ Goes(h, k, {t}, Hand(s), Table) /\ Goes(h, k, {x}, Table, Hand(s))

\* s sends tiles of its hand; whatever it still had in flight is lost.
Send(h, k, s) ==
    /\ \E t \in Moved(h, k) : h[t] = Hand(s)
    /\ \A t \in Tile : \/ h[t] = Hand(s) /\ k[t] \in {Hand(s), Flight(s)}
                       \/ h[t] = Flight(s) /\ k[t] = Lost
                       \/ h[t] \notin {Hand(s), Flight(s)} /\ k[t] = h[t]

\* All the tiles that are at from go to the same place, one of those in P.
Together(h, k, from, P) == \E to \in P : \A t \in Tile : h[t] = from => k[t] = to

\* The last sender s: its tiles pass straight on to one hand, and with them the
\* tiles in flight of every other sender, those of each all to one hand, unless
\* the round routes them nowhere.
Land(h, k, s) ==
    /\ \E r \in Seat : \A t \in Tile : h[t] = Hand(s) => k[t] \in {Hand(s), Hand(r)}
    /\ \A p \in Seat \ {s} : Together(h, k, Flight(p), Hands \cup {Flight(p)})
    /\ \A t \in Tile : h[t] = Flight(s) => k[t] = Lost
    /\ \A t \in Moved(h, k) : h[t] \in {Hand(s)} \cup {Flight(p) : p \in Seat}

\* Tiles in flight come back to the hands they came from, all those of a seat.
Return(h, k) ==
    /\ \A s \in Seat : Together(h, k, Flight(s), {Flight(s), Hand(s)})
    /\ \A t \in Moved(h, k) : h[t] \in {Flight(s) : s \in Seat}

\* All tiles are dealt afresh, some to hands, the rest to the wall.
Deal(h, k) ==
    \A t \in Tile : /\ h[t] \in {Box, Discards, Table} \cup Hands
                    /\ k[t] \in {Wall} \cup Hands

\* The game ends: discards, laid tiles and the hands of some seats stay in view.
Conclude(h, k) ==
    /\ \A s \in Seat : Together(h, k, Hand(s), {Hand(s), Box})
    /\ \A t \in Tile : h[t] \in {Discards, Table} => k[t] = h[t]
    /\ \A t \in Tile : h[t] \notin {Discards, Table} \cup Hands => k[t] = Box

Step(h, k) ==
    \/ \E s \in Seat :
          \/ Draw(h, k, s) \/ Discard(h, k, s) \/ Claim(h, k, s) \/ Lay(h, k, s)
          \/ TakeBack(h, k, s) \/ Exchange(h, k, s) \/ Send(h, k, s) \/ Land(h, k, s)
    \/ Return(h, k) \/ Deal(h, k) \/ Conclude(h, k)

Next == \E h \in {place}, k \in {place'} : h # k /\ Step(h, k)

Spec == Init /\ [][Next]_place
=============================================================================
