-------------------------- MODULE GatewayTheorems ---------------------------
(***************************************************************************)
(* The gateway for every number of seats, players, sockets and identifiers *)
(* that are retransmitted, every backlog and every bound: whoever binds,   *)
(* resumes, falls silent or leaves, and in whatever order, a command is    *)
(* applied once, a seat has one voice, whoever has resumed is shown what is*)
(* public and decides on it, and who is absent from a game holds it.       *)
(***************************************************************************)
EXTENDS Gateway, TLAPS

-----------------------------------------------------------------------------
(* The invariant. *)

\* The actor's wire state, the connections and the sockets.
GState ==
    [seq : Nat, latest : Nat, log : [Seat -> Seq(Nat)],
     conns : [Seat -> Socket \cup {NoSocket}], sock : [Socket -> Connection \cup {Idle}],
     presence : [Seat -> {"connected", "away", "absent"}],
     tenant : [Seat -> Player \cup {NoPlayer}],
     inPlay : BOOLEAN, holders : SUBSET Seat, closed : BOOLEAN, withheld : BOOLEAN,
     excused : SUBSET Seat]

\* A log holds no number beyond the latest event, and whatever it still holds is
\* followed by the latest.
Tells(log, latest) ==
    /\ Len(log) <= Backlog
    /\ \A i \in DOMAIN log :
          /\ log[i] <= latest
          /\ log[i] # 0 => \E j \in DOMAIN log : j >= i /\ log[j] = latest

\* What holds of the wire state within a handler too.
Sound(h) ==
    /\ h \in GState /\ h.latest <= h.seq
    /\ \A s \in Seat : Tells(h.log[s], h.latest)
    /\ \A k \in Socket : h.sock[k] # Idle => h.sock[k].cursor <= h.seq
    /\ \A s \in Bound(h) : h.sock[h.conns[s]] # Idle /\ h.sock[h.conns[s]].seat = s

\* A connection that has resumed and is not being closed.
Listens(c) == c.phase = "ready" /\ ~c.closing

\* A seat's connection that listens has been shown what is public, unless the table
\* was closed and nothing was delivered.
Current(h) ==
    \A s \in Bound(h) : Listens(h.sock[h.conns[s]]) =>
        h.sock[h.conns[s]].shown >= h.latest \/ h.withheld

\* Who has resumed has been shown it, or is about to be.
Caught(h) ==
    \A s \in Bound(h) : Listens(h.sock[h.conns[s]]) =>
        h.sock[h.conns[s]].shown >= h.latest \/ h.withheld \/ New(h, s) # {}

\* A socket speaks for its seat or is being closed; V are seats being vacated.
Voice(h, V) ==
    \A k \in Socket : h.sock[k] # Idle =>
        LET c == h.sock[k]
        IN  IF h.conns[c.seat] = k THEN c.seat \in V \/ h.tenant[c.seat] = c.player \/ c.late
            ELSE c.closing

\* A table closed without its event has no game; a game has all its players, and
\* who is absent from it and still has a connection is excused.  S are the seats
\* that a handler is busy with.
Calm(h, S) ==
    /\ h.withheld => h.closed /\ ~h.inPlay
    /\ h.inPlay => /\ \A s \in Seat : h.tenant[s] # NoPlayer
                   /\ \A s \in Bound(h) \ S : h.presence[s] = "absent" => s \in h.excused

\* Absence pauses.
Held(h, S) ==
    h.inPlay => \A s \in Seat \ S : h.presence[s] = "absent" => s \in h.holders \cup h.excused

\* What holds of the wire state between handlers.
Fine(h) == Sound(h) /\ Current(h) /\ Voice(h, {}) /\ Calm(h, {}) /\ Held(h, {})

\* A command that was applied has a receipt, and a receipt is never lost.
Counted ==
    /\ frames \in [CmdId -> [seat : Seat \cup {0}, seq : Nat]]
    /\ applied \in [CmdId -> Nat]
    /\ \A c \in CmdId : applied[c] <= 1 /\ (applied[c] = 1 => frames[c] # NoFrame)

\* Tickets are of seats and players.
Known == tickets \subseteq [seat : Seat, player : Player] /\ active \subseteq Player

\* The inductive invariant.
GatewayInv == Fine(g) /\ Counted /\ Known /\ informed

-----------------------------------------------------------------------------
(* Logs. *)

\* The greatest of a set of numbers is the one that no other exceeds.
LEMMA MaxIs ==
    ASSUME NEW S, S \subseteq Int, NEW m \in S, \A x \in S : x <= m
    PROVE  Max(S) = m
<1>1. \E x \in S : \A y \in S : x >= y
  OBVIOUS
<1>2. Max(S) \in S /\ \A y \in S : Max(S) >= y
  BY <1>1 DEF Max
<1>3. Max(S) \in Int /\ m \in Int /\ Max(S) >= m /\ Max(S) <= m
  BY <1>2
<1> QED BY <1>3

\* Whatever a log holds is followed by the latest.
Follows(log, latest) ==
    \A i \in DOMAIN log :
        /\ log[i] <= latest
        /\ log[i] # 0 => \E j \in DOMAIN log : j >= i /\ log[j] = latest

\* What is trimmed is the end of the log, and no more than the backlog.
LEMMA TrimmedIs ==
    ASSUME NEW log \in Seq(Nat)
    PROVE  /\ Trimmed(log) \in Seq(Nat) /\ Len(Trimmed(log)) <= Backlog
           /\ Len(log) <= Backlog => Trimmed(log) = log
           /\ \E d \in Nat : /\ Len(log) = Len(Trimmed(log)) + d
                             /\ \A i \in 1 .. Len(Trimmed(log)) : Trimmed(log)[i] = log[i + d]
           /\ log # <<>> => /\ Len(Trimmed(log)) > 0
                            /\ Trimmed(log)[Len(Trimmed(log))] = log[Len(log)]
<1>1. Backlog \in Nat \ {0} /\ Len(log) \in Nat
  BY GatewayAssumption
<1> DEFINE n == Len(log)
           b == IF n <= Backlog THEN 1 ELSE n - Backlog + 1
<1>2. b \in Nat /\ b >= 1 /\ b <= n + 1 /\ n - b + 1 <= Backlog /\ (n > 0 => b <= n)
  BY <1>1
<1>3. Max({1, n - Backlog + 1}) = b
  <2>1. b \in {1, n - Backlog + 1} /\ {1, n - Backlog + 1} \subseteq Int
        /\ \A x \in {1, n - Backlog + 1} : x <= b
    BY <1>1
  <2> HIDE DEF b
  <2> QED BY <2>1, MaxIs
<1>4. Trimmed(log) = SubSeq(log, b, n)
  BY <1>3, Zenon DEF Trimmed
<1> HIDE DEF b
<1>5. /\ SubSeq(log, b, n) \in Seq(Nat) /\ Len(SubSeq(log, b, n)) = n - b + 1
      /\ \A i \in 1 .. n - b + 1 : SubSeq(log, b, n)[i] = log[i + (b - 1)]
  BY <1>1, <1>2
<1>6. n <= Backlog => SubSeq(log, b, n) = log
  <2> SUFFICES ASSUME n <= Backlog PROVE SubSeq(log, b, n) = log
    OBVIOUS
  <2>1. b = 1
    BY DEF b
  <2> QED BY <1>1, <1>5, <2>1
<1> HIDE DEF n
<1>7. b - 1 \in Nat /\ n = (n - b + 1) + (b - 1) /\ n \in Nat
  BY <1>1, <1>2 DEF n
<1>8. log # <<>> => n > 0
  BY DEF n
<1>9. log # <<>> => n - b + 1 > 0 /\ SubSeq(log, b, n)[n - b + 1] = log[n]
  BY <1>2, <1>5, <1>7, <1>8
<1> QED BY <1>2, <1>4, <1>5, <1>6, <1>7, <1>9 DEF n

\* Trimming a log keeps what follows what.
LEMMA TrimmedTells ==
    ASSUME NEW log \in Seq(Nat), NEW latest \in Nat, Follows(log, latest)
    PROVE  Trimmed(log) \in Seq(Nat) /\ Tells(Trimmed(log), latest)
<1> DEFINE t == Trimmed(log)
<1>1. t \in Seq(Nat) /\ Len(t) <= Backlog
  BY TrimmedIs
<1>2. PICK d \in Nat : Len(log) = Len(t) + d /\ \A i \in 1 .. Len(t) : t[i] = log[i + d]
  BY TrimmedIs
<1> HIDE DEF t
<1>3. ASSUME NEW i \in DOMAIN t
      PROVE  /\ t[i] <= latest
             /\ t[i] # 0 => \E j \in DOMAIN t : j >= i /\ t[j] = latest
  <2>1. i \in 1 .. Len(t) /\ i + d \in DOMAIN log /\ t[i] = log[i + d] /\ i \in Nat
    <3>1. i \in 1 .. Len(t) /\ i \in Nat /\ Len(t) \in Nat
      BY <1>1
    <3>2. i + d \in 1 .. Len(log)
      BY <1>2, <3>1
    <3>3. t[i] = log[i + d]
      BY <1>2, <3>1
    <3> QED BY <3>1, <3>2, <3>3
  <2>2. t[i] <= latest
    BY <2>1 DEF Follows
  <2>3. ASSUME t[i] # 0 PROVE \E j \in DOMAIN t : j >= i /\ t[j] = latest
    <3>1. PICK j \in DOMAIN log : j >= i + d /\ log[j] = latest
      BY <2>1, <2>3 DEF Follows
    <3>2. j \in 1 .. Len(log) /\ Len(log) = Len(t) + d /\ Len(t) \in Nat
      BY <1>1, <1>2, <3>1
    <3>3. j - d \in 1 .. Len(t) /\ j - d >= i /\ (j - d) + d = j
      BY <2>1, <3>1, <3>2
    <3>4. t[j - d] = log[(j - d) + d]
      BY <1>2, <3>3
    <3>5. j - d \in DOMAIN t /\ t[j - d] = latest
      BY <1>1, <3>1, <3>3, <3>4
    <3> QED BY <3>3, <3>5
  <2> QED BY <2>2, <2>3
<1> QED BY <1>1, <1>3 DEF Tells, t

\* The log after n copies of a new number.
LEMMA LogGrows ==
    ASSUME NEW log \in Seq(Nat), NEW latest \in Nat, Tells(log, latest),
           NEW q \in Nat, q > latest, NEW n \in Nat
    PROVE  LET t == Trimmed(log \o [i \in 1 .. n |-> q])
           IN  /\ t \in Seq(Nat) /\ Tells(t, IF n = 0 THEN latest ELSE q)
               /\ n = 0 => t = log
               /\ n # 0 => q \in ToSet(t)
<1> DEFINE new == [i \in 1 .. n |-> q]
           long == log \o new
           t == Trimmed(long)
<1>1. new \in Seq(Nat) /\ Len(new) = n /\ \A i \in 1 .. n : new[i] = q
  OBVIOUS
<1> HIDE DEF new
<1>2. /\ long \in Seq(Nat) /\ Len(long) = Len(log) + n /\ Len(log) \in Nat
      /\ DOMAIN long = 1 .. Len(log) + n /\ DOMAIN log = 1 .. Len(log)
      /\ \A i \in 1 .. Len(log) : long[i] = log[i]
      /\ \A i \in Len(log) + 1 .. Len(log) + n : long[i] = q
  BY <1>1
<1>3. n = 0 => long = log
  BY <1>1, <1>2
<1> HIDE DEF long
<1>4. CASE n = 0
  <2>1. Len(log) <= Backlog
    BY DEF Tells
  <2>2. t = log
    BY <1>3, <1>4, <2>1, TrimmedIs
  <2> QED BY <1>4, <2>2 DEF long, new
<1>5. CASE n # 0
  <2>1. long[Len(log) + n] = q /\ Len(log) + n \in DOMAIN long /\ long # <<>>
    BY <1>2, <1>5
  <2>2. Follows(long, q)
    <3>1. ASSUME NEW i \in DOMAIN long PROVE long[i] <= q /\ Len(log) + n >= i
      <4>1. i \in 1 .. Len(log) \/ i \in Len(log) + 1 .. Len(log) + n
        BY <1>2
      <4>2. i \in 1 .. Len(log) => long[i] <= latest /\ long[i] \in Nat
        BY <1>2 DEF Tells
      <4> QED BY <1>2, <4>1, <4>2
    <3> QED BY <2>1, <3>1 DEF Follows
  <2>3. t \in Seq(Nat) /\ Tells(t, q)
    BY <1>2, <2>2, TrimmedTells
  <2>4. Len(t) \in DOMAIN t /\ t[Len(t)] = q
    <3>1. Len(t) > 0 /\ t[Len(t)] = long[Len(long)]
      BY <1>2, <2>1, TrimmedIs
    <3> QED BY <1>2, <2>1, <2>3, <3>1
  <2> QED BY <1>5, <2>3, <2>4 DEF long, new, ToSet
<1> QED BY <1>4, <1>5

\* The log after a reject frame.
LEMMA LogRefuses ==
    ASSUME NEW log \in Seq(Nat), NEW latest \in Nat, Tells(log, latest)
    PROVE  Trimmed(Append(log, 0)) \in Seq(Nat) /\ Tells(Trimmed(Append(log, 0)), latest)
<1> DEFINE long == Append(log, 0)
<1>1. /\ long \in Seq(Nat) /\ DOMAIN long = 1 .. Len(log) + 1 /\ DOMAIN log = 1 .. Len(log)
      /\ \A i \in 1 .. Len(log) : long[i] = log[i]
      /\ long[Len(log) + 1] = 0 /\ Len(log) \in Nat
  OBVIOUS
<1> HIDE DEF long
<1>2. Follows(long, latest)
  <2> SUFFICES ASSUME NEW i \in DOMAIN long
               PROVE  /\ long[i] <= latest
                      /\ long[i] # 0 => \E j \in DOMAIN long : j >= i /\ long[j] = latest
    BY DEF Follows
  <2>1. CASE i = Len(log) + 1
    BY <1>1, <2>1
  <2>2. CASE i \in DOMAIN log
    <3>1. long[i] = log[i] /\ log[i] <= latest
      BY <1>1, <2>2 DEF Tells
    <3>2. ASSUME long[i] # 0 PROVE \E j \in DOMAIN long : j >= i /\ long[j] = latest
      <4>1. PICK j \in DOMAIN log : j >= i /\ log[j] = latest
        BY <2>2, <3>1, <3>2 DEF Tells
      <4>2. j \in DOMAIN long /\ long[j] = latest
        BY <1>1, <4>1
      <4> QED BY <4>1, <4>2
    <3> QED BY <3>1, <3>2
  <2> QED BY <1>1, <2>1, <2>2
<1>3. Trimmed(long) \in Seq(Nat) /\ Tells(Trimmed(long), latest)
  BY <1>1, <1>2, TrimmedTells
<1> QED BY <1>3 DEF long

-----------------------------------------------------------------------------
(* Frames put into the logs, and frames delivered. *)

\* Sound within a handler: everybody is shown what is public, or about to be.
Ready(h, S, V) == Sound(h) /\ Caught(h) /\ Voice(h, V) /\ Calm(h, S) /\ Held(h, S)

\* All the fields, and no others.
Whole(x) ==
    x = [seq |-> x.seq, latest |-> x.latest, log |-> x.log, conns |-> x.conns,
         sock |-> x.sock, presence |-> x.presence, tenant |-> x.tenant,
         inPlay |-> x.inPlay, holders |-> x.holders, closed |-> x.closed,
         withheld |-> x.withheld, excused |-> x.excused]

\* The table and its connections are the same, but for numbers and views.
Alike(h, x) ==
    /\ x.conns = h.conns /\ x.presence = h.presence /\ x.tenant = h.tenant
    /\ x.inPlay = h.inPlay /\ x.holders = h.holders /\ x.closed = h.closed
    /\ x.withheld = h.withheld /\ x.excused = h.excused
    /\ \A k \in Socket :
          /\ x.sock[k] = Idle <=> h.sock[k] = Idle
          /\ h.sock[k] # Idle =>
                /\ x.sock[k].phase = h.sock[k].phase /\ x.sock[k].seat = h.sock[k].seat
                /\ x.sock[k].player = h.sock[k].player /\ x.sock[k].late = h.sock[k].late
                /\ x.sock[k].closing = h.sock[k].closing

\* What does not speak of numbers and views is then the same.
LEMMA AlikeKeeps ==
    ASSUME NEW h, NEW x, NEW S, NEW V, Alike(h, x), Voice(h, V), Calm(h, S), Held(h, S)
    PROVE  Voice(x, V) /\ Calm(x, S) /\ Held(x, S)
<1>1. /\ x.conns = h.conns /\ x.presence = h.presence /\ x.tenant = h.tenant
      /\ x.inPlay = h.inPlay /\ x.holders = h.holders /\ x.closed = h.closed
      /\ x.withheld = h.withheld /\ x.excused = h.excused
  BY DEF Alike
<1>2. Voice(x, V)
  <2> SUFFICES ASSUME NEW k \in Socket, x.sock[k] # Idle
               PROVE  IF x.conns[x.sock[k].seat] = k
                      THEN \/ x.sock[k].seat \in V \/ x.sock[k].late
                           \/ x.tenant[x.sock[k].seat] = x.sock[k].player
                      ELSE x.sock[k].closing
    BY DEF Voice
  <2>1. /\ h.sock[k] # Idle /\ x.sock[k].seat = h.sock[k].seat
        /\ x.sock[k].player = h.sock[k].player /\ x.sock[k].late = h.sock[k].late
        /\ x.sock[k].closing = h.sock[k].closing
    BY DEF Alike
  <2> QED BY <1>1, <2>1 DEF Voice
<1>3. Calm(x, S)
  BY <1>1 DEF Calm, Bound
<1>4. Held(x, S)
  BY <1>1 DEF Held
<1> QED BY <1>2, <1>3, <1>4

\* Who is connected to whom: the parts of a sound state.
LEMMA SoundParts ==
    ASSUME NEW h, Sound(h)
    PROVE  /\ h.seq \in Nat /\ h.latest \in Nat /\ h.latest <= h.seq
           /\ \A s \in Seat : h.log[s] \in Seq(Nat) /\ Tells(h.log[s], h.latest)
           /\ \A s \in Seat : h.conns[s] \in Socket \cup {NoSocket}
           /\ \A k \in Socket : h.sock[k] # Idle =>
                 /\ h.sock[k] \in Connection
                 /\ h.sock[k].cursor \in Nat /\ h.sock[k].cursor <= h.seq
                 /\ h.sock[k].shown \in Nat /\ h.sock[k].seat \in Seat
                 /\ h.sock[k].player \in Player
           /\ \A s \in Bound(h) : /\ s \in Seat /\ h.conns[s] \in Socket
                                  /\ h.sock[h.conns[s]] # Idle /\ h.sock[h.conns[s]].seat = s
<1>1. /\ h.seq \in Nat /\ h.latest \in Nat /\ h.log \in [Seat -> Seq(Nat)]
      /\ h.conns \in [Seat -> Socket \cup {NoSocket}]
      /\ h.sock \in [Socket -> Connection \cup {Idle}]
  BY DEF Sound, GState
<1>2. ASSUME NEW k \in Socket, h.sock[k] # Idle
      PROVE  /\ h.sock[k] \in Connection
             /\ h.sock[k].cursor \in Nat /\ h.sock[k].cursor <= h.seq
             /\ h.sock[k].shown \in Nat /\ h.sock[k].seat \in Seat /\ h.sock[k].player \in Player
  <2>1. h.sock[k] \in Connection
    BY <1>1, <1>2
  <2>2. h.sock[k].cursor <= h.seq
    BY <1>2 DEF Sound
  <2> QED BY <2>1, <2>2 DEF Connection
<1>3. ASSUME NEW s \in Bound(h)
      PROVE  /\ s \in Seat /\ h.conns[s] \in Socket
             /\ h.sock[h.conns[s]] # Idle /\ h.sock[h.conns[s]].seat = s
  <2>1. s \in Seat /\ h.conns[s] # NoSocket
    BY <1>3 DEF Bound
  <2> QED BY <1>1, <2>1 DEF Sound
<1> QED BY <1>1, <1>2, <1>3 DEF Sound

\* An event, or a command without one, in every log.
LEMMA BroadcastKeeps ==
    ASSUME NEW h, NEW n \in Nat, NEW S, NEW V, Sound(h)
    PROVE  /\ Sound(Broadcast(h, n)) /\ Alike(h, Broadcast(h, n))
           /\ Broadcast(h, n).seq = h.seq + 1
           /\ (Caught(h) => Caught(Broadcast(h, n)))
           /\ (Ready(h, S, V) => Ready(Broadcast(h, n), S, V))
<1> DEFINE x == Broadcast(h, n)
           q == h.seq + 1
           grown(s) == Trimmed(h.log[s] \o [i \in 1 .. n |-> q])
<1>1. /\ x.seq = q /\ x.latest = (IF n = 0 THEN h.latest ELSE q)
      /\ x.log = [s \in Seat |-> grown(s)] /\ x.sock = h.sock
      /\ x.conns = h.conns /\ x.presence = h.presence /\ x.tenant = h.tenant
      /\ x.inPlay = h.inPlay /\ x.holders = h.holders /\ x.closed = h.closed
      /\ x.withheld = h.withheld /\ x.excused = h.excused
      /\ Whole(x)
  <2>1. Whole(h)
    BY DEF Sound, GState, Whole
  <2> DEFINE logs == [s \in Seat |-> grown(s)]
             last == IF n = 0 THEN h.latest ELSE q
  <2>2. x = [h EXCEPT !.seq = q, !.latest = last, !.log = logs]
    BY Zenon DEF Broadcast
  <2>3. x.log = logs /\ x.latest = last
    <3> HIDE DEF logs, last, x
    <3> QED BY <2>1, <2>2 DEF Whole
  <2> HIDE DEF logs, last, x
  <2>4. /\ x.seq = q /\ x.sock = h.sock
        /\ x.conns = h.conns /\ x.presence = h.presence /\ x.tenant = h.tenant
        /\ x.inPlay = h.inPlay /\ x.holders = h.holders /\ x.closed = h.closed
        /\ x.withheld = h.withheld /\ x.excused = h.excused /\ Whole(x)
    BY <2>1, <2>2 DEF Whole
  <2> QED BY <2>3, <2>4 DEF logs, last
<1> HIDE DEF x
<1>2. q \in Nat /\ q > h.latest /\ q > h.seq
  BY SoundParts
<1>3. ASSUME NEW s \in Seat
      PROVE  /\ grown(s) \in Seq(Nat) /\ Tells(grown(s), x.latest)
             /\ n = 0 => grown(s) = h.log[s]
             /\ n # 0 => q \in ToSet(grown(s))
  BY <1>1, <1>2, SoundParts, LogGrows
<1> HIDE DEF grown
<1>4. x.log \in [Seat -> Seq(Nat)] /\ \A s \in Seat : x.log[s] = grown(s)
  BY <1>1, <1>3
<1>5. Sound(x)
  <2>1. x \in GState
    BY <1>1, <1>2, <1>4, SoundParts DEF Sound, GState, Whole
  <2>2. x.latest <= x.seq
    BY <1>1, <1>2, SoundParts
  <2>3. \A s \in Seat : Tells(x.log[s], x.latest)
    BY <1>3, <1>4
  <2>4. \A k \in Socket : x.sock[k] # Idle => x.sock[k].cursor <= x.seq
    BY <1>1, SoundParts
  <2>5. \A s \in Bound(x) : x.sock[x.conns[s]] # Idle /\ x.sock[x.conns[s]].seat = s
    BY <1>1, SoundParts DEF Bound
  <2> QED BY <2>1, <2>2, <2>3, <2>4, <2>5 DEF Sound
<1>6. Alike(h, x)
  BY <1>1 DEF Alike
<1>7. ASSUME Caught(h) PROVE Caught(x)
  <2> SUFFICES ASSUME NEW s \in Bound(h), Listens(h.sock[h.conns[s]])
               PROVE  \/ h.sock[h.conns[s]].shown >= x.latest \/ h.withheld
                      \/ New(x, s) # {}
    BY <1>1 DEF Caught, Bound
  <2>1. s \in Seat /\ h.sock[h.conns[s]].cursor <= h.seq /\ h.sock[h.conns[s]].cursor \in Nat
    BY SoundParts
  <2>2. CASE n = 0
    <3>1. x.latest = h.latest /\ New(x, s) = New(h, s)
      BY <1>1, <1>3, <1>4, <2>1, <2>2 DEF New
    <3> QED BY <1>7, <3>1 DEF Caught
  <2>3. CASE n # 0
    <3>1. q \in ToSet(x.log[s]) /\ q > x.sock[x.conns[s]].cursor
      BY <1>1, <1>2, <1>3, <1>4, <2>1, <2>3, SoundParts
    <3> QED BY <3>1 DEF New
  <2> QED BY <2>2, <2>3
<1>8. Ready(h, S, V) => Ready(x, S, V)
  BY <1>5, <1>6, <1>7, AlikeKeeps DEF Ready
<1> QED BY <1>1, <1>5, <1>6, <1>7, <1>8 DEF x

\* A reject frame changes one log, and no view.
LEMMA RefusedKeeps ==
    ASSUME NEW h, NEW s \in Seat, Fine(h)
    PROVE  Fine(Refused(h, s)) /\ Refused(h, s).seq = h.seq
<1> DEFINE x == Refused(h, s)
           less == Trimmed(Append(h.log[s], 0))
<1>0. Sound(h) /\ Current(h) /\ Voice(h, {}) /\ Calm(h, {}) /\ Held(h, {})
  BY DEF Fine
<1>1. /\ x.seq = h.seq /\ x.latest = h.latest
      /\ x.log = [h.log EXCEPT ![s] = less] /\ x.sock = h.sock
      /\ x.conns = h.conns /\ x.presence = h.presence /\ x.tenant = h.tenant
      /\ x.inPlay = h.inPlay /\ x.holders = h.holders /\ x.closed = h.closed
      /\ x.withheld = h.withheld /\ x.excused = h.excused
      /\ Whole(x)
  <2>1. Whole(h)
    BY <1>0 DEF Sound, GState, Whole
  <2> QED BY <2>1 DEF Refused, Whole
<1> HIDE DEF x
<1>2. less \in Seq(Nat) /\ Tells(less, h.latest)
  BY <1>0, SoundParts, LogRefuses
<1> HIDE DEF less
<1>3. x.log \in [Seat -> Seq(Nat)] /\ \A r \in Seat : Tells(x.log[r], h.latest)
  <2>1. h.log \in [Seat -> Seq(Nat)] /\ \A r \in Seat : Tells(h.log[r], h.latest)
    BY <1>0 DEF Sound, GState
  <2> QED BY <1>1, <1>2, <2>1
<1>4. Sound(x)
  <2>1. x \in GState
    BY <1>0, <1>1, <1>3 DEF Sound, GState, Whole
  <2> QED BY <1>0, <1>1, <1>3, <2>1 DEF Sound, Bound
<1>5. Current(x)
  BY <1>0, <1>1 DEF Current, Bound
<1>6. Alike(h, x)
  BY <1>1 DEF Alike
<1>7. Voice(x, {}) /\ Calm(x, {}) /\ Held(x, {})
  BY <1>0, <1>6, AlikeKeeps
<1> QED BY <1>1, <1>4, <1>5, <1>7 DEF Fine, x

\* What is new to a seat ends with the latest event.
LEMMA NewIs ==
    ASSUME NEW h, Sound(h), NEW s \in Bound(h), New(h, s) # {}
    PROVE  Max(New(h, s)) = h.latest
<1>1. /\ h.log[s] \in Seq(Nat) /\ Tells(h.log[s], h.latest) /\ h.latest \in Nat
      /\ h.sock[h.conns[s]].cursor \in Nat
  BY SoundParts
<1> DEFINE c == h.sock[h.conns[s]].cursor
           N == New(h, s)
<1> HIDE DEF c
<1>2. N = {q \in ToSet(h.log[s]) : q > c} /\ c \in Nat
  BY <1>1 DEF New, c
<1> HIDE DEF N
<1>3. \A q \in N : q \in Nat /\ q > c /\ q <= h.latest
  BY <1>1, <1>2 DEF ToSet, Tells
<1>4. PICK i \in DOMAIN h.log[s] : h.log[s][i] > c
  BY <1>2 DEF ToSet, N
<1>5. h.log[s][i] \in Nat /\ h.log[s][i] # 0
  BY <1>1, <1>2, <1>4
<1>6. PICK j \in DOMAIN h.log[s] : h.log[s][j] = h.latest
  BY <1>1, <1>4, <1>5 DEF Tells
<1>7. h.latest > c
  BY <1>1, <1>2, <1>4, <1>5 DEF Tells
<1>8. h.latest \in N
  BY <1>2, <1>6, <1>7 DEF ToSet
<1>9. N \subseteq Int /\ \A q \in N : q <= h.latest
  BY <1>3
<1> QED BY <1>8, <1>9, MaxIs DEF N

\* A connection after a delivery: as it was but for cursor and view, and if something
\* was new to it, with the latest view.
Shown(h, x, k) ==
    /\ x.sock[k].cursor \in Nat /\ x.sock[k].cursor <= h.seq
    /\ x.sock[k].shown \in Nat
    /\ \/ /\ x.sock[k].shown = h.sock[k].shown
          /\ h.conns[h.sock[k].seat] = k => New(h, h.sock[k].seat) = {}
       \/ x.sock[k].shown = h.latest
       \/ h.sock[k].closing
    /\ x.sock[k] = [h.sock[k] EXCEPT !.cursor = x.sock[k].cursor, !.shown = x.sock[k].shown]

LEMMA DeliverShows ==
    ASSUME NEW h, Sound(h), NEW k \in Socket
    PROVE  IF h.sock[k] = Idle THEN Deliver(h).sock[k] = Idle ELSE Shown(h, Deliver(h), k)
<1> DEFINE behind == {s \in Bound(h) : New(h, s) # {}}
           Reaches(S) == \E s \in S : h.conns[s] = k
           c == h.sock[k]
           now == Deliver(h).sock[k]
<1>0. now = IF Reaches(behind) THEN SentTo(h, c.seat)
            ELSE IF behind = {} /\ Reaches(Bound(h)) THEN [c EXCEPT !.cursor = h.seq]
            ELSE c
  BY DEF Deliver, Sound, GState
<1>1. \A s \in Bound(h) : h.conns[s] = k => h.sock[k] # Idle /\ c.seat = s
  BY SoundParts
<1>2. CASE h.sock[k] = Idle
  <2>1. ~Reaches(behind) /\ ~Reaches(Bound(h))
    BY <1>1, <1>2
  <2>2. now = c
    <3> HIDE DEF now, c, behind, Reaches
    <3> QED BY <1>0, <2>1
  <2> QED BY <1>2, <2>2
<1>3. CASE h.sock[k] # Idle
  <2>1. /\ c \in Connection /\ c.cursor \in Nat /\ c.cursor <= h.seq /\ c.shown \in Nat
        /\ h.seq \in Nat /\ h.latest \in Nat /\ h.latest <= h.seq
    BY <1>3, SoundParts
  <2>2. CASE Reaches(behind)
    <3>1. c.seat \in Bound(h) /\ New(h, c.seat) # {} /\ h.conns[c.seat] = k
      BY <1>1, <2>2
    <3>2. Max(New(h, c.seat)) = h.latest
      BY <3>1, NewIs
    <3>3. SentTo(h, c.seat) = Sees([c EXCEPT !.cursor = h.latest], h.latest)
      BY <3>1, <3>2 DEF SentTo
    <3>4. now = Sees([c EXCEPT !.cursor = h.latest], h.latest)
      <4> HIDE DEF now, Reaches, behind, c
      <4> QED BY <1>0, <2>2, <3>3
    <3> HIDE DEF now, Reaches, behind
    <3>5. now = [c EXCEPT !.cursor = h.latest, !.shown = IF c.closing THEN c.shown ELSE h.latest]
      <4> HIDE DEF c
      <4> QED BY <2>1, <3>4 DEF Sees, Connection
    <3>6. now.cursor = h.latest /\ now.shown = IF c.closing THEN c.shown ELSE h.latest
      <4> HIDE DEF c
      <4> QED BY <2>1, <3>5 DEF Connection
    <3>7. now = [c EXCEPT !.cursor = now.cursor, !.shown = now.shown]
      <4> HIDE DEF c
      <4> QED BY <3>5, <3>6
    <3>8. now.cursor \in Nat /\ now.cursor <= h.seq /\ now.shown \in Nat
          /\ (now.shown = h.latest \/ c.closing)
      <4> HIDE DEF c
      <4> QED BY <2>1, <3>6
    <3> QED BY <1>3, <3>7, <3>8 DEF Shown, now
  <2>3. CASE ~Reaches(behind)
    <3>1. h.conns[c.seat] = k => New(h, c.seat) = {}
      <4> SUFFICES ASSUME h.conns[c.seat] = k PROVE New(h, c.seat) = {}
        OBVIOUS
      <4>1. c.seat \in Seat /\ k # NoSocket
        BY <1>3, SoundParts, GatewayAssumption
      <4>2. c.seat \in Bound(h)
        BY <4>1 DEF Bound
      <4> QED BY <2>3, <4>2
    <3>2. now = [c EXCEPT !.cursor = h.seq] \/ now = c
      <4> HIDE DEF now, Reaches, behind, c
      <4> QED BY <1>0, <2>3
    <3> HIDE DEF now, Reaches, behind
    <3>3. /\ now.cursor \in {h.seq, c.cursor} /\ now.shown = c.shown
          /\ now = [c EXCEPT !.cursor = now.cursor, !.shown = now.shown]
      <4> HIDE DEF c
      <4> QED BY <2>1, <3>2 DEF Connection
    <3>4. now.cursor \in Nat /\ now.cursor <= h.seq /\ now.shown \in Nat
      <4> HIDE DEF c
      <4> QED BY <2>1, <3>3
    <3> QED BY <1>3, <3>1, <3>3, <3>4 DEF Shown, now
  <2> QED BY <2>2, <2>3
<1> QED BY <1>2, <1>3

\* Delivering keeps a sound state, and leaves nobody behind.
LEMMA DeliverKeeps ==
    ASSUME NEW h, NEW S, NEW V, Sound(h)
    PROVE  /\ Sound(Deliver(h)) /\ Alike(h, Deliver(h)) /\ Deliver(h).seq = h.seq
           /\ (Caught(h) => Current(Deliver(h)))
           /\ (Ready(h, S, V) =>
                 /\ Voice(Deliver(h), V) /\ Calm(Deliver(h), S) /\ Held(Deliver(h), S)
                 /\ Current(Deliver(h)) /\ Ready(Deliver(h), S, V))
<1> DEFINE x == Deliver(h)
<1>1. /\ x.seq = h.seq /\ x.latest = h.latest /\ x.log = h.log
      /\ x.conns = h.conns /\ x.presence = h.presence /\ x.tenant = h.tenant
      /\ x.inPlay = h.inPlay /\ x.holders = h.holders /\ x.closed = h.closed
      /\ x.withheld = h.withheld /\ x.excused = h.excused
      /\ Whole(x) /\ x.sock = [k \in Socket |-> x.sock[k]]
  <2>1. Whole(h)
    BY DEF Sound, GState, Whole
  <2>2. \E f : x = [h EXCEPT !.sock = [k \in Socket |-> f[k]]]
    <3> DEFINE behind == {s \in Bound(h) : New(h, s) # {}}
               Holds(k, T) == \E s \in T : h.conns[s] = k
               f == [k \in Socket |->
                        IF Holds(k, behind) THEN SentTo(h, h.sock[k].seat)
                        ELSE IF behind = {} /\ Holds(k, Bound(h)) THEN [h.sock[k] EXCEPT !.cursor = h.seq]
                        ELSE h.sock[k]]
    <3>1. x = [h EXCEPT !.sock = f]
      BY Zenon DEF Deliver
    <3>2. f = [k \in Socket |-> f[k]]
      OBVIOUS
    <3> HIDE DEF f, x
    <3> QED BY <3>1, <3>2
  <2>3. PICK f : x = [h EXCEPT !.sock = [k \in Socket |-> f[k]]]
    BY <2>2
  <2> HIDE DEF x
  <2> QED BY <2>1, <2>3 DEF Whole
<1>2. ASSUME NEW k \in Socket
      PROVE  IF h.sock[k] = Idle THEN x.sock[k] = Idle ELSE Shown(h, x, k)
  BY DeliverShows
<1> HIDE DEF x
<1>3. ASSUME NEW k \in Socket, h.sock[k] # Idle
      PROVE  /\ x.sock[k] \in Connection /\ x.sock[k] # Idle
             /\ x.sock[k].phase = h.sock[k].phase /\ x.sock[k].seat = h.sock[k].seat
             /\ x.sock[k].player = h.sock[k].player /\ x.sock[k].late = h.sock[k].late
             /\ x.sock[k].closing = h.sock[k].closing /\ x.sock[k].cursor <= h.seq
  <2>1. Shown(h, x, k) /\ h.sock[k] \in Connection
    BY <1>2, <1>3, SoundParts
  <2> DEFINE a == h.sock[k]
             b == x.sock[k]
  <2>2. /\ b = [a EXCEPT !.cursor = b.cursor, !.shown = b.shown] /\ a \in Connection
        /\ b.cursor \in Nat /\ b.shown \in Nat /\ b.cursor <= h.seq
    BY <2>1 DEF Shown
  <2> HIDE DEF a, b
  <2>3. /\ b \in Connection /\ b.phase = a.phase /\ b.seat = a.seat /\ b.player = a.player
        /\ b.late = a.late /\ b.closing = a.closing
    BY <2>2 DEF Connection
  <2>4. b # Idle
    BY <2>3 DEF Connection, Idle
  <2> QED BY <2>2, <2>3, <2>4 DEF a, b
<1>4. Alike(h, x)
  BY <1>1, <1>2, <1>3 DEF Alike
<1>5. Sound(x)
  <2>1. \A k \in Socket : x.sock[k] \in Connection \cup {Idle}
    BY <1>2, <1>3
  <2>2. x \in GState
    <3>1. x.sock \in [Socket -> Connection \cup {Idle}]
      BY <1>1, <2>1
    <3> QED BY <1>1, <3>1 DEF Sound, GState, Whole
  <2>3. \A k \in Socket : x.sock[k] # Idle => x.sock[k].cursor <= x.seq
    BY <1>1, <1>2, <1>3
  <2>4. \A s \in Bound(x) : x.sock[x.conns[s]] # Idle /\ x.sock[x.conns[s]].seat = s
    BY <1>1, <1>3, SoundParts DEF Bound
  <2> QED BY <1>1, <2>2, <2>3, <2>4 DEF Sound
<1>6. ASSUME Caught(h) PROVE Current(x)
  <2> SUFFICES ASSUME NEW s \in Bound(h), Listens(x.sock[h.conns[s]]), ~h.withheld
               PROVE  x.sock[h.conns[s]].shown >= h.latest
    BY <1>1 DEF Current, Bound
  <2> DEFINE k == h.conns[s]
  <2>1. /\ k \in Socket /\ h.sock[k] # Idle /\ h.sock[k].seat = s /\ h.conns[s] = k
        /\ h.latest \in Nat
    BY SoundParts
  <2> HIDE DEF k
  <2>2. Listens(h.sock[k]) /\ ~h.sock[k].closing
    BY <1>3, <2>1 DEF Listens, k
  <2>3. h.sock[k].shown >= h.latest \/ New(h, s) # {}
    BY <1>6, <2>2 DEF Caught, k
  <2>4. (x.sock[k].shown = h.sock[k].shown /\ New(h, s) = {}) \/ x.sock[k].shown = h.latest
    BY <1>2, <2>1, <2>2 DEF Shown
  <2>5. x.sock[k].shown >= h.latest
    BY <2>1, <2>3, <2>4
  <2> QED BY <2>5 DEF k
<1>7. Current(x) => Caught(x)
  BY DEF Current, Caught
<1>8. Ready(h, S, V) => Voice(x, V) /\ Calm(x, S) /\ Held(x, S) /\ Current(x) /\ Ready(x, S, V)
  BY <1>4, <1>5, <1>6, <1>7, AlikeKeeps DEF Ready
<1> QED BY <1>1, <1>4, <1>5, <1>6, <1>8 DEF x

-----------------------------------------------------------------------------
(* What handlers do before they deliver. *)

\* A sound state has all the fields.
LEMMA SoundWhole == ASSUME NEW h, Sound(h) PROVE Whole(h)
BY DEF Sound, GState, Whole

\* A fine state is ready, whatever a handler is busy with.
LEMMA FineReady ==
    ASSUME NEW h, NEW S, NEW V, Fine(h)
    PROVE  Ready(h, S, V)
<1>1. Caught(h)
  BY DEF Fine, Current, Caught
<1>2. Voice(h, V)
  BY DEF Fine, Voice
<1>3. Calm(h, S) /\ Held(h, S)
  BY DEF Fine, Calm, Held
<1> QED BY <1>1, <1>2, <1>3 DEF Fine, Ready

\* What changes neither frames nor connections leaves the numbers and views sound.
LEMMA TableChanges ==
    ASSUME NEW h, NEW x, Sound(h), Whole(x),
           x.seq = h.seq, x.latest = h.latest, x.log = h.log, x.conns = h.conns,
           x.sock = h.sock, x.withheld = h.withheld \/ x.withheld = TRUE,
           x.presence \in [Seat -> {"connected", "away", "absent"}],
           x.tenant \in [Seat -> Player \cup {NoPlayer}],
           x.inPlay \in BOOLEAN, x.holders \subseteq Seat, x.closed \in BOOLEAN,
           x.excused \subseteq Seat
    PROVE  /\ Sound(x) /\ (Caught(h) => Caught(x)) /\ (Current(h) => Current(x))
           /\ Bound(x) = Bound(h)
<1>1. x \in GState
  <2>1. /\ h.seq \in Nat /\ h.latest \in Nat /\ h.log \in [Seat -> Seq(Nat)]
        /\ h.conns \in [Seat -> Socket \cup {NoSocket}]
        /\ h.sock \in [Socket -> Connection \cup {Idle}] /\ h.withheld \in BOOLEAN
    BY DEF Sound, GState
  <2> QED BY <2>1 DEF GState, Whole
<1>2. Sound(x)
  BY <1>1 DEF Sound, Bound
<1>3. Bound(x) = Bound(h)
  BY DEF Bound
<1>4. Caught(h) => Caught(x)
  BY <1>3 DEF Caught, New
<1>5. Current(h) => Current(x)
  BY <1>3 DEF Current
<1> QED BY <1>2, <1>3, <1>4, <1>5

\* One connection with other numbers, or being closed.
LEMMA SockChanges ==
    ASSUME NEW h, NEW k \in Socket, NEW c \in Connection, Fine(h), h.sock[k] # Idle,
           c.seat = h.sock[k].seat, c.player = h.sock[k].player, c.late = h.sock[k].late,
           h.sock[k].closing => c.closing, c.cursor <= h.seq,
           Listens(c) /\ h.conns[c.seat] = k => c.shown >= h.latest \/ h.withheld
    PROVE  Fine([h EXCEPT !.sock[k] = c])
<1> DEFINE x == [h EXCEPT !.sock[k] = c]
<1>0. Sound(h) /\ Current(h) /\ Voice(h, {}) /\ Calm(h, {}) /\ Held(h, {})
  BY DEF Fine
<1>1. /\ x.seq = h.seq /\ x.latest = h.latest /\ x.log = h.log
      /\ x.conns = h.conns /\ x.presence = h.presence /\ x.tenant = h.tenant
      /\ x.inPlay = h.inPlay /\ x.holders = h.holders /\ x.closed = h.closed
      /\ x.withheld = h.withheld /\ x.excused = h.excused
      /\ Whole(x) /\ x.sock = [h.sock EXCEPT ![k] = c]
  <2>1. Whole(h)
    BY <1>0, SoundWhole
  <2> QED BY <2>1 DEF Whole
<1> HIDE DEF x
<1>2. /\ h.sock \in [Socket -> Connection \cup {Idle}] /\ c # Idle
      /\ x.sock[k] = c /\ \A j \in Socket \ {k} : x.sock[j] = h.sock[j]
  <2>1. h.sock \in [Socket -> Connection \cup {Idle}]
    BY <1>0 DEF Sound, GState
  <2>2. c # Idle
    BY DEF Connection, Idle
  <2> QED BY <1>1, <2>1, <2>2
<1>3. x \in GState
  <2>1. x.sock \in [Socket -> Connection \cup {Idle}]
    BY <1>1, <1>2
  <2> QED BY <1>0, <1>1, <2>1 DEF Sound, GState, Whole
<1>4. Sound(x)
  <2>1. \A j \in Socket : x.sock[j] # Idle => x.sock[j].cursor <= x.seq
    BY <1>0, <1>1, <1>2, SoundParts
  <2>2. \A s \in Bound(x) : x.sock[x.conns[s]] # Idle /\ x.sock[x.conns[s]].seat = s
    BY <1>0, <1>1, <1>2, SoundParts DEF Bound
  <2> QED BY <1>0, <1>1, <1>3, <2>1, <2>2 DEF Sound
<1>5. Current(x)
  <2> SUFFICES ASSUME NEW s \in Bound(h), Listens(x.sock[h.conns[s]])
               PROVE  x.sock[h.conns[s]].shown >= h.latest \/ h.withheld
    BY <1>1 DEF Current, Bound
  <2>1. h.conns[s] \in Socket /\ h.sock[h.conns[s]].seat = s
    BY <1>0, SoundParts
  <2> QED BY <1>0, <1>2, <2>1 DEF Current
<1>6. Voice(x, {})
  BY <1>0, <1>1, <1>2 DEF Voice
<1>7. Calm(x, {}) /\ Held(x, {})
  BY <1>0, <1>1 DEF Calm, Held, Bound
<1> QED BY <1>4, <1>5, <1>6, <1>7 DEF Fine, x

\* The connection of a seat that is being left is closed and taken out of the map.
LEMMA UnboundKeeps ==
    ASSUME NEW h, NEW s \in Seat,
           Sound(h), Current(h), Voice(h, {s}), Calm(h, {}), Held(h, {})
    PROVE  Fine([Closing(h, h.conns[s]) EXCEPT !.conns[s] = NoSocket])
<1> DEFINE k == h.conns[s]
           x == [Closing(h, k) EXCEPT !.conns[s] = NoSocket]
<1>0. /\ h.conns \in [Seat -> Socket \cup {NoSocket}] /\ NoSocket \notin Socket
      /\ h.sock \in [Socket -> Connection \cup {Idle}] /\ Whole(h)
  BY SoundWhole, GatewayAssumption DEF Sound, GState
<1>1. k \in Socket \cup {NoSocket} /\ (k # NoSocket => h.sock[k] # Idle /\ h.sock[k].seat = s)
  BY <1>0, SoundParts DEF Bound
<1>2. /\ x.seq = h.seq /\ x.latest = h.latest /\ x.log = h.log
      /\ x.presence = h.presence /\ x.tenant = h.tenant
      /\ x.inPlay = h.inPlay /\ x.holders = h.holders /\ x.closed = h.closed
      /\ x.withheld = h.withheld /\ x.excused = h.excused
      /\ Whole(x) /\ x.conns = [h.conns EXCEPT ![s] = NoSocket]
      /\ x.sock = IF k = NoSocket THEN h.sock
                  ELSE [h.sock EXCEPT ![k] = [h.sock[k] EXCEPT !.closing = TRUE]]
  <2>1. CASE k = NoSocket
    <3>1. x = [h EXCEPT !.conns[s] = NoSocket]
      BY <2>1 DEF Closing
    <3> HIDE DEF x, k
    <3> QED BY <1>0, <2>1, <3>1 DEF Whole
  <2>2. CASE k # NoSocket
    <3>1. x = [[h EXCEPT !.sock[k].closing = TRUE] EXCEPT !.conns[s] = NoSocket]
      BY <2>2 DEF Closing
    <3> HIDE DEF x, k
    <3> QED BY <1>0, <2>2, <3>1 DEF Whole
  <2> QED BY <2>1, <2>2
<1> HIDE DEF x, k
<1>3. ASSUME NEW j \in Socket
      PROVE  IF j = k /\ h.sock[j] # Idle
             THEN /\ x.sock[j] \in Connection /\ x.sock[j] # Idle /\ x.sock[j].seat = s
                  /\ x.sock[j].closing /\ x.sock[j].cursor = h.sock[j].cursor
             ELSE x.sock[j] = h.sock[j]
  <2>1. CASE j # k
    BY <1>0, <1>1, <1>2, <2>1
  <2>2. CASE j = k
    <3>1. h.sock[j] \in Connection /\ h.sock[j].seat = s /\ j # NoSocket
      BY <1>0, <1>1, <2>2
    <3>2. x.sock[j] = [h.sock[j] EXCEPT !.closing = TRUE]
      BY <1>0, <1>2, <2>2, <3>1
    <3>3. /\ x.sock[j] \in Connection /\ x.sock[j].seat = s
          /\ x.sock[j].closing /\ x.sock[j].cursor = h.sock[j].cursor
      BY <3>1, <3>2 DEF Connection
    <3>4. x.sock[j] # Idle
      BY <3>3 DEF Connection, Idle
    <3> QED BY <1>1, <2>2, <3>1, <3>3, <3>4
  <2> QED BY <2>1, <2>2
<1>4. /\ x.conns[s] = NoSocket /\ \A r \in Seat \ {s} : x.conns[r] = h.conns[r]
      /\ x.conns \in [Seat -> Socket \cup {NoSocket}]
  BY <1>0, <1>2
<1>5. x.sock \in [Socket -> Connection \cup {Idle}]
  <2>1. x.sock = [j \in Socket |-> x.sock[j]]
    BY <1>0, <1>2
  <2>2. \A j \in Socket : x.sock[j] \in Connection \cup {Idle}
    BY <1>0, <1>3
  <2> QED BY <2>1, <2>2
<1>6. ASSUME NEW r \in Bound(x)
      PROVE  /\ r \in Bound(h) /\ r # s /\ x.conns[r] = h.conns[r] /\ h.conns[r] # k
             /\ x.sock[x.conns[r]] = h.sock[h.conns[r]]
  <2>1. r \in Seat /\ r # s /\ x.conns[r] = h.conns[r] /\ r \in Bound(h)
    BY <1>4 DEF Bound
  <2>2. h.conns[r] \in Socket /\ h.sock[h.conns[r]].seat = r
    BY <2>1, SoundParts
  <2>3. h.conns[r] # k
    BY <1>0, <1>1, <2>1, <2>2
  <2> QED BY <1>3, <2>1, <2>2, <2>3
<1>7. Sound(x)
  <2>1. x \in GState
    BY <1>2, <1>4, <1>5 DEF Sound, GState, Whole
  <2>2. \A j \in Socket : x.sock[j] # Idle => x.sock[j].cursor <= x.seq
    BY <1>2, <1>3, SoundParts
  <2>3. \A r \in Bound(x) : x.sock[x.conns[r]] # Idle /\ x.sock[x.conns[r]].seat = r
    BY <1>6, SoundParts
  <2> QED BY <1>2, <2>1, <2>2, <2>3 DEF Sound
<1>8. Current(x)
  BY <1>2, <1>6 DEF Current
<1>9. Voice(x, {})
  <2> SUFFICES ASSUME NEW j \in Socket, x.sock[j] # Idle
               PROVE  IF x.conns[x.sock[j].seat] = j
                      THEN x.tenant[x.sock[j].seat] = x.sock[j].player \/ x.sock[j].late
                      ELSE x.sock[j].closing
    BY DEF Voice
  <2>1. CASE j = k /\ h.sock[j] # Idle
    BY <1>0, <1>3, <1>4, <2>1
  <2>2. CASE ~(j = k /\ h.sock[j] # Idle)
    <3>1. x.sock[j] = h.sock[j] /\ h.sock[j].seat \in Seat /\ h.sock[j] # Idle /\ j # k
      BY <1>3, <2>2, SoundParts
    <3>2. CASE h.sock[j].seat = s
      <4>1. h.conns[s] # j
        BY <3>1 DEF k
      <4>2. h.sock[j].closing
        BY <3>1, <3>2, <4>1 DEF Voice
      <4> QED BY <1>0, <1>4, <3>1, <3>2, <4>2
    <3>3. CASE h.sock[j].seat # s
      <4>1. x.conns[h.sock[j].seat] = h.conns[h.sock[j].seat]
        BY <1>4, <3>1, <3>3
      <4> QED BY <1>2, <3>1, <3>3, <4>1 DEF Voice
    <3> QED BY <3>2, <3>3
  <2> QED BY <2>1, <2>2
<1>10. Calm(x, {}) /\ Held(x, {})
  <2>1. Held(x, {})
    BY <1>2 DEF Held
  <2> QED BY <1>2, <1>6, <2>1 DEF Calm
<1> QED BY <1>7, <1>8, <1>9, <1>10 DEF Fine, x, k

\* The presence of a seat that a handler is busy with.
LEMMA PresenceKeeps ==
    ASSUME NEW h, NEW s \in Seat, NEW c \in {"connected", "away", "absent"}, Ready(h, {s}, {})
    PROVE  LET x == SetSeatConnection(h, s, c)
           IN  /\ Ready(x, {s}, {}) /\ x.conns = h.conns /\ x.presence[s] = c
               /\ x.inPlay = h.inPlay /\ x.holders = h.holders /\ x.excused = h.excused
<1> DEFINE y == [h EXCEPT !.presence[s] = c]
<1>0. /\ Sound(h) /\ Caught(h) /\ Voice(h, {}) /\ Calm(h, {s}) /\ Held(h, {s})
      /\ h \in GState
  BY DEF Ready, Sound
<1>1. CASE h.presence[s] = c
  BY <1>1 DEF SetSeatConnection
<1>2. CASE h.presence[s] # c
  <2>1. /\ y.seq = h.seq /\ y.latest = h.latest /\ y.log = h.log /\ y.sock = h.sock
        /\ y.conns = h.conns /\ y.presence = [h.presence EXCEPT ![s] = c] /\ y.tenant = h.tenant
        /\ y.inPlay = h.inPlay /\ y.holders = h.holders /\ y.closed = h.closed
        /\ y.withheld = h.withheld /\ y.excused = h.excused /\ Whole(y)
    <3>1. Whole(h)
      BY <1>0, SoundWhole
    <3> QED BY <3>1 DEF Whole
  <2>2. SetSeatConnection(h, s, c) = Broadcast(y, 1)
    BY <1>2 DEF SetSeatConnection
  <2> HIDE DEF y
  <2>3. /\ h.presence \in [Seat -> {"connected", "away", "absent"}]
        /\ h.tenant \in [Seat -> Player \cup {NoPlayer}]
        /\ h.inPlay \in BOOLEAN /\ h.holders \subseteq Seat /\ h.closed \in BOOLEAN
        /\ h.excused \subseteq Seat
    BY <1>0 DEF GState
  <2>4. /\ y.presence \in [Seat -> {"connected", "away", "absent"}] /\ y.presence[s] = c
        /\ \A r \in Seat \ {s} : y.presence[r] = h.presence[r]
    BY <2>1, <2>3
  <2>5. Sound(y) /\ Caught(y) /\ Bound(y) = Bound(h)
    BY <1>0, <2>1, <2>3, <2>4, TableChanges
  <2>6. Voice(y, {})
    BY <1>0, <2>1 DEF Voice
  <2>7. Calm(y, {s}) /\ Held(y, {s})
    <3>1. \A r \in Bound(h) : r \in Seat
      BY DEF Bound
    <3> QED BY <1>0, <2>1, <2>4, <2>5, <3>1 DEF Calm, Held
  <2>8. Ready(y, {s}, {})
    BY <2>5, <2>6, <2>7 DEF Ready
  <2>9. /\ Ready(Broadcast(y, 1), {s}, {}) /\ Alike(y, Broadcast(y, 1))
    BY <2>5, <2>8, BroadcastKeeps
  <2> QED BY <2>1, <2>2, <2>4, <2>9 DEF Alike
<1> QED BY <1>1, <1>2

\* A handler that ends with a delivery, and with its seat in order, leaves a fine state.
LEMMA Settled ==
    ASSUME NEW h, NEW s, Ready(h, {s}, {}), Current(h),
           s \in Bound(h) => h.presence[s] # "absent",
           h.inPlay /\ h.presence[s] = "absent" => s \in h.holders \cup h.excused
    PROVE  Fine(h)
BY DEF Ready, Fine, Calm, Held

\* Pausing or resuming on behalf of a seat.
LEMMA HoldersKeep ==
    ASSUME NEW h, NEW s \in Seat, NEW H \in SUBSET Seat, Ready(h, {s}, {}),
           \A r \in Seat \ {s} : r \in h.holders => r \in H,
           s \in Bound(h) => h.presence[s] # "absent",
           h.inPlay /\ h.presence[s] = "absent" => s \in H
    PROVE  Fine(Deliver(Broadcast([h EXCEPT !.holders = H], 1)))
<1> DEFINE y == [h EXCEPT !.holders = H]
<1>0. /\ Sound(h) /\ Caught(h) /\ Voice(h, {}) /\ Calm(h, {s}) /\ Held(h, {s})
      /\ h \in GState
  BY DEF Ready, Sound
<1>1. /\ y.seq = h.seq /\ y.latest = h.latest /\ y.log = h.log /\ y.sock = h.sock
      /\ y.conns = h.conns /\ y.presence = h.presence /\ y.tenant = h.tenant
      /\ y.inPlay = h.inPlay /\ y.holders = H /\ y.closed = h.closed
      /\ y.withheld = h.withheld /\ y.excused = h.excused /\ Whole(y)
  <2>1. Whole(h)
    BY <1>0, SoundWhole
  <2> QED BY <2>1 DEF Whole
<1> HIDE DEF y
<1>2. /\ h.presence \in [Seat -> {"connected", "away", "absent"}]
      /\ h.tenant \in [Seat -> Player \cup {NoPlayer}]
      /\ h.inPlay \in BOOLEAN /\ H \subseteq Seat /\ h.closed \in BOOLEAN
      /\ h.excused \subseteq Seat
  BY <1>0 DEF GState
<1>3. Sound(y) /\ Caught(y) /\ Bound(y) = Bound(h)
  BY <1>0, <1>1, <1>2, TableChanges
<1>4. Voice(y, {})
  BY <1>0, <1>1 DEF Voice
<1>5. Calm(y, {}) /\ Held(y, {})
  BY <1>0, <1>1, <1>3 DEF Calm, Held
<1>6. Ready(y, {}, {})
  BY <1>3, <1>4, <1>5 DEF Ready
<1>7. Ready(Broadcast(y, 1), {}, {})
  BY <1>3, <1>6, BroadcastKeeps
<1>8. Sound(Broadcast(y, 1))
  BY <1>7 DEF Ready
<1> DEFINE z == Deliver(Broadcast(y, 1))
<1>9. Sound(z) /\ Current(z) /\ Voice(z, {}) /\ Calm(z, {}) /\ Held(z, {})
  BY <1>7, <1>8, DeliverKeeps
<1> QED BY <1>9 DEF Fine, y

\* A seat that has gone absent holds the game.
LEMMA AutoPauseKeeps ==
    ASSUME NEW h, NEW s \in Seat, Ready(h, {s}, {}), Current(h), s \notin Bound(h)
    PROVE  Fine(AutoPause(h, s))
<1>1. h.holders \subseteq Seat
  BY DEF Ready, Sound, GState
<1>2. CASE h.inPlay /\ s \notin h.holders
  <2> DEFINE H == h.holders \cup {s}
  <2>1. AutoPause(h, s) = Deliver(Broadcast([h EXCEPT !.holders = H], 1))
    BY <1>2 DEF AutoPause
  <2>2. H \in SUBSET Seat /\ s \in H /\ \A r \in Seat \ {s} : r \in h.holders => r \in H
    BY <1>1
  <2> HIDE DEF H
  <2>3. Fine(Deliver(Broadcast([h EXCEPT !.holders = H], 1)))
    BY <2>2, HoldersKeep
  <2> QED BY <2>1, <2>3
<1>3. CASE ~(h.inPlay /\ s \notin h.holders)
  <2>1. Fine(h)
    BY <1>3, Settled
  <2>2. AutoPause(h, s) = Refused(h, s)
    BY <1>3 DEF AutoPause
  <2> QED BY <2>1, <2>2, RefusedKeeps
<1> QED BY <1>2, <1>3

\* A seat that has come back lets go of it.
LEMMA AutoResumeKeeps ==
    ASSUME NEW h, NEW s \in Seat, Ready(h, {s}, {}), Current(h), h.presence[s] = "connected"
    PROVE  Fine(AutoResume(h, s))
<1>1. h.holders \subseteq Seat
  BY DEF Ready, Sound, GState
<1>2. CASE h.inPlay /\ s \in h.holders
  <2> DEFINE H == h.holders \ {s}
  <2>1. AutoResume(h, s) = Deliver(Broadcast([h EXCEPT !.holders = H], 1))
    BY <1>2 DEF AutoResume
  <2>2. H \in SUBSET Seat /\ \A r \in Seat \ {s} : r \in h.holders => r \in H
    BY <1>1
  <2> HIDE DEF H
  <2>3. Fine(Deliver(Broadcast([h EXCEPT !.holders = H], 1)))
    BY <2>2, HoldersKeep
  <2> QED BY <2>1, <2>3
<1>3. CASE ~(h.inPlay /\ s \in h.holders)
  <2>1. Fine(h)
    BY Settled
  <2>2. AutoResume(h, s) = Refused(h, s)
    BY <1>3 DEF AutoResume
  <2> QED BY <2>1, <2>2, RefusedKeeps
<1> QED BY <1>2, <1>3

\* The presence of a seat, delivered to everybody.
LEMMA PresenceDelivered ==
    ASSUME NEW h, NEW s \in Seat, NEW c \in {"connected", "away", "absent"}, Ready(h, {s}, {})
    PROVE  LET z == Deliver(SetSeatConnection(h, s, c))
           IN  /\ Ready(z, {s}, {}) /\ Current(z) /\ z.conns = h.conns /\ z.presence[s] = c
               /\ z.inPlay = h.inPlay /\ z.holders = h.holders /\ z.excused = h.excused
<1> DEFINE x == SetSeatConnection(h, s, c)
           z == Deliver(x)
<1>1. /\ Ready(x, {s}, {}) /\ x.conns = h.conns /\ x.presence[s] = c
      /\ x.inPlay = h.inPlay /\ x.holders = h.holders /\ x.excused = h.excused
  BY PresenceKeeps
<1> HIDE DEF x
<1>2. Sound(x)
  BY <1>1 DEF Ready
<1>3. Ready(z, {s}, {}) /\ Current(z) /\ Alike(x, z)
  BY <1>1, <1>2, DeliverKeeps
<1> HIDE DEF z
<1>4. /\ Ready(z, {s}, {}) /\ Current(z) /\ z.conns = h.conns /\ z.presence[s] = c
      /\ z.inPlay = h.inPlay /\ z.holders = h.holders /\ z.excused = h.excused
  BY <1>1, <1>3 DEF Alike
<1> QED BY <1>4 DEF z, x

-----------------------------------------------------------------------------
(* The handlers. *)

\* A connection that ends, while its seat is busy with it.
LEMMA GoneBare ==
    ASSUME NEW h, NEW k \in Socket, Fine(h), h.sock[k] # Idle
    PROVE  LET s == h.sock[k].seat
           IN  /\ h.conns[s] # k => Fine([h EXCEPT !.sock[k] = Idle])
               /\ h.conns[s] = k =>
                     LET x == [h EXCEPT !.sock[k] = Idle, !.conns[s] = NoSocket]
                     IN  Ready(x, {s}, {}) /\ s \notin Bound(x)
<1> DEFINE s == h.sock[k].seat
           new == IF h.conns[s] = k THEN [h.conns EXCEPT ![s] = NoSocket] ELSE h.conns
           socks == [h.sock EXCEPT ![k] = Idle]
           x == [h EXCEPT !.sock = socks, !.conns = new]
<1>0. /\ Sound(h) /\ Current(h) /\ Voice(h, {}) /\ Calm(h, {}) /\ Held(h, {}) /\ Whole(h)
      /\ h.conns \in [Seat -> Socket \cup {NoSocket}] /\ NoSocket \notin Socket
      /\ h.sock \in [Socket -> Connection \cup {Idle}] /\ s \in Seat
  BY SoundWhole, SoundParts, GatewayAssumption DEF Fine, Sound, GState
<1> HIDE DEF s
<1>1. /\ x.seq = h.seq /\ x.latest = h.latest /\ x.log = h.log
      /\ x.presence = h.presence /\ x.tenant = h.tenant
      /\ x.inPlay = h.inPlay /\ x.holders = h.holders /\ x.closed = h.closed
      /\ x.withheld = h.withheld /\ x.excused = h.excused
      /\ Whole(x) /\ x.conns = new /\ x.sock = [h.sock EXCEPT ![k] = Idle]
  <2>1. Whole(h)
    BY <1>0
  <2> HIDE DEF new, socks
  <2>4. x = [h EXCEPT !.sock = socks, !.conns = new]
    OBVIOUS
  <2> HIDE DEF x
  <2>5. x.conns = new /\ x.sock = socks
    BY <2>1, <2>4 DEF Whole
  <2>2. Whole(x)
    BY <2>1, <2>4 DEF Whole
  <2>3. /\ x.seq = h.seq /\ x.latest = h.latest /\ x.log = h.log
        /\ x.presence = h.presence /\ x.tenant = h.tenant
        /\ x.inPlay = h.inPlay /\ x.holders = h.holders /\ x.closed = h.closed
        /\ x.withheld = h.withheld /\ x.excused = h.excused
    BY <2>1, <2>4 DEF Whole
  <2> QED BY <2>2, <2>3, <2>5 DEF socks
<1> HIDE DEF x
<1>2. /\ x.sock \in [Socket -> Connection \cup {Idle}]
      /\ x.sock[k] = Idle /\ \A j \in Socket \ {k} : x.sock[j] = h.sock[j]
  BY <1>0, <1>1
<1>3. /\ x.conns \in [Seat -> Socket \cup {NoSocket}]
      /\ \A r \in Seat \ {s} : x.conns[r] = h.conns[r]
      /\ x.conns[s] = IF h.conns[s] = k THEN NoSocket ELSE h.conns[s]
  BY <1>0, <1>1
<1>4. ASSUME NEW r \in Bound(x)
      PROVE  /\ r \in Bound(h) /\ x.conns[r] = h.conns[r] /\ h.conns[r] # k
             /\ x.sock[x.conns[r]] = h.sock[h.conns[r]]
  <2>1. r \in Seat /\ x.conns[r] = h.conns[r] /\ r \in Bound(h) /\ (r = s => h.conns[s] # k)
    BY <1>3 DEF Bound
  <2>2. h.conns[r] \in Socket /\ h.sock[h.conns[r]].seat = r
    BY <1>0, <2>1, SoundParts
  <2>3. h.conns[r] # k
    BY <2>1, <2>2 DEF s
  <2> QED BY <1>2, <2>1, <2>2, <2>3
<1>5. Sound(x)
  <2>1. x \in GState
    BY <1>0, <1>1, <1>2, <1>3 DEF Sound, GState, Whole
  <2>2. \A j \in Socket : x.sock[j] # Idle => x.sock[j].cursor <= x.seq
    BY <1>0, <1>1, <1>2, SoundParts
  <2>3. \A r \in Bound(x) : x.sock[x.conns[r]] # Idle /\ x.sock[x.conns[r]].seat = r
    BY <1>0, <1>4, SoundParts
  <2> QED BY <1>0, <1>1, <2>1, <2>2, <2>3 DEF Sound
<1>6. Current(x)
  BY <1>0, <1>1, <1>4 DEF Current
<1>7. Voice(x, {})
  <2> SUFFICES ASSUME NEW j \in Socket, x.sock[j] # Idle
               PROVE  IF x.conns[x.sock[j].seat] = j
                      THEN x.tenant[x.sock[j].seat] = x.sock[j].player \/ x.sock[j].late
                      ELSE x.sock[j].closing
    BY DEF Voice
  <2>1. j # k /\ x.sock[j] = h.sock[j] /\ h.sock[j].seat \in Seat
    BY <1>0, <1>2, SoundParts
  <2>2. x.conns[h.sock[j].seat] = j <=> h.conns[h.sock[j].seat] = j
    BY <1>0, <1>3, <2>1
  <2> QED BY <1>0, <1>1, <2>1, <2>2 DEF Voice
<1>8. Calm(x, {}) /\ Held(x, {})
  <2>1. Held(x, {})
    BY <1>0, <1>1 DEF Held
  <2> QED BY <1>0, <1>1, <1>4, <2>1 DEF Calm
<1>9. Fine(x) /\ Ready(x, {s}, {})
  <2>1. Fine(x)
    BY <1>5, <1>6, <1>7, <1>8 DEF Fine
  <2> QED BY <2>1, FineReady
<1>10. CASE h.conns[s] # k
  <2>1. x = [h EXCEPT !.sock[k] = Idle]
    <3>1. new = h.conns /\ Whole(h)
      BY <1>0, <1>10
    <3>2. [h EXCEPT !.sock[k] = Idle] = [h EXCEPT !.sock = socks]
      OBVIOUS
    <3>3. [h EXCEPT !.sock = socks] = [h EXCEPT !.sock = socks, !.conns = h.conns]
      <4> HIDE DEF socks
      <4> QED BY <3>1 DEF Whole
    <3> QED BY <3>1, <3>2, <3>3 DEF x
  <2> QED BY <1>9, <1>10, <2>1 DEF s
<1>11. CASE h.conns[s] = k
  <2>1. x = [h EXCEPT !.sock[k] = Idle, !.conns[s] = NoSocket]
    BY <1>11 DEF x
  <2>2. s \notin Bound(x)
    BY <1>3, <1>11 DEF Bound
  <2> QED BY <1>9, <1>11, <2>1, <2>2 DEF s
<1> QED BY <1>10, <1>11

\* A connection that ends leaves its seat absent and the game held.
LEMMA GoneKeeps ==
    ASSUME NEW h, NEW k \in Socket, Fine(h), h.sock[k] # Idle
    PROVE  Fine(Gone(h, k))
<1> DEFINE s == h.sock[k].seat
           bare == [h EXCEPT !.sock[k] = Idle]
           x == [h EXCEPT !.sock[k] = Idle, !.conns[s] = NoSocket]
           y == Deliver(SetSeatConnection(x, s, "absent"))
<1>1. s \in Seat
  BY SoundParts DEF Fine
<1>2. /\ h.conns[s] # k => Fine(bare)
      /\ h.conns[s] = k => Ready(x, {s}, {}) /\ s \notin Bound(x)
  BY GoneBare
<1>3. Gone(h, k) = IF h.conns[s] # k THEN bare ELSE AutoPause(y, s)
  <2>1. [bare EXCEPT !.conns[s] = NoSocket] = x
    <3>1. Whole(h)
      BY SoundWhole DEF Fine
    <3> HIDE DEF s
    <3> QED BY <3>1 DEF Whole
  <2> QED BY <2>1 DEF Gone
<1> HIDE DEF bare, x, s
<1>4. ASSUME h.conns[s] = k PROVE Fine(AutoPause(y, s))
  <2>1. Ready(y, {s}, {}) /\ Current(y) /\ y.conns = x.conns
    BY <1>1, <1>2, <1>4, PresenceDelivered
  <2> HIDE DEF y
  <2>2. s \notin Bound(y)
    BY <1>2, <1>4, <2>1 DEF Bound
  <2> QED BY <1>1, <2>1, <2>2, AutoPauseKeeps
<1> HIDE DEF y
<1> QED BY <1>2, <1>3, <1>4

\* A missed pong.
LEMMA MissKeeps ==
    ASSUME NEW k \in Socket, Fine(g), g.sock[k] # Idle, Miss(k)
    PROVE  Fine(g')
<1> DEFINE a == g.sock[k]
           s == a.seat
           c == [a EXCEPT !.misses = 1]
           missed == [g EXCEPT !.sock[k] = c]
           y == Deliver(SetSeatConnection(missed, s, "away"))
<1>0. Sound(g) /\ Current(g) /\ s \in Seat /\ g.sock[k] \in Connection
      /\ g.sock[k].cursor <= g.seq
  BY SoundParts DEF Fine
<1>1. [g EXCEPT !.sock[k].misses = 1] = missed
  OBVIOUS
<1>2. g' = IF g.sock[k].misses = 1 THEN Gone(g, k)
           ELSE IF g.conns[s] = k THEN y ELSE missed
  BY <1>1 DEF Miss
<1>3. /\ c \in Connection /\ c.seat = a.seat /\ c.player = a.player
      /\ c.late = a.late /\ c.closing = a.closing
      /\ c.cursor = a.cursor /\ c.shown = a.shown /\ c.phase = a.phase
  <2>1. a \in Connection
    BY <1>0
  <2> HIDE DEF a
  <2> QED BY <2>1 DEF Connection
<1> HIDE DEF c
<1>4. Listens(c) /\ g.conns[c.seat] = k => c.shown >= g.latest \/ g.withheld
  <2> SUFFICES ASSUME Listens(g.sock[k]), g.conns[s] = k
               PROVE  g.sock[k].shown >= g.latest \/ g.withheld
    BY <1>3 DEF Listens
  <2>1. s \in Bound(g)
    BY <1>0, GatewayAssumption DEF Bound
  <2> QED BY <1>0, <2>1 DEF Current
<1>5. Fine(missed)
  BY <1>0, <1>3, <1>4, SockChanges
<1> HIDE DEF missed
<1>6. ASSUME g.conns[s] = k PROVE Fine(y)
  <2>1. Ready(missed, {s}, {})
    BY <1>5, FineReady
  <2>2. Ready(y, {s}, {}) /\ Current(y) /\ y.presence[s] = "away"
    BY <1>0, <2>1, PresenceDelivered
  <2> HIDE DEF y
  <2> QED BY <2>2, Settled
<1> HIDE DEF y
<1> QED BY <1>2, <1>5, <1>6, GoneKeeps

\* A seat's connection that listens has been shown what is public.
LEMMA Listener ==
    ASSUME NEW k \in Socket, Fine(g), g.sock[k] # Idle, Listens(g.sock[k])
    PROVE  g.sock[k].shown >= g.latest \/ g.withheld
<1>1. Sound(g) /\ Current(g) /\ Voice(g, {}) /\ g.sock[k].seat \in Seat
  BY SoundParts DEF Fine
<1>2. g.conns[g.sock[k].seat] = k
  BY <1>1 DEF Voice, Listens
<1>3. g.sock[k].seat \in Bound(g)
  BY <1>1, <1>2, GatewayAssumption DEF Bound
<1> QED BY <1>1, <1>2, <1>3 DEF Current

\* A pong, a close, a resumption: one connection.
LEMMA OneSockKeeps ==
    ASSUME NEW k \in Socket, Fine(g), g.sock[k] # Idle,
           \/ Pong(k) \/ CloseSocket(k)
           \/ \E last \in ResumesFrom(g.sock[k]) : Resume(k, last)
    PROVE  Fine(g')
<1> DEFINE a == g.sock[k]
<1>0. /\ Sound(g) /\ a \in Connection /\ a.cursor <= g.seq /\ a.shown \in Nat /\ a.seat \in Seat
      /\ g.seq \in Nat /\ g.latest \in Nat /\ g.latest <= g.seq
  BY SoundParts DEF Fine
<1>1. CASE Pong(k)
  <2> DEFINE c == [a EXCEPT !.misses = 0]
  <2>1. g' = [g EXCEPT !.sock[k] = c]
    BY <1>1 DEF Pong
  <2>2. Listens(a) => a.shown >= g.latest \/ g.withheld
    BY Listener
  <2> HIDE DEF a
  <2>3. /\ c \in Connection /\ c.seat = a.seat /\ c.player = a.player
        /\ c.late = a.late /\ c.closing = a.closing
        /\ c.cursor = a.cursor /\ c.shown = a.shown /\ c.phase = a.phase
    BY <1>0 DEF Connection
  <2> HIDE DEF c
  <2>4. Listens(c) => c.shown >= g.latest \/ g.withheld
    BY <2>2, <2>3 DEF Listens
  <2> QED BY <1>0, <2>1, <2>3, <2>4, SockChanges DEF a
<1>2. CASE CloseSocket(k)
  <2> DEFINE c == [a EXCEPT !.closing = TRUE]
  <2>1. g' = [g EXCEPT !.sock[k] = c]
    <3>1. k # NoSocket
      BY GatewayAssumption
    <3> QED BY <1>2, <3>1 DEF CloseSocket, Closing
  <2> HIDE DEF a
  <2>3. /\ c \in Connection /\ c.seat = a.seat /\ c.player = a.player
        /\ c.late = a.late /\ c.closing /\ c.cursor = a.cursor
    BY <1>0 DEF Connection
  <2> HIDE DEF c
  <2>4. ~Listens(c)
    BY <2>3 DEF Listens
  <2> QED BY <1>0, <2>1, <2>3, <2>4, SockChanges DEF a
<1>3. ASSUME NEW last \in ResumesFrom(g.sock[k]), Resume(k, last) PROVE Fine(g')
  <2> DEFINE backlog == {q \in ToSet(g.log[a.seat]) : q > last}
             gap == IF backlog = {} THEN last < g.seq ELSE Min(backlog) # last + 1
             view == IF gap THEN g.seq ELSE IF backlog = {} THEN a.shown ELSE Max(backlog)
             c == Sees([a EXCEPT !.phase = "ready", !.cursor = g.seq], view)
  <2>1. g' = [g EXCEPT !.sock[k] = c]
    BY <1>3, Zenon DEF Resume
  <2>2. last \in {0, a.shown} /\ last \in Nat
    BY <1>0 DEF ResumesFrom
  <2>3. g.log[a.seat] \in Seq(Nat) /\ Tells(g.log[a.seat], g.latest)
    BY <1>0, SoundParts
  <2>4. backlog # {} => Max(backlog) = g.latest
    <3> SUFFICES ASSUME backlog # {} PROVE Max(backlog) = g.latest
      OBVIOUS
    <3>1. \A q \in backlog : q \in Nat /\ q <= g.latest
      BY <2>3 DEF ToSet, Tells
    <3>2. PICK i \in DOMAIN g.log[a.seat] : g.log[a.seat][i] > last
      BY DEF ToSet
    <3>3. g.log[a.seat][i] \in Nat /\ g.log[a.seat][i] # 0 /\ g.log[a.seat][i] <= g.latest
      <4>1. g.log[a.seat][i] <= g.latest
        BY <2>3 DEF Tells
      <4>2. g.log[a.seat][i] \in Nat
        BY <2>3
      <4> QED BY <2>2, <3>2, <4>1, <4>2
    <3>4. PICK j \in DOMAIN g.log[a.seat] : g.log[a.seat][j] = g.latest
      BY <2>3, <3>2, <3>3 DEF Tells
    <3>5. g.latest \in ToSet(g.log[a.seat])
      BY <3>4 DEF ToSet
    <3>7. g.latest > last
      BY <1>0, <2>2, <3>2, <3>3
    <3>8. g.latest \in backlog
      BY <3>5, <3>7
    <3> HIDE DEF backlog
    <3>6. backlog \subseteq Int /\ \A q \in backlog : q <= g.latest
      BY <3>1
    <3> QED BY <3>6, <3>8, MaxIs
  <2> HIDE DEF backlog
  <2>5. view \in Nat /\ view >= g.latest
    <3>1. CASE gap
      BY <1>0, <3>1
    <3>2. CASE ~gap /\ backlog = {}
      <4>1. ~(last < g.seq) /\ view = a.shown
        BY <3>2
      <4>2. last >= g.seq /\ a.shown >= last
        BY <1>0, <2>2, <4>1
      <4> QED BY <1>0, <2>2, <4>1, <4>2
    <3>3. CASE ~gap /\ backlog # {}
      BY <1>0, <2>4, <3>3
    <3> QED BY <3>1, <3>2, <3>3
  <2> HIDE DEF view, a
  <2>6. c = [a EXCEPT !.phase = "ready", !.cursor = g.seq,
                      !.shown = IF a.closing THEN a.shown ELSE view]
    BY <1>0 DEF Sees, Connection
  <2> HIDE DEF c
  <2>7. /\ c \in Connection /\ c.seat = a.seat /\ c.player = a.player
        /\ c.late = a.late /\ c.closing = a.closing
        /\ c.cursor = g.seq /\ c.shown = IF a.closing THEN a.shown ELSE view
    BY <1>0, <2>5, <2>6 DEF Connection
  <2>8. Listens(c) => c.shown >= g.latest
    BY <2>5, <2>7 DEF Listens
  <2>9. c.cursor <= g.seq
    BY <1>0, <2>7
  <2> QED BY <1>0, <2>1, <2>7, <2>8, <2>9, SockChanges DEF a
<1> QED BY <1>1, <1>2, <1>3

\* A new connection takes its seat's place in the map, and the older one is closing.
LEMMA BindOpens ==
    ASSUME NEW h, NEW k \in Socket, NEW s \in Seat, NEW conn \in Connection, Fine(h),
           h.sock[k] = Idle, conn.seat = s, conn.phase = "bound", conn.cursor = h.seq,
           conn.late \/ h.tenant[s] = conn.player
    PROVE  Ready([Closing(h, h.conns[s]) EXCEPT !.conns[s] = k, !.sock[k] = conn,
                                                !.excused = @ \ {s}], {s}, {})
<1> DEFINE o == h.conns[s]
           x == [Closing(h, o) EXCEPT !.conns[s] = k, !.sock[k] = conn, !.excused = @ \ {s}]
           old == IF o = NoSocket THEN h.sock
                  ELSE [h.sock EXCEPT ![o] = [h.sock[o] EXCEPT !.closing = TRUE]]
           new == [h.conns EXCEPT ![s] = k]
           socks == [old EXCEPT ![k] = conn]
           spared == h.excused \ {s}
<1>0. /\ Sound(h) /\ Current(h) /\ Voice(h, {}) /\ Calm(h, {}) /\ Held(h, {}) /\ Whole(h)
      /\ h.conns \in [Seat -> Socket \cup {NoSocket}] /\ NoSocket \notin Socket
      /\ h.sock \in [Socket -> Connection \cup {Idle}]
  BY SoundWhole, GatewayAssumption DEF Fine, Sound, GState
<1>1. /\ o \in Socket \cup {NoSocket} /\ o # k
      /\ o # NoSocket => h.sock[o] # Idle /\ h.sock[o].seat = s
  BY <1>0, SoundParts DEF Bound
<1>2. /\ x.seq = h.seq /\ x.latest = h.latest /\ x.log = h.log
      /\ x.presence = h.presence /\ x.tenant = h.tenant
      /\ x.inPlay = h.inPlay /\ x.holders = h.holders /\ x.closed = h.closed
      /\ x.withheld = h.withheld /\ x.excused = h.excused \ {s}
      /\ Whole(x) /\ x.conns = [h.conns EXCEPT ![s] = k]
      /\ x.sock = [old EXCEPT ![k] = conn]
  <2>1. Closing(h, o) = [h EXCEPT !.sock = old]
    <3>1. CASE o = NoSocket
      <4>1. h = [h EXCEPT !.sock = h.sock]
        <5> HIDE DEF o, old
        <5> QED BY <1>0 DEF Whole
      <4> QED BY <3>1, <4>1 DEF Closing
    <3>2. CASE o # NoSocket
      BY <3>2 DEF Closing
    <3> QED BY <3>1, <3>2
  <2>2. [h EXCEPT !.sock = old].conns = h.conns /\ [h EXCEPT !.sock = old].sock = old
        /\ [h EXCEPT !.sock = old].excused = h.excused
    <3> HIDE DEF old, o
    <3> QED BY <1>0 DEF Whole
  <2>3. x = [[h EXCEPT !.sock = old] EXCEPT !.conns = new, !.sock = socks, !.excused = spared]
    <3> DEFINE y == [h EXCEPT !.sock = old]
    <3>1. x = [y EXCEPT !.conns[s] = k, !.sock[k] = conn, !.excused = @ \ {s}]
      BY <2>1
    <3>2. y.conns = h.conns /\ y.sock = old /\ y.excused = h.excused
      BY <2>2
    <3> HIDE DEF y, old, o, x
    <3>3. x = [y EXCEPT !.conns = [y.conns EXCEPT ![s] = k], !.sock = [y.sock EXCEPT ![k] = conn],
                        !.excused = y.excused \ {s}]
      BY <3>1
    <3>4. x = [y EXCEPT !.conns = new, !.sock = socks, !.excused = spared]
      BY <3>2, <3>3, Zenon
    <3> QED BY <3>4 DEF y
  <2> HIDE DEF new, socks, spared, old, x, o
  <2>4. Whole(x) /\ x.conns = new /\ x.sock = socks /\ x.excused = spared
    BY <1>0, <2>3 DEF Whole
  <2>5. /\ x.seq = h.seq /\ x.latest = h.latest /\ x.log = h.log
        /\ x.presence = h.presence /\ x.tenant = h.tenant
        /\ x.inPlay = h.inPlay /\ x.holders = h.holders /\ x.closed = h.closed
        /\ x.withheld = h.withheld
    BY <1>0, <2>3 DEF Whole
  <2> QED BY <2>4, <2>5 DEF new, socks, spared
<1> HIDE DEF x
<1>3. /\ x.sock[k] = conn /\ conn # Idle
      /\ o # NoSocket => /\ x.sock[o] \in Connection /\ x.sock[o] # Idle /\ x.sock[o].seat = s
                         /\ x.sock[o].closing /\ x.sock[o].cursor = h.sock[o].cursor
      /\ \A j \in Socket \ {k, o} : x.sock[j] = h.sock[j]
      /\ x.sock \in [Socket -> Connection \cup {Idle}]
  <2>1. conn # Idle
    BY DEF Connection, Idle
  <2>2. CASE o = NoSocket
    <3>1. x.sock = [h.sock EXCEPT ![k] = conn]
      BY <1>2, <2>2
    <3> QED BY <1>0, <2>1, <2>2, <3>1
  <2>3. CASE o # NoSocket
    <3> DEFINE c == [h.sock[o] EXCEPT !.closing = TRUE]
    <3>1. x.sock = [[h.sock EXCEPT ![o] = c] EXCEPT ![k] = conn]
      BY <1>2, <2>3
    <3>2. h.sock[o] \in Connection /\ h.sock[o].seat = s /\ o \in Socket
      BY <1>0, <1>1, <2>3
    <3>3. c \in Connection /\ c.seat = s /\ c.closing /\ c.cursor = h.sock[o].cursor
      BY <3>2 DEF Connection
    <3>4. c # Idle
      BY <3>3 DEF Connection, Idle
    <3> HIDE DEF c, o
    <3>5. x.sock[o] = c /\ x.sock[k] = conn /\ \A j \in Socket \ {k, o} : x.sock[j] = h.sock[j]
      BY <1>0, <1>1, <3>1, <3>2
    <3>6. x.sock \in [Socket -> Connection \cup {Idle}]
      BY <1>0, <3>1, <3>3
    <3> QED BY <2>1, <3>3, <3>4, <3>5, <3>6
  <2> QED BY <2>2, <2>3
<1>4. /\ x.conns[s] = k /\ \A r \in Seat \ {s} : x.conns[r] = h.conns[r]
      /\ x.conns \in [Seat -> Socket \cup {NoSocket}]
  BY <1>0, <1>2
<1>5. ASSUME NEW r \in Bound(x), r # s
      PROVE  /\ r \in Bound(h) /\ x.conns[r] = h.conns[r] /\ h.conns[r] \in Socket
             /\ x.sock[x.conns[r]] = h.sock[h.conns[r]]
  <2>1. r \in Seat /\ x.conns[r] = h.conns[r] /\ r \in Bound(h)
    BY <1>4, <1>5 DEF Bound
  <2>2. h.conns[r] \in Socket /\ h.sock[h.conns[r]].seat = r /\ h.sock[h.conns[r]] # Idle
    BY <1>0, <2>1, SoundParts
  <2>3. h.conns[r] # k /\ h.conns[r] # o
    BY <1>0, <1>1, <1>5, <2>2
  <2> QED BY <1>3, <2>1, <2>2, <2>3
<1> HIDE DEF o
<1>6. Sound(x)
  <2>1. x \in GState
    <3>1. /\ x.seq \in Nat /\ x.latest \in Nat /\ x.log \in [Seat -> Seq(Nat)]
          /\ x.presence \in [Seat -> {"connected", "away", "absent"}]
          /\ x.tenant \in [Seat -> Player \cup {NoPlayer}]
          /\ x.inPlay \in BOOLEAN /\ x.holders \in SUBSET Seat /\ x.closed \in BOOLEAN
          /\ x.withheld \in BOOLEAN /\ x.excused \in SUBSET Seat
      BY <1>0, <1>2 DEF Sound, GState
    <3>2. /\ x.conns \in [Seat -> Socket \cup {NoSocket}]
          /\ x.sock \in [Socket -> Connection \cup {Idle}] /\ Whole(x)
      BY <1>2, <1>3, <1>4
    <3> QED BY <3>1, <3>2 DEF GState, Whole
  <2>2. \A j \in Socket : x.sock[j] # Idle => x.sock[j].cursor <= x.seq
    <3> SUFFICES ASSUME NEW j \in Socket, x.sock[j] # Idle PROVE x.sock[j].cursor <= x.seq
      OBVIOUS
    <3>1. CASE j = k
      BY <1>0, <1>2, <1>3, <3>1, SoundParts
    <3>2. CASE j = o
      BY <1>0, <1>1, <1>2, <1>3, <3>2, SoundParts
    <3>3. CASE j # k /\ j # o
      BY <1>0, <1>2, <1>3, <3>3, SoundParts
    <3> QED BY <3>1, <3>2, <3>3
  <2>3. \A r \in Bound(x) : x.sock[x.conns[r]] # Idle /\ x.sock[x.conns[r]].seat = r
    <3> SUFFICES ASSUME NEW r \in Bound(x)
                 PROVE  x.sock[x.conns[r]] # Idle /\ x.sock[x.conns[r]].seat = r
      OBVIOUS
    <3>1. CASE r = s
      BY <1>3, <1>4, <3>1
    <3>2. CASE r # s
      BY <1>0, <1>5, <3>2, SoundParts
    <3> QED BY <3>1, <3>2
  <2> QED BY <1>0, <1>2, <2>1, <2>2, <2>3 DEF Sound
<1>7. Caught(x)
  <2> SUFFICES ASSUME NEW r \in Bound(x), Listens(x.sock[x.conns[r]])
               PROVE  x.sock[x.conns[r]].shown >= x.latest \/ x.withheld
    BY DEF Caught
  <2>1. r # s
    <3> SUFFICES ASSUME r = s PROVE FALSE
      OBVIOUS
    <3>1. x.sock[x.conns[r]] = conn
      BY <1>3, <1>4
    <3> QED BY <3>1 DEF Listens
  <2> QED BY <1>0, <1>2, <1>5, <2>1 DEF Current
<1>8. Voice(x, {})
  <2> SUFFICES ASSUME NEW j \in Socket, x.sock[j] # Idle
               PROVE  IF x.conns[x.sock[j].seat] = j
                      THEN x.tenant[x.sock[j].seat] = x.sock[j].player \/ x.sock[j].late
                      ELSE x.sock[j].closing
    BY DEF Voice
  <2>1. CASE j = k
    BY <1>2, <1>3, <1>4, <2>1
  <2>2. CASE j = o
    <3>1. o # NoSocket
      BY <1>0, <2>2
    <3> QED BY <1>1, <1>3, <1>4, <2>2, <3>1
  <2>3. CASE j # k /\ j # o
    <3>1. x.sock[j] = h.sock[j] /\ h.sock[j].seat \in Seat /\ h.sock[j] # Idle
      BY <1>0, <1>3, <2>3, SoundParts
    <3>2. CASE h.sock[j].seat = s
      <4>1. h.conns[s] # j
        BY <2>3 DEF o
      <4>2. h.sock[j].closing
        BY <1>0, <3>1, <3>2, <4>1 DEF Voice
      <4> QED BY <1>4, <2>3, <3>1, <3>2, <4>2
    <3>3. CASE h.sock[j].seat # s
      <4>1. x.conns[h.sock[j].seat] = h.conns[h.sock[j].seat]
        BY <1>4, <3>1, <3>3
      <4> QED BY <1>0, <1>2, <3>1, <3>3, <4>1 DEF Voice
    <3> QED BY <3>2, <3>3
  <2> QED BY <2>1, <2>2, <2>3
<1>9. Calm(x, {s}) /\ Held(x, {s})
  <2>1. Held(x, {s})
    BY <1>0, <1>2 DEF Held
  <2>2. Calm(x, {s})
    <3>1. \A r \in Bound(x) \ {s} : r \in Bound(h)
      BY <1>5
    <3> QED BY <1>0, <1>2, <3>1 DEF Calm
  <2> QED BY <2>1, <2>2
<1>10. Ready(x, {s}, {})
  BY <1>6, <1>7, <1>8, <1>9 DEF Ready
<1> QED BY <1>10 DEF x, o

\* A bind.
LEMMA BindKeeps ==
    ASSUME NEW k \in Socket, NEW t \in tickets, Fine(g), Known, Bind(k, t)
    PROVE  Fine(g')
<1> DEFINE s == t.seat
           conn == [phase |-> "bound", seat |-> t.seat, player |-> t.player,
                    late |-> g.tenant[t.seat] # t.player,
                    cursor |-> g.seq, shown |-> 0, closing |-> FALSE, misses |-> 0]
           x == [Closing(g, g.conns[s]) EXCEPT !.conns[s] = k, !.sock[k] = conn,
                                               !.excused = @ \ {s}]
           y == Deliver(SetSeatConnection(x, s, "connected"))
<1>1. s \in Seat /\ t.player \in Player
  BY DEF Known
<1>2. g.seq \in Nat
  BY SoundParts DEF Fine
<1>3. /\ conn \in Connection /\ conn.seat = s /\ conn.phase = "bound" /\ conn.cursor = g.seq
      /\ conn.late \/ g.tenant[s] = conn.player
  <2>1. /\ conn \in Connection /\ conn.seat = s /\ conn.phase = "bound" /\ conn.cursor = g.seq
        /\ conn.player = t.player
    BY <1>1, <1>2 DEF Connection
  <2>2. conn.late = (g.tenant[s] # t.player)
    BY Zenon
  <2> HIDE DEF conn
  <2> QED BY <2>1, <2>2
<1>4. g' = AutoResume(y, s) /\ g.sock[k] = Idle
  BY Zenon DEF Bind
<1> HIDE DEF conn, s
<1>5. Ready(x, {s}, {})
  BY <1>1, <1>3, <1>4, BindOpens
<1> HIDE DEF x
<1>6. Ready(y, {s}, {}) /\ Current(y) /\ y.presence[s] = "connected"
  BY <1>1, <1>5, PresenceDelivered
<1> HIDE DEF y
<1> QED BY <1>1, <1>4, <1>6, AutoResumeKeeps

\* What does not change who is connected and who sits where: an accepted command.
LEMMA GameChanges ==
    ASSUME NEW h, NEW x, Fine(h), Whole(x),
           x.seq = h.seq, x.latest = h.latest, x.log = h.log, x.conns = h.conns,
           x.sock = h.sock, x.presence = h.presence, x.tenant = h.tenant, x.withheld = h.withheld,
           x.inPlay \in BOOLEAN, x.holders \subseteq Seat, x.closed \in BOOLEAN,
           x.excused \subseteq Seat, Calm(x, {}), Held(x, {})
    PROVE  Ready(x, {}, {})
<1>1. Ready(h, {}, {}) /\ Sound(h) /\ Caught(h) /\ Voice(h, {})
  BY FineReady DEF Ready
<1>2. /\ x.presence \in [Seat -> {"connected", "away", "absent"}]
      /\ x.tenant \in [Seat -> Player \cup {NoPlayer}]
  BY <1>1 DEF Sound, GState
<1>3. Sound(x) /\ Caught(x)
  BY <1>1, <1>2, TableChanges
<1>4. Voice(x, {})
  BY <1>1 DEF Voice
<1> QED BY <1>3, <1>4 DEF Ready

\* The game's part of an accepted command.
LEMMA PlayedKeeps ==
    ASSUME NEW h, NEW k \in Socket, NEW kind, Fine(h), h.sock[k] # Idle,
           Acceptable(h, h.sock[k].seat, kind)
    PROVE  Ready(Played(h, h.sock[k].seat, k, kind), {}, {})
<1> DEFINE s == h.sock[k].seat
           x == Played(h, s, k, kind)
<1>0. /\ Sound(h) /\ Current(h) /\ Voice(h, {}) /\ Calm(h, {}) /\ Held(h, {}) /\ Whole(h)
      /\ s \in Seat /\ Ready(h, {}, {})
      /\ h.presence \in [Seat -> {"connected", "away", "absent"}]
      /\ h.inPlay \in BOOLEAN /\ h.holders \subseteq Seat /\ h.closed \in BOOLEAN
      /\ h.excused \subseteq Seat
  BY SoundWhole, SoundParts, FineReady DEF Fine, Sound, GState
<1>a. Acceptable(h, s, kind)
  OBVIOUS
<1> HIDE DEF s
<1>1. CASE kind = "start"
  <2> DEFINE absent == {r \in Seat : h.presence[r] = "absent"}
  <2>1. x = [h EXCEPT !.inPlay = TRUE, !.holders = {}, !.excused = absent]
    BY <1>1 DEF Played
  <2>2. ~h.inPlay /\ ~h.closed /\ \A r \in Seat : h.tenant[r] # NoPlayer
    BY <1>1, <1>a DEF Acceptable
  <2>3. absent \subseteq Seat /\ \A r \in Seat : h.presence[r] = "absent" => r \in absent
    OBVIOUS
  <2> HIDE DEF absent, x
  <2>4. /\ x.seq = h.seq /\ x.latest = h.latest /\ x.log = h.log /\ x.conns = h.conns
        /\ x.sock = h.sock /\ x.presence = h.presence /\ x.tenant = h.tenant
        /\ x.withheld = h.withheld /\ x.inPlay = TRUE /\ x.holders = {}
        /\ x.closed = h.closed /\ x.excused = absent /\ Whole(x)
    BY <1>0, <2>1 DEF Whole
  <2>5. Calm(x, {})
    BY <1>0, <2>2, <2>3, <2>4 DEF Calm, Bound
  <2>6. Held(x, {})
    BY <2>3, <2>4 DEF Held
  <2> QED BY <1>0, <2>3, <2>4, <2>5, <2>6, GameChanges DEF x, s
<1>2. CASE kind = "conclude"
  <2>1. x = [h EXCEPT !.inPlay = FALSE, !.holders = {}, !.excused = {}]
    BY <1>2 DEF Played
  <2>2. h.inPlay
    BY <1>2, <1>a DEF Acceptable
  <2> HIDE DEF x
  <2>4. /\ x.seq = h.seq /\ x.latest = h.latest /\ x.log = h.log /\ x.conns = h.conns
        /\ x.sock = h.sock /\ x.presence = h.presence /\ x.tenant = h.tenant
        /\ x.withheld = h.withheld /\ x.inPlay = FALSE /\ x.holders = {}
        /\ x.closed = h.closed /\ x.excused = {} /\ Whole(x)
    BY <1>0, <2>1 DEF Whole
  <2>5. Calm(x, {}) /\ Held(x, {})
    BY <1>0, <2>2, <2>4 DEF Calm, Held
  <2> QED BY <1>0, <2>4, <2>5, GameChanges DEF x, s
<1>3. CASE kind = "close"
  <2>1. x = [h EXCEPT !.closed = TRUE]
    BY <1>3 DEF Played
  <2>2. ~h.inPlay
    BY <1>3, <1>a DEF Acceptable
  <2> HIDE DEF x
  <2>4. /\ x.seq = h.seq /\ x.latest = h.latest /\ x.log = h.log /\ x.conns = h.conns
        /\ x.sock = h.sock /\ x.presence = h.presence /\ x.tenant = h.tenant
        /\ x.withheld = h.withheld /\ x.inPlay = h.inPlay /\ x.holders = h.holders
        /\ x.closed = TRUE /\ x.excused = h.excused /\ Whole(x)
    BY <1>0, <2>1 DEF Whole
  <2>5. Calm(x, {}) /\ Held(x, {})
    BY <1>0, <2>2, <2>4 DEF Calm, Held
  <2> QED BY <1>0, <2>4, <2>5, GameChanges DEF x, s
<1>4. CASE kind = "pause"
  <2> DEFINE H == h.holders \cup {s}
  <2>1. x = [h EXCEPT !.holders = H]
    BY <1>4 DEF Played
  <2>3. H \subseteq Seat /\ h.holders \subseteq H
    BY <1>0
  <2> HIDE DEF x, H
  <2>4. /\ x.seq = h.seq /\ x.latest = h.latest /\ x.log = h.log /\ x.conns = h.conns
        /\ x.sock = h.sock /\ x.presence = h.presence /\ x.tenant = h.tenant
        /\ x.withheld = h.withheld /\ x.inPlay = h.inPlay /\ x.holders = H
        /\ x.closed = h.closed /\ x.excused = h.excused /\ Whole(x)
    BY <1>0, <2>1 DEF Whole
  <2>5. Calm(x, {})
    BY <1>0, <2>4 DEF Calm, Bound
  <2>6. Held(x, {})
    BY <1>0, <2>3, <2>4 DEF Held
  <2> QED BY <1>0, <2>3, <2>4, <2>5, <2>6, GameChanges DEF x, s
<1>5. CASE kind = "unpause"
  <2> DEFINE H == h.holders \ {s}
             E == IF h.conns[s] = k THEN h.excused ELSE h.excused \cup {s}
  <2>1. x = [h EXCEPT !.holders = H, !.excused = E]
    BY <1>5 DEF Played
  <2>2. h.inPlay
    BY <1>5, <1>a DEF Acceptable
  <2>3. /\ H \subseteq Seat /\ E \subseteq Seat /\ h.excused \subseteq E
        /\ \A r \in Seat \ {s} : r \in h.holders => r \in H
    BY <1>0
  <2>7. h.presence[s] = "absent" => s \in E
    <3>1. CASE h.conns[s] = k
      <4>1. s \in Bound(h)
        BY <1>0, <3>1, GatewayAssumption DEF Bound
      <4> QED BY <1>0, <2>2, <3>1, <4>1 DEF Calm
    <3>2. CASE h.conns[s] # k
      BY <3>2
    <3> QED BY <3>1, <3>2
  <2> HIDE DEF x, H, E
  <2>4. /\ x.seq = h.seq /\ x.latest = h.latest /\ x.log = h.log /\ x.conns = h.conns
        /\ x.sock = h.sock /\ x.presence = h.presence /\ x.tenant = h.tenant
        /\ x.withheld = h.withheld /\ x.inPlay = h.inPlay /\ x.holders = H
        /\ x.closed = h.closed /\ x.excused = E /\ Whole(x)
    BY <1>0, <2>1 DEF Whole
  <2>5. Calm(x, {})
    BY <1>0, <2>3, <2>4 DEF Calm, Bound
  <2>6. Held(x, {})
    BY <1>0, <2>2, <2>3, <2>4, <2>7 DEF Held
  <2> QED BY <1>0, <2>3, <2>4, <2>5, <2>6, GameChanges DEF x, s
<1>6. CASE kind \notin {"start", "conclude", "close", "pause", "unpause"}
  <2>1. x = h
    BY <1>6 DEF Played
  <2> QED BY <1>0, <2>1 DEF s
<1> QED BY <1>1, <1>2, <1>3, <1>4, <1>5, <1>6

\* A state that is ready for everybody is fine once it is broadcast and delivered.
LEMMA BroadcastDelivered ==
    ASSUME NEW h, NEW n \in Nat, Ready(h, {}, {})
    PROVE  Fine(Deliver(Broadcast(h, n))) /\ Sound(Broadcast(h, n))
<1> DEFINE y == Broadcast(h, n)
<1>1. Ready(y, {}, {})
  BY BroadcastKeeps DEF Ready
<1>2. Sound(y)
  BY <1>1 DEF Ready
<1> HIDE DEF y
<1>3. Sound(Deliver(y)) /\ Current(Deliver(y)) /\ Voice(Deliver(y), {})
      /\ Calm(Deliver(y), {}) /\ Held(Deliver(y), {})
  BY <1>1, <1>2, DeliverKeeps
<1> QED BY <1>2, <1>3 DEF Fine, y

\* A command that is applied or refused.
LEMMA CommandKeeps ==
    ASSUME NEW k \in Socket, NEW kind, NEW c, Fine(g), g.sock[k] # Idle,
           Accept(k, kind, c) \/ Refuse(k, kind, c)
    PROVE  Fine(g')
<1> DEFINE s == g.sock[k].seat
           x == Played(g, s, k, kind)
<1>1. CASE Accept(k, kind, c)
  <2>1. Acceptable(g, s, kind) /\ g' = Deliver(Broadcast(x, FramesOf(kind)))
    BY <1>1, Zenon DEF Accept
  <2>2. Ready(x, {}, {})
    BY <2>1, PlayedKeeps
  <2>3. FramesOf(kind) \in Nat
    BY DEF FramesOf
  <2> HIDE DEF x
  <2> QED BY <2>1, <2>2, <2>3, BroadcastDelivered
<1>2. CASE Refuse(k, kind, c)
  <2>1. g' = Refused(g, s) /\ s \in Seat
    BY <1>2, SoundParts DEF Refuse, Fine
  <2> QED BY <2>1, RefusedKeeps
<1> QED BY <1>1, <1>2

\* The table closed, whatever goes on at it.
LEMMA ShutKeeps ==
    ASSUME NEW h, NEW V, Sound(h), Caught(h), Voice(h, V)
    PROVE  Ready(Shut(h), {}, V) /\ Shut(h).conns = h.conns
<1> DEFINE x == [h EXCEPT !.closed = TRUE, !.inPlay = FALSE, !.holders = {}, !.excused = {}]
<1>0. Whole(h) /\ /\ h.presence \in [Seat -> {"connected", "away", "absent"}]
                  /\ h.tenant \in [Seat -> Player \cup {NoPlayer}]
  BY SoundWhole DEF Sound, GState
<1>1. /\ x.seq = h.seq /\ x.latest = h.latest /\ x.log = h.log /\ x.conns = h.conns
      /\ x.sock = h.sock /\ x.presence = h.presence /\ x.tenant = h.tenant
      /\ x.withheld = h.withheld /\ x.inPlay = FALSE /\ x.holders = {}
      /\ x.closed = TRUE /\ x.excused = {} /\ Whole(x)
  <2>1. x = [h EXCEPT !.closed = TRUE, !.inPlay = FALSE, !.holders = {}, !.excused = {}]
    OBVIOUS
  <2> HIDE DEF x
  <2> QED BY <1>0, <2>1 DEF Whole
<1>2. Shut(h) = Broadcast(x, 1)
  BY DEF Shut
<1> HIDE DEF x
<1>3. Sound(x) /\ Caught(x)
  BY <1>0, <1>1, TableChanges
<1>4. Voice(x, V) /\ Calm(x, {}) /\ Held(x, {})
  BY <1>1 DEF Voice, Calm, Held
<1>5. Ready(x, {}, V)
  BY <1>3, <1>4 DEF Ready
<1>6. Ready(Broadcast(x, 1), {}, V) /\ Alike(x, Broadcast(x, 1))
  BY <1>3, <1>5, BroadcastKeeps
<1> QED BY <1>1, <1>2, <1>6 DEF Alike

\* A seat with another occupant, or none, while no game is in play.
LEMMA SeatChanges ==
    ASSUME NEW h, NEW s \in Seat, NEW p \in Player \cup {NoPlayer}, NEW V, Fine(h), ~h.inPlay,
           h.tenant[s] = NoPlayer \/ s \in V
    PROVE  LET x == Broadcast([h EXCEPT !.tenant[s] = p, !.presence[s] = "absent"], 1)
           IN  Ready(x, {}, V) /\ x.conns = h.conns
<1> DEFINE x == [h EXCEPT !.tenant[s] = p, !.presence[s] = "absent"]
           tenants == [h.tenant EXCEPT ![s] = p]
           marks == [h.presence EXCEPT ![s] = "absent"]
<1>0. /\ Sound(h) /\ Caught(h) /\ Voice(h, {}) /\ Calm(h, {}) /\ Whole(h)
      /\ h.presence \in [Seat -> {"connected", "away", "absent"}]
      /\ h.tenant \in [Seat -> Player \cup {NoPlayer}]
      /\ h.holders \subseteq Seat /\ h.closed \in BOOLEAN /\ h.excused \subseteq Seat
      /\ h.inPlay \in BOOLEAN
  BY SoundWhole, FineReady DEF Fine, Ready, Sound, GState
<1>1. /\ x.seq = h.seq /\ x.latest = h.latest /\ x.log = h.log /\ x.conns = h.conns
      /\ x.sock = h.sock /\ x.presence = marks /\ x.tenant = tenants
      /\ x.withheld = h.withheld /\ x.inPlay = h.inPlay /\ x.holders = h.holders
      /\ x.closed = h.closed /\ x.excused = h.excused /\ Whole(x)
  <2>1. x = [h EXCEPT !.tenant = tenants, !.presence = marks]
    OBVIOUS
  <2> HIDE DEF x, tenants, marks
  <2>2. x.presence = marks /\ x.tenant = tenants /\ Whole(x)
    BY <1>0, <2>1 DEF Whole
  <2>3. /\ x.seq = h.seq /\ x.latest = h.latest /\ x.log = h.log /\ x.conns = h.conns
        /\ x.sock = h.sock
        /\ x.withheld = h.withheld /\ x.inPlay = h.inPlay /\ x.holders = h.holders
        /\ x.closed = h.closed /\ x.excused = h.excused
    BY <1>0, <2>1 DEF Whole
  <2> QED BY <2>2, <2>3
<1> HIDE DEF x
<1>2. /\ marks \in [Seat -> {"connected", "away", "absent"}]
      /\ tenants \in [Seat -> Player \cup {NoPlayer}]
      /\ tenants[s] = p /\ \A r \in Seat \ {s} : tenants[r] = h.tenant[r]
  BY <1>0
<1> HIDE DEF marks, tenants
<1>3. Sound(x) /\ Caught(x)
  BY <1>0, <1>1, <1>2, TableChanges
<1>4. Voice(x, V)
  <2> SUFFICES ASSUME NEW j \in Socket, h.sock[j] # Idle
               PROVE  IF h.conns[h.sock[j].seat] = j
                      THEN \/ h.sock[j].seat \in V \/ x.tenant[h.sock[j].seat] = h.sock[j].player
                           \/ h.sock[j].late
                      ELSE h.sock[j].closing
    BY <1>1 DEF Voice
  <2>1. /\ h.sock[j].seat \in Seat /\ h.sock[j].player \in Player /\ NoPlayer \notin Player
    BY <1>0, SoundParts, GatewayAssumption
  <2>2. IF h.conns[h.sock[j].seat] = j
        THEN h.tenant[h.sock[j].seat] = h.sock[j].player \/ h.sock[j].late
        ELSE h.sock[j].closing
    BY <1>0 DEF Voice
  <2>3. CASE h.sock[j].seat = s
    BY <2>1, <2>2, <2>3
  <2>4. CASE h.sock[j].seat # s
    BY <1>1, <1>2, <2>1, <2>2, <2>4
  <2> QED BY <2>3, <2>4
<1>5. Calm(x, {}) /\ Held(x, {})
  BY <1>0, <1>1 DEF Calm, Held
<1>6. Ready(x, {}, V)
  BY <1>3, <1>4, <1>5 DEF Ready
<1>7. Ready(Broadcast(x, 1), {}, V) /\ Alike(x, Broadcast(x, 1))
  BY <1>3, <1>6, BroadcastKeeps
<1>8. Ready(Broadcast(x, 1), {}, V) /\ Broadcast(x, 1).conns = h.conns
  BY <1>1, <1>7 DEF Alike
<1> QED BY <1>8 DEF x

\* A seat vacated.
LEMMA VacateKeeps ==
    ASSUME NEW s \in Seat, Fine(g), Vacate(s)
    PROVE  Fine(g')
<1> DEFINE left == Broadcast([g EXCEPT !.tenant[s] = NoPlayer, !.presence[s] = "absent"], 1)
           y == Vacated(g, s)
           z == Deliver(y)
<1>1. ~g.inPlay /\ g' = [Closing(z, g.conns[s]) EXCEPT !.conns[s] = NoSocket]
  BY Zenon DEF Vacate
<1>2. y = IF \A r \in Seat : left.tenant[r] = NoPlayer THEN Shut(left) ELSE left
  BY Zenon DEF Vacated
<1>3. Ready(left, {}, {s}) /\ left.conns = g.conns
  BY <1>1, SeatChanges
<1> HIDE DEF left, y
<1>4. Ready(Shut(left), {}, {s}) /\ Shut(left).conns = left.conns
  BY <1>3, ShutKeeps DEF Ready
<1>5. Ready(y, {}, {s}) /\ y.conns = g.conns
  BY <1>2, <1>3, <1>4
<1>6. Sound(y)
  BY <1>5 DEF Ready
<1>7. /\ Sound(z) /\ Current(z) /\ Voice(z, {s}) /\ Calm(z, {}) /\ Held(z, {}) /\ z.conns = g.conns
  BY <1>5, <1>6, DeliverKeeps DEF Alike
<1> HIDE DEF z
<1>8. Fine([Closing(z, z.conns[s]) EXCEPT !.conns[s] = NoSocket])
  BY <1>7, UnboundKeeps
<1> QED BY <1>1, <1>7, <1>8

\* A seat taken.
LEMMA OccupyKeeps ==
    ASSUME NEW s \in Seat, NEW p \in active, Fine(g), Known, Occupy(s, p)
    PROVE  Fine(g')
<1> DEFINE y == Broadcast([g EXCEPT !.tenant[s] = p, !.presence[s] = "absent"], 1)
<1>1. g.tenant[s] = NoPlayer /\ g' = Deliver(y)
  BY Zenon DEF Occupy
<1>2. ~g.inPlay
  BY <1>1 DEF Fine, Calm
<1>3. p \in Player \cup {NoPlayer}
  BY DEF Known
<1>4. Ready(y, {}, {})
  BY <1>1, <1>2, <1>3, SeatChanges
<1>5. Sound(y)
  BY <1>4 DEF Ready
<1> HIDE DEF y
<1>6. Fine(Deliver(y))
  BY <1>4, <1>5, DeliverKeeps DEF Fine
<1> QED BY <1>1, <1>6

\* The table closed, by its host over REST or by an administrator.
LEMMA CloseKeeps ==
    ASSUME Fine(g), RestClose \/ ForceClose
    PROVE  Fine(g')
<1>1. /\ Sound(g) /\ Caught(g) /\ Voice(g, {}) /\ Calm(g, {}) /\ Whole(g)
      /\ g.presence \in [Seat -> {"connected", "away", "absent"}]
      /\ g.tenant \in [Seat -> Player \cup {NoPlayer}]
      /\ g.holders \subseteq Seat /\ g.inPlay \in BOOLEAN /\ g.excused \subseteq Seat
  BY SoundWhole, FineReady DEF Fine, Ready, Sound, GState
<1>2. CASE RestClose
  <2> DEFINE x == [g EXCEPT !.closed = TRUE, !.withheld = TRUE]
             y == Broadcast(x, 1)
  <2>1. ~g.inPlay /\ g' = y
    BY <1>2 DEF RestClose
  <2>2. /\ x.seq = g.seq /\ x.latest = g.latest /\ x.log = g.log /\ x.conns = g.conns
        /\ x.sock = g.sock /\ x.presence = g.presence /\ x.tenant = g.tenant
        /\ x.withheld = TRUE /\ x.inPlay = g.inPlay /\ x.holders = g.holders
        /\ x.closed = TRUE /\ x.excused = g.excused /\ Whole(x)
    <3>1. x = [g EXCEPT !.closed = TRUE, !.withheld = TRUE]
      OBVIOUS
    <3> HIDE DEF x
    <3> QED BY <1>1, <3>1 DEF Whole
  <2> HIDE DEF x
  <2>3. Sound(x) /\ Caught(x)
    BY <1>1, <2>2, TableChanges
  <2>4. Voice(x, {}) /\ Calm(x, {}) /\ Held(x, {})
    BY <1>1, <2>1, <2>2 DEF Voice, Calm, Held
  <2>5. Ready(y, {}, {}) /\ Alike(x, y)
    BY <2>3, <2>4, BroadcastKeeps DEF Ready
  <2> HIDE DEF y
  <2>6. Current(y)
    BY <2>2, <2>5 DEF Alike, Current
  <2> QED BY <2>1, <2>5, <2>6 DEF Ready, Fine
<1>3. CASE ForceClose
  <2>1. g' = Deliver(Shut(g))
    BY <1>3 DEF ForceClose
  <2>2. Ready(Shut(g), {}, {})
    BY <1>1, ShutKeeps
  <2>3. Sound(Shut(g))
    BY <2>2 DEF Ready
  <2>4. Fine(Deliver(Shut(g)))
    BY <2>2, <2>3, DeliverKeeps DEF Fine
  <2> QED BY <2>1, <2>4
<1> QED BY <1>2, <1>3

\* A connection found to be of a session that is over.
LEMMA PollKeeps ==
    ASSUME NEW s \in Seat, NEW k \in Socket, Fine(g), PollAct(s, k)
    PROVE  Fine(g')
<1>1. CASE g.conns[s] = k
  <2>1. g' = [Closing(g, g.conns[s]) EXCEPT !.conns[s] = NoSocket]
    BY <1>1 DEF PollAct
  <2>2. Ready(g, {}, {s}) /\ Current(g)
    BY FineReady DEF Fine
  <2>3. Sound(g) /\ Current(g) /\ Voice(g, {s}) /\ Calm(g, {}) /\ Held(g, {})
    BY <2>2 DEF Ready
  <2> QED BY <2>1, <2>3, UnboundKeeps
<1>2. CASE g.conns[s] # k
  BY <1>2 DEF PollAct
<1> QED BY <1>1, <1>2

-----------------------------------------------------------------------------
(* Receipts, tickets and decisions. *)

\* A receipt is of a seat, and replaces no receipt by none.
LEMMA RecordedKeeps ==
    ASSUME NEW c, NEW s \in Seat, NEW q \in Nat, Counted, Recorded(c, s, q)
    PROVE  /\ frames' \in [CmdId -> [seat : Seat \cup {0}, seq : Nat]]
           /\ \A d \in CmdId : (frames[d] # NoFrame \/ d = c) => frames'[d] # NoFrame
<1> DEFINE frame == [seat |-> s, seq |-> q]
<1>1. frames \in [CmdId -> [seat : Seat \cup {0}, seq : Nat]]
  BY DEF Counted
<1>2. frames' = IF c \in CmdId THEN [frames EXCEPT ![c] = frame] ELSE frames
  BY DEF Recorded
<1>3. frame \in [seat : Seat \cup {0}, seq : Nat]
  OBVIOUS
<1>4. frame # NoFrame
  <2>1. frame.seat # 0 /\ NoFrame.seat = 0
    BY GatewayAssumption DEF Seat, NoFrame
  <2> QED BY <2>1
<1> HIDE DEF frame
<1> QED BY <1>1, <1>2, <1>3, <1>4

\* What is only recorded.
LEMMA RecordedCounted ==
    ASSUME NEW c, NEW s \in Seat, NEW q \in Nat, Counted, Recorded(c, s, q), applied' = applied
    PROVE  Counted'
BY RecordedKeeps DEF Counted

\* A command with an identifier is applied only if it has no receipt, and then has one.
LEMMA AppliedCounted ==
    ASSUME NEW k \in Socket, NEW kind, NEW c, NEW q \in Nat, NEW s \in Seat,
           Counted, Admit(k, kind, c), Recorded(c, s, q),
           applied' = IF c \in CmdId THEN [applied EXCEPT ![c] = @ + 1] ELSE applied
    PROVE  Counted'
<1>1. /\ frames' \in [CmdId -> [seat : Seat \cup {0}, seq : Nat]]
      /\ \A d \in CmdId : (frames[d] # NoFrame \/ d = c) => frames'[d] # NoFrame
  BY RecordedKeeps
<1>2. /\ applied \in [CmdId -> Nat]
      /\ \A d \in CmdId : applied[d] <= 1 /\ (applied[d] = 1 => frames[d] # NoFrame)
  BY DEF Counted
<1>3. CASE c \in CmdId
  <2>1. applied[c] = 0
    BY <1>2, <1>3 DEF Admit
  <2>2. applied' = [applied EXCEPT ![c] = 1]
    BY <1>2, <1>3, <2>1
  <2> QED BY <1>1, <1>2, <1>3, <2>2 DEF Counted
<1>4. CASE c \notin CmdId
  BY <1>1, <1>2, <1>4 DEF Counted
<1> QED BY <1>3, <1>4

\* A sensitive decision is made on the view of everything that is public.
LEMMA DecisionInformed ==
    ASSUME NEW k \in Socket, NEW kind, NEW c, Fine(g), g.sock[k] # Idle, informed,
           Accept(k, kind, c)
    PROVE  informed'
<1>1. /\ informed' = (informed /\ (Sensitive(kind) /\ ~g.sock[k].closing =>
                                    g.sock[k].shown >= g.latest))
      /\ Acceptable(g, g.sock[k].seat, kind) /\ g.sock[k].phase = "ready"
  BY DEF Accept, Admit
<1>2. ASSUME Sensitive(kind), ~g.sock[k].closing PROVE g.sock[k].shown >= g.latest
  <2>1. g.sock[k].shown >= g.latest \/ g.withheld
    BY <1>1, <1>2, Listener DEF Listens
  <2>2. g.inPlay
    BY <1>1, <1>2 DEF Acceptable, Sensitive
  <2>3. ~g.withheld
    BY <2>2 DEF Fine, Calm
  <2> QED BY <2>1, <2>3
<1> QED BY <1>1, <1>2

-----------------------------------------------------------------------------
(* The invariant holds. *)

\* It holds at the start.
LEMMA InitGateway == Init => GatewayInv
<1> SUFFICES ASSUME Init PROVE GatewayInv
  OBVIOUS
<1>1. /\ g.seq = 0 /\ g.latest = 0 /\ g.log = [s \in Seat |-> <<>>]
      /\ g.conns = [s \in Seat |-> NoSocket] /\ g.sock = [k \in Socket |-> Idle]
      /\ g.presence = [s \in Seat |-> "absent"] /\ g.tenant = Owner
      /\ g.inPlay = FALSE /\ g.holders = {} /\ g.closed = FALSE /\ g.withheld = FALSE
      /\ g.excused = {} /\ Whole(g)
  BY DEF Init, Whole
<1>2. Bound(g) = {} /\ \A k \in Socket : g.sock[k] = Idle
  BY <1>1 DEF Bound
<1>3. g \in GState
  <2>1. /\ g.log \in [Seat -> Seq(Nat)]
        /\ g.conns \in [Seat -> Socket \cup {NoSocket}]
        /\ g.sock \in [Socket -> Connection \cup {Idle}]
        /\ g.presence \in [Seat -> {"connected", "away", "absent"}]
        /\ g.tenant \in [Seat -> Player \cup {NoPlayer}]
    <3>1. g.log \in [Seat -> Seq(Nat)]
      <4>1. <<>> \in Seq(Nat)
        OBVIOUS
      <4> QED BY <1>1, <4>1
    <3>2. g.sock \in [Socket -> Connection \cup {Idle}]
      BY <1>1
    <3>3. /\ g.conns \in [Seat -> Socket \cup {NoSocket}]
          /\ g.presence \in [Seat -> {"connected", "away", "absent"}]
      BY <1>1
    <3>4. g.tenant \in [Seat -> Player \cup {NoPlayer}]
      BY <1>1, GatewayAssumption
    <3> QED BY <3>1, <3>2, <3>3, <3>4
  <2>2. /\ g.seq \in Nat /\ g.latest \in Nat /\ g.inPlay \in BOOLEAN /\ g.closed \in BOOLEAN
        /\ g.withheld \in BOOLEAN /\ g.holders \in SUBSET Seat /\ g.excused \in SUBSET Seat
    <3>1. g.inPlay = FALSE /\ g.closed = FALSE /\ g.withheld = FALSE
      BY <1>1, Zenon
    <3>2. g.seq = 0 /\ g.latest = 0 /\ g.holders = {} /\ g.excused = {}
      BY <1>1, Zenon
    <3>3. g.inPlay \in BOOLEAN /\ g.closed \in BOOLEAN /\ g.withheld \in BOOLEAN
      BY <3>1, Zenon
    <3>4. g.seq \in Nat /\ g.latest \in Nat
      BY <3>2
    <3>5. g.holders \in SUBSET Seat /\ g.excused \in SUBSET Seat
      BY <3>2, Zenon
    <3> QED BY <3>3, <3>4, <3>5, Zenon
  <2>3. Whole(g)
    BY <1>1
  <2> QED BY <2>1, <2>2, <2>3 DEF GState, Whole
<1>4. \A s \in Seat : Tells(g.log[s], g.latest)
  BY <1>1, GatewayAssumption DEF Tells
<1>5. Sound(g)
  BY <1>1, <1>2, <1>3, <1>4 DEF Sound
<1>6. Current(g) /\ Voice(g, {}) /\ Calm(g, {}) /\ Held(g, {})
  BY <1>1, <1>2 DEF Current, Voice, Calm, Held
<1>7. Counted
  <2>1. NoFrame \in [seat : Seat \cup {0}, seq : Nat]
    BY DEF NoFrame
  <2> HIDE DEF NoFrame
  <2> QED BY <2>1 DEF Init, Counted
<1>8. Known /\ informed
  BY DEF Init, Known
<1> QED BY <1>5, <1>6, <1>7, <1>8 DEF Fine, GatewayInv

\* A frame that arrives.
LEMMA FrameKeeps ==
    ASSUME NEW k \in Socket, GatewayInv, g.sock[k] # Idle, Frame(k)
    PROVE  GatewayInv'
<1>0. /\ Fine(g) /\ Counted /\ Known /\ informed /\ g.sock[k].seat \in Seat /\ 0 \in Nat
  BY SoundParts DEF GatewayInv, Fine
<1>1. Known'
  <2>1. UNCHANGED <<tickets, active>>
    BY DEF Frame, Throttle, Malformed, Resume, Accept, Refuse, RefuseStale, Talking
  <2> QED BY <1>0, <2>1 DEF Known
<1>2. ASSUME NEW c, Throttle(k, c) \/ Malformed(k, c) PROVE GatewayInv'
  <2>1. Recorded(c, g.sock[k].seat, 0) /\ UNCHANGED <<g, applied, informed>>
    BY <1>2 DEF Throttle, Malformed
  <2> QED BY <1>0, <1>1, <2>1, RecordedCounted DEF GatewayInv
<1>3. ASSUME NEW last \in ResumesFrom(g.sock[k]), Resume(k, last) PROVE GatewayInv'
  <2>1. UNCHANGED <<frames, applied, informed>>
    BY <1>3 DEF Resume, Silent
  <2>2. Counted'
    BY <1>0, <2>1 DEF Counted
  <2>3. Fine(g')
    BY <1>0, <1>3, OneSockKeeps
  <2> QED BY <1>0, <1>1, <2>1, <2>2, <2>3 DEF GatewayInv
<1>4. ASSUME NEW kind, NEW c, Accept(k, kind, c) PROVE GatewayInv'
  <2>1. Fine(g')
    BY <1>0, <1>4, CommandKeeps
  <2>2. g'.seq \in Nat
    BY <2>1, SoundParts DEF Fine
  <2>3. /\ Admit(k, kind, c) /\ Recorded(c, g.sock[k].seat, g'.seq)
        /\ applied' = IF c \in CmdId THEN [applied EXCEPT ![c] = @ + 1] ELSE applied
    BY <1>4, Zenon DEF Accept
  <2>4. Counted'
    BY <1>0, <2>2, <2>3, AppliedCounted
  <2>5. informed'
    BY <1>0, <1>4, DecisionInformed
  <2> QED BY <1>1, <2>1, <2>4, <2>5 DEF GatewayInv
<1>5. ASSUME NEW kind, NEW c, Refuse(k, kind, c) PROVE GatewayInv'
  <2>1. Fine(g')
    BY <1>0, <1>5, CommandKeeps
  <2>2. Recorded(c, g.sock[k].seat, 0) /\ UNCHANGED <<applied, informed>>
    BY <1>5 DEF Refuse
  <2>3. Counted'
    BY <1>0, <2>2, RecordedCounted
  <2> QED BY <1>0, <1>1, <2>1, <2>2, <2>3 DEF GatewayInv
<1>6. ASSUME NEW kind, NEW c, RefuseStale(k, kind, c) PROVE GatewayInv'
  <2>1. Recorded(c, g.sock[k].seat, 0) /\ UNCHANGED <<g, applied, informed>>
    BY <1>6 DEF RefuseStale
  <2> QED BY <1>0, <1>1, <2>1, RecordedCounted DEF GatewayInv
<1> QED BY <1>2, <1>3, <1>4, <1>5, <1>6 DEF Frame

\* What leaves receipts and decisions alone keeps the invariant if the wire state
\* and the tickets are in order.
LEMMA SilentKeeps ==
    ASSUME GatewayInv, Silent, Fine(g'), Known'
    PROVE  GatewayInv'
BY DEF GatewayInv, Silent, Counted

\* Every step keeps it.
LEMMA NextGateway == GatewayInv /\ [Next]_vars => GatewayInv'
<1> SUFFICES ASSUME GatewayInv, [Next]_vars PROVE GatewayInv'
  OBVIOUS
<1>0. Fine(g) /\ Counted /\ Known /\ informed
  BY DEF GatewayInv
<1>1. CASE UNCHANGED vars
  BY <1>0, <1>1 DEF vars, GatewayInv, Counted, Known
<1>2. ASSUME NEW k \in Socket, g.sock[k] # Idle, OnClose(k) PROVE GatewayInv'
  <2>1. g' = Gone(g, k) /\ Silent /\ UNCHANGED <<tickets, active>>
    BY <1>2 DEF OnClose, Talking
  <2>2. Fine(g') /\ Known'
    BY <1>0, <1>2, <2>1, GoneKeeps DEF Known
  <2> QED BY <2>1, <2>2, SilentKeeps
<1>3. ASSUME NEW k \in Socket, g.sock[k] # Idle, Miss(k) PROVE GatewayInv'
  <2>1. Silent /\ UNCHANGED <<tickets, active>>
    BY <1>3 DEF Miss, Talking
  <2>2. Fine(g') /\ Known'
    BY <1>0, <1>3, <2>1, MissKeeps DEF Known
  <2> QED BY <2>1, <2>2, SilentKeeps
<1>4. ASSUME NEW k \in Socket, g.sock[k] # Idle, Pong(k) \/ CloseSocket(k) PROVE GatewayInv'
  <2>1. Silent /\ UNCHANGED <<tickets, active>>
    BY <1>4 DEF Pong, CloseSocket, Talking
  <2>2. Fine(g') /\ Known'
    BY <1>0, <1>4, <2>1, OneSockKeeps DEF Known
  <2> QED BY <2>1, <2>2, SilentKeeps
<1>5. ASSUME NEW k \in Socket, NEW t \in tickets, Bind(k, t) PROVE GatewayInv'
  <2>1. Silent /\ tickets' = tickets \ {t} /\ active' = active
    BY <1>5, Zenon DEF Bind
  <2>2. Fine(g') /\ Known'
    BY <1>0, <1>5, <2>1, BindKeeps DEF Known
  <2> QED BY <2>1, <2>2, SilentKeeps
<1>6. ASSUME NEW t \in tickets, Expire(t) PROVE GatewayInv'
  <2>1. Fine(g') /\ Known' /\ Silent
    BY <1>0, <1>6 DEF Known, Expire
  <2> QED BY <2>1, SilentKeeps
<1>7. ASSUME NEW s \in Seat, Issue(s) PROVE GatewayInv'
  <2>1. Fine(g') /\ Known' /\ Silent
    BY <1>0, <1>7 DEF Known, Issue
  <2> QED BY <2>1, SilentKeeps
<1>8. ASSUME NEW s \in Seat, Vacate(s) PROVE GatewayInv'
  <2>1. Silent /\ UNCHANGED <<tickets, active>>
    BY <1>8 DEF Vacate, Talking
  <2>2. Fine(g') /\ Known'
    BY <1>0, <1>8, <2>1, VacateKeeps DEF Known
  <2> QED BY <2>1, <2>2, SilentKeeps
<1>9. ASSUME NEW s \in Seat, NEW p \in active, Occupy(s, p) PROVE GatewayInv'
  <2>1. Silent /\ UNCHANGED <<tickets, active>>
    BY <1>9 DEF Occupy, Talking
  <2>2. Fine(g') /\ Known'
    BY <1>0, <1>9, <2>1, OccupyKeeps DEF Known
  <2> QED BY <2>1, <2>2, SilentKeeps
<1>10. CASE RestClose \/ ForceClose
  <2>1. Silent /\ UNCHANGED <<tickets, active>>
    BY <1>10 DEF RestClose, ForceClose, Talking
  <2>2. Fine(g') /\ Known'
    BY <1>0, <1>10, <2>1, CloseKeeps DEF Known
  <2> QED BY <2>1, <2>2, SilentKeeps
<1>11. CASE PollStart
  <2>1. Fine(g') /\ Known' /\ Silent
    BY <1>0, <1>11 DEF Known, PollStart
  <2> QED BY <2>1, SilentKeeps
<1>12. ASSUME NEW s \in Seat, NEW k \in Socket, PollAsk(s, k) PROVE GatewayInv'
  <2>1. Fine(g') /\ Known' /\ Silent
    BY <1>0, <1>12 DEF Known, PollAsk
  <2> QED BY <2>1, SilentKeeps
<1>13. ASSUME NEW s \in Seat, NEW k \in Socket, PollAct(s, k) PROVE GatewayInv'
  <2>1. Silent /\ UNCHANGED <<tickets, active>>
    BY <1>13 DEF PollAct
  <2>2. Fine(g') /\ Known'
    BY <1>0, <1>13, <2>1, PollKeeps DEF Known
  <2> QED BY <2>1, <2>2, SilentKeeps
<1>14. ASSUME NEW p \in active, EndSession(p) PROVE GatewayInv'
  <2>1. Fine(g') /\ Known' /\ Silent
    BY <1>0, <1>14 DEF Known, EndSession
  <2> QED BY <2>1, SilentKeeps
<1>15. ASSUME NEW k \in Socket, g.sock[k] # Idle, Frame(k) PROVE GatewayInv'
  BY <1>15, FrameKeeps
<1> QED BY <1>1, <1>2, <1>3, <1>4, <1>5, <1>6, <1>7, <1>8, <1>9, <1>10, <1>11, <1>12, <1>13,
           <1>14, <1>15, Zenon DEF Next, Poll

-----------------------------------------------------------------------------
(* Theorems. *)

\* The invariant holds, in every behaviour of the gateway.
THEOREM GatewayInvariant == Spec => []GatewayInv
<1>1. Init => GatewayInv
  BY InitGateway
<1>2. GatewayInv /\ [Next]_vars => GatewayInv'
  BY NextGateway
<1> QED BY <1>1, <1>2, PTL DEF Spec

\* Types, the bound of the logs, and a map whose connections are their seats'.
THEOREM TypeCorrect == Spec => []GatewayTypeOK
<1>1. GatewayInv => GatewayTypeOK
  <2> SUFFICES ASSUME GatewayInv PROVE GatewayTypeOK
    OBVIOUS
  <2>1. Sound(g) /\ g \in GState /\ g.latest \in 0 .. g.seq
    BY SoundParts DEF GatewayInv, Fine, Sound
  <2>2. ASSUME NEW s \in Seat PROVE g.log[s] \in Seq(0 .. g.seq) /\ Len(g.log[s]) <= Backlog
    <3>1. g.log[s] \in Seq(Nat) /\ Tells(g.log[s], g.latest) /\ g.seq \in Nat /\ g.latest <= g.seq
          /\ g.latest \in Nat
      BY <2>1, SoundParts
    <3>2. \A i \in DOMAIN g.log[s] : g.log[s][i] \in 0 .. g.seq
      BY <3>1 DEF Tells
    <3>3. g.log[s] \in Seq(0 .. g.seq)
      <4> DEFINE l == g.log[s]
                 S == 0 .. g.seq
      <4>1. l \in Seq(Nat) /\ \A i \in DOMAIN l : l[i] \in S
        BY <3>1, <3>2
      <4> HIDE DEF l, S
      <4>2. l \in Seq(S)
        BY <4>1
      <4> QED BY <4>2 DEF l, S
    <3> QED BY <3>1, <3>3 DEF Tells
  <2>3. /\ g.conns \in [Seat -> Socket \cup {NoSocket}]
        /\ \A k \in Socket : g.sock[k] \in Connection \cup {Idle}
        /\ g.presence \in [Seat -> {"connected", "away", "absent"}]
        /\ g.tenant \in [Seat -> Player \cup {NoPlayer}] /\ g.holders \subseteq Seat
        /\ g.seq \in Nat
    BY <2>1 DEF GState
  <2>4. \A s \in Bound(g) : g.sock[g.conns[s]] # Idle /\ g.sock[g.conns[s]].seat = s
    BY <2>1, SoundParts
  <2> QED BY <2>1, <2>2, <2>3, <2>4 DEF GatewayTypeOK
<1> QED BY <1>1, GatewayInvariant, PTL

\* However a command is repeated, and whatever becomes of its receipts, it is
\* applied at most once.
THEOREM AppliedAtMostOnce == Spec => []AppliedOnce
<1>1. GatewayInv => AppliedOnce
  BY DEF GatewayInv, Counted, AppliedOnce
<1> QED BY <1>1, GatewayInvariant, PTL

\* The staleness check is enough: no sensitive decision of a player is applied
\* before he has been shown everything that is public.
THEOREM DecisionsInformed == Spec => []DecidedOnShown
<1>1. GatewayInv => DecidedOnShown
  BY DEF GatewayInv, DecidedOnShown
<1> QED BY <1>1, GatewayInvariant, PTL

\* Who has resumed is shown everything that is public, however many connections
\* there are, however deep the backlog and whatever was trimmed from it.
THEOREM EverybodyShown == Spec => []ShownUpToDate
<1>1. GatewayInv => ShownUpToDate
  BY DEF GatewayInv, Fine, Current, Listens, ShownUpToDate
<1> QED BY <1>1, GatewayInvariant, PTL

\* Absence pauses.
THEOREM AbsenceHolds == Spec => []AbsentSeatHolds
<1>1. GatewayInv => AbsentSeatHolds
  BY DEF GatewayInv, Fine, Held, AbsentSeatHolds
<1> QED BY <1>1, GatewayInvariant, PTL

\* A seat speaks with one voice, and it is its occupant's.
THEOREM OneVoice == Spec => []OneVoicePerSeat
<1>1. GatewayInv => OneVoicePerSeat
  <2> SUFFICES ASSUME Voice(g, {}), NEW k \in Socket, g.sock[k] # Idle
               PROVE  IF g.conns[g.sock[k].seat] = k
                      THEN g.tenant[g.sock[k].seat] = g.sock[k].player \/ g.sock[k].late
                      ELSE g.sock[k].closing
    BY DEF GatewayInv, Fine, OneVoicePerSeat
  <2> QED BY DEF Voice
<1> QED BY <1>1, GatewayInvariant, PTL
=============================================================================
