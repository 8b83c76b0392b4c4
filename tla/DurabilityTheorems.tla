------------------------- MODULE DurabilityTheorems -------------------------
(***************************************************************************)
(* Checkpoints and restarts for every set of retransmitted commands, every *)
(* retention and number of games, commands, writes in flight and restarts, *)
(* whatever the order in which the writes land and whichever of them fail: *)
(* the rows tell the past of the game, a command stands once in what       *)
(* survives, and a restart brings back only what was lived.                *)
(***************************************************************************)
EXTENDS Durability, SequenceTheorems, FiniteSetTheorems, WellFoundedInduction, TLAPS

\* What has been written, and what is about to be.
Snap == [game : Game, path : Path, receipts : SUBSET CmdId]
StartWrite == [op : {"start"}, game : Game, path : Path]
RecordWrite == [op : {"record"}, game : Game, snap : Snap, chain : Path]
WindowWrite == [op : {"window"}, game : Game, path : Path]
PurgeOps == {"conclude", "delete", "deletewindow", "purge"}
PurgeWrite == [op : PurgeOps, game : Game, turn : {1, 2}]
Write == StartWrite \cup RecordWrite \cup WindowWrite \cup PurgeWrite

\* The length of a window is that of a sequence.
Window(w) == w \in Seq({w[i] : i \in DOMAIN w})

\* Every variable has its type.
Typed ==
    /\ up \in {"up", "stopping", "down"} /\ begun \in 0 .. MaxGames /\ moments \in Nat
    /\ actor = [id |-> actor.id, game |-> actor.game, path |-> actor.path,
                receipts |-> actor.receipts, window |-> actor.window]
    /\ actor.path \in Path /\ actor.receipts \subseteq CmdId /\ Window(actor.window)
    /\ games \in [Game -> {"none", "in_play", "concluded", "purged"}]
    /\ saved \in [Game -> Snap \cup {Nothing}] /\ kept \in [Game -> SUBSET Path]
    /\ flight \subseteq Write /\ lived \subseteq [game : Game, path : Path]

\* Games and moments are numbered in the order in which they come.
Numbered ==
    /\ actor.id \in {NoGame, actor.game} /\ actor.game \in 0 .. begun
    /\ actor.path = <<>> <=> actor.game = NoGame
    /\ \A w \in flight : w.game <= begun /\ (w.op = "record" => w.snap.game = w.game)
    /\ \A g \in Game : /\ games[g] # "none" => g <= begun
                       /\ saved[g] # Nothing => g <= begun /\ saved[g].game = g
    /\ \A m \in lived : m.game <= begun /\ \A i \in DOMAIN m.path : m.path[i][1] <= moments

\* A snapshot is saved, or being saved.
Snaps == ({saved[g] : g \in Game} \ {Nothing})
           \cup {w.snap : w \in {v \in flight : v.op = "record"}}

\* The commands of a path.
Cmds(path) == {path[i][2] : i \in DOMAIN path}

\* What receipts say of a path: they are of its retransmitted commands, none of
\* which is in it twice.
Tells(path, receipts) ==
    /\ receipts = CmdId \cap Cmds(path)
    /\ \A i, j \in DOMAIN path : i # j /\ path[i][2] \in CmdId => path[i][2] # path[j][2]

\* The actor and every snapshot are of moments that were lived.
Told ==
    /\ Tells(actor.path, actor.receipts)
    /\ actor.path # <<>> => [game |-> actor.game, path |-> actor.path] \in lived
    /\ \A s \in Snaps : /\ Tells(s.path, s.receipts) /\ s.path # <<>>
                        /\ [game |-> s.game, path |-> s.path] \in lived

\* A snapshot of the game in memory is of its past.
Past == \A s \in Snaps : s.game = actor.game => IsPrefix(s.path, actor.path)

\* A game begins once, and is purged only after its end.
Ordered ==
    /\ \A w \in flight : w.op = "start" =>
          games[w.game] = "none" /\ \A v \in flight : v.op = "start" /\ v.game = w.game => v = w
    /\ \A w \in flight : w.op \in PurgeOps =>
          /\ w.game = actor.game => Ended(actor.path)
          /\ \E m \in lived : m.game = w.game
    /\ actor.game # NoGame => (games[actor.game] = "purged" => Ended(actor.path))

\* Nothing survives in a process that is down.
Stopped == up = "down" => actor = NewActor /\ flight = {}

\* The windows hold one entry of a length, and no more than are retained.
Bounded ==
    /\ Len(actor.window) <= Retention
    /\ \A g \in Game :
          /\ IsFiniteSet(kept[g]) /\ Cardinality(kept[g]) <= Retention
          /\ \A p, q \in kept[g] : Len(p) = Len(q) => p = q

\* The inductive invariant.
DurabilityInv == Typed /\ Numbered /\ Told /\ Past /\ Ordered /\ Stopped /\ Bounded

-----------------------------------------------------------------------------
(* Sequences, sets of numbers and windows. *)

\* A non-empty set of natural numbers has a least element.
LEMMA LeastNatural ==
    ASSUME NEW T, T \subseteq Nat, T # {}
    PROVE  \E x \in T : \A y \in T : x <= y
<1>1. \E x \in T : \A y \in T : ~(<<y, x>> \in OpToRel(<, Nat))
  BY NatLessThanWellFounded, WFMin
<1>2. PICK x \in T : \A y \in T : ~(<<y, x>> \in OpToRel(<, Nat))
  BY <1>1
<1>3. ASSUME NEW y \in T PROVE x <= y
  <2>1. x \in Nat /\ y \in Nat /\ <<y, x>>[1] = y /\ <<y, x>>[2] = x
    BY <1>2
  <2>2. ~(<<y, x>>[1] < <<y, x>>[2])
    BY <1>2, <2>1, Zenon DEF OpToRel
  <2>3. ~(y < x)
    BY <2>1, <2>2
  <2> QED BY <2>1, <2>3
<1> QED BY <1>2, <1>3

\* A non-empty set of games has a latest one.
LEMMA LatestOf ==
    ASSUME NEW T, T \subseteq Game, T # {}
    PROVE  Max(T) \in T
<1> DEFINE U == {n \in Nat : MaxGames - n \in T}
<1>1. MaxGames \in Nat /\ T \subseteq Nat /\ \A g \in T : g <= MaxGames
  BY DurabilityAssumption DEF Game
<1>2. U \subseteq Nat /\ U # {}
  <2>1. PICK g \in T : TRUE
    OBVIOUS
  <2>2. MaxGames - g \in Nat /\ MaxGames - (MaxGames - g) = g
    BY <1>1
  <2> QED BY <2>1, <2>2
<1>3. PICK n \in U : \A k \in U : n <= k
  <2> HIDE DEF U
  <2> QED BY <1>2, LeastNatural
<1>4. ASSUME NEW g \in T PROVE MaxGames - n >= g
  <2>1. MaxGames - g \in U
    <3>1. MaxGames - g \in Nat /\ MaxGames - (MaxGames - g) = g
      BY <1>1
    <3> QED BY <3>1
  <2> QED BY <1>1, <1>3, <2>1
<1>5. MaxGames - n \in T
  BY <1>3
<1> QED BY <1>4, <1>5 DEF Max

\* What is a prefix of what, element by element.
LEMMA Prefixed ==
    ASSUME NEW S, NEW s \in Seq(S), NEW t \in Seq(S)
    PROVE  IsPrefix(s, t) <=> Len(s) <= Len(t) /\ \A i \in 1 .. Len(s) : s[i] = t[i]
<1> SUFFICES ASSUME Len(s) <= Len(t)
             PROVE  SubSeq(s, 1, Len(s)) = SubSeq(t, 1, Len(s))
                      <=> \A i \in 1 .. Len(s) : s[i] = t[i]
  BY DEF IsPrefix
<1> DEFINE a == SubSeq(s, 1, Len(s))
           b == SubSeq(t, 1, Len(s))
<1>1. Len(s) \in Nat /\ Len(t) \in Nat
  OBVIOUS
<1>2. /\ a \in Seq(S) /\ Len(a) = Len(s) /\ \A i \in 1 .. Len(s) : a[i] = s[i]
      /\ b \in Seq(S) /\ Len(b) = Len(s) /\ \A i \in 1 .. Len(s) : b[i] = t[i]
  BY <1>1
<1> HIDE DEF a, b
<1>3. a = b <=> \A i \in 1 .. Len(s) : a[i] = b[i]
  BY <1>2, SeqEqual
<1> QED BY <1>2, <1>3 DEF a, b

\* A path with one more command.
LEMMA Extended ==
    ASSUME NEW path \in Path, NEW m \in Nat, NEW c \in Command
    PROVE  LET new == Append(path, <<m, c>>)
           IN  /\ new \in Path /\ new # <<>> /\ Len(new) = Len(path) + 1 /\ Front(new) = path
               /\ Last(new)[1] = m /\ Last(new)[2] = c
               /\ \A s \in Path : IsPrefix(s, path) => IsPrefix(s, new)
               /\ Cmds(new) = Cmds(path) \cup {c}
<1> DEFINE x == <<m, c>>
           new == Append(path, x)
<1>1. x \in Nat \X Command /\ x[1] = m /\ x[2] = c
  OBVIOUS
<1>2. path \in Seq(Nat \X Command) /\ Len(path) \in Nat
  BY DEF Path
<1> HIDE DEF x
<1>3. /\ new \in Seq(Nat \X Command) /\ Len(new) = Len(path) + 1 /\ DOMAIN new = 1 .. Len(path) + 1
      /\ new[Len(path) + 1] = x /\ \A i \in 1 .. Len(path) : new[i] = path[i]
      /\ new # <<>> /\ DOMAIN path = 1 .. Len(path)
  BY <1>1, <1>2
<1>4. Front(new) = path
  BY <1>1, <1>2 DEF Front
<1> HIDE DEF new
<1>5. Last(new) = x
  BY <1>2, <1>3 DEF Last
<1>6. ASSUME NEW s \in Path, IsPrefix(s, path) PROVE IsPrefix(s, new)
  <2>1. Len(s) \in Nat /\ Len(s) <= Len(path) /\ \A i \in 1 .. Len(s) : s[i] = path[i]
    BY <1>2, <1>6, Prefixed DEF Path
  <2>2. Len(s) <= Len(new) /\ \A i \in 1 .. Len(s) : s[i] = new[i]
    BY <1>2, <1>3, <2>1
  <2> QED BY <1>3, <2>2, Prefixed DEF Path
<1>7. Cmds(new) = Cmds(path) \cup {c}
  <2>1. \A i \in DOMAIN new : i \in DOMAIN path \/ i = Len(path) + 1
    BY <1>2, <1>3
  <2>2. DOMAIN path \subseteq DOMAIN new /\ Len(path) + 1 \in DOMAIN new
    BY <1>2, <1>3
  <2>3. new[Len(path) + 1][2] = c /\ \A i \in DOMAIN path : new[i][2] = path[i][2]
    BY <1>1, <1>3
  <2> QED BY <2>1, <2>2, <2>3, Zenon DEF Cmds
<1> QED BY <1>1, <1>3, <1>4, <1>5, <1>6, <1>7 DEF Path, new, x

\* The window after one more entry is a sequence, and within what is retained.
LEMMA RecordedIs ==
    ASSUME NEW w, Window(w), NEW path
    PROVE  Window(Recorded(w, path)) /\ Len(Recorded(w, path)) <= Retention
<1> DEFINE U == {w[i] : i \in DOMAIN w} \cup {path}
           v == Append(w, path)
           first == Max({1, Len(v) - Retention + 1})
<1>1. w \in Seq(U)
  BY SeqMonotonic DEF Window
<1> HIDE DEF U
<1>2. v \in Seq(U) /\ Len(v) \in Nat /\ Len(v) >= 1
  <2>1. path \in U
    BY DEF U
  <2> QED BY <1>1, <2>1
<1> HIDE DEF v
<1>3. Retention \in Nat \ {0}
  BY DurabilityAssumption
<1>4. first \in Nat /\ first >= 1 /\ first <= Len(v) /\ first >= Len(v) - Retention + 1
  <2> DEFINE k == Len(v) - Retention + 1
  <2>1. k \in Int /\ k <= Len(v)
    BY <1>2, <1>3
  <2> HIDE DEF k
  <2>2. \E n \in {1, k} : \A j \in {1, k} : n >= j
    BY <2>1
  <2>3. Max({1, k}) \in {1, k} /\ Max({1, k}) >= 1 /\ Max({1, k}) >= k
    BY <2>2 DEF Max
  <2> QED BY <1>2, <2>1, <2>3 DEF k
<1> HIDE DEF first
<1> DEFINE u == SubSeq(v, first, Len(v))
<1>5. u \in Seq(U) /\ Len(u) = Len(v) - first + 1
  BY <1>2, <1>4
<1> HIDE DEF u
<1>6. Window(u) /\ Len(u) <= Retention
  <2>1. u \in Seq({u[i] : i \in DOMAIN u})
    BY <1>5
  <2> QED BY <1>2, <1>3, <1>4, <1>5, <2>1 DEF Window
<1>7. Recorded(w, path) = u
  BY DEF Recorded, u, first, v
<1> QED BY <1>6, <1>7

\* The rows in their order are a sequence of as many.
LEMMA InOrderIs ==
    ASSUME NEW paths, IsFiniteSet(paths)
    PROVE  Window(InOrder(paths)) /\ Len(InOrder(paths)) = Cardinality(paths)
<1> DEFINE n == Cardinality(paths)
           e(i) == CHOOSE p \in paths : Cardinality({q \in paths : Len(q) < Len(p)}) = i - 1
           u == [i \in 1 .. n |-> e(i)]
<1>1. n \in Nat
  BY FS_CardinalityType
<1> HIDE DEF n, e
<1>2. DOMAIN u = 1 .. n /\ \A i \in 1 .. n : u[i] \in {u[j] : j \in DOMAIN u}
  OBVIOUS
<1>3. u \in Seq({u[i] : i \in DOMAIN u}) /\ Len(u) = n
  BY <1>1, <1>2
<1>4. InOrder(paths) = u
  BY Zenon DEF InOrder, n, e
<1> HIDE DEF u
<1> QED BY <1>3, <1>4 DEF Window, n

\* Of paths of different lengths, no more than Retention are the newest.
LEMMA NewestIs ==
    ASSUME NEW paths \in SUBSET Path, IsFiniteSet(paths),
           \A p, q \in paths : Len(p) = Len(q) => p = q
    PROVE  /\ Newest(paths) \subseteq paths /\ IsFiniteSet(Newest(paths))
           /\ Cardinality(Newest(paths)) <= Retention
<1> DEFINE N == Newest(paths)
           T == {Len(p) : p \in N}
<1>1. N \subseteq paths /\ IsFiniteSet(N) /\ Cardinality(N) \in Nat
  <2>1. N \subseteq paths
    BY DEF Newest
  <2> QED BY <2>1, FS_Subset, FS_CardinalityType
<1>2. Retention \in Nat \ {0}
  BY DurabilityAssumption
<1>3. CASE N = {}
  BY <1>1, <1>2, <1>3, FS_EmptySet
<1>4. CASE N # {}
  <2> HIDE DEF N
  <2>1. \A p \in paths : Len(p) \in Nat
    BY DEF Path
  <2>2. PICK p \in N : \A q \in N : Len(p) <= Len(q)
    <3>1. T \subseteq Nat /\ T # {}
      BY <1>1, <1>4, <2>1
    <3>2. PICK x \in T : \A y \in T : x <= y
      <4> HIDE DEF T
      <4> QED BY <3>1, LeastNatural
    <3> QED BY <3>2
  <2> DEFINE L == {q \in paths : Len(q) > Len(p)}
  <2>3. Cardinality(L) < Retention
    BY DEF Newest, N
  <2>4. N \ {p} \subseteq L
    BY <1>1, <2>1, <2>2
  <2>5. IsFiniteSet(L)
    BY FS_Subset
  <2> HIDE DEF L
  <2>6. Cardinality(N \ {p}) <= Cardinality(L) /\ Cardinality(L) \in Nat
    BY <2>4, <2>5, FS_Subset, FS_CardinalityType
  <2>7. Cardinality(N \ {p}) = Cardinality(N) - 1
    BY <1>1, FS_RemoveElement
  <2> QED BY <1>1, <1>2, <2>3, <2>6, <2>7 DEF N
<1> QED BY <1>1, <1>3, <1>4

-----------------------------------------------------------------------------
(* Writes and snapshots. *)

\* What a write carries.
LEMMA WriteFields ==
    ASSUME NEW w \in Write
    PROVE  /\ w.game \in Game /\ w.op \in {"start", "record", "window"} \cup PurgeOps
           /\ w.op \in {"start", "window"} => w.path \in Path
           /\ w.op = "record" => w.snap \in Snap /\ w.chain \in Path
           /\ w.op \in PurgeOps => w \in PurgeWrite
BY DEF Write, StartWrite, RecordWrite, WindowWrite, PurgeWrite, PurgeOps

\* A write that the state a of the actor gives rise to.
Issued(a, v) ==
    /\ v \in Write /\ a.id # NoGame /\ v.game = a.id /\ v.op # "start"
    /\ v.op = "record" => v.snap = Snapshot(a)
    /\ v.op \in PurgeOps => Ended(a.path)

\* What a step starts is so.
LEMMA SyncIssues ==
    ASSUME NEW a, a.id \in Game \cup {NoGame}, a.path \in Path, a.receipts \subseteq CmdId,
           NEW path \in Path, NEW turn \in {1, 2}
    PROVE  /\ \A v \in Flush(a, path) \cup Entry(a, path) \cup Sync(a, path, turn) : Issued(a, v)
           /\ Ended(a.path) => \A v \in Purging(a, turn) : Issued(a, v)
<1>1. ASSUME NEW chain \in Path, NEW v \in Flush(a, chain) PROVE Issued(a, v)
  <2>1. a.id \in Game /\ a.id # NoGame
    BY <1>1 DEF Flush
  <2>2. Snapshot(a) \in Snap
    BY <2>1 DEF Snapshot, Snap
  <2>3. v = [op |-> "record", game |-> a.id, snap |-> Snapshot(a), chain |-> chain]
    BY <1>1 DEF Flush
  <2>4. v \in RecordWrite
    BY <1>1, <2>1, <2>2, <2>3 DEF RecordWrite
  <2> QED BY <2>1, <2>3, <2>4 DEF Issued, Write, PurgeOps
<1>2. ASSUME NEW v \in Entry(a, path) PROVE Issued(a, v)
  <2>1. a.id \in Game /\ a.id # NoGame /\ v = [op |-> "window", game |-> a.id, path |-> path]
    BY <1>2 DEF Entry
  <2>2. v \in WindowWrite
    BY <2>1 DEF WindowWrite
  <2> QED BY <2>1, <2>2 DEF Issued, Write, PurgeOps
<1>3. ASSUME Ended(a.path), NEW v \in Purging(a, turn) PROVE Issued(a, v)
  <2>1. a.id \in Game /\ a.id # NoGame /\ v = [op |-> "conclude", game |-> a.id, turn |-> turn]
    BY <1>3 DEF Purging
  <2>2. v \in PurgeWrite
    BY <2>1 DEF PurgeWrite, PurgeOps
  <2> QED BY <1>3, <2>1, <2>2 DEF Issued, Write
<1>4. <<>> \in Path
  BY DEF Path
<1> QED BY <1>1, <1>2, <1>3, <1>4 DEF Sync

\* The snapshot of an actor that is under its game's id.
LEMMA SnapshotIs ==
    ASSUME NEW a
    PROVE  Snapshot(a).game = a.id /\ Snapshot(a).path = a.path /\ Snapshot(a).receipts = a.receipts
BY DEF Snapshot

\* A snapshot is in the database or on its way to it.
LEMMA SnapsAre ==
    ASSUME NEW s
    PROVE  /\ s \in Snaps <=> \/ \E g \in Game : saved[g] = s /\ s # Nothing
                              \/ \E w \in flight : w.op = "record" /\ w.snap = s
           /\ s \in Snaps' <=> \/ \E g \in Game : saved'[g] = s /\ s # Nothing
                               \/ \E w \in flight' : w.op = "record" /\ w.snap = s
<1>1. s \in Snaps <=> \/ s \in {saved[g] : g \in Game} \ {Nothing}
                      \/ s \in {w.snap : w \in {v \in flight : v.op = "record"}}
  BY DEF Snaps
<1>2. s \in Snaps' <=> \/ s \in {saved'[g] : g \in Game} \ {Nothing}
                       \/ s \in {w.snap : w \in {v \in flight' : v.op = "record"}}
  BY DEF Snaps
<1> QED BY <1>1, <1>2

\* A snapshot is a record of its type.
LEMMA SnapsTyped ==
    ASSUME Typed
    PROVE  Snaps \subseteq Snap
<1>1. ASSUME NEW w \in flight, w.op = "record" PROVE w.snap \in Snap
  BY <1>1, WriteFields DEF Typed
<1> QED BY <1>1, SnapsAre DEF Typed

-----------------------------------------------------------------------------
(* Steps that leave the game in memory as it is. *)

\* The game in memory stays, no more than what it issued is written, and no game
\* begins or is purged but by a write in flight.
Still ==
    /\ actor'.game = actor.game /\ actor'.path = actor.path /\ actor'.receipts = actor.receipts
    /\ actor'.id \in {actor.id, NoGame} /\ UNCHANGED <<begun, moments, lived>>
    /\ \A g \in Game : \/ saved'[g] \in {saved[g], Nothing}
                       \/ \E w \in flight : w.op = "record" /\ w.game = g /\ w.snap = saved'[g]
    /\ \A v \in flight' : \/ v \in flight \/ Issued(actor, v)
                          \/ v \in PurgeWrite /\ \E w \in flight : w.op \in PurgeOps /\ w.game = v.game
    /\ \A g \in Game :
          /\ games[g] = "none" /\ games'[g] # "none"
                => \E w \in flight \ flight' : w.op = "start" /\ w.game = g
          /\ games'[g] = "purged"
                => games[g] = "purged" \/ \E w \in flight : w.op \in PurgeOps /\ w.game = g

\* Such a step writes no snapshot but of the past or the present.
LEMMA StillSnaps ==
    ASSUME Typed, Still, NEW s \in Snaps'
    PROVE  s \in Snaps \/ (actor.id # NoGame /\ s = Snapshot(actor))
<1>1. CASE \E g \in Game : saved'[g] = s /\ s # Nothing
  BY <1>1, SnapsAre DEF Still
<1>2. CASE \E w \in flight' : w.op = "record" /\ w.snap = s
  <2>1. PICK w \in flight' : w.op = "record" /\ w.snap = s
    BY <1>2
  <2>2. w \in flight \/ Issued(actor, w) \/ w \in PurgeWrite
    BY DEF Still
  <2>3. w \notin PurgeWrite
    BY <2>1 DEF PurgeWrite, PurgeOps
  <2> QED BY <2>1, <2>2, <2>3, SnapsAre DEF Issued
<1> QED BY <1>1, <1>2, SnapsAre

\* Such a step keeps what relates the rows, the writes and the game.
LEMMA StillKeeps ==
    ASSUME Typed, Numbered, Told, Past, Ordered, Still
    PROVE  Numbered' /\ Told' /\ Past' /\ Ordered' /\ flight' \subseteq Write
<1>1. /\ actor.path \in Path /\ actor.game \in 0 .. begun /\ actor.id \in {NoGame, actor.game}
      /\ flight \subseteq Write /\ begun \in 0 .. MaxGames /\ games \in [Game -> {"none", "in_play", "concluded", "purged"}]
  BY DEF Typed, Numbered
<1>2. ASSUME NEW v \in flight'
      PROVE  /\ v \in Write /\ v.game <= begun /\ (v.op = "record" => v.snap.game = v.game)
             /\ v.op = "start" => v \in flight
             /\ v.op \in PurgeOps => /\ v.game = actor.game => Ended(actor.path)
                                     /\ \E m \in lived : m.game = v.game
  <2>1. CASE v \in flight
    BY <1>1, <2>1 DEF Numbered, Ordered
  <2>2. CASE Issued(actor, v)
    <3>1. v.game = actor.game /\ actor.game # NoGame /\ v.game <= begun
      BY <1>1, <2>2 DEF Issued, NoGame
    <3>2. \E m \in lived : m.game = v.game
      BY <3>1 DEF Numbered, Told
    <3> QED BY <2>2, <3>1, <3>2, SnapshotIs DEF Issued
  <2>3. CASE v \in PurgeWrite /\ \E w \in flight : w.op \in PurgeOps /\ w.game = v.game
    <3>1. PICK w \in flight : w.op \in PurgeOps /\ w.game = v.game
      BY <2>3
    <3>2. v.op \in PurgeOps /\ v \in Write /\ v.op # "start" /\ v.op # "record"
      BY <2>3 DEF PurgeWrite, PurgeOps, Write
    <3> QED BY <3>1, <3>2 DEF Numbered, Ordered
  <2> QED BY <2>1, <2>2, <2>3 DEF Still
<1>3. ASSUME NEW g \in Game
      PROVE  /\ games'[g] # "none" => g <= begun
             /\ saved'[g] # Nothing => g <= begun /\ saved'[g].game = g
  <2>1. \A w \in flight : w.game <= begun /\ (w.op = "record" => w.snap.game = w.game)
    BY DEF Numbered
  <2>2. games'[g] # "none" => g <= begun
    BY <2>1 DEF Still, Numbered
  <2>3. saved'[g] # Nothing => g <= begun /\ saved'[g].game = g
    <3>1. CASE saved'[g] \in {saved[g], Nothing}
      BY <3>1 DEF Numbered
    <3>2. CASE \E w \in flight : w.op = "record" /\ w.game = g /\ w.snap = saved'[g]
      BY <2>1, <3>2
    <3> QED BY <3>1, <3>2 DEF Still
  <2> QED BY <2>2, <2>3
<1>4. Numbered'
  <2>1. begun' = begun /\ moments' = moments /\ lived' = lived
    BY DEF Still
  <2>2. actor'.id \in {NoGame, actor'.game} /\ actor'.game \in 0 .. begun
        /\ (actor'.path = <<>> <=> actor'.game = NoGame)
    BY DEF Still, Numbered
  <2>3. \A m \in lived : m.game <= begun /\ \A i \in DOMAIN m.path : m.path[i][1] <= moments
    BY DEF Numbered
  <2> QED BY <1>2, <1>3, <2>1, <2>2, <2>3 DEF Numbered
<1>5. ASSUME NEW s \in Snaps'
      PROVE  /\ Tells(s.path, s.receipts) /\ s.path # <<>>
             /\ [game |-> s.game, path |-> s.path] \in lived
             /\ s.game = actor.game => IsPrefix(s.path, actor.path)
  <2>1. CASE s \in Snaps
    BY <2>1 DEF Told, Past
  <2>2. CASE actor.id # NoGame /\ s = Snapshot(actor)
    <3>1. s.game = actor.game /\ s.path = actor.path /\ s.receipts = actor.receipts /\ actor.game # NoGame
      BY <1>1, <2>2, SnapshotIs
    <3>2. IsPrefix(actor.path, actor.path)
      BY <1>1, Prefixed DEF Path
    <3> QED BY <3>1, <3>2 DEF Told, Numbered
  <2> QED BY <2>1, <2>2, StillSnaps
<1>6. Told'
  <2>1. actor'.path = actor.path /\ actor'.game = actor.game /\ actor'.receipts = actor.receipts /\ lived' = lived
    BY DEF Still
  <2> QED BY <1>5, <2>1 DEF Told
<1>7. Past'
  BY <1>5 DEF Past, Still
<1>8. Ordered'
  <2>1. /\ actor'.path = actor.path /\ actor'.game = actor.game /\ lived' = lived
    BY DEF Still
  <2>2. ASSUME NEW w \in flight', w.op = "start"
        PROVE  games'[w.game] = "none" /\ \A v \in flight' : v.op = "start" /\ v.game = w.game => v = w
    <3>1. w \in flight /\ games[w.game] = "none" /\ w.game \in Game
      BY <1>2, <2>2, WriteFields DEF Ordered
    <3>2. \A v \in flight : v.op = "start" /\ v.game = w.game => v = w
      BY <2>2, <3>1 DEF Ordered
    <3>3. games'[w.game] = "none"
      BY <3>1, <3>2, <2>2 DEF Still
    <3> QED BY <1>2, <3>2, <3>3
  <2>3. actor.game # NoGame => (games'[actor.game] = "purged" => Ended(actor.path))
    <3> SUFFICES ASSUME actor.game # NoGame, games'[actor.game] = "purged" PROVE Ended(actor.path)
      OBVIOUS
    <3>1. actor.game \in Game
      BY <1>1, DurabilityAssumption DEF Game, NoGame
    <3> QED BY <3>1 DEF Still, Ordered
  <2> QED BY <1>2, <2>1, <2>2, <2>3 DEF Ordered
<1> QED BY <1>2, <1>4, <1>6, <1>7, <1>8

\* The whole of such a step.
Calm ==
    /\ Still /\ actor' \in {actor, [actor EXCEPT !.id = NoGame]}
    /\ up # "down" /\ up' \in {up, "stopping"}
    /\ games' \in [Game -> {"none", "in_play", "concluded", "purged"}]
    /\ saved' \in [Game -> Snap \cup {Nothing}]
    /\ kept' \in [Game -> SUBSET Path]
    /\ \A g \in Game : \/ kept'[g] \in {kept[g], {}}
                       \/ \E path \in Path : /\ \A p \in kept[g] : Len(p) # Len(path)
                                             /\ kept'[g] = Newest(kept[g] \cup {path})

\* A window with one more row of a new number is bounded, once the oldest is dropped.
LEMMA NewRowKeeps ==
    ASSUME Typed, Bounded, NEW g \in Game, NEW path \in Path, \A p \in kept[g] : Len(p) # Len(path)
    PROVE  LET rows == Newest(kept[g] \cup {path})
           IN  /\ rows \in SUBSET Path /\ IsFiniteSet(rows) /\ Cardinality(rows) <= Retention
               /\ \A p, q \in rows : Len(p) = Len(q) => p = q
<1> DEFINE S == kept[g] \cup {path}
<1>1. /\ kept[g] \subseteq Path /\ IsFiniteSet(kept[g])
      /\ \A p, q \in kept[g] : Len(p) = Len(q) => p = q
  BY DEF Typed, Bounded
<1>2. S \in SUBSET Path /\ \A p, q \in S : Len(p) = Len(q) => p = q
  BY <1>1
<1>3. IsFiniteSet(S)
  BY <1>1, FS_AddElement
<1> HIDE DEF S
<1>4. Newest(S) \subseteq S /\ IsFiniteSet(Newest(S)) /\ Cardinality(Newest(S)) <= Retention
  BY <1>2, <1>3, NewestIs
<1> QED BY <1>2, <1>4 DEF S

\* If it also keeps the types and the windows, it keeps the invariant.
LEMMA CalmKeeps ==
    ASSUME DurabilityInv, Calm
    PROVE  DurabilityInv' /\ Moment' = Moment /\ lived' = lived
<1>1. Typed /\ Numbered /\ Told /\ Past /\ Ordered /\ Stopped /\ Bounded /\ Still
  BY DEF DurabilityInv, Calm
<1>2. Numbered' /\ Told' /\ Past' /\ Ordered' /\ flight' \subseteq Write
  BY <1>1, StillKeeps
<1>3. /\ actor' = [id |-> actor'.id, game |-> actor'.game, path |-> actor'.path,
                   receipts |-> actor'.receipts, window |-> actor'.window]
      /\ actor'.window = actor.window
  <2>1. CASE actor' = actor
    BY <1>1, <2>1 DEF Typed
  <2>2. CASE actor' = [actor EXCEPT !.id = NoGame]
    <3> DEFINE a == [id |-> actor.id, game |-> actor.game, path |-> actor.path,
                     receipts |-> actor.receipts, window |-> actor.window]
    <3>1. actor' = [a EXCEPT !.id = NoGame]
      BY <1>1, <2>2, Zenon DEF Typed
    <3> QED BY <3>1
  <2> QED BY <2>1, <2>2 DEF Calm
<1>4. Typed'
  <2>1. /\ actor'.path = actor.path /\ actor'.receipts = actor.receipts /\ begun' = begun
        /\ moments' = moments /\ lived' = lived
    BY <1>1 DEF Still
  <2>2. up' \in {"up", "stopping", "down"} /\ begun' \in 0 .. MaxGames /\ moments' \in Nat
    BY <1>1, <2>1 DEF Typed, Calm
  <2>3. actor'.path \in Path /\ actor'.receipts \subseteq CmdId /\ Window(actor'.window)
    BY <1>1, <1>3, <2>1 DEF Typed
  <2>4. lived' \subseteq [game : Game, path : Path]
    BY <1>1, <2>1 DEF Typed
  <2> QED BY <1>2, <1>3, <2>2, <2>3, <2>4 DEF Typed, Calm
<1>5. Stopped'
  BY DEF Stopped, Calm
<1>6. Bounded'
  <2>1. Len(actor'.window) <= Retention
    BY <1>1, <1>3 DEF Bounded
  <2>2. ASSUME NEW g \in Game
        PROVE  /\ IsFiniteSet(kept'[g]) /\ Cardinality(kept'[g]) <= Retention
               /\ \A p, q \in kept'[g] : Len(p) = Len(q) => p = q
    <3>1. CASE kept'[g] = kept[g]
      BY <1>1, <3>1 DEF Bounded
    <3>2. CASE kept'[g] = {}
      BY <3>2, FS_EmptySet, DurabilityAssumption
    <3>3. CASE \E path \in Path : /\ \A p \in kept[g] : Len(p) # Len(path)
                                  /\ kept'[g] = Newest(kept[g] \cup {path})
      BY <1>1, <3>3, NewRowKeeps
    <3> QED BY <3>1, <3>2, <3>3 DEF Calm
  <2> QED BY <2>1, <2>2 DEF Bounded
<1>7. Moment' = Moment /\ lived' = lived
  BY <1>1 DEF Moment, Still
<1> QED BY <1>2, <1>4, <1>5, <1>6, <1>7 DEF DurabilityInv

\* The actor of a state in which the invariant holds can be snapshotted.
LEMMA ActorTyped ==
    ASSUME DurabilityInv
    PROVE  actor.id \in Game \cup {NoGame} /\ actor.path \in Path /\ actor.receipts \subseteq CmdId
<1>1. begun \in 0 .. MaxGames /\ actor.game \in 0 .. begun /\ actor.id \in {NoGame, actor.game}
  BY DEF DurabilityInv, Typed, Numbered
<1>2. MaxGames \in Nat
  BY DurabilityAssumption
<1>3. actor.id \in Game \cup {NoGame}
  BY <1>1, <1>2 DEF Game, NoGame
<1> QED BY <1>3 DEF DurabilityInv, Typed

\* Retransmissions, readiness and the flush of a shutdown start writes of the present.
LEMMA CommandsCalm ==
    ASSUME DurabilityInv, (\E c \in CmdId : Repeat(c)) \/ Ready \/ Stop
    PROVE  Calm /\ games' = games
<1>1. \A v \in flight' : v \in flight \/ Issued(actor, v)
  <2>1. <<>> \in Path
    BY DEF Path
  <2>2. CASE \E c \in CmdId : Repeat(c)
    BY <2>1, <2>2, ActorTyped, SyncIssues DEF Repeat
  <2>3. CASE Ready
    BY <2>1, <2>3, ActorTyped, SyncIssues DEF Ready
  <2>4. CASE Stop
    BY <2>1, <2>4, ActorTyped, SyncIssues DEF Stop
  <2> QED BY <2>2, <2>3, <2>4
<1>2. /\ UNCHANGED <<actor, games, saved, kept, begun, moments, lived>>
      /\ up # "down" /\ up' \in {up, "stopping"}
  BY DEF Repeat, Ready, Stop, Serving, database, history
<1>3. Still
  BY <1>1, <1>2 DEF Still
<1> QED BY <1>2, <1>3 DEF Calm, DurabilityInv, Typed

\* So does, at most, a write that lands, and one that fails starts none.
LEMMA FailCalm ==
    ASSUME DurabilityInv, NEW w \in flight, Fail(w)
    PROVE  Calm /\ games' = games
<1>1. /\ UNCHANGED <<up, actor, games, saved, kept, begun, moments, lived>> /\ flight' = flight \ {w}
      /\ up # "down"
  BY DEF Fail, database, history, DurabilityInv, Stopped
<1>2. Still
  BY <1>1 DEF Still
<1> QED BY <1>1, <1>2 DEF Calm, DurabilityInv, Typed

\* What a landing leaves alone.
LEMMA LandIs ==
    ASSUME DurabilityInv, NEW w \in flight, Land(w)
    PROVE  /\ UNCHANGED <<up, begun, moments, lived>> /\ up # "down" /\ w \in Write /\ w.game \in Game
           /\ games \in [Game -> {"none", "in_play", "concluded", "purged"}]
           /\ saved \in [Game -> Snap \cup {Nothing}] /\ kept \in [Game -> SUBSET Path]
<1>1. w \in Write
  BY DEF DurabilityInv, Typed
<1> QED BY <1>1, WriteFields DEF Land, history, DurabilityInv, Typed, Stopped

\* The row of a game that begins.
LEMMA LandStartCalm ==
    ASSUME DurabilityInv, NEW w \in flight, Land(w), LandStart(w)
    PROVE  Calm /\ \A g \in Game : games'[g] = "purged" <=> games[g] = "purged"
<1>1. /\ w.op = "start" /\ w.path \in Path /\ w.game \in Game /\ UNCHANGED <<actor, saved, kept>>
      /\ UNCHANGED <<up, begun, moments, lived>> /\ up # "down" /\ games[w.game] = "none"
      /\ games \in [Game -> {"none", "in_play", "concluded", "purged"}]
      /\ saved \in [Game -> Snap \cup {Nothing}] /\ kept \in [Game -> SUBSET Path]
  BY LandIs, WriteFields DEF LandStart, DurabilityInv, Ordered
<1>2. \A v \in flight' : v \in flight \/ Issued(actor, v)
  BY <1>1, ActorTyped, SyncIssues DEF LandStart
<1>3. games' = games \/ (w \notin flight' /\ games' = [games EXCEPT ![w.game] = "in_play"])
  <2>1. \A v \in Flush(actor, w.path) : v.op = "record"
    BY DEF Flush
  <2> QED BY <1>1, <2>1 DEF LandStart
<1>4. Still
  BY <1>1, <1>2, <1>3 DEF Still
<1> QED BY <1>1, <1>3, <1>4 DEF Calm

\* A checkpoint.
LEMMA LandRecordCalm ==
    ASSUME DurabilityInv, NEW w \in flight, Land(w), LandRecord(w)
    PROVE  Calm /\ games' = games
<1>1. /\ w.op = "record" /\ w.chain \in Path /\ w.snap \in Snap /\ w.game \in Game
      /\ UNCHANGED <<actor, games, kept>> /\ UNCHANGED <<up, begun, moments, lived>> /\ up # "down"
      /\ games \in [Game -> {"none", "in_play", "concluded", "purged"}]
      /\ saved \in [Game -> Snap \cup {Nothing}] /\ kept \in [Game -> SUBSET Path]
  BY LandIs, WriteFields DEF LandRecord
<1>2. \A v \in flight' : v \in flight \/ Issued(actor, v)
  BY <1>1, ActorTyped, SyncIssues DEF LandRecord
<1>3. saved' = saved \/ saved' = [saved EXCEPT ![w.game] = w.snap]
  BY DEF LandRecord
<1>4. Still
  <2>1. \A g \in Game : saved'[g] = saved[g] \/ (g = w.game /\ saved'[g] = w.snap)
    BY <1>1, <1>3
  <2> QED BY <1>1, <1>2, <2>1 DEF Still
<1> QED BY <1>1, <1>3, <1>4 DEF Calm

\* A row of the window.
LEMMA LandWindowCalm ==
    ASSUME DurabilityInv, NEW w \in flight, Land(w), LandWindow(w)
    PROVE  Calm /\ games' = games
<1>1. /\ w.op = "window" /\ w.path \in Path /\ w.game \in Game
      /\ UNCHANGED <<actor, games, saved>> /\ UNCHANGED <<up, begun, moments, lived>> /\ up # "down"
      /\ games \in [Game -> {"none", "in_play", "concluded", "purged"}]
      /\ saved \in [Game -> Snap \cup {Nothing}] /\ kept \in [Game -> SUBSET Path]
      /\ flight' = flight \ {w}
  BY LandIs, WriteFields DEF LandWindow
<1>2. Still
  BY <1>1 DEF Still
<1>3. CASE kept' = kept
  BY <1>1, <1>2, <1>3 DEF Calm
<1>4. CASE /\ \A p \in kept[w.game] : Len(p) # Len(w.path)
           /\ kept' = [kept EXCEPT ![w.game] = Newest(@ \cup {w.path})]
  <2>1. Newest(kept[w.game] \cup {w.path}) \in SUBSET Path
    BY <1>1, <1>4, NewRowKeeps DEF DurabilityInv
  <2>2. kept' \in [Game -> SUBSET Path]
    BY <1>1, <1>4, <2>1
  <2>3. \A g \in Game : \/ kept'[g] = kept[g]
                        \/ g = w.game /\ kept'[g] = Newest(kept[g] \cup {w.path})
    BY <1>1, <1>4
  <2>4. ASSUME NEW g \in Game
        PROVE  \/ kept'[g] \in {kept[g], {}}
               \/ \E path \in Path : /\ \A p \in kept[g] : Len(p) # Len(path)
                                     /\ kept'[g] = Newest(kept[g] \cup {path})
    <3>1. CASE kept'[g] = kept[g]
      BY <3>1
    <3>2. CASE g = w.game /\ kept'[g] = Newest(kept[g] \cup {w.path})
      <4>1. w.path \in Path /\ \A p \in kept[g] : Len(p) # Len(w.path)
        BY <1>1, <1>4, <3>2
      <4> HIDE <1>4
      <4> QED BY <3>2, <4>1, Zenon
    <3> QED BY <2>3, <3>1, <3>2
  <2> HIDE <1>4
  <2> QED BY <1>1, <1>2, <2>2, <2>4 DEF Calm
<1> QED BY <1>3, <1>4 DEF LandWindow

\* The statements of a purge but the last.
LEMMA LandPurgingCalm ==
    ASSUME DurabilityInv, NEW w \in flight, Land(w), LandConclude(w) \/ LandDelete(w) \/ LandDeleteWindow(w)
    PROVE  Calm /\ \A g \in Game : games'[g] = "purged" <=> games[g] = "purged"
<1>1. /\ w.op \in PurgeOps /\ w \in PurgeWrite /\ w.game \in Game /\ actor' = actor
      /\ UNCHANGED <<up, begun, moments, lived>> /\ up # "down"
      /\ games \in [Game -> {"none", "in_play", "concluded", "purged"}]
      /\ saved \in [Game -> Snap \cup {Nothing}] /\ kept \in [Game -> SUBSET Path]
  BY LandIs, WriteFields DEF LandConclude, LandDelete, LandDeleteWindow, PurgeOps
<1>2. \A v \in flight' : v \in flight \/ (v \in PurgeWrite /\ v.game = w.game)
  BY <1>1 DEF LandConclude, LandDelete, LandDeleteWindow, Then, PurgeWrite, PurgeOps
<1>3. /\ games' = games \/ games' = [games EXCEPT ![w.game] = IF @ = "in_play" THEN "concluded" ELSE @]
      /\ saved' = saved \/ saved' = [saved EXCEPT ![w.game] = Nothing]
      /\ kept' = kept \/ kept' = [kept EXCEPT ![w.game] = {}]
  BY DEF LandConclude, LandDelete, LandDeleteWindow
<1>4. /\ games' \in [Game -> {"none", "in_play", "concluded", "purged"}]
      /\ saved' \in [Game -> Snap \cup {Nothing}] /\ kept' \in [Game -> SUBSET Path]
      /\ \A g \in Game : /\ games'[g] = "purged" <=> games[g] = "purged"
                         /\ games'[g] = "none" <=> games[g] = "none"
                         /\ saved'[g] \in {saved[g], Nothing} /\ kept'[g] \in {kept[g], {}}
  BY <1>1, <1>3
<1>5. Still
  BY <1>1, <1>2, <1>4 DEF Still
<1> QED BY <1>1, <1>4, <1>5 DEF Calm

\* The last one: the game is purged, and was lived.
LEMMA LandPurgeCalm ==
    ASSUME DurabilityInv, NEW w \in flight, Land(w), LandPurge(w)
    PROVE  /\ Calm /\ \E m \in lived : m.game = w.game
           /\ \/ games' = games
              \/ \A g \in Game : games'[g] = "purged" <=> games[g] = "purged" \/ g = w.game
<1>1. /\ w.op = "purge" /\ w.op \in PurgeOps /\ w \in PurgeWrite /\ w.game \in Game
      /\ actor' = [actor EXCEPT !.id = NoGame]
      /\ UNCHANGED <<saved, kept>> /\ UNCHANGED <<up, begun, moments, lived>> /\ up # "down"
      /\ games \in [Game -> {"none", "in_play", "concluded", "purged"}]
      /\ saved \in [Game -> Snap \cup {Nothing}] /\ kept \in [Game -> SUBSET Path]
      /\ flight' = flight \ {w}
      /\ games' = [games EXCEPT ![w.game] = IF @ = "none" THEN @ ELSE "purged"]
  BY LandIs, WriteFields DEF LandPurge, PurgeOps
<1>2. /\ games' \in [Game -> {"none", "in_play", "concluded", "purged"}]
      /\ \A g \in Game : /\ games'[g] = "none" <=> games[g] = "none"
                         /\ games'[g] = "purged" => games[g] = "purged" \/ g = w.game
      /\ games' = games \/ \A g \in Game : games'[g] = "purged" <=> games[g] = "purged" \/ g = w.game
  BY <1>1
<1>3. /\ actor'.game = actor.game /\ actor'.path = actor.path /\ actor'.receipts = actor.receipts
      /\ actor'.id = NoGame
  <2> DEFINE a == [id |-> actor.id, game |-> actor.game, path |-> actor.path,
                   receipts |-> actor.receipts, window |-> actor.window]
  <2>1. actor = a
    BY Zenon DEF DurabilityInv, Typed
  <2>2. actor' = [a EXCEPT !.id = NoGame]
    BY <1>1, <2>1
  <2> QED BY <2>1, <2>2
<1>4. Still
  BY <1>1, <1>2, <1>3 DEF Still
<1>5. \E m \in lived : m.game = w.game
  BY <1>1 DEF DurabilityInv, Ordered
<1> QED BY <1>1, <1>2, <1>4, <1>5 DEF Calm

-----------------------------------------------------------------------------
(* Deals and commands. *)

\* The path of a game that begins.
LEMMA FirstPath ==
    ASSUME Typed
    PROVE  LET path == <<<<moments + 1, "start">>>>
           IN  /\ path \in Path /\ path # <<>> /\ Len(path) = 1 /\ DOMAIN path = {1}
               /\ path[1][1] = moments + 1 /\ Tells(path, {})
               /\ Window(<<path>>) /\ Len(<<path>>) = 1
<1> DEFINE x == <<moments + 1, "start">>
           path == <<x>>
<1>1. x \in Nat \X Command /\ x[1] = moments + 1 /\ x[2] = "start"
  BY DEF Typed, Command
<1> HIDE DEF x
<1>2. path \in Path /\ path # <<>> /\ Len(path) = 1 /\ DOMAIN path = {1} /\ path[1] = x
  BY <1>1 DEF Path
<1> HIDE DEF path
<1>3. Tells(path, {})
  <2>1. Cmds(path) = {"start"}
    BY <1>1, <1>2 DEF Cmds
  <2> QED BY <1>2, <2>1, DurabilityAssumption DEF Tells
<1>4. Window(<<path>>) /\ Len(<<path>>) = 1
  BY DEF Window
<1> QED BY <1>1, <1>2, <1>3, <1>4 DEF path, x

\* A game that begins is a moment never lived before.
LEMMA StartKeeps ==
    ASSUME DurabilityInv, Start
    PROVE  /\ DurabilityInv' /\ games' = games /\ lived' = lived \cup {Moment'}
           /\ Moment' = [game |-> actor'.game, path |-> actor'.path]
           /\ Len(actor'.path) = 1 /\ Moment' \notin lived
<1> DEFINE path == <<<<moments + 1, "start">>>>
           n == begun + 1
           new == [op |-> "start", game |-> n, path |-> path]
<1>0. /\ Typed /\ Numbered /\ Told /\ Past /\ Ordered /\ Bounded
      /\ begun \in Nat /\ moments \in Nat /\ n \in Game /\ flight \subseteq Write
      /\ lived \subseteq [game : Game, path : Path] /\ MaxGames \in Nat
  <2>1. begun \in 0 .. MaxGames /\ begun < MaxGames /\ MaxGames \in Nat
    BY DurabilityAssumption DEF DurabilityInv, Typed, Start
  <2>2. begun + 1 \in Game
    BY <2>1 DEF Game
  <2> QED BY <2>1, <2>2 DEF DurabilityInv, Typed
<1>1. /\ actor' = [id |-> n, game |-> n, path |-> path, receipts |-> {}, window |-> <<path>>]
      /\ flight' = flight \cup {new} /\ moments' = moments + 1 /\ begun' = n
      /\ lived' = lived \cup {[game |-> actor'.game, path |-> actor'.path]}
      /\ UNCHANGED <<games, saved, kept>> /\ up \in {"up", "stopping"} /\ up' = up
  BY DEF Start, Counted, Serving, database
<1>2. /\ path \in Path /\ path # <<>> /\ Len(path) = 1 /\ DOMAIN path = {1}
      /\ path[1][1] = moments + 1 /\ Tells(path, {}) /\ Window(<<path>>) /\ Len(<<path>>) = 1
  BY <1>0, FirstPath
<1> HIDE DEF path
<1>3. new \in StartWrite /\ new.op = "start" /\ new.game = n
  BY <1>0, <1>2 DEF StartWrite
<1>4. new \in Write /\ new.op \notin PurgeOps /\ new.op # "record"
  BY <1>3 DEF Write, PurgeOps
<1> HIDE DEF new
<1>5. /\ actor'.id = n /\ actor'.game = n /\ actor'.path = path /\ actor'.receipts = {}
      /\ actor'.window = <<path>> /\ lived' = lived \cup {[game |-> n, path |-> path]}
  BY <1>1
<1>6. [game |-> n, path |-> path] \in [game : Game, path : Path]
  BY <1>0, <1>2
<1>7. Typed'
  <2>1. actor' = [id |-> actor'.id, game |-> actor'.game, path |-> actor'.path,
                  receipts |-> actor'.receipts, window |-> actor'.window]
    BY <1>1, <1>5
  <2>2. begun' \in 0 .. MaxGames /\ moments' \in Nat
    BY <1>0, <1>1 DEF Game
  <2>3. flight' \subseteq Write /\ lived' \subseteq [game : Game, path : Path]
    BY <1>0, <1>1, <1>4, <1>5, <1>6
  <2>4. up' \in {"up", "stopping", "down"}
    BY <1>1
  <2>5. actor'.path \in Path /\ actor'.receipts \subseteq CmdId /\ Window(actor'.window)
    BY <1>2, <1>5
  <2>6. /\ games' \in [Game -> {"none", "in_play", "concluded", "purged"}]
        /\ saved' \in [Game -> Snap \cup {Nothing}] /\ kept' \in [Game -> SUBSET Path]
    BY <1>0, <1>1 DEF Typed
  <2> QED BY <2>1, <2>2, <2>3, <2>4, <2>5, <2>6 DEF Typed
<1>8. /\ \A w \in flight : w.game \in Nat /\ w.game <= begun /\ w.game # n
      /\ \A m \in lived : m.game \in Nat /\ m.game <= begun /\ m.game # n
      /\ \A s \in Snaps : s.game # n
      /\ games[n] = "none"
  <2>1. \A w \in flight : w.game \in Nat /\ w.game <= begun
    BY <1>0, WriteFields DEF Numbered, Game
  <2>2. \A m \in lived : m.game \in Nat /\ m.game <= begun
    BY <1>0 DEF Numbered, Game
  <2>3. \A s \in Snaps : s.game \in Nat /\ s.game <= begun
    <3> SUFFICES ASSUME NEW s \in Snaps PROVE s.game \in Nat /\ s.game <= begun
      OBVIOUS
    <3>1. [game |-> s.game, path |-> s.path] \in lived
      BY <1>0 DEF Told
    <3> QED BY <2>2, <3>1
  <2>4. games[n] = "none"
    BY <1>0 DEF Numbered, Typed
  <2> QED BY <1>0, <2>1, <2>2, <2>3, <2>4
<1>9. Numbered'
  <2>1. actor'.id \in {NoGame, actor'.game} /\ actor'.game \in 0 .. begun' /\ actor'.path # <<>> /\ actor'.game # NoGame
    BY <1>0, <1>1, <1>2, <1>5 DEF NoGame
  <2>2. \A w \in flight' : w.game <= begun' /\ (w.op = "record" => w.snap.game = w.game)
    BY <1>0, <1>1, <1>3, <1>8 DEF Numbered
  <2>3. \A g \in Game : /\ games'[g] # "none" => g <= begun'
                        /\ saved'[g] # Nothing => g <= begun' /\ saved'[g].game = g
    BY <1>0, <1>1 DEF Numbered, Game
  <2>4. \A m \in lived' : m.game <= begun' /\ \A i \in DOMAIN m.path : m.path[i][1] <= moments'
    <3>1. ASSUME NEW m \in lived PROVE m.game <= begun' /\ \A i \in DOMAIN m.path : m.path[i][1] <= moments'
      <4>1. m.path \in Seq(Nat \X Command)
        BY <1>0 DEF Path
      <4>2. \A i \in DOMAIN m.path : m.path[i][1] \in Nat /\ m.path[i][1] <= moments
        BY <1>0, <4>1 DEF Numbered
      <4> QED BY <1>0, <1>1, <1>8, <4>2
    <3> QED BY <1>0, <1>1, <1>2, <1>5, <3>1
  <2> QED BY <2>1, <2>2, <2>3, <2>4 DEF Numbered
<1>10. \A s \in Snaps' : s \in Snaps
  BY <1>1, <1>4, SnapsAre
<1>11. Told' /\ Past'
  <2>1. Told'
    BY <1>0, <1>2, <1>5, <1>10 DEF Told
  <2>2. Past'
    BY <1>5, <1>8, <1>10 DEF Past
  <2> QED BY <2>1, <2>2
<1>12. Ordered'
  <2>1. ASSUME NEW w \in flight', w.op = "start"
        PROVE  games'[w.game] = "none" /\ \A v \in flight' : v.op = "start" /\ v.game = w.game => v = w
    <3>1. CASE w = new
      BY <1>1, <1>3, <1>8, <3>1
    <3>2. CASE w \in flight
      BY <1>0, <1>1, <1>3, <1>8, <2>1, <3>2 DEF Ordered
    <3> QED BY <1>1, <3>1, <3>2
  <2>2. \A w \in flight' : w.op \in PurgeOps =>
           /\ w.game = actor'.game => Ended(actor'.path)
           /\ \E m \in lived' : m.game = w.game
    BY <1>0, <1>1, <1>4, <1>5, <1>8 DEF Ordered
  <2>3. games'[actor'.game] # "purged"
    BY <1>1, <1>5, <1>8
  <2> QED BY <2>1, <2>2, <2>3 DEF Ordered
<1>13. Stopped' /\ Bounded'
  <2>1. Len(actor'.window) <= Retention
    BY <1>2, <1>5, DurabilityAssumption
  <2> QED BY <1>0, <1>1, <2>1 DEF Stopped, Bounded
<1>14. /\ Moment' = [game |-> n, path |-> path] /\ Len(actor'.path) = 1
       /\ Moment' \notin lived
  <2>1. Moment' = [game |-> n, path |-> path]
    BY <1>2, <1>5 DEF Moment
  <2> QED BY <1>2, <1>5, <1>8, <2>1
<1> QED BY <1>1, <1>5, <1>7, <1>9, <1>11, <1>12, <1>13, <1>14 DEF DurabilityInv

\* What a command makes of the actor.
LEMMA AppliedIs ==
    ASSUME DurabilityInv, NEW c \in Command
    PROVE  LET path == Append(actor.path, <<moments + 1, c>>)
           IN  Applied(actor, c) =
                   [id |-> actor.id, game |-> actor.game, path |-> path,
                    receipts |-> IF c \in CmdId THEN actor.receipts \cup {c} ELSE actor.receipts,
                    window |-> Recorded(actor.window, path)]
<1> DEFINE path == Append(actor.path, <<moments + 1, c>>)
           b == [id |-> actor.id, game |-> actor.game, path |-> actor.path,
                 receipts |-> actor.receipts, window |-> actor.window]
<1> HIDE DEF path
<1>1. actor = b
  BY Zenon DEF DurabilityInv, Typed
<1>2. Applied(actor, c) = [b EXCEPT !.path = path, !.window = Recorded(@, path),
                                    !.receipts = IF c \in CmdId THEN @ \cup {c} ELSE @]
  BY <1>1, Zenon DEF Applied, path
<1> QED BY <1>1, <1>2 DEF path

\* A command that the receipts do not know adds what they then know.
LEMMA PathTells ==
    ASSUME NEW path \in Path, NEW receipts, Tells(path, receipts), NEW m \in Nat, NEW c \in Command, c \notin receipts
    PROVE  Tells(Append(path, <<m, c>>), IF c \in CmdId THEN receipts \cup {c} ELSE receipts)
<1> DEFINE x == <<m, c>>
           new == Append(path, x)
<1>1. x \in Nat \X Command /\ x[2] = c
  OBVIOUS
<1>2. path \in Seq(Nat \X Command) /\ Len(path) \in Nat /\ DOMAIN path = 1 .. Len(path)
  BY DEF Path
<1>3. Cmds(new) = Cmds(path) \cup {c}
  BY Extended
<1> HIDE DEF x
<1>4. /\ DOMAIN new = 1 .. Len(path) + 1 /\ new[Len(path) + 1] = x
      /\ \A i \in 1 .. Len(path) : new[i] = path[i]
  BY <1>1, <1>2
<1> HIDE DEF new
<1>5. \A i \in DOMAIN new : i \in DOMAIN path \/ i = Len(path) + 1
  BY <1>2, <1>4
<1>6. receipts = CmdId \cap Cmds(path)
      /\ \A i, j \in DOMAIN path : i # j /\ path[i][2] \in CmdId => path[i][2] # path[j][2]
  BY DEF Tells
<1>7. c \in CmdId => \A i \in DOMAIN path : path[i][2] # c
  BY <1>6 DEF Cmds
<1>8. \A i, j \in DOMAIN new : i # j /\ new[i][2] \in CmdId => new[i][2] # new[j][2]
  BY <1>1, <1>2, <1>4, <1>5, <1>6, <1>7
<1> QED BY <1>3, <1>6, <1>8 DEF Tells, new, x

\* A command makes the next moment of the game, never lived before.
LEMMA PlayKeeps ==
    ASSUME DurabilityInv, NEW c \in CmdId \cup {Fresh, "end"}, Play(c)
    PROVE  /\ DurabilityInv' /\ games' = games /\ lived' = lived \cup {Moment'}
           /\ Moment = [game |-> actor.game, path |-> actor.path]
           /\ Moment' = [game |-> actor.game, path |-> actor'.path]
           /\ Len(actor'.path) = Len(actor.path) + 1 /\ Front(actor'.path) = actor.path
           /\ Moment' \notin lived
<1> DEFINE path == Append(actor.path, <<moments + 1, c>>)
           g0 == actor.game
<1>0. /\ Typed /\ Numbered /\ Told /\ Past /\ Ordered /\ Bounded
      /\ begun \in 0 .. MaxGames /\ moments \in Nat /\ flight \subseteq Write /\ MaxGames \in Nat
      /\ lived \subseteq [game : Game, path : Path] /\ actor.path \in Path /\ actor.receipts \subseteq CmdId
  BY DurabilityAssumption DEF DurabilityInv, Typed
<1>1. /\ actor' = Applied(actor, c) /\ InPlay(actor) /\ c \notin actor.receipts
      /\ flight' = flight \cup Sync(actor', actor'.path, 1) /\ moments' = moments + 1 /\ begun' = begun
      /\ lived' = lived \cup {[game |-> actor'.game, path |-> actor'.path]}
      /\ UNCHANGED <<games, saved, kept>> /\ up \in {"up", "stopping"} /\ up' = up
  BY DEF Play, Counted, Serving, database
<1>2. c \in Command
  BY DEF Command
<1>3. /\ path \in Path /\ path # <<>> /\ Len(path) = Len(actor.path) + 1 /\ Front(path) = actor.path
      /\ Last(path)[1] = moments + 1
      /\ \A s \in Path : IsPrefix(s, actor.path) => IsPrefix(s, path)
  BY <1>0, <1>2, Extended
<1>4. /\ actor'.id = actor.id /\ actor'.game = g0 /\ actor'.path = path
      /\ actor'.receipts = (IF c \in CmdId THEN actor.receipts \cup {c} ELSE actor.receipts)
      /\ actor'.window = Recorded(actor.window, path)
      /\ actor' = [id |-> actor'.id, game |-> actor'.game, path |-> actor'.path,
                   receipts |-> actor'.receipts, window |-> actor'.window]
  <2> DEFINE got == IF c \in CmdId THEN actor.receipts \cup {c} ELSE actor.receipts
             win == Recorded(actor.window, path)
  <2>1. actor' = [id |-> actor.id, game |-> g0, path |-> path, receipts |-> got, window |-> win]
    BY <1>1, <1>2, AppliedIs
  <2> HIDE DEF path, got, win
  <2>2. /\ actor'.id = actor.id /\ actor'.game = g0 /\ actor'.path = path
        /\ actor'.receipts = got /\ actor'.window = win
    BY <2>1
  <2>3. actor' = [id |-> actor'.id, game |-> actor'.game, path |-> actor'.path,
                  receipts |-> actor'.receipts, window |-> actor'.window]
    BY <2>1, <2>2
  <2> QED BY <2>2, <2>3 DEF got, win
<1>5. Tells(path, actor'.receipts)
  <2>1. Tells(path, IF c \in CmdId THEN actor.receipts \cup {c} ELSE actor.receipts)
    <3>1. /\ actor.path \in Path /\ Tells(actor.path, actor.receipts) /\ moments + 1 \in Nat
          /\ c \in Command /\ c \notin actor.receipts
      BY <1>0, <1>1, <1>2 DEF Told
    <3> QED BY <3>1, PathTells
  <2> QED BY <1>4, <2>1
<1>6. Window(actor'.window) /\ Len(actor'.window) <= Retention
  BY <1>0, <1>4, RecordedIs DEF Typed
<1> HIDE DEF path
<1>7. g0 \in Game /\ g0 # NoGame /\ actor.path # <<>> /\ ~Ended(actor.path) /\ g0 <= begun
  BY <1>0, <1>1 DEF InPlay, Numbered, Game, NoGame
<1>8. \A v \in flight' : v \in flight \/ Issued(actor', v)
  <2>1. actor'.id \in Game \cup {NoGame}
    BY <1>4, ActorTyped
  <2>2. actor'.receipts \subseteq CmdId
    BY <1>0, <1>4
  <2> QED BY <1>1, <1>3, <1>4, <2>1, <2>2, SyncIssues
<1>9. \A s \in Snaps' : s \in Snaps \/ (s = Snapshot(actor') /\ actor'.id # NoGame)
  BY <1>1, <1>8, SnapsAre DEF Issued
<1>10. [game |-> g0, path |-> path] \in [game : Game, path : Path] /\ lived' = lived \cup {[game |-> g0, path |-> path]}
  BY <1>1, <1>3, <1>4, <1>7
<1>11. Typed'
  <2>1. flight' \subseteq Write
    BY <1>0, <1>8 DEF Issued
  <2>2. actor'.path \in Path /\ actor'.receipts \subseteq CmdId /\ moments' \in Nat
    BY <1>0, <1>1, <1>3, <1>4
  <2>3. /\ games' \in [Game -> {"none", "in_play", "concluded", "purged"}] /\ begun' \in 0 .. MaxGames
        /\ saved' \in [Game -> Snap \cup {Nothing}] /\ kept' \in [Game -> SUBSET Path]
        /\ up' \in {"up", "stopping", "down"}
    BY <1>0, <1>1 DEF Typed
  <2>4. lived' \subseteq [game : Game, path : Path]
    BY <1>0, <1>10
  <2> QED BY <1>4, <1>6, <2>1, <2>2, <2>3, <2>4 DEF Typed
<1>12. Numbered'
  <2>1. actor'.id \in {NoGame, actor'.game} /\ actor'.game \in 0 .. begun' /\ actor'.path # <<>> /\ actor'.game # NoGame
    BY <1>0, <1>1, <1>3, <1>4, <1>7 DEF Numbered
  <2>2. \A w \in flight' : w.game <= begun' /\ (w.op = "record" => w.snap.game = w.game)
    BY <1>0, <1>1, <1>4, <1>7, <1>8, SnapshotIs DEF Numbered, Issued
  <2>3. \A g \in Game : /\ games'[g] # "none" => g <= begun'
                        /\ saved'[g] # Nothing => g <= begun' /\ saved'[g].game = g
    BY <1>0, <1>1 DEF Numbered
  <2>4. \A m \in lived' : m.game <= begun' /\ \A i \in DOMAIN m.path : m.path[i][1] <= moments'
    <3>0. ASSUME NEW m \in lived
          PROVE  /\ m.game <= begun /\ m.path \in Seq(Nat \X Command)
                 /\ \A i \in DOMAIN m.path : m.path[i][1] \in Nat /\ m.path[i][1] <= moments
      <4>1. m.path \in Seq(Nat \X Command)
        BY <1>0 DEF Path
      <4> QED BY <1>0, <4>1 DEF Numbered
    <3>1. ASSUME NEW m \in lived PROVE m.game <= begun' /\ \A i \in DOMAIN m.path : m.path[i][1] <= moments'
      BY <1>0, <1>1, <3>0
    <3>2. \A i \in DOMAIN path : path[i][1] <= moments + 1
      <4>1. [game |-> g0, path |-> actor.path] \in lived
        BY <1>0, <1>7 DEF Told
      <4>2. /\ actor.path \in Seq(Nat \X Command)
            /\ \A i \in DOMAIN actor.path : actor.path[i][1] \in Nat /\ actor.path[i][1] <= moments
        BY <3>0, <4>1
      <4>3. <<moments + 1, c>> \in Nat \X Command /\ <<moments + 1, c>>[1] = moments + 1
        BY <1>0, <1>2
      <4>4. \A i \in DOMAIN path : \/ i \in DOMAIN actor.path /\ path[i] = actor.path[i]
                                   \/ path[i] = <<moments + 1, c>>
        BY <4>2, <4>3 DEF path
      <4> QED BY <1>0, <4>2, <4>3, <4>4
    <3> QED BY <1>1, <1>7, <1>10, <3>1, <3>2
  <2> QED BY <2>1, <2>2, <2>3, <2>4 DEF Numbered
<1>13. Told'
  <2>1. ASSUME NEW s \in Snaps'
        PROVE  /\ Tells(s.path, s.receipts) /\ s.path # <<>>
               /\ [game |-> s.game, path |-> s.path] \in lived'
    <3>1. CASE s \in Snaps
      BY <1>0, <1>10, <3>1 DEF Told
    <3>2. CASE s = Snapshot(actor') /\ actor'.id # NoGame
      <4>1. s.game = g0 /\ s.path = path /\ s.receipts = actor'.receipts
        BY <1>0, <1>4, <3>2, SnapshotIs DEF Numbered
      <4> QED BY <1>3, <1>5, <1>10, <4>1
    <3> QED BY <1>9, <3>1, <3>2
  <2> QED BY <1>4, <1>5, <1>10, <2>1 DEF Told
<1>14. Past'
  <2>1. ASSUME NEW s \in Snaps', s.game = g0 PROVE IsPrefix(s.path, path)
    <3>1. CASE s \in Snaps
      <4>1. s.path \in Path /\ IsPrefix(s.path, actor.path)
        BY <1>0, <2>1, <3>1, SnapsTyped DEF Past, Snap
      <4> QED BY <1>3, <4>1
    <3>2. CASE s = Snapshot(actor')
      BY <1>3, <1>4, <3>2, SnapshotIs, Prefixed DEF Path
    <3> QED BY <1>9, <3>1, <3>2
  <2> QED BY <1>4, <2>1 DEF Past
<1>15. Ordered'
  <2>1. \A w \in flight' : w.op = "start" => w \in flight
    BY <1>8 DEF Issued
  <2>2. ASSUME NEW w \in flight', w.op \in PurgeOps
        PROVE  /\ w.game = actor'.game => Ended(actor'.path)
               /\ \E m \in lived' : m.game = w.game
    <3>1. CASE w \in flight
      BY <1>0, <1>4, <1>7, <1>10, <2>2, <3>1 DEF Ordered
    <3>2. CASE Issued(actor', w)
      <4>1. w.game = g0 /\ Ended(actor'.path)
        BY <1>0, <1>4, <2>2, <3>2 DEF Issued, Numbered
      <4>2. [game |-> g0, path |-> path].game = g0
        OBVIOUS
      <4> QED BY <1>10, <4>1, <4>2
    <3> QED BY <1>8, <3>1, <3>2
  <2>3. games'[actor'.game] # "purged"
    BY <1>0, <1>1, <1>4, <1>7 DEF Ordered
  <2>4. \A w \in flight' : w.op = "start" =>
           games'[w.game] = "none" /\ \A v \in flight' : v.op = "start" /\ v.game = w.game => v = w
    BY <1>0, <1>1, <2>1 DEF Ordered
  <2> QED BY <2>2, <2>3, <2>4 DEF Ordered
<1>16. Stopped' /\ Bounded'
  BY <1>0, <1>1, <1>6 DEF Stopped, Bounded
<1>17. Moment = [game |-> g0, path |-> actor.path] /\ Moment' = [game |-> g0, path |-> path]
  BY <1>3, <1>4, <1>7 DEF Moment
<1>18. Moment' \notin lived
  <2>1. Len(path) \in DOMAIN path /\ path[Len(path)][1] = moments + 1
    BY <1>3 DEF Last, Path
  <2>2. ASSUME [game |-> g0, path |-> path] \in lived PROVE FALSE
    BY <1>0, <2>1, <2>2 DEF Numbered
  <2> QED BY <1>17, <2>2
<1> QED BY <1>1, <1>3, <1>4, <1>10, <1>11, <1>12, <1>13, <1>14, <1>15, <1>16, <1>17, <1>18 DEF DurabilityInv

-----------------------------------------------------------------------------
(* The process ends and starts. *)

\* The actor of a table with no game.
LEMMA NewActorIs ==
    /\ NewActor.id = NoGame /\ NewActor.game = NoGame /\ NewActor.path = <<>>
    /\ NewActor.receipts = {} /\ NewActor.window = <<>>
    /\ <<>> \in Path /\ Window(<<>>) /\ Tells(<<>>, {})
    /\ NewActor = [id |-> NewActor.id, game |-> NewActor.game, path |-> NewActor.path,
                   receipts |-> NewActor.receipts, window |-> NewActor.window]
<1>1. Tells(<<>>, {})
  BY DEF Tells, Cmds
<1> QED BY <1>1 DEF NewActor, Path, Window

\* A process that ends leaves the rows, and no game in memory.
LEMMA GoneKeeps ==
    ASSUME DurabilityInv, Crash \/ Exit
    PROVE  DurabilityInv' /\ Moment' = Nothing /\ lived' = lived /\ games' = games
<1>1. /\ Typed /\ Numbered /\ Told /\ Past /\ Ordered /\ Bounded
      /\ begun \in 0 .. MaxGames /\ moments \in Nat /\ MaxGames \in Nat
  BY DurabilityAssumption DEF DurabilityInv, Typed
<1>2. /\ up' = "down" /\ actor' = NewActor /\ flight' = {}
      /\ UNCHANGED <<games, saved, kept, begun, moments, lived>>
  BY DEF Crash, Exit, Gone, database, history
<1>3. /\ actor'.id = NoGame /\ actor'.game = NoGame /\ actor'.path = <<>>
      /\ actor'.receipts = {} /\ actor'.window = <<>>
  BY <1>2, NewActorIs
<1>4. \A s \in Snaps' : s \in Snaps /\ s.game # NoGame
  <2>1. \A s \in Snaps' : s \in Snaps
    BY <1>2, SnapsAre
  <2> QED BY <1>1, <2>1, SnapsTyped DEF Snap, Game, NoGame
<1>5. Typed'
  <2>1. actor' = [id |-> actor'.id, game |-> actor'.game, path |-> actor'.path,
                  receipts |-> actor'.receipts, window |-> actor'.window]
    BY <1>2, NewActorIs
  <2>2. actor'.path \in Path /\ actor'.receipts \subseteq CmdId /\ Window(actor'.window)
    BY <1>3, NewActorIs
  <2> QED BY <1>1, <1>2, <2>1, <2>2 DEF Typed
<1>6. Numbered'
  <2>1. actor'.id \in {NoGame, actor'.game} /\ actor'.game \in 0 .. begun' /\ actor'.path = <<>> /\ actor'.game = NoGame
    BY <1>1, <1>2, <1>3 DEF NoGame
  <2> QED BY <1>1, <1>2, <2>1 DEF Numbered
<1>7. Told' /\ Past'
  BY <1>1, <1>2, <1>3, <1>4, NewActorIs DEF Told, Past
<1>8. Ordered' /\ Stopped'
  BY <1>2, <1>3 DEF Ordered, Stopped
<1>9. Bounded'
  <2>1. Len(actor'.window) <= Retention
    BY <1>3, DurabilityAssumption
  <2> QED BY <1>1, <1>2, <2>1 DEF Bounded
<1>10. Moment' = Nothing
  BY <1>3 DEF Moment
<1> QED BY <1>2, <1>5, <1>6, <1>7, <1>8, <1>9, <1>10 DEF DurabilityInv

\* A restart takes up a game with a row that has not been purged, if any.
LEMMA LatestIs ==
    ASSUME Latest # NoGame
    PROVE  Latest \in Game /\ games[Latest] # "none" /\ games[Latest] # "purged"
<1>1. Rows # {} /\ games[Max(Rows)] # "purged" /\ Latest = Max(Rows)
  BY DEF Latest
<1>2. Rows \subseteq Game
  BY DEF Rows
<1>3. Max(Rows) \in Rows
  BY <1>1, <1>2, LatestOf
<1> QED BY <1>1, <1>3 DEF Rows

\* What a restart makes of a snapshot and a window.
LEMMA RestoredIs ==
    ASSUME NEW snap, NEW paths
    PROVE  LET a == Restored(snap, paths)
               win == InOrder(paths)
           IN  /\ snap = Nothing => a = [id |-> NoGame, game |-> NoGame, path |-> <<>>, receipts |-> {}, window |-> win]
               /\ snap # Nothing => a = [id |-> snap.game, game |-> snap.game, path |-> snap.path,
                                         receipts |-> snap.receipts, window |-> win]
<1> DEFINE win == InOrder(paths)
<1> HIDE DEF win
<1>1. Restored(snap, paths) = [(IF snap = Nothing THEN NewActor
             ELSE [NewActor EXCEPT !.id = snap.game, !.game = snap.game, !.path = snap.path,
                                   !.receipts = snap.receipts]) EXCEPT !.window = win]
  BY Zenon DEF Restored, win
<1>2. NewActor = [id |-> NoGame, game |-> NoGame, path |-> <<>>, receipts |-> {}, window |-> <<>>]
  BY Zenon DEF NewActor
<1>3. CASE snap = Nothing
  <2>1. Restored(snap, paths) = [NewActor EXCEPT !.window = win]
    BY <1>1, <1>3, Zenon
  <2> QED BY <1>2, <1>3, <2>1 DEF win
<1>4. CASE snap # Nothing
  <2>1. Restored(snap, paths) =
            [[NewActor EXCEPT !.id = snap.game, !.game = snap.game, !.path = snap.path,
                              !.receipts = snap.receipts] EXCEPT !.window = win]
    BY <1>1, <1>4, Zenon
  <2> QED BY <1>2, <1>4, <2>1 DEF win
<1> QED BY <1>3, <1>4 DEF win

\* A restart brings back a lived moment of a game not purged, or none.
LEMMA BootKeeps ==
    ASSUME DurabilityInv, Boot
    PROVE  /\ DurabilityInv' /\ lived' = lived /\ games' = games /\ Moment = Nothing
           /\ \/ Moment' = Nothing
              \/ \E g \in Game : /\ games[g] # "purged" /\ Moment'.game = g
                                 /\ Moment' \in lived
<1>1. /\ Typed /\ Numbered /\ Told /\ Past /\ Bounded /\ actor = NewActor /\ flight = {}
      /\ begun \in 0 .. MaxGames /\ moments \in Nat /\ MaxGames \in Nat
      /\ kept \in [Game -> SUBSET Path] /\ saved \in [Game -> Snap \cup {Nothing}]
      /\ games \in [Game -> {"none", "in_play", "concluded", "purged"}]
  BY DurabilityAssumption DEF DurabilityInv, Typed, Stopped, Boot
<1>2. /\ up' = "up" /\ UNCHANGED <<games, saved, kept, begun, moments, lived, flight>>
      /\ actor' = IF Latest = NoGame THEN NewActor ELSE Restored(saved[Latest], kept[Latest])
  BY DEF Boot, database, history
<1>3. Moment = Nothing
  BY <1>1, NewActorIs DEF Moment
<1>4. \A s \in Snaps' : s \in Snaps
  BY <1>2, SnapsAre
<1>5. \A s \in Snaps : s \in Snap /\ s.game \in Game /\ s.game # NoGame /\ s.path \in Path /\ s.receipts \subseteq CmdId
  BY <1>1, SnapsTyped DEF Snap, Game, NoGame
<1> DEFINE Fits == /\ actor' = [id |-> actor'.id, game |-> actor'.game, path |-> actor'.path,
                               receipts |-> actor'.receipts, window |-> actor'.window]
                   /\ Window(actor'.window) /\ Len(actor'.window) <= Retention
                   /\ \/ /\ actor'.id = NoGame /\ actor'.game = NoGame /\ actor'.path = <<>>
                         /\ actor'.receipts = {}
                      \/ \E s \in Snaps : /\ actor'.id = s.game /\ actor'.game = s.game
                                          /\ actor'.path = s.path /\ actor'.receipts = s.receipts
                                          /\ saved[s.game] = s /\ games[s.game] # "purged"
<1>6. Fits
  <2>1. CASE Latest = NoGame
    BY <1>2, <2>1, NewActorIs, DurabilityAssumption
  <2>2. CASE Latest # NoGame
    <3> DEFINE win == InOrder(kept[Latest])
               snap == saved[Latest]
    <3>1. Latest \in Game /\ games[Latest] # "purged" /\ actor' = Restored(snap, kept[Latest])
      BY <1>2, <2>2, LatestIs
    <3>2. Window(win) /\ Len(win) <= Retention
      BY <1>1, <3>1, InOrderIs DEF Bounded
    <3>3. /\ snap = Nothing => actor' = [id |-> NoGame, game |-> NoGame, path |-> <<>>, receipts |-> {}, window |-> win]
          /\ snap # Nothing => actor' = [id |-> snap.game, game |-> snap.game, path |-> snap.path,
                                         receipts |-> snap.receipts, window |-> win]
      BY <3>1, RestoredIs
    <3>4. snap # Nothing => snap \in Snaps /\ snap.game = Latest
      BY <1>1, <3>1, SnapsAre DEF Numbered
    <3> HIDE DEF win, snap
    <3>5. CASE snap = Nothing
      BY <3>2, <3>3, <3>5
    <3>6. CASE snap # Nothing
      <4>1. /\ actor'.id = snap.game /\ actor'.game = snap.game /\ actor'.path = snap.path
            /\ actor'.receipts = snap.receipts /\ actor'.window = win
        BY <3>3, <3>6
      <4>2. actor' = [id |-> actor'.id, game |-> actor'.game, path |-> actor'.path,
                      receipts |-> actor'.receipts, window |-> actor'.window]
        BY <3>3, <3>6, <4>1
      <4>3. saved[snap.game] = snap /\ games[snap.game] # "purged" /\ snap \in Snaps
        BY <3>1, <3>4, <3>6 DEF snap
      <4> QED BY <3>2, <4>1, <4>2, <4>3
    <3> QED BY <3>5, <3>6
  <2> QED BY <2>1, <2>2
<1> HIDE DEF Fits
<1>7. CASE actor'.id = NoGame /\ actor'.game = NoGame /\ actor'.path = <<>> /\ actor'.receipts = {}
  <2>1. Typed'
    BY <1>1, <1>2, <1>6, <1>7, NewActorIs DEF Typed, Fits
  <2>2. Numbered'
    <3>1. actor'.id \in {NoGame, actor'.game} /\ actor'.game \in 0 .. begun' /\ actor'.path = <<>> /\ actor'.game = NoGame
      BY <1>1, <1>2, <1>7 DEF NoGame
    <3> QED BY <1>1, <1>2, <3>1 DEF Numbered
  <2>3. Told' /\ Past'
    BY <1>1, <1>2, <1>4, <1>5, <1>7, NewActorIs DEF Told, Past
  <2>4. Ordered' /\ Stopped' /\ Bounded'
    BY <1>1, <1>2, <1>6, <1>7 DEF Ordered, Stopped, Bounded, Fits
  <2>5. Moment' = Nothing
    BY <1>7 DEF Moment
  <2> QED BY <1>2, <1>3, <2>1, <2>2, <2>3, <2>4, <2>5 DEF DurabilityInv
<1>8. ASSUME NEW s \in Snaps, saved[s.game] = s, games[s.game] # "purged",
             actor'.id = s.game, actor'.game = s.game, actor'.path = s.path, actor'.receipts = s.receipts
      PROVE  /\ DurabilityInv' /\ Moment' \in lived /\ Moment'.game = s.game
  <2>1. /\ s \in Snap /\ s.game \in Game /\ s.game # NoGame /\ s.path \in Path /\ s.receipts \subseteq CmdId
        /\ Tells(s.path, s.receipts) /\ s.path # <<>> /\ [game |-> s.game, path |-> s.path] \in lived
    BY <1>1, <1>5 DEF Told
  <2>2. s.game \in 0 .. begun
    <3>1. [game |-> s.game, path |-> s.path].game <= begun
      BY <1>1, <2>1 DEF Numbered
    <3> QED BY <1>1, <2>1, <3>1 DEF Game
  <2>3. Typed'
    BY <1>1, <1>2, <1>6, <1>8, <2>1 DEF Typed, Fits
  <2>4. Numbered'
    <3>1. actor'.id \in {NoGame, actor'.game} /\ actor'.game \in 0 .. begun' /\ actor'.path # <<>> /\ actor'.game # NoGame
      BY <1>2, <1>8, <2>1, <2>2
    <3> QED BY <1>1, <1>2, <3>1 DEF Numbered
  <2>5. Told'
    BY <1>1, <1>2, <1>4, <1>8, <2>1 DEF Told
  <2>6. Past'
    <3>1. ASSUME NEW x \in Snaps', x.game = s.game PROVE IsPrefix(x.path, s.path)
      <4>1. x \in Snaps /\ x.game \in Game
        BY <1>4, <1>5
      <4>2. x = s
        <5>1. \E g \in Game : saved[g] = x /\ x # Nothing
          BY <1>1, <4>1, SnapsAre
        <5>2. saved[x.game] = x
          BY <1>1, <5>1 DEF Numbered
        <5> QED BY <1>8, <3>1, <5>2
      <4> QED BY <2>1, <4>2, Prefixed DEF Path
    <3> QED BY <1>8, <3>1 DEF Past
  <2>7. Ordered' /\ Stopped' /\ Bounded'
    BY <1>1, <1>2, <1>6, <1>8 DEF Ordered, Stopped, Bounded, Fits
  <2>8. Moment' = [game |-> s.game, path |-> s.path]
    BY <1>8, <2>1 DEF Moment
  <2> QED BY <2>1, <2>3, <2>4, <2>5, <2>6, <2>7, <2>8 DEF DurabilityInv
<1> QED BY <1>2, <1>3, <1>5, <1>6, <1>7, <1>8 DEF Fits

-----------------------------------------------------------------------------
(* The invariant and the refinement. *)

\* An empty database and a new actor satisfy the invariant.
LEMMA InitDurable == Init => DurabilityInv /\ RecoveryLog!Init
<1> SUFFICES ASSUME Init PROVE DurabilityInv /\ RecoveryLog!Init
  OBVIOUS
<1>1. /\ up = "up" /\ actor = NewActor /\ games = [g \in Game |-> "none"]
      /\ saved = [g \in Game |-> Nothing] /\ kept = [g \in Game |-> {}] /\ flight = {}
      /\ begun = 0 /\ moments = 0 /\ lived = {}
  BY DEF Init
<1>2. MaxGames \in Nat /\ Retention \in Nat
  BY DurabilityAssumption
<1>3. Snaps = {}
  BY <1>1, SnapsAre
<1>4. Typed /\ Numbered
  BY <1>1, <1>2, NewActorIs DEF Typed, Numbered, NoGame
<1>5. Told /\ Past /\ Ordered /\ Stopped
  BY <1>1, <1>3, NewActorIs DEF Told, Past, Ordered, Stopped
<1>6. Bounded
  BY <1>1, <1>2, NewActorIs, FS_EmptySet DEF Bounded
<1>7. RecoveryLog!Init
  BY <1>1, NewActorIs DEF RecoveryLog!Init, Moment
<1> QED BY <1>4, <1>5, <1>6, <1>7 DEF DurabilityInv

\* The steps of Recovery.
Dead == {g \in Game : games[g] = "purged"}

\* What Recovery allows in a step.
Recovers ==
    \/ RecoveryLog!Begin \/ RecoveryLog!Extend \/ RecoveryLog!Purge
    \/ RecoveryLog!Down \/ RecoveryLog!Up
    \/ UNCHANGED <<Moment, lived, Dead>>

\* A moment is a record, and so not Nothing.
LEMMA MomentIs ==
    ASSUME NEW m \in lived', lived' \subseteq [game : Game, path : Path]
    PROVE  m # Nothing
<1>1. m \in [game : Game, path : Path]
  OBVIOUS
<1>2. Nothing \notin [game : Game, path : Path]
  BY DurabilityAssumption
<1> QED BY <1>1, <1>2

\* A step that leaves the game in memory, and what is purged, is a stutter of it.
LEMMA CalmRecovers ==
    ASSUME DurabilityInv, Calm, \A g \in Game : games'[g] = "purged" <=> games[g] = "purged"
    PROVE  DurabilityInv' /\ Recovers
<1>1. Dead' = Dead
  BY DEF Dead
<1> QED BY <1>1, CalmKeeps DEF Recovers

\* Every step keeps the invariant and is one of Recovery.
LEMMA NextDurable == DurabilityInv /\ [Next]_vars => DurabilityInv' /\ Recovers
<1> SUFFICES ASSUME DurabilityInv, [Next]_vars PROVE DurabilityInv' /\ Recovers
  OBVIOUS
<1>1. CASE Start
  <2>1. /\ DurabilityInv' /\ games' = games /\ lived' = lived \cup {Moment'}
        /\ Moment' = [game |-> actor'.game, path |-> actor'.path]
        /\ Len(actor'.path) = 1 /\ Moment' \notin lived
    BY <1>1, StartKeeps
  <2>2. Moment' # Nothing
    BY <2>1, MomentIs DEF DurabilityInv, Typed
  <2>3. Len(Moment'.path) = 1 /\ Dead' = Dead
    BY <2>1 DEF Dead
  <2>4. RecoveryLog!Begin
    BY <2>1, <2>2, <2>3 DEF RecoveryLog!Begin, RecoveryLog!Lived, Dead
  <2> QED BY <2>1, <2>4 DEF Recovers
<1>2. ASSUME NEW c \in CmdId \cup {Fresh, "end"}, Play(c) PROVE DurabilityInv' /\ Recovers
  <2>1. /\ DurabilityInv' /\ games' = games /\ lived' = lived \cup {Moment'}
        /\ Moment = [game |-> actor.game, path |-> actor.path]
        /\ Moment' = [game |-> actor.game, path |-> actor'.path]
        /\ Len(actor'.path) = Len(actor.path) + 1 /\ Front(actor'.path) = actor.path
        /\ Moment' \notin lived
    BY <1>2, PlayKeeps
  <2>2. Moment' # Nothing
    BY <2>1, MomentIs DEF DurabilityInv, Typed
  <2>3. Moment # Nothing
    <3>1. actor.path # <<>>
      BY <1>2 DEF Play, InPlay
    <3>2. Moment \in lived /\ Moment \in [game : Game, path : Path]
      BY <2>1, <3>1 DEF DurabilityInv, Typed, Told
    <3> QED BY <3>2, DurabilityAssumption
  <2>4. /\ Moment'.game = Moment.game /\ Len(Moment'.path) = Len(Moment.path) + 1
        /\ Front(Moment'.path) = Moment.path /\ Dead' = Dead
    BY <2>1 DEF Dead
  <2>5. RecoveryLog!Lived /\ Moment' \notin lived
    BY <2>1, <2>2 DEF RecoveryLog!Lived
  <2>6. RecoveryLog!Extend
    <3>1. RecoveryLog!Front(Moment'.path) = Moment.path
      BY <2>4 DEF RecoveryLog!Front, Front
    <3> QED BY <2>3, <2>4, <2>5, <3>1, Zenon DEF RecoveryLog!Extend, Dead
  <2> QED BY <2>1, <2>6 DEF Recovers
<1>3. CASE (\E c \in CmdId : Repeat(c)) \/ Ready \/ Stop
  BY <1>3, CommandsCalm, CalmRecovers
<1>4. ASSUME NEW w \in flight, Fail(w) PROVE DurabilityInv' /\ Recovers
  BY <1>4, FailCalm, CalmRecovers
<1>5. ASSUME NEW w \in flight, Land(w) PROVE DurabilityInv' /\ Recovers
  <2>1. CASE LandStart(w)
    BY <1>5, <2>1, LandStartCalm, CalmRecovers
  <2>2. CASE LandRecord(w)
    BY <1>5, <2>2, LandRecordCalm, CalmRecovers
  <2>3. CASE LandWindow(w)
    BY <1>5, <2>3, LandWindowCalm, CalmRecovers
  <2>4. CASE LandConclude(w) \/ LandDelete(w) \/ LandDeleteWindow(w)
    BY <1>5, <2>4, LandPurgingCalm, CalmRecovers
  <2>5. CASE LandPurge(w)
    <3>1. Calm /\ (\E m \in lived : m.game = w.game) /\ w.game \in Game
      BY <1>5, <2>5, LandPurgeCalm, LandIs
    <3>2. CASE games' = games
      BY <3>1, <3>2, CalmRecovers
    <3>3. CASE \A g \in Game : games'[g] = "purged" <=> games[g] = "purged" \/ g = w.game
      <4>1. Dead' = Dead \cup {w.game}
        BY <3>1, <3>3 DEF Dead
      <4>2. DurabilityInv' /\ Moment' = Moment /\ lived' = lived
        BY <3>1, CalmKeeps
      <4>3. w.game \in {m.game : m \in lived}
        BY <3>1
      <4>4. RecoveryLog!Purge
        BY <4>1, <4>2, <4>3 DEF RecoveryLog!Purge, Dead
      <4> QED BY <4>2, <4>4 DEF Recovers
    <3> QED BY <1>5, <2>5, <3>2, <3>3, LandPurgeCalm
  <2> QED BY <1>5, <2>1, <2>2, <2>3, <2>4, <2>5 DEF Land
<1>6. CASE Crash \/ Exit
  <2>1. DurabilityInv' /\ Moment' = Nothing /\ lived' = lived /\ games' = games
    BY <1>6, GoneKeeps
  <2>2. RecoveryLog!Down
    BY <2>1 DEF RecoveryLog!Down
  <2> QED BY <2>1, <2>2 DEF Recovers
<1>7. CASE Boot
  <2>1. /\ DurabilityInv' /\ lived' = lived /\ games' = games /\ Moment = Nothing
        /\ \/ Moment' = Nothing
           \/ \E g \in Game : /\ games[g] # "purged" /\ Moment'.game = g /\ Moment' \in lived
    BY <1>7, BootKeeps
  <2>2. Dead' = Dead
    BY <2>1 DEF Dead
  <2>3. CASE Moment' = Nothing
    BY <2>1, <2>2, <2>3 DEF Recovers
  <2>4. CASE \E g \in Game : /\ games[g] # "purged" /\ Moment'.game = g /\ Moment' \in lived
    <3>1. RecoveryLog!Up
      BY <2>1, <2>2, <2>4 DEF RecoveryLog!Up, Dead
    <3> QED BY <2>1, <3>1 DEF Recovers
  <2> QED BY <2>1, <2>3, <2>4
<1>8. CASE UNCHANGED vars
  <2>1. /\ UNCHANGED <<up, actor, games, saved, kept, flight, begun, moments, lived>>
    BY <1>8 DEF vars
  <2>2. Typed' /\ Numbered' /\ Ordered' /\ Stopped' /\ Bounded'
    BY <2>1 DEF DurabilityInv, Typed, Numbered, Ordered, Stopped, Bounded
  <2>3. \A s \in Snaps' : s \in Snaps
    BY <2>1, SnapsAre
  <2>4. Told' /\ Past'
    BY <2>1, <2>3 DEF DurabilityInv, Told, Past
  <2>5. Moment' = Moment /\ lived' = lived /\ Dead' = Dead
    BY <2>1 DEF Moment, Dead
  <2> QED BY <2>2, <2>4, <2>5 DEF DurabilityInv, Recovers
<1> QED BY <1>1, <1>2, <1>3, <1>4, <1>5, <1>6, <1>7, <1>8 DEF Next

\* DurabilityInv is an invariant, whatever order the writes land in, whichever
\* of them fail, and however often the process ends.
THEOREM DurabilityInvariant == Spec => []DurabilityInv
<1>1. Init => DurabilityInv
  BY InitDurable
<1>2. DurabilityInv /\ [Next]_vars => DurabilityInv'
  BY NextDurable
<1> QED BY <1>1, <1>2, PTL DEF Spec

\* The actor, the rows and the windows keep their types, and the windows their bound.
THEOREM TypeCorrect == Spec => []DurabilityTypeOK
<1>1. DurabilityInv => DurabilityTypeOK
  BY DEF DurabilityInv, Typed, Numbered, Bounded, DurabilityTypeOK
<1> QED BY <1>1, DurabilityInvariant, PTL

\* The row of the game in play is an earlier state of its very history, with the
\* receipts of that state.
THEOREM RowIsOfThePast == Spec => []RowTellsThePast
<1>1. DurabilityInv => RowTellsThePast
  <2> SUFFICES ASSUME DurabilityInv, actor.id # NoGame, saved[actor.id] # Nothing
               PROVE  LET row == saved[actor.id]
                      IN  /\ IsPrefix(row.path, actor.path)
                          /\ row.receipts = CmdId \cap {row.path[i][2] : i \in DOMAIN row.path}
    BY DEF RowTellsThePast
  <2>1. actor.id \in Game /\ actor.id = actor.game /\ saved[actor.id].game = actor.id
    BY ActorTyped DEF DurabilityInv, Numbered
  <2>2. saved[actor.id] \in Snaps
    BY <2>1, SnapsAre
  <2> QED BY <2>1, <2>2 DEF DurabilityInv, Told, Past, Tells, Cmds
<1> QED BY <1>1, DurabilityInvariant, PTL

\* No retransmitted command stands twice in the history of the game in memory,
\* whatever was lost of it.
THEOREM AppliedOnceEver == Spec => []OnceInHistory
<1>1. DurabilityInv => OnceInHistory
  BY DEF DurabilityInv, Told, Tells, OnceInHistory
<1> QED BY <1>1, DurabilityInvariant, PTL

\* A purged game is not played again.
THEOREM PurgedNeverPlayed == Spec => []PurgedStaysDead
<1>1. DurabilityInv => PurgedStaysDead
  <2> SUFFICES ASSUME DurabilityInv, InPlay(actor) PROVE games[actor.game] # "purged"
    BY DEF PurgedStaysDead
  <2>1. actor.game # NoGame /\ ~Ended(actor.path)
    BY DEF DurabilityInv, Numbered, InPlay
  <2> QED BY <2>1 DEF DurabilityInv, Ordered
<1> QED BY <1>1, DurabilityInvariant, PTL

\* Restarts bring back only moments that were lived, of games not purged: the
\* durable side implements Recovery.
THEOREM RecoveryImplemented == Spec => BringsBackThePast
<1>1. Init => RecoveryLog!Init
  BY InitDurable
<1>2. DurabilityInv /\ [Next]_vars =>
        [RecoveryLog!Begin \/ RecoveryLog!Extend \/ RecoveryLog!Purge \/ RecoveryLog!Down
            \/ RecoveryLog!Up]_<<Moment, lived, {g \in Game : games[g] = "purged"}>>
  BY NextDurable DEF Recovers, Dead
<1> QED BY <1>1, <1>2, DurabilityInvariant, PTL DEF Spec, BringsBackThePast, RecoveryLog!Spec
=============================================================================
