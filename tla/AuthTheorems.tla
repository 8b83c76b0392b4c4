---------------------------- MODULE AuthTheorems ----------------------------
(***************************************************************************)
(* Accounts, sessions and second factors for every set of requests, every  *)
(* duration of the locks, windows and sessions, every drift and threshold: *)
(* sessions that are over stay over, and as long as no two requests held   *)
(* the same count, every failed attempt is counted.                        *)
(***************************************************************************)
EXTENDS Auth, WellFoundedInduction, TLAPS

\* A non-empty set of natural numbers has a least element.
LEMMA LeastNatural ==
    ASSUME NEW T, T \subseteq Nat, T # {}
    PROVE  \E x \in T : \A y \in T : x <= y
<1>1. \E x \in T : \A y \in T : ~(<<y, x>> \in OpToRel(<, Nat))
  BY NatLessThanWellFounded, WFMin
<1>2. PICK x \in T : \A y \in T : ~(<<y, x>> \in OpToRel(<, Nat))
  BY <1>1
<1>3. ASSUME NEW y \in T PROVE x <= y
  <2>1. x \in Nat /\ y \in Nat /\ <<y, x>>[1] = y /\ <<y, x>>[2] = x
    BY <1>2
  <2>2. ~(<<y, x>>[1] < <<y, x>>[2])
    BY <1>2, <2>1, Zenon DEF OpToRel
  <2>3. ~(y < x)
    BY <2>1, <2>2
  <2> QED BY <2>1, <2>3
<1> QED BY <1>2, <1>3

\* The first n doublings, as a table.
DoublesTo(g, n) == g[0] = 1 /\ \A i \in 1 .. n : g[i] = 2 * g[i - 1]

\* Two tables of doublings agree as far as both go.
LEMMA TablesAgree ==
    ASSUME NEW m \in Nat, NEW n \in Nat,
           NEW g \in [0 .. m -> Nat], NEW h \in [0 .. n -> Nat],
           DoublesTo(g, m), DoublesTo(h, n), NEW i \in Nat, i <= m, i <= n
    PROVE  g[i] = h[i]
<1> DEFINE T == {j \in Nat : j <= m /\ j <= n /\ g[j] # h[j]}
<1> SUFFICES ASSUME T # {} PROVE FALSE
  OBVIOUS
<1>1. PICK j \in T : \A k \in T : j <= k
  <2> HIDE DEF T
  <2>1. T \subseteq Nat
    BY DEF T
  <2> QED BY <2>1, LeastNatural, Zenon
<1>2. CASE j = 0
  BY <1>1, <1>2 DEF DoublesTo
<1>3. CASE j # 0
  <2>1. j - 1 \in Nat /\ j - 1 <= m /\ j - 1 <= n /\ j - 1 \notin T /\ j \in 1 .. m /\ j \in 1 .. n
    BY <1>1, <1>3
  <2>2. g[j - 1] = h[j - 1]
    BY <2>1
  <2>3. g[j] = 2 * g[j - 1] /\ h[j] = 2 * h[j - 1]
    BY <2>1 DEF DoublesTo
  <2> QED BY <1>1, <2>2, <2>3
<1> QED BY <1>2, <1>3

\* There is a table of any length.
LEMMA TableExists ==
    ASSUME NEW n \in Nat
    PROVE  \E g \in [0 .. n -> Nat] : DoublesTo(g, n)
<1> DEFINE T == {m \in Nat : ~\E g \in [0 .. m -> Nat] : DoublesTo(g, m)}
<1> SUFFICES ASSUME T # {} PROVE FALSE
  OBVIOUS
<1>1. PICK m \in T : \A k \in T : m <= k
  <2> HIDE DEF T
  <2>1. T \subseteq Nat
    BY DEF T
  <2> QED BY <2>1, LeastNatural, Zenon
<1>2. CASE m = 0
  <2> DEFINE g == [i \in 0 .. 0 |-> 1]
  <2>1. g \in [0 .. 0 -> Nat] /\ DoublesTo(g, 0)
    BY DEF DoublesTo
  <2> QED BY <1>1, <1>2, <2>1
<1>3. CASE m # 0
  <2>1. m - 1 \in Nat /\ m - 1 \notin T
    BY <1>1, <1>3
  <2>2. PICK g \in [0 .. m - 1 -> Nat] : DoublesTo(g, m - 1)
    BY <2>1
  <2> DEFINE h == [i \in 0 .. m |-> IF i = m THEN 2 * g[m - 1] ELSE g[i]]
  <2>3. h \in [0 .. m -> Nat]
    BY <1>1, <2>1, <2>2
  <2>4. DoublesTo(h, m)
    <3>1. h[0] = 1
      BY <1>1, <1>3, <2>1, <2>2 DEF DoublesTo
    <3>2. ASSUME NEW i \in 1 .. m PROVE h[i] = 2 * h[i - 1]
      <4>1. i \in 0 .. m /\ i - 1 \in 0 .. m /\ i - 1 # m /\ h[i - 1] = g[i - 1]
        BY <1>1
      <4>2. CASE i = m
        BY <4>1, <4>2
      <4>3. CASE i # m
        <5>1. i \in 1 .. m - 1 /\ h[i] = g[i]
          BY <1>1, <4>1, <4>3
        <5> QED BY <2>2, <4>1, <5>1 DEF DoublesTo
      <4> QED BY <4>2, <4>3
    <3> QED BY <3>1, <3>2 DEF DoublesTo
  <2> QED BY <1>1, <2>3, <2>4
<1> QED BY <1>2, <1>3

\* The recursive definition has a solution in the natural numbers.
LEMMA DoublingsDef ==
    /\ Doublings \in [Nat -> Nat]
    /\ \A n \in Nat : Doublings[n] = IF n = 0 THEN 1 ELSE 2 * Doublings[n - 1]
<1> DEFINE t == [n \in Nat |-> CHOOSE g \in [0 .. n -> Nat] : DoublesTo(g, n)]
           f == [n \in Nat |-> t[n][n]]
<1>1. \A n \in Nat : t[n] \in [0 .. n -> Nat] /\ DoublesTo(t[n], n)
  BY TableExists
<1> HIDE DEF t
<1>2. f \in [Nat -> Nat]
  BY <1>1
<1>3. ASSUME NEW n \in Nat PROVE f[n] = IF n = 0 THEN 1 ELSE 2 * f[n - 1]
  <2>1. CASE n = 0
    BY <1>1, <2>1 DEF DoublesTo
  <2>2. CASE n # 0
    <3>1. n - 1 \in Nat /\ n \in 1 .. n /\ n - 1 <= n /\ n - 1 <= n - 1
      BY <2>2
    <3>2. t[n][n] = 2 * t[n][n - 1]
      BY <1>1, <3>1 DEF DoublesTo
    <3>3. t[n][n - 1] = t[n - 1][n - 1]
      BY <1>1, <3>1, TablesAgree
    <3> QED BY <2>2, <3>1, <3>2, <3>3
  <2> QED BY <2>1, <2>2
<1>4. f = [n \in Nat |-> IF n = 0 THEN 1 ELSE 2 * f[n - 1]]
  <2> HIDE DEF f
  <2>1. DOMAIN f = Nat /\ f = [n \in Nat |-> f[n]]
    BY <1>2
  <2> QED BY <1>3, <2>1
<1> HIDE DEF f
<1>5. Doublings = [n \in Nat |-> IF n = 0 THEN 1 ELSE 2 * Doublings[n - 1]]
  BY <1>4 DEF Doublings
<1>6. \A n \in Nat : Doublings[n] = IF n = 0 THEN 1 ELSE 2 * Doublings[n - 1]
  BY <1>5
<1>7. Doublings \in [Nat -> Nat]
  <2> DEFINE T == {n \in Nat : Doublings[n] \notin Nat}
  <2>1. T = {}
    <3> SUFFICES ASSUME T # {} PROVE FALSE
      OBVIOUS
    <3>1. PICK m \in T : \A k \in T : m <= k
      <4> HIDE DEF T
      <4>1. T \subseteq Nat
        BY DEF T
      <4> QED BY <4>1, LeastNatural, Zenon
    <3>2. m # 0
      BY <1>6, <3>1
    <3>3. m - 1 \in Nat /\ m - 1 \notin T
      BY <3>1, <3>2
    <3> QED BY <1>6, <3>1, <3>2, <3>3
  <2> QED BY <1>5, <2>1
<1> QED BY <1>6, <1>7

\* The assumption, one duration at a time.
LEMMA Durations ==
    /\ Absolute \in Nat /\ Limit \in Nat /\ Limit >= 1 /\ Period \in Nat /\ Threshold \in Nat
    /\ Threshold >= 1 /\ BaseLock \in Nat /\ MaxLock \in Nat /\ Drift \in Nat
BY DurationsAssumption

\* A lock begins now and lasts at most MaxLock; it is made by Threshold failures.
LEMMA LockBounded ==
    ASSUME NEW n \in Nat, NEW now \in Nat
    PROVE  /\ LockAfter(n, now) \in Nat
           /\ LockAfter(n, now) <= now + MaxLock
           /\ n >= Threshold => LockAfter(n, now) >= now
<1>1. CASE n < Threshold
  BY <1>1, DurationsAssumption DEF LockAfter, Never
<1>2. CASE n >= Threshold
  <2>1. n \div Threshold - 1 \in Nat
    BY <1>2, DurationsAssumption, Z3
  <2> DEFINE d == Doublings[n \div Threshold - 1]
  <2>2. d \in Nat
    BY <2>1, DoublingsDef
  <2>3. LockAfter(n, now) = now + Min2(BaseLock * d, MaxLock)
    BY <1>2, DurationsAssumption DEF LockAfter
  <2> HIDE DEF d
  <2>4. BaseLock * d \in Nat
    BY <2>2, DurationsAssumption
  <2> QED BY <2>3, <2>4, DurationsAssumption DEF Min2
<1> QED BY <1>1, <1>2, DurationsAssumption

\* The rows and the requests.
Account == [word : Nat, status : {Active, Disabled}, failed : Nat, lockedUntil : Nat,
            changes : Nat, since : Nat, mfaFailed : Nat, mfaLocked : Nat, lastStep : Nat]
Row == [seen : Nat, expires : Nat, revoked : BOOLEAN, verified : BOOLEAN]

\* The statements a request with a session comes to, and the others.
OfSession == {"find_session", "find_owner", "touch", "revoke", "change", "attempt", "replace",
              "revoke_others", "mfa", "mfa_charge", "mfa_clear", "mfa_step", "mfa_mark"}
OfNone == {"done", "find", "charge", "clear", "issue", "status", "revoke_all"}
Request == [op : Operations \cup {"none", "login", Active, Disabled},
            at : OfSession \cup OfNone, sid : Nat, arg : Nat, late : BOOLEAN,
            seen : Nat, read : Account, old : SUBSET Nat]
Tally == [wrong : Nat, changes : Nat, codes : Nat, steps : Seq(Nat)]

\* Every row, request and tally has its fields.
Typed ==
    /\ account \in Account /\ session \in Seq(Row)
    /\ clock \in Nat \ {0} /\ words \in Nat \ {0}
    /\ req \in [Req -> Request]
    /\ tally \in Tally /\ raced \in BOOLEAN /\ ended \in SUBSET Nat

\* What a request knows when it comes to a statement.
KnowsSession(r) ==
    /\ req[r].at \in OfSession => req[r].sid \in Sessions /\ req[r].op \in Operations
    /\ req[r].sid \in Sessions \cup {NoSession}
    /\ req[r].op = "revoke" => req[r].arg \in Sessions
    /\ req[r].at = "revoke" => req[r].op = "revoke"
    /\ req[r].at = "status" => req[r].op \in {Active, Disabled}
    /\ req[r].at = "revoke_others" => req[r].old \subseteq Sessions \ {req[r].sid}
    /\ req[r].at = "revoke_all" => req[r].old \subseteq Sessions
    /\ req[r].late => /\ req[r].at = "find_session"
                      /\ session[req[r].sid].revoked \/ session[req[r].sid].expires <= clock

\* What was said to have ended is revoked.
Ends ==
    /\ \A r \in Req : KnowsSession(r)
    /\ ended \subseteq Sessions /\ \A s \in ended : session[s].revoked

\* What a request read, it read by now, and a code it carries on with was valid.
OnTime(r) ==
    /\ req[r].seen <= clock
    /\ req[r].at = "touch" => req[r].seen >= 1
    /\ req[r].at = "attempt" => MayChange(req[r].read, req[r].seen) /\ req[r].read.since <= clock
    /\ req[r].at \in {"mfa_clear", "mfa_step", "mfa_mark"} => req[r].arg <= clock + Drift

\* No row holds a time beyond what its bounds allow from now.
InTime ==
    /\ account.word \in 1 .. words /\ account.changes <= Limit /\ account.since <= clock
    /\ account.lockedUntil <= clock + MaxLock /\ account.mfaLocked <= clock + MaxLock
    /\ account.lastStep <= clock + Drift
    /\ \A s \in Sessions : session[s].seen \in 1 .. clock
    /\ \A r \in Req : OnTime(r)

\* The counts the row keeps are those of the history, a request holds the count
\* as the row has it, and no two requests hold the same one.
CountsAgree ==
    /\ account.failed = tally.wrong /\ account.changes = tally.changes
    /\ account.mfaFailed = tally.codes
HoldsCount(r) ==
    /\ req[r].at \in {"charge", "clear"} => req[r].read.failed = account.failed
    /\ req[r].at = "attempt" => req[r].read.changes = account.changes
    /\ req[r].at = "mfa_charge" => req[r].read.mfaFailed = account.mfaFailed
OneHolder == \A r, q \in Req : Holding(r) = Holding(q) /\ Holding(r) # "none" => r = q

Counted == ~raced => CountsAgree /\ (\A r \in Req : HoldsCount(r)) /\ OneHolder

\* The steps used are behind the row's last step, a valid code is ahead of it, and
\* a code about to be marked is behind it and not used.
NewStep(r) == req[r].at \in {"mfa_clear", "mfa_step"} => req[r].arg > account.lastStep

\* A code about to be marked is behind the last step and marked by nobody else.
UsedStep(r) ==
    req[r].at = "mfa_mark" =>
        /\ req[r].arg <= account.lastStep
        /\ \A i \in DOMAIN tally.steps : tally.steps[i] # req[r].arg
        /\ \A q \in Req : req[q].at = "mfa_mark" /\ req[q].arg = req[r].arg => q = r
StepsDiffer ==
    /\ \A i \in DOMAIN tally.steps : tally.steps[i] <= account.lastStep
    /\ \A i, j \in DOMAIN tally.steps : tally.steps[i] = tally.steps[j] => i = j

Stepped == ~raced => StepsDiffer /\ \A r \in Req : NewStep(r) /\ UsedStep(r)

\* The inductive invariant.
AuthInv == Typed /\ Ends /\ InTime /\ Counted /\ Stepped

\* It holds of one account with one session, and no request.
LEMMA InitInv == Init => AuthInv
<1> SUFFICES ASSUME Init PROVE AuthInv
  OBVIOUS
<1> USE DEF Init, Never, NoSession, Active, Disabled
<1>1. NoAccount \in Account
  BY DEF NoAccount, Account
<1>2. Quiet \in Request
  BY <1>1 DEF Quiet, Request, OfNone
<1>3. Typed
  <2>1. account \in Account /\ req \in [Req -> Request]
    BY <1>1, <1>2
  <2>2. session \in Seq(Row)
    <3>1. [seen |-> 1, expires |-> 1 + Absolute, revoked |-> FALSE, verified |-> FALSE] \in Row
      BY DurationsAssumption DEF Row
    <3> QED BY <3>1
  <2>3. tally \in Tally
    BY DEF Tally
  <2>4. clock \in Nat \ {0} /\ words \in Nat \ {0} /\ raced \in BOOLEAN
    <3>1. clock = 1 /\ words = 1 /\ raced = FALSE
      OBVIOUS
    <3> HIDE DEF Init
    <3>2. FALSE \in BOOLEAN
      BY Zenon
    <3>3. clock \in Nat \ {0} /\ words \in Nat \ {0}
      BY <3>1
    <3> QED BY <3>1, <3>2, <3>3, Zenon
  <2>5. ended \in SUBSET Nat
    <3>1. ended = {}
      OBVIOUS
    <3> HIDE DEF Init
    <3> QED BY <3>1, Zenon
  <2> HIDE DEF Init
  <2> QED BY <2>1, <2>2, <2>3, <2>4, <2>5 DEF Typed
<1>4. Ends
  BY DEF Ends, KnowsSession, Quiet, OfSession, Sessions
<1>5. InTime
  BY DurationsAssumption DEF InTime, OnTime, Quiet, NoAccount, Sessions
<1>6. Counted /\ Stepped
  BY DEF Counted, CountsAgree, HoldsCount, OneHolder, Stepped, StepsDiffer, NewStep, UsedStep,
         Quiet, NoAccount, Holding
<1> QED BY <1>3, <1>4, <1>5, <1>6 DEF AuthInv

-----------------------------------------------------------------------------
(* Types. *)

\* A request that goes on or ends is a request.
LEMMA RequestTyped ==
    ASSUME Typed, NEW r \in Req
    PROVE  /\ Quiet \in Request
           /\ \A at \in OfSession \cup OfNone : [req[r] EXCEPT !.at = at] \in Request
           /\ \A at \in OfSession \cup OfNone :
                [req[r] EXCEPT !.at = at, !.read = account, !.seen = clock] \in Request
<1>1. req[r] \in Request
  BY DEF Typed
<1>2. NoAccount \in Account
  BY DEF NoAccount, Account, Active, Disabled, Never
<1>3. Quiet \in Request
  BY <1>2 DEF Quiet, Request, OfNone, NoSession, Never
<1>4. \A at \in OfSession \cup OfNone : [req[r] EXCEPT !.at = at] \in Request
  BY <1>1 DEF Request
<1>5. \A at \in OfSession \cup OfNone :
         [req[r] EXCEPT !.at = at, !.read = account, !.seen = clock] \in Request
  BY <1>1 DEF Request, Typed
<1> QED BY <1>3, <1>4, <1>5

\* Steps that move a request on leave it a request.
LEMMA GoOnTyped ==
    ASSUME Typed, NEW r \in Req, NEW at \in OfSession \cup OfNone, GoOn(r, at) \/ Hold(r, at)
    PROVE  req' \in [Req -> Request]
<1>1. CASE GoOn(r, at)
  <2>1. req' = [req EXCEPT ![r] = [req[r] EXCEPT !.at = at]]
    BY <1>1 DEF GoOn, Typed
  <2> QED BY <2>1, RequestTyped DEF Typed
<1>2. CASE Hold(r, at)
  <2>1. req' = [req EXCEPT ![r] = [req[r] EXCEPT !.at = at, !.read = account, !.seen = clock]]
    BY <1>2 DEF Hold, Typed
  <2> QED BY <2>1, RequestTyped DEF Typed
<1> QED BY <1>1, <1>2

\* Where such a step leaves it, and with what.
LEMMA GoOnAt ==
    ASSUME Typed, NEW r \in Req, NEW at, GoOn(r, at) \/ Hold(r, at)
    PROVE  /\ req'[r].at = at /\ req'[r].sid = req[r].sid /\ req'[r].op = req[r].op
           /\ req'[r].arg = req[r].arg /\ req'[r].late = req[r].late
           /\ Hold(r, at) => req'[r].read = account /\ req'[r].seen = clock
<1>1. req \in [Req -> Request] /\ req[r] \in Request
  BY DEF Typed
<1>2. CASE GoOn(r, at)
  <2>1. req'[r] = [req[r] EXCEPT !.at = at]
    BY <1>1, <1>2 DEF GoOn
  <2>2. /\ req'[r].at = at /\ req'[r].sid = req[r].sid /\ req'[r].op = req[r].op
        /\ req'[r].arg = req[r].arg /\ req'[r].late = req[r].late
        /\ req'[r].read = req[r].read /\ req'[r].seen = req[r].seen
    BY <1>1, <2>1 DEF Request
  <2>3. Hold(r, at) => req'[r].read = account /\ req'[r].seen = clock
    <3> SUFFICES ASSUME Hold(r, at) PROVE req'[r].read = account /\ req'[r].seen = clock
      OBVIOUS
    <3>1. req'[r] = [req[r] EXCEPT !.at = at, !.read = account, !.seen = clock]
      BY <1>1 DEF Hold
    <3> QED BY <1>1, <3>1 DEF Request
  <2> QED BY <2>2, <2>3
<1>3. CASE Hold(r, at)
  <2>1. req'[r] = [req[r] EXCEPT !.at = at, !.read = account, !.seen = clock]
    BY <1>1, <1>3 DEF Hold
  <2> QED BY <1>1, <2>1 DEF Request
<1> QED BY <1>2, <1>3

\* A request that begins is one.
LEMMA BeginTyped ==
    ASSUME Typed, NEW r \in Req, NEW q \in Request, Begin(r, q)
    PROVE  Typed'
BY DEF Begin, Typed, rows, history

\* A request with a session that begins keeps the types.
LEMMA StartTyped ==
    ASSUME Typed, NEW r \in Req, NEW s \in Sessions, NEW op \in Operations, NEW arg \in Nat,
           StartWith(r, s, op, arg)
    PROVE  Typed'
<1> DEFINE q == [Quiet EXCEPT !.op = op, !.at = "find_session", !.sid = s, !.arg = arg, !.late = Over(s)]
<1>1. s \in Nat
  BY DEF Typed, Sessions
<1>2. Quiet \in Request
  BY RequestTyped
<1>3. Over(s) \in BOOLEAN
  BY DEF Over
<1>4. q \in Request
  BY <1>1, <1>2, <1>3 DEF Request, OfSession
<1>5. Begin(r, q)
  BY DEF StartWith
<1> HIDE DEF q
<1> QED BY <1>4, <1>5, BeginTyped

\* The row of a session the statements touch stays a row.
LEMMA RowsTyped ==
    ASSUME Typed, NEW s \in Sessions
    PROVE  /\ session[s] \in Row
           /\ [session[s] EXCEPT !.revoked = TRUE] \in Row
           /\ [session[s] EXCEPT !.verified = TRUE] \in Row
           /\ \A t \in Nat : [session[s] EXCEPT !.seen = t] \in Row
<1>1. session[s] \in Row
  BY DEF Typed, Sessions
<1> QED BY <1>1 DEF Row

\* Revoking several rows leaves rows.
LEMMA RevokeAllTyped ==
    ASSUME Typed, NEW except, RevokeAll(except)
    PROVE  session' \in Seq(Row)
<1>1. session \in Seq(Row) /\ Sessions = 1 .. Len(session)
  BY DEF Typed, Sessions
<1>2. session' \in [1 .. Len(session) -> Row]
  BY <1>1, RowsTyped DEF RevokeAll
<1> QED BY <1>1, <1>2

\* The types, through the statements of a login.
LEMMA LoginTyped ==
    ASSUME Typed, NEW r \in Req,
           FindAccount(r) \/ Charge(r) \/ Clear(r) \/ IssueSession(r)
    PROVE  Typed'
<1> USE DEF rows, counters, history, Finish, OfSession, OfNone
<1>1. req \in [Req -> Request] /\ account \in Account /\ session \in Seq(Row) /\ req[r] \in Request
  BY DEF Typed
<1>2. CASE FindAccount(r)
  <2>1. req' \in [Req -> Request]
    BY <1>1, <1>2, RequestTyped, GoOnTyped DEF FindAccount
  <2>2. raced' \in BOOLEAN
    BY <1>2 DEF FindAccount, Typed, Races
  <2> QED BY <1>2, <2>1, <2>2 DEF FindAccount, Typed
<1>3. CASE Charge(r)
  <2>1. req[r].read.failed + 1 \in Nat /\ req[r].seen \in Nat
    <3>1. req[r].read \in Account /\ req[r].seen \in Nat
      BY <1>1 DEF Request
    <3> QED BY <3>1 DEF Account
  <2>2. LockAfter(req[r].read.failed + 1, req[r].seen) \in Nat
    BY <2>1, LockBounded
  <2>3. account' \in Account
    BY <1>1, <1>3, <2>1, <2>2 DEF Charge, Account
  <2>4. tally' \in Tally
    <3>1. tally \in Tally
      BY DEF Typed
    <3> QED BY <1>3, <3>1 DEF Charge, Tally
  <2> QED BY <1>3, <1>1, <2>3, <2>4, RequestTyped DEF Charge, Typed
<1>4. CASE Clear(r)
  <2>1. account' \in Account /\ tally' \in Tally
    BY <1>1, <1>4 DEF Clear, Account, Tally, Typed, Never
  <2>2. [Quiet EXCEPT !.op = "login", !.at = "issue"] \in Request
    BY RequestTyped DEF Request
  <2> QED BY <1>1, <1>4, <2>1, <2>2 DEF Clear, Typed
<1>5. CASE IssueSession(r)
  <2>1. [seen |-> clock, expires |-> clock + Absolute, revoked |-> FALSE, verified |-> FALSE] \in Row
    BY DurationsAssumption DEF Row, Typed
  <2>2. session' \in Seq(Row)
    BY <1>1, <1>5, <2>1 DEF IssueSession
  <2> QED BY <1>1, <1>5, <2>2, RequestTyped DEF IssueSession, Typed
<1> QED BY <1>2, <1>3, <1>4, <1>5

\* Through those of every authenticated request.
LEMMA GuardTyped ==
    ASSUME Typed, NEW r \in Req, req[r].at \in OfSession => req[r].sid \in Sessions /\ req[r].op \in Operations,
           FindSession(r) \/ FindOwner(r) \/ Touch(r)
    PROVE  Typed'
<1> USE DEF rows, counters, history, Finish, OfSession, OfNone
<1>1. req \in [Req -> Request] /\ account \in Account /\ session \in Seq(Row) /\ req[r] \in Request
  BY DEF Typed
<1>2. CASE FindSession(r)
  <2>1. session[req[r].sid].seen \in Nat
    BY <1>2, RowsTyped DEF FindSession, Row
  <2>2. [req[r] EXCEPT !.at = "find_owner", !.seen = session[req[r].sid].seen] \in Request
    BY <1>1, <2>1 DEF Request
  <2> QED BY <1>1, <1>2, <2>2, RequestTyped DEF FindSession, Typed
<1>3. CASE FindOwner(r)
  <2>1. [req[r] EXCEPT !.at = "touch", !.seen = clock] \in Request
    BY <1>1 DEF Request, Typed
  <2> QED BY <1>1, <1>3, <2>1, RequestTyped DEF FindOwner, Typed
<1>4. CASE Touch(r)
  <2>1. [session[req[r].sid] EXCEPT !.seen = req[r].seen] \in Row
    BY <1>1, <1>4, RowsTyped DEF Touch, Request
  <2>2. session' \in Seq(Row)
    BY <1>1, <1>4, <2>1 DEF Touch, Sessions
  <2>3. req' \in [Req -> Request]
    <3>1. req[r].op \in OfSession \/ req[r].op = "browse"
      BY <1>4 DEF Touch, Operations
    <3> QED BY <1>1, <1>4, <3>1, RequestTyped, GoOnTyped DEF Touch
  <2> QED BY <1>4, <2>2, <2>3 DEF Touch, Typed
<1> QED BY <1>2, <1>3, <1>4

\* Through revocations.
LEMMA RevokeTyped ==
    ASSUME Typed, Ends, NEW r \in Req,
           Revoke(r) \/ RevokeOthers(r) \/ RevokeAllSessions(r)
    PROVE  Typed'
<1> USE DEF rows, counters, history, Finish, OfSession, OfNone
<1>1. req \in [Req -> Request] /\ account \in Account /\ session \in Seq(Row) /\ req[r] \in Request
  BY DEF Typed
<1>2. Sessions \subseteq Nat
  BY DEF Typed, Sessions
<1>3. CASE Revoke(r)
  <2>1. req[r].arg \in Sessions
    BY <1>3 DEF Revoke, Ends, KnowsSession
  <2>2. [session[req[r].arg] EXCEPT !.revoked = TRUE] \in Row
    BY <2>1, RowsTyped
  <2>3. session' \in Seq(Row)
    BY <1>1, <1>3, <2>1, <2>2 DEF Revoke, Sessions
  <2> QED BY <1>1, <1>2, <1>3, <2>1, <2>3, RequestTyped DEF Revoke, Typed
<1>4. CASE RevokeOthers(r)
  <2>1. session' \in Seq(Row)
    BY <1>4, RevokeAllTyped DEF RevokeOthers
  <2>2. ended' \in SUBSET Nat
    BY <1>1, <1>4 DEF RevokeOthers, Request, Typed
  <2> QED BY <1>1, <1>4, <2>1, <2>2, RequestTyped DEF RevokeOthers, Typed
<1>5. CASE RevokeAllSessions(r)
  <2>1. session' \in Seq(Row)
    BY <1>5, RevokeAllTyped DEF RevokeAllSessions
  <2>2. ended' \in SUBSET Nat
    BY <1>1, <1>5 DEF RevokeAllSessions, Request, Typed
  <2> QED BY <1>1, <1>5, <2>1, <2>2, RequestTyped DEF RevokeAllSessions, Typed
<1> QED BY <1>3, <1>4, <1>5

\* Through a change of password.
LEMMA ChangeTyped ==
    ASSUME Typed, Ends, NEW r \in Req,
           FindForChange(r) \/ Attempt(r) \/ Replace(r)
    PROVE  Typed'
<1> USE DEF rows, counters, history, Finish, OfSession, OfNone
<1>1. req \in [Req -> Request] /\ account \in Account /\ session \in Seq(Row) /\ req[r] \in Request
  BY DEF Typed
<1>2. CASE FindForChange(r)
  <2>1. req' \in [Req -> Request]
    BY <1>1, <1>2, RequestTyped, GoOnTyped DEF FindForChange
  <2>2. raced' \in BOOLEAN
    BY <1>2 DEF FindForChange, Typed, Races
  <2> QED BY <1>2, <2>1, <2>2 DEF FindForChange, Typed
<1>3. CASE Attempt(r)
  <2>1. NextWindow(req[r].read, req[r].seen) \in [changes : Nat, since : Nat]
    <3>1. req[r].read \in Account /\ req[r].seen \in Nat
      BY <1>1 DEF Request
    <3> QED BY <3>1 DEF NextWindow, Account
  <2>2. account' \in Account
    BY <1>1, <1>3, <2>1 DEF Attempt, Account
  <2>3. tally' \in Tally
    <3>1. tally \in Tally
      BY DEF Typed
    <3>2. tally' = [tally EXCEPT !.changes = IF WindowOver(req[r].read, req[r].seen) THEN 1 ELSE @ + 1]
      BY <1>3 DEF Attempt
    <3> QED BY <3>1, <3>2 DEF Tally
  <2>4. req' \in [Req -> Request]
    BY <1>1, <1>3, RequestTyped, GoOnTyped DEF Attempt
  <2> QED BY <1>3, <2>2, <2>3, <2>4 DEF Attempt, Typed
<1>4. CASE Replace(r)
  <2>1. words' \in Nat \ {0}
    BY <1>4 DEF Replace, Typed
  <2>2. account' \in Account
    BY <1>1, <1>4, <2>1 DEF Replace, Account
  <2>3. Sessions \ {req[r].sid} \in SUBSET Nat
    BY <1>1 DEF Sessions
  <2>4. [req[r] EXCEPT !.at = "revoke_others", !.old = Sessions \ {req[r].sid}] \in Request
    BY <1>1, <2>3 DEF Request
  <2> QED BY <1>1, <1>4, <2>1, <2>2, <2>4 DEF Replace, Typed
<1> QED BY <1>2, <1>3, <1>4

\* Through a verification of the second factor.
LEMMA MfaTyped ==
    ASSUME Typed, Ends, NEW r \in Req,
           FindForMfa(r) \/ MfaCharge(r) \/ MfaClear(r) \/ MfaStep(r) \/ MfaMark(r)
    PROVE  Typed'
<1> USE DEF rows, counters, history, Finish, OfSession, OfNone
<1>1. req \in [Req -> Request] /\ account \in Account /\ session \in Seq(Row) /\ req[r] \in Request
  BY DEF Typed
<1>2. CASE FindForMfa(r)
  <2>1. req' \in [Req -> Request]
    BY <1>1, <1>2, RequestTyped, GoOnTyped DEF FindForMfa
  <2>2. raced' \in BOOLEAN
    BY <1>2 DEF FindForMfa, Typed, Races
  <2> QED BY <1>2, <2>1, <2>2 DEF FindForMfa, Typed
<1>3. CASE MfaCharge(r)
  <2>1. req[r].read.mfaFailed + 1 \in Nat /\ req[r].seen \in Nat
    <3>1. req[r].read \in Account /\ req[r].seen \in Nat
      BY <1>1 DEF Request
    <3> QED BY <3>1 DEF Account
  <2>2. LockAfter(req[r].read.mfaFailed + 1, req[r].seen) \in Nat
    BY <2>1, LockBounded
  <2>3. account' \in Account
    BY <1>1, <1>3, <2>1, <2>2 DEF MfaCharge, Account
  <2>4. tally' \in Tally
    <3>1. tally \in Tally
      BY DEF Typed
    <3> QED BY <1>3, <3>1 DEF MfaCharge, Tally
  <2> QED BY <1>3, <1>1, <2>3, <2>4, RequestTyped DEF MfaCharge, Typed
<1>4. CASE MfaClear(r)
  <2>1. account' \in Account /\ tally' \in Tally
    BY <1>1, <1>4 DEF MfaClear, Account, Tally, Typed, Never
  <2> QED BY <1>1, <1>4, <2>1, RequestTyped DEF MfaClear, GoOn, Typed
<1>5. CASE MfaStep(r)
  <2>1. account' \in Account
    BY <1>1, <1>5 DEF MfaStep, Account, Request
  <2> QED BY <1>1, <1>5, <2>1, RequestTyped DEF MfaStep, GoOn, Typed
<1>6. CASE MfaMark(r)
  <2>1. req[r].sid \in Sessions
    BY <1>6 DEF MfaMark, Ends, KnowsSession
  <2>2. [session[req[r].sid] EXCEPT !.verified = TRUE] \in Row
    BY <2>1, RowsTyped
  <2>3. session' \in Seq(Row)
    BY <1>1, <1>6, <2>1, <2>2 DEF MfaMark, Sessions
  <2>4. tally' \in Tally
    <3>1. tally.steps \in Seq(Nat) /\ req[r].arg \in Nat
      BY <1>1 DEF Typed, Tally, Request
    <3>2. Append(tally.steps, req[r].arg) \in Seq(Nat)
      BY <3>1
    <3> QED BY <1>6, <3>2 DEF MfaMark, Typed, Tally
  <2> QED BY <1>1, <1>6, <2>3, <2>4, RequestTyped DEF MfaMark, Typed
<1> QED BY <1>2, <1>3, <1>4, <1>5, <1>6

\* Through a change of status by an administrator.
LEMMA StatusTyped ==
    ASSUME Typed, Ends, NEW r \in Req, SetStatus(r) \/ CutOff(r)
    PROVE  Typed'
<1> USE DEF rows, counters, history, Finish, OfSession, OfNone
<1>1. req \in [Req -> Request] /\ account \in Account /\ session \in Seq(Row) /\ req[r] \in Request
  BY DEF Typed
<1>2. CASE SetStatus(r)
  <2>1. account' \in Account
    BY <1>1, <1>2 DEF SetStatus, Account, Ends, KnowsSession
  <2>2. Sessions \in SUBSET Nat
    BY <1>1 DEF Sessions
  <2>3. [req[r] EXCEPT !.at = "revoke_all", !.old = Sessions] \in Request
    BY <1>1, <2>2 DEF Request
  <2> QED BY <1>1, <1>2, <2>1, <2>3, RequestTyped DEF SetStatus, Typed
<1>3. CASE CutOff(r)
  BY <1>1, <1>3, RequestTyped DEF CutOff, Typed
<1> QED BY <1>2, <1>3

-----------------------------------------------------------------------------
(* Sessions that are over stay over. *)

\* Rows are added, never dropped; a revoked one stays revoked, and no
\* statement moves the absolute expiry.
Grows ==
    /\ Sessions \subseteq Sessions'
    /\ \A s \in Sessions : /\ session'[s].expires = session[s].expires
                           /\ session[s].revoked => session'[s].revoked
    /\ clock' \in Nat /\ clock' >= clock

\* Every statement only adds to the rows.
LEMMA ServeGrows ==
    ASSUME Typed, Ends, NEW r \in Req, Serve(r)
    PROVE  Grows
<1> USE DEF rows, counters, history
<1>1. session \in Seq(Row) /\ clock \in Nat /\ \A s \in Sessions : session[s] \in Row
  BY RowsTyped DEF Typed
<1>2. CASE session' = session /\ clock' = clock
  BY <1>1, <1>2 DEF Grows, Sessions
<1>3. CASE IssueSession(r)
  BY <1>1, <1>3 DEF IssueSession, Grows, Sessions
<1>4. CASE Touch(r)
  BY <1>1, <1>4 DEF Touch, Grows, Sessions, Row
<1>5. CASE Revoke(r)
  BY <1>1, <1>5 DEF Revoke, Grows, Sessions, Row
<1>6. CASE MfaMark(r)
  BY <1>1, <1>6 DEF MfaMark, Grows, Sessions, Row
<1>7. CASE RevokeOthers(r) \/ RevokeAllSessions(r)
  BY <1>1, <1>7 DEF RevokeOthers, RevokeAllSessions, RevokeAll, Grows, Sessions, Row
<1> QED
  BY <1>2, <1>3, <1>4, <1>5, <1>6, <1>7
  DEF Serve, FindAccount, Charge, Clear, FindSession, FindOwner, FindForChange, Attempt, Replace,
      FindForMfa, MfaCharge, MfaClear, MfaStep, SetStatus, CutOff

\* A statement is of one request.
LEMMA ServeOthers ==
    ASSUME Typed, NEW r \in Req, Serve(r)
    PROVE  \A q \in Req : q # r => req'[q] = req[q]
<1> SUFFICES ASSUME NEW q \in Req, q # r PROVE req'[q] = req[q]
  OBVIOUS
<1>0. req \in [Req -> Request]
  BY DEF Typed
<1>a. ASSUME NEW at, GoOn(r, at) \/ Hold(r, at) \/ Finish(r) PROVE req'[q] = req[q]
  BY <1>0, <1>a DEF GoOn, Hold, Finish
<1>1. CASE FindAccount(r) \/ Charge(r) \/ Clear(r) \/ IssueSession(r)
  BY <1>0, <1>a, <1>1 DEF FindAccount, Charge, Clear, IssueSession
<1>2. CASE FindSession(r) \/ FindOwner(r) \/ Touch(r)
  BY <1>0, <1>a, <1>2 DEF FindSession, FindOwner, Touch, Finish
<1>3. CASE Revoke(r) \/ RevokeOthers(r) \/ RevokeAllSessions(r) \/ SetStatus(r) \/ CutOff(r)
  BY <1>0, <1>a, <1>3 DEF Revoke, RevokeOthers, RevokeAllSessions, SetStatus, CutOff
<1>4. CASE FindForChange(r) \/ Attempt(r)
  BY <1>a, <1>4 DEF FindForChange, Attempt
<1>7. CASE Replace(r)
  BY <1>0, <1>7 DEF Replace
<1>5. CASE FindForMfa(r) \/ MfaCharge(r) \/ MfaClear(r)
  BY <1>0, <1>a, <1>5 DEF FindForMfa, MfaCharge, MfaClear
<1>6. CASE MfaStep(r) \/ MfaMark(r)
  BY <1>0, <1>a, <1>6 DEF MfaStep, MfaMark
<1> QED BY <1>1, <1>2, <1>3, <1>4, <1>5, <1>6, <1>7 DEF Serve

\* What a request knows stays true while others go on.
LEMMA KnowsKept ==
    ASSUME Typed, Grows, NEW q \in Req, req'[q] = req[q], KnowsSession(q)
    PROVE  KnowsSession(q)'
<1>1. /\ req[q].late => req[q].sid \in Sessions /\ session[req[q].sid].expires \in Nat
      /\ clock \in Nat
  <2>1. req[q].late => req[q].sid \in Sessions
    BY DEF KnowsSession, OfSession
  <2> QED BY <2>1, RowsTyped DEF Row, Typed
<1> QED BY <1>1 DEF KnowsSession, Grows

\* A request that is done needs to know nothing.
LEMMA QuietKnows ==
    ASSUME NEW q, req'[q] = Quiet
    PROVE  KnowsSession(q)'
BY DEF KnowsSession, Quiet, OfSession, NoSession, Active, Disabled

\* What a request knows is right wherever a statement leaves it.
LEMMA ServeKnows ==
    ASSUME Typed, Ends, NEW r \in Req, Serve(r)
    PROVE  KnowsSession(r)'
<1>1. Grows /\ req \in [Req -> Request] /\ req[r] \in Request /\ KnowsSession(r)
  BY ServeGrows DEF Typed, Ends
<1>2. CASE req'[r] = Quiet
  BY <1>2, QuietKnows
<1> USE DEF OfSession, NoSession, Operations, Finish
<1>3. ASSUME NEW at, GoOn(r, at) \/ Hold(r, at), req[r].at \in OfSession \/ at \notin OfSession,
             req[r].at # "find_session",
             at \notin {"find_session", "revoke_others", "revoke", "status", "revoke_all"}
      PROVE  KnowsSession(r)'
  <2>1. /\ req'[r].at = at /\ req'[r].sid = req[r].sid /\ req'[r].op = req[r].op
        /\ req'[r].arg = req[r].arg /\ req'[r].late = req[r].late
    BY <1>1, <1>3 DEF GoOn, Hold, Request
  <2>2. ~req[r].late
    BY <1>1, <1>3 DEF KnowsSession
  <2> QED BY <1>1, <1>3, <2>1, <2>2 DEF KnowsSession, Grows
<1>4. CASE FindAccount(r)
  <2>1. CASE req'[r] # Quiet
    <3>1. Hold(r, IF req[r].arg = account.word THEN "clear" ELSE "charge")
      BY <1>1, <1>4, <2>1 DEF FindAccount
    <3>2. req[r].at = "find"
      BY <1>4 DEF FindAccount
    <3> QED BY <1>3, <3>1, <3>2
  <2> QED BY <1>2, <2>1
<1>5. CASE Charge(r) \/ IssueSession(r) \/ Revoke(r) \/ RevokeOthers(r) \/ MfaCharge(r)
           \/ MfaMark(r) \/ RevokeAllSessions(r) \/ CutOff(r)
  BY <1>1, <1>2, <1>5
  DEF Charge, IssueSession, Revoke, RevokeOthers, MfaCharge, MfaMark, RevokeAllSessions, CutOff
<1>6. CASE Clear(r)
  <2>1. req'[r] = [Quiet EXCEPT !.op = "login", !.at = "issue"]
    BY <1>1, <1>6 DEF Clear
  <2> QED BY <2>1 DEF KnowsSession, Quiet
<1>7. CASE FindSession(r)
  <2>1. CASE session[req[r].sid].revoked \/ session[req[r].sid].expires <= clock
    BY <1>1, <1>2, <1>7, <2>1 DEF FindSession
  <2>2. CASE ~(session[req[r].sid].revoked \/ session[req[r].sid].expires <= clock)
    <3>1. ~req[r].late
      BY <1>1, <2>2 DEF KnowsSession
    <3>2. req'[r] = [req[r] EXCEPT !.at = "find_owner", !.seen = session[req[r].sid].seen]
      BY <1>1, <1>7, <2>2 DEF FindSession
    <3> QED BY <1>1, <1>7, <3>1, <3>2 DEF KnowsSession, Grows, FindSession
  <2> QED BY <2>1, <2>2
<1>8. CASE FindOwner(r)
  <2>1. CASE req' = [req EXCEPT ![r].at = "touch", ![r].seen = clock]
    BY <1>1, <1>8, <2>1 DEF KnowsSession, Grows, FindOwner
  <2> QED BY <1>1, <1>2, <1>8, <2>1 DEF FindOwner
<1>9. CASE Touch(r)
  <2>1. CASE GoOn(r, "revoke") /\ req[r].op = "revoke"
    BY <1>1, <1>9, <2>1 DEF KnowsSession, Grows, GoOn, Touch
  <2>2. CASE GoOn(r, req[r].op) /\ req[r].op \in {"change", "mfa"}
    BY <1>3, <1>9, <2>2 DEF Touch
  <2>3. req[r].op \in Operations
    BY <1>1, <1>9 DEF KnowsSession, Touch
  <2> QED BY <1>1, <1>2, <1>9, <2>1, <2>2, <2>3 DEF Touch
<1>10. CASE FindForChange(r) \/ FindForMfa(r)
  BY <1>1, <1>2, <1>3, <1>10 DEF FindForChange, FindForMfa
<1>11. CASE Attempt(r) \/ MfaClear(r) \/ MfaStep(r)
  BY <1>1, <1>2, <1>3, <1>11 DEF Attempt, MfaClear, MfaStep
<1>12. CASE Replace(r)
  BY <1>1, <1>12 DEF KnowsSession, Grows, Replace
<1>13. CASE SetStatus(r)
  <2>1. CASE req' = [req EXCEPT ![r].at = "revoke_all", ![r].old = Sessions]
    BY <1>1, <1>13, <2>1 DEF KnowsSession, Grows, SetStatus
  <2> QED BY <1>1, <1>2, <1>13, <2>1 DEF SetStatus
<1> QED
  BY <1>4, <1>5, <1>6, <1>7, <1>8, <1>9, <1>10, <1>11, <1>12, <1>13 DEF Serve

\* What is said to have ended is revoked.
LEMMA ServeEnds ==
    ASSUME Typed, Ends, NEW r \in Req, Serve(r)
    PROVE  Ends'
<1>1. Grows /\ KnowsSession(r) /\ ended \subseteq Sessions /\ \A s \in ended : session[s].revoked
  BY ServeGrows DEF Ends
<1>2. \A q \in Req : KnowsSession(q)'
  BY <1>1, ServeKnows, ServeOthers, KnowsKept DEF Ends
<1>3. CASE ended' = ended
  BY <1>1, <1>2, <1>3 DEF Ends, Grows
<1>4. CASE Revoke(r)
  BY <1>1, <1>2, <1>4 DEF Ends, Grows, Revoke, KnowsSession, Sessions
<1>5. CASE RevokeOthers(r)
  <2>1. \A s \in req[r].old : s \in Sessions /\ s # req[r].sid
    BY <1>1, <1>5 DEF RevokeOthers, KnowsSession
  <2>2. \A s \in req[r].old : session'[s].revoked
    BY <1>5, <2>1, RowsTyped DEF RevokeOthers, RevokeAll, Row
  <2> QED BY <1>1, <1>2, <1>5, <2>1, <2>2 DEF Ends, Grows, RevokeOthers
<1>6. CASE RevokeAllSessions(r)
  <2>1. \A s \in req[r].old : s \in Sessions /\ s # NoSession
    BY <1>1, <1>6 DEF RevokeAllSessions, KnowsSession, NoSession, Sessions, Typed
  <2>2. \A s \in req[r].old : session'[s].revoked
    BY <1>6, <2>1, RowsTyped DEF RevokeAllSessions, RevokeAll, Row
  <2> QED BY <1>1, <1>2, <1>6, <2>1, <2>2 DEF Ends, Grows, RevokeAllSessions
<1> QED
  BY <1>3, <1>4, <1>5, <1>6
  DEF Serve, history, FindAccount, Charge, Clear, IssueSession, FindSession, FindOwner, Touch,
      FindForChange, Attempt, Replace, FindForMfa, MfaCharge, MfaClear, MfaStep, MfaMark,
      SetStatus, CutOff

-----------------------------------------------------------------------------
(* Times and bounds. *)

\* A request that is done read nothing.
LEMMA QuietOnTime ==
    ASSUME Typed, Typed', NEW q, req'[q] = Quiet
    PROVE  OnTime(q)'
BY DEF OnTime, Quiet, Typed, Never

\* The request that a statement is of read what it carries on with by now.
LEMMA ServeOnTime ==
    ASSUME Typed, Typed', Ends, InTime, NEW r \in Req, Serve(r)
    PROVE  OnTime(r)'
<1> USE DEF rows, counters, history, Finish
<1>0. /\ req \in [Req -> Request] /\ req[r] \in Request /\ OnTime(r) /\ clock \in Nat \ {0}
      /\ account \in Account
  BY DEF Typed, InTime
<1>1. clock' = clock
  BY DEF Serve, FindAccount, Charge, Clear, IssueSession, FindSession, FindOwner, Touch, Revoke,
         FindForChange, Attempt, Replace, RevokeOthers, FindForMfa, MfaCharge, MfaClear, MfaStep,
         MfaMark, SetStatus, RevokeAllSessions, CutOff
<1>2. CASE req'[r] = Quiet
  BY <1>2, QuietOnTime
<1>3. ASSUME NEW at, GoOn(r, at), at \notin {"touch", "attempt", "mfa_clear", "mfa_mark", "mfa_step"}
      PROVE  OnTime(r)'
  BY <1>0, <1>1, <1>3 DEF OnTime, GoOn
<1>4. ASSUME NEW at, Hold(r, at), at \in {"charge", "clear", "mfa_charge"}
      PROVE  OnTime(r)'
  BY <1>0, <1>1, <1>4 DEF OnTime, Hold
<1>5. CASE FindAccount(r)
  <2>1. CASE req'[r] # Quiet
    <3>1. Hold(r, IF req[r].arg = account.word THEN "clear" ELSE "charge")
      BY <1>0, <1>5, <2>1 DEF FindAccount
    <3> QED BY <1>4, <3>1
  <2> QED BY <1>2, <2>1
<1>6. CASE Charge(r) \/ IssueSession(r) \/ Revoke(r) \/ RevokeOthers(r) \/ MfaCharge(r)
           \/ MfaMark(r) \/ RevokeAllSessions(r) \/ CutOff(r)
  BY <1>0, <1>2, <1>6
  DEF Charge, IssueSession, Revoke, RevokeOthers, MfaCharge, MfaMark, RevokeAllSessions, CutOff
<1>7. CASE Clear(r)
  <2>1. req'[r] = [Quiet EXCEPT !.op = "login", !.at = "issue"]
    BY <1>0, <1>7 DEF Clear
  <2> QED BY <1>0, <1>1, <2>1 DEF OnTime, Quiet, Never
<1>8. CASE FindSession(r)
  <2>1. CASE req'[r] # Quiet
    <3>1. req'[r] = [req[r] EXCEPT !.at = "find_owner", !.seen = session[req[r].sid].seen]
      BY <1>0, <1>8, <2>1 DEF FindSession
    <3>2. session[req[r].sid].seen \in 1 .. clock
      BY <1>8 DEF FindSession, Ends, KnowsSession, OfSession, InTime
    <3> QED BY <1>0, <1>1, <3>1, <3>2 DEF OnTime, Request
  <2> QED BY <1>2, <2>1
<1>9. CASE FindOwner(r)
  <2>1. CASE req'[r] # Quiet
    <3>1. req'[r] = [req[r] EXCEPT !.at = "touch", !.seen = clock]
      BY <1>0, <1>9, <2>1 DEF FindOwner
    <3> QED BY <1>0, <1>1, <3>1 DEF OnTime, Request
  <2> QED BY <1>2, <2>1
<1>10. CASE Touch(r)
  <2>1. req[r].op \in Operations
    BY <1>10 DEF Touch, Ends, KnowsSession, OfSession
  <2> QED BY <1>0, <1>2, <1>3, <1>10, <2>1 DEF Touch, Operations
<1>11. CASE FindForChange(r)
  <2>1. CASE req'[r] # Quiet
    <3>1. Hold(r, "attempt") /\ MayChange(account, clock)
      BY <1>0, <1>11, <2>1 DEF FindForChange
    <3>2. req'[r] = [req[r] EXCEPT !.at = "attempt", !.read = account, !.seen = clock]
      BY <1>0, <3>1 DEF Hold
    <3>3. req'[r].at = "attempt" /\ req'[r].read = account /\ req'[r].seen = clock
      BY <1>0, <3>2 DEF Request
    <3> QED BY <1>0, <1>1, <3>1, <3>3 DEF OnTime, InTime
  <2> QED BY <1>2, <2>1
<1>12. CASE FindForMfa(r)
  <2>1. CASE Hold(r, "mfa_clear") /\ CodeValid(account, req[r].arg)
    <3>1. req'[r] = [req[r] EXCEPT !.at = "mfa_clear", !.read = account, !.seen = clock]
      BY <1>0, <2>1 DEF Hold
    <3>2. req[r].arg <= clock + Drift
      BY <1>0, <2>1, Durations DEF CodeValid
    <3> QED BY <1>0, <1>1, <3>1, <3>2 DEF OnTime, Request
  <2>2. CASE Hold(r, "mfa_charge")
    BY <1>4, <2>2
  <2> QED BY <1>0, <1>2, <1>12, <2>1, <2>2 DEF FindForMfa
<1>13. CASE Attempt(r)
  BY <1>0, <1>2, <1>3, <1>13 DEF Attempt
<1>14. CASE Replace(r)
  <2>1. req'[r] = [req[r] EXCEPT !.at = "revoke_others", !.old = Sessions \ {req[r].sid}]
    BY <1>0, <1>14 DEF Replace
  <2> QED BY <1>0, <1>1, <2>1 DEF OnTime, Request
<1>15. CASE MfaClear(r) \/ MfaStep(r)
  BY <1>0, <1>1, <1>15 DEF MfaClear, MfaStep, GoOn, OnTime, Request
<1>16. CASE SetStatus(r)
  <2>1. CASE req'[r] # Quiet
    <3>1. req'[r] = [req[r] EXCEPT !.at = "revoke_all", !.old = Sessions]
      BY <1>0, <1>16, <2>1 DEF SetStatus
    <3> QED BY <1>0, <1>1, <3>1 DEF OnTime, Request
  <2> QED BY <1>2, <2>1
<1> QED
  BY <1>5, <1>6, <1>7, <1>8, <1>9, <1>10, <1>11, <1>12, <1>13, <1>14, <1>15, <1>16 DEF Serve

\* Every statement keeps the times within their bounds.
LEMMA ServeInTime ==
    ASSUME Typed, Typed', Ends, InTime, NEW r \in Req, Serve(r)
    PROVE  InTime'
<1> USE DEF rows, counters, history
<1>0. /\ req[r] \in Request /\ OnTime(r) /\ clock \in Nat \ {0} /\ account \in Account
      /\ req[r].read \in Account /\ req[r].seen \in Nat /\ words \in Nat \ {0}
      /\ clock' = clock /\ session \in Seq(Row)
  <2>1. req[r] \in Request /\ OnTime(r) /\ clock \in Nat \ {0} /\ account \in Account /\ session \in Seq(Row)
        /\ words \in Nat \ {0}
    BY DEF Typed, InTime
  <2>2. clock' = clock
    BY DEF Serve, FindAccount, Charge, Clear, IssueSession, FindSession, FindOwner, Touch, Revoke,
           FindForChange, Attempt, Replace, RevokeOthers, FindForMfa, MfaCharge, MfaClear, MfaStep,
           MfaMark, SetStatus, RevokeAllSessions, CutOff
  <2> QED BY <2>1, <2>2 DEF Request
<1>1. \A q \in Req : OnTime(q)'
  <2>1. ASSUME NEW q \in Req, req'[q] = req[q] PROVE OnTime(q)'
    BY <1>0, <2>1 DEF OnTime, InTime
  <2> QED BY <2>1, ServeOnTime, ServeOthers
<1> DEFINE Row_(a, w) == /\ a.word \in 1 .. w /\ a.changes <= Limit /\ a.since <= clock
                         /\ a.lockedUntil <= clock + MaxLock /\ a.mfaLocked <= clock + MaxLock
                         /\ a.lastStep <= clock + Drift
<1>2. Row_(account', words')
  <2>1. CASE account' = account /\ words' = words
    BY <1>0, <2>1 DEF InTime
  <2>2. CASE Charge(r)
    <3>1. LockAfter(req[r].read.failed + 1, req[r].seen) <= clock + MaxLock
      <4>1. req[r].read.failed + 1 \in Nat /\ req[r].seen <= clock
        <5>1. req[r].read.failed \in Nat
          BY <1>0 DEF Account
        <5>2. req[r].seen <= clock
          BY <1>0 DEF OnTime
        <5> QED BY <5>1, <5>2
      <4>2. /\ LockAfter(req[r].read.failed + 1, req[r].seen) \in Nat
            /\ LockAfter(req[r].read.failed + 1, req[r].seen) <= req[r].seen + MaxLock
        BY <1>0, <4>1, LockBounded
      <4> QED BY <1>0, <4>1, <4>2, Durations
    <3> QED BY <1>0, <2>2, <3>1 DEF Charge, Account, InTime
  <2>3. CASE MfaCharge(r)
    <3>1. LockAfter(req[r].read.mfaFailed + 1, req[r].seen) <= clock + MaxLock
      <4>1. req[r].read.mfaFailed + 1 \in Nat /\ req[r].seen <= clock
        <5>1. req[r].read.mfaFailed \in Nat
          BY <1>0 DEF Account
        <5>2. req[r].seen <= clock
          BY <1>0 DEF OnTime
        <5> QED BY <5>1, <5>2
      <4>2. /\ LockAfter(req[r].read.mfaFailed + 1, req[r].seen) \in Nat
            /\ LockAfter(req[r].read.mfaFailed + 1, req[r].seen) <= req[r].seen + MaxLock
        BY <1>0, <4>1, LockBounded
      <4> QED BY <1>0, <4>1, <4>2, Durations
    <3> QED BY <1>0, <2>3, <3>1 DEF MfaCharge, Account, InTime
  <2>4. CASE Clear(r) \/ MfaClear(r)
    <3>1. /\ account'.word = account.word /\ account'.changes = account.changes
          /\ account'.since = account.since /\ account'.lastStep = account.lastStep
          /\ account'.lockedUntil \in {0, account.lockedUntil}
          /\ account'.mfaLocked \in {0, account.mfaLocked} /\ words' = words
      BY <1>0, <2>4 DEF Clear, MfaClear, Account, Never
    <3> QED BY <1>0, <3>1, Durations DEF InTime
  <2>5. CASE Attempt(r)
    <3>1. NextWindow(req[r].read, req[r].seen).changes <= Limit
      <4>1. MayChange(req[r].read, req[r].seen) /\ req[r].read.changes \in Nat
        <5>1. MayChange(req[r].read, req[r].seen)
          BY <1>0, <2>5 DEF Attempt, OnTime
        <5> QED BY <1>0, <5>1 DEF Account
      <4> QED BY <4>1, Durations DEF NextWindow, MayChange
    <3>2. NextWindow(req[r].read, req[r].seen).since <= clock
      BY <1>0, <2>5 DEF Attempt, OnTime, NextWindow, Account
    <3> QED BY <1>0, <2>5, <3>1, <3>2 DEF Attempt, Account, InTime
  <2>6. CASE Replace(r)
    <3>1. /\ account'.changes = account.changes /\ account'.since = account.since
          /\ account'.lastStep = account.lastStep /\ account'.lockedUntil = account.lockedUntil
          /\ account'.mfaLocked = account.mfaLocked /\ account'.word = words + 1 /\ words' = words + 1
      BY <1>0, <2>6 DEF Replace, Account
    <3> QED BY <1>0, <3>1 DEF InTime
  <2>7. CASE MfaStep(r)
    BY <1>0, <2>7 DEF MfaStep, Account, InTime, OnTime
  <2>8. CASE SetStatus(r)
    BY <1>0, <2>8 DEF SetStatus, Account, InTime
  <2> HIDE DEF Row_
  <2> QED
    BY <2>1, <2>2, <2>3, <2>4, <2>5, <2>6, <2>7, <2>8
    DEF Serve, FindAccount, IssueSession, FindSession, FindOwner, Touch, Revoke, FindForChange,
        RevokeOthers, FindForMfa, MfaMark, RevokeAllSessions, CutOff
<1>3. \A s \in Sessions' : session'[s].seen \in 1 .. clock
  <2>1. CASE session' = session
    BY <1>0, <2>1 DEF InTime, Sessions
  <2>2. CASE IssueSession(r)
    BY <1>0, <2>2 DEF InTime, Sessions, IssueSession
  <2>3. CASE Touch(r)
    BY <1>0, <2>3 DEF InTime, Sessions, Touch, OnTime, Row
  <2>4. CASE Revoke(r) \/ MfaMark(r) \/ RevokeOthers(r) \/ RevokeAllSessions(r)
    <3>1. \A s \in Sessions : session[s] \in Row
      BY RowsTyped
    <3>2. Sessions' = Sessions
      BY <1>0, <2>4 DEF Sessions, Revoke, MfaMark, RevokeOthers, RevokeAllSessions, RevokeAll
    <3>3. ASSUME NEW s \in Sessions PROVE session'[s].seen = session[s].seen
      <4>1. CASE Revoke(r)
        BY <1>0, <3>1, <4>1 DEF Sessions, Revoke, Row
      <4>2. CASE MfaMark(r)
        BY <1>0, <3>1, <4>2 DEF Sessions, MfaMark, Row
      <4>3. ASSUME NEW x, RevokeAll(x) PROVE session'[s].seen = session[s].seen
        BY <3>1, <4>3 DEF RevokeAll, Row
      <4>4. CASE RevokeOthers(r) \/ RevokeAllSessions(r)
        BY <4>3, <4>4 DEF RevokeOthers, RevokeAllSessions
      <4> QED BY <2>4, <4>1, <4>2, <4>4
    <3> QED BY <1>0, <3>2, <3>3 DEF InTime
  <2> QED
    BY <2>1, <2>2, <2>3, <2>4
    DEF Serve, FindAccount, Charge, Clear, FindSession, FindOwner, FindForChange, Attempt, Replace,
        FindForMfa, MfaCharge, MfaClear, MfaStep, SetStatus, CutOff
<1> QED BY <1>0, <1>1, <1>2, <1>3 DEF InTime

-----------------------------------------------------------------------------
(* Counts and steps. *)

\* A request that holds no count.
LEMMA Unheld ==
    ASSUME NEW q
    PROVE  /\ req[q] = Quiet => Holding(q) = "none"
           /\ req[q].at \in {"charge", "clear"} <=> Holding(q) = "login"
           /\ req[q].at = "attempt" <=> Holding(q) = "change"
           /\ req[q].at \in {"mfa_charge", "mfa_clear", "mfa_step"} <=> Holding(q) = "mfa"
BY DEF Holding, Quiet

\* Where a statement leaves its request: done, holding a count, marking a code, or
\* at a statement that counts nothing.
LEMMA ServeAt ==
    ASSUME Typed, Ends, NEW r \in Req, Serve(r)
    PROVE  \/ req'[r] = Quiet
           \/ FindAccount(r) /\ req'[r].at \in {"charge", "clear"} /\ (raced' \/ ~Races(r, "login"))
           \/ FindForChange(r) /\ req'[r].at = "attempt" /\ (raced' \/ ~Races(r, "change"))
           \/ /\ FindForMfa(r) /\ (raced' \/ ~Races(r, "mfa"))
              /\ \/ req'[r].at = "mfa_charge"
                 \/ req'[r].at = "mfa_clear" /\ CodeValid(account, req[r].arg) /\ req'[r].arg = req[r].arg
           \/ MfaClear(r) /\ req'[r].at = "mfa_step" /\ req'[r].arg = req[r].arg
           \/ MfaStep(r) /\ req'[r].at = "mfa_mark" /\ req'[r].arg = req[r].arg
           \/ req'[r].at \in {"issue", "find_owner", "touch", "revoke", "change", "mfa", "replace",
                              "revoke_others", "revoke_all"}
<1> USE DEF Finish
<1>0. req \in [Req -> Request] /\ req[r] \in Request
  BY DEF Typed
<1>1. CASE Charge(r) \/ IssueSession(r) \/ Revoke(r) \/ RevokeOthers(r)
           \/ MfaCharge(r) \/ MfaMark(r) \/ RevokeAllSessions(r) \/ CutOff(r)
  BY <1>0, <1>1
  DEF Charge, IssueSession, Revoke, RevokeOthers, MfaCharge, MfaMark, RevokeAllSessions, CutOff
<1>2. CASE Clear(r)
  BY <1>0, <1>2 DEF Clear, Quiet
<1>3. CASE FindSession(r) \/ FindOwner(r) \/ Replace(r) \/ SetStatus(r)
  BY <1>0, <1>3 DEF FindSession, FindOwner, Replace, SetStatus, Request
<1>4. CASE Touch(r)
  <2>1. req[r].op \in Operations
    BY <1>4 DEF Touch, Ends, KnowsSession, OfSession
  <2> QED BY <1>0, <1>4, <2>1, GoOnAt DEF Touch, Operations
<1>5. CASE Attempt(r)
  BY <1>0, <1>5, GoOnAt DEF Attempt
<1>6. CASE MfaClear(r) \/ MfaStep(r)
  BY <1>6, GoOnAt DEF MfaClear, MfaStep
<1>7. CASE FindAccount(r)
  BY <1>0, <1>7, GoOnAt DEF FindAccount
<1>8. CASE FindForChange(r)
  BY <1>0, <1>8, GoOnAt DEF FindForChange
<1>9. CASE FindForMfa(r)
  BY <1>0, <1>9, GoOnAt DEF FindForMfa
<1> QED BY <1>1, <1>2, <1>3, <1>4, <1>5, <1>6, <1>7, <1>8, <1>9 DEF Serve

\* A statement takes a count nobody else holds, or leaves the race in the history.
LEMMA ServeOneHolder ==
    ASSUME Typed, Ends, Counted, NEW r \in Req, Serve(r), ~raced'
    PROVE  ~raced /\ OneHolder'
<1> USE DEF rows, counters, history, Finish
<1>0. req \in [Req -> Request] /\ req[r] \in Request /\ raced \in BOOLEAN
  BY DEF Typed
<1>1. ~raced
  BY <1>0
  DEF Serve, FindAccount, Charge, Clear, IssueSession, FindSession, FindOwner, Touch, Revoke,
      FindForChange, Attempt, Replace, RevokeOthers, FindForMfa, MfaCharge, MfaClear, MfaStep,
      MfaMark, SetStatus, RevokeAllSessions, CutOff
<1>2. ASSUME NEW q \in Req, q # r PROVE Holding(q)' = Holding(q)
  BY <1>2, ServeOthers DEF Holding
<1>3. \/ Holding(r)' = "none"
      \/ Holding(r)' = Holding(r)
      \/ \A q \in Req \ {r} : Holding(q) # Holding(r)'
  <2>1. CASE MfaClear(r) /\ req'[r].at = "mfa_step"
    BY <2>1 DEF MfaClear, Holding
  <2>2. CASE MfaStep(r) /\ req'[r].at = "mfa_mark"
    BY <2>2 DEF Holding
  <2>3. CASE req'[r] = Quiet
    BY <2>3 DEF Holding, Quiet
  <2>4. CASE req'[r].at \in {"charge", "clear"} /\ ~Races(r, "login")
    BY <2>4 DEF Holding, Races
  <2>5. CASE req'[r].at = "attempt" /\ ~Races(r, "change")
    BY <2>5 DEF Holding, Races
  <2>6. CASE req'[r].at \in {"mfa_charge", "mfa_clear"} /\ ~Races(r, "mfa")
    BY <2>6 DEF Holding, Races
  <2>7. CASE req'[r].at \in {"issue", "find_owner", "touch", "revoke", "change", "mfa", "replace",
                             "revoke_others", "revoke_all"}
    BY <2>7 DEF Holding
  <2> QED BY <2>1, <2>2, <2>3, <2>4, <2>5, <2>6, <2>7, ServeAt
<1>4. OneHolder
  BY <1>1 DEF Counted
<1> QED BY <1>1, <1>2, <1>3, <1>4 DEF OneHolder

\* Only the holder of a count writes it, from what it read.
LEMMA ServeCounted ==
    ASSUME Typed, Ends, Counted, NEW r \in Req, Serve(r)
    PROVE  Counted'
<1> SUFFICES ASSUME ~raced' PROVE CountsAgree' /\ (\A q \in Req : HoldsCount(q)') /\ OneHolder'
  BY DEF Counted
<1> USE DEF rows, counters, history, Finish
<1>0. /\ req \in [Req -> Request] /\ req[r] \in Request /\ account \in Account /\ tally \in Tally
  BY DEF Typed
<1>1. ~raced /\ OneHolder'
  BY ServeOneHolder
<1>2. CountsAgree /\ OneHolder /\ \A q \in Req : HoldsCount(q)
  BY <1>1 DEF Counted
<1>3. \/ UNCHANGED tally /\ account'.failed = account.failed /\ account'.changes = account.changes
         /\ account'.mfaFailed = account.mfaFailed
      \/ Charge(r) \/ Clear(r) \/ Attempt(r) \/ MfaCharge(r) \/ MfaClear(r)
      \/ MfaMark(r) /\ UNCHANGED account
  BY <1>0
  DEF Serve, FindAccount, IssueSession, FindSession, FindOwner, Touch, Revoke, Account,
      FindForChange, Replace, RevokeOthers, FindForMfa, MfaStep, MfaMark, SetStatus,
      RevokeAllSessions, CutOff
<1>4. CountsAgree'
  <2>1. CASE UNCHANGED tally /\ account'.failed = account.failed /\ account'.changes = account.changes
             /\ account'.mfaFailed = account.mfaFailed
    BY <1>2, <2>1 DEF CountsAgree
  <2>2. CASE MfaMark(r) /\ UNCHANGED account
    BY <1>0, <1>2, <2>2 DEF CountsAgree, MfaMark, Tally
  <2>3. CASE Charge(r)
    <3>1. req[r].read.failed = account.failed
      BY <1>2, <2>3 DEF Charge, HoldsCount
    <3> QED BY <1>0, <1>2, <2>3, <3>1 DEF CountsAgree, Charge, Account, Tally
  <2>4. CASE MfaCharge(r)
    <3>1. req[r].read.mfaFailed = account.mfaFailed
      BY <1>2, <2>4 DEF MfaCharge, HoldsCount
    <3> QED BY <1>0, <1>2, <2>4, <3>1 DEF CountsAgree, MfaCharge, Account, Tally
  <2>5. CASE Clear(r)
    BY <1>0, <1>2, <2>5 DEF CountsAgree, Clear, Account, Tally
  <2>7. CASE MfaClear(r)
    BY <1>0, <1>2, <2>7 DEF CountsAgree, MfaClear, Account, Tally
  <2>6. CASE Attempt(r)
    <3>1. req[r].read.changes = account.changes
      BY <1>2, <2>6 DEF Attempt, HoldsCount
    <3>2. account'.changes = NextWindow(req[r].read, req[r].seen).changes
          /\ account'.failed = account.failed /\ account'.mfaFailed = account.mfaFailed
      BY <1>0, <2>6 DEF Attempt, Account
    <3>3. tally'.changes = (IF WindowOver(req[r].read, req[r].seen) THEN 1 ELSE tally.changes + 1)
          /\ tally'.wrong = tally.wrong /\ tally'.codes = tally.codes
      BY <1>0, <2>6 DEF Attempt, Tally
    <3> QED BY <1>2, <3>1, <3>2, <3>3 DEF CountsAgree, NextWindow
  <2> QED BY <1>3, <2>1, <2>2, <2>3, <2>4, <2>5, <2>6, <2>7
<1>5. ASSUME NEW q \in Req, q # r PROVE HoldsCount(q)'
  <2>1. HoldsCount(q) /\ req'[q] = req[q] /\ (Holding(q) = "none" \/ Holding(q) # Holding(r))
    BY <1>2, <1>5, ServeOthers DEF OneHolder
  <2>2. CASE account'.failed # account.failed
    <3>1. Holding(r) = "login" /\ account'.changes = account.changes /\ account'.mfaFailed = account.mfaFailed
      BY <1>0, <1>3, <2>2 DEF Charge, Clear, Attempt, MfaCharge, MfaClear, Holding, Account
    <3> QED BY <2>1, <3>1, Unheld DEF HoldsCount
  <2>3. CASE account'.changes # account.changes
    <3>1. Holding(r) = "change" /\ account'.failed = account.failed /\ account'.mfaFailed = account.mfaFailed
      BY <1>0, <1>3, <2>3 DEF Charge, Clear, Attempt, MfaCharge, MfaClear, Holding, Account
    <3> QED BY <2>1, <3>1, Unheld DEF HoldsCount
  <2>4. CASE account'.mfaFailed # account.mfaFailed
    <3>1. Holding(r) = "mfa" /\ account'.changes = account.changes /\ account'.failed = account.failed
      BY <1>0, <1>3, <2>4 DEF Charge, Clear, Attempt, MfaCharge, MfaClear, Holding, Account
    <3> QED BY <2>1, <3>1, Unheld DEF HoldsCount
  <2> QED BY <2>1, <2>2, <2>3, <2>4 DEF HoldsCount
<1>6. HoldsCount(r)'
  <2>1. CASE req'[r].at \notin {"charge", "clear", "attempt", "mfa_charge"}
    BY <2>1 DEF HoldsCount
  <2>2. CASE req'[r].at \in {"charge", "clear", "attempt", "mfa_charge"}
    <3>1. (FindAccount(r) \/ FindForChange(r) \/ FindForMfa(r)) /\ req'[r] # Quiet
      <4>1. req'[r] # Quiet
        BY <2>2 DEF Quiet
      <4> QED BY <2>2, <4>1, ServeAt
    <3>2. req'[r].read = account /\ account' = account
      BY <1>0, <3>1, GoOnAt DEF FindAccount, FindForChange, FindForMfa
    <3> QED BY <3>2 DEF HoldsCount
  <2> QED BY <2>1, <2>2
<1> QED BY <1>1, <1>4, <1>5, <1>6

\* A code in service is ahead of every step used, and a used one is used once.
LEMMA ServeStepped ==
    ASSUME Typed, Ends, Counted, Stepped, NEW r \in Req, Serve(r)
    PROVE  Stepped'
<1> SUFFICES ASSUME ~raced' PROVE StepsDiffer' /\ \A q \in Req : NewStep(q)' /\ UsedStep(q)'
  BY DEF Stepped
<1> USE DEF rows, counters, history, Finish
<1>0. /\ req \in [Req -> Request] /\ \A q \in Req : req[q] \in Request /\ req[q].arg \in Nat
      /\ account \in Account /\ account.lastStep \in Nat
      /\ tally \in Tally /\ tally.steps \in Seq(Nat)
  <2>1. req \in [Req -> Request] /\ account \in Account /\ tally \in Tally
    BY DEF Typed
  <2>2. \A q \in Req : req[q].arg \in Nat
    BY <2>1 DEF Request
  <2> QED BY <2>1, <2>2 DEF Account, Tally
<1>1. ~raced
  BY ServeOneHolder
<1>2. OneHolder /\ StepsDiffer /\ \A q \in Req : NewStep(q) /\ UsedStep(q)
  BY <1>1 DEF Counted, Stepped
<1>3. \A q \in Req : q # r => req'[q] = req[q]
  BY ServeOthers
<1>4. CASE MfaStep(r)
  <2>1. /\ req[r].at = "mfa_step" /\ req'[r].at = "mfa_mark" /\ req'[r].arg = req[r].arg
        /\ account'.lastStep = req[r].arg /\ tally' = tally
    BY <1>0, <1>4, GoOnAt DEF MfaStep, Account
  <2>2. req[r].arg > account.lastStep
    BY <1>2, <2>1 DEF NewStep
  <2>3. StepsDiffer'
    BY <1>0, <1>2, <2>1, <2>2 DEF StepsDiffer
  <2>4. ASSUME NEW q \in Req PROVE NewStep(q)'
    <3>1. CASE q # r
      <4>1. req[q].at \notin {"mfa_clear", "mfa_step"}
        BY <1>2, <2>1, <3>1, Unheld DEF OneHolder
      <4> QED BY <1>3, <3>1, <4>1 DEF NewStep
    <3> QED BY <2>1, <3>1 DEF NewStep
  <2>5. ASSUME NEW q \in Req PROVE UsedStep(q)'
    <3>1. \A p \in Req : p # r /\ req[p].at = "mfa_mark" => req[p].arg < req[r].arg
      BY <1>0, <1>2, <2>2 DEF UsedStep
    <3>2. CASE q = r
      BY <1>0, <1>2, <1>3, <2>1, <2>2, <3>1, <3>2 DEF UsedStep, StepsDiffer
    <3>3. CASE q # r
      <4>1. UsedStep(q) /\ req'[q] = req[q]
        BY <1>2, <1>3, <3>3
      <4> QED BY <1>0, <1>3, <2>1, <2>2, <3>1, <3>3, <4>1 DEF UsedStep
    <3> QED BY <3>2, <3>3
  <2> QED BY <2>3, <2>4, <2>5
<1>5. CASE MfaMark(r)
  <2>1. /\ req[r].at = "mfa_mark" /\ req'[r] = Quiet /\ account' = account
        /\ tally'.steps = Append(tally.steps, req[r].arg)
    BY <1>0, <1>5 DEF MfaMark, Tally
  <2>2. UsedStep(r)
    BY <1>2
  <2>3. StepsDiffer'
    <3> DEFINE old == tally.steps
               new == tally'.steps
    <3>1. /\ DOMAIN old = 1 .. Len(old) /\ Len(old) \in Nat /\ DOMAIN new = 1 .. Len(old) + 1
          /\ new[Len(old) + 1] = req[r].arg /\ \A i \in DOMAIN old : new[i] = old[i]
      BY <1>0, <2>1
    <3>2. /\ \A i \in DOMAIN old : old[i] <= account.lastStep /\ old[i] # req[r].arg
          /\ \A i, j \in DOMAIN old : old[i] = old[j] => i = j
      BY <1>2, <2>1, <2>2 DEF StepsDiffer, UsedStep
    <3>3. req[r].arg <= account.lastStep
      BY <2>1, <2>2 DEF UsedStep
    <3>4. \A i \in DOMAIN new : i \in DOMAIN old \/ i = Len(old) + 1
      BY <3>1
    <3> HIDE DEF old, new
    <3>5. \A i \in DOMAIN new : new[i] <= account.lastStep
      BY <3>1, <3>2, <3>3, <3>4
    <3>6. \A i, j \in DOMAIN new : new[i] = new[j] => i = j
      BY <3>1, <3>2, <3>4
    <3> QED BY <2>1, <3>5, <3>6 DEF StepsDiffer, new
  <2>4. ASSUME NEW q \in Req PROVE NewStep(q)'
    BY <1>2, <1>3, <2>1 DEF NewStep, Quiet
  <2>5. ASSUME NEW q \in Req PROVE UsedStep(q)'
    <3>1. CASE q # r
      <4>1. UsedStep(q) /\ req'[q] = req[q]
        BY <1>2, <1>3, <3>1
      <4>2. req[q].at = "mfa_mark" => req[q].arg # req[r].arg
        BY <2>1, <2>2, <3>1 DEF UsedStep
      <4>3. \A p \in Req : req'[p].at = "mfa_mark" => p # r /\ req'[p] = req[p]
        BY <1>3, <2>1 DEF Quiet
      <4> QED BY <1>0, <2>1, <4>1, <4>2, <4>3 DEF UsedStep
    <3> QED BY <2>1, <3>1 DEF UsedStep, Quiet
  <2> QED BY <2>3, <2>4, <2>5
<1>6. CASE ~MfaStep(r) /\ ~MfaMark(r)
  <2>1. account'.lastStep = account.lastStep /\ tally'.steps = tally.steps
    BY <1>0, <1>6
    DEF Serve, FindAccount, Charge, Clear, IssueSession, FindSession, FindOwner, Touch, Revoke,
        FindForChange, Attempt, Replace, RevokeOthers, FindForMfa, MfaCharge, MfaClear, SetStatus,
        RevokeAllSessions, CutOff, Account, Tally
  <2>2. req'[r].at # "mfa_mark"
    BY <1>6, ServeAt DEF Quiet
  <2>3. NewStep(r)'
    <3>1. CASE MfaClear(r) /\ req'[r].arg = req[r].arg
      BY <1>2, <2>1, <3>1 DEF MfaClear, NewStep
    <3>2. CASE CodeValid(account, req[r].arg) /\ req'[r].arg = req[r].arg
      BY <2>1, <3>2 DEF CodeValid, NewStep
    <3>3. CASE req'[r].at \notin {"mfa_clear", "mfa_step"}
      BY <3>3 DEF NewStep
    <3> QED BY <1>6, <3>1, <3>2, <3>3, ServeAt DEF Quiet
  <2>4. ASSUME NEW q \in Req PROVE NewStep(q)'
    BY <1>2, <1>3, <2>1, <2>3 DEF NewStep
  <2>5. ASSUME NEW q \in Req PROVE UsedStep(q)'
    <3>1. CASE q # r
      <4>1. UsedStep(q) /\ req'[q] = req[q]
        BY <1>2, <1>3, <3>1
      <4>2. \A p \in Req : req'[p].at = "mfa_mark" => p # r /\ req'[p] = req[p]
        BY <1>3, <2>2
      <4> QED BY <2>1, <4>1, <4>2 DEF UsedStep
    <3> QED BY <2>2, <3>1 DEF UsedStep
  <2>6. StepsDiffer'
    BY <1>2, <2>1 DEF StepsDiffer
  <2> QED BY <2>4, <2>5, <2>6
<1> QED BY <1>4, <1>5, <1>6

-----------------------------------------------------------------------------
(* A request begins, the clock ticks. *)

\* A request that begins holds nothing and has read nothing.
LEMMA BeginInv ==
    ASSUME AuthInv, NEW r \in Req, NEW q \in Request, Begin(r, q), KnowsSession(r)',
           q.seen = Never, q.at \in {"find", "find_session", "status"}
    PROVE  AuthInv'
<1> USE DEF rows, counters, history
<1>1. /\ Typed' /\ req'[r] = q /\ \A p \in Req : p # r => req'[p] = req[p]
      /\ UNCHANGED <<account, session, clock, words, ended, tally, raced>>
  <2>1. Typed'
    BY BeginTyped DEF AuthInv
  <2> QED BY <2>1 DEF Begin, AuthInv, Typed
<1>2. Ends'
  <2>1. ASSUME NEW p \in Req, p # r PROVE KnowsSession(p)'
    BY <1>1, <2>1 DEF AuthInv, Ends, KnowsSession, Sessions
  <2> QED BY <1>1, <2>1 DEF AuthInv, Ends, Sessions
<1>3. InTime'
  <2>1. ASSUME NEW p \in Req PROVE OnTime(p)'
    <3>1. CASE p # r
      BY <1>1, <3>1 DEF AuthInv, InTime, OnTime
    <3>2. CASE p = r
      BY <1>1, <3>2 DEF OnTime, AuthInv, Typed, Never
    <3> QED BY <3>1, <3>2
  <2> QED BY <1>1, <2>1 DEF AuthInv, InTime, Sessions
<1>4. Counted'
  <2>1. Holding(r)' = "none" /\ HoldsCount(r)'
    BY <1>1 DEF Holding, HoldsCount
  <2>2. \A p \in Req : p # r => Holding(p)' = Holding(p)
    BY <1>1 DEF Holding
  <2>3. ASSUME ~raced' PROVE OneHolder' /\ CountsAgree' /\ \A p \in Req : HoldsCount(p)'
    <3>1. OneHolder /\ CountsAgree /\ \A p \in Req : HoldsCount(p)
      BY <1>1, <2>3 DEF AuthInv, Counted
    <3>2. OneHolder'
      BY <2>1, <2>2, <3>1 DEF OneHolder
    <3>3. CountsAgree'
      BY <1>1, <3>1 DEF CountsAgree
    <3>4. \A p \in Req : HoldsCount(p)'
      BY <1>1, <2>1, <3>1 DEF HoldsCount
    <3> QED BY <3>2, <3>3, <3>4
  <2> QED BY <2>3 DEF Counted
<1>5. Stepped'
  <2>1. ASSUME ~raced' PROVE StepsDiffer' /\ \A p \in Req : NewStep(p)' /\ UsedStep(p)'
    <3>1. StepsDiffer /\ \A p \in Req : NewStep(p) /\ UsedStep(p)
      BY <1>1, <2>1 DEF AuthInv, Stepped
    <3>2. StepsDiffer'
      BY <1>1, <3>1 DEF StepsDiffer
    <3>3. \A p \in Req : NewStep(p)'
      BY <1>1, <3>1 DEF NewStep
    <3>4. \A p \in Req : UsedStep(p)'
      BY <1>1, <3>1 DEF UsedStep
    <3> QED BY <3>2, <3>3, <3>4
  <2> QED BY <2>1 DEF Stepped
<1> QED BY <1>1, <1>2, <1>3, <1>4, <1>5 DEF AuthInv

\* Logins and requests with a session keep the invariant as they begin.
LEMMA StartInv ==
    ASSUME AuthInv, NEW r \in Req, NEW s \in Sessions, NEW op \in Operations, NEW arg \in Nat,
           op = "revoke" => arg \in Sessions, StartWith(r, s, op, arg)
    PROVE  AuthInv'
<1> DEFINE q == [Quiet EXCEPT !.op = op, !.at = "find_session", !.sid = s, !.arg = arg, !.late = Over(s)]
<1>1. /\ q \in Request /\ q.op = op /\ q.at = "find_session" /\ q.sid = s /\ q.arg = arg
      /\ q.late = Over(s) /\ q.seen = Never
  <2>1. s \in Nat /\ Over(s) \in BOOLEAN
    BY DEF AuthInv, Typed, Sessions, Over
  <2>2. Quiet \in Request
    BY RequestTyped DEF AuthInv
  <2> QED BY <2>1, <2>2 DEF Request, OfSession, Quiet
<1>2. Begin(r, q)
  BY DEF StartWith
<1> HIDE DEF q
<1>3. req'[r] = q /\ session' = session /\ clock' = clock
  BY <1>2 DEF Begin, AuthInv, Typed, rows
<1>4. Over(s) => session[s].revoked \/ session[s].expires <= clock
  <2>1. session[s].expires \in Nat /\ clock \in Nat
    BY RowsTyped DEF AuthInv, Typed, Row
  <2> QED BY <2>1 DEF AuthInv, Ends, Over
<1>5. KnowsSession(r)'
  <2>1. Sessions' = Sessions
    BY <1>3 DEF Sessions
  <2>2. req'[r].op \notin {Active, Disabled} /\ req'[r].at = "find_session"
    BY <1>1, <1>3 DEF Operations, Active, Disabled
  <2> QED BY <1>1, <1>3, <1>4, <2>1, <2>2 DEF KnowsSession, OfSession
<1> QED BY <1>1, <1>2, <1>5, BeginInv

\* So does any other that begins.
LEMMA StartOtherInv ==
    ASSUME AuthInv, NEW r \in Req, NEW q \in Request, Begin(r, q),
           q.sid = NoSession, ~q.late, q.seen = Never,
           \/ q.at = "find" /\ q.op = "login"
           \/ q.at = "status" /\ q.op \in {Active, Disabled}
    PROVE  AuthInv'
<1>1. req'[r] = q
  BY DEF Begin, AuthInv, Typed
<1>2. KnowsSession(r)'
  BY <1>1 DEF KnowsSession, OfSession, Active, Disabled
<1> QED BY <1>2, BeginInv

\* Time passing keeps it.
LEMMA TickInv ==
    ASSUME AuthInv, Tick
    PROVE  AuthInv'
<1> USE DEF rows, counters, history
<1>1. /\ clock \in Nat \ {0} /\ clock' = clock + 1
      /\ UNCHANGED <<account, session, req, words, ended, tally, raced>>
  BY DEF AuthInv, Typed, Tick
<1>2. Typed'
  BY <1>1 DEF AuthInv, Typed
<1>3. Ends'
  <2>1. Grows
    BY <1>1 DEF Grows, Sessions
  <2>2. ASSUME NEW q \in Req PROVE KnowsSession(q)'
    BY <1>1, <2>1, KnowsKept DEF AuthInv, Ends
  <2> QED BY <1>1, <2>2 DEF AuthInv, Ends, Sessions
<1>4. InTime'
  <2>1. ASSUME NEW q \in Req PROVE OnTime(q)'
    <3>1. OnTime(q) /\ req[q].seen \in Nat /\ req[q].read.since \in Nat /\ req[q].arg \in Nat
      <4>1. req[q] \in Request
        BY DEF AuthInv, Typed
      <4> QED BY <4>1 DEF AuthInv, InTime, Request, Account
    <3> QED BY <1>1, <3>1, Durations DEF OnTime
  <2>2. \A s \in Sessions : session[s].seen \in 1 .. clock + 1
    BY <1>1 DEF AuthInv, InTime
  <2>3. /\ account.word \in 1 .. words /\ account.changes <= Limit /\ account.since <= clock + 1
        /\ account.lockedUntil <= clock + 1 + MaxLock /\ account.mfaLocked <= clock + 1 + MaxLock
        /\ account.lastStep <= clock + 1 + Drift
    <3>1. /\ account.since \in Nat /\ account.lockedUntil \in Nat /\ account.mfaLocked \in Nat
          /\ account.lastStep \in Nat
      BY DEF AuthInv, Typed, Account
    <3> QED BY <1>1, <3>1, Durations DEF AuthInv, InTime
  <2> QED BY <1>1, <2>1, <2>2, <2>3 DEF InTime, Sessions
<1>5. Counted' /\ Stepped'
  BY <1>1 DEF AuthInv, Counted, CountsAgree, HoldsCount, OneHolder, Holding, Stepped, StepsDiffer,
              NewStep, UsedStep
<1> QED BY <1>2, <1>3, <1>4, <1>5 DEF AuthInv

\* Every statement keeps it.
LEMMA ServeInv ==
    ASSUME AuthInv, NEW r \in Req, Serve(r)
    PROVE  AuthInv'
<1>1. Typed /\ Ends /\ InTime /\ Counted /\ Stepped
  BY DEF AuthInv
<1>2. Typed'
  BY <1>1, LoginTyped, GuardTyped, RevokeTyped, ChangeTyped, MfaTyped, StatusTyped
  DEF Serve, Ends, KnowsSession
<1>3. Ends'
  BY <1>1, ServeEnds
<1>4. InTime'
  BY <1>1, <1>2, ServeInTime
<1>5. Counted'
  BY <1>1, ServeCounted
<1>6. Stepped'
  BY <1>1, ServeStepped
<1> QED BY <1>2, <1>3, <1>4, <1>5, <1>6 DEF AuthInv

\* So does every step.
LEMMA NextInv ==
    ASSUME AuthInv, [Next]_vars
    PROVE  AuthInv'
<1>0. clock \in Nat /\ words \in Nat /\ Sessions \subseteq Nat
  BY DEF AuthInv, Typed, Sessions
<1>1. CASE UNCHANGED vars
  <2>1. UNCHANGED <<account, session, clock, req, words, ended, tally, raced>>
    BY <1>1 DEF vars, rows, counters, history
  <2>2. Typed'
    BY <2>1 DEF AuthInv, Typed
  <2>3. Ends' /\ InTime'
    BY <2>1 DEF AuthInv, Ends, KnowsSession, InTime, OnTime, Sessions
  <2>4. Counted' /\ Stepped'
    BY <2>1 DEF AuthInv, Counted, CountsAgree, HoldsCount, OneHolder, Holding, Stepped, StepsDiffer,
                NewStep, UsedStep
  <2> QED BY <2>2, <2>3, <2>4 DEF AuthInv
<1>2. ASSUME NEW r \in Req, NEW word \in Words, StartLogin(r, word) PROVE AuthInv'
  <2> DEFINE q == [Quiet EXCEPT !.op = "login", !.at = "find", !.arg = word]
  <2>1. word \in Nat
    BY <1>0 DEF Words
  <2>2. q \in Request /\ q.sid = NoSession /\ ~q.late /\ q.seen = Never /\ q.at = "find" /\ q.op = "login"
    <3>1. Quiet \in Request
      BY RequestTyped DEF AuthInv
    <3> QED BY <2>1, <3>1 DEF Request, Quiet, OfNone
  <2>3. Begin(r, q)
    BY <1>2 DEF StartLogin
  <2> HIDE DEF q
  <2> QED BY <2>2, <2>3, StartOtherInv
<1>3. ASSUME NEW r \in Req, NEW s \in Sessions, Browse(r, s) \/ Logout(r, s) PROVE AuthInv'
  BY <1>0, <1>3, StartInv DEF Browse, Logout, Operations
<1>4. ASSUME NEW r \in Req, NEW s \in Sessions, NEW t \in Sessions, EndOther(r, s, t) PROVE AuthInv'
  BY <1>0, <1>4, StartInv DEF EndOther, Operations
<1>5. ASSUME NEW r \in Req, NEW s \in Sessions, NEW word \in Words, ChangePassword(r, s, word)
      PROVE  AuthInv'
  <2>1. word \in Nat
    BY <1>0 DEF Words
  <2> QED BY <1>5, <2>1, StartInv DEF ChangePassword, Operations
<1>6. ASSUME NEW r \in Req, NEW s \in Sessions, NEW code \in Codes, VerifyMfa(r, s, code)
      PROVE  AuthInv'
  <2>1. code \in Nat
    BY <1>0 DEF Codes
  <2> QED BY <1>6, <2>1, StartInv DEF VerifyMfa, Operations
<1>7. ASSUME NEW r \in Req, NEW status \in {Active, Disabled}, StartStatus(r, status) PROVE AuthInv'
  <2> DEFINE q == [Quiet EXCEPT !.op = status, !.at = "status"]
  <2>1. Quiet \in Request
    BY RequestTyped DEF AuthInv
  <2>2. q \in Request /\ q.sid = NoSession /\ ~q.late /\ q.seen = Never /\ q.at = "status" /\ q.op = status
    BY <2>1 DEF Request, Quiet, OfNone
  <2>3. Begin(r, q)
    BY <1>7 DEF StartStatus
  <2> HIDE DEF q
  <2> QED BY <1>7, <2>2, <2>3, StartOtherInv
<1> QED BY <1>1, <1>2, <1>3, <1>4, <1>5, <1>6, <1>7, ServeInv, TickInv DEF Next

\* AuthInv is an invariant, whatever the durations, the drift and the threshold.
THEOREM AuthInvariant == Spec => []AuthInv
<1>1. Init => AuthInv
  BY InitInv
<1>2. AuthInv /\ [Next]_vars => AuthInv'
  BY NextInv
<1> QED BY <1>1, <1>2, PTL DEF Spec

-----------------------------------------------------------------------------
(* The properties. *)

\* The rows keep their types and stay within their bounds: a lock never outlasts
\* MaxLock from now, the attempts of a window never pass Limit, and no step
\* beyond the drift is marked used.
THEOREM TypeCorrect == Spec => []AuthTypeOK
<1>1. AuthInv => AuthTypeOK
  <2> SUFFICES ASSUME AuthInv PROVE AuthTypeOK
    OBVIOUS
  <2>1. account \in Account /\ clock \in Nat \ {0}
    BY DEF AuthInv, Typed
  <2>2. /\ account.status \in {Active, Disabled} /\ account.changes \in Nat /\ account.since \in Nat
        /\ account.lockedUntil \in Nat /\ account.mfaLocked \in Nat /\ account.failed \in Nat
        /\ account.mfaFailed \in Nat /\ account.lastStep \in Nat
    BY <2>1 DEF Account
  <2>3. account.changes \in 0 .. Limit /\ account.since \in 0 .. clock
        /\ account.lockedUntil \in 0 .. clock + MaxLock /\ account.mfaLocked \in 0 .. clock + MaxLock
        /\ account.lastStep \in 0 .. clock + Drift /\ account.word \in 1 .. words
    BY <2>1, <2>2, Durations DEF AuthInv, InTime
  <2>4. \A s \in Sessions : session[s].seen \in 1 .. clock /\ session[s].expires \in Nat
    BY RowsTyped DEF AuthInv, InTime, Row
  <2>5. ended \subseteq Sessions /\ \A r \in Req : req[r].sid \in Sessions \cup {NoSession}
    BY DEF AuthInv, Ends, KnowsSession
  <2> QED BY <2>2, <2>3, <2>4, <2>5 DEF AuthTypeOK
<1> QED BY <1>1, AuthInvariant, PTL

\* A request that comes with a session that was ended, or is past its absolute
\* expiry, gets no further than findSession, whatever else is in flight.
THEOREM OverRefused == Spec => []OverIsRefused
<1>1. AuthInv => OverIsRefused
  BY DEF AuthInv, Ends, KnowsSession, OverIsRefused
<1> QED BY <1>1, AuthInvariant, PTL

\* As long as no two requests held the same count between its read and its write,
\* the lockout, the change window and the second factor count every attempt, and
\* no TOTP step verifies twice.
THEOREM AttemptsCounted == Spec => []AttemptsAreCounted
<1>1. AuthInv => AttemptsAreCounted
  BY DEF AuthInv, Counted, CountsAgree, Stepped, StepsDiffer, AttemptsAreCounted
<1> QED BY <1>1, AuthInvariant, PTL
=============================================================================
