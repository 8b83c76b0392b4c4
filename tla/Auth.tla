-------------------------------- MODULE Auth --------------------------------
(***************************************************************************)
(* One account and its sessions: server/src/auth/service.ts over the rows  *)
(* of auth/postgres-repository.ts, the routes of auth/http.ts behind the   *)
(* guard of session-guard.ts, and admin/service.ts setAccountStatus.       *)
(*                                                                         *)
(* Every operation reads a row, decides, and writes it in a later          *)
(* statement, so a request is a process as in Tables: a step is one        *)
(* statement and the code up to the next one.  Passwords are the versions  *)
(* of the account's password, 0 for one it never had; a TOTP code is the   *)
(* step it was computed for, 0 for a wrong one.  A tick of the clock is    *)
(* the unit of every duration and one TOTP period.                         *)
(***************************************************************************)
EXTENDS Integers, Sequences, FiniteSets

CONSTANTS
    Req,            \* requests that can be in flight together
    Absolute, Idle, \* lifetime of a session, and its longest silence
    Threshold, BaseLock, MaxLock,   \* LOCKOUT_THRESHOLD, and lock durations
    Limit, Period,  \* of password changes: LIMIT per WINDOW_MS
    Drift,          \* DRIFT_STEPS
    MaxTime,        \* bound: the clock
    MaxSessions,    \* bound: sessions issued
    MaxRequests,    \* bound: requests served
    MaxFaults       \* bound: requests cut off between statements

ASSUME DurationsAssumption ==
    /\ {Absolute, Idle, BaseLock, Limit, Period, Threshold} \subseteq Nat \ {0}
    /\ {MaxLock, Drift, MaxTime, MaxSessions, MaxRequests, MaxFaults} \subseteq Nat

Never == 0          \* null for a time or a step: the clock starts at 1
Active == "active"
Disabled == "disabled"

VARIABLES
    account,    \* the accounts row
    session,    \* the sessions rows, in order of issue
    clock,
    req,        \* request -> what it is doing
    words,      \* versions the password has had
    served, faults, \* counters of the bounds
    ended,      \* history: sessions revoked, or that a finished operation promised to end
    tally,      \* history: [wrong, changes, codes, steps] counted since the rows' counts began
    raced       \* history: two requests held the same count between read and write

rows == <<account, session>>
counters == <<served, faults>>
history == <<ended, tally, raced>>
vars == <<rows, clock, req, words, counters, history>>

Sessions == DOMAIN session
Min2(a, b) == IF a <= b THEN a ELSE b

-----------------------------------------------------------------------------
(* lockout.ts, password-change-limit.ts and totp.ts. *)

Doublings[n \in Nat] == IF n = 0 THEN 1 ELSE 2 * Doublings[n - 1]

\* computeLockoutMinutes, from now: every Threshold failures double the lock.
LockAfter(failures, now) ==
    IF failures < Threshold THEN Never
    ELSE now + Min2(BaseLock * Doublings[failures \div Threshold - 1], MaxLock)

IsLocked(until) == until # Never /\ until > clock

\* checkPasswordChangeWindow: a fixed window from its first attempt.
WindowOver(a, now) == a.since = Never \/ now - a.since >= Period

\* Mutant: lets one attempt too many into the window.
MayChangeOnceMore(a, now) == WindowOver(a, now) \/ a.changes <= Limit

MayChange(a, now) == WindowOver(a, now) \/ a.changes < Limit

NextWindow(a, now) ==
    IF WindowOver(a, now) THEN [changes |-> 1, since |-> now]
    ELSE [changes |-> a.changes + 1, since |-> a.since]

\* Mutant: takes a code of any step within the drift.
CodeValidAgain(a, code) == code # Never /\ code \in clock - Drift .. clock + Drift

\* verifyTotpCode: a step within the drift, after the last one used.
CodeValid(a, code) == code # Never /\ code \in clock - Drift .. clock + Drift /\ code > a.lastStep

-----------------------------------------------------------------------------
(* Requests. *)

NoSession == 0
NoAccount == [word |-> 1, status |-> Active, failed |-> 0, lockedUntil |-> Never,
              changes |-> 0, since |-> Never, mfaFailed |-> 0, mfaLocked |-> Never,
              lastStep |-> Never]
Quiet == [op |-> "none", at |-> "done", sid |-> NoSession, arg |-> 0, late |-> FALSE,
          seen |-> Never, read |-> NoAccount, old |-> {}]

Operations == {"change", "mfa", "revoke", "browse"}

\* Counts are held from the read of the account to the write of the count.
Holding(r) ==
    CASE req[r].at \in {"charge", "clear"} -> "login"
      [] req[r].at = "attempt" -> "change"
      [] req[r].at \in {"mfa_charge", "mfa_clear", "mfa_step"} -> "mfa"
      [] OTHER -> "none"
Races(r, count) == \E q \in Req \ {r} : Holding(q) = count

Begin(r, q) ==
    /\ req[r] = Quiet /\ served < MaxRequests /\ served' = served + 1
    /\ req' = [req EXCEPT ![r] = q]
    /\ UNCHANGED <<rows, clock, words, faults, history>>

Finish(r) == req' = [req EXCEPT ![r] = Quiet]
GoOn(r, at) == req' = [req EXCEPT ![r].at = at]
\* The row is read, and with it the time.
Hold(r, at) == req' = [req EXCEPT ![r].at = at, ![r].read = account, ![r].seen = clock]

StartLogin(r, word) == Begin(r, [Quiet EXCEPT !.op = "login", !.at = "find", !.arg = word])

\* A request with a session's cookie.  It comes late when the session is over.
Over(s) == s \in ended \/ clock >= session[s].expires
StartWith(r, s, op, arg) ==
    Begin(r, [Quiet EXCEPT !.op = op, !.at = "find_session", !.sid = s, !.arg = arg,
                           !.late = Over(s)])

\* The routes: a reading one (the account, its sessions), logout, the end of
\* another session of the account, a change of the password, a second factor.
Browse(r, s) == StartWith(r, s, "browse", 0)
Logout(r, s) == StartWith(r, s, "revoke", s)
EndOther(r, s, t) == StartWith(r, s, "revoke", t)
ChangePassword(r, s, word) == StartWith(r, s, "change", word)
VerifyMfa(r, s, code) == StartWith(r, s, "mfa", code)

StartStatus(r, status) ==
    Begin(r, [Quiet EXCEPT !.op = status, !.at = "status"])

-----------------------------------------------------------------------------
(* login *)

FindAccount(r) ==
    /\ req[r].at = "find"
    /\ IF IsLocked(account.lockedUntil) \/ account.status = Disabled
       THEN Finish(r) /\ UNCHANGED raced
       ELSE /\ Hold(r, IF req[r].arg = account.word THEN "clear" ELSE "charge")
            /\ raced' = (raced \/ Races(r, "login"))
    /\ UNCHANGED <<rows, clock, words, counters, ended, tally>>

\* A wrong password: one more than the count that was read, and the lock it
\* makes from the time of the read.
Charge(r) ==
    LET n == req[r].read.failed + 1
    IN  /\ req[r].at = "charge"
        /\ account' = [account EXCEPT !.failed = n, !.lockedUntil = LockAfter(n, req[r].seen)]
        /\ tally' = [tally EXCEPT !.wrong = @ + 1]
        /\ Finish(r)
        /\ UNCHANGED <<session, clock, words, counters, ended, raced>>

Clear(r) ==
    /\ req[r].at = "clear"
    /\ account' = [account EXCEPT !.failed = 0, !.lockedUntil = Never]
    /\ tally' = [tally EXCEPT !.wrong = 0]
    /\ req' = [req EXCEPT ![r] = [Quiet EXCEPT !.op = "login", !.at = "issue"]]
    /\ UNCHANGED <<session, clock, words, counters, ended, raced>>

IssueSession(r) ==
    /\ req[r].at = "issue" /\ Len(session) < MaxSessions
    /\ session' = Append(session, [seen |-> clock, expires |-> clock + Absolute,
                                   revoked |-> FALSE, verified |-> FALSE])
    /\ Finish(r)
    /\ UNCHANGED <<account, clock, words, counters, history>>

-----------------------------------------------------------------------------
(* validateSession, before every route but login and registration. *)

FindSession(r) ==
    LET s == session[req[r].sid]
    IN  /\ req[r].at = "find_session"
        /\ IF s.revoked \/ s.expires <= clock THEN Finish(r)
           ELSE req' = [req EXCEPT ![r].at = "find_owner", ![r].seen = s.seen]
        /\ UNCHANGED <<rows, clock, words, counters, history>>

FindOwner(r) ==
    /\ req[r].at = "find_owner"
    /\ IF account.status = Disabled \/ clock - req[r].seen > Idle THEN Finish(r)
       ELSE req' = [req EXCEPT ![r].at = "touch", ![r].seen = clock]
    /\ UNCHANGED <<rows, clock, words, counters, history>>

\* The request is accepted and its route begins.
Touch(r) ==
    /\ req[r].at = "touch"
    /\ session' = [session EXCEPT ![req[r].sid].seen = req[r].seen]
    /\ IF req[r].op = "browse" THEN Finish(r) ELSE GoOn(r, req[r].op)
    /\ UNCHANGED <<account, clock, words, counters, history>>

\* logout, or revokeOwnSession of any session of the account.
Revoke(r) ==
    /\ req[r].at = "revoke"
    /\ session' = [session EXCEPT ![req[r].arg].revoked = TRUE]
    /\ ended' = ended \cup {req[r].arg}
    /\ Finish(r)
    /\ UNCHANGED <<account, clock, words, counters, tally, raced>>

-----------------------------------------------------------------------------
(* changePassword *)

FindForChange(r) ==
    /\ req[r].at = "change"
    /\ IF MayChange(account, clock)
       THEN Hold(r, "attempt") /\ raced' = (raced \/ Races(r, "change"))
       ELSE Finish(r) /\ UNCHANGED raced
    /\ UNCHANGED <<rows, clock, words, counters, ended, tally>>

\* The attempt counts before anything is verified, from what was read; then the
\* password is verified against what was read, and the new one may be refused.
Attempt(r) ==
    LET next == NextWindow(req[r].read, req[r].seen)
    IN  /\ req[r].at = "attempt"
        /\ account' = [account EXCEPT !.changes = next.changes, !.since = next.since]
        /\ tally' = [tally EXCEPT !.changes = IF WindowOver(req[r].read, req[r].seen) THEN 1 ELSE @ + 1]
        /\ \/ req[r].arg = req[r].read.word /\ GoOn(r, "replace")
           \/ Finish(r)
        /\ UNCHANGED <<session, clock, words, counters, ended, raced>>

Replace(r) ==
    /\ req[r].at = "replace"
    /\ words' = words + 1
    /\ account' = [account EXCEPT !.word = words']
    /\ req' = [req EXCEPT ![r].at = "revoke_others", ![r].old = Sessions \ {req[r].sid}]
    /\ UNCHANGED <<session, clock, counters, history>>

RevokeAll(except) ==
    session' = [s \in Sessions |-> IF s = except THEN session[s]
                                   ELSE [session[s] EXCEPT !.revoked = TRUE]]

\* Mutant: revokes the sessions issued after the current one.
RevokeOthersNewer(r) ==
    /\ req[r].at = "revoke_others"
    /\ session' = [s \in Sessions |-> IF s <= req[r].sid THEN session[s]
                                      ELSE [session[s] EXCEPT !.revoked = TRUE]]
    /\ ended' = ended \cup req[r].old
    /\ Finish(r)
    /\ UNCHANGED <<account, clock, words, counters, tally, raced>>

\* The last statement of a change: it has ended the sessions there were, but for
\* the one it came with, when the password was replaced.
RevokeOthers(r) ==
    /\ req[r].at = "revoke_others"
    /\ RevokeAll(req[r].sid)
    /\ ended' = ended \cup req[r].old
    /\ Finish(r)
    /\ UNCHANGED <<account, clock, words, counters, tally, raced>>

-----------------------------------------------------------------------------
(* verifyMfa *)

FindForMfa(r) ==
    /\ req[r].at = "mfa"
    /\ IF IsLocked(account.mfaLocked) THEN Finish(r) /\ UNCHANGED raced
       ELSE /\ Hold(r, IF CodeValid(account, req[r].arg) THEN "mfa_clear" ELSE "mfa_charge")
            /\ raced' = (raced \/ Races(r, "mfa"))
    /\ UNCHANGED <<rows, clock, words, counters, ended, tally>>

MfaCharge(r) ==
    LET n == req[r].read.mfaFailed + 1
    IN  /\ req[r].at = "mfa_charge"
        /\ account' = [account EXCEPT !.mfaFailed = n, !.mfaLocked = LockAfter(n, req[r].seen)]
        /\ tally' = [tally EXCEPT !.codes = @ + 1]
        /\ Finish(r)
        /\ UNCHANGED <<session, clock, words, counters, ended, raced>>

MfaClear(r) ==
    /\ req[r].at = "mfa_clear"
    /\ account' = [account EXCEPT !.mfaFailed = 0, !.mfaLocked = Never]
    /\ tally' = [tally EXCEPT !.codes = 0]
    /\ GoOn(r, "mfa_step")
    /\ UNCHANGED <<session, clock, words, counters, ended, raced>>

MfaStep(r) ==
    /\ req[r].at = "mfa_step"
    /\ account' = [account EXCEPT !.lastStep = req[r].arg]
    /\ GoOn(r, "mfa_mark")
    /\ UNCHANGED <<session, clock, words, counters, history>>

\* The session is marked, and the code has done its one service.
MfaMark(r) ==
    /\ req[r].at = "mfa_mark"
    /\ session' = [session EXCEPT ![req[r].sid].verified = TRUE]
    /\ tally' = [tally EXCEPT !.steps = Append(@, req[r].arg)]
    /\ Finish(r)
    /\ UNCHANGED <<account, clock, words, counters, ended, raced>>

-----------------------------------------------------------------------------
(* setAccountStatus, by an administrator of another account. *)

SetStatus(r) ==
    /\ req[r].at = "status"
    /\ account' = [account EXCEPT !.status = req[r].op]
    /\ IF req[r].op = Disabled
       THEN req' = [req EXCEPT ![r].at = "revoke_all", ![r].old = Sessions]
       ELSE Finish(r)
    /\ UNCHANGED <<session, clock, words, counters, history>>

RevokeAllSessions(r) ==
    /\ req[r].at = "revoke_all"
    /\ RevokeAll(NoSession)
    /\ ended' = ended \cup req[r].old
    /\ Finish(r)
    /\ UNCHANGED <<account, clock, words, counters, tally, raced>>

-----------------------------------------------------------------------------

\* A statement fails, or the process ends: the request stops where it is.
CutOff(r) ==
    /\ req[r] # Quiet /\ faults < MaxFaults /\ faults' = faults + 1
    /\ Finish(r)
    /\ raced' = (raced \/ req[r].at = "mfa_step")
    /\ UNCHANGED <<rows, clock, words, served, ended, tally>>

Tick == clock < MaxTime /\ clock' = clock + 1 /\ UNCHANGED <<rows, req, words, counters, history>>

Init ==
    /\ account = NoAccount
    /\ session = <<[seen |-> 1, expires |-> 1 + Absolute, revoked |-> FALSE, verified |-> FALSE]>>
    /\ clock = 1 /\ words = 1
    /\ req = [r \in Req |-> Quiet] /\ served = 0 /\ faults = 0
    /\ ended = {} /\ raced = FALSE
    /\ tally = [wrong |-> 0, changes |-> 0, codes |-> 0, steps |-> <<>>]

Serve(r) ==
    \/ FindAccount(r) \/ Charge(r) \/ Clear(r) \/ IssueSession(r)
    \/ FindSession(r) \/ FindOwner(r) \/ Touch(r) \/ Revoke(r)
    \/ FindForChange(r) \/ Attempt(r) \/ Replace(r) \/ RevokeOthers(r)
    \/ FindForMfa(r) \/ MfaCharge(r) \/ MfaClear(r) \/ MfaStep(r) \/ MfaMark(r)
    \/ SetStatus(r) \/ RevokeAllSessions(r)
    \/ CutOff(r)

Words == 0 .. words
Codes == {0, clock, clock + 1}

Next ==
    \/ \E r \in Req :
          \/ Serve(r)
          \/ \E word \in Words : StartLogin(r, word)
          \/ \E s \in Sessions :
                \/ Browse(r, s) \/ Logout(r, s)
                \/ \E t \in Sessions \ {s} : EndOther(r, s, t)
                \/ \E word \in Words : ChangePassword(r, s, word)
                \/ \E code \in Codes : VerifyMfa(r, s, code)
          \/ \E status \in {Active, Disabled} : StartStatus(r, status)
    \/ Tick

Spec == Init /\ [][Next]_vars

-----------------------------------------------------------------------------
(* Properties. *)

AuthTypeOK ==
    /\ account.word \in 1 .. words /\ account.status \in {Active, Disabled}
    /\ account.changes \in 0 .. Limit /\ account.since \in 0 .. clock
    /\ account.lockedUntil \in 0 .. clock + MaxLock /\ account.mfaLocked \in 0 .. clock + MaxLock
    /\ account.failed \in Nat /\ account.mfaFailed \in Nat /\ account.lastStep \in 0 .. clock + Drift
    /\ \A s \in Sessions : session[s].seen \in 1 .. clock /\ session[s].expires \in Nat
    /\ ended \subseteq Sessions
    /\ \A r \in Req : req[r].sid \in Sessions \cup {NoSession}

\* A session that is over stays over: a request that arrives after its session
\* was revoked, after it passed its absolute expiry, or after a password change
\* or a disabling that found it there was completed, is never accepted, whatever
\* else is in flight and even if the account is enabled again.
OverIsRefused == \A r \in Req : req[r].late => req[r].at \in {"done", "find_session"}

\* Unless two requests held the same count at once: the failures, the attempts
\* of the window and the wrong codes that the row counts are those that happened
\* since the count began, and no step of the second factor verifies twice.
AttemptsAreCounted ==
    ~raced =>
        /\ account.failed = tally.wrong
        /\ account.changes = tally.changes
        /\ account.mfaFailed = tally.codes
        /\ \A i, j \in DOMAIN tally.steps : tally.steps[i] = tally.steps[j] => i = j
=============================================================================
