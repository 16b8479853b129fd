------------------------------- MODULE SignOn -------------------------------
(***************************************************************************)
(* Sign-on of one user: AuthService.login(), refresh(), logout() and        *)
(* reset_password(), SessionService.revoke_session(),                       *)
(* UserService.change_password() and deactivate_account(), in any           *)
(* interleaving.  Requests of different users share no row.                 *)
(*                                                                         *)
(* No handler locks a row before it writes it: each loads the user (and the *)
(* token), decides on what it loaded, and commits UPDATEs of single columns *)
(* that overwrite whatever is stored.  Rows are committed rows, and a       *)
(* handler's writes become visible together.                                *)
(*                                                                         *)
(* A session and the token family of a login have the identity of the login *)
(* request, and a refresh token that of the request which issued it.        *)
(***************************************************************************)
EXTENDS Naturals

CONSTANTS
    Requests,
    Workloads,        \* what the requests are: functions to Kinds
    MaxAttempts,      \* settings.login_max_attempts
    FirstPassword, WrongPassword, NoTarget

AuthenticatedKinds == {"logout", "revoke", "change", "deactivate"}
Kinds == {"login", "refresh", "reset"} \cup AuthenticatedKinds

ASSUME SignOnAssumption ==
    /\ Workloads \subseteq [Requests -> Kinds]
    /\ MaxAttempts \in Nat \ {0}
    /\ FirstPassword \notin Requests
    /\ WrongPassword \notin Requests \cup {FirstPassword}
    /\ NoTarget \notin Requests

VARIABLES
    user,         \* users: the columns that sign-on reads
    tokens,       \* refresh_tokens: the state of each token
    sessionOf,    \* ... and the session (and family) it belongs to
    sessions,     \* user_sessions: the status of each session
    kind,         \* which handler serves a request
    pc,           \* where that handler is
    target,       \* the token presented to refresh, the session to end
    password,     \* the password presented
    mine,         \* the user as the handler's database session loaded it
    sawRevoked,   \* refreshes that loaded a revoked token
    victims,      \* tokens that a handler selected for revocation
    known,        \* ghost: the tokens issued when a request arrived
    late,         \* ghost: requests that arrived after their right had ended
    earlier,      \* ghost: the requests that had arrived when one finished
    failures,     \* ghost: failed logins since the last successful one
    overlapped    \* ghost: two requests were in flight at once

tables  == <<user, tokens, sessionOf, sessions>>
request == <<kind, target, password>>
locals  == <<mine, sawRevoked, victims>>
ghosts  == <<known, late, earlier, failures, overlapped>>
vars    == <<tables, request, pc, locals, ghosts>>

Passwords == Requests \cup {FirstPassword, WrongPassword}
UserRow   == [active: BOOLEAN, password: Passwords, attempts: Nat,
              lock: {"none", "locked", "passed"}]
Registered == [active |-> TRUE, password |-> FirstPassword, attempts |-> 0, lock |-> "none"]

Issued      == {t \in Requests : tokens[t] # "absent"}
Live        == {t \in Requests : tokens[t] = "live"}
Opened      == {s \in Requests : sessions[s] # "absent"}
OfSession(s) == {t \in Requests : sessionOf[t] = s}

Ended       == {"issued", "revoked", "refused", "lost"}
InFlight(a) == pc[a] \notin Ended \cup {"unsent"}

Init ==
    /\ user = Registered
    /\ tokens = [t \in Requests |-> "absent"]
    /\ sessionOf = [t \in Requests |-> t]
    /\ sessions = [s \in Requests |-> "absent"]
    /\ kind \in Workloads
    /\ pc = [a \in Requests |-> "unsent"]
    /\ target = [a \in Requests |-> NoTarget]
    /\ password = [a \in Requests |-> WrongPassword]
    /\ mine = [a \in Requests |-> Registered]
    /\ sawRevoked = {}
    /\ victims = [a \in Requests |-> {}]
    /\ known = [a \in Requests |-> {}]
    /\ late = {}
    /\ earlier = [a \in Requests |-> {}]
    /\ failures = 0
    /\ overlapped = FALSE

-----------------------------------------------------------------------------
Goto(a, label) == pc' = [pc EXCEPT ![a] = label]

(* What a client can present: a token that was issued, a session that was    *)
(* opened; the current password or another one.                             *)
Targets(a) == IF kind[a] = "refresh" THEN Issued
              ELSE IF kind[a] \in {"logout", "revoke"} THEN Opened
              ELSE {NoTarget}
Presented(a) == IF kind[a] \in {"login", "change", "deactivate"}
                THEN {user.password, WrongPassword} ELSE {WrongPassword}
TooLate(a, x) == ~user.active \/ (kind[a] = "refresh" /\ tokens[x] = "revoked")

Arrive(a) ==
    /\ pc[a] = "unsent"
    /\ kind[a] \in AuthenticatedKinds => Opened # {}
    /\ \E x \in Targets(a), p \in Presented(a) :
          /\ target' = [target EXCEPT ![a] = x]
          /\ password' = [password EXCEPT ![a] = p]
          /\ late' = IF TooLate(a, x) THEN late \cup {a} ELSE late
    /\ known' = [known EXCEPT ![a] = Issued]
    /\ overlapped' = (overlapped \/ \E b \in Requests : InFlight(b))
    /\ Goto(a, "arrived")
    /\ UNCHANGED <<tables, kind, locals, earlier, failures>>

(* get_by_jti(): the token is selected, then the user it belongs to.         *)
LoadToken(a) ==
    /\ pc[a] = "arrived"
    /\ kind[a] = "refresh"
    /\ sawRevoked' = IF tokens[target[a]] = "revoked" THEN sawRevoked \cup {a} ELSE sawRevoked
    /\ Goto(a, "token_read")
    /\ UNCHANGED <<tables, request, mine, victims, ghosts>>

(* get_by_email() or get_current_user(); later SELECTs of the user do not    *)
(* refresh what was loaded.                                                 *)
LoadUser(a) ==
    /\ pc[a] = IF kind[a] = "refresh" THEN "token_read" ELSE "arrived"
    /\ mine' = [mine EXCEPT ![a] = user]
    /\ Goto(a, "loaded")
    /\ UNCHANGED <<tables, request, sawRevoked, victims, ghosts>>

(* The handler ends without a trace: it refuses (also for a wrong one-time   *)
(* password, a failed second factor or an unverified e-mail, which this     *)
(* module leaves open), or it fails and is rolled back.                     *)
Quit(a, label) ==
    /\ Goto(a, label)
    /\ UNCHANGED <<tables, request, locals, ghosts>>
Refuse(a) == pc[a] = "loaded" /\ Quit(a, "refused")
Lose(a)   == InFlight(a) /\ Quit(a, "lost")

-----------------------------------------------------------------------------
(* login().  A column that is assigned the value it was loaded with is not   *)
(* written.                                                                 *)
MayTry(a) == mine[a].lock # "locked" /\ mine[a].active

(* Seeded fault: the counter is kept, the lock is not set. *)
CountWithoutLock(a) == [user EXCEPT !.attempts = mine[a].attempts + 1]
CountFailure(a) ==
    LET n == mine[a].attempts + 1 IN
    [user EXCEPT !.attempts = n,
                 !.lock = IF n >= MaxAttempts THEN "locked" ELSE user.lock]

FailLogin(a) ==
    /\ pc[a] = "loaded"
    /\ kind[a] = "login"
    /\ MayTry(a)
    /\ password[a] # mine[a].password
    /\ user' = CountFailure(a)
    /\ failures' = failures + 1
    /\ Goto(a, "refused")
    /\ UNCHANGED <<tokens, sessionOf, sessions, request, locals, known, late, earlier,
                   overlapped>>

ClearFailures(a) ==
    [user EXCEPT !.attempts = IF mine[a].attempts = 0 THEN user.attempts ELSE 0,
                 !.lock = IF mine[a].lock = "none" THEN user.lock ELSE "none"]

Finish(a, label) ==
    /\ Goto(a, label)
    /\ earlier' = [earlier EXCEPT ![a] = {b \in Requests : pc[b] # "unsent"}]
    /\ UNCHANGED <<request, locals, known, late, overlapped>>

SignIn(a) ==
    /\ pc[a] = "loaded"
    /\ kind[a] = "login"
    /\ MayTry(a)
    /\ password[a] = mine[a].password
    /\ user' = ClearFailures(a)
    /\ sessions' = [sessions EXCEPT ![a] = "active"]
    /\ tokens' = [tokens EXCEPT ![a] = "live"]
    /\ failures' = 0
    /\ Finish(a, "issued")
    /\ UNCHANGED sessionOf

-----------------------------------------------------------------------------
(* refresh(): the presented token is exchanged for a new one.                *)
(* Seeded faults: a revoked token is accepted; the presented token stays.    *)
AcceptsAny(a) == mine[a].active
Accepts(a) == a \notin sawRevoked /\ mine[a].active

ExchangedKeepingOld(a) == [tokens EXCEPT ![a] = "live"]
Exchanged(a) == [tokens EXCEPT ![target[a]] = "revoked", ![a] = "live"]

Rotate(a) ==
    /\ pc[a] = "loaded"
    /\ kind[a] = "refresh"
    /\ Accepts(a)
    /\ tokens' = Exchanged(a)
    /\ sessionOf' = [sessionOf EXCEPT ![a] = sessionOf[target[a]]]
    /\ Finish(a, "issued")
    /\ UNCHANGED <<user, sessions, failures>>

-----------------------------------------------------------------------------
(* The handlers that revoke tokens select those that are not revoked, and    *)
(* then commit.  A refresh with a revoked token revokes its family.         *)
Scope(a) == IF kind[a] = "refresh" THEN OfSession(sessionOf[target[a]])
            ELSE IF kind[a] \in {"logout", "revoke"} THEN OfSession(target[a])
            ELSE Requests

Permitted(a) ==
    \/ kind[a] = "refresh" /\ a \in sawRevoked
    \/ kind[a] = "reset"
    \/ kind[a] \in AuthenticatedKinds /\ mine[a].active
       /\ (kind[a] \in {"change", "deactivate"} => password[a] = mine[a].password)

(* Seeded fault: what was presented is revoked, and nothing else. *)
OneVictim(a) == {target[a]}
Victims(a) == Scope(a) \cap Live

SelectTokens(a) ==
    /\ pc[a] = "loaded"
    /\ Permitted(a)
    /\ victims' = [victims EXCEPT ![a] = Victims(a)]
    /\ Goto(a, "revoking")
    /\ UNCHANGED <<tables, request, mine, sawRevoked, ghosts>>

CommitRevocation(a) ==
    /\ pc[a] = "revoking"
    /\ tokens' = [t \in Requests |-> IF t \in victims[a] THEN "revoked" ELSE tokens[t]]
    /\ sessions' = IF kind[a] = "revoke" THEN [sessions EXCEPT ![target[a]] = "revoked"]
                                         ELSE sessions
    /\ user' = IF kind[a] \in {"change", "reset"} THEN [user EXCEPT !.password = a]
               ELSE IF kind[a] = "deactivate" THEN [user EXCEPT !.active = FALSE]
               ELSE user
    /\ Finish(a, "revoked")
    /\ UNCHANGED <<sessionOf, failures>>

LockPasses ==
    /\ user.lock = "locked"
    /\ user' = [user EXCEPT !.lock = "passed"]
    /\ UNCHANGED <<tokens, sessionOf, sessions, request, pc, locals, ghosts>>

Terminated == (\A a \in Requests : ~InFlight(a)) /\ UNCHANGED vars

Next == \/ \E a \in Requests : \/ Arrive(a) \/ LoadToken(a) \/ LoadUser(a)
                               \/ Refuse(a) \/ Lose(a)
                               \/ FailLogin(a) \/ SignIn(a) \/ Rotate(a)
                               \/ SelectTokens(a) \/ CommitRevocation(a)
        \/ LockPasses
        \/ Terminated

Spec == Init /\ [][Next]_vars

-----------------------------------------------------------------------------
TypeOK ==
    /\ user \in UserRow
    /\ tokens \in [Requests -> {"absent", "live", "revoked"}]
    /\ sessionOf \in [Requests -> Requests]
    /\ sessions \in [Requests -> {"absent", "active", "revoked"}]
    /\ kind \in [Requests -> Kinds]
    /\ pc \in [Requests -> {"unsent", "arrived", "token_read", "loaded", "revoking"} \cup Ended]
    /\ target \in [Requests -> Requests \cup {NoTarget}]
    /\ password \in [Requests -> Passwords]
    /\ mine \in [Requests -> UserRow]
    /\ sawRevoked \subseteq Requests
    /\ victims \in [Requests -> SUBSET Requests]
    /\ known \in [Requests -> SUBSET Requests]
    /\ late \subseteq Requests
    /\ earlier \in [Requests -> SUBSET Requests]
    /\ failures \in Nat
    /\ overlapped \in BOOLEAN

(* A logout, session revocation, password change or reset, deactivation or   *)
(* detected reuse that completed has ended every token in its scope that    *)
(* was issued before it arrived, however it interleaved with others.        *)
RevocationCoversTheKnown ==
    \A a \in Requests : pc[a] = "revoked" =>
        \A t \in known[a] \cap Scope(a) : tokens[t] = "revoked"

(* A request that arrives after the user was deactivated, or a refresh with  *)
(* a token that was already revoked, is never given a token.                *)
LateRequestsGetNothing == \A a \in late : pc[a] # "issued"

(* While requests do not overlap, a session has at most one usable token.    *)
OneTokenPerSession ==
    ~overlapped => \A t, u \in Live : sessionOf[t] = sessionOf[u] => t = u

(* While requests do not overlap, the counter counts the failed logins since *)
(* the last successful one, and enough of them lock the account.            *)
LockAfterFailures ==
    ~overlapped => /\ user.attempts = failures
                   /\ failures >= MaxAttempts => user.lock # "none"

(* After a completed revocation only requests that arrive later get a token  *)
(* in its scope: no session outlives a password change.                     *)
NothingOutlivesRevocation ==
    \A a \in Requests : pc[a] = "revoked" => Live \cap Scope(a) \cap earlier[a] = {}

(* Whatever overlaps, the tables implement the token registry.               *)
Registry == INSTANCE TokenRegistry WITH
    TokenIds <- Requests,
    live <- Live,
    dead <- Issued \ Live
ImplementsRegistry == Registry!RegistrySpec
=============================================================================
