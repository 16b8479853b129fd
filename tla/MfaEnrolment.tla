----------------------------- MODULE MfaEnrolment -----------------------------
(***************************************************************************)
(* Multi-factor authentication of one user: MFAService.setup_totp(),        *)
(* confirm_totp() and verify_for_user(), which logins and challenges call.  *)
(* A secret has the identity of the request that set it up.                 *)
(***************************************************************************)
EXTENDS Integers, UnitOfWork

CONSTANTS
    MaxDemands,     \* bound: requests, numbered in the order of arrival
    CodesPerSetup   \* recovery codes that one confirmation generates

ASSUME MfaAssumption == MaxDemands \in Nat /\ CodesPerSetup \in Nat

Demands == 1 .. MaxDemands

VARIABLES
    mfaEnabled,    \* users.mfa_enabled
    secret,        \* mfa_secrets: status, recovery_code_hashes
    timedOut,      \* secrets older than mfa_setup_ttl_seconds
    demand,        \* what a request brings
    demandAt,      \* where its handler is
    seen,          \* the user and the secrets as its session loaded them
    handedOut,     \* ghost: recovery codes shown to the user
    accepted,      \* ghost: recovery codes that were accepted
    demandsOverlapped  \* ghost: two requests were under way at once

mfaVars == <<mfaEnabled, secret, timedOut, demand, demandAt, seen, handedOut, accepted,
             demandsOverlapped>>

(* A wrong code, a code of the authenticator, or the i-th of a confirmation. *)
WrongCode     == <<0, 0>>
TotpCode      == <<0, 1>>
CodesOf(m)    == {m} \X (1 .. CodesPerSetup)
RecoveryCodes == Demands \X (1 .. CodesPerSetup)
Codes         == {WrongCode, TotpCode} \cup RecoveryCodes

MFASecretStatus == {"absent", "pending", "active", "disabled"}
MFASecret  == [status: MFASecretStatus, codes: SUBSET RecoveryCodes]
NoSecret   == [status |-> "absent", codes |-> {}]
Demand     == [kind: {"setup", "confirm", "login", "verify"}, secret: Demands, code: Codes]
Sight      == [enabled: BOOLEAN, secret: [Demands -> MFASecret]]
InProgress == {"received", "adding", "confirming", "disabling", "verified"}
Closed     == {"done", "refused", "lost"}
NoDemand(m) == [kind |-> "setup", secret |-> m, code |-> WrongCode]
Unseen      == [enabled |-> FALSE, secret |-> [s \in Demands |-> NoSecret]]

Having(status)  == {s \in Demands : secret[s].status = status}
DemandsUnderWay == {m \in Demands : demandAt[m] \in InProgress}

MfaInit ==
    /\ mfaEnabled = FALSE
    /\ secret = [s \in Demands |-> NoSecret]
    /\ timedOut = {}
    /\ demand = [m \in Demands |-> NoDemand(m)]
    /\ demandAt = [m \in Demands |-> "unsent"]
    /\ seen = [m \in Demands |-> Unseen]
    /\ handedOut = {}
    /\ accepted = {}
    /\ demandsOverlapped = FALSE

-----------------------------------------------------------------------------
Goes(m, from, label) ==
    /\ demandAt[m] = from
    /\ demandAt' = [demandAt EXCEPT ![m] = label]

(* get_current_user() and login() load the user with all secrets.            *)
DemandsOf(m) ==
    [kind: {"setup"}, secret: {m}, code: {WrongCode}]
        \cup [kind: {"confirm"}, secret: {s \in Demands : secret[s] # NoSecret},
              code: {WrongCode, TotpCode}]
        \cup [kind: {"login", "verify"}, secret: {m}, code: {WrongCode, TotpCode} \cup handedOut]

ReceiveDemand(m) ==
    /\ Goes(m, "unsent", "received")
    /\ \A b \in 1 .. m - 1 : demandAt[b] # "unsent"
    /\ \E x \in DemandsOf(m) : demand' = [demand EXCEPT ![m] = x]
    /\ seen' = [seen EXCEPT ![m] = [enabled |-> mfaEnabled, secret |-> secret]]
    /\ demandsOverlapped' = (demandsOverlapped \/ DemandsUnderWay # {})
    /\ UNCHANGED <<mfaEnabled, secret, timedOut, handedOut, accepted>>

(* A SELECT finds the rows of now; those the session holds already keep the  *)
(* attributes they were loaded with.                                        *)
Held(m) == [s \in Demands |-> IF seen[m].secret[s] = NoSecret THEN secret[s]
                              ELSE seen[m].secret[s]]

(* What a request brought and loaded is gone when it has ended.              *)
Decides(m, kind, label, s) ==
    /\ demand[m].kind = kind
    /\ Goes(m, "received", label)
    /\ seen' = [seen EXCEPT ![m] = IF label \in Closed THEN Unseen
                                   ELSE [@ EXCEPT !.secret = Held(m)]]
    /\ demand' = [demand EXCEPT ![m] = IF label \in Closed THEN NoDemand(m)
                                       ELSE [@ EXCEPT !.secret = s]]
    /\ UNCHANGED <<mfaEnabled, secret, timedOut, handedOut, accepted, demandsOverlapped>>

LookForActive(m) ==
    Decides(m, "setup", IF Having("active") # {} THEN "refused" ELSE "adding", m)

(* Seeded fault: get_pending() does not look at the status.                  *)
ConfirmableWhatever(s) == secret[s] # NoSecret

Confirmable(s) == secret[s].status = "pending"

SelectPending(m) ==
    LET s == demand[m].secret IN
    Decides(m, "confirm", IF ~Confirmable(s) THEN "refused"
                          ELSE IF s \in timedOut THEN "disabling"
                          ELSE IF demand[m].code = WrongCode THEN "refused"
                          ELSE "confirming", s)

Fits(m, s) == demand[m].code \in {TotpCode} \cup Held(m)[s].codes

(* verify_for_user(): a login asks for it when the user has MFA enabled, a   *)
(* challenge whenever one of its methods is chosen.                         *)
SelectActive(m, kind) ==
    \/ Decides(m, kind, "refused", m) /\ \A s \in Having("active") : ~Fits(m, s)
    \/ \E s \in Having("active") : Decides(m, kind, "verified", s) /\ Fits(m, s)

LogIn(m)           == seen[m].enabled /\ SelectActive(m, "login")
LogInWithoutMfa(m) == ~seen[m].enabled /\ Decides(m, "login", "done", m)
Verify(m)          == SelectActive(m, "verify")

-----------------------------------------------------------------------------
(* The commits.  One row per user and status: a second one fails.            *)
Closes(m) ==
    /\ seen' = [seen EXCEPT ![m] = Unseen]
    /\ demand' = [demand EXCEPT ![m] = NoDemand(m)]
    /\ UNCHANGED <<timedOut, demandsOverlapped>>

Writes(m, s, row) ==
    /\ secret' = [secret EXCEPT ![s] = row]
    /\ Closes(m)

Free(s, status) == Having(status) \subseteq {s}

CommitSetup(m) ==
    /\ Goes(m, "adding", "done")
    /\ Free(m, "pending")
    /\ Writes(m, m, [status |-> "pending", codes |-> {}])
    /\ UNCHANGED <<mfaEnabled, handedOut, accepted>>

CommitExpiry(m) ==
    LET s == demand[m].secret IN
    /\ Goes(m, "disabling", "refused")
    /\ Free(s, "disabled")
    /\ Writes(m, s, [secret[s] EXCEPT !.status = "disabled"])
    /\ UNCHANGED <<mfaEnabled, handedOut, accepted>>

CommitConfirm(m) ==
    LET s == demand[m].secret IN
    /\ Goes(m, "confirming", "done")
    /\ Free(s, "active")
    /\ Writes(m, s, [status |-> "active", codes |-> CodesOf(m)])
    /\ mfaEnabled' = Flushed(mfaEnabled, seen[m].enabled, TRUE)
    /\ handedOut' = handedOut \cup CodesOf(m)
    /\ UNCHANGED accepted

CodesLoaded(m) == seen[m].secret[demand[m].secret].codes

(* Seeded fault: an accepted code stays in the list.                         *)
AllCodesKept(m) == CodesLoaded(m)

CodesKept(m) == CodesLoaded(m) \ {demand[m].code}

CommitVerified(m) ==
    LET s == demand[m].secret IN
    /\ Goes(m, "verified", "done")
    /\ Writes(m, s, [secret[s] EXCEPT !.codes = Flushed(@, CodesLoaded(m), CodesKept(m))])
    /\ accepted' = accepted \cup ({demand[m].code} \cap RecoveryCodes)
    /\ UNCHANGED <<mfaEnabled, handedOut>>

(* A violated constraint, another failing statement or a crash.              *)
LoseDemand(m) ==
    /\ m \in DemandsUnderWay
    /\ Goes(m, demandAt[m], "lost")
    /\ Closes(m)
    /\ UNCHANGED <<mfaEnabled, secret, handedOut, accepted>>

SetupTimesOut(s) ==
    /\ s \in Having("pending") \cup Having("active")
    /\ s \notin timedOut
    /\ timedOut' = timedOut \cup {s}
    /\ UNCHANGED <<mfaEnabled, secret, demand, demandAt, seen, handedOut, accepted,
                   demandsOverlapped>>

MfaNext ==
    \E m \in Demands :
        \/ ReceiveDemand(m) \/ LookForActive(m) \/ SelectPending(m)
        \/ LogIn(m) \/ Verify(m) \/ LogInWithoutMfa(m)
        \/ CommitSetup(m) \/ CommitExpiry(m) \/ CommitConfirm(m) \/ CommitVerified(m)
        \/ LoseDemand(m) \/ SetupTimesOut(m)

MfaSpec == MfaInit /\ [][MfaNext]_mfaVars

-----------------------------------------------------------------------------
MfaTypeOK ==
    /\ mfaEnabled \in BOOLEAN
    /\ secret \in [Demands -> MFASecret]
    /\ timedOut \subseteq Demands
    /\ demand \in [Demands -> Demand]
    /\ demandAt \in [Demands -> InProgress \cup {"unsent", "done", "refused", "lost"}]
    /\ seen \in [Demands -> Sight]
    /\ handedOut \subseteq RecoveryCodes
    /\ accepted \subseteq RecoveryCodes
    /\ demandsOverlapped \in BOOLEAN

(* Nobody is asked for a factor that cannot be checked ("MFA is not           *)
(* configured."): as long as no two requests of the user overlap, the flag   *)
(* of the user and the one active secret come together, whatever expires,    *)
(* is started again or is lost.  The expiry of a setup that overlaps its     *)
(* confirmation breaks it and locks the user out.                            *)
EnabledMeansConfigured ==
    /\ Having("active") # {} => mfaEnabled
    /\ ~demandsOverlapped /\ mfaEnabled => \E s \in Demands : Having("active") = {s}

(* A recovery code is good once: without overlap, the codes on record are    *)
(* those shown to the user less those accepted, over logins and challenges.  *)
(* Two overlapping uses bring a code back, or accept it twice.               *)
RecoveryCodesSpend ==
    ~demandsOverlapped => \A s \in Having("active") : secret[s].codes = handedOut \ accepted
=============================================================================
