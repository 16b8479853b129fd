---------------------------- MODULE Confirmations ----------------------------
(***************************************************************************)
(* Step-up confirmation of one user: ChallengeService.create_challenge(),   *)
(* verify_challenge() and require_verified(), with the one-time codes of    *)
(* OTPService.issue_otp() and verify_user_otp() and their copy in Redis.    *)
(*                                                                         *)
(* A challenge, and the code mailed for it, have the identity of the        *)
(* request that created them; context_hash and extra_data refer to it.      *)
(* Rows are committed rows.  Of the row locks only those that a creation    *)
(* holds across its write to Redis can be noticed.                          *)
(***************************************************************************)
EXTENDS Integers, FiniteSets

CONSTANTS
    N,               \* bound: requests, numbered in the order of arrival
    Workloads,       \* what the requests are: functions to Kinds
    MaxAttempts,     \* three, in verify_user_otp()
    MaxInFlight,     \* bound: requests under way at once
    NoCode, WrongCode, Factor

Requests == 1 .. N
Kinds   == {"create", "verify", "use"}
Methods == {"email_otp", "totp"}

ASSUME ConfirmationAssumption ==
    /\ N \in Nat
    /\ Workloads \subseteq [Requests -> Kinds]
    /\ MaxAttempts \in Nat \ {0}
    /\ MaxInFlight \in Nat \ {0}
    /\ NoCode \notin Requests
    /\ WrongCode \notin Requests \cup {NoCode}
    /\ Factor \notin Requests \cup {NoCode, WrongCode}

VARIABLES
    codes,        \* otp_codes: state and attempts of the code of a challenge
    challenges,   \* auth_challenges
    redis,        \* the code whose hash is stored in Redis
    lapsed,       \* challenges whose expires_at has passed
    mailed,       \* codes the user has been sent
    kind, method, target, typed,  \* what a request is and brings
    pc,
    mine,         \* the target's rows as the session loaded them
    found,        \* the code a handler selected
    hash,         \* the code whose hash verify compares with
    proofs,       \* ghost: what a challenge was verified with
    wrong,        \* ghost: wrong codes answered, by challenge
    refusals,     \* ghost: refused verifications, by challenge
    uses,         \* ghost: committed uses, by challenge
    late,         \* ghost: requests that arrived when their right was gone
    overlapped,   \* ghost: two requests were under way at once
    stray         \* ghost: Redis was given a code that was rolled back

rows    == <<codes, challenges>>
request == <<kind, method, target, typed, mine>>
locals  == <<found, hash>>
ghosts  == <<proofs, wrong, refusals, uses, late, overlapped, stray>>
vars    == <<rows, redis, lapsed, mailed, request, pc, locals, ghosts>>

CodeRow      == [state: {"absent", "active", "consumed"}, attempts: Nat]
ChallengeRow == [status: {"absent", "pending", "verified", "used", "expired"},
                 used: BOOLEAN, failures: Nat]
NoRow        == [code |-> [state |-> "absent", attempts |-> 0],
                 challenge |-> [status |-> "absent", used |-> FALSE, failures |-> 0]]

Active  == {c \in Requests : codes[c].state = "active"}
Created == {h \in Requests : challenges[h].status # "absent"}
Ended   == {"done", "refused", "lost"}
Labels  == {"unsent", "loaded", "checked", "found", "flushed", "stored", "judging", "accepting",
            "failing"} \cup Ended
UnderWay == {a \in Requests : pc[a] \notin Ended \cup {"unsent"}}

Init ==
    /\ codes = [c \in Requests |-> NoRow.code]
    /\ challenges = [h \in Requests |-> NoRow.challenge]
    /\ redis = NoCode
    /\ lapsed = {}
    /\ mailed = {}
    /\ kind \in Workloads
    /\ method = [a \in Requests |-> "totp"]
    /\ target = [a \in Requests |-> a]
    /\ typed = [a \in Requests |-> WrongCode]
    /\ pc = [a \in Requests |-> "unsent"]
    /\ mine = [a \in Requests |-> NoRow]
    /\ found = [a \in Requests |-> NoCode]
    /\ hash = [a \in Requests |-> NoCode]
    /\ proofs = [h \in Requests |-> {}]
    /\ wrong = [h \in Requests |-> 0]
    /\ refusals = [h \in Requests |-> 0]
    /\ uses = [h \in Requests |-> 0]
    /\ late = {}
    /\ overlapped = FALSE
    /\ stray = FALSE

-----------------------------------------------------------------------------
Goto(a, label) == pc' = [pc EXCEPT ![a] = label]
Counted(f, h)  == [f EXCEPT ![h] = @ + 1]

(* A request begins its database transaction, whose start is the created_at  *)
(* of what it inserts, with get_current_user(), which loads all codes and   *)
(* challenges of the user.                                                  *)
TooLate(a, h, m) ==
    \/ kind[a] = "verify" /\ m = "email_otp" /\ codes[h].state = "consumed"
    \/ kind[a] = "use" /\ challenges[h].used
    \/ kind[a] # "create" /\ h \in lapsed

Arrive(a) ==
    /\ pc[a] = "unsent"
    /\ \A b \in 1 .. a - 1 : pc[b] # "unsent"
    /\ Cardinality(UnderWay) < MaxInFlight
    /\ \E h \in IF kind[a] = "create" THEN {a} ELSE Created,
          m \in IF kind[a] = "use" THEN {"totp"} ELSE Methods :
       \E c \in IF kind[a] = "verify" /\ m = "email_otp" THEN mailed \cup {WrongCode}
                                                         ELSE {WrongCode} :
          /\ target' = [target EXCEPT ![a] = h]
          /\ method' = [method EXCEPT ![a] = m]
          /\ typed' = [typed EXCEPT ![a] = c]
          /\ mine' = [mine EXCEPT ![a] = [code |-> codes[h], challenge |-> challenges[h]]]
          /\ late' = IF TooLate(a, h, m) THEN late \cup {a} ELSE late
    /\ overlapped' = (overlapped \/ UnderWay # {})
    /\ Goto(a, "loaded")
    /\ UNCHANGED <<rows, redis, lapsed, mailed, kind, locals, proofs, wrong, refusals, uses,
                   stray>>

(* A request that ended leaves its session and its variables behind.         *)
End(a, label) ==
    /\ Goto(a, label)
    /\ mine' = [mine EXCEPT ![a] = NoRow]
    /\ found' = [found EXCEPT ![a] = NoCode]
    /\ hash' = [hash EXCEPT ![a] = NoCode]
    /\ typed' = [typed EXCEPT ![a] = WrongCode]
    /\ UNCHANGED <<lapsed, mailed, kind, method, target, late, overlapped>>

(* The request fails at any await, or its process dies: PostgreSQL rolls     *)
(* back, Redis does not.                                                    *)
Lose(a) ==
    /\ a \in UnderWay
    /\ stray' = (stray \/ pc[a] = "stored")
    /\ End(a, "lost")
    /\ UNCHANGED <<rows, redis, proofs, wrong, refusals, uses>>

-----------------------------------------------------------------------------
(* create_challenge() with issue_otp(): the newest active code, whatever it  *)
(* was issued for, is consumed; the new one is written to Redis and mailed   *)
(* before the commit.  A code expires with its challenge.                    *)
Live   == Active \ lapsed
Newest == {c \in Live : \A d \in Live : d <= c}

(* Seeded fault: issuing a code leaves the earlier one alone. *)
NothingReplaced == {}
Replaced == Newest

FindReplaced(a) ==
    /\ pc[a] = "loaded"
    /\ kind[a] = "create"
    /\ method[a] = "email_otp"
    /\ \E c \in IF Replaced = {} THEN {NoCode} ELSE Replaced :
          found' = [found EXCEPT ![a] = c]
    /\ Goto(a, "found")
    /\ UNCHANGED <<rows, redis, lapsed, mailed, request, hash, ghosts>>

LockedBy(a)    == IF kind[a] = "create" /\ pc[a] \in {"flushed", "stored"} THEN {found[a]}
                                                                           ELSE {}
CanWrite(a, c) == \A b \in Requests \ {a} : c = NoCode \/ c \notin LockedBy(b)

FlushCode(a) ==
    /\ pc[a] = "found"
    /\ kind[a] = "create"
    /\ CanWrite(a, found[a])
    /\ Goto(a, "flushed")
    /\ UNCHANGED <<rows, redis, lapsed, mailed, request, locals, ghosts>>

StoreAndMail(a) ==
    /\ pc[a] = "flushed"
    /\ redis' = a
    /\ mailed' = mailed \cup {a}
    /\ Goto(a, "stored")
    /\ UNCHANGED <<rows, lapsed, request, locals, ghosts>>

IssuedCodes(a) ==
    [c \in Requests |-> IF c = a THEN [state |-> "active", attempts |-> 0]
                        ELSE IF c = found[a] THEN [codes[c] EXCEPT !.state = "consumed"]
                        ELSE codes[c]]

CommitChallenge(a) ==
    /\ kind[a] = "create"
    /\ pc[a] = IF method[a] = "email_otp" THEN "stored" ELSE "loaded"
    /\ codes' = IF method[a] = "email_otp" THEN IssuedCodes(a) ELSE codes
    /\ challenges' = [challenges EXCEPT ![a].status = "pending"]
    /\ End(a, "done")
    /\ UNCHANGED <<redis, proofs, wrong, refusals, uses, stray>>

-----------------------------------------------------------------------------
(* verify_challenge().  The challenge is the one the session loaded, and a   *)
(* column is written only if it changes what was loaded.  The status is not  *)
(* looked at, only the expiry.                                              *)
StatusWritten(a, h, status) ==
    IF mine[a].challenge.status = status THEN challenges[h].status ELSE status
ExpiredRow(a, h) == [challenges[h] EXCEPT !.status = StatusWritten(a, h, "expired")]

MarkExpired(a) ==
    /\ pc[a] = "loaded"
    /\ kind[a] = "verify"
    /\ target[a] \in lapsed
    /\ challenges' = [challenges EXCEPT ![target[a]] = ExpiredRow(a, target[a])]
    /\ End(a, "refused")
    /\ UNCHANGED <<codes, redis, proofs, wrong, refusals, uses, stray>>

PassExpiry(a) ==
    /\ pc[a] = "loaded"
    /\ kind[a] = "verify"
    /\ target[a] \notin lapsed
    /\ Goto(a, "checked")
    /\ UNCHANGED <<rows, redis, lapsed, mailed, request, locals, ghosts>>

CheckFactor(a) ==
    /\ pc[a] = "checked"
    /\ method[a] = "totp"
    /\ \E verdict \in {"accepting", "failing"} : Goto(a, verdict)
    /\ UNCHANGED <<rows, redis, lapsed, mailed, request, locals, ghosts>>

FindCode(a) ==
    /\ pc[a] = "checked"
    /\ method[a] = "email_otp"
    /\ IF target[a] \in Live
       THEN found' = [found EXCEPT ![a] = target[a]] /\ Goto(a, "found")
       ELSE found' = found /\ Goto(a, "failing")
    /\ UNCHANGED <<rows, redis, lapsed, mailed, request, hash, ghosts>>

ReadHash(a) ==
    /\ pc[a] = "found"
    /\ kind[a] = "verify"
    /\ hash' = [hash EXCEPT ![a] = IF redis = NoCode THEN found[a] ELSE redis]
    /\ Goto(a, "judging")
    /\ UNCHANGED <<rows, redis, lapsed, mailed, request, found, ghosts>>

(* verify_user_otp(): the attempt is counted on the row as it was loaded.    *)
Attempts(a) == mine[a].code.attempts + 1
(* Seeded fault: one attempt too many. *)
OutOfAttemptsLate(a) == Attempts(a) > MaxAttempts
OutOfAttempts(a) == Attempts(a) >= MaxAttempts
Consumes(a) == typed[a] = hash[a] \/ OutOfAttempts(a)

JudgeCode(a) ==
    /\ pc[a] = "judging"
    /\ Goto(a, IF typed[a] = hash[a] THEN "accepting" ELSE "failing")
    /\ redis' = IF Consumes(a) THEN NoCode ELSE redis
    /\ UNCHANGED <<rows, lapsed, mailed, request, locals, ghosts>>

JudgedCodes(a) ==
    [c \in Requests |->
        IF c # found[a] THEN codes[c]
        ELSE [state    |-> IF Consumes(a) THEN "consumed" ELSE codes[c].state,
              attempts |-> Attempts(a)]]

(* used_at is left alone.                                                    *)
VerifiedRow(a, h) == [challenges[h] EXCEPT !.status = StatusWritten(a, h, "verified")]

CommitVerified(a) ==
    /\ pc[a] = "accepting"
    /\ CanWrite(a, found[a])
    /\ codes' = JudgedCodes(a)
    /\ challenges' = [challenges EXCEPT ![target[a]] = VerifiedRow(a, target[a])]
    /\ proofs' = [proofs EXCEPT ![target[a]] = @ \cup
                    {IF method[a] = "totp" THEN Factor ELSE typed[a]}]
    /\ End(a, "done")
    /\ UNCHANGED <<redis, wrong, refusals, uses, stray>>

(* The except branch: the failure, and the attempt, are committed.           *)
(* Seeded fault: the count is rolled back with the attempt.                 *)
FailureForgotten(a, h) == challenges[h]
FailureCounted(a, h) ==
    [challenges[h] EXCEPT !.failures = mine[a].challenge.failures + 1]

CommitFailure(a) ==
    /\ pc[a] = "failing"
    /\ CanWrite(a, found[a])
    /\ codes' = JudgedCodes(a)
    /\ challenges' = [challenges EXCEPT ![target[a]] = FailureCounted(a, target[a])]
    /\ wrong' = IF found[a] = NoCode THEN wrong ELSE Counted(wrong, target[a])
    /\ refusals' = Counted(refusals, target[a])
    /\ End(a, "refused")
    /\ UNCHANGED <<redis, proofs, uses, stray>>

-----------------------------------------------------------------------------
(* require_verified(consume=True), called by a transfer, the first           *)
(* beneficiary or a recurring transfer, which then commits.                 *)
(* Seeded faults: status, or used_at, is not asked for. *)
VerifiedEvenIfPending(h) == h \in Created \ lapsed /\ ~challenges[h].used
VerifiedEvenIfUsed(h) == challenges[h].status = "verified" /\ h \notin lapsed
Verified(h) == /\ challenges[h].status = "verified"
               /\ h \notin lapsed
               /\ ~challenges[h].used

FindVerified(a) ==
    /\ pc[a] = "loaded"
    /\ kind[a] = "use"
    /\ Verified(target[a])
    /\ Goto(a, "found")
    /\ UNCHANGED <<rows, redis, lapsed, mailed, request, locals, ghosts>>

(* No such challenge, another context, or the handler refuses for a reason   *)
(* of its own.                                                              *)
Refuse(a) ==
    /\ kind[a] = "use"
    /\ pc[a] = "found" \/ (pc[a] = "loaded" /\ ~Verified(target[a]))
    /\ End(a, "refused")
    /\ UNCHANGED <<rows, redis, proofs, wrong, refusals, uses, stray>>

UsedRow(h) == [challenges[h] EXCEPT !.status = "used", !.used = TRUE]

CommitUse(a) ==
    /\ pc[a] = "found"
    /\ kind[a] = "use"
    /\ challenges' = [challenges EXCEPT ![target[a]] = UsedRow(target[a])]
    /\ uses' = Counted(uses, target[a])
    /\ End(a, "done")
    /\ UNCHANGED <<codes, redis, proofs, wrong, refusals, stray>>

-----------------------------------------------------------------------------
Lapse(h) ==
    /\ h \in Created \ lapsed
    /\ lapsed' = lapsed \cup {h}
    /\ UNCHANGED <<rows, redis, mailed, request, pc, locals, ghosts>>

(* The Redis key expires, or Redis restarts.                                 *)
ForgetHash ==
    /\ redis # NoCode
    /\ redis' = NoCode
    /\ UNCHANGED <<rows, lapsed, mailed, request, pc, locals, ghosts>>

Terminated == UnderWay = {} /\ UNCHANGED vars

Next == \/ \E a \in Requests :
              \/ Arrive(a) \/ Lose(a) \/ Refuse(a)
              \/ FindReplaced(a) \/ FlushCode(a) \/ StoreAndMail(a) \/ CommitChallenge(a)
              \/ MarkExpired(a) \/ PassExpiry(a) \/ CheckFactor(a) \/ FindCode(a)
              \/ ReadHash(a) \/ JudgeCode(a) \/ CommitVerified(a) \/ CommitFailure(a)
              \/ FindVerified(a) \/ CommitUse(a)
        \/ \E h \in Requests : Lapse(h)
        \/ ForgetHash
        \/ Terminated

Spec == Init /\ [][Next]_vars

-----------------------------------------------------------------------------
TypeOK ==
    /\ codes \in [Requests -> CodeRow]
    /\ challenges \in [Requests -> ChallengeRow]
    /\ redis \in Requests \cup {NoCode}
    /\ lapsed \subseteq Requests
    /\ mailed \subseteq Requests
    /\ kind \in [Requests -> Kinds]
    /\ method \in [Requests -> Methods]
    /\ target \in [Requests -> Requests]
    /\ typed \in [Requests -> Requests \cup {WrongCode}]
    /\ pc \in [Requests -> Labels]
    /\ mine \in [Requests -> [code: CodeRow, challenge: ChallengeRow]]
    /\ found \in [Requests -> Requests \cup {NoCode}]
    /\ hash \in [Requests -> Requests \cup {NoCode}]
    /\ proofs \in [Requests -> SUBSET (Requests \cup {Factor})]
    /\ wrong \in [Requests -> Nat]
    /\ refusals \in [Requests -> Nat]
    /\ uses \in [Requests -> Nat]
    /\ late \subseteq Requests
    /\ overlapped \in BOOLEAN
    /\ stray \in BOOLEAN

(* Whatever overlaps, only verified challenges are used, and whoever arrives *)
(* after a code was consumed, a challenge was used or its time was over     *)
(* gets nothing, however often the challenge is verified again.             *)
UsesAreProven == \A h \in Requests : uses[h] > 0 => proofs[h] # {}
LateConfirmationsFail == \A a \in late : pc[a] # "done"

(* While requests do not overlap, a challenge is used once.                  *)
UsedOnce == ~overlapped => \A h \in Requests : uses[h] <= 1

(* While requests do not overlap and none was lost after it wrote Redis, a   *)
(* challenge is only verified with the second factor or its own code,       *)
(* although verify_user_otp() compares with the hash in Redis, which does   *)
(* not say what it was issued for.                                          *)
CodesFitTheirChallenge ==
    ~overlapped /\ ~stray => \A h \in Requests : proofs[h] \subseteq {h, Factor}

(* While requests do not overlap, every refusal is counted, and a code is    *)
(* gone after MaxAttempts wrong ones.                                       *)
FailuresAreCounted ==
    ~overlapped => \A h \in Requests : /\ challenges[h].failures = refusals[h]
                                       /\ codes[h].state = "active" => wrong[h] < MaxAttempts
=============================================================================
