------------------------------ MODULE KycReview ------------------------------
(***************************************************************************)
(* Identity verification of one user: KYCService.submit() by the user and   *)
(* review() by administrators, who may review a submission again and in any *)
(* order.  A submission has the identity of the request that made it.       *)
(***************************************************************************)
EXTENDS Integers, UnitOfWork

CONSTANT MaxFilings   \* bound: requests, numbered in the order of arrival

ASSUME KycAssumption == MaxFilings \in Nat

Filings == 1 .. MaxFilings

VARIABLES
    kycStatus,        \* users.kyc_status
    submission,       \* kyc_submissions.status, or "absent"
    filing,           \* what a request asks for
    filingAt,         \* where its handler is
    known,            \* both columns as its session loaded them
    filingsOverlapped \* ghost: two requests were under way at once

kycVars == <<kycStatus, submission, filing, filingAt, known, filingsOverlapped>>

KYCStatus == {"pending", "under_review", "more_info_required", "verified", "rejected"}
Filing    == [kind: {"submit", "review"}, about: Filings, decision: KYCStatus]
Known     == [user: KYCStatus, submission: KYCStatus \cup {"absent"}]

Submitted       == {s \in Filings : submission[s] # "absent"}
FilingsUnderWay == {f \in Filings : filingAt[f] = "loaded"}

KycInit ==
    /\ kycStatus = "pending"
    /\ submission = [s \in Filings |-> "absent"]
    /\ filing = [f \in Filings |-> [kind |-> "submit", about |-> f, decision |-> "under_review"]]
    /\ filingAt = [f \in Filings |-> "unsent"]
    /\ known = [f \in Filings |-> [user |-> "pending", submission |-> "absent"]]
    /\ filingsOverlapped = FALSE

-----------------------------------------------------------------------------
(* submit() works on the user that get_current_user() loaded; review() loads *)
(* the submission, and with it its user.  Nothing looks at the status.      *)
FilingsOf(f) == [kind: {"submit"}, about: {f}, decision: {"under_review"}]
                    \cup [kind: {"review"}, about: Submitted, decision: KYCStatus]

LoadFiling(f) ==
    /\ filingAt[f] = "unsent"
    /\ \A b \in 1 .. f - 1 : filingAt[b] # "unsent"
    /\ \E x \in FilingsOf(f) :
        /\ filing' = [filing EXCEPT ![f] = x]
        /\ known' = [known EXCEPT ![f] = [user |-> kycStatus, submission |-> submission[x.about]]]
    /\ filingAt' = [filingAt EXCEPT ![f] = "loaded"]
    /\ filingsOverlapped' = (filingsOverlapped \/ FilingsUnderWay # {})
    /\ UNCHANGED <<kycStatus, submission>>

CloseFiling(f, label) ==
    /\ filingAt[f] = "loaded"
    /\ filingAt' = [filingAt EXCEPT ![f] = label]
    /\ UNCHANGED <<filing, known, filingsOverlapped>>

(* Seeded fault: a review decides about the submission only.                 *)
StandingIfSubmitted(f) == IF filing[f].kind = "submit" THEN "under_review" ELSE kycStatus

StandingWritten(f) == Flushed(kycStatus, known[f].user, filing[f].decision)

(* The new row and the decision are written in the same way: what the row    *)
(* was loaded with (or its absence) gives way to the new status.            *)
CommitFiling(f) ==
    /\ kycStatus' = StandingWritten(f)
    /\ submission' = [submission EXCEPT ![filing[f].about] =
                          Flushed(@, known[f].submission, filing[f].decision)]
    /\ CloseFiling(f, "done")

LoseFiling(f) ==
    /\ CloseFiling(f, "lost")
    /\ UNCHANGED <<kycStatus, submission>>

KycNext == \E f \in Filings : LoadFiling(f) \/ CommitFiling(f) \/ LoseFiling(f)

KycSpec == KycInit /\ [][KycNext]_kycVars

-----------------------------------------------------------------------------
KycTypeOK ==
    /\ kycStatus \in KYCStatus
    /\ submission \in [Filings -> KYCStatus \cup {"absent"}]
    /\ filing \in [Filings -> Filing]
    /\ filingAt \in [Filings -> {"unsent", "loaded", "done", "lost"}]
    /\ known \in [Filings -> Known]
    /\ filingsOverlapped \in BOOLEAN

(* The standing that the risk score of a transfer looks at (25 points for     *)
(* who is not verified) is that of one of the user's submissions, whatever  *)
(* is submitted, reviewed, reviewed again or lost, as long as no two         *)
(* requests about the user overlap.  A stale review breaks it.              *)
StandingFromSubmission ==
    ~filingsOverlapped /\ Submitted # {} => \E s \in Submitted : submission[s] = kycStatus
=============================================================================
