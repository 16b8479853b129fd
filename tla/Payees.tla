------------------------------- MODULE Payees -------------------------------
(***************************************************************************)
(* Whom one user pays: BeneficiaryService.create() and                      *)
(* RecurringTransferService.create().  A beneficiary has the identity of    *)
(* the request that saved it.  The verified challenges of the user are      *)
(* there from the start; how they come about is Confirmations.              *)
(***************************************************************************)
EXTENDS Integers

CONSTANTS
    MaxSavings,   \* bound: requests, numbered in the order of arrival
    Proofs,       \* verified challenges
    PurposeOf,    \* what each of them was created for
    NoProof

Savings  == 1 .. MaxSavings
Purposes == {"beneficiary_create", "recurring_transfer"}

ASSUME PayeesAssumption ==
    /\ MaxSavings \in Nat
    /\ NoProof \notin Proofs
    /\ PurposeOf \in [Proofs -> Purposes]

VARIABLES
    payee,      \* beneficiaries: [saved, created_by_challenge_id]
    schedule,   \* recurring_transfers: the same, with the beneficiary paid
    proof,      \* auth_challenges.status
    saving,     \* what a request brings
    savingAt    \* where its handler is

payeeVars == <<payee, schedule, proof, saving, savingAt>>

Saving   == [purpose: Purposes, proof: Proofs \cup {NoProof}, payee: Savings]
Payee    == [saved: BOOLEAN, proof: Proofs \cup {NoProof}]
NoPayee  == [saved |-> FALSE, proof |-> NoProof]
Schedule == [saved: BOOLEAN, proof: Proofs \cup {NoProof}, payee: Savings]

SavedPayees == {p \in Savings : payee[p].saved}

PayeesInit ==
    /\ payee = [p \in Savings |-> NoPayee]
    /\ schedule = [p \in Savings |-> [saved |-> FALSE, proof |-> NoProof, payee |-> p]]
    /\ proof = [c \in Proofs |-> "verified"]
    /\ saving = [p \in Savings |-> [purpose |-> "beneficiary_create", proof |-> NoProof,
                                    payee |-> p]]
    /\ savingAt = [p \in Savings |-> "unsent"]

-----------------------------------------------------------------------------
SavingGoes(p, label) == savingAt' = [savingAt EXCEPT ![p] = label]

(* A recurring transfer is for a beneficiary the user has, and the schema     *)
(* makes its challenge mandatory.                                           *)
SavingsOf(p) ==
    [purpose: {"beneficiary_create"}, proof: Proofs \cup {NoProof}, payee: {p}]
        \cup [purpose: {"recurring_transfer"}, proof: Proofs, payee: SavedPayees]

ReceiveSaving(p) ==
    /\ savingAt[p] = "unsent"
    /\ \A b \in 1 .. p - 1 : savingAt[b] # "unsent"
    /\ \E x \in SavingsOf(p) : saving' = [saving EXCEPT ![p] = x]
    /\ SavingGoes(p, "received")
    /\ UNCHANGED <<payee, schedule, proof>>

(* Seeded fault: the saved beneficiaries are not counted.                    *)
NeedsProofForSchedules(p) == saving[p].purpose = "recurring_transfer"

(* Only the first beneficiary needs a challenge.                             *)
NeedsProof(p) == saving[p].purpose = "recurring_transfer" \/ SavedPayees = {}

CountPayees(p) ==
    /\ savingAt[p] = "received"
    /\ SavingGoes(p, IF NeedsProof(p) THEN "proving" ELSE "saving")
    /\ saving' = IF NeedsProof(p) THEN saving ELSE [saving EXCEPT ![p].proof = NoProof]
    /\ UNCHANGED <<payee, schedule, proof>>

(* require_verified() selects the challenge by purpose, context and status;  *)
(* what it sets on it is written with the rest.                             *)
Proves(p) ==
    /\ saving[p].proof # NoProof
    /\ PurposeOf[saving[p].proof] = saving[p].purpose
    /\ proof[saving[p].proof] = "verified"

RequireProof(p) ==
    /\ savingAt[p] = "proving"
    /\ SavingGoes(p, IF Proves(p) THEN "saving" ELSE "refused")
    /\ UNCHANGED <<payee, schedule, proof, saving>>

ProofsAfter(p) == [c \in Proofs |-> IF c = saving[p].proof THEN "used" ELSE proof[c]]

CommitPayee(p) ==
    /\ savingAt[p] = "saving"
    /\ saving[p].purpose = "beneficiary_create"
    /\ payee' = [payee EXCEPT ![p] = [saved |-> TRUE, proof |-> saving[p].proof]]
    /\ proof' = ProofsAfter(p)
    /\ SavingGoes(p, "done")
    /\ UNCHANGED <<schedule, saving>>

CommitSchedule(p) ==
    /\ savingAt[p] = "saving"
    /\ saving[p].purpose = "recurring_transfer"
    /\ schedule' = [schedule EXCEPT ![p] = [saved |-> TRUE, proof |-> saving[p].proof,
                                            payee |-> saving[p].payee]]
    /\ proof' = ProofsAfter(p)
    /\ SavingGoes(p, "done")
    /\ UNCHANGED <<payee, saving>>

LoseSaving(p) ==
    /\ savingAt[p] \in {"received", "proving", "saving"}
    /\ SavingGoes(p, "lost")
    /\ UNCHANGED <<payee, schedule, proof, saving>>

PayeesNext ==
    \E p \in Savings : \/ ReceiveSaving(p) \/ CountPayees(p) \/ RequireProof(p)
                       \/ CommitPayee(p) \/ CommitSchedule(p) \/ LoseSaving(p)

PayeesSpec == PayeesInit /\ [][PayeesNext]_payeeVars

-----------------------------------------------------------------------------
PayeesTypeOK ==
    /\ payee \in [Savings -> Payee]
    /\ schedule \in [Savings -> Schedule]
    /\ proof \in [Proofs -> {"verified", "used"}]
    /\ saving \in [Savings -> Saving]
    /\ savingAt \in [Savings -> {"unsent", "received", "proving", "saving", "done", "refused",
                                 "lost"}]

(* The rule that saving a beneficiary relaxes after the first one cannot be  *)
(* slipped past by overlapping requests: whoever is paid, or scheduled to   *)
(* be paid, the list was opened with a challenge verified for that, and so  *)
(* was every schedule.                                                      *)
PayeesTraceToProof ==
    /\ SavedPayees # {} => \E p \in SavedPayees : /\ payee[p].proof # NoProof
                                                  /\ PurposeOf[payee[p].proof] = "beneficiary_create"
    /\ \A s \in Savings : schedule[s].saved =>
          /\ schedule[s].payee \in SavedPayees
          /\ schedule[s].proof \in Proofs
          /\ PurposeOf[schedule[s].proof] = "recurring_transfer"
          /\ proof[schedule[s].proof] = "used"
=============================================================================
