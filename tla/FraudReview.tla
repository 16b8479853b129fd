----------------------------- MODULE FraudReview -----------------------------
(***************************************************************************)
(* FraudService.decide_case(): an administrator approves or rejects a       *)
(* transfer that is queued for review, or freezes the sender.               *)
(*                                                                         *)
(* The case, its transaction and the two accounts are loaded by separate    *)
(* SELECTs (selectin relationships, whose order is not specified), nothing  *)
(* is locked until an approval locks the accounts, and the decision is      *)
(* taken on the transaction status that was loaded.  case.status is never   *)
(* read, so a resolved case can be decided again.                           *)
(***************************************************************************)
EXTENDS BankDb

Verdicts == {"approve", "reject", "freeze"}

Tx(d) == ruling[d].tx
Enter(a, label) == pc' = [pc EXCEPT ![a] = label]

ReadCase(d) ==
    /\ pc[d] = "unsent"
    /\ MayStart
    /\ cases[Tx(d)] # "none"
    /\ Enter(d, "reading")
    /\ UNCHANGED <<rows, locks, day, inputs, sessions, locals, ghosts>>

ReadTransaction(d) ==
    /\ pc[d] = "reading"
    /\ seen[d] = "absent"
    /\ seen' = [seen EXCEPT ![d] = txs[Tx(d)]]
    /\ UNCHANGED <<rows, locks, day, inputs, pc, sessions, resetting, risk, reply, ghosts>>

ReadParty(d) ==
    /\ pc[d] = "reading"
    /\ \E x \in Parties(Tx(d)) \ loaded[d] : Select(d, {x})
    /\ UNCHANGED <<rows, locks, day, inputs, pc, locals, ghosts>>

HasRead(d) == /\ pc[d] = "reading"
              /\ seen[d] # "absent"
              /\ Parties(Tx(d)) \subseteq loaded[d]

Finish(d, label) ==
    /\ Enter(d, label)
    /\ Release(d)
    /\ CloseSession(d)
    /\ seen' = [seen EXCEPT ![d] = "absent"]
    /\ UNCHANGED <<keys, confirmations, day, inputs, resetting, risk, reply>>

(* Seeded fault: the case is left open. *)
LeaveCaseOpen(d) == cases' = cases
ResolveCase(d) == cases' = [cases EXCEPT ![Tx(d)] = "resolved"]

(* An attribute that is assigned the value it was loaded with is not         *)
(* written.                                                                 *)
(* Seeded fault: the wrong final status. *)
CompleteTransaction(d) == txs' = [txs EXCEPT ![Tx(d)] = "completed"]
FailTransaction(d) ==
    txs' = IF seen[d] = "failed" THEN txs ELSE [txs EXCEPT ![Tx(d)] = "failed"]

RejectTransfer(d) ==
    /\ HasRead(d)
    /\ ruling[d].verdict = "reject"
    /\ FailTransaction(d)
    /\ ResolveCase(d)
    /\ Finish(d, "decided")
    /\ UNCHANGED <<accounts, ghosts>>

FreezeSender(d) ==
    LET sender == From(Tx(d)) IN
    /\ HasRead(d)
    /\ ruling[d].verdict = "freeze"
    /\ IF copy[d][sender].status = "frozen"
       THEN accounts' = accounts
       ELSE /\ Grantable(AccountLock(d, sender, "no_key_update"))
            /\ accounts' = [accounts EXCEPT ![sender].status = "frozen"]
    /\ FailTransaction(d)
    /\ ResolveCase(d)
    /\ Finish(d, "decided")
    /\ UNCHANGED ghosts

(* Seeded fault: only a rejected transfer is refused. *)
NotRejected(d) == seen[d] # "failed"
Approvable(d) == seen[d] = "pending_review"
ApprovalLocks(d) == {AccountLock(d, x, "update") : x \in Parties(Tx(d))}

RefuseApproval(d) ==
    /\ HasRead(d)
    /\ ruling[d].verdict = "approve"
    /\ ~Approvable(d)
    /\ Finish(d, "conflict")
    /\ UNCHANGED <<accounts, txs, cases, ghosts>>

BeginApproval(d) ==
    /\ HasRead(d)
    /\ ruling[d].verdict = "approve"
    /\ Approvable(d)
    /\ Enter(d, "approving")
    /\ UNCHANGED <<rows, locks, day, inputs, sessions, locals, ghosts>>

TakeApprovalLock(d) ==
    /\ pc[d] = "approving"
    /\ \E l \in ApprovalLocks(d) \ locks : Grantable(l) /\ locks' = locks \cup {l}
    /\ UNCHANGED <<rows, day, inputs, pc, sessions, locals, ghosts>>

(* The daily counter grows, but neither the limit nor the date of the last   *)
(* reset nor the status of the accounts is looked at.                       *)
ApproveTransfer(d) ==
    LET t == Tx(d) IN
    /\ pc[d] = "approving"
    /\ ApprovalLocks(d) \subseteq locks
    /\ HasFunds(d, t)
    /\ accounts' =
         [accounts EXCEPT
            ![From(t)] = Debited(@, copy[d][From(t)], Amount(t), accounts[From(t)].resetDay),
            ![To(t)] = Credited(@, copy[d][To(t)], Amount(t))]
    /\ RecordPosting(t, day)
    /\ txs' = [txs EXCEPT ![t] = "completed"]
    /\ ResolveCase(d)
    /\ Finish(d, "decided")

RefuseOverdrawnApproval(d) ==
    /\ pc[d] = "approving"
    /\ ApprovalLocks(d) \subseteq locks
    /\ ~HasFunds(d, Tx(d))
    /\ Finish(d, "conflict")
    /\ UNCHANGED <<accounts, txs, cases, ghosts>>

(* Any error in the handler, or a crash: the transaction is rolled back. *)
AbandonDecision(d) ==
    /\ InFlight(d)
    /\ Finish(d, "lost")
    /\ UNCHANGED <<accounts, txs, cases, ghosts>>

DecisionStep(d) ==
    \/ ReadTransaction(d) \/ ReadParty(d)
    \/ RejectTransfer(d) \/ FreezeSender(d)
    \/ RefuseApproval(d) \/ BeginApproval(d) \/ TakeApprovalLock(d)
    \/ ApproveTransfer(d) \/ RefuseOverdrawnApproval(d)
=============================================================================
