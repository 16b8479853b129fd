---------------------------- MODULE AccountAdmin ----------------------------
(***************************************************************************)
(* AdminService.freeze_account() and unfreeze_account(): load the account,  *)
(* set its status, commit.  Only the status column is written, and only     *)
(* when it differs from the one that was loaded.                            *)
(***************************************************************************)
EXTENDS BankDb

Target(e) == errand[e].account
Proceed(a, label) == pc' = [pc EXCEPT ![a] = label]

LoadAccount(e) ==
    /\ pc[e] = "unsent"
    /\ MayStart
    /\ Select(e, {Target(e)})
    /\ Proceed(e, "loaded")
    /\ UNCHANGED <<rows, locks, day, inputs, locals, ghosts>>

Changes(e) == copy[e][Target(e)].status # errand[e].status

SetStatus(e) ==
    /\ pc[e] = "loaded"
    /\ IF Changes(e)
       THEN /\ Grantable(AccountLock(e, Target(e), "no_key_update"))
            /\ accounts' = [accounts EXCEPT ![Target(e)].status = errand[e].status]
       ELSE accounts' = accounts
    /\ CloseSession(e)
    /\ Proceed(e, "decided")
    /\ UNCHANGED <<txs, cases, keys, confirmations, locks, day, inputs, locals, ghosts>>

AbandonErrand(e) ==
    /\ pc[e] = "loaded"
    /\ CloseSession(e)
    /\ Proceed(e, "lost")
    /\ UNCHANGED <<rows, locks, day, inputs, locals, ghosts>>
=============================================================================
