------------------------------- MODULE Ledger -------------------------------
(***************************************************************************)
(* What the money core promises: a ledger on which each transfer is posted  *)
(* at most once, in one indivisible step that moves a positive amount,      *)
(* covered by the sender's balance, from one account to another.  Nothing   *)
(* else changes a balance.                                                  *)
(***************************************************************************)
EXTENDS Integers

CONSTANTS LedgerAccounts, TransferIds, Opening

VARIABLES balance, posted

LedgerInit == /\ balance = Opening
              /\ posted = {}

Post(id, from, to, amount) ==
    /\ id \notin posted
    /\ from # to
    /\ balance' = [balance EXCEPT ![from] = @ - amount, ![to] = @ + amount]
    /\ posted' = posted \cup {id}

LedgerNext == \E id \in TransferIds, from, to \in LedgerAccounts :
                 \E amount \in 1 .. balance[from] : Post(id, from, to, amount)

LedgerSpec == LedgerInit /\ [][LedgerNext]_<<balance, posted>>
=============================================================================
