----------------------------- MODULE FundsProofs -----------------------------
(***************************************************************************)
(* SoundFunds and ExclusiveWrites, for requests that overlap in any way.    *)
(*                                                                         *)
(* The first rests on two facts about a single step.  SessionStep: what a   *)
(* session has loaded it has read from the table, now or earlier.           *)
(* MoneyStep: the balances change in no other way than by a posting         *)
(* computed from such rows.                                                 *)
(*                                                                          *)
(* The second is the invariant LockInv: no two conflicting locks are held,  *)
(* and whoever will write a row or a key when it commits holds its lock     *)
(* from the flush on, through the savepoint's rollback too.                 *)
(***************************************************************************)
EXTENDS BankingProofs

USE DEF Actors

SameMoney(r, s) == r.balance = s.balance /\ r.available = s.available

(* A posting of transfer t by handler a. *)
Pays(a, t) ==
    /\ a \in Actors /\ t \in Transfers
    /\ Posted(t)
    /\ Parties(t) \subseteq loaded[a]
    /\ HasFunds(a, t)
    /\ InFlight(a)
    /\ CloseSession(a)
    /\ accounts'[From(t)].balance = copy[a][From(t)].balance - Amount(t)
    /\ accounts'[From(t)].available = copy[a][From(t)].available - Amount(t)
    /\ accounts'[To(t)].balance = copy[a][To(t)].balance + Amount(t)
    /\ accounts'[To(t)].available = copy[a][To(t)].available + Amount(t)
    /\ \A x \in Accounts \ Parties(t) : accounts'[x] = accounts[x]
    /\ moved' = [moved EXCEPT ![From(t)] = @ - Amount(t), ![To(t)] = @ + Amount(t)]
    /\ applied' = [applied EXCEPT ![t] = @ + 1]
    /\ \/ a = t /\ pc[t] = "booking"
       \/ a \in Decisions /\ Tx(a) = t /\ pc[a] = "approving"

NothingPaid == /\ \A x \in Accounts : SameMoney(accounts'[x], accounts[x])
               /\ UNCHANGED <<moved, applied>>

(* What a session has after a step is what its SELECT would have returned,   *)
(* except that the validation of a transfer resets the sender's counter.    *)
ReadFromTable(a, x) ==
    \/ copy'[a][x] = View(a, x)
    \/ a \in Transfers /\ Validate(a) /\ x = From(a) /\ copy'[a][x] = Today(View(a, x))

Loads == \A a \in Actors, x \in Accounts : x \in loaded'[a] => ReadFromTable(a, x)

-----------------------------------------------------------------------------
LEMMA ClosedLoads ==
    ASSUME TypeOK, NEW a \in Actors, CloseSession(a)
    PROVE  Loads
BY DEF TypeOK, CloseSession, Loads, ReadFromTable, View

LEMMA SelectLoads ==
    ASSUME TypeOK, NEW a \in Actors, NEW xs \in SUBSET Accounts, Select(a, xs)
    PROVE  Loads
BY DEF TypeOK, Select, View, Loads, ReadFromTable

LEMMA UnchangedLoads ==
    ASSUME TypeOK, UNCHANGED sessions
    PROVE  Loads
BY DEF sessions, Loads, ReadFromTable, View

LEMMA SessionStep ==
    ASSUME TypeOK, Phases, [Next]_vars
    PROVE  Loads
<1>1. ASSUME NEW t \in Transfers, Authenticate(t) PROVE Loads
  <2>1. AccountsOfUser(request[t].user) \in SUBSET Accounts
    BY RequestType DEF AccountsOfUser, Parties
  <2> QED
    BY <1>1, <2>1, SelectLoads DEF Authenticate
<1>2. ASSUME NEW t \in Transfers, Validate(t) PROVE Loads
  <2>1. /\ From(t) \in Accounts /\ To(t) \in Accounts /\ From(t) # To(t)
        /\ Parties(t) = {From(t), To(t)}
    BY <1>2, RequestType DEF Validate, Accepts, Parties
  <2> SUFFICES ASSUME NEW b \in Actors, NEW x \in Accounts, x \in loaded'[b]
               PROVE  ReadFromTable(b, x)
    BY DEF Loads
  <2>2. CASE b = t /\ x = From(t)
    BY <1>2, <2>1, <2>2 DEF Validate, TypeOK, ReadFromTable
  <2>3. CASE b = t /\ x = To(t)
    BY <1>2, <2>1, <2>3 DEF Validate, TypeOK, ReadFromTable
  <2>4. CASE b # t \/ x \notin Parties(t)
    BY <1>2, <2>1, <2>4 DEF Validate, TypeOK, ReadFromTable, View
  <2> QED
    BY <2>1, <2>2, <2>3, <2>4
<1>3. ASSUME NEW t \in Transfers, \/ UseKey(t) \/ InsertKey(t) \/ ReclaimKey(t) \/ Score(t)
                                  \/ CheckConfirmation(t) \/ ConsumeConfirmation(t)
                                  \/ TakeLock(t) \/ MarkKeyFailed(t)
      PROVE  Loads
  BY <1>3, UnchangedLoads DEF UseKey, InsertKey, ReclaimKey, Score, CheckConfirmation,
                              ConsumeConfirmation, TakeLock, MarkKeyFailed
<1>4. ASSUME NEW t \in Transfers,
             \/ RefuseKey(t) \/ Replay(t) \/ LoseInsertRace(t) \/ RefuseDraft(t)
             \/ ScoreFails(t) \/ RefuseConfirmation(t) \/ RefuseOverdraft(t)
             \/ QueueForReview(t) \/ Complete(t)
             \/ InternalError(t) \/ DeadlockedTransfer(t) \/ Crash(t)
      PROVE  Loads
  BY <1>4, ClosedLoads DEF RefuseKey, Replay, LoseInsertRace, Answer, RefuseDraft, ScoreFails,
       RefuseConfirmation, RefuseOverdraft, QueueForReview, Complete, CommitTransaction,
       InternalError, DeadlockedTransfer, Fail, Crash
<1>5. ASSUME NEW d \in Decisions, ReadParty(d) PROVE Loads
  <2>1. PICK x \in Parties(Tx(d)) : Select(d, {x})
    BY <1>5 DEF ReadParty
  <2>2. {x} \in SUBSET Accounts
    BY RulingType, RequestType
  <2> QED
    BY <2>1, <2>2, SelectLoads
<1>6. ASSUME NEW d \in Decisions,
             ReadCase(d) \/ ReadTransaction(d) \/ BeginApproval(d) \/ TakeApprovalLock(d)
      PROVE  Loads
  BY <1>6, UnchangedLoads DEF ReadCase, ReadTransaction, BeginApproval, TakeApprovalLock
<1>7. ASSUME NEW d \in Decisions,
             \/ RejectTransfer(d) \/ FreezeSender(d) \/ RefuseApproval(d) \/ ApproveTransfer(d)
             \/ RefuseOverdrawnApproval(d) \/ AbandonDecision(d) \/ DeadlockedDecision(d)
      PROVE  Loads
  BY <1>7, ClosedLoads DEF RejectTransfer, FreezeSender, RefuseApproval, ApproveTransfer,
       RefuseOverdrawnApproval, AbandonDecision, DeadlockedDecision, Finish
<1>8. ASSUME NEW e \in Errands, LoadAccount(e) \/ SetStatus(e) \/ AbandonErrand(e)
      PROVE  Loads
  <2>1. {Target(e)} \in SUBSET Accounts
    BY DEF TypeOK, Target
  <2> QED
    BY <1>8, <2>1, SelectLoads, ClosedLoads DEF LoadAccount, SetStatus, AbandonErrand
<1>9. CASE (\E c \in Confirmations : ExpireConfirmation(c)) \/ Midnight \/ UNCHANGED vars
  BY <1>9, UnchangedLoads DEF ExpireConfirmation, Midnight, vars
<1> QED
  BY <1>1, <1>2, <1>3, <1>4, <1>5, <1>6, <1>7, <1>8, <1>9
     DEF Next, TransferStep, DecisionStep, Terminated

LEMMA LoadedMoney ==
    ASSUME TypeOK, Phases, [Next]_vars, NEW a \in Actors, NEW x \in Accounts, x \in loaded'[a]
    PROVE  \/ x \in loaded[a] /\ SameMoney(copy'[a][x], copy[a][x])
           \/ SameMoney(copy'[a][x], accounts[x])
<1>1. SameMoney(copy'[a][x], View(a, x))
  <2>1. ReadFromTable(a, x)
    BY SessionStep DEF Loads
  <2>2. \A r : SameMoney(Today(r), r)
    BY DEF SameMoney, Today, ResetRow
  <2> QED
    BY <2>1, <2>2 DEF ReadFromTable, SameMoney
<1> QED
  BY <1>1 DEF View

-----------------------------------------------------------------------------
LEMMA PostedParties ==
    ASSUME TypeOK, NEW t \in Transfers, Posted(t)
    PROVE  /\ Parties(t) = {From(t), To(t)}
           /\ From(t) \in Accounts /\ To(t) \in Accounts /\ From(t) # To(t)
           /\ Amount(t) \in Nat /\ Amount(t) > 0
BY RequestType DEF Posted, Parties

(* What transfer() and decide_case() write is a posting. *)
LEMMA PostingPays ==
    ASSUME TypeOK, NEW a \in Actors, NEW t \in Transfers, Posted(t), InFlight(a), CloseSession(a),
           Parties(t) \subseteq loaded[a], HasFunds(a, t),
           NEW r \in Days, NEW d \in Days,
           accounts' = [accounts EXCEPT
                          ![From(t)] = Debited(@, copy[a][From(t)], Amount(t), r),
                          ![To(t)] = Credited(@, copy[a][To(t)], Amount(t))],
           RecordPosting(t, d),
           \/ a = t /\ pc[t] = "booking"
           \/ a \in Decisions /\ Tx(a) = t /\ pc[a] = "approving"
    PROVE  Pays(a, t)
<1>1. /\ accounts'[From(t)] = Debited(accounts[From(t)], copy[a][From(t)], Amount(t), r)
      /\ accounts'[To(t)] = Credited(accounts[To(t)], copy[a][To(t)], Amount(t))
      /\ \A x \in Accounts \ Parties(t) : accounts'[x] = accounts[x]
  BY PostedParties DEF TypeOK
<1>2. /\ accounts'[From(t)].balance = copy[a][From(t)].balance - Amount(t)
      /\ accounts'[From(t)].available = copy[a][From(t)].available - Amount(t)
      /\ accounts'[To(t)].balance = copy[a][To(t)].balance + Amount(t)
      /\ accounts'[To(t)].available = copy[a][To(t)].available + Amount(t)
  BY SMTT(60), <1>1 DEF Debited, Credited
<1> QED
  BY <1>1, <1>2 DEF Pays, RecordPosting

LEMMA StatusKeepsMoney ==
    ASSUME NEW row \in AccountRow, NEW status
    PROVE  SameMoney([row EXCEPT !.status = status], row)
BY DEF SameMoney, AccountRow

LEMMA MoneyStep ==
    ASSUME TypeOK, Phases, [Next]_vars
    PROVE  NothingPaid \/ \E a \in Actors, t \in Transfers : Pays(a, t)
<1>1. ASSUME NEW t \in Transfers, Complete(t) PROVE Pays(t, t)
  <2>1. /\ Posted(t) /\ Parties(t) \subseteq loaded[t] /\ InFlight(t)
        /\ pc[t] = "booking"
    BY <1>1 DEF Complete, ReadyToCommit, Phases, TransferAt, CheckedPhases, InFlight, Closed
  <2>2. ResetDay(t) \in Days /\ copy[t][From(t)].resetDay \in Days
    BY RequestType DEF ResetDay, TypeOK, AccountRow
  <2> QED
    BY <1>1, <2>1, <2>2, PostingPays DEF Complete, CommitTransaction
<1>2. ASSUME NEW d \in Decisions, ApproveTransfer(d) PROVE Pays(d, Tx(d))
  <2>1. /\ Tx(d) \in Transfers /\ pc[d] = "approving"
    BY <1>2, RulingType DEF ApproveTransfer
  <2>2. /\ Posted(Tx(d)) /\ Parties(Tx(d)) \subseteq loaded[d] /\ InFlight(d)
    BY <2>1 DEF Phases, DecisionAt, InFlight, Closed
  <2>3. accounts[From(Tx(d))].resetDay \in Days /\ day \in Days
    BY <2>1, RequestType DEF TypeOK, AccountRow
  <2>4. /\ HasFunds(d, Tx(d))
        /\ CloseSession(d)
        /\ RecordPosting(Tx(d), day)
        /\ accounts' = [accounts EXCEPT
             ![From(Tx(d))] = Debited(@, copy[d][From(Tx(d))], Amount(Tx(d)),
                                      accounts[From(Tx(d))].resetDay),
             ![To(Tx(d))] = Credited(@, copy[d][To(Tx(d))], Amount(Tx(d)))]
    BY <1>2 DEF ApproveTransfer, Finish
  <2> QED
    BY <2>1, <2>2, <2>3, <2>4, PostingPays
<1>3. ASSUME NEW t \in Transfers, QueueForReview(t) PROVE NothingPaid
  <2>1. From(t) \in Accounts
    BY RequestType
  <2> QED
    BY <1>3, <2>1 DEF QueueForReview, TypeOK, NothingPaid, SameMoney, ResetRow, ghosts
<1>4. ASSUME NEW d \in Decisions, FreezeSender(d) PROVE NothingPaid
  <2>1. From(Tx(d)) \in Accounts
    BY RulingType, RequestType
  <2>2. accounts[From(Tx(d))] \in AccountRow
    BY <2>1 DEF TypeOK
  <2>3. SameMoney([accounts[From(Tx(d))] EXCEPT !.status = "frozen"], accounts[From(Tx(d))])
    BY <2>2, StatusKeepsMoney
  <2>4. \A x \in Accounts : SameMoney(accounts'[x], accounts[x])
    BY <1>4, <2>1, <2>3 DEF FreezeSender, TypeOK, SameMoney
  <2> QED
    BY <1>4, <2>4 DEF FreezeSender, NothingPaid, ghosts
<1>5. ASSUME NEW e \in Errands, SetStatus(e) PROVE NothingPaid
  <2>1. Target(e) \in Accounts
    BY DEF TypeOK, Target
  <2>2. accounts[Target(e)] \in AccountRow
    BY <2>1 DEF TypeOK
  <2>3. SameMoney([accounts[Target(e)] EXCEPT !.status = errand[e].status],
                  accounts[Target(e)])
    BY <2>2, StatusKeepsMoney
  <2>4. \A x \in Accounts : SameMoney(accounts'[x], accounts[x])
    BY <1>5, <2>1, <2>3 DEF SetStatus, TypeOK, SameMoney
  <2> QED
    BY <1>5, <2>4 DEF SetStatus, NothingPaid, ghosts
<1>6. CASE UNCHANGED <<accounts, ghosts>>
  BY <1>6 DEF NothingPaid, SameMoney, ghosts
<1>7. ASSUME NEW t \in Transfers,
             \/ Authenticate(t) \/ RefuseKey(t) \/ Replay(t) \/ UseKey(t) \/ InsertKey(t)
             \/ LoseInsertRace(t) \/ ReclaimKey(t) \/ RefuseDraft(t) \/ Validate(t)
             \/ Score(t) \/ ScoreFails(t) \/ CheckConfirmation(t) \/ RefuseConfirmation(t)
             \/ ConsumeConfirmation(t) \/ TakeLock(t) \/ RefuseOverdraft(t)
             \/ MarkKeyFailed(t) \/ InternalError(t) \/ DeadlockedTransfer(t) \/ Crash(t)
      PROVE  UNCHANGED <<accounts, ghosts>>
  BY <1>7 DEF Authenticate, RefuseKey, Replay, Answer, UseKey, InsertKey, LoseInsertRace,
       ReclaimKey, RefuseDraft, Validate, Score, ScoreFails, CheckConfirmation,
       RefuseConfirmation, ConsumeConfirmation, TakeLock, RefuseOverdraft, MarkKeyFailed,
       InternalError, DeadlockedTransfer, Fail, Crash, rows
<1>8. ASSUME NEW d \in Decisions,
             \/ ReadCase(d) \/ ReadTransaction(d) \/ ReadParty(d) \/ RejectTransfer(d)
             \/ RefuseApproval(d) \/ BeginApproval(d) \/ TakeApprovalLock(d)
             \/ RefuseOverdrawnApproval(d) \/ AbandonDecision(d) \/ DeadlockedDecision(d)
      PROVE  UNCHANGED <<accounts, ghosts>>
  BY <1>8 DEF ReadCase, ReadTransaction, ReadParty, RejectTransfer, RefuseApproval,
       BeginApproval, TakeApprovalLock, RefuseOverdrawnApproval, AbandonDecision,
       DeadlockedDecision, rows
<1>9. ASSUME NEW e \in Errands, LoadAccount(e) \/ AbandonErrand(e)
      PROVE  UNCHANGED <<accounts, ghosts>>
  BY <1>9 DEF LoadAccount, AbandonErrand, rows
<1>10. CASE (\E c \in Confirmations : ExpireConfirmation(c)) \/ Midnight \/ UNCHANGED vars
  BY <1>6, <1>10 DEF ExpireConfirmation, Midnight, vars, rows
<1>11. CASE \E t \in Transfers : \/ Authenticate(t) \/ TransferStep(t) \/ InternalError(t)
                                 \/ Crash(t) \/ DeadlockedTransfer(t)
  BY <1>1, <1>3, <1>6, <1>7, <1>11 DEF TransferStep
<1>12. CASE \E d \in Decisions : \/ ReadCase(d) \/ DecisionStep(d)
                                 \/ AbandonDecision(d) \/ DeadlockedDecision(d)
  BY <1>2, <1>4, <1>6, <1>8, <1>12, RulingType DEF DecisionStep
<1> QED
  BY <1>5, <1>6, <1>9, <1>10, <1>11, <1>12 DEF Next, Terminated

-----------------------------------------------------------------------------
(* SoundFunds is inductive together with the same statement about the rows   *)
(* that sessions hold: a posting computes both columns from a held row and   *)
(* checks it for funds.                                                     *)
Solvent(row) == row.balance >= 0 /\ row.available = row.balance
SolventCopies == \A a \in Actors, x \in Accounts : x \in loaded[a] => Solvent(copy[a][x])

LEMMA SoundFundsStep ==
    ASSUME TypeOK, Phases, SoundFunds, SolventCopies, [Next]_vars
    PROVE  (SoundFunds /\ SolventCopies)'
<1>1. \A x \in Accounts : Solvent(accounts[x])
  BY DEF SoundFunds, Solvent
<1>2. SolventCopies'
  <2> SUFFICES ASSUME NEW a \in Actors, NEW x \in Accounts, x \in loaded'[a]
               PROVE  Solvent(copy'[a][x])
    BY DEF SolventCopies
  <2> QED
    BY <1>1, LoadedMoney DEF SolventCopies, Solvent, SameMoney
<1>3. SoundFunds'
  <2>1. CASE NothingPaid
    BY <1>1, <2>1 DEF NothingPaid, SoundFunds, SameMoney, Solvent
  <2>2. ASSUME NEW a \in Actors, NEW t \in Transfers, Pays(a, t) PROVE SoundFunds'
    <3>1. /\ Parties(t) = {From(t), To(t)}
          /\ From(t) \in Accounts /\ To(t) \in Accounts
          /\ Amount(t) \in Nat
      BY <2>2, PostedParties DEF Pays
    <3>2. /\ Solvent(copy[a][From(t)]) /\ Solvent(copy[a][To(t)])
          /\ copy[a][From(t)].available >= Amount(t)
          /\ copy[a][From(t)].balance \in Int /\ copy[a][To(t)].balance \in Int
      BY <2>2, <3>1 DEF Pays, SolventCopies, HasFunds, TypeOK, AccountRow
    <3>3. Solvent(accounts'[From(t)]) /\ Solvent(accounts'[To(t)])
      BY <2>2, <3>1, <3>2 DEF Pays, Solvent
    <3>4. \A x \in Accounts \ {From(t), To(t)} : Solvent(accounts'[x])
      BY <1>1, <2>2, <3>1 DEF Pays
    <3> QED
      BY <3>1, <3>3, <3>4 DEF SoundFunds, Solvent
  <2> QED
    BY <2>1, <2>2, MoneyStep
<1> QED
  BY <1>2, <1>3

(* No interleaving of transfers, approvals, freezes and crashes overdraws an *)
(* account or lets balance and available_balance drift apart.               *)
THEOREM FundsStaySound == Spec => []SoundFunds
<1>1. Init => SoundFunds /\ SolventCopies
  BY AccountAssumption DEF Init, SoundFunds, SolventCopies, OpenedAccounts, OpenedAccount
<1>2. TypeOK /\ Phases /\ SoundFunds /\ SolventCopies /\ [Next]_vars
        => (SoundFunds /\ SolventCopies)'
  BY SoundFundsStep
<1> QED
  BY <1>1, <1>2, TypeCorrect, PTL DEF Spec

-----------------------------------------------------------------------------
(* Locks.  No two requests hold conflicting locks; a transfer inside its      *)
(* savepoint, or storing its key as failed, holds the key; and one that is   *)
(* about to commit a daily reset holds the sender's row.                    *)

LEMMA FixedInputs == [Next]_vars => UNCHANGED inputs
BY ZenonT(60) DEF Next, vars, Authenticate, TransferStep, RefuseKey, Replay, Answer, UseKey, InsertKey,
       LoseInsertRace, ReclaimKey, RefuseDraft, Validate, Score, ScoreFails, CheckConfirmation,
       RefuseConfirmation, ConsumeConfirmation, TakeLock, QueueForReview, Complete,
       RefuseOverdraft, MarkKeyFailed, InternalError, DeadlockedTransfer, Fail, Crash,
       ReadCase, DecisionStep, ReadTransaction, ReadParty, RejectTransfer, FreezeSender,
       RefuseApproval, BeginApproval, TakeApprovalLock, ApproveTransfer, Finish,
       RefuseOverdrawnApproval, AbandonDecision, DeadlockedDecision, LoadAccount, SetStatus,
       AbandonErrand, ExpireConfirmation, Midnight, Terminated

NoConflicts == \A held, other \in locks : ~Blocks(held, other)
KeyHeld(t) == pc[t] \in Nested \cup {"failing"} => KeyLock(t) \in locks
ResetHeld(t) == pc[t] = "booking" /\ t \in resetting
                  => AccountLock(t, From(t), "no_key_update") \in locks
LockInv == NoConflicts /\ \A t \in Transfers : KeyHeld(t) /\ ResetHeld(t)

LEMMA BlocksBothWays ==
    ASSUME NEW l, NEW m, l.mode \in LockModes, m.mode \in LockModes, Blocks(l, m)
    PROVE  Blocks(m, l)
BY DEF Blocks, ConflictsWith, LockModes

(* What one handler's step does to the locks: it takes what is granted to it  *)
(* and lets go only of its own.                                             *)
Locks(a) ==
    /\ \A b \in Actors \ {a} : pc'[b] = pc[b]
    /\ \A l \in locks : l.who # a => l \in locks'
    /\ \A l \in locks' \ locks : l.who = a /\ Grantable(l)
    /\ \A t \in Transfers \ {a} : t \in resetting' => t \in resetting
    /\ a \in Transfers => KeyHeld(a)' /\ ResetHeld(a)'

LEMMA ReleaseLocks ==
    ASSUME TypeOK, NEW a, Release(a) \/ ReleaseSavepoint(a)
    PROVE  /\ locks' \subseteq locks
           /\ \A l \in locks : l.who # a => l \in locks'
BY DEF Release, ReleaseSavepoint, LocksOf

LEMMA FailLocks ==
    ASSUME TypeOK, Phases, LockInv, UNCHANGED inputs, NEW t \in Transfers, pc[t] \in Nested, Fail(t)
    PROVE  Locks(t)
<1>1. pc' = [pc EXCEPT ![t] = "failing"] /\ resetting' = resetting \ {t}
  BY DEF Fail, Goto
<1>2. pc'[t] = "failing" /\ \A b \in Actors \ {t} : pc'[b] = pc[b]
  BY <1>1 DEF TypeOK
<1>3. KeyLock(t) \in locks'
  <2>1. KeyLock(t) \in locks /\ KeyLock(t).row[1] = "key"
    BY DEF LockInv, KeyHeld, KeyLock
  <2> QED
    BY <2>1 DEF Fail, ReleaseSavepoint
<1>4. KeyLock(t)' = KeyLock(t)
  BY DEF KeyLock, inputs
<1>5. KeyHeld(t)' /\ ResetHeld(t)'
  BY <1>2, <1>3, <1>4 DEF KeyHeld, ResetHeld
<1>6. locks' \subseteq locks /\ \A l \in locks : l.who # t => l \in locks'
  BY ReleaseLocks DEF Fail
<1> QED
  BY <1>1, <1>2, <1>5, <1>6 DEF Locks

(* A step that ends a transfer lets go of everything.                       *)
LEMMA EndLocks ==
    ASSUME TypeOK, NEW t \in Transfers, NEW l \in Closed, pc' = [pc EXCEPT ![t] = l],
           Release(t) \/ UNCHANGED locks, resetting' \subseteq resetting
    PROVE  Locks(t)
<1>1. pc'[t] = l /\ \A b \in Actors \ {t} : pc'[b] = pc[b]
  BY DEF TypeOK
<1>2. locks' \subseteq locks /\ \A m \in locks : m.who # t => m \in locks'
  BY ReleaseLocks
<1>3. KeyHeld(t)' /\ ResetHeld(t)'
  BY <1>1 DEF KeyHeld, ResetHeld, Nested, Closed
<1> QED
  BY <1>1, <1>2, <1>3 DEF Locks

LEMMA TransferLocks ==
    ASSUME TypeOK, Phases, LockInv, UNCHANGED inputs, NEW t \in Transfers,
           \/ Authenticate(t) \/ TransferStep(t) \/ InternalError(t)
           \/ Crash(t) \/ DeadlockedTransfer(t)
    PROVE  Locks(t)
<1> USE DEF Goto
<1>0. /\ KeyHeld(t) /\ ResetHeld(t)
      /\ KeyLock(t)' = KeyLock(t) /\ From(t)' = From(t)
      /\ KeyLock(t).who = t
  BY DEF LockInv, KeyLock, From, inputs
<1>1. ASSUME NEW l, pc' = [pc EXCEPT ![t] = l], UNCHANGED <<locks, resetting>>,
             l \notin Nested \cup {"failing"} \/ pc[t] \in Nested, l # "failing", l # "booking"
      PROVE  Locks(t)
  BY <1>0, <1>1 DEF Locks, KeyHeld, ResetHeld, TypeOK, Nested
<1>2. CASE \/ Authenticate(t) \/ UseKey(t) \/ Score(t) \/ CheckConfirmation(t)
  <2>1. UNCHANGED <<locks, resetting>>
    BY <1>2 DEF Authenticate, UseKey, Score, CheckConfirmation, locals
  <2>2. \E l : /\ pc' = [pc EXCEPT ![t] = l]
               /\ l \notin Nested \cup {"failing"} \/ pc[t] \in Nested
               /\ l # "failing" /\ l # "booking"
    BY <1>2 DEF Authenticate, UseKey, Score, CheckConfirmation, Nested
  <2> QED
    BY <1>1, <2>1, <2>2
<1>3. CASE RefuseKey(t) \/ Replay(t) \/ LoseInsertRace(t)
  <2>1. PICK l \in {"conflict", "replayed"} : \E tx : Answer(t, l, tx)
    BY <1>3 DEF RefuseKey, Replay, LoseInsertRace
  <2> QED
    BY <2>1, EndLocks DEF Answer, Closed
<1>4. CASE InsertKey(t) \/ ReclaimKey(t)
  <2>1. /\ pc' = [pc EXCEPT ![t] = "validating"] /\ UNCHANGED resetting
        /\ locks' = locks \cup {KeyLock(t)} /\ Grantable(KeyLock(t))
    BY <1>4 DEF InsertKey, ReclaimKey, locals
  <2> QED
    BY <1>0, <2>1 DEF Locks, KeyHeld, ResetHeld, TypeOK
<1>5. CASE Validate(t)
  <2>1. /\ pc' = [pc EXCEPT ![t] = "scoring"] /\ UNCHANGED locks /\ pc[t] \in Nested
        /\ \A u \in Transfers \ {t} : u \in resetting' => u \in resetting
    BY <1>5 DEF Validate, Nested
  <2> QED
    BY <1>0, <2>1 DEF Locks, KeyHeld, ResetHeld, TypeOK
<1>6. CASE ConsumeConfirmation(t)
  <2>1. /\ pc' = [pc EXCEPT ![t] = "booking"] /\ UNCHANGED resetting /\ pc[t] \in Nested
        /\ locks' = locks \cup ConsumeLocks(t)
        /\ \A l \in ConsumeLocks(t) : Grantable(l)
    BY <1>6 DEF ConsumeConfirmation, locals, Nested
  <2>2. \A l \in ConsumeLocks(t) : l.who = t
    BY DEF ConsumeLocks, ConfirmationLock, AccountLock
  <2>3. t \in resetting => AccountLock(t, From(t), "no_key_update") \in ConsumeLocks(t)
    BY DEF ConsumeLocks
  <2>4. AccountLock(t, From(t), "no_key_update")' = AccountLock(t, From(t), "no_key_update")
    BY <1>0 DEF AccountLock
  <2> QED
    BY <1>0, <2>1, <2>2, <2>3, <2>4 DEF Locks, KeyHeld, ResetHeld, TypeOK
<1>7. CASE TakeLock(t)
  <2>1. PICK l \in WantedLocks(t) : Grantable(l) /\ locks' = locks \cup {l}
    BY <1>7 DEF TakeLock
  <2>2. l.who = t
    BY <2>1 DEF WantedLocks, PartyLocks, AccountLock
  <2>3. UNCHANGED <<pc, resetting>>
    BY <1>7 DEF TakeLock, locals
  <2>4. AccountLock(t, From(t), "no_key_update")' = AccountLock(t, From(t), "no_key_update")
    BY <1>0 DEF AccountLock
  <2> QED
    BY <1>0, <2>1, <2>2, <2>3, <2>4 DEF Locks, KeyHeld, ResetHeld
<1>8. CASE QueueForReview(t) \/ Complete(t) \/ MarkKeyFailed(t) \/ Crash(t)
  <2>1. PICK l \in {"created", "refused", "lost"} : pc' = [pc EXCEPT ![t] = l]
    BY <1>8 DEF QueueForReview, Complete, CommitTransaction, MarkKeyFailed, Crash
  <2>2. Release(t) /\ resetting' \subseteq resetting
    BY <1>8 DEF QueueForReview, Complete, CommitTransaction, MarkKeyFailed, Crash, locals
  <2> QED
    BY <2>1, <2>2, EndLocks DEF Closed
<1>9. CASE \/ RefuseDraft(t) \/ ScoreFails(t) \/ RefuseConfirmation(t)
           \/ RefuseOverdraft(t) \/ InternalError(t) \/ DeadlockedTransfer(t)
  <2>1. pc[t] \in Nested /\ Fail(t)
    BY <1>9 DEF RefuseDraft, ScoreFails, RefuseConfirmation, RefuseOverdraft, ReadyToCommit,
                InternalError, DeadlockedTransfer, Nested
  <2> QED
    BY <2>1, FailLocks
<1> QED
  BY <1>2, <1>3, <1>4, <1>5, <1>6, <1>7, <1>8, <1>9 DEF TransferStep

LEMMA OtherLocks ==
    ASSUME TypeOK, NEW a \in Actors \ Transfers,
           \/ /\ a \in Decisions
              /\ ReadCase(a) \/ DecisionStep(a) \/ AbandonDecision(a) \/ DeadlockedDecision(a)
           \/ /\ a \in Errands
              /\ LoadAccount(a) \/ SetStatus(a) \/ AbandonErrand(a)
    PROVE  Locks(a)
<1>1. UNCHANGED pc \/ \E l : pc' = [pc EXCEPT ![a] = l]
  BY DEF ReadCase, DecisionStep, AbandonDecision, DeadlockedDecision, ReadTransaction,
         ReadParty, RejectTransfer, FreezeSender, RefuseApproval, BeginApproval,
         TakeApprovalLock, ApproveTransfer, RefuseOverdrawnApproval, Finish, Enter,
         LoadAccount, SetStatus, AbandonErrand, Proceed
<1>2. \A b \in Actors \ {a} : pc'[b] = pc[b]
  BY <1>1 DEF TypeOK
<1>3. UNCHANGED resetting
  BY DEF ReadCase, DecisionStep, AbandonDecision, DeadlockedDecision, ReadTransaction,
         ReadParty, RejectTransfer, FreezeSender, RefuseApproval, BeginApproval,
         TakeApprovalLock, ApproveTransfer, RefuseOverdrawnApproval, Finish,
         LoadAccount, SetStatus, AbandonErrand, locals
<1>4. \/ UNCHANGED locks \/ Release(a)
      \/ \E l \in ApprovalLocks(a) : Grantable(l) /\ locks' = locks \cup {l}
  BY DEF ReadCase, DecisionStep, AbandonDecision, DeadlockedDecision, ReadTransaction,
         ReadParty, RejectTransfer, FreezeSender, RefuseApproval, BeginApproval,
         TakeApprovalLock, ApproveTransfer, RefuseOverdrawnApproval, Finish,
         LoadAccount, SetStatus, AbandonErrand
<1>5. \A l \in ApprovalLocks(a) : l.who = a
  BY DEF ApprovalLocks, AccountLock
<1> QED
  BY <1>2, <1>3, <1>4, <1>5, ReleaseLocks DEF Locks

LEMMA LockInvStep ==
    ASSUME TypeOK, Phases, LockInv, [Next]_vars
    PROVE  LockInv'
<1>0. UNCHANGED inputs
  BY FixedInputs
<1>1. ASSUME NEW a \in Actors, Locks(a) PROVE LockInv'
  <2>1. NoConflicts'
    <3> SUFFICES ASSUME NEW l \in locks', NEW m \in locks', Blocks(l, m) PROVE FALSE
      BY DEF NoConflicts, Blocks
    <3>1. l.mode \in LockModes /\ m.mode \in LockModes /\ l.who # m.who
      <4>1. TypeOK'
        BY InductiveTypes
      <4> QED
        BY <4>1 DEF TypeOK, Blocks
    <3>2. CASE l \in locks /\ m \in locks
      BY <3>2 DEF LockInv, NoConflicts
    <3>3. CASE m \notin locks
      <4>1. Grantable(m) /\ l \in locks
        BY <1>1, <3>1, <3>3 DEF Locks
      <4> QED
        BY <4>1 DEF Grantable
    <3>4. CASE l \notin locks
      <4>1. Grantable(l) /\ m \in locks
        BY <1>1, <3>1, <3>4 DEF Locks
      <4> QED
        BY <3>1, <4>1, BlocksBothWays DEF Grantable
    <3> QED
      BY <3>2, <3>3, <3>4
  <2>2. ASSUME NEW t \in Transfers PROVE KeyHeld(t)' /\ ResetHeld(t)'
    <3>1. CASE t = a
      BY <1>1, <3>1 DEF Locks
    <3>2. CASE t # a
      <4>1. pc'[t] = pc[t] /\ (t \in resetting' => t \in resetting)
        BY <1>1, <3>2 DEF Locks
      <4>2. KeyLock(t)' = KeyLock(t) /\ KeyLock(t).who = t /\ From(t)' = From(t)
        BY <1>0 DEF KeyLock, From, inputs
      <4>3. AccountLock(t, From(t), "no_key_update").who = t
        BY DEF AccountLock
      <4>4. AccountLock(t, From(t), "no_key_update")' = AccountLock(t, From(t), "no_key_update")
        BY <4>2 DEF AccountLock
      <4>5. \A l \in locks : l.who = t => l \in locks'
        BY <1>1, <3>2 DEF Locks
      <4> QED
        BY <4>1, <4>2, <4>3, <4>4, <4>5 DEF LockInv, KeyHeld, ResetHeld
    <3> QED
      BY <3>1, <3>2
  <2> QED
    BY <2>1, <2>2 DEF LockInv
<1>2. CASE UNCHANGED <<pc, locks, resetting>>
  BY <1>0, <1>2 DEF LockInv, NoConflicts, KeyHeld, ResetHeld, KeyLock, AccountLock, From, inputs
<1>3. ASSUME NEW t \in Transfers, \/ Authenticate(t) \/ TransferStep(t) \/ InternalError(t)
                                  \/ Crash(t) \/ DeadlockedTransfer(t)
      PROVE  Locks(t)
  BY <1>0, <1>3, TransferLocks
<1>4. ASSUME NEW d \in Decisions, \/ ReadCase(d) \/ DecisionStep(d)
                                  \/ AbandonDecision(d) \/ DeadlockedDecision(d)
      PROVE  Locks(d)
  BY <1>4, OtherLocks, DistinctAssumption
<1>5. ASSUME NEW e \in Errands, LoadAccount(e) \/ SetStatus(e) \/ AbandonErrand(e)
      PROVE  Locks(e)
  BY <1>5, OtherLocks, DistinctAssumption
<1>6. CASE (\E c \in Confirmations : ExpireConfirmation(c)) \/ Midnight \/ UNCHANGED vars
  BY <1>2, <1>6 DEF ExpireConfirmation, Midnight, vars, locals
<1> QED
  BY <1>1, <1>3, <1>4, <1>5, <1>6 DEF Next, Terminated

LEMMA LocksAlways == Spec => []LockInv
<1>1. Init => LockInv
  BY DEF Init, LockInv, NoConflicts, KeyHeld, ResetHeld, Nested
<1>2. TypeOK /\ Phases /\ LockInv /\ [Next]_vars => LockInv'
  BY LockInvStep
<1> QED
  BY <1>1, <1>2, TypeCorrect, PTL DEF Spec

(* A lock that is held shuts out every lock it conflicts with. *)
LEMMA HeldIsGrantable ==
    ASSUME TypeOK, LockInv, NEW a \in Actors, NEW x \in Accounts, NEW mode \in {"no_key_update", "update"},
           AccountLock(a, x, mode) \in locks
    PROVE  Grantable(AccountLock(a, x, "no_key_update"))
<1> SUFFICES ASSUME NEW held \in locks, Blocks(held, AccountLock(a, x, "no_key_update"))
             PROVE  FALSE
  BY DEF Grantable
<1>1. Blocks(held, AccountLock(a, x, mode))
  BY DEF Blocks, AccountLock, ConflictsWith, LockModes
<1> QED
  BY <1>1 DEF LockInv, NoConflicts

(* Who writes bank_accounts, and under which lock. *)
Writes(a, x) == /\ pc'[a] # pc[a]
                /\ Grantable(AccountLock(a, x, "no_key_update"))

LEMMA GuardedWrites ==
    ASSUME TypeOK, Phases, LockInv, [Next]_vars, NEW x \in Accounts, accounts'[x] # accounts[x]
    PROVE  \E a \in Actors : Writes(a, x)
<1>1. ASSUME NEW t \in Transfers, Complete(t) PROVE Writes(t, x)
  <2>1. Posted(t) /\ pc[t] = "booking" /\ pc'[t] = "created"
    BY <1>1 DEF Complete, ReadyToCommit, CommitTransaction, Goto, Phases, TransferAt,
                CheckedPhases, TypeOK
  <2>2. x \in Parties(t)
    <3>1. Parties(t) = {From(t), To(t)}
      BY <2>1, PostedParties
    <3> QED
      BY <1>1, <3>1 DEF Complete, TypeOK
  <2>3. AccountLock(t, x, "update") \in locks
    <3>1. PartyLocks(t, "update") \subseteq locks
      BY <1>1 DEF Complete, ReadyToCommit, WantedLocks, Inserted
    <3> QED
      BY <2>2, <3>1 DEF PartyLocks
  <2> QED
    BY <2>1, <2>3, HeldIsGrantable DEF Writes
<1>2. ASSUME NEW t \in Transfers, QueueForReview(t) PROVE Writes(t, x)
  <2>1. pc[t] = "booking" /\ pc'[t] = "created"
    BY <1>2 DEF QueueForReview, ReadyToCommit, CommitTransaction, Goto, TypeOK
  <2>2. x = From(t) /\ t \in resetting
    BY <1>2 DEF QueueForReview, TypeOK
  <2>3. AccountLock(t, x, "no_key_update") \in locks
    BY <2>1, <2>2 DEF LockInv, ResetHeld
  <2> QED
    BY <2>1, <2>3, HeldIsGrantable DEF Writes
<1>3. ASSUME NEW d \in Decisions, ApproveTransfer(d) PROVE Writes(d, x)
  <2>1. Posted(Tx(d)) /\ Tx(d) \in Transfers /\ pc[d] = "approving" /\ pc'[d] = "decided"
    BY <1>3, RulingType DEF ApproveTransfer, Finish, Enter, Phases, DecisionAt, TypeOK
  <2>2. x \in Parties(Tx(d))
    <3>1. Parties(Tx(d)) = {From(Tx(d)), To(Tx(d))}
      BY <2>1, PostedParties
    <3> QED
      BY <1>3, <3>1 DEF ApproveTransfer, TypeOK
  <2>3. AccountLock(d, x, "update") \in locks
    BY <1>3, <2>2 DEF ApproveTransfer, ApprovalLocks
  <2> QED
    BY <2>1, <2>3, HeldIsGrantable DEF Writes
<1>4. ASSUME NEW d \in Decisions, FreezeSender(d) PROVE Writes(d, x)
  <2>1. pc[d] = "reading" /\ pc'[d] = "decided"
    BY <1>4 DEF FreezeSender, HasRead, Finish, Enter, TypeOK
  <2>2. x = From(Tx(d)) /\ Grantable(AccountLock(d, x, "no_key_update"))
    BY <1>4 DEF FreezeSender, TypeOK
  <2> QED
    BY <2>1, <2>2 DEF Writes
<1>5. ASSUME NEW e \in Errands, SetStatus(e) PROVE Writes(e, x)
  <2>1. pc[e] = "loaded" /\ pc'[e] = "decided"
    BY <1>5 DEF SetStatus, Proceed, TypeOK
  <2>2. x = Target(e) /\ Grantable(AccountLock(e, x, "no_key_update"))
    BY <1>5 DEF SetStatus, TypeOK
  <2> QED
    BY <2>1, <2>2 DEF Writes
<1>6. ASSUME NEW t \in Transfers,
             \/ Authenticate(t) \/ RefuseKey(t) \/ Replay(t) \/ UseKey(t) \/ InsertKey(t)
             \/ LoseInsertRace(t) \/ ReclaimKey(t) \/ RefuseDraft(t) \/ Validate(t)
             \/ Score(t) \/ ScoreFails(t) \/ CheckConfirmation(t) \/ RefuseConfirmation(t)
             \/ ConsumeConfirmation(t) \/ TakeLock(t) \/ RefuseOverdraft(t)
             \/ MarkKeyFailed(t) \/ InternalError(t) \/ DeadlockedTransfer(t) \/ Crash(t)
      PROVE  FALSE
  BY <1>6 DEF Authenticate, RefuseKey, Replay, Answer, UseKey, InsertKey, LoseInsertRace,
       ReclaimKey, RefuseDraft, Validate, Score, ScoreFails, CheckConfirmation,
       RefuseConfirmation, ConsumeConfirmation, TakeLock, RefuseOverdraft, MarkKeyFailed,
       InternalError, DeadlockedTransfer, Fail, Crash, rows
<1>7. ASSUME NEW d \in Decisions,
             \/ ReadCase(d) \/ ReadTransaction(d) \/ ReadParty(d) \/ RejectTransfer(d)
             \/ RefuseApproval(d) \/ BeginApproval(d) \/ TakeApprovalLock(d)
             \/ RefuseOverdrawnApproval(d) \/ AbandonDecision(d) \/ DeadlockedDecision(d)
      PROVE  FALSE
  BY <1>7 DEF ReadCase, ReadTransaction, ReadParty, RejectTransfer, RefuseApproval,
       BeginApproval, TakeApprovalLock, RefuseOverdrawnApproval, AbandonDecision,
       DeadlockedDecision, rows
<1>8. ASSUME NEW e \in Errands, LoadAccount(e) \/ AbandonErrand(e)
      PROVE  FALSE
  BY <1>8 DEF LoadAccount, AbandonErrand, rows
<1>9. CASE (\E c \in Confirmations : ExpireConfirmation(c)) \/ Midnight \/ UNCHANGED vars
  BY <1>9 DEF ExpireConfirmation, Midnight, vars, rows
<1> QED
  BY <1>1, <1>2, <1>3, <1>4, <1>5, <1>6, <1>7, <1>8, <1>9
     DEF Next, TransferStep, DecisionStep, Terminated

(* Whatever requests overlap, a row of bank_accounts never changes under a    *)
(* conflicting lock of another request.                                     *)
THEOREM AccountsChangeUnderLock == Spec => ExclusiveWrites
<1> DEFINE Guarded == \A x \in Accounts : accounts'[x] # accounts[x] =>
                          \E a \in Actors :
                              /\ pc'[a] # pc[a]
                              /\ Grantable(AccountLock(a, x, "no_key_update"))
<1>1. TypeOK /\ Phases /\ LockInv /\ [Next]_vars => [Guarded]_vars
  BY GuardedWrites DEF Writes
<1> HIDE DEF Guarded
<1>2. Spec => [][Guarded]_vars
  BY <1>1, TypeCorrect, LocksAlways, PTL DEF Spec
<1> QED
  BY <1>2 DEF ExclusiveWrites, Guarded
=============================================================================
