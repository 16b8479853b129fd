---------------------------- MODULE BankingProofs ----------------------------
(***************************************************************************)
(* Theorems of the money core, for every number of users, accounts,         *)
(* requests, keys, confirmations and days.                                  *)
(***************************************************************************)
EXTENDS Banking, TLAPS

USE DEF Actors

-----------------------------------------------------------------------------
(* Type correctness. *)

LEMMA RequestType ==
    ASSUME TypeOK, NEW t \in Transfers
    PROVE  /\ From(t) \in Accounts
           /\ To(t) \in Accounts \cup {NoAccount}
           /\ Amount(t) \in Nat \ {0}
           /\ request[t].user \in Users
           /\ request[t].key \in KeyNames \cup {NoKey}
           /\ request[t].confirmation \in Confirmations \cup {NoConfirmation}
           /\ Parties(t) \subseteq Accounts
BY PayloadAssumption DEF TypeOK, From, To, Amount, Parties

LEMMA OpenedType == OpenedAccounts \in [Accounts -> AccountRow]
BY AccountAssumption, BoundAssumption
   DEF OpenedAccounts, OpenedAccount, AccountRow, Days

(* What a handler has already established when it reaches a label: TypeOK is  *)
(* inductive only together with it, because a lock on a key or on a          *)
(* recipient is only typed when the request has one.                        *)
KeyPhases     == {"inserting", "reclaiming", "failing"} \cup Nested
CheckedPhases == {"scoring", "confirming", "consuming", "booking"}
Posted(t)     == /\ To(t) \in Accounts
                 /\ From(t) # To(t)

TransferAt(t, label, mine) ==
    /\ label \in KeyPhases => request[t].key \in KeyNames
    /\ label \in CheckedPhases => Posted(t) /\ Parties(t) \subseteq mine
    /\ label \in {"consuming", "booking"} => request[t].confirmation \in Confirmations
    /\ label \notin {"reading", "approving", "loaded", "decided"}
DecisionAt(d, label, mine) ==
    /\ label \in {"unsent", "reading", "approving"} \cup Closed
    /\ label \in {"reading", "approving"} => cases[Tx(d)] # "none"
    /\ label = "approving" => Parties(Tx(d)) \subseteq mine
ErrandAt(e, label, mine) ==
    /\ label \in {"unsent", "loaded"} \cup Closed
    /\ label = "loaded" => Target(e) \in mine

Phases ==
    /\ \A t \in Transfers : TransferAt(t, pc[t], loaded[t])
    /\ \A d \in Decisions : DecisionAt(d, pc[d], loaded[d])
    /\ \A e \in Errands : ErrandAt(e, pc[e], loaded[e])
    /\ \A t \in Transfers : cases[t] # "none" => Posted(t)

LEMMA InitType == Init => TypeOK
<1> SUFFICES ASSUME Init PROVE TypeOK
  OBVIOUS
<1>1. accounts \in [Accounts -> AccountRow] /\ copy \in [Actors -> [Accounts -> AccountRow]]
  BY OpenedType DEF Init
<1>2. keys \in [Keys -> KeyRow]
  BY DEF Init, KeyRow
<1>3. day \in Days /\ spent \in [Accounts -> [Days -> Nat]]
  BY BoundAssumption DEF Init, Days
<1> QED
  BY <1>1, <1>2, <1>3 DEF Init, TypeOK, TxStatus, CaseStatus, Labels

LEMMA SelectType ==
    ASSUME TypeOK, NEW a \in Actors, NEW xs \in SUBSET Accounts, Select(a, xs)
    PROVE  loaded' \in [Actors -> SUBSET Accounts] /\ copy' \in [Actors -> [Accounts -> AccountRow]]
BY DEF TypeOK, Select, View

LEMMA CloseType ==
    ASSUME TypeOK, NEW a \in Actors, CloseSession(a)
    PROVE  loaded' \in [Actors -> SUBSET Accounts] /\ copy' \in [Actors -> [Accounts -> AccountRow]]
BY OpenedType DEF TypeOK, CloseSession

LEMMA ReleaseType ==
    ASSUME TypeOK, NEW a, Release(a) \/ ReleaseSavepoint(a)
    PROVE  locks' \subseteq [who: Actors, row: LockRows, mode: LockModes]
BY DEF TypeOK, Release, ReleaseSavepoint

LEMMA FailType ==
    ASSUME TypeOK, NEW t \in Transfers, Fail(t)
    PROVE  TypeOK'
<1>1. loaded' \in [Actors -> SUBSET Accounts] /\ copy' \in [Actors -> [Accounts -> AccountRow]]
  BY CloseType DEF Fail
<1>2. locks' \subseteq [who: Actors, row: LockRows, mode: LockModes]
  BY ReleaseType DEF Fail
<1> QED
  BY <1>1, <1>2 DEF TypeOK, Fail, Goto, Labels, Nested, Closed, rows, inputs, ghosts

LEMMA AnswerType ==
    ASSUME TypeOK, NEW t \in Transfers, NEW label \in Closed,
           NEW tx \in Transfers \cup {NoTransfer}, Answer(t, label, tx)
    PROVE  TypeOK'
<1>1. loaded' \in [Actors -> SUBSET Accounts] /\ copy' \in [Actors -> [Accounts -> AccountRow]]
  BY CloseType DEF Answer
<1> QED
  BY <1>1 DEF TypeOK, Answer, Goto, Labels, rows, inputs, ghosts

LEMMA KeyType ==
    ASSUME TypeOK, NEW t \in Transfers, request[t].key \in KeyNames
    PROVE  KeyOf(t) \in Keys /\ keys[KeyOf(t)] \in KeyRow
BY RequestType DEF KeyOf, Keys, TypeOK

LEMMA LockType ==
    ASSUME TypeOK, NEW a \in Actors, NEW x \in Accounts, NEW mode \in LockModes
    PROVE  AccountLock(a, x, mode) \in [who: Actors, row: LockRows, mode: LockModes]
BY DEF AccountLock, LockRows

LEMMA KeyLockType ==
    ASSUME TypeOK, NEW t \in Transfers, request[t].key \in KeyNames
    PROVE  KeyLock(t) \in [who: Actors, row: LockRows, mode: LockModes]
BY RequestType DEF KeyLock, LockRows, LockModes, Keys

LEMMA ConsumeLockType ==
    ASSUME TypeOK, NEW t \in Transfers, request[t].confirmation \in Confirmations
    PROVE  ConsumeLocks(t) \subseteq [who: Actors, row: LockRows, mode: LockModes]
<1>1. ConfirmationLock(t) \in [who: Actors, row: LockRows, mode: LockModes]
  BY DEF ConfirmationLock, LockRows, LockModes
<1>2. AccountLock(t, From(t), "no_key_update") \in [who: Actors, row: LockRows, mode: LockModes]
  BY RequestType, LockType DEF LockModes
<1> QED
  BY <1>1, <1>2 DEF ConsumeLocks

LEMMA WantedLockType ==
    ASSUME TypeOK, NEW t \in Transfers
    PROVE  WantedLocks(t) \subseteq [who: Actors, row: LockRows, mode: LockModes]
<1>1. \A mode \in LockModes :
        PartyLocks(t, mode) \subseteq [who: Actors, row: LockRows, mode: LockModes]
  BY RequestType, LockType DEF PartyLocks
<1> QED
  BY <1>1 DEF WantedLocks, LockModes

(* The rows written by a commit are rows. *)
LEMMA CommitType ==
    ASSUME TypeOK, NEW t \in Transfers, NEW status \in TxStatus,
           request[t].key \in KeyNames, CommitTransaction(t, status)
    PROVE  /\ txs' \in [Transfers -> TxStatus]
           /\ keys' \in [Keys -> KeyRow]
           /\ confirmations' \in [Confirmations -> {"live", "spent", "expired"}]
           /\ locks' \subseteq [who: Actors, row: LockRows, mode: LockModes]
           /\ loaded' \in [Actors -> SUBSET Accounts]
           /\ copy' \in [Actors -> [Accounts -> AccountRow]]
           /\ resetting' \subseteq Transfers
           /\ risk' \in [Transfers -> {"unknown", "allow", "review"}]
           /\ reply' \in [Transfers -> Transfers \cup {NoTransfer}]
           /\ pc' \in [Actors -> Labels]
<1>1. CompletedKey(keys[KeyOf(t)], t) \in KeyRow
  BY KeyType DEF CompletedKey, KeyRow
<1>2. keys' \in [Keys -> KeyRow]
  BY <1>1, KeyType DEF CommitTransaction, TypeOK
<1>3. confirmations' \in [Confirmations -> {"live", "spent", "expired"}]
  BY DEF CommitTransaction, SpentConfirmations, TypeOK
<1>4. /\ locks' \subseteq [who: Actors, row: LockRows, mode: LockModes]
      /\ loaded' \in [Actors -> SUBSET Accounts]
      /\ copy' \in [Actors -> [Accounts -> AccountRow]]
  BY CloseType, ReleaseType DEF CommitTransaction
<1>5. /\ txs' \in [Transfers -> TxStatus]
      /\ resetting' \subseteq Transfers
      /\ risk' \in [Transfers -> {"unknown", "allow", "review"}]
      /\ reply' \in [Transfers -> Transfers \cup {NoTransfer}]
      /\ pc' \in [Actors -> Labels]
  BY DEF CommitTransaction, TypeOK, Goto, Labels, Closed
<1> QED
  BY <1>2, <1>3, <1>4, <1>5

LEMMA PostingType ==
    ASSUME TypeOK, NEW t \in Transfers, NEW d \in Days, Posted(t), RecordPosting(t, d)
    PROVE  /\ moved' \in [Accounts -> Int]
           /\ applied' \in [Transfers -> Nat]
           /\ spent' \in [Accounts -> [Days -> Nat]]
BY RequestType DEF TypeOK, RecordPosting, Posted

LEMMA RowType ==
    ASSUME NEW stored \in AccountRow, NEW mine \in AccountRow, NEW amount \in Int,
           NEW date \in Days
    PROVE  /\ Debited(stored, mine, amount, date) \in AccountRow
           /\ Credited(stored, mine, amount) \in AccountRow
           /\ ResetRow(stored, date) \in AccountRow
BY DEF Debited, Credited, ResetRow, AccountRow

LEMMA TransferStepType ==
    ASSUME TypeOK, Phases, NEW t \in Transfers,
           \/ Authenticate(t) \/ TransferStep(t) \/ InternalError(t)
           \/ Crash(t) \/ DeadlockedTransfer(t)
    PROVE  TypeOK'
<1> USE DEF Goto, Labels, Nested, Closed, inputs, locals, ghosts, sessions, rows
<1>1. CASE Authenticate(t)
  <2>1. AccountsOfUser(request[t].user) \in SUBSET Accounts
    BY RequestType DEF AccountsOfUser, Parties
  <2>2. Select(t, AccountsOfUser(request[t].user))
    BY <1>1 DEF Authenticate
  <2>3. loaded' \in [Actors -> SUBSET Accounts] /\ copy' \in [Actors -> [Accounts -> AccountRow]]
    BY <2>1, <2>2, SelectType
  <2> QED
    BY <1>1, <2>3 DEF TypeOK, Authenticate
<1>2. CASE RefuseKey(t)
  BY <1>2, AnswerType DEF RefuseKey
<1>3. CASE Replay(t)
  <2>1. keys[KeyOf(t)].resource \in Transfers \cup {NoTransfer}
    BY <1>3, RequestType, KeyType DEF Replay, CanReplay, KeyRow
  <2> QED
    BY <1>3, <2>1, AnswerType DEF Replay
<1>4. CASE UseKey(t)
  BY <1>4 DEF UseKey, TypeOK
<1>5. ASSUME pc[t] \in {"inserting", "reclaiming"}, locks' = locks \cup {KeyLock(t)},
             Goto(t, "validating"),
             UNCHANGED <<rows, day, inputs, sessions, locals, ghosts>>
      PROVE  TypeOK'
  <2>1. KeyLock(t) \in [who: Actors, row: LockRows, mode: LockModes]
    BY <1>5, KeyLockType DEF Phases, TransferAt, KeyPhases
  <2>2. locks' \subseteq [who: Actors, row: LockRows, mode: LockModes]
    BY <1>5, <2>1 DEF TypeOK
  <2>3. pc' \in [Actors -> Labels]
    BY <1>5 DEF TypeOK
  <2> QED
    BY <1>5, <2>2, <2>3 DEF TypeOK
<1>6. CASE LoseInsertRace(t)
  BY <1>6, AnswerType DEF LoseInsertRace
<1>7. CASE Validate(t)
  <2>1. /\ View(t, From(t)) \in AccountRow
        /\ To(t) \in Accounts
        /\ View(t, To(t)) \in AccountRow
    BY <1>7, RequestType DEF Validate, Accepts, View, TypeOK
  <2>2. Today(View(t, From(t))) \in AccountRow
    BY <2>1, RowType DEF Today, TypeOK
  <2>3. copy' \in [Actors -> [Accounts -> AccountRow]]
    BY <1>7, <2>1, <2>2, RequestType DEF Validate, TypeOK
  <2>4. loaded' \in [Actors -> SUBSET Accounts] /\ resetting' \subseteq Transfers
    BY <1>7, RequestType DEF Validate, TypeOK
  <2> QED
    BY <1>7, <2>3, <2>4 DEF Validate, TypeOK
<1>8. CASE Score(t)
  BY <1>8 DEF Score, TypeOK
<1>9. CASE CheckConfirmation(t)
  BY <1>9 DEF CheckConfirmation, TypeOK
<1>10. CASE ConsumeConfirmation(t)
  <2>1. ConsumeLocks(t) \subseteq [who: Actors, row: LockRows, mode: LockModes]
    BY <1>10, ConsumeLockType DEF ConsumeConfirmation, Phases, TransferAt
  <2> QED
    BY <1>10, <2>1 DEF ConsumeConfirmation, TypeOK
<1>11. CASE TakeLock(t)
  <2>1. locks' \subseteq [who: Actors, row: LockRows, mode: LockModes]
    BY <1>11, WantedLockType DEF TakeLock, TypeOK
  <2> QED
    BY <1>11, <2>1 DEF TakeLock, TypeOK
<1>12. CASE QueueForReview(t)
  <2>1. request[t].key \in KeyNames
    BY <1>12 DEF QueueForReview, ReadyToCommit, Phases, TransferAt, KeyPhases
  <2>2. ResetDay(t) \in Days
    BY RequestType DEF ResetDay, TypeOK, AccountRow
  <2>3. accounts' \in [Accounts -> AccountRow]
    BY <1>12, <2>2, RequestType, RowType DEF QueueForReview, TypeOK
  <2>4. cases' \in [Transfers -> CaseStatus]
    BY <1>12 DEF QueueForReview, TypeOK, CaseStatus
  <2>5. CommitTransaction(t, "pending_review")
    BY <1>12 DEF QueueForReview
  <2>6. "pending_review" \in TxStatus
    BY DEF TxStatus
  <2> QED
    BY <1>12, <2>1, <2>3, <2>4, <2>5, <2>6, CommitType DEF QueueForReview, TypeOK
<1>13. CASE Complete(t)
  <2>1. request[t].key \in KeyNames /\ Posted(t)
    BY <1>13 DEF Complete, ReadyToCommit, Phases, TransferAt, KeyPhases, CheckedPhases
  <2>2. ResetDay(t) \in Days
    BY RequestType DEF ResetDay, TypeOK, AccountRow
  <2>3. accounts' \in [Accounts -> AccountRow]
    <3>1. /\ accounts[From(t)] \in AccountRow /\ copy[t][From(t)] \in AccountRow
          /\ accounts[To(t)] \in AccountRow /\ copy[t][To(t)] \in AccountRow
      BY <2>1, RequestType DEF TypeOK, Posted
    <3>2. Amount(t) \in Int
      BY RequestType
    <3>3. Debited(accounts[From(t)], copy[t][From(t)], Amount(t), ResetDay(t)) \in AccountRow
      BY <3>1, <3>2, <2>2, RowType
    <3>4. Credited(accounts[To(t)], copy[t][To(t)], Amount(t)) \in AccountRow
      BY <3>1, <3>2, <2>2, RowType
    <3> QED
      BY <1>13, <2>1, <3>3, <3>4, RequestType DEF Complete, Posted, TypeOK
  <2>4. copy[t][From(t)].resetDay \in Days
    BY RequestType DEF TypeOK, AccountRow
  <2>5. CommitTransaction(t, "completed") /\ RecordPosting(t, copy[t][From(t)].resetDay)
    BY <1>13 DEF Complete
  <2>6. "completed" \in TxStatus
    BY DEF TxStatus
  <2>7. /\ moved' \in [Accounts -> Int]
        /\ applied' \in [Transfers -> Nat]
        /\ spent' \in [Accounts -> [Days -> Nat]]
    BY <2>1, <2>4, <2>5, PostingType
  <2> QED
    BY <1>13, <2>1, <2>3, <2>5, <2>6, <2>7, CommitType DEF Complete, TypeOK
<1>14. CASE MarkKeyFailed(t)
  <2>1. request[t].key \in KeyNames
    BY <1>14 DEF MarkKeyFailed, Phases, TransferAt, KeyPhases
  <2>2. FailedKey(keys[KeyOf(t)], t) \in KeyRow
    BY <2>1, KeyType DEF FailedKey, KeyRow
  <2>3. keys' \in [Keys -> KeyRow]
    BY <1>14, <2>2 DEF MarkKeyFailed, TypeOK
  <2>4. locks' \subseteq [who: Actors, row: LockRows, mode: LockModes]
    BY <1>14, ReleaseType DEF MarkKeyFailed
  <2> QED
    BY <1>14, <2>3, <2>4 DEF MarkKeyFailed, TypeOK
<1>15. CASE Crash(t)
  <2>1. /\ locks' \subseteq [who: Actors, row: LockRows, mode: LockModes]
        /\ loaded' \in [Actors -> SUBSET Accounts]
        /\ copy' \in [Actors -> [Accounts -> AccountRow]]
    BY <1>15, ReleaseType, CloseType DEF Crash
  <2> QED
    BY <1>15, <2>1 DEF Crash, TypeOK
<1>16. CASE \/ RefuseDraft(t) \/ ScoreFails(t) \/ RefuseConfirmation(t)
            \/ RefuseOverdraft(t) \/ InternalError(t) \/ DeadlockedTransfer(t)
  BY <1>16, FailType DEF RefuseDraft, ScoreFails, RefuseConfirmation, RefuseOverdraft,
                         InternalError, DeadlockedTransfer
<1>17. CASE InsertKey(t)
  BY <1>5, <1>17 DEF InsertKey
<1>18. CASE ReclaimKey(t)
  BY <1>5, <1>18 DEF ReclaimKey
<1> QED
  BY <1>1, <1>2, <1>3, <1>4, <1>6, <1>7, <1>8, <1>9, <1>10, <1>11, <1>12, <1>13,
     <1>14, <1>15, <1>16, <1>17, <1>18 DEF TransferStep

LEMMA StatusType ==
    ASSUME NEW row \in AccountRow, NEW status \in {"active", "frozen"}
    PROVE  [row EXCEPT !.status = status] \in AccountRow
BY DEF AccountRow

LEMMA RulingType ==
    ASSUME TypeOK, NEW d \in Decisions
    PROVE  Tx(d) \in Transfers /\ ruling[d].verdict \in Verdicts
BY DEF TypeOK, Tx

LEMMA FinishType ==
    ASSUME TypeOK, NEW d \in Decisions, NEW label \in Closed, Finish(d, label),
           accounts' \in [Accounts -> AccountRow], txs' \in [Transfers -> TxStatus],
           cases' \in [Transfers -> CaseStatus], moved' \in [Accounts -> Int],
           applied' \in [Transfers -> Nat], spent' \in [Accounts -> [Days -> Nat]]
    PROVE  TypeOK'
<1>1. /\ locks' \subseteq [who: Actors, row: LockRows, mode: LockModes]
      /\ loaded' \in [Actors -> SUBSET Accounts]
      /\ copy' \in [Actors -> [Accounts -> AccountRow]]
  BY ReleaseType, CloseType DEF Finish
<1> QED
  BY <1>1 DEF TypeOK, Finish, Enter, Labels, Closed, inputs, TxStatus

LEMMA DecisionStepType ==
    ASSUME TypeOK, Phases, NEW d \in Decisions,
           ReadCase(d) \/ DecisionStep(d) \/ AbandonDecision(d) \/ DeadlockedDecision(d)
    PROVE  TypeOK'
<1> USE DEF Enter, Labels, Closed, inputs, locals, ghosts, sessions, rows
<1>1. CASE ReadCase(d)
  BY <1>1 DEF ReadCase, TypeOK
<1>11. CASE BeginApproval(d)
  BY <1>11 DEF BeginApproval, TypeOK
<1>2. CASE ReadTransaction(d)
  BY <1>2, RulingType DEF ReadTransaction, TypeOK
<1>3. CASE ReadParty(d)
  <2>1. PICK x \in Parties(Tx(d)) \ loaded[d] : Select(d, {x})
    BY <1>3 DEF ReadParty
  <2>2. {x} \in SUBSET Accounts
    BY RulingType, RequestType
  <2>3. loaded' \in [Actors -> SUBSET Accounts] /\ copy' \in [Actors -> [Accounts -> AccountRow]]
    BY <2>1, <2>2, SelectType
  <2> QED
    BY <1>3, <2>3 DEF ReadParty, TypeOK
<1>4. CASE RejectTransfer(d)
  <2>1. txs' \in [Transfers -> TxStatus] /\ cases' \in [Transfers -> CaseStatus]
    BY <1>4, RulingType DEF RejectTransfer, FailTransaction, ResolveCase, TypeOK, TxStatus,
                            CaseStatus
  <2> QED
    BY <1>4, <2>1, FinishType DEF RejectTransfer, TypeOK
<1>5. CASE FreezeSender(d)
  <2>1. txs' \in [Transfers -> TxStatus] /\ cases' \in [Transfers -> CaseStatus]
    BY <1>5, RulingType DEF FreezeSender, FailTransaction, ResolveCase, TypeOK, TxStatus,
                            CaseStatus
  <2>2. From(Tx(d)) \in Accounts
    BY RulingType, RequestType
  <2>3. [accounts[From(Tx(d))] EXCEPT !.status = "frozen"] \in AccountRow
    BY <2>2, StatusType DEF TypeOK
  <2>4. accounts' \in [Accounts -> AccountRow]
    BY <1>5, <2>2, <2>3 DEF FreezeSender, TypeOK
  <2> QED
    BY <1>5, <2>1, <2>4, FinishType DEF FreezeSender, TypeOK
<1>6. CASE RefuseApproval(d)
  BY <1>6, FinishType DEF RefuseApproval, TypeOK
<1>7. CASE RefuseOverdrawnApproval(d)
  BY <1>7, FinishType DEF RefuseOverdrawnApproval, TypeOK
<1>8. CASE AbandonDecision(d) \/ DeadlockedDecision(d)
  BY <1>8, FinishType DEF AbandonDecision, DeadlockedDecision, TypeOK
<1>9. CASE TakeApprovalLock(d)
  <2>1. ApprovalLocks(d) \subseteq [who: Actors, row: LockRows, mode: LockModes]
    BY RulingType, RequestType, LockType DEF ApprovalLocks, LockModes
  <2>2. locks' \subseteq [who: Actors, row: LockRows, mode: LockModes]
    BY <1>9, <2>1 DEF TakeApprovalLock, TypeOK
  <2> QED
    BY <1>9, <2>2 DEF TakeApprovalLock, TypeOK
<1>10. CASE ApproveTransfer(d)
  <2> DEFINE t == Tx(d)
  <2>1. t \in Transfers /\ Posted(t) /\ From(t) \in Accounts /\ Amount(t) \in Int
    BY <1>10, RulingType, RequestType DEF ApproveTransfer, Phases, DecisionAt
  <2> HIDE DEF t
  <2>2. /\ accounts[From(t)] \in AccountRow /\ copy[d][From(t)] \in AccountRow
        /\ accounts[To(t)] \in AccountRow /\ copy[d][To(t)] \in AccountRow
        /\ accounts[From(t)].resetDay \in Days
    BY <2>1 DEF TypeOK, Posted, AccountRow
  <2>3. /\ Debited(accounts[From(t)], copy[d][From(t)], Amount(t), accounts[From(t)].resetDay)
             \in AccountRow
        /\ Credited(accounts[To(t)], copy[d][To(t)], Amount(t)) \in AccountRow
    BY <2>1, <2>2, RowType
  <2>4. /\ Finish(d, "decided")
        /\ RecordPosting(t, day)
        /\ txs' = [txs EXCEPT ![t] = "completed"]
        /\ cases' = [cases EXCEPT ![t] = "resolved"]
        /\ accounts' =
             [accounts EXCEPT
                ![From(t)] = Debited(@, copy[d][From(t)], Amount(t), accounts[From(t)].resetDay),
                ![To(t)] = Credited(@, copy[d][To(t)], Amount(t))]
    BY <1>10 DEF ApproveTransfer, ResolveCase, t
  <2>5. accounts' \in [Accounts -> AccountRow]
    BY <2>1, <2>3, <2>4 DEF Posted, TypeOK
  <2>6. txs' \in [Transfers -> TxStatus] /\ cases' \in [Transfers -> CaseStatus]
    BY <2>1, <2>4 DEF TypeOK, TxStatus, CaseStatus
  <2>7. /\ moved' \in [Accounts -> Int]
        /\ applied' \in [Transfers -> Nat]
        /\ spent' \in [Accounts -> [Days -> Nat]]
    BY <2>1, <2>4, PostingType DEF TypeOK
  <2> QED
    BY <2>4, <2>5, <2>6, <2>7, FinishType
<1> QED
  BY <1>1, <1>2, <1>3, <1>4, <1>5, <1>6, <1>7, <1>8, <1>9, <1>10, <1>11
     DEF DecisionStep

LEMMA ErrandStepType ==
    ASSUME TypeOK, NEW e \in Errands, LoadAccount(e) \/ SetStatus(e) \/ AbandonErrand(e)
    PROVE  TypeOK'
<1> USE DEF Proceed, Labels, Closed, inputs, locals, ghosts, rows
<1>1. Target(e) \in Accounts /\ errand[e].status \in {"active", "frozen"}
  BY DEF TypeOK, Target
<1>2. loaded' \in [Actors -> SUBSET Accounts] /\ copy' \in [Actors -> [Accounts -> AccountRow]]
  <2>1. CASE LoadAccount(e)
    BY <1>1, <2>1, SelectType DEF LoadAccount
  <2>2. CASE SetStatus(e) \/ AbandonErrand(e)
    BY <2>2, CloseType DEF SetStatus, AbandonErrand
  <2> QED
    BY <2>1, <2>2
<1>3. CASE SetStatus(e)
  <2>1. accounts' \in [Accounts -> AccountRow]
    <3>1. [accounts[Target(e)] EXCEPT !.status = errand[e].status] \in AccountRow
      BY <1>1, StatusType DEF TypeOK
    <3> QED
      BY <1>1, <1>3, <3>1 DEF SetStatus, TypeOK
  <2> QED
    BY <1>2, <1>3, <2>1 DEF SetStatus, TypeOK
<1>4. CASE LoadAccount(e)
  BY <1>2, <1>4 DEF LoadAccount, TypeOK
<1>5. CASE AbandonErrand(e)
  BY <1>2, <1>5 DEF AbandonErrand, TypeOK
<1> QED
  BY <1>3, <1>4, <1>5

LEMMA EnvironmentType ==
    ASSUME TypeOK, (\E c \in Confirmations : ExpireConfirmation(c)) \/ Midnight
                      \/ UNCHANGED vars
    PROVE  TypeOK'
<1> USE DEF rows, inputs, locals, ghosts, sessions
<1>1. CASE \E c \in Confirmations : ExpireConfirmation(c)
  BY <1>1 DEF ExpireConfirmation, TypeOK
<1>2. CASE Midnight
  <2>1. day' \in Days
    BY <1>2, BoundAssumption DEF Midnight, TypeOK, Days
  <2> QED
    BY <1>2, <2>1 DEF Midnight, TypeOK
<1>3. CASE UNCHANGED vars
  BY <1>3 DEF vars, TypeOK
<1> QED
  BY <1>1, <1>2, <1>3

-----------------------------------------------------------------------------
(* The phases of the handlers. *)

LEMMA InitPhases == Init => Phases
BY DEF Init, Phases, TransferAt, DecisionAt, ErrandAt, KeyPhases, CheckedPhases, Nested, Closed

(* A step moves the label of one actor and the accounts loaded by it.        *)
LEMMA PhasesFrame ==
    ASSUME TypeOK, Phases, NEW a \in Actors, NEW l,
           pc' = [pc EXCEPT ![a] = l], UNCHANGED inputs,
           \A b \in Actors : b # a => loaded'[b] = loaded[b],
           \A u \in Transfers : cases[u] # "none" => cases'[u] # "none",
           \A u \in Transfers : cases'[u] # "none" /\ cases[u] = "none" => Posted(u),
           a \in Transfers => TransferAt(a, l, loaded'[a]),
           a \in Decisions => DecisionAt(a, l, loaded'[a]),
           a \in Errands   => ErrandAt(a, l, loaded'[a])
    PROVE  Phases'
<1> USE DEF inputs
<1>0. /\ pc'[a] = l
      /\ \A b \in Actors : b # a => pc'[b] = pc[b]
  BY DEF TypeOK
<1>1. ASSUME NEW t \in Transfers PROVE Posted(t)' = Posted(t) /\ Parties(t)' = Parties(t)
  BY DEF Posted, Parties, From, To
<1>2. ASSUME NEW t \in Transfers PROVE TransferAt(t, pc[t], loaded[t])'
  BY <1>0, <1>1 DEF Phases, TransferAt
<1>3. ASSUME NEW d \in Decisions PROVE DecisionAt(d, pc[d], loaded[d])'
  <2>1. Tx(d)' = Tx(d) /\ Tx(d) \in Transfers
    BY RulingType DEF Tx
  <2>2. Parties(Tx(d))' = Parties(Tx(d))
    BY <2>1, <1>1
  <2> QED
    BY <1>0, <2>1, <2>2 DEF Phases, DecisionAt
<1>4. ASSUME NEW e \in Errands PROVE ErrandAt(e, pc[e], loaded[e])'
  BY <1>0 DEF Phases, ErrandAt, Target
<1>5. ASSUME NEW t \in Transfers, cases'[t] # "none" PROVE Posted(t)'
  BY <1>1, <1>5 DEF Phases
<1> QED
  BY <1>2, <1>3, <1>4, <1>5 DEF Phases

LEMMA CloseFrame ==
    ASSUME TypeOK, NEW a \in Actors, CloseSession(a)
    PROVE  \A b \in Actors : b # a => loaded'[b] = loaded[b]
BY DEF TypeOK, CloseSession

LEMMA SelectFrame ==
    ASSUME TypeOK, NEW a \in Actors, NEW xs, Select(a, xs)
    PROVE  /\ \A b \in Actors : b # a => loaded'[b] = loaded[b]
           /\ loaded'[a] = loaded[a] \cup xs
BY DEF TypeOK, Select

LEMMA FailPhases ==
    ASSUME TypeOK, Phases, NEW t \in Transfers, pc[t] \in Nested, Fail(t)
    PROVE  Phases'
<1>1. request[t].key \in KeyNames
  BY DEF Phases, TransferAt, KeyPhases
<1>2. TransferAt(t, "failing", loaded'[t])
  BY <1>1 DEF TransferAt, KeyPhases, CheckedPhases, Nested
<1>3. t \notin Decisions /\ t \notin Errands
  BY DistinctAssumption
<1> QED
  BY <1>2, <1>3, CloseFrame, PhasesFrame DEF Fail, Goto, rows

LEMMA TransferStepPhases ==
    ASSUME TypeOK, Phases, NEW t \in Transfers,
           \/ Authenticate(t) \/ TransferStep(t) \/ InternalError(t)
           \/ Crash(t) \/ DeadlockedTransfer(t)
    PROVE  Phases'
<1> USE DEF Goto, rows, sessions, KeyPhases, CheckedPhases
<1>0. /\ t \in Actors /\ t \notin Decisions /\ t \notin Errands
      /\ TransferAt(t, pc[t], loaded[t])
  BY DistinctAssumption DEF Phases
<1>1. CASE Authenticate(t)
  <2>1. TransferAt(t, "received", loaded'[t])
    BY DEF TransferAt, Nested
  <2>2. \A b \in Actors : b # t => loaded'[b] = loaded[b]
    BY <1>1, SelectFrame DEF Authenticate
  <2> QED
    BY <1>0, <1>1, <2>1, <2>2, PhasesFrame DEF Authenticate
<1>2. CASE RefuseKey(t) \/ Replay(t) \/ LoseInsertRace(t)
  <2>1. PICK l \in {"conflict", "replayed"} : \E tx : Answer(t, l, tx)
    BY <1>2 DEF RefuseKey, Replay, LoseInsertRace
  <2>2. TransferAt(t, l, loaded'[t])
    BY DEF TransferAt, Nested
  <2> QED
    BY <1>0, <2>1, <2>2, CloseFrame, PhasesFrame DEF Answer
<1>3. CASE UseKey(t)
  <2>1. PICK l \in {"inserting", "reclaiming"} : Goto(t, l)
    BY <1>3 DEF UseKey
  <2>2. request[t].key \in KeyNames
    BY <1>3, RequestType DEF UseKey
  <2>3. TransferAt(t, l, loaded'[t])
    BY <2>2 DEF TransferAt, Nested
  <2> QED
    BY <1>0, <1>3, <2>1, <2>3, PhasesFrame DEF UseKey
<1>4. CASE InsertKey(t) \/ ReclaimKey(t)
  <2>1. TransferAt(t, "validating", loaded'[t])
    BY <1>0, <1>4 DEF InsertKey, ReclaimKey, TransferAt, Nested
  <2>2. Goto(t, "validating") /\ UNCHANGED <<inputs, cases, loaded>>
    BY <1>4 DEF InsertKey, ReclaimKey
  <2> QED
    BY <1>0, <2>1, <2>2, PhasesFrame
<1>5. CASE Validate(t)
  <2>1. Posted(t) /\ Parties(t) \subseteq loaded'[t]
    BY <1>5, RequestType DEF Validate, Accepts, Posted, TypeOK
  <2>2. TransferAt(t, "scoring", loaded'[t])
    BY <1>0, <1>5, <2>1 DEF Validate, TransferAt, Nested
  <2>3. \A b \in Actors : b # t => loaded'[b] = loaded[b]
    BY <1>5 DEF Validate, TypeOK
  <2> QED
    BY <1>0, <1>5, <2>2, <2>3, PhasesFrame DEF Validate
<1>6. CASE Score(t)
  <2>1. TransferAt(t, "confirming", loaded'[t])
    BY <1>0, <1>6 DEF Score, TransferAt, Nested
  <2> QED
    BY <1>0, <1>6, <2>1, PhasesFrame DEF Score
<1>7. CASE CheckConfirmation(t)
  <2>1. request[t].confirmation \in Confirmations
    BY <1>7, RequestType DEF CheckConfirmation, Confirmed
  <2>2. TransferAt(t, "consuming", loaded'[t])
    BY <1>0, <1>7, <2>1 DEF CheckConfirmation, TransferAt, Nested
  <2> QED
    BY <1>0, <1>7, <2>2, PhasesFrame DEF CheckConfirmation
<1>8. CASE ConsumeConfirmation(t)
  <2>1. TransferAt(t, "booking", loaded'[t])
    BY <1>0, <1>8 DEF ConsumeConfirmation, TransferAt, Nested
  <2> QED
    BY <1>0, <1>8, <2>1, PhasesFrame DEF ConsumeConfirmation
<1>9. CASE TakeLock(t)
  BY <1>9 DEF TakeLock, Phases, TransferAt, DecisionAt, ErrandAt, Posted, Parties, From, To,
              Tx, Target, inputs
<1>10. CASE QueueForReview(t)
  <2>1. Posted(t)
    BY <1>0, <1>10 DEF QueueForReview, ReadyToCommit, TransferAt
  <2>2. TransferAt(t, "created", loaded'[t])
    BY DEF TransferAt, Nested
  <2>3. /\ \A u \in Transfers : cases[u] # "none" => cases'[u] # "none"
        /\ \A u \in Transfers : cases'[u] # "none" /\ cases[u] = "none" => Posted(u)
    BY <1>10, <2>1 DEF QueueForReview, TypeOK
  <2>4. /\ pc' = [pc EXCEPT ![t] = "created"] /\ UNCHANGED inputs
        /\ \A b \in Actors : b # t => loaded'[b] = loaded[b]
    BY <1>0, <1>10, CloseFrame DEF QueueForReview, CommitTransaction
  <2> QED
    BY <1>0, <2>2, <2>3, <2>4, PhasesFrame
<1>11. CASE Complete(t)
  <2>1. TransferAt(t, "created", loaded'[t])
    BY DEF TransferAt, Nested
  <2> QED
    BY <1>0, <1>11, <2>1, CloseFrame, PhasesFrame DEF Complete, CommitTransaction
<1>12. CASE MarkKeyFailed(t)
  <2>1. TransferAt(t, "refused", loaded'[t])
    BY DEF TransferAt, Nested
  <2> QED
    BY <1>0, <1>12, <2>1, PhasesFrame DEF MarkKeyFailed
<1>13. CASE Crash(t)
  <2>1. TransferAt(t, "lost", loaded'[t])
    BY DEF TransferAt, Nested
  <2> QED
    BY <1>0, <1>13, <2>1, CloseFrame, PhasesFrame DEF Crash
<1>14. CASE \/ RefuseDraft(t) \/ ScoreFails(t) \/ RefuseConfirmation(t)
            \/ RefuseOverdraft(t) \/ InternalError(t) \/ DeadlockedTransfer(t)
  <2>1. pc[t] \in Nested /\ Fail(t)
    BY <1>14 DEF RefuseDraft, ScoreFails, RefuseConfirmation, RefuseOverdraft, ReadyToCommit,
                 InternalError, DeadlockedTransfer, Nested
  <2> QED
    BY <2>1, FailPhases
<1> QED
  BY <1>1, <1>2, <1>3, <1>4, <1>5, <1>6, <1>7, <1>8, <1>9, <1>10, <1>11, <1>12, <1>13,
     <1>14 DEF TransferStep

LEMMA DecisionStepPhases ==
    ASSUME TypeOK, Phases, NEW d \in Decisions,
           ReadCase(d) \/ DecisionStep(d) \/ AbandonDecision(d) \/ DeadlockedDecision(d)
    PROVE  Phases'
<1> USE DEF Enter, rows, sessions
<1>0. /\ d \in Actors /\ d \notin Transfers /\ d \notin Errands
      /\ DecisionAt(d, pc[d], loaded[d])
      /\ Tx(d) \in Transfers /\ Tx(d)' = Tx(d)
  <2>1. UNCHANGED ruling
    BY DEF ReadCase, DecisionStep, AbandonDecision, DeadlockedDecision, ReadTransaction,
           ReadParty, RejectTransfer, FreezeSender, RefuseApproval, BeginApproval,
           TakeApprovalLock, ApproveTransfer, RefuseOverdrawnApproval, Finish, inputs
  <2> QED
    BY <2>1, DistinctAssumption, RulingType DEF Phases, Tx
<1>1. CASE ReadCase(d)
  <2>1. DecisionAt(d, "reading", loaded'[d])
    BY <1>0, <1>1 DEF ReadCase, DecisionAt
  <2> QED
    BY <1>0, <1>1, <2>1, PhasesFrame DEF ReadCase, DecisionAt
<1>2. CASE ReadTransaction(d) \/ TakeApprovalLock(d)
  BY <1>2 DEF ReadTransaction, TakeApprovalLock, Phases, TransferAt, DecisionAt, ErrandAt,
              Posted, Parties, From, To, Tx, Target, inputs
<1>3. CASE ReadParty(d)
  <2>1. PICK x \in Parties(Tx(d)) : Select(d, {x})
    BY <1>3 DEF ReadParty
  <2>2. DecisionAt(d, pc[d], loaded'[d])
    BY <1>0, <1>3, <2>1, SelectFrame DEF ReadParty, DecisionAt
  <2>3. pc' = [pc EXCEPT ![d] = pc[d]]
    BY <1>3 DEF ReadParty, TypeOK
  <2> QED
    BY <1>0, <1>3, <2>1, <2>2, <2>3, SelectFrame, PhasesFrame DEF ReadParty
<1>4. CASE BeginApproval(d)
  <2>1. DecisionAt(d, "approving", loaded'[d])
    BY <1>0, <1>4 DEF BeginApproval, HasRead, DecisionAt
  <2> QED
    BY <1>0, <1>4, <2>1, PhasesFrame DEF BeginApproval
<1>5. ASSUME NEW l \in Closed, Finish(d, l), InFlight(d),
             cases' = cases \/ cases' = [cases EXCEPT ![Tx(d)] = "resolved"]
      PROVE  Phases'
  <2>1. cases[Tx(d)] # "none"
    BY <1>0, <1>5 DEF DecisionAt, InFlight
  <2>2. DecisionAt(d, l, loaded'[d])
    BY <1>5 DEF DecisionAt, Closed
  <2>3. \A u \in Transfers : (cases[u] # "none") <=> (cases'[u] # "none")
    BY <1>5, <2>1 DEF TypeOK
  <2> QED
    BY <1>0, <1>5, <2>2, <2>3, CloseFrame, PhasesFrame DEF Finish
<1>6. CASE RejectTransfer(d) \/ FreezeSender(d) \/ ApproveTransfer(d)
  BY <1>5, <1>6 DEF RejectTransfer, FreezeSender, ApproveTransfer, ResolveCase, HasRead,
                    InFlight, Closed
<1>7. CASE RefuseApproval(d) \/ RefuseOverdrawnApproval(d) \/ AbandonDecision(d)
            \/ DeadlockedDecision(d)
  BY <1>5, <1>7 DEF RefuseApproval, RefuseOverdrawnApproval, AbandonDecision,
                    DeadlockedDecision, HasRead, InFlight, Closed
<1> QED
  BY <1>1, <1>2, <1>3, <1>4, <1>6, <1>7 DEF DecisionStep

LEMMA ErrandStepPhases ==
    ASSUME TypeOK, Phases, NEW e \in Errands, LoadAccount(e) \/ SetStatus(e) \/ AbandonErrand(e)
    PROVE  Phases'
<1> USE DEF Proceed, rows
<1>0. e \in Actors /\ e \notin Transfers /\ e \notin Decisions
  BY DistinctAssumption
<1>1. CASE LoadAccount(e)
  <2>1. ErrandAt(e, "loaded", loaded'[e])
    BY <1>0, <1>1, SelectFrame DEF LoadAccount, ErrandAt
  <2> QED
    BY <1>0, <1>1, <2>1, SelectFrame, PhasesFrame DEF LoadAccount
<1>2. CASE SetStatus(e)
  <2>1. ErrandAt(e, "decided", loaded'[e])
    BY DEF ErrandAt, Closed
  <2> QED
    BY <1>0, <1>2, <2>1, CloseFrame, PhasesFrame DEF SetStatus
<1>3. CASE AbandonErrand(e)
  <2>1. ErrandAt(e, "lost", loaded'[e])
    BY DEF ErrandAt, Closed
  <2> QED
    BY <1>0, <1>3, <2>1, CloseFrame, PhasesFrame DEF AbandonErrand
<1> QED
  BY <1>1, <1>2, <1>3

LEMMA EnvironmentPhases ==
    ASSUME Phases, (\E c \in Confirmations : ExpireConfirmation(c)) \/ Midnight
                      \/ UNCHANGED vars
    PROVE  Phases'
BY DEF ExpireConfirmation, Midnight, vars, rows, inputs, sessions, Phases, TransferAt,
       DecisionAt, ErrandAt, Posted, Parties, From, To, Tx, Target

LEMMA InductiveTypes ==
    ASSUME TypeOK, Phases, [Next]_vars
    PROVE  TypeOK' /\ Phases'
<1>1. ASSUME NEW t \in Transfers,
             \/ Authenticate(t) \/ TransferStep(t) \/ InternalError(t)
             \/ Crash(t) \/ DeadlockedTransfer(t)
      PROVE  TypeOK' /\ Phases'
  BY <1>1, TransferStepType, TransferStepPhases
<1>2. ASSUME NEW d \in Decisions,
             ReadCase(d) \/ DecisionStep(d) \/ AbandonDecision(d) \/ DeadlockedDecision(d)
      PROVE  TypeOK' /\ Phases'
  BY <1>2, DecisionStepType, DecisionStepPhases
<1>3. ASSUME NEW e \in Errands, LoadAccount(e) \/ SetStatus(e) \/ AbandonErrand(e)
      PROVE  TypeOK' /\ Phases'
  BY <1>3, ErrandStepType, ErrandStepPhases
<1>4. CASE (\E c \in Confirmations : ExpireConfirmation(c)) \/ Midnight \/ UNCHANGED vars
  BY <1>4, EnvironmentType, EnvironmentPhases
<1> QED
  BY <1>1, <1>2, <1>3, <1>4 DEF Next, Terminated

(* Every reachable state is type correct: whatever the interleaving, the     *)
(* rows, locks and identity maps hold values of their columns.              *)
THEOREM TypeCorrect == Spec => [](TypeOK /\ Phases)
<1>1. Init => TypeOK /\ Phases
  BY InitType, InitPhases
<1>2. TypeOK /\ Phases /\ [Next]_vars => (TypeOK /\ Phases)'
  BY InductiveTypes
<1> QED
  BY <1>1, <1>2, PTL DEF Spec
=============================================================================
