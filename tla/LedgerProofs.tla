---------------------------- MODULE LedgerProofs ----------------------------
(***************************************************************************)
(* Which overlap of requests breaks what.  BankDb.tla lets requests overlap  *)
(* in any way, and then money is lost, paid twice or paid past its limits   *)
(* (the runs that expect a violation).  Here every such property is proved  *)
(* for all behaviours in which one particular overlap does not occur, with  *)
(* everything else free: other overlaps, crashes, errors, retries, expiries *)
(* and midnights at any point.  A fix of the code that closes that overlap   *)
(* restores the property.                                                   *)
(*                                                                          *)
(*   AccountsApart        no two sessions hold the same account            *)
(*   ApprovalsApart       no two approvals hold the same waiting transfer  *)
(*   TakeoversApart       no request takes a failed key over while another *)
(*                        one works under it                               *)
(*   ConfirmationsApart   no two requests use one confirmation             *)
(*                                                                          *)
(* All four hold when requests do not overlap at all (the last section).    *)
(***************************************************************************)
EXTENDS FundsProofs, ReviewProofs

USE DEF Actors

AccountsApart == \A a, b \in Actors : a # b => loaded[a] \cap loaded[b] = {}

ReadyToApprove(d) == seen[d] = "pending_review" /\ ruling[d].verdict = "approve"
ApprovalsApart == \A d, e \in Decisions :
                     ReadyToApprove(d) /\ ReadyToApprove(e) /\ Tx(d) = Tx(e) => d = e
NobodyApproves == \A d \in Decisions : pc[d] # "approving"

TakeoversApart == \A t, u \in Transfers :
                     pc[t] = "reclaiming" /\ pc[u] \in Nested => KeyOf(t) # KeyOf(u)

UsesConfirmation(t) == pc[t] \in {"consuming", "booking"}
ConfirmationsApart == \A t, u \in Transfers :
                         /\ UsesConfirmation(t) /\ UsesConfirmation(u)
                         /\ request[t].confirmation = request[u].confirmation
                         => t = u

-----------------------------------------------------------------------------
(* The books.  What a session has loaded it alone can change; so the row it    *)
(* writes back over is the row it read, and no posting is lost.             *)
FreshCopies == \A a \in Actors : \A x \in loaded[a] : SameMoney(copy[a][x], accounts[x])

LEMMA FreshPosting ==
    ASSUME TypeOK, FreshCopies, NEW a \in Actors, NEW t \in Transfers, Pays(a, t)
    PROVE  /\ accounts'[From(t)].balance = accounts[From(t)].balance - Amount(t)
           /\ accounts'[To(t)].balance = accounts[To(t)].balance + Amount(t)
           /\ accounts[From(t)].available >= Amount(t)
<1>1. SameMoney(copy[a][From(t)], accounts[From(t)]) /\ SameMoney(copy[a][To(t)], accounts[To(t)])
  BY PostedParties DEF Pays, FreshCopies
<1> QED
  BY <1>1 DEF Pays, SameMoney, HasFunds

LEMMA FreshCopiesStep ==
    ASSUME TypeOK, Phases, AccountsApart, FreshCopies, [Next]_vars
    PROVE  FreshCopies'
<1> SUFFICES ASSUME NEW a \in Actors, NEW x \in loaded'[a]
             PROVE  SameMoney(copy'[a][x], accounts'[x])
  BY DEF FreshCopies
<1>1. x \in Accounts
  <2>1. TypeOK'
    BY InductiveTypes
  <2> QED
    BY <2>1 DEF TypeOK
<1>2. CASE NothingPaid
  BY <1>1, <1>2, LoadedMoney DEF NothingPaid, FreshCopies, SameMoney
<1>3. ASSUME NEW b \in Actors, NEW t \in Transfers, Pays(b, t)
      PROVE  SameMoney(copy'[a][x], accounts'[x])
  <2>1. a # b /\ x \in loaded[a] /\ copy'[a] = copy[a]
    BY <1>3 DEF Pays, CloseSession, TypeOK
  <2>2. x \notin Parties(t)
    BY <1>3, <2>1 DEF Pays, AccountsApart
  <2>3. accounts'[x] = accounts[x]
    BY <1>1, <1>3, <2>2 DEF Pays
  <2> QED
    BY <2>1, <2>3 DEF FreshCopies
<1> QED
  BY <1>2, <1>3, MoneyStep

LEMMA BooksStep ==
    ASSUME TypeOK, Phases, FreshCopies, BooksBalance, [Next]_vars
    PROVE  BooksBalance'
<1>1. CASE NothingPaid
  BY <1>1 DEF NothingPaid, SameMoney, BooksBalance
<1>2. ASSUME NEW a \in Actors, NEW t \in Transfers, Pays(a, t) PROVE BooksBalance'
  <2>1. /\ Parties(t) = {From(t), To(t)}
        /\ From(t) \in Accounts /\ To(t) \in Accounts /\ From(t) # To(t)
        /\ Amount(t) \in Nat
    BY <1>2, PostedParties DEF Pays
  <2>2. /\ accounts'[From(t)].balance = accounts[From(t)].balance - Amount(t)
        /\ accounts'[To(t)].balance = accounts[To(t)].balance + Amount(t)
    BY <1>2, FreshPosting
  <2>3. /\ moved'[From(t)] = moved[From(t)] - Amount(t)
        /\ moved'[To(t)] = moved[To(t)] + Amount(t)
        /\ \A x \in Accounts \ Parties(t) : /\ moved'[x] = moved[x]
                                            /\ accounts'[x] = accounts[x]
    BY <1>2, <2>1 DEF Pays, TypeOK
  <2>4. \A x \in Accounts : moved[x] \in Int /\ OpeningBalance[x] \in Int
    BY AccountAssumption DEF TypeOK
  <2> QED
    BY <2>1, <2>2, <2>3, <2>4 DEF BooksBalance
<1> QED
  BY <1>1, <1>2, MoneyStep

LEMMA BooksAlways == Spec /\ []AccountsApart => [](FreshCopies /\ BooksBalance)
<1> DEFINE Inv == FreshCopies /\ BooksBalance
<1>1. Init => Inv
  BY AccountAssumption DEF Init, FreshCopies, BooksBalance, OpenedAccounts, OpenedAccount
<1>2. TypeOK /\ Phases /\ AccountsApart /\ Inv /\ [Next]_vars => Inv'
  BY FreshCopiesStep, BooksStep
<1> HIDE DEF Inv
<1>3. Spec /\ []AccountsApart => []Inv
  BY <1>1, <1>2, TypeCorrect, PTL DEF Spec
<1> QED
  BY <1>3 DEF Inv

(* As long as no two requests work on the same account at the same time, every *)
(* account holds its opening balance plus what was posted to it, whatever     *)
(* else overlaps: the lost update needs a row that two sessions have loaded.  *)
THEOREM OnlySharedAccountsLoseMoney ==
    Spec /\ []AccountsApart => []BooksBalance
<1>1. FreshCopies /\ BooksBalance => BooksBalance
  OBVIOUS
<1> QED
  BY <1>1, BooksAlways, PTL

-----------------------------------------------------------------------------
(* Approvals.  A decision holds a transaction status while it runs, and        *)
(* approves only what it saw waiting, if that is what it was sent to do.     *)
(* While only one such decision holds a transfer, that is not paid yet.      *)
SeenByHandler == \A d \in Decisions :
                    /\ seen[d] # "absent" => pc[d] \in {"reading", "approving"}
                    /\ pc[d] = "approving" => ReadyToApprove(d)
ReadyUnpaid == \A d \in Decisions : ReadyToApprove(d) => applied[Tx(d)] = 0

LEMMA SeenStep ==
    ASSUME TypeOK, Phases, SeenByHandler, [Next]_vars
    PROVE  SeenByHandler'
<1> USE DEF Goto, Enter, Proceed, TypeOK
<1>0. UNCHANGED ruling
  BY FixedInputs DEF inputs
<1>1. CASE UNCHANGED <<pc, seen>>
  BY <1>0, <1>1 DEF SeenByHandler, ReadyToApprove
<1>2. ASSUME NEW a \in Actors \ Decisions, NEW l, pc' = [pc EXCEPT ![a] = l], UNCHANGED seen
      PROVE  SeenByHandler'
  BY <1>0, <1>2 DEF SeenByHandler, ReadyToApprove
<1>3. ASSUME NEW t \in Transfers, \/ Authenticate(t) \/ TransferStep(t) \/ InternalError(t)
                                  \/ Crash(t) \/ DeadlockedTransfer(t)
      PROVE  SeenByHandler'
  <2>1. t \in Actors \ Decisions
    BY DistinctAssumption
  <2>2. UNCHANGED seen
    BY <1>3 DEF Authenticate, TransferStep, RefuseKey, Replay, Answer, UseKey, InsertKey,
         LoseInsertRace, ReclaimKey, RefuseDraft, Validate, Score, ScoreFails,
         CheckConfirmation, RefuseConfirmation, ConsumeConfirmation, TakeLock, QueueForReview,
         Complete, RefuseOverdraft, MarkKeyFailed, InternalError, DeadlockedTransfer, Fail,
         Crash, locals
  <2>3. UNCHANGED pc \/ \E l : pc' = [pc EXCEPT ![t] = l]
    BY <1>3 DEF Authenticate, TransferStep, RefuseKey, Replay, Answer, UseKey, InsertKey,
         LoseInsertRace, ReclaimKey, RefuseDraft, Validate, Score, ScoreFails,
         CheckConfirmation, RefuseConfirmation, ConsumeConfirmation, TakeLock, QueueForReview,
         Complete, CommitTransaction, RefuseOverdraft, MarkKeyFailed, InternalError,
         DeadlockedTransfer, Fail, Crash
  <2> QED
    BY <1>1, <1>2, <2>1, <2>2, <2>3
<1>4. ASSUME NEW e \in Errands, LoadAccount(e) \/ SetStatus(e) \/ AbandonErrand(e)
      PROVE  SeenByHandler'
  <2>1. e \in Actors \ Decisions
    BY DistinctAssumption
  <2> QED
    BY <1>2, <1>4, <2>1 DEF LoadAccount, SetStatus, AbandonErrand, locals
<1>5. ASSUME NEW d \in Decisions, ReadCase(d) \/ ReadTransaction(d) \/ BeginApproval(d)
      PROVE  SeenByHandler'
  BY <1>0, <1>5 DEF ReadCase, ReadTransaction, BeginApproval, HasRead, Approvable, SeenByHandler,
              ReadyToApprove, locals
<1>6. ASSUME NEW d \in Decisions, ReadParty(d) \/ TakeApprovalLock(d) PROVE SeenByHandler'
  BY <1>1, <1>6 DEF ReadParty, TakeApprovalLock, locals
<1>7. ASSUME NEW d \in Decisions,
             \/ RejectTransfer(d) \/ FreezeSender(d) \/ RefuseApproval(d)
             \/ ApproveTransfer(d) \/ RefuseOverdrawnApproval(d)
             \/ AbandonDecision(d) \/ DeadlockedDecision(d)
      PROVE  SeenByHandler'
  <2>1. \E l \in Closed : Finish(d, l)
    BY <1>7 DEF RejectTransfer, FreezeSender, RefuseApproval, ApproveTransfer,
         RefuseOverdrawnApproval, AbandonDecision, DeadlockedDecision, Closed
  <2> QED
    BY <1>0, <2>1 DEF Finish, Closed, SeenByHandler, ReadyToApprove
<1>8. CASE (\E c \in Confirmations : ExpireConfirmation(c)) \/ Midnight \/ UNCHANGED vars
  BY <1>1, <1>8 DEF ExpireConfirmation, Midnight, vars, locals
<1> QED
  BY <1>3, <1>4, <1>5, <1>6, <1>7, <1>8 DEF Next, DecisionStep, Terminated

LEMMA UnpaidStep ==
    ASSUME TypeOK, Phases, StatusInv, SeenByHandler, ApprovalsApart, ReadyUnpaid,
           PostedAtMostOnce, [Next]_vars
    PROVE  ReadyUnpaid' /\ PostedAtMostOnce'
<1>0. /\ UNCHANGED ruling
      /\ \A d \in Decisions : Tx(d)' = Tx(d) /\ Tx(d) \in Transfers
  BY FixedInputs, RulingType DEF Tx, inputs
<1>1. \A t \in Transfers : applied[t] \in Nat
  BY DEF TypeOK
<1>2. CASE Rests
  <2>1. ASSUME NEW d \in Decisions, ReadyToApprove(d)' PROVE applied[Tx(d)] = 0
    <3>1. ruling[d].verdict = "approve" /\ seen'[d] \in {seen[d], txs[Tx(d)]}
      BY <1>0, <1>2, <2>1 DEF Rests, ReadyToApprove
    <3>2. CASE seen'[d] = seen[d]
      BY <2>1, <3>1, <3>2 DEF ReadyToApprove, ReadyUnpaid
    <3>3. CASE seen'[d] = txs[Tx(d)]
      BY <1>0, <2>1, <3>3 DEF ReadyToApprove, StatusInv, StatusTellsMoney
    <3> QED
      BY <3>1, <3>2, <3>3
  <2> QED
    BY <1>0, <1>2, <2>1 DEF Rests, ReadyUnpaid, PostedAtMostOnce
<1>3. ASSUME NEW t \in Transfers, Books(t) PROVE ReadyUnpaid' /\ PostedAtMostOnce'
  <2>1. txs[t] = "absent" /\ applied[t] = 0
    BY <1>3 DEF Books, StatusInv, InsertedOnce, StatusTellsMoney
  <2>2. applied'[t] <= 1 /\ \A u \in Transfers \ {t} : applied'[u] = applied[u]
    BY <1>3, <2>1 DEF Books, TypeOK
  <2>3. ASSUME NEW d \in Decisions, ReadyToApprove(d)' PROVE applied'[Tx(d)] = 0
    <3>1. ReadyToApprove(d) /\ pc[d] \in {"reading", "approving"}
      BY <1>0, <1>3, <2>3 DEF Books, ReadyToApprove, SeenByHandler
    <3>2. txs[Tx(d)] # "absent"
      BY <1>0, <3>1 DEF Phases, DecisionAt, StatusInv, CasesAreReal
    <3> QED
      BY <1>0, <2>1, <2>2, <3>1, <3>2 DEF ReadyUnpaid
  <2> QED
    BY <1>0, <2>2, <2>3 DEF ReadyUnpaid, PostedAtMostOnce
<1>4. ASSUME NEW e \in Decisions, Rules(e) PROVE ReadyUnpaid' /\ PostedAtMostOnce'
  <2>1. /\ seen'[e] = "absent" /\ \A d \in Decisions \ {e} : seen'[d] = seen[d]
        /\ \A u \in Transfers \ {Tx(e)} : applied'[u] = applied[u]
    BY <1>0, <1>4 DEF Rules, TypeOK
  <2>2. \A d \in Decisions : ReadyToApprove(d)' => ReadyToApprove(d) /\ d # e
    BY <1>0, <2>1 DEF ReadyToApprove
  <2>3. CASE applied'[Tx(e)] = applied[Tx(e)]
    BY <1>0, <2>1, <2>2, <2>3 DEF ReadyUnpaid, PostedAtMostOnce
  <2>4. CASE applied'[Tx(e)] # applied[Tx(e)]
    <3>1. pc[e] = "approving" /\ applied'[Tx(e)] = applied[Tx(e)] + 1
      BY <1>0, <1>4, <2>4 DEF Rules, TypeOK
    <3>2. ReadyToApprove(e) /\ applied'[Tx(e)] = 1
      BY <3>1 DEF SeenByHandler, ReadyUnpaid
    <3>3. \A d \in Decisions : ReadyToApprove(d)' => Tx(d) # Tx(e)
      BY <2>2, <3>2 DEF ApprovalsApart
    <3> QED
      BY <1>0, <2>1, <2>2, <3>2, <3>3 DEF ReadyUnpaid, PostedAtMostOnce
  <2> QED
    BY <2>3, <2>4
<1> QED
  BY <1>2, <1>3, <1>4, StatusStep

LEMMA SeenAlways == Spec => []SeenByHandler
<1>1. Init => SeenByHandler
  BY DEF Init, SeenByHandler
<1> QED
  BY <1>1, SeenStep, TypeCorrect, PTL DEF Spec

LEMMA UnpaidAlways == Spec /\ []ApprovalsApart => [](ReadyUnpaid /\ PostedAtMostOnce)
<1> DEFINE Good == TypeOK /\ Phases /\ StatusInv /\ SeenByHandler
           Inv  == ReadyUnpaid /\ PostedAtMostOnce
<1>1. Init => Inv
  BY DEF Init, ReadyUnpaid, ReadyToApprove, PostedAtMostOnce
<1>2. Good /\ ApprovalsApart /\ Inv /\ [Next]_vars => Inv'
  BY UnpaidStep
<1>3. Spec => []Good
  BY TypeCorrect, StatusAlways, SeenAlways, PTL
<1> HIDE DEF Good, Inv
<1>4. Spec /\ []ApprovalsApart => []Inv
  BY <1>1, <1>2, <1>3, PTL DEF Spec
<1> QED
  BY <1>4 DEF Inv

(* As long as no two approvals have seen the same transfer waiting, no transfer *)
(* is paid twice: not by its request and an approval, nor by a resolved case   *)
(* that is decided again, however many other decisions run on it.            *)
THEOREM OnlyRacingApprovalsPayTwice ==
    Spec /\ []ApprovalsApart => []PostedAtMostOnce
<1>1. ReadyUnpaid /\ PostedAtMostOnce => PostedAtMostOnce
  OBVIOUS
<1> QED
  BY <1>1, UnpaidAlways, PTL

-----------------------------------------------------------------------------
(* The refinement: an opened database is an opened ledger, a posting is a    *)
(* Post of the ledger, and no other step changes a balance.                 *)
LedgerBalance == [x \in Accounts |-> accounts[x].balance]
LedgerPosted == {t \in Transfers : applied[t] > 0}

LEMMA LedgerStep ==
    ASSUME TypeOK, Phases, StatusInv, SeenByHandler, FreshCopies, ReadyUnpaid, SoundFunds,
           [Next]_vars
    PROVE  [TheLedger!LedgerNext]_<<LedgerBalance, LedgerPosted>>
<1>1. CASE NothingPaid
  <2>1. LedgerBalance' = LedgerBalance /\ LedgerPosted' = LedgerPosted
    BY <1>1 DEF NothingPaid, SameMoney, LedgerBalance, LedgerPosted
  <2> QED
    BY <2>1
<1>2. ASSUME NEW a \in Actors, NEW t \in Transfers, Pays(a, t)
      PROVE  TheLedger!LedgerNext
  <2>1. /\ Parties(t) = {From(t), To(t)}
        /\ From(t) \in Accounts /\ To(t) \in Accounts /\ From(t) # To(t)
        /\ Amount(t) \in Nat /\ Amount(t) > 0
    BY <1>2, PostedParties DEF Pays
  <2>2. /\ applied[t] = 0
        /\ accounts'[From(t)].balance = accounts[From(t)].balance - Amount(t)
        /\ accounts'[To(t)].balance = accounts[To(t)].balance + Amount(t)
        /\ accounts[From(t)].available >= Amount(t)
    <3>1. CASE a = t /\ pc[t] = "booking"
      BY <1>2, <3>1, FreshPosting DEF StatusInv, InsertedOnce, StatusTellsMoney
    <3>2. CASE a \in Decisions /\ Tx(a) = t /\ pc[a] = "approving"
      BY <1>2, <3>2, FreshPosting DEF SeenByHandler, ReadyUnpaid
    <3> QED
      BY <1>2, <3>1, <3>2 DEF Pays
  <2>3. \A x \in Accounts \ Parties(t) : accounts'[x] = accounts[x]
    BY <1>2 DEF Pays
  <2>4. LedgerBalance' = [LedgerBalance EXCEPT ![From(t)] = @ - Amount(t),
                                               ![To(t)] = @ + Amount(t)]
    BY <2>1, <2>2, <2>3 DEF LedgerBalance
  <2>5. applied'[t] = 1 /\ \A u \in Transfers \ {t} : applied'[u] = applied[u]
    BY <1>2, <2>2 DEF Pays, TypeOK
  <2>6. t \notin LedgerPosted /\ LedgerPosted' = LedgerPosted \cup {t}
    BY <2>2, <2>5 DEF LedgerPosted
  <2>7. Amount(t) \in 1 .. LedgerBalance[From(t)]
    <3>1. accounts[From(t)].balance \in Int /\ accounts[From(t)].balance >= Amount(t)
      BY <2>1, <2>2 DEF SoundFunds, TypeOK, AccountRow
    <3> QED
      BY <2>1, <3>1 DEF LedgerBalance
  <2>8. TheLedger!Post(t, From(t), To(t), Amount(t))
    BY <2>1, <2>4, <2>6 DEF TheLedger!Post, LedgerBalance, LedgerPosted
  <2>9. \E amount \in 1 .. LedgerBalance[From(t)] :
            TheLedger!Post(t, From(t), To(t), amount)
    <3> DEFINE P(amount) == TheLedger!Post(t, From(t), To(t), amount)
    <3>1. P(Amount(t))
      BY <2>8
    <3> HIDE DEF P
    <3>2. \E amount \in 1 .. LedgerBalance[From(t)] : P(amount)
      BY <2>7, <3>1
    <3> QED
      BY <3>2 DEF P
  <2> QED
    BY <2>1, <2>9, Zenon DEF TheLedger!LedgerNext, LedgerBalance
<1> QED
  BY <1>1, <1>2, MoneyStep

(* As long as neither an account nor a waiting transfer is shared, the database *)
(* implements the ledger: each transfer is posted once, in one step, out of    *)
(* money the sender has.                                                    *)
THEOREM ApartRequestsImplementLedger ==
    Spec /\ [](AccountsApart /\ ApprovalsApart) => ImplementsLedger
<1> DEFINE Good == /\ TypeOK /\ Phases /\ StatusInv /\ SeenByHandler
                   /\ FreshCopies /\ ReadyUnpaid /\ SoundFunds
<1>1. Init => TheLedger!LedgerInit
  BY AccountAssumption DEF Init, TheLedger!LedgerInit, OpenedAccounts, OpenedAccount
<1>2. Good /\ [Next]_vars
      => [TheLedger!LedgerNext]_<<[x \in Accounts |-> accounts[x].balance],
                                  {t \in Transfers : applied[t] > 0}>>
  BY LedgerStep DEF LedgerBalance, LedgerPosted
<1>3. Spec /\ [](AccountsApart /\ ApprovalsApart) => []Good
  BY TypeCorrect, StatusAlways, SeenAlways, BooksAlways, UnpaidAlways, FundsStaySound, PTL
<1> HIDE DEF Good
<1> QED
  BY <1>1, <1>2, <1>3, PTL DEF Spec, ImplementsLedger, TheLedger!LedgerSpec

-----------------------------------------------------------------------------
(* Which steps change a transfer's phase. *)

LEMMA OwnPhase ==
    ASSUME TypeOK, [Next]_vars, NEW t \in Transfers, pc'[t] # pc[t]
    PROVE  \/ Authenticate(t) \/ TransferStep(t) \/ InternalError(t)
           \/ Crash(t) \/ DeadlockedTransfer(t)
<1>1. ASSUME NEW u \in Transfers \ {t},
             \/ Authenticate(u) \/ TransferStep(u) \/ InternalError(u)
             \/ Crash(u) \/ DeadlockedTransfer(u)
      PROVE  FALSE
  <2>1. UNCHANGED pc \/ \E l : pc' = [pc EXCEPT ![u] = l]
    BY <1>1 DEF Authenticate, TransferStep, RefuseKey, Replay, Answer, UseKey, InsertKey,
         LoseInsertRace, ReclaimKey, RefuseDraft, Validate, Score, ScoreFails,
         CheckConfirmation, RefuseConfirmation, ConsumeConfirmation, TakeLock, QueueForReview,
         Complete, CommitTransaction, RefuseOverdraft, MarkKeyFailed, InternalError,
         DeadlockedTransfer, Fail, Crash, Goto
  <2> QED
    BY <2>1 DEF TypeOK
<1>2. ASSUME NEW d \in Decisions,
             ReadCase(d) \/ DecisionStep(d) \/ AbandonDecision(d) \/ DeadlockedDecision(d)
      PROVE  FALSE
  <2>1. UNCHANGED pc \/ \E l : pc' = [pc EXCEPT ![d] = l]
    BY <1>2 DEF ReadCase, DecisionStep, AbandonDecision, DeadlockedDecision,
         ReadTransaction, ReadParty, RejectTransfer, FreezeSender, RefuseApproval,
         BeginApproval, TakeApprovalLock, ApproveTransfer, RefuseOverdrawnApproval, Finish,
         Enter
  <2> QED
    BY <2>1, DistinctAssumption DEF TypeOK
<1>3. ASSUME NEW e \in Errands, LoadAccount(e) \/ SetStatus(e) \/ AbandonErrand(e)
      PROVE  FALSE
  BY <1>3, DistinctAssumption DEF LoadAccount, SetStatus, AbandonErrand, Proceed, TypeOK
<1>4. CASE (\E c \in Confirmations : ExpireConfirmation(c)) \/ Midnight \/ UNCHANGED vars
  BY <1>4 DEF ExpireConfirmation, Midnight, vars
<1> QED
  BY <1>1, <1>2, <1>3, <1>4 DEF Next, Terminated

(* The doors: a key is checked before it is used, a transfer is validated      *)
(* before it is scored, a confirmation is looked up before it is spent.      *)
LEMMA Doors ==
    ASSUME TypeOK, [Next]_vars, NEW t \in Transfers
    PROVE  /\ pc'[t] \in Nested \cup {"reclaiming"}
                => pc[t] \in Nested \cup {"reclaiming"} \/ UseKey(t) \/ InsertKey(t)
           /\ pc'[t] \in CheckedPhases => pc[t] \in CheckedPhases \/ Validate(t)
           /\ pc'[t] \in {"consuming", "booking"}
                => pc[t] \in {"consuming", "booking"} \/ CheckConfirmation(t)
           /\ pc'[t] = "created" => pc[t] = "created" \/ Commits(t)
<1> USE DEF Goto, CheckedPhases, Nested
<1>1. CASE pc'[t] = pc[t]
  BY <1>1
<1>2. CASE Authenticate(t) \/ RefuseKey(t) \/ Replay(t) \/ LoseInsertRace(t) \/ MarkKeyFailed(t)
            \/ Crash(t)
  <2>1. pc'[t] \in {"received", "conflict", "replayed", "refused", "lost"}
    BY <1>2 DEF Authenticate, RefuseKey, Replay, LoseInsertRace, Answer, MarkKeyFailed, Crash, TypeOK
  <2> QED
    BY <2>1
<1>3. CASE UseKey(t)
  <2>1. pc'[t] \in {"inserting", "reclaiming"}
    BY <1>3 DEF UseKey, TypeOK
  <2> QED
    BY <1>3, <2>1
<1>4. CASE InsertKey(t) \/ ReclaimKey(t)
  <2>1. pc'[t] = "validating" /\ (pc[t] = "reclaiming" \/ InsertKey(t))
    BY <1>4 DEF InsertKey, ReclaimKey, TypeOK
  <2> QED
    BY <2>1
<1>5. CASE Validate(t)
  <2>1. pc'[t] = "scoring" /\ pc[t] = "validating"
    BY <1>5 DEF Validate, TypeOK
  <2> QED
    BY <1>5, <2>1
<1>6. CASE Score(t)
  <2>1. pc'[t] = "confirming" /\ pc[t] = "scoring"
    BY <1>6 DEF Score, TypeOK
  <2> QED
    BY <2>1
<1>7. CASE CheckConfirmation(t)
  <2>1. pc'[t] = "consuming" /\ pc[t] = "confirming"
    BY <1>7 DEF CheckConfirmation, TypeOK
  <2> QED
    BY <1>7, <2>1
<1>8. CASE ConsumeConfirmation(t)
  <2>1. pc'[t] = "booking" /\ pc[t] = "consuming"
    BY <1>8 DEF ConsumeConfirmation, TypeOK
  <2> QED
    BY <2>1
<1>9. CASE TakeLock(t)
  BY <1>1, <1>9 DEF TakeLock
<1>10. CASE QueueForReview(t) \/ Complete(t)
  <2>1. Commits(t)
    BY <1>10 DEF QueueForReview, Complete, CommitTransaction, ReadyToCommit, Commits, TypeOK
  <2>2. pc'[t] = "created"
    BY <2>1 DEF Commits, TypeOK
  <2> QED
    BY <2>1, <2>2
<1>11. CASE \/ RefuseDraft(t) \/ ScoreFails(t) \/ RefuseConfirmation(t)
            \/ RefuseOverdraft(t) \/ InternalError(t) \/ DeadlockedTransfer(t)
  <2>1. pc[t] \in Nested /\ pc'[t] = "failing"
    BY <1>11 DEF RefuseDraft, ScoreFails, RefuseConfirmation, RefuseOverdraft, ReadyToCommit,
                InternalError, DeadlockedTransfer, Fail, TypeOK
  <2> QED
    BY <2>1
<1> QED
  BY <1>1, <1>2, <1>3, <1>4, <1>5, <1>6, <1>7, <1>8, <1>9, <1>10, <1>11, OwnPhase
     DEF TransferStep

-----------------------------------------------------------------------------
(* Keys.  While a request works under a key, or is about to take it over, the  *)
(* key has no transaction, because nobody else can commit under it.          *)
KeyFree(t)  == pc[t] \in Nested \cup {"reclaiming"} => keys[KeyOf(t)].resource = NoTransfer
Recorded(t) == txs[t] # "absent" => KeyOf(t) \in Keys /\ keys[KeyOf(t)].resource = t
KeyOnce == \A t \in Transfers : KeyFree(t) /\ Recorded(t)

LEMMA KeyOnceStep ==
    ASSUME TypeOK, Phases, StatusInv, LockInv, KeyInv, TakeoversApart, KeyOnce, [Next]_vars
    PROVE  KeyOnce'
<1>0. /\ UNCHANGED request
      /\ \A t \in Transfers : KeyOf(t)' = KeyOf(t)
  BY FixedInputs DEF inputs, KeyOf
<1>1. ASSUME NEW t \in Transfers, pc'[t] \in Nested \cup {"reclaiming"}
      PROVE  keys'[KeyOf(t)].resource = NoTransfer
  <2>1. KeyOf(t) \in Keys
    <3>1. TypeOK' /\ Phases'
      BY InductiveTypes
    <3> QED
      BY <1>0, <1>1, <3>1, RequestType DEF Phases, TransferAt, KeyPhases, KeyOf, Keys, TypeOK
  <2>2. keys[KeyOf(t)].resource = NoTransfer
    <3>1. KeyFits(KeyOf(t))
      BY <2>1 DEF KeyInv
    <3>2. CASE pc[t] \in Nested \cup {"reclaiming"}
      BY <3>2 DEF KeyOnce, KeyFree
    <3>3. CASE UseKey(t)
      BY <3>1, <3>3 DEF UseKey, KeyRefuses, CanReplay, KeyFits, Stored
    <3>4. CASE InsertKey(t)
      BY <3>1, <3>4 DEF InsertKey, KeyFits, Stored
    <3> QED
      BY <1>1, <3>2, <3>3, <3>4, Doors
  <2>3. ASSUME NEW u \in Transfers, Commits(u)
        PROVE  keys'[KeyOf(t)] = keys[KeyOf(t)]
    <3>1. u # t /\ pc[u] = "booking" /\ pc'[t] = pc[t]
      BY <1>1, <2>3 DEF Commits, TypeOK, Nested
    <3>2. CASE pc[t] = "reclaiming"
      BY <2>1, <2>3, <3>1, <3>2, WrittenKey DEF TakeoversApart, Nested
    <3>3. CASE pc[t] \in Nested
      BY <2>1, <2>3, <3>1, <3>3, WrittenKey, KeyHasOneHolder DEF HoldsKey, Nested
    <3> QED
      BY <1>1, <3>1, <3>2, <3>3
  <2>4. ASSUME NEW u \in Transfers, Gives(u)
        PROVE  keys'[KeyOf(t)].resource = keys[KeyOf(t)].resource
    <3>1. pc[u] # "booking"
      BY <2>4 DEF Gives
    <3>2. CASE KeyOf(t) = KeyOf(u)
      BY <2>4, <3>1, <3>2, WrittenKey
    <3>3. CASE KeyOf(t) # KeyOf(u)
      BY <2>1, <2>4, <3>3, WrittenKey
    <3> QED
      BY <3>2, <3>3
  <2> QED
    BY <2>2, <2>3, <2>4, KeyStep DEF KeysRest, Answers
<1>2. ASSUME NEW t \in Transfers PROVE Recorded(t)'
  <2> SUFFICES ASSUME txs'[t] # "absent"
               PROVE  KeyOf(t) \in Keys /\ keys'[KeyOf(t)].resource = t
    BY <1>0 DEF Recorded
  <2>1. CASE Commits(t)
    BY <2>1, WrittenKey DEF Commits
  <2>2. CASE ~Commits(t)
    <3>1. txs[t] # "absent"
      <4>1. StatusInv'
        BY StatusInvStep
      <4>2. pc[t] = "created"
        BY <2>2, <4>1, Doors DEF StatusInv, InsertedOnce
      <4>3. ASSUME NEW u \in Transfers, Books(u) PROVE u # t
        BY <4>2, <4>3 DEF Books
      <4>4. ASSUME NEW d \in Decisions, Rules(d) PROVE txs[t] # "absent"
        <5>1. txs[Tx(d)] # "absent"
          BY <4>4, RulingType DEF Rules, StatusInv, CasesAreReal
        <5> QED
          BY <4>4, <5>1 DEF Rules, TypeOK
      <4> QED
        BY <4>3, <4>4, StatusStep DEF Rests, Books, TypeOK
    <3>2. KeyOf(t) \in Keys /\ keys[KeyOf(t)].resource = t /\ t # NoTransfer
      BY <3>1, DistinctAssumption DEF KeyOnce, Recorded
    <3>3. ASSUME NEW u \in Transfers, Commits(u) PROVE keys'[KeyOf(t)] = keys[KeyOf(t)]
      <4>1. keys[KeyOf(u)].resource = NoTransfer
        BY <3>3 DEF Commits, KeyOnce, KeyFree, Nested
      <4>2. KeyOf(u) # KeyOf(t)
        BY <3>2, <4>1
      <4> QED
        BY <3>2, <3>3, <4>2, WrittenKey
    <3>4. ASSUME NEW u \in Transfers, Gives(u)
          PROVE  keys'[KeyOf(t)].resource = keys[KeyOf(t)].resource
      <4>1. pc[u] # "booking"
        BY <3>4 DEF Gives
      <4>2. CASE KeyOf(t) = KeyOf(u)
        BY <3>4, <4>1, <4>2, WrittenKey
      <4>3. CASE KeyOf(t) # KeyOf(u)
        BY <3>2, <3>4, <4>3, WrittenKey
      <4> QED
        BY <4>2, <4>3
    <3> QED
      BY <3>2, <3>3, <3>4, KeyStep DEF KeysRest, Answers
  <2> QED
    BY <2>1, <2>2
<1> QED
  BY <1>0, <1>1, <1>2 DEF KeyOnce, KeyFree

(* As long as nobody takes a failed key over while another request works under *)
(* it, a key never stands for two transactions, whatever else overlaps: two    *)
(* first uses of a key, replays, and retries after errors and crashes.       *)
THEOREM OnlyRacingTakeoversReuseKeys ==
    Spec /\ []TakeoversApart => []OncePerKey
<1> DEFINE Good == TypeOK /\ Phases /\ StatusInv /\ LockInv /\ KeyInv
<1>1. Init => KeyOnce
  BY DEF Init, KeyOnce, KeyFree, Recorded, Nested
<1>2. Good /\ TakeoversApart /\ KeyOnce /\ [Next]_vars => KeyOnce'
  BY KeyOnceStep
<1>3. Spec => []Good
  BY TypeCorrect, KeysAlways, PTL
<1>4. KeyOnce => OncePerKey
  BY DEF KeyOnce, Recorded, OncePerKey
<1> HIDE DEF Good
<1> QED
  BY <1>1, <1>2, <1>3, <1>4, PTL DEF Spec

-----------------------------------------------------------------------------
(* Confirmations.  While only one request is past the check of a confirmation, *)
(* that is not spent.                                                       *)
Unspent(t) == UsesConfirmation(t) => confirmations[request[t].confirmation] # "spent"
ConfirmedOnce == (\A t \in Transfers : Unspent(t)) /\ OneTransferPerConfirmation

LEMMA ConfirmedOnceStep ==
    ASSUME TypeOK, Phases, StatusInv, ConfirmationsApart, ConfirmedOnce, [Next]_vars
    PROVE  ConfirmedOnce'
<1>0. UNCHANGED request
  BY FixedInputs DEF inputs
<1>1. ASSUME NEW t \in Transfers, UsesConfirmation(t)'
      PROVE  confirmations'[request[t].confirmation] # "spent"
  <2>1. request[t].confirmation \in Confirmations
    <3>1. Phases'
      BY InductiveTypes
    <3> QED
      BY <1>0, <1>1, <3>1 DEF Phases, TransferAt, UsesConfirmation
  <2>2. UsesConfirmation(t) \/ CheckConfirmation(t)
    BY <1>1, Doors DEF UsesConfirmation
  <2>3. confirmations[request[t].confirmation] # "spent"
    BY <2>2 DEF ConfirmedOnce, Unspent, CheckConfirmation, Confirmed
  <2>4. ASSUME NEW u \in Transfers, Books(u)
        PROVE  confirmations'[request[t].confirmation] # "spent"
    <3>1. txs[u] = "absent" /\ txs'[u] # "absent" /\ pc'[u] = "created"
      BY <2>4 DEF Books, StatusInv, InsertedOnce, TypeOK
    <3>2. ~CheckConfirmation(t) /\ u # t
      BY <1>1, <3>1 DEF CheckConfirmation, UsesConfirmation, rows
    <3>3. request[u].confirmation # request[t].confirmation
      BY <2>2, <2>4, <3>2 DEF ConfirmationsApart, UsesConfirmation, Books
    <3> QED
      BY <2>1, <2>3, <2>4, <3>3 DEF Books, TypeOK
  <2>5. CASE Rests
    BY <2>1, <2>3, <2>5 DEF Rests
  <2>6. CASE \E d \in Decisions : Rules(d)
    BY <2>3, <2>6 DEF Rules
  <2> QED
    BY <2>4, <2>5, <2>6, StatusStep
<1>2. OneTransferPerConfirmation'
  <2>1. CASE Rests
    BY <1>0, <2>1 DEF Rests, ConfirmedOnce, OneTransferPerConfirmation
  <2>2. ASSUME NEW d \in Decisions, Rules(d) PROVE OneTransferPerConfirmation'
    <3>1. txs[Tx(d)] # "absent"
      BY <2>2, RulingType DEF Rules, StatusInv, CasesAreReal
    <3>2. \A t \in Transfers : txs'[t] # "absent" => txs[t] # "absent"
      BY <2>2, <3>1 DEF Rules, TypeOK
    <3> QED
      BY <1>0, <3>2 DEF ConfirmedOnce, OneTransferPerConfirmation
  <2>3. ASSUME NEW t \in Transfers, Books(t) PROVE OneTransferPerConfirmation'
    <3>1. \A u \in Transfers \ {t} : txs'[u] = txs[u]
      BY <2>3 DEF Books, TypeOK
    <3>2. confirmations[request[t].confirmation] # "spent" /\ request[t].confirmation \in Confirmations
      BY <2>3 DEF Books, ConfirmedOnce, Unspent, UsesConfirmation
    <3>3. \A u \in Transfers : txs[u] # "absent" => request[u].confirmation # request[t].confirmation
      BY <3>2 DEF StatusInv, SpentExactlyOnCommit
    <3> QED
      BY <1>0, <3>1, <3>3 DEF ConfirmedOnce, OneTransferPerConfirmation
  <2> QED
    BY <2>1, <2>2, <2>3, StatusStep
<1> QED
  BY <1>0, <1>1, <1>2 DEF ConfirmedOnce, Unspent, UsesConfirmation

(* As long as no two requests are past the check of one code or challenge, it  *)
(* confirms at most one transfer.                                           *)
THEOREM OnlyRacingRequestsReuseConfirmations ==
    Spec /\ []ConfirmationsApart => []OneTransferPerConfirmation
<1> DEFINE Good == TypeOK /\ Phases /\ StatusInv
<1>1. Init => ConfirmedOnce
  BY DEF Init, ConfirmedOnce, Unspent, UsesConfirmation, OneTransferPerConfirmation
<1>2. Good /\ ConfirmationsApart /\ ConfirmedOnce /\ [Next]_vars => ConfirmedOnce'
  BY ConfirmedOnceStep
<1>3. Spec => []Good
  BY TypeCorrect, StatusAlways, PTL
<1>4. ConfirmedOnce => OneTransferPerConfirmation
  BY DEF ConfirmedOnce
<1> HIDE DEF Good
<1> QED
  BY <1>1, <1>2, <1>3, <1>4, PTL DEF Spec

-----------------------------------------------------------------------------
(* What a session has loaded is still what is stored, status and counter      *)
(* included, except for the reset that it is going to write; and a transfer   *)
(* past its validation still meets what was validated.                      *)
FreshRow(a, x) ==
    /\ copy[a][x].status = accounts[x].status
    /\ IF a \in resetting /\ x = From(a)
       THEN /\ copy[a][x].daily = 0
            /\ accounts[x].resetDay < copy[a][x].resetDay
            /\ copy[a][x].resetDay <= day
       ELSE /\ copy[a][x].daily = accounts[x].daily
            /\ copy[a][x].resetDay = accounts[x].resetDay
Sound(t) == /\ \A x \in Parties(t) : accounts[x].status = "active"
            /\ copy[t][From(t)].daily + Amount(t) <= DailyLimit[From(t)]

RowsInv == /\ \A a \in Actors : \A x \in loaded[a] : FreshRow(a, x)
           /\ \A t \in resetting : pc[t] \in CheckedPhases
           /\ \A t \in Transfers : pc[t] \in CheckedPhases => Sound(t)
           /\ \A x \in Accounts : accounts[x].resetDay <= day

(* Whoever writes a row of bank_accounts has it loaded, and ends with the     *)
(* commit.                                                                  *)
Ends(a) == CloseSession(a) /\ \E l \in Closed : pc' = [pc EXCEPT ![a] = l]

LEMMA RowWriter ==
    ASSUME TypeOK, Phases, [Next]_vars, NEW x \in Accounts, accounts'[x] # accounts[x]
    PROVE  \E a \in Actors : x \in loaded[a] /\ Ends(a)
<1> DEFINE Stores(a) == x \in loaded[a] /\ Ends(a)
<1>1. ASSUME NEW t \in Transfers, QueueForReview(t) \/ Complete(t) PROVE Stores(t)
  <2>1. /\ pc[t] = "booking" /\ Ends(t)
        /\ x \in {From(t), To(t)}
    BY <1>1 DEF Ends, QueueForReview, Complete, CommitTransaction, ReadyToCommit, Closed, Goto, TypeOK
  <2> QED
    BY <2>1 DEF Phases, TransferAt, CheckedPhases, Parties
<1>2. ASSUME NEW d \in Decisions, FreezeSender(d) \/ ApproveTransfer(d) PROVE Stores(d)
  <2>1. x \in {From(Tx(d)), To(Tx(d))} /\ Ends(d)
    BY <1>2 DEF Ends, FreezeSender, ApproveTransfer, Finish, Enter, Closed, TypeOK
  <2>2. Parties(Tx(d)) \subseteq loaded[d]
    BY <1>2 DEF FreezeSender, ApproveTransfer, HasRead, Phases, DecisionAt
  <2> QED
    BY <2>1, <2>2 DEF Parties
<1>3. ASSUME NEW e \in Errands, SetStatus(e) PROVE Stores(e)
  <2>1. x = Target(e) /\ Ends(e)
    BY <1>3 DEF Ends, SetStatus, Proceed, Closed, TypeOK
  <2> QED
    BY <1>3, <2>1 DEF SetStatus, Phases, ErrandAt
<1>4. ASSUME NEW t \in Transfers,
             \/ Authenticate(t) \/ RefuseKey(t) \/ Replay(t) \/ UseKey(t) \/ InsertKey(t)
             \/ LoseInsertRace(t) \/ ReclaimKey(t) \/ RefuseDraft(t) \/ Validate(t)
             \/ Score(t) \/ ScoreFails(t) \/ CheckConfirmation(t) \/ RefuseConfirmation(t)
             \/ ConsumeConfirmation(t) \/ TakeLock(t) \/ RefuseOverdraft(t)
             \/ MarkKeyFailed(t) \/ InternalError(t) \/ DeadlockedTransfer(t) \/ Crash(t)
      PROVE  FALSE
  BY <1>4 DEF Authenticate, RefuseKey, Replay, Answer, UseKey, InsertKey,
       LoseInsertRace, ReclaimKey, RefuseDraft, Validate, Score, ScoreFails,
       CheckConfirmation, RefuseConfirmation, ConsumeConfirmation, TakeLock, RefuseOverdraft,
       MarkKeyFailed, InternalError, DeadlockedTransfer, Fail, Crash, rows
<1>5. ASSUME NEW d \in Decisions,
             \/ ReadCase(d) \/ ReadTransaction(d) \/ ReadParty(d) \/ RejectTransfer(d)
             \/ RefuseApproval(d) \/ BeginApproval(d) \/ TakeApprovalLock(d)
             \/ RefuseOverdrawnApproval(d) \/ AbandonDecision(d) \/ DeadlockedDecision(d)
      PROVE  FALSE
  BY <1>5 DEF ReadCase, ReadTransaction, ReadParty, RejectTransfer, RefuseApproval,
       BeginApproval, TakeApprovalLock, RefuseOverdrawnApproval, AbandonDecision,
       DeadlockedDecision, rows
<1>6. ASSUME NEW e \in Errands, LoadAccount(e) \/ AbandonErrand(e) PROVE FALSE
  BY <1>6 DEF LoadAccount, AbandonErrand, rows
<1>7. CASE (\E c \in Confirmations : ExpireConfirmation(c)) \/ Midnight \/ UNCHANGED vars
  BY <1>7 DEF ExpireConfirmation, Midnight, vars, rows
<1>8. ASSUME NEW t \in Transfers, \/ Authenticate(t) \/ TransferStep(t) \/ InternalError(t)
                                  \/ Crash(t) \/ DeadlockedTransfer(t)
      PROVE  Stores(t)
  BY <1>1, <1>4, <1>8 DEF TransferStep
<1>9. ASSUME NEW d \in Decisions, \/ ReadCase(d) \/ DecisionStep(d)
                                  \/ AbandonDecision(d) \/ DeadlockedDecision(d)
      PROVE  Stores(d)
  BY <1>2, <1>5, <1>9 DEF DecisionStep
<1>10. ASSUME NEW e \in Errands, LoadAccount(e) \/ SetStatus(e) \/ AbandonErrand(e)
       PROVE  Stores(e)
  BY <1>3, <1>6, <1>10
<1> QED
  BY <1>7, <1>8, <1>9, <1>10 DEF Next, Terminated

(* The reset flag is raised by the validation and dropped with the session.   *)
LEMMA ResettingStep ==
    ASSUME TypeOK, [Next]_vars, NEW t \in Transfers
    PROVE  \/ (t \in resetting' <=> t \in resetting)
           \/ t \notin resetting' /\ loaded'[t] = {} /\ pc'[t] \notin CheckedPhases
           \/ Validate(t)
<1>1. CASE UNCHANGED resetting
  BY <1>1
<1>2. ASSUME NEW u \in Transfers, Validate(u)
      PROVE  (t \in resetting' <=> t \in resetting) \/ Validate(t)
  BY <1>2 DEF Validate
<1>3. ASSUME NEW u \in Transfers,
             \/ RefuseDraft(u) \/ ScoreFails(u) \/ RefuseConfirmation(u) \/ RefuseOverdraft(u)
             \/ QueueForReview(u) \/ Complete(u)
             \/ InternalError(u) \/ DeadlockedTransfer(u) \/ Crash(u)
      PROVE  \/ (t \in resetting' <=> t \in resetting)
             \/ t \notin resetting' /\ loaded'[t] = {} /\ pc'[t] \notin CheckedPhases
  <2>1. /\ resetting' = resetting \ {u} /\ CloseSession(u)
        /\ \E l \in {"failing", "created", "lost"} : pc' = [pc EXCEPT ![u] = l]
    BY <1>3 DEF RefuseDraft, ScoreFails, RefuseConfirmation, RefuseOverdraft, QueueForReview,
         Complete, CommitTransaction, InternalError, DeadlockedTransfer, Fail, Crash, Goto
  <2> QED
    BY <2>1 DEF CloseSession, TypeOK, CheckedPhases
<1>4. ASSUME NEW u \in Transfers,
             \/ Authenticate(u) \/ RefuseKey(u) \/ Replay(u) \/ UseKey(u) \/ InsertKey(u)
             \/ LoseInsertRace(u) \/ ReclaimKey(u) \/ Score(u) \/ CheckConfirmation(u)
             \/ ConsumeConfirmation(u) \/ TakeLock(u) \/ MarkKeyFailed(u)
      PROVE  UNCHANGED resetting
  BY <1>4 DEF Authenticate, RefuseKey, Replay, Answer, UseKey, InsertKey, LoseInsertRace,
       ReclaimKey, Score, CheckConfirmation, ConsumeConfirmation, TakeLock, MarkKeyFailed, locals
<1>5. ASSUME NEW d \in Decisions,
             ReadCase(d) \/ DecisionStep(d) \/ AbandonDecision(d) \/ DeadlockedDecision(d)
      PROVE  UNCHANGED resetting
  BY <1>5 DEF ReadCase, DecisionStep, AbandonDecision, DeadlockedDecision, ReadTransaction,
       ReadParty, RejectTransfer, FreezeSender, RefuseApproval, BeginApproval,
       TakeApprovalLock, ApproveTransfer, RefuseOverdrawnApproval, Finish, locals
<1>6. ASSUME NEW e \in Errands, LoadAccount(e) \/ SetStatus(e) \/ AbandonErrand(e)
      PROVE  UNCHANGED resetting
  BY <1>6 DEF LoadAccount, SetStatus, AbandonErrand, locals
<1>7. CASE (\E c \in Confirmations : ExpireConfirmation(c)) \/ Midnight \/ UNCHANGED vars
  BY <1>1, <1>7 DEF ExpireConfirmation, Midnight, vars, locals
<1> QED
  BY <1>1, <1>2, <1>3, <1>4, <1>5, <1>6, <1>7 DEF Next, TransferStep, Terminated

LEMMA DaysAreNumbers ==
    ASSUME TypeOK, NEW x \in Accounts
    PROVE  /\ day \in Int
           /\ accounts[x].resetDay \in Int
           /\ \A a \in Actors : copy[a][x].resetDay \in Int
<1>1. Days \subseteq Int
  BY BoundAssumption DEF Days
<1>2. accounts[x] \in AccountRow /\ \A a \in Actors : copy[a][x] \in AccountRow
  BY DEF TypeOK
<1> QED
  BY <1>1, <1>2 DEF TypeOK, AccountRow

LEMMA DayGrows ==
    ASSUME TypeOK, [Next]_vars
    PROVE  day' \in Int /\ day <= day'
<1>1. CASE UNCHANGED day
  BY <1>1, BoundAssumption DEF TypeOK, Days
<1>2. CASE Midnight
  BY <1>2, BoundAssumption DEF Midnight, TypeOK, Days
<1>3. ASSUME NEW t \in Transfers, \/ Authenticate(t) \/ TransferStep(t) \/ InternalError(t)
                                  \/ Crash(t) \/ DeadlockedTransfer(t)
      PROVE  UNCHANGED day
  BY <1>3 DEF Authenticate, TransferStep, RefuseKey, Replay, Answer, UseKey, InsertKey,
       LoseInsertRace, ReclaimKey, RefuseDraft, Validate, Score, ScoreFails,
       CheckConfirmation, RefuseConfirmation, ConsumeConfirmation, TakeLock, QueueForReview,
       Complete, RefuseOverdraft, MarkKeyFailed, InternalError, DeadlockedTransfer, Fail, Crash
<1>4. ASSUME NEW d \in Decisions,
             ReadCase(d) \/ DecisionStep(d) \/ AbandonDecision(d) \/ DeadlockedDecision(d)
      PROVE  UNCHANGED day
  BY <1>4 DEF ReadCase, DecisionStep, AbandonDecision, DeadlockedDecision, ReadTransaction,
       ReadParty, RejectTransfer, FreezeSender, RefuseApproval, BeginApproval,
       TakeApprovalLock, ApproveTransfer, RefuseOverdrawnApproval, Finish
<1>5. ASSUME NEW e \in Errands, LoadAccount(e) \/ SetStatus(e) \/ AbandonErrand(e)
      PROVE  UNCHANGED day
  BY <1>5 DEF LoadAccount, SetStatus, AbandonErrand
<1>6. CASE (\E c \in Confirmations : ExpireConfirmation(c)) \/ UNCHANGED vars
  BY <1>1, <1>6 DEF ExpireConfirmation, vars
<1> QED
  BY <1>1, <1>2, <1>3, <1>4, <1>5, <1>6 DEF Next, Terminated

(* The counters of an account change with a commit by its owner's transfer,   *)
(* or with an approval, which leaves the date of the reset alone.            *)
Counts(x) == /\ accounts'[x].daily = accounts[x].daily
             /\ accounts'[x].resetDay = accounts[x].resetDay
             /\ spent'[x] = spent[x]
Spends(t) ==
    /\ pc[t] = "booking"
    /\ accounts'[From(t)].daily = copy[t][From(t)].daily + Amount(t)
    /\ accounts'[From(t)].resetDay = ResetDay(t)
    /\ spent'[From(t)] = [spent[From(t)] EXCEPT ![copy[t][From(t)].resetDay] = @ + Amount(t)]
Resets(t) ==
    /\ pc[t] = "booking" /\ t \in resetting
    /\ accounts'[From(t)].daily = 0
    /\ accounts'[From(t)].resetDay = copy[t][From(t)].resetDay
    /\ spent'[From(t)] = spent[From(t)]

LEMMA CounterStep ==
    ASSUME TypeOK, Phases, [Next]_vars, NEW x \in Accounts
    PROVE  \/ Counts(x)
           \/ \E t \in Transfers : x = From(t) /\ (Spends(t) \/ Resets(t))
           \/ ~NobodyApproves /\ accounts'[x].resetDay = accounts[x].resetDay
<1>1. ASSUME UNCHANGED accounts, UNCHANGED ghosts PROVE Counts(x)
  BY <1>1 DEF Counts, ghosts
<1>2. ASSUME NEW t \in Transfers, Complete(t) PROVE Counts(x) \/ (x = From(t) /\ Spends(t))
  <2>1. Posted(t) /\ pc[t] = "booking"
    BY <1>2 DEF Complete, ReadyToCommit, Phases, TransferAt, CheckedPhases
  <2>2. /\ From(t) \in Accounts /\ To(t) \in Accounts /\ From(t) # To(t)
    BY <2>1, PostedParties
  <2>3. /\ accounts'[From(t)] = Debited(accounts[From(t)], copy[t][From(t)], Amount(t), ResetDay(t))
        /\ accounts'[To(t)] = Credited(accounts[To(t)], copy[t][To(t)], Amount(t))
        /\ \A y \in Accounts \ {From(t), To(t)} : accounts'[y] = accounts[y]
    BY <1>2, <2>2 DEF Complete, TypeOK
  <2>4. spent'[From(t)] = [spent[From(t)] EXCEPT ![copy[t][From(t)].resetDay] = @ + Amount(t)]
    BY <1>2, <2>2 DEF Complete, RecordPosting, TypeOK
  <2>5. CASE x = From(t)
    BY <2>1, <2>3, <2>4, <2>5 DEF Spends, Debited
  <2>6. x # From(t) => spent'[x] = spent[x]
    BY <1>2, <2>2 DEF Complete, RecordPosting, TypeOK
  <2>7. CASE x = To(t)
    <3>1. accounts'[x] = Credited(accounts[x], copy[t][x], Amount(t))
      BY <2>3, <2>7
    <3> QED
      BY <2>2, <2>6, <2>7, <3>1 DEF Counts, Credited
  <2>8. CASE x \notin {From(t), To(t)}
    <3>1. accounts'[x] = accounts[x]
      BY <2>3, <2>8
    <3> QED
      BY <2>6, <2>8, <3>1 DEF Counts
  <2> QED
    BY <2>5, <2>7, <2>8
<1>3. ASSUME NEW t \in Transfers, QueueForReview(t) PROVE Counts(x) \/ (x = From(t) /\ Resets(t))
  <2>1. pc[t] = "booking" /\ From(t) \in Accounts /\ UNCHANGED spent
    BY <1>3, RequestType DEF QueueForReview, ReadyToCommit, ghosts
  <2>2. CASE t \in resetting /\ x = From(t)
    <3>1. accounts'[x] = ResetRow(accounts[x], copy[t][From(t)].resetDay)
      BY <1>3, <2>1, <2>2 DEF QueueForReview, ResetDay, TypeOK
    <3> QED
      BY <2>1, <2>2, <3>1 DEF Resets, ResetRow
  <2>3. CASE t \notin resetting \/ x # From(t)
    <3>1. accounts'[x] = accounts[x]
      BY <1>3, <2>1, <2>3 DEF QueueForReview, TypeOK
    <3> QED
      BY <2>1, <3>1 DEF Counts
  <2> QED
    BY <2>2, <2>3
<1>4. ASSUME NEW d \in Decisions, ApproveTransfer(d)
      PROVE  ~NobodyApproves /\ accounts'[x].resetDay = accounts[x].resetDay
  <2>1. Tx(d) \in Transfers /\ Posted(Tx(d))
    BY <1>4, RulingType DEF ApproveTransfer, Phases, DecisionAt
  <2> DEFINE t == Tx(d)
  <2>2. /\ From(t) \in Accounts /\ To(t) \in Accounts /\ From(t) # To(t)
    BY <2>1, PostedParties
  <2>3. /\ accounts'[From(t)] = Debited(accounts[From(t)], copy[d][From(t)], Amount(t),
                                        accounts[From(t)].resetDay)
        /\ accounts'[To(t)] = Credited(accounts[To(t)], copy[d][To(t)], Amount(t))
        /\ \A y \in Accounts \ {From(t), To(t)} : accounts'[y] = accounts[y]
    BY <1>4, <2>2 DEF ApproveTransfer, TypeOK
  <2>4. ~NobodyApproves
    BY <1>4 DEF ApproveTransfer, NobodyApproves
  <2> HIDE DEF t
  <2> QED
    BY <2>3, <2>4 DEF Debited, Credited
<1>5. ASSUME NEW y \in Accounts, NEW s,
             accounts' = [accounts EXCEPT ![y].status = s], UNCHANGED spent
      PROVE  Counts(x)
  <2>1. accounts[y] \in AccountRow
    BY DEF TypeOK
  <2>2. accounts'[y] = [accounts[y] EXCEPT !.status = s]
        /\ \A z \in Accounts \ {y} : accounts'[z] = accounts[z]
    BY <1>5 DEF TypeOK
  <2> QED
    BY <1>5, <2>1, <2>2 DEF Counts, AccountRow
<1>6. ASSUME NEW d \in Decisions, FreezeSender(d) PROVE Counts(x)
  <2>1. From(Tx(d)) \in Accounts
    BY RulingType, RequestType
  <2>2. UNCHANGED ghosts
    BY <1>6 DEF FreezeSender
  <2>3. UNCHANGED accounts \/ accounts' = [accounts EXCEPT ![From(Tx(d))].status = "frozen"]
    BY <1>6 DEF FreezeSender
  <2>4. CASE UNCHANGED accounts
    BY <1>1, <2>2, <2>4
  <2> QED
    BY <1>5, <2>1, <2>2, <2>3, <2>4 DEF ghosts
<1>7. ASSUME NEW e \in Errands, SetStatus(e) PROVE Counts(x)
  <2>1. Target(e) \in Accounts
    BY DEF TypeOK, Target
  <2>2. UNCHANGED ghosts
    BY <1>7 DEF SetStatus
  <2>3. UNCHANGED accounts \/ accounts' = [accounts EXCEPT ![Target(e)].status = errand[e].status]
    BY <1>7 DEF SetStatus
  <2>4. CASE UNCHANGED accounts
    BY <1>1, <2>2, <2>4
  <2> QED
    BY <1>5, <2>1, <2>2, <2>3, <2>4 DEF ghosts
<1>8. ASSUME NEW t \in Transfers,
             \/ Authenticate(t) \/ RefuseKey(t) \/ Replay(t) \/ UseKey(t) \/ InsertKey(t)
             \/ LoseInsertRace(t) \/ ReclaimKey(t) \/ RefuseDraft(t) \/ Validate(t)
             \/ Score(t) \/ ScoreFails(t) \/ CheckConfirmation(t) \/ RefuseConfirmation(t)
             \/ ConsumeConfirmation(t) \/ TakeLock(t) \/ RefuseOverdraft(t)
             \/ MarkKeyFailed(t) \/ InternalError(t) \/ DeadlockedTransfer(t) \/ Crash(t)
      PROVE  UNCHANGED accounts /\ UNCHANGED ghosts
  BY <1>8 DEF Authenticate, RefuseKey, Replay, Answer, UseKey, InsertKey, LoseInsertRace,
       ReclaimKey, RefuseDraft, Validate, Score, ScoreFails, CheckConfirmation,
       RefuseConfirmation, ConsumeConfirmation, TakeLock, RefuseOverdraft, MarkKeyFailed,
       InternalError, DeadlockedTransfer, Fail, Crash, rows
<1>9. ASSUME NEW d \in Decisions,
             \/ ReadCase(d) \/ ReadTransaction(d) \/ ReadParty(d) \/ RejectTransfer(d)
             \/ RefuseApproval(d) \/ BeginApproval(d) \/ TakeApprovalLock(d)
             \/ RefuseOverdrawnApproval(d) \/ AbandonDecision(d) \/ DeadlockedDecision(d)
      PROVE  UNCHANGED accounts /\ UNCHANGED ghosts
  BY <1>9 DEF ReadCase, ReadTransaction, ReadParty, RejectTransfer, RefuseApproval,
       BeginApproval, TakeApprovalLock, RefuseOverdrawnApproval, AbandonDecision,
       DeadlockedDecision, rows
<1>10. ASSUME NEW e \in Errands, LoadAccount(e) \/ AbandonErrand(e)
       PROVE  UNCHANGED accounts /\ UNCHANGED ghosts
  BY <1>10 DEF LoadAccount, AbandonErrand, rows
<1>11. CASE (\E c \in Confirmations : ExpireConfirmation(c)) \/ Midnight \/ UNCHANGED vars
  BY <1>1, <1>11 DEF ExpireConfirmation, Midnight, vars, rows
<1>12. CASE \E t \in Transfers : \/ Authenticate(t) \/ TransferStep(t) \/ InternalError(t)
                                 \/ Crash(t) \/ DeadlockedTransfer(t)
  BY <1>1, <1>2, <1>3, <1>8, <1>12 DEF TransferStep
<1>13. CASE \E d \in Decisions : \/ ReadCase(d) \/ DecisionStep(d)
                                 \/ AbandonDecision(d) \/ DeadlockedDecision(d)
  BY <1>1, <1>4, <1>6, <1>9, <1>13 DEF DecisionStep
<1> QED
  BY <1>1, <1>7, <1>10, <1>11, <1>12, <1>13 DEF Next, Terminated

LEMMA LeavesChecked ==
    ASSUME TypeOK, [Next]_vars, NEW t \in Transfers,
           pc[t] \in CheckedPhases, pc'[t] \notin CheckedPhases
    PROVE  t \notin resetting'
<1> USE DEF CheckedPhases
<1>1. CASE \/ Score(t) \/ CheckConfirmation(t) \/ ConsumeConfirmation(t)
  BY <1>1 DEF Score, CheckConfirmation, ConsumeConfirmation, Goto, TypeOK
<1>2. CASE \/ RefuseDraft(t) \/ ScoreFails(t) \/ RefuseConfirmation(t) \/ RefuseOverdraft(t)
           \/ QueueForReview(t) \/ Complete(t)
           \/ InternalError(t) \/ DeadlockedTransfer(t) \/ Crash(t)
  BY <1>2 DEF RefuseDraft, ScoreFails, RefuseConfirmation, RefuseOverdraft, QueueForReview,
         Complete, CommitTransaction, InternalError, DeadlockedTransfer, Fail, Crash
<1>3. CASE \/ Authenticate(t) \/ RefuseKey(t) \/ Replay(t) \/ UseKey(t) \/ InsertKey(t)
           \/ LoseInsertRace(t) \/ ReclaimKey(t) \/ Validate(t) \/ MarkKeyFailed(t)
  BY <1>3 DEF Authenticate, RefuseKey, Replay, UseKey, InsertKey, LoseInsertRace, ReclaimKey,
       Validate, MarkKeyFailed
<1>4. CASE TakeLock(t)
  BY <1>4 DEF TakeLock
<1> QED
  BY <1>1, <1>2, <1>3, <1>4, OwnPhase DEF TransferStep

(* A row that a session keeps is still what is stored.                       *)
LEMMA KeptRow ==
    ASSUME TypeOK, Phases, AccountsApart, [Next]_vars,
           NEW a \in Actors, NEW x \in loaded'[a]
    PROVE  accounts'[x] = accounts[x]
<1>1. x \in Accounts
  <2>1. TypeOK'
    BY InductiveTypes
  <2> QED
    BY <2>1 DEF TypeOK
<1>2. ASSUME NEW b \in Actors, x \in loaded[b], Ends(b) PROVE FALSE
  <2>1. a # b /\ x \in loaded[a]
    BY <1>2 DEF Ends, CloseSession, TypeOK
  <2> QED
    BY <1>2, <2>1 DEF AccountsApart
<1> QED
  BY <1>1, <1>2, RowWriter

LEMMA FreshRowStep ==
    ASSUME TypeOK, Phases, AccountsApart, RowsInv, [Next]_vars,
           NEW a \in Actors, NEW x \in loaded'[a]
    PROVE  FreshRow(a, x)'
<1>0. UNCHANGED request /\ accounts'[x] = accounts[x] /\ x \in Accounts
  <2>1. TypeOK'
    BY InductiveTypes
  <2> QED
    BY <2>1, FixedInputs, KeptRow DEF inputs, TypeOK
<1>1. /\ View(a, x).status = accounts[x].status
      /\ a \in resetting /\ x = From(a) => x \in loaded[a]
      /\ ~(a \in resetting /\ x = From(a)) =>
            View(a, x).daily = accounts[x].daily /\ View(a, x).resetDay = accounts[x].resetDay
  <2>1. a \in resetting /\ x = From(a) => x \in loaded[a]
    BY <1>0 DEF RowsInv, Phases, TransferAt, Parties, TypeOK
  <2> QED
    BY <2>1 DEF RowsInv, FreshRow, View
<1>2. CASE a \in Transfers /\ Validate(a) /\ x = From(a)
  <2>1. /\ copy'[a][x] = Today(View(a, x))
        /\ resetting' = IF NeedsReset(View(a, x)) THEN resetting \cup {a} ELSE resetting
        /\ day' = day
        /\ To(a) # x
    BY <1>0, <1>2 DEF Validate, Accepts, TypeOK
  <2>2. a \notin resetting
    BY <1>2 DEF Validate, RowsInv, CheckedPhases
  <2>3. accounts[x].resetDay <= day /\ accounts[x].resetDay \in Int /\ day \in Int
    BY <1>0 DEF RowsInv, TypeOK, AccountRow, Days
  <2>4. CASE NeedsReset(View(a, x))
    <3>1. copy'[a][x] = ResetRow(View(a, x), day) /\ a \in resetting'
      BY <2>1, <2>4 DEF Today
    <3>2. accounts[x].resetDay < day
      BY <1>1, <2>2, <2>3, <2>4 DEF NeedsReset
    <3> QED
      BY <1>0, <1>1, <1>2, <2>1, <2>3, <3>1, <3>2 DEF FreshRow, ResetRow, From
  <2>5. CASE ~NeedsReset(View(a, x))
    BY <1>0, <1>1, <2>1, <2>2, <2>5 DEF FreshRow, Today
  <2> QED
    BY <2>4, <2>5
<1>3. CASE ~(a \in Transfers /\ Validate(a) /\ x = From(a))
  <2>1. copy'[a][x] = View(a, x)
    BY <1>0, <1>3, SessionStep DEF Loads, ReadFromTable
  <2>2. a \in resetting' /\ x = From(a) <=> a \in resetting /\ x = From(a)
    <3>1. CASE a \in Transfers
      BY <1>3, <3>1, ResettingStep
    <3>2. CASE a \notin Transfers
      <4>1. TypeOK'
        BY InductiveTypes
      <4> QED
        BY <3>2, <4>1 DEF TypeOK
    <3> QED
      BY <3>1, <3>2
  <2>3. CASE a \in resetting /\ x = From(a)
    <3>1. FreshRow(a, x) /\ View(a, x) = copy[a][x]
      BY <1>1, <2>3 DEF RowsInv, View
    <3>2. copy[a][x].resetDay \in Int /\ day \in Int /\ day' \in Int /\ day <= day'
      BY <1>0, DayGrows, DaysAreNumbers
    <3> QED
      BY <1>0, <2>1, <2>2, <2>3, <3>1, <3>2 DEF FreshRow, From
  <2>4. CASE ~(a \in resetting /\ x = From(a))
    BY <1>0, <1>1, <2>1, <2>2, <2>4 DEF FreshRow, From
  <2> QED
    BY <2>3, <2>4
<1> QED
  BY <1>2, <1>3

LEMMA RowsInvStep ==
    ASSUME TypeOK, Phases, AccountsApart, RowsInv, [Next]_vars
    PROVE  RowsInv'
<1>0. TypeOK' /\ Phases' /\ UNCHANGED request
  BY InductiveTypes, FixedInputs DEF inputs
<1>1. ASSUME NEW t \in resetting' PROVE pc'[t] \in CheckedPhases
  <2>1. t \in Transfers
    BY <1>0 DEF TypeOK
  <2>2. CASE Validate(t)
    BY <2>1, <2>2 DEF Validate, Goto, TypeOK, CheckedPhases
  <2>3. CASE t \in resetting
    BY <2>1, <2>3, LeavesChecked DEF RowsInv
  <2> QED
    BY <2>1, <2>2, <2>3, ResettingStep
<1>2. ASSUME NEW t \in Transfers, pc'[t] \in CheckedPhases PROVE Sound(t)'
  <2>1. Parties(t)' = Parties(t) /\ From(t)' = From(t) /\ Amount(t)' = Amount(t)
    BY <1>0 DEF Parties, From, To, Amount
  <2>2. /\ Parties(t) \subseteq loaded'[t] /\ From(t) \in loaded'[t] /\ From(t) \in Accounts
        /\ \A x \in Parties(t) : accounts'[x] = accounts[x]
    BY <1>0, <1>2, <2>1, KeptRow, RequestType DEF Phases, TransferAt, Parties
  <2>3. CASE Validate(t)
    <3>1. \A x \in Parties(t) : View(t, x).status = accounts[x].status
      BY DEF RowsInv, FreshRow, View
    <3>2. copy'[t][From(t)] = Today(View(t, From(t)))
      BY <2>2, <2>3 DEF Validate, Accepts, TypeOK
    <3> QED
      BY <2>1, <2>2, <2>3, <3>1, <3>2 DEF Validate, Accepts, BothActive, WithinDailyLimit, Sound
  <2>4. CASE pc[t] \in CheckedPhases
    <3>1. ~Validate(t) /\ From(t) \in loaded[t] /\ Sound(t)
      BY <2>2, <2>4 DEF Validate, CheckedPhases, Phases, TransferAt, Parties, RowsInv
    <3>2. copy'[t][From(t)] = copy[t][From(t)]
      BY <2>2, <3>1, SessionStep DEF Loads, ReadFromTable, View
    <3> QED
      BY <2>1, <2>2, <3>1, <3>2 DEF Sound
  <2> QED
    BY <1>2, <2>3, <2>4, Doors
<1>3. ASSUME NEW x \in Accounts PROVE accounts'[x].resetDay <= day'
  <2>1. /\ accounts[x].resetDay \in Int /\ day \in Int /\ day' \in Int /\ day <= day'
        /\ accounts[x].resetDay <= day
    BY DayGrows, DaysAreNumbers DEF RowsInv
  <2>2. CASE accounts'[x].resetDay = accounts[x].resetDay
    BY <2>1, <2>2
  <2>3. ASSUME NEW t \in Transfers, x = From(t), Spends(t) \/ Resets(t)
        PROVE  accounts'[x].resetDay <= day'
    <3>1. x \in loaded[t]
      BY <2>3 DEF Spends, Resets, Phases, TransferAt, CheckedPhases, Parties
    <3>2. FreshRow(t, x) /\ copy[t][x].resetDay \in Int
      BY <3>1 DEF RowsInv, TypeOK, AccountRow, Days
    <3>3. t \in resetting => copy[t][x].resetDay <= day
      BY <2>3, <3>2 DEF FreshRow
    <3> QED
      BY <2>1, <2>3, <3>2, <3>3 DEF Spends, Resets, ResetDay
  <2> QED
    BY <2>2, <2>3, CounterStep DEF Counts
<1> QED
  BY <1>1, <1>2, <1>3, FreshRowStep DEF RowsInv

LEMMA RowsAlways == Spec /\ []AccountsApart => []RowsInv
<1>1. Init => RowsInv
  BY BoundAssumption DEF Init, RowsInv, OpenedAccounts, OpenedAccount, CheckedPhases
<1>2. TypeOK /\ Phases /\ AccountsApart /\ RowsInv /\ [Next]_vars => RowsInv'
  BY RowsInvStep
<1> QED
  BY <1>1, <1>2, TypeCorrect, PTL DEF Spec

(* As long as no two requests work on the same account at the same time, a     *)
(* transfer is paid between accounts that are active when it commits, although *)
(* the status was read long before.                                         *)
THEOREM OnlySharedAccountsPayFrozen ==
    Spec /\ []AccountsApart => OnlyActiveAccountsPay
<1> DEFINE Active == \A t \in Transfers : txs[t] = "absent" /\ txs'[t] = "completed" =>
                        \A x \in Parties(t) : accounts[x].status = "active"
<1>1. TypeOK /\ Phases /\ RowsInv /\ StatusInv /\ [Next]_vars => [Active]_vars
  <2> SUFFICES ASSUME TypeOK, Phases, RowsInv, StatusInv, [Next]_vars,
                      NEW t \in Transfers, txs[t] = "absent", txs'[t] = "completed"
               PROVE  \A x \in Parties(t) : accounts[x].status = "active"
    OBVIOUS
  <2>1. ASSUME NEW d \in Decisions, Rules(d) PROVE FALSE
    <3>1. Tx(d) \in Transfers /\ txs[Tx(d)] # "absent"
      BY <2>1, RulingType DEF Rules, StatusInv, CasesAreReal
    <3> QED
      BY <2>1, <3>1 DEF Rules, TypeOK
  <2>2. ASSUME NEW u \in Transfers, Books(u) PROVE u = t /\ pc[t] = "booking"
    BY <2>2 DEF Books, TypeOK
  <2>3. ~Rests
    BY DEF Rests
  <2> QED
    BY <2>1, <2>2, <2>3, StatusStep DEF RowsInv, Sound, CheckedPhases
<1> HIDE DEF Active
<1>2. Spec /\ []AccountsApart => [][Active]_vars
  BY <1>1, RowsAlways, TypeCorrect, StatusAlways, PTL DEF Spec
<1> QED
  BY <1>2 DEF OnlyActiveAccountsPay, Active

-----------------------------------------------------------------------------
(* The daily limit.  Where nobody approves queued transfers, the counter of    *)
(* an account is what it spent on the day of its last reset, and it spent    *)
(* nothing on a later day.                                                  *)
Counted(x) ==
    /\ spent[x][accounts[x].resetDay] = accounts[x].daily
    /\ \A d \in Days : /\ d > accounts[x].resetDay => spent[x][d] = 0
                       /\ spent[x][d] <= DailyLimit[x]

LEMMA CountedStep ==
    ASSUME TypeOK, Phases, RowsInv, NobodyApproves, [Next]_vars,
           NEW x \in Accounts, Counted(x)
    PROVE  Counted(x)'
<1>1. CASE Counts(x)
  BY <1>1 DEF Counts, Counted
<1>2. ASSUME NEW t \in Transfers, x = From(t), Spends(t) \/ Resets(t) PROVE Counted(x)'
  <2> DEFINE row == copy[t][x]
  <2>1. x \in loaded[t] /\ pc[t] \in CheckedPhases
    BY <1>2 DEF Spends, Resets, Phases, TransferAt, CheckedPhases, Parties
  <2>2. FreshRow(t, x) /\ Sound(t)
    BY <2>1 DEF RowsInv
  <2>3. /\ accounts[x].resetDay \in Int /\ row.resetDay \in Days /\ row.daily \in Int /\ Days \subseteq Int
        /\ spent[x] \in [Days -> Nat] /\ Amount(t) \in Nat /\ DailyLimit[x] \in Int
    <3>1. Days \subseteq Int
      BY BoundAssumption DEF Days
    <3>2. row \in AccountRow
      BY DEF TypeOK
    <3>3. row.resetDay \in Days /\ row.daily \in Int
      BY <3>2 DEF AccountRow
    <3>4. accounts[x].resetDay \in Int
      BY DaysAreNumbers
    <3>5. Amount(t) \in Nat
      BY RequestType
    <3>6. spent[x] \in [Days -> Nat]
      BY DEF TypeOK
    <3>7. DailyLimit[x] \in Int
      BY AccountAssumption
    <3> QED
      BY <3>1, <3>3, <3>4, <3>5, <3>6, <3>7
  <2>4. /\ accounts[x].resetDay <= row.resetDay
        /\ spent[x][row.resetDay] = row.daily
    <3>1. CASE t \in resetting
      <4>1. row.daily = 0 /\ accounts[x].resetDay < row.resetDay
        BY <1>2, <2>2, <3>1 DEF FreshRow
      <4>2. spent[x][row.resetDay] = 0
        BY <2>3, <4>1 DEF Counted
      <4>3. row.resetDay \in Int
        BY <2>3
      <4>4. accounts[x].resetDay <= row.resetDay
        BY <2>3, <4>1, <4>3
      <4>5. spent[x][row.resetDay] = row.daily
        BY <4>1, <4>2
      <4> QED
        BY <4>4, <4>5
    <3>2. CASE t \notin resetting
      <4>1. row.resetDay = accounts[x].resetDay /\ row.daily = accounts[x].daily
        BY <1>2, <2>2, <3>2 DEF FreshRow
      <4> QED
        BY <2>3, <4>1 DEF Counted
    <3> QED
      BY <3>1, <3>2
  <2>5. row.daily + Amount(t) <= DailyLimit[x]
    BY <1>2, <2>2 DEF Sound
  <2>6. PICK r \in Days : r = row.resetDay
    BY <2>3
  <2>7. PICK s : s = spent'[x]
    OBVIOUS
  <2>8. CASE Spends(t)
    <3>1. accounts'[x].resetDay = r
      BY <1>2, <2>2, <2>6, <2>8 DEF Spends, ResetDay, FreshRow
    <3>2. accounts'[x].daily = row.daily + Amount(t)
      BY <1>2, <2>8 DEF Spends
    <3>3. s = [spent[x] EXCEPT ![r] = @ + Amount(t)]
      BY <1>2, <2>6, <2>7, <2>8 DEF Spends
    <3>4. s[r] = row.daily + Amount(t) /\ \A d \in Days \ {r} : s[d] = spent[x][d]
      BY <2>3, <2>4, <2>6, <3>3
    <3>5. ASSUME NEW d \in Days PROVE (d > r => s[d] = 0) /\ s[d] <= DailyLimit[x]
      <4>1. CASE d = r
        BY <2>3, <2>5, <3>4, <4>1
      <4>2. CASE d # r
        <5>1. d > r => d > accounts[x].resetDay
          BY <2>3, <2>4, <2>6
        <5> QED
          BY <3>4, <4>2, <5>1 DEF Counted
      <4> QED
        BY <4>1, <4>2
    <3> QED
      BY <2>7, <3>1, <3>2, <3>4, <3>5 DEF Counted
  <2>9. CASE Resets(t)
    <3>1. accounts'[x].resetDay = r /\ accounts'[x].daily = 0 /\ s = spent[x]
      BY <1>2, <2>6, <2>7, <2>9 DEF Resets
    <3>2. row.daily = 0
      BY <1>2, <2>2, <2>9 DEF Resets, FreshRow
    <3>3. s[r] = 0
      BY <2>4, <2>6, <3>1, <3>2
    <3>4. ASSUME NEW d \in Days PROVE (d > r => s[d] = 0) /\ s[d] <= DailyLimit[x]
      <4>1. d > r => d > accounts[x].resetDay
        BY <2>3, <2>4, <2>6
      <4> QED
        BY <3>1, <4>1 DEF Counted
    <3> QED
      BY <2>7, <3>1, <3>3, <3>4 DEF Counted
  <2> QED
    BY <1>2, <2>8, <2>9
<1> QED
  BY <1>1, <1>2, CounterStep

(* As long as no two requests work on the same account at the same time and     *)
(* nobody approves queued transfers, no account spends more in a day than its  *)
(* limit, midnights included.                                               *)
THEOREM OnlySharedAccountsOrApprovalsOverspend ==
    Spec /\ [](AccountsApart /\ NobodyApproves) => []DailyLimitKept
<1> DEFINE Inv == \A x \in Accounts : Counted(x)
<1>1. Init => Inv
  BY AccountAssumption, BoundAssumption DEF Init, Counted, OpenedAccounts, OpenedAccount, Days
<1>2. TypeOK /\ Phases /\ RowsInv /\ NobodyApproves /\ Inv /\ [Next]_vars => Inv'
  BY CountedStep
<1>3. Inv => DailyLimitKept
  BY DEF Counted, DailyLimitKept
<1> HIDE DEF Inv
<1> QED
  BY <1>1, <1>2, <1>3, RowsAlways, TypeCorrect, PTL DEF Spec

-----------------------------------------------------------------------------
(* Requests that do not overlap (Overlapping = FALSE).  One handler is in       *)
(* flight at a time, only its session holds rows, and all four overlaps are   *)
(* out of the question, after any number of crashes, errors and retries.     *)
OneAtATime == \A a, b \in Actors : InFlight(a) /\ InFlight(b) => a = b
IdleIsEmpty == \A a \in Actors : ~InFlight(a) \/ pc[a] = "failing" => loaded[a] = {}

(* The control of a step: which handler moves, and what its session keeps.   *)
Moves(a) == /\ \A b \in Actors \ {a} : pc'[b] = pc[b] /\ loaded'[b] = loaded[b]
            /\ InFlight(a) \/ MayStart
            /\ pc'[a] \in Closed \cup {"failing", "unsent"} => loaded'[a] = {}

LEMMA ControlStep ==
    ASSUME TypeOK, IdleIsEmpty, [Next]_vars
    PROVE  UNCHANGED <<pc, loaded>> \/ \E a \in Actors : Moves(a)
<1> USE DEF Goto, Enter, Proceed
<1>1. ASSUME NEW t \in Transfers, Authenticate(t) PROVE Moves(t)
  BY <1>1, SelectFrame DEF Authenticate, Moves, TypeOK, Closed
<1>2. ASSUME NEW t \in Transfers,
             \/ RefuseKey(t) \/ Replay(t) \/ LoseInsertRace(t) \/ RefuseDraft(t)
             \/ ScoreFails(t) \/ RefuseConfirmation(t) \/ RefuseOverdraft(t)
             \/ QueueForReview(t) \/ Complete(t)
             \/ InternalError(t) \/ DeadlockedTransfer(t) \/ Crash(t)
      PROVE  Moves(t)
  <2>1. CloseSession(t) /\ \E l \in Labels : pc' = [pc EXCEPT ![t] = l]
    BY <1>2 DEF RefuseKey, Replay, LoseInsertRace, Answer, RefuseDraft, ScoreFails,
       RefuseConfirmation, RefuseOverdraft, QueueForReview, Complete, CommitTransaction,
       InternalError, DeadlockedTransfer, Fail, Crash, Labels, Closed
  <2>2. InFlight(t)
    BY <1>2 DEF RefuseKey, Replay, LoseInsertRace, RefuseDraft, ScoreFails,
       RefuseConfirmation, RefuseOverdraft, QueueForReview, Complete, ReadyToCommit,
       InternalError, DeadlockedTransfer, Crash, InFlight, Closed, Nested
  <2>3. loaded'[t] = {}
    BY <2>1 DEF CloseSession, TypeOK
  <2> QED
    BY <2>1, <2>2, <2>3, CloseFrame DEF Moves, TypeOK
<1>3. ASSUME NEW t \in Transfers, \/ UseKey(t) \/ InsertKey(t) \/ ReclaimKey(t) \/ Score(t)
                                  \/ CheckConfirmation(t) \/ ConsumeConfirmation(t)
      PROVE  Moves(t)
  BY <1>3 DEF UseKey, InsertKey, ReclaimKey, Score, CheckConfirmation, ConsumeConfirmation,
              Moves, TypeOK, InFlight, Closed, sessions
<1>4. ASSUME NEW t \in Transfers, Validate(t) PROVE Moves(t)
  BY <1>4 DEF Validate, Moves, TypeOK, InFlight, Closed
<1>5. ASSUME NEW t \in Transfers, MarkKeyFailed(t) PROVE Moves(t)
  BY <1>5 DEF MarkKeyFailed, Moves, TypeOK, InFlight, Closed, IdleIsEmpty, sessions
<1>6. ASSUME NEW t \in Transfers, TakeLock(t) PROVE UNCHANGED <<pc, loaded>>
  BY <1>6 DEF TakeLock, sessions
<1>7. ASSUME NEW d \in Decisions, ReadCase(d) \/ BeginApproval(d) PROVE Moves(d)
  BY <1>7 DEF ReadCase, BeginApproval, HasRead, Moves, TypeOK, InFlight, Closed, sessions
<1>8. ASSUME NEW d \in Decisions, ReadTransaction(d) \/ TakeApprovalLock(d)
      PROVE  UNCHANGED <<pc, loaded>>
  BY <1>8 DEF ReadTransaction, TakeApprovalLock, sessions
<1>9. ASSUME NEW d \in Decisions, ReadParty(d) PROVE Moves(d)
  BY <1>9, SelectFrame DEF ReadParty, Moves, InFlight, Closed
<1>10. ASSUME NEW d \in Decisions,
              \/ RejectTransfer(d) \/ FreezeSender(d) \/ RefuseApproval(d)
              \/ ApproveTransfer(d) \/ RefuseOverdrawnApproval(d)
              \/ AbandonDecision(d) \/ DeadlockedDecision(d)
      PROVE  Moves(d)
  <2>1. InFlight(d) /\ \E l \in Closed : Finish(d, l)
    BY <1>10 DEF RejectTransfer, FreezeSender, RefuseApproval, ApproveTransfer, HasRead,
         RefuseOverdrawnApproval, AbandonDecision, DeadlockedDecision, InFlight, Closed
  <2>2. loaded'[d] = {}
    BY <2>1 DEF Finish, CloseSession, TypeOK
  <2> QED
    BY <2>1, <2>2, CloseFrame DEF Finish, Moves, TypeOK
<1>11. ASSUME NEW e \in Errands, LoadAccount(e) PROVE Moves(e)
  BY <1>11, SelectFrame DEF LoadAccount, Moves, TypeOK, Closed
<1>12. ASSUME NEW e \in Errands, SetStatus(e) \/ AbandonErrand(e) PROVE Moves(e)
  <2>1. loaded'[e] = {} /\ InFlight(e)
    BY <1>12 DEF SetStatus, AbandonErrand, CloseSession, TypeOK, InFlight, Closed
  <2> QED
    BY <1>12, <2>1, CloseFrame DEF SetStatus, AbandonErrand, Moves, TypeOK
<1>13. CASE (\E c \in Confirmations : ExpireConfirmation(c)) \/ Midnight \/ UNCHANGED vars
  BY <1>13 DEF ExpireConfirmation, Midnight, vars, sessions
<1>14. CASE \E t \in Transfers : \/ Authenticate(t) \/ TransferStep(t) \/ InternalError(t)
                                 \/ Crash(t) \/ DeadlockedTransfer(t)
  BY <1>1, <1>2, <1>3, <1>4, <1>5, <1>6, <1>14 DEF TransferStep
<1>15. CASE \E d \in Decisions : \/ ReadCase(d) \/ DecisionStep(d)
                                 \/ AbandonDecision(d) \/ DeadlockedDecision(d)
  BY <1>7, <1>8, <1>9, <1>10, <1>15 DEF DecisionStep
<1> QED
  BY <1>11, <1>12, <1>13, <1>14, <1>15 DEF Next, Terminated

(* No other handler is in flight, before or after the step.                 *)
LEMMA OneAtATimeStep ==
    ASSUME TypeOK, OneAtATime, IdleIsEmpty, ~Overlapping, [Next]_vars
    PROVE  OneAtATime' /\ IdleIsEmpty'
<1>1. CASE UNCHANGED <<pc, loaded>>
  BY <1>1 DEF OneAtATime, IdleIsEmpty, InFlight
<1>2. ASSUME NEW a \in Actors, Moves(a) PROVE OneAtATime' /\ IdleIsEmpty'
  <2>1. \A b \in Actors \ {a} : ~InFlight(b)
    BY <1>2 DEF Moves, MayStart, OneAtATime
  <2>2. \A b \in Actors \ {a} : ~InFlight(b)'
    BY <1>2, <2>1 DEF Moves, InFlight
  <2>3. OneAtATime'
    BY <2>2 DEF OneAtATime
  <2>4. \A b \in Actors \ {a} : loaded'[b] = {}
    BY <1>2, <2>1 DEF Moves, IdleIsEmpty
  <2>5. ~InFlight(a)' \/ pc'[a] = "failing" => loaded'[a] = {}
    BY <1>2 DEF Moves, InFlight
  <2> QED
    BY <2>3, <2>4, <2>5 DEF IdleIsEmpty
<1> QED
  BY <1>1, <1>2, ControlStep

LEMMA NothingShared ==
    ASSUME OneAtATime, IdleIsEmpty, SeenByHandler
    PROVE  AccountsApart /\ ApprovalsApart /\ TakeoversApart /\ ConfirmationsApart
<1> USE DEF OneAtATime, InFlight, Closed
<1>1. AccountsApart
  BY DEF AccountsApart, IdleIsEmpty
<1>2. ApprovalsApart
  BY DEF ApprovalsApart, ReadyToApprove, SeenByHandler
<1>3. TakeoversApart
  BY DEF TakeoversApart, Nested
<1>4. ConfirmationsApart
  BY DEF ConfirmationsApart, UsesConfirmation
<1> QED
  BY <1>1, <1>2, <1>3, <1>4

LEMMA SerialRequestsAreApart ==
    ASSUME ~Overlapping
    PROVE  Spec => [](AccountsApart /\ ApprovalsApart /\ TakeoversApart /\ ConfirmationsApart)
<1> DEFINE Inv == OneAtATime /\ IdleIsEmpty
<1>1. Init => Inv
  BY DEF Init, OneAtATime, IdleIsEmpty, InFlight
<1>2. TypeOK /\ Inv /\ [Next]_vars => Inv'
  BY OneAtATimeStep
<1>3. Inv /\ SeenByHandler
        => AccountsApart /\ ApprovalsApart /\ TakeoversApart /\ ConfirmationsApart
  BY NothingShared
<1> HIDE DEF Inv
<1> QED
  BY <1>1, <1>2, <1>3, TypeCorrect, SeenAlways, PTL DEF Spec

(* Without overlapping requests every account holds its opening balance plus *)
(* what was posted to it, after any number of crashes, errors and retries.  *)
THEOREM BooksAlwaysBalance ==
    ASSUME ~Overlapping
    PROVE  Spec => []BooksBalance
BY SerialRequestsAreApart, OnlySharedAccountsLoseMoney, PTL

(* Without overlapping decisions no transfer is approved, or paid, twice.    *)
THEOREM NothingIsPostedTwice ==
    ASSUME ~Overlapping
    PROVE  Spec => []PostedAtMostOnce
BY SerialRequestsAreApart, OnlyRacingApprovalsPayTwice, PTL

(* Without overlapping requests the database implements the ledger: each     *)
(* transfer is posted once, in one step, out of money the sender has.       *)
THEOREM DatabaseImplementsLedger ==
    ASSUME ~Overlapping
    PROVE  Spec => ImplementsLedger
BY SerialRequestsAreApart, ApartRequestsImplementLedger, PTL

(* Without overlapping requests a key never stands for two transactions,      *)
(* however often a request is retried after errors and crashes.             *)
THEOREM KeysPayOnce ==
    ASSUME ~Overlapping
    PROVE  Spec => []OncePerKey
BY SerialRequestsAreApart, OnlyRacingTakeoversReuseKeys, PTL

(* Without overlapping requests a code or challenge confirms one transfer.    *)
THEOREM ConfirmationsPayOnce ==
    ASSUME ~Overlapping
    PROVE  Spec => []OneTransferPerConfirmation
BY SerialRequestsAreApart, OnlyRacingRequestsReuseConfirmations, PTL

(* Without overlapping requests a transfer is paid between accounts that are   *)
(* active when it commits, although the status was read long before.         *)
THEOREM FrozenAccountsDoNotPay ==
    ASSUME ~Overlapping
    PROVE  Spec => OnlyActiveAccountsPay
BY SerialRequestsAreApart, OnlySharedAccountsPayFrozen, PTL

(* Without overlapping requests, and with nobody approving queued transfers,   *)
(* no account spends more in a day than its limit, midnights included.       *)
THEOREM LimitsHold ==
    ASSUME ~Overlapping, Decisions = {}
    PROVE  Spec => []DailyLimitKept
<1>1. NobodyApproves
  BY DEF NobodyApproves
<1> QED
  BY <1>1, SerialRequestsAreApart, OnlySharedAccountsOrApprovalsOverspend, PTL
=============================================================================
