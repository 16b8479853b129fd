------------------------------- MODULE Banking -------------------------------
(***************************************************************************)
(* The money core: transfer requests, fraud case decisions and account      *)
(* freezes running against one database, with crashes, database errors,     *)
(* deadlock victims, expiring confirmations and midnights.                  *)
(***************************************************************************)
EXTENDS Transfers, FraudReview, AccountAdmin

Init ==
    /\ accounts = OpenedAccounts
    /\ txs = [t \in Transfers |-> "absent"]
    /\ cases = [t \in Transfers |-> "none"]
    /\ keys = [k \in Keys |-> [state |-> "absent", hashOf |-> NoTransfer,
                               resource |-> NoTransfer]]
    /\ confirmations = [c \in Confirmations |-> "live"]
    /\ locks = {}
    /\ day = 0
    /\ request \in [Transfers -> Payloads]
    /\ ruling \in [Decisions -> [tx: Transfers, verdict: Verdicts]]
    /\ errand \in [Errands -> [account: Accounts, status: {"active", "frozen"}]]
    /\ pc = [a \in Actors |-> "unsent"]
    /\ loaded = [a \in Actors |-> {}]
    /\ copy = [a \in Actors |-> OpenedAccounts]
    /\ resetting = {}
    /\ risk = [t \in Transfers |-> "unknown"]
    /\ seen = [d \in Decisions |-> "absent"]
    /\ reply = [t \in Transfers |-> NoTransfer]
    /\ moved = [x \in Accounts |-> 0]
    /\ applied = [t \in Transfers |-> 0]
    /\ spent = [x \in Accounts |-> [d \in Days |-> 0]]

-----------------------------------------------------------------------------
(* PostgreSQL's deadlock detector: the handlers of a wait cycle are a        *)
(* smallest set in which each waits for a lock that another one blocks; one *)
(* of them, of the server's choosing, gets an error.                        *)
AwaitedLocks(a) ==
    CASE pc[a] \in {"inserting", "reclaiming"} -> {KeyLock(a)}
      [] pc[a] = "consuming" -> ConsumeLocks(a)
      [] pc[a] = "booking"   -> WantedLocks(a)
      [] pc[a] = "approving" -> ApprovalLocks(a) \ locks
      [] OTHER -> {}

WaitsFor(a, b) == \E wanted \in AwaitedLocks(a), held \in LocksOf(b) : Blocks(held, wanted)
MutuallyWaiting(S) == \A a \in S : \E b \in S : WaitsFor(a, b)
InDeadlock(a) ==
    \E S \in SUBSET Actors :
        /\ a \in S
        /\ MutuallyWaiting(S)
        /\ \A T \in SUBSET S : T # {} /\ MutuallyWaiting(T) => T = S

DeadlockedTransfer(t) == pc[t] \in Nested /\ InDeadlock(t) /\ Fail(t)
DeadlockedDecision(d) == pc[d] = "approving" /\ InDeadlock(d) /\ AbandonDecision(d)

(* A code or a challenge expires, or is superseded by a newer code. *)
ExpireConfirmation(c) ==
    /\ confirmations[c] = "live"
    /\ confirmations' = [confirmations EXCEPT ![c] = "expired"]
    /\ UNCHANGED <<accounts, txs, cases, keys, locks, day, inputs, pc, sessions, locals, ghosts>>

Midnight ==
    /\ day < LastDay
    /\ day' = day + 1
    /\ UNCHANGED <<rows, locks, inputs, pc, sessions, locals, ghosts>>

(* Requests need not arrive, so a state with nothing in flight is final. *)
Terminated == (\A a \in Actors : ~InFlight(a)) /\ UNCHANGED vars

Next ==
    \/ \E t \in Transfers : \/ Authenticate(t) \/ TransferStep(t) \/ InternalError(t)
                            \/ Crash(t) \/ DeadlockedTransfer(t)
    \/ \E d \in Decisions : \/ ReadCase(d) \/ DecisionStep(d)
                            \/ AbandonDecision(d) \/ DeadlockedDecision(d)
    \/ \E e \in Errands : LoadAccount(e) \/ SetStatus(e) \/ AbandonErrand(e)
    \/ \E c \in Confirmations : ExpireConfirmation(c)
    \/ Midnight
    \/ Terminated

Spec == Init /\ [][Next]_vars

(* Handlers that can run do run (the event loop), and the database detects   *)
(* a deadlock after deadlock_timeout.  Nothing forces a request to arrive,   *)
(* an error, a crash, an expiry or a midnight.                              *)
Fairness ==
    /\ \A t \in Transfers : WF_vars(TransferStep(t)) /\ WF_vars(DeadlockedTransfer(t))
    /\ \A d \in Decisions : WF_vars(DecisionStep(d)) /\ WF_vars(DeadlockedDecision(d))
    /\ \A e \in Errands : WF_vars(SetStatus(e))
FairSpec == Spec /\ Fairness

-----------------------------------------------------------------------------
(* Every variable holds a value of its column or handler variable. *)
Labels == {"unsent", "received", "inserting", "reclaiming", "failing", "reading",
           "approving", "loaded"} \cup Nested \cup Closed
LockRows == ({"account"} \X Accounts) \cup ({"key"} \X Keys)
                \cup ({"confirmation"} \X Confirmations)

TypeOK ==
    /\ accounts \in [Accounts -> AccountRow]
    /\ txs \in [Transfers -> TxStatus]
    /\ cases \in [Transfers -> CaseStatus]
    /\ keys \in [Keys -> KeyRow]
    /\ confirmations \in [Confirmations -> {"live", "spent", "expired"}]
    /\ locks \subseteq [who: Actors, row: LockRows, mode: LockModes]
    /\ day \in Days
    /\ request \in [Transfers -> Payloads]
    /\ ruling \in [Decisions -> [tx: Transfers, verdict: Verdicts]]
    /\ errand \in [Errands -> [account: Accounts, status: {"active", "frozen"}]]
    /\ pc \in [Actors -> Labels]
    /\ loaded \in [Actors -> SUBSET Accounts]
    /\ copy \in [Actors -> [Accounts -> AccountRow]]
    /\ resetting \subseteq Transfers
    /\ risk \in [Transfers -> {"unknown", "allow", "review"}]
    /\ seen \in [Decisions -> TxStatus]
    /\ reply \in [Transfers -> Transfers \cup {NoTransfer}]
    /\ moved \in [Accounts -> Int]
    /\ applied \in [Transfers -> Nat]
    /\ spent \in [Accounts -> [Days -> Nat]]
-----------------------------------------------------------------------------
(* Safety, with requests overlapping in any way. *)

(* No interleaving overdraws an account, and the two balance columns, which  *)
(* every posting changes together, never drift apart.                       *)
SoundFunds ==
    \A x \in Accounts : /\ accounts[x].balance >= 0
                        /\ accounts[x].available = accounts[x].balance

(* Row-level locking (lock_accounts, the foreign keys, the UPDATEs): a row   *)
(* of bank_accounts never changes under a conflicting lock of someone else. *)
ExclusiveWrites ==
    [][\A x \in Accounts : accounts'[x] # accounts[x] =>
          \E a \in Actors : /\ pc'[a] # pc[a]
                            /\ Grantable(AccountLock(a, x, "no_key_update"))]_vars

(* A client that is answered with a transaction (201 or a replay) is         *)
(* answered with one that exists, that was asked for with the same key, and *)
(* that moves the same amount between the same accounts.                    *)
ReplyMatchesRequest ==
    \A t \in Transfers : reply[t] # NoTransfer =>
        LET u == reply[t] IN
        /\ txs[u] # "absent"
        /\ request[u].user = request[t].user
        /\ request[u].key = request[t].key
        /\ <<From(u), To(u), Amount(u)>> = <<From(t), To(t), Amount(t)>>

(* Once a key can answer with a transaction it always can, even when a later *)
(* request that reclaimed the key fails.                                    *)
KeyNeverForgets ==
    [][\A k \in Keys : keys[k].resource # NoTransfer => keys'[k].resource # NoTransfer]_vars

(* The savepoint: a code or challenge is spent exactly when a transaction    *)
(* that it confirmed was committed.  A transfer refused afterwards (for     *)
(* want of funds, say) gives the confirmation back.                         *)
SpentExactlyOnCommit ==
    \A c \in Confirmations : confirmations[c] = "spent"
        <=> \E t \in Transfers : txs[t] # "absent" /\ request[t].confirmation = c

(* The review queue: what waits for review has an open case, and an open     *)
(* case is about something that waits, whatever decisions race on it.       *)
ReviewQueueMatches ==
    \A t \in Transfers : txs[t] = "pending_review" <=> cases[t] = "open"

(* Money held for review has not moved; a completed transfer has.            *)
StatusTellsMoney ==
    \A t \in Transfers : /\ txs[t] \in {"absent", "pending_review"} => applied[t] = 0
                         /\ txs[t] = "completed" => applied[t] > 0

(* Liveness: every request that arrived is answered or lost in a crash; lock *)
(* waits end, because the lock holders end or the database breaks the tie.  *)
EveryRequestEnds == \A a \in Actors : InFlight(a) ~> ~InFlight(a)

-----------------------------------------------------------------------------
(* Safety of requests that do not overlap (Overlapping = FALSE): crashes,    *)
(* errors, retries and midnights remain.  The overlapping case is refuted.  *)

(* Each account holds its opening balance plus what was posted to it.        *)
BooksBalance ==
    \A x \in Accounts : accounts[x].balance = OpeningBalance[x] + moved[x]

(* An idempotency key stands for at most one transaction.                    *)
OncePerKey ==
    \A t, u \in Transfers : /\ txs[t] # "absent"
                            /\ txs[u] # "absent"
                            /\ KeyOf(t) = KeyOf(u)
                            => t = u

(* One verification code or challenge confirms at most one transfer.         *)
OneTransferPerConfirmation ==
    \A t, u \in Transfers : /\ txs[t] # "absent"
                            /\ txs[u] # "absent"
                            /\ request[t].confirmation = request[u].confirmation
                            => t = u

(* No transaction moves its money twice.                                     *)
PostedAtMostOnce == \A t \in Transfers : applied[t] <= 1

(* What leaves an account in one day stays within its daily limit; a         *)
(* transfer under way at midnight counts for the day it was validated on.   *)
DailyLimitKept == \A x \in Accounts, d \in Days : spent[x][d] <= DailyLimit[x]

(* A transfer request moves money only between accounts that are active when *)
(* it commits.  (The approval of a reviewed transfer does not look.)        *)
OnlyActiveAccountsPay ==
    [][\A t \in Transfers : txs[t] = "absent" /\ txs'[t] = "completed" =>
          \A x \in Parties(t) : accounts[x].status = "active"]_vars

(* The database implements the ledger.                                       *)
TheLedger == INSTANCE Ledger WITH
    LedgerAccounts <- Accounts,
    TransferIds    <- Transfers,
    Opening        <- OpeningBalance,
    balance        <- [x \in Accounts |-> accounts[x].balance],
    posted         <- {t \in Transfers : applied[t] > 0}
ImplementsLedger == TheLedger!LedgerSpec
=============================================================================
