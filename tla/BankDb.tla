------------------------------- MODULE BankDb -------------------------------
(***************************************************************************)
(* What every request handler of the backend shares: the PostgreSQL rows   *)
(* the money core reads and writes, the row locks PostgreSQL holds for an   *)
(* open database transaction, and the SQLAlchemy session of each request.   *)
(*                                                                         *)
(* Two facts about sessions carry most of the weight.                      *)
(*  - expire_on_commit=False, autoflush=False and one session per request   *)
(*    (app/db/session.py): an attribute that a session has loaded is never  *)
(*    refreshed by a later SELECT, not even by SELECT ... FOR UPDATE.       *)
(*  - get_current_user loads the user with every relationship               *)
(*    lazy="selectin", so the user's own accounts are read at               *)
(*    authentication, long before the accounts are locked.                  *)
(* PostgreSQL runs at READ COMMITTED: a SELECT sees committed rows, what a  *)
(* transaction wrote is invisible to others until it commits, and the row   *)
(* locks it took are what others can notice.  The variables accounts, txs,  *)
(* cases, keys and confirmations therefore hold COMMITTED rows.             *)
(***************************************************************************)
EXTENDS Integers

CONSTANTS
    Users,
    Accounts,
    KeyNames,         \* values of the Idempotency-Key header
    Confirmations,    \* transfer OTP codes and verified challenges
    Transfers,        \* slots for POST /transactions/transfer requests
    Decisions,        \* slots for fraud case decisions
    Errands,          \* slots for admin freeze / unfreeze requests
    Payloads,         \* what clients may ask for
    Owner,            \* the user of an account
    Currency,         \* the currency of an account
    OpeningBalance,   \* the initial deposit of an account
    DailyLimit,       \* the daily transfer limit of an account
    IssuedFor,        \* user, accounts and amount a confirmation was issued for
    KycVerified,      \* users whose kyc_status is "verified"
    SensitiveThreshold,
    LastDay,          \* bound on the number of midnights
    Overlapping,      \* FALSE: a request starts only when no other is in flight
    NoKey, NoAccount, NoConfirmation, NoTransfer

Actors == Transfers \cup Decisions \cup Errands

Contexts == [user: Users, from: Accounts, to: Accounts, amount: Nat \ {0}]

(* Amounts are whole cents, positive (Field(gt=0)). *)
ASSUME PayloadAssumption ==
    Payloads \subseteq [user: Users, key: KeyNames \cup {NoKey}, from: Accounts,
                        to: Accounts \cup {NoAccount}, amount: Nat \ {0},
                        confirmation: Confirmations \cup {NoConfirmation}]
ASSUME AccountAssumption ==
    /\ Owner \in [Accounts -> Users]
    /\ OpeningBalance \in [Accounts -> Nat]
    /\ DailyLimit \in [Accounts -> Nat]
    /\ IssuedFor \in [Confirmations -> Contexts]
ASSUME BoundAssumption ==
    /\ LastDay \in Nat
    /\ Overlapping \in BOOLEAN
    /\ SensitiveThreshold \in Nat
ASSUME DistinctAssumption ==
    /\ NoKey \notin KeyNames
    /\ NoAccount \notin Accounts
    /\ NoConfirmation \notin Confirmations
    /\ NoTransfer \notin Transfers
    /\ Transfers \cap Decisions = {}
    /\ Transfers \cap Errands = {}
    /\ Decisions \cap Errands = {}

VARIABLES
    accounts,       \* bank_accounts
    txs,            \* transactions: status of the row inserted by request t
    cases,          \* fraud_cases: status of the case of transaction t
    keys,           \* idempotency_keys
    confirmations,  \* otp_codes / auth_challenges usable for a transfer
    locks,          \* row locks of open database transactions
    day,            \* the current UTC date
    request,        \* the payload of each transfer request
    ruling,         \* which transaction a decision is about, and what it says
    errand,         \* which account an admin request is about, and its new status
    pc,             \* where each handler is
    loaded,         \* accounts in the identity map of each session
    copy,           \* their attributes in that session
    resetting,      \* transfer requests that reset the sender's daily counter
    risk,           \* the risk decision of a transfer request
    seen,           \* the transaction status a decision's session has loaded
    reply,          \* the transaction a transfer request was answered with
    moved,          \* ghost: net amount posted to each account
    applied,        \* ghost: how often each transaction was posted
    spent           \* ghost: amount debited per account and counted day

rows     == <<accounts, txs, cases, keys, confirmations>>
inputs   == <<request, ruling, errand>>
sessions == <<loaded, copy>>
locals   == <<resetting, risk, seen, reply>>
ghosts   == <<moved, applied, spent>>
vars     == <<rows, locks, day, inputs, pc, sessions, locals, ghosts>>

-----------------------------------------------------------------------------
(* Rows.  A transaction's columns other than its status are those of the    *)
(* request that inserted it and never change.                               *)
Keys == Users \X KeyNames
Days == 0 .. LastDay

AccountRow == [status: {"active", "frozen"}, balance: Int, available: Int,
               daily: Int, resetDay: Days]
KeyRow     == [state: {"absent", "completed", "failed"},
               hashOf: Transfers \cup {NoTransfer},
               resource: Transfers \cup {NoTransfer}]
TxStatus   == {"absent", "pending_review", "completed", "failed"}
CaseStatus == {"none", "open", "resolved"}

OpenedAccount(x) == [status |-> "active", balance |-> OpeningBalance[x],
                     available |-> OpeningBalance[x], daily |-> 0, resetDay |-> 0]
OpenedAccounts == [x \in Accounts |-> OpenedAccount(x)]

From(t)   == request[t].from
To(t)     == request[t].to
Amount(t) == request[t].amount
Parties(t) == {From(t), To(t)} \cap Accounts

-----------------------------------------------------------------------------
(* PostgreSQL row locks: FOR KEY SHARE (taken on a referenced row by an     *)
(* INSERT), FOR NO KEY UPDATE (by an UPDATE) and FOR UPDATE.                *)
LockModes == {"key_share", "no_key_update", "update"}
ConflictsWith(mode) ==
    CASE mode = "key_share"     -> {"update"}
      [] mode = "no_key_update" -> {"no_key_update", "update"}
      [] mode = "update"        -> LockModes

AccountLock(a, x, mode) == [who |-> a, row |-> <<"account", x>>, mode |-> mode]
KeyLock(t) == [who |-> t, row |-> <<"key", <<request[t].user, request[t].key>>>>,
               mode |-> "no_key_update"]
ConfirmationLock(t) == [who |-> t, row |-> <<"confirmation", request[t].confirmation>>,
                        mode |-> "no_key_update"]

Blocks(held, wanted) == /\ held.who # wanted.who
                        /\ held.row = wanted.row
                        /\ held.mode \in ConflictsWith(wanted.mode)
Grantable(lock) == \A held \in locks : ~Blocks(held, lock)
LocksOf(a) == {l \in locks : l.who = a}

-----------------------------------------------------------------------------
(* Sessions. *)
Closed == {"created", "replayed", "conflict", "refused", "lost", "decided"}
InFlight(a) == pc[a] \notin Closed \cup {"unsent"}
MayStart == Overlapping \/ \A a \in Actors : ~InFlight(a)

(* A SELECT of the accounts xs: rows already in the identity map keep the   *)
(* attributes the session loaded first.                                     *)
View(a, x) == IF x \in loaded[a] THEN copy[a][x] ELSE accounts[x]
Select(a, xs) ==
    /\ loaded' = [loaded EXCEPT ![a] = @ \cup xs]
    /\ copy' = [copy EXCEPT ![a] = [x \in Accounts |-> IF x \in xs THEN View(a, x)
                                                                   ELSE copy[a][x]]]
CloseSession(a) ==
    /\ loaded' = [loaded EXCEPT ![a] = {}]
    /\ copy' = [copy EXCEPT ![a] = OpenedAccounts]

(* Seeded fault: the session of an ended request keeps its transaction.       *)
KeepTransaction(a) == locks' = locks

Release(a) == locks' = locks \ LocksOf(a)

(* ROLLBACK TO SAVEPOINT: only the idempotency key was locked before it.    *)
ReleaseSavepoint(a) == locks' = locks \ {l \in LocksOf(a) : l.row[1] # "key"}

-----------------------------------------------------------------------------
(* Posting a transfer, as transfer() and decide_case() do it: the new       *)
(* column values are computed from the attributes this session has loaded,  *)
(* and the UPDATE writes the changed columns over whatever is stored.       *)
Debited(stored, mine, amount, resetDay) ==
    [status    |-> stored.status,
     balance   |-> mine.balance - amount,
     available |-> mine.available - amount,
     daily     |-> mine.daily + amount,
     resetDay  |-> resetDay]
(* Seeded fault: the posting forgets one of the two balance columns. *)
CreditedInPart(stored, mine, amount) ==
    [status    |-> stored.status,
     balance   |-> mine.balance,
     available |-> mine.available + amount,
     daily     |-> stored.daily,
     resetDay  |-> stored.resetDay]
Credited(stored, mine, amount) ==
    [status    |-> stored.status,
     balance   |-> mine.balance + amount,
     available |-> mine.available + amount,
     daily     |-> stored.daily,
     resetDay  |-> stored.resetDay]

(* Seeded fault: an off-by-one in the comparison with the available balance. *)
HasFundsOffByOne(a, t) == copy[a][From(t)].available + 1 >= Amount(t)
HasFunds(a, t) == copy[a][From(t)].available >= Amount(t)

RecordPosting(t, countedOn) ==
    /\ moved' = [moved EXCEPT ![From(t)] = @ - Amount(t), ![To(t)] = @ + Amount(t)]
    /\ applied' = [applied EXCEPT ![t] = @ + 1]
    /\ spent' = [spent EXCEPT ![From(t)][countedOn] = @ + Amount(t)]
=============================================================================
