------------------------------ MODULE Transfers ------------------------------
(***************************************************************************)
(* TransactionService.transfer(): one internal transfer, from              *)
(* authentication to the response.  Every await between two statements that *)
(* other requests can notice is a step boundary.                           *)
(*                                                                         *)
(*   unsent -> received -> inserting | reclaiming -> validating -> scoring  *)
(*     -> confirming -> consuming -> booking -> created                     *)
(*                                                                         *)
(* From validating to booking the request is inside begin_nested(): any     *)
(* exception rolls the savepoint back (failing), stores the key as failed   *)
(* and commits (refused).  A crash in any state loses the database          *)
(* transaction (lost).                                                      *)
(***************************************************************************)
EXTENDS BankDb

Nested == {"validating", "scoring", "confirming", "consuming", "booking"}

KeyOf(t) == <<request[t].user, request[t].key>>

(* The request hash covers the payload without the confirmation and the key. *)
(* Seeded fault: the amount is left out of the hash. *)
SamePayloadButAmount(t, u) == From(t) = From(u) /\ To(t) = To(u)
SamePayload(t, u) == /\ From(t) = From(u)
                     /\ To(t) = To(u)
                     /\ Amount(t) = Amount(u)

Goto(a, label) == pc' = [pc EXCEPT ![a] = label]

-----------------------------------------------------------------------------
(* get_current_user: loads the user's accounts and, through the user's      *)
(* fraud cases, both accounts of each transfer of his that was reviewed.    *)
AccountsOfUser(u) ==
    {x \in Accounts : Owner[x] = u}
        \cup UNION {Parties(t) : t \in {v \in Transfers : /\ cases[v] # "none"
                                                          /\ request[v].user = u}}

Authenticate(t) ==
    /\ pc[t] = "unsent"
    /\ MayStart
    /\ Select(t, AccountsOfUser(request[t].user))
    /\ Goto(t, "received")
    /\ UNCHANGED <<rows, locks, day, inputs, locals, ghosts>>

-----------------------------------------------------------------------------
(* The idempotency key. *)
Answer(t, label, tx) ==
    /\ Goto(t, label)
    /\ reply' = [reply EXCEPT ![t] = tx]
    /\ CloseSession(t)
    /\ UNCHANGED <<rows, locks, day, inputs, resetting, risk, seen, ghosts>>

KeyRefuses(t) ==
    LET row == keys[KeyOf(t)] IN
    request[t].key # NoKey =>
        /\ row.state # "absent"
        /\ SamePayload(t, row.hashOf) => /\ row.resource = NoTransfer
                                         /\ row.state # "failed"

RefuseKey(t) ==
    /\ pc[t] = "received"
    /\ KeyRefuses(t)
    /\ Answer(t, "conflict", NoTransfer)

CanReplay(t) ==
    LET row == keys[KeyOf(t)] IN
    /\ request[t].key # NoKey
    /\ row.state # "absent"
    /\ SamePayload(t, row.hashOf)
    /\ row.resource # NoTransfer

Replay(t) ==
    /\ pc[t] = "received"
    /\ CanReplay(t)
    /\ Answer(t, "replayed", keys[KeyOf(t)].resource)

UseKey(t) ==
    /\ pc[t] = "received"
    /\ request[t].key # NoKey
    /\ ~KeyRefuses(t)
    /\ ~CanReplay(t)
    /\ Goto(t, IF keys[KeyOf(t)].state = "absent" THEN "inserting" ELSE "reclaiming")
    /\ UNCHANGED <<rows, locks, day, inputs, sessions, locals, ghosts>>

(* The INSERT waits for an uncommitted INSERT of the same key. *)
InsertKey(t) ==
    /\ pc[t] = "inserting"
    /\ Grantable(KeyLock(t))
    /\ keys[KeyOf(t)].state = "absent"
    /\ locks' = locks \cup {KeyLock(t)}
    /\ Goto(t, "validating")
    /\ UNCHANGED <<rows, day, inputs, sessions, locals, ghosts>>

LoseInsertRace(t) ==
    /\ pc[t] = "inserting"
    /\ Grantable(KeyLock(t))
    /\ keys[KeyOf(t)].state # "absent"
    /\ Answer(t, "conflict", NoTransfer)

(* The UPDATE to "processing" is flushed by begin_nested(); it waits for the *)
(* row and then writes it, whatever the row has become.                     *)
ReclaimKey(t) ==
    /\ pc[t] = "reclaiming"
    /\ Grantable(KeyLock(t))
    /\ locks' = locks \cup {KeyLock(t)}
    /\ Goto(t, "validating")
    /\ UNCHANGED <<rows, day, inputs, sessions, locals, ghosts>>

-----------------------------------------------------------------------------
(* Inside the savepoint. *)
Fail(t) ==
    /\ Goto(t, "failing")
    /\ ReleaseSavepoint(t)
    /\ CloseSession(t)
    /\ resetting' = resetting \ {t}
    /\ risk' = [risk EXCEPT ![t] = "unknown"]
    /\ UNCHANGED <<rows, day, inputs, seen, reply, ghosts>>

NeedsReset(row) == row.resetDay # day
ResetRow(row, date) == [status |-> row.status, balance |-> row.balance,
                        available |-> row.available, daily |-> 0, resetDay |-> date]
Today(row) == IF NeedsReset(row) THEN ResetRow(row, day) ELSE row

(* Seeded fault: the amount of this transfer is not counted. *)
WithinDailyLimitSoFar(t) == Today(View(t, From(t))).daily <= DailyLimit[From(t)]
WithinDailyLimit(t) ==
    Today(View(t, From(t))).daily + Amount(t) <= DailyLimit[From(t)]

(* Seeded fault: the recipient may be frozen. *)
SenderActive(t) == View(t, From(t)).status = "active"
BothActive(t) == \A x \in Parties(t) : View(t, x).status = "active"

Accepts(t) ==
    /\ Owner[From(t)] = request[t].user
    /\ To(t) # NoAccount
    /\ From(t) # To(t)
    /\ BothActive(t)
    /\ Currency[From(t)] = Currency[To(t)]
    /\ WithinDailyLimit(t)

RefuseDraft(t) ==
    /\ pc[t] = "validating"
    /\ ~Accepts(t)
    /\ Fail(t)

Validate(t) ==
    /\ pc[t] = "validating"
    /\ Accepts(t)
    /\ loaded' = [loaded EXCEPT ![t] = @ \cup Parties(t)]
    /\ copy' = [copy EXCEPT ![t][From(t)] = Today(View(t, From(t))),
                            ![t][To(t)] = View(t, To(t))]
    /\ resetting' = IF NeedsReset(View(t, From(t))) THEN resetting \cup {t} ELSE resetting
    /\ Goto(t, "scoring")
    /\ UNCHANGED <<rows, locks, day, inputs, risk, seen, reply, ghosts>>

(* evaluate_transfer.  has_previous_transfer uses scalar_one_or_none(),      *)
(* which raises when two completed transfers between the pair exist.        *)
Previous(t) == {u \in Transfers : /\ txs[u] = "completed"
                                  /\ From(u) = From(t)
                                  /\ To(u) = To(t)}
LookupRaises(t) == \E u, v \in Previous(t) : u # v

RiskScore(t) == (IF request[t].user \in KycVerified THEN 0 ELSE 25)
              + (IF Amount(t) >= SensitiveThreshold THEN 50 ELSE 0)
              + (IF Previous(t) = {} THEN 20 ELSE 0)
QueueThreshold == 80

Score(t) ==
    /\ pc[t] = "scoring"
    /\ ~LookupRaises(t)
    /\ risk' = [risk EXCEPT ![t] = IF RiskScore(t) >= QueueThreshold THEN "review" ELSE "allow"]
    /\ Goto(t, "confirming")
    /\ UNCHANGED <<rows, locks, day, inputs, sessions, resetting, seen, reply, ghosts>>

ScoreFails(t) ==
    /\ pc[t] = "scoring"
    /\ LookupRaises(t)
    /\ Fail(t)

(* _require_transfer_confirmation: the SELECT finds a live code or a         *)
(* verified challenge for exactly this transfer ...                         *)
(* Seeded fault: used_at / consumed_at is not part of the filter. *)
ConfirmedEvenIfUsed(t) ==
    LET c == request[t].confirmation IN
    /\ c # NoConfirmation
    /\ confirmations[c] # "expired"
    /\ IssuedFor[c] = [user |-> request[t].user, from |-> From(t), to |-> To(t),
                       amount |-> Amount(t)]
Confirmed(t) ==
    LET c == request[t].confirmation IN
    /\ c # NoConfirmation
    /\ confirmations[c] = "live"
    /\ IssuedFor[c] = [user |-> request[t].user, from |-> From(t), to |-> To(t),
                       amount |-> Amount(t)]

CheckConfirmation(t) ==
    /\ pc[t] = "confirming"
    /\ Confirmed(t)
    /\ Goto(t, "consuming")
    /\ UNCHANGED <<rows, locks, day, inputs, sessions, locals, ghosts>>

RefuseConfirmation(t) ==
    /\ pc[t] = "confirming"
    /\ ~Confirmed(t)
    /\ Fail(t)

(* ... and the flush marks it used, together with the daily reset.          *)
ConsumeLocks(t) ==
    {ConfirmationLock(t)}
        \cup {AccountLock(t, From(t), "no_key_update") : u \in {t} \cap resetting}

ConsumeConfirmation(t) ==
    /\ pc[t] = "consuming"
    /\ \A l \in ConsumeLocks(t) : Grantable(l)
    /\ locks' = locks \cup ConsumeLocks(t)
    /\ Goto(t, "booking")
    /\ UNCHANGED <<rows, day, inputs, sessions, locals, ghosts>>

-----------------------------------------------------------------------------
(* The INSERT of the transaction takes FOR KEY SHARE on both accounts; a     *)
(* transfer that is not queued for review then locks both FOR UPDATE, in an *)
(* order lock_accounts leaves to the database.                              *)
(* Seeded fault: only the sender is locked. *)
SenderLocks(t, mode) == {AccountLock(t, From(t), mode)}
PartyLocks(t, mode) == {AccountLock(t, x, mode) : x \in Parties(t)}
Inserted(t) == PartyLocks(t, "key_share") \subseteq locks
WantedLocks(t) ==
    IF ~Inserted(t)          THEN PartyLocks(t, "key_share") \ locks
    ELSE IF risk[t] = "allow" THEN PartyLocks(t, "update") \ locks
    ELSE {}

TakeLock(t) ==
    /\ pc[t] = "booking"
    /\ \E l \in WantedLocks(t) : Grantable(l) /\ locks' = locks \cup {l}
    /\ UNCHANGED <<rows, day, inputs, pc, sessions, locals, ghosts>>

ReadyToCommit(t, decision) ==
    /\ pc[t] = "booking"
    /\ WantedLocks(t) = {}
    /\ risk[t] = decision

(* Seeded faults: the success is not recorded; or only half of it is.        *)
ForgottenKey(row, t) == [state |-> "failed", resource |-> NoTransfer,
                         hashOf |-> IF row.state = "absent" THEN t ELSE row.hashOf]
ProcessingKey(row, t) == [state |-> "processing", resource |-> t,
                          hashOf |-> IF row.state = "absent" THEN t ELSE row.hashOf]
CompletedKey(row, t) == [state |-> "completed", resource |-> t,
                         hashOf |-> IF row.state = "absent" THEN t ELSE row.hashOf]

(* Seeded fault: the confirmation stays usable. *)
KeptConfirmations(t) == confirmations
SpentConfirmations(t) == [confirmations EXCEPT ![request[t].confirmation] = "spent"]

(* What every successful commit writes besides the accounts. *)
CommitTransaction(t, status) ==
    /\ txs' = [txs EXCEPT ![t] = status]
    /\ keys' = [keys EXCEPT ![KeyOf(t)] = CompletedKey(@, t)]
    /\ confirmations' = SpentConfirmations(t)
    /\ Release(t)
    /\ CloseSession(t)
    /\ resetting' = resetting \ {t}
    /\ risk' = [risk EXCEPT ![t] = "unknown"]
    /\ reply' = [reply EXCEPT ![t] = t]
    /\ Goto(t, "created")

ResetDay(t) == IF t \in resetting THEN copy[t][From(t)].resetDay
                                  ELSE accounts[From(t)].resetDay

(* No account is locked and no balance is looked at. *)
QueueForReview(t) ==
    /\ ReadyToCommit(t, "review")
    /\ CommitTransaction(t, "pending_review")
    /\ cases' = [cases EXCEPT ![t] = "open"]
    /\ accounts' = IF t \in resetting
                   THEN [accounts EXCEPT ![From(t)] = ResetRow(@, ResetDay(t))]
                   ELSE accounts
    /\ UNCHANGED <<day, inputs, seen, ghosts>>

Complete(t) ==
    /\ ReadyToCommit(t, "allow")
    /\ HasFunds(t, t)
    /\ accounts' =
         [accounts EXCEPT
            ![From(t)] = Debited(@, copy[t][From(t)], Amount(t), ResetDay(t)),
            ![To(t)] = Credited(@, copy[t][To(t)], Amount(t))]
    /\ RecordPosting(t, copy[t][From(t)].resetDay)
    /\ CommitTransaction(t, "completed")
    /\ UNCHANGED <<cases, day, inputs, seen>>

RefuseOverdraft(t) ==
    /\ ReadyToCommit(t, "allow")
    /\ ~HasFunds(t, t)
    /\ Fail(t)

-----------------------------------------------------------------------------
(* except Exception: the key is stored as failed; its resource_id is not     *)
(* part of the UPDATE.                                                      *)
(* Seeded fault: resource_id is cleared with the rest of the row. *)
ClearedKey(row, t) == [state |-> "failed", resource |-> NoTransfer,
                       hashOf |-> IF row.state = "absent" THEN t ELSE row.hashOf]
FailedKey(row, t) == [row EXCEPT !.state = "failed",
                                 !.hashOf = IF row.state = "absent" THEN t ELSE @]

MarkKeyFailed(t) ==
    /\ pc[t] = "failing"
    /\ keys' = [keys EXCEPT ![KeyOf(t)] = FailedKey(@, t)]
    /\ Release(t)
    /\ Goto(t, "refused")
    /\ UNCHANGED <<accounts, txs, cases, confirmations, day, inputs, sessions, locals, ghosts>>

(* A statement, Redis or the mail hook raises inside the savepoint. *)
InternalError(t) ==
    /\ pc[t] \in Nested
    /\ Fail(t)

(* The process dies, the client's task is cancelled or the connection drops. *)
Crash(t) ==
    /\ InFlight(t)
    /\ Release(t)
    /\ CloseSession(t)
    /\ resetting' = resetting \ {t}
    /\ risk' = [risk EXCEPT ![t] = "unknown"]
    /\ Goto(t, "lost")
    /\ UNCHANGED <<rows, day, inputs, seen, reply, ghosts>>

TransferStep(t) ==
    \/ RefuseKey(t) \/ Replay(t) \/ UseKey(t)
    \/ InsertKey(t) \/ LoseInsertRace(t) \/ ReclaimKey(t)
    \/ RefuseDraft(t) \/ Validate(t)
    \/ Score(t) \/ ScoreFails(t)
    \/ CheckConfirmation(t) \/ RefuseConfirmation(t) \/ ConsumeConfirmation(t)
    \/ TakeLock(t)
    \/ QueueForReview(t) \/ Complete(t) \/ RefuseOverdraft(t)
    \/ MarkKeyFailed(t)
=============================================================================
