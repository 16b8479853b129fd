----------------------------- MODULE ReviewProofs -----------------------------
(***************************************************************************)
(* Theorems about what a transaction's status says, for requests that       *)
(* overlap in any way: the review queue, the status of the money and the    *)
(* use of confirmations.                                                    *)
(*                                                                         *)
(* The strengthening (StatusInv) is that a status never goes back: only the *)
(* request that has not answered yet can insert its transaction, and a      *)
(* decision that saw a final status still finds one.                        *)
(*                                                                          *)
(* The second half is about idempotency keys (KeyInv): a request holds the  *)
(* lock of the key it took from the flush to the commit, so that what it    *)
(* stores there is its own hash and transaction.                            *)
(*                                                                          *)
(* The last part is what EveryRequestEnds rests on, as far as it is safety: *)
(* handlers only advance, locks die with their request, wait cycles can be  *)
(* broken, and some request in flight can always go on.                     *)
(***************************************************************************)
EXTENDS FundsProofs, FiniteSetTheorems

USE DEF Actors

Undecided == {"absent", "pending_review"}

(* An inserted transaction's request was answered. *)
InsertedOnce == \A t \in Transfers : txs[t] # "absent" => pc[t] = "created"
(* A case is about a transaction that exists. *)
CasesAreReal == \A t \in Transfers : cases[t] # "none" => txs[t] # "absent"
(* A final status stays final. *)
FinalStays == \A d \in Decisions : seen[d] \notin Undecided => txs[Tx(d)] \notin Undecided

StatusInv == /\ InsertedOnce /\ CasesAreReal /\ FinalStays
             /\ ReviewQueueMatches /\ StatusTellsMoney /\ SpentExactlyOnCommit

LEMMA InitStatus == Init => StatusInv
BY DEF Init, StatusInv, InsertedOnce, CasesAreReal, FinalStays, ReviewQueueMatches,
       StatusTellsMoney, SpentExactlyOnCommit, Undecided

(* A handler that has ended takes no step. *)
LEMMA CreatedIsFinal ==
    ASSUME TypeOK, [Next]_vars, NEW t \in Transfers, pc[t] = "created"
    PROVE  pc'[t] = "created"
<1> USE DEF TypeOK
<1>1. ASSUME NEW u \in Transfers, Authenticate(u) PROVE pc'[t] = "created"
  BY <1>1 DEF Authenticate, Goto
<1>2. ASSUME NEW u \in Transfers, TransferStep(u) PROVE pc'[t] = "created"
  <2>1. pc[u] # "created" => u # t
    OBVIOUS
  <2> QED
    BY <1>2, <2>1 DEF TransferStep, RefuseKey, Replay, Answer, UseKey, InsertKey, LoseInsertRace,
         ReclaimKey, RefuseDraft, Validate, Score, ScoreFails, CheckConfirmation,
         RefuseConfirmation, ConsumeConfirmation, TakeLock, QueueForReview, Complete,
         ReadyToCommit, CommitTransaction, RefuseOverdraft, MarkKeyFailed, Fail, Goto
<1>3. ASSUME NEW u \in Transfers, InternalError(u) \/ DeadlockedTransfer(u) \/ Crash(u)
      PROVE  pc'[t] = "created"
  BY <1>3 DEF InternalError, DeadlockedTransfer, Fail, Crash, Goto, Nested, InFlight, Closed
<1>4. ASSUME NEW d \in Decisions,
             ReadCase(d) \/ DecisionStep(d) \/ AbandonDecision(d) \/ DeadlockedDecision(d)
      PROVE  pc'[t] = "created"
  <2>1. d # t
    BY DistinctAssumption
  <2> QED
    BY <1>4, <2>1 DEF ReadCase, DecisionStep, AbandonDecision, DeadlockedDecision,
         ReadTransaction, ReadParty, RejectTransfer, FreezeSender, RefuseApproval,
         BeginApproval, TakeApprovalLock, ApproveTransfer, RefuseOverdrawnApproval, Finish, Enter
<1>5. ASSUME NEW e \in Errands, LoadAccount(e) \/ SetStatus(e) \/ AbandonErrand(e)
      PROVE  pc'[t] = "created"
  <2>1. e # t
    BY DistinctAssumption
  <2> QED
    BY <1>5, <2>1 DEF LoadAccount, SetStatus, AbandonErrand, Proceed
<1>6. CASE (\E c \in Confirmations : ExpireConfirmation(c)) \/ Midnight \/ UNCHANGED vars
  BY <1>6 DEF ExpireConfirmation, Midnight, vars
<1> QED
  BY <1>1, <1>2, <1>3, <1>4, <1>5, <1>6 DEF Next, Terminated

-----------------------------------------------------------------------------
(* The three ways a step treats transactions, cases and confirmations.      *)
Rests ==
    /\ UNCHANGED <<txs, cases, applied>>
    /\ \A d \in Decisions : seen'[d] \in {seen[d], "absent", txs[Tx(d)]}
    /\ \A c \in Confirmations : confirmations'[c] = "spent" <=> confirmations[c] = "spent"

Books(t) ==
    /\ pc[t] = "booking"
    /\ pc'[t] = "created"
    /\ \/ /\ txs' = [txs EXCEPT ![t] = "pending_review"]
          /\ cases' = [cases EXCEPT ![t] = "open"]
          /\ UNCHANGED applied
       \/ /\ txs' = [txs EXCEPT ![t] = "completed"]
          /\ UNCHANGED cases
          /\ applied' = [applied EXCEPT ![t] = @ + 1]
    /\ request[t].confirmation \in Confirmations
    /\ confirmations' = [confirmations EXCEPT ![request[t].confirmation] = "spent"]
    /\ UNCHANGED seen

Rules(d) ==
    /\ pc[d] \in {"reading", "approving"}
    /\ cases[Tx(d)] # "none"
    /\ cases' = [cases EXCEPT ![Tx(d)] = "resolved"]
    /\ \/ txs' = [txs EXCEPT ![Tx(d)] = "failed"] /\ UNCHANGED applied
       \/ seen[d] = "failed" /\ UNCHANGED <<txs, applied>>
       \/ /\ pc[d] = "approving"
          /\ txs' = [txs EXCEPT ![Tx(d)] = "completed"]
          /\ applied' = [applied EXCEPT ![Tx(d)] = @ + 1]
    /\ seen' = [seen EXCEPT ![d] = "absent"]
    /\ UNCHANGED confirmations

LEMMA StatusStep ==
    ASSUME TypeOK, Phases, [Next]_vars
    PROVE  Rests \/ (\E t \in Transfers : Books(t)) \/ (\E d \in Decisions : Rules(d))
<1>1. CASE UNCHANGED <<txs, cases, confirmations, seen, applied>>
  BY <1>1 DEF Rests
<1>2. ASSUME NEW t \in Transfers, QueueForReview(t) \/ Complete(t) PROVE Books(t)
  <2>1. pc[t] = "booking" /\ request[t].confirmation \in Confirmations
    BY <1>2 DEF QueueForReview, Complete, ReadyToCommit, Phases, TransferAt
  <2> QED
    BY <1>2, <2>1 DEF QueueForReview, Complete, CommitTransaction, SpentConfirmations,
         RecordPosting, Books, Goto, TypeOK, ghosts
<1>3. ASSUME NEW d \in Decisions, RejectTransfer(d) \/ FreezeSender(d) \/ ApproveTransfer(d)
      PROVE  Rules(d)
  <2>1. cases[Tx(d)] # "none" /\ pc[d] \in {"reading", "approving"}
    BY <1>3 DEF RejectTransfer, FreezeSender, ApproveTransfer, HasRead, Phases, DecisionAt
  <2> QED
    BY <1>3, <2>1 DEF RejectTransfer, FreezeSender, ApproveTransfer, FailTransaction,
         ResolveCase, Finish, RecordPosting, Rules, ghosts
<1>4. ASSUME NEW d \in Decisions, ReadTransaction(d) PROVE Rests
  BY <1>4 DEF ReadTransaction, Rests, TypeOK, rows, ghosts
<1>5. ASSUME NEW d \in Decisions, \/ RefuseApproval(d) \/ RefuseOverdrawnApproval(d)
                                  \/ AbandonDecision(d) \/ DeadlockedDecision(d)
      PROVE  Rests
  BY <1>5 DEF RefuseApproval, RefuseOverdrawnApproval, AbandonDecision, DeadlockedDecision,
       Finish, Rests, TypeOK, ghosts
<1>6. ASSUME NEW c \in Confirmations, ExpireConfirmation(c) PROVE Rests
  BY <1>6 DEF ExpireConfirmation, Rests, TypeOK, locals, ghosts
<1>7. ASSUME NEW t \in Transfers,
             \/ Authenticate(t) \/ RefuseKey(t) \/ Replay(t) \/ UseKey(t) \/ InsertKey(t)
             \/ LoseInsertRace(t) \/ ReclaimKey(t) \/ RefuseDraft(t) \/ Validate(t)
             \/ Score(t) \/ ScoreFails(t) \/ CheckConfirmation(t) \/ RefuseConfirmation(t)
             \/ ConsumeConfirmation(t) \/ TakeLock(t) \/ RefuseOverdraft(t)
             \/ MarkKeyFailed(t) \/ InternalError(t) \/ DeadlockedTransfer(t) \/ Crash(t)
      PROVE  UNCHANGED <<txs, cases, confirmations, seen, applied>>
  BY <1>7 DEF Authenticate, RefuseKey, Replay, Answer, UseKey, InsertKey, LoseInsertRace,
       ReclaimKey, RefuseDraft, Validate, Score, ScoreFails, CheckConfirmation,
       RefuseConfirmation, ConsumeConfirmation, TakeLock, RefuseOverdraft, MarkKeyFailed,
       InternalError, DeadlockedTransfer, Fail, Crash, rows, locals, ghosts
<1>8. ASSUME NEW d \in Decisions,
             ReadCase(d) \/ ReadParty(d) \/ BeginApproval(d) \/ TakeApprovalLock(d)
      PROVE  UNCHANGED <<txs, cases, confirmations, seen, applied>>
  BY <1>8 DEF ReadCase, ReadParty, BeginApproval, TakeApprovalLock, rows, locals, ghosts
<1>9. ASSUME NEW e \in Errands, LoadAccount(e) \/ SetStatus(e) \/ AbandonErrand(e)
      PROVE  UNCHANGED <<txs, cases, confirmations, seen, applied>>
  BY <1>9 DEF LoadAccount, SetStatus, AbandonErrand, rows, locals, ghosts
<1>10. CASE Midnight \/ UNCHANGED vars
  BY <1>1, <1>10 DEF Midnight, vars, rows, locals, ghosts
<1>11. CASE \E t \in Transfers : \/ Authenticate(t) \/ TransferStep(t) \/ InternalError(t)
                                 \/ Crash(t) \/ DeadlockedTransfer(t)
  BY <1>1, <1>2, <1>7, <1>11 DEF TransferStep
<1>12. CASE \E d \in Decisions : \/ ReadCase(d) \/ DecisionStep(d)
                                 \/ AbandonDecision(d) \/ DeadlockedDecision(d)
  BY <1>1, <1>3, <1>4, <1>5, <1>8, <1>12 DEF DecisionStep
<1> QED
  BY <1>1, <1>6, <1>9, <1>10, <1>11, <1>12 DEF Next, Terminated

LEMMA StatusInvStep ==
    ASSUME TypeOK, Phases, StatusInv, [Next]_vars
    PROVE  StatusInv'
<1> USE DEF Undecided, StatusInv
<1>0. UNCHANGED inputs /\ \A d \in Decisions : Tx(d)' = Tx(d) /\ Tx(d) \in Transfers
  BY FixedInputs, RulingType DEF Tx, inputs
<1>1. CASE Rests
  <2>1. InsertedOnce' /\ CasesAreReal' /\ ReviewQueueMatches' /\ StatusTellsMoney'
    BY <1>1, CreatedIsFinal DEF Rests, InsertedOnce, CasesAreReal, ReviewQueueMatches,
         StatusTellsMoney
  <2>2. FinalStays'
    BY <1>0, <1>1 DEF Rests, FinalStays
  <2>3. SpentExactlyOnCommit'
    BY <1>0, <1>1 DEF Rests, SpentExactlyOnCommit, inputs
  <2> QED
    BY <2>1, <2>2, <2>3
<1>2. ASSUME NEW t \in Transfers, Books(t) PROVE StatusInv'
  <2>1. txs[t] = "absent" /\ cases[t] = "none" /\ applied[t] = 0
    BY <1>2 DEF Books, InsertedOnce, CasesAreReal, StatusTellsMoney
  <2>2. /\ txs'[t] \in {"pending_review", "completed"}
        /\ \A u \in Transfers : u # t => txs'[u] = txs[u]
    BY <1>2 DEF Books, TypeOK
  <2>3. InsertedOnce' /\ CasesAreReal'
    <3>1. \A u \in Transfers : u # t => cases'[u] = cases[u]
      BY <1>2 DEF Books, TypeOK
    <3>2. \A u \in Transfers : pc[u] = "created" => pc'[u] = "created"
      BY CreatedIsFinal
    <3> QED
      BY <1>2, <2>2, <3>1, <3>2 DEF Books, InsertedOnce, CasesAreReal
  <2>4. FinalStays'
    BY <1>0, <1>2, <2>1, <2>2 DEF Books, FinalStays
  <2>5. ReviewQueueMatches'
    BY ZenonT(60), <1>2, <2>1 DEF Books, ReviewQueueMatches, TypeOK
  <2>6. StatusTellsMoney'
    BY <1>2, <2>1 DEF Books, StatusTellsMoney, TypeOK
  <2>7. SpentExactlyOnCommit'
    <3> DEFINE done(c) == \E u \in Transfers : txs[u] # "absent" /\ request[u].confirmation = c
    <3>1. ASSUME NEW c \in Confirmations
          PROVE  done(c)' <=> done(c) \/ c = request[t].confirmation
      BY <1>0, <2>1, <2>2 DEF inputs
    <3>2. ASSUME NEW c \in Confirmations
          PROVE  confirmations'[c] = "spent"
                   <=> confirmations[c] = "spent" \/ c = request[t].confirmation
      BY <1>2 DEF Books, TypeOK
    <3>3. \A c \in Confirmations : confirmations[c] = "spent" <=> done(c)
      BY DEF SpentExactlyOnCommit
    <3>4. \A c \in Confirmations : confirmations'[c] = "spent" <=> done(c)'
      BY <3>1, <3>2, <3>3
    <3> QED
      BY <3>4 DEF SpentExactlyOnCommit
  <2> QED
    BY <2>3, <2>4, <2>5, <2>6, <2>7
<1>3. ASSUME NEW d \in Decisions, Rules(d) PROVE StatusInv'
  <2> DEFINE u == Tx(d)
  <2>1. u \in Transfers /\ txs[u] # "absent" /\ cases[u] # "none"
    BY <1>0, <1>3 DEF Rules, CasesAreReal
  <2>2. /\ txs'[u] \in {"failed", "completed"} \/ (seen[d] = "failed" /\ txs'[u] = txs[u])
        /\ \A t \in Transfers : t # u => txs'[t] = txs[t]
        /\ \A t \in Transfers : t # u => cases'[t] = cases[t] /\ applied'[t] = applied[t]
        /\ cases'[u] = "resolved"
    BY <1>3, <2>1 DEF Rules, TypeOK
  <2>3. txs'[u] \notin Undecided
    BY <2>2 DEF FinalStays
  <2>4. txs'[u] = "completed" => applied'[u] > 0
    BY <1>3, <2>1 DEF Rules, StatusTellsMoney, TypeOK
  <2>5. \A t \in Transfers : (txs'[t] = "absent") <=> (txs[t] = "absent")
    BY <2>1, <2>2, <2>3
  <2> HIDE DEF u
  <2>6. InsertedOnce' /\ CasesAreReal'
    BY <2>1, <2>2, <2>5, CreatedIsFinal DEF InsertedOnce, CasesAreReal
  <2>7. FinalStays'
    <3>1. \A e \in Decisions : seen'[e] \notin Undecided => seen'[e] = seen[e]
      BY <1>3 DEF Rules, TypeOK
    <3> QED
      BY <1>0, <2>1, <2>2, <2>3, <3>1 DEF FinalStays
  <2>8. ReviewQueueMatches' /\ StatusTellsMoney'
    BY <2>1, <2>2, <2>3, <2>4 DEF ReviewQueueMatches, StatusTellsMoney
  <2>9. SpentExactlyOnCommit'
    BY <1>0, <1>3, <2>5 DEF Rules, SpentExactlyOnCommit, inputs
  <2> QED
    BY <2>6, <2>7, <2>8, <2>9
<1> QED
  BY <1>1, <1>2, <1>3, StatusStep

LEMMA StatusAlways == Spec => []StatusInv
<1>1. TypeOK /\ Phases /\ StatusInv /\ [Next]_vars => StatusInv'
  BY StatusInvStep
<1> QED
  BY <1>1, InitStatus, TypeCorrect, PTL DEF Spec

(* Whatever decisions race, what waits for review has an open case and the   *)
(* other way round: no transfer is left waiting with its case closed.       *)
THEOREM QueueIsTheOpenCases == Spec => []ReviewQueueMatches
<1>1. StatusInv => ReviewQueueMatches
  BY DEF StatusInv
<1> QED
  BY <1>1, StatusAlways, PTL

(* Money held for review has not moved, and completed transfers have been    *)
(* posted.                                                                  *)
THEOREM StatusIsTruthful == Spec => []StatusTellsMoney
<1>1. StatusInv => StatusTellsMoney
  BY DEF StatusInv
<1> QED
  BY <1>1, StatusAlways, PTL

(* The savepoint gives a confirmation back whenever its transfer fails.      *)
THEOREM ConfirmationsAreSpentByCommits == Spec => []SpentExactlyOnCommit
<1>1. StatusInv => SpentExactlyOnCommit
  BY DEF StatusInv
<1> QED
  BY <1>1, StatusAlways, PTL

-----------------------------------------------------------------------------
(* Idempotency keys.  A stored key points to requests made with it, and to a  *)
(* transaction that exists and has the same payload; a transfer past the     *)
(* check of its key has that payload too, because the key it holds is       *)
(* written by nobody else.                                                  *)
Stored(row) == row.state # "absent"
KeyFits(k) ==
    LET row == keys[k] IN
    /\ ~Stored(row) => row.resource = NoTransfer
    /\ Stored(row) => row.hashOf \in Transfers /\ KeyOf(row.hashOf) = k
    /\ row.resource # NoTransfer =>
         /\ row.resource \in Transfers
         /\ txs[row.resource] # "absent"
         /\ KeyOf(row.resource) = k
         /\ SamePayload(row.resource, row.hashOf)

HoldsKey(label) == label \in Nested \cup {"failing"}
FitsKey(t) == LET row == keys[KeyOf(t)] IN Stored(row) /\ SamePayload(t, row.hashOf)
Hashed(t) ==
    /\ pc[t] = "reclaiming" => FitsKey(t)
    /\ HoldsKey(pc[t]) => ~Stored(keys[KeyOf(t)]) \/ FitsKey(t)

Matches(t, u) == /\ u \in Transfers
                 /\ txs[u] # "absent"
                 /\ KeyOf(u) = KeyOf(t)
                 /\ SamePayload(u, t)

KeyInv == /\ \A k \in Keys : KeyFits(k)
          /\ \A t \in Transfers : Hashed(t)
          /\ \A t \in Transfers : reply[t] # NoTransfer => Matches(t, reply[t])

LEMMA KeyHasOneHolder ==
    ASSUME LockInv, NEW t \in Transfers, NEW u \in Transfers,
           HoldsKey(pc[t]), HoldsKey(pc[u]), KeyOf(t) = KeyOf(u)
    PROVE  t = u
<1>1. KeyLock(t) \in locks /\ KeyLock(u) \in locks
  BY DEF LockInv, KeyHeld, HoldsKey
<1>2. KeyLock(t).row = <<"key", KeyOf(t)>> /\ KeyLock(u).row = <<"key", KeyOf(u)>>
  BY DEF KeyLock, KeyOf
<1>3. t # u => Blocks(KeyLock(t), KeyLock(u))
  BY <1>2 DEF Blocks, KeyLock, ConflictsWith
<1> QED
  BY <1>1, <1>3 DEF LockInv, NoConflicts

LEMMA TransactionsStay ==
    ASSUME TypeOK, Phases, StatusInv, [Next]_vars, NEW t \in Transfers, txs[t] # "absent"
    PROVE  txs'[t] # "absent"
<1>1. CASE Rests
  BY <1>1 DEF Rests
<1>2. ASSUME NEW u \in Transfers, Books(u) PROVE txs'[t] # "absent"
  BY <1>2 DEF Books, TypeOK
<1>3. ASSUME NEW d \in Decisions, Rules(d) PROVE txs'[t] # "absent"
  BY <1>3 DEF Rules, TypeOK
<1> QED
  BY <1>1, <1>2, <1>3, StatusStep

(* What a step does to the keys and the answers: nothing; a replay; a commit; *)
(* or the failure of the key's holder.                                      *)
Keeps(t, label) ==
    \/ label = pc[t]
    \/ ~HoldsKey(label) /\ label # "reclaiming"
    \/ HoldsKey(label) /\ (HoldsKey(pc[t]) \/ pc[t] = "reclaiming" \/ ~Stored(keys[KeyOf(t)]))
    \/ label = "reclaiming" /\ FitsKey(t)
KeysRest == /\ UNCHANGED keys
            /\ \A t \in Transfers : Keeps(t, pc'[t]) /\ reply'[t] \in {reply[t], NoTransfer}
Answers(t) == /\ pc[t] = "received"
              /\ CanReplay(t)
              /\ UNCHANGED keys
              /\ reply' = [reply EXCEPT ![t] = keys[KeyOf(t)].resource]
              /\ pc' = [pc EXCEPT ![t] = "replayed"]
Commits(t) == /\ pc[t] = "booking"
              /\ txs'[t] # "absent"
              /\ keys' = [keys EXCEPT ![KeyOf(t)] = CompletedKey(@, t)]
              /\ reply' = [reply EXCEPT ![t] = t]
              /\ pc' = [pc EXCEPT ![t] = "created"]
Gives(t)   == /\ pc[t] = "failing"
              /\ keys' = [keys EXCEPT ![KeyOf(t)] = FailedKey(@, t)]
              /\ UNCHANGED reply
              /\ pc' = [pc EXCEPT ![t] = "refused"]

LEMMA KeyStep ==
    ASSUME TypeOK, Phases, [Next]_vars
    PROVE  KeysRest \/ \E t \in Transfers : Answers(t) \/ Commits(t) \/ Gives(t)
<1> USE DEF Goto, rows, locals
<1>1. ASSUME NEW a \in Actors, NEW l, pc' = [pc EXCEPT ![a] = l], UNCHANGED <<keys, reply>>,
             a \in Transfers => Keeps(a, l)
      PROVE  KeysRest
  BY <1>1 DEF KeysRest, Keeps, TypeOK
<1>2. ASSUME UNCHANGED keys, UNCHANGED reply, UNCHANGED pc PROVE KeysRest
  BY <1>2 DEF KeysRest, Keeps
<1>3. ASSUME NEW t \in Transfers, RefuseKey(t) \/ LoseInsertRace(t) PROVE KeysRest
  <2>1. /\ reply' = [reply EXCEPT ![t] = NoTransfer] /\ pc' = [pc EXCEPT ![t] = "conflict"]
        /\ UNCHANGED keys
    BY <1>3 DEF RefuseKey, LoseInsertRace, Answer
  <2> QED
    BY <2>1 DEF KeysRest, Keeps, HoldsKey, Nested, TypeOK
<1>4. ASSUME NEW t \in Transfers, Replay(t) PROVE Answers(t)
  BY <1>4 DEF Replay, Answer, Answers
<1>5. ASSUME NEW t \in Transfers, UseKey(t) PROVE KeysRest
  <2>1. Stored(keys[KeyOf(t)]) => FitsKey(t)
    BY <1>5 DEF UseKey, KeyRefuses, FitsKey, Stored
  <2>2. UNCHANGED <<keys, reply>>
    BY <1>5 DEF UseKey
  <2>3. CASE Stored(keys[KeyOf(t)])
    <3>1. pc' = [pc EXCEPT ![t] = "reclaiming"]
      BY <1>5, <2>3 DEF UseKey, Stored
    <3> QED
      BY <1>1, <2>1, <2>2, <2>3, <3>1 DEF Keeps
  <2>4. CASE ~Stored(keys[KeyOf(t)])
    <3>1. pc' = [pc EXCEPT ![t] = "inserting"]
      BY <1>5, <2>4 DEF UseKey, Stored
    <3> QED
      BY <1>1, <2>2, <3>1 DEF Keeps, HoldsKey, Nested
  <2> QED
    BY <2>3, <2>4
<1>6. ASSUME NEW t \in Transfers, InsertKey(t) \/ ReclaimKey(t) PROVE KeysRest
  <2>1. /\ pc' = [pc EXCEPT ![t] = "validating"] /\ UNCHANGED <<keys, reply>>
        /\ pc[t] = "reclaiming" \/ ~Stored(keys[KeyOf(t)])
    BY <1>6 DEF InsertKey, ReclaimKey, Stored
  <2> QED
    BY <1>1, <2>1 DEF Keeps, HoldsKey, Nested
<1>7. ASSUME NEW t \in Transfers, QueueForReview(t) \/ Complete(t) PROVE Commits(t)
  BY <1>7 DEF QueueForReview, Complete, CommitTransaction, ReadyToCommit, Commits, TypeOK
<1>8. ASSUME NEW t \in Transfers, MarkKeyFailed(t) PROVE Gives(t)
  BY <1>8 DEF MarkKeyFailed, Gives
<1>9. ASSUME NEW t \in Transfers,
             \/ Authenticate(t) \/ RefuseDraft(t) \/ Validate(t) \/ Score(t) \/ ScoreFails(t)
             \/ CheckConfirmation(t) \/ RefuseConfirmation(t) \/ ConsumeConfirmation(t)
             \/ RefuseOverdraft(t) \/ InternalError(t) \/ DeadlockedTransfer(t) \/ Crash(t)
      PROVE  KeysRest
  <2>1. UNCHANGED <<keys, reply>>
    BY <1>9 DEF Authenticate, RefuseDraft, Validate, Score, ScoreFails, CheckConfirmation,
         RefuseConfirmation, ConsumeConfirmation, RefuseOverdraft, InternalError,
         DeadlockedTransfer, Fail, Crash
  <2>2. PICK l : /\ pc' = [pc EXCEPT ![t] = l]
                 /\ \/ l \notin Nested \cup {"failing", "reclaiming"}
                    \/ l \in Nested \cup {"failing"} /\ pc[t] \in Nested
    BY <1>9 DEF Authenticate, RefuseDraft, Validate, Score, ScoreFails, CheckConfirmation,
         RefuseConfirmation, ConsumeConfirmation, RefuseOverdraft, ReadyToCommit, InternalError,
         DeadlockedTransfer, Fail, Crash, Nested
  <2> QED
    BY <1>1, <2>1, <2>2 DEF Keeps, HoldsKey
<1>10. ASSUME NEW t \in Transfers, TakeLock(t) PROVE KeysRest
  <2>1. UNCHANGED keys /\ UNCHANGED reply /\ UNCHANGED pc
    BY <1>10 DEF TakeLock
  <2> QED
    BY <1>2, <2>1
<1>11. ASSUME NEW d \in Decisions,
             ReadCase(d) \/ DecisionStep(d) \/ AbandonDecision(d) \/ DeadlockedDecision(d)
      PROVE  KeysRest
  <2>1. UNCHANGED <<keys, reply>>
    BY <1>11 DEF ReadCase, DecisionStep, AbandonDecision, DeadlockedDecision,
         ReadTransaction, ReadParty, RejectTransfer, FreezeSender, RefuseApproval,
         BeginApproval, TakeApprovalLock, ApproveTransfer, RefuseOverdrawnApproval, Finish
  <2>2. UNCHANGED pc \/ \E l : pc' = [pc EXCEPT ![d] = l]
    BY <1>11 DEF ReadCase, DecisionStep, AbandonDecision, DeadlockedDecision,
         ReadTransaction, ReadParty, RejectTransfer, FreezeSender, RefuseApproval,
         BeginApproval, TakeApprovalLock, ApproveTransfer, RefuseOverdrawnApproval, Finish,
         Enter
  <2>3. d \in Actors /\ d \notin Transfers
    BY DistinctAssumption
  <2>4. CASE UNCHANGED pc
    BY <1>2, <2>1, <2>4
  <2>5. ASSUME NEW l, pc' = [pc EXCEPT ![d] = l] PROVE KeysRest
    BY <1>1, <2>1, <2>3, <2>5
  <2> QED
    BY <2>2, <2>4, <2>5
<1>12. ASSUME NEW e \in Errands, LoadAccount(e) \/ SetStatus(e) \/ AbandonErrand(e)
       PROVE  KeysRest
  BY <1>1, <1>12, DistinctAssumption DEF LoadAccount, SetStatus, AbandonErrand, Proceed
<1>13. CASE (\E c \in Confirmations : ExpireConfirmation(c)) \/ Midnight \/ UNCHANGED vars
  BY <1>2, <1>13 DEF ExpireConfirmation, Midnight, vars
<1>14. CASE \E t \in Transfers : \/ Authenticate(t) \/ TransferStep(t) \/ InternalError(t)
                                 \/ Crash(t) \/ DeadlockedTransfer(t)
  BY <1>3, <1>4, <1>5, <1>6, <1>7, <1>8, <1>9, <1>10, <1>14 DEF TransferStep
<1> QED
  BY <1>11, <1>12, <1>13, <1>14 DEF Next, Terminated

(* A stored key keeps its hash, so that what fitted it still does. *)
LEMMA WrittenKey ==
    ASSUME TypeOK, Phases, KeyInv, StatusInv, LockInv, [Next]_vars,
           NEW t \in Transfers, Commits(t) \/ Gives(t)
    PROVE  /\ KeyOf(t) \in Keys
           /\ \A k \in Keys \ {KeyOf(t)} : keys'[k] = keys[k]
           /\ Stored(keys'[KeyOf(t)])
           /\ \/ keys'[KeyOf(t)].hashOf = keys[KeyOf(t)].hashOf /\ FitsKey(t)
              \/ keys'[KeyOf(t)].hashOf = t /\ ~Stored(keys[KeyOf(t)])
           /\ keys'[KeyOf(t)].resource
                 = IF pc[t] = "booking" THEN t ELSE keys[KeyOf(t)].resource
<1>1. /\ KeyOf(t) \in Keys /\ keys[KeyOf(t)] \in KeyRow
      /\ ~Stored(keys[KeyOf(t)]) \/ FitsKey(t)
  <2>1. HoldsKey(pc[t])
    BY DEF Commits, Gives, HoldsKey, Nested
  <2>2. request[t].key \in KeyNames
    BY <2>1 DEF HoldsKey, Phases, TransferAt, KeyPhases
  <2> QED
    BY <2>1, <2>2, KeyType DEF KeyInv, Hashed
<1>2. CASE Commits(t)
  <2>1. keys'[KeyOf(t)] = CompletedKey(keys[KeyOf(t)], t)
        /\ \A k \in Keys \ {KeyOf(t)} : keys'[k] = keys[k]
    BY <1>1, <1>2 DEF Commits, TypeOK
  <2> QED
    BY <1>1, <1>2, <2>1 DEF CompletedKey, Stored, FitsKey, Commits
<1>3. CASE Gives(t)
  <2>1. keys'[KeyOf(t)] = FailedKey(keys[KeyOf(t)], t)
        /\ \A k \in Keys \ {KeyOf(t)} : keys'[k] = keys[k]
    BY <1>1, <1>3 DEF Gives, TypeOK
  <2>2. /\ keys'[KeyOf(t)].state = "failed"
        /\ keys'[KeyOf(t)].resource = keys[KeyOf(t)].resource
        /\ keys'[KeyOf(t)].hashOf = IF Stored(keys[KeyOf(t)]) THEN keys[KeyOf(t)].hashOf ELSE t
    BY <1>1, <2>1 DEF FailedKey, KeyRow, Stored
  <2> QED
    BY <1>1, <1>3, <2>1, <2>2 DEF Stored, FitsKey, Gives
<1> QED
  BY <1>2, <1>3

LEMMA KeyInvStep ==
    ASSUME TypeOK, Phases, KeyInv, StatusInv, LockInv, [Next]_vars
    PROVE  KeyInv'
<1>1. /\ UNCHANGED request
      /\ \A t \in Transfers : KeyOf(t)' = KeyOf(t)
      /\ \A t, u : SamePayload(t, u)' = SamePayload(t, u)
  BY FixedInputs DEF inputs, KeyOf, SamePayload, From, To, Amount
<1>2. \A t \in Transfers : txs[t] # "absent" => txs'[t] # "absent"
  BY TransactionsStay
<1>3. ASSUME UNCHANGED keys PROVE \A k \in Keys : KeyFits(k)'
  BY <1>1, <1>2, <1>3 DEF KeyInv, KeyFits
<1>4. ASSUME NEW t \in Transfers, NEW u, Matches(t, u) PROVE Matches(t, u)'
  BY <1>1, <1>2, <1>4 DEF Matches
<1>5. ASSUME NEW t \in Transfers, reply'[t] \in {reply[t], NoTransfer}, reply'[t] # NoTransfer
      PROVE  Matches(t, reply[t])'
  BY <1>4, <1>5 DEF KeyInv
<1>6. ASSUME NEW t \in Transfers, KeyOf(t) \in Keys => keys'[KeyOf(t)] = keys[KeyOf(t)],
             Keeps(t, pc'[t]), HoldsKey(pc'[t]) \/ pc'[t] = "reclaiming" => KeyOf(t) \in Keys
      PROVE  Hashed(t)'
  BY <1>1, <1>6 DEF KeyInv, Hashed, Keeps, FitsKey, HoldsKey, Nested
<1>7. \A t \in Transfers : HoldsKey(pc'[t]) \/ pc'[t] = "reclaiming" => KeyOf(t) \in Keys
  <2>1. TypeOK' /\ Phases'
    BY InductiveTypes
  <2> QED
    BY <1>1, <2>1, RequestType DEF Phases, TransferAt, KeyPhases, HoldsKey, KeyOf, Keys, TypeOK
<1>8. CASE KeysRest
  <2>1. \A k \in Keys : KeyFits(k)'
    BY <1>3, <1>8 DEF KeysRest
  <2>2. \A t \in Transfers : Hashed(t)'
    BY <1>6, <1>7, <1>8 DEF KeysRest
  <2>3. \A t \in Transfers : (reply[t] # NoTransfer => Matches(t, reply[t]))'
    BY <1>5, <1>8 DEF KeysRest
  <2> QED
    BY <2>1, <2>2, <2>3 DEF KeyInv
<1>9. ASSUME NEW t \in Transfers, Answers(t) PROVE KeyInv'
  <2>1. \A k \in Keys : KeyFits(k)'
    BY <1>3, <1>9 DEF Answers
  <2>2. \A u \in Transfers : Keeps(u, pc'[u])
    BY <1>9 DEF Answers, Keeps, HoldsKey, Nested, TypeOK
  <2>3. \A u \in Transfers : Hashed(u)'
    BY <1>6, <1>7, <1>9, <2>2 DEF Answers
  <2>4. Matches(t, keys[KeyOf(t)].resource)
    <3>1. KeyOf(t) \in Keys
      BY <1>9, RequestType DEF Answers, CanReplay, KeyOf, Keys
    <3> QED
      BY <1>9, <3>1 DEF Answers, CanReplay, KeyInv, KeyFits, Matches, SamePayload
  <2>5. reply'[t] = keys[KeyOf(t)].resource /\ \A u \in Transfers \ {t} : reply'[u] = reply[u]
    BY <1>9 DEF Answers, TypeOK
  <2>6. \A u \in Transfers : (reply[u] # NoTransfer => Matches(u, reply[u]))'
    BY <1>4, <1>5, <2>4, <2>5
  <2> QED
    BY <2>1, <2>3, <2>6 DEF KeyInv
<1>10. ASSUME NEW t \in Transfers, Commits(t) \/ Gives(t) PROVE KeyInv'
  <2>0. PICK k : k = KeyOf(t)
    OBVIOUS
  <2> DEFINE row == keys[k]
  <2>1. /\ k \in Keys
        /\ \A j \in Keys \ {k} : keys'[j] = keys[j]
        /\ Stored(keys'[k])
        /\ \/ keys'[k].hashOf = row.hashOf /\ FitsKey(t)
           \/ keys'[k].hashOf = t /\ ~Stored(row)
        /\ keys'[k].resource = IF pc[t] = "booking" THEN t ELSE row.resource
    BY <1>10, <2>0, WrittenKey
  <2>2. SamePayload(t, keys'[k].hashOf) /\ keys'[k].hashOf \in Transfers
        /\ KeyOf(keys'[k].hashOf) = k
    BY <2>0, <2>1 DEF FitsKey, SamePayload, KeyInv, KeyFits
  <2>3. pc[t] = "booking" => txs'[t] # "absent"
    BY <1>10 DEF Commits, Gives
  <2>4. KeyFits(k)'
    <3>1. CASE pc[t] = "booking"
      BY <2>0, <1>1, <2>1, <2>2, <2>3, <3>1 DEF KeyFits
    <3>2. CASE pc[t] # "booking" /\ row.resource # NoTransfer
      BY <2>0, <1>1, <1>2, <2>1, <2>2, <3>2 DEF KeyFits, KeyInv, SamePayload, FitsKey
    <3>3. CASE pc[t] # "booking" /\ row.resource = NoTransfer
      BY <1>1, <2>1, <2>2, <3>3 DEF KeyFits
    <3> QED
      BY <3>1, <3>2, <3>3
  <2>5. ASSUME NEW j \in Keys \ {k} PROVE KeyFits(j)'
    BY <1>1, <1>2, <2>1 DEF KeyInv, KeyFits
  <2>6. HoldsKey(pc[t]) /\ ~HoldsKey(pc'[t]) /\ pc'[t] # "reclaiming"
        /\ \A u \in Transfers \ {t} : pc'[u] = pc[u]
    BY <1>10 DEF Commits, Gives, HoldsKey, Nested, TypeOK
  <2>7. ASSUME NEW u \in Transfers PROVE Hashed(u)'
    <3>1. CASE u = t
      BY <2>6, <3>1 DEF Hashed
    <3>2. CASE u # t /\ KeyOf(u) = k
      <4>1. ~HoldsKey(pc[u])
        BY <2>0, <2>6, <3>2, KeyHasOneHolder
      <4>2. Hashed(u)
        BY DEF KeyInv
      <4> QED
        BY <2>0, <1>1, <2>1, <2>6, <3>2, <4>1, <4>2 DEF Hashed, FitsKey
    <3>3. CASE u # t /\ KeyOf(u) # k
      <4>1. Keeps(u, pc'[u])
        BY <2>6, <3>3 DEF Keeps
      <4>2. KeyOf(u) \in Keys => keys'[KeyOf(u)] = keys[KeyOf(u)]
        BY <2>1, <3>3
      <4> QED
        BY <1>6, <1>7, <4>1, <4>2
    <3> QED
      BY <3>1, <3>2, <3>3
  <2>8. ASSUME NEW u \in Transfers, reply'[u] # NoTransfer PROVE Matches(u, reply[u])'
    <3>1. CASE reply'[u] = reply[u]
      BY <1>5, <2>8, <3>1
    <3>2. CASE Commits(t) /\ u = t
      <4>1. reply'[t] = t
        BY <3>2 DEF Commits, TypeOK
      <4> QED
        BY <1>1, <3>2, <4>1 DEF Commits, Matches, SamePayload
    <3> QED
      BY <1>10, <3>1, <3>2 DEF Commits, Gives, TypeOK
  <2> QED
    BY <2>4, <2>5, <2>7, <2>8 DEF KeyInv
<1> QED
  BY <1>8, <1>9, <1>10, KeyStep

LEMMA KeysAlways == Spec => [](KeyInv /\ StatusInv /\ LockInv)
<1>1. Init => KeyInv
  BY DEF Init, KeyInv, KeyFits, Hashed, HoldsKey, Stored, Nested
<1>2. TypeOK /\ Phases /\ KeyInv /\ StatusInv /\ LockInv /\ [Next]_vars => KeyInv'
  BY KeyInvStep
<1> QED
  BY <1>1, <1>2, TypeCorrect, StatusAlways, LocksAlways, PTL DEF Spec

(* Whatever retries race on a key, a client is answered with a transaction     *)
(* that was asked for with that key and moves the same money.               *)
THEOREM AnswersMatch == Spec => []ReplyMatchesRequest
<1>1. KeyInv => ReplyMatchesRequest
  BY DEF KeyInv, Matches, ReplyMatchesRequest, KeyOf, SamePayload
<1> QED
  BY <1>1, KeysAlways, PTL

(* A key that can answer with a transaction always can, whatever fails later. *)
THEOREM KeysRememberTransactions == Spec => KeyNeverForgets
<1> DEFINE Remembered == \A k \in Keys : keys[k].resource # NoTransfer
                                            => keys'[k].resource # NoTransfer
<1>1. TypeOK /\ Phases /\ KeyInv /\ StatusInv /\ LockInv /\ [Next]_vars => [Remembered]_vars
  <2> SUFFICES ASSUME TypeOK, Phases, KeyInv, StatusInv, LockInv, [Next]_vars
               PROVE  Remembered
    OBVIOUS
  <2>1. CASE UNCHANGED keys
    BY <2>1
  <2>2. ASSUME NEW t \in Transfers, Commits(t) \/ Gives(t) PROVE Remembered
    <3>1. t # NoTransfer
      BY DistinctAssumption
    <3> QED
      BY <2>2, <3>1, WrittenKey
  <2> QED
    BY <2>1, <2>2, KeyStep DEF KeysRest, Answers
<1> HIDE DEF Remembered
<1>2. Spec => [][Remembered]_vars
  BY <1>1, TypeCorrect, KeysAlways, PTL DEF Spec
<1> QED
  BY <1>2 DEF KeyNeverForgets, Remembered

-----------------------------------------------------------------------------
(* Progress, as far as it is safety: the half of EveryRequestEnds that needs   *)
(* no fairness.  A step takes a handler forward through its labels, or keeps  *)
(* its label and gets it something more (a row, a status, a lock); nothing    *)
(* that another handler does takes anything away from it.                    *)
Holding == Nested \cup {"failing", "approving"}

(* Only a handler that is inside its database transaction holds row locks.   *)
NoOrphanedLocks == \A l \in locks : pc[l.who] \in Holding

Rank(label) ==
    CASE label = "unsent"                                    -> 0
      [] label \in {"received", "reading", "loaded"}         -> 1
      [] label \in {"inserting", "reclaiming", "approving"}  -> 2
      [] label = "validating"                                -> 3
      [] label = "scoring"                                   -> 4
      [] label = "confirming"                                -> 5
      [] label = "consuming"                                 -> 6
      [] label = "booking"                                   -> 7
      [] label = "failing"                                   -> 8
      [] OTHER                                               -> 9

StatusOf(a) == {d \in {a} \cap Decisions : seen[d] # "absent"}
StepOf(a) == \/ a \in Transfers /\ TransferStep(a)
             \/ a \in Decisions /\ DecisionStep(a)
             \/ a \in Errands /\ SetStatus(a)
Advances(a) ==
    \/ Rank(pc[a]) < Rank(pc'[a])
    \/ /\ pc'[a] = pc[a]
       /\ loaded[a] \subseteq loaded'[a]
       /\ StatusOf(a) \subseteq StatusOf(a)'
       /\ LocksOf(a) \subseteq LocksOf(a)'
       /\ StepOf(a) => \/ loaded'[a] # loaded[a]
                       \/ StatusOf(a)' # StatusOf(a)
                       \/ LocksOf(a)' # LocksOf(a)

(* No handler goes back to a label it has left, or loses what it has: a       *)
(* request takes boundedly many steps, whatever the others do.              *)
HandlersAdvance == [][\A a \in Actors : Advances(a)]_vars

(* A step leaves the other handlers alone ...                                *)
Alone(a) ==
    /\ \A b \in Actors \ {a} : pc'[b] = pc[b] /\ loaded'[b] = loaded[b]
    /\ \A d \in Decisions \ {a} : seen'[d] = seen[d]
    /\ \A l \in locks \cup locks' : l.who # a => (l \in locks <=> l \in locks')
(* ... and takes its own to another label, where it only has locks if they    *)
(* belong there, or gets it something that it did not have.                 *)
Rises(a) ==
    /\ Rank(pc[a]) < Rank(pc'[a])
    /\ \/ pc'[a] \in Holding
       \/ \A l \in locks' : l.who # a
       \/ UNCHANGED locks /\ pc[a] \notin Holding
Gains(a) ==
    /\ pc'[a] = pc[a]
    /\ loaded[a] \subseteq loaded'[a]
    /\ a \in Decisions /\ seen[a] # "absent" => seen'[a] # "absent"
    /\ locks \subseteq locks'
    /\ \/ loaded'[a] # loaded[a]
       \/ a \in Decisions /\ seen[a] = "absent" /\ seen'[a] # "absent"
       \/ \E l \in locks' \ locks : l.who = a
    /\ UNCHANGED locks \/ pc[a] \in Holding

LEMMA Ranks ==
    /\ Rank("unsent") = 0
    /\ \A l \in {"received", "reading", "loaded"} : Rank(l) = 1
    /\ \A l \in {"inserting", "reclaiming", "approving"} : Rank(l) = 2
    /\ Rank("validating") = 3
    /\ Rank("scoring") = 4
    /\ Rank("confirming") = 5
    /\ Rank("consuming") = 6
    /\ Rank("booking") = 7
    /\ \A l \in Nested : Rank(l) \in 3 .. 7
    /\ Rank("failing") = 8
    /\ \A l \in Closed : Rank(l) = 9
    /\ \A l \in Labels \ Closed : Rank(l) \in 0 .. 8
<1>1. /\ Rank("unsent") = 0
      /\ \A l \in {"received", "reading", "loaded"} : Rank(l) = 1
      /\ \A l \in {"inserting", "reclaiming", "approving"} : Rank(l) = 2
  BY DEF Rank
<1>2. /\ Rank("validating") = 3
      /\ Rank("scoring") = 4
      /\ Rank("confirming") = 5
      /\ Rank("consuming") = 6
      /\ Rank("booking") = 7
      /\ Rank("failing") = 8
  BY DEF Rank
<1>3. \A l \in Closed : Rank(l) = 9
  BY DEF Rank, Closed
<1>4. \A l \in Nested : Rank(l) \in 3 .. 7
  BY <1>2 DEF Nested
<1> QED
  BY <1>1, <1>2, <1>3, <1>4 DEF Labels, Closed

LEMMA ReleaseLeavesNone ==
    ASSUME NEW a, Release(a)
    PROVE  /\ \A l \in locks' : l.who # a
           /\ \A l \in locks \cup locks' : l.who # a => (l \in locks <=> l \in locks')
BY DEF Release, LocksOf

(* A step that ends a handler, one that changes its label only, and an error  *)
(* inside the savepoint.                                                    *)
LEMMA EndRises ==
    ASSUME TypeOK, NEW a \in Actors, pc[a] \notin Closed, NEW l \in Closed,
           pc' = [pc EXCEPT ![a] = l], CloseSession(a) \/ UNCHANGED loaded,
           Release(a) \/ (UNCHANGED locks /\ pc[a] \notin Holding),
           UNCHANGED seen \/ (a \in Decisions /\ seen' = [seen EXCEPT ![a] = "absent"])
    PROVE  Alone(a) /\ Rises(a)
<1>1. pc'[a] = l /\ \A b \in Actors \ {a} : pc'[b] = pc[b]
  BY DEF TypeOK
<1>2. \A b \in Actors \ {a} : loaded'[b] = loaded[b]
  BY CloseFrame
<1>3. \A d \in Decisions \ {a} : seen'[d] = seen[d]
  BY DEF TypeOK
<1>4. Rank(pc[a]) < Rank(pc'[a])
  <2>1. pc[a] \in Labels \ Closed
    BY DEF TypeOK
  <2> QED
    BY <1>1, <2>1, Ranks
<1> QED
  BY <1>1, <1>2, <1>3, <1>4, ReleaseLeavesNone DEF Alone, Rises

LEMMA MoveRises ==
    ASSUME TypeOK, NEW a \in Actors, NEW l, pc' = [pc EXCEPT ![a] = l], Rank(pc[a]) < Rank(l),
           \A b \in Actors \ {a} : loaded'[b] = loaded[b], UNCHANGED seen,
           \/ l \in Holding /\ locks \subseteq locks' /\ \A m \in locks' \ locks : m.who = a
           \/ UNCHANGED locks /\ pc[a] \notin Holding
    PROVE  Alone(a) /\ Rises(a)
<1>1. pc'[a] = l /\ \A b \in Actors \ {a} : pc'[b] = pc[b]
  BY DEF TypeOK
<1> QED
  BY <1>1 DEF Alone, Rises

LEMMA FailRises ==
    ASSUME TypeOK, NEW t \in Transfers, pc[t] \in Nested, Fail(t)
    PROVE  Alone(t) /\ Rises(t)
<1>1. pc'[t] = "failing" /\ \A b \in Actors \ {t} : pc'[b] = pc[b]
  BY DEF Fail, Goto, TypeOK
<1>2. \A b \in Actors \ {t} : loaded'[b] = loaded[b]
  BY CloseFrame DEF Fail
<1>3. locks' \subseteq locks /\ \A l \in locks : l.who # t => l \in locks'
  BY ReleaseLocks DEF Fail
<1>4. UNCHANGED seen
  BY DEF Fail
<1>5. Rank(pc[t]) < Rank(pc'[t])
  BY <1>1, Ranks
<1> QED
  BY <1>1, <1>2, <1>3, <1>4, <1>5 DEF Alone, Rises, Holding

LEMMA TransferAdvances ==
    ASSUME TypeOK, Phases, NEW t \in Transfers,
           \/ Authenticate(t) \/ TransferStep(t) \/ InternalError(t)
           \/ Crash(t) \/ DeadlockedTransfer(t)
    PROVE  Alone(t) /\ (Rises(t) \/ Gains(t))
<1> USE DEF Goto, locals, sessions
<1>1. CASE Authenticate(t)
  <2>1. \A b \in Actors \ {t} : loaded'[b] = loaded[b]
    BY <1>1, SelectFrame DEF Authenticate
  <2>2. /\ pc[t] = "unsent" /\ pc' = [pc EXCEPT ![t] = "received"]
        /\ UNCHANGED locks /\ UNCHANGED seen
    BY <1>1 DEF Authenticate
  <2>3. Rank(pc[t]) < Rank("received") /\ pc[t] \notin Holding
    BY <2>2, Ranks DEF Holding, Nested
  <2> QED
    BY <2>1, <2>2, <2>3, MoveRises
<1>2. CASE RefuseKey(t) \/ Replay(t) \/ LoseInsertRace(t)
  <2>1. PICK l \in {"conflict", "replayed"} : \E tx : Answer(t, l, tx)
    BY <1>2 DEF RefuseKey, Replay, LoseInsertRace
  <2>2. pc[t] \notin Closed \cup Holding
    BY <1>2 DEF RefuseKey, Replay, LoseInsertRace, Closed, Holding, Nested
  <2> QED
    BY <2>1, <2>2, EndRises DEF Answer, Closed
<1>3. CASE UseKey(t)
  <2>1. PICK l \in {"inserting", "reclaiming"} : pc' = [pc EXCEPT ![t] = l]
    BY <1>3 DEF UseKey
  <2>2. pc[t] = "received" /\ UNCHANGED locks /\ UNCHANGED seen /\ UNCHANGED loaded
    BY <1>3 DEF UseKey
  <2>3. Rank(pc[t]) < Rank(l) /\ pc[t] \notin Holding
    BY <2>2, Ranks DEF Holding, Nested
  <2> QED
    BY <2>1, <2>2, <2>3, MoveRises
<1>4. CASE InsertKey(t) \/ ReclaimKey(t)
  <2>1. KeyLock(t).who = t
    BY DEF KeyLock
  <2>2. /\ pc' = [pc EXCEPT ![t] = "validating"] /\ pc[t] \in {"inserting", "reclaiming"}
        /\ locks' = locks \cup {KeyLock(t)} /\ UNCHANGED loaded /\ UNCHANGED seen
    BY <1>4 DEF InsertKey, ReclaimKey
  <2>3. Rank(pc[t]) < Rank("validating")
    BY <2>2, Ranks
  <2> QED
    BY <2>1, <2>2, <2>3, MoveRises DEF Holding, Nested
<1>5. CASE Validate(t) \/ Score(t) \/ CheckConfirmation(t)
  <2>1. PICK l \in {"scoring", "confirming", "consuming"} :
            pc' = [pc EXCEPT ![t] = l] /\ Rank(pc[t]) < Rank(l)
    BY <1>5, Ranks DEF Validate, Score, CheckConfirmation
  <2>2. /\ UNCHANGED locks /\ UNCHANGED seen
        /\ \A b \in Actors \ {t} : loaded'[b] = loaded[b]
    BY <1>5 DEF Validate, Score, CheckConfirmation, TypeOK
  <2> QED
    BY <2>1, <2>2, MoveRises DEF Holding, Nested
<1>6. CASE ConsumeConfirmation(t)
  <2>1. \A l \in ConsumeLocks(t) : l.who = t
    BY DEF ConsumeLocks, ConfirmationLock, AccountLock
  <2>2. /\ pc[t] = "consuming" /\ pc' = [pc EXCEPT ![t] = "booking"]
        /\ locks' = locks \cup ConsumeLocks(t) /\ UNCHANGED seen /\ UNCHANGED loaded
    BY <1>6 DEF ConsumeConfirmation
  <2>3. Rank(pc[t]) < Rank("booking") /\ "booking" \in Holding
    BY <2>2, Ranks DEF Holding, Nested
  <2> QED
    BY <2>1, <2>2, <2>3, MoveRises
<1>7. CASE TakeLock(t)
  <2>1. PICK l \in WantedLocks(t) : locks' = locks \cup {l}
    BY <1>7 DEF TakeLock
  <2>2. l.who = t /\ l \notin locks
    BY <2>1 DEF WantedLocks, PartyLocks, AccountLock
  <2>3. pc[t] = "booking" /\ UNCHANGED pc /\ UNCHANGED loaded /\ UNCHANGED seen
    BY <1>7 DEF TakeLock
  <2> QED
    BY <2>1, <2>2, <2>3, DistinctAssumption DEF Alone, Gains, Holding, Nested
<1>8. CASE QueueForReview(t) \/ Complete(t) \/ MarkKeyFailed(t) \/ Crash(t)
  <2>1. PICK l \in {"created", "refused", "lost"} : pc' = [pc EXCEPT ![t] = l]
    BY <1>8 DEF QueueForReview, Complete, CommitTransaction, MarkKeyFailed, Crash
  <2>2. /\ Release(t) /\ UNCHANGED seen /\ pc[t] \notin Closed
        /\ CloseSession(t) \/ UNCHANGED loaded
    BY <1>8 DEF QueueForReview, Complete, CommitTransaction, ReadyToCommit, MarkKeyFailed,
                Crash, InFlight, Closed
  <2> QED
    BY <2>1, <2>2, EndRises DEF Closed
<1>9. CASE \/ RefuseDraft(t) \/ ScoreFails(t) \/ RefuseConfirmation(t)
           \/ RefuseOverdraft(t) \/ InternalError(t) \/ DeadlockedTransfer(t)
  <2>1. pc[t] \in Nested /\ Fail(t)
    BY <1>9 DEF RefuseDraft, ScoreFails, RefuseConfirmation, RefuseOverdraft, ReadyToCommit,
                InternalError, DeadlockedTransfer, Nested
  <2> QED
    BY <2>1, FailRises
<1> QED
  BY <1>1, <1>2, <1>3, <1>4, <1>5, <1>6, <1>7, <1>8, <1>9 DEF TransferStep

LEMMA DecisionAdvances ==
    ASSUME TypeOK, Phases, CasesAreReal, NEW d \in Decisions,
           ReadCase(d) \/ DecisionStep(d) \/ AbandonDecision(d) \/ DeadlockedDecision(d)
    PROVE  Alone(d) /\ (Rises(d) \/ Gains(d))
<1> USE DEF Enter, locals, sessions
<1>1. CASE ReadCase(d) \/ BeginApproval(d)
  <2>1. \E l \in {"reading", "approving"} :
            pc' = [pc EXCEPT ![d] = l] /\ Rank(pc[d]) < Rank(l) /\ pc[d] \notin Holding
    BY <1>1, Ranks DEF ReadCase, BeginApproval, HasRead, Holding, Nested
  <2>2. UNCHANGED locks /\ UNCHANGED loaded /\ UNCHANGED seen
    BY <1>1 DEF ReadCase, BeginApproval
  <2> QED
    BY <2>1, <2>2, MoveRises
<1>2. CASE ReadTransaction(d)
  <2>1. txs[Tx(d)] # "absent"
    BY <1>2, RulingType DEF ReadTransaction, Phases, DecisionAt, CasesAreReal
  <2>2. /\ UNCHANGED pc /\ UNCHANGED locks /\ UNCHANGED loaded
        /\ seen[d] = "absent" /\ seen' = [seen EXCEPT ![d] = txs[Tx(d)]]
    BY <1>2 DEF ReadTransaction
  <2>3. seen'[d] # "absent" /\ \A c \in Decisions \ {d} : seen'[c] = seen[c]
    BY <2>1, <2>2 DEF TypeOK
  <2> QED
    BY <2>2, <2>3 DEF Alone, Gains
<1>3. CASE ReadParty(d)
  <2>1. PICK x \in Parties(Tx(d)) \ loaded[d] : Select(d, {x})
    BY <1>3 DEF ReadParty
  <2>2. /\ loaded'[d] = loaded[d] \cup {x}
        /\ \A b \in Actors \ {d} : loaded'[b] = loaded[b]
    BY <2>1, SelectFrame
  <2>3. UNCHANGED pc /\ UNCHANGED locks /\ UNCHANGED seen
    BY <1>3 DEF ReadParty
  <2> QED
    BY <2>1, <2>2, <2>3 DEF Alone, Gains
<1>4. CASE TakeApprovalLock(d)
  <2>1. PICK l \in ApprovalLocks(d) \ locks : locks' = locks \cup {l}
    BY <1>4 DEF TakeApprovalLock
  <2>2. l.who = d
    BY <2>1 DEF ApprovalLocks, AccountLock
  <2>3. pc[d] = "approving" /\ UNCHANGED pc /\ UNCHANGED loaded /\ UNCHANGED seen
    BY <1>4 DEF TakeApprovalLock
  <2> QED
    BY <2>1, <2>2, <2>3 DEF Alone, Gains, Holding
<1>5. CASE \/ RejectTransfer(d) \/ FreezeSender(d) \/ RefuseApproval(d) \/ ApproveTransfer(d)
           \/ RefuseOverdrawnApproval(d) \/ AbandonDecision(d) \/ DeadlockedDecision(d)
  <2>1. pc[d] \notin Closed /\ \E l \in {"decided", "conflict", "lost"} : Finish(d, l)
    BY <1>5 DEF RejectTransfer, FreezeSender, RefuseApproval, ApproveTransfer, HasRead,
         RefuseOverdrawnApproval, AbandonDecision, DeadlockedDecision, InFlight, Closed
  <2> QED
    BY <2>1, EndRises DEF Finish, Closed
<1> QED
  BY <1>1, <1>2, <1>3, <1>4, <1>5 DEF DecisionStep

LEMMA ErrandAdvances ==
    ASSUME TypeOK, NEW e \in Errands, LoadAccount(e) \/ SetStatus(e) \/ AbandonErrand(e)
    PROVE  Alone(e) /\ Rises(e)
<1> USE DEF Proceed, locals
<1>1. CASE LoadAccount(e)
  <2>1. \A b \in Actors \ {e} : loaded'[b] = loaded[b]
    BY <1>1, SelectFrame DEF LoadAccount
  <2>2. /\ pc[e] = "unsent" /\ pc' = [pc EXCEPT ![e] = "loaded"]
        /\ UNCHANGED locks /\ UNCHANGED seen
    BY <1>1 DEF LoadAccount
  <2>3. Rank(pc[e]) < Rank("loaded") /\ pc[e] \notin Holding
    BY <2>2, Ranks DEF Holding, Nested
  <2> QED
    BY <2>1, <2>2, <2>3, MoveRises
<1>2. CASE SetStatus(e) \/ AbandonErrand(e)
  <2>1. /\ pc[e] \notin Closed \cup Holding /\ UNCHANGED locks /\ UNCHANGED seen
        /\ CloseSession(e) /\ \E l \in {"decided", "lost"} : pc' = [pc EXCEPT ![e] = l]
    BY <1>2 DEF SetStatus, AbandonErrand, Closed, Holding, Nested
  <2> QED
    BY <2>1, EndRises DEF Closed
<1> QED
  BY <1>1, <1>2

LEMMA ProgressStep ==
    ASSUME TypeOK, Phases, CasesAreReal, [Next]_vars
    PROVE  \/ UNCHANGED pc /\ UNCHANGED locks /\ UNCHANGED loaded /\ UNCHANGED seen
           \/ \E a \in Actors : Alone(a) /\ (Rises(a) \/ Gains(a))
<1>1. CASE (\E c \in Confirmations : ExpireConfirmation(c)) \/ Midnight \/ UNCHANGED vars
  BY <1>1 DEF ExpireConfirmation, Midnight, vars, sessions, locals
<1> QED
  BY <1>1, TransferAdvances, DecisionAdvances, ErrandAdvances DEF Next, Terminated

(* No lock outlives its handler's need for it: whoever holds one is inside     *)
(* the savepoint, storing its failure, or approving.                        *)
LEMMA OrphanStep ==
    ASSUME TypeOK, Phases, CasesAreReal, NoOrphanedLocks, [Next]_vars
    PROVE  NoOrphanedLocks'
<1>1. CASE UNCHANGED pc /\ UNCHANGED locks
  BY <1>1 DEF NoOrphanedLocks
<1>2. ASSUME NEW a \in Actors, Alone(a), Rises(a) \/ Gains(a) PROVE NoOrphanedLocks'
  <2> SUFFICES ASSUME NEW l \in locks' PROVE pc'[l.who] \in Holding
    BY DEF NoOrphanedLocks
  <2>1. l.who \in Actors
    BY InductiveTypes DEF TypeOK
  <2>2. CASE l.who # a
    <3>1. l \in locks /\ pc'[l.who] = pc[l.who]
      BY <1>2, <2>1, <2>2 DEF Alone
    <3> QED
      BY <3>1 DEF NoOrphanedLocks
  <2>3. CASE l.who = a /\ Rises(a)
    <3>1. CASE pc'[a] \in Holding
      BY <2>3, <3>1
    <3>2. CASE UNCHANGED locks /\ pc[a] \notin Holding
      BY <2>3, <3>2 DEF NoOrphanedLocks
    <3> QED
      BY <2>3, <3>1, <3>2 DEF Rises
  <2>4. CASE l.who = a /\ Gains(a)
    BY <2>4 DEF Gains, NoOrphanedLocks
  <2> QED
    BY <1>2, <2>2, <2>3, <2>4
<1> QED
  BY <1>1, <1>2, ProgressStep

(* A row lock never outlives its request: whatever ends a handler, a crash, a  *)
(* database error or a deadlock included, lets go of every lock it had.     *)
THEOREM LocksDieWithTheirRequest == Spec => []NoOrphanedLocks
<1>1. Init => NoOrphanedLocks
  BY DEF Init, NoOrphanedLocks
<1>2. StatusInv => CasesAreReal
  BY DEF StatusInv
<1>3. TypeOK /\ Phases /\ CasesAreReal /\ NoOrphanedLocks /\ [Next]_vars => NoOrphanedLocks'
  BY OrphanStep
<1> QED
  BY <1>1, <1>2, <1>3, TypeCorrect, StatusAlways, PTL DEF Spec

(* No handler runs in circles or is set back: its label only ever rises, and   *)
(* a step that keeps the label gets it a row, a status or a lock that it did *)
(* not have (there are finitely many), which nobody else takes from it.     *)
THEOREM HandlersOnlyAdvance == Spec => HandlersAdvance
<1> DEFINE Step == \A a \in Actors : Advances(a)
<1>1. ASSUME TypeOK, Phases, CasesAreReal, NEW a \in Actors, StepOf(a)
      PROVE  Rises(a) \/ Gains(a)
  BY <1>1, TransferAdvances, DecisionAdvances, ErrandAdvances DEF StepOf
<1>2. ASSUME NEW a \in Actors, Gains(a) PROVE Advances(a)
  <2>1. StatusOf(a) \subseteq StatusOf(a)' /\ LocksOf(a) \subseteq LocksOf(a)'
    BY <1>2 DEF Gains, StatusOf, LocksOf
  <2>2. CASE a \in Decisions /\ seen[a] = "absent" /\ seen'[a] # "absent"
    <3>1. a \in StatusOf(a)' /\ a \notin StatusOf(a)
      BY <2>2 DEF StatusOf
    <3> QED
      BY <1>2, <2>1, <3>1 DEF Gains, Advances
  <2>3. ASSUME NEW l \in locks' \ locks, l.who = a PROVE Advances(a)
    <3>1. l \in LocksOf(a)' /\ l \notin LocksOf(a)
      BY <2>3 DEF LocksOf
    <3> QED
      BY <1>2, <2>1, <3>1 DEF Gains, Advances
  <2>4. CASE loaded'[a] # loaded[a]
    BY <1>2, <2>1, <2>4 DEF Gains, Advances
  <2> QED
    BY <1>2, <2>2, <2>3, <2>4 DEF Gains
<1>3. ASSUME NEW a \in Actors, Rises(a) PROVE Advances(a)
  BY <1>3 DEF Rises, Advances
<1>4. TypeOK /\ Phases /\ CasesAreReal /\ [Next]_vars => [Step]_vars
  <2> SUFFICES ASSUME TypeOK, Phases, CasesAreReal, [Next]_vars, NEW b \in Actors
               PROVE  Advances(b)
    OBVIOUS
  <2>1. CASE StepOf(b)
    BY <1>1, <1>2, <1>3, <2>1
  <2>2. CASE ~StepOf(b) /\ UNCHANGED pc /\ UNCHANGED locks /\ UNCHANGED loaded /\ UNCHANGED seen
    BY <2>2 DEF Advances, StatusOf, LocksOf
  <2>3. ASSUME ~StepOf(b), NEW a \in Actors, Alone(a), Rises(a) \/ Gains(a) PROVE Advances(b)
    <3>1. CASE a = b
      BY <1>2, <1>3, <2>3, <3>1
    <3>2. CASE a # b
      <4>1. pc'[b] = pc[b] /\ loaded'[b] = loaded[b]
        BY <2>3, <3>2 DEF Alone
      <4>2. StatusOf(b)' = StatusOf(b) /\ LocksOf(b)' = LocksOf(b)
        BY <2>3, <3>2 DEF Alone, StatusOf, LocksOf
      <4> QED
        BY <2>3, <4>1, <4>2 DEF Advances
    <3> QED
      BY <3>1, <3>2
  <2> QED
    BY <2>1, <2>2, <2>3, ProgressStep
<1>5. StatusInv => CasesAreReal
  BY DEF StatusInv
<1> HIDE DEF Step
<1>6. Spec => [][Step]_vars
  BY <1>4, <1>5, TypeCorrect, StatusAlways, PTL DEF Spec
<1> QED
  BY <1>6 DEF HandlersAdvance, Step

-----------------------------------------------------------------------------
(* Waiting.  The model aborts a transfer of a wait cycle when it is inside its *)
(* savepoint, and a decision when it is approving; a cycle has no others, for *)
(* whoever is waited for holds a lock, and whoever only inserts or reclaims  *)
(* a key holds none yet.                                                    *)
DeadlocksCanBeBroken ==
    \A a \in Actors : InDeadlock(a) =>
        \/ a \in Transfers /\ pc[a] \in {"consuming", "booking"}
        \/ a \in Decisions /\ pc[a] = "approving"

LEMMA WaitersOwn ==
    ASSUME NEW a, \A l \in AwaitedLocks(a) : l.who = a, NEW b, WaitsFor(a, b)
    PROVE  a # b /\ AwaitedLocks(a) # {} /\ LocksOf(b) # {}
BY DEF WaitsFor, Blocks, LocksOf

LEMMA AwaitedOwner ==
    ASSUME NEW a
    PROVE  \A l \in AwaitedLocks(a) : l.who = a
<1>1. \A l \in {KeyLock(a)} \cup ConsumeLocks(a) \cup WantedLocks(a) \cup ApprovalLocks(a) :
          l.who = a
  BY DEF KeyLock, ConsumeLocks, ConfirmationLock, AccountLock, WantedLocks, PartyLocks,
         ApprovalLocks
<1> QED
  BY <1>1 DEF AwaitedLocks

(* In a smallest set of handlers that wait for each other everybody is waited  *)
(* for: without one that is not, the others would still wait.               *)
LEMMA DeadlockedHoldAndWait ==
    ASSUME NEW a \in Actors, InDeadlock(a)
    PROVE  AwaitedLocks(a) # {} /\ LocksOf(a) # {}
<1>1. PICK S \in SUBSET Actors : /\ a \in S
                                 /\ MutuallyWaiting(S)
                                 /\ \A T \in SUBSET S : T # {} /\ MutuallyWaiting(T) => T = S
  BY DEF InDeadlock
<1>2. PICK b \in S : WaitsFor(a, b)
  BY <1>1 DEF MutuallyWaiting
<1>3. b # a /\ AwaitedLocks(a) # {}
  BY <1>2, WaitersOwn, AwaitedOwner
<1>4. \E c \in S : WaitsFor(c, a)
  <2> SUFFICES ASSUME \A c \in S : ~WaitsFor(c, a) PROVE FALSE
    OBVIOUS
  <2>1. PICK T : T = S \ {a}
    OBVIOUS
  <2>2. MutuallyWaiting(T)
    BY <1>1, <2>1 DEF MutuallyWaiting
  <2>3. T \in SUBSET S /\ b \in T /\ T # S
    BY <1>1, <1>2, <1>3, <2>1
  <2> QED
    BY <1>1, <2>2, <2>3
<1> QED
  BY <1>3, <1>4, WaitersOwn, AwaitedOwner

(* Every wait cycle can be broken, whatever requests it is made of: each of   *)
(* its members is one that the deadlock detector's error can end.           *)
THEOREM EveryDeadlockCanBeBroken == Spec => []DeadlocksCanBeBroken
<1>1. TypeOK /\ Phases /\ NoOrphanedLocks => DeadlocksCanBeBroken
  <2> SUFFICES ASSUME TypeOK, Phases, NoOrphanedLocks, NEW a \in Actors, InDeadlock(a)
               PROVE  \/ a \in Transfers /\ pc[a] \in {"consuming", "booking"}
                      \/ a \in Decisions /\ pc[a] = "approving"
    BY DEF DeadlocksCanBeBroken
  <2>1. pc[a] \in Holding
    BY DeadlockedHoldAndWait DEF NoOrphanedLocks, LocksOf
  <2>2. pc[a] \in {"inserting", "reclaiming", "consuming", "booking", "approving"}
    BY DeadlockedHoldAndWait DEF AwaitedLocks
  <2>3. pc[a] \in {"consuming", "booking", "approving"}
    BY <2>1, <2>2 DEF Holding, Nested
  <2>4. a \in Transfers => pc[a] # "approving"
    BY DEF Phases, TransferAt
  <2>5. a \in Decisions => pc[a] = "approving"
    BY <2>3 DEF Phases, DecisionAt, Closed
  <2>6. a \notin Errands
    BY <2>3 DEF Phases, ErrandAt, Closed
  <2> QED
    BY <2>3, <2>4, <2>5, <2>6
<1> QED
  BY <1>1, TypeCorrect, LocksDieWithTheirRequest, PTL

(* When a handler has a step to take: the guards of TransferStep, DecisionStep *)
(* and SetStatus, and the lock that each of them may wait for.              *)
FreezeLock(d) == AccountLock(d, From(Tx(d)), "no_key_update")
StatusLock(e) == AccountLock(e, Target(e), "no_key_update")
TransferCanStep(t) ==
    \/ pc[t] = "received" /\ (KeyRefuses(t) \/ CanReplay(t) \/ request[t].key # NoKey)
    \/ pc[t] \in {"inserting", "reclaiming"} /\ Grantable(KeyLock(t))
    \/ pc[t] \in {"validating", "scoring", "confirming", "failing"}
    \/ pc[t] = "consuming" /\ \A l \in ConsumeLocks(t) : Grantable(l)
    \/ pc[t] = "booking" /\ \E l \in WantedLocks(t) : Grantable(l)
    \/ pc[t] = "booking" /\ WantedLocks(t) = {} /\ risk[t] \in {"allow", "review"}
DecisionCanStep(d) ==
    \/ pc[d] = "reading" /\ seen[d] = "absent" /\ txs[Tx(d)] # "absent"
    \/ pc[d] = "reading" /\ Parties(Tx(d)) \ loaded[d] # {}
    \/ /\ HasRead(d)
       /\ \/ ruling[d].verdict \in {"approve", "reject"}
          \/ copy[d][From(Tx(d))].status = "frozen"
          \/ Grantable(FreezeLock(d))
    \/ pc[d] = "approving" /\ \E l \in ApprovalLocks(d) \ locks : Grantable(l)
    \/ pc[d] = "approving" /\ ApprovalLocks(d) \subseteq locks
ErrandCanStep(e) == pc[e] = "loaded" /\ (Changes(e) => Grantable(StatusLock(e)))

CanStep(a) == \/ a \in Transfers /\ TransferCanStep(a)
              \/ a \in Decisions /\ DecisionCanStep(a)
              \/ a \in Errands /\ ErrandCanStep(a)

Needs(a) == AwaitedLocks(a)
              \cup {FreezeLock(d) : d \in {b \in {a} \cap Decisions : pc[b] = "reading"}}
              \cup {StatusLock(e) : e \in {a} \cap Errands}
HeldUpBy(a, b) == \E wanted \in Needs(a), held \in LocksOf(b) : Blocks(held, wanted)

(* Whoever is in flight has a step to take, or waits for a lock of another    *)
(* request in flight: transfer(), decide_case(), freeze_account().          *)
NobodyIsStuck ==
    \A a \in Actors : InFlight(a) =>
        CanStep(a) \/ \E b \in Actors \ {a} : InFlight(b) /\ HeldUpBy(a, b)

LEMMA BlockedBySomeone ==
    ASSUME TypeOK, NoOrphanedLocks, NEW a \in Actors, NEW l \in Needs(a), l.who = a, ~Grantable(l)
    PROVE  \E b \in Actors \ {a} : InFlight(b) /\ HeldUpBy(a, b)
<1>1. PICK held \in locks : Blocks(held, l)
  BY DEF Grantable
<1>2. held.who \in Actors /\ held.who # a /\ held \in LocksOf(held.who)
  BY <1>1 DEF TypeOK, Blocks, LocksOf
<1>3. InFlight(held.who)
  BY DEF NoOrphanedLocks, Holding, Nested, InFlight, Closed
<1> QED
  BY <1>1, <1>2, <1>3 DEF HeldUpBy

(* A transfer that was scored knows whether it goes to review.               *)
RiskKnown == \A t \in Transfers :
    pc[t] \in {"confirming", "consuming", "booking"} => risk[t] # "unknown"

LEMMA RiskStep ==
    ASSUME TypeOK, Phases, RiskKnown, [Next]_vars
    PROVE  RiskKnown'
<1> USE DEF Goto, locals
<1>1. ASSUME NEW t \in Transfers, NEW l, pc' = [pc EXCEPT ![t] = l],
             \A u \in Transfers \ {t} : risk'[u] = risk[u],
             l \in {"confirming", "consuming", "booking"} => risk'[t] # "unknown"
      PROVE  RiskKnown'
  BY <1>1 DEF RiskKnown, TypeOK
<1>2. ASSUME NEW t \in Transfers,
             \/ Authenticate(t) \/ RefuseKey(t) \/ Replay(t) \/ UseKey(t) \/ InsertKey(t)
             \/ LoseInsertRace(t) \/ ReclaimKey(t) \/ Validate(t) \/ MarkKeyFailed(t)
      PROVE  RiskKnown'
  <2>1. \E l \in {"received", "conflict", "replayed", "inserting", "reclaiming", "validating",
                  "scoring", "refused"} : pc' = [pc EXCEPT ![t] = l]
    BY <1>2 DEF Authenticate, RefuseKey, Replay, Answer, UseKey, InsertKey, LoseInsertRace,
                ReclaimKey, Validate, MarkKeyFailed
  <2>2. UNCHANGED risk
    BY <1>2 DEF Authenticate, RefuseKey, Replay, Answer, UseKey, InsertKey, LoseInsertRace,
                ReclaimKey, Validate, MarkKeyFailed
  <2> QED
    BY <1>1, <2>1, <2>2
<1>3. ASSUME NEW t \in Transfers, Score(t) PROVE RiskKnown'
  <2>1. pc' = [pc EXCEPT ![t] = "confirming"] /\ risk'[t] \in {"allow", "review"}
        /\ \A u \in Transfers \ {t} : risk'[u] = risk[u]
    BY <1>3 DEF Score, TypeOK
  <2> QED
    BY <1>1, <2>1
<1>4. ASSUME NEW t \in Transfers, CheckConfirmation(t) \/ ConsumeConfirmation(t) PROVE RiskKnown'
  <2>1. risk[t] # "unknown" /\ UNCHANGED risk
        /\ \E l \in {"consuming", "booking"} : pc' = [pc EXCEPT ![t] = l]
    BY <1>4 DEF CheckConfirmation, ConsumeConfirmation, RiskKnown
  <2> QED
    BY <1>1, <2>1
<1>5. ASSUME NEW t \in Transfers,
             \/ RefuseDraft(t) \/ ScoreFails(t) \/ RefuseConfirmation(t) \/ RefuseOverdraft(t)
             \/ QueueForReview(t) \/ Complete(t)
             \/ InternalError(t) \/ DeadlockedTransfer(t) \/ Crash(t)
      PROVE  RiskKnown'
  <2>1. /\ \E l \in {"failing", "created", "lost"} : pc' = [pc EXCEPT ![t] = l]
        /\ risk' = [risk EXCEPT ![t] = "unknown"]
    BY <1>5 DEF RefuseDraft, ScoreFails, RefuseConfirmation, RefuseOverdraft, QueueForReview,
                Complete, CommitTransaction, InternalError, DeadlockedTransfer, Fail, Crash
  <2>2. \A u \in Transfers \ {t} : risk'[u] = risk[u]
    BY <2>1 DEF TypeOK
  <2> QED
    BY <1>1, <2>1, <2>2
<1>6. ASSUME UNCHANGED risk, \A t \in Transfers : pc'[t] = pc[t] PROVE RiskKnown'
  BY <1>6 DEF RiskKnown
<1>7. ASSUME NEW t \in Transfers, TakeLock(t) PROVE RiskKnown'
  BY <1>6, <1>7 DEF TakeLock
<1>8. ASSUME NEW d \in Decisions,
             ReadCase(d) \/ DecisionStep(d) \/ AbandonDecision(d) \/ DeadlockedDecision(d)
      PROVE  RiskKnown'
  <2>1. UNCHANGED risk
    BY <1>8 DEF ReadCase, DecisionStep, AbandonDecision, DeadlockedDecision, ReadTransaction,
         ReadParty, RejectTransfer, FreezeSender, RefuseApproval, BeginApproval,
         TakeApprovalLock, ApproveTransfer, RefuseOverdrawnApproval, Finish
  <2>2. UNCHANGED pc \/ \E l : pc' = [pc EXCEPT ![d] = l]
    BY <1>8 DEF ReadCase, DecisionStep, AbandonDecision, DeadlockedDecision, ReadTransaction,
         ReadParty, RejectTransfer, FreezeSender, RefuseApproval, BeginApproval,
         TakeApprovalLock, ApproveTransfer, RefuseOverdrawnApproval, Finish, Enter
  <2> QED
    BY <1>6, <2>1, <2>2, DistinctAssumption DEF TypeOK
<1>9. ASSUME NEW e \in Errands, LoadAccount(e) \/ SetStatus(e) \/ AbandonErrand(e)
      PROVE  RiskKnown'
  <2>1. UNCHANGED risk /\ \E l : pc' = [pc EXCEPT ![e] = l]
    BY <1>9 DEF LoadAccount, SetStatus, AbandonErrand, Proceed
  <2> QED
    BY <1>6, <2>1, DistinctAssumption DEF TypeOK
<1>10. CASE (\E c \in Confirmations : ExpireConfirmation(c)) \/ Midnight \/ UNCHANGED vars
  BY <1>6, <1>10 DEF ExpireConfirmation, Midnight, vars
<1>11. CASE \E t \in Transfers : \/ Authenticate(t) \/ TransferStep(t) \/ InternalError(t)
                                 \/ Crash(t) \/ DeadlockedTransfer(t)
  BY <1>2, <1>3, <1>4, <1>5, <1>7, <1>11 DEF TransferStep
<1> QED
  BY <1>8, <1>9, <1>10, <1>11 DEF Next, Terminated

(* Whatever the interleaving, a request that was received and not answered has  *)
(* a step to take, or waits for a lock that a request in flight holds: none   *)
(* waits for a lock that nobody is going to release, a row that was never    *)
(* inserted or a status that was never read.                                *)
THEOREM NobodyWaitsForNothing == Spec => []NobodyIsStuck
<1>1. Init => RiskKnown
  BY DEF Init, RiskKnown
<1>2. TypeOK /\ Phases /\ RiskKnown /\ [Next]_vars => RiskKnown'
  BY RiskStep
<1>3. TypeOK /\ Phases /\ CasesAreReal /\ RiskKnown /\ NoOrphanedLocks => NobodyIsStuck
  <2> SUFFICES ASSUME TypeOK, Phases, CasesAreReal, RiskKnown, NoOrphanedLocks,
                      NEW a \in Actors, InFlight(a),
                      ~\E b \in Actors \ {a} : InFlight(b) /\ HeldUpBy(a, b)
               PROVE  \/ a \in Transfers /\ TransferCanStep(a)
                      \/ a \in Decisions /\ DecisionCanStep(a)
                      \/ a \in Errands /\ ErrandCanStep(a)
    BY DEF NobodyIsStuck, CanStep
  <2>1. \A l \in AwaitedLocks(a) : Grantable(l)
    BY BlockedBySomeone, AwaitedOwner DEF Needs
  <2>2. CASE a \in Transfers
    <3>1. pc[a] \in {"received", "inserting", "reclaiming", "failing"} \cup Nested
      BY <2>2 DEF TypeOK, Labels, InFlight, Phases, TransferAt, Closed
    <3>2. CASE pc[a] = "received"
      BY <2>2, <3>2 DEF TransferCanStep, KeyRefuses
    <3>3. CASE pc[a] \in {"inserting", "reclaiming"}
      <4>1. KeyLock(a) \in AwaitedLocks(a)
        BY <3>3 DEF AwaitedLocks
      <4> QED
        BY <2>1, <2>2, <3>3, <4>1 DEF TransferCanStep
    <3>4. CASE pc[a] \in {"validating", "scoring", "confirming", "failing"}
      BY <2>2, <3>4 DEF TransferCanStep
    <3>5. CASE pc[a] = "consuming"
      <4>1. AwaitedLocks(a) = ConsumeLocks(a)
        BY <3>5 DEF AwaitedLocks
      <4> QED
        BY <2>1, <2>2, <3>5, <4>1 DEF TransferCanStep
    <3>6. CASE pc[a] = "booking"
      <4>1. AwaitedLocks(a) = WantedLocks(a)
        BY <3>6 DEF AwaitedLocks
      <4>2. risk[a] \in {"allow", "review"}
        BY <2>2, <3>6 DEF RiskKnown, TypeOK
      <4> QED
        BY <2>1, <2>2, <3>6, <4>1, <4>2 DEF TransferCanStep
    <3> QED
      BY <3>1, <3>2, <3>3, <3>4, <3>5, <3>6 DEF Nested
  <2>3. CASE a \in Decisions
    <3>1. pc[a] \in {"reading", "approving"}
      BY <2>3 DEF InFlight, Phases, DecisionAt
    <3>2. Tx(a) \in Transfers
      BY <2>3, RulingType
    <3>3. txs[Tx(a)] # "absent"
      BY <2>3, <3>1, <3>2 DEF Phases, DecisionAt, CasesAreReal
    <3>4. CASE pc[a] = "reading"
      <4>1. FreezeLock(a) \in Needs(a) /\ FreezeLock(a).who = a
        BY <2>3, <3>4 DEF Needs, FreezeLock, AccountLock
      <4>2. Grantable(FreezeLock(a))
        BY <4>1, BlockedBySomeone
      <4> QED
        BY <2>3, <3>3, <3>4, <4>2 DEF DecisionCanStep, HasRead
    <3>5. CASE pc[a] = "approving"
      <4>1. AwaitedLocks(a) = ApprovalLocks(a) \ locks
        BY <3>5 DEF AwaitedLocks
      <4> QED
        BY <2>1, <2>3, <3>5, <4>1 DEF DecisionCanStep
    <3> QED
      BY <3>1, <3>4, <3>5
  <2>4. CASE a \in Errands
    <3>1. pc[a] = "loaded"
      BY <2>4 DEF InFlight, Phases, ErrandAt
    <3>2. StatusLock(a) \in Needs(a) /\ StatusLock(a).who = a
      BY <2>4 DEF Needs, StatusLock, AccountLock
    <3>3. Grantable(StatusLock(a))
      BY <3>2, BlockedBySomeone
    <3> QED
      BY <2>4, <3>1, <3>3 DEF ErrandCanStep
  <2> QED
    BY <2>2, <2>3, <2>4
<1>4. StatusInv => CasesAreReal
  BY DEF StatusInv
<1> QED
  BY <1>1, <1>2, <1>3, <1>4, TypeCorrect, StatusAlways, LocksDieWithTheirRequest, PTL DEF Spec

(* Among finitely many handlers that wait for each other there is a smallest   *)
(* wait cycle, which the database detects.                                  *)
LEMMA SmallestCycle ==
    ASSUME IsFiniteSet(Actors), NEW H \in SUBSET Actors, H # {}, MutuallyWaiting(H)
    PROVE  \E a \in H : InDeadlock(a)
<1>1. PICK cycles : cycles = {S \in SUBSET H : S # {} /\ MutuallyWaiting(S)}
  OBVIOUS
<1>2. IsWellFoundedOn(StrictSubsetOrdering(Actors), SUBSET Actors)
  BY FS_FiniteSubsetsOfFinite, FS_StrictSubsetOrderingWellFounded
<1>3. cycles \subseteq SUBSET Actors /\ H \in cycles
  BY <1>1
<1>4. PICK S \in cycles : \A T \in cycles : <<T, S>> \notin StrictSubsetOrdering(Actors)
  <2>1. cycles # {}
    BY <1>3
  <2> QED
    BY <1>2, <1>3, <2>1, WFMin
<1>5. PICK a \in S : TRUE
  BY <1>1, <1>4
<1>6. ASSUME NEW T \in SUBSET S, T # {}, MutuallyWaiting(T) PROVE T = S
  <2>1. T \in cycles /\ T \in SUBSET Actors /\ S \in SUBSET Actors
    BY <1>1, <1>3, <1>4, <1>6
  <2>2. <<T, S>> \notin StrictSubsetOrdering(Actors)
    BY <1>4, <2>1
  <2> QED
    BY <2>1, <2>2 DEF StrictSubsetOrdering
<1> QED
  BY <1>1, <1>3, <1>4, <1>5, <1>6 DEF InDeadlock

(* The bank as a whole never comes to a standstill: while any request is in    *)
(* flight, one of them has a step to take, or is in a wait cycle that the     *)
(* database breaks.                                                         *)
NoStandstill ==
    (\E a \in Actors : InFlight(a))
        => \E a \in Actors : InFlight(a) /\ (CanStep(a) \/ InDeadlock(a))

(* However many requests lock the same rows, in whatever order, one of those   *)
(* in flight can go on.                                                     *)
THEOREM SomeRequestCanAlwaysGoOn ==
    ASSUME IsFiniteSet(Actors)
    PROVE  Spec => []NoStandstill
<1>1. ASSUME TypeOK, Phases, NoOrphanedLocks, NobodyIsStuck
      PROVE  NoStandstill
  <2> SUFFICES ASSUME \A a \in Actors : InFlight(a) => ~CanStep(a),
                      NEW r \in Actors, InFlight(r)
               PROVE  \E a \in Actors : InFlight(a) /\ InDeadlock(a)
    BY DEF NoStandstill
  <2>1. PICK H : H = {a \in Actors : InFlight(a) /\ LocksOf(a) # {}}
    OBVIOUS
  <2>2. ASSUME NEW a \in Actors, InFlight(a) PROVE \E b \in H : HeldUpBy(a, b)
    <3>1. PICK b \in Actors : InFlight(b) /\ HeldUpBy(a, b)
      BY <1>1, <2>2 DEF NobodyIsStuck
    <3> QED
      BY <2>1, <3>1 DEF HeldUpBy
  <2>3. ASSUME NEW a \in H, NEW b \in H, HeldUpBy(a, b) PROVE WaitsFor(a, b)
    <3>1. a \in Actors /\ pc[a] \in Holding
      BY <1>1, <2>1 DEF NoOrphanedLocks, LocksOf
    <3>2. a \notin Errands /\ pc[a] # "reading"
      BY <1>1, <3>1 DEF Phases, ErrandAt, Holding, Nested, Closed
    <3>3. Needs(a) = AwaitedLocks(a)
      BY <3>2 DEF Needs
    <3> QED
      BY <2>3, <3>3 DEF HeldUpBy, WaitsFor
  <2>4. H \in SUBSET Actors /\ H # {} /\ MutuallyWaiting(H)
    BY <2>1, <2>2, <2>3 DEF MutuallyWaiting
  <2> QED
    BY <2>1, <2>4, SmallestCycle
<1>2. TypeOK /\ Phases /\ NoOrphanedLocks /\ NobodyIsStuck => NoStandstill
  BY <1>1
<1> QED
  BY <1>2, TypeCorrect, LocksDieWithTheirRequest, NobodyWaitsForNothing, PTL
=============================================================================
