# A verification of the online banking backend

TLA+ specifications of the FastAPI backend in `src/`, the TLC configurations
that check them on small instances, and machine-checked proofs (TLAPS) of the
properties that matter most. Every definition is translated from the Python
source; `PROJECT.json` names the lines each one stands for.

* [The system](#the-system): components, state, operations, what is hard
* [Plan](#plan): what is modelled, what comes next
* [Modules](#modules): how the specifications correspond to the code
* [Runs](#runs): what TLC checks, with which bounds and fairness
* [Proofs](#proofs): what is proved for every value of the constants
* [Disagreements](#disagreements): where the code does not do what it says
* [Not modelled](#not-modelled)

## The system

One process type (FastAPI on asyncio, any number of workers), one PostgreSQL
database at READ COMMITTED, one Redis, and a Celery worker. A request is a
coroutine with one SQLAlchemy session (`expire_on_commit=False`,
`autoflush=False`), so requests interleave at every `await`, inside one process
and between processes. Components interact only through rows, row locks, Redis
keys and the Celery queue; there are no callbacks between them.

| Component | State | Operations | What is hard | What makes it correct |
|---|---|---|---|---|
| transfers (`services/transaction.py`) | `transactions`, `bank_accounts`, `idempotency_keys` | verify-transfer, transfer | stale session rows, row locks, savepoint, retries, midnight, crash | no overdraft, no lost posting, one transaction per key and per confirmation, daily limit, every request ends |
| fraud review (`services/fraud.py`) | `fraud_cases`, `risk_events` | score, queue, approve / reject / freeze | two administrators, decisions repeated, accounts frozen meanwhile | queue and cases agree, status tells whether money moved, posted once |
| account administration (`services/admin.py`) | `bank_accounts.status` | freeze, unfreeze, flag | racing with a transfer that rewrites the row | a freeze is not lost, frozen accounts do not pay |
| accounts (`services/account.py`) | `bank_accounts` | open, set primary, list | two primary flags set at once | exactly one primary account |
| one-time passwords (`services/otp.py`) | `otp_codes`, Redis `otp:*` | issue, verify | attempt counter rolled back by the caller, Redis and row disagree, two verifications at once | a code is used once, three wrong attempts end it |
| challenges (`services/challenge.py`) | `auth_challenges` | create, verify, require | expiry against use, two uses at once | used once, only when verified |
| login and tokens (`services/auth.py`) | `refresh_tokens`, `users`, Redis blacklist | register, login, refresh, logout, password reset | refresh racing with logout or a password change | a revoked family stays revoked, lock after repeated failures |
| sessions and devices (`services/session.py`) | `user_sessions`, `trusted_devices`, `login_events` | list, revoke, note a login's device | revocation racing with refresh, two first logins of a device | a revoked session gets no new token, a new device or address is announced |
| MFA (`services/mfa.py`) | `mfa_secrets`, `users.mfa_enabled` | set up, confirm, verify | unique (user, status), expiry of a setup racing with its confirmation, recovery codes rewritten from the loaded row | enabled means there is a secret, a recovery code works once |
| profile (`services/user.py`) | `users` | change, password, deactivate | stale sessions and tokens | all sessions revoked |
| identity verification (`services/kyc.py`) | `kyc_submissions`, `users.kyc_status` | submit, review | reviews of two submissions, or two of one, in either order | the standing is that of a submission |
| beneficiaries, recurring transfers (`services/beneficiary.py`, `services/recurring_transfer.py`) | `beneficiaries`, `recurring_transfers`, `auth_challenges` | create | the count that spares a challenge is taken long before the insert | the list and every schedule trace to a challenge |
| cards (`services/card.py`) | `cards` | create, freeze, unfreeze, limit, controls | requests about different columns from one loaded row | what was answered stays set |
| notifications and preferences (`services/notification.py`, `services/notification_preference.py`) | `notifications`, `notification_preferences` | notify, get and update preferences | a row created on first read, updates from loaded rows | no mail after an opt-out |
| statement exports (`services/statement.py`, `workers/`) | `statement_exports`, files, Celery queue | order, generate | broker failing after it took the message, worker crash | an export ends completed or failed, an offered file is whole |
| rate limiting (`api/dependencies/auth.py`) | Redis counter | count a call | lost between INCR and EXPIRE | a refusal ends |
| bootstrap (`prestart.py`, `services/bootstrap.py`) | `roles`, `users`, `user_roles` | wait, migrate, seed | servers starting together, registrations meanwhile | up means the roles are there, and the administrator if the settings name one; no circle of waiting transactions |
| support, audit, webhooks and mail, dashboard, security primitives, migrations | | | | see [Not modelled](#not-modelled) |

The risks, each at its line and with the properties that would reveal it, are
listed under `hazards` in `PROJECT.json`.

### The money path in one paragraph

`transfer()` looks the idempotency key up, inserts it (or takes a failed one
over), opens a savepoint, validates the draft against rows its session may have
loaded at authentication, resets the daily counter, scores the risk, finds and
marks the confirmation, inserts the transaction, and then either opens a fraud
case or locks both accounts `FOR UPDATE`, compares the funds and writes both
rows. Any exception rolls the savepoint back, stores the key as failed and
commits. `decide_case()` loads a case with its transaction and accounts in
separate SELECTs, decides on the status it saw, and for an approval locks the
accounts and posts. Both compute the new balances from the attributes of the
session: SQLAlchemy does not refresh them when `FOR UPDATE` returns the row.

## Plan

In this order, the most important first:

1. **Money core** (done): `BankDb`, `Transfers`, `FraudReview`, `AccountAdmin`,
   composed in `Banking`; the abstract `Ledger` it implements when requests do
   not overlap; `MCBanking` and its runs; the proof modules.
2. **Sign-on** (done): `SignOn` (login, refresh, logout, password change, reset,
   revoke session, deactivate) and the abstract `TokenRegistry` it implements
   whatever overlaps; `MCSignOn`, two runs, `SignOnProofs`.
3. **Confirmations** (done): `Confirmations` (challenges and one-time codes of
   one user, with the hash in Redis), `MCConfirmations`, one run,
   `ConfirmationProofs`. To come: the codes of the other purposes, whose callers
   roll the attempt counter back.
4. **Services around the core** (done): one small module each, `PrimaryAccounts`,
   `KycReview`, `Payees`, `Cards`, `MfaEnrolment`, `Notices`, `TrustedDevices`,
   `StatementExports`, `RateLimit`, `StartUp`, checked by one run of
   `MCServices`; `AccountsProofs` and `ServiceProofs`.
5. **Left**: `Rounding`, the decimals of an amount on its way to the columns
   (`schemas/transaction.py:15`); support tickets, if their status ever decides
   anything.
6. **Proofs** (done): every safety property and refinement that a passing run
   checks has a theorem; for each property that overlapping requests violate there is
   also one that names the overlap; and the safety half of progress in the money core
   (labels advance, locks die with their request, somebody can go on). Liveness
   itself stays with TLC.

## Modules

| Module | Models | Code |
|---|---|---|
| `BankDb` | rows, row locks, sessions, the posting both handlers share; all constants and variables | `models/`, `repositories/account.py`, `db/session.py` |
| `Transfers` | `TransactionService.transfer()` from authentication to response | `services/transaction.py`, `services/fraud.py:28-52`, `services/challenge.py:132-150` |
| `FraudReview` | `FraudService.decide_case()` | `services/fraud.py:88-152` |
| `AccountAdmin` | `freeze_account()`, `unfreeze_account()` | `services/admin.py:40-86` |
| `Banking` | the composition: `Init`, `Next`, deadlock detector, expiry, midnight, fairness, properties | |
| `Ledger` | what the core promises: atomic, covered, once-only postings | |
| `MCBanking` | payloads and accounts of the small instances | |
| `BankingProofs` | types and labels | |
| `FundsProofs` | funds, row locks | |
| `ReviewProofs` | keys, cases, confirmations; progress | |
| `LedgerProofs` | which overlap of requests breaks what; the refinement | |
| `SignOn` | `AuthService.login()`, `refresh()`, `logout()`, `reset_password()`, `SessionService.revoke_session()`, `UserService.change_password()`, `deactivate_account()` | `services/auth.py`, `services/session.py:28-129`, `services/user.py:84-153` |
| `TokenRegistry` | what sign-on promises: tokens are issued once, exchanged within their session, never revived | |
| `MCSignOn`, `SignOnProofs` | workloads; theorems and proofs | |
| `Confirmations` | `create_challenge()`, `verify_challenge()`, `require_verified()`, `issue_otp()`, `verify_user_otp()` | `services/challenge.py`, `services/otp.py`, `repositories/otp.py`, `repositories/auth_challenge.py` |
| `MCConfirmations`, `ConfirmationProofs` | scripts of requests; theorems and proofs | |
| `UnitOfWork` | which columns an UPDATE writes | SQLAlchemy's unit of work, `db/session.py` |
| `PrimaryAccounts` | `AccountService.create_account()`, `update_preferences()` | `services/account.py`, `repositories/account.py` |
| `KycReview` | `KYCService.submit()`, `review()` | `services/kyc.py` |
| `Payees` | `BeneficiaryService.create()`, `RecurringTransferService.create()` | `services/beneficiary.py`, `services/recurring_transfer.py` |
| `Cards` | `CardService`: creation, freeze, unfreeze, limit, controls | `services/card.py` |
| `MfaEnrolment` | `MFAService.setup_totp()`, `confirm_totp()`, `verify_for_user()` | `services/mfa.py` |
| `Notices` | `create_notification()`, `get_preferences()`, `update_preferences()` | `services/notification.py`, `services/notification_preference.py` |
| `TrustedDevices` | `SessionService.create_session()`: devices, events, warnings | `services/session.py:28-100` |
| `StatementExports` | `create_export()`, the Celery task, `generate_statement_export_for_id()` | `services/statement.py`, `workers/` |
| `RateLimit` | `rate_limit()` | `api/dependencies/auth.py` |
| `StartUp` | `prestart`, `bootstrap_roles_and_admin()`, `ensure_defaults()`, `register()` | `prestart.py`, `services/bootstrap.py`, `repositories/role.py`, `services/auth.py` |
| `MCServices` | one service per behaviour, small instances | |
| `AccountsProofs` | theorems about payees, primary accounts, cards | |
| `ServiceProofs` | theorems about the other services | |

How state corresponds to code:

* `accounts`, `txs`, `cases`, `keys`, `confirmations` hold **committed** rows. What a
  database transaction has written is not visible to others until it commits, so
  a commit action writes everything the handler flushed since it began; what
  others can notice earlier is its row locks, and `locks` holds those with
  PostgreSQL's conflict table (`FOR KEY SHARE` of a foreign key check, `FOR NO
  KEY UPDATE` of an UPDATE, `FOR UPDATE`).
* `loaded` and `copy` are the identity map of a session. `Select` keeps what is already
  there, which is what `populate_existing=False` means. This single definition
  is responsible for the lost update below.
* `pc` is the place of a handler. A step boundary is an `await` at which another
  request can notice something or be noticed: taking a lock, reading a row that
  others write, committing.
* `resetting`, `risk`, `seen` are the handler's local variables; `reply` is the
  response.
* `moved`, `applied`, `spent` are ghosts: they record each posting and are read
  by properties only.

How actions correspond to `transfer()`: `Authenticate` (get_current_user loads
the user's accounts), `RefuseKey` / `Replay` / `UseKey` (lines 179-210),
`InsertKey` / `LoseInsertRace` / `ReclaimKey` (the flush, 211-219), `Validate` /
`RefuseDraft` (220-239), `Score` / `ScoreFails` (risk), `CheckConfirmation` /
`RefuseConfirmation` / `ConsumeConfirmation`, `TakeLock` (each row lock by
itself, because `lock_accounts` does not order the rows), `QueueForReview`,
`Complete`, `RefuseOverdraft`, and the except branch `Fail` / `MarkKeyFailed`
(359-363). `InternalError` is any other exception inside the savepoint, `Crash`
the death of the process or the connection at any point.

Abstractions: a transfer OTP and a verified challenge for a transfer are both a
`confirmation` with the payload it was issued for; a confirmation that expires,
is superseded or runs out of attempts becomes `expired`. Amounts are whole
cents. Fees, references, messages, notifications and the audit log are left
out: they are written by the same commit and read by nothing here. Only the
Boolean outcome of the risk score is kept.

Sign-on is a machine of its own: it shares no row with the money core except the
user's. It models one user, because requests of different users share nothing. A handler
loads (`LoadToken`, `LoadUser`), decides on what it loaded (`mine`, `sawRevoked`,
`victims`), and commits; nothing is locked before the UPDATE, and an UPDATE
writes only the columns whose value changed, whatever is stored by then, so a commit is
one step. `get_by_jti()` loads the token and then, in a second SELECT, its user, which
`get_by_id()` does not read again. A session, its token family and the login
that opened it have one identity, a refresh token that of the request that issued it.
One-time passwords, the second factor and the e-mail check can refuse a request at
`loaded` (`Refuse` leaves their outcome open). A refresh token's row expires no
earlier than its JWT, which `decode_token()` refuses first, so expiry changes
nothing. `known`, `late`, `earlier`, `failures`, `overlapped` are ghosts.

Confirmations are the third machine, of one user: challenges, the codes mailed for them
and the one Redis key `otp:auth_challenge:<user>` that all of them share. It
refines what the money core abstracts to a `confirmation`. A request loads the
user's codes and challenges when it arrives (`mine`, by the `selectin`
relationships of `User`), so that `attempts`, `failure_count` and `status` are
computed from what was stored then. `issue_otp()` flushes, writes Redis, mails and
leaves the commit to `create_challenge()`: `FlushCode`, `StoreAndMail`,
`CommitChallenge`, and `Lose` in between leaves Redis ahead of the database.
`PassExpiry` and `FindCode` are two steps because the clock is read at each. The
verdict of TOTP or a recovery code is left open (`CheckFactor`). A code expires with
its challenge (the TTLs are equal and the code is made later in the same
transaction). The two clock readings inside `verify_user_otp()` (line 101, and
the repository's filter just before it) are one, so that branch does not occur.

The services are machines of one user (or one card holder, or one database that
servers start on). Each follows its handler from the load by
`get_current_user` to the commit, and the recurring question is what a session
writes that loaded its rows before another one committed. `UnitOfWork!Flushed`
answers it: SQLAlchemy's UPDATE names only the columns whose attribute
differs from what the session loaded. So a card frozen by one request stays
frozen when another that loaded it active sets a limit, but a standing,
a primary flag or a list of recovery codes computed from a stale row is lost or
revived. `Notices` keeps what a `get_or_create` returns: a session that holds the
row keeps its attributes, one that does not reads it anew. `StatementExports` has
two generators per export, because `delay()` may raise although the broker
took the message. In `StartUp` a transaction that inserts a key another one has
inserted waits for its end; nothing is assumed about the detection of
deadlocks, so `SomeoneGoesOn` says that none arises. `INITIAL_ADMIN_EMAIL` and
`INITIAL_ADMIN_PASSWORD` are unset by default: `configured` is any set of starts,
those whose settings hold both. Only these look for the administrator and grant the
role (`LookForAdmin`, `CommitAdmin`); the others commit the roles and nothing else
(`CommitRoles`), and `UpMeansReady` promises the administrator of the former only.

## Runs

Overlapping runs let any number of requests interleave at every step. Serial runs
(`Overlapping = FALSE`) start a request only when none is in flight: crashes,
errors, retries, expiries and midnights remain. The serial properties are those
the overlapping code violates (see below). The serial runs show that overlap is the only
cause; the theorems say which one (see [Proofs](#proofs)).

| Run | Shows |
|---|---|
| `overlap_transfers` | three transfers in both directions, two under one key, or two of them and a freeze of one of the accounts: types, `SoundFunds`, `ReplyMatchesRequest`, `SpentExactlyOnCommit`, `ExclusiveWrites`, `KeyNeverForgets` |
| `overlap_review` | a payment that waits for review, one back, and two concurrent decisions, all arrived: `ReviewQueueMatches`, `StatusTellsMoney` and, under fairness, `EveryRequestEnds` |
| `serial_transfers` | three payments by Alice, a midnight, retries, foreign accounts, missing keys: `OncePerKey`, `OneTransferPerConfirmation`, `DailyLimitKept` |
| `serial_review` | two transfers, two decisions, a freeze: `BooksBalance`, `PostedAtMostOnce`, `OnlyActiveAccountsPay`, `ImplementsLedger` |
| `signon` | four sign-on requests of one user, overlapping: `RevocationCoversTheKnown`, `LateRequestsGetNothing`, `ImplementsRegistry`; and, while they do not overlap, `OneTokenPerSession`, `LockAfterFailures` |
| `confirmations` | five requests that create, verify and use challenges: `UsesAreProven`, `LateConfirmationsFail`; and, while they do not overlap, `UsedOnce`, `CodesFitTheirChallenge`, `FailuresAreCounted` |
| `services` | each service by itself, overlapping: `PayeesTraceToProof`, `NoExportForgotten`, `OfferedFilesAreWhole`, `OptOutIsKept`, `AnswersHold`, `SignInsAreAnnounced`, `UpMeansReady`, `SomeoneGoesOn` and, under fairness, `RefusalsEnd`, `ExportsSettle`; while its requests do not overlap, `OnePrimaryAccount`, `StandingFromSubmission`, `EnabledMeansConfigured`, `RecoveryCodesSpend` |
| `v_session_outlives_change`, `v_lost_update`, `v_confirmation_reused`, `v_key_reclaimed_twice`, `v_double_approval` | the disagreements below, one property each |

**Bounds.** Two accounts with different owners, so that payments can cross and
deadlock; balances of 2 and 1 (2 and 0 in `overlap_transfers`, 4 and 0 in the serial
runs, which spend more) and amounts 1 and 2, so that funds run out after
the second payment; a daily limit of 2, equal to two payments of one day;
`SensitiveThreshold` 2, so that an unverified sender's payment of 2 is queued and
others are not; at most three transfers, because the longest scenario of the
properties (a key is used, fails, is reclaimed twice; two postings and a
retry) needs three; two decisions, because the review properties relate two
administrators; `LastDay` bounds the number of midnights. Symmetry permutes the
interchangeable request slots; it is not used with liveness. `overlap_review`
starts when its requests have arrived (`CrossingInit`), which loses no overlap
and is what `EveryRequestEnds` is about. In `overlap_transfers` three requests
arrive: three transfers, or two and a freeze (`MixedSpec`, the constraint `FreezeForOne`), because a
lock conflict is between two handlers and the freeze is the third. A confirmation that
no request brings does not expire there (`SeenToExpire`): nobody would see it.

Sign-on: four requests, because the longest scenario (log in, refresh, end the
session, refresh again) has four, and two failures beyond the first lock
(`MaxAttempts` 2) fit into four logins. `MixedWork` names the
combinations: two logins or a login and a refresh, then a refresh next to each
kind of request that revokes. Requests arrive in any order.

Confirmations: requests arrive in the order of a script and two may be under way.
`TwoChallenges` creates two and verifies and uses either, so that a code can meet
the other challenge; `UsedAgain` verifies and uses one twice; `Guessing` has one more
verification than `MaxAttempts` 3 leaves to a code.

Services: a behaviour of `MCServices` is one of one service, chosen at the start,
while the variables of the others keep their initial values (`OthersIdle`). That
is enough because no service writes a row that another one reads: any
interleaving of all of them, seen from one, is such a behaviour with stutters.
Each has the requests its longest scenario needs: four submissions and reviews (two of
each), four demands on the second factor (set up, confirm, use a code twice), three
edits of accounts, savings, card actions, logins and notices (one that acts,
two that overlap after it), two starts (each configured or not) and a registration, two callers at
a limit of two, one export with its two generators. Requests arrive in the
order of their numbers, so that no symmetry is needed. `Switches` is empty: the
switches of a card are columns like its limit. `ServicesTypeOK` is not run: its
conjuncts are parts of the inductive invariants below, but for `RateTypeOK`.

**Fairness.** Weak fairness on the steps of handlers that have arrived (the event
loop runs ready coroutines) and on the deadlock detector (PostgreSQL breaks
every cycle after `deadlock_timeout`). Nothing forces a request to arrive, an
error, a crash, an expiry or a midnight, and no lock is granted fairly: weak
fairness suffices, since each holder ends and a lock waiter that is passed over
is passed over by one of finitely many requests. Exports: the ordering request
hands over, a worker takes messages and a generator goes on; losing any of them
is possible and noted (`mishaps`). One such loss is the code's own: each Celery task
has its `asyncio.run`, the engine's pool is the module's, so a later task of a worker
may meet a connection of a closed loop and raise before it has read its row (`LoseJob`). Rate limit: a call that counted goes on, and
Redis ends a window that has a time to live. `StartUp` assumes none.

**Mutants.** Every property is paired with a seeded fault ("Seeded fault" in the
modules) that breaks it: an off-by-one in the funds comparison, a hash
without the amount, a lock on one account only, a case that stays open, an UPDATE
that writes the whole row, roles in the order of a set and so on.

## Proofs

All proofs hold for any sets of users, accounts, keys, confirmations and requests, any
amounts, limits and number of days. The assumptions are those on the constants
(`PayloadAssumption`, `AccountAssumption`, `BoundAssumption`,
`DistinctAssumption` in `BankDb`, and one in each other module), which say no more than the schemas do.

| Theorem | States |
|---|---|
| `BankingProofs!TypeCorrect` | `Spec => [](TypeOK /\ Phases)` |
| `FundsProofs!FundsStaySound` | `Spec => []SoundFunds` |
| `FundsProofs!AccountsChangeUnderLock` | `Spec => ExclusiveWrites` |
| `ReviewProofs!QueueIsTheOpenCases` | `Spec => []ReviewQueueMatches` |
| `ReviewProofs!StatusIsTruthful` | `Spec => []StatusTellsMoney` |
| `ReviewProofs!ConfirmationsAreSpentByCommits` | `Spec => []SpentExactlyOnCommit` |
| `ReviewProofs!AnswersMatch` | `Spec => []ReplyMatchesRequest` |
| `ReviewProofs!KeysRememberTransactions` | `Spec => KeyNeverForgets` |
| `ReviewProofs!LocksDieWithTheirRequest` | `Spec => []NoOrphanedLocks` |
| `ReviewProofs!HandlersOnlyAdvance` | `Spec => HandlersAdvance` |
| `ReviewProofs!EveryDeadlockCanBeBroken` | `Spec => []DeadlocksCanBeBroken` |
| `ReviewProofs!NobodyWaitsForNothing` | `Spec => []NobodyIsStuck` |
| `ReviewProofs!SomeRequestCanAlwaysGoOn` | `Spec => []NoStandstill`, given `IsFiniteSet(Actors)` |
| `LedgerProofs!OnlySharedAccountsLoseMoney` | `Spec /\ []AccountsApart => []BooksBalance` |
| `LedgerProofs!OnlyRacingApprovalsPayTwice` | `Spec /\ []ApprovalsApart => []PostedAtMostOnce` |
| `LedgerProofs!ApartRequestsImplementLedger` | `Spec /\ [](AccountsApart /\ ApprovalsApart) => ImplementsLedger` |
| `LedgerProofs!OnlyRacingTakeoversReuseKeys` | `Spec /\ []TakeoversApart => []OncePerKey` |
| `LedgerProofs!OnlyRacingRequestsReuseConfirmations` | `Spec /\ []ConfirmationsApart => []OneTransferPerConfirmation` |
| `LedgerProofs!OnlySharedAccountsPayFrozen` | `Spec /\ []AccountsApart => OnlyActiveAccountsPay` |
| `LedgerProofs!OnlySharedAccountsOrApprovalsOverspend` | `Spec /\ [](AccountsApart /\ NobodyApproves) => []DailyLimitKept` |
| `LedgerProofs!BooksAlwaysBalance` | `Spec => []BooksBalance`, given `~Overlapping` |
| `LedgerProofs!NothingIsPostedTwice` | `Spec => []PostedAtMostOnce`, given `~Overlapping` |
| `LedgerProofs!KeysPayOnce` | `Spec => []OncePerKey`, given `~Overlapping` |
| `LedgerProofs!ConfirmationsPayOnce` | `Spec => []OneTransferPerConfirmation`, given `~Overlapping` |
| `LedgerProofs!FrozenAccountsDoNotPay` | `Spec => OnlyActiveAccountsPay`, given `~Overlapping` |
| `LedgerProofs!LimitsHold` | `Spec => []DailyLimitKept`, given `~Overlapping` and no `Decisions` |
| `LedgerProofs!DatabaseImplementsLedger` | `Spec => ImplementsLedger`, given `~Overlapping` |
| `SignOnProofs!SignOnTypeCorrect` | `Spec => [](TypeOK /\ RefreshHasToken)` |
| `SignOnProofs!RevocationIsThorough` | `Spec => []RevocationCoversTheKnown` |
| `SignOnProofs!LateRequestsNeverSucceed` | `Spec => []LateRequestsGetNothing` |
| `SignOnProofs!TablesImplementRegistry` | `Spec => ImplementsRegistry` |
| `SignOnProofs!RotationKeepsOneToken` | `Spec => []OneTokenPerSession` |
| `SignOnProofs!FailuresLockTheAccount` | `Spec => []LockAfterFailures` |
| `SignOnProofs!OnlyRacingRefreshesSplitASession` | `Spec /\ []RefreshesApart => []OneLiveToken` |
| `SignOnProofs!OnlyRacingLoginsMiscount` | `Spec /\ []LoginsApart => []FailuresCounted` |
| `SignOnProofs!OnlyStraddlingRequestsOutliveRevocation` | `Spec /\ []RevocationsApart => []NothingOutlivesRevocation` |
| `ConfirmationProofs!ConfirmationTypeCorrect` | `Spec => [](TypeOK /\ AcceptedCodesAreCodes)` |
| `ConfirmationProofs!ConfirmationNeedsProof` | `Spec => []UsesAreProven` |
| `ConfirmationProofs!LateConfirmationsRefused` | `Spec => []LateConfirmationsFail` |
| `ConfirmationProofs!AChallengeIsUsedOnce` | `Spec => []UsedOnce` |
| `ConfirmationProofs!ACodeFitsItsChallenge` | `Spec => []CodesFitTheirChallenge` |
| `ConfirmationProofs!EveryFailureCounts` | `Spec => []FailuresAreCounted` |
| `ConfirmationProofs!OnlyRacingUsesUseTwice` | `Spec /\ []UsesApart => []OneUseEach` |
| `ConfirmationProofs!OnlyRacingVerificationsMiscount` | `Spec /\ []VerificationsApart => []NoFailureMissed` |
| `ConfirmationProofs!OnlyRacingIssuesMixCodes` | `Spec /\ [](IssuesApart /\ ~stray) => []CodesFit` |
| `AccountsProofs!PayeesAreProven` | `PayeesSpec => []PayeesTraceToProof` |
| `AccountsProofs!PrimaryAccountStays` | `PrimarySpec => []OnePrimaryAccount` |
| `AccountsProofs!OnlyRacingChoicesSplitThePrimary` | `PrimarySpec /\ []ChoicesApart => []OnePrimary` |
| `AccountsProofs!CardAnswersHold` | `CardsSpec => []AnswersHold` |
| `ServiceProofs!StandingIsBacked` | `KycSpec => []StandingFromSubmission` |
| `ServiceProofs!OptOutHolds` | `NoticesSpec => []OptOutIsKept` |
| `ServiceProofs!NoExportIsForgotten` | `ExportsSpec => []NoExportForgotten` |
| `ServiceProofs!OfferedFilesStayWhole` | `ExportsSpec => []OfferedFilesAreWhole` |
| `ServiceProofs!EnabledIsConfigured` | `MfaSpec => []EnabledMeansConfigured` |
| `ServiceProofs!RecoveryCodesAreSpent` | `MfaSpec => []RecoveryCodesSpend` |
| `ServiceProofs!OnlyExpiringConfirmationsLockOut` | `MfaSpec /\ []ExpiriesApart => []EnabledHasOne` |
| `ServiceProofs!OnlyRacingCodesAreRevived` | `MfaSpec /\ [](ExpiriesApart /\ ConfirmsApart /\ SpendsApart) => []CodesLeft` |
| `ServiceProofs!SignInsAreReported` | `DevicesSpec => []SignInsAreAnnounced` |
| `ServiceProofs!AServerStartsReady` | `StartUpSpec => []UpMeansReady`, whichever starts are configured |
| `ServiceProofs!NobodyWaitsInACircle` | `StartUpSpec => []SomeoneGoesOn` |

* **Types.** `TypeOK` alone is not inductive: a row is typed only because the handler
  checked its input earlier (`To(t)` may be no account at all). `Phases` records what
  each label has established: past `inserting` the request has a key, past
  `scoring` both parties are accounts and loaded, past `confirming` it has a
  confirmation, at `approving` the transaction has a case.
* **Funds.** `SoundFunds` holds even though postings use stale rows, for a reason the
  code does not state: a session's copy is sound too, because it was read from a
  sound table, and the funds are compared on the same copy the new balance is
  computed from. The invariant is `SoundFunds /\ SolventCopies`. `SessionStep`
  (copies come from the table) and `MoneyStep` (balances change by postings
  only) are the two lemmas, one step per action.
* **Locks.** `ExclusiveWrites` needs to know at every commit which locks its handler holds.
  `LockInv` says that no two conflicting locks are held (`NoConflicts`), that a
  handler holds its key's lock from the flush to the commit, through the rollback
  to the savepoint too (`KeyHeld`), and the sender's row from the flush of a
  reset (`ResetHeld`). Every step either changes no account or is a commit
  whose writes are covered by these (`GuardedWrites`).
* **Keys.** Two requests with one key may interleave freely, and yet each is answered with a
  transaction that fits it. `KeyInv` says that a stored key names, if any, a committed
  transaction of the payload whose hash it keeps (`KeyFits`), and that a handler
  past the check of its key still finds its own payload there (`Hashed`),
  because the lock keeps others from taking the key over (`KeyHasOneHolder`).
* **Review.** The strengthening is that statuses never go back: only a request
  that has not answered inserts its transaction (`InsertedOnce`), a case is about
  a transaction that exists (`CasesAreReal`), and a final status that a decision
  saw is still final (`FinalStays`). `StatusStep` reduces every action to one of
  three effects (`Rests`, `Books`, `Rules`).
* **Progress.** Liveness needs fairness and is left to TLC, but what could make it fail is
  excluded for any number of requests. A step takes its own handler to a later label or
  gets it something more (a row, a status, a lock) and takes nothing from another one
  (`HandlersAdvance`), so a request has boundedly many steps. A request that has ended, on any
  path, holds no lock (`NoOrphanedLocks`). One that is in flight can step (`CanStep`) or
  waits for a lock of another one in flight (`NobodyIsStuck`); if all of them wait,
  some of them wait in a circle, in which the deadlock detector always finds a
  victim (`DeadlocksCanBeBroken`), so the system never stands still (`NoStandstill`, by a
  smallest set that is closed under waiting, hence finitely many requests). `CanStep` repeats
  the guards of the actions, because the prover does not know ENABLED; on the instances of
  `overlap_review`, `serial_review` and `serial_transfers` TLC finds that
  `CanStep(a)` and ENABLED of `a`'s steps are the same.
* **Which overlap breaks what.** The promises that do not survive overlapping
  requests are proved for every behaviour in which one particular overlap does not
  occur, at any point and with everything else overlapping freely. So a fix that
  excludes that overlap restores the promise, and nothing else is needed:

  | Promise | Only broken when |
  |---|---|
  | books balance, active accounts pay, daily limit | two sessions have loaded the same account (`~AccountsApart`); for the limit also by an approval, which ignores it |
  | posted once | two decisions that saw the same waiting transaction approve it (`~ApprovalsApart`) |
  | once per key | a failed key is taken over while another request works under it (`~TakeoversApart`) |
  | one transfer per confirmation | two requests use it at once (`~ConfirmationsApart`) |
  | one live token per session | two refreshes read the same live token (`~RefreshesApart`) |
  | failures counted, account locked | two logins between load and commit (`~LoginsApart`) |
  | nothing outlives a revocation | a request that may still get a token of its scope is past its checks while it commits (`~RevocationsApart`) |
  | a challenge is used once | two uses have found it (`~UsesApart`) |
  | wrong guesses counted | two verifications of one challenge under way (`~VerificationsApart`) |
  | a code fits its challenge | a code is issued while another is issued or about to be read (`~IssuesApart`), or a creation was lost after it wrote Redis (`stray`) |
  | one primary account | two requests choose it at once (`~ChoicesApart`): they ask for it, or open an account having found none |
  | enabled means configured | a setup is found expired while another request confirms it (`~ExpiriesApart`) |
  | recovery codes are spent | that, or a setup is confirmed twice (`~ConfirmsApart`), or two requests bring a recovery code at once (`~SpendsApart`) |

  In the money core each condition is weaker than "one request at a time", under which all four
  hold (`SerialRequestsAreApart`); `BooksAlwaysBalance` and the other `~Overlapping` theorems
  are corollaries.
* **Ledger.** What a session has loaded it alone can change, so it equals the table
  (`FreshCopies`), and a posting starts from the stored balances. An approval that
  reaches its accounts is about a transaction that nobody else can post
  (`SeenByHandler`, `ReadyUnpaid`). A step then maps to `Ledger!Post` or to a stutter.
* **Once, active, limited.** `KeyOnce`: the key of a handler on its way to the booking names no
  transaction yet (`KeyFree`) and the key of every committed transaction names it
  (`Recorded`). `ConfirmedOnce`: the confirmation of such a handler is not spent (`Unspent`).
  `RowsInv`: what a session loaded is what is stored, status and counter
  included, except the reset it is going to write (`FreshRow`), and a transfer past its
  validation still meets what was validated (`Sound`). `Counted`: the counter
  of an account is what it spent on the day of its last reset, and it spent nothing
  on a later day; a transfer that was validated before midnight is counted on the
  day it was validated for.
* **Sign-on.** Everything rests on two facts: a request that was not given a token
  has left none (`Fresh`), and what it presented had been issued
  (`PresentedExist`). Then tokens persist (`TokensPersist`: issued stays issued
  and in its session, revoked stays revoked), so the scope of a revocation is
  stable while its handler is at work (`ScopeIsStable`), and what it has
  selected or found revoked stays a cover of what it knew (`Selected`).
  `LateInv` follows a late request through its handler's loads. As long as
  nothing has overlapped (`AloneInv`) one handler is at work and what it loaded is
  still stored, but for a lock that ran out meanwhile; a session's tokens
  trace back to the login that opened it (`Rooted`), so a refresh replaces the only one.
  With overlap, a refresh about to exchange its token owns its session's only live one
  (`OwnsSession`), a login counts on from what is stored (`CountsOn`), and whoever had arrived
  when a revocation committed has nothing in its scope and gets nothing: what it is
  yet to load refuses it (`EndingsHold`).
* **Confirmations.** Rows persist (`RowsPersist`: created stays created, used stays
  used, consumed stays consumed, lapsed stays lapsed) because a creation that has
  not committed has left no row and everything else works on rows that exist
  (`Phases`). So a right that a late request lacks never comes back: it can pass the
  expiry check with a consumed code, but then finds none (`LateStaysLate`).
  `UsesAreProven` needs that a verified status, and a handler that saw one,
  come with a proof (`Proven`). As long as nothing has overlapped (`SerialInv`) a request
  acts on what is stored, at most one code is live, and Redis holds the
  hash of that one, or of the one that is being issued (`RedisFits`). With overlap, a use finds
  a challenge that is unused and stays so until it commits (`UseMarks`), a verification counts on
  from what is stored (`Tallies`), and Redis is kept by the one issue in progress (`RedisKept`).
* **Services.** Each has one inductive invariant (`KycInv`, `NoticesInv`,
  `ExportsInv` and so on), its type invariant included. Without overlap it says
  that the rows a session holds are those of the table; with overlap, what a stale
  row can still do: an address that a session holds for a device is one that a
  completed login came from (`AddressesAreSeen`), a notice that was barred has
  seen the flag off (`BarredHaveSeen`), whoever chooses the primary account has seen every
  account but some that are not primary (`IsInformed`), whoever spends a recovery code has
  loaded those that are left or none (`CodesAt`), a column that a card request may still
  overwrite is in `opposed` (`OppositionStays`). In `StartUp` what a transaction
  has left, has inserted and finds committed covers all roles (`RolesAreCovered`), so
  its commit completes them, with an administrator to grant or without; and it has inserted a prefix of the one order and has
  the rest left (`RolesAreInOrder`), so whoever waits for a role has more left than
  its holder (`HolderIsAhead`) and the one with the fewest left waits for nobody.

Only model-checked: the liveness properties `EveryRequestEnds`, `RefusalsEnd` and
`ExportsSettle`. They need fairness and ENABLED, which the prover does not reason about;
the safety facts that the first one rests on are those under "Progress".
The properties of the five runs that end in a violation are, of course, not theorems of the
specification: TLC refutes them, and the conditional theorems say when they hold.

## Disagreements

Each is a run that TLC violates, with the trace in the model's actions.

1. **Lost update** (`v_lost_update`, `services/transaction.py:302`). The re-select under
   `FOR UPDATE` does not refresh rows the session already holds, so a posting
   that was committed between authentication and the lock is overwritten.
   `README.md:145` promises row-level locking and a transaction boundary.
2. **A confirmation pays twice** (`v_confirmation_reused`, `services/challenge.py:141`).
   It is read without a lock and marked used unconditionally.
3. **A key pays twice** (`v_key_reclaimed_twice`, `services/transaction.py:194`). Two
   retries that both read `failed` take the key over one after the other.
4. **A case is approved twice** (`v_double_approval`, `services/fraud.py:117`). The status
   is checked before the lock and not afterwards.
5. **A session outlives a password change** (`v_session_outlives_change`,
   `services/auth.py:395`). A refresh that loaded its token before the change
   revoked it commits a successor afterwards, which nothing revokes.
   `services/user.py:108` tells the user that all sessions were revoked.

Behaviour that the models contain and no run refutes, because nothing in the
repository promises otherwise: an approval ignores the daily limit and the status
of the accounts; a decided case can be decided again and a rejection marks a
paid transfer failed; the login failure counter survives the lock, so one more
wrong password locks again; a creation of a challenge that is lost after it
wrote Redis, or one that overlaps, lets the code of one challenge verify another, and
overlapping wrong guesses count once; a logout leaves its session row active; after two completed transfers between two accounts
`has_previous_transfer` raises and every later one is refused. Overlapping
updates of preferences can leave a user with two primary accounts or none; two reviews
that overlap leave a standing that no submission has; a second setup of the
second factor that expires cannot be disabled, because `(user_id, status)` is unique, and
blocks every later setup; an expiry that overlaps a confirmation locks the
user out; a recovery code that is used twice at once is accepted twice; `masked_pan`
is unique over 10,000 values; a call that is lost between INCR and EXPIRE
leaves a key that refuses for ever; an export that was handed to both
generators can be offered while the second rewrites its file.

## Not modelled

`PROJECT.json` lists every component with its status. Left out for good:

* **Support tickets**: a ticket and its messages are written by one request each and
  read by nobody but their owner; no rule depends on the status.
* **Audit log**: append-only rows in the transaction of the operation they note.
* **Webhooks and mail delivery**: pure I/O. That a mail is handed over, and when,
  is in `Notices`.
* **Dashboard**: reads.
* **Hashing, tokens, TOTP arithmetic, settings, error formats**: pure functions,
  whose outcome is a Boolean of the models.
* **Schema migrations**: the tables and unique constraints they create are the types and
  guards of the models; that they run is one step of `StartUp`.

Partly modelled: of the one-time codes, those of challenges; of notifications, not
`mark_read()`; of the profile, not the columns that nothing else reads; role
checks, which read the loaded user and change nothing. The number
of decimals of an amount is in no model.
