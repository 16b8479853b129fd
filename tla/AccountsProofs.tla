---------------------------- MODULE AccountsProofs ----------------------------
(***************************************************************************)
(* Theorems about whom a user pays, which account is the primary one and     *)
(* what a card's owner was told, for any number of requests.                *)
(***************************************************************************)
EXTENDS Payees, PrimaryAccounts, Cards, TLAPS

(* Beneficiaries.  What a request that has passed its challenge carries is    *)
(* still good when it commits: challenges keep their purpose, and saved      *)
(* beneficiaries stay.                                                      *)
SavingsAreGrounded ==
    \A p \in Savings :
        /\ saving[p].purpose = "recurring_transfer" =>
              saving[p].payee \in SavedPayees /\ saving[p].proof \in Proofs
        /\ savingAt[p] = "saving" /\ saving[p].proof # NoProof =>
              PurposeOf[saving[p].proof] = saving[p].purpose
        /\ savingAt[p] = "saving" /\ saving[p].proof = NoProof => SavedPayees # {}
        /\ payee[p].saved => savingAt[p] = "done"

PayeesInv == PayeesTypeOK /\ SavingsAreGrounded /\ PayeesTraceToProof

LEMMA PayeesStart == PayeesInit => PayeesInv
BY PayeesAssumption DEF PayeesInit, PayeesInv, PayeesTypeOK, SavingsAreGrounded,
   PayeesTraceToProof, SavedPayees, Savings, Saving, Payee, NoPayee, Schedule, Purposes

LEMMA PayeesStep == PayeesInv /\ [PayeesNext]_payeeVars => PayeesInv'
<1> SUFFICES ASSUME PayeesInv, [PayeesNext]_payeeVars PROVE PayeesInv'
  OBVIOUS
<1> USE PayeesAssumption DEF PayeesInv, PayeesTypeOK, SavingsAreGrounded, PayeesTraceToProof,
      SavedPayees, Saving, Payee, Schedule, Purposes, SavingGoes
<1>1. ASSUME NEW p \in Savings, ReceiveSaving(p) PROVE PayeesInv'
  <2>1. PICK x \in SavingsOf(p) : saving' = [saving EXCEPT ![p] = x]
    BY <1>1 DEF ReceiveSaving
  <2>2. x \in Saving /\ (x.purpose = "recurring_transfer" => x.payee \in SavedPayees /\ x.proof \in Proofs)
    BY <2>1 DEF SavingsOf
  <2> QED
    BY <1>1, <2>1, <2>2 DEF ReceiveSaving
<1>2. ASSUME NEW p \in Savings, CountPayees(p) PROVE PayeesInv'
  <2>1. saving' \in [Savings -> Saving] /\ savingAt' = [savingAt EXCEPT ![p] = savingAt'[p]]
    BY <1>2 DEF CountPayees
  <2>2. CASE NeedsProof(p)
    BY <1>2, <2>1, <2>2 DEF CountPayees
  <2>3. CASE ~NeedsProof(p)
    BY <1>2, <2>1, <2>3 DEF CountPayees, NeedsProof
  <2> QED
    BY <2>2, <2>3
<1>3. ASSUME NEW p \in Savings, RequireProof(p) PROVE PayeesInv'
  BY <1>3 DEF RequireProof, Proves
<1>4. ASSUME NEW p \in Savings, CommitPayee(p) PROVE PayeesInv'
  <2>1. SavedPayees' = SavedPayees \cup {p}
    BY <1>4 DEF CommitPayee
  <2>2. PayeesTypeOK'
    BY <1>4 DEF CommitPayee, ProofsAfter
  <2>3. SavingsAreGrounded'
    BY <1>4, <2>1 DEF CommitPayee
  <2>4. \E s \in SavedPayees' : /\ payee'[s].proof # NoProof
                               /\ PurposeOf[payee'[s].proof] = "beneficiary_create"
    <3>1. CASE saving[p].proof # NoProof
      BY <1>4, <2>1, <3>1 DEF CommitPayee
    <3>2. CASE saving[p].proof = NoProof
      <4>1. PICK s \in SavedPayees : /\ payee[s].proof # NoProof
                                    /\ PurposeOf[payee[s].proof] = "beneficiary_create"
        BY <1>4, <3>2 DEF CommitPayee
      <4>2. s # p
        BY <1>4, <4>1 DEF CommitPayee
      <4>3. s \in SavedPayees' /\ payee'[s] = payee[s]
        BY <1>4, <2>1, <4>1, <4>2 DEF CommitPayee
      <4> QED
        BY <4>1, <4>3
    <3> QED
      BY <3>1, <3>2
  <2> QED
    BY <1>4, <2>1, <2>2, <2>3, <2>4 DEF CommitPayee, ProofsAfter
<1>5. ASSUME NEW p \in Savings, CommitSchedule(p) PROVE PayeesInv'
  BY <1>5 DEF CommitSchedule, ProofsAfter
<1>6. ASSUME NEW p \in Savings, LoseSaving(p) PROVE PayeesInv'
  BY <1>6 DEF LoseSaving
<1>7. CASE UNCHANGED payeeVars
  BY <1>7 DEF payeeVars
<1> QED
  BY <1>1, <1>2, <1>3, <1>4, <1>5, <1>6, <1>7 DEF PayeesNext

(* However requests overlap or are lost, whoever is paid or scheduled to be  *)
(* paid goes back to a challenge that was verified for it.                  *)
THEOREM PayeesAreProven == PayeesSpec => []PayeesTraceToProof
<1>1. PayeesInv => PayeesTraceToProof
  BY DEF PayeesInv
<1> QED
  BY PayeesStart, PayeesStep, <1>1, PTL DEF PayeesSpec

-----------------------------------------------------------------------------
(* Primary accounts.  Without overlap, a session's view of the accounts is    *)
(* the table, until its own commit.                                         *)
OpenedByDoneRequests == \A a \in Edits : isPrimary[a] # "absent" => editAt[a] = "done"
SeenAccountsExist    == \A e, a \in Edits : sight[e][a] # "absent" => isPrimary[a] # "absent"
EditsAreWellFormed   ==
    \A e \in EditsUnderWay :
        IF edit[e].kind = "create" THEN edit[e].account = e /\ edit[e].primary # "unset"
                                   ELSE edit[e].account \in OpenAccounts
OneEditAtATime ==
    ~editsOverlapped => \A e \in EditsUnderWay : /\ sight[e] = isPrimary
                                                 /\ \A d \in EditsUnderWay : d = e

PrimaryInv == /\ PrimaryTypeOK /\ OpenedByDoneRequests /\ SeenAccountsExist
              /\ EditsAreWellFormed /\ OneEditAtATime /\ OnePrimaryAccount

LEMMA PrimaryStart == PrimaryInit => PrimaryInv
<1> SUFFICES ASSUME PrimaryInit PROVE PrimaryInv
  OBVIOUS
<1> USE DEF PrimaryInit
<1>1. PrimaryTypeOK
  BY DEF PrimaryTypeOK, Edit, Flags, EditLabels
<1>2. OpenAccounts = {} /\ EditsUnderWay = {}
  BY DEF OpenAccounts, EditsUnderWay
<1> QED
  BY <1>1, <1>2 DEF PrimaryInv, OpenedByDoneRequests, SeenAccountsExist, EditsAreWellFormed,
       OneEditAtATime, OnePrimaryAccount

LEMMA PrimaryStep == PrimaryInv /\ [PrimaryNext]_primaryVars => PrimaryInv'
<1> SUFFICES ASSUME PrimaryInv, [PrimaryNext]_primaryVars PROVE PrimaryInv'
  OBVIOUS
<1> USE DEF PrimaryInv, OpenedByDoneRequests, SeenAccountsExist, EditsAreWellFormed,
      OneEditAtATime, PrimaryTypeOK, Edit, Flags, EditLabels, EditsUnderWay, OpenAccounts,
      OnePrimaryAccount, CloseEdit
<1>1. ASSUME NEW e \in Edits, ReceiveEdit(e) PROVE PrimaryInv'
  <2>1. PICK x \in EditsOf(e) : edit' = [edit EXCEPT ![e] = x]
    BY <1>1 DEF ReceiveEdit
  <2>2. /\ x \in Edit
        /\ x.kind = "create" => x.account = e /\ x.primary # "unset"
        /\ x.kind = "prefer" => x.account \in OpenAccounts
    BY <2>1 DEF EditsOf
  <2>3. PrimaryTypeOK' /\ OnePrimaryAccount'
    BY <1>1, <2>1, <2>2 DEF ReceiveEdit
  <2>4. OpenedByDoneRequests' /\ SeenAccountsExist' /\ EditsAreWellFormed'
    BY <1>1, <2>1, <2>2 DEF ReceiveEdit
  <2>5. OneEditAtATime'
    <3> SUFFICES ASSUME ~editsOverlapped', NEW d \in EditsUnderWay', NEW b \in EditsUnderWay'
                 PROVE  sight'[d] = isPrimary' /\ b = d
      OBVIOUS
    <3>1. EditsUnderWay = {}
      BY <1>1 DEF ReceiveEdit
    <3>2. d = e /\ b = e
      BY <1>1, <3>1 DEF ReceiveEdit
    <3> QED
      BY <1>1, <3>2 DEF ReceiveEdit
  <2> QED
    BY <2>3, <2>4, <2>5
<1>2. ASSUME NEW e \in Edits, ListAccounts(e) PROVE PrimaryInv'
  <2>1. ~editsOverlapped => Seen(e) = isPrimary
    BY <1>2 DEF ListAccounts, Seen
  <2>2. Seen(e) \in [Edits -> Flags]
    BY DEF Seen
  <2>3. PrimaryTypeOK'
    BY <1>2, <2>2 DEF ListAccounts
  <2>8. OnePrimaryAccount'
    BY <1>2 DEF ListAccounts
  <2>6. OpenedByDoneRequests'
    BY <1>2 DEF ListAccounts
  <2>7. EditsAreWellFormed'
    <3>1. EditsUnderWay' = EditsUnderWay
      BY <1>2 DEF ListAccounts
    <3> QED
      BY <1>2, <3>1 DEF ListAccounts
  <2>4. SeenAccountsExist'
    BY <1>2 DEF ListAccounts, Seen
  <2>5. OneEditAtATime'
    <3> SUFFICES ASSUME ~editsOverlapped', NEW d \in EditsUnderWay', NEW b \in EditsUnderWay'
                 PROVE  sight'[d] = isPrimary' /\ b = d
      OBVIOUS
    <3>1. d \in EditsUnderWay /\ b \in EditsUnderWay /\ e \in EditsUnderWay
      BY <1>2 DEF ListAccounts
    <3>2. d = e /\ b = e
      BY <1>2, <3>1 DEF ListAccounts
    <3> QED
      BY <1>2, <2>1, <3>2 DEF ListAccounts
  <2> QED
    BY <2>3, <2>4, <2>5, <2>6, <2>7, <2>8
<1>3. ASSUME NEW e \in Edits, CommitAccount(e) PROVE PrimaryInv'
  <2>1. isPrimary' \in [Edits -> Flags] /\ isPrimary'[e] \in {"yes", "no"}
    <3>1. edit[e].primary \in {"yes", "no"}
      BY <1>3 DEF CommitAccount
    <3> QED
      BY <1>3, <3>1 DEF CommitAccount, FlagsWritten, OpeningFlag, Assigned, Flushed
  <2>2. \A a \in Edits \ {e} : isPrimary'[a] = "absent" <=> isPrimary[a] = "absent"
    BY <1>3 DEF CommitAccount, FlagsWritten, Assigned, Flushed
  <2>3. ASSUME ~editsOverlapped PROVE OnePrimaryAccount'
    <3>1. /\ edit[e].account = e
          /\ isPrimary[e] = "absent"
          /\ \A a \in Edits \ {e} : isPrimary'[a] = Assigned(e, a)
          /\ isPrimary'[e] = OpeningFlag(e)
      BY <1>3, <2>3 DEF CommitAccount, FlagsWritten, Flushed
    <3>2. CASE edit[e].primary = "yes"
      BY <1>3, <2>1, <2>2, <2>3, <3>1, <3>2 DEF CommitAccount, Assigned, OpeningFlag
    <3>3. CASE edit[e].primary # "yes"
      <4>1. \A a \in Edits \ {e} : isPrimary'[a] = isPrimary[a]
        BY <1>3, <2>3, <3>1, <3>3 DEF CommitAccount, Assigned
      <4>2. CASE OpenAccounts = {}
        BY <1>3, <2>2, <2>3, <3>1, <4>1, <4>2 DEF CommitAccount, OpeningFlag
      <4>3. CASE OpenAccounts # {}
        <5>1. sight[e] = isPrimary
          BY <1>3, <2>3 DEF CommitAccount
        <5>2. isPrimary'[e] # "yes" /\ OpenAccounts' = OpenAccounts \cup {e}
          BY <1>3, <2>1, <2>2, <3>1, <3>3, <4>3, <5>1 DEF OpeningFlag
        <5>3. PICK a \in OpenAccounts : \A b \in OpenAccounts : isPrimary[b] = "yes" <=> b = a
          BY <2>3, <4>3
        <5>4. a # e /\ a \in OpenAccounts'
          BY <3>1, <5>2, <5>3
        <5>5. \A b \in OpenAccounts' : isPrimary'[b] = "yes" <=> b = a
          BY <4>1, <5>2, <5>3, <5>4
        <5> QED
          BY <5>4, <5>5
      <4> QED
        BY <4>2, <4>3
    <3> QED
      BY <3>2, <3>3
  <2> QED
    BY <1>3, <2>1, <2>2, <2>3 DEF CommitAccount
<1>4. ASSUME NEW e \in Edits, CommitPreference(e) PROVE PrimaryInv'
  <2>1. isPrimary' \in [Edits -> Flags]
    BY <1>4 DEF CommitPreference, FlagsWritten, Assigned, Flushed
  <2>2. \A a \in Edits : isPrimary'[a] = "absent" <=> isPrimary[a] = "absent"
    BY <1>4 DEF CommitPreference, FlagsWritten, Assigned, Flushed
  <2>3. ASSUME ~editsOverlapped PROVE OnePrimaryAccount'
    <3>1. isPrimary' = [a \in Edits |-> Assigned(e, a)]
      BY <1>4, <2>3 DEF CommitPreference, FlagsWritten, Flushed
    <3>2. CASE edit[e].primary = "yes"
      <4>1. sight[e] = isPrimary /\ edit[e].account \in OpenAccounts
        BY <1>4, <2>3 DEF CommitPreference
      <4>2. \A a \in OpenAccounts : isPrimary'[a] = "yes" <=> a = edit[e].account
        BY <3>1, <3>2, <4>1 DEF Assigned
      <4>3. OpenAccounts' = OpenAccounts
        BY <2>2
      <4> QED
        BY SMTT(60), <4>1, <4>2, <4>3
    <3>3. CASE edit[e].primary # "yes"
      <4>1. isPrimary' = isPrimary
        BY <1>4, <2>3, <3>1, <3>3 DEF CommitPreference, Assigned
      <4> QED
        BY <4>1, <2>3
    <3> QED
      BY <3>2, <3>3
  <2>4. OneEditAtATime'
    <3>1. editsOverlapped' = editsOverlapped /\ EditsUnderWay' = EditsUnderWay \ {e}
      BY <1>4 DEF CommitPreference
    <3>2. ~editsOverlapped => EditsUnderWay' = {}
      BY <1>4, <3>1 DEF CommitPreference
    <3> QED
      BY <3>1, <3>2
  <2>5. OnePrimaryAccount'
    BY <1>4, <2>3 DEF CommitPreference
  <2>6. PrimaryTypeOK' /\ OpenedByDoneRequests'
    BY <1>4, <2>1, <2>2 DEF CommitPreference
  <2>8. SeenAccountsExist'
    BY <1>4, <2>2 DEF CommitPreference
  <2>7. EditsAreWellFormed'
    BY <1>4, <2>2 DEF CommitPreference
  <2> QED
    BY <2>4, <2>5, <2>6, <2>7, <2>8
<1>5. ASSUME NEW e \in Edits, AnswerPreference(e) PROVE PrimaryInv'
  BY <1>5 DEF AnswerPreference
<1>6. ASSUME NEW e \in Edits, LoseEdit(e) PROVE PrimaryInv'
  BY <1>6 DEF LoseEdit
<1>7. CASE UNCHANGED primaryVars
  BY <1>7 DEF primaryVars
<1> QED
  BY <1>1, <1>2, <1>3, <1>4, <1>5, <1>6, <1>7 DEF PrimaryNext

(* As long as the user's requests do not overlap, a user with accounts has   *)
(* exactly one primary account, whatever is created, chosen or lost.         *)
THEOREM PrimaryAccountStays == PrimarySpec => []OnePrimaryAccount
<1>1. PrimaryInv => OnePrimaryAccount
  BY DEF PrimaryInv
<1> QED
  BY PrimaryStart, PrimaryStep, <1>1, PTL DEF PrimarySpec

(* Which overlap breaks it.  A request chooses the primary account if it asks  *)
(* for that, or opens an account having found none.                         *)
FindsNone(e)    == /\ editAt[e] = "listed" /\ edit[e].kind = "create"
                   /\ \A a \in Edits : sight[e][a] = "absent"
WantsPrimary(e) == editAt[e] \in {"received", "listed"} /\ edit[e].primary = "yes"
Choosing(e)     == FindsNone(e) \/ WantsPrimary(e)
ChoicesApart    == \A d, e \in Edits : Choosing(d) /\ Choosing(e) => d = e

(* A user with accounts has exactly one primary account. *)
OnePrimary == OpenAccounts # {} =>
    \E a \in OpenAccounts : \A b \in OpenAccounts : isPrimary[b] = "yes" <=> b = a

(* Whoever chooses has seen every account, but for some that are not primary. *)
IsInformed(e) ==
    /\ FindsNone(e) => OpenAccounts = {}
    /\ WantsPrimary(e) => \A a \in Edits : \/ isPrimary[a] = sight[e][a]
                                           \/ sight[e][a] = "absent" /\ isPrimary[a] = "no"
    /\ editAt[e] = "listed" => Lists(e)
    /\ e \in EditsUnderWay /\ edit[e].kind = "prefer" => sight[e][edit[e].account] # "absent"

(* What a commit leaves of the other accounts' flags.                        *)
LEMMA FlagsAfter ==
    ASSUME PrimaryInv, NEW e \in Edits, IsInformed(e), editAt[e] = "listed"
    PROVE  /\ edit[e].primary = "yes" =>
                 \A a \in Edits \ {edit[e].account} : FlagsWritten(e)[a] # "yes"
           /\ edit[e].primary # "yes" => FlagsWritten(e) = isPrimary
           /\ \A a \in Edits : FlagsWritten(e)[a] = "absent" <=> isPrimary[a] = "absent"
<1> USE DEF PrimaryInv, PrimaryTypeOK, Edit, Flags, SeenAccountsExist
<1>1. ASSUME edit[e].primary = "yes", NEW a \in Edits \ {edit[e].account}
      PROVE  FlagsWritten(e)[a] # "yes"
  <2>1. isPrimary[a] = sight[e][a] \/ (sight[e][a] = "absent" /\ isPrimary[a] = "no")
    BY <1>1 DEF IsInformed, WantsPrimary
  <2> QED
    BY <1>1, <2>1 DEF FlagsWritten, Assigned, Flushed
<1>2. edit[e].primary # "yes" => FlagsWritten(e) = isPrimary
  BY DEF FlagsWritten, Assigned, Flushed
<1>3. \A a \in Edits : FlagsWritten(e)[a] = "absent" <=> isPrimary[a] = "absent"
  BY DEF FlagsWritten, Assigned, Flushed
<1> QED
  BY <1>1, <1>2, <1>3

(* The step of one request: what it holds, and what the others do.           *)
LEMMA EditStep ==
    ASSUME PrimaryInv, [PrimaryNext]_primaryVars, NEW e \in Edits
    PROVE  \/ UNCHANGED <<editAt[e], edit[e], sight[e]>>
           \/ editAt'[e] \in {"done", "refused", "lost"}
           \/ ReceiveEdit(e)
           \/ ListAccounts(e)
BY DEF PrimaryInv, PrimaryTypeOK, PrimaryNext, primaryVars, ReceiveEdit, ListAccounts,
       CommitAccount, CommitPreference, AnswerPreference, LoseEdit, CloseEdit

LEMMA FlagStep ==
    ASSUME PrimaryInv, [PrimaryNext]_primaryVars
    PROVE  \/ isPrimary' = isPrimary
           \/ \E d \in Edits : CommitAccount(d) \/ CommitPreference(d)
BY DEF PrimaryNext, primaryVars, ReceiveEdit, ListAccounts, AnswerPreference, LoseEdit

LEMMA OnePrimaryStep ==
    ASSUME PrimaryInv, OnePrimary, \A e \in Edits : IsInformed(e), [PrimaryNext]_primaryVars
    PROVE  OnePrimary'
<1> USE DEF PrimaryInv, PrimaryTypeOK, Edit, Flags
<1>1. CASE isPrimary' = isPrimary
  BY <1>1 DEF OnePrimary, OpenAccounts
<1>2. ASSUME NEW e \in Edits, CommitAccount(e) PROVE OnePrimary'
  <2>1. /\ editAt[e] = "listed" /\ edit[e].kind = "create" /\ edit[e].account = e
        /\ isPrimary[e] = "absent" /\ edit[e].primary \in {"yes", "no"}
    BY <1>2 DEF CommitAccount, OpenedByDoneRequests, EditsAreWellFormed, EditsUnderWay
  <2>2. /\ isPrimary'[e] = OpeningFlag(e)
        /\ \A a \in Edits \ {e} : isPrimary'[a] = FlagsWritten(e)[a]
        /\ e \in OpenAccounts'
    BY <1>2, <2>1 DEF CommitAccount, OpenAccounts, OpeningFlag, FlagsWritten
  <2>3. CASE edit[e].primary = "yes"
    <3>1. \A a \in Edits \ {e} : isPrimary'[a] # "yes"
      BY <2>1, <2>2, <2>3, FlagsAfter
    <3>2. isPrimary'[e] = "yes"
      BY <2>2, <2>3 DEF OpeningFlag
    <3> QED
      BY <2>2, <3>1, <3>2 DEF OnePrimary, OpenAccounts
  <2>4. CASE edit[e].primary # "yes" /\ FindsNone(e)
    <3>1. OpenAccounts = {} /\ isPrimary'[e] = "yes"
      BY <2>2, <2>4 DEF IsInformed, FindsNone, OpeningFlag
    <3>2. OpenAccounts' = {e}
      BY <2>1, <2>2, <2>4, <3>1, FlagsAfter DEF OpenAccounts
    <3> QED
      BY <3>1, <3>2 DEF OnePrimary
  <2>5. CASE edit[e].primary # "yes" /\ ~FindsNone(e)
    <3>1. isPrimary'[e] = "no" /\ \A a \in Edits \ {e} : isPrimary'[a] = isPrimary[a]
      BY <2>1, <2>2, <2>5, FlagsAfter DEF FindsNone, OpeningFlag
    <3>2. OpenAccounts # {} /\ OpenAccounts' = OpenAccounts \cup {e}
      BY <2>1, <2>2, <2>5, <3>1 DEF FindsNone, OpenAccounts, SeenAccountsExist
    <3>3. PICK a \in OpenAccounts : \A b \in OpenAccounts : isPrimary[b] = "yes" <=> b = a
      BY <3>2 DEF OnePrimary
    <3>4. a # e /\ a \in Edits /\ a \in OpenAccounts'
      BY <2>1, <3>2, <3>3 DEF OpenAccounts
    <3>5. \A b \in OpenAccounts' : isPrimary'[b] = "yes" <=> b = a
      BY <3>1, <3>2, <3>3, <3>4 DEF OpenAccounts
    <3> QED
      BY <3>4, <3>5 DEF OnePrimary
  <2> QED
    BY <2>3, <2>4, <2>5
<1>3. ASSUME NEW e \in Edits, CommitPreference(e) PROVE OnePrimary'
  <2>1. /\ editAt[e] = "listed" /\ edit[e].kind = "prefer" /\ edit[e].primary = "yes"
        /\ isPrimary' = FlagsWritten(e)
    BY <1>3 DEF CommitPreference, IsInformed, Lists
  <2>2. edit[e].account \in OpenAccounts /\ sight[e][edit[e].account] # "absent"
    BY <2>1 DEF IsInformed, EditsAreWellFormed, EditsUnderWay
  <2>3. \A a \in Edits \ {edit[e].account} : isPrimary'[a] # "yes"
    BY <2>1, FlagsAfter
  <2>4. isPrimary'[edit[e].account] = "yes"
    <3>1. isPrimary[edit[e].account] = sight[e][edit[e].account]
      BY <2>1, <2>2 DEF IsInformed, WantsPrimary
    <3> QED
      BY <2>1, <2>2, <3>1 DEF FlagsWritten, Assigned, Flushed, OpenAccounts
  <2> QED
    BY <2>2, <2>3, <2>4 DEF OnePrimary, OpenAccounts
<1> QED
  BY <1>1, <1>2, <1>3, FlagStep

(* A request that chooses is the only one: another that commits meanwhile     *)
(* changes no flag, and adds at most an account that is not primary.        *)
LEMMA InformedStep ==
    ASSUME PrimaryInv, ChoicesApart, \A d \in Edits : IsInformed(d), [PrimaryNext]_primaryVars,
           NEW e \in Edits
    PROVE  IsInformed(e)'
<1> USE DEF PrimaryInv, PrimaryTypeOK, Edit, Flags, EditLabels
<1>1. CASE ReceiveEdit(e)
  <2>1. PICK x \in EditsOf(e) : edit' = [edit EXCEPT ![e] = x]
    BY <1>1 DEF ReceiveEdit
  <2>2. edit'[e] = x /\ editAt'[e] = "received" /\ sight'[e] = isPrimary /\ isPrimary' = isPrimary
    BY <1>1, <2>1 DEF ReceiveEdit
  <2>3. x.kind = "prefer" => x.account \in OpenAccounts
    BY <2>1 DEF EditsOf
  <2> QED
    BY <2>2, <2>3 DEF IsInformed, FindsNone, WantsPrimary, OpenAccounts
<1>2. CASE ListAccounts(e)
  <2>1. /\ edit' = edit /\ isPrimary' = isPrimary /\ Lists(e)
        /\ editAt[e] = "received" /\ editAt'[e] = "listed" /\ sight'[e] = Seen(e)
    BY <1>2 DEF ListAccounts
  <2>2. \A a \in Edits : Seen(e)[a] = IF sight[e][a] = "absent" THEN isPrimary[a] ELSE sight[e][a]
    BY DEF Seen
  <2>3. FindsNone(e)' => OpenAccounts' = {}
    BY <2>1, <2>2 DEF FindsNone, OpenAccounts
  <2>4. WantsPrimary(e)' => \A a \in Edits : isPrimary'[a] = sight'[e][a]
    BY <2>1, <2>2 DEF IsInformed, WantsPrimary
  <2>5. edit[e].kind = "prefer" => sight[e][edit[e].account] # "absent" /\ edit[e].account \in Edits
    BY <2>1 DEF IsInformed, EditsUnderWay
  <2>6. Lists(e)'
    BY <2>1 DEF Lists
  <2> QED
    BY <2>1, <2>2, <2>3, <2>4, <2>5, <2>6 DEF IsInformed
<1>3. CASE editAt'[e] \in {"done", "refused", "lost"}
  BY <1>3 DEF IsInformed, FindsNone, WantsPrimary, EditsUnderWay
<1>4. CASE UNCHANGED <<editAt[e], edit[e], sight[e]>>
  <2>1. /\ Lists(e)' = Lists(e) /\ (e \in EditsUnderWay' <=> e \in EditsUnderWay)
        /\ FindsNone(e)' = FindsNone(e) /\ WantsPrimary(e)' = WantsPrimary(e)
    BY <1>4 DEF Lists, EditsUnderWay, FindsNone, WantsPrimary
  <2>2. CASE isPrimary' = isPrimary
    BY <1>4, <2>1, <2>2 DEF IsInformed, OpenAccounts
  <2>3. ASSUME NEW d \in Edits, CommitAccount(d) \/ CommitPreference(d), Choosing(e)
        PROVE  /\ d # e /\ editAt[d] = "listed" /\ ~FindsNone(e)
               /\ \A a \in Edits : isPrimary'[a] = isPrimary[a] \/ (a = d /\ isPrimary'[a] = "no")
               /\ isPrimary'[d] # isPrimary[d] => isPrimary[d] = "absent"
    <3>1. d # e /\ editAt[d] = "listed"
      BY <1>4, <2>3 DEF CommitAccount, CommitPreference, CloseEdit
    <3>2. ~Choosing(d)
      BY <2>3, <3>1 DEF ChoicesApart
    <3>3. edit[d].kind = "create" /\ edit[d].primary = "no" /\ CommitAccount(d) /\ isPrimary[d] = "absent"
      BY <2>3, <3>1, <3>2 DEF Choosing, WantsPrimary, IsInformed, Lists, CommitPreference,
         CommitAccount, EditsAreWellFormed, EditsUnderWay, OpenedByDoneRequests
    <3>4. FlagsWritten(d) = isPrimary
      BY <3>1, <3>3, FlagsAfter
    <3>5. PICK a \in Edits : sight[d][a] # "absent"
      BY <3>1, <3>2, <3>3 DEF Choosing, FindsNone
    <3>6. ~FindsNone(e)
      BY <3>5 DEF IsInformed, OpenAccounts, SeenAccountsExist
    <3>7. isPrimary' = [isPrimary EXCEPT ![d] = "no"]
      BY <3>3, <3>4, <3>5 DEF CommitAccount, OpeningFlag
    <3> QED
      BY <3>1, <3>3, <3>6, <3>7
  <2>4. ASSUME NEW d \in Edits, CommitAccount(d) \/ CommitPreference(d) PROVE IsInformed(e)'
    <3>1. CASE ~Choosing(e)
      BY <1>4, <2>1, <3>1 DEF IsInformed, Choosing
    <3>2. CASE Choosing(e)
      <4>1. /\ ~FindsNone(e)
            /\ \A a \in Edits : isPrimary'[a] = isPrimary[a] \/ (a = d /\ isPrimary'[a] = "no")
            /\ isPrimary'[d] # isPrimary[d] => isPrimary[d] = "absent"
        BY <2>3, <2>4, <3>2
      <4>2. WantsPrimary(e) => \A a \in Edits : \/ isPrimary'[a] = sight[e][a]
                                                \/ sight[e][a] = "absent" /\ isPrimary'[a] = "no"
        <5> SUFFICES ASSUME WantsPrimary(e), NEW a \in Edits
                     PROVE  isPrimary'[a] = sight[e][a] \/ (sight[e][a] = "absent" /\ isPrimary'[a] = "no")
          OBVIOUS
        <5>1. isPrimary[a] = sight[e][a] \/ (sight[e][a] = "absent" /\ isPrimary[a] = "no")
          BY DEF IsInformed
        <5> QED
          BY <4>1, <5>1
      <4> QED
        BY <1>4, <2>1, <4>1, <4>2 DEF IsInformed
    <3> QED
      BY <3>1, <3>2
  <2> QED
    BY <2>2, <2>4, FlagStep
<1> QED
  BY <1>1, <1>2, <1>3, <1>4, EditStep

(* Requests may open, list and edit accounts at the same time: there is        *)
(* exactly one primary account unless two of them choose it at once          *)
(* (create_account(), update_preferences()).                                *)
THEOREM OnlyRacingChoicesSplitThePrimary == PrimarySpec /\ []ChoicesApart => []OnePrimary
<1> DEFINE Inv == OnePrimary /\ \A e \in Edits : IsInformed(e)
<1>1. PrimaryInit => Inv
  BY DEF PrimaryInit, OnePrimary, OpenAccounts, IsInformed, FindsNone, WantsPrimary, EditsUnderWay
<1>2. PrimaryInv /\ ChoicesApart /\ Inv /\ [PrimaryNext]_primaryVars => Inv'
  <2> SUFFICES ASSUME PrimaryInv, ChoicesApart, Inv, [PrimaryNext]_primaryVars PROVE Inv'
    OBVIOUS
  <2>1. OnePrimary'
    BY OnePrimaryStep
  <2>2. ASSUME NEW e \in Edits PROVE IsInformed(e)'
    BY InformedStep
  <2> QED
    BY <2>1, <2>2
<1>3. Inv => OnePrimary
  OBVIOUS
<1>4. PrimarySpec => []PrimaryInv
  BY PrimaryStart, PrimaryStep, PTL DEF PrimarySpec
<1> HIDE DEF Inv
<1> QED
  BY <1>1, <1>2, <1>3, <1>4, PTL DEF PrimarySpec

-----------------------------------------------------------------------------
(* Cards.  A request that nobody opposes finds, until it commits, the column  *)
(* as it loaded it or already as it wants it.                               *)
Sent == {q \in Actions : actionAt[q] # "unsent"}

ActionsAreGrounded ==
    /\ \A q \in Sent : IF action[q].opens THEN action[q].card = q /\ action[q].change \in CardRow
                        ELSE action[q].card \in issued
    /\ \A k \in issued \ {0} : actionAt[k] = "done"
    /\ \A q \in Sent : 1 .. q - 1 \subseteq Sent
OppositionIsKnown ==
    \A p, q \in Sent : p < q =>
        \A c \in Disagree(action[p], action[q]) :
            <<p, c>> \in opposed /\ (UnderWay(p) => <<q, c>> \in opposed)
ViewsAreFresh ==
    \A q \in Actions, c \in Columns :
        UnderWay(q) /\ ~action[q].opens /\ action[q].change[c] # "keep" =>
            \/ card[action[q].card][c] \in {view[q].card[c], action[q].change[c]}
            \/ <<q, c>> \in opposed

CardsInv == CardsTypeOK /\ ActionsAreGrounded /\ OppositionIsKnown /\ ViewsAreFresh /\ AnswersHold

LEMMA DisagreeMembers ==
    \A x, y : \A c : c \in Disagree(x, y) <=>
        /\ c \in Columns /\ x.card = y.card /\ x.change[c] # y.change[c]
        /\ x.change[c] # "keep" /\ y.change[c] # "keep"
BY DEF Disagree

(* What is asked for is well formed.                                         *)
LEMMA AskedForActions ==
    ASSUME CardsTypeOK, NEW q \in Actions, NEW x \in ActionsOf(q)
    PROVE  /\ x \in Action
           /\ IF x.opens THEN x.card = q /\ x.change \in CardRow ELSE x.card \in issued
<1> USE DEF ActionsOf, Action
<1>1. Actions \subseteq CardIds /\ issued \subseteq CardIds
  BY CardsAssumption DEF Actions, CardIds, CardsTypeOK
<1>2. Unfreezing \in Changes
  BY DEF Unfreezing, Nothing, Changes, Values
<1>3. \A r \in {"none", "given"} : Freezing(r) \in Changes
  BY DEF Freezing, Nothing, Changes, Values
<1>4. \A l \in Limits : Limiting(l) \in Changes
  BY DEF Limiting, Nothing, Changes, Values
<1>5. Controlling \subseteq Changes
  BY DEF Controlling
<1>6. \A l \in Limits \cup {"none"} : NewCard(l) \in Changes /\ NewCard(l) \in CardRow
  BY DEF NewCard, Changes, Values, CardRow
<1> QED
  BY <1>1, <1>2, <1>3, <1>4, <1>5, <1>6

LEMMA CardsStart == CardsInit => CardsInv
<1> SUFFICES ASSUME CardsInit PROVE CardsInv
  OBVIOUS
<1> USE DEF CardsInit
<1>1. NewCard("none") \in CardRow /\ Nothing \in Changes /\ Actions \subseteq CardIds /\ 0 \in CardIds
  BY CardsAssumption DEF NewCard, CardRow, Nothing, Changes, Values, Actions, CardIds
<1>a. action \in [Actions -> Action]
  BY <1>1 DEF NoAction, Action
<1>b. view \in [Actions -> [card: CardRow, payable: BOOLEAN]]
  BY <1>1 DEF NoView
<1>2. CardsTypeOK
  BY <1>1, <1>a, <1>b DEF CardsTypeOK, ActionLabels
<1> QED
  BY <1>2 DEF CardsInv, ActionsAreGrounded, OppositionIsKnown, ViewsAreFresh, AnswersHold, Sent,
     UnderWay

LEMMA CardsTypeStep == CardsInv /\ [CardsNext]_cardVars => CardsTypeOK'
<1> SUFFICES ASSUME CardsInv, [CardsNext]_cardVars PROVE CardsTypeOK'
  OBVIOUS
<1> USE DEF CardsInv, CardsTypeOK
<1>0. NoView \in [card: CardRow, payable: BOOLEAN] /\ Actions \subseteq CardIds
  BY CardsAssumption DEF NoView, NewCard, CardRow, Values, Actions, CardIds
<1>1. ASSUME NEW q \in Actions, ReceiveAction(q) PROVE CardsTypeOK'
  <2>1. PICK x \in ActionsOf(q) :
            /\ action' = [action EXCEPT ![q] = x]
            /\ view' = [view EXCEPT ![q] = [card |-> card[x.card], payable |-> payable]]
            /\ opposed' = opposed \cup Opposition(q, x)
    BY <1>1 DEF ReceiveAction
  <2>2. x \in Action /\ x.card \in CardIds
    BY AskedForActions DEF Action
  <2>5. opposed' \subseteq Actions \X Columns
    BY <2>1 DEF Opposition
  <2>6. action' \in [Actions -> Action] /\ view' \in [Actions -> [card: CardRow, payable: BOOLEAN]]
    BY <2>1, <2>2
  <2> QED
    BY <1>1, <2>5, <2>6 DEF ReceiveAction, ActionLabels
<1>2. ASSUME NEW q \in Actions, CommitCard(q) PROVE CardsTypeOK'
  <2>1. action[q].change \in CardRow
    BY <1>2 DEF CommitCard, ActionEnds, UnderWay, ActionsAreGrounded, Sent
  <2>2. card' \in [CardIds -> CardRow] /\ issued' \subseteq CardIds
    BY <1>0, <1>2, <2>1 DEF CommitCard
  <2> QED
    BY <1>0, <1>2, <2>2 DEF CommitCard, ActionEnds, ActionLabels
<1>3. ASSUME NEW q \in Actions, RefuseCard(q) \/ LoseAction(q) PROVE CardsTypeOK'
  <2>1. PICK label \in {"refused", "lost"} : ActionEnds(q, label) /\ UNCHANGED <<issued, card>>
    BY <1>3 DEF RefuseCard, LoseAction
  <2> QED
    BY <1>0, <2>1 DEF ActionEnds, ActionLabels
<1>4. ASSUME NEW q \in Actions, CommitChange(q) PROVE CardsTypeOK'
  <2>1. \A c \in Columns : Set(q, c) \in Values
    BY DEF Set, Flushed, Asked, Action, Changes, CardRow
  <2>2. card' \in [CardIds -> CardRow]
    BY <1>4, <2>1 DEF CommitChange, CardRow
  <2> QED
    BY <1>0, <1>4, <2>2 DEF CommitChange, ActionEnds, ActionLabels
<1>5. CASE AccountTurns
  BY <1>5 DEF AccountTurns
<1>6. CASE UNCHANGED cardVars
  BY <1>6 DEF cardVars
<1> QED
  BY <1>1, <1>2, <1>3, <1>4, <1>5, <1>6 DEF CardsNext

(* Requests that only end leave what is known of the others as it is.       *)
LEMMA OppositionStays ==
    ASSUME OppositionIsKnown, action' = action, opposed' = opposed, Sent' = Sent,
           \A p \in Sent : UnderWay(p)' => UnderWay(p)
    PROVE  OppositionIsKnown'
<1> SUFFICES ASSUME NEW p \in Sent, NEW r \in Sent, p < r,
                    NEW c \in Disagree(action[p], action[r])
             PROVE  <<p, c>> \in opposed /\ (UnderWay(p)' => <<r, c>> \in opposed)
  BY DEF OppositionIsKnown
<1> QED
  BY DEF OppositionIsKnown

LEMMA CardsStep == CardsInv /\ [CardsNext]_cardVars => CardsInv'
<1> SUFFICES ASSUME CardsInv, [CardsNext]_cardVars PROVE CardsInv'
  OBVIOUS
<1>0. CardsTypeOK'
  BY CardsTypeStep
<1> USE <1>0 DEF CardsInv
<1>1. ASSUME NEW q \in Actions, ReceiveAction(q) PROVE CardsInv'
  <2>1. PICK x \in ActionsOf(q) :
            /\ action' = [action EXCEPT ![q] = x]
            /\ view' = [view EXCEPT ![q] = [card |-> card[x.card], payable |-> payable]]
            /\ opposed' = opposed \cup Opposition(q, x)
    BY <1>1 DEF ReceiveAction
  <2>2. x \in Action /\ (IF x.opens THEN x.card = q /\ x.change \in CardRow ELSE x.card \in issued)
    BY AskedForActions
  <2>3. /\ actionAt[q] = "unsent" /\ actionAt' = [actionAt EXCEPT ![q] = "loaded"]
        /\ UNCHANGED <<issued, card, payable>> /\ 1 .. q - 1 \subseteq Sent
    BY <1>1, CardsAssumption DEF ReceiveAction, Sent, Actions
  <2>4. Sent' = Sent \cup {q} /\ q \notin Sent /\ \A p \in Sent : p < q
    <3>1. Sent' = Sent \cup {q} /\ q \notin Sent
      BY <2>3 DEF Sent, CardsTypeOK
    <3>2. ASSUME NEW p \in Sent, p >= q PROVE FALSE
      BY <3>1, <3>2 DEF ActionsAreGrounded, Actions, Sent
    <3> QED
      BY <3>1, <3>2 DEF Actions, Sent
  <2>5. /\ action'[q] = x /\ view'[q].card = card[x.card]
        /\ \A p \in Actions : p # q => action'[p] = action[p] /\ view'[p] = view[p]
                                        /\ actionAt'[p] = actionAt[p]
        /\ opposed \subseteq opposed'
    BY <2>1, <2>3 DEF CardsTypeOK
  <2>6. ActionsAreGrounded'
    BY <2>2, <2>3, <2>4, <2>5 DEF ActionsAreGrounded, Sent
  <2>7. OppositionIsKnown'
    <3> SUFFICES ASSUME NEW p \in Sent', NEW r \in Sent', p < r,
                        NEW c \in Disagree(action'[p], action'[r])
                 PROVE  <<p, c>> \in opposed' /\ (UnderWay(p)' => <<r, c>> \in opposed')
      BY DEF OppositionIsKnown
    <3>1. CASE r \in Sent
      <4>1. p \in Sent /\ p # q /\ r # q /\ p \in Actions /\ r \in Actions
        BY <3>1, <2>4 DEF Sent, Actions
      <4>2. c \in Disagree(action[p], action[r]) /\ (UnderWay(p)' => UnderWay(p))
        BY <4>1, <2>5 DEF UnderWay
      <4> QED
        BY <3>1, <4>1, <4>2, <2>5 DEF OppositionIsKnown
    <3>2. CASE r = q
      <4>1. p \in 1 .. q - 1 /\ p # q /\ p \in Actions
        BY <3>2, <2>4 DEF Sent, Actions
      <4>2. c \in Disagree(action[p], x) /\ c \in Columns /\ (UnderWay(p)' => UnderWay(p))
        BY <3>2, <4>1, <2>5, DisagreeMembers DEF UnderWay
      <4> QED
        BY <3>2, <4>1, <4>2, <2>1 DEF Opposition
    <3> QED
      BY <3>1, <3>2, <2>4
  <2>8. ViewsAreFresh'
    BY <2>3, <2>5 DEF ViewsAreFresh, UnderWay
  <2>9. AnswersHold'
    BY <2>3, <2>5 DEF AnswersHold
  <2> QED
    BY <2>6, <2>7, <2>8, <2>9
<1>2. ASSUME NEW q \in Actions, CommitCard(q) PROVE CardsInv'
  <2>1. /\ actionAt[q] = "loaded" /\ actionAt' = [actionAt EXCEPT ![q] = "done"]
        /\ view' = [view EXCEPT ![q] = NoView] /\ UNCHANGED <<payable, action, opposed>>
        /\ action[q].opens /\ issued' = issued \cup {q}
        /\ card' = [card EXCEPT ![q] = action[q].change]
    BY <1>2 DEF CommitCard, ActionEnds, UnderWay
  <2>2. q \in Sent /\ action[q].card = q /\ q \notin issued /\ Sent' = Sent /\ q \in CardIds
    BY <2>1, CardsAssumption DEF Sent, ActionsAreGrounded, CardsTypeOK, Actions, CardIds
  <2>3. \A p \in Sent : p # q => action[p].card # q
    BY <2>2 DEF ActionsAreGrounded
  <2>4. card'[q] = action[q].change /\ \A k \in CardIds : k # q => card'[k] = card[k]
    BY <2>1, <2>2 DEF CardsTypeOK
  <2>5. \A p \in Actions : action[p].card \in CardIds
    BY DEF CardsTypeOK, Action
  <2>6. ActionsAreGrounded'
    BY <2>1, <2>2 DEF ActionsAreGrounded, Sent, CardsTypeOK
  <2>7. OppositionIsKnown'
    BY <2>1, <2>2, OppositionStays DEF UnderWay, CardsTypeOK, Sent
  <2>8. ViewsAreFresh'
    BY <2>1, <2>3, <2>4, <2>5 DEF ViewsAreFresh, UnderWay, CardsTypeOK, Sent
  <2>9. AnswersHold'
    BY <2>1, <2>2, <2>3, <2>4, <2>5 DEF AnswersHold, CardsTypeOK, Sent
  <2> QED
    BY <2>6, <2>7, <2>8, <2>9
<1>3. ASSUME NEW q \in Actions, RefuseCard(q) \/ LoseAction(q) PROVE CardsInv'
  <2>1. PICK label \in {"refused", "lost"} : ActionEnds(q, label) /\ UNCHANGED <<issued, card>>
    BY <1>3 DEF RefuseCard, LoseAction
  <2>2. Sent' = Sent /\ \A k \in issued \ {0} : k # q
    BY <2>1 DEF ActionEnds, UnderWay, Sent, CardsTypeOK, ActionsAreGrounded
  <2>3. ActionsAreGrounded'
    BY <2>1, <2>2 DEF ActionEnds, ActionsAreGrounded, CardsTypeOK
  <2>4. OppositionIsKnown'
    BY <2>1, <2>2, OppositionStays DEF ActionEnds, UnderWay, CardsTypeOK, Sent
  <2>5. ViewsAreFresh' /\ AnswersHold'
    BY <2>1 DEF ActionEnds, ViewsAreFresh, AnswersHold, UnderWay, CardsTypeOK
  <2> QED
    BY <2>3, <2>4, <2>5
<1>4. ASSUME NEW q \in Actions, CommitChange(q) PROVE CardsInv'
  <2> DEFINE k == action[q].card
  <2>1. /\ actionAt[q] = "loaded" /\ actionAt' = [actionAt EXCEPT ![q] = "done"]
        /\ view' = [view EXCEPT ![q] = NoView] /\ UNCHANGED <<payable, action, opposed, issued>>
        /\ ~action[q].opens
        /\ card' = [card EXCEPT ![k] = [c \in Columns |-> Set(q, c)]]
    BY <1>4 DEF CommitChange, ActionEnds, UnderWay
  <2>2. q \in Sent /\ Sent' = Sent /\ k \in CardIds /\ UnderWay(q)
    BY <2>1 DEF Sent, CardsTypeOK, Action, UnderWay
  <2>3. /\ \A c \in Columns : card'[k][c] = Set(q, c)
        /\ \A i \in CardIds : i # k => card'[i] = card[i]
    BY <2>1, <2>2 DEF CardsTypeOK
  <2>4. \A c \in Columns :
            \/ card'[k][c] = card[k][c]
            \/ action[q].change[c] # "keep" /\ card'[k][c] = action[q].change[c]
    <3>1. \A c \in Columns :
              \/ Set(q, c) = card[k][c]
              \/ action[q].change[c] # "keep" /\ Set(q, c) = action[q].change[c]
      BY DEF Set, Flushed, Asked
    <3> QED
      BY <3>1, <2>3
  <2>5. ActionsAreGrounded'
    BY <2>1, <2>2 DEF ActionsAreGrounded, CardsTypeOK
  <2>6. OppositionIsKnown'
    BY <2>1, <2>2, OppositionStays DEF UnderWay, CardsTypeOK, Sent
  <2>7. ASSUME NEW p \in Sent, p # q, NEW c \in Columns, action[p].card = k,
               action[p].change[c] # "keep", action[q].change[c] # "keep",
               <<p, c>> \notin opposed
        PROVE  action[p].change[c] = action[q].change[c]
    <3>1. p < q \/ q < p
      BY <2>2, <2>7 DEF Sent, Actions
    <3>2. ASSUME action[p].change[c] # action[q].change[c] PROVE FALSE
      <4>1. c \in Disagree(action[p], action[q]) /\ c \in Disagree(action[q], action[p])
        BY <2>7, <3>2, DisagreeMembers
      <4> QED
        BY <2>2, <2>7, <3>1, <4>1 DEF OppositionIsKnown
    <3> QED
      BY <3>2
  <2>8. \A p \in Actions : action[p].card \in CardIds
    BY DEF CardsTypeOK, Action
  <2>9. ViewsAreFresh'
    <3> SUFFICES ASSUME NEW p \in Actions, NEW c \in Columns, UnderWay(p)',
                        ~action[p].opens, action[p].change[c] # "keep", <<p, c>> \notin opposed
                 PROVE  card'[action[p].card][c] \in {view'[p].card[c], action[p].change[c]}
      BY <2>1 DEF ViewsAreFresh
    <3>1. p # q /\ UnderWay(p) /\ view'[p] = view[p] /\ p \in Sent
      BY <2>1 DEF UnderWay, CardsTypeOK, Sent
    <3>2. card[action[p].card][c] \in {view[p].card[c], action[p].change[c]}
      BY <3>1 DEF ViewsAreFresh
    <3>3. CASE action[p].card # k
      BY <3>1, <3>2, <3>3, <2>3, <2>8
    <3>4. CASE action[p].card = k
      BY <3>1, <3>2, <3>4, <2>4, <2>7
    <3> QED
      BY <3>3, <3>4
  <2>10. AnswersHold'
    <3> SUFFICES ASSUME NEW p \in Actions, actionAt'[p] = "done", NEW c \in Columns,
                        action[p].change[c] # "keep", <<p, c>> \notin opposed
                 PROVE  action[p].change[c] = card'[action[p].card][c]
      BY <2>1 DEF AnswersHold
    <3>1. CASE p = q
      <4>1. card[k][c] \in {view[q].card[c], action[q].change[c]}
        BY <3>1, <2>1, <2>2 DEF ViewsAreFresh
      <4>2. card'[k][c] = IF action[q].change[c] = view[q].card[c] THEN card[k][c]
                          ELSE action[q].change[c]
        BY <3>1, <2>3 DEF Set, Flushed, Asked
      <4> QED
        BY <3>1, <4>1, <4>2
    <3>2. CASE p # q
      <4>1. actionAt[p] = "done" /\ p \in Sent
        BY <3>2, <2>1 DEF CardsTypeOK, Sent
      <4>2. action[p].change[c] = card[action[p].card][c]
        BY <4>1 DEF AnswersHold
      <4> QED
        BY <3>2, <4>1, <4>2, <2>3, <2>4, <2>7, <2>8
    <3> QED
      BY <3>1, <3>2
  <2> QED
    BY <2>5, <2>6, <2>9, <2>10
<1>5. CASE AccountTurns \/ UNCHANGED cardVars
  BY <1>5 DEF AccountTurns, cardVars, ActionsAreGrounded, OppositionIsKnown, ViewsAreFresh,
     AnswersHold, Sent, UnderWay
<1> QED
  BY <1>1, <1>2, <1>3, <1>4, <1>5 DEF CardsNext

(* A freeze, a limit or a control that was answered holds until a request     *)
(* that sets the column otherwise overlaps or follows: CardService, for any  *)
(* number of requests and whatever they load.                               *)
THEOREM CardAnswersHold == CardsSpec => []AnswersHold
<1>1. CardsInv => AnswersHold
  BY DEF CardsInv
<1> QED
  BY CardsStart, CardsStep, <1>1, PTL DEF CardsSpec
=============================================================================
