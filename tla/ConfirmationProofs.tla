------------------------- MODULE ConfirmationProofs -------------------------
(***************************************************************************)
(* Theorems of step-up confirmation, for any number of requests of any      *)
(* kinds and any number of attempts.                                        *)
(***************************************************************************)
EXTENDS Confirmations, TLAPS

-----------------------------------------------------------------------------
(* Type correctness needs that an accepted code is one that was issued.      *)
AcceptedCodesAreCodes ==
    \A a \in Requests : pc[a] = "accepting" /\ method[a] = "email_otp"
                         => typed[a] \in Requests

LEMMA InitType == Init => TypeOK /\ AcceptedCodesAreCodes
<1> SUFFICES ASSUME Init PROVE TypeOK /\ AcceptedCodesAreCodes
  OBVIOUS
<1>1. NoRow \in [code: CodeRow, challenge: ChallengeRow]
  BY DEF NoRow, CodeRow, ChallengeRow
<1>2. kind \in [Requests -> Kinds]
  BY ConfirmationAssumption DEF Init
<1> QED
  BY <1>1, <1>2 DEF Init, TypeOK, AcceptedCodesAreCodes, Labels, NoRow, CodeRow,
       ChallengeRow, Methods

LEMMA EndType ==
    ASSUME TypeOK, NEW a \in Requests, NEW label \in Ended, End(a, label)
    PROVE  /\ pc' \in [Requests -> Labels]
           /\ mine' \in [Requests -> [code: CodeRow, challenge: ChallengeRow]]
           /\ found' \in [Requests -> Requests \cup {NoCode}]
           /\ hash' \in [Requests -> Requests \cup {NoCode}]
           /\ typed' \in [Requests -> Requests \cup {WrongCode}]
           /\ UNCHANGED <<lapsed, mailed, kind, method, target, late, overlapped>>
<1>1. NoRow \in [code: CodeRow, challenge: ChallengeRow]
  BY DEF NoRow, CodeRow, ChallengeRow
<1> QED
  BY <1>1 DEF TypeOK, Labels, End, Goto

LEMMA RowTypes ==
    ASSUME TypeOK, NEW a \in Requests
    PROVE  /\ JudgedCodes(a) \in [Requests -> CodeRow]
           /\ VerifiedRow(a, target[a]) \in ChallengeRow
           /\ ExpiredRow(a, target[a]) \in ChallengeRow
           /\ FailureCounted(a, target[a]) \in ChallengeRow
<1>1. mine[a].code \in CodeRow /\ mine[a].challenge \in ChallengeRow
      /\ challenges[target[a]] \in ChallengeRow
  BY DEF TypeOK
<1>2. Attempts(a) \in Nat
  BY <1>1 DEF Attempts, CodeRow
<1>3. JudgedCodes(a) \in [Requests -> CodeRow]
  BY <1>2 DEF JudgedCodes, CodeRow, TypeOK
<1>4. VerifiedRow(a, target[a]) \in ChallengeRow
  BY <1>1 DEF VerifiedRow, StatusWritten, ChallengeRow
<1>5. FailureCounted(a, target[a]) \in ChallengeRow
  BY <1>1 DEF FailureCounted, ChallengeRow
<1>6. ExpiredRow(a, target[a]) \in ChallengeRow
  BY <1>1 DEF ExpiredRow, StatusWritten, ChallengeRow
<1> QED
  BY <1>3, <1>4, <1>5, <1>6

LEMMA AcceptedStep ==
    ASSUME TypeOK, AcceptedCodesAreCodes, [Next]_vars
    PROVE  AcceptedCodesAreCodes'
<1> SUFFICES ASSUME NEW a \in Requests, pc'[a] = "accepting", method'[a] = "email_otp"
             PROVE  typed'[a] \in Requests
  BY DEF AcceptedCodesAreCodes
<1>1. CASE JudgeCode(a)
  <2>1. typed[a] = hash[a] /\ typed' = typed
    BY <1>1 DEF JudgeCode, Goto, TypeOK, request
  <2> QED
    BY <2>1, ConfirmationAssumption DEF TypeOK
<1>2. CASE CheckFactor(a)
  BY <1>2 DEF CheckFactor, request
<1>3. CASE ~JudgeCode(a) /\ ~CheckFactor(a)
  <2> USE DEF TypeOK
  <2>1. ASSUME NEW b \in Requests, Arrive(b)
        PROVE  pc[a] = "accepting" /\ method'[a] = method[a] /\ typed'[a] = typed[a]
    BY <2>1 DEF Arrive, Goto
  <2>2. ASSUME NEW b \in Requests, NEW label \in Ended, End(b, label)
        PROVE  pc[a] = "accepting" /\ method'[a] = method[a] /\ typed'[a] = typed[a]
    BY <2>2 DEF End, Goto, Ended
  <2>3. ASSUME NEW b \in Requests,
               \/ FindReplaced(b) \/ FlushCode(b) \/ StoreAndMail(b) \/ FindCode(b)
               \/ ReadHash(b) \/ FindVerified(b)
        PROVE  pc[a] = "accepting" /\ method'[a] = method[a] /\ typed'[a] = typed[a]
    BY <2>3 DEF FindReplaced, FlushCode, StoreAndMail, FindCode, ReadHash, FindVerified,
         Goto, request
  <2>4. ASSUME NEW b \in Requests, JudgeCode(b) \/ PassExpiry(b) \/ CheckFactor(b)
        PROVE  pc[a] = "accepting" /\ method'[a] = method[a] /\ typed'[a] = typed[a]
    BY <1>3, <2>4 DEF JudgeCode, PassExpiry, CheckFactor, Goto, request
  <2>5. CASE UNCHANGED vars \/ ForgetHash \/ \E h \in Requests : Lapse(h)
    BY <2>5 DEF vars, ForgetHash, Lapse, request, AcceptedCodesAreCodes
  <2>6. \A b \in Requests :
           \/ Lose(b) \/ Refuse(b) \/ CommitChallenge(b) \/ MarkExpired(b)
           \/ CommitVerified(b) \/ CommitFailure(b) \/ CommitUse(b)
           => \E label \in Ended : End(b, label)
    BY DEF Lose, Refuse, CommitChallenge, MarkExpired, CommitVerified, CommitFailure,
         CommitUse, Ended
  <2> QED
    BY <2>1, <2>2, <2>3, <2>4, <2>5, <2>6 DEF Next, Terminated, AcceptedCodesAreCodes
<1> QED
  BY <1>1, <1>2, <1>3

LEMMA TypeStep ==
    ASSUME TypeOK, AcceptedCodesAreCodes, [Next]_vars
    PROVE  TypeOK'
<1> USE DEF TypeOK, Labels
<1>1. CASE UNCHANGED vars
  BY <1>1 DEF vars, rows, request, locals, ghosts
<1>2. ASSUME NEW a \in Requests, Arrive(a) PROVE TypeOK'
  <2>1. [code |-> codes[target'[a]], challenge |-> challenges[target'[a]]]
           \in [code: CodeRow, challenge: ChallengeRow]
    BY <1>2 DEF Arrive, Created
  <2>2. /\ target' \in [Requests -> Requests]
        /\ method' \in [Requests -> Methods]
        /\ typed' \in [Requests -> Requests \cup {WrongCode}]
        /\ late' \subseteq Requests
    BY <1>2 DEF Arrive, Created, Methods
  <2>3. mine' \in [Requests -> [code: CodeRow, challenge: ChallengeRow]]
    BY <1>2, <2>1 DEF Arrive, Created
  <2>4. pc' \in [Requests -> Labels]
        /\ overlapped' \in BOOLEAN
    BY <1>2 DEF Arrive, Goto
  <2> QED
    BY <1>2, <2>2, <2>3, <2>4 DEF Arrive, rows, locals
<1>3. ASSUME NEW a \in Requests, Lose(a) \/ Refuse(a) PROVE TypeOK'
  <2>1. stray' \in BOOLEAN /\ \E label \in Ended : End(a, label)
    BY <1>3 DEF Lose, Refuse, Ended
  <2> QED
    BY <1>3, <2>1, EndType DEF Lose, Refuse, rows
<1>4. ASSUME NEW a \in Requests, FindReplaced(a) PROVE TypeOK'
  <2>1. found' \in [Requests -> Requests \cup {NoCode}]
    BY <1>4 DEF FindReplaced, Replaced, Newest, Live, Active
  <2> QED
    BY <1>4, <2>1 DEF FindReplaced, Goto, rows, request, ghosts
<1>5. ASSUME NEW a \in Requests,
             FlushCode(a) \/ StoreAndMail(a) \/ PassExpiry(a) \/ CheckFactor(a)
                          \/ FindVerified(a)
      PROVE  TypeOK'
  <2>1. CASE FlushCode(a)
    BY <2>1 DEF FlushCode, Goto, rows, request, locals, ghosts
  <2>2. CASE StoreAndMail(a)
    BY <2>2 DEF StoreAndMail, Goto, rows, request, locals, ghosts
  <2>3. CASE PassExpiry(a) \/ CheckFactor(a)
    BY <2>3 DEF PassExpiry, CheckFactor, Goto, rows, request, locals, ghosts
  <2>4. CASE FindVerified(a)
    BY <2>4 DEF FindVerified, Goto, rows, request, locals, ghosts
  <2> QED
    BY <1>5, <2>1, <2>2, <2>3, <2>4
<1>6. ASSUME NEW a \in Requests, CommitChallenge(a) PROVE TypeOK'
  <2>1. IssuedCodes(a) \in [Requests -> CodeRow]
    BY ZenonT(60) DEF IssuedCodes, CodeRow
  <2>2. challenges' \in [Requests -> ChallengeRow]
    <3>1. challenges[a] \in ChallengeRow /\ challenges \in [Requests -> ChallengeRow]
      OBVIOUS
    <3> HIDE DEF TypeOK, Labels
    <3>2. [challenges[a] EXCEPT !.status = "pending"] \in ChallengeRow
      BY <3>1 DEF ChallengeRow
    <3>3. challenges' = [challenges EXCEPT ![a] = [challenges[a] EXCEPT !.status = "pending"]]
      BY <1>6 DEF CommitChallenge
    <3> QED
      BY <3>1, <3>2, <3>3
  <2>3. codes' \in [Requests -> CodeRow]
    BY <1>6, <2>1 DEF CommitChallenge
  <2>4. End(a, "done") /\ UNCHANGED <<redis, proofs, wrong, refusals, uses, stray>>
    BY <1>6 DEF CommitChallenge
  <2> QED
    BY <2>2, <2>3, <2>4, EndType DEF Ended
<1>7. ASSUME NEW a \in Requests, MarkExpired(a) PROVE TypeOK'
  <2>1. challenges' \in [Requests -> ChallengeRow]
    BY <1>7, RowTypes DEF MarkExpired
  <2> QED
    BY <1>7, <2>1, EndType DEF MarkExpired, Ended
<1>8. ASSUME NEW a \in Requests, FindCode(a) PROVE TypeOK'
  BY <1>8 DEF FindCode, Goto, rows, request, ghosts
<1>9. ASSUME NEW a \in Requests, ReadHash(a) PROVE TypeOK'
  BY <1>9 DEF ReadHash, Goto, rows, request, ghosts
<1>10. ASSUME NEW a \in Requests, JudgeCode(a) PROVE TypeOK'
  BY <1>10 DEF JudgeCode, Goto, rows, request, locals, ghosts
<1>11. ASSUME NEW a \in Requests, CommitVerified(a) PROVE TypeOK'
  <2>1. codes' \in [Requests -> CodeRow] /\ challenges' \in [Requests -> ChallengeRow]
    BY <1>11, RowTypes DEF CommitVerified
  <2>2. proofs' \in [Requests -> SUBSET (Requests \cup {Factor})]
    BY <1>11 DEF CommitVerified, AcceptedCodesAreCodes, Methods
  <2> QED
    BY <1>11, <2>1, <2>2, EndType DEF CommitVerified, Ended
<1>12. ASSUME NEW a \in Requests, CommitFailure(a) PROVE TypeOK'
  <2>1. codes' \in [Requests -> CodeRow] /\ challenges' \in [Requests -> ChallengeRow]
    BY <1>12, RowTypes DEF CommitFailure
  <2>2. wrong' \in [Requests -> Nat] /\ refusals' \in [Requests -> Nat]
    BY <1>12 DEF CommitFailure, Counted
  <2> QED
    BY <1>12, <2>1, <2>2, EndType DEF CommitFailure, Ended
<1>13. ASSUME NEW a \in Requests, CommitUse(a) PROVE TypeOK'
  <2>1. UsedRow(target[a]) \in ChallengeRow
    <3>1. challenges[target[a]] \in ChallengeRow
      OBVIOUS
    <3> HIDE DEF TypeOK
    <3> QED
      BY <3>1 DEF UsedRow, ChallengeRow
  <2>2. challenges' \in [Requests -> ChallengeRow] /\ uses' \in [Requests -> Nat]
    BY <1>13, <2>1 DEF CommitUse, Counted
  <2> QED
    BY <1>13, <2>2, EndType DEF CommitUse, Ended
<1>14. ASSUME NEW h \in Requests, Lapse(h) PROVE TypeOK'
  BY <1>14 DEF Lapse, rows, request, locals, ghosts
<1>15. CASE ForgetHash
  BY <1>15 DEF ForgetHash, rows, request, locals, ghosts
<1> QED
  BY <1>1, <1>2, <1>3, <1>4, <1>5, <1>6, <1>7, <1>8, <1>9, <1>10, <1>11, <1>12, <1>13,
       <1>14, <1>15 DEF Next, Terminated

(* Every reachable state is type correct. *)
THEOREM ConfirmationTypeCorrect == Spec => [](TypeOK /\ AcceptedCodesAreCodes)
<1>1. TypeOK /\ AcceptedCodesAreCodes /\ [Next]_vars => (TypeOK /\ AcceptedCodesAreCodes)'
  BY TypeStep, AcceptedStep
<1> QED
  BY <1>1, InitType, PTL DEF Spec

-----------------------------------------------------------------------------
(* What a request works on exists, and a creation that has not committed has *)
(* left no rows.                                                            *)
Phases ==
    \A a \in Requests :
        /\ pc[a] \in {"checked", "judging", "accepting", "failing"} => kind[a] = "verify"
        /\ pc[a] # "unsent" /\ kind[a] # "create" => target[a] \in Created
        /\ found[a] # NoCode => codes[found[a]].state # "absent"
        /\ ~(kind[a] = "create" /\ pc[a] = "done") =>
              challenges[a].status = "absent" /\ codes[a].state = "absent"

(* Rows are never taken back: a challenge stays created, used and verified,  *)
(* a consumed code stays consumed.                                          *)
RowsPersist ==
    \A h \in Requests :
        /\ h \in Created => h \in Created'
        /\ challenges[h].used => challenges'[h].used
        /\ codes[h].state # "absent" => codes'[h].state # "absent"
        /\ codes[h].state = "consumed" => codes'[h].state = "consumed"
        /\ h \in lapsed => h \in lapsed'

LEMMA CommitStep ==
    ASSUME [Next]_vars
    PROVE  \/ UNCHANGED rows
           \/ \E a \in Requests : \/ CommitChallenge(a) \/ MarkExpired(a)
                                  \/ CommitVerified(a)
                                  \/ CommitFailure(a) \/ CommitUse(a)
BY DEF Next, Terminated, Arrive, Lose, Refuse, FindReplaced, FlushCode, StoreAndMail,
     PassExpiry, CheckFactor, FindCode, ReadHash, JudgeCode, FindVerified, Lapse,
     ForgetHash, vars

LEMMA LapsedStep == ASSUME [Next]_vars PROVE lapsed \subseteq lapsed'
BY DEF Next, Terminated, Arrive, Lose, Refuse, FindReplaced, FlushCode, StoreAndMail,
     CommitChallenge, MarkExpired, PassExpiry, CheckFactor, FindCode, ReadHash, JudgeCode,
     CommitVerified, CommitFailure, FindVerified, CommitUse, Lapse, ForgetHash, End, vars

LEMMA RowsStep ==
    ASSUME TypeOK, Phases, [Next]_vars
    PROVE  RowsPersist
<1> USE DEF TypeOK, CodeRow, ChallengeRow, Created
<1>1. CASE UNCHANGED rows
  BY <1>1, LapsedStep DEF RowsPersist, rows
<1>2. ASSUME NEW a \in Requests, CommitChallenge(a) PROVE RowsPersist
  <2>1. challenges[a].status = "absent" /\ codes[a].state = "absent"
    BY <1>2 DEF CommitChallenge, Phases
  <2>2. \A c \in Requests : /\ codes[c].state # "absent" => codes'[c].state # "absent"
                            /\ codes[c].state = "consumed" => codes'[c].state = "consumed"
    BY <1>2, <2>1 DEF CommitChallenge, IssuedCodes
  <2>3. \A h \in Requests : /\ challenges'[h].used = challenges[h].used
                            /\ h \in Created => h \in Created'
    BY <1>2 DEF CommitChallenge
  <2> QED
    BY <2>2, <2>3, LapsedStep DEF RowsPersist
<1>3. ASSUME NEW a \in Requests, MarkExpired(a) PROVE RowsPersist
  BY <1>3, LapsedStep DEF MarkExpired, ExpiredRow, StatusWritten, RowsPersist
<1>4. ASSUME NEW a \in Requests, CommitVerified(a) \/ CommitFailure(a) PROVE RowsPersist
  <2>1. target[a] \in Created
    BY <1>4 DEF CommitVerified, CommitFailure, Phases
  <2>2. codes' = JudgedCodes(a)
    BY <1>4 DEF CommitVerified, CommitFailure
  <2>3. \A c \in Requests : /\ codes[c].state # "absent" => codes'[c].state # "absent"
                            /\ codes[c].state = "consumed" => codes'[c].state = "consumed"
    BY <2>2 DEF JudgedCodes
  <2>4. \A h \in Requests : /\ challenges'[h].used = challenges[h].used
                            /\ h \in Created => h \in Created'
    <3>1. CASE CommitVerified(a)
      BY <2>1, <3>1 DEF CommitVerified, VerifiedRow, StatusWritten
    <3>2. CASE CommitFailure(a)
      BY <2>1, <3>2 DEF CommitFailure, FailureCounted
    <3> QED
      BY <1>4, <3>1, <3>2
  <2> QED
    BY <2>3, <2>4, LapsedStep DEF RowsPersist
<1>5. ASSUME NEW a \in Requests, CommitUse(a) PROVE RowsPersist
  BY <1>5, LapsedStep DEF CommitUse, UsedRow, RowsPersist
<1> QED
  BY <1>1, <1>2, <1>3, <1>4, <1>5, CommitStep

(* Only Arrive changes what a request is.                                    *)
LEMMA RequestStep ==
    ASSUME TypeOK, [Next]_vars
    PROVE  /\ kind' = kind
           /\ \A a \in Requests :
                 \/ Arrive(a)
                 \/ /\ target'[a] = target[a]
                    /\ method'[a] = method[a]
                    /\ a \in late' <=> a \in late
                    /\ pc'[a] = "unsent" <=> pc[a] = "unsent"
<1> USE DEF TypeOK, Labels
<1> DEFINE Same(a) == /\ target'[a] = target[a]
                      /\ method'[a] = method[a]
                      /\ a \in late' <=> a \in late
                      /\ pc'[a] = "unsent" <=> pc[a] = "unsent"
<1>1. ASSUME UNCHANGED vars \/ ForgetHash \/ \E h \in Requests : Lapse(h)
      PROVE  kind' = kind /\ \A a \in Requests : Same(a)
  BY <1>1 DEF vars, ForgetHash, Lapse, request, ghosts
<1>2. ASSUME NEW b \in Requests, Arrive(b)
      PROVE  kind' = kind /\ \A a \in Requests \ {b} : Same(a)
  BY <1>2 DEF Arrive, Goto
<1>3. ASSUME NEW b \in Requests, NEW label \in Ended, End(b, label), pc[b] # "unsent"
      PROVE  kind' = kind /\ \A a \in Requests : Same(a)
  BY <1>3 DEF End, Goto, Ended
<1>4. ASSUME NEW b \in Requests,
             \/ FindReplaced(b) \/ FlushCode(b) \/ StoreAndMail(b)
             \/ PassExpiry(b) \/ CheckFactor(b)
             \/ FindCode(b) \/ ReadHash(b) \/ JudgeCode(b) \/ FindVerified(b)
      PROVE  kind' = kind /\ \A a \in Requests : Same(a)
  BY <1>4 DEF FindReplaced, FlushCode, StoreAndMail, PassExpiry, CheckFactor, FindCode,
       ReadHash, JudgeCode, FindVerified, Goto, request, ghosts
<1>5. ASSUME NEW b \in Requests,
             \/ Lose(b) \/ Refuse(b) \/ CommitChallenge(b) \/ MarkExpired(b)
             \/ CommitVerified(b) \/ CommitFailure(b) \/ CommitUse(b)
      PROVE  kind' = kind /\ \A a \in Requests : Same(a)
  <2>1. pc[b] # "unsent" /\ \E label \in Ended : End(b, label)
    BY <1>5 DEF Lose, UnderWay, Refuse, CommitChallenge, MarkExpired, CommitVerified,
         CommitFailure, CommitUse, Ended
  <2> HIDE DEF Same, TypeOK
  <2> QED
    BY <2>1, <1>3
<1> HIDE DEF Same, TypeOK
<1>6. \/ kind' = kind /\ \A a \in Requests : Same(a)
      \/ \E b \in Requests : Arrive(b) /\ kind' = kind /\ \A a \in Requests \ {b} : Same(a)
  BY <1>1, <1>2, <1>4, <1>5 DEF Next, Terminated
<1> QED
  BY <1>6 DEF Same

(* What a request does is a step of its own.                                 *)
LEMMA OwnStep ==
    ASSUME TypeOK, [Next]_vars, NEW a \in Requests
    PROVE  \/ pc'[a] = pc[a]
           \/ Arrive(a) \/ FindReplaced(a) \/ FlushCode(a) \/ StoreAndMail(a)
           \/ PassExpiry(a) \/ CheckFactor(a)
           \/ FindCode(a) \/ ReadHash(a) \/ JudgeCode(a) \/ FindVerified(a)
           \/ Lose(a) \/ Refuse(a) \/ CommitChallenge(a) \/ MarkExpired(a)
           \/ CommitVerified(a) \/ CommitFailure(a) \/ CommitUse(a)
<1>1. ASSUME UNCHANGED vars \/ ForgetHash \/ \E h \in Requests : Lapse(h)
      PROVE  pc'[a] = pc[a]
  BY <1>1 DEF vars, ForgetHash, Lapse
<1>2. ASSUME NEW b \in Requests, b # a,
             \/ Arrive(b) \/ FindReplaced(b) \/ FlushCode(b) \/ StoreAndMail(b)
             \/ PassExpiry(b) \/ CheckFactor(b) \/ FindCode(b) \/ ReadHash(b)
             \/ JudgeCode(b)
             \/ FindVerified(b)
      PROVE  pc'[a] = pc[a]
  BY <1>2 DEF TypeOK, Arrive, FindReplaced, FlushCode, StoreAndMail, PassExpiry,
       CheckFactor, FindCode, ReadHash, JudgeCode, FindVerified, Goto
<1>3. ASSUME NEW b \in Requests, b # a,
             \/ Lose(b) \/ Refuse(b) \/ CommitChallenge(b) \/ MarkExpired(b)
             \/ CommitVerified(b) \/ CommitFailure(b) \/ CommitUse(b)
      PROVE  pc'[a] = pc[a]
  BY <1>3 DEF TypeOK, Lose, Refuse, CommitChallenge, MarkExpired, CommitVerified,
       CommitFailure, CommitUse, End, Goto
<1> QED
  BY <1>1, <1>2, <1>3 DEF Next, Terminated

LEMMA FoundStep ==
    ASSUME TypeOK, Phases, [Next]_vars, NEW a \in Requests
    PROVE  \/ found'[a] = found[a]
           \/ found'[a] = NoCode
           \/ found'[a] \in Active
<1> USE DEF TypeOK, Labels
<1>1. ASSUME NEW b \in Requests, FindReplaced(b)
      PROVE  found'[a] = found[a] \/ found'[a] = NoCode \/ found'[a] \in Active
  BY <1>1 DEF FindReplaced, Replaced, Newest, Live, Active
<1>2. ASSUME NEW b \in Requests, FindCode(b)
      PROVE  found'[a] = found[a] \/ found'[a] \in Active
  BY <1>2 DEF FindCode, Live
<1>3. ASSUME NEW b \in Requests, NEW label \in Ended, End(b, label)
      PROVE  found'[a] = found[a] \/ found'[a] = NoCode
  BY <1>3 DEF End
<1>4. ASSUME NEW b \in Requests,
             \/ Lose(b) \/ Refuse(b) \/ CommitChallenge(b) \/ MarkExpired(b)
             \/ CommitVerified(b) \/ CommitFailure(b) \/ CommitUse(b)
      PROVE  found'[a] = found[a] \/ found'[a] = NoCode
  <2>1. \E label \in Ended : End(b, label)
    BY <1>4 DEF Lose, Refuse, CommitChallenge, MarkExpired, CommitVerified, CommitFailure,
         CommitUse, Ended
  <2> QED
    BY <2>1, <1>3
<1>5. ASSUME NEW b \in Requests,
             \/ Arrive(b) \/ FlushCode(b) \/ StoreAndMail(b) \/ PassExpiry(b)
             \/ CheckFactor(b) \/ ReadHash(b)
             \/ JudgeCode(b) \/ FindVerified(b)
      PROVE  found'[a] = found[a]
  BY <1>5 DEF Arrive, FlushCode, StoreAndMail, PassExpiry, CheckFactor, ReadHash, JudgeCode,
       FindVerified, locals
<1>6. ASSUME UNCHANGED vars \/ ForgetHash \/ \E h \in Requests : Lapse(h)
      PROVE  found'[a] = found[a]
  BY <1>6 DEF vars, ForgetHash, Lapse, locals
<1> HIDE DEF TypeOK
<1> QED
  BY <1>1, <1>2, <1>4, <1>5, <1>6 DEF Next, Terminated

LEMMA PhasesStep ==
    ASSUME TypeOK, Phases, [Next]_vars
    PROVE  Phases'
<1> SUFFICES ASSUME NEW a \in Requests
             PROVE  /\ pc'[a] \in {"checked", "judging", "accepting", "failing"}
                       => kind'[a] = "verify"
                    /\ pc'[a] # "unsent" /\ kind'[a] # "create" => target'[a] \in Created'
                    /\ found'[a] # NoCode => codes'[found'[a]].state # "absent"
                    /\ ~(kind'[a] = "create" /\ pc'[a] = "done") =>
                          challenges'[a].status = "absent" /\ codes'[a].state = "absent"
  BY DEF Phases
<1> USE DEF TypeOK, Labels
<1>1. kind' = kind /\ RowsPersist
  BY RequestStep, RowsStep
<1>2. pc'[a] \in {"checked", "judging", "accepting", "failing"} => kind[a] = "verify"
  <2> SUFFICES ASSUME pc'[a] \in {"checked", "judging", "accepting", "failing"},
  pc'[a] # pc[a]
               PROVE  kind[a] = "verify"
    BY DEF Phases
  <2>1. \A label \in Ended : ~End(a, label)
    BY DEF End, Goto, Ended
  <2>2. ~(\/ Lose(a) \/ Refuse(a) \/ CommitChallenge(a) \/ MarkExpired(a)
          \/ CommitVerified(a) \/ CommitFailure(a) \/ CommitUse(a))
    BY <2>1 DEF Lose, Refuse, CommitChallenge, MarkExpired, CommitVerified, CommitFailure,
         CommitUse, Ended
  <2>3. CASE Arrive(a) \/ FindReplaced(a) \/ FlushCode(a) \/ StoreAndMail(a)
                       \/ FindVerified(a)
    BY <2>3 DEF Arrive, FindReplaced, FlushCode, StoreAndMail, FindVerified, Goto
  <2>4. CASE PassExpiry(a) \/ CheckFactor(a) \/ FindCode(a) \/ ReadHash(a)
    BY <2>4 DEF PassExpiry, CheckFactor, FindCode, ReadHash, Phases
  <2>5. CASE JudgeCode(a)
    BY <2>5 DEF JudgeCode, Phases
  <2> QED
    BY <2>2, <2>3, <2>4, <2>5, OwnStep
<1>3. pc'[a] # "unsent" /\ kind[a] # "create" => target'[a] \in Created'
  <2>1. CASE Arrive(a)
    <3>1. kind[a] # "create" => target'[a] \in Created
      BY <2>1 DEF Arrive
    <3>2. Created' = Created
      BY <2>1 DEF Arrive, rows, Created
    <3> QED
      BY <3>1, <3>2
  <2>2. CASE ~Arrive(a)
    BY <1>1, <2>2, RequestStep DEF Phases, RowsPersist
  <2> QED
    BY <2>1, <2>2
<1>4. found'[a] # NoCode => codes'[found'[a]].state # "absent"
  <2> SUFFICES ASSUME found'[a] # NoCode PROVE codes'[found'[a]].state # "absent"
    OBVIOUS
  <2>1. found'[a] \in Requests /\ codes[found'[a]].state # "absent"
    <3>1. CASE found'[a] = found[a]
      BY <3>1 DEF Phases
    <3>2. CASE found'[a] \in Active
      BY <3>2 DEF Active
    <3> QED
      BY <3>1, <3>2, FoundStep
  <2> QED
    BY <1>1, <2>1 DEF RowsPersist
<1>5. ~(kind[a] = "create" /\ pc'[a] = "done") =>
         challenges'[a].status = "absent" /\ codes'[a].state = "absent"
  <2> SUFFICES ASSUME ~(kind[a] = "create" /\ pc'[a] = "done")
               PROVE  challenges'[a].status = "absent" /\ codes'[a].state = "absent"
    OBVIOUS
  <2>1. ~(kind[a] = "create" /\ pc[a] = "done")
    <3> SUFFICES ASSUME kind[a] = "create", pc[a] = "done", pc'[a] # pc[a] PROVE FALSE
      OBVIOUS
    <3>1. \/ Arrive(a) \/ FindReplaced(a) \/ FlushCode(a) \/ StoreAndMail(a)
          \/ PassExpiry(a) \/ CheckFactor(a)
          \/ FindCode(a) \/ ReadHash(a) \/ JudgeCode(a) \/ FindVerified(a)
          => FALSE
      BY DEF Phases, Arrive, FindReplaced, FlushCode, StoreAndMail, PassExpiry, CheckFactor,
           FindCode, ReadHash, JudgeCode, FindVerified
    <3>2. \/ Lose(a) \/ Refuse(a) \/ CommitChallenge(a) \/ MarkExpired(a)
          \/ CommitVerified(a) \/ CommitFailure(a) \/ CommitUse(a)
          => FALSE
      BY DEF Lose, UnderWay, Ended, Refuse, CommitChallenge, MarkExpired, CommitVerified,
           CommitFailure, CommitUse
    <3> QED
      BY <3>1, <3>2, OwnStep
  <2>2. challenges[a].status = "absent" /\ codes[a].state = "absent"
    BY <2>1 DEF Phases
  <2>3. \A b \in Requests : found[b] # a
    BY <2>2, ConfirmationAssumption DEF Phases
  <2>4. CASE UNCHANGED rows
    BY <2>2, <2>4 DEF rows
  <2>5. ASSUME NEW b \in Requests, CommitChallenge(b)
        PROVE  challenges'[a].status = "absent" /\ codes'[a].state = "absent"
    <3>1. a # b
      BY <2>5 DEF CommitChallenge, End, Goto
    <3> QED
      BY <2>2, <2>3, <2>5, <3>1 DEF CommitChallenge, IssuedCodes
  <2>6. ASSUME NEW b \in Requests,
               MarkExpired(b) \/ CommitVerified(b) \/ CommitFailure(b) \/ CommitUse(b)
        PROVE  challenges'[a].status = "absent" /\ codes'[a].state = "absent"
    <3>1. target[b] # a
      BY <2>2, <2>6 DEF MarkExpired, CommitVerified, CommitFailure, CommitUse, Phases,
           Created
    <3>2. JudgedCodes(b)[a] = codes[a]
      BY <2>3 DEF JudgedCodes
    <3> QED
      BY <2>2, <2>6, <3>1, <3>2 DEF MarkExpired, CommitVerified, CommitFailure, CommitUse
  <2> QED
    BY <2>4, <2>5, <2>6, CommitStep
<1> QED
  BY <1>1, <1>2, <1>3, <1>4, <1>5

LEMMA InitPhases == Init => Phases
BY ConfirmationAssumption DEF Init, Phases, NoRow

-----------------------------------------------------------------------------
(* A challenge that is or was verified, or that a handler is about to use,   *)
(* has a proof.                                                             *)
Proven ==
    /\ \A h \in Requests : challenges[h].status = "verified" \/ uses[h] > 0
                         => proofs[h] # {}
    /\ \A a \in Requests : kind[a] = "use" /\ pc[a] = "found" => proofs[target[a]] # {}

LEMMA InitProven == Init => Proven
BY DEF Init, Proven, NoRow

LEMMA ProofsStep ==
    ASSUME TypeOK, [Next]_vars, NEW h \in Requests
    PROVE  /\ proofs[h] # {} => proofs'[h] # {}
           /\ \/ proofs'[h] = proofs[h]
              \/ \E a \in Requests : CommitVerified(a)
<1>1. ASSUME NEW a \in Requests, CommitVerified(a)
      PROVE  proofs[h] # {} => proofs'[h] # {}
  BY <1>1 DEF CommitVerified, TypeOK
<1>2. ASSUME \A a \in Requests : ~CommitVerified(a)
      PROVE  proofs' = proofs
  BY <1>2 DEF Next, Terminated, Arrive, Lose, Refuse, FindReplaced, FlushCode, StoreAndMail,
       CommitChallenge, MarkExpired, PassExpiry, CheckFactor, FindCode, ReadHash, JudgeCode,
       CommitFailure, FindVerified, CommitUse, Lapse, ForgetHash, vars, ghosts
<1> QED
  BY <1>1, <1>2

LEMMA UsesStep ==
    ASSUME TypeOK, [Next]_vars, NEW h \in Requests, uses'[h] # uses[h]
    PROVE  \E a \in Requests : CommitUse(a) /\ target[a] = h
<1>1. ASSUME NEW a \in Requests, CommitUse(a) PROVE target[a] = h
  BY <1>1 DEF CommitUse, Counted, TypeOK
<1>2. \E a \in Requests : CommitUse(a)
  BY DEF Next, Terminated, Arrive, Lose, Refuse, FindReplaced, FlushCode, StoreAndMail,
       CommitChallenge, MarkExpired, PassExpiry, CheckFactor, FindCode, ReadHash, JudgeCode,
       CommitVerified, CommitFailure, FindVerified, Lapse, ForgetHash, vars, ghosts
<1> QED
  BY <1>1, <1>2

LEMMA StatusStep ==
    ASSUME TypeOK, [Next]_vars, NEW h \in Requests, challenges'[h].status = "verified"
    PROVE  challenges[h].status = "verified" \/ proofs'[h] # {}
<1> USE DEF TypeOK, ChallengeRow
<1>1. CASE UNCHANGED rows
  BY <1>1 DEF rows
<1>2. ASSUME NEW a \in Requests, CommitChallenge(a) PROVE challenges[h].status = "verified"
  BY <1>2 DEF CommitChallenge
<1>3. ASSUME NEW a \in Requests, MarkExpired(a) PROVE challenges[h].status = "verified"
  BY <1>3 DEF MarkExpired, ExpiredRow, StatusWritten
<1>4. ASSUME NEW a \in Requests, CommitFailure(a) PROVE challenges[h].status = "verified"
  BY <1>4 DEF CommitFailure, FailureCounted
<1>5. ASSUME NEW a \in Requests, CommitUse(a) PROVE challenges[h].status = "verified"
  BY <1>5 DEF CommitUse, UsedRow
<1>6. ASSUME NEW a \in Requests, CommitVerified(a)
      PROVE  challenges[h].status = "verified" \/ proofs'[h] # {}
  BY <1>6 DEF CommitVerified
<1> QED
  BY <1>1, <1>2, <1>3, <1>4, <1>5, <1>6, CommitStep

LEMMA ProvenStep ==
    ASSUME TypeOK, Phases, Proven, [Next]_vars
    PROVE  Proven'
<1>1. ASSUME NEW h \in Requests, challenges'[h].status = "verified" PROVE proofs'[h] # {}
  BY <1>1, StatusStep, ProofsStep DEF Proven
<1>2. ASSUME NEW h \in Requests, uses'[h] > 0 PROVE proofs'[h] # {}
  <2>1. CASE uses'[h] = uses[h]
    BY <1>2, <2>1, ProofsStep DEF Proven
  <2>2. CASE uses'[h] # uses[h]
    BY <2>2, UsesStep, ProofsStep DEF Proven, CommitUse
  <2> QED
    BY <2>1, <2>2
<1>3. ASSUME NEW a \in Requests, kind'[a] = "use", pc'[a] = "found"
      PROVE  proofs'[target'[a]] # {}
  <2>1. kind[a] = "use"
    BY <1>3, RequestStep
  <2>2. CASE pc'[a] = pc[a]
    <3>1. target'[a] = target[a]
      BY <1>3, <2>2, RequestStep DEF Arrive
    <3> QED
      BY <1>3, <2>1, <2>2, <3>1, ProofsStep DEF Proven, TypeOK
  <2>3. CASE FindVerified(a)
    <3>1. target'[a] = target[a] /\ challenges[target[a]].status = "verified"
      BY <2>3 DEF FindVerified, Verified, request
    <3> QED
      BY <3>1, ProofsStep DEF Proven, TypeOK
  <2>4. \A label \in Ended : ~End(a, label)
    BY <1>3 DEF End, Goto, Ended, TypeOK
  <2>5. ~(\/ Lose(a) \/ Refuse(a) \/ CommitChallenge(a) \/ MarkExpired(a)
          \/ CommitVerified(a) \/ CommitFailure(a) \/ CommitUse(a))
    BY <2>4 DEF Lose, Refuse, CommitChallenge, MarkExpired, CommitVerified, CommitFailure,
         CommitUse, Ended
  <2>6. ~(\/ Arrive(a) \/ FindReplaced(a) \/ FlushCode(a) \/ StoreAndMail(a)
          \/ PassExpiry(a) \/ CheckFactor(a)
          \/ FindCode(a) \/ ReadHash(a) \/ JudgeCode(a))
    <3>1. ~(\/ Arrive(a) \/ FlushCode(a) \/ StoreAndMail(a) \/ PassExpiry(a)
            \/ CheckFactor(a)
            \/ ReadHash(a) \/ JudgeCode(a))
      BY <1>3, <2>1 DEF Arrive, FlushCode, StoreAndMail, PassExpiry, CheckFactor, ReadHash,
           JudgeCode, Goto, TypeOK
    <3>2. ~FindReplaced(a)
      BY <2>1 DEF FindReplaced
    <3>3. ~FindCode(a)
      BY <2>1 DEF FindCode, Phases
    <3> QED
      BY <3>1, <3>2, <3>3
  <2> QED
    BY <2>2, <2>3, <2>5, <2>6, OwnStep
<1> QED
  BY <1>1, <1>2, <1>3 DEF Proven

(* No challenge is used that was never verified, however creations,          *)
(* verifications and uses overlap and are lost.                             *)
THEOREM ConfirmationNeedsProof == Spec => []UsesAreProven
<1>1. TypeOK /\ Phases /\ Proven /\ [Next]_vars => (Phases /\ Proven)'
  BY ProvenStep, PhasesStep
<1>2. Proven => UsesAreProven
  BY DEF Proven, UsesAreProven
<1> QED
  BY <1>1, <1>2, InitPhases, InitProven, ConfirmationTypeCorrect, PTL DEF Spec

-----------------------------------------------------------------------------
(* The right that a late request lacks never comes back, so that it never    *)
(* gets further than a refusal.                                             *)
LateStaysLate ==
    \A a \in late : /\ TooLate(a, target[a], method[a])
                    /\ pc[a] \in {"loaded", "checked", "failing", "refused", "lost"}
                    /\ pc[a] = "checked" =>
                          method[a] = "email_otp" /\ codes[target[a]].state = "consumed"

LEMMA LateStep ==
    ASSUME TypeOK, AcceptedCodesAreCodes, Phases, LateStaysLate, [Next]_vars
    PROVE  LateStaysLate'
<1> SUFFICES ASSUME NEW a \in Requests, a \in late'
             PROVE  /\ TooLate(a, target[a], method[a])'
                    /\ pc'[a] \in {"loaded", "checked", "failing", "refused", "lost"}
                    /\ pc'[a] = "checked" =>
                          method'[a] = "email_otp" /\ codes'[target'[a]].state = "consumed"
  <2>1. late' \subseteq Requests
    BY TypeStep DEF TypeOK
  <2> QED
    BY <2>1 DEF LateStaysLate
<1>1. CASE Arrive(a)
  <2>1. a \notin late /\ pc'[a] = "loaded"
    BY <1>1 DEF Arrive, Goto, LateStaysLate, TypeOK
  <2>2. TooLate(a, target'[a], method'[a])
    BY <1>1, <2>1 DEF Arrive, TypeOK
  <2>3. UNCHANGED <<kind, rows, lapsed>>
    BY <1>1 DEF Arrive
  <2> QED
    BY <2>1, <2>2, <2>3 DEF TooLate, rows
<1>2. CASE ~Arrive(a)
  <2>1. /\ a \in late /\ kind' = kind
        /\ target'[a] = target[a] /\ method'[a] = method[a]
    BY <1>2, RequestStep
  <2>2. TooLate(a, target[a], method[a]) /\ target[a] \in Requests
    BY <2>1 DEF LateStaysLate, TypeOK
  <2>3. TooLate(a, target[a], method[a])'
    BY <2>1, <2>2, RowsStep DEF TooLate, RowsPersist
  <2>4. CASE pc'[a] = pc[a]
    BY <2>1, <2>2, <2>3, <2>4, RowsStep DEF LateStaysLate, RowsPersist
  <2>5. CASE Lose(a) \/ Refuse(a) \/ MarkExpired(a) \/ CommitFailure(a)
    BY <2>3, <2>5 DEF Lose, Refuse, MarkExpired, CommitFailure, End, Goto, TypeOK
  <2>6. CASE PassExpiry(a)
    <3>1. kind[a] = "verify" /\ target[a] \notin lapsed
          /\ rows' = rows /\ pc'[a] = "checked"
      BY <2>6 DEF PassExpiry, Goto, TypeOK
    <3>2. method[a] = "email_otp" /\ codes[target[a]].state = "consumed"
      BY <2>2, <3>1 DEF TooLate
    <3> QED
      BY <2>1, <2>3, <3>1, <3>2 DEF rows
  <2>7. CASE FindCode(a) \/ CheckFactor(a) \/ FindVerified(a)
    <3>1. CASE FindCode(a)
      <4>1. target[a] \notin Live
        BY <2>1, <3>1 DEF FindCode, LateStaysLate, Live, Active
      <4>2. pc'[a] = "failing"
        BY <3>1, <4>1 DEF FindCode, Goto, TypeOK
      <4> QED
        BY <2>3, <4>2
    <3>2. ~CheckFactor(a)
      BY <2>1 DEF CheckFactor, LateStaysLate
    <3>3. ~FindVerified(a)
      <4>1. FindVerified(a) => /\ kind[a] = "use" /\ target[a] \notin lapsed
                               /\ ~challenges[target[a]].used
        BY DEF FindVerified, Verified
      <4> QED
        BY <2>2, <4>1 DEF TooLate
    <3> QED
      BY <2>7, <3>1, <3>2, <3>3
  <2>8. ~(\/ FindReplaced(a) \/ FlushCode(a) \/ StoreAndMail(a) \/ ReadHash(a)
          \/ JudgeCode(a)
          \/ CommitChallenge(a) \/ CommitVerified(a) \/ CommitUse(a))
    BY <2>1, <2>2 DEF FindReplaced, FlushCode, StoreAndMail, ReadHash, JudgeCode,
         CommitChallenge, CommitVerified, CommitUse, TooLate, LateStaysLate
  <2> QED
    BY <1>2, <2>3, <2>4, <2>5, <2>6, <2>7, <2>8, OwnStep
<1> QED
  BY <1>1, <1>2

(* Whoever comes too late with a code or a challenge gets nothing, however   *)
(* often the challenge is verified again and whatever overlaps.             *)
THEOREM LateConfirmationsRefused == Spec => []LateConfirmationsFail
<1>1. TypeOK /\ Phases /\ [Next]_vars => Phases'
  BY PhasesStep
<1>2. TypeOK /\ AcceptedCodesAreCodes /\ Phases /\ LateStaysLate /\ [Next]_vars
         => LateStaysLate'
  BY LateStep
<1>3. Init => LateStaysLate
  BY DEF Init, LateStaysLate
<1>4. LateStaysLate => LateConfirmationsFail
  BY DEF LateStaysLate, LateConfirmationsFail
<1> QED
  BY <1>1, <1>2, <1>3, <1>4, InitPhases, ConfirmationTypeCorrect, PTL DEF Spec
-----------------------------------------------------------------------------
(* Requests that do not overlap.  A request that is alone has loaded what is *)
(* stored, and knows which code it is about.                                *)
OneUnderWay == \A a, b \in UnderWay : a = b
OneLive     == \A c, d \in Live : c = d

Loaded(a) == mine[a] = [code |-> codes[target[a]], challenge |-> challenges[target[a]]]

OwnCode(a) ==
    /\ kind[a] = "verify" => found[a] \in {NoCode, target[a]}
    /\ kind[a] = "verify" /\ pc[a] \in {"found", "judging"} => found[a] = target[a]
    /\ pc[a] = "accepting" => IF found[a] = NoCode THEN method[a] = "totp"
                                                   ELSE typed[a] = hash[a]
RightCode(a) ==
    /\ kind[a] = "create" /\ pc[a] \in {"found", "flushed", "stored"} => Live \subseteq {found[a]}
    /\ OwnCode(a)

Judged(a) == /\ Loaded(a) /\ RightCode(a)
             /\ kind[a] = "use" /\ pc[a] = "found" => ~challenges[target[a]].used

(* Nobody but a request under way has selected a code. *)
Idle == \A a \in Requests : pc[a] \in {"unsent", "loaded", "checked"} \cup Ended
                              => found[a] = NoCode

(* What the rows say of the past. *)
Books(h) ==
    /\ uses[h] <= 1 /\ (uses[h] > 0 => challenges[h].used)
    /\ challenges[h].failures = refusals[h]
    /\ codes[h].state = "absent" => wrong[h] = 0
    /\ codes[h].state = "active" => codes[h].attempts = wrong[h] /\ wrong[h] < MaxAttempts

(* Redis holds the code that is being issued, or the only live one.          *)
RedisOf(a) ==
    /\ pc[a] = "stored" => redis \in {a, NoCode}
    /\ kind[a] = "verify" /\ pc[a] = "found" => redis \in {target[a], NoCode}
    /\ pc[a] = "judging" => hash[a] = target[a]
    /\ pc[a] = "accepting" /\ found[a] # NoCode => hash[a] = target[a]
RedisFits ==
    /\ \A h \in Requests : proofs[h] \subseteq {h, Factor}
    /\ redis = NoCode \/ Live \subseteq {redis} \/ \E a \in Requests : pc[a] = "stored"
    /\ \A a \in Requests : RedisOf(a)

SerialInv ==
    /\ Idle
    /\ ~overlapped => /\ OneUnderWay /\ OneLive
                      /\ \A a \in UnderWay : Judged(a)
                      /\ \A h \in Requests : Books(h)
    /\ ~overlapped /\ ~stray => RedisFits

Commits(a) == \/ CommitChallenge(a) \/ MarkExpired(a) \/ CommitVerified(a) \/ CommitFailure(a)
              \/ CommitUse(a)
Ends(a)  == Lose(a) \/ Refuse(a) \/ Commits(a)
Moves(a) == \/ FindReplaced(a) \/ FlushCode(a) \/ StoreAndMail(a) \/ PassExpiry(a)
            \/ CheckFactor(a) \/ FindCode(a) \/ ReadHash(a) \/ JudgeCode(a) \/ FindVerified(a)

LEMMA EndsAreEnds ==
    ASSUME NEW a \in Requests, Ends(a)
    PROVE  pc[a] # "unsent" /\ \E label \in Ended : End(a, label)
BY DEF Ends, Commits, Lose, UnderWay, Refuse, CommitChallenge, MarkExpired, CommitVerified,
       CommitFailure, CommitUse, Ended

LEMMA MovesKeep ==
    ASSUME NEW a \in Requests, Moves(a)
    PROVE  /\ pc[a] \notin Ended \cup {"unsent"}
           /\ UNCHANGED <<rows, lapsed, request, ghosts>>
           /\ \E label \in Labels : Goto(a, label)
BY DEF Moves, FindReplaced, FlushCode, StoreAndMail, PassExpiry, CheckFactor, FindCode,
       ReadHash, JudgeCode, FindVerified, Ended, Labels, rows, request, ghosts

LEMMA IdleStep ==
    ASSUME TypeOK, Idle, [Next]_vars
    PROVE  Idle'
<1> SUFFICES ASSUME NEW a \in Requests, pc'[a] \in {"unsent", "loaded", "checked"} \cup Ended
             PROVE  found'[a] = NoCode
  BY DEF Idle
<1> USE DEF TypeOK
<1>1. CASE UNCHANGED vars \/ ForgetHash \/ \E h \in Requests : Lapse(h)
  BY <1>1 DEF vars, ForgetHash, Lapse, locals, Idle
<1>2. ASSUME NEW b \in Requests, Arrive(b) PROVE found'[a] = NoCode
  BY <1>2 DEF Arrive, Goto, locals, Idle
<1>3. ASSUME NEW b \in Requests, Ends(b) PROVE found'[a] = NoCode
  <2>1. PICK label \in Ended : End(b, label)
    BY <1>3, EndsAreEnds
  <2> QED
    BY <2>1 DEF End, Goto, Idle
<1>4. ASSUME NEW b \in Requests, FindReplaced(b) \/ FindCode(b) PROVE found'[a] = NoCode
  <2>1. CASE a = b
    BY <1>4, <2>1 DEF FindReplaced, FindCode, Goto, Idle, Ended
  <2>2. CASE a # b
    BY <1>4, <2>2 DEF FindReplaced, FindCode, Goto, Idle
  <2> QED
    BY <2>1, <2>2
<1>5. ASSUME NEW b \in Requests,
             \/ FlushCode(b) \/ StoreAndMail(b) \/ PassExpiry(b) \/ CheckFactor(b)
             \/ ReadHash(b) \/ JudgeCode(b) \/ FindVerified(b)
      PROVE  found'[a] = NoCode
  BY <1>5 DEF FlushCode, StoreAndMail, PassExpiry, CheckFactor, ReadHash, JudgeCode,
       FindVerified, Goto, Idle, Ended, locals
<1> QED
  BY <1>1, <1>2, <1>3, <1>4, <1>5 DEF Next, Terminated, Ends, Commits

(* While nothing has overlapped, the others are at rest when one moves.      *)
LEMMA OthersRest ==
    ASSUME TypeOK, SerialInv, ~overlapped', NEW a \in Requests,
           Arrive(a) \/ Moves(a) \/ Ends(a)
    PROVE  /\ ~overlapped
           /\ a \in UnderWay \/ Arrive(a)
           /\ \A b \in Requests \ {a} : pc'[b] = pc[b] /\ pc[b] \in Ended \cup {"unsent"}
<1>1. CASE Arrive(a)
  BY <1>1 DEF Arrive, Goto, UnderWay, TypeOK
<1>2. CASE Moves(a) \/ Ends(a)
  <2>1. overlapped' = overlapped /\ \E label \in Labels : Goto(a, label)
    BY <1>2, MovesKeep, EndsAreEnds DEF End, ghosts, Labels
  <2>2. a \in UnderWay
    <3>1. Ends(a) => pc[a] \notin Ended \cup {"unsent"}
      BY DEF Ends, Commits, Lose, UnderWay, Refuse, CommitChallenge, MarkExpired,
             CommitVerified, CommitFailure, CommitUse, Ended
    <3> QED
      BY <1>2, <3>1, MovesKeep DEF UnderWay
  <2> QED
    BY <2>1, <2>2 DEF SerialInv, OneUnderWay, UnderWay, Goto, TypeOK
<1> QED
  BY <1>1, <1>2

LEMMA OneUnderWayStep ==
    ASSUME TypeOK, SerialInv, ~overlapped', [Next]_vars
    PROVE  ~overlapped /\ OneUnderWay'
<1>1. CASE UNCHANGED vars \/ ForgetHash \/ \E h \in Requests : Lapse(h)
  BY <1>1 DEF vars, ForgetHash, Lapse, ghosts, SerialInv, OneUnderWay, UnderWay
<1>2. ASSUME NEW a \in Requests, Arrive(a) \/ Moves(a) \/ Ends(a)
      PROVE  ~overlapped /\ OneUnderWay'
  BY <1>2, OthersRest DEF OneUnderWay, UnderWay
<1> QED
  BY <1>1, <1>2 DEF Next, Terminated, Moves, Ends, Commits

(* The newest live code is the live code, if there is one. *)
LEMMA ReplacesTheLiveCode ==
    ASSUME TypeOK, OneLive, NEW a \in Requests, FindReplaced(a)
    PROVE  Live \subseteq {found'[a]}
<1>1. CASE Live = {}
  BY <1>1
<1>2. ASSUME NEW c \in Live PROVE Live \subseteq {found'[a]}
  <2>1. Live = {c} /\ c \in Int
    BY <1>2 DEF OneLive, Live, Active, Requests
  <2>2. Newest = {c}
    BY <2>1 DEF Newest
  <2> QED
    BY <2>1, <2>2 DEF FindReplaced, Replaced, TypeOK
<1> QED
  BY <1>1, <1>2

LEMMA JudgedStep ==
    ASSUME TypeOK, Phases, Idle, OneLive, NEW a \in Requests, Arrive(a) \/ Moves(a),
           a \in UnderWay => Judged(a)
    PROVE  Judged(a)'
<1> USE DEF TypeOK, Labels
<1>1. CASE Arrive(a)
  <2>1. /\ pc'[a] = "loaded" /\ found'[a] = NoCode
        /\ mine'[a] = [code |-> codes[target'[a]], challenge |-> challenges[target'[a]]]
    BY <1>1 DEF Arrive, Goto, Idle, locals
  <2>2. UNCHANGED rows
    BY <1>1 DEF Arrive
  <2> QED
    BY <2>1, <2>2 DEF Judged, Loaded, RightCode, OwnCode, rows
<1>2. CASE Moves(a)
  <2>1. /\ a \in UnderWay
        /\ UNCHANGED <<codes, challenges, lapsed, kind, method, target, typed, mine>>
    BY <1>2, MovesKeep DEF UnderWay, rows, request
  <2>2. Judged(a) /\ Loaded(a)' /\ Live' = Live
    BY <2>1 DEF Judged, Loaded, Live, Active
  <2>3. CASE FindReplaced(a)
    <3>1. Live \subseteq {found'[a]}
      BY <2>3, ReplacesTheLiveCode
    <3>2. pc'[a] = "found" /\ kind[a] = "create"
      BY <2>3 DEF FindReplaced, Goto
    <3> QED
      BY <2>1, <2>2, <3>1, <3>2 DEF Judged, RightCode, OwnCode
  <2>4. CASE FlushCode(a) \/ StoreAndMail(a)
    <3>1. /\ pc[a] \in {"found", "flushed"} /\ pc'[a] \in {"flushed", "stored"}
          /\ found' = found
      BY <2>4 DEF FlushCode, StoreAndMail, Goto, locals
    <3> QED
      BY <2>1, <2>2, <3>1 DEF Judged, RightCode, OwnCode
  <2>5. CASE PassExpiry(a) \/ CheckFactor(a)
    <3>1. found'[a] = NoCode
      BY <2>5 DEF PassExpiry, CheckFactor, Idle, locals
    <3>2. pc'[a] \in {"checked", "failing"} \/ (pc'[a] = "accepting" /\ method[a] = "totp")
      BY <2>5 DEF PassExpiry, CheckFactor, Goto
    <3> QED
      BY <2>1, <2>2, <3>1, <3>2 DEF Judged, RightCode, OwnCode
  <2>6. CASE FindCode(a)
    <3>1. kind[a] = "verify"
      BY <2>6 DEF FindCode, Phases
    <3>2. \/ pc'[a] = "found" /\ found'[a] = target[a]
          \/ pc'[a] = "failing" /\ found'[a] = found[a]
      BY <2>6 DEF FindCode, Goto
    <3> QED
      BY <2>1, <2>2, <3>1, <3>2 DEF Judged, RightCode, OwnCode
  <2>7. CASE ReadHash(a)
    <3>1. pc[a] = "found" /\ pc'[a] = "judging" /\ kind[a] = "verify" /\ found' = found
      BY <2>7 DEF ReadHash, Goto
    <3> QED
      BY <2>1, <2>2, <3>1 DEF Judged, RightCode, OwnCode
  <2>8. CASE JudgeCode(a)
    <3>1. /\ pc[a] = "judging" /\ found' = found /\ hash' = hash
          /\ pc'[a] = IF typed[a] = hash[a] THEN "accepting" ELSE "failing"
      BY <2>8 DEF JudgeCode, Goto, locals
    <3>2. kind[a] = "verify"
      BY <3>1 DEF Phases
    <3>3. found[a] = target[a] /\ found[a] # NoCode
      BY <2>2, <3>1, <3>2, ConfirmationAssumption DEF Judged, RightCode, OwnCode
    <3> QED
      BY <2>1, <2>2, <3>1, <3>2, <3>3 DEF Judged, RightCode, OwnCode
  <2>9. CASE FindVerified(a)
    <3>1. /\ pc'[a] = "found" /\ kind[a] = "use" /\ found' = found
          /\ ~challenges[target[a]].used
      BY <2>9 DEF FindVerified, Goto, Verified, locals
    <3> QED
      BY <2>1, <2>2, <3>1 DEF Judged, RightCode, OwnCode
  <2> QED
    BY <1>2, <2>3, <2>4, <2>5, <2>6, <2>7, <2>8, <2>9 DEF Moves
<1> QED
  BY <1>1, <1>2

(* A creation leaves its own code as the only live one; nothing else adds a  *)
(* live code.                                                               *)
LEMMA LiveStep ==
    ASSUME TypeOK, SerialInv, ~overlapped', [Next]_vars
    PROVE  \/ Live' \subseteq Live
           \/ \E a \in Requests : /\ CommitChallenge(a) /\ pc[a] = "stored"
                                  /\ Live' \subseteq {a}
<1> USE DEF TypeOK, CodeRow, Live, Active
<1>1. CASE UNCHANGED rows
  BY <1>1, LapsedStep DEF rows
<1>2. ASSUME NEW a \in Requests, CommitChallenge(a)
      PROVE  Live' \subseteq Live \/ (pc[a] = "stored" /\ Live' \subseteq {a})
  <2>1. CASE method[a] # "email_otp"
    BY <1>2, <2>1, LapsedStep DEF CommitChallenge
  <2>2. CASE method[a] = "email_otp"
    <3>1. pc[a] = "stored" /\ kind[a] = "create" /\ codes' = IssuedCodes(a)
      BY <1>2, <2>2 DEF CommitChallenge
    <3>2. Judged(a)
      BY <1>2, <3>1, OthersRest DEF SerialInv, Ends, Commits, UnderWay, Ended
    <3>3. Live \subseteq {found[a]}
      BY <3>1, <3>2 DEF Judged, RightCode, OwnCode
    <3>4. lapsed \subseteq lapsed'
      BY LapsedStep
    <3>5. ASSUME NEW c \in Live', c # a PROVE FALSE
      <4>1. codes'[c].state = "active" /\ c \notin lapsed /\ c \in Requests
        BY <3>4, <3>5
      <4>2. c # found[a] /\ codes[c].state = "active"
        BY <3>1, <3>5, <4>1 DEF IssuedCodes
      <4> QED
        BY <3>3, <4>1, <4>2
    <3> QED
      BY <3>1, <3>5
  <2> QED
    BY <2>1, <2>2
<1>3. ASSUME NEW a \in Requests, MarkExpired(a) \/ CommitUse(a) PROVE Live' \subseteq Live
  BY <1>3, LapsedStep DEF MarkExpired, CommitUse
<1>4. ASSUME NEW a \in Requests, CommitVerified(a) \/ CommitFailure(a)
      PROVE  Live' \subseteq Live
  <2>1. codes' = JudgedCodes(a)
    BY <1>4 DEF CommitVerified, CommitFailure
  <2> QED
    BY <2>1, LapsedStep DEF JudgedCodes
<1> QED
  BY <1>1, <1>2, <1>3, <1>4, CommitStep

LEMMA BooksStep ==
    ASSUME TypeOK, Phases, NEW a \in Requests, Commits(a), Judged(a), NEW h \in Requests, Books(h)
    PROVE  Books(h)'
<1> USE DEF TypeOK, CodeRow, ChallengeRow
<1>0. challenges[h] \in ChallengeRow /\ codes[h] \in CodeRow /\ NoCode \notin Requests
      /\ MaxAttempts \in Nat \ {0}
  BY ConfirmationAssumption
<1>1. CASE CommitChallenge(a)
  <2>1. /\ challenges'[h].used = challenges[h].used
        /\ challenges'[h].failures = challenges[h].failures
        /\ UNCHANGED <<uses, refusals, wrong>>
    BY <1>1 DEF CommitChallenge
  <2>2. codes[a].state = "absent"
    BY <1>1 DEF CommitChallenge, Phases
  <2>3. /\ codes'[h].state = "absent" => codes[h].state = "absent"
        /\ codes'[h].state = "active" =>
              codes'[h] = codes[h] \/ (h = a /\ codes'[h].attempts = 0)
    BY <1>0, <1>1 DEF CommitChallenge, IssuedCodes
  <2> QED
    BY <1>0, <2>1, <2>2, <2>3 DEF Books
<1>2. CASE MarkExpired(a)
  <2>1. /\ challenges'[h].used = challenges[h].used
        /\ challenges'[h].failures = challenges[h].failures
        /\ UNCHANGED <<codes, uses, refusals, wrong>>
    BY <1>0, <1>2 DEF MarkExpired, ExpiredRow
  <2> QED
    BY <2>1 DEF Books
<1>3. CASE CommitUse(a)
  <2>1. /\ UNCHANGED <<codes, refusals, wrong>>
        /\ challenges'[h].failures = challenges[h].failures
        /\ challenges[h].used => challenges'[h].used
    BY <1>0, <1>3 DEF CommitUse, UsedRow
  <2>2. CASE h = target[a]
    <3>1. uses[h] = 0
      BY <1>3, <2>2 DEF CommitUse, Judged, Books
    <3>2. uses'[h] = 1 /\ challenges'[h].used
      BY <1>3, <2>2, <3>1 DEF CommitUse, Counted, UsedRow
    <3> QED
      BY <2>1, <3>2 DEF Books
  <2>3. CASE h # target[a]
    BY <1>3, <2>1, <2>3 DEF CommitUse, Counted, Books
  <2> QED
    BY <2>2, <2>3
<1>4. CASE CommitVerified(a)
  <2>1. /\ challenges'[h].used = challenges[h].used
        /\ challenges'[h].failures = challenges[h].failures
        /\ UNCHANGED <<uses, refusals, wrong>>
    BY <1>0, <1>4 DEF CommitVerified, VerifiedRow
  <2>2. h = found[a] => codes[h].state # "absent" /\ codes'[h].state = "consumed"
    BY <1>0, <1>4 DEF CommitVerified, JudgedCodes, Consumes, Judged, RightCode, OwnCode, Phases
  <2>3. h # found[a] => codes'[h] = codes[h]
    BY <1>4 DEF CommitVerified, JudgedCodes
  <2> QED
    BY <2>1, <2>2, <2>3 DEF Books
<1>5. CASE CommitFailure(a)
  <2>1. challenges'[h].used = challenges[h].used /\ uses' = uses
    BY <1>0, <1>5 DEF CommitFailure, FailureCounted
  <2>2. kind[a] = "verify" /\ Loaded(a) /\ found[a] \in {NoCode, target[a]}
    BY <1>5 DEF CommitFailure, Phases, Judged, RightCode, OwnCode
  <2>3. challenges'[h].failures = refusals'[h]
    <3>1. CASE h = target[a]
      <4>1. challenges'[h].failures = challenges[h].failures + 1
        BY <1>0, <1>5, <2>2, <3>1 DEF CommitFailure, FailureCounted, Loaded
      <4>2. refusals'[h] = refusals[h] + 1
        BY <1>5, <3>1 DEF CommitFailure, Counted
      <4> QED
        BY <4>1, <4>2 DEF Books
    <3>2. CASE h # target[a]
      BY <1>5, <3>2 DEF CommitFailure, Counted, Books
    <3> QED
      BY <3>1, <3>2
  <2>4. CASE h # found[a]
    <3>1. codes'[h] = codes[h]
      BY <1>5, <2>4 DEF CommitFailure, JudgedCodes
    <3>2. wrong'[h] = wrong[h]
      BY <1>5, <2>2, <2>4 DEF CommitFailure, Counted
    <3> QED
      BY <2>1, <2>3, <3>1, <3>2 DEF Books
  <2>5. CASE h = found[a]
    <3>1. h = target[a] /\ codes[h].state # "absent"
      BY <1>0, <2>2, <2>5 DEF Phases
    <3>2. Attempts(a) = codes[h].attempts + 1
      BY <2>2, <3>1 DEF Loaded, Attempts
    <3>3. codes'[h] = [state    |-> IF Consumes(a) THEN "consumed" ELSE codes[h].state,
                       attempts |-> Attempts(a)]
      BY <1>5, <2>5 DEF CommitFailure, JudgedCodes
    <3>4. wrong'[h] = wrong[h] + 1
      BY <1>0, <1>5, <2>5, <3>1 DEF CommitFailure, Counted
    <3>5. codes'[h].state = "active" =>
             codes[h].state = "active" /\ ~(Attempts(a) >= MaxAttempts)
      BY <3>3 DEF Consumes, OutOfAttempts
    <3>6. codes'[h].state # "absent" /\ codes'[h].attempts = Attempts(a)
      BY <3>1, <3>3
    <3>7. codes'[h].state = "active" =>
             codes'[h].attempts = wrong'[h] /\ wrong'[h] < MaxAttempts
      BY <1>0, <3>2, <3>4, <3>5, <3>6 DEF Books
    <3> QED
      BY <2>1, <2>3, <3>6, <3>7 DEF Books
  <2> QED
    BY <2>4, <2>5
<1> QED
  BY <1>1, <1>2, <1>3, <1>4, <1>5 DEF Commits

(* The part of the invariant that does not speak of Redis. *)
LEMMA SerialRowsStep ==
    ASSUME TypeOK, Phases, SerialInv, ~overlapped', [Next]_vars
    PROVE  /\ OneUnderWay' /\ OneLive'
           /\ \A a \in UnderWay' : Judged(a)'
           /\ \A h \in Requests : Books(h)'
<1>1. ~overlapped /\ OneUnderWay'
  BY OneUnderWayStep
<1>2. OneLive'
  BY <1>1, LiveStep DEF SerialInv, OneLive
<1>3. CASE UNCHANGED vars \/ ForgetHash \/ \E h \in Requests : Lapse(h)
  <2>1. /\ UNCHANGED <<rows, request, pc, locals, ghosts>>
        /\ Live' \subseteq Live
    BY <1>3 DEF vars, ForgetHash, Lapse, Live, Active, rows
  <2>2. \A a \in UnderWay' : Judged(a)'
    BY <1>1, <2>1 DEF SerialInv, UnderWay, Judged, Loaded, RightCode, OwnCode, rows, request, locals
  <2>3. \A h \in Requests : Books(h)'
    BY <1>1, <2>1 DEF SerialInv, Books, rows, ghosts
  <2> QED
    BY <1>1, <1>2, <2>2, <2>3
<1>4. ASSUME NEW a \in Requests, Arrive(a) \/ Moves(a) \/ Ends(a)
      PROVE  \A b \in UnderWay' : Judged(b)'
  <2>1. UnderWay' \subseteq {a}
    BY <1>4, OthersRest DEF UnderWay
  <2>2. CASE Arrive(a) \/ Moves(a)
    BY <1>1, <2>1, <2>2, JudgedStep DEF SerialInv
  <2>3. CASE Ends(a)
    <3>1. pc'[a] \in Ended
      BY <2>3, EndsAreEnds DEF End, Goto, TypeOK
    <3> QED
      BY <2>1, <3>1 DEF UnderWay
  <2> QED
    BY <1>4, <2>2, <2>3
<1>5. ASSUME NEW a \in Requests, Commits(a) PROVE \A h \in Requests : Books(h)'
  <2>1. Judged(a)
    BY <1>1, <1>5, OthersRest DEF SerialInv, Ends, Commits, Arrive, CommitChallenge,
         MarkExpired, CommitVerified, CommitFailure, CommitUse
  <2> QED
    BY <1>1, <1>5, <2>1, BooksStep DEF SerialInv
<1>6. ASSUME NEW a \in Requests, Arrive(a) \/ Moves(a) \/ Lose(a) \/ Refuse(a)
      PROVE  \A h \in Requests : Books(h)'
  <2>1. UNCHANGED <<rows, uses, refusals, wrong>>
    BY <1>6, MovesKeep DEF Arrive, Lose, Refuse, ghosts
  <2> QED
    BY <1>1, <2>1 DEF SerialInv, Books, rows
<1> QED
  BY <1>1, <1>2, <1>3, <1>4, <1>5, <1>6 DEF Next, Terminated, Moves, Ends, Commits

LEMMA RedisOfStep ==
    ASSUME TypeOK, Phases, SerialInv, ~overlapped, RedisFits,
           NEW a \in Requests, Arrive(a) \/ Moves(a)
    PROVE  RedisOf(a)'
<1> USE DEF TypeOK
<1>1. CASE Arrive(a)
  BY <1>1 DEF Arrive, Goto, RedisOf
<1>2. CASE Moves(a)
  <2>0. a \in UnderWay /\ \A b \in Requests : pc[b] = "stored" => b = a
    BY <1>2, MovesKeep DEF SerialInv, OneUnderWay, UnderWay, Ended
  <2>1. Judged(a) /\ RedisOf(a) /\ UNCHANGED <<kind, target>>
    BY <1>2, <2>0, MovesKeep DEF SerialInv, RedisFits, request
  <2>2. CASE FindReplaced(a) \/ FlushCode(a) \/ StoreAndMail(a)
    <3>1. \/ pc'[a] = "found" /\ kind[a] = "create"
          \/ pc'[a] = "flushed"
          \/ pc'[a] = "stored" /\ redis' = a
      BY <2>2 DEF FindReplaced, FlushCode, StoreAndMail, Goto
    <3> QED
      BY <2>1, <3>1 DEF RedisOf
  <2>3. CASE PassExpiry(a) \/ CheckFactor(a)
    <3>1. /\ pc'[a] \in {"checked", "accepting", "failing"}
          /\ found'[a] = NoCode
      BY <2>3 DEF PassExpiry, CheckFactor, Goto, locals, SerialInv, Idle
    <3> QED
      BY <3>1 DEF RedisOf
  <2>4. CASE FindCode(a)
    <3>1. pc'[a] = "failing" \/ (pc'[a] = "found" /\ target[a] \in Live)
      BY <2>4 DEF FindCode, Goto
    <3>2. redis' = redis /\ pc[a] # "stored"
      BY <2>4 DEF FindCode
    <3>3. redis = NoCode \/ Live \subseteq {redis}
      BY <2>0, <3>2 DEF RedisFits
    <3> QED
      BY <2>1, <3>1, <3>2, <3>3 DEF RedisOf
  <2>5. CASE ReadHash(a)
    <3>1. /\ pc[a] = "found" /\ kind[a] = "verify" /\ pc'[a] = "judging"
          /\ hash'[a] = IF redis = NoCode THEN found[a] ELSE redis
      BY <2>5 DEF ReadHash, Goto
    <3>2. found[a] = target[a] /\ redis \in {target[a], NoCode}
      BY <2>1, <3>1 DEF RedisOf, Judged, RightCode, OwnCode
    <3> QED
      BY <2>1, <3>1, <3>2 DEF RedisOf
  <2>6. CASE JudgeCode(a)
    <3>1. pc[a] = "judging" /\ pc'[a] \in {"accepting", "failing"} /\ hash' = hash
      BY <2>6 DEF JudgeCode, Goto, locals
    <3> QED
      BY <2>1, <3>1 DEF RedisOf
  <2>7. CASE FindVerified(a)
    <3>1. pc'[a] = "found" /\ kind[a] = "use"
      BY <2>7 DEF FindVerified, Goto
    <3> QED
      BY <2>1, <3>1 DEF RedisOf
  <2> QED
    BY <1>2, <2>2, <2>3, <2>4, <2>5, <2>6, <2>7 DEF Moves
<1> QED
  BY <1>1, <1>2

(* What Redis holds, and what the codes were typed for, without a code that  *)
(* was stored and then rolled back.                                         *)
LEMMA RedisStep ==
    ASSUME TypeOK, Phases, SerialInv, ~overlapped', ~stray', [Next]_vars
    PROVE  RedisFits'
<1> USE DEF TypeOK
<1>0. ~overlapped
  BY OneUnderWayStep
<1>1. CASE UNCHANGED vars \/ ForgetHash \/ \E h \in Requests : Lapse(h)
  <2>1. /\ UNCHANGED <<rows, request, pc, locals, ghosts>>
        /\ Live' \subseteq Live
        /\ redis' \in {redis, NoCode}
    BY <1>1 DEF vars, ForgetHash, Lapse, Live, Active, rows
  <2>2. RedisFits
    BY <1>0, <2>1 DEF SerialInv, ghosts
  <2>3. \A a \in Requests : RedisOf(a)'
    BY <2>1, <2>2 DEF RedisFits, RedisOf, request, locals
  <2> QED
    BY <2>1, <2>2, <2>3 DEF RedisFits, ghosts
<1>2. ASSUME NEW a \in Requests, Arrive(a) \/ Moves(a) PROVE RedisFits'
  <2>1. RedisFits
    BY <1>0, <1>2, MovesKeep DEF SerialInv, Arrive, ghosts
  <2>2. Live' = Live /\ proofs' = proofs
    BY <1>2, MovesKeep DEF Arrive, Live, Active, rows, ghosts
  <2>3. \A b \in Requests : RedisOf(b)'
    <3>1. \A b \in Requests \ {a} : pc'[b] \in Ended \cup {"unsent"}
      BY <1>2, OthersRest
    <3> QED
      BY <1>0, <1>2, <2>1, <3>1, RedisOfStep DEF RedisOf, Ended
  <2>4. redis' = NoCode \/ Live' \subseteq {redis'} \/ \E b \in Requests : pc'[b] = "stored"
    <3>1. CASE StoreAndMail(a)
      BY <3>1 DEF StoreAndMail, Goto
    <3>2. CASE ~StoreAndMail(a)
      <4>1. redis' \in {redis, NoCode}
        BY <1>2, <3>2 DEF Arrive, Moves, FindReplaced, FlushCode, PassExpiry, CheckFactor,
             FindCode, ReadHash, JudgeCode, FindVerified
      <4>2. \A b \in Requests : pc[b] # "stored"
        <5>1. \A b \in Requests \ {a} : pc[b] \in Ended \cup {"unsent"}
          BY <1>2, OthersRest
        <5>2. pc[a] # "stored"
          BY <1>2, <3>2 DEF Arrive, Moves, FindReplaced, FlushCode, PassExpiry, CheckFactor,
             FindCode, ReadHash, JudgeCode, FindVerified
        <5> QED
          BY <5>1, <5>2 DEF Ended
      <4> QED
        BY <2>1, <2>2, <4>1, <4>2 DEF RedisFits
    <3> QED
      BY <3>1, <3>2
  <2> QED
    BY <2>1, <2>2, <2>3, <2>4 DEF RedisFits
<1>3. ASSUME NEW a \in Requests, Ends(a) PROVE RedisFits'
  <2>1. ~stray /\ redis' = redis /\ ~(Lose(a) /\ pc[a] = "stored")
    BY <1>3 DEF Ends, Commits, Lose, Refuse, CommitChallenge, MarkExpired, CommitVerified,
         CommitFailure, CommitUse
  <2>2. RedisFits /\ a \in UnderWay
    BY <1>0, <1>3, <2>1, OthersRest DEF SerialInv, Ends, Commits, Arrive, Lose, Refuse,
         CommitChallenge, MarkExpired, CommitVerified, CommitFailure, CommitUse
  <2>3. \A b \in Requests : pc'[b] \in Ended \cup {"unsent"}
    <3>1. pc'[a] \in Ended
      BY <1>3, EndsAreEnds DEF End, Goto
    <3> QED
      BY <1>3, <3>1, OthersRest
  <2>4. \A b \in Requests : RedisOf(b)'
    BY <2>3 DEF RedisOf, Ended
  <2>5. redis' = NoCode \/ Live' \subseteq {redis'}
    <3>1. CASE pc[a] = "stored"
      <4>1. CommitChallenge(a)
        BY <1>3, <2>1, <3>1 DEF Ends, Commits, Refuse, MarkExpired, CommitVerified,
             CommitFailure, CommitUse
      <4>2. redis' \in {a, NoCode}
        BY <2>1, <2>2, <3>1 DEF RedisFits, RedisOf
      <4>3. Live \subseteq {found[a]} /\ method[a] = "email_otp"
        BY <1>0, <2>2, <3>1, <4>1 DEF SerialInv, Judged, RightCode, OwnCode, CommitChallenge
      <4>4. Live' \subseteq {a}
        BY <4>1, <4>3, LapsedStep DEF CommitChallenge, IssuedCodes, Live, Active
      <4> QED
        BY <4>2, <4>4
    <3>2. CASE pc[a] # "stored"
      <4>1. \A b \in Requests : pc[b] # "stored"
        BY <1>3, <3>2, OthersRest DEF Ended
      <4>2. Live' \subseteq Live
        <5>1. \A b \in Requests : ~(CommitChallenge(b) /\ pc[b] = "stored")
          BY <4>1
        <5> QED
          BY <5>1, LiveStep
      <4> QED
        BY <2>1, <2>2, <4>1, <4>2 DEF RedisFits
    <3> QED
      BY <3>1, <3>2
  <2>6. \A h \in Requests : proofs'[h] \subseteq {h, Factor}
    <3>1. CASE CommitVerified(a)
      <4>1. Judged(a) /\ RedisOf(a) /\ pc[a] = "accepting" /\ kind[a] = "verify"
        BY <1>0, <2>2, <3>1 DEF SerialInv, RedisFits, CommitVerified, Phases
      <4>2. method[a] = "totp" \/ typed[a] = target[a]
        BY <4>1 DEF Judged, RightCode, OwnCode, RedisOf
      <4> QED
        BY <2>2, <3>1, <4>2 DEF CommitVerified, RedisFits
    <3>2. CASE ~CommitVerified(a)
      <4>1. proofs' = proofs
        BY <1>3, <3>2 DEF Ends, Commits, Lose, Refuse, CommitChallenge, MarkExpired,
             CommitFailure, CommitUse
      <4> QED
        BY <2>2, <4>1 DEF RedisFits
    <3> QED
      BY <3>1, <3>2
  <2> QED
    BY <2>4, <2>5, <2>6 DEF RedisFits
<1> QED
  BY <1>1, <1>2, <1>3 DEF Next, Terminated, Moves, Ends, Commits

LEMMA InitSerial == Init => SerialInv
<1> SUFFICES ASSUME Init PROVE SerialInv
  OBVIOUS
<1>1. Live = {} /\ UnderWay = {}
  BY DEF Init, Live, Active, UnderWay, NoRow
<1>2. \A h \in Requests : Books(h)
  BY DEF Init, Books, NoRow
<1>3. RedisFits
  BY DEF Init, RedisFits, RedisOf
<1> QED
  BY <1>1, <1>2, <1>3 DEF Init, SerialInv, Idle, OneUnderWay, OneLive

LEMMA SerialAlways == Spec => []SerialInv
<1>1. TypeOK /\ Phases /\ SerialInv /\ [Next]_vars => SerialInv'
  BY IdleStep, SerialRowsStep, RedisStep DEF SerialInv
<1>2. TypeOK /\ Phases /\ [Next]_vars => Phases'
  BY PhasesStep
<1> QED
  BY <1>1, <1>2, InitPhases, InitSerial, ConfirmationTypeCorrect, PTL DEF Spec

(* Between requests that do not overlap a challenge pays for one operation,  *)
(* however often it is verified again.                                      *)
THEOREM AChallengeIsUsedOnce == Spec => []UsedOnce
<1>1. SerialInv => UsedOnce
  BY DEF SerialInv, Books, UsedOnce
<1> QED
  BY <1>1, SerialAlways, PTL

(* Between requests that do not overlap, and as long as no code was stored   *)
(* and rolled back, the hash in Redis is that of the challenge's own code.   *)
THEOREM ACodeFitsItsChallenge == Spec => []CodesFitTheirChallenge
<1>1. SerialInv => CodesFitTheirChallenge
  BY DEF SerialInv, RedisFits, CodesFitTheirChallenge
<1> QED
  BY <1>1, SerialAlways, PTL

(* Between requests that do not overlap no refusal is missed, and a code     *)
(* does not survive its last attempt.                                       *)
THEOREM EveryFailureCounts == Spec => []FailuresAreCounted
<1>1. SerialInv => FailuresAreCounted
  BY DEF SerialInv, Books, FailuresAreCounted
<1> QED
  BY <1>1, SerialAlways, PTL

-----------------------------------------------------------------------------
(* Which overlap of requests breaks what.  Most requests may overlap; each    *)
(* theorem names the only race that its promise does not survive.           *)

LEMMA PhasesAlways == Spec => [](TypeOK /\ Phases)
<1>1. TypeOK /\ Phases /\ [Next]_vars => Phases'
  BY PhasesStep
<1> QED
  BY <1>1, InitPhases, ConfirmationTypeCorrect, PTL DEF Spec

(* A request's own variables change by its own steps. *)
LEMMA LocalStep ==
    ASSUME TypeOK, [Next]_vars, NEW a \in Requests
    PROVE  \/ Arrive(a) \/ Moves(a) \/ Ends(a)
           \/ /\ pc'[a] = pc[a] /\ mine'[a] = mine[a] /\ typed'[a] = typed[a]
              /\ target'[a] = target[a] /\ method'[a] = method[a]
              /\ found'[a] = found[a] /\ hash'[a] = hash[a]
<1> DEFINE Same == /\ pc'[a] = pc[a] /\ mine'[a] = mine[a] /\ typed'[a] = typed[a]
                   /\ target'[a] = target[a] /\ method'[a] = method[a]
                   /\ found'[a] = found[a] /\ hash'[a] = hash[a]
<1>1. CASE UNCHANGED vars \/ ForgetHash \/ \E h \in Requests : Lapse(h)
  BY <1>1 DEF vars, ForgetHash, Lapse, request, locals
<1>2. ASSUME NEW b \in Requests, b # a, Arrive(b) PROVE Same
  BY <1>2 DEF Arrive, Goto, TypeOK, locals
<1>3. ASSUME NEW b \in Requests, b # a, Moves(b) PROVE Same
  BY <1>3 DEF Moves, FindReplaced, FlushCode, StoreAndMail, PassExpiry, CheckFactor, FindCode,
       ReadHash, JudgeCode, FindVerified, Goto, TypeOK, request, locals
<1>4. ASSUME NEW b \in Requests, b # a, Ends(b) PROVE Same
  <2>1. PICK label \in Ended : End(b, label)
    BY <1>4, EndsAreEnds
  <2> QED
    BY <1>4, <2>1 DEF End, Goto, TypeOK
<1> QED
  BY <1>1, <1>2, <1>3, <1>4 DEF Next, Terminated, Moves, Ends, Commits

(* A use that has found its challenge verified and will mark it used. *)
Using(a) == kind[a] = "use" /\ pc[a] = "found"

(* No two uses have found the same challenge. *)
UsesApart == \A a, b \in Requests : Using(a) /\ Using(b) /\ target[a] = target[b] => a = b

(* A challenge is used at most once (require_verified()). *)
OneUseEach == \A h \in Requests : uses[h] <= 1

UseMarks ==
    /\ \A h \in Requests : uses[h] <= 1 /\ (uses[h] > 0 => challenges[h].used)
    /\ \A a \in Requests : Using(a) => ~challenges[target[a]].used

LEMMA UsedStep ==
    ASSUME TypeOK, [Next]_vars, NEW h \in Requests
    PROVE  \/ challenges'[h].used = challenges[h].used
           \/ \E a \in Requests : /\ CommitUse(a) /\ target[a] = h
                                  /\ challenges'[h].used
<1> USE DEF TypeOK
<1>0. challenges[h] \in ChallengeRow
  OBVIOUS
<1>1. CASE UNCHANGED rows
  BY <1>1 DEF rows
<1>2. ASSUME NEW a \in Requests, CommitUse(a)
      PROVE  \/ challenges'[h].used = challenges[h].used
             \/ target[a] = h /\ challenges'[h].used
  <2>1. CASE target[a] = h
    BY <1>0, <1>2, <2>1 DEF CommitUse, UsedRow, ChallengeRow
  <2>2. CASE target[a] # h
    BY <1>2, <2>2 DEF CommitUse
  <2> QED
    BY <2>1, <2>2
<1>3. ASSUME NEW a \in Requests, CommitChallenge(a) PROVE challenges'[h].used = challenges[h].used
  BY <1>3 DEF CommitChallenge
<1>4. ASSUME NEW a \in Requests, MarkExpired(a) PROVE challenges'[h].used = challenges[h].used
  BY <1>0, <1>4 DEF MarkExpired, ExpiredRow, ChallengeRow
<1>5. ASSUME NEW a \in Requests, CommitVerified(a) PROVE challenges'[h].used = challenges[h].used
  BY <1>0, <1>5 DEF CommitVerified, VerifiedRow, ChallengeRow
<1>6. ASSUME NEW a \in Requests, CommitFailure(a) PROVE challenges'[h].used = challenges[h].used
  BY <1>0, <1>6 DEF CommitFailure, FailureCounted, ChallengeRow
<1> QED
  BY <1>1, <1>2, <1>3, <1>4, <1>5, <1>6, CommitStep

LEMMA UsingStep ==
    ASSUME TypeOK, Phases, [Next]_vars, NEW a \in Requests, Using(a)'
    PROVE  /\ target'[a] = target[a]
           /\ \/ Using(a) /\ pc'[a] = "found"
              \/ UNCHANGED challenges /\ ~challenges[target[a]].used
<1>1. pc'[a] = "found" /\ kind'[a] = "use"
  BY DEF Using
<1>2. CASE Arrive(a) \/ Ends(a)
  BY <1>1, <1>2, EndsAreEnds DEF Arrive, End, Goto, TypeOK, Ended
<1>3. CASE Moves(a)
  <2>1. kind[a] = "use" /\ target'[a] = target[a] /\ challenges' = challenges
    BY <1>1, <1>3, MovesKeep DEF request, rows
  <2>2. FindVerified(a)
    BY <1>1, <1>3, <2>1 DEF Moves, FindReplaced, FlushCode, StoreAndMail, PassExpiry,
         CheckFactor, FindCode, ReadHash, JudgeCode, Goto, TypeOK, Phases
  <2> QED
    BY <2>1, <2>2 DEF FindVerified, Verified
<1>4. CASE pc'[a] = pc[a] /\ target'[a] = target[a]
  BY <1>1, <1>4, RequestStep DEF Using
<1> QED
  BY <1>2, <1>3, <1>4, LocalStep

LEMMA UseMarksStep ==
    ASSUME TypeOK, Phases, UseMarks, UsesApart, [Next]_vars
    PROVE  UseMarks'
<1>1. ASSUME NEW h \in Requests PROVE uses'[h] <= 1 /\ (uses'[h] > 0 => challenges'[h].used)
  <2>1. CASE uses'[h] = uses[h]
    BY <2>1, UsedStep DEF UseMarks
  <2>2. CASE uses'[h] # uses[h]
    <3>1. PICK a \in Requests : CommitUse(a) /\ target[a] = h
      BY <2>2, UsesStep
    <3>2. ~challenges[h].used
      BY <3>1 DEF CommitUse, UseMarks, Using
    <3>3. uses[h] = 0
      BY <3>2 DEF UseMarks, TypeOK
    <3> QED
      BY <3>1, <3>3 DEF CommitUse, Counted, UsedRow, TypeOK, ChallengeRow
  <2> QED
    BY <2>1, <2>2
<1>2. ASSUME NEW a \in Requests, Using(a)' PROVE ~challenges'[target'[a]].used
  <2>1. target'[a] = target[a] /\ target[a] \in Requests
    BY <1>2, UsingStep DEF TypeOK
  <2>2. CASE Using(a) /\ pc'[a] = "found"
    <3>1. ~challenges[target[a]].used
      BY <2>2 DEF UseMarks
    <3>2. ASSUME NEW b \in Requests, CommitUse(b), target[b] = target[a] PROVE FALSE
      <4>1. b = a
        BY <2>2, <3>2 DEF UsesApart, Using, CommitUse
      <4> QED
        BY <2>2, <3>2, <4>1 DEF CommitUse, End, Goto, TypeOK
    <3> QED
      BY <2>1, <3>1, <3>2, UsedStep
  <2>3. CASE UNCHANGED challenges /\ ~challenges[target[a]].used
    BY <2>1, <2>3
  <2> QED
    BY <1>2, <2>2, <2>3, UsingStep
<1> QED
  BY <1>1, <1>2 DEF UseMarks

(* Whatever else overlaps, a challenge pays for one operation, unless two     *)
(* uses find it verified before either marks it used.                       *)
THEOREM OnlyRacingUsesUseTwice == Spec /\ []UsesApart => []OneUseEach
<1>1. Init => UseMarks
  BY DEF Init, UseMarks, Using, NoRow
<1>2. TypeOK /\ Phases /\ UseMarks /\ UsesApart /\ [Next]_vars => UseMarks'
  BY UseMarksStep
<1>3. UseMarks => OneUseEach
  BY DEF UseMarks, OneUseEach
<1> QED
  BY <1>1, <1>2, <1>3, PhasesAlways, PTL DEF Spec

-----------------------------------------------------------------------------
(* What a request has selected, however others interleave. *)
OwnCodes == Idle /\ \A a \in Requests : OwnCode(a)

LEMMA OwnCodeStep ==
    ASSUME TypeOK, Phases, Idle, [Next]_vars, NEW a \in Requests, OwnCode(a)
    PROVE  OwnCode(a)'
<1> USE DEF TypeOK, Labels
<1>0. kind' = kind
  BY RequestStep
<1>1. CASE Arrive(a)
  BY <1>1 DEF Arrive, Goto, Idle, locals, OwnCode
<1>2. CASE Ends(a)
  <2>1. found'[a] = NoCode /\ pc'[a] \in Ended
    BY <1>2, EndsAreEnds DEF End, Goto
  <2> QED
    BY <2>1 DEF OwnCode, Ended
<1>3. CASE Moves(a)
  <2>1. UNCHANGED <<kind, method, target, typed, mine>>
    BY <1>3, MovesKeep DEF request
  <2>2. CASE FindReplaced(a) \/ FlushCode(a) \/ StoreAndMail(a)
    BY <2>1, <2>2 DEF FindReplaced, FlushCode, StoreAndMail, Goto, locals, OwnCode
  <2>3. CASE PassExpiry(a) \/ CheckFactor(a)
    BY <2>1, <2>3 DEF PassExpiry, CheckFactor, Goto, Idle, locals, OwnCode
  <2>4. CASE FindCode(a)
    BY <2>1, <2>4 DEF FindCode, Goto, OwnCode
  <2>5. CASE ReadHash(a)
    BY <2>1, <2>5 DEF ReadHash, Goto, OwnCode
  <2>6. CASE JudgeCode(a)
    <3>1. found[a] = target[a] /\ found[a] # NoCode
      BY <2>6, ConfirmationAssumption DEF JudgeCode, Phases, OwnCode
    <3> QED
      BY <2>1, <2>6, <3>1 DEF JudgeCode, Goto, locals, OwnCode
  <2>7. CASE FindVerified(a)
    BY <2>1, <2>7 DEF FindVerified, Goto, locals, OwnCode
  <2> QED
    BY <1>3, <2>2, <2>3, <2>4, <2>5, <2>6, <2>7 DEF Moves
<1>4. CASE /\ pc'[a] = pc[a] /\ typed'[a] = typed[a] /\ target'[a] = target[a]
           /\ method'[a] = method[a] /\ found'[a] = found[a] /\ hash'[a] = hash[a]
  BY <1>0, <1>4 DEF OwnCode
<1> QED
  BY <1>1, <1>2, <1>3, <1>4, LocalStep

LEMMA OwnCodesAlways == Spec => [](TypeOK /\ Phases /\ OwnCodes)
<1>1. Init => OwnCodes
  BY DEF Init, OwnCodes, Idle, OwnCode
<1>2. TypeOK /\ Phases /\ OwnCodes /\ [Next]_vars => OwnCodes'
  BY IdleStep, OwnCodeStep DEF OwnCodes
<1> QED
  BY <1>1, <1>2, PhasesAlways, PTL DEF Spec

(* A verification counts on from what its session loaded when it arrived. *)
Verifying(a) == kind[a] = "verify" /\ a \in UnderWay

(* No two verifications of the same challenge are under way. *)
VerificationsApart ==
    \A a, b \in Requests : Verifying(a) /\ Verifying(b) /\ target[a] = target[b] => a = b

(* Every wrong guess that was answered is stored, and a code ends with the    *)
(* last one allowed (verify_user_otp(), verify_challenge()).                *)
NoFailureMissed ==
    \A h \in Requests : /\ challenges[h].failures = refusals[h]
                        /\ codes[h].state = "active" => wrong[h] < MaxAttempts

Tally(h) ==
    /\ challenges[h].failures = refusals[h]
    /\ codes[h].state = "absent" => wrong[h] = 0
    /\ codes[h].state = "active" => codes[h].attempts = wrong[h] /\ wrong[h] < MaxAttempts

Tallies ==
    /\ \A h \in Requests : Tally(h)
    /\ \A a \in Requests : Verifying(a) =>
          /\ mine[a].challenge.failures = challenges[target[a]].failures
          /\ mine[a].code.attempts = codes[target[a]].attempts

(* The only steps that change what is counted are verifications; a creation   *)
(* consumes a code, or adds its own.                                        *)
LEMMA CountersStep ==
    ASSUME TypeOK, Phases, OwnCodes, [Next]_vars, NEW h \in Requests
    PROVE  \/ /\ challenges'[h].failures = challenges[h].failures
              /\ refusals'[h] = refusals[h] /\ wrong'[h] = wrong[h]
              /\ \/ codes'[h] = codes[h]
                 \/ /\ codes[h].state # "absent" /\ codes'[h].state = "consumed"
                    /\ codes'[h].attempts = codes[h].attempts
                 \/ /\ h \notin Created /\ codes[h].state = "absent"
                    /\ codes'[h].attempts = 0
           \/ \E a \in Requests : /\ Verifying(a) /\ target[a] = h
                                  /\ CommitVerified(a) \/ CommitFailure(a)
<1> USE DEF TypeOK
<1>0. challenges[h] \in ChallengeRow /\ codes[h] \in CodeRow
  OBVIOUS
<1>1. CASE UNCHANGED <<rows, refusals, wrong>>
  BY <1>1 DEF rows
<1>2. ASSUME NEW a \in Requests, CommitChallenge(a)
      PROVE  /\ challenges'[h].failures = challenges[h].failures
             /\ refusals'[h] = refusals[h] /\ wrong'[h] = wrong[h]
             /\ \/ codes'[h] = codes[h]
                \/ /\ codes[h].state # "absent" /\ codes'[h].state = "consumed"
                   /\ codes'[h].attempts = codes[h].attempts
                \/ /\ h \notin Created /\ codes[h].state = "absent"
                   /\ codes'[h].attempts = 0
  <2>1. /\ challenges'[h].failures = challenges[h].failures
        /\ refusals'[h] = refusals[h] /\ wrong'[h] = wrong[h]
    BY <1>2 DEF CommitChallenge
  <2>2. CASE h = a /\ codes' # codes
    <3>1. h \notin Created /\ codes[h].state = "absent"
      BY <1>2, <2>2 DEF CommitChallenge, Phases, Created
    <3>2. codes'[h].attempts = 0
      BY <1>2, <2>2 DEF CommitChallenge, IssuedCodes
    <3> QED
      BY <2>1, <3>1, <3>2
  <2>3. CASE h = found[a] /\ h # a /\ codes' # codes
    <3>1. codes[h].state # "absent"
      BY <2>3, ConfirmationAssumption DEF Phases
    <3>2. codes'[h] = [codes[h] EXCEPT !.state = "consumed"]
      BY <1>2, <2>3 DEF CommitChallenge, IssuedCodes
    <3> QED
      BY <1>0, <2>1, <3>1, <3>2 DEF CodeRow
  <2>4. CASE codes' = codes \/ (h # found[a] /\ h # a)
    BY <1>2, <2>1, <2>4 DEF CommitChallenge, IssuedCodes
  <2> QED
    BY <2>2, <2>3, <2>4
<1>3. ASSUME NEW a \in Requests, MarkExpired(a)
      PROVE  /\ challenges'[h].failures = challenges[h].failures
             /\ UNCHANGED <<codes, refusals, wrong>>
  BY <1>0, <1>3 DEF MarkExpired, ExpiredRow, ChallengeRow
<1>4. ASSUME NEW a \in Requests, CommitUse(a)
      PROVE  /\ challenges'[h].failures = challenges[h].failures
             /\ UNCHANGED <<codes, refusals, wrong>>
  BY <1>0, <1>4 DEF CommitUse, UsedRow, ChallengeRow
<1>5. ASSUME NEW a \in Requests, CommitVerified(a) \/ CommitFailure(a), target[a] # h
      PROVE  /\ challenges'[h] = challenges[h] /\ codes'[h] = codes[h]
             /\ refusals'[h] = refusals[h] /\ wrong'[h] = wrong[h]
  <2>1. kind[a] = "verify" /\ found[a] \in {NoCode, target[a]}
    BY <1>5 DEF CommitVerified, CommitFailure, Phases, OwnCodes, OwnCode
  <2>2. codes'[h] = codes[h]
    BY <1>5, <2>1, ConfirmationAssumption DEF CommitVerified, CommitFailure, JudgedCodes
  <2> QED
    BY <1>5, <2>2 DEF CommitVerified, CommitFailure, Counted
<1>6. ASSUME NEW a \in Requests, CommitVerified(a) \/ CommitFailure(a) PROVE Verifying(a)
  BY <1>6 DEF CommitVerified, CommitFailure, Phases, Verifying, UnderWay, Ended
<1>7. \/ UNCHANGED <<rows, refusals, wrong>>
      \/ \E a \in Requests : Commits(a)
  BY DEF Next, Terminated, Arrive, Lose, Refuse, FindReplaced, FlushCode, StoreAndMail,
     PassExpiry, CheckFactor, FindCode, ReadHash, JudgeCode, FindVerified, Lapse,
     ForgetHash, vars, ghosts, Commits
<1> QED
  BY <1>1, <1>2, <1>3, <1>4, <1>5, <1>6, <1>7 DEF Commits

LEMMA TallyStep ==
    ASSUME TypeOK, Phases, OwnCodes, Tallies, [Next]_vars, NEW h \in Requests
    PROVE  Tally(h)'
<1> USE DEF TypeOK
<1>0. /\ challenges[h] \in ChallengeRow /\ codes[h] \in CodeRow /\ NoCode \notin Requests
      /\ MaxAttempts \in Nat \ {0} /\ wrong[h] \in Nat /\ refusals[h] \in Nat /\ Tally(h)
  BY ConfirmationAssumption DEF Tallies
<1>1. CASE /\ challenges'[h].failures = challenges[h].failures
           /\ refusals'[h] = refusals[h] /\ wrong'[h] = wrong[h]
           /\ \/ codes'[h] = codes[h]
              \/ /\ codes[h].state # "absent" /\ codes'[h].state = "consumed"
                 /\ codes'[h].attempts = codes[h].attempts
              \/ /\ h \notin Created /\ codes[h].state = "absent"
                 /\ codes'[h].attempts = 0
  BY <1>0, <1>1 DEF Tally
<1>2. ASSUME NEW a \in Requests, Verifying(a), target[a] = h, CommitVerified(a)
      PROVE  Tally(h)'
  <2>1. /\ challenges'[h].failures = challenges[h].failures
        /\ UNCHANGED <<refusals, wrong>>
    BY <1>0, <1>2 DEF CommitVerified, VerifiedRow, ChallengeRow
  <2>2. CASE found[a] = h
    <3>1. codes'[h].state = "consumed"
      BY <1>0, <1>2, <2>2 DEF CommitVerified, JudgedCodes, Consumes, OwnCodes, OwnCode
    <3> QED
      BY <1>0, <2>1, <3>1 DEF Tally
  <2>3. CASE found[a] # h
    BY <1>0, <1>2, <2>1, <2>3 DEF CommitVerified, JudgedCodes, Tally
  <2> QED
    BY <2>2, <2>3
<1>3. ASSUME NEW a \in Requests, Verifying(a), target[a] = h, CommitFailure(a)
      PROVE  Tally(h)'
  <2>1. /\ mine[a].challenge.failures = challenges[h].failures
        /\ Attempts(a) = codes[h].attempts + 1
        /\ found[a] \in {NoCode, h}
    BY <1>3 DEF Tallies, Attempts, OwnCodes, OwnCode, Verifying
  <2>2. challenges'[h].failures = refusals'[h]
    BY <1>0, <1>3, <2>1 DEF CommitFailure, FailureCounted, Counted, ChallengeRow, Tally
  <2>3. CASE found[a] = NoCode
    <3>1. codes'[h] = codes[h] /\ wrong' = wrong
      BY <1>0, <1>3, <2>3 DEF CommitFailure, JudgedCodes
    <3> QED
      BY <1>0, <2>2, <3>1 DEF Tally
  <2>4. CASE found[a] = h
    <3>1. codes[h].state # "absent" /\ wrong'[h] = wrong[h] + 1
      BY <1>0, <1>3, <2>4 DEF Phases, CommitFailure, Counted
    <3>2. codes'[h] = [state    |-> IF Consumes(a) THEN "consumed" ELSE codes[h].state,
                       attempts |-> Attempts(a)]
      BY <1>3, <2>4 DEF CommitFailure, JudgedCodes
    <3>3. codes'[h].state = "active" =>
             codes[h].state = "active" /\ ~(Attempts(a) >= MaxAttempts)
      BY <3>2 DEF Consumes, OutOfAttempts
    <3>4. codes'[h].state # "absent" /\ codes'[h].attempts = Attempts(a)
      BY <3>1, <3>2
    <3>5. codes'[h].state = "active" =>
             codes'[h].attempts = wrong'[h] /\ wrong'[h] < MaxAttempts
      BY <1>0, <2>1, <3>1, <3>3, <3>4 DEF Tally
    <3> QED
      BY <2>2, <3>4, <3>5 DEF Tally
  <2> QED
    BY <2>1, <2>3, <2>4
<1> QED
  BY <1>1, <1>2, <1>3, CountersStep

LEMMA TalliesStep ==
    ASSUME TypeOK, Phases, OwnCodes, Tallies, VerificationsApart, [Next]_vars
    PROVE  Tallies'
<1> SUFFICES ASSUME NEW a \in Requests, Verifying(a)'
             PROVE  /\ mine'[a].challenge.failures = challenges'[target'[a]].failures
                    /\ mine'[a].code.attempts = codes'[target'[a]].attempts
  BY TallyStep DEF Tallies
<1>1. CASE Arrive(a)
  BY <1>1 DEF Arrive, rows, TypeOK
<1>2. ~Ends(a)
  BY EndsAreEnds DEF End, Goto, TypeOK, Verifying, UnderWay
<1>3. CASE ~Arrive(a)
  <2>1. mine'[a] = mine[a] /\ target'[a] = target[a] /\ Verifying(a)
    <3>1. kind' = kind
      BY RequestStep
    <3>2. CASE Moves(a)
      BY <3>1, <3>2, MovesKeep DEF request, Verifying, UnderWay
    <3>3. CASE mine'[a] = mine[a] /\ target'[a] = target[a] /\ pc'[a] = pc[a]
      BY <3>1, <3>3 DEF Verifying, UnderWay
    <3> QED
      BY <1>2, <1>3, <3>2, <3>3, LocalStep
  <2>2. /\ mine[a].challenge.failures = challenges[target[a]].failures
        /\ mine[a].code.attempts = codes[target[a]].attempts
    BY <2>1 DEF Tallies
  <2>3. target[a] \in Created /\ target[a] \in Requests
    BY <2>1 DEF Phases, Verifying, UnderWay, TypeOK
  <2>4. ASSUME NEW b \in Requests, Verifying(b), target[b] = target[a],
               CommitVerified(b) \/ CommitFailure(b)
        PROVE  FALSE
    <3>1. b = a
      BY <2>1, <2>4 DEF VerificationsApart
    <3> QED
      BY <1>2, <2>4, <3>1 DEF Ends, Commits
  <2>5. /\ challenges'[target[a]].failures = challenges[target[a]].failures
        /\ codes'[target[a]].attempts = codes[target[a]].attempts
    BY <2>3, <2>4, CountersStep
  <2> QED
    BY <2>1, <2>2, <2>5
<1> QED
  BY <1>1, <1>3

(* Whatever else overlaps, every refusal is counted and a code does not       *)
(* survive its last attempt, unless two verifications of one challenge are  *)
(* under way: both count on from what they loaded.                          *)
THEOREM OnlyRacingVerificationsMiscount == Spec /\ []VerificationsApart => []NoFailureMissed
<1>1. Init => Tallies
  BY DEF Init, Tallies, Tally, Verifying, UnderWay, NoRow
<1>2. TypeOK /\ Phases /\ OwnCodes /\ Tallies /\ VerificationsApart /\ [Next]_vars => Tallies'
  BY TalliesStep
<1>3. Tallies => NoFailureMissed
  BY DEF Tallies, Tally, NoFailureMissed
<1> QED
  BY <1>1, <1>2, <1>3, OwnCodesAlways, PTL DEF Spec

-----------------------------------------------------------------------------
(* A creation between selecting the code it replaces and its commit, and a    *)
(* verification that has found its code and will read the hash in Redis.    *)
Issuing(a) == pc[a] \in {"flushed", "stored"} \/ (kind[a] = "create" /\ pc[a] = "found")
Reading(a) == kind[a] = "verify" /\ pc[a] = "found"

(* No code is issued while another is, or while a hash is about to be read.  *)
IssuesApart == \A a, b \in Requests : Issuing(a) /\ (Issuing(b) \/ Reading(b)) => a = b

(* A code verifies only the challenge it was mailed for (issue_otp()). *)
CodesFit == \A h \in Requests : proofs[h] \subseteq {h, Factor}

(* Redis holds the hash of the only live code, or of the one being issued.   *)
RedisKept ==
    /\ OneLive
    /\ CodesFit
    /\ redis = NoCode \/ Live \subseteq {redis} \/ \E a \in Requests : pc[a] = "stored"
    /\ \A a \in Requests : (Issuing(a) => Live \subseteq {found[a]}) /\ RedisOf(a)

LEMMA LiveCodesStep ==
    ASSUME TypeOK, [Next]_vars, \A a \in Requests : Issuing(a) => Live \subseteq {found[a]}
    PROVE  \/ Live' \subseteq Live
           \/ \E a \in Requests : /\ CommitChallenge(a) /\ pc[a] = "stored"
                                  /\ redis' = redis /\ Live' \subseteq {a}
<1> USE DEF TypeOK, CodeRow, Live, Active
<1>1. CASE UNCHANGED rows
  BY <1>1, LapsedStep DEF rows
<1>2. ASSUME NEW a \in Requests, CommitChallenge(a)
      PROVE  Live' \subseteq Live \/ (pc[a] = "stored" /\ redis' = redis /\ Live' \subseteq {a})
  <2>1. CASE method[a] # "email_otp"
    BY <1>2, <2>1, LapsedStep DEF CommitChallenge
  <2>2. CASE method[a] = "email_otp"
    <3>1. pc[a] = "stored" /\ redis' = redis /\ codes' = IssuedCodes(a)
      BY <1>2, <2>2 DEF CommitChallenge
    <3>2. Live \subseteq {found[a]}
      BY <3>1 DEF Issuing
    <3>3. ASSUME NEW c \in Live', c # a PROVE FALSE
      <4>1. codes'[c].state = "active" /\ c \notin lapsed /\ c \in Requests
        BY <3>3, LapsedStep
      <4>2. c # found[a] /\ codes[c].state = "active"
        BY <3>1, <3>3, <4>1 DEF IssuedCodes
      <4> QED
        BY <3>2, <4>1, <4>2
    <3> QED
      BY <3>1, <3>3
  <2> QED
    BY <2>1, <2>2
<1>3. ASSUME NEW a \in Requests, MarkExpired(a) \/ CommitUse(a) PROVE Live' \subseteq Live
  BY <1>3, LapsedStep DEF MarkExpired, CommitUse
<1>4. ASSUME NEW a \in Requests, CommitVerified(a) \/ CommitFailure(a)
      PROVE  Live' \subseteq Live
  <2>1. codes' = JudgedCodes(a)
    BY <1>4 DEF CommitVerified, CommitFailure
  <2> QED
    BY <2>1, LapsedStep DEF JudgedCodes
<1> QED
  BY <1>1, <1>2, <1>3, <1>4, CommitStep

LEMMA RedisChanges ==
    ASSUME [Next]_vars
    PROVE  \/ redis' \in {redis, NoCode}
           \/ \E b \in Requests : StoreAndMail(b)
BY DEF Next, Terminated, Arrive, Lose, Refuse, FindReplaced, FlushCode, CommitChallenge,
     MarkExpired, PassExpiry, CheckFactor, FindCode, ReadHash, JudgeCode, CommitVerified,
     CommitFailure, FindVerified, CommitUse, Lapse, ForgetHash, vars

(* Nobody else stores a hash while a code is issued or a hash is to be read. *)
LEMMA RedisIsOurs ==
    ASSUME TypeOK, IssuesApart, [Next]_vars, NEW a \in Requests,
           Issuing(a) \/ Reading(a), ~StoreAndMail(a)
    PROVE  redis' \in {redis, NoCode}
<1>1. ASSUME NEW b \in Requests, StoreAndMail(b) PROVE FALSE
  <2>1. Issuing(b) /\ b # a
    BY <1>1 DEF StoreAndMail, Issuing
  <2> QED
    BY <2>1 DEF IssuesApart
<1> QED
  BY <1>1, RedisChanges

LEMMA IssuingStep ==
    ASSUME TypeOK, Phases, [Next]_vars, NEW a \in Requests, Issuing(a)'
    PROVE  \/ FindReplaced(a)
           \/ Issuing(a) /\ found'[a] = found[a]
<1> USE DEF TypeOK
<1>0. kind' = kind
  BY RequestStep
<1>1. ~Arrive(a) /\ ~Ends(a)
  BY EndsAreEnds DEF Arrive, End, Goto, Issuing, Ended
<1>2. CASE Moves(a)
  <2>1. CASE FlushCode(a) \/ StoreAndMail(a)
    BY <2>1 DEF FlushCode, StoreAndMail, Issuing, locals
  <2>2. ~FindCode(a)
    BY <1>0 DEF FindCode, Goto, Issuing, Phases
  <2>3. ~(PassExpiry(a) \/ CheckFactor(a) \/ ReadHash(a) \/ JudgeCode(a))
    BY DEF PassExpiry, CheckFactor, ReadHash, JudgeCode, Goto, Issuing
  <2>4. ~FindVerified(a)
    BY <1>0 DEF FindVerified, Goto, Issuing
  <2> QED
    BY <1>2, <2>1, <2>2, <2>3, <2>4 DEF Moves
<1>3. CASE pc'[a] = pc[a] /\ found'[a] = found[a]
  BY <1>0, <1>3 DEF Issuing
<1> QED
  BY <1>1, <1>2, <1>3, LocalStep

LEMMA OwnRedisStep ==
    ASSUME TypeOK, Phases, OwnCodes, RedisKept, IssuesApart, IssuesApart', [Next]_vars,
           NEW a \in Requests
    PROVE  RedisOf(a)'
<1> USE DEF TypeOK
<1>0. kind' = kind /\ RedisOf(a)
  BY RequestStep DEF RedisKept
<1>1. CASE Arrive(a)
  BY <1>1 DEF Arrive, Goto, RedisOf
<1>2. CASE Ends(a)
  BY <1>2, EndsAreEnds DEF End, Goto, RedisOf, Ended
<1>3. CASE Moves(a)
  <2>1. UNCHANGED <<kind, target>>
    BY <1>3, MovesKeep DEF request
  <2>2. CASE FindReplaced(a) \/ FlushCode(a) \/ FindVerified(a)
    BY <2>1, <2>2 DEF FindReplaced, FlushCode, FindVerified, Goto, RedisOf
  <2>3. CASE StoreAndMail(a)
    BY <2>3 DEF StoreAndMail, Goto, RedisOf
  <2>4. CASE PassExpiry(a) \/ CheckFactor(a)
    BY <2>4 DEF PassExpiry, CheckFactor, Goto, locals, OwnCodes, Idle, RedisOf
  <2>5. CASE FindCode(a)
    <3>1. redis' = redis /\ (pc'[a] = "failing" \/ (pc'[a] = "found" /\ target[a] \in Live))
      BY <2>5 DEF FindCode, Goto
    <3>2. CASE pc'[a] = "failing"
      BY <3>2 DEF RedisOf
    <3>3. CASE pc'[a] = "found" /\ target[a] \in Live
      <4>1. Reading(a)'
        BY <1>0, <2>5, <3>3 DEF FindCode, Phases, Reading
      <4>2. ASSUME NEW b \in Requests, pc[b] = "stored" PROVE FALSE
        <5>1. b # a /\ pc'[b] = "stored"
          BY <2>5, <4>2 DEF FindCode, Goto
        <5> QED
          BY <4>1, <5>1 DEF IssuesApart, Issuing
      <4>3. redis \in {target[a], NoCode}
        BY <3>3, <4>2 DEF RedisKept
      <4> QED
        BY <2>1, <3>1, <3>3, <4>3 DEF RedisOf
    <3> QED
      BY <3>1, <3>2, <3>3
  <2>6. CASE ReadHash(a)
    <3>1. /\ pc[a] = "found" /\ kind[a] = "verify" /\ pc'[a] = "judging"
          /\ hash'[a] = IF redis = NoCode THEN found[a] ELSE redis
      BY <2>6 DEF ReadHash, Goto
    <3>2. found[a] = target[a] /\ redis \in {target[a], NoCode}
      BY <1>0, <3>1 DEF RedisOf, OwnCodes, OwnCode
    <3> QED
      BY <2>1, <3>1, <3>2 DEF RedisOf
  <2>7. CASE JudgeCode(a)
    <3>1. pc[a] = "judging" /\ pc'[a] \in {"accepting", "failing"} /\ hash' = hash
      BY <2>7 DEF JudgeCode, Goto, locals
    <3> QED
      BY <1>0, <2>1, <3>1 DEF RedisOf
  <2> QED
    BY <1>3, <2>2, <2>3, <2>4, <2>5, <2>6, <2>7 DEF Moves
<1>4. CASE /\ pc'[a] = pc[a] /\ target'[a] = target[a]
           /\ found'[a] = found[a] /\ hash'[a] = hash[a]
  <2>1. CASE pc[a] = "stored" \/ Reading(a)
    <3>1. redis' \in {redis, NoCode}
      BY <1>4, <2>1, RedisIsOurs DEF StoreAndMail, Goto, Issuing, Reading
    <3> QED
      BY <1>0, <1>4, <3>1 DEF RedisOf
  <2>2. CASE pc[a] # "stored" /\ ~Reading(a)
    BY <1>0, <1>4, <2>2 DEF RedisOf, Reading
  <2> QED
    BY <2>1, <2>2
<1> QED
  BY <1>1, <1>2, <1>3, <1>4, LocalStep

LEMMA CodesFitStep ==
    ASSUME TypeOK, OwnCodes, RedisKept, [Next]_vars
    PROVE  CodesFit'
<1> SUFFICES ASSUME NEW h \in Requests PROVE proofs'[h] \subseteq {h, Factor}
  BY DEF CodesFit
<1>1. proofs[h] \subseteq {h, Factor}
  BY DEF RedisKept, CodesFit
<1>2. ASSUME NEW a \in Requests, CommitVerified(a), target[a] = h
      PROVE  proofs'[h] \subseteq {h, Factor}
  <2>1. method[a] # "totp" => typed[a] = h
    BY <1>2 DEF CommitVerified, OwnCodes, OwnCode, RedisKept, RedisOf
  <2>2. proofs'[h] = proofs[h] \cup {IF method[a] = "totp" THEN Factor ELSE typed[a]}
    BY <1>2 DEF CommitVerified, TypeOK
  <2> QED
    BY <1>1, <2>1, <2>2
<1>3. ASSUME NEW a \in Requests, CommitVerified(a), target[a] # h
      PROVE  proofs'[h] = proofs[h]
  BY <1>3 DEF CommitVerified, TypeOK
<1> QED
  BY <1>1, <1>2, <1>3, ProofsStep

LEMMA RedisKeptStep ==
    ASSUME TypeOK, Phases, OwnCodes, RedisKept, IssuesApart, IssuesApart', ~stray', [Next]_vars
    PROVE  RedisKept'
<1>1. \A a \in Requests : Issuing(a) => Live \subseteq {found[a]}
  BY DEF RedisKept
<1>2. OneLive'
  BY <1>1, LiveCodesStep DEF RedisKept, OneLive
<1>3. ASSUME NEW a \in Requests, Issuing(a)' PROVE Live' \subseteq {found'[a]}
  <2>1. CASE FindReplaced(a)
    <3>1. Live' = Live
      BY <2>1 DEF FindReplaced, Live, Active, rows
    <3> QED
      BY <2>1, <3>1, ReplacesTheLiveCode DEF RedisKept
  <2>2. CASE Issuing(a) /\ found'[a] = found[a]
    <3>1. ASSUME NEW b \in Requests, CommitChallenge(b), pc[b] = "stored" PROVE FALSE
      <4>1. b = a
        BY <2>2, <3>1 DEF IssuesApart, Issuing
      <4> QED
        BY <1>3, <3>1, <4>1 DEF CommitChallenge, End, Goto, TypeOK, Issuing
    <3> QED
      BY <1>1, <2>2, <3>1, LiveCodesStep
  <2> QED
    BY <1>3, <2>1, <2>2, IssuingStep
<1>4. redis' = NoCode \/ Live' \subseteq {redis'} \/ \E a \in Requests : pc'[a] = "stored"
  <2>1. ASSUME NEW b \in Requests, StoreAndMail(b) PROVE pc'[b] = "stored"
    BY <2>1 DEF StoreAndMail, Goto, TypeOK
  <2>2. ASSUME NEW b \in Requests, pc[b] = "stored", redis' = redis
        PROVE  redis' = NoCode \/ Live' \subseteq {redis'} \/ pc'[b] = "stored"
    <3>1. redis \in {b, NoCode}
      BY <2>2 DEF RedisKept, RedisOf
    <3>2. CASE CommitChallenge(b)
      <4>1. Live' \subseteq {b} \/ pc'[b] = "stored"
        <5>1. codes' = IssuedCodes(b)
          BY <2>2, <3>2 DEF CommitChallenge
        <5>2. Live \subseteq {found[b]}
          BY <1>1, <2>2 DEF Issuing
        <5> QED
          BY <5>1, <5>2, LapsedStep DEF IssuedCodes, Live, Active, TypeOK, CodeRow
      <4> QED
        BY <2>2, <3>1, <4>1
    <3>3. ~Lose(b)
      BY <2>2 DEF Lose
    <3>4. CASE ~CommitChallenge(b)
      BY <2>2, <3>3, <3>4, OwnStep
      DEF Arrive, FindReplaced, FlushCode, StoreAndMail, PassExpiry, CheckFactor, FindCode,
          ReadHash, JudgeCode, FindVerified, Refuse, MarkExpired, CommitVerified,
          CommitFailure, CommitUse
    <3> QED
      BY <3>2, <3>4
  <2>3. CASE redis' = NoCode
    BY <2>3
  <2>4. CASE redis' = redis
    <3>1. CASE Live' \subseteq Live
      BY <2>2, <2>4, <3>1 DEF RedisKept
    <3>2. ASSUME NEW b \in Requests, pc[b] = "stored"
          PROVE  redis' = NoCode \/ Live' \subseteq {redis'} \/ pc'[b] = "stored"
      BY <2>2, <2>4, <3>2
    <3> QED
      BY <1>1, <3>1, <3>2, LiveCodesStep
  <2> QED
    BY <2>1, <2>3, <2>4, RedisChanges
<1> QED
  BY <1>2, <1>3, <1>4, OwnRedisStep, CodesFitStep DEF RedisKept

(* Whatever else overlaps, a challenge is only verified with the second       *)
(* factor or with its own code, unless a code is issued while another is, or *)
(* while a verification is about to read the hash in Redis, or is rolled     *)
(* back when its hash is in Redis already.                                  *)
THEOREM OnlyRacingIssuesMixCodes == Spec /\ [](IssuesApart /\ ~stray) => []CodesFit
<1>1. Init => RedisKept
  <2>1. ASSUME Init PROVE Live = {}
    BY <2>1 DEF Init, Live, Active, NoRow
  <2> QED
    BY <2>1 DEF Init, RedisKept, OneLive, CodesFit, Issuing, RedisOf
<1>2. /\ TypeOK /\ Phases /\ OwnCodes /\ RedisKept /\ IssuesApart /\ IssuesApart' /\ ~stray'
      /\ [Next]_vars
      => RedisKept'
  BY RedisKeptStep
<1>3. RedisKept => CodesFit
  BY DEF RedisKept
<1> QED
  BY <1>1, <1>2, <1>3, OwnCodesAlways, PTL DEF Spec
=============================================================================
