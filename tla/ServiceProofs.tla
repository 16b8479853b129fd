----------------------------- MODULE ServiceProofs -----------------------------
(***************************************************************************)
(* Theorems about identity verification, notifications, statement exports,   *)
(* multi-factor authentication, sign-in warnings and the start of servers,  *)
(* for any number of requests.                                              *)
(***************************************************************************)
EXTENDS KycReview, Notices, StatementExports, MfaEnrolment, TrustedDevices, StartUp, TLAPS,
        WellFoundedInduction, SequenceTheorems

(* Identity verification.  Without overlap a session's view of the user and   *)
(* of the submission is the table, until its own commit.                    *)
FilingsAreWellFormed ==
    \A f \in FilingsUnderWay :
        /\ filing[f].kind = "submit" => filing[f].about = f /\ known[f].submission = "absent"
        /\ filing[f].kind = "review" => filing[f].about \in Submitted
SubmittedByDoneRequests == \A s \in Submitted : filingAt[s] = "done"
OneFilingAtATime ==
    ~filingsOverlapped =>
        \A f \in FilingsUnderWay :
            /\ known[f].user = kycStatus
            /\ known[f].submission = submission[filing[f].about]
            /\ \A g \in FilingsUnderWay : g = f

KycInv == /\ KycTypeOK /\ FilingsAreWellFormed /\ SubmittedByDoneRequests
          /\ OneFilingAtATime /\ StandingFromSubmission

LEMMA KycStart == KycInit => KycInv
<1> SUFFICES ASSUME KycInit PROVE KycInv
  OBVIOUS
<1> USE DEF KycInit
<1>1. KycTypeOK
  BY DEF KycTypeOK, KYCStatus, Filing, Known
<1>2. Submitted = {} /\ FilingsUnderWay = {}
  BY DEF Submitted, FilingsUnderWay
<1> QED
  BY <1>1, <1>2 DEF KycInv, FilingsAreWellFormed, SubmittedByDoneRequests, OneFilingAtATime,
       StandingFromSubmission

LEMMA KycStep == KycInv /\ [KycNext]_kycVars => KycInv'
<1> SUFFICES ASSUME KycInv, [KycNext]_kycVars PROVE KycInv'
  OBVIOUS
<1> USE DEF KycInv, KycTypeOK, FilingsAreWellFormed, SubmittedByDoneRequests, OneFilingAtATime,
      StandingFromSubmission, Submitted, FilingsUnderWay, KYCStatus, Filing, Known, CloseFiling
<1>1. ASSUME NEW f \in Filings, LoadFiling(f) PROVE KycInv'
  <2>1. PICK x \in FilingsOf(f) :
            /\ filing' = [filing EXCEPT ![f] = x]
            /\ known' = [known EXCEPT ![f] = [user |-> kycStatus, submission |-> submission[x.about]]]
    BY <1>1 DEF LoadFiling
  <2>2. /\ x \in Filing
        /\ x.kind = "submit" => x.about = f
        /\ x.kind = "review" => x.about \in Submitted
    BY <2>1 DEF FilingsOf
  <2>3. KycTypeOK'
    BY <1>1, <2>1, <2>2 DEF LoadFiling
  <2>6. StandingFromSubmission'
    BY <1>1 DEF LoadFiling
  <2>4. FilingsAreWellFormed' /\ SubmittedByDoneRequests'
    BY <1>1, <2>1, <2>2 DEF LoadFiling
  <2>5. OneFilingAtATime'
    <3> SUFFICES ASSUME ~filingsOverlapped', NEW g \in FilingsUnderWay'
                 PROVE  /\ g = f
                        /\ known'[f].user = kycStatus'
                        /\ known'[f].submission = submission'[filing'[f].about]
      BY <1>1 DEF LoadFiling
    <3>1. FilingsUnderWay = {}
      BY <1>1 DEF LoadFiling
    <3> QED
      BY <1>1, <2>1, <2>2, <3>1 DEF LoadFiling
  <2> QED
    BY <2>3, <2>4, <2>5, <2>6
<1>2. ASSUME NEW f \in Filings, CommitFiling(f) PROVE KycInv'
  <2>1. Submitted' = Submitted \cup {filing[f].about}
    BY <1>2 DEF CommitFiling, Flushed
  <2>2. ASSUME ~filingsOverlapped
        PROVE  kycStatus' = filing[f].decision /\ submission'[filing[f].about] = filing[f].decision
    BY <1>2, <2>2 DEF CommitFiling, StandingWritten, Flushed
  <2>3. StandingFromSubmission'
    BY <1>2, <2>1, <2>2 DEF CommitFiling
  <2>4. KycTypeOK'
    BY <1>2 DEF CommitFiling, StandingWritten, Flushed
  <2>5. FilingsAreWellFormed' /\ SubmittedByDoneRequests'
    BY <1>2, <2>1 DEF CommitFiling
  <2>6. OneFilingAtATime'
    BY <1>2 DEF CommitFiling
  <2> QED
    BY <2>3, <2>4, <2>5, <2>6
<1>3. ASSUME NEW f \in Filings, LoseFiling(f) PROVE KycInv'
  BY <1>3 DEF LoseFiling
<1>4. CASE UNCHANGED kycVars
  BY <1>4 DEF kycVars
<1> QED
  BY <1>1, <1>2, <1>3, <1>4 DEF KycNext

(* Submitted once, reviewed any number of times: as long as the requests do  *)
(* not overlap, the user's standing is that of a submission.                *)
THEOREM StandingIsBacked == KycSpec => []StandingFromSubmission
<1>1. KycInv => StandingFromSubmission
  BY DEF KycInv
<1> QED
  BY KycStart, KycStep, <1>1, PTL DEF KycSpec

-----------------------------------------------------------------------------
(* Preferences.  As long as nobody asks for the mails of a category, they can *)
(* only be switched off: in the table, in the sessions that loaded it, and   *)
(* before any mail that is barred.                                          *)
NobodyAskedOn == \A p \in NoticeIds : notice[p].wish["security_alert"] # "on"
SwitchedOff   == preference.exists /\ ~preference.mail["security_alert"]
SeenOff(n)    == glimpse[n].exists /\ ~glimpse[n].mail["security_alert"]

OffStaysOff ==
    /\ OptedOut => SwitchedOff
    /\ NobodyAskedOn => \A n \in NoticeIds : SeenOff(n) => SwitchedOff
BarredHaveSeen ==
    \A n \in NoticeIds :
        /\ noticeAt[n] = "unsent" => n \notin mailed /\ notice[n].wish = Keep
        /\ notice[n].kind = "notify" => notice[n].wish = Keep
        /\ noticeAt[n] \in {"flushed", "checked"} => notice[n].kind = "notify"
        /\ notice[n].barred /\ noticeAt[n] \in {"received", "flushed"} => SeenOff(n)

NoticesInv == NoticesTypeOK /\ OffStaysOff /\ BarredHaveSeen /\ OptOutIsKept

LEMMA NoticesStart == NoticesInit => NoticesInv
<1> SUFFICES ASSUME NoticesInit PROVE NoticesInv
  OBVIOUS
<1> USE DEF NoticesInit
<1>1. NoticesTypeOK
  <2>1. DefaultMail \in [Categories -> BOOLEAN]
    BY Zenon DEF DefaultMail
  <2>2. NoPreference \in Preference /\ [NoPreference EXCEPT !.exists = TRUE] \in Preference
    BY <2>1 DEF Preference, NoPreference
  <2>3. notice \in [NoticeIds -> Notice]
    BY DEF Notice
  <2> QED
    BY <2>2, <2>3 DEF NoticesTypeOK
<1>2. ~OptedOut
  BY DEF OptedOut
<1>3. \A n \in NoticeIds : ~SeenOff(n)
  BY DEF SeenOff, NoPreference
<1> QED
  BY <1>1, <1>2, <1>3 DEF NoticesInv, OffStaysOff, BarredHaveSeen, OptOutIsKept

LEMMA MailIsPerCategory ==
    ASSUME NoticesTypeOK, NEW n \in NoticeIds
    PROVE  WishedMail(n) \in [Categories -> BOOLEAN] /\ MailWritten(n) \in [Categories -> BOOLEAN]
<1>1. preference.mail \in [Categories -> BOOLEAN] /\ glimpse[n].mail \in [Categories -> BOOLEAN]
  BY DEF NoticesTypeOK, Preference
<1>2. \A c \in Categories : glimpse[n].mail[c] \in BOOLEAN /\ preference.mail[c] \in BOOLEAN
  BY <1>1
<1>3. WishedMail(n) \in [Categories -> BOOLEAN]
  BY <1>2 DEF WishedMail
<1>4. \A c \in Categories : Flushed(preference.mail[c], glimpse[n].mail[c], WishedMail(n)[c]) \in BOOLEAN
  BY <1>2, <1>3 DEF Flushed
<1> QED
  BY <1>3, <1>4 DEF MailWritten

LEMMA NoticesStep == NoticesInv /\ [NoticesNext]_noticeVars => NoticesInv'
<1> SUFFICES ASSUME NoticesInv, [NoticesNext]_noticeVars PROVE NoticesInv'
  OBVIOUS
<1> USE NoticesAssumption DEF NoticesInv, NoticesTypeOK, OffStaysOff, BarredHaveSeen,
      OptOutIsKept, OptedOut, SwitchedOff, SeenOff, NobodyAskedOn, Preference, Categories,
      Notice, Keep, OpenNotice, NoticeGoes
<1>1. ASSUME NEW n \in NoticeIds, ReceiveNotice(n) PROVE NoticesInv'
  <2>1. PICK x \in NoticesOf : notice' = [notice EXCEPT ![n] = x]
    BY <1>1 DEF ReceiveNotice
  <2>2. x \in Notice /\ x.barred = OptedOut /\ (x.kind = "notify" => x.wish = Keep)
    BY <2>1 DEF NoticesOf
  <2>3. NoticesTypeOK'
    BY <1>1, <2>1, <2>2 DEF ReceiveNotice
  <2>4. (OptedOut' => OptedOut) /\ (NobodyAskedOn' => NobodyAskedOn)
    <3>1. \A p \in NoticeIds \ {n} : notice'[p] = notice[p] /\ noticeAt'[p] = noticeAt[p]
      BY <1>1, <2>1 DEF ReceiveNotice
    <3>2. noticeAt'[n] = "received" /\ noticeAt[n] = "unsent"
      BY <1>1 DEF ReceiveNotice
    <3> QED
      BY SMTT(60), <3>1, <3>2
  <2>5. OffStaysOff'
    BY <1>1, <2>4 DEF ReceiveNotice
  <2>6. BarredHaveSeen'
    <3>1. notice'[n] = x /\ glimpse'[n] = preference /\ noticeAt'[n] = "received"
      BY <1>1, <2>1 DEF ReceiveNotice
    <3>2. \A p \in NoticeIds \ {n} : /\ notice'[p] = notice[p]
                                     /\ noticeAt'[p] = noticeAt[p]
                                     /\ glimpse'[p] = glimpse[p]
      BY <1>1, <2>1 DEF ReceiveNotice
    <3>3. mailed' = mailed
      BY <1>1 DEF ReceiveNotice
    <3>4. x.barred => SwitchedOff
      BY <2>2
    <3>5. ASSUME NEW p \in NoticeIds, p = n
          PROVE  /\ notice'[p].kind = "notify" => notice'[p].wish = Keep
                 /\ notice'[p].barred => SeenOff(p)'
      BY <2>2, <3>1, <3>4, <3>5
    <3> QED
      BY <3>1, <3>2, <3>3, <3>5
  <2>7. OptOutIsKept'
    BY <1>1, <2>1, <2>2 DEF ReceiveNotice
  <2> QED
    BY <2>3, <2>5, <2>6, <2>7
<1>2. ASSUME NEW n \in NoticeIds, FlushNotice(n) PROVE NoticesInv'
  BY <1>2 DEF FlushNotice
<1>3. ASSUME NEW n \in NoticeIds, AskChannel(n) PROVE NoticesInv'
  BY <1>3 DEF AskChannel, ChannelAllowed, HeldPreference
<1>4. ASSUME NEW n \in NoticeIds, CommitNotice(n) PROVE NoticesInv'
  <2>1. OptedOut' => OptedOut
    BY <1>4 DEF CommitNotice
  <2> QED
    BY <1>4, <2>1 DEF CommitNotice
<1>5. ASSUME NEW n \in NoticeIds, GetOrCreate(n) PROVE NoticesInv'
  BY <1>5 DEF GetOrCreate, HeldPreference
<1>6. ASSUME NEW n \in NoticeIds, CommitPreferences(n) PROVE NoticesInv'
  <2>1. WishedMail(n) \in [Categories -> BOOLEAN] /\ MailWritten(n) \in [Categories -> BOOLEAN]
    BY MailIsPerCategory
  <2>2. ASSUME NobodyAskedOn, OptedOut \/ SwitchedOff \/ notice[n].wish["security_alert"] = "off"
        PROVE  SwitchedOff'
    <3>1. notice[n].wish["security_alert"] \in {"keep", "off"}
      <4>1. notice[n].wish \in [Categories -> {"keep", "on", "off"}]
        OBVIOUS
      <4> QED
        BY <4>1, <2>2
    <3>2. preference'.exists /\ preference'.mail["security_alert"] = MailWritten(n)["security_alert"]
      BY <1>6 DEF CommitPreferences
    <3>3. notice[n].wish["security_alert"] = "keep" =>
              WishedMail(n)["security_alert"] = glimpse[n].mail["security_alert"]
      BY DEF WishedMail
    <3>4. notice[n].wish["security_alert"] = "off" => ~WishedMail(n)["security_alert"]
      BY DEF WishedMail
    <3>5. glimpse[n].exists \/ ~SwitchedOff
      BY <1>6 DEF CommitPreferences
    <3>6. CASE glimpse[n].exists
      <4>1. MailWritten(n)["security_alert"] =
                IF WishedMail(n)["security_alert"] = glimpse[n].mail["security_alert"]
                THEN preference.mail["security_alert"] ELSE WishedMail(n)["security_alert"]
        BY <3>6 DEF MailWritten, Flushed
      <4>2. CASE WishedMail(n)["security_alert"] = glimpse[n].mail["security_alert"]
        BY <2>2, <3>2, <3>4, <3>6, <4>1, <4>2, <3>1
      <4>3. CASE WishedMail(n)["security_alert"] # glimpse[n].mail["security_alert"]
        BY <3>1, <3>2, <3>3, <3>4, <4>1, <4>3
      <4> QED
        BY <4>2, <4>3
    <3>7. CASE ~glimpse[n].exists
      <4>1. MailWritten(n) = WishedMail(n)
        BY <3>7 DEF MailWritten
      <4> QED
        BY <2>2, <3>2, <3>4, <3>5, <3>7, <4>1
    <3> QED
      BY <3>6, <3>7
  <2>3. OptedOut' => OptedOut \/ notice[n].wish["security_alert"] = "off"
    BY <1>6 DEF CommitPreferences
  <2>4. OffStaysOff'
    BY <1>6, <2>2, <2>3 DEF CommitPreferences
  <2>5. NoticesTypeOK'
    BY <1>6, <2>1 DEF CommitPreferences
  <2>6. BarredHaveSeen' /\ OptOutIsKept'
    BY <1>6 DEF CommitPreferences
  <2> QED
    BY <2>4, <2>5, <2>6
<1>7. ASSUME NEW n \in NoticeIds, LoseNotice(n) PROVE NoticesInv'
  BY <1>7 DEF LoseNotice
<1>8. CASE UNCHANGED noticeVars
  BY <1>8 DEF noticeVars
<1> QED
  BY <1>1, <1>2, <1>3, <1>4, <1>5, <1>6, <1>7, <1>8 DEF NoticesNext

(* However requests overlap, a user who switched the alerts off, was answered *)
(* and never asks for them is mailed nothing about what happens later.       *)
THEOREM OptOutHolds == NoticesSpec => []OptOutIsKept
<1>1. NoticesInv => OptOutIsKept
  BY DEF NoticesInv
<1> QED
  BY NoticesStart, NoticesStep, <1>1, PTL DEF NoticesSpec

-----------------------------------------------------------------------------
(* Statement exports.  Nothing happens to an export before it is ordered, and *)
(* a generator past its first commit holds the status as processing, so that *)
(* its outcome is a change and is written.                                  *)
NothingBeforeTheOrder ==
    /\ \A e \in Exports : /\ ordering[e] = "unsent" <=> export[e].status = "absent"
                          /\ e \in broker => ordering[e] # "unsent"
    /\ \A j \in Jobs : jobAt[j] # "none" => ordering[ExportOf(j)] # "unsent"
OutcomesAreChanges ==
    \A j \in Jobs : jobAt[j] \in {"reading", "writing", "written", "failing"} =>
                        loadedAs[j] = "processing"

(* An export that was handed over once is with one generator at most.        *)
HandedOnce(e) ==
    /\ ordering[e] # "answered" \/ e \in broker => \A p \in Places : jobAt[<<e, p>>] = "none"
    /\ ordering[e] # "answered" => e \notin broker
    /\ jobAt[<<e, "worker">>] = "none" \/ jobAt[<<e, "server">>] = "none"
FileInOneHand(e) ==
    /\ \A p \in Places : jobAt[<<e, p>>] = "written" => file[e] = "whole"
    /\ export[e].path => /\ file[e] = "whole"
                         /\ ordering[e] = "answered"
                         /\ e \notin broker
                         /\ \A p \in Places : jobAt[<<e, p>>] \in JobEnds
OneGenerator == \A e \in Exports \ doubled : HandedOnce(e) /\ FileInOneHand(e)

ExportsInv == /\ ExportsTypeOK /\ NothingBeforeTheOrder /\ OutcomesAreChanges
              /\ OneGenerator /\ NoExportForgotten

LEMMA OfferedFiles == ExportsInv => OfferedFilesAreWhole
BY DEF ExportsInv, OneGenerator, FileInOneHand, OfferedFilesAreWhole

LEMMA JobOf ==
    /\ \A e \in Exports, p \in Places : <<e, p>> \in Jobs /\ ExportOf(<<e, p>>) = e
    /\ \A j \in Jobs : /\ ExportOf(j) \in Exports
                       /\ \E p \in Places : j = <<ExportOf(j), p>>
BY DEF Jobs, ExportOf

LEMMA ExportsStart == ExportsInit => ExportsInv
<1> SUFFICES ASSUME ExportsInit PROVE ExportsInv
  OBVIOUS
<1> USE JobOf DEF ExportsInit
<1>1. ExportsTypeOK
  BY DEF ExportsTypeOK, ExportRow, ExportStatus, JobLabels, JobEnds
<1>2. NothingBeforeTheOrder /\ OutcomesAreChanges /\ NoExportForgotten
  BY DEF NothingBeforeTheOrder, OutcomesAreChanges, NoExportForgotten
<1>3. OneGenerator
  <2> SUFFICES ASSUME NEW e \in Exports PROVE HandedOnce(e) /\ FileInOneHand(e)
    BY DEF OneGenerator
  <2>1. \A p \in Places : jobAt[<<e, p>>] = "none"
    BY JobOf
  <2>2. "worker" \in Places
    BY DEF Places
  <2> QED
    BY <2>1, <2>2 DEF HandedOnce, FileInOneHand
<1> QED
  BY <1>1, <1>2, <1>3 DEF ExportsInv

(* What a step may do to an export that is under way.                        *)
LEMMA ExportsTypeStep == ExportsInv /\ [ExportsNext]_exportVars => ExportsTypeOK'
<1> SUFFICES ASSUME ExportsInv, [ExportsNext]_exportVars PROVE ExportsTypeOK'
  OBVIOUS
<1> USE JobOf DEF ExportsInv, ExportsTypeOK, ExportRow, ExportStatus, JobLabels, JobEnds
<1>1. ASSUME NEW e \in Exports, OrderExport(e) PROVE ExportsTypeOK'
  BY <1>1 DEF OrderExport
<1>2. ASSUME NEW e \in Exports, HandOver(e) PROVE ExportsTypeOK'
  <2>1. CASE Delay(e)
    BY <2>1 DEF Delay, Handed
  <2>2. CASE DelayRaises(e)
    <3>1. <<e, "server">> \in Jobs
      BY JobOf DEF Places
    <3>2. jobAt' \in [Jobs -> {"started", "selected", "reading", "writing", "written", "failing"}
                              \cup {"none", "ended"}]
      BY <2>2, <3>1 DEF DelayRaises, StartedHere
    <3> QED
      BY <2>2, <3>2 DEF DelayRaises, Handed
  <2> QED
    BY <1>2, <2>1, <2>2 DEF HandOver
<1>3. ASSUME NEW e \in Exports, TakeMessage(e) PROVE ExportsTypeOK'
  BY <1>3 DEF TakeMessage, Places
<1>4. ASSUME NEW e \in Exports, LoseOrder(e) \/ LoseMessage(e) PROVE ExportsTypeOK'
  BY <1>4 DEF LoseOrder, LoseMessage, Mishap
<1>5. ASSUME NEW j \in Jobs, JobStep(j) PROVE ExportsTypeOK'
  <2>1. CASE SelectExport(j)
    BY <2>1 DEF SelectExport, JobGoes
  <2>2. ASSUME NEW label \in JobLabels, JobGoes(j, jobAt[j], label), UNCHANGED <<export, loadedAs>>,
               file' \in {file, [file EXCEPT ![ExportOf(j)] = "partial"],
                         [file EXCEPT ![ExportOf(j)] = "whole"]}
        PROVE  ExportsTypeOK'
    BY <2>2 DEF JobGoes
  <2>3. CASE OpenFile(j) \/ CloseFile(j) \/ WriteFails(j)
    BY <2>2, <2>3 DEF OpenFile, CloseFile, WriteFails, JobGoes
  <2>4. ASSUME NEW label \in JobLabels, NEW status \in ExportStatus,
               JobGoes(j, jobAt[j], label), SaveStatus(j, status)
        PROVE  ExportsTypeOK'
    <3>1. Flushed(export[ExportOf(j)].status, loadedAs[j], status) \in ExportStatus
      BY <2>4 DEF Flushed
    <3>2. (export[ExportOf(j)].path \/ status = "completed") \in BOOLEAN
      OBVIOUS
    <3>3. export' \in [Exports -> ExportRow]
      BY <2>4, <3>1, <3>2 DEF SaveStatus
    <3> QED
      BY <2>4, <3>3 DEF SaveStatus, JobGoes
  <2>5. CASE CommitProcessing(j) \/ CommitCompleted(j) \/ CommitFailed(j)
    BY <2>4, <2>5 DEF CommitProcessing, CommitCompleted, CommitFailed, JobGoes
  <2> QED
    BY <1>5, <2>1, <2>3, <2>5 DEF JobStep
<1>6. ASSUME NEW j \in Jobs, LoseJob(j) PROVE ExportsTypeOK'
  BY <1>6 DEF LoseJob, Mishap
<1>7. CASE UNCHANGED exportVars
  BY <1>7 DEF exportVars
<1> QED
  BY <1>1, <1>2, <1>3, <1>4, <1>5, <1>6, <1>7 DEF ExportsNext

LEMMA ExportsStep == ExportsInv /\ [ExportsNext]_exportVars => ExportsInv'
<1> SUFFICES ASSUME ExportsInv, [ExportsNext]_exportVars PROVE ExportsInv'
  OBVIOUS
<1>0. ExportsTypeOK'
  BY ExportsTypeStep
<1> USE JobOf DEF ExportsInv, ExportsTypeOK, ExportRow, JobEnds, NothingBeforeTheOrder,
      OutcomesAreChanges, NoExportForgotten, InHand, JobsOf, Working
<1>1. ASSUME NEW e \in Exports, OrderExport(e) PROVE ExportsInv'
  <2>1. NothingBeforeTheOrder' /\ OutcomesAreChanges' /\ NoExportForgotten'
    BY <1>1 DEF OrderExport
  <2>2. OneGenerator'
    <3> SUFFICES ASSUME NEW f \in Exports \ doubled' PROVE HandedOnce(f)' /\ FileInOneHand(f)'
      BY DEF OneGenerator
    <3>1. CASE f = e
      BY <1>1, <3>1 DEF OrderExport, OneGenerator, HandedOnce, FileInOneHand, Places
    <3>2. CASE f # e
      BY <1>1, <3>2 DEF OrderExport, OneGenerator, HandedOnce, FileInOneHand, Places
    <3> QED
      BY <3>1, <3>2
  <2> QED
    BY <1>0, <2>1, <2>2
<1>2. ASSUME NEW e \in Exports, HandOver(e) PROVE ExportsInv'
  <2>1. CASE Delay(e)
    <3>1. NothingBeforeTheOrder' /\ OutcomesAreChanges' /\ NoExportForgotten'
      BY <2>1 DEF Delay, Handed
    <3>2. OneGenerator'
      <4> SUFFICES ASSUME NEW f \in Exports \ doubled' PROVE HandedOnce(f)' /\ FileInOneHand(f)'
        BY DEF OneGenerator
      <4>1. CASE f = e
        BY <2>1, <4>1 DEF Delay, Handed, OneGenerator, HandedOnce, FileInOneHand, Places
      <4>2. CASE f # e
        BY <2>1, <4>2 DEF Delay, Handed, OneGenerator, HandedOnce, FileInOneHand, Places
      <4> QED
        BY <4>1, <4>2
    <3> QED
      BY <1>0, <3>1, <3>2
  <2>2. CASE DelayRaises(e)
    <3>1. <<e, "server">> \in Jobs /\ jobAt'[<<e, "server">>] = "started"
      BY <2>2 DEF DelayRaises, StartedHere, Places
    <3>2. \A j \in Jobs \ {<<e, "server">>} : jobAt'[j] = jobAt[j]
      BY <2>2 DEF DelayRaises, StartedHere
    <3>3. NothingBeforeTheOrder' /\ OutcomesAreChanges'
      BY ZenonT(60), <2>2, <3>1, <3>2 DEF DelayRaises, Handed
    <3>4. NoExportForgotten'
      BY <2>2, <3>1, <3>2 DEF DelayRaises, Handed
    <3>5. OneGenerator'
      <4> SUFFICES ASSUME NEW f \in Exports \ doubled' PROVE HandedOnce(f)' /\ FileInOneHand(f)'
        BY DEF OneGenerator
      <4>1. CASE f = e
        BY <2>2, <3>1, <3>2, <4>1 DEF DelayRaises, Handed, OneGenerator, HandedOnce,
             FileInOneHand, Places
      <4>2. CASE f # e
        BY <2>2, <3>2, <4>2 DEF DelayRaises, Handed, OneGenerator, HandedOnce, FileInOneHand, Places
      <4> QED
        BY <4>1, <4>2
    <3> QED
      BY <1>0, <3>3, <3>4, <3>5
  <2> QED
    BY <1>2, <2>1, <2>2 DEF HandOver
<1>3. ASSUME NEW e \in Exports, TakeMessage(e) PROVE ExportsInv'
  <2>1. <<e, "worker">> \in Jobs /\ jobAt'[<<e, "worker">>] = "started"
    BY <1>3 DEF TakeMessage, Places
  <2>2. \A j \in Jobs \ {<<e, "worker">>} : jobAt'[j] = jobAt[j]
    BY <1>3 DEF TakeMessage
  <2>3. NothingBeforeTheOrder' /\ OutcomesAreChanges' /\ NoExportForgotten'
    BY <1>3, <2>1, <2>2 DEF TakeMessage
  <2>4. OneGenerator'
    <3> SUFFICES ASSUME NEW f \in Exports \ doubled' PROVE HandedOnce(f)' /\ FileInOneHand(f)'
      BY DEF OneGenerator
    <3>1. CASE f = e
      BY <1>3, <2>1, <2>2, <3>1 DEF TakeMessage, OneGenerator, HandedOnce, FileInOneHand, Places
    <3>2. CASE f # e
      BY <1>3, <2>2, <3>2 DEF TakeMessage, OneGenerator, HandedOnce, FileInOneHand, Places
    <3> QED
      BY <3>1, <3>2
  <2> QED
    BY <1>0, <2>3, <2>4
<1>4. ASSUME NEW e \in Exports, LoseOrder(e) \/ LoseMessage(e) PROVE ExportsInv'
  <2>1. NothingBeforeTheOrder' /\ OutcomesAreChanges' /\ NoExportForgotten'
    BY <1>4 DEF LoseOrder, LoseMessage, Mishap
  <2>2. OneGenerator'
    <3> SUFFICES ASSUME NEW f \in Exports \ doubled' PROVE HandedOnce(f)' /\ FileInOneHand(f)'
      BY DEF OneGenerator
    <3>1. CASE f = e
      BY <1>4, <3>1 DEF LoseOrder, LoseMessage, Mishap, OneGenerator, HandedOnce, FileInOneHand, Places
    <3>2. CASE f # e
      BY <1>4, <3>2 DEF LoseOrder, LoseMessage, Mishap, OneGenerator, HandedOnce, FileInOneHand, Places
    <3> QED
      BY <3>1, <3>2
  <2> QED
    BY <1>0, <2>1, <2>2
<1>5. ASSUME NEW j \in Jobs, JobStep(j) \/ LoseJob(j) PROVE ExportsInv'
  <2> DEFINE e == ExportOf(j)
  <2>1. /\ jobAt[j] \notin JobEnds
        /\ jobAt'[j] # "none"
        /\ \A k \in Jobs \ {j} : jobAt'[k] = jobAt[k] /\ loadedAs'[k] = loadedAs[k]
        /\ \A f \in Exports \ {e} : export'[f] = export[f] /\ file'[f] = file[f]
        /\ UNCHANGED <<ordering, broker, doubled>>
        /\ mishaps \subseteq mishaps'
    BY <1>5 DEF JobStep, LoseJob, Mishap, SelectExport, CommitProcessing, OpenFile, CloseFile,
         CommitCompleted, WriteFails, CommitFailed, JobGoes, SaveStatus, Written
  <2>2. OutcomesAreChanges' /\ NothingBeforeTheOrder'
    <3>1. /\ jobAt'[j] \in {"reading", "writing", "written", "failing"} => loadedAs'[j] = "processing"
          /\ ordering[e] # "unsent" /\ export'[e].status # "absent"
      BY <1>5, <2>1 DEF JobStep, LoseJob, Mishap, SelectExport, CommitProcessing, OpenFile,
           CloseFile, CommitCompleted, WriteFails, CommitFailed, JobGoes, SaveStatus, Written, Flushed
    <3> QED
      BY <2>1, <3>1
  <2>3. NoExportForgotten'
    <3> SUFFICES ASSUME NEW f \in Exports, export'[f].status \in {"queued", "processing"}
                 PROVE  InHand(f)' \/ f \in mishaps'
      OBVIOUS
    <3>1. CASE f # e
      BY <2>1, <3>1
    <3>2. CASE f = e /\ jobAt'[j] \notin JobEnds
      BY <2>1, <3>2
    <3>3. CASE f = e /\ jobAt'[j] \in JobEnds
      BY <1>5, <2>1, <3>3 DEF JobStep, LoseJob, Mishap, SelectExport, CommitProcessing, OpenFile,
           CloseFile, CommitCompleted, WriteFails, CommitFailed, JobGoes, SaveStatus, Written, Flushed
    <3> QED
      BY <3>1, <3>2, <3>3
  <2>4. OneGenerator'
    <3> SUFFICES ASSUME NEW f \in Exports \ doubled' PROVE HandedOnce(f)' /\ FileInOneHand(f)'
      BY DEF OneGenerator
    <3>1. CASE f # e
      BY <2>1, <3>1 DEF OneGenerator, HandedOnce, FileInOneHand, Places
    <3>2. CASE f = e
      <4>1. PICK p \in Places : j = <<e, p>>
        OBVIOUS
      <4>2. /\ ordering[e] = "answered" /\ e \notin broker
            /\ \A q \in Places \ {p} : jobAt[<<e, q>>] = "none" /\ jobAt'[<<e, q>>] = "none"
        <5>1. HandedOnce(e) /\ jobAt[<<e, p>>] # "none"
          BY <2>1, <3>2, <4>1 DEF OneGenerator
        <5>2. ordering[e] = "answered" /\ e \notin broker
          BY <5>1 DEF HandedOnce
        <5>3. \A q \in Places \ {p} : jobAt[<<e, q>>] = "none"
          BY <5>1 DEF HandedOnce, Places
        <5>4. ASSUME NEW q \in Places \ {p} PROVE <<e, q>> \in Jobs \ {j}
          BY <4>1
        <5> QED
          BY <2>1, <5>2, <5>3, <5>4
      <4>3. HandedOnce(e)'
        BY <2>1, <4>2 DEF HandedOnce, Places
      <4>4. ~export[e].path /\ (jobAt[j] = "written" => file[e] = "whole")
        BY <2>1, <3>2, <4>1 DEF OneGenerator, FileInOneHand
      <4>5. /\ jobAt'[j] = "written" => file'[e] = "whole"
            /\ export'[e].path => file'[e] = "whole" /\ jobAt'[j] \in JobEnds
        BY <1>5, <2>1, <4>4 DEF JobStep, LoseJob, Mishap, SelectExport, CommitProcessing,
             OpenFile, CloseFile, CommitCompleted, WriteFails, CommitFailed, JobGoes, SaveStatus,
             Written
      <4>6. FileInOneHand(e)'
        BY ZenonT(60), <2>1, <4>1, <4>2, <4>5 DEF FileInOneHand
      <4> QED
        BY <3>2, <4>3, <4>6
    <3> QED
      BY <3>1, <3>2
  <2> QED
    BY <1>0, <2>2, <2>3, <2>4
<1>6. CASE UNCHANGED exportVars
  BY <1>6 DEF exportVars, OneGenerator, HandedOnce, FileInOneHand
<1> QED
  BY <1>1, <1>2, <1>3, <1>4, <1>5, <1>6 DEF ExportsNext

LEMMA ExportsInvariant == ExportsSpec => []ExportsInv
<1> QED
  BY ExportsStart, ExportsStep, PTL DEF ExportsSpec

(* An export that is not settled is with its request, the broker or a         *)
(* generator, or one of them was lost (create_export(), the tasks).          *)
THEOREM NoExportIsForgotten == ExportsSpec => []NoExportForgotten
<1>1. ExportsInv => NoExportForgotten
  BY DEF ExportsInv
<1> QED
  BY <1>1, ExportsInvariant, PTL

(* A file that is offered for download is whole, unless two generators were   *)
(* started for it.                                                          *)
THEOREM OfferedFilesStayWhole == ExportsSpec => []OfferedFilesAreWhole
BY OfferedFiles, ExportsInvariant, PTL

(* Multi-factor authentication.  However requests overlap, the flag is never *)
(* withdrawn, so a session that loaded it set finds it set.                  *)
FlagStays ==
    /\ Having("active") # {} => mfaEnabled
    /\ \A m \in DemandsUnderWay : seen[m].enabled => mfaEnabled

(* Without overlap a session's view is the table until its own commit, what   *)
(* it decided on still holds then, and codes exist with an active secret.    *)
OneDemandAtATime ==
    \A m \in DemandsUnderWay : /\ seen[m] = [enabled |-> mfaEnabled, secret |-> secret]
                               /\ \A n \in DemandsUnderWay : m = n
DecisionsHold ==
    \A m \in DemandsUnderWay :
        LET s == demand[m].secret IN
        /\ demandAt[m] = "adding" => Having("active") = {}
        /\ demandAt[m] \in {"confirming", "disabling"} => secret[s].status = "pending"
        /\ demandAt[m] = "verified" => /\ secret[s].status = "active"
                                       /\ demand[m].code \in {TotpCode} \cup secret[s].codes
CodesOnRecord ==
    /\ mfaEnabled => \E s \in Demands : Having("active") = {s}
    /\ ~mfaEnabled => handedOut = {} /\ accepted = {}
    /\ \A s \in Having("active") : secret[s].codes = handedOut \ accepted

MfaInv == /\ MfaTypeOK /\ FlagStays
          /\ ~demandsOverlapped => OneDemandAtATime /\ DecisionsHold /\ CodesOnRecord

LEMMA MfaSafe == MfaInv => EnabledMeansConfigured /\ RecoveryCodesSpend
BY DEF MfaInv, FlagStays, CodesOnRecord, EnabledMeansConfigured, RecoveryCodesSpend

LEMMA MfaStart == MfaInit => MfaInv
<1> SUFFICES ASSUME MfaInit PROVE MfaInv
  OBVIOUS
<1> USE DEF MfaInit
<1>1. \A m \in Demands : NoDemand(m) \in Demand /\ Unseen \in Sight
  BY DEF NoDemand, Demand, Codes, Unseen, Sight, NoSecret, MFASecret, MFASecretStatus
<1>2. MfaTypeOK
  BY <1>1 DEF MfaTypeOK, NoSecret, MFASecret, MFASecretStatus
<1>3. Having("active") = {} /\ DemandsUnderWay = {}
  BY DEF Having, NoSecret, DemandsUnderWay, InProgress
<1> QED
  BY <1>2, <1>3 DEF MfaInv, FlagStays, OneDemandAtATime, DecisionsHold, CodesOnRecord

(* What a request brings, and what it holds when it has ended.               *)
LEMMA DemandRows ==
    ASSUME MfaTypeOK, NEW m \in Demands
    PROVE  /\ DemandsOf(m) \subseteq Demand
           /\ NoDemand(m) \in Demand
           /\ Unseen \in Sight
           /\ CodesOf(m) \subseteq RecoveryCodes
           /\ Held(m) \in [Demands -> MFASecret]
<1> USE DEF MfaTypeOK
<1>1. DemandsOf(m) \subseteq Demand
  BY DEF DemandsOf, Demand, Codes
<1>2. NoDemand(m) \in Demand /\ Unseen \in Sight
  BY DEF NoDemand, Demand, Codes, Unseen, Sight, NoSecret, MFASecret, MFASecretStatus
<1>3. Held(m) \in [Demands -> MFASecret]
  BY DEF Held, Sight
<1> QED
  BY <1>1, <1>2, <1>3 DEF CodesOf, RecoveryCodes

(* A request that ends leaves the others as they are; without overlap there   *)
(* are none, and only what it wrote has to be looked at.                     *)
LEMMA DemandEnds ==
    ASSUME MfaInv, NEW m \in DemandsUnderWay, NEW label \in Closed,
           Goes(m, demandAt[m], label),
           seen' = [seen EXCEPT ![m] = Unseen], demand' = [demand EXCEPT ![m] = NoDemand(m)],
           UNCHANGED <<timedOut, demandsOverlapped>>,
           mfaEnabled' \in BOOLEAN, secret' \in [Demands -> MFASecret],
           handedOut' \subseteq RecoveryCodes, accepted' \subseteq RecoveryCodes,
           mfaEnabled => mfaEnabled', (Having("active") # {} => mfaEnabled)',
           ~demandsOverlapped => CodesOnRecord'
    PROVE  MfaInv'
<1> USE DemandRows DEF MfaInv, DemandsUnderWay, Goes
<1>1. MfaTypeOK'
  BY DEF MfaTypeOK, Closed
<1>2. DemandsUnderWay' = DemandsUnderWay \ {m}
  BY DEF MfaTypeOK, InProgress, Closed
<1>3. FlagStays'
  BY <1>2 DEF FlagStays, MfaTypeOK
<1>4. ~demandsOverlapped' => DemandsUnderWay' = {}
  BY <1>2 DEF OneDemandAtATime
<1>5. ~demandsOverlapped' => OneDemandAtATime' /\ DecisionsHold' /\ CodesOnRecord'
  BY <1>4 DEF OneDemandAtATime, DecisionsHold
<1> QED
  BY <1>1, <1>3, <1>5

LEMMA MfaStep == MfaInv /\ [MfaNext]_mfaVars => MfaInv'
<1> SUFFICES ASSUME MfaInv, [MfaNext]_mfaVars PROVE MfaInv'
  OBVIOUS
<1> USE DemandRows DEF MfaInv
<1>1. ASSUME NEW m \in Demands, ReceiveDemand(m) PROVE MfaInv'
  <2>1. PICK x \in DemandsOf(m) : demand' = [demand EXCEPT ![m] = x]
    BY <1>1 DEF ReceiveDemand
  <2>2. [enabled |-> mfaEnabled, secret |-> secret] \in Sight
    BY DEF MfaTypeOK, Sight
  <2>3. MfaTypeOK'
    BY <1>1, <2>1, <2>2 DEF ReceiveDemand, MfaTypeOK, Goes, InProgress
  <2>4. DemandsUnderWay' = DemandsUnderWay \cup {m} /\ m \notin DemandsUnderWay
    BY <1>1 DEF ReceiveDemand, DemandsUnderWay, MfaTypeOK, Goes, InProgress
  <2>5. /\ seen'[m] = [enabled |-> mfaEnabled, secret |-> secret] /\ demandAt'[m] = "received"
        /\ \A n \in DemandsUnderWay : seen'[n] = seen[n]
        /\ UNCHANGED <<mfaEnabled, secret, handedOut, accepted>>
    BY <1>1, <2>4 DEF ReceiveDemand, MfaTypeOK, Goes, DemandsUnderWay
  <2>6. FlagStays'
    BY <2>4, <2>5 DEF FlagStays, Having
  <2>7. ~demandsOverlapped' => ~demandsOverlapped /\ DemandsUnderWay' = {m}
    BY <1>1, <2>4 DEF ReceiveDemand
  <2>8. ~demandsOverlapped' => OneDemandAtATime' /\ DecisionsHold' /\ CodesOnRecord'
    BY <2>5, <2>7 DEF OneDemandAtATime, DecisionsHold, CodesOnRecord, Having
  <2> QED
    BY <2>3, <2>6, <2>8
<1>2. ASSUME NEW m \in Demands, NEW kind \in {"setup", "confirm", "login", "verify"},
             NEW label \in InProgress \cup Closed, NEW s \in Demands, Decides(m, kind, label, s),
             label = "adding" => Having("active") = {},
             label \in {"confirming", "disabling"} => secret[s].status = "pending",
             label = "verified" => secret[s].status = "active" /\ Fits(m, s),
             label # "received"
      PROVE  MfaInv'
  <2>1. m \in DemandsUnderWay /\ Goes(m, demandAt[m], label)
    BY <1>2 DEF Decides, Goes, DemandsUnderWay, InProgress
  <2>2. CASE label \in Closed
    <3>1. ~demandsOverlapped => CodesOnRecord'
      BY <1>2 DEF Decides, CodesOnRecord, Having
    <3> QED
      BY <1>2, <2>1, <2>2, <3>1, DemandEnds DEF Decides, MfaTypeOK, FlagStays, Having
  <2>3. CASE label \notin Closed
    <3>1. /\ seen' = [seen EXCEPT ![m] = [@ EXCEPT !.secret = Held(m)]]
          /\ demand' = [demand EXCEPT ![m] = [@ EXCEPT !.secret = s]]
          /\ demandAt' = [demandAt EXCEPT ![m] = label]
          /\ UNCHANGED <<mfaEnabled, secret, timedOut, handedOut, accepted, demandsOverlapped>>
      BY <1>2, <2>3 DEF Decides, Goes
    <3>2. MfaTypeOK'
      <4>1. [seen[m] EXCEPT !.secret = Held(m)] \in Sight
        BY DEF MfaTypeOK, Sight
      <4>2. [demand[m] EXCEPT !.secret = s] \in Demand
        BY DEF MfaTypeOK, Demand
      <4>3. label \in InProgress
        BY <2>3
      <4> QED
        BY <3>1, <4>1, <4>2, <4>3 DEF MfaTypeOK
    <3>3. DemandsUnderWay' = DemandsUnderWay
      BY <1>2, <2>1, <2>3, <3>1 DEF DemandsUnderWay, MfaTypeOK
    <3>4. FlagStays'
      BY <3>1, <3>3 DEF FlagStays, MfaTypeOK, Having, Sight
    <3>5. ASSUME ~demandsOverlapped PROVE OneDemandAtATime' /\ DecisionsHold' /\ CodesOnRecord'
      <4>1. DemandsUnderWay = {m} /\ seen[m].secret = secret /\ seen[m].enabled = mfaEnabled
        BY <2>1, <3>5 DEF OneDemandAtATime
      <4>2. Held(m) = secret
        BY <4>1 DEF Held, MfaTypeOK
      <4>3. OneDemandAtATime'
        BY <3>1, <3>3, <4>1, <4>2 DEF OneDemandAtATime, MfaTypeOK, Sight
      <4>4. /\ demand'[m].secret = s /\ demand'[m].code = demand[m].code
            /\ demandAt'[m] = label /\ m \in Demands
        BY <3>1 DEF MfaTypeOK, Demand
      <4>5. DecisionsHold'
        BY <1>2, <3>1, <3>3, <4>1, <4>2, <4>4 DEF DecisionsHold, Having, Fits
      <4>6. CodesOnRecord'
        BY <3>1, <3>5 DEF CodesOnRecord, Having
      <4> QED
        BY <4>3, <4>5, <4>6
    <3> QED
      BY <3>1, <3>2, <3>4, <3>5
  <2> QED
    BY <2>2, <2>3
<1>3. ASSUME NEW m \in Demands, CommitSetup(m) PROVE MfaInv'
  <2>1. m \in DemandsUnderWay /\ Goes(m, demandAt[m], "done")
    BY <1>3 DEF CommitSetup, Goes, DemandsUnderWay, InProgress
  <2>2. secret' \in [Demands -> MFASecret] /\ Having("active")' = Having("active") \ {m}
    BY <1>3 DEF CommitSetup, Writes, MfaTypeOK, MFASecret, MFASecretStatus, Having
  <2>3. \A s \in Demands \ {m} : secret'[s] = secret[s]
    BY <1>3 DEF CommitSetup, Writes, MfaTypeOK
  <2>4. ~demandsOverlapped => CodesOnRecord'
    <3>1. ~demandsOverlapped => Having("active") = {}
      BY <1>3, <2>1 DEF CommitSetup, Goes, DecisionsHold
    <3> QED
      BY <1>3, <2>2, <3>1 DEF CommitSetup, CodesOnRecord
  <2> QED
    BY <1>3, <2>1, <2>2, <2>4, DemandEnds DEF CommitSetup, Writes, Closes, MfaTypeOK, FlagStays, Closed
<1>4. ASSUME NEW m \in Demands, CommitExpiry(m) PROVE MfaInv'
  <2> DEFINE s == demand[m].secret
  <2>1. m \in DemandsUnderWay /\ Goes(m, demandAt[m], "refused") /\ s \in Demands
    BY <1>4 DEF CommitExpiry, Goes, DemandsUnderWay, InProgress, MfaTypeOK, Demand
  <2>2. /\ secret' \in [Demands -> MFASecret]
        /\ Having("active")' = Having("active") \ {s}
        /\ \A r \in Demands \ {s} : secret'[r] = secret[r]
    BY ZenonT(60), <1>4, <2>1 DEF CommitExpiry, Writes, MfaTypeOK, MFASecret, MFASecretStatus, Having
  <2>3. ~demandsOverlapped => CodesOnRecord'
    <3>1. ~demandsOverlapped => s \notin Having("active")
      BY <1>4, <2>1 DEF CommitExpiry, Goes, DecisionsHold, Having
    <3>2. \A r \in Having("active") : r \in Demands
      BY DEF Having
    <3> QED
      BY <1>4, <2>2, <3>1, <3>2 DEF CommitExpiry, CodesOnRecord
  <2> QED
    BY ZenonT(60), <1>4, <2>1, <2>2, <2>3, DemandEnds DEF CommitExpiry, Writes, Closes, MfaTypeOK, FlagStays, Closed
<1>5. ASSUME NEW m \in Demands, CommitConfirm(m) PROVE MfaInv'
  <2> DEFINE s == demand[m].secret
  <2>1. m \in DemandsUnderWay /\ Goes(m, demandAt[m], "done") /\ s \in Demands
    BY <1>5 DEF CommitConfirm, Goes, DemandsUnderWay, InProgress, MfaTypeOK, Demand
  <2>2. /\ secret' \in [Demands -> MFASecret]
        /\ secret'[s].codes = CodesOf(m)
        /\ Having("active")' = {s}
    BY <1>5, <2>1 DEF CommitConfirm, Free, Writes, MfaTypeOK, MFASecret, MFASecretStatus, Having
  <2>3. mfaEnabled' = TRUE
    BY <1>5, <2>1 DEF CommitConfirm, Flushed, FlagStays, MfaTypeOK, Sight
  <2>4. ~demandsOverlapped => CodesOnRecord'
    <3>1. ~demandsOverlapped => Having("active") = {}
      BY <1>5, <2>1 DEF CommitConfirm, Goes, Free, DecisionsHold, Having
    <3>2. ~demandsOverlapped => handedOut' = CodesOf(m) /\ accepted' = {}
      BY <1>5, <3>1 DEF CommitConfirm, CodesOnRecord, MfaTypeOK
    <3> QED
      BY <2>1, <2>2, <2>3, <3>2 DEF CodesOnRecord
  <2>5. handedOut' \subseteq RecoveryCodes /\ accepted' \subseteq RecoveryCodes
    BY <1>5 DEF CommitConfirm, MfaTypeOK
  <2> QED
    BY <1>5, <2>1, <2>2, <2>3, <2>4, <2>5, DemandEnds DEF CommitConfirm, Writes, Closes, Closed
<1>6. ASSUME NEW m \in Demands, CommitVerified(m) PROVE MfaInv'
  <2> DEFINE s == demand[m].secret
  <2>1. /\ m \in DemandsUnderWay /\ Goes(m, demandAt[m], "done") /\ s \in Demands
        /\ demandAt[m] = "verified"
    BY <1>6 DEF CommitVerified, Goes, DemandsUnderWay, InProgress, MfaTypeOK, Demand
  <2>2. CodesLoaded(m) \subseteq RecoveryCodes /\ secret[s].codes \subseteq RecoveryCodes
    BY <2>1 DEF CodesLoaded, MfaTypeOK, Sight, MFASecret
  <2>3. Flushed(secret[s].codes, CodesLoaded(m), CodesKept(m)) \in SUBSET RecoveryCodes
    BY <2>2 DEF Flushed, CodesKept
  <2>4. /\ secret' \in [Demands -> MFASecret]
        /\ Having("active")' = Having("active")
        /\ secret'[s].codes = Flushed(secret[s].codes, CodesLoaded(m), CodesKept(m))
    BY <1>6, <2>1, <2>3 DEF CommitVerified, Writes, MfaTypeOK, MFASecret, Having
  <2>5. ASSUME ~demandsOverlapped PROVE CodesOnRecord'
    <3>1. /\ s \in Having("active") /\ CodesLoaded(m) = secret[s].codes
      BY <2>1, <2>5 DEF DecisionsHold, OneDemandAtATime, Having, CodesLoaded
    <3>2. mfaEnabled /\ Having("active") = {s}
      BY <3>1, <2>5 DEF CodesOnRecord, FlagStays
    <3>3. secret'[s].codes = secret[s].codes \ {demand[m].code}
      BY <2>4, <3>1 DEF Flushed, CodesKept
    <3>4. secret[s].codes = handedOut \ accepted
      BY <2>5, <3>1 DEF CodesOnRecord
    <3>5. secret'[s].codes = handedOut' \ accepted'
      BY <1>6, <2>2, <3>3, <3>4 DEF CommitVerified
    <3> QED
      BY <1>6, <2>1, <2>4, <3>2, <3>5 DEF CodesOnRecord, CommitVerified
  <2>6. accepted' \subseteq RecoveryCodes
    BY <1>6 DEF CommitVerified, MfaTypeOK
  <2> QED
    BY <1>6, <2>1, <2>4, <2>5, <2>6, DemandEnds
       DEF CommitVerified, Writes, Closes, MfaTypeOK, FlagStays, Closed
<1>7. ASSUME NEW m \in Demands, LoseDemand(m) PROVE MfaInv'
  <2>1. ~demandsOverlapped => CodesOnRecord'
    BY <1>7 DEF LoseDemand, CodesOnRecord, Having
  <2> QED
    BY <1>7, <2>1, DemandEnds DEF LoseDemand, Closes, MfaTypeOK, FlagStays, Having, Closed
<1>8. ASSUME NEW s \in Demands, SetupTimesOut(s) PROVE MfaInv'
  BY <1>8 DEF SetupTimesOut, MfaTypeOK, FlagStays, OneDemandAtATime, DecisionsHold, CodesOnRecord,
       Having, DemandsUnderWay
<1>9. ASSUME NEW m \in Demands, LookForActive(m) PROVE MfaInv'
  BY <1>2, <1>9 DEF LookForActive, InProgress, Closed
<1>10. ASSUME NEW m \in Demands, SelectPending(m) PROVE MfaInv'
  <2>1. demand[m].secret \in Demands
    BY DEF MfaTypeOK, Demand
  <2> QED
    BY <1>2, <1>10, <2>1 DEF SelectPending, InProgress, Closed, Confirmable
<1>11. ASSUME NEW m \in Demands, NEW kind \in {"login", "verify"}, SelectActive(m, kind)
       PROVE  MfaInv'
  BY <1>2, <1>11 DEF SelectActive, InProgress, Closed, Having
<1>12. ASSUME NEW m \in Demands, LogInWithoutMfa(m) PROVE MfaInv'
  BY <1>2, <1>12 DEF LogInWithoutMfa, InProgress, Closed
<1>13. CASE UNCHANGED mfaVars
  BY <1>13 DEF mfaVars, MfaTypeOK, FlagStays, OneDemandAtATime, DecisionsHold, CodesOnRecord,
       Having, DemandsUnderWay
<1> QED
  BY <1>1, <1>3, <1>4, <1>5, <1>6, <1>7, <1>8, <1>9, <1>10, <1>11, <1>12, <1>13
     DEF MfaNext, LogIn, Verify

LEMMA MfaInvariant == MfaSpec => []MfaInv
BY MfaStart, MfaStep, PTL DEF MfaSpec

(* Whoever is asked for a second factor has one that can be checked           *)
(* (setup_totp(), confirm_totp(), verify_for_user()).                        *)
THEOREM EnabledIsConfigured == MfaSpec => []EnabledMeansConfigured
BY MfaSafe, MfaInvariant, PTL

(* The codes on record are those shown less those accepted, for any number    *)
(* of setups, logins and challenges that do not overlap.                     *)
THEOREM RecoveryCodesAreSpent == MfaSpec => []RecoveryCodesSpend
BY MfaSafe, MfaInvariant, PTL

(* Which overlap breaks it.  A setup expires while it is confirmed; a setup is *)
(* confirmed twice; two requests use recovery codes.                        *)
ExpiriesApart ==
    \A m, n \in Demands :
        demandAt[m] = "confirming" /\ demandAt[n] = "disabling" => demand[m].secret # demand[n].secret
ConfirmsApart ==
    \A m, n \in Demands :
        /\ demandAt[m] = "confirming" /\ demandAt[n] = "confirming"
        /\ demand[m].secret = demand[n].secret
        => m = n
Spending(m) == demandAt[m] \in {"received", "verified"} /\ demand[m].code \in RecoveryCodes
SpendsApart == \A m, n \in Demands : Spending(m) /\ Spending(n) => m = n

(* Who is asked for a second factor has one active secret; and its codes are  *)
(* those shown less those accepted.                                         *)
EnabledHasOne == mfaEnabled => \E s \in Demands : Having("active") = {s}
CodesLeft     == \A s \in Having("active") : secret[s].codes = handedOut \ accepted

(* What is confirmed becomes active and stays so; what expires never was.    *)
Consistent(m) ==
    /\ secret[m].status # "absent" => demandAt[m] = "done"
    /\ demandAt[m] = "confirming" => secret[demand[m].secret].status \in {"pending", "active"}
    /\ demandAt[m] = "disabling" => secret[demand[m].secret].status \in {"pending", "disabled"}
    /\ demandAt[m] = "verified" => secret[demand[m].secret].status = "active"
OneActive == \A s, t \in Having("active") : s = t

(* Codes come with the one confirmation, and whoever spends one has loaded    *)
(* those that are left, or none.                                            *)
CodesAt(s) ==
    /\ secret[s].status # "active" => secret[s].codes = {}
    /\ \A m \in Demands : /\ seen[m].secret[s].codes # {} => secret[s].status = "active"
                          /\ Spending(m) => seen[m].secret[s].codes \in {{}, secret[s].codes}
SpendsCode(m) ==
    /\ demandAt[m] = "confirming" => secret[demand[m].secret].status = "pending"
    /\ demandAt[m] = "verified" => demand[m].code \in {TotpCode} \cup CodesLoaded(m)
NothingYet == Having("active") = {} => handedOut = {} /\ accepted = {}

(* What a step does to a request, and to a secret.                           *)
LEMMA DemandStep ==
    ASSUME MfaTypeOK, [MfaNext]_mfaVars, NEW m \in Demands
    PROVE  \/ UNCHANGED <<demandAt[m], demand[m], seen[m]>>
           \/ /\ demandAt'[m] \in Closed /\ demandAt[m] \in InProgress
              /\ seen'[m] = Unseen /\ demand'[m] = NoDemand(m)
           \/ /\ demandAt[m] = "unsent" /\ demandAt'[m] = "received"
              /\ seen'[m].secret = secret /\ UNCHANGED secret
           \/ /\ demandAt[m] = "received" /\ demandAt'[m] \in InProgress \ {"received"}
              /\ demand'[m].code = demand[m].code /\ seen'[m].secret = Held(m)
              /\ UNCHANGED secret
              /\ demandAt'[m] \in {"confirming", "disabling"} =>
                    secret[demand'[m].secret].status = "pending"
              /\ demandAt'[m] = "verified" =>
                    /\ secret[demand'[m].secret].status = "active"
                    /\ Fits(m, demand'[m].secret)
<1> USE DEF MfaTypeOK, Goes, InProgress, Closed
<1>1. ASSUME NEW n \in Demands, ReceiveDemand(n)
      PROVE  \/ UNCHANGED <<demandAt[m], demand[m], seen[m]>>
             \/ /\ demandAt[m] = "unsent" /\ demandAt'[m] = "received"
                /\ seen'[m].secret = secret /\ UNCHANGED secret
  BY <1>1 DEF ReceiveDemand
<1>2. ASSUME NEW n \in Demands, NEW kind, NEW label \in Closed \cup (InProgress \ {"received"}),
             NEW s \in Demands, Decides(n, kind, label, s)
      PROVE  \/ UNCHANGED <<demandAt[m], demand[m], seen[m]>>
             \/ /\ n = m /\ demandAt'[m] \in Closed /\ demandAt[m] \in InProgress
                /\ seen'[m] = Unseen /\ demand'[m] = NoDemand(m)
             \/ /\ n = m /\ demandAt[m] = "received" /\ demandAt'[m] = label
                /\ label \in InProgress \ {"received"}
                /\ demand'[m].code = demand[m].code /\ seen'[m].secret = Held(m)
                /\ demand'[m].secret = s
                /\ UNCHANGED secret
  <2>1. CASE label \in Closed
    BY <1>2, <2>1 DEF Decides
  <2>2. CASE label \notin Closed
    BY <1>2, <2>2 DEF Decides, Demand, Sight
  <2> QED
    BY <2>1, <2>2
<1>3. ASSUME NEW n \in Demands, Closes(n), demandAt[n] \in InProgress,
             NEW label \in Closed, demandAt' = [demandAt EXCEPT ![n] = label]
      PROVE  \/ UNCHANGED <<demandAt[m], demand[m], seen[m]>>
             \/ /\ demandAt'[m] \in Closed /\ demandAt[m] \in InProgress
                /\ seen'[m] = Unseen /\ demand'[m] = NoDemand(m)
  BY <1>3 DEF Closes
<1>4. CASE \E n \in Demands : ReceiveDemand(n)
  BY <1>1, <1>4
<1>5. ASSUME NEW n \in Demands, LookForActive(n)
      PROVE  \E label \in {"refused", "adding"} : Decides(n, "setup", label, n)
  BY <1>5 DEF LookForActive
<1>6. CASE \E n \in Demands : LookForActive(n)
  BY <1>2, <1>5, <1>6
<1>7. CASE \E n \in Demands : SelectPending(n)
  <2>1. PICK n \in Demands : SelectPending(n)
    BY <1>7
  <2>2. demand[n].secret \in Demands
    BY DEF Demand
  <2>3. PICK label \in {"refused", "disabling", "confirming"} :
          /\ Decides(n, "confirm", label, demand[n].secret)
          /\ label # "refused" => Confirmable(demand[n].secret)
    BY <2>1 DEF SelectPending
  <2> QED
    BY <1>2, <2>2, <2>3 DEF Confirmable
<1>8. CASE \E n \in Demands : LogIn(n) \/ Verify(n)
  <2>1. PICK n \in Demands, kind \in {"login", "verify"} : SelectActive(n, kind)
    BY <1>8 DEF LogIn, Verify
  <2>2. CASE Decides(n, kind, "refused", n)
    BY <1>2, <2>2
  <2>3. CASE \E s \in Having("active") : Decides(n, kind, "verified", s) /\ Fits(n, s)
    BY <1>2, <2>3 DEF Having
  <2> QED
    BY <2>1, <2>2, <2>3 DEF SelectActive
<1>9. CASE \E n \in Demands : LogInWithoutMfa(n)
  BY <1>2, <1>9 DEF LogInWithoutMfa
<1>10. CASE \E n \in Demands : \/ CommitSetup(n) \/ CommitExpiry(n) \/ CommitConfirm(n)
                               \/ CommitVerified(n) \/ LoseDemand(n)
  BY <1>3, <1>10 DEF CommitSetup, CommitExpiry, CommitConfirm, CommitVerified, LoseDemand, Writes,
     DemandsUnderWay
<1>11. CASE (\E s \in Demands : SetupTimesOut(s)) \/ UNCHANGED mfaVars
  BY <1>11 DEF SetupTimesOut, mfaVars
<1> QED
  BY <1>4, <1>6, <1>7, <1>8, <1>9, <1>10, <1>11 DEF MfaNext

LEMMA SecretStep ==
    ASSUME MfaTypeOK, [MfaNext]_mfaVars, NEW s \in Demands
    PROVE  \/ secret'[s] = secret[s]
           \/ CommitSetup(s) /\ secret'[s] = [status |-> "pending", codes |-> {}]
           \/ \E m \in Demands :
                 /\ demand[m].secret = s
                 /\ \/ CommitExpiry(m) /\ secret'[s] = [secret[s] EXCEPT !.status = "disabled"]
                    \/ CommitConfirm(m) /\ secret'[s] = [status |-> "active", codes |-> CodesOf(m)]
                    \/ /\ CommitVerified(m)
                       /\ secret'[s] = [secret[s] EXCEPT
                                        !.codes = Flushed(@, CodesLoaded(m), CodesKept(m))]
<1> USE DEF MfaTypeOK
<1>1. CASE UNCHANGED secret
  BY <1>1
<1>2. CASE \E m \in Demands : \/ CommitSetup(m) \/ CommitExpiry(m) \/ CommitConfirm(m)
                              \/ CommitVerified(m)
  BY <1>2 DEF CommitSetup, CommitExpiry, CommitConfirm, CommitVerified, Writes
<1> QED
  BY <1>1, <1>2 DEF MfaNext, mfaVars, ReceiveDemand, LookForActive, SelectPending, LogIn, Verify,
     SelectActive, LogInWithoutMfa, Decides, LoseDemand, SetupTimesOut

LEMMA StatusStep ==
    ASSUME MfaTypeOK, \A m \in Demands : Consistent(m), [MfaNext]_mfaVars, NEW s \in Demands
    PROVE  \/ secret'[s].status = secret[s].status
           \/ /\ secret[s].status = "absent" /\ secret'[s].status = "pending"
              /\ demandAt'[s] = "done"
           \/ \E m \in Demands :
                 /\ demandAt[m] = "confirming" /\ demand[m].secret = s /\ demandAt'[m] = "done"
                 /\ secret[s].status \in {"pending", "active"} /\ secret'[s].status = "active"
                 /\ Having("active") \subseteq {s} /\ Having("active")' = {s}
           \/ \E m \in Demands :
                 /\ demandAt[m] = "disabling" /\ demand[m].secret = s
                 /\ secret[s].status \in {"pending", "disabled"} /\ secret'[s].status = "disabled"
<1> USE DEF MfaTypeOK, MFASecret, Goes
<1>1. CASE secret'[s] = secret[s]
  BY <1>1
<1>2. CASE CommitSetup(s) /\ secret'[s] = [status |-> "pending", codes |-> {}]
  BY <1>2 DEF CommitSetup, Consistent
<1>3. ASSUME NEW m \in Demands, demand[m].secret = s, CommitExpiry(m),
             secret'[s] = [secret[s] EXCEPT !.status = "disabled"]
      PROVE  /\ demandAt[m] = "disabling" /\ demand[m].secret = s
             /\ secret[s].status \in {"pending", "disabled"} /\ secret'[s].status = "disabled"
  BY <1>3 DEF CommitExpiry, Consistent
<1>4. ASSUME NEW m \in Demands, demand[m].secret = s, CommitConfirm(m),
             secret'[s] = [status |-> "active", codes |-> CodesOf(m)]
      PROVE  /\ demandAt[m] = "confirming" /\ demand[m].secret = s /\ demandAt'[m] = "done"
             /\ secret[s].status \in {"pending", "active"} /\ secret'[s].status = "active"
             /\ Having("active") \subseteq {s} /\ Having("active")' = {s}
  <2>1. Having("active") \subseteq {s} /\ \A t \in Demands \ {s} : secret'[t] = secret[t]
    BY <1>4 DEF CommitConfirm, Free, Writes
  <2>2. Having("active")' = {s}
    BY <1>4, <2>1 DEF Having
  <2> QED
    BY <1>4, <2>1, <2>2 DEF CommitConfirm, Consistent
<1>5. ASSUME NEW m \in Demands,
             secret'[s] = [secret[s] EXCEPT !.codes = Flushed(@, CodesLoaded(m), CodesKept(m))]
      PROVE  secret'[s].status = secret[s].status
  BY <1>5
<1> QED
  BY <1>1, <1>2, <1>3, <1>4, <1>5, SecretStep

LEMMA ActiveStays ==
    ASSUME MfaTypeOK, \A m \in Demands : Consistent(m), [MfaNext]_mfaVars,
           NEW s \in Demands, secret[s].status = "active"
    PROVE  secret'[s].status = "active"
BY StatusStep

LEMMA ConsistentStep ==
    ASSUME MfaTypeOK, ExpiriesApart, \A n \in Demands : Consistent(n), [MfaNext]_mfaVars,
           NEW m \in Demands
    PROVE  Consistent(m)'
<1> USE DEF MfaTypeOK, Demand
<1>1. secret'[m].status # "absent" => demandAt'[m] = "done"
  <2>1. demandAt[m] = "done" => demandAt'[m] = "done"
    BY DemandStep DEF InProgress
  <2> QED
    BY <2>1, StatusStep DEF Consistent
<1>2. CASE UNCHANGED <<demandAt[m], demand[m], seen[m]>>
  <2> DEFINE s == demand[m].secret
  <2>1. s \in Demands /\ demand'[m].secret = s
    BY <1>2
  <2>2. /\ demandAt[m] = "confirming" => secret'[s].status \in {"pending", "active"}
        /\ demandAt[m] = "disabling" => secret'[s].status \in {"pending", "disabled"}
    BY <2>1, StatusStep DEF Consistent, ExpiriesApart
  <2>3. demandAt[m] = "verified" => secret'[s].status = "active"
    BY <2>1, ActiveStays DEF Consistent
  <2> QED
    BY <1>1, <1>2, <2>1, <2>2, <2>3 DEF Consistent
<1>3. CASE demandAt'[m] \in Closed \cup {"received"}
  BY <1>1, <1>3 DEF Consistent, Closed
<1>4. CASE /\ UNCHANGED secret
           /\ demandAt'[m] \in {"confirming", "disabling"} =>
                 secret[demand'[m].secret].status = "pending"
           /\ demandAt'[m] = "verified" => secret[demand'[m].secret].status = "active"
  BY <1>1, <1>4 DEF Consistent
<1> QED
  BY <1>2, <1>3, <1>4, DemandStep

LEMMA OneActiveStep ==
    ASSUME MfaTypeOK, \A m \in Demands : Consistent(m), OneActive, [MfaNext]_mfaVars
    PROVE  OneActive'
<1>1. CASE \E s \in Demands : Having("active")' = {s}
  BY <1>1 DEF OneActive
<1>2. CASE \A s \in Demands : Having("active")' # {s}
  <2>1. Having("active")' \subseteq Having("active")
    BY <1>2, StatusStep DEF Having
  <2> QED
    BY <2>1 DEF OneActive
<1> QED
  BY <1>1, <1>2

LEMMA EnabledStep ==
    ASSUME MfaTypeOK, \A m \in Demands : Consistent(m), OneActive', EnabledHasOne,
           [MfaNext]_mfaVars
    PROVE  EnabledHasOne'
<1> USE DEF MfaTypeOK
<1>1. mfaEnabled' = mfaEnabled \/ \E m \in Demands : CommitConfirm(m)
  BY DEF MfaNext, mfaVars, ReceiveDemand, LookForActive, SelectPending, LogIn, Verify,
     SelectActive, LogInWithoutMfa, Decides, LoseDemand, SetupTimesOut, CommitSetup, CommitExpiry,
     CommitVerified
<1>2. ASSUME NEW s \in Demands, secret'[s].status = "active" PROVE EnabledHasOne'
  BY <1>2 DEF EnabledHasOne, OneActive, Having
<1>3. ASSUME NEW m \in Demands, CommitConfirm(m) PROVE EnabledHasOne'
  <2>1. demand[m].secret \in Demands /\ secret'[demand[m].secret].status = "active"
    BY <1>3 DEF CommitConfirm, Writes, Demand
  <2> QED
    BY <1>2, <2>1
<1>4. CASE mfaEnabled' = mfaEnabled
  <2>1. ASSUME mfaEnabled PROVE EnabledHasOne'
    <3>1. PICK s \in Demands : secret[s].status = "active"
      BY <2>1 DEF EnabledHasOne, Having
    <3> QED
      BY <1>2, <3>1, ActiveStays
  <2> QED
    BY <1>4, <2>1 DEF EnabledHasOne
<1> QED
  BY <1>1, <1>3, <1>4

LEMMA ConsistentAlways ==
    MfaSpec /\ []ExpiriesApart => [](OneActive /\ EnabledHasOne /\ \A m \in Demands : Consistent(m))
<1> DEFINE Inv == OneActive /\ EnabledHasOne /\ \A m \in Demands : Consistent(m)
<1>1. MfaInit => Inv
  BY DEF MfaInit, OneActive, EnabledHasOne, Consistent, Having, NoSecret
<1>2. MfaTypeOK /\ ExpiriesApart /\ Inv /\ [MfaNext]_mfaVars => Inv'
  <2> SUFFICES ASSUME MfaTypeOK, ExpiriesApart, Inv, [MfaNext]_mfaVars PROVE Inv'
    OBVIOUS
  <2>1. OneActive' /\ EnabledHasOne'
    BY OneActiveStep, EnabledStep
  <2>2. ASSUME NEW m \in Demands PROVE Consistent(m)'
    BY ConsistentStep
  <2> QED
    BY <2>1, <2>2
<1>3. MfaInv => MfaTypeOK
  BY DEF MfaInv
<1> HIDE DEF Inv
<1>4. MfaSpec /\ []ExpiriesApart => []Inv
  BY <1>1, <1>2, <1>3, MfaInvariant, PTL DEF MfaSpec
<1> QED
  BY <1>4 DEF Inv

(* However requests overlap otherwise, a user whose flag is set has the one     *)
(* active secret that logins ask for, unless a setup is found expired while  *)
(* another request confirms it (confirm_totp()).                            *)
THEOREM OnlyExpiringConfirmationsLockOut == MfaSpec /\ []ExpiriesApart => []EnabledHasOne
BY ConsistentAlways, PTL

LEMMA SpendsCodeStep ==
    ASSUME MfaTypeOK, ExpiriesApart, ConfirmsApart, \A n \in Demands : Consistent(n),
           \A n \in Demands : SpendsCode(n), [MfaNext]_mfaVars, NEW m \in Demands
    PROVE  SpendsCode(m)'
<1> USE DEF MfaTypeOK, Demand
<1>1. CASE UNCHANGED <<demandAt[m], demand[m], seen[m]>>
  <2> DEFINE s == demand[m].secret
  <2>1. s \in Demands
    OBVIOUS
  <2>2. demandAt[m] = "confirming" => secret'[s].status = "pending"
    BY <1>1, <2>1, StatusStep DEF SpendsCode, ExpiriesApart, ConfirmsApart
  <2>3. CodesLoaded(m)' = CodesLoaded(m)
    BY <1>1 DEF CodesLoaded
  <2> QED
    BY <1>1, <2>2, <2>3 DEF SpendsCode
<1>2. CASE demandAt'[m] \in Closed \cup {"received"}
  BY <1>2 DEF SpendsCode, Closed
<1>3. CASE /\ demandAt'[m] \in InProgress \ {"received"}
           /\ demand'[m].code = demand[m].code /\ seen'[m].secret = Held(m) /\ UNCHANGED secret
           /\ demandAt'[m] \in {"confirming", "disabling"} =>
                 secret[demand'[m].secret].status = "pending"
           /\ demandAt'[m] = "verified" => Fits(m, demand'[m].secret)
  BY <1>3 DEF SpendsCode, Fits, CodesLoaded
<1> QED
  BY <1>1, <1>2, <1>3, DemandStep

(* An accepted code of the authenticator leaves the recovery codes alone.    *)
LEMMA OnlySpendsChange ==
    ASSUME MfaTypeOK, \A m \in Demands : SpendsCode(m), NEW m \in Demands, CommitVerified(m)
    PROVE  \/ Spending(m) /\ demand[m].code \in CodesLoaded(m)
           \/ /\ demand[m].code \notin RecoveryCodes
              /\ UNCHANGED <<secret, accepted>>
<1> USE DEF MfaTypeOK, MFASecret, Sight, Demand
<1>1. /\ demandAt[m] = "verified" /\ demand[m].secret \in Demands
      /\ CodesLoaded(m) \subseteq RecoveryCodes
  BY DEF CommitVerified, Goes, CodesLoaded
<1>2. CASE demand[m].code \in CodesLoaded(m)
  BY <1>1, <1>2 DEF Spending
<1>3. CASE demand[m].code \notin CodesLoaded(m)
  <2>1. demand[m].code = TotpCode
    BY <1>1, <1>3 DEF SpendsCode
  <2>2. TotpCode \notin RecoveryCodes
    BY MfaAssumption DEF TotpCode, RecoveryCodes, Demands
  <2>3. CodesKept(m) = CodesLoaded(m)
    BY <1>3 DEF CodesKept
  <2>4. secret' = secret
    BY <1>1, <2>3 DEF CommitVerified, Writes, Flushed
  <2> QED
    BY <2>1, <2>2, <2>4 DEF CommitVerified
<1> QED
  BY <1>2, <1>3

LEMMA CodesAtStep ==
    ASSUME MfaTypeOK, SpendsApart, \A n \in Demands : Consistent(n) /\ SpendsCode(n),
           \A t \in Demands : CodesAt(t), [MfaNext]_mfaVars, NEW s \in Demands
    PROVE  CodesAt(s)'
<1> USE DEF MfaTypeOK, Demand, MFASecret, Sight
<1>1. secret'[s].status # "active" => secret'[s].codes = {}
  <2>1. ASSUME NEW m \in Demands, demand[m].secret = s, CommitExpiry(m) PROVE secret[s].codes = {}
    BY <2>1 DEF CommitExpiry, Goes, Consistent, CodesAt
  <2>2. ASSUME NEW m \in Demands, demand[m].secret = s, CommitVerified(m),
               secret'[s] = [secret[s] EXCEPT !.codes = Flushed(@, CodesLoaded(m), CodesKept(m))]
        PROVE  secret'[s].status = "active"
    BY <2>2 DEF CommitVerified, Goes, Consistent
  <2>3. ASSUME secret'[s].status # "active", secret'[s] = secret[s] PROVE secret'[s].codes = {}
    BY <2>3 DEF CodesAt
  <2>4. ASSUME NEW m \in Demands, demand[m].secret = s, CommitExpiry(m),
               secret'[s] = [secret[s] EXCEPT !.status = "disabled"]
        PROVE  secret'[s].codes = {}
    BY <2>1, <2>4
  <2>5. secret'[s] = [status |-> "pending", codes |-> {}] => secret'[s].codes = {}
    OBVIOUS
  <2>6. \A m \in Demands : secret'[s] = [status |-> "active", codes |-> CodesOf(m)]
                              => secret'[s].status = "active"
    OBVIOUS
  <2> QED
    BY ZenonT(60), <2>2, <2>3, <2>4, <2>5, <2>6, SecretStep
<1>2. ASSUME NEW m \in Demands
      PROVE  /\ seen'[m].secret[s].codes # {} => secret'[s].status = "active"
             /\ Spending(m)' => seen'[m].secret[s].codes \in {{}, secret'[s].codes}
  <2>1. CASE UNCHANGED <<demandAt[m], demand[m], seen[m]>>
    <3>1. seen[m].secret[s].codes # {} => secret'[s].status = "active"
      BY ActiveStays DEF CodesAt
    <3>2. ASSUME Spending(m), seen[m].secret[s].codes # {}
          PROVE  seen[m].secret[s].codes = secret'[s].codes
      <4>1. seen[m].secret[s].codes = secret[s].codes /\ secret[s].status = "active"
        BY <3>2 DEF CodesAt
      <4>2. ~CommitSetup(s)
        BY <4>1 DEF CommitSetup, Goes, Consistent
      <4>3. ASSUME NEW n \in Demands, demand[n].secret = s, CommitExpiry(n) \/ CommitConfirm(n)
            PROVE  FALSE
        BY <4>1, <4>3 DEF CommitExpiry, CommitConfirm, Goes, Consistent, SpendsCode
      <4>4. ASSUME NEW n \in Demands, CommitVerified(n) PROVE secret' = secret
        <5>1. n # m
          BY <2>1, <4>4 DEF CommitVerified, Goes
        <5>2. ~Spending(n)
          BY <3>2, <5>1 DEF SpendsApart
        <5> QED
          BY <4>4, <5>2, OnlySpendsChange
      <4>5. secret'[s] = secret[s]
        BY <4>2, <4>3, <4>4, SecretStep
      <4> QED
        BY <4>1, <4>5
    <3>3. Spending(m)' = Spending(m)
      BY <2>1 DEF Spending
    <3> QED
      BY <2>1, <3>1, <3>2, <3>3
  <2>2. CASE /\ demandAt'[m] \in Closed /\ seen'[m] = Unseen
    BY <2>2 DEF Unseen, NoSecret, Spending, Closed
  <2>3. CASE seen'[m].secret = secret /\ UNCHANGED secret
    BY <2>3 DEF CodesAt
  <2>4. CASE /\ demandAt[m] = "received" /\ demand'[m].code = demand[m].code
             /\ seen'[m].secret = Held(m) /\ UNCHANGED secret
    <3>1. Held(m)[s] \in {seen[m].secret[s], secret[s]}
      BY DEF Held
    <3>2. Spending(m)' => Spending(m)
      BY <2>4 DEF Spending
    <3> QED
      BY <2>4, <3>1, <3>2 DEF CodesAt
  <2> QED
    BY <2>1, <2>2, <2>3, <2>4, DemandStep
<1> QED
  BY <1>1, <1>2 DEF CodesAt

LEMMA CodesLeftStep ==
    ASSUME MfaTypeOK, \A n \in Demands : Consistent(n) /\ SpendsCode(n), OneActive,
           \A t \in Demands : CodesAt(t), NothingYet, CodesLeft, [MfaNext]_mfaVars
    PROVE  NothingYet' /\ CodesLeft'
<1> USE DEF MfaTypeOK, Demand, MFASecret, Sight
<1>1. ASSUME NEW m \in Demands, CommitSetup(m) PROVE NothingYet' /\ CodesLeft'
  <2>1. secret[m].status = "absent"
    BY <1>1 DEF CommitSetup, Goes, Consistent
  <2>2. /\ \A t \in Demands : secret'[t] = secret[t] \/ (t = m /\ secret'[t].status = "pending")
        /\ UNCHANGED <<handedOut, accepted>>
    BY <1>1 DEF CommitSetup, Writes
  <2>3. Having("active")' = Having("active") /\ \A t \in Having("active") : secret'[t] = secret[t]
    BY <2>1, <2>2 DEF Having
  <2> QED
    BY <2>2, <2>3 DEF NothingYet, CodesLeft
<1>2. ASSUME NEW m \in Demands, CommitExpiry(m) PROVE NothingYet' /\ CodesLeft'
  <2>1. /\ demand[m].secret \in Demands
        /\ secret[demand[m].secret].status \in {"pending", "disabled"}
    BY <1>2 DEF CommitExpiry, Goes, Consistent
  <2>2. /\ \A t \in Demands : \/ secret'[t] = secret[t]
                              \/ t = demand[m].secret /\ secret'[t].status = "disabled"
        /\ UNCHANGED <<handedOut, accepted>>
    BY <1>2 DEF CommitExpiry, Writes
  <2>3. Having("active")' = Having("active") /\ \A t \in Having("active") : secret'[t] = secret[t]
    BY <2>1, <2>2 DEF Having
  <2> QED
    BY <2>2, <2>3 DEF NothingYet, CodesLeft
<1>3. ASSUME NEW m \in Demands, CommitConfirm(m) PROVE NothingYet' /\ CodesLeft'
  <2> DEFINE s == demand[m].secret
  <2>1. s \in Demands /\ secret[s].status = "pending" /\ Having("active") \subseteq {s}
    BY <1>3 DEF CommitConfirm, Goes, SpendsCode, Free
  <2>2. Having("active") = {} /\ handedOut = {} /\ accepted = {}
    BY <2>1 DEF Having, NothingYet
  <2>3. /\ \A t \in Demands \ {s} : secret'[t] = secret[t]
        /\ secret'[s] = [status |-> "active", codes |-> CodesOf(m)]
        /\ handedOut' = CodesOf(m) /\ accepted' = {}
    BY <1>3, <2>1, <2>2 DEF CommitConfirm, Writes
  <2>4. Having("active")' = {s}
    BY <2>1, <2>2, <2>3 DEF Having
  <2>5. CodesLeft'
    BY <2>3, <2>4 DEF CodesLeft
  <2> QED
    BY <2>4, <2>5 DEF NothingYet
<1>4. ASSUME NEW m \in Demands, CommitVerified(m) PROVE NothingYet' /\ CodesLeft'
  <2> DEFINE s == demand[m].secret
  <2>1. s \in Demands /\ s \in Having("active") /\ demandAt[m] = "verified" /\ handedOut' = handedOut
    BY <1>4 DEF CommitVerified, Goes, Consistent, Having
  <2>2. CASE UNCHANGED <<secret, accepted>>
    BY <2>1, <2>2 DEF NothingYet, CodesLeft, Having
  <2>3. CASE Spending(m) /\ demand[m].code \in CodesLoaded(m)
    <3>1. CodesLoaded(m) = secret[s].codes
      BY <2>1, <2>3 DEF CodesAt, CodesLoaded
    <3>2. /\ secret'[s].status = "active" /\ secret'[s].codes = secret[s].codes \ {demand[m].code}
          /\ \A t \in Demands \ {s} : secret'[t] = secret[t]
      BY <1>4, <2>1, <2>3, <3>1 DEF CommitVerified, Writes, Flushed, CodesKept, Having
    <3>3. accepted' = accepted \cup {demand[m].code}
      BY <1>4, <2>3 DEF CommitVerified, Spending
    <3>6. Having("active") = {s}
      BY <2>1 DEF OneActive
    <3>7. \A t \in Demands : secret'[t].status = "active" <=> secret[t].status = "active"
      BY <2>1, <3>2 DEF Having
    <3>4. Having("active")' = {s}
      BY <3>6, <3>7 DEF Having
    <3>5. secret[s].codes = handedOut \ accepted
      BY <2>1 DEF CodesLeft
    <3> QED
      BY <2>1, <3>2, <3>3, <3>4, <3>5 DEF NothingYet, CodesLeft
  <2> QED
    BY <1>4, <2>2, <2>3, OnlySpendsChange
<1>5. CASE UNCHANGED <<secret, handedOut, accepted>>
  BY <1>5 DEF NothingYet, CodesLeft, Having
<1> QED
  BY <1>1, <1>2, <1>3, <1>4, <1>5 DEF MfaNext, mfaVars, ReceiveDemand, LookForActive, SelectPending,
     LogIn, Verify, SelectActive, LogInWithoutMfa, Decides, LoseDemand, SetupTimesOut

(* However requests overlap otherwise, the codes on record are those shown to  *)
(* the user less those accepted, as long as no setup is confirmed twice or   *)
(* found expired meanwhile, and no two requests bring a recovery code at     *)
(* the same time (confirm_totp(), verify_for_user()).                       *)
THEOREM OnlyRacingCodesAreRevived ==
    MfaSpec /\ [](ExpiriesApart /\ ConfirmsApart /\ SpendsApart) => []CodesLeft
<1> DEFINE Good == MfaTypeOK /\ OneActive /\ \A m \in Demands : Consistent(m)
           Apart == ExpiriesApart /\ ConfirmsApart /\ SpendsApart
           Inv == /\ \A m \in Demands : SpendsCode(m)
                  /\ \A s \in Demands : CodesAt(s)
                  /\ NothingYet /\ CodesLeft
<1>1. MfaInit => Inv
  BY DEF MfaInit, SpendsCode, CodesAt, NothingYet, CodesLeft, Having, NoSecret, Unseen, Spending
<1>2. Good /\ Apart /\ Inv /\ [MfaNext]_mfaVars => Inv'
  <2> SUFFICES ASSUME Good, Apart, Inv, [MfaNext]_mfaVars PROVE Inv'
    OBVIOUS
  <2>1. ASSUME NEW m \in Demands PROVE SpendsCode(m)'
    BY SpendsCodeStep
  <2>2. ASSUME NEW s \in Demands PROVE CodesAt(s)'
    BY CodesAtStep
  <2>3. NothingYet' /\ CodesLeft'
    BY CodesLeftStep
  <2> QED
    BY <2>1, <2>2, <2>3
<1>3. MfaInv => MfaTypeOK
  BY DEF MfaInv
<1>4. Inv => CodesLeft
  OBVIOUS
<1>5. MfaSpec /\ []Apart => []Good
  BY <1>3, MfaInvariant, ConsistentAlways, PTL
<1> HIDE DEF Good, Inv
<1> QED
  BY <1>1, <1>2, <1>4, <1>5, PTL DEF MfaSpec

-----------------------------------------------------------------------------
(* Warnings.  The address of a row, as it is stored and as a session holds    *)
(* it, is the one that a completed login came from; so the warning that a    *)
(* login is spared was given to an earlier one.                             *)
AddressesAreSeen ==
    /\ \A l \in Completed : login[l].device \in trusted
    /\ \A d \in trusted : \E m \in CompletedOn(d) : login[m].ip = lastIp[d]
    /\ \A l \in Logins : /\ held[l].trusted \subseteq trusted
                         /\ \A d \in held[l].trusted :
                               \E m \in CompletedOn(d) : login[m].ip = held[l].ip[d]
WarningsAreKept ==
    \A l \in Logins : loginAt[l] = "judged" =>
        reason[l] = Warning(login[l].device, login[l].ip, held[l])

DevicesInv == DevicesTypeOK /\ AddressesAreSeen /\ WarningsAreKept /\ SignInsAreAnnounced

LEMMA DevicesStart == DevicesInit => DevicesInv
<1> SUFFICES ASSUME DevicesInit PROVE DevicesInv
  OBVIOUS
<1> USE DEF DevicesInit
<1>1. NoLogin \in Login
  BY DevicesAssumption DEF NoLogin, Login, Hashes
<1>2. NothingHeld \in HeldDevices
  BY DEF NothingHeld, HeldDevices, Hashes
<1>a. login \in [Logins -> Login] /\ held \in [Logins -> HeldDevices]
  BY <1>1, <1>2
<1>3. DevicesTypeOK
  BY <1>a DEF DevicesTypeOK, Hashes, Reasons
<1>4. Completed = {} /\ \A l \in Logins : held[l].trusted = {}
  BY DEF Completed, NothingHeld
<1> QED
  BY <1>3, <1>4 DEF DevicesInv, AddressesAreSeen, WarningsAreKept, SignInsAreAnnounced

(* A step that completes no login and writes no row only matters for what     *)
(* the sessions hold.                                                       *)
LEMMA CompletedStay ==
    ASSUME DevicesInv, Completed' = Completed, trusted' = trusted, lastIp' = lastIp,
           \A l \in Completed : login'[l] = login[l] /\ reason'[l] = reason[l]
    PROVE  /\ \A d : CompletedOn(d)' = CompletedOn(d)
           /\ SignInsAreAnnounced'
           /\ \A d \in trusted : \E m \in CompletedOn(d)' : login'[m].ip = lastIp[d]
<1>1. \A d : CompletedOn(d)' = CompletedOn(d)
  BY DEF CompletedOn
<1>2. \A d : \A l \in CompletedOn(d) : l \in Completed
  BY DEF CompletedOn
<1> QED
  BY SMTT(60), <1>1, <1>2 DEF SignInsAreAnnounced, DevicesInv, AddressesAreSeen

LEMMA DevicesStep == DevicesInv /\ [DevicesNext]_deviceVars => DevicesInv'
<1> SUFFICES ASSUME DevicesInv, [DevicesNext]_deviceVars PROVE DevicesInv'
  OBVIOUS
<1> USE DEF DevicesInv
<1>0. NothingHeld \in HeldDevices /\ NothingHeld.trusted = {}
  BY DEF NothingHeld, HeldDevices, Hashes
<1>1. ASSUME NEW l \in Logins, ReceiveLogin(l) PROVE DevicesInv'
  <2>1. PICK x \in Login : login' = [login EXCEPT ![l] = x]
    BY <1>1 DEF ReceiveLogin
  <2>2. /\ loginAt[l] = "unsent" /\ loginAt' = [loginAt EXCEPT ![l] = "loaded"]
        /\ held' = [held EXCEPT ![l] = [trusted |-> trusted, ip |-> lastIp]]
        /\ UNCHANGED <<trusted, lastIp, reason>>
    BY <1>1 DEF ReceiveLogin, LoginGoes
  <2>3. DevicesTypeOK'
    <3>1. [trusted |-> trusted, ip |-> lastIp] \in HeldDevices
      BY DEF DevicesTypeOK, HeldDevices
    <3> QED
      BY <2>1, <2>2, <3>1 DEF DevicesTypeOK
  <2>4. Completed' = Completed /\ \A k \in Completed : login'[k] = login[k] /\ reason'[k] = reason[k]
    BY <2>1, <2>2 DEF DevicesTypeOK, Completed
  <2>5. /\ \A d : CompletedOn(d)' = CompletedOn(d)
        /\ SignInsAreAnnounced'
        /\ \A d \in trusted : \E m \in CompletedOn(d)' : login'[m].ip = lastIp[d]
    BY <2>2, <2>4, CompletedStay
  <2>6. AddressesAreSeen'
    <3>1. \A k \in Logins : k # l => held'[k] = held[k]
      BY <2>2 DEF DevicesTypeOK
    <3>2. held'[l].trusted = trusted /\ held'[l].ip = lastIp
      BY <2>2 DEF DevicesTypeOK
    <3>3. \A d : \A m \in CompletedOn(d) : login'[m] = login[m]
      BY <2>4 DEF CompletedOn
    <3> QED
      BY <2>2, <2>4, <2>5, <3>1, <3>2, <3>3 DEF AddressesAreSeen
  <2>7. WarningsAreKept'
    BY <2>1, <2>2 DEF WarningsAreKept, DevicesTypeOK
  <2> QED
    BY <2>3, <2>5, <2>6, <2>7
<1>2. ASSUME NEW l \in Logins, JudgeDevice(l) PROVE DevicesInv'
  <2> DEFINE d == login[l].device
  <2>1. /\ loginAt[l] = "loaded" /\ loginAt' = [loginAt EXCEPT ![l] = "judged"]
        /\ held' = [held EXCEPT ![l] = Found(l)]
        /\ reason' = [reason EXCEPT ![l] = Warning(login[l].device, login[l].ip, Found(l))]
        /\ UNCHANGED <<trusted, lastIp, login>>
    BY <1>2 DEF JudgeDevice, LoginGoes
  <2>2. Found(l) \in HeldDevices
    BY DEF Found, HeldDevices, DevicesTypeOK
  <2>3. Warning(login[l].device, login[l].ip, Found(l)) \in Reasons
    BY DEF Warning, Reasons
  <2>4. DevicesTypeOK'
    BY <2>1, <2>2, <2>3 DEF DevicesTypeOK
  <2>5. Completed' = Completed /\ \A k \in Completed : login'[k] = login[k] /\ reason'[k] = reason[k]
    BY <2>1 DEF DevicesTypeOK, Completed
  <2>6. /\ \A c : CompletedOn(c)' = CompletedOn(c)
        /\ SignInsAreAnnounced'
        /\ \A c \in trusted : \E m \in CompletedOn(c)' : login'[m].ip = lastIp[c]
    BY <2>1, <2>5, CompletedStay
  <2>7. /\ Found(l).trusted \subseteq trusted
        /\ \A c \in Found(l).trusted : \E m \in CompletedOn(c) : login[m].ip = Found(l).ip[c]
    <3> SUFFICES ASSUME NEW c \in Found(l).trusted
                 PROVE  c \in trusted /\ \E m \in CompletedOn(c) : login[m].ip = Found(l).ip[c]
      OBVIOUS
    <3>1. c \in DeviceIds
      BY <2>2 DEF HeldDevices
    <3>2. CASE c \in held[l].trusted
      <4>1. Found(l).ip[c] = held[l].ip[c]
        BY <3>1, <3>2 DEF Found
      <4> QED
        BY <3>2, <4>1 DEF AddressesAreSeen
    <3>3. CASE c \notin held[l].trusted
      <4>1. c \in trusted /\ Found(l).ip[c] = lastIp[c]
        BY <3>1, <3>3 DEF Found
      <4>2. PICK m \in CompletedOn(c) : login[m].ip = lastIp[c]
        BY <4>1 DEF AddressesAreSeen
      <4> QED
        BY <4>1, <4>2
    <3> QED
      BY <3>2, <3>3
  <2>8. AddressesAreSeen'
    <3>1. held'[l] = Found(l) /\ \A k \in Logins : k # l => held'[k] = held[k]
      BY <2>1 DEF DevicesTypeOK
    <3> QED
      BY <2>1, <2>5, <2>6, <2>7, <3>1 DEF AddressesAreSeen
  <2>9. WarningsAreKept'
    BY <2>1 DEF WarningsAreKept, DevicesTypeOK
  <2> QED
    BY <2>4, <2>6, <2>8, <2>9
<1>3. ASSUME NEW l \in Logins, CommitLogin(l) PROVE DevicesInv'
  <2>0. PICK d \in DeviceIds : d = login[l].device
    BY DEF DevicesTypeOK, Login
  <2>1. /\ d \in trusted => d \in held[l].trusted
        /\ loginAt[l] = "judged" /\ loginAt' = [loginAt EXCEPT ![l] = "done"]
        /\ trusted' = trusted \cup {d}
        /\ lastIp' = [lastIp EXCEPT ![d] =
                         IF d \in held[l].trusted THEN Flushed(@, held[l].ip[d], login[l].ip)
                         ELSE login[l].ip]
        /\ held' = [held EXCEPT ![l] = NothingHeld]
        /\ UNCHANGED <<login, reason>>
    BY <1>3, <2>0 DEF CommitLogin, LoginGoes
  <2>2. d \in DeviceIds /\ login[l].ip \in Hashes
    BY DEF DevicesTypeOK, Login
  <2>3. lastIp'[d] \in {lastIp[d], login[l].ip} /\ (d \notin trusted => lastIp'[d] = login[l].ip)
    <3>1. lastIp'[d] = IF d \in held[l].trusted THEN Flushed(lastIp[d], held[l].ip[d], login[l].ip)
                       ELSE login[l].ip
      BY <2>1, <2>2 DEF DevicesTypeOK
    <3>2. held[l].trusted \subseteq trusted
      BY DEF AddressesAreSeen
    <3> QED
      BY <3>1, <3>2 DEF Flushed
  <2>4. \A c \in DeviceIds : c # d => lastIp'[c] = lastIp[c]
    BY <2>1, <2>2 DEF DevicesTypeOK
  <2>5. DevicesTypeOK'
    <3>1. lastIp' \in [DeviceIds -> Hashes]
      BY <2>1, <2>2, <2>3, <2>4 DEF DevicesTypeOK
    <3> QED
      BY <1>0, <2>1, <2>2, <3>1 DEF DevicesTypeOK
  <2>6. Completed' = Completed \cup {l} /\ l \notin Completed
    BY <2>1 DEF DevicesTypeOK, Completed
  <2>7. /\ CompletedOn(d)' = CompletedOn(d) \cup {l}
        /\ \A c : c # d => CompletedOn(c)' = CompletedOn(c)
        /\ l \notin CompletedOn(d)
    BY <2>0, <2>1, <2>6 DEF CompletedOn
  <2>8. AddressesAreSeen'
    <3>1. \A k \in Completed' : login'[k].device \in trusted'
      BY <2>0, <2>1, <2>6 DEF AddressesAreSeen
    <3>2. \A c \in trusted' : \E m \in CompletedOn(c)' : login'[m].ip = lastIp'[c]
      <4> SUFFICES ASSUME NEW c \in trusted'
                   PROVE  \E m \in CompletedOn(c)' : login[m].ip = lastIp'[c]
        BY <2>1
      <4>1. CASE c # d
        BY <4>1, <2>1, <2>4, <2>7 DEF AddressesAreSeen, DevicesTypeOK
      <4>2. CASE c = d
        <5>1. CASE lastIp'[d] = login[l].ip
          BY <4>2, <5>1, <2>7
        <5>2. CASE lastIp'[d] = lastIp[d] /\ d \in trusted
          <6>1. PICK m \in CompletedOn(d) : login[m].ip = lastIp[d]
            BY <5>2 DEF AddressesAreSeen
          <6> QED
            BY <4>2, <5>2, <6>1, <2>7
        <5> QED
          BY <5>1, <5>2, <2>3
      <4> QED
        BY <4>1, <4>2
    <3>3. \A k \in Logins : held'[k] = held[k] \/ held'[k].trusted = {}
      BY <1>0, <2>1 DEF DevicesTypeOK
    <3> QED
      BY <2>1, <2>7, <3>1, <3>2, <3>3 DEF AddressesAreSeen
  <2>9. WarningsAreKept'
    BY <2>1 DEF WarningsAreKept, DevicesTypeOK
  <2>10. reason[l] = Warning(d, login[l].ip, held[l])
    BY <2>0, <2>1 DEF WarningsAreKept
  <2>11. ASSUME NEW c \in trusted' 
         PROVE  \E k \in CompletedOn(c)' : \A i \in CompletedOn(c)' :
                    reason[i] = "new_device" <=> i = k
    <3>1. CASE c # d
      BY <3>1, <2>1, <2>7, <2>11 DEF SignInsAreAnnounced
    <3>2. CASE c = d /\ d \in trusted
      <4>1. reason[l] # "new_device"
        BY <2>1, <2>10, <3>2 DEF Warning
      <4>2. PICK k \in CompletedOn(d) : \A i \in CompletedOn(d) : reason[i] = "new_device" <=> i = k
        BY <3>2 DEF SignInsAreAnnounced
      <4>3. \A i \in CompletedOn(d) \cup {l} : reason[i] = "new_device" <=> i = k
        BY <4>1, <4>2, <2>7
      <4> QED
        BY <3>2, <4>2, <4>3, <2>7
    <3>3. CASE c = d /\ d \notin trusted
      <4>1. reason[l] = "new_device" /\ CompletedOn(d) = {}
        BY <2>10, <3>3 DEF Warning, AddressesAreSeen, CompletedOn
      <4>2. CompletedOn(c)' = {l}
        BY <3>3, <4>1, <2>7
      <4> QED
        BY <4>1, <4>2
    <3> QED
      BY <3>1, <3>2, <3>3
  <2>12. \E k \in CompletedOn(d)' : login[k].ip \in {login[l].ip, NoAddress} /\ reason[k] # "none"
    <3>1. CASE reason[l] # "none"
      BY <3>1, <2>7
    <3>2. CASE reason[l] = "none"
      <4>1. d \in held[l].trusted /\ held[l].ip[d] \in {login[l].ip, NoAddress}
        BY <3>2, <2>10 DEF Warning
      <4>2. PICK m \in CompletedOn(d) : login[m].ip = held[l].ip[d]
        BY <4>1 DEF AddressesAreSeen
      <4>3. m \in Completed /\ login[m].device = d
        BY <4>2 DEF CompletedOn
      <4>4. PICK k \in CompletedOn(d) : login[k].ip \in {login[m].ip, NoAddress} /\ reason[k] # "none"
        BY <4>3 DEF SignInsAreAnnounced
      <4> QED
        BY <4>1, <4>2, <4>4, <2>7
    <3> QED
      BY <3>1, <3>2
  <2>13. \A i \in Completed : \E k \in CompletedOn(login[i].device)' :
             login[k].ip \in {login[i].ip, NoAddress} /\ reason[k] # "none"
    <3>1. \A c : CompletedOn(c) \subseteq CompletedOn(c)'
      BY <2>7
    <3> QED
      BY <2>1, <3>1 DEF SignInsAreAnnounced
  <2>14. SignInsAreAnnounced'
    BY <2>0, <2>1, <2>6, <2>11, <2>12, <2>13 DEF SignInsAreAnnounced
  <2> QED
    BY <2>5, <2>8, <2>9, <2>14
<1>4. ASSUME NEW l \in Logins, LoseLogin(l) PROVE DevicesInv'
  <2>1. /\ loginAt[l] \in {"loaded", "judged"} /\ loginAt' = [loginAt EXCEPT ![l] = "lost"]
        /\ held' = [held EXCEPT ![l] = NothingHeld]
        /\ UNCHANGED <<trusted, lastIp, login, reason>>
    BY <1>4 DEF LoseLogin, LoginGoes
  <2>2. DevicesTypeOK'
    BY <1>0, <2>1 DEF DevicesTypeOK
  <2>3. Completed' = Completed
    BY <2>1 DEF DevicesTypeOK, Completed
  <2>4. /\ \A d : CompletedOn(d)' = CompletedOn(d)
        /\ SignInsAreAnnounced'
        /\ \A d \in trusted : \E m \in CompletedOn(d)' : login'[m].ip = lastIp[d]
    BY <2>1, <2>3, CompletedStay
  <2>5. AddressesAreSeen'
    <3>1. \A k \in Logins : held'[k] = held[k] \/ held'[k].trusted = {}
      BY <1>0, <2>1 DEF DevicesTypeOK
    <3> QED
      BY <2>1, <2>3, <2>4, <3>1 DEF AddressesAreSeen
  <2>6. WarningsAreKept'
    BY <2>1 DEF WarningsAreKept, DevicesTypeOK
  <2> QED
    BY <2>2, <2>4, <2>5, <2>6
<1>5. CASE UNCHANGED deviceVars
  BY <1>5 DEF deviceVars, DevicesTypeOK, AddressesAreSeen, WarningsAreKept, SignInsAreAnnounced,
     Completed, CompletedOn
<1> QED
  BY <1>1, <1>2, <1>3, <1>4, <1>5 DEF DevicesNext

(* However logins overlap and are lost, a device that signs in was reported   *)
(* as new once, and an address it came from was reported (or one unknown):   *)
(* SessionService.create_session(), for any number of logins and devices.   *)
THEOREM SignInsAreReported == DevicesSpec => []SignInsAreAnnounced
<1>1. DevicesInv => SignInsAreAnnounced
  BY DEF DevicesInv
<1> QED
  BY DevicesStart, DevicesStep, <1>1, PTL DEF DevicesSpec

-----------------------------------------------------------------------------
(* Start-up.  What is left of the roles, what a transaction has inserted and   *)
(* what is committed cover all roles; it inserts in the one order, so that    *)
(* what it has inserted comes before what is left.                          *)
Remaining(s) == {s[i] : i \in 1 .. Len(s)}

Open == {"seeding", "inserting", "looked", "flushed"}

RolesAreCovered ==
    \A r \in Runs : runAt[r] \in Open =>
        /\ RoleNames \subseteq roles \cup inserted[r] \cup Remaining(left[r])
        /\ runAt[r] = "inserting" => left[r] # <<>>
        /\ runAt[r] \in {"looked", "flushed"} => left[r] = <<>>
RolesAreInOrder ==
    \A r \in Runs : runAt[r] \in Open =>
        /\ Len(left[r]) <= Len(RoleOrder)
        /\ \A i \in 1 .. Len(left[r]) :
              left[r][i] = RoleOrder[Len(RoleOrder) - Len(left[r]) + i]
        /\ inserted[r] \subseteq {RoleOrder[i] : i \in 1 .. Len(RoleOrder) - Len(left[r])}

RunsFit ==
    /\ \A s \in Starts : applicant[s] = AdminEmail /\ runAt[s] # "flushed"
    /\ \A r \in Registrations : runAt[r] # "looked"
    /\ \A r \in Runs : /\ runAt[r] \in {"waiting", "migrating"} => r \in Starts
                       /\ runAt[r] = "unsent" => tries[r] = 0 /\ inserted[r] = {}
                       /\ runAt[r] \in {"waiting", "migrating"} => inserted[r] = {}
                       /\ runAt[r] = "waiting" => tries[r] < MaxRetries

(* Users are added and get roles, and never lose one.                        *)
MembersAreGranted ==
    /\ \A e \in Emails : members[e] = Nobody \/ members[e] \subseteq {"admin", "customer"}
    /\ \A s \in Runs : record[s] # Nobody =>
          AdminEmail \in Users /\ record[s] \subseteq members[AdminEmail]
    /\ \A r \in Runs : runAt[r] = "flushed" =>
          /\ applicant[r] \notin Users
          /\ \A q \in Runs : runAt[q] = "flushed" /\ applicant[q] = applicant[r] => q = r

StartUpInv ==
    /\ StartUpTypeOK /\ RolesAreCovered /\ RolesAreInOrder /\ RunsFit /\ MembersAreGranted
    /\ UpMeansReady

LEMMA TailRemains ==
    ASSUME NEW s \in Seq(RoleNames), s # <<>>
    PROVE  /\ Head(s) \in RoleNames /\ Tail(s) \in Seq(RoleNames)
           /\ Remaining(s) \subseteq {Head(s)} \cup Remaining(Tail(s))
           /\ Head(s) = s[1] /\ Len(s) \in Nat /\ Len(s) >= 1 /\ Len(Tail(s)) = Len(s) - 1
           /\ \A i \in 1 .. Len(Tail(s)) : Tail(s)[i] = s[i + 1]
<1>1. /\ Head(s) \in RoleNames /\ Tail(s) \in Seq(RoleNames)
      /\ Len(Tail(s)) = Len(s) - 1 /\ \A i \in 1 .. Len(Tail(s)) : Tail(s)[i] = s[i + 1]
  BY HeadTailProperties
<1>2. Head(s) = s[1] /\ Len(s) \in Nat /\ Len(s) >= 1
  BY LenProperties, EmptySeq
<1>3. ASSUME NEW i \in 1 .. Len(s) PROVE s[i] \in {Head(s)} \cup Remaining(Tail(s))
  <2>1. CASE i = 1
    BY <2>1, <1>2
  <2>2. CASE i # 1
    <3>1. i - 1 \in 1 .. Len(Tail(s)) /\ Tail(s)[i - 1] = s[i]
      BY <2>2, <1>1, <1>2
    <3> QED
      BY <3>1 DEF Remaining
  <2> QED
    BY <2>1, <2>2
<1> QED
  BY <1>1, <1>2, <1>3 DEF Remaining

LEMMA RoleOrderIsOne ==
    /\ RoleOrder \in Seq(RoleNames) /\ Orders = {RoleOrder} /\ Remaining(RoleOrder) = RoleNames
    /\ Len(RoleOrder) \in Nat
<1>1. RoleOrder \in Seq(STRING)
  BY StartUpAssumption
<1>2. Len(RoleOrder) \in Nat /\ RoleOrder \in [1 .. Len(RoleOrder) -> STRING]
  BY <1>1, LenProperties
<1>3. RoleOrder \in [1 .. Len(RoleOrder) -> RoleNames]
  BY <1>2 DEF RoleNames
<1>4. RoleOrder \in Seq(RoleNames)
  BY <1>2, <1>3, IsASeq
<1> QED
  BY <1>2, <1>4 DEF Orders, Remaining, RoleNames

LEMMA StartUpStart == StartUpInit => StartUpInv
<1> SUFFICES ASSUME StartUpInit PROVE StartUpInv
  OBVIOUS
<1> USE DEF StartUpInit
<1>1. {"customer"} \subseteq RoleNames /\ AdminEmail \in Emails /\ MaxRetries \in Nat \ {0}
  BY StartUpAssumption
<1>2. members \in [Emails -> {Nobody, {"customer"}}] /\ roles \subseteq RoleNames
  OBVIOUS
<1>3. <<>> \in Seq(RoleNames)
  BY EmptySeq
<1>4. members \in [Emails -> Record]
  BY <1>1, <1>2 DEF Record
<1>5. left \in [Runs -> Seq(RoleNames)]
  BY <1>3
<1>6. record \in [Runs -> Record]
  BY DEF Record
<1>a. tries \in [Runs -> 0 .. MaxRetries] /\ inserted \in [Runs -> SUBSET RoleNames]
  BY <1>1
<1>b. applicant \in [Runs -> Emails] /\ serving \in BOOLEAN /\ configured \subseteq Starts
  BY <1>1
<1>c. runAt \in [Runs -> {"unsent", "waiting", "migrating", "seeding", "inserting", "looked",
                         "flushed", "done", "refused", "lost"}]
  OBVIOUS
<1>7. StartUpTypeOK
  BY <1>2, <1>4, <1>5, <1>6, <1>a, <1>b, <1>c DEF StartUpTypeOK
<1>8. \A r \in Runs : runAt[r] = "unsent" /\ applicant[r] = AdminEmail /\ record[r] = Nobody
                     /\ tries[r] = 0 /\ inserted[r] = {}
  OBVIOUS
<1>9. RolesAreCovered /\ RolesAreInOrder
  BY <1>8 DEF RolesAreCovered, RolesAreInOrder, Open
<1>10. RunsFit
  BY <1>8 DEF RunsFit, Runs
<1>11. MembersAreGranted
  BY <1>2, <1>8 DEF MembersAreGranted
<1>12. UpMeansReady
  BY <1>8 DEF UpMeansReady, Runs
<1> QED
  BY <1>7, <1>9, <1>10, <1>11, <1>12 DEF StartUpInv

(* A step that commits nothing leaves what users are and what is ready.      *)
LEMMA MembersRest ==
    ASSUME StartUpInv, members' = members, roles' = roles, configured' = configured,
           \A r \in Runs : /\ runAt'[r] = "flushed" => runAt[r] = "flushed"
                           /\ runAt'[r] = "done" => runAt[r] = "done"
                           /\ runAt[r] # "unsent" => applicant'[r] = applicant[r]
                           /\ record'[r] \in {record[r], members[AdminEmail]}
    PROVE  MembersAreGranted' /\ UpMeansReady'
<1> USE DEF StartUpInv
<1>1. Users' = Users
  BY DEF Users
<1>2. AdminEmail \in Emails /\ Starts \subseteq Runs /\ Registrations \subseteq Runs
  BY StartUpAssumption DEF Runs
<1>3. MembersAreGranted'
  <2>1. ASSUME NEW s \in Runs, record'[s] # Nobody
        PROVE  AdminEmail \in Users /\ record'[s] \subseteq members[AdminEmail]
    <3>1. CASE record'[s] = record[s]
      BY <2>1, <3>1 DEF MembersAreGranted
    <3>2. CASE record'[s] = members[AdminEmail]
      BY <1>2, <2>1, <3>2 DEF Users
    <3> QED
      BY <3>1, <3>2
  <2>2. ASSUME NEW r \in Runs, runAt'[r] = "flushed"
        PROVE  /\ applicant'[r] \notin Users
               /\ \A q \in Runs : runAt'[q] = "flushed" /\ applicant'[q] = applicant'[r] => q = r
    <3>1. \A q \in Runs : runAt'[q] = "flushed" => runAt[q] = "flushed" /\ applicant'[q] = applicant[q]
      OBVIOUS
    <3> QED
      BY <2>2, <3>1 DEF MembersAreGranted
  <2> QED
    BY <1>1, <2>1, <2>2 DEF MembersAreGranted
<1>4. UpMeansReady'
  <2>1. \A q \in Runs : runAt'[q] = "done" => runAt[q] = "done" /\ applicant'[q] = applicant[q]
    OBVIOUS
  <2> QED
    BY <1>2, <2>1 DEF UpMeansReady
<1> QED
  BY <1>3, <1>4

(* A run that goes on without inserting only shortens what is left.          *)
LEMMA RolesRest ==
    ASSUME StartUpInv, roles \subseteq roles',
           \A r \in Runs : runAt'[r] \in Open =>
               /\ runAt[r] \in Open /\ left'[r] = left[r] /\ inserted'[r] = inserted[r]
               /\ runAt'[r] = "inserting" => left[r] # <<>>
               /\ runAt'[r] \in {"looked", "flushed"} => left[r] = <<>>
    PROVE  RolesAreCovered' /\ RolesAreInOrder'
<1> USE DEF StartUpInv
<1>1. RolesAreCovered'
  BY DEF RolesAreCovered
<1>2. RolesAreInOrder'
  BY ZenonT(60) DEF RolesAreInOrder
<1> QED
  BY <1>1, <1>2

(* The steps before a transaction begins, and those that only look.          *)
LEMMA PrepareStep ==
    ASSUME StartUpInv, NEW s \in Starts,
           StartServer(s) \/ Connect(s) \/ Retry(s) \/ RunMigrations(s)
    PROVE  StartUpInv'
<1> USE DEF StartUpInv
<1>1. s \in Runs /\ UNCHANGED <<outside, tables, inserted, applicant, record>>
  BY DEF Runs, StartServer, Connect, Retry, RunMigrations, workspace
<1>2. PICK label \in {"waiting", "migrating", "seeding", "lost"} :
          /\ runAt[s] \in {"unsent", "waiting", "migrating"}
          /\ runAt' = [runAt EXCEPT ![s] = label]
  BY DEF StartServer, Connect, Retry, RunMigrations, RunGoes
<1>3. /\ label # "seeding" => left' = left
      /\ label = "seeding" => runAt[s] = "migrating" /\ left' = [left EXCEPT ![s] = RoleOrder]
  BY <1>1, <1>2, RoleOrderIsOne
     DEF StartServer, Connect, Retry, RunMigrations, RunGoes, workspace, StartUpTypeOK
<1>4. \A r \in Runs : r # s => runAt'[r] = runAt[r] /\ left'[r] = left[r]
  BY <1>2, <1>3 DEF StartUpTypeOK
<1>5. /\ tries' \in [Runs -> 0 .. MaxRetries] /\ \A r \in Runs : r # s => tries'[r] = tries[r]
      /\ label = "waiting" => tries'[s] < MaxRetries
  <2>1. CASE Retry(s)
    <3>1. /\ runAt[s] = "waiting" /\ tries' = [tries EXCEPT ![s] = @ + 1]
          /\ runAt' = [runAt EXCEPT ![s] = IF tries[s] + 1 = MaxRetries THEN "lost" ELSE "waiting"]
      BY <2>1 DEF Retry, RunGoes
    <3>2. tries[s] \in Nat /\ tries[s] < MaxRetries /\ MaxRetries \in Nat
      BY <1>1, <3>1, StartUpAssumption DEF RunsFit, StartUpTypeOK
    <3>3. label = "waiting" => tries[s] + 1 # MaxRetries
      BY <1>1, <1>2, <3>1 DEF StartUpTypeOK
    <3> QED
      BY <1>1, <3>1, <3>2, <3>3 DEF StartUpTypeOK
  <2>2. CASE StartServer(s) \/ Connect(s) \/ RunMigrations(s)
    <3>1. tries' = tries
      BY <2>2 DEF StartServer, Connect, RunMigrations, workspace
    <3>2. label = "waiting" => runAt[s] = "unsent"
      BY <1>1, <1>2, <2>2 DEF StartServer, Connect, RunMigrations, RunGoes, StartUpTypeOK
    <3> QED
      BY <1>1, <3>1, <3>2, StartUpAssumption DEF RunsFit, StartUpTypeOK
  <2> QED
    BY <2>1, <2>2
<1>6. StartUpTypeOK'
  <2>1. left' \in [Runs -> Seq(RoleNames)]
    BY <1>2, <1>3, RoleOrderIsOne DEF StartUpTypeOK
  <2> QED
    BY <1>1, <1>2, <1>5, <2>1 DEF StartUpTypeOK, outside, tables
<1>7. /\ runAt'[s] = label /\ (label = "seeding" => left'[s] = RoleOrder /\ inserted[s] = {})
  BY <1>1, <1>2, <1>3 DEF StartUpTypeOK, RunsFit
<1>8. RolesAreCovered'
  <2>1. ASSUME NEW r \in Runs, runAt'[r] \in Open
        PROVE  /\ RoleNames \subseteq roles \cup inserted[r] \cup Remaining(left'[r])
               /\ runAt'[r] = "inserting" => left'[r] # <<>>
               /\ runAt'[r] \in {"looked", "flushed"} => left'[r] = <<>>
    <3>1. CASE r = s
      BY <1>2, <1>7, <2>1, <3>1, RoleOrderIsOne DEF Open
    <3>2. CASE r # s
      BY <1>4, <2>1, <3>2 DEF RolesAreCovered
    <3> QED
      BY <3>1, <3>2
  <2> QED
    BY <1>1, <2>1 DEF RolesAreCovered, tables
<1>9. RolesAreInOrder'
  <2>1. ASSUME NEW r \in Runs, runAt'[r] \in Open
        PROVE  /\ Len(left'[r]) <= Len(RoleOrder)
               /\ \A i \in 1 .. Len(left'[r]) :
                     left'[r][i] = RoleOrder[Len(RoleOrder) - Len(left'[r]) + i]
               /\ inserted[r] \subseteq {RoleOrder[i] : i \in 1 .. Len(RoleOrder) - Len(left'[r])}
    <3>1. CASE r = s
      BY <1>2, <1>7, <2>1, <3>1, RoleOrderIsOne DEF Open
    <3>2. CASE r # s
      BY <1>4, <2>1, <3>2 DEF RolesAreInOrder
    <3> QED
      BY <3>1, <3>2
  <2> QED
    BY <1>1, <2>1 DEF RolesAreInOrder
<1>10. RunsFit'
  BY <1>1, <1>2, <1>4, <1>5, <1>7, StartUpAssumption DEF RunsFit, Runs
<1>11. MembersAreGranted' /\ UpMeansReady'
  BY <1>1, <1>2, <1>4, <1>7, MembersRest DEF outside, tables
<1> QED
  BY <1>6, <1>8, <1>9, <1>10, <1>11

LEMMA RegisterStep ==
    ASSUME StartUpInv, NEW g \in Registrations, Register(g) PROVE StartUpInv'
<1> USE DEF StartUpInv
<1>1. PICK e \in Emails :
          /\ runAt[g] = "unsent"
          /\ runAt' = [runAt EXCEPT ![g] = IF e \in Users THEN "refused" ELSE "seeding"]
          /\ applicant' = [applicant EXCEPT ![g] = e]
          /\ left' = [left EXCEPT ![g] = RoleOrder]
          /\ UNCHANGED <<outside, tables, tries, inserted, record>>
  BY RoleOrderIsOne DEF Register, RunGoes
<1>2. g \in Runs /\ g \notin Starts /\ inserted[g] = {}
  BY <1>1, StartUpAssumption DEF Runs, RunsFit
<1>3. /\ runAt'[g] \in {"refused", "seeding"} /\ left'[g] = RoleOrder
      /\ \A r \in Runs : r # g => /\ runAt'[r] = runAt[r] /\ left'[r] = left[r]
                                 /\ applicant'[r] = applicant[r]
  BY <1>1, <1>2 DEF StartUpTypeOK
<1>4. StartUpTypeOK'
  <2>1. left' \in [Runs -> Seq(RoleNames)]
    BY <1>1, RoleOrderIsOne DEF StartUpTypeOK
  <2> QED
    BY <1>1, <2>1 DEF StartUpTypeOK, outside, tables
<1>5. RolesAreCovered'
  <2>1. ASSUME NEW r \in Runs, runAt'[r] \in Open
        PROVE  /\ RoleNames \subseteq roles \cup inserted[r] \cup Remaining(left'[r])
               /\ runAt'[r] = "inserting" => left'[r] # <<>>
               /\ runAt'[r] \in {"looked", "flushed"} => left'[r] = <<>>
    <3>1. CASE r = g
      BY <1>3, <2>1, <3>1, RoleOrderIsOne
    <3>2. CASE r # g
      BY <1>3, <2>1, <3>2 DEF RolesAreCovered
    <3> QED
      BY <3>1, <3>2
  <2> QED
    BY <1>1, <2>1 DEF RolesAreCovered, tables
<1>6. RolesAreInOrder'
  <2>1. ASSUME NEW r \in Runs, runAt'[r] \in Open
        PROVE  /\ Len(left'[r]) <= Len(RoleOrder)
               /\ \A i \in 1 .. Len(left'[r]) :
                     left'[r][i] = RoleOrder[Len(RoleOrder) - Len(left'[r]) + i]
               /\ inserted[r] \subseteq {RoleOrder[i] : i \in 1 .. Len(RoleOrder) - Len(left'[r])}
    <3>1. CASE r = g
      BY <1>2, <1>3, <2>1, <3>1, RoleOrderIsOne
    <3>2. CASE r # g
      BY ZenonT(60), <1>3, <2>1, <3>2 DEF RolesAreInOrder
    <3> QED
      BY <3>1, <3>2
  <2> QED
    BY <1>1, <2>1 DEF RolesAreInOrder
<1>7. RunsFit'
  BY <1>1, <1>2, <1>3 DEF RunsFit, Runs
<1>8. MembersAreGranted' /\ UpMeansReady'
  BY <1>1, <1>3, MembersRest DEF outside, tables
<1> QED
  BY <1>4, <1>5, <1>6, <1>7, <1>8

LEMMA Shifted ==
    ASSUME NEW x \in Nat, NEW y \in Nat, NEW m \in Nat, x <= m, y = x - 1
    PROVE  /\ y <= m /\ m - y = m - x + 1
           /\ \A i \in 1 .. y : i + 1 \in 1 .. x /\ m - x + (i + 1) = m - y + i
OBVIOUS

LEMMA SeedStep ==
    ASSUME StartUpInv, NEW r \in Runs, RoleFound(r) \/ RoleMissing(r) \/ InsertRole(r)
    PROVE  StartUpInv'
<1> USE DEF StartUpInv
<1>1. /\ UNCHANGED <<outside, tables, tries, applicant, record>>
      /\ runAt[r] \in {"seeding", "inserting"}
      /\ runAt' \in {[runAt EXCEPT ![r] = "seeding"], [runAt EXCEPT ![r] = "inserting"]}
      /\ left[r] # <<>>
  BY DEF RoleFound, RoleMissing, InsertRole, RunGoes, workspace, RolesAreCovered, Open
<1> DEFINE s == left[r]
<1>2. s \in Seq(RoleNames) /\ runAt[r] \in Open
  BY <1>1 DEF StartUpTypeOK, Open
<1>3. /\ Head(s) \in RoleNames /\ Tail(s) \in Seq(RoleNames)
      /\ Remaining(s) \subseteq {Head(s)} \cup Remaining(Tail(s))
      /\ Head(s) = s[1] /\ Len(s) \in Nat /\ Len(s) >= 1 /\ Len(Tail(s)) = Len(s) - 1
      /\ \A i \in 1 .. Len(Tail(s)) : Tail(s)[i] = s[i + 1]
  BY <1>1, <1>2, TailRemains
<1>a. Len(s) \in Nat /\ Len(s) >= 1 /\ Len(Tail(s)) = Len(s) - 1 /\ Len(Tail(s)) \in Nat
  BY <1>2, <1>3, LenProperties
<1>4. \/ left' = left /\ inserted' = inserted
      \/ /\ left' = [left EXCEPT ![r] = Tail(s)]
         /\ runAt'[r] = "seeding"
         /\ \/ inserted' = inserted /\ Head(s) \in roles
            \/ inserted' = [inserted EXCEPT ![r] = @ \cup {Head(s)}]
  BY DEF RoleFound, RoleMissing, InsertRole, RunGoes, workspace, StartUpTypeOK
<1>5. /\ \A q \in Runs : q # r => /\ runAt'[q] = runAt[q] /\ left'[q] = left[q]
                                 /\ inserted'[q] = inserted[q]
      /\ runAt'[r] \in {"seeding", "inserting"}
      /\ \/ left'[r] = s /\ inserted'[r] = inserted[r]
         \/ /\ left'[r] = Tail(s) /\ runAt'[r] = "seeding"
            /\ inserted[r] \subseteq inserted'[r] /\ inserted'[r] \subseteq inserted[r] \cup {Head(s)}
            /\ Head(s) \in roles \cup inserted'[r]
  BY <1>1, <1>4 DEF StartUpTypeOK
<1>6. StartUpTypeOK'
  <2>1. left' \in [Runs -> Seq(RoleNames)]
    BY <1>3, <1>4 DEF StartUpTypeOK
  <2>2. inserted' \in [Runs -> SUBSET RoleNames]
    <3>1. CASE inserted' = inserted
      BY <3>1 DEF StartUpTypeOK
    <3>2. CASE inserted' = [inserted EXCEPT ![r] = @ \cup {Head(s)}]
      <4>1. inserted[r] \cup {Head(s)} \in SUBSET RoleNames
        BY <1>3 DEF StartUpTypeOK
      <4> QED
        BY <3>2, <4>1 DEF StartUpTypeOK
    <3> QED
      BY <1>4, <3>1, <3>2
  <2>3. runAt' \in [Runs -> {"unsent", "waiting", "migrating", "seeding", "inserting", "looked",
                            "flushed", "done", "refused", "lost"}]
    BY <1>1 DEF StartUpTypeOK
  <2> QED
    BY <1>1, <2>1, <2>2, <2>3 DEF StartUpTypeOK, outside, tables
<1>7. RolesAreCovered'
  <2>1. ASSUME NEW q \in Runs, runAt'[q] \in Open
        PROVE  /\ RoleNames \subseteq roles \cup inserted'[q] \cup Remaining(left'[q])
               /\ runAt'[q] = "inserting" => left'[q] # <<>>
               /\ runAt'[q] \in {"looked", "flushed"} => left'[q] = <<>>
    <3>1. CASE q = r
      <4>1. RoleNames \subseteq roles \cup inserted[r] \cup Remaining(s)
        BY <1>2 DEF RolesAreCovered
      <4>2. RoleNames \subseteq roles \cup inserted'[r] \cup Remaining(left'[r])
        BY <1>3, <1>5, <4>1
      <4> QED
        BY <1>1, <1>5, <3>1, <4>2
    <3>2. CASE q # r
      BY <1>5, <2>1, <3>2 DEF RolesAreCovered
    <3> QED
      BY <3>1, <3>2
  <2> QED
    BY <1>1, <2>1 DEF RolesAreCovered, tables
<1>8. RolesAreInOrder'
  <2>1. ASSUME NEW q \in Runs, runAt'[q] \in Open
        PROVE  /\ Len(left'[q]) <= Len(RoleOrder)
               /\ \A i \in 1 .. Len(left'[q]) :
                     left'[q][i] = RoleOrder[Len(RoleOrder) - Len(left'[q]) + i]
               /\ inserted'[q] \subseteq {RoleOrder[i] : i \in 1 .. Len(RoleOrder) - Len(left'[q])}
    <3>1. CASE q = r /\ left'[r] = s /\ inserted'[r] = inserted[r]
      BY <1>2, <3>1 DEF RolesAreInOrder
    <3>2. CASE q = r /\ left'[r] = Tail(s) /\ inserted'[r] \subseteq inserted[r] \cup {Head(s)}
      <4> DEFINE n == Len(RoleOrder)
      <4>1. /\ Len(s) <= n /\ n \in Nat
            /\ \A i \in 1 .. Len(s) : s[i] = RoleOrder[n - Len(s) + i]
            /\ inserted[r] \subseteq {RoleOrder[i] : i \in 1 .. n - Len(s)}
        BY <1>2, RoleOrderIsOne DEF RolesAreInOrder
      <4>2. Len(Tail(s)) <= n /\ n - Len(Tail(s)) = n - Len(s) + 1
        BY <1>a, <4>1, Shifted
      <4>b. \A i \in 1 .. Len(Tail(s)) : /\ i + 1 \in 1 .. Len(s)
                                        /\ n - Len(s) + (i + 1) = n - Len(Tail(s)) + i
        <5>1. /\ Len(s) \in Nat /\ Len(Tail(s)) \in Nat /\ n \in Nat
              /\ Len(s) <= n /\ Len(Tail(s)) = Len(s) - 1
          BY <1>a, <4>1
        <5> HIDE DEF s, n
        <5> QED
          BY <5>1, Shifted
      <4>3. \A i \in 1 .. Len(Tail(s)) : Tail(s)[i] = RoleOrder[n - Len(Tail(s)) + i]
        <5> SUFFICES ASSUME NEW i \in 1 .. Len(Tail(s))
                     PROVE  Tail(s)[i] = RoleOrder[n - Len(Tail(s)) + i]
          OBVIOUS
        <5>1. i + 1 \in 1 .. Len(s) /\ n - Len(s) + (i + 1) = n - Len(Tail(s)) + i
          BY <4>b
        <5> QED
          BY <1>3, <4>1, <5>1
      <4>4. Head(s) = RoleOrder[n - Len(s) + 1] /\ n - Len(s) + 1 \in 1 .. n - Len(Tail(s))
        <5>1. 1 \in 1 .. Len(s) /\ n - Len(s) + 1 \in 1 .. n - Len(Tail(s))
          BY <1>a, <4>1, <4>2
        <5> QED
          BY <1>3, <4>1, <5>1
      <4>5. inserted'[r] \subseteq {RoleOrder[i] : i \in 1 .. n - Len(Tail(s))}
        <5>1. 1 .. n - Len(s) \subseteq 1 .. n - Len(Tail(s))
          BY <1>3, <4>1, <4>2
        <5> QED
          BY ZenonT(60), <3>2, <4>1, <4>4, <5>1
      <4> QED
        BY <3>2, <4>2, <4>3, <4>5
    <3>3. CASE q # r
      BY <1>5, <2>1, <3>3 DEF RolesAreInOrder
    <3> QED
      BY <1>5, <3>1, <3>2, <3>3
  <2> QED
    BY <2>1 DEF RolesAreInOrder
<1>9. RunsFit'
  BY <1>1, <1>5 DEF RunsFit, Runs
<1>10. MembersAreGranted' /\ UpMeansReady'
  BY <1>1, <1>5, MembersRest DEF outside, tables
<1> QED
  BY <1>6, <1>7, <1>8, <1>9, <1>10

LEMMA LookStep ==
    ASSUME StartUpInv, NEW s \in Runs, LookForAdmin(s) PROVE StartUpInv'
<1> USE DEF StartUpInv
<1>1. /\ s \in Starts /\ left[s] = <<>> /\ runAt[s] = "seeding"
      /\ runAt' = [runAt EXCEPT ![s] = "looked"]
      /\ record' = [record EXCEPT ![s] = members[AdminEmail]]
      /\ UNCHANGED <<outside, tables, tries, left, inserted, applicant>>
  BY DEF LookForAdmin, RunGoes, StartUpTypeOK
<1>2. AdminEmail \in Emails /\ s \notin Registrations
  BY <1>1, StartUpAssumption
<1>3. StartUpTypeOK'
  BY <1>1, <1>2 DEF StartUpTypeOK, outside, tables
<1>4. \A r \in Runs : runAt'[r] = IF r = s THEN "looked" ELSE runAt[r]
  BY <1>1 DEF StartUpTypeOK
<1>5. RolesAreCovered' /\ RolesAreInOrder'
  BY <1>1, <1>4, RolesRest DEF tables, Open, RolesAreCovered
<1>6. RunsFit'
  BY <1>1, <1>2, <1>4 DEF RunsFit, Runs
<1>7. MembersAreGranted' /\ UpMeansReady'
  <2>1. \A r \in Runs : record'[r] \in {record[r], members[AdminEmail]}
    BY <1>1 DEF StartUpTypeOK
  <2> QED
    BY <1>1, <1>4, <2>1, MembersRest DEF outside, tables
<1> QED
  BY <1>3, <1>5, <1>6, <1>7

LEMMA FlushStep ==
    ASSUME StartUpInv, NEW g \in Runs, FlushUser(g) PROVE StartUpInv'
<1> USE DEF StartUpInv
<1>1. /\ g \in Registrations /\ left[g] = <<>> /\ Flushing(g) = {} /\ applicant[g] \notin Users
      /\ runAt[g] = "seeding" /\ runAt' = [runAt EXCEPT ![g] = "flushed"]
      /\ UNCHANGED <<outside, tables, tries, left, inserted, applicant, record>>
  BY DEF FlushUser, RunGoes, workspace
<1>2. g \notin Starts
  BY <1>1, StartUpAssumption
<1>3. StartUpTypeOK'
  BY <1>1 DEF StartUpTypeOK, outside, tables
<1>4. \A r \in Runs : runAt'[r] = IF r = g THEN "flushed" ELSE runAt[r]
  BY <1>1 DEF StartUpTypeOK
<1>5. RolesAreCovered' /\ RolesAreInOrder'
  BY <1>1, <1>4, RolesRest DEF tables, Open, RolesAreCovered
<1>6. RunsFit'
  BY <1>1, <1>2, <1>4 DEF RunsFit, Runs
<1>7. MembersAreGranted'
  <2>1. \A q \in Runs : q # g /\ runAt[q] = "flushed" => applicant[q] # applicant[g]
    BY <1>1 DEF Flushing
  <2>2. Users' = Users
    BY <1>1 DEF Users, tables
  <2>3. ASSUME NEW r \in Runs, runAt'[r] = "flushed"
        PROVE  /\ applicant[r] \notin Users
               /\ \A q \in Runs : runAt'[q] = "flushed" /\ applicant[q] = applicant[r] => q = r
    BY <1>1, <1>4, <2>1, <2>3 DEF MembersAreGranted
  <2> QED
    BY <1>1, <2>2, <2>3 DEF MembersAreGranted, tables
<1>8. UpMeansReady'
  BY <1>1, <1>4 DEF UpMeansReady, Runs, outside, tables
<1> QED
  BY <1>3, <1>5, <1>6, <1>7, <1>8

(* What the two kinds of commit share.                                       *)
LEMMA CommitsStep ==
    ASSUME StartUpInv, NEW r \in Runs, NEW from \in {"flushed", "looked"}, NEW e \in Emails,
           NEW granted \in SUBSET {"admin", "customer"}, Commits(r, from, e, granted)
    PROVE  /\ StartUpTypeOK' /\ RolesAreCovered' /\ RolesAreInOrder' /\ RunsFit'
           /\ runAt[r] = from /\ roles' = RoleNames
           /\ \A q \in Runs : runAt'[q] = IF q = r THEN "done" ELSE runAt[q]
           /\ members'[e] = (members[e] \ Nobody) \cup granted
           /\ \A x \in Emails : x # e => members'[x] = members[x]
           /\ \A x \in Emails : members'[x] = Nobody \/ members'[x] \subseteq {"admin", "customer"}
           /\ \A x \in Emails : members[x] # Nobody => /\ members[x] \subseteq members'[x]
                                                     /\ members'[x] # Nobody
           /\ UNCHANGED <<configured, applicant, record>>
<1> USE DEF StartUpInv
<1>1. /\ runAt[r] = from /\ runAt' = [runAt EXCEPT ![r] = "done"]
      /\ roles' = roles \cup inserted[r]
      /\ members' = [members EXCEPT ![e] = (@ \ Nobody) \cup granted]
      /\ inserted' = [inserted EXCEPT ![r] = {}]
      /\ UNCHANGED <<outside, tries, left, applicant, record>>
  BY DEF Commits, RunGoes
<1>2. \A q \in Runs : /\ runAt'[q] = IF q = r THEN "done" ELSE runAt[q]
                      /\ q # r => inserted'[q] = inserted[q]
  BY <1>1 DEF StartUpTypeOK
<1>3. members'[e] = (members[e] \ Nobody) \cup granted /\ \A x \in Emails : x # e => members'[x] = members[x]
  BY <1>1 DEF StartUpTypeOK
<1>4. members[e] = Nobody \/ members[e] \subseteq {"admin", "customer"}
  BY DEF MembersAreGranted
<1>5. members'[e] \subseteq {"admin", "customer"}
  BY <1>3, <1>4
<1>6. \A x \in Emails : members[x] # Nobody => /\ members[x] \subseteq members'[x] /\ members'[x] # Nobody
  <2>1. members[e] # Nobody => members[e] \subseteq members'[e] /\ members'[e] # Nobody
    BY <1>3, <1>4, <1>5 DEF Nobody
  <2> QED
    BY <1>3, <2>1
<1>7. StartUpTypeOK'
  <2>1. {"admin", "customer"} \subseteq RoleNames
    BY StartUpAssumption
  <2>2. members' \in [Emails -> Record]
    BY ZenonT(60), <1>1, <1>5, <1>3, <2>1 DEF StartUpTypeOK, Record
  <2>3. roles' \subseteq RoleNames
    BY <1>1 DEF StartUpTypeOK
  <2> QED
    BY <1>1, <2>2, <2>3 DEF StartUpTypeOK, outside
<1>8. RolesAreCovered' /\ RolesAreInOrder'
  BY <1>1, <1>2, RolesRest DEF Open, RolesAreCovered
<1>9. RunsFit'
  BY <1>1, <1>2 DEF RunsFit, Runs
<1>10. roles' = RoleNames
  <2>1. left[r] = <<>> /\ RoleNames \subseteq roles \cup inserted[r] \cup Remaining(left[r])
    BY <1>1 DEF RolesAreCovered, Open
  <2>2. Remaining(<<>>) = {}
    BY DEF Remaining
  <2> QED
    BY <1>1, <1>7, <2>1, <2>2 DEF StartUpTypeOK
<1>11. \A x \in Emails : members'[x] = Nobody \/ members'[x] \subseteq {"admin", "customer"}
  BY <1>3, <1>5 DEF MembersAreGranted
<1> QED
  BY <1>1, <1>2, <1>3, <1>6, <1>7, <1>8, <1>9, <1>10, <1>11 DEF outside

LEMMA CommitUserStep ==
    ASSUME StartUpInv, NEW r \in Runs, CommitUser(r) PROVE StartUpInv'
<1> USE DEF StartUpInv
<1>1. PICK e \in Emails : e = applicant[r]
  BY DEF StartUpTypeOK
<1>2. Commits(r, "flushed", e, {"customer"})
  BY <1>1 DEF CommitUser
<1>3. /\ StartUpTypeOK' /\ RolesAreCovered' /\ RolesAreInOrder' /\ RunsFit'
      /\ runAt[r] = "flushed" /\ roles' = RoleNames
      /\ \A q \in Runs : runAt'[q] = IF q = r THEN "done" ELSE runAt[q]
      /\ members'[e] = (members[e] \ Nobody) \cup {"customer"}
      /\ \A x \in Emails : x # e => members'[x] = members[x]
      /\ \A x \in Emails : members'[x] = Nobody \/ members'[x] \subseteq {"admin", "customer"}
      /\ \A x \in Emails : members[x] # Nobody => /\ members[x] \subseteq members'[x]
                                                /\ members'[x] # Nobody
      /\ UNCHANGED <<configured, applicant, record>>
  BY <1>2, CommitsStep
<1>4. /\ e \notin Users /\ members[e] = Nobody
      /\ \A q \in Runs : runAt[q] = "flushed" /\ applicant[q] = e => q = r
  BY <1>1, <1>3 DEF MembersAreGranted, Users
<1>5. AdminEmail \in Emails /\ r \notin Starts /\ Starts \subseteq Runs /\ Registrations \subseteq Runs
  BY <1>3, StartUpAssumption DEF RunsFit, Runs
<1>6. MembersAreGranted'
  <2>1. ASSUME NEW s \in Runs, record[s] # Nobody
        PROVE  AdminEmail \in Users' /\ record[s] \subseteq members'[AdminEmail]
    BY <1>3, <1>5, <2>1 DEF MembersAreGranted, Users
  <2>2. ASSUME NEW q \in Runs, runAt'[q] = "flushed"
        PROVE  applicant[q] \notin Users' /\ runAt[q] = "flushed"
    <3>1. runAt[q] = "flushed" /\ q # r
      BY <1>3, <2>2
    <3>2. applicant[q] \in Emails /\ applicant[q] # e /\ applicant[q] \notin Users
      BY <1>4, <3>1 DEF MembersAreGranted, StartUpTypeOK
    <3> QED
      BY <1>3, <3>1, <3>2 DEF Users
  <2> QED
    BY <1>3, <2>1, <2>2 DEF MembersAreGranted
<1>7. UpMeansReady'
  <2>1. ASSUME NEW s \in configured, runAt'[s] = "done" PROVE "admin" \in members'[AdminEmail]
    <3>1. "admin" \in members[AdminEmail]
      BY <1>3, <1>5, <2>1 DEF UpMeansReady, StartUpTypeOK
    <3> QED
      BY <1>3, <1>5, <3>1 DEF Nobody
  <2>2. \A q \in Registrations : runAt[q] = "done" => "customer" \in members[applicant[q]]
    BY DEF UpMeansReady
  <2>3. \A q \in Registrations : runAt[q] = "done" => applicant[q] # e
    BY <1>4, <2>2 DEF Nobody
  <2>4. ASSUME NEW q \in Registrations, runAt'[q] = "done" PROVE "customer" \in members'[applicant[q]]
    <3>1. CASE q = r
      BY <1>1, <1>3, <3>1
    <3>2. CASE q # r
      <4>1. runAt[q] = "done" /\ applicant[q] \in Emails /\ applicant[q] # e
        BY <1>3, <1>5, <2>3, <2>4, <3>2 DEF StartUpTypeOK
      <4> QED
        BY <1>3, <2>2, <4>1
    <3> QED
      BY <3>1, <3>2
  <2>5. ASSUME NEW q \in Registrations, NEW p \in Registrations,
               runAt'[q] = "done", runAt'[p] = "done", applicant[p] = applicant[q]
        PROVE  p = q
    BY <1>1, <1>3, <1>5, <2>3, <2>5 DEF UpMeansReady
  <2> QED
    BY <1>3, <2>1, <2>4, <2>5 DEF UpMeansReady
<1> QED
  BY <1>3, <1>6, <1>7

LEMMA CommitAdminStep ==
    ASSUME StartUpInv, NEW s \in Runs, CommitAdmin(s) PROVE StartUpInv'
<1> USE DEF StartUpInv
<1>1. AdminEmail \in Emails /\ Granted(s) \in SUBSET {"admin", "customer"}
  BY StartUpAssumption DEF Granted
<1>2. Commits(s, "looked", AdminEmail, Granted(s)) /\ (record[s] = Nobody => Flushing(s) = {})
  BY DEF CommitAdmin
<1>3. /\ StartUpTypeOK' /\ RolesAreCovered' /\ RolesAreInOrder' /\ RunsFit'
      /\ runAt[s] = "looked" /\ roles' = RoleNames
      /\ \A q \in Runs : runAt'[q] = IF q = s THEN "done" ELSE runAt[q]
      /\ members'[AdminEmail] = (members[AdminEmail] \ Nobody) \cup Granted(s)
      /\ \A x \in Emails : x # AdminEmail => members'[x] = members[x]
      /\ \A x \in Emails : members'[x] = Nobody \/ members'[x] \subseteq {"admin", "customer"}
      /\ \A x \in Emails : members[x] # Nobody => /\ members[x] \subseteq members'[x]
                                                /\ members'[x] # Nobody
      /\ UNCHANGED <<configured, applicant, record>>
  BY <1>1, <1>2, CommitsStep
<1>4. /\ Starts \subseteq Runs /\ Registrations \subseteq Runs
      /\ s \in Starts /\ s \notin Registrations /\ applicant[s] = AdminEmail
  BY <1>3, StartUpAssumption DEF RunsFit, Runs
<1>5. \A q \in Runs : runAt[q] = "flushed" => applicant[q] # AdminEmail
  <2>1. CASE record[s] = Nobody
    BY <1>2, <1>3, <1>4, <2>1 DEF Flushing
  <2>2. CASE record[s] # Nobody
    BY <2>2 DEF MembersAreGranted
  <2> QED
    BY <2>1, <2>2
<1>6. MembersAreGranted'
  <2>1. ASSUME NEW q \in Runs, record[q] # Nobody
        PROVE  AdminEmail \in Users' /\ record[q] \subseteq members'[AdminEmail]
    BY <1>1, <1>3, <2>1 DEF MembersAreGranted, Users
  <2>2. ASSUME NEW q \in Runs, runAt'[q] = "flushed"
        PROVE  applicant[q] \notin Users' /\ runAt[q] = "flushed"
    <3>1. runAt[q] = "flushed"
      BY <1>3, <2>2
    <3>2. applicant[q] \in Emails /\ applicant[q] # AdminEmail /\ applicant[q] \notin Users
      BY <1>5, <3>1 DEF MembersAreGranted, StartUpTypeOK
    <3> QED
      BY <1>3, <3>1, <3>2 DEF Users
  <2> QED
    BY <1>3, <2>1, <2>2 DEF MembersAreGranted
<1>7. "admin" \in members'[AdminEmail]
  <2>1. CASE "admin" \notin record[s]
    BY <1>3, <2>1 DEF Granted
  <2>2. CASE "admin" \in record[s]
    <3>1. record[s] # Nobody
      BY <2>2 DEF Nobody
    <3> QED
      BY <1>3, <2>2, <3>1 DEF MembersAreGranted, Nobody
  <2> QED
    BY <2>1, <2>2
<1>8. UpMeansReady'
  <2>1. \A q \in Registrations : runAt[q] = "done" => "customer" \in members[applicant[q]]
    BY DEF UpMeansReady
  <2>2. ASSUME NEW q \in Registrations, runAt'[q] = "done"
        PROVE  runAt[q] = "done" /\ "customer" \in members'[applicant[q]]
    <3>1. runAt[q] = "done" /\ applicant[q] \in Emails
      BY <1>3, <1>4, <2>2 DEF StartUpTypeOK
    <3>2. "customer" \in members[applicant[q]] /\ members[applicant[q]] # Nobody
      BY <2>1, <3>1 DEF Nobody
    <3> QED
      BY <1>3, <3>1, <3>2
  <2> QED
    BY <1>3, <1>7, <2>2 DEF UpMeansReady
<1> QED
  BY <1>3, <1>6, <1>8

LEMMA CommitRolesStep ==
    ASSUME StartUpInv, NEW s \in Runs, CommitRoles(s) PROVE StartUpInv'
<1> USE DEF StartUpInv
<1>1. /\ s \in Starts /\ s \notin configured /\ left[s] = <<>> /\ runAt[s] = "seeding"
      /\ runAt' = [runAt EXCEPT ![s] = "done"]
      /\ roles' = roles \cup inserted[s]
      /\ inserted' = [inserted EXCEPT ![s] = {}]
      /\ UNCHANGED <<outside, members, tries, left, applicant, record>>
  BY DEF CommitRoles, RunGoes
<1>2. \A q \in Runs : /\ runAt'[q] = IF q = s THEN "done" ELSE runAt[q]
                      /\ q # s => inserted'[q] = inserted[q]
  BY <1>1 DEF StartUpTypeOK
<1>3. StartUpTypeOK'
  <2>1. roles' \subseteq RoleNames
    BY <1>1 DEF StartUpTypeOK
  <2> QED
    BY <1>1, <2>1 DEF StartUpTypeOK, outside
<1>4. RolesAreCovered' /\ RolesAreInOrder'
  BY <1>1, <1>2, RolesRest DEF Open, RolesAreCovered
<1>5. RunsFit'
  BY <1>1, <1>2 DEF RunsFit, Runs
<1>6. MembersAreGranted'
  BY <1>1, <1>2 DEF MembersAreGranted, Users
<1>7. roles' = RoleNames
  <2>1. RoleNames \subseteq roles \cup inserted[s] \cup Remaining(left[s])
    BY <1>1 DEF RolesAreCovered, Open
  <2>2. Remaining(<<>>) = {}
    BY DEF Remaining
  <2> QED
    BY <1>1, <1>3, <2>1, <2>2 DEF StartUpTypeOK
<1>8. UpMeansReady'
  <2>1. /\ Starts \subseteq Runs /\ Registrations \subseteq Runs /\ s \notin Registrations
        /\ configured' = configured
    BY <1>1, StartUpAssumption DEF Runs, outside
  <2> QED
    BY <1>1, <1>2, <1>7, <2>1 DEF UpMeansReady
<1> QED
  BY <1>3, <1>4, <1>5, <1>6, <1>8

LEMMA LoseStep ==
    ASSUME StartUpInv, NEW r \in Runs, LoseRun(r) PROVE StartUpInv'
<1> USE DEF StartUpInv
<1>1. /\ runAt[r] # "unsent" /\ runAt' = [runAt EXCEPT ![r] = "lost"]
      /\ inserted' = [inserted EXCEPT ![r] = {}]
      /\ UNCHANGED <<outside, tables, tries, left, applicant, record>>
  BY DEF LoseRun, RunGoes, Running
<1>2. \A q \in Runs : /\ runAt'[q] = IF q = r THEN "lost" ELSE runAt[q]
                      /\ inserted'[q] = IF q = r THEN {} ELSE inserted[q]
  BY <1>1 DEF StartUpTypeOK
<1>3. StartUpTypeOK'
  BY <1>1 DEF StartUpTypeOK, outside, tables
<1>4. RolesAreCovered' /\ RolesAreInOrder'
  BY <1>1, <1>2, RolesRest DEF tables, Open, RolesAreCovered
<1>5. RunsFit'
  BY <1>1, <1>2 DEF RunsFit, Runs
<1>6. MembersAreGranted' /\ UpMeansReady'
  BY <1>1, <1>2, MembersRest DEF outside, tables
<1> QED
  BY <1>3, <1>4, <1>5, <1>6

(* StartUpInv is inductive.                                                  *)
LEMMA StartUpStep == StartUpInv /\ [StartUpNext]_startVars => StartUpInv'
<1> SUFFICES ASSUME StartUpInv, [StartUpNext]_startVars PROVE StartUpInv'
  OBVIOUS
<1>1. ASSUME NEW r \in Runs, Proceeds(r) PROVE StartUpInv'
  BY <1>1, SeedStep, LookStep, FlushStep, CommitUserStep, CommitAdminStep, CommitRolesStep, LoseStep
     DEF Proceeds, Collide
<1>2. ASSUME NEW r \in Runs, LoseRun(r) PROVE StartUpInv'
  BY <1>2, LoseStep
<1>3. ASSUME NEW s \in Starts, Prepares(s) PROVE StartUpInv'
  BY <1>3, PrepareStep DEF Prepares
<1>4. ASSUME NEW g \in Registrations, Register(g) PROVE StartUpInv'
  BY <1>4, RegisterStep
<1>5. CASE DatabaseTurns \/ UNCHANGED startVars
  <2>1. UNCHANGED <<serving, configured, tables, runAt, workspace>> /\ reachable' \in BOOLEAN
    BY <1>5 DEF DatabaseTurns, startVars, outside, StartUpInv, StartUpTypeOK
  <2>2. StartUpTypeOK' /\ RunsFit'
    BY <2>1 DEF StartUpInv, StartUpTypeOK, RunsFit, tables, workspace
  <2>3. RolesAreCovered' /\ RolesAreInOrder'
    BY <2>1 DEF StartUpInv, RolesAreCovered, RolesAreInOrder, tables, workspace
  <2>4. MembersAreGranted' /\ UpMeansReady'
    BY <2>1 DEF StartUpInv, MembersAreGranted, UpMeansReady, Users, tables, workspace
  <2> QED
    BY <2>2, <2>3, <2>4 DEF StartUpInv
<1> QED
  BY <1>1, <1>2, <1>3, <1>4, <1>5 DEF StartUpNext

(* A server that came up found or made every role, and the administrator if  *)
(* its settings hold INITIAL_ADMIN_EMAIL and INITIAL_ADMIN_PASSWORD; and a   *)
(* registration that was answered made the one customer of its address       *)
(* (UpMeansReady): for any number of starts, registrations and roles, and    *)
(* whichever of the starts are configured.  prestart,                        *)
(* bootstrap_roles_and_admin() and register().                               *)
THEOREM AServerStartsReady == StartUpSpec => []UpMeansReady
<1>1. StartUpInit => StartUpInv
  BY StartUpStart
<1>2. StartUpInv /\ [StartUpNext]_startVars => StartUpInv'
  BY StartUpStep
<1>3. StartUpInv => UpMeansReady
  BY DEF StartUpInv
<1> QED
  BY <1>1, <1>2, <1>3, PTL DEF StartUpSpec

LEMMA SmallestNat == ASSUME NEW T, T \subseteq Nat, T # {} PROVE \E n \in T : \A m \in T : n <= m
<1> DEFINE R == OpToRel(<, Nat)
<1>0. \A m, k \in Nat : m < k => <<m, k>> \in R
  BY DEF OpToRel
<1>1. IsWellFoundedOn(R, Nat)
  BY NatLessThanWellFounded
<1> HIDE DEF R
<1>2. PICK n \in T : \A m \in T : ~ (<<m, n>> \in R)
  BY <1>1, WFMin
<1>3. \A m \in T : ~ (m < n)
  BY <1>0, <1>2
<1> QED
  BY <1>3

LEMMA Ahead ==
    ASSUME NEW n \in Nat, NEW a \in Nat, NEW b \in Nat, NEW i \in 1 .. n - b, i = n - a + 1
    PROVE  b < a
OBVIOUS

(* A run that waits for a role has more of the roles left than the run that  *)
(* has inserted it.                                                          *)
LEMMA HolderIsAhead ==
    ASSUME StartUpInv, NEW r \in Runs, NEW q \in Runs, runAt[r] = "inserting", runAt[q] \in Open,
           Head(left[r]) \in inserted[q]
    PROVE  Len(left[q]) < Len(left[r])
<1> USE DEF StartUpInv
<1> DEFINE n == Len(RoleOrder)
<1>1. /\ left[r] \in Seq(RoleNames) /\ left[q] \in Seq(RoleNames) /\ left[r] # <<>> /\ n \in Nat
      /\ runAt[r] \in Open
  BY RoleOrderIsOne DEF StartUpTypeOK, RolesAreCovered, Open
<1>2. /\ Head(left[r]) = left[r][1] /\ Len(left[r]) \in Nat /\ Len(left[r]) >= 1
      /\ Len(left[q]) \in Nat
  BY <1>1, TailRemains, LenProperties
<1>3. /\ Len(left[r]) <= n /\ \A i \in 1 .. Len(left[r]) : left[r][i] = RoleOrder[n - Len(left[r]) + i]
      /\ Len(left[q]) <= n /\ inserted[q] \subseteq {RoleOrder[i] : i \in 1 .. n - Len(left[q])}
  BY <1>1 DEF RolesAreInOrder
<1>4. Head(left[r]) = RoleOrder[n - Len(left[r]) + 1] /\ n - Len(left[r]) + 1 \in 1 .. n
  <2>1. 1 \in 1 .. Len(left[r]) /\ n - Len(left[r]) + 1 \in 1 .. n
    BY <1>1, <1>2, <1>3
  <2> QED
    BY <1>2, <1>3, <2>1
<1>5. PICK i \in 1 .. n - Len(left[q]) : Head(left[r]) = RoleOrder[i]
  BY <1>3
<1>6. i \in 1 .. n
  BY <1>1, <1>2, <1>3
<1>7. i = n - Len(left[r]) + 1
  BY <1>4, <1>5, <1>6, StartUpAssumption
<1> QED
  BY <1>1, <1>2, <1>7, Ahead

LEMMA TheForemostGoesOn == StartUpInv => SomeoneGoesOn
<1> SUFFICES ASSUME StartUpInv, Inserting # {}
             PROVE  \E r \in Inserting : \A q \in Inserting : ~WaitsFor(r, q)
  BY DEF SomeoneGoesOn
<1> USE DEF StartUpInv
<1>1. Inserting \subseteq Runs /\ \A r \in Inserting : runAt[r] \in Open
  BY DEF Inserting, Open
<1>2. CASE \E r \in Inserting : runAt[r] = "flushed"
  BY <1>2 DEF WaitsFor
<1>3. CASE \A r \in Inserting : runAt[r] # "flushed"
  <2>1. \A r \in Inserting : Flushing(r) = {}
    BY <1>3 DEF Flushing, Inserting
  <2> DEFINE T == {Len(left[r]) : r \in Inserting}
  <2>2. T \subseteq Nat /\ T # {}
    <3>1. ASSUME NEW r \in Inserting PROVE Len(left[r]) \in Nat
      <4>1. left[r] \in Seq(RoleNames)
        BY <1>1 DEF StartUpTypeOK
      <4> QED
        BY <4>1, LenProperties
    <3> QED
      BY <3>1
  <2>3. PICK k \in T : \A m \in T : k <= m
    BY <2>2, SmallestNat
  <2>4. PICK r \in Inserting : k = Len(left[r])
    BY <2>3
  <2>5. ASSUME NEW q \in Inserting, WaitsFor(r, q) PROVE FALSE
    <3>1. runAt[r] = "inserting" /\ Head(left[r]) \in inserted[q]
      BY <2>1, <2>5 DEF WaitsFor
    <3>2. Len(left[q]) < Len(left[r])
      BY <1>1, <3>1, HolderIsAhead
    <3>3. Len(left[q]) \in T /\ Len(left[r]) \in T /\ Len(left[r]) <= Len(left[q])
      BY <2>3, <2>4
    <3> QED
      BY <2>2, <3>2, <3>3
  <2> QED
    BY <2>5
<1> QED
  BY <1>2, <1>3

(* However many servers start and users register at once, the transactions   *)
(* never wait for each other in a circle: one of those that insert always    *)
(* goes on (SomeoneGoesOn).  They insert the roles in the order of RoleName, *)
(* so the one with the fewest left waits for none: ensure_defaults() and     *)
(* bootstrap_roles_and_admin().                                              *)
THEOREM NobodyWaitsInACircle == StartUpSpec => []SomeoneGoesOn
<1>1. StartUpInit => StartUpInv
  BY StartUpStart
<1>2. StartUpInv /\ [StartUpNext]_startVars => StartUpInv'
  BY StartUpStep
<1>3. StartUpInv => SomeoneGoesOn
  BY TheForemostGoesOn
<1> QED
  BY <1>1, <1>2, <1>3, PTL DEF StartUpSpec
=============================================================================
