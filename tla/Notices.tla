-------------------------------- MODULE Notices --------------------------------
(***************************************************************************)
(* The notifications of one user and the preferences that decide whether     *)
(* they are mailed: NotificationService.create_notification(), inside       *)
(* requests of the user or about the user, and                              *)
(* NotificationPreferenceService.get_preferences() and update_preferences().*)
(* Only security alerts are sent with send_email; nothing is sent by SMS.   *)
(***************************************************************************)
EXTENDS Integers, UnitOfWork

CONSTANTS
    MaxNotices,   \* bound: requests, numbered in the order of arrival
    Wishes        \* bound: what a PUT may ask for, per category

NoticeIds  == 1 .. MaxNotices
Categories == {"security_alert", "system"}

ASSUME NoticesAssumption ==
    /\ MaxNotices \in Nat
    /\ Wishes \subseteq [Categories -> {"keep", "on", "off"}]

VARIABLES
    preference,  \* notification_preferences: whether the row exists, its e-mail columns
    inbox,       \* notifications, by the request that created them
    mailed,      \* requests of which a mail was handed to the mailer
    notice,      \* what a request brings
    noticeAt,    \* where its handler is
    glimpse      \* the preferences as its session holds them

noticeVars == <<preference, inbox, mailed, notice, noticeAt, glimpse>>

(* The row a user is given when the preferences are first asked for; it may  *)
(* have been long ago.                                                      *)
DefaultMail  == [c \in Categories |-> c # "system"]
Preference   == [exists: BOOLEAN, mail: [Categories -> BOOLEAN]]
NoPreference == [exists |-> FALSE, mail |-> DefaultMail]
Keep         == [c \in Categories |-> "keep"]
Notice       == [kind: {"notify", "get", "put"}, wish: Wishes \cup {Keep}, barred: BOOLEAN]
OpenNotice   == {"received", "flushed", "checked", "held"}

NoticesInit ==
    /\ preference \in {NoPreference, [NoPreference EXCEPT !.exists = TRUE]}
    /\ inbox = {}
    /\ mailed = {}
    /\ notice = [n \in NoticeIds |-> [kind |-> "get", wish |-> Keep, barred |-> FALSE]]
    /\ noticeAt = [n \in NoticeIds |-> "unsent"]
    /\ glimpse = [n \in NoticeIds |-> NoPreference]

-----------------------------------------------------------------------------
NoticeGoes(n, from, label) ==
    /\ noticeAt[n] = from
    /\ noticeAt' = [noticeAt EXCEPT ![n] = label]

(* The user has switched the mails off, was answered, and never on.          *)
OptedOut ==
    /\ \E p \in NoticeIds : noticeAt[p] = "done" /\ notice[p].wish["security_alert"] = "off"
    /\ \A p \in NoticeIds : notice[p].wish["security_alert"] # "on"

NoticesOf ==
    [kind: {"notify", "get"}, wish: {Keep}, barred: {OptedOut}]
        \cup [kind: {"put"}, wish: Wishes, barred: {OptedOut}]

(* The user is loaded, and the preferences with the user.                    *)
ReceiveNotice(n) ==
    /\ NoticeGoes(n, "unsent", "received")
    /\ \A b \in 1 .. n - 1 : noticeAt[b] # "unsent"
    /\ \E x \in NoticesOf : notice' = [notice EXCEPT ![n] = x]
    /\ glimpse' = [glimpse EXCEPT ![n] = preference]
    /\ UNCHANGED <<preference, inbox, mailed>>

(* get_for_user() finds the row of now, but one the session holds keeps the  *)
(* attributes it was loaded with.                                           *)
HeldPreference(n) == IF glimpse[n].exists THEN glimpse[n] ELSE preference

(* create_notification(): insert, ask, mail; the caller commits.             *)
FlushNotice(n) ==
    /\ notice[n].kind = "notify"
    /\ NoticeGoes(n, "received", "flushed")
    /\ UNCHANGED <<preference, inbox, mailed, notice, glimpse>>

(* Seeded fault: the preferences are read from the defaults.                 *)
AllowedByDefault(n) == DefaultMail["security_alert"]

(* No row yet: everything but SMS is allowed.                                *)
ChannelAllowed(n) == HeldPreference(n).exists => HeldPreference(n).mail["security_alert"]

AskChannel(n) ==
    /\ NoticeGoes(n, "flushed", "checked")
    /\ mailed' = IF ChannelAllowed(n) THEN mailed \cup {n} ELSE mailed
    /\ UNCHANGED <<preference, inbox, notice, glimpse>>

CommitNotice(n) ==
    /\ NoticeGoes(n, "checked", "done")
    /\ inbox' = inbox \cup {n}
    /\ UNCHANGED <<preference, mailed, notice, glimpse>>

-----------------------------------------------------------------------------
(* get_or_create(), for both routes.                                         *)
GetOrCreate(n) ==
    /\ notice[n].kind \in {"get", "put"}
    /\ NoticeGoes(n, "received", "held")
    /\ glimpse' = [glimpse EXCEPT ![n] = HeldPreference(n)]
    /\ UNCHANGED <<preference, inbox, mailed, notice>>

WishedMail(n) ==
    [c \in Categories |-> IF notice[n].wish[c] = "keep" THEN glimpse[n].mail[c]
                          ELSE notice[n].wish[c] = "on"]

(* A row that the session created is inserted, and one per user is allowed;  *)
(* of a row it loaded only the changed columns are updated.                  *)
MailWritten(n) ==
    IF glimpse[n].exists
    THEN [c \in Categories |-> Flushed(preference.mail[c], glimpse[n].mail[c], WishedMail(n)[c])]
    ELSE WishedMail(n)

CommitPreferences(n) ==
    /\ glimpse[n].exists \/ ~preference.exists
    /\ NoticeGoes(n, "held", "done")
    /\ preference' = [exists |-> TRUE, mail |-> MailWritten(n)]
    /\ UNCHANGED <<inbox, mailed, notice, glimpse>>

(* A violated constraint, another failing statement or a crash.              *)
LoseNotice(n) ==
    /\ noticeAt[n] \in OpenNotice
    /\ NoticeGoes(n, noticeAt[n], "lost")
    /\ UNCHANGED <<preference, inbox, mailed, notice, glimpse>>

NoticesNext ==
    \E n \in NoticeIds : \/ ReceiveNotice(n) \/ FlushNotice(n) \/ AskChannel(n)
                         \/ CommitNotice(n) \/ GetOrCreate(n) \/ CommitPreferences(n)
                         \/ LoseNotice(n)

NoticesSpec == NoticesInit /\ [][NoticesNext]_noticeVars

-----------------------------------------------------------------------------
NoticesTypeOK ==
    /\ preference \in Preference
    /\ inbox \subseteq NoticeIds
    /\ mailed \subseteq NoticeIds
    /\ notice \in [NoticeIds -> Notice]
    /\ noticeAt \in [NoticeIds -> OpenNotice \cup {"unsent", "done", "lost"}]
    /\ glimpse \in [NoticeIds -> Preference]

(* A user who was told that the mails of a category are off, and does not     *)
(* switch them on, gets none for anything that happens afterwards, however   *)
(* the requests that read, create and change the preferences overlap: one    *)
(* that still holds the old flags does not write them back.                  *)
OptOutIsKept == \A n \in mailed : ~notice[n].barred
=============================================================================
