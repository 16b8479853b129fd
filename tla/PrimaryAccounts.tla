--------------------------- MODULE PrimaryAccounts ---------------------------
(***************************************************************************)
(* The primary account of one user: AccountService.create_account() and     *)
(* update_preferences().  An account has the identity of the request that   *)
(* created it.                                                              *)
(***************************************************************************)
EXTENDS Integers, UnitOfWork

CONSTANT MaxEdits   \* bound: requests, numbered in the order of arrival

ASSUME PrimaryAssumption == MaxEdits \in Nat

Edits == 1 .. MaxEdits

VARIABLES
    isPrimary,    \* bank_accounts.is_primary, or "absent"
    edit,         \* what a request asks for
    editAt,       \* where its handler is
    sight,        \* the accounts as its session loaded them
    editsOverlapped   \* ghost: two requests were under way at once

primaryVars == <<isPrimary, edit, editAt, sight, editsOverlapped>>

Flags  == {"absent", "yes", "no"}
Edit   == [kind: {"create", "prefer"}, primary: {"yes", "no", "unset"}, account: Edits]
EditLabels == {"unsent", "received", "listed", "done", "refused", "lost"}

OpenAccounts  == {a \in Edits : isPrimary[a] # "absent"}
EditsUnderWay == {e \in Edits : editAt[e] \in {"received", "listed"}}

PrimaryInit ==
    /\ isPrimary = [a \in Edits |-> "absent"]
    /\ edit = [e \in Edits |-> [kind |-> "create", primary |-> "unset", account |-> e]]
    /\ editAt = [e \in Edits |-> "unsent"]
    /\ sight = [e \in Edits |-> [a \in Edits |-> "absent"]]
    /\ editsOverlapped = FALSE

-----------------------------------------------------------------------------
(* get_current_user() loads the user with all accounts.                      *)
EditsOf(e) == [kind: {"create"}, primary: {"yes", "no"}, account: {e}]
                  \cup [kind: {"prefer"}, primary: {"yes", "no", "unset"}, account: OpenAccounts]

ReceiveEdit(e) ==
    /\ editAt[e] = "unsent"
    /\ \A b \in 1 .. e - 1 : editAt[b] # "unsent"
    /\ \E x \in EditsOf(e) : edit' = [edit EXCEPT ![e] = x]
    /\ sight' = [sight EXCEPT ![e] = isPrimary]
    /\ editsOverlapped' = (editsOverlapped \/ EditsUnderWay # {})
    /\ editAt' = [editAt EXCEPT ![e] = "received"]
    /\ UNCHANGED isPrimary

(* list_by_user() finds the accounts of now; those the session holds already *)
(* keep the attributes they were loaded with.                               *)
Seen(e) == [a \in Edits |-> IF sight[e][a] = "absent" THEN isPrimary[a] ELSE sight[e][a]]

Lists(e) == edit[e].kind = "create" \/ edit[e].primary = "yes"

ListAccounts(e) ==
    /\ editAt[e] = "received"
    /\ Lists(e)
    /\ sight' = [sight EXCEPT ![e] = Seen(e)]
    /\ editAt' = [editAt EXCEPT ![e] = "listed"]
    /\ UNCHANGED <<isPrimary, edit, editsOverlapped>>

CloseEdit(e, label) ==
    /\ editAt' = [editAt EXCEPT ![e] = label]
    /\ UNCHANGED <<edit, sight, editsOverlapped>>

(* Seeded fault: the other accounts keep their flag.                         *)
AssignedAlone(e, a) ==
    IF edit[e].primary = "yes" /\ a = edit[e].account THEN "yes" ELSE sight[e][a]

(* Choosing a primary account gives every account of the list its flag.      *)
Assigned(e, a) ==
    IF edit[e].primary = "yes" /\ sight[e][a] # "absent"
    THEN IF a = edit[e].account THEN "yes" ELSE "no"
    ELSE sight[e][a]

FlagsWritten(e) == [a \in Edits |-> Flushed(isPrimary[a], sight[e][a], Assigned(e, a))]

(* The first account is the primary one whatever was asked for.              *)
OpeningFlag(e) ==
    IF \A a \in Edits : sight[e][a] = "absent" THEN "yes" ELSE edit[e].primary

CommitAccount(e) ==
    /\ editAt[e] = "listed"
    /\ edit[e].kind = "create"
    /\ isPrimary' = [FlagsWritten(e) EXCEPT ![e] = OpeningFlag(e)]
    /\ CloseEdit(e, "done")

CommitPreference(e) ==
    /\ editAt[e] = "listed"
    /\ edit[e].kind = "prefer"
    /\ isPrimary' = FlagsWritten(e)
    /\ CloseEdit(e, "done")

(* A request that does not make its account the primary one writes no flag,  *)
(* and is refused if it would take the flag away.                           *)
AnswerPreference(e) ==
    /\ editAt[e] = "received"
    /\ ~Lists(e)
    /\ CloseEdit(e, IF edit[e].primary = "no" /\ sight[e][edit[e].account] = "yes"
                    THEN "refused" ELSE "done")
    /\ UNCHANGED isPrimary

(* A failing statement, no free account number in ten draws, or a crash.     *)
LoseEdit(e) ==
    /\ e \in EditsUnderWay
    /\ CloseEdit(e, "lost")
    /\ UNCHANGED isPrimary

PrimaryNext ==
    \E e \in Edits : \/ ReceiveEdit(e) \/ ListAccounts(e) \/ CommitAccount(e)
                     \/ CommitPreference(e) \/ AnswerPreference(e) \/ LoseEdit(e)

PrimarySpec == PrimaryInit /\ [][PrimaryNext]_primaryVars

-----------------------------------------------------------------------------
PrimaryTypeOK ==
    /\ isPrimary \in [Edits -> Flags]
    /\ edit \in [Edits -> Edit]
    /\ editAt \in [Edits -> EditLabels]
    /\ sight \in [Edits -> [Edits -> Flags]]
    /\ editsOverlapped \in BOOLEAN

(* "At least one primary account must remain selected" (update_preferences), *)
(* and never two: as long as no two requests of the user overlap, whatever  *)
(* is created, chosen, refused or lost.  Overlapping requests break it.     *)
OnePrimaryAccount ==
    ~editsOverlapped /\ OpenAccounts # {} =>
        \E a \in OpenAccounts : \A b \in OpenAccounts : isPrimary[b] = "yes" <=> b = a
=============================================================================
