-------------------------------- MODULE StartUp --------------------------------
(***************************************************************************)
(* Servers that start on one database, and the registrations that a server   *)
(* takes meanwhile: prestart, bootstrap_roles_and_admin(),                   *)
(* RoleRepository.ensure_defaults() and AuthService.register().  A server    *)
(* that starts again is another start.                                      *)
(*                                                                         *)
(* An INSERT of a key that another transaction has inserted waits for it to  *)
(* end, and fails if it was committed.  Nothing is assumed about the         *)
(* database detecting transactions that wait for each other.                *)
(***************************************************************************)
EXTENDS Integers, Sequences

CONSTANTS
    Starts,         \* bound: starts of a server
    Registrations,  \* bound: registrations
    RoleOrder,      \* RoleName, in the order of its definition
    Emails,         \* addresses of users
    AdminEmail,     \* settings.initial_admin_email
    MaxRetries      \* DB_CONNECT_MAX_RETRIES

Runs      == Starts \cup Registrations
RoleNames == {RoleOrder[i] : i \in 1 .. Len(RoleOrder)}

ASSUME StartUpAssumption ==
    /\ Starts \cap Registrations = {}
    /\ RoleOrder \in Seq(STRING)
    /\ \A i, j \in 1 .. Len(RoleOrder) : RoleOrder[i] = RoleOrder[j] => i = j
    /\ {"admin", "customer"} \subseteq RoleNames
    /\ AdminEmail \in Emails
    /\ MaxRetries \in Nat \ {0}

VARIABLES
    reachable,   \* whether the database answers
    serving,     \* whether a server that was there before takes requests
    configured,  \* the starts whose settings hold INITIAL_ADMIN_EMAIL and INITIAL_ADMIN_PASSWORD
    roles,       \* roles: the committed names
    members,     \* users and user_roles: the roles of each user, by address
    runAt,       \* where a start or a registration is
    tries,       \* failed attempts of a start to connect
    left,        \* the roles that it has still to look at
    inserted,    \* roles that it has inserted and not committed
    applicant,   \* the address it creates or makes an administrator
    record       \* that user's roles as its session loaded them

tables    == <<roles, members>>
outside   == <<reachable, serving, configured>>
workspace == <<tries, left, inserted, applicant, record>>
startVars == <<outside, tables, runAt, workspace>>

Nobody == {"absent"}     \* in place of a set of roles: there is no such user
Record == (SUBSET RoleNames) \cup {Nobody}
Users  == {e \in Emails : members[e] # Nobody}

(* Seeded fault: the names come from a set, in an order of the process.      *)
AnyOrder == {s \in [1 .. Len(RoleOrder) -> RoleNames] :
                \A i, j \in 1 .. Len(RoleOrder) : s[i] = s[j] => i = j}

Orders == {RoleOrder}

(* An empty database, or one that a server without INITIAL_ADMIN_EMAIL has   *)
(* filled and still serves.  By default no server has it: each start is told *)
(* by its own environment, which it never writes.                           *)
StartUpInit ==
    /\ reachable = TRUE
    /\ configured \in SUBSET Starts
    /\ \/ serving = FALSE /\ roles = {} /\ members = [e \in Emails |-> Nobody]
       \/ serving = TRUE /\ roles = RoleNames
          /\ members \in [Emails -> {Nobody, {"customer"}}]
    /\ runAt = [r \in Runs |-> "unsent"]
    /\ tries = [r \in Runs |-> 0]
    /\ left = [r \in Runs |-> <<>>]
    /\ inserted = [r \in Runs |-> {}]
    /\ applicant = [r \in Runs |-> AdminEmail]
    /\ record = [r \in Runs |-> Nobody]

-----------------------------------------------------------------------------
RunGoes(r, from, label) ==
    /\ runAt[r] = from
    /\ runAt' = [runAt EXCEPT ![r] = label]

(* prestart: wait_for_database(), then run_migrations(), then the server.    *)
StartServer(s) ==
    /\ RunGoes(s, "unsent", "waiting")
    /\ UNCHANGED <<outside, tables, workspace>>

Connect(s) ==
    /\ reachable
    /\ RunGoes(s, "waiting", "migrating")
    /\ UNCHANGED <<outside, tables, workspace>>

Retry(s) ==
    /\ ~reachable
    /\ RunGoes(s, "waiting", IF tries[s] + 1 = MaxRetries THEN "lost" ELSE "waiting")
    /\ tries' = [tries EXCEPT ![s] = @ + 1]
    /\ UNCHANGED <<outside, tables, left, inserted, applicant, record>>

RunMigrations(s) ==
    /\ RunGoes(s, "migrating", "seeding")
    /\ \E order \in Orders : left' = [left EXCEPT ![s] = order]
    /\ UNCHANGED <<outside, tables, tries, inserted, applicant, record>>

DatabaseTurns ==
    /\ reachable' = ~reachable
    /\ UNCHANGED <<serving, configured, tables, runAt, workspace>>

(* register(): the address must be free.                                     *)
Register(r) ==
    /\ serving \/ \E s \in Starts : runAt[s] = "done"
    /\ \E e \in Emails, order \in Orders :
        /\ RunGoes(r, "unsent", IF e \in Users THEN "refused" ELSE "seeding")
        /\ applicant' = [applicant EXCEPT ![r] = e]
        /\ left' = [left EXCEPT ![r] = order]
    /\ UNCHANGED <<outside, tables, tries, inserted, record>>

-----------------------------------------------------------------------------
(* ensure_defaults(), for both: each role is selected, and inserted at once   *)
(* when it was not found.                                                   *)
RoleFound(r) ==
    /\ left[r] # <<>>
    /\ Head(left[r]) \in roles
    /\ RunGoes(r, "seeding", "seeding")
    /\ left' = [left EXCEPT ![r] = Tail(@)]
    /\ UNCHANGED <<outside, tables, tries, inserted, applicant, record>>

RoleMissing(r) ==
    /\ left[r] # <<>>
    /\ Head(left[r]) \notin roles
    /\ RunGoes(r, "seeding", "inserting")
    /\ UNCHANGED <<outside, tables, workspace>>

InsertRole(r) ==
    /\ RunGoes(r, "inserting", "seeding")
    /\ Head(left[r]) \notin roles
    /\ \A q \in Runs : Head(left[r]) \notin inserted[q]
    /\ inserted' = [inserted EXCEPT ![r] = @ \cup {Head(left[r])}]
    /\ left' = [left EXCEPT ![r] = Tail(@)]
    /\ UNCHANGED <<outside, tables, tries, applicant, record>>

(* get_by_email(settings.initial_admin_email), if the settings name one.     *)
LookForAdmin(s) ==
    /\ s \in configured
    /\ left[s] = <<>>
    /\ RunGoes(s, "seeding", "looked")
    /\ record' = [record EXCEPT ![s] = members[AdminEmail]]
    /\ UNCHANGED <<outside, tables, tries, left, inserted, applicant>>

(* register() inserts the user, and then writes its code and its notice.     *)
Flushing(r) == {q \in Runs \ {r} : runAt[q] = "flushed" /\ applicant[q] = applicant[r]}

FlushUser(r) ==
    /\ r \in Registrations
    /\ left[r] = <<>>
    /\ Flushing(r) = {}
    /\ applicant[r] \notin Users
    /\ RunGoes(r, "seeding", "flushed")
    /\ UNCHANGED <<outside, tables, workspace>>

-----------------------------------------------------------------------------
Commits(r, from, e, granted) ==
    /\ RunGoes(r, from, "done")
    /\ roles' = roles \cup inserted[r]
    /\ members' = [members EXCEPT ![e] = (@ \ Nobody) \cup granted]
    /\ inserted' = [inserted EXCEPT ![r] = {}]
    /\ UNCHANGED <<outside, tries, left, applicant, record>>

CommitUser(r) == Commits(r, "flushed", applicant[r], {"customer"})

(* Seeded fault: a user who is there is left alone.                          *)
GrantedToNew(s) == IF record[s] = Nobody THEN {"admin"} ELSE {}

(* The user is inserted, or the membership, or nothing.                      *)
Granted(s) == {"admin"} \ record[s]

(* One row per address, and one per user and role.                           *)
AdminCollides(s) == IF record[s] = Nobody THEN AdminEmail \in Users
                    ELSE Granted(s) \cap members[AdminEmail] # {}

CommitAdmin(s) ==
    /\ record[s] = Nobody => Flushing(s) = {}
    /\ ~AdminCollides(s)
    /\ Commits(s, "looked", AdminEmail, Granted(s))

(* Settings without an administrator: the roles are all that is committed.   *)
CommitRoles(s) ==
    /\ s \in Starts \ configured
    /\ left[s] = <<>>
    /\ RunGoes(s, "seeding", "done")
    /\ roles' = roles \cup inserted[s]
    /\ inserted' = [inserted EXCEPT ![s] = {}]
    /\ UNCHANGED <<outside, members, tries, left, applicant, record>>

(* A violated constraint, another failing statement, a password in the       *)
(* settings that is too weak, no connection, a crash.                        *)
Running(r) ==
    runAt[r] \in {"waiting", "migrating", "seeding", "inserting", "looked", "flushed"}

LoseRun(r) ==
    /\ Running(r)
    /\ RunGoes(r, runAt[r], "lost")
    /\ inserted' = [inserted EXCEPT ![r] = {}]
    /\ UNCHANGED <<outside, tables, tries, left, applicant, record>>

(* The INSERT that cannot succeed any more fails.                            *)
Collides(r) ==
    \/ runAt[r] = "inserting" /\ Head(left[r]) \in roles
    \/ r \in Registrations /\ runAt[r] = "seeding" /\ left[r] = <<>> /\ applicant[r] \in Users
    \/ runAt[r] = "looked" /\ AdminCollides(r)

Collide(r) == Collides(r) /\ LoseRun(r)

Prepares(s) == StartServer(s) \/ Connect(s) \/ Retry(s) \/ RunMigrations(s)

Proceeds(r) ==
    \/ InsertRole(r) \/ RoleFound(r) \/ RoleMissing(r) \/ LookForAdmin(r) \/ FlushUser(r)
    \/ CommitUser(r) \/ CommitAdmin(r) \/ CommitRoles(r) \/ Collide(r)

StartUpNext ==
    \/ \E r \in Runs : Proceeds(r) \/ LoseRun(r)
    \/ \E s \in Starts : Prepares(s)
    \/ \E r \in Registrations : Register(r)
    \/ DatabaseTurns

StartUpSpec == StartUpInit /\ [][StartUpNext]_startVars

-----------------------------------------------------------------------------
StartUpTypeOK ==
    /\ reachable \in BOOLEAN
    /\ serving \in BOOLEAN
    /\ configured \subseteq Starts
    /\ roles \subseteq RoleNames
    /\ members \in [Emails -> Record]
    /\ runAt \in [Runs -> {"unsent", "waiting", "migrating", "seeding", "inserting", "looked",
                           "flushed", "done", "refused", "lost"}]
    /\ tries \in [Runs -> 0 .. MaxRetries]
    /\ left \in [Runs -> Seq(RoleNames)]
    /\ inserted \in [Runs -> SUBSET RoleNames]
    /\ applicant \in [Runs -> Emails]
    /\ record \in [Runs -> Record]

(* "If INITIAL_ADMIN_EMAIL and INITIAL_ADMIN_PASSWORD are set in .env, the    *)
(* app bootstraps default roles and a first admin user on startup": once a    *)
(* server is up every role is there, and the administrator if its settings    *)
(* name one, whichever starts and registrations overlapped, with the same     *)
(* settings or not, and however many were lost; and a registration that was   *)
(* answered made a customer, alone for its address.                           *)
UpMeansReady ==
    /\ \A s \in Starts : runAt[s] = "done" =>
          roles = RoleNames /\ (s \in configured => "admin" \in members[AdminEmail])
    /\ \A r \in Registrations : runAt[r] = "done" =>
          /\ "customer" \in members[applicant[r]]
          /\ \A q \in Registrations : runAt[q] = "done" /\ applicant[q] = applicant[r] => q = r

(* No start hangs on another: as long as a transaction inserts roles or a     *)
(* user, one of them is not waiting for another, because every process        *)
(* inserts the roles in one order, and a user after them.                     *)
WaitsFor(r, q) ==
    \/ runAt[r] = "inserting" /\ Head(left[r]) \in inserted[q]
    \/ /\ q \in Flushing(r)
       /\ \/ r \in Registrations /\ runAt[r] = "seeding" /\ left[r] = <<>>
          \/ runAt[r] = "looked" /\ record[r] = Nobody

Inserting == {r \in Runs : runAt[r] \in {"seeding", "inserting", "looked", "flushed"}}

SomeoneGoesOn ==
    Inserting # {} => \E r \in Inserting : \A q \in Inserting : ~WaitsFor(r, q)
=============================================================================
