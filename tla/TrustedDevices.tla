----------------------------- MODULE TrustedDevices -----------------------------
(***************************************************************************)
(* The devices that one user is known to sign in from, and the warning that  *)
(* a successful login() gets from SessionService.create_session().  Whether  *)
(* the login succeeds is the subject of SignOn: here its password is right.  *)
(* A login without a device is never looked at and left out.                 *)
(***************************************************************************)
EXTENDS Integers, UnitOfWork

CONSTANTS
    MaxLogins,   \* bound: logins, numbered in the order of arrival
    DeviceIds,   \* device_id, or device_name when there is none
    Addresses,   \* ip_fingerprint() of a known client address
    NoAddress    \* ... of a client whose address is not known

Logins == 1 .. MaxLogins

ASSUME DevicesAssumption ==
    /\ MaxLogins \in Nat
    /\ DeviceIds # {}
    /\ NoAddress \notin Addresses

VARIABLES
    trusted,     \* trusted_devices: the devices that have a row
    lastIp,      \* ... and its last_ip_hash
    login,       \* the device and the address of a login
    loginAt,     \* where its handler is
    held,        \* the devices as its session loaded them
    reason       \* login_events.reason, and the warning that is mailed

deviceVars == <<trusted, lastIp, login, loginAt, held, reason>>

Hashes  == Addresses \cup {NoAddress}
Login   == [device: DeviceIds, ip: Hashes]
HeldDevices    == [trusted: SUBSET DeviceIds, ip: [DeviceIds -> Hashes]]
Reasons == {"none", "new_device", "new_ip"}
NoLogin == [device |-> CHOOSE d \in DeviceIds : TRUE, ip |-> NoAddress]
NothingHeld == [trusted |-> {}, ip |-> [d \in DeviceIds |-> NoAddress]]

DevicesInit ==
    /\ trusted = {}
    /\ lastIp = [d \in DeviceIds |-> NoAddress]
    /\ login = [l \in Logins |-> NoLogin]
    /\ loginAt = [l \in Logins |-> "unsent"]
    /\ held = [l \in Logins |-> NothingHeld]
    /\ reason = [l \in Logins |-> "none"]

-----------------------------------------------------------------------------
LoginGoes(l, from, label) ==
    /\ loginAt[l] = from
    /\ loginAt' = [loginAt EXCEPT ![l] = label]

(* get_by_email() loads the user with all trusted devices.                   *)
ReceiveLogin(l) ==
    /\ LoginGoes(l, "unsent", "loaded")
    /\ \A b \in 1 .. l - 1 : loginAt[b] # "unsent"
    /\ \E x \in Login : login' = [login EXCEPT ![l] = x]
    /\ held' = [held EXCEPT ![l] = [trusted |-> trusted, ip |-> lastIp]]
    /\ UNCHANGED <<trusted, lastIp, reason>>

(* get_for_user() finds the row of now; one that the session holds keeps the *)
(* attributes it was loaded with.                                           *)
Found(l) ==
    [trusted |-> held[l].trusted \cup (trusted \cap {login[l].device}),
     ip |-> [d \in DeviceIds |-> IF d \in held[l].trusted THEN held[l].ip[d] ELSE lastIp[d]]]

(* Seeded fault: a device that is known is known from everywhere.            *)
WarningOfDevice(device, ip, row) == IF device \notin row.trusted THEN "new_device" ELSE "none"

(* An address that was not known is not compared.                            *)
Warning(device, ip, row) ==
    IF device \notin row.trusted THEN "new_device"
    ELSE IF row.ip[device] \notin {NoAddress, ip} THEN "new_ip" ELSE "none"

JudgeDevice(l) ==
    /\ LoginGoes(l, "loaded", "judged")
    /\ held' = [held EXCEPT ![l] = Found(l)]
    /\ reason' = [reason EXCEPT ![l] = Warning(login[l].device, login[l].ip, Found(l))]
    /\ UNCHANGED <<trusted, lastIp, login>>

(* flush() first updates the user's last_login_at and holds that row until    *)
(* the commit: two logins of a user write one after the other.  One row per  *)
(* user and device: an INSERT of a second one fails.                        *)
CommitLogin(l) ==
    LET d == login[l].device IN
    /\ d \in trusted => d \in held[l].trusted
    /\ LoginGoes(l, "judged", "done")
    /\ trusted' = trusted \cup {d}
    /\ lastIp' = [lastIp EXCEPT ![d] =
                     IF d \in held[l].trusted THEN Flushed(@, held[l].ip[d], login[l].ip)
                     ELSE login[l].ip]
    /\ held' = [held EXCEPT ![l] = NothingHeld]
    /\ UNCHANGED <<login, reason>>

(* A violated constraint, another failing statement or a crash.              *)
LoseLogin(l) ==
    /\ loginAt[l] \in {"loaded", "judged"}
    /\ LoginGoes(l, loginAt[l], "lost")
    /\ held' = [held EXCEPT ![l] = NothingHeld]
    /\ UNCHANGED <<trusted, lastIp, login, reason>>

DevicesNext ==
    \E l \in Logins : \/ ReceiveLogin(l) \/ JudgeDevice(l) \/ CommitLogin(l) \/ LoseLogin(l)

DevicesSpec == DevicesInit /\ [][DevicesNext]_deviceVars

-----------------------------------------------------------------------------
DevicesTypeOK ==
    /\ trusted \subseteq DeviceIds
    /\ lastIp \in [DeviceIds -> Hashes]
    /\ login \in [Logins -> Login]
    /\ loginAt \in [Logins -> {"unsent", "loaded", "judged", "done", "lost"}]
    /\ held \in [Logins -> HeldDevices]
    /\ reason \in [Logins -> Reasons]

Completed     == {l \in Logins : loginAt[l] = "done"}
CompletedOn(d) == {l \in Completed : login[l].device = d}

(* However logins overlap and are lost: a device that is trusted was reported *)
(* as new by exactly one completed login, and every address that a device     *)
(* signed in from was reported by one, unless the device also signed in from  *)
(* an address that was not known, which hides a change.                      *)
SignInsAreAnnounced ==
    /\ \A d \in trusted : \E l \in CompletedOn(d) : \A k \in CompletedOn(d) :
          reason[k] = "new_device" <=> k = l
    /\ \A l \in Completed : \E k \in CompletedOn(login[l].device) :
          /\ login[k].ip \in {login[l].ip, NoAddress}
          /\ reason[k] # "none"
=============================================================================
