------------------------------ MODULE MCSignOn ------------------------------
(***************************************************************************)
(* Small instances of sign-on: a login, then requests with the tokens it    *)
(* led to, in any order and overlap.                                        *)
(***************************************************************************)
EXTENDS SignOn, TLC

CONSTANTS s1, s2, s3, s4

Script(x1, x2, x3, x4) == s1 :> x1 @@ s2 :> x2 @@ s3 :> x3 @@ s4 :> x4

(* Two logins, or a login and a refresh, then whatever ends their sessions   *)
(* next to one more refresh; logins alone, enough of them to lock the       *)
(* account twice; and a login next to a change of password.                 *)
Endings == {"refresh", "logout", "revoke", "change", "reset", "deactivate"}
MixedWork ==
    {Script("login", x, "refresh", y) : x \in {"login", "refresh"}, y \in Endings}
    \cup {Script("login", "login", "login", "login"),
          Script("login", "refresh", "change", "login")}

(* A token is refreshed while the password is changed. *)
RefreshAndChange == {Script("login", "refresh", "change", "refresh")}
=============================================================================
