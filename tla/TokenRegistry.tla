---------------------------- MODULE TokenRegistry ----------------------------
(***************************************************************************)
(* What sign-on promises about refresh tokens, whatever requests overlap: a *)
(* token is issued once, either to open a session or in exchange for one of *)
(* the same session, which is dead from then on; dead tokens stay dead.     *)
(***************************************************************************)
CONSTANT TokenIds
VARIABLES live, dead, sessionOf

Issued == live \cup dead

RegistryInit == live = {} /\ dead = {} /\ sessionOf = [t \in TokenIds |-> t]

Open(t) == /\ t \notin Issued
           /\ live' = live \cup {t}
           /\ UNCHANGED <<dead, sessionOf>>

Exchange(old, new) == /\ old \in Issued
                      /\ new \notin Issued
                      /\ live' = (live \ {old}) \cup {new}
                      /\ dead' = dead \cup {old}
                      /\ sessionOf' = [sessionOf EXCEPT ![new] = sessionOf[old]]

Revoke(tokens) == /\ tokens \subseteq Issued
                  /\ live' = live \ tokens
                  /\ dead' = dead \cup tokens
                  /\ UNCHANGED sessionOf

RegistryNext == \/ \E t \in TokenIds : Open(t)
                \/ \E old, new \in TokenIds : Exchange(old, new)
                \/ \E tokens \in SUBSET Issued : Revoke(tokens)

RegistrySpec == RegistryInit /\ [][RegistryNext]_<<live, dead, sessionOf>>
=============================================================================
