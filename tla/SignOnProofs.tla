---------------------------- MODULE SignOnProofs ----------------------------
(***************************************************************************)
(* Theorems of sign-on, for any number of requests of any kinds.            *)
(***************************************************************************)
EXTENDS SignOn, TLAPS

-----------------------------------------------------------------------------
(* Type correctness. *)

LEMMA InitType == Init => TypeOK
<1> SUFFICES ASSUME Init PROVE TypeOK
  OBVIOUS
<1>1. Registered \in UserRow
  BY DEF Registered, UserRow, Passwords
<1>2. kind \in [Requests -> Kinds]
  BY SignOnAssumption DEF Init
<1> QED
  BY <1>1, <1>2 DEF Init, TypeOK, Passwords

LEMMA UserType ==
    ASSUME TypeOK, NEW a \in Requests
    PROVE  CountFailure(a) \in UserRow /\ ClearFailures(a) \in UserRow
<1>1. user \in UserRow /\ mine[a] \in UserRow
  BY DEF TypeOK
<1>2. mine[a].attempts + 1 \in Nat
  BY <1>1 DEF UserRow
<1> DEFINE lock == IF mine[a].attempts + 1 >= MaxAttempts THEN "locked" ELSE user.lock
<1>3. lock \in {"none", "locked", "passed"}
  BY <1>1 DEF UserRow
<1>4. CountFailure(a) \in UserRow
  BY <1>1, <1>2, <1>3 DEF CountFailure, UserRow
<1>5. ClearFailures(a) \in UserRow
  BY <1>1 DEF ClearFailures, UserRow
<1> QED
  BY <1>4, <1>5

(* What a step does to the requests: it moves one of them, and only Arrive   *)
(* changes what a request brings.                                           *)
LEMMA RequestStep ==
    ASSUME TypeOK, [Next]_vars
    PROVE  /\ kind' = kind
           /\ \A a \in Requests :
                 \/ Arrive(a)
                 \/ /\ known'[a] = known[a]
                    /\ target'[a] = target[a]
                    /\ pc'[a] = "unsent" <=> pc[a] = "unsent"
                    /\ a \in late' <=> a \in late
<1> SUFFICES ASSUME NEW a \in Requests, ~Arrive(a)
             PROVE  /\ kind' = kind
                    /\ known'[a] = known[a]
                    /\ target'[a] = target[a]
                    /\ pc'[a] = "unsent" <=> pc[a] = "unsent"
                    /\ a \in late' <=> a \in late
  BY DEF Next, Terminated, Arrive, LoadToken, LoadUser, Refuse, Lose, Quit, FailLogin,
         SignIn, Rotate, Finish, SelectTokens, CommitRevocation, LockPasses,
         vars, tables, request, locals, ghosts
<1> USE DEF TypeOK, Goto, request, ghosts
<1>1. CASE UNCHANGED vars
  BY <1>1 DEF vars
<1>2. CASE LockPasses
  BY <1>2 DEF LockPasses
<1>3. ASSUME NEW b \in Requests, Arrive(b)
      PROVE  /\ kind' = kind
             /\ known'[a] = known[a]
             /\ target'[a] = target[a]
             /\ pc'[a] = "unsent" <=> pc[a] = "unsent"
             /\ a \in late' <=> a \in late
  <2>1. a # b
    BY <1>3
  <2> QED
    BY <1>3, <2>1 DEF Arrive
<1>4. ASSUME NEW b \in Requests,
             \/ LoadToken(b) \/ LoadUser(b) \/ Refuse(b) \/ Lose(b) \/ FailLogin(b)
             \/ SignIn(b) \/ Rotate(b) \/ SelectTokens(b) \/ CommitRevocation(b)
      PROVE  /\ kind' = kind
             /\ known'[a] = known[a]
             /\ target'[a] = target[a]
             /\ pc'[a] = "unsent" <=> pc[a] = "unsent"
             /\ a \in late' <=> a \in late
  BY <1>4 DEF LoadToken, LoadUser, Refuse, Lose, InFlight, Quit, FailLogin, SignIn, Rotate,
              Finish, SelectTokens, CommitRevocation
<1> QED
  BY <1>1, <1>2, <1>3, <1>4 DEF Next, Terminated

(* Type correctness needs that a refresh presents a token. *)
RefreshHasToken ==
    \A a \in Requests : pc[a] # "unsent" /\ kind[a] = "refresh" => target[a] \in Requests

LEMMA RefreshHasTokenStep ==
    ASSUME TypeOK, RefreshHasToken, [Next]_vars
    PROVE  RefreshHasToken'
<1> SUFFICES ASSUME NEW a \in Requests, pc'[a] # "unsent", kind'[a] = "refresh"
             PROVE  target'[a] \in Requests
  BY DEF RefreshHasToken
<1>1. CASE Arrive(a)
  BY <1>1 DEF Arrive, TypeOK, Targets, Issued
<1>2. CASE ~Arrive(a)
  BY <1>2, RequestStep DEF RefreshHasToken
<1> QED
  BY <1>1, <1>2

LEMMA TypeStep ==
    ASSUME TypeOK, RefreshHasToken, [Next]_vars
    PROVE  TypeOK'
<1> USE DEF TypeOK
<1>1. CASE UNCHANGED vars
  BY <1>1 DEF vars, tables, request, locals, ghosts
<1>2. ASSUME NEW a \in Requests, Arrive(a) PROVE TypeOK'
  <2>1. Targets(a) \subseteq Requests \cup {NoTarget}
    BY DEF Targets, Issued, Opened
  <2>2. Presented(a) \subseteq Passwords
    BY DEF Presented, Passwords, UserRow
  <2>3. known' \in [Requests -> SUBSET Requests] /\ late' \subseteq Requests
    BY <1>2 DEF Arrive, Issued
  <2>4. pc' \in [Requests -> {"unsent", "arrived", "token_read", "loaded", "revoking"} \cup Ended]
    BY <1>2 DEF Arrive, Goto
  <2>5. target' \in [Requests -> Requests \cup {NoTarget}]
        /\ password' \in [Requests -> Passwords]
    BY <1>2, <2>1, <2>2 DEF Arrive
  <2>6. overlapped' \in BOOLEAN
    BY <1>2 DEF Arrive
  <2> QED
    BY <1>2, <2>3, <2>4, <2>5, <2>6 DEF Arrive, tables, locals
<1>3. ASSUME NEW a \in Requests, LoadToken(a) PROVE TypeOK'
  BY <1>3 DEF LoadToken, Goto, tables, request, ghosts
<1>4. ASSUME NEW a \in Requests, LoadUser(a) PROVE TypeOK'
  BY <1>4 DEF LoadUser, Goto, tables, request, ghosts
<1>5. ASSUME NEW a \in Requests, Refuse(a) \/ Lose(a) PROVE TypeOK'
  BY <1>5 DEF Refuse, Lose, Quit, Goto, Ended, tables, request, locals, ghosts
<1>6. ASSUME NEW a \in Requests, FailLogin(a) PROVE TypeOK'
  <2>1. user' \in UserRow
    BY <1>6, UserType DEF FailLogin
  <2> QED
    BY <1>6, <2>1 DEF FailLogin, Goto, Ended, request, locals
<1>7. ASSUME NEW a \in Requests, SignIn(a) PROVE TypeOK'
  <2>1. user' \in UserRow
    BY <1>7, UserType DEF SignIn
  <2> QED
    BY <1>7, <2>1 DEF SignIn, Finish, Goto, Ended, request, locals
<1>8. ASSUME NEW a \in Requests, Rotate(a) PROVE TypeOK'
  <2>1. tokens' \in [Requests -> {"absent", "live", "revoked"}]
    BY <1>8 DEF Rotate, Exchanged
  <2>2. sessionOf' \in [Requests -> Requests]
    BY <1>8 DEF Rotate, RefreshHasToken
  <2> QED
    BY <1>8, <2>1, <2>2 DEF Rotate, Finish, Goto, Ended, request, locals
<1>9. ASSUME NEW a \in Requests, SelectTokens(a) PROVE TypeOK'
  <2>1. Victims(a) \subseteq Requests
    BY DEF Victims, Live
  <2> QED
    BY <1>9, <2>1 DEF SelectTokens, Goto, tables, request, ghosts
<1>10. ASSUME NEW a \in Requests, CommitRevocation(a) PROVE TypeOK'
  <2>1. user' \in UserRow
    BY <1>10 DEF CommitRevocation, UserRow, Passwords
  <2>2. tokens' \in [Requests -> {"absent", "live", "revoked"}]
    BY <1>10 DEF CommitRevocation
  <2>3. sessions' \in [Requests -> {"absent", "active", "revoked"}]
    BY <1>10 DEF CommitRevocation
  <2> QED
    BY <1>10, <2>1, <2>2, <2>3 DEF CommitRevocation, Finish, Goto, Ended, request, locals
<1>11. CASE LockPasses
  BY <1>11 DEF LockPasses, UserRow, request, locals, ghosts
<1> QED
  BY <1>1, <1>2, <1>3, <1>4, <1>5, <1>6, <1>7, <1>8, <1>9, <1>10, <1>11
     DEF Next, Terminated

(* Every reachable state is type correct. *)
THEOREM SignOnTypeCorrect == Spec => [](TypeOK /\ RefreshHasToken)
<1>1. Init => TypeOK /\ RefreshHasToken
  BY InitType DEF Init, RefreshHasToken
<1>2. TypeOK /\ RefreshHasToken /\ [Next]_vars => (TypeOK /\ RefreshHasToken)'
  BY TypeStep, RefreshHasTokenStep
<1> QED
  BY <1>1, <1>2, PTL DEF Spec

-----------------------------------------------------------------------------
(* A request that has not been given a token has left no trace in the token  *)
(* tables, and what it presented had been issued when it arrived.           *)
Fresh == \A a \in Requests : pc[a] # "issued" => tokens[a] = "absent"
PresentedExist ==
    \A a \in Requests : pc[a] # "unsent" =>
        /\ known[a] \subseteq Issued
        /\ kind[a] = "refresh" => target[a] \in Issued

(* The only steps that touch the token tables. *)
LEMMA TokenStep ==
    ASSUME [Next]_vars
    PROVE  \/ UNCHANGED <<tokens, sessionOf>>
           \/ \E a \in Requests : SignIn(a) \/ Rotate(a) \/ CommitRevocation(a)
BY DEF Next, Terminated, Arrive, LoadToken, LoadUser, Refuse, Lose, Quit, FailLogin,
       SelectTokens, LockPasses, vars, tables

(* Issued tokens stay issued, in their session; revoked ones stay revoked.   *)
LEMMA TokensPersist ==
    ASSUME TypeOK, Fresh, PresentedExist, [Next]_vars
    PROVE  \A t \in Issued : /\ t \in Issued'
                             /\ sessionOf'[t] = sessionOf[t]
                             /\ tokens[t] = "revoked" => tokens'[t] = "revoked"
<1> USE DEF TypeOK, Fresh, Issued
<1>1. CASE UNCHANGED <<tokens, sessionOf>>
  BY <1>1
<1>2. ASSUME NEW a \in Requests, SignIn(a) \/ Rotate(a) \/ CommitRevocation(a)
      PROVE  \A t \in Issued : /\ t \in Issued'
                               /\ sessionOf'[t] = sessionOf[t]
                               /\ tokens[t] = "revoked" => tokens'[t] = "revoked"
  <2>1. CASE SignIn(a)
    BY <2>1 DEF SignIn
  <2>2. CASE Rotate(a)
    BY <2>2 DEF Rotate, Exchanged
  <2>3. CASE CommitRevocation(a)
    BY <2>3 DEF CommitRevocation
  <2> QED
    BY <1>2, <2>1, <2>2, <2>3
<1> QED
  BY <1>1, <1>2, TokenStep

LEMMA FreshStep ==
    ASSUME TypeOK, RefreshHasToken, Fresh, PresentedExist, [Next]_vars,
           \A a \in Requests : victims[a] \subseteq Issued
    PROVE  Fresh'
<1> SUFFICES ASSUME NEW t \in Requests, pc'[t] # "issued" PROVE tokens'[t] = "absent"
  BY DEF Fresh
<1>1. pc[t] # "issued" /\ tokens[t] = "absent"
  BY DEF TypeOK, Fresh, Next, Terminated, Arrive, LoadToken, LoadUser, Refuse, Lose,
         InFlight, Ended, Quit, FailLogin, SignIn, Rotate, Finish, SelectTokens,
         CommitRevocation, LockPasses, Goto, vars
<1>2. CASE UNCHANGED <<tokens, sessionOf>>
  BY <1>1, <1>2
<1>3. ASSUME NEW a \in Requests, SignIn(a) PROVE tokens'[t] = "absent"
  BY <1>1, <1>3 DEF SignIn, Finish, Goto, TypeOK
<1>4. ASSUME NEW a \in Requests, Rotate(a) PROVE tokens'[t] = "absent"
  <2>1. target[a] \in Issued
    BY <1>4 DEF Rotate, PresentedExist
  <2> QED
    BY <1>1, <1>4, <2>1 DEF Rotate, Exchanged, Issued, Finish, Goto, TypeOK
<1>5. ASSUME NEW a \in Requests, CommitRevocation(a) PROVE tokens'[t] = "absent"
  BY <1>1, <1>5 DEF CommitRevocation, Issued, TypeOK
<1> QED
  BY <1>2, <1>3, <1>4, <1>5, TokenStep

LEMMA PresentedExistStep ==
    ASSUME TypeOK, Fresh, PresentedExist, [Next]_vars
    PROVE  PresentedExist'
<1> SUFFICES ASSUME NEW a \in Requests, pc'[a] # "unsent"
             PROVE  /\ known'[a] \subseteq Issued'
                    /\ kind'[a] = "refresh" => target'[a] \in Issued'
  BY DEF PresentedExist
<1>1. Issued \subseteq Issued'
  BY TokensPersist
<1>2. CASE Arrive(a)
  <2>1. known'[a] = Issued /\ kind' = kind
    BY <1>2 DEF Arrive, TypeOK
  <2>2. kind[a] = "refresh" => target'[a] \in Issued
    BY <1>2 DEF Arrive, TypeOK, Targets
  <2> QED
    BY <1>1, <2>1, <2>2
<1>3. CASE ~Arrive(a)
  BY <1>1, <1>3, RequestStep DEF PresentedExist
<1> QED
  BY <1>2, <1>3

-----------------------------------------------------------------------------
(* Which tokens a handler revokes does not change while it is at work.       *)
LEMMA ScopeIsStable ==
    ASSUME TypeOK, Fresh, PresentedExist, [Next]_vars,
           NEW a \in Requests, pc[a] # "unsent", NEW t \in known[a]
    PROVE  t \in Scope(a)' <=> t \in Scope(a)
<1>1. /\ kind'[a] = kind[a] /\ target'[a] = target[a]
  BY RequestStep DEF Arrive
<1>2. t \in Issued /\ t \in Requests /\ sessionOf'[t] = sessionOf[t]
  BY TokensPersist DEF PresentedExist, Issued
<1>3. kind[a] = "refresh" => sessionOf'[target[a]] = sessionOf[target[a]]
  BY TokensPersist DEF PresentedExist
<1> QED
  BY <1>1, <1>2, <1>3 DEF Scope, OfSession

(* Between the selection and the commit of a revocation, a token that was    *)
(* issued when the handler's request arrived is selected or revoked already. *)
Selected ==
    \A a \in Requests :
        /\ victims[a] \subseteq Issued
        /\ pc[a] = "revoking" =>
              \A t \in known[a] \cap Scope(a) : t \in victims[a] \/ tokens[t] = "revoked"

LEMMA SelectedStep ==
    ASSUME TypeOK, Fresh, PresentedExist, Selected, [Next]_vars
    PROVE  Selected'
<1> SUFFICES ASSUME NEW a \in Requests
             PROVE  /\ victims'[a] \subseteq Issued'
                    /\ pc'[a] = "revoking" =>
                          \A t \in known'[a] \cap Scope(a)' :
                              t \in victims'[a] \/ tokens'[t] = "revoked"
  BY DEF Selected
<1>1. CASE SelectTokens(a)
  <2>1. victims'[a] = Scope(a) \cap Live /\ pc[a] = "loaded" /\ known'[a] = known[a]
    BY <1>1 DEF SelectTokens, Victims, TypeOK, ghosts
  <2>2. UNCHANGED <<tokens, sessionOf>>
    BY <1>1 DEF SelectTokens, tables
  <2>3. Issued' = Issued /\ Live \subseteq Issued
    BY <2>2 DEF Issued, Live
  <2>4. ASSUME NEW t \in known'[a] \cap Scope(a)'
        PROVE  t \in victims'[a] \/ tokens'[t] = "revoked"
    <3>1. t \in Issued /\ t \in Scope(a)
      BY <2>1, <2>4, ScopeIsStable DEF PresentedExist
    <3> QED
      BY <2>1, <2>2, <3>1 DEF Issued, Live, TypeOK
  <2> QED
    BY <2>1, <2>3, <2>4
<1>2. CASE ~SelectTokens(a)
  <2>1. victims'[a] = victims[a] /\ (pc'[a] = "revoking" => pc[a] = "revoking")
    BY <1>2 DEF TypeOK, Next, Terminated, Arrive, LoadToken, LoadUser, Refuse, Lose, Quit,
         FailLogin, SignIn, Rotate, Finish, SelectTokens, CommitRevocation, LockPasses,
         Goto, vars, locals, Ended
  <2>2. pc'[a] = "revoking" => known'[a] = known[a]
    BY <2>1, RequestStep DEF Arrive
  <2> QED
    BY <2>1, <2>2, TokensPersist, ScopeIsStable DEF Selected, PresentedExist
<1> QED
  BY <1>1, <1>2

LEMMA CoverageStep ==
    ASSUME TypeOK, Fresh, PresentedExist, Selected, RevocationCoversTheKnown, [Next]_vars
    PROVE  RevocationCoversTheKnown'
<1> SUFFICES ASSUME NEW a \in Requests, pc'[a] = "revoked",
                    NEW t \in known'[a] \cap Scope(a)'
             PROVE  tokens'[t] = "revoked"
  BY DEF RevocationCoversTheKnown
<1>1. CASE CommitRevocation(a)
  <2>1. pc[a] = "revoking" /\ known'[a] = known[a]
    BY <1>1 DEF CommitRevocation, Finish
  <2>2. t \in known[a] \cap Scope(a) /\ t \in Requests
    BY <2>1, ScopeIsStable DEF TypeOK
  <2> QED
    BY <1>1, <2>1, <2>2 DEF Selected, CommitRevocation
<1>2. CASE ~CommitRevocation(a)
  <2>1. pc[a] = "revoked"
    BY <1>2 DEF TypeOK, Next, Terminated, Arrive, LoadToken, LoadUser, Refuse, Lose, Quit,
         FailLogin, SignIn, Rotate, Finish, SelectTokens, CommitRevocation, LockPasses,
         Goto, vars, Ended
  <2>2. known'[a] = known[a]
    BY <2>1, RequestStep DEF Arrive
  <2> QED
    BY <2>1, <2>2, TokensPersist, ScopeIsStable DEF RevocationCoversTheKnown, PresentedExist
<1> QED
  BY <1>1, <1>2

TokenInv == Fresh /\ PresentedExist /\ Selected /\ RevocationCoversTheKnown

LEMMA TokenInvAlways == Spec => [](TypeOK /\ RefreshHasToken /\ TokenInv)
<1>1. Init => TokenInv
  BY DEF Init, TokenInv, Fresh, PresentedExist, Selected, RevocationCoversTheKnown, Issued
<1>2. TypeOK /\ RefreshHasToken /\ TokenInv /\ [Next]_vars => TokenInv'
  BY FreshStep, PresentedExistStep, SelectedStep, CoverageStep DEF TokenInv, Selected
<1> QED
  BY <1>1, <1>2, SignOnTypeCorrect, PTL DEF Spec

(* A completed logout, session revocation, password change or reset,         *)
(* deactivation or detected reuse has ended every token in its scope that   *)
(* was issued before it arrived, although none of them locks a row.         *)
THEOREM RevocationIsThorough == Spec => []RevocationCoversTheKnown
<1>1. TokenInv => RevocationCoversTheKnown
  BY DEF TokenInv
<1> QED
  BY <1>1, TokenInvAlways, PTL

-----------------------------------------------------------------------------
(* What made a request late stays so, and the handler that serves it loads   *)
(* it: a deactivated user is not activated again, a token not revived.      *)
Ineligible(a) == \/ ~user.active
                 \/ kind[a] = "refresh" /\ tokens[target[a]] = "revoked"
LateInv ==
    /\ \A a \in sawRevoked : kind[a] = "refresh"
    /\ \A a \in late :
          /\ pc[a] \notin {"unsent", "issued"}
          /\ Ineligible(a)
          /\ pc[a] = "token_read" => ~user.active \/ a \in sawRevoked
          /\ pc[a] = "loaded" => ~mine[a].active \/ a \in sawRevoked

LEMMA IneligibleStaysSo ==
    ASSUME TypeOK, Fresh, PresentedExist, [Next]_vars, NEW a \in Requests,
           pc[a] # "unsent", Ineligible(a)
    PROVE  Ineligible(a)' /\ (~user.active => ~user'.active)
<1>1. ~user.active => ~user'.active
  <2>1. \/ user' = user
        \/ \E b \in Requests : user' \in {CountFailure(b), ClearFailures(b)}
        \/ \E b \in Requests : CommitRevocation(b)
        \/ LockPasses
    BY DEF Next, Terminated, Arrive, LoadToken, LoadUser, Refuse, Lose, Quit, FailLogin,
           SignIn, Rotate, SelectTokens, vars, tables
  <2>2. user \in UserRow
    BY DEF TypeOK
  <2>3. ASSUME NEW b \in Requests
        PROVE  CountFailure(b).active = user.active /\ ClearFailures(b).active = user.active
    BY <2>2 DEF UserRow, CountFailure, ClearFailures
  <2>4. ASSUME NEW b \in Requests, CommitRevocation(b), ~user.active PROVE ~user'.active
    BY <2>2, <2>4 DEF UserRow, CommitRevocation
  <2>5. LockPasses => user'.active = user.active
    BY <2>2 DEF UserRow, LockPasses
  <2> QED
    BY <2>1, <2>3, <2>4, <2>5
<1>2. kind'[a] = kind[a] /\ target'[a] = target[a]
  BY RequestStep DEF Arrive
<1>3. kind[a] = "refresh" => (tokens[target[a]] = "revoked" => tokens'[target[a]] = "revoked")
  BY TokensPersist DEF PresentedExist
<1> QED
  BY <1>1, <1>2, <1>3 DEF Ineligible

LEMMA LateStep ==
    ASSUME TypeOK, RefreshHasToken, Fresh, PresentedExist, LateInv, [Next]_vars
    PROVE  LateInv'
<1>1. \A a \in sawRevoked' : kind'[a] = "refresh"
  <2>1. kind' = kind
    BY RequestStep
  <2>2. ASSUME NEW a \in sawRevoked' PROVE a \in sawRevoked \/ kind[a] = "refresh"
    BY <2>2 DEF Next, Terminated, Arrive, LoadToken, LoadUser, Refuse, Lose, Quit,
         FailLogin, SignIn, Rotate, Finish, SelectTokens, CommitRevocation, LockPasses,
         vars, locals
  <2> QED
    BY <2>1, <2>2 DEF LateInv
<1>2. ASSUME NEW a \in late', Arrive(a)
      PROVE  /\ pc'[a] = "arrived"
             /\ Ineligible(a)'
  <2>0. a \in Requests
    BY TypeStep DEF TypeOK
  <2>1. pc'[a] = "arrived" /\ UNCHANGED <<user, tokens, kind>>
    BY <1>2, <2>0 DEF Arrive, Goto, TypeOK, tables
  <2>2. a \notin late
    BY <1>2 DEF Arrive, LateInv
  <2>3. TooLate(a, target'[a])
    BY <1>2, <2>0, <2>2 DEF Arrive, TypeOK
  <2> QED
    BY <2>1, <2>3 DEF TooLate, Ineligible
<1>3. ASSUME NEW a \in late', ~Arrive(a)
      PROVE  /\ pc'[a] \notin {"unsent", "issued"}
             /\ Ineligible(a)'
             /\ pc'[a] = "token_read" => ~user'.active \/ a \in sawRevoked'
             /\ pc'[a] = "loaded" => ~mine'[a].active \/ a \in sawRevoked'
  <2>1. a \in Requests
    BY TypeStep DEF TypeOK
  <2>2. a \in late /\ pc[a] # "unsent" /\ Ineligible(a)
    BY <1>3, <2>1, RequestStep DEF LateInv
  <2>3. Ineligible(a)' /\ (~user.active => ~user'.active)
    BY <2>1, <2>2, IneligibleStaysSo
  <2>4. sawRevoked \subseteq sawRevoked'
    BY DEF Next, Terminated, Arrive, LoadToken, LoadUser, Refuse, Lose, Quit,
         FailLogin, SignIn, Rotate, Finish, SelectTokens, CommitRevocation, LockPasses,
         vars, locals
  <2>5. CASE LoadToken(a)
    BY <2>1, <2>2, <2>3, <2>5 DEF LoadToken, Goto, Ineligible, TypeOK, tables
  <2>6. CASE LoadUser(a)
    <3>1. mine'[a] = user /\ pc'[a] = "loaded" /\ sawRevoked' = sawRevoked
      BY <2>1, <2>6 DEF LoadUser, Goto, TypeOK
    <3>2. ~user.active \/ a \in sawRevoked
      BY <2>2, <2>6 DEF LoadUser, LateInv, Ineligible
    <3> QED
      BY <2>3, <3>1, <3>2
  <2>7. ~SignIn(a) /\ ~Rotate(a)
    BY <2>1, <2>2 DEF LateInv, SignIn, MayTry, Rotate, Accepts
  <2>8. CASE ~LoadToken(a) /\ ~LoadUser(a)
    <3>1. pc'[a] # "issued" /\ mine'[a] = mine[a]
          /\ (pc'[a] \in {"token_read", "loaded"} => pc[a] = pc'[a])
      BY <1>3, <2>1, <2>2, <2>7, <2>8
      DEF LateInv, TypeOK, Next, Terminated, Arrive, LoadToken, LoadUser, Refuse, Lose, Quit,
         FailLogin, SignIn, Rotate, Finish, SelectTokens, CommitRevocation, LockPasses,
         Goto, vars, locals, Ended
    <3>2. pc'[a] # "unsent"
      BY <1>3, <2>1, <2>2, RequestStep
    <3> QED
      BY <2>2, <2>3, <2>4, <3>1, <3>2 DEF LateInv
  <2> QED
    BY <2>5, <2>6, <2>8
<1> QED
  BY <1>1, <1>2, <1>3 DEF LateInv

(* Nobody is given a token who arrived after the user was deactivated, or    *)
(* with a refresh token that was already revoked.                           *)
THEOREM LateRequestsNeverSucceed == Spec => []LateRequestsGetNothing
<1>1. Init => LateInv
  BY DEF Init, LateInv
<1>2. TypeOK /\ RefreshHasToken /\ TokenInv /\ LateInv /\ [Next]_vars => LateInv'
  BY LateStep DEF TokenInv
<1>3. LateInv => LateRequestsGetNothing
  BY DEF LateInv, LateRequestsGetNothing
<1> QED
  BY <1>1, <1>2, <1>3, TokenInvAlways, PTL DEF Spec

-----------------------------------------------------------------------------
(* The refinement: a login opens, a refresh exchanges, the rest revokes.     *)
LEMMA RegistryStep ==
    ASSUME TypeOK, TokenInv, [Next]_vars
    PROVE  [Registry!RegistryNext]_<<Live, Issued \ Live, sessionOf>>
<1> DEFINE Dead == Issued \ Live
<1> USE DEF TypeOK, Registry!Issued, Issued, Live
<1>1. CASE UNCHANGED <<tokens, sessionOf>>
  BY <1>1
<1>2. ASSUME NEW a \in Requests, SignIn(a) PROVE Registry!RegistryNext
  <2>1. tokens[a] = "absent"
    BY <1>2 DEF SignIn, TokenInv, Fresh
  <2>2. Registry!Open(a)
    BY <1>2, <2>1 DEF SignIn, Registry!Open
  <2> QED
    BY <2>2 DEF Registry!RegistryNext
<1>3. ASSUME NEW a \in Requests, Rotate(a) PROVE Registry!RegistryNext
  <2>1. tokens[a] = "absent" /\ target[a] \in Issued
    BY <1>3 DEF Rotate, TokenInv, Fresh, PresentedExist
  <2>2. /\ Live' = (Live \ {target[a]}) \cup {a}
        /\ Dead' = Dead \cup {target[a]}
    BY <1>3, <2>1 DEF Rotate, Exchanged
  <2>3. Registry!Exchange(target[a], a)
    BY <1>3, <2>1, <2>2 DEF Rotate, Registry!Exchange
  <2> QED
    BY <2>1, <2>3 DEF Registry!RegistryNext
<1>4. ASSUME NEW a \in Requests, CommitRevocation(a) PROVE Registry!RegistryNext
  <2>1. victims[a] \subseteq Issued
    BY DEF TokenInv, Selected
  <2>2. Live' = Live \ victims[a] /\ Dead' = Dead \cup victims[a]
    BY <1>4, <2>1 DEF CommitRevocation
  <2>3. Registry!Revoke(victims[a])
    BY <1>4, <2>1, <2>2 DEF CommitRevocation, Registry!Revoke
  <2>4. victims[a] \in SUBSET Registry!Issued
    BY <2>1
  <2> HIDE DEF TypeOK, Registry!Issued, Issued, Live
  <2>5. \E ts \in SUBSET Registry!Issued : Registry!Revoke(ts)
    BY <2>3, <2>4, Zenon
  <2> QED
    BY <2>5, Zenon DEF Registry!RegistryNext
<1> QED
  BY <1>1, <1>2, <1>3, <1>4, TokenStep

(* Whatever overlaps, the tables implement the token registry.               *)
THEOREM TablesImplementRegistry == Spec => ImplementsRegistry
<1>1. Init => Registry!RegistryInit
  BY DEF Init, Registry!RegistryInit, Issued, Live
<1>2. TypeOK /\ TokenInv /\ [Next]_vars
      => [Registry!RegistryNext]_<<Live, Issued \ Live, sessionOf>>
  BY RegistryStep
<1> QED
  BY <1>1, <1>2, TokenInvAlways, PTL DEF Spec, ImplementsRegistry, Registry!RegistrySpec
-----------------------------------------------------------------------------
(* Requests that do not overlap.  Then only one handler is at work, and what *)
(* it loaded is what is stored, except that the lock may have run out since. *)
OneAtWork == \A a, b \in Requests : InFlight(a) /\ InFlight(b) => a = b

SameUser(a) ==
    /\ mine[a].active = user.active
    /\ mine[a].password = user.password
    /\ mine[a].attempts = user.attempts
    /\ mine[a].lock # user.lock => mine[a].lock = "locked" /\ user.lock = "passed"

UpToDate(a) ==
    /\ pc[a] \in {"loaded", "revoking"} => SameUser(a)
    /\ pc[a] \in {"token_read", "loaded"} /\ kind[a] = "refresh" /\ a \notin sawRevoked
          => target[a] \in Live

AloneInv == ~overlapped => OneAtWork /\ \A a \in Requests : UpToDate(a)

(* Sessions are rooted in the token of their login. *)
Rooted ==
    \A t \in Requests : /\ t \notin Issued => sessionOf[t] = t
                        /\ t \in Issued => sessionOf[t] \in Issued

LEMMA RootedStep ==
    ASSUME TypeOK, TokenInv, Rooted, [Next]_vars
    PROVE  Rooted'
<1> USE DEF TypeOK, Issued, TokenInv
<1>1. CASE UNCHANGED <<tokens, sessionOf>>
  BY <1>1 DEF Rooted
<1>2. ASSUME NEW a \in Requests, SignIn(a) PROVE Rooted'
  BY <1>2 DEF SignIn, Rooted
<1>3. ASSUME NEW a \in Requests, Rotate(a) PROVE Rooted'
  <2>1. target[a] \in Issued
    BY <1>3 DEF Rotate, PresentedExist
  <2> QED
    BY <1>3, <2>1 DEF Rotate, Exchanged, Rooted
<1>4. ASSUME NEW a \in Requests, CommitRevocation(a) PROVE Rooted'
  <2>1. victims[a] \subseteq Issued
    BY DEF Selected
  <2> QED
    BY <1>4, <2>1 DEF CommitRevocation, Rooted
<1> QED
  BY <1>1, <1>2, <1>3, <1>4, TokenStep

(* A step of a request that is alone is judged by that request.              *)
LEMMA AloneMoves ==
    ASSUME TypeOK, AloneInv, NEW a \in Requests, UpToDate(a)', ~overlapped',
           \/ Arrive(a)
           \/ LoadToken(a) \/ LoadUser(a) \/ Refuse(a) \/ Lose(a) \/ FailLogin(a)
           \/ SignIn(a) \/ Rotate(a) \/ SelectTokens(a) \/ CommitRevocation(a)
    PROVE  OneAtWork' /\ \A b \in Requests : UpToDate(b)'
<1>1. \A b \in Requests \ {a} : ~InFlight(b)
  <2>1. CASE Arrive(a)
    BY <2>1 DEF Arrive, InFlight
  <2>2. CASE ~Arrive(a)
    <3>1. InFlight(a) /\ ~overlapped
      BY <2>2 DEF LoadToken, LoadUser, Refuse, Lose, InFlight, Ended, Quit, FailLogin, SignIn,
                  Rotate, Finish, SelectTokens, CommitRevocation, ghosts
    <3> QED
      BY <3>1 DEF AloneInv, OneAtWork
  <2> QED
    BY <2>1, <2>2
<1>2. \A b \in Requests \ {a} : pc'[b] = pc[b]
  BY DEF TypeOK, Goto, Arrive, LoadToken, LoadUser, Refuse, Lose, Quit, FailLogin, SignIn,
         Rotate, Finish, SelectTokens, CommitRevocation
<1>3. \A b \in Requests \ {a} : ~InFlight(b)' /\ pc'[b] \in Ended \cup {"unsent"}
  BY <1>1, <1>2 DEF InFlight
<1> QED
  BY <1>3 DEF OneAtWork, UpToDate, Ended

LEMMA AloneStep ==
    ASSUME TypeOK, RefreshHasToken, TokenInv, AloneInv, [Next]_vars
    PROVE  AloneInv'
<1> SUFFICES ASSUME ~overlapped' PROVE OneAtWork' /\ \A a \in Requests : UpToDate(a)'
  BY DEF AloneInv
<1>1. CASE UNCHANGED vars
  <2>1. overlapped' = overlapped /\ UNCHANGED <<pc, user, tokens, kind, target, mine, sawRevoked>>
    BY <1>1 DEF vars, tables, request, locals, ghosts
  <2> QED
    BY <2>1 DEF AloneInv, OneAtWork, InFlight, UpToDate, SameUser, Live
<1>2. CASE LockPasses
  <2>1. overlapped' = overlapped /\ UNCHANGED <<pc, tokens, kind, target, mine, sawRevoked>>
    BY <1>2 DEF LockPasses, request, locals, ghosts
  <2>2. /\ user'.active = user.active /\ user'.password = user.password
        /\ user'.attempts = user.attempts
        /\ user.lock = "locked" /\ user'.lock = "passed"
    BY <1>2 DEF LockPasses, TypeOK, UserRow
  <2>3. \A a \in Requests : SameUser(a) => SameUser(a)'
    BY <2>1, <2>2 DEF SameUser
  <2> QED
    BY <2>1, <2>3 DEF AloneInv, OneAtWork, InFlight, UpToDate, Live
<1>3. ASSUME NEW a \in Requests, Arrive(a) PROVE UpToDate(a)'
  BY <1>3 DEF Arrive, Goto, TypeOK, UpToDate
<1>4. ASSUME NEW a \in Requests, LoadToken(a) PROVE UpToDate(a)'
  <2>1. pc'[a] = "token_read" /\ UNCHANGED <<tokens, target, kind>>
    BY <1>4 DEF LoadToken, Goto, TypeOK, tables, request
  <2>2. a \notin sawRevoked' => tokens[target[a]] # "revoked"
    BY <1>4 DEF LoadToken
  <2>3. target[a] \in Issued
    BY <1>4 DEF LoadToken, TokenInv, PresentedExist
  <2> QED
    BY <2>1, <2>2, <2>3 DEF UpToDate, Live, Issued, TypeOK
<1>5. ASSUME NEW a \in Requests, LoadUser(a) PROVE UpToDate(a)'
  <2>1. /\ pc'[a] = "loaded" /\ mine'[a] = user
        /\ UNCHANGED <<user, tokens, target, kind, sawRevoked>>
    BY <1>5 DEF LoadUser, Goto, TypeOK, tables, request
  <2>2. UpToDate(a) /\ (kind[a] = "refresh" => pc[a] = "token_read")
    BY <1>5 DEF LoadUser, AloneInv, ghosts
  <2> QED
    BY <2>1, <2>2 DEF UpToDate, SameUser, Live
<1>6. ASSUME NEW a \in Requests,
             Refuse(a) \/ Lose(a) \/ FailLogin(a) \/ SignIn(a) \/ Rotate(a) \/ CommitRevocation(a)
      PROVE  UpToDate(a)'
  <2>1. pc'[a] \in Ended
    BY <1>6 DEF Refuse, Lose, Quit, FailLogin, SignIn, Rotate, CommitRevocation, Finish, Goto,
                TypeOK, Ended
  <2> QED
    BY <2>1 DEF UpToDate, Ended
<1>7. ASSUME NEW a \in Requests, SelectTokens(a) PROVE UpToDate(a)'
  <2>1. pc[a] = "loaded" /\ pc'[a] = "revoking" /\ UNCHANGED <<user, mine>> /\ ~overlapped
    BY <1>7 DEF SelectTokens, Goto, TypeOK, tables, ghosts
  <2> QED
    BY <2>1 DEF AloneInv, UpToDate, SameUser
<1> QED
  BY <1>1, <1>2, <1>3, <1>4, <1>5, <1>6, <1>7, AloneMoves DEF Next, Terminated

LEMMA CountStep ==
    ASSUME TypeOK, AloneInv, LockAfterFailures, [Next]_vars
    PROVE  LockAfterFailures'
<1> SUFFICES ASSUME ~overlapped'
             PROVE  /\ user'.attempts = failures'
                    /\ failures' >= MaxAttempts => user'.lock # "none"
  BY DEF LockAfterFailures
<1>1. ~overlapped
  BY DEF TypeOK, Next, Terminated, Arrive, LoadToken, LoadUser, Refuse, Lose, Quit, FailLogin,
         SignIn, Rotate, Finish, SelectTokens, CommitRevocation, LockPasses, vars, ghosts
<1>2. /\ user.attempts = failures
      /\ failures >= MaxAttempts => user.lock # "none"
  BY <1>1 DEF LockAfterFailures
<1>3. user \in UserRow /\ failures \in Nat /\ MaxAttempts \in Nat \ {0}
  BY SignOnAssumption DEF TypeOK
<1>4. ASSUME NEW a \in Requests, pc[a] = "loaded" PROVE SameUser(a) /\ mine[a] \in UserRow
  BY <1>1, <1>4 DEF AloneInv, UpToDate, TypeOK
<1>5. CASE user' = user /\ failures' = failures
  BY <1>2, <1>5
<1>6. ASSUME NEW a \in Requests, FailLogin(a)
      PROVE  /\ user'.attempts = failures'
             /\ failures' >= MaxAttempts => user'.lock # "none"
  <2>1. SameUser(a)
    BY <1>4, <1>6 DEF FailLogin
  <2>2. user'.attempts = user.attempts + 1 /\ failures' = failures + 1
    BY <1>3, <1>6, <2>1 DEF FailLogin, CountFailure, SameUser, UserRow
  <2>3. mine[a].attempts + 1 >= MaxAttempts => user'.lock = "locked"
    BY <1>3, <1>6 DEF FailLogin, CountFailure, UserRow
  <2> QED
    BY <1>2, <2>1, <2>2, <2>3 DEF SameUser
<1>7. ASSUME NEW a \in Requests, SignIn(a)
      PROVE  /\ user'.attempts = failures'
             /\ failures' >= MaxAttempts => user'.lock # "none"
  <2>1. SameUser(a)
    BY <1>4, <1>7 DEF SignIn
  <2>2. user'.attempts = 0 /\ failures' = 0
    BY <1>3, <1>7, <2>1 DEF SignIn, ClearFailures, SameUser, UserRow
  <2> QED
    BY <1>3, <2>2
<1>8. ASSUME NEW a \in Requests, CommitRevocation(a)
      PROVE  user'.attempts = user.attempts /\ user'.lock = user.lock /\ failures' = failures
  BY <1>3, <1>8 DEF CommitRevocation, UserRow
<1>9. CASE LockPasses
  <2>1. user'.attempts = user.attempts /\ user'.lock = "passed" /\ failures' = failures
    BY <1>3, <1>9 DEF LockPasses, UserRow, ghosts
  <2> QED
    BY <1>2, <2>1
<1>10. \/ user' = user /\ failures' = failures
       \/ \E a \in Requests : FailLogin(a) \/ SignIn(a) \/ CommitRevocation(a)
       \/ LockPasses
  BY DEF Next, Terminated, Arrive, LoadToken, LoadUser, Refuse, Lose, Quit, Rotate,
         SelectTokens, vars, tables, ghosts
<1> QED
  BY <1>2, <1>5, <1>6, <1>7, <1>8, <1>9, <1>10

LEMMA OneTokenStep ==
    ASSUME TypeOK, RefreshHasToken, TokenInv, Rooted, AloneInv, OneTokenPerSession, [Next]_vars
    PROVE  OneTokenPerSession'
<1> SUFFICES ASSUME ~overlapped', NEW t \in Live', NEW u \in Live', sessionOf'[t] = sessionOf'[u]
             PROVE  t = u
  BY DEF OneTokenPerSession
<1>1. ~overlapped
  BY DEF TypeOK, Next, Terminated, Arrive, LoadToken, LoadUser, Refuse, Lose, Quit, FailLogin,
         SignIn, Rotate, Finish, SelectTokens, CommitRevocation, LockPasses, vars, ghosts
<1>2. \A v, w \in Live : sessionOf[v] = sessionOf[w] => v = w
  BY <1>1 DEF OneTokenPerSession
<1> USE DEF TypeOK, Live
<1>3. CASE UNCHANGED <<tokens, sessionOf>>
  BY <1>2, <1>3
<1>4. ASSUME NEW a \in Requests, SignIn(a) PROVE t = u
  <2>1. tokens[a] = "absent" /\ sessionOf' = sessionOf
    BY <1>4 DEF SignIn, TokenInv, Fresh
  <2>2. \A v \in Live : sessionOf[v] # a
    BY <2>1 DEF Rooted, Issued
  <2>3. sessionOf[a] = a
    BY <2>1 DEF Rooted, Issued
  <2>4. Live' = Live \cup {a}
    BY <1>4 DEF SignIn
  <2> QED
    BY <1>2, <2>1, <2>2, <2>3, <2>4
<1>5. ASSUME NEW a \in Requests, Rotate(a) PROVE t = u
  <2>1. tokens[a] = "absent" /\ target[a] \in Issued
    BY <1>5 DEF Rotate, TokenInv, Fresh, PresentedExist
  <2>2. target[a] \in Live
    BY <1>1, <1>5 DEF Rotate, Accepts, AloneInv, UpToDate
  <2>3. Live' = (Live \ {target[a]}) \cup {a} /\ a \notin Live
    BY <1>5, <2>1 DEF Rotate, Exchanged, Issued
  <2>4. /\ sessionOf'[a] = sessionOf[target[a]]
        /\ \A v \in Live : sessionOf'[v] = sessionOf[v]
    BY <1>5, <2>3 DEF Rotate
  <2>5. \A v \in Live \ {target[a]} : sessionOf'[v] # sessionOf'[a]
    BY <1>2, <2>2, <2>4
  <2> QED
    BY <1>2, <2>3, <2>4, <2>5
<1>6. ASSUME NEW a \in Requests, CommitRevocation(a) PROVE t = u
  BY <1>2, <1>6 DEF CommitRevocation
<1> QED
  BY <1>3, <1>4, <1>5, <1>6, TokenStep

SerialSignOn == Rooted /\ AloneInv /\ LockAfterFailures /\ OneTokenPerSession

LEMMA SerialSignOnAlways == Spec => []SerialSignOn
<1>1. Init => SerialSignOn
  BY SignOnAssumption DEF Init, Registered, SerialSignOn, Rooted, AloneInv, OneAtWork, InFlight,
     UpToDate, LockAfterFailures, OneTokenPerSession, Issued, Live
<1>2. TypeOK /\ RefreshHasToken /\ TokenInv /\ SerialSignOn /\ [Next]_vars => SerialSignOn'
  BY RootedStep, AloneStep, CountStep, OneTokenStep DEF SerialSignOn
<1> QED
  BY <1>1, <1>2, TokenInvAlways, PTL DEF Spec

(* Between requests that do not overlap, exchanging a token leaves a session *)
(* at most one usable token: the presented token was usable when it was read. *)
THEOREM RotationKeepsOneToken == Spec => []OneTokenPerSession
<1>1. SerialSignOn => OneTokenPerSession
  BY DEF SerialSignOn
<1> QED
  BY <1>1, SerialSignOnAlways, PTL

(* Between requests that do not overlap, no failed login is missed: as many  *)
(* as the setting allows leave the account with a lock.                     *)
THEOREM FailuresLockTheAccount == Spec => []LockAfterFailures
<1>1. SerialSignOn => LockAfterFailures
  BY DEF SerialSignOn
<1> QED
  BY <1>1, SerialSignOnAlways, PTL
-----------------------------------------------------------------------------
(* Which overlap of requests breaks what.  Most requests may overlap; each    *)
(* theorem names the only race that its promise does not survive.           *)

(* A refresh that has read a usable token, and does not read it again.       *)
Refreshing(a) ==
    /\ kind[a] = "refresh"
    /\ pc[a] \in {"token_read", "loaded"}
    /\ a \notin sawRevoked

(* No two refreshes are about to exchange the same token. *)
RefreshesApart ==
    \A a, b \in Requests : Refreshing(a) /\ Refreshing(b) /\ target[a] = target[b] => a = b

(* A session has at most one usable token (refresh()). *)
OneLiveToken == \A t, u \in Live : sessionOf[t] = sessionOf[u] => t = u

(* What a refresh is about to exchange is the only usable token of its       *)
(* session, and no other refresh is about to exchange one of that session.  *)
OwnsSession ==
    \A a \in Requests : Refreshing(a) =>
        /\ \A t \in Live : sessionOf[t] = sessionOf[target[a]] => t = target[a]
        /\ \A b \in Requests :
              Refreshing(b) /\ sessionOf[target[b]] = sessionOf[target[a]] => a = b

LEMMA RefreshingStep ==
    ASSUME TypeOK, TokenInv, [Next]_vars, NEW a \in Requests, Refreshing(a)'
    PROVE  /\ kind[a] = "refresh"
           /\ target'[a] = target[a] /\ target[a] \in Issued
           /\ sessionOf'[target[a]] = sessionOf[target[a]]
           /\ \/ Refreshing(a)
              \/ LoadToken(a) /\ target[a] \in Live /\ UNCHANGED <<tokens, sessionOf>>
<1>1. ~Arrive(a)
  BY DEF Arrive, Goto, TypeOK, Refreshing
<1>2. kind[a] = "refresh" /\ pc[a] # "unsent" /\ target'[a] = target[a]
  BY <1>1, RequestStep DEF Refreshing
<1>3. target[a] \in Issued /\ sessionOf'[target[a]] = sessionOf[target[a]]
  BY <1>2, TokensPersist DEF TokenInv, PresentedExist
<1>4. CASE LoadToken(a)
  BY <1>2, <1>3, <1>4 DEF LoadToken, tables, Refreshing, Issued, Live, TypeOK
<1>5. CASE ~LoadToken(a)
  <2>1. pc[a] \in {"token_read", "loaded"} /\ a \notin sawRevoked
    BY <1>1, <1>2, <1>5
    DEF Refreshing, TypeOK, Next, Terminated, Arrive, LoadToken, LoadUser, Refuse, Lose, Quit,
        FailLogin, SignIn, Rotate, Finish, SelectTokens, CommitRevocation, LockPasses,
        Goto, vars, locals, Ended
  <2> QED
    BY <1>2, <1>3, <2>1 DEF Refreshing
<1> QED
  BY <1>4, <1>5

LEMMA OneLiveTokenStep ==
    ASSUME TypeOK, TokenInv, Rooted, OneLiveToken, OwnsSession, [Next]_vars
    PROVE  OneLiveToken'
<1> SUFFICES ASSUME NEW t \in Live', NEW u \in Live', sessionOf'[t] = sessionOf'[u]
             PROVE  t = u
  BY DEF OneLiveToken
<1> USE DEF TypeOK, Live
<1>1. CASE UNCHANGED <<tokens, sessionOf>>
  BY <1>1 DEF OneLiveToken
<1>2. ASSUME NEW a \in Requests, SignIn(a) PROVE t = u
  <2>1. tokens[a] = "absent" /\ sessionOf' = sessionOf
    BY <1>2 DEF SignIn, TokenInv, Fresh
  <2>2. sessionOf[a] = a /\ \A v \in Live : sessionOf[v] # a
    BY <2>1 DEF Rooted, Issued
  <2>3. Live' = Live \cup {a}
    BY <1>2 DEF SignIn
  <2> QED
    BY <2>1, <2>2, <2>3 DEF OneLiveToken
<1>3. ASSUME NEW a \in Requests, Rotate(a) PROVE t = u
  <2>1. tokens[a] = "absent" /\ target[a] \in Issued
    BY <1>3 DEF Rotate, TokenInv, Fresh, PresentedExist
  <2>2. Live' = (Live \ {target[a]}) \cup {a} /\ a \notin Live
    BY <1>3, <2>1 DEF Rotate, Exchanged, Issued
  <2>3. sessionOf'[a] = sessionOf[target[a]] /\ \A v \in Live : sessionOf'[v] = sessionOf[v]
    BY <1>3, <2>2 DEF Rotate
  <2>4. \A v \in Live \ {target[a]} : sessionOf[v] # sessionOf[target[a]]
    BY <1>3 DEF Rotate, Accepts, Refreshing, OwnsSession
  <2> QED
    BY <2>2, <2>3, <2>4 DEF OneLiveToken
<1>4. ASSUME NEW a \in Requests, CommitRevocation(a) PROVE t = u
  BY <1>4 DEF CommitRevocation, OneLiveToken
<1> QED
  BY <1>1, <1>2, <1>3, <1>4, TokenStep

LEMMA OwnsSessionStep ==
    ASSUME TypeOK, TokenInv, Rooted, OneLiveToken, OwnsSession, RefreshesApart', [Next]_vars
    PROVE  OwnsSession'
<1> SUFFICES ASSUME NEW a \in Requests, Refreshing(a)'
             PROVE  /\ \A t \in Live' : sessionOf'[t] = sessionOf'[target'[a]] => t = target'[a]
                    /\ \A b \in Requests :
                          Refreshing(b)' /\ sessionOf'[target'[b]] = sessionOf'[target'[a]]
                          => a = b
  BY DEF OwnsSession
<1>1. /\ target'[a] = target[a] /\ target[a] \in Issued
      /\ sessionOf'[target[a]] = sessionOf[target[a]]
  BY RefreshingStep
<1>2. Live \subseteq Issued /\ \A t \in Live : sessionOf'[t] = sessionOf[t]
  BY TokensPersist DEF TokenInv, Issued, Live, TypeOK
<1>3. \A t \in Live : sessionOf[t] = sessionOf[target[a]] => t = target[a]
  BY RefreshingStep DEF OwnsSession, OneLiveToken
<1>4. ASSUME NEW t \in Live', sessionOf'[t] = sessionOf[target[a]]
      PROVE  t = target[a]
  <2>1. CASE t \in Live
    BY <1>2, <1>3, <1>4, <2>1
  <2>2. ASSUME NEW b \in Requests, SignIn(b), t \notin Live PROVE FALSE
    <3>1. t = b /\ b \notin Issued /\ sessionOf' = sessionOf
      BY <1>4, <2>2 DEF SignIn, Live, TypeOK, TokenInv, Fresh, Issued
    <3> QED
      BY <1>1, <1>4, <3>1 DEF Rooted, Issued
  <2>3. ASSUME NEW b \in Requests, Rotate(b), t \notin Live PROVE FALSE
    <3>1. t = b /\ Refreshing(b) /\ target[b] \in Issued
      BY <1>4, <2>3 DEF Rotate, Accepts, Refreshing, Exchanged, Live, TypeOK, TokenInv,
                        PresentedExist, Issued
    <3>2. sessionOf'[b] = sessionOf[target[b]]
      BY <2>3 DEF Rotate, TypeOK
    <3>3. tokens' # tokens
      BY <1>4, <2>3, <3>1 DEF Live
    <3>4. Refreshing(a)
      BY <3>3, RefreshingStep
    <3>5. a = b
      BY <1>4, <3>1, <3>2, <3>4 DEF OwnsSession
    <3> QED
      BY <2>3, <3>5 DEF Rotate, Finish, Goto, TypeOK, Refreshing
  <2>4. ASSUME NEW b \in Requests, CommitRevocation(b), t \notin Live PROVE FALSE
    BY <1>4, <2>4 DEF CommitRevocation, Live, TypeOK
  <2> QED
    BY <1>4, <2>1, <2>2, <2>3, <2>4, TokenStep DEF Live
<1>5. ASSUME NEW b \in Requests, Refreshing(b)',
             sessionOf'[target'[b]] = sessionOf[target[a]]
      PROVE  a = b
  <2>1. target'[b] = target[b] /\ sessionOf'[target[b]] = sessionOf[target[b]]
    BY <1>5, RefreshingStep
  <2>2. CASE Refreshing(a) /\ Refreshing(b)
    BY <1>5, <2>1, <2>2 DEF OwnsSession
  <2>3. CASE target[a] \in Live \/ target[b] \in Live
    <3>1. \A t \in Live : sessionOf[t] = sessionOf[target[b]] => t = target[b]
      BY <1>5, RefreshingStep DEF OwnsSession, OneLiveToken
    <3>2. target[a] = target[b]
      BY <1>3, <1>5, <2>1, <2>3, <3>1
    <3> QED
      BY <1>1, <1>5, <2>1, <3>2 DEF RefreshesApart
  <2> QED
    BY <1>5, <2>2, <2>3, RefreshingStep
<1> QED
  BY <1>1, <1>4, <1>5

(* Whatever else overlaps, a session keeps at most one usable token, unless   *)
(* two refreshes read the same token before either exchanges it.            *)
THEOREM OnlyRacingRefreshesSplitASession == Spec /\ []RefreshesApart => []OneLiveToken
<1>1. Init => OneLiveToken /\ OwnsSession /\ Rooted
  BY DEF Init, OneLiveToken, OwnsSession, Refreshing, Rooted, Live, Issued
<1>2. TypeOK /\ TokenInv /\ OneLiveToken /\ OwnsSession /\ Rooted /\ RefreshesApart' /\ [Next]_vars
      => (OneLiveToken /\ OwnsSession /\ Rooted)'
  BY OneLiveTokenStep, OwnsSessionStep, RootedStep
<1> QED
  BY <1>1, <1>2, TokenInvAlways, PTL DEF Spec

-----------------------------------------------------------------------------
(* A login that will judge the password by the user it has loaded. *)
LoggingIn(a) == kind[a] = "login" /\ pc[a] = "loaded" /\ MayTry(a)

(* No two logins are between loading the user and counting the outcome. *)
LoginsApart == \A a, b \in Requests : LoggingIn(a) /\ LoggingIn(b) => a = b

(* No failed login is missed, and enough of them lock the account (login()). *)
FailuresCounted ==
    /\ user.attempts = failures
    /\ failures >= MaxAttempts => user.lock # "none"

(* A login counts on from what is stored. *)
CountsOn == \A a \in Requests : LoggingIn(a) => /\ mine[a].attempts = user.attempts
                                                /\ mine[a].lock = user.lock

(* The only steps that touch the counter, the lock and the ghost.            *)
LEMMA CounterStep ==
    ASSUME TypeOK, [Next]_vars
    PROVE  \/ /\ user'.attempts = user.attempts
              /\ user'.lock = user.lock
              /\ failures' = failures
           \/ \E a \in Requests : LoggingIn(a) /\ (FailLogin(a) \/ SignIn(a))
           \/ LockPasses
<1>1. user \in UserRow
  BY DEF TypeOK
<1>2. ASSUME NEW a \in Requests, CommitRevocation(a)
      PROVE  user'.attempts = user.attempts /\ user'.lock = user.lock /\ failures' = failures
  BY <1>1, <1>2 DEF CommitRevocation, UserRow
<1>3. ASSUME NEW a \in Requests, FailLogin(a) \/ SignIn(a) PROVE LoggingIn(a)
  BY <1>3 DEF FailLogin, SignIn, LoggingIn
<1>4. \/ user' = user /\ failures' = failures
      \/ \E a \in Requests : FailLogin(a) \/ SignIn(a) \/ CommitRevocation(a)
      \/ LockPasses
  BY DEF Next, Terminated, Arrive, LoadToken, LoadUser, Refuse, Lose, Quit, Rotate,
         SelectTokens, vars, tables, ghosts
<1> QED
  BY <1>2, <1>3, <1>4

LEMMA LoggingInStep ==
    ASSUME TypeOK, [Next]_vars, NEW a \in Requests, LoggingIn(a)'
    PROVE  \/ LoadUser(a) /\ mine'[a] = user /\ user' = user
           \/ LoggingIn(a) /\ mine'[a] = mine[a] /\ pc'[a] = "loaded"
<1>1. kind'[a] = kind[a] /\ pc'[a] = "loaded"
  BY RequestStep DEF LoggingIn
<1>2. CASE LoadUser(a)
  BY <1>2 DEF LoadUser, TypeOK, tables
<1>3. CASE ~LoadUser(a)
  <2>1. pc[a] = "loaded" /\ mine'[a] = mine[a]
    BY <1>1, <1>3
    DEF TypeOK, Next, Terminated, Arrive, LoadToken, LoadUser, Refuse, Lose, Quit,
        FailLogin, SignIn, Rotate, Finish, SelectTokens, CommitRevocation, LockPasses,
        Goto, vars, locals, Ended
  <2> QED
    BY <1>1, <2>1 DEF LoggingIn, MayTry
<1> QED
  BY <1>2, <1>3

LEMMA CountsOnStep ==
    ASSUME TypeOK, CountsOn, LoginsApart, [Next]_vars
    PROVE  CountsOn'
<1> SUFFICES ASSUME NEW a \in Requests, LoggingIn(a)'
             PROVE  mine'[a].attempts = user'.attempts /\ mine'[a].lock = user'.lock
  BY DEF CountsOn
<1>1. CASE LoadUser(a) /\ mine'[a] = user /\ user' = user
  BY <1>1
<1>2. CASE LoggingIn(a) /\ mine'[a] = mine[a] /\ pc'[a] = "loaded"
  <2>1. mine[a].attempts = user.attempts /\ mine[a].lock = user.lock
    BY <1>2 DEF CountsOn
  <2>2. ~LockPasses
    BY <1>2, <2>1 DEF LoggingIn, MayTry, LockPasses
  <2>3. ASSUME NEW b \in Requests, LoggingIn(b), FailLogin(b) \/ SignIn(b) PROVE FALSE
    <3>1. b = a
      BY <1>2, <2>3 DEF LoginsApart
    <3> QED
      BY <1>2, <2>3, <3>1 DEF FailLogin, SignIn, Finish, Goto, TypeOK
  <2> QED
    BY <1>2, <2>1, <2>2, <2>3, CounterStep
<1> QED
  BY <1>1, <1>2, LoggingInStep

LEMMA FailuresCountedStep ==
    ASSUME TypeOK, CountsOn, FailuresCounted, [Next]_vars
    PROVE  FailuresCounted'
<1>1. user \in UserRow /\ failures \in Nat /\ MaxAttempts \in Nat \ {0}
  BY SignOnAssumption DEF TypeOK
<1>2. CASE /\ user'.attempts = user.attempts
           /\ user'.lock = user.lock
           /\ failures' = failures
  BY <1>2 DEF FailuresCounted
<1>3. ASSUME NEW a \in Requests, LoggingIn(a), FailLogin(a) PROVE FailuresCounted'
  <2>1. mine[a].attempts = user.attempts
    BY <1>3 DEF CountsOn
  <2>2. user'.attempts = user.attempts + 1 /\ failures' = failures + 1
    BY <1>1, <1>3, <2>1 DEF FailLogin, CountFailure, UserRow
  <2>3. mine[a].attempts + 1 >= MaxAttempts => user'.lock = "locked"
    BY <1>1, <1>3 DEF FailLogin, CountFailure, UserRow
  <2> QED
    BY <2>1, <2>2, <2>3 DEF FailuresCounted
<1>4. ASSUME NEW a \in Requests, LoggingIn(a), SignIn(a) PROVE FailuresCounted'
  <2>1. mine[a].attempts = user.attempts
    BY <1>4 DEF CountsOn
  <2>2. user'.attempts = 0 /\ failures' = 0
    BY <1>1, <1>4, <2>1 DEF SignIn, ClearFailures, UserRow
  <2> QED
    BY <1>1, <2>2 DEF FailuresCounted
<1>5. CASE LockPasses
  <2>1. user'.attempts = user.attempts /\ user'.lock = "passed" /\ failures' = failures
    BY <1>1, <1>5 DEF LockPasses, UserRow, ghosts
  <2> QED
    BY <2>1 DEF FailuresCounted
<1> QED
  BY <1>2, <1>3, <1>4, <1>5, CounterStep

(* Whatever else overlaps, no failed login is missed and enough of them      *)
(* leave a lock, unless two logins load the counter before either writes it. *)
THEOREM OnlyRacingLoginsMiscount == Spec /\ []LoginsApart => []FailuresCounted
<1>1. Init => CountsOn /\ FailuresCounted
  BY SignOnAssumption DEF Init, Registered, CountsOn, LoggingIn, FailuresCounted
<1>2. TypeOK /\ CountsOn /\ FailuresCounted /\ LoginsApart /\ [Next]_vars
      => (CountsOn /\ FailuresCounted)'
  BY CountsOnStep, FailuresCountedStep
<1> QED
  BY <1>1, <1>2, SignOnTypeCorrect, PTL DEF Spec

-----------------------------------------------------------------------------
(* A request whose next commit issues a token, and a token whose session the  *)
(* new one will share.                                                      *)
MayIssue(b) == Refreshing(b) \/ (LoggingIn(b) /\ password[b] = mine[b].password)
Joins(b)    == IF kind[b] = "refresh" THEN target[b] ELSE b

(* Nobody is about to issue a token in the scope of a revocation that has     *)
(* selected its tokens and not yet committed.                               *)
RevocationsApart ==
    \A a, b \in Requests : pc[a] = "revoking" /\ MayIssue(b) => Joins(b) \notin Scope(a)

(* Sessions exist from their login on, and only what exists is ended.        *)
SessionsExist ==
    /\ Opened \subseteq Issued
    /\ \A a \in Requests :
          kind[a] \in {"logout", "revoke"} /\ pc[a] # "unsent" => target[a] \in Issued

(* Nobody presents a password that is yet to be set.                         *)
PastPasswords == {FirstPassword} \cup {a \in Requests : pc[a] = "revoked"}
PasswordsArePast ==
    /\ user.password \in PastPasswords
    /\ \A b \in Requests : password[b] \in PastPasswords \cup {WrongPassword}

(* A request b that had arrived when the revocation a committed has no usable *)
(* token in the scope of a and gets none: what it is yet to load says no.   *)
Ousted(a, b) ==
    /\ pc[b] # "unsent"
    /\ b \in Live => b \notin Scope(a)
    /\ MayIssue(b) => Joins(b) \notin Scope(a)
    /\ kind[b] = "refresh" /\ pc[b] = "arrived" /\ target[b] \in Scope(a)
          => tokens[target[b]] = "revoked"
    /\ kind[b] = "login" /\ pc[b] = "arrived" /\ b \in Scope(a)
          => \/ kind[a] \in {"change", "reset"} /\ password[b] # user.password
             \/ kind[a] = "deactivate" /\ ~user.active

EndingsHold ==
    \A a \in Requests :
        /\ pc[a] = "revoking" => kind[a] # "login" /\ Live \cap Scope(a) \subseteq victims[a]
        /\ pc[a] = "revoked" => \A b \in earlier[a] : Ousted(a, b)

(* What a revocation covers is a matter of sessions, and these do not change: *)
(* a token is in its scope after a step if one of the same session was.     *)
LEMMA ScopeStep ==
    ASSUME TypeOK, TokenInv, [Next]_vars, NEW a \in Requests, pc[a] # "unsent",
           NEW t \in Requests, NEW u \in Requests, sessionOf'[t] = sessionOf[u]
    PROVE  t \in Scope(a)' <=> u \in Scope(a)
<1>1. kind'[a] = kind[a] /\ target'[a] = target[a]
  BY RequestStep DEF Arrive
<1>2. kind[a] = "refresh" => sessionOf'[target[a]] = sessionOf[target[a]]
  BY TokensPersist DEF TokenInv, PresentedExist
<1> QED
  BY <1>1, <1>2 DEF Scope, OfSession

LEMMA SessionStep ==
    ASSUME TypeOK, [Next]_vars, NEW b \in Requests
    PROVE  Rotate(b) \/ sessionOf'[b] = sessionOf[b]
BY TokenStep DEF SignIn, Rotate, CommitRevocation, TypeOK

(* What becomes usable was about to be issued. *)
LEMMA LiveStep ==
    ASSUME TypeOK, TokenInv, [Next]_vars, NEW t \in Live'
    PROVE  \/ t \in Live
           \/ /\ t \in Requests /\ MayIssue(t) /\ pc'[t] = "issued"
              /\ sessionOf'[t] = sessionOf[Joins(t)] /\ Joins(t) \in Requests
<1> USE DEF TypeOK, Live
<1>1. CASE UNCHANGED <<tokens, sessionOf>>
  BY <1>1
<1>2. ASSUME NEW a \in Requests, SignIn(a), t = a
      PROVE  MayIssue(t) /\ pc'[t] = "issued" /\ sessionOf'[t] = sessionOf[Joins(t)]
             /\ Joins(t) \in Requests
  BY <1>2 DEF SignIn, MayIssue, LoggingIn, Joins, Finish, Goto
<1>3. ASSUME NEW a \in Requests, Rotate(a), t = a
      PROVE  MayIssue(t) /\ pc'[t] = "issued" /\ sessionOf'[t] = sessionOf[Joins(t)]
             /\ Joins(t) \in Requests
  BY <1>3 DEF Rotate, Accepts, MayIssue, Refreshing, Joins, Finish, Goto, TokenInv,
              PresentedExist, Issued
<1>4. ASSUME NEW a \in Requests, SignIn(a) \/ Rotate(a), t # a PROVE t \in Live
  BY <1>4 DEF SignIn, Rotate, Exchanged
<1>5. ASSUME NEW a \in Requests, CommitRevocation(a) PROVE t \in Live
  BY <1>5 DEF CommitRevocation
<1> QED
  BY <1>1, <1>2, <1>3, <1>4, <1>5, TokenStep

LEMMA SessionsExistStep ==
    ASSUME TypeOK, TokenInv, SessionsExist, [Next]_vars
    PROVE  SessionsExist'
<1>1. Issued \subseteq Issued'
  BY TokensPersist DEF TokenInv
<1>2. Opened' \subseteq Issued'
  <2>1. CASE sessions' = sessions
    BY <1>1, <2>1 DEF SessionsExist, Opened
  <2>2. ASSUME NEW a \in Requests, SignIn(a) PROVE Opened' \subseteq Issued'
    <3>1. Opened' \subseteq Opened \cup {a} /\ a \in Issued'
      BY <2>2 DEF SignIn, Opened, Issued, TypeOK
    <3> QED
      BY <1>1, <3>1 DEF SessionsExist
  <2>3. ASSUME NEW a \in Requests, CommitRevocation(a) PROVE Opened' \subseteq Issued'
    <3>1. kind[a] = "revoke" => target[a] \in Issued
      BY <2>3 DEF CommitRevocation, SessionsExist
    <3>2. Opened' \subseteq Opened \cup Issued
      BY <2>3, <3>1 DEF CommitRevocation, Opened, Issued, TypeOK
    <3> QED
      BY <1>1, <3>2 DEF SessionsExist
  <2> QED
    BY <2>1, <2>2, <2>3
    DEF Next, Terminated, Arrive, LoadToken, LoadUser, Refuse, Lose, Quit, FailLogin, Rotate,
        SelectTokens, LockPasses, vars, tables
<1>3. ASSUME NEW a \in Requests, kind'[a] \in {"logout", "revoke"}, pc'[a] # "unsent"
      PROVE  target'[a] \in Issued'
  <2>1. CASE Arrive(a)
    BY <1>1, <1>3, <2>1 DEF Arrive, Targets, SessionsExist, TypeOK
  <2>2. CASE ~Arrive(a)
    BY <1>1, <1>3, <2>2, RequestStep DEF SessionsExist
  <2> QED
    BY <2>1, <2>2
<1> QED
  BY <1>2, <1>3 DEF SessionsExist

LEMMA PasswordStep ==
    ASSUME TypeOK, [Next]_vars
    PROVE  /\ PastPasswords \subseteq PastPasswords'
           /\ \/ user'.password = user.password
              \/ \E a \in Requests : /\ pc[a] = "revoking" /\ pc'[a] = "revoked"
                                     /\ user'.password = a
           /\ \A b \in Requests : \/ Arrive(b) /\ password'[b] \in {user.password, WrongPassword}
                                  \/ password'[b] = password[b]
<1>1. \A a \in Requests : pc[a] = "revoked" => pc'[a] = "revoked"
  BY DEF TypeOK, Next, Terminated, Arrive, LoadToken, LoadUser, Refuse, Lose, InFlight, Quit,
         FailLogin, SignIn, Rotate, Finish, SelectTokens, CommitRevocation, LockPasses,
         Goto, vars, Ended
<1>2. \/ user'.password = user.password
      \/ \E a \in Requests : /\ pc[a] = "revoking" /\ pc'[a] = "revoked"
                             /\ user'.password = a
  <2>1. user \in UserRow
    BY DEF TypeOK
  <2>2. \/ user' = user
        \/ \E a \in Requests : user' \in {CountFailure(a), ClearFailures(a)}
        \/ \E a \in Requests : CommitRevocation(a)
        \/ LockPasses
    BY DEF Next, Terminated, Arrive, LoadToken, LoadUser, Refuse, Lose, Quit, FailLogin,
           SignIn, Rotate, SelectTokens, vars, tables
  <2>3. ASSUME NEW a \in Requests
        PROVE  /\ CountFailure(a).password = user.password
               /\ ClearFailures(a).password = user.password
    BY <2>1 DEF UserRow, CountFailure, ClearFailures
  <2>4. ASSUME NEW a \in Requests, CommitRevocation(a)
        PROVE  \/ user'.password = user.password
               \/ pc[a] = "revoking" /\ pc'[a] = "revoked" /\ user'.password = a
    BY <2>1, <2>4 DEF UserRow, CommitRevocation, Finish, Goto, TypeOK
  <2>5. LockPasses => user'.password = user.password
    BY <2>1 DEF UserRow, LockPasses
  <2> QED
    BY <2>2, <2>3, <2>4, <2>5
<1>3. ASSUME NEW b \in Requests
      PROVE  \/ Arrive(b) /\ password'[b] \in {user.password, WrongPassword}
             \/ password'[b] = password[b]
  <2>1. CASE Arrive(b)
    BY <2>1 DEF Arrive, Presented, TypeOK
  <2>2. ASSUME NEW a \in Requests, Arrive(a), a # b PROVE password'[b] = password[b]
    BY <2>2 DEF Arrive, TypeOK
  <2> QED
    BY <2>1, <2>2
    DEF Next, Terminated, LoadToken, LoadUser, Refuse, Lose, Quit, FailLogin, SignIn, Rotate,
        Finish, SelectTokens, CommitRevocation, LockPasses, vars, request
<1> QED
  BY <1>1, <1>2, <1>3 DEF PastPasswords

LEMMA PasswordsArePastStep ==
    ASSUME TypeOK, PasswordsArePast, [Next]_vars
    PROVE  PasswordsArePast'
BY PasswordStep DEF PasswordsArePast, PastPasswords

(* A password that is set is one that nobody on the way presents.            *)
LEMMA NewPasswordsAreNew ==
    ASSUME PasswordsArePast, NEW a \in Requests, pc[a] = "revoking", NEW b \in Requests
    PROVE  password[b] # a
BY SignOnAssumption DEF PasswordsArePast, PastPasswords

LEMMA SelectionStep ==
    ASSUME TypeOK, RefreshHasToken, TokenInv, RevocationsApart, EndingsHold, [Next]_vars,
           NEW a \in Requests, pc'[a] = "revoking"
    PROVE  kind'[a] # "login" /\ Live' \cap Scope(a)' \subseteq victims'[a]
<1>1. kind' = kind
  BY RequestStep
<1>2. CASE SelectTokens(a)
  <2>1. /\ victims'[a] = Scope(a) \cap Live /\ pc[a] = "loaded" /\ Permitted(a)
        /\ tokens' = tokens /\ sessionOf' = sessionOf
    BY <1>2 DEF SelectTokens, Victims, TypeOK, tables
  <2>2. kind[a] # "login"
    BY <2>1 DEF Permitted, AuthenticatedKinds
  <2>3. Live' = Live /\ Live \subseteq Requests
    BY <2>1 DEF Live
  <2>4. \A t \in Live : t \in Scope(a)' <=> t \in Scope(a)
    BY <2>1, <2>3, ScopeStep
  <2> QED
    BY <1>1, <2>1, <2>2, <2>3, <2>4
<1>3. CASE ~SelectTokens(a)
  <2>1. victims'[a] = victims[a] /\ pc[a] = "revoking"
    BY <1>3 DEF TypeOK, Next, Terminated, Arrive, LoadToken, LoadUser, Refuse, Lose, Quit,
         FailLogin, SignIn, Rotate, Finish, SelectTokens, CommitRevocation, LockPasses,
         Goto, vars, locals, Ended
  <2>2. kind[a] # "login" /\ Live \cap Scope(a) \subseteq victims[a]
    BY <2>1 DEF EndingsHold
  <2>3. ASSUME NEW t \in Live', t \in Scope(a)' PROVE t \in victims[a]
    <3>1. CASE t \in Live
      <4>1. t \in Requests /\ sessionOf'[t] = sessionOf[t]
        BY <3>1, TokensPersist DEF TokenInv, Live, Issued
      <4> QED
        BY <2>1, <2>2, <2>3, <3>1, <4>1, ScopeStep
    <3>2. CASE t \notin Live
      <4>1. /\ t \in Requests /\ MayIssue(t) /\ Joins(t) \in Requests
            /\ sessionOf'[t] = sessionOf[Joins(t)]
        BY <2>3, <3>2, LiveStep
      <4>2. Joins(t) \notin Scope(a)
        BY <2>1, <4>1 DEF RevocationsApart
      <4> QED
        BY <2>1, <2>3, <4>1, <4>2, ScopeStep
    <3> QED
      BY <3>1, <3>2
  <2> QED
    BY <1>1, <2>1, <2>2, <2>3
<1> QED
  BY <1>2, <1>3

(* At its commit a revocation ousts everybody who is on the way. *)
LEMMA OustedAtCommit ==
    ASSUME TypeOK, RefreshHasToken, TokenInv, Rooted, SessionsExist, PasswordsArePast,
           RevocationsApart, EndingsHold, [Next]_vars,
           NEW a \in Requests, CommitRevocation(a), NEW b \in earlier'[a]
    PROVE  Ousted(a, b)'
<1>1. /\ b \in Requests /\ pc[b] # "unsent"
      /\ pc[a] = "revoking" /\ pc'[a] = "revoked" /\ (b # a => pc'[b] = pc[b])
      /\ UNCHANGED <<sessionOf, kind, target, password, mine, sawRevoked>>
  BY DEF CommitRevocation, Finish, Goto, TypeOK, request, locals
<1>2. kind[a] # "login" /\ Live \cap Scope(a) \subseteq victims[a]
  BY <1>1 DEF EndingsHold
<1>3. \A t \in Requests : t \in Scope(a)' <=> t \in Scope(a)
  BY <1>1, ScopeStep
<1>4. pc'[b] # "unsent"
  BY <1>1
<1>5. ASSUME b \in Live' PROVE b \notin Scope(a)'
  BY <1>1, <1>2, <1>3, <1>5 DEF CommitRevocation, Live
<1>6. ASSUME MayIssue(b)' PROVE Joins(b)' \notin Scope(a)'
  <2>1. b # a
    BY <1>1, <1>6 DEF MayIssue, Refreshing, LoggingIn
  <2>2. MayIssue(b) /\ Joins(b)' = Joins(b)
    BY <1>1, <1>6, <2>1 DEF MayIssue, Refreshing, LoggingIn, MayTry, Joins
  <2>3. Joins(b) \in Requests
    BY <1>1 DEF Joins, RefreshHasToken
  <2> QED
    BY <1>1, <1>3, <2>2, <2>3 DEF RevocationsApart
<1>7. ASSUME kind'[b] = "refresh", pc'[b] = "arrived", target'[b] \in Scope(a)'
      PROVE  tokens'[target'[b]] = "revoked"
  <2>1. target[b] \in Issued
    BY <1>1, <1>7 DEF TokenInv, PresentedExist
  <2>2. target[b] \in Scope(a) /\ target'[b] = target[b]
    BY <1>1, <1>3, <1>7, <2>1 DEF Issued
  <2>3. tokens[target[b]] = "revoked" \/ target[b] \in victims[a]
    BY <1>2, <2>1, <2>2 DEF Issued, Live, TypeOK
  <2> QED
    BY <2>1, <2>2, <2>3 DEF CommitRevocation, Issued
<1>8. ASSUME kind'[b] = "login", pc'[b] = "arrived", b \in Scope(a)'
      PROVE  \/ kind'[a] \in {"change", "reset"} /\ password'[b] # user'.password
             \/ kind'[a] = "deactivate" /\ ~user'.active
  <2>1. b \notin Issued /\ sessionOf[b] = b
    BY <1>1, <1>8 DEF TokenInv, Fresh, Issued, Rooted
  <2>2. kind[a] = "refresh" => sessionOf[target[a]] \in Issued
    BY <1>1 DEF TokenInv, PresentedExist, Rooted, Issued
  <2>3. kind[a] \in {"logout", "revoke"} => target[a] \in Issued
    BY <1>1 DEF SessionsExist
  <2>4. kind[a] \in {"change", "reset", "deactivate"}
    BY <1>1, <1>2, <1>3, <1>8, <2>1, <2>2, <2>3
    DEF Scope, OfSession, TypeOK, Kinds, AuthenticatedKinds
  <2>5. user \in UserRow /\ password'[b] # a
    BY <1>1, NewPasswordsAreNew DEF TypeOK
  <2>6. CASE kind[a] \in {"change", "reset"}
    BY <1>1, <2>5, <2>6 DEF CommitRevocation, UserRow
  <2>7. CASE kind[a] = "deactivate"
    BY <1>1, <2>5, <2>7 DEF CommitRevocation, UserRow
  <2> QED
    BY <2>4, <2>6, <2>7
<1> QED
  BY <1>4, <1>5, <1>6, <1>7, <1>8 DEF Ousted

(* And whoever was ousted remains so, whatever others do. *)
LEMMA OustedStaysOusted ==
    ASSUME TypeOK, RefreshHasToken, TokenInv, PasswordsArePast, [Next]_vars,
           NEW a \in Requests, pc[a] # "unsent", NEW b \in Requests, Ousted(a, b)
    PROVE  Ousted(a, b)'
<1>1. /\ pc[b] # "unsent" /\ pc'[b] # "unsent" /\ target'[b] = target[b]
      /\ password'[b] = password[b] /\ kind' = kind
  BY RequestStep, PasswordStep DEF Ousted, Arrive
<1>2. pc'[b] = "arrived" => pc[b] = "arrived"
  BY <1>1 DEF TypeOK, Next, Terminated, Arrive, LoadToken, LoadUser, Refuse, Lose, Quit,
         FailLogin, SignIn, Rotate, Finish, SelectTokens, CommitRevocation, LockPasses,
         Goto, vars, Ended
<1>3. ASSUME b \in Live' PROVE b \notin Scope(a)'
  <2>1. CASE b \in Live
    <3>1. sessionOf'[b] = sessionOf[b]
      BY <2>1, TokensPersist DEF TokenInv, Live, Issued
    <3> QED
      BY <2>1, <3>1, ScopeStep DEF Ousted
  <2>2. CASE b \notin Live
    <3>1. MayIssue(b) /\ Joins(b) \in Requests /\ sessionOf'[b] = sessionOf[Joins(b)]
      BY <1>3, <2>2, LiveStep
    <3> QED
      BY <3>1, ScopeStep DEF Ousted
  <2> QED
    BY <2>1, <2>2
<1>4. ASSUME Refreshing(b)' PROVE Joins(b)' \notin Scope(a)'
  <2>1. /\ kind[b] = "refresh" /\ target[b] \in Issued
        /\ sessionOf'[target[b]] = sessionOf[target[b]]
        /\ Refreshing(b) \/ (LoadToken(b) /\ target[b] \in Live)
    BY <1>4, RefreshingStep
  <2>2. target[b] \notin Scope(a)
    BY <2>1 DEF Ousted, MayIssue, Joins, LoadToken, Live
  <2> QED
    BY <1>1, <2>1, <2>2, ScopeStep DEF Joins, Issued
<1>5. ASSUME LoggingIn(b)', password'[b] = mine'[b].password PROVE Joins(b)' \notin Scope(a)'
  <2>1. kind[b] = "login" /\ sessionOf'[b] = sessionOf[b]
    BY <1>1, <1>5, SessionStep DEF LoggingIn, Rotate
  <2>2. b \notin Scope(a)
    <3>1. CASE LoadUser(b) /\ mine'[b] = user /\ user' = user
      BY <1>1, <1>5, <2>1, <3>1 DEF LoadUser, Ousted, LoggingIn, MayTry
    <3>2. CASE LoggingIn(b) /\ mine'[b] = mine[b]
      BY <1>1, <1>5, <2>1, <3>2 DEF Ousted, MayIssue, Joins
    <3> QED
      BY <1>5, <3>1, <3>2, LoggingInStep
  <2> QED
    BY <1>1, <2>1, <2>2, ScopeStep DEF Joins
<1>6. ASSUME kind'[b] = "refresh", pc'[b] = "arrived", target'[b] \in Scope(a)'
      PROVE  tokens'[target'[b]] = "revoked"
  <2>1. /\ target[b] \in Issued /\ sessionOf'[target[b]] = sessionOf[target[b]]
        /\ tokens[target[b]] = "revoked" => tokens'[target[b]] = "revoked"
    BY <1>1, <1>6, TokensPersist DEF TokenInv, PresentedExist
  <2>2. target[b] \in Scope(a)
    BY <1>1, <1>6, <2>1, ScopeStep DEF Issued
  <2> QED
    BY <1>1, <1>2, <1>6, <2>1, <2>2 DEF Ousted
<1>7. ASSUME kind'[b] = "login", pc'[b] = "arrived", b \in Scope(a)'
      PROVE  \/ kind'[a] \in {"change", "reset"} /\ password'[b] # user'.password
             \/ kind'[a] = "deactivate" /\ ~user'.active
  <2>1. kind[b] = "login" /\ pc[b] = "arrived" /\ sessionOf'[b] = sessionOf[b]
    BY <1>1, <1>2, <1>7, SessionStep DEF Rotate
  <2>2. b \in Scope(a)
    BY <1>7, <2>1, ScopeStep
  <2>3. CASE kind[a] \in {"change", "reset"} /\ password[b] # user.password
    BY <1>1, <2>3, PasswordStep, NewPasswordsAreNew
  <2>4. CASE kind[a] = "deactivate" /\ ~user.active
    BY <1>1, <2>4, IneligibleStaysSo DEF Ineligible, TokenInv
  <2> QED
    BY <2>1, <2>2, <2>3, <2>4 DEF Ousted
<1> QED
  BY <1>1, <1>3, <1>4, <1>5, <1>6, <1>7 DEF Ousted, MayIssue

LEMMA EndingsHoldStep ==
    ASSUME TypeOK, RefreshHasToken, TokenInv, Rooted, SessionsExist, PasswordsArePast,
           RevocationsApart, EndingsHold, [Next]_vars
    PROVE  EndingsHold'
<1> SUFFICES ASSUME NEW a \in Requests, pc'[a] = "revoked", NEW b \in earlier'[a]
             PROVE  Ousted(a, b)'
  BY SelectionStep DEF EndingsHold
<1>1. CASE CommitRevocation(a)
  BY <1>1, OustedAtCommit
<1>2. CASE ~CommitRevocation(a)
  <2>1. pc[a] = "revoked" /\ earlier'[a] = earlier[a]
    BY <1>2 DEF TypeOK, Next, Terminated, Arrive, LoadToken, LoadUser, Refuse, Lose, InFlight,
         Quit, FailLogin, SignIn, Rotate, Finish, SelectTokens, CommitRevocation, LockPasses,
         Goto, vars, ghosts, Ended
  <2>2. b \in Requests /\ Ousted(a, b)
    BY <2>1 DEF EndingsHold, TypeOK
  <2> QED
    BY <2>1, <2>2, OustedStaysOusted
<1> QED
  BY <1>1, <1>2

(* Whatever else overlaps, no session outlives what ends it, a password       *)
(* change for one, unless a login or a refresh is about to issue a token in  *)
(* its scope between the selection of the tokens to revoke and the commit.  *)
THEOREM OnlyStraddlingRequestsOutliveRevocation ==
    Spec /\ []RevocationsApart => []NothingOutlivesRevocation
<1> DEFINE Inv == Rooted /\ SessionsExist /\ PasswordsArePast /\ EndingsHold
<1>1. Init => Inv
  BY DEF Init, Rooted, SessionsExist, PasswordsArePast, PastPasswords, EndingsHold, Registered,
         Issued, Opened
<1>2. TypeOK /\ RefreshHasToken /\ TokenInv /\ Inv /\ RevocationsApart /\ [Next]_vars => Inv'
  BY RootedStep, SessionsExistStep, PasswordsArePastStep, EndingsHoldStep
<1>3. Inv => NothingOutlivesRevocation
  BY DEF EndingsHold, Ousted, NothingOutlivesRevocation
<1> HIDE DEF Inv
<1> QED
  BY <1>1, <1>2, <1>3, TokenInvAlways, PTL DEF Spec
=============================================================================
