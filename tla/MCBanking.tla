------------------------------ MODULE MCBanking ------------------------------
(***************************************************************************)
(* Small instances of the money core.  Alice owns a1, Bob owns b1; Alice's  *)
(* identity is not verified, Bob's is.  Amounts are in units of which the   *)
(* sensitive threshold is two, so a first payment of two or more by Alice   *)
(* is queued for review and everything else is paid at once.                *)
(***************************************************************************)
EXTENDS Banking, TLC

CONSTANTS alice, bob, a1, b1, k1, k2, k3, c1, c2, c3, c4

MCOwner     == a1 :> alice @@ b1 :> bob
MCCurrency  == a1 :> "EUR" @@ b1 :> "EUR"
MCOpening   == a1 :> 2 @@ b1 :> 1
MCTight     == a1 :> 2 @@ b1 :> 0
MCUneven    == a1 :> 4 @@ b1 :> 0
MCLimit     == a1 :> 2 @@ b1 :> 3
MCIssuedFor ==
    [c \in Confirmations |->
        CASE c = c2 -> [user |-> alice, from |-> a1, to |-> b1, amount |-> 2]
          [] c = c3 -> [user |-> bob, from |-> b1, to |-> a1, amount |-> 1]
          [] OTHER  -> [user |-> alice, from |-> a1, to |-> b1, amount |-> 1]]

Pays(u, k, x, y, n, c) == [user |-> u, key |-> k, from |-> x, to |-> y, amount |-> n,
                           confirmation |-> c]
SmallPayment   == Pays(alice, k1, a1, b1, 1, c1)
LargePayment   == Pays(alice, k3, a1, b1, 2, c2)
PaymentBack    == Pays(bob, k1, b1, a1, 1, c3)
OtherPayload   == Pays(alice, k1, a1, b1, 2, c2)
Unconfirmed    == Pays(alice, k1, a1, b1, 1, NoConfirmation)
Keyless        == Pays(alice, NoKey, a1, b1, 1, c1)
SameCodeAgain  == Pays(alice, k2, a1, b1, 1, c1)
Challenged     == Pays(alice, k1, a1, b1, 1, c4)
SecondSmall    == Pays(alice, k2, a1, b1, 1, c4)
NotMine        == Pays(alice, k2, b1, a1, 1, NoConfirmation)

CrossPayments   == {SmallPayment, LargePayment, PaymentBack}
AliceTriesAll   == {SmallPayment, SecondSmall, LargePayment, OtherPayload, Challenged,
                    Keyless, NotMine}
PaymentsAndRetries == {SmallPayment, SecondSmall, PaymentBack, OtherPayload}
Retries         == {SmallPayment, Unconfirmed, Challenged, OtherPayload}
TwiceOneCode    == {SmallPayment, SameCodeAgain}
LargeOnly       == {LargePayment}
LargeAndBack    == {LargePayment, PaymentBack}

(* Every transfer arrives, or all but one (whose payload then has no effect, *)
(* and is a small payment) and a freeze of Bob's account, which is the       *)
(* recipient's or, of a payment back, the sender's.                         *)
Spared(t)    == pc[t] = "unsent" /\ request[t] = SmallPayment
FreezeForOne == (\E e \in Errands : pc[e] # "unsent") => \E t \in Transfers : Spared(t)
MixedInit ==
    /\ Init
    /\ \A e \in Errands : errand[e] = [account |-> b1, status |-> "frozen"]
MixedSpec == MixedInit /\ [][Next]_vars

(* A confirmation that no request brings does not expire: nobody would see it. *)
SeenToExpire ==
    \A c \in Confirmations : confirmations[c] = "expired" =>
        \E t \in Transfers : request[t].confirmation = c

(* The payment that is queued for review, the payment back, and any two       *)
(* decisions (in either order) that race on the first.                      *)
Queued       == CHOOSE t \in Transfers : TRUE
OneDecision  == CHOOSE d \in Decisions : TRUE
Severity     == "approve" :> 1 @@ "reject" :> 2 @@ "freeze" :> 3
CrossingInit ==
    /\ Init
    /\ request = [t \in Transfers |-> IF t = Queued THEN LargePayment ELSE PaymentBack]
    /\ \A d \in Decisions :
        /\ ruling[d].tx = Queued
        /\ Severity[ruling[OneDecision].verdict] <= Severity[ruling[d].verdict]
CrossingSpec == CrossingInit /\ [][Next]_vars /\ Fairness

TransferSlots   == Permutations(Transfers)
Slots           == TransferSlots \cup Permutations(Decisions)
=============================================================================
