--------------------------------- MODULE Cards ---------------------------------
(***************************************************************************)
(* The cards of one user: CardService.create_card(), freeze_card(),          *)
(* unfreeze_card(), set_spending_limit() and update_controls().  A card has  *)
(* the identity of the request that issued it; card 0 was issued before.     *)
(* Nothing authorises a payment with a card: the row is all there is.        *)
(***************************************************************************)
EXTENDS Integers, UnitOfWork

CONSTANTS
    MaxActions,   \* bound: requests, numbered in the order of arrival
    Switches,   \* online_enabled, atm_enabled, contactless_enabled
    Limits      \* bound: spending limits that are asked for

Actions   == 1 .. MaxActions
CardIds == 0 .. MaxActions

ASSUME CardsAssumption ==
    /\ MaxActions \in Nat
    /\ Switches \cap {"status", "frozen_reason", "spending_limit"} = {}
    /\ "keep" \notin Limits

VARIABLES
    issued,        \* cards that exist
    card,          \* cards: the columns that a request can set
    payable,       \* whether the linked bank account is active
    action,          \* what a request asks for
    actionAt,        \* where its handler is
    view,          \* the card and the account as its session loaded them
    opposed        \* ghost: what another request set, or may set, otherwise

cardVars == <<issued, card, payable, action, actionAt, view, opposed>>

Columns == Switches \cup {"status", "frozen_reason", "spending_limit"}
Values  == {"active", "frozen", "none", "given", "on", "off"} \cup Limits
CardRow == [Columns -> Values]
Changes == [Columns -> Values \cup {"keep"}]
Action    == [card: CardIds, change: Changes, opens: BOOLEAN]
ActionLabels == {"unsent", "loaded", "done", "refused", "lost"}

NewCard(limit) ==
    [c \in Columns |-> IF c = "status" THEN "active"
                       ELSE IF c = "frozen_reason" THEN "none"
                       ELSE IF c = "spending_limit" THEN limit ELSE "on"]

Nothing == [c \in Columns |-> "keep"]
NoView  == [card |-> NewCard("none"), payable |-> TRUE]
NoAction(q) == [card |-> q, change |-> Nothing, opens |-> FALSE]

CardsInit ==
    /\ issued = {0}
    /\ card = [k \in CardIds |-> NewCard("none")]
    /\ payable = TRUE
    /\ action = [q \in Actions |-> NoAction(q)]
    /\ actionAt = [q \in Actions |-> "unsent"]
    /\ view = [q \in Actions |-> NoView]
    /\ opposed = {}

-----------------------------------------------------------------------------
(* What each route sets.  update_controls() takes what the body names and    *)
(* cannot clear the limit.                                                  *)
Freezing(reason) == [Nothing EXCEPT !["status"] = "frozen", !["frozen_reason"] = reason]
Unfreezing       == [Nothing EXCEPT !["status"] = "active", !["frozen_reason"] = "none"]
Limiting(limit)  == [Nothing EXCEPT !["spending_limit"] = limit]
Controlling ==
    {x \in Changes : \A c \in Columns :
        x[c] \in {"keep"} \cup (IF c \in Switches THEN {"on", "off"}
                                ELSE IF c = "spending_limit" THEN Limits ELSE {})}

ActionsOf(q) ==
    [card: issued, opens: {FALSE},
     change: {Unfreezing} \cup {Freezing(r) : r \in {"none", "given"}}
                 \cup {Limiting(l) : l \in Limits} \cup Controlling]
        \cup [card: {q}, opens: {TRUE}, change: {NewCard(l) : l \in Limits \cup {"none"}}]

UnderWay(p) == actionAt[p] = "loaded"

(* Two requests disagree about the columns that they set differently.        *)
Disagree(x, y) ==
    {c \in Columns : x.card = y.card /\ x.change[c] # y.change[c]
                         /\ "keep" \notin {x.change[c], y.change[c]}}

(* An arriving request opposes the earlier ones, and is opposed by those that *)
(* are under way.                                                           *)
Opposition(q, x) ==
    {o \in Actions \X Columns : \E p \in 1 .. q - 1 :
        o[2] \in Disagree(action[p], x) /\ (o[1] = p \/ (o[1] = q /\ UnderWay(p)))}

(* get_current_user() loads the user with all cards and accounts; selecting  *)
(* one of them later keeps the attributes it was loaded with.               *)
ReceiveAction(q) ==
    /\ actionAt[q] = "unsent"
    /\ \A b \in 1 .. q - 1 : actionAt[b] # "unsent"
    /\ \E x \in ActionsOf(q) :
        /\ action' = [action EXCEPT ![q] = x]
        /\ view' = [view EXCEPT ![q] = [card |-> card[x.card], payable |-> payable]]
        /\ opposed' = opposed \cup Opposition(q, x)
    /\ actionAt' = [actionAt EXCEPT ![q] = "loaded"]
    /\ UNCHANGED <<issued, card, payable>>

ActionEnds(q, label) ==
    /\ UnderWay(q)
    /\ actionAt' = [actionAt EXCEPT ![q] = label]
    /\ view' = [view EXCEPT ![q] = NoView]
    /\ UNCHANGED <<payable, action, opposed>>

(* create_card(): the account must be active, as it was loaded.              *)
CommitCard(q) ==
    /\ action[q].opens
    /\ view[q].payable
    /\ issued' = issued \cup {q}
    /\ card' = [card EXCEPT ![q] = action[q].change]
    /\ ActionEnds(q, "done")

RefuseCard(q) ==
    /\ action[q].opens
    /\ ~view[q].payable
    /\ ActionEnds(q, "refused")
    /\ UNCHANGED <<issued, card>>

Asked(q, c) ==
    IF action[q].change[c] = "keep" THEN view[q].card[c] ELSE action[q].change[c]

(* Seeded fault: every column of the row is written.                         *)
SetWhole(q, c) == Asked(q, c)

Set(q, c) == Flushed(card[action[q].card][c], view[q].card[c], Asked(q, c))

(* freeze_card(), unfreeze_card(), set_spending_limit(), update_controls().  *)
CommitChange(q) ==
    /\ ~action[q].opens
    /\ card' = [card EXCEPT ![action[q].card] = [c \in Columns |-> Set(q, c)]]
    /\ ActionEnds(q, "done")
    /\ UNCHANGED issued

(* Another card has the last four digits that were drawn, another failing    *)
(* statement, or a crash.                                                   *)
LoseAction(q) ==
    /\ ActionEnds(q, "lost")
    /\ UNCHANGED <<issued, card>>

(* AdminService.freeze_account(), unfreeze_account().                        *)
AccountTurns ==
    /\ payable' = ~payable
    /\ UNCHANGED <<issued, card, action, actionAt, view, opposed>>

CardsNext ==
    \/ \E q \in Actions : \/ ReceiveAction(q) \/ CommitCard(q) \/ RefuseCard(q)
                        \/ CommitChange(q) \/ LoseAction(q)
    \/ AccountTurns

CardsSpec == CardsInit /\ [][CardsNext]_cardVars

-----------------------------------------------------------------------------
CardsTypeOK ==
    /\ issued \subseteq CardIds
    /\ card \in [CardIds -> CardRow]
    /\ payable \in BOOLEAN
    /\ action \in [Actions -> Action]
    /\ actionAt \in [Actions -> ActionLabels]
    /\ view \in [Actions -> [card: CardRow, payable: BOOLEAN]]
    /\ opposed \subseteq Actions \X Columns

(* What a customer was told holds: a card that was frozen stays frozen, a     *)
(* limit or a control stays as it was set, until a request that overlaps or  *)
(* follows sets the same column otherwise.  Requests about other columns do  *)
(* not undo it, whatever row they loaded and however late they commit.       *)
AnswersHold ==
    \A q \in Actions : actionAt[q] = "done" =>
        \A c \in Columns :
            \/ action[q].change[c] \in {"keep", card[action[q].card][c]}
            \/ <<q, c>> \in opposed
=============================================================================
