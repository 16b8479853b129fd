------------------------------ MODULE RateLimit ------------------------------
(***************************************************************************)
(* The rate_limit() dependency: a counter per key in Redis, incremented by  *)
(* every call and given a time to live by the call that found it at zero.   *)
(* Calls come in any number; a caller calls again once it was answered.     *)
(***************************************************************************)
EXTENDS Integers

CONSTANTS
    Callers,   \* bound: calls under way at once
    RateKeys,  \* ratelimit:<namespace>:<ip>:<extra>:<path>
    RateCap    \* calls allowed per window

ASSUME RateAssumption == RateCap \in Nat \ {0}

VARIABLES
    count,     \* the value of the key, zero when it does not exist
    expires,   \* keys with a time to live
    call,      \* the key of a caller's last call
    callAt,    \* where that call is
    current,   \* the value INCR returned to it
    orphans    \* ghost: keys whose EXPIRE was lost after their INCR

rateVars == <<count, expires, call, callAt, current, orphans>>

(* Counts beyond the limit are alike.                                        *)
Counts == 0 .. RateCap + 1

RateInit ==
    /\ count = [k \in RateKeys |-> 0]
    /\ expires = {}
    /\ call = [c \in Callers |-> CHOOSE k \in RateKeys : TRUE]
    /\ callAt = [c \in Callers |-> "idle"]
    /\ current = [c \in Callers |-> 0]
    /\ orphans = {}

-----------------------------------------------------------------------------
CallGoes(c, label) == callAt' = [callAt EXCEPT ![c] = label]

Incremented(k) == IF count[k] > RateCap THEN count[k] ELSE count[k] + 1

Incr(c) ==
    /\ callAt[c] = "idle"
    /\ \E k \in RateKeys :
        /\ count' = [count EXCEPT ![k] = Incremented(k)]
        /\ call' = [call EXCEPT ![c] = k]
        /\ current' = [current EXCEPT ![c] = Incremented(k)]
    /\ CallGoes(c, "counted")
    /\ UNCHANGED <<expires, orphans>>

(* Seeded fault: the counter is compared with its value before the call.      *)
OpensWindowAtZero(c) == current[c] = 0

OpensWindow(c) == current[c] = 1

(* EXPIRE on a key that is gone does nothing.                                *)
Expire(c) ==
    /\ callAt[c] = "counted"
    /\ OpensWindow(c)
    /\ expires' = IF count[call[c]] = 0 THEN expires ELSE expires \cup {call[c]}
    /\ orphans' = IF count[call[c]] = 0 THEN orphans ELSE orphans \ {call[c]}
    /\ CallGoes(c, "judged")
    /\ UNCHANGED <<count, call, current>>

AnswerCall(c) ==
    /\ \/ callAt[c] = "counted" /\ ~OpensWindow(c)
       \/ callAt[c] = "judged"
    /\ CallGoes(c, "idle")
    /\ UNCHANGED <<count, expires, call, current, orphans>>

(* The process dies, or Redis does not answer.                               *)
LoseCall(c) ==
    /\ callAt[c] # "idle"
    /\ orphans' = IF callAt[c] = "counted" /\ OpensWindow(c) /\ call[c] \notin expires
                  THEN orphans \cup {call[c]} ELSE orphans
    /\ CallGoes(c, "idle")
    /\ UNCHANGED <<count, expires, call, current>>

(* The window is over; Redis may also lose a key at any time.                *)
DropKey(k) ==
    /\ count' = [count EXCEPT ![k] = 0]
    /\ expires' = expires \ {k}
    /\ orphans' = orphans \ {k}
    /\ UNCHANGED <<call, callAt, current>>

EndWindow(k) == k \in expires /\ DropKey(k)
ForgetKey(k) == count[k] # 0 /\ DropKey(k)

RateNext ==
    \/ \E c \in Callers : Incr(c) \/ Expire(c) \/ AnswerCall(c) \/ LoseCall(c)
    \/ \E k \in RateKeys : EndWindow(k) \/ ForgetKey(k)

(* A call under way proceeds (the event loop), and time passes.              *)
RateFairness ==
    /\ \A c \in Callers : WF_rateVars(Expire(c) \/ AnswerCall(c))
    /\ \A k \in RateKeys : WF_rateVars(EndWindow(k))

RateSpec == RateInit /\ [][RateNext]_rateVars /\ RateFairness

-----------------------------------------------------------------------------
RateTypeOK ==
    /\ count \in [RateKeys -> Counts]
    /\ expires \subseteq RateKeys
    /\ call \in [Callers -> RateKeys]
    /\ callAt \in [Callers -> {"idle", "counted", "judged"}]
    /\ current \in [Callers -> Counts]
    /\ orphans \subseteq RateKeys

(* "Too many attempts. Please wait and try again.": waiting helps.  A key     *)
(* over its limit comes back to zero, however calls overlap, unless the     *)
(* call that was to set its expiry was lost between INCR and EXPIRE.        *)
RefusalsEnd == \A k \in RateKeys : count[k] > RateCap ~> (count[k] = 0 \/ k \in orphans)
=============================================================================
