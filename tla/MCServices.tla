------------------------------ MODULE MCServices ------------------------------
(***************************************************************************)
(* Small instances of the services around the money core.  They share no    *)
(* row that one of them writes and another reads, so a behaviour is one of   *)
(* one service, chosen at the start: what holds here holds of any           *)
(* interleaving of all of them.                                             *)
(***************************************************************************)
EXTENDS PrimaryAccounts, KycReview, Payees, RateLimit, StatementExports, MfaEnrolment, Notices,
        Cards, TrustedDevices, StartUp, TLC

CONSTANTS p1, p2, p3

Services == {"accounts", "kyc", "payees", "rate", "exports", "mfa", "notices",
             "cards", "devices", "startup"}

VARIABLE service   \* the service of this behaviour

MCPurposeOf ==
    p1 :> "beneficiary_create" @@ p2 :> "recurring_transfer" @@ p3 :> "recurring_transfer"

MCRoleOrder == <<"customer", "admin">>

Wish(alert, system) == "security_alert" :> alert @@ "system" :> system
MCWishes == {Wish("off", "keep"), Wish("on", "keep"), Wish("keep", "on"), Wish("off", "on")}

ServicesInit ==
    /\ service \in Services
    /\ PrimaryInit /\ KycInit /\ PayeesInit /\ RateInit /\ ExportsInit /\ MfaInit /\ NoticesInit
    /\ CardsInit /\ DevicesInit /\ StartUpInit
    /\ serving \/ configured # {} => service = "startup"
    /\ preference.exists => service = "notices"

(* Every request of the chosen service has ended.                            *)
Ended == {"done", "refused", "lost"}
Finished ==
    CASE service = "accounts" -> \A e \in Edits : editAt[e] \in Ended
      [] service = "kyc"      -> \A f \in Filings : filingAt[f] \in Ended
      [] service = "payees"   -> \A p \in Savings : savingAt[p] \in Ended
      [] service = "rate"     -> FALSE
      [] service = "exports"  -> /\ \A e \in Exports : ordering[e] \in {"answered", "lost"}
                                 /\ broker = {}
                                 /\ \A j \in Jobs : ~Working(j)
      [] service = "mfa"      -> \A m \in Demands : demandAt[m] \in Ended
      [] service = "notices"  -> \A n \in NoticeIds : noticeAt[n] \in Ended
      [] service = "cards"    -> \A a \in Actions : actionAt[a] \in Ended
      [] service = "devices"  -> \A l \in Logins : loginAt[l] \in Ended
      [] service = "startup"  -> FALSE

(* The other services do nothing.                                            *)
Keeps(s, vars) == IF service = s THEN TRUE ELSE UNCHANGED vars
OthersIdle ==
    /\ Keeps("accounts", primaryVars) /\ Keeps("kyc", kycVars)
    /\ Keeps("payees", payeeVars) /\ Keeps("rate", rateVars)
    /\ Keeps("exports", exportVars) /\ Keeps("mfa", mfaVars)
    /\ Keeps("notices", noticeVars) /\ Keeps("cards", cardVars)
    /\ Keeps("devices", deviceVars) /\ Keeps("startup", startVars)

servicesVars == <<primaryVars, kycVars, payeeVars, rateVars, exportVars, mfaVars, noticeVars,
                  cardVars, deviceVars, startVars>>

Terminated == Finished /\ UNCHANGED servicesVars

ServicesNext ==
    /\ UNCHANGED service
    /\ \/ service = "accounts" /\ PrimaryNext
       \/ service = "kyc"      /\ KycNext
       \/ service = "payees"   /\ PayeesNext
       \/ service = "rate"     /\ RateNext
       \/ service = "exports"  /\ ExportsNext
       \/ service = "mfa"      /\ MfaNext
       \/ service = "notices"  /\ NoticesNext
       \/ service = "cards"    /\ CardsNext
       \/ service = "devices"  /\ DevicesNext
       \/ service = "startup"  /\ StartUpNext
       \/ Terminated
    /\ OthersIdle

ServicesSpec ==
    /\ ServicesInit /\ [][ServicesNext]_<<service, servicesVars>>
    /\ RateFairness /\ ExportsFairness

(* Every variable keeps the type its module gives it.                        *)
ServicesTypeOK ==
    /\ PrimaryTypeOK /\ KycTypeOK /\ PayeesTypeOK /\ RateTypeOK /\ ExportsTypeOK
    /\ MfaTypeOK /\ NoticesTypeOK /\ CardsTypeOK /\ DevicesTypeOK /\ StartUpTypeOK
=============================================================================
