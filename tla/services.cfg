SPECIFICATION ServicesSpec
CONSTANTS
    p1 = p1  p2 = p2  p3 = p3  NoProof = NoProof
    MaxEdits = 3
    MaxFilings = 4
    MaxSavings = 3
    Proofs = {p1, p2, p3}
    PurposeOf <- MCPurposeOf
    Callers = {r1, r2}
    RateKeys = {k1, k2}
    RateCap = 2
    Exports = {x1}
    MaxDemands = 4
    CodesPerSetup = 2
    MaxNotices = 3
    Wishes <- MCWishes
    MaxActions = 3
    Switches = {}
    Limits = {"low"}
    MaxLogins = 3
    DeviceIds = {d1}
    Addresses = {a1, a2}
    NoAddress = NoAddress
    Starts = {s1, s2}
    Registrations = {g1}
    RoleOrder <- MCRoleOrder
    Emails = {root, mail}
    AdminEmail = root
    MaxRetries = 2
INVARIANTS
    OnePrimaryAccount StandingFromSubmission PayeesTraceToProof NoExportForgotten
    OfferedFilesAreWhole EnabledMeansConfigured RecoveryCodesSpend OptOutIsKept AnswersHold SignInsAreAnnounced UpMeansReady SomeoneGoesOn
PROPERTIES RefusalsEnd ExportsSettle
