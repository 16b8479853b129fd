SPECIFICATION Spec
CONSTANTS
    NoCode = NoCode  WrongCode = WrongCode  Factor = Factor
    N = 5
    Workloads <- AllScripts
    MaxAttempts = 3
    MaxInFlight = 2
INVARIANTS UsesAreProven LateConfirmationsFail UsedOnce CodesFitTheirChallenge
    FailuresAreCounted
