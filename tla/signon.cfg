SPECIFICATION Spec
CONSTANTS
    s1 = s1  s2 = s2  s3 = s3  s4 = s4
    FirstPassword = FirstPassword  WrongPassword = WrongPassword  NoTarget = NoTarget
    Requests = {s1, s2, s3, s4}
    Workloads <- MixedWork
    MaxAttempts = 2
INVARIANTS RevocationCoversTheKnown LateRequestsGetNothing OneTokenPerSession LockAfterFailures
PROPERTIES ImplementsRegistry
