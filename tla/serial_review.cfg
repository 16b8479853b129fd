SPECIFICATION Spec
CONSTANTS
    alice = alice  bob = bob  a1 = a1  b1 = b1  k1 = k1  k2 = k2  k3 = k3
    c1 = c1  c2 = c2  c3 = c3  c4 = c4
    NoKey = NoKey  NoAccount = NoAccount
    NoConfirmation = NoConfirmation  NoTransfer = NoTransfer
    Users = {alice, bob}
    Accounts = {a1, b1}
    KeyNames = {k1, k2, k3}
    Confirmations = {c2, c3}
    Transfers = {t1, t2}
    Decisions = {d1, d2}
    Errands = {e1}
    Payloads <- LargeAndBack
    Owner <- MCOwner
    Currency <- MCCurrency
    OpeningBalance <- MCUneven
    DailyLimit <- MCLimit
    IssuedFor <- MCIssuedFor
    KycVerified = {bob}
    SensitiveThreshold = 2
    LastDay = 0
    Overlapping = FALSE
SYMMETRY Slots
INVARIANTS BooksBalance PostedAtMostOnce
PROPERTIES OnlyActiveAccountsPay ImplementsLedger
