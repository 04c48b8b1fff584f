SPECIFICATION Spec
CONSTANTS
    None = None
    bkash = bkash
    nagad = nagad
    alice = alice
    Orders = {o1}
    ProviderNames = {bkash, nagad}
    Msisdns = {alice}
    Candidates <- PlainCandidates
    Messages <- EarlyMessages
    SettingsUsed <- DefaultSettings
    RoundAmounts = {100}
    CandidateCap = 3
    LateMatchGrace = 2
    Grid = 60
INVARIANT PaidBeforeSubmittingIsWeighed
CHECK_DEADLOCK FALSE
