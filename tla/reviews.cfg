SPECIFICATION ScopesSpec
CONSTANTS
    None = None
    t1 = t1
    t2 = t2
    Orders = {o1, o2}
    SmsLogs = {s1}
    TrxIds = {t1, t2}
    Workers = {w1, w2}
    Requests <- AnyRequest
    Extractions <- PaidShortOrAhead
    LateMatchGrace = 2
    CorrectionGrace = 2
    Tolerance = 0
    HeuristicEnabled = TRUE
    NotifyOnReview = FALSE
    NotifyOnExpiry = TRUE
    ForceReparse = TRUE
    MaxLateness = 2
    MaxRows = 2
SYMMETRY Symmetric
INVARIANTS TypeOK VerifiedOrderHasCredit LiveTrxUnique NeverUnderpaid VerifiedIsAnnounced
PROPERTIES   LedgerSpec
CHECK_DEADLOCK FALSE
