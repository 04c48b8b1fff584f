SPECIFICATION ParserSpec
CONSTANTS
    None = None
    t1 = t1
    t2 = t2
    Orders = {o1}
    SmsLogs = {s1}
    TrxIds = {t1}
    Workers = {w1, w2}
    Requests <- ExactOnly
    Extractions <- PaidOrGarbled
    LateMatchGrace = 2
    CorrectionGrace = 2
    Tolerance = 0
    HeuristicEnabled = FALSE
    NotifyOnReview = TRUE
    NotifyOnExpiry = TRUE
    ForceReparse = FALSE
    MaxLateness = 2
    MaxRows = 1
SYMMETRY Symmetric
INVARIANT ReparsedReentersMatching
CHECK_DEADLOCK FALSE
