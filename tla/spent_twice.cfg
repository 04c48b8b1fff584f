SPECIFICATION UndisturbedSpec
CONSTANTS
    None = None
    t1 = t1
    t2 = t2
    Orders = {o1, o2}
    SmsLogs = {s1, s2}
    TrxIds = {t1}
    Workers = {w1, w2}
    Requests <- BothModes
    Extractions <- PaidOnly
    LateMatchGrace = 2
    CorrectionGrace = 2
    Tolerance = 0
    HeuristicEnabled = TRUE
    NotifyOnReview = FALSE
    NotifyOnExpiry = TRUE
    ForceReparse = FALSE
    MaxLateness = 2
    MaxRows = 1
SYMMETRY Symmetric
INVARIANT TrxSpentOnce
CHECK_DEADLOCK FALSE
