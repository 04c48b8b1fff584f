SPECIFICATION ComponentsSpec
CONSTANTS
    None = None
    bkash = bkash
    nagad = nagad
    alice = alice
    Orders = {o1, o2, o3}
    ProviderNames = {bkash, nagad}
    Msisdns = {alice}
    Candidates <- SomeCandidates
    Messages <- SomeMessages
    SettingsUsed <- SomeSettings
    RoundAmounts = {100}
    CandidateCap = 3
    LateMatchGrace = 2
    Grid = 60
    Events = {e1}
    Senders = {x1, x2}
    WebhookMaxAttempts = 2
    ScheduleLength = 8
    HourlyFrom = 2
    BreakerThreshold = 1
    Answers = {"2XX", "5XX"}
    RetryAfters = {"UNSET"}
    MaxRedeliveries = 1
    Installs = {i1, i2}
    Calls = {x1, x2}
    MaxDevices = 1
    MaxTokens = 2
    MaxRequests = 1
    StatusesSet = {"ACTIVE", "RETIRED"}
    Refreshers = {i1, i2}
    Refreshes = {x1, x2}
    MaxSessions = 3
    SignIns = {x1, x2}
    Codes = {k1, k2}
    MaxFailed = 2
    MaxTries = 3
    Administrators = {x1, x2}
    MaxKeys = 3
    Rotators = {x1, x2}
    MaxSecrets = 3
    Posts = {x1, x2}
    Bodies = {b1, b2}
    MaxExecutions = 3
    Points = 2
    Window = 3
    Skews = {0, 1}
    FailModes = {TRUE, FALSE}
    Horizon = 5
    MaxCalls = 3
    Companies = {m1, m2}
    DedupeWindow = 3
    Processes = {x1, x2}
    MaxActivations = 2
    MaxListRows = 3
    CreatedTimes = {1, 2}
    PageSize = 1
    AmountTexts <- SomeAmounts
    TimeTexts <- SomeTimes
    FormatLists <- SomeFormats
    NumberTexts <- SomeNumbers
    TrxTexts <- SomeTrxIds
    MaxPaisa = 999
    WordHalf = 1024
    FieldsNow <- NowHour
    Addresses = {"bKash", "NAGAD", "+88016247", "bKash-Promo"}
    Words = {"received", "from", "TrxID", "sent"}
    MaxRuleVersion = 2
    Pages = {i1, i2}
    MaxEnrolments = 3
    Contents <- SomeContents
    Dashboards <- SomeDashboards
    Viewers = {x1, x2}
    DayLength = 4
    DhakaLead = 1
    CacheTTL = 1
    Slowest = 1
    LastTick = 3
    Presses = {x1, x2}
    MaxChanges = 2
SYMMETRY Interchangeable
INVARIANTS ComponentsTypeOK AbstractionSound CollisionIsReviewed
INVARIANTS VerdictOnRecord AttemptBudget PendingIsScheduled LinkKept DirectiveOnce
INVARIANTS SignedInUntilLogout EndedStaysEnded LockoutCounts RecoveryCodeOnce KeyLeft PromisedSecretSigns
INVARIANTS ExecutedOnce RateHeld 
INVARIANTS PagesComplete EnginesAgree   EnrolledIsConfirmed AnswersAreRecent ShowsItsActions
PROPERTIES NobodyForgotten
CHECK_DEADLOCK FALSE
