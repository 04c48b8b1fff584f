SPECIFICATION NotifySpec
CONSTANTS
    Texts = {m1}
    Drainers = {"UPLOAD", "RECONCILE"}
    MaxAttempts = 0
    MaxBatch = 1
    Refusals <- SomeRefusals
    SameClock = TRUE
    Events = {e1}
    Senders = {p1, p2}
    WebhookMaxAttempts = 2
    ScheduleLength = 8
    HourlyFrom = 2
    BreakerThreshold = 1
    Answers = {"2XX", "5XX"}
    RetryAfters = {"UNSET"}
    MaxRedeliveries = 0
PROPERTY ReactivationReleases
CHECK_DEADLOCK FALSE
