SPECIFICATION ParsingSpec
CONSTANTS
    Addresses = {"bKash", "NAGAD", "+88016247", "bKash-Promo"}
    Words = {"received", "from", "TrxID", "sent"}
    MaxRuleVersion = 2
INVARIANT ScannedIsQueued
CHECK_DEADLOCK FALSE
