----------------------------- MODULE MCComponents ------------------------------
(* One small instance of every component that shares no state with the     *)
(* others: each behaviour runs one of them and leaves the rest as they     *)
(* begin.                                                                  *)
EXTENDS MCHeuristicScoring, WebhookDelivery, DeviceLink, AdminSessions, AdminLogin,
        ServerKeys, WebhookSecret, Idempotency, RateLimit, Alerts, RuleCache,
        Paging, SmsFields, SmsParsing, TotpEnrolment, Analytics, AdminConsole

VARIABLE part

otherVars == <<deliveryVars, linkVars, sessionVars, loginVars, keyVars,
               secretVars, idempotencyVars, limitVars, alertVars, ruleVars,
               pagingVars, fieldVars, parsingVars, totpVars, analyticsVars, consoleVars>>
componentVars == <<part, vars, otherVars>>

Parts == {"SCORING", "DELIVERY", "LINK", "SESSIONS", "LOGIN", "KEYS", "SECRET",
          "IDEMPOTENCY", "LIMIT", "ALERTS", "RULES", "PAGING", "FIELDS", "PARSING",
          "TOTP", "ANALYTICS", "CONSOLE"}

(* Concurrent requests have the same two names in every part, and so have  *)
(* installations and tabs: one permutation of the names serves all.        *)
Interchangeable == Permutations(Calls) \cup Permutations(Installs)

(* Orders are interchangeable to the heuristic pass: of all the ways to    *)
(* hand three candidates to three orders one is enough.                    *)
Rank(c) == <<c.amount, c.created,
             IF c.provider = None THEN 0 ELSE IF c.provider = bkash THEN 1 ELSE 2,
             IF c.sender = None THEN 0 ELSE 1>>
NotAfter(a, b) ==
    \A i \in DOMAIN a : a[i] > b[i] => \E j \in 1 .. i - 1 : a[j] < b[j]
OrderSeq == SetToSeq(Orders)
CandidateCombinations ==
    {f \in [Orders -> Candidates] : \A i \in 1 .. Len(OrderSeq) - 1 :
        NotAfter(Rank(f[OrderSeq[i]]), Rank(f[OrderSeq[i + 1]]))}
ScoringInit == orders \in CandidateCombinations /\ Init

ScoringAtRest ==
    /\ orders \in [Orders -> PlainCandidates]
    /\ sms \in EarlyMessages
    /\ settings \in DefaultSettings
    /\ decision = None

PagingAtRest ==
    /\ listing = ListAudit
    /\ created = [r \in ListRows |-> 0]
    /\ PagingInit

NoAmount == [units |-> 0, decimals |-> 0, point |-> 0]
FieldsAtRest ==
    /\ field = [kind |-> "AMOUNT", text |-> NoAmount]
    /\ FieldsInit

(* Amounts at the ends of what a word and MAX_ABS_PAISA hold, with as many *)
(* decimals as a text may have and one more.                               *)
SomeAmounts ==
    {t \in [units : {0, 1, 9, 10, 11, 25, 40, 2000}, decimals : 0 .. 3,
            point : {0, 5, 50, 99, 505}] : t.point < 10 ^ t.decimals}

(* Days that two orders of day and month read differently, days that no    *)
(* month or only a leap year has, hours that are none.                     *)
SomeTimes ==
    [first : {0, 2, 12, 13, 29, 31}, second : {2, 4, 12, 13, 29, 30},
     year : {24, 50, 99}, digits : {2}, hour : {0, 5, 23, 24}]
    \cup [first : {0, 2, 12, 13, 29, 31}, second : {2, 4, 12, 13, 29, 30},
          year : {50, 1900, 2000, 2023, 2024, 2026}, digits : {4}, hour : {0, 5, 23, 24}]
DayFirst(digits) == [dayFirst |-> TRUE, digits |-> digits]
SomeFormats ==
    {<<DayFirst(4)>>, <<[dayFirst |-> FALSE, digits |-> 4], DayFirst(2), DayFirst(4)>>}
(* Numbers with and without their prefixes, of an operator that is none,   *)
(* and one digit short or long; ids at both ends of the allowed length.    *)
SomeNumbers ==
    {[plus |-> n, digits |-> prefix \o operator \o [i \in 1 .. rest |-> 5]] :
        n \in 0 .. 2, rest \in 7 .. 9, operator \in {<<1, 2>>, <<1, 3>>, <<1, 9>>, <<8, 8>>},
        prefix \in {<<>>, <<0>>, <<8, 8, 0>>, <<8, 8, 0, 0>>, <<0, 8, 8, 0>>, <<8, 8>>}}
SomeTrxIds ==
    [letters : {0, 1, 5, 6, 20, 21}, digits : {0, 5, 6, 15}, others : {0, 2}, upper : BOOLEAN]
NowHour == 24 * DayNumber(2026, 2, 3)

(* A day of four ticks that begins one tick earlier in Dhaka; an order of  *)
(* each company on either side of its midnight, one of them old enough to  *)
(* leave the seven days; what a verification, an expiry and a delivery     *)
(* commit to the tables.                                                   *)
OrderAt(o, at, c, amount, status) ==
    [id |-> o, created |-> at, company |-> c, amount |-> amount, status |-> status]
SmsAt(at, provider, parse, match) ==
    [uploaded |-> at, provider |-> provider, parse |-> parse, match |-> match]
EventAt(at, type, status) == [created |-> at, type |-> type, status |-> status]
TablesBefore ==
    [orders |-> {OrderAt(1, -26, "c1", 5, "PENDING"), OrderAt(2, 2, "c1", 7, "PENDING"),
                 OrderAt(3, 3, "c2", 9, "PENDING")},
     sms |-> {SmsAt(-26, "BKASH", "PARSED", "UNMATCHED"), SmsAt(3, "NAGAD", "IGNORED", "IGNORED")},
     reviews |-> {}, events |-> {}, credits |-> {}, companies |-> {"c1", "c2"}]
TablesVerified ==
    [TablesBefore EXCEPT
        !.orders = {OrderAt(1, -26, "c1", 5, "VERIFIED"), OrderAt(2, 2, "c1", 7, "EXPIRED"),
                    OrderAt(3, 3, "c2", 9, "VERIFIED")},
        !.sms = {SmsAt(-26, "BKASH", "PARSED", "MATCHED"), SmsAt(3, "NAGAD", "IGNORED", "IGNORED")},
        !.reviews = {[id |-> 1, status |-> "OPEN"]},
        !.credits = {[verified |-> -26, method |-> "EXACT_TXN_ID", confidence |-> 100],
                     [verified |-> 3, method |-> "MANUAL_ADMIN", confidence |-> 100]},
        !.events = {EventAt(-26, "payment.verified", "PENDING"), EventAt(3, "payment.verified", "PENDING")}]
TablesDelivered ==
    [TablesVerified EXCEPT
        !.reviews = {[id |-> 1, status |-> "RESOLVED"]},
        !.events = {EventAt(-26, "payment.verified", "DELIVERED"), EventAt(3, "payment.verified", "DEAD")}]
SomeContents == <<TablesBefore, TablesVerified, TablesDelivered>>
Asking(report, range, c) == [report |-> report, range |-> range, company |-> c]
SomeDashboards ==
    {{Asking(r, "7d", Nothing)} : r \in {"overview", "funnel", "providers", "methods"}}
    \cup {{Asking("daily", "7d", Nothing), Asking("daily", "7d", "c1")},
          {Asking("parser-health", Nothing, Nothing), Asking("companies", "30d", Nothing)}}

AnalyticsAtRest ==
    /\ dashboard = {Asking("funnel", "7d", Nothing)}
    /\ AnalyticsInit

(* A bound: companies are active or suspended, devices active or blocked,  *)
(* and of the requests that leave a device's status one is enough.         *)
TwoStatuses(status, typing) ==
    status \notin {"DISABLED", "RETIRED"} /\ typing.dialog # "DISABLED"
FewCommands ==
    /\ TwoStatuses(stored'.status, inputs')
    /\ \A p \in Presses : presses'[p].step = "SENT" =>
          presses'[p].command \notin {"rotate-token", "RETIRED"}

ComponentsInit ==
    /\ part \in Parts
    /\ IF part = "SCORING" THEN ScoringInit ELSE ScoringAtRest
    /\ DeliveryInit /\ LinkInit /\ SessionsInit /\ LoginInit /\ KeysInit
    /\ SecretInit /\ IdempotencyInit /\ AlertsInit /\ RulesInit /\ ParsingInit /\ TotpInit
    /\ IF part = "PAGING" THEN PagingInit ELSE PagingAtRest
    /\ IF part = "FIELDS" THEN FieldsInit ELSE FieldsAtRest
    /\ IF part = "ANALYTICS" THEN AnalyticsInit ELSE AnalyticsAtRest
    /\ LimitInit /\ (part # "LIMIT" => failClosed)
    /\ ConsoleInit /\ TwoStatuses(stored.status, inputs) /\ (part # "CONSOLE" => pageKind = "FORM")

(* No sweep tells a DISABLED company from a SUSPENDED one.                  *)
NoneDisabled == endpoint'.status # "DISABLED"

(* A bound: of the answers to refreshes those for one session get lost.    *)
OneLoss == \A a, b \in lostAnswers' : a = b

ComponentsNext ==
    /\ UNCHANGED part
    /\ IF part = "SCORING" THEN Run ELSE UNCHANGED vars
    /\ IF part = "DELIVERY" THEN DeliveryNext /\ NoneDisabled ELSE UNCHANGED deliveryVars
    /\ IF part = "LINK" THEN LinkNext ELSE UNCHANGED linkVars
    /\ IF part = "SESSIONS" THEN SessionsNext /\ OneLoss ELSE UNCHANGED sessionVars
    /\ IF part = "LOGIN" THEN LoginNext ELSE UNCHANGED loginVars
    /\ IF part = "KEYS" THEN KeysNext ELSE UNCHANGED keyVars
    /\ IF part = "SECRET" THEN SecretNext ELSE UNCHANGED secretVars
    /\ IF part = "IDEMPOTENCY" THEN IdempotencyNext ELSE UNCHANGED idempotencyVars
    /\ IF part = "LIMIT" THEN LimitNext ELSE UNCHANGED limitVars
    /\ IF part = "ALERTS" THEN AlertsNext ELSE UNCHANGED alertVars
    /\ IF part = "RULES" THEN RulesNext ELSE UNCHANGED ruleVars
    /\ IF part = "PAGING" THEN PagingNext ELSE UNCHANGED pagingVars
    /\ IF part = "FIELDS" THEN FieldsNext ELSE UNCHANGED fieldVars
    /\ IF part = "PARSING" THEN ParsingNext ELSE UNCHANGED parsingVars
    /\ IF part = "TOTP" THEN TotpNext ELSE UNCHANGED totpVars
    /\ IF part = "ANALYTICS" THEN AnalyticsNext ELSE UNCHANGED analyticsVars
    /\ IF part = "CONSOLE" THEN ConsoleNext /\ FewCommands ELSE UNCHANGED consoleVars

ComponentsSpec == ComponentsInit /\ [][ComponentsNext]_componentVars

(* The component that runs has its type; the others stay as they began.    *)
ComponentsTypeOK ==
    /\ part = "DELIVERY" => DeliveryTypeOK
    /\ part = "LINK" => LinkTypeOK
    /\ part = "SESSIONS" => SessionsTypeOK
    /\ part = "LOGIN" => LoginTypeOK
    /\ part = "KEYS" => KeysTypeOK
    /\ part = "SECRET" => SecretTypeOK
    /\ part = "IDEMPOTENCY" => IdempotencyTypeOK
    /\ part = "LIMIT" => LimitTypeOK
    /\ part = "ALERTS" => AlertsTypeOK
    /\ part = "RULES" => RulesTypeOK
    /\ part = "PAGING" => PagingTypeOK
    /\ part = "FIELDS" => FieldsTypeOK
    /\ part = "PARSING" => ParsingTypeOK
    /\ part = "TOTP" => TotpTypeOK
    /\ part = "ANALYTICS" => AnalyticsTypeOK
    /\ part = "CONSOLE" => ConsoleTypeOK
=============================================================================
