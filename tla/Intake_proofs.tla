---------------------------- MODULE Intake_proofs ----------------------------
(***************************************************************************)
(* Proofs about what comes in from the phones: the row kept of an SMS, for *)
(* any senders, texts and rule versions; the fields read on either side;   *)
(* the token and the directives of a device, for any installations and     *)
(* requests; and the heuristic pass that weighs an SMS without TrxID, for  *)
(* any orders, message and settings.                                       *)
(***************************************************************************)
EXTENDS SmsParsing, SmsFields, DeviceLink, HeuristicScoring, SequenceTheorems,
        WellFoundedInduction, TLAPS

-----------------------------------------------------------------------------
(* SMS parsing                                                             *)

LEMMA LeastIsFirst ==
    ASSUME NEW S, S \subseteq Nat, S # {}
    PROVE  Least(S) \in S /\ \A j \in S : Least(S) <= j
<1> DEFINE less == OpToRel(<, Nat)
<1>1. IsWellFoundedOn(less, Nat)
  BY NatLessThanWellFounded
<1>2. PICK m \in S : \A j \in S : <<j, m>> \notin less
  BY <1>1, WFMin, Zenon
<1>3. ASSUME NEW j \in S
      PROVE  m <= j
  <2>1. <<j, m>> \notin less /\ j \in Nat /\ m \in Nat
    BY <1>2
  <2> QED
    BY <2>1 DEF OpToRel
<1> QED
  BY <1>3, Zenon DEF Least

(* The two engines agree on every list of rules that has none for the      *)
(* provider of an unlisted address (parse.ts, ParserEngine.kt).            *)
LEMMA EnginesAgreeOnRules ==
    ASSUME NEW rules, NEW t, NEW n \in Nat, DOMAIN rules = 1 .. n,
           \A i \in DOMAIN rules : rules[i].provider # "UNKNOWN"
    PROVE  PhoneParse(rules, t) = Parse(rules, t)
<1> DEFINE listing == {i \in DOMAIN rules : t.address \in rules[i].senders}
           provider == ResolveProvider(rules, t.address)
           own == {i \in DOMAIN rules : rules[i].provider = provider}
<1>1. CASE listing = {}
  <2>1. provider = "UNKNOWN" /\ own = {}
    BY <1>1 DEF ResolveProvider
  <2> QED
    BY <1>1, <2>1 DEF PhoneParse, Parse
<1>2. CASE listing # {}
  <2>1. Least(listing) \in listing
    BY <1>2, LeastIsFirst
  <2>2. provider = rules[Least(listing)].provider
    BY <1>2 DEF ResolveProvider
  <2>3. own # {}
    BY <2>1, <2>2
  <2> QED
    BY <1>2, <2>2, <2>3 DEF PhoneParse, Parse
<1> QED
  BY <1>1, <1>2

(* What every type of message of the bundled and of the later rules has:   *)
(* words to look for, and for a credit the words of the debits to refuse.  *)
TypesOK(rule) ==
    \A i \in DOMAIN rule.types :
        /\ rule.types[i].mustContain # {}
        /\ rule.types[i].direction = "CREDIT" => rule.types[i].mustNotContain = DebitWords
        /\ rule.types[i].type \in {"CASH_IN", "SEND_MONEY", "CASH_OUT", "SEND_MONEY_SENT", "PAYMENT"}

LEMMA RuleListShape ==
    ASSUME NEW v \in Versions
    PROVE  /\ DOMAIN RuleList(v) = 1 .. 2
           /\ RuleList(v)[1] = BkashRule(v) /\ RuleList(v)[2] = NagadRule
BY DEF RuleList

LEMMA RuleTypes ==
    ASSUME NEW v \in Versions
    PROVE  /\ TypesOK(BkashRule(v)) /\ DOMAIN BkashRule(v).types = 1 .. 5
           /\ TypesOK(NagadRule) /\ DOMAIN NagadRule.types = 1 .. 2
<1> DEFINE debit == {"CASH_OUT", "SEND_MONEY_SENT", "PAYMENT"}
           credit == {"CASH_IN", "SEND_MONEY"}
<1>1. ASSUME NEW type \in debit, NEW word
      PROVE  /\ DebitType(type, word).mustContain # {}
             /\ DebitType(type, word).direction # "CREDIT"
             /\ DebitType(type, word).type \in debit
  BY DEF DebitType
<1>2. ASSUME NEW type \in credit, NEW words, words # {}, NEW required
      PROVE  /\ CreditType(type, words, required).mustContain # {}
             /\ CreditType(type, words, required).mustNotContain = DebitWords
             /\ CreditType(type, words, required).type \in credit
  BY <1>2 DEF CreditType
<1>3. ReceivedWords(v) # {}
  BY DEF ReceivedWords
<1>4. TypesOK(BkashRule(v)) /\ DOMAIN BkashRule(v).types = 1 .. 5
  <2> DEFINE types == <<CreditType("CASH_IN", {"Cash In", "from", "TrxID"}, Required(v)),
                 CreditType("SEND_MONEY", ReceivedWords(v), Required(v)),
                 DebitType("CASH_OUT", "Cash Out"), DebitType("SEND_MONEY_SENT", "sent"),
                 DebitType("PAYMENT", "Payment")>>
  <2>1. BkashRule(v).types = types
    BY DEF BkashRule
  <2>2. DOMAIN types = 1 .. 5
    OBVIOUS
  <2>3. \A i \in 1 .. 5 :
           \/ \E type \in credit : \E words : words # {} /\ types[i] = CreditType(type, words, Required(v))
           \/ \E type \in debit : \E word : types[i] = DebitType(type, word)
    <3>1. types[1] = CreditType("CASH_IN", {"Cash In", "from", "TrxID"}, Required(v))
      OBVIOUS
    <3>2. types[2] = CreditType("SEND_MONEY", ReceivedWords(v), Required(v))
      OBVIOUS
    <3>3. /\ types[3] = DebitType("CASH_OUT", "Cash Out") /\ types[4] = DebitType("SEND_MONEY_SENT", "sent")
          /\ types[5] = DebitType("PAYMENT", "Payment")
      OBVIOUS
    <3>4. {"Cash In", "from", "TrxID"} # {}
      OBVIOUS
    <3> HIDE DEF types
    <3>5. TAKE i \in 1 .. 5
    <3>6. i = 1 \/ i = 2 \/ i = 3 \/ i = 4 \/ i = 5
      OBVIOUS
    <3> QED
      BY <1>3, <3>1, <3>2, <3>3, <3>4, <3>6, Zenon
  <2> HIDE DEF types
  <2> QED
    BY <1>1, <1>2, <2>1, <2>2, <2>3 DEF TypesOK
<1>5. TypesOK(NagadRule) /\ DOMAIN NagadRule.types = 1 .. 2
  <2> DEFINE types == <<DebitType("CASH_OUT", "Cash Out"), DebitType("SEND_MONEY_SENT", "sent")>>
  <2>1. NagadRule.types = types
    BY DEF NagadRule
  <2>2. DOMAIN types = 1 .. 2
    OBVIOUS
  <2>3. /\ types[1] = DebitType("CASH_OUT", "Cash Out")
        /\ types[2] = DebitType("SEND_MONEY_SENT", "sent")
    OBVIOUS
  <2> HIDE DEF types
  <2>4. \A i \in 1 .. 2 : \E type \in debit : \E word : types[i] = DebitType(type, word)
    <3>1. TAKE i \in 1 .. 2
    <3>2. i = 1 \/ i = 2
      OBVIOUS
    <3> QED
      BY <2>3, <3>2, Zenon
  <2> QED
    BY <1>1, <2>1, <2>2, <2>4 DEF TypesOK
<1> QED
  BY <1>4, <1>5

(* What one rule of a list makes of a text.                                *)
Legal(result, v, t) ==
    /\ result \in Results /\ result.provider # "NONE"
    /\ result.provider = "BKASH" => result.version = v
    /\ t.words = {} \/ t.words \cap DebitWords # {} => result.status \notin {"PARSED", "PARTIAL"}

LEMMA ParseIsLegal ==
    ASSUME NEW v \in Versions, NEW t, t.found \subseteq PatternKeys
    PROVE  Legal(Parse(RuleList(v), t), v, t)
<1> DEFINE rules == RuleList(v)
           provider == ResolveProvider(rules, t.address)
           own == {i \in DOMAIN rules : rules[i].provider = provider}
           rule == rules[Least(own)]
           fitting == {i \in DOMAIN rule.types : Applies(rule.types[i], t.words)}
           type == rule.types[Least(fitting)]
           result == Parse(rules, t)
<1>0. DOMAIN rules = 1 .. 2 /\ rules[1] = BkashRule(v) /\ rules[2] = NagadRule
  BY RuleListShape
<1>1. /\ BkashRule(v).provider = "BKASH" /\ BkashRule(v).version = v
      /\ NagadRule.provider = "NAGAD" /\ NagadRule.version = Bundled
      /\ Bundled \in Versions
  BY ParsingAssumption DEF BkashRule, NagadRule, Bundled, Versions
<1>2. provider \in {"BKASH", "NAGAD", "UNKNOWN"}
  <2> DEFINE listing == {i \in DOMAIN rules : t.address \in rules[i].senders}
  <2>1. CASE listing = {}
    BY <2>1 DEF ResolveProvider
  <2>2. CASE listing # {}
    <3>1. Least(listing) \in {1, 2}
      BY <1>0, <2>2, LeastIsFirst
    <3> QED
      BY <1>0, <1>1, <2>2, <3>1 DEF ResolveProvider
  <2> QED
    BY <2>1, <2>2
<1> HIDE DEF rules, provider
<1>3. CASE own = {}
  <2>1. result = Unparsed(provider, 0)
    BY <1>3 DEF Parse, provider
  <2>2. provider # "BKASH"
    BY <1>0, <1>1, <1>3
  <2> QED
    BY <1>2, <2>1, <2>2 DEF Legal, Unparsed, Result, Results, rules
<1>4. CASE own # {}
  <2>1. Least(own) \in own /\ Least(own) \in {1, 2}
    BY <1>0, <1>4, LeastIsFirst
  <2>2. /\ rule \in {BkashRule(v), NagadRule} /\ rule.provider = provider
        /\ rule.version \in Versions /\ (provider = "BKASH" => rule.version = v)
        /\ provider \in {"BKASH", "NAGAD"}
    BY <1>0, <1>1, <2>1
  <2>3. TypesOK(rule) /\ DOMAIN rule.types \subseteq Nat
    <3>1. 1 .. 5 \subseteq Nat /\ 1 .. 2 \subseteq Nat
      OBVIOUS
    <3> HIDE DEF rule
    <3>2. rule = BkashRule(v) \/ rule = NagadRule
      BY <2>2
    <3> QED
      BY <3>1, <3>2, RuleTypes, Zenon
  <2> HIDE DEF rule, own
  <2>4. CASE fitting = {}
    <3>1. result = Unparsed(provider, rule.version)
      BY <1>4, <2>4 DEF Parse, provider, rule, own
    <3> QED
      BY <2>2, <3>1 DEF Legal, Unparsed, Result, Results, rules
  <2>5. CASE fitting # {}
    <3>1. Least(fitting) \in fitting
      BY <2>3, <2>5, LeastIsFirst
    <3>2. /\ Applies(type, t.words) /\ type.mustContain # {}
          /\ type.direction = "CREDIT" => type.mustNotContain = DebitWords
          /\ type.type \in {"CASH_IN", "SEND_MONEY", "CASH_OUT", "SEND_MONEY_SENT", "PAYMENT"}
      BY <2>3, <3>1 DEF TypesOK
    <3>3. result = Judge(rule, type, t)
      BY <1>4, <2>5 DEF Parse, provider, rule, own
    <3>4. t.words = {} \/ t.words \cap DebitWords # {} => type.direction # "CREDIT"
      BY <3>2 DEF Applies
    <3> HIDE DEF type, result
    <3>5. CASE type.direction = "CREDIT"
      BY <2>2, <3>2, <3>3, <3>4, <3>5 DEF Judge, ExtractFields, Legal, Result, Results, rules, result
    <3>6. CASE type.direction # "CREDIT"
      BY <2>2, <3>2, <3>3, <3>6 DEF Judge, Legal, Result, Results, rules, result
    <3> QED
      BY <3>5, <3>6 DEF rules, result
  <2> QED
    BY <2>4, <2>5
<1> QED
  BY <1>3, <1>4


(* A text arrives before it is heard, and is heard before it is uploaded.  *)
TextFirst == inbox = "NEW" => queued = NotQueued
HeardFirst == queued = NotQueued => log = NotLogged

(* What the phone queues is what the bundled rules make of the text.       *)
QueuedIsParsed == queued # NotQueued => queued = PhoneParse(RuleList(Bundled), text)

(* What the server keeps is what some version made of the text it had.     *)
LoggedIsParsed ==
    /\ log # NotLogged =>
          \E v \in Versions :
             log.result = Parse(RuleList(v), IF log.blind THEN RedactedText ELSE text)
    /\ log.blind => log.redacted

ParsingInv == ParsingTypeOK /\ TextFirst /\ HeardFirst /\ QueuedIsParsed /\ LoggedIsParsed

LEMMA VersionsHaveBundled == Bundled \in Versions /\ Versions \subseteq Nat
BY ParsingAssumption DEF Bundled, Versions

LEMMA EmptyIsLegal == NotQueued \in Results /\ NotLogged.result = NotQueued
BY DEF NotQueued, NotLogged, Unparsed, Result, Results, NoType

LEMMA SameHint ==
    ASSUME NEW v \in Versions, NEW t
    PROVE  PhoneParse(RuleList(v), t) = Parse(RuleList(v), t)
<1>1. \A i \in 1 .. 2 : i = 1 \/ i = 2
  OBVIOUS
<1>2. BkashRule(v).provider # "UNKNOWN" /\ NagadRule.provider # "UNKNOWN"
  BY DEF BkashRule, NagadRule
<1>3. \A i \in DOMAIN RuleList(v) : RuleList(v)[i].provider # "UNKNOWN"
  BY <1>1, <1>2, RuleListShape
<1>4. 2 \in Nat
  OBVIOUS
<1> QED
  BY <1>3, <1>4, RuleListShape, EnginesAgreeOnRules

(* Without rules no sender is allowed: what is captured is parsed with the *)
(* bundled ones.                                                           *)
LEMMA CapturedIsParsed ==
    ASSUME ParsingTypeOK, NEW t \in SmsTexts \cup {NoText}, NEW address, Allows(Loaded, address)
    PROVE  /\ Capture(t) = IF queued = NotQueued THEN PhoneParse(RuleList(Bundled), t) ELSE queued
           /\ Capture(t) \in Results
<1>1. Loaded = RuleList(Bundled)
  BY DEF Loaded, Allows
<1>2. t.found \subseteq PatternKeys
  BY DEF SmsTexts, NoText
<1>3. PhoneParse(RuleList(Bundled), t) \in Results
  BY <1>2, VersionsHaveBundled, SameHint, ParseIsLegal DEF Legal
<1> QED
  BY <1>1, <1>3 DEF Capture, ParsingTypeOK

LEMMA ParsingInitInv == ParsingInit => ParsingInv
<1> SUFFICES ASSUME ParsingInit
             PROVE  ParsingInv
  OBVIOUS
<1> USE EmptyIsLegal, VersionsHaveBundled DEF ParsingInit
<1>1. log \in [result : Results, redacted : BOOLEAN, linked : BOOLEAN, blind : BOOLEAN]
  BY DEF NotLogged
<1>2. ParsingTypeOK
  BY <1>1 DEF ParsingTypeOK
<1>3. TextFirst /\ HeardFirst /\ QueuedIsParsed
  BY DEF TextFirst, HeardFirst, QueuedIsParsed
<1>4. LoggedIsParsed
  BY DEF LoggedIsParsed, NotLogged
<1> QED
  BY <1>2, <1>3, <1>4 DEF ParsingInv

LEMMA ParsingStep == ParsingInv /\ [ParsingNext]_parsingVars => ParsingInv'
<1> SUFFICES ASSUME ParsingInv, [ParsingNext]_parsingVars
             PROVE  ParsingInv'
  OBVIOUS
<1> USE DEF ParsingInv
<1>1. /\ log \in [result : Results, redacted : BOOLEAN, linked : BOOLEAN, blind : BOOLEAN]
      /\ text \in SmsTexts \cup {NoText} /\ text.found \subseteq PatternKeys
      /\ active \in Versions /\ queued \in Results
  BY DEF ParsingTypeOK, SmsTexts, NoText
(* Steps that change only the phone's process.                             *)
<1>2. ASSUME UNCHANGED <<inbox, text, queued, log>>, phone' \in {"DOWN", "BARE", "LOADED"},
             active' \in Versions
      PROVE  ParsingInv'
  BY <1>2 DEF ParsingTypeOK, TextFirst, HeardFirst, QueuedIsParsed, LoggedIsParsed, RedactedText
<1>3. CASE StartProcess \/ LoadRules \/ ProcessKilled
  <2>1. phone' \in {"DOWN", "BARE", "LOADED"} /\ active' \in Versions
    BY <1>1, <1>3 DEF StartProcess, LoadRules, ProcessKilled
  <2> QED
    BY <1>2, <1>3, <2>1 DEF StartProcess, LoadRules, ProcessKilled
<1>4. ASSUME NEW version \in Versions, ActivateRule(version)
      PROVE  ParsingInv'
  BY <1>2, <1>4 DEF ActivateRule, ParsingTypeOK
<1>5. ASSUME NEW t \in SmsTexts, NEW heard \in BOOLEAN, OnReceive(t, heard)
      PROVE  ParsingInv'
  <2>1. queued = NotQueued /\ log = NotLogged
    BY <1>5 DEF OnReceive, TextFirst, HeardFirst
  <2>2. queued' \in {NotQueued, PhoneParse(RuleList(Bundled), t)} /\ queued' \in Results
    BY <1>1, <1>5, <2>1, CapturedIsParsed DEF OnReceive
  <2>3. ParsingTypeOK'
    BY <1>5, <2>2 DEF OnReceive, ParsingTypeOK
  <2>4. TextFirst' /\ HeardFirst' /\ QueuedIsParsed'
    BY <1>5, <2>1, <2>2 DEF OnReceive, TextFirst, HeardFirst, QueuedIsParsed
  <2>5. LoggedIsParsed'
    BY <1>5, <2>1 DEF OnReceive, LoggedIsParsed, NotLogged
  <2> QED
    BY <2>3, <2>4, <2>5
<1>6. CASE ScanInbox
  <2>1. queued' # queued => queued = NotQueued /\ queued' = PhoneParse(RuleList(Bundled), text)
    BY <1>1, <1>6, CapturedIsParsed DEF ScanInbox
  <2>2. queued' \in Results
    BY <1>1, <1>6, CapturedIsParsed DEF ScanInbox
  <2>3. ParsingTypeOK'
    BY <1>6, <2>2 DEF ScanInbox, ParsingTypeOK
  <2>4. TextFirst' /\ HeardFirst' /\ QueuedIsParsed'
    BY <1>6, <2>1 DEF ScanInbox, TextFirst, HeardFirst, QueuedIsParsed
  <2>5. LoggedIsParsed'
    BY <1>6 DEF ScanInbox, LoggedIsParsed, RedactedText
  <2> QED
    BY <2>3, <2>4, <2>5
<1>7. CASE PassWindow
  BY <1>7 DEF PassWindow, ParsingTypeOK, TextFirst, HeardFirst, QueuedIsParsed, LoggedIsParsed, RedactedText
(* The steps of the server: the log.                                       *)
<1>8. ASSUME UNCHANGED <<phone, inbox, text, queued, active>>, queued # NotQueued,
             log' \in [result : Results, redacted : BOOLEAN, linked : BOOLEAN, blind : BOOLEAN],
             LoggedIsParsed'
      PROVE  ParsingInv'
  BY <1>8 DEF ParsingTypeOK, TextFirst, HeardFirst, QueuedIsParsed
<1>9. CASE UploadSms
  <2>1. log' = [result |-> Extract(text), redacted |-> FALSE, linked |-> FALSE, blind |-> FALSE]
    BY <1>9 DEF UploadSms, NotLogged
  <2>2. Extract(text) \in Results
    BY <1>1, ParseIsLegal DEF Extract, Legal
  <2>3. LoggedIsParsed'
    BY <1>1, <1>9, <2>1 DEF UploadSms, LoggedIsParsed, Extract
  <2>4. log' \in [result : Results, redacted : BOOLEAN, linked : BOOLEAN, blind : BOOLEAN]
    BY <2>1, <2>2
  <2> QED
    BY <1>8, <1>9, <2>3, <2>4 DEF UploadSms
<1>10. CASE LinkSms
  <2>1. log # NotLogged
    BY <1>10 DEF LinkSms, NotLogged, NotQueued, Unparsed, Result
  <2>2. log' = [result |-> log.result, redacted |-> log.redacted, linked |-> TRUE, blind |-> log.blind]
    BY <1>1, <1>10 DEF LinkSms
  <2>3. LoggedIsParsed'
    BY <1>10, <2>1, <2>2 DEF LinkSms, LoggedIsParsed, RedactedText
  <2> QED
    BY <1>1, <1>8, <1>10, <2>1, <2>2, <2>3 DEF LinkSms, HeardFirst
<1>11. CASE RedactExpired
  <2>1. log' = [result |-> log.result, redacted |-> TRUE, linked |-> log.linked, blind |-> log.blind]
    BY <1>1, <1>11 DEF RedactExpired
  <2>2. LoggedIsParsed'
    BY <1>11, <2>1 DEF RedactExpired, LoggedIsParsed, RedactedText
  <2> QED
    BY <1>1, <1>8, <1>11, <2>1, <2>2 DEF RedactExpired, HeardFirst
<1>12. ASSUME NEW force \in BOOLEAN, Reparse(force)
      PROVE  ParsingInv'
  <2> DEFINE blind == log.blind \/ log.redacted
  <2>1. log' = [result |-> Extract(StoredText), redacted |-> log.redacted, linked |-> log.linked,
                blind |-> blind]
    BY <1>1, <1>12 DEF Reparse
  <2>2. StoredText = (IF blind THEN RedactedText ELSE text) /\ blind = log.redacted
    BY <1>1 DEF LoggedIsParsed, StoredText
  <2>3. RedactedText.found \subseteq PatternKeys
    BY <1>1 DEF RedactedText, SmsTexts, NoText
  <2>4. StoredText.found \subseteq PatternKeys
    BY <1>1, <2>2, <2>3
  <2>5. Extract(StoredText) \in Results
    BY <1>1, <2>4, ParseIsLegal DEF Extract, Legal
  <2>6. LoggedIsParsed'
    <3>1. log'.result = Parse(RuleList(active), IF log'.blind THEN RedactedText ELSE text)
      BY <2>1, <2>2 DEF Extract
    <3>2. log'.blind => log'.redacted
      BY <2>1, <2>2
    <3> QED
      BY <1>1, <1>12, <3>1, <3>2 DEF Reparse, LoggedIsParsed, RedactedText
  <2>7. blind \in BOOLEAN
    BY <1>1
  <2> HIDE DEF blind
  <2>8. log' \in [result : Results, redacted : BOOLEAN, linked : BOOLEAN, blind : BOOLEAN]
    BY <1>1, <2>1, <2>5, <2>7
  <2> QED
    BY <1>8, <1>12, <2>6, <2>8 DEF Reparse, HeardFirst
<1>13. CASE UNCHANGED parsingVars
  BY <1>13 DEF parsingVars, ParsingTypeOK, TextFirst, HeardFirst, QueuedIsParsed, LoggedIsParsed, RedactedText
<1> QED
  BY <1>3, <1>4, <1>5, <1>6, <1>7, <1>9, <1>10, <1>11, <1>12, <1>13 DEF ParsingNext

LEMMA ParsingHolds == ParsingSpec => []ParsingInv
BY ParsingInitInv, ParsingStep, PTL DEF ParsingSpec

(* NoCreditFromDebit: whatever else a debit's text says, and whichever     *)
(* rules are or were active, neither side makes a credit of it.            *)
THEOREM DebitIsNoCredit == ParsingSpec => []NoCreditFromDebit
<1>1. ParsingInv => NoCreditFromDebit
  <2> SUFFICES ASSUME ParsingInv, text.words \cap DebitWords # {}
               PROVE  {queued.status, log.result.status} \cap {"PARSED", "PARTIAL"} = {}
    BY DEF NoCreditFromDebit
  <2> DEFINE credits == {"PARSED", "PARTIAL"}
  <2>1. NotQueued.status \notin credits
    BY DEF NotQueued, Unparsed, Result
  <2>2. text.found \subseteq PatternKeys /\ RedactedText.found = {} /\ RedactedText.words = {}
    BY DEF ParsingInv, ParsingTypeOK, SmsTexts, NoText, RedactedText
  <2>3. \A v \in Versions : /\ Parse(RuleList(v), text).status \notin credits
                            /\ Parse(RuleList(v), RedactedText).status \notin credits
    BY <2>2, ParseIsLegal DEF Legal
  <2>4. queued.status \notin credits
    BY <2>1, <2>3, VersionsHaveBundled, SameHint DEF ParsingInv, QueuedIsParsed
  <2>5. log.result.status \notin credits
    BY <2>1, <2>3, EmptyIsLegal DEF ParsingInv, LoggedIsParsed
  <2> QED
    BY <2>4, <2>5
<1> QED
  BY <1>1, ParsingHolds, PTL

(* RecordIsReproducible: the row names the version that makes it again     *)
(* from the text, and the bundled version gave the phone the same.         *)
THEOREM RowIsReproducible == ParsingSpec => []RecordIsReproducible
<1>1. ParsingInv => RecordIsReproducible
  <2> SUFFICES ASSUME ParsingInv, log # NotLogged, ~log.blind
               PROVE  \E v \in Versions :
                         /\ log.result = Parse(RuleList(v), text)
                         /\ log.result.provider = "BKASH" => log.result.version = v
                         /\ v = Bundled => log.result = queued
    BY DEF RecordIsReproducible
  <2>1. PICK v \in Versions : log.result = Parse(RuleList(v), text)
    BY DEF ParsingInv, LoggedIsParsed
  <2>2. text.found \subseteq PatternKeys
    BY DEF ParsingInv, ParsingTypeOK, SmsTexts, NoText
  <2>3. log.result.provider = "BKASH" => log.result.version = v
    BY <2>1, <2>2, ParseIsLegal DEF Legal
  <2>4. queued = PhoneParse(RuleList(Bundled), text)
    BY DEF ParsingInv, HeardFirst, QueuedIsParsed
  <2>5. v = Bundled => log.result = queued
    BY <2>1, <2>4, SameHint
  <2> QED
    BY <2>1, <2>3, <2>5
<1> QED
  BY <1>1, ParsingHolds, PTL

(* The reconciles scan only in a process that has its rules.               *)
ScansWithRules == ScanInbox => phone = "LOADED"
RuledSpec == ParsingInit /\ [][ParsingNext /\ ScansWithRules]_parsingVars

SeenIsQueued ==
    inbox \in {"SCANNED", "PAST"} /\ Allows(RuleList(Bundled), text.address) => queued # NotQueued

LEMMA SeenStaysQueued ==
    ASSUME ParsingInv, SeenIsQueued, [ParsingNext /\ ScansWithRules]_parsingVars
    PROVE  SeenIsQueued'
<1> DEFINE allowed == Allows(RuleList(Bundled), text.address)
<1>0. ParsingTypeOK /\ text \in SmsTexts \cup {NoText}
  BY DEF ParsingInv, ParsingTypeOK
<1>1. CASE ScanInbox /\ phone = "LOADED"
  <2>1. Loaded = RuleList(Bundled) /\ text' = text
    BY <1>1 DEF Loaded, ScanInbox
  <2>2. ASSUME allowed
        PROVE  queued' # NotQueued
    <3>1. queued' = Capture(text)
      BY <1>1, <2>1, <2>2 DEF ScanInbox
    <3>2. Capture(text) = IF queued = NotQueued THEN PhoneParse(RuleList(Bundled), text) ELSE queued
      BY <1>0, <2>1, <2>2, CapturedIsParsed
    <3>3. PhoneParse(RuleList(Bundled), text).provider # "NONE"
      <4>1. text.found \subseteq PatternKeys
        BY <1>0 DEF SmsTexts, NoText
      <4> QED
        BY <4>1, VersionsHaveBundled, SameHint, ParseIsLegal DEF Legal
    <3>4. NotQueued.provider = "NONE"
      BY DEF NotQueued, Unparsed, Result
    <3> QED
      BY <3>1, <3>2, <3>3, <3>4
  <2>3. allowed' <=> allowed
    BY <2>1
  <2> HIDE DEF allowed
  <2> QED
    BY <2>2, <2>3 DEF SeenIsQueued, allowed
<1>2. CASE /\ inbox' \in {"SCANNED", "PAST"} => inbox \in {"SCANNED", "PAST"}
           /\ text' = text /\ queued' = queued
  BY <1>2 DEF SeenIsQueued
<1>3. ASSUME NEW t \in SmsTexts, NEW heard \in BOOLEAN, OnReceive(t, heard)
      PROVE  SeenIsQueued'
  <2>1. inbox' = "RECENT"
    BY <1>3 DEF OnReceive
  <2> QED
    BY <2>1 DEF SeenIsQueued
<1>4. CASE \/ StartProcess \/ LoadRules \/ ProcessKilled \/ PassWindow
           \/ UploadSms \/ LinkSms \/ RedactExpired \/ UNCHANGED parsingVars
           \/ \E version \in Versions : ActivateRule(version)
           \/ \E force \in BOOLEAN : Reparse(force)
  <2>1. /\ inbox' \in {"SCANNED", "PAST"} => inbox \in {"SCANNED", "PAST"}
        /\ text' = text /\ queued' = queued
    BY <1>4 DEF StartProcess, LoadRules, ProcessKilled, PassWindow, UploadSms, LinkSms,
       RedactExpired, ActivateRule, Reparse, parsingVars
  <2> QED
    BY <1>2, <2>1
<1> QED
  BY <1>1, <1>3, <1>4 DEF ParsingNext, ScansWithRules

(* "THIS is the guarantee" (InboxScanner.kt:14), where a process scans     *)
(* only once it has its rules: a provider's message that was in the inbox  *)
(* while it was scanned is queued, whether or not its broadcast was heard. *)
THEOREM RuledScanQueues == RuledSpec => []ScannedIsQueued
<1>1. RuledSpec => ParsingSpec
  BY PTL DEF RuledSpec, ParsingSpec
<1>2. ParsingInit => SeenIsQueued
  BY DEF ParsingInit, SeenIsQueued
<1>3. ParsingInv /\ SeenIsQueued /\ [ParsingNext /\ ScansWithRules]_parsingVars => SeenIsQueued'
  BY SeenStaysQueued
<1>4. SeenIsQueued => ScannedIsQueued
  BY DEF SeenIsQueued, ScannedIsQueued
<1> QED
  BY <1>1, <1>2, <1>3, <1>4, ParsingHolds, PTL DEF RuledSpec

-----------------------------------------------------------------------------
(* Enrolment, heartbeat and token rotation                                 *)

(* What the step of a call says about its other fields.                    *)
LEMMA CallShape ==
    ASSUME LinkTypeOK, NEW c \in Calls
    PROVE  /\ Busy(c) => calls[c].install \in Installs
           /\ calls[c].step = "CLEAR" => calls[c].flags \subseteq Flags
           /\ calls[c].step = "REPLACE" => calls[c].was \in Token
           /\ calls[c].step = "ANSWER" =>
                 \/ calls[c].op = "BEAT" /\ calls[c].flags \subseteq Flags
                 \/ calls[c].op = "TOKEN" /\ calls[c].token \in Token
<1>1. calls[c] \in CallRecord
  BY DEF LinkTypeOK
<1> QED
  BY <1>1 DEF CallRecord, Busy

LEMMA CallRecords ==
    ASSUME NEW i \in Installs, NEW flags \in SUBSET Flags, NEW token \in Token
    PROVE  /\ FreeCall \in CallRecord
           /\ \A s \in {"COUNTED", "KNOWN", "BEAT", "ROTATE", "REFUSED"} :
                 [step |-> s, install |-> i] \in CallRecord
           /\ [step |-> "CLEAR", install |-> i, flags |-> flags] \in CallRecord
           /\ [step |-> "REPLACE", install |-> i, was |-> token] \in CallRecord
           /\ [step |-> "ANSWER", install |-> i, op |-> "BEAT", flags |-> flags] \in CallRecord
           /\ [step |-> "ANSWER", install |-> i, op |-> "TOKEN", token |-> token] \in CallRecord
BY DEF CallRecord, FreeCall

LEMMA Returned ==
    ASSUME LinkTypeOK, NEW c \in Calls, NEW answer \in CallRecord, Return(c, answer)
    PROVE  /\ calls' \in [Calls -> CallRecord]
           /\ calls' = [calls EXCEPT ![c] = IF Awaited(c) THEN answer ELSE FreeCall]
BY DEF LinkTypeOK, Return, Proceed, CallRecord, FreeCall

(* Carrying out a directive, or none.                                      *)
LEMMA Carried ==
    ASSUME LinkTypeOK, NEW i \in Installs, NEW f \in Flags, CarryOut(i, f)
    PROVE  /\ directives' \in [Installs -> [requested : [Flags -> Nat], done : [Flags -> Nat]]]
           /\ \A x \in Installs, g \in Flags :
                 /\ directives'[x].requested[g] = directives[x].requested[g]
                 /\ directives'[x].done[g] =
                       IF x = i /\ g = f THEN directives[x].done[g] + 1 ELSE directives[x].done[g]
<1>1. directives \in [Installs -> [requested : [Flags -> Nat], done : [Flags -> Nat]]]
  BY DEF LinkTypeOK
<1> DEFINE done == [directives[i].done EXCEPT ![f] = @ + 1]
           new == [requested |-> directives[i].requested, done |-> done]
<1>2. directives' = [directives EXCEPT ![i] = new]
  <2>1. directives' = [directives EXCEPT ![i] = [directives[i] EXCEPT !.done = done]]
    BY <1>1 DEF CarryOut
  <2>2. [directives[i] EXCEPT !.done = done] = new
    <3>1. directives[i] \in [requested : [Flags -> Nat], done : [Flags -> Nat]]
      BY <1>1
    <3> HIDE DEF done
    <3> QED
      BY <3>1
  <2> QED
    BY <2>1, <2>2
<1>3. directives[i].done \in [Flags -> Nat] /\ directives[i].requested \in [Flags -> Nat]
  BY <1>1
<1>4. done \in [Flags -> Nat] /\ \A g \in Flags :
         done[g] = IF g = f THEN directives[i].done[g] + 1 ELSE directives[i].done[g]
  BY <1>3
<1> HIDE DEF done
<1>5. new \in [requested : [Flags -> Nat], done : [Flags -> Nat]]
  BY <1>3, <1>4
<1>6. new.requested = directives[i].requested /\ new.done = done
  OBVIOUS
<1> HIDE DEF new
<1>7. \A x \in Installs : directives'[x] = IF x = i THEN new ELSE directives[x]
  BY <1>1, <1>2
<1> QED
  BY <1>1, <1>2, <1>4, <1>5, <1>6, <1>7

LEMMA Worked ==
    ASSUME LinkTypeOK, NEW i \in Installs, NEW actions, DoWork(i, actions)
    PROVE  /\ directives' \in [Installs -> [requested : [Flags -> Nat], done : [Flags -> Nat]]]
           /\ \A x \in Installs, g \in Flags :
                 /\ directives'[x].requested[g] = directives[x].requested[g]
                 /\ directives'[x].done[g] =
                       IF x = i /\ g = "FORCE_SYNC" /\ "RUN_MANUAL_SYNC" \in actions
                       THEN directives[x].done[g] + 1 ELSE directives[x].done[g]
<1>1. "FORCE_SYNC" \in Flags
  BY DEF Flags
<1>2. CASE "RUN_MANUAL_SYNC" \in actions
  BY <1>1, <1>2, Carried DEF DoWork
<1>3. CASE "RUN_MANUAL_SYNC" \notin actions
  BY <1>3 DEF DoWork, LinkTypeOK
<1> QED
  BY <1>2, <1>3

LEMMA RequestMade ==
    ASSUME LinkTypeOK, NEW i \in Installs, NEW f \in Flags, RequestDirective(i, f)
    PROVE  /\ directives' \in [Installs -> [requested : [Flags -> Nat], done : [Flags -> Nat]]]
           /\ \A x \in Installs, g \in Flags :
                 /\ directives'[x].done[g] = directives[x].done[g]
                 /\ directives'[x].requested[g] =
                       IF x = i /\ g = f THEN directives[x].requested[g] + 1 ELSE directives[x].requested[g]
<1>1. directives \in [Installs -> [requested : [Flags -> Nat], done : [Flags -> Nat]]]
  BY DEF LinkTypeOK
<1> DEFINE requested == [directives[i].requested EXCEPT ![f] = @ + 1]
           new == [requested |-> requested, done |-> directives[i].done]
<1>2. directives' = [directives EXCEPT ![i] = new]
  <2>1. directives' = [directives EXCEPT ![i] = [directives[i] EXCEPT !.requested = requested]]
    BY <1>1 DEF RequestDirective
  <2>2. [directives[i] EXCEPT !.requested = requested] = new
    <3>1. directives[i] \in [requested : [Flags -> Nat], done : [Flags -> Nat]]
      BY <1>1
    <3> HIDE DEF requested
    <3> QED
      BY <3>1
  <2> QED
    BY <2>1, <2>2
<1>3. directives[i].done \in [Flags -> Nat] /\ directives[i].requested \in [Flags -> Nat]
  BY <1>1
<1>4. requested \in [Flags -> Nat] /\ \A g \in Flags :
         requested[g] = IF g = f THEN directives[i].requested[g] + 1 ELSE directives[i].requested[g]
  BY <1>3
<1> HIDE DEF requested
<1>5. new \in [requested : [Flags -> Nat], done : [Flags -> Nat]]
  BY <1>3, <1>4
<1>6. new.requested = requested /\ new.done = directives[i].done
  OBVIOUS
<1> HIDE DEF new
<1>7. \A x \in Installs : directives'[x] = IF x = i THEN new ELSE directives[x]
  BY <1>1, <1>2
<1> QED
  BY <1>1, <1>2, <1>4, <1>5, <1>6, <1>7

LEMMA LinkInitTyped == LinkInit => LinkTypeOK
<1> SUFFICES ASSUME LinkInit
             PROVE  LinkTypeOK
  OBVIOUS
<1>1. 0 \in Token /\ FreeCall \in CallRecord
  BY LinkAssumption DEF Token, CallRecord, FreeCall
<1>2. apps \in [Installs -> [token : Token, waiting : Calls \cup {NoCall},
                           todo : SUBSET DirectiveAction, wiped : BOOLEAN]]
  BY <1>1 DEF LinkInit
<1>3. devices \in [Installs -> Device]
  BY <1>1 DEF LinkInit, NoDevice, Device
<1>4. calls \in [Calls -> CallRecord] /\ tokensIssued \in Token
  BY <1>1 DEF LinkInit
<1>5. unanswered \in [Installs -> SUBSET {"ENROL", "ROTATE"}]
  BY DEF LinkInit
<1>6. directives \in [Installs -> [requested : [Flags -> Nat], done : [Flags -> Nat]]]
  BY DEF LinkInit
<1> QED
  BY <1>2, <1>3, <1>4, <1>5, <1>6 DEF LinkTypeOK

LEMMA RowEnrolled ==
    ASSUME NEW row \in Device, NEW hash, NEW status, NEW new,
           new = [row EXCEPT !.hash = hash, !.status = status]
    PROVE  new = [status |-> status, hash |-> hash, prev |-> row.prev, grace |-> row.grace,
                  flags |-> row.flags]
<1> DEFINE one == [row EXCEPT !.hash = hash]
<1>1. one = [status |-> row.status, hash |-> hash, prev |-> row.prev, grace |-> row.grace,
             flags |-> row.flags]
  BY DEF Device
<1>2. new = [one EXCEPT !.status = status]
  BY DEF Device
<1> HIDE DEF one
<1> QED
  BY <1>1, <1>2

LEMMA RowRotated ==
    ASSUME NEW row \in Device, NEW hash, NEW prev, NEW new,
           new = [row EXCEPT !.prev = prev, !.hash = hash, !.grace = TRUE]
    PROVE  new = [status |-> row.status, hash |-> hash, prev |-> prev, grace |-> TRUE,
                  flags |-> row.flags]
<1> DEFINE one == [row EXCEPT !.prev = prev]
           two == [one EXCEPT !.hash = hash]
<1>1. one = [status |-> row.status, hash |-> row.hash, prev |-> prev, grace |-> row.grace,
             flags |-> row.flags]
  BY DEF Device
<1>2. new = [two EXCEPT !.grace = TRUE]
  BY DEF Device
<1> HIDE DEF one
<1>3. two = [status |-> row.status, hash |-> hash, prev |-> prev, grace |-> row.grace,
             flags |-> row.flags]
  BY <1>1
<1> HIDE DEF two
<1> QED
  BY <1>2, <1>3

LEMMA RowFlags ==
    ASSUME NEW row \in Device, NEW flags, NEW new, new = [row EXCEPT !.flags = flags]
    PROVE  new = [status |-> row.status, hash |-> row.hash, prev |-> row.prev, grace |-> row.grace, flags |-> flags]
BY DEF Device

LEMMA RowSetTo ==
    ASSUME NEW row \in Device, NEW status, NEW new, new = [row EXCEPT !.status = status]
    PROVE  new = [status |-> status, hash |-> row.hash, prev |-> row.prev, grace |-> row.grace, flags |-> row.flags]
BY DEF Device

LEMMA RowGrace ==
    ASSUME NEW row \in Device, NEW new, new = [row EXCEPT !.grace = FALSE]
    PROVE  new = [status |-> row.status, hash |-> row.hash, prev |-> row.prev, grace |-> FALSE, flags |-> row.flags]
BY DEF Device

LEMMA RotatedWritten ==
    ASSUME LinkTypeOK, NEW i \in Installs, NEW hash \in Token, NEW prev \in Token,
           devices' = [devices EXCEPT ![i].prev = prev, ![i].hash = hash, ![i].grace = TRUE]
    PROVE  /\ devices' \in [Installs -> Device]
           /\ devices' = [devices EXCEPT ![i] =
                 [status |-> devices[i].status, hash |-> hash, prev |-> prev, grace |-> TRUE, flags |-> devices[i].flags]]
<1>1. devices \in [Installs -> Device] /\ devices[i] \in Device
  BY DEF LinkTypeOK
<1> DEFINE new == [devices[i] EXCEPT !.prev = prev, !.hash = hash, !.grace = TRUE]
<1>2. devices' = [devices EXCEPT ![i] = new]
  BY <1>1 DEF Device
<1>3. new = [status |-> devices[i].status, hash |-> hash, prev |-> prev, grace |-> TRUE, flags |-> devices[i].flags]
  BY <1>1, RowRotated
<1>4. new \in Device
  BY <1>1, <1>3 DEF Device, RowStatus
<1> HIDE DEF new
<1> QED
  BY <1>1, <1>2, <1>3, <1>4

LEMMA FlagsWritten ==
    ASSUME LinkTypeOK, NEW i \in Installs, NEW flags \in SUBSET Flags,
           devices' = [devices EXCEPT ![i].flags = flags]
    PROVE  /\ devices' \in [Installs -> Device]
           /\ devices' = [devices EXCEPT ![i] =
                 [status |-> devices[i].status, hash |-> devices[i].hash, prev |-> devices[i].prev, grace |-> devices[i].grace, flags |-> flags]]
<1>1. devices \in [Installs -> Device] /\ devices[i] \in Device
  BY DEF LinkTypeOK
<1> DEFINE new == [devices[i] EXCEPT !.flags = flags]
<1>2. devices' = [devices EXCEPT ![i] = new]
  BY <1>1 DEF Device
<1>3. new = [status |-> devices[i].status, hash |-> devices[i].hash, prev |-> devices[i].prev, grace |-> devices[i].grace, flags |-> flags]
  BY <1>1, RowFlags
<1>4. new \in Device
  BY <1>1, <1>3 DEF Device, RowStatus
<1> HIDE DEF new
<1> QED
  BY <1>1, <1>2, <1>3, <1>4

LEMMA StatusWritten ==
    ASSUME LinkTypeOK, NEW i \in Installs, NEW status \in RowStatus,
           devices' = [devices EXCEPT ![i].status = status]
    PROVE  /\ devices' \in [Installs -> Device]
           /\ devices' = [devices EXCEPT ![i] =
                 [status |-> status, hash |-> devices[i].hash, prev |-> devices[i].prev, grace |-> devices[i].grace, flags |-> devices[i].flags]]
<1>1. devices \in [Installs -> Device] /\ devices[i] \in Device
  BY DEF LinkTypeOK
<1> DEFINE new == [devices[i] EXCEPT !.status = status]
<1>2. devices' = [devices EXCEPT ![i] = new]
  BY <1>1 DEF Device
<1>3. new = [status |-> status, hash |-> devices[i].hash, prev |-> devices[i].prev, grace |-> devices[i].grace, flags |-> devices[i].flags]
  BY <1>1, RowSetTo
<1>4. new \in Device
  BY <1>1, <1>3 DEF Device, RowStatus
<1> HIDE DEF new
<1> QED
  BY <1>1, <1>2, <1>3, <1>4

LEMMA GraceWritten ==
    ASSUME LinkTypeOK, NEW i \in Installs,
           devices' = [devices EXCEPT ![i].grace = FALSE]
    PROVE  /\ devices' \in [Installs -> Device]
           /\ devices' = [devices EXCEPT ![i] =
                 [status |-> devices[i].status, hash |-> devices[i].hash, prev |-> devices[i].prev, grace |-> FALSE, flags |-> devices[i].flags]]
<1>1. devices \in [Installs -> Device] /\ devices[i] \in Device
  BY DEF LinkTypeOK
<1> DEFINE new == [devices[i] EXCEPT !.grace = FALSE]
<1>2. devices' = [devices EXCEPT ![i] = new]
  BY <1>1 DEF Device
<1>3. new = [status |-> devices[i].status, hash |-> devices[i].hash, prev |-> devices[i].prev, grace |-> FALSE, flags |-> devices[i].flags]
  BY <1>1, RowGrace
<1>4. new \in Device
  BY <1>1, <1>3 DEF Device, RowStatus
<1> HIDE DEF new
<1> QED
  BY <1>1, <1>2, <1>3, <1>4

StatusKept(status) == IF status = "ABSENT" THEN "ACTIVE" ELSE status

LEMMA EnrolledWritten ==
    ASSUME LinkTypeOK, NEW i \in Installs, NEW hash \in Token,
           devices' = [devices EXCEPT ![i].hash = hash, ![i].status = IF @ = "ABSENT" THEN "ACTIVE" ELSE @]
    PROVE  /\ devices' \in [Installs -> Device]
           /\ devices' = [devices EXCEPT ![i] =
                 [status |-> StatusKept(devices[i].status), hash |-> hash, prev |-> devices[i].prev, grace |-> devices[i].grace, flags |-> devices[i].flags]]
<1>1. devices \in [Installs -> Device] /\ devices[i] \in Device
  BY DEF LinkTypeOK
<1> DEFINE new == [devices[i] EXCEPT !.hash = hash, !.status = StatusKept(devices[i].status)]
<1>2. devices' = [devices EXCEPT ![i] = new]
  BY <1>1 DEF Device, StatusKept
<1>3. new = [status |-> StatusKept(devices[i].status), hash |-> hash, prev |-> devices[i].prev, grace |-> devices[i].grace, flags |-> devices[i].flags]
  BY <1>1, RowEnrolled
<1>4. new \in Device
  BY <1>1, <1>3 DEF Device, RowStatus, StatusKept
<1> HIDE DEF new
<1> QED
  BY <1>1, <1>2, <1>3, <1>4

(* An app at rest again, with another token or its own.                    *)
AppType == [token : Token, waiting : Calls \cup {NoCall}, todo : SUBSET DirectiveAction, wiped : BOOLEAN]

LEMMA AppRested ==
    ASSUME NEW app \in AppType, NEW new, new = [app EXCEPT !.waiting = NoCall, !.todo = {}]
    PROVE  new = [token |-> app.token, waiting |-> NoCall, todo |-> {}, wiped |-> app.wiped]
BY DEF AppType

LEMMA AppStored ==
    ASSUME NEW app \in AppType, NEW token, NEW new,
           new = [app EXCEPT !.token = token, !.waiting = NoCall, !.todo = {}]
    PROVE  new = [token |-> token, waiting |-> NoCall, todo |-> {}, wiped |-> app.wiped]
BY DEF AppType

LEMMA AppRests ==
    ASSUME LinkTypeOK, NEW i \in Installs, Rest(i)
    PROVE  /\ apps' \in [Installs -> AppType]
           /\ apps' = [apps EXCEPT ![i] =
                 [token |-> apps[i].token, waiting |-> NoCall, todo |-> {}, wiped |-> apps[i].wiped]]
<1>1. apps \in [Installs -> AppType] /\ apps[i] \in AppType
  BY DEF LinkTypeOK, AppType
<1> DEFINE new == [apps[i] EXCEPT !.waiting = NoCall, !.todo = {}]
<1>2. apps' = [apps EXCEPT ![i] = new]
  BY <1>1 DEF Rest
<1>3. new = [token |-> apps[i].token, waiting |-> NoCall, todo |-> {}, wiped |-> apps[i].wiped]
  BY <1>1, AppRested
<1>4. new \in AppType
  BY <1>1, <1>3 DEF AppType
<1> QED
  BY <1>1, <1>2, <1>3, <1>4

LEMMA AppStores ==
    ASSUME LinkTypeOK, NEW i \in Installs, NEW token \in Token,
           apps' = [apps EXCEPT ![i].token = token, ![i].waiting = NoCall, ![i].todo = {}]
    PROVE  /\ apps' \in [Installs -> AppType]
           /\ apps' = [apps EXCEPT ![i] =
                 [token |-> token, waiting |-> NoCall, todo |-> {}, wiped |-> apps[i].wiped]]
<1>1. apps \in [Installs -> AppType] /\ apps[i] \in AppType
  BY DEF LinkTypeOK, AppType
<1> DEFINE new == [apps[i] EXCEPT !.token = token, !.waiting = NoCall, !.todo = {}]
<1>2. apps' = [apps EXCEPT ![i] = new]
  BY <1>1
<1>3. new = [token |-> token, waiting |-> NoCall, todo |-> {}, wiped |-> apps[i].wiped]
  BY <1>1, AppStored
<1>4. new \in AppType
  BY <1>1, <1>3 DEF AppType
<1> HIDE DEF new
<1> QED
  BY <1>1, <1>2, <1>3, <1>4

LEMMA ComesToRest ==
    ASSUME LinkTypeOK, NEW i \in Installs, NEW c \in Calls,
           TokenAnswer(i, c) \/ Refused(i, c) \/ GiveUp(i, c)
    PROVE  /\ apps' \in [Installs -> AppType]
           /\ \A x \in Installs \ {i} : apps'[x] = apps[x]
           /\ apps'[i].waiting = NoCall /\ apps'[i].todo = {} /\ apps'[i].wiped = apps[i].wiped
           /\ TokenAnswer(i, c) => apps'[i].token = calls[c].token
           /\ Refused(i, c) \/ GiveUp(i, c) => apps'[i].token = apps[i].token
<1>1. apps \in [Installs -> AppType]
  BY DEF LinkTypeOK, AppType
<1>2. CASE TokenAnswer(i, c)
  <2>1. calls[c].token \in Token /\ calls[c].step = "ANSWER"
    BY <1>2, CallShape DEF TokenAnswer
  <2> DEFINE token == calls[c].token
  <2>2. token \in Token
    BY <2>1
  <2>3. apps' = [apps EXCEPT ![i].token = token, ![i].waiting = NoCall, ![i].todo = {}]
    BY <1>2 DEF TokenAnswer
  <2> HIDE DEF token
  <2>4. /\ apps' \in [Installs -> AppType]
        /\ apps' = [apps EXCEPT ![i] =
              [token |-> token, waiting |-> NoCall, todo |-> {}, wiped |-> apps[i].wiped]]
    BY <2>2, <2>3, AppStores
  <2>5. apps'[i] = [token |-> token, waiting |-> NoCall, todo |-> {}, wiped |-> apps[i].wiped]
    BY <1>1, <2>4
  <2>6. ~Refused(i, c) /\ (GiveUp(i, c) => token = apps[i].token)
    <3>1. ~Refused(i, c)
      BY <2>1 DEF Refused
    <3>2. ASSUME GiveUp(i, c)
          PROVE  token = apps[i].token
      <4>1. apps'[i].token = apps[i].token
        BY <1>1, <3>2, AppRests DEF GiveUp
      <4> QED
        BY <2>5, <4>1
    <3> QED
      BY <3>1, <3>2
  <2> QED
    BY <1>1, <2>4, <2>5, <2>6 DEF token
<1>3. CASE (Refused(i, c) \/ GiveUp(i, c)) /\ ~TokenAnswer(i, c)
  BY <1>1, <1>3, AppRests DEF Refused, GiveUp
<1> QED
  BY <1>2, <1>3

(* The parts of the type that a step of an app or of a call can disturb.   *)
AppsTyped == apps \in [Installs -> [token : Token, waiting : Calls \cup {NoCall},
                                     todo : SUBSET DirectiveAction, wiped : BOOLEAN]]
CallsTyped == calls \in [Calls -> CallRecord]
DevicesTyped == devices \in [Installs -> Device]

LEMMA LinkStepTyped == LinkTypeOK /\ [LinkNext]_linkVars => LinkTypeOK'
<1> SUFFICES ASSUME LinkTypeOK, [LinkNext]_linkVars
             PROVE  LinkTypeOK'
  OBVIOUS
<1>0. /\ AppsTyped /\ CallsTyped /\ DevicesTyped /\ tokensIssued \in Token
      /\ unanswered \in [Installs -> SUBSET {"ENROL", "ROTATE"}]
      /\ directives \in [Installs -> [requested : [Flags -> Nat], done : [Flags -> Nat]]]
      /\ FreeCall \in CallRecord
  BY DEF LinkTypeOK, AppsTyped, CallsTyped, DevicesTyped, CallRecord, FreeCall
<1>1. ASSUME NEW i \in Installs, NEW c \in Calls, Enrol(i, c)
      PROVE  LinkTypeOK'
  <2>1. PICK s \in {"REFUSED", "KNOWN", "COUNTED"} : Proceed(c, [step |-> s, install |-> i])
    <3> DEFINE row == devices[i]
               s == CASE row.status \in {"RETIRED", "BLOCKED"} -> "REFUSED"
                            [] row.status = "ACTIVE" -> "KNOWN"
                            [] Cardinality(Enrolled) >= MaxDevices -> "REFUSED"
                            [] OTHER -> "COUNTED"
    <3>1. Proceed(c, [install |-> i, step |-> s])
      BY <1>1 DEF Enrol
    <3>2. s \in {"REFUSED", "KNOWN", "COUNTED"}
      OBVIOUS
    <3> HIDE DEF s
    <3>3. [install |-> i, step |-> s] = [step |-> s, install |-> i]
      OBVIOUS
    <3> QED
      BY <3>1, <3>2, <3>3
  <2>2. [step |-> s, install |-> i] \in CallRecord
    BY CallRecords DEF CallRecord
  <2>3. CallsTyped'
    BY <1>0, <2>1, <2>2 DEF CallsTyped, Proceed
  <2>4. AppsTyped'
    BY <1>0, <1>1 DEF Enrol, WaitsFor, AppsTyped
  <2> QED
    BY <1>0, <1>1, <2>3, <2>4 DEF Enrol, LinkTypeOK, AppsTyped, CallsTyped
<1>2. ASSUME NEW c \in Calls, EnrolWrite(c)
      PROVE  LinkTypeOK'
  <2> DEFINE i == calls[c].install
  <2>1. i \in Installs
    BY <1>2, CallShape DEF EnrolWrite, Busy
  <2>2. CASE Return(c, Refusal(c)) /\ UNCHANGED <<devices, tokensIssued>>
    <3>1. Refusal(c) \in CallRecord
      BY <2>1 DEF Refusal, CallRecord
    <3>2. CallsTyped'
      BY <2>2, <3>1, Returned DEF CallsTyped
    <3> QED
      BY <1>0, <1>2, <2>2, <3>2 DEF EnrolWrite, LinkTypeOK, CallsTyped
  <2>3. CASE /\ devices' = [devices EXCEPT ![i].hash = NewToken,
                                 ![i].status = IF @ = "ABSENT" THEN "ACTIVE" ELSE @]
             /\ tokensIssued' = NewToken
             /\ Return(c, [step |-> "ANSWER", install |-> i, op |-> "TOKEN", token |-> NewToken])
    <3>1. NewToken \in Token
      BY <1>0, <1>2, LinkAssumption DEF EnrolWrite, NewToken, Token
    <3>2. DevicesTyped'
      BY <2>1, <2>3, <3>1, EnrolledWritten DEF DevicesTyped
    <3>3. [step |-> "ANSWER", install |-> i, op |-> "TOKEN", token |-> NewToken] \in CallRecord
      BY <2>1, <3>1, CallRecords
    <3>4. CallsTyped'
      BY <2>3, <3>3, Returned DEF CallsTyped
    <3> QED
      BY <1>0, <1>2, <2>3, <3>1, <3>2, <3>4 DEF EnrolWrite, LinkTypeOK, CallsTyped, DevicesTyped
  <2> QED
    BY <1>2, <2>2, <2>3 DEF EnrolWrite
<1>3. ASSUME NEW i \in Installs, NEW c \in Calls, Beat(i, c)
      PROVE  LinkTypeOK'
  <2>1. PICK s \in {"BEAT", "REFUSED"} : calls' = [calls EXCEPT ![c] = [install |-> i, step |-> s]]
    BY <1>3, Zenon DEF Beat, Proceed
  <2>2. [install |-> i, step |-> s] = [step |-> s, install |-> i]
    OBVIOUS
  <2>3. [step |-> s, install |-> i] \in CallRecord
    BY DEF CallRecord
  <2>4. CallsTyped'
    BY <1>0, <2>1, <2>2, <2>3 DEF CallsTyped
  <2>5. AppsTyped'
    BY <1>0, <1>3 DEF Beat, WaitsFor, AppsTyped
  <2> QED
    BY <1>0, <1>3, <2>4, <2>5 DEF Beat, LinkTypeOK, AppsTyped, CallsTyped
<1>4. ASSUME NEW c \in Calls, HeartbeatRead(c) \/ RotateRead(c)
      PROVE  LinkTypeOK'
  <2> DEFINE i == calls[c].install
  <2>1. i \in Installs
    BY <1>4, CallShape DEF HeartbeatRead, RotateRead, Busy
  <2>2. devices[i].flags \in SUBSET Flags /\ devices[i].hash \in Token
    BY <1>0, <2>1 DEF DevicesTyped, Device
  <2>3. /\ [step |-> "CLEAR", install |-> i, flags |-> devices[i].flags] \in CallRecord
        /\ [step |-> "REPLACE", install |-> i, was |-> devices[i].hash] \in CallRecord
    BY <2>1, <2>2 DEF CallRecord
  <2>4. CallsTyped'
    BY <1>0, <1>4, <2>3 DEF HeartbeatRead, RotateRead, Proceed, CallsTyped
  <2> QED
    BY <1>0, <1>4, <2>4 DEF HeartbeatRead, RotateRead, LinkTypeOK, CallsTyped
<1>5. ASSUME NEW c \in Calls, HeartbeatClear(c)
      PROVE  LinkTypeOK'
  <2> DEFINE i == calls[c].install
  <2>1. i \in Installs /\ calls[c].flags \in SUBSET Flags
    BY <1>5, CallShape DEF HeartbeatClear, Busy
  <2>2. DevicesTyped'
    <3>1. {} \in SUBSET Flags /\ devices' = [devices EXCEPT ![i].flags = {}]
      BY <1>5 DEF HeartbeatClear
    <3> QED
      BY <2>1, <3>1, FlagsWritten DEF DevicesTyped
  <2>3. [step |-> "ANSWER", install |-> i, op |-> "BEAT", flags |-> calls[c].flags] \in CallRecord
    BY <2>1 DEF CallRecord
  <2>4. CallsTyped'
    BY <1>5, <2>3, Returned DEF HeartbeatClear, CallsTyped
  <2> QED
    BY <1>0, <1>5, <2>2, <2>4 DEF HeartbeatClear, LinkTypeOK, CallsTyped, DevicesTyped
<1>6. ASSUME NEW i \in Installs, NEW c \in Calls, HeartbeatAnswer(i, c)
      PROVE  LinkTypeOK'
  <2> DEFINE actions == ActionsFor(calls[c].flags)
  <2>0. actions \in SUBSET DirectiveAction
    BY DEF ActionsFor
  <2> HIDE DEF actions
  <2>1. CASE /\ CarryOut(i, "ROTATE_TOKEN")
             /\ apps' = [apps EXCEPT ![i].todo = actions]
             /\ Proceed(c, [install |-> i,
                      step |-> IF Admits(devices[i], apps[i].token) THEN "ROTATE" ELSE "REFUSED"])
    <3>1. PICK s \in {"ROTATE", "REFUSED"} : calls' = [calls EXCEPT ![c] = [install |-> i, step |-> s]]
      BY <2>1, Zenon DEF Proceed
    <3>2. [install |-> i, step |-> s] = [step |-> s, install |-> i]
      OBVIOUS
    <3>3. [step |-> s, install |-> i] \in CallRecord
      BY DEF CallRecord
    <3>4. CallsTyped'
      BY <1>0, <3>1, <3>2, <3>3 DEF CallsTyped
    <3>5. AppsTyped'
      BY <1>0, <2>0, <2>1 DEF AppsTyped
    <3>6. directives' \in [Installs -> [requested : [Flags -> Nat], done : [Flags -> Nat]]]
      BY <2>1, Carried DEF Flags
    <3> QED
      BY <1>0, <1>6, <3>4, <3>5, <3>6 DEF HeartbeatAnswer, LinkTypeOK, AppsTyped, CallsTyped
  <2>2. CASE DoWork(i, actions) /\ Proceed(c, FreeCall) /\ WaitsFor(i, NoCall)
    <3>1. directives' \in [Installs -> [requested : [Flags -> Nat], done : [Flags -> Nat]]]
      BY <2>2, Worked
    <3>2. AppsTyped' /\ CallsTyped'
      BY <1>0, <2>2 DEF AppsTyped, CallsTyped, Proceed, WaitsFor
    <3> QED
      BY <1>0, <1>6, <3>1, <3>2 DEF HeartbeatAnswer, LinkTypeOK, AppsTyped, CallsTyped
  <2> QED
    BY <1>6, <2>1, <2>2 DEF HeartbeatAnswer, actions
<1>7. ASSUME NEW c \in Calls, RotateWrite(c)
      PROVE  LinkTypeOK'
  <2> DEFINE i == calls[c].install
  <2>1. i \in Installs /\ calls[c].was \in Token
    BY <1>7, CallShape DEF RotateWrite, Busy
  <2>2. NewToken \in Token
    BY <1>0, <1>7, LinkAssumption DEF RotateWrite, NewToken, Token
  <2>3. DevicesTyped'
    BY <1>7, <2>1, <2>2, RotatedWritten DEF RotateWrite, DevicesTyped
  <2>4. [step |-> "ANSWER", install |-> i, op |-> "TOKEN", token |-> NewToken] \in CallRecord
    BY <2>1, <2>2, CallRecords
  <2>5. CallsTyped'
    BY <1>7, <2>4, Returned DEF RotateWrite, CallsTyped
  <2> QED
    BY <1>0, <1>7, <2>2, <2>3, <2>5 DEF RotateWrite, LinkTypeOK, CallsTyped, DevicesTyped
<1>8. ASSUME NEW i \in Installs, NEW c \in Calls, TokenAnswer(i, c)
      PROVE  LinkTypeOK'
  <2>1. calls[c].token \in Token
    BY <1>8, CallShape DEF TokenAnswer
  <2>2. AppsTyped'
    BY <1>8, <2>1, AppStores DEF TokenAnswer, AppsTyped, AppType
  <2>4. CallsTyped'
    BY <1>0, <1>8 DEF TokenAnswer, Proceed, CallsTyped
  <2>3. directives' \in [Installs -> [requested : [Flags -> Nat], done : [Flags -> Nat]]]
    BY <1>8, Worked DEF TokenAnswer
  <2> QED
    BY <1>0, <1>8, <2>2, <2>3, <2>4 DEF TokenAnswer, LinkTypeOK, AppsTyped, CallsTyped
<1>9. ASSUME NEW i \in Installs, NEW c \in Calls, Refused(i, c)
      PROVE  LinkTypeOK'
  <2>1. AppsTyped'
    BY <1>9, AppRests DEF Refused, AppsTyped, AppType
  <2>3. CallsTyped'
    BY <1>0, <1>9 DEF Refused, Proceed, CallsTyped
  <2>2. directives' \in [Installs -> [requested : [Flags -> Nat], done : [Flags -> Nat]]]
    BY <1>9, Worked DEF Refused
  <2> QED
    BY <1>0, <1>9, <2>1, <2>2, <2>3 DEF Refused, LinkTypeOK, AppsTyped, CallsTyped
<1>10. ASSUME NEW i \in Installs, NEW c \in Calls, GiveUp(i, c)
      PROVE  LinkTypeOK'
  <2>1. AppsTyped'
    BY <1>10, AppRests DEF GiveUp, AppsTyped, AppType
  <2>5. CallsTyped'
    BY <1>0, <1>10 DEF GiveUp, CallsTyped
  <2>2. directives' \in [Installs -> [requested : [Flags -> Nat], done : [Flags -> Nat]]]
    BY <1>0, <1>10, Worked DEF GiveUp
  <2>3. Doubt(i, c) \subseteq {"ENROL", "ROTATE"}
    BY DEF Doubt
  <2>4. unanswered' \in [Installs -> SUBSET {"ENROL", "ROTATE"}]
    BY <1>0, <1>10, <2>3 DEF GiveUp
  <2> QED
    BY <1>0, <1>10, <2>1, <2>2, <2>4, <2>5 DEF GiveUp, LinkTypeOK, AppsTyped, CallsTyped
<1>11. ASSUME NEW c \in Calls, Vanish(c)
      PROVE  LinkTypeOK'
  <2>1. CallsTyped'
    BY <1>0, <1>11 DEF Vanish, Proceed, CallsTyped
  <2> QED
    BY <1>0, <1>11, <2>1 DEF Vanish, LinkTypeOK, CallsTyped
<1>12. ASSUME NEW i \in Installs, Wipe(i)
      PROVE  LinkTypeOK'
  <2>1. 0 \in Token
    BY LinkAssumption DEF Token
  <2>2. AppsTyped' /\ CallsTyped'
    BY <1>0, <1>12, <2>1 DEF Wipe, AppsTyped, CallsTyped
  <2> QED
    BY <1>0, <1>12, <2>2 DEF Wipe, LinkTypeOK, AppsTyped, CallsTyped
<1>13. ASSUME NEW i \in Installs, GraceEnds(i)
      PROVE  LinkTypeOK'
  <2>1. DevicesTyped'
    BY <1>13, GraceWritten DEF GraceEnds, DevicesTyped
  <2> QED
    BY <1>0, <1>13, <2>1 DEF GraceEnds, LinkTypeOK, DevicesTyped
<1>14. ASSUME NEW i \in Installs, NEW status \in StatusesSet, SetDeviceRow(i, status)
      PROVE  LinkTypeOK'
  <2>1. status \in RowStatus
    BY LinkAssumption DEF RowStatus
  <2>2. DevicesTyped'
    BY <1>14, <2>1, StatusWritten DEF SetDeviceRow, DevicesTyped
  <2> QED
    BY <1>0, <1>14, <2>2 DEF SetDeviceRow, LinkTypeOK, DevicesTyped
<1>15. ASSUME NEW i \in Installs, NEW f \in Flags, RequestDirective(i, f)
      PROVE  LinkTypeOK'
  <2>1. devices[i].flags \cup {f} \in SUBSET Flags
    BY <1>0 DEF DevicesTyped, Device
  <2>2. DevicesTyped'
    BY <1>15, <2>1, FlagsWritten DEF RequestDirective, DevicesTyped
  <2> QED
    BY <1>0, <1>15, <2>2, RequestMade DEF RequestDirective, LinkTypeOK, DevicesTyped
<1>16. CASE UNCHANGED linkVars
  BY <1>16 DEF linkVars, LinkTypeOK
<1> QED
  BY <1>1, <1>2, <1>3, <1>4, <1>5, <1>6, <1>7, <1>8, <1>9, <1>10, <1>11, <1>12, <1>13, <1>14,
     <1>15, <1>16 DEF LinkNext, ForceSync, RequestRotation, Flags

(* LinkTypeOK.                                                             *)
THEOREM LinkTyping == LinkSpec => []LinkTypeOK
BY LinkInitTyped, LinkStepTyped, PTL DEF LinkSpec

(* An app waits for a call of its own that the server is still busy with.  *)
WaitsOnOwn ==
    \A i \in Installs :
        /\ apps[i].waiting # NoCall => Busy(apps[i].waiting) /\ calls[apps[i].waiting].install = i
        /\ apps[i].wiped => apps[i].waiting = NoCall /\ apps[i].token = 0

(* What is left of a heartbeat is left for after a rotation.               *)
RestAfterRotation ==
    \A i \in Installs :
        apps[i].todo # {} =>
            /\ apps[i].waiting # NoCall
            /\ LET call == calls[apps[i].waiting]
               IN  \/ call.step \in {"ROTATE", "REPLACE", "REFUSED"}
                   \/ call.step = "ANSWER" /\ call.op = "TOKEN"

(* A directive that may yet be answered, and one that is answered and may  *)
(* yet be carried out.                                                     *)
MayBeAnswered(i, f) ==
    \/ f \in devices[i].flags
    \/ \E c \in Calls : apps[i].waiting = c /\ calls[c].step = "CLEAR" /\ f \in calls[c].flags
MayBeCarriedOut(i, f) ==
    \/ \E c \in Calls : /\ apps[i].waiting = c /\ calls[c].step = "ANSWER"
                        /\ calls[c].op = "BEAT" /\ f \in calls[c].flags
    \/ f = "FORCE_SYNC" /\ "RUN_MANUAL_SYNC" \in apps[i].todo
OneIf(condition) == IF condition THEN 1 ELSE 0

RequestsCover ==
    \A i \in Installs, f \in Flags :
        directives[i].done[f] + OneIf(MayBeAnswered(i, f)) + OneIf(MayBeCarriedOut(i, f))
            <= directives[i].requested[f]

Enrols(c, i) == calls[c].step \in {"COUNTED", "KNOWN"} /\ calls[c].install = i
Rotates(c, i) == calls[c].step \in {"ROTATE", "REPLACE"} /\ calls[c].install = i
TokenComes(c, i) == apps[i].waiting = c /\ calls[c].step = "ANSWER" /\ calls[c].op = "TOKEN"
LostRotation(i) == "ROTATE" \in unanswered[i]

Excused(i) ==
    \/ apps[i].wiped \/ "ENROL" \in unanswered[i]
    \/ LostRotation(i) /\ directives[i].done["ROTATE_TOKEN"] > 1

(* Where an enrolment and a rotation can be, and which token is where.     *)
OneWriter(i) ==
    /\ \A c \in Calls : Enrols(c, i) => apps[i].waiting = c /\ apps[i].token = 0
    /\ apps[i].token = 0 \/ directives[i].done["ROTATE_TOKEN"] = 0 =>
          ~LostRotation(i) /\ \A c \in Calls : ~Rotates(c, i)
    /\ \A c, d \in Calls : Rotates(c, i) /\ Rotates(d, i) => c = d
    /\ \A c \in Calls : Rotates(c, i) => (apps[i].waiting = c <=> ~LostRotation(i))
    /\ \A c \in Calls : TokenComes(c, i) =>
          /\ ~LostRotation(i) /\ \A d \in Calls : ~Rotates(d, i)
          /\ apps[i].token # 0 => directives[i].done["ROTATE_TOKEN"] # 0
TokensMeet(i) ==
    /\ \A c \in Calls : Rotates(c, i) =>
          /\ apps[i].token = devices[i].hash
          /\ calls[c].step = "REPLACE" => calls[c].was = devices[i].hash
    /\ \A c \in Calls : TokenComes(c, i) =>
          calls[c].token = devices[i].hash /\ devices[i].hash # 0 /\ devices[i].status # "ABSENT"
    /\ apps[i].token # 0 =>
          /\ devices[i].status # "ABSENT"
          /\ \/ apps[i].token = devices[i].hash
             \/ /\ apps[i].token = devices[i].prev /\ (devices[i].grace \/ LostRotation(i))
                /\ LostRotation(i) \/ \E c \in Calls : TokenComes(c, i)

LinkPhase == \A i \in Installs : ~Excused(i) => OneWriter(i) /\ TokensMeet(i)

LinkInv == LinkTypeOK /\ WaitsOnOwn /\ RestAfterRotation /\ RequestsCover /\ LinkPhase

(* Steps of a call that keep it with its app, or free it when nobody waits.*)
LEMMA CallGoesOn ==
    ASSUME LinkTypeOK, WaitsOnOwn, NEW c \in Calls, NEW answer, UNCHANGED apps, answer.step # "FREE",
           answer.install = calls[c].install,
           Proceed(c, answer) \/ Return(c, answer) \/ (~Awaited(c) /\ Proceed(c, FreeCall)), Busy(c)
    PROVE  WaitsOnOwn'
<1> SUFFICES ASSUME NEW i \in Installs
             PROVE  /\ apps[i].waiting # NoCall => /\ calls'[apps[i].waiting].step # "FREE"
                                                   /\ calls'[apps[i].waiting].install = i
                    /\ apps[i].wiped => apps[i].waiting = NoCall /\ apps[i].token = 0
  BY DEF WaitsOnOwn, Busy
<1>1. apps[i].wiped => apps[i].waiting = NoCall /\ apps[i].token = 0
  BY DEF WaitsOnOwn
<1>2. ASSUME apps[i].waiting # NoCall
      PROVE  calls'[apps[i].waiting].step # "FREE" /\ calls'[apps[i].waiting].install = i
  <2> DEFINE d == apps[i].waiting
  <2>1. d \in Calls /\ calls[d].step # "FREE" /\ calls[d].install = i
    BY <1>2 DEF WaitsOnOwn, LinkTypeOK, Busy
  <2>2. d = c => Awaited(c)
    BY <2>1 DEF Awaited, Busy
  <2>3. calls'[d] = calls[d] \/ (d = c /\ calls'[d] = answer)
    BY <2>1, <2>2 DEF Return, Proceed, LinkTypeOK
  <2> QED
    BY <2>1, <2>3
<1> QED
  BY <1>1, <1>2

(* An app that comes to rest leaves the others with their calls.           *)
LEMMA OthersWaitOn ==
    ASSUME LinkTypeOK, WaitsOnOwn, NEW i \in Installs,
           \A x \in Installs \ {i} : apps'[x] = apps[x],
           apps'[i].waiting = NoCall, apps'[i].wiped => apps'[i].token = 0,
           \A c \in Calls : calls'[c] = calls[c] \/ c = apps[i].waiting
    PROVE  WaitsOnOwn'
<1> SUFFICES ASSUME NEW x \in Installs, x # i
             PROVE  /\ apps[x].waiting # NoCall => /\ calls'[apps[x].waiting].step # "FREE"
                                                   /\ calls'[apps[x].waiting].install = x
                    /\ apps[x].wiped => apps[x].waiting = NoCall /\ apps[x].token = 0
  BY DEF WaitsOnOwn, Busy
<1>1. apps[x].wiped => apps[x].waiting = NoCall /\ apps[x].token = 0
  BY DEF WaitsOnOwn
<1>2. ASSUME apps[x].waiting # NoCall
      PROVE  calls'[apps[x].waiting].step # "FREE" /\ calls'[apps[x].waiting].install = x
  <2>1. /\ apps[x].waiting \in Calls /\ calls[apps[x].waiting].step # "FREE"
        /\ calls[apps[x].waiting].install = x
    BY <1>2 DEF WaitsOnOwn, LinkTypeOK, Busy
  <2>2. apps[x].waiting # apps[i].waiting
    BY <1>2, <2>1 DEF WaitsOnOwn
  <2> QED
    BY <2>1, <2>2
<1> QED
  BY <1>1, <1>2

(* An app that sends a call, or lets its own go on, with the others.       *)
LEMMA SenderWaits ==
    ASSUME LinkTypeOK, WaitsOnOwn, NEW i \in Installs, NEW c \in Calls,
           \A x \in Installs \ {i} : apps'[x] = apps[x],
           apps'[i].waiting = c, ~apps'[i].wiped,
           calls'[c].step # "FREE" /\ calls'[c].install = i,
           \A d \in Calls \ {c} : calls'[d] = calls[d],
           ~Busy(c) \/ calls[c].install = i
    PROVE  WaitsOnOwn'
<1> SUFFICES ASSUME NEW x \in Installs, x # i
             PROVE  /\ apps[x].waiting # NoCall => /\ calls'[apps[x].waiting].step # "FREE"
                                                   /\ calls'[apps[x].waiting].install = x
                    /\ apps[x].wiped => apps[x].waiting = NoCall /\ apps[x].token = 0
  BY DEF WaitsOnOwn, Busy
<1>1. apps[x].wiped => apps[x].waiting = NoCall /\ apps[x].token = 0
  BY DEF WaitsOnOwn
<1>2. ASSUME apps[x].waiting # NoCall
      PROVE  calls'[apps[x].waiting].step # "FREE" /\ calls'[apps[x].waiting].install = x
  <2>1. /\ apps[x].waiting \in Calls /\ calls[apps[x].waiting].step # "FREE"
        /\ calls[apps[x].waiting].install = x
    BY <1>2 DEF WaitsOnOwn, LinkTypeOK, Busy
  <2>2. apps[x].waiting # c
    BY <2>1 DEF Busy
  <2> QED
    BY <2>1, <2>2
<1> QED
  BY <1>1, <1>2

LEMMA WaitsStep == LinkTypeOK /\ WaitsOnOwn /\ [LinkNext]_linkVars => WaitsOnOwn'
<1> SUFFICES ASSUME LinkTypeOK, WaitsOnOwn, [LinkNext]_linkVars
             PROVE  WaitsOnOwn'
  OBVIOUS
<1>0. apps \in [Installs -> AppType] /\ calls \in [Calls -> CallRecord] /\ NoCall \notin Calls
  BY LinkAssumption DEF LinkTypeOK, AppType
(* The call an app waits for is its own.                                   *)
<1>a. ASSUME NEW i \in Installs, NEW c \in Calls, apps[i].waiting = c
      PROVE  calls[c].step # "FREE" /\ calls[c].install = i /\ ~apps[i].wiped
  BY <1>0, <1>a DEF WaitsOnOwn, Busy
<1>1. ASSUME NEW i \in Installs, NEW c \in Calls, Enrol(i, c) \/ Beat(i, c)
      PROVE  WaitsOnOwn'
  <2>1. /\ \A x \in Installs \ {i} : apps'[x] = apps[x]
        /\ apps'[i].waiting = c /\ ~apps'[i].wiped /\ ~Busy(c)
    BY <1>0, <1>1 DEF Enrol, Beat, Idling, WaitsFor, AppType
  <2>2. calls'[c].install = i /\ \A d \in Calls \ {c} : calls'[d] = calls[d]
    BY <1>0, <1>1 DEF Enrol, Beat, Proceed
  <2>3. calls'[c].step # "FREE"
    <3>1. CASE Beat(i, c)
      BY <1>0, <3>1 DEF Beat, Proceed
    <3>2. CASE Enrol(i, c)
      <4> DEFINE row == devices[i]
                 s == CASE row.status \in {"RETIRED", "BLOCKED"} -> "REFUSED"
                            [] row.status = "ACTIVE" -> "KNOWN"
                            [] Cardinality(Enrolled) >= MaxDevices -> "REFUSED"
                            [] OTHER -> "COUNTED"
      <4>1. calls' = [calls EXCEPT ![c] = [install |-> i, step |-> s]]
        BY <3>2 DEF Enrol, Proceed
      <4>2. s # "FREE"
        OBVIOUS
      <4> HIDE DEF s
      <4> QED
        BY <1>0, <4>1, <4>2
    <3> QED
      BY <1>1, <3>1, <3>2
  <2> QED
    BY <2>1, <2>2, <2>3, SenderWaits
<1>2. ASSUME NEW c \in Calls,
             EnrolWrite(c) \/ HeartbeatRead(c) \/ HeartbeatClear(c) \/ RotateRead(c) \/ RotateWrite(c)
                \/ Vanish(c)
      PROVE  WaitsOnOwn'
  <2> DEFINE i == calls[c].install
             token == [step |-> "ANSWER", install |-> i, op |-> "TOKEN", token |-> NewToken]
             beat == [step |-> "ANSWER", install |-> i, op |-> "BEAT", flags |-> calls[c].flags]
             clear == [step |-> "CLEAR", install |-> i, flags |-> devices[i].flags]
             replace == [step |-> "REPLACE", install |-> i, was |-> devices[i].hash]
  <2>1. UNCHANGED apps /\ Busy(c)
    BY <1>2 DEF EnrolWrite, HeartbeatRead, HeartbeatClear, RotateRead, RotateWrite, Vanish, Busy
  <2>2. /\ token.step # "FREE" /\ token.install = i /\ beat.step # "FREE" /\ beat.install = i
        /\ clear.step # "FREE" /\ clear.install = i /\ replace.step # "FREE" /\ replace.install = i
        /\ Refusal(c).step # "FREE" /\ Refusal(c).install = i
    BY DEF Refusal
  <2>3. \/ Return(c, Refusal(c)) \/ Return(c, token) \/ Return(c, beat)
        \/ Proceed(c, clear) \/ Proceed(c, replace) \/ (~Awaited(c) /\ Proceed(c, FreeCall))
    BY <1>2, Zenon DEF EnrolWrite, HeartbeatRead, HeartbeatClear, RotateRead, RotateWrite, Vanish
  <2> HIDE DEF token, beat, clear, replace
  <2> QED
    BY <2>1, <2>2, <2>3, CallGoesOn
<1>3. ASSUME NEW i \in Installs, NEW c \in Calls, HeartbeatAnswer(i, c)
      PROVE  WaitsOnOwn'
  <2> DEFINE actions == ActionsFor(calls[c].flags)
  <2>0. apps[i].waiting = c /\ calls[c].step # "FREE" /\ calls[c].install = i /\ ~apps[i].wiped
    BY <1>3, <1>a DEF HeartbeatAnswer
  <2>1. CASE /\ apps' = [apps EXCEPT ![i].todo = actions]
             /\ Proceed(c, [install |-> i,
                      step |-> IF Admits(devices[i], apps[i].token) THEN "ROTATE" ELSE "REFUSED"])
    <3>1. /\ \A x \in Installs \ {i} : apps'[x] = apps[x]
          /\ apps'[i].waiting = c /\ ~apps'[i].wiped
      BY <1>0, <2>0, <2>1 DEF AppType
    <3>2. /\ calls'[c].step # "FREE" /\ calls'[c].install = i
          /\ \A d \in Calls \ {c} : calls'[d] = calls[d]
      BY <1>0, <2>1 DEF Proceed
    <3> QED
      BY <2>0, <3>1, <3>2, SenderWaits
  <2>2. CASE Proceed(c, FreeCall) /\ WaitsFor(i, NoCall)
    <3>1. /\ \A x \in Installs \ {i} : apps'[x] = apps[x]
          /\ apps'[i].waiting = NoCall /\ ~apps'[i].wiped
      BY <1>0, <2>0, <2>2 DEF AppType, WaitsFor
    <3>2. \A d \in Calls : calls'[d] = calls[d] \/ d = apps[i].waiting
      BY <1>0, <2>0, <2>2 DEF Proceed
    <3> QED
      BY <3>1, <3>2, OthersWaitOn
  <2> QED
    BY <1>3, <2>1, <2>2 DEF HeartbeatAnswer
<1>4. ASSUME NEW i \in Installs, NEW c \in Calls, TokenAnswer(i, c) \/ Refused(i, c) \/ GiveUp(i, c)
      PROVE  WaitsOnOwn'
  <2>0. apps[i].waiting = c /\ calls[c].step # "FREE" /\ calls[c].install = i /\ ~apps[i].wiped
    BY <1>4, <1>a DEF TokenAnswer, Refused, GiveUp
  <2>2. /\ \A x \in Installs \ {i} : apps'[x] = apps[x]
        /\ apps'[i].waiting = NoCall /\ ~apps'[i].wiped
    BY <1>4, <2>0, ComesToRest
  <2>3. \A d \in Calls : calls'[d] = calls[d] \/ d = apps[i].waiting
    BY <1>0, <1>4, <2>0 DEF TokenAnswer, Refused, GiveUp, Proceed
  <2> QED
    BY <2>2, <2>3, OthersWaitOn
<1>5. ASSUME NEW i \in Installs, Wipe(i)
      PROVE  WaitsOnOwn'
  <2>1. /\ \A x \in Installs \ {i} : apps'[x] = apps[x]
        /\ apps'[i].waiting = NoCall /\ apps'[i].token = 0
    BY <1>0, <1>5 DEF Wipe
  <2>2. \A d \in Calls : calls'[d] = calls[d] \/ d = apps[i].waiting
    BY <1>5 DEF Wipe
  <2> QED
    BY <2>1, <2>2, OthersWaitOn
<1>6. ASSUME UNCHANGED <<apps, calls>>
      PROVE  WaitsOnOwn'
  BY <1>6 DEF WaitsOnOwn, Busy
<1>7. ASSUME NEW i \in Installs, GraceEnds(i) \/ RequestRotation(i) \/ ForceSync(i)
      PROVE  WaitsOnOwn'
  BY <1>6, <1>7 DEF GraceEnds, RequestRotation, ForceSync, RequestDirective
<1>8. ASSUME NEW i \in Installs, NEW status \in StatusesSet, SetDeviceRow(i, status)
      PROVE  WaitsOnOwn'
  BY <1>6, <1>8 DEF SetDeviceRow
<1>9. CASE UNCHANGED linkVars
  BY <1>6, <1>9 DEF linkVars
<1> QED
  BY <1>1, <1>2, <1>3, <1>4, <1>5, <1>7, <1>8, <1>9 DEF LinkNext

LeftForLater(call) ==
    \/ call.step \in {"ROTATE", "REPLACE", "REFUSED"}
    \/ call.step = "ANSWER" /\ call.op = "TOKEN"

LEMMA RestStep ==
    LinkTypeOK /\ WaitsOnOwn /\ RestAfterRotation /\ [LinkNext]_linkVars => RestAfterRotation'
<1> SUFFICES ASSUME LinkTypeOK, WaitsOnOwn, RestAfterRotation, [LinkNext]_linkVars,
                    NEW x \in Installs, apps'[x].todo # {}
             PROVE  apps'[x].waiting # NoCall /\ LeftForLater(calls'[apps'[x].waiting])
  BY DEF RestAfterRotation, LeftForLater
<1>0. apps \in [Installs -> AppType] /\ calls \in [Calls -> CallRecord] /\ NoCall \notin Calls
  BY LinkAssumption DEF LinkTypeOK, AppType
<1> DEFINE d == apps[x].waiting
<1>a. ASSUME apps[x].todo # {}
      PROVE  d \in Calls /\ LeftForLater(calls[d]) /\ calls[d].install = x /\ Busy(d)
  BY <1>0, <1>a DEF RestAfterRotation, LeftForLater, WaitsOnOwn, AppType
<1> USE DEF LeftForLater
<1>1. ASSUME NEW i \in Installs, NEW c \in Calls, Enrol(i, c) \/ Beat(i, c)
      PROVE  apps'[x].waiting # NoCall /\ LeftForLater(calls'[apps'[x].waiting])
  <2>1. apps[i].waiting = NoCall /\ apps' = [apps EXCEPT ![i].waiting = c] /\ ~Busy(c)
    BY <1>1 DEF Enrol, Beat, Idling, WaitsFor
  <2>2. apps[x].todo # {} /\ x # i
    BY <1>0, <1>a, <2>1 DEF AppType
  <2>3. \A e \in Calls \ {c} : calls'[e] = calls[e]
    BY <1>0, <1>1 DEF Enrol, Beat, Proceed
  <2> QED
    BY <1>0, <1>a, <2>1, <2>2, <2>3
<1>2. ASSUME NEW c \in Calls,
             EnrolWrite(c) \/ HeartbeatRead(c) \/ HeartbeatClear(c) \/ RotateRead(c) \/ RotateWrite(c)
                \/ Vanish(c)
      PROVE  apps'[x].waiting # NoCall /\ LeftForLater(calls'[apps'[x].waiting])
  <2>1. UNCHANGED apps /\ d \in Calls /\ LeftForLater(calls[d])
    BY <1>2, <1>a DEF EnrolWrite, HeartbeatRead, HeartbeatClear, RotateRead, RotateWrite, Vanish
  <2>2. CASE d # c
    <3>1. calls'[d] = calls[d]
      BY <1>0, <1>2, <2>1, <2>2
         DEF EnrolWrite, HeartbeatRead, HeartbeatClear, RotateRead, RotateWrite, Vanish, Proceed, Return
    <3> QED
      BY <1>0, <2>1, <3>1
  <2>3. CASE d = c
    <3>1. Awaited(c)
      BY <1>a, <2>1, <2>3 DEF Awaited
    <3>2. RotateRead(c) \/ RotateWrite(c)
      BY <1>2, <2>1, <2>3, <3>1 DEF EnrolWrite, HeartbeatRead, HeartbeatClear, Vanish
    <3>3. LeftForLater(calls'[c])
      BY <1>0, <3>1, <3>2 DEF RotateRead, RotateWrite, Proceed, Return
    <3> QED
      BY <1>0, <2>1, <2>3, <3>3
  <2> QED
    BY <2>2, <2>3
<1>3. ASSUME NEW i \in Installs, NEW c \in Calls, HeartbeatAnswer(i, c)
      PROVE  apps'[x].waiting # NoCall /\ LeftForLater(calls'[apps'[x].waiting])
  <2>0. apps[i].waiting = c /\ calls[c].install = i
    BY <1>0, <1>3 DEF HeartbeatAnswer, WaitsOnOwn
  <2>1. \A e \in Calls \ {c} : calls'[e] = calls[e]
    BY <1>0, <1>3 DEF HeartbeatAnswer, Proceed
  <2>2. CASE x # i
    <3>1. apps'[x] = apps[x]
      BY <1>0, <1>3, <2>2 DEF HeartbeatAnswer, WaitsFor
    <3> QED
      BY <1>0, <1>a, <2>0, <2>1, <2>2, <3>1
  <2>3. CASE x = i
    <3>1. calls[c].step = "ANSWER" /\ calls[c].op = "BEAT" /\ apps[x].todo = {}
      BY <1>3, <1>a, <2>0, <2>3 DEF HeartbeatAnswer
    <3>2. ~WaitsFor(i, NoCall)
      BY <1>0, <2>3, <3>1 DEF WaitsFor, AppType
    <3> DEFINE actions == ActionsFor(calls[c].flags)
    <3>3. /\ apps' = [apps EXCEPT ![i].todo = actions]
          /\ Proceed(c, [install |-> i,
                      step |-> IF Admits(devices[i], apps[i].token) THEN "ROTATE" ELSE "REFUSED"])
      BY <1>3, <3>2 DEF HeartbeatAnswer
    <3>4. apps'[x].waiting = c
      BY <1>0, <2>0, <2>3, <3>3 DEF AppType
    <3>5. calls'[c].step \in {"ROTATE", "REFUSED"}
      BY <1>0, <3>3 DEF Proceed
    <3> QED
      BY <1>0, <3>4, <3>5
  <2> QED
    BY <2>2, <2>3
<1>4. ASSUME NEW i \in Installs, NEW c \in Calls, TokenAnswer(i, c) \/ Refused(i, c) \/ GiveUp(i, c)
      PROVE  apps'[x].waiting # NoCall /\ LeftForLater(calls'[apps'[x].waiting])
  <2>0. apps[i].waiting = c /\ calls[c].install = i
    BY <1>0, <1>4 DEF TokenAnswer, Refused, GiveUp, WaitsOnOwn
  <2>2. x # i /\ apps'[x] = apps[x]
    BY <1>4, ComesToRest
  <2>3. \A e \in Calls \ {c} : calls'[e] = calls[e]
    BY <1>0, <1>4 DEF TokenAnswer, Refused, GiveUp, Proceed
  <2> QED
    BY <1>0, <1>a, <2>0, <2>2, <2>3
<1>5. ASSUME NEW i \in Installs, Wipe(i)
      PROVE  apps'[x].waiting # NoCall /\ LeftForLater(calls'[apps'[x].waiting])
  <2>1. x # i /\ apps'[x] = apps[x]
    BY <1>0, <1>5 DEF Wipe
  <2>2. d # apps[i].waiting
    BY <1>0, <1>a, <2>1 DEF WaitsOnOwn
  <2> QED
    BY <1>0, <1>5, <1>a, <2>1, <2>2 DEF Wipe
<1>6. CASE UNCHANGED <<apps, calls>>
  BY <1>0, <1>6, <1>a
<1>7. ASSUME NEW i \in Installs, GraceEnds(i) \/ RequestRotation(i) \/ ForceSync(i)
      PROVE  UNCHANGED <<apps, calls>>
  BY <1>7 DEF GraceEnds, RequestRotation, ForceSync, RequestDirective
<1>8. ASSUME NEW i \in Installs, NEW status \in StatusesSet, SetDeviceRow(i, status)
      PROVE  UNCHANGED <<apps, calls>>
  BY <1>8 DEF SetDeviceRow
<1>9. CASE UNCHANGED linkVars
  BY <1>6, <1>9 DEF linkVars
<1> QED
  BY <1>1, <1>2, <1>3, <1>4, <1>5, <1>6, <1>7, <1>8, <1>9 DEF LinkNext

LEMMA RequestsStep ==
    /\ LinkTypeOK /\ WaitsOnOwn /\ WaitsOnOwn' /\ RestAfterRotation /\ RequestsCover
    /\ [LinkNext]_linkVars
    => RequestsCover'
<1> SUFFICES ASSUME LinkTypeOK, WaitsOnOwn, WaitsOnOwn', RestAfterRotation, RequestsCover,
                    [LinkNext]_linkVars, NEW x \in Installs, NEW f \in Flags
             PROVE  directives'[x].done[f] + OneIf(MayBeAnswered(x, f)') + OneIf(MayBeCarriedOut(x, f)')
                       <= directives'[x].requested[f]
  BY DEF RequestsCover
<1>0. /\ apps \in [Installs -> AppType] /\ calls \in [Calls -> CallRecord] /\ NoCall \notin Calls
      /\ directives[x].done[f] \in Nat /\ directives[x].requested[f] \in Nat
      /\ directives[x].done[f] + OneIf(MayBeAnswered(x, f)) + OneIf(MayBeCarriedOut(x, f))
            <= directives[x].requested[f]
  BY LinkAssumption DEF LinkTypeOK, AppType, RequestsCover
<1> DEFINE goal == directives'[x].done[f] + OneIf(MayBeAnswered(x, f)') + OneIf(MayBeCarriedOut(x, f)')
                      <= directives'[x].requested[f]
(* A step that neither answers more nor carries out anything.              *)
<1>a. ASSUME directives'[x].done[f] = directives[x].done[f],
             directives'[x].requested[f] = directives[x].requested[f],
             MayBeAnswered(x, f)' => MayBeAnswered(x, f),
             MayBeCarriedOut(x, f)' => MayBeCarriedOut(x, f)
      PROVE  goal
  BY <1>0, <1>a DEF OneIf
(* The call an app waits for is at a step that goes with it.               *)
<1>b. ASSUME NEW i \in Installs, NEW c \in Calls, apps[i].waiting = c
      PROVE  /\ calls[c].install = i /\ Busy(c) /\ Awaited(c) /\ (x # i => apps[x].waiting # c)
             /\ calls[c].step \in {"COUNTED", "KNOWN", "BEAT", "CLEAR"} => apps[i].todo = {}
             /\ calls[c].step = "ANSWER" /\ calls[c].op = "BEAT" => apps[i].todo = {}
  BY <1>0, <1>b DEF WaitsOnOwn, RestAfterRotation, Busy, Awaited
<1>c. devices \in [Installs -> Device]
  BY DEF LinkTypeOK
<1>1. ASSUME NEW i \in Installs, NEW c \in Calls, Enrol(i, c) \/ Beat(i, c)
      PROVE  goal
  <2>1. /\ apps' = [apps EXCEPT ![i].waiting = c] /\ ~Busy(c) /\ UNCHANGED <<devices, directives>>
        /\ apps[i].waiting = NoCall
    BY <1>1 DEF Enrol, Beat, WaitsFor, Idling
  <2>2. /\ \A e \in Calls \ {c} : calls'[e] = calls[e]
    BY <1>0, <1>1 DEF Enrol, Beat, Proceed
  <2>3. calls'[c].step \notin {"CLEAR", "ANSWER"}
    <3>1. CASE Beat(i, c)
      BY <1>0, <3>1 DEF Beat, Proceed
    <3>2. CASE Enrol(i, c)
      <4> DEFINE row == devices[i]
                 s == CASE row.status \in {"RETIRED", "BLOCKED"} -> "REFUSED"
                            [] row.status = "ACTIVE" -> "KNOWN"
                            [] Cardinality(Enrolled) >= MaxDevices -> "REFUSED"
                            [] OTHER -> "COUNTED"
      <4>1. calls' = [calls EXCEPT ![c] = [install |-> i, step |-> s]]
        BY <3>2 DEF Enrol, Proceed
      <4>2. s \notin {"CLEAR", "ANSWER"}
        OBVIOUS
      <4> HIDE DEF s
      <4> QED
        BY <1>0, <4>1, <4>2
    <3> QED
      BY <1>1, <3>1, <3>2
  <2>4. /\ apps'[x].todo = apps[x].todo
        /\ \A e \in Calls \ {c} : apps'[x].waiting = e => apps[x].waiting = e
    BY <1>0, <2>1 DEF AppType
  <2>5. MayBeAnswered(x, f)' => MayBeAnswered(x, f)
    BY <2>1, <2>2, <2>3, <2>4 DEF MayBeAnswered
  <2>6. MayBeCarriedOut(x, f)' => MayBeCarriedOut(x, f)
    BY <2>1, <2>2, <2>3, <2>4 DEF MayBeCarriedOut
  <2> QED
    BY <1>a, <2>1, <2>5, <2>6
<1>2. ASSUME NEW c \in Calls, EnrolWrite(c) \/ RotateRead(c) \/ RotateWrite(c) \/ Vanish(c)
      PROVE  goal
  <2>1. /\ UNCHANGED <<apps, directives>>
        /\ \A e \in Calls \ {c} : calls'[e] = calls[e]
    BY <1>0, <1>2 DEF EnrolWrite, RotateRead, RotateWrite, Vanish, Proceed, Return
  <2>2. /\ calls'[c].step # "CLEAR"
        /\ calls'[c].step = "ANSWER" => calls'[c].op # "BEAT"
    BY <1>0, <1>2 DEF EnrolWrite, RotateRead, RotateWrite, Vanish, Proceed, Return, Refusal, FreeCall
  <2>3. devices'[x].flags = devices[x].flags
    <3>1. CASE UNCHANGED devices
      BY <3>1
    <3>2. CASE EnrolWrite(c) /\ ~UNCHANGED devices
      <4> DEFINE i == calls[c].install
                 row == [status |-> StatusKept(devices[i].status), hash |-> NewToken, prev |-> devices[i].prev,
                         grace |-> devices[i].grace, flags |-> devices[i].flags]
      <4>1. i \in Installs /\ NewToken \in Token
        BY <3>2, CallShape, LinkAssumption DEF EnrolWrite, Busy, LinkTypeOK, NewToken, Token
      <4>2. devices' = [devices EXCEPT ![i].hash = NewToken,
                                       ![i].status = IF @ = "ABSENT" THEN "ACTIVE" ELSE @]
        BY <3>2 DEF EnrolWrite
      <4> HIDE DEF i
      <4>3. devices' = [devices EXCEPT ![i] = row]
        BY <4>1, <4>2, EnrolledWritten
      <4> QED
        BY <1>c, <4>1, <4>3
    <3>3. CASE RotateWrite(c)
      <4> DEFINE i == calls[c].install
                 was == calls[c].was
                 row == [status |-> devices[i].status, hash |-> NewToken, prev |-> was, grace |-> TRUE,
                         flags |-> devices[i].flags]
      <4>1. i \in Installs /\ NewToken \in Token /\ was \in Token
        BY <3>3, CallShape, LinkAssumption DEF RotateWrite, Busy, LinkTypeOK, NewToken, Token
      <4>2. devices' = [devices EXCEPT ![i].prev = was, ![i].hash = NewToken, ![i].grace = TRUE]
        BY <3>3 DEF RotateWrite
      <4> HIDE DEF i, was
      <4>3. devices' = [devices EXCEPT ![i] = row]
        BY <4>1, <4>2, RotatedWritten
      <4> QED
        BY <1>c, <4>1, <4>3
    <3> QED
      BY <1>2, <3>1, <3>2, <3>3 DEF RotateRead, Vanish
  <2>4. MayBeAnswered(x, f)' => MayBeAnswered(x, f)
    BY <2>1, <2>2, <2>3 DEF MayBeAnswered
  <2>5. MayBeCarriedOut(x, f)' => MayBeCarriedOut(x, f)
    BY <2>1, <2>2 DEF MayBeCarriedOut
  <2> QED
    BY <1>a, <2>1, <2>4, <2>5
<1>3. ASSUME NEW c \in Calls, HeartbeatRead(c)
      PROVE  goal
  <2>1. /\ UNCHANGED <<apps, devices, directives>>
        /\ \A e \in Calls \ {c} : calls'[e] = calls[e]
        /\ calls'[c] = [step |-> "CLEAR", install |-> calls[c].install,
                        flags |-> devices[calls[c].install].flags]
    BY <1>0, <1>3 DEF HeartbeatRead, Proceed
  <2>2. MayBeAnswered(x, f)' => MayBeAnswered(x, f)
    BY <1>b, <2>1 DEF MayBeAnswered
  <2>3. MayBeCarriedOut(x, f)' => MayBeCarriedOut(x, f)
    BY <2>1 DEF MayBeCarriedOut
  <2> QED
    BY <1>a, <2>1, <2>2, <2>3
<1>4. ASSUME NEW c \in Calls, HeartbeatClear(c)
      PROVE  goal
  <2> DEFINE i == calls[c].install
  <2>1. i \in Installs
    BY <1>4, CallShape DEF HeartbeatClear, Busy
  <2>2. \A y \in Installs : devices'[y].flags = IF y = i THEN {} ELSE devices[y].flags
    <3>1. {} \in SUBSET Flags /\ devices' = [devices EXCEPT ![i].flags = {}]
      BY <1>4 DEF HeartbeatClear
    <3> QED
      BY <2>1, <3>1, FlagsWritten DEF LinkTypeOK
  <2>3. /\ UNCHANGED <<apps, directives>>
        /\ \A e \in Calls \ {c} : calls'[e] = calls[e]
        /\ calls'[c] = IF Awaited(c) THEN [step |-> "ANSWER", install |-> i, op |-> "BEAT",
                                           flags |-> calls[c].flags] ELSE FreeCall
    BY <1>0, <1>4 DEF HeartbeatClear, Return, Proceed
  <2>4. CASE apps[x].waiting # c
    <3>1. MayBeAnswered(x, f)' => MayBeAnswered(x, f)
      BY <2>2, <2>3, <2>4 DEF MayBeAnswered
    <3>2. MayBeCarriedOut(x, f)' => MayBeCarriedOut(x, f)
      BY <2>3, <2>4 DEF MayBeCarriedOut
    <3> QED
      BY <1>a, <2>3, <3>1, <3>2
  <2>5. CASE apps[x].waiting = c
    <3>1. x = i /\ Awaited(c) /\ apps[x].todo = {} /\ calls[c].step = "CLEAR"
      BY <1>4, <1>b, <2>5 DEF HeartbeatClear
    <3>2. ~MayBeAnswered(x, f)'
      BY <2>2, <2>3, <2>5, <3>1 DEF MayBeAnswered
    <3>3. MayBeCarriedOut(x, f)' => MayBeAnswered(x, f)
      BY <2>3, <2>5, <3>1 DEF MayBeCarriedOut, MayBeAnswered
    <3> QED
      BY <1>0, <2>3, <3>2, <3>3 DEF OneIf
  <2> QED
    BY <2>4, <2>5
<1>5. ASSUME NEW i \in Installs, NEW c \in Calls, HeartbeatAnswer(i, c)
      PROVE  goal
  <2> DEFINE actions == ActionsFor(calls[c].flags)
  <2>0. /\ apps[i].waiting = c /\ calls[c].step = "ANSWER" /\ calls[c].op = "BEAT"
        /\ UNCHANGED devices /\ \A e \in Calls \ {c} : calls'[e] = calls[e]
    BY <1>0, <1>5 DEF HeartbeatAnswer, Proceed
  <2>1. calls'[c].step \in {"ROTATE", "REFUSED", "FREE"}
    BY <1>0, <1>5 DEF HeartbeatAnswer, Proceed, FreeCall
  <2>2. MayBeAnswered(x, f)' => MayBeAnswered(x, f)
    <3>1. \A e \in Calls \ {c} : apps'[x].waiting = e => apps[x].waiting = e
      BY <1>0, <1>5 DEF HeartbeatAnswer, WaitsFor, AppType
    <3> QED
      BY <2>0, <2>1, <3>1 DEF MayBeAnswered
  <2>3. /\ "RUN_MANUAL_SYNC" \in actions <=> "FORCE_SYNC" \in calls[c].flags
        /\ "ROTATE_TOKEN" \in actions <=> "ROTATE_TOKEN" \in calls[c].flags
    BY DEF ActionsFor, DirectiveAction
  <2>4. x = i /\ f \in calls[c].flags => MayBeCarriedOut(x, f)
    BY <2>0 DEF MayBeCarriedOut
  <2>5. CASE x # i
    <3>1. apps'[x] = apps[x] /\ apps[x].waiting # c
      BY <1>0, <1>5, <1>b, <2>0, <2>5 DEF HeartbeatAnswer, WaitsFor
    <3>2. MayBeCarriedOut(x, f)' => MayBeCarriedOut(x, f)
      BY <2>0, <3>1 DEF MayBeCarriedOut
    <3>3. /\ directives'[x].done[f] = directives[x].done[f]
          /\ directives'[x].requested[f] = directives[x].requested[f]
      <4>1. CASE CarryOut(i, "ROTATE_TOKEN")
        BY <2>5, <4>1, Carried DEF Flags
      <4>2. CASE DoWork(i, actions)
        BY <2>5, <4>2, Worked
      <4> QED
        BY <1>5, <4>1, <4>2 DEF HeartbeatAnswer
    <3> QED
      BY <1>a, <2>2, <3>2, <3>3
  <2>6. CASE x = i /\ "ROTATE_TOKEN" \in actions
    <3>1. /\ CarryOut(i, "ROTATE_TOKEN") /\ apps' = [apps EXCEPT ![i].todo = actions]
      BY <1>5, <2>6 DEF HeartbeatAnswer
    <3>2. apps'[x].todo = actions /\ apps'[x].waiting = c
      BY <1>0, <2>0, <2>6, <3>1 DEF AppType
    <3>3. MayBeCarriedOut(x, f)' => f = "FORCE_SYNC" /\ f \in calls[c].flags
      BY <2>1, <2>3, <3>2 DEF MayBeCarriedOut
    <3>4. /\ directives'[x].done[f] =
                 IF f = "ROTATE_TOKEN" THEN directives[x].done[f] + 1 ELSE directives[x].done[f]
          /\ directives'[x].requested[f] = directives[x].requested[f]
      BY <2>6, <3>1, Carried DEF Flags
    <3>5. f = "ROTATE_TOKEN" => MayBeCarriedOut(x, f)
      BY <2>3, <2>4, <2>6
    <3> QED
      BY <1>0, <2>2, <2>4, <2>6, <3>3, <3>4, <3>5 DEF OneIf
  <2>7. CASE x = i /\ "ROTATE_TOKEN" \notin actions
    <3>1. DoWork(i, actions) /\ WaitsFor(i, NoCall)
      BY <1>5, <2>7 DEF HeartbeatAnswer
    <3>2. apps'[x].todo = {} /\ apps'[x].waiting = NoCall
      BY <1>0, <1>b, <2>0, <2>7, <3>1 DEF WaitsFor, AppType
    <3>3. ~MayBeCarriedOut(x, f)'
      BY <1>0, <3>2 DEF MayBeCarriedOut
    <3>4. /\ directives'[x].done[f] =
                 IF f = "FORCE_SYNC" /\ "RUN_MANUAL_SYNC" \in actions THEN directives[x].done[f] + 1
                 ELSE directives[x].done[f]
          /\ directives'[x].requested[f] = directives[x].requested[f]
      BY <2>7, <3>1, Worked
    <3> QED
      BY <1>0, <2>2, <2>3, <2>4, <2>7, <3>3, <3>4 DEF OneIf
  <2> QED
    BY <2>5, <2>6, <2>7
<1>6. ASSUME NEW i \in Installs, NEW c \in Calls, TokenAnswer(i, c) \/ Refused(i, c) \/ GiveUp(i, c)
      PROVE  goal
  <2>0. apps[i].waiting = c /\ UNCHANGED devices
    BY <1>6 DEF TokenAnswer, Refused, GiveUp
  <2>1. \A e \in Calls \ {c} : calls'[e] = calls[e]
    BY <1>0, <1>6 DEF TokenAnswer, Refused, GiveUp, Proceed
  <2>2. CASE x # i
    <3>1. apps'[x] = apps[x] /\ apps[x].waiting # c
      BY <1>6, <1>b, <2>0, <2>2, ComesToRest
    <3>2. MayBeCarriedOut(x, f)' => MayBeCarriedOut(x, f)
      BY <2>0, <2>1, <3>1 DEF MayBeCarriedOut
    <3>3. MayBeAnswered(x, f)' => MayBeAnswered(x, f)
      BY <2>0, <2>1, <3>1 DEF MayBeAnswered
    <3>4. /\ directives'[x].done[f] = directives[x].done[f]
          /\ directives'[x].requested[f] = directives[x].requested[f]
      <4>1. CASE DoWork(i, apps[i].todo)
        BY <2>2, <4>1, Worked
      <4>2. CASE UNCHANGED directives
        BY <4>2
      <4> QED
        BY <1>6, <4>1, <4>2 DEF TokenAnswer, Refused, GiveUp
    <3> QED
      BY <1>a, <3>2, <3>3, <3>4
  <2>3. CASE x = i
    <3>1. apps'[x].waiting = NoCall /\ apps'[x].todo = {}
      BY <1>6, <2>3, ComesToRest
    <3>2. ~MayBeCarriedOut(x, f)'
      BY <1>0, <3>1 DEF MayBeCarriedOut
    <3>3. MayBeAnswered(x, f)' => MayBeAnswered(x, f)
      BY <1>0, <2>0, <3>1 DEF MayBeAnswered
    <3>4. CASE DoWork(i, apps[i].todo)
      <4>1. /\ directives'[x].done[f] =
                 IF f = "FORCE_SYNC" /\ "RUN_MANUAL_SYNC" \in apps[i].todo THEN directives[x].done[f] + 1
                 ELSE directives[x].done[f]
            /\ directives'[x].requested[f] = directives[x].requested[f]
        BY <2>3, <3>4, Worked
      <4>2. f = "FORCE_SYNC" /\ "RUN_MANUAL_SYNC" \in apps[i].todo => MayBeCarriedOut(x, f)
        BY <2>3 DEF MayBeCarriedOut
      <4> QED
        BY <1>0, <3>2, <3>3, <4>1, <4>2 DEF OneIf
    <3>5. CASE UNCHANGED directives
      BY <1>a, <3>2, <3>3, <3>5
    <3> QED
      BY <1>6, <3>4, <3>5 DEF TokenAnswer, Refused, GiveUp
  <2> QED
    BY <2>2, <2>3
<1>7. ASSUME NEW i \in Installs, Wipe(i)
      PROVE  goal
  <2>1. UNCHANGED <<devices, directives>>
    BY <1>7 DEF Wipe
  <2>2. CASE x = i
    <3>1. apps'[x].waiting = NoCall /\ apps'[x].todo = {}
      BY <1>0, <1>7, <2>2 DEF Wipe
    <3>2. ~MayBeCarriedOut(x, f)' /\ (MayBeAnswered(x, f)' => MayBeAnswered(x, f))
      BY <1>0, <2>1, <3>1 DEF MayBeCarriedOut, MayBeAnswered
    <3> QED
      BY <1>a, <2>1, <3>2
  <2>3. CASE x # i
    <3>1. apps'[x] = apps[x]
      BY <1>0, <1>7, <2>3 DEF Wipe
    <3>2. \A e \in Calls : apps[x].waiting = e => calls'[e] = calls[e]
      BY <1>0, <1>7, <1>b, <2>3 DEF Wipe
    <3>3. MayBeCarriedOut(x, f)' => MayBeCarriedOut(x, f)
      BY <3>1, <3>2 DEF MayBeCarriedOut
    <3>4. MayBeAnswered(x, f)' => MayBeAnswered(x, f)
      BY <2>1, <3>1, <3>2 DEF MayBeAnswered
    <3> QED
      BY <1>a, <2>1, <3>3, <3>4
  <2> QED
    BY <2>2, <2>3
(* Steps that leave the apps and the calls.                                *)
<1>8. ASSUME UNCHANGED <<apps, calls, directives>>, devices'[x].flags = devices[x].flags
      PROVE  goal
  BY <1>a, <1>8 DEF MayBeAnswered, MayBeCarriedOut
<1>9. ASSUME NEW i \in Installs, GraceEnds(i)
      PROVE  goal
  <2>1. devices'[x].flags = devices[x].flags
    BY <1>9, GraceWritten DEF GraceEnds, LinkTypeOK
  <2> QED
    BY <1>8, <1>9, <2>1 DEF GraceEnds
<1>10. ASSUME NEW i \in Installs, NEW status \in StatusesSet, SetDeviceRow(i, status)
      PROVE  goal
  <2>0. status \in RowStatus
    BY LinkAssumption DEF RowStatus
  <2>1. devices'[x].flags = devices[x].flags
    BY <1>10, <2>0, StatusWritten DEF SetDeviceRow, LinkTypeOK
  <2> QED
    BY <1>8, <1>10, <2>1 DEF SetDeviceRow
<1>11. ASSUME NEW i \in Installs, NEW g \in Flags, RequestDirective(i, g)
      PROVE  goal
  <2>1. /\ directives'[x].done[f] = directives[x].done[f]
        /\ directives'[x].requested[f] =
               IF x = i /\ f = g THEN directives[x].requested[f] + 1 ELSE directives[x].requested[f]
    BY <1>11, RequestMade
  <2>2. devices'[x].flags = IF x = i THEN devices[x].flags \cup {g} ELSE devices[x].flags
    <3> DEFINE flags == devices[i].flags \cup {g}
               row == [status |-> devices[i].status, hash |-> devices[i].hash, prev |-> devices[i].prev,
                       grace |-> devices[i].grace, flags |-> flags]
    <3>1. flags \in SUBSET Flags /\ devices' = [devices EXCEPT ![i].flags = flags]
      BY <1>c, <1>11 DEF RequestDirective, Device
    <3>2. devices' = [devices EXCEPT ![i] = row]
      <4> HIDE DEF flags
      <4> QED
        BY <3>1, FlagsWritten
    <3> QED
      BY <1>c, <3>2
  <2>3. MayBeCarriedOut(x, f)' => MayBeCarriedOut(x, f)
    BY <1>11 DEF RequestDirective, MayBeCarriedOut
  <2>4. MayBeAnswered(x, f)' => MayBeAnswered(x, f) \/ (x = i /\ f = g)
    BY <1>11, <2>2 DEF RequestDirective, MayBeAnswered
  <2> QED
    BY <1>0, <2>1, <2>3, <2>4 DEF OneIf
<1>12. CASE UNCHANGED linkVars
  BY <1>8, <1>12 DEF linkVars
<1> QED
  BY <1>1, <1>2, <1>3, <1>4, <1>5, <1>6, <1>7, <1>9, <1>10, <1>11, <1>12
     DEF LinkNext, ForceSync, RequestRotation, Flags

(* A step that issues no token of w, gives none up and starts no rotation. *)
LEMMA PhaseFrame ==
    ASSUME NEW w \in Installs, OneWriter(w), TokensMeet(w),
           apps'[w].token = apps[w].token,
           devices'[w].hash = devices[w].hash, devices'[w].prev = devices[w].prev,
           devices[w].status # "ABSENT" => devices'[w].status # "ABSENT",
           devices[w].grace => devices'[w].grace \/ \A c \in Calls : ~TokenComes(c, w),
           LostRotation(w)' <=> LostRotation(w),
           directives'[w].done["ROTATE_TOKEN"] = directives[w].done["ROTATE_TOKEN"],
           \A c \in Calls : Enrols(c, w)' => apps[w].token = 0 /\ apps'[w].waiting = c,
           \A c \in Calls : Rotates(c, w)' =>
              /\ Rotates(c, w) /\ (apps'[w].waiting = c <=> apps[w].waiting = c)
              /\ calls'[c].step = "REPLACE" => calls'[c].was = devices[w].hash,
           \A c \in Calls : TokenComes(c, w)' <=> TokenComes(c, w),
           \A c \in Calls : TokenComes(c, w) => calls'[c].token = calls[c].token
    PROVE  OneWriter(w)' /\ TokensMeet(w)'
<1>1. OneWriter(w)'
  BY DEF OneWriter
<1>2. TokensMeet(w)'
  BY DEF TokensMeet
<1> QED
  BY <1>1, <1>2

(* A step of another installation.                                         *)
LEMMA PhaseOfOthers ==
    ASSUME NEW w \in Installs, OneWriter(w), TokensMeet(w), WaitsOnOwn,
           apps'[w] = apps[w], devices'[w] = devices[w], unanswered'[w] = unanswered[w],
           directives'[w].done["ROTATE_TOKEN"] = directives[w].done["ROTATE_TOKEN"],
           \A c \in Calls : \/ calls'[c] = calls[c]
                            \/ /\ apps[w].waiting # c
                               /\ calls'[c].step = "FREE" \/ calls'[c].install # w
    PROVE  OneWriter(w)' /\ TokensMeet(w)'
<1>1. \A c \in Calls : Enrols(c, w)' => apps[w].token = 0 /\ apps'[w].waiting = c
  BY DEF Enrols, OneWriter
<1>2. \A c \in Calls : Rotates(c, w)' =>
         /\ Rotates(c, w) /\ (apps'[w].waiting = c <=> apps[w].waiting = c)
         /\ calls'[c].step = "REPLACE" => calls'[c].was = devices[w].hash
  BY DEF Rotates, TokensMeet
<1>3. \A c \in Calls : /\ TokenComes(c, w)' <=> TokenComes(c, w)
                       /\ TokenComes(c, w) => calls'[c].token = calls[c].token
  BY DEF TokenComes
<1>4. LostRotation(w)' <=> LostRotation(w)
  BY DEF LostRotation
<1> QED
  BY <1>1, <1>2, <1>3, <1>4, PhaseFrame

(* What excuses an installation stays.                                     *)
LEMMA ExcusedStays ==
    ASSUME LinkTypeOK, NEW w \in Installs, [LinkNext]_linkVars, Excused(w)
    PROVE  Excused(w)'
<1>0. apps \in [Installs -> AppType] /\ "ROTATE_TOKEN" \in Flags
      /\ directives[w].done["ROTATE_TOKEN"] \in Nat
  BY DEF LinkTypeOK, AppType, Flags
<1> DEFINE kept == /\ apps[w].wiped => apps'[w].wiped
                   /\ unanswered[w] \subseteq unanswered'[w]
                   /\ directives'[w].done["ROTATE_TOKEN"] \in Nat
                   /\ directives'[w].done["ROTATE_TOKEN"] >= directives[w].done["ROTATE_TOKEN"]
<1>1. ASSUME kept
      PROVE  Excused(w)'
  BY <1>0, <1>1 DEF Excused, LostRotation
<1>2. ASSUME NEW i \in Installs, NEW c \in Calls, Enrol(i, c) \/ Beat(i, c)
      PROVE  kept
  <2>1. apps' = [apps EXCEPT ![i].waiting = c] /\ UNCHANGED <<unanswered, directives>>
    BY <1>2 DEF Enrol, Beat, WaitsFor
  <2> QED
    BY <1>0, <2>1 DEF AppType
<1>3. ASSUME NEW c \in Calls,
             EnrolWrite(c) \/ HeartbeatRead(c) \/ HeartbeatClear(c) \/ RotateRead(c) \/ RotateWrite(c)
                \/ Vanish(c)
      PROVE  kept
  BY <1>0, <1>3 DEF EnrolWrite, HeartbeatRead, HeartbeatClear, RotateRead, RotateWrite, Vanish
<1>4. ASSUME NEW i \in Installs, NEW c \in Calls, HeartbeatAnswer(i, c)
      PROVE  kept
  <2> DEFINE actions == ActionsFor(calls[c].flags)
  <2>1. /\ directives'[w].done["ROTATE_TOKEN"] \in Nat
        /\ directives'[w].done["ROTATE_TOKEN"] >= directives[w].done["ROTATE_TOKEN"]
    <3>1. CASE CarryOut(i, "ROTATE_TOKEN")
      BY <1>0, <3>1, Carried
    <3>2. CASE DoWork(i, actions)
      BY <1>0, <3>2, Worked
    <3> QED
      BY <1>4, <3>1, <3>2 DEF HeartbeatAnswer
  <2>2. apps'[w].wiped = apps[w].wiped
    BY <1>0, <1>4 DEF HeartbeatAnswer, WaitsFor, AppType
  <2> QED
    BY <1>4, <2>1, <2>2 DEF HeartbeatAnswer
<1>5. ASSUME NEW i \in Installs, NEW c \in Calls, TokenAnswer(i, c) \/ Refused(i, c) \/ GiveUp(i, c)
      PROVE  kept
  <2>1. apps'[w].wiped = apps[w].wiped
    BY <1>5, ComesToRest
  <2>2. /\ directives'[w].done["ROTATE_TOKEN"] \in Nat
        /\ directives'[w].done["ROTATE_TOKEN"] >= directives[w].done["ROTATE_TOKEN"]
    <3>1. CASE DoWork(i, apps[i].todo)
      BY <1>0, <3>1, Worked
    <3>2. CASE UNCHANGED directives
      BY <1>0, <3>2
    <3> QED
      BY <1>5, <3>1, <3>2 DEF TokenAnswer, Refused, GiveUp
  <2>3. unanswered[w] \subseteq unanswered'[w]
    <3>1. unanswered \in [Installs -> SUBSET {"ENROL", "ROTATE"}]
      BY DEF LinkTypeOK
    <3> QED
      BY <1>5, <3>1 DEF TokenAnswer, Refused, GiveUp
  <2> QED
    BY <2>1, <2>2, <2>3
<1>6. ASSUME NEW i \in Installs, Wipe(i)
      PROVE  kept
  BY <1>0, <1>6 DEF Wipe
<1>7. ASSUME NEW i \in Installs, NEW f \in Flags, RequestDirective(i, f)
      PROVE  kept
  BY <1>0, <1>7, RequestMade DEF RequestDirective
<1>8. ASSUME UNCHANGED <<apps, unanswered, directives>>
      PROVE  kept
  BY <1>0, <1>8
<1>9. ASSUME NEW i \in Installs, GraceEnds(i)
      PROVE  kept
  BY <1>8, <1>9 DEF GraceEnds
<1>10. ASSUME NEW i \in Installs, NEW status \in StatusesSet, SetDeviceRow(i, status)
      PROVE  kept
  BY <1>8, <1>10 DEF SetDeviceRow
<1>11. CASE UNCHANGED linkVars
  BY <1>1, <1>8, <1>11 DEF linkVars
<1> HIDE DEF kept
<1> QED
  BY <1>1, <1>2, <1>3, <1>4, <1>5, <1>6, <1>7, <1>9, <1>10, <1>11
     DEF LinkNext, ForceSync, RequestRotation, Flags

LEMMA PhaseStep ==
    LinkTypeOK /\ WaitsOnOwn /\ LinkPhase /\ [LinkNext]_linkVars => LinkPhase'
<1> SUFFICES ASSUME LinkTypeOK, WaitsOnOwn, LinkPhase, [LinkNext]_linkVars,
                    NEW x \in Installs, ~Excused(x)'
             PROVE  OneWriter(x)' /\ TokensMeet(x)'
  BY DEF LinkPhase
<1> DEFINE goal == OneWriter(x)' /\ TokensMeet(x)'
<1>0. /\ apps \in [Installs -> AppType] /\ calls \in [Calls -> CallRecord] /\ NoCall \notin Calls
      /\ devices \in [Installs -> Device] /\ "ROTATE_TOKEN" \in Flags
      /\ OneWriter(x) /\ TokensMeet(x) /\ ~Excused(x)
  BY LinkAssumption, ExcusedStays DEF LinkTypeOK, AppType, Flags, LinkPhase
<1>a. ASSUME NEW i \in Installs, NEW c \in Calls, apps[i].waiting = c
      PROVE  calls[c].step # "FREE" /\ calls[c].install = i /\ (x # i => apps[x].waiting # c)
  BY <1>0, <1>a DEF WaitsOnOwn, Busy
<1>1. ASSUME NEW i \in Installs, NEW c \in Calls, Enrol(i, c) \/ Beat(i, c)
      PROVE  goal
  <2>1. /\ apps' = [apps EXCEPT ![i].waiting = c] /\ UNCHANGED <<devices, unanswered, directives>>
        /\ ~Busy(c) /\ apps[i].waiting = NoCall
    BY <1>1 DEF Enrol, Beat, Idling, WaitsFor
  <2>2. \A d \in Calls \ {c} : calls'[d] = calls[d]
    BY <1>0, <1>1 DEF Enrol, Beat, Proceed
  <2>3. calls'[c].install = i
    BY <1>0, <1>1 DEF Enrol, Beat, Proceed
  <2>4. CASE x # i
    <3>1. apps'[x] = apps[x] /\ apps[x].waiting # c
      BY <1>0, <1>a, <2>1, <2>4 DEF Busy
    <3> QED
      BY <1>0, <2>1, <2>2, <2>3, <2>4, <3>1, PhaseOfOthers
  <2>5. CASE x = i
    <3>1. apps'[x].token = apps[x].token /\ apps'[x].waiting = c
      BY <1>0, <2>1, <2>5 DEF AppType
    <3>2. /\ calls'[c].step \notin {"ROTATE", "REPLACE", "ANSWER"}
          /\ calls'[c].step \in {"COUNTED", "KNOWN"} => apps[x].token = 0
      <4>1. CASE Beat(i, c)
        BY <1>0, <4>1 DEF Beat, Proceed
      <4>2. CASE Enrol(i, c)
        <5> DEFINE row == devices[i]
                   s == CASE row.status \in {"RETIRED", "BLOCKED"} -> "REFUSED"
                              [] row.status = "ACTIVE" -> "KNOWN"
                              [] Cardinality(Enrolled) >= MaxDevices -> "REFUSED"
                              [] OTHER -> "COUNTED"
        <5>1. calls' = [calls EXCEPT ![c] = [install |-> i, step |-> s]]
          BY <4>2 DEF Enrol, Proceed
        <5>2. s \notin {"ROTATE", "REPLACE", "ANSWER"}
          OBVIOUS
        <5> HIDE DEF s
        <5> QED
          BY <1>0, <2>5, <4>2, <5>1, <5>2 DEF Enrol
      <4> QED
        BY <1>1, <4>1, <4>2
    <3>3. \A d \in Calls : Enrols(d, x)' => apps[x].token = 0 /\ apps'[x].waiting = d
      BY <1>0, <2>1, <2>2, <2>5, <3>1, <3>2 DEF Enrols, OneWriter
    <3>4. \A d \in Calls : Rotates(d, x)' =>
             /\ Rotates(d, x) /\ (apps'[x].waiting = d <=> apps[x].waiting = d)
             /\ calls'[d].step = "REPLACE" => calls'[d].was = devices[x].hash
      BY <1>0, <2>1, <2>2, <2>5, <3>1, <3>2 DEF Rotates, TokensMeet, Busy
    <3>5. \A d \in Calls : ~TokenComes(d, x)' /\ ~TokenComes(d, x)
      BY <1>0, <2>1, <2>5, <3>1, <3>2 DEF TokenComes
    <3> QED
      BY <1>0, <2>1, <3>1, <3>3, <3>4, <3>5, PhaseFrame DEF LostRotation
  <2> QED
    BY <2>4, <2>5
(* A call that neither starts nor ends at a step that writes a token.      *)
<1>2. ASSUME NEW c \in Calls, UNCHANGED <<apps, unanswered, directives>>,
             \A d \in Calls \ {c} : calls'[d] = calls[d],
             devices'[x].hash = devices[x].hash, devices'[x].prev = devices[x].prev,
             devices'[x].status = devices[x].status, devices'[x].grace = devices[x].grace,
             ~TokenComes(c, x), ~TokenComes(c, x)', ~Enrols(c, x)',
             Rotates(c, x)' => Rotates(c, x) /\ calls'[c].step = "REPLACE" /\ calls'[c].was = devices[x].hash
      PROVE  goal
  <2>1. \A d \in Calls : Enrols(d, x)' => apps[x].token = 0 /\ apps'[x].waiting = d
    BY <1>0, <1>2 DEF Enrols, OneWriter
  <2>2. \A d \in Calls : Rotates(d, x)' =>
           /\ Rotates(d, x) /\ (apps'[x].waiting = d <=> apps[x].waiting = d)
           /\ calls'[d].step = "REPLACE" => calls'[d].was = devices[x].hash
    BY <1>0, <1>2 DEF Rotates, TokensMeet
  <2>3. \A d \in Calls : /\ TokenComes(d, x)' <=> TokenComes(d, x)
                         /\ TokenComes(d, x) => calls'[d].token = calls[d].token
    BY <1>2 DEF TokenComes
  <2> QED
    BY <1>0, <1>2, <2>1, <2>2, <2>3, PhaseFrame DEF LostRotation
<1>3. ASSUME NEW c \in Calls, HeartbeatRead(c) \/ RotateRead(c) \/ Vanish(c)
      PROVE  goal
  <2>1. /\ UNCHANGED <<apps, devices, unanswered, directives>>
        /\ \A d \in Calls \ {c} : calls'[d] = calls[d]
    BY <1>0, <1>3 DEF HeartbeatRead, RotateRead, Vanish, Proceed
  <2>2. ~TokenComes(c, x)
    BY <1>3, <1>a DEF HeartbeatRead, RotateRead, Vanish, TokenComes, Awaited
  <2>3. /\ calls'[c].step \in {"CLEAR", "REPLACE", "FREE"}
        /\ calls'[c].step = "REPLACE" =>
              /\ calls[c].step = "ROTATE" /\ calls'[c].install = calls[c].install
              /\ calls'[c].was = devices[calls[c].install].hash
    BY <1>0, <1>3 DEF HeartbeatRead, RotateRead, Vanish, Proceed, FreeCall
  <2>4. ~TokenComes(c, x)' /\ ~Enrols(c, x)'
    BY <2>3 DEF TokenComes, Enrols
  <2>5. Rotates(c, x)' => Rotates(c, x) /\ calls'[c].step = "REPLACE" /\ calls'[c].was = devices[x].hash
    BY <2>3 DEF Rotates
  <2> QED
    BY <1>2, <2>1, <2>2, <2>4, <2>5
<1>4. ASSUME NEW c \in Calls, HeartbeatClear(c)
      PROVE  goal
  <2> DEFINE i == calls[c].install
  <2>1. i \in Installs
    BY <1>4, CallShape DEF HeartbeatClear, Busy
  <2>2. /\ devices'[x].hash = devices[x].hash /\ devices'[x].prev = devices[x].prev
        /\ devices'[x].status = devices[x].status /\ devices'[x].grace = devices[x].grace
    <3> DEFINE row == [status |-> devices[i].status, hash |-> devices[i].hash, prev |-> devices[i].prev,
                       grace |-> devices[i].grace, flags |-> {}]
    <3>1. {} \in SUBSET Flags /\ devices' = [devices EXCEPT ![i].flags = {}]
      BY <1>4 DEF HeartbeatClear
    <3> HIDE DEF i
    <3>2. devices' = [devices EXCEPT ![i] = row]
      BY <2>1, <3>1, FlagsWritten
    <3> QED
      BY <1>0, <2>1, <3>2
  <2>3. /\ UNCHANGED <<apps, unanswered, directives>>
        /\ \A d \in Calls \ {c} : calls'[d] = calls[d]
    BY <1>0, <1>4 DEF HeartbeatClear, Return, Proceed
  <2>4. \/ calls'[c].step = "FREE"
        \/ calls'[c].step = "ANSWER" /\ calls'[c].op = "BEAT"
    BY <1>0, <1>4 DEF HeartbeatClear, Return, Proceed, FreeCall
  <2>5. ~TokenComes(c, x) /\ ~TokenComes(c, x)' /\ ~Enrols(c, x)' /\ ~Rotates(c, x)'
    BY <1>4, <2>4 DEF HeartbeatClear, TokenComes, Enrols, Rotates
  <2> QED
    BY <1>2, <2>2, <2>3, <2>5
<1>5. ASSUME NEW c \in Calls, EnrolWrite(c)
      PROVE  goal
  <2> DEFINE i == calls[c].install
             answer == [step |-> "ANSWER", install |-> i, op |-> "TOKEN", token |-> NewToken]
             row == [status |-> StatusKept(devices[i].status), hash |-> NewToken, prev |-> devices[i].prev,
                     grace |-> devices[i].grace, flags |-> devices[i].flags]
  <2>1. i \in Installs /\ calls[c].step \in {"COUNTED", "KNOWN"} /\ UNCHANGED <<apps, unanswered, directives>>
    BY <1>5, CallShape DEF EnrolWrite, Busy
  <2>2. /\ \A d \in Calls \ {c} : calls'[d] = calls[d]
        /\ calls'[c].step = "FREE" \/ calls'[c].install = i
    BY <1>0, <1>5 DEF EnrolWrite, Return, Refusal, Proceed, FreeCall
  <2>3. CASE UNCHANGED devices /\ Return(c, Refusal(c))
    <3>1. calls'[c].step \in {"FREE", "REFUSED"}
      BY <1>0, <2>3 DEF Return, Refusal, Proceed, FreeCall
    <3>2. ~TokenComes(c, x) /\ ~TokenComes(c, x)' /\ ~Enrols(c, x)' /\ ~Rotates(c, x)'
      BY <2>1, <3>1 DEF TokenComes, Enrols, Rotates
    <3> QED
      BY <1>2, <2>1, <2>2, <2>3, <3>2
  <2>4. CASE devices' = [devices EXCEPT ![i] = row] /\ Return(c, answer) /\ NewToken # 0
    <3>1. CASE x # i
      <4>1. devices'[x] = devices[x]
        BY <1>0, <2>4, <3>1
      <4>2. apps[x].waiting # c
        BY <1>a, <2>1, <3>1
      <4> QED
        BY <1>0, <2>1, <2>2, <3>1, <4>1, <4>2, PhaseOfOthers
    <3>2. CASE x = i
      <4>1. apps[x].waiting = c /\ apps[x].token = 0 /\ Awaited(c)
        BY <1>0, <2>1, <3>2 DEF OneWriter, Enrols, Awaited, Busy
      <4>2. calls'[c] = answer
        BY <1>0, <2>4, <4>1 DEF Return, Proceed
      <4>3. ~LostRotation(x) /\ \A d \in Calls : ~Rotates(d, x)
        BY <1>0, <4>1 DEF OneWriter
      <4>4. (~LostRotation(x))' /\ \A d \in Calls : ~Rotates(d, x)' /\ ~Enrols(d, x)'
        <5>1. \A d \in Calls \ {c} : ~Enrols(d, x)
          BY <1>0, <4>1 DEF OneWriter
        <5> QED
          BY <2>1, <2>2, <4>2, <4>3, <5>1 DEF LostRotation, Rotates, Enrols
      <4>5. OneWriter(x)'
        BY <2>1, <4>1, <4>4 DEF OneWriter
      <4>6. \A d \in Calls : TokenComes(d, x)' => d = c
        BY <2>1, <4>1 DEF TokenComes
      <4>7. devices'[x] = row
        BY <1>0, <2>4, <3>2
      <4>8. row.hash = NewToken /\ row.status # "ABSENT"
        BY DEF StatusKept
      <4>9. TokensMeet(x)'
        BY <2>1, <2>4, <4>1, <4>2, <4>4, <4>6, <4>7, <4>8 DEF TokensMeet
      <4> QED
        BY <4>5, <4>9
    <3> QED
      BY <3>1, <3>2
  <2>5. \/ UNCHANGED devices /\ Return(c, Refusal(c))
        \/ devices' = [devices EXCEPT ![i] = row] /\ Return(c, answer) /\ NewToken # 0
    <3>1. CASE UNCHANGED devices /\ Return(c, Refusal(c))
      BY <3>1
    <3>2. CASE /\ devices' = [devices EXCEPT ![i].hash = NewToken,
                                   ![i].status = IF @ = "ABSENT" THEN "ACTIVE" ELSE @]
               /\ Return(c, answer)
      <4>1. NewToken \in Token /\ NewToken # 0
        BY <1>5, LinkAssumption DEF EnrolWrite, LinkTypeOK, NewToken, Token
      <4> HIDE DEF i, answer
      <4> QED
        BY <2>1, <3>2, <4>1, EnrolledWritten DEF i
    <3> QED
      BY <1>5, <3>1, <3>2 DEF EnrolWrite
  <2> QED
    BY <2>3, <2>4, <2>5
<1>6. ASSUME NEW c \in Calls, RotateWrite(c)
      PROVE  goal
  <2> DEFINE i == calls[c].install
             was == calls[c].was
             answer == [step |-> "ANSWER", install |-> i, op |-> "TOKEN", token |-> NewToken]
             row == [status |-> devices[i].status, hash |-> NewToken, prev |-> was, grace |-> TRUE,
                     flags |-> devices[i].flags]
  <2>1. i \in Installs /\ calls[c].step = "REPLACE" /\ UNCHANGED <<apps, unanswered, directives>>
    BY <1>6, CallShape DEF RotateWrite, Busy
  <2>2. /\ \A d \in Calls \ {c} : calls'[d] = calls[d]
        /\ calls'[c] = IF Awaited(c) THEN answer ELSE FreeCall
    BY <1>0, <1>6 DEF RotateWrite, Return, Proceed
  <2>3. devices' = [devices EXCEPT ![i] = row] /\ NewToken # 0
    <3>1. NewToken \in Token /\ NewToken # 0 /\ was \in Token
      BY <1>6, CallShape, LinkAssumption DEF RotateWrite, LinkTypeOK, NewToken, Token
    <3>2. devices' = [devices EXCEPT ![i].prev = was, ![i].hash = NewToken, ![i].grace = TRUE]
      BY <1>6 DEF RotateWrite
    <3> HIDE DEF i, was
    <3> QED
      BY <2>1, <3>1, <3>2, RotatedWritten
  <2>4. CASE x # i
    <3>1. devices'[x] = devices[x]
      BY <1>0, <2>3, <2>4
    <3>2. apps[x].waiting # c
      BY <1>a, <2>1, <2>4
    <3>3. calls'[c].step = "FREE" \/ calls'[c].install # x
      BY <2>2, <2>4 DEF FreeCall
    <3> QED
      BY <1>0, <2>1, <2>2, <3>1, <3>2, <3>3, PhaseOfOthers
  <2>5. CASE x = i
    <3>1. Rotates(c, x)
      BY <2>1, <2>5 DEF Rotates
    <3>2. /\ apps[x].token # 0 /\ directives[x].done["ROTATE_TOKEN"] # 0
          /\ apps[x].token = devices[x].hash /\ was = devices[x].hash
          /\ apps[x].waiting = c <=> ~LostRotation(x)
          /\ \A d \in Calls : ~Enrols(d, x) /\ (Rotates(d, x) => d = c)
          /\ devices[x].status # "ABSENT"
      BY <1>0, <2>1, <3>1 DEF OneWriter, TokensMeet
    <3>3. Awaited(c) <=> ~LostRotation(x)
      BY <2>1, <2>5, <3>2 DEF Awaited, Busy
    <3>4. \A d \in Calls : ~Rotates(d, x)' /\ ~Enrols(d, x)'
      BY <2>2, <3>2 DEF Rotates, Enrols, FreeCall
    <3>5. \A d \in Calls : TokenComes(d, x)' => d = c /\ Awaited(c)
      <4>1. \A d \in Calls : ~TokenComes(d, x)
        BY <1>0, <3>1 DEF OneWriter
      <4>2. ASSUME NEW d \in Calls, TokenComes(d, x)'
            PROVE  d = c /\ Awaited(c)
        <5>1. d = c
          BY <2>1, <2>2, <4>1, <4>2 DEF TokenComes
        <5>2. ~Awaited(c) => calls'[c].step = "FREE"
          BY <2>2 DEF FreeCall
        <5> QED
          BY <4>2, <5>1, <5>2 DEF TokenComes
      <4> QED
        BY <4>2
    <3>6. LostRotation(x)' <=> LostRotation(x)
      BY <2>1 DEF LostRotation
    <3>7. OneWriter(x)'
      BY <2>1, <3>2, <3>3, <3>4, <3>5, <3>6 DEF OneWriter
    <3>8. devices'[x] = row
      BY <1>0, <2>3, <2>5
    <3>9. Awaited(c) => TokenComes(c, x)'
      BY <2>1, <2>2, <3>2, <3>3 DEF TokenComes
    <3>10. TokensMeet(x)'
      BY <2>1, <2>2, <2>3, <2>5, <3>2, <3>3, <3>4, <3>5, <3>6, <3>8, <3>9 DEF TokensMeet
    <3> QED
      BY <3>7, <3>10
  <2> QED
    BY <2>4, <2>5
(* An answer the app makes use of, or none: the others go on as before.    *)
<1>7. ASSUME NEW i \in Installs, NEW c \in Calls, x # i,
             HeartbeatAnswer(i, c) \/ TokenAnswer(i, c) \/ Refused(i, c) \/ GiveUp(i, c)
      PROVE  goal
  <2>1. /\ apps[i].waiting = c /\ UNCHANGED devices /\ unanswered'[x] = unanswered[x]
        /\ \A d \in Calls \ {c} : calls'[d] = calls[d]
    BY <1>0, <1>7 DEF HeartbeatAnswer, TokenAnswer, Refused, GiveUp, Proceed, LinkTypeOK
  <2>2. apps[x].waiting # c /\ calls[c].install = i
    BY <1>7, <1>a, <2>1
  <2>3. calls'[c].step = "FREE" \/ calls'[c].install = i
    BY <1>0, <1>7, <2>2 DEF HeartbeatAnswer, TokenAnswer, Refused, GiveUp, Proceed, FreeCall
  <2>4. apps'[x] = apps[x]
    <3>1. CASE HeartbeatAnswer(i, c)
      BY <1>0, <1>7, <3>1 DEF HeartbeatAnswer, WaitsFor
    <3>2. CASE TokenAnswer(i, c) \/ Refused(i, c) \/ GiveUp(i, c)
      BY <1>7, <3>2, ComesToRest
    <3> QED
      BY <1>7, <3>1, <3>2
  <2>5. directives'[x].done["ROTATE_TOKEN"] = directives[x].done["ROTATE_TOKEN"]
    <3> DEFINE actions == ActionsFor(calls[c].flags)
    <3>1. CASE CarryOut(i, "ROTATE_TOKEN")
      BY <1>0, <1>7, <3>1, Carried
    <3>2. CASE DoWork(i, actions)
      BY <1>0, <3>2, Worked
    <3>3. CASE DoWork(i, apps[i].todo)
      BY <1>0, <3>3, Worked
    <3>4. CASE UNCHANGED directives
      BY <3>4
    <3> QED
      BY <1>7, <3>1, <3>2, <3>3, <3>4 DEF HeartbeatAnswer, TokenAnswer, Refused, GiveUp
  <2> QED
    BY <1>0, <1>7, <2>1, <2>2, <2>3, <2>4, <2>5, PhaseOfOthers
(* A call that is over and brought no token.                               *)
<1>8. ASSUME NEW c \in Calls, apps[x].waiting = c, calls[c].step \in {"ANSWER", "REFUSED", "BEAT", "CLEAR"},
             ~TokenComes(c, x), apps'[x].waiting = NoCall, apps'[x].token = apps[x].token,
             UNCHANGED devices, LostRotation(x)' <=> LostRotation(x),
             directives'[x].done["ROTATE_TOKEN"] = directives[x].done["ROTATE_TOKEN"],
             \A d \in Calls : calls'[d] = calls[d] \/ calls'[d].step = "FREE"
      PROVE  goal
  <2>1. \A d \in Calls : ~Enrols(d, x)'
    BY <1>0, <1>8 DEF Enrols, OneWriter
  <2>2. \A d \in Calls : Rotates(d, x)' =>
           /\ Rotates(d, x) /\ (apps'[x].waiting = d <=> apps[x].waiting = d)
           /\ calls'[d].step = "REPLACE" => calls'[d].was = devices[x].hash
    BY <1>0, <1>8 DEF Rotates, TokensMeet
  <2>3. \A d \in Calls : ~TokenComes(d, x) /\ ~TokenComes(d, x)'
    BY <1>0, <1>8 DEF TokenComes
  <2> QED
    BY <1>0, <1>8, <2>1, <2>2, <2>3, PhaseFrame
<1>9. ASSUME NEW c \in Calls, HeartbeatAnswer(x, c)
      PROVE  goal
  <2> DEFINE actions == ActionsFor(calls[c].flags)
  <2>1. /\ apps[x].waiting = c /\ calls[c].step = "ANSWER" /\ ~TokenComes(c, x) /\ calls[c].install = x
        /\ UNCHANGED <<devices, unanswered>> /\ (LostRotation(x)' <=> LostRotation(x))
    BY <1>9, <1>a DEF HeartbeatAnswer, TokenComes, LostRotation
  <2>2. CASE DoWork(x, actions) /\ Proceed(c, FreeCall) /\ WaitsFor(x, NoCall)
    <3>1. directives'[x].done["ROTATE_TOKEN"] = directives[x].done["ROTATE_TOKEN"]
      BY <1>0, <2>2, Worked
    <3>2. /\ apps'[x].waiting = NoCall /\ apps'[x].token = apps[x].token
          /\ \A d \in Calls : calls'[d] = calls[d] \/ calls'[d].step = "FREE"
      BY <1>0, <2>2 DEF WaitsFor, Proceed, FreeCall, AppType
    <3> QED
      BY <1>8, <2>1, <3>1, <3>2
  <2>3. CASE /\ CarryOut(x, "ROTATE_TOKEN")
             /\ apps' = [apps EXCEPT ![x].todo = actions]
             /\ Proceed(c, [install |-> x,
                      step |-> IF Admits(devices[x], apps[x].token) THEN "ROTATE" ELSE "REFUSED"])
    <3>1. /\ directives'[x].done["ROTATE_TOKEN"] = directives[x].done["ROTATE_TOKEN"] + 1
          /\ directives[x].done["ROTATE_TOKEN"] \in Nat
      BY <1>0, <2>3, Carried DEF LinkTypeOK
    <3>2. apps'[x].waiting = c /\ apps'[x].token = apps[x].token
      BY <1>0, <2>1, <2>3 DEF AppType
    <3>3. /\ calls'[c].step \in {"ROTATE", "REFUSED"} /\ calls'[c].install = x
          /\ calls'[c].step = "ROTATE" => Admits(devices[x], apps[x].token)
          /\ \A d \in Calls \ {c} : calls'[d] = calls[d]
      BY <1>0, <2>3 DEF Proceed
    <3>4. ~LostRotation(x) /\ directives'[x].done["ROTATE_TOKEN"] # 0
      <4>1. CASE directives[x].done["ROTATE_TOKEN"] = 0
        BY <1>0, <3>1, <4>1 DEF OneWriter
      <4>2. CASE directives[x].done["ROTATE_TOKEN"] # 0
        BY <2>1, <3>1, <4>2 DEF Excused
      <4> QED
        BY <3>1, <4>1, <4>2
    <3>5. \A d \in Calls : ~TokenComes(d, x) /\ ~Rotates(d, x) /\ ~Enrols(d, x)
      BY <1>0, <2>1, <3>4 DEF OneWriter, TokenComes, Rotates, Enrols
    <3>6. apps[x].token # 0 => apps[x].token = devices[x].hash
      BY <1>0, <3>4, <3>5 DEF TokensMeet
    <3>7. \A d \in Calls : ~TokenComes(d, x)' /\ ~Enrols(d, x)' /\ (Rotates(d, x)' => d = c)
      BY <2>1, <3>2, <3>3, <3>5 DEF TokenComes, Enrols, Rotates
    <3>8. Rotates(c, x)' => apps[x].token # 0 /\ calls'[c].step = "ROTATE"
      BY <3>3 DEF Rotates, Admits, Accepts
    <3>9. OneWriter(x)'
      BY <2>1, <3>2, <3>4, <3>7, <3>8 DEF OneWriter
    <3>10. TokensMeet(x)'
      BY <1>0, <2>1, <3>2, <3>6, <3>7, <3>8 DEF TokensMeet
    <3> QED
      BY <3>9, <3>10
  <2> QED
    BY <1>9, <2>2, <2>3 DEF HeartbeatAnswer
<1>10. ASSUME NEW c \in Calls, TokenAnswer(x, c)
      PROVE  goal
  <2>1. /\ apps[x].waiting = c /\ TokenComes(c, x) /\ UNCHANGED <<devices, unanswered>>
        /\ \A d \in Calls : calls'[d] = calls[d] \/ calls'[d].step = "FREE"
    BY <1>0, <1>10 DEF TokenAnswer, TokenComes, Proceed, FreeCall
  <2>2. /\ ~LostRotation(x) /\ (\A d \in Calls : ~Rotates(d, x) /\ ~Enrols(d, x))
        /\ calls[c].token = devices[x].hash /\ devices[x].hash # 0 /\ devices[x].status # "ABSENT"
    <3>1. \A d \in Calls : ~Enrols(d, x)
      BY <1>0, <2>1 DEF OneWriter, Enrols, TokenComes
    <3> QED
      BY <1>0, <2>1, <3>1 DEF OneWriter, TokensMeet
  <2>3. apps'[x].waiting = NoCall /\ apps'[x].token = calls[c].token
    BY <1>10, ComesToRest
  <2>4. \A d \in Calls : ~TokenComes(d, x)' /\ ~Rotates(d, x)' /\ ~Enrols(d, x)'
    BY <1>0, <2>1, <2>2, <2>3 DEF TokenComes, Rotates, Enrols
  <2>5. (~LostRotation(x))'
    BY <2>1, <2>2 DEF LostRotation
  <2>6. OneWriter(x)'
    BY <2>4, <2>5 DEF OneWriter
  <2>7. TokensMeet(x)'
    BY <2>1, <2>2, <2>3, <2>4 DEF TokensMeet
  <2> QED
    BY <2>6, <2>7
<1>11. ASSUME NEW c \in Calls, Refused(x, c)
      PROVE  goal
  <2>1. /\ apps[x].waiting = c /\ calls[c].step = "REFUSED" /\ ~TokenComes(c, x)
        /\ UNCHANGED <<devices, unanswered>> /\ (LostRotation(x)' <=> LostRotation(x))
        /\ \A d \in Calls : calls'[d] = calls[d] \/ calls'[d].step = "FREE"
    BY <1>0, <1>11 DEF Refused, TokenComes, LostRotation, Proceed, FreeCall
  <2>2. directives'[x].done["ROTATE_TOKEN"] = directives[x].done["ROTATE_TOKEN"]
    BY <1>0, <1>11, Worked DEF Refused
  <2>3. apps'[x].waiting = NoCall /\ apps'[x].token = apps[x].token
    BY <1>11, ComesToRest
  <2> QED
    BY <1>8, <2>1, <2>2, <2>3
<1>12. ASSUME NEW c \in Calls, GiveUp(x, c)
      PROVE  goal
  <2>1. /\ apps[x].waiting = c /\ calls[c].step # "FREE" /\ calls[c].install = x /\ UNCHANGED devices
        /\ unanswered'[x] = unanswered[x] \cup Doubt(x, c)
        /\ \A d \in Calls : calls'[d] = calls[d] \/ calls'[d].step = "FREE"
        /\ calls[c].step = "ANSWER" => calls'[c].step = "FREE"
    BY <1>0, <1>12, <1>a DEF GiveUp, FreeCall, LinkTypeOK
  <2>2. apps[x].token # 0
    BY <2>1 DEF Doubt, Excused
  <2>3. directives'[x].done["ROTATE_TOKEN"] = directives[x].done["ROTATE_TOKEN"]
    <3>1. CASE DoWork(x, apps[x].todo)
      BY <1>0, <3>1, Worked
    <3>2. CASE UNCHANGED directives
      BY <3>2
    <3> QED
      BY <1>12, <3>1, <3>2 DEF GiveUp
  <2>4. apps'[x].waiting = NoCall /\ apps'[x].token = apps[x].token
    BY <1>12, ComesToRest
  <2>5. CASE ~Rotates(c, x) /\ ~TokenComes(c, x)
    <3>1. Doubt(x, c) = {}
      BY <2>1, <2>2, <2>5 DEF Doubt, Rotates, TokenComes
    <3>2. LostRotation(x)' <=> LostRotation(x)
      BY <2>1, <3>1 DEF LostRotation
    <3>3. calls[c].step \in {"ANSWER", "REFUSED", "BEAT", "CLEAR"}
      <4>1. ~Enrols(c, x)
        BY <1>0, <2>2 DEF OneWriter
      <4>2. calls[c].step \in {"COUNTED", "KNOWN", "BEAT", "ROTATE", "CLEAR", "REPLACE", "ANSWER", "REFUSED"}
        <5>1. calls[c] \in CallRecord
          BY <1>0
        <5> QED
          BY <2>1, <5>1 DEF CallRecord
      <4> QED
        BY <2>1, <2>5, <4>1, <4>2 DEF Enrols, Rotates
    <3> QED
      BY <1>8, <2>1, <2>3, <2>4, <2>5, <3>2, <3>3
  <2>6. CASE Rotates(c, x) \/ TokenComes(c, x)
    <3>1. Doubt(x, c) = {"ROTATE"}
      BY <2>2, <2>6 DEF Doubt, Rotates, TokenComes
    <3>2. LostRotation(x)'
      BY <2>1, <3>1 DEF LostRotation
    <3>3. directives[x].done["ROTATE_TOKEN"] # 0
      BY <1>0, <2>2, <2>6 DEF OneWriter
    <3>4. \A d \in Calls : ~TokenComes(d, x)' /\ ~Enrols(d, x)' /\ (Rotates(d, x)' => Rotates(d, x))
      BY <1>0, <2>1, <2>2, <2>4 DEF TokenComes, Enrols, Rotates, OneWriter
    <3>5. OneWriter(x)'
      BY <1>0, <2>2, <2>3, <2>4, <3>2, <3>3, <3>4 DEF OneWriter
    <3>6. \A d \in Calls : Rotates(d, x)' => calls'[d] = calls[d]
      BY <2>1 DEF Rotates
    <3>7. TokensMeet(x)'
      BY <1>0, <2>1, <2>4, <3>2, <3>4, <3>6 DEF TokensMeet
    <3> QED
      BY <3>5, <3>7
  <2> QED
    BY <2>5, <2>6
<1>13. ASSUME NEW i \in Installs, Wipe(i)
      PROVE  goal
  <2>1. x # i
    BY <1>0, <1>13 DEF Wipe, Excused
  <2>2. UNCHANGED <<devices, unanswered, directives>> /\ apps'[x] = apps[x]
    BY <1>0, <1>13, <2>1 DEF Wipe
  <2>3. \A c \in Calls : \/ calls'[c] = calls[c]
                         \/ calls'[c].step = "FREE" /\ apps[i].waiting = c
    BY <1>13 DEF Wipe, FreeCall
  <2>4. \A c \in Calls : apps[i].waiting = c => apps[x].waiting # c
    BY <1>a, <2>1
  <2> QED
    BY <1>0, <2>2, <2>3, <2>4, PhaseOfOthers
(* Steps that leave the apps and the calls.                                *)
<1>14. ASSUME UNCHANGED <<apps, calls, unanswered>>,
              directives'[x].done["ROTATE_TOKEN"] = directives[x].done["ROTATE_TOKEN"],
              devices'[x].hash = devices[x].hash, devices'[x].prev = devices[x].prev,
              devices[x].status # "ABSENT" => devices'[x].status # "ABSENT",
              devices'[x].grace = devices[x].grace \/ apps[x].waiting = NoCall
       PROVE  goal
  <2>1. \A c \in Calls : /\ Enrols(c, x)' <=> Enrols(c, x)
                         /\ Rotates(c, x)' <=> Rotates(c, x)
                         /\ TokenComes(c, x)' <=> TokenComes(c, x)
    BY <1>14 DEF Enrols, Rotates, TokenComes
  <2>2. devices[x].grace => devices'[x].grace \/ \A c \in Calls : ~TokenComes(c, x)
    BY <1>0, <1>14 DEF TokenComes
  <2>3. LostRotation(x)' <=> LostRotation(x)
    BY <1>14 DEF LostRotation
  <2>4. /\ \A c \in Calls : Enrols(c, x) => apps[x].token = 0 /\ apps[x].waiting = c
        /\ \A c \in Calls : Rotates(c, x) => (calls[c].step = "REPLACE" => calls[c].was = devices[x].hash)
    BY <1>0 DEF OneWriter, TokensMeet
  <2> QED
    BY <1>0, <1>14, <2>1, <2>2, <2>3, <2>4, PhaseFrame
<1>15. ASSUME NEW i \in Installs, GraceEnds(i)
      PROVE  goal
  <2> DEFINE row == [status |-> devices[i].status, hash |-> devices[i].hash, prev |-> devices[i].prev,
                     grace |-> FALSE, flags |-> devices[i].flags]
  <2>1. devices' = [devices EXCEPT ![i] = row]
    BY <1>15, GraceWritten DEF GraceEnds
  <2>2. /\ devices'[x].hash = devices[x].hash /\ devices'[x].prev = devices[x].prev
        /\ devices'[x].status = devices[x].status
        /\ devices'[x].grace = devices[x].grace \/ apps[x].waiting = NoCall
    <3>1. CASE x = i
      <4>1. devices'[x] = row /\ apps[x].waiting = NoCall
        BY <1>0, <1>15, <2>1, <3>1 DEF GraceEnds
      <4> QED
        BY <3>1, <4>1
    <3>2. CASE x # i
      <4>1. devices'[x] = devices[x]
        BY <1>0, <2>1, <3>2
      <4> QED
        BY <4>1
    <3> QED
      BY <3>1, <3>2
  <2> QED
    BY <1>14, <1>15, <2>2 DEF GraceEnds
<1>16. ASSUME NEW i \in Installs, NEW status \in StatusesSet, SetDeviceRow(i, status)
      PROVE  goal
  <2> DEFINE row == [status |-> status, hash |-> devices[i].hash, prev |-> devices[i].prev,
                     grace |-> devices[i].grace, flags |-> devices[i].flags]
  <2>0. status \in RowStatus /\ status # "ABSENT"
    BY LinkAssumption DEF RowStatus
  <2>1. devices' = [devices EXCEPT ![i] = row]
    BY <1>16, <2>0, StatusWritten DEF SetDeviceRow
  <2>2. /\ devices'[x].hash = devices[x].hash /\ devices'[x].prev = devices[x].prev
        /\ devices[x].status # "ABSENT" => devices'[x].status # "ABSENT"
        /\ devices'[x].grace = devices[x].grace
    BY <1>0, <2>0, <2>1
  <2> QED
    BY <1>14, <1>16, <2>2 DEF SetDeviceRow
<1>17. ASSUME NEW i \in Installs, NEW f \in Flags, RequestDirective(i, f)
      PROVE  goal
  <2> DEFINE flags == devices[i].flags \cup {f}
             row == [status |-> devices[i].status, hash |-> devices[i].hash, prev |-> devices[i].prev,
                     grace |-> devices[i].grace, flags |-> flags]
  <2>0. flags \in SUBSET Flags /\ devices' = [devices EXCEPT ![i].flags = flags]
    BY <1>0, <1>17 DEF RequestDirective, Device
  <2> HIDE DEF flags
  <2>1. devices' = [devices EXCEPT ![i] = row]
    BY <2>0, FlagsWritten
  <2>2. /\ devices'[x].hash = devices[x].hash /\ devices'[x].prev = devices[x].prev
        /\ devices'[x].status = devices[x].status /\ devices'[x].grace = devices[x].grace
    BY <1>0, <2>1
  <2>3. directives'[x].done["ROTATE_TOKEN"] = directives[x].done["ROTATE_TOKEN"]
    BY <1>0, <1>17, RequestMade
  <2> QED
    BY <1>14, <1>17, <2>2, <2>3 DEF RequestDirective
<1>18. CASE UNCHANGED linkVars
  BY <1>14, <1>18 DEF linkVars
<1> QED
  <2>1. ASSUME NEW i \in Installs, NEW c \in Calls,
               HeartbeatAnswer(i, c) \/ TokenAnswer(i, c) \/ Refused(i, c) \/ GiveUp(i, c)
        PROVE  goal
    BY <1>7, <1>9, <1>10, <1>11, <1>12, <2>1
  <2> HIDE DEF goal
  <2>2. goal
    <3>1. ASSUME NEW i \in Installs, NEW c \in Calls,
                 \/ Enrol(i, c) \/ Beat(i, c) \/ HeartbeatAnswer(i, c)
                 \/ TokenAnswer(i, c) \/ Refused(i, c) \/ GiveUp(i, c)
          PROVE  goal
      BY <1>1, <1>3, <2>1, <3>1
    <3>2. ASSUME NEW c \in Calls,
                 \/ EnrolWrite(c) \/ HeartbeatRead(c) \/ HeartbeatClear(c)
                 \/ RotateRead(c) \/ RotateWrite(c) \/ Vanish(c)
          PROVE  goal
      BY <1>1, <1>3, <1>4, <1>5, <1>6, <3>2
    <3>3. ASSUME NEW i \in Installs, Wipe(i) \/ GraceEnds(i) \/ RequestRotation(i) \/ ForceSync(i)
          PROVE  goal
      BY <1>13, <1>15, <1>17, <3>3 DEF ForceSync, RequestRotation, Flags
    <3>4. CASE LinkNext
      <4>1. CASE \E i \in Installs, c \in Calls :
                    \/ Enrol(i, c) \/ Beat(i, c) \/ HeartbeatAnswer(i, c)
                    \/ TokenAnswer(i, c) \/ Refused(i, c) \/ GiveUp(i, c)
        BY <3>1, <4>1
      <4>2. CASE \E c \in Calls :
                    \/ EnrolWrite(c) \/ HeartbeatRead(c) \/ HeartbeatClear(c)
                    \/ RotateRead(c) \/ RotateWrite(c) \/ Vanish(c)
        BY <3>2, <4>2
      <4>3. CASE \E i \in Installs : Wipe(i) \/ GraceEnds(i) \/ RequestRotation(i) \/ ForceSync(i)
        BY <3>3, <4>3
      <4>4. CASE \E i \in Installs, status \in StatusesSet : SetDeviceRow(i, status)
        BY <1>16, <4>4
      <4> QED
        BY <3>4, <4>1, <4>2, <4>3, <4>4 DEF LinkNext
    <3>5. CASE UNCHANGED linkVars
      BY <1>18, <3>5 DEF goal
    <3> QED
      BY <3>4, <3>5
  <2> QED
    BY <2>2 DEF goal

LEMMA LinkInitInv == LinkInit => LinkInv
<1> SUFFICES ASSUME LinkInit
             PROVE  LinkInv
  OBVIOUS
<1>1. LinkTypeOK
  BY LinkInitTyped
<1>2. WaitsOnOwn /\ RestAfterRotation
  BY DEF LinkInit, WaitsOnOwn, RestAfterRotation
<1>3. RequestsCover
  <2> SUFFICES ASSUME NEW i \in Installs, NEW f \in Flags
               PROVE  directives[i].done[f] + OneIf(MayBeAnswered(i, f)) + OneIf(MayBeCarriedOut(i, f))
                         <= directives[i].requested[f]
    BY DEF RequestsCover
  <2>1. ~MayBeAnswered(i, f) /\ ~MayBeCarriedOut(i, f)
    BY DEF LinkInit, MayBeAnswered, MayBeCarriedOut, NoDevice, FreeCall
  <2>2. directives[i].done[f] = 0 /\ directives[i].requested[f] = 0
    BY DEF LinkInit
  <2> QED
    BY <2>1, <2>2 DEF OneIf
<1>4. LinkPhase
  <2> SUFFICES ASSUME NEW i \in Installs
               PROVE  OneWriter(i) /\ TokensMeet(i)
    BY DEF LinkPhase
  <2>1. \A c \in Calls : ~Enrols(c, i) /\ ~Rotates(c, i) /\ ~TokenComes(c, i)
    BY DEF LinkInit, FreeCall, Enrols, Rotates, TokenComes
  <2>2. apps[i].token = 0 /\ ~LostRotation(i)
    BY DEF LinkInit, LostRotation
  <2> QED
    BY <2>1, <2>2 DEF OneWriter, TokensMeet
<1> QED
  BY <1>1, <1>2, <1>3, <1>4 DEF LinkInv

LEMMA LinkHolds == LinkSpec => []LinkInv
<1>1. LinkInv /\ [LinkNext]_linkVars => LinkInv'
  BY LinkStepTyped, WaitsStep, RestStep, RequestsStep, PhaseStep DEF LinkInv
<1> QED
  BY <1>1, LinkInitInv, PTL DEF LinkSpec

(* DirectiveOnce: whichever answers are lost or overtaken, no phone does   *)
(* more often what was asked than it was asked.                            *)
THEOREM AskedDoneOnce == LinkSpec => []DirectiveOnce
<1>1. LinkInv => DirectiveOnce
  <2> SUFFICES ASSUME LinkInv, NEW i \in Installs, NEW f \in Flags
               PROVE  directives[i].done[f] <= directives[i].requested[f]
    BY DEF DirectiveOnce
  <2>1. directives[i].done[f] \in Nat /\ directives[i].requested[f] \in Nat
    BY DEF LinkInv, LinkTypeOK
  <2> QED
    BY <2>1 DEF LinkInv, RequestsCover, OneIf
<1> QED
  BY <1>1, LinkHolds, PTL

(* LinkKept: however heartbeats, enrolments and rotations overlap and are  *)
(* given up, the token the app stores is one the guard accepts.            *)
THEOREM TokenStaysAccepted == LinkSpec => []LinkKept
<1>1. LinkInv => LinkKept
  <2> SUFFICES ASSUME LinkInv, NEW i \in Installs, apps[i].token # 0
               PROVE  \/ Accepts(devices[i], apps[i].token)
                      \/ "ENROL" \in unanswered[i]
                      \/ /\ "ROTATE" \in unanswered[i]
                         /\ directives[i].done["ROTATE_TOKEN"] > 1 \/ ~devices[i].grace
    BY DEF LinkKept
  <2>1. CASE Excused(i)
    BY <2>1 DEF Excused, LostRotation, LinkInv, WaitsOnOwn
  <2>2. CASE ~Excused(i)
    BY <2>2 DEF LinkInv, LinkPhase, TokensMeet, Accepts, LostRotation
  <2> QED
    BY <2>1, <2>2
<1> QED
  BY <1>1, LinkHolds, PTL

-----------------------------------------------------------------------------
(* The heuristic pass                                                      *)

(* The pass weighs one message against given orders and answers once.      *)
ScoringInv ==
    /\ orders \in [Orders -> OrderFacts]
    /\ sms \in MessageFacts
    /\ settings \in CompanySettings
    /\ Decided => decision \in Strategy(Considered(sms, settings), sms, settings)

LEMMA ScoringStep == ScoringInv /\ [Run]_vars => ScoringInv'
<1> SUFFICES ASSUME ScoringInv, [Run]_vars
             PROVE  ScoringInv'
  OBVIOUS
<1>1. UNCHANGED <<orders, sms, settings>>
  BY DEF Run, vars
<1>2. Strategy(Considered(sms, settings), sms, settings)'
        = Strategy(Considered(sms, settings), sms, settings)
  BY <1>1 DEF Strategy, Considered, Wins, Score, Rivals, InWindow, AmountSignal, SenderMatches,
              TimeSignal, ProviderSignal
<1> QED
  BY <1>1, <1>2 DEF ScoringInv, Run, vars, Decided

LEMMA ScoringInvariant == Spec => []ScoringInv
<1>1. Init => ScoringInv
  BY CandidatesAssumption, MessagesAssumption, SettingsAssumption DEF Init, ScoringInv, Decided
<1> QED
  BY <1>1, ScoringStep, PTL DEF Spec

(* Each signal is at most one whole.                                       *)
LEMMA SignalsBounded ==
    ASSUME NEW order \in OrderFacts, NEW m \in MessageFacts, NEW window \in Nat
    PROVE  /\ AmountSignal(order, m) \in 0 .. Grid
           /\ TimeSignal(order, m, window) \in 0 .. Grid
           /\ ProviderSignal(order, m) \in 0 .. Grid
<1> USE GridAssumption
<1>1. \A n \in Int : Clamp(n, Grid) \in 0 .. Grid
  BY DEF Clamp
<1>2. AmountSignal(order, m) \in 0 .. Grid
  <2> DEFINE diff == Abs(m.amount - order.amount)
  <2>1. diff \in Int /\ order.tolerance \in Nat
    BY DEF Abs, OrderFacts, MessageFacts
  <2>2. order.tolerance # 0 => (Grid * (order.tolerance - diff)) \div order.tolerance \in Int
    BY <2>1
  <2> HIDE DEF diff
  <2> QED
    BY <1>1, <2>1, <2>2 DEF AmountSignal, diff
<1>3. TimeSignal(order, m, window) \in 0 .. Grid
  <2> DEFINE age == IF m.at < order.created THEN 0 ELSE m.at - order.created
  <2>1. age \in Int
    BY DEF OrderFacts, MessageFacts
  <2>2. window # 0 => (Grid * (window - age)) \div window \in Int
    BY <2>1
  <2> HIDE DEF age
  <2>3. Weight(age = 0, 1) \in 0 .. Grid
    BY DEF Weight
  <2> QED
    BY <1>1, <2>1, <2>2, <2>3 DEF TimeSignal, age
<1>4. ProviderSignal(order, m) \in 0 .. Grid
  BY DEF ProviderSignal
<1> QED
  BY <1>2, <1>3, <1>4

(* An order with a rival scores 70 of 100 at most.                         *)
LEMMA RivalCapsScore ==
    ASSUME ScoringInv, NEW C \in SUBSET Orders, NEW o \in C, Rivals(o, C, sms) # {}
    PROVE  /\ Score(o, C, sms, settings.window) \in Int
           /\ Score(o, C, sms, settings.window) <= 70 * Grid
<1> DEFINE a == AmountSignal(orders[o], sms)
           s == Weight(SenderMatches(orders[o], sms), 30)
           t == TimeSignal(orders[o], sms, settings.window)
           p == ProviderSignal(orders[o], sms)
           r == Weight(sms.amount \in RoundAmounts /\ C # {o}, 10)
<1>1. a \in 0 .. Grid /\ t \in 0 .. Grid /\ p \in 0 .. Grid
  BY SignalsBounded DEF ScoringInv, CompanySettings
<1>2. s \in 0 .. 30 * Grid /\ r \in 0 .. 10 * Grid
  BY GridAssumption DEF Weight
<1>3. Score(o, C, sms, settings.window) = Clamp(45 * a + s + 15 * t + 10 * p - 30 * Grid - r, 100 * Grid)
  BY DEF Score, Weight
<1> HIDE DEF a, s, t, p, r
<1> QED
  BY <1>1, <1>2, <1>3, GridAssumption DEF Clamp

LEMMA ScoreTyped ==
    ASSUME ScoringInv, NEW C \in SUBSET Orders, NEW o \in C
    PROVE  Score(o, C, sms, settings.window) \in Int
<1> DEFINE a == AmountSignal(orders[o], sms)
           s == Weight(SenderMatches(orders[o], sms), 30)
           t == TimeSignal(orders[o], sms, settings.window)
           p == ProviderSignal(orders[o], sms)
           q == Weight(Rivals(o, C, sms) # {}, 30)
           r == Weight(sms.amount \in RoundAmounts /\ C # {o}, 10)
<1>1. a \in 0 .. Grid /\ t \in 0 .. Grid /\ p \in 0 .. Grid
  BY SignalsBounded DEF ScoringInv, CompanySettings
<1>2. s \in Int /\ q \in Int /\ r \in Int
  BY GridAssumption DEF Weight
<1>3. Score(o, C, sms, settings.window) = Clamp(45 * a + s + 15 * t + 10 * p - q - r, 100 * Grid)
  BY DEF Score
<1> HIDE DEF a, s, t, p, q, r
<1> QED
  BY <1>1, <1>2, <1>3, GridAssumption DEF Clamp

LEMMA ReviewsCollisions == ScoringInv => CollisionIsReviewed
<1> SUFFICES ASSUME ScoringInv, NEW o \in VerifiedNow, settings.threshold > 70,
                    NEW p \in Considered(sms, settings) \ {o},
                    orders[p].sender \in {None, sms.sender}
             PROVE  FALSE
  BY DEF CollisionIsReviewed
<1> DEFINE C == Considered(sms, settings)
<1>1. /\ o \in Orders /\ decision = Verified(o, "HEURISTIC_AMOUNT_WINDOW")
      /\ decision \in Strategy(C, sms, settings)
  BY DEF VerifiedNow, ScoringInv
<1>2. o \in C /\ Wins(o, C, sms, settings)
  <2> HIDE DEF C
  <2>1. PICK w \in C : /\ Wins(w, C, sms, settings)
                       /\ decision = Verified(w, "HEURISTIC_AMOUNT_WINDOW")
    BY <1>1 DEF Strategy, Verified, ReviewOf, Review, Unmatched
  <2>2. o = w
    BY <1>1, <2>1 DEF Verified
  <2> QED
    BY <2>1, <2>2
<1>3. C \in SUBSET Orders /\ p \in Rivals(o, C, sms)
  <2>1. p \in C /\ p \in Orders /\ Abs(orders[p].amount - sms.amount) <= orders[p].tolerance
    BY DEF Considered
  <2>2. Abs(sms.amount - orders[p].amount) = Abs(orders[p].amount - sms.amount)
    BY <2>1 DEF Abs, ScoringInv, OrderFacts, MessageFacts
  <2> QED
    BY <2>1, <2>2 DEF Considered, Rivals
<1> HIDE DEF C
<1>4. Score(o, C, sms, settings.window) \in Int /\ Score(o, C, sms, settings.window) <= 70 * Grid
  BY <1>2, <1>3, RivalCapsScore
<1>5. Score(o, C, sms, settings.window) >= settings.threshold * Grid
  BY <1>2 DEF Wins
<1>6. settings.threshold \in Nat
  BY DEF ScoringInv, CompanySettings
<1> QED
  BY <1>4, <1>5, <1>6, GridAssumption

(* With a threshold above 0.70 the pass never verifies an order while      *)
(* another one it considered could be the payee, for any orders, message   *)
(* and settings (collision penalty against auto_verify_min_confidence).    *)
THEOREM CollisionsGoToReview == Spec => []CollisionIsReviewed
BY ReviewsCollisions, ScoringInvariant, PTL

LEMMA AnswerIsAbstract == ScoringInv => AbstractionSound
<1> SUFFICES ASSUME ScoringInv
             PROVE  AbstractionSound
  OBVIOUS
<1> DEFINE C == Considered(sms, settings)
           answer == Strategy(C, sms, settings)
           rows == [o \in Orders |-> [status |-> "PENDING", trx |-> None, amount |-> orders[o].amount]]
           winners == {o \in C : Wins(o, C, sms, settings) /\ Cardinality(C) < CandidateCap}
<1>1. C \in SUBSET Orders
  BY DEF Considered
<1>2. ASSUME NEW o \in winners, NEW p \in winners
      PROVE  o = p
  <2>1. /\ Score(o, C, sms, settings.window) \in Int
        /\ Score(p, C, sms, settings.window) \in Int
    BY <1>1, <1>2, ScoreTyped
  <2>2. o # p => /\ Score(o, C, sms, settings.window) - Score(p, C, sms, settings.window) >= MinGap
                 /\ Score(p, C, sms, settings.window) - Score(o, C, sms, settings.window) >= MinGap
    BY <1>2 DEF Wins
  <2> HIDE DEF C
  <2> QED
    BY <2>1, <2>2, GridAssumption DEF MinGap
<1>3. \E d \in answer : answer = {d}
  <2> HIDE DEF C
  <2>1. CASE C = {}
    BY <2>1 DEF Strategy
  <2>2. CASE C # {} /\ winners = {}
    <3>1. answer = ReviewOf(C)
      BY <2>2 DEF Strategy
    <3>2. CASE \E p \in C : C = {p}
      <4>1. PICK p \in C : C = {p}
        BY <3>2
      <4>2. ReviewOf(C) = {Review(p)}
        BY <4>1 DEF ReviewOf
      <4> QED
        BY <3>1, <4>2
    <3>3. CASE \A p \in C : C # {p}
      <4>1. ReviewOf(C) = {Review(None)}
        BY <2>2, <3>3 DEF ReviewOf
      <4> QED
        BY <3>1, <4>1
    <3> QED
      BY <3>2, <3>3
  <2>3. CASE C # {} /\ winners # {}
    <3>1. answer = {Verified(o, "HEURISTIC_AMOUNT_WINDOW") : o \in winners}
      BY <2>3 DEF Strategy
    <3>2. PICK o \in winners : TRUE
      BY <2>3
    <3> HIDE DEF winners
    <3> QED
      BY <1>2, <3>1, <3>2
  <2> QED
    BY <2>1, <2>2, <2>3
<1>4. ASSUME NEW widest \in {orders[o].tolerance : o \in Orders},
             \A o \in Orders : orders[o].tolerance <= widest
      PROVE  answer \subseteq HeuristicPass(sms, rows, widest)
  <2>1. C \subseteq HeuristicPool(sms, rows, widest)
    <3> SUFFICES ASSUME NEW o \in C
                 PROVE  Within(orders[o].amount, sms.amount, widest)
      BY <1>1 DEF HeuristicPool
    <3>1. Abs(orders[o].amount - sms.amount) <= orders[o].tolerance /\ o \in Orders
      BY DEF Considered
    <3>2. /\ orders[o].amount \in Nat /\ sms.amount \in Nat /\ orders[o].tolerance \in Nat
          /\ widest \in Nat /\ orders[o].tolerance <= widest
      BY <1>4, <3>1 DEF ScoringInv, OrderFacts, MessageFacts
    <3> QED
      BY <3>1, <3>2 DEF Within, Abs
  <2>2. \A d \in answer : \/ d = Unmatched
                          \/ \E o \in C : d = Verified(o, "HEURISTIC_AMOUNT_WINDOW")
                          \/ \E o \in C : d = Review(o)
                          \/ d = Review(None) /\ \E o \in C : C # {o}
    <3> HIDE DEF C
    <3> QED
      BY DEF Strategy, ReviewOf
  <2> HIDE DEF C, answer, rows
  <2>3. \A o \in C : C # {o} => HeuristicPool(sms, rows, widest) # {o}
    BY <2>1
  <2> QED
    BY <2>1, <2>2, <2>3 DEF HeuristicPass
<1> QED
  BY <1>3, <1>4 DEF AbstractionSound

(* The pass always has one answer, which Verification's abstraction of the *)
(* pass allows: the theorems about the ledger cover the scored pass, for   *)
(* any scores, windows and senders.                                        *)
THEOREM AbstractionCovers == Spec => []AbstractionSound
BY AnswerIsAbstract, ScoringInvariant, PTL

-----------------------------------------------------------------------------
(* Fields of an SMS: amounts.                                              *)
LEMMA PaisaWritten ==
    ASSUME NEW p \in Nat
    PROVE  /\ p \div 100 \in Nat /\ p % 100 \in Nat
           /\ (p \div 100) * 100 + (p % 100) = p
OBVIOUS

LEMMA FirstPowers == 10 ^ 0 = 1 /\ 10 ^ 1 = 10 /\ 10 ^ 2 = 100
OBVIOUS

LEMMA AmountFields ==
    ASSUME FieldsAssumption, NEW t \in AmountTexts
    PROVE  /\ t.units \in Nat /\ t.decimals \in Nat /\ t.point \in Nat
           /\ t.decimals = 0 => t.point = 0
           /\ Fraction(t) \in Nat
<1>1. t.units \in Nat /\ t.decimals \in Nat /\ t.point \in 0 .. 10 ^ t.decimals - 1
  BY DEF FieldsAssumption
<1>2. t.point \in Nat
  BY <1>1
<1>3. t.decimals = 0 => t.point = 0
  BY <1>1, FirstPowers
<1> QED
  BY <1>1, <1>2, <1>3 DEF Fraction

LEMMA LongHolds ==
    ASSUME FieldsAssumption, NEW n \in Nat, n < WordHalf
    PROVE  Long(n) = n
<1>1. WordHalf \in Nat
  BY DEF FieldsAssumption
<1>2. \A a, b \in Nat : a < b => a % b = a
  OBVIOUS
<1>3. (n + WordHalf) % (2 * WordHalf) = n + WordHalf
  BY <1>1, <1>2
<1> QED
  BY <1>1, <1>3 DEF Long

LEMMA AmountsAgree ==
    ASSUME FieldsAssumption, NEW t \in AmountTexts, t.units * PaisaPerTaka + Fraction(t) < WordHalf
    PROVE  NormalizeAmount(t) = PhoneAmount(t)
<1> DEFINE p == t.units * PaisaPerTaka + Fraction(t)
<1>1. t.units \in Nat /\ Fraction(t) \in Nat /\ p \in Nat /\ p < WordHalf /\ t.units < WordHalf
  BY AmountFields DEF PaisaPerTaka, FieldsAssumption
<1>2. Long(p) = p
  BY <1>1, LongHolds
<1>3. p \in -MaxPaisa .. MaxPaisa <=> p <= MaxPaisa
  BY <1>1 DEF FieldsAssumption
<1>4. PhoneFromDecimalString(t) = FromDecimalString(t)
  BY <1>1, <1>2, <1>3 DEF PhoneFromDecimalString, FromDecimalString
<1>5. \A x \in FromDecimalString(t) : ToDisplayString(x) = ToDecimalString(x)
  BY <1>1 DEF FromDecimalString, ToDisplayString
<1> QED
  BY <1>4, <1>5 DEF NormalizeAmount, PhoneAmount

LEMMA AmountIsWritten ==
    ASSUME FieldsAssumption, NEW t \in AmountTexts, NEW a \in NormalizeAmount(t)
    PROVE  Writes(t, a) /\ NormalizeAmount(a) = {a}
<1> DEFINE p == t.units * 100 + Fraction(t)
<1>1. t.units \in Nat /\ t.point \in Nat /\ t.decimals \in Nat /\ p \in Nat
  BY AmountFields
<1>2. t.decimals <= 2 /\ p <= MaxPaisa /\ a = ToDecimalString(p)
  BY DEF NormalizeAmount, FromDecimalString, PaisaPerTaka
<1>3. a.units = p \div 100 /\ a.decimals = 2 /\ a.point = p % 100
  BY <1>2 DEF ToDecimalString, PaisaPerTaka
<1>4. a.units * 100 + a.point = p
  BY <1>1, <1>3, PaisaWritten
<1>5. Writes(t, a)
  <2>1. CASE t.decimals = 0
    BY <1>1, <1>4, <2>1, AmountFields, FirstPowers DEF Writes, PaisaPerTaka, Fraction
  <2>2. CASE t.decimals = 1
    BY <1>1, <1>4, <2>2, FirstPowers DEF Writes, PaisaPerTaka, Fraction
  <2>3. CASE t.decimals = 2
    BY <1>1, <1>4, <2>3, FirstPowers DEF Writes, PaisaPerTaka, Fraction
  <2> QED
    BY <1>1, <1>2, <2>1, <2>2, <2>3
<1>6. NormalizeAmount(a) = {a}
  <2>1. a.units * PaisaPerTaka + Fraction(a) = p
    BY <1>3, <1>4 DEF PaisaPerTaka, Fraction
  <2>2. FromDecimalString(a) = {p}
    BY <1>2, <1>3, <2>1 DEF FromDecimalString
  <2> QED
    BY <1>2, <2>2 DEF NormalizeAmount
<1> QED
  BY <1>5, <1>6

-----------------------------------------------------------------------------
(* Telephone numbers.                                                      *)
LEMMA PrefixRemoved ==
    ASSUME NEW S, NEW p \in Seq(S), NEW d \in Seq(S), p # <<>>, d # <<>>
    PROVE  Without(p, p \o d) = d
<1>1. Len(p) \in Nat /\ Len(d) \in Nat /\ Len(p) > 0 /\ Len(d) > 0
  BY EmptySeq
<1>2. p \o d \in Seq(S) /\ Len(p \o d) = Len(p) + Len(d)
  BY ConcatProperties
<1>3. SubSeq(p \o d, 1, Len(p)) = SubSeq(p, 1, Len(p))
  BY <1>1, SubSeqOfConcat1
<1>4. SubSeq(p \o d, Len(p) + 1, Len(p \o d)) = SubSeq(d, 1, Len(d))
  <2>1. SubSeq(p \o d, Len(p) + 1, Len(p) + Len(d))
          = SubSeq(d, (Len(p) + 1) - Len(p), (Len(p) + Len(d)) - Len(p))
    BY <1>1, SubSeqOfConcat2
  <2>2. (Len(p) + 1) - Len(p) = 1 /\ (Len(p) + Len(d)) - Len(p) = Len(d)
    BY <1>1
  <2> QED
    BY <1>2, <2>1, <2>2
<1>5. SubSeq(d, 1, Len(d)) = d
  BY <1>1
<1>6. IsPrefix(p, p \o d)
  <2>1. Len(p) <= Len(p \o d)
    BY <1>1, <1>2
  <2> QED
    BY <2>1, <1>3 DEF IsPrefix
<1> QED
  BY <1>4, <1>5, <1>6 DEF Without

LEMMA CountryCodeStripped ==
    ASSUME NEW d \in Seq(0 .. 9), IsMobile(d)
    PROVE  National(<<8, 8, 0>> \o d) = d
<1>1. d # <<>> /\ Len(d) = 10 /\ d[1] = 1
  BY EmptySeq DEF IsMobile
<1>2. Without(<<8, 8, 0>>, <<8, 8, 0>> \o d) = d
  <2>1. <<8, 8, 0>> \in Seq(0 .. 9) /\ <<8, 8, 0>> # <<>>
    OBVIOUS
  <2> QED
    BY <1>1, <2>1, PrefixRemoved
<1>3. ~IsPrefix(<<0>>, d)
  <2>1. SubSeq(<<0>>, 1, 1)[1] = 0 /\ SubSeq(d, 1, 1)[1] = 1
    BY <1>1
  <2> QED
    BY <2>1 DEF IsPrefix
<1> QED
  BY <1>2, <1>3 DEF National, Without

LEMMA WithoutIsSeq ==
    ASSUME NEW d \in Seq(0 .. 9), NEW prefix \in Seq(0 .. 9)
    PROVE  Without(prefix, d) \in Seq(0 .. 9)
<1>1. CASE IsPrefix(prefix, d)
  <2>1. Len(prefix) \in Nat /\ Len(d) \in Nat /\ Len(prefix) <= Len(d)
    BY <1>1 DEF IsPrefix
  <2>2. SubSeq(d, Len(prefix) + 1, Len(d)) \in Seq(0 .. 9)
    BY <2>1
  <2> QED
    BY <1>1, <2>2 DEF Without
<1>2. CASE ~IsPrefix(prefix, d)
  BY <1>2 DEF Without
<1> QED
  BY <1>1, <1>2

LEMMA MsisdnsAgree ==
    ASSUME FieldsAssumption, NEW t \in NumberTexts
    PROVE  NormalizeMsisdn(t) = PhoneMsisdn(t)
<1> DEFINE d == National(t.digits)
<1>1. NormalizeMsisdn(t) = IF t.plus <= 1 /\ IsMobile(d) THEN {International(d)} ELSE {}
  BY DEF NormalizeMsisdn
<1>2. PhoneMsisdn(t) = IF t.plus > 1 \/ ~IsMobile(d) THEN {} ELSE {International(d)}
  BY DEF PhoneMsisdn, National
<1>3. t.plus > 1 <=> ~(t.plus <= 1)
  BY DEF FieldsAssumption
<1> QED
  BY <1>1, <1>2, <1>3

LEMMA MsisdnIsNormal ==
    ASSUME FieldsAssumption, NEW t \in NumberTexts, NEW v \in NormalizeMsisdn(t)
    PROVE  NormalizeMsisdn(v) = {v}
<1> DEFINE d == National(t.digits)
<1>1. t.digits \in Seq(0 .. 9)
  BY DEF FieldsAssumption
<1>2. d \in Seq(0 .. 9)
  <2>1. <<8, 8, 0>> \in Seq(0 .. 9) /\ <<0>> \in Seq(0 .. 9)
    OBVIOUS
  <2> QED
    BY <1>1, <2>1, WithoutIsSeq DEF National
<1>3. IsMobile(d) /\ v = International(d)
  BY DEF NormalizeMsisdn
<1> HIDE DEF d
<1>4. v.plus = 1 /\ v.digits = <<8, 8, 0>> \o d
  BY <1>3 DEF International
<1>5. National(v.digits) = d
  BY <1>2, <1>3, <1>4, CountryCodeStripped
<1> QED
  BY <1>3, <1>4, <1>5 DEF NormalizeMsisdn

-----------------------------------------------------------------------------
(* Transaction ids.                                                        *)
LEMMA TrxIdsAgree ==
    ASSUME FieldsAssumption, NEW t \in TrxTexts
    PROVE  NormalizeTrxId(t) = PhoneTrxId(t)
<1>1. t \in [letters : Nat, digits : Nat, others : Nat, upper : BOOLEAN]
  BY DEF FieldsAssumption
<1> DEFINE u == Uppercase(t)
           v == LettersAndDigits(u)
<1>2. /\ u \in [letters : Nat, digits : Nat, others : Nat, upper : BOOLEAN]
      /\ u.letters = t.letters /\ u.digits = t.digits /\ u.upper = TRUE
  BY <1>1 DEF Uppercase
<1> HIDE DEF u
<1>3. /\ v \in [letters : Nat, digits : Nat, others : Nat, upper : BOOLEAN]
      /\ v.letters = t.letters /\ v.digits = t.digits /\ v.others = 0 /\ v.upper = TRUE
  BY <1>2 DEF LettersAndDigits
<1> HIDE DEF v
<1>4. v = [letters |-> t.letters, digits |-> t.digits, others |-> 0, upper |-> TRUE]
  BY <1>3
<1>5. PhoneTrxId(t) = {id \in {v} : id.letters + id.digits \in 6 .. 20}
  BY DEF PhoneTrxId, u, v
<1>6. PhoneTrxId(t) = IF t.letters + t.digits \in 6 .. 20 THEN {v} ELSE {}
  BY <1>3, <1>5, <1>2
<1>7. NormalizeTrxId(t) = IF t.letters + t.digits \in 6 .. 20 THEN {v} ELSE {}
  <2>1. \A x : x \in NormalizeTrxId(t) <=> x = v /\ t.letters + t.digits \in 6 .. 20
    BY <1>4 DEF NormalizeTrxId
  <2> QED
    BY <2>1
<1> QED
  BY <1>6, <1>7

LEMMA TrxIdIsNormal ==
    ASSUME NEW t, NEW v \in NormalizeTrxId(t)
    PROVE  NormalizeTrxId(v) = {v}
<1>1. t.letters + t.digits \in 6 .. 20
  BY DEF NormalizeTrxId
<1>2. v = [letters |-> t.letters, digits |-> t.digits, others |-> 0, upper |-> TRUE]
  BY DEF NormalizeTrxId
<1>3. v.letters = t.letters /\ v.digits = t.digits
  BY <1>2
<1> QED
  BY <1>1, <1>2, <1>3 DEF NormalizeTrxId

-----------------------------------------------------------------------------
(* Timestamps: the calendar.                                               *)
ComponentsOf == [year : Nat, month : Nat, day : Nat, hour : Nat]
LeapDay(year) == IF Leap(year) THEN 1 ELSE 0
YearStart(year) ==
    365 * year + (year + 3) \div 4 - (year + 99) \div 100 + (year + 399) \div 400
MonthStart(year, month) == DaysBefore[month] + (IF month > 2 /\ Leap(year) THEN 1 ELSE 0)

LEMMA MonthStarts ==
    ASSUME NEW year \in Nat
    PROVE  /\ MonthStart(year, 1) = 0
           /\ MonthStart(year, 2) = 31
           /\ MonthStart(year, 3) = 59 + LeapDay(year)
           /\ MonthStart(year, 4) = 90 + LeapDay(year)
           /\ MonthStart(year, 5) = 120 + LeapDay(year)
           /\ MonthStart(year, 6) = 151 + LeapDay(year)
           /\ MonthStart(year, 7) = 181 + LeapDay(year)
           /\ MonthStart(year, 8) = 212 + LeapDay(year)
           /\ MonthStart(year, 9) = 243 + LeapDay(year)
           /\ MonthStart(year, 10) = 273 + LeapDay(year)
           /\ MonthStart(year, 11) = 304 + LeapDay(year)
           /\ MonthStart(year, 12) = 334 + LeapDay(year)
BY DEF MonthStart, DaysBefore, LeapDay

LEMMA MonthLengths ==
    ASSUME NEW year \in Nat
    PROVE  /\ \A m \in {1, 3, 5, 7, 8, 10, 12} : MonthDays(year, m) = 31
           /\ \A m \in {4, 6, 9, 11} : MonthDays(year, m) = 30
           /\ MonthDays(year, 2) = 28 + LeapDay(year)
BY DEF MonthDays, LeapDay

LEMMA MonthsFollow ==
    ASSUME NEW year \in Nat
    PROVE  /\ \A m \in 1 .. 11 : MonthStart(year, m + 1) = MonthStart(year, m) + MonthDays(year, m)
           /\ \A m \in 1 .. 12 : MonthStart(year, m) \in Nat /\ MonthDays(year, m) \in 28 .. 31
<1>1. LeapDay(year) \in {0, 1}
  BY DEF LeapDay
<1>2. \A m \in 1 .. 12 : m \in {1, 3, 5, 7, 8, 10, 12} \/ m \in {4, 6, 9, 11} \/ m = 2
  OBVIOUS
<1>3. \A m \in 1 .. 12 : MonthStart(year, m) \in Nat
  BY <1>1, <1>2, MonthStarts
<1>4. \A m \in 1 .. 12 : MonthDays(year, m) \in 28 .. 31
  BY <1>1, <1>2, MonthLengths
<1>5. ASSUME NEW m \in 1 .. 11
      PROVE  MonthStart(year, m + 1) = MonthStart(year, m) + MonthDays(year, m)
  <2>1. CASE m \in {1, 3, 5, 7, 8, 10}
    BY <1>1, <2>1, MonthStarts, MonthLengths
  <2>2. CASE m \in {4, 6, 9, 11}
    BY <1>1, <2>2, MonthStarts, MonthLengths
  <2>3. CASE m = 2
    BY <1>1, <2>3, MonthStarts, MonthLengths
  <2> QED
    BY <1>2, <2>1, <2>2, <2>3
<1> QED
  BY <1>3, <1>4, <1>5

LEMMA MonthsApart ==
    ASSUME NEW year \in Nat, NEW m \in 1 .. 12, NEW n \in 1 .. 12, m < n
    PROVE  MonthStart(year, m) + MonthDays(year, m) <= MonthStart(year, n)
<1>1. LeapDay(year) \in {0, 1}
  BY DEF LeapDay
<1>2. m \in 1 .. 11 /\ m + 1 <= n
  OBVIOUS
<1>3. MonthStart(year, m + 1) <= MonthStart(year, n)
  <2> DEFINE D(k) == DaysBefore[k] + (IF k > 2 THEN LeapDay(year) ELSE 0)
  <2>1. \A k \in 1 .. 12 : MonthStart(year, k) = D(k)
    BY DEF MonthStart, LeapDay
  <2>2. \A i, k \in 1 .. 12 : i <= k => DaysBefore[i] <= DaysBefore[k]
    BY DEF DaysBefore
  <2>3. \A k \in 1 .. 12 : DaysBefore[k] \in Nat
    BY DEF DaysBefore
  <2> QED
    BY <1>1, <1>2, <2>1, <2>2, <2>3
<1> QED
  BY <1>2, <1>3, MonthsFollow

LEMMA YearsFollow ==
    ASSUME NEW year \in Nat
    PROVE  YearStart(year) \in Int /\ YearStart(year + 1) = YearStart(year) + 365 + LeapDay(year)
<1> DEFINE by4 == IF year % 4 = 0 THEN 1 ELSE 0
           by100 == IF year % 100 = 0 THEN 1 ELSE 0
           by400 == IF year % 400 = 0 THEN 1 ELSE 0
<1>1. (year + 4) \div 4 = (year + 3) \div 4 + by4
  OBVIOUS
<1>2. (year + 100) \div 100 = (year + 99) \div 100 + by100
  OBVIOUS
<1>3. (year + 400) \div 400 = (year + 399) \div 400 + by400
  OBVIOUS
<1>4. LeapDay(year) = by4 - by100 + by400
  <2>1. year % 400 = 0 => year % 100 = 0
    OBVIOUS
  <2>2. year % 100 = 0 => year % 4 = 0
    OBVIOUS
  <2> QED
    BY <2>1, <2>2 DEF LeapDay, Leap
<1>5. /\ (year + 1) + 3 = year + 4 /\ (year + 1) + 99 = year + 100 /\ (year + 1) + 399 = year + 400
      /\ (year + 3) \div 4 \in Int /\ (year + 99) \div 100 \in Int /\ (year + 399) \div 400 \in Int
  OBVIOUS
<1> HIDE DEF by4, by100, by400
<1>6. by4 \in Int /\ by100 \in Int /\ by400 \in Int
  BY DEF by4, by100, by400
<1> QED
  BY <1>1, <1>2, <1>3, <1>4, <1>5, <1>6 DEF YearStart

LEMMA DayOfYear ==
    ASSUME NEW year \in Nat, NEW m \in 1 .. 12, NEW d \in Nat
    PROVE  /\ DayNumber(year, m, d) = YearStart(year) + MonthStart(year, m) + d
           /\ d \in 1 .. MonthDays(year, m)
                => MonthStart(year, m) + d \in 1 .. 365 + LeapDay(year)
<1>1. MonthStart(year, m) \in Nat /\ MonthDays(year, m) \in 28 .. 31
  BY MonthsFollow
<1>2. DayNumber(year, m, d) = YearStart(year) + MonthStart(year, m) + d
  <2>1. DaysBefore[m] \in Nat
    BY DEF DaysBefore
  <2>2. (IF m > 2 /\ Leap(year) THEN 1 ELSE 0) \in Nat
    OBVIOUS
  <2>3. YearStart(year) \in Int
    BY YearsFollow
  <2> QED
    BY <2>1, <2>2, <2>3 DEF DayNumber, YearStart, MonthStart
<1>3. MonthStart(year, m) + MonthDays(year, m) <= 365 + LeapDay(year)
  <2>1. LeapDay(year) \in {0, 1}
    BY DEF LeapDay
  <2>2. CASE m = 12
    BY <2>1, <2>2, MonthStarts, MonthLengths
  <2>3. CASE m < 12
    <3>1. MonthStart(year, m) + MonthDays(year, m) <= MonthStart(year, 12)
      BY <2>3, MonthsApart
    <3> QED
      BY <1>1, <2>1, <3>1, MonthStarts
  <2> QED
    BY <2>2, <2>3
<1>4. d \in 1 .. MonthDays(year, m) => MonthStart(year, m) + d \in 1 .. 365 + LeapDay(year)
  <2>1. LeapDay(year) \in {0, 1}
    BY DEF LeapDay
  <2> QED
    BY <1>1, <1>3, <2>1
<1> QED
  BY <1>2, <1>4

LEMMA DayNumberTyped ==
    ASSUME NEW year \in Nat, NEW m \in 1 .. 12, NEW d \in 1 .. 31
    PROVE  DayNumber(year, m, d) \in Int
<1>1. DayNumber(year, m, d) = YearStart(year) + MonthStart(year, m) + d
  BY DayOfYear
<1>2. YearStart(year) \in Int /\ MonthStart(year, m) \in Nat
  BY YearsFollow, MonthsFollow
<1> QED
  BY <1>1, <1>2

LEMMA MonthDaysTyped ==
    ASSUME NEW year \in Nat, NEW m \in 1 .. 12
    PROVE  MonthDays(year, m) \in 28 .. 31
BY MonthsFollow

(* The dates of a year and the next, with their hour.                      *)
DateOf(c, year) ==
    /\ c \in [year : {year, year + 1}, month : 1 .. 12, day : 1 .. 31, hour : 0 .. 23]
    /\ c.day <= MonthDays(c.year, c.month)

LEMMA OneDateOfADay ==
    ASSUME NEW year \in Nat, NEW a, NEW b, DateOf(a, year), DateOf(b, year),
           DayNumber(a.year, a.month, a.day) = DayNumber(b.year, b.month, b.day)
    PROVE  a.year = b.year /\ a.month = b.month /\ a.day = b.day
<1> DEFINE y1 == a.year  m1 == a.month  d1 == a.day
           y2 == b.year  m2 == b.month  d2 == b.day
<1>0. /\ y1 \in {year, year + 1} /\ m1 \in 1 .. 12 /\ d1 \in 1 .. 31 /\ d1 <= MonthDays(y1, m1)
      /\ y2 \in {year, year + 1} /\ m2 \in 1 .. 12 /\ d2 \in 1 .. 31 /\ d2 <= MonthDays(y2, m2)
      /\ DayNumber(y1, m1, d1) = DayNumber(y2, m2, d2)
  BY DEF DateOf
<1> HIDE DEF y1, m1, d1, y2, m2, d2
<1> DEFINE o1 == MonthStart(y1, m1) + d1
           o2 == MonthStart(y2, m2) + d2
<1>1. y1 \in Nat /\ y2 \in Nat
  BY <1>0
<1>2. /\ MonthStart(y1, m1) \in Nat /\ MonthDays(y1, m1) \in 28 .. 31
      /\ MonthStart(y2, m2) \in Nat /\ MonthDays(y2, m2) \in 28 .. 31
  BY <1>0, <1>1, MonthsFollow
<1>3. d1 \in Nat /\ d2 \in Nat /\ d1 \in 1 .. MonthDays(y1, m1) /\ d2 \in 1 .. MonthDays(y2, m2)
  BY <1>0, <1>2
<1>4. o1 \in 1 .. 365 + LeapDay(y1) /\ DayNumber(y1, m1, d1) = YearStart(y1) + MonthStart(y1, m1) + d1
  BY <1>0, <1>1, <1>3, DayOfYear
<1>5. o2 \in 1 .. 365 + LeapDay(y2) /\ DayNumber(y2, m2, d2) = YearStart(y2) + MonthStart(y2, m2) + d2
  BY <1>0, <1>1, <1>3, DayOfYear
<1>6. YearStart(y1) \in Int /\ YearStart(y2) \in Int
  BY <1>1, YearsFollow
<1>7. YearStart(y1) + o1 = YearStart(y2) + o2
  <2>1. \A i, j, k \in Int : i + j + k = i + (j + k)
    OBVIOUS
  <2>2. DayNumber(y1, m1, d1) = YearStart(y1) + o1
    BY <1>2, <1>3, <1>4, <1>6, <2>1
  <2>3. DayNumber(y2, m2, d2) = YearStart(y2) + o2
    BY <1>2, <1>3, <1>5, <1>6, <2>1
  <2> HIDE DEF o1, o2
  <2> QED
    BY <1>0, <2>2, <2>3
<1>8. LeapDay(y1) \in {0, 1} /\ LeapDay(y2) \in {0, 1}
  BY DEF LeapDay
<1>9. o1 \in Int /\ o2 \in Int
  BY <1>2, <1>3
<1> HIDE DEF o1, o2
<1>10. y1 = y2
  <2>1. CASE y1 = year /\ y2 = year + 1
    BY <1>4, <1>5, <1>6, <1>7, <1>8, <1>9, <2>1, YearsFollow
  <2>2. CASE y2 = year /\ y1 = year + 1
    BY <1>4, <1>5, <1>6, <1>7, <1>8, <1>9, <2>2, YearsFollow
  <2> QED
    BY <1>0, <2>1, <2>2
<1>11. o1 = o2
  BY <1>6, <1>7, <1>9, <1>10
<1>12. m1 = m2
  <2>1. CASE m1 < m2
    <3>1. MonthStart(y1, m1) + MonthDays(y1, m1) <= MonthStart(y1, m2)
      BY <1>0, <1>1, <2>1, MonthsApart
    <3> QED
      BY <1>2, <1>3, <1>10, <1>11, <3>1 DEF o1, o2
  <2>2. CASE m2 < m1
    <3>1. MonthStart(y2, m2) + MonthDays(y2, m2) <= MonthStart(y2, m1)
      BY <1>0, <1>1, <2>2, MonthsApart
    <3> QED
      BY <1>2, <1>3, <1>10, <1>11, <3>1 DEF o1, o2
  <2> QED
    BY <1>0, <2>1, <2>2
<1>13. d1 = d2
  BY <1>2, <1>3, <1>10, <1>11, <1>12 DEF o1, o2
<1> QED
  BY <1>10, <1>12, <1>13 DEF y1, m1, d1, y2, m2, d2

(* A day past the end of its month is one of the next month.               *)
LEMMA RolledOver ==
    ASSUME NEW year \in Nat, NEW m \in 1 .. 12, NEW d \in 1 .. 31, d > MonthDays(year, m)
    PROVE  /\ m + 1 \in 1 .. 12
           /\ d - MonthDays(year, m) \in 1 .. 31
           /\ d - MonthDays(year, m) <= MonthDays(year, m + 1)
           /\ DayNumber(year, m + 1, d - MonthDays(year, m)) = DayNumber(year, m, d)
<1>1. MonthStart(year, m) \in Nat /\ MonthDays(year, m) \in 28 .. 31
  BY MonthsFollow
<1>2. m # 12
  BY MonthLengths
<1>3. m \in 1 .. 11 /\ m + 1 \in 1 .. 12
  BY <1>2
<1>4. MonthDays(year, m + 1) \in 28 .. 31
  BY <1>3, MonthsFollow
<1> DEFINE e == d - MonthDays(year, m)
<1>5. e \in 1 .. 3 /\ e \in Nat
  BY <1>1
<1>6. DayNumber(year, m, d) = YearStart(year) + MonthStart(year, m) + d
  BY DayOfYear
<1>7. DayNumber(year, m + 1, e) = YearStart(year) + MonthStart(year, m + 1) + e
  BY <1>3, <1>5, DayOfYear
<1>8. MonthStart(year, m + 1) = MonthStart(year, m) + MonthDays(year, m)
  BY <1>3, MonthsFollow
<1>9. YearStart(year) \in Int
  BY YearsFollow
<1>10. DayNumber(year, m + 1, e) = DayNumber(year, m, d)
  BY <1>1, <1>6, <1>7, <1>8, <1>9
<1> QED
  BY <1>1, <1>3, <1>4, <1>5, <1>10

LEMMA LocalTime ==
    ASSUME NEW n \in Int, NEW h \in 0 .. 23
    PROVE  (24 * n + h) % 24 = h /\ (24 * n + h) \div 24 = n
<1>1. (24 * n + h) % 24 = h
  OBVIOUS
<1>2. (24 * n + h) \div 24 = n
  OBVIOUS
<1> QED
  BY <1>1, <1>2

-----------------------------------------------------------------------------
(* Timestamps: reading a date back tells the dates there are from others.  *)
LEMMA ReadBack ==
    ASSUME NEW year \in Nat, NEW c, NEW h \in 0 .. 23, NEW n \in Int,
           DateOf(c, year), c.hour = h, DayNumber(c.year, c.month, c.day) = n
    PROVE  DhakaComponents((24 * n + h) - DhakaOffset, year) = c
<1> DEFINE local == ((24 * n + h) - DhakaOffset) + DhakaOffset
           Dates == [year : {year, year + 1}, month : 1 .. 12, day : 1 .. 31,
                          hour : {local % 24}]
           Fit(e) == /\ e.day <= MonthDays(e.year, e.month)
                     /\ DayNumber(e.year, e.month, e.day) = local \div 24
<1>1. local = 24 * n + h
  BY DEF DhakaOffset
<1>2. local % 24 = h /\ local \div 24 = n
  BY <1>1, LocalTime
<1>3. DhakaComponents((24 * n + h) - DhakaOffset, year) = CHOOSE e \in Dates : Fit(e)
  BY DEF DhakaComponents
<1> HIDE DEF local
<1>4. c \in Dates /\ Fit(c)
  BY <1>2 DEF DateOf
<1>5. ASSUME NEW e \in Dates, Fit(e)
      PROVE  e = c
  <2>1. e.hour = h /\ DateOf(e, year)
    BY <1>2, <1>5 DEF DateOf
  <2>2. DayNumber(e.year, e.month, e.day) = DayNumber(c.year, c.month, c.day)
    BY <1>2, <1>5
  <2>3. e.year = c.year /\ e.month = c.month /\ e.day = c.day
    BY <2>1, <2>2, OneDateOfADay
  <2> QED
    BY <1>4, <2>1, <2>3 DEF DateOf
<1> HIDE DEF Dates, Fit
<1> QED
  BY <1>3, <1>4, <1>5

LEMMA DatesAgree ==
    ASSUME NEW c \in ComponentsOf, c.year >= 100
    PROVE  /\ ServerAccepts(c) <=> PhoneAccepts(c)
           /\ ServerInstant(c) = PhoneInstant(c)
<1> DEFINE n == DayNumber(c.year, c.month, c.day)
<1>1. /\ c.year \in Nat /\ c.month \in Nat /\ c.day \in Nat /\ c.hour \in Nat
      /\ ~(c.year < 100)
  BY DEF ComponentsOf
<1>2. ServerInstant(c) = (24 * n + c.hour) - DhakaOffset
  <2>1. YearUTC(c) = c.year
    BY <1>1 DEF YearUTC
  <2>2. DateUTC(c) = 24 * n + c.hour
    BY <2>1 DEF DateUTC
  <2> HIDE DEF n
  <2> QED
    BY <2>2 DEF ServerInstant
<1>3. PhoneInstant(c) = (24 * n + c.hour) - DhakaOffset
  BY DEF PhoneInstant
<1>4. ServerAccepts(c) <=> InRange(c) /\ DhakaComponents(ServerInstant(c), c.year) = c
  BY <1>1 DEF ServerAccepts, YearUTC
<1>5. ASSUME InRange(c)
      PROVE  DhakaComponents(ServerInstant(c), c.year) = c <=> c.day <= MonthDays(c.year, c.month)
  <2>1. c.month \in 1 .. 12 /\ c.day \in 1 .. 31 /\ c.hour \in 0 .. 23
    BY <1>1, <1>5 DEF InRange
  <2>2. n \in Int /\ MonthDays(c.year, c.month) \in 28 .. 31
    BY <1>1, <2>1, DayNumberTyped, MonthDaysTyped
  <2> HIDE DEF n
  <2>3. CASE c.day <= MonthDays(c.year, c.month)
    <3>1. DateOf(c, c.year)
      BY <1>1, <2>1, <2>3 DEF DateOf, ComponentsOf
    <3> QED
      BY <1>1, <1>2, <2>1, <2>2, <2>3, <3>1, ReadBack DEF n
  <2>4. CASE c.day > MonthDays(c.year, c.month)
    <3> DEFINE e == [year |-> c.year, month |-> c.month + 1,
                     day |-> c.day - MonthDays(c.year, c.month), hour |-> c.hour]
    <3>1. DateOf(e, c.year) /\ e.hour = c.hour /\ DayNumber(e.year, e.month, e.day) = n
      BY <1>1, <2>1, <2>4, RolledOver DEF DateOf, n
    <3>2. e.month # c.month
      BY <1>1
    <3> HIDE DEF e
    <3>3. DhakaComponents(ServerInstant(c), c.year) = e
      BY <1>1, <1>2, <2>1, <2>2, <3>1, ReadBack
    <3>4. ~(c.day <= MonthDays(c.year, c.month))
      BY <2>1, <2>2, <2>4
    <3> QED
      BY <3>2, <3>3, <3>4
  <2> QED
    BY <2>1, <2>2, <2>3, <2>4
<1> QED
  BY <1>2, <1>3, <1>4, <1>5 DEF PhoneAccepts

LEMMA TimestampsAgree ==
    ASSUME FieldsAssumption, NEW t \in TimeTexts, NEW formats, ~(t.digits = 4 /\ t.year < 100)
    PROVE  NormalizeTimestamp(t, formats) = PhoneTimestamp(t, formats)
<1>1. ASSUME NEW f
      PROVE  Components(t, f) \in ComponentsOf /\ Components(t, f).year >= 100
  <2>1. t.first \in Nat /\ t.second \in Nat /\ t.year \in Nat /\ t.hour \in Nat
    BY DEF FieldsAssumption
  <2>2. PivotYear(t.year) \in Nat /\ PivotYear(t.year) >= 100
    BY <2>1 DEF PivotYear, Pivot
  <2>3. (IF t.digits = 4 THEN t.year ELSE PivotYear(t.year)) \in Nat
    BY <2>1, <2>2
  <2>4. (IF t.digits = 4 THEN t.year ELSE PivotYear(t.year)) >= 100
    BY <2>1, <2>2
  <2> QED
    BY <2>1, <2>3, <2>4 DEF Components, ComponentsOf
<1> DEFINE fit == Fitting(t, formats)
           byServer == {i \in fit : ServerAccepts(Components(t, formats[i]))}
           byPhone == {i \in fit : PhoneAccepts(Components(t, formats[i]))}
<1>2. byServer = byPhone
  BY <1>1, DatesAgree
<1> HIDE DEF byServer, byPhone
<1>3. ASSUME NEW c \in FirstDate(t, formats, byServer)
      PROVE  ServerInstant(c) = PhoneInstant(c)
  BY <1>1, <1>3, DatesAgree DEF FirstDate
<1>4. {ServerInstant(c) : c \in FirstDate(t, formats, byServer)}
        = {PhoneInstant(c) : c \in FirstDate(t, formats, byPhone)}
  BY <1>2, <1>3
<1> QED
  BY <1>4 DEF NormalizeTimestamp, ParseProviderTimestamp, PhoneTimestamp, byServer, byPhone

-----------------------------------------------------------------------------
(* All fields.                                                             *)
FieldsInv ==
    /\ field \in Fields
    /\ readings.done =>
          /\ readings.server = NormalizeField(field)
          /\ readings.phone = PhoneNormalizeField(field)

LEMMA FieldKinds ==
    ASSUME NEW f \in Fields
    PROVE  \/ f.kind = "AMOUNT" /\ f.text \in AmountTexts /\ f \in [kind : {"AMOUNT"}, text : AmountTexts]
           \/ f.kind = "TIMESTAMP" /\ f.text \in TimeTexts
           \/ f.kind = "MSISDN" /\ f.text \in NumberTexts /\ f \in [kind : {"MSISDN"}, text : NumberTexts]
           \/ f.kind = "TRX_ID" /\ f.text \in TrxTexts /\ f \in [kind : {"TRX_ID"}, text : TrxTexts]
BY DEF Fields

LEMMA KindIsRead ==
    ASSUME NEW f
    PROVE  /\ f.kind = "AMOUNT" => /\ NormalizeField(f) = NormalizeAmount(f.text)
                                   /\ PhoneNormalizeField(f) = PhoneAmount(f.text)
           /\ f.kind = "TIMESTAMP" => /\ NormalizeField(f) = NormalizeTimestamp(f.text, f.formats)
                                      /\ PhoneNormalizeField(f) = PhoneTimestamp(f.text, f.formats)
           /\ f.kind = "MSISDN" => /\ NormalizeField(f) = NormalizeMsisdn(f.text)
                                   /\ PhoneNormalizeField(f) = PhoneMsisdn(f.text)
           /\ f.kind = "TRX_ID" => /\ NormalizeField(f) = NormalizeTrxId(f.text)
                                   /\ PhoneNormalizeField(f) = PhoneTrxId(f.text)
BY DEF NormalizeField, PhoneNormalizeField

LEMMA ReadAlike ==
    ASSUME FieldsAssumption, field \in Fields, ~BeyondPhone
    PROVE  NormalizeField(field) = PhoneNormalizeField(field)
<1>1. CASE field.kind = "AMOUNT" /\ field.text \in AmountTexts
  <2>1. field.text.units * PaisaPerTaka + Fraction(field.text) < WordHalf
    <3>1. field.text.units * PaisaPerTaka + Fraction(field.text) \in Nat /\ WordHalf \in Nat
      BY <1>1, AmountFields DEF PaisaPerTaka, FieldsAssumption
    <3> QED
      BY <1>1, <3>1 DEF BeyondPhone
  <2> QED
    BY <1>1, <2>1, AmountsAgree, KindIsRead
<1>2. CASE field.kind = "TIMESTAMP" /\ field.text \in TimeTexts
  <2>1. ~(field.text.digits = 4 /\ field.text.year < 100)
    BY <1>2 DEF BeyondPhone
  <2> QED
    BY <1>2, <2>1, TimestampsAgree, KindIsRead
<1>3. CASE field.kind = "MSISDN" /\ field.text \in NumberTexts
  BY <1>3, MsisdnsAgree, KindIsRead
<1>4. CASE field.kind = "TRX_ID" /\ field.text \in TrxTexts
  BY <1>4, TrxIdsAgree, KindIsRead
<1> QED
  BY <1>1, <1>2, <1>3, <1>4, FieldKinds

LEMMA ReadAgainAlike ==
    ASSUME FieldsAssumption, field \in Fields, field.kind # "TIMESTAMP",
           NEW v \in NormalizeField(field)
    PROVE  NormalizeField([field EXCEPT !.text = v]) = {v}
<1> DEFINE f == [field EXCEPT !.text = v]
<1>1. f.kind = field.kind /\ f.text = v
  BY FieldKinds
<1> HIDE DEF f
<1>2. CASE field.kind = "AMOUNT" /\ field.text \in AmountTexts
  <2>1. NormalizeAmount(v) = {v}
    BY <1>2, AmountIsWritten, KindIsRead
  <2> QED
    BY <1>1, <1>2, <2>1, KindIsRead DEF f
<1>3. CASE field.kind = "MSISDN" /\ field.text \in NumberTexts
  <2>1. NormalizeMsisdn(v) = {v}
    BY <1>3, MsisdnIsNormal, KindIsRead
  <2> QED
    BY <1>1, <1>3, <2>1, KindIsRead DEF f
<1>4. CASE field.kind = "TRX_ID" /\ field.text \in TrxTexts
  <2>1. NormalizeTrxId(v) = {v}
    BY <1>4, TrxIdIsNormal, KindIsRead
  <2> QED
    BY <1>1, <1>4, <2>1, KindIsRead DEF f
<1> QED
  BY <1>2, <1>3, <1>4, FieldKinds

LEMMA FieldsInductive == FieldsSpec => []FieldsInv
<1>1. FieldsInit => FieldsInv
  BY DEF FieldsInit, Unread, FieldsInv
<1>2. FieldsInv /\ [FieldsNext]_fieldVars => FieldsInv'
  <2> SUFFICES ASSUME FieldsInv, [FieldsNext]_fieldVars
               PROVE  FieldsInv'
    OBVIOUS
  <2>1. CASE ReadField
    <3>1. field' = field
      BY <2>1 DEF ReadField
    <3>2. readings'.server = NormalizeField(field) /\ readings'.phone = PhoneNormalizeField(field)
      BY <2>1 DEF ReadField
    <3>3. NormalizeField(field)' = NormalizeField(field)
      BY <3>1
    <3>4. PhoneNormalizeField(field)' = PhoneNormalizeField(field)
      BY <3>1
    <3> QED
      BY <3>1, <3>2, <3>3, <3>4 DEF FieldsInv
  <2>2. CASE UNCHANGED fieldVars
    BY <2>2 DEF FieldsInv, fieldVars
  <2> QED
    BY <2>1, <2>2 DEF FieldsNext
<1> QED
  BY <1>1, <1>2, PTL DEF FieldsSpec

(* An instant that is read is a number of hours.                           *)
LEMMA InstantsTyped ==
    ASSUME FieldsAssumption, NEW t \in TimeTexts, NEW formats
    PROVE  NormalizeTimestamp(t, formats) \subseteq Int /\ PhoneTimestamp(t, formats) \subseteq Int
<1>1. ASSUME NEW f, InRange(Components(t, f))
      PROVE  ServerInstant(Components(t, f)) \in Int /\ PhoneInstant(Components(t, f)) \in Int
  <2> DEFINE c == Components(t, f)
             y == c.year  u == YearUTC(c)  m == c.month  d == c.day  h == c.hour
  <2>1. t.year \in Nat /\ t.hour \in Nat
    BY DEF FieldsAssumption
  <2>2. PivotYear(t.year) \in Nat
    BY <2>1 DEF PivotYear, Pivot
  <2>3. y \in Nat
    BY <2>1, <2>2 DEF Components
  <2>4. h \in Nat /\ m \in 1 .. 12 /\ d \in 1 .. 31
    BY <1>1, <2>1 DEF Components, InRange
  <2>5. u \in Nat
    BY <2>3 DEF YearUTC
  <2>6. DateUTC(c) = 24 * DayNumber(u, m, d) + h
    BY DEF DateUTC
  <2>7. PhoneInstant(c) = (24 * DayNumber(y, m, d) + h) - DhakaOffset
    BY DEF PhoneInstant
  <2> HIDE DEF y, u, m, d, h, c
  <2>8. DayNumber(u, m, d) \in Int /\ DayNumber(y, m, d) \in Int
    BY <2>3, <2>4, <2>5, DayNumberTyped
  <2>9. ServerInstant(c) \in Int /\ PhoneInstant(c) \in Int
    BY <2>4, <2>6, <2>7, <2>8 DEF ServerInstant, DhakaOffset
  <2> QED
    BY <2>9 DEF c
<1>2. \A f : ServerAccepts(Components(t, f)) \/ PhoneAccepts(Components(t, f)) => InRange(Components(t, f))
  BY DEF ServerAccepts, PhoneAccepts
<1>3. ParseProviderTimestamp(t, formats) \subseteq Int
  BY <1>1, <1>2 DEF ParseProviderTimestamp, FirstDate
<1>4. \A S : Timely(S) \subseteq S
  BY DEF Timely
<1>5. PhoneTimestamp(t, formats) \subseteq Int
  BY <1>1, <1>2 DEF PhoneTimestamp, FirstDate, Timely
<1> QED
  BY <1>3, <1>4, <1>5 DEF NormalizeTimestamp

LEMMA FieldsTyped == FieldsSpec => []FieldsTypeOK
<1> DEFINE ReadTyped == readings = Unread \/ readings.done = TRUE
<1>1. FieldsInit => ReadTyped
  BY DEF FieldsInit
<1>2. ReadTyped /\ [FieldsNext]_fieldVars => ReadTyped'
  BY DEF FieldsNext, ReadField, fieldVars
<1>3. FieldsInv /\ ReadTyped => FieldsTypeOK
  <2> SUFFICES ASSUME FieldsInv, ReadTyped PROVE FieldsTypeOK
    OBVIOUS
  <2>1. CASE readings = Unread
    BY <2>1 DEF FieldsInv, FieldsTypeOK, Unread
  <2>2. CASE readings.done = TRUE
    <3>1. ASSUME field.kind = "TIMESTAMP"
          PROVE  readings.server \subseteq Int /\ readings.phone \subseteq Int
      <4>1. field.text \in TimeTexts
        BY <3>1, FieldKinds DEF FieldsInv
      <4>2. /\ readings.server = NormalizeTimestamp(field.text, field.formats)
            /\ readings.phone = PhoneTimestamp(field.text, field.formats)
        BY <2>2, <3>1, KindIsRead DEF FieldsInv
      <4> QED
        BY <4>1, <4>2, InstantsTyped, FieldsAssumption
    <3> QED
      BY <2>2, <3>1 DEF FieldsInv, FieldsTypeOK
  <2> QED
    BY <2>1, <2>2
<1> QED
  BY <1>1, <1>2, <1>3, FieldsInductive, PTL DEF FieldsSpec

(* EnginesAgree: whatever an amount, a timestamp, a telephone number or a  *)
(* transaction id looks like, the phone reads what the server reads, no    *)
(* amount is rounded, and what is read is in its normal form.              *)
THEOREM EnginesReadAlike == FieldsSpec => []EnginesAgree
<1>1. FieldsInv => EnginesAgree
  <2> SUFFICES ASSUME FieldsInv, readings.done
               PROVE  EnginesAgree
    BY DEF EnginesAgree
  <2>1. /\ field \in Fields /\ readings.server = NormalizeField(field)
        /\ readings.phone = PhoneNormalizeField(field)
    BY DEF FieldsInv
  <2>2. ~BeyondPhone => readings.server = readings.phone
    BY <2>1, ReadAlike, FieldsAssumption
  <2>3. ASSUME field.kind = "AMOUNT", NEW a \in readings.server
        PROVE  Writes(field.text, a)
    <3>1. field.text \in AmountTexts
      BY <2>1, <2>3, FieldKinds
    <3> QED
      BY <2>1, <2>3, <3>1, AmountIsWritten, KindIsRead, FieldsAssumption
  <2>4. ASSUME field.kind # "TIMESTAMP", NEW v \in readings.server
        PROVE  NormalizeField([field EXCEPT !.text = v]) = {v}
    BY <2>1, <2>4, ReadAgainAlike, FieldsAssumption
  <2> QED
    BY <2>2, <2>3, <2>4 DEF EnginesAgree
<1> QED
  BY <1>1, FieldsInductive, PTL
==============================================================================
