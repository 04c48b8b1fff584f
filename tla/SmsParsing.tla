------------------------------- MODULE SmsParsing ------------------------------
(***************************************************************************)
(* One SMS from the phone that hears it to the row the server keeps of it: *)
(* the allowlist of senders, the parser rules on the phone and on the      *)
(* server, re-parses, activations of other rules, and the redaction of old *)
(* texts.  A text is the words the rules look for and the fields whose     *)
(* pattern finds something in it; SmsFields reads the fields themselves.   *)
(***************************************************************************)
EXTENDS Naturals

CONSTANTS
    Addresses,      \* senders of the messages
    Words,          \* words that occur in them
    MaxRuleVersion  \* bound: versions of the bKash rule

ASSUME ParsingAssumption == MaxRuleVersion \in Nat \ {0}

VARIABLES
    phone,      \* the app's process: not there, without rules, with its rules
    inbox,      \* the message: not sent, in the scanned days, older than them
    text,       \* what it says
    queued,     \* sms_message: what the phone made of it
    log,        \* sms_logs: what the server made of it
    active      \* the active version of the bKash rule

parsingVars == <<phone, inbox, text, queued, log, active>>

-----------------------------------------------------------------------------
(* The rules of packages/parsers.  They are tried in order; the debits are *)
(* recognised by one word each.                                            *)
DebitWords == {"Cash Out", "sent", "Payment"}
PatternKeys == {"amount", "transaction_id", "sender_msisdn"}    \* of six

CreditType(type, words, required) ==
    [type |-> type, direction |-> "CREDIT", mustContain |-> words,
     mustNotContain |-> DebitWords, required |-> required]
DebitType(type, word) ==
    [type |-> type, direction |-> "DEBIT", mustContain |-> {word},
     mustNotContain |-> {}, required |-> {}]

Bundled == 1
Versions == Bundled .. MaxRuleVersion

(* A later version looks for fewer words and requires more fields.         *)
Required(version) ==
    IF version = Bundled THEN {"amount", "transaction_id"} ELSE PatternKeys
ReceivedWords(version) ==
    {"received", "TrxID"} \cup (IF version = Bundled THEN {"from"} ELSE {})

BkashRule(version) ==
    [provider |-> "BKASH", version |-> version, senders |-> {"bKash", "16247"},
     types |-> <<CreditType("CASH_IN", {"Cash In", "from", "TrxID"}, Required(version)),
                 CreditType("SEND_MONEY", ReceivedWords(version), Required(version)),
                 DebitType("CASH_OUT", "Cash Out"), DebitType("SEND_MONEY_SENT", "sent"),
                 DebitType("PAYMENT", "Payment")>>]
NagadRule ==
    [provider |-> "NAGAD", version |-> Bundled, senders |-> {"NAGAD", "16167"},
     types |-> <<DebitType("CASH_OUT", "Cash Out"), DebitType("SEND_MONEY_SENT", "sent")>>]
RuleList(version) == <<BkashRule(version), NagadRule>>

(* Mutant of Applies: must_not_contain is forgotten.                       *)
AppliesIfContained(type, words) == type.mustContain \subseteq words
Applies(type, words) ==
    type.mustContain \subseteq words /\ type.mustNotContain \cap words = {}

-----------------------------------------------------------------------------
Result(status, provider, version, type, fields) ==
    [status |-> status, provider |-> provider, version |-> version, type |-> type,
     fields |-> fields]
NoType == "NONE"
Unparsed(provider, version) == Result("UNPARSED", provider, version, NoType, {})

ExtractFields(rule, type, t) ==
    Result(IF type.required \subseteq t.found THEN "PARSED" ELSE "PARTIAL",
           rule.provider, rule.version, type.type, t.found)

Judge(rule, type, t) ==
    IF type.direction = "CREDIT" THEN ExtractFields(rule, type, t)
    ELSE Result("IGNORED", rule.provider, rule.version, type.type, {})

Least(S) == CHOOSE i \in S : \A j \in S : i <= j

(* The server: the first rule that lists the address names the provider,   *)
(* whose rule it then applies.                                             *)
ResolveProvider(rules, address) ==
    LET listing == {i \in DOMAIN rules : address \in rules[i].senders}
    IN  IF listing = {} THEN "UNKNOWN" ELSE rules[Least(listing)].provider

Parse(rules, t) ==
    LET provider == ResolveProvider(rules, t.address)
        own == {i \in DOMAIN rules : rules[i].provider = provider}
        rule == rules[Least(own)]
        fitting == {i \in DOMAIN rule.types : Applies(rule.types[i], t.words)}
    IN  CASE own = {} -> Unparsed(provider, 0)
          [] own # {} /\ fitting = {} -> Unparsed(provider, rule.version)
          [] OTHER -> Judge(rule, rule.types[Least(fitting)], t)

(* The phone's engine does the same over the rules it has in memory.       *)
PhoneParse(rules, t) ==
    LET listing == {i \in DOMAIN rules : t.address \in rules[i].senders}
        provider == IF listing = {} THEN "UNKNOWN" ELSE rules[Least(listing)].provider
        rule == rules[Least({i \in DOMAIN rules : rules[i].provider = provider})]
        fitting == {i \in DOMAIN rule.types : Applies(rule.types[i], t.words)}
    IN  IF listing = {} THEN Unparsed(provider, 0)
        ELSE IF fitting = {} THEN Unparsed(provider, rule.version)
        ELSE Judge(rule, rule.types[Least(fitting)], t)

-----------------------------------------------------------------------------
(* RuleRepository of the phone: nothing until load() has run, and then the *)
(* rules of the APK, since nothing ever writes the config cache.           *)
Loaded == IF phone = "LOADED" THEN RuleList(Bundled) ELSE << >>

(* AddressAllowlist: a number loses its country code.                      *)
Stripped(address) == IF address = "+88016247" THEN "16247" ELSE address
Allows(rules, address) ==
    \E i \in DOMAIN rules : Stripped(address) \in {Stripped(s) : s \in rules[i].senders}

SmsTexts == [address : Addresses, words : SUBSET Words, found : SUBSET PatternKeys]
NoText == [address |-> "NONE", words |-> {}, found |-> {}]
RedactedText == [text EXCEPT !.words = {}, !.found = {}]
NotQueued == Unparsed("NONE", 0)
NotLogged == [result |-> NotQueued, redacted |-> FALSE, linked |-> FALSE, blind |-> FALSE]

ParsingInit ==
    /\ phone = "DOWN" /\ inbox = "NEW" /\ text = NoText
    /\ queued = NotQueued /\ log = NotLogged /\ active = Bundled

(* A broadcast or WorkManager starts the process.                          *)
StartProcess ==
    /\ phone = "DOWN" /\ phone' = "BARE"
    /\ UNCHANGED <<inbox, text, queued, log, active>>

(* load(): the activity opens, or a heartbeat is told of a new config,     *)
(* which it always is, since it says it has version 0.                     *)
LoadRules ==
    /\ phone # "LOADED" /\ phone' = "LOADED"
    /\ UNCHANGED <<inbox, text, queued, log, active>>

ProcessKilled ==
    /\ phone # "DOWN" /\ phone' = "DOWN"
    /\ UNCHANGED <<inbox, text, queued, log, active>>

(* CaptureSms.handle, once; a known hash changes nothing.                  *)
Capture(t) == IF queued = NotQueued THEN PhoneParse(Loaded, t) ELSE queued

(* A message arrives, with its broadcast or without.                       *)
OnReceive(t, heard) ==
    /\ inbox = "NEW" /\ inbox' = "RECENT" /\ text' = t
    /\ phone' = IF heard /\ phone = "DOWN" THEN "BARE" ELSE phone
    /\ queued' = IF heard /\ Allows(Loaded, t.address) THEN Capture(t) ELSE queued
    /\ UNCHANGED <<log, active>>

(* InboxScanner.scan and the capture of what it finds.                     *)
ScanInbox ==
    /\ phone # "DOWN" /\ inbox \in {"RECENT", "SCANNED"} /\ inbox' = "SCANNED"
    /\ queued' = IF Allows(Loaded, text.address) THEN Capture(text) ELSE queued
    /\ UNCHANGED <<phone, text, log, active>>

(* The message is older than the days a reconcile scans, which come with   *)
(* several reconciles.                                                     *)
PassWindow ==
    /\ inbox = "SCANNED" /\ inbox' = "PAST"
    /\ UNCHANGED <<phone, text, queued, log, active>>

-----------------------------------------------------------------------------
(* ParserService.extract with the active rules.                            *)
Extract(t) == Parse(RuleList(active), t)

UploadSms ==
    /\ queued # NotQueued /\ log = NotLogged
    /\ log' = [NotLogged EXCEPT !.result = Extract(text)]
    /\ UNCHANGED <<phone, inbox, text, queued, active>>

(* The matching engine credits it.                                         *)
LinkSms ==
    /\ log.result.status = "PARSED" /\ ~log.linked
    /\ log' = [log EXCEPT !.linked = TRUE]
    /\ UNCHANGED <<phone, inbox, text, queued, active>>

ActivateRule(version) ==
    /\ active' = version
    /\ UNCHANGED <<phone, inbox, text, queued, log>>

StoredText == IF log.redacted THEN RedactedText ELSE text

(* Mutant of Reparse: what is found no more is left as it was.             *)
ReparseKeepingOld(force) ==
    /\ log # NotLogged /\ (log.linked => force)
    /\ log' = [log EXCEPT !.result = [Extract(StoredText) EXCEPT !.fields = @ \cup log.result.fields],
                          !.blind = @ \/ log.redacted]
    /\ UNCHANGED <<phone, inbox, text, queued, active>>

(* ParsingController.reparse, whose read and write module Verification     *)
(* takes apart.  Every field is written, those not found as null.          *)
Reparse(force) ==
    /\ log # NotLogged /\ (log.linked => force)
    /\ log' = [log EXCEPT !.result = Extract(StoredText), !.blind = @ \/ log.redacted]
    /\ UNCHANGED <<phone, inbox, text, queued, active>>

(* RetentionPurgeProcessor: the text goes, the row stays.                  *)
RedactExpired ==
    /\ log # NotLogged /\ ~log.redacted
    /\ log' = [log EXCEPT !.redacted = TRUE]
    /\ UNCHANGED <<phone, inbox, text, queued, active>>

ParsingNext ==
    \/ StartProcess \/ LoadRules \/ ProcessKilled
    \/ \E t \in SmsTexts, heard \in BOOLEAN : OnReceive(t, heard)
    \/ ScanInbox \/ PassWindow \/ UploadSms \/ LinkSms \/ RedactExpired
    \/ \E version \in Versions : ActivateRule(version)
    \/ \E force \in BOOLEAN : Reparse(force)

ParsingSpec == ParsingInit /\ [][ParsingNext]_parsingVars

-----------------------------------------------------------------------------
Results == [status : {"PARSED", "PARTIAL", "IGNORED", "UNPARSED"},
            provider : {"BKASH", "NAGAD", "UNKNOWN", "NONE"}, version : Versions \cup {0},
            type : {"CASH_IN", "SEND_MONEY", "CASH_OUT", "SEND_MONEY_SENT", "PAYMENT", NoType},
            fields : SUBSET PatternKeys]
ParsingTypeOK ==
    /\ phone \in {"DOWN", "BARE", "LOADED"}
    /\ inbox \in {"NEW", "RECENT", "SCANNED", "PAST"}
    /\ text \in SmsTexts \cup {NoText}
    /\ queued \in Results
    /\ log \in [result : Results, redacted : BOOLEAN, linked : BOOLEAN, blind : BOOLEAN]
    /\ active \in Versions

(* "a Cash Out SMS can never produce a matchable record"                   *)
(* (workplan/05-sms-parsing-subsystem.md:93), nor a merchant see it as     *)
(* money received (ParserEngine.kt:13-14): whatever else the text says and *)
(* whichever rules are or were active.                                     *)
NoCreditFromDebit ==
    text.words \cap DebitWords # {} =>
        {queued.status, log.result.status} \cap {"PARSED", "PARTIAL"} = {}

(* parser_rule_version on the row tells what made it: the rule of that     *)
(* version gives the same result again from the text as it came, and the   *)
(* bundled one gave the phone the same hint, whatever was activated and    *)
(* re-parsed since, unless a re-parse saw only the redacted text.          *)
RecordIsReproducible ==
    log # NotLogged /\ ~log.blind =>
        \E version \in Versions :
            /\ log.result = Parse(RuleList(version), text)
            /\ log.result.provider = "BKASH" => log.result.version = version
            /\ version = Bundled => log.result = queued

(* "THIS is the guarantee" (InboxScanner.kt:14): a provider's message that *)
(* was in the inbox while a reconcile scanned it is in the phone's queue.  *)
ScannedIsQueued ==
    inbox = "PAST" /\ Allows(RuleList(Bundled), text.address) => queued # NotQueued
=============================================================================
