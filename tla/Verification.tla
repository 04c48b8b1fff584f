---------------------------- MODULE Verification ----------------------------
(***************************************************************************)
(* The verification engine of one company: registered orders, uploaded     *)
(* SMS, the matching runs that credit an SMS to an order, the review       *)
(* queue, and the transactional outbox.  The state is what PostgreSQL      *)
(* holds; a worker is one request or job in flight in some API or worker   *)
(* process.  An action is one atomic database step, so everything a        *)
(* handler read before an await may be stale when it writes: that is where *)
(* the code can go wrong, and calls[w] carries exactly what it remembers.  *)
(***************************************************************************)
EXTENDS Matching

CONSTANTS
    Orders, SmsLogs, TrxIds,
    Workers,           \* concurrent requests and jobs (a bound)
    Requests,          \* [trx, amount] bodies clients register
    Extractions,       \* [parse, trx, amount, ahead] results of the parser
    Tolerance,         \* settings.amount_tolerance
    HeuristicEnabled,  \* settings.heuristic_enabled
    NotifyOnReview,    \* settings.notify_on_review
    NotifyOnExpiry,    \* settings.notify_on_expiry
    CorrectionGrace,   \* LATE_GRACE_MS of the correction endpoint
    ForceReparse,      \* the admin may pass force=true
    MaxLateness,       \* bound: how late the clock lets an order get
    MaxRows            \* bound: review rows ever opened for one (sms, order)

OrNone(S) == S \cup {None}
Request == [trx : OrNone(TrxIds), amount : Nat \ {0}]
Extraction == [parse : ParseStatus, trx : OrNone(TrxIds), amount : Nat, ahead : BOOLEAN]

ASSUME NoneAssumption == None \notin Orders \cup SmsLogs \cup TrxIds \cup AutoMethods
ASSUME DataAssumption == Requests \subseteq Request /\ Extractions \subseteq Extraction
ASSUME NumberAssumption ==
    /\ Tolerance \in Nat /\ CorrectionGrace \in Nat
    /\ MaxLateness \in Nat /\ MaxRows \in Nat
ASSUME SettingAssumption ==
    {HeuristicEnabled, NotifyOnReview, NotifyOnExpiry, ForceReparse} \subseteq BOOLEAN

VARIABLES
    company,    \* companies.status
    device,     \* devices.status of the uploading device
    orders,     \* payment_requests
    smsLogs,    \* sms_logs
    verified,   \* verified_transactions: the credits
    reviews,    \* match_reviews: per (sms, order), is a row open, how many rows ever
    outbox,     \* webhook_events created so far, one per distinct kind
    calls       \* what each worker is in the middle of

vars == <<company, device, orders, smsLogs, verified, reviews, outbox, calls>>

-----------------------------------------------------------------------------
(* Rows                                                                    *)

Methods == AutoMethods \cup {"MANUAL_ADMIN"}
OrderRow == [status : OrderStatus, trx : OrNone(TrxIds), amount : Nat, lateness : Nat]
SmsRow == [match : MatchStatus, parse : ParseStatus, trx : OrNone(TrxIds),
           amount : Nat, ahead : BOOLEAN]
Credit == [order : Orders, sms : SmsLogs, method : Methods, late : BOOLEAN, delta : Int]
Slots == SmsLogs \X OrNone(Orders)
ReviewRow == [open : BOOLEAN, rows : Nat]
EventType == {"payment.verified", "payment.review_required", "payment.expired"}
Event == [type : EventType, order : Orders, paused : BOOLEAN]
Facts == [sms : SmsRow, company : CompanyStatus, device : DeviceStatus]

NoOrder == [status |-> "ABSENT", trx |-> None, amount |-> 0, lateness |-> 0]
NoSms == [match |-> "ABSENT", parse |-> "UNPARSED", trx |-> None,
          amount |-> 0, ahead |-> FALSE]

(* What a handler remembers between two of its database steps.             *)
Call ==
    [op : {"IDLE"}]
    \cup [op : {"PARSE", "REPARSE"}, sms : SmsLogs]
    \cup [op : {"MATCH"}, sms : SmsLogs, upload : BOOLEAN]
    \cup [op : {"DECIDE"}, sms : SmsLogs, upload : BOOLEAN, facts : Facts]
    \cup [op : {"SETTLE"}, sms : SmsLogs, status : MatchStatus]
    \cup [op : {"REVERSE", "CANCEL"}, order : Orders]
    \cup [op : {"EXPIRE"}, order : Orders, paused : BOOLEAN]
    \cup [op : {"CORRECT"}, order : Orders, trx : TrxIds]
    \cup [op : {"RESOLVE"}, slot : Slots, row : Nat]
    \cup [op : {"LINK"}, slot : Slots, row : Nat, order : Orders, sms : SmsLogs,
          late : BOOLEAN, delta : Int]

Idle == [op |-> "IDLE"]

Free(w) == calls[w] = Idle
Doing(w, op) == calls[w].op = op
Goto(w, call) == calls' = [calls EXCEPT ![w] = call]

-----------------------------------------------------------------------------
(* Questions the handlers and the database ask of the rows                 *)

CreditOf(o) == {v \in verified : v.order = o}
SpentOn(s)  == {v \in verified : v.sms = s}
Live(o) == orders[o].status \in {"PENDING", "VERIFIED"}
Creditable(o) == orders[o].status \in {"PENDING", "EXPIRED"}

(* Mutant of Storable: the index covers PENDING orders only.               *)
StorableAmongPending(o, trx) ==
    trx # None =>
        \A p \in Orders \ {o} : orders[p].status = "PENDING" => orders[p].trx # trx

(* The partial unique index on (transaction_id) of live orders, as it      *)
(* stands when order o is written PENDING or VERIFIED with this TrxID.     *)
Storable(o, trx) ==
    trx # None => \A p \in Orders \ {o} : Live(p) => orders[p].trx # trx

(* Mutant of Bookable: the unique constraint on sms_log_id is missing.     *)
BookableOncePerOrder(o, s) == CreditOf(o) = {}

(* verified_transactions has a unique order and a unique SMS.              *)
Bookable(o, s) == CreditOf(o) = {} /\ SpentOn(s) = {}

Spent(trx) == \E v \in verified : smsLogs[v.sms].trx = trx
Event_(type, o, paused) == [type |-> type, order |-> o, paused |-> paused]
FactsOf(s) == [sms |-> smsLogs[s], company |-> company, device |-> device]
Decisions(facts) ==
    Decide(facts, orders, Spent(facts.sms.trx), Tolerance, HeuristicEnabled)

(* The review row a decision opens: at most one OPEN row per slot.         *)
SlotOf(s, d) == <<s, d.order>>
(* Mutant of Opens: applyDuplicate does not insert its review.             *)
OpensOnReviewOnly(d) == d.result = "REVIEW"

Opens(d) == d.result \in {"REVIEW", "DUPLICATE"}

-----------------------------------------------------------------------------
(* applyDecision, for the decisions dec[s] one transaction took on the SMS *)
(* facts fs[s].  The register path takes several, the upload path one.     *)

UniqueHolds(dec) ==
    \A s \in DOMAIN dec : dec[s].result = "VERIFIED" =>
        /\ Bookable(dec[s].order, s)
        /\ Storable(dec[s].order, orders[dec[s].order].trx)

ReviewFree(dec) ==
    \A s \in DOMAIN dec : Opens(dec[s]) => ~reviews[SlotOf(s, dec[s])].open

RowsLeft(dec) ==
    \A s \in DOMAIN dec : Opens(dec[s]) => reviews[SlotOf(s, dec[s])].rows < MaxRows

(* Mutant of Booking: the SMS and the order swapped.                       *)
BookingSwapped(o, s, method, late, amount) ==
    [order |-> s, sms |-> o, method |-> method, late |-> late,
     delta |-> amount - orders[o].amount]

Booking(o, s, method, late, amount) ==
    [order |-> o, sms |-> s, method |-> method, late |-> late,
     delta |-> amount - orders[o].amount]

ApplyDecisions(dec, fs) ==
    LET credited == {s \in DOMAIN dec : dec[s].result = "VERIFIED"}
        opened == {SlotOf(s, dec[s]) : s \in {t \in DOMAIN dec : Opens(dec[t])}}
        named == {s \in DOMAIN dec : dec[s].result = "REVIEW" /\ dec[s].order # None}
    IN  /\ UniqueHolds(dec) /\ ReviewFree(dec) /\ RowsLeft(dec)
        /\ verified' = verified \cup
              {Booking(dec[s].order, s, dec[s].method,
                       orders[dec[s].order].status = "EXPIRED", fs[s].sms.amount) : s \in credited}
        /\ orders' = [o \in Orders |->
              IF \E s \in credited : dec[s].order = o
              THEN [orders[o] EXCEPT !.status = "VERIFIED"] ELSE orders[o]]
        /\ smsLogs' = [s \in SmsLogs |->
              IF s \in DOMAIN dec
              THEN [smsLogs[s] EXCEPT !.match = StatusFor(dec[s].result)] ELSE smsLogs[s]]
        /\ reviews' = [x \in Slots |->
              IF x \in opened
              THEN [open |-> TRUE, rows |-> reviews[x].rows + 1] ELSE reviews[x]]
        /\ outbox' = outbox
              \cup {Event_("payment.verified", dec[s].order, fs[s].company # "ACTIVE") :
                        s \in credited}
              \cup {Event_("payment.review_required", dec[s].order, fs[s].company # "ACTIVE") :
                        s \in {t \in named : NotifyOnReview}}

-----------------------------------------------------------------------------
Init ==
    /\ company = "ACTIVE" /\ device = "ACTIVE"
    /\ orders = [o \in Orders |-> NoOrder]
    /\ smsLogs = [s \in SmsLogs |-> NoSms]
    /\ verified = {} /\ outbox = {}
    /\ reviews = [x \in Slots |-> [open |-> FALSE, rows |-> 0]]
    /\ calls = [w \in Workers |-> Idle]

-----------------------------------------------------------------------------
(* Merchant API.  The server key is refused unless the company is ACTIVE.  *)

(* Mutant of Register: no reverse match, the next upload is expected to    *)
(* find the order.                                                         *)
RegisterWithoutReverse(w, o, r) ==
    /\ Free(w) /\ company = "ACTIVE"
    /\ orders[o].status = "ABSENT"
    /\ r.trx = None => HeuristicEnabled
    /\ Storable(o, r.trx)
    /\ orders' = [orders EXCEPT ![o] =
          [status |-> "PENDING", trx |-> r.trx, amount |-> r.amount, lateness |-> 0]]
    /\ UNCHANGED <<company, device, smsLogs, verified, reviews, outbox, calls>>

Register(w, o, r) ==
    /\ Free(w) /\ company = "ACTIVE"
    /\ orders[o].status = "ABSENT"
    /\ r.trx = None => HeuristicEnabled
    /\ Storable(o, r.trx)
    /\ orders' = [orders EXCEPT ![o] =
          [status |-> "PENDING", trx |-> r.trx, amount |-> r.amount, lateness |-> 0]]
    /\ Goto(w, [op |-> "REVERSE", order |-> o])
    /\ UNCHANGED <<company, device, smsLogs, verified, reviews, outbox>>

(* The UNMATCHED SMS the reverse pass lists: for an exact order those that *)
(* carry its TrxID, for a heuristic one those whose amount fits and whose  *)
(* timestamp, not modelled, falls in the window.                           *)
ReverseLists(o) ==
    LET waiting == {s \in SmsLogs : smsLogs[s].match = "UNMATCHED"}
    IN  IF orders[o].trx # None
        THEN {{s \in waiting : smsLogs[s].trx = orders[o].trx}}
        ELSE SUBSET {s \in waiting : /\ HeuristicEnabled
                                     /\ smsLogs[s].parse = "PARSED"
                                     /\ smsLogs[s].amount > 0
                                     /\ Within(orders[o].amount, smsLogs[s].amount, Tolerance)}

(* One transaction works through the list, oldest first, and stops at the  *)
(* first verification.                                                     *)
ReverseRun(list, dec) ==
    LET credited == {s \in DOMAIN dec : dec[s].result = "VERIFIED"}
    IN  /\ \A s \in DOMAIN dec : dec[s] \in Decisions(FactsOf(s))
        /\ \/ DOMAIN dec = list /\ credited = {}
           \/ \E s \in DOMAIN dec : credited = {s}

ReverseMatchOrder(w) ==
    /\ Doing(w, "REVERSE")
    /\ Goto(w, Idle)
    /\ UNCHANGED <<company, device>>
    /\ LET o == calls[w].order IN
       \/ ~Creditable(o) /\ UNCHANGED <<orders, smsLogs, verified, reviews, outbox>>
       \/ /\ Creditable(o)
          /\ \E list \in ReverseLists(o) : \E done \in SUBSET list :
             \E dec \in [done -> UNION {Decisions(FactsOf(s)) : s \in done}] :
                /\ ReverseRun(list, dec)
                /\ \/ ApplyDecisions(dec, [s \in done |-> FactsOf(s)])
                   \/ /\ ~(UniqueHolds(dec) /\ ReviewFree(dec))   \* rolled back
                      /\ UNCHANGED <<orders, smsLogs, verified, reviews, outbox>>

BeginCancel(w, o) ==
    /\ Free(w) /\ company = "ACTIVE"
    /\ orders[o].status = "PENDING"
    /\ Goto(w, [op |-> "CANCEL", order |-> o])
    /\ UNCHANGED <<company, device, orders, smsLogs, verified, reviews, outbox>>

CommitCancel(w) ==
    /\ Doing(w, "CANCEL")
    /\ orders' = [orders EXCEPT ![calls[w].order].status = "CANCELLED"]
    /\ Goto(w, Idle)
    /\ UNCHANGED <<company, device, smsLogs, verified, reviews, outbox>>

BeginCorrect(w, o, trx) ==
    /\ Free(w) /\ company = "ACTIVE"
    /\ \/ orders[o].status = "PENDING"
       \/ orders[o].status = "EXPIRED" /\ orders[o].lateness < CorrectionGrace
    /\ Goto(w, [op |-> "CORRECT", order |-> o, trx |-> trx])
    /\ UNCHANGED <<company, device, orders, smsLogs, verified, reviews, outbox>>

CommitCorrect(w) ==
    /\ Doing(w, "CORRECT")
    /\ UNCHANGED <<company, device, smsLogs, verified, reviews, outbox>>
    /\ LET o == calls[w].order IN
       \/ /\ Storable(o, calls[w].trx)
          /\ orders' = [orders EXCEPT ![o].trx = calls[w].trx, ![o].status = "PENDING"]
          /\ Goto(w, [op |-> "REVERSE", order |-> o])
       \/ ~Storable(o, calls[w].trx) /\ UNCHANGED orders /\ Goto(w, Idle)

-----------------------------------------------------------------------------
(* Device upload.  The token is refused unless the device is ACTIVE and    *)
(* the company is not DISABLED.  Each step is a statement of its own.      *)

BeginIngest(w, s) ==
    /\ Free(w) /\ device = "ACTIVE" /\ company # "DISABLED"
    /\ smsLogs[s].match = "ABSENT"
    /\ smsLogs' = [smsLogs EXCEPT ![s].match = "UNMATCHED"]
    /\ Goto(w, [op |-> "PARSE", sms |-> s])
    /\ UNCHANGED <<company, device, orders, verified, reviews, outbox>>

Extracted(s, x) ==
    [smsLogs[s] EXCEPT !.parse = x.parse, !.trx = x.trx, !.amount = x.amount, !.ahead = x.ahead]

Parse(w, x) ==
    /\ Doing(w, "PARSE")
    /\ smsLogs' = [smsLogs EXCEPT ![calls[w].sms] = Extracted(calls[w].sms, x)]
    /\ Goto(w, [op |-> "MATCH", sms |-> calls[w].sms, upload |-> TRUE])
    /\ UNCHANGED <<company, device, orders, verified, reviews, outbox>>

(* loadSmsFacts reads before the advisory lock is taken.                   *)
LoadSmsFacts(w) ==
    /\ Doing(w, "MATCH")
    /\ Goto(w, [op |-> "DECIDE", sms |-> calls[w].sms, upload |-> calls[w].upload,
                facts |-> FactsOf(calls[w].sms)])
    /\ UNCHANGED <<company, device, orders, smsLogs, verified, reviews, outbox>>

(* Only the upload path writes the outcome back, in a statement of its own.*)
Return(w, status) ==
    IF calls[w].upload /\ status # "UNMATCHED"
    THEN Goto(w, [op |-> "SETTLE", sms |-> calls[w].sms, status |-> status])
    ELSE Goto(w, Idle)

(* runOnce: one decision under the lock, applied and committed.            *)
RunOnce(w, d) ==
    LET s == calls[w].sms
    IN  /\ ApplyDecisions([x \in {s} |-> d], [x \in {s} |-> calls[w].facts])
        /\ Return(w, StatusFor(d.result))

(* matchBySms under the lock: commit, or lose to a unique constraint of    *)
(* the ledger (the outcome is then whatever status the SMS has now), or    *)
(* abort on an already open review.  The code retries an abort once before *)
(* it answers UNMATCHED: a retry that succeeds is a later LoadSmsFacts.    *)
MatchBySms(w) ==
    /\ Doing(w, "DECIDE")
    /\ UNCHANGED <<company, device>>
    /\ LET s == calls[w].sms IN
       \E d \in Decisions(calls[w].facts) :
          LET dec == [x \in {s} |-> d] IN
          \/ RunOnce(w, d)
          \/ /\ ~UniqueHolds(dec)
             /\ Return(w, smsLogs[s].match)
             /\ UNCHANGED <<orders, smsLogs, verified, reviews, outbox>>
          \/ /\ ~ReviewFree(dec)
             /\ Return(w, "UNMATCHED")
             /\ UNCHANGED <<orders, smsLogs, verified, reviews, outbox>>

SettleUpload(w) ==
    /\ Doing(w, "SETTLE")
    /\ smsLogs' = [smsLogs EXCEPT ![calls[w].sms].match = calls[w].status]
    /\ Goto(w, Idle)
    /\ UNCHANGED <<company, device, orders, verified, reviews, outbox>>

-----------------------------------------------------------------------------
(* Background jobs                                                         *)

(* A worker stands for one row of the rescan's list, which may be stale by *)
(* the time its turn comes.                                                *)
BeginRescan(w, s) ==
    /\ Free(w)
    /\ smsLogs[s].match = "UNMATCHED"
    /\ Goto(w, [op |-> "MATCH", sms |-> s, upload |-> FALSE])
    /\ UNCHANGED <<company, device, orders, smsLogs, verified, reviews, outbox>>

(* The due order is read together with its company's status.               *)
BeginSweep(w, o) ==
    /\ Free(w)
    /\ orders[o].status = "PENDING" /\ orders[o].lateness > 0
    /\ Goto(w, [op |-> "EXPIRE", order |-> o, paused |-> company # "ACTIVE"])
    /\ UNCHANGED <<company, device, orders, smsLogs, verified, reviews, outbox>>

(* Mutant of Expire: the flip is not conditional on PENDING.               *)
ExpireUnconditionally(w) ==
    /\ Doing(w, "EXPIRE")
    /\ Goto(w, Idle)
    /\ orders' = [orders EXCEPT ![calls[w].order].status = "EXPIRED"]
    /\ UNCHANGED <<company, device, smsLogs, verified, reviews, outbox>>

Expire(w) ==
    /\ Doing(w, "EXPIRE")
    /\ Goto(w, Idle)
    /\ UNCHANGED <<company, device, smsLogs, verified, reviews>>
    /\ LET o == calls[w].order IN
       \/ /\ orders[o].status = "PENDING"
          /\ orders' = [orders EXCEPT ![o].status = "EXPIRED"]
          /\ outbox' = outbox \cup
                {e \in {Event_("payment.expired", o, calls[w].paused)} : NotifyOnExpiry}
       \/ orders[o].status # "PENDING" /\ UNCHANGED <<orders, outbox>>

-----------------------------------------------------------------------------
(* Administrators                                                          *)

(* Mutant of VoidVerification: the order is not put back to PENDING.       *)
VoidKeepsOrder(v) ==
    /\ v \in verified
    /\ verified' = verified \ {v}
    /\ smsLogs' = [smsLogs EXCEPT ![v.sms].match = "UNMATCHED"]
    /\ UNCHANGED <<company, device, orders, reviews, outbox, calls>>

VoidVerification(v) ==
    /\ v \in verified
    /\ Storable(v.order, orders[v.order].trx)
    /\ verified' = verified \ {v}
    /\ orders' = [orders EXCEPT ![v.order].status = "PENDING"]
    /\ smsLogs' = [smsLogs EXCEPT ![v.sms].match = "UNMATCHED"]
    /\ UNCHANGED <<company, device, reviews, outbox, calls>>

BeginResolve(w, x) ==
    /\ Free(w)
    /\ reviews[x].open
    /\ Goto(w, [op |-> "RESOLVE", slot |-> x, row |-> reviews[x].rows])
    /\ UNCHANGED <<company, device, orders, smsLogs, verified, reviews, outbox>>

CloseReview(x, row) ==
    reviews' = [reviews EXCEPT ![x].open = @ /\ reviews[x].rows # row]

Dismiss(w, status) ==
    /\ Doing(w, "RESOLVE")
    /\ CloseReview(calls[w].slot, calls[w].row)
    /\ smsLogs' = [smsLogs EXCEPT ![calls[w].slot[1]].match = status]
    /\ Goto(w, Idle)
    /\ UNCHANGED <<company, device, orders, verified, outbox>>

(* The admin may link any order and SMS of the company, whatever the       *)
(* review names.  The status re-validation takes no row lock.              *)
ReadLink(w, o, s) ==
    /\ Doing(w, "RESOLVE")
    /\ smsLogs[s].match # "ABSENT"
    /\ Creditable(o)
    /\ Goto(w, [op |-> "LINK", slot |-> calls[w].slot, row |-> calls[w].row,
                order |-> o, sms |-> s, late |-> orders[o].status = "EXPIRED",
                delta |-> smsLogs[s].amount - orders[o].amount])
    /\ UNCHANGED <<company, device, orders, smsLogs, verified, reviews, outbox>>

(* Mutant of CommitLink: the manual path forgets the webhook event.        *)
CommitLinkSilently(w) ==
    /\ Doing(w, "LINK")
    /\ Bookable(calls[w].order, calls[w].sms)
    /\ Storable(calls[w].order, orders[calls[w].order].trx)
    /\ verified' = verified \cup
          {[order |-> calls[w].order, sms |-> calls[w].sms, method |-> "MANUAL_ADMIN",
            late |-> calls[w].late, delta |-> calls[w].delta]}
    /\ orders' = [orders EXCEPT ![calls[w].order].status = "VERIFIED"]
    /\ smsLogs' = [smsLogs EXCEPT ![calls[w].sms].match = "MATCHED"]
    /\ CloseReview(calls[w].slot, calls[w].row)
    /\ Goto(w, Idle)
    /\ UNCHANGED <<company, device, outbox>>

CommitLink(w) ==
    /\ Doing(w, "LINK")
    /\ Goto(w, Idle)
    /\ UNCHANGED <<company, device>>
    /\ LET o == calls[w].order
           s == calls[w].sms
           fits == Bookable(o, s) /\ Storable(o, orders[o].trx)
       IN
       \/ /\ fits
          /\ verified' = verified \cup
                {[order |-> o, sms |-> s, method |-> "MANUAL_ADMIN",
                  late |-> calls[w].late, delta |-> calls[w].delta]}
          /\ orders' = [orders EXCEPT ![o].status = "VERIFIED"]
          /\ smsLogs' = [smsLogs EXCEPT ![s].match = "MATCHED"]
          /\ CloseReview(calls[w].slot, calls[w].row)
          /\ outbox' = outbox \cup {Event_("payment.verified", o, FALSE)}
       \/ ~fits /\ UNCHANGED <<orders, smsLogs, verified, reviews, outbox>>

BeginReparse(w, s) ==
    /\ Free(w)
    /\ smsLogs[s].match # "ABSENT"
    /\ SpentOn(s) = {} \/ ForceReparse
    /\ Goto(w, [op |-> "REPARSE", sms |-> s])
    /\ UNCHANGED <<company, device, orders, smsLogs, verified, reviews, outbox>>

(* Only the extraction is rewritten: the match status stays, and nothing   *)
(* re-enters matching.                                                     *)
CommitReparse(w, x) ==
    /\ Doing(w, "REPARSE")
    /\ smsLogs' = [smsLogs EXCEPT ![calls[w].sms] = Extracted(calls[w].sms, x)]
    /\ Goto(w, Idle)
    /\ UNCHANGED <<company, device, orders, verified, reviews, outbox>>

SetCompanyStatus(status) ==
    /\ company' = status
    /\ device' = IF status = "DISABLED" THEN "RETIRED" ELSE device
    /\ UNCHANGED <<orders, smsLogs, verified, reviews, outbox, calls>>

SetDeviceStatus(status) ==
    /\ device' = status
    /\ UNCHANGED <<company, orders, smsLogs, verified, reviews, outbox, calls>>

-----------------------------------------------------------------------------
(* Environment: time passes for an order, and a process may die between    *)
(* any two of its database steps, or give up after a transient error.      *)

Age(o) ==
    /\ orders[o].status # "ABSENT"
    /\ orders[o].lateness < MaxLateness
    /\ orders' = [orders EXCEPT ![o].lateness = @ + 1]
    /\ UNCHANGED <<company, device, smsLogs, verified, reviews, outbox, calls>>

Crash(w) ==
    /\ ~Free(w)
    /\ Goto(w, Idle)
    /\ UNCHANGED <<company, device, orders, smsLogs, verified, reviews, outbox>>

-----------------------------------------------------------------------------
MerchantStep(w) ==
    \/ \E o \in Orders, r \in Requests : Register(w, o, r)
    \/ \E o \in Orders : BeginCancel(w, o)
    \/ \E o \in Orders, trx \in TrxIds : BeginCorrect(w, o, trx)
    \/ CommitCancel(w) \/ CommitCorrect(w) \/ ReverseMatchOrder(w)

DeviceStep(w) ==
    \/ \E s \in SmsLogs : BeginIngest(w, s)
    \/ \E x \in Extractions : Parse(w, x)
    \/ LoadSmsFacts(w) \/ MatchBySms(w) \/ SettleUpload(w)

JobStep(w) ==
    \/ \E s \in SmsLogs : BeginRescan(w, s)
    \/ \E o \in Orders : BeginSweep(w, o)
    \/ Expire(w)

ReviewStep(w) ==
    \/ \E x \in Slots : BeginResolve(w, x)
    \/ \E status \in {"IGNORED", "UNMATCHED"} : Dismiss(w, status)
    \/ \E o \in Orders, s \in SmsLogs : ReadLink(w, o, s)
    \/ CommitLink(w)

ReparseStep(w) ==
    \/ \E s \in SmsLogs : BeginReparse(w, s)
    \/ \E x \in Extractions : CommitReparse(w, x)

AdminStep ==
    \/ \E v \in verified : VoidVerification(v)
    \/ \E status \in CompanyStatus : SetCompanyStatus(status)
    \/ \E status \in DeviceStatus : SetDeviceStatus(status)

WorkerStep(w) ==
    MerchantStep(w) \/ DeviceStep(w) \/ JobStep(w) \/ ReviewStep(w) \/ ReparseStep(w) \/ Crash(w)

Next ==
    \/ \E w \in Workers : WorkerStep(w)
    \/ AdminStep
    \/ \E o \in Orders : Age(o)

Spec == Init /\ [][Next]_vars

-----------------------------------------------------------------------------
(* Properties                                                              *)

(* InvariantsService.check: the rows its queries list, every one of which  *)
(* raises a P1.                                                            *)
VerifiedWithoutCredit == {o \in Orders : orders[o].status = "VERIFIED" /\ CreditOf(o) = {}}
CreditOnUnverified == {v \in verified : orders[v.order].status # "VERIFIED"}
DuplicateLiveTrx ==
    {o \in Orders : Live(o) /\ orders[o].trx # None /\
        \E p \in Orders \ {o} : Live(p) /\ orders[p].trx = orders[o].trx}

(* Every table holds rows of its declared columns, and every in-flight     *)
(* handler remembers values of the right kind.                             *)
TypeOK ==
    /\ company \in CompanyStatus /\ device \in DeviceStatus
    /\ orders \in [Orders -> OrderRow]
    /\ smsLogs \in [SmsLogs -> SmsRow]
    /\ verified \subseteq Credit
    /\ reviews \in [Slots -> ReviewRow]
    /\ outbox \subseteq Event
    /\ calls \in [Workers -> Call]

(* No order is credited twice and no SMS is spent twice, whatever races    *)
(* between uploads, registrations, rescans, corrections, manual links and  *)
(* voids: architecture section 14's double-crediting guarantee.            *)
CreditUnique ==
    \A u, v \in verified : u.order = v.order \/ u.sms = v.sms => u = v

(* What a merchant reads as VERIFIED is backed by a credit: the nightly    *)
(* check verified_order_without_verification never fires.                  *)
VerifiedOrderHasCredit == VerifiedWithoutCredit = {}

(* No two live orders claim one TrxID, across registration, correction,    *)
(* late verification and void (nightly check duplicate_live_trxid).        *)
LiveTrxUnique == DuplicateLiveTrx = {}

(* No automatic credit was booked for less than the order asked, and a     *)
(* heuristic one never for an amount beyond tolerance either way, even     *)
(* when the SMS is re-parsed while it is being matched.                    *)
NeverUnderpaid ==
    \A v \in verified :
        /\ v.method # "MANUAL_ADMIN" => v.delta >= -Tolerance
        /\ v.method = "HEURISTIC_AMOUNT_WINDOW" => v.delta <= Tolerance /\ ~v.late

(* The outbox holds a payment.verified event for every credit: crediting   *)
(* and announcing are one transaction on all three paths.                  *)
VerifiedIsAnnounced ==
    \A v \in verified : \E e \in outbox : e.type = "payment.verified" /\ e.order = v.order

(* An SMS parked for a human is in the queue a human works from: it has an *)
(* open review row, whichever of the racing matching runs parked it.       *)
ParkedIsQueued ==
    \A s \in SmsLogs : smsLogs[s].match \in {"IN_REVIEW", "DUPLICATE_TXN"} =>
        \E o \in OrNone(Orders) : reviews[<<s, o>>].open

(* A matching run never credits an order that is cancelled, already        *)
(* verified, or expired beyond the grace window, and says truthfully       *)
(* whether the credit was late.                                            *)
AutoCreditsAreTimely ==
    [][\A v \in verified' \ verified : v.method # "MANUAL_ADMIN" =>
          /\ \/ orders[v.order].status = "PENDING"
             \/ /\ orders[v.order].status = "EXPIRED"
                /\ orders[v.order].lateness < LateMatchGrace
          /\ v.late = (orders[v.order].status = "EXPIRED")]_vars

(* The expiry sweep never overwrites a verification that beat it to the    *)
(* order, nor announces the expiry of an order that was not pending.       *)
SweepLosesToVerification ==
    [][\A o \in Orders :
          /\ orders'[o].status = "EXPIRED" => orders[o].status \in {"PENDING", "EXPIRED"}
          /\ \A e \in outbox' \ outbox : e.type = "payment.expired" /\ e.order = o =>
                orders'[o].status = "EXPIRED"]_vars

(* The engine implements the abstract ledger of credits.                   *)
Ledger == INSTANCE CreditLedger WITH
    credits <- {<<v.order, v.sms>> : v \in verified},
    settled <- {o \in Orders : orders[o].status = "VERIFIED"}

LedgerSpec == Ledger!Spec

-----------------------------------------------------------------------------
(* Undisturbed operation: merchants register and devices upload while the  *)
(* rescan and the sweep run; nobody administers, corrects or cancels, and  *)
(* no process dies.                                                        *)

UndisturbedNext ==
    \/ \E w \in Workers :
          \/ \E o \in Orders, r \in Requests : Register(w, o, r)
          \/ ReverseMatchOrder(w) \/ DeviceStep(w) \/ JobStep(w)
    \/ \E o \in Orders : Age(o)

UndisturbedSpec == Init /\ [][UndisturbedNext]_vars

(* An SMS that a matching run has credited or parked, whatever a run that  *)
(* was overtaken has written into its match_status since.                  *)
Handled(s) == SpentOn(s) # {} \/ \E o \in OrNone(Orders) : reviews[<<s, o>>].open

(* A usable UNMATCHED SMS carries the TrxID of a PENDING order.            *)
Apart(o, s) ==
    /\ orders[o].status = "PENDING" /\ CreditOf(o) = {}
    /\ smsLogs[s].match = "UNMATCHED" /\ SpentOn(s) = {}
    /\ orders[o].trx # None /\ smsLogs[s].trx = orders[o].trx
    /\ PassesGuards(FactsOf(s))

(* The payment and the order find each other: once every request has run   *)
(* to its end, no SMS and order are apart although each side only looks    *)
(* for the other once, unless an SMS of that TrxID was handled before: its *)
(* open review aborts the run that would park it again.                    *)
NoPairLeftBehind ==
    (\A w \in Workers : Free(w)) =>
        \A o \in Orders, s \in SmsLogs : Apart(o, s) =>
            \E t \in SmsLogs : smsLogs[t].trx = orders[o].trx /\ Handled(t)

-----------------------------------------------------------------------------
(* What the repository's documents say of the engine, and its code does    *)
(* not keep.                                                               *)

(* Nightly check verification_on_unverified_order.                         *)
CreditedOrderIsVerified == CreditOnUnverified = {}

(* "A TrxID already spent by a prior verification is never verified twice."*)
TrxSpentOnce ==
    \A u, v \in verified :
        smsLogs[u.sms].trx = smsLogs[v.sms].trx /\ smsLogs[u.sms].trx # None => u = v

(* "re-extracted sms_logs re-enter matching": an SMS that has become       *)
(* usable is not left IGNORED, where no rescan and no registration looks.  *)
(* Stated where nobody dismisses an SMS or disables the company or device. *)
ReparsedReentersMatching ==
    (\A w \in Workers : Free(w)) =>
        \A s \in SmsLogs : smsLogs[s].match = "IGNORED" => ~PassesGuards(FactsOf(s))
=============================================================================
