------------------------ MODULE Verification_proofs ------------------------
(***************************************************************************)
(* Proofs about the verification engine, for every set of orders, SMS and  *)
(* workers, every parser output, tolerance, setting and bound.             *)
(***************************************************************************)
EXTENDS Verification, TLAPS

(* A decision that VERIFIES names an order and an automatic method.        *)
DecisionOK(d) ==
    /\ d = [result |-> d.result, order |-> d.order, method |-> d.method]
    /\ d.result \in {"VERIFIED", "REVIEW", "DUPLICATE", "GUARD_REJECTED", "UNMATCHED"}
    /\ d.order \in OrNone(Orders)
    /\ d.result = "VERIFIED" => d.order \in Orders /\ d.method \in AutoMethods

(* Whatever the facts, decide() returns decisions of that shape.           *)
LEMMA DecisionsOK ==
    ASSUME DOMAIN orders = Orders, NEW facts, NEW d \in Decisions(facts)
    PROVE  DecisionOK(d)
BY DEF DecisionOK, Decisions, Decide, ExactPass, ExactCandidates, HeuristicPass, HeuristicPool,
       Verified, Review, Duplicate, GuardRejected, Unmatched, OrNone, AutoMethods

LEMMA StatusForTyped ==
    ASSUME NEW d, DecisionOK(d)
    PROVE  StatusFor(d.result) \in MatchStatus
BY DEF DecisionOK, StatusFor, MatchStatus

(* FactsOf and Idle have their types.                                      *)
LEMMA FactsTyped ==
    ASSUME TypeOK, NEW s \in SmsLogs
    PROVE  FactsOf(s) \in Facts
BY DEF TypeOK, FactsOf, Facts

LEMMA GotoTyped ==
    ASSUME calls \in [Workers -> Call], NEW w, NEW c \in Call, Goto(w, c)
    PROVE  calls' \in [Workers -> Call]
BY DEF Goto

LEMMA IdleTyped == Idle \in Call
BY DEF Idle, Call

LEMMA InitTyped == Init => TypeOK
BY NoneAssumption DEF Init, TypeOK, CompanyStatus, DeviceStatus, NoOrder, NoSms, OrderRow,
   SmsRow, OrderStatus, MatchStatus, ParseStatus, OrNone, ReviewRow, Idle, Call

(* applyDecision keeps every table well-typed.                             *)
LEMMA ApplyTyped ==
    ASSUME TypeOK, NEW S \in SUBSET SmsLogs, NEW STATE dec, DOMAIN dec = S,
           \A s \in S : DecisionOK(dec[s]),
           NEW STATE fs, \A s \in S : fs[s] \in Facts,
           ApplyDecisions(dec, fs)
    PROVE  /\ orders' \in [Orders -> OrderRow]
           /\ smsLogs' \in [SmsLogs -> SmsRow]
           /\ verified' \subseteq Credit
           /\ reviews' \in [Slots -> ReviewRow]
           /\ outbox' \subseteq Event
<1>1. orders' \in [Orders -> OrderRow]
  BY DEF ApplyDecisions, TypeOK, OrderRow, OrderStatus
<1>2. smsLogs' \in [SmsLogs -> SmsRow]
  BY StatusForTyped DEF ApplyDecisions, TypeOK, SmsRow
<1>3. verified' \subseteq Credit
  <2>1. ASSUME NEW s \in S, dec[s].result = "VERIFIED"
        PROVE  Booking(dec[s].order, s, dec[s].method,
                       orders[dec[s].order].status = "EXPIRED", fs[s].sms.amount) \in Credit
    BY <2>1 DEF Booking, Credit, Methods, DecisionOK, TypeOK, OrderRow, Facts, SmsRow
  <2> QED
    BY <2>1 DEF ApplyDecisions, TypeOK
<1>4. reviews' \in [Slots -> ReviewRow]
  BY DEF ApplyDecisions, TypeOK, ReviewRow
<1>5. outbox' \subseteq Event
  <2>1. ASSUME NEW o \in Orders, NEW type \in EventType, NEW paused \in BOOLEAN
        PROVE  Event_(type, o, paused) \in Event
    BY DEF Event_, Event
  <2>2. \A s \in S : dec[s].result = "VERIFIED" => dec[s].order \in Orders
    BY DEF DecisionOK
  <2>3. \A s \in S : dec[s].order # None => dec[s].order \in Orders
    BY DEF DecisionOK, OrNone
  <2>4. {"payment.verified", "payment.review_required"} \subseteq EventType
    BY DEF EventType
  <2>5. \A e \in outbox' : \/ e \in outbox
                          \/ \E s \in S, type \in {"payment.verified", "payment.review_required"} :
                                /\ dec[s].order \in Orders
                                /\ e = Event_(type, dec[s].order, fs[s].company # "ACTIVE")
    BY <2>2, <2>3 DEF ApplyDecisions
  <2>6. ASSUME NEW e \in outbox', e \notin outbox
        PROVE  e \in Event
    <3>1. PICK s \in S, type \in {"payment.verified", "payment.review_required"} :
             /\ dec[s].order \in Orders
             /\ e = Event_(type, dec[s].order, fs[s].company # "ACTIVE")
      BY <2>5, <2>6
    <3>2. (fs[s].company # "ACTIVE") \in BOOLEAN
      OBVIOUS
    <3>3. type \in EventType
      BY <2>4
    <3> QED
      BY <2>1, <3>1, <3>2, <3>3, Zenon
  <2> QED
    BY <2>6 DEF TypeOK
<1> QED
  BY <1>1, <1>2, <1>3, <1>4, <1>5

-----------------------------------------------------------------------------
(* A matching transaction that commits: decisions of decide() on S, at     *)
(* most one of them a verification, applied together.                      *)
Applied(S, dec, fs) ==
    /\ DOMAIN dec = S
    /\ \A s \in S : fs[s] \in Facts /\ dec[s] \in Decisions(fs[s])
    /\ \A s, r \in S : dec[s].result = "VERIFIED" /\ dec[r].result = "VERIFIED" => s = r
    /\ ApplyDecisions(dec, fs)

(* The reverse and the forward path either change no table or commit such  *)
(* a transaction.                                                          *)
LEMMA ReverseApplies ==
    ASSUME TypeOK, NEW w \in Workers, ReverseMatchOrder(w)
    PROVE  \/ UNCHANGED <<orders, smsLogs, verified, reviews, outbox>>
           \/ \E S \in SUBSET SmsLogs : \E dec, fs : Applied(S, dec, fs)
<1>1. CASE UNCHANGED <<orders, smsLogs, verified, reviews, outbox>>
  BY <1>1
<1>2. CASE ~UNCHANGED <<orders, smsLogs, verified, reviews, outbox>>
  <2> DEFINE o == calls[w].order
  <2>1. PICK list \in ReverseLists(o) : \E done \in SUBSET list :
             \E dec \in [done -> UNION {Decisions(FactsOf(s)) : s \in done}] :
                /\ ReverseRun(list, dec)
                /\ ApplyDecisions(dec, [s \in done |-> FactsOf(s)])
    BY <1>2 DEF ReverseMatchOrder
  <2>2. PICK done \in SUBSET list :
             \E dec \in [done -> UNION {Decisions(FactsOf(s)) : s \in done}] :
                /\ ReverseRun(list, dec)
                /\ ApplyDecisions(dec, [s \in done |-> FactsOf(s)])
    BY <2>1
  <2>3. PICK dec \in [done -> UNION {Decisions(FactsOf(s)) : s \in done}] :
                /\ ReverseRun(list, dec)
                /\ ApplyDecisions(dec, [s \in done |-> FactsOf(s)])
    BY <2>2
  <2>4. done \in SUBSET SmsLogs
    BY DEF ReverseLists
  <2>5. DOMAIN dec = done
    OBVIOUS
  <2>6. \A s \in done : FactsOf(s) \in Facts
    BY <2>4, FactsTyped
  <2>7. \A s \in done : dec[s] \in Decisions(FactsOf(s))
    BY <2>3, <2>5 DEF ReverseRun
  <2>8. \A s, r \in done :
           dec[s].result = "VERIFIED" /\ dec[r].result = "VERIFIED" => s = r
    BY <2>3, <2>5 DEF ReverseRun
  <2>9. Applied(done, dec, [s \in done |-> FactsOf(s)])
    BY <2>3, <2>5, <2>6, <2>7, <2>8 DEF Applied
  <2> QED
    BY <2>4, <2>9
<1> QED
  BY <1>1, <1>2

LEMMA ForwardApplies ==
    ASSUME TypeOK, NEW w \in Workers, MatchBySms(w)
    PROVE  \/ UNCHANGED <<orders, smsLogs, verified, reviews, outbox>>
           \/ \E S \in SUBSET SmsLogs : \E dec, fs : Applied(S, dec, fs)
<1>1. CASE UNCHANGED <<orders, smsLogs, verified, reviews, outbox>>
  BY <1>1
<1>2. CASE ~UNCHANGED <<orders, smsLogs, verified, reviews, outbox>>
  <2> DEFINE s == calls[w].sms
             facts == calls[w].facts
  <2>1. PICK d \in Decisions(facts) :
            ApplyDecisions([x \in {s} |-> d], [x \in {s} |-> facts])
    BY <1>2 DEF MatchBySms, RunOnce
  <2>2. s \in SmsLogs /\ facts \in Facts
    BY DEF MatchBySms, Doing, TypeOK, Call
  <2>3. Applied({s}, [x \in {s} |-> d], [x \in {s} |-> facts])
    BY <2>1, <2>2 DEF Applied
  <2> QED
    BY <2>2, <2>3
<1> QED
  BY <1>1, <1>2

LEMMA AppliedTyped ==
    ASSUME TypeOK, NEW S \in SUBSET SmsLogs, NEW STATE dec, NEW STATE fs, Applied(S, dec, fs)
    PROVE  /\ orders' \in [Orders -> OrderRow]
           /\ smsLogs' \in [SmsLogs -> SmsRow]
           /\ verified' \subseteq Credit
           /\ reviews' \in [Slots -> ReviewRow]
           /\ outbox' \subseteq Event
<1>1. \A s \in S : DecisionOK(dec[s])
  BY DecisionsOK DEF TypeOK, Applied
<1> QED
  BY <1>1, ApplyTyped DEF Applied

-----------------------------------------------------------------------------
(* What a manual link changes when it commits.                             *)
Linked(w) ==
    /\ Bookable(calls[w].order, calls[w].sms)
    /\ Storable(calls[w].order, orders[calls[w].order].trx)
    /\ verified' = verified \cup
          {[order |-> calls[w].order, sms |-> calls[w].sms, method |-> "MANUAL_ADMIN",
            late |-> calls[w].late, delta |-> calls[w].delta]}
    /\ orders' = [orders EXCEPT ![calls[w].order].status = "VERIFIED"]
    /\ smsLogs' = [smsLogs EXCEPT ![calls[w].sms].match = "MATCHED"]
    /\ CloseReview(calls[w].slot, calls[w].row)
    /\ outbox' = outbox \cup {Event_("payment.verified", calls[w].order, FALSE)}

(* A step that only moves a worker on keeps every type.                    *)
LEMMA MoveTyped ==
    ASSUME TypeOK, NEW w, NEW c \in Call, Goto(w, c),
           UNCHANGED <<company, device, orders, smsLogs, verified, reviews, outbox>>
    PROVE  TypeOK'
BY GotoTyped DEF TypeOK

LEMMA ExtractedTyped ==
    ASSUME TypeOK, NEW s \in SmsLogs, NEW x \in Extractions
    PROVE  Extracted(s, x) \in SmsRow
BY DataAssumption DEF Extracted, SmsRow, Extraction, TypeOK

LEMMA CloseTyped ==
    ASSUME TypeOK, NEW x \in Slots, NEW row, CloseReview(x, row)
    PROVE  reviews' \in [Slots -> ReviewRow]
BY DEF TypeOK, CloseReview, ReviewRow

(* Every step of every worker, administrator and clock keeps every type.   *)
LEMMA TypeStep ==
    ASSUME TypeOK, [Next]_vars
    PROVE  TypeOK'
<1> USE IdleTyped
<1>1. ASSUME NEW w \in Workers, NEW o \in Orders, NEW r \in Requests, Register(w, o, r)
      PROVE  TypeOK'
  <2>1. orders' \in [Orders -> OrderRow]
    BY <1>1, DataAssumption DEF Register, TypeOK, OrderRow, OrderStatus, Request
  <2>2. [op |-> "REVERSE", order |-> o] \in Call
    BY DEF Call
  <2>3. calls' \in [Workers -> Call]
    BY <1>1, <2>2, GotoTyped DEF Register, TypeOK
  <2> QED
    BY <1>1, <2>1, <2>3 DEF Register, TypeOK
<1>2. ASSUME NEW w \in Workers, ReverseMatchOrder(w) \/ MatchBySms(w)
      PROVE  TypeOK'
  <2>1. \/ UNCHANGED <<orders, smsLogs, verified, reviews, outbox>>
        \/ \E S \in SUBSET SmsLogs : \E dec, fs : Applied(S, dec, fs)
    BY <1>2, ReverseApplies, ForwardApplies
  <2>2. /\ orders' \in [Orders -> OrderRow]
        /\ smsLogs' \in [SmsLogs -> SmsRow]
        /\ verified' \subseteq Credit
        /\ reviews' \in [Slots -> ReviewRow]
        /\ outbox' \subseteq Event
    BY <2>1, AppliedTyped DEF TypeOK
  <2>3. calls' \in [Workers -> Call]
    <3>1. CASE ReverseMatchOrder(w)
      BY <3>1, GotoTyped DEF ReverseMatchOrder, TypeOK
    <3>2. CASE MatchBySms(w)
      <4>1. calls[w].sms \in SmsLogs
        BY <3>2 DEF MatchBySms, Doing, TypeOK, Call
      <4>2. \E status \in MatchStatus : Return(w, status)
        <5>1. \A d \in Decisions(calls[w].facts) : StatusFor(d.result) \in MatchStatus
          BY DecisionsOK, StatusForTyped DEF TypeOK
        <5>2. smsLogs[calls[w].sms].match \in MatchStatus /\ "UNMATCHED" \in MatchStatus
          BY <4>1 DEF TypeOK, SmsRow, MatchStatus
        <5> QED
          BY <3>2, <5>1, <5>2 DEF MatchBySms, RunOnce
      <4>3. PICK status \in MatchStatus : Return(w, status)
        BY <4>2
      <4>4. [op |-> "SETTLE", sms |-> calls[w].sms, status |-> status] \in Call
        BY <4>1 DEF Call
      <4> QED
        BY <4>3, <4>4, GotoTyped DEF Return, TypeOK
    <3> QED
      BY <1>2, <3>1, <3>2
  <2>4. company' = company /\ device' = device
    BY <1>2 DEF ReverseMatchOrder, MatchBySms
  <2> QED
    BY <2>2, <2>3, <2>4 DEF TypeOK
<1>3. ASSUME NEW w \in Workers, NEW o \in Orders, BeginCancel(w, o) \/ BeginSweep(w, o)
      PROVE  TypeOK'
  <2>1. /\ [op |-> "CANCEL", order |-> o] \in Call
        /\ [op |-> "EXPIRE", order |-> o, paused |-> company # "ACTIVE"] \in Call
    BY DEF Call
  <2> QED
    BY <1>3, <2>1, MoveTyped DEF BeginCancel, BeginSweep
<1>4. ASSUME NEW w \in Workers, CommitCancel(w)
      PROVE  TypeOK'
  <2>1. orders' \in [Orders -> OrderRow]
    BY <1>4 DEF CommitCancel, TypeOK, OrderRow, OrderStatus
  <2> QED
    BY <1>4, <2>1, GotoTyped DEF CommitCancel, TypeOK
<1>5. ASSUME NEW w \in Workers, NEW o \in Orders, NEW trx \in TrxIds, BeginCorrect(w, o, trx)
      PROVE  TypeOK'
  <2>1. [op |-> "CORRECT", order |-> o, trx |-> trx] \in Call
    BY DEF Call
  <2> QED
    BY <1>5, <2>1, MoveTyped DEF BeginCorrect
<1>6. ASSUME NEW w \in Workers, CommitCorrect(w)
      PROVE  TypeOK'
  <2>1. calls[w].order \in Orders /\ calls[w].trx \in TrxIds
    BY <1>6 DEF CommitCorrect, Doing, TypeOK, Call
  <2>2. orders' \in [Orders -> OrderRow]
    BY <1>6, <2>1 DEF CommitCorrect, TypeOK, OrderRow, OrderStatus, OrNone
  <2>3. [op |-> "REVERSE", order |-> calls[w].order] \in Call
    BY <2>1 DEF Call
  <2>4. calls' \in [Workers -> Call]
    BY <1>6, <2>3, GotoTyped DEF CommitCorrect, TypeOK
  <2> QED
    BY <1>6, <2>2, <2>4 DEF CommitCorrect, TypeOK
<1>7. ASSUME NEW w \in Workers, NEW s \in SmsLogs, BeginIngest(w, s)
      PROVE  TypeOK'
  <2>1. smsLogs' \in [SmsLogs -> SmsRow]
    BY <1>7 DEF BeginIngest, TypeOK, SmsRow, MatchStatus
  <2>2. [op |-> "PARSE", sms |-> s] \in Call
    BY DEF Call
  <2>3. calls' \in [Workers -> Call]
    BY <1>7, <2>2, GotoTyped DEF BeginIngest, TypeOK
  <2> QED
    BY <1>7, <2>1, <2>3 DEF BeginIngest, TypeOK
<1>8. ASSUME NEW w \in Workers, NEW x \in Extractions, Parse(w, x) \/ CommitReparse(w, x)
      PROVE  TypeOK'
  <2>1. calls[w].sms \in SmsLogs
    BY <1>8 DEF Parse, CommitReparse, Doing, TypeOK, Call
  <2>2. smsLogs' \in [SmsLogs -> SmsRow]
    BY <1>8, <2>1, ExtractedTyped DEF Parse, CommitReparse, TypeOK
  <2>3. [op |-> "MATCH", sms |-> calls[w].sms, upload |-> TRUE] \in Call
    BY <2>1 DEF Call
  <2>4. calls' \in [Workers -> Call]
    BY <1>8, <2>3, GotoTyped DEF Parse, CommitReparse, TypeOK
  <2> QED
    BY <1>8, <2>2, <2>4 DEF Parse, CommitReparse, TypeOK
<1>9. ASSUME NEW w \in Workers, LoadSmsFacts(w)
      PROVE  TypeOK'
  <2>1. calls[w].sms \in SmsLogs /\ calls[w].upload \in BOOLEAN
    BY <1>9 DEF LoadSmsFacts, Doing, TypeOK, Call
  <2>2. [op |-> "DECIDE", sms |-> calls[w].sms, upload |-> calls[w].upload,
         facts |-> FactsOf(calls[w].sms)] \in Call
    BY <2>1, FactsTyped DEF Call
  <2> QED
    BY <1>9, <2>2, MoveTyped DEF LoadSmsFacts
<1>10. ASSUME NEW w \in Workers, SettleUpload(w)
       PROVE  TypeOK'
  <2>1. calls[w].sms \in SmsLogs /\ calls[w].status \in MatchStatus
    BY <1>10 DEF SettleUpload, Doing, TypeOK, Call
  <2>2. smsLogs' \in [SmsLogs -> SmsRow]
    BY <1>10, <2>1 DEF SettleUpload, TypeOK, SmsRow
  <2> QED
    BY <1>10, <2>2, GotoTyped DEF SettleUpload, TypeOK
<1>11. ASSUME NEW w \in Workers, NEW s \in SmsLogs, BeginRescan(w, s) \/ BeginReparse(w, s)
       PROVE  TypeOK'
  <2>1. /\ [op |-> "MATCH", sms |-> s, upload |-> FALSE] \in Call
        /\ [op |-> "REPARSE", sms |-> s] \in Call
    BY DEF Call
  <2> QED
    BY <1>11, <2>1, MoveTyped DEF BeginRescan, BeginReparse
<1>12. ASSUME NEW w \in Workers, Expire(w)
       PROVE  TypeOK'
  <2>1. calls[w].order \in Orders /\ calls[w].paused \in BOOLEAN
    BY <1>12 DEF Expire, Doing, TypeOK, Call
  <2>2. orders' \in [Orders -> OrderRow]
    BY <1>12 DEF Expire, TypeOK, OrderRow, OrderStatus
  <2>4. Event_("payment.expired", calls[w].order, calls[w].paused) \in Event
    BY <2>1 DEF Event_, Event, EventType
  <2>5. outbox' \subseteq Event
    BY <1>12, <2>4 DEF Expire, TypeOK
  <2> QED
    BY <1>12, <2>2, <2>5, GotoTyped DEF Expire, TypeOK
<1>13. ASSUME NEW v \in verified, VoidVerification(v)
       PROVE  TypeOK'
  <2>1. orders' \in [Orders -> OrderRow]
    BY <1>13 DEF VoidVerification, TypeOK, OrderRow, OrderStatus
  <2>2. smsLogs' \in [SmsLogs -> SmsRow]
    BY <1>13 DEF VoidVerification, TypeOK, SmsRow, MatchStatus
  <2> QED
    BY <1>13, <2>1, <2>2 DEF VoidVerification, TypeOK
<1>14. ASSUME NEW w \in Workers, NEW x \in Slots, BeginResolve(w, x)
       PROVE  TypeOK'
  <2>1. [op |-> "RESOLVE", slot |-> x, row |-> reviews[x].rows] \in Call
    BY DEF Call, TypeOK, ReviewRow
  <2> QED
    BY <1>14, <2>1, MoveTyped DEF BeginResolve
<1>15. ASSUME NEW w \in Workers, NEW status \in {"IGNORED", "UNMATCHED"}, Dismiss(w, status)
       PROVE  TypeOK'
  <2>1. calls[w].slot \in Slots
    BY <1>15 DEF Dismiss, Doing, TypeOK, Call
  <2>2. smsLogs' \in [SmsLogs -> SmsRow]
    BY <1>15 DEF Dismiss, TypeOK, SmsRow, MatchStatus
  <2>3. reviews' \in [Slots -> ReviewRow]
    BY <1>15, <2>1, CloseTyped DEF Dismiss
  <2> QED
    BY <1>15, <2>2, <2>3, GotoTyped DEF Dismiss, TypeOK
<1>16. ASSUME NEW w \in Workers, NEW o \in Orders, NEW s \in SmsLogs, ReadLink(w, o, s)
       PROVE  TypeOK'
  <2>1. calls[w].slot \in Slots /\ calls[w].row \in Nat
    BY <1>16 DEF ReadLink, Doing, TypeOK, Call
  <2>2. smsLogs[s].amount - orders[o].amount \in Int
    BY DEF TypeOK, SmsRow, OrderRow
  <2>3. (orders[o].status = "EXPIRED") \in BOOLEAN
    OBVIOUS
  <2>4. [op |-> "LINK", slot |-> calls[w].slot, row |-> calls[w].row,
         order |-> o, sms |-> s, late |-> orders[o].status = "EXPIRED",
         delta |-> smsLogs[s].amount - orders[o].amount] \in Call
    BY <2>1, <2>2, <2>3 DEF Call
  <2> QED
    BY <1>16, <2>4, MoveTyped DEF ReadLink
<1>17. ASSUME NEW w \in Workers, CommitLink(w)
       PROVE  TypeOK'
  <2>1. /\ calls[w].slot \in Slots /\ calls[w].order \in Orders /\ calls[w].sms \in SmsLogs
        /\ calls[w].late \in BOOLEAN /\ calls[w].delta \in Int
    BY <1>17 DEF CommitLink, Doing, TypeOK, Call
  <2>2. CASE UNCHANGED <<orders, smsLogs, verified, reviews, outbox>>
    BY <1>17, <2>2, GotoTyped DEF CommitLink, TypeOK
  <2>3. CASE ~UNCHANGED <<orders, smsLogs, verified, reviews, outbox>>
    <3>1. Linked(w)
      BY <1>17, <2>3 DEF CommitLink, Linked
    <3>2. orders' \in [Orders -> OrderRow]
      BY <3>1 DEF Linked, TypeOK, OrderRow, OrderStatus
    <3>3. smsLogs' \in [SmsLogs -> SmsRow]
      BY <3>1 DEF Linked, TypeOK, SmsRow, MatchStatus
    <3>4. [order |-> calls[w].order, sms |-> calls[w].sms, method |-> "MANUAL_ADMIN",
           late |-> calls[w].late, delta |-> calls[w].delta] \in Credit
      BY <2>1 DEF Credit, Methods
    <3>5. reviews' \in [Slots -> ReviewRow]
      BY <2>1, <3>1, CloseTyped DEF Linked
    <3>6. Event_("payment.verified", calls[w].order, FALSE) \in Event
      BY <2>1 DEF Event_, Event, EventType
    <3>7. verified' \subseteq Credit /\ outbox' \subseteq Event
      BY <3>1, <3>4, <3>6 DEF Linked, TypeOK
    <3> QED
      BY <1>17, <3>2, <3>3, <3>5, <3>7, GotoTyped DEF CommitLink, TypeOK
  <2> QED
    BY <2>2, <2>3
<1>18. ASSUME NEW status \in CompanyStatus, SetCompanyStatus(status)
       PROVE  TypeOK'
  BY <1>18 DEF SetCompanyStatus, TypeOK, DeviceStatus
<1>19. ASSUME NEW status \in DeviceStatus, SetDeviceStatus(status)
       PROVE  TypeOK'
  BY <1>19 DEF SetDeviceStatus, TypeOK
<1>20. ASSUME NEW o \in Orders, Age(o)
       PROVE  TypeOK'
  <2>1. orders' \in [Orders -> OrderRow]
    BY <1>20 DEF Age, TypeOK, OrderRow
  <2> QED
    BY <1>20, <2>1 DEF Age, TypeOK
<1>21. ASSUME NEW w \in Workers, Crash(w)
       PROVE  TypeOK'
  BY <1>21, MoveTyped DEF Crash
<1>22. CASE UNCHANGED vars
  BY <1>22 DEF vars, TypeOK
<1> QED
  BY <1>1, <1>2, <1>3, <1>4, <1>5, <1>6, <1>7, <1>8, <1>9, <1>10, <1>11, <1>12, <1>13,
     <1>14, <1>15, <1>16, <1>17, <1>18, <1>19, <1>20, <1>21, <1>22
     DEF Next, WorkerStep, MerchantStep, DeviceStep, JobStep, ReviewStep, ReparseStep, AdminStep

(* Every reachable state is well-typed.                                    *)
THEOREM Typing == Spec => []TypeOK
<1>1. Init => TypeOK
  BY InitTyped
<1>2. TypeOK /\ [Next]_vars => TypeOK'
  BY TypeStep
<1> QED
  BY <1>1, <1>2, PTL DEF Spec

-----------------------------------------------------------------------------
(* The kinds of step, as the ledger and the orders see them.               *)

(* No credit is booked or removed; no order becomes VERIFIED or live, and  *)
(* none that stays live changes TrxID; at most one changes status; only an *)
(* order that was PENDING or EXPIRED is EXPIRED after it, and an expiry is *)
(* announced only for an order that is.                                    *)
Quiet ==
    /\ verified' = verified
    /\ outbox \subseteq outbox'
    /\ \A o \in Orders :
          /\ orders'[o].status = "VERIFIED" => orders[o].status = "VERIFIED"
          /\ orders'[o].status \in {"PENDING", "VERIFIED"} =>
                Live(o) /\ orders'[o].trx = orders[o].trx
          /\ orders'[o].status = "EXPIRED" => orders[o].status \in {"PENDING", "EXPIRED"}
          /\ \A e \in outbox' \ outbox : e.type = "payment.expired" /\ e.order = o =>
                orders'[o].status = "EXPIRED"
    /\ \A o, p \in Orders :
          orders'[o].status # orders[o].status /\ orders'[p].status # orders[p].status => o = p

(* A registration or a correction: one order is made PENDING with a TrxID  *)
(* the live index accepts.                                                 *)
Relisted(o) ==
    /\ verified' = verified /\ outbox' = outbox
    /\ orders'[o].status = "PENDING"
    /\ Storable(o, orders'[o].trx)
    /\ \A p \in Orders \ {o} : orders'[p] = orders[p]

(* A transaction that verifies nothing or one order, by matching or by a   *)
(* manual link, or a void.                                                 *)
Matched == \E S \in SUBSET SmsLogs : \E dec, fs : Applied(S, dec, fs)
LinkedBy(w) == Doing(w, "LINK") /\ Linked(w)

LEMMA UnchangedIsQuiet ==
    ASSUME UNCHANGED <<orders, verified, outbox>>
    PROVE  Quiet
BY DEF Quiet, Live

LEMMA StepKinds ==
    ASSUME TypeOK, [Next]_vars
    PROVE  \/ Quiet
           \/ \E o \in Orders : Relisted(o)
           \/ Matched
           \/ \E w \in Workers : LinkedBy(w)
           \/ \E v \in verified : VoidVerification(v)
<1> DEFINE Kind == \/ Quiet
                   \/ \E o \in Orders : Relisted(o)
                   \/ Matched
                   \/ \E w \in Workers : LinkedBy(w)
                   \/ \E v \in verified : VoidVerification(v)
<1>1. ASSUME NEW w \in Workers, NEW o \in Orders, NEW r \in Requests, Register(w, o, r)
      PROVE  Kind
  <2>1. Relisted(o)
    BY <1>1 DEF Register, Relisted, TypeOK
  <2> QED
    BY <2>1
<1>2. ASSUME NEW w \in Workers, ReverseMatchOrder(w) \/ MatchBySms(w)
      PROVE  Kind
  BY <1>2, ReverseApplies, ForwardApplies, UnchangedIsQuiet DEF Matched
<1>3. ASSUME NEW w \in Workers, CommitCancel(w)
      PROVE  Kind
  <2>1. calls[w].order \in Orders
    BY <1>3 DEF CommitCancel, Doing, TypeOK, Call
  <2>2. Quiet
    BY <1>3, <2>1 DEF CommitCancel, Quiet, TypeOK, OrderRow, Live
  <2> QED
    BY <2>2
<1>4. ASSUME NEW w \in Workers, CommitCorrect(w)
      PROVE  Kind
  <2>1. calls[w].order \in Orders
    BY <1>4 DEF CommitCorrect, Doing, TypeOK, Call
  <2>2. CASE UNCHANGED orders
    BY <1>4, <2>2, UnchangedIsQuiet DEF CommitCorrect
  <2>3. CASE ~UNCHANGED orders
    <3>1. Relisted(calls[w].order)
      BY <1>4, <2>1, <2>3 DEF CommitCorrect, Relisted, TypeOK, OrderRow
    <3> QED
      BY <2>1, <3>1
  <2> QED
    BY <2>2, <2>3
<1>5. ASSUME NEW w \in Workers, Expire(w)
      PROVE  Kind
  <2>1. calls[w].order \in Orders
    BY <1>5 DEF Expire, Doing, TypeOK, Call
  <2>2. CASE orders[calls[w].order].status = "PENDING"
    <3>1. /\ orders' = [orders EXCEPT ![calls[w].order].status = "EXPIRED"]
          /\ outbox \subseteq outbox'
          /\ \A e \in outbox' \ outbox : e.order = calls[w].order
      BY <1>5, <2>2 DEF Expire, Event_
    <3>2. Quiet
      BY <1>5, <2>1, <2>2, <3>1 DEF Expire, Quiet, TypeOK, OrderRow, Live
    <3> QED
      BY <3>2
  <2>3. CASE orders[calls[w].order].status # "PENDING"
    BY <1>5, <2>3, UnchangedIsQuiet DEF Expire
  <2> QED
    BY <2>2, <2>3
<1>6. ASSUME NEW w \in Workers, CommitLink(w)
      PROVE  Kind
  <2>1. CASE UNCHANGED <<orders, smsLogs, verified, reviews, outbox>>
    BY <2>1, UnchangedIsQuiet
  <2>2. CASE ~UNCHANGED <<orders, smsLogs, verified, reviews, outbox>>
    BY <1>6, <2>2 DEF CommitLink, Linked, LinkedBy
  <2> QED
    BY <2>1, <2>2
<1>7. ASSUME NEW o \in Orders, Age(o)
      PROVE  Kind
  <2>1. Quiet
    BY <1>7 DEF Age, Quiet, TypeOK, OrderRow, Live
  <2> QED
    BY <2>1
<1>8. CASE UNCHANGED <<orders, verified, outbox>>
  BY <1>8, UnchangedIsQuiet
<1>9. ASSUME NEW w \in Workers,
             \/ \E o \in Orders : BeginCancel(w, o) \/ BeginSweep(w, o)
             \/ \E o \in Orders, trx \in TrxIds : BeginCorrect(w, o, trx)
             \/ \E s \in SmsLogs : BeginIngest(w, s) \/ BeginRescan(w, s) \/ BeginReparse(w, s)
             \/ \E x \in Extractions : Parse(w, x) \/ CommitReparse(w, x)
             \/ \E x \in Slots : BeginResolve(w, x)
             \/ \E status \in {"IGNORED", "UNMATCHED"} : Dismiss(w, status)
             \/ \E o \in Orders, s \in SmsLogs : ReadLink(w, o, s)
             \/ LoadSmsFacts(w) \/ SettleUpload(w) \/ Crash(w)
      PROVE  UNCHANGED <<orders, verified, outbox>>
  BY <1>9 DEF BeginCancel, BeginCorrect, BeginIngest, Parse, LoadSmsFacts, SettleUpload,
     BeginRescan, BeginSweep, BeginResolve, Dismiss, ReadLink, BeginReparse, CommitReparse, Crash
<1>10. ASSUME \/ \E status \in CompanyStatus : SetCompanyStatus(status)
              \/ \E status \in DeviceStatus : SetDeviceStatus(status)
              \/ UNCHANGED vars
       PROVE  UNCHANGED <<orders, verified, outbox>>
  BY <1>10 DEF SetCompanyStatus, SetDeviceStatus, vars
<1> QED
  BY <1>1, <1>2, <1>3, <1>4, <1>5, <1>6, <1>7, <1>8, <1>9, <1>10
     DEF Next, WorkerStep, MerchantStep, DeviceStep, JobStep, ReviewStep, ReparseStep, AdminStep

-----------------------------------------------------------------------------
(* The inductive invariant.                                                *)
LedgerInv == CreditUnique /\ VerifiedOrderHasCredit /\ LiveTrxUnique

(* What a matching transaction that commits does to credits and orders:    *)
(* nothing, or one booking of an automatic decision.                       *)
Books(o, s, v) ==
    /\ v.order = o /\ v.sms = s
    /\ Bookable(o, s) /\ Storable(o, orders[o].trx)
    /\ verified' = verified \cup {v}
    /\ orders' = [orders EXCEPT ![o].status = "VERIFIED"]
    /\ \E e \in outbox' : e.type = "payment.verified" /\ e.order = o

LEMMA AppliedBooks ==
    ASSUME TypeOK, NEW S \in SUBSET SmsLogs, NEW STATE dec, NEW STATE fs, Applied(S, dec, fs)
    PROVE  \/ orders' = orders /\ verified' = verified
           \/ \E s \in S : /\ dec[s].result = "VERIFIED" /\ dec[s].order \in Orders
                           /\ Books(dec[s].order, s,
                                 Booking(dec[s].order, s, dec[s].method,
                                    orders[dec[s].order].status = "EXPIRED", fs[s].sms.amount))
<1>1. CASE \A s \in S : dec[s].result # "VERIFIED"
  <2>1. orders' = orders
    BY <1>1 DEF Applied, ApplyDecisions, TypeOK
  <2>2. verified' = verified
    BY <1>1 DEF Applied, ApplyDecisions
  <2> QED
    BY <2>1, <2>2
<1>2. ASSUME NEW s \in S, dec[s].result = "VERIFIED"
      PROVE  /\ dec[s].order \in Orders
             /\ Books(dec[s].order, s,
                   Booking(dec[s].order, s, dec[s].method,
                      orders[dec[s].order].status = "EXPIRED", fs[s].sms.amount))
  <2> DEFINE o == dec[s].order
             v == Booking(o, s, dec[s].method, orders[o].status = "EXPIRED", fs[s].sms.amount)
  <2>1. o \in Orders
    BY <1>2, DecisionsOK DEF Applied, DecisionOK, TypeOK
  <2>2. {r \in S : dec[r].result = "VERIFIED"} = {s}
    BY <1>2 DEF Applied
  <2>3. Bookable(o, s) /\ Storable(o, orders[o].trx)
    BY <1>2 DEF Applied, ApplyDecisions, UniqueHolds
  <2>4. verified' = verified \cup {v}
    BY <2>2 DEF Applied, ApplyDecisions
  <2>5. orders' = [orders EXCEPT ![o].status = "VERIFIED"]
    BY <2>1, <2>2 DEF Applied, ApplyDecisions, TypeOK
  <2>6. Event_("payment.verified", o, fs[s].company # "ACTIVE") \in outbox'
    BY <1>2 DEF Applied, ApplyDecisions
  <2>7. \E e \in outbox' : e.type = "payment.verified" /\ e.order = o
    BY <2>6 DEF Event_
  <2> QED
    BY <2>1, <2>3, <2>4, <2>5, <2>7 DEF Books, Booking
<1> QED
  BY <1>1, <1>2

(* Booking a credit on an order and an SMS that have none keeps the        *)
(* ledger in order.                                                        *)
LEMMA BooksKeepsLedger ==
    ASSUME TypeOK, LedgerInv, NEW o \in Orders, NEW s, NEW STATE v, Books(o, s, v)
    PROVE  LedgerInv'
<1>1. CreditUnique'
  BY DEF LedgerInv, CreditUnique, Books, Bookable, CreditOf, SpentOn
<1>2. \A p \in Orders : /\ orders'[p].trx = orders[p].trx
                        /\ p # o => orders'[p].status = orders[p].status
                        /\ p = o => orders'[p].status = "VERIFIED"
  BY DEF Books, TypeOK, OrderRow
<1>3. VerifiedOrderHasCredit'
  <2>1. ASSUME NEW p \in Orders, orders'[p].status = "VERIFIED"
        PROVE  \E u \in verified' : u.order = p
    <3>1. CASE p = o
      BY <3>1 DEF Books
    <3>2. CASE p # o
      BY <2>1, <3>2, <1>2 DEF Books, LedgerInv, VerifiedOrderHasCredit, VerifiedWithoutCredit, CreditOf
    <3> QED
      BY <3>1, <3>2
  <2> QED
    BY <2>1 DEF VerifiedOrderHasCredit, VerifiedWithoutCredit, CreditOf
<1>4. LiveTrxUnique'
  BY <1>2 DEF LedgerInv, LiveTrxUnique, DuplicateLiveTrx, Live, Books, Storable
<1> QED
  BY <1>1, <1>3, <1>4 DEF LedgerInv

LEMMA LedgerStep ==
    ASSUME TypeOK, LedgerInv, [Next]_vars
    PROVE  LedgerInv'
<1>1. CASE Quiet
  <2>1. CreditUnique'
    BY <1>1 DEF Quiet, LedgerInv, CreditUnique
  <2>2. VerifiedOrderHasCredit'
    BY <1>1 DEF Quiet, LedgerInv, VerifiedOrderHasCredit, VerifiedWithoutCredit, CreditOf
  <2>3. LiveTrxUnique'
    BY <1>1 DEF Quiet, LedgerInv, LiveTrxUnique, DuplicateLiveTrx, Live
  <2> QED
    BY <2>1, <2>2, <2>3 DEF LedgerInv
<1>2. ASSUME NEW o \in Orders, Relisted(o)
      PROVE  LedgerInv'
  <2>1. CreditUnique'
    BY <1>2 DEF Relisted, LedgerInv, CreditUnique
  <2>2. VerifiedOrderHasCredit'
    BY <1>2 DEF Relisted, LedgerInv, VerifiedOrderHasCredit, VerifiedWithoutCredit, CreditOf
  <2>3. LiveTrxUnique'
    BY <1>2 DEF Relisted, LedgerInv, LiveTrxUnique, DuplicateLiveTrx, Live, Storable
  <2> QED
    BY <2>1, <2>2, <2>3 DEF LedgerInv
<1>3. CASE Matched
  <2>1. PICK S \in SUBSET SmsLogs : \E dec, fs : Applied(S, dec, fs)
    BY <1>3 DEF Matched
  <2>2. PICK dec, fs : Applied(S, dec, fs)
    BY <2>1
  <2>3. CASE orders' = orders /\ verified' = verified
    BY <2>3 DEF LedgerInv, CreditUnique, VerifiedOrderHasCredit, VerifiedWithoutCredit,
                LiveTrxUnique, DuplicateLiveTrx, CreditOf, Live
  <2>4. CASE \E s \in S : \E o \in Orders : \E v : Books(o, s, v)
    BY <2>4, BooksKeepsLedger
  <2> QED
    BY <2>2, <2>3, <2>4, AppliedBooks
<1>4. ASSUME NEW w \in Workers, LinkedBy(w)
      PROVE  LedgerInv'
  <2> DEFINE v == [order |-> calls[w].order, sms |-> calls[w].sms, method |-> "MANUAL_ADMIN",
                   late |-> calls[w].late, delta |-> calls[w].delta]
  <2>1. calls[w].order \in Orders
    BY <1>4 DEF LinkedBy, Doing, TypeOK, Call
  <2>2. \E e \in outbox' : e.type = "payment.verified" /\ e.order = calls[w].order
    <3>1. Event_("payment.verified", calls[w].order, FALSE) \in outbox'
      BY <1>4 DEF LinkedBy, Linked
    <3> QED
      BY <3>1 DEF Event_
  <2>3. Books(calls[w].order, calls[w].sms, v)
    BY <1>4, <2>2 DEF LinkedBy, Linked, Books
  <2> QED
    BY <2>1, <2>3, BooksKeepsLedger
<1>5. ASSUME NEW v \in verified, VoidVerification(v)
      PROVE  LedgerInv'
  <2>1. v.order \in Orders
    BY DEF TypeOK, Credit
  <2>2. CreditUnique'
    BY <1>5 DEF VoidVerification, LedgerInv, CreditUnique
  <2>3. \A p \in Orders : /\ orders'[p].trx = orders[p].trx
                          /\ p # v.order => orders'[p].status = orders[p].status
                          /\ p = v.order => orders'[p].status = "PENDING"
    BY <1>5, <2>1 DEF VoidVerification, TypeOK, OrderRow
  <2>4. VerifiedOrderHasCredit'
    BY <1>5, <2>3 DEF VoidVerification, LedgerInv, VerifiedOrderHasCredit, VerifiedWithoutCredit, CreditOf
  <2>5. LiveTrxUnique'
    BY <1>5, <2>3 DEF VoidVerification, LedgerInv, LiveTrxUnique, DuplicateLiveTrx, Live, Storable
  <2> QED
    BY <2>2, <2>4, <2>5 DEF LedgerInv
<1> QED
  BY <1>1, <1>2, <1>3, <1>4, <1>5, StepKinds

LEMMA LedgerInit == Init => LedgerInv
BY DEF Init, NoOrder, LedgerInv, CreditUnique, VerifiedOrderHasCredit, VerifiedWithoutCredit,
       LiveTrxUnique, DuplicateLiveTrx, Live

LEMMA LedgerInvariant == Spec => []LedgerInv
<1>1. TypeOK /\ LedgerInv /\ [Next]_vars => LedgerInv'
  BY LedgerStep
<1> QED
  BY <1>1, LedgerInit, Typing, PTL DEF Spec

(* No order is credited twice and no SMS is spent twice, for any number of *)
(* orders, SMS and concurrent workers.                                     *)
THEOREM CreditOnce == Spec => []CreditUnique
<1>1. LedgerInv => CreditUnique
  BY DEF LedgerInv
<1> QED
  BY <1>1, LedgerInvariant, PTL

(* A VERIFIED order has its credit.                                        *)
THEOREM VerifiedIsBacked == Spec => []VerifiedOrderHasCredit
<1>1. LedgerInv => VerifiedOrderHasCredit
  BY DEF LedgerInv
<1> QED
  BY <1>1, LedgerInvariant, PTL

(* No two live orders share a TrxID.                                       *)
THEOREM LiveTrxSafe == Spec => []LiveTrxUnique
<1>1. LedgerInv => LiveTrxUnique
  BY DEF LedgerInv
<1> QED
  BY <1>1, LedgerInvariant, PTL

-----------------------------------------------------------------------------
(* Each credit keeps its announcement: no step removes an event.           *)
LEMMA AnnouncedStep ==
    ASSUME TypeOK, VerifiedIsAnnounced, [Next]_vars
    PROVE  VerifiedIsAnnounced'
<1>1. ASSUME outbox \subseteq outbox', verified' \subseteq verified
      PROVE  VerifiedIsAnnounced'
  BY <1>1 DEF VerifiedIsAnnounced
<1>2. ASSUME NEW o, NEW s, NEW v, Books(o, s, v), outbox \subseteq outbox'
      PROVE  VerifiedIsAnnounced'
  <2>1. ASSUME NEW u \in verified'
        PROVE  \E e \in outbox' : e.type = "payment.verified" /\ e.order = u.order
    BY <1>2 DEF Books, VerifiedIsAnnounced
  <2> QED
    BY <2>1 DEF VerifiedIsAnnounced
<1>3. CASE Quiet
  BY <1>1, <1>3 DEF Quiet
<1>4. ASSUME NEW o \in Orders, Relisted(o)
      PROVE  VerifiedIsAnnounced'
  BY <1>1, <1>4 DEF Relisted
<1>5. CASE Matched
  <2>1. PICK S \in SUBSET SmsLogs : \E dec, fs : Applied(S, dec, fs)
    BY <1>5 DEF Matched
  <2>2. PICK dec, fs : Applied(S, dec, fs)
    BY <2>1
  <2>3. outbox \subseteq outbox'
    BY <2>2 DEF Applied, ApplyDecisions
  <2>4. \/ verified' = verified
        \/ \E s \in S : \E o, v : Books(o, s, v)
    BY <2>2, AppliedBooks
  <2> QED
    BY <1>1, <1>2, <2>3, <2>4
<1>6. ASSUME NEW w \in Workers, LinkedBy(w)
      PROVE  VerifiedIsAnnounced'
  <2>1. Event_("payment.verified", calls[w].order, FALSE) \in outbox' /\ outbox \subseteq outbox'
    BY <1>6 DEF LinkedBy, Linked
  <2>2. \A u \in verified' : u \in verified \/ u.order = calls[w].order
    BY <1>6 DEF LinkedBy, Linked
  <2> QED
    BY <2>1, <2>2 DEF VerifiedIsAnnounced, Event_
<1>7. ASSUME NEW v \in verified, VoidVerification(v)
      PROVE  VerifiedIsAnnounced'
  BY <1>1, <1>7 DEF VoidVerification
<1> QED
  BY <1>3, <1>4, <1>5, <1>6, <1>7, StepKinds

(* Every credit has its payment.verified event, on the automatic paths and *)
(* on the manual one.                                                      *)
THEOREM Announced == Spec => []VerifiedIsAnnounced
<1>1. Init => VerifiedIsAnnounced
  BY DEF Init, VerifiedIsAnnounced
<1>2. TypeOK /\ VerifiedIsAnnounced /\ [Next]_vars => VerifiedIsAnnounced'
  BY AnnouncedStep
<1> QED
  BY <1>1, <1>2, Typing, PTL DEF Spec

-----------------------------------------------------------------------------
(* What decide() guarantees of an order it verifies: it is eligible and    *)
(* not underpaid; a heuristic one is PENDING and within tolerance.         *)
LEMMA VerifiedDecision ==
    ASSUME TypeOK, NEW facts \in Facts, NEW d \in Decisions(facts), d.result = "VERIFIED"
    PROVE  LET o == d.order
               delta == facts.sms.amount - orders[o].amount
           IN  /\ o \in Orders
               /\ IsEligible(orders[o])
               /\ delta >= -Tolerance
               /\ d.method \in AutoMethods
               /\ d.method = "HEURISTIC_AMOUNT_WINDOW" =>
                     delta <= Tolerance /\ orders[o].status = "PENDING"
<1> DEFINE o == d.order
           amount == facts.sms.amount
<1>1. o \in Orders /\ d.method \in AutoMethods
  BY DecisionsOK DEF DecisionOK, TypeOK
<1>2. amount \in Int /\ orders[o].amount \in Int /\ Tolerance \in Int
  BY <1>1, NumberAssumption DEF Facts, SmsRow, TypeOK, OrderRow
<1>3. \/ /\ d = Verified(o, "EXACT_TXN_ID")
         /\ IsEligible(orders[o])
         /\ CompareAmount(orders[o].amount, amount, Tolerance) # "UNDERPAID"
      \/ /\ d = Verified(o, "HEURISTIC_AMOUNT_WINDOW")
         /\ o \in HeuristicPool(facts.sms, orders, Tolerance)
  BY DEF Decisions, Decide, ExactPass, ExactCandidates, HeuristicPass, Verified, Review, Duplicate,
     GuardRejected, Unmatched
<1>4. CASE /\ d = Verified(o, "EXACT_TXN_ID")
           /\ IsEligible(orders[o])
           /\ CompareAmount(orders[o].amount, amount, Tolerance) # "UNDERPAID"
  <2>1. amount - orders[o].amount >= -Tolerance
    BY <1>2, <1>4, NumberAssumption DEF CompareAmount, Within
  <2> QED
    BY <1>1, <1>4, <2>1 DEF Verified
<1>5. CASE /\ d = Verified(o, "HEURISTIC_AMOUNT_WINDOW")
           /\ o \in HeuristicPool(facts.sms, orders, Tolerance)
  BY <1>1, <1>2, <1>5 DEF HeuristicPool, Within, IsEligible
<1> QED
  BY <1>3, <1>4, <1>5

(* The only new credit of a matching transaction is of such a decision; of *)
(* any other step, a manual one.                                           *)
LEMMA NewCredits ==
    ASSUME TypeOK, [Next]_vars, NEW v \in verified' \ verified
    PROVE  \/ v.method = "MANUAL_ADMIN"
           \/ /\ IsEligible(orders[v.order])
              /\ v.late = (orders[v.order].status = "EXPIRED")
              /\ v.delta >= -Tolerance
              /\ v.method = "HEURISTIC_AMOUNT_WINDOW" => v.delta <= Tolerance /\ ~v.late
<1>1. CASE Quiet
  BY <1>1 DEF Quiet
<1>2. ASSUME NEW o \in Orders, Relisted(o)
      PROVE  FALSE
  BY <1>2 DEF Relisted
<1>3. CASE Matched
  <2>1. PICK S \in SUBSET SmsLogs : \E dec, fs : Applied(S, dec, fs)
    BY <1>3 DEF Matched
  <2>2. PICK dec, fs : Applied(S, dec, fs)
    BY <2>1
  <2>3. PICK s \in S :
           /\ dec[s].result = "VERIFIED"
           /\ Books(dec[s].order, s,
                 Booking(dec[s].order, s, dec[s].method,
                    orders[dec[s].order].status = "EXPIRED", fs[s].sms.amount))
    BY <2>2, AppliedBooks
  <2>4. /\ dec[s].result = "VERIFIED"
        /\ verified' = verified \cup
                 {Booking(dec[s].order, s, dec[s].method,
                          orders[dec[s].order].status = "EXPIRED", fs[s].sms.amount)}
    BY <2>3 DEF Books
  <2>5. v = [order |-> dec[s].order, sms |-> s, method |-> dec[s].method,
             late |-> orders[dec[s].order].status = "EXPIRED",
             delta |-> fs[s].sms.amount - orders[dec[s].order].amount]
    BY <2>4 DEF Booking
  <2>6. fs[s] \in Facts /\ dec[s] \in Decisions(fs[s])
    BY <2>2 DEF Applied
  <2>7. /\ IsEligible(orders[dec[s].order])
        /\ fs[s].sms.amount - orders[dec[s].order].amount >= -Tolerance
        /\ dec[s].method = "HEURISTIC_AMOUNT_WINDOW" =>
              /\ fs[s].sms.amount - orders[dec[s].order].amount <= Tolerance
              /\ orders[dec[s].order].status = "PENDING"
    BY <2>4, <2>6, VerifiedDecision
  <2> QED
    BY <2>5, <2>7
<1>4. ASSUME NEW w \in Workers, LinkedBy(w)
      PROVE  v.method = "MANUAL_ADMIN"
  BY <1>4 DEF LinkedBy, Linked
<1>5. ASSUME NEW u \in verified, VoidVerification(u)
      PROVE  FALSE
  BY <1>5 DEF VoidVerification
<1> QED
  BY <1>1, <1>2, <1>3, <1>4, <1>5, StepKinds

(* No automatic credit is for less than the order asked, whatever the      *)
(* amounts, the tolerance and the moment the SMS was re-parsed.            *)
THEOREM NeverUnderpaidSafe == Spec => []NeverUnderpaid
<1>1. Init => NeverUnderpaid
  BY DEF Init, NeverUnderpaid
<1>2. TypeOK /\ NeverUnderpaid /\ [Next]_vars => NeverUnderpaid'
  <2> SUFFICES ASSUME TypeOK, NeverUnderpaid, [Next]_vars, NEW v \in verified'
               PROVE  /\ v.method # "MANUAL_ADMIN" => v.delta >= -Tolerance
                      /\ v.method = "HEURISTIC_AMOUNT_WINDOW" => v.delta <= Tolerance /\ ~v.late
    BY DEF NeverUnderpaid
  <2>1. CASE v \in verified
    BY <2>1 DEF NeverUnderpaid
  <2>2. CASE v \notin verified
    BY <2>2, NewCredits
  <2> QED
    BY <2>1, <2>2
<1> QED
  BY <1>1, <1>2, Typing, PTL DEF Spec

(* A matching run credits only a PENDING order or one EXPIRED within the   *)
(* grace window, and records truthfully whether it was late.               *)
THEOREM Timely == Spec => AutoCreditsAreTimely
<1>1. TypeOK /\ [Next]_vars =>
        [\A v \in verified' \ verified : v.method # "MANUAL_ADMIN" =>
          /\ \/ orders[v.order].status = "PENDING"
             \/ /\ orders[v.order].status = "EXPIRED"
                /\ orders[v.order].lateness < LateMatchGrace
          /\ v.late = (orders[v.order].status = "EXPIRED")]_vars
  BY NewCredits DEF IsEligible
<1> QED
  BY <1>1, Typing, PTL DEF Spec, AutoCreditsAreTimely

(* The sweep and everything else leave a VERIFIED order un-EXPIRED.        *)
THEOREM SweepLoses == Spec => SweepLosesToVerification
<1> DEFINE Loses == \A o \in Orders :
          /\ orders'[o].status = "EXPIRED" => orders[o].status \in {"PENDING", "EXPIRED"}
          /\ \A e \in outbox' \ outbox : e.type = "payment.expired" /\ e.order = o =>
                orders'[o].status = "EXPIRED"
<1>1. ASSUME TypeOK, [Next]_vars
      PROVE  Loses
  <2>1. CASE Quiet
    BY <2>1 DEF Quiet
  <2>2. ASSUME NEW o \in Orders, Relisted(o)
        PROVE  Loses
    BY <2>2 DEF Relisted
  <2>3. CASE Matched
    <3>1. PICK S \in SUBSET SmsLogs : \E dec, fs : Applied(S, dec, fs)
      BY <2>3 DEF Matched
    <3>2. PICK dec, fs : Applied(S, dec, fs)
      BY <3>1
    <3>3. \A e \in outbox' \ outbox : e.type # "payment.expired"
      BY <3>2 DEF Applied, ApplyDecisions, Event_
    <3>4. \A o \in Orders : orders'[o].status \in {orders[o].status, "VERIFIED"}
      BY <3>2 DEF Applied, ApplyDecisions, TypeOK, OrderRow
    <3> QED
      BY <3>3, <3>4
  <2>4. ASSUME NEW w \in Workers, LinkedBy(w)
        PROVE  Loses
    <3>1. \A e \in outbox' \ outbox : e.type # "payment.expired"
      BY <2>4 DEF LinkedBy, Linked, Event_
    <3>2. \A o \in Orders : orders'[o].status \in {orders[o].status, "VERIFIED"}
      BY <2>4 DEF LinkedBy, Linked, TypeOK, OrderRow
    <3> QED
      BY <3>1, <3>2
  <2>5. ASSUME NEW v \in verified, VoidVerification(v)
        PROVE  Loses
    BY <2>5 DEF VoidVerification, TypeOK, OrderRow
  <2> HIDE DEF Loses
  <2> QED
    BY <1>1, <2>1, <2>2, <2>3, <2>4, <2>5, StepKinds
<1>2. TypeOK /\ [Next]_vars => [Loses]_vars
  BY <1>1
<1> QED
  BY <1>2, Typing, PTL DEF Spec, SweepLosesToVerification

-----------------------------------------------------------------------------
(* Every reachable step of the engine is a step of the abstract ledger: a  *)
(* credit, a void, the loss of a VERIFIED status, or none of its business. *)
THEOREM Refinement == Spec => LedgerSpec
<1> DEFINE Settled == {o \in Orders : orders[o].status = "VERIFIED"}
           Credits == {<<v.order, v.sms>> : v \in verified}
<1>1. Init => Ledger!Init
  BY DEF Init, Ledger!Init, NoOrder
<1>2. ASSUME TypeOK, LedgerInv, [Next]_vars
      PROVE  [Ledger!Next]_(Ledger!vars)
  <2>1. CASE Quiet
    <3>1. Credits' = Credits
      BY <2>1 DEF Quiet
    <3>2. Settled' \subseteq Settled
      BY <2>1 DEF Quiet
    <3>3. CASE Settled' = Settled
      BY <3>1, <3>3 DEF Ledger!vars
    <3>4. CASE Settled' # Settled
      <4>1. PICK o \in Settled : o \notin Settled'
        BY <3>2, <3>4
      <4>2. Settled' = Settled \ {o}
        BY <2>1, <3>2, <4>1 DEF Quiet
      <4>3. Ledger!Unsettle(o)
        BY <3>1, <4>1, <4>2 DEF Ledger!Unsettle
      <4> QED
        BY <4>3 DEF Ledger!Next
    <3> QED
      BY <3>3, <3>4
  <2>2. ASSUME NEW o \in Orders, Relisted(o)
        PROVE  [Ledger!Next]_(Ledger!vars)
    <3>1. Credits' = Credits /\ Settled' = Settled \ {o}
      BY <2>2 DEF Relisted
    <3>2. CASE o \in Settled
      BY <3>1, <3>2 DEF Ledger!Unsettle, Ledger!Next
    <3>3. CASE o \notin Settled
      BY <3>1, <3>3 DEF Ledger!vars
    <3> QED
      BY <3>2, <3>3
  <2>3. ASSUME NEW o \in Orders, NEW s \in SmsLogs, NEW v, Books(o, s, v)
        PROVE  [Ledger!Next]_(Ledger!vars)
    <3>1. Credits' = Credits \cup {<<o, s>>}
      BY <2>3 DEF Books
    <3>2. Settled' = Settled \cup {o}
      <4>1. \A p \in Orders : /\ p # o => orders'[p].status = orders[p].status
                              /\ p = o => orders'[p].status = "VERIFIED"
        BY <1>2, <2>3 DEF Books, TypeOK, OrderRow
      <4> QED
        BY <4>1
    <3>3. \A c \in Credits : c[1] # o /\ c[2] # s
      BY <2>3 DEF Books, Bookable, CreditOf, SpentOn
    <3>4. Ledger!Credit(o, s)
      BY <3>1, <3>2, <3>3 DEF Ledger!Credit
    <3> QED
      BY <3>4 DEF Ledger!Next
  <2>4. CASE Matched
    <3>1. PICK S \in SUBSET SmsLogs : \E dec, fs : Applied(S, dec, fs)
      BY <2>4 DEF Matched
    <3>2. PICK dec, fs : Applied(S, dec, fs)
      BY <3>1
    <3>3. CASE orders' = orders /\ verified' = verified
      BY <3>3 DEF Ledger!vars
    <3>4. CASE \E s \in S : \E o \in Orders : \E v : Books(o, s, v)
      BY <2>3, <3>4
    <3> QED
      BY <1>2, <3>2, <3>3, <3>4, AppliedBooks
  <2>5. ASSUME NEW w \in Workers, LinkedBy(w)
        PROVE  [Ledger!Next]_(Ledger!vars)
    <3>1. calls[w].order \in Orders /\ calls[w].sms \in SmsLogs
      BY <1>2, <2>5 DEF LinkedBy, Doing, TypeOK, Call
    <3>2. Event_("payment.verified", calls[w].order, FALSE) \in outbox'
      BY <2>5 DEF LinkedBy, Linked
    <3>3. Books(calls[w].order, calls[w].sms,
                [order |-> calls[w].order, sms |-> calls[w].sms, method |-> "MANUAL_ADMIN",
                 late |-> calls[w].late, delta |-> calls[w].delta])
      BY <2>5, <3>2 DEF LinkedBy, Linked, Books, Event_
    <3> QED
      BY <2>3, <3>1, <3>3
  <2>6. ASSUME NEW v \in verified, VoidVerification(v)
        PROVE  [Ledger!Next]_(Ledger!vars)
    <3>1. v.order \in Orders /\ v.sms \in SmsLogs
      BY <1>2 DEF TypeOK, Credit
    <3>2. Credits' = Credits \ {<<v.order, v.sms>>}
      BY <1>2, <2>6 DEF VoidVerification, LedgerInv, CreditUnique
    <3>3. Settled' = Settled \ {v.order}
      BY <1>2, <2>6, <3>1 DEF VoidVerification, TypeOK, OrderRow
    <3>4. Ledger!Void(v.order, v.sms)
      BY <3>2, <3>3 DEF Ledger!Void
    <3> QED
      BY <3>1, <3>4 DEF Ledger!Next
  <2> HIDE DEF Settled, Credits
  <2> QED
    BY <1>2, <2>1, <2>2, <2>4, <2>5, <2>6, StepKinds
<1>3. Spec => [](TypeOK /\ LedgerInv)
  BY LedgerInvariant, Typing, PTL
<1>4. TypeOK /\ LedgerInv /\ [Next]_vars => [Ledger!Next]_(Ledger!vars)
  BY <1>2
<1> QED
  BY <1>1, <1>3, <1>4, PTL DEF Spec, LedgerSpec, Ledger!Spec

-----------------------------------------------------------------------------
(* Undisturbed operation: what a matching run of one side leaves undone,   *)
(* a request of the other side still owes.                                 *)

Parked == {"IN_REVIEW", "DUPLICATE_TXN"}

(* A request that works on an SMS works on one that is stored.             *)
WorksOnStored ==
    \A w \in Workers : calls[w].op \in {"PARSE", "MATCH", "DECIDE", "SETTLE"} =>
        smsLogs[calls[w].sms].match # "ABSENT"

(* What an upload is about to write back never makes an SMS UNMATCHED, and *)
(* parks only what is queued.                                              *)
SettlesQueued ==
    \A w \in Workers : Doing(w, "SETTLE") =>
        /\ calls[w].status \notin {"ABSENT", "UNMATCHED"}
        /\ calls[w].status \in Parked =>
              \E o \in OrNone(Orders) : reviews[<<calls[w].sms, o>>].open

(* An SMS whose text has not been read.                                    *)
Unread(s) == smsLogs[s].match = "ABSENT" \/ \E w \in Workers : Doing(w, "PARSE") /\ calls[w].sms = s

(* It is read once, and nothing is decided on it before.                   *)
UnreadIsUntouched ==
    /\ \A s \in SmsLogs : Unread(s) =>
          /\ ~Handled(s) /\ smsLogs[s].parse # "PARSED"
          /\ \A w \in Workers : Doing(w, "DECIDE") /\ calls[w].sms = s => ~PassesGuards(calls[w].facts)
    /\ \A v, w \in Workers :
          Doing(v, "PARSE") /\ Doing(w, "PARSE") /\ calls[v].sms = calls[w].sms => v = w

(* What is decided on a usable SMS carries the TrxID that was read.        *)
DecidesOnRead ==
    \A w \in Workers : Doing(w, "DECIDE") /\ PassesGuards(calls[w].facts) =>
        calls[w].facts.sms.trx = smsLogs[calls[w].sms].trx

(* The request that will bring an order and an SMS together.               *)
Owes(w, o, s) ==
    \/ Doing(w, "REVERSE") /\ calls[w].order = o
    \/ Doing(w, "MATCH") /\ calls[w].sms = s
    \/ Doing(w, "DECIDE") /\ calls[w].sms = s /\ PassesGuards(calls[w].facts)

ApartIsOwed ==
    \A o \in Orders, s \in SmsLogs : Apart(o, s) =>
        \/ \E w \in Workers : Owes(w, o, s)
        \/ \E t \in SmsLogs : smsLogs[t].trx = orders[o].trx /\ Handled(t)

UndisturbedInv ==
    /\ WorksOnStored /\ SettlesQueued /\ UnreadIsUntouched /\ DecidesOnRead /\ ParkedIsQueued
    /\ ApartIsOwed

LEMMA UndisturbedIsNext == [UndisturbedNext]_vars => [Next]_vars
BY DEF UndisturbedNext, Next, WorkerStep, MerchantStep

(* What a matching transaction leaves of every SMS.                        *)
LEMMA AppliedMarks ==
    ASSUME TypeOK, NEW S \in SUBSET SmsLogs, NEW STATE dec, NEW STATE fs, Applied(S, dec, fs)
    PROVE  /\ \A s \in SmsLogs :
                 /\ smsLogs'[s].trx = smsLogs[s].trx /\ smsLogs'[s].parse = smsLogs[s].parse
                 /\ smsLogs'[s].amount = smsLogs[s].amount
                 /\ IF s \in S THEN smsLogs'[s].match = StatusFor(dec[s].result)
                    ELSE smsLogs'[s].match = smsLogs[s].match
           /\ \A s \in S : smsLogs'[s].match \in MatchStatus \ {"ABSENT"}
           /\ \A s \in S : smsLogs'[s].match \in Parked =>
                 Handled(s)' /\ \E o \in OrNone(Orders) : reviews'[<<s, o>>].open
           /\ \A s \in SmsLogs : Handled(s) => Handled(s)'
           /\ \A x \in Slots : reviews[x].open => reviews'[x].open
           /\ \A s \in SmsLogs : Handled(s)' /\ ~Handled(s) => s \in S /\ PassesGuards(fs[s])
           /\ \A o \in Orders : orders'[o].status = "PENDING" =>
                 orders[o].status = "PENDING" /\ orders'[o].trx = orders[o].trx
<1>0. /\ smsLogs \in [SmsLogs -> SmsRow] /\ orders \in [Orders -> OrderRow]
      /\ reviews \in [Slots -> ReviewRow]
      /\ DOMAIN dec = S
  BY DEF TypeOK, Applied
<1>1. \A s \in S : DecisionOK(dec[s])
  BY DecisionsOK DEF TypeOK, Applied
<1>2. \A s \in SmsLogs :
         smsLogs'[s] = IF s \in S THEN [smsLogs[s] EXCEPT !.match = StatusFor(dec[s].result)] ELSE smsLogs[s]
  BY <1>0 DEF Applied, ApplyDecisions
<1>3. \A s \in S : dec[s].result \in {"VERIFIED", "REVIEW", "DUPLICATE"} => PassesGuards(fs[s])
  BY DEF Applied, Decisions, Decide, GuardRejected
<1>4. \A s \in S : Opens(dec[s]) => /\ SlotOf(s, dec[s]) \in Slots /\ reviews'[SlotOf(s, dec[s])].open
  BY <1>0, <1>1 DEF Applied, ApplyDecisions, Slots, SlotOf, DecisionOK
<1>5. \A x \in Slots : reviews[x].open => reviews'[x].open
  BY DEF Applied, ApplyDecisions
<1>6. \A x \in Slots : reviews'[x].open /\ ~reviews[x].open =>
         \E s \in S : Opens(dec[s]) /\ x = SlotOf(s, dec[s])
  BY <1>0 DEF Applied, ApplyDecisions
<1>7. /\ verified \subseteq verified'
      /\ \A v \in verified' \ verified : \E s \in S : v.sms = s /\ dec[s].result = "VERIFIED"
  BY <1>0 DEF Applied, ApplyDecisions, Booking
<1>8. \A s \in SmsLogs :
                 /\ smsLogs'[s].trx = smsLogs[s].trx /\ smsLogs'[s].parse = smsLogs[s].parse
                 /\ smsLogs'[s].amount = smsLogs[s].amount
                 /\ IF s \in S THEN smsLogs'[s].match = StatusFor(dec[s].result)
                    ELSE smsLogs'[s].match = smsLogs[s].match
  BY <1>0, <1>2 DEF SmsRow
<1>9. \A s \in S : smsLogs'[s].match \in MatchStatus \ {"ABSENT"}
  BY <1>1, <1>8 DEF DecisionOK, StatusFor, MatchStatus
<1>10. ASSUME NEW s \in S, smsLogs'[s].match \in Parked
       PROVE  Handled(s)' /\ \E o \in OrNone(Orders) : reviews'[<<s, o>>].open
  <2>1. Opens(dec[s])
    BY <1>1, <1>8, <1>10 DEF DecisionOK, StatusFor, Parked, Opens
  <2>2. dec[s].order \in OrNone(Orders)
    BY <1>1 DEF DecisionOK
  <2> QED
    BY <1>4, <2>1, <2>2 DEF SlotOf, Handled
<1>11. \A s \in SmsLogs : Handled(s) => Handled(s)'
  BY <1>5, <1>7 DEF Handled, SpentOn, Slots
<1>12. ASSUME NEW s \in SmsLogs, Handled(s)', ~Handled(s)
       PROVE  s \in S /\ PassesGuards(fs[s])
  <2>1. CASE SpentOn(s)' # {}
    BY <1>3, <1>7, <1>12, <2>1 DEF Handled, SpentOn
  <2>2. CASE \E o \in OrNone(Orders) : reviews'[<<s, o>>].open
    <3>1. PICK o \in OrNone(Orders) : reviews'[<<s, o>>].open
      BY <2>2
    <3>2. PICK r \in S : Opens(dec[r]) /\ <<s, o>> = SlotOf(r, dec[r])
      BY <1>6, <1>12, <3>1 DEF Handled, Slots
    <3> QED
      BY <1>3, <3>2 DEF SlotOf, Opens
  <2> QED
    BY <1>12, <2>1, <2>2 DEF Handled
<1>13. \A o \in Orders : orders'[o].status = "PENDING" =>
                 orders[o].status = "PENDING" /\ orders'[o].trx = orders[o].trx
  BY <1>0 DEF Applied, ApplyDecisions, OrderRow
<1> QED
  BY <1>5, <1>8, <1>9, <1>10, <1>11, <1>12, <1>13

(* A usable SMS and a PENDING order of one TrxID are never left UNMATCHED: *)
(* the order is verified, or the SMS parked.                               *)
LEMMA DecidedApart ==
    ASSUME TypeOK, NEW o \in Orders, orders[o].status = "PENDING", orders[o].trx # None,
           NEW facts, PassesGuards(facts), facts.sms.trx = orders[o].trx,
           NEW d \in Decisions(facts)
    PROVE  \/ d.result = "REVIEW"
           \/ d.result = "VERIFIED" /\ d.order = o
<1> DEFINE eligible == {p \in ExactCandidates(facts.sms, orders) : IsEligible(orders[p])}
           exact == ExactPass(facts.sms, orders, Spent(facts.sms.trx), Tolerance)
           alone == {p \in eligible : eligible = {p}}
           short == {p \in alone :
                        CompareAmount(orders[p].amount, facts.sms.amount, Tolerance) = "UNDERPAID"}
<1>1. o \in eligible
  BY DEF ExactCandidates, IsEligible, TypeOK
<1>2. ASSUME NEW e \in exact
      PROVE  \/ e.result = "REVIEW"
             \/ e.result = "VERIFIED" /\ e.order = o
  <2>1. \/ \E p \in short : e = Review(p)
        \/ \E p \in alone : e = Verified(p, "EXACT_TXN_ID")
        \/ e = Review(None)
        \/ eligible = {}
    BY DEF ExactPass
  <2> QED
    BY <1>1, <2>1 DEF Review, Verified
<1>3. exact # {}
  <2>1. CASE eligible = {o}
    BY <2>1 DEF ExactPass
  <2>2. CASE eligible # {o}
    <3>1. Review(None) \in exact
      BY <1>1, <2>2 DEF ExactPass
    <3> QED
      BY <3>1
  <2> QED
    BY <2>1, <2>2
<1> HIDE DEF exact, eligible
<1>4. d \in exact \cup {Review(None)}
  BY <1>3 DEF Decisions, Decide, exact
<1> QED
  BY <1>2, <1>4 DEF Review

(* A decision on a usable SMS that carries the TrxID of an order without a *)
(* credit: what can keep it from being written is that the SMS was handled.*)
LEMMA ApartIsFree ==
    ASSUME TypeOK, LedgerInv, NEW o \in Orders, orders[o].status = "PENDING",
           orders[o].trx # None, CreditOf(o) = {},
           NEW t \in SmsLogs, ~Handled(t), NEW facts, facts.sms.trx = orders[o].trx,
           NEW d \in Decisions(facts)
    PROVE  /\ d.result = "VERIFIED" =>
                 d.order = o /\ Bookable(d.order, t) /\ Storable(d.order, orders[d.order].trx)
           /\ Opens(d) => ~reviews[SlotOf(t, d)].open
<1>1. DecisionOK(d)
  BY DecisionsOK DEF TypeOK
<1>2. ASSUME d.result = "VERIFIED"
      PROVE  d.order = o /\ Bookable(d.order, t) /\ Storable(d.order, orders[d.order].trx)
  <2>1. PassesGuards(facts)
    BY <1>2 DEF Decisions, Decide, GuardRejected
  <2>2. d.order = o
    BY <1>2, <2>1, DecidedApart
  <2>3. Bookable(o, t)
    BY DEF Bookable, Handled
  <2>4. Storable(o, orders[o].trx)
    BY DEF Storable, LedgerInv, LiveTrxUnique, DuplicateLiveTrx, Live
  <2> QED
    BY <2>2, <2>3, <2>4
<1>3. ASSUME Opens(d)
      PROVE  ~reviews[SlotOf(t, d)].open
  BY <1>1, <1>3 DEF DecisionOK, SlotOf, Handled
<1> QED
  BY <1>2, <1>3

LEMMA ForwardUnites ==
    ASSUME TypeOK, LedgerInv, NEW w \in Workers, MatchBySms(w), NEW o \in Orders, NEW s \in SmsLogs,
           DecidesOnRead, Apart(o, s), Owes(w, o, s), ~Handled(s)
    PROVE  ~Apart(o, s)'
<1> DEFINE facts == calls[w].facts
<1>0. calls[w].sms = s /\ PassesGuards(facts) /\ facts.sms.trx = orders[o].trx
  BY DEF Owes, MatchBySms, Doing, Apart, DecidesOnRead
<1>1. PICK d \in Decisions(facts) :
        LET dec == [x \in {s} |-> d] IN
        \/ RunOnce(w, d) \/ ~UniqueHolds(dec) \/ ~ReviewFree(dec)
  BY <1>0 DEF MatchBySms
<1>2. /\ d.result = "VERIFIED" =>
           d.order = o /\ Bookable(d.order, s) /\ Storable(d.order, orders[d.order].trx)
      /\ Opens(d) => ~reviews[SlotOf(s, d)].open
  BY <1>0, ApartIsFree DEF Apart
<1>3. UniqueHolds([x \in {s} |-> d]) /\ ReviewFree([x \in {s} |-> d])
  BY <1>2 DEF UniqueHolds, ReviewFree
<1>4. ApplyDecisions([x \in {s} |-> d], [x \in {s} |-> facts])
  BY <1>0, <1>1, <1>3 DEF RunOnce
<1>5. \/ d.result = "REVIEW"
      \/ d.result = "VERIFIED"
  BY <1>0, DecidedApart DEF Apart
<1>6. smsLogs'[s].match = StatusFor(d.result)
  BY <1>4 DEF ApplyDecisions, TypeOK, SmsRow
<1> QED
  BY <1>5, <1>6 DEF StatusFor, Apart

LEMMA ReverseUnites ==
    ASSUME TypeOK, LedgerInv, NEW w \in Workers, ReverseMatchOrder(w), NEW o \in Orders, o = calls[w].order,
           NEW s \in SmsLogs, Apart(o, s),
           \A t \in SmsLogs : smsLogs[t].trx = orders[o].trx => ~Handled(t)
    PROVE  ~Apart(o, s)'
<1> DEFINE listed == {t \in SmsLogs : smsLogs[t].match = "UNMATCHED" /\ smsLogs[t].trx = orders[o].trx}
<1>1. s \in listed /\ ReverseLists(o) = {listed} /\ Creditable(o)
  BY DEF Apart, ReverseLists, Creditable
<1> HIDE DEF listed
<1>2. PICK done \in SUBSET listed :
         \E dec \in [done -> UNION {Decisions(FactsOf(t)) : t \in done}] :
            /\ ReverseRun(listed, dec)
            /\ \/ ApplyDecisions(dec, [t \in done |-> FactsOf(t)])
               \/ ~(UniqueHolds(dec) /\ ReviewFree(dec))
  BY <1>1 DEF ReverseMatchOrder
<1>3. PICK dec \in [done -> UNION {Decisions(FactsOf(t)) : t \in done}] :
            /\ ReverseRun(listed, dec)
            /\ \/ ApplyDecisions(dec, [t \in done |-> FactsOf(t)])
               \/ ~(UniqueHolds(dec) /\ ReviewFree(dec))
  BY <1>2
<1>4. DOMAIN dec = done /\ \A t \in done : dec[t] \in Decisions(FactsOf(t))
  BY <1>3 DEF ReverseRun
<1>5. \A t \in done : t \in SmsLogs /\ FactsOf(t).sms.trx = orders[o].trx /\ ~Handled(t)
  BY DEF listed, FactsOf
<1>6. \A t \in done :
         /\ dec[t].result = "VERIFIED" =>
              /\ dec[t].order = o
              /\ Bookable(dec[t].order, t) /\ Storable(dec[t].order, orders[dec[t].order].trx)
         /\ Opens(dec[t]) => ~reviews[SlotOf(t, dec[t])].open
  BY <1>4, <1>5, ApartIsFree DEF Apart
<1>7. UniqueHolds(dec) /\ ReviewFree(dec)
  BY <1>4, <1>6 DEF UniqueHolds, ReviewFree
<1>8. ApplyDecisions(dec, [t \in done |-> FactsOf(t)])
  BY <1>3, <1>7
<1>9. CASE \E t \in done : dec[t].result = "VERIFIED"
  <2>1. orders'[o].status = "VERIFIED"
    BY <1>4, <1>6, <1>8, <1>9 DEF ApplyDecisions, TypeOK, OrderRow
  <2> QED
    BY <2>1 DEF Apart
<1>10. CASE \A t \in done : dec[t].result # "VERIFIED"
  <2>1. done = listed
    BY <1>3, <1>4, <1>10 DEF ReverseRun
  <2>2. dec[s] \in Decisions(FactsOf(s)) /\ FactsOf(s).sms.trx = orders[o].trx /\ PassesGuards(FactsOf(s))
    BY <1>1, <1>4, <1>5, <2>1 DEF Apart
  <2>3. \/ dec[s].result = "REVIEW"
        \/ dec[s].result = "VERIFIED" /\ dec[s].order = o
    BY <2>2, DecidedApart DEF Apart
  <2>4. smsLogs'[s].match = StatusFor(dec[s].result)
    BY <1>1, <1>4, <1>8, <2>1 DEF ApplyDecisions, TypeOK, SmsRow
  <2> QED
    BY <1>1, <1>10, <2>1, <2>3, <2>4 DEF StatusFor, Apart
<1> QED
  BY <1>9, <1>10

(* Where the facts of a matching transaction come from.                    *)
Sourced(w, S, fs) ==
    \A s \in S : /\ smsLogs[s].match # "ABSENT"
                 /\ \/ /\ fs[s] = FactsOf(s)
                       /\ smsLogs[s].trx # None \/ smsLogs[s].parse = "PARSED"
                    \/ Doing(w, "DECIDE") /\ calls[w].sms = s /\ fs[s] = calls[w].facts

(* Where the answer to an upload goes.                                     *)
ReturnsQueued(w) ==
    \/ calls' = [calls EXCEPT ![w] = Idle]
    \/ \E status \in MatchStatus \ {"ABSENT", "UNMATCHED"} :
          /\ calls' = [calls EXCEPT ![w] = [op |-> "SETTLE", sms |-> calls[w].sms, status |-> status]]
          /\ calls[w].sms \in SmsLogs /\ smsLogs[calls[w].sms].match # "ABSENT"
          /\ status \in Parked => \E o \in OrNone(Orders) : reviews'[<<calls[w].sms, o>>].open

LEMMA ReverseSourced ==
    ASSUME TypeOK, NEW w \in Workers, ReverseMatchOrder(w)
    PROVE  /\ ReturnsQueued(w)
           /\ \/ UNCHANGED <<smsLogs, verified, reviews, orders>>
              \/ \E S \in SUBSET SmsLogs : \E dec, fs : Applied(S, dec, fs) /\ Sourced(w, S, fs)
<1>1. ReturnsQueued(w)
  BY DEF ReverseMatchOrder, ReturnsQueued, Goto
<1>2. CASE ~UNCHANGED <<orders, smsLogs, verified, reviews, outbox>>
  <2> DEFINE o == calls[w].order
  <2>1. PICK list \in ReverseLists(o) : \E done \in SUBSET list :
             \E dec \in [done -> UNION {Decisions(FactsOf(s)) : s \in done}] :
                /\ ReverseRun(list, dec)
                /\ ApplyDecisions(dec, [s \in done |-> FactsOf(s)])
    BY <1>2 DEF ReverseMatchOrder
  <2>2. PICK done \in SUBSET list :
             \E dec \in [done -> UNION {Decisions(FactsOf(s)) : s \in done}] :
                /\ ReverseRun(list, dec)
                /\ ApplyDecisions(dec, [s \in done |-> FactsOf(s)])
    BY <2>1
  <2>3. PICK dec \in [done -> UNION {Decisions(FactsOf(s)) : s \in done}] :
                /\ ReverseRun(list, dec)
                /\ ApplyDecisions(dec, [s \in done |-> FactsOf(s)])
    BY <2>2
  <2>4. /\ done \in SUBSET SmsLogs
        /\ \A s \in done : /\ smsLogs[s].match = "UNMATCHED"
                           /\ smsLogs[s].trx # None \/ smsLogs[s].parse = "PARSED"
    BY DEF ReverseLists
  <2>5. /\ DOMAIN dec = done
        /\ \A s \in done : FactsOf(s) \in Facts /\ dec[s] \in Decisions(FactsOf(s))
        /\ \A s, r \in done : dec[s].result = "VERIFIED" /\ dec[r].result = "VERIFIED" => s = r
    BY <2>3, <2>4, FactsTyped DEF ReverseRun
  <2>6. Applied(done, dec, [s \in done |-> FactsOf(s)]) /\ Sourced(w, done, [s \in done |-> FactsOf(s)])
    BY <2>3, <2>4, <2>5 DEF Applied, Sourced
  <2> QED
    BY <1>1, <2>4, <2>6
<1> QED
  BY <1>1, <1>2

LEMMA ForwardSourced ==
    ASSUME TypeOK, WorksOnStored, ParkedIsQueued, NEW w \in Workers, MatchBySms(w)
    PROVE  /\ ReturnsQueued(w)
           /\ \/ UNCHANGED <<smsLogs, verified, reviews, orders>>
              \/ \E S \in SUBSET SmsLogs : \E dec, fs : Applied(S, dec, fs) /\ Sourced(w, S, fs)
<1>0. PICK s \in SmsLogs, facts \in Facts : calls[w].sms = s /\ calls[w].facts = facts
  BY DEF MatchBySms, Doing, TypeOK, Call
<1>1. Doing(w, "DECIDE") /\ smsLogs[s].match # "ABSENT"
  BY <1>0 DEF MatchBySms, Doing, WorksOnStored
<1>2. ASSUME NEW d \in Decisions(facts), RunOnce(w, d)
      PROVE  /\ ReturnsQueued(w)
             /\ \E S \in SUBSET SmsLogs : \E dec, fs : Applied(S, dec, fs) /\ Sourced(w, S, fs)
  <2>1. ApplyDecisions([x \in {s} |-> d], [x \in {s} |-> facts]) /\ Return(w, StatusFor(d.result))
    BY <1>0, <1>2 DEF RunOnce
  <2>2. Applied({s}, [x \in {s} |-> d], [x \in {s} |-> facts])
    BY <1>0, <1>1, <2>1 DEF Applied
  <2>3. Sourced(w, {s}, [x \in {s} |-> facts])
    BY <1>0, <1>1 DEF Sourced
  <2>4. /\ StatusFor(d.result) = smsLogs'[s].match
        /\ smsLogs'[s].match \in MatchStatus \ {"ABSENT"}
        /\ smsLogs'[s].match \in Parked => \E o \in OrNone(Orders) : reviews'[<<s, o>>].open
    <3> DEFINE dec == [x \in {s} |-> d]
               fs == [x \in {s} |-> facts]
    <3>1. Applied({s}, dec, fs) /\ dec[s] = d /\ {s} \in SUBSET SmsLogs
      BY <1>1, <2>2
    <3> HIDE DEF dec, fs
    <3>2. s \in {s} /\ s \in SmsLogs
      OBVIOUS
    <3>3. IF s \in {s} THEN smsLogs'[s].match = StatusFor(dec[s].result)
          ELSE smsLogs'[s].match = smsLogs[s].match
      BY <3>1, AppliedMarks, Zenon
    <3>4. /\ smsLogs'[s].match \in MatchStatus \ {"ABSENT"}
          /\ smsLogs'[s].match \in Parked => \E o \in OrNone(Orders) : reviews'[<<s, o>>].open
      BY <3>1, <3>2, AppliedMarks, Zenon
    <3> QED
      BY <3>1, <3>2, <3>3, <3>4
  <2>5. ReturnsQueued(w)
    BY <1>0, <1>1, <2>1, <2>4 DEF ReturnsQueued, Return, Goto
  <2> QED
    BY <1>1, <2>2, <2>3, <2>5
<1>3. ASSUME Return(w, smsLogs[s].match), UNCHANGED <<orders, smsLogs, verified, reviews, outbox>>
      PROVE  ReturnsQueued(w)
  <2>1. smsLogs[s].match \in MatchStatus \ {"ABSENT"}
    BY <1>1 DEF TypeOK, SmsRow
  <2>2. smsLogs[s].match \in Parked => \E o \in OrNone(Orders) : reviews'[<<s, o>>].open
    BY <1>1, <1>3 DEF ParkedIsQueued, Parked
  <2> QED
    BY <1>0, <1>1, <1>3, <2>1, <2>2 DEF ReturnsQueued, Return, Goto
<1>4. ASSUME Return(w, "UNMATCHED")
      PROVE  ReturnsQueued(w)
  BY <1>0, <1>4 DEF ReturnsQueued, Return, Goto
<1>5. \/ \E d \in Decisions(facts) : RunOnce(w, d)
      \/ /\ Return(w, smsLogs[s].match) \/ Return(w, "UNMATCHED")
         /\ UNCHANGED <<orders, smsLogs, verified, reviews, outbox>>
  BY <1>0 DEF MatchBySms
<1> QED
  BY <1>2, <1>3, <1>4, <1>5

LEMMA MatchingKeeps ==
    ASSUME TypeOK, LedgerInv, UndisturbedInv, NEW w \in Workers, ReverseMatchOrder(w) \/ MatchBySms(w)
    PROVE  UndisturbedInv'
<1> USE DEF UndisturbedInv
<1>0. /\ calls \in [Workers -> Call] /\ UNCHANGED <<company, device>>
      /\ \/ Doing(w, "REVERSE") /\ ReverseMatchOrder(w)
         \/ Doing(w, "DECIDE") /\ MatchBySms(w)
  BY DEF TypeOK, ReverseMatchOrder, MatchBySms
<1>1. ReturnsQueued(w)
  BY ReverseSourced, ForwardSourced
<1>2. /\ \A v \in Workers \ {w} : calls'[v] = calls[v]
      /\ calls'[w].op \in {"IDLE", "SETTLE"}
      /\ calls'[w].op = "SETTLE" => /\ calls'[w].sms \in SmsLogs /\ smsLogs[calls'[w].sms].match # "ABSENT"
                                    /\ calls'[w].status \notin {"ABSENT", "UNMATCHED"}
                                    /\ calls'[w].status \in Parked =>
                                          \E o \in OrNone(Orders) : reviews'[<<calls'[w].sms, o>>].open
  BY <1>0, <1>1 DEF ReturnsQueued, Idle
<1>3. /\ \A s \in SmsLogs :
            /\ smsLogs'[s].trx = smsLogs[s].trx /\ smsLogs'[s].parse = smsLogs[s].parse
            /\ smsLogs'[s].amount = smsLogs[s].amount
            /\ smsLogs[s].match # "ABSENT" => smsLogs'[s].match # "ABSENT"
            /\ smsLogs'[s].match \in Parked => \E o \in OrNone(Orders) : reviews'[<<s, o>>].open
            /\ Handled(s) => Handled(s)'
            /\ Handled(s)' => Handled(s) \/ ~Unread(s)
      /\ \A s \in SmsLogs, o \in OrNone(Orders) : reviews[<<s, o>>].open => reviews'[<<s, o>>].open
      /\ \A o \in Orders : orders'[o].status = "PENDING" =>
                 orders[o].status = "PENDING" /\ orders'[o].trx = orders[o].trx
      /\ \A o \in Orders, s \in SmsLogs : Apart(o, s)' => Apart(o, s)
  <2>1. CASE UNCHANGED <<smsLogs, verified, reviews, orders>>
    <3>1. \A s \in SmsLogs : Handled(s)' <=> Handled(s)
      BY <2>1 DEF Handled, SpentOn
    <3>2. \A o \in Orders, s \in SmsLogs : Apart(o, s)' => Apart(o, s)
      BY <1>0, <2>1 DEF Apart, CreditOf, SpentOn, FactsOf
    <3> QED
      BY <2>1, <3>1, <3>2 DEF ParkedIsQueued, Parked
  <2>2. ASSUME NEW S \in SUBSET SmsLogs, NEW STATE dec, NEW STATE fs, Applied(S, dec, fs), Sourced(w, S, fs)
        PROVE  /\ \A s \in SmsLogs :
                     /\ smsLogs'[s].trx = smsLogs[s].trx /\ smsLogs'[s].parse = smsLogs[s].parse
                     /\ smsLogs'[s].amount = smsLogs[s].amount
                     /\ smsLogs[s].match # "ABSENT" => smsLogs'[s].match # "ABSENT"
                     /\ smsLogs'[s].match \in Parked => \E o \in OrNone(Orders) : reviews'[<<s, o>>].open
                     /\ Handled(s) => Handled(s)'
                     /\ Handled(s)' => Handled(s) \/ ~Unread(s)
               /\ \A s \in SmsLogs, o \in OrNone(Orders) : reviews[<<s, o>>].open => reviews'[<<s, o>>].open
               /\ \A o \in Orders : orders'[o].status = "PENDING" =>
                     orders[o].status = "PENDING" /\ orders'[o].trx = orders[o].trx
               /\ \A o \in Orders, s \in SmsLogs : Apart(o, s)' => Apart(o, s)
    <3>1. \A s \in SmsLogs :
                 /\ smsLogs'[s].trx = smsLogs[s].trx /\ smsLogs'[s].parse = smsLogs[s].parse
                 /\ smsLogs'[s].amount = smsLogs[s].amount
                 /\ IF s \in S THEN smsLogs'[s].match = StatusFor(dec[s].result)
                    ELSE smsLogs'[s].match = smsLogs[s].match
      BY <2>2, AppliedMarks, Zenon
    <3>2. \A s \in S : smsLogs'[s].match \in MatchStatus \ {"ABSENT"}
      BY <2>2, AppliedMarks, Zenon
    <3>3. \A s \in S : smsLogs'[s].match \in Parked => \E o \in OrNone(Orders) : reviews'[<<s, o>>].open
      BY <2>2, AppliedMarks, Zenon
    <3>4. \A s \in SmsLogs : Handled(s) => Handled(s)'
      BY <2>2, AppliedMarks, Zenon
    <3>5. \A s \in SmsLogs, o \in OrNone(Orders) : reviews[<<s, o>>].open => reviews'[<<s, o>>].open
      <4>1. \A x \in Slots : reviews[x].open => reviews'[x].open
        BY <2>2, AppliedMarks, Zenon
      <4> QED
        BY <4>1 DEF Slots
    <3>6. \A s \in SmsLogs : Handled(s)' /\ ~Handled(s) => s \in S /\ PassesGuards(fs[s])
      BY <2>2, AppliedMarks, Zenon
    <3>7. \A o \in Orders : orders'[o].status = "PENDING" =>
                 orders[o].status = "PENDING" /\ orders'[o].trx = orders[o].trx
      BY <2>2, AppliedMarks, Zenon
    <3>8. \A s \in S : /\ smsLogs[s].match # "ABSENT"
                       /\ PassesGuards(fs[s]) => ~Unread(s) /\ fs[s].sms.trx = smsLogs[s].trx
      <4> SUFFICES ASSUME NEW s \in S
                   PROVE  /\ smsLogs[s].match # "ABSENT"
                          /\ PassesGuards(fs[s]) => ~Unread(s) /\ fs[s].sms.trx = smsLogs[s].trx
        OBVIOUS
      <4>1. CASE fs[s] = FactsOf(s)
        BY <2>2, <4>1 DEF Sourced, UnreadIsUntouched, PassesGuards, FactsOf
      <4>2. CASE Doing(w, "DECIDE") /\ calls[w].sms = s /\ fs[s] = calls[w].facts
        BY <2>2, <4>2 DEF Sourced, UnreadIsUntouched, DecidesOnRead
      <4> QED
        BY <2>2, <4>1, <4>2 DEF Sourced
    <3>9. ASSUME NEW o \in Orders, NEW s \in SmsLogs, Apart(o, s)'
          PROVE  Apart(o, s)
      <4>1. orders[o].status = "PENDING" /\ orders'[o].trx = orders[o].trx
        BY <3>7, <3>9 DEF Apart
      <4>2. CreditOf(o) = {} /\ SpentOn(s) = {}
        <5>1. verified \subseteq verified'
          BY <2>2 DEF Applied, ApplyDecisions
        <5> QED
          BY <3>9, <5>1 DEF Apart, CreditOf, SpentOn
      <4>3. CASE s \in S
        <5>1. DecisionOK(dec[s]) /\ dec[s] \in Decisions(fs[s])
          BY <2>2, <4>3, DecisionsOK DEF Applied, TypeOK
        <5>2. dec[s].result = "UNMATCHED"
          BY <3>1, <3>9, <4>3, <5>1 DEF Apart, StatusFor, DecisionOK
        <5>3. PassesGuards(fs[s])
          BY <5>1, <5>2 DEF Decisions, Decide, GuardRejected
        <5>4. fs[s].sms.trx = orders[o].trx /\ orders[o].trx # None
          BY <3>1, <3>8, <3>9, <4>1, <4>3, <5>3 DEF Apart
        <5> QED
          BY <4>1, <5>1, <5>2, <5>3, <5>4, DecidedApart
      <4>4. CASE s \notin S
        <5>1. PassesGuards(FactsOf(s))
          BY <1>0, <3>1, <3>9 DEF Apart, PassesGuards, FactsOf
        <5> QED
          BY <3>1, <3>9, <4>1, <4>2, <4>4, <5>1 DEF Apart
      <4> QED
        BY <4>3, <4>4
    <3>10. ASSUME NEW s \in SmsLogs
           PROVE  /\ smsLogs'[s].match = "ABSENT" <=> smsLogs[s].match = "ABSENT"
                  /\ smsLogs'[s].match \in Parked => \E o \in OrNone(Orders) : reviews'[<<s, o>>].open
                  /\ Handled(s)' => Handled(s) \/ ~Unread(s)
      <4>1. CASE s \in S
        BY <3>2, <3>3, <3>6, <3>8, <4>1
      <4>2. CASE s \notin S
        <5>1. smsLogs[s].match \in Parked => \E o \in OrNone(Orders) : reviews[<<s, o>>].open
          BY DEF ParkedIsQueued, Parked
        <5> QED
          BY <3>1, <3>5, <3>6, <4>2, <5>1
      <4> QED
        BY <4>1, <4>2
    <3> QED
      BY <3>1, <3>4, <3>5, <3>7, <3>9, <3>10
  <2> QED
    BY ReverseSourced, ForwardSourced, <2>1, <2>2
<1>4. ASSUME NEW s \in SmsLogs, Unread(s)'
      PROVE  Unread(s)
  BY <1>2, <1>3, <1>4 DEF Unread, Doing
<1>5. WorksOnStored'
  <2> SUFFICES ASSUME NEW v \in Workers, calls'[v].op \in {"PARSE", "MATCH", "DECIDE", "SETTLE"}
               PROVE  smsLogs'[calls'[v].sms].match # "ABSENT"
    BY DEF WorksOnStored
  <2>1. calls[v] \in Call
    BY <1>0
  <2>2. CASE v = w
    BY <1>2, <1>3, <2>2
  <2>3. CASE v # w
    <3>1. calls[v].sms \in SmsLogs /\ smsLogs[calls[v].sms].match # "ABSENT" /\ calls'[v] = calls[v]
      BY <1>2, <2>1, <2>3 DEF WorksOnStored, Call
    <3> QED
      BY <1>3, <3>1
  <2> QED
    BY <2>2, <2>3
<1>6. SettlesQueued'
  <2> SUFFICES ASSUME NEW v \in Workers, calls'[v].op = "SETTLE"
               PROVE  /\ calls'[v].status \notin {"ABSENT", "UNMATCHED"}
                      /\ calls'[v].status \in Parked =>
                            \E o \in OrNone(Orders) : reviews'[<<calls'[v].sms, o>>].open
    BY DEF SettlesQueued, Doing
  <2>1. CASE v = w
    BY <1>2, <2>1
  <2>2. CASE v # w
    <3>1. calls'[v] = calls[v] /\ calls[v].sms \in SmsLogs
      BY <1>0, <1>2, <2>2 DEF Call
    <3> QED
      BY <1>3, <3>1 DEF SettlesQueued, Doing
  <2> QED
    BY <2>1, <2>2
<1>7. UnreadIsUntouched'
  <2>1. ASSUME NEW s \in SmsLogs, Unread(s)'
        PROVE  /\ ~Handled(s)' /\ smsLogs'[s].parse # "PARSED"
               /\ \A v \in Workers : calls'[v].op = "DECIDE" /\ calls'[v].sms = s =>
                     ~PassesGuards(calls'[v].facts)
    <3>1. Unread(s) /\ ~Handled(s) /\ smsLogs[s].parse # "PARSED"
      BY <1>4, <2>1 DEF UnreadIsUntouched
    <3>2. \A v \in Workers : calls[v].op = "DECIDE" /\ calls[v].sms = s => ~PassesGuards(calls[v].facts)
      BY <3>1 DEF UnreadIsUntouched, Doing
    <3> QED
      BY <1>2, <1>3, <3>1, <3>2
  <2>2. ASSUME NEW u \in Workers, NEW v \in Workers, calls'[u].op = "PARSE", calls'[v].op = "PARSE",
               calls'[u].sms = calls'[v].sms
        PROVE  u = v
    BY <1>2, <2>2 DEF UnreadIsUntouched, Doing
  <2> QED
    BY <2>1, <2>2 DEF UnreadIsUntouched, Doing
<1>8. DecidesOnRead'
  <2> SUFFICES ASSUME NEW v \in Workers, calls'[v].op = "DECIDE", PassesGuards(calls'[v].facts)
               PROVE  calls'[v].facts.sms.trx = smsLogs'[calls'[v].sms].trx
    BY DEF DecidesOnRead, Doing
  <2>1. v # w /\ calls'[v] = calls[v] /\ calls[v].sms \in SmsLogs
    BY <1>0, <1>2 DEF Call
  <2> QED
    BY <1>3, <2>1 DEF DecidesOnRead, Doing
<1>9. ParkedIsQueued'
  BY <1>3 DEF ParkedIsQueued, Parked
<1>10. ApartIsOwed'
  <2> SUFFICES ASSUME NEW o \in Orders, NEW s \in SmsLogs, Apart(o, s)'
               PROVE  \/ \E v \in Workers : Owes(v, o, s)'
                      \/ \E t \in SmsLogs : smsLogs'[t].trx = orders'[o].trx /\ Handled(t)'
    BY DEF ApartIsOwed
  <2>1. Apart(o, s) /\ orders'[o].trx = orders[o].trx
    BY <1>3 DEF Apart
  <2>2. CASE \E t \in SmsLogs : smsLogs[t].trx = orders[o].trx /\ Handled(t)
    BY <1>3, <2>1, <2>2
  <2>3. CASE ~\E t \in SmsLogs : smsLogs[t].trx = orders[o].trx /\ Handled(t)
    <3>1. PICK v \in Workers : Owes(v, o, s)
      BY <2>1, <2>3 DEF ApartIsOwed
    <3>2. CASE v = w
      <4>1. CASE Doing(w, "REVERSE")
        BY <1>0, <2>1, <2>3, <3>1, <3>2, <4>1, ReverseUnites DEF Owes, Doing
      <4>2. CASE Doing(w, "DECIDE")
        <5>1. ~Handled(s)
          BY <2>1, <2>3 DEF Apart
        <5> QED
          BY <1>0, <2>1, <3>1, <3>2, <4>2, <5>1, ForwardUnites DEF Doing
      <4> QED
        BY <1>0, <4>1, <4>2
    <3>3. CASE v # w
      BY <1>2, <3>1, <3>3 DEF Owes, Doing
    <3> QED
      BY <3>2, <3>3
  <2> QED
    BY <2>2, <2>3
<1> QED
  BY <1>5, <1>6, <1>7, <1>8, <1>9, <1>10

(* How a request moves on in a step that neither matches nor reads a text. *)
Moves(v) ==
    /\ calls[v].op \notin {"PARSE", "REVERSE", "DECIDE"}
    /\ calls'[v].op \in {"IDLE", "REVERSE", "MATCH", "DECIDE", "EXPIRE"}
    /\ calls'[v].op = "MATCH" => smsLogs[calls'[v].sms].match # "ABSENT"
    /\ calls'[v].op = "DECIDE" => /\ smsLogs[calls'[v].sms].match # "ABSENT"
                                  /\ calls'[v].facts = FactsOf(calls'[v].sms)
    /\ calls[v].op = "MATCH" => calls'[v].op = "DECIDE" /\ calls'[v].sms = calls[v].sms

(* A step that leaves SMS, credits and reviews alone, and adds a PENDING   *)
(* order only with the request that will look for its SMS.                 *)
LEMMA QuietKeeps ==
    ASSUME TypeOK, UndisturbedInv, UNCHANGED <<company, device, smsLogs, verified, reviews>>,
           calls' \in [Workers -> Call],
           \A v \in Workers : calls'[v] = calls[v] \/ Moves(v),
           \A o \in Orders : orders'[o].status = "PENDING" =>
              \/ orders[o].status = "PENDING" /\ orders'[o].trx = orders[o].trx
              \/ \E v \in Workers : Doing(v, "REVERSE")' /\ calls'[v].order = o
    PROVE  UndisturbedInv'
<1> USE DEF UndisturbedInv
<1>0. /\ calls \in [Workers -> Call] /\ smsLogs \in [SmsLogs -> SmsRow]
      /\ \A s \in SmsLogs : Handled(s)' <=> Handled(s)
  BY DEF TypeOK, Handled, SpentOn
<1>1. ASSUME NEW v \in Workers, calls'[v].op = "PARSE" \/ calls'[v].op = "SETTLE"
      PROVE  calls'[v] = calls[v]
  BY <1>1 DEF Moves
<1>2. ASSUME NEW s \in SmsLogs, Unread(s)'
      PROVE  Unread(s)
  BY <1>1, <1>2 DEF Unread, Doing
<1>3. WorksOnStored'
  BY DEF WorksOnStored, Doing, Moves
<1>4. SettlesQueued'
  BY <1>1 DEF SettlesQueued, Doing
<1>5. UnreadIsUntouched'
  <2>1. ASSUME NEW s \in SmsLogs, Unread(s)'
        PROVE  /\ ~Handled(s)' /\ smsLogs'[s].parse # "PARSED"
               /\ \A v \in Workers : calls'[v].op = "DECIDE" /\ calls'[v].sms = s =>
                     ~PassesGuards(calls'[v].facts)
    <3>1. Unread(s) /\ ~Handled(s) /\ smsLogs[s].parse # "PARSED"
      BY <1>2, <2>1 DEF UnreadIsUntouched
    <3>2. ~PassesGuards(FactsOf(s))
      BY <3>1 DEF PassesGuards, FactsOf
    <3>3. \A v \in Workers : calls[v].op = "DECIDE" /\ calls[v].sms = s => ~PassesGuards(calls[v].facts)
      BY <3>1 DEF UnreadIsUntouched, Doing
    <3> QED
      BY <1>0, <3>1, <3>2, <3>3 DEF Moves
  <2>2. ASSUME NEW u \in Workers, NEW v \in Workers, calls'[u].op = "PARSE", calls'[v].op = "PARSE",
               calls'[u].sms = calls'[v].sms
        PROVE  u = v
    BY <1>1, <2>2 DEF UnreadIsUntouched, Doing
  <2> QED
    BY <2>1, <2>2 DEF UnreadIsUntouched, Doing
<1>6. DecidesOnRead'
  <2> SUFFICES ASSUME NEW v \in Workers, calls'[v].op = "DECIDE", PassesGuards(calls'[v].facts)
               PROVE  calls'[v].facts.sms.trx = smsLogs'[calls'[v].sms].trx
    BY DEF DecidesOnRead, Doing
  <2>1. CASE calls'[v] = calls[v]
    BY <2>1 DEF DecidesOnRead, Doing
  <2>2. CASE Moves(v)
    BY <2>2 DEF Moves, FactsOf
  <2> QED
    BY <2>1, <2>2
<1>7. ParkedIsQueued'
  BY DEF ParkedIsQueued
<1>8. ApartIsOwed'
  <2> SUFFICES ASSUME NEW o \in Orders, NEW s \in SmsLogs, Apart(o, s)'
               PROVE  \/ \E v \in Workers : Owes(v, o, s)'
                      \/ \E t \in SmsLogs : smsLogs'[t].trx = orders'[o].trx /\ Handled(t)'
    BY DEF ApartIsOwed
  <2>1. CASE \E v \in Workers : Doing(v, "REVERSE")' /\ calls'[v].order = o
    BY <2>1 DEF Owes
  <2>2. CASE orders[o].status = "PENDING" /\ orders'[o].trx = orders[o].trx
    <3>1. Apart(o, s) /\ PassesGuards(FactsOf(s))
      BY <2>2 DEF Apart, CreditOf, SpentOn, FactsOf
    <3>2. CASE \E t \in SmsLogs : smsLogs[t].trx = orders[o].trx /\ Handled(t)
      BY <1>0, <2>2, <3>2
    <3>3. ASSUME NEW v \in Workers, Owes(v, o, s)
          PROVE  Owes(v, o, s)'
      <4>1. CASE calls'[v] = calls[v]
        BY <3>3, <4>1 DEF Owes, Doing
      <4>2. CASE Moves(v)
        BY <3>1, <3>3, <4>2 DEF Owes, Doing, Moves
      <4> QED
        BY <4>1, <4>2
    <3> QED
      BY <3>1, <3>2, <3>3 DEF ApartIsOwed
  <2> QED
    BY <2>1, <2>2 DEF Apart
<1> QED
  BY <1>3, <1>4, <1>5, <1>6, <1>7, <1>8

LEMMA IngestKeeps ==
    ASSUME TypeOK, UndisturbedInv, NEW w \in Workers, NEW r \in SmsLogs, BeginIngest(w, r)
    PROVE  UndisturbedInv'
<1> USE DEF UndisturbedInv
<1>0. /\ calls \in [Workers -> Call] /\ smsLogs \in [SmsLogs -> SmsRow]
      /\ \A s \in SmsLogs : Handled(s)' <=> Handled(s)
      /\ calls[w] = Idle /\ calls'[w] = [op |-> "PARSE", sms |-> r]
      /\ \A v \in Workers \ {w} : calls'[v] = calls[v]
      /\ smsLogs[r].match = "ABSENT" /\ smsLogs'[r].match = "UNMATCHED"
      /\ smsLogs'[r].parse = smsLogs[r].parse
      /\ \A s \in SmsLogs \ {r} : smsLogs'[s] = smsLogs[s]
      /\ UNCHANGED <<orders, verified, reviews, company, device>>
  BY DEF BeginIngest, TypeOK, Handled, SpentOn, Goto, Free, SmsRow
<1>1. ASSUME NEW v \in Workers, calls[v].op \in {"PARSE", "MATCH", "DECIDE", "SETTLE"}
      PROVE  v # w /\ calls'[v] = calls[v] /\ calls[v].sms # r /\ calls[v].sms \in SmsLogs
  BY <1>0, <1>1 DEF WorksOnStored, Call, Idle
<1>2. ASSUME NEW s \in SmsLogs, Unread(s)'
      PROVE  Unread(s)
  BY <1>0, <1>2 DEF Unread, Doing
<1>3. WorksOnStored'
  BY <1>0, <1>1 DEF WorksOnStored
<1>4. SettlesQueued'
  BY <1>0, <1>1 DEF SettlesQueued, Doing
<1>5. UnreadIsUntouched'
  <2>1. ASSUME NEW s \in SmsLogs, Unread(s)'
        PROVE  /\ ~Handled(s)' /\ smsLogs'[s].parse # "PARSED"
               /\ \A v \in Workers : calls'[v].op = "DECIDE" /\ calls'[v].sms = s =>
                     ~PassesGuards(calls'[v].facts)
    BY <1>0, <1>2, <2>1 DEF UnreadIsUntouched, Doing
  <2>2. ASSUME NEW u \in Workers, NEW v \in Workers, calls'[u].op = "PARSE", calls'[v].op = "PARSE",
               calls'[u].sms = calls'[v].sms
        PROVE  u = v
    BY <1>0, <1>1, <2>2 DEF UnreadIsUntouched, Doing
  <2> QED
    BY <2>1, <2>2 DEF UnreadIsUntouched, Doing
<1>6. DecidesOnRead'
  BY <1>0, <1>1 DEF DecidesOnRead, Doing
<1>7. ParkedIsQueued'
  BY <1>0 DEF ParkedIsQueued
<1>8. ApartIsOwed'
  <2> SUFFICES ASSUME NEW o \in Orders, NEW s \in SmsLogs, Apart(o, s)'
               PROVE  \/ \E v \in Workers : Owes(v, o, s)'
                      \/ \E t \in SmsLogs : smsLogs'[t].trx = orders'[o].trx /\ Handled(t)'
    BY DEF ApartIsOwed
  <2>1. s # r
    BY <1>0 DEF Apart, PassesGuards, FactsOf, UnreadIsUntouched, Unread
  <2>2. Apart(o, s)
    BY <1>0, <2>1 DEF Apart, CreditOf, SpentOn, FactsOf
  <2>3. ASSUME NEW v \in Workers, Owes(v, o, s)
        PROVE  Owes(v, o, s)'
    BY <1>0, <2>3 DEF Owes, Doing, Idle
  <2>4. ASSUME NEW t \in SmsLogs, smsLogs[t].trx = orders[o].trx, Handled(t)
        PROVE  smsLogs'[t].trx = orders'[o].trx /\ Handled(t)'
    BY <1>0, <2>4 DEF UnreadIsUntouched, Unread
  <2> QED
    BY <2>2, <2>3, <2>4 DEF ApartIsOwed
<1> QED
  BY <1>3, <1>4, <1>5, <1>6, <1>7, <1>8

LEMMA ParseKeeps ==
    ASSUME TypeOK, UndisturbedInv, NEW w \in Workers, NEW x \in Extractions, Parse(w, x)
    PROVE  UndisturbedInv'
<1> USE DEF UndisturbedInv
<1>a. PICK r \in SmsLogs : calls[w].sms = r
  BY DEF Parse, Doing, TypeOK, Call
<1>0. /\ calls \in [Workers -> Call] /\ smsLogs \in [SmsLogs -> SmsRow]
      /\ \A s \in SmsLogs : Handled(s)' <=> Handled(s)
      /\ calls[w].op = "PARSE" /\ calls'[w] = [op |-> "MATCH", sms |-> r, upload |-> TRUE]
      /\ \A v \in Workers \ {w} : calls'[v] = calls[v]
      /\ smsLogs'[r].match = smsLogs[r].match
      /\ \A s \in SmsLogs \ {r} : smsLogs'[s] = smsLogs[s]
      /\ UNCHANGED <<orders, verified, reviews, company, device>>
  BY <1>a DEF Parse, Doing, Extracted, TypeOK, Handled, SpentOn, Goto, SmsRow
<1>1. /\ Unread(r) /\ ~Handled(r) /\ smsLogs[r].match # "ABSENT"
      /\ \A v \in Workers : calls[v].op = "DECIDE" /\ calls[v].sms = r => ~PassesGuards(calls[v].facts)
      /\ \A v \in Workers : calls[v].op = "PARSE" /\ calls[v].sms = r => v = w
  BY <1>a, <1>0 DEF UnreadIsUntouched, Unread, Doing, WorksOnStored
<1>2. ASSUME NEW s \in SmsLogs, Unread(s)'
      PROVE  Unread(s) /\ s # r
  BY <1>0, <1>1, <1>2 DEF Unread, Doing
<1>3. WorksOnStored'
  <2> SUFFICES ASSUME NEW v \in Workers, calls'[v].op \in {"PARSE", "MATCH", "DECIDE", "SETTLE"}
               PROVE  smsLogs'[calls'[v].sms].match # "ABSENT"
    BY DEF WorksOnStored
  <2>1. v # w => calls[v].sms \in SmsLogs
    BY <1>0 DEF Call
  <2> QED
    BY <1>0, <1>1, <2>1 DEF WorksOnStored
<1>4. SettlesQueued'
  BY <1>0 DEF SettlesQueued, Doing
<1>5. UnreadIsUntouched'
  <2>1. ASSUME NEW s \in SmsLogs, Unread(s)'
        PROVE  /\ ~Handled(s)' /\ smsLogs'[s].parse # "PARSED"
               /\ \A v \in Workers : calls'[v].op = "DECIDE" /\ calls'[v].sms = s =>
                     ~PassesGuards(calls'[v].facts)
    BY <1>0, <1>2, <2>1 DEF UnreadIsUntouched, Doing
  <2>2. ASSUME NEW u \in Workers, NEW v \in Workers, calls'[u].op = "PARSE", calls'[v].op = "PARSE",
               calls'[u].sms = calls'[v].sms
        PROVE  u = v
    BY <1>0, <2>2 DEF UnreadIsUntouched, Doing
  <2> QED
    BY <2>1, <2>2 DEF UnreadIsUntouched, Doing
<1>6. DecidesOnRead'
  <2> SUFFICES ASSUME NEW v \in Workers, calls'[v].op = "DECIDE", PassesGuards(calls'[v].facts)
               PROVE  calls'[v].facts.sms.trx = smsLogs'[calls'[v].sms].trx
    BY DEF DecidesOnRead, Doing
  <2>1. v # w /\ calls'[v] = calls[v] /\ calls[v].sms \in SmsLogs /\ calls[v].sms # r
    BY <1>0, <1>1 DEF Call
  <2> QED
    BY <1>0, <2>1 DEF DecidesOnRead, Doing
<1>7. ParkedIsQueued'
  BY <1>0 DEF ParkedIsQueued
<1>8. ApartIsOwed'
  <2> SUFFICES ASSUME NEW o \in Orders, NEW s \in SmsLogs, Apart(o, s)'
               PROVE  \/ \E v \in Workers : Owes(v, o, s)'
                      \/ \E t \in SmsLogs : smsLogs'[t].trx = orders'[o].trx /\ Handled(t)'
    BY DEF ApartIsOwed
  <2>1. CASE s = r
    BY <1>0, <2>1 DEF Owes, Doing
  <2>2. CASE s # r
    <3>1. Apart(o, s)
      BY <1>0, <2>2 DEF Apart, CreditOf, SpentOn, FactsOf
    <3>2. ASSUME NEW v \in Workers, Owes(v, o, s)
          PROVE  Owes(v, o, s)'
      BY <1>0, <3>2 DEF Owes, Doing
    <3>3. ASSUME NEW t \in SmsLogs, smsLogs[t].trx = orders[o].trx, Handled(t)
          PROVE  smsLogs'[t].trx = orders'[o].trx /\ Handled(t)'
      BY <1>0, <1>1, <3>3
    <3> QED
      BY <3>1, <3>2, <3>3 DEF ApartIsOwed
  <2> QED
    BY <2>1, <2>2
<1> QED
  BY <1>3, <1>4, <1>5, <1>6, <1>7, <1>8

LEMMA SettleKeeps ==
    ASSUME TypeOK, UndisturbedInv, NEW w \in Workers, SettleUpload(w)
    PROVE  UndisturbedInv'
<1> USE DEF UndisturbedInv
<1>a. PICK r \in SmsLogs : calls[w].sms = r
  BY DEF SettleUpload, Doing, TypeOK, Call
<1>0. /\ calls \in [Workers -> Call] /\ smsLogs \in [SmsLogs -> SmsRow]
      /\ \A s \in SmsLogs : Handled(s)' <=> Handled(s)
      /\ calls[w].op = "SETTLE" /\ calls'[w] = Idle
      /\ \A v \in Workers \ {w} : calls'[v] = calls[v]
      /\ smsLogs'[r].match = calls[w].status
      /\ \A s \in SmsLogs : /\ smsLogs'[s].trx = smsLogs[s].trx /\ smsLogs'[s].parse = smsLogs[s].parse
                             /\ smsLogs'[s].amount = smsLogs[s].amount
      /\ \A s \in SmsLogs \ {r} : smsLogs'[s] = smsLogs[s]
      /\ UNCHANGED <<orders, verified, reviews, company, device>>
  BY <1>a DEF SettleUpload, Doing, TypeOK, Handled, SpentOn, Goto, SmsRow
<1>1. /\ calls[w].status \notin {"ABSENT", "UNMATCHED"} /\ smsLogs[r].match # "ABSENT"
      /\ calls[w].status \in Parked => \E o \in OrNone(Orders) : reviews[<<r, o>>].open
  BY <1>a, <1>0 DEF SettlesQueued, Doing, WorksOnStored
<1>2. ASSUME NEW s \in SmsLogs, Unread(s)'
      PROVE  Unread(s)
  BY <1>0, <1>1, <1>2 DEF Unread, Doing, Idle
<1>3. WorksOnStored'
  <2> SUFFICES ASSUME NEW v \in Workers, calls'[v].op \in {"PARSE", "MATCH", "DECIDE", "SETTLE"}
               PROVE  smsLogs'[calls'[v].sms].match # "ABSENT"
    BY DEF WorksOnStored
  <2>1. v # w /\ calls'[v] = calls[v] /\ calls[v].sms \in SmsLogs
    BY <1>0 DEF Call, Idle
  <2> QED
    BY <1>0, <1>1, <2>1 DEF WorksOnStored
<1>4. SettlesQueued'
  <2> SUFFICES ASSUME NEW v \in Workers, calls'[v].op = "SETTLE"
               PROVE  /\ calls'[v].status \notin {"ABSENT", "UNMATCHED"}
                      /\ calls'[v].status \in Parked =>
                            \E o \in OrNone(Orders) : reviews'[<<calls'[v].sms, o>>].open
    BY DEF SettlesQueued, Doing
  <2>1. v # w /\ calls'[v] = calls[v]
    BY <1>0 DEF Idle
  <2> QED
    BY <1>0, <2>1 DEF SettlesQueued, Doing
<1>5. UnreadIsUntouched'
  <2>1. ASSUME NEW s \in SmsLogs, Unread(s)'
        PROVE  /\ ~Handled(s)' /\ smsLogs'[s].parse # "PARSED"
               /\ \A v \in Workers : calls'[v].op = "DECIDE" /\ calls'[v].sms = s =>
                     ~PassesGuards(calls'[v].facts)
    BY <1>0, <1>2, <2>1 DEF UnreadIsUntouched, Doing, Idle
  <2>2. ASSUME NEW u \in Workers, NEW v \in Workers, calls'[u].op = "PARSE", calls'[v].op = "PARSE",
               calls'[u].sms = calls'[v].sms
        PROVE  u = v
    BY <1>0, <2>2 DEF UnreadIsUntouched, Doing, Idle
  <2> QED
    BY <2>1, <2>2 DEF UnreadIsUntouched, Doing
<1>6. DecidesOnRead'
  <2> SUFFICES ASSUME NEW v \in Workers, calls'[v].op = "DECIDE", PassesGuards(calls'[v].facts)
               PROVE  calls'[v].facts.sms.trx = smsLogs'[calls'[v].sms].trx
    BY DEF DecidesOnRead, Doing
  <2>1. v # w /\ calls'[v] = calls[v] /\ calls[v].sms \in SmsLogs
    BY <1>0 DEF Call, Idle
  <2> QED
    BY <1>0, <2>1 DEF DecidesOnRead, Doing
<1>7. ParkedIsQueued'
  BY <1>0, <1>1 DEF ParkedIsQueued, Parked
<1>8. ApartIsOwed'
  <2> SUFFICES ASSUME NEW o \in Orders, NEW s \in SmsLogs, Apart(o, s)'
               PROVE  \/ \E v \in Workers : Owes(v, o, s)'
                      \/ \E t \in SmsLogs : smsLogs'[t].trx = orders'[o].trx /\ Handled(t)'
    BY DEF ApartIsOwed
  <2>1. s # r
    BY <1>0, <1>1 DEF Apart
  <2>2. Apart(o, s)
    BY <1>0, <2>1 DEF Apart, CreditOf, SpentOn, FactsOf
  <2>3. ASSUME NEW v \in Workers, Owes(v, o, s)
        PROVE  Owes(v, o, s)'
    BY <1>0, <2>3 DEF Owes, Doing
  <2> QED
    BY <1>0, <2>2, <2>3 DEF ApartIsOwed
<1> QED
  BY <1>3, <1>4, <1>5, <1>6, <1>7, <1>8

LEMMA UndisturbedStep ==
    ASSUME TypeOK, LedgerInv, UndisturbedInv, [UndisturbedNext]_vars
    PROVE  UndisturbedInv'
<1>0. TypeOK'
  BY UndisturbedIsNext, TypeStep
<1>1. ASSUME NEW w \in Workers, NEW o \in Orders, NEW r \in Requests, Register(w, o, r)
      PROVE  UndisturbedInv'
  <2>1. /\ calls[w] = Idle /\ calls'[w] = [op |-> "REVERSE", order |-> o]
        /\ \A v \in Workers \ {w} : calls'[v] = calls[v]
        /\ \A p \in Orders \ {o} : orders'[p] = orders[p]
    BY <1>1 DEF Register, Free, Goto, TypeOK
  <2>2. Moves(w)
    BY <2>1 DEF Moves, Idle
  <2>3. Doing(w, "REVERSE")' /\ calls'[w].order = o
    BY <2>1 DEF Doing
  <2> QED
    BY <1>0, <1>1, <2>1, <2>2, <2>3, QuietKeeps DEF Register, TypeOK
<1>2. ASSUME NEW w \in Workers, LoadSmsFacts(w)
      PROVE  UndisturbedInv'
  <2>1. /\ calls[w].op = "MATCH" /\ smsLogs[calls[w].sms].match # "ABSENT"
        /\ calls'[w] = [op |-> "DECIDE", sms |-> calls[w].sms, upload |-> calls[w].upload,
                        facts |-> FactsOf(calls[w].sms)]
        /\ \A v \in Workers \ {w} : calls'[v] = calls[v]
    BY <1>2 DEF LoadSmsFacts, Doing, Goto, TypeOK, UndisturbedInv, WorksOnStored
  <2>2. Moves(w)
    BY <2>1 DEF Moves
  <2> QED
    BY <1>0, <1>2, <2>1, <2>2, QuietKeeps DEF LoadSmsFacts, TypeOK
<1>3. ASSUME NEW w \in Workers, NEW s \in SmsLogs, BeginRescan(w, s)
      PROVE  UndisturbedInv'
  <2>1. /\ calls[w] = Idle /\ smsLogs[s].match = "UNMATCHED"
        /\ calls'[w] = [op |-> "MATCH", sms |-> s, upload |-> FALSE]
        /\ \A v \in Workers \ {w} : calls'[v] = calls[v]
    BY <1>3 DEF BeginRescan, Free, Goto, TypeOK
  <2>2. Moves(w)
    BY <2>1 DEF Moves, Idle
  <2> QED
    BY <1>0, <1>3, <2>1, <2>2, QuietKeeps DEF BeginRescan, TypeOK
<1>4. ASSUME NEW w \in Workers, NEW o \in Orders, BeginSweep(w, o)
      PROVE  UndisturbedInv'
  <2>1. /\ calls[w] = Idle /\ calls'[w].op = "EXPIRE"
        /\ \A v \in Workers \ {w} : calls'[v] = calls[v]
    BY <1>4 DEF BeginSweep, Free, Goto, TypeOK
  <2>2. Moves(w)
    BY <2>1 DEF Moves, Idle
  <2> QED
    BY <1>0, <1>4, <2>1, <2>2, QuietKeeps DEF BeginSweep, TypeOK
<1>5. ASSUME NEW w \in Workers, Expire(w)
      PROVE  UndisturbedInv'
  <2>1. /\ calls[w].op = "EXPIRE" /\ calls'[w] = Idle
        /\ \A v \in Workers \ {w} : calls'[v] = calls[v]
        /\ \A o \in Orders : orders'[o].status = "PENDING" => orders'[o] = orders[o]
    BY <1>5 DEF Expire, Doing, Goto, TypeOK, OrderRow
  <2>2. Moves(w)
    BY <2>1 DEF Moves, Idle
  <2> QED
    BY <1>0, <1>5, <2>1, <2>2, QuietKeeps DEF Expire, TypeOK
<1>6. ASSUME NEW o \in Orders, Age(o)
      PROVE  UndisturbedInv'
  <2>1. \A p \in Orders : orders'[p].status = orders[p].status /\ orders'[p].trx = orders[p].trx
    BY <1>6 DEF Age, TypeOK, OrderRow
  <2> QED
    BY <1>0, <1>6, <2>1, QuietKeeps DEF Age, TypeOK
<1>7. CASE UNCHANGED vars
  BY <1>0, <1>7, QuietKeeps DEF vars, TypeOK
<1>8. \A w \in Workers : DeviceStep(w) \/ JobStep(w) => UndisturbedInv'
  BY <1>2, <1>3, <1>4, <1>5, IngestKeeps, ParseKeeps, SettleKeeps, MatchingKeeps DEF DeviceStep, JobStep
<1> QED
  BY <1>1, <1>6, <1>7, <1>8, MatchingKeeps DEF UndisturbedNext

LEMMA UndisturbedInit == Init => UndisturbedInv
<1> SUFFICES ASSUME Init PROVE UndisturbedInv
  OBVIOUS
<1>1. /\ \A w \in Workers : calls[w].op = "IDLE"
      /\ \A s \in SmsLogs : smsLogs[s].match = "ABSENT" /\ smsLogs[s].parse = "UNPARSED" /\ ~Handled(s)
  BY DEF Init, Idle, NoSms, Handled, SpentOn, Slots
<1>2. WorksOnStored /\ SettlesQueued /\ UnreadIsUntouched /\ DecidesOnRead
  BY <1>1 DEF WorksOnStored, SettlesQueued, UnreadIsUntouched, DecidesOnRead, Doing
<1>3. ParkedIsQueued /\ ApartIsOwed
  BY <1>1 DEF ParkedIsQueued, ApartIsOwed, Apart
<1> QED
  BY <1>2, <1>3 DEF UndisturbedInv

LEMMA UndisturbedInvariant == UndisturbedSpec => [](TypeOK /\ LedgerInv /\ UndisturbedInv)
<1>1. Init => TypeOK /\ LedgerInv /\ UndisturbedInv
  BY InitTyped, LedgerInit, UndisturbedInit
<1>2. TypeOK /\ LedgerInv /\ UndisturbedInv /\ [UndisturbedNext]_vars
         => (TypeOK /\ LedgerInv /\ UndisturbedInv)'
  BY UndisturbedIsNext, TypeStep, LedgerStep, UndisturbedStep
<1> QED
  BY <1>1, <1>2, PTL DEF UndisturbedSpec

(* While merchants, devices and jobs run undisturbed, an SMS parked for a  *)
(* human always has an open review row: the run that parks it opens one,   *)
(* and what an upload writes back was parked by such a run.                *)
THEOREM ParkedAreQueued == UndisturbedSpec => []ParkedIsQueued
<1>1. TypeOK /\ LedgerInv /\ UndisturbedInv => ParkedIsQueued
  BY DEF UndisturbedInv
<1> QED
  BY <1>1, UndisturbedInvariant, PTL

(* However registrations, uploads, rescans and sweeps interleave, a usable *)
(* SMS and a PENDING order of its TrxID are not left apart once every      *)
(* request has run to its end, unless that TrxID has been handled before.  *)
THEOREM NobodyLeftBehind == UndisturbedSpec => []NoPairLeftBehind
<1>1. TypeOK /\ LedgerInv /\ UndisturbedInv => NoPairLeftBehind
  BY DEF UndisturbedInv, ApartIsOwed, Owes, NoPairLeftBehind, Free, Idle, Doing
<1> QED
  BY <1>1, UndisturbedInvariant, PTL

-----------------------------------------------------------------------------
(* The race of a cancellation or a correction with a verification: what it *)
(* breaks, and that it is all that breaks it.                              *)

(* The second step of a cancellation or of a correction, on order o: it    *)
(* writes the status without looking at it again.                          *)
Overwrites(w, o) == (CommitCancel(w) \/ CommitCorrect(w)) /\ calls[w].order = o

(* Who can take the status VERIFIED, or then the TrxID, from an order.     *)
LEMMA VerifiedStays ==
    ASSUME TypeOK, [Next]_vars, NEW o \in Orders, orders[o].status = "VERIFIED"
    PROVE  \/ orders'[o].status = "VERIFIED" /\ orders'[o].trx = orders[o].trx
           \/ \E w \in Workers : Overwrites(w, o)
           \/ \E v \in verified : VoidVerification(v) /\ v.order = o
<1> DEFINE Stays == \/ orders'[o].status = "VERIFIED" /\ orders'[o].trx = orders[o].trx
                    \/ \E w \in Workers : Overwrites(w, o)
                    \/ \E v \in verified : VoidVerification(v) /\ v.order = o
<1>0. orders \in [Orders -> OrderRow]
  BY DEF TypeOK
<1>1. ASSUME NEW w \in Workers, NEW p \in Orders, NEW r \in Requests, Register(w, p, r)
      PROVE  Stays
  BY <1>0, <1>1 DEF Register
<1>2. ASSUME NEW w \in Workers, ReverseMatchOrder(w) \/ MatchBySms(w)
      PROVE  Stays
  <2>1. CASE orders' = orders
    BY <2>1
  <2>2. CASE \E S \in SUBSET SmsLogs : \E dec, fs : Applied(S, dec, fs)
    <3>1. PICK S \in SUBSET SmsLogs : \E dec, fs : Applied(S, dec, fs)
      BY <2>2
    <3>2. PICK dec, fs : Applied(S, dec, fs)
      BY <3>1
    <3>3. CASE orders' = orders
      BY <3>3
    <3>4. CASE \E p \in Orders : orders' = [orders EXCEPT ![p].status = "VERIFIED"]
      BY <1>0, <3>4 DEF OrderRow
    <3> QED
      BY <3>2, <3>3, <3>4, AppliedBooks DEF Books
  <2> QED
    BY <1>2, <2>1, <2>2, ReverseApplies, ForwardApplies
<1>3. ASSUME NEW w \in Workers, CommitCancel(w) \/ CommitCorrect(w)
      PROVE  Stays
  <2>1. calls[w].order \in Orders
    BY <1>3 DEF CommitCancel, CommitCorrect, Doing, TypeOK, Call
  <2>2. CASE calls[w].order = o
    BY <1>3, <2>2 DEF Overwrites
  <2>3. CASE calls[w].order # o
    BY <1>0, <1>3, <2>1, <2>3 DEF CommitCancel, CommitCorrect
  <2> QED
    BY <2>2, <2>3
<1>4. ASSUME NEW w \in Workers, Expire(w)
      PROVE  Stays
  BY <1>0, <1>4 DEF Expire
<1>5. ASSUME NEW v \in verified, VoidVerification(v)
      PROVE  Stays
  BY <1>0, <1>5 DEF VoidVerification
<1>6. ASSUME NEW w \in Workers, CommitLink(w)
      PROVE  Stays
  <2>1. \/ orders' = orders
        \/ orders' = [orders EXCEPT ![calls[w].order].status = "VERIFIED"]
    BY <1>6 DEF CommitLink
  <2> QED
    BY <1>0, <2>1 DEF OrderRow
<1>7. ASSUME NEW p \in Orders, Age(p)
      PROVE  Stays
  BY <1>0, <1>7 DEF Age, OrderRow
<1>8. CASE UNCHANGED orders
  BY <1>8
<1>9. ASSUME NEW w \in Workers,
             \/ \E p \in Orders : BeginCancel(w, p) \/ BeginSweep(w, p)
             \/ \E p \in Orders, trx \in TrxIds : BeginCorrect(w, p, trx)
             \/ \E s \in SmsLogs : BeginIngest(w, s) \/ BeginRescan(w, s) \/ BeginReparse(w, s)
             \/ \E x \in Extractions : Parse(w, x) \/ CommitReparse(w, x)
             \/ \E x \in Slots : BeginResolve(w, x)
             \/ \E status \in {"IGNORED", "UNMATCHED"} : Dismiss(w, status)
             \/ \E p \in Orders, s \in SmsLogs : ReadLink(w, p, s)
             \/ LoadSmsFacts(w) \/ SettleUpload(w) \/ Crash(w)
      PROVE  UNCHANGED orders
  BY <1>9 DEF BeginCancel, BeginCorrect, BeginIngest, Parse, LoadSmsFacts, SettleUpload,
     BeginRescan, BeginSweep, BeginResolve, Dismiss, ReadLink, BeginReparse, CommitReparse, Crash
<1>10. ASSUME \/ \E status \in CompanyStatus : SetCompanyStatus(status)
              \/ \E status \in DeviceStatus : SetDeviceStatus(status)
              \/ UNCHANGED vars
       PROVE  UNCHANGED orders
  BY <1>10 DEF SetCompanyStatus, SetDeviceStatus, vars
<1> QED
  BY <1>1, <1>2, <1>3, <1>4, <1>5, <1>6, <1>7, <1>8, <1>9, <1>10
     DEF Next, WorkerStep, MerchantStep, DeviceStep, JobStep, ReviewStep, ReparseStep, AdminStep

(* The order of a new credit is VERIFIED.                                  *)
LEMMA NewCreditIsVerified ==
    ASSUME TypeOK, [Next]_vars, NEW v \in verified' \ verified
    PROVE  v.order \in Orders /\ orders'[v.order].status = "VERIFIED"
<1>0. orders \in [Orders -> OrderRow]
  BY DEF TypeOK
<1>1. CASE Quiet
  BY <1>1 DEF Quiet
<1>2. ASSUME NEW o \in Orders, Relisted(o)
      PROVE  FALSE
  BY <1>2 DEF Relisted
<1>3. CASE Matched
  <2>1. PICK S \in SUBSET SmsLogs : \E dec, fs : Applied(S, dec, fs)
    BY <1>3 DEF Matched
  <2>2. PICK dec, fs : Applied(S, dec, fs)
    BY <2>1
  <2>3. \E s \in S : /\ dec[s].order \in Orders
                     /\ Books(dec[s].order, s,
                              Booking(dec[s].order, s, dec[s].method,
                                 orders[dec[s].order].status = "EXPIRED", fs[s].sms.amount))
    BY <2>2, AppliedBooks
  <2>4. PICK o \in Orders : /\ v.order = o
                            /\ orders' = [orders EXCEPT ![o].status = "VERIFIED"]
    BY <2>3 DEF Books
  <2> QED
    BY <1>0, <2>4 DEF OrderRow
<1>4. ASSUME NEW w \in Workers, LinkedBy(w)
      PROVE  v.order \in Orders /\ orders'[v.order].status = "VERIFIED"
  <2>1. calls[w].order \in Orders
    BY <1>4 DEF LinkedBy, Doing, TypeOK, Call
  <2>2. v.order = calls[w].order
    BY <1>4 DEF LinkedBy, Linked
  <2> QED
    BY <1>0, <1>4, <2>1, <2>2 DEF LinkedBy, Linked, OrderRow
<1>5. ASSUME NEW u \in verified, VoidVerification(u)
      PROVE  FALSE
  BY <1>5 DEF VoidVerification
<1> QED
  BY <1>1, <1>2, <1>3, <1>4, <1>5, StepKinds

(* An order that keeps its credit stops being VERIFIED only by the second  *)
(* step of a cancellation or a correction that began before the credit:    *)
(* no matching run, sweep, void, link, re-parse or crash does it.          *)
THEOREM OnlyOverwritesUnverify ==
    Spec => [][\A v \in verified \cap verified' :
                  orders[v.order].status = "VERIFIED" /\ orders'[v.order].status # "VERIFIED"
                     => \E w \in Workers : Overwrites(w, v.order)]_vars
<1>1. ASSUME TypeOK, LedgerInv, [Next]_vars,
             NEW v \in verified \cap verified', orders[v.order].status = "VERIFIED",
             orders'[v.order].status # "VERIFIED"
      PROVE  \E w \in Workers : Overwrites(w, v.order)
  <2>1. v.order \in Orders
    BY <1>1 DEF TypeOK, Credit
  <2>2. ASSUME NEW u \in verified, VoidVerification(u), u.order = v.order
        PROVE  FALSE
    <3>1. u = v
      BY <1>1, <2>2 DEF LedgerInv, CreditUnique
    <3> QED
      BY <1>1, <2>2, <3>1 DEF VoidVerification
  <2> QED
    BY <1>1, <2>1, <2>2, VerifiedStays
<1>2. TypeOK /\ LedgerInv /\ [Next]_vars =>
        [\A v \in verified \cap verified' :
            orders[v.order].status = "VERIFIED" /\ orders'[v.order].status # "VERIFIED"
               => \E w \in Workers : Overwrites(w, v.order)]_vars
  BY <1>1
<1> QED
  BY <1>2, Typing, LedgerInvariant, PTL DEF Spec

(* The engine with the condition the two endpoints lack: their second step *)
(* does not write over a verification.                                     *)
ChecksStatus == \A w \in Workers, o \in Orders : Overwrites(w, o) => orders[o].status # "VERIFIED"
CheckedSpec == Init /\ [][Next /\ ChecksStatus]_vars

LEMMA CheckedTyping == CheckedSpec => [](TypeOK /\ LedgerInv)
<1>1. Init => TypeOK /\ LedgerInv
  BY InitTyped, LedgerInit
<1>2. TypeOK /\ LedgerInv /\ [Next /\ ChecksStatus]_vars => (TypeOK /\ LedgerInv)'
  BY TypeStep, LedgerStep
<1> QED
  BY <1>1, <1>2, PTL DEF CheckedSpec

LEMMA CheckedStep ==
    ASSUME TypeOK, LedgerInv, CreditedOrderIsVerified, [Next /\ ChecksStatus]_vars
    PROVE  CreditedOrderIsVerified'
<1>1. [Next]_vars
  OBVIOUS
<1>2. ASSUME NEW v \in verified'
      PROVE  orders'[v.order].status = "VERIFIED"
  <2>1. CASE v \notin verified
    BY <1>1, <2>1, NewCreditIsVerified
  <2>2. CASE v \in verified
    <3>1. v.order \in Orders /\ orders[v.order].status = "VERIFIED"
      BY <2>2 DEF TypeOK, Credit, CreditedOrderIsVerified, CreditOnUnverified
    <3>2. ASSUME NEW w \in Workers, Overwrites(w, v.order)
          PROVE  FALSE
      <4>1. calls'[w] # calls[w]
        BY <3>2 DEF Overwrites, CommitCancel, CommitCorrect, Doing, Goto, Idle, TypeOK
      <4>2. ChecksStatus
        BY <4>1 DEF vars
      <4> QED
        BY <3>1, <3>2, <4>2 DEF ChecksStatus
    <3>3. ASSUME NEW u \in verified, VoidVerification(u), u.order = v.order
          PROVE  FALSE
      <4>1. u = v
        BY <2>2, <3>3 DEF LedgerInv, CreditUnique
      <4> QED
        BY <3>3, <4>1 DEF VoidVerification
    <3> QED
      BY <1>1, <3>1, <3>2, <3>3, VerifiedStays
  <2> QED
    BY <2>1, <2>2
<1> QED
  BY <1>2 DEF CreditedOrderIsVerified, CreditOnUnverified

(* With it every credited order is VERIFIED: the nightly check             *)
(* verification_on_unverified_order fires for nothing else.                *)
THEOREM CheckedCreditsAreVerified == CheckedSpec => []CreditedOrderIsVerified
<1>1. Init => CreditedOrderIsVerified
  BY DEF Init, CreditedOrderIsVerified, CreditOnUnverified
<1>2. TypeOK /\ LedgerInv /\ CreditedOrderIsVerified /\ [Next /\ ChecksStatus]_vars
         => CreditedOrderIsVerified'
  BY CheckedStep
<1> QED
  BY <1>1, <1>2, CheckedTyping, PTL DEF CheckedSpec

-----------------------------------------------------------------------------
(* A TrxID spent twice: it takes a credit whose order need not claim it (a *)
(* manual link, a heuristic match), a re-parse that changes a TrxID that   *)
(* was decided on, or a verification that was written over.                *)

(* Every credit is booked by the exact pass, and no text is read again.    *)
BooksExactly ==
    /\ \A v \in verified' \ verified : v.method = "EXACT_TXN_ID"
    /\ \A w \in Workers, x \in Extractions : ~CommitReparse(w, x)

ExactSpec == Init /\ [][Next /\ ChecksStatus /\ BooksExactly]_vars

(* An SMS is read once: what is decided on it, and what was credited,      *)
(* carries the TrxID that was read, and the order credited claims it.      *)
ReadInv ==
    /\ WorksOnStored
    /\ \A w \in Workers : Doing(w, "SETTLE") => calls[w].status # "ABSENT"
    /\ \A s \in SmsLogs : Unread(s) => smsLogs[s].parse # "PARSED"
    /\ \A v, w \in Workers :
          Doing(v, "PARSE") /\ Doing(w, "PARSE") /\ calls[v].sms = calls[w].sms => v = w
    /\ \A w \in Workers : Doing(w, "DECIDE") /\ calls[w].facts.sms.parse = "PARSED" =>
          /\ smsLogs[calls[w].sms].parse = "PARSED"
          /\ smsLogs[calls[w].sms].trx = calls[w].facts.sms.trx

ClaimedByOrder(v) ==
    /\ orders[v.order].status = "VERIFIED"
    /\ smsLogs[v.sms].parse = "PARSED" /\ smsLogs[v.sms].trx # None
    /\ orders[v.order].trx = smsLogs[v.sms].trx

CreditsClaimed == \A v \in verified : ClaimedByOrder(v)

(* A worker goes on to work on a stored SMS, and decides on what it loads. *)
GoesOn(w) ==
    \/ calls'[w] = calls[w]
    \/ calls'[w].op \notin {"PARSE", "MATCH", "DECIDE", "SETTLE"}
    \/ /\ calls'[w].op \in {"MATCH", "DECIDE", "SETTLE"}
       /\ calls'[w].sms \in SmsLogs /\ smsLogs[calls'[w].sms].match # "ABSENT"
       /\ calls'[w].op = "DECIDE" => calls'[w].facts = FactsOf(calls'[w].sms)
       /\ calls'[w].op = "SETTLE" => calls'[w].status # "ABSENT"

(* Every SMS keeps its reading, and a stored one stays stored.             *)
KeepsReading ==
    \A s \in SmsLogs :
       /\ smsLogs'[s].parse = smsLogs[s].parse /\ smsLogs'[s].trx = smsLogs[s].trx
       /\ smsLogs[s].match # "ABSENT" => smsLogs'[s].match # "ABSENT"

(* A decision of the forward path is taken on what the worker loaded.      *)
LEMMA ForwardReads ==
    ASSUME TypeOK, WorksOnStored, NEW w \in Workers, MatchBySms(w)
    PROVE  /\ GoesOn(w)
           /\ \/ UNCHANGED <<smsLogs, verified, reviews, orders>>
              \/ \E S \in SUBSET SmsLogs : \E dec, fs : Applied(S, dec, fs) /\ Sourced(w, S, fs)
<1>0. PICK s \in SmsLogs, facts \in Facts : calls[w].sms = s /\ calls[w].facts = facts
  BY DEF MatchBySms, Doing, TypeOK, Call
<1>1. Doing(w, "DECIDE") /\ smsLogs[s].match # "ABSENT"
  BY <1>0 DEF MatchBySms, Doing, WorksOnStored
<1>2. ASSUME NEW status, Return(w, status), status # "ABSENT"
      PROVE  GoesOn(w)
  BY <1>0, <1>1, <1>2 DEF GoesOn, Return, Goto, Idle, TypeOK
<1>3. ASSUME NEW d \in Decisions(facts), RunOnce(w, d)
      PROVE  /\ GoesOn(w)
             /\ \E S \in SUBSET SmsLogs : \E dec, fs : Applied(S, dec, fs) /\ Sourced(w, S, fs)
  <2>1. ApplyDecisions([x \in {s} |-> d], [x \in {s} |-> facts]) /\ Return(w, StatusFor(d.result))
    BY <1>0, <1>3 DEF RunOnce
  <2>2. Applied({s}, [x \in {s} |-> d], [x \in {s} |-> facts])
    BY <1>0, <2>1 DEF Applied
  <2>3. Sourced(w, {s}, [x \in {s} |-> facts])
    BY <1>0, <1>1 DEF Sourced
  <2>4. StatusFor(d.result) # "ABSENT"
    BY DecisionsOK DEF DecisionOK, StatusFor, TypeOK
  <2> QED
    BY <1>2, <2>1, <2>2, <2>3, <2>4
<1>4. \/ \E d \in Decisions(facts) : RunOnce(w, d)
      \/ /\ Return(w, smsLogs[s].match) \/ Return(w, "UNMATCHED")
         /\ UNCHANGED <<orders, smsLogs, verified, reviews, outbox>>
  BY <1>0 DEF MatchBySms
<1> QED
  BY <1>1, <1>2, <1>3, <1>4

(* Apart from an upload and its reading, steps keep every reading.         *)
LEMMA ReadingStep ==
    ASSUME TypeOK, ReadInv, [Next]_vars,
           \A w \in Workers, s \in SmsLogs : ~BeginIngest(w, s),
           \A w \in Workers, x \in Extractions : ~Parse(w, x) /\ ~CommitReparse(w, x)
    PROVE  KeepsReading /\ \A w \in Workers : GoesOn(w)
<1> DEFINE Calm == KeepsReading /\ \A v \in Workers : GoesOn(v)
<1>0. /\ smsLogs \in [SmsLogs -> SmsRow] /\ calls \in [Workers -> Call]
      /\ WorksOnStored
  BY DEF TypeOK, ReadInv
<1>a. ASSUME smsLogs' = smsLogs
      PROVE  KeepsReading
  BY <1>a DEF KeepsReading
<1>b. ASSUME NEW w \in Workers, GoesOn(w), NEW c, calls' = [calls EXCEPT ![w] = c]
      PROVE  \A v \in Workers : GoesOn(v)
  <2>1. \A v \in Workers \ {w} : calls'[v] = calls[v]
    BY <1>0, <1>b
  <2> QED
    BY <1>b, <2>1 DEF GoesOn
<1>c. ASSUME NEW w \in Workers, NEW c, c.op \notin {"PARSE", "MATCH", "DECIDE", "SETTLE"},
             calls' = [calls EXCEPT ![w] = c]
      PROVE  \A v \in Workers : GoesOn(v)
  <2>1. GoesOn(w)
    BY <1>0, <1>c DEF GoesOn
  <2> QED
    BY <1>b, <1>c, <2>1
<1>d. ASSUME NEW w \in Workers, NEW S \in SUBSET SmsLogs, NEW dec, NEW fs,
             Applied(S, dec, fs), Sourced(w, S, fs)
      PROVE  KeepsReading
  <2>1. \A s \in SmsLogs :
           /\ smsLogs'[s].trx = smsLogs[s].trx /\ smsLogs'[s].parse = smsLogs[s].parse
           /\ IF s \in S THEN smsLogs'[s].match = StatusFor(dec[s].result)
              ELSE smsLogs'[s].match = smsLogs[s].match
    BY <1>d, AppliedMarks
  <2>2. \A s \in S : smsLogs'[s].match \in MatchStatus \ {"ABSENT"}
    BY <1>d, AppliedMarks
  <2>3. \A s \in S : smsLogs[s].match # "ABSENT"
    BY <1>d DEF Sourced
  <2> QED
    BY <2>1, <2>2, <2>3 DEF KeepsReading
<1>1. ASSUME NEW w \in Workers, ReverseMatchOrder(w) \/ MatchBySms(w)
      PROVE  Calm
  <2>1. KeepsReading
    BY <1>0, <1>1, <1>a, <1>d, ReverseSourced, ForwardReads
  <2>2. CASE ReverseMatchOrder(w)
    <3>1. calls' = [calls EXCEPT ![w] = Idle] /\ Idle.op = "IDLE"
      BY <2>2 DEF ReverseMatchOrder, Goto, Idle
    <3> QED
      BY <1>c, <2>1, <3>1
  <2>3. CASE MatchBySms(w)
    <3>1. GoesOn(w)
      BY <1>0, <2>3, ForwardReads
    <3>2. \E c : calls' = [calls EXCEPT ![w] = c]
      BY <2>3 DEF MatchBySms, RunOnce, Return, Goto
    <3> QED
      BY <1>b, <2>1, <3>1, <3>2
  <2> QED
    BY <1>1, <2>2, <2>3
<1>2. ASSUME NEW w \in Workers, LoadSmsFacts(w)
      PROVE  Calm
  <2>1. calls[w].sms \in SmsLogs /\ smsLogs[calls[w].sms].match # "ABSENT"
    BY <1>0, <1>2 DEF LoadSmsFacts, Doing, Call, WorksOnStored
  <2>2. GoesOn(w)
    BY <1>0, <1>2, <2>1 DEF LoadSmsFacts, Goto, GoesOn
  <2> QED
    BY <1>2, <1>a, <1>b, <2>2 DEF LoadSmsFacts, Goto
<1>3. ASSUME NEW w \in Workers, NEW s \in SmsLogs, BeginRescan(w, s)
      PROVE  Calm
  <2>1. GoesOn(w)
    BY <1>0, <1>3 DEF BeginRescan, Goto, GoesOn
  <2> QED
    BY <1>3, <1>a, <1>b, <2>1 DEF BeginRescan, Goto
<1>4. ASSUME NEW w \in Workers, SettleUpload(w)
      PROVE  Calm
  <2>1. /\ calls[w].sms \in SmsLogs /\ smsLogs[calls[w].sms].match # "ABSENT"
        /\ calls[w].status # "ABSENT"
    BY <1>0, <1>4 DEF SettleUpload, Doing, Call, WorksOnStored, ReadInv
  <2>2. KeepsReading
    BY <1>0, <1>4, <2>1 DEF SettleUpload, KeepsReading, SmsRow
  <2> QED
    BY <1>4, <1>c, <2>2 DEF SettleUpload, Goto, Idle
<1>5. ASSUME NEW w \in Workers, NEW status \in {"IGNORED", "UNMATCHED"}, Dismiss(w, status)
      PROVE  Calm
  <2>1. KeepsReading
    BY <1>0, <1>5 DEF Dismiss, KeepsReading, SmsRow
  <2> QED
    BY <1>5, <1>c, <2>1 DEF Dismiss, Goto, Idle
<1>6. ASSUME NEW w \in Workers, CommitLink(w)
      PROVE  Calm
  <2>1. KeepsReading
    <3>1. \/ smsLogs' = smsLogs
          \/ smsLogs' = [smsLogs EXCEPT ![calls[w].sms].match = "MATCHED"]
      BY <1>6 DEF CommitLink
    <3> QED
      BY <1>0, <3>1 DEF KeepsReading, SmsRow
  <2> QED
    BY <1>6, <1>c, <2>1 DEF CommitLink, Goto, Idle
<1>7. ASSUME NEW v \in verified, VoidVerification(v)
      PROVE  Calm
  <2>1. KeepsReading
    BY <1>0, <1>7 DEF VoidVerification, KeepsReading, SmsRow
  <2> QED
    BY <1>7, <2>1 DEF VoidVerification, GoesOn
<1>8. ASSUME UNCHANGED <<smsLogs, calls>>
      PROVE  Calm
  BY <1>8, <1>a DEF GoesOn
<1>9. ASSUME NEW w \in Workers, NEW c, c.op \notin {"PARSE", "MATCH", "DECIDE", "SETTLE"},
             Goto(w, c), smsLogs' = smsLogs
      PROVE  Calm
  BY <1>9, <1>a, <1>c DEF Goto
<1>10. ASSUME NEW w \in Workers,
              \/ \E o \in Orders, r \in Requests : Register(w, o, r)
              \/ \E o \in Orders : BeginCancel(w, o) \/ BeginSweep(w, o)
              \/ \E o \in Orders, trx \in TrxIds : BeginCorrect(w, o, trx)
              \/ \E s \in SmsLogs : BeginReparse(w, s)
              \/ \E x \in Slots : BeginResolve(w, x)
              \/ \E o \in Orders, s \in SmsLogs : ReadLink(w, o, s)
              \/ CommitCancel(w) \/ CommitCorrect(w) \/ Expire(w) \/ Crash(w)
       PROVE  Calm
  <2>1. \E c : /\ c.op \notin {"PARSE", "MATCH", "DECIDE", "SETTLE"}
               /\ Goto(w, c) /\ smsLogs' = smsLogs
    BY <1>10 DEF Register, BeginCancel, BeginSweep, BeginCorrect, BeginReparse, BeginResolve,
       ReadLink, CommitCancel, CommitCorrect, Expire, Crash, Idle
  <2> HIDE DEF Calm
  <2> QED
    BY <1>9, <2>1
<1>11. ASSUME \/ \E status \in CompanyStatus : SetCompanyStatus(status)
              \/ \E status \in DeviceStatus : SetDeviceStatus(status)
              \/ \E o \in Orders : Age(o)
              \/ UNCHANGED vars
       PROVE  UNCHANGED <<smsLogs, calls>>
  BY <1>11 DEF SetCompanyStatus, SetDeviceStatus, Age, vars
<1> HIDE DEF Calm
<1>12. ASSUME NEW w \in Workers, WorkerStep(w)
       PROVE  Calm
  <2>1. CASE MerchantStep(w)
    BY <2>1, <1>1, <1>10 DEF MerchantStep
  <2>2. CASE DeviceStep(w)
    BY <2>2, <1>1, <1>2, <1>4 DEF DeviceStep
  <2>3. CASE JobStep(w)
    BY <2>3, <1>3, <1>10 DEF JobStep
  <2>4. CASE ReviewStep(w)
    BY <2>4, <1>5, <1>6, <1>10 DEF ReviewStep
  <2>5. CASE ReparseStep(w) \/ Crash(w)
    BY <2>5, <1>10 DEF ReparseStep
  <2> QED
    BY <1>12, <2>1, <2>2, <2>3, <2>4, <2>5 DEF WorkerStep
<1>13. ASSUME AdminStep
       PROVE  Calm
  BY <1>13, <1>7, <1>8, <1>11 DEF AdminStep
<1>14. Calm
  BY <1>8, <1>11, <1>12, <1>13 DEF Next
<1> QED
  BY <1>14 DEF Calm

(* A credit the exact pass books is for an order that claims the TrxID of  *)
(* the SMS as it was read.                                                 *)
LEMMA ExactDecision ==
    ASSUME DOMAIN orders = Orders, NEW facts, NEW d \in Decisions(facts),
           d.result = "VERIFIED", d.method = "EXACT_TXN_ID"
    PROVE  /\ facts.sms.parse = "PARSED"
           /\ facts.sms.trx # None /\ orders[d.order].trx = facts.sms.trx
BY DEF Decisions, Decide, PassesGuards, ExactPass, ExactCandidates, HeuristicPass, Verified,
       Review, Duplicate, GuardRejected, Unmatched

(* Only a matching run or a manual link books a credit.                    *)
LEMMA WhoBooks ==
    ASSUME TypeOK, [Next]_vars, NEW v \in verified' \ verified
    PROVE  \E w \in Workers : \/ ReverseMatchOrder(w) \/ MatchBySms(w)
                              \/ v.method = "MANUAL_ADMIN"
<1>1. ASSUME NEW w \in Workers, CommitLink(w)
      PROVE  v.method = "MANUAL_ADMIN"
  <2>1. \/ verified' = verified
        \/ \E c : c.method = "MANUAL_ADMIN" /\ verified' = verified \cup {c}
    <3>1. \/ verified' = verified
          \/ verified' = verified \cup
                {[order |-> calls[w].order, sms |-> calls[w].sms, method |-> "MANUAL_ADMIN",
                  late |-> calls[w].late, delta |-> calls[w].delta]}
      BY <1>1 DEF CommitLink
    <3> QED
      BY <3>1
  <2> QED
    BY <2>1
<1>2. ASSUME NEW u \in verified, VoidVerification(u)
      PROVE  FALSE
  BY <1>2 DEF VoidVerification
<1>3. verified' # verified
  OBVIOUS
<1>4. ASSUME NEW w \in Workers, WorkerStep(w)
      PROVE  ReverseMatchOrder(w) \/ MatchBySms(w) \/ CommitLink(w)
  BY <1>3, <1>4 DEF WorkerStep, MerchantStep, DeviceStep, JobStep, ReviewStep, ReparseStep,
     Register, BeginCancel, CommitCancel, BeginCorrect, CommitCorrect, BeginIngest, Parse,
     LoadSmsFacts, SettleUpload, BeginRescan, BeginSweep, Expire, BeginResolve, Dismiss,
     ReadLink, BeginReparse, CommitReparse, Crash
<1> QED
  BY <1>1, <1>2, <1>3, <1>4 DEF Next, AdminStep, SetCompanyStatus, SetDeviceStatus, Age, vars

LEMMA NewCreditIsClaimed ==
    ASSUME TypeOK, ReadInv, [Next]_vars, NEW v \in verified' \ verified,
           v.method = "EXACT_TXN_ID"
    PROVE  ClaimedByOrder(v)'
<1>0. WorksOnStored /\ orders \in [Orders -> OrderRow]
  BY DEF ReadInv, TypeOK
<1>1. PICK w \in Workers : ReverseMatchOrder(w) \/ MatchBySms(w)
  BY WhoBooks
<1>2. PICK S \in SUBSET SmsLogs : \E dec, fs : Applied(S, dec, fs) /\ Sourced(w, S, fs)
  BY <1>0, <1>1, ReverseSourced, ForwardReads
<1>3. PICK dec, fs : Applied(S, dec, fs) /\ Sourced(w, S, fs)
  BY <1>2
<1>4. PICK s \in S :
         /\ dec[s].result = "VERIFIED" /\ dec[s].order \in Orders
         /\ Books(dec[s].order, s,
               Booking(dec[s].order, s, dec[s].method,
                  orders[dec[s].order].status = "EXPIRED", fs[s].sms.amount))
  BY <1>3, AppliedBooks
<1> DEFINE o == dec[s].order
<1>5. /\ v.order = o /\ v.sms = s /\ v.method = dec[s].method
      /\ orders' = [orders EXCEPT ![o].status = "VERIFIED"]
  BY <1>4 DEF Books, Booking
<1>6. fs[s] \in Facts /\ dec[s] \in Decisions(fs[s])
  BY <1>3 DEF Applied
<1>7. /\ fs[s].sms.parse = "PARSED"
      /\ fs[s].sms.trx # None /\ orders[o].trx = fs[s].sms.trx
  BY <1>0, <1>4, <1>5, <1>6, ExactDecision
<1>8. smsLogs[s].parse = "PARSED" /\ smsLogs[s].trx = fs[s].sms.trx
  <2>1. CASE fs[s] = FactsOf(s)
    BY <1>7, <2>1 DEF FactsOf
  <2>2. CASE Doing(w, "DECIDE") /\ calls[w].sms = s /\ fs[s] = calls[w].facts
    BY <1>7, <2>2 DEF ReadInv
  <2> QED
    BY <1>3, <2>1, <2>2 DEF Sourced
<1>9. smsLogs'[s].parse = "PARSED" /\ smsLogs'[s].trx = fs[s].sms.trx
  BY <1>3, <1>8, AppliedMarks
<1>10. orders'[o].status = "VERIFIED" /\ orders'[o].trx = fs[s].sms.trx
  BY <1>0, <1>4, <1>5, <1>7 DEF OrderRow
<1> QED
  BY <1>5, <1>7, <1>9, <1>10 DEF ClaimedByOrder

(* A credited order that is not written over keeps claiming its TrxID.     *)
LEMMA OldCreditIsClaimed ==
    ASSUME TypeOK, LedgerInv, [Next]_vars, ChecksStatus, NEW v \in verified \cap verified',
           orders[v.order].status = "VERIFIED"
    PROVE  orders'[v.order].status = "VERIFIED" /\ orders'[v.order].trx = orders[v.order].trx
<1>1. v.order \in Orders
  BY DEF TypeOK, Credit
<1>2. ASSUME NEW w \in Workers, Overwrites(w, v.order)
      PROVE  FALSE
  BY <1>1, <1>2 DEF ChecksStatus
<1>3. ASSUME NEW u \in verified, VoidVerification(u), u.order = v.order
      PROVE  FALSE
  <2>1. u = v
    BY <1>3 DEF LedgerInv, CreditUnique
  <2> QED
    BY <1>3, <2>1 DEF VoidVerification
<1> QED
  BY <1>1, <1>2, <1>3, VerifiedStays

LEMMA ReadKept ==
    ASSUME TypeOK, ReadInv, KeepsReading, \A w \in Workers : GoesOn(w)
    PROVE  ReadInv'
<1>0. calls \in [Workers -> Call]
  BY DEF TypeOK
<1>1. \A w \in Workers : calls'[w].op = "PARSE" => calls'[w] = calls[w]
  BY DEF GoesOn
<1>2. WorksOnStored'
  <2> SUFFICES ASSUME NEW w \in Workers, calls'[w].op \in {"PARSE", "MATCH", "DECIDE", "SETTLE"}
               PROVE  smsLogs'[calls'[w].sms].match # "ABSENT"
    BY DEF WorksOnStored
  <2>1. CASE calls'[w] = calls[w]
    <3>1. calls[w].sms \in SmsLogs /\ smsLogs[calls[w].sms].match # "ABSENT"
      BY <1>0, <2>1 DEF Call, ReadInv, WorksOnStored
    <3> QED
      BY <2>1, <3>1 DEF KeepsReading
  <2>2. CASE calls'[w] # calls[w]
    BY <2>2 DEF GoesOn, KeepsReading
  <2> QED
    BY <2>1, <2>2
<1>3. \A w \in Workers : calls'[w].op = "SETTLE" => calls'[w].status # "ABSENT"
  BY DEF GoesOn, ReadInv, Doing
<1>4. ASSUME NEW s \in SmsLogs, Unread(s)'
      PROVE  smsLogs'[s].parse # "PARSED"
  <2>1. Unread(s)
    BY <1>1, <1>4 DEF Unread, KeepsReading, Doing
  <2> QED
    BY <2>1 DEF ReadInv, KeepsReading
<1>5. ASSUME NEW v \in Workers, NEW w \in Workers, Doing(v, "PARSE")', Doing(w, "PARSE")',
             calls'[v].sms = calls'[w].sms
      PROVE  v = w
  BY <1>1, <1>5 DEF ReadInv, Doing
<1>6. ASSUME NEW w \in Workers, Doing(w, "DECIDE")', calls'[w].facts.sms.parse = "PARSED"
      PROVE  /\ smsLogs'[calls'[w].sms].parse = "PARSED"
             /\ smsLogs'[calls'[w].sms].trx = calls'[w].facts.sms.trx
  <2>1. CASE calls'[w] = calls[w]
    <3>1. calls[w].sms \in SmsLogs
      BY <1>0, <1>6, <2>1 DEF Call, Doing
    <3>2. /\ smsLogs[calls[w].sms].parse = "PARSED"
          /\ smsLogs[calls[w].sms].trx = calls[w].facts.sms.trx
      BY <1>6, <2>1 DEF ReadInv, Doing
    <3> QED
      BY <2>1, <3>1, <3>2 DEF KeepsReading
  <2>2. CASE calls'[w] # calls[w]
    <3>1. calls'[w].sms \in SmsLogs /\ calls'[w].facts = FactsOf(calls'[w].sms)
      BY <1>6, <2>2 DEF GoesOn, Doing
    <3>2. calls'[w].facts.sms = smsLogs[calls'[w].sms]
      BY <3>1 DEF FactsOf
    <3> QED
      BY <1>6, <3>1, <3>2 DEF KeepsReading
  <2> QED
    BY <2>1, <2>2
<1> QED
  BY <1>2, <1>3, <1>4, <1>5, <1>6 DEF ReadInv, Doing

LEMMA IngestReads ==
    ASSUME TypeOK, ReadInv, NEW w \in Workers, NEW s \in SmsLogs, BeginIngest(w, s)
    PROVE  ReadInv' /\ KeepsReading
<1>0. calls \in [Workers -> Call] /\ smsLogs \in [SmsLogs -> SmsRow]
  BY DEF TypeOK
<1>1. /\ calls' = [calls EXCEPT ![w] = [op |-> "PARSE", sms |-> s]]
      /\ smsLogs[s].match = "ABSENT"
      /\ smsLogs' = [smsLogs EXCEPT ![s].match = "UNMATCHED"]
  BY DEF BeginIngest, Goto
<1>2. KeepsReading /\ smsLogs'[s].match # "ABSENT"
  BY <1>0, <1>1 DEF KeepsReading, SmsRow
<1>3. \A v \in Workers \ {w} : calls'[v] = calls[v]
  BY <1>0, <1>1
<1>4. calls'[w] = [op |-> "PARSE", sms |-> s]
  BY <1>0, <1>1
<1>5. \A v \in Workers : Doing(v, "PARSE") => calls[v].sms # s
  BY <1>1 DEF ReadInv, WorksOnStored, Doing
<1>6. WorksOnStored'
  <2> SUFFICES ASSUME NEW v \in Workers, calls'[v].op \in {"PARSE", "MATCH", "DECIDE", "SETTLE"}
               PROVE  smsLogs'[calls'[v].sms].match # "ABSENT"
    BY DEF WorksOnStored
  <2>1. CASE v = w
    BY <1>2, <1>4, <2>1
  <2>2. CASE v # w
    <3>1. calls'[v] = calls[v]
      BY <1>3, <2>2
    <3>2. calls[v].sms \in SmsLogs /\ smsLogs[calls[v].sms].match # "ABSENT"
      BY <1>0, <3>1 DEF Call, ReadInv, WorksOnStored
    <3> QED
      BY <1>2, <3>1, <3>2 DEF KeepsReading
  <2> QED
    BY <2>1, <2>2
<1>7. \A v \in Workers : calls'[v].op = "SETTLE" => calls'[v].status # "ABSENT"
  BY <1>3, <1>4 DEF ReadInv, Doing
<1>8. ASSUME NEW r \in SmsLogs, Unread(r)'
      PROVE  smsLogs'[r].parse # "PARSED"
  <2>1. Unread(r)
    BY <1>1, <1>2, <1>3, <1>4, <1>8 DEF Unread, KeepsReading, Doing
  <2> QED
    BY <1>2, <2>1 DEF ReadInv, KeepsReading
<1>9. ASSUME NEW u \in Workers, NEW v \in Workers, Doing(u, "PARSE")', Doing(v, "PARSE")',
             calls'[u].sms = calls'[v].sms
      PROVE  u = v
  BY <1>3, <1>4, <1>5, <1>9 DEF ReadInv, Doing
<1>10. ASSUME NEW v \in Workers, Doing(v, "DECIDE")', calls'[v].facts.sms.parse = "PARSED"
       PROVE  /\ smsLogs'[calls'[v].sms].parse = "PARSED"
              /\ smsLogs'[calls'[v].sms].trx = calls'[v].facts.sms.trx
  <2>1. calls'[v] = calls[v]
    BY <1>3, <1>4, <1>10 DEF Doing
  <2>2. calls[v].sms \in SmsLogs
    BY <1>0, <1>10, <2>1 DEF Call, Doing
  <2>3. /\ smsLogs[calls[v].sms].parse = "PARSED"
        /\ smsLogs[calls[v].sms].trx = calls[v].facts.sms.trx
    BY <1>10, <2>1 DEF ReadInv, Doing
  <2> QED
    BY <1>2, <2>1, <2>2, <2>3 DEF KeepsReading
<1> QED
  BY <1>2, <1>6, <1>7, <1>8, <1>9, <1>10 DEF ReadInv, Doing

LEMMA ParseReads ==
    ASSUME TypeOK, ReadInv, NEW w \in Workers, NEW x \in Extractions, Parse(w, x)
    PROVE  /\ ReadInv'
           /\ \A s \in SmsLogs : smsLogs[s].parse = "PARSED" => smsLogs'[s] = smsLogs[s]
<1> DEFINE s == calls[w].sms
<1>0. calls \in [Workers -> Call] /\ smsLogs \in [SmsLogs -> SmsRow]
  BY DEF TypeOK
<1>1. /\ s \in SmsLogs /\ smsLogs[s].match # "ABSENT" /\ Unread(s)
      /\ calls' = [calls EXCEPT ![w] = [op |-> "MATCH", sms |-> s, upload |-> TRUE]]
      /\ smsLogs' = [smsLogs EXCEPT ![s] = Extracted(s, x)]
  BY <1>0 DEF Parse, Goto, Doing, Call, ReadInv, WorksOnStored, Unread
<1>2. smsLogs[s].parse # "PARSED"
  BY <1>1 DEF ReadInv
<1>3. \A r \in SmsLogs : /\ r # s => smsLogs'[r] = smsLogs[r]
                         /\ smsLogs'[r].match = smsLogs[r].match
  BY <1>0, <1>1 DEF Extracted, SmsRow
<1>4. \A v \in Workers : v # w => calls'[v] = calls[v]
  BY <1>0, <1>1
<1>5. calls'[w] = [op |-> "MATCH", sms |-> s, upload |-> TRUE]
  BY <1>0, <1>1
<1>6. WorksOnStored'
  <2> SUFFICES ASSUME NEW v \in Workers, calls'[v].op \in {"PARSE", "MATCH", "DECIDE", "SETTLE"}
               PROVE  smsLogs'[calls'[v].sms].match # "ABSENT"
    BY DEF WorksOnStored
  <2>1. CASE v = w
    BY <1>1, <1>3, <1>5, <2>1
  <2>2. CASE v # w
    <3>1. calls'[v] = calls[v]
      BY <1>4, <2>2
    <3>2. calls[v].sms \in SmsLogs /\ smsLogs[calls[v].sms].match # "ABSENT"
      BY <1>0, <3>1 DEF Call, ReadInv, WorksOnStored
    <3> QED
      BY <1>3, <3>1, <3>2
  <2> QED
    BY <2>1, <2>2
<1>7. \A v \in Workers : calls'[v].op = "SETTLE" => calls'[v].status # "ABSENT"
  BY <1>4, <1>5 DEF ReadInv, Doing
<1>8. \A v \in Workers : Doing(v, "PARSE")' => v # w /\ Doing(v, "PARSE") /\ calls'[v] = calls[v]
  BY <1>4, <1>5 DEF Doing
<1>9. ASSUME NEW r \in SmsLogs, Unread(r)'
      PROVE  smsLogs'[r].parse # "PARSED"
  <2>1. r # s
    <3> SUFFICES ASSUME NEW v \in Workers, Doing(v, "PARSE")', calls'[v].sms = s
                 PROVE  FALSE
      BY <1>1, <1>3, <1>9 DEF Unread
    <3>1. v # w /\ Doing(v, "PARSE") /\ calls[v].sms = s
      BY <1>8
    <3>2. Doing(w, "PARSE")
      BY DEF Parse
    <3> QED
      BY <3>1, <3>2 DEF ReadInv
  <2>2. Unread(r)
    BY <1>3, <1>8, <1>9 DEF Unread
  <2> QED
    BY <1>3, <2>1, <2>2 DEF ReadInv
<1>10. ASSUME NEW u \in Workers, NEW v \in Workers, Doing(u, "PARSE")', Doing(v, "PARSE")',
              calls'[u].sms = calls'[v].sms
       PROVE  u = v
  BY <1>8, <1>10 DEF ReadInv
<1>11. ASSUME NEW v \in Workers, Doing(v, "DECIDE")', calls'[v].facts.sms.parse = "PARSED"
       PROVE  /\ smsLogs'[calls'[v].sms].parse = "PARSED"
              /\ smsLogs'[calls'[v].sms].trx = calls'[v].facts.sms.trx
  <2>1. calls'[v] = calls[v]
    BY <1>4, <1>5, <1>11 DEF Doing
  <2>2. calls[v].sms \in SmsLogs
    BY <1>0, <1>11, <2>1 DEF Call, Doing
  <2>3. /\ smsLogs[calls[v].sms].parse = "PARSED"
        /\ smsLogs[calls[v].sms].trx = calls[v].facts.sms.trx
    BY <1>11, <2>1 DEF ReadInv, Doing
  <2>4. calls[v].sms # s
    BY <1>2, <2>3
  <2> QED
    BY <1>3, <2>1, <2>2, <2>3, <2>4
<1> QED
  BY <1>2, <1>3, <1>6, <1>7, <1>9, <1>10, <1>11 DEF ReadInv, Doing

LEMMA ExactStep ==
    ASSUME TypeOK, LedgerInv, ReadInv, CreditsClaimed,
           [Next /\ ChecksStatus /\ BooksExactly]_vars
    PROVE  ReadInv' /\ CreditsClaimed'
<1>1. CASE UNCHANGED vars
  BY <1>1 DEF vars, ReadInv, CreditsClaimed, ClaimedByOrder, WorksOnStored, Unread, Doing
<1>2. CASE Next /\ ChecksStatus /\ BooksExactly
  <2>1. /\ ReadInv'
        /\ \A s \in SmsLogs : smsLogs[s].parse = "PARSED" =>
              smsLogs'[s].parse = "PARSED" /\ smsLogs'[s].trx = smsLogs[s].trx
    <3>1. CASE \E w \in Workers, s \in SmsLogs : BeginIngest(w, s)
      BY <3>1, IngestReads DEF KeepsReading
    <3>2. CASE \E w \in Workers, x \in Extractions : Parse(w, x)
      BY <3>2, ParseReads
    <3>3. CASE /\ \A w \in Workers, s \in SmsLogs : ~BeginIngest(w, s)
               /\ \A w \in Workers, x \in Extractions : ~Parse(w, x)
      <4>1. KeepsReading /\ \A w \in Workers : GoesOn(w)
        BY <1>2, <3>3, ReadingStep DEF BooksExactly
      <4> QED
        BY <4>1, ReadKept DEF KeepsReading
    <3> QED
      BY <3>1, <3>2, <3>3
  <2>2. ASSUME NEW v \in verified'
        PROVE  ClaimedByOrder(v)'
    <3>1. CASE v \in verified
      <4>1. ClaimedByOrder(v) /\ v.sms \in SmsLogs
        BY <3>1 DEF CreditsClaimed, TypeOK, Credit
      <4>2. orders'[v.order].status = "VERIFIED" /\ orders'[v.order].trx = orders[v.order].trx
        BY <1>2, <2>2, <3>1, <4>1, OldCreditIsClaimed DEF ClaimedByOrder
      <4> QED
        BY <2>1, <4>1, <4>2 DEF ClaimedByOrder
    <3>2. CASE v \notin verified
      BY <1>2, <2>2, <3>2, NewCreditIsClaimed DEF BooksExactly
    <3> QED
      BY <3>1, <3>2
  <2> QED
    BY <2>1, <2>2 DEF CreditsClaimed
<1> QED
  BY <1>1, <1>2

(* Where every credit is the exact pass's, no text is read twice and no    *)
(* verification is written over, a TrxID spent is never verified again:    *)
(* whatever the expiries and revivals of orders, the voids, the rescans,   *)
(* the dismissals and the crashes in between.                              *)
THEOREM ExactSpendsOnce == ExactSpec => []TrxSpentOnce
<1> DEFINE Inv == TypeOK /\ LedgerInv /\ ReadInv /\ CreditsClaimed
<1>1. Init => Inv
  <2> SUFFICES ASSUME Init PROVE Inv
    OBVIOUS
  <2>1. \A w \in Workers : calls[w].op = "IDLE"
    BY DEF Init, Idle
  <2>2. \A s \in SmsLogs : smsLogs[s].parse # "PARSED"
    BY DEF Init, NoSms
  <2>3. ReadInv /\ CreditsClaimed
    BY <2>1, <2>2 DEF Init, ReadInv, CreditsClaimed, WorksOnStored, Doing
  <2> QED
    BY <2>3, InitTyped, LedgerInit
<1>2. Inv /\ [Next /\ ChecksStatus /\ BooksExactly]_vars => Inv'
  BY TypeStep, LedgerStep, ExactStep
<1>3. Inv => TrxSpentOnce
  <2> SUFFICES ASSUME Inv, NEW u \in verified, NEW v \in verified,
                      smsLogs[u.sms].trx = smsLogs[v.sms].trx
               PROVE  u = v
    BY DEF TrxSpentOnce
  <2>1. u.order \in Orders /\ v.order \in Orders
    BY DEF TypeOK, Credit
  <2>2. ClaimedByOrder(u) /\ ClaimedByOrder(v)
    BY DEF CreditsClaimed
  <2>3. u.order = v.order
    BY <2>1, <2>2 DEF ClaimedByOrder, LedgerInv, LiveTrxUnique, DuplicateLiveTrx, Live
  <2> QED
    BY <2>3 DEF LedgerInv, CreditUnique
<1> QED
  BY <1>1, <1>2, <1>3, PTL DEF ExactSpec

-----------------------------------------------------------------------------
(* A usable SMS left IGNORED: it takes a re-parse, or a rescan that loaded *)
(* it before the upload had read its text and decides after.               *)

(* The rescan takes only SMS whose text has been read.                     *)
RescansRead == \A w \in Workers, s \in SmsLogs : BeginRescan(w, s) => ~Unread(s)
ReadFirstSpec == Init /\ [][UndisturbedNext /\ RescansRead]_vars

Usable(s) == PassesGuards(FactsOf(s))

(* Nobody works on an SMS before it is read; what was loaded, is about to  *)
(* be written back, or was written, is IGNORED only if it is not usable.   *)
WorkIsFair(w, s) ==
    /\ ~Unread(s)
    /\ calls[w].op = "DECIDE" => (PassesGuards(calls[w].facts) <=> Usable(s))
    /\ calls[w].op = "SETTLE" /\ calls[w].status = "IGNORED" => ~Usable(s)

WorksOn(w, s) == calls[w].op \in {"MATCH", "DECIDE", "SETTLE"} /\ calls[w].sms = s

IgnoredInv ==
    /\ \A s \in SmsLogs : Unread(s) =>
          smsLogs[s].trx = None /\ smsLogs[s].match \in {"ABSENT", "UNMATCHED"}
    /\ \A w \in Workers, s \in SmsLogs : WorksOn(w, s) => WorkIsFair(w, s)
    /\ \A s \in SmsLogs : smsLogs[s].match = "IGNORED" => ~Usable(s)

(* A step that reads no text, and after which each worker works fairly on  *)
(* the SMS as they were.                                                   *)
FairlyOn(w, s) ==
    /\ ~Unread(s)
    /\ calls'[w].op = "DECIDE" => (PassesGuards(calls'[w].facts) <=> Usable(s))
    /\ calls'[w].op = "SETTLE" /\ calls'[w].status = "IGNORED" => ~Usable(s)

KeepsUse ==
    /\ company' = company /\ device' = device
    /\ \A s \in SmsLogs :
          /\ smsLogs'[s].parse = smsLogs[s].parse /\ smsLogs'[s].trx = smsLogs[s].trx
          /\ smsLogs'[s].amount = smsLogs[s].amount
          /\ Unread(s)' => Unread(s)
          /\ \/ smsLogs'[s].match \in {smsLogs[s].match, "UNMATCHED"}
             \/ ~Unread(s) /\ (smsLogs'[s].match = "IGNORED" => ~Usable(s))
    /\ \A w \in Workers : calls'[w] # calls[w] =>
          \A s \in SmsLogs : WorksOn(w, s)' => FairlyOn(w, s)

LEMMA UseKept ==
    ASSUME IgnoredInv, KeepsUse
    PROVE  IgnoredInv'
<1>1. \A s \in SmsLogs : Usable(s)' <=> Usable(s)
  BY DEF KeepsUse, Usable, PassesGuards, FactsOf
<1>2. \A s \in SmsLogs : Unread(s)' => Unread(s)
  BY DEF KeepsUse
<1>3. ASSUME NEW s \in SmsLogs, Unread(s)'
      PROVE  smsLogs'[s].trx = None /\ smsLogs'[s].match \in {"ABSENT", "UNMATCHED"}
  BY <1>2, <1>3 DEF KeepsUse, IgnoredInv
<1>4. ASSUME NEW w \in Workers, NEW s \in SmsLogs, WorksOn(w, s)'
      PROVE  WorkIsFair(w, s)'
  <2>1. FairlyOn(w, s)
    <3>1. CASE calls'[w] = calls[w]
      <4>1. WorkIsFair(w, s)
        BY <1>4, <3>1 DEF IgnoredInv, WorksOn
      <4> QED
        BY <3>1, <4>1 DEF WorkIsFair, FairlyOn
    <3>2. CASE calls'[w] # calls[w]
      BY <1>4, <3>2 DEF KeepsUse
    <3> QED
      BY <3>1, <3>2
  <2> QED
    BY <1>1, <1>2, <2>1 DEF FairlyOn, WorkIsFair, PassesGuards
<1>5. ASSUME NEW s \in SmsLogs, smsLogs'[s].match = "IGNORED"
      PROVE  ~Usable(s)'
  BY <1>1, <1>5 DEF KeepsUse, IgnoredInv
<1> QED
  BY <1>3, <1>4, <1>5 DEF IgnoredInv

LEMMA ParseUses ==
    ASSUME TypeOK, UndisturbedInv, IgnoredInv,
           NEW w \in Workers, NEW x \in Extractions, Parse(w, x)
    PROVE  IgnoredInv'
<1> DEFINE s == calls[w].sms
<1>0. calls \in [Workers -> Call] /\ smsLogs \in [SmsLogs -> SmsRow]
  BY DEF TypeOK
<1>1. /\ s \in SmsLogs /\ Unread(s) /\ smsLogs[s].match # "ABSENT" /\ calls[w].op = "PARSE"
      /\ calls' = [calls EXCEPT ![w] = [op |-> "MATCH", sms |-> s, upload |-> TRUE]]
      /\ smsLogs' = [smsLogs EXCEPT ![s] = Extracted(s, x)]
      /\ company' = company /\ device' = device
  BY <1>0 DEF Parse, Goto, Doing, Call, UndisturbedInv, WorksOnStored, Unread
<1>2. /\ \A r \in SmsLogs : r # s => smsLogs'[r] = smsLogs[r]
      /\ \A r \in SmsLogs : smsLogs'[r].match = smsLogs[r].match
  BY <1>0, <1>1 DEF Extracted, SmsRow
<1>3. /\ \A v \in Workers : v # w => calls'[v] = calls[v]
      /\ calls'[w] = [op |-> "MATCH", sms |-> s, upload |-> TRUE]
  BY <1>0, <1>1
<1>4. \A r \in SmsLogs : r # s => (Usable(r)' <=> Usable(r))
  BY <1>1, <1>2 DEF Usable, PassesGuards, FactsOf
<1>5. \A v \in Workers : calls'[v].op = "PARSE" =>
         v # w /\ calls'[v] = calls[v] /\ calls[v].sms # s
  <2> SUFFICES ASSUME NEW v \in Workers, calls'[v].op = "PARSE"
               PROVE  v # w /\ calls'[v] = calls[v] /\ calls[v].sms # s
    OBVIOUS
  <2>1. v # w /\ calls'[v] = calls[v]
    BY <1>3
  <2>2. Doing(v, "PARSE") /\ Doing(w, "PARSE")
    BY <1>1, <2>1 DEF Doing
  <2> QED
    BY <2>1, <2>2 DEF UndisturbedInv, UnreadIsUntouched
<1>6. \A r \in SmsLogs : Unread(r)' => r # s /\ Unread(r)
  BY <1>1, <1>2, <1>5 DEF Unread, Doing
<1>7. \A r \in SmsLogs : Unread(r)' =>
         smsLogs'[r].trx = None /\ smsLogs'[r].match \in {"ABSENT", "UNMATCHED"}
  BY <1>2, <1>6 DEF IgnoredInv
<1>8. ASSUME NEW v \in Workers, NEW r \in SmsLogs, WorksOn(v, r)'
      PROVE  WorkIsFair(v, r)'
  <2>1. CASE v = w
    BY <1>3, <1>6, <1>8, <2>1 DEF WorksOn, WorkIsFair
  <2>2. CASE v # w
    <3>1. calls'[v] = calls[v]
      BY <1>3, <2>2
    <3>2. WorkIsFair(v, r)
      BY <1>8, <3>1 DEF WorksOn, IgnoredInv
    <3>3. r # s
      BY <1>1, <3>2 DEF WorkIsFair
    <3> QED
      BY <1>4, <1>6, <3>1, <3>2, <3>3 DEF WorkIsFair, PassesGuards
  <2> QED
    BY <2>1, <2>2
<1>9. ASSUME NEW r \in SmsLogs, smsLogs'[r].match = "IGNORED"
      PROVE  ~Usable(r)'
  <2>1. smsLogs[r].match = "IGNORED"
    BY <1>2, <1>9
  <2>2. r # s
    BY <1>1, <2>1 DEF IgnoredInv
  <2> QED
    BY <1>4, <2>1, <2>2 DEF IgnoredInv
<1> QED
  BY <1>7, <1>8, <1>9 DEF IgnoredInv

(* A matching run ignores only what it found not to be usable.             *)
LEMMA MatchingUses ==
    ASSUME TypeOK, UndisturbedInv, IgnoredInv,
           NEW w \in Workers, ReverseMatchOrder(w) \/ MatchBySms(w)
    PROVE  KeepsUse
<1>0. /\ calls \in [Workers -> Call] /\ smsLogs \in [SmsLogs -> SmsRow]
      /\ WorksOnStored /\ ParkedIsQueued
  BY DEF TypeOK, UndisturbedInv
<1>1. company' = company /\ device' = device
  BY DEF ReverseMatchOrder, MatchBySms
<1>2. /\ \A v \in Workers \ {w} : calls'[v] = calls[v]
      /\ calls'[w].op # "PARSE" /\ calls[w].op # "PARSE"
      /\ calls'[w].op \notin {"MATCH", "DECIDE"}
  <2>1. ReturnsQueued(w)
    BY <1>0, ReverseSourced, ForwardSourced
  <2>2. calls[w].op \in {"REVERSE", "DECIDE"}
    BY DEF ReverseMatchOrder, MatchBySms, Doing
  <2>3. CASE calls' = [calls EXCEPT ![w] = Idle]
    BY <1>0, <2>2, <2>3 DEF Idle
  <2>4. ASSUME NEW status, calls' = [calls EXCEPT ![w] =
                  [op |-> "SETTLE", sms |-> calls[w].sms, status |-> status]]
        PROVE  /\ calls'[w].op = "SETTLE"
               /\ \A v \in Workers \ {w} : calls'[v] = calls[v]
    BY <1>0, <2>4
  <2> QED
    BY <2>1, <2>2, <2>3, <2>4 DEF ReturnsQueued
<1>3. \A s \in SmsLogs :
         /\ smsLogs'[s].parse = smsLogs[s].parse /\ smsLogs'[s].trx = smsLogs[s].trx
         /\ smsLogs'[s].amount = smsLogs[s].amount
         /\ smsLogs[s].match # "ABSENT" => smsLogs'[s].match # "ABSENT"
         /\ \/ smsLogs'[s].match \in {smsLogs[s].match, "UNMATCHED"}
            \/ ~Unread(s) /\ (smsLogs'[s].match = "IGNORED" => ~Usable(s))
  <2>1. CASE UNCHANGED smsLogs
    BY <2>1
  <2>2. ASSUME NEW S \in SUBSET SmsLogs, NEW dec, NEW fs, Applied(S, dec, fs), Sourced(w, S, fs),
               NEW s \in SmsLogs
        PROVE  /\ smsLogs'[s].parse = smsLogs[s].parse /\ smsLogs'[s].trx = smsLogs[s].trx
               /\ smsLogs'[s].amount = smsLogs[s].amount
               /\ smsLogs[s].match # "ABSENT" => smsLogs'[s].match # "ABSENT"
               /\ \/ smsLogs'[s].match \in {smsLogs[s].match, "UNMATCHED"}
                  \/ ~Unread(s) /\ (smsLogs'[s].match = "IGNORED" => ~Usable(s))
    <3>1. /\ smsLogs'[s].trx = smsLogs[s].trx /\ smsLogs'[s].parse = smsLogs[s].parse
          /\ smsLogs'[s].amount = smsLogs[s].amount
          /\ IF s \in S THEN smsLogs'[s].match = StatusFor(dec[s].result)
             ELSE smsLogs'[s].match = smsLogs[s].match
      BY <2>2, AppliedMarks
    <3>2. s \in S => smsLogs'[s].match # "ABSENT"
      BY <2>2, AppliedMarks
    <3>3. ASSUME s \in S
          PROVE  ~Unread(s) /\ (PassesGuards(fs[s]) <=> Usable(s))
      <4>1. CASE fs[s] = FactsOf(s) /\ (smsLogs[s].trx # None \/ smsLogs[s].parse = "PARSED")
        BY <4>1 DEF Usable, IgnoredInv, UndisturbedInv, UnreadIsUntouched
      <4>2. CASE Doing(w, "DECIDE") /\ calls[w].sms = s /\ fs[s] = calls[w].facts
        <5>1. WorkIsFair(w, s)
          BY <4>2 DEF IgnoredInv, WorksOn, Doing
        <5> QED
          BY <4>2, <5>1 DEF WorkIsFair, Doing
      <4> QED
        BY <2>2, <3>3, <4>1, <4>2 DEF Sourced
    <3>4. ASSUME s \in S, smsLogs'[s].match = "IGNORED"
          PROVE  ~PassesGuards(fs[s])
      <4>1. dec[s] \in Decisions(fs[s]) /\ StatusFor(dec[s].result) = "IGNORED"
        BY <2>2, <3>1, <3>4 DEF Applied
      <4>2. DecisionOK(dec[s])
        BY <4>1, DecisionsOK DEF TypeOK
      <4>3. dec[s].result = "GUARD_REJECTED"
        BY <4>1, <4>2 DEF StatusFor, DecisionOK
      <4> QED
        BY <4>1, <4>3 DEF Decisions, Decide, ExactPass, HeuristicPass, Verified, Review,
           Duplicate, Unmatched
    <3> QED
      BY <3>1, <3>2, <3>3, <3>4
  <2> QED
    BY <1>0, <2>1, <2>2, ReverseSourced, ForwardSourced
<1>4. \A s \in SmsLogs : Unread(s)' => Unread(s)
  BY <1>2, <1>3 DEF Unread, Doing
<1>5. ASSUME NEW s \in SmsLogs, WorksOn(w, s)'
      PROVE  FairlyOn(w, s)
  <2>1. MatchBySms(w)
    BY <1>5, <1>0 DEF ReverseMatchOrder, Goto, Idle, WorksOn
  <2>2. calls[w].op = "DECIDE" /\ calls[w].sms \in SmsLogs
    BY <1>0, <2>1 DEF MatchBySms, Doing, Call
  <2>3. PICK status : /\ Return(w, status)
                      /\ status = "IGNORED" => ~Usable(calls[w].sms)
    <3>1. WorkIsFair(w, calls[w].sms)
      BY <2>2 DEF IgnoredInv, WorksOn
    <3>2. ASSUME NEW d \in Decisions(calls[w].facts), StatusFor(d.result) = "IGNORED"
          PROVE  ~Usable(calls[w].sms)
      <4>1. DecisionOK(d)
        BY DecisionsOK DEF TypeOK
      <4>2. d.result = "GUARD_REJECTED"
        BY <3>2, <4>1 DEF StatusFor, DecisionOK
      <4>3. ~PassesGuards(calls[w].facts)
        BY <4>2 DEF Decisions, Decide, ExactPass, HeuristicPass, Verified, Review, Duplicate,
           Unmatched
      <4> QED
        BY <2>2, <3>1, <4>3 DEF WorkIsFair
    <3>3. smsLogs[calls[w].sms].match = "IGNORED" => ~Usable(calls[w].sms)
      BY <2>2 DEF IgnoredInv
    <3> QED
      BY <2>1, <3>2, <3>3 DEF MatchBySms, RunOnce
  <2>4. /\ calls'[w] = [op |-> "SETTLE", sms |-> calls[w].sms, status |-> status]
        /\ calls[w].sms = s
    BY <1>0, <1>5, <2>3 DEF Return, Goto, WorksOn, Idle
  <2>5. ~Unread(s)
    BY <2>2, <2>4 DEF IgnoredInv, WorksOn, WorkIsFair
  <2> QED
    BY <2>3, <2>4, <2>5 DEF FairlyOn
<1> QED
  BY <1>1, <1>2, <1>3, <1>4, <1>5 DEF KeepsUse

(* What every other step but Parse leaves of the SMS and of the workers.   *)
LEMMA OthersKeepUse ==
    ASSUME TypeOK, UndisturbedInv, IgnoredInv, [UndisturbedNext /\ RescansRead]_vars,
           \A w \in Workers : /\ \A x \in Extractions : ~Parse(w, x)
                              /\ ~ReverseMatchOrder(w) /\ ~MatchBySms(w)
    PROVE  KeepsUse
<1>0. calls \in [Workers -> Call] /\ smsLogs \in [SmsLogs -> SmsRow]
  BY DEF TypeOK
<1>1. ASSUME NEW w \in Workers, UNCHANGED <<company, device, smsLogs>>,
             \A v \in Workers \ {w} : calls'[v] = calls[v], calls'[w].op # "PARSE",
             \A s \in SmsLogs : WorksOn(w, s)' => FairlyOn(w, s)
      PROVE  KeepsUse
  <2>1. \A s \in SmsLogs : Unread(s)' => Unread(s)
    BY <1>1 DEF Unread, Doing
  <2>2. ASSUME NEW v \in Workers, calls'[v] # calls[v]
        PROVE  \A s \in SmsLogs : WorksOn(v, s)' => FairlyOn(v, s)
    BY <1>1, <2>2
  <2> QED
    BY <1>1, <2>1, <2>2 DEF KeepsUse
<1>2. ASSUME UNCHANGED <<company, device, smsLogs, calls>>
      PROVE  KeepsUse
  BY <1>2 DEF KeepsUse, Unread, Doing
<1>3. CASE UNCHANGED vars
  BY <1>2, <1>3 DEF vars
<1>4. ASSUME NEW w \in Workers, NEW o \in Orders, NEW r \in Requests, Register(w, o, r)
      PROVE  KeepsUse
  <2>1. /\ calls'[w].op = "REVERSE" /\ \A v \in Workers \ {w} : calls'[v] = calls[v]
        /\ UNCHANGED <<company, device, smsLogs>>
    BY <1>0, <1>4 DEF Register, Goto
  <2> QED
    BY <1>1, <2>1 DEF WorksOn
<1>5. ASSUME NEW w \in Workers, NEW s \in SmsLogs, BeginIngest(w, s)
      PROVE  KeepsUse
  <2>1. /\ calls'[w] = [op |-> "PARSE", sms |-> s]
        /\ \A v \in Workers \ {w} : calls'[v] = calls[v]
        /\ smsLogs[s].match = "ABSENT" /\ smsLogs'[s] = [smsLogs[s] EXCEPT !.match = "UNMATCHED"]
        /\ \A r \in SmsLogs : r # s => smsLogs'[r] = smsLogs[r]
        /\ company' = company /\ device' = device
    BY <1>0, <1>5 DEF BeginIngest, Goto
  <2>2. smsLogs[s] \in SmsRow
    BY <1>0
  <2>3. /\ smsLogs'[s].match = "UNMATCHED" /\ smsLogs'[s].parse = smsLogs[s].parse
        /\ smsLogs'[s].trx = smsLogs[s].trx /\ smsLogs'[s].amount = smsLogs[s].amount
    BY <2>1, <2>2 DEF SmsRow
  <2>4. \A r \in SmsLogs : Unread(r)' => Unread(r)
    BY <2>1 DEF Unread, Doing
  <2>5. \A v \in Workers : calls'[v] # calls[v] => \A r \in SmsLogs : ~WorksOn(v, r)'
    BY <2>1 DEF WorksOn
  <2> QED
    BY <2>1, <2>3, <2>4, <2>5 DEF KeepsUse
<1>6. ASSUME NEW w \in Workers, LoadSmsFacts(w)
      PROVE  KeepsUse
  <2> DEFINE s == calls[w].sms
  <2>1. /\ calls'[w] = [op |-> "DECIDE", sms |-> s, upload |-> calls[w].upload, facts |-> FactsOf(s)]
        /\ \A v \in Workers \ {w} : calls'[v] = calls[v]
        /\ UNCHANGED <<company, device, smsLogs>>
    BY <1>0, <1>6 DEF LoadSmsFacts, Goto
  <2>2. calls[w].op = "MATCH"
    BY <1>6 DEF LoadSmsFacts, Doing
  <2>3. ASSUME NEW r \in SmsLogs, WorksOn(w, r)'
        PROVE  FairlyOn(w, r)
    <3>1. r = s /\ calls'[w].op = "DECIDE" /\ calls'[w].facts = FactsOf(r)
      BY <2>1, <2>3 DEF WorksOn
    <3>2. ~Unread(r)
      BY <2>2, <3>1 DEF IgnoredInv, WorksOn, WorkIsFair
    <3> QED
      BY <3>1, <3>2 DEF FairlyOn, Usable
  <2> QED
    BY <1>1, <2>1, <2>3
<1>7. ASSUME NEW w \in Workers, SettleUpload(w)
      PROVE  KeepsUse
  <2> DEFINE s == calls[w].sms
  <2>0. calls[w].op = "SETTLE" /\ s \in SmsLogs
    BY <1>0, <1>7 DEF SettleUpload, Doing, Call
  <2>1. /\ calls'[w] = Idle
        /\ \A v \in Workers \ {w} : calls'[v] = calls[v]
        /\ smsLogs'[s] = [smsLogs[s] EXCEPT !.match = calls[w].status]
        /\ \A r \in SmsLogs : r # s => smsLogs'[r] = smsLogs[r]
        /\ company' = company /\ device' = device
    BY <1>0, <1>7, <2>0 DEF SettleUpload, Goto
  <2>2. smsLogs[s] \in SmsRow
    BY <1>0, <2>0
  <2>3. /\ smsLogs'[s].match = calls[w].status /\ smsLogs'[s].parse = smsLogs[s].parse
        /\ smsLogs'[s].trx = smsLogs[s].trx /\ smsLogs'[s].amount = smsLogs[s].amount
    BY <2>1, <2>2 DEF SmsRow
  <2>4. ~Unread(s) /\ (calls[w].status = "IGNORED" => ~Usable(s))
    BY <2>0 DEF IgnoredInv, WorksOn, WorkIsFair
  <2>5. calls[w].status # "ABSENT"
    BY <2>0 DEF UndisturbedInv, SettlesQueued, Doing
  <2>6. \A r \in SmsLogs : Unread(r)' => Unread(r)
    <3>1. smsLogs'[s].match # "ABSENT" /\ smsLogs[s].match # "ABSENT"
      BY <2>0, <2>3, <2>5 DEF UndisturbedInv, WorksOnStored
    <3>2. \A v \in Workers : calls'[v].op = "PARSE" => calls'[v] = calls[v]
      BY <2>1 DEF Idle
    <3> QED
      BY <2>1, <3>1, <3>2 DEF Unread, Doing
  <2>7. \A v \in Workers : calls'[v] # calls[v] => \A r \in SmsLogs : ~WorksOn(v, r)'
    BY <2>1 DEF WorksOn, Idle
  <2> QED
    BY <2>1, <2>3, <2>4, <2>6, <2>7 DEF KeepsUse
<1>8. ASSUME NEW w \in Workers, NEW s \in SmsLogs, BeginRescan(w, s), RescansRead
      PROVE  KeepsUse
  <2>1. ~Unread(s)
    BY <1>8 DEF RescansRead
  <2>2. /\ calls'[w] = [op |-> "MATCH", sms |-> s, upload |-> FALSE]
        /\ \A v \in Workers \ {w} : calls'[v] = calls[v]
        /\ UNCHANGED <<company, device, smsLogs>>
    BY <1>0, <1>8 DEF BeginRescan, Goto
  <2>3. \A r \in SmsLogs : WorksOn(w, r)' => FairlyOn(w, r)
    BY <2>1, <2>2 DEF WorksOn, FairlyOn
  <2> QED
    BY <1>1, <2>2, <2>3
<1>9. ASSUME NEW w \in Workers, NEW o \in Orders, BeginSweep(w, o)
      PROVE  KeepsUse
  <2>1. /\ calls'[w].op = "EXPIRE" /\ \A v \in Workers \ {w} : calls'[v] = calls[v]
        /\ UNCHANGED <<company, device, smsLogs>>
    BY <1>0, <1>9 DEF BeginSweep, Goto
  <2> QED
    BY <1>1, <2>1 DEF WorksOn
<1>10. ASSUME NEW w \in Workers, Expire(w)
      PROVE  KeepsUse
  <2>1. /\ calls'[w].op = "IDLE" /\ \A v \in Workers \ {w} : calls'[v] = calls[v]
        /\ UNCHANGED <<company, device, smsLogs>>
    BY <1>0, <1>10 DEF Expire, Goto, Idle
  <2> QED
    BY <1>1, <2>1 DEF WorksOn
<1>11. ASSUME NEW o \in Orders, Age(o)
      PROVE  KeepsUse
  BY <1>2, <1>11 DEF Age
<1> QED
  BY <1>3, <1>4, <1>5, <1>6, <1>7, <1>8, <1>9, <1>10, <1>11
     DEF UndisturbedNext, DeviceStep, JobStep

(* Were the rescan to take only SMS whose text has been read, undisturbed  *)
(* operation would leave no usable SMS IGNORED.                            *)
THEOREM UsableIsNotIgnored == ReadFirstSpec => []ReparsedReentersMatching
<1>1. Init => IgnoredInv
  BY DEF Init, IgnoredInv, NoSms, WorksOn, Idle
<1>2. ASSUME TypeOK, UndisturbedInv, IgnoredInv, [UndisturbedNext /\ RescansRead]_vars
      PROVE  IgnoredInv'
  <2>1. CASE \E w \in Workers, x \in Extractions : Parse(w, x)
    BY <1>2, <2>1, ParseUses
  <2>2. CASE \E w \in Workers : ReverseMatchOrder(w) \/ MatchBySms(w)
    BY <1>2, <2>2, MatchingUses, UseKept
  <2>3. CASE /\ \A w \in Workers, x \in Extractions : ~Parse(w, x)
             /\ \A w \in Workers : ~ReverseMatchOrder(w) /\ ~MatchBySms(w)
    BY <1>2, <2>3, OthersKeepUse, UseKept
  <2> QED
    BY <2>1, <2>2, <2>3
<1>3. IgnoredInv => ReparsedReentersMatching
  BY DEF IgnoredInv, ReparsedReentersMatching, Usable
<1>4. ReadFirstSpec => UndisturbedSpec
  <2>1. [UndisturbedNext /\ RescansRead]_vars => [UndisturbedNext]_vars
    OBVIOUS
  <2> QED
    BY <2>1, PTL DEF ReadFirstSpec, UndisturbedSpec
<1>5. TypeOK /\ LedgerInv /\ UndisturbedInv /\ IgnoredInv /\ [UndisturbedNext /\ RescansRead]_vars
         => IgnoredInv'
  BY <1>2
<1> QED
  BY <1>1, <1>3, <1>4, <1>5, UndisturbedInvariant, PTL DEF ReadFirstSpec
=============================================================================
