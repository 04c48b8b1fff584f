------------------------------ MODULE Matching ------------------------------
(***************************************************************************)
(* The pure decision core of the matching engine                           *)
(* (apps/api/src/modules/matching/core): hard guards, future-timestamp     *)
(* review, exact-TrxID pass, heuristic pass.  No state: every operator maps *)
(* facts to the set of decisions the code may return for them.  The set    *)
(* has more than one element only where the code's answer depends on data  *)
(* that is abstracted here (scores, time windows, senders, providers).     *)
(***************************************************************************)
EXTENDS Integers

CONSTANTS
    None,             \* the null of an optional column
    LateMatchGrace    \* settings.late_match_grace_hours, in units of lateness

ASSUME LateMatchGraceAssumption == LateMatchGrace \in Nat

OrderStatus  == {"ABSENT", "PENDING", "VERIFIED", "EXPIRED", "CANCELLED"}
MatchStatus  == {"ABSENT", "UNMATCHED", "MATCHED", "IN_REVIEW", "DUPLICATE_TXN", "IGNORED"}
ParseStatus  == {"UNPARSED", "IGNORED", "PARSED"}
CompanyStatus == {"ACTIVE", "SUSPENDED", "DISABLED"}
DeviceStatus == {"ACTIVE", "BLOCKED", "RETIRED"}
AutoMethods  == {"EXACT_TXN_ID", "HEURISTIC_AMOUNT_WINDOW"}

-----------------------------------------------------------------------------
(* Decisions.  `order` is the order a VERIFIED decision credits, or the    *)
(* single order a REVIEW names; None when a review names none or several.  *)

Verified(o, method) == [result |-> "VERIFIED", order |-> o, method |-> method]
Review(o)      == [result |-> "REVIEW", order |-> o, method |-> None]
Duplicate      == [result |-> "DUPLICATE", order |-> None, method |-> None]
GuardRejected  == [result |-> "GUARD_REJECTED", order |-> None, method |-> None]
Unmatched      == [result |-> "UNMATCHED", order |-> None, method |-> None]

(* The sms_logs.match_status a decision leaves behind.                     *)
StatusFor(result) ==
    CASE result = "VERIFIED"       -> "MATCHED"
      [] result = "REVIEW"         -> "IN_REVIEW"
      [] result = "DUPLICATE"      -> "DUPLICATE_TXN"
      [] result = "GUARD_REJECTED" -> "IGNORED"
      [] result = "UNMATCHED"      -> "UNMATCHED"

-----------------------------------------------------------------------------
Within(expected, received, tolerance) ==
    received - expected \in -tolerance .. tolerance

(* Mutant of CompareAmount: the operands of the last comparison swapped.   *)
CompareAmountSwapped(expected, received, tolerance) ==
    IF Within(expected, received, tolerance) THEN "WITHIN"
    ELSE IF expected > received THEN "OVERPAID" ELSE "UNDERPAID"

(* Integer paisa; the tolerance boundary is inclusive.                     *)
CompareAmount(expected, received, tolerance) ==
    IF Within(expected, received, tolerance) THEN "WITHIN"
    ELSE IF received > expected THEN "OVERPAID" ELSE "UNDERPAID"

(* Mutant of IsEligible: an EXPIRED order is revived at the end of its     *)
(* grace window.                                                           *)
IsEligibleInclusive(order) ==
    \/ order.status = "PENDING"
    \/ order.status = "EXPIRED" /\ order.lateness <= LateMatchGrace

(* A PENDING order whatever the clock says (the sweep may lag), an EXPIRED *)
(* one strictly inside the grace window, no other.                         *)
IsEligible(order) ==
    \/ order.status = "PENDING"
    \/ order.status = "EXPIRED" /\ order.lateness < LateMatchGrace

(* An SMS may enter the passes.  A provider outside the allowed list and a *)
(* debit or informational message are both folded into parse = "IGNORED".  *)
PassesGuards(facts) ==
    /\ facts.company # "DISABLED"
    /\ facts.device = "ACTIVE"
    /\ facts.sms.parse = "PARSED"
    /\ facts.sms.amount > 0

(* loadExactCandidates: the orders, not yet verified nor cancelled, that   *)
(* claim the message's TrxID.                                              *)
ExactCandidates(sms, orders) ==
    {o \in DOMAIN orders : /\ sms.trx # None
                           /\ orders[o].trx = sms.trx
                           /\ orders[o].status \in {"PENDING", "EXPIRED"}}

(* The exact-TrxID pass: at most one decision; none is the code's null,    *)
(* the fall-through to the heuristic pass.                                 *)
ExactPass(sms, orders, spent, tolerance) ==
    LET eligible == {o \in ExactCandidates(sms, orders) : IsEligible(orders[o])}
        alone == {o \in eligible : eligible = {o}}
        short == {o \in alone :
                     CompareAmount(orders[o].amount, sms.amount, tolerance) = "UNDERPAID"}
    IN  {Review(o) : o \in short}
          \cup {Verified(o, "EXACT_TXN_ID") : o \in alone \ short}
          \cup {Review(None) : o \in eligible \ alone}
          \cup {d \in {Duplicate} : eligible = {} /\ sms.trx # None /\ spent}

(* The heuristic pass.  Which orders of the pool fall in the time window   *)
(* and pass the sender and provider filters, and how they score, is left   *)
(* open: any of the pool may be verified, or reviewed alone, or with       *)
(* others, or the window may hold none.                                    *)
HeuristicPool(sms, orders, tolerance) ==
    {o \in DOMAIN orders : /\ orders[o].status = "PENDING"
                           /\ orders[o].trx = None
                           /\ Within(orders[o].amount, sms.amount, tolerance)}

HeuristicPass(sms, orders, tolerance) ==
    LET pool == HeuristicPool(sms, orders, tolerance)
    IN  {Unmatched}
          \cup {Verified(o, "HEURISTIC_AMOUNT_WINDOW") : o \in pool}
          \cup {Review(o) : o \in pool}
          \cup {Review(None) : o \in {p \in pool : pool # {p}}}

(* decide(): guards, then the future-timestamp review, then the passes.    *)
(* The clock is abstract, so an SMS dated ahead of it may or may not still *)
(* be ahead when it is decided.                                            *)
Decide(facts, orders, spent, tolerance, heuristicEnabled) ==
    LET exact == ExactPass(facts.sms, orders, spent, tolerance)
        passes == IF exact # {} THEN exact
                  ELSE IF heuristicEnabled THEN HeuristicPass(facts.sms, orders, tolerance)
                  ELSE {Unmatched}
    IN  IF ~PassesGuards(facts) THEN {GuardRejected}
        ELSE passes \cup {d \in {Review(None)} : facts.sms.ahead}
=============================================================================
