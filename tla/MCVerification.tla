--------------------------- MODULE MCVerification ---------------------------
(* Small instances of the verification engine for TLC.                     *)
EXTENDS Verification, TLC

CONSTANTS t1, t2

Symmetric == Permutations(Orders) \cup Permutations(SmsLogs) \cup Permutations(Workers)

(* An order naming a TrxID, and one left to the heuristic.                 *)
ExactRequest == [trx |-> t1, amount |-> 2]
OtherRequest == [trx |-> t2, amount |-> 2]
OpenRequest  == [trx |-> None, amount |-> 2]

Paid      == [parse |-> "PARSED", trx |-> t1, amount |-> 2, ahead |-> FALSE]
PaidAhead == [Paid EXCEPT !.ahead = TRUE]
Short     == [Paid EXCEPT !.amount = 1]
Garbled   == [parse |-> "UNPARSED", trx |-> None, amount |-> 0, ahead |-> FALSE]

ExactOnly  == {ExactRequest}
AnyRequest == {ExactRequest, OtherRequest, OpenRequest}
BothModes  == {ExactRequest, OpenRequest}
PaidOnly   == {Paid}
PaidShortOrAhead == {Paid, Short, PaidAhead}
PaidOrGarbled == {Paid, Garbled}

-----------------------------------------------------------------------------
(* Parts of the next-state relation, for instances too large to explore    *)
(* under all of it.                                                        *)

(* Merchants, devices and jobs, with voids and crashes.                    *)
PaymentNext ==
    \/ \E w \in Workers : MerchantStep(w) \/ DeviceStep(w) \/ JobStep(w) \/ Crash(w)
    \/ \E v \in verified : VoidVerification(v)
    \/ \E o \in Orders : Age(o)

PaymentSpec == Init /\ [][PaymentNext]_vars

(* Uploads, rescans and registrations against the review queue and the     *)
(* voids.                                                                  *)
ReviewNext ==
    \/ \E w \in Workers :
          \/ \E o \in Orders, r \in Requests : Register(w, o, r)
          \/ ReverseMatchOrder(w) \/ DeviceStep(w) \/ ReviewStep(w)
          \/ \E s \in SmsLogs : BeginRescan(w, s)
    \/ \E v \in verified : VoidVerification(v)

(* Every administrator: statuses of company and device, reviews, voids and *)
(* re-parses.  No guard tells a BLOCKED device from a RETIRED one.         *)
AdminNext ==
    \/ ReviewNext
    \/ \E w \in Workers : ReparseStep(w)
    \/ \E status \in CompanyStatus : SetCompanyStatus(status)
    \/ \E status \in {"ACTIVE", "RETIRED"} : SetDeviceStatus(status)

(* Uploads, rescans and re-parses, with no dismissal and no change of the  *)
(* company's or the device's status.                                       *)
ParserNext ==
    \/ \E w \in Workers :
          \/ \E o \in Orders, r \in Requests : Register(w, o, r)
          \/ ReverseMatchOrder(w) \/ DeviceStep(w) \/ ReparseStep(w)
          \/ \E s \in SmsLogs : BeginRescan(w, s)

ParserSpec == Init /\ [][ParserNext]_vars
=============================================================================
