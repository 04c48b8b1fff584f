------------------------------- MODULE MCReviews -------------------------------
(* The verification engine for TLC, in three scopes: merchants, devices    *)
(* and jobs on orders that name their TrxIDs; two orders and the           *)
(* reviewers; one order that names its TrxID and every administrator.      *)
EXTENDS MCVerification, FiniteSets

VARIABLE scope

reviewVars == <<vars, scope>>

(* The merchants' orders all name a TrxID, not both of them one that no    *)
(* message has, and their one message is Paid.                             *)
MerchantScope ==
    /\ \A o \in Orders : orders'[o].status # "ABSENT" => orders'[o].trx # None
    /\ Cardinality({o \in Orders : orders'[o].trx = t2}) <= 1
    /\ \A s \in SmsLogs :
          smsLogs'[s].parse = "PARSED" => smsLogs'[s].amount = Paid.amount /\ ~smsLogs'[s].ahead
    /\ \A slot \in DOMAIN reviews : reviews'[slot].rows <= 1

(* The reviewers' name one TrxID or none.                                  *)
ReviewScope == \A o \in Orders : orders'[o].trx # t2

(* What the last scope leaves out of the second: other orders, messages    *)
(* dated ahead, and a second row in a review slot.  While the company is   *)
(* not ACTIVE nobody sets its device.                                      *)
SmallScope ==
    /\ company' # "ACTIVE" => device' = IF company' = "DISABLED" THEN "RETIRED" ELSE "ACTIVE"
    /\ Cardinality({o \in Orders : orders'[o].status # "ABSENT"}) <= 1
    /\ \A o \in Orders : orders'[o].status # "ABSENT" => orders'[o].trx = t1
    /\ \A s \in SmsLogs : ~smsLogs'[s].ahead
    /\ \A slot \in DOMAIN reviews : reviews'[slot].rows <= 1

ScopesInit == Init /\ scope \in {"MERCHANTS", "REVIEWERS", "ADMINISTRATORS"}

ScopesNext ==
    /\ \/ scope = "MERCHANTS" /\ PaymentNext /\ MerchantScope
       \/ scope = "REVIEWERS" /\ ReviewNext /\ ReviewScope
       \/ scope = "ADMINISTRATORS" /\ AdminNext /\ SmallScope
    /\ UNCHANGED scope

ScopesSpec == ScopesInit /\ [][ScopesNext]_reviewVars
=============================================================================
