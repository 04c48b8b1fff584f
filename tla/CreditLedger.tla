---------------------------- MODULE CreditLedger ----------------------------
(***************************************************************************)
(* What the whole verification engine promises about money, with none of   *)
(* its machinery: a ledger of credits, each tying one order to one SMS.    *)
(* A step books at most one credit, on an order and an SMS that have none, *)
(* and marks the order settled; only an administrator's void removes one.  *)
(* An order is settled only while it is credited, but the code lets a      *)
(* credited order stop being settled (a cancellation or a correction whose *)
(* check ran before the verification): that is Unsettle.                   *)
(***************************************************************************)
CONSTANTS Orders, SmsLogs

VARIABLES
    credits,   \* set of <<order, sms>>
    settled    \* orders the client sees as VERIFIED

vars == <<credits, settled>>

Init == credits = {} /\ settled = {}

Credit(o, s) ==
    /\ \A c \in credits : c[1] # o /\ c[2] # s
    /\ credits' = credits \cup {<<o, s>>}
    /\ settled' = settled \cup {o}

Void(o, s) ==
    /\ <<o, s>> \in credits
    /\ credits' = credits \ {<<o, s>>}
    /\ settled' = settled \ {o}

Unsettle(o) ==
    /\ o \in settled
    /\ settled' = settled \ {o}
    /\ UNCHANGED credits

Next ==
    \/ \E o \in Orders, s \in SmsLogs : Credit(o, s) \/ Void(o, s)
    \/ \E o \in Orders : Unsettle(o)

Spec == Init /\ [][Next]_vars
=============================================================================
