------------------------- MODULE MCHeuristicScoring -------------------------
(* Small instances of the heuristic pass for TLC.  Times are minutes.      *)
EXTENDS HeuristicScoring, TLC

CONSTANTS bkash, nagad, alice

ASSUME SomeNamesAssumption == {bkash, nagad} \subseteq ProviderNames /\ alice \in Msisdns

(* Both amounts within the tolerance, created inside and at the edge of    *)
(* the window.                                                             *)
SomeCandidates ==
    [amount : {100, 102}, tolerance : {4}, created : {0, 15},
     provider : {None, bkash, nagad}, sender : {None, alice}]

SomeMessages ==
    [amount : {100}, at : {20}, provider : {bkash}, sender : {None, alice}]
    \cup [amount : {100}, at : {0}, provider : {bkash}, sender : {alice}]

SomeSettings ==
    [window : {30}, requireSender : BOOLEAN, threshold : {50, 71}]

EarlyMessages == [amount : {100}, at : {-10}, provider : {bkash}, sender : {alice}]
PlainCandidates ==
    [amount : {100}, tolerance : {4}, created : {0}, provider : {bkash}, sender : {alice}]
DefaultSettings == [window : {30}, requireSender : {FALSE}, threshold : {90}]
=============================================================================
