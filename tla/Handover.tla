------------------------------ MODULE Handover -------------------------------
(***************************************************************************)
(* What the phone and the server promise about a payment message: the      *)
(* phone keeps it until the server holds it, and the server never lets go. *)
(***************************************************************************)
CONSTANT Texts

VARIABLES
    kept,     \* messages the phone would still upload
    stored    \* messages in the server's sms_logs

handoverVars == <<kept, stored>>

HandoverInit == kept = {} /\ stored = {}

(* The phone receives messages, or takes up again what it had settled: a   *)
(* drainer marks its whole batch at once.                                  *)
Keep(M) == kept' = kept \cup M /\ UNCHANGED stored

Store(m) == m \in kept /\ stored' = stored \cup {m} /\ UNCHANGED kept

Release(m) == m \in kept \cap stored /\ kept' = kept \ {m} /\ UNCHANGED stored

HandoverNext ==
    \/ \E M \in SUBSET Texts : Keep(M)
    \/ \E m \in Texts : Store(m) \/ Release(m)

HandoverSpec == HandoverInit /\ [][HandoverNext]_handoverVars
=============================================================================
