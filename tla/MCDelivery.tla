----------------------------- MODULE MCDelivery ------------------------------
(* The two deliverers of the system under their fairness: messages from    *)
(* the phone to the server, events from the server to the merchant.  They  *)
(* share no state, so an instance runs one of them and leaves the other at *)
(* rest.  WorkManager runs enqueued and periodic work again and again, the *)
(* sweeper ticks every minute, a worker that runs and its request move on, *)
(* and time passes: that is the fairness.                                  *)
EXTENDS SyncEngine, WebhookDelivery

VARIABLE delivering

(* An upload is refused for the company's or the device's sake, or because *)
(* it is too large; what the framework and the database throw is the same  *)
(* to the phone as the last.                                               *)
SomeRefusals ==
    {[type |-> "APP", code |-> "COMPANY_SUSPENDED"], [type |-> "HTTP", status |-> 413],
     [type |-> "CONSTRAINT"], [type |-> "OTHER"]}

vars == <<syncVars, deliveryVars, delivering>>

Uploading(A) == delivering = "SMS" /\ A /\ UNCHANGED <<deliveryVars, delivering>>
Notifying(A) == delivering = "WEBHOOK" /\ A /\ UNCHANGED <<syncVars, delivering>>

Init == delivering \in {"SMS", "WEBHOOK"} /\ SyncInit /\ DeliveryInit
UploadInit == delivering = "SMS" /\ SyncInit /\ DeliveryInit
NotifyInit == delivering = "WEBHOOK" /\ SyncInit /\ DeliveryInit

Next == Uploading(SyncNext) \/ Notifying(DeliveryNext)

Fairness ==
    /\ WF_vars(Uploading(StartUpload))
    /\ "RECONCILE" \in Drainers => WF_vars(Uploading(StartSync("RECONCILE")))
    /\ \A d \in Drainers : WF_vars(Uploading(DrainStep(d) \/ ServerStep(d)))
    /\ WF_vars(Uploading(TimePasses))
    /\ \A s \in Senders : WF_vars(Notifying(SenderStep(s)))
    /\ \A e \in Events : WF_vars(Notifying(Elapse(e)))

Spec == Init /\ [][Next]_vars /\ Fairness

(* One of the two alone.                                                   *)
UploadSpec == UploadInit /\ [][Next]_vars
NotifySpec == NotifyInit /\ [][Next]_vars /\ Fairness
=============================================================================
