--------------------------- MODULE WebhookDelivery ---------------------------
(***************************************************************************)
(* Delivery of webhook events to one merchant's endpoint.  Sweeps may      *)
(* overlap (several worker processes, or a tick longer than its period),   *)
(* and every write of a sender is an update by id from what it read before *)
(* the request: nothing re-checks the row.  An action is one database      *)
(* statement, except that sending a request and recording it is one step,  *)
(* since the request changes no row of its own.                            *)
(***************************************************************************)
EXTENDS Naturals, FiniteSets

CONSTANTS
    Events, Senders,
    WebhookMaxAttempts,       \* settings.webhook_max_attempts
    ScheduleLength,    \* entries of SCHEDULE_MS
    HourlyFrom,        \* the first attempt whose base delay is an hour or more
    BreakerThreshold,
    Answers,           \* what the endpoint, or the way to it, may answer
    RetryAfters,       \* Retry-After headers, as a due time; "UNSET" for none
    MaxRedeliveries    \* bound: retries and replays by administrators

AllAnswers == {"2XX", "3XX", "410", "BUSY", "4XX", "5XX", "TRANSPORT", "UNSAFE"}
ServiceStatus == {"ACTIVE", "SUSPENDED", "DISABLED"}

(* next_attempt_at relative to the clock: unset, due, due within the hour, *)
(* due in an hour or more.                                                 *)
Due == {"UNSET", "NOW", "SOON", "HOUR"}

ASSUME DeliveryAssumption ==
    /\ WebhookMaxAttempts \in Nat \ {0} /\ ScheduleLength \in Nat \ {0}
    /\ HourlyFrom \in Nat /\ BreakerThreshold \in Nat \ {0}
    /\ MaxRedeliveries \in Nat
    /\ Answers \subseteq AllAnswers
    /\ RetryAfters \subseteq Due /\ "UNSET" \in RetryAfters

VARIABLES
    endpoint,      \* the columns of companies: status, failures, breaker
    events,        \* webhook_events
    deliveries,    \* webhook_deliveries, per event
    senders,       \* sweeps in flight, each with the event it is delivering
    redeliveries   \* how often administrators requeued an event

deliveryVars == <<endpoint, events, deliveries, senders, redeliveries>>

-----------------------------------------------------------------------------
EventStatus == {"PENDING", "DELIVERED", "FAILED", "DEAD", "CANCELLED"}
EventRow == [status : EventStatus \cup {"ABSENT"}, callback : BOOLEAN,
             paused : BOOLEAN, attempts : Nat, next : Due]
DeliveryRow == [no : Nat \ {0}, answer : AllAnswers]

(* What a sweep remembers: the events it listed and, for the one it is     *)
(* delivering, the attempt number and breaker state it read.               *)
Sender ==
    [step : {"IDLE"}]
    \cup [step : {"SWEEP", "COUNT", "OPEN", "CLOSE"}, todo : SUBSET Events]
    \cup [step : {"HOLD", "REFUSE"}, todo : SUBSET Events, event : Events]
    \cup [step : {"SEND"}, todo : SUBSET Events, event : Events,
          attempt : Nat \ {0}, slow : BOOLEAN]
    \cup [step : {"APPLY"}, todo : SUBSET Events, event : Events,
          attempt : Nat \ {0}, slow : BOOLEAN, answer : AllAnswers, after : Due]

Resting == [step |-> "IDLE"]
NoEvent == [status |-> "ABSENT", callback |-> FALSE, paused |-> FALSE,
            attempts |-> 0, next |-> "UNSET"]

At(s, step) == senders[s].step = step
Move(s, state) == senders' = [senders EXCEPT ![s] = state]
Sweeping(todo) == [step |-> "SWEEP", todo |-> todo]

(* Redirects are not followed; 408, 425 and 429 are "BUSY".                *)
Classify(answer) ==
    CASE answer = "2XX" -> "DELIVERED"
      [] answer \in {"3XX", "4XX", "UNSAFE"} -> "FAILED"
      [] answer = "410" -> "CANCELLED"
      [] OTHER -> "RETRY"

BaseDelay(attempt) ==
    IF attempt > ScheduleLength THEN "UNSET"
    ELSE IF attempt >= HourlyFrom THEN "HOUR" ELSE "SOON"

(* Mutant of NextAttemptAt: one attempt too many.                          *)
NextAttemptInclusive(attempt, slow) ==
    IF attempt > WebhookMaxAttempts \/ BaseDelay(attempt) = "UNSET" THEN "UNSET"
    ELSE IF slow THEN "HOUR" ELSE BaseDelay(attempt)

(* The next attempt after this one, "UNSET" when the budget is spent; an   *)
(* open breaker spaces attempts by an hour.                                *)
NextAttemptAt(attempt, slow) ==
    IF attempt >= WebhookMaxAttempts \/ BaseDelay(attempt) = "UNSET" THEN "UNSET"
    ELSE IF slow THEN "HOUR" ELSE BaseDelay(attempt)

(* Retry-After is read only from an answer with headers.                   *)
RetryAfter(answer) == IF answer \in {"TRANSPORT", "UNSAFE"} THEN {"UNSET"} ELSE RetryAfters

-----------------------------------------------------------------------------
DeliveryInit ==
    /\ endpoint = [status |-> "ACTIVE", failures |-> 0, breaker |-> "CLOSED"]
    /\ events = [e \in Events |-> NoEvent]
    /\ deliveries = [e \in Events |-> {}]
    /\ senders = [s \in Senders |-> Resting]
    /\ redeliveries = 0

(* WebhookEventService.createInTx, in the transaction of the change the    *)
(* event announces.                                                        *)
CreateEvent(e, callback) ==
    /\ events[e].status = "ABSENT"
    /\ LET active == endpoint.status = "ACTIVE"
       IN  events' = [events EXCEPT ![e] =
              [status |-> IF callback THEN "PENDING" ELSE "CANCELLED",
               callback |-> callback,
               paused |-> callback /\ ~active,
               attempts |-> 0,
               next |-> IF callback /\ active THEN "NOW" ELSE "UNSET"]]
    /\ UNCHANGED <<endpoint, deliveries, senders, redeliveries>>

(* WebhookSweeperProcessor.tick: list what is due.                         *)
DueEvents == {e \in Events : events[e].status = "PENDING" /\ ~events[e].paused
                             /\ events[e].next = "NOW"}

Tick(s) ==
    /\ At(s, "IDLE") /\ DueEvents # {}
    /\ Move(s, Sweeping(DueEvents))
    /\ UNCHANGED <<endpoint, events, deliveries, redeliveries>>

EndTick(s) ==
    /\ At(s, "SWEEP") /\ senders[s].todo = {}
    /\ Move(s, Resting)
    /\ UNCHANGED <<endpoint, events, deliveries, redeliveries>>

(* deliverEvent reads the event and its company.  It does not look at      *)
(* next_attempt_at again.                                                  *)
ReadEvent(s, e) ==
    /\ At(s, "SWEEP") /\ e \in senders[s].todo
    /\ LET todo == senders[s].todo \ {e}
           deliver(step) == [step |-> step, todo |-> todo, event |-> e]
       IN  Move(s, IF events[e].status # "PENDING" \/ events[e].paused THEN Sweeping(todo)
                   ELSE IF endpoint.status # "ACTIVE" THEN deliver("HOLD")
                   ELSE IF ~events[e].callback THEN deliver("REFUSE")
                   ELSE [step |-> "SEND", todo |-> todo, event |-> e,
                         attempt |-> events[e].attempts + 1,
                         slow |-> endpoint.breaker = "OPEN"])
    /\ UNCHANGED <<endpoint, events, deliveries, redeliveries>>

(* Mutant of Hold: next_attempt_at is cleared, paused is forgotten.        *)
HoldUnpaused(s) ==
    /\ At(s, "HOLD")
    /\ events' = [events EXCEPT ![senders[s].event].next = "UNSET"]
    /\ Move(s, Sweeping(senders[s].todo))
    /\ UNCHANGED <<endpoint, deliveries, redeliveries>>

(* The company was not ACTIVE: pause the event.                            *)
Hold(s) ==
    /\ At(s, "HOLD")
    /\ events' = [events EXCEPT ![senders[s].event].paused = TRUE,
                                ![senders[s].event].next = "UNSET"]
    /\ Move(s, Sweeping(senders[s].todo))
    /\ UNCHANGED <<endpoint, deliveries, redeliveries>>

(* The event has no callback: only a manual retry brings it here.          *)
Refuse(s) ==
    /\ At(s, "REFUSE")
    /\ events' = [events EXCEPT ![senders[s].event].status = "FAILED"]
    /\ Move(s, Sweeping(senders[s].todo))
    /\ UNCHANGED <<endpoint, deliveries, redeliveries>>

(* Mutant of Send: only what was delivered is recorded.                    *)
SendFailureUnrecorded(s, answer, after) ==
    /\ At(s, "SEND") /\ after \in RetryAfter(answer)
    /\ LET job == senders[s]
       IN  /\ deliveries' = IF Classify(answer) # "DELIVERED" THEN deliveries
                            ELSE [deliveries EXCEPT ![job.event] =
                                     @ \cup {[no |-> job.attempt, answer |-> answer]}]
           /\ Move(s, [step |-> "APPLY", todo |-> job.todo, event |-> job.event,
                       attempt |-> job.attempt, slow |-> job.slow,
                       answer |-> answer, after |-> after])
    /\ UNCHANGED <<endpoint, events, redeliveries>>

(* recordDelivery, in a transaction of its own before the outcome's.       *)
RecordDelivery(e, attempt, answer) ==
    deliveries' = [deliveries EXCEPT ![e] = @ \cup {[no |-> attempt, answer |-> answer]}]

(* The URL check and the request, recorded.                                *)
Send(s, answer, after) ==
    /\ At(s, "SEND") /\ after \in RetryAfter(answer)
    /\ LET job == senders[s]
       IN  /\ RecordDelivery(job.event, job.attempt, answer)
           /\ Move(s, [step |-> "APPLY", todo |-> job.todo, event |-> job.event,
                       attempt |-> job.attempt, slow |-> job.slow,
                       answer |-> answer, after |-> after])
    /\ UNCHANGED <<endpoint, events, redeliveries>>

(* Mutant of Outcome: the outcome is written as the status.                *)
OutcomeVerbatim(row, job) ==
    [row EXCEPT !.status = Classify(job.answer), !.attempts = job.attempt,
                !.next = NextAttemptAt(job.attempt, job.slow)]

(* The row applyOutcome writes, whatever the row has become meanwhile.     *)
Outcome(row, job) ==
    LET outcome == Classify(job.answer)
        next == NextAttemptAt(job.attempt, job.slow)
    IN  IF outcome # "RETRY"
        THEN [row EXCEPT !.status = outcome, !.attempts = job.attempt]
        ELSE [row EXCEPT
                !.status = IF next = "UNSET" THEN "DEAD" ELSE "PENDING",
                !.attempts = job.attempt,
                !.next = IF next # "UNSET" /\ job.after # "UNSET" THEN job.after ELSE next]

ApplyOutcome(s) ==
    /\ At(s, "APPLY")
    /\ LET job == senders[s]
           after == CASE Classify(job.answer) = "DELIVERED" -> "CLOSE"
                      [] Classify(job.answer) = "CANCELLED" -> "SWEEP"
                      [] OTHER -> "COUNT"
       IN  /\ events' = [events EXCEPT ![job.event] = Outcome(@, job)]
           /\ Move(s, [step |-> after, todo |-> job.todo])
    /\ UNCHANGED <<endpoint, deliveries, redeliveries>>

(* recordFailure: the atomic increment, then a second update if the row it *)
(* returned calls for it.  Failures beyond the threshold are not told      *)
(* apart: only "threshold or more" is ever asked of the counter.           *)
CountFailure(s) ==
    /\ At(s, "COUNT")
    /\ LET failures == endpoint.failures + 1
           trips == failures >= BreakerThreshold /\ endpoint.breaker # "OPEN"
       IN  /\ endpoint' = [endpoint EXCEPT !.failures = IF @ < BreakerThreshold THEN @ + 1 ELSE @]
           /\ Move(s, [step |-> IF trips THEN "OPEN" ELSE "SWEEP", todo |-> senders[s].todo])
    /\ UNCHANGED <<events, deliveries, redeliveries>>

OpenBreaker(s) ==
    /\ At(s, "OPEN")
    /\ endpoint' = [endpoint EXCEPT !.breaker = "OPEN"]
    /\ Move(s, Sweeping(senders[s].todo))
    /\ UNCHANGED <<events, deliveries, redeliveries>>

CloseBreaker(s) ==
    /\ At(s, "CLOSE")
    /\ endpoint' = [endpoint EXCEPT !.failures = 0, !.breaker = "CLOSED"]
    /\ Move(s, Sweeping(senders[s].todo))
    /\ UNCHANGED <<events, deliveries, redeliveries>>

(* The worker dies, or a statement of its sweep throws.                    *)
SenderCrash(s) ==
    /\ ~At(s, "IDLE")
    /\ Move(s, Resting)
    /\ UNCHANGED <<endpoint, events, deliveries, redeliveries>>

(* The clock.                                                              *)
Elapse(e) ==
    /\ events[e].next \in {"SOON", "HOUR"}
    /\ events' = [events EXCEPT ![e].next = IF @ = "HOUR" THEN "SOON" ELSE "NOW"]
    /\ UNCHANGED <<endpoint, deliveries, senders, redeliveries>>

SetServiceStatus(status) ==
    /\ status # endpoint.status
    /\ endpoint' = [endpoint EXCEPT !.status = status]
    /\ UNCHANGED <<events, deliveries, senders, redeliveries>>

(* POST /admin/webhooks/events/:id/retry, whatever the status.             *)
RetryEvent(e) ==
    /\ redeliveries < MaxRedeliveries /\ events[e].status # "ABSENT"
    /\ events' = [events EXCEPT ![e].status = "PENDING", ![e].next = "NOW", ![e].paused = FALSE]
    /\ redeliveries' = redeliveries + 1
    /\ UNCHANGED <<endpoint, deliveries, senders>>

(* POST /admin/webhooks/replay-dead, for the events of a time window.  It  *)
(* leaves paused as it is.                                                 *)
ReplayDead(window) ==
    /\ redeliveries < MaxRedeliveries
    /\ \E e \in window : events[e].status = "DEAD"
    /\ events' = [e \in Events |->
          IF e \in window /\ events[e].status = "DEAD"
          THEN [events[e] EXCEPT !.status = "PENDING", !.next = "NOW"] ELSE events[e]]
    /\ redeliveries' = redeliveries + 1
    /\ UNCHANGED <<endpoint, deliveries, senders>>

SenderStep(s) ==
    \/ Tick(s) \/ EndTick(s) \/ Hold(s) \/ Refuse(s) \/ ApplyOutcome(s)
    \/ CountFailure(s) \/ OpenBreaker(s) \/ CloseBreaker(s)
    \/ \E e \in Events : ReadEvent(s, e)
    \/ \E answer \in Answers, after \in RetryAfters : Send(s, answer, after)

DeliveryNext ==
    \/ \E e \in Events, callback \in BOOLEAN : CreateEvent(e, callback)
    \/ \E s \in Senders : SenderStep(s) \/ SenderCrash(s)
    \/ \E e \in Events : Elapse(e) \/ RetryEvent(e)
    \/ \E window \in SUBSET Events : ReplayDead(window)
    \/ \E status \in ServiceStatus : SetServiceStatus(status)

DeliverySpec == DeliveryInit /\ [][DeliveryNext]_deliveryVars

-----------------------------------------------------------------------------
DeliveryTypeOK ==
    /\ endpoint \in [status : ServiceStatus, failures : Nat, breaker : {"OPEN", "CLOSED"}]
    /\ events \in [Events -> EventRow]
    /\ deliveries \in [Events -> SUBSET DeliveryRow]
    /\ senders \in [Senders -> Sender]
    /\ redeliveries \in Nat

(* The delivery history explains every verdict: an event that has attempts *)
(* shows the attempt it is at, and one that is DELIVERED, DEAD or refused  *)
(* by the endpoint shows under that number an answer that means so         *)
(* (applyOutcome against recordDelivery), whatever sweeps overlapped or    *)
(* died and whatever an administrator requeued.                            *)
VerdictOnRecord ==
    \A e \in Events : events[e].attempts > 0 =>
        \E row \in deliveries[e] :
            /\ row.no = events[e].attempts
            /\ events[e].status = "DEAD" => Classify(row.answer) = "RETRY"
            /\ events[e].status \in {"DELIVERED", "FAILED", "CANCELLED"} =>
                  Classify(row.answer) = events[e].status

(* An event never gets past webhook_max_attempts, but for one attempt per  *)
(* requeue by an administrator, which keeps the count (nextAttemptAt).     *)
AttemptBudget ==
    \A e \in Events : events[e].attempts <= WebhookMaxAttempts + redeliveries

(* An event that is PENDING and not paused has a time for its next         *)
(* attempt, so the sweeper finds it: no crash or overlap of senders loses  *)
(* an event (webhook-sweeper.processor.ts, "nothing is lost").             *)
PendingIsScheduled ==
    \A e \in Events :
        events[e].status = "PENDING" /\ ~events[e].paused => events[e].next # "UNSET"

(* What workplan/09-webhook-delivery.md:225 says: the events held while    *)
(* the company was suspended are released once it is ACTIVE again.  No     *)
(* statement clears paused but the retry of a single event.                *)
Held(e) == events[e].status = "PENDING" /\ events[e].paused
ReactivationReleases ==
    \A e \in Events :
        (Held(e) /\ endpoint.status = "ACTIVE") ~> (~Held(e) \/ endpoint.status # "ACTIVE")

(* An event that is due, or will be, ends delivered, dead, refused,        *)
(* cancelled or held, provided that workers stop dying: neither overlap    *)
(* nor backoff, nor a requeue, leaves it in a retry that never ends.       *)
Waits(e) == events[e].status = "PENDING" /\ ~events[e].paused
NoMoreCrashes == <>[][\A s \in Senders : ~SenderCrash(s)]_deliveryVars
EventuallyDecided == NoMoreCrashes => \A e \in Events : Waits(e) ~> ~Waits(e)
=============================================================================
