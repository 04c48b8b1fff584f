----------------------- MODULE WebhookDelivery_proofs ------------------------
(***************************************************************************)
(* Proofs about the delivery of webhook events, for any number of events,  *)
(* overlapping sweeps, attempts, answers and redeliveries.                 *)
(***************************************************************************)
EXTENDS WebhookDelivery, TLAPS

(* A sender keeps its type if the state it moves to has it.                *)
LEMMA MoveTyped ==
    ASSUME senders \in [Senders -> Sender], NEW s \in Senders, NEW state \in Sender,
           Move(s, state)
    PROVE  senders' \in [Senders -> Sender]
BY DEF Move

LEMMA SweepingTyped ==
    ASSUME NEW todo \in SUBSET Events
    PROVE  Sweeping(todo) \in Sender
BY DEF Sweeping, Sender

LEMMA RestingTyped == Resting \in Sender
BY DEF Resting, Sender

(* What a sender is known to hold at each of its steps.                    *)
LEMMA HeldJob ==
    ASSUME senders \in [Senders -> Sender], NEW s \in Senders
    PROVE  /\ ~At(s, "IDLE") => senders[s].todo \in SUBSET Events
           /\ senders[s].step \in {"HOLD", "REFUSE", "SEND", "APPLY"} =>
                 senders[s].event \in Events
           /\ senders[s].step \in {"SEND", "APPLY"} =>
                 senders[s].attempt \in Nat \ {0} /\ senders[s].slow \in BOOLEAN
           /\ At(s, "APPLY") => senders[s].answer \in AllAnswers /\ senders[s].after \in Due
<1>1. senders[s] \in Sender
  OBVIOUS
<1>2. CASE senders[s] \in [step : {"IDLE"}]
  BY <1>2 DEF At
<1>3. CASE senders[s] \in [step : {"SWEEP", "COUNT", "OPEN", "CLOSE"}, todo : SUBSET Events]
  BY <1>3 DEF At
<1>4. CASE senders[s] \in [step : {"HOLD", "REFUSE"}, todo : SUBSET Events, event : Events]
  BY <1>4 DEF At
<1>5. CASE senders[s] \in [step : {"SEND"}, todo : SUBSET Events, event : Events,
                           attempt : Nat \ {0}, slow : BOOLEAN]
  BY <1>5 DEF At
<1>6. CASE senders[s] \in [step : {"APPLY"}, todo : SUBSET Events, event : Events,
                           attempt : Nat \ {0}, slow : BOOLEAN, answer : AllAnswers, after : Due]
  BY <1>6 DEF At
<1> QED
  BY <1>1, <1>2, <1>3, <1>4, <1>5, <1>6 DEF Sender

LEMMA NextTyped ==
    ASSUME NEW attempt, NEW slow
    PROVE  NextAttemptAt(attempt, slow) \in Due
BY DEF NextAttemptAt, BaseDelay, Due

LEMMA OutcomeTyped ==
    ASSUME NEW row \in EventRow, NEW job, job.attempt \in Nat \ {0}, job.after \in Due
    PROVE  Outcome(row, job) \in EventRow
<1>1. NextAttemptAt(job.attempt, job.slow) \in Due
  BY NextTyped
<1>2. Classify(job.answer) \in {"DELIVERED", "FAILED", "CANCELLED", "RETRY"}
  BY DEF Classify
<1> QED
  BY <1>1, <1>2 DEF Outcome, EventRow, EventStatus

LEMMA InitTyped == DeliveryInit => DeliveryTypeOK
BY DEF DeliveryInit, DeliveryTypeOK, ServiceStatus, NoEvent, EventRow, Due, Resting, Sender

LEMMA StepTyped == DeliveryTypeOK /\ [DeliveryNext]_deliveryVars => DeliveryTypeOK'
<1> SUFFICES ASSUME DeliveryTypeOK, [DeliveryNext]_deliveryVars
             PROVE  DeliveryTypeOK'
  OBVIOUS
<1> USE DEF DeliveryTypeOK
<1>1. ASSUME NEW e \in Events, NEW callback \in BOOLEAN, CreateEvent(e, callback)
      PROVE  DeliveryTypeOK'
  BY <1>1 DEF CreateEvent, EventRow, EventStatus, Due
<1>2. ASSUME NEW s \in Senders, Tick(s)
      PROVE  DeliveryTypeOK'
  <2>1. DueEvents \in SUBSET Events
    BY DEF DueEvents
  <2> QED
    BY <1>2, <2>1, MoveTyped, SweepingTyped DEF Tick
<1>3. ASSUME NEW s \in Senders, EndTick(s) \/ SenderCrash(s)
      PROVE  DeliveryTypeOK'
  BY <1>3, MoveTyped, RestingTyped DEF EndTick, SenderCrash
<1>4. ASSUME NEW s \in Senders, NEW e \in Events, ReadEvent(s, e)
      PROVE  DeliveryTypeOK'
  <2> DEFINE todo == senders[s].todo \ {e}
  <2>1. todo \in SUBSET Events
    BY <1>4, HeldJob DEF ReadEvent, At
  <2>2. Sweeping(todo) \in Sender
    BY <2>1, SweepingTyped
  <2>3. \A step \in {"HOLD", "REFUSE"} :
           [step |-> step, todo |-> todo, event |-> e] \in Sender
    BY <2>1 DEF Sender
  <2>4. [step |-> "SEND", todo |-> todo, event |-> e, attempt |-> events[e].attempts + 1,
         slow |-> endpoint.breaker = "OPEN"] \in Sender
    <3>1. events[e].attempts + 1 \in Nat \ {0}
      BY DEF EventRow
    <3>2. (endpoint.breaker = "OPEN") \in BOOLEAN
      OBVIOUS
    <3> QED
      BY <2>1, <3>1, <3>2 DEF Sender
  <2>5. \E state \in Sender : Move(s, state)
    BY <1>4, <2>2, <2>3, <2>4 DEF ReadEvent
  <2> QED
    BY <1>4, <2>5, MoveTyped DEF ReadEvent
<1>5. ASSUME NEW s \in Senders, Hold(s) \/ Refuse(s)
      PROVE  DeliveryTypeOK'
  <2>1. senders[s].event \in Events /\ Sweeping(senders[s].todo) \in Sender
    BY <1>5, HeldJob, SweepingTyped DEF Hold, Refuse, At
  <2>2. \A e \in Events : /\ [events[e] EXCEPT !.paused = TRUE, !.next = "UNSET"] \in EventRow
                          /\ [events[e] EXCEPT !.status = "FAILED"] \in EventRow
    BY DEF EventRow, EventStatus, Due
  <2>3. \E row \in EventRow : events' = [events EXCEPT ![senders[s].event] = row]
    <3>1. CASE Hold(s)
      BY <2>1, <2>2, <3>1 DEF Hold
    <3>2. CASE Refuse(s)
      BY <2>1, <2>2, <3>2 DEF Refuse
    <3> QED
      BY <1>5, <3>1, <3>2
  <2>4. events' \in [Events -> EventRow]
    BY <2>1, <2>3
  <2> QED
    BY <1>5, <2>1, <2>4, MoveTyped DEF Hold, Refuse
<1>6. ASSUME NEW s \in Senders, NEW answer \in Answers, NEW after \in RetryAfters,
             Send(s, answer, after)
      PROVE  DeliveryTypeOK'
  <2> DEFINE job == senders[s]
             row == [no |-> job.attempt, answer |-> answer]
             next == [step |-> "APPLY", todo |-> job.todo, event |-> job.event,
                      attempt |-> job.attempt, slow |-> job.slow,
                      answer |-> answer, after |-> after]
  <2>1. /\ job.todo \in SUBSET Events /\ job.event \in Events
        /\ job.attempt \in Nat \ {0} /\ job.slow \in BOOLEAN
    BY <1>6, HeldJob DEF Send, RecordDelivery, At
  <2>2. answer \in AllAnswers /\ after \in Due
    BY DeliveryAssumption
  <2>3. next \in Sender
    BY <2>1, <2>2 DEF Sender
  <2>4. row \in DeliveryRow
    BY <2>1, <2>2 DEF DeliveryRow
  <2>5. deliveries' \in [Events -> SUBSET DeliveryRow]
    BY <1>6, <2>1, <2>4 DEF Send, RecordDelivery
  <2>6. Move(s, next)
    BY <1>6 DEF Send, RecordDelivery
  <2> QED
    BY <1>6, <2>3, <2>5, <2>6, MoveTyped DEF Send, RecordDelivery
<1>7. ASSUME NEW s \in Senders, ApplyOutcome(s)
      PROVE  DeliveryTypeOK'
  <2> DEFINE job == senders[s]
  <2>1. /\ job.todo \in SUBSET Events /\ job.event \in Events
        /\ job.attempt \in Nat \ {0} /\ job.after \in Due
    BY <1>7, HeldJob DEF ApplyOutcome, At
  <2>2. Outcome(events[job.event], job) \in EventRow
    BY <2>1, OutcomeTyped
  <2>3. events' \in [Events -> EventRow]
    BY <1>7, <2>1, <2>2 DEF ApplyOutcome
  <2>4. \A step \in {"CLOSE", "SWEEP", "COUNT"} : [step |-> step, todo |-> job.todo] \in Sender
    BY <2>1 DEF Sender
  <2>5. \E state \in Sender : Move(s, state)
    BY <1>7, <2>4 DEF ApplyOutcome
  <2> QED
    BY <1>7, <2>3, <2>5, MoveTyped DEF ApplyOutcome
<1>8. ASSUME NEW s \in Senders, CountFailure(s) \/ OpenBreaker(s) \/ CloseBreaker(s)
      PROVE  DeliveryTypeOK'
  <2>1. senders[s].todo \in SUBSET Events
    BY <1>8, HeldJob DEF CountFailure, OpenBreaker, CloseBreaker, At
  <2>2. \A step \in {"OPEN", "SWEEP"} : [step |-> step, todo |-> senders[s].todo] \in Sender
    BY <2>1 DEF Sender
  <2>3. \E state \in Sender : Move(s, state)
    BY <1>8, <2>2 DEF CountFailure, OpenBreaker, CloseBreaker, Sweeping
  <2>4. endpoint' \in [status : ServiceStatus, failures : Nat, breaker : {"OPEN", "CLOSED"}]
    <3>1. CASE CountFailure(s)
      <4> DEFINE failures == IF endpoint.failures < BreakerThreshold THEN endpoint.failures + 1
                             ELSE endpoint.failures
      <4>1. failures \in Nat
        OBVIOUS
      <4>2. endpoint' = [endpoint EXCEPT !.failures = failures]
        BY <3>1 DEF CountFailure
      <4> HIDE DEF failures
      <4> QED
        BY <4>1, <4>2
    <3>2. CASE OpenBreaker(s)
      BY <3>2 DEF OpenBreaker
    <3>3. CASE CloseBreaker(s)
      BY <3>3 DEF CloseBreaker
    <3> QED
      BY <1>8, <3>1, <3>2, <3>3
  <2> QED
    BY <1>8, <2>3, <2>4, MoveTyped DEF CountFailure, OpenBreaker, CloseBreaker
<1>9. ASSUME NEW e \in Events, Elapse(e) \/ RetryEvent(e)
      PROVE  DeliveryTypeOK'
  BY <1>9 DEF Elapse, RetryEvent, EventRow, EventStatus, Due
<1>10. ASSUME NEW window \in SUBSET Events, ReplayDead(window)
       PROVE  DeliveryTypeOK'
  <2>1. \A e \in Events : [events[e] EXCEPT !.status = "PENDING", !.next = "NOW"] \in EventRow
    BY DEF EventRow, EventStatus, Due
  <2> DEFINE requeued(e) == [events[e] EXCEPT !.status = "PENDING", !.next = "NOW"]
  <2>2. events' \in [Events -> EventRow]
    <3>1. events' = [e \in Events |-> IF e \in window /\ events[e].status = "DEAD"
                                      THEN requeued(e) ELSE events[e]]
      BY <1>10 DEF ReplayDead
    <3>2. \A e \in Events : requeued(e) \in EventRow
      BY <2>1
    <3> HIDE DEF requeued
    <3> QED
      BY <3>1, <3>2
  <2>3. redeliveries' = redeliveries + 1 /\ UNCHANGED <<endpoint, deliveries, senders>>
    BY <1>10, Zenon DEF ReplayDead
  <2> HIDE DEF requeued
  <2> QED
    BY <2>2, <2>3
<1>11. ASSUME NEW status \in ServiceStatus, SetServiceStatus(status)
       PROVE  DeliveryTypeOK'
  BY <1>11 DEF SetServiceStatus
<1>12. CASE UNCHANGED deliveryVars
  BY <1>12 DEF deliveryVars
<1> QED
  BY <1>1, <1>2, <1>3, <1>4, <1>5, <1>6, <1>7, <1>8, <1>9, <1>10, <1>11, <1>12
  DEF DeliveryNext, SenderStep

(* DeliveryTypeOK: the rows and the sweeps in flight keep their types,     *)
(* whichever sweeps overlap or die.                                        *)
THEOREM DeliveryTyping == DeliverySpec => []DeliveryTypeOK
<1> QED
  BY InitTyped, StepTyped, PTL DEF DeliverySpec

-----------------------------------------------------------------------------
(* What an outcome makes of a row.                                         *)
LEMMA OutcomeShape ==
    ASSUME NEW row \in EventRow, NEW job, job.attempt \in Nat \ {0}, job.after \in Due
    PROVE  LET new == Outcome(row, job)
               outcome == Classify(job.answer)
           IN  /\ new.attempts = job.attempt
               /\ new.callback = row.callback /\ new.paused = row.paused
               /\ new.status # "ABSENT"
               /\ outcome # "RETRY" => new.status = outcome
               /\ outcome = "RETRY" => new.status \in {"DEAD", "PENDING"}
               /\ new.status = "PENDING" =>
                     new.next # "UNSET" /\ NextAttemptAt(job.attempt, job.slow) # "UNSET"
<1>1. Classify(job.answer) \in {"DELIVERED", "FAILED", "CANCELLED", "RETRY"}
  BY DEF Classify
<1> QED
  BY <1>1 DEF Outcome, EventRow

(* Steps that leave the attempts of every event as they are, and its       *)
(* status too unless they requeue it.                                      *)
SameAttempts ==
    \A e \in Events :
        /\ events'[e].attempts = events[e].attempts
        /\ events'[e].callback = events[e].callback
        /\ events'[e].status = events[e].status
              \/ (events[e].status # "ABSENT" /\ events'[e].status = "PENDING")

LEMMA RowsKept ==
    ASSUME DeliveryTypeOK,
           \/ \E s \in Senders : Hold(s)
           \/ \E e \in Events : Elapse(e) \/ RetryEvent(e)
           \/ \E window \in SUBSET Events : ReplayDead(window)
    PROVE  SameAttempts /\ UNCHANGED deliveries
<1> USE DEF DeliveryTypeOK, SameAttempts
<1>1. ASSUME NEW s \in Senders, Hold(s)
      PROVE  SameAttempts /\ UNCHANGED deliveries
  BY <1>1, HeldJob DEF Hold, At, EventRow
<1>2. ASSUME NEW e \in Events, Elapse(e) \/ RetryEvent(e)
      PROVE  SameAttempts /\ UNCHANGED deliveries
  <2>1. CASE Elapse(e)
    BY <2>1 DEF Elapse, EventRow
  <2>2. CASE RetryEvent(e)
    BY <2>2 DEF RetryEvent, EventRow
  <2> QED
    BY <1>2, <2>1, <2>2
<1>3. ASSUME NEW window \in SUBSET Events, ReplayDead(window)
      PROVE  SameAttempts /\ UNCHANGED deliveries
  <2> DEFINE requeued(e) == [events[e] EXCEPT !.status = "PENDING", !.next = "NOW"]
  <2>1. \A e \in Events : /\ requeued(e).attempts = events[e].attempts
                          /\ requeued(e).callback = events[e].callback
                          /\ requeued(e).status = "PENDING"
    BY DEF EventRow
  <2>2. /\ events' = [e \in Events |-> IF e \in window /\ events[e].status = "DEAD"
                                       THEN requeued(e) ELSE events[e]]
        /\ UNCHANGED deliveries
    BY <1>3 DEF ReplayDead
  <2> HIDE DEF requeued
  <2> QED
    BY <2>1, <2>2
<1> QED
  BY <1>1, <1>2, <1>3

(* Only steps of these kinds change webhook_events, and all others leave   *)
(* the row, its history and the number of redeliveries alone.              *)
LEMMA EventKinds ==
    ASSUME DeliveryTypeOK, [DeliveryNext]_deliveryVars
    PROVE  \/ \E e \in Events, callback \in BOOLEAN : CreateEvent(e, callback)
           \/ \E s \in Senders : Hold(s) \/ Refuse(s) \/ ApplyOutcome(s)
           \/ \E e \in Events : Elapse(e) \/ RetryEvent(e)
           \/ \E window \in SUBSET Events : ReplayDead(window)
           \/ UNCHANGED <<events, redeliveries>>
BY DEF DeliveryNext, SenderStep, Tick, EndTick, ReadEvent, Send, RecordDelivery, CountFailure, OpenBreaker,
       CloseBreaker, SenderCrash, SetServiceStatus, deliveryVars

LEMMA ScheduledStep ==
    ASSUME DeliveryTypeOK, PendingIsScheduled, [DeliveryNext]_deliveryVars
    PROVE  PendingIsScheduled'
<1> USE DEF PendingIsScheduled, DeliveryTypeOK
<1>1. ASSUME NEW e \in Events, NEW callback \in BOOLEAN, CreateEvent(e, callback)
      PROVE  PendingIsScheduled'
  BY <1>1 DEF CreateEvent
<1>2. ASSUME NEW s \in Senders, Hold(s)
      PROVE  PendingIsScheduled'
  BY <1>2, HeldJob DEF Hold, At, EventRow
<1>3. ASSUME NEW s \in Senders, Refuse(s)
      PROVE  PendingIsScheduled'
  BY <1>3, HeldJob DEF Refuse, At, EventRow
<1>4. ASSUME NEW s \in Senders, ApplyOutcome(s)
      PROVE  PendingIsScheduled'
  BY <1>4, HeldJob, OutcomeShape DEF ApplyOutcome, At
<1>5. ASSUME NEW e \in Events, Elapse(e) \/ RetryEvent(e)
      PROVE  PendingIsScheduled'
  BY <1>5 DEF Elapse, RetryEvent, EventRow
<1>6. ASSUME NEW window \in SUBSET Events, ReplayDead(window)
      PROVE  PendingIsScheduled'
  BY <1>6 DEF ReplayDead, EventRow
<1>7. CASE UNCHANGED <<events, redeliveries>>
  BY <1>7
<1> QED
  BY <1>1, <1>2, <1>3, <1>4, <1>5, <1>6, <1>7, EventKinds

(* PendingIsScheduled: an event that is to be sent has a time at which the *)
(* sweeper finds it (webhook-sweeper.processor.ts, "nothing is lost").     *)
THEOREM NothingIsLost == DeliverySpec => []PendingIsScheduled
<1>1. DeliveryInit => PendingIsScheduled
  BY DEF DeliveryInit, PendingIsScheduled, NoEvent
<1> QED
  BY <1>1, InitTyped, StepTyped, ScheduledStep, PTL DEF DeliverySpec

-----------------------------------------------------------------------------
(* The budget of attempts: an event to be sent has an attempt left, and so *)
(* has every sweep that is about to send one or to write its outcome.      *)
Budget == WebhookMaxAttempts + redeliveries
WithinBudget ==
    /\ AttemptBudget
    /\ \A e \in Events : events[e].status = "PENDING" => events[e].attempts < Budget
    /\ \A s \in Senders : senders[s].step \in {"SEND", "APPLY"} => senders[s].attempt <= Budget

LEMMA LastAttempt ==
    ASSUME NEW attempt \in Nat, NEW slow, NextAttemptAt(attempt, slow) # "UNSET"
    PROVE  attempt < WebhookMaxAttempts
BY DeliveryAssumption DEF NextAttemptAt

LEMMA BudgetStep ==
    ASSUME DeliveryTypeOK, WithinBudget, [DeliveryNext]_deliveryVars
    PROVE  WithinBudget'
<1> USE DeliveryAssumption DEF WithinBudget, AttemptBudget, Budget, DeliveryTypeOK
<1>1. ASSUME NEW e \in Events, NEW callback \in BOOLEAN, CreateEvent(e, callback)
      PROVE  WithinBudget'
  BY <1>1 DEF CreateEvent, EventRow
<1>2. ASSUME NEW s \in Senders, Tick(s) \/ EndTick(s) \/ SenderCrash(s) \/ CountFailure(s)
                               \/ OpenBreaker(s) \/ CloseBreaker(s)
      PROVE  WithinBudget'
  <2>1. \E state : Move(s, state) /\ state.step \notin {"SEND", "APPLY"}
    BY <1>2 DEF Tick, EndTick, SenderCrash, CountFailure, OpenBreaker, CloseBreaker, Sweeping,
                Resting
  <2>2. UNCHANGED <<events, redeliveries>>
    BY <1>2 DEF Tick, EndTick, SenderCrash, CountFailure, OpenBreaker, CloseBreaker
  <2> QED
    BY <2>1, <2>2 DEF Move
<1>3. ASSUME NEW s \in Senders, NEW e \in Events, ReadEvent(s, e)
      PROVE  WithinBudget'
  BY <1>3 DEF ReadEvent, Move, Sweeping, EventRow
<1>4. ASSUME NEW s \in Senders, Hold(s)
      PROVE  WithinBudget'
  BY <1>4, HeldJob DEF Hold, At, Move, Sweeping, EventRow
<1>5. ASSUME NEW s \in Senders, Refuse(s)
      PROVE  WithinBudget'
  BY <1>5, HeldJob DEF Refuse, At, Move, Sweeping, EventRow
<1>6. ASSUME NEW s \in Senders, NEW answer \in Answers, NEW after \in RetryAfters,
             Send(s, answer, after)
      PROVE  WithinBudget'
  BY <1>6 DEF Send, RecordDelivery, At, Move
<1>7. ASSUME NEW s \in Senders, ApplyOutcome(s)
      PROVE  WithinBudget'
  <2> DEFINE job == senders[s]
             new == Outcome(events[job.event], job)
  <2>1. /\ job.event \in Events /\ job.attempt \in Nat \ {0} /\ job.after \in Due
        /\ job.attempt <= Budget
    BY <1>7, HeldJob DEF ApplyOutcome, At
  <2>2. new.attempts = job.attempt /\ (new.status = "PENDING" => job.attempt < WebhookMaxAttempts)
    BY <2>1, OutcomeShape, LastAttempt
  <2>3. /\ events' = [events EXCEPT ![job.event] = new]
        /\ \E state : Move(s, state) /\ state.step \notin {"SEND", "APPLY"}
        /\ UNCHANGED redeliveries
    BY <1>7 DEF ApplyOutcome
  <2> HIDE DEF new
  <2> QED
    BY <2>1, <2>2, <2>3 DEF Move, EventRow
<1>8. ASSUME NEW e \in Events, Elapse(e) \/ RetryEvent(e)
      PROVE  WithinBudget'
  BY <1>8, HeldJob DEF Elapse, RetryEvent, EventRow
<1>9. ASSUME NEW window \in SUBSET Events, ReplayDead(window)
      PROVE  WithinBudget'
  <2>1. \A e \in Events : events'[e].attempts = events[e].attempts
    BY <1>9, RowsKept DEF SameAttempts
  <2>2. redeliveries' = redeliveries + 1 /\ UNCHANGED senders
    BY <1>9 DEF ReplayDead
  <2>3. \A e \in Events : events[e].attempts \in Nat /\ events[e].attempts <= Budget
    BY DEF EventRow
  <2>4. \A s \in Senders : senders[s].step \in {"SEND", "APPLY"} => senders[s].attempt \in Nat
    BY HeldJob
  <2> QED
    BY <2>1, <2>2, <2>3, <2>4
<1>10. CASE UNCHANGED <<events, senders, redeliveries>>
  BY <1>10
<1> QED
  BY <1>1, <1>2, <1>3, <1>4, <1>5, <1>6, <1>7, <1>8, <1>9, <1>10
  DEF DeliveryNext, SenderStep, SetServiceStatus, deliveryVars

(* AttemptBudget: no event gets past webhook_max_attempts, but for one     *)
(* attempt per redelivery, however many sweeps deliver it at once.         *)
THEOREM BudgetHolds == DeliverySpec => []AttemptBudget
<1>1. DeliveryInit => WithinBudget
  BY DeliveryAssumption DEF DeliveryInit, WithinBudget, AttemptBudget, Budget, NoEvent, Resting
<1>2. WithinBudget => AttemptBudget
  BY DEF WithinBudget
<1> QED
  BY <1>1, <1>2, InitTyped, StepTyped, BudgetStep, PTL DEF DeliverySpec

-----------------------------------------------------------------------------
(* What a sweep knows of the event it delivers, and what a row without a   *)
(* callback tells: it was never sent.                                      *)
JobKnown(s) ==
    LET job == senders[s]
    IN  /\ job.step \in {"SEND", "APPLY"} => events[job.event].callback
        /\ job.step = "REFUSE" => events[job.event].status # "ABSENT" /\ ~events[job.event].callback
        /\ job.step = "APPLY" => [no |-> job.attempt, answer |-> job.answer] \in deliveries[job.event]

RowKnown(e) ==
    /\ events[e].attempts > 0 => events[e].callback
    /\ events[e].status = "ABSENT" => ~events[e].callback

JobsKnown == (\A s \in Senders : JobKnown(s)) /\ (\A e \in Events : RowKnown(e))

(* A sweep that does not move keeps what it knows while rows keep their    *)
(* callback and history.                                                   *)
LEMMA JobKept ==
    ASSUME DeliveryTypeOK, NEW s \in Senders, JobKnown(s), senders'[s] = senders[s],
           \A e \in Events : /\ events'[e].callback = events[e].callback
                             /\ deliveries[e] \subseteq deliveries'[e]
                             /\ events[e].status # "ABSENT" => events'[e].status # "ABSENT"
    PROVE  JobKnown(s)'
<1> DEFINE job == senders[s]
<1>6. job.step \in {"REFUSE", "SEND", "APPLY"} => job.event \in Events
  BY HeldJob DEF DeliveryTypeOK
<1>1. job.step \in {"REFUSE", "SEND", "APPLY"} =>
         /\ job.event \in Events
         /\ events'[job.event].callback = events[job.event].callback
         /\ deliveries[job.event] \subseteq deliveries'[job.event]
         /\ events[job.event].status # "ABSENT" => events'[job.event].status # "ABSENT"
  BY <1>6, Zenon
<1>0. senders'[s] = job
  OBVIOUS
<1> HIDE DEF job
<1>2. CASE job.step = "REFUSE"
  BY <1>0, <1>1, <1>2 DEF JobKnown, job
<1>3. CASE job.step = "SEND"
  BY <1>0, <1>1, <1>3 DEF JobKnown, job
<1>4. CASE job.step = "APPLY"
  BY <1>0, <1>1, <1>4 DEF JobKnown, job
<1>5. CASE job.step \notin {"REFUSE", "SEND", "APPLY"}
  BY <1>0, <1>5 DEF JobKnown
<1> QED
  BY <1>2, <1>3, <1>4, <1>5

LEMMA JobIdle ==
    ASSUME NEW s \in Senders, senders'[s].step \notin {"REFUSE", "SEND", "APPLY"}
    PROVE  JobKnown(s)'
BY DEF JobKnown

OnRecord == VerdictOnRecord /\ JobsKnown

(* It survives what keeps the attempts and gives no sweep a new job.       *)
LEMMA RecordKept ==
    ASSUME DeliveryTypeOK, OnRecord, SameAttempts, UNCHANGED deliveries,
           \A s \in Senders : senders'[s] = senders[s] \/ senders'[s].step = "SWEEP"
    PROVE  OnRecord'
<1> USE DEF OnRecord, SameAttempts
<1>1. VerdictOnRecord'
  BY DEF VerdictOnRecord
<1>2. \A s \in Senders : JobKnown(s)'
  BY JobKept, JobIdle DEF JobsKnown
<1>3. \A e \in Events : RowKnown(e)'
  BY DEF JobsKnown, RowKnown
<1> QED
  BY <1>1, <1>2, <1>3 DEF JobsKnown

LEMMA RecordStep ==
    ASSUME DeliveryTypeOK, OnRecord, [DeliveryNext]_deliveryVars
    PROVE  OnRecord'
<1> USE DEF OnRecord, VerdictOnRecord, JobsKnown, RowKnown, DeliveryTypeOK
<1>1. ASSUME NEW e \in Events, NEW callback \in BOOLEAN, CreateEvent(e, callback)
      PROVE  OnRecord'
  BY <1>1, HeldJob DEF JobKnown, CreateEvent, EventRow
<1>2. ASSUME NEW s \in Senders, Tick(s) \/ EndTick(s) \/ SenderCrash(s) \/ CountFailure(s)
                               \/ OpenBreaker(s) \/ CloseBreaker(s)
      PROVE  OnRecord'
  <2>1. \E state : Move(s, state) /\ state.step \notin {"REFUSE", "SEND", "APPLY"}
    BY <1>2 DEF Tick, EndTick, SenderCrash, CountFailure, OpenBreaker, CloseBreaker, Sweeping,
                Resting
  <2>2. UNCHANGED <<events, deliveries>>
    BY <1>2 DEF Tick, EndTick, SenderCrash, CountFailure, OpenBreaker, CloseBreaker
  <2>3. \A r \in Senders : senders'[r] = senders[r]
                           \/ senders'[r].step \notin {"REFUSE", "SEND", "APPLY"}
    BY <2>1 DEF Move
  <2>4. \A r \in Senders : JobKnown(r)'
    BY <2>2, <2>3, JobKept, JobIdle
  <2> QED
    BY <2>2, <2>4
<1>3. ASSUME NEW s \in Senders, NEW e \in Events, ReadEvent(s, e)
      PROVE  OnRecord'
  BY <1>3 DEF JobKnown, ReadEvent, Move, Sweeping, EventRow
<1>4. ASSUME NEW s \in Senders, Hold(s)
      PROVE  OnRecord'
  <2>1. \A r \in Senders : senders'[r] = senders[r] \/ senders'[r].step = "SWEEP"
    BY <1>4 DEF Hold, Move, Sweeping
  <2> QED
    BY <1>4, <2>1, RowsKept, RecordKept
<1>5. ASSUME NEW s \in Senders, Refuse(s)
      PROVE  OnRecord'
  <2> DEFINE e == senders[s].event
  <2>1. /\ e \in Events /\ events[e].status # "ABSENT" /\ ~events[e].callback
        /\ ~(events[e].attempts > 0)
    BY <1>5, HeldJob DEF JobKnown, Refuse, At
  <2>2. /\ events' = [events EXCEPT ![e].status = "FAILED"] /\ UNCHANGED deliveries
        /\ \A r \in Senders : senders'[r] = senders[r] \/ senders'[r].step = "SWEEP"
    BY <1>5 DEF Refuse, Move, Sweeping
  <2>3. \A x \in Events : /\ events'[x].attempts = events[x].attempts
                          /\ events'[x].callback = events[x].callback
                          /\ x # e => events'[x].status = events[x].status
                          /\ x = e => events'[x].status = "FAILED"
    BY <2>1, <2>2 DEF EventRow
  <2>4. VerdictOnRecord'
    BY <2>1, <2>2, <2>3
  <2>5. \A r \in Senders : JobKnown(r)'
    BY <2>1, <2>2, <2>3, JobKept, JobIdle
  <2>6. \A x \in Events : RowKnown(x)'
    BY <2>1, <2>3
  <2> QED
    BY <2>4, <2>5, <2>6
<1>6. ASSUME NEW s \in Senders, NEW answer \in Answers, NEW after \in RetryAfters,
             Send(s, answer, after)
      PROVE  OnRecord'
  BY <1>6, HeldJob DEF JobKnown, Send, RecordDelivery, At, Move
<1>7. ASSUME NEW s \in Senders, ApplyOutcome(s)
      PROVE  OnRecord'
  <2> DEFINE job == senders[s]
             new == Outcome(events[job.event], job)
  <2>1. /\ job.event \in Events /\ job.attempt \in Nat \ {0} /\ job.after \in Due
        /\ [no |-> job.attempt, answer |-> job.answer] \in deliveries[job.event]
        /\ events[job.event].callback
    BY <1>7, HeldJob DEF JobKnown, ApplyOutcome, At
  <2>2. /\ new.attempts = job.attempt /\ new.callback = events[job.event].callback
        /\ new.status # "ABSENT"
        /\ new.status = "DEAD" => Classify(job.answer) = "RETRY"
        /\ new.status \in {"DELIVERED", "FAILED", "CANCELLED"} => Classify(job.answer) = new.status
    <3>1. Classify(job.answer) \in {"DELIVERED", "FAILED", "CANCELLED", "RETRY"}
      BY DEF Classify
    <3>2. events[job.event] \in EventRow
      BY <2>1
    <3> HIDE DEF new
    <3>3. /\ new.attempts = job.attempt /\ new.callback = events[job.event].callback
          /\ new.status # "ABSENT"
          /\ Classify(job.answer) # "RETRY" => new.status = Classify(job.answer)
          /\ Classify(job.answer) = "RETRY" => new.status \in {"DEAD", "PENDING"}
      BY <2>1, <3>2, OutcomeShape DEF new
    <3> QED
      BY <3>1, <3>3
  <2>3. /\ events' = [events EXCEPT ![job.event] = new]
        /\ \E state : Move(s, state) /\ state.step \notin {"REFUSE", "SEND", "APPLY"}
        /\ UNCHANGED deliveries
    BY <1>7 DEF ApplyOutcome
  <2> HIDE DEF new
  <2>4. VerdictOnRecord'
    BY <2>1, <2>2, <2>3
  <2>5. \A r \in Senders : senders'[r] = senders[r]
                           \/ senders'[r].step \notin {"REFUSE", "SEND", "APPLY"}
    BY <2>3 DEF Move
  <2>6. \A x \in Events : IF x = job.event THEN events'[x] = new ELSE events'[x] = events[x]
    BY <2>1, <2>3
  <2>7. \A r \in Senders : JobKnown(r)'
    BY <2>1, <2>2, <2>3, <2>5, <2>6, JobKept, JobIdle
  <2>8. \A x \in Events : RowKnown(x)'
    BY <2>1, <2>2, <2>6
  <2> QED
    BY <2>4, <2>7, <2>8
<1>8. ASSUME NEW e \in Events, Elapse(e) \/ RetryEvent(e)
      PROVE  OnRecord'
  <2>1. UNCHANGED senders
    BY <1>8 DEF Elapse, RetryEvent
  <2> QED
    BY <1>8, <2>1, RowsKept, RecordKept
<1>9. ASSUME NEW window \in SUBSET Events, ReplayDead(window)
      PROVE  OnRecord'
  <2>1. UNCHANGED senders
    BY <1>9 DEF ReplayDead
  <2> QED
    BY <1>9, <2>1, RowsKept, RecordKept
<1>10. CASE UNCHANGED <<events, senders, deliveries>>
  BY <1>10, JobKept
<1> QED
  BY <1>1, <1>2, <1>3, <1>4, <1>5, <1>6, <1>7, <1>8, <1>9, <1>10
  DEF DeliveryNext, SenderStep, SetServiceStatus, deliveryVars

(* VerdictOnRecord: the delivery history explains every verdict.           *)
THEOREM VerdictsExplained == DeliverySpec => []VerdictOnRecord
<1>1. DeliveryInit => OnRecord
  BY DEF DeliveryInit, OnRecord, VerdictOnRecord, JobsKnown, JobKnown, RowKnown, NoEvent, Resting
<1>2. OnRecord => VerdictOnRecord
  BY DEF OnRecord
<1> QED
  BY <1>1, <1>2, InitTyped, StepTyped, RecordStep, PTL DEF DeliverySpec
=============================================================================
