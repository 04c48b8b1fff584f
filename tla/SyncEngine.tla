------------------------------ MODULE SyncEngine -----------------------------
(***************************************************************************)
(* The Android upload queue against the ingestion endpoint.  WorkManager   *)
(* runs the upload worker, a manual sync and the periodic reconcile, each  *)
(* at most once at a time but all of them concurrently; each drains the    *)
(* same table by statements of its own.  Requests and answers are lost,    *)
(* refused or overtaken; the phone and the server die between any two      *)
(* steps.  Time is two flags of a row: due, once next_attempt_at has       *)
(* passed, and old, once the message was received longer ago than the      *)
(* stale-claim timeout, which is noted while it matters: of a row that is  *)
(* UPLOADING, from any moment after its claim on.                          *)
(***************************************************************************)
EXTENDS Naturals, FiniteSets, ErrorAnswers

CONSTANTS
    Texts,          \* payment messages the phone receives
    Drainers,       \* unique work that drains the queue
    MaxAttempts,    \* SyncStateMachine.MAX_ATTEMPTS
    MaxBatch,
    Refusals,       \* exceptions that turn a request away at its start
    SameClock       \* the inbox dates a message as the broadcast does

AllDrainers == {"UPLOAD", "MANUAL_SYNC", "RECONCILE"}
ResultStatus == {"ACCEPTED", "DUPLICATE", "REJECTED"}
AllFailures == {"UNAUTHENTICATED", "FORBIDDEN", "RATE_LIMITED", "TRANSPORT"}

ASSUME SyncAssumption ==
    /\ Drainers \subseteq AllDrainers
    /\ MaxAttempts \in Nat /\ MaxBatch \in Nat \ {0}
    /\ Refusals \subseteq Exceptions
    /\ SameClock \in BOOLEAN

VARIABLES
    inbox,       \* where each message is in the phone's SMS inbox
    rows,        \* sms_message, by clientMsgHash
    drainers,    \* what each worker is doing
    uploadWork,  \* upload work is enqueued
    uploads,     \* the request of each drainer, at the server
    smsLogs,     \* sms_logs, by client_msg_hash
    stable       \* no fault happens any more

syncVars == <<inbox, rows, drainers, uploadWork, uploads, smsLogs, stable>>

-----------------------------------------------------------------------------
(* clientMsgHash covers the time of the message, which the broadcast takes *)
(* from the PDU and the scan from the inbox.                               *)
Hashes == Texts \X {"PDU", "INBOX"}
TextOf(h) == h[1]
HeardHash(m) == <<m, "PDU">>
ScannedHash(m) == <<m, IF SameClock THEN "PDU" ELSE "INBOX">>

SyncStatus == {"PENDING", "UPLOADING", "UPLOADED", "REJECTED", "FAILED"}
Attempts == 0 .. MaxAttempts + 1
SyncState == [status : SyncStatus, attempts : Attempts, due : BOOLEAN]
Row == [status : SyncStatus \cup {"ABSENT"}, attempts : Attempts, due : BOOLEAN, old : BOOLEAN]
NoRow == [status |-> "ABSENT", attempts |-> 0, due |-> FALSE, old |-> FALSE]
Captured == [status |-> "PENDING", attempts |-> 0, due |-> TRUE, old |-> FALSE]

PartialFunctions(S, T) == UNION {[D -> T] : D \in SUBSET S}

DrainOutcome == {"DRAINED", "RETRY", "NEEDS_REENROLL"}
Drainer ==
    [step : {"IDLE", "CLAIM"}]
    \cup [step : {"SCAN"}, todo : SUBSET Hashes]
    \cup [step : {"MARK", "WAIT"}, sent : PartialFunctions(Hashes, Attempts)]
    \cup [step : {"SETTLE"}, outcomes : PartialFunctions(Hashes, SyncState),
          then : DrainOutcome \cup {"CLAIM"}]

Upload ==
    [step : {"NONE"}]
    \cup [step : {"NEXT"}, todo : SUBSET Hashes, results : PartialFunctions(Hashes, ResultStatus)]
    \cup [step : {"INSERT", "EXTRACT"}, todo : SUBSET Hashes, hash : Hashes,
          results : PartialFunctions(Hashes, ResultStatus)]
    \cup [step : {"ANSWERED"}, results : PartialFunctions(Hashes, ResultStatus)]
    \cup [step : {"FAILED"}, kind : AllFailures]

Idle == [step |-> "IDLE"]
Claiming == [step |-> "CLAIM"]
NoUpload == [step |-> "NONE"]
Broken(kind) == [step |-> "FAILED", kind |-> kind]
Working(d) == uploads[d].step \in {"NEXT", "INSERT", "EXTRACT"}
Waiting(d) == drainers[d].step = "WAIT"

Become(d, state) == drainers' = [drainers EXCEPT ![d] = state]
Answer(d, state) == uploads' = [uploads EXCEPT ![d] = state]
Logged(h) == smsLogs[h] # "NONE"
Stored(m) == \E h \in Hashes : TextOf(h) = m /\ Logged(h)

(* Mutant of Transition: a row takes the status of its result.             *)
TransitionVerbatim(state, event) ==
    CASE event \in ResultStatus -> [state EXCEPT !.status = event, !.due = TRUE]
      [] event = "UNAUTHENTICATED" -> [state EXCEPT !.status = "PENDING"]
      [] event \in {"FORBIDDEN", "RATE_LIMITED"} ->
            [state EXCEPT !.status = "PENDING", !.due = FALSE]
      [] OTHER -> [state EXCEPT !.status = "FAILED", !.due = FALSE]

(* SyncStateMachine.transition, for the events the drainer raises.  The    *)
(* count saturates where it stops mattering.                               *)
Transition(state, event) ==
    CASE event \in {"ACCEPTED", "DUPLICATE"} ->
            [state EXCEPT !.status = "UPLOADED", !.due = TRUE]
      [] event = "REJECTED" -> [state EXCEPT !.status = "REJECTED", !.due = TRUE]
      [] event = "UNAUTHENTICATED" -> [state EXCEPT !.status = "PENDING"]
      [] event \in {"FORBIDDEN", "RATE_LIMITED"} ->
            [state EXCEPT !.status = "PENDING", !.due = FALSE]
      [] OTHER ->
            [status |-> IF state.attempts + 1 > MaxAttempts THEN "FAILED" ELSE "PENDING",
             attempts |-> IF state.attempts > MaxAttempts THEN state.attempts
                          ELSE state.attempts + 1,
             due |-> FALSE]

(* The claimed rows as the batch was read: PENDING and due.                *)
Sent(attempts) == [status |-> "PENDING", attempts |-> attempts, due |-> TRUE]

(* Settlement.settle, and the rows the answer does not mention.            *)
Settle(sent, results) ==
    [h \in DOMAIN sent |->
        IF h \in DOMAIN results THEN Transition(Sent(sent[h]), results[h]) ELSE Sent(sent[h])]

FailWholeBatch(sent, kind) == [h \in DOMAIN sent |-> Transition(Sent(sent[h]), kind)]

(* SmsMessageDao.reclaimStaleUploading and requeueFailed.                  *)
Reclaimed(table) ==
    [h \in Hashes |-> IF table[h].status = "UPLOADING" /\ table[h].old
                      THEN [table[h] EXCEPT !.status = "PENDING", !.due = TRUE, !.old = FALSE]
                      ELSE table[h]]
Requeued(table) ==
    [h \in Hashes |-> IF table[h].status = "FAILED"
                      THEN [table[h] EXCEPT !.status = "PENDING", !.due = TRUE, !.attempts = 0]
                      ELSE table[h]]

-----------------------------------------------------------------------------
SyncInit ==
    /\ inbox = [m \in Texts |-> "NEW"]
    /\ rows = [h \in Hashes |-> NoRow]
    /\ drainers = [d \in Drainers |-> Idle]
    /\ uploadWork = FALSE
    /\ uploads = [d \in Drainers |-> NoUpload]
    /\ smsLogs = [h \in Hashes |-> "NONE"]
    /\ stable = FALSE

(* A message arrives.  SmsReceiver may miss it, and may be killed before   *)
(* CaptureSms inserts the row or before it schedules the upload.           *)
Receive(m, heard, scheduled) ==
    /\ inbox[m] = "NEW" /\ (scheduled => heard)
    /\ inbox' = [inbox EXCEPT ![m] = "RECENT"]
    /\ rows' = IF heard THEN [rows EXCEPT ![HeardHash(m)] = Captured] ELSE rows
    /\ uploadWork' = (uploadWork \/ scheduled)
    /\ UNCHANGED <<drainers, uploads, smsLogs, stable>>

(* UploadWorker.doWork.  Work appended while it runs is a new run.         *)
StartUpload ==
    /\ "UPLOAD" \in Drainers /\ drainers["UPLOAD"] = Idle /\ uploadWork
    /\ uploadWork' = FALSE
    /\ rows' = Reclaimed(rows)
    /\ Become("UPLOAD", Claiming)
    /\ UNCHANGED <<inbox, uploads, smsLogs, stable>>

(* ReconcileWorker.doWork and RunManualSync.run: scan the inbox.  A        *)
(* process that has not loaded its rules (SmsParsing) finds nothing.       *)
InInbox == {ScannedHash(m) : m \in {m \in Texts : inbox[m] = "RECENT"}}
StartSync(d) ==
    /\ d # "UPLOAD" /\ drainers[d] = Idle
    /\ rows' = IF d = "RECONCILE" THEN Reclaimed(rows) ELSE rows
    /\ \E todo \in {InInbox, {}} :
          /\ stable => todo = InInbox
          /\ Become(d, [step |-> "SCAN", todo |-> todo])
    /\ UNCHANGED <<inbox, uploadWork, uploads, smsLogs, stable>>

(* One message of the scan: CaptureSms.handle ignores a known hash.        *)
ScanMessage(d, h) ==
    /\ drainers[d].step = "SCAN" /\ h \in drainers[d].todo
    /\ LET known == rows[h].status # "ABSENT"
       IN  /\ rows' = IF known THEN rows ELSE [rows EXCEPT ![h] = Captured]
           /\ uploadWork' = (uploadWork \/ ~known)
    /\ Become(d, [drainers[d] EXCEPT !.todo = @ \ {h}])
    /\ UNCHANGED <<inbox, uploads, smsLogs, stable>>

(* Mutant of EndScan: what had FAILED is not tried again.                  *)
EndScanWithoutRequeue(d) ==
    /\ drainers[d].step = "SCAN" /\ drainers[d].todo = {}
    /\ rows' = Reclaimed(rows)
    /\ Become(d, Claiming)
    /\ UNCHANGED <<inbox, uploadWork, uploads, smsLogs, stable>>

(* requeueFailed, then UploadPending.drain begins.                         *)
EndScan(d) ==
    /\ drainers[d].step = "SCAN" /\ drainers[d].todo = {}
    /\ rows' = Reclaimed(Requeued(rows))
    /\ Become(d, Claiming)
    /\ UNCHANGED <<inbox, uploadWork, uploads, smsLogs, stable>>

(* A run ends: WorkManager retries the upload worker on RETRY, and drops   *)
(* what is appended to it when it fails.                                   *)
EndRun(d, outcome) ==
    /\ Become(d, Idle)
    /\ uploadWork' = IF d # "UPLOAD" \/ outcome = "DRAINED" THEN uploadWork
                     ELSE outcome = "RETRY"

DueForUpload == {h \in Hashes : rows[h].status = "PENDING" /\ rows[h].due}

(* SmsMessageDao.claimBatch only reads.                                    *)
ClaimBatch(d, batch) ==
    /\ drainers[d].step = "CLAIM" /\ batch \subseteq DueForUpload /\ batch # {}
    /\ Cardinality(batch) = MaxBatch \/ (batch = DueForUpload /\ Cardinality(batch) < MaxBatch)
    /\ Become(d, [step |-> "MARK", sent |-> [h \in batch |-> rows[h].attempts]])
    /\ UNCHANGED <<inbox, rows, uploadWork, uploads, smsLogs, stable>>

ClaimNothing(d) ==
    /\ drainers[d].step = "CLAIM" /\ DueForUpload = {}
    /\ EndRun(d, "DRAINED")
    /\ UNCHANGED <<inbox, rows, uploads, smsLogs, stable>>

(* markUploading, whatever the rows have become, then the request.         *)
MarkUploading(d) ==
    /\ drainers[d].step = "MARK" /\ ~Working(d)
    /\ LET batch == DOMAIN drainers[d].sent
       IN  /\ rows' = [h \in Hashes |-> IF h \in batch /\ rows[h].status # "ABSENT"
                                        THEN [rows[h] EXCEPT !.status = "UPLOADING"] ELSE rows[h]]
           /\ Answer(d, [step |-> "NEXT", todo |-> batch, results |-> << >>])
    /\ Become(d, [drainers[d] EXCEPT !.step = "WAIT"])
    /\ UNCHANGED <<inbox, uploadWork, smsLogs, stable>>

-----------------------------------------------------------------------------
(* The server.                                                             *)
Result(request, h, status) ==
    [x \in DOMAIN request.results \cup {h} |->
        IF x = h THEN status ELSE request.results[x]]
Resulted(request, h, status) ==
    [step |-> "NEXT", todo |-> request.todo, results |-> Result(request, h, status)]

(* Mutant of FindDuplicate: what another request is about to insert counts *)
(* as stored.                                                              *)
FindDuplicateInFlight(d, h) ==
    /\ uploads[d].step = "NEXT" /\ h \in uploads[d].todo
    /\ LET request == [uploads[d] EXCEPT !.todo = @ \ {h}]
           inFlight == \E c \in Drainers \ {d} :
                          uploads[c].step = "INSERT" /\ TextOf(uploads[c].hash) = TextOf(h)
       IN  Answer(d, IF Stored(TextOf(h)) \/ inFlight THEN Resulted(request, h, "DUPLICATE")
                     ELSE [step |-> "INSERT", todo |-> request.todo, hash |-> h,
                           results |-> request.results])
    /\ UNCHANGED <<inbox, rows, drainers, uploadWork, smsLogs, stable>>

(* ingestOne: the look-up by content hash, the same for both client hashes *)
(* of a message.                                                           *)
FindDuplicate(d, h) ==
    /\ uploads[d].step = "NEXT" /\ h \in uploads[d].todo
    /\ LET request == [uploads[d] EXCEPT !.todo = @ \ {h}]
       IN  Answer(d, IF Stored(TextOf(h)) THEN Resulted(request, h, "DUPLICATE")
                     ELSE [step |-> "INSERT", todo |-> request.todo, hash |-> h,
                           results |-> request.results])
    /\ UNCHANGED <<inbox, rows, drainers, uploadWork, smsLogs, stable>>

(* smsLog.create: the unique client hash turns a second insert into        *)
(* DUPLICATE.                                                              *)
InsertLog(d) ==
    /\ uploads[d].step = "INSERT"
    /\ LET h == uploads[d].hash
       IN  IF Logged(h)
           THEN /\ Answer(d, Resulted(uploads[d], h, "DUPLICATE"))
                /\ UNCHANGED smsLogs
           ELSE /\ Answer(d, [uploads[d] EXCEPT !.step = "EXTRACT"])
                /\ smsLogs' = [smsLogs EXCEPT ![h] = "RAW"]
    /\ UNCHANGED <<inbox, rows, drainers, uploadWork, stable>>

(* The extraction, the matching run and the settle write, which module     *)
(* Verification takes apart.                                               *)
Extract(d) ==
    /\ uploads[d].step = "EXTRACT"
    /\ smsLogs' = [smsLogs EXCEPT ![uploads[d].hash] = "DONE"]
    /\ Answer(d, Resulted(uploads[d], uploads[d].hash, "ACCEPTED"))
    /\ UNCHANGED <<inbox, rows, drainers, uploadWork, stable>>

(* An answer or a failure nobody waits for any more is forgotten.          *)
Deliver(d, answer) == Answer(d, IF Waiting(d) THEN answer ELSE NoUpload)

EndUpload(d) ==
    /\ uploads[d].step = "NEXT" /\ uploads[d].todo = {}
    /\ Deliver(d, [step |-> "ANSWERED", results |-> uploads[d].results])
    /\ UNCHANGED <<inbox, rows, drainers, uploadWork, smsLogs, stable>>

-----------------------------------------------------------------------------
(* The phone reads the answer; a batch below the limit was the last.       *)
ReadAnswer(d) ==
    /\ Waiting(d) /\ uploads[d].step = "ANSWERED"
    /\ LET sent == drainers[d].sent
       IN  Become(d, [step |-> "SETTLE", outcomes |-> Settle(sent, uploads[d].results),
                      then |-> IF Cardinality(DOMAIN sent) < MaxBatch THEN "DRAINED" ELSE "CLAIM"])
    /\ Answer(d, NoUpload)
    /\ UNCHANGED <<inbox, rows, uploadWork, smsLogs, stable>>

Fail(d, kind) ==
    Become(d, [step |-> "SETTLE", outcomes |-> FailWholeBatch(drainers[d].sent, kind),
               then |-> IF kind = "UNAUTHENTICATED" THEN "NEEDS_REENROLL" ELSE "RETRY"])

ReadFailure(d) ==
    /\ Waiting(d) /\ uploads[d].step = "FAILED"
    /\ Fail(d, uploads[d].kind)
    /\ Answer(d, NoUpload)
    /\ UNCHANGED <<inbox, rows, uploadWork, smsLogs, stable>>

(* SmsMessageDao.settle updates by hash, whatever the row has become.      *)
SettledRow(h, outcome) ==
    IF rows[h].status = "ABSENT" THEN rows
    ELSE [rows EXCEPT ![h].status = outcome.status, ![h].attempts = outcome.attempts,
                      ![h].due = outcome.due, ![h].old = FALSE]

(* UploadPending.persist, row by row.                                      *)
Persist(d, h) ==
    /\ drainers[d].step = "SETTLE" /\ h \in DOMAIN drainers[d].outcomes
    /\ LET outcomes == drainers[d].outcomes
           rest == DOMAIN outcomes \ {h}
           then == drainers[d].then
       IN  /\ rows' = SettledRow(h, outcomes[h])
           /\ IF rest # {}
              THEN /\ Become(d, [drainers[d] EXCEPT !.outcomes = [x \in rest |-> outcomes[x]]])
                   /\ UNCHANGED uploadWork
              ELSE IF then = "CLAIM" THEN Become(d, Claiming) /\ UNCHANGED uploadWork
              ELSE EndRun(d, then)
    /\ UNCHANGED <<inbox, uploads, smsLogs, stable>>

(* Mutant of Purge: age alone decides.                                     *)
PurgeByAge(h) ==
    /\ rows[h].status # "ABSENT" /\ inbox[TextOf(h)] = "PAST"
    /\ rows' = [rows EXCEPT ![h] = NoRow]
    /\ UNCHANGED <<inbox, drainers, uploadWork, uploads, smsLogs, stable>>

(* PurgeWorker, 30 days after the capture.                                 *)
Purge(h) ==
    /\ rows[h].status = "UPLOADED" /\ inbox[TextOf(h)] = "PAST"
    /\ rows' = [rows EXCEPT ![h] = NoRow]
    /\ UNCHANGED <<inbox, drainers, uploadWork, uploads, smsLogs, stable>>

-----------------------------------------------------------------------------
(* The clock: next_attempt_at passes, a message grows older than the       *)
(* stale-claim timeout, and one that has a row leaves the scanned days.    *)
Wake(h) ==
    /\ rows[h].status = "PENDING" /\ ~rows[h].due
    /\ rows' = [rows EXCEPT ![h].due = TRUE]
    /\ UNCHANGED <<inbox, drainers, uploadWork, uploads, smsLogs, stable>>

GrowOld(h) ==
    /\ rows[h].status = "UPLOADING" /\ ~rows[h].old
    /\ rows' = [rows EXCEPT ![h].old = TRUE]
    /\ UNCHANGED <<inbox, drainers, uploadWork, uploads, smsLogs, stable>>

LeaveWindow(m) ==
    /\ inbox[m] = "RECENT"
    /\ \E h \in Hashes : TextOf(h) = m /\ rows[h].status # "ABSENT"
    /\ inbox' = [inbox EXCEPT ![m] = "PAST"]
    /\ UNCHANGED <<rows, drainers, uploadWork, uploads, smsLogs, stable>>

(* Faults.  A guard refuses the request, or it is lost, or the server      *)
(* fails in the middle of it, or its answer is lost.                       *)
TurnAway(d, refusal) ==
    /\ ~stable /\ uploads[d].step = "NEXT" /\ uploads[d].results = << >>
    /\ Deliver(d, Broken(RefusalEvent(refusal)))
    /\ UNCHANGED <<inbox, rows, drainers, uploadWork, smsLogs, stable>>

Break(d) ==
    /\ ~stable /\ (Working(d) \/ uploads[d].step = "ANSWERED")
    /\ Deliver(d, Broken("TRANSPORT"))
    /\ UNCHANGED <<inbox, rows, drainers, uploadWork, smsLogs, stable>>

(* The phone gives up waiting; the server goes on.                         *)
TimeOut(d) ==
    /\ ~stable /\ Waiting(d) /\ Working(d)
    /\ Fail(d, "TRANSPORT")
    /\ UNCHANGED <<inbox, rows, uploadWork, uploads, smsLogs, stable>>

(* The process is killed, with every worker; WorkManager runs interrupted  *)
(* work again.                                                             *)
Kill ==
    /\ ~stable /\ \E d \in Drainers : drainers[d] # Idle
    /\ uploadWork' = (uploadWork \/ ("UPLOAD" \in Drainers /\ drainers["UPLOAD"] # Idle))
    /\ drainers' = [d \in Drainers |-> Idle]
    /\ uploads' = [d \in Drainers |-> IF Working(d) THEN uploads[d] ELSE NoUpload]
    /\ UNCHANGED <<inbox, rows, smsLogs, stable>>

(* From some time on nothing fails any more, and the app has its rules.    *)
Stabilise ==
    /\ ~stable /\ stable' = TRUE
    /\ UNCHANGED <<inbox, rows, drainers, uploadWork, uploads, smsLogs>>

-----------------------------------------------------------------------------
DrainStep(d) ==
    \/ \E batch \in SUBSET Hashes : ClaimBatch(d, batch)
    \/ ClaimNothing(d) \/ MarkUploading(d) \/ ReadAnswer(d) \/ ReadFailure(d)
    \/ \E h \in Hashes : ScanMessage(d, h) \/ Persist(d, h)
    \/ EndScan(d)

ServerStep(d) ==
    \/ InsertLog(d) \/ Extract(d) \/ EndUpload(d)
    \/ \E h \in Hashes : FindDuplicate(d, h)

FaultStep(d) ==
    \/ Break(d) \/ TimeOut(d)
    \/ \E refusal \in Refusals : TurnAway(d, refusal)

TimePasses == \E h \in Hashes : Wake(h) \/ GrowOld(h)

SyncNext ==
    \/ \E m \in Texts, heard, scheduled \in BOOLEAN : Receive(m, heard, scheduled)
    \/ StartUpload
    \/ \E d \in Drainers : StartSync(d) \/ DrainStep(d) \/ ServerStep(d) \/ FaultStep(d)
    \/ \E h \in Hashes : Purge(h)
    \/ TimePasses
    \/ \E m \in Texts : LeaveWindow(m)
    \/ Kill \/ Stabilise

SyncSpec == SyncInit /\ [][SyncNext]_syncVars

-----------------------------------------------------------------------------
SyncTypeOK ==
    /\ inbox \in [Texts -> {"NEW", "RECENT", "PAST"}]
    /\ rows \in [Hashes -> Row]
    /\ drainers \in [Drainers -> Drainer]
    /\ uploadWork \in BOOLEAN
    /\ uploads \in [Drainers -> Upload]
    /\ smsLogs \in [Hashes -> {"NONE", "RAW", "DONE"}]
    /\ stable \in BOOLEAN

(* A row the phone shows as UPLOADED, and may purge, is on the server      *)
(* (Settlement.settle against ingestOne), whichever drainers overlapped,   *)
(* whatever answer came late and whichever side died.                      *)
UploadedIsStored ==
    \A h \in Hashes : rows[h].status = "UPLOADED" => Stored(TextOf(h))

(* "Nothing here ever drops a message" (SyncStateMachine.kt:48): the phone *)
(* still has a message to upload, in its queue or in the inbox it scans,   *)
(* until the server has it.                                                *)
Kept(m) ==
    \/ inbox[m] = "RECENT"
    \/ \E h \in Hashes : TextOf(h) = m /\ rows[h].status \in {"PENDING", "UPLOADING", "FAILED"}
NeverDropped == \A m \in Texts : inbox[m] # "NEW" => Kept(m) \/ Stored(m)

(* The queue and the endpoint implement the hand-over of Handover.         *)
Keeping == {m \in Texts : Kept(m)}
StoredTexts == {m \in Texts : Stored(m)}
HO == INSTANCE Handover WITH kept <- Keeping, stored <- StoredTexts
HandoverHolds == HO!HandoverSpec

(* "An SMS captured on the phone eventually reaches the server"            *)
(* (architecture.md:1206), once nothing fails any more, and the phone      *)
(* learns it: no row stays claimed, failed or pending.                     *)
HandedOver(m) ==
    /\ Stored(m)
    /\ \A h \in Hashes : TextOf(h) = m => rows[h].status \in {"ABSENT", "UPLOADED"}
EventuallyHandedOver ==
    \A m \in Texts : (stable /\ inbox[m] # "NEW") ~> [](HandedOver(m))

(* "delays but never loses verification" (architecture.md:1213): what the  *)
(* phone has settled has been extracted and matched, or is about to be.    *)
Processed(m) ==
    \/ \E h \in Hashes : TextOf(h) = m /\ smsLogs[h] = "DONE"
    \/ \E d \in Drainers : uploads[d].step = "EXTRACT" /\ TextOf(uploads[d].hash) = m
UploadedIsProcessed ==
    \A h \in Hashes : rows[h].status = "UPLOADED" => Processed(TextOf(h))

(* "The same SMS is never counted twice" (architecture.md:1207).           *)
CountedOnce ==
    \A m \in Texts : Cardinality({h \in Hashes : TextOf(h) = m /\ Logged(h)}) <= 1
=============================================================================
