--------------------------- MODULE SyncEngine_proofs --------------------------
(***************************************************************************)
(* Proofs about the upload queue and the ingestion endpoint, for any       *)
(* number of messages, any batch size and any number of attempts.          *)
(***************************************************************************)
EXTENDS SyncEngine, FiniteSetTheorems, TLAPS

-----------------------------------------------------------------------------
(* Partial functions.                                                      *)
LEMMA PartialIntro ==
    ASSUME NEW S, NEW T, NEW D \in SUBSET S, NEW f \in [D -> T]
    PROVE  f \in PartialFunctions(S, T)
BY DEF PartialFunctions

LEMMA PartialElim ==
    ASSUME NEW S, NEW T, NEW f \in PartialFunctions(S, T)
    PROVE  DOMAIN f \in SUBSET S /\ f \in [DOMAIN f -> T]
BY DEF PartialFunctions

LEMMA PartialEmpty ==
    ASSUME NEW S, NEW T
    PROVE  << >> \in PartialFunctions(S, T) /\ DOMAIN << >> = {}
<1>1. << >> \in [{} -> T]
  OBVIOUS
<1>2. DOMAIN << >> = {}
  OBVIOUS
<1> QED
  BY <1>1, <1>2, PartialIntro

(* What a transition makes of a row that is sent.                          *)
LEMMA TransitionTyped ==
    ASSUME NEW a \in Attempts, NEW event \in ResultStatus \cup AllFailures
    PROVE  /\ Transition(Sent(a), event) \in SyncState
           /\ event \in AllFailures => Transition(Sent(a), event).status \in {"PENDING", "FAILED"}
<1> DEFINE state == Sent(a)
<1>1. state = [status |-> "PENDING", attempts |-> a, due |-> TRUE]
  BY DEF Sent
<1>2. state \in SyncState
  BY <1>1 DEF SyncState, SyncStatus
<1>3. MaxAttempts \in Nat
  BY SyncAssumption
<1> HIDE DEF state
<1>4. CASE event \in {"ACCEPTED", "DUPLICATE"}
  <2>1. Transition(state, event) = [status |-> "UPLOADED", attempts |-> a, due |-> TRUE]
    BY <1>1, <1>4 DEF Transition
  <2> QED
    BY <1>4, <2>1 DEF state, SyncState, SyncStatus, AllFailures
<1>5. CASE event \in {"REJECTED"}
  <2>1. Transition(state, event) = [status |-> "REJECTED", attempts |-> a, due |-> TRUE]
    BY <1>1, <1>5 DEF Transition
  <2> QED
    BY <1>5, <2>1 DEF state, SyncState, SyncStatus, AllFailures
<1>6. CASE event \in {"UNAUTHENTICATED"}
  <2>1. Transition(state, event) = [status |-> "PENDING", attempts |-> a, due |-> TRUE]
    BY <1>1, <1>6 DEF Transition
  <2> QED
    BY <1>6, <2>1 DEF state, SyncState, SyncStatus, AllFailures
<1>7. CASE event \in {"FORBIDDEN", "RATE_LIMITED"}
  <2>1. Transition(state, event) = [status |-> "PENDING", attempts |-> a, due |-> FALSE]
    BY <1>1, <1>7 DEF Transition
  <2> QED
    BY <1>7, <2>1 DEF state, SyncState, SyncStatus, AllFailures
<1>8. CASE event = "TRANSPORT"
  <2>1. state.attempts = a
    BY <1>1
  <2> DEFINE status == IF a + 1 > MaxAttempts THEN "FAILED" ELSE "PENDING"
             attempts == IF a > MaxAttempts THEN a ELSE a + 1
  <2>2. Transition(state, event) = [status |-> status, attempts |-> attempts, due |-> FALSE]
    BY <1>8, <2>1 DEF Transition
  <2>3. attempts \in Attempts
    BY <1>3 DEF Attempts
  <2>4. status \in {"PENDING", "FAILED"}
    OBVIOUS
  <2> HIDE DEF status, attempts
  <2> QED
    BY <2>2, <2>3, <2>4 DEF state, SyncState, SyncStatus
<1> QED
  BY <1>4, <1>5, <1>6, <1>7, <1>8 DEF state, ResultStatus, AllFailures

(* What a drainer writes back after an answer, and after a failure.        *)
LEMMA SettleTyped ==
    ASSUME NEW sent \in PartialFunctions(Hashes, Attempts),
           NEW results \in PartialFunctions(Hashes, ResultStatus)
    PROVE  /\ Settle(sent, results) \in PartialFunctions(Hashes, SyncState)
           /\ DOMAIN Settle(sent, results) = DOMAIN sent
           /\ \A h \in DOMAIN sent : h \notin DOMAIN results =>
                 Settle(sent, results)[h].status = "PENDING"
<1>1. DOMAIN sent \in SUBSET Hashes /\ sent \in [DOMAIN sent -> Attempts]
  BY PartialElim
<1>2. results \in [DOMAIN results -> ResultStatus]
  BY PartialElim
<1>3. ASSUME NEW h \in DOMAIN sent
      PROVE  /\ sent[h] \in Attempts
             /\ Sent(sent[h]) \in SyncState /\ Sent(sent[h]).status = "PENDING"
  BY <1>1 DEF Sent, SyncState, SyncStatus
<1>4. ASSUME NEW h \in DOMAIN sent, h \in DOMAIN results
      PROVE  Transition(Sent(sent[h]), results[h]) \in SyncState
  BY <1>2, <1>3, <1>4, TransitionTyped
<1>5. Settle(sent, results) \in [DOMAIN sent -> SyncState]
  BY <1>3, <1>4 DEF Settle
<1> QED
  BY <1>1, <1>3, <1>5, PartialIntro DEF Settle

LEMMA FailTyped ==
    ASSUME NEW sent \in PartialFunctions(Hashes, Attempts), NEW kind \in AllFailures
    PROVE  /\ FailWholeBatch(sent, kind) \in PartialFunctions(Hashes, SyncState)
           /\ DOMAIN FailWholeBatch(sent, kind) = DOMAIN sent
           /\ \A h \in DOMAIN sent : FailWholeBatch(sent, kind)[h].status \in {"PENDING", "FAILED"}
<1>1. DOMAIN sent \in SUBSET Hashes /\ sent \in [DOMAIN sent -> Attempts]
  BY PartialElim
<1>2. ASSUME NEW h \in DOMAIN sent
      PROVE  /\ Transition(Sent(sent[h]), kind) \in SyncState
             /\ Transition(Sent(sent[h]), kind).status \in {"PENDING", "FAILED"}
  BY <1>1, TransitionTyped
<1>3. FailWholeBatch(sent, kind) \in [DOMAIN sent -> SyncState]
  BY <1>2 DEF FailWholeBatch
<1> QED
  BY <1>1, <1>2, <1>3, PartialIntro DEF FailWholeBatch

(* A record with one field replaced.                                       *)
LEMMA OtherTodo ==
    ASSUME NEW state, NEW todo, state = [step |-> "SCAN", todo |-> todo], NEW rest
    PROVE  [state EXCEPT !.todo = rest] = [step |-> "SCAN", todo |-> rest]
OBVIOUS

LEMMA OtherOutcomes ==
    ASSUME NEW state, NEW outcomes, NEW then, NEW left,
           state = [step |-> "SETTLE", outcomes |-> outcomes, then |-> then]
    PROVE  [state EXCEPT !.outcomes = left] = [step |-> "SETTLE", outcomes |-> left, then |-> then]
OBVIOUS

LEMMA OtherRequest ==
    ASSUME NEW state, NEW todo, NEW results, NEW rest,
           state = [step |-> "NEXT", todo |-> todo, results |-> results]
    PROVE  /\ [state EXCEPT !.todo = rest].todo = rest
           /\ [state EXCEPT !.todo = rest].results = results
OBVIOUS

LEMMA OtherStep ==
    ASSUME NEW state, NEW todo, NEW hash, NEW results, NEW step,
           state = [step |-> "INSERT", todo |-> todo, hash |-> hash, results |-> results]
    PROVE  [state EXCEPT !.step = step]
             = [step |-> step, todo |-> todo, hash |-> hash, results |-> results]
OBVIOUS

(* The fields of a drainer's and of a request's state, by its step.        *)
LEMMA ScanState ==
    ASSUME SyncTypeOK, NEW d \in Drainers, drainers[d].step = "SCAN"
    PROVE  /\ drainers[d].todo \in SUBSET Hashes
           /\ drainers[d] = [step |-> "SCAN", todo |-> drainers[d].todo]
BY DEF SyncTypeOK, Drainer

LEMMA SentState ==
    ASSUME SyncTypeOK, NEW d \in Drainers, drainers[d].step \in {"MARK", "WAIT"}
    PROVE  /\ drainers[d].sent \in PartialFunctions(Hashes, Attempts)
           /\ drainers[d] = [step |-> drainers[d].step, sent |-> drainers[d].sent]
BY DEF SyncTypeOK, Drainer

LEMMA SettleState ==
    ASSUME SyncTypeOK, NEW d \in Drainers, drainers[d].step = "SETTLE"
    PROVE  /\ drainers[d].outcomes \in PartialFunctions(Hashes, SyncState)
           /\ drainers[d].then \in DrainOutcome \cup {"CLAIM"}
           /\ drainers[d] = [step |-> "SETTLE", outcomes |-> drainers[d].outcomes,
                             then |-> drainers[d].then]
BY DEF SyncTypeOK, Drainer

LEMMA NextState ==
    ASSUME SyncTypeOK, NEW d \in Drainers, uploads[d].step = "NEXT"
    PROVE  /\ uploads[d].todo \in SUBSET Hashes
           /\ uploads[d].results \in PartialFunctions(Hashes, ResultStatus)
           /\ uploads[d] = [step |-> "NEXT", todo |-> uploads[d].todo,
                            results |-> uploads[d].results]
BY DEF SyncTypeOK, Upload

LEMMA OneState ==
    ASSUME SyncTypeOK, NEW d \in Drainers, uploads[d].step \in {"INSERT", "EXTRACT"}
    PROVE  /\ uploads[d].todo \in SUBSET Hashes
           /\ uploads[d].hash \in Hashes
           /\ uploads[d].results \in PartialFunctions(Hashes, ResultStatus)
           /\ uploads[d] = [step |-> uploads[d].step, todo |-> uploads[d].todo,
                            hash |-> uploads[d].hash, results |-> uploads[d].results]
BY DEF SyncTypeOK, Upload

LEMMA AnsweredState ==
    ASSUME SyncTypeOK, NEW d \in Drainers, uploads[d].step = "ANSWERED"
    PROVE  uploads[d].results \in PartialFunctions(Hashes, ResultStatus)
BY DEF SyncTypeOK, Upload

LEMMA FailedState ==
    ASSUME SyncTypeOK, NEW d \in Drainers, uploads[d].step = "FAILED"
    PROVE  uploads[d].kind \in AllFailures
BY DEF SyncTypeOK, Upload

-----------------------------------------------------------------------------
(* Typing.  The states a worker and its request can pass to, then the      *)
(* statements that write rows.                                             *)
LEMMA BecomeTyped ==
    ASSUME SyncTypeOK, NEW d \in Drainers, NEW state \in Drainer, Become(d, state)
    PROVE  drainers' \in [Drainers -> Drainer]
BY DEF SyncTypeOK, Become

LEMMA AnswerTyped ==
    ASSUME SyncTypeOK, NEW d \in Drainers, NEW state \in Upload, Answer(d, state)
    PROVE  uploads' \in [Drainers -> Upload]
BY DEF SyncTypeOK, Answer

LEMMA RestStates ==
    /\ Idle \in Drainer /\ Claiming \in Drainer /\ NoUpload \in Upload
    /\ \A kind \in AllFailures : Broken(kind) \in Upload
BY DEF Idle, Claiming, NoUpload, Broken, Drainer, Upload

LEMMA EndRunTyped ==
    ASSUME SyncTypeOK, NEW d \in Drainers, NEW outcome, EndRun(d, outcome)
    PROVE  drainers' \in [Drainers -> Drainer] /\ uploadWork' \in BOOLEAN
<1>1. drainers' \in [Drainers -> Drainer]
  BY BecomeTyped, RestStates DEF EndRun
<1>2. uploadWork' \in BOOLEAN
  BY Zenon DEF EndRun, SyncTypeOK
<1> QED
  BY <1>1, <1>2

LEMMA ResultedTyped ==
    ASSUME NEW todo \in SUBSET Hashes, NEW results \in PartialFunctions(Hashes, ResultStatus),
           NEW h \in Hashes, NEW status \in ResultStatus,
           NEW request, request.todo = todo, request.results = results
    PROVE  /\ Resulted(request, h, status) \in Upload
           /\ DOMAIN Result(request, h, status) = DOMAIN results \cup {h}
           /\ Resulted(request, h, status) =
                [step |-> "NEXT", todo |-> todo, results |-> Result(request, h, status)]
<1>1. results \in [DOMAIN results -> ResultStatus] /\ DOMAIN results \cup {h} \in SUBSET Hashes
  BY PartialElim
<1>2. Result(request, h, status) \in [DOMAIN results \cup {h} -> ResultStatus]
  BY <1>1 DEF Result
<1>3. Result(request, h, status) \in PartialFunctions(Hashes, ResultStatus)
  BY <1>1, <1>2, PartialIntro
<1> QED
  BY <1>2, <1>3 DEF Resulted, Upload

LEMMA RowTyped ==
    /\ Captured \in Row /\ NoRow \in Row
    /\ \A row \in Row :
          /\ [row EXCEPT !.status = "UPLOADING"] \in Row
          /\ [row EXCEPT !.status = "PENDING", !.due = TRUE, !.old = FALSE] \in Row
          /\ [row EXCEPT !.status = "PENDING", !.due = TRUE, !.attempts = 0] \in Row
          /\ [row EXCEPT !.due = TRUE] \in Row
          /\ [row EXCEPT !.old = TRUE] \in Row
<1>1. 0 \in Attempts
  BY SyncAssumption DEF Attempts
<1> QED
  BY <1>1 DEF Captured, NoRow, Row, SyncStatus

LEMMA TablesTyped ==
    ASSUME NEW table \in [Hashes -> Row]
    PROVE  Reclaimed(table) \in [Hashes -> Row] /\ Requeued(table) \in [Hashes -> Row]
BY RowTyped DEF Reclaimed, Requeued

LEMMA HashesOf ==
    \A m \in Texts : HeardHash(m) \in Hashes /\ ScannedHash(m) \in Hashes
BY DEF HeardHash, ScannedHash, Hashes

LEMMA TextsOf ==
    \A h \in Hashes : TextOf(h) \in Texts
BY DEF TextOf, Hashes

LEMMA InitTyped == SyncInit => SyncTypeOK
BY RestStates, RowTyped DEF SyncInit, SyncTypeOK

(* The statements of the workers.                                          *)
LEMMA ReceiveTyped ==
    ASSUME SyncTypeOK, NEW m \in Texts, NEW heard \in BOOLEAN, NEW scheduled \in BOOLEAN,
           Receive(m, heard, scheduled)
    PROVE  SyncTypeOK'
<1>1. uploadWork' \in BOOLEAN
  BY Zenon DEF Receive, SyncTypeOK
<1>2. rows' \in [Hashes -> Row]
  BY RowTyped, HashesOf DEF Receive, SyncTypeOK
<1>3. inbox' \in [Texts -> {"NEW", "RECENT", "PAST"}]
  BY DEF Receive, SyncTypeOK
<1> QED
  BY <1>1, <1>2, <1>3 DEF Receive, SyncTypeOK

LEMMA StartUploadTyped ==
    ASSUME SyncTypeOK, StartUpload
    PROVE  SyncTypeOK'
<1>1. drainers' \in [Drainers -> Drainer]
  BY BecomeTyped, RestStates DEF StartUpload
<1>2. rows' \in [Hashes -> Row]
  BY TablesTyped DEF StartUpload, SyncTypeOK
<1> QED
  BY <1>1, <1>2 DEF StartUpload, SyncTypeOK

LEMMA StartSyncTyped ==
    ASSUME SyncTypeOK, NEW d \in Drainers, StartSync(d)
    PROVE  SyncTypeOK'
<1>2. PICK todo \in {InInbox, {}} : Become(d, [step |-> "SCAN", todo |-> todo])
  BY DEF StartSync
<1>1. todo \in SUBSET Hashes
  BY HashesOf DEF InInbox
<1>3. [step |-> "SCAN", todo |-> todo] \in Drainer
  BY <1>1 DEF Drainer
<1>4. drainers' \in [Drainers -> Drainer]
  BY <1>2, <1>3, BecomeTyped
<1>5. rows' \in [Hashes -> Row]
  BY TablesTyped DEF StartSync, SyncTypeOK
<1> QED
  BY <1>4, <1>5 DEF StartSync, SyncTypeOK

LEMMA ScanMessageTyped ==
    ASSUME SyncTypeOK, NEW d \in Drainers, NEW h \in Hashes, ScanMessage(d, h)
    PROVE  SyncTypeOK'
<1>1. drainers[d].step = "SCAN"
  BY DEF ScanMessage
<1> DEFINE rest == drainers[d].todo \ {h}
<1>2. [drainers[d] EXCEPT !.todo = @ \ {h}] \in Drainer
  <2>1. rest \in SUBSET Hashes
    BY <1>1, ScanState
  <2>2. drainers[d] = [step |-> "SCAN", todo |-> drainers[d].todo]
    BY <1>1, ScanState
  <2>3. [drainers[d] EXCEPT !.todo = rest] = [step |-> "SCAN", todo |-> rest]
    BY <2>2, OtherTodo
  <2>4. [step |-> "SCAN", todo |-> rest] \in Drainer
    BY <2>1 DEF Drainer
  <2> QED
    BY <2>3, <2>4
<1>3. drainers' \in [Drainers -> Drainer]
  BY <1>2, BecomeTyped DEF ScanMessage
<1>4. rows' \in [Hashes -> Row]
  BY RowTyped DEF ScanMessage, SyncTypeOK
<1>5. uploadWork' \in BOOLEAN
  BY Zenon DEF ScanMessage, SyncTypeOK
<1> QED
  BY <1>3, <1>4, <1>5 DEF ScanMessage, SyncTypeOK

LEMMA EndScanTyped ==
    ASSUME SyncTypeOK, NEW d \in Drainers, EndScan(d)
    PROVE  SyncTypeOK'
<1>1. drainers' \in [Drainers -> Drainer]
  BY BecomeTyped, RestStates DEF EndScan
<1>2. rows' \in [Hashes -> Row]
  BY TablesTyped DEF EndScan, SyncTypeOK
<1> QED
  BY <1>1, <1>2 DEF EndScan, SyncTypeOK

LEMMA ClaimBatchTyped ==
    ASSUME SyncTypeOK, NEW d \in Drainers, NEW batch \in SUBSET Hashes, ClaimBatch(d, batch)
    PROVE  SyncTypeOK'
<1> DEFINE sent == [h \in batch |-> rows[h].attempts]
<1>1. sent \in [batch -> Attempts]
  BY DEF SyncTypeOK, Row
<1>2. Become(d, [step |-> "MARK", sent |-> sent])
  BY DEF ClaimBatch
<1>3. sent \in PartialFunctions(Hashes, Attempts)
  BY <1>1, PartialIntro
<1> HIDE DEF sent
<1>4. [step |-> "MARK", sent |-> sent] \in Drainer
  BY <1>3 DEF Drainer
<1>5. drainers' \in [Drainers -> Drainer]
  BY <1>2, <1>4, BecomeTyped
<1> QED
  BY <1>5 DEF ClaimBatch, SyncTypeOK

LEMMA ClaimNothingTyped ==
    ASSUME SyncTypeOK, NEW d \in Drainers, ClaimNothing(d)
    PROVE  SyncTypeOK'
<1>1. drainers' \in [Drainers -> Drainer] /\ uploadWork' \in BOOLEAN
  BY EndRunTyped DEF ClaimNothing
<1> QED
  BY <1>1 DEF ClaimNothing, SyncTypeOK

LEMMA MarkUploadingTyped ==
    ASSUME SyncTypeOK, NEW d \in Drainers, MarkUploading(d)
    PROVE  SyncTypeOK'
<1> DEFINE batch == DOMAIN drainers[d].sent
<1>1. drainers[d].step = "MARK"
  BY DEF MarkUploading
<1>2. /\ drainers[d].sent \in PartialFunctions(Hashes, Attempts)
      /\ drainers[d] = [step |-> "MARK", sent |-> drainers[d].sent]
  BY <1>1, SentState
<1>3. batch \in SUBSET Hashes
  BY <1>2, PartialElim
<1>4. << >> \in PartialFunctions(Hashes, ResultStatus)
  BY PartialEmpty
<1>5. [drainers[d] EXCEPT !.step = "WAIT"] \in Drainer
  BY <1>2 DEF Drainer
<1>6. Answer(d, [step |-> "NEXT", todo |-> batch, results |-> << >>])
  BY DEF MarkUploading
<1>7. rows' \in [Hashes -> Row]
  BY RowTyped DEF MarkUploading, SyncTypeOK
<1> HIDE DEF batch
<1>8. [step |-> "NEXT", todo |-> batch, results |-> << >>] \in Upload
  BY <1>3, <1>4 DEF Upload
<1>9. uploads' \in [Drainers -> Upload]
  BY <1>6, <1>8, AnswerTyped
<1>10. drainers' \in [Drainers -> Drainer]
  BY <1>5, BecomeTyped DEF MarkUploading
<1> QED
  BY <1>7, <1>9, <1>10 DEF MarkUploading, SyncTypeOK

LEMMA SettlingTyped ==
    ASSUME NEW outcomes \in PartialFunctions(Hashes, SyncState),
           NEW then \in DrainOutcome \cup {"CLAIM"}
    PROVE  [step |-> "SETTLE", outcomes |-> outcomes, then |-> then] \in Drainer
BY DEF Drainer

LEMMA FailRunTyped ==
    ASSUME SyncTypeOK, NEW d \in Drainers, drainers[d].step = "WAIT",
           NEW kind \in AllFailures, Fail(d, kind)
    PROVE  drainers' \in [Drainers -> Drainer]
<1> DEFINE outcomes == FailWholeBatch(drainers[d].sent, kind)
           then == IF kind = "UNAUTHENTICATED" THEN "NEEDS_REENROLL" ELSE "RETRY"
<1>1. drainers[d].sent \in PartialFunctions(Hashes, Attempts)
  BY SentState
<1>2. outcomes \in PartialFunctions(Hashes, SyncState)
  BY <1>1, FailTyped
<1>3. then \in DrainOutcome \cup {"CLAIM"}
  BY DEF DrainOutcome
<1>4. Become(d, [step |-> "SETTLE", outcomes |-> outcomes, then |-> then])
  BY DEF Fail
<1> HIDE DEF outcomes, then
<1> QED
  BY <1>2, <1>3, <1>4, SettlingTyped, BecomeTyped

LEMMA ReadAnswerTyped ==
    ASSUME SyncTypeOK, NEW d \in Drainers, ReadAnswer(d)
    PROVE  SyncTypeOK'
<1> DEFINE sent == drainers[d].sent
           outcomes == Settle(sent, uploads[d].results)
           then == IF Cardinality(DOMAIN sent) < MaxBatch THEN "DRAINED" ELSE "CLAIM"
<1>1. sent \in PartialFunctions(Hashes, Attempts)
  BY SentState DEF ReadAnswer, Waiting
<1>2. uploads[d].results \in PartialFunctions(Hashes, ResultStatus)
  BY AnsweredState DEF ReadAnswer
<1>3. outcomes \in PartialFunctions(Hashes, SyncState)
  BY <1>1, <1>2, SettleTyped
<1>4. then \in DrainOutcome \cup {"CLAIM"}
  BY DEF DrainOutcome
<1>5. Become(d, [step |-> "SETTLE", outcomes |-> outcomes, then |-> then])
  BY DEF ReadAnswer
<1>6. uploads' \in [Drainers -> Upload]
  BY AnswerTyped, RestStates DEF ReadAnswer
<1> HIDE DEF outcomes, then
<1>7. drainers' \in [Drainers -> Drainer]
  BY <1>3, <1>4, <1>5, SettlingTyped, BecomeTyped
<1> QED
  BY <1>6, <1>7 DEF ReadAnswer, SyncTypeOK

LEMMA ReadFailureTyped ==
    ASSUME SyncTypeOK, NEW d \in Drainers, ReadFailure(d)
    PROVE  SyncTypeOK'
<1>1. drainers' \in [Drainers -> Drainer]
  BY FailRunTyped, FailedState DEF ReadFailure, Waiting
<1>2. uploads' \in [Drainers -> Upload]
  BY AnswerTyped, RestStates DEF ReadFailure
<1> QED
  BY <1>1, <1>2 DEF ReadFailure, SyncTypeOK

LEMMA TimeOutTyped ==
    ASSUME SyncTypeOK, NEW d \in Drainers, TimeOut(d)
    PROVE  SyncTypeOK'
<1>1. drainers' \in [Drainers -> Drainer]
  BY FailRunTyped DEF TimeOut, Waiting, AllFailures
<1> QED
  BY <1>1 DEF TimeOut, SyncTypeOK

(* What Persist leaves to be written, and the row it writes.               *)
LEMMA PersistRest ==
    ASSUME SyncTypeOK, NEW d \in Drainers, NEW h \in Hashes, Persist(d, h),
           NEW rest, rest = DOMAIN drainers[d].outcomes \ {h},
           NEW left, left = [x \in rest |-> drainers[d].outcomes[x]]
    PROVE  /\ [drainers[d] EXCEPT !.outcomes = left]
                 = [step |-> "SETTLE", outcomes |-> left, then |-> drainers[d].then]
           /\ left \in PartialFunctions(Hashes, SyncState)
           /\ drainers[d].outcomes[h] \in SyncState
<1>1. drainers[d].step = "SETTLE" /\ h \in DOMAIN drainers[d].outcomes
  BY DEF Persist, SettledRow
<1>2. /\ DOMAIN drainers[d].outcomes \in SUBSET Hashes
      /\ drainers[d].outcomes \in [DOMAIN drainers[d].outcomes -> SyncState]
  BY <1>1, SettleState, PartialElim
<1>3. left \in [rest -> SyncState] /\ rest \in SUBSET Hashes
  BY <1>2
<1>4. left \in PartialFunctions(Hashes, SyncState)
  BY <1>3, PartialIntro
<1>5. drainers[d] = [step |-> "SETTLE", outcomes |-> drainers[d].outcomes,
                     then |-> drainers[d].then]
  BY <1>1, SettleState
<1>6. [drainers[d] EXCEPT !.outcomes = left]
        = [step |-> "SETTLE", outcomes |-> left, then |-> drainers[d].then]
  BY <1>5, OtherOutcomes
<1>7. drainers[d].outcomes[h] \in SyncState
  BY <1>1, <1>2
<1> QED
  BY <1>4, <1>6, <1>7

LEMMA PersistedRow ==
    ASSUME NEW row \in Row, NEW state \in SyncState
    PROVE  [row EXCEPT !.status = state.status, !.attempts = state.attempts,
                       !.due = state.due, !.old = FALSE] \in Row
BY DEF Row, SyncState

LEMMA PersistedRows ==
    ASSUME SyncTypeOK, NEW d \in Drainers, NEW h \in Hashes, Persist(d, h)
    PROVE  rows' = IF rows[h].status = "ABSENT" THEN rows
                   ELSE [rows EXCEPT ![h] =
                          [rows[h] EXCEPT !.status = drainers[d].outcomes[h].status,
                                          !.attempts = drainers[d].outcomes[h].attempts,
                                          !.due = drainers[d].outcomes[h].due, !.old = FALSE]]
BY DEF Persist, SettledRow, SyncTypeOK

LEMMA PersistTyped ==
    ASSUME SyncTypeOK, NEW d \in Drainers, NEW h \in Hashes, Persist(d, h)
    PROVE  SyncTypeOK'
<1> DEFINE rest == DOMAIN drainers[d].outcomes \ {h}
           left == [x \in rest |-> drainers[d].outcomes[x]]
           then == drainers[d].then
<1>1. /\ [drainers[d] EXCEPT !.outcomes = left]
           = [step |-> "SETTLE", outcomes |-> left, then |-> then]
      /\ left \in PartialFunctions(Hashes, SyncState)
      /\ drainers[d].outcomes[h] \in SyncState
  BY PersistRest
<1>2. then \in DrainOutcome \cup {"CLAIM"}
  BY SettleState DEF Persist, SettledRow
<1>3. rows' \in [Hashes -> Row]
  <2> DEFINE row == [rows[h] EXCEPT !.status = drainers[d].outcomes[h].status,
                                    !.attempts = drainers[d].outcomes[h].attempts,
                                    !.due = drainers[d].outcomes[h].due, !.old = FALSE]
  <2>1. rows \in [Hashes -> Row] /\ rows[h] \in Row
    BY DEF SyncTypeOK
  <2>2. row \in Row
    BY <1>1, <2>1, PersistedRow
  <2>3. rows' = IF rows[h].status = "ABSENT" THEN rows ELSE [rows EXCEPT ![h] = row]
    BY PersistedRows
  <2> HIDE DEF row
  <2> QED
    BY <2>1, <2>2, <2>3
<1>4. \/ Become(d, [drainers[d] EXCEPT !.outcomes = left]) /\ UNCHANGED uploadWork
      \/ Become(d, Claiming) /\ UNCHANGED uploadWork
      \/ EndRun(d, then)
  BY Zenon DEF Persist, SettledRow
<1> HIDE DEF left, rest, then
<1>5. drainers' \in [Drainers -> Drainer] /\ uploadWork' \in BOOLEAN
  <2>1. CASE Become(d, [drainers[d] EXCEPT !.outcomes = left]) /\ UNCHANGED uploadWork
    BY <1>1, <1>2, <2>1, SettlingTyped, BecomeTyped DEF SyncTypeOK
  <2>2. CASE Become(d, Claiming) /\ UNCHANGED uploadWork
    BY <2>2, RestStates, BecomeTyped DEF SyncTypeOK
  <2>3. CASE EndRun(d, then)
    BY <2>3, EndRunTyped
  <2> QED
    BY <1>4, <2>1, <2>2, <2>3
<1> QED
  BY <1>3, <1>5 DEF Persist, SettledRow, SyncTypeOK

(* The endpoint, the faults and the clock.                                 *)
LEMMA ServerTyped ==
    ASSUME SyncTypeOK, NEW d \in Drainers, ServerStep(d)
    PROVE  SyncTypeOK'
<1>1. ASSUME NEW h \in Hashes, FindDuplicate(d, h)
      PROVE  SyncTypeOK'
  <2> DEFINE request == [uploads[d] EXCEPT !.todo = @ \ {h}]
             inserting == [step |-> "INSERT", todo |-> request.todo, hash |-> h,
                           results |-> request.results]
  <2>1. uploads[d].step = "NEXT"
    BY <1>1 DEF FindDuplicate
  <2>2. /\ request.todo \in SUBSET Hashes
        /\ request.results = uploads[d].results
        /\ uploads[d].results \in PartialFunctions(Hashes, ResultStatus)
    <3>1. /\ uploads[d].todo \in SUBSET Hashes
          /\ uploads[d].results \in PartialFunctions(Hashes, ResultStatus)
          /\ uploads[d] = [step |-> "NEXT", todo |-> uploads[d].todo,
                           results |-> uploads[d].results]
      BY <2>1, NextState
    <3> DEFINE rest == uploads[d].todo \ {h}
    <3>2. rest \in SUBSET Hashes
      BY <3>1
    <3> HIDE DEF rest
    <3>3. /\ [uploads[d] EXCEPT !.todo = rest].todo = rest
          /\ [uploads[d] EXCEPT !.todo = rest].results = uploads[d].results
      BY <3>1, OtherRequest
    <3> QED
      BY <3>1, <3>2, <3>3 DEF rest
  <2>3. Answer(d, IF Stored(TextOf(h)) THEN Resulted(request, h, "DUPLICATE") ELSE inserting)
    BY <1>1 DEF FindDuplicate
  <2>4. "DUPLICATE" \in ResultStatus
    BY DEF ResultStatus
  <2> HIDE DEF request
  <2>5. Resulted(request, h, "DUPLICATE") \in Upload
    BY <2>2, <2>4, ResultedTyped
  <2>6. inserting \in Upload
    BY <2>2 DEF Upload
  <2> HIDE DEF inserting
  <2>7. uploads' \in [Drainers -> Upload]
    BY <2>3, <2>5, <2>6, AnswerTyped
  <2> QED
    BY <1>1, <2>7 DEF FindDuplicate, SyncTypeOK
<1>2. ASSUME InsertLog(d)
      PROVE  SyncTypeOK'
  <2> DEFINE h == uploads[d].hash
             extracting == [uploads[d] EXCEPT !.step = "EXTRACT"]
  <2>1. /\ uploads[d].todo \in SUBSET Hashes /\ h \in Hashes
        /\ uploads[d].results \in PartialFunctions(Hashes, ResultStatus)
        /\ uploads[d] = [step |-> "INSERT", todo |-> uploads[d].todo, hash |-> h,
                         results |-> uploads[d].results]
    BY <1>2, OneState DEF InsertLog
  <2>2. Resulted(uploads[d], h, "DUPLICATE") \in Upload
    BY <2>1, ResultedTyped DEF ResultStatus
  <2>3. extracting \in Upload
    BY <2>1 DEF Upload
  <2>4. Answer(d, Resulted(uploads[d], h, "DUPLICATE")) \/ Answer(d, extracting)
    BY <1>2 DEF InsertLog
  <2>5. smsLogs' \in [Hashes -> {"NONE", "RAW", "DONE"}]
    BY <1>2, <2>1 DEF InsertLog, SyncTypeOK
  <2> HIDE DEF extracting
  <2>6. uploads' \in [Drainers -> Upload]
    BY <2>2, <2>3, <2>4, AnswerTyped
  <2> QED
    BY <1>2, <2>5, <2>6 DEF InsertLog, SyncTypeOK
<1>3. ASSUME Extract(d)
      PROVE  SyncTypeOK'
  <2> DEFINE h == uploads[d].hash
  <2>1. /\ uploads[d].todo \in SUBSET Hashes /\ h \in Hashes
        /\ uploads[d].results \in PartialFunctions(Hashes, ResultStatus)
    BY <1>3, OneState DEF Extract
  <2>2. Resulted(uploads[d], h, "ACCEPTED") \in Upload
    BY <2>1, ResultedTyped DEF ResultStatus
  <2>3. uploads' \in [Drainers -> Upload]
    BY <1>3, <2>2, AnswerTyped DEF Extract
  <2>4. smsLogs' \in [Hashes -> {"NONE", "RAW", "DONE"}]
    BY <1>3, <2>1 DEF Extract, SyncTypeOK
  <2> QED
    BY <1>3, <2>3, <2>4 DEF Extract, SyncTypeOK
<1>4. ASSUME EndUpload(d)
      PROVE  SyncTypeOK'
  <2> DEFINE answered == [step |-> "ANSWERED", results |-> uploads[d].results]
  <2>1. answered \in Upload
    BY <1>4, NextState DEF EndUpload, Upload
  <2>2. Answer(d, answered) \/ Answer(d, NoUpload)
    BY <1>4 DEF EndUpload, Deliver
  <2> HIDE DEF answered
  <2>3. uploads' \in [Drainers -> Upload]
    BY <2>1, <2>2, AnswerTyped, RestStates
  <2> QED
    BY <1>4, <2>3 DEF EndUpload, SyncTypeOK
<1> QED
  BY <1>1, <1>2, <1>3, <1>4 DEF ServerStep

(* Whatever an upload is refused with is one of the failures of the queue. *)
LEMMA RefusalIsFailure == \A refusal : RefusalEvent(refusal) \in AllFailures
<1>1. ASSUME NEW error
      PROVE  EventFor(error) \in AllFailures
  <2>1. CASE error = "UNAUTHENTICATED"
    BY <2>1 DEF EventFor, AllFailures
  <2>2. CASE error \in {"DEVICE_BLOCKED", "DEVICE_RETIRED", "COMPANY_SUSPENDED"}
    BY <2>2 DEF EventFor, AllFailures
  <2>3. CASE error = "RATE_LIMITED"
    BY <2>3 DEF EventFor, AllFailures
  <2>4. CASE /\ error # "UNAUTHENTICATED" /\ error # "RATE_LIMITED"
             /\ error \notin {"DEVICE_BLOCKED", "DEVICE_RETIRED", "COMPANY_SUSPENDED"}
    BY <2>4 DEF EventFor, AllFailures
  <2> QED
    BY <2>1, <2>2, <2>3, <2>4
<1> QED
  BY <1>1 DEF RefusalEvent

LEMMA FaultTyped ==
    ASSUME SyncTypeOK, NEW d \in Drainers, FaultStep(d)
    PROVE  SyncTypeOK'
<1>1. ASSUME NEW kind \in AllFailures, Deliver(d, Broken(kind))
      PROVE  uploads' \in [Drainers -> Upload]
  BY <1>1, AnswerTyped, RestStates DEF Deliver
<1>2. ASSUME NEW refusal \in Refusals, TurnAway(d, refusal)
      PROVE  SyncTypeOK'
  BY <1>1, <1>2, RefusalIsFailure DEF TurnAway, SyncTypeOK
<1>3. ASSUME Break(d)
      PROVE  SyncTypeOK'
  <2>1. "TRANSPORT" \in AllFailures
    BY DEF AllFailures
  <2> QED
    BY <1>1, <1>3, <2>1 DEF Break, SyncTypeOK
<1> QED
  BY <1>2, <1>3, TimeOutTyped DEF FaultStep

LEMMA SyncStepTyped == SyncTypeOK /\ [SyncNext]_syncVars => SyncTypeOK'
<1> SUFFICES ASSUME SyncTypeOK, [SyncNext]_syncVars
             PROVE  SyncTypeOK'
  OBVIOUS
<1>1. ASSUME NEW d \in Drainers, DrainStep(d)
      PROVE  SyncTypeOK'
  BY <1>1, ClaimBatchTyped, ClaimNothingTyped, MarkUploadingTyped, ReadAnswerTyped,
     ReadFailureTyped, ScanMessageTyped, PersistTyped, EndScanTyped DEF DrainStep
<1>2. ASSUME NEW h \in Hashes, Purge(h) \/ Wake(h) \/ GrowOld(h)
      PROVE  SyncTypeOK'
  <2>1. rows \in [Hashes -> Row] /\ rows[h] \in Row
    BY DEF SyncTypeOK
  <2>2. \E row \in Row : rows' = [rows EXCEPT ![h] = row]
    <3>1. CASE Purge(h)
      BY <3>1, RowTyped DEF Purge
    <3>2. CASE Wake(h)
      <4>1. rows' = [rows EXCEPT ![h] = [rows[h] EXCEPT !.due = TRUE]]
        BY <3>2, <2>1 DEF Wake
      <4> QED
        BY <2>1, <4>1, RowTyped
    <3>3. CASE GrowOld(h)
      <4>1. rows' = [rows EXCEPT ![h] = [rows[h] EXCEPT !.old = TRUE]]
        BY <3>3, <2>1 DEF GrowOld
      <4> QED
        BY <2>1, <4>1, RowTyped
    <3> QED
      BY <1>2, <3>1, <3>2, <3>3
  <2>3. rows' \in [Hashes -> Row]
    BY <2>1, <2>2
  <2> QED
    BY <1>2, <2>3 DEF Purge, Wake, GrowOld, SyncTypeOK
<1>3. ASSUME NEW m \in Texts, LeaveWindow(m)
      PROVE  SyncTypeOK'
  BY <1>3 DEF LeaveWindow, SyncTypeOK
<1>4. CASE Kill
  <2>1. uploadWork' \in BOOLEAN
    BY <1>4, Zenon DEF Kill, SyncTypeOK
  <2>2. drainers' \in [Drainers -> Drainer]
    BY <1>4, RestStates DEF Kill
  <2>3. uploads' \in [Drainers -> Upload]
    BY <1>4, RestStates DEF Kill, SyncTypeOK
  <2> QED
    BY <1>4, <2>1, <2>2, <2>3 DEF Kill, SyncTypeOK
<1>5. CASE Stabilise
  BY <1>5 DEF Stabilise, SyncTypeOK
<1>6. CASE UNCHANGED syncVars
  BY <1>6 DEF syncVars, SyncTypeOK
<1> QED
  BY <1>1, <1>2, <1>3, <1>4, <1>5, <1>6, ReceiveTyped, StartUploadTyped, StartSyncTyped,
     ServerTyped, FaultTyped DEF SyncNext, TimePasses

(* SyncTypeOK: the queue, its workers, their requests and the server's     *)
(* table keep their types.                                                 *)
THEOREM SyncTyping == SyncSpec => []SyncTypeOK
BY InitTyped, SyncStepTyped, PTL DEF SyncSpec

-----------------------------------------------------------------------------
(* What every row, worker and request knows: a message is mentioned only   *)
(* once it was received, and a row is settled, or is about to be, only if  *)
(* the server has its message.                                             *)
Received(m) == inbox[m] # "NEW"
Settled(status) == status \in {"UPLOADED", "REJECTED"}

RowFine(h) ==
    /\ rows[h].status # "ABSENT" => Received(TextOf(h))
    /\ Settled(rows[h].status) => Stored(TextOf(h))

WorkerFine(state) ==
    /\ state.step = "SCAN" => \A h \in state.todo : Received(TextOf(h))
    /\ state.step \in {"MARK", "WAIT"} => \A h \in DOMAIN state.sent : Received(TextOf(h))
    /\ state.step = "SETTLE" =>
          \A h \in DOMAIN state.outcomes : Settled(state.outcomes[h].status) => Stored(TextOf(h))

RequestFine(state) ==
    /\ state.step \in {"NEXT", "INSERT", "EXTRACT"} =>
          \A h \in state.todo : Received(TextOf(h))
    /\ state.step \in {"INSERT", "EXTRACT"} => Received(TextOf(state.hash))
    /\ state.step \in {"NEXT", "INSERT", "EXTRACT", "ANSWERED"} =>
          \A h \in DOMAIN state.results : Stored(TextOf(h))
    /\ state.step = "EXTRACT" => Logged(state.hash)

QueueInvariant ==
    /\ \A h \in Hashes : RowFine(h)
    /\ \A d \in Drainers : WorkerFine(drainers[d])
    /\ \A d \in Drainers : RequestFine(uploads[d])

(* The server forgets nothing, and what was received stays received.       *)
Monotone ==
    /\ \A h \in Hashes : Logged(h) => Logged(h)'
    /\ \A m \in Texts : Received(m) => Received(m)'

LEMMA OtherTables ==
    /\ \A d \in Drainers : DrainStep(d) \/ FaultStep(d) => UNCHANGED <<inbox, smsLogs>>
    /\ \A d \in Drainers : ServerStep(d) => UNCHANGED <<inbox, rows, drainers, uploadWork>>
<1>1. ASSUME NEW d \in Drainers, DrainStep(d)
      PROVE  UNCHANGED <<inbox, smsLogs>>
  BY <1>1 DEF DrainStep, ClaimBatch, ClaimNothing, MarkUploading, ReadAnswer, ReadFailure,
     ScanMessage, Persist, SettledRow, EndScan
<1>2. ASSUME NEW d \in Drainers, FaultStep(d)
      PROVE  UNCHANGED <<inbox, smsLogs>>
  BY <1>2 DEF FaultStep, Break, TimeOut, TurnAway
<1>3. ASSUME NEW d \in Drainers, ServerStep(d)
      PROVE  UNCHANGED <<inbox, rows, drainers, uploadWork>>
  BY <1>3 DEF ServerStep, EndUpload, FindDuplicate, InsertLog, Extract
<1> QED
  BY <1>1, <1>2, <1>3

LEMMA NothingForgotten ==
    ASSUME SyncTypeOK, [SyncNext]_syncVars
    PROVE  Monotone
<1>1. CASE UNCHANGED <<inbox, smsLogs>>
  BY <1>1 DEF Monotone, Logged, Received
<1>2. ASSUME NEW d \in Drainers, ServerStep(d)
      PROVE  Monotone
  <2>1. CASE UNCHANGED smsLogs
    BY <1>2, <2>1, OtherTables DEF Monotone, Logged, Received
  <2>2. CASE InsertLog(d) \/ Extract(d)
    BY <2>2 DEF InsertLog, Extract, Monotone, Logged, Received, SyncTypeOK
  <2> QED
    BY <1>2, <2>1, <2>2 DEF ServerStep, FindDuplicate, EndUpload
<1>3. ASSUME NEW m \in Texts, LeaveWindow(m) \/
             \E heard, scheduled \in BOOLEAN : Receive(m, heard, scheduled)
      PROVE  Monotone
  BY <1>3 DEF LeaveWindow, Receive, Monotone, Logged, Received, SyncTypeOK
<1>4. CASE UNCHANGED syncVars
  BY <1>1, <1>4 DEF syncVars
<1>5. CASE StartUpload \/ (\E d \in Drainers : StartSync(d)) \/ Kill \/ Stabilise
  BY <1>1, <1>5 DEF StartUpload, StartSync, Kill, Stabilise
<1>6. ASSUME NEW h \in Hashes, Purge(h) \/ Wake(h) \/ GrowOld(h)
      PROVE  Monotone
  BY <1>1, <1>6 DEF Purge, Wake, GrowOld
<1> QED
  BY <1>1, <1>2, <1>3, <1>4, <1>5, <1>6, OtherTables DEF SyncNext, TimePasses

LEMMA StaysStored ==
    ASSUME Monotone
    PROVE  \A m \in Texts : Stored(m) => Stored(m)'
BY DEF Monotone, Stored

(* A worker that moves on, or a request, leaves the others as they are.    *)
LEMMA WorkerMoves ==
    ASSUME SyncTypeOK, QueueInvariant, Monotone, NEW d \in Drainers,
           NEW state \in Drainer, WorkerFine(state), Become(d, state)
    PROVE  \A x \in Drainers : WorkerFine(drainers[x])'
<1> SUFFICES ASSUME NEW x \in Drainers
             PROVE  WorkerFine(drainers[x])'
  OBVIOUS
<1>1. drainers'[x] \in {state, drainers[x]} /\ WorkerFine(drainers'[x])
  BY DEF Become, SyncTypeOK, QueueInvariant
<1>2. drainers'[x] \in Drainer
  BY <1>1 DEF SyncTypeOK
<1>3. ASSUME drainers'[x].step = "SCAN"
      PROVE  \A h \in drainers'[x].todo : h \in Hashes
  BY <1>2, <1>3 DEF Drainer
<1>4. ASSUME drainers'[x].step \in {"MARK", "WAIT"}
      PROVE  \A h \in DOMAIN drainers'[x].sent : h \in Hashes
  BY <1>2, <1>4, PartialElim DEF Drainer
<1>5. ASSUME drainers'[x].step = "SETTLE"
      PROVE  \A h \in DOMAIN drainers'[x].outcomes : h \in Hashes
  BY <1>2, <1>5, PartialElim DEF Drainer
<1> QED
  BY <1>1, <1>3, <1>4, <1>5, StaysStored, TextsOf DEF WorkerFine, Monotone

LEMMA RequestMoves ==
    ASSUME SyncTypeOK, QueueInvariant, Monotone, NEW d \in Drainers,
           NEW state \in Upload, Answer(d, state), RequestFine(state)
    PROVE  \A x \in Drainers : RequestFine(uploads[x])'
<1> SUFFICES ASSUME NEW x \in Drainers
             PROVE  RequestFine(uploads[x])'
  OBVIOUS
<1>1. uploads'[x] \in Upload /\ RequestFine(uploads'[x])
  BY DEF Answer, SyncTypeOK, QueueInvariant
<1>2. ASSUME uploads'[x].step \in {"NEXT", "INSERT", "EXTRACT"}
      PROVE  \A h \in uploads'[x].todo : h \in Hashes
  BY <1>1, <1>2 DEF Upload
<1>3. ASSUME uploads'[x].step \in {"INSERT", "EXTRACT"}
      PROVE  uploads'[x].hash \in Hashes
  BY <1>1, <1>3 DEF Upload
<1>4. ASSUME uploads'[x].step \in {"NEXT", "INSERT", "EXTRACT", "ANSWERED"}
      PROVE  \A h \in DOMAIN uploads'[x].results : h \in Hashes
  BY <1>1, <1>4, PartialElim DEF Upload
<1> QED
  BY <1>1, <1>2, <1>3, <1>4, StaysStored, TextsOf DEF RequestFine, Monotone

LEMMA OthersStay ==
    ASSUME SyncTypeOK, QueueInvariant, Monotone
    PROVE  /\ UNCHANGED drainers => \A x \in Drainers : WorkerFine(drainers[x])'
           /\ UNCHANGED uploads => \A x \in Drainers : RequestFine(uploads[x])'
           /\ UNCHANGED rows => \A h \in Hashes : RowFine(h)'
<1>1. ASSUME UNCHANGED drainers, NEW x \in Drainers
      PROVE  WorkerFine(drainers[x])'
  <2>1. drainers[x] \in Drainer /\ WorkerFine(drainers[x]) /\ Become(x, drainers[x])
    BY <1>1 DEF SyncTypeOK, QueueInvariant, Become
  <2> QED
    BY <2>1, WorkerMoves
<1>2. ASSUME UNCHANGED uploads, NEW x \in Drainers
      PROVE  RequestFine(uploads[x])'
  <2>1. uploads[x] \in Upload /\ RequestFine(uploads[x]) /\ Answer(x, uploads[x])
    BY <1>2 DEF SyncTypeOK, QueueInvariant, Answer
  <2> QED
    BY <2>1, RequestMoves
<1>3. ASSUME UNCHANGED rows, NEW h \in Hashes
      PROVE  RowFine(h)'
  BY <1>3, StaysStored, TextsOf DEF RowFine, QueueInvariant, Monotone
<1> QED
  BY <1>1, <1>2, <1>3

LEMMA RowsMove ==
    ASSUME SyncTypeOK, QueueInvariant, Monotone,
           \A h \in Hashes :
              /\ \/ rows'[h].status = "ABSENT" \/ rows[h].status # "ABSENT"
                 \/ Received(TextOf(h)) \/ Received(TextOf(h))'
              /\ Settled(rows'[h].status) => Settled(rows[h].status) \/ Stored(TextOf(h))
    PROVE  \A h \in Hashes : RowFine(h)'
BY StaysStored, TextsOf DEF RowFine, QueueInvariant, Monotone, Settled

LEMMA TablesKeep ==
    ASSUME NEW table \in [Hashes -> Row], NEW h \in Hashes
    PROVE  /\ Reclaimed(table)[h].status = "ABSENT" <=> table[h].status = "ABSENT"
           /\ Requeued(table)[h].status = "ABSENT" <=> table[h].status = "ABSENT"
           /\ Settled(Reclaimed(table)[h].status) => Settled(table[h].status)
           /\ Settled(Requeued(table)[h].status) => Settled(table[h].status)
           /\ Settled(table[h].status) => Reclaimed(table)[h] = table[h]
           /\ Settled(table[h].status) => Requeued(table)[h] = table[h]
BY DEF Reclaimed, Requeued, Settled, Row, SyncStatus

(* The row a drainer writes back, and the rows it marks.                   *)
LEMMA PersistWrites ==
    ASSUME SyncTypeOK, NEW d \in Drainers, NEW h \in Hashes, Persist(d, h)
    PROVE  /\ h \in DOMAIN drainers[d].outcomes
           /\ drainers[d].step = "SETTLE"
           /\ drainers[d].outcomes[h].status \in SyncStatus
           /\ \A x \in Hashes \ {h} : rows'[x] = rows[x]
           /\ rows[h].status = "ABSENT" => rows'[h] = rows[h]
           /\ rows[h].status # "ABSENT" => rows'[h].status = drainers[d].outcomes[h].status
<1>1. h \in DOMAIN drainers[d].outcomes /\ drainers[d].step = "SETTLE"
  BY DEF Persist, SettledRow
<1>2. drainers[d].outcomes[h] \in SyncState
  <2>1. drainers[d].outcomes \in PartialFunctions(Hashes, SyncState)
    BY <1>1, SettleState
  <2> QED
    BY <1>1, <2>1, PartialElim
<1> DEFINE state == drainers[d].outcomes[h]
           row == [rows[h] EXCEPT !.status = state.status, !.attempts = state.attempts,
                                  !.due = state.due, !.old = FALSE]
<1>3. rows' = IF rows[h].status = "ABSENT" THEN rows ELSE [rows EXCEPT ![h] = row]
  BY PersistedRows
<1>4. rows \in [Hashes -> Row] /\ rows[h] \in Row
  BY DEF SyncTypeOK
<1>5. row.status = state.status
  BY <1>4 DEF Row
<1>6. state.status \in SyncStatus
  BY <1>2 DEF SyncState
<1> HIDE DEF row
<1> QED
  BY <1>1, <1>3, <1>4, <1>5, <1>6

LEMMA MarkWrites ==
    ASSUME SyncTypeOK, NEW d \in Drainers, MarkUploading(d), NEW h \in Hashes
    PROVE  /\ rows'[h].status \in {rows[h].status, "UPLOADING"}
           /\ rows[h].status = "ABSENT" => rows'[h].status = "ABSENT"
<1>1. rows[h] \in Row
  BY DEF SyncTypeOK
<1>2. [rows[h] EXCEPT !.status = "UPLOADING"].status = "UPLOADING"
  BY <1>1 DEF Row
<1>3. \/ rows'[h] = rows[h]
      \/ rows[h].status # "ABSENT" /\ rows'[h] = [rows[h] EXCEPT !.status = "UPLOADING"]
  BY DEF MarkUploading
<1> QED
  BY <1>2, <1>3

LEMMA ClockWrites ==
    ASSUME SyncTypeOK, NEW h \in Hashes, Wake(h) \/ GrowOld(h), NEW x \in Hashes
    PROVE  rows'[x].status = rows[x].status
BY DEF Wake, GrowOld, SyncTypeOK, Row

LEMMA RowsStep ==
    ASSUME SyncTypeOK, QueueInvariant, Monotone, [SyncNext]_syncVars
    PROVE  \A h \in Hashes : RowFine(h)'
<1>1. CASE UNCHANGED rows
  BY <1>1, OthersStay
<1>2. ASSUME NEW m \in Texts, NEW heard \in BOOLEAN, NEW scheduled \in BOOLEAN,
             Receive(m, heard, scheduled)
      PROVE  \A h \in Hashes : RowFine(h)'
  <2>1. TextOf(HeardHash(m)) = m
    BY DEF TextOf, HeardHash
  <2>2. Received(m)'
    BY <1>2 DEF Receive, Received, SyncTypeOK
  <2>3. \A h \in Hashes : rows'[h] = rows[h] \/ (h = HeardHash(m) /\ rows'[h] = Captured)
    BY <1>2, HashesOf DEF Receive, SyncTypeOK
  <2> QED
    BY <2>1, <2>2, <2>3, RowsMove DEF Captured, Settled
<1>3. CASE StartUpload
  BY <1>3, TablesKeep, RowsMove DEF StartUpload, SyncTypeOK
<1>4. ASSUME NEW d \in Drainers, StartSync(d)
      PROVE  \A h \in Hashes : RowFine(h)'
  BY <1>4, TablesKeep, RowsMove DEF StartSync, SyncTypeOK
<1>5. ASSUME NEW d \in Drainers, NEW h \in Hashes, ScanMessage(d, h)
      PROVE  \A x \in Hashes : RowFine(x)'
  <2>1. Received(TextOf(h))
    BY <1>5 DEF ScanMessage, QueueInvariant, WorkerFine
  <2>2. \A x \in Hashes : rows'[x] = rows[x] \/ (x = h /\ rows'[x] = Captured)
    BY <1>5 DEF ScanMessage, SyncTypeOK
  <2> QED
    BY <2>1, <2>2, RowsMove DEF Captured, Settled
<1>6. ASSUME NEW d \in Drainers, EndScan(d)
      PROVE  \A h \in Hashes : RowFine(h)'
  <2>1. rows \in [Hashes -> Row] /\ Requeued(rows) \in [Hashes -> Row]
    BY TablesTyped DEF SyncTypeOK
  <2>2. rows' = Reclaimed(Requeued(rows))
    BY <1>6 DEF EndScan
  <2>3. \A h \in Hashes :
           /\ rows'[h].status = "ABSENT" <=> rows[h].status = "ABSENT"
           /\ Settled(rows'[h].status) => Settled(rows[h].status)
    BY <2>1, <2>2, TablesKeep
  <2> QED
    BY <2>3, RowsMove
<1>7. ASSUME NEW d \in Drainers, MarkUploading(d)
      PROVE  \A h \in Hashes : RowFine(h)'
  BY <1>7, MarkWrites, RowsMove DEF Settled
<1>8. ASSUME NEW d \in Drainers, NEW h \in Hashes, Persist(d, h)
      PROVE  \A x \in Hashes : RowFine(x)'
  <2>1. Settled(drainers[d].outcomes[h].status) => Stored(TextOf(h))
    BY <1>8, PersistWrites DEF QueueInvariant, WorkerFine
  <2> QED
    BY <1>8, <2>1, PersistWrites, RowsMove
<1>9. ASSUME NEW h \in Hashes, Purge(h) \/ Wake(h) \/ GrowOld(h)
      PROVE  \A x \in Hashes : RowFine(x)'
  <2>1. \A x \in Hashes : rows'[x].status \in {rows[x].status, "ABSENT"}
    BY <1>9, ClockWrites DEF Purge, NoRow, SyncTypeOK
  <2> QED
    BY <2>1, RowsMove DEF Settled
<1>10. CASE (\E m \in Texts : LeaveWindow(m)) \/ Kill \/ Stabilise \/ UNCHANGED syncVars
  BY <1>1, <1>10 DEF LeaveWindow, Kill, Stabilise, syncVars
<1>11. ASSUME NEW d \in Drainers,
              \/ \E batch \in SUBSET Hashes : ClaimBatch(d, batch)
              \/ ClaimNothing(d) \/ ReadAnswer(d) \/ ReadFailure(d) \/ FaultStep(d)
       PROVE  UNCHANGED rows
  BY <1>11 DEF ClaimBatch, ClaimNothing, ReadAnswer, ReadFailure, FaultStep, Break, TimeOut,
     TurnAway
<1> QED
  BY <1>1, <1>2, <1>3, <1>4, <1>5, <1>6, <1>7, <1>8, <1>9, <1>10, <1>11, OtherTables
     DEF SyncNext, TimePasses, DrainStep

LEMMA RestFine == WorkerFine(Idle) /\ WorkerFine(Claiming) /\ RequestFine(NoUpload)
BY DEF WorkerFine, RequestFine, Idle, Claiming, NoUpload

LEMMA WorkersStep ==
    ASSUME SyncTypeOK, QueueInvariant, Monotone, [SyncNext]_syncVars
    PROVE  \A x \in Drainers : WorkerFine(drainers[x])'
<1>1. CASE UNCHANGED drainers
  BY <1>1, OthersStay
<1>2. ASSUME NEW d \in Drainers, Become(d, Idle) \/ Become(d, Claiming)
      PROVE  \A x \in Drainers : WorkerFine(drainers[x])'
  BY <1>2, RestFine, RestStates, WorkerMoves
<1>3. ASSUME NEW d \in Drainers, NEW sent \in PartialFunctions(Hashes, Attempts),
             \A h \in DOMAIN sent : Received(TextOf(h)), NEW step \in {"MARK", "WAIT"},
             Become(d, [step |-> step, sent |-> sent])
      PROVE  \A x \in Drainers : WorkerFine(drainers[x])'
  <2> DEFINE state == [step |-> step, sent |-> sent]
  <2>1. state \in Drainer
    BY DEF Drainer
  <2>2. WorkerFine(state)
    BY <1>3 DEF WorkerFine
  <2> HIDE DEF state
  <2>3. Become(d, state)
    BY <1>3 DEF state
  <2> QED
    BY <2>1, <2>2, <2>3, WorkerMoves
<1>4. ASSUME NEW d \in Drainers, NEW outcomes \in PartialFunctions(Hashes, SyncState),
             \A h \in DOMAIN outcomes : Settled(outcomes[h].status) => Stored(TextOf(h)),
             NEW then \in DrainOutcome \cup {"CLAIM"},
             Become(d, [step |-> "SETTLE", outcomes |-> outcomes, then |-> then])
      PROVE  \A x \in Drainers : WorkerFine(drainers[x])'
  <2> DEFINE state == [step |-> "SETTLE", outcomes |-> outcomes, then |-> then]
  <2>1. state \in Drainer
    BY SettlingTyped
  <2>2. WorkerFine(state)
    BY <1>4 DEF WorkerFine
  <2> HIDE DEF state
  <2>3. Become(d, state)
    BY <1>4 DEF state
  <2> QED
    BY <2>1, <2>2, <2>3, WorkerMoves
<1>5. ASSUME NEW d \in Drainers, NEW todo \in SUBSET Hashes,
             \A h \in todo : Received(TextOf(h)), Become(d, [step |-> "SCAN", todo |-> todo])
      PROVE  \A x \in Drainers : WorkerFine(drainers[x])'
  <2> DEFINE state == [step |-> "SCAN", todo |-> todo]
  <2>1. state \in Drainer
    BY DEF Drainer
  <2>2. WorkerFine(state)
    BY <1>5 DEF WorkerFine
  <2> HIDE DEF state
  <2>3. Become(d, state)
    BY <1>5 DEF state
  <2> QED
    BY <2>1, <2>2, <2>3, WorkerMoves
<1>6. CASE StartUpload
  <2>1. "UPLOAD" \in Drainers /\ Become("UPLOAD", Claiming)
    BY <1>6 DEF StartUpload
  <2> QED
    BY <1>2, <2>1
<1>7. ASSUME NEW d \in Drainers, StartSync(d)
      PROVE  \A x \in Drainers : WorkerFine(drainers[x])'
  <2>3. PICK todo \in {InInbox, {}} : Become(d, [step |-> "SCAN", todo |-> todo])
    BY <1>7 DEF StartSync
  <2>1. todo \in SUBSET Hashes
    BY HashesOf DEF InInbox
  <2>2. \A h \in todo : Received(TextOf(h))
    BY DEF InInbox, ScannedHash, TextOf, Received
  <2> QED
    BY <1>5, <2>1, <2>2, <2>3
<1>8. ASSUME NEW d \in Drainers, NEW h \in Hashes, ScanMessage(d, h)
      PROVE  \A x \in Drainers : WorkerFine(drainers[x])'
  <2> DEFINE rest == drainers[d].todo \ {h}
  <2>1. /\ drainers[d].todo \in SUBSET Hashes /\ drainers[d].step = "SCAN"
        /\ drainers[d] = [step |-> "SCAN", todo |-> drainers[d].todo]
    BY <1>8, ScanState DEF ScanMessage
  <2>2. rest \in SUBSET Hashes /\ \A x \in rest : Received(TextOf(x))
    BY <2>1 DEF QueueInvariant, WorkerFine
  <2>3. Become(d, [drainers[d] EXCEPT !.todo = rest])
    BY <1>8 DEF ScanMessage
  <2> HIDE DEF rest
  <2>4. [drainers[d] EXCEPT !.todo = rest] = [step |-> "SCAN", todo |-> rest]
    BY <2>1, OtherTodo
  <2>5. Become(d, [step |-> "SCAN", todo |-> rest])
    BY <2>3, <2>4
  <2> QED
    BY <1>5, <2>2, <2>5
<1>9. ASSUME NEW d \in Drainers, NEW batch \in SUBSET Hashes, ClaimBatch(d, batch)
      PROVE  \A x \in Drainers : WorkerFine(drainers[x])'
  <2> DEFINE sent == [h \in batch |-> rows[h].attempts]
  <2>1. sent \in [batch -> Attempts]
    BY DEF SyncTypeOK, Row
  <2>2. sent \in PartialFunctions(Hashes, Attempts)
    BY <2>1, PartialIntro
  <2>3. \A h \in DOMAIN sent : Received(TextOf(h))
    BY <1>9 DEF ClaimBatch, DueForUpload, QueueInvariant, RowFine
  <2>4. Become(d, [step |-> "MARK", sent |-> sent])
    BY <1>9 DEF ClaimBatch
  <2> HIDE DEF sent
  <2> QED
    BY <1>3, <2>2, <2>3, <2>4
<1>10. ASSUME NEW d \in Drainers, MarkUploading(d)
       PROVE  \A x \in Drainers : WorkerFine(drainers[x])'
  <2> DEFINE sent == drainers[d].sent
  <2>1. /\ sent \in PartialFunctions(Hashes, Attempts) /\ drainers[d].step = "MARK"
        /\ drainers[d] = [step |-> "MARK", sent |-> sent]
    BY <1>10, SentState DEF MarkUploading
  <2>2. \A h \in DOMAIN sent : Received(TextOf(h))
    BY <2>1 DEF QueueInvariant, WorkerFine
  <2>3. [drainers[d] EXCEPT !.step = "WAIT"] = [step |-> "WAIT", sent |-> sent]
    BY <2>1
  <2>4. Become(d, [step |-> "WAIT", sent |-> sent])
    BY <1>10, <2>3 DEF MarkUploading
  <2> HIDE DEF sent
  <2> QED
    BY <1>3, <2>1, <2>2, <2>4
<1>11. ASSUME NEW d \in Drainers, ReadAnswer(d)
       PROVE  \A x \in Drainers : WorkerFine(drainers[x])'
  <2> DEFINE sent == drainers[d].sent
             outcomes == Settle(sent, uploads[d].results)
             then == IF Cardinality(DOMAIN sent) < MaxBatch THEN "DRAINED" ELSE "CLAIM"
  <2>1. sent \in PartialFunctions(Hashes, Attempts)
    BY <1>11, SentState DEF ReadAnswer, Waiting
  <2>2. /\ uploads[d].results \in PartialFunctions(Hashes, ResultStatus)
        /\ \A h \in DOMAIN uploads[d].results : Stored(TextOf(h))
    BY <1>11, AnsweredState DEF ReadAnswer, QueueInvariant, RequestFine
  <2>3. outcomes \in PartialFunctions(Hashes, SyncState)
    BY <2>1, <2>2, SettleTyped
  <2>4. \A h \in DOMAIN outcomes : Settled(outcomes[h].status) => Stored(TextOf(h))
    BY <2>1, <2>2, SettleTyped DEF Settled
  <2>5. then \in DrainOutcome \cup {"CLAIM"}
    BY DEF DrainOutcome
  <2>6. Become(d, [step |-> "SETTLE", outcomes |-> outcomes, then |-> then])
    BY <1>11 DEF ReadAnswer
  <2> HIDE DEF outcomes, then
  <2> QED
    BY <1>4, <2>3, <2>4, <2>5, <2>6
<1>12. ASSUME NEW d \in Drainers, NEW kind \in AllFailures, drainers[d].step = "WAIT",
              Fail(d, kind)
       PROVE  \A x \in Drainers : WorkerFine(drainers[x])'
  <2> DEFINE outcomes == FailWholeBatch(drainers[d].sent, kind)
             then == IF kind = "UNAUTHENTICATED" THEN "NEEDS_REENROLL" ELSE "RETRY"
  <2>1. drainers[d].sent \in PartialFunctions(Hashes, Attempts)
    BY <1>12, SentState
  <2>2. outcomes \in PartialFunctions(Hashes, SyncState)
    BY <2>1, FailTyped
  <2>3. \A h \in DOMAIN outcomes : ~Settled(outcomes[h].status)
    BY <2>1, FailTyped DEF Settled
  <2>4. then \in DrainOutcome \cup {"CLAIM"}
    BY DEF DrainOutcome
  <2>5. Become(d, [step |-> "SETTLE", outcomes |-> outcomes, then |-> then])
    BY <1>12 DEF Fail
  <2> HIDE DEF outcomes, then
  <2> QED
    BY <1>4, <2>2, <2>3, <2>4, <2>5
<1>13. ASSUME NEW d \in Drainers, ReadFailure(d) \/ TimeOut(d)
       PROVE  \A x \in Drainers : WorkerFine(drainers[x])'
  BY <1>12, <1>13, FailedState DEF ReadFailure, TimeOut, Waiting, AllFailures
<1>14. ASSUME NEW d \in Drainers, NEW h \in Hashes, Persist(d, h)
       PROVE  \A x \in Drainers : WorkerFine(drainers[x])'
  <2> DEFINE rest == DOMAIN drainers[d].outcomes \ {h}
             left == [x \in rest |-> drainers[d].outcomes[x]]
             then == drainers[d].then
  <2>1. /\ [drainers[d] EXCEPT !.outcomes = left]
             = [step |-> "SETTLE", outcomes |-> left, then |-> then]
        /\ left \in PartialFunctions(Hashes, SyncState)
    BY <1>14, PersistRest
  <2>2. then \in DrainOutcome \cup {"CLAIM"}
    BY <1>14, SettleState DEF Persist, SettledRow
  <2>3. \A x \in DOMAIN left : Settled(left[x].status) => Stored(TextOf(x))
    BY <1>14 DEF Persist, SettledRow, QueueInvariant, WorkerFine
  <2>4. \/ Become(d, [drainers[d] EXCEPT !.outcomes = left])
        \/ Become(d, Claiming) \/ Become(d, Idle)
    BY <1>14, Zenon DEF Persist, SettledRow, EndRun
  <2> HIDE DEF left, rest, then
  <2> QED
    BY <1>2, <1>4, <2>1, <2>2, <2>3, <2>4
<1>15. CASE Kill
  <2>1. \A x \in Drainers : drainers'[x] = Idle
    BY <1>15 DEF Kill
  <2> QED
    BY <2>1 DEF WorkerFine, Idle
<1>16. ASSUME NEW d \in Drainers, ClaimNothing(d) \/ EndScan(d)
       PROVE  Become(d, Idle) \/ Become(d, Claiming)
  BY <1>16 DEF ClaimNothing, EndRun, EndScan
<1>17. ASSUME NEW d \in Drainers, Break(d) \/ \E refusal \in Refusals : TurnAway(d, refusal)
       PROVE  UNCHANGED drainers
  BY <1>17 DEF Break, TurnAway
<1>18. ASSUME NEW h \in Hashes, Purge(h) \/ Wake(h) \/ GrowOld(h)
       PROVE  UNCHANGED drainers
  BY <1>18 DEF Purge, Wake, GrowOld
<1>19. ASSUME NEW m \in Texts, LeaveWindow(m) \/
              \E heard, scheduled \in BOOLEAN : Receive(m, heard, scheduled)
       PROVE  UNCHANGED drainers
  BY <1>19 DEF LeaveWindow, Receive
<1>20. CASE Stabilise \/ UNCHANGED syncVars
  BY <1>1, <1>20 DEF Stabilise, syncVars
<1>21. ASSUME NEW d \in Drainers, DrainStep(d)
       PROVE  \A x \in Drainers : WorkerFine(drainers[x])'
  BY <1>2, <1>8, <1>9, <1>10, <1>11, <1>13, <1>14, <1>16, <1>21 DEF DrainStep
<1>22. ASSUME NEW d \in Drainers, FaultStep(d)
       PROVE  \A x \in Drainers : WorkerFine(drainers[x])'
  BY <1>1, <1>13, <1>17, <1>22 DEF FaultStep
<1> QED
  BY <1>1, <1>6, <1>7, <1>15, <1>18, <1>19, <1>20, <1>21, <1>22, OtherTables
     DEF SyncNext, TimePasses

LEMMA RequestsStep ==
    ASSUME SyncTypeOK, QueueInvariant, Monotone, [SyncNext]_syncVars
    PROVE  \A x \in Drainers : RequestFine(uploads[x])'
<1>1. CASE UNCHANGED uploads
  BY <1>1, OthersStay
<1>2. ASSUME NEW d \in Drainers, Answer(d, NoUpload) \/
             \E kind \in AllFailures : Answer(d, Broken(kind))
      PROVE  \A x \in Drainers : RequestFine(uploads[x])'
  <2>1. \A kind \in AllFailures : RequestFine(Broken(kind))
    BY DEF RequestFine, Broken
  <2> QED
    BY <1>2, <2>1, RestFine, RestStates, RequestMoves
<1>3. ASSUME NEW d \in Drainers, MarkUploading(d)
      PROVE  \A x \in Drainers : RequestFine(uploads[x])'
  <2> DEFINE batch == DOMAIN drainers[d].sent
             state == [step |-> "NEXT", todo |-> batch, results |-> << >>]
  <2>1. drainers[d].step = "MARK" /\ drainers[d].sent \in PartialFunctions(Hashes, Attempts)
    BY <1>3, SentState DEF MarkUploading
  <2>2. batch \in SUBSET Hashes /\ \A h \in batch : Received(TextOf(h))
    BY <2>1, PartialElim DEF QueueInvariant, WorkerFine
  <2>3. << >> \in PartialFunctions(Hashes, ResultStatus) /\ DOMAIN << >> = {}
    BY PartialEmpty
  <2>4. Answer(d, state)
    BY <1>3 DEF MarkUploading
  <2> HIDE DEF batch
  <2>5. state \in Upload
    BY <2>2, <2>3 DEF Upload
  <2>6. RequestFine(state)
    BY <2>2, <2>3 DEF RequestFine
  <2> HIDE DEF state
  <2> QED
    BY <2>4, <2>5, <2>6, RequestMoves
<1>4. ASSUME NEW d \in Drainers, NEW h \in Hashes, FindDuplicate(d, h)
      PROVE  \A x \in Drainers : RequestFine(uploads[x])'
  <2> DEFINE rest == uploads[d].todo \ {h}
             results == uploads[d].results
             request == [uploads[d] EXCEPT !.todo = rest]
             inserting == [step |-> "INSERT", todo |-> rest, hash |-> h, results |-> results]
             found == Resulted(request, h, "DUPLICATE")
  <2>1. /\ uploads[d].todo \in SUBSET Hashes /\ uploads[d].step = "NEXT"
        /\ results \in PartialFunctions(Hashes, ResultStatus)
        /\ uploads[d] = [step |-> "NEXT", todo |-> uploads[d].todo, results |-> results]
    BY <1>4, NextState DEF FindDuplicate
  <2>2. rest \in SUBSET Hashes /\ h \in uploads[d].todo
    BY <1>4, <2>1 DEF FindDuplicate
  <2>3. /\ \A x \in rest \cup {h} : Received(TextOf(x))
        /\ \A x \in DOMAIN results : Stored(TextOf(x))
    BY <2>1, <2>2 DEF QueueInvariant, RequestFine
  <2>4. request.todo = rest /\ request.results = results
    <3> HIDE DEF rest, results
    <3> QED
      BY <2>1, OtherRequest
  <2>5. Answer(d, IF Stored(TextOf(h)) THEN found
                  ELSE [step |-> "INSERT", todo |-> request.todo, hash |-> h,
                        results |-> request.results])
    BY <1>4 DEF FindDuplicate
  <2> HIDE DEF rest, results, request
  <2>6. /\ found \in Upload
        /\ found = [step |-> "NEXT", todo |-> rest,
                    results |-> Result(request, h, "DUPLICATE")]
        /\ DOMAIN Result(request, h, "DUPLICATE") = DOMAIN results \cup {h}
    <3>1. results \in PartialFunctions(Hashes, ResultStatus) /\ "DUPLICATE" \in ResultStatus
      BY <2>1 DEF ResultStatus, results
    <3>2. found \in Upload
      BY <2>2, <2>4, <3>1, ResultedTyped
    <3>3. DOMAIN Result(request, h, "DUPLICATE") = DOMAIN results \cup {h}
      BY <2>4 DEF Result
    <3>4. found = [step |-> "NEXT", todo |-> rest, results |-> Result(request, h, "DUPLICATE")]
      BY <2>4 DEF Resulted
    <3> QED
      BY <3>2, <3>3, <3>4
  <2>7. ASSUME Stored(TextOf(h))
        PROVE  RequestFine(found)
    BY <2>3, <2>6, <2>7 DEF RequestFine
  <2>8. inserting \in Upload
    BY <2>1, <2>2 DEF Upload, results
  <2>9. RequestFine(inserting)
    BY <2>3 DEF RequestFine
  <2>10. (Answer(d, found) /\ Stored(TextOf(h))) \/ Answer(d, inserting)
    BY <2>4, <2>5
  <2> HIDE DEF found, inserting
  <2> QED
    BY <2>6, <2>7, <2>8, <2>9, <2>10, RequestMoves
<1>5. ASSUME NEW d \in Drainers, InsertLog(d)
      PROVE  \A x \in Drainers : RequestFine(uploads[x])'
  <2>0. PICK h \in Hashes, todo \in SUBSET Hashes,
             results \in PartialFunctions(Hashes, ResultStatus) :
             uploads[d] = [step |-> "INSERT", todo |-> todo, hash |-> h, results |-> results]
    <3>1. uploads[d].step = "INSERT"
      BY <1>5 DEF InsertLog
    <3> QED
      BY <3>1, OneState
  <2> DEFINE extracting == [step |-> "EXTRACT", todo |-> todo, hash |-> h, results |-> results]
             found == Resulted(uploads[d], h, "DUPLICATE")
  <2>1. /\ uploads[d].hash = h /\ uploads[d].step = "INSERT"
        /\ uploads[d].todo = todo /\ uploads[d].results = results
    BY <2>0
  <2>2. /\ \A x \in todo \cup {h} : Received(TextOf(x))
        /\ \A x \in DOMAIN results : Stored(TextOf(x))
    BY <2>1 DEF QueueInvariant, RequestFine
  <2>3. /\ found \in Upload
        /\ found = [step |-> "NEXT", todo |-> todo,
                    results |-> Result(uploads[d], h, "DUPLICATE")]
        /\ DOMAIN Result(uploads[d], h, "DUPLICATE") = DOMAIN results \cup {h}
    <3>1. found \in Upload
      BY <2>1, ResultedTyped DEF ResultStatus
    <3>2. DOMAIN Result(uploads[d], h, "DUPLICATE") = DOMAIN results \cup {h}
      BY <2>1 DEF Result
    <3>3. found = [step |-> "NEXT", todo |-> todo,
                   results |-> Result(uploads[d], h, "DUPLICATE")]
      BY <2>1 DEF Resulted
    <3> QED
      BY <3>1, <3>2, <3>3
  <2>4. [uploads[d] EXCEPT !.step = "EXTRACT"] = extracting
    BY <2>0, OtherStep
  <2>5. CASE Logged(h)
    <3>1. Answer(d, found)
      BY <1>5, <2>1, <2>5 DEF InsertLog
    <3>2. Stored(TextOf(h))
      BY <2>5 DEF Stored
    <3>3. RequestFine(found)
      BY <2>2, <2>3, <3>2 DEF RequestFine
    <3> HIDE DEF found
    <3> QED
      BY <2>3, <3>1, <3>3, RequestMoves
  <2>6. CASE ~Logged(h)
    <3>1. Answer(d, extracting)
      BY <1>5, <2>1, <2>4, <2>6 DEF InsertLog
    <3>2. Logged(h)'
      BY <1>5, <2>1, <2>6 DEF InsertLog, Logged, SyncTypeOK
    <3>3. extracting \in Upload
      BY DEF Upload
    <3>4. \A x \in Hashes : Received(TextOf(x)) => Received(TextOf(x))'
      BY TextsOf DEF Monotone
    <3>5. \A x \in Hashes : Stored(TextOf(x)) => Stored(TextOf(x))'
      BY StaysStored, TextsOf
    <3>6. \A x \in DOMAIN results : x \in Hashes
      BY PartialElim
    <3>7. /\ \A x \in todo \cup {h} : Received(TextOf(x))'
          /\ \A x \in DOMAIN results : Stored(TextOf(x))'
      BY <2>2, <3>4, <3>5, <3>6
    <3>8. uploads'[d] = extracting /\ \A x \in Drainers \ {d} : uploads'[x] = uploads[x]
      BY <3>1 DEF Answer, SyncTypeOK
    <3>9. RequestFine(uploads[d])'
      BY <3>2, <3>7, <3>8 DEF RequestFine
    <3>10. ASSUME NEW x \in Drainers \ {d}
           PROVE  RequestFine(uploads[x])'
      <4>1. uploads[x] \in Upload /\ RequestFine(uploads[x]) /\ uploads'[x] = uploads[x]
        BY <3>8 DEF SyncTypeOK, QueueInvariant
      <4>2. \A y \in DOMAIN uploads[x].results :
               uploads[x].step \in {"NEXT", "INSERT", "EXTRACT", "ANSWERED"} => y \in Hashes
        BY <4>1, PartialElim DEF Upload
      <4>3. \A y \in uploads[x].todo :
               uploads[x].step \in {"NEXT", "INSERT", "EXTRACT"} => y \in Hashes
        BY <4>1 DEF Upload
      <4>4. uploads[x].step \in {"INSERT", "EXTRACT"} => uploads[x].hash \in Hashes
        BY <4>1 DEF Upload
      <4> QED
        BY <3>4, <3>5, <4>1, <4>2, <4>3, <4>4 DEF RequestFine, Monotone
    <3> QED
      BY <3>9, <3>10
  <2> QED
    BY <2>5, <2>6
<1>6. ASSUME NEW d \in Drainers, Extract(d)
      PROVE  \A x \in Drainers : RequestFine(uploads[x])'
  <2>0. PICK h \in Hashes, todo \in SUBSET Hashes,
             results \in PartialFunctions(Hashes, ResultStatus) :
             uploads[d] = [step |-> "EXTRACT", todo |-> todo, hash |-> h, results |-> results]
    <3>1. uploads[d].step = "EXTRACT"
      BY <1>6 DEF Extract
    <3> QED
      BY <3>1, OneState
  <2> DEFINE done == Resulted(uploads[d], h, "ACCEPTED")
  <2>1. /\ uploads[d].hash = h /\ uploads[d].step = "EXTRACT"
        /\ uploads[d].todo = todo /\ uploads[d].results = results
    BY <2>0
  <2>2. /\ \A x \in todo : Received(TextOf(x))
        /\ \A x \in DOMAIN results : Stored(TextOf(x))
        /\ Logged(h)
    BY <2>1 DEF QueueInvariant, RequestFine
  <2>3. /\ done \in Upload
        /\ done = [step |-> "NEXT", todo |-> todo,
                   results |-> Result(uploads[d], h, "ACCEPTED")]
        /\ DOMAIN Result(uploads[d], h, "ACCEPTED") = DOMAIN results \cup {h}
    <3>1. done \in Upload
      BY <2>1, ResultedTyped DEF ResultStatus
    <3>2. DOMAIN Result(uploads[d], h, "ACCEPTED") = DOMAIN results \cup {h}
      BY <2>1 DEF Result
    <3>3. done = [step |-> "NEXT", todo |-> todo,
                  results |-> Result(uploads[d], h, "ACCEPTED")]
      BY <2>1 DEF Resulted
    <3> QED
      BY <3>1, <3>2, <3>3
  <2>4. Stored(TextOf(h))
    BY <2>1, <2>2 DEF Stored
  <2>5. RequestFine(done)
    BY <2>2, <2>3, <2>4 DEF RequestFine
  <2>6. Answer(d, done)
    BY <1>6, <2>1 DEF Extract
  <2> HIDE DEF done
  <2> QED
    BY <2>3, <2>5, <2>6, RequestMoves
<1>7. ASSUME NEW d \in Drainers, EndUpload(d)
      PROVE  \A x \in Drainers : RequestFine(uploads[x])'
  <2> DEFINE answered == [step |-> "ANSWERED", results |-> uploads[d].results]
  <2>1. answered \in Upload
    BY <1>7, NextState DEF EndUpload, Upload
  <2>2. RequestFine(answered)
    BY <1>7 DEF EndUpload, QueueInvariant, RequestFine
  <2>3. Answer(d, answered) \/ Answer(d, NoUpload)
    BY <1>7 DEF EndUpload, Deliver
  <2> HIDE DEF answered
  <2> QED
    BY <1>2, <2>1, <2>2, <2>3, RequestMoves
<1>8. ASSUME NEW d \in Drainers, FaultStep(d)
      PROVE  \A x \in Drainers : RequestFine(uploads[x])'
  <2>1. CASE TimeOut(d)
    BY <1>1, <2>1 DEF TimeOut
  <2>2. ASSUME NEW refusal \in Refusals, TurnAway(d, refusal)
        PROVE  \A x \in Drainers : RequestFine(uploads[x])'
    BY <1>2, <2>2, RefusalIsFailure DEF TurnAway, Deliver
  <2>3. CASE Break(d)
    BY <1>2, <2>3 DEF Break, Deliver, AllFailures
  <2> QED
    BY <1>8, <2>1, <2>2, <2>3 DEF FaultStep
<1>9. CASE Kill
  <2>1. ASSUME NEW x \in Drainers
        PROVE  RequestFine(uploads[x])'
    <3>1. CASE uploads'[x] = NoUpload
      BY <3>1 DEF RequestFine, NoUpload
    <3>2. CASE uploads'[x] = uploads[x]
      <4>1. RequestFine(uploads[x])
        BY DEF QueueInvariant
      <4>2. inbox' = inbox /\ smsLogs' = smsLogs
        BY <1>9 DEF Kill
      <4> QED
        BY <3>2, <4>1, <4>2 DEF RequestFine, Received, Stored, Logged
    <3> QED
      BY <1>9, <3>1, <3>2 DEF Kill
  <2> QED
    BY <2>1
<1>10. ASSUME NEW d \in Drainers, ReadAnswer(d) \/ ReadFailure(d)
       PROVE  \A x \in Drainers : RequestFine(uploads[x])'
  BY <1>2, <1>10 DEF ReadAnswer, ReadFailure
<1>11. ASSUME NEW d \in Drainers,
              \/ \E batch \in SUBSET Hashes : ClaimBatch(d, batch)
              \/ \E h \in Hashes : ScanMessage(d, h) \/ Persist(d, h)
              \/ ClaimNothing(d) \/ EndScan(d) \/ StartSync(d)
       PROVE  UNCHANGED uploads
  BY <1>11 DEF ClaimBatch, ScanMessage, Persist, SettledRow, ClaimNothing, EndScan, StartSync
<1>12. ASSUME NEW h \in Hashes, Purge(h) \/ Wake(h) \/ GrowOld(h)
       PROVE  UNCHANGED uploads
  BY <1>12 DEF Purge, Wake, GrowOld
<1>13. ASSUME NEW m \in Texts, LeaveWindow(m) \/
              \E heard, scheduled \in BOOLEAN : Receive(m, heard, scheduled)
       PROVE  UNCHANGED uploads
  BY <1>13 DEF LeaveWindow, Receive
<1>14. CASE StartUpload \/ Stabilise \/ UNCHANGED syncVars
  BY <1>1, <1>14 DEF StartUpload, Stabilise, syncVars
<1>15. ASSUME NEW d \in Drainers, DrainStep(d)
       PROVE  \A x \in Drainers : RequestFine(uploads[x])'
  BY <1>1, <1>3, <1>10, <1>11, <1>15 DEF DrainStep
<1>16. ASSUME NEW d \in Drainers, ServerStep(d)
       PROVE  \A x \in Drainers : RequestFine(uploads[x])'
  BY <1>4, <1>5, <1>6, <1>7, <1>16 DEF ServerStep
<1> QED
  BY <1>1, <1>8, <1>9, <1>11, <1>12, <1>13, <1>14, <1>15, <1>16 DEF SyncNext, TimePasses

-----------------------------------------------------------------------------
(* The steps of the hand-over.                                             *)
LEMMA QueueInvariantInit == SyncInit => QueueInvariant
BY RestFine DEF SyncInit, QueueInvariant, RowFine, NoRow, Settled

LEMMA QueueInvariantStep ==
    SyncTypeOK /\ QueueInvariant /\ [SyncNext]_syncVars => QueueInvariant'
BY NothingForgotten, RowsStep, WorkersStep, RequestsStep DEF QueueInvariant

(* UploadedIsStored: a row the phone shows as UPLOADED is on the server.   *)
THEOREM UploadedStored == SyncSpec => []UploadedIsStored
<1>1. QueueInvariant => UploadedIsStored
  BY DEF QueueInvariant, RowFine, Settled, UploadedIsStored
<1> QED
  BY <1>1, InitTyped, SyncStepTyped, QueueInvariantInit, QueueInvariantStep, PTL DEF SyncSpec

KeptRow(h) == rows[h].status \in {"PENDING", "UPLOADING", "FAILED"}

LEMMA KeptOrSettled ==
    ASSUME SyncTypeOK, NEW h \in Hashes, rows[h].status # "ABSENT"
    PROVE  KeptRow(h) \/ Settled(rows[h].status)
BY DEF SyncTypeOK, Row, SyncStatus, KeptRow, Settled

(* What is kept only grows.                                                *)
LEMMA KeepStep ==
    ASSUME UNCHANGED smsLogs,
           \A m \in Texts : inbox[m] = "RECENT" => inbox'[m] = "RECENT",
           \A h \in Hashes : KeptRow(h) => KeptRow(h)'
    PROVE  \E M \in SUBSET Texts : HO!Keep(M)
<1>1. StoredTexts' = StoredTexts
  BY DEF StoredTexts, Stored, Logged
<1>2. Keeping \subseteq Keeping'
  BY DEF Keeping, Kept, KeptRow
<1>3. Keeping' \in SUBSET Texts
  BY DEF Keeping
<1>4. Keeping' = Keeping \cup Keeping'
  BY <1>2
<1> QED
  BY <1>1, <1>3, <1>4 DEF HO!Keep

(* One message may be let go, if it is on the server.                      *)
LEMMA ReleaseStep ==
    ASSUME NEW m \in Texts, UNCHANGED smsLogs, Stored(m),
           \A x \in Texts \ {m} : inbox'[x] = inbox[x],
           \A h \in Hashes : TextOf(h) # m => rows'[h] = rows[h]
    PROVE  HO!HandoverNext \/ UNCHANGED <<Keeping, StoredTexts>>
<1>1. StoredTexts' = StoredTexts
  BY DEF StoredTexts, Stored, Logged
<1>2. \A x \in Texts \ {m} : Kept(x)' <=> Kept(x)
  BY DEF Kept
<1>3. CASE Kept(m) /\ ~Kept(m)'
  <2>1. Keeping' = Keeping \ {m} /\ m \in Keeping
    BY <1>2, <1>3 DEF Keeping
  <2>2. m \in StoredTexts
    BY DEF StoredTexts
  <2> QED
    BY <1>1, <2>1, <2>2 DEF HO!HandoverNext, HO!Release
<1>4. CASE ~Kept(m) \/ Kept(m)'
  <2>1. Keeping \subseteq Keeping' /\ Keeping' \in SUBSET Texts
    BY <1>2, <1>4 DEF Keeping
  <2>2. Keeping' = Keeping \cup Keeping'
    BY <2>1
  <2> QED
    BY <1>1, <2>1, <2>2 DEF HO!HandoverNext, HO!Keep
<1> QED
  BY <1>3, <1>4

LEMMA StoreStep ==
    ASSUME SyncTypeOK, QueueInvariant, NeverDropped, NEW d \in Drainers, InsertLog(d)
    PROVE  HO!HandoverNext \/ UNCHANGED <<Keeping, StoredTexts>>
<1> DEFINE here == uploads[d].hash
<1>1. PICK h \in Hashes : h = here
  BY OneState DEF InsertLog
<1>2. UNCHANGED Keeping
  BY DEF InsertLog, Keeping, Kept
<1>3. CASE Logged(h)
  BY <1>1, <1>2, <1>3 DEF InsertLog, StoredTexts, Stored, Logged
<1>4. CASE ~Logged(h)
  <2>1. smsLogs' = [smsLogs EXCEPT ![h] = "RAW"]
    BY <1>1, <1>4 DEF InsertLog
  <2>2. \A x \in Hashes : Logged(x)' <=> Logged(x) \/ x = h
    BY <2>1 DEF Logged, SyncTypeOK
  <2> DEFINE m == h[1]
  <2>3. TextOf(h) = m /\ m \in Texts
    BY TextsOf DEF TextOf
  <2> HIDE DEF m
  <2>4. \A x \in Texts : Stored(x)' <=> Stored(x) \/ x = m
    BY <2>2, <2>3 DEF Stored
  <2>5. StoredTexts' = StoredTexts \cup {m}
    BY <2>3, <2>4 DEF StoredTexts
  <2>6. Received(m)
    BY <1>1, <2>3 DEF InsertLog, QueueInvariant, RequestFine
  <2>7. CASE Stored(m)
    BY <1>2, <2>3, <2>5, <2>7 DEF StoredTexts
  <2>8. CASE ~Stored(m)
    <3>1. m \in Keeping
      BY <2>3, <2>6, <2>8 DEF NeverDropped, Received, Keeping
    <3> QED
      BY <1>2, <2>3, <2>5, <3>1 DEF HO!HandoverNext, HO!Store
  <2> QED
    BY <2>7, <2>8
<1> QED
  BY <1>3, <1>4

(* Every step of the queue and the endpoint is one of the hand-over.       *)
LEMMA HandoverStep ==
    ASSUME SyncTypeOK, SyncTypeOK', QueueInvariant, NeverDropped, [SyncNext]_syncVars
    PROVE  HO!HandoverNext \/ UNCHANGED <<Keeping, StoredTexts>>
<1>1. ASSUME UNCHANGED smsLogs,
             \A m \in Texts : inbox[m] = "RECENT" => inbox'[m] = "RECENT",
             \A h \in Hashes : KeptRow(h) => KeptRow(h)'
      PROVE  HO!HandoverNext
  BY <1>1, KeepStep DEF HO!HandoverNext
<1>2. ASSUME UNCHANGED <<smsLogs, inbox, rows>>
      PROVE  HO!HandoverNext
  BY <1>1, <1>2 DEF KeptRow
<1>3. ASSUME NEW m \in Texts, NEW heard \in BOOLEAN, NEW scheduled \in BOOLEAN,
             Receive(m, heard, scheduled)
      PROVE  HO!HandoverNext
  BY <1>1, <1>3, HashesOf DEF Receive, KeptRow, Captured, SyncTypeOK
<1>4. CASE StartUpload
  BY <1>1, <1>4 DEF StartUpload, Reclaimed, KeptRow, SyncTypeOK, Row
<1>5. ASSUME NEW d \in Drainers, StartSync(d)
      PROVE  HO!HandoverNext
  BY <1>1, <1>5 DEF StartSync, Reclaimed, KeptRow, SyncTypeOK, Row
<1>6. ASSUME NEW d \in Drainers, NEW h \in Hashes, ScanMessage(d, h)
      PROVE  HO!HandoverNext
  BY <1>1, <1>6 DEF ScanMessage, KeptRow, Captured, SyncTypeOK
<1>7. ASSUME NEW d \in Drainers, EndScan(d)
      PROVE  HO!HandoverNext
  <2> DEFINE table == Requeued(rows)
  <2>1. table \in [Hashes -> Row] /\ rows \in [Hashes -> Row]
    BY TablesTyped DEF SyncTypeOK
  <2>2. \A h \in Hashes : KeptRow(h) => table[h].status \in {"PENDING", "UPLOADING", "FAILED"}
    BY <2>1 DEF KeptRow, Requeued, Row
  <2> HIDE DEF table
  <2>3. \A h \in Hashes : table[h].status \in {"PENDING", "UPLOADING", "FAILED"} =>
           Reclaimed(table)[h].status \in {"PENDING", "UPLOADING", "FAILED"}
    BY <2>1 DEF Reclaimed, Row
  <2>4. rows' = Reclaimed(table)
    BY <1>7 DEF EndScan, table
  <2>5. \A h \in Hashes : KeptRow(h) => KeptRow(h)'
    BY <2>2, <2>3, <2>4 DEF KeptRow
  <2> QED
    BY <1>1, <1>7, <2>5 DEF EndScan
<1>8. ASSUME NEW d \in Drainers, MarkUploading(d)
      PROVE  HO!HandoverNext
  BY <1>1, <1>8, MarkWrites DEF MarkUploading, KeptRow
<1>9. ASSUME NEW d \in Drainers, NEW h \in Hashes, Persist(d, h)
      PROVE  HO!HandoverNext \/ UNCHANGED <<Keeping, StoredTexts>>
  <2> DEFINE status == drainers[d].outcomes[h].status
  <2>1. UNCHANGED <<inbox, smsLogs>>
    BY <1>9 DEF Persist, SettledRow
  <2>2. CASE Settled(status)
    <3>1. Stored(TextOf(h))
      BY <1>9, <2>2, PersistWrites DEF QueueInvariant, WorkerFine
    <3>2. \A x \in Hashes : TextOf(x) # TextOf(h) => rows'[x] = rows[x]
      BY <1>9, PersistWrites
    <3> QED
      BY <2>1, <3>1, <3>2, ReleaseStep, TextsOf
  <2>3. CASE ~Settled(status)
    <3>1. status \in {"PENDING", "UPLOADING", "FAILED"}
      BY <1>9, <2>3, PersistWrites DEF Settled, SyncStatus
    <3>2. \A x \in Hashes : KeptRow(x) => KeptRow(x)'
      BY <1>9, <3>1, PersistWrites DEF KeptRow
    <3> QED
      BY <1>1, <2>1, <3>2
  <2> QED
    BY <2>2, <2>3
<1>10. ASSUME NEW d \in Drainers, InsertLog(d)
       PROVE  HO!HandoverNext \/ UNCHANGED <<Keeping, StoredTexts>>
  BY <1>10, StoreStep
<1>11. ASSUME NEW d \in Drainers, Extract(d)
       PROVE  UNCHANGED <<Keeping, StoredTexts>>
  <2>1. PICK h \in Hashes : h = uploads[d].hash
    BY <1>11, OneState DEF Extract
  <2>2. Logged(h)
    BY <1>11, <2>1 DEF Extract, QueueInvariant, RequestFine
  <2>3. smsLogs' = [smsLogs EXCEPT ![h] = "DONE"]
    BY <1>11, <2>1 DEF Extract
  <2>4. \A x \in Hashes : Logged(x)' <=> Logged(x)
    BY <2>2, <2>3 DEF Logged, SyncTypeOK
  <2>5. UNCHANGED StoredTexts
    BY <2>4 DEF StoredTexts, Stored
  <2>6. UNCHANGED Keeping
    BY <1>11 DEF Extract, Keeping, Kept
  <2> QED
    BY <2>5, <2>6
<1>12. ASSUME NEW h \in Hashes, Purge(h)
       PROVE  HO!HandoverNext
  BY <1>1, <1>12 DEF Purge, KeptRow, SyncTypeOK
<1>13. ASSUME NEW h \in Hashes, Wake(h) \/ GrowOld(h)
       PROVE  HO!HandoverNext
  BY <1>1, <1>13, ClockWrites DEF Wake, GrowOld, KeptRow
<1>14. ASSUME NEW m \in Texts, LeaveWindow(m)
       PROVE  HO!HandoverNext \/ UNCHANGED <<Keeping, StoredTexts>>
  <2>1. PICK h \in Hashes : TextOf(h) = m /\ rows[h].status # "ABSENT"
    BY <1>14 DEF LeaveWindow
  <2>2. CASE Stored(m)
    BY <1>14, <2>2, ReleaseStep DEF LeaveWindow, SyncTypeOK
  <2>3. CASE ~Stored(m)
    <3>1. KeptRow(h)
      BY <2>1, <2>3, KeptOrSettled DEF QueueInvariant, RowFine
    <3>2. UNCHANGED <<Keeping, StoredTexts>>
      <4>1. Kept(m) /\ Kept(m)'
        BY <1>14, <2>1, <3>1 DEF Kept, KeptRow, LeaveWindow
      <4>2. \A x \in Texts : Kept(x)' <=> Kept(x)
        BY <1>14, <4>1 DEF Kept, LeaveWindow, SyncTypeOK
      <4> QED
        BY <1>14, <4>2 DEF Keeping, StoredTexts, Stored, Logged, LeaveWindow
    <3> QED
      BY <3>2
  <2> QED
    BY <2>2, <2>3
<1>15. ASSUME NEW d \in Drainers,
              \/ \E batch \in SUBSET Hashes : ClaimBatch(d, batch)
              \/ ClaimNothing(d) \/ ReadAnswer(d) \/ ReadFailure(d) \/ FaultStep(d)
              \/ EndUpload(d) \/ \E h \in Hashes : FindDuplicate(d, h)
       PROVE  HO!HandoverNext
  BY <1>2, <1>15 DEF ClaimBatch, ClaimNothing, ReadAnswer, ReadFailure, FaultStep, Break,
     TimeOut, TurnAway, EndUpload, FindDuplicate
<1>16. CASE Kill \/ Stabilise \/ UNCHANGED syncVars
  BY <1>2, <1>16 DEF Kill, Stabilise, syncVars
<1>17. ASSUME NEW d \in Drainers, DrainStep(d)
       PROVE  HO!HandoverNext \/ UNCHANGED <<Keeping, StoredTexts>>
  BY <1>6, <1>7, <1>8, <1>9, <1>15, <1>17 DEF DrainStep
<1>18. ASSUME NEW d \in Drainers, ServerStep(d)
       PROVE  HO!HandoverNext \/ UNCHANGED <<Keeping, StoredTexts>>
  BY <1>10, <1>11, <1>15, <1>18 DEF ServerStep
<1> QED
  BY <1>3, <1>4, <1>5, <1>12, <1>13, <1>14, <1>15, <1>16, <1>17, <1>18
     DEF SyncNext, TimePasses

(* The hand-over never loses what is kept or stored, and what is received  *)
(* is kept.                                                                *)
LEMMA NeverDroppedStep ==
    ASSUME SyncTypeOK, SyncTypeOK', QueueInvariant, NeverDropped, [SyncNext]_syncVars
    PROVE  NeverDropped'
<1>1. ASSUME NEW m \in Texts, Kept(m) \/ Stored(m)
      PROVE  Kept(m)' \/ Stored(m)'
  <2>1. m \in Keeping \cup StoredTexts
    BY <1>1 DEF Keeping, StoredTexts
  <2>2. m \in Keeping' \cup StoredTexts'
    BY <2>1, HandoverStep DEF HO!HandoverNext, HO!Keep, HO!Store, HO!Release
  <2> QED
    BY <2>2 DEF Keeping, StoredTexts
<1>2. ASSUME NEW m \in Texts, inbox[m] = "NEW", inbox'[m] # "NEW"
      PROVE  inbox'[m] = "RECENT"
  <2>1. CASE \E x \in Texts, heard, scheduled \in BOOLEAN : Receive(x, heard, scheduled)
    BY <1>2, <2>1 DEF Receive, SyncTypeOK
  <2>2. CASE \E x \in Texts : LeaveWindow(x)
    BY <1>2, <2>2 DEF LeaveWindow, SyncTypeOK
  <2>3. CASE StartUpload \/ (\E d \in Drainers : StartSync(d)) \/ Kill \/ Stabilise
    BY <1>2, <2>3 DEF StartUpload, StartSync, Kill, Stabilise
  <2>4. CASE \E h \in Hashes : Purge(h) \/ Wake(h) \/ GrowOld(h)
    BY <1>2, <2>4 DEF Purge, Wake, GrowOld
  <2>5. CASE UNCHANGED syncVars
    BY <1>2, <2>5 DEF syncVars
  <2> QED
    BY <1>2, <2>1, <2>2, <2>3, <2>4, <2>5, OtherTables DEF SyncNext, TimePasses
<1> SUFFICES ASSUME NEW m \in Texts, inbox'[m] # "NEW"
             PROVE  Kept(m)' \/ Stored(m)'
  BY DEF NeverDropped
<1>3. CASE inbox[m] = "NEW"
  BY <1>2, <1>3 DEF Kept
<1>4. CASE inbox[m] # "NEW"
  BY <1>1, <1>4 DEF NeverDropped
<1> QED
  BY <1>3, <1>4

QueueSafety == SyncTypeOK /\ QueueInvariant /\ NeverDropped

LEMMA QueueIsSafe == SyncSpec => []QueueSafety
<1>1. SyncInit => QueueSafety
  <2>1. SyncInit => NeverDropped
    BY DEF SyncInit, NeverDropped
  <2> QED
    BY <2>1, InitTyped, QueueInvariantInit DEF QueueSafety
<1>2. QueueSafety /\ [SyncNext]_syncVars => QueueSafety'
  BY SyncStepTyped, QueueInvariantStep, NeverDroppedStep DEF QueueSafety
<1> QED
  BY <1>1, <1>2, PTL DEF SyncSpec

(* NeverDropped: the phone still has a message to upload, until the server *)
(* has it.                                                                 *)
THEOREM NothingDropped == SyncSpec => []NeverDropped
<1>1. QueueSafety => NeverDropped
  BY DEF QueueSafety
<1> QED
  BY <1>1, QueueIsSafe, PTL

(* HandoverHolds: the queue and the endpoint implement the hand-over.      *)
THEOREM QueueHandsOver == SyncSpec => HandoverHolds
<1>1. SyncInit => HO!HandoverInit
  BY DEF SyncInit, NoRow, HO!HandoverInit, Keeping, Kept, StoredTexts, Stored, Logged
<1>2. QueueSafety /\ QueueSafety' /\ [SyncNext]_syncVars
        => [HO!HandoverNext]_<<Keeping, StoredTexts>>
  BY HandoverStep DEF QueueSafety
<1>3. SyncSpec => HO!HandoverInit /\ [][HO!HandoverNext]_<<Keeping, StoredTexts>>
  BY <1>1, <1>2, QueueIsSafe, PTL DEF SyncSpec
<1> QED
  BY <1>3 DEF HandoverHolds, HO!HandoverSpec, HO!handoverVars

-----------------------------------------------------------------------------
(* What is lost when the server dies between storing a message and         *)
(* matching it, and that it is all that loses a verification.              *)

(* The server does not fail between the insert and the settle write.       *)
FinishesExtraction == \A d \in Drainers : uploads[d].step = "EXTRACT" => ~Break(d)
FinishingSpec == SyncInit /\ [][SyncNext /\ FinishesExtraction]_syncVars

RawIsInHand ==
    \A h \in Hashes : smsLogs[h] = "RAW" =>
        \E d \in Drainers : uploads[d].step = "EXTRACT" /\ uploads[d].hash = h

(* A request that is extracting goes on until it has.                      *)
LEMMA ExtractionGoesOn ==
    ASSUME SyncTypeOK, SyncNext, FinishesExtraction, NEW d \in Drainers,
           uploads[d].step = "EXTRACT"
    PROVE  Extract(d) \/ uploads'[d] = uploads[d]
<1>0. uploads \in [Drainers -> Upload]
  BY DEF SyncTypeOK
<1>1. ASSUME NEW c \in Drainers, DrainStep(c) \/ ServerStep(c) \/ FaultStep(c)
      PROVE  Extract(d) \/ uploads'[d] = uploads[d]
  <2>1. CASE c = d
    <3>1. ~Working(c) => FALSE
      BY <2>1 DEF Working
    <3>2. CASE DrainStep(c)
      BY <3>1, <3>2, <2>1 DEF DrainStep, ClaimBatch, ClaimNothing, MarkUploading, ReadAnswer,
         ReadFailure, ScanMessage, Persist, EndScan
    <3>3. CASE ServerStep(c)
      BY <3>3, <2>1 DEF ServerStep, FindDuplicate, InsertLog, EndUpload
    <3>4. CASE FaultStep(c)
      BY <3>4, <2>1 DEF FaultStep, FinishesExtraction, TimeOut, TurnAway
    <3> QED
      BY <1>1, <3>2, <3>3, <3>4
  <2>2. CASE c # d
    <3>1. \/ UNCHANGED uploads
          \/ \E state : uploads' = [uploads EXCEPT ![c] = state]
      BY <1>1 DEF DrainStep, ClaimBatch, ClaimNothing, MarkUploading, ReadAnswer, ReadFailure,
         ScanMessage, Persist, EndScan, ServerStep, FindDuplicate, InsertLog, Extract, EndUpload,
         FaultStep, Break, TimeOut, TurnAway, Answer, Deliver
    <3> QED
      BY <1>0, <2>2, <3>1
  <2> QED
    BY <2>1, <2>2
<1>2. CASE Kill
  BY <1>2 DEF Kill, Working
<1>3. CASE UNCHANGED uploads
  BY <1>3
<1>4. ASSUME \/ \E m \in Texts, heard, scheduled \in BOOLEAN : Receive(m, heard, scheduled)
             \/ StartUpload \/ Stabilise
             \/ \E c \in Drainers : StartSync(c)
             \/ \E h \in Hashes : Purge(h) \/ Wake(h) \/ GrowOld(h)
             \/ \E m \in Texts : LeaveWindow(m)
      PROVE  UNCHANGED uploads
  BY <1>4 DEF Receive, StartUpload, Stabilise, StartSync, Purge, Wake, GrowOld, LeaveWindow
<1> QED
  BY <1>1, <1>2, <1>3, <1>4 DEF SyncNext, TimePasses

LEMMA RawStaysInHand ==
    ASSUME SyncTypeOK, RawIsInHand, [SyncNext /\ FinishesExtraction]_syncVars
    PROVE  RawIsInHand'
<1>0. uploads \in [Drainers -> Upload] /\ smsLogs \in [Hashes -> {"NONE", "RAW", "DONE"}]
  BY DEF SyncTypeOK
<1>1. CASE UNCHANGED syncVars
  BY <1>1 DEF syncVars, RawIsInHand
<1>2. CASE SyncNext /\ FinishesExtraction
  <2> SUFFICES ASSUME NEW h \in Hashes, smsLogs'[h] = "RAW"
               PROVE  \E d \in Drainers : uploads'[d].step = "EXTRACT" /\ uploads'[d].hash = h
    BY DEF RawIsInHand
  <2>1. CASE smsLogs[h] = "RAW"
    <3>1. PICK d \in Drainers : uploads[d].step = "EXTRACT" /\ uploads[d].hash = h
      BY <2>1 DEF RawIsInHand
    <3>2. ~Extract(d)
      BY <1>0, <3>1 DEF Extract
    <3> QED
      BY <1>2, <3>1, <3>2, ExtractionGoesOn
  <2>2. CASE smsLogs[h] # "RAW"
    <3>1. smsLogs' # smsLogs
      BY <2>2
    <3>2. PICK d \in Drainers : InsertLog(d) \/ Extract(d)
      BY <1>2, <3>1, OtherTables DEF SyncNext, TimePasses, ServerStep, FindDuplicate, EndUpload,
         Receive, StartUpload, StartSync, Purge, Wake, GrowOld, LeaveWindow, Kill, Stabilise
    <3>3. InsertLog(d) /\ uploads[d].hash = h /\ ~Logged(h)
      BY <1>0, <2>2, <3>2 DEF InsertLog, Extract
    <3>4. uploads' = [uploads EXCEPT ![d] = [uploads[d] EXCEPT !.step = "EXTRACT"]]
      BY <3>3 DEF InsertLog, Answer
    <3>5. uploads[d] \in Upload /\ uploads[d].step = "INSERT"
      BY <1>0, <3>3 DEF InsertLog
    <3>6. /\ [uploads[d] EXCEPT !.step = "EXTRACT"].step = "EXTRACT"
          /\ [uploads[d] EXCEPT !.step = "EXTRACT"].hash = h
      BY <3>3, <3>5 DEF Upload
    <3> QED
      BY <1>0, <3>4, <3>6
  <2> QED
    BY <2>1, <2>2
<1> QED
  BY <1>1, <1>2

(* "delays but never loses verification": where the server finishes what   *)
(* it has stored, whatever the phone has settled is matched or about to    *)
(* be, however requests are lost, time out, overlap or are repeated.       *)
THEOREM FinishedIsProcessed == FinishingSpec => []UploadedIsProcessed
<1>1. FinishingSpec => SyncSpec
  BY PTL DEF FinishingSpec, SyncSpec
<1>2. SyncInit => RawIsInHand
  BY DEF SyncInit, RawIsInHand
<1>3. SyncTypeOK /\ RawIsInHand /\ [SyncNext /\ FinishesExtraction]_syncVars => RawIsInHand'
  BY RawStaysInHand
<1>4. SyncTypeOK /\ UploadedIsStored /\ RawIsInHand => UploadedIsProcessed
  <2> SUFFICES ASSUME SyncTypeOK, UploadedIsStored, RawIsInHand,
                      NEW h \in Hashes, rows[h].status = "UPLOADED"
               PROVE  Processed(TextOf(h))
    BY DEF UploadedIsProcessed
  <2>1. PICK x \in Hashes : TextOf(x) = TextOf(h) /\ smsLogs[x] # "NONE"
    BY DEF UploadedIsStored, Stored, Logged
  <2>2. smsLogs[x] \in {"RAW", "DONE"}
    BY <2>1 DEF SyncTypeOK
  <2> QED
    BY <2>1, <2>2 DEF RawIsInHand, Processed
<1> QED
  BY <1>1, <1>2, <1>3, <1>4, SyncTyping, UploadedStored, PTL DEF FinishingSpec

-----------------------------------------------------------------------------
(* What is stored twice because a message has two client hashes, and that  *)
(* nothing else is: where the inbox dates it as the broadcast does, only   *)
(* one hash of it is ever mentioned.                                       *)
Heard(h) == h[2] = "PDU"

WorkerHears(state) ==
    /\ state.step = "SCAN" => \A h \in state.todo : Heard(h)
    /\ state.step = "MARK" => \A h \in DOMAIN state.sent : Heard(h)

RequestHears(state) ==
    /\ state.step \in {"NEXT", "INSERT", "EXTRACT"} => \A h \in state.todo : Heard(h)
    /\ state.step \in {"INSERT", "EXTRACT"} => Heard(state.hash)

OneClockInv ==
    /\ \A h \in Hashes : rows[h].status # "ABSENT" => Heard(h)
    /\ \A d \in Drainers : WorkerHears(drainers[d])
    /\ \A d \in Drainers : RequestHears(uploads[d])
    /\ \A h \in Hashes : Logged(h) => Heard(h)

LEMMA HashIsOfText == \A h \in Hashes : h = <<TextOf(h), h[2]>>
BY DEF Hashes, TextOf

LEMMA RowsHeard ==
    ASSUME SyncTypeOK, OneClockInv, [SyncNext]_syncVars
    PROVE  \A h \in Hashes : rows'[h].status # "ABSENT" => Heard(h)
<1> DEFINE Keeps == \A h \in Hashes : rows'[h].status # "ABSENT" => Heard(h)
<1>0. \A h \in Hashes : rows[h].status # "ABSENT" => Heard(h)
  BY DEF OneClockInv
<1>1. CASE UNCHANGED rows
  BY <1>0, <1>1
<1>2. ASSUME NEW m \in Texts, NEW heard \in BOOLEAN, NEW scheduled \in BOOLEAN,
             Receive(m, heard, scheduled)
      PROVE  Keeps
  <2>1. \A h \in Hashes : rows'[h] = rows[h] \/ h = HeardHash(m)
    BY <1>2, HashesOf DEF Receive, SyncTypeOK
  <2> QED
    BY <1>0, <2>1 DEF HeardHash, Heard
<1>3. CASE StartUpload \/ \E d \in Drainers : StartSync(d)
  BY <1>0, <1>3, TablesKeep DEF StartUpload, StartSync, SyncTypeOK
<1>4. ASSUME NEW d \in Drainers, NEW h \in Hashes, ScanMessage(d, h)
      PROVE  Keeps
  <2>1. Heard(h)
    BY <1>4 DEF ScanMessage, OneClockInv, WorkerHears
  <2>2. \A x \in Hashes : rows'[x] = rows[x] \/ x = h
    BY <1>4 DEF ScanMessage, SyncTypeOK
  <2> QED
    BY <1>0, <2>1, <2>2
<1>5. ASSUME NEW d \in Drainers, EndScan(d)
      PROVE  Keeps
  <2>1. rows \in [Hashes -> Row] /\ Requeued(rows) \in [Hashes -> Row]
    BY TablesTyped DEF SyncTypeOK
  <2>2. rows' = Reclaimed(Requeued(rows))
    BY <1>5 DEF EndScan
  <2> QED
    BY <1>0, <2>1, <2>2, TablesKeep
<1>6. ASSUME NEW d \in Drainers, MarkUploading(d)
      PROVE  Keeps
  BY <1>0, <1>6, MarkWrites
<1>7. ASSUME NEW d \in Drainers, NEW h \in Hashes, Persist(d, h)
      PROVE  Keeps
  BY <1>0, <1>7, PersistWrites
<1>8. ASSUME NEW h \in Hashes, Purge(h) \/ Wake(h) \/ GrowOld(h)
      PROVE  Keeps
  <2>1. \A x \in Hashes : rows'[x].status \in {rows[x].status, "ABSENT"}
    BY <1>8, ClockWrites DEF Purge, NoRow, SyncTypeOK
  <2> QED
    BY <1>0, <2>1
<1>9. CASE (\E m \in Texts : LeaveWindow(m)) \/ Kill \/ Stabilise \/ UNCHANGED syncVars
  BY <1>1, <1>9 DEF LeaveWindow, Kill, Stabilise, syncVars
<1>10. ASSUME NEW d \in Drainers,
              \/ \E batch \in SUBSET Hashes : ClaimBatch(d, batch)
              \/ ClaimNothing(d) \/ ReadAnswer(d) \/ ReadFailure(d) \/ FaultStep(d)
       PROVE  UNCHANGED rows
  BY <1>10 DEF ClaimBatch, ClaimNothing, ReadAnswer, ReadFailure, FaultStep, Break, TimeOut,
     TurnAway
<1> QED
  BY <1>1, <1>2, <1>3, <1>4, <1>5, <1>6, <1>7, <1>8, <1>9, <1>10, OtherTables
     DEF SyncNext, TimePasses, DrainStep

LEMMA WorkersHear ==
    ASSUME SyncTypeOK, SameClock, OneClockInv, [SyncNext]_syncVars
    PROVE  \A x \in Drainers : WorkerHears(drainers'[x])
<1> DEFINE Keeps == \A x \in Drainers : WorkerHears(drainers'[x])
<1>0. /\ drainers \in [Drainers -> Drainer]
      /\ \A x \in Drainers : WorkerHears(drainers[x])
  BY DEF SyncTypeOK, OneClockInv
<1>1. CASE UNCHANGED drainers
  BY <1>0, <1>1
<1>2. ASSUME NEW d \in Drainers, \A x \in Drainers \ {d} : drainers'[x] = drainers[x],
             drainers'[d].step \notin {"SCAN", "MARK"}
      PROVE  Keeps
  BY <1>0, <1>2 DEF WorkerHears
<1>3. ASSUME NEW d \in Drainers, Become(d, Idle) \/ Become(d, Claiming)
      PROVE  Keeps
  BY <1>0, <1>2, <1>3 DEF Become, Idle, Claiming
<1>4. CASE StartUpload
  BY <1>3, <1>4 DEF StartUpload
<1>5. ASSUME NEW d \in Drainers, StartSync(d)
      PROVE  Keeps
  <2>1. PICK todo \in {InInbox, {}} : Become(d, [step |-> "SCAN", todo |-> todo])
    BY <1>5 DEF StartSync
  <2>2. \A h \in todo : Heard(h)
    BY DEF InInbox, ScannedHash, Heard
  <2>3. drainers'[d] = [step |-> "SCAN", todo |-> todo]
    BY <1>0, <2>1 DEF Become
  <2>4. WorkerHears(drainers'[d])
    BY <2>2, <2>3 DEF WorkerHears
  <2> QED
    BY <1>0, <2>1, <2>4 DEF Become
<1>6. ASSUME NEW d \in Drainers, NEW h \in Hashes, ScanMessage(d, h)
      PROVE  Keeps
  <2> DEFINE rest == drainers[d].todo \ {h}
  <2>1. drainers[d] = [step |-> "SCAN", todo |-> drainers[d].todo]
    BY <1>6, ScanState DEF ScanMessage
  <2>2. \A x \in rest : Heard(x)
    BY <1>0, <2>1 DEF WorkerHears
  <2>3. Become(d, [drainers[d] EXCEPT !.todo = rest])
    BY <1>6 DEF ScanMessage
  <2> HIDE DEF rest
  <2>4. [drainers[d] EXCEPT !.todo = rest] = [step |-> "SCAN", todo |-> rest]
    BY <2>1, OtherTodo
  <2>5. drainers'[d] = [step |-> "SCAN", todo |-> rest]
    BY <1>0, <2>3, <2>4 DEF Become
  <2>6. WorkerHears(drainers'[d])
    BY <2>2, <2>5 DEF WorkerHears
  <2> QED
    BY <1>0, <2>3, <2>6 DEF Become
<1>7. ASSUME NEW d \in Drainers, NEW batch \in SUBSET Hashes, ClaimBatch(d, batch)
      PROVE  Keeps
  <2>1. drainers'[d] = [step |-> "MARK", sent |-> [h \in batch |-> rows[h].attempts]]
    BY <1>0, <1>7 DEF ClaimBatch, Become
  <2>2. \A h \in batch : Heard(h)
    BY <1>7 DEF ClaimBatch, DueForUpload, OneClockInv
  <2>3. WorkerHears(drainers'[d])
    BY <2>1, <2>2 DEF WorkerHears
  <2> QED
    BY <1>0, <1>7, <2>3 DEF ClaimBatch, Become
<1>8. ASSUME NEW d \in Drainers, MarkUploading(d)
      PROVE  Keeps
  <2>1. drainers[d] = [step |-> "MARK", sent |-> drainers[d].sent]
    BY <1>8, SentState DEF MarkUploading
  <2>2. drainers' = [drainers EXCEPT ![d] = [drainers[d] EXCEPT !.step = "WAIT"]]
    BY <1>8 DEF MarkUploading, Become
  <2>3. [drainers[d] EXCEPT !.step = "WAIT"].step = "WAIT"
    BY <2>1
  <2> QED
    BY <1>0, <1>2, <2>2, <2>3
<1>9. ASSUME NEW d \in Drainers,
             ReadAnswer(d) \/ ReadFailure(d) \/ TimeOut(d)
      PROVE  Keeps
  BY <1>0, <1>2, <1>9 DEF ReadAnswer, ReadFailure, TimeOut, Fail, Become
<1>10. ASSUME NEW d \in Drainers, NEW h \in Hashes, Persist(d, h)
       PROVE  Keeps
  <2> DEFINE rest == DOMAIN drainers[d].outcomes \ {h}
             left == [x \in rest |-> drainers[d].outcomes[x]]
             then == drainers[d].then
  <2>1. [drainers[d] EXCEPT !.outcomes = left] = [step |-> "SETTLE", outcomes |-> left, then |-> then]
    BY <1>10, PersistRest
  <2>2. \/ Become(d, [drainers[d] EXCEPT !.outcomes = left])
        \/ Become(d, Claiming) \/ Become(d, Idle)
    BY <1>10, Zenon DEF Persist, SettledRow, EndRun
  <2> HIDE DEF left, rest, then
  <2>3. CASE Become(d, [drainers[d] EXCEPT !.outcomes = left])
    BY <1>0, <1>2, <2>1, <2>3 DEF Become
  <2> QED
    BY <1>3, <2>2, <2>3
<1>11. CASE Kill
  BY <1>11 DEF Kill, WorkerHears, Idle
<1>12. ASSUME NEW d \in Drainers, ClaimNothing(d) \/ EndScan(d)
       PROVE  Become(d, Idle) \/ Become(d, Claiming)
  BY <1>12 DEF ClaimNothing, EndRun, EndScan
<1>13. ASSUME NEW d \in Drainers, Break(d) \/ \E refusal \in Refusals : TurnAway(d, refusal)
       PROVE  UNCHANGED drainers
  BY <1>13 DEF Break, TurnAway
<1>14. ASSUME \/ \E h \in Hashes : Purge(h) \/ Wake(h) \/ GrowOld(h)
              \/ \E m \in Texts : LeaveWindow(m)
              \/ \E m \in Texts, heard, scheduled \in BOOLEAN : Receive(m, heard, scheduled)
              \/ Stabilise \/ UNCHANGED syncVars
       PROVE  UNCHANGED drainers
  BY <1>14 DEF Purge, Wake, GrowOld, LeaveWindow, Receive, Stabilise, syncVars
<1>15. ASSUME NEW d \in Drainers, DrainStep(d)
       PROVE  Keeps
  BY <1>3, <1>6, <1>7, <1>8, <1>9, <1>10, <1>12, <1>15 DEF DrainStep
<1>16. ASSUME NEW d \in Drainers, FaultStep(d)
       PROVE  Keeps
  BY <1>1, <1>9, <1>13, <1>16 DEF FaultStep
<1> QED
  BY <1>1, <1>4, <1>5, <1>11, <1>14, <1>15, <1>16, OtherTables DEF SyncNext, TimePasses

LEMMA RequestsHear ==
    ASSUME SyncTypeOK, OneClockInv, [SyncNext]_syncVars
    PROVE  \A x \in Drainers : RequestHears(uploads'[x])
<1> DEFINE Keeps == \A x \in Drainers : RequestHears(uploads'[x])
<1>0. /\ uploads \in [Drainers -> Upload]
      /\ \A x \in Drainers : RequestHears(uploads[x])
  BY DEF SyncTypeOK, OneClockInv
<1>1. CASE UNCHANGED uploads
  BY <1>0, <1>1
<1>2. ASSUME NEW d \in Drainers, \A x \in Drainers \ {d} : uploads'[x] = uploads[x],
             RequestHears(uploads'[d])
      PROVE  Keeps
  BY <1>0, <1>2
<1>3. ASSUME NEW d \in Drainers,
             \/ Answer(d, NoUpload) \/ \E kind : Answer(d, Broken(kind))
             \/ \E results : Answer(d, [step |-> "ANSWERED", results |-> results])
      PROVE  Keeps
  <2>1. uploads'[d].step \in {"NONE", "FAILED", "ANSWERED"}
    BY <1>0, <1>3 DEF Answer, NoUpload, Broken
  <2>2. RequestHears(uploads'[d])
    BY <2>1 DEF RequestHears
  <2> QED
    BY <1>0, <1>3, <2>2 DEF Answer
<1>4. ASSUME NEW d \in Drainers, MarkUploading(d)
      PROVE  Keeps
  <2>1. uploads' = [uploads EXCEPT ![d] =
           [step |-> "NEXT", todo |-> DOMAIN drainers[d].sent, results |-> << >>]]
    BY <1>4 DEF MarkUploading, Answer
  <2>2. \A h \in DOMAIN drainers[d].sent : Heard(h)
    BY <1>4 DEF MarkUploading, OneClockInv, WorkerHears
  <2>3. RequestHears(uploads'[d])
    BY <1>0, <2>1, <2>2 DEF RequestHears
  <2> QED
    BY <1>0, <2>1, <2>3
<1>5. ASSUME NEW d \in Drainers, NEW h \in Hashes, FindDuplicate(d, h)
      PROVE  Keeps
  <2> DEFINE rest == uploads[d].todo \ {h}
             request == [uploads[d] EXCEPT !.todo = rest]
             found == Resulted(request, h, "DUPLICATE")
             inserting == [step |-> "INSERT", todo |-> rest, hash |-> h,
                           results |-> uploads[d].results]
  <2>1. /\ uploads[d].step = "NEXT" /\ h \in uploads[d].todo
        /\ uploads[d] = [step |-> "NEXT", todo |-> uploads[d].todo,
                         results |-> uploads[d].results]
    BY <1>5, NextState DEF FindDuplicate
  <2>2. Heard(h) /\ \A x \in rest : Heard(x)
    BY <1>0, <2>1 DEF RequestHears
  <2>3. Answer(d, IF Stored(TextOf(h)) THEN found
                  ELSE [step |-> "INSERT", todo |-> request.todo, hash |-> h,
                        results |-> request.results])
    BY <1>5 DEF FindDuplicate
  <2> HIDE DEF rest
  <2>4. request.todo = rest /\ request.results = uploads[d].results
    BY <2>1, OtherRequest
  <2>5. Answer(d, found) \/ Answer(d, inserting)
    BY <2>3, <2>4
  <2>6. RequestHears(found) /\ RequestHears(inserting)
    BY <2>2, <2>4 DEF RequestHears, Resulted
  <2> HIDE DEF found, inserting
  <2> QED
    BY <1>0, <1>2, <2>5, <2>6 DEF Answer
<1>6. ASSUME NEW d \in Drainers, InsertLog(d) \/ Extract(d)
      PROVE  Keeps
  <2>1. /\ uploads[d].step \in {"INSERT", "EXTRACT"}
        /\ uploads[d] = [step |-> uploads[d].step, todo |-> uploads[d].todo,
                         hash |-> uploads[d].hash, results |-> uploads[d].results]
    BY <1>6, OneState DEF InsertLog, Extract
  <2>2. Heard(uploads[d].hash) /\ \A x \in uploads[d].todo : Heard(x)
    BY <1>0, <2>1 DEF RequestHears
  <2>3. ASSUME NEW status
        PROVE  RequestHears(Resulted(uploads[d], uploads[d].hash, status))
    BY <2>2 DEF RequestHears, Resulted
  <2>4. RequestHears([uploads[d] EXCEPT !.step = "EXTRACT"])
    BY <2>1, <2>2 DEF RequestHears
  <2>5. \/ \E status : Answer(d, Resulted(uploads[d], uploads[d].hash, status))
        \/ Answer(d, [uploads[d] EXCEPT !.step = "EXTRACT"])
    BY <1>6 DEF InsertLog, Extract
  <2> QED
    BY <1>0, <1>2, <2>3, <2>4, <2>5 DEF Answer
<1>7. ASSUME NEW d \in Drainers, EndUpload(d)
      PROVE  Keeps
  BY <1>3, <1>7 DEF EndUpload, Deliver
<1>8. ASSUME NEW d \in Drainers, FaultStep(d)
      PROVE  Keeps
  BY <1>1, <1>3, <1>8 DEF FaultStep, TimeOut, TurnAway, Break, Deliver
<1>9. CASE Kill
  <2>1. \A x \in Drainers : uploads'[x] \in {uploads[x], NoUpload}
    BY <1>9 DEF Kill
  <2> QED
    BY <1>0, <2>1 DEF RequestHears, NoUpload
<1>10. ASSUME NEW d \in Drainers, ReadAnswer(d) \/ ReadFailure(d)
       PROVE  Keeps
  BY <1>3, <1>10 DEF ReadAnswer, ReadFailure
<1>11. ASSUME NEW d \in Drainers,
              \/ \E batch \in SUBSET Hashes : ClaimBatch(d, batch)
              \/ \E h \in Hashes : ScanMessage(d, h) \/ Persist(d, h)
              \/ ClaimNothing(d) \/ EndScan(d) \/ StartSync(d)
       PROVE  UNCHANGED uploads
  BY <1>11 DEF ClaimBatch, ScanMessage, Persist, SettledRow, ClaimNothing, EndScan, StartSync
<1>12. ASSUME \/ \E h \in Hashes : Purge(h) \/ Wake(h) \/ GrowOld(h)
              \/ \E m \in Texts : LeaveWindow(m)
              \/ \E m \in Texts, heard, scheduled \in BOOLEAN : Receive(m, heard, scheduled)
              \/ StartUpload \/ Stabilise \/ UNCHANGED syncVars
       PROVE  UNCHANGED uploads
  BY <1>12 DEF Purge, Wake, GrowOld, LeaveWindow, Receive, StartUpload, Stabilise, syncVars
<1>13. ASSUME NEW d \in Drainers, DrainStep(d)
       PROVE  Keeps
  BY <1>1, <1>4, <1>10, <1>11, <1>13 DEF DrainStep
<1>14. ASSUME NEW d \in Drainers, ServerStep(d)
       PROVE  Keeps
  BY <1>5, <1>6, <1>7, <1>14 DEF ServerStep
<1> QED
  BY <1>1, <1>8, <1>9, <1>11, <1>12, <1>13, <1>14 DEF SyncNext, TimePasses

LEMMA OneClockStep ==
    ASSUME SyncTypeOK, SameClock, OneClockInv, [SyncNext]_syncVars
    PROVE  OneClockInv'
<1>1. \A h \in Hashes : Logged(h)' => Heard(h)
  <2>0. \A h \in Hashes : Logged(h) => Heard(h)
    BY DEF OneClockInv
  <2>1. CASE UNCHANGED smsLogs
    BY <2>0, <2>1 DEF Logged
  <2>2. CASE UNCHANGED smsLogs \/ \E d \in Drainers : InsertLog(d) \/ Extract(d)
    <3>1. ASSUME NEW d \in Drainers, InsertLog(d) \/ Extract(d)
          PROVE  /\ Heard(uploads[d].hash)
                 /\ \A h \in Hashes : h # uploads[d].hash => smsLogs'[h] = smsLogs[h]
      BY <3>1 DEF InsertLog, Extract, OneClockInv, RequestHears, SyncTypeOK
    <3> QED
      BY <2>0, <2>1, <2>2, <3>1 DEF Logged
  <2>3. UNCHANGED smsLogs \/ \E d \in Drainers : InsertLog(d) \/ Extract(d)
    BY OtherTables DEF SyncNext, TimePasses, ServerStep, FindDuplicate, EndUpload,
       Receive, StartUpload, StartSync, Purge, Wake, GrowOld, LeaveWindow, Kill, Stabilise, syncVars
  <2> QED
    BY <2>2, <2>3
<1>2. \A d \in Drainers : WorkerHears(drainers[d])'
  BY WorkersHear DEF WorkerHears, Heard
<1>3. \A d \in Drainers : RequestHears(uploads[d])'
  BY RequestsHear DEF RequestHears, Heard
<1>4. \A h \in Hashes : Heard(h)' <=> Heard(h)
  BY DEF Heard
<1> QED
  BY <1>1, <1>2, <1>3, <1>4, RowsHeard DEF OneClockInv

(* "The same SMS is never counted twice", where the phone's inbox and the  *)
(* broadcast agree on the time of a message: whatever drainers overlap,    *)
(* requests are repeated and answers are lost, one row of it is stored.    *)
THEOREM OneClockCountsOnce ==
    ASSUME SameClock
    PROVE  SyncSpec => []CountedOnce
<1>1. SyncInit => OneClockInv
  BY DEF SyncInit, OneClockInv, NoRow, Idle, NoUpload, WorkerHears, RequestHears, Logged
<1>2. SyncTypeOK /\ OneClockInv /\ [SyncNext]_syncVars => OneClockInv'
  BY OneClockStep
<1>3. OneClockInv => CountedOnce
  <2> SUFFICES ASSUME OneClockInv, NEW m \in Texts
               PROVE  Cardinality({h \in Hashes : TextOf(h) = m /\ Logged(h)}) <= 1
    BY DEF CountedOnce
  <2> DEFINE S == {h \in Hashes : TextOf(h) = m /\ Logged(h)}
  <2>1. \A h \in S : h = <<m, "PDU">>
    BY HashIsOfText DEF OneClockInv, Heard
  <2>2. S \subseteq {<<m, "PDU">>}
    BY <2>1
  <2>3. S = {} \/ S = {<<m, "PDU">>}
    BY <2>2
  <2>4. Cardinality({}) = 0 /\ Cardinality({<<m, "PDU">>}) = 1
    BY FS_EmptySet, FS_Singleton
  <2> HIDE DEF S
  <2>5. Cardinality(S) <= 1
    BY <2>3, <2>4
  <2> QED
    BY <2>5 DEF S
<1> QED
  BY <1>1, <1>2, <1>3, SyncTyping, PTL DEF SyncSpec
=============================================================================
