------------------------------ MODULE Http_proofs ------------------------------
(***************************************************************************)
(* Proofs about what stands in front of the handlers: the idempotency      *)
(* record, for any number of requests that carry one key; the rate limit;  *)
(* the lists answered in pages.                                            *)
(***************************************************************************)
EXTENDS Idempotency, RateLimit, Paging, SequenceTheorems, FiniteSetTheorems,
        TLAPS

-----------------------------------------------------------------------------
LEMMA PostFields ==
    ASSUME IdempotencyTypeOK, NEW p \in Posts, ~PostAt(p, "FREE")
    PROVE  /\ posts[p].body \in Bodies
           /\ posts[p].step \in {"CREATE", "FIND", "EXECUTE", "STORE", "DELETE"}
BY DEF IdempotencyTypeOK, PostState, PostAt

LEMMA GoTyped ==
    ASSUME IdempotencyTypeOK, NEW p \in Posts
    PROVE  /\ \A step \in {"CREATE", "FIND", "EXECUTE", "STORE", "DELETE"} :
                 ~PostAt(p, "FREE") /\ GoTo(p, step) => posts' \in [Posts -> PostState]
           /\ Done(p) => posts' \in [Posts -> PostState]
<1>1. NoPost \in PostState
  BY DEF NoPost, PostState
<1>2. ASSUME NEW step \in {"CREATE", "FIND", "EXECUTE", "STORE", "DELETE"}, ~PostAt(p, "FREE"),
             GoTo(p, step)
      PROVE  posts' \in [Posts -> PostState]
  <2>1. [step |-> step, body |-> posts[p].body] \in PostState
    BY <1>2, PostFields DEF PostState
  <2> QED
    BY <1>2, <2>1 DEF GoTo, IdempotencyTypeOK
<1> QED
  BY <1>1, <1>2 DEF Done, IdempotencyTypeOK

LEMMA RowIsKept ==
    ASSUME IdempotencyTypeOK, record.state # "ABSENT"
    PROVE  /\ record.hash \in Bodies /\ record.expired \in BOOLEAN
           /\ record.state \in {"IN_FLIGHT", "COMPLETED"}
           /\ record.state = "IN_FLIGHT" =>
                 record = [state |-> "IN_FLIGHT", hash |-> record.hash, expired |-> record.expired]
           /\ record.state = "COMPLETED" =>
                 /\ record.response \in Bodies
                 /\ record = [state |-> "COMPLETED", hash |-> record.hash,
                              expired |-> record.expired, response |-> record.response]
BY DEF IdempotencyTypeOK, RecordRow

LEMMA RecordTyped ==
    ASSUME NEW hash \in Bodies, NEW expired \in BOOLEAN, NEW response \in Bodies
    PROVE  /\ NoRecord \in RecordRow
           /\ [state |-> "IN_FLIGHT", hash |-> hash, expired |-> expired] \in RecordRow
           /\ [state |-> "COMPLETED", hash |-> hash, expired |-> expired,
               response |-> response] \in RecordRow
BY DEF NoRecord, RecordRow

LEMMA InFlightExpires ==
    ASSUME NEW row, NEW hash, NEW expired, NEW e,
           row = [state |-> "IN_FLIGHT", hash |-> hash, expired |-> expired]
    PROVE  [row EXCEPT !.expired = e]
             = [state |-> "IN_FLIGHT", hash |-> hash, expired |-> e]
OBVIOUS

LEMMA CompletedExpires ==
    ASSUME NEW row, NEW hash, NEW expired, NEW e, NEW response,
           row = [state |-> "COMPLETED", hash |-> hash, expired |-> expired,
                  response |-> response]
    PROVE  [row EXCEPT !.expired = e]
             = [state |-> "COMPLETED", hash |-> hash, expired |-> e, response |-> response]
OBVIOUS

LEMMA NoRecordTyped == NoRecord \in RecordRow
BY DEF NoRecord, RecordRow

LEMMA RelapsedTyped ==
    ASSUME IdempotencyTypeOK
    PROVE  /\ Relapsed \in Nat /\ relapses <= Relapsed
           /\ Relapsed = relapses + 1 \/ Relapsed >= MaxExecutions
BY IdempotencyAssumption DEF Relapsed, IdempotencyTypeOK

LEMMA IdempotencyInitTyped == IdempotencyInit => IdempotencyTypeOK
<1> SUFFICES ASSUME IdempotencyInit
             PROVE  IdempotencyTypeOK
  OBVIOUS
<1>1. NoPost \in PostState
  BY DEF NoPost, PostState
<1>2. 0 \in 0 .. MaxExecutions
  BY IdempotencyAssumption
<1> QED
  BY <1>1, <1>2, NoRecordTyped DEF IdempotencyInit, IdempotencyTypeOK

LEMMA IdempotencyStepTyped ==
    IdempotencyTypeOK /\ [IdempotencyNext]_idempotencyVars => IdempotencyTypeOK'
<1> SUFFICES ASSUME IdempotencyTypeOK, [IdempotencyNext]_idempotencyVars
             PROVE  IdempotencyTypeOK'
  OBVIOUS
<1>1. ASSUME NEW p \in Posts, NEW body \in Bodies, SendPost(p, body)
      PROVE  IdempotencyTypeOK'
  <2>1. [step |-> "CREATE", body |-> body] \in PostState
    BY DEF PostState
  <2> QED
    BY <1>1, <2>1 DEF SendPost, IdempotencyTypeOK
<1>2. ASSUME NEW p \in Posts, CreateRecord(p)
      PROVE  IdempotencyTypeOK'
  <2>1. ~PostAt(p, "FREE") /\ posts[p].body \in Bodies
    BY <1>2, PostFields DEF CreateRecord, PostAt
  <2>2. posts' \in [Posts -> PostState]
    BY <1>2, <2>1, GoTyped DEF CreateRecord
  <2>3. record' \in RecordRow
    BY <1>2, <2>1, RecordTyped DEF CreateRecord, IdempotencyTypeOK
  <2> QED
    BY <1>2, <2>2, <2>3 DEF CreateRecord, IdempotencyTypeOK
<1>3. ASSUME NEW p \in Posts, FindRecord(p)
      PROVE  IdempotencyTypeOK'
  <2>1. mismatched' \in BOOLEAN
    BY <1>3, Zenon DEF FindRecord, IdempotencyTypeOK
  <2> QED
    BY <1>3, <2>1, GoTyped DEF FindRecord, IdempotencyTypeOK
<1>4. ASSUME NEW p \in Posts, NEW succeeds \in BOOLEAN, Execute(p, succeeds)
      PROVE  IdempotencyTypeOK'
  <2>1. ~PostAt(p, "FREE")
    BY <1>4 DEF Execute, PostAt
  <2>2. posts' \in [Posts -> PostState]
    BY <1>4, <2>1, GoTyped DEF Execute
  <2>3. executions' \in 0 .. MaxExecutions
    BY <1>4, IdempotencyAssumption DEF Execute, IdempotencyTypeOK
  <2> QED
    BY <1>4, <2>2, <2>3 DEF Execute, IdempotencyTypeOK
<1>5. ASSUME NEW p \in Posts, NEW succeeds \in BOOLEAN, StoreResponse(p, succeeds)
      PROVE  IdempotencyTypeOK'
  <2>1. ~PostAt(p, "FREE") /\ posts[p].body \in Bodies
    BY <1>5, PostFields DEF StoreResponse, PostAt
  <2>2. posts' \in [Posts -> PostState]
    BY <1>5, <2>1, GoTyped DEF StoreResponse
  <2>3. record' \in RecordRow
    BY <1>5, <2>1, RowIsKept, RecordTyped DEF StoreResponse, IdempotencyTypeOK
  <2>4. relapses' \in Nat
    BY <1>5, RelapsedTyped DEF StoreResponse, IdempotencyTypeOK
  <2> QED
    BY <1>5, <2>2, <2>3, <2>4 DEF StoreResponse, IdempotencyTypeOK
<1>6. ASSUME NEW p \in Posts, NEW succeeds \in BOOLEAN, DeleteRecord(p, succeeds)
      PROVE  IdempotencyTypeOK'
  BY <1>6, GoTyped, NoRecordTyped DEF DeleteRecord, IdempotencyTypeOK
<1>7. ASSUME NEW p \in Posts, PostCrash(p)
      PROVE  IdempotencyTypeOK'
  BY <1>7, GoTyped DEF PostCrash, IdempotencyTypeOK
<1>8. CASE RecordExpires
  <2>1. ASSUME NEW e \in BOOLEAN
        PROVE  [record EXCEPT !.expired = e] \in RecordRow
    <3>1. CASE record.state = "IN_FLIGHT"
      <4>1. [record EXCEPT !.expired = e]
              = [state |-> "IN_FLIGHT", hash |-> record.hash, expired |-> e]
        BY <3>1, RowIsKept, InFlightExpires
      <4> QED
        BY <3>1, <4>1, RowIsKept DEF RecordRow
    <3>2. CASE record.state = "COMPLETED"
      <4>1. [record EXCEPT !.expired = e]
              = [state |-> "COMPLETED", hash |-> record.hash, expired |-> e,
                 response |-> record.response]
        BY <3>2, RowIsKept, CompletedExpires
      <4> QED
        BY <3>2, <4>1, RowIsKept DEF RecordRow
    <3> QED
      BY <1>8, <3>1, <3>2, RowIsKept DEF RecordExpires
  <2>2. record' \in RecordRow
    BY <1>8, <2>1 DEF RecordExpires
  <2> QED
    BY <1>8, <2>2 DEF RecordExpires, IdempotencyTypeOK
<1>9. CASE PurgeRecord
  <2>1. overrun' \in BOOLEAN
    BY <1>9, Zenon DEF PurgeRecord, IdempotencyTypeOK
  <2> QED
    BY <1>9, <2>1, NoRecordTyped, RelapsedTyped DEF PurgeRecord, IdempotencyTypeOK
<1>10. CASE UNCHANGED idempotencyVars
  BY <1>10 DEF idempotencyVars, IdempotencyTypeOK
<1> QED
  BY <1>1, <1>2, <1>3, <1>4, <1>5, <1>6, <1>7, <1>8, <1>9, <1>10 DEF IdempotencyNext

-----------------------------------------------------------------------------
(* The requests that may still succeed, or still delete the row.  Each has *)
(* taken the one row there is, so what has been executed, what may be, and *)
(* the place that is free for the next request never exceed one, and one   *)
(* more for each relapse.                                                  *)
Claims == {p \in Posts : posts[p].step \in {"EXECUTE", "DELETE"}}
Vacant == IF record.state = "ABSENT" THEN 1 ELSE 0

Accounted ==
    \/ relapses >= MaxExecutions
    \/ executions + Cardinality(Claims) + Vacant <= 1 + relapses

LEMMA ClaimsCounted == IsFiniteSet(Claims) /\ Cardinality(Claims) \in Nat
<1>1. IsFiniteSet(Claims)
  BY IdempotencyAssumption, FS_Subset DEF Claims
<1> QED
  BY <1>1, FS_CardinalityType

LEMMA ClaimTaken ==
    ASSUME NEW p \in Posts, p \notin Claims, Claims' = Claims \cup {p}
    PROVE  Cardinality(Claims') = Cardinality(Claims) + 1
BY ClaimsCounted, FS_AddElement

LEMMA ClaimGone ==
    ASSUME NEW p \in Posts, p \in Claims, Claims' = Claims \ {p}
    PROVE  Cardinality(Claims') = Cardinality(Claims) - 1
BY ClaimsCounted, FS_RemoveElement

LEMMA StepsOf ==
    ASSUME IdempotencyTypeOK, NEW p \in Posts
    PROVE  /\ \A step : GoTo(p, step) =>
                 Claims' = IF step \in {"EXECUTE", "DELETE"} THEN Claims \cup {p} ELSE Claims \ {p}
           /\ Done(p) => Claims' = Claims \ {p}
           /\ \A body : posts' = [posts EXCEPT ![p] = [step |-> "CREATE", body |-> body]] =>
                 Claims' = Claims \ {p}
           /\ PostAt(p, "EXECUTE") \/ PostAt(p, "DELETE") <=> p \in Claims
BY DEF Claims, GoTo, Done, NoPost, PostAt, IdempotencyTypeOK

LEMMA AccountedStep ==
    ASSUME IdempotencyTypeOK, Accounted, [IdempotencyNext]_idempotencyVars
    PROVE  Accounted'
<1> DEFINE n == Cardinality(Claims)
<1>0. /\ n \in Nat /\ executions \in Nat /\ relapses \in Nat /\ MaxExecutions \in Nat
      /\ Vacant \in {0, 1} /\ Vacant' \in {0, 1}
  BY ClaimsCounted, IdempotencyAssumption DEF IdempotencyTypeOK, Vacant
<1>1. ASSUME NEW p \in Posts, p \notin Claims, Claims' = Claims \ {p},
             UNCHANGED <<record, executions, relapses>>
      PROVE  Accounted'
  <2>1. Claims' = Claims
    BY <1>1
  <2> QED
    BY <1>1, <2>1 DEF Accounted, Vacant
<1>2. ASSUME NEW p \in Posts, Claims' = Claims \ {p}, n' \in Nat,
             UNCHANGED <<record, executions, relapses>>
      PROVE  Accounted'
  <2>1. n' <= n
    <3>1. CASE p \in Claims
      BY <1>0, <1>2, <3>1, ClaimGone
    <3>2. CASE p \notin Claims
      <4>1. Claims' = Claims
        BY <1>2, <3>2
      <4> QED
        BY <1>0, <4>1
    <3> QED
      BY <3>1, <3>2
  <2>2. UNCHANGED Vacant
    BY <1>2 DEF Vacant
  <2> HIDE DEF n
  <2> QED
    BY <1>0, <1>2, <2>1, <2>2 DEF Accounted, n
<1>3. n' \in Nat
  <2>1. IsFiniteSet(Claims')
    BY IdempotencyAssumption, FS_Subset DEF Claims
  <2> QED
    BY <2>1, FS_CardinalityType
<1>4. ASSUME NEW p \in Posts, NEW body \in Bodies, SendPost(p, body)
      PROVE  Accounted'
  BY <1>2, <1>3, <1>4, StepsOf DEF SendPost
<1>5. ASSUME NEW p \in Posts, FindRecord(p) \/ PostCrash(p)
      PROVE  Accounted'
  BY <1>2, <1>3, <1>5, StepsOf DEF FindRecord, PostCrash
<1>6. ASSUME NEW p \in Posts, CreateRecord(p)
      PROVE  Accounted'
  <2>1. p \notin Claims
    BY <1>6 DEF CreateRecord, PostAt, Claims
  <2>2. CASE record.state = "ABSENT"
    <3>1. Claims' = Claims \cup {p}
      BY <1>6, <2>2, StepsOf DEF CreateRecord
    <3>2. n' = n + 1
      BY <2>1, <3>1, ClaimTaken
    <3>3. Vacant = 1 /\ Vacant' = 0
      BY <1>6, <2>2 DEF CreateRecord, Vacant
    <3>4. UNCHANGED <<executions, relapses>>
      BY <1>6 DEF CreateRecord
    <3> HIDE DEF n
    <3> QED
      BY <1>0, <3>2, <3>3, <3>4 DEF Accounted, n
  <2>3. CASE record.state # "ABSENT"
    BY <1>1, <1>6, <2>1, <2>3, StepsOf DEF CreateRecord
  <2> QED
    BY <2>2, <2>3
<1>7. ASSUME NEW p \in Posts, NEW succeeds \in BOOLEAN, Execute(p, succeeds)
      PROVE  Accounted'
  <2>1. p \in Claims
    BY <1>7, StepsOf DEF Execute
  <2>2. UNCHANGED <<record, relapses>> /\ UNCHANGED Vacant
    BY <1>7 DEF Execute, Vacant
  <2>3. CASE succeeds
    <3>1. Claims' = Claims \ {p} /\ executions' = executions + 1
      BY <1>7, <2>3, StepsOf DEF Execute
    <3>2. n' = n - 1
      BY <2>1, <3>1, ClaimGone
    <3> HIDE DEF n
    <3> QED
      BY <1>0, <2>2, <3>1, <3>2 DEF Accounted, n
  <2>4. CASE ~succeeds
    <3>1. Claims' = Claims \cup {p} /\ executions' = executions
      BY <1>7, <2>4, StepsOf DEF Execute
    <3>2. Claims' = Claims
      BY <2>1, <3>1
    <3> QED
      BY <2>2, <3>1, <3>2 DEF Accounted
  <2> QED
    BY <2>3, <2>4
<1>8. ASSUME NEW p \in Posts, NEW succeeds \in BOOLEAN, StoreResponse(p, succeeds)
      PROVE  Accounted'
  <2>1. p \notin Claims
    BY <1>8 DEF StoreResponse, PostAt, Claims
  <2>2. UNCHANGED executions
    BY <1>8 DEF StoreResponse
  <2>3. CASE succeeds /\ record.state # "ABSENT"
    <3>1. Claims' = Claims /\ UNCHANGED relapses /\ Vacant' = 0
      BY <1>8, <2>1, <2>3, StepsOf DEF StoreResponse, Vacant
    <3> QED
      BY <1>0, <2>2, <3>1 DEF Accounted
  <2>4. CASE ~(succeeds /\ record.state # "ABSENT")
    <3>1. Claims' = Claims \cup {p} /\ relapses' = Relapsed /\ UNCHANGED Vacant
      BY <1>8, <2>4, StepsOf DEF StoreResponse, Vacant
    <3>2. n' = n + 1
      BY <2>1, <3>1, ClaimTaken
    <3>3. relapses' >= MaxExecutions \/ relapses' = relapses + 1
      BY <3>1, RelapsedTyped
    <3>4. relapses >= MaxExecutions => relapses' >= MaxExecutions
      BY <1>0, <3>1, RelapsedTyped
    <3> HIDE DEF n
    <3> QED
      BY <1>0, <2>2, <3>1, <3>2, <3>3, <3>4 DEF Accounted, n
  <2> QED
    BY <2>3, <2>4
<1>9. ASSUME NEW p \in Posts, NEW succeeds \in BOOLEAN, DeleteRecord(p, succeeds)
      PROVE  Accounted'
  <2>1. p \in Claims /\ Claims' = Claims \ {p} /\ UNCHANGED <<executions, relapses>>
    BY <1>9, StepsOf DEF DeleteRecord
  <2>2. n' = n - 1
    BY <2>1, ClaimGone
  <2> HIDE DEF n
  <2> QED
    BY <1>0, <2>1, <2>2 DEF Accounted, n
<1>10. CASE RecordExpires
  <2>1. UNCHANGED Claims
    BY <1>10 DEF RecordExpires, Claims
  <2>2. UNCHANGED Vacant
    <3>1. record'.state = record.state
      BY <1>10, RowIsKept DEF RecordExpires
    <3> QED
      BY <3>1 DEF Vacant
  <2> QED
    BY <1>10, <2>1, <2>2 DEF RecordExpires, Accounted
<1>11. CASE PurgeRecord
  <2>1. UNCHANGED Claims /\ UNCHANGED executions /\ relapses' = Relapsed /\ Vacant = 0
    BY <1>11 DEF PurgeRecord, Claims, Vacant
  <2>2. relapses' >= MaxExecutions \/ relapses' = relapses + 1
    BY <2>1, RelapsedTyped
  <2>3. relapses >= MaxExecutions => relapses' >= MaxExecutions
    BY <1>0, <2>1, RelapsedTyped
  <2>4. n' = n
    BY <2>1
  <2> HIDE DEF n
  <2> QED
    BY <1>0, <2>1, <2>2, <2>3, <2>4 DEF Accounted, n
<1>12. CASE UNCHANGED idempotencyVars
  BY <1>12 DEF idempotencyVars, Accounted, Claims, Vacant
<1> QED
  BY <1>4, <1>5, <1>6, <1>7, <1>8, <1>9, <1>10, <1>11, <1>12 DEF IdempotencyNext

(* ExecutedOnce: the handler succeeds once, and once more for each relapse.*)
THEOREM HandlerRunsOnce == IdempotencySpec => []ExecutedOnce
<1>1. IdempotencyInit => Accounted
  <2> SUFFICES ASSUME IdempotencyInit
               PROVE  Accounted
    OBVIOUS
  <2>1. Claims = {} /\ Vacant = 1
    BY DEF IdempotencyInit, Claims, NoPost, Vacant, NoRecord
  <2>2. Cardinality(Claims) = 0
    BY <2>1, FS_EmptySet
  <2> QED
    BY <2>1, <2>2 DEF IdempotencyInit, Accounted
<1>2. IdempotencyTypeOK /\ Accounted => ExecutedOnce
  <2> SUFFICES ASSUME IdempotencyTypeOK, Accounted
               PROVE  executions <= 1 + relapses
    BY DEF ExecutedOnce
  <2>1. executions \in 0 .. MaxExecutions /\ relapses \in Nat /\ MaxExecutions \in Nat
    BY IdempotencyAssumption DEF IdempotencyTypeOK
  <2>2. Cardinality(Claims) \in Nat /\ Vacant \in {0, 1}
    BY ClaimsCounted DEF Vacant
  <2> QED
    BY <2>1, <2>2 DEF Accounted
<1> QED
  BY <1>1, <1>2, IdempotencyInitTyped, IdempotencyStepTyped, AccountedStep, PTL
     DEF IdempotencySpec

-----------------------------------------------------------------------------
(* Until a row is purged under a running request, only one runs, the row   *)
(* is its own, and a stored response is the one to the stored body.        *)
Runner(p) == posts[p].step \in {"EXECUTE", "STORE", "DELETE"}

OwnRow ==
    \/ overrun
    \/ /\ ~mismatched
       /\ record.state = "COMPLETED" => record.response = record.hash
       /\ \A p \in Posts : Runner(p) =>
             /\ record.state = "IN_FLIGHT" /\ record.hash = posts[p].body
             /\ \A q \in Posts : Runner(q) => q = p

LEMMA OwnRowStep ==
    ASSUME IdempotencyTypeOK, OwnRow, [IdempotencyNext]_idempotencyVars
    PROVE  OwnRow'
<1> SUFFICES ASSUME ~overrun, ~overrun'
             PROVE  OwnRow'
  <2>1. overrun => overrun'
    <3>1. CASE PurgeRecord
      BY <3>1, Zenon DEF PurgeRecord
    <3>2. ASSUME NEW p \in Posts,
                 \/ CreateRecord(p) \/ FindRecord(p) \/ PostCrash(p)
                 \/ \E body \in Bodies : SendPost(p, body)
                 \/ \E succeeds \in BOOLEAN :
                       Execute(p, succeeds) \/ StoreResponse(p, succeeds)
                                            \/ DeleteRecord(p, succeeds)
          PROVE  UNCHANGED overrun
      BY <3>2 DEF CreateRecord, FindRecord, PostCrash, SendPost, Execute, StoreResponse,
         DeleteRecord
    <3>3. CASE RecordExpires \/ UNCHANGED idempotencyVars
      BY <3>3 DEF RecordExpires, idempotencyVars
    <3> QED
      BY <3>1, <3>2, <3>3 DEF IdempotencyNext
  <2> QED
    BY <2>1 DEF OwnRow
<1>0. /\ ~mismatched
      /\ record.state = "COMPLETED" => record.response = record.hash
      /\ \A p \in Posts : Runner(p) =>
            /\ record.state = "IN_FLIGHT" /\ record.hash = posts[p].body
            /\ \A q \in Posts : Runner(q) => q = p
  BY DEF OwnRow
<1>1. ASSUME UNCHANGED <<record, mismatched>>, NEW p \in Posts,
             \A q \in Posts \ {p} : posts'[q] = posts[q],
             Runner(p)' => Runner(p) /\ posts'[p].body = posts[p].body
      PROVE  OwnRow'
  BY <1>0, <1>1 DEF OwnRow, Runner
<1>2. ASSUME NEW p \in Posts, \E body \in Bodies : SendPost(p, body)
      PROVE  OwnRow'
  BY <1>1, <1>2 DEF SendPost, Runner, IdempotencyTypeOK
<1>3. ASSUME NEW p \in Posts, CreateRecord(p)
      PROVE  OwnRow'
  <2>1. CASE record.state = "ABSENT"
    <3>1. \A q \in Posts : ~Runner(q)
      BY <1>0, <2>1
    <3>2. /\ record' = [state |-> "IN_FLIGHT", hash |-> posts[p].body, expired |-> FALSE]
          /\ posts' = [posts EXCEPT ![p] = [step |-> "EXECUTE", body |-> posts[p].body]]
          /\ mismatched' = mismatched
      BY <1>3, <2>1 DEF CreateRecord, GoTo
    <3>3. /\ \A q \in Posts : Runner(q)' => q = p
          /\ posts'[p].body = posts[p].body
      BY <3>1, <3>2 DEF Runner, IdempotencyTypeOK
    <3> QED
      BY <1>0, <3>2, <3>3 DEF OwnRow
  <2>2. CASE record.state # "ABSENT"
    BY <1>1, <1>3, <2>2 DEF CreateRecord, GoTo, Runner, IdempotencyTypeOK
  <2> QED
    BY <2>1, <2>2
<1>4. ASSUME NEW p \in Posts, FindRecord(p)
      PROVE  OwnRow'
  <2>1. ~mismatched'
    BY <1>0, <1>4, Zenon DEF FindRecord
  <2> QED
    BY <1>0, <1>1, <1>4, <2>1 DEF FindRecord, Done, NoPost, Runner, IdempotencyTypeOK
<1>5. ASSUME NEW p \in Posts, NEW succeeds \in BOOLEAN, Execute(p, succeeds)
      PROVE  OwnRow'
  BY <1>1, <1>5 DEF Execute, GoTo, PostAt, Runner, IdempotencyTypeOK
<1>6. ASSUME NEW p \in Posts, NEW succeeds \in BOOLEAN, StoreResponse(p, succeeds)
      PROVE  OwnRow'
  <2>1. Runner(p) /\ posts[p].step = "STORE"
    BY <1>6 DEF StoreResponse, PostAt, Runner
  <2>2. CASE succeeds /\ record.state # "ABSENT"
    <3>1. /\ record' = [state |-> "COMPLETED", hash |-> record.hash,
                        expired |-> record.expired, response |-> posts[p].body]
          /\ posts' = [posts EXCEPT ![p] = NoPost] /\ mismatched' = mismatched
      BY <1>6, <2>2 DEF StoreResponse, Done
    <3>2. \A q \in Posts : ~Runner(q)'
      BY <1>0, <2>1, <3>1 DEF Runner, NoPost, IdempotencyTypeOK
    <3> QED
      BY <1>0, <2>1, <3>1, <3>2 DEF OwnRow
  <2>3. CASE ~(succeeds /\ record.state # "ABSENT")
    BY <1>1, <1>6, <2>1, <2>3 DEF StoreResponse, GoTo, Runner, IdempotencyTypeOK
  <2> QED
    BY <2>2, <2>3
<1>7. ASSUME NEW p \in Posts, NEW succeeds \in BOOLEAN, DeleteRecord(p, succeeds)
      PROVE  OwnRow'
  <2>1. Runner(p)
    BY <1>7 DEF DeleteRecord, PostAt, Runner
  <2>2. \A q \in Posts : ~Runner(q)'
    BY <1>0, <1>7, <2>1 DEF DeleteRecord, Done, Runner, NoPost, IdempotencyTypeOK
  <2>3. record' \in {record, NoRecord} /\ mismatched' = mismatched
    BY <1>7 DEF DeleteRecord
  <2> QED
    BY <1>0, <2>2, <2>3 DEF OwnRow, NoRecord
<1>8. ASSUME NEW p \in Posts, PostCrash(p)
      PROVE  OwnRow'
  BY <1>1, <1>8 DEF PostCrash, Done, NoPost, Runner, IdempotencyTypeOK
<1>9. CASE RecordExpires
  <2>1. /\ record'.state = record.state /\ record'.hash = record.hash
        /\ record.state = "COMPLETED" => record'.response = record.response
    BY <1>9, RowIsKept DEF RecordExpires
  <2> QED
    BY <1>0, <1>9, <2>1 DEF RecordExpires, OwnRow, Runner
<1>10. CASE PurgeRecord
  <2>1. \A q \in Posts : ~Runner(q)
    BY <1>10, Zenon DEF PurgeRecord, Running, Runner
  <2> QED
    BY <1>0, <1>10, <2>1 DEF PurgeRecord, OwnRow, Runner, NoRecord
<1>11. CASE UNCHANGED idempotencyVars
  BY <1>0, <1>11 DEF idempotencyVars, OwnRow, Runner
<1> QED
  BY <1>2, <1>3, <1>4, <1>5, <1>6, <1>7, <1>8, <1>9, <1>10, <1>11 DEF IdempotencyNext

(* ReplayMatchesBody: a replayed response answers the body of the request. *)
THEOREM ReplaysMatch == IdempotencySpec => []ReplayMatchesBody
<1>1. IdempotencyInit => OwnRow
  BY DEF IdempotencyInit, OwnRow, Runner, NoPost, NoRecord
<1>2. OwnRow => ReplayMatchesBody
  BY DEF OwnRow, ReplayMatchesBody
<1> QED
  BY <1>1, <1>2, IdempotencyInitTyped, IdempotencyStepTyped, OwnRowStep, PTL DEF IdempotencySpec

-----------------------------------------------------------------------------
(* The rate limit: what was admitted lately by its count is still in the   *)
(* sorted set, each request under an entry of its own.                     *)
NamedInTurn == \A e \in hits : e.nth < Cardinality(Scored(hits, e.score))

Counted ==
    \A a \in Lately :
        a.entry \in hits /\ a.entry.score >= a.at /\ expiry >= a.at + Window

OwnEntries == \A a, b \in Lately : a.entry = b.entry => a = b

LimitInv ==
    /\ LimitTypeOK
    /\ IsFiniteSet(hits)
    /\ NamedInTurn
    /\ \A a \in admitted : a.at <= clock
    /\ Counted
    /\ OwnEntries
    /\ Cardinality(Lately) <= Points

LEMMA LargestSkew == MaxSkew \in Nat /\ \A x \in Skews : x \in Nat /\ x <= MaxSkew
BY RateLimitAssumption, Zenon DEF MaxSkew

(* The trimmed set is named in turn as well, and its next name is new.     *)
LEMMA NextNameIsNew ==
  ASSUME LimitInv, NEW now \in Nat, NEW names, names = Kept(now)
  PROVE  /\ IsFiniteSet(names)
         /\ \A e \in names : Scored(names, e.score) = Scored(hits, e.score)
         /\ \A e \in names : e.nth < Cardinality(Scored(names, e.score))
         /\ Cardinality(Scored(names, now)) \in Nat
         /\ Hit(now) \notin names
<1>1. names \subseteq hits
  BY DEF Kept
<1>2. IsFiniteSet(names)
  BY <1>1, FS_Subset DEF LimitInv
<1>3. ASSUME NEW e \in names
      PROVE  Scored(names, e.score) = Scored(hits, e.score)
  BY DEF Scored, Kept
<1>4. ASSUME NEW e \in names
      PROVE  e.nth < Cardinality(Scored(names, e.score))
  BY <1>1, <1>3 DEF LimitInv, NamedInTurn
<1>5. Cardinality(Scored(names, now)) \in Nat
  <2>1. Scored(names, now) \subseteq names
    BY DEF Scored
  <2> QED
    BY <1>2, <2>1, FS_Subset, FS_CardinalityType
<1>6. Hit(now) \notin names
  <2>1. Hit(now).score = now /\ Hit(now).nth = Cardinality(Scored(names, now))
    BY DEF Hit
  <2>2. SUFFICES ASSUME Hit(now) \in names PROVE FALSE
    OBVIOUS
  <2>3. Hit(now).nth < Cardinality(Scored(names, now))
    BY <1>4, <2>1, <2>2
  <2> QED
    BY <1>5, <2>1, <2>3
<1> QED
  BY <1>2, <1>3, <1>4, <1>5, <1>6

(* A check that Redis executes.                                            *)
LEMMA RowStep ==
  ASSUME LimitInv, NEW now \in 0 .. Horizon + MaxSkew, Record(now)
  PROVE  /\ hits' \subseteq Entries /\ IsFiniteSet(hits')
         /\ NamedInTurn'
         /\ Hit(now) \in Entries
<1> DEFINE names == Kept(now)
<1>1. now \in Nat
  BY LargestSkew, RateLimitAssumption
<1>2. /\ IsFiniteSet(names)
      /\ \A e \in names : e.nth < Cardinality(Scored(names, e.score))
      /\ Cardinality(Scored(names, now)) \in Nat
      /\ Hit(now) \notin names
  BY <1>1, NextNameIsNew
<1>3. /\ Hit(now).score = now /\ Hit(now).nth = Cardinality(Scored(names, now))
      /\ hits' = names \cup {Hit(now)} /\ Hit(now).nth < MaxCalls
  BY DEF Hit, Record, Recorded
<1>4. names \subseteq Entries /\ names \subseteq hits
  BY DEF Kept, LimitInv, LimitTypeOK
<1>5. Hit(now) \in Entries
  BY <1>2, <1>3, RateLimitAssumption DEF Entries, Hit
<1> HIDE DEF names
<1>6. IsFiniteSet(hits')
  BY <1>2, <1>3, FS_AddElement
<1>7. ASSUME NEW e \in hits'
      PROVE  e.nth < Cardinality(Scored(hits', e.score))
  <2>1. CASE e.score # now
    <3>1. e \in names
      BY <1>3, <2>1
    <3>2. Scored(hits', e.score) = Scored(names, e.score)
      BY <1>3, <2>1 DEF Scored
    <3> QED
      BY <1>2, <3>1, <3>2
  <2>2. CASE e.score = now
    <3> DEFINE S == Scored(names, now)
    <3>1. Scored(hits', now) = S \cup {Hit(now)}
      BY <1>3 DEF Scored
    <3>2. S \subseteq names
      BY DEF Scored
    <3>3. IsFiniteSet(S) /\ Hit(now) \notin S
      BY <1>2, <3>2, FS_Subset
    <3> HIDE DEF S
    <3>4. Cardinality(Scored(hits', now)) = Cardinality(S) + 1
      BY <3>1, <3>3, FS_AddElement
    <3>5. CASE e = Hit(now)
      BY <1>2, <1>3, <2>2, <3>4, <3>5 DEF S
    <3>6. CASE e \in names
      <4>1. e.nth < Cardinality(S)
        BY <1>2, <2>2, <3>6 DEF S
      <4>2. e.nth \in Nat /\ Cardinality(S) \in Nat
        BY <1>2, <1>4, <3>6, RateLimitAssumption DEF S, Entries
      <4> QED
        BY <2>2, <3>4, <4>1, <4>2
    <3> QED
      BY <1>3, <3>5, <3>6
  <2> QED
    BY <2>1, <2>2
<1> QED
  BY <1>3, <1>4, <1>5, <1>6, <1>7 DEF NamedInTurn

(* What was admitted lately is not trimmed by any process's clock.         *)
LEMMA LatelyKept ==
  ASSUME LimitInv, NEW skew \in Skews, NEW a \in Lately
  PROVE  a.entry \in Kept(clock + skew)
<1>1. /\ a \in admitted /\ a.at > clock - (Window - MaxSkew)
      /\ a.entry \in hits /\ a.entry.score >= a.at /\ expiry >= a.at + Window
  BY DEF LimitInv, Counted, Lately
<1>2. a.at \in Nat /\ a.entry.score \in Nat /\ clock \in Nat /\ expiry \in Nat
  BY <1>1, LargestSkew, RateLimitAssumption DEF LimitInv, LimitTypeOK, Entries, Instants
<1>3. skew \in Nat /\ skew <= MaxSkew /\ MaxSkew \in Nat /\ Window \in Nat
  BY LargestSkew, RateLimitAssumption
<1> QED
  BY <1>1, <1>2, <1>3 DEF Kept

(* Whoever finds what it counts among the hits cannot have admitted more   *)
(* than there are hits.                                                    *)
LEMMA NoMoreThanHits ==
  ASSUME NEW S, NEW H, IsFiniteSet(H), \A a \in S : a.entry \in H,
         \A a, b \in S : a.entry = b.entry => a = b
  PROVE  Cardinality(S) <= Cardinality(H)
<1> DEFINE f == [a \in S |-> a.entry]
<1>1. f \in Injection(S, H)
  BY DEF Injection, IsInjective
<1> QED
  BY <1>1, FS_Injection

LEMMA TickStep ==
  ASSUME LimitInv, LimitTick
  PROVE  LimitInv'
<1>1. Lately' \subseteq Lately
  <2>1. /\ clock \in Int /\ MaxSkew \in Nat /\ Window \in Nat
        /\ admitted \subseteq [entry : Entries, at : Instants]
        /\ clock' = clock + 1 /\ admitted' = Lately
    BY LargestSkew, RateLimitAssumption DEF LimitInv, LimitTypeOK, LimitTick, Instants
  <2> QED
    BY <2>1, RateLimitAssumption DEF Lately, Instants
<1>2. \A a, b \in Lately : a.entry = b.entry => a = b
  BY DEF LimitInv, OwnEntries
<1>3. IsFiniteSet(Lately)
  <2> DEFINE f == [a \in Lately |-> a.entry]
  <2>1. f \in Injection(Lately, hits)
    BY DEF Injection, IsInjective, LimitInv, Counted, OwnEntries
  <2> QED
    BY <2>1, FS_Injection DEF LimitInv
<1>4. Cardinality(Lately') <= Points
  <2>1. Cardinality(Lately') <= Cardinality(Lately) /\ IsFiniteSet(Lately')
    BY <1>1, <1>3, FS_Subset
  <2>2. Cardinality(Lately') \in Nat /\ Cardinality(Lately) \in Nat
    BY <1>3, <2>1, FS_CardinalityType
  <2> QED
    BY <2>1, <2>2, RateLimitAssumption DEF LimitInv
<1>5. LimitTypeOK'
  BY RateLimitAssumption DEF LimitInv, LimitTypeOK, LimitTick, Lately, Instants
<1>6. IsFiniteSet(hits') /\ NamedInTurn'
  BY DEF LimitInv, LimitTick, NamedInTurn
<1>7. \A a \in admitted' : a.at <= clock'
  BY RateLimitAssumption DEF LimitInv, LimitTypeOK, LimitTick, Lately, Instants
<1>8. Counted'
  BY <1>1 DEF LimitInv, Counted, LimitTick
<1>9. OwnEntries'
  BY <1>1, <1>2 DEF OwnEntries
<1> QED
  BY <1>4, <1>5, <1>6, <1>7, <1>8, <1>9 DEF LimitInv

(* A check counted: what is admitted has its entry, and the entries are    *)
(* within the limit.                                                       *)
LEMMA CheckStep ==
  ASSUME LimitInv, NEW skew \in Skews, Check(skew)
  PROVE  LimitInv'
<1> DEFINE now == clock + skew
<1> DEFINE mine == [entry |-> Hit(now), at |-> clock]
<1>1. /\ skew \in Nat /\ skew <= MaxSkew /\ MaxSkew \in Nat /\ Window \in Nat \ {0}
      /\ clock \in Nat /\ clock <= Horizon /\ Horizon \in Nat
  BY LargestSkew, RateLimitAssumption DEF LimitInv, LimitTypeOK, Instants
<1>2. now \in 0 .. Horizon + MaxSkew /\ now \in Nat /\ now >= clock
  BY <1>1
<1>3. /\ Record(now) /\ UNCHANGED <<failClosed, clock, unguarded>>
      /\ admitted' = IF Exceeds(hits') THEN admitted ELSE admitted \cup {mine}
      /\ hits' = Kept(now) \cup {Hit(now)} /\ expiry' = clock + Window
  BY DEF Check, Record, Recorded
<1>4. /\ hits' \subseteq Entries /\ IsFiniteSet(hits') /\ NamedInTurn' /\ Hit(now) \in Entries
  BY <1>2, <1>3, RowStep
<1>5. Hit(now) \notin Kept(now)
  BY <1>2, NextNameIsNew
<1>6. \A a \in Lately : a.entry \in Kept(now)
  BY LatelyKept
<1>7. Hit(now).score = now
  BY DEF Hit
<1>8. /\ mine.entry = Hit(now) /\ mine.at = clock
  OBVIOUS
<1> HIDE DEF now, mine
<1>9. /\ admitted \subseteq [entry : Entries, at : Instants]
      /\ \A a \in admitted : a.at <= clock /\ a.at \in Nat
      /\ \A a \in Lately : a \in admitted
  BY RateLimitAssumption DEF LimitInv, LimitTypeOK, Lately, Instants
<1>10. \A a \in Lately' : a \in Lately \/ (a = mine /\ a \in admitted')
  BY <1>3 DEF Lately
<1>11. LimitTypeOK'
  <2>1. mine \in [entry : Entries, at : Instants]
    BY <1>1, <1>4 DEF mine, Instants
  <2>2. expiry' \in 0 .. Horizon + Window
    BY <1>1, <1>3
  <2> QED
    BY <1>3, <1>4, <1>9, <2>1, <2>2 DEF LimitInv, LimitTypeOK
<1>12. \A a \in admitted' : a.at <= clock'
  BY <1>1, <1>3, <1>8, <1>9
<1>13. Counted'
  <2>1. SUFFICES ASSUME NEW a \in Lately'
                 PROVE  a.entry \in hits' /\ a.entry.score >= a.at /\ expiry' >= a.at + Window
    BY DEF Counted
  <2>2. CASE a \in Lately
    <3>1. a.entry.score >= a.at /\ a.at <= clock /\ a.at \in Nat
      BY <1>9, <2>2 DEF LimitInv, Counted
    <3> QED
      BY <1>1, <1>3, <1>6, <2>2, <3>1
  <2>3. CASE a = mine
    BY <1>1, <1>2, <1>3, <1>7, <1>8, <2>3
  <2> QED
    BY <1>10, <2>2, <2>3
<1>14. OwnEntries'
  <2>1. SUFFICES ASSUME NEW a \in Lately', NEW b \in Lately', a.entry = b.entry
                 PROVE  a = b
    BY DEF OwnEntries
  <2>2. CASE a \in Lately /\ b \in Lately
    BY <2>1, <2>2 DEF LimitInv, OwnEntries
  <2>3. CASE a = mine /\ b \in Lately
    BY <1>5, <1>6, <1>8, <2>1, <2>3
  <2>4. CASE a \in Lately /\ b = mine
    BY <1>5, <1>6, <1>8, <2>1, <2>4
  <2> QED
    BY <1>10, <2>2, <2>3, <2>4
<1>15. Cardinality(Lately') <= Points
  <2>1. CASE Exceeds(hits')
    <3>1. Lately' = Lately
      BY <1>3, <2>1 DEF Lately
    <3> QED
      BY <3>1 DEF LimitInv
  <2>2. CASE ~Exceeds(hits')
    <3>1. Cardinality(Lately') <= Cardinality(hits')
      BY <1>4, <1>13, <1>14, NoMoreThanHits DEF Counted, OwnEntries
    <3>2. IsFiniteSet(Lately')
      <4> DEFINE f == [a \in Lately' |-> a.entry]
      <4>1. f \in Injection(Lately', hits')
        BY <1>13, <1>14 DEF Injection, IsInjective, Counted, OwnEntries
      <4> QED
        BY <1>4, <4>1, FS_Injection
    <3>3. Cardinality(Lately') \in Nat /\ Cardinality(hits') \in Nat
      BY <1>4, <3>2, FS_CardinalityType
    <3> QED
      BY <2>2, <3>1, <3>3, RateLimitAssumption DEF Exceeds
  <2> QED
    BY <2>1, <2>2
<1> QED
  BY <1>4, <1>11, <1>12, <1>13, <1>14, <1>15 DEF LimitInv

(* A check without an answer leaves the entries and admits by no count.    *)
LEMMA CheckFailsStep ==
  ASSUME LimitInv, NEW skew \in Skews, CheckFails(skew)
  PROVE  LimitInv'
<1> DEFINE now == clock + skew
<1>1. /\ skew \in Nat /\ skew <= MaxSkew /\ MaxSkew \in Nat /\ Window \in Nat \ {0}
      /\ clock \in Nat /\ clock <= Horizon /\ Horizon \in Nat
  BY LargestSkew, RateLimitAssumption DEF LimitInv, LimitTypeOK, Instants
<1>2. now \in 0 .. Horizon + MaxSkew /\ now \in Nat
  BY <1>1
<1>3. /\ UNCHANGED <<failClosed, clock, admitted>> /\ Lately' = Lately
      /\ unguarded' = (unguarded \/ ~failClosed)
      /\ Record(now) \/ UNCHANGED <<hits, expiry>>
  BY DEF CheckFails, Lately
<1>4. \A a \in Lately : a.entry \in Kept(now) /\ a.at <= clock /\ a.at \in Nat
  BY LatelyKept, RateLimitAssumption DEF LimitInv, LimitTypeOK, Lately, Instants
<1>5. unguarded' \in BOOLEAN /\ (unguarded' => ~failClosed')
  BY <1>3, RateLimitAssumption DEF LimitInv, LimitTypeOK
<1> HIDE DEF now
<1>6. CASE Record(now)
  <2>1. hits' = Kept(now) \cup {Hit(now)} /\ expiry' = clock + Window
    BY <1>6 DEF Record, Recorded
  <2>2. hits' \subseteq Entries /\ IsFiniteSet(hits') /\ NamedInTurn'
    BY <1>2, <1>6, RowStep
  <2>3. expiry' \in 0 .. Horizon + Window
    BY <1>1, <2>1
  <2>4. LimitTypeOK'
    BY <1>3, <1>5, <2>2, <2>3 DEF LimitInv, LimitTypeOK
  <2>5. Counted'
    BY <1>1, <1>3, <1>4, <2>1 DEF LimitInv, Counted
  <2> QED
    BY <1>3, <2>2, <2>4, <2>5 DEF LimitInv, OwnEntries
<1>7. CASE UNCHANGED <<hits, expiry>>
  <2>1. LimitTypeOK'
    BY <1>3, <1>5, <1>7 DEF LimitInv, LimitTypeOK
  <2> QED
    BY <1>3, <1>7, <2>1 DEF LimitInv, NamedInTurn, Counted, OwnEntries
<1> QED
  BY <1>3, <1>6, <1>7

LEMMA LimitInductive == LimitSpec => []LimitInv
<1>1. LimitInit => LimitInv
  <2> SUFFICES ASSUME LimitInit PROVE LimitInv
    OBVIOUS
  <2>1. Lately = {} /\ IsFiniteSet({}) /\ Cardinality({}) = 0
    BY FS_EmptySet DEF LimitInit, Lately
  <2>2. LimitTypeOK
    <3>1. clock \in Instants /\ expiry \in 0 .. Horizon + Window
      BY RateLimitAssumption DEF LimitInit, Instants
    <3> QED
      BY <3>1 DEF LimitInit, LimitTypeOK
  <2> QED
    BY <2>1, <2>2, RateLimitAssumption DEF LimitInit, LimitInv, NamedInTurn, Counted, OwnEntries
<1>2. LimitInv /\ [LimitNext]_limitVars => LimitInv'
  <2> SUFFICES ASSUME LimitInv, [LimitNext]_limitVars PROVE LimitInv'
    OBVIOUS
  <2>1. CASE UNCHANGED limitVars
    <3>1. Lately' = Lately
      BY <2>1 DEF limitVars, Lately
    <3> QED
      BY <2>1, <3>1 DEF limitVars, LimitInv, LimitTypeOK, NamedInTurn, Counted, OwnEntries
  <2> QED
    BY <2>1, TickStep, CheckStep, CheckFailsStep DEF LimitNext
<1> QED
  BY <1>1, <1>2, PTL DEF LimitSpec

(* RateHeld: whatever the clocks of the processes and the answers lost,    *)
(* no more than options.points are admitted in the window.                 *)
THEOREM LimitHolds == LimitSpec => []RateHeld
<1>1. LimitInv => RateHeld
  BY DEF LimitInv, RateHeld
<1> QED
  BY <1>1, LimitInductive, PTL

-----------------------------------------------------------------------------
(* Paged lists: rows a walk has gone past without giving them.             *)
Passed(r) == walk.cursor # NoCursor /\ ~Ahead(walk.cursor, r)
Missed == {r \in steady \ pageItems.given : ~walk.more \/ Passed(r)}

WalkTyped ==
    /\ listing \in [byId : BOOLEAN, oldestFirst : BOOLEAN, filterMoves : BOOLEAN]
    /\ created \in [ListRows -> Nat]
    /\ listed \subseteq {r \in ListRows : created[r] # 0}
    /\ steady \subseteq listed
    /\ walk \in [cursor : ListRows \cup {NoCursor}, more : BOOLEAN]
    /\ pageItems \in [given : SUBSET ListRows, twice : SUBSET ListRows]
    /\ strays \in Nat

WalkInv ==
    /\ WalkTyped
    /\ \A g \in pageItems.given : created[g] # 0
    /\ IF walk.cursor = NoCursor THEN walk.more => pageItems.given = {}
       ELSE walk.cursor \in pageItems.given
    /\ TotallyOrdered =>
          /\ pageItems.twice = {}
          /\ walk.more => \A g \in pageItems.given : Passed(g)
          /\ Cardinality(Missed) <= strays

(* Rows of the table, two of which the order always tells apart.           *)
LEMMA OrderIsTotal ==
  ASSUME WalkTyped, TotallyOrdered, NEW a \in ListRows, created[a] # 0
  PROVE  /\ ~Ahead(a, a)
         /\ \A b \in ListRows : created[b] # 0 =>
               /\ a # b => Ahead(a, b) \/ Ahead(b, a)
               /\ Ahead(a, b) => ~Ahead(b, a)
               /\ \A c \in ListRows : created[c] # 0 /\ Ahead(a, b) /\ Ahead(b, c) => Ahead(a, c)
<1>1. \A r \in ListRows : r \in Nat /\ created[r] \in Nat
  BY PagingAssumption DEF ListRows, WalkTyped
<1>2. listing.byId \in BOOLEAN /\ listing.oldestFirst \in BOOLEAN
  BY DEF WalkTyped
<1>3. CASE listing.byId
  BY <1>1, <1>2, <1>3 DEF Ahead
<1>4. CASE ~listing.byId
  <2>1. \A b \in ListRows : created[a] = created[b] => a = b
    BY <1>2, <1>4 DEF TotallyOrdered
  <2>2. \A b, c \in ListRows : created[b] = created[c] /\ created[b] # 0 => b = c
    BY <1>2, <1>4 DEF TotallyOrdered
  <2> QED
    BY <1>1, <1>2, <1>4, <2>1, <2>2 DEF Ahead
<1> QED
  BY <1>3, <1>4

(* A query's answer: every row that matches from the cursor on, once.      *)
LEMMA AnswerIsSorted ==
  ASSUME WalkTyped, NEW s \in OrderedRows(FromCursor)
  PROVE  /\ s \in Seq(FromCursor)
         /\ \A i, j \in 1 .. Len(s) : (i # j => s[i] # s[j]) /\ (i < j => ~Ahead(s[j], s[i]))
         /\ \A r \in FromCursor : \E i \in 1 .. Len(s) : s[i] = r
<1> DEFINE F == FromCursor
<1> DEFINE n == Cardinality(F)
<1>1. IsFiniteSet(F) /\ n \in Nat
  <2>1. F \subseteq ListRows
    BY DEF FromCursor, WalkTyped
  <2>2. IsFiniteSet(ListRows)
    BY FS_Interval, PagingAssumption DEF ListRows
  <2> QED
    BY <2>1, <2>2, FS_Subset, FS_CardinalityType
<1>2. /\ s \in [1 .. n -> F] /\ \A i, j \in 1 .. n : i # j => s[i] # s[j]
      /\ \A i, j \in DOMAIN s : i < j => ~Ahead(s[j], s[i])
  BY DEF OrderedRows, SetToSeqs
<1> HIDE DEF F, n
<1>3. s \in Seq(F) /\ Len(s) = n
  BY <1>1, <1>2
<1>4. s \in Injection(1 .. n, F)
  BY <1>2 DEF Injection, IsInjective
<1>5. IsFiniteSet(1 .. n) /\ Cardinality(1 .. n) = n
  BY <1>1, FS_Interval
<1>6. s \in Surjection(1 .. n, F)
  BY <1>1, <1>4, <1>5, FS_Injection DEF n
<1> QED
  BY <1>2, <1>3, <1>6 DEF Surjection, F

LEMMA MinOfTwo ==
  ASSUME NEW a \in Nat, NEW b \in Nat
  PROVE  Min({a, b}) = IF a <= b THEN a ELSE b
BY DEF Min

(* The page of k rows cut from an answer s of which skip rows are passed   *)
(* over.                                                                   *)
PageCut(s, skip, rows, k) ==
    /\ Len(rows) = Len(s) - skip
    /\ k \in Nat /\ skip + k <= Len(s)
    /\ \A x : x \in Range(FirstPage(rows)) <=> \E i \in skip + 1 .. skip + k : s[i] = x
    /\ Len(rows) > PageSize => k = PageSize /\ NextCursor(rows) = s[skip + k]

LEMMA PageOfRows ==
  ASSUME NEW F, NEW s \in Seq(F), NEW skip \in {0, 1}, skip <= Len(s),
         NEW rows, rows = IF skip = 0 THEN s ELSE Tail(s),
         NEW k, k = IF Len(rows) <= PageSize THEN Len(rows) ELSE PageSize
  PROVE  PageCut(s, skip, rows, k)
<1>1. /\ rows \in Seq(F) /\ Len(rows) = Len(s) - skip /\ Len(s) \in Nat
      /\ \A i \in 1 .. Len(rows) : rows[i] = s[i + skip]
  <2>1. Len(s) \in Nat
    BY LenProperties
  <2>2. CASE skip = 0
    BY <2>1, <2>2
  <2>3. CASE skip = 1
    <3>1. s # <<>>
      BY <2>1, <2>3, EmptySeq
    <3> QED
      BY <2>1, <2>3, <3>1, HeadTailProperties
  <2> QED
    BY <2>2, <2>3
<1>2. Len(rows) \in Nat /\ PageSize \in Nat \ {0}
  BY <1>1, PagingAssumption
<1>3. k \in Nat /\ k <= Len(rows) /\ k = Min({Len(rows), PageSize})
  BY <1>2, MinOfTwo
<1>4. FirstPage(rows) = [i \in 1 .. k |-> rows[i]]
  BY <1>3 DEF FirstPage
<1>5. ASSUME NEW x
      PROVE  x \in Range(FirstPage(rows)) <=> \E i \in skip + 1 .. skip + k : s[i] = x
  <2> DEFINE page == FirstPage(rows)
  <2>1. DOMAIN page = 1 .. k /\ \A i \in 1 .. k : page[i] = rows[i]
    BY <1>4
  <2>2. x \in Range(page) <=> \E i \in 1 .. k : rows[i] = x
    <3> HIDE DEF page
    <3> QED
      BY <2>1 DEF Range
  <2>3. \A i \in 1 .. k : rows[i] = s[i + skip] /\ i + skip \in skip + 1 .. skip + k
    BY <1>1, <1>2, <1>3
  <2>4. \A i \in skip + 1 .. skip + k : i - skip \in 1 .. k /\ rows[i - skip] = s[i]
    BY <1>1, <1>2, <1>3
  <2> HIDE DEF page
  <2>5. ASSUME NEW i \in 1 .. k, rows[i] = x
        PROVE  \E j \in skip + 1 .. skip + k : s[j] = x
    BY <2>3, <2>5
  <2>6. ASSUME NEW i \in skip + 1 .. skip + k, s[i] = x
        PROVE  \E j \in 1 .. k : rows[j] = x
    BY <2>4, <2>6
  <2> QED
    BY <2>2, <2>5, <2>6 DEF page
<1>6. ASSUME Len(rows) > PageSize
      PROVE  k = PageSize /\ NextCursor(rows) = s[skip + k]
  <2>1. k = PageSize /\ k \in 1 .. Len(rows)
    BY <1>2, <1>6
  <2>2. FirstPage(rows) \in Seq(F) /\ Len(FirstPage(rows)) = k
    <3>1. \A i \in 1 .. k : rows[i] \in F
      BY <1>1, <1>2, <1>3, ElementOfSeq
    <3>2. FirstPage(rows) \in [1 .. k -> F]
      BY <1>4, <3>1
    <3> QED
      BY <1>3, <3>2
  <2>3. NextCursor(rows) = rows[k]
    BY <1>4, <2>1, <2>2 DEF NextCursor, Last
  <2> QED
    BY <1>1, <2>1, <2>3
<1> QED
  BY <1>1, <1>2, <1>3, <1>5, <1>6 DEF PageCut

LEMMA WalkFinite ==
  ASSUME WalkTyped
  PROVE  /\ IsFiniteSet(ListRows)
         /\ IsFiniteSet(Missed) /\ Cardinality(Missed) \in Nat /\ Missed \subseteq ListRows
<1>1. IsFiniteSet(ListRows)
  BY FS_Interval, PagingAssumption DEF ListRows
<1>2. Missed \subseteq ListRows
  BY DEF Missed, WalkTyped
<1> QED
  BY <1>1, <1>2, FS_Subset, FS_CardinalityType

(* What one fetch does, once the answer s of the query is given: of its    *)
(* rows skip are passed over and k, the items, are on the page.            *)
Fetched(s, skip, k, items) ==
    /\ s \in OrderedRows(FromCursor)
    /\ skip = IF walk.cursor = NoCursor \/ s = <<>> THEN 0 ELSE 1
    /\ k \in Nat /\ skip + k <= Len(s)
    /\ \A x : x \in items <=> \E i \in skip + 1 .. skip + k : s[i] = x
    /\ pageItems' = [given |-> pageItems.given \cup items,
                     twice |-> pageItems.twice \cup (pageItems.given \cap items)]
    /\ \/ k >= 1 /\ walk' = [walk EXCEPT !.cursor = s[skip + k]]
       \/ skip + k = Len(s) /\ walk' = [walk EXCEPT !.more = FALSE]
    /\ strays' = IF walk.cursor = NoCursor \/ walk.cursor \in listed THEN strays ELSE strays + 1
    /\ walk.more
    /\ UNCHANGED <<listing, created, listed, steady>>

LEMMA FetchIsFetched ==
  ASSUME WalkTyped, FetchPage
  PROVE  \E s, skip, k, items : Fetched(s, skip, k, items)
<1>1. PICK s \in OrderedRows(FromCursor) :
          LET rows  == IF walk.cursor = NoCursor \/ s = <<>> THEN s ELSE Tail(s)
              items == Range(FirstPage(rows))
          IN /\ walk' = IF Len(rows) > PageSize THEN [walk EXCEPT !.cursor = NextCursor(rows)]
                        ELSE [walk EXCEPT !.more = FALSE]
             /\ pageItems' = [given |-> pageItems.given \cup items,
                              twice |-> pageItems.twice \cup (pageItems.given \cap items)]
  BY DEF FetchPage
<1>2. PICK skip : skip = IF walk.cursor = NoCursor \/ s = <<>> THEN 0 ELSE 1
  OBVIOUS
<1>3. PICK rows : rows = IF skip = 0 THEN s ELSE Tail(s)
  OBVIOUS
<1>4. PICK k : k = IF Len(rows) <= PageSize THEN Len(rows) ELSE PageSize
  OBVIOUS
<1>5. rows = IF walk.cursor = NoCursor \/ s = <<>> THEN s ELSE Tail(s)
  BY <1>2, <1>3
<1>6. s \in Seq(FromCursor)
  BY AnswerIsSorted
<1>7. skip \in {0, 1} /\ Len(s) \in Nat /\ skip <= Len(s)
  BY <1>2, <1>6, EmptySeq, LenProperties
<1>8. /\ Len(rows) = Len(s) - skip
      /\ k \in Nat /\ skip + k <= Len(s)
      /\ \A x : x \in Range(FirstPage(rows)) <=> \E i \in skip + 1 .. skip + k : s[i] = x
      /\ Len(rows) > PageSize => k = PageSize /\ NextCursor(rows) = s[skip + k]
  <2>1. PageCut(s, skip, rows, k)
    BY <1>3, <1>4, <1>6, <1>7, PageOfRows
  <2> QED
    BY <2>1 DEF PageCut
<1>9. \/ k >= 1 /\ walk' = [walk EXCEPT !.cursor = s[skip + k]]
      \/ skip + k = Len(s) /\ walk' = [walk EXCEPT !.more = FALSE]
  <2>1. walk' = IF Len(rows) > PageSize THEN [walk EXCEPT !.cursor = NextCursor(rows)]
                ELSE [walk EXCEPT !.more = FALSE]
    BY <1>1, <1>5
  <2>2. PageSize \in Nat \ {0}
    BY PagingAssumption
  <2>3. CASE Len(rows) > PageSize
    BY <1>8, <2>1, <2>2, <2>3
  <2>4. CASE ~(Len(rows) > PageSize)
    BY <1>4, <1>7, <1>8, <2>1, <2>2, <2>4
  <2> QED
    BY <2>3, <2>4
<1>10. pageItems' = [given |-> pageItems.given \cup Range(FirstPage(rows)),
                     twice |-> pageItems.twice \cup (pageItems.given \cap Range(FirstPage(rows)))]
  BY <1>1, <1>5
<1>11. Fetched(s, skip, k, Range(FirstPage(rows)))
  BY <1>2, <1>8, <1>9, <1>10 DEF Fetched, FetchPage
<1> QED
  BY <1>11

(* Rows of a page come after the cursor: they are none it was given.       *)
LEMMA PageIsAhead ==
  ASSUME WalkInv, TotallyOrdered, NEW s, NEW skip, NEW k, NEW items, Fetched(s, skip, k, items),
         NEW i \in skip + 1 .. skip + k
  PROVE  /\ s[i] \notin pageItems.given
         /\ walk.cursor # NoCursor => Ahead(walk.cursor, s[i])
<1> DEFINE c == walk.cursor
<1>1. WalkTyped
  BY DEF WalkInv
<1>2. /\ s \in Seq(FromCursor) /\ Len(s) \in Nat
      /\ \A a, b \in 1 .. Len(s) : (a # b => s[a] # s[b]) /\ (a < b => ~Ahead(s[b], s[a]))
      /\ \A r \in FromCursor : \E a \in 1 .. Len(s) : s[a] = r
  BY <1>1, AnswerIsSorted, LenProperties DEF Fetched
<1>3. skip \in {0, 1} /\ k \in Nat /\ skip + k <= Len(s) /\ i \in 1 .. Len(s)
  BY <1>2 DEF Fetched
<1>4. \A a \in 1 .. Len(s) :
         /\ s[a] \in FromCursor /\ s[a] \in ListRows /\ created[s[a]] # 0
         /\ c # NoCursor => ~Ahead(s[a], c)
  BY <1>1, <1>2, ElementOfSeq DEF FromCursor, WalkTyped
<1>5. CASE c = NoCursor
  BY <1>5 DEF WalkInv, Fetched
<1>6. CASE c # NoCursor
  <2>1. /\ c \in pageItems.given /\ c \in ListRows /\ created[c] # 0
        /\ \A g \in pageItems.given : ~Ahead(c, g)
    BY <1>6 DEF WalkInv, WalkTyped, Fetched, Passed
  <2>2. skip = 1
    <3>1. s # <<>>
      BY <1>2, <1>3, EmptySeq
    <3> QED
      BY <1>6, <3>1 DEF Fetched
  <2>3. 1 \in 1 .. Len(s) /\ 1 < i
    BY <1>2, <1>3, <2>2
  <2>4. s[i] # c
    <3>1. SUFFICES ASSUME s[i] = c PROVE FALSE
      OBVIOUS
    <3>2. s[1] # c /\ ~Ahead(c, s[1])
      BY <1>2, <1>3, <2>3, <3>1
    <3>3. ~Ahead(s[1], c) /\ s[1] \in ListRows /\ created[s[1]] # 0
      BY <1>4, <1>6, <2>3
    <3> QED
      BY <1>1, <2>1, <3>2, <3>3, OrderIsTotal
  <2>5. Ahead(c, s[i])
    BY <1>1, <1>3, <1>4, <1>6, <2>1, <2>4, OrderIsTotal
  <2> QED
    BY <2>1, <2>5
<1> QED
  BY <1>5, <1>6

(* Of the rows a walk was bound to see, a fetch goes past no more than the *)
(* one it skips in place of the cursor's.                                  *)
LEMMA FetchMisses ==
  ASSUME WalkInv, TotallyOrdered, NEW s, NEW skip, NEW k, NEW items, Fetched(s, skip, k, items), NEW r \in Missed'
  PROVE  r \in Missed \/ (walk.cursor # NoCursor /\ walk.cursor \notin listed /\ r = s[1])
<1> DEFINE c == walk.cursor
<1>1. WalkTyped
  BY DEF WalkInv
<1>2. /\ s \in Seq(FromCursor) /\ Len(s) \in Nat
      /\ \A a, b \in 1 .. Len(s) : (a # b => s[a] # s[b]) /\ (a < b => ~Ahead(s[b], s[a]))
      /\ \A x \in FromCursor : \E a \in 1 .. Len(s) : s[a] = x
  BY <1>1, AnswerIsSorted, LenProperties DEF Fetched
<1>3. skip \in {0, 1} /\ k \in Nat /\ skip + k <= Len(s)
  BY DEF Fetched
<1>4. \A a \in 1 .. Len(s) : s[a] \in ListRows /\ created[s[a]] # 0
  BY <1>1, <1>2, ElementOfSeq DEF FromCursor, WalkTyped
<1>5. /\ r \in steady /\ r \in listed /\ r \in ListRows /\ created[r] # 0
      /\ r \notin pageItems.given
      /\ \A i \in skip + 1 .. skip + k : s[i] # r
      /\ ~walk'.more \/ (walk'.cursor # NoCursor /\ ~Ahead(walk'.cursor, r))
  <2>1. /\ r \in steady' \ pageItems'.given
        /\ ~walk'.more \/ Passed(r)'
    BY DEF Missed
  <2>2. /\ \A x : x \in items <=> \E i \in skip + 1 .. skip + k : s[i] = x
        /\ pageItems'.given = pageItems.given \cup items
    BY DEF Fetched
  <2>3. Passed(r)' <=> walk'.cursor # NoCursor /\ ~Ahead(walk'.cursor, r)
    BY DEF Passed, Ahead, Fetched
  <2> QED
    BY <1>1, <2>1, <2>2, <2>3 DEF Fetched, WalkTyped
<1>6. CASE Passed(r)
  BY <1>5, <1>6 DEF Missed
<1>7. CASE ~Passed(r)
  <2>1. c = NoCursor \/ Ahead(c, r)
    BY <1>7 DEF Passed
  <2>2. c # NoCursor => c \in ListRows /\ created[c] # 0
    BY DEF WalkInv, WalkTyped
  <2>3. r \in FromCursor
    BY <1>1, <1>5, <2>1, <2>2, OrderIsTotal DEF FromCursor
  <2>4. PICK j \in 1 .. Len(s) : s[j] = r
    BY <1>2, <2>3
  <2>5. j <= skip + k
    <3>1. CASE k >= 1 /\ walk' = [walk EXCEPT !.cursor = s[skip + k]]
      <4>1. skip + k \in 1 .. Len(s)
        BY <1>2, <1>3, <3>1
      <4>2. walk'.cursor = s[skip + k] /\ walk'.more
        BY <1>1, <3>1 DEF WalkTyped, Fetched
      <4>3. ~Ahead(s[skip + k], r)
        BY <1>5, <4>2
      <4>4. SUFFICES ASSUME j > skip + k PROVE FALSE
        BY <1>3, <2>4
      <4>5. s[j] # s[skip + k] /\ ~Ahead(s[j], s[skip + k])
        BY <1>2, <2>4, <4>1, <4>4
      <4>6. s[skip + k] \in ListRows /\ created[s[skip + k]] # 0
        BY <1>4, <4>1
      <4> QED
        BY <1>1, <1>5, <2>4, <4>3, <4>5, <4>6, OrderIsTotal
    <3>2. CASE skip + k = Len(s)
      BY <1>2, <2>4, <3>2
    <3> QED
      BY <3>1, <3>2 DEF Fetched
  <2>6. j = 1 /\ skip = 1
    BY <1>2, <1>3, <1>5, <2>4, <2>5
  <2>7. c # NoCursor
    BY <2>6 DEF Fetched
  <2>8. c \notin listed
    <3>1. SUFFICES ASSUME c \in listed PROVE FALSE
      OBVIOUS
    <3>2. c \in FromCursor /\ c # r
      BY <1>1, <1>5, <2>1, <2>2, <2>7, <3>1, OrderIsTotal DEF FromCursor
    <3>3. PICK m \in 1 .. Len(s) : s[m] = c
      BY <1>2, <3>2
    <3>4. 1 < m
      BY <1>2, <2>4, <2>6, <3>2, <3>3
    <3>5. ~Ahead(c, r)
      BY <1>2, <2>4, <2>6, <3>3, <3>4
    <3> QED
      BY <2>1, <2>7, <3>5
  <2> QED
    BY <2>4, <2>6, <2>7, <2>8
<1> QED
  BY <1>6, <1>7

LEMMA FetchStep ==
  ASSUME WalkInv, NEW s, NEW skip, NEW k, NEW items, Fetched(s, skip, k, items)
  PROVE  WalkInv'
<1>1. WalkTyped /\ walk.more
  BY DEF WalkInv, Fetched
<1>2. /\ s \in Seq(FromCursor) /\ Len(s) \in Nat
      /\ \A a, b \in 1 .. Len(s) : (a # b => s[a] # s[b]) /\ (a < b => ~Ahead(s[b], s[a]))
  BY <1>1, AnswerIsSorted, LenProperties DEF Fetched
<1>3. skip \in {0, 1} /\ k \in Nat /\ skip + k <= Len(s)
  BY DEF Fetched
<1>4. \A a \in 1 .. Len(s) : s[a] \in ListRows /\ created[s[a]] # 0
  BY <1>1, <1>2, ElementOfSeq DEF FromCursor, WalkTyped
<1>5. \A x \in items : \E i \in skip + 1 .. skip + k : i \in 1 .. Len(s) /\ s[i] = x
  BY <1>2, <1>3 DEF Fetched
<1>6. \A x \in items : x \in ListRows /\ created[x] # 0
  BY <1>4, <1>5
<1>7. /\ pageItems'.given = pageItems.given \cup items
      /\ pageItems'.twice = pageItems.twice \cup (pageItems.given \cap items)
      /\ UNCHANGED <<listing, created, listed, steady>>
  BY DEF Fetched
<1>8. \/ /\ k >= 1 /\ walk'.cursor = s[skip + k] /\ walk'.more
         /\ skip + k \in 1 .. Len(s) /\ s[skip + k] \in items
      \/ skip + k = Len(s) /\ walk'.cursor = walk.cursor /\ ~walk'.more
  <2>1. CASE k >= 1 /\ walk' = [walk EXCEPT !.cursor = s[skip + k]]
    <3>1. skip + k \in 1 .. Len(s) /\ skip + k \in skip + 1 .. skip + k
      BY <1>2, <1>3, <2>1
    <3>2. s[skip + k] \in items
      BY <3>1 DEF Fetched
    <3> QED
      BY <1>1, <2>1, <3>1, <3>2 DEF WalkTyped
  <2>2. CASE skip + k = Len(s) /\ walk' = [walk EXCEPT !.more = FALSE]
    BY <1>1, <2>2 DEF WalkTyped
  <2> QED
    BY <2>1, <2>2 DEF Fetched
<1>9. WalkTyped'
  <2>1. walk' \in [cursor : ListRows \cup {NoCursor}, more : BOOLEAN]
    BY <1>1, <1>4, <1>8 DEF WalkTyped, Fetched
  <2>2. pageItems' \in [given : SUBSET ListRows, twice : SUBSET ListRows]
    BY <1>1, <1>6 DEF WalkTyped, Fetched
  <2>3. strays' \in Nat
    BY <1>1 DEF WalkTyped, Fetched
  <2> QED
    BY <1>1, <1>7, <2>1, <2>2, <2>3 DEF WalkTyped
<1>10. \A g \in pageItems'.given : created'[g] # 0
  BY <1>6, <1>7 DEF WalkInv
<1>11. IF walk'.cursor = NoCursor THEN walk'.more => pageItems'.given = {}
       ELSE walk'.cursor \in pageItems'.given
  <2>1. \A r \in ListRows : r # NoCursor
    BY PagingAssumption DEF ListRows, NoCursor
  <2> QED
    BY <1>4, <1>7, <1>8, <2>1 DEF WalkInv
<1>12. ASSUME TotallyOrdered'
       PROVE  /\ pageItems'.twice = {}
              /\ walk'.more => \A g \in pageItems'.given : Passed(g)'
              /\ Cardinality(Missed') <= strays'
  <2>1. TotallyOrdered
    BY <1>7, <1>12 DEF TotallyOrdered
  <2>2. \A x \in items : x \notin pageItems.given
    BY <1>5, <2>1, PageIsAhead
  <2>3. pageItems'.twice = {}
    BY <1>7, <2>1, <2>2 DEF WalkInv
  <2>4. ASSUME walk'.more, NEW g \in pageItems'.given
        PROVE  Passed(g)'
    <3>1. /\ walk'.cursor = s[skip + k] /\ skip + k \in 1 .. Len(s) /\ k >= 1
          /\ s[skip + k] \in ListRows /\ created[s[skip + k]] # 0
      BY <1>4, <1>8, <2>4
    <3>2. walk'.cursor # NoCursor
      BY <3>1, PagingAssumption DEF ListRows, NoCursor
    <3>3. Passed(g)' <=> ~Ahead(s[skip + k], g)
      BY <1>7, <3>1, <3>2 DEF Passed, Ahead
    <3>4. CASE g \in items
      <4>1. PICK i \in skip + 1 .. skip + k : i \in 1 .. Len(s) /\ s[i] = g
        BY <1>5, <3>4
      <4>2. CASE i = skip + k
        BY <1>1, <2>1, <3>1, <3>3, <4>1, <4>2, OrderIsTotal
      <4>3. CASE i # skip + k
        <5>1. i < skip + k
          BY <1>3, <4>1, <4>3
        <5> QED
          BY <1>2, <3>1, <3>3, <4>1, <5>1
      <4> QED
        BY <4>2, <4>3
    <3>5. CASE g \in pageItems.given
      <4>1. /\ walk.cursor # NoCursor /\ ~Ahead(walk.cursor, g)
            /\ g \in ListRows /\ created[g] # 0
        BY <1>1, <2>1, <3>5 DEF WalkInv, WalkTyped, Passed
      <4>2. walk.cursor \in ListRows /\ created[walk.cursor] # 0
        BY <1>1, <4>1 DEF WalkInv, WalkTyped
      <4>3. skip + k \in skip + 1 .. skip + k
        BY <1>3, <3>1
      <4>4. Ahead(walk.cursor, s[skip + k])
        BY <2>1, <4>1, <4>3, PageIsAhead
      <4> QED
        BY <1>1, <2>1, <3>1, <3>3, <4>1, <4>2, <4>4, OrderIsTotal
    <3> QED
      BY <1>7, <3>4, <3>5
  <2>5. Cardinality(Missed') <= strays'
    <3>1. /\ IsFiniteSet(Missed) /\ Cardinality(Missed) \in Nat /\ Cardinality(Missed) <= strays
          /\ strays \in Nat
      BY <1>1, <2>1, WalkFinite DEF WalkInv, WalkTyped
    <3>2. IsFiniteSet(Missed') /\ Cardinality(Missed') \in Nat
      <4>1. Missed' \subseteq ListRows
        BY <1>9 DEF Missed, WalkTyped
      <4> QED
        BY <1>1, <4>1, WalkFinite, FS_Subset, FS_CardinalityType
    <3>3. CASE walk.cursor = NoCursor \/ walk.cursor \in listed
      <4>1. Missed' \subseteq Missed
        BY <2>1, <3>3, FetchMisses
      <4>2. Cardinality(Missed') <= Cardinality(Missed)
        BY <3>1, <4>1, FS_Subset
      <4>3. strays' = strays
        BY <3>3 DEF Fetched
      <4> QED
        BY <3>1, <3>2, <4>2, <4>3
    <3>4. CASE ~(walk.cursor = NoCursor \/ walk.cursor \in listed)
      <4>1. Missed' \subseteq Missed \cup {s[1]}
        BY <2>1, FetchMisses
      <4>2. /\ IsFiniteSet(Missed \cup {s[1]}) /\ Cardinality(Missed \cup {s[1]}) \in Nat
            /\ Cardinality(Missed \cup {s[1]}) <= Cardinality(Missed) + 1
        <5> DEFINE more == Missed \cup {s[1]}
        <5>1. /\ IsFiniteSet(more)
              /\ Cardinality(more) = IF s[1] \in Missed THEN Cardinality(Missed) ELSE Cardinality(Missed) + 1
          BY <3>1, FS_AddElement
        <5> HIDE DEF more
        <5>2. Cardinality(more) \in Nat /\ Cardinality(more) <= Cardinality(Missed) + 1
          BY <3>1, <5>1
        <5> QED
          BY <5>1, <5>2 DEF more
      <4>3. Cardinality(Missed') <= Cardinality(Missed \cup {s[1]})
        BY <4>1, <4>2, FS_Subset
      <4>4. strays' = strays + 1
        BY <3>4 DEF Fetched
      <4> QED
        BY <3>1, <3>2, <4>2, <4>3, <4>4
    <3> QED
      BY <3>3, <3>4
  <2> QED
    BY <2>3, <2>4, <2>5
<1> QED
  BY <1>9, <1>10, <1>11, <1>12 DEF WalkInv

LEMMA InsertStep ==
  ASSUME WalkInv, NEW r \in ListRows, InsertRow(r)
  PROVE  WalkInv'
<1>1. WalkTyped
  BY DEF WalkInv
<1>2. PICK t \in CreatedTimes : created' = [created EXCEPT ![r] = t]
  BY DEF InsertRow
<1>3. /\ t \in Nat /\ t # 0 /\ created[r] = 0 /\ listed' \in {listed, listed \cup {r}}
      /\ UNCHANGED <<listing, walk, pageItems, steady, strays>>
  BY PagingAssumption DEF InsertRow
<1>4. /\ created' \in [ListRows -> Nat] /\ created'[r] # 0
      /\ \A x \in ListRows : created[x] # 0 => created'[x] = created[x]
  BY <1>1, <1>2, <1>3 DEF WalkTyped
<1>5. WalkTyped'
  BY <1>1, <1>3, <1>4 DEF WalkTyped
<1>6. \A g \in pageItems.given : created'[g] # 0
  BY <1>1, <1>4 DEF WalkInv, WalkTyped
<1>7. TotallyOrdered' => TotallyOrdered
  BY <1>3, <1>4 DEF TotallyOrdered
<1>8. \A x \in ListRows : created[x] # 0 => Passed(x)' = Passed(x)
  <2>1. walk.cursor # NoCursor => walk.cursor \in ListRows /\ created[walk.cursor] # 0
    BY <1>1 DEF WalkInv, WalkTyped
  <2> QED
    BY <1>3, <1>4, <2>1 DEF Passed, Ahead
<1>9. /\ \A g \in pageItems.given : g \in ListRows /\ created[g] # 0
      /\ \A x \in steady : x \in ListRows /\ created[x] # 0
  BY <1>1 DEF WalkInv, WalkTyped
<1>10. Missed' = Missed
  BY <1>3, <1>8, <1>9 DEF Missed
<1>11. ASSUME TotallyOrdered'
       PROVE  /\ pageItems'.twice = {}
              /\ walk'.more => \A g \in pageItems'.given : Passed(g)'
              /\ Cardinality(Missed') <= strays'
  BY <1>3, <1>7, <1>8, <1>9, <1>10, <1>11 DEF WalkInv
<1> QED
  BY <1>3, <1>5, <1>6, <1>11 DEF WalkInv

LEMMA MoveStep ==
  ASSUME WalkInv, NEW r \in ListRows, MoveRow(r)
  PROVE  WalkInv'
<1>1. WalkTyped
  BY DEF WalkInv
<1>2. /\ created[r] # 0 /\ listed' = IF r \in listed THEN listed \ {r} ELSE listed \cup {r}
      /\ steady' = steady \ {r} /\ UNCHANGED <<listing, created, walk, pageItems, strays>>
  BY DEF MoveRow
<1>3. WalkTyped'
  BY <1>1, <1>2 DEF WalkTyped
<1>4. Missed' \subseteq Missed /\ \A g : Passed(g)' = Passed(g)
  BY <1>2 DEF Missed, Passed, Ahead
<1>5. TotallyOrdered' => TotallyOrdered
  BY <1>2 DEF TotallyOrdered
<1>6. ASSUME TotallyOrdered
      PROVE  Cardinality(Missed') <= strays
  <2>1. /\ IsFiniteSet(Missed) /\ Cardinality(Missed) \in Nat /\ Cardinality(Missed) <= strays
        /\ strays \in Nat
    BY <1>1, <1>6, WalkFinite DEF WalkInv, WalkTyped
  <2>2. Cardinality(Missed') <= Cardinality(Missed) /\ IsFiniteSet(Missed')
    BY <1>4, <2>1, FS_Subset
  <2>3. Cardinality(Missed') \in Nat
    BY <2>2, FS_CardinalityType
  <2> QED
    BY <2>1, <2>2, <2>3
<1> QED
  BY <1>2, <1>3, <1>4, <1>5, <1>6 DEF WalkInv

LEMMA WalkInductive == PagingSpec => []WalkInv
<1>1. PagingInit => WalkInv
  <2> SUFFICES ASSUME PagingInit PROVE WalkInv
    OBVIOUS
  <2>1. WalkTyped
    <3> DEFINE Kinds == [byId : BOOLEAN, oldestFirst : BOOLEAN, filterMoves : BOOLEAN]
    <3>1. /\ ListSmsLogs \in Kinds /\ ListOrders \in Kinds /\ ListPayments \in Kinds
          /\ ListReviews \in Kinds /\ ListEvents \in Kinds /\ ListCompanies \in Kinds
          /\ ListAudit \in Kinds
      BY DEF ListSmsLogs, ListOrders, ListPayments, ListReviews, ListEvents, ListCompanies, ListAudit
    <3>2. listing \in Listings /\ created \in [ListRows -> CreatedTimes \cup {0}]
      BY DEF PagingInit
    <3> HIDE DEF Kinds
    <3>3. listing \in Kinds
      BY <3>1, <3>2 DEF Listings
    <3>4. created \in [ListRows -> Nat]
      <4>1. CreatedTimes \cup {0} \subseteq Nat
        BY PagingAssumption
      <4> QED
        BY <3>2, <4>1
    <3>5. /\ listed \subseteq {r \in ListRows : created[r] # 0} /\ steady \subseteq listed
          /\ walk \in [cursor : ListRows \cup {NoCursor}, more : BOOLEAN]
          /\ pageItems \in [given : SUBSET ListRows, twice : SUBSET ListRows]
          /\ strays \in Nat
      <4>1. listed \subseteq {r \in ListRows : created[r] # 0} /\ steady = listed /\ strays = 0
        BY DEF PagingInit
      <4>2. walk \in [cursor : ListRows \cup {NoCursor}, more : BOOLEAN]
        BY DEF PagingInit
      <4>3. pageItems \in [given : SUBSET ListRows, twice : SUBSET ListRows]
        BY DEF PagingInit
      <4> QED
        BY <4>1, <4>2, <4>3
    <3> QED
      BY <3>3, <3>4, <3>5 DEF WalkTyped, Kinds
  <2>2. /\ walk.cursor = NoCursor /\ walk.more /\ strays = 0
        /\ pageItems.given = {} /\ pageItems.twice = {}
    BY DEF PagingInit
  <2>3. Missed = {} /\ Cardinality({}) = 0
    BY <2>2, FS_EmptySet DEF Missed, Passed
  <2> QED
    BY <2>1, <2>2, <2>3 DEF WalkInv
<1>2. WalkInv /\ [PagingNext]_pagingVars => WalkInv'
  <2> SUFFICES ASSUME WalkInv, [PagingNext]_pagingVars PROVE WalkInv'
    OBVIOUS
  <2>1. CASE UNCHANGED pagingVars
    <3>1. Missed' = Missed /\ \A g : Passed(g)' = Passed(g)
      BY <2>1 DEF pagingVars, Missed, Passed, Ahead
    <3>2. TotallyOrdered' = TotallyOrdered /\ WalkTyped' = WalkTyped
      BY <2>1 DEF pagingVars, TotallyOrdered, WalkTyped
    <3> QED
      BY <2>1, <3>1, <3>2 DEF pagingVars, WalkInv
  <2>2. CASE FetchPage
    <3>1. PICK s, skip, k, items : Fetched(s, skip, k, items)
      BY <2>2, FetchIsFetched DEF WalkInv
    <3> QED
      BY <3>1, FetchStep
  <2> QED
    BY <2>1, <2>2, InsertStep, MoveStep DEF PagingNext
<1> QED
  BY <1>1, <1>2, PTL DEF PagingSpec

(* PagesComplete: for tables and pages of any size, a client that follows  *)
(* next_cursor is given no row twice, and misses none but for the skipped  *)
(* ones.                                                                   *)
THEOREM WalkIsComplete == PagingSpec => []PagesComplete
<1>1. WalkInv => PagesComplete
  <2> SUFFICES ASSUME WalkInv, TotallyOrdered
               PROVE  /\ pageItems.twice = {}
                      /\ ~walk.more => Cardinality(steady \ pageItems.given) <= strays
    BY DEF PagesComplete
  <2>1. ~walk.more => Missed = steady \ pageItems.given
    BY DEF Missed
  <2> QED
    BY <2>1 DEF WalkInv
<1> QED
  BY <1>1, WalkInductive, PTL

(* PagingTypeOK; the walk's part of it is WalkTyped.                       *)
LEMMA PagingTyped == PagingSpec => []PagingTypeOK
<1> DEFINE TableTyped == listing \in Listings /\ created \in [ListRows -> CreatedTimes \cup {0}]
<1>1. PagingInit => TableTyped
  BY DEF PagingInit
<1>2. TableTyped /\ [PagingNext]_pagingVars => TableTyped'
  BY DEF pagingVars, PagingNext, FetchPage, InsertRow, MoveRow
<1>3. TableTyped /\ WalkInv => PagingTypeOK
  BY DEF WalkInv, WalkTyped, PagingTypeOK
<1> QED
  BY <1>1, <1>2, <1>3, WalkInductive, PTL DEF PagingSpec
=============================================================================
