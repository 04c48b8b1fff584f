------------------------------ MODULE Idempotency ------------------------------
(***************************************************************************)
(* IdempotencyInterceptor around POST /payments: the requests that carry   *)
(* one idempotency key, with one body or another.  A statement of the      *)
(* interceptor is a step; the handler it wraps is one step that succeeds   *)
(* or fails (its transaction is in module Verification).                   *)
(***************************************************************************)
EXTENDS Naturals, FiniteSets

CONSTANTS
    Posts,              \* requests under way at once
    Bodies,             \* request bodies, each with its hash
    MaxExecutions       \* bound: executions of the handler

ASSUME IdempotencyAssumption == MaxExecutions \in Nat /\ IsFiniteSet(Posts)

VARIABLES
    record,      \* the row of idempotency_keys
    posts,       \* the requests
    executions,  \* history: how often the handler has succeeded
    relapses,    \* history: purges of the row and responses not stored
    overrun,     \* history: a row was purged while its request ran
    mismatched   \* history: a body was answered with the response to another

idempotencyVars == <<record, posts, executions, relapses, overrun, mismatched>>

-----------------------------------------------------------------------------
NoRecord == [state |-> "ABSENT"]
RecordRow ==
    [state : {"ABSENT"}]
    \cup [state : {"IN_FLIGHT"}, hash : Bodies, expired : BOOLEAN]
    \cup [state : {"COMPLETED"}, hash : Bodies, expired : BOOLEAN, response : Bodies]

PostState ==
    [step : {"FREE"}]
    \cup [step : {"CREATE", "FIND", "EXECUTE", "STORE", "DELETE"}, body : Bodies]

NoPost == [step |-> "FREE"]
PostAt(p, step) == posts[p].step = step
GoTo(p, step) == posts' = [posts EXCEPT ![p] = [step |-> step, body |-> posts[p].body]]
Done(p) == posts' = [posts EXCEPT ![p] = NoPost]
Relapsed == IF relapses < MaxExecutions THEN relapses + 1 ELSE relapses
Running == \E p \in Posts : posts[p].step \in {"EXECUTE", "STORE", "DELETE"}

IdempotencyInit ==
    /\ record = NoRecord
    /\ posts = [p \in Posts |-> NoPost]
    /\ executions = 0
    /\ relapses = 0
    /\ overrun = FALSE
    /\ mismatched = FALSE

SendPost(p, body) ==
    /\ PostAt(p, "FREE")
    /\ posts' = [posts EXCEPT ![p] = [step |-> "CREATE", body |-> body]]
    /\ UNCHANGED <<record, executions, relapses, overrun, mismatched>>

(* The insert of the IN_FLIGHT row decides who executes.                   *)
CreateRecord(p) ==
    /\ PostAt(p, "CREATE")
    /\ IF record.state = "ABSENT"
       THEN /\ record' = [state |-> "IN_FLIGHT", hash |-> posts[p].body, expired |-> FALSE]
            /\ GoTo(p, "EXECUTE")
       ELSE GoTo(p, "FIND") /\ UNCHANGED record
    /\ UNCHANGED <<executions, relapses, overrun, mismatched>>

(* The unique violation: replay a COMPLETED row of the same body; another  *)
(* body, a row IN_FLIGHT and a row that is gone are errors.                *)
FindRecord(p) ==
    /\ PostAt(p, "FIND")
    /\ mismatched' = (mismatched \/ (record.state = "COMPLETED" /\ record.hash = posts[p].body
                                     /\ record.response # posts[p].body))
    /\ Done(p)
    /\ UNCHANGED <<record, executions, relapses, overrun>>

(* The handler succeeds, or fails and changes nothing.                     *)
Execute(p, succeeds) ==
    /\ PostAt(p, "EXECUTE")
    /\ IF succeeds
       THEN /\ executions < MaxExecutions
            /\ executions' = executions + 1
            /\ GoTo(p, "STORE")
       ELSE GoTo(p, "DELETE") /\ UNCHANGED executions
    /\ UNCHANGED <<record, relapses, overrun, mismatched>>

(* The update by key, whichever request the row is of now; without a row   *)
(* it fails, as it may fail of its own, and the row is deleted.            *)
StoreResponse(p, succeeds) ==
    /\ PostAt(p, "STORE")
    /\ IF succeeds /\ record.state # "ABSENT"
       THEN /\ record' = [state |-> "COMPLETED", hash |-> record.hash,
                          expired |-> record.expired, response |-> posts[p].body]
            /\ Done(p)
            /\ UNCHANGED relapses
       ELSE /\ relapses' = Relapsed
            /\ GoTo(p, "DELETE")
            /\ UNCHANGED record
    /\ UNCHANGED <<executions, overrun, mismatched>>

(* catchError deletes by key and swallows what fails.                      *)
DeleteRecord(p, succeeds) ==
    /\ PostAt(p, "DELETE")
    /\ record' = IF succeeds THEN NoRecord ELSE record
    /\ Done(p)
    /\ UNCHANGED <<executions, relapses, overrun, mismatched>>

(* The server dies; a row IN_FLIGHT stays.                                 *)
PostCrash(p) ==
    /\ ~PostAt(p, "FREE")
    /\ Done(p)
    /\ UNCHANGED <<record, executions, relapses, overrun, mismatched>>

RecordExpires ==
    /\ record.state # "ABSENT" /\ ~record.expired
    /\ record' = [record EXCEPT !.expired = TRUE]
    /\ UNCHANGED <<posts, executions, relapses, overrun, mismatched>>

(* Mutant of PurgeRecord: rows are purged whatever their expires_at.       *)
PurgeEarly ==
    /\ record.state # "ABSENT"
    /\ record' = NoRecord
    /\ relapses' = IF record.expired THEN Relapsed ELSE relapses
    /\ overrun' = (overrun \/ (Running /\ record.expired))
    /\ UNCHANGED <<posts, executions, mismatched>>

(* CleanupCredentialsProcessor.tick.                                       *)
PurgeRecord ==
    /\ record.state # "ABSENT" /\ record.expired
    /\ record' = NoRecord
    /\ relapses' = Relapsed
    /\ overrun' = (overrun \/ Running)
    /\ UNCHANGED <<posts, executions, mismatched>>

IdempotencyNext ==
    \/ \E p \in Posts :
          \/ CreateRecord(p) \/ FindRecord(p) \/ PostCrash(p)
          \/ \E body \in Bodies : SendPost(p, body)
          \/ \E succeeds \in BOOLEAN :
                \/ Execute(p, succeeds) \/ StoreResponse(p, succeeds)
                \/ DeleteRecord(p, succeeds)
    \/ RecordExpires \/ PurgeRecord

IdempotencySpec == IdempotencyInit /\ [][IdempotencyNext]_idempotencyVars

-----------------------------------------------------------------------------
IdempotencyTypeOK ==
    /\ record \in RecordRow
    /\ posts \in [Posts -> PostState]
    /\ executions \in 0 .. MaxExecutions
    /\ relapses \in Nat
    /\ overrun \in BOOLEAN
    /\ mismatched \in BOOLEAN

(* However requests with one key overlap, are retried or die, the handler  *)
(* succeeds at most once, and once more for each time the row expired or   *)
(* the response could not be stored (intercept).                           *)
ExecutedOnce == executions <= 1 + relapses

(* A response that is replayed answers the body of the request, unless a   *)
(* row expired and was purged while its request was still running, which   *)
(* then stores its response in the row of another (request_hash).          *)
ReplayMatchesBody == overrun \/ ~mismatched
=============================================================================
