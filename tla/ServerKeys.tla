------------------------------ MODULE ServerKeys -------------------------------
(***************************************************************************)
(* The SERVER keys of one company: issue, revoke and rotate by             *)
(* administrators whose requests may overlap, and the worker that ends     *)
(* what was rotated.  A statement of a request is a step.                  *)
(***************************************************************************)
EXTENDS Naturals, FiniteSets

CONSTANTS
    Administrators,
    MaxKeys         \* bound: SERVER keys ever issued

ASSUME KeyAssumption == MaxKeys \in Nat \ {0}

VARIABLES
    keys,       \* api_keys of the company
    requests,   \* what each administrator's request is about to write
    waived      \* history: a key was revoked by force, while another was to
                \* end, or by overlapping requests

keyVars == <<keys, requests, waived>>

-----------------------------------------------------------------------------
KeyId == 1 .. MaxKeys
When == {"NEVER", "AHEAD", "PAST"}
KeyRow == [status : {"ABSENT", "VALID", "REVOKED"}, revoke : When, expires : When]

(* findByPlaintext and authServer: revoke_at has no say, only the worker.  *)
Authenticates(row) == row.status = "VALID" /\ row.expires # "PAST"
Steady(row) == row.status = "VALID" /\ row.revoke = "NEVER" /\ row.expires = "NEVER"

Request ==
    [step : {"FREE"}]
    \cup [step : {"REVOKE"}, key : KeyId]
    \cup [step : {"RETIRE"}, key : KeyId, graceful : BOOLEAN]

NoRequest == [step |-> "FREE"]
Free(a) == requests[a].step = "FREE"
Requests(a, state) == requests' = [requests EXCEPT ![a] = state]
KeyRequests == {a \in Administrators : requests[a].step \in {"REVOKE", "RETIRE"}}

Issued(row) == row.status # "ABSENT"
Spare == {k \in KeyId : ~Issued(keys[k])}
NextKey == CHOOSE k \in Spare : TRUE

(* CompaniesService.create issues the main server key.                     *)
KeysInit ==
    /\ keys = [k \in KeyId |-> [status |-> IF k = 1 THEN "VALID" ELSE "ABSENT",
                                revoke |-> "NEVER", expires |-> "NEVER"]]
    /\ requests = [a \in Administrators |-> NoRequest]
    /\ waived = FALSE

IssueKey(expires) ==
    /\ Spare # {} /\ expires # "PAST"
    /\ keys' = [keys EXCEPT ![NextKey] =
                  [status |-> "VALID", revoke |-> "NEVER", expires |-> expires]]
    /\ UNCHANGED <<requests, waived>>

CountedKeys == {k \in KeyId : keys[k].status = "VALID"}

(* Mutant of BeginRevoke: the last key may go.                             *)
BeginRevokeLast(a, k, force) ==
    /\ Free(a) /\ Issued(keys[k])
    /\ keys[k].status = "VALID" /\ ~force => Cardinality(CountedKeys) > 0
    /\ Requests(a, [step |-> "REVOKE", key |-> k])
    /\ waived' = (waived \/ KeyRequests # {} \/ (keys[k].status = "VALID" /\
                    (force \/ \E x \in CountedKeys \ {k} : ~Steady(keys[x]))))
    /\ UNCHANGED keys

(* revoke reads the key and counts; force skips the count.                 *)
BeginRevoke(a, k, force) ==
    /\ Free(a) /\ Issued(keys[k])
    /\ keys[k].status = "VALID" /\ ~force => Cardinality(CountedKeys) > 1
    /\ Requests(a, [step |-> "REVOKE", key |-> k])
    /\ waived' = (waived \/ KeyRequests # {} \/ (keys[k].status = "VALID" /\
                    (force \/ \E x \in CountedKeys \ {k} : ~Steady(keys[x]))))
    /\ UNCHANGED keys

FinishRevoke(a) ==
    /\ requests[a].step = "REVOKE"
    /\ keys' = [keys EXCEPT ![requests[a].key].status = "REVOKED"]
    /\ Requests(a, NoRequest)
    /\ UNCHANGED waived

(* rotate issues the replacement first, which never expires.               *)
RotateKey(a, k, graceful) ==
    /\ Free(a) /\ Issued(keys[k]) /\ Spare # {}
    /\ keys' = [keys EXCEPT ![NextKey] =
                  [status |-> "VALID", revoke |-> "NEVER", expires |-> "NEVER"]]
    /\ Requests(a, [step |-> "RETIRE", key |-> k, graceful |-> graceful])
    /\ waived' = (waived \/ KeyRequests # {})

(* Then it revokes the key, or sets the time at which it shall be.         *)
RetireKey(a) ==
    /\ requests[a].step = "RETIRE"
    /\ keys' = IF requests[a].graceful
               THEN [keys EXCEPT ![requests[a].key].revoke = "AHEAD"]
               ELSE [keys EXCEPT ![requests[a].key].status = "REVOKED"]
    /\ Requests(a, NoRequest)
    /\ UNCHANGED waived

RevokeTimeComes(k) ==
    /\ keys[k].revoke = "AHEAD"
    /\ keys' = [keys EXCEPT ![k].revoke = "PAST"]
    /\ UNCHANGED <<requests, waived>>

KeyExpiryComes(k) ==
    /\ keys[k].expires = "AHEAD"
    /\ keys' = [keys EXCEPT ![k].expires = "PAST"]
    /\ UNCHANGED <<requests, waived>>

(* CleanupCredentialsProcessor.tick, the grace periods that are over.      *)
EndGracePeriods ==
    /\ \E k \in CountedKeys : keys[k].revoke = "PAST"
    /\ keys' = [k \in KeyId |-> IF keys[k].status = "VALID" /\ keys[k].revoke = "PAST"
                                THEN [keys[k] EXCEPT !.status = "REVOKED"] ELSE keys[k]]
    /\ UNCHANGED <<requests, waived>>

(* The request dies between two statements.                                *)
AbortRequest(a) ==
    /\ ~Free(a)
    /\ Requests(a, NoRequest)
    /\ UNCHANGED <<keys, waived>>

KeysNext ==
    \/ \E a \in Administrators, k \in KeyId :
          \/ \E force \in BOOLEAN : BeginRevoke(a, k, force)
          \/ \E graceful \in BOOLEAN : RotateKey(a, k, graceful)
    \/ \E a \in Administrators : FinishRevoke(a) \/ RetireKey(a) \/ AbortRequest(a)
    \/ \E k \in KeyId : RevokeTimeComes(k) \/ KeyExpiryComes(k)
    \/ \E expires \in When : IssueKey(expires)
    \/ EndGracePeriods

KeysSpec == KeysInit /\ [][KeysNext]_keyVars

-----------------------------------------------------------------------------
KeysTypeOK ==
    /\ keys \in [KeyId -> KeyRow]
    /\ requests \in [Administrators -> Request]
    /\ waived \in BOOLEAN

(* A company keeps a SERVER key that authenticates, through rotations with *)
(* and without grace and requests that die halfway, unless a key is        *)
(* revoked by force, next to a key that is itself to end, or by requests   *)
(* that overlap (revoke, "Refusing to revoke the last active server key"). *)
KeyLeft == waived \/ \E k \in KeyId : Authenticates(keys[k])
=============================================================================
