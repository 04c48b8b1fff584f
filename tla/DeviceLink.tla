------------------------------ MODULE DeviceLink ------------------------------
(***************************************************************************)
(* Enrolment, heartbeat and token rotation: an installation of the app     *)
(* against its row of devices.  A call is a request at the server; the     *)
(* app waits for one at a time, and one it has given up on runs on.  An    *)
(* action of a call is one database statement.  Tokens are numbered in the *)
(* order they are issued.  The company is ACTIVE; its status is in module  *)
(* Verification.                                                           *)
(***************************************************************************)
EXTENDS Naturals, FiniteSets

CONSTANTS
    Installs,     \* values of install_id; clearing the app's data makes a new one
    Calls,        \* requests the server can be busy with
    MaxDevices,   \* company_settings.max_devices
    MaxTokens,    \* bound: tokens ever issued
    MaxRequests,  \* bound: directives of a kind requested, all of one installation
    StatusesSet   \* bound: the statuses administrators give a device

NoCall == "NONE"

ASSUME LinkAssumption ==
    /\ MaxDevices \in Nat \ {0} /\ MaxTokens \in Nat /\ MaxRequests \in Nat
    /\ StatusesSet \subseteq {"ACTIVE", "BLOCKED", "RETIRED"} /\ NoCall \notin Calls

VARIABLES
    apps,         \* each installation: its stored token, the call it waits for
    devices,      \* the rows of devices
    calls,        \* requests at the server
    tokensIssued,
    unanswered,   \* history: the token-issuing calls an installation gave up on
    directives    \* history: per installation, how often requested and carried out

linkVars == <<apps, devices, calls, tokensIssued, unanswered, directives>>

-----------------------------------------------------------------------------
RowStatus == {"ACTIVE", "BLOCKED", "RETIRED"}
Token == 0 .. MaxTokens          \* 0: none
(* What administrators ask a phone for; message_for_user nobody sets.      *)
Flags == {"FORCE_SYNC", "ROTATE_TOKEN"}
NoDevice == [status |-> "ABSENT", hash |-> 0, prev |-> 0, grace |-> FALSE, flags |-> {}]
Device == [status : RowStatus \cup {"ABSENT"}, hash : Token, prev : Token,
           grace : BOOLEAN, flags : SUBSET Flags]

(* What the app does about a heartbeat's answer (Directives.kt).  Every    *)
(* answer names an interval, and reports a changed configuration, since    *)
(* the app always says it has version 0; none pauses uploads or names a    *)
(* minimum version.                                                        *)
DirectiveAction == {"RUN_MANUAL_SYNC", "ROTATE_TOKEN", "RELOAD_CONFIG", "RESCHEDULE_HEARTBEAT"}
ActionsFor(flags) ==
    {a \in DirectiveAction :
        /\ a = "RUN_MANUAL_SYNC" => "FORCE_SYNC" \in flags
        /\ a = "ROTATE_TOKEN" => "ROTATE_TOKEN" \in flags}

CallRecord ==
    [step : {"FREE"}]
    \cup [step : {"COUNTED", "KNOWN", "BEAT", "ROTATE"}, install : Installs]
    \cup [step : {"CLEAR"}, install : Installs, flags : SUBSET Flags]
    \cup [step : {"REPLACE"}, install : Installs, was : Token]
    \cup [step : {"ANSWER"}, install : Installs, op : {"BEAT"}, flags : SUBSET Flags]
    \cup [step : {"ANSWER"}, install : Installs, op : {"TOKEN"}, token : Token]
    \cup [step : {"REFUSED"}, install : Installs]

FreeCall == [step |-> "FREE"]
Busy(c) == calls[c].step # "FREE"
Awaited(c) == Busy(c) /\ apps[calls[c].install].waiting = c
Proceed(c, state) == calls' = [calls EXCEPT ![c] = state]

(* A call nobody waits for has no use for its answer.                      *)
Return(c, answer) == Proceed(c, IF Awaited(c) THEN answer ELSE FreeCall)
Refusal(c) == [step |-> "REFUSED", install |-> calls[c].install]

(* AudienceGuard.authDevice: the current token, or the previous one for    *)
(* 24 hours after a rotation.                                              *)
Accepts(row, token) ==
    /\ row.status # "ABSENT" /\ token # 0
    /\ token = row.hash \/ (row.grace /\ token = row.prev)

Admits(row, token) == Accepts(row, token) /\ row.status = "ACTIVE"

-----------------------------------------------------------------------------
LinkInit ==
    /\ apps = [i \in Installs |-> [token |-> 0, waiting |-> NoCall, todo |-> {}, wiped |-> FALSE]]
    /\ devices = [i \in Installs |-> NoDevice]
    /\ calls = [c \in Calls |-> FreeCall]
    /\ tokensIssued = 0
    /\ unanswered = [i \in Installs |-> {}]
    /\ directives = [i \in Installs |->
          [requested |-> [f \in Flags |-> 0], done |-> [f \in Flags |-> 0]]]

WaitsFor(i, c) == apps' = [apps EXCEPT ![i].waiting = c]
Rest(i) == apps' = [apps EXCEPT ![i].waiting = NoCall, ![i].todo = {}]
Idling(i) == apps[i].waiting = NoCall /\ ~apps[i].wiped

(* Enrolments counted and not yet written.                                 *)
Pending == {calls[c].install : c \in {c \in Calls : calls[c].step = "COUNTED"}}
Enrolled == {i \in Installs : devices[i].status \notin {"ABSENT", "RETIRED"}}

(* A bound: one installation is in use at a time, though the calls of one  *)
(* wiped or given up may still be at the server.                           *)
OthersIdle(i) ==
    \A x \in Installs \ {i} :
        apps[x].wiped \/ (apps[x].token = 0 /\ apps[x].waiting = NoCall)

(* POST /device/register up to its count, by an app without a token        *)
(* (OnboardingViewModel.enroll).  A row of its own that appears between    *)
(* the look-up and the count refuses the call as the clash below does.     *)
Enrol(i, c) ==
    /\ Idling(i) /\ apps[i].token = 0 /\ ~Busy(c)
    /\ OthersIdle(i)
    /\ LET row == devices[i]
       IN  /\ Proceed(c, [install |-> i,
                 step |-> CASE row.status \in {"RETIRED", "BLOCKED"} -> "REFUSED"
                            [] row.status = "ACTIVE" -> "KNOWN"
                            [] Cardinality(Enrolled) >= MaxDevices -> "REFUSED"
                            [] OTHER -> "COUNTED"])
    /\ WaitsFor(i, c)
    /\ UNCHANGED <<devices, tokensIssued, unanswered, directives>>

NewToken == tokensIssued + 1

(* The row is written: created, unless its install_id came in between, or  *)
(* given a new token.                                                      *)
EnrolWrite(c) ==
    /\ calls[c].step \in {"COUNTED", "KNOWN"} /\ tokensIssued < MaxTokens
    /\ LET i == calls[c].install
           clash == calls[c].step = "COUNTED" /\ devices[i].status # "ABSENT"
       IN  IF clash THEN Return(c, Refusal(c)) /\ UNCHANGED <<devices, tokensIssued>>
           ELSE /\ devices' = [devices EXCEPT ![i].hash = NewToken,
                                 ![i].status = IF @ = "ABSENT" THEN "ACTIVE" ELSE @]
                /\ tokensIssued' = NewToken
                /\ Return(c, [step |-> "ANSWER", install |-> i, op |-> "TOKEN",
                              token |-> NewToken])
    /\ UNCHANGED <<apps, unanswered, directives>>

-----------------------------------------------------------------------------
(* HeartbeatWorker runs when the app has a token.  The guard, the read of  *)
(* the row and the update that consumes the directives are statements of   *)
(* their own.                                                              *)
Beat(i, c) ==
    /\ Idling(i) /\ apps[i].token # 0 /\ ~Busy(c)
    /\ WaitsFor(i, c)
    /\ Proceed(c, [install |-> i,
                   step |-> IF Admits(devices[i], apps[i].token) THEN "BEAT" ELSE "REFUSED"])
    /\ UNCHANGED <<devices, tokensIssued, unanswered, directives>>

HeartbeatRead(c) ==
    /\ calls[c].step = "BEAT"
    /\ Proceed(c, [step |-> "CLEAR", install |-> calls[c].install,
                   flags |-> devices[calls[c].install].flags])
    /\ UNCHANGED <<apps, devices, tokensIssued, unanswered, directives>>

(* Mutant of HeartbeatClear: the directive is answered, not consumed.      *)
HeartbeatKeeps(c) ==
    /\ calls[c].step = "CLEAR"
    /\ Return(c, [step |-> "ANSWER", install |-> calls[c].install, op |-> "BEAT",
                  flags |-> calls[c].flags])
    /\ UNCHANGED <<apps, devices, tokensIssued, unanswered, directives>>

HeartbeatClear(c) ==
    /\ calls[c].step = "CLEAR"
    /\ devices' = [devices EXCEPT ![calls[c].install].flags = {}]
    /\ Return(c, [step |-> "ANSWER", install |-> calls[c].install, op |-> "BEAT",
                  flags |-> calls[c].flags])
    /\ UNCHANGED <<apps, tokensIssued, unanswered, directives>>

(* HeartbeatWorker.doWork after a send that succeeded; the new interval    *)
(* changes nothing here.                                                   *)
CarryOut(i, flag) == directives' = [directives EXCEPT ![i].done[flag] = @ + 1]
DoWork(i, actions) ==
    IF "RUN_MANUAL_SYNC" \in actions THEN CarryOut(i, "FORCE_SYNC") ELSE UNCHANGED directives

(* SendHeartbeat.send has its answer: a rotation is asked for in the same  *)
(* run, and the rest is left to the worker when that is over.              *)
HeartbeatAnswer(i, c) ==
    /\ apps[i].waiting = c /\ calls[c].step = "ANSWER" /\ calls[c].op = "BEAT"
    /\ LET actions == ActionsFor(calls[c].flags)
       IN  IF "ROTATE_TOKEN" \in actions
           THEN /\ CarryOut(i, "ROTATE_TOKEN")
                /\ apps' = [apps EXCEPT ![i].todo = actions]
                /\ Proceed(c, [install |-> i,
                      step |-> IF Admits(devices[i], apps[i].token) THEN "ROTATE" ELSE "REFUSED"])
           ELSE /\ DoWork(i, actions)
                /\ Proceed(c, FreeCall) /\ WaitsFor(i, NoCall)
    /\ UNCHANGED <<devices, tokensIssued, unanswered>>

(* rotateToken: read the row, then update it from what was read.           *)
RotateRead(c) ==
    /\ calls[c].step = "ROTATE"
    /\ Proceed(c, [step |-> "REPLACE", install |-> calls[c].install,
                   was |-> devices[calls[c].install].hash])
    /\ UNCHANGED <<apps, devices, tokensIssued, unanswered, directives>>

(* Mutant of RotateWrite: the replaced token is not kept.                  *)
RotateForgets(c) ==
    /\ calls[c].step = "REPLACE" /\ tokensIssued < MaxTokens
    /\ devices' = [devices EXCEPT ![calls[c].install].hash = NewToken,
                                  ![calls[c].install].grace = TRUE]
    /\ tokensIssued' = NewToken
    /\ Return(c, [step |-> "ANSWER", install |-> calls[c].install, op |-> "TOKEN",
                  token |-> NewToken])
    /\ UNCHANGED <<apps, unanswered, directives>>

RotateWrite(c) ==
    /\ calls[c].step = "REPLACE" /\ tokensIssued < MaxTokens
    /\ devices' = [devices EXCEPT ![calls[c].install].prev = calls[c].was,
                                  ![calls[c].install].hash = NewToken,
                                  ![calls[c].install].grace = TRUE]
    /\ tokensIssued' = NewToken
    /\ Return(c, [step |-> "ANSWER", install |-> calls[c].install, op |-> "TOKEN",
                  token |-> NewToken])
    /\ UNCHANGED <<apps, unanswered, directives>>

(* The app stores the token it was given.                                  *)
TokenAnswer(i, c) ==
    /\ apps[i].waiting = c /\ calls[c].step = "ANSWER" /\ calls[c].op = "TOKEN"
    /\ apps' = [apps EXCEPT ![i].token = calls[c].token, ![i].waiting = NoCall, ![i].todo = {}]
    /\ DoWork(i, apps[i].todo)
    /\ Proceed(c, FreeCall)
    /\ UNCHANGED <<devices, tokensIssued, unanswered>>

(* A refused rotation does not fail the heartbeat it belongs to.           *)
Refused(i, c) ==
    /\ apps[i].waiting = c /\ calls[c].step = "REFUSED"
    /\ Proceed(c, FreeCall) /\ Rest(i)
    /\ DoWork(i, apps[i].todo)
    /\ UNCHANGED <<devices, tokensIssued, unanswered>>

(* The request, or its answer, is lost or times out, and what is left of   *)
(* the heartbeat is done all the same; or the app is killed.               *)
Doubt(i, c) ==
    IF apps[i].token = 0 THEN {"ENROL"}
    ELSE IF calls[c].step \in {"ROTATE", "REPLACE"} \/ (calls[c].step = "ANSWER" /\ calls[c].op = "TOKEN")
    THEN {"ROTATE"} ELSE {}

GiveUp(i, c) ==
    /\ apps[i].waiting = c /\ Busy(c)
    /\ unanswered' = [unanswered EXCEPT ![i] = @ \cup Doubt(i, c)]
    /\ calls' = IF calls[c].step \in {"ANSWER", "REFUSED"}
                THEN [calls EXCEPT ![c] = FreeCall] ELSE calls
    /\ Rest(i)
    /\ DoWork(i, apps[i].todo) \/ UNCHANGED directives
    /\ UNCHANGED <<devices, tokensIssued>>

(* A request the app gave up on never reached the server, or died in it.   *)
Vanish(c) ==
    /\ Busy(c) /\ ~Awaited(c)
    /\ Proceed(c, FreeCall)
    /\ UNCHANGED <<apps, devices, tokensIssued, unanswered, directives>>

(* RevokeAndWipe.wipe cancels the work and clears the credentials, with    *)
(* the install_id: what is enrolled next is another installation.          *)
Wipe(i) ==
    /\ apps[i].token # 0 /\ ~apps[i].wiped
    /\ apps' = [apps EXCEPT ![i] = [token |-> 0, waiting |-> NoCall, todo |-> {}, wiped |-> TRUE]]
    /\ calls' = [c \in Calls |-> IF apps[i].waiting = c /\ calls[c].step \in {"ANSWER", "REFUSED"}
                                 THEN FreeCall ELSE calls[c]]
    /\ UNCHANGED <<devices, tokensIssued, unanswered, directives>>

(* Twenty-four hours pass since the rotation, which is longer than any app *)
(* waits for an answer.                                                    *)
GraceEnds(i) ==
    /\ devices[i].grace /\ apps[i].waiting = NoCall
    /\ devices' = [devices EXCEPT ![i].grace = FALSE]
    /\ UNCHANGED <<apps, calls, tokensIssued, unanswered, directives>>

(* DevicesAdminService.  Unblocking does not look at what the status was.  *)
SetDeviceRow(i, status) ==
    /\ devices[i].status \notin {"ABSENT", status}
    /\ devices' = [devices EXCEPT ![i].status = status]
    /\ UNCHANGED <<apps, calls, tokensIssued, unanswered, directives>>

(* The bound leaves one installation to be asked.                          *)
RequestDirective(i, flag) ==
    /\ devices[i].status # "ABSENT"
    /\ \A x \in Installs \ {i}, f \in Flags : directives[x].requested[f] = 0
    /\ directives[i].requested[flag] < MaxRequests
    /\ devices' = [devices EXCEPT ![i].flags = @ \cup {flag}]
    /\ directives' = [directives EXCEPT ![i].requested[flag] = @ + 1]
    /\ UNCHANGED <<apps, calls, tokensIssued, unanswered>>

ForceSync(i) == RequestDirective(i, "FORCE_SYNC")
RequestRotation(i) == RequestDirective(i, "ROTATE_TOKEN")

LinkNext ==
    \/ \E i \in Installs, c \in Calls :
          \/ Enrol(i, c) \/ Beat(i, c) \/ HeartbeatAnswer(i, c)
          \/ TokenAnswer(i, c) \/ Refused(i, c) \/ GiveUp(i, c)
    \/ \E c \in Calls :
          \/ EnrolWrite(c) \/ HeartbeatRead(c) \/ HeartbeatClear(c)
          \/ RotateRead(c) \/ RotateWrite(c) \/ Vanish(c)
    \/ \E i \in Installs : Wipe(i) \/ GraceEnds(i) \/ RequestRotation(i) \/ ForceSync(i)
    \/ \E i \in Installs, status \in StatusesSet : SetDeviceRow(i, status)

LinkSpec == LinkInit /\ [][LinkNext]_linkVars

-----------------------------------------------------------------------------
LinkTypeOK ==
    /\ apps \in [Installs -> [token : Token, waiting : Calls \cup {NoCall},
                           todo : SUBSET DirectiveAction, wiped : BOOLEAN]]
    /\ devices \in [Installs -> Device]
    /\ calls \in [Calls -> CallRecord]
    /\ tokensIssued \in Token
    /\ unanswered \in [Installs -> SUBSET {"ENROL", "ROTATE"}]
    /\ directives \in [Installs -> [requested : [Flags -> Nat], done : [Flags -> Nat]]]

(* A rotation never cuts a phone off: the guard accepts the token the app  *)
(* stores, whichever statements of heartbeats and rotations overlap, and   *)
(* for 24 hours also when the answer to its one rotation was lost          *)
(* (authDevice against rotateToken and SendHeartbeat).  Only an enrolment  *)
(* given up on and repeated, a second rotation after a lost one, or the    *)
(* end of the 24 hours can cut it off.                                     *)
LinkKept ==
    \A i \in Installs : apps[i].token # 0 =>
        \/ Accepts(devices[i], apps[i].token)
        \/ "ENROL" \in unanswered[i]
        \/ "ROTATE" \in unanswered[i] /\ (directives[i].done["ROTATE_TOKEN"] > 1 \/ ~devices[i].grace)

(* A directive is carried out at most once per request, whichever answers  *)
(* are lost or overtaken (heartbeat clears what it has read).              *)
DirectiveOnce ==
    \A i \in Installs, f \in Flags : directives[i].done[f] <= directives[i].requested[f]
=============================================================================
