------------------------------ MODULE AdminConsole -----------------------------
(***************************************************************************)
(* A tab of the admin interface and the page of one row: what the page     *)
(* shows comes from react-query's cache, what its buttons do goes to the   *)
(* server by requests of their own, and others change the row meanwhile.   *)
(* A behaviour is about one kind of page:                                  *)
(*   COMPANY  companies/[id]: a status, through a dialog to type into      *)
(*   DEVICE   devices/[id]: a button per verb                              *)
(*   REVIEW   reviews/[id]: link or dismiss, with a note                   *)
(*   SMS      transactions/sms/[id]: re-parse                              *)
(*   EVENT    webhooks/[id]: deliver again                                 *)
(*   FORM     companies/new: a form, then the credentials it created       *)
(***************************************************************************)
EXTENDS Naturals

CONSTANTS
    Presses,        \* requests of the page under way at once
    MaxChanges      \* bound: changes of the row

ASSUME ConsoleAssumption == MaxChanges \in Nat

VARIABLES
    pageKind,
    stored,     \* the row on the server, with a version every change counts up
    screen,     \* what the tab is at
    query,      \* the row's entry in the tab's query cache
    inputs,     \* what is open and typed on the page
    presses,    \* requests the page's buttons made
    handled     \* history: the version of the latest change of the page's own that
                \* it was told of

consoleVars == <<pageKind, stored, screen, query, inputs, presses, handled>>

-----------------------------------------------------------------------------
PageKinds == {"COMPANY", "DEVICE", "REVIEW", "SMS", "EVENT", "FORM"}
Screens == {"LOGIN", "CODE", "LIST", "PAGE"}

Statuses ==
    [COMPANY |-> {"ACTIVE", "SUSPENDED", "DISABLED"}, DEVICE |-> {"ACTIVE", "BLOCKED", "RETIRED"},
     REVIEW |-> {"OPEN", "RESOLVED", "DISMISSED"}, SMS |-> {"FREE", "LINKED"},
     EVENT |-> {"LISTED"}, FORM |-> {"LISTED"}]
AnyStatus == UNION {Statuses[k] : k \in PageKinds}
Commands == AnyStatus \cup {"force-sync", "rotate-token", "reparse", "retry", "create"}

Shown == [status : AnyStatus, version : 1 .. MaxChanges + 1] \cup {[version |-> 0]}
StoredRow == [status : AnyStatus, version : 1 .. MaxChanges + 1]
NoData == [version |-> 0]

Reload == [step : {"NONE", "SENT"}] \cup [step : {"READ"}, found : StoredRow]
NoReload == [step |-> "NONE"]
SentReload == [step |-> "SENT"]
QueryEntry == [shown : Shown, fresh : BOOLEAN, failed : BOOLEAN, reload : Reload]
NoEntry == [shown |-> NoData, fresh |-> FALSE, failed |-> FALSE, reload |-> NoReload]

Inputs == [dialog : Statuses.COMPANY \cup {"NONE"}, typed : BOOLEAN]
NoInputs == [dialog |-> "NONE", typed |-> FALSE]

Press ==
    [step : {"FREE"}]
    \cup [step : {"SENT", "ORPHAN"}, command : Commands]
    \cup [step : {"DONE"}, command : Commands, version : 1 .. MaxChanges + 1]
NoPress == [step |-> "FREE"]

ConsoleInit ==
    /\ pageKind \in PageKinds
    /\ stored \in [status : Statuses[pageKind], version : {1}]
    /\ screen = "LOGIN"
    /\ query = NoEntry
    /\ inputs = NoInputs
    /\ presses = [p \in Presses |-> NoPress]
    /\ handled = 0

Idle(p) == presses[p].step = "FREE"
Heeded(p) == presses[p].step \in {"SENT", "DONE"}
Loading == query.reload.step # "NONE"
ReadsRow == pageKind # "FORM"
Known == query.shown # NoData

-----------------------------------------------------------------------------
(* The query cache (react-query): a mount or a focus of the window asks    *)
(* for data that are stale, unless that is under way.                      *)
Asked(entry) ==
    IF ~ReadsRow \/ entry.fresh \/ entry.reload # NoReload THEN entry
    ELSE [entry EXCEPT !.reload = SentReload]

(* Mutant of Refetched: it joins any reload under way.                     *)
RefetchJoins(entry) ==
    IF entry.reload # NoReload THEN entry ELSE [entry EXCEPT !.reload = SentReload]

(* refetch() cancels a reload under way and asks again, once there are     *)
(* data; a first load it joins.                                            *)
Refetched(entry) ==
    IF entry.shown = NoData /\ entry.reload # NoReload THEN entry
    ELSE [entry EXCEPT !.reload = SentReload]

ReadRow ==
    /\ query.reload.step = "SENT"
    /\ query' = [query EXCEPT !.reload = [step |-> "READ", found |-> stored]]
    /\ UNCHANGED <<pageKind, stored, screen, inputs, presses, handled>>

ShowRow ==
    /\ query.reload.step = "READ"
    /\ query' = [shown |-> query.reload.found, fresh |-> TRUE, failed |-> FALSE, reload |-> NoReload]
    /\ UNCHANGED <<pageKind, stored, screen, inputs, presses, handled>>

(* retry: false.  The page keeps showing what it had, and does not say so. *)
ReloadFails ==
    /\ Loading
    /\ query' = [query EXCEPT !.reload = NoReload, !.failed = TRUE]
    /\ UNCHANGED <<pageKind, stored, screen, inputs, presses, handled>>

(* staleTime: fifteen seconds.                                             *)
GrowStale ==
    /\ query.fresh
    /\ query' = [query EXCEPT !.fresh = FALSE]
    /\ UNCHANGED <<pageKind, stored, screen, inputs, presses, handled>>

Focus ==
    /\ screen = "PAGE" /\ Asked(query) # query
    /\ query' = Asked(query)
    /\ UNCHANGED <<pageKind, stored, screen, inputs, presses, handled>>

(* An entry that no page shows for five minutes is dropped; no request of  *)
(* the tab lives that long.                                                *)
DropEntry ==
    /\ screen = "LIST" /\ query # NoEntry /\ ~Loading
    /\ \A p \in Presses : Idle(p)
    /\ query' = NoEntry
    /\ UNCHANGED <<pageKind, stored, screen, inputs, presses, handled>>

-----------------------------------------------------------------------------
(* A request whose answer nobody waits for any more.                       *)
Orphaned(press) ==
    IF press.step \in {"SENT", "ORPHAN"} THEN [press EXCEPT !.step = "ORPHAN"] ELSE NoPress
OrphanedIf(gone) == presses' = IF gone THEN [p \in Presses |-> Orphaned(presses[p])] ELSE presses

(* The handlers of useMutation and the state of the form go with the page; *)
(* an async function runs on and reloads or leaves all the same.           *)
OwnedByPage == pageKind \in {"COMPANY", "DEVICE", "FORM"}

(* The layout of the pages goes, with its QueryClient, and what an async   *)
(* function reloads in it nobody sees; one that leaves for the list does.  *)
ToLogin ==
    /\ screen' = "LOGIN"
    /\ query' = NoEntry
    /\ inputs' = NoInputs
    /\ handled' = 0
    /\ OrphanedIf(pageKind # "REVIEW")

(* login/page.tsx: the right password, then the code.                      *)
SubmitPassword ==
    /\ screen = "LOGIN"
    /\ screen' = "CODE"
    /\ UNCHANGED <<pageKind, stored, query, inputs, presses, handled>>

SubmitCode ==
    /\ screen = "CODE"
    /\ screen' = "LIST"
    /\ UNCHANGED <<pageKind, stored, query, inputs, presses, handled>>

(* A hard reload of the code's page has lost the challenge: its next       *)
(* submit goes back to the password.                                       *)
ChallengeLost ==
    /\ screen = "CODE"
    /\ screen' = "LOGIN"
    /\ UNCHANGED <<pageKind, stored, query, inputs, presses, handled>>

(* Sign out, here or everywhere, which a failure of the request does not   *)
(* prevent; thirty minutes without activity (Providers); or a 401 whose    *)
(* refresh is refused (apiRequest).  AdminSessions has what becomes of the *)
(* session itself.                                                         *)
GoToLogin ==
    /\ screen \in {"LIST", "PAGE"}
    /\ ToLogin
    /\ UNCHANGED <<pageKind, stored>>

(* Back to a page while the cookie names a session that lives: its first   *)
(* request has the token refreshed.                                        *)
Resume ==
    /\ screen = "LOGIN"
    /\ screen' = "LIST"
    /\ UNCHANGED <<pageKind, stored, query, inputs, presses, handled>>

(* The page as it is when the browser loads it: Providers recovers the     *)
(* session from the cookie, and whatever ran in the tab is gone.           *)
HardReload ==
    /\ screen = "PAGE"
    /\ query' = Asked(NoEntry)
    /\ inputs' = NoInputs
    /\ handled' = 0
    /\ OrphanedIf(TRUE)
    /\ UNCHANGED <<pageKind, stored, screen>>

OpenPage ==
    /\ screen = "LIST"
    /\ screen' = "PAGE"
    /\ query' = Asked(query)
    /\ inputs' = NoInputs
    /\ UNCHANGED <<pageKind, stored, presses, handled>>

(* What a page created is shown once.                                      *)
Left ==
    /\ screen' = "LIST"
    /\ inputs' = NoInputs
    /\ IF ReadsRow THEN UNCHANGED <<query, handled>> ELSE query' = NoEntry /\ handled' = 0

QuitPage ==
    /\ screen = "PAGE"
    /\ Left
    /\ OrphanedIf(OwnedByPage)
    /\ UNCHANGED <<pageKind, stored>>

-----------------------------------------------------------------------------
(* What the page offers, by the row as it shows it.                        *)
Offered ==
    CASE pageKind = "COMPANY" ->
            IF ~Known THEN {} ELSE
            IF query.shown.status = "ACTIVE" THEN {"SUSPENDED", "DISABLED"} ELSE {"ACTIVE", "DISABLED"}
      [] pageKind = "DEVICE" ->
            IF ~Known THEN {} ELSE
            {"force-sync", "rotate-token", "RETIRED",
             IF query.shown.status = "ACTIVE" THEN "BLOCKED" ELSE "ACTIVE"}
      [] pageKind = "REVIEW" ->
            IF Known /\ query.shown.status = "OPEN" THEN {"RESOLVED", "DISMISSED"} ELSE {}
      [] pageKind = "SMS" -> IF Known THEN {"reparse"} ELSE {}
      [] pageKind = "EVENT" -> {"retry"}
      [] pageKind = "FORM" -> IF Known THEN {} ELSE {"create"}

AskStatus(status) ==
    /\ screen = "PAGE" /\ pageKind = "COMPANY" /\ inputs.dialog = "NONE" /\ status \in Offered
    /\ inputs' = [inputs EXCEPT !.dialog = status]
    /\ UNCHANGED <<pageKind, stored, screen, query, presses, handled>>

CancelDialog ==
    /\ inputs.dialog # "NONE"
    /\ inputs' = [inputs EXCEPT !.dialog = "NONE"]
    /\ UNCHANGED <<pageKind, stored, screen, query, presses, handled>>

(* The company's code and a reason, a note, a name.  It stays typed while  *)
(* the page does: ConfirmDialog keeps its state when it closes.            *)
FillIn ==
    /\ screen = "PAGE" /\ ~inputs.typed
    /\ \/ inputs.dialog # "NONE"
       \/ pageKind \in {"REVIEW", "FORM"} /\ Offered # {}
    /\ inputs' = [inputs EXCEPT !.typed = TRUE]
    /\ UNCHANGED <<pageKind, stored, screen, query, presses, handled>>

Ask(command) == [step |-> "SENT", command |-> command]

(* useMutation: the callbacks of one call replace those of the call before.*)
Mutate(p, command) ==
    presses' = [x \in Presses |-> IF x = p THEN Ask(command) ELSE Orphaned(presses[x])]

Confirm(p) ==
    /\ inputs.dialog # "NONE" /\ inputs.typed /\ Idle(p)
    /\ Mutate(p, inputs.dialog)
    /\ inputs' = [inputs EXCEPT !.dialog = "NONE"]
    /\ UNCHANGED <<pageKind, stored, screen, query, handled>>

PressVerb(p, verb) ==
    /\ screen = "PAGE" /\ pageKind = "DEVICE" /\ verb \in Offered /\ Idle(p)
    /\ Mutate(p, verb)
    /\ UNCHANGED <<pageKind, stored, screen, query, inputs, handled>>

(* The page of a review wants a note, the form a name and one request at a *)
(* time (busy).                                                            *)
PressButton(p, command) ==
    /\ screen = "PAGE" /\ pageKind \in {"REVIEW", "SMS", "EVENT", "FORM"}
    /\ command \in Offered /\ Idle(p)
    /\ pageKind \in {"REVIEW", "FORM"} => inputs.typed
    /\ pageKind = "FORM" => \A x \in Presses : ~Heeded(x)
    /\ presses' = [presses EXCEPT ![p] = Ask(command)]
    /\ UNCHANGED <<pageKind, stored, screen, query, inputs, handled>>

-----------------------------------------------------------------------------
(* The server: company.setStatus and device.setStatus ask nothing of the   *)
(* status before; a review is resolved once, a linked SMS not parsed again.*)
Accepted ==
    /\ pageKind = "REVIEW" => stored.status = "OPEN"
    /\ pageKind = "SMS" => stored.status # "LINKED"

Changed(command) ==
    [status |-> IF command \in Statuses[pageKind] THEN command ELSE stored.status,
     version |-> stored.version + 1]

Serve(p) ==
    /\ presses[p].step \in {"SENT", "ORPHAN"}
    /\ Accepted /\ stored.version <= MaxChanges
    /\ stored' = Changed(presses[p].command)
    /\ presses' = [presses EXCEPT ![p] =
          IF @.step = "ORPHAN" THEN NoPress
          ELSE [step |-> "DONE", command |-> @.command, version |-> stored.version + 1]]
    /\ UNCHANGED <<pageKind, screen, query, inputs, handled>>

(* Another administrator, a phone, the matching engine.                    *)
OthersChange ==
    /\ stored.version <= MaxChanges
    /\ stored' \in [status : Statuses[pageKind], version : {stored.version + 1}]
    /\ UNCHANGED <<pageKind, screen, query, inputs, presses, handled>>

-----------------------------------------------------------------------------
Latest(version) == IF version > handled THEN version ELSE handled

(* A company's or a device's page reloads on the success of its latest     *)
(* request, an SMS's or an event's whatever became of it.                  *)
HearAndReload(p) ==
    /\ presses[p].step = "DONE" /\ pageKind \in {"COMPANY", "DEVICE", "SMS", "EVENT"}
    /\ query' = Refetched(query)
    /\ handled' = Latest(presses[p].version)
    /\ presses' = [presses EXCEPT ![p] = NoPress]
    /\ UNCHANGED <<pageKind, stored, screen, inputs>>

HearCredentials(p) ==
    /\ presses[p].step = "DONE" /\ pageKind = "FORM"
    /\ query' = [query EXCEPT !.shown = [status |-> "LISTED", version |-> presses[p].version]]
    /\ handled' = Latest(presses[p].version)
    /\ presses' = [presses EXCEPT ![p] = NoPress]
    /\ UNCHANGED <<pageKind, stored, screen, inputs>>

(* The page of a review goes to the queue, from wherever the tab is by     *)
(* then, and reloads nothing.                                              *)
HearResolved(p) ==
    /\ presses[p].step = "DONE" /\ pageKind = "REVIEW"
    /\ Left
    /\ presses' = [presses EXCEPT ![p] = NoPress]
    /\ UNCHANGED <<pageKind, stored>>

(* Refused, failed, or lost on its way there or back: a dismissal goes to  *)
(* the queue all the same, the other pages stay as they are or say so.     *)
Fail(p) ==
    /\ ~Idle(p)
    /\ presses' = [presses EXCEPT ![p] = NoPress]
    /\ CASE pageKind \in {"SMS", "EVENT"} /\ Heeded(p) ->
              query' = Refetched(query) /\ UNCHANGED <<screen, inputs, handled>>
         [] pageKind = "REVIEW" /\ Heeded(p) /\ presses[p].command = "DISMISSED" -> Left
         [] OTHER -> UNCHANGED <<screen, query, inputs, handled>>
    /\ UNCHANGED <<pageKind, stored>>

-----------------------------------------------------------------------------
ConsoleNext ==
    \/ SubmitPassword \/ SubmitCode \/ ChallengeLost \/ GoToLogin \/ Resume
    \/ HardReload \/ OpenPage \/ QuitPage
    \/ ReadRow \/ ShowRow \/ ReloadFails \/ GrowStale \/ Focus \/ DropEntry
    \/ \E status \in Statuses.COMPANY : AskStatus(status)
    \/ CancelDialog \/ FillIn \/ OthersChange
    \/ \E p \in Presses :
          \/ Confirm(p)
          \/ \E command \in Commands : PressVerb(p, command) \/ PressButton(p, command)
          \/ Serve(p) \/ HearAndReload(p) \/ HearCredentials(p) \/ HearResolved(p) \/ Fail(p)

ConsoleSpec == ConsoleInit /\ [][ConsoleNext]_consoleVars

-----------------------------------------------------------------------------
ConsoleTypeOK ==
    /\ pageKind \in PageKinds
    /\ stored \in StoredRow
    /\ screen \in Screens
    /\ query \in QueryEntry
    /\ inputs \in Inputs
    /\ presses \in [Presses -> Press]
    /\ handled \in 0 .. MaxChanges + 1

(* "Money screens should show server truth, not optimistic guesses" (task  *)
(* 11, 4.8): a page that was told that its own change was made never goes  *)
(* back to what the row was before it, unless a reload is under way or     *)
(* the last one failed.  (A review's page leaves without a reload, and the *)
(* deliveries of an event are not what a retry changes.)                   *)
ShowsItsActions ==
    screen = "PAGE" /\ pageKind \notin {"REVIEW", "EVENT"} /\ ~Loading /\ ~query.failed
        => query.shown.version >= handled
=============================================================================
