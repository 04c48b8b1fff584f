------------------------------- MODULE RuleCache -------------------------------
(***************************************************************************)
(* RuleRepository: each process caches the active parser rules and reads   *)
(* them again on a Redis message.  A rule set is named by the number of    *)
(* activations before it.  A refresh reads, and later assigns what it      *)
(* read; refreshes of one process are not ordered.                         *)
(***************************************************************************)
EXTENDS Naturals

CONSTANTS
    Processes,          \* API and worker processes
    MaxActivations      \* bound: rule activations

ASSUME RuleAssumption == MaxActivations \in Nat

VARIABLES
    activeRules,    \* parser_rules, as the number of activations
    caches,         \* what each process has cached, and how far it has booted
    fetches,        \* per process, results of reads that are not yet assigned
    inbound,        \* per process, messages of the channel not yet handled
    activator,      \* what the activating request of each process does next
    unsteady        \* history: processes that refreshed twice at once, or
                    \* missed a message

ruleVars == <<activeRules, caches, fetches, inbound, activator, unsteady>>

-----------------------------------------------------------------------------
RuleSet == 0 .. MaxActivations
Phase == {"DOWN", "BOOT", "SUBSCRIBE", "UP"}
Activator == [step : {"NONE", "COMMITTED", "PUBLISH"}] \cup [step : {"REFRESH"}, read : RuleSet]
Inactive == [step |-> "NONE"]
Activating(p, state) == activator' = [activator EXCEPT ![p] = state]

RulesInit ==
    /\ activeRules = 0
    /\ caches = [p \in Processes |-> [phase |-> "DOWN", rules |-> 0]]
    /\ fetches = [p \in Processes |-> {}]
    /\ inbound = [p \in Processes |-> FALSE]
    /\ activator = [p \in Processes |-> Inactive]
    /\ unsteady = {}

(* A refresh that begins while another of the process has not ended.       *)
Overlaps(p) == fetches[p] # {} \/ activator[p].step = "REFRESH"
Fetch(p) == fetches' = [fetches EXCEPT ![p] = @ \cup {activeRules}]

(* refresh ends: the cache is assigned what was read.                      *)
Assign(p, rules) ==
    /\ rules \in fetches[p]
    /\ fetches' = [fetches EXCEPT ![p] = @ \ {rules}]
    /\ caches' = [caches EXCEPT ![p].rules = rules,
                                ![p].phase = IF @ = "BOOT" THEN "SUBSCRIBE" ELSE @]
    /\ UNCHANGED <<activeRules, inbound, activator, unsteady>>

(* onModuleInit: refresh, then subscribe; a rule activated in between is   *)
(* missed.                                                                 *)
Boot(p) ==
    /\ caches[p].phase = "DOWN"
    /\ caches' = [caches EXCEPT ![p].phase = "BOOT"]
    /\ Fetch(p)
    /\ unsteady' = unsteady \ {p}
    /\ UNCHANGED <<activeRules, inbound, activator>>

Subscribe(p) ==
    /\ caches[p].phase = "SUBSCRIBE"
    /\ caches' = [caches EXCEPT ![p].phase = "UP"]
    /\ UNCHANGED <<activeRules, fetches, inbound, activator, unsteady>>

(* POST parser-rules/:id/activate commits; invalidate refreshes first.     *)
Activate(p) ==
    /\ caches[p].phase = "UP" /\ activator[p] = Inactive
    /\ activeRules < MaxActivations
    /\ activeRules' = activeRules + 1
    /\ Activating(p, [step |-> "COMMITTED"])
    /\ UNCHANGED <<caches, fetches, inbound, unsteady>>

RefreshOwn(p) ==
    /\ activator[p].step = "COMMITTED"
    /\ Activating(p, [step |-> "REFRESH", read |-> activeRules])
    /\ unsteady' = IF Overlaps(p) THEN unsteady \cup {p} ELSE unsteady
    /\ UNCHANGED <<activeRules, caches, fetches, inbound>>

AssignOwn(p) ==
    /\ activator[p].step = "REFRESH"
    /\ caches' = [caches EXCEPT ![p].rules = activator[p].read]
    /\ Activating(p, [step |-> "PUBLISH"])
    /\ UNCHANGED <<activeRules, fetches, inbound, unsteady>>

Subscribers == {p \in Processes : caches[p].phase = "UP"}

(* Mutant of Publish: only the own cache is invalidated.                   *)
PublishNothing(p) ==
    /\ activator[p].step = "PUBLISH"
    /\ Activating(p, Inactive)
    /\ UNCHANGED <<activeRules, caches, fetches, inbound, unsteady>>

(* Whoever has not subscribed, or has lost its connection, never hears it. *)
Publish(p) ==
    /\ activator[p].step = "PUBLISH"
    /\ Activating(p, Inactive)
    /\ \E lost \in SUBSET Subscribers :
          /\ inbound' = [x \in Processes |-> inbound[x] \/ x \in Subscribers \ lost]
          /\ unsteady' = unsteady \cup lost
                \cup {x \in Processes : caches[x].phase \in {"BOOT", "SUBSCRIBE"}}
    /\ UNCHANGED <<activeRules, caches, fetches>>

(* The subscriber's handler starts a refresh and does not wait for it.     *)
HandleMessage(p) ==
    /\ inbound[p]
    /\ inbound' = [inbound EXCEPT ![p] = FALSE]
    /\ Fetch(p)
    /\ unsteady' = IF Overlaps(p) THEN unsteady \cup {p} ELSE unsteady
    /\ UNCHANGED <<activeRules, caches, activator>>

(* The process dies.  If its activation was not published yet, nobody is   *)
(* told of it.                                                             *)
ProcessDies(p) ==
    /\ caches[p].phase # "DOWN"
    /\ caches' = [caches EXCEPT ![p].phase = "DOWN"]
    /\ fetches' = [fetches EXCEPT ![p] = {}]
    /\ inbound' = [inbound EXCEPT ![p] = FALSE]
    /\ Activating(p, Inactive)
    /\ unsteady' = IF activator[p] = Inactive THEN unsteady ELSE Processes
    /\ UNCHANGED activeRules

RulesNext ==
    \E p \in Processes :
        \/ Boot(p) \/ Subscribe(p) \/ Activate(p) \/ RefreshOwn(p) \/ AssignOwn(p)
        \/ Publish(p) \/ HandleMessage(p) \/ ProcessDies(p)
        \/ \E rules \in RuleSet : Assign(p, rules)

RulesSpec == RulesInit /\ [][RulesNext]_ruleVars

-----------------------------------------------------------------------------
RulesTypeOK ==
    /\ activeRules \in RuleSet
    /\ caches \in [Processes -> [phase : Phase, rules : RuleSet]]
    /\ fetches \in [Processes -> SUBSET RuleSet]
    /\ inbound \in [Processes -> BOOLEAN]
    /\ activator \in [Processes -> Activator]
    /\ unsteady \subseteq Processes

(* Once nothing is under way every process parses with the active rules,   *)
(* whichever process activated them, unless two refreshes of the process   *)
(* overlapped and the older read was assigned last, or it missed a message *)
(* (invalidate, "tell the other processes to refresh too").                *)
Settled(p) == caches[p].phase = "UP" /\ fetches[p] = {} /\ ~inbound[p]
CacheCurrent ==
    (\A p \in Processes : activator[p] = Inactive) =>
        \A p \in Processes \ unsteady : Settled(p) => caches[p].rules = activeRules
=============================================================================
