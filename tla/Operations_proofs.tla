-------------------------- MODULE Operations_proofs ---------------------------
(***************************************************************************)
(* Proofs about the parser-rule caches, for any number of processes and    *)
(* activations, about the grouped offline alerts, for any number of        *)
(* companies and any dedupe window, about the dashboard's cache, for any   *)
(* viewers, requests and contents of the tables, and about the pages of    *)
(* the admin interface, for any number of requests and changes.            *)
(***************************************************************************)
EXTENDS RuleCache, Alerts, Analytics, AdminConsole, SequenceTheorems, TLAPS

-----------------------------------------------------------------------------
LEMMA RulesInitTyped == RulesInit => RulesTypeOK
<1>1. 0 \in RuleSet
  BY RuleAssumption DEF RuleSet
<1> QED
  BY <1>1 DEF RulesInit, RulesTypeOK, Phase, Activator, Inactive

LEMMA RecordReplaced ==
    ASSUME NEW Ph, NEW Ru, NEW cache \in [phase : Ph, rules : Ru], NEW phase, NEW rules
    PROVE  [[cache EXCEPT !.rules = rules] EXCEPT !.phase = phase] = [phase |-> phase, rules |-> rules]
<1> DEFINE once == [cache EXCEPT !.rules = rules]
<1>1. once = [phase |-> cache.phase, rules |-> rules]
  OBVIOUS
<1>2. [once EXCEPT !.phase = phase] = [phase |-> phase, rules |-> rules]
  <2> HIDE DEF once
  <2> QED
    BY <1>1
<1> QED
  BY <1>2

LEMMA RulesStepTyped == RulesTypeOK /\ [RulesNext]_ruleVars => RulesTypeOK'
<1> SUFFICES ASSUME RulesTypeOK, [RulesNext]_ruleVars
             PROVE  RulesTypeOK'
  OBVIOUS
<1>0. ASSUME NEW p \in Processes, NEW phase \in Phase
      PROVE  [caches[p] EXCEPT !.phase = phase] \in [phase : Phase, rules : RuleSet]
  BY DEF RulesTypeOK
<1>1. ASSUME NEW p \in Processes, NEW rules \in RuleSet, Assign(p, rules)
      PROVE  RulesTypeOK'
  <2> DEFINE cache == [phase |-> IF caches[p].phase = "BOOT" THEN "SUBSCRIBE" ELSE caches[p].phase,
                       rules |-> rules]
  <2>1. caches' = [caches EXCEPT ![p] = cache]
    <3> DEFINE phase == IF caches[p].phase = "BOOT" THEN "SUBSCRIBE" ELSE caches[p].phase
    <3>1. caches' = [caches EXCEPT ![p] = [[caches[p] EXCEPT !.rules = rules] EXCEPT !.phase = phase]]
      <4> DEFINE once == [caches EXCEPT ![p].rules = rules]
      <4>1. once = [caches EXCEPT ![p] = [caches[p] EXCEPT !.rules = rules]]
        BY DEF RulesTypeOK
      <4>2. once[p] = [caches[p] EXCEPT !.rules = rules] /\ once[p].phase = caches[p].phase
        BY <4>1 DEF RulesTypeOK
      <4>3. caches' = [once EXCEPT ![p].phase = phase]
        BY <1>1, <4>2 DEF Assign
      <4> HIDE DEF once, phase
      <4>4. caches' = [once EXCEPT ![p] = [once[p] EXCEPT !.phase = phase]]
        BY <4>3
      <4> QED
        BY <4>1, <4>2, <4>4 DEF RulesTypeOK
    <3>2. cache = [phase |-> phase, rules |-> rules]
      OBVIOUS
    <3>3. caches[p] \in [phase : Phase, rules : RuleSet]
      BY DEF RulesTypeOK
    <3> DEFINE nested == [[caches[p] EXCEPT !.rules = rules] EXCEPT !.phase = phase]
    <3>4. nested = cache
      <4> HIDE DEF phase, cache
      <4> QED
        BY <3>2, <3>3, RecordReplaced, Zenon
    <3>5. caches' = [caches EXCEPT ![p] = nested]
      BY <3>1
    <3> HIDE DEF cache, nested
    <3> QED
      BY <3>4, <3>5
  <2>2. cache \in [phase : Phase, rules : RuleSet]
    BY DEF RulesTypeOK, Phase
  <2> HIDE DEF cache
  <2>3. caches' \in [Processes -> [phase : Phase, rules : RuleSet]]
    BY <2>1, <2>2 DEF RulesTypeOK
  <2>4. fetches' \in [Processes -> SUBSET RuleSet]
    BY <1>1 DEF Assign, RulesTypeOK
  <2> QED
    BY <1>1, <2>3, <2>4 DEF Assign, RulesTypeOK
<1>2. ASSUME NEW p \in Processes, Boot(p)
      PROVE  RulesTypeOK'
  <2>1. caches' = [caches EXCEPT ![p] = [caches[p] EXCEPT !.phase = "BOOT"]]
    BY <1>2 DEF Boot, RulesTypeOK
  <2>2. caches' \in [Processes -> [phase : Phase, rules : RuleSet]]
    BY <1>0, <2>1 DEF RulesTypeOK, Phase
  <2>3. fetches' \in [Processes -> SUBSET RuleSet]
    BY <1>2 DEF Boot, Fetch, RulesTypeOK
  <2> QED
    BY <1>2, <2>2, <2>3 DEF Boot, RulesTypeOK
<1>3. ASSUME NEW p \in Processes, Subscribe(p)
      PROVE  RulesTypeOK'
  <2>1. caches' = [caches EXCEPT ![p] = [caches[p] EXCEPT !.phase = "UP"]]
    BY <1>3 DEF Subscribe, RulesTypeOK
  <2>2. caches' \in [Processes -> [phase : Phase, rules : RuleSet]]
    BY <1>0, <2>1 DEF RulesTypeOK, Phase
  <2> QED
    BY <1>3, <2>2 DEF Subscribe, RulesTypeOK
<1>4. ASSUME NEW p \in Processes, Activate(p)
      PROVE  RulesTypeOK'
  <2>1. activeRules' \in RuleSet
    BY <1>4, RuleAssumption DEF Activate, RulesTypeOK, RuleSet
  <2>2. [step |-> "COMMITTED"] \in Activator
    BY DEF Activator
  <2> QED
    BY <1>4, <2>1, <2>2 DEF Activate, Activating, RulesTypeOK
<1>5. ASSUME NEW p \in Processes, RefreshOwn(p)
      PROVE  RulesTypeOK'
  <2>1. [step |-> "REFRESH", read |-> activeRules] \in Activator
    BY DEF Activator, RulesTypeOK
  <2>2. activator' \in [Processes -> Activator]
    BY <1>5, <2>1 DEF RefreshOwn, Activating, RulesTypeOK
  <2> QED
    BY <1>5, <2>2 DEF RefreshOwn, RulesTypeOK
<1>6. ASSUME NEW p \in Processes, AssignOwn(p)
      PROVE  RulesTypeOK'
  <2>1. activator[p].read \in RuleSet
    BY <1>6 DEF AssignOwn, Activator, RulesTypeOK
  <2>2. caches' = [caches EXCEPT ![p] = [caches[p] EXCEPT !.rules = activator[p].read]]
    BY <1>6 DEF AssignOwn, RulesTypeOK
  <2>3. [caches[p] EXCEPT !.rules = activator[p].read] \in [phase : Phase, rules : RuleSet]
    BY <2>1 DEF RulesTypeOK
  <2>4. caches' \in [Processes -> [phase : Phase, rules : RuleSet]]
    BY <2>2, <2>3 DEF RulesTypeOK
  <2>5. [step |-> "PUBLISH"] \in Activator
    BY DEF Activator
  <2>6. activator' \in [Processes -> Activator]
    BY <1>6, <2>5 DEF AssignOwn, Activating, RulesTypeOK
  <2> QED
    BY <1>6, <2>4, <2>6 DEF AssignOwn, RulesTypeOK
<1>7. ASSUME NEW p \in Processes, Publish(p)
      PROVE  RulesTypeOK'
  <2>1. Inactive \in Activator
    BY DEF Inactive, Activator
  <2>2. inbound' \in [Processes -> BOOLEAN]
    BY <1>7, Zenon DEF Publish
  <2>3. unsteady' \subseteq Processes
    BY <1>7 DEF Publish, Subscribers, RulesTypeOK
  <2> QED
    BY <1>7, <2>1, <2>2, <2>3 DEF Publish, Activating, RulesTypeOK
<1>8. ASSUME NEW p \in Processes, HandleMessage(p)
      PROVE  RulesTypeOK'
  <2>1. fetches' \in [Processes -> SUBSET RuleSet]
    BY <1>8 DEF HandleMessage, Fetch, RulesTypeOK
  <2> QED
    BY <1>8, <2>1 DEF HandleMessage, RulesTypeOK
<1>9. ASSUME NEW p \in Processes, ProcessDies(p)
      PROVE  RulesTypeOK'
  <2>1. caches' = [caches EXCEPT ![p] = [caches[p] EXCEPT !.phase = "DOWN"]]
    BY <1>9 DEF ProcessDies, RulesTypeOK
  <2>2. caches' \in [Processes -> [phase : Phase, rules : RuleSet]]
    BY <1>0, <2>1 DEF RulesTypeOK, Phase
  <2>3. Inactive \in Activator
    BY DEF Inactive, Activator
  <2> QED
    BY <1>9, <2>2, <2>3 DEF ProcessDies, Activating, RulesTypeOK
<1>10. CASE UNCHANGED ruleVars
  BY <1>10 DEF ruleVars, RulesTypeOK
<1> QED
  BY <1>1, <1>2, <1>3, <1>4, <1>5, <1>6, <1>7, <1>8, <1>9, <1>10 DEF RulesNext

(* While no activation is under way: the cache of a process that is steady *)
(* is the active rules, or the process still has a message to handle, or   *)
(* its one refresh has read the active rules.                              *)
Quiet == \A p \in Processes : activator[p] = Inactive

UpToNews(p) ==
    /\ caches[p].phase = "BOOT" => fetches[p] = {activeRules}
    /\ caches[p].phase = "SUBSCRIBE" => fetches[p] = {} /\ caches[p].rules = activeRules
    /\ caches[p].phase = "UP" =>
          \/ inbound[p]
          \/ fetches[p] = {} /\ caches[p].rules = activeRules
          \/ fetches[p] = {activeRules}

SteadyCaches ==
    /\ \A p \in Processes : caches[p].phase = "DOWN" => fetches[p] = {}
    /\ \A p \in Processes : caches[p].phase # "UP" => ~inbound[p]
    /\ Quiet => \A p \in Processes \ unsteady : UpToNews(p)

LEMMA SteadyStep ==
    ASSUME RulesTypeOK, SteadyCaches, [RulesNext]_ruleVars
    PROVE  SteadyCaches'
<1> USE DEF RulesTypeOK
<1>1. ASSUME NEW p \in Processes, NEW rules \in RuleSet, Assign(p, rules)
      PROVE  SteadyCaches'
  <2>1. /\ rules \in fetches[p] /\ fetches' = [fetches EXCEPT ![p] = @ \ {rules}]
        /\ \A x \in Processes \ {p} : caches'[x] = caches[x]
        /\ caches'[p].rules = rules
        /\ caches'[p].phase = IF caches[p].phase = "BOOT" THEN "SUBSCRIBE" ELSE caches[p].phase
        /\ UNCHANGED <<activeRules, inbound, activator, unsteady>>
    BY <1>1 DEF Assign
  <2>2. Quiet' = Quiet
    BY <2>1 DEF Quiet
  <2>3. Quiet => \A x \in Processes \ unsteady : UpToNews(x)'
    BY <2>1 DEF SteadyCaches, UpToNews
  <2>4. \A x \in Processes : caches'[x].phase = "DOWN" => fetches'[x] = {}
    BY <2>1 DEF SteadyCaches
  <2>5. \A x \in Processes : caches'[x].phase # "UP" => ~inbound'[x]
    BY <2>1 DEF SteadyCaches
  <2> QED
    BY <2>1, <2>2, <2>3, <2>4, <2>5 DEF SteadyCaches
<1>2. ASSUME NEW p \in Processes, Boot(p)
      PROVE  SteadyCaches'
  <2>1. /\ fetches' = [fetches EXCEPT ![p] = {activeRules}]
        /\ \A x \in Processes \ {p} : caches'[x] = caches[x]
        /\ caches'[p].phase = "BOOT"
        /\ unsteady' = unsteady \ {p}
        /\ UNCHANGED <<activeRules, inbound, activator>>
        /\ caches[p].phase = "DOWN"
    BY <1>2 DEF Boot, Fetch, SteadyCaches
  <2> QED
    BY <2>1 DEF SteadyCaches, UpToNews, Quiet
<1>3. ASSUME NEW p \in Processes, Subscribe(p)
      PROVE  SteadyCaches'
  <2>1. /\ \A x \in Processes \ {p} : caches'[x] = caches[x]
        /\ caches'[p].phase = "UP" /\ caches'[p].rules = caches[p].rules
        /\ UNCHANGED <<activeRules, fetches, inbound, activator, unsteady>>
        /\ caches[p].phase = "SUBSCRIBE"
    BY <1>3 DEF Subscribe
  <2> QED
    BY <2>1 DEF SteadyCaches, UpToNews, Quiet
<1>4. ASSUME NEW p \in Processes, Activate(p)
      PROVE  SteadyCaches'
  <2>1. ~Quiet'
    BY <1>4 DEF Activate, Activating, Quiet, Inactive
  <2> QED
    BY <1>4, <2>1 DEF Activate, SteadyCaches
<1>5. ASSUME NEW p \in Processes, RefreshOwn(p)
      PROVE  SteadyCaches'
  <2>1. ~Quiet'
    BY <1>5 DEF RefreshOwn, Activating, Quiet, Inactive
  <2> QED
    BY <1>5, <2>1 DEF RefreshOwn, SteadyCaches
<1>6. ASSUME NEW p \in Processes, AssignOwn(p)
      PROVE  SteadyCaches'
  <2>1. ~Quiet'
    BY <1>6 DEF AssignOwn, Activating, Quiet, Inactive
  <2>2. \A x \in Processes : caches'[x].phase = caches[x].phase
    BY <1>6 DEF AssignOwn
  <2> QED
    BY <1>6, <2>1, <2>2 DEF AssignOwn, SteadyCaches
<1>7. ASSUME NEW p \in Processes, Publish(p)
      PROVE  SteadyCaches'
  <2>1. PICK lost \in SUBSET Subscribers :
           /\ inbound' = [x \in Processes |-> inbound[x] \/ x \in Subscribers \ lost]
           /\ unsteady' = unsteady \cup lost
                 \cup {x \in Processes : caches[x].phase \in {"BOOT", "SUBSCRIBE"}}
    BY <1>7 DEF Publish
  <2>2. UNCHANGED <<activeRules, caches, fetches>>
    BY <1>7 DEF Publish
  <2>3. ASSUME NEW x \in Processes \ unsteady'
        PROVE  UpToNews(x)'
    <3>1. x \notin lost /\ caches[x].phase \notin {"BOOT", "SUBSCRIBE"}
      BY <2>1, <2>3
    <3>2. CASE caches[x].phase = "UP"
      <4>1. inbound'[x]
        BY <2>1, <3>1, <3>2 DEF Subscribers
      <4> QED
        BY <2>2, <3>2, <4>1 DEF UpToNews
    <3>3. CASE caches[x].phase = "DOWN"
      BY <2>2, <3>3 DEF UpToNews
    <3> QED
      BY <3>1, <3>2, <3>3 DEF Phase
  <2>4. \A x \in Processes : caches[x].phase # "UP" => ~inbound'[x]
    BY <2>1 DEF SteadyCaches, Subscribers
  <2> QED
    BY <2>2, <2>3, <2>4 DEF SteadyCaches
<1>8. ASSUME NEW p \in Processes, HandleMessage(p)
      PROVE  SteadyCaches'
  <2>1. /\ inbound[p] /\ inbound' = [inbound EXCEPT ![p] = FALSE]
        /\ fetches' = [fetches EXCEPT ![p] = @ \cup {activeRules}]
        /\ unsteady' = IF Overlaps(p) THEN unsteady \cup {p} ELSE unsteady
        /\ UNCHANGED <<activeRules, caches, activator>>
    BY <1>8 DEF HandleMessage, Fetch
  <2>2. caches[p].phase = "UP"
    BY <2>1 DEF SteadyCaches
  <2>3. p \notin unsteady' => fetches'[p] = {activeRules}
    BY <2>1 DEF Overlaps
  <2>4. ASSUME Quiet, NEW x \in Processes \ unsteady'
        PROVE  UpToNews(x)'
    <3>1. CASE x = p
      BY <2>1, <2>2, <2>3, <2>4, <3>1 DEF UpToNews
    <3>2. CASE x # p
      BY <2>1, <2>4, <3>2 DEF SteadyCaches, UpToNews
    <3> QED
      BY <3>1, <3>2
  <2>5. Quiet' = Quiet
    BY <2>1 DEF Quiet
  <2> QED
    BY <2>1, <2>2, <2>4, <2>5 DEF SteadyCaches
<1>9. ASSUME NEW p \in Processes, ProcessDies(p)
      PROVE  SteadyCaches'
  <2>1. /\ \A x \in Processes \ {p} : caches'[x] = caches[x]
        /\ caches'[p].phase = "DOWN"
        /\ fetches' = [fetches EXCEPT ![p] = {}] /\ inbound' = [inbound EXCEPT ![p] = FALSE]
        /\ activator' = [activator EXCEPT ![p] = Inactive]
        /\ unsteady' = IF activator[p] = Inactive THEN unsteady ELSE Processes
        /\ UNCHANGED activeRules
    BY <1>9 DEF ProcessDies, Activating
  <2>2. CASE activator[p] = Inactive
    <3>1. Quiet' => Quiet
      BY <2>1, <2>2 DEF Quiet
    <3>2. Quiet => \A x \in Processes \ unsteady : UpToNews(x)'
      BY <2>1 DEF SteadyCaches, UpToNews
    <3> QED
      BY <2>1, <2>2, <3>1, <3>2 DEF SteadyCaches
  <2>3. CASE activator[p] # Inactive
    BY <2>1, <2>3 DEF SteadyCaches
  <2> QED
    BY <2>2, <2>3
<1>10. CASE UNCHANGED ruleVars
  BY <1>10 DEF ruleVars, SteadyCaches, UpToNews, Quiet
<1> QED
  BY <1>1, <1>2, <1>3, <1>4, <1>5, <1>6, <1>7, <1>8, <1>9, <1>10 DEF RulesNext

(* CacheCurrent: once nothing is under way, a steady process parses with   *)
(* the active rules.                                                       *)
THEOREM CachesCurrent == RulesSpec => []CacheCurrent
<1>1. RulesInit => SteadyCaches
  BY DEF RulesInit, SteadyCaches, UpToNews
<1>2. SteadyCaches => CacheCurrent
  BY DEF SteadyCaches, UpToNews, Quiet, CacheCurrent, Settled
<1> QED
  BY <1>1, <1>2, RulesInitTyped, RulesStepTyped, SteadyStep, PTL DEF RulesSpec

-----------------------------------------------------------------------------
LEMMA AlertsInitTyped == AlertsInit => AlertsTypeOK
BY AlertAssumption DEF AlertsInit, AlertsTypeOK, Age

LEMMA AlertsStepTyped == AlertsTypeOK /\ [AlertsNext]_alertVars => AlertsTypeOK'
<1> SUFFICES ASSUME AlertsTypeOK, [AlertsNext]_alertVars
             PROVE  AlertsTypeOK'
  OBVIOUS
<1> USE AlertAssumption DEF AlertsTypeOK, Age
<1>1. CASE AlertClock
  <2>1. \A c \in Companies : (IF offline[c] \in 1 .. DedupeWindow THEN offline[c] + 1
                              ELSE offline[c]) \in 0 .. DedupeWindow + 1
    OBVIOUS
  <2>2. \A age \in Age : Older(age) \in Age
    BY DEF Older
  <2> QED
    BY <1>1, <2>1, <2>2 DEF AlertClock
<1>2. CASE WorkerRestarts
  BY <1>2 DEF WorkerRestarts
<1>3. ASSUME NEW c \in Companies, PhoneGoesOffline(c) \/ PhoneComesBack(c)
      PROVE  AlertsTypeOK'
  BY <1>3 DEF PhoneGoesOffline, PhoneComesBack
<1>4. ASSUME NEW c \in Companies, HealthTick(c)
      PROVE  AlertsTypeOK'
  BY <1>4 DEF HealthTick, Fire, Group
<1>5. CASE UNCHANGED alertVars
  BY <1>5 DEF alertVars
<1> QED
  BY <1>1, <1>2, <1>3, <1>4, <1>5 DEF AlertsNext

(* A phone that was offline when an alert was sent has been mentioned      *)
(* since.                                                                  *)
Mentioned ==
    \A first, c \in Companies :
        lastSent[first] < DedupeWindow /\ offline[c] > lastSent[first] + 1
            => mentioned[c] <= lastSent[first]

LEMMA MentionedStep ==
    ASSUME AlertsTypeOK, Mentioned, [AlertsNext]_alertVars
    PROVE  Mentioned'
<1> SUFFICES ASSUME NEW first \in Companies, NEW c \in Companies,
                    lastSent'[first] < DedupeWindow, offline'[c] > lastSent'[first] + 1
             PROVE  mentioned'[c] <= lastSent'[first]
  BY DEF Mentioned
<1> USE AlertAssumption DEF AlertsTypeOK, Age
<1>0. /\ offline[c] \in Nat /\ lastSent[first] \in Nat /\ mentioned[c] \in Nat
      /\ lastSent[first] < DedupeWindow /\ offline[c] > lastSent[first] + 1
            => mentioned[c] <= lastSent[first]
      /\ DedupeWindow \in Nat \ {0}
  BY DEF Mentioned
<1>1. CASE AlertClock
  <2>1. /\ offline'[c] = IF offline[c] \in 1 .. DedupeWindow THEN offline[c] + 1 ELSE offline[c]
        /\ lastSent'[first] = Older(lastSent[first]) /\ mentioned'[c] = Older(mentioned[c])
    BY <1>1 DEF AlertClock
  <2>2. lastSent[first] < DedupeWindow /\ lastSent'[first] = lastSent[first] + 1
    BY <1>0, <2>1 DEF Older
  <2>3. offline[c] > lastSent[first] + 1
    BY <1>0, <2>1, <2>2
  <2>4. mentioned'[c] <= mentioned[c] + 1 /\ mentioned'[c] \in Nat
    BY <1>0, <2>1 DEF Older
  <2> QED
    BY <1>0, <2>2, <2>3, <2>4
<1>2. CASE WorkerRestarts
  BY <1>0, <1>2 DEF WorkerRestarts
<1>3. ASSUME NEW x \in Companies, PhoneGoesOffline(x) \/ PhoneComesBack(x)
      PROVE  mentioned'[c] <= lastSent'[first]
  <2>1. UNCHANGED <<lastSent, mentioned>>
    BY <1>3 DEF PhoneGoesOffline, PhoneComesBack
  <2>2. offline'[c] \in {0, 1, offline[c]}
    BY <1>3 DEF PhoneGoesOffline, PhoneComesBack
  <2> QED
    BY <1>0, <2>1, <2>2
<1>4. ASSUME NEW x \in Companies, HealthTick(x)
      PROVE  mentioned'[c] <= lastSent'[first]
  <2>1. CASE lastSent[x] < DedupeWindow
    BY <1>0, <1>4, <2>1 DEF HealthTick, Fire, Group
  <2>2. CASE ~(lastSent[x] < DedupeWindow)
    <3>1. /\ lastSent' = [lastSent EXCEPT ![x] = 0] /\ offline' = offline
          /\ mentioned' = [y \in Companies |-> IF y \in Offline THEN 0 ELSE mentioned[y]]
      BY <1>4, <2>2 DEF HealthTick, Fire, Group
    <3>2. c \in Offline
      <4>1. offline[c] > 0
        BY <1>0, <3>1
      <4> QED
        BY <4>1 DEF Offline
    <3>3. mentioned'[c] = 0 /\ lastSent'[first] \in Nat
      BY <3>1, <3>2
    <3> QED
      BY <3>3
  <2> QED
    BY <2>1, <2>2
<1>5. CASE UNCHANGED alertVars
  BY <1>0, <1>5 DEF alertVars
<1> QED
  BY <1>1, <1>2, <1>3, <1>4, <1>5 DEF AlertsNext

LEMMA TickMentions ==
    ASSUME AlertsTypeOK, Mentioned, NEW first \in Companies, HealthTick(first),
           NEW c \in Companies, offline[c] > DedupeWindow
    PROVE  mentioned'[c] < DedupeWindow
<1> USE AlertAssumption DEF AlertsTypeOK, Age
<1>1. CASE lastSent[first] < DedupeWindow
  <2>1. mentioned[c] <= lastSent[first]
    BY <1>1 DEF Mentioned
  <2> QED
    BY <1>1, <2>1 DEF HealthTick, Fire, Group
<1>2. CASE ~(lastSent[first] < DedupeWindow)
  <2>1. mentioned' = [y \in Companies |-> IF y \in Offline THEN 0 ELSE mentioned[y]]
    BY <1>2 DEF HealthTick, Fire, Group
  <2>2. c \in Offline
    <3>1. offline[c] > 0
      OBVIOUS
    <3> QED
      BY <3>1 DEF Offline
  <2>3. mentioned'[c] = 0
    BY <2>1, <2>2
  <2> QED
    BY <2>3
<1> QED
  BY <1>1, <1>2

(* NobodyForgotten: a tick leaves no phone that has been offline for the   *)
(* dedupe window without a message within it.                              *)
THEOREM NobodyIsForgotten == AlertsSpec => NobodyForgotten
<1>1. AlertsInit => Mentioned
  <2> SUFFICES ASSUME AlertsInit
               PROVE  Mentioned
    OBVIOUS
  <2> QED
    BY AlertAssumption DEF AlertsInit, Mentioned
<1>2. AlertsTypeOK /\ Mentioned /\ [AlertsNext]_alertVars =>
        [\A first \in Companies : HealthTick(first) =>
            \A c \in Companies : offline[c] > DedupeWindow => mentioned'[c] < DedupeWindow]_alertVars
  BY TickMentions
<1> QED
  BY <1>1, <1>2, AlertsInitTyped, AlertsStepTyped, MentionedStep, PTL
     DEF AlertsSpec, NobodyForgotten

-----------------------------------------------------------------------------
(* The dashboard's cache                                                   *)

(* Figure f is the k-th of request q, of one content of the tables and one *)
(* moment between two ticks.                                               *)
FigureOf(q, k, f, from, to) ==
    \E t, begun \in from .. to :
        f = Report(q, Since(q.range, begun), Contents[past[t]])[k]

ViewSound(v) ==
    /\ v.begun \in 1 .. Now /\ Now <= v.begun + Slowest
    /\ \E S : v.figures \in Seq(S)
    /\ v.step = "READ" =>
          /\ v.from = Since(v.request.range, v.begun)
          /\ \A k \in DOMAIN v.figures : FigureOf(v.request, k, v.figures[k], v.begun, Now)
    /\ v.step = "STORE" =>
          /\ v.asOf \in v.begun .. Now
          /\ \A k \in DOMAIN v.figures : FigureOf(v.request, k, v.figures[k], v.begun, v.asOf)

(* An entry is as old as the computation that made it, and serves every    *)
(* request of its key alike.                                               *)
EntrySound(key, e) ==
    /\ e.asOf \in 1 .. Now /\ e.until \in Nat /\ e.until <= e.asOf + Slowest + CacheTTL
    /\ \E begun \in 1 .. e.asOf :
          /\ e.asOf <= begun + Slowest
          /\ \A q \in dashboard : Key(q) = key =>
                \A k \in DOMAIN e.figures : FigureOf(q, k, e.figures[k], begun, e.asOf)

CacheInv ==
    /\ dashboard \in Dashboards
    /\ \E S : past \in Seq(S)
    /\ Now >= 1
    /\ DOMAIN figuresKept = {Key(q) : q \in dashboard}
    /\ \A key \in DOMAIN figuresKept :
          figuresKept[key].until # 0 => EntrySound(key, figuresKept[key])
    /\ DOMAIN views = Viewers
    /\ \A c \in Viewers : views[c] # NoView =>
          /\ views[c].step \in {"READ", "STORE"}
          /\ views[c].request \in dashboard
          /\ ViewSound(views[c])
    /\ AnswersAreRecent

(* Requests of one key ask for one report.                                 *)
LEMMA SameKeySameReport ==
    ASSUME NEW d \in Dashboards, NEW q \in d, NEW r \in d, Key(q) = Key(r), NEW begun, NEW db
    PROVE  Report(q, Since(q.range, begun), db) = Report(r, Since(r.range, begun), db)
<1>0. q \in AskedOf({q.company}) /\ r \in AskedOf({r.company})
  BY DashboardsAssumption
<1>1. q.report \in Reports /\ r.report \in Reports
  BY <1>0 DEF AskedOf, Reports
<1>2. q.report = r.report
  BY <1>1 DEF Key, Reports
<1>3. q.report # "parser-health" => q.range = r.range
  BY <1>2 DEF Key
<1>4. q.report = "daily" => q.company = r.company
  BY <1>2 DEF Key
<1> QED
  BY <1>1, <1>2, <1>3, <1>4 DEF Report, Reports

(* A tick, or a step that is none, leaves what was computed as it was.     *)
Onward ==
    /\ Now \in Nat /\ Now' \in Nat /\ Now' >= Now
    /\ \A t \in 1 .. Now : past'[t] = past[t]
    /\ UNCHANGED dashboard

LEMMA FigureStays ==
    ASSUME Onward, NEW q, NEW k, NEW f, NEW from \in 1 .. Now, NEW to \in 0 .. Now,
           FigureOf(q, k, f, from, to)
    PROVE  FigureOf(q, k, f, from, to)'
<1>1. PICK t \in from .. to, begun \in from .. to :
         f = Report(q, Since(q.range, begun), Contents[past[t]])[k]
  BY DEF FigureOf
<1>2. past'[t] = past[t]
  BY DEF Onward
<1>3. f = Report(q, Since(q.range, begun), Contents[past'[t]])[k]
  BY <1>1, <1>2
<1> QED
  BY <1>3 DEF FigureOf

LEMMA ViewStays ==
    ASSUME Onward, NEW v, ViewSound(v), Now' <= v.begun + Slowest
    PROVE  ViewSound(v)'
<1>1. v.begun \in 1 .. Now
  BY DEF ViewSound
<1>2. ASSUME v.step = "READ", NEW k \in DOMAIN v.figures
      PROVE  FigureOf(v.request, k, v.figures[k], v.begun, Now)'
  <2>1. FigureOf(v.request, k, v.figures[k], v.begun, Now)
    BY <1>2 DEF ViewSound
  <2>2. PICK to \in 0 .. Now : to = Now
    BY DEF Onward
  <2>3. FigureOf(v.request, k, v.figures[k], v.begun, to)'
    BY <1>1, <2>1, <2>2, FigureStays
  <2> QED
    BY <1>1, <2>2, <2>3 DEF FigureOf, Onward
<1>3. ASSUME v.step = "STORE"
      PROVE  /\ v.asOf \in v.begun .. Now
             /\ \A k \in DOMAIN v.figures : FigureOf(v.request, k, v.figures[k], v.begun, v.asOf)'
  BY <1>1, <1>3, FigureStays DEF ViewSound, Onward
<1> QED
  BY <1>1, <1>2, <1>3 DEF ViewSound, Onward

LEMMA EntryStays ==
    ASSUME Onward, NEW key, NEW e, EntrySound(key, e)
    PROVE  EntrySound(key, e)'
<1>1. PICK begun \in 1 .. e.asOf :
        /\ e.asOf <= begun + Slowest
        /\ \A q \in dashboard : Key(q) = key =>
              \A k \in DOMAIN e.figures : FigureOf(q, k, e.figures[k], begun, e.asOf)
  BY DEF EntrySound
<1>2. \A q \in dashboard : Key(q) = key =>
              \A k \in DOMAIN e.figures : FigureOf(q, k, e.figures[k], begun, e.asOf)'
  BY <1>1, FigureStays DEF EntrySound, Onward
<1> QED
  BY <1>1, <1>2 DEF EntrySound, Onward

(* What a request is answered with is recent, if it was computed so.       *)
LEMMA AnswerRecent ==
    ASSUME CacheInv, NEW q, NEW figures, NEW asOf \in 1 .. Now, NEW begun \in 1 .. asOf,
           asOf <= begun + Slowest, Now - asOf < CacheTTL + Slowest,
           \A k \in DOMAIN figures : FigureOf(q, k, figures[k], begun, asOf),
           Answer(q, figures, asOf), UNCHANGED past
    PROVE  AnswersAreRecent'
<1> DEFINE computed == {t \in 1 .. asOf : t >= asOf - Slowest}
<1>1. begun .. asOf \subseteq computed
  BY AnalyticsAssumption DEF CacheInv
<1>2. \A k \in DOMAIN figures : \E t, b \in computed :
         figures[k] = Report(q, Since(q.range, b), Contents[past[t]])[k]
  BY <1>1 DEF FigureOf
<1>3. /\ answered'.request = q /\ answered'.figures = figures /\ answered'.asOf = asOf
      /\ answered'.at = Now
  BY DEF Answer
<1> HIDE DEF computed
<1>4. answered'.at - answered'.asOf < CacheTTL + Slowest
  BY <1>3
<1>5. \A k \in DOMAIN answered'.figures : \E t, b \in computed :
         answered'.figures[k] = Report(answered'.request, Since(answered'.request.range, b), Contents[past'[t]])[k]
  BY <1>2, <1>3
<1> QED
  BY <1>3, <1>4, <1>5 DEF AnswersAreRecent, computed

LEMMA SilentIsRecent ==
    ASSUME answered' = Silent PROVE AnswersAreRecent'
BY DEF AnswersAreRecent, Silent

LEMMA CacheStep ==
    ASSUME CacheInv, [AnalyticsNext]_analyticsVars
    PROVE  CacheInv'
<1> USE AnalyticsAssumption
<1>0. PICK S : past \in Seq(S)
  BY DEF CacheInv
<1>1. Now \in Nat /\ Now >= 1
  BY <1>0 DEF CacheInv, Now
<1>2. ASSUME UNCHANGED past, UNCHANGED dashboard
      PROVE  /\ Onward /\ Now' = Now
             /\ \A v : ViewSound(v) => ViewSound(v)'
             /\ \A key, e : EntrySound(key, e) => EntrySound(key, e)'
  <2>1. Now' = Now
    BY <1>2 DEF Now
  <2>2. Onward
    BY <1>1, <1>2, <2>1 DEF Onward
  <2>3. \A v : ViewSound(v) => Now' <= v.begun + Slowest
    BY <2>1 DEF ViewSound
  <2> QED
    BY <2>1, <2>2, <2>3, ViewStays, EntryStays
<1>3. ASSUME UNCHANGED <<past, dashboard>>, AnswersAreRecent',
             DOMAIN figuresKept' = DOMAIN figuresKept, DOMAIN views' = Viewers,
             \A key \in DOMAIN figuresKept :
                \/ figuresKept'[key] = figuresKept[key]
                \/ \E e : figuresKept'[key] = e /\ EntrySound(key, e),
             \A c \in Viewers :
                \/ views'[c] = views[c] \/ views'[c] = NoView
                \/ \E v : /\ views'[c] = v /\ ViewSound(v)
                          /\ v.step \in {"READ", "STORE"} /\ v.request \in dashboard
      PROVE  CacheInv'
  <2>1. ASSUME NEW c \in Viewers, views'[c] # NoView
        PROVE  /\ views'[c].step \in {"READ", "STORE"}
               /\ views'[c].request \in dashboard
               /\ ViewSound(views[c])'
    <3>1. PICK v : views'[c] = v
      OBVIOUS
    <3>2. ViewSound(v) /\ v.step \in {"READ", "STORE"} /\ v.request \in dashboard
      BY <1>3, <2>1, <3>1 DEF CacheInv
    <3>3. ViewSound(v)'
      BY <1>2, <1>3, <3>2
    <3> QED
      BY <3>1, <3>2, <3>3 DEF ViewSound, FigureOf
  <2>2. ASSUME NEW key \in DOMAIN figuresKept', figuresKept'[key].until # 0
        PROVE  EntrySound(key, figuresKept[key])'
    <3>1. PICK e : figuresKept'[key] = e
      OBVIOUS
    <3>2. EntrySound(key, e)
      BY <1>3, <2>2, <3>1 DEF CacheInv
    <3>3. EntrySound(key, e)'
      BY <1>2, <1>3, <3>2
    <3>4. PICK begun \in 1 .. e.asOf :
            /\ e.asOf <= begun + Slowest
            /\ \A q \in dashboard' : Key(q) = key =>
                  \A k \in DOMAIN e.figures : FigureOf(q, k, e.figures[k], begun, e.asOf)'
      BY <3>3 DEF EntrySound
    <3>5. /\ e.asOf \in 1 .. Now' /\ e.until \in Nat /\ e.until <= e.asOf + Slowest + CacheTTL
      BY <3>3 DEF EntrySound
    <3>6. /\ figuresKept'[key].asOf = e.asOf /\ figuresKept'[key].until = e.until
          /\ figuresKept'[key].figures = e.figures
      BY <3>1
    <3> QED
      BY <3>4, <3>5, <3>6 DEF EntrySound, FigureOf
  <2> QED
    BY <1>2, <1>3, <2>1, <2>2 DEF CacheInv
<1>4. ASSUME NEW c \in Viewers, NEW q \in dashboard, CacheHit(c, q)
      PROVE  CacheInv'
  <2>1. PICK e : e = figuresKept[Key(q)]
    OBVIOUS
  <2>2. Now < e.until /\ Answer(q, e.figures, e.asOf) /\ UNCHANGED <<dashboard, past, figuresKept, views>>
    BY <1>4, <2>1 DEF CacheHit, Fresh
  <2>3. EntrySound(Key(q), e)
    BY <1>1, <2>1, <2>2 DEF CacheInv
  <2>4. PICK begun \in 1 .. e.asOf :
          /\ e.asOf <= begun + Slowest
          /\ \A k \in DOMAIN e.figures : FigureOf(q, k, e.figures[k], begun, e.asOf)
    BY <2>3 DEF EntrySound
  <2>5. e.asOf \in 1 .. Now /\ Now - e.asOf < CacheTTL + Slowest
    BY <1>1, <2>2, <2>3 DEF EntrySound
  <2>6. AnswersAreRecent'
    BY <2>2, <2>4, <2>5, AnswerRecent
  <2> QED
    BY <1>3, <2>2, <2>6 DEF CacheInv
<1>5. ASSUME NEW c \in Viewers, NEW q \in dashboard, CacheMiss(c, q)
      PROVE  CacheInv'
  <2> DEFINE v == [step |-> "READ", request |-> q, from |-> Since(q.range, Now), begun |-> Now,
                   figures |-> <<>>]
  <2>1. /\ views' = [views EXCEPT ![c] = v] /\ UNCHANGED <<dashboard, past, figuresKept>>
        /\ answered' = Silent
    BY <1>5 DEF CacheMiss
  <2>2. <<>> \in Seq({}) /\ DOMAIN <<>> = {}
    OBVIOUS
  <2>3. ViewSound(v) /\ v.step \in {"READ", "STORE"} /\ v.request \in dashboard
    BY <1>1, <2>2 DEF ViewSound
  <2> HIDE DEF v
  <2> QED
    BY <1>3, <2>1, <2>3, SilentIsRecent DEF CacheInv
<1>6. ASSUME NEW c \in Viewers, RunStatement(c)
      PROVE  CacheInv'
  <2>1. PICK v : v = views[c]
    OBVIOUS
  <2>2. /\ v.step = "READ" /\ v.request \in dashboard /\ ViewSound(v)
    BY <1>6, <2>1 DEF CacheInv, RunStatement, NoView
  <2> DEFINE all == Report(v.request, v.from, Contents[past[Now]])
             k == Len(v.figures) + 1
             figures == Append(v.figures, all[k])
             w == IF k < Len(all) THEN [v EXCEPT !.figures = figures]
                  ELSE [step |-> "STORE", request |-> v.request, begun |-> v.begun,
                        figures |-> figures, asOf |-> Now]
  <2>3. /\ views' = [views EXCEPT ![c] = w] /\ UNCHANGED <<dashboard, past, figuresKept>>
        /\ answered' = Silent
    BY <1>6, <2>1 DEF RunStatement
  <2>4. /\ v.begun \in 1 .. Now /\ Now <= v.begun + Slowest /\ v.from = Since(v.request.range, v.begun)
        /\ \A j \in DOMAIN v.figures : FigureOf(v.request, j, v.figures[j], v.begun, Now)
    BY <2>2 DEF ViewSound
  <2>5. PICK F : v.figures \in Seq(F)
    BY <2>2 DEF ViewSound
  <2>6. /\ figures \in Seq(F \cup {all[k]}) /\ DOMAIN figures = 1 .. k /\ k \in Nat \ {0}
        /\ figures[k] = all[k] /\ \A j \in 1 .. k - 1 : figures[j] = v.figures[j]
        /\ DOMAIN v.figures = 1 .. k - 1
    <3> HIDE DEF all
    <3>1. v.figures \in Seq(F \cup {all[k]}) /\ all[k] \in F \cup {all[k]}
      BY <2>5
    <3> QED
      BY <3>1, AppendProperties
  <2>7. FigureOf(v.request, k, all[k], v.begun, Now)
    BY <1>1, <2>4 DEF FigureOf
  <2> HIDE DEF k, all, figures
  <2>8. \A j \in DOMAIN figures : FigureOf(v.request, j, figures[j], v.begun, Now)
    BY <2>4, <2>6, <2>7
  <2>9. /\ w.begun = v.begun /\ w.figures = figures /\ w.request = v.request
        /\ \/ w.step = "READ" /\ w.from = v.from
           \/ w.step = "STORE" /\ w.asOf = Now
    BY <2>2
  <2>10. ViewSound(w) /\ w.step \in {"READ", "STORE"} /\ w.request \in dashboard
    BY <1>1, <2>2, <2>4, <2>6, <2>8, <2>9 DEF ViewSound
  <2> HIDE DEF w
  <2> QED
    BY <1>3, <2>3, <2>10, SilentIsRecent DEF CacheInv
<1>7. ASSUME NEW c \in Viewers, StoreFigures(c)
      PROVE  CacheInv'
  <2>1. PICK v : v = views[c]
    OBVIOUS
  <2>2. /\ v.step = "STORE" /\ v.request \in dashboard /\ ViewSound(v)
    BY <1>7, <2>1 DEF CacheInv, StoreFigures, NoView
  <2> DEFINE e == [figures |-> v.figures, asOf |-> v.asOf, until |-> Now + CacheTTL]
  <2>3. /\ \/ figuresKept' = [figuresKept EXCEPT ![Key(v.request)] = e]
           \/ figuresKept' = figuresKept
        /\ Answer(v.request, v.figures, v.asOf)
        /\ views' = [views EXCEPT ![c] = NoView]
        /\ UNCHANGED <<dashboard, past>>
    BY <1>7, <2>1 DEF StoreFigures
  <2>4. /\ v.begun \in 1 .. Now /\ Now <= v.begun + Slowest /\ v.asOf \in v.begun .. Now
        /\ \A k \in DOMAIN v.figures : FigureOf(v.request, k, v.figures[k], v.begun, v.asOf)
    BY <2>2 DEF ViewSound
  <2>5. AnswersAreRecent'
    BY <1>1, <2>3, <2>4, AnswerRecent
  <2>6. ASSUME NEW q \in dashboard, Key(q) = Key(v.request), NEW k \in DOMAIN v.figures
        PROVE  FigureOf(q, k, v.figures[k], v.begun, v.asOf)
    <3>1. PICK t \in v.begun .. v.asOf, begun \in v.begun .. v.asOf :
             v.figures[k] = Report(v.request, Since(v.request.range, begun), Contents[past[t]])[k]
      BY <2>4 DEF FigureOf
    <3>2. PICK d \in Dashboards : d = dashboard
      BY DEF CacheInv
    <3>3. Report(q, Since(q.range, begun), Contents[past[t]])
            = Report(v.request, Since(v.request.range, begun), Contents[past[t]])
      <4>1. PICK db : db = Contents[past[t]]
        OBVIOUS
      <4> QED
        BY <2>2, <2>6, <3>2, <4>1, SameKeySameReport
    <3> QED
      BY <3>1, <3>3 DEF FigureOf
  <2>7. EntrySound(Key(v.request), e)
    BY <1>1, <2>4, <2>6 DEF EntrySound
  <2> HIDE DEF e
  <2> QED
    BY <1>3, <2>3, <2>5, <2>7 DEF CacheInv
<1>8. ASSUME NEW c \in Viewers, ViewFails(c)
      PROVE  CacheInv'
  BY <1>3, <1>8, SilentIsRecent DEF ViewFails, CacheInv
<1>9. ASSUME NEW i \in DOMAIN Contents, Commit(i)
      PROVE  CacheInv'
  <2>1. /\ past' = Append(past, i) /\ UNCHANGED <<dashboard, figuresKept, views>> /\ answered' = Silent
        /\ \A c \in Viewers : views[c] # NoView => Now < views[c].begun + Slowest
    BY <1>9 DEF Commit, Viewing
  <2>2. /\ past' \in Seq(S \cup {i}) /\ Now' = Now + 1
        /\ \A t \in 1 .. Now : past'[t] = past[t]
    <3>1. past \in Seq(S \cup {i}) /\ i \in S \cup {i}
      BY <1>0
    <3> QED
      BY <2>1, <3>1, AppendProperties DEF Now
  <2>3. Onward
    <3>1. Now' \in Nat /\ Now' >= Now
      BY <1>1, <2>2
    <3>2. UNCHANGED dashboard
      BY <2>1
    <3>3. \A t \in 1 .. Now : past'[t] = past[t]
      BY <2>2
    <3> QED
      BY <1>1, <3>1, <3>2, <3>3 DEF Onward
  <2>4. ASSUME NEW c \in Viewers, views'[c] # NoView
        PROVE  /\ views'[c].step \in {"READ", "STORE"}
               /\ views'[c].request \in dashboard
               /\ ViewSound(views[c])'
    <3>1. PICK v : views'[c] = v
      OBVIOUS
    <3>2. /\ ViewSound(v) /\ v.step \in {"READ", "STORE"} /\ v.request \in dashboard
          /\ Now < v.begun + Slowest
      BY <2>1, <2>4, <3>1 DEF CacheInv
    <3>3. v.begun \in 1 .. Now
      BY <3>2 DEF ViewSound
    <3>4. ViewSound(v)'
      BY <1>1, <2>2, <2>3, <3>2, <3>3, ViewStays
    <3> QED
      BY <3>1, <3>2, <3>4 DEF ViewSound, FigureOf
  <2>5. ASSUME NEW key \in DOMAIN figuresKept', figuresKept'[key].until # 0
        PROVE  EntrySound(key, figuresKept[key])'
    <3>1. PICK e : figuresKept'[key] = e
      OBVIOUS
    <3>2. EntrySound(key, e)
      BY <2>1, <2>5, <3>1 DEF CacheInv
    <3>3. EntrySound(key, e)'
      BY <2>3, <3>2, EntryStays
    <3>4. PICK begun \in 1 .. e.asOf :
            /\ e.asOf <= begun + Slowest
            /\ \A q \in dashboard' : Key(q) = key =>
                  \A k \in DOMAIN e.figures : FigureOf(q, k, e.figures[k], begun, e.asOf)'
      BY <3>3 DEF EntrySound
    <3>5. /\ e.asOf \in 1 .. Now' /\ e.until \in Nat /\ e.until <= e.asOf + Slowest + CacheTTL
      BY <3>3 DEF EntrySound
    <3>6. /\ figuresKept'[key].asOf = e.asOf /\ figuresKept'[key].until = e.until
          /\ figuresKept'[key].figures = e.figures
      BY <3>1
    <3> QED
      BY <3>4, <3>5, <3>6 DEF EntrySound, FigureOf
  <2> QED
    BY <1>1, <2>1, <2>2, <2>4, <2>5, SilentIsRecent DEF CacheInv
<1>10. CASE UNCHANGED analyticsVars
  <2>1. AnswersAreRecent'
    BY <1>10 DEF analyticsVars, CacheInv, AnswersAreRecent
  <2> QED
    BY <1>3, <1>10, <2>1 DEF analyticsVars, CacheInv
<1> QED
  BY <1>4, <1>5, <1>6, <1>7, <1>8, <1>9, <1>10 DEF AnalyticsNext

LEMMA CacheInductive == AnalyticsSpec => []CacheInv
<1>1. AnalyticsInit => CacheInv
  <2> SUFFICES ASSUME AnalyticsInit PROVE CacheInv
    OBVIOUS
  <2>1. past \in Seq({1}) /\ Now = 1
    BY DEF AnalyticsInit, Now
  <2>2. AnswersAreRecent
    BY DEF AnalyticsInit, AnswersAreRecent, Silent
  <2> QED
    BY <2>1, <2>2 DEF AnalyticsInit, CacheInv
<1>2. CacheInv /\ [AnalyticsNext]_analyticsVars => CacheInv'
  BY CacheStep
<1> QED
  BY <1>1, <1>2, PTL DEF AnalyticsSpec

(* Whoever asks for figures is answered what was asked, each figure as it  *)
(* stood during one computation no older than the TTL, for any number of   *)
(* viewers, any commits in between, and whatever the cache loses.          *)
THEOREM FiguresAreRecent == AnalyticsSpec => []AnswersAreRecent
<1>1. CacheInv => AnswersAreRecent
  BY DEF CacheInv
<1> QED
  BY <1>1, CacheInductive, PTL

(* AnalyticsTypeOK; the requests' part of it is CacheInv's.                *)
LEMMA AnalyticsTyped == AnalyticsSpec => []AnalyticsTypeOK
<1> DEFINE PastTyped == past \in Seq(DOMAIN Contents) /\ Now \in 1 .. LastTick
<1>1. AnalyticsInit => PastTyped
  <2> SUFFICES ASSUME AnalyticsInit PROVE PastTyped
    OBVIOUS
  <2>1. past = <<1>> /\ 1 \in DOMAIN Contents
    BY AnalyticsAssumption DEF AnalyticsInit
  <2> QED
    BY <2>1, AnalyticsAssumption DEF Now
<1>2. PastTyped /\ [AnalyticsNext]_analyticsVars => PastTyped'
  <2> SUFFICES ASSUME PastTyped, [AnalyticsNext]_analyticsVars PROVE PastTyped'
    OBVIOUS
  <2>1. ASSUME NEW i \in DOMAIN Contents, Commit(i)
        PROVE  PastTyped'
    <3>1. past' = Append(past, i) /\ Len(past) < LastTick
      BY <2>1 DEF Commit, Now
    <3>2. past' \in Seq(DOMAIN Contents) /\ Len(past') = Len(past) + 1 /\ Len(past) \in Nat
      BY <3>1
    <3> QED
      BY <3>1, <3>2, AnalyticsAssumption DEF Now
  <2>2. CASE UNCHANGED past
    BY <2>2 DEF Now
  <2> QED
    BY <2>1, <2>2 DEF AnalyticsNext, analyticsVars, CacheHit, CacheMiss, RunStatement,
                      StoreFigures, ViewFails
<1>3. CacheInv /\ PastTyped => AnalyticsTypeOK
  BY DEF CacheInv, AnalyticsTypeOK, NoView
<1> QED
  BY <1>1, <1>2, <1>3, CacheInductive, PTL DEF AnalyticsSpec

-----------------------------------------------------------------------------
(* The pages of the admin interface.                                      *)
LEMMA EntriesTyped ==
    /\ NoEntry \in QueryEntry
    /\ NoInputs \in Inputs
    /\ \A entry \in QueryEntry : Asked(entry) \in QueryEntry /\ Refetched(entry) \in QueryEntry
<1>1. NoData \in Shown /\ NoReload \in Reload /\ SentReload \in Reload
  BY DEF NoData, Shown, NoReload, SentReload, Reload
<1>2. NoEntry \in QueryEntry
  BY <1>1 DEF NoEntry, QueryEntry
<1>3. ASSUME NEW entry \in QueryEntry
      PROVE  Asked(entry) \in QueryEntry /\ Refetched(entry) \in QueryEntry
  BY <1>1 DEF Asked, Refetched, QueryEntry
<1> QED
  BY <1>2, <1>3 DEF NoInputs, Inputs

LEMMA PressesTyped ==
    ASSUME presses \in [Presses -> Press]
    PROVE  /\ [p \in Presses |-> Orphaned(presses[p])] \in [Presses -> Press]
           /\ \A p \in Presses : [presses EXCEPT ![p] = NoPress] \in [Presses -> Press]
           /\ \A p \in Presses, command \in Commands :
                 /\ Ask(command) \in Press
                 /\ [presses EXCEPT ![p] = Ask(command)] \in [Presses -> Press]
                 /\ [x \in Presses |-> IF x = p THEN Ask(command) ELSE Orphaned(presses[x])]
                       \in [Presses -> Press]
<1>1. NoPress \in Press
  BY DEF NoPress, Press
<1>2. \A command \in Commands : Ask(command) \in Press
  BY DEF Ask, Press
<1>3. \A press \in Press : Orphaned(press) \in Press
  <2> SUFFICES ASSUME NEW press \in Press PROVE Orphaned(press) \in Press
    OBVIOUS
  <2>1. CASE press.step \in {"SENT", "ORPHAN"}
    <3>1. press \in [step : {"SENT", "ORPHAN"}, command : Commands]
      BY <2>1 DEF Press
    <3> QED
      BY <2>1, <3>1 DEF Orphaned, Press
  <2>2. CASE press.step \notin {"SENT", "ORPHAN"}
    BY <1>1, <2>2 DEF Orphaned
  <2> QED
    BY <2>1, <2>2
<1> QED
  BY <1>1, <1>2, <1>3

LEMMA ConsoleStepTyped == ConsoleTypeOK /\ [ConsoleNext]_consoleVars => ConsoleTypeOK'
<1> SUFFICES ASSUME ConsoleTypeOK, [ConsoleNext]_consoleVars PROVE ConsoleTypeOK'
  OBVIOUS
<1>1. /\ pageKind \in PageKinds /\ stored \in StoredRow /\ screen \in Screens
      /\ query \in QueryEntry /\ inputs \in Inputs /\ presses \in [Presses -> Press]
      /\ handled \in 0 .. MaxChanges + 1
  BY DEF ConsoleTypeOK
<1>2. MaxChanges \in Nat
  BY ConsoleAssumption
<1>3. pageKind' = pageKind
  BY DEF ConsoleNext, consoleVars, SubmitPassword, SubmitCode, ChallengeLost, GoToLogin, Resume,
         HardReload, OpenPage, QuitPage, ReadRow, ShowRow, ReloadFails, GrowStale, Focus, DropEntry,
         AskStatus, CancelDialog, FillIn, OthersChange, Confirm, PressVerb, PressButton, Serve,
         HearAndReload, HearCredentials, HearResolved, Fail
<1>4. screen' \in Screens
  BY <1>1 DEF ConsoleNext, consoleVars, SubmitPassword, SubmitCode, ChallengeLost, GoToLogin, Resume,
         HardReload, OpenPage, QuitPage, ReadRow, ShowRow, ReloadFails, GrowStale, Focus, DropEntry,
         AskStatus, CancelDialog, FillIn, OthersChange, Confirm, PressVerb, PressButton, Serve,
         HearAndReload, HearCredentials, HearResolved, Fail, ToLogin, Left, Screens
<1>5. stored' \in StoredRow
  <2>1. stored' = stored \/ OthersChange \/ \E p \in Presses : Serve(p)
    BY DEF ConsoleNext, consoleVars, SubmitPassword, SubmitCode, ChallengeLost, GoToLogin, Resume,
         HardReload, OpenPage, QuitPage, ReadRow, ShowRow, ReloadFails, GrowStale, Focus, DropEntry,
         AskStatus, CancelDialog, FillIn, Confirm, PressVerb, PressButton,
         HearAndReload, HearCredentials, HearResolved, Fail
  <2>2. stored.version + 1 \in 1 .. MaxChanges + 1 \/ ~(stored.version <= MaxChanges)
    BY <1>1, <1>2 DEF StoredRow
  <2>3. Statuses[pageKind] \subseteq AnyStatus
    BY <1>1 DEF AnyStatus
  <2>4. CASE OthersChange
    BY <2>2, <2>3, <2>4 DEF OthersChange, StoredRow
  <2>5. ASSUME NEW p \in Presses, Serve(p) PROVE stored' \in StoredRow
    BY <1>1, <2>2, <2>3, <2>5 DEF Serve, Changed, StoredRow
  <2> QED
    BY <1>1, <2>1, <2>4, <2>5
<1>6. query' \in QueryEntry
  <2>1. CASE query' = query \/ query' = NoEntry \/ query' = Asked(query) \/ query' = Asked(NoEntry)
             \/ query' = Refetched(query)
    BY <1>1, <2>1, EntriesTyped
  <2>2. CASE ReadRow
    <3>1. [step |-> "READ", found |-> stored] \in Reload
      BY <1>1 DEF Reload
    <3> QED
      BY <1>1, <2>2, <3>1 DEF ReadRow, QueryEntry
  <2>3. CASE ShowRow
    <3>1. query.reload.found \in StoredRow
      BY <1>1, <2>3 DEF ShowRow, QueryEntry, Reload
    <3>2. query.reload.found \in Shown /\ NoReload \in Reload
      BY <3>1 DEF StoredRow, Shown, NoReload, Reload
    <3> QED
      BY <2>3, <3>2 DEF ShowRow, QueryEntry
  <2>4. CASE ReloadFails
    BY <1>1, <2>4 DEF ReloadFails, NoReload, Reload, QueryEntry
  <2>5. CASE GrowStale
    BY <1>1, <2>5 DEF GrowStale, QueryEntry
  <2>6. ASSUME NEW p \in Presses, HearCredentials(p) PROVE query' \in QueryEntry
    <3>1. presses[p].version \in 1 .. MaxChanges + 1
      BY <1>1, <2>6 DEF HearCredentials, Press
    <3>2. "LISTED" \in AnyStatus
      BY DEF AnyStatus, Statuses, PageKinds
    <3>3. [status |-> "LISTED", version |-> presses[p].version] \in Shown
      BY <3>1, <3>2 DEF Shown
    <3> QED
      BY <1>1, <2>6, <3>3 DEF HearCredentials, QueryEntry
  <2> QED
    BY <2>1, <2>2, <2>3, <2>4, <2>5, <2>6
    DEF ConsoleNext, consoleVars, SubmitPassword, SubmitCode, ChallengeLost, GoToLogin, Resume,
        HardReload, OpenPage, QuitPage, Focus, DropEntry, AskStatus, CancelDialog, FillIn,
        OthersChange, Confirm, PressVerb, PressButton, Serve, HearAndReload, HearResolved, Fail,
        ToLogin, Left
<1>7. inputs' \in Inputs
  <2>1. NoInputs \in Inputs
    BY EntriesTyped
  <2> QED
    BY <1>1, <2>1
    DEF ConsoleNext, consoleVars, SubmitPassword, SubmitCode, ChallengeLost, GoToLogin, Resume,
        HardReload, OpenPage, QuitPage, ReadRow, ShowRow, ReloadFails, GrowStale, Focus, DropEntry,
        AskStatus, CancelDialog, FillIn, OthersChange, Confirm, PressVerb, PressButton, Serve,
        HearAndReload, HearCredentials, HearResolved, Fail, ToLogin, Left, Inputs
<1>8. presses' \in [Presses -> Press]
  <2>1. CASE presses' = presses \/ (\E gone \in BOOLEAN : OrphanedIf(gone))
    BY <1>1, <2>1, PressesTyped DEF OrphanedIf
  <2>2. ASSUME NEW p \in Presses, presses' = [presses EXCEPT ![p] = NoPress]
        PROVE  presses' \in [Presses -> Press]
    BY <1>1, <2>2, PressesTyped
  <2>3. ASSUME NEW p \in Presses, NEW command \in Commands, PressVerb(p, command) \/ PressButton(p, command)
        PROVE  presses' \in [Presses -> Press]
    BY <1>1, <2>3, PressesTyped DEF PressVerb, PressButton, Mutate
  <2>4. ASSUME NEW p \in Presses, Confirm(p) PROVE presses' \in [Presses -> Press]
    <3>1. inputs.dialog \in Commands
      BY <1>1, <2>4 DEF Confirm, Inputs, Commands, AnyStatus, PageKinds, Statuses
    <3> QED
      BY <1>1, <2>4, <3>1, PressesTyped DEF Confirm, Mutate
  <2>5. ASSUME NEW p \in Presses, Serve(p) PROVE presses' \in [Presses -> Press]
    <3>1. presses[p].command \in Commands
      BY <1>1, <2>5 DEF Serve, Press
    <3>2. stored.version + 1 \in 1 .. MaxChanges + 1
      BY <1>1, <1>2, <2>5 DEF Serve, StoredRow
    <3>3. [step |-> "DONE", command |-> presses[p].command, version |-> stored.version + 1] \in Press
      BY <3>1, <3>2 DEF Press
    <3>4. NoPress \in Press
      BY DEF NoPress, Press
    <3> QED
      BY <1>1, <2>5, <3>3, <3>4 DEF Serve
  <2>6. CASE \E p \in Presses : \/ HearAndReload(p) \/ HearCredentials(p) \/ HearResolved(p) \/ Fail(p)
    BY <2>2, <2>6 DEF HearAndReload, HearCredentials, HearResolved, Fail
  <2>7. CASE \/ SubmitPassword \/ SubmitCode \/ ChallengeLost \/ GoToLogin \/ Resume
             \/ HardReload \/ OpenPage \/ QuitPage
             \/ ReadRow \/ ShowRow \/ ReloadFails \/ GrowStale \/ Focus \/ DropEntry
             \/ (\E status \in Statuses.COMPANY : AskStatus(status))
             \/ CancelDialog \/ FillIn \/ OthersChange \/ UNCHANGED consoleVars
    <3>1. presses' = presses \/ OrphanedIf(TRUE) \/ OrphanedIf(pageKind # "REVIEW") \/ OrphanedIf(OwnedByPage)
      BY <2>7 DEF consoleVars, SubmitPassword, SubmitCode, ChallengeLost, GoToLogin, Resume,
        HardReload, OpenPage, QuitPage, ReadRow, ShowRow, ReloadFails, GrowStale, Focus, DropEntry,
        AskStatus, CancelDialog, FillIn, OthersChange, ToLogin
    <3> QED
      BY <2>1, <3>1 DEF OrphanedIf
  <2> QED
    BY <2>3, <2>4, <2>5, <2>6, <2>7 DEF ConsoleNext
<1>9. handled' \in 0 .. MaxChanges + 1
  <2>1. ASSUME NEW p \in Presses, HearAndReload(p) \/ HearCredentials(p)
        PROVE  handled' \in 0 .. MaxChanges + 1
    <3>1. presses[p].version \in 1 .. MaxChanges + 1
      BY <1>1, <2>1 DEF HearAndReload, HearCredentials, Press
    <3> QED
      BY <1>1, <1>2, <2>1, <3>1 DEF HearAndReload, HearCredentials, Latest
  <2>2. handled' \in {0, handled} \/ \E p \in Presses : HearAndReload(p) \/ HearCredentials(p)
    BY DEF ConsoleNext, consoleVars, SubmitPassword, SubmitCode, ChallengeLost, GoToLogin, Resume,
        HardReload, OpenPage, QuitPage, ReadRow, ShowRow, ReloadFails, GrowStale, Focus, DropEntry,
        AskStatus, CancelDialog, FillIn, OthersChange, Confirm, PressVerb, PressButton, Serve,
        HearResolved, Fail, ToLogin, Left
  <2> QED
    BY <1>1, <1>2, <2>1, <2>2
<1> QED
  BY <1>1, <1>3, <1>4, <1>5, <1>6, <1>7, <1>8, <1>9 DEF ConsoleTypeOK

Awaiting == \E p \in Presses : Heeded(p)
Reloads == pageKind \in {"COMPANY", "DEVICE", "SMS"}

(* The page shows what it was told of, unless its last reload failed; a    *)
(* reload under way has read that or is still to read.                     *)
UpToDate(entry, told) ==
    /\ entry.reload.step = "NONE" => entry.shown.version >= told \/ entry.failed
    /\ entry.reload.step = "READ" => entry.reload.found.version >= told

ConsoleInv ==
    /\ ConsoleTypeOK
    /\ handled <= stored.version
    /\ \A p \in Presses : presses[p].step = "DONE" => presses[p].version <= stored.version
    /\ inputs.dialog # "NONE" => screen = "PAGE" /\ pageKind = "COMPANY"
    /\ Reloads => (Awaiting \/ inputs.dialog # "NONE" => Known)
    /\ Reloads => UpToDate(query, handled) \/ (screen # "PAGE" /\ query = NoEntry)
    /\ pageKind = "FORM" =>
          /\ ~Loading /\ query.shown.version = handled
          /\ screen # "PAGE" => query = NoEntry
          /\ \A p \in Presses : Heeded(p) =>
                screen = "PAGE" /\ ~Known /\ \A x \in Presses : Heeded(x) => x = p

LEMMA AskedUpToDate ==
    ASSUME NEW entry \in QueryEntry, NEW told \in Nat
    PROVE  /\ UpToDate(entry, told) => UpToDate(Asked(entry), told)
           /\ ReadsRow => UpToDate(Asked(NoEntry), told)
           /\ Asked(entry).shown = entry.shown
           /\ entry.shown # NoData => UpToDate(Refetched(entry), told)
           /\ Refetched(entry).shown = entry.shown
  BY DEF Asked, Refetched, UpToDate, QueryEntry, NoEntry, SentReload, NoReload, NoData

(* What the console keeps of a request: no action makes one awaited but a  *)
(* button of the page.                                                     *)
LEMMA OrphansNobody ==
    ASSUME presses \in [Presses -> Press], NEW gone, OrphanedIf(gone), NEW p \in Presses
    PROVE  /\ Heeded(p)' => Heeded(p) /\ ~gone /\ presses'[p] = presses[p]
           /\ presses'[p].step = "DONE" => presses'[p] = presses[p]
  BY DEF OrphanedIf, Orphaned, NoPress, Heeded

LEMMA ConsoleInvStep == ConsoleInv /\ [ConsoleNext]_consoleVars => ConsoleInv'
<1> SUFFICES ASSUME ConsoleInv, [ConsoleNext]_consoleVars PROVE ConsoleInv'
  OBVIOUS
<1>1. ConsoleTypeOK'
  BY ConsoleStepTyped DEF ConsoleInv
<1>2. /\ pageKind \in PageKinds /\ stored \in StoredRow /\ screen \in Screens
      /\ query \in QueryEntry /\ inputs \in Inputs /\ presses \in [Presses -> Press]
      /\ handled \in Nat /\ stored.version \in Nat /\ query.shown.version \in Nat
      /\ MaxChanges \in Nat
  BY ConsoleAssumption DEF ConsoleInv, ConsoleTypeOK, StoredRow, QueryEntry, Shown
<1>3. CASE \/ SubmitPassword \/ SubmitCode \/ ChallengeLost \/ Resume
           \/ FillIn \/ CancelDialog \/ UNCHANGED consoleVars
  <2>1. /\ UNCHANGED <<pageKind, stored, query, presses, handled>>
        /\ inputs'.dialog # "NONE" => inputs'.dialog = inputs.dialog
        /\ screen' = screen \/ (screen # "PAGE" /\ screen' # "PAGE")
    BY <1>2, <1>3 DEF SubmitPassword, SubmitCode, ChallengeLost, Resume, FillIn, CancelDialog,
       consoleVars, Inputs
  <2> QED
    BY <1>1, <2>1 DEF ConsoleInv, Awaiting, Heeded, Known, Loading, Reloads
<1>4. CASE GoToLogin
  <2>1. /\ UNCHANGED <<pageKind, stored>> /\ query' = NoEntry /\ handled' = 0
        /\ inputs'.dialog = "NONE" /\ screen' = "LOGIN" /\ OrphanedIf(pageKind # "REVIEW")
    BY <1>4 DEF GoToLogin, ToLogin, NoInputs
  <2>2. NoEntry.shown.version = 0 /\ NoEntry.reload.step = "NONE"
    BY DEF NoEntry, NoData, NoReload
  <2>3. \A p \in Presses : (presses'[p].step = "DONE" => presses'[p] = presses[p])
                             /\ (Heeded(p)' => pageKind = "REVIEW")
    BY <1>2, <2>1, OrphansNobody
  <2> QED
    BY <1>1, <1>2, <2>1, <2>2, <2>3 DEF ConsoleInv, Awaiting, Known, Loading, Reloads, UpToDate
<1>5. CASE HardReload
  <2>1. /\ UNCHANGED <<pageKind, stored, screen>> /\ query' = Asked(NoEntry) /\ handled' = 0
        /\ inputs'.dialog = "NONE" /\ OrphanedIf(TRUE) /\ screen = "PAGE"
    BY <1>5 DEF HardReload, NoInputs
  <2>2. NoEntry.shown.version = 0 /\ NoEntry.reload.step = "NONE" /\ NoEntry \in QueryEntry
    BY EntriesTyped DEF NoEntry, NoData, NoReload
  <2>3. \A p \in Presses : (presses'[p].step = "DONE" => presses'[p] = presses[p]) /\ ~Heeded(p)'
    BY <1>2, <2>1, OrphansNobody
  <2>4. Reloads => UpToDate(query', 0)
    BY <2>1, <2>2, AskedUpToDate DEF Reloads, ReadsRow
  <2>5. pageKind = "FORM" => query' = NoEntry
    BY <2>1 DEF Asked, ReadsRow
  <2> QED
    BY <1>1, <1>2, <2>1, <2>2, <2>3, <2>4, <2>5 DEF ConsoleInv, Awaiting, Known, Loading, Reloads
<1>6. CASE OpenPage \/ Focus
  <2>1. /\ UNCHANGED <<pageKind, stored, presses, handled>> /\ query' = Asked(query)
        /\ inputs'.dialog # "NONE" => inputs' = inputs /\ screen' = screen
        /\ screen' = "PAGE"
    BY <1>6 DEF OpenPage, Focus, NoInputs
  <2>2. query'.shown = query.shown
    BY <1>2, <2>1, AskedUpToDate
  <2>3. Reloads => UpToDate(query', handled)
    BY <1>2, <2>1, AskedUpToDate DEF ConsoleInv, Reloads, ReadsRow
  <2>4. pageKind = "FORM" => query' = query
    BY <2>1 DEF Asked, ReadsRow
  <2>5. pageKind = "FORM" => \A p \in Presses : Heeded(p) => screen = "PAGE"
    BY DEF ConsoleInv
  <2> QED
    BY <1>1, <2>1, <2>2, <2>3, <2>4, <2>5 DEF ConsoleInv, Awaiting, Heeded, Known, Loading, Reloads
<1>7. CASE QuitPage
  <2>1. /\ UNCHANGED <<pageKind, stored>> /\ inputs'.dialog = "NONE" /\ screen' = "LIST"
        /\ ReadsRow => UNCHANGED <<query, handled>>
        /\ ~ReadsRow => query' = NoEntry /\ handled' = 0
        /\ OrphanedIf(OwnedByPage) /\ screen = "PAGE"
    BY <1>7 DEF QuitPage, Left, NoInputs
  <2>2. NoEntry.shown.version = 0 /\ NoEntry.reload.step = "NONE"
    BY DEF NoEntry, NoData, NoReload
  <2>3. \A p \in Presses : (presses'[p].step = "DONE" => presses'[p] = presses[p])
                             /\ (Heeded(p)' => Heeded(p) /\ ~OwnedByPage)
    BY <1>2, <2>1, OrphansNobody
  <2> QED
    BY <1>1, <1>2, <2>1, <2>2, <2>3
    DEF ConsoleInv, Awaiting, Known, Loading, Reloads, ReadsRow, OwnedByPage
<1>8. CASE ReadRow \/ ShowRow \/ ReloadFails \/ GrowStale
  <2>1. UNCHANGED <<pageKind, stored, screen, inputs, presses, handled>>
    BY <1>8 DEF ReadRow, ShowRow, ReloadFails, GrowStale
  <2>2. ASSUME Reloads, UpToDate(query, handled) PROVE UpToDate(query', handled)
    <3>1. CASE ReadRow
      <4>1. query'.reload = [step |-> "READ", found |-> stored] /\ handled' = handled
        BY <1>2, <3>1 DEF ReadRow, QueryEntry
      <4>2. query'.reload.step = "READ" /\ query'.reload.found = stored
        BY <4>1
      <4> QED
        BY <4>1, <4>2 DEF UpToDate, ConsoleInv
    <3>2. CASE ShowRow
      BY <2>2, <3>2 DEF ShowRow, UpToDate, NoReload
    <3>3. CASE ReloadFails
      <4>1. query'.reload = NoReload /\ query'.failed
        BY <1>2, <3>3 DEF ReloadFails, QueryEntry
      <4> QED
        BY <4>1 DEF UpToDate, NoReload
    <3>4. CASE GrowStale
      BY <1>2, <2>2, <3>4 DEF GrowStale, UpToDate, QueryEntry
    <3> QED
      BY <1>8, <3>1, <3>2, <3>3, <3>4
  <2>3. query # NoEntry
    BY <1>8 DEF ReadRow, ShowRow, ReloadFails, GrowStale, Loading, NoEntry, NoReload
  <2>4. query.shown # NoData => query'.shown # NoData
    <3>1. CASE ShowRow
      <4>1. query'.shown \in StoredRow
        BY <1>2, <3>1 DEF ShowRow, QueryEntry, Reload
      <4> QED
        BY <4>1 DEF StoredRow, NoData
    <3>2. CASE ReadRow \/ ReloadFails \/ GrowStale
      BY <1>2, <3>2 DEF ReadRow, ReloadFails, GrowStale, QueryEntry
    <3> QED
      BY <1>8, <3>1, <3>2
  <2>5. pageKind = "FORM" =>
          query'.shown = query.shown /\ query'.reload = query.reload /\ screen = "PAGE"
    <3>1. pageKind = "FORM" => GrowStale
      BY <1>8 DEF ConsoleInv, Loading, ReadRow, ShowRow, ReloadFails
    <3>2. pageKind = "FORM" => screen = "PAGE"
      BY <2>3 DEF ConsoleInv
    <3> QED
      BY <1>2, <3>1, <3>2 DEF GrowStale, QueryEntry
  <2> QED
    BY <1>1, <2>1, <2>2, <2>3, <2>4, <2>5 DEF ConsoleInv, Awaiting, Heeded, Known, Loading, Reloads
<1>9. CASE DropEntry
  <2>1. /\ UNCHANGED <<pageKind, stored, screen, inputs, presses, handled>> /\ query' = NoEntry
        /\ screen = "LIST" /\ \A p \in Presses : presses[p].step = "FREE"
        /\ query # NoEntry
    BY <1>9 DEF DropEntry, Idle
  <2>2. ~Awaiting /\ inputs.dialog = "NONE" /\ pageKind # "FORM"
    BY <2>1 DEF ConsoleInv, Awaiting, Heeded
  <2> QED
    BY <1>1, <2>1, <2>2 DEF ConsoleInv, Awaiting, Heeded, Reloads
<1>10. ASSUME NEW status \in Statuses.COMPANY, AskStatus(status) PROVE ConsoleInv'
  <2>1. /\ UNCHANGED <<pageKind, stored, screen, query, presses, handled>>
        /\ screen = "PAGE" /\ pageKind = "COMPANY" /\ Known
    BY <1>10 DEF AskStatus, Offered, PageKinds
  <2> QED
    BY <1>1, <2>1 DEF ConsoleInv, Awaiting, Heeded, Known, Loading, Reloads
<1>11. CASE OthersChange
  <2>1. UNCHANGED <<pageKind, screen, query, inputs, presses, handled>>
    BY <1>11 DEF OthersChange
  <2>2. stored'.version = stored.version + 1
    BY <1>11 DEF OthersChange
  <2>3. /\ handled' <= stored'.version
        /\ \A p \in Presses : presses'[p].step = "DONE" => presses'[p].version <= stored'.version
    <3>1. \A p \in Presses : presses[p].step = "DONE" => presses[p].version \in Nat
      BY <1>2 DEF Press
    <3> QED
      BY <1>2, <2>1, <2>2, <3>1 DEF ConsoleInv
  <2> QED
    BY <1>1, <2>1, <2>3 DEF ConsoleInv, Awaiting, Heeded, Known, Loading, Reloads
<1>12. ASSUME NEW p \in Presses,
              Confirm(p) \/ \E command \in Commands : PressVerb(p, command) \/ PressButton(p, command)
       PROVE  ConsoleInv'
  <2>1. /\ UNCHANGED <<pageKind, stored, screen, query, handled>>
        /\ inputs'.dialog # "NONE" => inputs' = inputs
        /\ \A x \in Presses : presses'[x].step = "DONE" => presses'[x] = presses[x]
        /\ \A x \in Presses : x # p /\ Heeded(x)' => Heeded(x)
    <3>1. ASSUME NEW command, Mutate(p, command) \/ presses' = [presses EXCEPT ![p] = Ask(command)]
          PROVE  /\ \A x \in Presses : presses'[x].step = "DONE" => presses'[x] = presses[x]
                 /\ \A x \in Presses : x # p /\ Heeded(x)' => Heeded(x)
      <4>1. Ask(command).step = "SENT"
        BY DEF Ask
      <4>2. \A press \in Press : Orphaned(press).step \in {"ORPHAN", "FREE"}
        BY DEF Orphaned, NoPress, Press
      <4>3. ASSUME NEW x \in Presses
            PROVE  /\ presses'[x].step = "DONE" => presses'[x] = presses[x]
                   /\ x # p /\ presses'[x].step \in {"SENT", "DONE"} => presses'[x] = presses[x]
        <5>1. CASE Mutate(p, command)
          BY <1>2, <4>1, <4>2, <5>1 DEF Mutate
        <5>2. CASE presses' = [presses EXCEPT ![p] = Ask(command)]
          BY <1>2, <4>1, <5>2
        <5> QED
          BY <3>1, <5>1, <5>2
      <4> QED
        BY <4>3 DEF Heeded
    <3>2. \E command : Mutate(p, command) \/ presses' = [presses EXCEPT ![p] = Ask(command)]
      BY <1>12 DEF Confirm, PressVerb, PressButton
    <3>3. /\ UNCHANGED <<pageKind, stored, screen, query, handled>>
          /\ inputs'.dialog # "NONE" => inputs' = inputs
      BY <1>2, <1>12 DEF Confirm, PressVerb, PressButton, Inputs
    <3> QED
      BY <3>1, <3>2, <3>3
  <2>2. Reloads => Known
    BY <1>2, <1>12 DEF Confirm, PressVerb, PressButton, Offered, Reloads, ConsoleInv
  <2>3. pageKind = "FORM" => screen = "PAGE" /\ ~Known /\ \A x \in Presses : ~Heeded(x)
    BY <1>2, <1>12 DEF Confirm, PressVerb, PressButton, Offered, ConsoleInv
  <2> QED
    BY <1>1, <2>1, <2>2, <2>3 DEF ConsoleInv, Awaiting, Known, Loading, Reloads
<1>13. ASSUME NEW p \in Presses, Serve(p) PROVE ConsoleInv'
  <2>1. /\ UNCHANGED <<pageKind, screen, query, inputs, handled>>
        /\ stored'.version = stored.version + 1
        /\ \A x \in Presses : x # p => presses'[x] = presses[x]
        /\ presses'[p].step = "DONE" => presses'[p].version = stored.version + 1 /\ presses[p].step = "SENT"
        /\ presses'[p].step # "SENT"
    BY <1>2, <1>13 DEF Serve, Changed, NoPress
  <2>2. /\ handled' <= stored'.version
        /\ \A x \in Presses : presses'[x].step = "DONE" => presses'[x].version <= stored'.version
    <3>1. \A x \in Presses : presses[x].step = "DONE" => presses[x].version \in Nat
      BY <1>2 DEF Press
    <3> QED
      BY <1>2, <2>1, <3>1 DEF ConsoleInv
  <2>3. \A x \in Presses : Heeded(x)' => Heeded(x)
    BY <2>1 DEF Heeded
  <2> QED
    BY <1>1, <2>1, <2>2, <2>3 DEF ConsoleInv, Awaiting, Known, Loading, Reloads
<1>14. ASSUME NEW p \in Presses, HearAndReload(p) \/ HearCredentials(p) PROVE ConsoleInv'
  <2>1. /\ UNCHANGED <<pageKind, stored, screen, inputs>> /\ presses[p].step = "DONE"
        /\ handled' = Latest(presses[p].version)
        /\ \A x \in Presses : x # p => presses'[x] = presses[x]
        /\ presses'[p].step = "FREE" /\ Heeded(p)
    BY <1>2, <1>14 DEF HearAndReload, HearCredentials, NoPress, Heeded
  <2>2. presses[p].version \in Nat /\ presses[p].version <= stored.version
    BY <1>2, <2>1 DEF ConsoleInv, Press
  <2>3. /\ handled' <= stored'.version /\ handled' \in Nat
        /\ \A x \in Presses : presses'[x].step = "DONE" => presses'[x].version <= stored'.version
    BY <1>2, <2>1, <2>2 DEF ConsoleInv, Latest
  <2>4. \A x \in Presses : Heeded(x)' => Heeded(x) /\ x # p
    BY <2>1 DEF Heeded
  <2>5. CASE HearAndReload(p)
    <3>1. pageKind # "FORM" /\ query' = Refetched(query)
      BY <2>5 DEF HearAndReload
    <3>2. Reloads => Known
      BY <2>1 DEF ConsoleInv, Awaiting
    <3>3. query'.shown = query.shown
      BY <1>2, <3>1, AskedUpToDate
    <3>4. Reloads => UpToDate(query', handled')
      BY <1>2, <2>3, <3>1, <3>2, AskedUpToDate DEF Known
    <3> QED
      BY <1>1, <2>1, <2>3, <2>4, <3>1, <3>2, <3>3, <3>4
      DEF ConsoleInv, Awaiting, Known, Reloads
  <2>6. CASE HearCredentials(p)
    <3>1. pageKind = "FORM" /\ query'.shown.version = presses[p].version /\ query'.reload = query.reload
      BY <1>2, <2>6 DEF HearCredentials, QueryEntry
    <3>2. /\ screen = "PAGE" /\ ~Known /\ \A x \in Presses : Heeded(x) => x = p
      BY <2>1, <3>1 DEF ConsoleInv
    <3>3. handled = 0
      BY <3>1, <3>2 DEF ConsoleInv, Known, NoData
    <3>4. handled' = presses[p].version
      BY <2>1, <2>2, <3>3 DEF Latest
    <3> QED
      BY <1>1, <2>1, <2>3, <2>4, <3>1, <3>2, <3>4 DEF ConsoleInv, Awaiting, Loading, Reloads
  <2> QED
    BY <1>14, <2>5, <2>6
<1>15. ASSUME NEW p \in Presses, HearResolved(p) \/ Fail(p) PROVE ConsoleInv'
  <2>1. /\ UNCHANGED <<pageKind, stored>>
        /\ \A x \in Presses : x # p => presses'[x] = presses[x]
        /\ presses'[p].step = "FREE" /\ ~Idle(p)
    BY <1>2, <1>15 DEF HearResolved, Fail, NoPress, Idle
  <2>2. \A x \in Presses : Heeded(x)' => Heeded(x)
    BY <2>1 DEF Heeded
  <2>3. CASE UNCHANGED <<screen, query, inputs, handled>>
    BY <1>1, <2>1, <2>2, <2>3 DEF ConsoleInv, Awaiting, Known, Loading, Reloads
  <2>4. CASE /\ pageKind \in {"SMS", "EVENT"} /\ Heeded(p) /\ query' = Refetched(query)
             /\ UNCHANGED <<screen, inputs, handled>>
    <3>1. pageKind # "FORM"
      BY <2>4
    <3>2. Reloads => Known
      BY <2>4 DEF ConsoleInv, Awaiting
    <3>3. query'.shown = query.shown
      BY <1>2, <2>4, AskedUpToDate
    <3>4. Reloads => UpToDate(query', handled')
      BY <1>2, <2>4, <3>2, AskedUpToDate DEF Known
    <3> QED
      BY <1>1, <2>1, <2>2, <2>4, <3>1, <3>2, <3>3, <3>4 DEF ConsoleInv, Awaiting, Known, Reloads
  <2>5. CASE pageKind = "REVIEW" /\ Left
    <3>1. UNCHANGED handled /\ inputs'.dialog = "NONE"
      BY <2>5 DEF Left, ReadsRow, NoInputs
    <3> QED
      BY <1>1, <2>1, <2>5, <3>1 DEF ConsoleInv, Reloads
  <2>6. \/ UNCHANGED <<screen, query, inputs, handled>>
        \/ /\ pageKind \in {"SMS", "EVENT"} /\ Heeded(p) /\ query' = Refetched(query)
           /\ UNCHANGED <<screen, inputs, handled>>
        \/ pageKind = "REVIEW" /\ Left
    BY <1>15 DEF HearResolved, Fail
  <2> QED
    BY <2>3, <2>4, <2>5, <2>6
<1> QED
  BY <1>3, <1>4, <1>5, <1>6, <1>7, <1>8, <1>9, <1>10, <1>11, <1>12, <1>13, <1>14, <1>15
  DEF ConsoleNext

LEMMA ConsoleInductive == ConsoleSpec => []ConsoleInv
<1>1. ConsoleInit => ConsoleInv
  <2> SUFFICES ASSUME ConsoleInit PROVE ConsoleInv
    OBVIOUS
  <2>1. /\ pageKind \in PageKinds /\ stored \in [status : Statuses[pageKind], version : {1}]
        /\ screen = "LOGIN" /\ query = NoEntry /\ inputs = NoInputs
        /\ presses = [p \in Presses |-> NoPress] /\ handled = 0 /\ MaxChanges \in Nat
    BY ConsoleAssumption DEF ConsoleInit
  <2>2. NoPress \in Press /\ NoPress.step = "FREE" /\ NoInputs.dialog = "NONE"
        /\ NoEntry.shown.version = 0 /\ NoEntry.reload.step = "NONE"
    BY DEF NoPress, Press, NoInputs, NoEntry, NoData, NoReload
  <2>3. stored \in StoredRow /\ stored.version = 1
    BY <2>1 DEF StoredRow, AnyStatus
  <2>4. ConsoleTypeOK
    BY <2>1, <2>2, <2>3, EntriesTyped DEF ConsoleTypeOK, Screens
  <2>5. \A p \in Presses : presses[p].step = "FREE"
    BY <2>1, <2>2
  <2> QED
    BY <2>1, <2>2, <2>3, <2>4, <2>5 DEF ConsoleInv, Awaiting, Heeded, Loading, UpToDate
<1>2. ConsoleInv /\ [ConsoleNext]_consoleVars => ConsoleInv'
  BY ConsoleInvStep
<1> QED
  BY <1>1, <1>2, PTL DEF ConsoleSpec

(* ShowsItsActions: once a page was told that its own change was made, it  *)
(* does not go back to the row before it, for any number of changes by     *)
(* anybody and of requests under way.                                      *)
THEOREM PageShowsItsActions == ConsoleSpec => []ShowsItsActions
<1>1. ConsoleInv => ShowsItsActions
  <2> SUFFICES ASSUME ConsoleInv, screen = "PAGE", pageKind \notin {"REVIEW", "EVENT"}, ~Loading,
                      ~query.failed
               PROVE  query.shown.version >= handled
    BY DEF ShowsItsActions
  <2>1. query.shown.version \in Nat /\ handled \in Nat
    BY ConsoleAssumption DEF ConsoleInv, ConsoleTypeOK, QueryEntry, Shown
  <2>2. Reloads \/ pageKind = "FORM"
    BY DEF ConsoleInv, ConsoleTypeOK, PageKinds, Reloads
  <2> QED
    BY <2>1, <2>2 DEF ConsoleInv, UpToDate, Loading
<1> QED
  BY <1>1, ConsoleInductive, PTL
=============================================================================
