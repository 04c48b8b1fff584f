-------------------------------- MODULE Alerts --------------------------------
(***************************************************************************)
(* Device-offline alerts: DeviceHealthProcessor.tick against AlertService. *)
(* A company stands for its phones; time is counted in ticks since an      *)
(* event, up to the dedupe window, where counting no longer matters.       *)
(***************************************************************************)
EXTENDS Naturals

CONSTANTS
    Companies,
    DedupeWindow        \* DEDUPE_WINDOW_MS, in ticks

ASSUME AlertAssumption == DedupeWindow \in Nat \ {0}

VARIABLES
    offline,     \* since when the phone has been offline: its age plus one, or 0
    lastSent,    \* AlertService.lastSent, as an age, per company
    mentioned    \* history: the age of the last message that named the company

alertVars == <<offline, lastSent, mentioned>>

-----------------------------------------------------------------------------
Age == 0 .. DedupeWindow

Older(age) == IF age < DedupeWindow THEN age + 1 ELSE age
Offline == {c \in Companies : offline[c] > 0}

AlertsInit ==
    /\ offline = [c \in Companies |-> 0]
    /\ lastSent = [c \in Companies |-> DedupeWindow]
    /\ mentioned = [c \in Companies |-> DedupeWindow]

(* Thirty minutes without a heartbeat, and a heartbeat.                    *)
PhoneGoesOffline(c) ==
    /\ offline[c] = 0
    /\ offline' = [offline EXCEPT ![c] = 1]
    /\ UNCHANGED <<lastSent, mentioned>>

PhoneComesBack(c) ==
    /\ offline[c] > 0
    /\ offline' = [offline EXCEPT ![c] = 0]
    /\ UNCHANGED <<lastSent, mentioned>>

AlertClock ==
    /\ offline' = [c \in Companies |-> IF offline[c] \in 1 .. DedupeWindow THEN offline[c] + 1
                                        ELSE offline[c]]
    /\ lastSent' = [c \in Companies |-> Older(lastSent[c])]
    /\ mentioned' = [c \in Companies |-> Older(mentioned[c])]

(* Mutant of HealthTick: an alert that is suppressed counts as sent.       *)
HealthTickSliding(first) ==
    /\ first \in Offline
    /\ lastSent' = [lastSent EXCEPT ![first] = 0]
    /\ mentioned' = IF lastSent[first] < DedupeWindow THEN mentioned
                    ELSE [c \in Companies |-> IF c \in Offline THEN 0 ELSE mentioned[c]]
    /\ UNCHANGED offline

(* AlertService.group: all these alerts bear one key and become one that   *)
(* names every phone, filed under the company of the first.                *)
Group(first) == [company |-> first, named |-> Offline]

(* AlertService.fire: an alert is sent unless one was sent under the same  *)
(* company within the window.                                              *)
Fire(alert) ==
    IF lastSent[alert.company] < DedupeWindow
    THEN UNCHANGED <<lastSent, mentioned>>
    ELSE /\ lastSent' = [lastSent EXCEPT ![alert.company] = 0]
         /\ mentioned' = [c \in Companies |-> IF c \in alert.named THEN 0 ELSE mentioned[c]]

(* A tick in business hours, with whichever device the query returned      *)
(* first.  With nothing offline it resolves a key under which nothing      *)
(* fires.                                                                  *)
HealthTick(first) ==
    /\ first \in Offline
    /\ Fire(Group(first))
    /\ UNCHANGED offline

(* The process restarts with an empty map.                                 *)
WorkerRestarts ==
    /\ lastSent' = [c \in Companies |-> DedupeWindow]
    /\ UNCHANGED <<offline, mentioned>>

AlertsNext ==
    \/ AlertClock \/ WorkerRestarts
    \/ \E c \in Companies : PhoneGoesOffline(c) \/ PhoneComesBack(c) \/ HealthTick(c)

AlertsSpec == AlertsInit /\ [][AlertsNext]_alertVars

-----------------------------------------------------------------------------
AlertsTypeOK ==
    /\ offline \in [Companies -> 0 .. DedupeWindow + 1]
    /\ lastSent \in [Companies -> Age]
    /\ mentioned \in [Companies -> Age]

(* Whichever company a grouped alert is filed under, and whichever phones  *)
(* come and go, a tick in business hours leaves no phone that has been     *)
(* offline for the dedupe window without a message that named it within    *)
(* that window (group against the dedupe of fire).                         *)
NobodyForgotten ==
    [][\A first \in Companies : HealthTick(first) =>
          \A c \in Companies : offline[c] > DedupeWindow => mentioned'[c] < DedupeWindow]_alertVars
=============================================================================
