------------------------- MODULE Components_proofs --------------------------
(***************************************************************************)
(* Proofs about the composition of the components that share no state:     *)
(* each of them runs in it as it does alone, so that what the proofs about *)
(* a component show holds of the composition, for every instance of it.    *)
(***************************************************************************)
EXTENDS MCComponents, Access_proofs, Http_proofs, Intake_proofs, Operations_proofs,
        WebhookDelivery_proofs

-----------------------------------------------------------------------------
(* Whichever part is chosen, every component begins as it would alone, and *)
(* every step is one of its own or none.                                   *)
LEMMA PartsBegin ==
    ComponentsInit =>
        /\ DeliveryInit /\ LinkInit /\ SessionsInit /\ LoginInit /\ KeysInit /\ SecretInit
        /\ IdempotencyInit /\ LimitInit /\ AlertsInit /\ RulesInit /\ PagingInit /\ FieldsInit
        /\ ParsingInit /\ TotpInit /\ AnalyticsInit /\ ConsoleInit
BY DEF ComponentsInit, PagingAtRest, FieldsAtRest, AnalyticsAtRest

LEMMA PartsStep ==
    [ComponentsNext]_componentVars =>
        /\ [DeliveryNext]_deliveryVars /\ [LinkNext]_linkVars
        /\ [SessionsNext]_sessionVars /\ [LoginNext]_loginVars
        /\ [KeysNext]_keyVars /\ [SecretNext]_secretVars
        /\ [IdempotencyNext]_idempotencyVars /\ [LimitNext]_limitVars
        /\ [AlertsNext]_alertVars /\ [RulesNext]_ruleVars
        /\ [PagingNext]_pagingVars /\ [FieldsNext]_fieldVars
        /\ [ParsingNext]_parsingVars /\ [TotpNext]_totpVars
        /\ [AnalyticsNext]_analyticsVars /\ [ConsoleNext]_consoleVars
BY DEF ComponentsNext, componentVars, otherVars

(* The composition runs each component as its own specification says,      *)
(* whatever part it runs and with whatever bounds it adds: no component    *)
(* begins or steps in it as it could not alone.                            *)
THEOREM PartsRunAlone ==
    ComponentsSpec =>
        /\ DeliverySpec /\ LinkSpec /\ SessionsSpec /\ LoginSpec /\ KeysSpec /\ SecretSpec
        /\ IdempotencySpec /\ LimitSpec /\ AlertsSpec /\ RulesSpec /\ PagingSpec /\ FieldsSpec
        /\ ParsingSpec /\ TotpSpec /\ AnalyticsSpec /\ ConsoleSpec
BY PartsBegin, PartsStep, PTL
   DEF ComponentsSpec, DeliverySpec, LinkSpec, SessionsSpec, LoginSpec, KeysSpec, SecretSpec,
       IdempotencySpec, LimitSpec, AlertsSpec, RulesSpec, PagingSpec, FieldsSpec, ParsingSpec,
       TotpSpec, AnalyticsSpec, ConsoleSpec

(* The heuristic pass that is not run rests on a message and orders that a *)
(* pass may be given.                                                      *)
LEMMA ScoringRests == ScoringAtRest => ScoringInv
<1>1. bkash \in ProviderNames /\ alice \in Msisdns
  BY SomeNamesAssumption
<1>2. PlainCandidates \subseteq OrderFacts
  BY <1>1 DEF PlainCandidates, OrderFacts
<1>3. EarlyMessages \subseteq MessageFacts
  BY <1>1 DEF EarlyMessages, MessageFacts
<1>4. DefaultSettings \subseteq CompanySettings
  <2>1. {30} \subseteq Nat /\ {FALSE} \subseteq BOOLEAN /\ {90} \subseteq 0 .. 100
    OBVIOUS
  <2> QED
    BY <2>1, Zenon DEF DefaultSettings, CompanySettings
<1> QED
  BY <1>2, <1>3, <1>4 DEF ScoringAtRest, ScoringInv, Decided

LEMMA ScoringHolds == ComponentsSpec => []ScoringInv
<1>1. ComponentsInit => ScoringInv
  <2>1. ScoringInit => ScoringInv
    BY CandidatesAssumption, MessagesAssumption, SettingsAssumption
       DEF ScoringInit, Init, ScoringInv, Decided
  <2> QED
    BY <2>1, ScoringRests DEF ComponentsInit
<1>2. [ComponentsNext]_componentVars => [Run]_vars
  BY DEF ComponentsNext, componentVars
<1> QED
  BY <1>1, <1>2, ScoringStep, PTL DEF ComponentsSpec

-----------------------------------------------------------------------------
(* The types that are a part of an inductive invariant.                    *)
LEMMA SessionsTyped == SessionsSpec => []SessionsTypeOK
<1>1. SessionsInv => SessionsTypeOK
  BY DEF SessionsInv
<1> QED
  BY <1>1, SessionsInductive, PTL

LEMMA SecretTyped == SecretSpec => []SecretTypeOK
BY SecretInitTyped, SecretStepTyped, PTL DEF SecretSpec

LEMMA IdempotencyTyped == IdempotencySpec => []IdempotencyTypeOK
BY IdempotencyInitTyped, IdempotencyStepTyped, PTL DEF IdempotencySpec

LEMMA LimitTyped == LimitSpec => []LimitTypeOK
<1>1. LimitInv => LimitTypeOK
  BY DEF LimitInv
<1> QED
  BY <1>1, LimitInductive, PTL

LEMMA AlertsTyped == AlertsSpec => []AlertsTypeOK
BY AlertsInitTyped, AlertsStepTyped, PTL DEF AlertsSpec

LEMMA RulesTyped == RulesSpec => []RulesTypeOK
BY RulesInitTyped, RulesStepTyped, PTL DEF RulesSpec

LEMMA ParsingTyped == ParsingSpec => []ParsingTypeOK
<1>1. ParsingInv => ParsingTypeOK
  BY DEF ParsingInv
<1> QED
  BY <1>1, ParsingHolds, PTL

LEMMA TotpTyped == TotpSpec => []TotpTypeOK
<1>1. TotpInit => EnteredWasShown
  BY DEF TotpInit, EnteredWasShown, PageAt, Closed
<1> QED
  BY <1>1, TotpInitTyped, TotpStepTyped, EnteredWasShownStep, PTL DEF TotpSpec

LEMMA ConsoleTyped == ConsoleSpec => []ConsoleTypeOK
<1>1. ConsoleInv => ConsoleTypeOK
  BY DEF ConsoleInv
<1> QED
  BY <1>1, ConsoleInductive, PTL

(* ComponentsTypeOK: whichever component runs keeps its type, and so does  *)
(* every other one.                                                        *)
THEOREM ComponentsTyping == ComponentsSpec => []ComponentsTypeOK
<1> DEFINE Typed ==
    /\ DeliveryTypeOK /\ LinkTypeOK /\ SessionsTypeOK /\ LoginTypeOK /\ KeysTypeOK
    /\ SecretTypeOK /\ IdempotencyTypeOK /\ LimitTypeOK /\ AlertsTypeOK /\ RulesTypeOK
    /\ PagingTypeOK /\ FieldsTypeOK /\ ParsingTypeOK /\ TotpTypeOK /\ AnalyticsTypeOK
    /\ ConsoleTypeOK
<1>1. ComponentsSpec => []Typed
  BY PartsRunAlone, DeliveryTyping, LinkTyping, SessionsTyped, LoginTyping, KeysTyping,
     SecretTyped, IdempotencyTyped, LimitTyped, AlertsTyped, RulesTyped, PagingTyped,
     FieldsTyped, ParsingTyped, TotpTyped, AnalyticsTyped, ConsoleTyped, PTL
<1>2. Typed => ComponentsTypeOK
  BY DEF ComponentsTypeOK
<1> QED
  BY <1>1, <1>2, PTL

(* What the components promise, each of its own state.                     *)
ComponentsSafe ==
    /\ AbstractionSound /\ CollisionIsReviewed
    /\ VerdictOnRecord /\ AttemptBudget /\ PendingIsScheduled
    /\ LinkKept /\ DirectiveOnce
    /\ SignedInUntilLogout /\ EndedStaysEnded
    /\ LockoutCounts /\ RecoveryCodeOnce /\ EnrolledIsConfirmed
    /\ KeyLeft /\ PromisedSecretSigns
    /\ ExecutedOnce /\ ReplayMatchesBody /\ RateHeld /\ PagesComplete
    /\ CacheCurrent /\ AnswersAreRecent /\ ShowsItsActions
    /\ EnginesAgree /\ NoCreditFromDebit /\ RecordIsReproducible

(* Every promise of a component holds of the composition at once, and the  *)
(* one about its steps too.                                                *)
THEOREM ComponentsHold == ComponentsSpec => []ComponentsSafe /\ NobodyForgotten
<1>1. ComponentsSpec => [](AbstractionSound /\ CollisionIsReviewed)
  BY ScoringHolds, AnswerIsAbstract, ReviewsCollisions, PTL
<1>2. ComponentsSpec =>
          /\ []VerdictOnRecord /\ []AttemptBudget /\ []PendingIsScheduled
          /\ []LinkKept /\ []DirectiveOnce
          /\ []SignedInUntilLogout /\ []EndedStaysEnded
          /\ []LockoutCounts /\ []RecoveryCodeOnce /\ []EnrolledIsConfirmed
          /\ []KeyLeft /\ []PromisedSecretSigns
  BY PartsRunAlone, VerdictsExplained, BudgetHolds, NothingIsLost, TokenStaysAccepted,
     AskedDoneOnce, StaysSignedIn, StaysEnded, LockoutHolds, CodeSpentOnce, FactorIsHeld,
     CompanyKeepsKey, ReplacedSecretSigns, PTL
<1>3. ComponentsSpec =>
          /\ []ExecutedOnce /\ []ReplayMatchesBody /\ []RateHeld /\ []PagesComplete
          /\ []CacheCurrent /\ []AnswersAreRecent /\ []ShowsItsActions
          /\ []EnginesAgree /\ []NoCreditFromDebit /\ []RecordIsReproducible
          /\ NobodyForgotten
  BY PartsRunAlone, HandlerRunsOnce, ReplaysMatch, LimitHolds, WalkIsComplete, CachesCurrent,
     FiguresAreRecent, PageShowsItsActions, EnginesReadAlike, DebitIsNoCredit,
     RowIsReproducible, NobodyIsForgotten, PTL
<1> QED
  BY <1>1, <1>2, <1>3, PTL DEF ComponentsSafe
=============================================================================
