----------------------------- MODULE Parts_proofs -----------------------------
(***************************************************************************)
(* The composition of the parts that share no state: each of its           *)
(* behaviours is a behaviour of every part, so that what is proved of a    *)
(* part's specification holds of the composition.                          *)
(***************************************************************************)
EXTENDS MCParts, SchedulerParts_proofs, Collection_proofs, Application_proofs

(* Initially every part is as it begins by itself. *)
LEMMA PartsInitially ==
    ASSUME PartsInit
    PROVE  /\ Init /\ CollectorInit /\ TimerInit /\ ResourceInit /\ ConfigInit /\ ScopeInit
           /\ BackoffInit /\ RulesInit /\ AppInit /\ LogInit /\ AggInit /\ PipeInit
BY DEF PartsInit

(* A step of one part leaves the others alone. *)
LEMMA PartsStep ==
    ASSUME [PartsNext]_partsVars
    PROVE  /\ [Next]_vars /\ [CollectorNext]_collectorVars
           /\ [TimerNext]_timerVars /\ [ResourceNext]_resourceVars
           /\ [ConfigNext]_configVars /\ [ScopeNext]_scopeVars
           /\ [BackoffNext]_backoffVars /\ [RulesNext]_rulesVars
           /\ [AppNext]_appVars /\ [LogNext]_logVars
           /\ [AggNext]_aggVars /\ [PipeNext]_pipeVars
<1>1. [Next]_vars
    BY DEF PartsNext, Rest, partsVars
<1>2. [CollectorNext]_collectorVars
    BY DEF PartsNext, Rest, partsVars
<1>3. [TimerNext]_timerVars
    BY DEF PartsNext, Rest, partsVars
<1>4. [ResourceNext]_resourceVars
    BY DEF PartsNext, Rest, partsVars
<1>5. [ConfigNext]_configVars
    BY DEF PartsNext, Rest, partsVars
<1>6. [ScopeNext]_scopeVars
    BY DEF PartsNext, Rest, partsVars
<1>7. [BackoffNext]_backoffVars
    BY DEF PartsNext, Rest, partsVars
<1>8. [RulesNext]_rulesVars
    BY DEF PartsNext, Rest, partsVars
<1>9. [AppNext]_appVars
    BY DEF PartsNext, Rest, partsVars
<1>10. [LogNext]_logVars
    BY DEF PartsNext, Rest, partsVars
<1>11. [AggNext]_aggVars
    BY DEF PartsNext, Rest, partsVars
<1>12. [PipeNext]_pipeVars
    BY DEF PartsNext, Rest, partsVars
<1>. QED BY <1>1, <1>2, <1>3, <1>4, <1>5, <1>6, <1>7, <1>8, <1>9, <1>10, <1>11, <1>12

(* What every part does by itself; for the collection of logs, without its *)
(* fairness, which PartsSpec states of the part that runs.                 *)
PartsSafety ==
    /\ Spec /\ CollectorSpec /\ TimerSpec /\ ResourceSpec /\ ConfigSpec /\ ScopeSpec
    /\ BackoffSpec /\ RulesSpec /\ AppSpec /\ AggSpec /\ PipeSpec
    /\ LogInit /\ [][LogNext]_logVars

(* A behaviour of the composition is one of every part, whichever part it  *)
(* picks: the others stutter as the code they model does nothing to it.    *)
THEOREM PartsRunEachPart == PartsSpec => PartsSafety
BY PartsInitially, PartsStep, PTL
DEF PartsSpec, PartsSafety, Spec, CollectorSpec, TimerSpec, ResourceSpec, ConfigSpec, ScopeSpec,
    BackoffSpec, RulesSpec, AppSpec, AggSpec, PipeSpec

(* For every value of the constants, the variables of every part keep      *)
(* their types: no step, of whatever part, leads outside of the states the *)
(* runs and the invariants of the parts range over.                        *)
THEOREM PartsTypesHold == PartsSpec => []PartsTypeOK
<1>1. PartsInit => part \in Part
    BY DEF PartsInit
<1>2. part \in Part /\ [PartsNext]_partsVars => (part \in Part)'
    BY DEF PartsNext, Rest, partsVars
<1>3. PartsSpec => [](part \in Part)
    BY <1>1, <1>2, PTL DEF PartsSpec
<1>4. /\ CollectorInv => CollectorTypeOK
      /\ TimerInv => TimerTypeOK
      /\ ResourceInv => ResourceTypeOK
      /\ ConfigInv => ConfigTypeOK
      /\ BackoffInv => BackoffTypeOK
      /\ AppInv => AppTypeOK
    BY DEF CollectorInv, TimerInv, ResourceInv, ConfigInv, BackoffInv, AppInv
<1>5. PartsSafety => [](/\ CollectorTypeOK /\ TimerTypeOK /\ ResourceTypeOK /\ ConfigTypeOK
                        /\ ScopeTypeOK /\ BackoffTypeOK /\ RulesTypeOK /\ AppTypeOK /\ LogTypeOK
                        /\ AggTypeOK /\ PipeTypeOK)
    BY <1>4, CollectorInvariant, TimerInvariant, ResourceInvariant, ConfigInvariant,
        BackoffInitially, BackoffNextKeeps, AppInvariant, ScopeTypesHold, RulesTypesHold,
        LogTypesKept, AggTypesHold, PipeTypesHold, PTL DEF PartsSafety, BackoffSpec
<1>6. (/\ part \in Part
       /\ CollectorTypeOK /\ TimerTypeOK /\ ResourceTypeOK /\ ConfigTypeOK
       /\ ScopeTypeOK /\ BackoffTypeOK /\ RulesTypeOK /\ AppTypeOK /\ LogTypeOK
       /\ AggTypeOK /\ PipeTypeOK) => PartsTypeOK
    BY DEF PartsTypeOK
<1>. QED BY PartsRunEachPart, <1>3, <1>5, <1>6, PTL

(* Everything the run checks of the composition, but for the end of a      *)
(* collection of logs, which is a matter of fairness, and the types        *)
PartsInvariants ==
    /\ LiveIsRegistered /\ EntryIsLive /\ OneLiveTicker /\ TicksUnlessRaced
    /\ OneRunPerCheck /\ RecoveredChecksActive /\ CurrentIsValid /\ QuietMeansCurrent
    /\ RememberedAnswersHold /\ ClassifiersAgree /\ DelayIsEnough
    /\ RepairIsExact /\ StrictImpliesValid /\ NothingLostByStop /\ LogsAreTheFirst
    /\ AggregateKeepsNewest /\ MonitorAddsUp /\ ReportsMatchRuns

(* The composition satisfies for every value of the constants what its run *)
(* checks for a few, the service its queue implements included.            *)
THEOREM PartsAreCorrect == PartsSpec => []PartsInvariants /\ ImplementsService
<1>1. PartsSafety => []PartsInvariants
    BY LiveCollectionsRegistered, EntriesLive, TimersDoNotLeak, TimersTickUnlessRaced,
        ChecksRunOnce, RecoveryIsComplete, ValidStaysInForce, RestIsCurrent, AnswersHold,
        AllClassifiersAgree, DelaysAreEnough, RepairsAreExact, StrictIsStronger,
        NothingIsLost, LogsKept, AggregatesAreNewest, StatisticsAddUp, SuccessesAreReported,
        PTL
    DEF PartsSafety, PartsInvariants
<1>2. PartsSafety => ImplementsService
    BY QueueImplementsService DEF PartsSafety
<1>. QED BY PartsRunEachPart, <1>1, <1>2
=============================================================================
