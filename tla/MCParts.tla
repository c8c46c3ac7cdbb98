------------------------------- MODULE MCParts -------------------------------
(***************************************************************************)
(* The parts of the agent that share no state with the scheduler's core,   *)
(* checked side by side in one run: a behaviour picks a part at its start  *)
(* and is a behaviour of that part's specification, while the others stay  *)
(* as they were initially.                                                 *)
(***************************************************************************)
EXTENDS QueueClient, CollectorManager, TaskTimer, ResourceControl, ConfigManager,
        DataScope, RetryBackoff, ConfigRules, AppLifecycle, LogPipe, Aggregator, Pipeline

CONSTANTS a, b, c, d, v0, v1, v2, bad, worse, junk

VARIABLE part

Part == {"queue", "collectors", "timer", "resources", "config", "scope", "backoff",
         "rules", "app", "log", "aggregator", "pipeline"}

MCTask == {a, b, c, d}
MCPriority == (a :> 1) @@ (b :> 2) @@ (c :> 2) @@ (d :> 3)
MCRepairOf == [f \in {bad} |-> v2]

(* A check of which one collector is unknown, one with a collector that    *)
(* the validator's tables hold, and one that is disabled and has no name.  *)
MCChecks ==
    {[name |-> "load", collectors |-> {"cpu", "nosuch"}, enabled |-> TRUE],
     [name |-> "disks", collectors |-> {"disk_smart"}, enabled |-> TRUE],
     [name |-> "", collectors |-> {"memory"}, enabled |-> FALSE]}

(* The application's registry and a collector of a name in those tables.   *)
MCRegistry == Registered \cup {"disk_smart"}

-----------------------------------------------------------------------------
(* The variables of the parts other than p do not change. *)
Rest(p) ==
    /\ part = p /\ UNCHANGED part
    /\ IF p = "queue" THEN TRUE ELSE UNCHANGED vars
    /\ IF p = "collectors" THEN TRUE ELSE UNCHANGED collectorVars
    /\ IF p = "timer" THEN TRUE ELSE UNCHANGED timerVars
    /\ IF p = "resources" THEN TRUE ELSE UNCHANGED resourceVars
    /\ IF p = "config" THEN TRUE ELSE UNCHANGED configVars
    /\ IF p = "scope" THEN TRUE ELSE UNCHANGED scopeVars
    /\ IF p = "backoff" THEN TRUE ELSE UNCHANGED backoffVars
    /\ IF p = "rules" THEN TRUE ELSE UNCHANGED rulesVars
    /\ IF p = "app" THEN TRUE ELSE UNCHANGED appVars
    /\ IF p = "log" THEN TRUE ELSE UNCHANGED logVars
    /\ IF p = "aggregator" THEN TRUE ELSE UNCHANGED aggVars
    /\ IF p = "pipeline" THEN TRUE ELSE UNCHANGED pipeVars

(* A part that has several initial states and does not run has one. *)
PartsInit ==
    /\ part \in Part
    /\ Init /\ CollectorInit /\ TimerInit /\ ResourceInit /\ ConfigInit /\ ScopeInit
    /\ BackoffInit /\ RulesInit /\ AppInit /\ LogInit /\ AggInit /\ PipeInit
    /\ part = "log" \/ (component = "cni" /\ total = 0)
    /\ part = "aggregator" \/ settings = [max |-> 0, compression |-> FALSE, retention |-> 0]

PartsNext ==
    \/ part = "queue" /\ Next /\ Rest("queue")
    \/ part = "collectors" /\ CollectorNext /\ Rest("collectors")
    \/ part = "timer" /\ TimerNext /\ Rest("timer")
    \/ part = "resources" /\ ResourceNext /\ Rest("resources")
    \/ part = "config" /\ ConfigNext /\ Rest("config")
    \/ part = "scope" /\ ScopeNext /\ Rest("scope")
    \/ part = "backoff" /\ BackoffNext /\ Rest("backoff")
    \/ part = "rules" /\ RulesNext /\ Rest("rules")
    \/ part = "app" /\ AppNext /\ Rest("app")
    \/ part = "log" /\ LogNext /\ Rest("log")
    \/ part = "aggregator" /\ AggNext /\ Rest("aggregator")
    \/ part = "pipeline" /\ PipeNext /\ Rest("pipeline")

partsVars == <<part, vars, collectorVars, timerVars, resourceVars, configVars, scopeVars,
               backoffVars, rulesVars, appVars, logVars, aggVars, pipeVars>>

PartsSpec ==
    /\ PartsInit /\ [][PartsNext]_partsVars
    /\ WF_partsVars(part = "log" /\ ReaderStep /\ Rest("log"))

-----------------------------------------------------------------------------
(* Every part's variables keep their types. *)
PartsTypeOK ==
    /\ part \in Part
    /\ CollectorTypeOK /\ TimerTypeOK /\ ResourceTypeOK /\ ConfigTypeOK /\ ScopeTypeOK
    /\ BackoffTypeOK /\ RulesTypeOK /\ AppTypeOK /\ LogTypeOK /\ AggTypeOK /\ PipeTypeOK
==============================================================================
