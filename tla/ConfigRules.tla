----------------------------- MODULE ConfigRules -----------------------------
(***************************************************************************)
(* internal/config: which configurations the loader accepts (manager.go),  *)
(* what the error handler makes of one it refuses (error_handler.go), and  *)
(* which ones the strict Validator accepts (validator.go).  An operator    *)
(* edits a configuration, starting from the default one (config.go); times *)
(* are in seconds.                                                         *)
(***************************************************************************)
EXTENDS ScopeTables, Integers, SequencesExt

CONSTANT MaxEdits       \* bound: edits of the draft

ASSUME RulesAssumption == MaxEdits \in Nat

VARIABLES
    draft,      \* the configuration that is edited
    edits       \* number of edits so far

rulesVars == <<draft, edits>>

Mode == {"local_only", "cluster_supplement", "auto"}

DefaultCheck ==
    [name |-> "node_health", interval |-> 300, timeout |-> 30,
     collectors |-> {"cpu", "memory", "disk"}, mode |-> "auto", priority |-> 1]

DefaultConfig ==
    [version |-> "1.0", checks |-> <<DefaultCheck>>,
     maxCPU |-> 5, maxMemory |-> 100, minInterval |-> 60, maxConcurrent |-> 1,
     mode |-> "auto",
     types |-> {"cpu_throttling", "cpu_temperature", "memory_fragmentation",
                "disk_smart", "network_interface_errors", "kubelet_process",
                "process_cpu_usage", "kernel_dmesg", "cert_validity",
                "node_cpu_usage", "node_memory_usage", "node_disk_io"},
     endpoint |-> "url", timeout |-> 10, maxRetries |-> 3, retryDelay |-> 5]

(* The values an edit may write: at, below and above the limits of a rule. *)
FieldValues ==
    [version |-> {"", "1.0"}, maxCPU |-> {0, 5, 101}, maxMemory |-> {0, 100, 1001},
     minInterval |-> {0, 60}, maxConcurrent |-> {0, 1}, mode |-> {"", "auto"},
     types |-> {{}, {"node_cpu_usage"}}, endpoint |-> {"", "url"}, timeout |-> {0, 10},
     maxRetries |-> {-1, 3}, retryDelay |-> {-1, 5}]

CheckValues ==
    [name |-> {"", "two words"}, interval |-> {0, 20, 60, 3660}, timeout |-> {0, 30},
     collectors |-> {{}, {"cpu_frequency"}}, mode |-> {"", "local_only"}, priority |-> {0, 10}]

RulesTypeOK ==
    /\ \A f \in DOMAIN FieldValues : draft[f] \in FieldValues[f] \cup {DefaultConfig[f]}
    /\ Len(draft.checks) <= 2
    /\ \A c \in ToSet(draft.checks), f \in DOMAIN CheckValues :
        c[f] \in CheckValues[f] \cup {DefaultCheck[f]}
    /\ edits \in 0..MaxEdits

RulesInit == draft = DefaultConfig /\ edits = 0

EditField(f) == \E v \in FieldValues[f] : draft' = [draft EXCEPT ![f] = v]

EditCheck(i, f) == \E v \in CheckValues[f] : draft' = [draft EXCEPT !.checks[i][f] = v]

AddCheck == Len(draft.checks) < 2 /\ draft' = [draft EXCEPT !.checks = Append(@, DefaultCheck)]

RemoveCheck == draft.checks # <<>> /\ draft' = [draft EXCEPT !.checks = Tail(@)]

RulesNext ==
    /\ edits < MaxEdits /\ edits' = edits + 1
    /\ \/ \E f \in DOMAIN FieldValues : EditField(f)
       \/ \E i \in DOMAIN draft.checks, f \in DOMAIN CheckValues : EditCheck(i, f)
       \/ AddCheck
       \/ RemoveCheck

RulesSpec == RulesInit /\ [][RulesNext]_rulesVars

-----------------------------------------------------------------------------
(* validateConfig of the loader *)
ValidCheck(c) ==
    c.name # "" /\ c.interval > 0 /\ c.timeout > 0 /\ c.collectors # {} /\ c.mode \in Mode

Valid(c) ==
    /\ c.version # "" /\ c.checks # <<>>
    /\ \A k \in ToSet(c.checks) : ValidCheck(k)
    /\ c.maxCPU \in 1..100 /\ c.maxMemory > 0 /\ c.maxConcurrent > 0
    /\ c.mode \in Mode
    /\ c.endpoint # "" /\ c.timeout > 0 /\ c.maxRetries >= 0

(* The error handler has a copy of it, for what it repaired. *)
ValidAfterRepair(c) == Valid(c)

Or(v, ok, else) == IF ok THEN v ELSE else

(* Mutant: a check without collectors is not repaired. *)
RepairCheckNoCollectors(c) ==
    [c EXCEPT !.interval = Or(@, @ > 0, 300), !.timeout = Or(@, @ > 0, 30),
              !.mode = Or(@, @ \in Mode, "auto")]

RepairCheck(c) ==
    [c EXCEPT !.interval = Or(@, @ > 0, 300), !.timeout = Or(@, @ > 0, 30),
              !.mode = Or(@, @ \in Mode, "auto"),
              !.collectors = Or(@, @ # {}, {"cpu", "memory", "disk", "network"})]

(* applyAllValidationFixes *)
Repair(c) ==
    [c EXCEPT !.version = Or(@, @ # "", "1.0"),
              !.checks = LET given == Or(@, @ # <<>>, DefaultConfig.checks)
                         IN  [i \in DOMAIN given |-> RepairCheck(given[i])],
              !.maxCPU = Or(@, @ \in 1..100, 5), !.maxMemory = Or(@, @ > 0, 100),
              !.maxConcurrent = Or(@, @ > 0, 10), !.mode = Or(@, @ \in Mode, "auto"),
              !.endpoint = Or(@, @ # "", "url"), !.timeout = Or(@, @ > 0, 30),
              !.maxRetries = Or(@, @ >= 0, 3)]

-----------------------------------------------------------------------------
(* The strict Validator, with its limits of an interval: a minute, an hour *)
MinInterval == 60
MaxInterval == 3600

(* Mutant: the timeout is only compared with the interval. *)
StrictCheckTimeout(c) ==
    /\ c.name \notin {"", "two words"}
    /\ MinInterval <= c.interval /\ c.interval <= MaxInterval
    /\ c.collectors # {} /\ c.collectors \subseteq ValidCollectors
    /\ c.mode \in Mode
    /\ c.timeout <= c.interval
    /\ c.priority \in 1..10

StrictCheck(c) ==
    /\ c.name \notin {"", "two words"}
    /\ MinInterval <= c.interval /\ c.interval <= MaxInterval
    /\ c.collectors # {} /\ c.collectors \subseteq ValidCollectors
    /\ c.mode \in Mode
    /\ c.timeout > 0 /\ c.timeout <= c.interval
    /\ c.priority \in 1..10

StrictLimits(c) ==
    /\ c.maxCPU \in 1..100 /\ c.maxMemory \in 1..1000
    /\ c.minInterval >= MinInterval /\ c.maxConcurrent > 0

StrictScope(c) == c.mode \in Mode /\ c.types \subseteq ValidCollectors

StrictReporter(c) == c.endpoint # "" /\ c.timeout > 0 /\ c.maxRetries >= 0 /\ c.retryDelay >= 0

Strict(c) ==
    /\ c.version # "" /\ c.checks # <<>>
    /\ \A k \in ToSet(c.checks) : StrictCheck(k)
    /\ StrictLimits(c) /\ StrictScope(c) /\ StrictReporter(c)

-----------------------------------------------------------------------------
(* The repairs and the rules, written apart, fit together: a configuration *)
(* the loader accepts is left alone, and any other becomes acceptable      *)
(* unless a check has no name, which no repair gives it.  So a file that   *)
(* was repaired is never refused and repaired again when it is reloaded    *)
(* (error_handler.go:304 and :439).                                        *)
RepairIsExact ==
    /\ Valid(draft) => Repair(draft) = draft
    /\ ValidAfterRepair(Repair(draft)) <=> \A c \in ToSet(draft.checks) : c.name # ""
    /\ Repair(Repair(draft)) = Repair(draft)

(* What the strict Validator accepts, the loader accepts as it is: the two *)
(* sets of rules were written apart (validator.go:92, manager.go:217).     *)
StrictImpliesValid == Strict(draft) => Valid(draft) /\ Repair(draft) = draft
==============================================================================
