------------------------- MODULE Application_proofs -------------------------
(***************************************************************************)
(* Theorems about the configuration and the application: what is in force  *)
(* while other programs change the file, what the repairs and the two sets *)
(* of rules say of every configuration there is, and what stopping the     *)
(* application leaves behind.                                              *)
(***************************************************************************)
EXTENDS ConfigManager, AppLifecycle, ConfigRules, TLAPS

-----------------------------------------------------------------------------
(* The configuration in force: ConfigManager.                              *)

(* What a Load in progress may put in force has been validated.            *)
ValidInHand == loader \in {"rewrite", "commit"} => read \in Good

(* What a Load makes of a content that nobody changes meanwhile            *)
Recovered(c) == IF Repaired(c) \in Good THEN Repaired(c) ELSE Default

(* What the last reading says, as long as no change fell into the Load.    *)
InHand ==
    /\ loader \in {"judge", "format", "repair"} => read = file /\ file \in Content
    /\ loader = "format" => read \in Broken
    /\ loader = "repair" => read \notin Good
    /\ loader \in {"rewrite", "commit"} => read = Recovered(file)
    /\ loader = "start" => config = Recovered(file) /\ ~fresh

(* An unnoticed change leaves its time stamp or its event.                 *)
Noticed ==
    loader \in {"wait", "debounce"} /\ watch = "on" =>
        /\ ~fresh => config = Recovered(file)
        /\ loader = "wait" /\ fresh => event

ConfigInv ==
    /\ ConfigTypeOK /\ ValidInHand /\ CurrentIsValid
    /\ ~overlooked => InHand /\ Noticed

-----------------------------------------------------------------------------
(* Every content leads to a valid configuration, and a valid content to    *)
(* itself (error_handler.go:72).                                           *)
LEMMA RecoveredFacts ==
    /\ \A c \in Good : Recovered(c) = c
    /\ \A c \in Content \cup {Absent} : Recovered(c) \in Good
    /\ \A c \in Repairable : Repaired(c) \in Good
BY ConfigAssumption DEF Recovered, Repaired, Content

(* A change of the file by another program: noticed by its time stamp and  *)
(* its event, or in a Load and overlooked, or at the price of the watch.   *)
LEMMA ChangeStep ==
    ASSUME ConfigInv, NEW c \in Content \cup {Absent}, NEW seen \in BOOLEAN, NEW moved \in BOOLEAN,
           seen \/ moved, ChangeFile(c, seen, moved)
    PROVE  ConfigInv'
<1>. USE ConfigAssumption DEF ConfigInv, ChangeFile
<1>1. ConfigTypeOK' /\ ValidInHand' /\ CurrentIsValid'
    BY DEF ConfigTypeOK, ValidInHand, CurrentIsValid
<1>2. ASSUME ~overlooked' PROVE InHand' /\ Noticed'
    BY <1>2 DEF ConfigTypeOK, InLoad, InHand, Noticed
<1>. QED BY <1>1, <1>2

(* Load keeps what it read in step with the file it read (manager.go:46).  *)
LEMMA LoadStep ==
    ASSUME ConfigInv, ReadFile \/ Judge \/ Reread
    PROVE  ConfigInv'
<1>. USE ConfigAssumption DEF ConfigInv
<1>1. CASE ReadFile
    BY <1>1 DEF ReadFile, ConfigTypeOK, ValidInHand, CurrentIsValid, InHand, Noticed
<1>2. CASE Judge
    <2>1. loader' \in {"commit", "format", "repair"} /\ (loader' = "commit" => read \in Good)
        BY <1>2 DEF Judge
    <2>2. ConfigTypeOK' /\ ValidInHand' /\ CurrentIsValid'
        BY <1>2, <2>1 DEF Judge, ConfigTypeOK, ValidInHand, CurrentIsValid
    <2>3. ASSUME ~overlooked' PROVE InHand' /\ Noticed'
        BY <1>2, <2>1, <2>3, RecoveredFacts DEF Judge, InHand, Noticed, Recovered
    <2>. QED BY <2>2, <2>3
<1>3. CASE Reread
    <2>1. /\ loader' \in {"rewrite", "commit"} /\ read' \in Good
          /\ UNCHANGED <<file, fresh, watch, event, config, modules, changes, overlooked>>
        BY <1>3 DEF Reread
    <2>2. ConfigTypeOK' /\ ValidInHand' /\ CurrentIsValid'
        BY <2>1 DEF ConfigTypeOK, ValidInHand, CurrentIsValid, Content
    <2>3. ASSUME ~overlooked PROVE read' = Recovered(file)
        <3>1. CASE loader = "format"
            BY <1>3, <2>3, <3>1 DEF Reread, InHand, Recovered, Repaired
        <3>2. CASE loader = "repair"
            BY <1>3, <2>3, <3>2 DEF Reread, InHand, Recovered
        <3>. QED BY <1>3, <3>1, <3>2 DEF Reread
    <2>4. ASSUME ~overlooked' PROVE InHand' /\ Noticed'
        BY <2>1, <2>3, <2>4 DEF InHand, Noticed, Recovered, Repaired
    <2>. QED BY <2>2, <2>4
<1>. QED BY <1>1, <1>2, <1>3

(* The program's own writes leave a content that leads to what it holds.   *)
LEMMA OwnWriteStep ==
    ASSUME ConfigInv, Rewrite \/ Create
    PROVE  ConfigInv'
<1>. USE ConfigAssumption DEF ConfigInv
<1>1. /\ loader' = "commit" /\ read' \in Good /\ file' = read' /\ event' \in BOOLEAN /\ fresh'
      /\ UNCHANGED <<watch, config, modules, changes, overlooked>>
    BY DEF Rewrite, Create, OwnWrite, ValidInHand, ConfigTypeOK
<1>2. ConfigTypeOK' /\ ValidInHand' /\ CurrentIsValid'
    BY <1>1 DEF ConfigTypeOK, ValidInHand, CurrentIsValid, Content
<1>3. read' = Recovered(file')
    BY <1>1, RecoveredFacts
<1>4. InHand' /\ Noticed'
    BY <1>1, <1>3 DEF InHand, Noticed, Recovered, Repaired
<1>. QED BY <1>2, <1>4

(* The configuration is put in force with its time stamp (manager.go:74).  *)
LEMMA CommitStep == ASSUME ConfigInv, Commit PROVE ConfigInv'
<1>. USE DEF ConfigInv, Commit
<1>1. ConfigTypeOK' /\ ValidInHand' /\ CurrentIsValid'
    BY DEF ConfigTypeOK, ValidInHand, CurrentIsValid, Content
<1>2. ASSUME ~overlooked' PROVE InHand' /\ Noticed'
    BY <1>2 DEF InHand, Noticed, Recovered, Repaired
<1>. QED BY <1>1, <1>2

(* The watching goroutine reloads what its event or a later change says    *)
(* (manager.go:193).                                                       *)
LEMMA WatchStep ==
    ASSUME ConfigInv, Watch \/ ReceiveEvent \/ Reload
    PROVE  ConfigInv'
<1>. USE DEF ConfigInv
<1>1. CASE Watch
    BY <1>1
       DEF Watch, ConfigTypeOK, ValidInHand, CurrentIsValid, InHand, Noticed, Recovered, Repaired
<1>2. CASE ReceiveEvent
    BY <1>2
       DEF ReceiveEvent, ConfigTypeOK, ValidInHand, CurrentIsValid, InHand, Noticed, Recovered,
           Repaired
<1>3. CASE Reload
    <2>1. loader' \in {"create", "load", "wait"} /\ (loader' = "wait" => ~fresh)
        BY <1>3 DEF Reload
    <2>2. ConfigTypeOK' /\ ValidInHand' /\ CurrentIsValid'
        BY <1>3, <2>1 DEF Reload, ConfigTypeOK, ValidInHand, CurrentIsValid
    <2>3. ASSUME ~overlooked' PROVE InHand' /\ Noticed'
        BY <1>3, <2>1, <2>3 DEF Reload, ConfigTypeOK, InHand, Noticed, Recovered, Repaired
    <2>. QED BY <2>2, <2>3
<1>. QED BY <1>1, <1>2, <1>3

(* The inductive invariant of the configuration manager (manager.go:46).   *)
THEOREM ConfigInvariant == ConfigSpec => []ConfigInv
<1>1. ConfigInit => ConfigInv
    <2>. SUFFICES ASSUME ConfigInit PROVE ConfigInv
        OBVIOUS
    <2>1. ConfigTypeOK
        <3>1. changes \in 0..MaxChanges
            BY ConfigAssumption DEF ConfigInit
        <3>2. config \in Content
            BY ConfigAssumption DEF ConfigInit, Content
        <3>. QED BY <3>1, <3>2, Zenon DEF ConfigInit, ConfigTypeOK
    <2>2. ValidInHand /\ CurrentIsValid /\ InHand /\ Noticed
        BY ConfigAssumption DEF ConfigInit, ValidInHand, CurrentIsValid, InHand, Noticed
    <2>. QED BY <2>1, <2>2 DEF ConfigInv
<1>2. ConfigInv /\ [ConfigNext]_configVars => ConfigInv'
    <2>. SUFFICES ASSUME ConfigInv, [ConfigNext]_configVars PROVE ConfigInv'
        OBVIOUS
    <2>1. CASE Program
        BY <2>1, LoadStep, OwnWriteStep, CommitStep, WatchStep DEF Program
    <2>2. CASE \E c \in Content : Write(c) \/ Replace(c)
        BY <2>2, ChangeStep DEF Write, Replace
    <2>3. CASE Delete \/ MoveAway
        BY <2>3, ChangeStep DEF Delete, MoveAway
    <2>4. CASE UNCHANGED configVars
        BY <2>4
           DEF configVars, ConfigInv, ConfigTypeOK, ValidInHand, CurrentIsValid, InHand, Noticed,
               Recovered, Repaired
    <2>. QED BY <2>1, <2>2, <2>3, <2>4 DEF ConfigNext
<1>. QED BY <1>1, <1>2, PTL DEF ConfigSpec

(* Whatever other programs do to the file, and however often, the          *)
(* configuration in use is a validated one (manager.go:63).                *)
THEOREM ValidStaysInForce == ConfigSpec => []CurrentIsValid
BY ConfigInvariant, PTL DEF ConfigInv

(* A watching goroutine at rest has the configuration of a valid file,     *)
(* unless the watch went with its inode or a change fell into the last     *)
(* Load (manager.go:74, 197).                                              *)
THEOREM RestIsCurrent == ConfigSpec => []QuietMeansCurrent
<1>1. ConfigInv => QuietMeansCurrent
    BY RecoveredFacts DEF ConfigInv, Noticed, QuietMeansCurrent, Quiet
<1>. QED BY <1>1, ConfigInvariant, PTL

-----------------------------------------------------------------------------
(* Starting and stopping: AppLifecycle.                                    *)

(* Before Start is through nothing runs; once Stop has seen the scheduler  *)
(* drain nothing runs any more, and what the reporter writes stays true.   *)
AppInv ==
    /\ AppTypeOK
    /\ phase \in {"loaded", "watching", "reporting"} =>
           /\ ~loop /\ held = {}
           /\ \A e \in Execution : execution[e] = "new"
    /\ phase \in {"drained", "persisted", "closed"} => AllDone
    /\ phase \in {"persisted", "closed"} => writeFailed \/ held = saved
    /\ phase = "exited" => timedOut \/ held = {}

(* Starting up runs the loop only at the end, and a start that fails       *)
(* leaves nothing behind (app.go:184).                                     *)
LEMMA StartUpStep == ASSUME AppInv, Start PROVE AppInv'
<1>1. CASE StartFails
    BY <1>1 DEF AppInv, AppTypeOK, StartFails
<1>2. ASSUME NEW from \in {"loaded", "watching", "reporting"},
             NEW to \in {"watching", "reporting", "running"}, StartUp(from, to)
      PROVE  AppInv'
    BY <1>2 DEF AppInv, AppTypeOK, StartUp
<1>. QED BY <1>1, <1>2 DEF Start

(* An execution takes a step only while the scheduler is not drained.      *)
LEMMA ExecutionStep ==
    ASSUME AppInv, NEW e \in Execution, BeginExecution(e) \/ Accept(e) \/ EndSending(e)
    PROVE  AppInv'
<1>1. phase \in {"running", "draining"}
    BY DEF AppInv, AppTypeOK, AllDone, Alive, BeginExecution, Accept, EndSending
<1>2. phase' = phase
    BY DEF BeginExecution, Accept, EndSending
<1>3. AppTypeOK'
    BY DEF AppInv, AppTypeOK, BeginExecution, Accept, EndSending
<1>. QED BY <1>1, <1>2, <1>3 DEF AppInv

(* Stop goes on only when everything is done (app.go:205).                 *)
LEMMA StopStep ==
    ASSUME AppInv, EndLoop \/ Signal \/ Drained \/ GiveUp \/ StopReporter \/ CloseConfig
    PROVE  AppInv'
<1>1. CASE EndLoop
    BY <1>1 DEF AppInv, AppTypeOK, AllDone, Alive, EndLoop
<1>2. CASE Signal
    BY <1>2 DEF AppInv, AppTypeOK, AllDone, Signal
<1>3. CASE Drained
    BY <1>3 DEF AppInv, AppTypeOK, AllDone, Drained
<1>4. CASE GiveUp
    BY <1>4 DEF AppInv, AppTypeOK, AllDone, GiveUp
<1>5. CASE StopReporter
    BY <1>5 DEF AppInv, AppTypeOK, AllDone, StopReporter
<1>6. CASE CloseConfig
    BY <1>6 DEF AppInv, AppTypeOK, AllDone, CloseConfig
<1>. QED BY <1>1, <1>2, <1>3, <1>4, <1>5, <1>6

(* The inductive invariant of starting and stopping (app.go:184, 205).     *)
THEOREM AppInvariant == AppSpec => []AppInv
<1>1. AppInit => AppInv
    BY DEF AppInit, AppInv, AppTypeOK
<1>2. AppInv /\ [AppNext]_appVars => AppInv'
    <2>. SUFFICES ASSUME AppInv, [AppNext]_appVars PROVE AppInv'
        OBVIOUS
    <2>1. CASE UNCHANGED appVars
        BY <2>1 DEF appVars, AppInv, AppTypeOK, AllDone
    <2>. QED BY <2>1, StartUpStep, ExecutionStep, StopStep DEF AppNext
<1>. QED BY <1>1, <1>2, PTL DEF AppSpec

(* For any number of executions, however they interleave with Stop, no     *)
(* report is lost by stopping unless the scheduler did not drain in time   *)
(* or the cache could not be written (app.go:217).                         *)
THEOREM NothingIsLost == AppSpec => []NothingLostByStop
<1>1. AppInv => NothingLostByStop
    BY DEF AppInv, NothingLostByStop
<1>. QED BY <1>1, AppInvariant, PTL

-----------------------------------------------------------------------------
(* Repairs and rules: ConfigRules.                                         *)

(* The strings; the literals are listed because no prover knows that they  *)
(* are in STRING.                                                          *)
Text == STRING \cup
    {"", "1.0", "two words", "node_health", "url", "auto", "local_only", "cluster_supplement",
     "cpu", "memory", "disk", "network", "cpu_frequency", "cpu_throttling", "cpu_temperature",
     "memory_fragmentation", "disk_smart", "network_interface_errors", "kubelet_process",
     "process_cpu_usage", "kernel_dmesg", "cert_validity", "node_cpu_usage",
     "node_memory_usage", "node_disk_io"}

(* The shape of a check and of a configuration, as config.go declares them. *)
CheckRecord == [name : Text, interval : Int, timeout : Int, collectors : SUBSET Text,
                mode : Text, priority : Int]

(* The shape of a configuration (config.go:8)                              *)
Configuration ==
    [version : Text, checks : Seq(CheckRecord), maxCPU : Int, maxMemory : Int,
     minInterval : Int, maxConcurrent : Int, mode : Text, types : SUBSET Text,
     endpoint : Text, timeout : Int, maxRetries : Int, retryDelay : Int]

(* A draft has the shape of a configuration; the properties follow from    *)
(* that alone.                                                             *)
DraftInv == draft \in Configuration

(* The default configuration has the shape of one (config.go:60).          *)
LEMMA DefaultsFit == DefaultCheck \in CheckRecord /\ DefaultConfig \in Configuration
<1>1. DefaultCheck \in CheckRecord
    BY DEF DefaultCheck, CheckRecord, Text
<1>2. <<DefaultCheck>> \in Seq(CheckRecord)
    BY <1>1
<1>. HIDE DEF DefaultCheck
<1>. QED BY <1>1, <1>2 DEF DefaultConfig, Configuration, Text

(* The values that edits put into a field are of its type.                 *)
LEMMA EditsFit ==
    /\ DOMAIN FieldValues = {"version", "maxCPU", "maxMemory", "minInterval", "maxConcurrent", "mode",
                              "types", "endpoint", "timeout", "maxRetries", "retryDelay"}
    /\ \A f \in {"version", "mode", "endpoint"} : FieldValues[f] \subseteq Text
    /\ \A f \in {"maxCPU", "maxMemory", "minInterval", "maxConcurrent", "timeout", "maxRetries",
                   "retryDelay"} : FieldValues[f] \subseteq Int
    /\ FieldValues["types"] \subseteq SUBSET Text
    /\ DOMAIN CheckValues = {"name", "interval", "timeout", "collectors", "mode", "priority"}
    /\ \A f \in {"name", "mode"} : CheckValues[f] \subseteq Text
    /\ \A f \in {"interval", "timeout", "priority"} : CheckValues[f] \subseteq Int
    /\ CheckValues["collectors"] \subseteq SUBSET Text
<1>1. DOMAIN FieldValues = {"version", "maxCPU", "maxMemory", "minInterval", "maxConcurrent", "mode",
                            "types", "endpoint", "timeout", "maxRetries", "retryDelay"}
    BY DEF FieldValues, Text
<1>2. FieldValues["version"] \subseteq Text /\ FieldValues["mode"] \subseteq Text
        /\ FieldValues["endpoint"] \subseteq Text
    BY DEF FieldValues, Text
<1>3. FieldValues["maxCPU"] \subseteq Int /\ FieldValues["maxMemory"] \subseteq Int
        /\ FieldValues["minInterval"] \subseteq Int /\ FieldValues["maxConcurrent"] \subseteq Int
        /\ FieldValues["timeout"] \subseteq Int /\ FieldValues["maxRetries"] \subseteq Int
        /\ FieldValues["retryDelay"] \subseteq Int
    BY DEF FieldValues, Text
<1>4. FieldValues["types"] \subseteq SUBSET Text
    BY DEF FieldValues, Text
<1>5. DOMAIN CheckValues = {"name", "interval", "timeout", "collectors", "mode", "priority"}
    BY DEF CheckValues, Text
<1>6. CheckValues["name"] \subseteq Text /\ CheckValues["mode"] \subseteq Text
    BY DEF CheckValues, Text
<1>7. CheckValues["interval"] \subseteq Int /\ CheckValues["timeout"] \subseteq Int
        /\ CheckValues["priority"] \subseteq Int
    BY DEF CheckValues, Text
<1>8. CheckValues["collectors"] \subseteq SUBSET Text
    BY DEF CheckValues, Text
<1>. QED BY <1>1, <1>2, <1>3, <1>4, <1>5, <1>6, <1>7, <1>8

(* An edit of a field keeps the shape.                                     *)
LEMMA FieldKeeps ==
    ASSUME DraftInv, NEW f \in DOMAIN FieldValues, NEW v \in FieldValues[f],
           draft' = [draft EXCEPT ![f] = v]
    PROVE  DraftInv'
<1>1. f \in {"version", "maxCPU", "maxMemory", "minInterval", "maxConcurrent", "mode", "types",
             "endpoint", "timeout", "maxRetries", "retryDelay"}
    BY EditsFit
<1>2. CASE f \in {"version", "mode", "endpoint"}
    <2>1. v \in Text
        BY <1>2, EditsFit
    <2>. QED BY <1>2, <2>1 DEF DraftInv, Configuration
<1>3. CASE f = "types"
    <2>1. v \in SUBSET Text
        BY <1>3, EditsFit
    <2>. QED BY <1>3, <2>1 DEF DraftInv, Configuration
<1>4. CASE f \in {"maxCPU", "maxMemory", "minInterval", "maxConcurrent", "timeout", "maxRetries", "retryDelay"}
    <2>1. v \in Int
        BY <1>4, EditsFit
    <2>. QED BY <1>4, <2>1 DEF DraftInv, Configuration
<1>. QED BY <1>1, <1>2, <1>3, <1>4

(* An edit of a field of one check keeps the shape.                        *)
LEMMA CheckKeeps ==
    ASSUME DraftInv, NEW i \in DOMAIN draft.checks, NEW f \in DOMAIN CheckValues,
           NEW v \in CheckValues[f], draft' = [draft EXCEPT !.checks[i][f] = v]
    PROVE  DraftInv'
<1>. DEFINE c == draft.checks[i]
            d == [c EXCEPT ![f] = v]
<1>1. draft.checks \in Seq(CheckRecord) /\ c \in CheckRecord
    BY DEF DraftInv, Configuration
<1>2. f \in {"name", "interval", "timeout", "collectors", "mode", "priority"}
    BY EditsFit
<1>3. d \in CheckRecord
    <2>1. CASE f \in {"name", "mode"}
        <3>1. v \in Text
            BY <2>1, EditsFit
        <3>. QED BY <1>1, <2>1, <3>1 DEF CheckRecord
    <2>2. CASE f = "collectors"
        <3>1. v \in SUBSET Text
            BY <2>2, EditsFit
        <3>. QED BY <1>1, <2>2, <3>1 DEF CheckRecord
    <2>3. CASE f \in {"interval", "timeout", "priority"}
        <3>1. v \in Int
            BY <2>3, EditsFit
        <3>. QED BY <1>1, <2>3, <3>1 DEF CheckRecord
    <2>. QED BY <1>2, <2>1, <2>2, <2>3
<1>4. draft' = [draft EXCEPT !.checks = [draft.checks EXCEPT ![i] = d]]
    BY <1>1 DEF DraftInv, Configuration
<1>. HIDE DEF d
<1>5. [draft.checks EXCEPT ![i] = d] \in Seq(CheckRecord)
    BY <1>1, <1>3
<1>. QED BY <1>4, <1>5 DEF DraftInv, Configuration

(* Every draft that edits make of the default configuration has the shape  *)
(* of one (config.go:60).                                                  *)
LEMMA DraftInvariant == RulesSpec => []DraftInv
<1>1. RulesInit => DraftInv
    BY DefaultsFit DEF RulesInit, DraftInv
<1>2. DraftInv /\ [RulesNext]_rulesVars => DraftInv'
    <2>. SUFFICES ASSUME DraftInv, [RulesNext]_rulesVars PROVE DraftInv'
        OBVIOUS
    <2>1. ASSUME AddCheck PROVE DraftInv'
        <3>1. Append(draft.checks, DefaultCheck) \in Seq(CheckRecord)
            BY DefaultsFit DEF DraftInv, Configuration
        <3>. QED BY <2>1, <3>1 DEF AddCheck, DraftInv, Configuration
    <2>2. ASSUME RemoveCheck PROVE DraftInv'
        <3>1. Tail(draft.checks) \in Seq(CheckRecord)
            BY <2>2 DEF RemoveCheck, DraftInv, Configuration
        <3>. QED BY <2>2, <3>1 DEF RemoveCheck, DraftInv, Configuration
    <2>3. ASSUME UNCHANGED rulesVars PROVE DraftInv'
        BY <2>3 DEF rulesVars, DraftInv
    <2>. QED BY <2>1, <2>2, <2>3, FieldKeeps, CheckKeeps DEF RulesNext, EditField, EditCheck
<1>. QED BY <1>1, <1>2, PTL DEF RulesSpec

-----------------------------------------------------------------------------

(* Checks with the same fields are the same.                               *)
LEMMA SameCheck ==
    ASSUME NEW c \in CheckRecord, NEW d \in CheckRecord, c.name = d.name, c.interval = d.interval,
           c.timeout = d.timeout, c.collectors = d.collectors, c.mode = d.mode, c.priority = d.priority
    PROVE  c = d
BY DEF CheckRecord

(* Configurations with the same fields are the same.                       *)
LEMMA SameConfiguration ==
    ASSUME NEW c \in Configuration, NEW d \in Configuration, c.version = d.version,
           c.checks = d.checks, c.maxCPU = d.maxCPU, c.maxMemory = d.maxMemory,
           c.minInterval = d.minInterval, c.maxConcurrent = d.maxConcurrent, c.mode = d.mode,
           c.types = d.types, c.endpoint = d.endpoint, c.timeout = d.timeout,
           c.maxRetries = d.maxRetries, c.retryDelay = d.retryDelay
    PROVE  c = d
BY DEF Configuration

(* Or leaves what is in order and replaces what is not.                    *)
LEMMA OrIsInOrder ==
    /\ \A v, else : Or(v, TRUE, else) = v
    /\ \A v, else : Or(v, FALSE, else) = else
BY DEF Or

(* What a repair sees to in a check. *)
CheckInOrder(k) == k.interval > 0 /\ k.timeout > 0 /\ k.collectors # {} /\ k.mode \in Mode

(* A repaired check is in order and has its name, and a check in order is  *)
(* left alone (error_handler.go:315).                                      *)
LEMMA RepairedCheck ==
    ASSUME NEW k \in CheckRecord
    PROVE  /\ RepairCheck(k) \in CheckRecord
           /\ RepairCheck(k).name = k.name
           /\ CheckInOrder(RepairCheck(k))
           /\ CheckInOrder(k) => RepairCheck(k) = k
<1>1. /\ RepairCheck(k).name = k.name
      /\ RepairCheck(k).interval = IF k.interval > 0 THEN k.interval ELSE 300
      /\ RepairCheck(k).timeout = IF k.timeout > 0 THEN k.timeout ELSE 30
      /\ RepairCheck(k).collectors = IF k.collectors # {} THEN k.collectors ELSE {"cpu", "memory", "disk", "network"}
      /\ RepairCheck(k).mode = IF k.mode \in Mode THEN k.mode ELSE "auto"
      /\ RepairCheck(k).priority = k.priority
    BY DEF RepairCheck, CheckRecord, Or
<1>2. RepairCheck(k) \in CheckRecord
    <2>. DEFINE a == Or(k.interval, k.interval > 0, 300)
                b == Or(k.timeout, k.timeout > 0, 30)
                m == Or(k.mode, k.mode \in Mode, "auto")
                l == Or(k.collectors, k.collectors # {}, {"cpu", "memory", "disk", "network"})
    <2>1. a \in Int /\ b \in Int
        BY DEF CheckRecord, Or
    <2>2. "auto" \in Text /\ {"cpu", "memory", "disk", "network"} \in SUBSET Text
        BY DEF Text
    <2>3. m \in Text
        BY <2>2 DEF CheckRecord, Or
    <2>4. l \in SUBSET Text
        BY <2>2 DEF CheckRecord, Or
    <2>5. RepairCheck(k) = [k EXCEPT !.interval = a, !.timeout = b, !.mode = m, !.collectors = l]
        BY DEF RepairCheck
    <2>. HIDE DEF a, b, m, l
    <2>. QED BY <2>1, <2>3, <2>4, <2>5 DEF CheckRecord
<1>3. CheckInOrder(RepairCheck(k))
    BY <1>1 DEF CheckInOrder, CheckRecord, Mode
<1>4. CheckInOrder(k) => RepairCheck(k) = k
    BY DEF CheckInOrder, RepairCheck, CheckRecord, Or
<1>. QED BY <1>1, <1>2, <1>3, <1>4

(* What a repair leaves of a configuration, field by field. *)
Given(c) == Or(c.checks, c.checks # <<>>, DefaultConfig.checks)
RepairedChecks(c) == [i \in DOMAIN Given(c) |-> RepairCheck(Given(c)[i])]

(* What a repair does to each field of any configuration                   *)
(* (error_handler.go:304).                                                 *)
LEMMA RepairFields ==
    ASSUME NEW c \in Configuration
    PROVE  /\ Repair(c).version = Or(c.version, c.version # "", "1.0")
           /\ Repair(c).checks = RepairedChecks(c)
           /\ Repair(c).maxCPU = Or(c.maxCPU, c.maxCPU \in 1..100, 5)
           /\ Repair(c).maxMemory = Or(c.maxMemory, c.maxMemory > 0, 100)
           /\ Repair(c).minInterval = c.minInterval
           /\ Repair(c).maxConcurrent = Or(c.maxConcurrent, c.maxConcurrent > 0, 10)
           /\ Repair(c).mode = Or(c.mode, c.mode \in Mode, "auto")
           /\ Repair(c).types = c.types
           /\ Repair(c).endpoint = Or(c.endpoint, c.endpoint # "", "url")
           /\ Repair(c).timeout = Or(c.timeout, c.timeout > 0, 30)
           /\ Repair(c).maxRetries = Or(c.maxRetries, c.maxRetries >= 0, 3)
           /\ Repair(c).retryDelay = c.retryDelay
<1>. DEFINE a == Or(c.version, c.version # "", "1.0")
            ks == RepairedChecks(c)
            b == Or(c.maxCPU, c.maxCPU \in 1..100, 5)
            d == Or(c.maxMemory, c.maxMemory > 0, 100)
            e == Or(c.maxConcurrent, c.maxConcurrent > 0, 10)
            f == Or(c.mode, c.mode \in Mode, "auto")
            g == Or(c.endpoint, c.endpoint # "", "url")
            h == Or(c.timeout, c.timeout > 0, 30)
            l == Or(c.maxRetries, c.maxRetries >= 0, 3)
<1>1. Repair(c) = [c EXCEPT !.version = a, !.checks = ks, !.maxCPU = b, !.maxMemory = d,
                            !.maxConcurrent = e, !.mode = f, !.endpoint = g, !.timeout = h,
                            !.maxRetries = l]
    BY DEF Repair, RepairedChecks, Given
<1>. HIDE DEF a, ks, b, d, e, f, g, h, l
<1>2. /\ Repair(c).version = a /\ Repair(c).checks = ks /\ Repair(c).maxCPU = b
      /\ Repair(c).maxMemory = d /\ Repair(c).minInterval = c.minInterval
      /\ Repair(c).maxConcurrent = e /\ Repair(c).mode = f /\ Repair(c).types = c.types
      /\ Repair(c).endpoint = g /\ Repair(c).timeout = h /\ Repair(c).maxRetries = l
      /\ Repair(c).retryDelay = c.retryDelay
    BY <1>1 DEF Configuration
<1>. QED BY <1>2 DEF a, ks, b, d, e, f, g, h, l

(* What a repair sees to in a configuration: all the loader asks, but for  *)
(* the names of the checks.                                                *)
InOrder(c) ==
    /\ c.version # "" /\ c.checks # <<>>
    /\ \A i \in DOMAIN c.checks : CheckInOrder(c.checks[i])
    /\ c.maxCPU \in 1..100 /\ c.maxMemory > 0 /\ c.maxConcurrent > 0
    /\ c.mode \in Mode
    /\ c.endpoint # "" /\ c.timeout > 0 /\ c.maxRetries >= 0

Named(c) == \A k \in ToSet(c.checks) : k.name # ""

(* The loader accepts exactly the configurations in order whose checks     *)
(* have names (manager.go:217).                                            *)
LEMMA ValidIsInOrder ==
    ASSUME NEW c \in Configuration
    PROVE  Valid(c) <=> InOrder(c) /\ Named(c)
<1>1. ToSet(c.checks) = {c.checks[i] : i \in DOMAIN c.checks}
    BY DEF ToSet
<1>2. \A k \in ToSet(c.checks) : ValidCheck(k) <=> CheckInOrder(k) /\ k.name # ""
    BY DEF ValidCheck, CheckInOrder
<1>3. (\A k \in ToSet(c.checks) : ValidCheck(k)) <=>
        (\A i \in DOMAIN c.checks : CheckInOrder(c.checks[i])) /\ Named(c)
    BY <1>1, <1>2 DEF Named
<1>. QED BY <1>3 DEF Valid, InOrder

(* The repaired list of checks is not empty and in order, and has the      *)
(* names the list had, or that of the default check in place of an empty   *)
(* list (error_handler.go:310).                                            *)
LEMMA RepairedList ==
    ASSUME NEW c \in Configuration
    PROVE  /\ RepairedChecks(c) \in Seq(CheckRecord)
           /\ RepairedChecks(c) # <<>>
           /\ \A i \in DOMAIN RepairedChecks(c) : CheckInOrder(RepairedChecks(c)[i])
           /\ (\A i \in DOMAIN RepairedChecks(c) : RepairedChecks(c)[i].name # "") <=> Named(c)
<1>. DEFINE g == Given(c)
            r == RepairedChecks(c)
<1>1. c.checks \in Seq(CheckRecord)
    BY DEF Configuration
<1>2. DefaultConfig.checks = <<DefaultCheck>> /\ DefaultCheck \in CheckRecord /\ DefaultCheck.name # ""
    BY DefaultsFit DEF DefaultConfig, DefaultCheck
<1>3. g \in Seq(CheckRecord) /\ g # <<>>
    <2>1. CASE c.checks # <<>>
        <3>1. g = c.checks
            BY <2>1 DEF Given, Or
        <3>. QED BY <1>1, <2>1, <3>1
    <2>2. CASE c.checks = <<>>
        <3>1. g = <<DefaultCheck>>
            BY <1>2, <2>2 DEF Given, Or
        <3>. HIDE DEF g
        <3>2. DefaultCheck \in CheckRecord
            BY <1>2
        <3>3. <<DefaultCheck>> \in Seq(CheckRecord) /\ <<DefaultCheck>> # <<>>
            BY <3>2
        <3>. QED BY <3>1, <3>3
    <2>. QED BY <2>1, <2>2
<1>4. (\A i \in DOMAIN g : g[i].name # "") <=> Named(c)
    <2>1. CASE c.checks # <<>>
        <3>1. g = c.checks
            BY <2>1 DEF Given, Or
        <3>. QED BY <3>1 DEF Named, ToSet
    <2>2. CASE c.checks = <<>>
        <3>1. g = <<DefaultCheck>>
            BY <1>2, <2>2 DEF Given, Or
        <3>2. \A i \in DOMAIN g : g[i].name # ""
            <4>1. DOMAIN <<DefaultCheck>> = {1} /\ <<DefaultCheck>>[1] = DefaultCheck
                OBVIOUS
            <4>2. DefaultCheck.name # ""
                BY <1>2
            <4>. HIDE DEF g
            <4>3. \A i \in DOMAIN g : g[i] = DefaultCheck
                BY <3>1, <4>1
            <4>. QED BY <4>2, <4>3
        <3>3. ToSet(c.checks) = {}
            BY <2>2 DEF ToSet
        <3>. QED BY <3>2, <3>3 DEF Named
    <2>. QED BY <2>1, <2>2
<1>5. r = [i \in DOMAIN g |-> RepairCheck(g[i])]
    BY DEF RepairedChecks
<1>6. DOMAIN g = 1..Len(g) /\ Len(g) \in Nat /\ Len(g) # 0
    BY <1>3
<1>. HIDE DEF g, r
<1>7. \A i \in DOMAIN g : g[i] \in CheckRecord
    BY <1>3
<1>8. \A i \in DOMAIN g : /\ RepairCheck(g[i]) \in CheckRecord
                          /\ RepairCheck(g[i]).name = g[i].name
                          /\ CheckInOrder(RepairCheck(g[i]))
    BY <1>7, RepairedCheck
<1>9. r \in Seq(CheckRecord) /\ DOMAIN r = DOMAIN g /\ Len(r) = Len(g)
    BY <1>5, <1>6, <1>8
<1>10. r # <<>>
    BY <1>6, <1>9
<1>11. \A i \in DOMAIN r : CheckInOrder(r[i]) /\ r[i].name = g[i].name
    BY <1>5, <1>8, <1>9
<1>12. (\A i \in DOMAIN r : r[i].name # "") <=> Named(c)
    BY <1>4, <1>9, <1>11
<1>. QED BY <1>9, <1>10, <1>11, <1>12 DEF r

(* Whatever a configuration says, its repair is in order                   *)
(* (error_handler.go:304).                                                 *)
LEMMA RepairedIsInOrder ==
    ASSUME NEW c \in Configuration
    PROVE  /\ Repair(c) \in Configuration
           /\ InOrder(Repair(c))
           /\ Named(Repair(c)) <=> Named(c)
<1>. DEFINE r == Repair(c)
<1>1. /\ r.version # "" /\ r.maxCPU \in 1..100 /\ r.maxMemory > 0 /\ r.maxConcurrent > 0
      /\ r.mode \in Mode /\ r.endpoint # "" /\ r.timeout > 0 /\ r.maxRetries >= 0
    <2>1. r.version # "" /\ r.endpoint # ""
        BY RepairFields DEF Or
    <2>2. c.maxCPU \in Int /\ c.maxMemory \in Int /\ c.maxConcurrent \in Int /\ c.timeout \in Int
            /\ c.maxRetries \in Int
        BY DEF Configuration
    <2>3. /\ r.maxCPU = IF c.maxCPU \in 1..100 THEN c.maxCPU ELSE 5
          /\ r.maxMemory = IF c.maxMemory > 0 THEN c.maxMemory ELSE 100
          /\ r.maxConcurrent = IF c.maxConcurrent > 0 THEN c.maxConcurrent ELSE 10
          /\ r.timeout = IF c.timeout > 0 THEN c.timeout ELSE 30
          /\ r.maxRetries = IF c.maxRetries >= 0 THEN c.maxRetries ELSE 3
        BY RepairFields DEF Or
    <2>4. r.mode = IF c.mode \in Mode THEN c.mode ELSE "auto"
        BY RepairFields DEF Or
    <2>. HIDE DEF r
    <2>5. r.maxCPU \in 1..100
        BY <2>2, <2>3
    <2>6. r.maxMemory > 0 /\ r.maxConcurrent > 0
        BY <2>2, <2>3
    <2>7. r.timeout > 0 /\ r.maxRetries >= 0
        BY <2>2, <2>3
    <2>8. r.mode \in Mode
        BY <2>4 DEF Mode
    <2>. QED BY <2>1, <2>5, <2>6, <2>7, <2>8
<1>2. r.checks = RepairedChecks(c)
    BY RepairFields
<1>3. r \in Configuration
    <2>. DEFINE ks == RepairedChecks(c)
                v == Or(c.version, c.version # "", "1.0")
                m == Or(c.mode, c.mode \in Mode, "auto")
                e == Or(c.endpoint, c.endpoint # "", "url")
                cpu == Or(c.maxCPU, c.maxCPU \in 1..100, 5)
                mem == Or(c.maxMemory, c.maxMemory > 0, 100)
                con == Or(c.maxConcurrent, c.maxConcurrent > 0, 10)
                t == Or(c.timeout, c.timeout > 0, 30)
                n == Or(c.maxRetries, c.maxRetries >= 0, 3)
    <2>1. ks \in Seq(CheckRecord)
        BY RepairedList
    <2>2. {"1.0", "auto", "url"} \subseteq Text
        BY DEF Text
    <2>3. v \in Text /\ m \in Text /\ e \in Text
        BY <2>2 DEF Or, Configuration
    <2>4. cpu \in Int /\ mem \in Int /\ con \in Int /\ t \in Int /\ n \in Int
        BY DEF Or, Configuration
    <2>5. r = [c EXCEPT !.version = v, !.checks = ks, !.maxCPU = cpu, !.maxMemory = mem,
                        !.maxConcurrent = con, !.mode = m, !.endpoint = e, !.timeout = t, !.maxRetries = n]
        BY DEF Repair, RepairedChecks, Given
    <2>. HIDE DEF r, ks, v, m, e, cpu, mem, con, t, n
    <2>. QED BY <2>1, <2>3, <2>4, <2>5 DEF Configuration
<1>. HIDE DEF r
<1>4. r.checks # <<>> /\ \A i \in DOMAIN r.checks : CheckInOrder(r.checks[i])
    BY <1>2, RepairedList
<1>5. InOrder(r)
    BY <1>1, <1>4 DEF InOrder
<1>6. Named(r) <=> Named(c)
    <2>1. Named(r) <=> \A i \in DOMAIN RepairedChecks(c) : RepairedChecks(c)[i].name # ""
        BY <1>2 DEF Named, ToSet
    <2>. QED BY <2>1, RepairedList
<1>. QED BY <1>3, <1>5, <1>6 DEF r

(* A repair leaves a configuration in order as it is                       *)
(* (error_handler.go:304).                                                 *)
LEMMA InOrderIsLeft ==
    ASSUME NEW c \in Configuration, InOrder(c)
    PROVE  Repair(c) = c
<1>. DEFINE r == Repair(c)
<1>1. c.checks \in Seq(CheckRecord)
    BY DEF Configuration
<1>2. RepairedChecks(c) = c.checks
    <2>1. Given(c) = c.checks
        BY DEF Given, Or, InOrder
    <2>2. \A i \in DOMAIN c.checks : c.checks[i] \in CheckRecord /\ CheckInOrder(c.checks[i])
        <3>1. \A i \in DOMAIN c.checks : CheckInOrder(c.checks[i])
            BY DEF InOrder
        <3>2. \A i \in DOMAIN c.checks : c.checks[i] \in CheckRecord
            BY <1>1
        <3>. QED BY <3>1, <3>2
    <2>3. \A i \in DOMAIN c.checks : RepairCheck(c.checks[i]) = c.checks[i]
        BY <2>2, RepairedCheck
    <2>. QED BY <1>1, <2>1, <2>3 DEF RepairedChecks
<1>3. r \in Configuration
    BY RepairedIsInOrder
<1>4. /\ r.version = c.version /\ r.checks = c.checks /\ r.maxCPU = c.maxCPU /\ r.maxMemory = c.maxMemory
      /\ r.minInterval = c.minInterval /\ r.maxConcurrent = c.maxConcurrent /\ r.mode = c.mode
      /\ r.types = c.types /\ r.endpoint = c.endpoint /\ r.timeout = c.timeout
      /\ r.maxRetries = c.maxRetries /\ r.retryDelay = c.retryDelay
    BY <1>2, RepairFields DEF InOrder, Or
<1>. HIDE DEF r
<1>5. r = c
    BY <1>3, <1>4, SameConfiguration
<1>. QED BY <1>5 DEF r

(* For every configuration, not only the drafts of a run: the repair       *)
(* leaves alone what the loader accepts, makes anything else acceptable    *)
(* unless a check has no name, and is done at once (error_handler.go:304,  *)
(* 439).                                                                   *)
THEOREM RepairsAreExact == RulesSpec => []RepairIsExact
<1>1. DraftInv => RepairIsExact
    <2>. SUFFICES ASSUME draft \in Configuration PROVE RepairIsExact
        BY DEF DraftInv
    <2>1. Valid(draft) => Repair(draft) = draft
        BY ValidIsInOrder, InOrderIsLeft
    <2>2. Repair(draft) \in Configuration /\ InOrder(Repair(draft)) /\ (Named(Repair(draft)) <=> Named(draft))
        BY RepairedIsInOrder
    <2>3. Repair(Repair(draft)) = Repair(draft)
        BY <2>2, InOrderIsLeft
    <2>4. ValidAfterRepair(Repair(draft)) <=> Named(draft)
        BY <2>2, ValidIsInOrder DEF ValidAfterRepair
    <2>. QED BY <2>1, <2>3, <2>4 DEF RepairIsExact, Named
<1>. QED BY <1>1, DraftInvariant, PTL

(* What the strict rules accept of a check, the loader accepts             *)
(* (validator.go:134, manager.go:226).                                     *)
LEMMA StrictCheckIsValid ==
    ASSUME NEW k \in CheckRecord, StrictCheck(k)
    PROVE  ValidCheck(k)
<1>1. k.name \notin {"", "two words"} /\ k.collectors # {} /\ k.mode \in Mode
    BY Zenon DEF StrictCheck
<1>2. MinInterval <= k.interval /\ k.timeout > 0
    BY Zenon DEF StrictCheck
<1>3. k.interval > 0
    BY <1>2 DEF MinInterval, CheckRecord
<1>. QED BY <1>1, <1>2, <1>3, Zenon DEF ValidCheck

(* Every configuration the strict Validator accepts is accepted by the     *)
(* loader as it is (validator.go:92, manager.go:217).                      *)
THEOREM StrictIsStronger == RulesSpec => []StrictImpliesValid
<1>1. DraftInv => StrictImpliesValid
    <2>. SUFFICES ASSUME draft \in Configuration, Strict(draft) PROVE Valid(draft) /\ Repair(draft) = draft
        BY DEF DraftInv, StrictImpliesValid
    <2>1. draft.checks \in Seq(CheckRecord) /\ draft.maxConcurrent \in Int /\ draft.maxMemory \in Int
        BY DEF Configuration
    <2>2. ASSUME NEW k \in ToSet(draft.checks) PROVE ValidCheck(k)
        <3>1. k \in CheckRecord
            <4>1. ToSet(draft.checks) = {draft.checks[i] : i \in DOMAIN draft.checks}
                BY DEF ToSet
            <4>2. \A i \in DOMAIN draft.checks : draft.checks[i] \in CheckRecord
                BY <2>1
            <4>. QED BY <2>2, <4>1, <4>2
        <3>2. StrictCheck(k)
            BY <2>2 DEF Strict
        <3>. QED BY <3>1, <3>2, StrictCheckIsValid
    <2>3. draft.maxCPU \in 1..100 /\ draft.maxMemory > 0 /\ draft.maxConcurrent > 0 /\ draft.mode \in Mode
        <3>1. StrictLimits(draft) /\ StrictScope(draft)
            BY DEF Strict
        <3>2. draft.maxCPU \in 1..100 /\ draft.maxConcurrent > 0 /\ draft.maxMemory \in 1..1000
            BY <3>1 DEF StrictLimits
        <3>3. draft.maxMemory > 0
            BY <3>2
        <3>4. draft.mode \in Mode
            BY <3>1 DEF StrictScope
        <3>. QED BY <3>2, <3>3, <3>4
    <2>4. draft.endpoint # "" /\ draft.timeout > 0 /\ draft.maxRetries >= 0
        BY DEF Strict, StrictReporter
    <2>5. Valid(draft)
        BY <2>2, <2>3, <2>4 DEF Valid, Strict
    <2>. QED BY <2>5, ValidIsInOrder, InOrderIsLeft
<1>. QED BY <1>1, DraftInvariant, PTL

-----------------------------------------------------------------------------
(* The type of the configuration under edit                                *)

(* What edits may put into a field, and what the default configuration has *)
FieldMay(f) == FieldValues[f] \cup {DefaultConfig[f]}
CheckMay(f) == CheckValues[f] \cup {DefaultCheck[f]}
CheckFits(c) == \A f \in DOMAIN CheckValues : c[f] \in CheckMay(f)
ChecksFit(s) == Len(s) <= 2 /\ \A i \in 1..Len(s) : CheckFits(s[i])

(* The configuration under edit has the form of one, holds what edits may  *)
(* put into it, and has at most two checks.                                *)
RulesInv ==
    /\ DraftInv
    /\ \A f \in DOMAIN FieldValues : draft[f] \in FieldMay(f)
    /\ ChecksFit(draft.checks)
    /\ edits \in 0..MaxEdits

(* An edit of one field of one check keeps that, *)
LEMMA EditedCheckFits ==
    ASSUME RulesInv, NEW i \in DOMAIN draft.checks, NEW f \in DOMAIN CheckValues,
           NEW v \in CheckValues[f], draft' = [draft EXCEPT !.checks[i][f] = v],
           edits' \in 0..MaxEdits
    PROVE  RulesInv'
<1>. DEFINE s == draft.checks
            d == [s[i] EXCEPT ![f] = v]
<1>1. /\ draft \in Configuration /\ s \in Seq(CheckRecord) /\ i \in 1..Len(s) /\ Len(s) \in Nat
      /\ Len(s) <= 2
    BY DEF RulesInv, DraftInv, Configuration, ChecksFit
<1>2. s[i] \in CheckRecord /\ CheckFits(s[i])
    BY <1>1 DEF RulesInv, ChecksFit
<1>3. \A g \in DOMAIN CheckValues : d[g] \in {s[i][g], v} /\ (g # f => d[g] = s[i][g])
    BY <1>2, EditsFit DEF CheckRecord
<1>4. CheckFits(d)
    BY <1>2, <1>3 DEF CheckFits, CheckMay
<1>5. DraftInv'
    BY CheckKeeps DEF RulesInv
<1>. HIDE DEF d
<1>6. draft' = [draft EXCEPT !.checks = [s EXCEPT ![i] = d]]
    BY <1>1 DEF d, Configuration
<1>7. draft'.checks = [s EXCEPT ![i] = d]
    BY <1>1, <1>6 DEF Configuration
<1>8. Len([s EXCEPT ![i] = d]) = Len(s) /\ \A j \in 1..Len(s) : [s EXCEPT ![i] = d][j] \in {s[j], d}
        /\ ([s EXCEPT ![i] = d][j] = s[j] \/ [s EXCEPT ![i] = d][j] = d)
    BY <1>1
<1>9. ChecksFit(draft.checks)'
    <2>1. ChecksFit(s)
        BY DEF RulesInv
    <2>2. ChecksFit([s EXCEPT ![i] = d])
        BY <1>1, <1>4, <1>8, <2>1 DEF ChecksFit
    <2>. QED BY <1>7, <2>2
<1>10. ASSUME NEW g \in DOMAIN FieldValues PROVE draft'[g] \in FieldMay(g)
    <2>1. draft'[g] = draft[g]
        BY <1>1, <1>6, EditsFit DEF Configuration
    <2>. QED BY <2>1 DEF RulesInv
<1>. QED BY <1>5, <1>9, <1>10 DEF RulesInv

(* so does one of a field of the configuration, *)
LEMMA EditedFieldFits ==
    ASSUME RulesInv, NEW f \in DOMAIN FieldValues, NEW v \in FieldValues[f],
           draft' = [draft EXCEPT ![f] = v], edits' \in 0..MaxEdits
    PROVE  RulesInv'
<1>1. draft \in Configuration
    BY DEF RulesInv, DraftInv
<1>2. draft'.checks = draft.checks
    BY <1>1, EditsFit DEF Configuration
<1>3. DraftInv'
    BY FieldKeeps DEF RulesInv
<1>4. ASSUME NEW g \in DOMAIN FieldValues PROVE draft'[g] \in FieldMay(g)
    <2>1. draft'[g] = IF g = f THEN v ELSE draft[g]
        BY <1>1, EditsFit DEF Configuration
    <2>. QED BY <2>1 DEF RulesInv, FieldMay
<1>. QED BY <1>2, <1>3, <1>4 DEF RulesInv, ChecksFit

(* and a check that is added or removed. *)
LEMMA ListFits ==
    ASSUME RulesInv, AddCheck \/ RemoveCheck, edits' \in 0..MaxEdits
    PROVE  RulesInv'
<1>. DEFINE s == draft.checks
<1>1. /\ draft \in Configuration /\ s \in Seq(CheckRecord) /\ Len(s) \in Nat
      /\ Len(s) <= 2 /\ \A i \in 1..Len(s) : CheckFits(s[i])
    BY DEF RulesInv, DraftInv, Configuration, ChecksFit
<1>2. PICK t \in Seq(CheckRecord) : draft' = [draft EXCEPT !.checks = t] /\ ChecksFit(t)
    <2>1. CASE AddCheck
        <3>. DEFINE t == Append(s, DefaultCheck)
        <3>1. t \in Seq(CheckRecord) /\ Len(t) = Len(s) + 1 /\ t[Len(s) + 1] = DefaultCheck
                /\ \A i \in 1..Len(s) : t[i] = s[i]
            BY <1>1, DefaultsFit
        <3>2. CheckFits(DefaultCheck)
            BY DEF CheckFits, CheckMay
        <3>3. Len(s) < 2
            BY <2>1 DEF AddCheck
        <3>4. \A i \in 1..(Len(s) + 1) : i \in 1..Len(s) \/ i = Len(s) + 1
            BY <1>1
        <3>. HIDE DEF t
        <3>5. ChecksFit(t)
            BY <1>1, <3>1, <3>2, <3>3, <3>4 DEF ChecksFit
        <3>6. draft' = [draft EXCEPT !.checks = t]
            BY <2>1 DEF AddCheck, t
        <3>. QED BY <3>1, <3>5, <3>6
    <2>2. CASE RemoveCheck
        <3>. DEFINE t == Tail(s)
        <3>1. s # <<>> /\ draft' = [draft EXCEPT !.checks = t]
            BY <2>2 DEF RemoveCheck
        <3>2. t \in Seq(CheckRecord) /\ Len(t) = Len(s) - 1
                /\ \A i \in 1..(Len(s) - 1) : t[i] = s[i + 1] /\ i + 1 \in 1..Len(s)
            BY <1>1, <3>1
        <3>. HIDE DEF t
        <3>3. ChecksFit(t)
            BY <1>1, <3>2 DEF ChecksFit
        <3>. QED BY <3>1, <3>2, <3>3
    <2>. QED BY <2>1, <2>2
<1>3. draft' \in Configuration /\ draft'.checks = t /\ \A f \in DOMAIN FieldValues : draft'[f] = draft[f]
    BY <1>1, <1>2, EditsFit DEF Configuration
<1>. QED BY <1>2, <1>3 DEF RulesInv, DraftInv

(* Whatever the edits, the file holds a configuration (config.go:60-107).  *)
THEOREM RulesTypesHold == RulesSpec => []RulesTypeOK
<1>1. RulesInit => RulesInv
    <2>. SUFFICES ASSUME RulesInit PROVE RulesInv
        OBVIOUS
    <2>1. draft = DefaultConfig /\ DefaultConfig \in Configuration /\ edits \in 0..MaxEdits
        BY DefaultsFit, RulesAssumption DEF RulesInit
    <2>2. DefaultConfig.checks = <<DefaultCheck>>
        BY DEF DefaultConfig
    <2>3. CheckFits(DefaultCheck)
        BY DEF CheckFits, CheckMay
    <2>4. Len(<<DefaultCheck>>) = 1 /\ \A i \in 1..1 : <<DefaultCheck>>[i] = DefaultCheck
        OBVIOUS
    <2>5. ChecksFit(draft.checks)
        BY <2>1, <2>2, <2>3, <2>4 DEF ChecksFit
    <2>. QED BY <2>1, <2>5 DEF RulesInv, DraftInv, FieldMay
<1>2. RulesInv /\ [RulesNext]_rulesVars => RulesInv'
    <2>. SUFFICES ASSUME RulesInv, [RulesNext]_rulesVars PROVE RulesInv'
        OBVIOUS
    <2>1. CASE RulesNext
        <3>1. edits' \in 0..MaxEdits
            BY <2>1, RulesAssumption DEF RulesNext, RulesInv
        <3>. QED BY <2>1, <3>1, EditedFieldFits, EditedCheckFits, ListFits
                 DEF RulesNext, EditField, EditCheck
    <2>2. CASE UNCHANGED rulesVars
        BY <2>2 DEF rulesVars, RulesInv, DraftInv, ChecksFit
    <2>. QED BY <2>1, <2>2
<1>3. RulesInv => RulesTypeOK
    <2>. SUFFICES ASSUME RulesInv PROVE RulesTypeOK
        OBVIOUS
    <2>1. draft.checks \in Seq(CheckRecord)
        BY DEF RulesInv, DraftInv, Configuration
    <2>2. \A c \in ToSet(draft.checks) : CheckFits(c)
        BY <2>1 DEF RulesInv, ChecksFit, ToSet
    <2>. QED BY <2>2 DEF RulesInv, RulesTypeOK, ChecksFit, CheckFits, FieldMay, CheckMay
<1>. QED BY <1>1, <1>2, <1>3, PTL DEF RulesSpec
=============================================================================
