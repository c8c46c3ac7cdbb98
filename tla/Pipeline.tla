------------------------------ MODULE Pipeline ------------------------------
(***************************************************************************)
(* What an execution does with its task: internal/scheduler/executor.go,   *)
(* monitor.go and processAndReportData of scheduler.go, with the task list *)
(* the application makes of a configuration (app.go).  A check becomes one *)
(* task for each of its collectors, named by both.  Executions run side by *)
(* side; the monitor and the aggregator have locks of their own.           *)
(* CheckScheduler says when executions begin and what becomes of the task. *)
(***************************************************************************)
EXTENDS ScopeTables, Naturals, SequencesExt

CONSTANTS
    Checks,     \* checks of the configuration: [name, collectors, enabled]
    Registry,   \* names in the executor's registry of collectors
    Execs,      \* executions at a time
    Recent,     \* executions the monitor remembers of a task (10 in the code)
    MaxRuns     \* bound: executions begun

ASSUME PipelineAssumption ==
    /\ IsFiniteSet(Checks) /\ IsFiniteSet(Execs)
    /\ \A c \in Checks :
        c.collectors \subseteq STRING /\ IsFiniteSet(c.collectors) /\ c.enabled \in BOOLEAN
    /\ Registry \subseteq STRING /\ Recent \in Nat \ {0} /\ MaxRuns \in Nat

VARIABLES
    exec,       \* task, step and outcome of each execution
    metrics,    \* the monitor's counts by task
    totals,     \* its global statistics
    reports,    \* number of reports made by check name
    runs        \* number of executions begun so far

pipeVars == <<exec, metrics, totals, reports, runs>>

-----------------------------------------------------------------------------
(* addTasksFromConfig.  A task's ID joins both names with a dash; no two   *)
(* pairs of a check and a registered collector give the same ID.           *)
Tasks == UNION {{[name |-> c.name, collector |-> k] : k \in c.collectors} :
                c \in {d \in Checks : d.enabled}}

Names == {t.name : t \in Tasks}
Outcome == {"none", "error", "skipped", "failed", "collected"}
NoTask == [name |-> "", collector |-> ""]
Free == [task |-> NoTask, step |-> "free", outcome |-> "none"]
NoMetrics == [total |-> 0, success |-> 0, failed |-> 0, recent |-> <<>>]

PipeTypeOK ==
    /\ exec \in [Execs -> [task : Tasks \cup {NoTask}, outcome : Outcome,
                           step : {"free", "execute", "record", "process"}]]
    /\ metrics \in [Tasks -> [total : 0..MaxRuns, success : 0..MaxRuns, failed : 0..MaxRuns,
                              recent : Seq(BOOLEAN)]]
    /\ totals \in [tasks : 0..Cardinality(Tasks), executions : 0..MaxRuns,
                    successes : 0..MaxRuns, failures : 0..MaxRuns]
    /\ reports \in [Names -> 0..MaxRuns]
    /\ runs \in 0..MaxRuns

PipeInit ==
    /\ exec = [e \in Execs |-> Free]
    /\ metrics = [t \in Tasks |-> NoMetrics]
    /\ totals = [tasks |-> 0, executions |-> 0, successes |-> 0, failures |-> 0]
    /\ reports = [n \in Names |-> 0]
    /\ runs = 0

BeginExec(e, t) ==
    /\ runs < MaxRuns /\ runs' = runs + 1
    /\ exec[e] = Free
    /\ exec' = [exec EXCEPT ![e] = [task |-> t, step |-> "execute", outcome |-> "none"]]
    /\ UNCHANGED <<metrics, totals, reports>>

-----------------------------------------------------------------------------
(* Only a task without a name and one whose collector is not registered    *)
(* fail.  The validator, asked in automatic scope, has the collector       *)
(* skipped when its tables do not hold the name; a collector that fails    *)
(* leaves its error in a result that counts as a success.                  *)
ExecuteOutcome(t) ==
    CASE t.name = "" \/ t.collector \notin Registry -> {"error"}
      [] t.collector \notin ValidatorLocal \cup ValidatorSupplement -> {"skipped"}
      [] OTHER -> {"failed", "collected"}

Execute(e) ==
    /\ exec[e].step = "execute"
    /\ \E o \in ExecuteOutcome(exec[e].task) :
        exec' = [exec EXCEPT ![e].outcome = o, ![e].step = "record"]
    /\ UNCHANGED <<metrics, totals, reports, runs>>

(* Mutant: one outcome too many is remembered. *)
RecordedOneMore(m, ok) ==
    [total |-> m.total + 1,
     success |-> m.success + (IF ok THEN 1 ELSE 0),
     failed |-> m.failed + (IF ok THEN 0 ELSE 1),
     recent |-> Append(IF Len(m.recent) > Recent THEN Tail(m.recent) ELSE m.recent, ok)]

Recorded(m, ok) ==
    [total |-> m.total + 1,
     success |-> m.success + (IF ok THEN 1 ELSE 0),
     failed |-> m.failed + (IF ok THEN 0 ELSE 1),
     recent |-> Append(IF Len(m.recent) >= Recent THEN Tail(m.recent) ELSE m.recent, ok)]

(* updateGlobalStats *)
Totals(m) ==
    [tasks |-> Cardinality({t \in Tasks : m[t] # NoMetrics}),
     executions |-> SumFunction([t \in Tasks |-> m[t].total]),
     successes |-> SumFunction([t \in Tasks |-> m[t].success]),
     failures |-> SumFunction([t \in Tasks |-> m[t].failed])]

RecordResult(e) ==
    /\ exec[e].step = "record"
    /\ metrics' = [metrics EXCEPT ![exec[e].task] = Recorded(@, exec[e].outcome # "error")]
    /\ totals' = Totals(metrics')
    /\ exec' = [exec EXCEPT ![e].step = "process"]
    /\ UNCHANGED <<reports, runs>>

(* Mutant: a failed execution is reported too. *)
ReportAll(e) ==
    /\ exec[e].step = "process"
    /\ reports' = [reports EXCEPT ![exec[e].task.name] = @ + 1]
    /\ exec' = [exec EXCEPT ![e] = Free]
    /\ UNCHANGED <<metrics, totals, runs>>

(* processAndReportData.  The executor returns a pointer to its result,    *)
(* which no case of the type switch takes: the whole of it becomes the     *)
(* data of one valid result, so whatever the collector did there is        *)
(* something to aggregate, to process and to report.                       *)
ProcessAndReport(e) ==
    /\ exec[e].step = "process"
    /\ reports' = IF exec[e].outcome = "error" THEN reports
                  ELSE [reports EXCEPT ![exec[e].task.name] = @ + 1]
    /\ exec' = [exec EXCEPT ![e] = Free]
    /\ UNCHANGED <<metrics, totals, runs>>

PipeNext ==
    \E e \in Execs :
        (\E t \in Tasks : BeginExec(e, t)) \/ Execute(e) \/ RecordResult(e) \/ ProcessAndReport(e)

PipeSpec == PipeInit /\ [][PipeNext]_pipeVars

-----------------------------------------------------------------------------
AtStep(step) == {e \in Execs : exec[e].step = step}

(* However executions interleave, the monitor's global statistics are the  *)
(* sums of its tasks', every execution begun is counted once or has yet to *)
(* be, and the remembered outcomes are those of the last executions        *)
(* (monitor.go:82 and :172).                                               *)
MonitorAddsUp ==
    /\ totals = Totals(metrics)
    /\ totals.executions + Cardinality(AtStep("execute") \cup AtStep("record")) = runs
    /\ \A t \in Tasks :
        LET m == metrics[t]
            failures == Cardinality({i \in DOMAIN m.recent : ~m.recent[i]})
        IN  /\ m.success + m.failed = m.total
            /\ Len(m.recent) = IF m.total < Recent THEN m.total ELSE Recent
            /\ failures <= m.failed /\ Len(m.recent) - failures <= m.success

(* Every recorded success of a check, those included whose collector was   *)
(* skipped or failed, is reported once, no failure is, and no report is    *)
(* made before the execution is on record (scheduler.go:470).              *)
ReportsMatchRuns ==
    \A n \in Names :
        reports[n] + Cardinality({e \in AtStep("process") :
                        exec[e].task.name = n /\ exec[e].outcome # "error"})
        = SumFunctionOnSet([t \in Tasks |-> metrics[t].success], {t \in Tasks : t.name = n})
=============================================================================
