# Verification of node-diagnostor

TLA+ specifications of the Kubernetes node diagnostor, the TLC configurations
that check them on small instances, and proofs checked by TLAPS. Paths such as
`scheduler.go:424` are relative to `src/internal/<package>/`.

    tlc -config MCOneTask.cfg MCCheckScheduler.tla     # a run (all in PROJECT.json)
    tlapm CheckScheduler_proofs.tla                    # proofs (modules in section 5)

## 1. The system

The node diagnostor is one process. It loads a configuration, turns each
collector of each check into a *task*, runs the tasks periodically, at most
`max_concurrent` at a time, and posts what they find to a server.

| component | state | operations | what makes it correct |
|---|---|---|---|
| **scheduler** (`scheduler/scheduler.go`) | map of tasks, priority queue, semaphore channel, wait group, context, one ticker per task | Add, Remove, Update, Start/Stop/Pause/ResumeTask, Start, Stop, SetMaxConcurrent; goroutines: one per ticker, `executionLoop`, one `executeTask` per execution | no permit leaks, never more executions than permits, Stop waits for what it started, a request is executed exactly once, retries end |
| **priority queue** (`scheduler/priority_queue.go`) | a slice and its mutex | Push, Pop | highest priority first, first come first served within one |
| executor, monitor (`executor.go`, `monitor.go`) | metrics per task and in total | Execute, Record | counts agree with the outcomes; each success is reported once |
| **reporter client** (`reporter/client.go`) | metrics | Report, Start, Stop, OnConfigUpdate | every call returns; every report counted; failed reports are kept |
| **report cache** (`reporter/cache_manager.go`) | map of entries, limit, file, cleanup goroutine | Add, Get, Remove, Clear, cleanup, UpdateConfig, Start (load), Stop (save) | the limit holds, the oldest entries go first, delivered reports leave |
| config manager (`config/manager.go`, `error_handler.go`) | current configuration, watcher, time of last reload, callbacks | Load, Reload, Watch, Subscribe, Close | the file's last valid content is loaded, nothing invalid is in use |
| config subscribers (`config/subscriber.go`) | list of modules | Load, SubscribeModule | modules are told of every configuration loaded |
| config error handler, validator (`config/error_handler.go`, `validator.go`) | none | repair, strict validation | a repair changes what is wrong and nothing else, and yields what the loader accepts |
| resource manager, monitor, throttler (`resource/*.go`, wired only in an example) | registered checks, running checks, throttling, readings, retries by name | StartCheck, StopCheck, Cleanup, EvaluateResources, RecordRetry | a check runs once at a time, throttling ends for everyone, delays are sufficient |
| collector manager (`collector/collector.go`) | registry, running collectors | StartCollector, StopCollector, StopAll | one goroutine per name, and its name finds it |
| log collection (`collector/k8s_components.go`) | child process, pipe, reader | collectLogsAsync and the four collections around it | reading the log ends; logs are the first lines of a complete log |
| data scope (`datascope/*.go`) | three caches | ValidateCollector, DetermineSource, Check | remembered answers are right; the classifiers agree |
| aggregator (`aggregator/aggregator.go`) | aggregates by check | Aggregate, Clean | the newest points, in order, only of valid results; a failed call changes nothing |
| application (`cmd/node-diagnostor/app.go`) | how far Start or Stop got | Initialize, Start, Stop | no report is lost by stopping |

**Interactions.** A ticker pushes its task; `executionLoop` pops, takes a permit
and launches `executeTask`, which collects, calls `Report`, and at the end
pushes the task again when it failed. `Report` uses the cache around its
attempts. `app.Stop` cancels the common context, stops the scheduler, then the
reporter. The watcher is to hand new configurations to scheduler and reporter
(`OnConfigUpdate`).

**Hard behaviours.** Goroutines read `cs.semaphore` and the ticker fields
without the mutex; `wg.Add` runs inside the goroutine it counts; Stop gives up
after ten seconds and may be followed by a Start beside the old loop; a task
object lives on in queue and goroutines after it was removed or replaced; a
retry is pushed while ticks push too; the cache is unlocked between the steps of
one `Report`; the cache file is written only by an orderly Stop; methods that
hold a mutex call methods that lock it. PROJECT.json lists these under
`hazards`, each at its line with the properties that cover it.

## 2. Modules

| module | models | state and actions |
|---|---|---|
| `PriorityQueue` | the slice of `priority_queue.go` | operators `Push`, `PopTask`, `PopRest` on sequences of tasks; `Push` inserts before the first task of lower priority |
| `PriorityService` | what the queue promises | a set of requests with their order of arrival; Pop serves the best |
| `QueueClient` | the queue in use | actions `DoPush`, `DoPop`; property `ImplementsService` |
| `TaskTimer` | the ticker of a task and the goroutines that read it without the lock (`scheduler.go:262-420`, 560-770) | fields of one task object, live tickers, where each goroutine is; the operations of the scheduler and the steps of the goroutine |
| `Pipeline` | `executor.go`, `monitor.go`, `processAndReportData`, the tasks the application makes of a configuration | executions in their four steps, metrics, totals, reports |
| `AppLifecycle` | `app.go` | phases of Start and Stop around executions that begin and end |
| `CheckScheduler` | `scheduler.go` | below |
| `BoundedExecutor` | what the scheduler promises | the armed timers; counts of ticks that fell due, of pending, active and closing executions per task |
| `CheckSchedulerClaims` | statements of documents that the code does not meet | two properties |
| `ReportCache` | what each operation of `cache_manager.go` computes | operators from cache to the set of possible caches |
| `ReporterClient` | `client.go`, its cache, its process | below |
| `ReporterClaims` | a comment the code does not meet | one property |
| `ConfigManager` | `manager.go`, `error_handler.go`, `subscriber.go`, the watch | below |
| `ConfigRules` | what the loader, the repair and the strict validator say of a configuration | a draft, edited a field at a time from `DefaultConfig` |
| `ConfigClaims`, `PipelineClaims` | requirements the code does not meet | one property each |
| `ScopeTables` | the tables of names of `datascope`, of the validator and of `register.go` | sets |
| `DataScope` | `validator.go`, `mapper.go`, `checker.go` of `datascope` | the three caches and the questions that fill them |
| `CollectorManager` | `collector.go` | entries by name, goroutines, cancelled contexts; StartCollector, Stop, StopAll, the return and the deferred delete |
| `LogPipe` | `collectLogsAsync` and the collections that call it | journalctl, the pipe, the reader, the deadline |
| `ResourceControl` | `resource/manager.go`, `monitor.go`, the strategies | running checks, their contexts, readings that move during an evaluation |
| `RetryBackoff` | the retries of `throttler.go` | count and elapsed time of one name |
| `Aggregator` | `aggregator.go` | settings, one aggregate, the clock |
| `MCParts` | the composition of the parts that share no state | section 3 |
| `OperatorLemmas`, `*_proofs` | theorems | section 5 |
| `MC*` | instances for TLC | |

**CheckScheduler.** `Task` is the set of task *objects*: the code shares
pointers, and an object that was removed or replaced in the map lives on in the
queue. Each method is one action when it holds `cs.mu` throughout (`AddTask`,
`RemoveTask`, ...); `Start` is several, because it unlocks in between and walks
over a map while timer goroutines run. A tick is four steps, since its goroutine
takes no lock (`scheduler.go:327-329`): it fires, which only a live timer does
(`TickFires`), its goroutine reads `Enabled` (`TickReadsEnabled`), then `Status`
(`TickReadsStatus`), then pushes (`TickPushes`). `ticks` counts the ticks at
each of these points; Remove, StopTask, PauseTask and Stop come between them,
and a tick that fired is pushed although its timer is gone. `executionLoop` is
`LoopEnter` ... `LoopRequeue`, one action per step that other goroutines can
observe: context check, Pop, the read of `cs.semaphore`, the non-blocking send
with `wg.Add`, the push back. `executeTask` takes its two critical sections
(`ExecBegin`; `ExecSucceeds` or `ExecFails`, whose outcome is open) and the
deferred receive, which reads `cs.semaphore` (`ExecRelease`) before it receives
(`ExecReceive`). `SetMaxConcurrent` makes a new channel and moves permits one by
one while it holds `cs.mu` (`BeginResize`, `ResizeCheck`, `ResizeTake`,
`ResizePut`). It is part of `SpecResize` only: the application calls it before
Start, and `Spec` begins after that call.

Abstracted: a timer is live or not (`ticking`), and a live one may fire at any
moment; a tick that fires and is dropped for another branch of the `select` is
one that did not fire; NextRun and the back-off, which nothing reads;
collection, processing and reporting inside an execution, of which only success
or failure matters to the scheduler.

**ReporterClient.** A report is one call of `Report`, which goes through `pc`:
add to the cache, attempts and delays, result, `Get`, write of the status,
`Remove`. Each operation on the cache is atomic, as under its mutex; `mutex` is
there for the call that never gives it back. `Size` is in units chosen small:
the code compares sums of sizes with the limit and nothing else. `UpdateConfig`
sets limit and age, and keeps the mutex for ever when either gets smaller
(`cache_manager.go:196`). The file is a variable that survives `Exit`, which may
come at any time and is then a crash; `Persist` writes it, or `PersistFails`
leaves the old one, as when an entry cannot be marshalled. The history variable
`outlived` remembers the reports whose entry had expired when their call looked
for it: such an entry stays in the cache, and a greater age makes it count
again. `result` "cancelled" is a failure by the end of the context. A call of
Report in progress when Stop is called does not occur, as `app.Stop` reaches it
only after the scheduler has drained. Counters of retries and of attempts in the
entry, and a file that cannot be read, are left out.

**ConfigManager.** A content is what Load makes of it: valid, repairable,
hopeless or unparsable; `ConfigRules` says which is which. Load is a sequence of
steps (`ReadFile`, `Judge`, `Reread`, `Rewrite`, `Commit`, or `Create` when
there is no file), because the file, which other programs write, replace, delete
and move at any moment (`Write`, `Replace`, `Delete`, `MoveAway`), may change
between them; the error handler reads it a second time. `fresh` is the
comparison of the file's time with `lastReload`, `event` a pending event,
`watch` whether fsnotify still watches the inode at the path. `Watch`,
`ReceiveEvent` and `Reload` are the goroutine of the application. Events that
arrive while it works are one pending event, as each reload reads the last
content.

**TaskTimer** is the detail `CheckScheduler` leaves out. A goroutine evaluates
`task.Ticker.C`, then `task.StopChan`, each time it enters its select
(`ReadTicker`, `ReadStopChan`), and stops whatever ticker the field holds when
it leaves (`CheckTicker`, `StopTicker`). Either read may find nil: `panicked`.

**Aggregator.** A call fails without usable results, and also when the points
that are left cannot be marshalled (`aggregator.go:122-131`): the usage of a
file system without blocks is not a number (`disk.go:99`). Results of kind "nan"
are those; `Aggregate` is the call that succeeds and `AggregateFails` any other,
which leaves the remembered aggregate as it is.

**LogPipe.** `Scan` reads a line and keeps it unless it is empty
(`k8s_components.go:526`), so that the limit counts the lines that are not. The
other parts of a collection (`CollectPart`) run commands without a context
(`k8s_components.go:259-348`, 450-489): each may end, none has to.

**Pipeline.** `ExecuteOutcome` is the chain of early returns of `executor.go`.
`ProcessAndReport` keeps what its type switch does to the executor's pointer: no
case matches, so every execution that is not an error is reported. `Recorded` is
the bounded history of the monitor.

**ResourceControl.** `EvaluateResources` holds the manager's mutex over three
steps (`ReadCPU`, `Decide`, `ApplyStrategy`), between which the monitor changes
the readings (`UpdateMetrics`). A paused run keeps its context; what Cleanup
drops while it is still at work is remembered in `dropped`.

**AppLifecycle** stands above `CheckScheduler` and `ReporterClient`: an
execution is new, collecting, sending or over, a report is held or sent. What
those modules establish (Stop drains, or gives up after ten seconds; an
undelivered report stays in the cache) are its actions `Drained`, `GiveUp`,
`EndSending`.

## 3. Runs

| run | instance | shows |
|---|---|---|
| `one_task` | one task, limit 2, three goroutines, two Starts; Add, Remove, StartTask, StopTask; a tick in hand; cancellation, Stops that time out | permits, limit, wait group, graceful stop; leftover work runs down |
| `two_tasks` | two priorities, limit 1, Add and StopTask, the task of higher priority ticks and fails; with fairness | queue order in the scheduler; waiting work proceeds, Stop returns, retries end |
| `replace` | two objects under one ID, limit 1; Add and UpdateTask, ticks, failures, cancellation, Stops that time out | `CheckScheduler` implements `BoundedExecutor` |
| `resize` | one task, three goroutines, SetMaxConcurrent in between; Add, PauseTask, ResumeTask | no permit is lost over all channels |
| `reporter` | three reports of sizes 1, 1, 2, limit 3, one retry, two processes, an age that is raised, saves that fail | cache limit, kept failures, delivered reports leave, counters |
| `reporter_live` | two reports under one key, limit raised, age raised or lowered; with fairness | Report and Stop return, unless UpdateConfig keeps the mutex |
| `removed_task` | (violated) | a removed task is executed |
| `resize_returns` | (violated) | SetMaxConcurrent blocks for ever |
| `cache_update` | (violated) the age is lowered, the limit is not | UpdateConfig waits for its own mutex |
| `parts` | twelve independent parts, below | their types, 18 invariants, one refinement and one liveness property |
| `hot_update` | (violated) | modules keep the first configuration |
| `collects` | (violated) | a configured check is skipped |

**Bounds.** `QueueBound` stops ticks and restarts, never retries or requeues,
when that many tasks wait or are about to be pushed by a tick; retries and
requeues take the queue beyond it, so that a task waits twice or behind another.
`TickBound` is one tick of a task in hand, which can meet every other step;
`resize` has none, as a tick touches no permit. `RetryBound` caps failures after
a task was disabled. `Calls` is the set of operations of a run: each run has
those that its question is about (removal, replacement, pauses, stops), and
between them every operation is called; the proofs have them all. `MaxStarts =
2` gives an old execution loop beside a new one. `Exec` has more goroutines than
permits in the runs about permits, so that the limit is the semaphore's doing.
Two processes of the reporter give a save and a load; `MaxTime = 2` with ages 1
and 2 gives entries of different age, an expired one, and one that a raised age
makes valid again. The largest instances have a few million states. Deadlock is
not checked in the runs with such bounds, since calls of Start, reports and
processes run out and the system then rests; the fair runs check progress
instead.

**Fairness.** Weak fairness of the execution loop, of every execution, of a
tick's steps once it fired, of Start and of the end of Stop is what the Go
runtime gives to goroutines that can run; the delay and the request of a report
end by their timers (`http.Client.Timeout`). Nothing is assumed of ticks, of
callers, of cancellation, of the ten seconds of Stop, of the exit of a timer's
goroutine, of the end of the process, or of a request being successful. The
cleanup routine is assumed to exit only once Stop has closed its channel. In
`two_tasks` Stop cannot use its timeout, so that it must return by draining; the
cancellation that `app.Stop` makes just before (`app.go:214`) is left to the
other runs, as Stop cancels the context itself; `ReportReturns` and
`StopReturns` of the reporter except a mutex that UpdateConfig keeps, which
`cache_update` shows to happen. `WaitingWorkProceeds` is about all waiting work
together: a task of low priority may wait behind others for ever, as the order
intends.

**The run `parts`.** The parts without common state are checked in one run: the
variable `part` is chosen initially, and the behaviour is one of that part's own
specification while the variables of the others keep their initial values. It is
a disjoint union, not a product: no interleaving between two parts is of
interest, and every part is explored as if it had a run of its own.

| part | instance | properties |
|---|---|---|
| queue | four tasks, three priorities, up to four waiting | `ImplementsService` |
| collectors | three names, one unregistered; three goroutines, so a name is started, stopped and started again while the first is still at work | `LiveIsRegistered`, `EntryIsLive` |
| timer | three tickers and one Add, enough for a goroutine of an old ticker to meet a new one twice | `OneLiveTicker`, `TicksUnlessRaced` |
| resources | one check, two runs, a high and a low priority, no excess and the worst | `OneRunPerCheck`, `RecoveredChecksActive` |
| config | a content of each kind, three valid ones, four changes by other programs | `CurrentIsValid`, `QuietMeansCurrent` |
| scope | a name of each class of the tables; lists of two, a cache of two, three questions, so that an answer is evicted and asked again | `RememberedAnswersHold`, `ClassifiersAgree` |
| backoff | 36 retries: the delay in nanoseconds leaves 64 bits at the 34th | `DelayIsEnough` |
| rules | three edits from the default configuration, each field at, below and above its limit | `RepairIsExact`, `StrictImpliesValid` |
| app | three executions | `NothingLostByStop` |
| log | two lines kept, a pipe of two, logs of up to seven: longer than kept, read in vain and in the pipe together, by two; empty lines | `LogsAreTheFirst`, `LogsGetRecorded` |
| aggregator | three results of any kind, numbers that JSON cannot express among them, limits 0 to 2, with and without compression | `AggregateKeepsNewest` |
| pipeline | three checks (unknown collector, known, disabled without a name), two executions at a time, four in all, two remembered | `MonitorAddsUp`, `ReportsMatchRuns` |

Most parts end: a process exits, a bound on changes or questions is used up, a
nil ticker stops everything. Deadlock is therefore not checked. The only
fairness is that of the reader of the log (`ReaderStep`): the runtime schedules
it, and the deadline of its context comes. Nothing is assumed of journalctl,
which may write nothing, hang, or fail, nor of the commands of the other parts,
which have no context. So `LogsGetRecorded` says that the log, once it has its
turn, is recorded or given up; that the whole collection ends is not so:
`systemctl` or `crictl` may hang under it (`k8s_components.go:259`, 268, 315,
345, 450, 477, 485).

Some properties are stated with an exception, since the code has the race they
name: `TicksUnlessRaced` (an old goroutine stops a new ticker; an execution
overwrites "paused"), `QuietMeansCurrent` (a change between the reading of a
file and the time stamp; a watch lost with its inode; and it claims nothing of a
file whose content is not valid), `OneRunPerCheck` (a paused run that still
works is cleaned up), `LiveIsRegistered` (the deferred delete of a stopped
collector removes its successor's entry). They hold with the exception and TLC
refutes them without; the history variables `raced`, `overlooked`, `dropped`,
`everStopped` mark exactly these cases.

## 4. Disagreements

Five statements in the repository do not hold of the code; PROJECT.json quotes
them under `findings`, each with the run that refutes it:

- a deleted check keeps being executed from the queue (`removed_task`);
- `SetMaxConcurrent` can block with the mutex held (`resize_returns`);
- `UpdateConfig` of the cache locks its mutex twice (`cache_update`);
- a changed configuration is loaded but told to no module, since Reload calls
  the embedded Load and not the one that has the subscribers (`hot_update`);
- a configured collector is skipped, as the validator the executor asks knows
  none of the names that `register.go` registers (`collects`).

Seen while modelling, without a run of their own: the retry count of a disabled
task can pass MaxRetries when two executions of it fail (`scheduler_test.go:482`
expects the limit to stop it); an invalid file replaces the last valid
configuration by a repaired or the default one (`ConfigManager.Reread`), where
`.kiro/specs/k8s-node-diagnostor/requirements.md:70` has the last valid one stay
("继续使用上一个有效配置"), for which reason `QuietMeansCurrent` is about valid files only;
`DefaultConfig` does not pass the strict `Validator`, whose list lacks its
collectors (`ConfigRules`); `OnConfigUpdate` of the scheduler calls methods that
lock the mutex it holds (`scheduler.go:830`), which no wiring reaches at
present.

## 5. Proofs

| module | proves |
|---|---|
| `OperatorLemmas` | what the sums, folds and sequence operators of the community modules compute |
| `PriorityQueue_proofs` | what Push and Pop do to any queue |
| `CheckScheduler_proofs` | types, permits, limit, wait group, graceful stop, sorted queue of the scheduler; leftover work; that it implements `BoundedExecutor`; no permit is lost by SetMaxConcurrent |
| `ReporterClient_proofs` | types, cache limit and growth, delivered, failed and waiting reports, counters |
| `SchedulerParts_proofs` | `QueueClient` implements `PriorityService`; tickers, resource manager, back-off |
| `Collection_proofs` | collector manager, log collection, data scope, pipeline and monitor, aggregator |
| `Application_proofs` | configuration manager, application, rules of the configuration |
| `Parts_proofs` | the composition `MCParts`: types and invariants of all parts |

Every theorem holds for all values of the constants under the named assumptions
of its modules. These type the constants, say that `Task`, `Exec`, `Report`,
`Key`, the checks with their collectors and `Execs` are finite, as they are in a
process, and that a limit of executions or retries is positive, as the defaults
make it. `ConfigAssumption` adds that the kinds of contents exclude each other
and that a repair yields a valid content, which `RepairsAreExact` shows of the
real rules but for a check without a name: the loader refuses that repair, so
`ConfigManager` counts such a content among the hopeless ones. Two theorems have
a hypothesis of their own, explained below (`CacheStaysWithinLimit`,
`FailedReportsAreKept`): `OnlyRaised`, and for the second a first limit that is
positive.

**Operators.** A sum over a finite set is a fold that takes elements in an
unspecified order by a recursive function. `OperatorLemmas` proves that the
function exists (least counterexample over the size of the subsets), that the
order does not matter (`SumOfAny`), and what an update, an empty set, all zeros
or a larger function do to the sum. Later proofs count with these lemmas only.
`PushFacts` and `PushKeepsOrder` say that Push inserts one task, behind its
equals, and keeps the order; `PushCounts` and `PopCounts` what that does to the
number of a task's requests.

**Scheduler.** The properties are not inductive alone. The wait group is never
negative only because it counts what is alive, and counts correctly only because
a goroutine that is not idle has a task and the channel it will use; the limit
holds because the permits in the channel are exactly the executions and the
channel has capacity `Limit`; a graceful stop holds because a loop past its
context check is counted and the context of a stopping scheduler is done.
`GoroutineInv` joins the types, `Hands` (who has a task in hand, which loops
exist, the context when stopping), the wait group and the graceful stop. It is
inductive for `SpecResize` too, so those theorems also hold while
SetMaxConcurrent makes new channels. `SchedulerInv` adds, for `Spec`, that there
is one channel (`OneChannel`) and the permit counting. `StepKinds` says what a
step can do to loops, executions, permits and wait group at once, so that the
counting is argued per kind of step and not per action.

`PermitPerExecution` is false of `SpecResize`, where receives may use another
channel than their send. There `ResizeInv` carries the balance over all channels
(`PermitsConserved`), with the fact that a resize holds the mutex from its begin
to its end.

`SchedulerImplementsExecutor` is a simulation step by step: the refinement
mapping counts, for each task, the ticks in hand (`due`), the requests in the
queue and in the hands of a loop, the executions in flight and those that only
give back. The abstract specification lets a tick request an execution after its
timer was disarmed, since the code does; it fires only while the timer is armed.
Each action's lemma says which counter moves; `SchedulerInv` excludes the steps
that would move one from nothing. So a request is executed exactly once,
whatever is removed, replaced, stopped or started meanwhile.

`LeftoverRunsDown` is the safety half of `RetriesEnd`. A task without a live
timer has a measure: its ticks in hand, requests and executions, then the
failures it has left. Every step leaves the first as it is or makes it smaller,
and an execution that leaves it as it is has failed and used up a failure; only
a new configuration gives failures back. This holds for any number of tasks,
priorities, loops and executions of one task that fail side by side, where the
count passes `MaxRetries` (`scheduler.go:483`): an execution that fails then
pushes nothing. What it leaves to `RetriesEnd`, and to TLC, is that steps are
taken: fairness. The proof needs no invariant beyond `SchedulerInv`: the measure
is the refinement's count of ticks, requests and executions (`WorkIs`), whose
kinds of step it reuses (`WorkKept`), and `EndRunsDown` argues the two ends of
an execution. `SchedulerInv` itself is no run's property, as
`SchedulerInvariant` proves it.

**Queue.** That the slice is sorted does not imply first come first served. The
invariant `QueueInv` is a bijection from positions to arrivals along which
priorities never rise and equals stay in order of arrival (`Arranged`).

**Ticker.** `TimerInv`: the channel a task holds is open (`ChannelOpen`); until
one of the races hits, the task's ticker is live, someone reads it and nobody is
on the way to stop it (`TickerServed`); a task that should tick has one
(`TickerPresent`). `TicksUnlessRaced` alone says nothing of a goroutine that is
about to leave its select.

**Resource manager, back-off.** A check runs once at a time because a live run
is its check's entry unless cleaning up dropped it (`LiveIsEntry`), and an entry
leads to a run of its own name (`EntryIsOwn`). `DelayIsEnough` rests on the
delay growing up to the 33rd retry (`DelayGrows`); from the 34th on the
conversion leaves 64 bits, and the theorem claims nothing.

**Reporter.** `ClientInv` has the types and both counters' properties, and where
entries come from: the cache and the file hold entries under the ID of their
report (`Filed`), what is in the file has returned (`FileSettled`), a process
that is down has no cache, no call is in progress while the process stops
(`CallResults`), and `outlived` only grows (`OutlivedStays`). It makes
`DeliveredReportsLeave` hold also where reports share an ID, across crashes and
reloads. `CacheStaysWithinLimit` assumes `OnlyRaised`: a limit that is lowered,
or set where there was none, leaves a larger cache and, after a restart, a
larger file until the next entry is added. `EvictFacts` and `EvictsOldest` say
that eviction ends within the limit and drops no entry younger than one it
keeps.

Two theorems say what remains with any limits, raised, lowered or none.
`GrowthStaysLimited`: a cache that is beyond its limit does not grow, since Add
replaces an entry or makes room before it adds, and cleaning up ends within the
limit; only a new process that loads a larger file may enlarge it.
`UndeliveredReportsLeaveForCause`: an unexpired entry that is waiting for its
delivery, or failed, leaves only by the end of the process, Clear, for room
among entries no older, by cleaning up when those alone exceed the limit, or
because another report has its ID. `FailedReportsAreKept` is the stronger form
under `OnlyRaised`, without cleaning up: within a limit it drops nothing. Both
are action properties and rest on `OwnEntries`: Get hands out an entry with the
ID of the call, which is the call's own unless the ID is shared. Reports of one
check within a second share one (`client.go:120`): the second takes the place of
the first, and either call may write the status of, or remove, the other's
entry. The properties name that case (`OtherTakesPlace`); the run `reporter` has
an ID for each report, so that there the exception never applies.

**Configuration.** The property at rest needs the history of a Load: `InHand`
relates what each step of it holds to the file, and `Noticed` says that a change
since then has left its time stamp, and its event if nobody is about to look.
`RepairsAreExact` and `StrictIsStronger` follow from the shape of a
configuration alone (`DraftInv`), for lists of checks of any length: a repaired
configuration is in order, field by field, and one in order is left alone. Texts
are the set `Text`, which is `STRING` with the literals of the module, since no
prover knows that a literal is a string.

**Collection.** The collector manager's two properties need each other: an entry
that leads to a live goroutine of its name is why a stop or a deferred delete
hits no other, and that a cancelled goroutine's name has been stopped is why a
start finds none alive. The log's invariant adds up lines: written is kept, read
in vain or in the pipe (`LinesAddUp`). For the caches of the data scope each
entry is the tables' answer; that the tables agree is a fact about finite sets
of names. `PipeInv` has the totals as sums over the tasks, each task's counts
adding up, and the runs not yet recorded. `AggregatesAreNewest` holds whatever
order the unstable sort leaves points of one time in (`LastAreNewest`), and
`SortingExists` says that there is always one.

**Application.** `AppInv` adds to `NothingLostByStop` that nothing runs before
Start is through or after the scheduler has drained, so that what the reporter
writes stays complete.

**Composition.** A behaviour of `PartsSpec` is a behaviour of every part
(`PartsRunEachPart`): a step of one leaves the others' variables alone. So what
is proved of a part's specification holds of the composition
(`PartsAreCorrect`), with one care: the part's fairness is stated of the part
that runs, so the facts about the log collector are taken from its steps without
fairness (`LogsKept`). `PartsTypesHold` needs bounds that the parts' invariants
do not carry: a cache of the data scope forgets its oldest answer before it
exceeds `Capacity` (`ScopeBounds`), an edited list of checks stays as short as
the editor makes it (`RulesInv`), an aggregate's points stay within its limit,
and a task's counts are at most the executions so far (`RunsBounded`,
`CountsBounded`), which follows from the totals being sums over the tasks: a
part of a sum of naturals is at most the sum (`SumOfPart`).

**Only model-checked.** Liveness (`WaitingWorkProceeds`, `StopReturns`,
`RetriesEnd`, `ReportReturns`, `LogsGetRecorded` and the like): fairness,
leads-to and ENABLED are beyond the prover. The violated statements of section 4
are counterexamples and have nothing to prove.

## 6. Not modelled, and what is left

Not modelled: the collectors that read `/proc` or run one command and format the
output (input and output, no shared state), formatting and logging,
`timeout_manager.go` and the interfaces of `validator`, which nothing implements
or calls, `procstat`, examples, mocks and tests. Left out of modelled parts:
text of reports and the compression of them (it changes the form only), the
descriptions the data scope returns, resource statistics that are only printed,
errors of the file system other than those named.

What is left, in order:

1. A composition of `AppLifecycle` with `CheckScheduler` and `ReporterClient` by
   refinement, whose actions `Drained` and `EndSending` now stand for theorems of
   the two without a formal link.
2. A composition of `ConfigManager` with the scheduler and the reporter, once the
   code tells them of a reload (section 4).
