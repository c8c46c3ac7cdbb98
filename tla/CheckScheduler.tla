---------------------------- MODULE CheckScheduler ----------------------------
(***************************************************************************)
(* internal/scheduler/scheduler.go: the scheduler that queues diagnostic   *)
(* tasks when their timers fire, takes them from the queue in one          *)
(* execution loop, runs each in a goroutine that holds a permit of the     *)
(* semaphore channel, and retries the failed ones.                         *)
(*                                                                         *)
(* Task is a set of objects pointers to Task, not of IDs: an object that   *)
(* was removed or replaced in the map can still be in the queue, in the    *)
(* hand of a goroutine, or attached to a timer.                            *)
(*                                                                         *)
(* A timer is abstracted to ticking[t]: a goroutine waits on a live ticker *)
(* of t.  Ticks are possible, never required, so the safety properties     *)
(* cover every timer; the life of one ticker is the matter of TaskTimer.   *)
(* A tick that was received is in the hand of its goroutine, which reads   *)
(* Enabled, then Status, then pushes, without a lock: ticks[t] counts the  *)
(* ticks of t at each of these points, also when the timer is long gone.   *)
(***************************************************************************)
EXTENDS PriorityQueue

CONSTANTS
    Id,             \* task IDs, the keys of cs.tasks
    IdOf,           \* IdOf[t] is the field t.ID
    MaxRetries,     \* the field t.MaxRetries, the same for every task
    Exec,           \* goroutines that may run executeTask
    NoTask,         \* nil
    Calls,          \* the operations on tasks that clients call, and which
                    \* of "CancelParent" and "StopTimesOut" may happen
    Limit,          \* maxConcurrent as set before Start (app.go:89)
    QueueBound,     \* bound: requests are added while fewer tasks wait
    TickBound,      \* bound: ticks of each task in hand at the same time
    RetryBound,     \* bound: failures of each task are counted up to this number
    MaxStarts,      \* bound: calls of Start
    MaxResizes      \* bound: calls of SetMaxConcurrent after Start

ASSUME SchedulerAssumption ==
    /\ IsFiniteSet(Task)
    /\ IdOf \in [Task -> Id]
    /\ NoTask \notin Task
    /\ IsFiniteSet(Exec)
    /\ Limit \in Nat \ {0}
    /\ MaxRetries \in Nat \ {0}
    /\ QueueBound \in Nat
    /\ TickBound \in [Task -> Nat]
    /\ RetryBound \in [Task -> Nat]
    /\ MaxStarts \in Nat
    /\ MaxResizes \in Nat

VARIABLES
    mu,         \* the mutex cs.mu: "free", or who holds it across several steps
    tasks,      \* cs.tasks, NoTask where there is no entry
    queue,      \* cs.taskQueue
    enabled,    \* the field Enabled of each task
    status,     \* the field Status
    retryCount, \* the field RetryCount
    ticking,    \* the task has a live ticker and a goroutine waiting on it
    ticks,      \* ticks in the hand of a goroutine, by what it does next
    toStart,    \* Start: tasks whose timer is still to be started
    life,       \* where the caller of Start and Stop is
    ctx,        \* cs.ctx: "nil", "live" or "done"
    starts,     \* number of calls of Start so far
    wg,         \* counter of cs.wg
    loop,       \* the goroutine running executionLoop for each Start
    exec,       \* the goroutines running executeTask
    semaphore,  \* cs.semaphore, the index of a channel
    chanLen,    \* permits in each channel
    chanCap,    \* capacity of each channel
    resize      \* the call of SetMaxConcurrent in progress

taskVars == <<tasks, enabled, status, retryCount, ticking, ticks>>
lifeVars == <<toStart, life, ctx, starts>>
semVars == <<semaphore, chanLen, chanCap>>
vars == <<mu, taskVars, queue, lifeVars, wg, loop, exec, semVars, resize>>

Status == {"pending", "running", "paused", "stopped", "failed", "completed"}
TickPoint == {"readEnabled", "readStatus", "push"}
Loop == 1..MaxStarts
Channel == 0..MaxResizes

(* A goroutine at pc, with the task it has in hand and the channel it uses *)
At(pc, t, c) == [pc |-> pc, task |-> t, sem |-> c]

LoopState == [pc : {"off", "spawned", "check", "pop", "acquire"},
              task : Task \cup {NoTask}, sem : Channel]
ExecState == [pc : {"idle", "begin", "run", "release", "receive"},
              task : Task \cup {NoTask}, sem : Channel]
NoLoop == At("off", NoTask, 0)
Idle == At("idle", NoTask, 0)
NoResize == [pc |-> "none", old |-> 0, i |-> 0]

TypeOK ==
    /\ mu \in {"free", "startTimers", "resize"}
    /\ tasks \in [Id -> Task \cup {NoTask}]
    /\ queue \in Seq(Task)
    /\ enabled \in [Task -> BOOLEAN]
    /\ status \in [Task -> Status]
    /\ retryCount \in [Task -> Nat]
    /\ ticking \in [Task -> BOOLEAN]
    /\ ticks \in [Task -> [TickPoint -> Nat]]
    /\ toStart \in SUBSET Task
    /\ life \in {"new", "starting", "started", "stopping", "stopped", "abandoned"}
    /\ ctx \in {"nil", "live", "done"}
    /\ starts \in 0..MaxStarts
    /\ wg \in Nat
    /\ loop \in [Loop -> LoopState]
    /\ exec \in [Exec -> ExecState]
    /\ semaphore \in Channel
    /\ chanLen \in [Channel -> Nat]
    /\ chanCap \in [Channel -> Nat]
    /\ resize \in [pc : {"none", "check", "take", "put"}, old : Channel, i : Nat]

(* New, then SetMaxConcurrent(Limit) as the application does before Start. *)
(* The fields of a task are those its creator chose.                       *)
Init ==
    /\ mu = "free"
    /\ tasks = [i \in Id |-> NoTask]
    /\ queue = EmptyQueue
    /\ enabled \in [Task -> BOOLEAN]
    /\ status = [t \in Task |-> "pending"]
    /\ retryCount = [t \in Task |-> 0]
    /\ ticking = [t \in Task |-> FALSE]
    /\ ticks = [t \in Task |-> [p \in TickPoint |-> 0]]
    /\ toStart = {}
    /\ life = "new"
    /\ ctx = "nil"
    /\ starts = 0
    /\ wg = 0
    /\ loop = [k \in Loop |-> NoLoop]
    /\ exec = [e \in Exec |-> Idle]
    /\ semaphore = 0
    /\ chanLen = [c \in Channel |-> 0]
    /\ chanCap = [c \in Channel |-> IF c = 0 THEN Limit ELSE 0]
    /\ resize = NoResize

(* cs.running *)
Running == life \in {"starting", "started"}

Known(i) == tasks[i] # NoTask

TicksInHand(t) == ticks[t]["readEnabled"] + ticks[t]["readStatus"] + ticks[t]["push"]

(* There is room for one more request of t, those on their way counted. *)
MayPush(t) == Len(queue) + TicksInHand(t) < QueueBound

-----------------------------------------------------------------------------
(* Timers *)

(* startTaskTimer: a fresh ticker, and one request at once. *)
StartTaskTimer(t) ==
    /\ ticking' = [ticking EXCEPT ![t] = TRUE]
    /\ queue' = IF enabled'[t] /\ status'[t] # "paused" THEN Push(queue, t) ELSE queue

(* stopTaskTimer, by ID: only the object in the map is reached. *)
StopTaskTimer(i) ==
    ticking' = [ticking EXCEPT ![tasks[i]] = FALSE]

(* The ticker of t fires.  The tick is in its channel or received: it may  *)
(* be chosen although the timer is stopped meanwhile.  One that is not     *)
(* chosen then might as well not have fired.                               *)
TickFires(t) ==
    /\ ticking[t]
    /\ MayPush(t)
    /\ TicksInHand(t) < TickBound[t]
    /\ ticks' = [ticks EXCEPT ![t]["readEnabled"] = @ + 1]
    /\ UNCHANGED <<mu, tasks, enabled, status, retryCount, ticking, queue, lifeVars, wg,
                   loop, exec, semVars, resize>>

(* A tick at p leads to q if the field read allows it, and else to nothing. *)
TickReads(t, p, q, allowed) ==
    /\ ticks[t][p] > 0
    /\ ticks' = IF allowed THEN [ticks EXCEPT ![t][p] = @ - 1, ![t][q] = @ + 1]
                           ELSE [ticks EXCEPT ![t][p] = @ - 1]
    /\ UNCHANGED <<mu, tasks, enabled, status, retryCount, ticking, queue, lifeVars, wg,
                   loop, exec, semVars, resize>>

(* task.Enabled && task.Status != TaskStatusPaused, read without cs.mu *)
TickReadsEnabled(t) == TickReads(t, "readEnabled", "readStatus", enabled[t])
TickReadsStatus(t) == TickReads(t, "readStatus", "push", status[t] # "paused")

TickPushes(t) ==
    /\ ticks[t]["push"] > 0
    /\ ticks' = [ticks EXCEPT ![t]["push"] = @ - 1]
    /\ queue' = Push(queue, t)
    /\ UNCHANGED <<mu, tasks, enabled, status, retryCount, ticking, lifeVars, wg, loop,
                   exec, semVars, resize>>

HandleTick(t) == TickReadsEnabled(t) \/ TickReadsStatus(t) \/ TickPushes(t)

(* The goroutine of the timer notices that the context is cancelled. *)
TimerExit(t) ==
    /\ ticking[t]
    /\ ctx = "done"
    /\ ticking' = [ticking EXCEPT ![t] = FALSE]
    /\ UNCHANGED <<mu, ticks, tasks, enabled, status, retryCount, queue, lifeVars, wg,
                   loop, exec, semVars, resize>>

-----------------------------------------------------------------------------
(* Operations on tasks: each holds cs.mu from beginning to end *)

AddTask(t) ==
    /\ mu = "free"
    /\ enabled' = [enabled EXCEPT ![t] = TRUE]
    /\ status' = [status EXCEPT ![t] = "pending"]
    /\ retryCount' = [retryCount EXCEPT ![t] = 0]
    /\ tasks' = [tasks EXCEPT ![IdOf[t]] = t]
    /\ \/ Running /\ MayPush(t) /\ StartTaskTimer(t)
       \/ ~Running /\ UNCHANGED <<ticking, queue>>
    /\ UNCHANGED <<mu, ticks, lifeVars, wg, loop, exec, semVars, resize>>

RemoveTask(i) ==
    /\ mu = "free"
    /\ Known(i)
    /\ StopTaskTimer(i)
    /\ tasks' = [tasks EXCEPT ![i] = NoTask]
    /\ UNCHANGED <<mu, ticks, enabled, status, retryCount, queue, lifeVars, wg, loop,
                   exec, semVars, resize>>

(* The timer of the old object is stopped before that of the new starts. *)
UpdateTask(t) ==
    /\ mu = "free"
    /\ Known(IdOf[t])
    /\ tasks' = [tasks EXCEPT ![IdOf[t]] = t]
    /\ UNCHANGED <<enabled, status, retryCount>>
    /\ IF enabled[t] /\ Running
       THEN /\ MayPush(t)
            /\ ticking' = [ticking EXCEPT ![tasks[IdOf[t]]] = FALSE, ![t] = TRUE]
            /\ queue' = IF status[t] # "paused" THEN Push(queue, t) ELSE queue
       ELSE /\ StopTaskTimer(IdOf[t])
            /\ UNCHANGED queue
    /\ UNCHANGED <<mu, ticks, lifeVars, wg, loop, exec, semVars, resize>>

StartTask(i) ==
    /\ mu = "free"
    /\ Known(i)
    /\ ~enabled[tasks[i]]
    /\ enabled' = [enabled EXCEPT ![tasks[i]] = TRUE]
    /\ status' = [status EXCEPT ![tasks[i]] = "pending"]
    /\ \/ Running /\ MayPush(tasks[i]) /\ StartTaskTimer(tasks[i])
       \/ ~Running /\ UNCHANGED <<ticking, queue>>
    /\ UNCHANGED <<mu, ticks, tasks, retryCount, lifeVars, wg, loop, exec, semVars,
                   resize>>

StopTask(i) ==
    /\ mu = "free"
    /\ Known(i)
    /\ enabled[tasks[i]]
    /\ enabled' = [enabled EXCEPT ![tasks[i]] = FALSE]
    /\ status' = [status EXCEPT ![tasks[i]] = "stopped"]
    /\ StopTaskTimer(i)
    /\ UNCHANGED <<mu, ticks, tasks, retryCount, queue, lifeVars, wg, loop, exec,
                   semVars, resize>>

PauseTask(i) ==
    /\ mu = "free"
    /\ Known(i)
    /\ status[tasks[i]] # "paused"
    /\ status' = [status EXCEPT ![tasks[i]] = "paused"]
    /\ StopTaskTimer(i)
    /\ UNCHANGED <<mu, ticks, tasks, enabled, retryCount, queue, lifeVars, wg, loop,
                   exec, semVars, resize>>

ResumeTask(i) ==
    /\ mu = "free"
    /\ Known(i)
    /\ status[tasks[i]] = "paused"
    /\ status' = [status EXCEPT ![tasks[i]] = "pending"]
    /\ UNCHANGED enabled
    /\ IF Running /\ enabled[tasks[i]]
       THEN MayPush(tasks[i]) /\ StartTaskTimer(tasks[i])
       ELSE UNCHANGED <<ticking, queue>>
    /\ UNCHANGED <<mu, ticks, tasks, retryCount, lifeVars, wg, loop, exec, semVars,
                   resize>>

-----------------------------------------------------------------------------
(* Start and Stop, called by one caller *)

(* First critical section, and the launch of the execution loop. *)
Start ==
    /\ mu = "free"
    /\ life \in {"new", "stopped", "abandoned"}
    /\ starts < MaxStarts
    /\ ctx' = "live"
    /\ life' = "starting"
    /\ starts' = starts + 1
    /\ loop' = [loop EXCEPT ![starts + 1] = At("spawned", NoTask, 0)]
    /\ UNCHANGED <<mu, taskVars, queue, toStart, wg, exec, semVars, resize>>

(* Second critical section: it walks over the map, so the order is open. *)
StartTimers ==
    /\ life = "starting"
    /\ mu = "free"
    /\ mu' = "startTimers"
    /\ toStart' = {tasks[i] : i \in {j \in Id : Known(j) /\ enabled[tasks[j]]}}
    /\ UNCHANGED <<taskVars, queue, life, ctx, starts, wg, loop, exec, semVars, resize>>

StartNextTimer(t) ==
    /\ mu = "startTimers"
    /\ t \in toStart
    /\ UNCHANGED <<enabled, status>>
    /\ StartTaskTimer(t)
    /\ toStart' = toStart \ {t}
    /\ UNCHANGED <<mu, ticks, tasks, retryCount, life, ctx, starts, wg, loop, exec,
                   semVars, resize>>

StartReturns ==
    /\ mu = "startTimers"
    /\ toStart = {}
    /\ mu' = "free"
    /\ life' = "started"
    /\ UNCHANGED <<taskVars, queue, toStart, ctx, starts, wg, loop, exec, semVars,
                   resize>>

(* The application cancels the context from which cs.ctx derives. *)
CancelParent ==
    /\ ctx = "live"
    /\ ctx' = "done"
    /\ UNCHANGED <<mu, taskVars, queue, toStart, life, starts, wg, loop, exec, semVars,
                   resize>>

(* cs.taskTimers is always empty: the timers end through the context. *)
Stop ==
    /\ mu = "free"
    /\ life = "started"
    /\ ctx' = "done"
    /\ life' = "stopping"
    /\ UNCHANGED <<mu, taskVars, queue, toStart, starts, wg, loop, exec, semVars,
                   resize>>

StopGracefully ==
    /\ life = "stopping"
    /\ wg = 0
    /\ life' = "stopped"
    /\ UNCHANGED <<mu, taskVars, queue, toStart, ctx, starts, wg, loop, exec, semVars,
                   resize>>

(* The ten seconds are over. *)
StopTimesOut ==
    /\ life = "stopping"
    /\ life' = "abandoned"
    /\ UNCHANGED <<mu, taskVars, queue, toStart, ctx, starts, wg, loop, exec, semVars,
                   resize>>

-----------------------------------------------------------------------------
(* executionLoop; k is the Start that launched it *)

(* Mutant: the loop does not add itself to the wait group it leaves. *)
LoopEnterUncounted(k) ==
    /\ loop[k].pc = "spawned"
    /\ loop' = [loop EXCEPT ![k] = At("check", NoTask, 0)]
    /\ UNCHANGED <<mu, taskVars, queue, wg, lifeVars, exec, semVars, resize>>

(* The goroutine itself adds to the wait group. *)
LoopEnter(k) ==
    /\ loop[k].pc = "spawned"
    /\ loop' = [loop EXCEPT ![k] = At("check", NoTask, 0)]
    /\ wg' = wg + 1
    /\ UNCHANGED <<mu, taskVars, queue, lifeVars, exec, semVars, resize>>

LoopExit(k) ==
    /\ loop[k].pc = "check"
    /\ ctx = "done"
    /\ loop' = [loop EXCEPT ![k] = NoLoop]
    /\ wg' = wg - 1
    /\ UNCHANGED <<mu, taskVars, queue, lifeVars, exec, semVars, resize>>

LoopGoOn(k) ==
    /\ loop[k].pc = "check"
    /\ ctx # "done"
    /\ loop' = [loop EXCEPT ![k] = At("pop", NoTask, 0)]
    /\ UNCHANGED <<mu, taskVars, queue, lifeVars, wg, exec, semVars, resize>>

LoopFindsNothing(k) ==
    /\ loop[k].pc = "pop"
    /\ queue = EmptyQueue
    /\ loop' = [loop EXCEPT ![k] = At("check", NoTask, 0)]
    /\ UNCHANGED <<mu, taskVars, queue, lifeVars, wg, exec, semVars, resize>>

(* Pop, then the field cs.semaphore is read without the lock. *)
LoopPop(k) ==
    /\ loop[k].pc = "pop"
    /\ queue # EmptyQueue
    /\ queue' = PopRest(queue)
    /\ loop' = [loop EXCEPT ![k] = At("acquire", PopTask(queue), semaphore)]
    /\ UNCHANGED <<mu, taskVars, lifeVars, wg, exec, semVars, resize>>

(* Mutant: one permit too many. *)
HasRoomOrFull(c) == chanLen[c] <= chanCap[c]

HasRoom(c) == chanLen[c] < chanCap[c]

(* Mutant: an execution is launched before it is counted. *)
LoopLaunchUncounted(k, e) ==
    /\ loop[k].pc = "acquire"
    /\ HasRoom(loop[k].sem)
    /\ exec[e] = Idle
    /\ chanLen' = [chanLen EXCEPT ![loop[k].sem] = @ + 1]
    /\ exec' = [exec EXCEPT ![e] = At("begin", loop[k].task, 0)]
    /\ loop' = [loop EXCEPT ![k] = At("check", NoTask, 0)]
    /\ UNCHANGED <<mu, taskVars, queue, wg, lifeVars, semaphore, chanCap, resize>>

(* A permit is sent and a goroutine launched for the task. *)
LoopLaunch(k, e) ==
    /\ loop[k].pc = "acquire"
    /\ HasRoom(loop[k].sem)
    /\ exec[e] = Idle
    /\ chanLen' = [chanLen EXCEPT ![loop[k].sem] = @ + 1]
    /\ wg' = wg + 1
    /\ exec' = [exec EXCEPT ![e] = At("begin", loop[k].task, 0)]
    /\ loop' = [loop EXCEPT ![k] = At("check", NoTask, 0)]
    /\ UNCHANGED <<mu, taskVars, queue, lifeVars, semaphore, chanCap, resize>>

(* Mutant: the task is dropped when there is no permit. *)
LoopDrops(k) ==
    /\ loop[k].pc = "acquire"
    /\ ~HasRoom(loop[k].sem)
    /\ loop' = [loop EXCEPT ![k] = At("check", NoTask, 0)]
    /\ UNCHANGED <<mu, taskVars, queue, lifeVars, wg, exec, semVars, resize>>

(* No permit: the task goes back behind those of its priority. *)
LoopRequeue(k) ==
    /\ loop[k].pc = "acquire"
    /\ ~HasRoom(loop[k].sem)
    /\ queue' = Push(queue, loop[k].task)
    /\ loop' = [loop EXCEPT ![k] = At("check", NoTask, 0)]
    /\ UNCHANGED <<mu, taskVars, lifeVars, wg, exec, semVars, resize>>

-----------------------------------------------------------------------------
(* executeTask *)

ExecBegin(e) ==
    /\ exec[e].pc = "begin"
    /\ mu = "free"
    /\ status' = [status EXCEPT ![exec[e].task] = "running"]
    /\ exec' = [exec EXCEPT ![e] = At("run", @.task, 0)]
    /\ UNCHANGED <<mu, ticks, tasks, enabled, retryCount, ticking, queue, lifeVars, wg,
                   loop, semVars, resize>>

ExecSucceeds(e) ==
    /\ exec[e].pc = "run"
    /\ mu = "free"
    /\ retryCount' = [retryCount EXCEPT ![exec[e].task] = 0]
    /\ status' = [status EXCEPT ![exec[e].task] = "completed"]
    /\ exec' = [exec EXCEPT ![e] = At("release", @.task, 0)]
    /\ UNCHANGED <<mu, ticks, tasks, enabled, ticking, queue, lifeVars, wg, loop,
                   semVars, resize>>

(* Mutant: failures are not counted, so every one is retried. *)
ExecFailsUncounted(e) ==
    /\ exec[e].pc = "run"
    /\ mu = "free"
    /\ status' = [status EXCEPT ![exec[e].task] = "failed"]
    /\ queue' = Push(queue, exec[e].task)
    /\ exec' = [exec EXCEPT ![e] = At("release", @.task, 0)]
    /\ UNCHANGED <<mu, ticks, tasks, enabled, retryCount, ticking, lifeVars, wg, loop,
                   semVars, resize>>

(* The task is pushed again at once while it has retries left; then it is  *)
(* disabled, whatever became of it in the meantime.                        *)
ExecFails(e) ==
    LET t == exec[e].task IN
    /\ exec[e].pc = "run"
    /\ mu = "free"
    /\ retryCount[t] < RetryBound[t]
    /\ retryCount' = [retryCount EXCEPT ![t] = @ + 1]
    /\ IF retryCount[t] + 1 < MaxRetries
       THEN /\ status' = [status EXCEPT ![t] = "failed"]
            /\ queue' = Push(queue, t)
            /\ UNCHANGED enabled
       ELSE /\ status' = [status EXCEPT ![t] = "stopped"]
            /\ enabled' = [enabled EXCEPT ![t] = FALSE]
            /\ UNCHANGED queue
    /\ exec' = [exec EXCEPT ![e] = At("release", @.task, 0)]
    /\ UNCHANGED <<mu, ticks, tasks, ticking, lifeVars, wg, loop, semVars, resize>>

(* The deferred receive evaluates cs.semaphore after the unlock, *)
ExecRelease(e) ==
    /\ exec[e].pc = "release"
    /\ exec' = [exec EXCEPT ![e] = At("receive", @.task, semaphore)]
    /\ UNCHANGED <<mu, taskVars, queue, lifeVars, wg, loop, semVars, resize>>

(* Mutants: a permit that is never given back, an execution never counted  *)
(* off the wait group.                                                     *)
ExecKeepsPermit(e) ==
    /\ exec[e].pc = "receive"
    /\ wg' = wg - 1
    /\ exec' = [exec EXCEPT ![e] = Idle]
    /\ UNCHANGED <<mu, taskVars, queue, lifeVars, loop, semVars, resize>>
ExecNotDone(e) ==
    LET c == exec[e].sem IN
    /\ exec[e].pc = "receive"
    /\ chanLen[c] > 0
    /\ chanLen' = [chanLen EXCEPT ![c] = @ - 1]
    /\ exec' = [exec EXCEPT ![e] = Idle]
    /\ UNCHANGED <<mu, taskVars, queue, wg, lifeVars, loop, semaphore, chanCap, resize>>

(* and blocks while that channel is empty. *)
ExecReceive(e) ==
    LET c == exec[e].sem IN
    /\ exec[e].pc = "receive"
    /\ chanLen[c] > 0
    /\ chanLen' = [chanLen EXCEPT ![c] = @ - 1]
    /\ wg' = wg - 1
    /\ exec' = [exec EXCEPT ![e] = Idle]
    /\ UNCHANGED <<mu, taskVars, queue, lifeVars, loop, semaphore, chanCap, resize>>

-----------------------------------------------------------------------------
(* SetMaxConcurrent after Start.  It holds cs.mu throughout; the loop and  *)
(* the deferred receives, which do not lock, run between its steps.        *)

BeginResize(n) ==
    /\ mu = "free"
    /\ semaphore < MaxResizes
    /\ mu' = "resize"
    /\ semaphore' = semaphore + 1
    /\ chanCap' = [chanCap EXCEPT ![semaphore + 1] = n]
    /\ resize' = [pc |-> "check", old |-> semaphore, i |-> 0]
    /\ UNCHANGED <<taskVars, queue, lifeVars, wg, loop, exec, chanLen>>

(* for i := 0; i < len(oldSemaphore); i++ *)
ResizeCheck ==
    /\ resize.pc = "check"
    /\ IF resize.i < chanLen[resize.old]
       THEN resize' = [resize EXCEPT !.pc = "take"] /\ UNCHANGED mu
       ELSE resize' = NoResize /\ mu' = "free"
    /\ UNCHANGED <<taskVars, queue, lifeVars, wg, loop, exec, semVars>>

(* Mutant: the permit taken from the old channel is not put into the new. *)
ResizeTakesOnly ==
    /\ resize.pc = "take"
    /\ IF chanLen[resize.old] > 0
       THEN chanLen' = [chanLen EXCEPT ![resize.old] = @ - 1]
       ELSE UNCHANGED chanLen
    /\ resize' = [resize EXCEPT !.pc = "check", !.i = @ + 1]
    /\ UNCHANGED <<mu, taskVars, queue, lifeVars, wg, loop, exec, semaphore, chanCap>>

(* The break in the default case leaves the select, not the loop. *)
ResizeTake ==
    /\ resize.pc = "take"
    /\ IF chanLen[resize.old] > 0
       THEN /\ chanLen' = [chanLen EXCEPT ![resize.old] = @ - 1]
            /\ resize' = [resize EXCEPT !.pc = "put"]
       ELSE /\ resize' = [resize EXCEPT !.pc = "check", !.i = @ + 1]
            /\ UNCHANGED chanLen
    /\ UNCHANGED <<mu, taskVars, queue, lifeVars, wg, loop, exec, semaphore, chanCap>>

(* The send blocks while the new channel is full. *)
ResizePut ==
    /\ resize.pc = "put"
    /\ HasRoom(semaphore)
    /\ chanLen' = [chanLen EXCEPT ![semaphore] = @ + 1]
    /\ resize' = [resize EXCEPT !.pc = "check", !.i = @ + 1]
    /\ UNCHANGED <<mu, taskVars, queue, lifeVars, wg, loop, exec, semaphore, chanCap>>

-----------------------------------------------------------------------------
TaskOperation ==
    \/ \E t \in Task :
        \/ "Add" \in Calls /\ AddTask(t)
        \/ "UpdateTask" \in Calls /\ UpdateTask(t)
    \/ \E i \in Id :
        \/ "Remove" \in Calls /\ RemoveTask(i)
        \/ "StartTask" \in Calls /\ StartTask(i)
        \/ "StopTask" \in Calls /\ StopTask(i)
        \/ "PauseTask" \in Calls /\ PauseTask(i)
        \/ "ResumeTask" \in Calls /\ ResumeTask(i)

Timer(t) == TickFires(t) \/ HandleTick(t) \/ TimerExit(t)

StartStop ==
    \/ Start \/ StartTimers \/ StartReturns \/ Stop \/ StopGracefully
    \/ "CancelParent" \in Calls /\ CancelParent
    \/ "StopTimesOut" \in Calls /\ StopTimesOut
    \/ \E t \in Task : StartNextTimer(t)

ExecutionLoop(k) ==
    \/ LoopEnter(k) \/ LoopExit(k) \/ LoopGoOn(k) \/ LoopFindsNothing(k)
    \/ LoopPop(k) \/ LoopRequeue(k)
    \/ \E e \in Exec : LoopLaunch(k, e)

ExecuteTask(e) ==
    \/ ExecBegin(e) \/ ExecSucceeds(e) \/ ExecFails(e)
    \/ ExecRelease(e) \/ ExecReceive(e)

Next ==
    \/ TaskOperation
    \/ \E t \in Task : Timer(t)
    \/ StartStop
    \/ \E k \in Loop : ExecutionLoop(k)
    \/ \E e \in Exec : ExecuteTask(e)

Resize ==
    \/ \E n \in 1..Limit : BeginResize(n)
    \/ ResizeCheck \/ ResizeTake \/ ResizePut

(* The semaphore keeps the capacity it had when the scheduler was started, *)
(* as in the application, which calls SetMaxConcurrent only before Start.  *)
Spec == Init /\ [][Next]_vars

(* SetMaxConcurrent is also called while tasks run, as its interface       *)
(* allows and OnConfigUpdate intends.                                      *)
SpecResize == Init /\ [][Next \/ Resize]_vars

(* Goroutines that can run do run, those with a tick in hand included.     *)
(* Ticks, calls of the API, cancellation, the ten seconds of Stop and the  *)
(* end of a timer may or may not come.                                     *)
Fairness ==
    /\ \A k \in Loop : WF_vars(ExecutionLoop(k))
    /\ \A e \in Exec : WF_vars(ExecuteTask(e))
    /\ \A t \in Task : WF_vars(HandleTick(t))
    /\ WF_vars(StartTimers \/ StartReturns \/ \E t \in Task : StartNextTimer(t))
    /\ WF_vars(StopGracefully)

FairSpec == Spec /\ Fairness
FairSpecResize == SpecResize /\ Fairness /\ WF_vars(ResizeCheck \/ ResizeTake \/ ResizePut)
-----------------------------------------------------------------------------
(* Properties *)

InFlight == {e \in Exec : exec[e].pc # "idle"}
CountedLoops == {k \in Loop : loop[k].pc \in {"check", "pop", "acquire"}}

(* The queue handed to Pop is ordered by priority, whatever timers, tasks  *)
(* restarted, retries and requeued tasks were pushed and in which order    *)
(* (priority_queue.go:25-37).                                              *)
QueueSorted == Ordered(queue)

(* No more executions hold a permit than the semaphore has places: the     *)
(* permits in the channel are exactly those of executions not yet over, so *)
(* none leaks or is given back twice (scheduler.go:424-426 and 438-441).   *)
PermitPerExecution == chanLen[semaphore] = Cardinality(InFlight)

(* At most the configured number of executions is in flight, with any      *)
(* number of restarts and of execution loops left over from a Stop that    *)
(* timed out (scheduler.go:422-431).                                       *)
ConcurrencyLimit == Cardinality(InFlight) <= Limit

(* The wait group counts the execution loops that have entered and every   *)
(* execution launched, so that Stop can wait for them (scheduler.go:299,   *)
(* 408-409, 425 and 440).                                                  *)
WaitGroupCounts == wg = Cardinality(CountedLoops) + Cardinality(InFlight)

(* When Stop has returned without a timeout, no execution is in flight and *)
(* no loop can launch one before the next Start (scheduler.go:296-306).    *)
GracefulStop ==
    life = "stopped" =>
        /\ InFlight = {}
        /\ \A k \in Loop : loop[k].pc \notin {"pop", "acquire"}

(* Executions in which t is running, and requests of t that are waiting or *)
(* in the hand of a loop.                                                  *)
Active(t) == Cardinality({e \in Exec : exec[e].pc \in {"begin", "run"} /\ exec[e].task = t})
Closing(t) == Cardinality({e \in Exec : exec[e].pc \in {"release", "receive"} /\ exec[e].task = t})
Pending(t) ==
    Cardinality({i \in 1..Len(queue) : queue[i] = t})
    + Cardinality({k \in Loop : loop[k].task = t})

Executor == INSTANCE BoundedExecutor WITH
    armed <- {t \in Task : ticking[t]},
    due <- [t \in Task |-> TicksInHand(t)],
    pending <- [t \in Task |-> Pending(t)],
    active <- [t \in Task |-> Active(t)],
    closing <- [t \in Task |-> Closing(t)]

(* Every request is executed once, and only a tick received from a live    *)
(* timer, a restart or a retry makes one - a stopped timer no more than it *)
(* had ticks in hand -, however ticks, Pop, a full semaphore, requeueing,  *)
(* Stop and a new Start interleave: the scheduler implements               *)
(* BoundedExecutor (scheduler.go:315-343, 408-518).                        *)
ImplementsExecutor == Executor!Spec

(* While tasks wait, some execution eventually takes place, unless the     *)
(* context is cancelled first: permits come back (scheduler.go:406-434).   *)
WaitingWorkProceeds ==
    (life = "started" /\ queue # EmptyQueue) ~> (InFlight # {} \/ ctx = "done")

(* Stop returns before its timeout or by it, however executions fail or    *)
(* retry after the cancellation (scheduler.go:292-310): under Fairness the *)
(* wait group drains.                                                      *)
StopReturns == life = "stopping" ~> life # "stopping"

(* What is left of t: ticks in hand, requests and executions *)
Work(t) == TicksInHand(t) + Pending(t) + Active(t)

(* The ticks in hand, requests and executions left of a task without a     *)
(* live timer only run down, though ticks received before it was stopped   *)
(* are still pushed: none is added, and an execution that ends with a      *)
(* retry uses up one of the failures that are left, which only a new       *)
(* configuration gives back.  So the pair of what is left and of the       *)
(* failures still allowed decreases in the lexicographic order with every  *)
(* execution, also when several of one task fail and succeed in any order  *)
(* (scheduler.go:327-330, 476-518).                                        *)
RunsDown(t) ==
    /\ Work(t)' <= Work(t)
    /\ Work(t)' = Work(t) =>
        IF Active(t)' < Active(t)
        THEN retryCount'[t] = retryCount[t] + 1 /\ retryCount'[t] < MaxRetries
        ELSE retryCount'[t] = retryCount[t] \/ AddTask(t)
LeftoverRunsDown ==
    [][\A t \in Task : ~ticking[t] /\ ~ticking'[t] => RunsDown(t)]_vars

(* A task of the highest priority whose timer is gone runs dry: its retries *)
(* end, unless it is started again or the scheduler is stopped             *)
(* (scheduler.go:492-508).                                                 *)
Top(t) == \A u \in Task \ {t} : Priority[u] < Priority[t]
RetriesEnd ==
    \A t \in {u \in Task : Top(u)} :
        (~ticking[t] /\ Work(t) > 0) ~> (Work(t) = 0 \/ ticking[t] \/ ctx # "live")

(* SetMaxConcurrent loses and invents no permit, even where it leaves some *)
(* behind in the old channel: the permits of all channels, and the one it  *)
(* holds between two of them, are those of the executions in flight        *)
(* (scheduler.go:784-796).                                                 *)
PermitsConserved ==
    SumFunction(chanLen) + (IF resize.pc = "put" THEN 1 ELSE 0) = Cardinality(InFlight)

-----------------------------------------------------------------------------
(* The inductive invariant behind the theorems of CheckScheduler_proofs *)

(* Nobody has called SetMaxConcurrent after Start. *)
OneChannel ==
    /\ semaphore = 0
    /\ chanCap[0] = Limit
    /\ resize = NoResize
    /\ mu # "resize"
    /\ \A k \in Loop : loop[k].sem = 0
    /\ \A e \in Exec : exec[e].sem = 0

(* Goroutines with a task in hand, loops not yet launched, and the context *)
(* of a scheduler that is being or has been stopped.                       *)
Hands ==
    /\ \A k \in Loop : loop[k].pc = "acquire" <=> loop[k].task \in Task
    /\ \A k \in Loop : k > starts => loop[k].pc = "off"
    /\ \A e \in Exec : exec[e].pc = "idle" => exec[e] = Idle
    /\ \A e \in Exec : exec[e].pc # "idle" => exec[e].task \in Task
    /\ life \in {"stopping", "stopped"} => ctx = "done"

GoroutineInv ==
    /\ TypeOK
    /\ Hands
    /\ WaitGroupCounts
    /\ GracefulStop

SchedulerInv ==
    /\ GoroutineInv
    /\ OneChannel
    /\ chanLen[0] <= Limit
    /\ PermitPerExecution

(* With calls of SetMaxConcurrent: one at a time, between BeginResize and  *)
(* the last ResizeCheck.                                                   *)
ResizeInv ==
    /\ GoroutineInv
    /\ resize.pc = "none" <=> mu # "resize"
    /\ PermitsConserved
=============================================================================
