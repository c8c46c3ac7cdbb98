------------------------------ MODULE TaskTimer ------------------------------
(***************************************************************************)
(* internal/scheduler/scheduler.go: the ticker of one task object and the  *)
(* goroutines that wait on it.  Each call of startTaskTimer makes a ticker *)
(* and a goroutine; a goroutine reads the fields Ticker and StopChan again *)
(* each time it enters its select, without the lock that the operations    *)
(* hold while they replace them.  CheckScheduler abstracts all of this to  *)
(* one Boolean per task.                                                   *)
(*                                                                         *)
(* Goroutine k is the one started with ticker k.  The task's entry in      *)
(* cs.tasks is this object or none; Start and Stop are called once.        *)
(***************************************************************************)
EXTENDS Naturals

CONSTANTS
    MaxTickers,     \* bound: calls of startTaskTimer
    MaxChannels     \* bound: calls of Add

ASSUME TimerAssumption == MaxTickers \in Nat \ {0} /\ MaxChannels \in Nat \ {0}

Ticker == 1..MaxTickers
Channel == 1..MaxChannels
Nil == 0

VARIABLES
    task,       \* the fields of the object that matter to its timer
    registered, \* cs.tasks holds the object
    service,    \* the scheduler: "new", "starting", "running" or "stopped"
    live,       \* tickers created and not stopped
    made,       \* number of tickers created
    closed,     \* closed stop channels
    channels,   \* number of stop channels created
    waiter,     \* the goroutines: where each is, on which ticker and channel
    raced,      \* history: see TicksUnlessRaced
    panicked    \* a nil Ticker was dereferenced: the process is gone

timerVars == <<task, registered, service, live, made, closed, channels, waiter, raced, panicked>>

At(pc, k, c) == [pc |-> pc, ticker |-> k, chan |-> c]

TimerTypeOK ==
    /\ task \in [enabled : BOOLEAN, paused : BOOLEAN, ticker : Ticker \cup {Nil}, chan : Channel \cup {Nil}]
    /\ registered \in BOOLEAN
    /\ service \in {"new", "starting", "running", "stopped"}
    /\ live \in SUBSET Ticker
    /\ made \in 0..MaxTickers
    /\ closed \in SUBSET Channel
    /\ channels \in 0..MaxChannels
    /\ waiter \in [Ticker -> [pc : {"off", "enter", "chan", "wait", "ticked", "ending", "stopping"},
                              ticker : Ticker \cup {Nil}, chan : Channel \cup {Nil}]]
    /\ raced \in BOOLEAN
    /\ panicked \in BOOLEAN

TimerInit ==
    /\ task = [enabled |-> TRUE, paused |-> FALSE, ticker |-> Nil, chan |-> Nil]
    /\ registered = FALSE
    /\ service = "new"
    /\ live = {}
    /\ made = 0
    /\ closed = {}
    /\ channels = 0
    /\ waiter = [k \in Ticker |-> At("off", Nil, Nil)]
    /\ raced = FALSE
    /\ panicked = FALSE

-----------------------------------------------------------------------------
(* Mutant: the old ticker is not stopped. *)
StartTimerLeaks(t) ==
    /\ made < MaxTickers
    /\ made' = made + 1
    /\ live' = live \cup {made + 1}
    /\ task' = [t EXCEPT !.ticker = made + 1]
    /\ waiter' = [waiter EXCEPT ![made + 1] = At("enter", Nil, Nil)]
    /\ UNCHANGED <<raced, closed>>

(* startTaskTimer, applied to the task as the caller left it *)
StartTimer(t) ==
    /\ made < MaxTickers
    /\ made' = made + 1
    /\ live' = (live \ {t.ticker}) \cup {made + 1}
    /\ task' = [t EXCEPT !.ticker = made + 1]
    /\ waiter' = [waiter EXCEPT ![made + 1] = At("enter", Nil, Nil)]
    /\ raced' = (raced \/ \E k \in Ticker :
                    \/ waiter[k].pc \in {"ending", "stopping"}
                    \/ waiter[k].pc \in {"wait", "chan"} /\ waiter[k].chan \in closed
                    \/ waiter[k].pc = "chan" /\ t.chan = Nil)
    /\ UNCHANGED closed

NoTimer(t) == task' = t /\ UNCHANGED <<made, live, waiter, raced, closed>>

(* stopTaskTimer, applied to the task as the caller left it *)
StopTimer(t) ==
    /\ closed' = closed \cup ({t.chan} \ {Nil})
    /\ live' = live \ {t.ticker}
    /\ task' = [t EXCEPT !.chan = Nil, !.ticker = Nil]
    /\ UNCHANGED <<made, waiter, raced>>

-----------------------------------------------------------------------------
AddTask ==
    /\ channels < MaxChannels
    /\ channels' = channels + 1
    /\ registered' = TRUE
    /\ LET t == [task EXCEPT !.enabled = TRUE, !.paused = FALSE, !.chan = channels + 1]
       IN  IF service \in {"starting", "running"} THEN StartTimer(t) ELSE NoTimer(t)
    /\ UNCHANGED <<service, panicked>>

RemoveTask ==
    /\ registered
    /\ registered' = FALSE
    /\ StopTimer(task)
    /\ UNCHANGED <<service, channels, panicked>>

StartTask ==
    /\ registered
    /\ ~task.enabled
    /\ LET t == [task EXCEPT !.enabled = TRUE, !.paused = FALSE]
       IN  IF service \in {"starting", "running"} THEN StartTimer(t) ELSE NoTimer(t)
    /\ UNCHANGED <<registered, service, channels, panicked>>

StopTask ==
    /\ registered
    /\ task.enabled
    /\ StopTimer([task EXCEPT !.enabled = FALSE, !.paused = FALSE])
    /\ UNCHANGED <<registered, service, channels, panicked>>

PauseTask ==
    /\ registered
    /\ ~task.paused
    /\ StopTimer([task EXCEPT !.paused = TRUE])
    /\ UNCHANGED <<registered, service, channels, panicked>>

(* Mutant: only the status is set back. *)
ResumeTaskNoTimer ==
    /\ registered
    /\ task.paused
    /\ NoTimer([task EXCEPT !.paused = FALSE])
    /\ UNCHANGED <<registered, service, channels, panicked>>

ResumeTask ==
    /\ registered
    /\ task.paused
    /\ LET t == [task EXCEPT !.paused = FALSE]
       IN  IF service \in {"starting", "running"} /\ t.enabled THEN StartTimer(t) ELSE NoTimer(t)
    /\ UNCHANGED <<registered, service, channels, panicked>>

(* The statuses an execution of the task writes at its beginning and end:  *)
(* none of them is "paused".  A failure too many disables the task and     *)
(* leaves its ticker alone.                                                *)
WriteStatus ==
    /\ service # "new"
    /\ task' = [task EXCEPT !.paused = FALSE]
    /\ raced' = (raced \/ task.paused)
    /\ UNCHANGED <<registered, service, live, made, closed, channels, waiter, panicked>>

Disable ==
    /\ service # "new"
    /\ task' = [task EXCEPT !.enabled = FALSE, !.paused = FALSE]
    /\ UNCHANGED <<registered, service, live, made, closed, channels, waiter, raced, panicked>>

(* Start in its two steps: Add may be called between them. *)
BeginStart ==
    /\ service = "new"
    /\ service' = "starting"
    /\ UNCHANGED <<task, registered, live, made, closed, channels, waiter, raced, panicked>>

StartTimers ==
    /\ service = "starting"
    /\ service' = "running"
    /\ IF registered /\ task.enabled THEN StartTimer(task) ELSE NoTimer(task)
    /\ UNCHANGED <<registered, channels, panicked>>

(* No timer is in cs.taskTimers, so only the context ends the goroutines. *)
Stop ==
    /\ service = "running"
    /\ service' = "stopped"
    /\ UNCHANGED <<task, registered, live, made, closed, channels, waiter, raced, panicked>>

-----------------------------------------------------------------------------
Move(k, w) == waiter' = [waiter EXCEPT ![k] = w]

Panic == panicked' = TRUE /\ UNCHANGED <<task, registered, service, live, made, closed, channels, waiter, raced>>

UnchangedButWaiter == UNCHANGED <<task, registered, service, live, made, closed, channels, raced, panicked>>

(* Entering the select reads task.Ticker.C, then task.StopChan. *)
ReadTicker(k) ==
    /\ waiter[k].pc = "enter"
    /\ IF task.ticker = Nil
       THEN Panic
       ELSE Move(k, At("chan", task.ticker, Nil)) /\ UnchangedButWaiter

ReadStopChan(k) ==
    /\ waiter[k].pc = "chan"
    /\ Move(k, At("wait", waiter[k].ticker, task.chan))
    /\ UnchangedButWaiter

(* A tick; pushing the task is the business of CheckScheduler. *)
Tick(k) ==
    /\ waiter[k].pc = "wait"
    /\ waiter[k].ticker \in live
    /\ Move(k, At("enter", Nil, Nil))
    /\ UnchangedButWaiter

Notice(k) ==
    /\ waiter[k].pc = "wait"
    /\ waiter[k].chan \in closed \/ service = "stopped"
    /\ Move(k, At("ending", Nil, Nil))
    /\ UnchangedButWaiter

(* if task.Ticker != nil { task.Ticker.Stop() } reads the field twice. *)
CheckTicker(k) ==
    /\ waiter[k].pc = "ending"
    /\ Move(k, At(IF task.ticker = Nil THEN "off" ELSE "stopping", Nil, Nil))
    /\ UnchangedButWaiter

StopTicker(k) ==
    /\ waiter[k].pc = "stopping"
    /\ IF task.ticker = Nil
       THEN Panic
       ELSE /\ live' = live \ {task.ticker}
            /\ Move(k, At("off", Nil, Nil))
            /\ UNCHANGED <<task, registered, service, made, closed, channels, raced, panicked>>

Wait(k) == ReadTicker(k) \/ ReadStopChan(k) \/ Tick(k) \/ Notice(k) \/ CheckTicker(k) \/ StopTicker(k)

TimerNext ==
    /\ ~panicked
    /\ \/ AddTask \/ RemoveTask \/ StartTask \/ StopTask \/ PauseTask \/ ResumeTask
       \/ WriteStatus \/ Disable
       \/ BeginStart \/ StartTimers \/ Stop
       \/ \E k \in Ticker : Wait(k)

TimerSpec == TimerInit /\ [][TimerNext]_timerVars

-----------------------------------------------------------------------------
(* However often a task is added, paused, disabled after failures and      *)
(* started again (scheduler.go:314), at most one ticker runs, and it is    *)
(* the one its next stop will find: no timer leaks, and no task is queued  *)
(* at twice its pace.                                                      *)
OneLiveTicker == live \subseteq {task.ticker}

(* A registered task that is enabled and not paused has a live ticker and  *)
(* a goroutine that reads it while the scheduler runs, unless one of two   *)
(* races of this code hit it: its timer was started again before a         *)
(* goroutine noticed that the stop channel had been closed, and that       *)
(* goroutine then stopped the new ticker (scheduler.go:333), or an         *)
(* execution wrote its status over "paused", so that ResumeTask refuses to *)
(* start the timer (scheduler.go:748).                                     *)
TicksUnlessRaced ==
    registered /\ task.enabled /\ ~task.paused /\ service = "running" /\ ~panicked /\ ~raced =>
        /\ task.ticker \in live
        /\ \E k \in Ticker : waiter[k].pc = "enter" \/ waiter[k].ticker = task.ticker
==============================================================================
