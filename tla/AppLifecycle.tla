---------------------------- MODULE AppLifecycle ----------------------------
(***************************************************************************)
(* cmd/node-diagnostor/app.go: starting and stopping the application while *)
(* checks run.  Start starts the configuration watch, the reporter and the *)
(* scheduler; on a signal, Stop cancels the root context, waits up to ten  *)
(* seconds for the scheduler's goroutines, has the reporter write the      *)
(* reports it still holds to disk, and closes the configuration manager.   *)
(* A report is held from its acceptance until it is sent (ReporterClient); *)
(* the limits of the reporter's cache are in ReportCache.                  *)
(***************************************************************************)
CONSTANT Execution      \* executions that may begin

VARIABLES
    phase,      \* how far Start or Stop got
    loop,       \* the execution loop runs
    execution,  \* how far each execution got
    held,       \* executions whose report is in the reporter's cache
    saved,      \* ... in the file the cache was written to
    timedOut,   \* Stop of the scheduler gave up waiting
    writeFailed \* the cache could not be written

appVars == <<phase, loop, execution, held, saved, timedOut, writeFailed>>

AppTypeOK ==
    /\ phase \in {"loaded", "watching", "reporting", "running", "draining",
                  "drained", "persisted", "closed", "exited"}
    /\ loop \in BOOLEAN /\ timedOut \in BOOLEAN /\ writeFailed \in BOOLEAN
    /\ execution \in [Execution -> {"new", "collecting", "sending", "over"}]
    /\ held \subseteq Execution /\ saved \subseteq Execution

AppInit ==
    /\ phase = "loaded" /\ loop = FALSE
    /\ execution = [e \in Execution |-> "new"]
    /\ held = {} /\ saved = {}
    /\ timedOut = FALSE /\ writeFailed = FALSE

-----------------------------------------------------------------------------
StartUp(from, to) ==
    /\ phase = from /\ phase' = to
    /\ loop' = (to = "running")
    /\ UNCHANGED <<execution, held, saved, timedOut, writeFailed>>

(* One of the three fails: Run returns, and nothing is stopped. *)
StartFails ==
    /\ phase \in {"loaded", "watching", "reporting"} /\ phase' = "exited"
    /\ UNCHANGED <<loop, execution, held, saved, timedOut, writeFailed>>

Start ==
    \/ StartUp("loaded", "watching")
    \/ StartUp("watching", "reporting")
    \/ StartUp("reporting", "running")
    \/ StartFails

Alive == phase \notin {"closed", "exited"}

(* The loop may have taken a task from the queue before it sees that the   *)
(* context is cancelled.                                                   *)
BeginExecution(e) ==
    /\ Alive /\ loop
    /\ execution[e] = "new"
    /\ execution' = [execution EXCEPT ![e] = "collecting"]
    /\ UNCHANGED <<phase, loop, held, saved, timedOut, writeFailed>>

EndLoop ==
    /\ Alive /\ loop /\ phase # "running"
    /\ loop' = FALSE
    /\ UNCHANGED <<phase, execution, held, saved, timedOut, writeFailed>>

(* Accepted by Report, or no report: the execution failed. *)
Accept(e) ==
    /\ Alive /\ execution[e] = "collecting"
    /\ \/ execution' = [execution EXCEPT ![e] = "sending"] /\ held' = held \cup {e}
       \/ execution' = [execution EXCEPT ![e] = "over"] /\ UNCHANGED held
    /\ UNCHANGED <<phase, loop, saved, timedOut, writeFailed>>

(* A request made with a cancelled context fails; one that was answered    *)
(* before still counts.                                                    *)
EndSending(e) ==
    /\ Alive /\ execution[e] = "sending"
    /\ execution' = [execution EXCEPT ![e] = "over"]
    /\ held' \in {held, held \ {e}}
    /\ UNCHANGED <<phase, loop, saved, timedOut, writeFailed>>

-----------------------------------------------------------------------------
(* The signal, and Stop up to where the scheduler waits. *)
Signal ==
    /\ phase = "running" /\ phase' = "draining"
    /\ UNCHANGED <<loop, execution, held, saved, timedOut, writeFailed>>

AllDone == ~loop /\ \A e \in Execution : execution[e] \in {"new", "over"}

(* Mutant: Stop does not wait for the scheduler's goroutines. *)
DrainedAtOnce ==
    /\ phase = "draining"
    /\ phase' = "drained"
    /\ UNCHANGED <<loop, execution, held, saved, timedOut, writeFailed>>

Drained ==
    /\ phase = "draining" /\ AllDone
    /\ phase' = "drained"
    /\ UNCHANGED <<loop, execution, held, saved, timedOut, writeFailed>>

(* App.Stop returns the scheduler's error, and the process exits. *)
GiveUp ==
    /\ phase = "draining"
    /\ phase' = "exited" /\ timedOut' = TRUE
    /\ UNCHANGED <<loop, execution, held, saved, writeFailed>>

(* An error of the write is logged. *)
StopReporter ==
    /\ phase = "drained" /\ phase' = "persisted"
    /\ \/ saved' = held /\ UNCHANGED writeFailed
       \/ writeFailed' = TRUE /\ UNCHANGED saved
    /\ UNCHANGED <<loop, execution, held, timedOut>>

CloseConfig ==
    /\ phase = "persisted" /\ phase' = "closed"
    /\ UNCHANGED <<loop, execution, held, saved, timedOut, writeFailed>>

AppNext ==
    \/ Start
    \/ \E e \in Execution : BeginExecution(e) \/ Accept(e) \/ EndSending(e)
    \/ EndLoop \/ Signal \/ Drained \/ GiveUp \/ StopReporter \/ CloseConfig

AppSpec == AppInit /\ [][AppNext]_appVars

-----------------------------------------------------------------------------
(* No report is lost by stopping, however executions interleave with it,   *)
(* and none is left half sent, unless the scheduler did not drain in time: *)
(* then App.Stop returns before it stops the reporter (app.go:217), or the *)
(* write failed.                                                           *)
NothingLostByStop ==
    /\ phase = "closed" => AllDone /\ (writeFailed \/ held = saved)
    /\ phase = "exited" => timedOut \/ held = {}
=============================================================================
