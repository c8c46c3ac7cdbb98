--------------------------- MODULE ResourceControl ---------------------------
(***************************************************************************)
(* internal/resource/manager.go, monitor.go and CreateStrategy of          *)
(* throttler.go: running checks are paused by priority while the process   *)
(* uses more than its limits.  The monitor writes its readings under a     *)
(* lock of its own, so an evaluation that holds the manager's lock reads   *)
(* processor and memory at different moments.  Pausing changes a status;   *)
(* only StopCheck and the time limit end the context of a run.             *)
(***************************************************************************)
EXTENDS Naturals

CONSTANTS
    Check,      \* names of checks
    Run,        \* the contexts StartCheck may make
    NoRun,      \* no entry in activeChecks
    Priorities, \* priorities that checks are registered with
    Levels      \* how far usage exceeds a limit: 0 not at all, 1 less than
                \* one and a half times, 2 up to twice, 3 more

ASSUME ResourceAssumption ==
    NoRun \notin Run /\ Priorities \subseteq 1..10 /\ Levels \subseteq 0..3 /\ 0 \in Levels

VARIABLES
    priorities, \* checkPriorities, 0 for a name that is not registered
    activeChecks, \* activeChecks
    run,        \* the contexts: priority, status, and how far each got
    throttled,  \* isThrottled
    cooled,     \* recoveryDelay has passed since lastThrottle
    usage,      \* the monitor's readings
    eval,       \* the evaluation in progress, which holds rm.mu
    byHand,     \* history: entries StopCheck or UpdateCheckStatus changed, not recovered since
    dropped     \* history: runs still at work, cleaned up while paused or throttled

resourceVars == <<priorities, activeChecks, run, throttled, cooled, usage, eval, byHand, dropped>>

Entry == {n \in Check : activeChecks[n] # NoRun}

ResourceTypeOK ==
    /\ priorities \in [Check -> Priorities \cup {0}]
    /\ activeChecks \in [Check -> Run \cup {NoRun}]
    /\ run \in [Run -> [of : Check \cup {NoRun}, priority : Priorities \cup {0},
                        status : {"active", "throttled", "paused"},
                        ctx : {"none", "live", "cancelled", "over"}]]
    /\ throttled \in BOOLEAN /\ cooled \in BOOLEAN
    /\ usage \in [{"cpu", "memory"} -> Levels]
    /\ eval \in {"none", "cpu", "memory", "apply"}
    /\ byHand \in SUBSET Run /\ dropped \in SUBSET Run

ResourceInit ==
    /\ priorities = [n \in Check |-> 0]
    /\ activeChecks = [n \in Check |-> NoRun]
    /\ run = [r \in Run |-> [of |-> NoRun, priority |-> 0, status |-> "active", ctx |-> "none"]]
    /\ throttled = FALSE
    /\ cooled = FALSE
    /\ usage = [m \in {"cpu", "memory"} |-> 0]
    /\ eval = "none"
    /\ byHand = {}
    /\ dropped = {}

-----------------------------------------------------------------------------
RegisterCheck(n, p) ==
    /\ eval = "none"
    /\ priorities' = [priorities EXCEPT ![n] = p]
    /\ UNCHANGED <<activeChecks, run, throttled, cooled, usage, eval, byHand, dropped>>

UnregisterCheck(n) == RegisterCheck(n, 0)

Unused == {r \in Run : run[r].ctx = "none"}

(* Mutant: the check may be active already. *)
StartCheckAgain(n) == LET r == CHOOSE r \in Unused : TRUE IN
    /\ eval = "none"
    /\ priorities[n] # 0
    /\ Unused # {}
    /\ activeChecks' = [activeChecks EXCEPT ![n] = r]
    /\ run' = [run EXCEPT ![r] = [of |-> n, priority |-> priorities[n], status |-> "active", ctx |-> "live"]]
    /\ UNCHANGED <<priorities, throttled, cooled, usage, eval, byHand, dropped>>

StartCheck(n) == LET r == CHOOSE r \in Unused : TRUE IN
    /\ eval = "none"
    /\ priorities[n] # 0
    /\ activeChecks[n] = NoRun
    /\ Unused # {}
    /\ activeChecks' = [activeChecks EXCEPT ![n] = r]
    /\ run' = [run EXCEPT ![r] = [of |-> n, priority |-> priorities[n], status |-> "active", ctx |-> "live"]]
    /\ UNCHANGED <<priorities, throttled, cooled, usage, eval, byHand, dropped>>

StopCheck(n) ==
    /\ eval = "none"
    /\ n \in Entry
    /\ run[activeChecks[n]].status = "active"
    /\ run' = [run EXCEPT ![activeChecks[n]].status = "paused",
                          ![activeChecks[n]].ctx = IF @ = "live" THEN "cancelled" ELSE @]
    /\ byHand' = byHand \cup {activeChecks[n]}
    /\ UNCHANGED <<priorities, activeChecks, throttled, cooled, usage, eval, dropped>>

UpdateCheckStatus(n, s) ==
    /\ eval = "none"
    /\ n \in Entry
    /\ run' = [run EXCEPT ![activeChecks[n]].status = s]
    /\ byHand' = byHand \cup {activeChecks[n]}
    /\ UNCHANGED <<priorities, activeChecks, throttled, cooled, usage, eval, dropped>>

(* The work of a run ends, or its time limit passes. *)
EndRun(r) ==
    /\ run[r].ctx = "live"
    /\ run' = [run EXCEPT ![r].ctx = "over"]
    /\ dropped' = dropped \ {r}
    /\ UNCHANGED <<priorities, activeChecks, throttled, cooled, usage, eval, byHand>>

(* CleanupCompletedChecks; late are the entries past their time limit. *)
Cleanup(late) ==
    /\ eval = "none"
    /\ late \subseteq {n \in Entry : run[activeChecks[n]].ctx # "live"}
    /\ LET idle == {n \in Entry : run[activeChecks[n]].status # "active"}
       IN  /\ activeChecks' = [n \in Check |-> IF n \in late \cup idle THEN NoRun ELSE activeChecks[n]]
           /\ dropped' = dropped \cup {r \in Run : run[r].ctx = "live" /\ \E n \in idle : activeChecks[n] = r}
           /\ byHand' = byHand \ {activeChecks[n] : n \in late \cup idle}
    /\ UNCHANGED <<priorities, run, throttled, cooled, usage, eval>>

-----------------------------------------------------------------------------
(* updateMetrics of the monitor, at any moment *)
UpdateMetrics(c, m) ==
    /\ usage' = [usage EXCEPT !["cpu"] = c, !["memory"] = m]
    /\ UNCHANGED <<priorities, activeChecks, run, throttled, cooled, eval, byHand, dropped>>

Exceeded(m) == usage[m] > 0

(* EvaluateResources: the processor, then the memory, then the decision *)
ReadCPU ==
    /\ eval = "none"
    /\ eval' = IF Exceeded("cpu") THEN "cpu" ELSE "memory"
    /\ UNCHANGED <<priorities, activeChecks, run, throttled, cooled, usage, byHand, dropped>>

StartThrottling ==
    /\ throttled' = TRUE
    /\ cooled' = FALSE
    /\ eval' = "apply"
    /\ UNCHANGED <<run, byHand>>

(* Mutant: recovery forgets the checks that were slowed down. *)
StopThrottlingOnly ==
    /\ throttled' = FALSE
    /\ eval' = "none"
    /\ UNCHANGED <<run, byHand, cooled>>

StopThrottling ==
    /\ throttled' = FALSE
    /\ eval' = "none"
    /\ run' = [r \in Run |-> IF \E n \in Check : activeChecks[n] = r THEN [run[r] EXCEPT !.status = "active"] ELSE run[r]]
    /\ byHand' = {r \in byHand : \A n \in Check : activeChecks[n] # r}
    /\ UNCHANGED cooled

(* eval is "cpu" if the processor exceeded its limit, "memory" if not. *)
Decide ==
    /\ eval \in {"cpu", "memory"}
    /\ LET excess == eval = "cpu" \/ Exceeded("memory")
       IN  \/ excess /\ ~throttled /\ StartThrottling
           \/ ~excess /\ throttled /\ cooled /\ StopThrottling
           \/ /\ excess = throttled \/ (throttled /\ ~cooled)
              /\ eval' = "none"
              /\ UNCHANGED <<run, throttled, cooled, byHand>>
    /\ UNCHANGED <<priorities, activeChecks, usage, dropped>>

(* CreateStrategy on the readings of this later moment *)
Threshold ==
    LET worst == IF usage["cpu"] > usage["memory"] THEN usage["cpu"] ELSE usage["memory"]
    IN  CASE worst = 3 -> [min |-> 9, reduced |-> 8]
          [] worst = 2 -> [min |-> 7, reduced |-> 5]
          [] OTHER -> [min |-> 5, reduced |-> 3]

ApplyStrategy ==
    /\ eval = "apply"
    /\ eval' = "none"
    /\ run' = [r \in Run |->
                IF \A n \in Check : activeChecks[n] # r THEN run[r]
                ELSE IF run[r].priority < Threshold.min THEN [run[r] EXCEPT !.status = "paused"]
                ELSE IF run[r].priority < Threshold.reduced THEN [run[r] EXCEPT !.status = "throttled"]
                ELSE run[r]]
    /\ UNCHANGED <<priorities, activeChecks, throttled, cooled, usage, byHand, dropped>>

Cool ==
    /\ throttled
    /\ ~cooled
    /\ cooled' = TRUE
    /\ UNCHANGED <<priorities, activeChecks, run, throttled, usage, eval, byHand, dropped>>

ResourceNext ==
    \/ \E n \in Check, p \in Priorities : RegisterCheck(n, p)
    \/ \E n \in Check : UnregisterCheck(n) \/ StartCheck(n) \/ StopCheck(n)
    \/ \E n \in Check, s \in {"active", "throttled", "paused"} : UpdateCheckStatus(n, s)
    \/ \E r \in Run : EndRun(r)
    \/ \E late \in SUBSET Entry : Cleanup(late)
    \/ \E c, m \in Levels : UpdateMetrics(c, m)
    \/ ReadCPU \/ Decide \/ ApplyStrategy \/ Cool

ResourceSpec == ResourceInit /\ [][ResourceNext]_resourceVars

-----------------------------------------------------------------------------
(* A check runs at most once at a time, except that cleaning up drops a    *)
(* run that throttling paused, which still works, as if it were over       *)
(* (manager.go:340); the next StartCheck then starts it a second time.     *)
OneRunPerCheck ==
    \A r, s \in Run :
        r # s /\ run[r].ctx = "live" /\ run[s].ctx = "live" /\ run[r].of = run[s].of =>
            r \in dropped \/ s \in dropped

(* When throttling ends no check stays slowed down by it: those that are   *)
(* not active were stopped, or given their status, by a caller since       *)
(* (manager.go:172).                                                       *)
RecoveredChecksActive ==
    ~throttled => \A n \in Entry : run[activeChecks[n]].status # "active" => activeChecks[n] \in byHand
==============================================================================
