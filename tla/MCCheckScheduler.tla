-------------------------- MODULE MCCheckScheduler --------------------------
(* Instances of the scheduler: at most three task objects under two IDs.   *)
EXTENDS CheckSchedulerClaims

CONSTANTS t1, t2, t3, i1, i2, e1, e2, e3

OneTask == {t1}
OneIdOf == t1 :> i1
OnePriority == t1 :> 1
OneTick == t1 :> 1
NoTick == t1 :> 0
OneFailure == t1 :> 1
TwoFailures == t1 :> 2

TwoTasks == {t1, t2}
TwoIds == {i1, i2}
OneId == {i1}

(* Two tasks, the second with the higher priority; in the run about        *)
(* liveness only that one ticks and fails.                                 *)
TwoIdOf == (t1 :> i1) @@ (t2 :> i2)
TwoPriorities == (t1 :> 1) @@ (t2 :> 2)
SecondTicks == (t1 :> 0) @@ (t2 :> 1)
SecondFails == (t1 :> 0) @@ (t2 :> 2)

(* Two objects that are configured one after the other under the same ID *)
SameIdOf == (t1 :> i1) @@ (t2 :> i1)
SamePriority == (t1 :> 1) @@ (t2 :> 1)
BothTick == (t1 :> 1) @@ (t2 :> 1)
BothFail == (t1 :> 1) @@ (t2 :> 1)

(* The application only adds tasks; what removes, starts and stops one,    *)
(* pauses one, replaces one.  The context may be cancelled from outside,   *)
(* Stop may run into its timeout, except in the run about liveness.        *)
Events == {"CancelParent", "StopTimesOut"}
AppCalls == {"Add"} \cup Events
SwitchCalls == {"Add", "Remove", "StartTask", "StopTask"} \cup Events
PauseCalls == {"Add", "PauseTask", "ResumeTask"} \cup Events
ReplaceCalls == {"Add", "UpdateTask"} \cup Events
StopCalls == {"Add", "StopTask"}

OneExec == {e1}
TwoExecs == {e1, e2}
ThreeExecs == {e1, e2, e3}
Symmetry == Permutations(Exec)

(* Objects under the same ID differ in nothing. *)
ObjectSymmetry == Permutations(Exec) \cup Permutations(Task)
==============================================================================
