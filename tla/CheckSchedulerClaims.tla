------------------------ MODULE CheckSchedulerClaims ------------------------
(***************************************************************************)
(* What comments, tests and requirements say of the scheduler and the code *)
(* does not keep.  Each is refuted by a run; none is an invariant.         *)
(***************************************************************************)
EXTENDS CheckScheduler

(* The collection of a deleted check stops at once                         *)
(* (.kiro/specs/k8s-node-diagnostor/requirements.md:71): no object that is *)
(* not in the map of tasks begins to execute (scheduler.go:232-246).       *)
RemovedTaskStops ==
    [][\A e \in Exec : ExecBegin(e) =>
            tasks[IdOf[exec[e].task]] = exec[e].task]_vars

(* "SetMaxConcurrent sets the maximum number of concurrent executions"     *)
(* (scheduler.go:774): the call returns and gives the mutex back.          *)
SetMaxConcurrentReturns == mu = "resize" ~> mu # "resize"
=============================================================================
