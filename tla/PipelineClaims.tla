--------------------------- MODULE PipelineClaims ---------------------------
(***************************************************************************)
(* What the requirements say of a check that is configured, and the code   *)
(* does not keep: refuted by a run over the default configuration and the  *)
(* application's own registry.                                             *)
(***************************************************************************)
EXTENDS Pipeline

DefaultChecks ==
    {[name |-> "node_health", collectors |-> {"cpu", "memory", "disk"}, enabled |-> TRUE]}

(* A check that is configured on a collector has it collect                *)
(* (.kiro/specs/k8s-node-diagnostor/requirements.md:77): an execution is   *)
(* not skipped for a name the executor has a collector for.  The validator *)
(* it asks knows none of the names that register.go registers              *)
(* (executor.go:52, datascope/validator.go:70).                            *)
ConfiguredChecksCollect ==
    \A e \in Execs : exec[e].task.collector \in Registry => exec[e].outcome # "skipped"
=============================================================================
