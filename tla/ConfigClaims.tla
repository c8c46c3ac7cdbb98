---------------------------- MODULE ConfigClaims ----------------------------
(***************************************************************************)
(* What the requirements say of a configuration that changes while the     *)
(* application runs, and the code does not keep: refuted by a run.         *)
(***************************************************************************)
EXTENDS ConfigManager

CONSTANTS v0, v1, bad

ClaimRepairOf == [f \in {bad} |-> v1]

(* A configuration that was loaded is applied to the collections that      *)
(* follow (.kiro/specs/k8s-node-diagnostor/requirements.md:69): once the   *)
(* watching goroutine has nothing left to do, the modules work with it.    *)
(* Reload calls the embedded Load, which tells no module (manager.go:206). *)
ModulesCurrent == Quiet => modules = config
=============================================================================
