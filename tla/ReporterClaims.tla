--------------------------- MODULE ReporterClaims ---------------------------
(* What comments say of the report cache and its code does not do.         *)
EXTENDS ReporterClient

(* UpdateConfig, whose comment says that it triggers a cleanup when the    *)
(* new limits are smaller (cache_manager.go:195), gives the mutex of the   *)
(* cache back.                                                             *)
UpdateConfigReturns == mutex # "free" ~> mutex = "free"
=============================================================================
