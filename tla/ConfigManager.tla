---------------------------- MODULE ConfigManager ----------------------------
(***************************************************************************)
(* internal/config manager.go, error_handler.go and subscriber.go with the *)
(* application's use of them (app.go): one Load while the application is   *)
(* initialised, then the goroutine of Watch that waits for events on the   *)
(* file, lets a second pass, and reloads.  A file that does not parse or   *)
(* does not validate is repaired, and written back, or replaced in memory  *)
(* by the default configuration.                                           *)
(*                                                                         *)
(* The content of the file is abstracted to what Load makes of it; the     *)
(* rules that decide that are in ConfigRules.                              *)
(***************************************************************************)
EXTENDS Naturals

CONSTANTS
    Good,           \* contents that parse and validate: configurations
    Repairable,     \* contents that the repair makes valid
    Hopeless,       \* contents that parse and stay invalid
    Broken,         \* contents that do not parse
    Default,        \* DefaultConfig
    Absent,         \* no file
    RepairOf,       \* what the repair makes of a repairable content
    MaxChanges      \* bound: changes other programs make to the file

ASSUME ConfigAssumption ==
    /\ Default \in Good
    /\ Absent \notin Good \cup Repairable
    /\ Good \cap (Repairable \cup Broken) = {} /\ Repairable \cap Broken = {}
    /\ RepairOf \in [Repairable -> Good]
    /\ MaxChanges \in Nat

VARIABLES
    file,       \* content at the path, or Absent
    fresh,      \* the file's time stamp is not before lastReload
    watch,      \* fsnotify watches the inode at the path: "none", "on" or "lost"
    event,      \* a write, rename or create event is in the channel
    loader,     \* where the initial Load or the watching goroutine is
    read,       \* content the step in progress read
    config,     \* cm.config
    modules,    \* configuration the subscribed modules work with
    changes,    \* number of changes to the file so far
    overlooked  \* history: see QuietMeansCurrent

configVars == <<file, fresh, watch, event, loader, read, config, modules, changes, overlooked>>

Content == Good \cup Repairable \cup Hopeless \cup Broken

ConfigTypeOK ==
    /\ file \in Content \cup {Absent}
    /\ fresh \in BOOLEAN
    /\ watch \in {"none", "on", "lost"}
    /\ event \in BOOLEAN
    /\ loader \in {"load", "judge", "format", "repair", "rewrite", "commit", "create",
                   "start", "wait", "debounce", "failed"}
    /\ read \in Content \cup {Absent}
    /\ config \in Content
    /\ modules \in Content
    /\ changes \in 0..MaxChanges
    /\ overlooked \in BOOLEAN

ConfigInit ==
    /\ file = Absent
    /\ fresh = TRUE
    /\ watch = "none"
    /\ event = FALSE
    /\ loader = "load"
    /\ read = Absent
    /\ config = Default
    /\ modules = Default
    /\ changes = 0
    /\ overlooked = FALSE

Repaired(c) == IF c \in Repairable THEN RepairOf[c] ELSE c

-----------------------------------------------------------------------------
(* Other programs: an in-place write, in any number of pieces, a rename of *)
(* another file over the path, a removal, and a rename to another path.    *)
(* Only the first and the last cause events that the goroutine handles,    *)
(* and only the first leaves the inode that fsnotify watches in its place. *)
InLoad == loader \in {"judge", "format", "repair", "rewrite", "commit", "create", "start"}

ChangeFile(c, seen, moved) ==
    /\ changes < MaxChanges
    /\ changes' = changes + 1
    /\ file' = c
    /\ fresh' = TRUE
    /\ event' = (event \/ (seen /\ watch = "on"))
    /\ watch' = IF moved /\ watch = "on" THEN "lost" ELSE watch
    /\ overlooked' = (overlooked \/ InLoad)
    /\ UNCHANGED <<loader, read, config, modules>>

Write(c) == ChangeFile(c, TRUE, FALSE)
Replace(c) == ChangeFile(c, FALSE, TRUE)
Delete == file # Absent /\ ChangeFile(Absent, FALSE, TRUE)
MoveAway == file # Absent /\ ChangeFile(Absent, TRUE, TRUE)

-----------------------------------------------------------------------------
(* The program writes the file itself: an event like any other. *)
OwnWrite(c) ==
    /\ file' = c
    /\ fresh' = TRUE
    /\ event' = (event \/ watch = "on")
    /\ UNCHANGED <<watch, changes>>

(* Load, step by step; cm.mu is held, and only readers would contend for it *)
ReadFile ==
    /\ loader = "load"
    /\ read' = file
    /\ loader' = IF file = Absent THEN "create" ELSE "judge"
    /\ overlooked' = FALSE
    /\ UNCHANGED <<file, fresh, watch, event, config, modules, changes>>

Judge ==
    /\ loader = "judge"
    /\ loader' = CASE read \in Good -> "commit"
                   [] read \in Broken -> "format"
                   [] OTHER -> "repair"
    /\ UNCHANGED <<file, fresh, watch, event, read, config, modules, changes, overlooked>>

(* Mutant: what was repaired is not validated again. *)
RereadUnchecked ==
    /\ loader \in {"format", "repair"}
    /\ file # Absent
    /\ read' = Repaired(file) /\ loader' = "rewrite"
    /\ UNCHANGED <<file, fresh, watch, event, config, modules, changes, overlooked>>

(* handleFormatError copies the file to the backups and reads it again:    *)
(* its repair of the text changes nothing, so it succeeds only if another  *)
(* program has completed the file meanwhile.  handleValidationError reads  *)
(* the file again too.  Both fall back to the default configuration.       *)
Reread ==
    /\ loader \in {"format", "repair"}
    /\ LET fixed == IF loader = "format" THEN file ELSE Repaired(file)
       IN  \/ fixed \in Good /\ read' = fixed /\ loader' = "rewrite"
           \/ fixed \notin Good /\ read' = Default /\ loader' = "commit"
    /\ UNCHANGED <<file, fresh, watch, event, config, modules, changes, overlooked>>

Rewrite ==
    /\ loader = "rewrite"
    /\ OwnWrite(read)
    /\ loader' = "commit"
    /\ UNCHANGED <<read, config, modules, overlooked>>

(* Mutant: a reload parses and validates the file, and does not use it. *)
CommitOnce ==
    /\ loader = "commit"
    /\ config' = IF watch = "none" THEN read ELSE config
    /\ fresh' = FALSE
    /\ loader' = IF watch = "none" THEN "start" ELSE "wait"
    /\ modules' = IF watch = "none" THEN read ELSE modules
    /\ UNCHANGED <<file, watch, event, read, changes, overlooked>>

(* The configuration and the time stamp are set.  The modules subscribe    *)
(* after the first Load; Reload calls the embedded Load (manager.go:206),  *)
(* which tells only callbacks, and nobody registers one.                   *)
Commit ==
    /\ loader = "commit"
    /\ config' = read
    /\ fresh' = FALSE
    /\ loader' = IF watch = "none" THEN "start" ELSE "wait"
    /\ modules' = IF watch = "none" THEN read ELSE modules
    /\ UNCHANGED <<file, watch, event, read, changes, overlooked>>

(* createDefaultConfig; Reload calls it without the lock. *)
Create ==
    /\ loader = "create"
    /\ OwnWrite(Default)
    /\ read' = Default
    /\ loader' = "commit"
    /\ UNCHANGED <<config, modules, overlooked>>

-----------------------------------------------------------------------------
Watch ==
    /\ loader = "start"
    /\ IF file = Absent
       THEN loader' = "failed" /\ UNCHANGED watch
       ELSE loader' = "wait" /\ watch' = "on"
    /\ UNCHANGED <<file, fresh, event, read, config, modules, changes, overlooked>>

ReceiveEvent ==
    /\ loader = "wait"
    /\ event
    /\ event' = FALSE
    /\ loader' = "debounce"
    /\ UNCHANGED <<file, fresh, watch, read, config, modules, changes, overlooked>>

Reload ==
    /\ loader = "debounce"
    /\ loader' = CASE file = Absent -> "create"
                   [] file # Absent /\ fresh -> "load"
                   [] OTHER -> "wait"
    /\ UNCHANGED <<file, fresh, watch, event, read, config, modules, changes, overlooked>>

Program ==
    \/ ReadFile \/ Judge \/ Reread \/ Rewrite \/ Commit \/ Create
    \/ Watch \/ ReceiveEvent \/ Reload

ConfigNext ==
    \/ Program
    \/ \E c \in Content : Write(c) \/ Replace(c)
    \/ Delete \/ MoveAway

ConfigSpec == ConfigInit /\ [][ConfigNext]_configVars

-----------------------------------------------------------------------------
Quiet == loader = "wait" /\ ~event

(* Whatever happens to the file, the configuration in use has passed the   *)
(* validation (manager.go:63): it is never a half-written or invalid one.  *)
CurrentIsValid == config \in Good

(* When the watching goroutine has nothing left to do and the file holds a *)
(* valid configuration, that is the one in use, unless the watch was lost  *)
(* with its inode, or the last change fell between the read of a Load and  *)
(* its time stamp (manager.go:74), or before the watch, and was taken for  *)
(* its own.                                                                *)
QuietMeansCurrent ==
    Quiet /\ watch = "on" /\ ~overlooked /\ file \in Good => config = file
==============================================================================
