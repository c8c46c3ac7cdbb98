------------------------------- MODULE LogPipe -------------------------------
(***************************************************************************)
(* collectLogsAsync of internal/collector/k8s_components.go, inside the    *)
(* collections that call it: the collector reads lines of journalctl from  *)
(* a pipe, stops after MaxLines, and waits for journalctl to exit; nobody  *)
(* reads the rest, and the pipe holds PipeCapacity lines.  The deadline of *)
(* the context kills journalctl.  A failing part of a collection is        *)
(* recorded in the data; it does not end the collection.                   *)
(***************************************************************************)
EXTENDS Naturals, Sequences

CONSTANTS
    MaxLines,   \* lines that are kept (100 in the code)
    PipeCapacity,   \* lines the pipe and the scanner's buffer hold
    MaxTotal    \* bound: lines of the log

ASSUME LogAssumption == {MaxLines, PipeCapacity, MaxTotal} \subseteq Nat /\ PipeCapacity > 0

VARIABLES
    component,  \* the component asked about
    done,       \* parts of its collection recorded so far, with their outcome
    total,      \* lines the log has
    written,    \* lines journalctl wrote so far
    pipe,       \* lines in the pipe
    child,      \* journalctl
    reader,     \* the collector
    kept,       \* lines the collector keeps
    blank,      \* empty lines, which it reads and does not keep
    cut,        \* the scanner stopped at a line it cannot hold
    late        \* the context is over

logVars == <<component, done, total, written, pipe, child, reader, kept, blank, cut, late>>

(* The parts of the four collections, in order. *)
Parts ==
    [kubelet |-> <<"process", "certificates", "logs", "config">>,
     containerd |-> <<"process", "memory", "logs", "config">>,
     cni |-> <<"config", "binaries", "network">>,
     kubeProxy |-> <<"process", "iptables", "logs">>]

Next1 == IF Len(done) < Len(Parts[component]) THEN Parts[component][Len(done) + 1] ELSE "none"

LogTypeOK ==
    /\ component \in DOMAIN Parts
    /\ done \in Seq(BOOLEAN) /\ Len(done) <= 4
    /\ {total, written, kept, blank} \subseteq 0..MaxTotal
    /\ pipe \in 0..PipeCapacity
    /\ child \in {"none", "running", "exited", "failed", "killed"}
    /\ reader \in {"idle", "scanning", "waiting"}
    /\ cut \in BOOLEAN /\ late \in BOOLEAN

LogInit ==
    /\ component \in DOMAIN Parts
    /\ done = <<>>
    /\ total \in 0..MaxTotal
    /\ written = 0 /\ pipe = 0 /\ kept = 0 /\ blank = 0
    /\ child = "none" /\ reader = "idle"
    /\ cut = FALSE /\ late = FALSE

Record(ok) == done' = Append(done, ok)

-----------------------------------------------------------------------------
(* A part that is not the log is read or fails.  It may take for ever: its *)
(* commands have no context (k8s_components.go:259-348, 450-489).          *)
CollectPart ==
    /\ reader = "idle" /\ Next1 \notin {"none", "logs"}
    /\ \E ok \in BOOLEAN : Record(ok)
    /\ UNCHANGED <<component, total, written, pipe, child, reader, kept, blank, cut, late>>

(* Start of journalctl; it fails at once when the context is over. *)
StartChild ==
    /\ reader = "idle" /\ Next1 = "logs"
    /\ \/ ~late /\ child' = "running" /\ reader' = "scanning" /\ UNCHANGED done
       \/ Record(FALSE) /\ UNCHANGED <<child, reader>>
    /\ UNCHANGED <<component, total, written, pipe, kept, blank, cut, late>>

ChildWrites ==
    /\ child = "running" /\ written < total /\ pipe < PipeCapacity
    /\ written' = written + 1 /\ pipe' = pipe + 1
    /\ UNCHANGED <<component, done, total, child, reader, kept, blank, cut, late>>

Exit ==
    /\ child = "running"
    /\ \/ written = total /\ child' = "exited"
       \/ child' = "failed"
    /\ UNCHANGED <<component, done, total, written, pipe, reader, kept, blank, cut, late>>

(* Mutant: exec.Command, which knows no context. *)
KillNever == FALSE /\ UNCHANGED logVars

(* exec.CommandContext, or the branch of the select *)
Kill ==
    /\ child = "running" /\ late
    /\ child' = "killed"
    /\ UNCHANGED <<component, done, total, written, pipe, reader, kept, blank, cut, late>>

(* An empty line is read and not kept.  The loop's condition scans a line  *)
(* before it looks at the count, so one line more than MaxLines is read.   *)
Scan ==
    /\ reader = "scanning" /\ pipe > 0
    /\ pipe' = pipe - 1
    /\ \/ kept < MaxLines /\ kept' = kept + 1 /\ UNCHANGED <<reader, blank, cut>>
       \/ kept < MaxLines /\ blank' = blank + 1 /\ UNCHANGED <<reader, kept, cut>>
       \/ kept = MaxLines /\ reader' = "waiting" /\ UNCHANGED <<kept, blank, cut>>
       \/ cut' = TRUE /\ reader' = "waiting" /\ UNCHANGED <<kept, blank>>
    /\ UNCHANGED <<component, done, total, written, child, late>>

ScanEnd ==
    /\ reader = "scanning" /\ pipe = 0 /\ child # "running"
    /\ reader' = "waiting"
    /\ UNCHANGED <<component, done, total, written, pipe, child, kept, blank, cut, late>>

(* Mutant: the lines read so far are returned without waiting. *)
FinishLogsAtOnce ==
    /\ reader = "waiting" /\ reader' = "idle"
    /\ Record(TRUE)
    /\ UNCHANGED <<component, total, written, pipe, child, kept, blank, cut, late>>

(* The select between the context and cmd.Wait, which takes either when    *)
(* both are there.                                                         *)
FinishLogs ==
    /\ reader = "waiting" /\ reader' = "idle"
    /\ \/ late /\ Record(FALSE) /\ child' = IF child = "running" THEN "killed" ELSE child
       \/ child \in {"exited", "failed", "killed"} /\ Record(child = "exited") /\ UNCHANGED child
    /\ UNCHANGED <<component, total, written, pipe, kept, blank, cut, late>>

Deadline ==
    /\ ~late /\ late' = TRUE
    /\ UNCHANGED <<component, done, total, written, pipe, child, reader, kept, blank, cut>>

LogNext ==
    CollectPart \/ StartChild \/ ChildWrites \/ Exit \/ Kill \/ Scan \/ ScanEnd \/ FinishLogs \/ Deadline

(* The runtime schedules the reader of the log and expires its context;    *)
(* what journalctl and the commands of the other parts do is up to them.   *)
ReaderStep == StartChild \/ Kill \/ Scan \/ ScanEnd \/ FinishLogs \/ Deadline

LogSpec == LogInit /\ [][LogNext]_logVars /\ WF_logVars(ReaderStep)

-----------------------------------------------------------------------------
LogsRecorded ==
    \E i \in DOMAIN done : done[i] /\ Parts[component][i] = "logs"

SmallerOf(a, b) == IF a < b THEN a ELSE b

(* Logs that are returned are the first lines that are not empty, as many  *)
(* as are wanted, of a log that was written completely; and the collector  *)
(* can be stuck behind a full pipe, until its deadline, only with a log    *)
(* longer than the lines kept, the empty ones among them, the line read in *)
(* vain and the pipe (k8s_components.go:522-530), or a line too long.      *)
LogsAreTheFirst ==
    /\ LogsRecorded =>
        /\ written = total
        /\ cut \/ kept = SmallerOf(total - blank, MaxLines)
    /\ reader = "waiting" /\ child = "running" /\ pipe = PipeCapacity /\ written < total =>
        cut \/ total > MaxLines + blank + 1 + PipeCapacity

(* Once the log has its turn it is recorded, or its failure is, even when  *)
(* journalctl hangs with or without output: its context kills it           *)
(* (k8s_components.go:541).                                                *)
LogsGetRecorded == Next1 = "logs" ~> Next1 # "logs"
=============================================================================
