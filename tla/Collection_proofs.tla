------------------------- MODULE Collection_proofs --------------------------
(***************************************************************************)
(* Theorems about what is collected, classified and counted, each for      *)
(* every value of its constants: the collector manager, the reader of      *)
(* journalctl, the data scope caches, the monitor and reports of the       *)
(* executions, and the aggregator.                                         *)
(***************************************************************************)
EXTENDS CollectorManager, LogPipe, DataScope, Pipeline, Aggregator, OperatorLemmas

-----------------------------------------------------------------------------
(* The collector manager: CollectorManager.                                *)

(* A goroutine is cancelled only once it runs, and a stop of its name was  *)
(* what cancelled it.                                                      *)
CancelledByName ==
    \A g \in cancelled : collects[g].pc # "new" /\ collects[g].name \in everStopped

(* A goroutine that was launched collects for a name of the registry.      *)
LaunchedHasName == \A g \in Goroutine : collects[g].pc # "new" => collects[g].name \in Collector

CollectorInv ==
    CollectorTypeOK /\ EntryIsLive /\ CancelledByName /\ LaunchedHasName /\ LiveIsRegistered

-----------------------------------------------------------------------------
(* The manager starts without entries, goroutines and stops                *)
(* (collector.go:186).                                                     *)
LEMMA CollectorInitially == CollectorInit => CollectorInv
BY CollectorAssumption
   DEF CollectorInit, CollectorInv, CollectorTypeOK, EntryIsLive, CancelledByName,
       LaunchedHasName, LiveIsRegistered, Live, Running

(* A stop cancels exactly the goroutines of the entries it removes: the    *)
(* other entries lead to goroutines of other names (collector.go:252).     *)
LEMMA CancelStep ==
    ASSUME CollectorInv, NEW names \in SUBSET Running, Cancel(names)
    PROVE  CollectorInv'
<1>. USE CollectorAssumption DEF CollectorInv, Cancel, Running
<1>1. CollectorTypeOK'
    BY DEF CollectorTypeOK
<1>2. EntryIsLive'
    BY DEF CollectorTypeOK, EntryIsLive, Live
<1>3. CancelledByName'
    BY DEF CollectorTypeOK, EntryIsLive, Live, CancelledByName
<1>4. LaunchedHasName'
    BY DEF LaunchedHasName
<1>5. LiveIsRegistered'
    <2>. SUFFICES ASSUME NEW g \in Goroutine, Live(g)', collects[g].name \notin everStopped'
                  PROVE  active'[collects[g].name] = g
        BY DEF LiveIsRegistered
    <2>1. Live(g) /\ collects[g].name \notin everStopped \cup names
        BY DEF Live
    <2>2. active[collects[g].name] = g /\ collects[g].name \in Collector
        BY <2>1 DEF LiveIsRegistered, LaunchedHasName, Live
    <2>. QED BY <2>1, <2>2
<1>. QED BY <1>1, <1>2, <1>3, <1>4, <1>5

(* A collection that starts finds no entry of its name (collector.go:207), *)
(* so no collection of it that nothing stopped is under way.               *)
LEMMA StartStep ==
    ASSUME CollectorInv, NEW n \in Collector, NEW g \in Goroutine, StartCollector(n, g)
    PROVE  CollectorInv'
<1>. USE CollectorAssumption DEF CollectorInv, StartCollector
<1>1. CollectorTypeOK'
    BY DEF CollectorTypeOK
<1>2. EntryIsLive'
    BY DEF CollectorTypeOK, EntryIsLive, Live, Running, CancelledByName
<1>3. CancelledByName'
    BY DEF CollectorTypeOK, CancelledByName
<1>4. LaunchedHasName'
    BY DEF CollectorTypeOK, LaunchedHasName
<1>5. LiveIsRegistered'
    BY DEF CollectorTypeOK, LiveIsRegistered, Live, CancelledByName, LaunchedHasName
<1>. QED BY <1>1, <1>2, <1>3, <1>4, <1>5

(* The deferred delete removes the entry of a name (collector.go:219): the *)
(* goroutine's own, unless a stop of that name came between.               *)
LEMMA CleanUpStep ==
    ASSUME CollectorInv, NEW g \in Goroutine, CleanUp(g)
    PROVE  CollectorInv'
<1>. USE CollectorAssumption DEF CollectorInv, CleanUp
<1>1. CollectorTypeOK'
    BY DEF CollectorTypeOK
<1>2. EntryIsLive'
    BY DEF CollectorTypeOK, EntryIsLive, Live, Running
<1>3. CancelledByName'
    BY DEF CollectorTypeOK, CancelledByName
<1>4. LaunchedHasName'
    BY DEF CollectorTypeOK, LaunchedHasName
<1>5. LiveIsRegistered'
    BY DEF CollectorTypeOK, LiveIsRegistered, Live, CancelledByName, LaunchedHasName
<1>. QED BY <1>1, <1>2, <1>3, <1>4, <1>5

(* The end of a collection changes no entry (collector.go:232).            *)
LEMMA ReturnStep ==
    ASSUME CollectorInv, NEW g \in Goroutine, CollectReturns(g)
    PROVE  CollectorInv'
BY CollectorAssumption
   DEF CollectorInv, CollectReturns, CollectorTypeOK, EntryIsLive, Live, Running,
       CancelledByName, LaunchedHasName, LiveIsRegistered

(* The inductive invariant holds in every reachable state of the collector *)
(* manager, whatever is started, stopped and finished (collector.go:194).  *)
THEOREM CollectorInvariant == CollectorSpec => []CollectorInv
<1>1. CollectorInv /\ [CollectorNext]_collectorVars => CollectorInv'
    <2>. SUFFICES ASSUME CollectorInv, [CollectorNext]_collectorVars PROVE CollectorInv'
        OBVIOUS
    <2>1. CASE \E n \in Collector, g \in Goroutine : StartCollector(n, g)
        BY <2>1, StartStep
    <2>2. CASE (\E n \in Collector : StopCollector(n)) \/ StopAll
        BY <2>2, CancelStep DEF StopCollector, StopAll
    <2>3. CASE \E g \in Goroutine : CollectReturns(g) \/ CleanUp(g)
        BY <2>3, ReturnStep, CleanUpStep
    <2>4. CASE UNCHANGED collectorVars
        BY <2>4
           DEF collectorVars, CollectorInv, CollectorTypeOK, EntryIsLive, Live, Running,
               CancelledByName, LaunchedHasName, LiveIsRegistered
    <2>. QED BY <2>1, <2>2, <2>3, <2>4 DEF CollectorNext
<1>. QED BY <1>1, CollectorInitially, PTL DEF CollectorSpec

(* A collection of a name that was never stopped is found under its name,  *)
(* and is the only one (collector.go:207-219).                             *)
THEOREM LiveCollectionsRegistered == CollectorSpec => []LiveIsRegistered
BY CollectorInvariant, PTL DEF CollectorInv

(* What IsRunning reports leads to a collection of that name that nobody   *)
(* cancelled (collector.go:267).                                           *)
THEOREM EntriesLive == CollectorSpec => []EntryIsLive
BY CollectorInvariant, PTL DEF CollectorInv

-----------------------------------------------------------------------------
(* The reader of journalctl: LogPipe.                                      *)

(* What a component is made of, with the positions: the log, where there   *)
(* is one, is the third part (k8s_components.go:126-255).                  *)
LEMMA PartsAre ==
    ASSUME NEW c \in DOMAIN Parts
    PROVE  /\ Len(Parts[c]) \in 3..4
           /\ \A i \in 1..Len(Parts[c]) :
                /\ Parts[c][i] # "none"
                /\ Parts[c][i] = "logs" => i = 3 /\ c # "cni"
                /\ i = 3 /\ c # "cni" => Parts[c][i] = "logs"
<1>1. DOMAIN Parts = {"kubelet", "containerd", "cni", "kubeProxy"}
    BY DEF Parts
<1>2. /\ Len(Parts["kubelet"]) = 4 /\ Parts["kubelet"][1] = "process"
      /\ Parts["kubelet"][2] = "certificates" /\ Parts["kubelet"][3] = "logs"
      /\ Parts["kubelet"][4] = "config"
    BY DEF Parts
<1>3. /\ Len(Parts["containerd"]) = 4 /\ Parts["containerd"][1] = "process"
      /\ Parts["containerd"][2] = "memory" /\ Parts["containerd"][3] = "logs"
      /\ Parts["containerd"][4] = "config"
    BY DEF Parts
<1>4. /\ Len(Parts["cni"]) = 3 /\ Parts["cni"][1] = "config"
      /\ Parts["cni"][2] = "binaries" /\ Parts["cni"][3] = "network"
    BY DEF Parts
<1>5. /\ Len(Parts["kubeProxy"]) = 3 /\ Parts["kubeProxy"][1] = "process"
      /\ Parts["kubeProxy"][2] = "iptables" /\ Parts["kubeProxy"][3] = "logs"
    BY DEF Parts
<1>6. 1..4 = {1, 2, 3, 4} /\ 1..3 = {1, 2, 3}
    OBVIOUS
<1>7. CASE c = "kubelet"
    BY <1>2, <1>6, <1>7
<1>8. CASE c = "containerd"
    BY <1>3, <1>6, <1>8
<1>9. CASE c = "cni"
    BY <1>4, <1>6, <1>9
<1>10. CASE c = "kubeProxy"
    BY <1>5, <1>6, <1>10
<1>. QED BY <1>1, <1>7, <1>8, <1>9, <1>10

-----------------------------------------------------------------------------
(* The log is the third part of every collection that reads one.           *)
AtLogs == Len(done) = 2 /\ component # "cni"

(* journalctl is not started before the log's turn.                        *)
ChildAfterParts ==
    /\ child = "none" => written = 0 /\ pipe = 0 /\ kept = 0 /\ blank = 0 /\ ~cut
    /\ reader = "idle" /\ Len(done) <= 2 => child = "none"
    /\ reader # "idle" => AtLogs /\ child # "none"
    /\ child = "exited" => written = total

(* Every line written was kept, empty, read in vain, or is in the pipe.    *)
LinesAddUp ==
    /\ reader = "scanning" => written = kept + blank + pipe /\ ~cut
    /\ reader = "waiting" =>
        \/ cut
        \/ kept = MaxLines /\ written = kept + blank + 1 + pipe
        \/ child # "running" /\ pipe = 0 /\ written = kept + blank
    /\ kept <= MaxLines

(* Logs are on record only when journalctl wrote all of them.              *)
RecordedIsWhole ==
    LogsRecorded =>
        /\ reader = "idle" /\ child = "exited" /\ Len(done) >= 3
        /\ cut \/ kept = SmallerOf(total - blank, MaxLines)

(* The values of the variables                                             *)
LogTypes ==
    /\ component \in DOMAIN Parts
    /\ done \in Seq(BOOLEAN) /\ Len(done) <= Len(Parts[component])
    /\ total \in 0..MaxTotal /\ written \in 0..total
    /\ kept \in 0..MaxTotal /\ blank \in 0..MaxTotal
    /\ pipe \in 0..PipeCapacity
    /\ child \in {"none", "running", "exited", "failed", "killed"}
    /\ reader \in {"idle", "scanning", "waiting"}
    /\ cut \in BOOLEAN /\ late \in BOOLEAN

(* The inductive invariant: what is on record is judged by what journalctl *)
(* has written, and that by where each line went.                          *)
LogInv == LogTypes /\ ChildAfterParts /\ LinesAddUp /\ RecordedIsWhole

(* A collection starts with no part on record and no journalctl            *)
(* (k8s_components.go:496).                                                *)
LEMMA LogInitially == LogInit => LogInv
<1>. SUFFICES ASSUME LogInit PROVE LogInv
    OBVIOUS
<1>. USE LogAssumption DEF LogInit
<1>1. done \in Seq(BOOLEAN) /\ Len(done) = 0 /\ DOMAIN done = {}
    OBVIOUS
<1>2. LogTypes
    <2>1. Len(Parts[component]) \in 3..4
        BY PartsAre
    <2>2. /\ total \in 0..MaxTotal /\ written \in 0..total
          /\ kept \in 0..MaxTotal /\ blank \in 0..MaxTotal /\ pipe \in 0..PipeCapacity
        OBVIOUS
    <2>3. Len(done) <= Len(Parts[component])
        BY <1>1, <2>1
    <2>4. cut \in BOOLEAN /\ late \in BOOLEAN
        OBVIOUS
    <2>. QED BY <1>1, <2>2, <2>3, <2>4 DEF LogTypes
<1>3. ChildAfterParts /\ LinesAddUp /\ RecordedIsWhole
    BY <1>1 DEF ChildAfterParts, LinesAddUp, RecordedIsWhole, LogsRecorded
<1>. QED BY <1>2, <1>3 DEF LogInv

(* The next part is the log's exactly when two parts are on record         *)
(* (k8s_components.go:126-255).                                            *)
LEMMA Next1Is ==
    ASSUME LogTypes
    PROVE  /\ Next1 = "none" => Len(done) = Len(Parts[component])
           /\ Next1 # "none" => Len(done) < Len(Parts[component])
           /\ Next1 = "logs" <=> AtLogs
<1>. DEFINE n == Len(done)
            m == Len(Parts[component])
            p == Parts[component][n + 1]
<1>1. n \in Nat /\ m \in 3..4 /\ n <= m
    BY PartsAre DEF LogTypes
<1>2. CASE n < m
    <2>1. n + 1 \in 1..m
        BY <1>1, <1>2
    <2>2. p # "none" /\ (p = "logs" <=> n + 1 = 3 /\ component # "cni")
        BY <2>1, PartsAre DEF LogTypes
    <2>3. Next1 = p
        BY <1>2 DEF Next1
    <2>. HIDE DEF p, n
    <2>4. n + 1 = 3 <=> n = 2
        BY <1>1
    <2>5. AtLogs <=> n = 2 /\ component # "cni"
        BY DEF AtLogs, n
    <2>6. Next1 # "none" /\ (Next1 = "logs" <=> AtLogs)
        BY <2>2, <2>3, <2>4, <2>5
    <2>. QED BY <1>2, <2>6 DEF n
<1>3. CASE n = m
    <2>1. Next1 = "none"
        BY <1>1, <1>3 DEF Next1
    <2>2. n # 2
        BY <1>1, <1>3
    <2>. QED BY <1>3, <2>1, <2>2 DEF AtLogs
<1>. QED BY <1>1, <1>2, <1>3

(* When it is the log's turn, not all parts are on record                  *)
(* (k8s_components.go:144).                                                *)
LEMMA LogsTurn ==
    ASSUME LogTypes, AtLogs
    PROVE  Len(done) < Len(Parts[component])
<1>. DEFINE n == Len(done)
            m == Len(Parts[component])
<1>1. m \in 3..4 /\ n = 2
    BY PartsAre DEF LogTypes, AtLogs
<1>. SUFFICES n < m
    OBVIOUS
<1>. HIDE DEF n, m
<1>. QED BY <1>1

(* One part more on record is a record of the log exactly when it is the   *)
(* log's turn (k8s_components.go:144).                                     *)
LEMMA RecordFacts ==
    ASSUME LogTypes, NEW ok \in BOOLEAN, Record(ok), component' = component,
           Len(done) < Len(Parts[component])
    PROVE  /\ done' \in Seq(BOOLEAN) /\ Len(done') = Len(done) + 1
           /\ Len(done') <= Len(Parts[component])
           /\ LogsRecorded' <=> LogsRecorded \/ (ok /\ AtLogs)
<1>. USE DEF LogTypes, Record
<1>1. Len(done) \in Nat /\ Len(Parts[component]) \in 3..4
    BY PartsAre
<1>2. done' \in Seq(BOOLEAN) /\ Len(done') = Len(done) + 1
    OBVIOUS
<1>3. DOMAIN done = 1..Len(done) /\ DOMAIN done' = 1..(Len(done) + 1)
    BY <1>1
<1>4. done'[Len(done) + 1] = ok /\ \A i \in 1..Len(done) : done'[i] = done[i]
    BY <1>1
<1>5. Parts[component][Len(done) + 1] = "logs" <=> AtLogs
    <2>1. Len(done) + 1 \in 1..Len(Parts[component])
        BY <1>1
    <2>2. Parts[component][Len(done) + 1] = "logs" <=> Len(done) + 1 = 3 /\ component # "cni"
        BY <2>1, PartsAre
    <2>. DEFINE n == Len(done)
    <2>3. n \in Nat /\ (Parts[component][n + 1] = "logs" <=> n + 1 = 3 /\ component # "cni")
            /\ (AtLogs <=> n = 2 /\ component # "cni")
        BY <1>1, <2>2 DEF AtLogs
    <2>4. SUFFICES Parts[component][n + 1] = "logs" <=> AtLogs
        OBVIOUS
    <2>. HIDE DEF n
    <2>. QED BY <2>3
<1>6. LogsRecorded' <=> \E i \in 1..(Len(done) + 1) : done'[i] /\ Parts[component][i] = "logs"
    BY <1>3 DEF LogsRecorded
<1>7. LogsRecorded <=> \E i \in 1..Len(done) : done[i] /\ Parts[component][i] = "logs"
    BY <1>3 DEF LogsRecorded
<1>8. \A i \in 1..(Len(done) + 1) : i \in 1..Len(done) \/ i = Len(done) + 1
    BY <1>1
<1>9. 1..Len(done) \subseteq 1..(Len(done) + 1) /\ Len(done) + 1 \in 1..(Len(done) + 1)
    BY <1>1
<1>10. LogsRecorded' <=> LogsRecorded \/ (ok /\ AtLogs)
    <2>. HIDE DEF LogTypes, Record
    <2>. QED BY <1>4, <1>5, <1>6, <1>7, <1>8, <1>9
<1>. QED BY <1>1, <1>2, <1>10

(* Collecting a part, starting journalctl, its writing, its exit, killing  *)
(* it, reading a line, the end of the reading, and what is made of it keep *)
(* the invariant (k8s_components.go:496-569).                              *)
LEMMA LogNextKeeps == LogInv /\ [LogNext]_logVars => LogInv'
<1>. SUFFICES ASSUME LogInv, [LogNext]_logVars PROVE LogInv'
    OBVIOUS
<1>. USE LogAssumption
<1>0. LogTypes /\ ChildAfterParts /\ LinesAddUp /\ RecordedIsWhole /\ Len(done) \in Nat
    BY DEF LogInv, LogTypes
<1>01. PipeCapacity \in Nat /\ MaxLines \in Nat /\ MaxTotal \in Nat
    OBVIOUS
<1>1. ASSUME CollectPart PROVE LogInv'
    <2>1. /\ reader = "idle" /\ ~AtLogs /\ Len(done) < Len(Parts[component])
          /\ \E ok \in BOOLEAN : Record(ok)
          /\ UNCHANGED <<component, total, written, pipe, child, reader, kept, blank, cut, late>>
        <3>1. Len(Parts[component]) \in 3..4 /\ Len(done) <= Len(Parts[component])
            BY <1>0, PartsAre DEF LogTypes
        <3>. QED BY <1>0, <1>1, <3>1, Next1Is DEF CollectPart
    <2>2. /\ done' \in Seq(BOOLEAN) /\ Len(done') = Len(done) + 1 /\ Len(done') <= Len(Parts[component])
          /\ LogsRecorded' <=> LogsRecorded
        BY <1>0, <2>1, RecordFacts
    <2>3. LogTypes'
        BY <1>0, <2>1, <2>2 DEF LogTypes
    <2>4. ChildAfterParts'
        BY <1>0, <2>1, <2>2 DEF ChildAfterParts
    <2>5. LinesAddUp' /\ RecordedIsWhole'
        BY <1>0, <2>1, <2>2 DEF LinesAddUp, RecordedIsWhole
    <2>. QED BY <2>3, <2>4, <2>5 DEF LogInv
<1>2. ASSUME StartChild PROVE LogInv'
    <2>1. reader = "idle" /\ AtLogs /\ UNCHANGED <<component, total, written, pipe, kept, blank, cut, late>>
        BY <1>0, <1>2, Next1Is DEF StartChild
    <2>2. ~LogsRecorded /\ child = "none" /\ written = 0 /\ pipe = 0 /\ kept = 0 /\ blank = 0 /\ ~cut
        BY <1>0, <2>1 DEF RecordedIsWhole, ChildAfterParts, AtLogs
    <2>3. CASE child' = "running" /\ reader' = "scanning" /\ UNCHANGED done
        <3>1. ~LogsRecorded'
            BY <2>1, <2>2, <2>3 DEF LogsRecorded
        <3>2. LogTypes'
            BY <1>0, <2>1, <2>3 DEF LogTypes
        <3>3. ChildAfterParts'
            BY <2>1, <2>3 DEF ChildAfterParts, AtLogs
        <3>4. LinesAddUp' /\ RecordedIsWhole'
            BY <1>01, <2>1, <2>2, <2>3, <3>1 DEF LinesAddUp, RecordedIsWhole
        <3>. QED BY <3>2, <3>3, <3>4 DEF LogInv
    <2>4. CASE Record(FALSE) /\ UNCHANGED <<child, reader>>
        <3>1. Len(done) < Len(Parts[component])
            BY <1>0, <2>1, LogsTurn
        <3>2. done' \in Seq(BOOLEAN) /\ Len(done') = Len(done) + 1 /\ Len(done') <= Len(Parts[component])
            BY <1>0, <2>1, <2>4, <3>1, RecordFacts
        <3>3. ~LogsRecorded'
            BY <1>0, <2>1, <2>2, <2>4, <3>1, RecordFacts
        <3>4. LogTypes'
            BY <1>0, <2>1, <2>4, <3>2 DEF LogTypes
        <3>5. ChildAfterParts'
            BY <2>1, <2>2, <2>4, <3>2 DEF ChildAfterParts, AtLogs
        <3>6. LinesAddUp' /\ RecordedIsWhole'
            BY <1>01, <2>1, <2>2, <2>4, <3>3 DEF LinesAddUp, RecordedIsWhole
        <3>. QED BY <3>4, <3>5, <3>6 DEF LogInv
    <2>. QED BY <1>2, <2>3, <2>4 DEF StartChild
<1>3. ASSUME ChildWrites PROVE LogInv'
    <2>. USE <1>3 DEF ChildWrites
    <2>1. LogTypes'
        BY <1>0, <1>01 DEF LogTypes
    <2>2. ChildAfterParts'
        BY <1>0 DEF ChildAfterParts, AtLogs
    <2>3. ~LogsRecorded'
        BY <1>0 DEF RecordedIsWhole, LogsRecorded
    <2>4. LinesAddUp'
        BY <1>0, <1>01 DEF LinesAddUp, LogTypes
    <2>. QED BY <2>1, <2>2, <2>3, <2>4 DEF LogInv, RecordedIsWhole
<1>4. ASSUME Exit \/ Kill PROVE LogInv'
    <2>1. /\ child = "running" /\ child' \in {"exited", "failed", "killed"} /\ (child' = "exited" => written = total)
          /\ UNCHANGED <<component, done, total, written, pipe, reader, kept, blank, cut, late>>
        BY <1>4 DEF Exit, Kill
    <2>2. LogTypes'
        BY <1>0, <2>1 DEF LogTypes
    <2>3. ChildAfterParts'
        BY <1>0, <2>1 DEF ChildAfterParts, AtLogs
    <2>4. ~LogsRecorded'
        BY <1>0, <2>1 DEF RecordedIsWhole, LogsRecorded
    <2>5. LinesAddUp'
        BY <1>0, <2>1 DEF LinesAddUp
    <2>. QED BY <2>2, <2>3, <2>4, <2>5 DEF LogInv, RecordedIsWhole
<1>5. ASSUME Scan PROVE LogInv'
    <2>1. /\ reader = "scanning" /\ pipe > 0 /\ pipe' = pipe - 1
          /\ UNCHANGED <<component, done, total, written, child, late>>
        BY <1>5 DEF Scan
    <2>2. written = kept + blank + pipe /\ ~cut /\ kept <= MaxLines
        BY <1>0, <2>1 DEF LinesAddUp
    <2>3. /\ kept' \in 0..MaxTotal /\ blank' \in 0..MaxTotal
          /\ cut' \in BOOLEAN /\ reader' \in {"scanning", "waiting"}
        <3>1. /\ written \in 0..total /\ total \in 0..MaxTotal
              /\ kept \in Nat /\ blank \in Nat /\ pipe \in Nat
            BY <1>0, <1>01 DEF LogTypes
        <3>2. /\ kept + 1 \in 0..MaxTotal /\ kept \in 0..MaxTotal
              /\ blank + 1 \in 0..MaxTotal /\ blank \in 0..MaxTotal
            BY <1>01, <2>1, <2>2, <3>1
        <3>3. kept' \in {kept, kept + 1} /\ blank' \in {blank, blank + 1}
            BY <1>5 DEF Scan
        <3>4. cut' \in BOOLEAN /\ reader' \in {"scanning", "waiting"}
            BY <1>0, <1>5, <2>1 DEF Scan, LogTypes
        <3>. QED BY <3>2, <3>3, <3>4
    <2>4. LogTypes'
        BY <1>0, <1>01, <2>1, <2>3 DEF LogTypes
    <2>5. ChildAfterParts'
        BY <1>0, <2>1, <2>3 DEF ChildAfterParts, AtLogs
    <2>6. ~LogsRecorded'
        BY <1>0, <2>1 DEF RecordedIsWhole, LogsRecorded
    <2>7. LinesAddUp'
        <3>1. written \in Nat /\ kept \in Nat /\ blank \in Nat /\ pipe \in Nat
            BY <1>0, <1>01 DEF LogTypes
        <3>2. CASE kept < MaxLines /\ kept' = kept + 1 /\ UNCHANGED <<reader, blank, cut>>
            BY <1>01, <2>1, <2>2, <3>1, <3>2 DEF LinesAddUp
        <3>3. CASE kept < MaxLines /\ blank' = blank + 1 /\ UNCHANGED <<reader, kept, cut>>
            BY <1>01, <2>1, <2>2, <3>1, <3>3 DEF LinesAddUp
        <3>4. CASE kept = MaxLines /\ reader' = "waiting" /\ UNCHANGED <<kept, blank, cut>>
            BY <1>01, <2>1, <2>2, <3>1, <3>4 DEF LinesAddUp
        <3>5. CASE cut' = TRUE /\ reader' = "waiting" /\ UNCHANGED <<kept, blank>>
            BY <1>01, <2>1, <2>2, <3>1, <3>5 DEF LinesAddUp
        <3>. QED BY <1>5, <3>2, <3>3, <3>4, <3>5 DEF Scan
    <2>. QED BY <2>4, <2>5, <2>6, <2>7 DEF LogInv, RecordedIsWhole
<1>6. ASSUME ScanEnd PROVE LogInv'
    <2>1. /\ reader = "scanning" /\ pipe = 0 /\ child # "running" /\ reader' = "waiting"
          /\ UNCHANGED <<component, done, total, written, pipe, child, kept, blank, cut, late>>
        BY <1>6 DEF ScanEnd
    <2>2. LogTypes' /\ ChildAfterParts'
        BY <1>0, <2>1 DEF LogTypes, ChildAfterParts, AtLogs
    <2>3. ~LogsRecorded'
        BY <1>0, <2>1 DEF RecordedIsWhole, LogsRecorded
    <2>4. LinesAddUp'
        BY <1>0, <1>01, <2>1 DEF LinesAddUp, LogTypes
    <2>. QED BY <2>2, <2>3, <2>4 DEF LogInv, RecordedIsWhole
<1>7. ASSUME FinishLogs PROVE LogInv'
    <2>1. /\ reader = "waiting" /\ reader' = "idle" /\ AtLogs /\ child # "none"
          /\ UNCHANGED <<component, total, written, pipe, kept, blank, cut, late>>
        BY <1>0, <1>7 DEF FinishLogs, ChildAfterParts
    <2>2. PICK ok \in BOOLEAN : /\ Record(ok) /\ (ok => child = "exited")
                                /\ child' \in {"running", "exited", "failed", "killed"}
                                /\ (child' = "exited" => child = "exited")
                                /\ (child = "exited" => child' = "exited")
        BY <1>0, <1>7, <2>1 DEF FinishLogs, LogTypes
    <2>3. Len(done) < Len(Parts[component])
        BY <1>0, <2>1, LogsTurn
    <2>4. /\ done' \in Seq(BOOLEAN) /\ Len(done') = 3 /\ Len(done') <= Len(Parts[component])
          /\ LogsRecorded' <=> LogsRecorded \/ ok
        BY <1>0, <2>1, <2>2, <2>3, RecordFacts DEF AtLogs
    <2>5. ~LogsRecorded
        BY <1>0, <2>1 DEF RecordedIsWhole
    <2>6. LogTypes'
        BY <1>0, <2>1, <2>2, <2>4 DEF LogTypes
    <2>7. ChildAfterParts'
        BY <1>0, <2>1, <2>2, <2>4 DEF ChildAfterParts
    <2>8. LinesAddUp'
        BY <1>0, <2>1 DEF LinesAddUp
    <2>9. RecordedIsWhole'
        <3>. SUFFICES ASSUME ok, child = "exited", child' = "exited"
                      PROVE  cut \/ kept = SmallerOf(total - blank, MaxLines)
            BY <2>1, <2>2, <2>4, <2>5 DEF RecordedIsWhole, SmallerOf
        <3>1. /\ written = total /\ total \in Nat /\ pipe \in Nat
              /\ kept \in Nat /\ blank \in Nat
            BY <1>0, <1>01 DEF ChildAfterParts, LogTypes
        <3>2. CASE kept = MaxLines /\ written = kept + blank + 1 + pipe
            BY <1>01, <3>1, <3>2 DEF SmallerOf
        <3>3. CASE written = kept + blank
            BY <1>0, <1>01, <3>1, <3>3 DEF SmallerOf, LinesAddUp
        <3>. QED BY <1>0, <2>1, <3>2, <3>3 DEF LinesAddUp
    <2>. QED BY <2>6, <2>7, <2>8, <2>9 DEF LogInv
<1>8. ASSUME Deadline \/ UNCHANGED logVars PROVE LogInv'
    <2>1. UNCHANGED <<component, done, total, written, pipe, child, reader, kept, blank, cut>>
            /\ late' \in BOOLEAN
        BY <1>0, <1>8 DEF Deadline, logVars, LogTypes
    <2>. QED BY <1>0, <2>1 DEF LogInv, LogTypes, ChildAfterParts, AtLogs, LinesAddUp, RecordedIsWhole, LogsRecorded
<1>. QED BY <1>1, <1>2, <1>3, <1>4, <1>5, <1>6, <1>7, <1>8 DEF LogNext

(* Whether or not the steps of the collector are fair, logs that are       *)
(* recorded are whole.                                                     *)
LEMMA LogsKept == LogInit /\ [][LogNext]_logVars => []LogsAreTheFirst
<1>1. LogInv => LogsAreTheFirst
    <2>. SUFFICES ASSUME LogInv PROVE LogsAreTheFirst
        OBVIOUS
    <2>1. LogsRecorded => written = total /\ (cut \/ kept = SmallerOf(total - blank, MaxLines))
        BY DEF LogInv, RecordedIsWhole, ChildAfterParts
    <2>2. ASSUME reader = "waiting", child = "running", pipe = PipeCapacity, written < total, ~cut
          PROVE  total > MaxLines + blank + 1 + PipeCapacity
        BY <2>2, LogAssumption DEF LogInv, LinesAddUp, LogTypes
    <2>. QED BY <2>1, <2>2 DEF LogsAreTheFirst
<1>. QED BY <1>1, LogInitially, LogNextKeeps, PTL

(* For every length of a log, capacity of the pipe and number of lines     *)
(* wanted, logs that are returned are the first lines that are not empty   *)
(* of a log written completely, and the collector can be stuck only with a *)
(* log longer than the lines kept and the empty ones among them, the one   *)
(* read in vain and the pipe, or a line too long (k8s_components.go:522).  *)
THEOREM LogsAreWhole == LogSpec => []LogsAreTheFirst
BY LogsKept, PTL DEF LogSpec

-----------------------------------------------------------------------------
(* The data scope: DataScope.                                              *)

(* What the checker's cache holds                                          *)
Answer == [check : CheckName, list : List, source : Source]

(* Automatic selection has one of three answers (checker.go:229).          *)
LEMMA SourceOfAuto == ASSUME NEW list PROVE AutoMode(list) \in Source
BY DEF AutoMode, Source

(* What the tables have in common: the checker's local types contain the   *)
(* mapper's, its supplements are the mapper's, what it skips are the types *)
(* of the cluster, and the three tables are disjoint (checker.go:48,       *)
(* mapper.go:49).                                                          *)
LEMMA TablesAreApart ==
    /\ NodeLocalTypes \subseteq CheckerLocal
    /\ CheckerSupplement = SupplementTypes
    /\ CheckerSkip = ClusterLevelTypes
    /\ CheckerLocal \cap CheckerSupplement = {}
    /\ CheckerLocal \cap CheckerSkip = {}
    /\ CheckerSupplement \cap CheckerSkip = {}
    /\ ValidCollectors \subseteq NodeLocalTypes \cup SupplementTypes
<1>1. NodeLocalTypes \subseteq CheckerLocal
    BY DEF CheckerLocal
<1>2. CheckerSupplement = SupplementTypes
    BY DEF CheckerSupplement, SupplementTypes
<1>3. CheckerSkip = ClusterLevelTypes
    BY DEF CheckerSkip, ClusterLevelTypes
<1>4. CheckerLocal \cap CheckerSupplement = {}
    BY DEF CheckerLocal, CheckerSupplement, NodeLocalTypes, CPUTypes, MemoryTypes, DiskTypes,
           NetworkTypes, KubernetesTypes, SystemTypes, SecurityTypes
<1>5. CheckerLocal \cap CheckerSkip = {}
    BY DEF CheckerLocal, CheckerSkip, NodeLocalTypes, CPUTypes, MemoryTypes, DiskTypes,
           NetworkTypes, KubernetesTypes, SystemTypes, SecurityTypes
<1>6. CheckerSupplement \cap CheckerSkip = {}
    BY DEF CheckerSupplement, CheckerSkip
<1>7. ValidCollectors \subseteq NodeLocalTypes \cup SupplementTypes
    BY DEF ValidCollectors, SupplementTypes, NodeLocalTypes, CPUTypes, MemoryTypes, DiskTypes,
           NetworkTypes, KubernetesTypes, SystemTypes, SecurityTypes
<1>. QED BY <1>1, <1>2, <1>3, <1>4, <1>5, <1>6, <1>7

(* The checker and the mapper agree on every type the mapper knows         *)
(* (checker.go:241, mapper.go:505).                                        *)
LEMMA TheTablesAgree == TablesAgree
<1>. SUFFICES ASSUME NEW i \in ValidCollectors \cup ClusterLevelTypes
              PROVE  AutoMode(<<i>>) = CASE DataType(i) = "node_local" -> "local"
                            [] DataType(i) = "cluster_supplement" -> "supplement"
                            [] DataType(i) = "cluster_level" -> "skipped"
    BY DEF TablesAgree
<1>1. ToSet(<<i>>) = {i}
    <2>1. DOMAIN <<i>> = {1} /\ <<i>>[1] = i
        OBVIOUS
    <2>. QED BY <2>1 DEF ToSet
<1>2. CASE i \in NodeLocalTypes
    <2>1. DataType(i) = "node_local"
        BY <1>2 DEF DataType
    <2>2. i \in CheckerLocal
        BY <1>2, TablesAreApart
    <2>3. AutoMode(<<i>>) = "local"
        BY <1>1, <2>2 DEF AutoMode
    <2>. QED BY <2>1, <2>3
<1>3. CASE i \in SupplementTypes
    <2>1. i \in CheckerSupplement /\ i \notin CheckerLocal /\ i \notin CheckerSkip
            /\ i \notin NodeLocalTypes /\ i \notin ClusterLevelTypes
        BY <1>3, TablesAreApart
    <2>2. DataType(i) = "cluster_supplement"
        BY <1>3, <2>1 DEF DataType
    <2>3. AutoMode(<<i>>) = "supplement"
        BY <1>1, <2>1 DEF AutoMode
    <2>. QED BY <2>2, <2>3
<1>4. CASE i \in ClusterLevelTypes
    <2>1. i \notin CheckerSupplement /\ i \notin CheckerLocal /\ i \in CheckerSkip
            /\ i \notin NodeLocalTypes
        BY <1>4, TablesAreApart
    <2>2. DataType(i) = "cluster_level"
        BY <1>4, <2>1 DEF DataType
    <2>3. AutoMode(<<i>>) = "skipped"
        BY <1>1, <2>1 DEF AutoMode
    <2>. QED BY <2>2, <2>3
<1>. QED BY <1>2, <1>3, <1>4, TablesAreApart

(* What the modes for local data and for supplements would collect,        *)
(* automatic selection collects too (checker.go:169-291).                  *)
LEMMA TheModesAgree == ModesAgree
<1>1. ASSUME NEW list \in List PROVE ToSet(list) # {}
    <2>1. PICK n \in 1..MaxList : list \in [1..n -> Id]
        BY <1>1 DEF List
    <2>2. 1 \in DOMAIN list
        BY <2>1, ScopeAssumption
    <2>. QED BY <2>2 DEF ToSet
<1>2. ASSUME NEW list \in List, LocalOnlyMode(list) = "local" PROVE AutoMode(list) = "local"
    <2>1. ToSet(list) \subseteq CheckerLocal
        BY <1>2 DEF LocalOnlyMode
    <2>. QED BY <1>1, <2>1 DEF AutoMode
<1>3. ASSUME NEW list \in List, SupplementMode(list) = "supplement" PROVE AutoMode(list) # "skipped"
    <2>1. PICK i \in ToSet(list) : i \in CheckerSupplement
        BY <1>3 DEF SupplementMode
    <2>2. i \notin CheckerLocal
        BY <2>1, TablesAreApart
    <2>. QED BY <2>1, <2>2 DEF AutoMode
<1>. QED BY <1>2, <1>3 DEF ModesAgree

(* A list that automatic selection refuses holds types of the cluster      *)
(* only, and so says the mapper (checker.go:229, mapper.go:495).           *)
LEMMA RefusalIsCluster ==
    ASSUME NEW list, AutoMode(list) = "skipped", NEW i \in ToSet(list)
    PROVE  DataType(i) = "cluster_level"
<1>1. i \in CheckerSkip /\ i \notin CheckerLocal
    BY DEF AutoMode
<1>2. i \in ClusterLevelTypes /\ i \notin NodeLocalTypes
    BY <1>1, TablesAreApart
<1>. QED BY <1>2 DEF DataType

-----------------------------------------------------------------------------

(* Every entry of the three caches is the answer of the tables to the      *)
(* question it is remembered for.                                          *)
ScopeInv ==
    /\ \A i \in Id, s \in Scope : validatorCache[i][s] \in {NoVerdict, Validation(i, s)}
    /\ mapperCache \in [Id -> MapperType \cup {"none"}]
    /\ validatorCache \in [Id -> [Scope -> Verdict]]
    /\ \A i \in Id : mapperCache[i] \in {"none", DataType(i)}
    /\ checkerCache \in Seq(Answer)
    /\ \A p \in 1..Len(checkerCache) : checkerCache[p].source = AutoMode(checkerCache[p].list)

(* The caches start empty.                                                 *)
LEMMA ScopeInitially == ScopeInit => ScopeInv
<1>. SUFFICES ASSUME ScopeInit PROVE ScopeInv
    OBVIOUS
<1>1. NoVerdict \in Verdict
    BY DEF NoVerdict, Verdict
<1>2. checkerCache \in Seq(Answer) /\ Len(checkerCache) = 0
    BY DEF ScopeInit
<1>. QED BY <1>1, <1>2 DEF ScopeInit, ScopeInv

(* An answer of the validator is a verdict (validator.go:135).             *)
LEMMA ValidationType == ASSUME NEW i, NEW s \in Scope PROVE Validation(i, s) \in Verdict
BY DEF Validation, Verdict, Scope

(* An answer of the checker, remembered or fresh, leaves only answers of   *)
(* the tables, whichever entry made room (checker.go:231-290).             *)
LEMMA AnswerStep ==
    ASSUME ScopeInv, NEW c \in CheckName, NEW list \in List, ShouldCollectLocally(c, list)
    PROVE  ScopeInv'
<1>. USE ScopeAssumption
<1>1. checkerCache \in Seq(Answer) /\ \A p \in 1..Len(checkerCache) : checkerCache[p].source = AutoMode(checkerCache[p].list)
    BY DEF ScopeInv
<1>2. Fresh(c, list) \in Answer /\ Fresh(c, list).source = AutoMode(Fresh(c, list).list)
    BY SourceOfAuto DEF Fresh, Answer
<1>3. ASSUME NEW s \in Seq(Answer), NEW e \in Answer, e.source = AutoMode(e.list),
             \A j \in 1..Len(s) : s[j].source = AutoMode(s[j].list),
             checkerCache' = Append(s, e)
      PROVE  ScopeInv'
    <2>1. checkerCache' \in Seq(Answer) /\ Len(checkerCache') = Len(s) + 1
        BY <1>3
    <2>2. ASSUME NEW j \in 1..Len(checkerCache') PROVE checkerCache'[j].source = AutoMode(checkerCache'[j].list)
        <3>1. CASE j = Len(s) + 1
            BY <1>3, <3>1
        <3>2. CASE j # Len(s) + 1
            <4>1. j \in 1..Len(s)
                BY <2>1, <3>2
            <4>2. checkerCache'[j] = s[j]
                BY <1>3, <4>1
            <4>. QED BY <1>3, <4>1, <4>2
        <3>. QED BY <3>1, <3>2
    <2>3. UNCHANGED <<validatorCache, mapperCache>>
        BY DEF ShouldCollectLocally
    <2>. QED BY <2>1, <2>2, <2>3 DEF ScopeInv
<1>4. ASSUME NEW p \in DOMAIN checkerCache, checkerCache' = Touched(p) PROVE ScopeInv'
    <2>1. p \in 1..Len(checkerCache)
        BY <1>1, <1>4
    <2>. DEFINE s == RemoveAt(checkerCache, p)
                e == checkerCache[p]
    <2>2. e \in Answer /\ e.source = AutoMode(e.list)
        BY <1>1, <2>1
    <2>3. s \in Seq(Answer) /\ \A j \in 1..Len(s) : \E k \in 1..Len(checkerCache) : s[j] = checkerCache[k]
        <3>1. /\ s \in Seq(Answer) /\ Len(s) = Len(checkerCache) - 1
              /\ \A j \in 1..(Len(checkerCache) - 1) : s[j] = IF j < p THEN checkerCache[j] ELSE checkerCache[j + 1]
            BY <1>1, <2>1, RemoveAtFacts
        <3>2. Len(checkerCache) \in Nat
            BY <1>1
        <3>. HIDE DEF s
        <3>3. ASSUME NEW j \in 1..Len(s) PROVE \E k \in 1..Len(checkerCache) : s[j] = checkerCache[k]
            <4>1. j \in 1..Len(checkerCache) /\ j + 1 \in 1..Len(checkerCache)
                BY <3>1, <3>2
            <4>. QED BY <3>1, <4>1
        <3>. QED BY <3>1, <3>3
    <2>4. checkerCache' = Append(s, e)
        BY <1>4 DEF Touched
    <2>. HIDE DEF s, e
    <2>5. \A j \in 1..Len(s) : s[j].source = AutoMode(s[j].list)
        BY <1>1, <2>3
    <2>. QED BY <1>3, <2>2, <2>3, <2>4, <2>5
<1>5. ASSUME checkerCache' = Extended(Fresh(c, list)) PROVE ScopeInv'
    <2>1. CASE Len(checkerCache) < Capacity
        <3>1. checkerCache' = Append(checkerCache, Fresh(c, list))
            BY <1>5, <2>1 DEF Extended
        <3>. QED BY <1>1, <1>2, <1>3, <3>1
    <2>2. CASE ~(Len(checkerCache) < Capacity)
        <3>1. checkerCache' = Append(Tail(checkerCache), Fresh(c, list))
            BY <1>5, <2>2 DEF Extended
        <3>2. Len(checkerCache) \in Nat \ {0} /\ checkerCache # <<>>
            BY <1>1, <2>2
        <3>3. Tail(checkerCache) \in Seq(Answer) /\ Len(Tail(checkerCache)) = Len(checkerCache) - 1
                /\ \A j \in 1..(Len(checkerCache) - 1) : Tail(checkerCache)[j] = checkerCache[j + 1] /\ j + 1 \in 1..Len(checkerCache)
            BY <1>1, <3>2
        <3>4. \A j \in 1..Len(Tail(checkerCache)) : Tail(checkerCache)[j].source = AutoMode(Tail(checkerCache)[j].list)
            BY <1>1, <3>3
        <3>. QED BY <1>2, <1>3, <3>1, <3>3, <3>4
    <2>. QED BY <2>1, <2>2
<1>. QED BY <1>4, <1>5 DEF ShouldCollectLocally

(* Every question and every clearing keeps the invariant                   *)
(* (validator.go:135, mapper.go:495, checker.go:154, 336).                 *)
LEMMA ScopeNextKeeps == ScopeInv /\ [ScopeNext]_scopeVars => ScopeInv'
<1>. SUFFICES ASSUME ScopeInv, [ScopeNext]_scopeVars PROVE ScopeInv'
    OBVIOUS
<1>1. ASSUME NEW i \in Id, NEW s \in Scope, ValidateCollector(i, s) PROVE ScopeInv'
    <2>. USE <1>1 DEF ValidateCollector, ScopeInv
    <2>1. Validation(i, s) \in Verdict
        BY ValidationType
    <2>2. validatorCache' \in [Id -> [Scope -> Verdict]]
        BY <2>1
    <2>3. ASSUME NEW j \in Id, NEW r \in Scope PROVE validatorCache'[j][r] \in {NoVerdict, Validation(j, r)}
        BY <2>1, <2>3
    <2>. QED BY <2>2, <2>3
<1>2. ASSUME NEW i \in Id, GetDataType(i) PROVE ScopeInv'
    <2>. USE <1>2 DEF GetDataType, ScopeInv
    <2>1. DataType(i) \in MapperType \cup {"none"}
        BY DEF DataType, MapperType
    <2>2. mapperCache' \in [Id -> MapperType \cup {"none"}]
        BY <2>1
    <2>3. \A j \in Id : mapperCache'[j] \in {"none", DataType(j)}
        OBVIOUS
    <2>. QED BY <2>2, <2>3
<1>3. ASSUME ClearCache PROVE ScopeInv'
    <2>1. CASE mapperCache' = [i \in Id |-> "none"] /\ UNCHANGED checkerCache
        BY <1>3, <2>1 DEF ClearCache, ScopeInv
    <2>2. CASE checkerCache' = <<>> /\ UNCHANGED mapperCache
        <3>1. checkerCache' \in Seq(Answer) /\ Len(checkerCache') = 0
            BY <2>2
        <3>. QED BY <1>3, <2>2, <3>1 DEF ClearCache, ScopeInv
    <2>. QED BY <1>3, <2>1, <2>2 DEF ClearCache
<1>4. ASSUME UNCHANGED scopeVars PROVE ScopeInv'
    BY <1>4 DEF scopeVars, ScopeInv
<1>. QED BY <1>1, <1>2, <1>3, <1>4, AnswerStep DEF ScopeNext

(* The caches hold only answers of the tables in every reachable state     *)
(* (checker.go:231).                                                       *)
LEMMA ScopeInvariant == ScopeSpec => []ScopeInv
BY ScopeInitially, ScopeNextKeeps, PTL DEF ScopeSpec

(* For any names, checks, capacity and history of questions, no remembered *)
(* answer is taken for that of another check, list or scope                *)
(* (checker.go:231).                                                       *)
THEOREM AnswersHold == ScopeSpec => []RememberedAnswersHold
<1>1. ScopeInv => RememberedAnswersHold
    BY DEF ScopeInv, RememberedAnswersHold, ToSet
<1>. QED BY <1>1, ScopeInvariant, PTL

(* The checker and the mapper agree on every type, the modes agree on      *)
(* every list, and a remembered refusal is one of cluster data only        *)
(* (checker.go:241, mapper.go:505).                                        *)
THEOREM AllClassifiersAgree == ScopeSpec => []ClassifiersAgree
<1>1. ScopeInv => ClassifiersAgree
    <2>. SUFFICES ASSUME ScopeInv, NEW e \in ToSet(checkerCache), e.source = "skipped", NEW i \in ToSet(e.list)
                  PROVE  mapperCache[i] \in {"none", "cluster_level"}
        BY TheTablesAgree, TheModesAgree DEF ClassifiersAgree
    <2>1. PICK p \in 1..Len(checkerCache) : e = checkerCache[p]
        BY DEF ScopeInv, ToSet
    <2>a. checkerCache \in Seq(Answer) /\ checkerCache[p].source = AutoMode(checkerCache[p].list)
        BY <2>1 DEF ScopeInv
    <2>b. e \in Answer
        BY <2>1, <2>a
    <2>c. e.list \in List
        BY <2>b DEF Answer
    <2>2. e.list \in List /\ AutoMode(e.list) = "skipped"
        BY <2>1, <2>a, <2>c
    <2>3. i \in Id
        BY <2>2 DEF List, ToSet
    <2>4. DataType(i) = "cluster_level"
        BY <2>2, RefusalIsCluster
    <2>. QED BY <2>3, <2>4 DEF ScopeInv
<1>. QED BY <1>1, ScopeInvariant, PTL

-----------------------------------------------------------------------------
(* Executions, their statistics and reports: Pipeline.                     *)

(* A configuration of finitely many checks with finitely many collectors   *)
(* makes finitely many tasks (app.go:153).                                 *)
LEMMA TasksAreFinite == IsFiniteSet(Tasks)
<1>. DEFINE D == {d \in Checks : d.enabled}
            Of(c) == {[name |-> c.name, collector |-> k] : k \in c.collectors}
            E == {Of(c) : c \in D}
<1>1. IsFiniteSet(D)
    BY PipelineAssumption, FS_Subset
<1>2. ASSUME NEW c \in D PROVE IsFiniteSet(Of(c))
    <2>. DEFINE f == [k \in c.collectors |-> [name |-> c.name, collector |-> k]]
    <2>1. f \in Surjection(c.collectors, Of(c))
        BY DEF Surjection
    <2>2. IsFiniteSet(c.collectors)
        BY PipelineAssumption
    <2>. QED BY <2>1, <2>2, FS_Surjection
<1>3. IsFiniteSet(E)
    <2>. DEFINE g == [c \in D |-> Of(c)]
    <2>. HIDE DEF Of
    <2>1. g \in Surjection(D, E)
        BY DEF Surjection
    <2>. QED BY <1>1, <2>1, FS_Surjection
<1>4. IsFiniteSet(UNION E)
    BY <1>2, <1>3, FS_UNION
<1>. QED BY <1>4 DEF Tasks

-----------------------------------------------------------------------------
(* The failures among the remembered outcomes. *)
FailuresIn(s) == Cardinality({i \in DOMAIN s : ~s[i]})

(* A sequence of outcomes has a number of failures.                        *)
LEMMA FailuresType ==
    ASSUME NEW s \in Seq(BOOLEAN)
    PROVE  /\ IsFiniteSet({i \in DOMAIN s : ~s[i]})
           /\ FailuresIn(s) \in Nat
<1>1. IsFiniteSet(1..Len(s)) /\ DOMAIN s = 1..Len(s)
    BY FS_Interval
<1>2. IsFiniteSet({i \in DOMAIN s : ~s[i]})
    BY <1>1, FS_Subset
<1>. QED BY <1>2, FS_CardinalityType DEF FailuresIn

(* One outcome more is one failure more, or none.                          *)
LEMMA FailuresOfAppend ==
    ASSUME NEW s \in Seq(BOOLEAN), NEW ok \in BOOLEAN
    PROVE  /\ ok => FailuresIn(Append(s, ok)) = FailuresIn(s)
           /\ ~ok => FailuresIn(Append(s, ok)) = FailuresIn(s) + 1
<1>. DEFINE n == Len(s)
            r == Append(s, ok)
            A == {i \in DOMAIN s : ~s[i]}
            B == {i \in DOMAIN r : ~r[i]}
<1>1. n \in Nat /\ DOMAIN s = 1..n /\ n + 1 \notin 1..n
    OBVIOUS
<1>2. DOMAIN r = 1..(n + 1) /\ r[n + 1] = ok /\ \A i \in 1..n : r[i] = s[i]
    OBVIOUS
<1>3. \A i \in 1..(n + 1) : i \in 1..n \/ i = n + 1
    BY <1>1
<1>4. 1..n \subseteq 1..(n + 1) /\ n + 1 \in 1..(n + 1)
    BY <1>1
<1>5. IsFiniteSet(A)
    BY FailuresType
<1>. HIDE DEF r, n
<1>6. ASSUME ok PROVE B = A
    BY <1>1, <1>2, <1>3, <1>4, <1>6
<1>7. ASSUME ~ok PROVE B = A \cup {n + 1} /\ n + 1 \notin A
    BY <1>1, <1>2, <1>3, <1>4, <1>7
<1>8. FailuresIn(s) = Cardinality(A) /\ FailuresIn(r) = Cardinality(B)
    BY DEF FailuresIn
<1>. HIDE DEF A, B
<1>9. ASSUME ~ok PROVE Cardinality(B) = Cardinality(A) + 1
    BY <1>5, <1>7, <1>9, FS_AddElement
<1>. QED BY <1>6, <1>8, <1>9 DEF r

(* Forgetting the oldest outcome loses one failure or one success at most. *)
LEMMA FailuresOfTail ==
    ASSUME NEW s \in Seq(BOOLEAN), s # <<>>
    PROVE  /\ Tail(s) \in Seq(BOOLEAN) /\ Len(Tail(s)) = Len(s) - 1
           /\ FailuresIn(Tail(s)) <= FailuresIn(s)
           /\ Len(Tail(s)) - FailuresIn(Tail(s)) <= Len(s) - FailuresIn(s)
<1>. DEFINE n == Len(s)
            r == Tail(s)
            A == {i \in DOMAIN s : ~s[i]}
            B == {i \in DOMAIN r : ~r[i]}
            f == [i \in B |-> i + 1]
<1>1. n \in Nat /\ n >= 1 /\ DOMAIN s = 1..n
    OBVIOUS
<1>2. r \in Seq(BOOLEAN) /\ Len(r) = n - 1 /\ DOMAIN r = 1..(n - 1) /\ \A i \in 1..(n - 1) : r[i] = s[i + 1]
    BY <1>1
<1>. HIDE DEF r
<1>3. IsFiniteSet(A) /\ IsFiniteSet(B)
    BY <1>2, FailuresType
<1>4. IsFiniteSet(A \ {1}) /\ Cardinality(A \ {1}) \in Nat /\ Cardinality(A) \in Nat
      /\ Cardinality(A \ {1}) <= Cardinality(A) /\ Cardinality(A) <= Cardinality(A \ {1}) + 1
    <2>. HIDE DEF A
    <2>1. /\ IsFiniteSet(A \ {1})
          /\ Cardinality(A \ {1}) = IF 1 \in A THEN Cardinality(A) - 1 ELSE Cardinality(A)
        BY <1>3, FS_RemoveElement
    <2>2. Cardinality(A \ {1}) \in Nat /\ Cardinality(A) \in Nat
        BY <1>3, <2>1, FS_CardinalityType
    <2>. QED BY <2>1, <2>2
<1>5. f \in Bijection(B, A \ {1})
    <2>. HIDE DEF n
    <2>1. \A i \in B : i + 1 \in A \ {1}
        BY <1>1, <1>2
    <2>2. ASSUME NEW j \in A \ {1} PROVE j - 1 \in B /\ (j - 1) + 1 = j
        <3>1. j \in 1..n /\ j # 1
            BY <1>1
        <3>2. j - 1 \in 1..(n - 1) /\ (j - 1) + 1 = j
            BY <1>1, <3>1
        <3>. QED BY <1>2, <3>2
    <2>3. \A i, k \in B : i + 1 = k + 1 => i = k
        BY <1>1, <1>2
    <2>. HIDE DEF A, B
    <2>4. f \in [B -> A \ {1}]
        BY <2>1
    <2>5. f \in Injection(B, A \ {1})
        BY <2>3, <2>4 DEF Injection, IsInjective
    <2>6. f \in Surjection(B, A \ {1})
        BY <2>2, <2>4 DEF Surjection
    <2>. QED BY <2>5, <2>6 DEF Bijection
<1>6. Cardinality(A \ {1}) = Cardinality(B)
    BY <1>3, <1>5, FS_Bijection DEF ExistsBijection
<1>7. FailuresIn(s) = Cardinality(A) /\ FailuresIn(r) = Cardinality(B)
    BY DEF FailuresIn
<1>. HIDE DEF A, B, n
<1>8. FailuresIn(r) <= FailuresIn(s) /\ (n - 1) - FailuresIn(r) <= n - FailuresIn(s)
    BY <1>1, <1>4, <1>6, <1>7
<1>. QED BY <1>2, <1>8 DEF r, n

-----------------------------------------------------------------------------

(* What the monitor holds of a task                                        *)
MonitorRecord == [total : Nat, success : Nat, failed : Nat, recent : Seq(BOOLEAN)]

(* What the monitor holds of one task adds up. *)
AddsUp(m) ==
    /\ m.success + m.failed = m.total
    /\ Len(m.recent) = IF m.total < Recent THEN m.total ELSE Recent
    /\ FailuresIn(m.recent) <= m.failed
    /\ Len(m.recent) - FailuresIn(m.recent) <= m.success

(* A record keeps what the monitor holds of a task in step: the totals,    *)
(* and the outcomes of the last executions, of which the oldest goes when  *)
(* there are enough (monitor.go:68-102).                                   *)
LEMMA RecordedAddsUp ==
    ASSUME NEW m \in MonitorRecord, AddsUp(m), NEW ok \in BOOLEAN
    PROVE  Recorded(m, ok) \in MonitorRecord /\ AddsUp(Recorded(m, ok))
<1>. DEFINE r == Recorded(m, ok)
            rest == IF Len(m.recent) >= Recent THEN Tail(m.recent) ELSE m.recent
<1>1. m.recent \in Seq(BOOLEAN) /\ m.total \in Nat /\ m.success \in Nat /\ m.failed \in Nat
      /\ Recent \in Nat /\ Recent >= 1 /\ Len(m.recent) \in Nat
    BY PipelineAssumption DEF MonitorRecord
<1>2. Len(m.recent) = IF m.total < Recent THEN m.total ELSE Recent
    BY DEF AddsUp
<1>3. /\ rest \in Seq(BOOLEAN) /\ Len(rest) + 1 = (IF m.total + 1 < Recent THEN m.total + 1 ELSE Recent)
      /\ FailuresIn(rest) <= m.failed /\ Len(rest) - FailuresIn(rest) <= m.success
    <2>0. FailuresIn(m.recent) \in Nat /\ FailuresIn(m.recent) <= m.failed
            /\ Len(m.recent) - FailuresIn(m.recent) <= m.success
        BY <1>1, FailuresType DEF AddsUp
    <2>1. CASE Len(m.recent) >= Recent
        <3>1. m.recent # <<>>
            BY <1>1, <2>1
        <3>2. rest = Tail(m.recent)
            BY <2>1
        <3>. HIDE DEF rest
        <3>3. /\ rest \in Seq(BOOLEAN) /\ Len(rest) = Len(m.recent) - 1
              /\ FailuresIn(rest) <= FailuresIn(m.recent)
              /\ Len(rest) - FailuresIn(rest) <= Len(m.recent) - FailuresIn(m.recent)
            BY <1>1, <3>1, <3>2, FailuresOfTail
        <3>4. FailuresIn(rest) \in Nat
            BY <3>3, FailuresType
        <3>5. Len(rest) + 1 = (IF m.total + 1 < Recent THEN m.total + 1 ELSE Recent)
            BY <1>1, <1>2, <2>1, <3>3
        <3>6. FailuresIn(rest) <= m.failed /\ Len(rest) - FailuresIn(rest) <= m.success
            BY <1>1, <2>0, <3>3, <3>4
        <3>. QED BY <3>3, <3>5, <3>6
    <2>2. CASE ~(Len(m.recent) >= Recent)
        <3>1. Len(m.recent) + 1 = (IF m.total + 1 < Recent THEN m.total + 1 ELSE Recent)
            BY <1>1, <1>2, <2>2
        <3>. QED BY <1>1, <2>0, <2>2, <3>1
    <2>. QED BY <2>1, <2>2
<1>. HIDE DEF rest
<1>4. FailuresIn(rest) \in Nat /\ Len(rest) \in Nat
    <2>1. rest \in Seq(BOOLEAN)
        BY <1>3
    <2>2. FailuresIn(rest) \in Nat
        BY <2>1, FailuresType
    <2>. QED BY <2>1, <2>2
<1>5. Append(rest, ok) \in Seq(BOOLEAN) /\ Len(Append(rest, ok)) = Len(rest) + 1
    BY <1>3
<1>6. r = [total |-> m.total + 1, success |-> m.success + (IF ok THEN 1 ELSE 0),
           failed |-> m.failed + (IF ok THEN 0 ELSE 1), recent |-> Append(rest, ok)]
    BY DEF Recorded, rest
<1>7. CASE ok
    <2>1. r.total = m.total + 1 /\ r.success = m.success + 1 /\ r.failed = m.failed /\ r.recent = Append(rest, ok)
        <3>1. (IF ok THEN 1 ELSE 0) = 1 /\ (IF ok THEN 0 ELSE 1) = 0
            BY <1>7
        <3>. HIDE DEF r
        <3>2. r.total = m.total + 1 /\ r.recent = Append(rest, ok)
            BY <1>6
        <3>3. r.success = m.success + (IF ok THEN 1 ELSE 0) /\ r.failed = m.failed + (IF ok THEN 0 ELSE 1)
            BY <1>6
        <3>. QED BY <1>1, <3>1, <3>2, <3>3
    <2>2. FailuresIn(r.recent) = FailuresIn(rest) /\ Len(r.recent) = Len(rest) + 1
        BY <1>3, <1>5, <1>7, <2>1, FailuresOfAppend
    <2>3. r \in MonitorRecord
        BY <1>1, <1>5, <1>6, <1>7 DEF MonitorRecord
    <2>. HIDE DEF r
    <2>4. m.success + m.failed = m.total
        BY DEF AddsUp
    <2>5. r.success + r.failed = r.total
        BY <1>1, <2>1, <2>4
    <2>6. FailuresIn(r.recent) <= r.failed
        BY <1>3, <2>1, <2>2
    <2>7. Len(r.recent) - FailuresIn(r.recent) <= r.success
        BY <1>1, <1>3, <1>4, <2>1, <2>2
    <2>8. Len(r.recent) = IF r.total < Recent THEN r.total ELSE Recent
        BY <1>3, <2>1, <2>2
    <2>9. AddsUp(r)
        BY <2>5, <2>6, <2>7, <2>8 DEF AddsUp
    <2>. QED BY <2>3, <2>9 DEF r
<1>8. CASE ~ok
    <2>1. r.total = m.total + 1 /\ r.success = m.success /\ r.failed = m.failed + 1 /\ r.recent = Append(rest, ok)
        <3>1. (IF ok THEN 1 ELSE 0) = 0 /\ (IF ok THEN 0 ELSE 1) = 1
            BY <1>8
        <3>. HIDE DEF r
        <3>2. r.total = m.total + 1 /\ r.recent = Append(rest, ok)
            BY <1>6
        <3>3. r.success = m.success + (IF ok THEN 1 ELSE 0) /\ r.failed = m.failed + (IF ok THEN 0 ELSE 1)
            BY <1>6
        <3>. QED BY <1>1, <3>1, <3>2, <3>3
    <2>2. FailuresIn(r.recent) = FailuresIn(rest) + 1 /\ Len(r.recent) = Len(rest) + 1
        BY <1>3, <1>5, <1>8, <2>1, FailuresOfAppend
    <2>3. r \in MonitorRecord
        BY <1>1, <1>5, <1>6, <1>8 DEF MonitorRecord
    <2>. HIDE DEF r
    <2>4. m.success + m.failed = m.total
        BY DEF AddsUp
    <2>5. r.success + r.failed = r.total
        BY <1>1, <2>1, <2>4
    <2>6. FailuresIn(r.recent) <= r.failed
        BY <1>1, <1>3, <1>4, <2>1, <2>2
    <2>7. Len(r.recent) - FailuresIn(r.recent) <= r.success
        BY <1>1, <1>3, <1>4, <2>1, <2>2
    <2>8. Len(r.recent) = IF r.total < Recent THEN r.total ELSE Recent
        BY <1>3, <2>1, <2>2
    <2>9. AddsUp(r)
        BY <2>5, <2>6, <2>7, <2>8 DEF AddsUp
    <2>. QED BY <2>3, <2>9 DEF r
<1>. QED BY <1>7, <1>8

-----------------------------------------------------------------------------

(* The recorded runs and successes by task, and the tasks of a check       *)
Runs(m) == [t \in Tasks |-> m[t].total]
Successes(m) == [t \in Tasks |-> m[t].success]
OfName(n) == {t \in Tasks : t.name = n}

(* The executions of a check that succeeded and are not reported yet       *)
Unreported(n) == {e \in AtStep("process") : exec[e].task.name = n /\ exec[e].outcome # "error"}

(* The executions that are not on record yet                               *)
Unrecorded == AtStep("execute") \cup AtStep("record")

(* The values of the variables; an execution that is under way has a task. *)
PipeTypes ==
    /\ exec \in [Execs -> [task : Tasks \cup {NoTask}, outcome : Outcome,
                           step : {"free", "execute", "record", "process"}]]
    /\ \A e \in Execs : exec[e].step # "free" => exec[e].task \in Tasks
    /\ metrics \in [Tasks -> MonitorRecord]
    /\ reports \in [Names -> Nat]
    /\ runs \in Nat

(* Every execution is counted where it stands: before its record by the    *)
(* runs, after its record by the metrics, before its report by the         *)
(* successes of its check that are not reported.                           *)
PipeInv ==
    /\ PipeTypes
    /\ totals = Totals(metrics)
    /\ SumFunction(Runs(metrics)) + Cardinality(Unrecorded) = runs
    /\ \A t \in Tasks : AddsUp(metrics[t])
    /\ \A n \in Names : reports[n] + Cardinality(Unreported(n)) = SumFunctionOnSet(Successes(metrics), OfName(n))

(* The sum over the tasks of one check after that of any task has changed. *)
LEMMA SumOfName ==
    ASSUME NEW n, NEW fun \in [Tasks -> Nat], NEW t \in Tasks, NEW v \in Nat
    PROVE  /\ SumFunctionOnSet(fun, OfName(n)) \in Nat
           /\ t.name = n => SumFunctionOnSet([fun EXCEPT ![t] = v], OfName(n))
                                = SumFunctionOnSet(fun, OfName(n)) - fun[t] + v
           /\ t.name # n => SumFunctionOnSet([fun EXCEPT ![t] = v], OfName(n)) = SumFunctionOnSet(fun, OfName(n))
<1>. DEFINE S == OfName(n)
            gun == [fun EXCEPT ![t] = v]
<1>0. S \subseteq Tasks /\ (t.name = n => t \in S) /\ (t.name # n => t \notin S)
    BY DEF OfName
<1>1. IsFiniteSet(S) /\ IsFiniteSet(S \ {t})
    BY <1>0, TasksAreFinite, FS_Subset
<1>2. gun \in [Tasks -> Nat] /\ gun[t] = v /\ \A x \in Tasks : x # t => gun[x] = fun[x]
    OBVIOUS
<1>. HIDE DEF gun, S
<1>3. (\A x \in S : fun[x] \in Nat) /\ (\A x \in S : gun[x] \in Nat) /\ \A x \in S \ {t} : fun[x] = gun[x] /\ fun[x] \in Nat
    BY <1>0, <1>2
<1>4. SumFunctionOnSet(fun, S) \in Nat /\ SumFunctionOnSet(fun, S \ {t}) \in Nat
    BY <1>1, <1>3, SumIsNat
<1>5. SumFunctionOnSet(fun, S \ {t}) = SumFunctionOnSet(gun, S \ {t})
    BY <1>1, <1>3, SumAgrees
<1>6. ASSUME t \in S PROVE SumFunctionOnSet(gun, S) = SumFunctionOnSet(fun, S) - fun[t] + v
    <2>1. SumFunctionOnSet(fun, S) = fun[t] + SumFunctionOnSet(fun, S \ {t})
        BY <1>1, <1>3, <1>6, SumOfAny
    <2>2. SumFunctionOnSet(gun, S) = gun[t] + SumFunctionOnSet(gun, S \ {t})
        BY <1>1, <1>3, <1>6, SumOfAny
    <2>. QED BY <1>2, <1>4, <1>5, <2>1, <2>2
<1>7. ASSUME t \notin S PROVE SumFunctionOnSet(gun, S) = SumFunctionOnSet(fun, S)
    <2>1. S \ {t} = S
        BY <1>7
    <2>. QED BY <1>5, <2>1
<1>. QED BY <1>0, <1>4, <1>6, <1>7 DEF gun, S

(* Nothing runs, nothing is on record and nothing is reported at first     *)
(* (monitor.go:54).                                                        *)
LEMMA PipeInitially == PipeInit => PipeInv
<1>. SUFFICES ASSUME PipeInit PROVE PipeInv
    OBVIOUS
<1>. USE DEF PipeInit
<1>1. NoMetrics \in MonitorRecord /\ NoMetrics.total = 0 /\ NoMetrics.success = 0 /\ NoMetrics.failed = 0
        /\ NoMetrics.recent = <<>>
    BY DEF NoMetrics, MonitorRecord
<1>2. FailuresIn(<<>>) = 0
    <2>1. {i \in DOMAIN <<>> : ~<<>>[i]} = {}
        OBVIOUS
    <2>. QED BY <2>1, FS_EmptySet DEF FailuresIn
<1>3. AddsUp(NoMetrics)
    <2>1. Len(<<>>) = 0 /\ 0 < Recent /\ Recent \in Nat
        BY PipelineAssumption
    <2>2. NoMetrics.success + NoMetrics.failed = NoMetrics.total
        BY <1>1
    <2>3. Len(NoMetrics.recent) = IF NoMetrics.total < Recent THEN NoMetrics.total ELSE Recent
        BY <1>1, <2>1
    <2>4. FailuresIn(NoMetrics.recent) <= NoMetrics.failed
        BY <1>1, <1>2
    <2>5. Len(NoMetrics.recent) - FailuresIn(NoMetrics.recent) <= NoMetrics.success
        BY <1>1, <1>2, <2>1
    <2>. QED BY <2>2, <2>3, <2>4, <2>5 DEF AddsUp
<1>4. PipeTypes
    <2>1. \A e \in Execs : exec[e] = Free
        OBVIOUS
    <2>2. Free \in [task : Tasks \cup {NoTask}, outcome : Outcome, step : {"free", "execute", "record", "process"}]
            /\ Free.step = "free"
        BY DEF Free, Outcome
    <2>. QED BY <1>1, <2>1, <2>2 DEF PipeTypes
<1>5. \A s \in {"execute", "record", "process"} : AtStep(s) = {}
    BY DEF AtStep, Free
<1>6. /\ SumFunction([t \in Tasks |-> metrics[t].total]) = 0
      /\ SumFunction([t \in Tasks |-> metrics[t].success]) = 0
      /\ SumFunction([t \in Tasks |-> metrics[t].failed]) = 0
    <2>1. /\ [t \in Tasks |-> metrics[t].total] \in [Tasks -> {0}]
          /\ [t \in Tasks |-> metrics[t].success] \in [Tasks -> {0}]
          /\ [t \in Tasks |-> metrics[t].failed] \in [Tasks -> {0}]
        BY <1>1
    <2>. QED BY <2>1, TasksAreFinite, SumOfZeros
<1>7. totals = Totals(metrics)
    <2>1. {t \in Tasks : metrics[t] # NoMetrics} = {}
        OBVIOUS
    <2>. QED BY <1>6, <2>1, FS_EmptySet DEF Totals
<1>8. SumFunction(Runs(metrics)) + Cardinality(Unrecorded) = runs
    <2>1. Unrecorded = {}
        BY <1>5 DEF Unrecorded
    <2>. QED BY <1>6, <2>1, FS_EmptySet DEF Runs
<1>9. ASSUME NEW n \in Names
      PROVE  reports[n] + Cardinality(Unreported(n)) = SumFunctionOnSet(Successes(metrics), OfName(n))
    <2>1. Unreported(n) = {}
        BY <1>5 DEF Unreported
    <2>. DEFINE fun == [t \in OfName(n) |-> 0]
    <2>2. IsFiniteSet(OfName(n)) /\ OfName(n) \subseteq Tasks
        BY TasksAreFinite, FS_Subset DEF OfName
    <2>3. \A t \in OfName(n) : fun[t] = Successes(metrics)[t]
        BY <1>1, <2>2 DEF Successes
    <2>4. SumFunctionOnSet(fun, OfName(n)) = SumFunctionOnSet(Successes(metrics), OfName(n))
        <3>. HIDE DEF fun
        <3>. QED BY <2>2, <2>3, SumAgrees
    <2>5. SumFunction(fun) = 0
        BY <2>2, SumOfZeros
    <2>6. SumFunction(fun) = SumFunctionOnSet(fun, OfName(n))
        BY DEF SumFunction
    <2>. QED BY <2>1, <2>4, <2>5, <2>6, FS_EmptySet
<1>10. \A t \in Tasks : AddsUp(metrics[t])
    BY <1>3
<1>. QED BY <1>4, <1>7, <1>8, <1>9, <1>10 DEF PipeInv

-----------------------------------------------------------------------------

(* The executions that are not on record or not reported can be counted.   *)
LEMMA WaitingAreFinite ==
    /\ IsFiniteSet(Unrecorded) /\ Cardinality(Unrecorded) \in Nat
    /\ \A n \in Names : IsFiniteSet(Unreported(n)) /\ Cardinality(Unreported(n)) \in Nat
<1>1. IsFiniteSet(Execs) /\ Unrecorded \subseteq Execs /\ \A n \in Names : Unreported(n) \subseteq Execs
    BY PipelineAssumption DEF Unrecorded, Unreported, AtStep
<1>2. IsFiniteSet(Unrecorded) /\ \A n \in Names : IsFiniteSet(Unreported(n))
    BY <1>1, FS_Subset
<1>. QED BY <1>2, FS_CardinalityType

(* An execution that begins is counted as begun and not on record          *)
(* (scheduler.go:442).                                                     *)
LEMMA BeginKeeps ==
    ASSUME PipeInv, NEW e \in Execs, NEW t \in Tasks, BeginExec(e, t)
    PROVE  PipeInv'
<1>. USE DEF BeginExec
<1>1. PipeTypes
    BY DEF PipeInv
<1>2. /\ \A x \in Execs : x # e => exec'[x] = exec[x]
      /\ exec'[e].task = t /\ exec'[e].step = "execute" /\ exec[e].step = "free"
    BY <1>1 DEF PipeTypes, Free
<1>3. PipeTypes'
    <2>1. [task |-> t, step |-> "execute", outcome |-> "none"]
            \in [task : Tasks \cup {NoTask}, outcome : Outcome, step : {"free", "execute", "record", "process"}]
        BY DEF Outcome
    <2>2. exec' \in [Execs -> [task : Tasks \cup {NoTask}, outcome : Outcome,
                               step : {"free", "execute", "record", "process"}]]
        BY <1>1, <2>1 DEF PipeTypes
    <2>3. \A x \in Execs : exec'[x].step # "free" => exec'[x].task \in Tasks
        BY <1>1, <1>2 DEF PipeTypes
    <2>4. runs' \in Nat
        BY <1>1 DEF PipeTypes
    <2>. QED BY <1>1, <2>2, <2>3, <2>4 DEF PipeTypes
<1>4. Unrecorded' = Unrecorded \cup {e} /\ e \notin Unrecorded
    BY <1>2 DEF Unrecorded, AtStep
<1>5. Cardinality(Unrecorded') = Cardinality(Unrecorded) + 1
    BY <1>4, WaitingAreFinite, FS_AddElement
<1>6. SumFunction(Runs(metrics)) \in Nat
    <2>1. \A x \in Tasks : Runs(metrics)[x] \in Nat
        BY <1>1 DEF PipeTypes, MonitorRecord, Runs
    <2>2. DOMAIN Runs(metrics) = Tasks
        BY DEF Runs
    <2>. QED BY <2>1, <2>2, TasksAreFinite, SumIsNat DEF SumFunction
<1>7. SumFunction(Runs(metrics)) + Cardinality(Unrecorded) = runs
    BY DEF PipeInv
<1>8. (SumFunction(Runs(metrics)) + Cardinality(Unrecorded) = runs)'
    <2>1. runs' = runs + 1 /\ metrics' = metrics
        OBVIOUS
    <2>. QED BY <1>5, <1>6, <1>7, <2>1, WaitingAreFinite
<1>9. ASSUME NEW n \in Names PROVE Unreported(n)' = Unreported(n)
    BY <1>2 DEF Unreported, AtStep
<1>10. \A n \in Names : (reports[n] + Cardinality(Unreported(n)) = SumFunctionOnSet(Successes(metrics), OfName(n)))'
    <2>1. metrics' = metrics /\ reports' = reports
        OBVIOUS
    <2>. QED BY <1>9, <2>1 DEF PipeInv
<1>. QED BY <1>3, <1>8, <1>10 DEF PipeInv

(* The outcome of an execution changes no count (executor.go:30).          *)
LEMMA ExecuteKeeps ==
    ASSUME PipeInv, NEW e \in Execs, Execute(e)
    PROVE  PipeInv'
<1>1. PipeTypes
    BY DEF PipeInv
<1>2. PICK o \in ExecuteOutcome(exec[e].task) : exec' = [exec EXCEPT ![e].outcome = o, ![e].step = "record"]
    BY DEF Execute
<1>3. o \in Outcome
    <2>1. ExecuteOutcome(exec[e].task) \subseteq {"error", "skipped", "failed", "collected"}
        BY DEF ExecuteOutcome
    <2>. QED BY <1>2, <2>1 DEF Outcome
<1>4. /\ \A x \in Execs : x # e => exec'[x] = exec[x]
      /\ exec'[e].task = exec[e].task /\ exec'[e].step = "record" /\ exec[e].step = "execute"
      /\ exec'[e].outcome = o
    BY <1>1, <1>2 DEF PipeTypes, Execute
<1>5. PipeTypes'
    <2>1. exec' \in [Execs -> [task : Tasks \cup {NoTask}, outcome : Outcome,
                               step : {"free", "execute", "record", "process"}]]
        <3>. DEFINE r == [exec[e] EXCEPT !.outcome = o, !.step = "record"]
        <3>1. r \in [task : Tasks \cup {NoTask}, outcome : Outcome, step : {"free", "execute", "record", "process"}]
            BY <1>1, <1>3 DEF PipeTypes
        <3>2. exec' = [exec EXCEPT ![e] = r]
            BY <1>1, <1>2 DEF PipeTypes
        <3>. HIDE DEF r
        <3>. QED BY <1>1, <3>1, <3>2 DEF PipeTypes
    <2>2. \A x \in Execs : exec'[x].step # "free" => exec'[x].task \in Tasks
        BY <1>1, <1>4 DEF PipeTypes
    <2>. QED BY <1>1, <2>1, <2>2 DEF PipeTypes, Execute
<1>6. Unrecorded' = Unrecorded
    BY <1>4 DEF Unrecorded, AtStep
<1>7. \A n \in Names : Unreported(n)' = Unreported(n)
    BY <1>4 DEF Unreported, AtStep
<1>. QED BY <1>5, <1>6, <1>7 DEF PipeInv, Execute

(* A record moves an execution to the metrics of its task and, when it     *)
(* succeeded, to the successes that are not reported (monitor.go:64).      *)
LEMMA RecordKeeps ==
    ASSUME PipeInv, NEW e \in Execs, RecordResult(e)
    PROVE  PipeInv'
<1>. DEFINE t == exec[e].task
            ok == exec[e].outcome # "error"
<1>1. PipeTypes
    BY DEF PipeInv
<1>2. exec' = [exec EXCEPT ![e].step = "process"] /\ exec[e].step = "record" /\ reports' = reports /\ runs' = runs
    BY DEF RecordResult
<1>3. /\ \A x \in Execs : x # e => exec'[x] = exec[x]
      /\ exec'[e].task = t /\ exec'[e].step = "process" /\ exec'[e].outcome = exec[e].outcome
    BY <1>1, <1>2 DEF PipeTypes
<1>4. t \in Tasks /\ ok \in BOOLEAN
    BY <1>1, <1>2 DEF PipeTypes
<1>0. t \in Tasks
    BY <1>4
<1>5. metrics' = [metrics EXCEPT ![t] = Recorded(metrics[t], ok)] /\ totals' = Totals(metrics')
    BY <1>1 DEF RecordResult, PipeTypes
<1>6. metrics[t] \in MonitorRecord /\ Recorded(metrics[t], ok) \in MonitorRecord /\ AddsUp(Recorded(metrics[t], ok))
    BY <1>1, <1>4, RecordedAddsUp DEF PipeTypes, PipeInv
<1>. HIDE DEF t, ok
<1>7. metrics' \in [Tasks -> MonitorRecord] /\ metrics'[t] = Recorded(metrics[t], ok)
        /\ \A x \in Tasks : x # t => metrics'[x] = metrics[x]
    BY <1>1, <1>4, <1>5, <1>6 DEF PipeTypes
<1>8. PipeTypes'
    <2>1. exec' \in [Execs -> [task : Tasks \cup {NoTask}, outcome : Outcome,
                               step : {"free", "execute", "record", "process"}]]
        BY <1>1, <1>2 DEF PipeTypes
    <2>2. \A x \in Execs : exec'[x].step # "free" => exec'[x].task \in Tasks
        BY <1>1, <1>3, <1>4 DEF PipeTypes
    <2>. QED BY <1>1, <1>2, <1>7, <2>1, <2>2 DEF PipeTypes
<1>9. \A x \in Tasks : AddsUp(metrics'[x])
    BY <1>6, <1>7 DEF PipeInv
<1>10. Unrecorded' = Unrecorded \ {e} /\ e \in Unrecorded
    BY <1>2, <1>3 DEF Unrecorded, AtStep
<1>11. Cardinality(Unrecorded') = Cardinality(Unrecorded) - 1
    BY <1>10, WaitingAreFinite, FS_RemoveElement
<1>12. /\ Runs(metrics) \in [Tasks -> Nat] /\ Successes(metrics) \in [Tasks -> Nat]
       /\ Runs(metrics)[t] = metrics[t].total /\ Successes(metrics)[t] = metrics[t].success
       /\ metrics[t].total \in Nat /\ metrics[t].success \in Nat
    BY <1>1, <1>4 DEF PipeTypes, MonitorRecord, Runs, Successes
<1>13. Runs(metrics') = [Runs(metrics) EXCEPT ![t] = metrics[t].total + 1]
    <2>1. metrics'[t].total = metrics[t].total + 1
        BY <1>7 DEF Recorded
    <2>. QED BY <1>4, <1>7, <2>1 DEF Runs
<1>14. SumFunction(Runs(metrics')) = SumFunction(Runs(metrics)) + 1 /\ SumFunction(Runs(metrics)) \in Nat
    <2>1. metrics[t].total + 1 \in Nat
        BY <1>12
    <2>2. /\ SumFunction(Runs(metrics)) \in Nat
          /\ SumFunction(Runs(metrics')) = SumFunction(Runs(metrics)) - Runs(metrics)[t] + (metrics[t].total + 1)
        <3>. DEFINE f == Runs(metrics)
                    v == metrics[t].total + 1
        <3>0. f \in [Tasks -> Nat] /\ v \in Nat
            BY <1>12, <2>1
        <3>1. Runs(metrics') = [f EXCEPT ![t] = v]
            BY <1>13
        <3>. HIDE DEF f, v
        <3>2. SumFunction(f) \in Nat /\ SumFunction([f EXCEPT ![t] = v]) = SumFunction(f) - f[t] + v
            BY <1>0, <3>0, TasksAreFinite, SumOfUpdate
        <3>3. SumFunction(f) \in Nat /\ SumFunction(Runs(metrics')) = SumFunction(f) - f[t] + v
            BY <3>1, <3>2
        <3>. QED BY <3>3 DEF f, v
    <2>. QED BY <1>12, <2>2
<1>15. (SumFunction(Runs(metrics)) + Cardinality(Unrecorded) = runs)'
    <2>1. SumFunction(Runs(metrics)) + Cardinality(Unrecorded) = runs
        BY DEF PipeInv
    <2>. QED BY <1>2, <1>11, <1>14, <2>1, WaitingAreFinite
<1>16. ASSUME NEW n \in Names
       PROVE  reports'[n] + Cardinality(Unreported(n)') = SumFunctionOnSet(Successes(metrics'), OfName(n))
    <2>. DEFINE sum == SumFunctionOnSet(Successes(metrics), OfName(n))
                wait == Cardinality(Unreported(n))
    <2>1. reports[n] + wait = sum /\ reports[n] \in Nat /\ wait \in Nat /\ reports'[n] = reports[n]
        BY <1>1, <1>2, WaitingAreFinite DEF PipeInv, PipeTypes
    <2>3. CASE ok /\ t.name = n
        <3>1. Unreported(n)' = Unreported(n) \cup {e} /\ e \notin Unreported(n)
            BY <1>2, <1>3, <2>3 DEF Unreported, AtStep, ok
        <3>2. Cardinality(Unreported(n)') = wait + 1
            BY <3>1, WaitingAreFinite, FS_AddElement
        <3>3. metrics'[t].success = metrics[t].success + 1
            BY <1>7, <1>12, <2>3 DEF Recorded
        <3>4. Successes(metrics') = [Successes(metrics) EXCEPT ![t] = metrics[t].success + 1]
            BY <1>4, <1>7, <3>3 DEF Successes
        <3>5. metrics[t].success + 1 \in Nat
            BY <1>12
        <3>6. SumFunctionOnSet(Successes(metrics'), OfName(n)) = sum - metrics[t].success + (metrics[t].success + 1)
                /\ sum \in Nat
            <4>. DEFINE f == Successes(metrics)
                        v == metrics[t].success + 1
            <4>0. f \in [Tasks -> Nat] /\ v \in Nat /\ t.name = n
                BY <1>12, <2>3, <3>5
            <4>1. f[t] = metrics[t].success /\ Successes(metrics') = [f EXCEPT ![t] = v]
                BY <1>12, <3>4
            <4>. HIDE DEF f, v
            <4>2. /\ SumFunctionOnSet(f, OfName(n)) \in Nat
                  /\ SumFunctionOnSet([f EXCEPT ![t] = v], OfName(n)) = SumFunctionOnSet(f, OfName(n)) - f[t] + v
                BY <1>0, <4>0, SumOfName
            <4>3. SumFunctionOnSet(Successes(metrics'), OfName(n)) = SumFunctionOnSet(f, OfName(n)) - metrics[t].success + v
                BY <4>1, <4>2
            <4>. QED BY <4>2, <4>3 DEF f, v
        <3>. HIDE DEF sum, wait
        <3>. QED BY <1>12, <2>1, <3>2, <3>6
    <2>4. CASE ok /\ t.name # n
        <3>1. Unreported(n)' = Unreported(n)
            BY <1>2, <1>3, <2>4 DEF Unreported, AtStep, ok
        <3>3. metrics'[t].success = metrics[t].success + 1
            BY <1>7, <1>12, <2>4 DEF Recorded
        <3>4. Successes(metrics') = [Successes(metrics) EXCEPT ![t] = metrics[t].success + 1]
            BY <1>4, <1>7, <3>3 DEF Successes
        <3>5. metrics[t].success + 1 \in Nat
            BY <1>12
        <3>6. SumFunctionOnSet(Successes(metrics'), OfName(n)) = sum
            <4>. DEFINE f == Successes(metrics)
                        v == metrics[t].success + 1
            <4>0. f \in [Tasks -> Nat] /\ v \in Nat /\ t.name # n
                BY <1>12, <2>4, <3>5
            <4>1. Successes(metrics') = [f EXCEPT ![t] = v]
                BY <3>4
            <4>. HIDE DEF f, v
            <4>2. SumFunctionOnSet([f EXCEPT ![t] = v], OfName(n)) = SumFunctionOnSet(f, OfName(n))
                BY <1>0, <4>0, SumOfName
            <4>3. SumFunctionOnSet(Successes(metrics'), OfName(n)) = SumFunctionOnSet(f, OfName(n))
                BY <4>1, <4>2
            <4>. QED BY <4>3 DEF f
        <3>. QED BY <2>1, <3>1, <3>6
    <2>5. CASE ~ok
        <3>1. Unreported(n)' = Unreported(n)
            BY <1>2, <1>3, <2>5 DEF Unreported, AtStep, ok
        <3>3. metrics'[t].success = metrics[t].success
            BY <1>7, <1>12, <2>5 DEF Recorded
        <3>4. Successes(metrics') = Successes(metrics)
            BY <1>4, <1>7, <3>3 DEF Successes
        <3>. QED BY <2>1, <3>1, <3>4
    <2>. QED BY <2>3, <2>4, <2>5
<1>. QED BY <1>5, <1>8, <1>9, <1>15, <1>16 DEF PipeInv

(* A report moves a success from those not reported to the reports of its  *)
(* check (scheduler.go:521).                                               *)
LEMMA ReportKeeps ==
    ASSUME PipeInv, NEW e \in Execs, ProcessAndReport(e)
    PROVE  PipeInv'
<1>. DEFINE t == exec[e].task
<1>1. PipeTypes
    BY DEF PipeInv
<1>2. exec' = [exec EXCEPT ![e] = Free] /\ exec[e].step = "process" /\ runs' = runs /\ metrics' = metrics /\ totals' = totals
    BY DEF ProcessAndReport
<1>3. /\ \A x \in Execs : x # e => exec'[x] = exec[x]
      /\ exec'[e].step = "free"
    BY <1>1, <1>2 DEF PipeTypes, Free
<1>4. t \in Tasks /\ t.name \in Names
    BY <1>1, <1>2 DEF PipeTypes, Names
<1>. HIDE DEF t
<1>5. /\ exec[e].outcome = "error" => reports' = reports
      /\ exec[e].outcome # "error" => reports' = [reports EXCEPT ![t.name] = @ + 1]
    BY DEF ProcessAndReport, t
<1>6. PipeTypes'
    <2>1. Free \in [task : Tasks \cup {NoTask}, outcome : Outcome, step : {"free", "execute", "record", "process"}]
        BY DEF Free, Outcome
    <2>2. exec' \in [Execs -> [task : Tasks \cup {NoTask}, outcome : Outcome,
                               step : {"free", "execute", "record", "process"}]]
        BY <1>1, <1>2, <2>1 DEF PipeTypes
    <2>3. \A x \in Execs : exec'[x].step # "free" => exec'[x].task \in Tasks
        BY <1>1, <1>3 DEF PipeTypes
    <2>4. reports' \in [Names -> Nat]
        BY <1>1, <1>4, <1>5 DEF PipeTypes
    <2>. QED BY <1>1, <1>2, <2>2, <2>3, <2>4 DEF PipeTypes
<1>7. Unrecorded' = Unrecorded
    BY <1>2, <1>3 DEF Unrecorded, AtStep
<1>8. ASSUME NEW n \in Names
      PROVE  reports'[n] + Cardinality(Unreported(n)') = SumFunctionOnSet(Successes(metrics'), OfName(n))
    <2>. DEFINE wait == Cardinality(Unreported(n))
    <2>1. /\ reports[n] + wait = SumFunctionOnSet(Successes(metrics), OfName(n))
          /\ reports[n] \in Nat /\ wait \in Nat
        BY <1>1, WaitingAreFinite DEF PipeInv, PipeTypes
    <2>2. CASE exec[e].outcome # "error" /\ t.name = n
        <3>1. Unreported(n)' = Unreported(n) \ {e} /\ e \in Unreported(n)
            BY <1>2, <1>3, <2>2 DEF Unreported, AtStep, t
        <3>2. Cardinality(Unreported(n)') = wait - 1
            BY <3>1, WaitingAreFinite, FS_RemoveElement
        <3>3. reports'[n] = reports[n] + 1
            BY <1>1, <1>5, <2>2 DEF PipeTypes
        <3>. HIDE DEF wait
        <3>. QED BY <1>2, <2>1, <3>2, <3>3
    <2>3. CASE ~(exec[e].outcome # "error" /\ t.name = n)
        <3>1. Unreported(n)' = Unreported(n)
            BY <1>2, <1>3, <2>3 DEF Unreported, AtStep, t
        <3>2. reports'[n] = reports[n]
            BY <1>1, <1>5, <2>3 DEF PipeTypes
        <3>. QED BY <1>2, <2>1, <3>1, <3>2
    <2>. QED BY <2>2, <2>3
<1>. QED BY <1>2, <1>6, <1>7, <1>8 DEF PipeInv

(* Every step of any execution keeps the invariant (scheduler.go:442-609). *)
LEMMA PipeNextKeeps == PipeInv /\ [PipeNext]_pipeVars => PipeInv'
<1>. SUFFICES ASSUME PipeInv, [PipeNext]_pipeVars PROVE PipeInv'
    OBVIOUS
<1>1. ASSUME UNCHANGED pipeVars PROVE PipeInv'
    <2>1. /\ Unrecorded' = Unrecorded /\ \A n \in Names : Unreported(n)' = Unreported(n)
          /\ PipeTypes' = PipeTypes
        BY <1>1 DEF pipeVars, Unrecorded, Unreported, AtStep, PipeTypes
    <2>. QED BY <1>1, <2>1 DEF pipeVars, PipeInv
<1>. QED BY <1>1, BeginKeeps, ExecuteKeeps, RecordKeeps, ReportKeeps DEF PipeNext

(* Every execution is counted where it stands in every reachable state     *)
(* (monitor.go:64).                                                        *)
LEMMA PipeInvariant == PipeSpec => []PipeInv
BY PipeInitially, PipeNextKeeps, PTL DEF PipeSpec

(* For any configuration, any number of executions and however they        *)
(* interleave, the monitor's global statistics are the sums of its tasks', *)
(* and every execution begun is counted once or has yet to be              *)
(* (monitor.go:82, 172).                                                   *)
THEOREM StatisticsAddUp == PipeSpec => []MonitorAddsUp
<1>1. PipeInv => MonitorAddsUp
    <2>. SUFFICES ASSUME PipeInv PROVE MonitorAddsUp
        OBVIOUS
    <2>1. totals = Totals(metrics)
        BY DEF PipeInv
    <2>2. totals.executions = SumFunction(Runs(metrics))
        BY <2>1 DEF Totals, Runs
    <2>3. \A t \in Tasks : AddsUp(metrics[t])
        BY DEF PipeInv
    <2>4. SumFunction(Runs(metrics)) + Cardinality(Unrecorded) = runs
        BY DEF PipeInv
    <2>. QED BY <2>1, <2>2, <2>3, <2>4 DEF MonitorAddsUp, AddsUp, FailuresIn, Unrecorded
<1>. QED BY <1>1, PipeInvariant, PTL

(* Every recorded success of a check is reported once, and no failure is,  *)
(* however executions interleave (scheduler.go:475).                       *)
THEOREM SuccessesAreReported == PipeSpec => []ReportsMatchRuns
<1>1. PipeInv => ReportsMatchRuns
    BY DEF PipeInv, ReportsMatchRuns, Unreported, Successes, OfName
<1>. QED BY <1>1, PipeInvariant, PTL

-----------------------------------------------------------------------------
(* The aggregator: Aggregator.                                             *)

(* valid, as filterValidResults builds it from the first k results *)
Filter(rs, k, valid) ==
    valid = [i \in 0..k |-> IF i = 0 THEN <<>>
                            ELSE IF rs[i].kind \in {"data", "nan"} THEN Append(valid[i - 1], rs[i])
                            ELSE valid[i - 1]]

(* After k results the valid ones are at most k results                    *)
(* (aggregator.go:141).                                                    *)
LEMMA FilterTypes ==
    ASSUME NEW rs \in Seq(AggResult), NEW k \in 0..Len(rs), NEW valid, Filter(rs, k, valid)
    PROVE  valid[k] \in Seq(AggResult) /\ Len(valid[k]) <= k
<1> DEFINE Good(i) == valid[i] \in Seq(AggResult) /\ Len(valid[i]) <= i
           Bad == {i \in 0..k : ~Good(i)}
<1>1. k \in Nat /\ \A i \in 1..k : rs[i] \in AggResult
  OBVIOUS
<1>2. Good(0)
  <2>1. valid[0] = <<>>
    BY <1>1 DEF Filter
  <2> QED  BY <2>1
<1>3. ASSUME NEW i \in 1..k, Good(i - 1) PROVE Good(i)
  <2>1. valid[i] = IF rs[i].kind \in {"data", "nan"} THEN Append(valid[i - 1], rs[i]) ELSE valid[i - 1]
    <3>1. i \in 0..k /\ i # 0
      BY <1>1
    <3> QED  BY <3>1, Zenon DEF Filter
  <2>2. CASE rs[i].kind \in {"data", "nan"}
    <3>1. valid[i] = Append(valid[i - 1], rs[i])
      BY <2>1, <2>2
    <3> HIDE DEF Filter
    <3> QED  BY <1>1, <1>3, <3>1
  <2>3. CASE rs[i].kind \notin {"data", "nan"}
    BY <1>1, <1>3, <2>1, <2>3
  <2> QED  BY <2>2, <2>3
<1> HIDE DEF Good
<1>4. SUFFICES ASSUME Bad # {} PROVE FALSE
  BY <1>1 DEF Good
<1>5. PICK m \in Bad : \A i \in Bad : ~(<<i, m>> \in OpToRel(<, Nat))
  <2>1. Bad \subseteq Nat
    BY <1>1
  <2> HIDE DEF Bad
  <2> QED  BY <2>1, <1>4, WFMin, NatLessThanWellFounded
<1>6. m \in 1..k /\ ~Good(m)
  BY <1>1, <1>2
<1>7. m - 1 \in 0..k /\ m - 1 < m /\ m - 1 \in Nat /\ m \in Nat
  BY <1>1, <1>6
<1>8. Good(m - 1)
  BY <1>5, <1>7 DEF OpToRel
<1> QED  BY <1>3, <1>6, <1>8

(* The loop over the results ends with a list of valid ones                *)
(* (aggregator.go:145).                                                    *)
LEMMA FilterExists ==
    ASSUME NEW rs \in Seq(AggResult)
    PROVE  \E valid : Filter(rs, Len(rs), valid)
<1> DEFINE Good(k) == \E valid : Filter(rs, k, valid)
           Bad == {k \in Nat : ~Good(k)}
<1>1. Good(0)
  <2>1. Filter(rs, 0, [i \in 0..0 |-> <<>>])
    BY DEF Filter
  <2> QED  BY <2>1
<1>2. ASSUME NEW k \in Nat, Good(k) PROVE Good(k + 1)
  <2>1. PICK v : Filter(rs, k, v)
    BY <1>2
  <2> DEFINE Body(w, i) == IF i = 0 THEN <<>>
                           ELSE IF rs[i].kind \in {"data", "nan"} THEN Append(w[i - 1], rs[i]) ELSE w[i - 1]
             w == [i \in 0..(k + 1) |-> IF i \in 0..k THEN v[i] ELSE Body(v, i)]
  <2>2. \A i \in 0..k : v[i] = Body(v, i)
    BY <2>1 DEF Filter
  <2>3. \A i \in 0..k : w[i] = v[i]
    OBVIOUS
  <2>4. \A i \in 0..(k + 1) : w[i] = Body(v, i)
    BY <2>2
  <2> HIDE DEF w
  <2>5. \A i \in 0..(k + 1) : Body(w, i) = Body(v, i)
    BY <2>3
  <2>6. w = [i \in 0..(k + 1) |-> w[i]]
    BY DEF w
  <2>7. \A i \in 0..(k + 1) : w[i] = Body(w, i)
    BY <2>4, <2>5
  <2>8. w = [i \in 0..(k + 1) |-> Body(w, i)]
    BY <2>6, <2>7
  <2> QED  BY <2>8 DEF Filter
<1> HIDE DEF Good
<1>3. \A k \in Nat : Good(k)
  <2>1. SUFFICES ASSUME Bad # {} PROVE FALSE
    OBVIOUS
  <2>2. PICK m \in Bad : \A i \in Bad : ~(<<i, m>> \in OpToRel(<, Nat))
    <3>1. Bad \subseteq Nat
      OBVIOUS
    <3> HIDE DEF Bad
    <3> QED  BY <3>1, <2>1, WFMin, NatLessThanWellFounded
  <2>3. m \in Nat /\ m # 0 /\ ~Good(m)
    BY <1>1
  <2>4. m - 1 \in Nat /\ m - 1 < m /\ (m - 1) + 1 = m
    BY <2>3
  <2>5. Good(m - 1)
    BY <2>2, <2>4 DEF OpToRel
  <2> QED  BY <1>2, <2>3, <2>4, <2>5
<1> QED  BY <1>3 DEF Good

(* The usable results are results, no more than were given                 *)
(* (aggregator.go:152).                                                    *)
LEMMA UsableTypes ==
    ASSUME NEW rs \in Seq(AggResult)
    PROVE  Usable(rs) \in Seq(AggResult) /\ Len(Usable(rs)) <= Len(rs)
<1> DEFINE v == CHOOSE valid : Filter(rs, Len(rs), valid)
<1>1. Filter(rs, Len(rs), v)
  BY FilterExists
<1>2. Usable(rs) = v[Len(rs)]
  BY DEF Usable, Filter
<1> HIDE DEF v
<1>3. Len(rs) \in 0..Len(rs)
  OBVIOUS
<1> QED  BY <1>1, <1>2, <1>3, FilterTypes

(* The last points of any sorting are the newest ones given: their places  *)
(* are distinct places of what was given, and what is left out comes       *)
(* before them in the order of time (aggregator.go:97-105).                *)
LEMMA LastAreNewest ==
    ASSUME NEW given \in Seq(AggResult), NEW order \in Sorting(given),
           NEW k \in 0..Len(given), NEW p,
           p = [i \in 1..(Len(given) - k) |-> given[order[i + k]]]
    PROVE  NewestOf(p, given, Len(given) - k)
<1> DEFINE n == Len(given)
           m == n - k
           At(r) == {i \in 1..m : p[i] = r}
           Of(r) == {i \in 1..n : given[i] = r}
<1>1. /\ n \in Nat /\ k \in Nat /\ m \in Nat /\ DOMAIN given = 1..n
      /\ \A i \in 1..n : given[i] \in AggResult /\ given[i].time \in Nat
  BY DEF AggResult
<1>2. /\ order \in [1..n -> 1..n] /\ IsInjective(order)
      /\ \A i, j \in 1..n : i < j => given[order[i]].time <= given[order[j]].time
  BY <1>1 DEF Sorting
<1>3. /\ DOMAIN p = 1..m
      /\ \A i \in 1..m : i + k \in 1..n /\ p[i] = given[order[i + k]]
  BY <1>1
<1>4. Len(p) = m
  <2>1. p \in Seq(AggResult)
    BY <1>1, <1>2, <1>3
  <2> QED  BY <1>1, <1>3, <2>1
<1> HIDE DEF n, m
<1>5. \A i, j \in DOMAIN p : i < j => p[i].time <= p[j].time
  <2> TAKE i, j \in DOMAIN p
  <2> HAVE i < j
  <2>0. i < j
    OBVIOUS
  <2>1. i \in 1..m /\ j \in 1..m
    BY <1>3
  <2>2. i + k \in 1..n /\ j + k \in 1..n /\ p[i] = given[order[i + k]] /\ p[j] = given[order[j + k]]
    BY <1>3, <2>1
  <2>3. i + k < j + k
    <3>1. i \in Int /\ j \in Int /\ k \in Int
      BY <1>1, <2>1
    <3> QED  BY <2>0, <3>1
  <2> QED  BY <1>2, <2>2, <2>3
<1>6. \A r : IsFiniteSet(At(r)) /\ IsFiniteSet(Of(r))
  <2>1. IsFiniteSet(1..m) /\ IsFiniteSet(1..n)
    <3>1. 1 \in Int /\ m \in Int /\ n \in Int
      BY <1>1
    <3> QED  BY <3>1, FS_Interval
  <2>2. \A r : At(r) \in SUBSET (1..m) /\ Of(r) \in SUBSET (1..n)
    OBVIOUS
  <2> QED  BY <2>1, <2>2, FS_Subset
<1>7. \A r : Copies(p, r) = Cardinality(At(r)) /\ Copies(given, r) = Cardinality(Of(r))
  BY <1>1, <1>3 DEF Copies
<1>8. ASSUME NEW r
      PROVE  /\ Cardinality(At(r)) <= Cardinality(Of(r))
             /\ \/ Cardinality(At(r)) = Cardinality(Of(r))
                \/ \E j \in Of(r) : \A i \in At(r) : order[i + k] # j
  <2> DEFINE g == [i \in At(r) |-> order[i + k]]
  <2>1. g \in [At(r) -> Of(r)]
    BY <1>2, <1>3
  <2>2. \A i, j \in At(r) : g[i] = g[j] => i = j
    <3> TAKE i, j \in At(r)
    <3> HAVE g[i] = g[j]
    <3>1. i + k \in 1..n /\ j + k \in 1..n /\ order[i + k] = order[j + k]
      BY <1>3
    <3>2. i + k = j + k
      BY <1>2, <3>1 DEF IsInjective
    <3> QED  BY <1>1, <3>2
  <2> HIDE DEF g, At, Of
  <2>3. g \in Injection(At(r), Of(r))
    BY <2>1, <2>2 DEF Injection, IsInjective
  <2>4. /\ Cardinality(At(r)) <= Cardinality(Of(r))
        /\ g \in Surjection(At(r), Of(r)) => Cardinality(At(r)) = Cardinality(Of(r))
    BY <1>6, <2>3, FS_Injection
  <2>5. g \in Surjection(At(r), Of(r)) \/ \E j \in Of(r) : \A i \in At(r) : g[i] # j
    BY <2>1 DEF Surjection
  <2>6. \A i \in At(r) : g[i] = order[i + k]
    BY DEF g
  <2> QED  BY <2>4, <2>5, <2>6
<1>9. \A r \in ToSet(p) : Copies(p, r) <= Copies(given, r)
  <2> HIDE DEF At, Of
  <2> QED  BY <1>7, <1>8
<1>10. ASSUME NEW r, Copies(p, r) < Copies(given, r), NEW i \in DOMAIN p
       PROVE  r.time <= p[i].time
  <2>1. Cardinality(At(r)) # Cardinality(Of(r))
    <3>1. Cardinality(Of(r)) \in Nat /\ Cardinality(At(r)) \in Nat
      BY <1>6, FS_CardinalityType
    <3> HIDE DEF At, Of
    <3> QED  BY <1>7, <1>10, <3>1
  <2>2. PICK j \in Of(r) : \A x \in At(r) : order[x + k] # j
    <3> HIDE DEF At, Of
    <3> QED  BY <1>8, <2>1
  <2>3. j \in 1..n /\ given[j] = r
    OBVIOUS
  <2>4. PICK l \in 1..n : order[l] = j
    <3>1. j \in 1..n
      BY <2>3
    <3> QED  BY <1>1, <1>2, <3>1, OntoItself
  <2>5. l <= k
    <3> SUFFICES ASSUME k < l PROVE FALSE
      BY <1>1
    <3>1. l - k \in 1..m /\ (l - k) + k = l
      BY <1>1 DEF m
    <3>2. p[l - k] = r
      BY <1>3, <2>3, <2>4, <3>1
    <3> QED  BY <2>2, <2>4, <3>1, <3>2
  <2>6. i \in 1..m /\ i + k \in 1..n /\ l < i + k
    BY <1>1, <1>3, <2>5
  <2>7. given[order[l]].time <= given[order[i + k]].time
    BY <1>2, <2>6
  <2> QED  BY <1>3, <2>3, <2>4, <2>6, <2>7
<1> QED  BY <1>4, <1>5, <1>9, <1>10 DEF NewestOf, m, n

(* What Aggregate keeps of a sorting is as long as the limit allows and    *)
(* the newest of what was given (aggregator.go:102).                       *)
LEMMA NewestKept ==
    ASSUME NEW given \in Seq(AggResult), NEW sorted \in SortByTime(given), NEW max \in Nat
    PROVE  LET count == IF max \in 1..Len(given) THEN max ELSE Len(given)
           IN  /\ Newest(sorted, max) \in Seq(AggResult)
               /\ NewestOf(Newest(sorted, max), given, count)
<1>1. PICK order \in Sorting(given) : sorted = [i \in DOMAIN given |-> given[order[i]]]
  BY DEF SortByTime
<1> DEFINE n == Len(given)
           count == IF max \in 1..n THEN max ELSE n
           k == n - count
           p == [i \in 1..(n - k) |-> given[order[i + k]]]
<1>2. n \in Nat /\ DOMAIN given = 1..n /\ \A i \in 1..n : given[i] \in AggResult
  OBVIOUS
<1> HIDE DEF n
<1>3. order \in [1..n -> 1..n]
  BY <1>2 DEF Sorting
<1>4. /\ sorted = [i \in 1..n |-> given[order[i]]]
      /\ sorted \in [1..n -> AggResult]
  BY <1>1, <1>2, <1>3
<1>5. sorted \in Seq(AggResult) /\ Len(sorted) = n /\ \A i \in 1..n : sorted[i] = given[order[i]]
  BY <1>2, <1>4
<1>6. count \in 0..n /\ k \in 0..n /\ n - k = count
  BY <1>2
<1>7. Newest(sorted, max) = p /\ Newest(sorted, max) \in Seq(AggResult)
  <2>1. CASE max \in 1..n /\ max # n
    <3>1. count = max /\ k = n - max /\ max > 0 /\ n > max /\ n - k = max
      BY <1>2, <2>1
    <3> HIDE DEF k
    <3>2. Newest(sorted, max) = SubSeq(sorted, k + 1, n)
      <4>1. n - max + 1 = k + 1
        BY <3>1
      <4> QED  BY <1>5, <3>1, <4>1 DEF Newest
    <3> DEFINE q == SubSeq(sorted, k + 1, n)
    <3>3. k \in Nat /\ k + 1 \in 1..n /\ n - (k + 1) + 1 = max
      BY <1>2, <1>6, <3>1
    <3>4. q \in Seq(AggResult) /\ DOMAIN q = 1..max /\ \A i \in 1..max : q[i] = sorted[i + k]
      BY <1>2, <1>5, <3>3
    <3>5. \A i \in 1..max : i + k \in 1..n
      BY <1>2, <3>1, <3>3
    <3>6. \A i \in 1..max : q[i] = p[i]
      BY <1>5, <3>1, <3>4, <3>5
    <3> HIDE DEF q
    <3>7. q = [i \in 1..max |-> q[i]]
      <4>1. Len(q) = max
        BY <3>4
      <4>2. q \in [1..max -> AggResult]
        BY <3>4, <4>1
      <4> QED  BY <4>2
    <3>8. p = [i \in 1..max |-> p[i]]
      BY <3>1
    <3> HIDE DEF p
    <3>9. q = p
      BY <3>6, <3>7, <3>8
    <3> QED  BY <3>2, <3>4, <3>9 DEF q
  <2>2. CASE max \notin 1..n \/ max = n
    <3>1. Newest(sorted, max) = sorted
      BY <1>2, <1>5, <2>2 DEF Newest
    <3>2. k = 0 /\ n - k = n
      BY <1>2, <2>2
    <3> HIDE DEF k
    <3>3. \A i \in 1..n : p[i] = sorted[i]
      BY <1>2, <1>5, <3>2
    <3>4. p = [i \in 1..n |-> p[i]]
      BY <3>2
    <3> HIDE DEF p
    <3>5. sorted = p
      BY <1>4, <3>3, <3>4
    <3> QED  BY <1>5, <3>1, <3>5
  <2> QED  BY <2>1, <2>2
<1> HIDE DEF p, k
<1>8. NewestOf(p, given, n - k)
  BY <1>6, LastAreNewest DEF p, n
<1> QED  BY <1>6, <1>7, <1>8 DEF n

(* Every list of points can be sorted, so that Aggregate is never kept     *)
(* from ending: a point's place is the number of those up to it            *)
(* (aggregator.go:97).                                                     *)
LEMMA SortingExists ==
    ASSUME NEW given \in Seq(AggResult)
    PROVE  SortByTime(given) # {}
<1> DEFINE n == Len(given)
           Before(i, j) == given[i].time < given[j].time \/ (given[i].time = given[j].time /\ i < j)
           UpTo(j) == {i \in 1..n : Before(i, j) \/ i = j}
           rank == [j \in 1..n |-> Cardinality(UpTo(j))]
<1>1. n \in Nat /\ DOMAIN given = 1..n /\ \A i \in 1..n : given[i].time \in Nat
  BY DEF AggResult
<1> HIDE DEF n
<1>2. IsFiniteSet(1..n) /\ Cardinality(1..n) = n
  BY <1>1, FS_Interval
<1>3. \A j \in 1..n : UpTo(j) \in SUBSET (1..n) /\ j \in UpTo(j)
  OBVIOUS
<1>4. \A i, j \in 1..n : Before(i, j) => UpTo(i) \subseteq UpTo(j) /\ j \notin UpTo(i)
  BY <1>1
<1>5. \A i, j \in 1..n : i # j => Before(i, j) \/ Before(j, i)
  BY <1>1
<1> HIDE DEF UpTo, Before
<1>6. \A j \in 1..n : /\ IsFiniteSet(UpTo(j)) /\ Cardinality(UpTo(j)) \in Nat
                      /\ Cardinality(UpTo(j)) <= n /\ Cardinality(UpTo(j)) # 0
  <2> TAKE j \in 1..n
  <2>1. IsFiniteSet(UpTo(j)) /\ Cardinality(UpTo(j)) <= n
    BY <1>2, <1>3, FS_Subset
  <2>2. Cardinality(UpTo(j)) # 0
    BY <1>3, <2>1, FS_EmptySet
  <2> QED  BY <2>1, <2>2, FS_CardinalityType
<1>7. rank \in [1..n -> 1..n]
  BY <1>1, <1>6
<1>8. \A i, j \in 1..n : Before(i, j) => rank[i] < rank[j]
  <2> TAKE i, j \in 1..n
  <2> HAVE Before(i, j)
  <2>1. UpTo(i) \in SUBSET UpTo(j) /\ UpTo(i) # UpTo(j)
    BY <1>3, <1>4
  <2>2. Cardinality(UpTo(i)) <= Cardinality(UpTo(j)) /\ Cardinality(UpTo(i)) # Cardinality(UpTo(j))
    BY <1>6, <2>1, FS_Subset
  <2> QED  BY <1>6, <2>2
<1> HIDE DEF rank
<1>9. \A i, j \in 1..n : rank[i] = rank[j] => i = j
  <2> TAKE i, j \in 1..n
  <2>1. rank[i] \in Nat /\ rank[j] \in Nat
    BY <1>1, <1>7
  <2> QED  BY <1>5, <1>8, <2>1
<1>10. \A y \in 1..n : \E x \in 1..n : rank[x] = y
  <2>1. IsInjective(rank)
    BY <1>7, <1>9 DEF IsInjective
  <2> QED  BY <1>1, <1>7, <2>1, OntoItself
<1> DEFINE order == [y \in 1..n |-> CHOOSE x \in 1..n : rank[x] = y]
<1>11. \A y \in 1..n : order[y] \in 1..n /\ rank[order[y]] = y
  BY <1>10
<1>12. order \in [1..n -> 1..n]
  BY <1>11
<1> HIDE DEF order
<1>13. IsInjective(order)
  BY <1>11, <1>12 DEF IsInjective
<1>14. ASSUME NEW i \in 1..n, NEW j \in 1..n, i < j
       PROVE  given[order[i]].time <= given[order[j]].time
  <2>1. ~Before(order[j], order[i])
    <3>1. ~(rank[order[j]] < rank[order[i]])
      BY <1>1, <1>11, <1>14
    <3> QED  BY <1>8, <1>12, <3>1
  <2>2. order[i] # order[j]
    <3>1. i # j
      BY <1>1, <1>14
    <3> QED  BY <1>11, <3>1
  <2>3. Before(order[i], order[j])
    BY <1>5, <1>12, <2>1, <2>2
  <2>4. given[order[i]].time \in Nat /\ given[order[j]].time \in Nat
    BY <1>1, <1>12
  <2> QED  BY <2>3, <2>4 DEF Before
<1>15. order \in Sorting(given)
  BY <1>1, <1>12, <1>13, <1>14 DEF Sorting
<1> QED  BY <1>15 DEF SortByTime

(* The limit is a number, and the aggregate is as promised. *)
AggInv == settings.max \in Nat /\ AggregateKeepsNewest

(* Aggregate replaces the entry by the newest of its results or fails,     *)
(* Clean forgets the entry, nothing else touches it (aggregator.go:66,     *)
(* 237).                                                                   *)
LEMMA AggNextKeeps == AggInv /\ [AggNext]_aggVars => AggInv'
<1> SUFFICES ASSUME AggInv, [AggNext]_aggVars PROVE AggInv'
  OBVIOUS
<1>1. CASE aggregate' = aggregate /\ latest' = latest /\ settings' = settings
  BY <1>1 DEF AggInv, AggregateKeepsNewest
<1>2. CASE Clean
  BY <1>2 DEF Clean, AggInv, AggregateKeepsNewest
<1>3. ASSUME NEW rs \in AggResults, Aggregate(rs) PROVE AggInv'
  <2> DEFINE given == Usable(rs)
             count == IF settings.max \in 1..Len(given) THEN settings.max ELSE Len(given)
  <2>1. given \in Seq(AggResult)
    <3>1. rs \in Seq(AggResult)
      BY AggregatorAssumption DEF AggResults
    <3> QED  BY <3>1, UsableTypes
  <2>2. PICK sorted \in SortByTime(given) :
            /\ aggregate'.points = Newest(sorted, settings.max)
            /\ aggregate'.count = Len(Newest(sorted, settings.max))
            /\ aggregate'.from = rs
            /\ Marshals(aggregate'.points)
    BY <1>3 DEF Aggregate
  <2>3. NewestOf(aggregate'.points, given, count)
    BY <2>1, <2>2, NewestKept DEF AggInv
  <2>4. aggregate'.count = count
    BY <2>2, <2>3 DEF NewestOf
  <2>5. latest' = rs /\ settings' = settings
    BY <1>3 DEF Aggregate
  <2> HIDE DEF given
  <2>6. aggregate'.from = latest' /\ NewestOf(aggregate'.points, given, aggregate'.count)
    BY <2>2, <2>3, <2>4, <2>5
  <2>7. AggregateKeepsNewest'
    BY <2>2, <2>4, <2>5, <2>6 DEF AggregateKeepsNewest, NewestOf, Copies, Marshals, given
  <2> QED  BY <2>5, <2>7 DEF AggInv
<1>4. ASSUME NEW rs \in AggResults, AggregateFails(rs) PROVE AggInv'
  BY <1>1, <1>4 DEF AggregateFails, aggVars
<1>5. CASE AggTick
  BY <1>1, <1>5 DEF AggTick
<1>6. CASE UNCHANGED aggVars
  BY <1>1, <1>6 DEF aggVars
<1> QED  BY <1>2, <1>3, <1>4, <1>5, <1>6 DEF AggNext

(* Whatever results are given, in whatever order and with whatever limit,  *)
(* an aggregate holds the newest points of the results of the last call    *)
(* that succeeded, in the order of time, and a call that fails, for lack   *)
(* of data or because of data that cannot be marshalled, leaves it as it   *)
(* was (aggregator.go:66-138).                                             *)
THEOREM AggregatesAreNewest == AggSpec => []AggregateKeepsNewest
<1>1. AggInit => AggInv
  BY DEF AggInit, AggInv, AggregateKeepsNewest
<1> QED  BY <1>1, AggNextKeeps, PTL DEF AggSpec, AggInv

-----------------------------------------------------------------------------
(* The types of the pipe, the memory of the scopes, the monitor's counts   *)
(* and the aggregate, with the bounds that no step exceeds.                *)

(* The same without the fairness, which no invariant needs *)
LEMMA LogTypesKept == LogInit /\ [][LogNext]_logVars => []LogTypeOK
<1>1. LogInv => LogTypeOK
    <2>. SUFFICES ASSUME LogInv PROVE LogTypeOK
        OBVIOUS
    <2>1. LogTypes /\ MaxTotal \in Nat
        BY LogAssumption DEF LogInv
    <2>2. component \in DOMAIN Parts /\ Len(done) \in Nat /\ Len(done) <= Len(Parts[component])
        BY <2>1 DEF LogTypes
    <2>3. Len(Parts[component]) \in 3..4
        BY <2>2, PartsAre
    <2>4. Len(done) <= 4
        <3>. DEFINE n == Len(done)
                    k == Len(Parts[component])
        <3>1. n \in Nat /\ n <= k /\ k \in 3..4
            BY <2>2, <2>3
        <3>. HIDE DEF n, k
        <3>2. n <= 4
            BY <3>1
        <3>. QED BY <3>2 DEF n
    <2>5. {total, written, kept, blank} \subseteq 0..MaxTotal
        BY <2>1, LogAssumption DEF LogTypes
    <2>. QED BY <2>1, <2>4, <2>5 DEF LogTypes, LogTypeOK
<1>. QED BY <1>1, LogInitially, LogNextKeeps, PTL

(* At most four parts are collected, and no line is counted twice          *)
(* (k8s_components.go:126-255 and 496-569).                                *)
THEOREM LogTypesHold == LogSpec => []LogTypeOK
BY LogTypesKept, PTL DEF LogSpec

(* The checker's cache stays within its capacity (checker.go:229-291).     *)
ScopeBounds == Len(checkerCache) <= Capacity /\ questions \in 0..MaxQuestions

(* A question moves an answer to the end, forgets the oldest, or adds one  *)
(* while there is room.                                                    *)
LEMMA ScopeBoundsKept == ScopeInv /\ ScopeBounds /\ [ScopeNext]_scopeVars => ScopeBounds'
<1>. SUFFICES ASSUME ScopeInv, ScopeBounds, [ScopeNext]_scopeVars PROVE ScopeBounds'
    OBVIOUS
<1>. USE ScopeAssumption
<1>1. checkerCache \in Seq(Answer) /\ Len(checkerCache) \in Nat /\ Len(checkerCache) <= Capacity
    BY DEF ScopeInv, ScopeBounds
<1>2. Ask => questions' \in 0..MaxQuestions
    BY DEF Ask, ScopeBounds
<1>3. ASSUME NEW i \in Id, NEW s \in Scope, ValidateCollector(i, s) PROVE ScopeBounds'
    BY <1>2, <1>3 DEF ValidateCollector, ScopeBounds
<1>4. ASSUME NEW i \in Id, GetDataType(i) PROVE ScopeBounds'
    BY <1>2, <1>4 DEF GetDataType, ScopeBounds
<1>5. ASSUME NEW c \in CheckName, NEW list \in List, ShouldCollectLocally(c, list) PROVE ScopeBounds'
    <2>1. questions' \in 0..MaxQuestions
        BY <1>2, <1>5 DEF ShouldCollectLocally
    <2>2. ASSUME NEW p \in DOMAIN checkerCache, checkerCache' = Touched(p)
          PROVE  Len(checkerCache') <= Capacity
        <3>1. p \in 1..Len(checkerCache) /\ checkerCache[p] \in Answer
            BY <1>1
        <3>2. RemoveAt(checkerCache, p) \in Seq(Answer)
                /\ Len(RemoveAt(checkerCache, p)) = Len(checkerCache) - 1
            BY <1>1, <3>1, RemoveAtFacts
        <3>3. Len(checkerCache') = Len(checkerCache)
            BY <1>1, <2>2, <3>1, <3>2 DEF Touched
        <3>. QED BY <1>1, <3>3
    <2>3. ASSUME checkerCache' = Extended(Fresh(c, list)) PROVE Len(checkerCache') <= Capacity
        <3>1. CASE Len(checkerCache) < Capacity
            <4>1. checkerCache' = Append(checkerCache, Fresh(c, list))
                BY <2>3, <3>1 DEF Extended
            <4>2. Len(checkerCache') = Len(checkerCache) + 1
                BY <1>1, <4>1
            <4>. QED BY <1>1, <3>1, <4>2
        <3>2. CASE ~(Len(checkerCache) < Capacity)
            <4>1. checkerCache' = Append(Tail(checkerCache), Fresh(c, list))
                BY <2>3, <3>2 DEF Extended
            <4>2. checkerCache # <<>> /\ Tail(checkerCache) \in Seq(Answer)
                    /\ Len(Tail(checkerCache)) = Len(checkerCache) - 1
                BY <1>1, <3>2
            <4>3. Len(checkerCache') = Len(checkerCache)
                BY <1>1, <4>1, <4>2
            <4>. QED BY <1>1, <4>3
        <3>. QED BY <3>1, <3>2
    <2>. QED BY <1>5, <2>1, <2>2, <2>3 DEF ShouldCollectLocally, ScopeBounds
<1>6. ASSUME ClearCache PROVE ScopeBounds'
    <2>1. questions' = questions /\ (checkerCache' = checkerCache \/ Len(checkerCache') = 0)
        BY <1>6 DEF ClearCache
    <2>. QED BY <2>1 DEF ScopeBounds
<1>7. ASSUME UNCHANGED scopeVars PROVE ScopeBounds'
    BY <1>7 DEF scopeVars, ScopeBounds
<1>. QED BY <1>3, <1>4, <1>5, <1>6, <1>7 DEF ScopeNext

(* Every remembered answer is one of the answers there are, and no more    *)
(* are remembered than there is room for (checker.go:229-291).             *)
THEOREM ScopeTypesHold == ScopeSpec => []ScopeTypeOK
<1>1. ScopeInit => ScopeBounds
    <2>. SUFFICES ASSUME ScopeInit PROVE ScopeBounds
        OBVIOUS
    <2>1. Len(checkerCache) = 0 /\ questions = 0
        BY DEF ScopeInit
    <2>. QED BY <2>1, ScopeAssumption DEF ScopeBounds
<1>2. ScopeInv /\ ScopeBounds => ScopeTypeOK
    BY DEF ScopeInv, ScopeBounds, ScopeTypeOK, Answer
<1>. QED BY <1>1, <1>2, ScopeBoundsKept, ScopeInvariant, PTL DEF ScopeSpec

(* No more executions begin than the bound allows.                         *)
RunsBounded == runs <= MaxRuns

(* Only the beginning of an execution counts one. *)
LEMMA RunsStayBounded == PipeInv /\ RunsBounded /\ [PipeNext]_pipeVars => RunsBounded'
<1>. SUFFICES ASSUME PipeInv, RunsBounded, [PipeNext]_pipeVars PROVE RunsBounded'
    OBVIOUS
<1>1. runs \in Nat /\ MaxRuns \in Nat
    BY PipelineAssumption DEF PipeInv, PipeTypes
<1>2. (runs < MaxRuns /\ runs' = runs + 1) \/ runs' = runs
    BY DEF PipeNext, pipeVars, BeginExec, Execute, RecordResult, ProcessAndReport
<1>. QED BY <1>1, <1>2 DEF RunsBounded

(* The monitor counts no execution twice: a task's successes and failures, *)
(* and the executions of all tasks, are at most those that have begun      *)
(* (monitor.go:68-102, 174-208).                                           *)
LEMMA CountsBounded ==
    ASSUME PipeInv
    PROVE  /\ SumFunction(Runs(metrics)) \in 0..runs
           /\ \A t \in Tasks : /\ metrics[t].total \in 0..runs
                               /\ metrics[t].success \in 0..metrics[t].total
                               /\ metrics[t].failed \in 0..metrics[t].total
<1>1. runs \in Nat /\ SumFunction(Runs(metrics)) + Cardinality(Unrecorded) = runs
    BY DEF PipeInv, PipeTypes
<1>2. \A t \in Tasks :
        /\ metrics[t].total \in Nat /\ metrics[t].success \in Nat /\ metrics[t].failed \in Nat
        /\ metrics[t].success + metrics[t].failed = metrics[t].total
    BY DEF PipeInv, PipeTypes, MonitorRecord, AddsUp
<1>3. Runs(metrics) \in [Tasks -> Nat] /\ \A t \in Tasks : Runs(metrics)[t] = metrics[t].total
    BY <1>2 DEF Runs
<1>. DEFINE whole == SumFunction(Runs(metrics))
<1>4. Tasks # {} => whole \in Nat
    <2>. SUFFICES ASSUME NEW t \in Tasks PROVE whole \in Nat
        OBVIOUS
    <2>. QED BY <1>3, TasksAreFinite, SumOfUpdate
<1>5. Tasks = {} => whole \in Nat
    <2>. SUFFICES ASSUME Tasks = {} PROVE whole \in Nat
        OBVIOUS
    <2>1. Runs(metrics) \in [Tasks -> {0}]
        BY <1>3
    <2>2. whole = 0
        BY <2>1, TasksAreFinite, SumOfZeros
    <2>. QED BY <2>2
<1>6. whole \in Nat
    BY <1>4, <1>5
<1>7. whole \in 0..runs
    <2>. DEFINE n == Cardinality(Unrecorded)
    <2>1. n \in Nat /\ whole + n = runs
        BY <1>1, WaitingAreFinite
    <2>. HIDE DEF whole, n
    <2>. QED BY <1>1, <1>6, <2>1
<1>8. ASSUME NEW t \in Tasks
      PROVE  /\ metrics[t].total \in 0..runs
             /\ metrics[t].success \in 0..metrics[t].total
             /\ metrics[t].failed \in 0..metrics[t].total
    <2>1. Runs(metrics)[t] <= whole
        BY <1>3, TasksAreFinite, SumOfUpdate
    <2>. HIDE DEF whole
    <2>2. metrics[t].total \in 0..runs
        BY <1>1, <1>2, <1>3, <1>7, <2>1
    <2>. QED BY <1>2, <2>2
<1>. QED BY <1>7, <1>8

(* So are the successes and failures of all tasks, and the successes of    *)
(* those of one name.                                                      *)
LEMMA SuccessesBounded ==
    ASSUME PipeInv
    PROVE  /\ SumFunction(Successes(metrics)) \in 0..runs
           /\ SumFunction([t \in Tasks |-> metrics[t].failed]) \in 0..runs
           /\ \A n \in Names : SumFunctionOnSet(Successes(metrics), OfName(n)) \in 0..runs
<1>. DEFINE failures == [t \in Tasks |-> metrics[t].failed]
<1>1. runs \in Nat /\ SumFunction(Runs(metrics)) \in 0..runs
    BY CountsBounded DEF PipeInv, PipeTypes
<1>2. \A t \in Tasks : /\ metrics[t].total \in Nat
                       /\ metrics[t].success \in Nat /\ metrics[t].success <= metrics[t].total
                       /\ metrics[t].failed \in Nat /\ metrics[t].failed <= metrics[t].total
    BY <1>1, CountsBounded
<1>3. /\ Runs(metrics) \in [Tasks -> Nat] /\ Successes(metrics) \in [Tasks -> Nat]
      /\ failures \in [Tasks -> Nat]
      /\ \A t \in Tasks : Successes(metrics)[t] <= Runs(metrics)[t] /\ failures[t] <= Runs(metrics)[t]
    BY <1>2 DEF Runs, Successes
<1>. HIDE DEF failures
<1>4. /\ SumFunction(Successes(metrics)) <= SumFunction(Runs(metrics))
      /\ SumFunction(failures) <= SumFunction(Runs(metrics))
    BY <1>3, TasksAreFinite, SumIsMonotone
<1>5. /\ SumFunction(Successes(metrics)) = SumFunctionOnSet(Successes(metrics), Tasks)
      /\ SumFunction(failures) = SumFunctionOnSet(failures, Tasks)
    <2>1. DOMAIN Successes(metrics) = Tasks /\ DOMAIN failures = Tasks
        BY <1>3
    <2>. QED BY <2>1 DEF SumFunction
<1>6. SumFunction(Successes(metrics)) \in Nat /\ SumFunction(failures) \in Nat
    BY <1>3, <1>5, TasksAreFinite, SumIsNat
<1>7. ASSUME NEW n \in Names PROVE SumFunctionOnSet(Successes(metrics), OfName(n)) \in 0..runs
    <2>1. OfName(n) \in SUBSET Tasks /\ IsFiniteSet(OfName(n))
        BY TasksAreFinite, FS_Subset DEF OfName
    <2>2. SumFunctionOnSet(Successes(metrics), OfName(n)) \in Nat
        BY <1>3, <2>1, SumIsNat
    <2>3. SumFunctionOnSet(Successes(metrics), OfName(n)) <= SumFunction(Successes(metrics))
        BY <1>3, <1>5, <2>1, TasksAreFinite, SumOfPart
    <2>. QED BY <1>1, <1>4, <1>6, <2>2, <2>3
<1>. QED BY <1>1, <1>4, <1>6, <1>7 DEF failures

(* No count of the monitor, and no number of reports, exceeds the number   *)
(* of executions (monitor.go:68-102, 174-208, scheduler.go:521-609).       *)
THEOREM PipeTypesHold == PipeSpec => []PipeTypeOK
<1>1. PipeInit => RunsBounded
    BY PipelineAssumption DEF PipeInit, RunsBounded
<1>2. PipeInv /\ RunsBounded => PipeTypeOK
    <2>. SUFFICES ASSUME PipeInv, RunsBounded PROVE PipeTypeOK
        OBVIOUS
    <2>1. runs \in Nat /\ MaxRuns \in Nat /\ runs <= MaxRuns
        BY PipelineAssumption DEF PipeInv, PipeTypes, RunsBounded
    <2>2. \A n \in 0..runs : n \in 0..MaxRuns
        BY <2>1
    <2>3. metrics \in [Tasks -> [total : 0..MaxRuns, success : 0..MaxRuns, failed : 0..MaxRuns,
                                 recent : Seq(BOOLEAN)]]
        <3>1. metrics \in [Tasks -> MonitorRecord]
            BY DEF PipeInv, PipeTypes
        <3>2. ASSUME NEW t \in Tasks
              PROVE  metrics[t] \in [total : 0..MaxRuns, success : 0..MaxRuns, failed : 0..MaxRuns,
                                     recent : Seq(BOOLEAN)]
            <4>1. /\ metrics[t].total \in 0..runs
                  /\ metrics[t].success \in 0..metrics[t].total
                  /\ metrics[t].failed \in 0..metrics[t].total
                BY CountsBounded
            <4>2. /\ metrics[t].total \in 0..MaxRuns
                  /\ metrics[t].success \in 0..MaxRuns
                  /\ metrics[t].failed \in 0..MaxRuns
                BY <2>1, <4>1
            <4>. QED BY <3>1, <4>2 DEF MonitorRecord
        <3>. QED BY <3>1, <3>2
    <2>4. totals \in [tasks : 0..Cardinality(Tasks), executions : 0..MaxRuns,
                       successes : 0..MaxRuns, failures : 0..MaxRuns]
        <3>1. totals = Totals(metrics)
            BY DEF PipeInv
        <3>. DEFINE T == {t \in Tasks : metrics[t] # NoMetrics}
        <3>2. IsFiniteSet(T) /\ Cardinality(T) <= Cardinality(Tasks)
            BY TasksAreFinite, FS_Subset
        <3>3. Cardinality(T) \in Nat /\ Cardinality(Tasks) \in Nat
            BY <3>2, TasksAreFinite, FS_CardinalityType
        <3>4. Cardinality(T) \in 0..Cardinality(Tasks)
            <4>. DEFINE n == Cardinality(T)
            <4>1. n \in Nat /\ n <= Cardinality(Tasks) /\ Cardinality(Tasks) \in Nat
                BY <3>2, <3>3
            <4>. HIDE DEF n
            <4>2. n \in 0..Cardinality(Tasks)
                BY <4>1
            <4>. QED BY <4>2 DEF n
        <3>5. /\ SumFunction(Runs(metrics)) \in 0..MaxRuns
              /\ SumFunction(Successes(metrics)) \in 0..MaxRuns
              /\ SumFunction([t \in Tasks |-> metrics[t].failed]) \in 0..MaxRuns
            BY <2>2, CountsBounded, SuccessesBounded
        <3>. QED BY <3>1, <3>4, <3>5 DEF Totals, Runs, Successes
    <2>5. reports \in [Names -> 0..MaxRuns]
        <3>1. reports \in [Names -> Nat]
            BY DEF PipeInv, PipeTypes
        <3>2. ASSUME NEW n \in Names PROVE reports[n] \in 0..MaxRuns
            <4>. DEFINE made == reports[n]
                        open == Cardinality(Unreported(n))
                        sum == SumFunctionOnSet(Successes(metrics), OfName(n))
            <4>1. open \in Nat /\ sum \in 0..MaxRuns /\ made \in Nat
                BY <2>2, <3>1, WaitingAreFinite, SuccessesBounded
            <4>2. made + open = sum
                BY DEF PipeInv
            <4>. HIDE DEF made, open, sum
            <4>3. made \in 0..MaxRuns
                BY <2>1, <4>1, <4>2
            <4>. QED BY <4>3 DEF made
        <3>. QED BY <3>1, <3>2
    <2>. QED BY <2>1, <2>3, <2>4, <2>5 DEF PipeTypeOK, PipeInv, PipeTypes
<1>. QED BY <1>1, <1>2, RunsStayBounded, PipeInvariant, PTL DEF PipeSpec

(* The aggregate before the first call and after cleaning up *)
LEMMA NoAggregateFits ==
  /\ NoAggregate.points \in Seq(AggResult) /\ NoAggregate.count <= MaxResults
  /\ NoAggregate.at \in 0..MaxTime /\ NoAggregate.from \in AggResults /\ <<>> \in AggResults
<1>1. NoAggregate.points = <<>> /\ NoAggregate.count = 0 /\ NoAggregate.at = 0 /\ NoAggregate.from = <<>>
  BY DEF NoAggregate
<1>2. <<>> \in [1..0 -> AggResult] /\ 0 \in 0..MaxResults
  BY AggregatorAssumption
<1>3. <<>> \in AggResults
  BY <1>2, Zenon DEF AggResults
<1>4. <<>> \in Seq(AggResult)
  OBVIOUS
<1> QED  BY <1>1, <1>3, <1>4, AggregatorAssumption

(* An aggregate has no more points than there were results. *)
LEMMA AggTypesKept == AggTypeOK /\ [AggNext]_aggVars => AggTypeOK'
<1> SUFFICES ASSUME AggTypeOK, [AggNext]_aggVars PROVE AggTypeOK'
  OBVIOUS
<1> USE AggregatorAssumption
<1>1. ASSUME NEW rs \in AggResults, Aggregate(rs) PROVE AggTypeOK'
  <2>1. rs \in Seq(AggResult) /\ Len(rs) <= MaxResults
    BY DEF AggResults
  <2>2. Usable(rs) \in Seq(AggResult) /\ Len(Usable(rs)) <= Len(rs)
    BY <2>1, UsableTypes
  <2>3. settings.max \in Nat
    BY DEF AggTypeOK
  <2>4. PICK sorted \in SortByTime(Usable(rs)) :
            /\ aggregate'.points = Newest(sorted, settings.max)
            /\ aggregate'.count = Len(Newest(sorted, settings.max))
            /\ aggregate'.at = now
            /\ aggregate'.from = rs
    BY <1>1 DEF Aggregate
  <2> DEFINE n == Len(Usable(rs))
             p == Newest(sorted, settings.max)
  <2>5. p \in Seq(AggResult) /\ Len(p) = IF settings.max \in 1..n THEN settings.max ELSE n
    BY <2>2, <2>3, NewestKept DEF NewestOf
  <2>6. n \in Nat /\ n <= MaxResults
    BY <2>1, <2>2
  <2> HIDE DEF n, p
  <2>7. Len(p) <= MaxResults
    BY <2>5, <2>6
  <2>8. aggregate'.points \in Seq(AggResult) /\ aggregate'.count <= MaxResults
    BY <2>4, <2>5, <2>7 DEF p
  <2>9. settings' = settings /\ now' = now /\ latest' = rs /\ now \in 1..MaxTime
    BY <1>1 DEF Aggregate, AggTypeOK
  <2>10. aggregate'.at \in 0..MaxTime /\ aggregate'.from \in AggResults
    BY <2>4, <2>9
  <2> QED  BY <2>8, <2>9, <2>10 DEF AggTypeOK
<1>2. CASE Clean
  BY <1>2, NoAggregateFits DEF Clean, AggTypeOK
<1>3. CASE AggTick
  BY <1>3 DEF AggTick, AggTypeOK
<1>4. CASE UNCHANGED aggVars
  BY <1>4 DEF aggVars, AggTypeOK
<1>5. ASSUME NEW rs \in AggResults, AggregateFails(rs) PROVE AggTypeOK'
  BY <1>4, <1>5 DEF AggregateFails
<1> QED  BY <1>1, <1>2, <1>3, <1>4, <1>5 DEF AggNext

(* An aggregate consists of results, at most as many as were given, and    *)
(* remembers which they were (aggregator.go:66-138 and 237-256).           *)
THEOREM AggTypesHold == AggSpec => []AggTypeOK
<1>1. AggInit => AggTypeOK
  BY NoAggregateFits, AggregatorAssumption DEF AggInit, AggTypeOK
<1> QED  BY <1>1, AggTypesKept, PTL DEF AggSpec
=============================================================================
