--------------------------- MODULE CollectorManager ---------------------------
(***************************************************************************)
(* internal/collector/collector.go: the manager that runs each collector   *)
(* in a goroutine of its own and remembers, by name, how to cancel it.     *)
(* The goroutine deletes the entry of its NAME when it ends, whichever     *)
(* goroutine the entry belongs to by then.                                 *)
(***************************************************************************)
EXTENDS Naturals, FiniteSets

CONSTANTS
    Collector,  \* names of collectors, registered or not
    Known,      \* names in the registry whose Validate accepts the parameters
    Goroutine,  \* the goroutines StartCollector may launch
    Nobody      \* no entry in m.active

ASSUME CollectorAssumption == Known \subseteq Collector /\ Nobody \notin Goroutine

VARIABLES
    active,     \* m.active: the goroutine whose context the entry cancels
    collects,   \* the name each goroutine collects, and where it is
    cancelled,  \* goroutines whose context was cancelled by a Stop
    everStopped \* history: names an entry of which was stopped

collectorVars == <<active, collects, cancelled, everStopped>>

CollectorTypeOK ==
    /\ active \in [Collector -> Goroutine \cup {Nobody}]
    /\ collects \in [Goroutine -> [name : Collector \cup {Nobody}, pc : {"new", "collect", "cleanup", "gone"}]]
    /\ cancelled \in SUBSET Goroutine
    /\ everStopped \in SUBSET Collector

CollectorInit ==
    /\ active = [n \in Collector |-> Nobody]
    /\ collects = [g \in Goroutine |-> [name |-> Nobody, pc |-> "new"]]
    /\ cancelled = {}
    /\ everStopped = {}

(* Mutant: a name that is active may be started again. *)
StartCollectorAgain(n, g) ==
    /\ n \in Known
    /\ collects[g].pc = "new"
    /\ active' = [active EXCEPT ![n] = g]
    /\ collects' = [collects EXCEPT ![g] = [name |-> n, pc |-> "collect"]]
    /\ UNCHANGED <<cancelled, everStopped>>

StartCollector(n, g) ==
    /\ n \in Known
    /\ active[n] = Nobody
    /\ collects[g].pc = "new"
    /\ active' = [active EXCEPT ![n] = g]
    /\ collects' = [collects EXCEPT ![g] = [name |-> n, pc |-> "collect"]]
    /\ UNCHANGED <<cancelled, everStopped>>

(* Mutant: the entry is left to the goroutine to delete. *)
CancelKeepsEntry(names) ==
    /\ cancelled' = cancelled \cup {active[n] : n \in names}
    /\ everStopped' = everStopped \cup names
    /\ UNCHANGED <<active, collects>>

Cancel(names) ==
    /\ cancelled' = cancelled \cup {active[n] : n \in names}
    /\ active' = [n \in Collector |-> IF n \in names THEN Nobody ELSE active[n]]
    /\ everStopped' = everStopped \cup names
    /\ UNCHANGED collects

Running == {n \in Collector : active[n] # Nobody}

StopCollector(n) == n \in Running /\ Cancel({n})

StopAll == Cancel(Running)

(* Collect returns: with data, with an error, by its timeout or because it *)
(* was cancelled.  Nothing is done with what it returned.                  *)
CollectReturns(g) ==
    /\ collects[g].pc = "collect"
    /\ collects' = [collects EXCEPT ![g].pc = "cleanup"]
    /\ UNCHANGED <<active, cancelled, everStopped>>

(* The deferred function. *)
CleanUp(g) ==
    /\ collects[g].pc = "cleanup"
    /\ active' = [active EXCEPT ![collects[g].name] = Nobody]
    /\ collects' = [collects EXCEPT ![g].pc = "gone"]
    /\ UNCHANGED <<cancelled, everStopped>>

CollectorNext ==
    \/ \E n \in Collector, g \in Goroutine : StartCollector(n, g)
    \/ \E n \in Collector : StopCollector(n)
    \/ StopAll
    \/ \E g \in Goroutine : CollectReturns(g) \/ CleanUp(g)

CollectorSpec == CollectorInit /\ [][CollectorNext]_collectorVars

-----------------------------------------------------------------------------
(* Collections that nothing has cancelled *)
Live(g) == collects[g].pc \in {"collect", "cleanup"} /\ g \notin cancelled

(* A collection that nobody cancelled can be found and stopped by its      *)
(* name, and is the only one of it, as long as no entry of that name was   *)
(* ever stopped.  After a stop it need not be: the goroutine of the        *)
(* stopped collection deletes its successor's entry (collector.go:217).    *)
LiveIsRegistered ==
    \A g \in Goroutine : Live(g) /\ collects[g].name \notin everStopped =>
        active[collects[g].name] = g

(* An entry always leads to a goroutine of its name that nobody cancelled  *)
(* and that has not removed its entry: what IsRunning (collector.go:267)   *)
(* reports can be stopped.                                                 *)
EntryIsLive ==
    \A n \in Running : Live(active[n]) /\ collects[active[n]].name = n
==============================================================================
