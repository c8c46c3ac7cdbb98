--------------------------- MODULE ReporterClient ---------------------------
(***************************************************************************)
(* internal/reporter/client.go with its cache (cache_manager.go): calls of *)
(* Report by concurrent executions, retries and their cancellation, the    *)
(* cleanup routine, Stop and Start with the file that outlives the         *)
(* process, and crashes, which skip Stop.                                  *)
(*                                                                         *)
(* The application stops the reporter only after the scheduler has drained *)
(* its executions (app.go:217-224), so no call of Report is in progress    *)
(* when Stop is called; when the scheduler's Stop times out the process    *)
(* ends without it, which is a crash here.                                 *)
(***************************************************************************)
EXTENDS ReportCache

CONSTANTS
    KeyOf,      \* KeyOf[r]: check name and second of r, the ID of its entry
    MaxRetries, \* config.MaxRetries, three when that is not positive
    Limits,     \* values config.CacheMaxSize may take
    FirstLimit, \* its first value
    Ages,       \* values config.CacheMaxAge may take
    FirstAge,   \* its first value
    MaxTime,    \* bound: time is counted up to this
    MaxStarts   \* bound: processes that run one after the other

ASSUME ClientAssumption ==
    /\ KeyOf \in [Report -> Key]
    /\ MaxRetries \in Nat \ {0} /\ MaxTime \in Nat /\ MaxStarts \in Nat
    /\ Limits \subseteq Int /\ FirstLimit \in Int
    /\ Ages \subseteq Int /\ FirstAge \in Int

VARIABLES
    now,        \* the clock
    cache,      \* cm.cache
    mutex,      \* cm.mutex: "free", or kept by a call that never returns
    limit,      \* cm.maxSize
    maxAge,     \* cm.maxAge
    file,       \* cache.json; EmptyCache when there is none
    status,     \* the field Status of the entry of each report
    created,    \* the field CreatedAt
    outlived,   \* history: the reports whose calls found an entry under their
                \* ID, and found it expired, when they had a result
    process,    \* the process: "down", "up", or in ReporterClient.Stop
    starts,     \* number of processes so far
    routine,    \* cleanupRoutine runs
    pc,         \* where the call of Report for each report is
    attempt,    \* its loop variable
    result,     \* the result it returns, "none" before; "cancelled" is StatusFailed
                \* with the error of the context
    got,        \* the entry its Get returned, by report
    metrics     \* rc.metrics: totalReports, successReports, failedReports

clockVars == <<now>>
processVars == <<process, starts, routine>>
entryVars == <<status, created, outlived>>
callVars == <<pc, attempt, result, got>>
vars == <<now, cache, mutex, limit, maxAge, file, entryVars, processVars, callVars, metrics>>

NoMetrics == [total |-> 0, success |-> 0, failed |-> 0]
Busy == {"sending", "waiting", "result", "found", "remove"}

TypeOK ==
    /\ now \in 0..MaxTime
    /\ cache \in [Key -> Report \cup {NoReport}]
    /\ mutex \in {"free", "updateConfig"}
    /\ limit \in Limits \cup {FirstLimit}
    /\ maxAge \in Ages \cup {FirstAge}
    /\ file \in [Key -> Report \cup {NoReport}]
    /\ status \in [Report -> {"none", "pending", "success", "failed"}]
    /\ created \in [Report -> 0..MaxTime]
    /\ outlived \in SUBSET Report
    /\ process \in {"down", "up", "stopping", "stopped"}
    /\ starts \in 0..MaxStarts
    /\ routine \in BOOLEAN
    /\ pc \in [Report -> {"idle", "returned", "gone"} \cup Busy]
    /\ attempt \in [Report -> 0..MaxRetries]
    /\ result \in [Report -> {"none", "success", "failed", "cancelled"}]
    /\ got \in [Report -> Report \cup {NoReport}]
    /\ metrics \in [total : Nat, success : Nat, failed : Nat]

Init ==
    /\ now = 0
    /\ cache = EmptyCache
    /\ mutex = "free"
    /\ limit = FirstLimit
    /\ maxAge = FirstAge
    /\ file = EmptyCache
    /\ status = [r \in Report |-> "none"]
    /\ created = [r \in Report |-> 0]
    /\ outlived = {}
    /\ process = "down"
    /\ starts = 0
    /\ routine = FALSE
    /\ pc = [r \in Report |-> "idle"]
    /\ attempt = [r \in Report |-> 0]
    /\ result = [r \in Report |-> "none"]
    /\ got = [r \in Report |-> NoReport]
    /\ metrics = NoMetrics

Expired(r) == now - created[r] > maxAge
InProgress == {r \in Report : pc[r] \in Busy}
Count(field) == [metrics EXCEPT ![field] = @ + 1]

TimePasses ==
    /\ now < MaxTime
    /\ now' = now + 1
    /\ UNCHANGED <<cache, mutex, limit, maxAge, file, entryVars, processVars, callVars,
                   metrics>>

-----------------------------------------------------------------------------
(* Report.  Sending takes no lock; the cache is locked for each operation, *)
(* never from one to the next.                                             *)

(* Add the entry, count the report, begin the first attempt. *)
ReportBegin(r) ==
    /\ process = "up"
    /\ pc[r] = "idle"
    /\ mutex = "free"
    /\ status' = [status EXCEPT ![r] = "pending"]
    /\ created' = [created EXCEPT ![r] = now]
    /\ cache' \in AddResults(cache, KeyOf[r], r, created, limit)
    /\ metrics' = Count("total")
    /\ pc' = [pc EXCEPT ![r] = "sending"]
    /\ UNCHANGED <<now, mutex, limit, maxAge, file, outlived, processVars, attempt,
                   result, got>>

SendSucceeds(r) ==
    /\ pc[r] = "sending"
    /\ metrics' = Count("success")
    /\ result' = [result EXCEPT ![r] = "success"]
    /\ pc' = [pc EXCEPT ![r] = "result"]
    /\ UNCHANGED <<now, cache, mutex, limit, maxAge, file, entryVars, processVars,
                   attempt, got>>

(* Mutants: one attempt too many; the last failure is not counted; the     *)
(* loop does not advance.                                                  *)
SendFailsOnceMore(r) ==
    /\ pc[r] = "sending"
    /\ attempt' = [attempt EXCEPT ![r] = @ + 1]
    /\ pc' = [pc EXCEPT ![r] = "waiting"]
    /\ UNCHANGED <<now, cache, mutex, limit, maxAge, file, entryVars, processVars,
                   result, got, metrics>>
SendFailsUncounted(r) ==
    /\ pc[r] = "sending"
    /\ IF attempt[r] = MaxRetries
       THEN /\ result' = [result EXCEPT ![r] = "failed"]
            /\ pc' = [pc EXCEPT ![r] = "result"]
            /\ UNCHANGED attempt
       ELSE /\ attempt' = [attempt EXCEPT ![r] = @ + 1]
            /\ pc' = [pc EXCEPT ![r] = "waiting"]
            /\ UNCHANGED result
    /\ UNCHANGED <<now, cache, mutex, limit, maxAge, file, entryVars, processVars, got,
                   metrics>>
SendFailsForEver(r) ==
    /\ pc[r] = "sending"
    /\ pc' = [pc EXCEPT ![r] = "waiting"]
    /\ UNCHANGED <<now, cache, mutex, limit, maxAge, file, entryVars, processVars,
                   attempt, result, got, metrics>>

SendFails(r) ==
    /\ pc[r] = "sending"
    /\ IF attempt[r] = MaxRetries
       THEN /\ metrics' = Count("failed")
            /\ result' = [result EXCEPT ![r] = "failed"]
            /\ pc' = [pc EXCEPT ![r] = "result"]
            /\ UNCHANGED attempt
       ELSE /\ attempt' = [attempt EXCEPT ![r] = @ + 1]
            /\ pc' = [pc EXCEPT ![r] = "waiting"]
            /\ UNCHANGED <<result, metrics>>
    /\ UNCHANGED <<now, cache, mutex, limit, maxAge, file, entryVars, processVars, got>>

DelayPasses(r) ==
    /\ pc[r] = "waiting"
    /\ pc' = [pc EXCEPT ![r] = "sending"]
    /\ UNCHANGED <<now, cache, mutex, limit, maxAge, file, entryVars, processVars,
                   attempt, result, got, metrics>>

(* The deadline of the task has passed, or the scheduler is stopped:       *)
(* ctx.Done() ends the delay.  This failure is not counted.  (An attempt   *)
(* made under such a context fails like any other.)                        *)
GivesUp(r) ==
    /\ pc[r] = "waiting"
    /\ result' = [result EXCEPT ![r] = "cancelled"]
    /\ pc' = [pc EXCEPT ![r] = "result"]
    /\ UNCHANGED <<now, cache, mutex, limit, maxAge, file, entryVars, processVars,
                   attempt, got, metrics>>

(* Get hands out the entry under the key, whose ever it is. *)
GetEntry(r) ==
    LET e == cache[KeyOf[r]] IN
    /\ pc[r] = "result"
    /\ mutex = "free"
    /\ IF e # NoReport /\ ~Expired(e)
       THEN got' = [got EXCEPT ![r] = e] /\ pc' = [pc EXCEPT ![r] = "found"]
       ELSE UNCHANGED got /\ pc' = [pc EXCEPT ![r] = "returned"]
    /\ outlived' = IF e # NoReport /\ Expired(e) THEN outlived \cup {r} ELSE outlived
    /\ attempt' = [attempt EXCEPT ![r] = 0]
    /\ UNCHANGED <<now, cache, mutex, limit, maxAge, file, status, created, processVars,
                   result, metrics>>

StatusOf(r) == IF result[r] = "success" THEN "success" ELSE "failed"

(* Mutant: delivered reports stay. *)
SetStatusOnly(r) ==
    /\ pc[r] = "found"
    /\ status' = [status EXCEPT ![got[r]] = StatusOf(r)]
    /\ pc' = [pc EXCEPT ![r] = "returned"]
    /\ got' = [got EXCEPT ![r] = NoReport]
    /\ UNCHANGED <<now, cache, mutex, limit, maxAge, file, created, outlived,
                   processVars, attempt, result, metrics>>

(* The fields of the entry are written after the mutex is given back. *)
SetStatus(r) ==
    /\ pc[r] = "found"
    /\ status' = [status EXCEPT ![got[r]] = StatusOf(r)]
    /\ pc' = [pc EXCEPT ![r] = IF result[r] = "success" THEN "remove" ELSE "returned"]
    /\ got' = [got EXCEPT ![r] = NoReport]
    /\ UNCHANGED <<now, cache, mutex, limit, maxAge, file, created, outlived,
                   processVars, attempt, result, metrics>>

RemoveEntry(r) ==
    /\ pc[r] = "remove"
    /\ mutex = "free"
    /\ cache' = Without(cache, KeyOf[r])
    /\ pc' = [pc EXCEPT ![r] = "returned"]
    /\ UNCHANGED <<now, mutex, limit, maxAge, file, entryVars, processVars, attempt,
                   result, got, metrics>>

-----------------------------------------------------------------------------
(* The cache manager on its own *)

Cleanup ==
    /\ routine
    /\ mutex = "free"
    /\ cache' \in CleanupResults(cache, {r \in Report : Expired(r)}, created, limit)
    /\ UNCHANGED <<now, mutex, limit, maxAge, file, entryVars, processVars, callVars,
                   metrics>>

Clear ==
    /\ process = "up"
    /\ mutex = "free"
    /\ cache' = EmptyCache
    /\ UNCHANGED <<now, mutex, limit, maxAge, file, entryVars, processVars, callVars,
                   metrics>>

(* A smaller size or age makes UpdateConfig call cleanup, which waits for  *)
(* the mutex that UpdateConfig itself keeps.                               *)
UpdateConfig(n, a) ==
    /\ process = "up"
    /\ mutex = "free"
    /\ limit' = n
    /\ maxAge' = a
    /\ mutex' = IF n < limit \/ a < maxAge THEN "updateConfig" ELSE "free"
    /\ UNCHANGED <<now, cache, file, entryVars, processVars, callVars, metrics>>

-----------------------------------------------------------------------------
(* Processes *)

(* A new client; Start loads what is not too old, without regard to size. *)
StartClient ==
    /\ process = "down"
    /\ starts < MaxStarts
    /\ process' = "up"
    /\ starts' = starts + 1
    /\ routine' = TRUE
    /\ cache' = [k \in Key |-> IF file[k] # NoReport /\ Expired(file[k])
                               THEN NoReport ELSE file[k]]
    /\ UNCHANGED <<now, mutex, limit, maxAge, file, entryVars, callVars, metrics>>

Stop ==
    /\ process = "up"
    /\ InProgress = {}
    /\ process' = "stopping"
    /\ UNCHANGED <<now, cache, mutex, limit, maxAge, file, entryVars, starts, routine,
                   callVars, metrics>>

(* Mutant: the routine does not listen to stopChan. *)
RoutineIgnoresStop ==
    /\ process = "up"
    /\ routine
    /\ routine' = FALSE
    /\ UNCHANGED <<now, cache, mutex, limit, maxAge, file, entryVars, process, starts,
                   callVars, metrics>>

(* By stopChan or by the context of the application, which is cancelled    *)
(* before the scheduler and the reporter are stopped.                      *)
RoutineExits ==
    /\ process \in {"up", "stopping"}
    /\ routine
    /\ routine' = FALSE
    /\ UNCHANGED <<now, cache, mutex, limit, maxAge, file, entryVars, process, starts,
                   callVars, metrics>>

(* persistCache: the rename replaces the file at once; an empty cache      *)
(* removes it.                                                             *)
Persist ==
    /\ process = "stopping"
    /\ ~routine
    /\ mutex = "free"
    /\ file' = cache
    /\ process' = "stopped"
    /\ UNCHANGED <<now, cache, mutex, limit, maxAge, entryVars, starts, routine,
                   callVars, metrics>>

(* The cache cannot be marshalled, written or renamed, or the file not be  *)
(* removed: Stop goes on and the old file stays.                           *)
PersistFails ==
    /\ process = "stopping"
    /\ ~routine
    /\ mutex = "free"
    /\ process' = "stopped"
    /\ UNCHANGED <<now, cache, mutex, limit, maxAge, file, entryVars, starts, routine,
                   callVars, metrics>>

(* The process ends; what it had in memory is lost: the entries that are   *)
(* not in the file, and the calls in progress.                             *)
Exit ==
    /\ process \in {"up", "stopping", "stopped"}
    /\ process' = "down"
    /\ routine' = FALSE
    /\ mutex' = "free"
    /\ cache' = EmptyCache
    /\ pc' = [r \in Report |-> IF pc[r] = "idle" THEN "idle" ELSE "gone"]
    /\ status' = [r \in Report |-> IF Holds(file, r) THEN status[r] ELSE "none"]
    /\ created' = [r \in Report |-> IF Holds(file, r) THEN created[r] ELSE 0]
    /\ attempt' = [r \in Report |-> 0]
    /\ got' = [r \in Report |-> NoReport]
    /\ metrics' = NoMetrics
    /\ result' = [r \in Report |-> IF Holds(file, r) \/ result[r] = "success"
                                  THEN result[r] ELSE "none"]
    /\ UNCHANGED <<now, limit, maxAge, file, outlived, starts>>

-----------------------------------------------------------------------------
ReportStep(r) ==
    \/ SendSucceeds(r) \/ SendFails(r) \/ DelayPasses(r) \/ GivesUp(r)
    \/ GetEntry(r) \/ SetStatus(r) \/ RemoveEntry(r)

Next ==
    \/ TimePasses
    \/ \E r \in Report : ReportBegin(r) \/ ReportStep(r)
    \/ Cleanup \/ Clear
    \/ \E n \in Limits, a \in Ages : UpdateConfig(n, a)
    \/ StartClient \/ Stop \/ RoutineExits \/ Persist \/ PersistFails \/ Exit

Spec == Init /\ [][Next]_vars

(* Requests end by their timeout and delays pass, so calls of Report go    *)
(* on; the routine and Stop go on when their channels are closed.          *)
Fairness ==
    /\ \A r \in Report : WF_vars(ReportStep(r))
    /\ WF_vars(process = "stopping" /\ RoutineExits)
    /\ WF_vars(Persist \/ PersistFails)

FairSpec == Spec /\ Fairness

-----------------------------------------------------------------------------
(* The cache never grows beyond its limit, whatever is added, replaced,    *)
(* cleaned up, saved and loaded again (cache_manager.go:95-101, 283-324,   *)
(* 453-458).  A limit that is not positive means no limit to Add.          *)
CacheWithinLimit == limit > 0 /\ mutex = "free" => SizeOf(cache) <= limit

(* Entries of the cache created no earlier than that of r, r's included    *)
NoOlder(r) == [k \in Key |-> IF cache[k] # NoReport /\ created[cache[k]] >= created[r]
                             THEN cache[k] ELSE NoReport]

(* The call of another report with the ID of r adds its entry or takes one *)
(* away, or r's own call does after the other one wrote a status to the    *)
(* entry of r.                                                             *)
IdIsShared(r) == \E n \in Report : n # r /\ KeyOf[n] = KeyOf[r]
OtherTakesPlace(r) ==
    /\ IdIsShared(r)
    /\ \E n \in Report : KeyOf[n] = KeyOf[r] /\ (ReportBegin(n) \/ RemoveEntry(n))

(* A report whose sending failed is kept until it expires: it leaves the   *)
(* cache only when the process ends, Clear is called, the entries no older *)
(* than it leave no room for a new one, or another report has its ID       *)
(* (client.go:120, 142-152, cache_manager.go:309-324).                     *)
FailedReportsKept ==
    [][\A r \in Report :
        (Holds(cache, r) /\ ~Holds(cache', r) /\ status[r] = "failed" /\ ~Expired(r)) =>
            \/ process' = "down"
            \/ Clear
            \/ \E n \in Report : ReportBegin(n) /\ SizeOf(NoOlder(r)) + Size[n] > limit
            \/ OtherTakesPlace(r)]_vars

(* A report that was delivered is not cached any more when its call has    *)
(* returned, nor loaded again by a later process, but for a report whose   *)
(* entry had expired when the call looked for it - which a greater age may *)
(* make valid again (client.go:142-151, cache_manager.go:106-122).         *)
DeliveredReportsLeave ==
    \A r \in Report :
        result[r] = "success" /\ pc[r] \in {"returned", "gone"} /\ Holds(cache, r)
            => r \in outlived

(* Every report of this process is counted once as success or failure or   *)
(* is in progress, but for those given up by their context                 *)
(* (client.go:135-137, 184-193, 206-209, 228-230).                         *)
GivenUp == {r \in Report : pc[r] # "gone" /\ result[r] = "cancelled"}
Undecided == {r \in InProgress : result[r] = "none"}
MetricsAddUp ==
    metrics.total = metrics.success + metrics.failed + Cardinality(Undecided) + Cardinality(GivenUp)

(* Every call of Report returns, after at most MaxRetries further attempts *)
(* (client.go:165-253), unless the process ends or UpdateConfig was called *)
(* with a smaller size or age and keeps the mutex (cache_manager.go:196).  *)
ReportReturns ==
    \A r \in Report : pc[r] \in Busy ~> (pc[r] \notin Busy \/ mutex = "updateConfig")

(* Stop ends, with the same exception: the routine exits and the cache is  *)
(* saved, or cannot be (cache_manager.go:78-88).                           *)
StopReturns ==
    process = "stopping" ~> (process # "stopping" \/ mutex = "updateConfig")

-----------------------------------------------------------------------------
(* The inductive invariants behind the theorems of ReporterClient_proofs *)

(* Entries are filed under the ID of their report, whose call has begun,   *)
(* and returned before the file was written; a process that is down has no *)
(* cache.                                                                  *)
Filed(c) == \A k \in Key : c[k] # NoReport => KeyOf[c[k]] = k /\ pc[c[k]] # "idle"
FileSettled ==
    \A k \in Key : file[k] # NoReport =>
        /\ pc[file[k]] \in {"returned", "gone"}
        /\ result[file[k]] = "success" => file[k] \in outlived
DownIsEmpty == process = "down" => cache = EmptyCache

(* A call has a result from its last attempt on, and removes its entry     *)
(* only after success; none is in progress while the process stops.        *)
CallResults ==
    \A r \in Report :
        /\ pc[r] \in {"idle", "sending", "waiting"} => result[r] = "none"
        /\ pc[r] \in {"result", "found"} => result[r] # "none"
        /\ pc[r] = "remove" => result[r] = "success"
        /\ pc[r] \in Busy => process = "up"

ClientInv ==
    /\ TypeOK
    /\ Filed(cache) /\ Filed(file) /\ FileSettled /\ DownIsEmpty
    /\ CallResults
    /\ DeliveredReportsLeave
    /\ MetricsAddUp

(* As long as the limit is only raised *)
SizesWithinLimit ==
    limit > 0 => SizeOf(cache) <= limit /\ SizeOf(file) <= limit

(* A call is handed an entry with the ID of its own, and removes the entry *)
(* of a report that was delivered, unless another report has its ID.       *)
OwnEntries ==
    \A r \in Report :
        /\ pc[r] = "found" => got[r] \in Report /\ KeyOf[got[r]] = KeyOf[r]
        /\ pc[r] = "remove" /\ ~IdIsShared(r) => status[r] = "success"
=============================================================================
