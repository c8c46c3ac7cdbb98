----------------------------- MODULE ReportCache -----------------------------
(***************************************************************************)
(* internal/reporter/cache_manager.go: what the operations on the report   *)
(* cache compute.  Each runs under the mutex of the cache; ReporterClient  *)
(* says who calls them and when.                                           *)
(*                                                                         *)
(* A cache maps the ID of an entry to its report, NoReport where there is  *)
(* no entry.  Every call of Report makes one entry object, so what an      *)
(* entry holds besides (Status, CreatedAt) is indexed by its report.  Size *)
(* is the length of the marshalled Data, in units large enough to matter.  *)
(***************************************************************************)
EXTENDS Integers, SequencesExt

CONSTANTS
    Report,     \* the reports, one call of Report each
    Key,        \* the IDs of entries
    Size,       \* Size[r]: bytes of Report.Data
    NoReport

ASSUME CacheAssumption ==
    /\ IsFiniteSet(Report) /\ IsFiniteSet(Key)
    /\ Size \in [Report -> Nat]
    /\ NoReport \notin Report

EmptyCache == [k \in Key |-> NoReport]
Cached(cache) == {k \in Key : cache[k] # NoReport}
Holds(cache, r) == \E k \in Key : cache[k] = r

(* getCurrentSize *)
SizeOf(cache) ==
    SumFunction([k \in Key |-> IF cache[k] = NoReport THEN 0 ELSE Size[cache[k]]])

(* Mutant: entries leave in any order. *)
AnyOrder(cache, created) == SetToSeqs(Cached(cache))

(* The entries sorted by creation; a map is iterated in any order, so that *)
(* of entries created at the same time is open.                            *)
OldestFirst(cache, created) ==
    {s \in SetToSeqs(Cached(cache)) :
        \A i, j \in 1..Len(s) : i < j => created[cache[s[i]]] <= created[cache[s[j]]]}

Without(cache, k) == [cache EXCEPT ![k] = NoReport]

(* The common loop of makeSpaceForEntry and enforceSizeLimit: entries go   *)
(* in the given order until the rest is no larger than target.             *)
Evict(cache, order, target) ==
    FoldLeft(LAMBDA kept, k : IF SizeOf(kept) <= target THEN kept ELSE Without(kept, k),
             cache, order)

(* Mutant: the entry to be added is not accounted for. *)
AddResultsUnsized(cache, k, r, created, limit) ==
    {[Evict(cache, order, limit) EXCEPT ![k] = r] : order \in OldestFirst(cache, created)}

(* What Add may leave behind: room is made only under a positive limit,    *)
(* and an entry larger than the limit is refused.                          *)
AddResults(cache, k, r, created, limit) ==
    IF limit > 0 /\ SizeOf(cache) + Size[r] > limit
    THEN IF Size[r] > limit
         THEN {cache}
         ELSE {[Evict(cache, order, limit - Size[r]) EXCEPT ![k] = r] :
                    order \in OldestFirst(cache, created)}
    ELSE {[cache EXCEPT ![k] = r]}

(* What cleanup may leave behind: expired entries go first, then the limit *)
(* is enforced, positive or not.                                           *)
CleanupResults(cache, expired, created, limit) ==
    LET fresh == [k \in Key |-> IF cache[k] \in expired
                                THEN NoReport ELSE cache[k]]
    IN {Evict(fresh, order, limit) : order \in OldestFirst(fresh, created)}
==============================================================================
