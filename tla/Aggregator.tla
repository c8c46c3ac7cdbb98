----------------------------- MODULE Aggregator -----------------------------
(***************************************************************************)
(* internal/aggregator/aggregator.go: the results of a check become one    *)
(* aggregate of data points, in the order of time and limited to the       *)
(* newest, which replaces the check's previous aggregate; Clean forgets    *)
(* aggregates older than the retention period.                             *)
(***************************************************************************)
EXTENDS Naturals, SequencesExt

CONSTANTS
    MaxResults,     \* bound: results given to Aggregate
    MaxTime         \* bound: the clock

ASSUME AggregatorAssumption == MaxResults \in Nat /\ MaxTime \in Nat \ {0}

VARIABLES
    settings,   \* MaxDataPoints, Compression and RetentionPeriod
    aggregate,  \* the cache's entry for one check
    latest,     \* history: the results of the last call that succeeded
    now

aggVars == <<settings, aggregate, latest, now>>

(* A result was skipped, failed, has no data, or has data of some time,    *)
(* which JSON cannot express when a number in it is not one: the usage of  *)
(* a file system without blocks (disk.go:99).                              *)
AggResult == [kind : {"skipped", "error", "empty"}, time : {0}]
             \cup [kind : {"data", "nan"}, time : 1..2]
AggResults == UNION {[1..n -> AggResult] : n \in 0..MaxResults}

NoAggregate == [points |-> <<>>, count |-> 0, compressed |-> FALSE, at |-> 0, from |-> <<>>]

AggTypeOK ==
    /\ settings \in [max : Nat, compression : BOOLEAN, retention : 0..1]
    /\ aggregate.points \in Seq(AggResult)
    /\ aggregate.count <= MaxResults /\ aggregate.at \in 0..MaxTime
    /\ latest \in AggResults /\ aggregate.from \in AggResults
    /\ now \in 1..MaxTime

AggInit ==
    /\ settings \in [max : {0, 1, 2}, compression : BOOLEAN, retention : 0..1]
    /\ aggregate = NoAggregate
    /\ latest = <<>>
    /\ now = 1

-----------------------------------------------------------------------------
(* filterValidResults: those without skip, error or lack of data, in order *)
Usable(results) ==
    LET valid[i \in 0..Len(results)] ==
            IF i = 0 THEN <<>>
            ELSE IF results[i].kind \in {"data", "nan"} THEN Append(valid[i - 1], results[i])
            ELSE valid[i - 1]
    IN  valid[Len(results)]

(* sort.Slice may leave points of one time in any order. *)
Sorting(points) ==
    {order \in [DOMAIN points -> DOMAIN points] :
        /\ IsInjective(order)
        /\ \A i, j \in DOMAIN points : i < j => points[order[i]].time <= points[order[j]].time}

SortByTime(points) == {[n \in DOMAIN points |-> points[order[n]]] : order \in Sorting(points)}

(* Mutant: the first points are kept. *)
Oldest(points, max) ==
    IF max > 0 /\ Len(points) > max THEN SubSeq(points, 1, max) ELSE points

Newest(points, max) ==
    IF max > 0 /\ Len(points) > max THEN SubSeq(points, Len(points) - max + 1, Len(points)) ELSE points

(* compress puts the points into one that holds them all: they are in      *)
(* another form, and the same.                                             *)
Compressed(points) == settings.compression /\ points # <<>>

(* The points that are left are marshalled, to compress them or for their  *)
(* size; those that the limit dropped are not.                             *)
Marshals(points) == \A i \in DOMAIN points : points[i].kind = "data"

Aggregate(results) ==
    /\ Usable(results) # <<>>
    /\ \E sorted \in SortByTime(Usable(results)) :
        LET points == Newest(sorted, settings.max)
        IN  /\ Marshals(points)
            /\ aggregate' = [points |-> points, count |-> Len(points),
                             compressed |-> Compressed(points), at |-> now, from |-> results]
    /\ latest' = results
    /\ UNCHANGED <<settings, now>>

(* Nothing to aggregate, or points that cannot be marshalled: an error,    *)
(* and the cache keeps what it had.  So it does without a check name.      *)
AggregateFails(results) ==
    /\ \/ Usable(results) = <<>>
       \/ \E sorted \in SortByTime(Usable(results)) : ~Marshals(Newest(sorted, settings.max))
    /\ UNCHANGED aggVars

Clean ==
    /\ settings.retention > 0
    /\ aggregate' = IF aggregate.at + settings.retention < now THEN NoAggregate ELSE aggregate
    /\ UNCHANGED <<settings, latest, now>>

AggTick == now < MaxTime /\ now' = now + 1 /\ UNCHANGED <<settings, aggregate, latest>>

AggNext == (\E rs \in AggResults : Aggregate(rs) \/ AggregateFails(rs)) \/ Clean \/ AggTick

AggSpec == AggInit /\ [][AggNext]_aggVars

-----------------------------------------------------------------------------
Copies(seq, r) == Cardinality({i \in DOMAIN seq : seq[i] = r})

(* p holds the newest of the points given, count of them. *)
NewestOf(p, given, count) ==
    /\ Len(p) = count
    /\ \A i, j \in DOMAIN p : i < j => p[i].time <= p[j].time
    /\ \A r \in ToSet(p) : Copies(p, r) <= Copies(given, r)
    /\ \A r \in ToSet(given) :
        Copies(p, r) < Copies(given, r) => \A i \in DOMAIN p : r.time <= p[i].time

(* An aggregate is of the results of the last call that succeeded, and has *)
(* as many of their points as the limit allows, none older than one that   *)
(* was left out, in the order of time, none from a result that was skipped *)
(* or failed, and none that cannot be marshalled again when the aggregate  *)
(* is sent (aggregator.go:97-134).                                         *)
AggregateKeepsNewest ==
    LET given == Usable(aggregate.from)
    IN  aggregate # NoAggregate =>
        /\ aggregate.from = latest
        /\ aggregate.count = IF settings.max \in 1..Len(given) THEN settings.max ELSE Len(given)
        /\ NewestOf(aggregate.points, given, aggregate.count)
        /\ Marshals(aggregate.points)
=============================================================================
