--------------------------- MODULE PriorityService ---------------------------
(***************************************************************************)
(* What the scheduler's queue promises, without its representation: the    *)
(* requests wait in order of arrival, and the one served next is the       *)
(* earliest among those of the highest priority.                           *)
(***************************************************************************)
EXTENDS Integers, SequencesExt

CONSTANTS
    Task,
    Priority

VARIABLES
    arrivals,   \* requests not served yet, in order of arrival
    served      \* the request served last, or a value outside Task

vars == <<arrivals, served>>

Init ==
    /\ arrivals = <<>>
    /\ served \notin Task

Arrive(t) ==
    /\ arrivals' = Append(arrivals, t)
    /\ UNCHANGED served

(* Position i is served next. *)
IsNext(i) ==
    /\ \A j \in 1..Len(arrivals) : Priority[arrivals[j]] <= Priority[arrivals[i]]
    /\ \A j \in 1..(i - 1) : Priority[arrivals[j]] < Priority[arrivals[i]]

Serve ==
    \E i \in 1..Len(arrivals) :
        /\ IsNext(i)
        /\ served' = arrivals[i]
        /\ arrivals' = RemoveAt(arrivals, i)

Next == (\E t \in Task : Arrive(t)) \/ Serve

Spec == Init /\ [][Next]_vars
==============================================================================
