---------------------------- MODULE QueueClient ----------------------------
(***************************************************************************)
(* The priority queue under arbitrary pushes and pops, with a record of    *)
(* the order of arrival, so that it can be compared with PriorityService.  *)
(* A task may be pushed while it is already waiting, as the timers and the *)
(* retry path of the scheduler do.                                         *)
(***************************************************************************)
EXTENDS PriorityQueue

CONSTANTS
    None,       \* "no task served yet"
    MaxWaiting  \* bound: at most this many tasks wait

ASSUME ClientAssumption == None \notin Task /\ MaxWaiting \in Nat

VARIABLES
    items,      \* the slice pq.items
    arrivals,   \* history: the same tasks in order of arrival
    served      \* the task Pop returned last

vars == <<items, arrivals, served>>

Init ==
    /\ items = EmptyQueue
    /\ arrivals = <<>>
    /\ served = None

DoPush(t) ==
    /\ Len(items) < MaxWaiting
    /\ items' = Push(items, t)
    /\ arrivals' = Append(arrivals, t)
    /\ UNCHANGED served

(* The occurrence that leaves is the earliest one of the popped task. *)
DoPop ==
    /\ items # EmptyQueue
    /\ served' = PopTask(items)
    /\ items' = PopRest(items)
    /\ arrivals' = RemoveAt(arrivals, SelectInSeq(arrivals, LAMBDA a : a = PopTask(items)))

Next == (\E t \in Task : DoPush(t)) \/ DoPop

Spec == Init /\ [][Next]_vars

-----------------------------------------------------------------------------
Service == INSTANCE PriorityService

(* The slice serves in order of priority and, within a priority, in order  *)
(* of arrival: nothing is lost, duplicated or overtaken by Push and Pop    *)
(* (priority_queue.go:21-52).                                              *)
ImplementsService == Service!Spec
==============================================================================
