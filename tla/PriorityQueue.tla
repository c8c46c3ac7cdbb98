---------------------------- MODULE PriorityQueue ----------------------------
(***************************************************************************)
(* internal/scheduler/priority_queue.go: the queue of tasks waiting for    *)
(* execution, kept as a slice ordered by decreasing priority.  Both        *)
(* methods run under the queue's own mutex, so each is one operator here;  *)
(* the modules that extend this one decide who calls them and when.        *)
(***************************************************************************)
EXTENDS Integers, SequencesExt

CONSTANTS
    Task,       \* the Task objects a scheduler may be handed
    Priority    \* Priority[t] is the field t.Priority

ASSUME PriorityAssumption == Priority \in [Task -> Int]

EmptyQueue == <<>>

(* Mutants: an insertion that ignores priorities, one that overtakes equals. *)
PushLast(items, t) == Append(items, t)
FirstNotHigher(items, t) ==
    SelectInSeq(items, LAMBDA item : Priority[t] >= Priority[item])

(* The first waiting task of strictly lower priority; 0 if there is none. *)
FirstLower(items, t) ==
    SelectInSeq(items, LAMBDA item : Priority[t] > Priority[item])

(* Insert before the first task of lower priority, else append: equal      *)
(* priorities stay in order of arrival.                                    *)
Push(items, t) ==
    IF FirstLower(items, t) = 0
    THEN Append(items, t)
    ELSE InsertAt(items, FirstLower(items, t), t)

(* Pop returns the head and keeps the rest. *)
PopTask(items) == Head(items)
PopRest(items) == Tail(items)

(* What the order of the slice must be for Pop to return the task of       *)
(* highest priority.                                                       *)
Ordered(items) ==
    \A i, j \in 1..Len(items) :
        i < j => Priority[items[i]] >= Priority[items[j]]
==============================================================================
