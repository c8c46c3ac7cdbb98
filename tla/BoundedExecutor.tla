--------------------------- MODULE BoundedExecutor ---------------------------
(***************************************************************************)
(* What the scheduler promises about the work of its tasks, without queue, *)
(* semaphore, locks or goroutines:                                         *)
(*   - an execution is requested by a tick that fell due while the timer   *)
(*     was armed, by arming it, or by an execution of the same task that   *)
(*     ends and asks to be retried;                                        *)
(*   - a request is executed once: none is lost and none is duplicated;    *)
(*   - at most Limit executions hold a permit at any time.                 *)
(***************************************************************************)
EXTENDS Integers, Functions

CONSTANTS
    Task,
    Limit   \* executions allowed at the same time

VARIABLES
    armed,      \* tasks whose timer runs
    due,        \* due[t]: ticks of t that may still request an execution
    pending,    \* pending[t]: requests of t not yet begun
    active,     \* active[t]: executions of t in progress
    closing     \* closing[t]: executions over that still hold their permit

vars == <<armed, due, pending, active, closing>>

Held == SumFunction(active) + SumFunction(closing)

Init ==
    /\ armed = {}
    /\ due = [t \in Task |-> 0]
    /\ pending = [t \in Task |-> 0]
    /\ active = [t \in Task |-> 0]
    /\ closing = [t \in Task |-> 0]

(* The timer of t is started, which may request an execution at once; the  *)
(* same call may disarm others.                                            *)
Arm(t) ==
    /\ armed' \in SUBSET (armed \cup {t})
    /\ t \in armed'
    /\ pending' \in {pending, [pending EXCEPT ![t] = @ + 1]}
    /\ UNCHANGED <<due, active, closing>>

Disarm ==
    /\ armed' \in SUBSET armed
    /\ UNCHANGED <<due, pending, active, closing>>

Fire(t) ==
    /\ t \in armed
    /\ due' = [due EXCEPT ![t] = @ + 1]
    /\ UNCHANGED <<armed, pending, active, closing>>

(* A tick requests an execution or comes to nothing, armed or not. *)
Request(t) ==
    /\ due[t] > 0
    /\ due' = [due EXCEPT ![t] = @ - 1]
    /\ pending' \in {pending, [pending EXCEPT ![t] = @ + 1]}
    /\ UNCHANGED <<armed, active, closing>>

Begin(t) ==
    /\ pending[t] > 0
    /\ Held < Limit
    /\ pending' = [pending EXCEPT ![t] = @ - 1]
    /\ active' = [active EXCEPT ![t] = @ + 1]
    /\ UNCHANGED <<armed, due, closing>>

(* An execution ends; a failed one may request a retry. *)
End(t) ==
    /\ active[t] > 0
    /\ active' = [active EXCEPT ![t] = @ - 1]
    /\ closing' = [closing EXCEPT ![t] = @ + 1]
    /\ pending' \in {pending, [pending EXCEPT ![t] = @ + 1]}
    /\ UNCHANGED <<armed, due>>

Close(t) ==
    /\ closing[t] > 0
    /\ closing' = [closing EXCEPT ![t] = @ - 1]
    /\ UNCHANGED <<armed, due, pending, active>>

Next ==
    \/ \E t \in Task :
        \/ Arm(t) \/ Fire(t) \/ Request(t)
        \/ Begin(t) \/ End(t) \/ Close(t)
    \/ Disarm

Spec == Init /\ [][Next]_vars
==============================================================================
