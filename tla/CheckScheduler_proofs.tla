------------------------ MODULE CheckScheduler_proofs ------------------------
(***************************************************************************)
(* Theorems about CheckScheduler for every set of tasks, IDs and           *)
(* goroutines, every limit of concurrency and every number of restarts:    *)
(* the invariants of the goroutines and of the semaphore, the refinement   *)
(* of BoundedExecutor, the permits under SetMaxConcurrent, and what is     *)
(* left of a task whose timer is gone.                                     *)
(***************************************************************************)
EXTENDS CheckScheduler, PriorityQueue_proofs, OperatorLemmas

-----------------------------------------------------------------------------
(* Counting goroutines *)

LEMMA FiniteGoroutines ==
    /\ IsFiniteSet(InFlight) /\ Cardinality(InFlight) \in Nat
    /\ IsFiniteSet(CountedLoops) /\ Cardinality(CountedLoops) \in Nat
<1>1. InFlight \in SUBSET Exec /\ CountedLoops \in SUBSET Loop
    BY DEF InFlight, CountedLoops
<1>2. IsFiniteSet(Exec) /\ IsFiniteSet(Loop)
    BY SchedulerAssumption, FS_Interval DEF Loop
<1>. QED BY <1>1, <1>2, FS_Subset, FS_CardinalityType

(* One goroutine more, one less. *)
LEMMA OneMore ==
    ASSUME NEW S, NEW x, IsFiniteSet(S), x \notin S
    PROVE  Cardinality(S \cup {x}) = Cardinality(S) + 1
BY FS_AddElement

LEMMA OneLess ==
    ASSUME NEW S, NEW x, IsFiniteSet(S), x \in S
    PROVE  Cardinality(S \ {x}) = Cardinality(S) - 1
BY FS_RemoveElement

LEMMA Empty ==
    ASSUME NEW S, IsFiniteSet(S), Cardinality(S) = 0
    PROVE  S = {}
BY FS_EmptySet

-----------------------------------------------------------------------------
(* The initial states *)

LEMMA InitInv == Init => SchedulerInv
<1>. SUFFICES ASSUME Init PROVE SchedulerInv
    OBVIOUS
<1>1. 0 \in Channel /\ Limit \in Nat
    BY SchedulerAssumption DEF Channel
<1>2. TypeOK
    BY <1>1, SchedulerAssumption
    DEF Init, TypeOK, Channel, Status, NoLoop, Idle, NoResize, EmptyQueue, Loop, At,
        LoopState, ExecState
<1>3. InFlight = {} /\ CountedLoops = {}
    BY DEF Init, InFlight, CountedLoops, Idle, NoLoop, At
<1>4. Cardinality({}) = 0
    BY FS_EmptySet
<1>5. OneChannel
    BY <1>1 DEF Init, OneChannel, NoLoop, Idle, At
<1>6. Hands
    BY SchedulerAssumption DEF Init, Hands, NoLoop, Idle, At
<1>7. PermitPerExecution /\ WaitGroupCounts
    BY <1>1, <1>3, <1>4 DEF Init, PermitPerExecution, WaitGroupCounts
<1>8. GracefulStop /\ chanLen[0] <= Limit
    BY <1>1 DEF Init, GracefulStop
<1>. QED BY <1>2, <1>5, <1>6, <1>7, <1>8 DEF SchedulerInv, GoroutineInv

-----------------------------------------------------------------------------
(* Types *)

LEMMA GoroutineTypes ==
    /\ 0 \in Channel
    /\ \A p \in {"off", "spawned", "check", "pop", "acquire"}, t \in Task \cup {NoTask},
         c \in Channel : At(p, t, c) \in LoopState
    /\ \A p \in {"idle", "begin", "run", "release", "receive"}, t \in Task \cup {NoTask},
         c \in Channel : At(p, t, c) \in ExecState
BY SchedulerAssumption DEF At, LoopState, ExecState, Channel

LEMMA AtFields ==
    \A p, t, c : At(p, t, c).pc = p /\ At(p, t, c).task = t /\ At(p, t, c).sem = c
BY DEF At

LEMMA TimerTypes ==
    ASSUME TypeOK, NEW t \in Task, StartTaskTimer(t)
    PROVE  ticking' \in [Task -> BOOLEAN] /\ queue' \in Seq(Task)
BY PushType DEF TypeOK, StartTaskTimer

(* A tick that is received, moved on to its next point, or taken from p. *)
LEMMA TickMoves ==
    ASSUME TypeOK, NEW t \in Task
    PROVE  /\ TicksInHand(t) \in Nat
           /\ ticks' = [ticks EXCEPT ![t]["readEnabled"] = @ + 1] =>
                /\ ticks' \in [Task -> [TickPoint -> Nat]]
                /\ \A u \in Task \ {t} : ticks'[u] = ticks[u]
                /\ TicksInHand(t)' = TicksInHand(t) + 1
           /\ \A p \in TickPoint :
                ticks[t][p] > 0 /\ ticks' = [ticks EXCEPT ![t][p] = @ - 1] =>
                    /\ ticks' \in [Task -> [TickPoint -> Nat]]
                    /\ \A u \in Task \ {t} : ticks'[u] = ticks[u]
                    /\ TicksInHand(t) > 0
                    /\ TicksInHand(t)' = TicksInHand(t) - 1
           /\ \A p, q \in TickPoint :
                /\ p # q
                /\ ticks[t][p] > 0
                /\ ticks' = [ticks EXCEPT ![t][p] = @ - 1, ![t][q] = @ + 1]
                => /\ ticks' \in [Task -> [TickPoint -> Nat]]
                   /\ \A u \in Task \ {t} : ticks'[u] = ticks[u]
                   /\ TicksInHand(t)' = TicksInHand(t)
<1>1. /\ ticks \in [Task -> [TickPoint -> Nat]]
      /\ TickPoint = {"readEnabled", "readStatus", "push"}
    BY DEF TypeOK, TickPoint
<1>2. /\ ticks[t] \in [TickPoint -> Nat]
      /\ ticks[t]["readEnabled"] \in Nat
      /\ ticks[t]["readStatus"] \in Nat
      /\ ticks[t]["push"] \in Nat
    BY <1>1
<1>3. TicksInHand(t) \in Nat
    BY <1>2 DEF TicksInHand
<1>4. ASSUME NEW f \in [TickPoint -> Nat], ticks' = [ticks EXCEPT ![t] = f]
      PROVE  /\ ticks' \in [Task -> [TickPoint -> Nat]]
             /\ \A u \in Task \ {t} : ticks'[u] = ticks[u]
             /\ TicksInHand(t)' = f["readEnabled"] + f["readStatus"] + f["push"]
    BY <1>1, <1>4 DEF TicksInHand
<1>5. ASSUME ticks' = [ticks EXCEPT ![t]["readEnabled"] = @ + 1]
      PROVE  /\ ticks' \in [Task -> [TickPoint -> Nat]]
             /\ \A u \in Task \ {t} : ticks'[u] = ticks[u]
             /\ TicksInHand(t)' = TicksInHand(t) + 1
    <2>. DEFINE f == [ticks[t] EXCEPT !["readEnabled"] = @ + 1]
    <2>1. f \in [TickPoint -> Nat] /\ ticks' = [ticks EXCEPT ![t] = f]
        BY <1>1, <1>2, <1>5
    <2>2. /\ f["readEnabled"] = ticks[t]["readEnabled"] + 1
          /\ f["readStatus"] = ticks[t]["readStatus"] /\ f["push"] = ticks[t]["push"]
        BY <1>1, <1>2
    <2>3. f["readEnabled"] + f["readStatus"] + f["push"] = TicksInHand(t) + 1
        BY <1>2, <2>2 DEF TicksInHand
    <2>. HIDE DEF f
    <2>. QED BY <1>4, <2>1, <2>3
<1>6. ASSUME NEW p \in TickPoint, ticks[t][p] > 0, ticks' = [ticks EXCEPT ![t][p] = @ - 1]
      PROVE  /\ ticks' \in [Task -> [TickPoint -> Nat]]
             /\ \A u \in Task \ {t} : ticks'[u] = ticks[u]
             /\ TicksInHand(t) > 0
             /\ TicksInHand(t)' = TicksInHand(t) - 1
    <2>. DEFINE f == [ticks[t] EXCEPT ![p] = @ - 1]
    <2>1. f \in [TickPoint -> Nat] /\ ticks' = [ticks EXCEPT ![t] = f]
        BY <1>1, <1>2, <1>6
    <2>2. \A q \in TickPoint : f[q] = IF q = p THEN ticks[t][q] - 1 ELSE ticks[t][q]
        BY <1>1, <1>2
    <2>3. f["readEnabled"] + f["readStatus"] + f["push"] = TicksInHand(t) - 1
        BY <1>1, <1>2, <2>2 DEF TicksInHand
    <2>4. TicksInHand(t) > 0
        BY <1>1, <1>2, <1>6 DEF TicksInHand
    <2>. HIDE DEF f
    <2>. QED BY <1>4, <2>1, <2>3, <2>4
<1>7. ASSUME NEW p \in TickPoint, NEW q \in TickPoint, p # q, ticks[t][p] > 0,
             ticks' = [ticks EXCEPT ![t][p] = @ - 1, ![t][q] = @ + 1]
      PROVE  /\ ticks' \in [Task -> [TickPoint -> Nat]]
             /\ \A u \in Task \ {t} : ticks'[u] = ticks[u]
             /\ TicksInHand(t)' = TicksInHand(t)
    <2>. DEFINE f == [ticks[t] EXCEPT ![p] = @ - 1, ![q] = @ + 1]
    <2>1. f \in [TickPoint -> Nat] /\ ticks' = [ticks EXCEPT ![t] = f]
        BY <1>1, <1>2, <1>7
    <2>2. \A r \in TickPoint : f[r] = IF r = p THEN ticks[t][r] - 1
                                   ELSE IF r = q THEN ticks[t][r] + 1 ELSE ticks[t][r]
        BY <1>1, <1>2, <1>7
    <2>3. f["readEnabled"] + f["readStatus"] + f["push"] = TicksInHand(t)
        BY <1>1, <1>2, <1>7, <2>2 DEF TicksInHand
    <2>. HIDE DEF f
    <2>. QED BY <1>4, <2>1, <2>3
<1>. QED BY <1>3, <1>5, <1>6, <1>7

(* What a step of a timer does to the ticks in hand and to the requests *)
LEMMA TickSteps ==
    ASSUME TypeOK, NEW t \in Task, TickFires(t) \/ HandleTick(t)
    PROVE  /\ ticks' \in [Task -> [TickPoint -> Nat]]
           /\ \A u \in Task \ {t} : ticks'[u] = ticks[u]
           /\ \/ /\ ticking[t] /\ queue' = queue
                 /\ TicksInHand(t)' = TicksInHand(t) + 1
              \/ TicksInHand(t)' = TicksInHand(t) /\ queue' = queue
              \/ /\ TicksInHand(t) > 0 /\ TicksInHand(t)' = TicksInHand(t) - 1
                 /\ queue' = queue \/ queue' = Push(queue, t)
<1>1. {"readEnabled", "readStatus", "push"} = TickPoint
    BY DEF TickPoint
<1>2. CASE TickFires(t)
    BY <1>2, TickMoves DEF TickFires
<1>3. ASSUME NEW p \in TickPoint, NEW q \in TickPoint, NEW allowed, p # q,
             TickReads(t, p, q, allowed)
      PROVE  /\ ticks' \in [Task -> [TickPoint -> Nat]]
             /\ \A u \in Task \ {t} : ticks'[u] = ticks[u]
             /\ queue' = queue
             /\ \/ TicksInHand(t)' = TicksInHand(t)
                \/ TicksInHand(t) > 0 /\ TicksInHand(t)' = TicksInHand(t) - 1
    <2>1. CASE allowed
        BY <1>3, <2>1, TickMoves DEF TickReads
    <2>2. CASE ~allowed
        BY <1>3, <2>2, TickMoves DEF TickReads
    <2>. QED BY <2>1, <2>2
<1>4. CASE TickReadsEnabled(t)
    BY <1>1, <1>3, <1>4 DEF TickReadsEnabled
<1>5. CASE TickReadsStatus(t)
    BY <1>1, <1>3, <1>5 DEF TickReadsStatus
<1>6. CASE TickPushes(t)
    BY <1>1, <1>6, TickMoves DEF TickPushes
<1>. QED BY <1>2, <1>4, <1>5, <1>6 DEF HandleTick

(* The wait group is positive while a goroutine it counts is alive. *)
LEMMA GoroutinesCounted ==
    ASSUME TypeOK, WaitGroupCounts
    PROVE  /\ \A k \in CountedLoops : wg - 1 \in Nat
           /\ \A e \in InFlight : wg - 1 \in Nat
<1>1. \A k \in CountedLoops : Cardinality(CountedLoops) > 0
    BY FiniteGoroutines, FS_EmptySet
<1>2. \A e \in InFlight : Cardinality(InFlight) > 0
    BY FiniteGoroutines, FS_EmptySet
<1>. QED BY <1>1, <1>2, FiniteGoroutines DEF TypeOK, WaitGroupCounts

LEMMA TypeStep == GoroutineInv /\ [Next]_vars => TypeOK'
<1>. SUFFICES ASSUME GoroutineInv, [Next]_vars PROVE TypeOK'
    OBVIOUS
<1>. USE DEF taskVars, lifeVars, semVars
<1>0. TypeOK /\ Hands /\ WaitGroupCounts
    BY DEF GoroutineInv
<1>1. ASSUME NEW t \in Task, AddTask(t) PROVE TypeOK'
    BY <1>0, <1>1, TimerTypes, SchedulerAssumption DEF TypeOK, AddTask, Status
<1>2. ASSUME NEW t \in Task, UpdateTask(t) PROVE TypeOK'
    <2>1. tasks[IdOf[t]] \in Task
        BY <1>0, <1>2, SchedulerAssumption DEF TypeOK, UpdateTask, Known
    <2>2. tasks' \in [Id -> Task \cup {NoTask}]
        BY <1>0, <1>2, SchedulerAssumption DEF TypeOK, UpdateTask
    <2>3. ticking' \in [Task -> BOOLEAN] /\ queue' \in Seq(Task)
        <3>1. CASE enabled[t] /\ Running
            <4>1. ticking' = [ticking EXCEPT ![tasks[IdOf[t]]] = FALSE, ![t] = TRUE]
                BY <1>2, <3>1 DEF UpdateTask
            <4>2. queue' = Push(queue, t) \/ queue' = queue
                BY <1>2, <3>1 DEF UpdateTask
            <4>3. ticking' \in [Task -> BOOLEAN]
                BY <1>0, <4>1 DEF TypeOK
            <4>. QED BY <1>0, <4>2, <4>3, PushType DEF TypeOK
        <3>2. CASE ~(enabled[t] /\ Running)
            BY <1>0, <1>2, <2>1, <3>2 DEF TypeOK, UpdateTask, StopTaskTimer
        <3>. QED BY <3>1, <3>2
    <2>. QED BY <1>0, <1>2, <2>2, <2>3 DEF TypeOK, UpdateTask
<1>3. ASSUME NEW i \in Id, RemoveTask(i) PROVE TypeOK'
    BY <1>0, <1>3 DEF TypeOK, RemoveTask, Known, StopTaskTimer
<1>4. ASSUME NEW i \in Id, StartTask(i) PROVE TypeOK'
    BY <1>0, <1>4, TimerTypes DEF TypeOK, StartTask, Status, Known
<1>5. ASSUME NEW i \in Id, StopTask(i) PROVE TypeOK'
    BY <1>0, <1>5 DEF TypeOK, StopTask, Status, Known, StopTaskTimer
<1>6. ASSUME NEW i \in Id, PauseTask(i) PROVE TypeOK'
    BY <1>0, <1>6 DEF TypeOK, PauseTask, Status, Known, StopTaskTimer
<1>7. ASSUME NEW i \in Id, ResumeTask(i) PROVE TypeOK'
    BY <1>0, <1>7, TimerTypes DEF TypeOK, ResumeTask, Status, Known
<1>8. ASSUME NEW t \in Task, TickFires(t) \/ HandleTick(t) PROVE TypeOK'
    <2>1. queue' \in Seq(Task) /\ ticks' \in [Task -> [TickPoint -> Nat]]
        BY <1>0, <1>8, TickSteps, PushType DEF TypeOK
    <2>. QED BY <1>0, <1>8, <2>1
        DEF TypeOK, TickFires, HandleTick, TickReadsEnabled, TickReadsStatus, TickReads,
            TickPushes
<1>9. ASSUME NEW t \in Task, TimerExit(t) PROVE TypeOK'
    BY <1>0, <1>9 DEF TypeOK, TimerExit
<1>10. ASSUME Start PROVE TypeOK'
    BY <1>0, <1>10, GoroutineTypes, SchedulerAssumption
    DEF TypeOK, Start, NoLoop, Loop
<1>11. ASSUME StartTimers PROVE TypeOK'
    BY <1>0, <1>11 DEF TypeOK, StartTimers, Known
<1>12. ASSUME NEW t \in Task, StartNextTimer(t) PROVE TypeOK'
    BY <1>0, <1>12, TimerTypes DEF TypeOK, StartNextTimer
<1>13. ASSUME StartReturns PROVE TypeOK'
    BY <1>0, <1>13 DEF TypeOK, StartReturns
<1>14. ASSUME CancelParent PROVE TypeOK'
    BY <1>0, <1>14 DEF TypeOK, CancelParent
<1>15. ASSUME Stop PROVE TypeOK'
    BY <1>0, <1>15 DEF TypeOK, Stop
<1>16. ASSUME StopGracefully PROVE TypeOK'
    BY <1>0, <1>16 DEF TypeOK, StopGracefully
<1>17. ASSUME StopTimesOut PROVE TypeOK'
    BY <1>0, <1>17 DEF TypeOK, StopTimesOut
<1>18. ASSUME NEW k \in Loop, LoopEnter(k) PROVE TypeOK'
    BY <1>0, <1>18, GoroutineTypes, SchedulerAssumption
    DEF TypeOK, LoopEnter, Hands, Loop
<1>19. ASSUME NEW k \in Loop, LoopExit(k) PROVE TypeOK'
    <2>1. k \in CountedLoops
        BY <1>19 DEF LoopExit, CountedLoops
    <2>2. wg - 1 \in Nat
        BY <1>0, <2>1, GoroutinesCounted
    <2>. QED BY <1>0, <1>19, <2>2, GoroutineTypes DEF TypeOK, LoopExit, NoLoop
<1>20. ASSUME NEW k \in Loop, LoopGoOn(k) PROVE TypeOK'
    BY <1>0, <1>20, GoroutineTypes DEF TypeOK, LoopGoOn, Hands
<1>21. ASSUME NEW k \in Loop, LoopFindsNothing(k) PROVE TypeOK'
    BY <1>0, <1>21, GoroutineTypes
    DEF TypeOK, LoopFindsNothing, Hands
<1>22. ASSUME NEW k \in Loop, LoopPop(k) PROVE TypeOK'
    BY <1>0, <1>22, PopFacts, GoroutineTypes
    DEF TypeOK, LoopPop, Hands
<1>23. ASSUME NEW k \in Loop, LoopRequeue(k) PROVE TypeOK'
    BY <1>0, <1>23, PushType, GoroutineTypes
    DEF TypeOK, LoopRequeue, Hands
<1>24. ASSUME NEW k \in Loop, NEW e \in Exec, LoopLaunch(k, e) PROVE TypeOK'
    <2>1. chanLen' \in [Channel -> Nat]
        <3>1. loop[k].sem \in Channel
            BY <1>0 DEF TypeOK, LoopState
        <3>2. chanLen[loop[k].sem] + 1 \in Nat
            BY <1>0, <3>1 DEF TypeOK
        <3>. QED BY <1>0, <1>24, <3>1, <3>2 DEF TypeOK, LoopLaunch
    <2>2. loop[k].task \in Task \cup {NoTask}
        BY <1>0 DEF TypeOK, LoopState
    <2>3. exec' \in [Exec -> ExecState]
        BY <1>0, <1>24, <2>2, GoroutineTypes DEF TypeOK, LoopLaunch
    <2>4. loop' \in [Loop -> LoopState]
        BY <1>0, <1>24, GoroutineTypes DEF TypeOK, LoopLaunch
    <2>5. wg' \in Nat
        BY <1>0, <1>24 DEF TypeOK, LoopLaunch
    <2>. QED BY <1>0, <1>24, <2>1, <2>3, <2>4, <2>5 DEF TypeOK, LoopLaunch
<1>25. ASSUME NEW e \in Exec, ExecBegin(e) PROVE TypeOK'
    BY <1>0, <1>25, GoroutineTypes
    DEF TypeOK, ExecBegin, Hands, Status
<1>26. ASSUME NEW e \in Exec, ExecSucceeds(e) PROVE TypeOK'
    BY <1>0, <1>26, GoroutineTypes
    DEF TypeOK, ExecSucceeds, Hands, Status
<1>27. ASSUME NEW e \in Exec, ExecFails(e) PROVE TypeOK'
    <2>1. exec[e].task \in Task
        BY <1>0, <1>27 DEF ExecFails, Hands
    <2>2. exec' \in [Exec -> ExecState]
        BY <1>0, <1>27, <2>1, GoroutineTypes DEF TypeOK, ExecFails
    <2>3. queue' \in Seq(Task)
        BY <1>0, <1>27, <2>1, PushType DEF TypeOK, ExecFails
    <2>4. enabled' \in [Task -> BOOLEAN] /\ status' \in [Task -> Status]
        BY <1>0, <1>27, <2>1 DEF TypeOK, ExecFails, Status
    <2>5. retryCount' \in [Task -> Nat]
        BY <1>0, <1>27, <2>1 DEF TypeOK, ExecFails
    <2>. QED BY <1>0, <1>27, <2>2, <2>3, <2>4, <2>5 DEF TypeOK, ExecFails
<1>28. ASSUME NEW e \in Exec, ExecRelease(e) PROVE TypeOK'
    BY <1>0, <1>28, GoroutineTypes DEF TypeOK, ExecRelease, Hands
<1>29. ASSUME NEW e \in Exec, ExecReceive(e) PROVE TypeOK'
    <2>1. e \in InFlight
        BY <1>29 DEF ExecReceive, InFlight
    <2>2. wg - 1 \in Nat
        BY <1>0, <2>1, GoroutinesCounted
    <2>. DEFINE c == exec[e].sem
    <2>3. c \in Channel
        BY <1>0 DEF TypeOK, ExecState
    <2>4. chanLen' \in [Channel -> Nat]
        <3>1. chanLen[c] \in Nat /\ chanLen[c] > 0
            BY <1>0, <1>29, <2>3 DEF TypeOK, ExecReceive
        <3>2. chanLen' = [chanLen EXCEPT ![c] = chanLen[c] - 1]
            BY <1>29 DEF ExecReceive
        <3>3. chanLen[c] - 1 \in Nat
            BY <3>1
        <3>. QED BY <1>0, <3>2, <3>3 DEF TypeOK
    <2>. QED BY <1>0, <1>29, <2>2, <2>4, GoroutineTypes DEF TypeOK, ExecReceive, Idle
<1>30. CASE UNCHANGED vars
    BY <1>0, <1>30 DEF TypeOK, vars
<1>. QED BY <1>1, <1>2, <1>3, <1>4, <1>5, <1>6, <1>7, <1>8, <1>9, <1>10,
         <1>11, <1>12, <1>13, <1>14, <1>15, <1>16, <1>17, <1>18, <1>19, <1>20,
         <1>21, <1>22, <1>23, <1>24, <1>25, <1>26, <1>27, <1>28, <1>29, <1>30
    DEF Next, TaskOperation, Timer, StartStop, ExecutionLoop, ExecuteTask

-----------------------------------------------------------------------------
(* One channel, and what goroutines have in hand *)

(* The steps that touch no goroutine of the loop and of executeTask. *)
Quiet ==
    /\ UNCHANGED <<wg, loop, exec, semaphore, chanLen, chanCap, resize, starts>>
    /\ mu' \in {mu, "free", "startTimers"}

LoopStep == \E k \in Loop : ExecutionLoop(k)
ExecStep == \E e \in Exec : ExecuteTask(e)

LEMMA StepKinds ==
    ASSUME [Next]_vars
    PROVE  Quiet \/ Start \/ LoopStep \/ ExecStep
<1>. USE DEF taskVars, lifeVars, semVars
<1>1. CASE TaskOperation
    BY <1>1 DEF TaskOperation, Quiet, AddTask, UpdateTask, RemoveTask, StartTask,
        StopTask, PauseTask, ResumeTask
<1>2. CASE \E t \in Task : Timer(t)
    BY <1>2 DEF Timer, TickFires, HandleTick, TickReadsEnabled, TickReadsStatus,
        TickReads, TickPushes, TimerExit, Quiet
<1>3. CASE StartStop
    BY <1>3 DEF StartStop, Quiet, StartTimers, StartNextTimer, StartReturns,
        CancelParent, Stop, StopGracefully, StopTimesOut
<1>4. CASE UNCHANGED vars
    BY <1>4 DEF vars, Quiet
<1>. QED BY <1>1, <1>2, <1>3, <1>4 DEF Next, LoopStep, ExecStep

(* What a step of the loop and of an execution does to the goroutines. *)
LEMMA LoopUpdate ==
    ASSUME TypeOK, NEW k \in Loop, NEW p, NEW t, NEW c,
           loop' = [loop EXCEPT ![k] = At(p, t, c)]
    PROVE  CountedLoops' = IF p \in {"check", "pop", "acquire"}
                           THEN CountedLoops \cup {k} ELSE CountedLoops \ {k}
<1>1. \A j \in Loop : loop'[j].pc = IF j = k THEN p ELSE loop[j].pc
    BY AtFields DEF TypeOK
<1>. QED BY <1>1 DEF CountedLoops

LEMMA ExecUpdate ==
    ASSUME TypeOK, NEW e \in Exec, NEW p, NEW t, NEW c,
           exec' = [exec EXCEPT ![e] = At(p, t, c)]
    PROVE  /\ p # "idle" => InFlight' = InFlight \cup {e}
           /\ p = "idle" => InFlight' = InFlight \ {e}
<1>1. \A j \in Exec : exec'[j].pc = IF j = e THEN p ELSE exec[j].pc
    BY AtFields DEF TypeOK
<1>. QED BY <1>1 DEF InFlight

LEMMA OneChannelStep == SchedulerInv /\ [Next]_vars => OneChannel'
<1>. SUFFICES ASSUME SchedulerInv, [Next]_vars PROVE OneChannel'
    OBVIOUS
<1>. USE DEF taskVars, lifeVars, semVars
<1>0. TypeOK /\ OneChannel
    BY DEF SchedulerInv, GoroutineInv
<1>1. CASE Quiet
    BY <1>0, <1>1 DEF Quiet, OneChannel
<1>2. CASE Start
    BY <1>0, <1>2, AtFields DEF TypeOK, OneChannel, Start
<1>3. CASE LoopStep
    <2>. PICK k \in Loop : ExecutionLoop(k)
        BY <1>3 DEF LoopStep
    <2>1. /\ \A j \in Loop : loop'[j].sem = 0
          /\ \A e \in Exec : exec'[e].sem = 0
        <3>1. \E p, t : loop' = [loop EXCEPT ![k] = At(p, t, 0)]
            BY <1>0 DEF OneChannel, ExecutionLoop, LoopEnter, LoopExit, LoopGoOn,
                LoopFindsNothing, LoopPop, LoopRequeue, LoopLaunch, NoLoop
        <3>2. exec' = exec \/ \E e \in Exec : \E p, t : exec' = [exec EXCEPT ![e] = At(p, t, 0)]
            BY DEF ExecutionLoop, LoopEnter, LoopExit, LoopGoOn, LoopFindsNothing,
                LoopPop, LoopRequeue, LoopLaunch
        <3>3. \A j \in Loop : loop'[j].sem = 0
            BY <1>0, <3>1, AtFields DEF TypeOK, OneChannel
        <3>4. \A e \in Exec : exec'[e].sem = 0
            <4>1. CASE exec' = exec
                BY <1>0, <4>1 DEF OneChannel
            <4>2. CASE \E e \in Exec : \E p, t : exec' = [exec EXCEPT ![e] = At(p, t, 0)]
                BY <1>0, <4>2, AtFields DEF TypeOK, OneChannel
            <4>. QED BY <3>2, <4>1, <4>2
        <3>. QED BY <3>3, <3>4
    <2>. QED BY <1>0, <2>1 DEF OneChannel, ExecutionLoop, LoopEnter, LoopExit, LoopGoOn,
            LoopFindsNothing, LoopPop, LoopRequeue, LoopLaunch
<1>4. CASE ExecStep
    <2>. PICK e \in Exec : ExecuteTask(e)
        BY <1>4 DEF ExecStep
    <2>1. \A j \in Exec : exec'[j].sem = 0
        <3>1. \E p, t : exec' = [exec EXCEPT ![e] = At(p, t, 0)]
            BY <1>0 DEF OneChannel, ExecuteTask, ExecBegin, ExecSucceeds, ExecFails,
                ExecRelease, ExecReceive, Idle
        <3>. QED BY <1>0, <3>1, AtFields DEF TypeOK, OneChannel
    <2>. QED BY <1>0, <2>1 DEF OneChannel, ExecuteTask, ExecBegin, ExecSucceeds,
            ExecFails, ExecRelease, ExecReceive
<1>. QED BY <1>1, <1>2, <1>3, <1>4, StepKinds

LEMMA HandsStep == GoroutineInv /\ [Next]_vars => Hands'
<1>. SUFFICES ASSUME GoroutineInv, [Next]_vars PROVE Hands'
    OBVIOUS
<1>. USE DEF taskVars, lifeVars, semVars
<1>0. TypeOK /\ Hands
    BY DEF GoroutineInv
<1>1. life' \in {"stopping", "stopped"} => ctx' = "done"
    BY <1>0 DEF Hands, Next, vars, TaskOperation, Timer, StartStop, ExecutionLoop,
        ExecuteTask, AddTask, UpdateTask, RemoveTask, StartTask, StopTask, PauseTask,
        ResumeTask, TickFires, HandleTick, TickReadsEnabled, TickReadsStatus,
        TickReads, TickPushes, TimerExit, Start, StartTimers, StartNextTimer, StartReturns,
        CancelParent, Stop, StopGracefully, StopTimesOut, LoopEnter, LoopExit, LoopGoOn,
        LoopFindsNothing, LoopPop, LoopRequeue, LoopLaunch, ExecBegin, ExecSucceeds,
        ExecFails, ExecRelease, ExecReceive
<1>2. CASE Quiet
    BY <1>0, <1>1, <1>2 DEF Quiet, Hands
<1>3. CASE Start
    <2>1. starts' = starts + 1 /\ exec' = exec /\ starts \in Nat
        BY <1>0, <1>3, SchedulerAssumption DEF TypeOK, Start
    <2>2. \A j \in Loop : j # starts + 1 => loop'[j] = loop[j]
        BY <1>0, <1>3 DEF TypeOK, Start
    <2>3. starts + 1 \in Loop => loop'[starts + 1] = At("spawned", NoTask, 0)
        BY <1>0, <1>3 DEF TypeOK, Start
    <2>4. \A j \in Loop : j > starts' => loop'[j].pc = "off"
        BY <1>0, <2>1, <2>2 DEF Hands, Loop
    <2>5. \A j \in Loop : loop'[j].pc = "acquire" <=> loop'[j].task \in Task
        BY <1>0, <2>2, <2>3, AtFields, SchedulerAssumption DEF Hands
    <2>. QED BY <1>0, <1>1, <2>1, <2>4, <2>5 DEF Hands
<1>4. CASE LoopStep
    <2>. PICK k \in Loop : ExecutionLoop(k)
        BY <1>4 DEF LoopStep
    <2>1. /\ starts' = starts
          /\ \A j \in Loop \ {k} : loop'[j] = loop[j]
          /\ loop[k].pc # "off"
        BY <1>0 DEF TypeOK, ExecutionLoop, LoopEnter, LoopExit, LoopGoOn,
            LoopFindsNothing, LoopPop, LoopRequeue, LoopLaunch
    <2>2. loop'[k].pc = "acquire" <=> loop'[k].task \in Task
        BY <1>0, AtFields, PopFacts, SchedulerAssumption DEF TypeOK, ExecutionLoop,
            LoopEnter, LoopExit, LoopGoOn, LoopFindsNothing, LoopPop, LoopRequeue,
            LoopLaunch, NoLoop
    <2>3. /\ \A j \in Exec : exec'[j].pc = "idle" => exec'[j] = Idle
          /\ \A j \in Exec : exec'[j].pc # "idle" => exec'[j].task \in Task
        <3>1. CASE exec' = exec
            BY <1>0, <3>1 DEF Hands
        <3>2. CASE \E e \in Exec : LoopLaunch(k, e)
            BY <1>0, <3>2, AtFields DEF TypeOK, Hands, LoopLaunch
        <3>. QED BY <3>1, <3>2 DEF ExecutionLoop, LoopEnter, LoopExit, LoopGoOn,
                LoopFindsNothing, LoopPop, LoopRequeue
    <2>4. \A j \in Loop : j > starts' => loop'[j].pc = "off"
        BY <1>0, <2>1 DEF Hands
    <2>5. \A j \in Loop : loop'[j].pc = "acquire" <=> loop'[j].task \in Task
        BY <1>0, <2>1, <2>2 DEF Hands
    <2>. QED BY <1>1, <2>3, <2>4, <2>5 DEF Hands
<1>5. CASE ExecStep
    <2>. PICK e \in Exec : ExecuteTask(e)
        BY <1>5 DEF ExecStep
    <2>1. /\ starts' = starts /\ loop' = loop
          /\ \A j \in Exec \ {e} : exec'[j] = exec[j]
          /\ exec[e].pc # "idle"
        BY <1>0 DEF TypeOK, ExecuteTask, ExecBegin, ExecSucceeds, ExecFails, ExecRelease,
            ExecReceive
    <2>2. \/ exec'[e] = Idle
          \/ exec'[e].pc # "idle" /\ exec'[e].task = exec[e].task
        BY <1>0, AtFields DEF TypeOK, ExecuteTask, ExecBegin, ExecSucceeds, ExecFails,
            ExecRelease, ExecReceive
    <2>3. Idle.pc = "idle"
        BY AtFields DEF Idle
    <2>. QED BY <1>0, <1>1, <2>1, <2>2, <2>3 DEF Hands
<1>. QED BY <1>2, <1>3, <1>4, <1>5, StepKinds

-----------------------------------------------------------------------------
(* Permits, the wait group and Stop *)

LEMMA PermitStep ==
    SchedulerInv /\ [Next]_vars => PermitPerExecution' /\ chanLen'[0] <= Limit
<1>. SUFFICES ASSUME SchedulerInv, [Next]_vars
              PROVE  PermitPerExecution' /\ chanLen'[0] <= Limit
    OBVIOUS
<1>. USE DEF taskVars, lifeVars, semVars
<1>0. /\ TypeOK /\ OneChannel /\ PermitPerExecution
      /\ semaphore = 0 /\ semaphore' = 0 /\ chanCap[0] = Limit
      /\ chanLen[0] \in Nat /\ chanLen[0] <= Limit /\ Limit \in Nat
      /\ 0 \in Channel
    BY OneChannelStep, SchedulerAssumption
    DEF SchedulerInv, GoroutineInv, OneChannel, TypeOK, Channel
<1>1. CASE UNCHANGED <<exec, chanLen>>
    BY <1>0, <1>1 DEF PermitPerExecution, InFlight
<1>2. ASSUME NEW k \in Loop, NEW e \in Exec, LoopLaunch(k, e)
      PROVE  PermitPerExecution' /\ chanLen'[0] <= Limit
    <2>1. loop[k].sem = 0
        BY <1>0 DEF OneChannel
    <2>2. chanLen[0] < Limit /\ chanLen' = [chanLen EXCEPT ![0] = chanLen[0] + 1]
        BY <1>0, <1>2, <2>1 DEF LoopLaunch, HasRoom
    <2>3. chanLen'[0] = chanLen[0] + 1
        BY <1>0, <2>2 DEF TypeOK
    <2>4. e \notin InFlight
        BY <1>2, AtFields DEF LoopLaunch, InFlight, Idle
    <2>5. InFlight' = InFlight \cup {e}
        <3>1. \E p, t, c : p # "idle" /\ exec' = [exec EXCEPT ![e] = At(p, t, c)]
            BY <1>2 DEF LoopLaunch
        <3>. QED BY <1>0, <3>1, ExecUpdate
    <2>6. Cardinality(InFlight') = Cardinality(InFlight) + 1
        BY <2>4, <2>5, FiniteGoroutines, OneMore
    <2>. QED BY <1>0, <2>2, <2>3, <2>6 DEF PermitPerExecution
<1>3. CASE ExecStep
    <2>. PICK e \in Exec : ExecuteTask(e)
        BY <1>3 DEF ExecStep
    <2>1. CASE ExecReceive(e)
        <3>1. exec[e].sem = 0
            BY <1>0 DEF OneChannel
        <3>2. chanLen[0] > 0 /\ chanLen' = [chanLen EXCEPT ![0] = chanLen[0] - 1]
            BY <2>1, <3>1 DEF ExecReceive
        <3>3. chanLen'[0] = chanLen[0] - 1
            BY <1>0, <3>2 DEF TypeOK
        <3>4. e \in InFlight
            BY <2>1 DEF ExecReceive, InFlight
        <3>5. InFlight' = InFlight \ {e}
            BY <1>0, <2>1, ExecUpdate DEF ExecReceive, Idle
        <3>6. Cardinality(InFlight') = Cardinality(InFlight) - 1
            BY <3>4, <3>5, FiniteGoroutines, OneLess
        <3>. QED BY <1>0, <3>3, <3>6 DEF PermitPerExecution
    <2>2. CASE ~ExecReceive(e)
        <3>1. chanLen' = chanLen
            BY <2>2 DEF ExecuteTask, ExecBegin, ExecSucceeds, ExecFails, ExecRelease
        <3>2. e \in InFlight /\ InFlight' = InFlight \cup {e}
            <4>1. e \in InFlight
                BY <2>2 DEF ExecuteTask, ExecBegin, ExecSucceeds, ExecFails, ExecRelease,
                    InFlight
            <4>2. \E p, t, c : p # "idle" /\ exec' = [exec EXCEPT ![e] = At(p, t, c)]
                BY <2>2 DEF ExecuteTask, ExecBegin, ExecSucceeds, ExecFails, ExecRelease
            <4>. QED BY <1>0, <4>1, <4>2, ExecUpdate
        <3>3. InFlight' = InFlight
            BY <3>2
        <3>. QED BY <1>0, <3>1, <3>3 DEF PermitPerExecution
    <2>. QED BY <2>1, <2>2
<1>4. \/ UNCHANGED <<exec, chanLen>>
      \/ \E k \in Loop, e \in Exec : LoopLaunch(k, e)
      \/ ExecStep
    BY StepKinds DEF Quiet, Start, LoopStep, ExecutionLoop, LoopEnter, LoopExit,
        LoopGoOn, LoopFindsNothing, LoopPop, LoopRequeue
<1>. QED BY <1>1, <1>2, <1>3, <1>4

LEMMA WaitGroupStep == GoroutineInv /\ [Next]_vars => WaitGroupCounts'
<1>. SUFFICES ASSUME GoroutineInv, [Next]_vars PROVE WaitGroupCounts'
    OBVIOUS
<1>. USE DEF taskVars, lifeVars, semVars
<1>0. /\ TypeOK /\ Hands /\ WaitGroupCounts /\ wg \in Nat
      /\ Cardinality(InFlight) \in Nat /\ Cardinality(CountedLoops) \in Nat
    BY FiniteGoroutines DEF GoroutineInv, TypeOK
<1>1. CASE Quiet
    BY <1>1, <1>0 DEF Quiet, WaitGroupCounts, InFlight, CountedLoops
<1>2. CASE Start
    <2>1. starts + 1 \in Loop
        BY <1>0, <1>2, SchedulerAssumption DEF Start, TypeOK, Loop
    <2>2. starts + 1 \notin CountedLoops
        <3>1. starts \in Nat
            BY <1>0, SchedulerAssumption DEF TypeOK
        <3>2. loop[starts + 1].pc = "off"
            BY <1>0, <2>1, <3>1 DEF Hands
        <3>. QED BY <3>2 DEF CountedLoops
    <2>3. CountedLoops' = CountedLoops \ {starts + 1}
        BY <1>0, <1>2, <2>1, LoopUpdate DEF Start
    <2>4. CountedLoops' = CountedLoops /\ InFlight' = InFlight /\ wg' = wg
        BY <1>2, <2>2, <2>3 DEF Start, InFlight
    <2>. QED BY <1>0, <2>4 DEF WaitGroupCounts
<1>3. CASE LoopStep
    <2>. PICK k \in Loop : ExecutionLoop(k)
        BY <1>3 DEF LoopStep
    <2>1. CASE LoopEnter(k)
        <3>1. CountedLoops' = CountedLoops \cup {k} /\ k \notin CountedLoops
            BY <1>0, <2>1, LoopUpdate DEF LoopEnter, CountedLoops
        <3>2. Cardinality(CountedLoops') = Cardinality(CountedLoops) + 1
            BY <3>1, FiniteGoroutines, OneMore
        <3>3. InFlight' = InFlight /\ wg' = wg + 1
            BY <2>1 DEF LoopEnter, InFlight
        <3>. QED BY <1>0, <3>2, <3>3 DEF WaitGroupCounts
    <2>2. CASE LoopExit(k)
        <3>1. CountedLoops' = CountedLoops \ {k} /\ k \in CountedLoops
            BY <1>0, <2>2, LoopUpdate DEF LoopExit, CountedLoops, NoLoop
        <3>2. Cardinality(CountedLoops') = Cardinality(CountedLoops) - 1
            BY <3>1, FiniteGoroutines, OneLess
        <3>3. InFlight' = InFlight /\ wg' = wg - 1
            BY <2>2 DEF LoopExit, InFlight
        <3>. QED BY <1>0, <3>2, <3>3 DEF WaitGroupCounts
    <2>3. CASE \E e \in Exec : LoopLaunch(k, e)
        <3>. PICK e \in Exec : LoopLaunch(k, e)
            BY <2>3
        <3>1. CountedLoops' = CountedLoops \cup {k} /\ k \in CountedLoops
            BY <1>0, LoopUpdate DEF LoopLaunch, CountedLoops
        <3>2. InFlight' = InFlight \cup {e} /\ e \notin InFlight
            <4>1. \E p, t, c : p # "idle" /\ exec' = [exec EXCEPT ![e] = At(p, t, c)]
                BY DEF LoopLaunch
            <4>2. e \notin InFlight
                BY AtFields DEF LoopLaunch, InFlight, Idle
            <4>. QED BY <1>0, <4>1, <4>2, ExecUpdate
        <3>3. Cardinality(InFlight') = Cardinality(InFlight) + 1
            BY <3>2, FiniteGoroutines, OneMore
        <3>4. CountedLoops' = CountedLoops /\ wg' = wg + 1
            BY <3>1 DEF LoopLaunch
        <3>. QED BY <1>0, <3>3, <3>4 DEF WaitGroupCounts
    <2>4. CASE LoopGoOn(k) \/ LoopFindsNothing(k) \/ LoopPop(k) \/ LoopRequeue(k)
        <3>1. k \in CountedLoops
            BY <2>4 DEF LoopGoOn, LoopFindsNothing, LoopPop, LoopRequeue, CountedLoops
        <3>2. \E p \in {"check", "pop", "acquire"} : \E t, c :
                loop' = [loop EXCEPT ![k] = At(p, t, c)]
            BY <2>4 DEF LoopGoOn, LoopFindsNothing, LoopPop, LoopRequeue
        <3>3. CountedLoops' = CountedLoops \cup {k}
            BY <1>0, <3>2, LoopUpdate
        <3>4. CountedLoops' = CountedLoops /\ InFlight' = InFlight /\ wg' = wg
            BY <2>4, <3>1, <3>3
            DEF LoopGoOn, LoopFindsNothing, LoopPop, LoopRequeue, InFlight
        <3>. QED BY <1>0, <3>4 DEF WaitGroupCounts
    <2>. QED BY <2>1, <2>2, <2>3, <2>4 DEF ExecutionLoop
<1>4. CASE ExecStep
    <2>. PICK e \in Exec : ExecuteTask(e)
        BY <1>4 DEF ExecStep
    <2>1. CountedLoops' = CountedLoops
        BY DEF ExecuteTask, ExecBegin, ExecSucceeds, ExecFails, ExecRelease, ExecReceive,
            CountedLoops
    <2>2. CASE ExecReceive(e)
        <3>1. InFlight' = InFlight \ {e} /\ e \in InFlight
            BY <1>0, <2>2, ExecUpdate DEF ExecReceive, Idle, InFlight
        <3>2. Cardinality(InFlight') = Cardinality(InFlight) - 1
            BY <3>1, FiniteGoroutines, OneLess
        <3>. QED BY <1>0, <2>1, <2>2, <3>2 DEF WaitGroupCounts, ExecReceive
    <2>3. CASE ~ExecReceive(e)
        <3>1. wg' = wg /\ e \in InFlight
            BY <2>3 DEF ExecuteTask, ExecBegin, ExecSucceeds, ExecFails, ExecRelease,
                InFlight
        <3>2. \E p, t, c : p # "idle" /\ exec' = [exec EXCEPT ![e] = At(p, t, c)]
            BY <2>3 DEF ExecuteTask, ExecBegin, ExecSucceeds, ExecFails, ExecRelease
        <3>3. InFlight' = InFlight \cup {e}
            BY <1>0, <3>2, ExecUpdate
        <3>4. InFlight' = InFlight
            BY <3>1, <3>3
        <3>. QED BY <1>0, <2>1, <3>1, <3>4 DEF WaitGroupCounts
    <2>. QED BY <2>2, <2>3
<1>. QED BY <1>1, <1>2, <1>3, <1>4, StepKinds

LEMMA GracefulStep == GoroutineInv /\ [Next]_vars => GracefulStop'
<1>. SUFFICES ASSUME GoroutineInv, [Next]_vars, life' = "stopped"
              PROVE  /\ InFlight' = {}
                     /\ \A k \in Loop : loop'[k].pc \notin {"pop", "acquire"}
    BY DEF GracefulStop
<1>. USE DEF taskVars, lifeVars, semVars
<1>0. TypeOK /\ Hands /\ WaitGroupCounts /\ GracefulStop
    BY DEF GoroutineInv
<1>1. CASE StopGracefully
    <2>1. Cardinality(CountedLoops) = 0 /\ Cardinality(InFlight) = 0
        BY <1>0, <1>1, FiniteGoroutines DEF WaitGroupCounts, StopGracefully
    <2>2. CountedLoops = {} /\ InFlight = {}
        BY <2>1, FiniteGoroutines, Empty
    <2>3. UNCHANGED <<loop, exec>>
        BY <1>1 DEF StopGracefully
    <2>. QED BY <2>2, <2>3 DEF CountedLoops, InFlight
<1>2. CASE ~StopGracefully
    <2>1. life = "stopped"
        BY <1>2 DEF Next, vars, TaskOperation, Timer, StartStop, ExecutionLoop,
            ExecuteTask, AddTask, UpdateTask, RemoveTask, StartTask, StopTask, PauseTask,
            ResumeTask, TickFires, HandleTick, TickReadsEnabled, TickReadsStatus,
        TickReads, TickPushes, TimerExit, Start, StartTimers, StartNextTimer, StartReturns,
            CancelParent, Stop, StopTimesOut, LoopEnter, LoopExit, LoopGoOn,
            LoopFindsNothing, LoopPop, LoopRequeue, LoopLaunch, ExecBegin, ExecSucceeds,
            ExecFails, ExecRelease, ExecReceive
    <2>2. /\ InFlight = {} /\ ctx = "done"
          /\ \A k \in Loop : loop[k].pc \notin {"pop", "acquire"}
        BY <1>0, <2>1 DEF GracefulStop, Hands
    <2>3. CASE Quiet
        BY <2>2, <2>3 DEF Quiet, InFlight
    <2>4. CASE Start
        BY <2>4 DEF Start
    <2>5. CASE LoopStep
        <3>. PICK k \in Loop : ExecutionLoop(k)
            BY <2>5 DEF LoopStep
        <3>1. LoopEnter(k) \/ LoopExit(k)
            BY <2>2 DEF ExecutionLoop, LoopGoOn, LoopFindsNothing, LoopPop, LoopRequeue,
                LoopLaunch
        <3>2. exec' = exec /\ \E p \in {"check", "off"} : \E t, c :
                loop' = [loop EXCEPT ![k] = At(p, t, c)]
            BY <3>1 DEF LoopEnter, LoopExit, NoLoop
        <3>3. \A j \in Loop : loop'[j].pc \notin {"pop", "acquire"}
            BY <1>0, <2>2, <3>2, AtFields DEF TypeOK
        <3>. QED BY <2>2, <3>2, <3>3 DEF InFlight
    <2>6. CASE ExecStep
        BY <2>2, <2>6 DEF ExecStep, ExecuteTask, ExecBegin, ExecSucceeds, ExecFails,
            ExecRelease, ExecReceive, InFlight
    <2>. QED BY <2>3, <2>4, <2>5, <2>6, StepKinds
<1>. QED BY <1>1, <1>2

-----------------------------------------------------------------------------
(* SetMaxConcurrent leaves goroutines, queue and wait group alone. *)

LEMMA ResizeTypes ==
    ASSUME TypeOK, Resize
    PROVE  TypeOK'
<1>. USE DEF taskVars, lifeVars, semVars
<1>. DEFINE R == [pc : {"none", "check", "take", "put"}, old : Channel, i : Nat]
<1>0. /\ resize \in R /\ semaphore \in Channel /\ chanLen \in [Channel -> Nat]
      /\ resize.old \in Channel /\ resize.i \in Nat /\ resize.i + 1 \in Nat
      /\ chanLen[resize.old] \in Nat /\ chanLen[semaphore] + 1 \in Nat
    BY DEF TypeOK
<1>1. ASSUME NEW n \in 1..Limit, BeginResize(n) PROVE TypeOK'
    <2>1. semaphore + 1 \in Channel /\ n \in Nat
        BY <1>1, SchedulerAssumption DEF BeginResize, TypeOK, Channel
    <2>2. chanCap' \in [Channel -> Nat]
        BY <1>1, <2>1 DEF BeginResize, TypeOK
    <2>. QED BY <1>1, <2>1, <2>2 DEF BeginResize, TypeOK
<1>2. ASSUME /\ UNCHANGED <<taskVars, queue, lifeVars, wg, loop, exec, semaphore, chanCap>>
             /\ mu' \in {mu, "free"}
             /\ resize' \in R
             /\ chanLen' \in [Channel -> Nat]
      PROVE  TypeOK'
    BY <1>2 DEF TypeOK
<1>3. CASE ResizeCheck
    <2>1. resize' \in R
        BY <1>0, <1>3, GoroutineTypes DEF ResizeCheck, NoResize
    <2>2. /\ UNCHANGED <<taskVars, queue, lifeVars, wg, loop, exec, semaphore, chanCap, chanLen>>
          /\ mu' \in {mu, "free"}
        BY <1>3 DEF ResizeCheck
    <2>. QED BY <1>0, <1>2, <2>1, <2>2
<1>4. CASE ResizeTake
    <2>1. resize' \in R
        BY <1>0, <1>4 DEF ResizeTake
    <2>2. chanLen' \in [Channel -> Nat]
        <3>1. CASE chanLen[resize.old] > 0
            <4>1. chanLen[resize.old] - 1 \in Nat
                BY <1>0, <3>1
            <4>. QED BY <1>0, <1>4, <3>1, <4>1 DEF ResizeTake
        <3>2. CASE ~(chanLen[resize.old] > 0)
            BY <1>0, <1>4, <3>2 DEF ResizeTake
        <3>. QED BY <3>1, <3>2
    <2>3. /\ UNCHANGED <<taskVars, queue, lifeVars, wg, loop, exec, semaphore, chanCap>>
          /\ mu' \in {mu, "free"}
        BY <1>4 DEF ResizeTake
    <2>. QED BY <1>2, <2>1, <2>2, <2>3
<1>5. CASE ResizePut
    <2>1. resize' \in R
        BY <1>0, <1>5 DEF ResizePut
    <2>2. chanLen' \in [Channel -> Nat]
        BY <1>0, <1>5 DEF ResizePut
    <2>3. /\ UNCHANGED <<taskVars, queue, lifeVars, wg, loop, exec, semaphore, chanCap>>
          /\ mu' \in {mu, "free"}
        BY <1>5 DEF ResizePut
    <2>. QED BY <1>2, <2>1, <2>2, <2>3
<1>. QED BY <1>1, <1>3, <1>4, <1>5 DEF Resize

LEMMA ResizeKeeps ==
    ASSUME Resize
    PROVE  UNCHANGED <<queue, wg, loop, exec, starts, life, ctx>>
BY DEF Resize, BeginResize, ResizeCheck, ResizeTake, ResizePut, taskVars, lifeVars, semVars

LEMMA GoroutineStep == GoroutineInv /\ [Next \/ Resize]_vars => GoroutineInv'
<1>. SUFFICES ASSUME GoroutineInv, [Next \/ Resize]_vars PROVE GoroutineInv'
    OBVIOUS
<1>1. CASE [Next]_vars
    BY <1>1, TypeStep, HandsStep, WaitGroupStep, GracefulStep DEF GoroutineInv
<1>2. CASE Resize
    <2>1. TypeOK'
        BY <1>2, ResizeTypes DEF GoroutineInv
    <2>2. Hands' /\ WaitGroupCounts' /\ GracefulStop'
        BY <1>2, ResizeKeeps
        DEF GoroutineInv, Hands, WaitGroupCounts, GracefulStop, CountedLoops, InFlight
    <2>. QED BY <2>1, <2>2 DEF GoroutineInv
<1>. QED BY <1>1, <1>2

LEMMA GoroutineInvariant == SpecResize => []GoroutineInv
<1>1. Init => GoroutineInv
    BY InitInv DEF SchedulerInv
<1>. QED BY <1>1, GoroutineStep, PTL DEF SpecResize

LEMMA SchedulerInvariant == Spec => []SchedulerInv
<1>1. SchedulerInv /\ [Next]_vars => SchedulerInv'
    BY GoroutineStep, OneChannelStep, PermitStep DEF SchedulerInv
<1>. QED BY InitInv, <1>1, PTL DEF Spec

-----------------------------------------------------------------------------
(* Theorems.  Those about SpecResize hold of Spec too, whose steps are     *)
(* among those of SpecResize.                                              *)

LEMMA WithoutResize == Spec => SpecResize
<1>1. [Next]_vars => [Next \/ Resize]_vars
    OBVIOUS
<1>. QED BY <1>1, PTL DEF Spec, SpecResize

(* Every variable keeps its type; in particular neither the wait group nor *)
(* a channel is ever counted below zero.                                   *)
THEOREM TypeCorrect == SpecResize => []TypeOK
<1>1. GoroutineInv => TypeOK
    BY DEF GoroutineInv
<1>. QED BY GoroutineInvariant, <1>1, PTL

(* The permits of the semaphore are those of the executions in flight      *)
(* (scheduler.go:422-441).                                                 *)
THEOREM PermitsAreExecutions == Spec => []PermitPerExecution
<1>1. SchedulerInv => PermitPerExecution
    BY DEF SchedulerInv
<1>. QED BY SchedulerInvariant, <1>1, PTL

(* No more executions than configured are in flight, however often the     *)
(* scheduler is stopped, abandoned and started again.                      *)
THEOREM ConcurrencyLimited == Spec => []ConcurrencyLimit
<1>1. SchedulerInv => ConcurrencyLimit
    BY DEF SchedulerInv, OneChannel, PermitPerExecution, ConcurrencyLimit
<1>. QED BY SchedulerInvariant, <1>1, PTL

(* The wait group counts the loops entered and the executions launched,    *)
(* also while SetMaxConcurrent is called (scheduler.go:299, 408-409, 425,  *)
(* 440).                                                                   *)
THEOREM WaitGroupCorrect == SpecResize => []WaitGroupCounts
<1>1. GoroutineInv => WaitGroupCounts
    BY DEF GoroutineInv
<1>. QED BY GoroutineInvariant, <1>1, PTL

(* A Stop that returned without a timeout left no execution in flight and  *)
(* no loop that could launch one (scheduler.go:296-306).                   *)
THEOREM StopDrains == SpecResize => []GracefulStop
<1>1. GoroutineInv => GracefulStop
    BY DEF GoroutineInv
<1>. QED BY GoroutineInvariant, <1>1, PTL

(* The queue stays in order of priority (priority_queue.go:21-52).         *)
THEOREM QueueStaysSorted == SpecResize => []QueueSorted
<1>1. Init => QueueSorted
    BY DEF Init, QueueSorted, Ordered, EmptyQueue
<1>2. TypeOK /\ Hands /\ QueueSorted /\ [Next \/ Resize]_vars => QueueSorted'
    <2>. SUFFICES ASSUME TypeOK, Hands, QueueSorted, [Next \/ Resize]_vars PROVE QueueSorted'
        OBVIOUS
    <2>. USE DEF taskVars, lifeVars, semVars
    <2>1. \/ queue' = queue
          \/ \E t \in Task : queue' = Push(queue, t)
          \/ queue # EmptyQueue /\ queue' = PopRest(queue)
        <3>1. CASE TaskOperation
            BY <3>1, SchedulerAssumption DEF TypeOK, TaskOperation, AddTask, UpdateTask,
                RemoveTask, StartTask, StopTask, PauseTask, ResumeTask, StartTaskTimer, Known
        <3>2. CASE \E t \in Task : Timer(t)
            BY <3>2 DEF Timer, TickFires, HandleTick, TickReadsEnabled, TickReadsStatus,
        TickReads, TickPushes, TimerExit
        <3>3. CASE StartStop
            BY <3>3 DEF StartStop, Start, StartTimers, StartNextTimer, StartReturns,
                CancelParent, Stop, StopGracefully, StopTimesOut, StartTaskTimer
        <3>4. CASE LoopStep
            BY <3>4 DEF Hands, LoopStep, ExecutionLoop, LoopEnter, LoopExit, LoopGoOn,
                LoopFindsNothing, LoopPop, LoopRequeue, LoopLaunch
        <3>5. CASE ExecStep
            BY <3>5 DEF Hands, ExecStep, ExecuteTask, ExecBegin, ExecSucceeds, ExecFails,
                ExecRelease, ExecReceive
        <3>6. CASE UNCHANGED vars
            BY <3>6 DEF vars
        <3>7. CASE Resize
            BY <3>7, ResizeKeeps
        <3>. QED BY <3>1, <3>2, <3>3, <3>4, <3>5, <3>6, <3>7 DEF Next, LoopStep, ExecStep
    <2>2. queue \in Seq(Task)
        BY DEF TypeOK
    <2>. QED BY <2>1, <2>2, PushKeepsOrder, PopFacts DEF QueueSorted
<1>3. GoroutineInv => TypeOK /\ Hands
    BY DEF GoroutineInv
<1>. QED BY GoroutineInvariant, <1>1, <1>2, <1>3, PTL DEF SpecResize

-----------------------------------------------------------------------------
(* CheckScheduler implements BoundedExecutor, for every set of tasks, IDs  *)
(* and goroutines: each step of the code is a step of the executor or      *)
(* leaves it alone.                                                        *)

(* What the executor's variables stand for *)
Armed == {t \in Task : ticking[t]}
Due == [t \in Task |-> TicksInHand(t)]
Requests == [t \in Task |-> Pending(t)]
Executing == [t \in Task |-> Active(t)]
Leaving == [t \in Task |-> Closing(t)]

InHand(t) == {k \in Loop : loop[k].task = t}
Runners(t) == {e \in Exec : exec[e].pc \in {"begin", "run"} /\ exec[e].task = t}
Leavers(t) == {e \in Exec : exec[e].pc \in {"release", "receive"} /\ exec[e].task = t}

LEMMA CountsFinite ==
    ASSUME NEW t
    PROVE  /\ IsFiniteSet(InHand(t)) /\ Cardinality(InHand(t)) \in Nat
           /\ IsFiniteSet(Runners(t)) /\ Cardinality(Runners(t)) \in Nat
           /\ IsFiniteSet(Leavers(t)) /\ Cardinality(Leavers(t)) \in Nat
<1>1. IsFiniteSet(Exec) /\ IsFiniteSet(Loop)
    BY SchedulerAssumption, FS_Interval DEF Loop
<1>2. InHand(t) \in SUBSET Loop /\ Runners(t) \in SUBSET Exec /\ Leavers(t) \in SUBSET Exec
    BY DEF InHand, Runners, Leavers
<1>. QED BY <1>1, <1>2, FS_Subset, FS_CardinalityType

LEMMA ExecutorTypes ==
    ASSUME TypeOK
    PROVE  /\ Requests \in [Task -> Nat] /\ Executing \in [Task -> Nat]
           /\ Leaving \in [Task -> Nat]
           /\ \A t \in Task :
                /\ Requests[t] = Cardinality(Positions(queue, t)) + Cardinality(InHand(t))
                /\ Executing[t] = Cardinality(Runners(t))
                /\ Leaving[t] = Cardinality(Leavers(t))
<1>1. \A t \in Task :
        /\ Requests[t] = Cardinality(Positions(queue, t)) + Cardinality(InHand(t))
        /\ Executing[t] = Cardinality(Runners(t))
        /\ Leaving[t] = Cardinality(Leavers(t))
    BY DEF Requests, Executing, Leaving, Pending, Active, Closing, Positions, InHand,
        Runners, Leavers
<1>2. \A t \in Task : Cardinality(Positions(queue, t)) \in Nat
    BY PositionsFinite DEF TypeOK
<1>3. \A t \in Task : Requests[t] \in Nat /\ Executing[t] \in Nat /\ Leaving[t] \in Nat
    BY <1>1, <1>2, CountsFinite
<1>. QED BY <1>1, <1>3 DEF Requests, Executing, Leaving

-----------------------------------------------------------------------------
(* The permits held are those of the executions in flight *)

LEMMA HeldIsInFlight ==
    ASSUME TypeOK, Hands
    PROVE  Executor!Held = Cardinality(InFlight)
<1>. DEFINE X == {e \in Exec : exec[e].pc \in {"begin", "run"}}
            Y == {e \in Exec : exec[e].pc \in {"release", "receive"}}
            f == [e \in Exec |-> exec[e].task]
<1>1. X \in SUBSET Exec /\ Y \in SUBSET Exec /\ X \cap Y = {} /\ X \cup Y = InFlight
    BY DEF InFlight, TypeOK, ExecState
<1>2. IsFiniteSet(X) /\ IsFiniteSet(Y) /\ IsFiniteSet(Task)
    BY <1>1, SchedulerAssumption, FS_Subset
<1>3. (\A e \in X : f[e] \in Task) /\ (\A e \in Y : f[e] \in Task)
    BY DEF Hands
<1>4. /\ [t \in Task |-> Active(t)] = [t \in Task |-> Cardinality({e \in X : f[e] = t})]
      /\ [t \in Task |-> Closing(t)] = [t \in Task |-> Cardinality({e \in Y : f[e] = t})]
    <2>1. ASSUME NEW t \in Task
          PROVE  /\ Active(t) = Cardinality({e \in X : f[e] = t})
                 /\ Closing(t) = Cardinality({e \in Y : f[e] = t})
        <3>1. {e \in X : f[e] = t} = Runners(t) /\ {e \in Y : f[e] = t} = Leavers(t)
            BY DEF Runners, Leavers
        <3>. QED BY <3>1 DEF Active, Closing, Runners, Leavers
    <2>. QED BY <2>1
<1>5. /\ SumFunction([t \in Task |-> Active(t)]) = Cardinality(X)
      /\ SumFunction([t \in Task |-> Closing(t)]) = Cardinality(Y)
    <2>. HIDE DEF X, Y, f
    <2>. QED BY <1>2, <1>3, <1>4, CountByClass
<1>6. Cardinality(InFlight) = Cardinality(X) + Cardinality(Y)
    <2>. HIDE DEF X, Y
    <2>1. Cardinality(X \cup Y) = Cardinality(X) + Cardinality(Y) - Cardinality(X \cap Y)
        BY <1>2, FS_Union
    <2>2. Cardinality(X) \in Nat /\ Cardinality(Y) \in Nat /\ Cardinality(X \cap Y) = 0
        BY <1>1, <1>2, FS_CardinalityType, FS_EmptySet
    <2>3. X \cup Y = InFlight
        BY <1>1
    <2>4. Cardinality(X \cup Y) = Cardinality(X) + Cardinality(Y)
        BY <2>1, <2>2
    <2>. QED BY <2>3, <2>4
<1>7. Executor!Held = SumFunction([t \in Task |-> Active(t)]) + SumFunction([t \in Task |-> Closing(t)])
    BY DEF Executor!Held, Executor!SumFunction, Executor!SumFunctionOnSet,
        Executor!FoldFunctionOnSet, Executor!MapThenFoldSet, SumFunction, SumFunctionOnSet,
        FoldFunctionOnSet, MapThenFoldSet
<1>. QED BY <1>5, <1>6, <1>7

-----------------------------------------------------------------------------
(* What the steps of the code do to the counts *)

LEMMA InHandUpdate ==
    ASSUME TypeOK, NEW k \in Loop, NEW p, NEW t, NEW c,
           loop' = [loop EXCEPT ![k] = At(p, t, c)], NEW u
    PROVE  InHand(u)' = IF u = t THEN InHand(u) \cup {k} ELSE InHand(u) \ {k}
<1>1. \A j \in Loop : loop'[j].task = IF j = k THEN t ELSE loop[j].task
    BY AtFields DEF TypeOK
<1>. QED BY <1>1 DEF InHand

(* A push while the loops keep what they have in hand adds one request. *)
LEMMA PushRequests ==
    ASSUME TypeOK, NEW t \in Task, queue' = Push(queue, t), loop' = loop
    PROVE  Requests' = [Requests EXCEPT ![t] = @ + 1]
<1>1. \A u \in Task : InHand(u)' = InHand(u)
    BY DEF InHand
<1>2. queue \in Seq(Task)
    BY DEF TypeOK
<1>3. \A u \in Task : Cardinality(Positions(queue', u)) =
            Cardinality(Positions(queue, u)) + IF u = t THEN 1 ELSE 0
    BY <1>2, PushCounts
<1>4. \A u \in Task : Cardinality(Positions(queue, u)) \in Nat /\ Cardinality(InHand(u)) \in Nat
    BY <1>2, PositionsFinite, CountsFinite
<1>5. \A u \in Task :
        /\ Requests[u] = Cardinality(Positions(queue, u)) + Cardinality(InHand(u))
        /\ Requests'[u] = Cardinality(Positions(queue', u)) + Cardinality(InHand(u))
    BY <1>1 DEF Requests, Pending, Positions, InHand
<1>6. \A u \in Task : Requests'[u] = IF u = t THEN Requests[u] + 1 ELSE Requests[u]
    BY <1>3, <1>4, <1>5
<1>. QED BY <1>6 DEF Requests

LEMMA RequestsAre ==
    ASSUME NEW u \in Task
    PROVE  /\ Requests[u] = Cardinality(Positions(queue, u)) + Cardinality(InHand(u))
           /\ Requests'[u] = Cardinality(Positions(queue', u)) + Cardinality(InHand(u)')
BY DEF Requests, Pending, Positions, InHand

(* What one loop puts into its hand or out of it *)
LEMMA HandCounts ==
    ASSUME TypeOK, NEW k \in Loop, NEW p, NEW t, NEW c,
           loop' = [loop EXCEPT ![k] = At(p, t, c)], NEW u
    PROVE  /\ u = t /\ loop[k].task # u => Cardinality(InHand(u)') = Cardinality(InHand(u)) + 1
           /\ u # t /\ loop[k].task = u => /\ Cardinality(InHand(u)') = Cardinality(InHand(u)) - 1
                                           /\ Cardinality(InHand(u)) > 0
           /\ u # t /\ loop[k].task # u => Cardinality(InHand(u)') = Cardinality(InHand(u))
<1>1. InHand(u)' = IF u = t THEN InHand(u) \cup {k} ELSE InHand(u) \ {k}
    BY InHandUpdate
<1>2. IsFiniteSet(InHand(u)) /\ Cardinality(InHand(u)) \in Nat
    BY CountsFinite
<1>3. k \in InHand(u) <=> loop[k].task = u
    BY DEF InHand
<1>4. CASE u = t /\ loop[k].task # u
    BY <1>1, <1>2, <1>3, <1>4, OneMore
<1>5. CASE u # t /\ loop[k].task = u
    <2>1. Cardinality(InHand(u)) # 0
        BY <1>2, <1>3, <1>5, Empty
    <2>. QED BY <1>1, <1>2, <1>3, <1>5, <2>1, OneLess
<1>6. CASE u # t /\ loop[k].task # u
    <2>1. InHand(u)' = InHand(u)
        BY <1>1, <1>3, <1>6
    <2>. QED BY <1>6, <2>1
<1>7. u # t \/ loop[k].task # u => \/ u = t /\ loop[k].task # u
                                   \/ u # t /\ loop[k].task = u
                                   \/ u # t /\ loop[k].task # u
    OBVIOUS
<1>. QED BY <1>4, <1>5, <1>6, <1>7

(* Taking a task from the queue keeps the requests, *)
LEMMA PopRequests ==
    ASSUME TypeOK, Hands, NEW k \in Loop, NEW c, queue # EmptyQueue,
           queue' = PopRest(queue), loop[k].pc # "acquire",
           loop' = [loop EXCEPT ![k] = At("acquire", PopTask(queue), c)]
    PROVE  Requests' = Requests
<1>1. queue \in Seq(Task) /\ PopTask(queue) \in Task /\ PopRest(queue) \in Seq(Task)
    BY PopFacts DEF TypeOK
<1>2. loop[k].task \notin Task
    BY DEF Hands
<1>3. ASSUME NEW u \in Task PROVE Requests'[u] = Requests[u]
    <2>1. Cardinality(Positions(queue, u)) =
            Cardinality(Positions(queue', u)) + IF u = PopTask(queue) THEN 1 ELSE 0
        BY <1>1, PopCounts
    <2>2. Cardinality(InHand(u)') = Cardinality(InHand(u)) + IF u = PopTask(queue) THEN 1 ELSE 0
        <3>1. CASE u = PopTask(queue)
            BY <1>2, <3>1, HandCounts
        <3>2. CASE u # PopTask(queue)
            <4>1. Cardinality(InHand(u)') = Cardinality(InHand(u))
                BY <1>2, <3>2, HandCounts
            <4>. QED BY <3>2, <4>1, CountsFinite
        <3>. QED BY <3>1, <3>2
    <2>3. Cardinality(Positions(queue', u)) \in Nat /\ Cardinality(InHand(u)) \in Nat
        BY <1>1, PositionsFinite, CountsFinite
    <2>. QED BY <2>1, <2>2, <2>3, RequestsAre
<1>. QED BY <1>3 DEF Requests

(* so does putting it back, *)
LEMMA RequeueRequests ==
    ASSUME TypeOK, Hands, NEW k \in Loop, NEW p, NEW c, loop[k].task \in Task,
           queue' = Push(queue, loop[k].task),
           loop' = [loop EXCEPT ![k] = At(p, NoTask, c)]
    PROVE  Requests' = Requests
<1>. DEFINE t == loop[k].task
<1>1. queue \in Seq(Task) /\ t \in Task /\ NoTask \notin Task
    BY SchedulerAssumption DEF TypeOK
<1>2. ASSUME NEW u \in Task PROVE Requests'[u] = Requests[u]
    <2>1. Cardinality(Positions(queue', u)) =
            Cardinality(Positions(queue, u)) + IF u = t THEN 1 ELSE 0
        BY <1>1, PushCounts
    <2>2. Cardinality(InHand(u)') = Cardinality(InHand(u)) - IF u = t THEN 1 ELSE 0
        <3>1. CASE u = t
            BY <1>1, <3>1, HandCounts
        <3>2. CASE u # t
            <4>1. Cardinality(InHand(u)') = Cardinality(InHand(u))
                BY <1>1, <3>2, HandCounts
            <4>. QED BY <3>2, <4>1, CountsFinite
        <3>. QED BY <3>1, <3>2
    <2>3. Cardinality(Positions(queue, u)) \in Nat /\ Cardinality(InHand(u)) \in Nat
        BY <1>1, PositionsFinite, CountsFinite
    <2>. QED BY <2>1, <2>2, <2>3, RequestsAre
<1>. QED BY <1>2 DEF Requests

(* while a loop without a task changes nothing, *)
LEMMA IdleLoopRequests ==
    ASSUME TypeOK, NEW k \in Loop, NEW p, NEW c, loop[k].task \notin Task, queue' = queue,
           loop' = [loop EXCEPT ![k] = At(p, NoTask, c)]
    PROVE  Requests' = Requests
<1>1. ASSUME NEW u \in Task PROVE Requests'[u] = Requests[u]
    <2>1. Cardinality(InHand(u)') = Cardinality(InHand(u))
        BY HandCounts, SchedulerAssumption
    <2>. QED BY <2>1, RequestsAre
<1>. QED BY <1>1 DEF Requests

(* and launching the task in hand takes one request. *)
LEMMA LaunchRequests ==
    ASSUME TypeOK, NEW k \in Loop, NEW p, NEW c, loop[k].task \in Task, queue' = queue,
           loop' = [loop EXCEPT ![k] = At(p, NoTask, c)]
    PROVE  /\ Requests[loop[k].task] > 0
           /\ Requests' = [Requests EXCEPT ![loop[k].task] = @ - 1]
<1>. DEFINE t == loop[k].task
<1>1. queue \in Seq(Task) /\ t \in Task /\ NoTask \notin Task
    BY SchedulerAssumption DEF TypeOK
<1>2. ASSUME NEW u \in Task
      PROVE  /\ Requests'[u] = IF u = t THEN Requests[u] - 1 ELSE Requests[u]
             /\ u = t => Requests[u] > 0
    <2>1. Cardinality(Positions(queue, u)) \in Nat /\ Cardinality(InHand(u)) \in Nat
        BY <1>1, PositionsFinite, CountsFinite
    <2>2. CASE u = t
        <3>1. Cardinality(InHand(u)') = Cardinality(InHand(u)) - 1 /\ Cardinality(InHand(u)) > 0
            BY <1>1, <2>2, HandCounts
        <3>. QED BY <2>1, <2>2, <3>1, RequestsAre
    <2>3. CASE u # t
        <3>1. Cardinality(InHand(u)') = Cardinality(InHand(u))
            BY <1>1, <2>3, HandCounts
        <3>. QED BY <2>3, <3>1, RequestsAre
    <2>. QED BY <2>2, <2>3
<1>3. Requests[t] > 0
    BY <1>1, <1>2
<1>4. Requests' = [Requests EXCEPT ![t] = @ - 1]
    BY <1>2 DEF Requests
<1>. QED BY <1>3, <1>4

LEMMA ExecutionsAre ==
    ASSUME NEW u \in Task
    PROVE  /\ Executing[u] = Cardinality(Runners(u)) /\ Executing'[u] = Cardinality(Runners(u)')
           /\ Leaving[u] = Cardinality(Leavers(u)) /\ Leaving'[u] = Cardinality(Leavers(u)')
BY DEF Executing, Active, Runners, Leaving, Closing, Leavers

(* An execution is launched, *)
LEMMA LaunchCounts ==
    ASSUME TypeOK, NEW e \in Exec, NEW t \in Task, NEW c, exec[e].pc = "idle",
           exec' = [exec EXCEPT ![e] = At("begin", t, c)]
    PROVE  Executing' = [Executing EXCEPT ![t] = @ + 1] /\ Leaving' = Leaving
<1>1. ASSUME NEW u \in Task
      PROVE  /\ Executing'[u] = IF u = t THEN Executing[u] + 1 ELSE Executing[u]
             /\ Leaving'[u] = Leaving[u]
    <2>0. \A j \in Exec : /\ exec'[j].pc = IF j = e THEN "begin" ELSE exec[j].pc
                          /\ exec'[j].task = IF j = e THEN t ELSE exec[j].task
        BY AtFields DEF TypeOK
    <2>1. /\ Runners(u)' = IF u = t THEN Runners(u) \cup {e} ELSE Runners(u) \ {e}
          /\ Leavers(u)' = Leavers(u) \ {e}
        BY <2>0 DEF Runners, Leavers
    <2>2. e \notin Runners(u) /\ e \notin Leavers(u)
        BY DEF Runners, Leavers
    <2>3. /\ u = t => Cardinality(Runners(u)') = Cardinality(Runners(u)) + 1
          /\ u # t => Runners(u)' = Runners(u)
          /\ Leavers(u)' = Leavers(u)
        BY <2>1, <2>2, CountsFinite, OneMore
    <2>. QED BY <2>3, ExecutionsAre
<1>. QED BY <1>1 DEF Executing, Leaving

(* goes from one step to the next, *)
LEMMA AdvanceCounts ==
    ASSUME TypeOK, NEW e \in Exec, NEW p, NEW c,
           \/ exec[e].pc \in {"begin", "run"} /\ p \in {"begin", "run"}
           \/ exec[e].pc \in {"release", "receive"} /\ p \in {"release", "receive"},
           exec' = [exec EXCEPT ![e] = At(p, exec[e].task, c)]
    PROVE  Executing' = Executing /\ Leaving' = Leaving
<1>1. ASSUME NEW u \in Task
      PROVE  Executing'[u] = Executing[u] /\ Leaving'[u] = Leaving[u]
    <2>0. \A j \in Exec : /\ exec'[j].pc = IF j = e THEN p ELSE exec[j].pc
                          /\ exec'[j].task = IF j = e THEN exec[e].task ELSE exec[j].task
        BY AtFields DEF TypeOK
    <2>1. Runners(u)' = Runners(u) /\ Leavers(u)' = Leavers(u)
        BY <2>0 DEF Runners, Leavers
    <2>. QED BY <2>1, ExecutionsAre
<1>. QED BY <1>1 DEF Executing, Leaving

(* is over but keeps its permit, *)
LEMMA EndCounts ==
    ASSUME TypeOK, NEW e \in Exec, NEW c, exec[e].pc = "run", exec[e].task \in Task,
           exec' = [exec EXCEPT ![e] = At("release", exec[e].task, c)]
    PROVE  /\ Executing[exec[e].task] > 0
           /\ Executing' = [Executing EXCEPT ![exec[e].task] = @ - 1]
           /\ Leaving' = [Leaving EXCEPT ![exec[e].task] = @ + 1]
<1>. DEFINE t == exec[e].task
<1>1. ASSUME NEW u \in Task
      PROVE  /\ Executing'[u] = IF u = t THEN Executing[u] - 1 ELSE Executing[u]
             /\ Leaving'[u] = IF u = t THEN Leaving[u] + 1 ELSE Leaving[u]
             /\ u = t => Executing[u] > 0
    <2>0. \A j \in Exec : /\ exec'[j].pc = IF j = e THEN "release" ELSE exec[j].pc
                          /\ exec'[j].task = IF j = e THEN t ELSE exec[j].task
        BY AtFields DEF TypeOK
    <2>1. /\ Runners(u)' = Runners(u) \ {e}
          /\ Leavers(u)' = IF u = t THEN Leavers(u) \cup {e} ELSE Leavers(u) \ {e}
        BY <2>0 DEF Runners, Leavers
    <2>2. (e \in Runners(u) <=> u = t) /\ e \notin Leavers(u)
        BY DEF Runners, Leavers
    <2>3. /\ u = t => /\ Cardinality(Leavers(u)') = Cardinality(Leavers(u)) + 1
                      /\ Cardinality(Runners(u)') = Cardinality(Runners(u)) - 1
                      /\ Cardinality(Runners(u)) # 0
          /\ u # t => Leavers(u)' = Leavers(u) /\ Runners(u)' = Runners(u)
        BY <2>1, <2>2, CountsFinite, OneMore, OneLess, Empty
    <2>4. Cardinality(Runners(u)) \in Nat
        BY CountsFinite
    <2>. QED BY <2>3, <2>4, ExecutionsAre
<1>2. Executing[t] > 0
    BY <1>1
<1>3. Executing' = [Executing EXCEPT ![t] = @ - 1]
    BY <1>1 DEF Executing
<1>4. Leaving' = [Leaving EXCEPT ![t] = @ + 1]
    BY <1>1 DEF Leaving
<1>. QED BY <1>2, <1>3, <1>4

(* and gives it back. *)
LEMMA CloseCounts ==
    ASSUME TypeOK, NEW e \in Exec, exec[e].pc = "receive", exec[e].task \in Task,
           exec' = [exec EXCEPT ![e] = Idle]
    PROVE  /\ Leaving[exec[e].task] > 0
           /\ Leaving' = [Leaving EXCEPT ![exec[e].task] = @ - 1]
           /\ Executing' = Executing
<1>. DEFINE t == exec[e].task
<1>1. ASSUME NEW u \in Task
      PROVE  /\ Leaving'[u] = IF u = t THEN Leaving[u] - 1 ELSE Leaving[u]
             /\ Executing'[u] = Executing[u]
             /\ u = t => Leaving[u] > 0
    <2>0. \A j \in Exec : /\ exec'[j].pc = IF j = e THEN "idle" ELSE exec[j].pc
                          /\ exec'[j].task = IF j = e THEN NoTask ELSE exec[j].task
        BY AtFields DEF TypeOK, Idle
    <2>1. Runners(u)' = Runners(u) \ {e} /\ Leavers(u)' = Leavers(u) \ {e}
        BY <2>0 DEF Runners, Leavers
    <2>2. (e \in Leavers(u) <=> u = t) /\ e \notin Runners(u)
        BY DEF Runners, Leavers
    <2>3. /\ u = t => /\ Cardinality(Leavers(u)') = Cardinality(Leavers(u)) - 1
                      /\ Cardinality(Leavers(u)) # 0
          /\ u # t => Leavers(u)' = Leavers(u)
          /\ Runners(u)' = Runners(u)
        BY <2>1, <2>2, CountsFinite, OneLess, Empty
    <2>4. Cardinality(Leavers(u)) \in Nat
        BY CountsFinite
    <2>. QED BY <2>3, <2>4, ExecutionsAre
<1>2. Leaving[t] > 0
    BY <1>1
<1>3. Leaving' = [Leaving EXCEPT ![t] = @ - 1] /\ Executing' = Executing
    BY <1>1 DEF Executing, Leaving
<1>. QED BY <1>2, <1>3

-----------------------------------------------------------------------------
(* Steps of the executor, in terms of what its variables stand for *)

ArmStep ==
    /\ UNCHANGED <<Due, Executing, Leaving>>
    /\ \E t \in Task :
        /\ Armed' \in SUBSET (Armed \cup {t}) /\ t \in Armed'
        /\ Requests' = Requests \/ Requests' = [Requests EXCEPT ![t] = @ + 1]
DisarmStep ==
    /\ UNCHANGED <<Due, Requests, Executing, Leaving>>
    /\ Armed' \in SUBSET Armed
FireStep ==
    /\ UNCHANGED <<Armed, Requests, Executing, Leaving>>
    /\ \E t \in Armed : Due' = [Due EXCEPT ![t] = @ + 1]
RequestStep ==
    /\ UNCHANGED <<Armed, Executing, Leaving>>
    /\ \E t \in Task :
        /\ Due[t] > 0
        /\ Due' = [Due EXCEPT ![t] = @ - 1]
        /\ Requests' = Requests \/ Requests' = [Requests EXCEPT ![t] = @ + 1]
BeginStep ==
    /\ UNCHANGED <<Armed, Due, Leaving>>
    /\ Executor!Held < Limit
    /\ \E t \in Task :
        /\ Requests[t] > 0
        /\ Requests' = [Requests EXCEPT ![t] = @ - 1]
        /\ Executing' = [Executing EXCEPT ![t] = @ + 1]
EndStep ==
    /\ UNCHANGED <<Armed, Due>>
    /\ \E t \in Task :
        /\ Executing[t] > 0
        /\ Executing' = [Executing EXCEPT ![t] = @ - 1]
        /\ Leaving' = [Leaving EXCEPT ![t] = @ + 1]
        /\ Requests' = Requests \/ Requests' = [Requests EXCEPT ![t] = @ + 1]
CloseStep ==
    /\ UNCHANGED <<Armed, Due, Requests, Executing>>
    /\ \E t \in Task : Leaving[t] > 0 /\ Leaving' = [Leaving EXCEPT ![t] = @ - 1]

LEMMA ExecutorStep ==
    ASSUME \/ ArmStep \/ DisarmStep \/ FireStep \/ RequestStep
           \/ BeginStep \/ EndStep \/ CloseStep
    PROVE  Executor!Next
<1>. USE DEF Armed, Due, Requests, Executing, Leaving
<1>1. CASE ArmStep
    BY <1>1 DEF ArmStep, Executor!Next, Executor!Arm
<1>2. CASE DisarmStep
    BY <1>2 DEF DisarmStep, Executor!Next, Executor!Disarm
<1>3. CASE FireStep
    BY <1>3 DEF FireStep, Executor!Next, Executor!Fire
<1>7. CASE RequestStep
    BY <1>7 DEF RequestStep, Executor!Next, Executor!Request
<1>4. CASE BeginStep
    BY <1>4 DEF BeginStep, Executor!Next, Executor!Begin
<1>5. CASE EndStep
    BY <1>5 DEF EndStep, Executor!Next, Executor!End
<1>6. CASE CloseStep
    BY <1>6 DEF CloseStep, Executor!Next, Executor!Close
<1>. QED BY <1>1, <1>2, <1>3, <1>4, <1>5, <1>6, <1>7

LEMMA SameGoroutines ==
    /\ exec' = exec => UNCHANGED <<Executing, Leaving>>
    /\ queue' = queue /\ loop' = loop => UNCHANGED Requests
    /\ ticking' = ticking => UNCHANGED Armed
    /\ ticks' = ticks => UNCHANGED Due
BY DEF Executing, Leaving, Requests, Armed, Due, TicksInHand, Active, Closing, Pending

-----------------------------------------------------------------------------
(* Steps of the code *)

(* startTaskTimer arms the task and may make a request. *)
LEMMA StartTimerArms ==
    ASSUME TypeOK, NEW t \in Task, StartTaskTimer(t), UNCHANGED <<ticks, loop, exec>>
    PROVE  ArmStep
<1>1. Armed' \in SUBSET (Armed \cup {t}) /\ t \in Armed'
    BY DEF StartTaskTimer, Armed, TypeOK
<1>2. CASE queue' = queue
    BY <1>1, <1>2, SameGoroutines DEF ArmStep
<1>3. CASE queue' = Push(queue, t)
    BY <1>1, <1>3, SameGoroutines, PushRequests DEF ArmStep
<1>. QED BY <1>2, <1>3 DEF StartTaskTimer

(* A timer that is stopped arms nothing. *)
LEMMA StopTimerDisarms ==
    ASSUME TypeOK, NEW t, ticking' = [ticking EXCEPT ![t] = FALSE],
           UNCHANGED <<ticks, queue, loop, exec>>
    PROVE  DisarmStep
<1>1. Armed' \in SUBSET Armed
    BY DEF Armed, TypeOK
<1>. QED BY <1>1, SameGoroutines DEF DisarmStep

LEMMA UntouchedDisarms ==
    ASSUME UNCHANGED <<ticking, ticks, queue, loop, exec>>
    PROVE  DisarmStep
BY SameGoroutines DEF DisarmStep

LEMMA TaskOperationRefines ==
    ASSUME TypeOK, TaskOperation
    PROVE  ArmStep \/ DisarmStep
<1>. USE DEF taskVars
<1>1. ASSUME NEW t \in Task, AddTask(t) PROVE ArmStep \/ DisarmStep
    BY <1>1, StartTimerArms, UntouchedDisarms DEF AddTask
<1>2. ASSUME NEW t \in Task, UpdateTask(t) PROVE ArmStep \/ DisarmStep
    <2>1. CASE enabled[t] /\ Running
        <3>1. /\ UNCHANGED <<ticks, loop, exec>>
              /\ ticking' = [ticking EXCEPT ![tasks[IdOf[t]]] = FALSE, ![t] = TRUE]
              /\ queue' = queue \/ queue' = Push(queue, t)
            BY <1>2, <2>1 DEF UpdateTask
        <3>2. Armed' \in SUBSET (Armed \cup {t}) /\ t \in Armed'
            BY <3>1 DEF Armed, TypeOK
        <3>. QED BY <3>1, <3>2, SameGoroutines, PushRequests DEF ArmStep
    <2>2. CASE ~(enabled[t] /\ Running)
        BY <1>2, <2>2, StopTimerDisarms DEF UpdateTask, StopTaskTimer
    <2>. QED BY <2>1, <2>2
<1>3. ASSUME NEW i \in Id, RemoveTask(i) \/ StopTask(i) \/ PauseTask(i)
      PROVE  DisarmStep
    BY <1>3, StopTimerDisarms DEF RemoveTask, StopTask, PauseTask, StopTaskTimer
<1>4. ASSUME NEW i \in Id, StartTask(i) \/ ResumeTask(i) PROVE ArmStep \/ DisarmStep
    <2>1. tasks[i] \in Task /\ UNCHANGED <<ticks, loop, exec>>
        BY <1>4 DEF StartTask, ResumeTask, Known, TypeOK
    <2>2. StartTaskTimer(tasks[i]) \/ UNCHANGED <<ticking, queue>>
        BY <1>4 DEF StartTask, ResumeTask
    <2>. QED BY <2>1, <2>2, StartTimerArms, UntouchedDisarms
<1>. QED BY <1>1, <1>2, <1>3, <1>4 DEF TaskOperation

LEMMA TimerRefines ==
    ASSUME TypeOK, NEW t \in Task, Timer(t)
    PROVE  FireStep \/ RequestStep \/ DisarmStep
<1>1. CASE TickFires(t) \/ HandleTick(t)
    <2>0. UNCHANGED <<ticking, loop, exec>>
        BY <1>1 DEF TickFires, HandleTick, TickReadsEnabled, TickReadsStatus, TickReads,
            TickPushes
    <2>1. Due' = [Due EXCEPT ![t] = TicksInHand(t)']
        BY <1>1, TickSteps DEF Due, TicksInHand
    <2>2. Due[t] = TicksInHand(t) /\ Due \in [Task -> Nat]
        BY TickMoves DEF Due
    <2>3. CASE ticking[t] /\ queue' = queue /\ TicksInHand(t)' = TicksInHand(t) + 1
        BY <2>0, <2>1, <2>2, <2>3, SameGoroutines DEF FireStep, Armed
    <2>4. CASE TicksInHand(t)' = TicksInHand(t) /\ queue' = queue
        BY <2>0, <2>1, <2>2, <2>4, SameGoroutines DEF DisarmStep
    <2>5. CASE /\ TicksInHand(t) > 0 /\ TicksInHand(t)' = TicksInHand(t) - 1
               /\ queue' = queue \/ queue' = Push(queue, t)
        <3>1. Requests' = Requests \/ Requests' = [Requests EXCEPT ![t] = @ + 1]
            BY <2>0, <2>5, SameGoroutines, PushRequests
        <3>. QED BY <2>0, <2>1, <2>2, <2>5, <3>1, SameGoroutines DEF RequestStep
    <2>. QED BY <1>1, <2>3, <2>4, <2>5, TickSteps
<1>2. CASE TimerExit(t)
    BY <1>2, StopTimerDisarms DEF TimerExit
<1>. QED BY <1>1, <1>2 DEF Timer

LEMMA StartStopRefines ==
    ASSUME TypeOK, Hands, OneChannel, StartStop
    PROVE  ArmStep \/ DisarmStep
<1>. USE DEF taskVars
<1>1. ASSUME NEW t \in Task, StartNextTimer(t) PROVE ArmStep
    BY <1>1, StartTimerArms DEF StartNextTimer
<1>2. CASE Start
    <2>1. starts + 1 \in Loop
        BY <1>2, SchedulerAssumption DEF Start, TypeOK, Loop
    <2>2. loop[starts + 1].pc = "off"
        BY <2>1, SchedulerAssumption DEF Hands, TypeOK
    <2>3. loop[starts + 1].task \notin Task
        BY <2>1, <2>2 DEF Hands
    <2>4. Requests' = Requests
        BY <1>2, <2>1, <2>3, IdleLoopRequests DEF Start
    <2>5. UNCHANGED <<ticking, ticks, exec>>
        BY <1>2 DEF Start
    <2>. QED BY <2>4, <2>5, SameGoroutines DEF DisarmStep
<1>3. CASE StartTimers \/ StartReturns \/ CancelParent \/ Stop \/ StopGracefully \/ StopTimesOut
    BY <1>3, UntouchedDisarms DEF StartTimers, StartReturns, CancelParent, Stop,
        StopGracefully, StopTimesOut
<1>. QED BY <1>1, <1>2, <1>3 DEF StartStop

LEMMA LoopRefines ==
    ASSUME SchedulerInv, NEW k \in Loop, ExecutionLoop(k)
    PROVE  DisarmStep \/ BeginStep
<1>. USE DEF taskVars, semVars
<1>0. TypeOK /\ Hands /\ OneChannel /\ PermitPerExecution
    BY DEF SchedulerInv, GoroutineInv
<1>1. CASE LoopEnter(k) \/ LoopExit(k) \/ LoopGoOn(k) \/ LoopFindsNothing(k)
    <2>1. /\ UNCHANGED <<ticking, ticks, queue, exec>>
          /\ loop[k].task \notin Task
          /\ \E p : loop' = [loop EXCEPT ![k] = At(p, NoTask, 0)]
        BY <1>0, <1>1 DEF LoopEnter, LoopExit, LoopGoOn, LoopFindsNothing, NoLoop, Hands
    <2>2. Requests' = Requests
        BY <1>0, <2>1, IdleLoopRequests
    <2>. QED BY <2>1, <2>2, SameGoroutines DEF DisarmStep
<1>2. CASE LoopPop(k)
    <2>1. /\ UNCHANGED <<ticking, ticks, exec>>
          /\ loop[k].pc # "acquire" /\ queue # EmptyQueue /\ queue' = PopRest(queue)
          /\ loop' = [loop EXCEPT ![k] = At("acquire", PopTask(queue), semaphore)]
        BY <1>2 DEF LoopPop
    <2>2. Requests' = Requests
        BY <1>0, <2>1, PopRequests
    <2>. QED BY <2>1, <2>2, SameGoroutines DEF DisarmStep
<1>3. CASE LoopRequeue(k)
    <2>1. /\ UNCHANGED <<ticking, ticks, exec>>
          /\ loop[k].task \in Task /\ queue' = Push(queue, loop[k].task)
          /\ loop' = [loop EXCEPT ![k] = At("check", NoTask, 0)]
        BY <1>0, <1>3 DEF LoopRequeue, Hands
    <2>2. Requests' = Requests
        BY <1>0, <2>1, RequeueRequests
    <2>. QED BY <2>1, <2>2, SameGoroutines DEF DisarmStep
<1>4. ASSUME NEW e \in Exec, LoopLaunch(k, e) PROVE BeginStep
    <2>1. /\ UNCHANGED <<ticking, ticks, queue>>
          /\ loop[k].task \in Task
          /\ loop' = [loop EXCEPT ![k] = At("check", NoTask, 0)]
          /\ exec[e].pc = "idle"
          /\ exec' = [exec EXCEPT ![e] = At("begin", loop[k].task, 0)]
        BY <1>0, <1>4, AtFields DEF LoopLaunch, Hands, Idle
    <2>2. chanLen[0] < Limit
        BY <1>0, <1>4 DEF LoopLaunch, HasRoom, OneChannel
    <2>3. Executor!Held < Limit
        BY <1>0, <2>2, HeldIsInFlight DEF PermitPerExecution, OneChannel
    <2>4. /\ Requests[loop[k].task] > 0
          /\ Requests' = [Requests EXCEPT ![loop[k].task] = @ - 1]
        BY <1>0, <2>1, LaunchRequests
    <2>5. /\ Executing' = [Executing EXCEPT ![loop[k].task] = @ + 1]
          /\ Leaving' = Leaving
        BY <1>0, <2>1, LaunchCounts
    <2>. QED BY <2>1, <2>3, <2>4, <2>5, SameGoroutines DEF BeginStep
<1>. QED BY <1>1, <1>2, <1>3, <1>4 DEF ExecutionLoop

(* An execution that begins, or gives its permit back, *)
LEMMA PermitStepsRefine ==
    ASSUME SchedulerInv, NEW e \in Exec, ExecBegin(e) \/ ExecRelease(e) \/ ExecReceive(e)
    PROVE  DisarmStep \/ CloseStep
<1>. USE DEF taskVars, semVars
<1>0. TypeOK /\ Hands
    BY DEF SchedulerInv, GoroutineInv
<1>1. CASE ExecBegin(e) \/ ExecRelease(e)
    <2>1. UNCHANGED <<ticking, ticks, queue, loop>>
        BY <1>1 DEF ExecBegin, ExecRelease
    <2>2. Executing' = Executing /\ Leaving' = Leaving
        <3>1. CASE ExecBegin(e)
            <4>1. exec' = [exec EXCEPT ![e] = At("run", exec[e].task, 0)] /\ exec[e].pc = "begin"
                BY <3>1 DEF ExecBegin
            <4>. QED BY <1>0, <4>1, AdvanceCounts
        <3>2. CASE ExecRelease(e)
            <4>1. exec' = [exec EXCEPT ![e] = At("receive", exec[e].task, semaphore)]
                  /\ exec[e].pc = "release"
                BY <3>2 DEF ExecRelease
            <4>. QED BY <1>0, <4>1, AdvanceCounts
        <3>. QED BY <1>1, <3>1, <3>2
    <2>. QED BY <2>1, <2>2, SameGoroutines DEF DisarmStep
<1>2. CASE ExecReceive(e)
    <2>1. /\ UNCHANGED <<ticking, ticks, queue, loop>>
          /\ exec[e].pc = "receive" /\ exec[e].task \in Task
          /\ exec' = [exec EXCEPT ![e] = Idle]
        BY <1>0, <1>2 DEF ExecReceive, Hands
    <2>2. /\ Leaving[exec[e].task] > 0
          /\ Leaving' = [Leaving EXCEPT ![exec[e].task] = @ - 1]
          /\ Executing' = Executing
        BY <1>0, <2>1, CloseCounts
    <2>. QED BY <2>1, <2>2, SameGoroutines DEF CloseStep
<1>. QED BY <1>1, <1>2

(* and one that ends *)
LEMMA ExecRefines ==
    ASSUME SchedulerInv, NEW e \in Exec, ExecuteTask(e)
    PROVE  DisarmStep \/ EndStep \/ CloseStep
<1>. USE DEF taskVars, semVars
<1>0. TypeOK /\ Hands
    BY DEF SchedulerInv, GoroutineInv
<1>1. CASE ExecBegin(e) \/ ExecRelease(e) \/ ExecReceive(e)
    BY <1>1, PermitStepsRefine
<1>2. CASE ExecSucceeds(e) \/ ExecFails(e)
    <2>1. /\ UNCHANGED <<ticking, ticks, loop>>
          /\ exec[e].pc = "run" /\ exec[e].task \in Task
          /\ exec' = [exec EXCEPT ![e] = At("release", exec[e].task, 0)]
          /\ queue' = queue \/ queue' = Push(queue, exec[e].task)
        BY <1>0, <1>2 DEF ExecSucceeds, ExecFails, Hands
    <2>2. Requests' = Requests \/ Requests' = [Requests EXCEPT ![exec[e].task] = @ + 1]
        BY <1>0, <2>1, SameGoroutines, PushRequests
    <2>3. /\ Executing[exec[e].task] > 0
          /\ Executing' = [Executing EXCEPT ![exec[e].task] = @ - 1]
          /\ Leaving' = [Leaving EXCEPT ![exec[e].task] = @ + 1]
        BY <1>0, <2>1, EndCounts
    <2>. QED BY <2>1, <2>2, <2>3, SameGoroutines DEF EndStep
<1>. QED BY <1>1, <1>2 DEF ExecuteTask

LEMMA InitRefines == Init => Executor!Init
<1>. SUFFICES ASSUME Init PROVE Executor!Init
    OBVIOUS
<1>1. \A t \in Task : InHand(t) = {} /\ Runners(t) = {} /\ Leavers(t) = {}
                     /\ Positions(queue, t) = {}
    BY AtFields, SchedulerAssumption
    DEF Init, InHand, Runners, Leavers, Positions, EmptyQueue, NoLoop, Idle
<1>2. \A t \in Task : Requests[t] = 0 /\ Executing[t] = 0 /\ Leaving[t] = 0
    <2>1. Cardinality({}) = 0
        BY FS_EmptySet
    <2>2. \A t \in Task :
            /\ Requests[t] = Cardinality(Positions(queue, t)) + Cardinality(InHand(t))
            /\ Executing[t] = Cardinality(Runners(t)) /\ Leaving[t] = Cardinality(Leavers(t))
        BY RequestsAre, ExecutionsAre
    <2>. QED BY <1>1, <2>1, <2>2
<1>3. {t \in Task : ticking[t]} = {}
    BY DEF Init
<1>4. Due = [t \in Task |-> 0]
    BY DEF Init, Due, TicksInHand, TickPoint
<1>. QED BY <1>2, <1>3, <1>4 DEF Executor!Init, Due, Requests, Executing, Leaving

(* The scheduler implements the executor of bounded concurrency: every     *)
(* request is executed once, and only a tick received from a live timer, a *)
(* task that is started or a retry makes one (scheduler.go:315-343,        *)
(* 400-518).                                                               *)
THEOREM SchedulerImplementsExecutor == Spec => ImplementsExecutor
<1>1. SchedulerInv /\ [Next]_vars => [Executor!Next]_Executor!vars
    <2>. SUFFICES ASSUME SchedulerInv, [Next]_vars
                  PROVE  Executor!Next \/ UNCHANGED Executor!vars
        OBVIOUS
    <2>0. TypeOK /\ Hands /\ OneChannel
        BY DEF SchedulerInv, GoroutineInv
    <2>1. CASE TaskOperation
        BY <2>0, <2>1, TaskOperationRefines, ExecutorStep
    <2>2. CASE \E t \in Task : Timer(t)
        BY <2>0, <2>2, TimerRefines, ExecutorStep
    <2>3. CASE StartStop
        BY <2>0, <2>3, StartStopRefines, ExecutorStep
    <2>4. CASE \E k \in Loop : ExecutionLoop(k)
        BY <2>4, LoopRefines, ExecutorStep
    <2>5. CASE \E e \in Exec : ExecuteTask(e)
        BY <2>5, ExecRefines, ExecutorStep
    <2>6. CASE UNCHANGED vars
        BY <2>6, UntouchedDisarms, ExecutorStep DEF vars, taskVars
    <2>. QED BY <2>1, <2>2, <2>3, <2>4, <2>5, <2>6 DEF Next
<1>. QED BY SchedulerInvariant, InitRefines, <1>1, PTL DEF Spec, ImplementsExecutor, Executor!Spec

-----------------------------------------------------------------------------
(* SetMaxConcurrent: the permits of all channels, and the one in hand *)

InTransit == IF resize.pc = "put" THEN 1 ELSE 0

LEMMA Permits ==
    ASSUME TypeOK
    PROVE  /\ SumFunction(chanLen) \in Nat
           /\ InTransit \in Nat
<1>1. IsFiniteSet(Channel) /\ 0 \in Channel
    BY SchedulerAssumption, FS_Interval DEF Channel
<1>2. chanLen \in [Channel -> Nat]
    BY DEF TypeOK
<1>. QED BY <1>1, <1>2, SumOfUpdate DEF InTransit

LEMMA PermitMoves ==
    ASSUME TypeOK, NEW c \in Channel, NEW v \in Nat, chanLen' = [chanLen EXCEPT ![c] = v]
    PROVE  SumFunction(chanLen') = SumFunction(chanLen) - chanLen[c] + v
<1>1. IsFiniteSet(Channel)
    BY SchedulerAssumption, FS_Interval DEF Channel
<1>2. chanLen \in [Channel -> Nat]
    BY DEF TypeOK
<1>3. SumFunction([chanLen EXCEPT ![c] = v]) = SumFunction(chanLen) - chanLen[c] + v
    BY <1>1, <1>2, SumOfUpdate
<1>. QED BY <1>3

LEMMA PermitsKept ==
    ASSUME TypeOK, PermitsConserved, UNCHANGED <<exec, chanLen, resize>>
    PROVE  PermitsConserved'
BY DEF PermitsConserved, InFlight

(* A step of Next conserves the permits: only the launch and the end of an *)
(* execution move one.                                                     *)
LEMMA PermitsNext ==
    ASSUME TypeOK, PermitsConserved, [Next]_vars
    PROVE  PermitsConserved'
<1>. USE DEF taskVars, lifeVars, semVars
<1>0. /\ SumFunction(chanLen) + InTransit = Cardinality(InFlight)
      /\ SumFunction(chanLen) \in Nat /\ InTransit \in Nat
      /\ Cardinality(InFlight) \in Nat
    BY Permits, FiniteGoroutines DEF PermitsConserved, InTransit
<1>1. ASSUME NEW k \in Loop, NEW e \in Exec, LoopLaunch(k, e)
      PROVE  PermitsConserved'
    <2>1. loop[k].sem \in Channel
        BY DEF TypeOK, LoopState
    <2>2. chanLen[loop[k].sem] \in Nat /\ chanLen[loop[k].sem] + 1 \in Nat
        BY <2>1 DEF TypeOK
    <2>3. chanLen' = [chanLen EXCEPT ![loop[k].sem] = chanLen[loop[k].sem] + 1]
        BY <1>1 DEF LoopLaunch
    <2>4. SumFunction(chanLen') = SumFunction(chanLen) + 1
        <3>1. SumFunction(chanLen') =
                SumFunction(chanLen) - chanLen[loop[k].sem] + (chanLen[loop[k].sem] + 1)
            BY <2>1, <2>2, <2>3, PermitMoves
        <3>. QED BY <1>0, <2>2, <3>1
    <2>5. e \notin InFlight
        BY <1>1, AtFields DEF LoopLaunch, InFlight, Idle
    <2>6. InFlight' = InFlight \cup {e}
        <3>1. \E p, t, c : p # "idle" /\ exec' = [exec EXCEPT ![e] = At(p, t, c)]
            BY <1>1 DEF LoopLaunch
        <3>. QED BY <3>1, ExecUpdate
    <2>7. Cardinality(InFlight') = Cardinality(InFlight) + 1
        BY <2>5, <2>6, FiniteGoroutines, OneMore
    <2>8. InTransit' = InTransit
        BY <1>1 DEF LoopLaunch, InTransit
    <2>9. SumFunction(chanLen') + InTransit' = Cardinality(InFlight')
        BY <1>0, <2>4, <2>7, <2>8
    <2>. QED BY <2>9 DEF PermitsConserved, InTransit
<1>2. ASSUME NEW e \in Exec, ExecReceive(e)
      PROVE  PermitsConserved'
    <2>1. exec[e].sem \in Channel
        BY DEF TypeOK, ExecState
    <2>2. chanLen[exec[e].sem] \in Nat /\ chanLen[exec[e].sem] - 1 \in Nat
        BY <1>2, <2>1 DEF TypeOK, ExecReceive
    <2>3. chanLen' = [chanLen EXCEPT ![exec[e].sem] = chanLen[exec[e].sem] - 1]
        BY <1>2 DEF ExecReceive
    <2>4. SumFunction(chanLen') = SumFunction(chanLen) - 1
        <3>1. SumFunction(chanLen') =
                SumFunction(chanLen) - chanLen[exec[e].sem] + (chanLen[exec[e].sem] - 1)
            BY <2>1, <2>2, <2>3, PermitMoves
        <3>. QED BY <1>0, <2>2, <3>1
    <2>5. e \in InFlight
        BY <1>2 DEF ExecReceive, InFlight
    <2>6. InFlight' = InFlight \ {e}
        BY <1>2, ExecUpdate DEF ExecReceive, Idle
    <2>7. Cardinality(InFlight') = Cardinality(InFlight) - 1
        BY <2>5, <2>6, FiniteGoroutines, OneLess
    <2>8. InTransit' = InTransit
        BY <1>2 DEF ExecReceive, InTransit
    <2>9. SumFunction(chanLen') + InTransit' = Cardinality(InFlight')
        BY <1>0, <2>4, <2>7, <2>8
    <2>. QED BY <2>9 DEF PermitsConserved, InTransit
<1>3. ASSUME NEW e \in Exec, ExecuteTask(e), ~ExecReceive(e)
      PROVE  PermitsConserved'
    <2>1. UNCHANGED <<chanLen, resize>>
        BY <1>3 DEF ExecuteTask, ExecBegin, ExecSucceeds, ExecFails, ExecRelease
    <2>2. e \in InFlight
        BY <1>3 DEF ExecuteTask, ExecBegin, ExecSucceeds, ExecFails, ExecRelease, InFlight
    <2>3. \E p, t, c : p # "idle" /\ exec' = [exec EXCEPT ![e] = At(p, t, c)]
        BY <1>3 DEF ExecuteTask, ExecBegin, ExecSucceeds, ExecFails, ExecRelease
    <2>4. InFlight' = InFlight \cup {e}
        BY <2>3, ExecUpdate
    <2>. QED BY <2>1, <2>2, <2>4 DEF PermitsConserved
<1>4. CASE Quiet
    BY <1>4, PermitsKept DEF Quiet
<1>5. CASE Start
    BY <1>5, PermitsKept DEF Start
<1>6. CASE LoopStep
    BY <1>1, <1>6, PermitsKept DEF LoopStep, ExecutionLoop, LoopEnter, LoopExit, LoopGoOn,
        LoopFindsNothing, LoopPop, LoopRequeue
<1>7. CASE ExecStep
    BY <1>2, <1>3, <1>7 DEF ExecStep
<1>. QED BY <1>4, <1>5, <1>6, <1>7, StepKinds

(* A step of SetMaxConcurrent takes a permit out of the old channel, or    *)
(* puts the one it holds into the new; it begins only when no other call   *)
(* is in progress.                                                         *)
LEMMA PermitsResize ==
    ASSUME TypeOK, PermitsConserved, mu = "free" => resize.pc = "none", Resize
    PROVE  PermitsConserved'
<1>0. /\ SumFunction(chanLen) + InTransit = Cardinality(InFlight)
      /\ SumFunction(chanLen) \in Nat /\ InTransit \in Nat
      /\ Cardinality(InFlight) \in Nat
    BY Permits, FiniteGoroutines DEF PermitsConserved, InTransit
<1>1. InFlight' = InFlight
    BY ResizeKeeps DEF InFlight
<1>2. /\ resize.old \in Channel /\ resize.i \in Nat
      /\ resize = [pc |-> resize.pc, old |-> resize.old, i |-> resize.i]
      /\ chanLen[resize.old] \in Nat
      /\ semaphore \in Channel /\ chanLen[semaphore] \in Nat
    BY DEF TypeOK
<1>3. SUFFICES SumFunction(chanLen') + InTransit' = SumFunction(chanLen) + InTransit
    BY <1>0, <1>1 DEF PermitsConserved, InTransit
<1>4. ASSUME chanLen' = chanLen, resize'.pc # "put", resize.pc # "put"
      PROVE  SumFunction(chanLen') + InTransit' = SumFunction(chanLen) + InTransit
    BY <1>4 DEF InTransit
<1>5. ASSUME NEW n \in 1..Limit, BeginResize(n)
      PROVE  chanLen' = chanLen /\ resize'.pc # "put" /\ resize.pc # "put"
    BY <1>5 DEF BeginResize
<1>6. CASE ResizeCheck
    <2>1. chanLen' = chanLen /\ resize'.pc # "put" /\ resize.pc # "put"
        BY <1>2, <1>6 DEF ResizeCheck, NoResize, semVars
    <2>. QED BY <1>4, <2>1
<1>7. CASE ResizeTake
    <2>1. CASE chanLen[resize.old] > 0
        <3>1. chanLen' = [chanLen EXCEPT ![resize.old] = chanLen[resize.old] - 1]
            BY <1>7, <2>1 DEF ResizeTake
        <3>2. chanLen[resize.old] - 1 \in Nat
            BY <1>2, <2>1
        <3>3. SumFunction(chanLen') = SumFunction(chanLen) - 1
            <4>1. SumFunction(chanLen') =
                    SumFunction(chanLen) - chanLen[resize.old] + (chanLen[resize.old] - 1)
                BY <1>2, <3>1, <3>2, PermitMoves
            <4>. QED BY <1>0, <1>2, <4>1
        <3>4. resize.pc = "take" /\ resize'.pc = "put"
            BY <1>2, <1>7, <2>1 DEF ResizeTake
        <3>5. InTransit = 0 /\ InTransit' = 1
            BY <3>4 DEF InTransit
        <3>. QED BY <1>0, <3>3, <3>5
    <2>2. CASE ~(chanLen[resize.old] > 0)
        <3>1. chanLen' = chanLen /\ resize'.pc # "put" /\ resize.pc # "put"
            BY <1>2, <1>7, <2>2 DEF ResizeTake
        <3>. QED BY <1>4, <3>1
    <2>. QED BY <2>1, <2>2
<1>8. CASE ResizePut
    <2>1. chanLen' = [chanLen EXCEPT ![semaphore] = chanLen[semaphore] + 1]
        BY <1>8 DEF ResizePut
    <2>2. chanLen[semaphore] + 1 \in Nat
        BY <1>2
    <2>3. SumFunction(chanLen') = SumFunction(chanLen) + 1
        <3>1. SumFunction(chanLen') =
                SumFunction(chanLen) - chanLen[semaphore] + (chanLen[semaphore] + 1)
            BY <1>2, <2>1, <2>2, PermitMoves
        <3>. QED BY <1>0, <1>2, <3>1
    <2>4. resize.pc = "put" /\ resize'.pc = "check"
        BY <1>2, <1>8 DEF ResizePut
    <2>5. InTransit = 1 /\ InTransit' = 0
        BY <2>4 DEF InTransit
    <2>. QED BY <1>0, <2>3, <2>5
<1>. QED BY <1>4, <1>5, <1>6, <1>7, <1>8 DEF Resize

(* cs.mu is held by SetMaxConcurrent exactly while a call is in progress.  *)
LEMMA ResizeHoldsMutex ==
    ASSUME TypeOK, resize.pc = "none" <=> mu # "resize", [Next \/ Resize]_vars
    PROVE  resize'.pc = "none" <=> mu' # "resize"
<1>. USE DEF taskVars, lifeVars, semVars
<1>1. CASE Resize
    <2>1. resize = [pc |-> resize.pc, old |-> resize.old, i |-> resize.i]
        BY DEF TypeOK
    <2>2. ASSUME NEW n \in 1..Limit, BeginResize(n) PROVE resize'.pc = "check" /\ mu' = "resize"
        BY <2>2 DEF BeginResize
    <2>3. CASE ResizeCheck
        BY <2>1, <2>3 DEF ResizeCheck, NoResize
    <2>4. CASE ResizeTake
        <3>1. mu' = mu /\ resize.pc = "take" /\ resize'.pc \in {"check", "put"}
            BY <2>1, <2>4 DEF ResizeTake
        <3>. QED BY <3>1
    <2>5. CASE ResizePut
        <3>1. mu' = mu /\ resize.pc = "put" /\ resize'.pc = "check"
            BY <2>1, <2>5 DEF ResizePut
        <3>. QED BY <3>1
    <2>. QED BY <1>1, <2>2, <2>3, <2>4, <2>5 DEF Resize
<1>2. CASE [Next]_vars
    <2>1. resize' = resize
        BY <1>2, StepKinds DEF Quiet, Start, LoopStep, ExecutionLoop, LoopEnter, LoopExit,
            LoopGoOn, LoopFindsNothing, LoopPop, LoopRequeue, LoopLaunch, ExecStep,
            ExecuteTask, ExecBegin, ExecSucceeds, ExecFails, ExecRelease, ExecReceive
    <2>2. mu' = "resize" <=> mu = "resize"
        BY <1>2 DEF Next, vars, TaskOperation, Timer, StartStop, ExecutionLoop,
            ExecuteTask, AddTask, UpdateTask, RemoveTask, StartTask, StopTask, PauseTask,
            ResumeTask, TickFires, HandleTick, TickReadsEnabled, TickReadsStatus,
        TickReads, TickPushes, TimerExit, Start, StartTimers, StartNextTimer, StartReturns,
            CancelParent, Stop, StopGracefully, StopTimesOut, LoopEnter, LoopExit,
            LoopGoOn, LoopFindsNothing, LoopPop, LoopRequeue, LoopLaunch, ExecBegin,
            ExecSucceeds, ExecFails, ExecRelease, ExecReceive
    <2>. QED BY <2>1, <2>2
<1>. QED BY <1>1, <1>2

LEMMA ResizeInvariant == SpecResize => []ResizeInv
<1>1. Init => ResizeInv
    <2>. SUFFICES ASSUME Init PROVE ResizeInv
        OBVIOUS
    <2>1. GoroutineInv
        BY InitInv DEF SchedulerInv
    <2>2. resize.pc = "none" /\ mu = "free"
        BY DEF Init, NoResize
    <2>3. chanLen \in [Channel -> {0}] /\ IsFiniteSet(Channel)
        BY SchedulerAssumption, FS_Interval DEF Init, Channel
    <2>4. SumFunction(chanLen) = 0
        BY <2>3, SumOfZeros
    <2>5. InFlight = {}
        BY AtFields DEF Init, InFlight, Idle
    <2>6. Cardinality(InFlight) = 0
        BY <2>5, FS_EmptySet
    <2>. QED BY <2>1, <2>2, <2>4, <2>6 DEF ResizeInv, PermitsConserved
<1>2. ResizeInv /\ [Next \/ Resize]_vars => ResizeInv'
    <2>. SUFFICES ASSUME ResizeInv, [Next \/ Resize]_vars PROVE ResizeInv'
        OBVIOUS
    <2>0. TypeOK /\ PermitsConserved /\ (resize.pc = "none" <=> mu # "resize")
        BY DEF ResizeInv, GoroutineInv
    <2>1. GoroutineInv'
        BY GoroutineStep DEF ResizeInv
    <2>2. resize'.pc = "none" <=> mu' # "resize"
        BY <2>0, ResizeHoldsMutex
    <2>3. PermitsConserved'
        <3>1. mu = "free" => resize.pc = "none"
            BY <2>0
        <3>. QED BY <2>0, <3>1, PermitsNext, PermitsResize
    <2>. QED BY <2>1, <2>2, <2>3 DEF ResizeInv
<1>. QED BY <1>1, <1>2, PTL DEF SpecResize

(* SetMaxConcurrent loses and invents no permit, however the loop and the  *)
(* deferred receives run between its steps (scheduler.go:784-796).         *)
THEOREM ResizeConservesPermits == SpecResize => []PermitsConserved
<1>1. ResizeInv => PermitsConserved
    BY DEF ResizeInv
<1>. QED BY ResizeInvariant, <1>1, PTL

-----------------------------------------------------------------------------
(* What is left of a task whose timer is gone *)

LEMMA WorkIs ==
    ASSUME TypeOK, NEW t \in Task
    PROVE  /\ Requests[t] \in Nat /\ Executing[t] \in Nat
           /\ Due[t] \in Nat
           /\ Work(t) = Due[t] + Requests[t] + Executing[t]
           /\ Work(t)' = Due'[t] + Requests'[t] + Executing'[t]
           /\ Active(t) = Executing[t] /\ Active(t)' = Executing'[t]
BY ExecutorTypes, TickMoves DEF Work, Due, Requests, Executing

(* Only the start of a timer, the receipt of its ticks and a retry add to  *)
(* the work.                                                               *)
LEMMA WorkKept ==
    ASSUME TypeOK, NEW t \in Task, ~ticking[t], ~ticking'[t],
           \/ ArmStep \/ DisarmStep \/ FireStep \/ RequestStep
           \/ BeginStep \/ CloseStep
    PROVE  Work(t)' <= Work(t) /\ ~(Active(t)' < Active(t))
<1>0. /\ Requests \in [Task -> Nat] /\ Executing \in [Task -> Nat]
      /\ Due \in [Task -> Nat]
    BY ExecutorTypes, TickMoves DEF Due
<1>1. t \notin Armed /\ t \notin Armed'
    BY DEF Armed
<1>2. CASE ArmStep
    <2>1. Due'[t] = Due[t] /\ Requests'[t] = Requests[t] /\ Executing'[t] = Executing[t]
        BY <1>0, <1>1, <1>2 DEF ArmStep
    <2>. QED BY <2>1, WorkIs
<1>3. CASE FireStep
    <2>1. Due'[t] = Due[t] /\ Requests'[t] = Requests[t] /\ Executing'[t] = Executing[t]
        BY <1>0, <1>1, <1>3 DEF FireStep
    <2>. QED BY <2>1, WorkIs
<1>4. CASE RequestStep
    <2>1. PICK u \in Task :
            /\ Due' = [Due EXCEPT ![u] = @ - 1]
            /\ Requests' = Requests \/ Requests' = [Requests EXCEPT ![u] = @ + 1]
        BY <1>4 DEF RequestStep
    <2>2. /\ Executing'[t] = Executing[t]
          /\ Due'[t] + Requests'[t] <= Due[t] + Requests[t]
        BY <1>0, <1>4, <2>1 DEF RequestStep
    <2>3. Due'[t] \in Int /\ Requests'[t] \in Nat
        BY <1>0, <2>1
    <2>. QED BY <2>2, <2>3, WorkIs
<1>5. CASE BeginStep
    <2>1. PICK u \in Task : /\ Requests[u] > 0
                            /\ Requests' = [Requests EXCEPT ![u] = @ - 1]
                            /\ Executing' = [Executing EXCEPT ![u] = @ + 1]
        BY <1>5 DEF BeginStep
    <2>2. \/ Requests'[t] = Requests[t] - 1 /\ Executing'[t] = Executing[t] + 1
          \/ Requests'[t] = Requests[t] /\ Executing'[t] = Executing[t]
        BY <1>0, <2>1
    <2>3. Due'[t] = Due[t]
        BY <1>5 DEF BeginStep
    <2>. QED BY <2>2, <2>3, WorkIs
<1>6. CASE DisarmStep \/ CloseStep
    BY <1>6, WorkIs DEF DisarmStep, CloseStep
<1>. QED BY <1>2, <1>3, <1>4, <1>5, <1>6

(* An execution that ends takes its task's work down, or keeps it and      *)
(* counts a failure.                                                       *)
LEMMA EndRunsDown ==
    ASSUME SchedulerInv, NEW e \in Exec, ExecSucceeds(e) \/ ExecFails(e), NEW t \in Task
    PROVE  RunsDown(t)
<1>0. TypeOK /\ Hands
    BY DEF SchedulerInv, GoroutineInv
<1>. DEFINE u == exec[e].task
<1>1. /\ UNCHANGED <<ticks, loop>> /\ exec[e].pc = "run" /\ u \in Task
      /\ exec' = [exec EXCEPT ![e] = At("release", u, 0)]
    BY <1>0 DEF ExecSucceeds, ExecFails, Hands
<1>2. /\ Executing[u] > 0 /\ Executing' = [Executing EXCEPT ![u] = @ - 1]
    BY <1>0, <1>1, EndCounts
<1>3. Requests \in [Task -> Nat] /\ Executing \in [Task -> Nat] /\ retryCount \in [Task -> Nat]
    BY <1>0, ExecutorTypes DEF TypeOK
<1>7. Due'[t] = Due[t] /\ Due[t] \in Nat
    BY <1>0, <1>1, SameGoroutines, WorkIs
<1>4. CASE t # u
    <2>1. queue' = queue \/ queue' = Push(queue, u)
        BY DEF ExecSucceeds, ExecFails
    <2>2. Requests' = Requests \/ Requests' = [Requests EXCEPT ![u] = @ + 1]
        BY <1>0, <1>1, <2>1, SameGoroutines, PushRequests
    <2>3. Requests'[t] = Requests[t] /\ Executing'[t] = Executing[t]
        BY <1>2, <1>3, <1>4, <2>2
    <2>4. Work(t)' = Work(t) /\ ~(Active(t)' < Active(t)) /\ Work(t) \in Nat
        BY <1>0, <1>7, <2>3, WorkIs
    <2>5. retryCount'[t] = retryCount[t]
        BY <1>3, <1>4 DEF ExecSucceeds, ExecFails
    <2>. QED BY <2>4, <2>5 DEF RunsDown
<1>5. CASE t = u /\ (ExecSucceeds(e) \/ ~(retryCount[u] + 1 < MaxRetries))
    <2>1. queue' = queue
        BY <1>5 DEF ExecSucceeds, ExecFails
    <2>2. Requests' = Requests
        BY <1>1, <2>1, SameGoroutines
    <2>3. Work(t)' < Work(t) /\ Work(t) \in Nat /\ Work(t)' \in Nat
        BY <1>0, <1>2, <1>3, <1>5, <1>7, <2>2, WorkIs
    <2>. QED BY <2>3 DEF RunsDown
<1>6. CASE t = u /\ ExecFails(e) /\ retryCount[u] + 1 < MaxRetries
    <2>1. queue' = Push(queue, u) /\ retryCount' = [retryCount EXCEPT ![u] = retryCount[u] + 1]
        BY <1>6 DEF ExecFails
    <2>2. Requests' = [Requests EXCEPT ![u] = @ + 1]
        BY <1>0, <1>1, <2>1, PushRequests
    <2>3. Requests'[t] = Requests[t] + 1 /\ Executing'[t] = Executing[t] - 1
        BY <1>2, <1>3, <1>6, <2>2
    <2>6. Requests[t] \in Nat /\ Executing[t] \in Nat
        BY <1>3
    <2>4. Work(t)' = Work(t) /\ Active(t)' < Active(t) /\ Work(t) \in Nat
        <3>1. /\ Work(t) = Due[t] + Requests[t] + Executing[t]
              /\ Work(t)' = Due'[t] + Requests'[t] + Executing'[t]
              /\ Active(t) = Executing[t] /\ Active(t)' = Executing'[t]
            BY <1>0, WorkIs
        <3>. QED BY <1>7, <2>3, <2>6, <3>1
    <2>5. retryCount'[t] = retryCount[t] + 1 /\ retryCount'[t] < MaxRetries
        BY <1>3, <1>6, <2>1
    <2>. QED BY <2>4, <2>5 DEF RunsDown
<1>. QED BY <1>4, <1>5, <1>6

(* Nothing else counts failures, and only a task that is configured anew   *)
(* has its count reset.                                                    *)
LEMMA FailuresKept ==
    ASSUME TypeOK, [Next]_vars, NEW t \in Task,
           \A e \in Exec : ~ExecSucceeds(e) /\ ~ExecFails(e)
    PROVE  retryCount'[t] = retryCount[t] \/ AddTask(t)
<1>1. ASSUME NEW u \in Task, AddTask(u) PROVE retryCount'[t] = retryCount[t] \/ AddTask(t)
    BY <1>1 DEF AddTask, TypeOK
<1>2. CASE TaskOperation
    BY <1>1, <1>2 DEF TaskOperation, UpdateTask, RemoveTask, StartTask, StopTask, PauseTask,
        ResumeTask
<1>3. CASE \E u \in Task : Timer(u)
    BY <1>3 DEF Timer, TickFires, HandleTick, TickReadsEnabled, TickReadsStatus,
        TickReads, TickPushes, TimerExit, taskVars
<1>4. CASE StartStop
    BY <1>4 DEF StartStop, Start, StartTimers, StartReturns, CancelParent, Stop,
        StopGracefully, StopTimesOut, StartNextTimer, taskVars
<1>5. CASE \E k \in Loop : ExecutionLoop(k)
    BY <1>5 DEF ExecutionLoop, LoopEnter, LoopExit, LoopGoOn, LoopFindsNothing, LoopPop,
        LoopRequeue, LoopLaunch, taskVars
<1>6. CASE \E e \in Exec : ExecuteTask(e)
    BY <1>6 DEF ExecuteTask, ExecBegin, ExecRelease, ExecReceive, taskVars
<1>7. CASE UNCHANGED vars
    BY <1>7 DEF vars, taskVars
<1>. QED BY <1>2, <1>3, <1>4, <1>5, <1>6, <1>7 DEF Next

(* What is left of a task without a live timer only runs down, and each    *)
(* retry uses up a failure, also when several of its executions fail and   *)
(* succeed in any order; a tick that was received before the timer was      *)
(* stopped is among what is left (scheduler.go:327-330, 476-518).          *)
THEOREM LeftoverWorkRunsDown == Spec => LeftoverRunsDown
<1>1. SchedulerInv /\ [Next]_vars =>
        [\A t \in Task : ~ticking[t] /\ ~ticking'[t] => RunsDown(t)]_vars
    <2>. SUFFICES ASSUME SchedulerInv, [Next]_vars, NEW t \in Task, ~ticking[t], ~ticking'[t]
                  PROVE  RunsDown(t)
        OBVIOUS
    <2>0. TypeOK /\ Hands /\ OneChannel
        BY DEF SchedulerInv, GoroutineInv
    <2>1. CASE \E e \in Exec : ExecSucceeds(e) \/ ExecFails(e)
        BY <2>1, EndRunsDown
    <2>2. CASE \A e \in Exec : ~ExecSucceeds(e) /\ ~ExecFails(e)
        <3>1. \/ ArmStep \/ DisarmStep \/ FireStep \/ RequestStep
              \/ BeginStep \/ CloseStep
            <4>1. CASE TaskOperation
                BY <2>0, <4>1, TaskOperationRefines
            <4>2. CASE \E u \in Task : Timer(u)
                BY <2>0, <4>2, TimerRefines
            <4>3. CASE StartStop
                BY <2>0, <4>3, StartStopRefines
            <4>4. CASE \E k \in Loop : ExecutionLoop(k)
                BY <4>4, LoopRefines
            <4>5. CASE \E e \in Exec : ExecuteTask(e)
                <5>1. PICK e \in Exec : ExecBegin(e) \/ ExecRelease(e) \/ ExecReceive(e)
                    BY <2>2, <4>5 DEF ExecuteTask
                <5>. QED BY <5>1, PermitStepsRefine
            <4>6. CASE UNCHANGED vars
                BY <4>6, UntouchedDisarms DEF vars, taskVars
            <4>. QED BY <4>1, <4>2, <4>3, <4>4, <4>5, <4>6 DEF Next
        <3>2. Work(t)' <= Work(t) /\ ~(Active(t)' < Active(t))
            BY <2>0, <3>1, WorkKept
        <3>3. retryCount'[t] = retryCount[t] \/ AddTask(t)
            BY <2>0, <2>2, FailuresKept
        <3>4. Work(t) \in Nat
            BY <2>0, WorkIs
        <3>. QED BY <3>2, <3>3, <3>4 DEF RunsDown
    <2>. QED BY <2>1, <2>2
<1>. QED BY SchedulerInvariant, <1>1, PTL DEF Spec, LeftoverRunsDown
=============================================================================
