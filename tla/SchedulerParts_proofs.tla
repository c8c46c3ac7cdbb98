----------------------- MODULE SchedulerParts_proofs ------------------------
(***************************************************************************)
(* Theorems about the parts beside the scheduler's loop, each for every    *)
(* value of its constants: the priority queue as its callers see it, the   *)
(* timers of one task, the resource manager, and the delays between        *)
(* retries.                                                                *)
(***************************************************************************)
EXTENDS QueueClient, TaskTimer, ResourceControl, RetryBackoff, PriorityQueue_proofs, OperatorLemmas

-----------------------------------------------------------------------------
(* The queue: QueueClient implements PriorityService.                      *)

(* SelectInSeq finds the first position of a task that waits.              *)
First(s, t) == SelectInSeq(s, LAMBDA a : a = t)

(* The first position of a task is one it has, and it has none before (the *)
(* arrival that Pop takes, priority_queue.go:49).                          *)
LEMMA FirstFacts ==
    ASSUME NEW s \in Seq(Task), NEW t, NEW m \in 1..Len(s), s[m] = t
    PROVE  First(s, t) \in 1..m /\ s[First(s, t)] = t /\ \A j \in 1..(First(s, t) - 1) : s[j] # t
<1>. DEFINE I == {i \in 1..Len(s) : s[i] = t}
<1>1. First(s, t) = IF I # {} THEN Min(I) ELSE 0
    BY DEF First, SelectInSeq
<1>2. I \in SUBSET Nat /\ m \in I
    OBVIOUS
<1>3. Min(I) \in I /\ \A j \in I : Min(I) <= j
    BY <1>2, MinIsLeast
<1>4. First(s, t) = Min(I)
    BY <1>1, <1>2
<1>5. First(s, t) \in 1..m /\ s[First(s, t)] = t
    BY <1>2, <1>3, <1>4
<1>6. ASSUME NEW j \in 1..(First(s, t) - 1) PROVE s[j] # t
    <2>1. j \in 1..Len(s) /\ ~(First(s, t) <= j)
        BY <1>5
    <2>. QED BY <1>3, <1>4, <2>1
<1>. QED BY <1>5, <1>6

-----------------------------------------------------------------------------

(* place tells for every position of the slice which arrival it holds: it  *)
(* is a bijection, the priorities never rise along the slice, and equals   *)
(* keep their order of arrival.                                            *)
Arranged(place, slice, seq) ==
    /\ place \in [1..Len(slice) -> 1..Len(slice)]
    /\ \A m \in 1..Len(slice) : \E i \in 1..Len(slice) : place[i] = m
    /\ \A i \in 1..Len(slice) : slice[i] = seq[place[i]]
    /\ \A i, j \in 1..Len(slice) : i < j =>
        /\ place[i] # place[j]
        /\ Priority[slice[i]] >= Priority[slice[j]]
        /\ Priority[slice[i]] = Priority[slice[j]] => place[i] < place[j]

(* The slice is an arrangement of the arrivals that wait. That it is       *)
(* sorted would not be inductive enough: the order among equals is what    *)
(* Pop's promise rests on.                                                 *)
QueueInv ==
    /\ items \in Seq(Task) /\ arrivals \in Seq(Task)
    /\ Len(items) = Len(arrivals)
    /\ \E place : Arranged(place, items, arrivals)

(* The empty queue arranges no arrivals (priority_queue.go:14).            *)
LEMMA QueueInitially == Init => QueueInv
<1>. SUFFICES ASSUME Init PROVE QueueInv
    OBVIOUS
<1>1. items \in Seq(Task) /\ arrivals \in Seq(Task) /\ Len(items) = 0 /\ Len(arrivals) = 0
    BY DEF Init, EmptyQueue
<1>. DEFINE place == [i \in 1..0 |-> i]
<1>2. 1..0 = {}
    OBVIOUS
<1>3. Arranged(place, items, arrivals)
    BY <1>1, <1>2 DEF Arranged
<1>. QED BY <1>1, <1>3 DEF QueueInv

(* Push keeps the arrangement: the new arrival goes behind those of its    *)
(* priority and before the lower ones, and the others keep their places to *)
(* each other (priority_queue.go:21).                                      *)
LEMMA PushStep ==
    ASSUME QueueInv, NEW t \in Task, DoPush(t)
    PROVE  QueueInv'
<1>. DEFINE n == Len(items)
<1>1. n \in Nat /\ items \in Seq(Task) /\ arrivals \in Seq(Task) /\ Len(arrivals) = n
    BY DEF QueueInv
<1>2. PICK place : Arranged(place, items, arrivals)
    BY DEF QueueInv
<1>3. PICK p \in 1..(n + 1) : PushesAt(items, t, p)
    BY <1>1, PushFacts
<1>4. items' = Push(items, t) /\ arrivals' = Append(arrivals, t)
    BY DEF DoPush
<1>5. /\ items' \in Seq(Task) /\ Len(items') = n + 1
      /\ \A j \in 1..(n + 1) : items'[j] = IF j < p THEN items[j] ELSE IF j = p THEN t ELSE items[j - 1]
      /\ \A i \in 1..(p - 1) : ~(Priority[t] > Priority[items[i]])
      /\ p <= n => Priority[t] > Priority[items[p]]
    BY <1>3, <1>4 DEF PushesAt
<1>6. /\ arrivals' \in Seq(Task) /\ Len(arrivals') = n + 1 /\ arrivals'[n + 1] = t
      /\ \A j \in 1..n : arrivals'[j] = arrivals[j]
    BY <1>1, <1>4
<1>. DEFINE q == [i \in 1..(n + 1) |-> IF i < p THEN place[i] ELSE IF i = p THEN n + 1 ELSE place[i - 1]]
<1>. HIDE DEF n
<1>7. /\ place \in [1..n -> 1..n]
      /\ \A m \in 1..n : \E i \in 1..n : place[i] = m
      /\ \A i \in 1..n : items[i] = arrivals[place[i]] /\ items[i] \in Task /\ Priority[items[i]] \in Int
      /\ \A i, j \in 1..n : i < j =>
            /\ place[i] # place[j]
            /\ Priority[items[i]] >= Priority[items[j]]
            /\ Priority[items[i]] = Priority[items[j]] => place[i] < place[j]
    <2>1. \A i \in 1..n : items[i] \in Task
        BY <1>1 DEF n
    <2>. QED BY <1>1, <1>2, <2>1, PriorityAssumption DEF Arranged, n
<1>8. Priority[t] \in Int
    BY PriorityAssumption
(* the position before the push of what is at i afterwards *)
<1>. DEFINE old(i) == IF i < p THEN i ELSE i - 1
<1>9. \A i \in 1..(n + 1) : i # p => old(i) \in 1..n /\ items'[i] = items[old(i)] /\ q[i] = place[old(i)]
    BY <1>1, <1>3, <1>5
<1>10. items'[p] = t /\ q[p] = n + 1
    BY <1>1, <1>3, <1>5
<1>11. \A i, j \in 1..(n + 1) : i < j /\ i # p /\ j # p => old(i) < old(j)
    BY <1>1
<1>12. \A i \in 1..(n + 1) : i > p => Priority[t] > Priority[items'[i]]
    <2>. SUFFICES ASSUME NEW i \in 1..(n + 1), i > p PROVE Priority[t] > Priority[items[i - 1]]
        BY <1>9, <1>1
    <2>1. i - 1 \in 1..n /\ p \in 1..n /\ p <= i - 1 /\ p <= n
        BY <1>1, <1>3
    <2>2. Priority[t] > Priority[items[p]]
        BY <1>5, <2>1
    <2>3. Priority[items[p]] >= Priority[items[i - 1]]
        <3>1. CASE p = i - 1
            BY <1>7, <2>1, <3>1
        <3>2. CASE p < i - 1
            BY <1>7, <2>1, <3>2
        <3>. QED BY <2>1, <3>1, <3>2
    <2>4. Priority[items[p]] \in Int /\ Priority[items[i - 1]] \in Int
        BY <1>7, <2>1
    <2>. QED BY <1>8, <2>2, <2>3, <2>4
<1>13. \A i \in 1..(n + 1) : i < p => Priority[items'[i]] >= Priority[t]
    <2>. SUFFICES ASSUME NEW i \in 1..(n + 1), i < p PROVE Priority[items[i]] >= Priority[t]
        BY <1>9, <1>1
    <2>1. i \in 1..n /\ i \in 1..(p - 1)
        BY <1>1, <1>3
    <2>. QED BY <1>5, <1>7, <1>8, <2>1
<1>14. \A i \in 1..(n + 1) : q[i] \in 1..(n + 1)
    <2>. SUFFICES ASSUME NEW i \in 1..(n + 1) PROVE q[i] \in 1..(n + 1)
        OBVIOUS
    <2>1. CASE i = p
        BY <1>1, <1>10, <2>1
    <2>2. CASE i # p
        <3>1. old(i) \in 1..n /\ q[i] = place[old(i)]
            BY <1>9, <2>2
        <3>. HIDE DEF q, old
        <3>2. q[i] \in 1..n
            BY <1>7, <3>1
        <3>. QED BY <1>1, <3>2
    <2>. QED BY <2>1, <2>2
<1>15. \A m \in 1..(n + 1) : \E i \in 1..(n + 1) : q[i] = m
    <2>. SUFFICES ASSUME NEW m \in 1..(n + 1) PROVE \E i \in 1..(n + 1) : q[i] = m
        OBVIOUS
    <2>1. CASE m = n + 1
        BY <1>3, <1>10, <2>1
    <2>2. CASE m # n + 1
        <3>1. m \in 1..n
            BY <1>1, <2>2
        <3>2. PICK k \in 1..n : place[k] = m
            BY <1>7, <3>1
        <3>3. CASE k < p
            <4>1. k \in 1..(n + 1) /\ k # p /\ old(k) = k
                BY <1>1, <3>3
            <4>. QED BY <1>9, <3>2, <4>1
        <3>4. CASE ~(k < p)
            <4>1. k + 1 \in 1..(n + 1) /\ k + 1 # p /\ old(k + 1) = k
                BY <1>1, <1>3, <3>4
            <4>. QED BY <1>9, <3>2, <4>1
        <3>. QED BY <3>3, <3>4
    <2>. QED BY <2>1, <2>2
<1>16. \A i \in 1..(n + 1) : items'[i] = arrivals'[q[i]]
    <2>. SUFFICES ASSUME NEW i \in 1..(n + 1) PROVE items'[i] = arrivals'[q[i]]
        OBVIOUS
    <2>1. CASE i = p
        BY <1>6, <1>10, <2>1
    <2>2. CASE i # p
        <3>1. old(i) \in 1..n /\ items'[i] = items[old(i)] /\ q[i] = place[old(i)]
            BY <1>9, <2>2
        <3>. HIDE DEF q, old
        <3>2. place[old(i)] \in 1..n
            BY <1>7, <3>1
        <3>. QED BY <1>6, <1>7, <3>1, <3>2
    <2>. QED BY <2>1, <2>2
<1>. HIDE DEF q
<1>17. \A i, j \in 1..(n + 1) : i < j =>
        /\ q[i] # q[j]
        /\ Priority[items'[i]] >= Priority[items'[j]]
        /\ Priority[items'[i]] = Priority[items'[j]] => q[i] < q[j]
    <2>. SUFFICES ASSUME NEW i \in 1..(n + 1), NEW j \in 1..(n + 1), i < j
                  PROVE  /\ q[i] # q[j]
                         /\ Priority[items'[i]] >= Priority[items'[j]]
                         /\ Priority[items'[i]] = Priority[items'[j]] => q[i] < q[j]
        OBVIOUS
    <2>1. CASE i = p
        <3>1. j > p /\ j # p
            BY <1>3, <2>1
        <3>2. Priority[t] > Priority[items'[j]] /\ items'[i] = t /\ q[i] = n + 1
            BY <1>10, <1>12, <2>1, <3>1
        <3>3. old(j) \in 1..n /\ items'[j] = items[old(j)] /\ q[j] = place[old(j)]
            BY <1>9, <3>1
        <3>. HIDE DEF old
        <3>4. q[j] \in 1..n /\ Priority[items'[j]] \in Int
            BY <1>7, <3>3
        <3>. QED BY <1>1, <1>8, <3>2, <3>4
    <2>2. CASE j = p
        <3>1. i < p /\ i # p
            BY <1>3, <2>2
        <3>2. Priority[items'[i]] >= Priority[t] /\ items'[j] = t /\ q[j] = n + 1
            BY <1>10, <1>13, <2>2, <3>1
        <3>3. old(i) \in 1..n /\ items'[i] = items[old(i)] /\ q[i] = place[old(i)]
            BY <1>9, <3>1
        <3>. HIDE DEF old
        <3>4. q[i] \in 1..n /\ Priority[items'[i]] \in Int
            BY <1>7, <3>3
        <3>. QED BY <1>1, <1>8, <3>2, <3>4
    <2>3. CASE i # p /\ j # p
        <3>1. old(i) \in 1..n /\ items'[i] = items[old(i)] /\ q[i] = place[old(i)]
            BY <1>9, <2>3
        <3>2. old(j) \in 1..n /\ items'[j] = items[old(j)] /\ q[j] = place[old(j)]
            BY <1>9, <2>3
        <3>3. old(i) < old(j)
            BY <1>11, <2>3
        <3>. DEFINE x == old(i)
                    y == old(j)
        <3>. HIDE DEF old
        <3>4. x \in 1..n /\ y \in 1..n /\ x < y
            BY <3>1, <3>2, <3>3
        <3>5. items'[i] = items[x] /\ items'[j] = items[y] /\ q[i] = place[x] /\ q[j] = place[y]
            BY <3>1, <3>2
        <3>. HIDE DEF x, y
        <3>6. /\ place[x] # place[y]
              /\ Priority[items[x]] >= Priority[items[y]]
              /\ Priority[items[x]] = Priority[items[y]] => place[x] < place[y]
            BY <1>7, <3>4
        <3>. QED BY <3>5, <3>6
    <2>. QED BY <2>1, <2>2, <2>3
<1>18. q \in [1..(n + 1) -> 1..(n + 1)]
    BY <1>14 DEF q
<1>19. Arranged(q, items', arrivals')
    BY <1>5, <1>15, <1>16, <1>17, <1>18 DEF Arranged
<1>. QED BY <1>5, <1>6, <1>19 DEF QueueInv

(* The head of the slice is the earliest arrival of its priority, and no   *)
(* arrival has a higher one: DoPop serves what PriorityService may serve,  *)
(* and what is left stays arranged (priority_queue.go:41).                 *)
LEMMA PopStep ==
    ASSUME QueueInv, DoPop
    PROVE  QueueInv' /\ Service!Serve
<1>. DEFINE n == Len(items)
            t == PopTask(items)
<1>1. /\ n \in Nat \ {0} /\ items \in Seq(Task) /\ arrivals \in Seq(Task) /\ Len(arrivals) = n
      /\ items # EmptyQueue
    BY DEF QueueInv, DoPop, EmptyQueue
<1>2. PICK place : Arranged(place, items, arrivals)
    BY DEF QueueInv
<1>3. /\ t = items[1] /\ PopRest(items) \in Seq(Task) /\ Len(PopRest(items)) = n - 1
      /\ \A i \in 1..(n - 1) : PopRest(items)[i] = items[i + 1]
    BY <1>1 DEF PopTask, PopRest
<1>4. /\ served' = t /\ items' = PopRest(items) /\ arrivals' = RemoveAt(arrivals, First(arrivals, t))
    BY DEF DoPop, First
<1>. HIDE DEF n, t
<1>5. /\ place \in [1..n -> 1..n]
      /\ \A m \in 1..n : \E i \in 1..n : place[i] = m
      /\ \A i \in 1..n : items[i] = arrivals[place[i]] /\ items[i] \in Task /\ Priority[items[i]] \in Int
      /\ \A i, j \in 1..n : i < j =>
            /\ place[i] # place[j]
            /\ Priority[items[i]] >= Priority[items[j]]
            /\ Priority[items[i]] = Priority[items[j]] => place[i] < place[j]
    <2>1. \A i \in 1..n : items[i] \in Task
        BY <1>1 DEF n
    <2>. QED BY <1>1, <1>2, <2>1, PriorityAssumption DEF Arranged, n
<1>. DEFINE f == place[1]
<1>6. 1 \in 1..n /\ f \in 1..n /\ arrivals[f] = t
    BY <1>1, <1>3, <1>5
<1>. HIDE DEF f
<1>7. \A j \in 1..n : Priority[arrivals[j]] <= Priority[t] /\ (Priority[arrivals[j]] = Priority[t] => f <= j)
    <2>. SUFFICES ASSUME NEW j \in 1..n
                  PROVE  Priority[arrivals[j]] <= Priority[t] /\ (Priority[arrivals[j]] = Priority[t] => f <= j)
        OBVIOUS
    <2>1. PICK k \in 1..n : place[k] = j
        BY <1>5
    <2>2. CASE k = 1
        BY <1>3, <1>5, <1>6, <2>1, <2>2 DEF f
    <2>3. CASE k # 1
        <3>1. 1 < k
            BY <2>3
        <3>2. Priority[items[1]] >= Priority[items[k]] /\ (Priority[items[1]] = Priority[items[k]] => place[1] < place[k])
            BY <1>5, <1>6, <3>1
        <3>3. items[k] = arrivals[j] /\ Priority[items[k]] \in Int /\ Priority[items[1]] \in Int
            BY <1>5, <1>6, <2>1
        <3>. QED BY <1>3, <1>6, <2>1, <3>2, <3>3 DEF f
    <2>. QED BY <2>2, <2>3
<1>8. First(arrivals, t) = f
    <2>1. First(arrivals, t) \in 1..f /\ arrivals[First(arrivals, t)] = t
        BY <1>1, <1>6, FirstFacts
    <2>2. First(arrivals, t) \in 1..n
        BY <1>1, <1>6, <2>1
    <2>3. f <= First(arrivals, t)
        BY <1>7, <2>1, <2>2
    <2>. QED BY <1>6, <2>1, <2>3
<1>9. Service!IsNext(f)
    <2>1. \A j \in 1..n : Priority[arrivals[j]] \in Int
        BY <1>1, PriorityAssumption DEF n
    <2>2. Priority[t] \in Int
        BY <1>6, <2>1
    <2>3. \A j \in 1..(f - 1) : Priority[arrivals[j]] < Priority[t]
        <3>. SUFFICES ASSUME NEW j \in 1..(f - 1) PROVE Priority[arrivals[j]] < Priority[t]
            OBVIOUS
        <3>1. j \in 1..n /\ ~(f <= j)
            BY <1>1, <1>6
        <3>. QED BY <1>7, <2>1, <2>2, <3>1
    <2>. QED BY <1>1, <1>6, <1>7, <2>3 DEF Service!IsNext
<1>10. Service!Serve
    BY <1>1, <1>4, <1>6, <1>8, <1>9 DEF Service!Serve, Service!RemoveAt, RemoveAt
<1>11. /\ arrivals' \in Seq(Task) /\ Len(arrivals') = n - 1
       /\ \A j \in 1..(n - 1) : arrivals'[j] = IF j < f THEN arrivals[j] ELSE arrivals[j + 1]
    BY <1>1, <1>4, <1>6, <1>8, RemoveAtFacts
<1>12. /\ items' \in Seq(Task) /\ Len(items') = n - 1
       /\ \A i \in 1..(n - 1) : items'[i] = items[i + 1]
    BY <1>3, <1>4
(* the position after the pop of the arrival at m before it *)
<1>. DEFINE new(m) == IF m < f THEN m ELSE m - 1
            q == [i \in 1..(n - 1) |-> new(place[i + 1])]
<1>13. \A i \in 1..(n - 1) : i + 1 \in 1..n /\ 1 < i + 1
    BY <1>1
<1>14. \A i \in 1..(n - 1) : place[i + 1] \in 1..n /\ place[i + 1] # f
    BY <1>5, <1>6, <1>13 DEF f
<1>15. \A m \in 1..n : m # f => new(m) \in 1..(n - 1) /\ arrivals'[new(m)] = arrivals[m]
    <2>. SUFFICES ASSUME NEW m \in 1..n, m # f
                  PROVE  new(m) \in 1..(n - 1) /\ arrivals'[new(m)] = arrivals[m]
        OBVIOUS
    <2>1. CASE m < f
        <3>1. new(m) = m /\ m \in 1..(n - 1)
            BY <1>1, <1>6, <2>1
        <3>. QED BY <1>11, <2>1, <3>1
    <2>2. CASE ~(m < f)
        <3>1. new(m) = m - 1 /\ m - 1 \in 1..(n - 1) /\ ~(m - 1 < f) /\ (m - 1) + 1 = m
            BY <1>1, <1>6, <2>2
        <3>. QED BY <1>11, <2>2, <3>1
    <2>. QED BY <2>1, <2>2
<1>16. \A l, m \in 1..n : l # f /\ m # f =>
            (l # m => new(l) # new(m)) /\ (l < m => new(l) < new(m))
    BY <1>1, <1>6
<1>17. \A i \in 1..(n - 1) : q[i] \in 1..(n - 1)
    BY <1>14, <1>15
<1>18. \A m \in 1..(n - 1) : \E i \in 1..(n - 1) : q[i] = m
    <2>. SUFFICES ASSUME NEW m \in 1..(n - 1) PROVE \E i \in 1..(n - 1) : q[i] = m
        OBVIOUS
    <2>. DEFINE l == IF m < f THEN m ELSE m + 1
    <2>1. l \in 1..n /\ l # f /\ new(l) = m
        BY <1>1, <1>6
    <2>2. PICK k \in 1..n : place[k] = l
        BY <1>5, <2>1
    <2>3. k # 1
        BY <2>1, <2>2 DEF f
    <2>4. k - 1 \in 1..(n - 1) /\ (k - 1) + 1 = k
        BY <1>1, <2>3
    <2>. HIDE DEF l
    <2>5. q[k - 1] = m
        BY <2>1, <2>2, <2>4
    <2>. QED BY <2>4, <2>5
<1>19. \A i \in 1..(n - 1) : items'[i] = arrivals'[q[i]]
    <2>. SUFFICES ASSUME NEW i \in 1..(n - 1) PROVE items'[i] = arrivals'[q[i]]
        OBVIOUS
    <2>1. q[i] = new(place[i + 1])
        OBVIOUS
    <2>. HIDE DEF q, new
    <2>2. arrivals'[q[i]] = arrivals[place[i + 1]]
        BY <1>14, <1>15, <2>1
    <2>. QED BY <1>5, <1>12, <1>13, <2>2
<1>20. \A i, j \in 1..(n - 1) : i < j =>
        /\ q[i] # q[j]
        /\ Priority[items'[i]] >= Priority[items'[j]]
        /\ Priority[items'[i]] = Priority[items'[j]] => q[i] < q[j]
    <2>. SUFFICES ASSUME NEW i \in 1..(n - 1), NEW j \in 1..(n - 1), i < j
                  PROVE  /\ q[i] # q[j]
                         /\ Priority[items'[i]] >= Priority[items'[j]]
                         /\ Priority[items'[i]] = Priority[items'[j]] => q[i] < q[j]
        OBVIOUS
    <2>. DEFINE x == i + 1
                y == j + 1
    <2>1. x \in 1..n /\ y \in 1..n /\ x < y
        BY <1>1
    <2>2. /\ items'[i] = items[x] /\ items'[j] = items[y]
          /\ q[i] = new(place[x]) /\ q[j] = new(place[y])
          /\ place[x] \in 1..n /\ place[x] # f /\ place[y] \in 1..n /\ place[y] # f
        BY <1>12, <1>14
    <2>. HIDE DEF x, y, q, new
    <2>3. /\ place[x] # place[y]
          /\ Priority[items[x]] >= Priority[items[y]]
          /\ Priority[items[x]] = Priority[items[y]] => place[x] < place[y]
        BY <1>5, <2>1
    <2>. QED BY <1>16, <2>2, <2>3
<1>21. q \in [1..(n - 1) -> 1..(n - 1)]
    BY <1>17
<1>. HIDE DEF q, new
<1>22. Arranged(q, items', arrivals')
    BY <1>12, <1>18, <1>19, <1>20, <1>21 DEF Arranged
<1>. QED BY <1>10, <1>11, <1>12, <1>22 DEF QueueInv

(* Every step of a client keeps the arrangement (priority_queue.go:21,     *)
(* 41).                                                                    *)
LEMMA QueueNextKeeps == QueueInv /\ [Next]_vars => QueueInv'
<1>. SUFFICES ASSUME QueueInv, [Next]_vars PROVE QueueInv'
    OBVIOUS
<1>1. CASE UNCHANGED vars
    BY <1>1 DEF vars, QueueInv
<1>2. CASE Next
    BY <1>2, PushStep, PopStep DEF Next
<1>. QED BY <1>1, <1>2

(* The slice arranges the arrivals in every reachable state                *)
(* (priority_queue.go:21-52).                                              *)
LEMMA QueueInvariant == Spec => []QueueInv
BY QueueInitially, QueueNextKeeps, PTL DEF Spec

(* For every set of tasks and priorities and any history of Push and Pop   *)
(* the slice is a service in order of priority and, within one, of         *)
(* arrival: nothing is lost, duplicated or overtaken                       *)
(* (priority_queue.go:21-52).                                              *)
THEOREM QueueImplementsService == Spec => ImplementsService
<1>1. Init => Service!Init
    BY ClientAssumption DEF Init, Service!Init
<1>2. QueueInv /\ [Next]_vars => [Service!Next]_(Service!vars)
    <2>. SUFFICES ASSUME QueueInv, [Next]_vars PROVE [Service!Next]_(Service!vars)
        OBVIOUS
    <2>1. CASE UNCHANGED vars
        BY <2>1 DEF vars, Service!vars
    <2>2. ASSUME NEW t \in Task, DoPush(t) PROVE Service!Next
        <3>1. Service!Arrive(t)
            BY <2>2 DEF DoPush, Service!Arrive
        <3>. QED BY <3>1 DEF Service!Next
    <2>3. CASE DoPop
        BY <2>3, PopStep DEF Service!Next
    <2>. QED BY <2>1, <2>2, <2>3 DEF Next
<1>. QED BY <1>1, <1>2, QueueInvariant, PTL DEF Spec, ImplementsService, Service!Spec

-----------------------------------------------------------------------------
(* The timers of one task: TaskTimer.                                      *)

(* A stop channel that the task still holds is open, and only channels     *)
(* that were made are closed.                                              *)
ChannelOpen ==
    /\ task.chan \notin closed
    /\ task.chan <= channels
    /\ closed \subseteq 1..channels

(* Until one of the races hits, while the task has a ticker it is live, no *)
(* goroutine is about to end, and one reads the ticker.                    *)
TickerServed ==
    service # "stopped" /\ ~raced /\ task.ticker # Nil =>
        /\ task.ticker \in live
        /\ \A k \in Ticker :
            /\ waiter[k].pc \notin {"ending", "stopping"}
            /\ waiter[k].pc = "wait" => waiter[k].chan \notin closed
        /\ \E k \in Ticker : waiter[k].pc = "enter" \/ waiter[k].ticker = task.ticker

(* A task that should tick has a ticker, however it came to be so.         *)
TickerPresent ==
    registered /\ task.enabled /\ ~task.paused /\ service = "running" /\ ~raced =>
        task.ticker # Nil

(* The inductive invariant: TicksUnlessRaced speaks of the ticker a        *)
(* goroutine reads, and needs that no goroutine is on its way to stop that *)
(* ticker and that no channel that is awaited is closed.                   *)
TimerInv == TimerTypeOK /\ ChannelOpen /\ OneLiveTicker /\ TickerServed /\ TickerPresent

(* The values of a goroutine and of the task                               *)
WaiterRecord ==
    [pc : {"off", "enter", "chan", "wait", "ticked", "ending", "stopping"},
     ticker : Ticker \cup {Nil}, chan : Channel \cup {Nil}]

(* No goroutine is about to end, unless a race hit. *)
Calm(r, w, c) ==
    ~r => \A k \in Ticker : /\ w[k].pc \notin {"ending", "stopping"}
                            /\ w[k].pc = "wait" => w[k].chan \notin c

TaskRecord == [enabled : BOOLEAN, paused : BOOLEAN, ticker : Ticker \cup {Nil}, chan : Channel \cup {Nil}]

(* A task that is not registered has no ticker, no channel and no          *)
(* goroutine (scheduler.go:161).                                           *)
LEMMA TimerInitially == TimerInit => TimerInv
<1>. SUFFICES ASSUME TimerInit PROVE TimerInv
    OBVIOUS
<1>. USE TimerAssumption DEF TimerInit, Ticker, Channel, Nil
<1>1. TimerTypeOK
    <2>1. task \in TaskRecord
        BY DEF TaskRecord
    <2>2. At("off", Nil, Nil) \in WaiterRecord
        BY DEF At, WaiterRecord
    <2>3. waiter \in [Ticker -> WaiterRecord]
        BY <2>2
    <2>4. made \in 0..MaxTickers /\ channels \in 0..MaxChannels
        OBVIOUS
    <2>5. raced \in BOOLEAN /\ panicked \in BOOLEAN /\ registered \in BOOLEAN
        OBVIOUS
    <2>. QED BY <2>1, <2>3, <2>4, <2>5 DEF TimerTypeOK, TaskRecord, WaiterRecord
<1>2. ChannelOpen /\ OneLiveTicker /\ TickerServed /\ TickerPresent
    BY DEF ChannelOpen, OneLiveTicker, TickerServed, TickerPresent
<1>. QED BY <1>1, <1>2 DEF TimerInv

(* Starting a timer stops the ticker before it and leaves the new one as   *)
(* the only live ticker, with a goroutine that will read it                *)
(* (scheduler.go:314).                                                     *)
LEMMA StartTimerFacts ==
    ASSUME TimerInv, NEW t \in TaskRecord, StartTimer(t), t.ticker = task.ticker, t.chan \notin closed
    PROVE  /\ made' \in 0..MaxTickers /\ live' = {task'.ticker} /\ live' \in SUBSET Ticker
           /\ task' \in TaskRecord /\ task'.ticker # Nil /\ task'.chan = t.chan
           /\ task'.enabled = t.enabled /\ task'.paused = t.paused
           /\ waiter' \in [Ticker -> WaiterRecord]
           /\ raced' \in BOOLEAN
           /\ closed' = closed
           /\ Calm(raced', waiter', closed')
           /\ \E k \in Ticker : waiter'[k].pc = "enter"
<1>. USE TimerAssumption DEF StartTimer, TimerInv, TimerTypeOK, TaskRecord, Ticker, Channel, Nil
<1>1. made + 1 \in Ticker /\ made' \in 0..MaxTickers
    OBVIOUS
<1>2. task' \in TaskRecord /\ task'.ticker = made + 1 /\ task'.chan = t.chan
        /\ task'.enabled = t.enabled /\ task'.paused = t.paused
    BY <1>1
<1>3. live' = {task'.ticker}
    BY <1>1, <1>2 DEF OneLiveTicker
<1>4. waiter' \in [Ticker -> WaiterRecord]
    BY <1>1 DEF At, WaiterRecord
<1>5. waiter'[made + 1].pc = "enter" 
    BY <1>1 DEF At, WaiterRecord
<1>6. raced' \in BOOLEAN
    OBVIOUS
<1>7. Calm(raced', waiter', closed')
    <2>. SUFFICES ASSUME ~raced', NEW k \in Ticker
                  PROVE  /\ waiter'[k].pc \notin {"ending", "stopping"}
                         /\ waiter'[k].pc = "wait" => waiter'[k].chan \notin closed'
        BY DEF Calm
    <2>1. CASE k = made + 1
        BY <1>5, <2>1
    <2>2. CASE k # made + 1
        <3>1. waiter'[k] = waiter[k]
            BY <2>2
        <3>. QED BY <3>1
    <2>. QED BY <2>1, <2>2
<1>. QED BY <1>1, <1>2, <1>3, <1>4, <1>5, <1>6, <1>7

(* Stopping a timer leaves no live ticker and closes a channel that was    *)
(* made (scheduler.go:347).                                                *)
LEMMA StopTimerFacts ==
    ASSUME TimerInv, NEW t \in TaskRecord, StopTimer(t), t.ticker = task.ticker, t.chan = task.chan
    PROVE  /\ live' = {} /\ task' \in TaskRecord /\ task'.ticker = Nil /\ task'.chan = Nil
           /\ task'.enabled = t.enabled /\ task'.paused = t.paused
           /\ closed' \in SUBSET Channel /\ Nil \notin closed' /\ closed' \subseteq 1..channels
           /\ made' = made /\ waiter' = waiter /\ raced' = raced
<1>. USE TimerAssumption DEF StopTimer, TimerInv, TimerTypeOK, TaskRecord
<1>1. task' \in TaskRecord /\ task'.ticker = Nil /\ task'.chan = Nil
           /\ task'.enabled = t.enabled /\ task'.paused = t.paused
    OBVIOUS
<1>2. live' = {}
    BY DEF OneLiveTicker
<1>3. closed' \in SUBSET Channel /\ Nil \notin closed' /\ closed' \subseteq 1..channels
    BY DEF ChannelOpen, Channel, Nil
<1>. QED BY <1>1, <1>2, <1>3

(* Any operation that starts the timer keeps the invariant                 *)
(* (scheduler.go:314).                                                     *)
LEMMA StartingKeeps ==
    ASSUME TimerInv, NEW t \in TaskRecord, StartTimer(t), t.ticker = task.ticker,
           t.chan \notin closed, t.chan <= channels',
           registered' \in BOOLEAN, service' \in {"new", "starting", "running", "stopped"},
           channels' \in 0..MaxChannels, channels <= channels', panicked' \in BOOLEAN
    PROVE  TimerInv'
<1>. USE TimerAssumption
<1>1. /\ made' \in 0..MaxTickers /\ live' = {task'.ticker} /\ live' \in SUBSET Ticker
      /\ task' \in TaskRecord /\ task'.ticker # Nil /\ task'.chan = t.chan
      /\ waiter' \in [Ticker -> WaiterRecord]
      /\ raced' \in BOOLEAN
      /\ closed' = closed
      /\ Calm(raced', waiter', closed')
      /\ \E k \in Ticker : waiter'[k].pc = "enter"
    BY StartTimerFacts
<1>2. TimerTypeOK'
    BY <1>1 DEF TimerTypeOK, TimerInv, TaskRecord, WaiterRecord
<1>3. ChannelOpen'
    BY <1>1 DEF ChannelOpen, TimerInv, TimerTypeOK
<1>4. OneLiveTicker'
    BY <1>1 DEF OneLiveTicker
<1>5. TickerServed'
    <2>1. task'.ticker \in live'
        BY <1>1
    <2>2. CASE raced'
        BY <2>2 DEF TickerServed
    <2>3. CASE ~raced'
        <3>1. \A k \in Ticker : /\ waiter'[k].pc \notin {"ending", "stopping"}
                                /\ waiter'[k].pc = "wait" => waiter'[k].chan \notin closed'
            BY <1>1, <2>3 DEF Calm
        <3>. QED BY <1>1, <2>1, <3>1 DEF TickerServed
    <2>. QED BY <2>2, <2>3
<1>6. TickerPresent'
    BY <1>1 DEF TickerPresent
<1>. QED BY <1>2, <1>3, <1>4, <1>5, <1>6 DEF TimerInv

(* Any operation that leaves the timer alone keeps it, if the task should  *)
(* not tick afterwards or does already (scheduler.go:222, 688, 754).       *)
LEMMA NoTimerKeeps ==
    ASSUME TimerInv, NEW t \in TaskRecord, NoTimer(t), t.ticker = task.ticker,
           t.chan \notin closed, t.chan <= channels',
           registered' \in BOOLEAN, service' \in {"new", "starting", "running", "stopped"},
           channels' \in 0..MaxChannels, channels <= channels', panicked' \in BOOLEAN,
           service' # "stopped" => service # "stopped",
           registered' /\ t.enabled /\ ~t.paused => service' # "running"
    PROVE  TimerInv'
<1>. USE TimerAssumption DEF TimerInv, NoTimer
<1>2. TimerTypeOK'
    BY DEF TimerTypeOK, TaskRecord
<1>3. ChannelOpen'
    BY DEF ChannelOpen, TimerTypeOK
<1>4. OneLiveTicker'
    BY DEF OneLiveTicker
<1>5. TickerServed'
    BY DEF TickerServed
<1>6. TickerPresent'
    BY DEF TickerPresent
<1>. QED BY <1>2, <1>3, <1>4, <1>5, <1>6 DEF TimerInv

(* Any operation that stops the timer keeps it, if the task should not     *)
(* tick afterwards (scheduler.go:347).                                     *)
LEMMA StoppingKeeps ==
    ASSUME TimerInv, NEW t \in TaskRecord, StopTimer(t), t.ticker = task.ticker, t.chan = task.chan,
           registered' \in BOOLEAN, ~registered' \/ ~t.enabled \/ t.paused,
           UNCHANGED <<service, channels, panicked>>
    PROVE  TimerInv'
<1>. USE TimerAssumption
<1>1. /\ live' = {} /\ task' \in TaskRecord /\ task'.ticker = Nil /\ task'.chan = Nil
           /\ task'.enabled = t.enabled /\ task'.paused = t.paused
           /\ closed' \in SUBSET Channel /\ Nil \notin closed' /\ closed' \subseteq 1..channels
           /\ made' = made /\ waiter' = waiter /\ raced' = raced
    BY StopTimerFacts
<1>2. TimerTypeOK'
    BY <1>1 DEF TimerTypeOK, TimerInv, TaskRecord, WaiterRecord
<1>3. ChannelOpen'
    BY <1>1 DEF ChannelOpen, TimerInv, TimerTypeOK, Nil
<1>4. OneLiveTicker'
    BY <1>1 DEF OneLiveTicker
<1>5. TickerServed'
    BY <1>1 DEF TickerServed
<1>6. TickerPresent'
    BY <1>1 DEF TickerPresent
<1>. QED BY <1>2, <1>3, <1>4, <1>5, <1>6 DEF TimerInv

(* The operations on the task: Add, Remove, StartTask, StopTask,           *)
(* PauseTask, ResumeTask, and the timers that Start starts                 *)
(* (scheduler.go:190, 232, 266, 671-760).                                  *)
LEMMA OperationStep ==
    ASSUME TimerInv,
           AddTask \/ RemoveTask \/ StartTask \/ StopTask \/ PauseTask \/ ResumeTask \/ StartTimers
    PROVE  TimerInv'
<1>. USE TimerAssumption
<1>0. task \in TaskRecord /\ task.chan \notin closed /\ task.chan <= channels
        /\ task.chan \in Channel \cup {Nil} /\ registered \in BOOLEAN /\ panicked \in BOOLEAN
        /\ service \in {"new", "starting", "running", "stopped"} /\ channels \in 0..MaxChannels
    BY DEF TimerInv, TimerTypeOK, TaskRecord, ChannelOpen
<1>1. ASSUME AddTask PROVE TimerInv'
    <2>. DEFINE t == [task EXCEPT !.enabled = TRUE, !.paused = FALSE, !.chan = channels + 1]
    <2>1. t \in TaskRecord /\ t.ticker = task.ticker /\ t.chan = channels + 1
        <3>1. channels + 1 \in Channel
            BY <1>0, <1>1 DEF AddTask, Channel
        <3>. QED BY <1>0, <3>1 DEF TaskRecord
    <2>2. channels + 1 \notin closed
        BY <1>0 DEF TimerInv, ChannelOpen
    <2>3. channels' \in 0..MaxChannels /\ channels <= channels' /\ channels + 1 <= channels'
        BY <1>0, <1>1 DEF AddTask
    <2>4. registered' \in BOOLEAN /\ service' = service /\ panicked' = panicked
            /\ (IF service \in {"starting", "running"} THEN StartTimer(t) ELSE NoTimer(t))
        BY <1>1 DEF AddTask
    <2>. HIDE DEF t
    <2>5. CASE service \in {"starting", "running"}
        BY <1>0, <2>1, <2>2, <2>3, <2>4, <2>5, StartingKeeps
    <2>6. CASE service \notin {"starting", "running"}
        BY <1>0, <2>1, <2>2, <2>3, <2>4, <2>6, NoTimerKeeps
    <2>. QED BY <2>5, <2>6
<1>2. ASSUME RemoveTask PROVE TimerInv'
    BY <1>0, <1>2, StoppingKeeps DEF RemoveTask
<1>3. ASSUME StartTask PROVE TimerInv'
    <2>. DEFINE t == [task EXCEPT !.enabled = TRUE, !.paused = FALSE]
    <2>1. t \in TaskRecord /\ t.ticker = task.ticker /\ t.chan = task.chan
        BY <1>0 DEF TaskRecord
    <2>2. registered' = registered /\ service' = service /\ panicked' = panicked /\ channels' = channels
            /\ (IF service \in {"starting", "running"} THEN StartTimer(t) ELSE NoTimer(t))
        BY <1>3 DEF StartTask
    <2>3. channels <= channels' /\ t.chan <= channels' /\ t.chan \notin closed
        BY <1>0, <2>1, <2>2
    <2>. HIDE DEF t
    <2>5. CASE service \in {"starting", "running"}
        BY <1>0, <2>1, <2>2, <2>3, <2>5, StartingKeeps
    <2>6. CASE service \notin {"starting", "running"}
        BY <1>0, <2>1, <2>2, <2>3, <2>6, NoTimerKeeps
    <2>. QED BY <2>5, <2>6
<1>4. ASSUME StopTask PROVE TimerInv'
    <2>. DEFINE t == [task EXCEPT !.enabled = FALSE, !.paused = FALSE]
    <2>1. t \in TaskRecord /\ t.ticker = task.ticker /\ t.chan = task.chan /\ ~t.enabled
        BY <1>0 DEF TaskRecord
    <2>2. StopTimer(t) /\ registered' = registered /\ UNCHANGED <<service, channels, panicked>>
        BY <1>4 DEF StopTask
    <2>. HIDE DEF t
    <2>. QED BY <1>0, <2>1, <2>2, StoppingKeeps
<1>5. ASSUME PauseTask PROVE TimerInv'
    <2>. DEFINE t == [task EXCEPT !.paused = TRUE]
    <2>1. t \in TaskRecord /\ t.ticker = task.ticker /\ t.chan = task.chan /\ t.paused
        BY <1>0 DEF TaskRecord
    <2>2. StopTimer(t) /\ registered' = registered /\ UNCHANGED <<service, channels, panicked>>
        BY <1>5 DEF PauseTask
    <2>. HIDE DEF t
    <2>. QED BY <1>0, <2>1, <2>2, StoppingKeeps
<1>6. ASSUME ResumeTask PROVE TimerInv'
    <2>. DEFINE t == [task EXCEPT !.paused = FALSE]
    <2>1. t \in TaskRecord /\ t.ticker = task.ticker /\ t.chan = task.chan
        BY <1>0 DEF TaskRecord
    <2>2. registered' = registered /\ service' = service /\ panicked' = panicked /\ channels' = channels
            /\ (IF service \in {"starting", "running"} /\ t.enabled THEN StartTimer(t) ELSE NoTimer(t))
        BY <1>6 DEF ResumeTask
    <2>3. channels <= channels' /\ t.chan <= channels' /\ t.chan \notin closed
        BY <1>0, <2>1, <2>2
    <2>. HIDE DEF t
    <2>5. CASE service \in {"starting", "running"} /\ t.enabled
        BY <1>0, <2>1, <2>2, <2>3, <2>5, StartingKeeps
    <2>6. CASE ~(service \in {"starting", "running"} /\ t.enabled)
        BY <1>0, <2>1, <2>2, <2>3, <2>6, NoTimerKeeps
    <2>. QED BY <2>5, <2>6
<1>7. ASSUME StartTimers PROVE TimerInv'
    <2>1. registered' = registered /\ service' = "running" /\ panicked' = panicked /\ channels' = channels
            /\ service = "starting"
            /\ (IF registered /\ task.enabled THEN StartTimer(task) ELSE NoTimer(task))
        BY <1>7 DEF StartTimers
    <2>2. channels <= channels' /\ task.chan <= channels'
        BY <1>0, <2>1
    <2>3. CASE registered /\ task.enabled
        BY <1>0, <2>1, <2>2, <2>3, StartingKeeps
    <2>4. CASE ~(registered /\ task.enabled)
        BY <1>0, <2>1, <2>2, <2>4, NoTimerKeeps
    <2>. QED BY <2>3, <2>4
<1>. QED BY <1>1, <1>2, <1>3, <1>4, <1>5, <1>6, <1>7

(* Executions that write the task's status or disable it, Start and Stop   *)
(* (scheduler.go:249, 280, 447, 502).                                      *)
LEMMA ServiceStep ==
    ASSUME TimerInv, WriteStatus \/ Disable \/ BeginStart \/ Stop
    PROVE  TimerInv'
<1>. USE DEF TimerInv
<1>1. ASSUME WriteStatus PROVE TimerInv'
    <2>. USE <1>1 DEF WriteStatus
    <2>1. TimerTypeOK'
        BY DEF TimerTypeOK
    <2>2. ChannelOpen' /\ OneLiveTicker'
        BY DEF TimerTypeOK, ChannelOpen, OneLiveTicker
    <2>3. TickerServed'
        BY DEF TimerTypeOK, TickerServed
    <2>4. TickerPresent'
        BY DEF TimerTypeOK, TickerPresent
    <2>. QED BY <2>1, <2>2, <2>3, <2>4
<1>2. ASSUME Disable PROVE TimerInv'
    <2>. USE <1>2 DEF Disable
    <2>1. TimerTypeOK'
        BY DEF TimerTypeOK
    <2>2. ChannelOpen' /\ OneLiveTicker'
        BY DEF TimerTypeOK, ChannelOpen, OneLiveTicker
    <2>3. TickerServed'
        BY DEF TimerTypeOK, TickerServed
    <2>4. TickerPresent'
        BY DEF TimerTypeOK, TickerPresent
    <2>. QED BY <2>1, <2>2, <2>3, <2>4
<1>3. ASSUME BeginStart PROVE TimerInv'
    BY <1>3 DEF BeginStart, TimerTypeOK, ChannelOpen, OneLiveTicker, TickerServed, TickerPresent
<1>4. ASSUME Stop PROVE TimerInv'
    BY <1>4 DEF Stop, TimerTypeOK, ChannelOpen, OneLiveTicker, TickerServed, TickerPresent
<1>. QED BY <1>1, <1>2, <1>3, <1>4

(* One step of a goroutine of a timer: what it reads of the shared task it *)
(* reads unlocked, so the steps between are other operations'              *)
(* (scheduler.go:325-342).                                                 *)
LEMMA WaitStep ==
    ASSUME TimerInv, NEW k \in Ticker, Wait(k)
    PROVE  TimerInv'
<1>. USE TimerAssumption DEF TimerInv
<1>0. ASSUME Panic PROVE TimerInv'
    BY <1>0 DEF Panic, TimerTypeOK, ChannelOpen, OneLiveTicker, TickerServed, TickerPresent
<1>1. ASSUME Move(k, waiter'[k]), UnchangedButWaiter,
             waiter'[k] \in WaiterRecord,
             service # "stopped" /\ ~raced /\ task.ticker # Nil =>
                /\ waiter'[k].pc \notin {"ending", "stopping"}
                /\ waiter'[k].pc = "wait" => waiter'[k].chan \notin closed
                /\ waiter[k].pc = "enter" \/ waiter[k].ticker = task.ticker =>
                        waiter'[k].pc = "enter" \/ waiter'[k].ticker = task.ticker
      PROVE  TimerInv'
    <2>. USE <1>1 DEF UnchangedButWaiter
    <2>0. \A j \in Ticker : waiter'[j] = IF j = k THEN waiter'[k] ELSE waiter[j]
        BY DEF Move, TimerTypeOK
    <2>1. TimerTypeOK'
        BY DEF TimerTypeOK, Move, WaiterRecord
    <2>2. ChannelOpen' /\ OneLiveTicker' /\ TickerPresent'
        BY DEF ChannelOpen, OneLiveTicker, TickerPresent
    <2>3. TickerServed'
        BY <2>0 DEF TickerServed
    <2>. QED BY <2>1, <2>2, <2>3
<1>2. ASSUME ReadTicker(k) PROVE TimerInv'
    <2>. SUFFICES ASSUME ~Panic PROVE TimerInv'
        BY <1>0
    <2>1. task.ticker # Nil /\ Move(k, At("chan", task.ticker, Nil)) /\ UnchangedButWaiter
        BY <1>2 DEF ReadTicker
    <2>2. waiter'[k] = At("chan", task.ticker, Nil)
        BY <2>1 DEF Move, TimerTypeOK
    <2>. QED BY <1>1, <2>1, <2>2 DEF At, TimerTypeOK, WaiterRecord
<1>3. ASSUME ReadStopChan(k) PROVE TimerInv'
    <2>1. Move(k, At("wait", waiter[k].ticker, task.chan)) /\ UnchangedButWaiter /\ waiter[k].pc = "chan"
        BY <1>3 DEF ReadStopChan
    <2>2. waiter'[k] = At("wait", waiter[k].ticker, task.chan)
        BY <2>1 DEF Move, TimerTypeOK
    <2>. QED BY <1>1, <2>1, <2>2 DEF At, TimerTypeOK, WaiterRecord, ChannelOpen
<1>4. ASSUME Tick(k) PROVE TimerInv'
    <2>1. Move(k, At("enter", Nil, Nil)) /\ UnchangedButWaiter
        BY <1>4 DEF Tick
    <2>2. waiter'[k] = At("enter", Nil, Nil)
        BY <2>1 DEF Move, TimerTypeOK
    <2>. QED BY <1>1, <2>1, <2>2 DEF At, WaiterRecord
<1>5. ASSUME Notice(k) PROVE TimerInv'
    <2>1. Move(k, At("ending", Nil, Nil)) /\ UnchangedButWaiter /\ waiter[k].pc = "wait"
            /\ (waiter[k].chan \in closed \/ service = "stopped")
        BY <1>5 DEF Notice
    <2>2. waiter'[k] = At("ending", Nil, Nil)
        BY <2>1 DEF Move, TimerTypeOK
    <2>3. ~(service # "stopped" /\ ~raced /\ task.ticker # Nil)
        BY <2>1 DEF TickerServed
    <2>. QED BY <1>1, <2>1, <2>2, <2>3 DEF At, WaiterRecord
<1>6. ASSUME CheckTicker(k) PROVE TimerInv'
    <2>1. UnchangedButWaiter /\ waiter[k].pc = "ending"
            /\ Move(k, At(IF task.ticker = Nil THEN "off" ELSE "stopping", Nil, Nil))
        BY <1>6 DEF CheckTicker
    <2>2. waiter'[k] = At(IF task.ticker = Nil THEN "off" ELSE "stopping", Nil, Nil)
        BY <2>1 DEF Move, TimerTypeOK
    <2>3. ~(service # "stopped" /\ ~raced /\ task.ticker # Nil)
        BY <2>1 DEF TickerServed
    <2>. QED BY <1>1, <2>1, <2>2, <2>3 DEF At, WaiterRecord
<1>7. ASSUME StopTicker(k) PROVE TimerInv'
    <2>. SUFFICES ASSUME ~Panic PROVE TimerInv'
        BY <1>0
    <2>1. /\ waiter[k].pc = "stopping" /\ live' = live \ {task.ticker}
          /\ Move(k, At("off", Nil, Nil))
          /\ UNCHANGED <<task, registered, service, made, closed, channels, raced, panicked>>
        BY <1>7 DEF StopTicker
    <2>2. ~(service # "stopped" /\ ~raced /\ task.ticker # Nil)
        BY <2>1 DEF TickerServed
    <2>3. TimerTypeOK'
        BY <2>1 DEF TimerTypeOK, Move, At, WaiterRecord
    <2>4. ChannelOpen' /\ OneLiveTicker' /\ TickerPresent' /\ TickerServed'
        BY <2>1, <2>2 DEF ChannelOpen, OneLiveTicker, TickerPresent, TickerServed
    <2>. QED BY <2>3, <2>4
<1>. QED BY <1>2, <1>3, <1>4, <1>5, <1>6, <1>7 DEF Wait

(* Every step keeps the invariant (scheduler.go:190-362, 671-760).         *)
LEMMA TimerNextKeeps == TimerInv /\ [TimerNext]_timerVars => TimerInv'
<1>. SUFFICES ASSUME TimerInv, [TimerNext]_timerVars PROVE TimerInv'
    OBVIOUS
<1>1. CASE UNCHANGED timerVars
    BY <1>1 DEF timerVars, TimerInv, TimerTypeOK, ChannelOpen, OneLiveTicker, TickerServed, TickerPresent
<1>2. CASE TimerNext
    BY <1>2, OperationStep, ServiceStep, WaitStep DEF TimerNext
<1>. QED BY <1>1, <1>2

(* The invariant of the timers holds in every reachable state              *)
(* (scheduler.go:314).                                                     *)
LEMMA TimerInvariant == TimerSpec => []TimerInv
BY TimerInitially, TimerNextKeeps, PTL DEF TimerSpec

(* However often a task is added, paused, disabled and started again, for  *)
(* any number of tickers, at most one runs, and it is the one its next     *)
(* stop finds (scheduler.go:314-362).                                      *)
THEOREM TimersDoNotLeak == TimerSpec => []OneLiveTicker
<1>1. TimerInv => OneLiveTicker
    BY DEF TimerInv
<1>. QED BY <1>1, TimerInvariant, PTL

(* A registered task that is enabled and not paused has a live ticker and  *)
(* a goroutine that reads it while the scheduler runs, unless one of the   *)
(* two races hit it (scheduler.go:333, 748).                               *)
THEOREM TimersTickUnlessRaced == TimerSpec => []TicksUnlessRaced
<1>1. TimerInv => TicksUnlessRaced
    BY DEF TimerInv, TickerServed, TickerPresent, TicksUnlessRaced
<1>. QED BY <1>1, TimerInvariant, PTL

-----------------------------------------------------------------------------
(* The resource manager: ResourceControl.                                  *)

(* The values of a run                                                     *)
RunRecord ==
    [of : Check \cup {NoRun}, priority : Priorities \cup {0},
     status : {"active", "throttled", "paused"},
     ctx : {"none", "live", "cancelled", "over"}]

(* The entry of a check leads to a context that was made for it.           *)
EntryIsOwn ==
    \A n \in Entry : run[activeChecks[n]].of = n /\ run[activeChecks[n]].ctx # "none"

(* A run that works is the entry of its check, unless cleaning up dropped it. *)
LiveIsEntry ==
    \A r \in Run : run[r].ctx = "live" /\ r \notin dropped =>
        run[r].of \in Check /\ activeChecks[run[r].of] = r

(* A strategy is applied while throttling only: eval separates the         *)
(* decision from its application.                                          *)
AppliedThrottled == eval = "apply" => throttled

(* The inductive invariant: that a check runs once follows from where its  *)
(* live run is found, and stays so because an entry leads to a run of its  *)
(* own name.                                                               *)
ResourceInv ==
    ResourceTypeOK /\ EntryIsOwn /\ LiveIsEntry /\ AppliedThrottled /\ RecoveredChecksActive

(* The manager starts without checks and runs (manager.go:46).             *)
LEMMA ResourceInitially == ResourceInit => ResourceInv
<1>. SUFFICES ASSUME ResourceInit PROVE ResourceInv
    OBVIOUS
<1>. USE ResourceAssumption DEF ResourceInit
<1>1. ResourceTypeOK
    BY DEF ResourceTypeOK
<1>2. Entry = {}
    BY DEF Entry
<1>. QED BY <1>1, <1>2 DEF ResourceInv, EntryIsOwn, LiveIsEntry, AppliedThrottled, RecoveredChecksActive

(* Registering a check, or taking its registration back, touches no run    *)
(* (manager.go:59, 70).                                                    *)
LEMMA RegisterStep ==
    ASSUME ResourceInv, NEW n \in Check, NEW p \in Priorities \cup {0}, RegisterCheck(n, p)
    PROVE  ResourceInv'
<1>. USE DEF RegisterCheck, ResourceInv
<1>1. ResourceTypeOK'
    BY DEF ResourceTypeOK
<1>2. Entry' = Entry
    BY DEF Entry
<1>. QED BY <1>1, <1>2 DEF EntryIsOwn, LiveIsEntry, AppliedThrottled, RecoveredChecksActive

(* A check starts only without an entry: its new run is the only one that  *)
(* works and was not dropped (manager.go:254).                             *)
LEMMA StartCheckStep ==
    ASSUME ResourceInv, NEW n \in Check, StartCheck(n)
    PROVE  ResourceInv'
<1>. USE ResourceAssumption DEF ResourceInv
<1>1. PICK r \in Unused :
        /\ eval = "none" /\ priorities[n] # 0 /\ activeChecks[n] = NoRun
        /\ activeChecks' = [activeChecks EXCEPT ![n] = r]
        /\ run' = [run EXCEPT ![r] = [of |-> n, priority |-> priorities[n], status |-> "active", ctx |-> "live"]]
        /\ UNCHANGED <<priorities, throttled, cooled, usage, eval, byHand, dropped>>
    BY DEF StartCheck
<1>2. r \in Run /\ r # NoRun /\ run[r].ctx = "none"
    BY DEF Unused
<1>3. ResourceTypeOK'
    <2>1. [of |-> n, priority |-> priorities[n], status |-> "active", ctx |-> "live"] \in RunRecord
        BY DEF RunRecord, ResourceTypeOK
    <2>2. run' \in [Run -> RunRecord]
        BY <1>1, <1>2, <2>1 DEF ResourceTypeOK, RunRecord
    <2>. QED BY <1>1, <1>2, <2>2 DEF ResourceTypeOK, RunRecord
<1>4. \A m \in Check : activeChecks'[m] = IF m = n THEN r ELSE activeChecks[m]
    BY <1>1 DEF ResourceTypeOK
<1>5. \A s \in Run : run'[s] = IF s = r THEN [of |-> n, priority |-> priorities[n], status |-> "active", ctx |-> "live"] ELSE run[s]
    BY <1>1 DEF ResourceTypeOK
<1>6. \A m \in Entry : activeChecks[m] # r /\ m # n /\ activeChecks[m] \in Run
    BY <1>1, <1>2 DEF EntryIsOwn, Entry, ResourceTypeOK
<1>7. Entry' = Entry \cup {n}
    BY <1>2, <1>4 DEF Entry
<1>8. EntryIsOwn'
    <2>. SUFFICES ASSUME NEW m \in Entry'
                  PROVE  run'[activeChecks'[m]].of = m /\ run'[activeChecks'[m]].ctx # "none"
        BY DEF EntryIsOwn
    <2>1. CASE m = n
        BY <1>2, <1>4, <1>5, <2>1
    <2>2. CASE m # n
        <3>1. m \in Entry /\ m \in Check
            BY <1>7, <2>2 DEF Entry
        <3>. QED BY <1>4, <1>5, <1>6, <2>2, <3>1 DEF EntryIsOwn
    <2>. QED BY <2>1, <2>2
<1>9. LiveIsEntry'
    BY <1>1, <1>2, <1>4, <1>5, <1>6 DEF LiveIsEntry
<1>10. AppliedThrottled'
    BY <1>1 DEF AppliedThrottled
<1>11. RecoveredChecksActive'
    <2>. SUFFICES ASSUME ~throttled, NEW m \in Entry', run'[activeChecks'[m]].status # "active"
                  PROVE  activeChecks'[m] \in byHand'
        BY <1>1 DEF RecoveredChecksActive
    <2>1. m # n
        BY <1>2, <1>4, <1>5
    <2>. QED BY <2>1, <1>1, <1>4, <1>5, <1>6, <1>7 DEF RecoveredChecksActive
<1>. QED BY <1>3, <1>8, <1>9, <1>10, <1>11

(* A caller changes the status of the run of a check, or ends its context: *)
(* the run is marked as one given its status by hand.                      *)
LEMMA ByHandStep ==
    ASSUME ResourceInv, NEW n \in Entry, NEW x \in RunRecord,
           eval = "none", x.of = n, x.ctx # "none", x.ctx = "live" => run[activeChecks[n]].ctx = "live",
           run' = [run EXCEPT ![activeChecks[n]] = x],
           byHand' = byHand \cup {activeChecks[n]},
           UNCHANGED <<priorities, activeChecks, throttled, cooled, usage, eval, dropped>>
    PROVE  ResourceInv'
<1>. USE ResourceAssumption DEF ResourceInv
<1>. DEFINE r == activeChecks[n]
<1>1. r \in Run /\ n \in Check
    BY DEF Entry, ResourceTypeOK
<1>2. ResourceTypeOK'
    BY <1>1 DEF ResourceTypeOK, RunRecord
<1>3. \A s \in Run : run'[s] = IF s = r THEN x ELSE run[s]
    BY DEF ResourceTypeOK
<1>4. \A m \in Entry : activeChecks[m] \in Run /\ (activeChecks[m] = r => m = n)
    BY <1>1 DEF EntryIsOwn, Entry, ResourceTypeOK
<1>5. Entry' = Entry
    BY DEF Entry
<1>. HIDE DEF r
<1>6. EntryIsOwn'
    BY <1>1, <1>3, <1>4, <1>5 DEF EntryIsOwn
<1>7. LiveIsEntry'
    BY <1>1, <1>3, <1>4, <1>5 DEF LiveIsEntry, EntryIsOwn, r
<1>8. AppliedThrottled' /\ RecoveredChecksActive'
    BY <1>1, <1>3, <1>4, <1>5 DEF AppliedThrottled, RecoveredChecksActive, r
<1>. QED BY <1>2, <1>6, <1>7, <1>8

(* StopCheck cancels the run and keeps its entry, paused (manager.go:278). *)
LEMMA StopCheckStep ==
    ASSUME ResourceInv, NEW n \in Check, StopCheck(n)
    PROVE  ResourceInv'
<1>. USE ResourceAssumption
<1>. DEFINE r == activeChecks[n]
            x == [run[r] EXCEPT !.status = "paused", !.ctx = IF @ = "live" THEN "cancelled" ELSE @]
<1>1. n \in Entry /\ r \in Run /\ run[r] \in RunRecord /\ run[r].of = n /\ run[r].ctx # "none"
    BY DEF StopCheck, Entry, ResourceInv, ResourceTypeOK, EntryIsOwn, RunRecord
<1>2. x \in RunRecord /\ x.of = n /\ x.ctx # "none" /\ x.ctx # "live"
    BY <1>1 DEF RunRecord
<1>3. run' = [run EXCEPT ![r] = x]
    BY <1>1 DEF StopCheck, ResourceInv, ResourceTypeOK
<1>4. eval = "none" /\ byHand' = byHand \cup {activeChecks[n]}
        /\ UNCHANGED <<priorities, activeChecks, throttled, cooled, usage, eval, dropped>>
    BY DEF StopCheck
<1>. HIDE DEF x
<1>. QED BY <1>1, <1>2, <1>3, <1>4, ByHandStep

(* UpdateCheckStatus gives the entry's run a status (manager.go:118).      *)
LEMMA UpdateStatusStep ==
    ASSUME ResourceInv, NEW n \in Check, NEW s \in {"active", "throttled", "paused"}, UpdateCheckStatus(n, s)
    PROVE  ResourceInv'
<1>. USE ResourceAssumption
<1>. DEFINE r == activeChecks[n]
            x == [run[r] EXCEPT !.status = s]
<1>1. n \in Entry /\ r \in Run /\ run[r] \in RunRecord /\ run[r].of = n /\ run[r].ctx # "none"
    BY DEF UpdateCheckStatus, Entry, ResourceInv, ResourceTypeOK, EntryIsOwn, RunRecord
<1>2. x \in RunRecord /\ x.of = n /\ x.ctx = run[r].ctx
    BY <1>1 DEF RunRecord
<1>3. run' = [run EXCEPT ![r] = x]
    BY <1>1 DEF UpdateCheckStatus, ResourceInv, ResourceTypeOK
<1>4. eval = "none" /\ byHand' = byHand \cup {activeChecks[n]}
        /\ UNCHANGED <<priorities, activeChecks, throttled, cooled, usage, eval, dropped>>
    BY DEF UpdateCheckStatus
<1>. HIDE DEF x
<1>. QED BY <1>1, <1>2, <1>3, <1>4, ByHandStep

(* The context of a run ends by its time limit (manager.go:258).           *)
LEMMA EndRunStep ==
    ASSUME ResourceInv, NEW r \in Run, EndRun(r)
    PROVE  ResourceInv'
<1>. USE ResourceAssumption DEF ResourceInv, EndRun
<1>1. ResourceTypeOK'
    BY DEF ResourceTypeOK, RunRecord
<1>2. \A s \in Run : run'[s] = IF s = r THEN [run[r] EXCEPT !.ctx = "over"] ELSE run[s]
    BY DEF ResourceTypeOK
<1>3. \A s \in Run : /\ run'[s].of = run[s].of /\ run'[s].status = run[s].status
                     /\ run'[s].ctx = IF s = r THEN "over" ELSE run[s].ctx
    BY <1>2 DEF ResourceTypeOK
<1>4. Entry' = Entry /\ \A m \in Entry : activeChecks[m] \in Run
    BY DEF Entry, ResourceTypeOK
<1>5. EntryIsOwn' /\ LiveIsEntry'
    BY <1>3, <1>4 DEF EntryIsOwn, LiveIsEntry
<1>6. AppliedThrottled' /\ RecoveredChecksActive'
    BY <1>3, <1>4 DEF AppliedThrottled, RecoveredChecksActive
<1>. QED BY <1>1, <1>5, <1>6

(* Cleaning up removes the entries that are over or not active; the runs   *)
(* of the latter that still work are the dropped ones (manager.go:334).    *)
LEMMA CleanupStep ==
    ASSUME ResourceInv, NEW late \in SUBSET Entry, Cleanup(late)
    PROVE  ResourceInv'
<1>. USE ResourceAssumption DEF ResourceInv
<1>. DEFINE idle == {n \in Entry : run[activeChecks[n]].status # "active"}
            gone == late \cup idle
<1>1. /\ activeChecks' = [n \in Check |-> IF n \in gone THEN NoRun ELSE activeChecks[n]]
      /\ dropped' = dropped \cup {r \in Run : run[r].ctx = "live" /\ \E n \in idle : activeChecks[n] = r}
      /\ byHand' = byHand \ {activeChecks[n] : n \in gone}
      /\ \A n \in late : run[activeChecks[n]].ctx # "live"
      /\ UNCHANGED <<priorities, run, throttled, cooled, usage, eval>>
    BY DEF Cleanup
<1>2. ResourceTypeOK'
    BY <1>1 DEF ResourceTypeOK
<1>3. Entry' = Entry \ gone /\ (\A m \in Entry : m \in Check /\ activeChecks[m] \in Run)
        /\ (\A m \in Entry' : activeChecks'[m] = activeChecks[m])
    BY <1>1 DEF Entry, ResourceTypeOK
<1>4. EntryIsOwn'
    BY <1>1, <1>3 DEF EntryIsOwn
<1>5. LiveIsEntry'
    <2>. SUFFICES ASSUME NEW r \in Run, run[r].ctx = "live", r \notin dropped'
                  PROVE  run[r].of \in Check /\ activeChecks'[run[r].of] = r
        BY <1>1 DEF LiveIsEntry
    <2>1. run[r].of \in Check /\ activeChecks[run[r].of] = r
        BY <1>1 DEF LiveIsEntry
    <2>2. run[r].of \notin late
        BY <1>1, <2>1
    <2>3. run[r].of \notin idle
        BY <1>1, <2>1
    <2>. QED BY <1>1, <2>1, <2>2, <2>3
<1>6. AppliedThrottled'
    BY <1>1 DEF AppliedThrottled
<1>7. RecoveredChecksActive'
    <2>. SUFFICES ASSUME ~throttled, NEW m \in Entry', run[activeChecks[m]].status # "active"
                  PROVE  activeChecks[m] \in byHand'
        BY <1>1, <1>3 DEF RecoveredChecksActive
    <2>1. m \in Entry /\ m \notin gone
        BY <1>3
    <2>. QED BY <2>1
<1>. QED BY <1>2, <1>4, <1>5, <1>6, <1>7

(* An evaluation changes statuses and nothing else of the runs             *)
(* (manager.go:152-192).                                                   *)
LEMMA StatusStep ==
    ASSUME ResourceInv, run' \in [Run -> RunRecord],
           \A r \in Run : run'[r].of = run[r].of /\ run'[r].ctx = run[r].ctx,
           UNCHANGED <<priorities, activeChecks, usage, dropped>>,
           throttled' \in BOOLEAN, cooled' \in BOOLEAN,
           eval' \in {"none", "cpu", "memory", "apply"}, byHand' \in SUBSET Run,
           AppliedThrottled', RecoveredChecksActive'
    PROVE  ResourceInv'
<1>. USE DEF ResourceInv
<1>1. ResourceTypeOK'
    BY DEF ResourceTypeOK, RunRecord
<1>2. Entry' = Entry /\ \A m \in Entry : activeChecks[m] \in Run
    BY DEF Entry, ResourceTypeOK
<1>3. EntryIsOwn' /\ LiveIsEntry'
    BY <1>2 DEF EntryIsOwn, LiveIsEntry
<1>. QED BY <1>1, <1>3

(* The steps of an evaluation: reading the usage, deciding, applying a     *)
(* strategy, cooling down; throttling ends with every entry active         *)
(* (manager.go:128-192).                                                   *)
LEMMA EvaluationStep ==
    ASSUME ResourceInv, ReadCPU \/ Decide \/ ApplyStrategy \/ Cool
    PROVE  ResourceInv'
<1>. USE ResourceAssumption
<1>0. /\ run \in [Run -> RunRecord] /\ throttled \in BOOLEAN /\ cooled \in BOOLEAN
      /\ eval \in {"none", "cpu", "memory", "apply"} /\ byHand \in SUBSET Run
      /\ AppliedThrottled /\ RecoveredChecksActive
      /\ \A m \in Entry : m \in Check /\ activeChecks[m] \in Run
    BY DEF ResourceInv, ResourceTypeOK, RunRecord, Entry
<1>1. ASSUME ReadCPU PROVE ResourceInv'
    <2>1. UNCHANGED <<priorities, activeChecks, run, throttled, cooled, usage, byHand, dropped>>
            /\ eval' \in {"cpu", "memory"}
        BY <1>1 DEF ReadCPU
    <2>2. AppliedThrottled' /\ RecoveredChecksActive'
        BY <1>0, <2>1 DEF AppliedThrottled, RecoveredChecksActive, Entry
    <2>. QED BY <1>0, <2>1, <2>2, StatusStep
<1>2. ASSUME Decide PROVE ResourceInv'
    <2>1. UNCHANGED <<priorities, activeChecks, usage, dropped>>
            /\ (StartThrottling \/ StopThrottling \/ (eval' = "none" /\ UNCHANGED <<run, throttled, cooled, byHand>>))
        BY <1>2 DEF Decide
    <2>2. CASE StartThrottling
        BY <1>0, <2>1, <2>2, StatusStep DEF StartThrottling, AppliedThrottled, RecoveredChecksActive
    <2>3. CASE StopThrottling
        <3>1. \A r \in Run : [run[r] EXCEPT !.status = "active"] \in RunRecord
                /\ [run[r] EXCEPT !.status = "active"].of = run[r].of
                /\ [run[r] EXCEPT !.status = "active"].ctx = run[r].ctx
                /\ [run[r] EXCEPT !.status = "active"].status = "active"
            BY <1>0 DEF RunRecord
        <3>2. run' \in [Run -> RunRecord] /\ \A r \in Run : run'[r].of = run[r].of /\ run'[r].ctx = run[r].ctx
            BY <1>0, <2>3, <3>1 DEF StopThrottling
        <3>3. RecoveredChecksActive'
            BY <1>0, <2>1, <2>3, <3>1 DEF StopThrottling, RecoveredChecksActive, Entry
        <3>. QED BY <1>0, <2>1, <2>3, <3>2, <3>3, StatusStep DEF StopThrottling, AppliedThrottled
    <2>4. CASE eval' = "none" /\ UNCHANGED <<run, throttled, cooled, byHand>>
        <3>1. AppliedThrottled' /\ RecoveredChecksActive'
            BY <1>0, <2>1, <2>4 DEF AppliedThrottled, RecoveredChecksActive, Entry
        <3>. QED BY <1>0, <2>1, <2>4, <3>1, StatusStep
    <2>. QED BY <2>1, <2>2, <2>3, <2>4
<1>3. ASSUME ApplyStrategy PROVE ResourceInv'
    <2>1. \A r \in Run, s \in {"paused", "throttled"} : [run[r] EXCEPT !.status = s] \in RunRecord
                /\ [run[r] EXCEPT !.status = s].of = run[r].of
                /\ [run[r] EXCEPT !.status = s].ctx = run[r].ctx
        BY <1>0 DEF RunRecord
    <2>2. run' \in [Run -> RunRecord] /\ \A r \in Run : run'[r].of = run[r].of /\ run'[r].ctx = run[r].ctx
        BY <1>0, <1>3, <2>1 DEF ApplyStrategy
    <2>3. throttled /\ throttled' = throttled /\ eval' = "none"
            /\ UNCHANGED <<priorities, activeChecks, cooled, usage, byHand, dropped>>
        BY <1>0, <1>3 DEF ApplyStrategy, AppliedThrottled
    <2>4. AppliedThrottled' /\ RecoveredChecksActive'
        BY <2>3 DEF AppliedThrottled, RecoveredChecksActive
    <2>. QED BY <1>0, <2>2, <2>3, <2>4, StatusStep
<1>4. ASSUME Cool PROVE ResourceInv'
    <2>1. UNCHANGED <<priorities, activeChecks, run, throttled, usage, eval, byHand, dropped>> /\ cooled' = TRUE
        BY <1>4 DEF Cool
    <2>2. AppliedThrottled' /\ RecoveredChecksActive'
        BY <1>0, <2>1 DEF AppliedThrottled, RecoveredChecksActive, Entry
    <2>. QED BY <1>0, <2>1, <2>2, StatusStep
<1>. QED BY <1>1, <1>2, <1>3, <1>4

(* The usage is measured anew (monitor.go:106).                            *)
LEMMA MetricsStep ==
    ASSUME ResourceInv, NEW x \in Levels, NEW y \in Levels, UpdateMetrics(x, y)
    PROVE  ResourceInv'
<1>. USE DEF ResourceInv, UpdateMetrics
<1>1. ResourceTypeOK'
    BY DEF ResourceTypeOK
<1>2. Entry' = Entry
    BY DEF Entry
<1>. QED BY <1>1, <1>2 DEF EntryIsOwn, LiveIsEntry, AppliedThrottled, RecoveredChecksActive

(* Every step keeps the invariant (manager.go:59-344).                     *)
LEMMA ResourceNextKeeps == ResourceInv /\ [ResourceNext]_resourceVars => ResourceInv'
<1>. SUFFICES ASSUME ResourceInv, [ResourceNext]_resourceVars PROVE ResourceInv'
    OBVIOUS
<1>1. CASE UNCHANGED resourceVars
    BY <1>1 DEF resourceVars, ResourceInv, ResourceTypeOK, Entry, EntryIsOwn, LiveIsEntry,
                AppliedThrottled, RecoveredChecksActive
<1>2. CASE ResourceNext
    BY <1>2, RegisterStep, StartCheckStep, StopCheckStep, UpdateStatusStep, EndRunStep,
       CleanupStep, MetricsStep, EvaluationStep
       DEF ResourceNext, UnregisterCheck
<1>. QED BY <1>1, <1>2

(* The invariant of the resource manager holds in every reachable state    *)
(* (manager.go:46).                                                        *)
LEMMA ResourceInvariant == ResourceSpec => []ResourceInv
BY ResourceInitially, ResourceNextKeeps, PTL DEF ResourceSpec

(* For any set of checks and priorities, a check runs at most once at a    *)
(* time, except for a run that cleaning up dropped while it worked         *)
(* (manager.go:254, 340).                                                  *)
THEOREM ChecksRunOnce == ResourceSpec => []OneRunPerCheck
<1>1. ResourceInv => OneRunPerCheck
    BY DEF ResourceInv, LiveIsEntry, OneRunPerCheck
<1>. QED BY <1>1, ResourceInvariant, PTL

(* When throttling ends no check stays slowed down by it (manager.go:172). *)
THEOREM RecoveryIsComplete == ResourceSpec => []RecoveredChecksActive
<1>1. ResourceInv => RecoveredChecksActive
    BY DEF ResourceInv
<1>. QED BY <1>1, ResourceInvariant, PTL

-----------------------------------------------------------------------------
(* The delays between retries: RetryBackoff.                               *)

(* The delay before a retry that follows e others, as long as it fits.     *)
Delay(e) == IF e <= 8 THEN 2^e ELSE MaxBackoff

(* Below 34 retries in a row the delay is one number of seconds, from one  *)
(* up to five minutes, and no shorter after one retry more.                *)
LEMMA DelayGrows ==
    ASSUME NEW e \in 0..33
    PROVE  Backoff(e) = {Delay(e)} /\ Delay(e) \in 1..MaxBackoff /\ (e > 0 => Delay(e - 1) <= Delay(e))
<1>1. Backoff(e) = {Delay(e)}
    BY DEF Backoff, Delay
<1>2. 2^0 = 1 /\ 2^1 = 2 /\ 2^2 = 4 /\ 2^3 = 8 /\ 2^4 = 16
    OBVIOUS
<1>3. 2^5 = 32 /\ 2^6 = 64 /\ 2^7 = 128 /\ 2^8 = 256
    OBVIOUS
<1>4. /\ Delay(0) = 1 /\ Delay(1) = 2 /\ Delay(2) = 4 /\ Delay(3) = 8 /\ Delay(4) = 16
      /\ Delay(5) = 32 /\ Delay(6) = 64 /\ Delay(7) = 128 /\ Delay(8) = 256
    BY <1>2, <1>3 DEF Delay
<1>5. \A i \in 9..33 : Delay(i) = MaxBackoff
    BY DEF Delay
<1>6. CASE e \in 10..33
    <2>1. e - 1 \in 9..33 /\ e \in 9..33
        BY <1>6
    <2>2. Delay(e - 1) = MaxBackoff /\ Delay(e) = MaxBackoff
        BY <1>5, <2>1
    <2>. QED BY <1>1, <2>2 DEF MaxBackoff
<1>7. CASE e \in 0..9
    <2>1. e \in {0, 1, 2, 3, 4, 5, 6, 7, 8, 9}
        BY <1>7
    <2>2. Delay(9) = 300
        BY <1>5 DEF MaxBackoff
    <2>3. Delay(e) \in 1..300
        BY <1>4, <2>1, <2>2
    <2>4. ASSUME e > 0 PROVE Delay(e - 1) <= Delay(e)
        <3>1. e \in 1..9 /\ e \in {1, 2, 3, 4, 5, 6, 7, 8, 9}
            BY <2>1, <2>4
        <3>3. \A i \in {1, 2, 3, 4, 5, 6, 7, 8, 9} : Delay(i - 1) <= Delay(i)
            <4>1. 1 - 1 = 0 /\ 2 - 1 = 1 /\ 3 - 1 = 2 /\ 4 - 1 = 3 /\ 5 - 1 = 4
                    /\ 6 - 1 = 5 /\ 7 - 1 = 6 /\ 8 - 1 = 7 /\ 9 - 1 = 8
                OBVIOUS
            <4>. QED BY <1>4, <2>2, <4>1
        <3>. QED BY <3>1, <3>3
    <2>. QED BY <1>1, <2>3, <2>4 DEF MaxBackoff
<1>. QED BY <1>6, <1>7

-----------------------------------------------------------------------------

(* Who obeyed has waited the delay of the retry recorded last.             *)
ObeyedWaited ==
    obeyed /\ retryCount \in 1..33 => Delay(retryCount) <= sinceRetry

(* The inductive invariant: an answer is judged by what the caller waited  *)
(* before.                                                                 *)
BackoffInv == BackoffTypeOK /\ ObeyedWaited /\ DelayIsEnough

(* Time passes, and is counted up to five minutes.                         *)
LEMMA PassFacts ==
    ASSUME NEW s \in Nat, sinceRetry \in 0..MaxBackoff
    PROVE  /\ Pass(s) \in 0..MaxBackoff /\ sinceRetry <= Pass(s)
           /\ s <= MaxBackoff => s <= Pass(s)
BY DEF Pass, MaxBackoff

(* At first no retry is recorded and no time has passed (throttler.go:28). *)
LEMMA BackoffInitially == BackoffInit => BackoffInv
BY BackoffAssumption DEF BackoffInit, BackoffInv, BackoffTypeOK, ObeyedWaited, DelayIsEnough, MaxBackoff

(* Recording a retry, sleeping as told, waiting, asking and resetting keep *)
(* the invariant (throttler.go:81-154).                                    *)
LEMMA BackoffNextKeeps == BackoffInv /\ [BackoffNext]_backoffVars => BackoffInv'
<1>. SUFFICES ASSUME BackoffInv, [BackoffNext]_backoffVars PROVE BackoffInv'
    OBVIOUS
<1>. USE BackoffAssumption
<1>0. /\ retryCount \in 0..MaxRetries /\ sinceRetry \in 0..MaxBackoff /\ obeyed \in BOOLEAN
      /\ answer \in {"none", "retry", "wait"} /\ MaxBackoff = 300
      /\ ObeyedWaited /\ DelayIsEnough
    BY DEF BackoffInv, BackoffTypeOK, MaxBackoff
<1>1. ASSUME RecordRetry PROVE BackoffInv'
    <2>1. retryCount' \in 0..MaxRetries /\ sinceRetry' = 0 /\ obeyed' = FALSE /\ answer' = "none"
        BY <1>0, <1>1 DEF RecordRetry
    <2>2. BackoffTypeOK'
        <3>1. retryCount' \in 0..MaxRetries /\ sinceRetry' \in 0..MaxBackoff
            BY <2>1 DEF MaxBackoff
        <3>2. obeyed' \in BOOLEAN /\ answer' \in {"none", "retry", "wait"}
            BY <2>1
        <3>. QED BY <3>1, <3>2 DEF BackoffTypeOK
    <2>. QED BY <2>1, <2>2 DEF BackoffInv, ObeyedWaited, DelayIsEnough
<1>2. ASSUME SleepDelay PROVE BackoffInv'
    <2>1. PICK d \in Backoff(retryCount) : sinceRetry' = IF d < 0 THEN sinceRetry ELSE Pass(d)
        BY <1>2 DEF SleepDelay, CalculateBackoffDelay
    <2>2. obeyed' = TRUE /\ answer' = "none" /\ retryCount' = retryCount
        BY <1>2 DEF SleepDelay
    <2>3. CASE retryCount \in 0..33
        <3>1. d = Delay(retryCount) /\ d \in 1..300
            BY <1>0, <2>3, DelayGrows
        <3>2. sinceRetry' = Pass(d)
            BY <2>1, <3>1
        <3>3. sinceRetry' \in 0..300 /\ d <= sinceRetry'
            BY <1>0, <3>1, <3>2, PassFacts
        <3>. QED BY <1>0, <2>2, <3>1, <3>3 DEF BackoffInv, BackoffTypeOK, ObeyedWaited, DelayIsEnough
    <2>4. CASE retryCount \notin 0..33
        <3>1. retryCount > 33
            BY <1>0, <2>4
        <3>2. d \in {-1, 300}
            BY <1>0, <3>1 DEF Backoff
        <3>3. sinceRetry' \in 0..300
            BY <1>0, <2>1, <3>2 DEF Pass
        <3>. QED BY <1>0, <2>2, <3>1, <3>3 DEF BackoffInv, BackoffTypeOK, ObeyedWaited, DelayIsEnough
    <2>. QED BY <2>3, <2>4
<1>3. ASSUME NEW s \in Pauses, LetPass(s) PROVE BackoffInv'
    <2>1. s \in Nat /\ sinceRetry' = Pass(s) /\ answer' = "none" /\ UNCHANGED <<retryCount, obeyed>>
        BY <1>3 DEF LetPass
    <2>2. sinceRetry' \in 0..300 /\ sinceRetry <= sinceRetry'
        BY <1>0, <2>1, PassFacts
    <2>3. ObeyedWaited'
        <3>. SUFFICES ASSUME obeyed, retryCount \in 1..33 PROVE Delay(retryCount) <= sinceRetry'
            BY <2>1 DEF ObeyedWaited
        <3>1. Delay(retryCount) <= sinceRetry /\ Delay(retryCount) \in 1..300
            BY <1>0, DelayGrows DEF ObeyedWaited
        <3>. QED BY <1>0, <2>2, <3>1
    <2>. QED BY <1>0, <2>1, <2>2, <2>3 DEF BackoffInv, BackoffTypeOK, DelayIsEnough
<1>4. ASSUME ShouldRetry PROVE BackoffInv'
    <2>. USE <1>4
    <2>1. UNCHANGED <<retryCount, sinceRetry, obeyed>>
        BY DEF ShouldRetry
    <2>2. BackoffTypeOK' /\ ObeyedWaited'
        BY <1>0, <2>1 DEF ShouldRetry, BackoffTypeOK, ObeyedWaited
    <2>3. DelayIsEnough'
        <3>. SUFFICES ASSUME retryCount < 34
                      PROVE  /\ answer' = "wait" => ~obeyed
                             /\ answer' = "retry" => retryCount = 0 \/ sinceRetry >= 1
            BY <2>1 DEF DelayIsEnough
        <3>1. CASE retryCount = 0
            BY <3>1 DEF ShouldRetry
        <3>2. CASE retryCount # 0
            <4>1. retryCount \in 1..33 /\ retryCount - 1 \in 0..33 /\ retryCount \in 0..33
                BY <1>0, <3>2
            <4>2. PICK d \in Backoff(retryCount - 1) : answer' = IF sinceRetry >= d THEN "retry" ELSE "wait"
                BY <3>2 DEF ShouldRetry
            <4>3. d = Delay(retryCount - 1) /\ d \in 1..300 /\ Delay(retryCount) \in 1..300
                BY <1>0, <4>1, DelayGrows
            <4>4. d <= Delay(retryCount)
                BY <4>1, <4>3, DelayGrows
            <4>5. ASSUME obeyed PROVE sinceRetry >= d
                <5>1. Delay(retryCount) <= sinceRetry
                    BY <1>0, <4>1, <4>5 DEF ObeyedWaited
                <5>. QED BY <1>0, <4>3, <4>4, <5>1
            <4>6. sinceRetry >= d => sinceRetry >= 1
                BY <1>0, <4>3
            <4>. QED BY <4>2, <4>5, <4>6
        <3>. QED BY <3>1, <3>2
    <2>. QED BY <2>2, <2>3 DEF BackoffInv
<1>5. ASSUME ResetRetry PROVE BackoffInv'
    BY <1>0, <1>5 DEF ResetRetry, BackoffInv, BackoffTypeOK, ObeyedWaited, DelayIsEnough
<1>6. ASSUME UNCHANGED backoffVars PROVE BackoffInv'
    BY <1>0, <1>6 DEF backoffVars, BackoffInv, BackoffTypeOK, ObeyedWaited, DelayIsEnough
<1>. QED BY <1>1, <1>2, <1>3, <1>4, <1>5, <1>6 DEF BackoffNext

(* For every bound on the retries, below 34 of them in a row a caller that *)
(* slept as long as it was told may retry, and none may before a second    *)
(* has passed (throttler.go:88, 144).                                      *)
THEOREM DelaysAreEnough == BackoffSpec => []DelayIsEnough
<1>1. BackoffInv => DelayIsEnough
    BY DEF BackoffInv
<1>. QED BY <1>1, BackoffInitially, BackoffNextKeeps, PTL DEF BackoffSpec
=============================================================================
