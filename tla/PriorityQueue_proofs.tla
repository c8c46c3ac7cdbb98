------------------------ MODULE PriorityQueue_proofs ------------------------
(* The queue keeps its type and its order under Push and Pop.              *)
EXTENDS PriorityQueue, FiniteSetTheorems, TLAPS

(* Min(I) is the least element of a nonempty set of positions.             *)
LEMMA MinIsLeast ==
    ASSUME NEW I \in SUBSET Nat, I # {}
    PROVE  Min(I) \in I /\ \A j \in I : Min(I) <= j
<1>1. PICK m \in I : \A j \in I : <<j, m>> \notin OpToRel(<, Nat)
    BY WFMin, NatLessThanWellFounded
<1>2. ASSUME NEW j \in I PROVE m <= j
    <2>1. j \in Nat /\ m \in Nat
        OBVIOUS
    <2>2. \A x, y \in Nat : x < y => <<x, y>> \in OpToRel(<, Nat)
        BY DEF OpToRel
    <2>3. ~(j < m)
        BY <1>1, <2>1, <2>2
    <2>. QED BY <2>1, <2>3
<1>. QED BY <1>2 DEF Min

(* FirstLower returns the position Push inserts at, if there is one.       *)
LEMMA FirstLowerFacts ==
    ASSUME NEW items \in Seq(Task), NEW t \in Task
    PROVE  /\ FirstLower(items, t) \in 0..Len(items)
           /\ FirstLower(items, t) = 0 =>
                \A i \in 1..Len(items) : ~(Priority[t] > Priority[items[i]])
           /\ FirstLower(items, t) # 0 =>
                /\ Priority[t] > Priority[items[FirstLower(items, t)]]
                /\ \A i \in 1..(FirstLower(items, t) - 1) :
                        ~(Priority[t] > Priority[items[i]])
<1>. DEFINE I == {i \in 1..Len(items) : Priority[t] > Priority[items[i]]}
<1>1. FirstLower(items, t) = IF I # {} THEN Min(I) ELSE 0
    BY DEF FirstLower, SelectInSeq
<1>2. CASE I = {}
    BY <1>1, <1>2
<1>3. CASE I # {}
    <2>1. I \in SUBSET Nat
        OBVIOUS
    <2>2. Min(I) \in I /\ \A j \in I : Min(I) <= j
        BY <1>3, <2>1, MinIsLeast
    <2>. HIDE DEF I
    <2>3. FirstLower(items, t) = Min(I)
        BY <1>1, <1>3
    <2>4. FirstLower(items, t) \in 1..Len(items)
        BY <2>2, <2>3 DEF I
    <2>5. Priority[t] > Priority[items[FirstLower(items, t)]]
        BY <2>2, <2>3 DEF I
    <2>6. ASSUME NEW i \in 1..(FirstLower(items, t) - 1)
          PROVE  ~(Priority[t] > Priority[items[i]])
        <3>1. i \in 1..Len(items) /\ ~(FirstLower(items, t) <= i)
            BY <2>4
        <3>. QED BY <2>2, <2>3, <3>1 DEF I
    <2>. QED BY <2>4, <2>5, <2>6
<1>. QED BY <1>2, <1>3

(* Push puts the task at one position p, behind all of its priority and    *)
(* before all of lower priority, and shifts what was behind it.            *)
PushesAt(items, t, p) ==
    /\ Push(items, t) \in Seq(Task)
    /\ Len(Push(items, t)) = Len(items) + 1
    /\ \A j \in 1..(Len(items) + 1) :
            Push(items, t)[j] =
                IF j < p THEN items[j] ELSE IF j = p THEN t ELSE items[j - 1]
    /\ \A i \in 1..(p - 1) : ~(Priority[t] > Priority[items[i]])
    /\ p <= Len(items) => Priority[t] > Priority[items[p]]

LEMMA PushFacts ==
    ASSUME NEW items \in Seq(Task), NEW t \in Task
    PROVE  \E p \in 1..(Len(items) + 1) : PushesAt(items, t, p)
<1>. DEFINE f == FirstLower(items, t)
            n == Len(items)
<1>1. n \in Nat /\ f \in 0..n
    BY FirstLowerFacts
<1>2. CASE f = 0
    <2>1. Push(items, t) = Append(items, t)
        BY <1>2 DEF Push
    <2>2. /\ Push(items, t) \in Seq(Task)
          /\ Len(Push(items, t)) = n + 1
          /\ \A j \in 1..(n + 1) : Push(items, t)[j] = IF j = n + 1 THEN t ELSE items[j]
        BY <2>1
    <2>3. \A i \in 1..n : ~(Priority[t] > Priority[items[i]])
        BY <1>2, FirstLowerFacts
    <2>4. PushesAt(items, t, n + 1)
        BY <1>1, <2>2, <2>3 DEF PushesAt
    <2>. QED BY <1>1, <2>4
<1>3. CASE f # 0
    <2>. DEFINE front == SubSeq(items, 1, f - 1)
                back == SubSeq(items, f, n)
    <2>1. /\ front \in Seq(Task) /\ Len(front) = f - 1
          /\ \A j \in 1..(f - 1) : front[j] = items[j]
        BY <1>1, <1>3
    <2>2. /\ back \in Seq(Task) /\ Len(back) = n - f + 1
          /\ \A j \in 1..(n - f + 1) : back[j] = items[f + j - 1]
        BY <1>1, <1>3
    <2>3. Push(items, t) = front \o <<t>> \o back
        BY <1>3 DEF Push, InsertAt
    <2>. HIDE DEF front, back
    <2>4. /\ front \o <<t>> \in Seq(Task) /\ Len(front \o <<t>>) = f
          /\ \A j \in 1..f : (front \o <<t>>)[j] = IF j < f THEN items[j] ELSE t
        BY <1>1, <1>3, <2>1
    <2>5. /\ Push(items, t) \in Seq(Task)
          /\ Len(Push(items, t)) = n + 1
        <3>1. \A u, v \in Seq(Task) :
                u \o v \in Seq(Task) /\ Len(u \o v) = Len(u) + Len(v)
            OBVIOUS
        <3>2. /\ Push(items, t) \in Seq(Task)
              /\ Len(Push(items, t)) = Len(front \o <<t>>) + Len(back)
            BY <2>2, <2>3, <2>4, <3>1, Zenon
        <3>. QED BY <1>1, <2>2, <2>4, <3>2
    <2>6. ASSUME NEW j \in 1..(n + 1)
          PROVE  Push(items, t)[j] =
                    IF j < f THEN items[j] ELSE IF j = f THEN t ELSE items[j - 1]
        <3>1. CASE j <= f
            BY <1>1, <1>3, <2>2, <2>3, <2>4, <3>1
        <3>2. CASE j > f
            <4>1. Push(items, t)[j] = back[j - f]
                BY <1>1, <1>3, <2>2, <2>3, <2>4, <3>2
            <4>2. j - f \in 1..(n - f + 1) /\ f + (j - f) - 1 = j - 1
                BY <1>1, <3>2
            <4>. QED BY <1>1, <2>2, <3>2, <4>1, <4>2
        <3>. QED BY <1>1, <3>1, <3>2
    <2>7. /\ Priority[t] > Priority[items[f]]
          /\ \A i \in 1..(f - 1) : ~(Priority[t] > Priority[items[i]])
        BY <1>3, FirstLowerFacts
    <2>8. PushesAt(items, t, f)
        BY <2>5, <2>6, <2>7 DEF PushesAt
    <2>. QED BY <1>1, <1>3, <2>8
<1>. QED BY <1>1, <1>2, <1>3

LEMMA PushType ==
    ASSUME NEW items \in Seq(Task), NEW t \in Task
    PROVE  Push(items, t) \in Seq(Task)
BY PushFacts DEF PushesAt

(* A queue in order of priority stays so when a task is pushed.            *)
LEMMA PushKeepsOrder ==
    ASSUME NEW items \in Seq(Task), NEW t \in Task, Ordered(items)
    PROVE  Ordered(Push(items, t))
<1>. DEFINE q == Push(items, t)
            n == Len(items)
<1>1. PICK p \in 1..(n + 1) : PushesAt(items, t, p)
    BY PushFacts
<1>2. /\ n \in Nat /\ Len(q) = n + 1
      /\ \A j \in 1..(n + 1) :
            q[j] = IF j < p THEN items[j] ELSE IF j = p THEN t ELSE items[j - 1]
    BY <1>1 DEF PushesAt
<1>3. /\ Priority[t] \in Int
      /\ \A i \in 1..n : Priority[items[i]] \in Int
    BY PriorityAssumption
<1>4. /\ \A i \in 1..n : i < p => Priority[items[i]] >= Priority[t]
      /\ p <= n => Priority[t] >= Priority[items[p]]
    BY <1>1, <1>2, <1>3 DEF PushesAt
<1>5. \A i, j \in 1..n : i <= j => Priority[items[i]] >= Priority[items[j]]
    BY <1>2, <1>3 DEF Ordered
<1>6. \A j \in 1..n : p <= j => Priority[t] >= Priority[items[j]]
    BY <1>2, <1>3, <1>4, <1>5
<1>. HIDE DEF q, n
<1>7. ASSUME NEW i \in 1..(n + 1), NEW j \in 1..(n + 1), i < j
      PROVE  Priority[q[i]] >= Priority[q[j]]
    <2>1. CASE j < p
        <3>1. q[i] = items[i] /\ q[j] = items[j] /\ i \in 1..n /\ j \in 1..n
            BY <1>2, <1>7, <2>1
        <3>. QED BY <1>5, <1>7, <3>1
    <2>2. CASE j = p
        <3>1. q[i] = items[i] /\ q[j] = t /\ i \in 1..n
            BY <1>2, <1>7, <2>2
        <3>. QED BY <1>4, <1>7, <2>2, <3>1
    <2>3. CASE j > p
        <3>1. q[j] = items[j - 1] /\ j - 1 \in 1..n /\ p <= j - 1
            BY <1>2, <2>3
        <3>2. CASE i < p
            <4>1. q[i] = items[i] /\ i \in 1..n /\ i <= j - 1
                BY <1>2, <1>7, <3>2
            <4>. QED BY <1>5, <3>1, <4>1
        <3>3. CASE i = p
            BY <1>2, <1>6, <3>1, <3>3
        <3>4. CASE i > p
            <4>1. q[i] = items[i - 1] /\ i - 1 \in 1..n /\ i - 1 <= j - 1
                BY <1>2, <1>7, <3>4
            <4>. QED BY <1>5, <3>1, <4>1
        <3>. QED BY <3>2, <3>3, <3>4
    <2>. QED BY <2>1, <2>2, <2>3
<1>. QED BY <1>2, <1>7 DEF Ordered, q

(* What Pop leaves of a queue in order of priority is in order.            *)
LEMMA PopFacts ==
    ASSUME NEW items \in Seq(Task), items # EmptyQueue
    PROVE  /\ PopTask(items) \in Task
           /\ PopRest(items) \in Seq(Task)
           /\ Ordered(items) => Ordered(PopRest(items))
<1>1. Len(items) \in Nat \ {0}
    BY DEF EmptyQueue
<1>2. /\ PopTask(items) \in Task
      /\ PopRest(items) \in Seq(Task)
      /\ Len(PopRest(items)) = Len(items) - 1
      /\ \A i \in 1..(Len(items) - 1) : PopRest(items)[i] = items[i + 1]
    BY <1>1 DEF PopTask, PopRest, EmptyQueue
<1>. QED BY <1>1, <1>2 DEF Ordered

-----------------------------------------------------------------------------
(* How often a task waits *)

Positions(items, u) == {i \in 1..Len(items) : items[i] = u}

LEMMA PositionsFinite ==
    ASSUME NEW items \in Seq(Task), NEW u
    PROVE  IsFiniteSet(Positions(items, u)) /\ Cardinality(Positions(items, u)) \in Nat
<1>1. Len(items) \in Nat /\ Positions(items, u) \in SUBSET (1..Len(items))
    BY DEF Positions
<1>2. IsFiniteSet(1..Len(items))
    BY <1>1, FS_Interval
<1>. QED BY <1>1, <1>2, FS_Subset, FS_CardinalityType

(* Push adds one occurrence of the task it is given and none of another.   *)
LEMMA PushCounts ==
    ASSUME NEW items \in Seq(Task), NEW t \in Task, NEW u \in Task
    PROVE  Cardinality(Positions(Push(items, t), u)) =
               Cardinality(Positions(items, u)) + IF u = t THEN 1 ELSE 0
<1>. DEFINE q == Push(items, t)
            n == Len(items)
<1>1. PICK p \in 1..(n + 1) : PushesAt(items, t, p)
    BY PushFacts
<1>2. /\ n \in Nat /\ q \in Seq(Task) /\ Len(q) = n + 1
      /\ \A j \in 1..(n + 1) :
            q[j] = IF j < p THEN items[j] ELSE IF j = p THEN t ELSE items[j - 1]
    BY <1>1 DEF PushesAt
<1>. DEFINE A == Positions(items, u)
            B == Positions(q, u) \ {p}
            shift == [i \in A |-> IF i < p THEN i ELSE i + 1]
<1>3. A \in SUBSET (1..n) /\ Positions(q, u) \in SUBSET (1..(n + 1))
    BY <1>2 DEF Positions
<1>. HIDE DEF q, n
<1>4. \A j \in B : (j < p => j \in A) /\ (j > p => j - 1 \in A) /\ j # p
    BY <1>2, <1>3 DEF Positions, n
<1>5. \A i \in A : (i < p => i \in B) /\ (i >= p => i + 1 \in B)
    BY <1>2, <1>3 DEF Positions, n
<1>6. shift \in Bijection(A, B)
    <2>0. A \in SUBSET Nat /\ B \in SUBSET Nat /\ p \in Nat
        BY <1>2, <1>3
    <2>. HIDE DEF A, B
    <2>1. \A i \in A : shift[i] = IF i < p THEN i ELSE i + 1
        OBVIOUS
    <2>2. shift \in [A -> B]
        BY <1>5, <2>0
    <2>3. \A i, j \in A : shift[i] = shift[j] => i = j
        BY <2>0, <2>1
    <2>4. ASSUME NEW j \in B PROVE \E i \in A : shift[i] = j
        <3>1. CASE j < p
            BY <1>4, <2>1, <3>1
        <3>2. CASE j > p
            <4>1. j - 1 \in A /\ ~(j - 1 < p)
                BY <1>4, <2>0, <3>2
            <4>. QED BY <2>0, <2>1, <4>1
        <3>. QED BY <1>4, <2>0, <3>1, <3>2
    <2>. HIDE DEF shift
    <2>. QED BY <2>2, <2>3, <2>4 DEF Bijection, Injection, Surjection, IsInjective
<1>7. IsFiniteSet(A) /\ Cardinality(A) \in Nat
    BY PositionsFinite
<1>8. IsFiniteSet(B) /\ Cardinality(B) = Cardinality(A)
    <2>. HIDE DEF A, B, shift
    <2>. QED BY <1>6, <1>7, FS_Bijection DEF ExistsBijection
<1>9. IsFiniteSet(Positions(q, u))
    BY <1>2, PositionsFinite
<1>10. p \in Positions(q, u) <=> u = t
    BY <1>2 DEF Positions
<1>11. Cardinality(Positions(q, u)) = Cardinality(A) + IF u = t THEN 1 ELSE 0
    <2>1. Cardinality(Positions(q, u)) \in Nat
        BY <1>2, PositionsFinite
    <2>2. Cardinality(B) = IF p \in Positions(q, u) THEN Cardinality(Positions(q, u)) - 1
                           ELSE Cardinality(Positions(q, u))
        BY <1>9, FS_RemoveElement
    <2>. HIDE DEF A, B
    <2>. QED BY <1>7, <1>8, <1>10, <2>1, <2>2
<1>. QED BY <1>11 DEF q

(* Pop takes away one occurrence of the task it returns.                   *)
LEMMA PopCounts ==
    ASSUME NEW items \in Seq(Task), items # EmptyQueue, NEW u \in Task
    PROVE  Cardinality(Positions(items, u)) =
               Cardinality(Positions(PopRest(items), u)) + IF u = PopTask(items) THEN 1 ELSE 0
<1>. DEFINE q == PopRest(items)
            n == Len(items)
<1>1. n \in Nat \ {0}
    BY DEF EmptyQueue
<1>2. /\ PopTask(items) = items[1]
      /\ q \in Seq(Task)
      /\ Len(q) = n - 1
      /\ \A i \in 1..(n - 1) : q[i] = items[i + 1]
    BY <1>1 DEF PopTask, PopRest, EmptyQueue
<1>. DEFINE A == Positions(q, u)
            B == Positions(items, u) \ {1}
            shift == [i \in A |-> i + 1]
<1>3. A \in SUBSET (1..(n - 1)) /\ Positions(items, u) \in SUBSET (1..n)
    BY <1>2 DEF Positions
<1>. HIDE DEF q, n
<1>4. (\A j \in B : j - 1 \in A) /\ (\A i \in A : i + 1 \in B)
    BY <1>1, <1>2, <1>3 DEF Positions, n
<1>5. shift \in Bijection(A, B)
    <2>0. A \in SUBSET Nat /\ B \in SUBSET Nat
        BY <1>1, <1>3
    <2>. HIDE DEF A, B
    <2>1. \A i \in A : shift[i] = i + 1
        OBVIOUS
    <2>2. shift \in [A -> B]
        BY <1>4
    <2>3. \A i, j \in A : shift[i] = shift[j] => i = j
        BY <2>0, <2>1
    <2>4. \A j \in B : \E i \in A : shift[i] = j
        BY <1>4, <2>0, <2>1
    <2>. HIDE DEF shift
    <2>. QED BY <2>2, <2>3, <2>4 DEF Bijection, Injection, Surjection, IsInjective
<1>6. IsFiniteSet(A) /\ Cardinality(A) \in Nat
    BY <1>2, PositionsFinite
<1>7. IsFiniteSet(B) /\ Cardinality(B) = Cardinality(A)
    <2>. HIDE DEF A, B, shift
    <2>. QED BY <1>5, <1>6, FS_Bijection DEF ExistsBijection
<1>8. 1 \in Positions(items, u) <=> u = PopTask(items)
    BY <1>1, <1>2 DEF Positions, n
<1>9. Cardinality(Positions(items, u)) = Cardinality(A) + IF u = PopTask(items) THEN 1 ELSE 0
    <2>1. IsFiniteSet(Positions(items, u)) /\ Cardinality(Positions(items, u)) \in Nat
        BY PositionsFinite
    <2>2. Cardinality(B) = IF 1 \in Positions(items, u) THEN Cardinality(Positions(items, u)) - 1
                           ELSE Cardinality(Positions(items, u))
        BY <2>1, FS_RemoveElement
    <2>. HIDE DEF A, B
    <2>. QED BY <1>6, <1>7, <1>8, <2>1, <2>2
<1>. QED BY <1>9 DEF q
==============================================================================
