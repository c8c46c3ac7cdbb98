------------------------- MODULE ReporterClient_proofs -------------------------
(***************************************************************************)
(* Theorems about the reporter client and its cache, for every set of      *)
(* reports, entry IDs, sizes, limits, retries and restarts.                *)
(***************************************************************************)
EXTENDS ReporterClient, OperatorLemmas

-----------------------------------------------------------------------------
(* The size of a cache *)

Caches == [Key -> Report \cup {NoReport}]
Bytes(c) == [k \in Key |-> IF c[k] = NoReport THEN 0 ELSE Size[c[k]]]

LEMMA BytesType ==
    ASSUME NEW c \in Caches
    PROVE  /\ Bytes(c) \in [Key -> Nat]
           /\ SizeOf(c) = SumFunction(Bytes(c))
           /\ SizeOf(c) \in Nat
<1>1. Bytes(c) \in [Key -> Nat]
    BY CacheAssumption DEF Bytes, Caches
<1>2. SizeOf(c) = SumFunction(Bytes(c))
    BY DEF SizeOf, Bytes
<1>3. SumFunction(Bytes(c)) \in Nat
    <2>1. DOMAIN Bytes(c) = Key /\ \A k \in Key : Bytes(c)[k] \in Nat
        BY <1>1
    <2>. QED BY <2>1, CacheAssumption, SumIsNat DEF SumFunction
<1>. QED BY <1>1, <1>2, <1>3

(* Some entries of c, and nothing else *)
Part(d, c) == \A k \in Key : d[k] \in {c[k], NoReport}

LEMMA PartIsSmaller ==
    ASSUME NEW c \in Caches, NEW d \in Caches, Part(d, c)
    PROVE  SizeOf(d) <= SizeOf(c)
<1>1. \A k \in Key : Bytes(d)[k] <= Bytes(c)[k]
    BY CacheAssumption DEF Bytes, Caches, Part
<1>2. SumFunction(Bytes(d)) <= SumFunction(Bytes(c))
    BY <1>1, BytesType, CacheAssumption, SumIsMonotone
<1>. QED BY <1>2, BytesType

LEMMA NothingIsSmall ==
    ASSUME NEW c \in Caches, \A k \in Key : c[k] = NoReport
    PROVE  SizeOf(c) = 0
<1>1. Bytes(c) \in [Key -> {0}]
    BY DEF Bytes
<1>2. SumFunction(Bytes(c)) = 0
    BY <1>1, CacheAssumption, SumOfZeros
<1>. QED BY <1>2, BytesType

LEMMA EntryAdds ==
    ASSUME NEW c \in Caches, NEW k \in Key, NEW r \in Report
    PROVE  /\ [c EXCEPT ![k] = r] \in Caches
           /\ SizeOf([c EXCEPT ![k] = r]) <= SizeOf(c) + Size[r]
<1> DEFINE d == [c EXCEPT ![k] = r]
<1>1. d \in Caches
    BY DEF Caches
<1>2. Size[r] \in Nat
    BY CacheAssumption
<1>3. Bytes(d) = [Bytes(c) EXCEPT ![k] = Size[r]]
    BY CacheAssumption DEF Bytes, Caches
<1>4. /\ SumFunction([Bytes(c) EXCEPT ![k] = Size[r]]) = SumFunction(Bytes(c)) - Bytes(c)[k] + Size[r]
      /\ SumFunction(Bytes(c)) \in Nat
      /\ Bytes(c)[k] \in Nat
    BY <1>2, BytesType, CacheAssumption, SumOfUpdate
<1> HIDE DEF d
<1>5. SizeOf(d) = SumFunction(Bytes(c)) - Bytes(c)[k] + Size[r]
    BY <1>1, <1>3, <1>4, BytesType
<1>6. SizeOf(d) <= SizeOf(c) + Size[r]
    BY <1>2, <1>4, <1>5, BytesType
<1>. QED BY <1>1, <1>6 DEF d

-----------------------------------------------------------------------------
(* Eviction *)

LEMMA OrderIsComplete ==
    ASSUME NEW c \in Caches, NEW order \in SetToSeqs(Cached(c))
    PROVE  \E n \in Nat :
             /\ order \in [1..n -> Key]
             /\ \A k \in Cached(c) : \E i \in 1..n : order[i] = k
             /\ \A i \in 1..n : order[i] \in Cached(c)
             /\ \A i, j \in 1..n : i # j => order[i] # order[j]
             /\ Len(order) = n
<1>. DEFINE S == Cached(c)
           n == Cardinality(S)
<1>1. IsFiniteSet(S) /\ S \subseteq Key
    BY CacheAssumption, FS_Subset DEF Cached
<1>2. n \in Nat
    BY <1>1, FS_CardinalityType
<1>3. order \in [1..n -> S] /\ \A i, j \in 1..n : i # j => order[i] # order[j]
    BY DEF SetToSeqs
<1>. HIDE DEF S
<1>4. IsFiniteSet(1..n) /\ Cardinality(1..n) = n
    BY <1>2, FS_Interval
<1>5. order \in Injection(1..n, S)
    BY <1>3 DEF Injection, IsInjective
<1>6. order \in Surjection(1..n, S)
    BY <1>1, <1>4, <1>5, FS_Injection
<1>7. \A k \in S : \E i \in 1..n : order[i] = k
    BY <1>6 DEF Surjection
<1>8. Len(order) = n
    BY <1>2, <1>3
<1>. QED BY <1>1, <1>2, <1>3, <1>7, <1>8 DEF S

\* e[j] is what the loop has left after j entries
EvictLoop(c, n, order, target, e) ==
    /\ e[0] = c
    /\ e[n] = Evict(c, order, target)
    /\ \A j \in 1..n :
         /\ SizeOf(e[j - 1]) <= target => e[j] = e[j - 1]
         /\ ~(SizeOf(e[j - 1]) <= target) => e[j] = Without(e[j - 1], order[j])

LEMMA EvictUnfolds ==
    ASSUME NEW c \in Caches, NEW n \in Nat, NEW order \in [1..n -> Key], NEW target
    PROVE  \E e \in [0..n -> Caches] : EvictLoop(c, n, order, target, e)
<1>. DEFINE S == 1..n
           last == [s \in SUBSET S |-> Max(s)]
           step == [i \in S |-> [d \in Caches |->
                       IF SizeOf(d) <= target THEN d ELSE Without(d, order[i])]]
<1>1. IsFiniteSet(S)
    BY FS_Interval
<1>2. \A s \in SUBSET S : s # {} => Max(s) \in s /\ \A y \in s : Max(s) >= y
    <2>1. ASSUME NEW s \in SUBSET S, s # {}
          PROVE  \E x \in s : \A y \in s : x >= y
        <3>. DEFINE Bad == {m \in Nat : \E x \in s : x = n - m}
        <3>1. PICK x \in s : TRUE
            BY <2>1
        <3>2. n - x \in Bad
            <4>1. x \in 1..n
                BY <3>1
            <4>. QED BY <4>1
        <3>3. PICK m \in Bad : \A k \in Bad : ~(<<k, m>> \in OpToRel(<, Nat))
            <4>1. Bad \subseteq Nat
                OBVIOUS
            <4>. HIDE DEF Bad
            <4>. QED BY <3>2, <4>1, WFMin, NatLessThanWellFounded
        <3>4. PICK z \in s : z = n - m
            BY <3>3
        <3>5. ASSUME NEW y \in s, ~(z >= y) PROVE FALSE
            <4>1. y \in 1..n /\ z \in 1..n /\ m \in Nat
                BY <3>3, <3>4
            <4>2. n - y \in Bad /\ n - y < m /\ n - y \in Nat
                BY <3>4, <3>5, <4>1
            <4>3. <<n - y, m>> \in OpToRel(<, Nat)
                BY <4>1, <4>2 DEF OpToRel
            <4>. HIDE DEF Bad
            <4>. QED BY <3>3, <4>2, <4>3
        <3>. QED BY <3>5
    <2>. QED BY <2>1 DEF Max
<1>3. \A s \in SUBSET S : s # {} => last[s] \in s
    BY <1>2
<1>4. step \in [S -> [Caches -> Caches]]
    BY DEF Without, Caches
<1>. HIDE DEF last, step
<1>5. PICK g \in [SUBSET S -> Caches] : Recursion(g, S, c, last, step)
    <2>. HIDE DEF S
    <2>. QED BY <1>1, <1>3, <1>4, RecursionExists
<1>. DEFINE body(h, s) ==
         IF s = {} THEN c
         ELSE IF SizeOf(h[s \ {Max(s)}]) <= target THEN h[s \ {Max(s)}]
              ELSE Without(h[s \ {Max(s)}], order[Max(s)])
<1>6. \A s \in SUBSET S : g[s] = body(g, s)
    <2>1. ASSUME NEW s \in SUBSET S, s # {}
          PROVE  step[last[s]][g[s \ {last[s]}]] = body(g, s)
        <3>1. last[s] = Max(s) /\ Max(s) \in S /\ g[s \ {Max(s)}] \in Caches
            BY <1>2, <2>1 DEF last
        <3>2. step[Max(s)][g[s \ {Max(s)}]] =
                IF SizeOf(g[s \ {Max(s)}]) <= target THEN g[s \ {Max(s)}]
                ELSE Without(g[s \ {Max(s)}], order[Max(s)])
            BY <3>1 DEF step
        <3>. QED BY <2>1, <3>1, <3>2
    <2>. QED BY <1>5, <2>1 DEF Recursion
<1>7. g = [s \in SUBSET S |-> body(g, s)]
    BY <1>6
<1>8. \E h : h = [s \in SUBSET S |-> body(h, s)] /\ Evict(c, order, target) = h[S]
    <2>1. DOMAIN order = S
        OBVIOUS
    <2>. QED BY <1>7, <2>1 DEF Evict, FoldLeft, MapThenFoldSet
<1>9. PICK h : h = [s \in SUBSET S |-> body(h, s)] /\ Evict(c, order, target) = h[S]
    BY <1>8
<1>. DEFINE e == [j \in 0..n |-> h[1..j]]
<1>10. h[{}] = c /\ 1..0 = {}
    BY <1>9
<1>11. \A j \in 1..n : /\ SizeOf(h[1..(j - 1)]) <= target => h[1..j] = h[1..(j - 1)]
                       /\ ~(SizeOf(h[1..(j - 1)]) <= target) =>
                            h[1..j] = Without(h[1..(j - 1)], order[j])
    <2>1. ASSUME NEW j \in 1..n
          PROVE  h[1..j] = body(h, 1..j) /\ 1..j # {} /\ Max(1..j) = j /\ (1..j) \ {j} = 1..(j - 1)
        <3>1. 1..j \in SUBSET S /\ j \in 1..j
            BY <2>1
        <3>2. Max(1..j) \in 1..j /\ \A y \in 1..j : Max(1..j) >= y
            BY <1>2, <3>1
        <3>3. Max(1..j) = j
            BY <3>1, <3>2
        <3>4. h[1..j] = body(h, 1..j)
            BY <1>9, <3>1
        <3>. HIDE DEF body
        <3>. QED BY <3>1, <3>3, <3>4
    <2>. QED BY <2>1
<1>12. \A j \in 0..n : h[1..j] \in Caches
    <2>. DEFINE Good == {j \in 0..n : h[1..j] \in Caches}
    <2>1. 0 \in Good
        BY <1>10
    <2>2. ASSUME NEW j \in 1..n, j - 1 \in Good PROVE j \in Good
        <3>1. h[1..(j - 1)] \in Caches
            BY <2>2
        <3>2. Without(h[1..(j - 1)], order[j]) \in Caches
            BY <3>1 DEF Without, Caches
        <3>3. j \in 0..n
            OBVIOUS
        <3>. QED BY <1>11, <3>1, <3>2, <3>3
    <2>. HIDE DEF Good
    <2>3. \A j \in 0..n : j \in Good
        BY <2>1, <2>2, CountingUp
    <2>. QED BY <2>3 DEF Good
<1>. HIDE DEF body
<1>13. e \in [0..n -> Caches]
    BY <1>12
<1>14. e[0] = c /\ e[n] = Evict(c, order, target)
    BY <1>9, <1>10
<1>15. \A j \in 1..n : e[j] = h[1..j] /\ e[j - 1] = h[1..(j - 1)]
    OBVIOUS
<1>. HIDE DEF e
<1>16. \A j \in 1..n :
        /\ SizeOf(e[j - 1]) <= target => e[j] = e[j - 1]
        /\ ~(SizeOf(e[j - 1]) <= target) => e[j] = Without(e[j - 1], order[j])
    BY <1>11, <1>15
<1>. QED BY <1>13, <1>14, <1>16 DEF EvictLoop

\* The entries of c from the i-th on
From(c, order, n, i) ==
    [k \in Key |-> IF \E j \in i..n : order[j] = k THEN c[k] ELSE NoReport]

(* Only whole entries leave, the rest is within the target, and an entry   *)
(* leaves only when those from it on are larger than the target.           *)
LEMMA EvictFacts ==
    ASSUME NEW c \in Caches, NEW order \in SetToSeqs(Cached(c)), NEW target \in Int
    PROVE  /\ Evict(c, order, target) \in Caches
           /\ Part(Evict(c, order, target), c)
           /\ target >= 0 => SizeOf(Evict(c, order, target)) <= target
           /\ \A k \in Cached(c) : Evict(c, order, target)[k] = NoReport =>
                \E n \in Nat : \E i \in 1..n :
                    /\ Len(order) = n
                    /\ order \in [1..n -> Key]
                    /\ \A j \in 1..n : order[j] \in Cached(c)
                    /\ order[i] = k
                    /\ ~(SizeOf(From(c, order, n, i)) <= target)
<1>1. PICK n \in Nat :
        /\ order \in [1..n -> Key]
        /\ \A k \in Cached(c) : \E i \in 1..n : order[i] = k
        /\ \A i \in 1..n : order[i] \in Cached(c)
        /\ \A i, j \in 1..n : i # j => order[i] # order[j]
        /\ Len(order) = n
    BY OrderIsComplete
<1>. \E e \in [0..n -> Caches] : EvictLoop(c, n, order, target, e)
    BY <1>1, EvictUnfolds
<1>2. PICK e \in [0..n -> Caches] :
        /\ e[0] = c
        /\ e[n] = Evict(c, order, target)
        /\ \A j \in 1..n :
             /\ SizeOf(e[j - 1]) <= target => e[j] = e[j - 1]
             /\ ~(SizeOf(e[j - 1]) <= target) => e[j] = Without(e[j - 1], order[j])
    BY DEF EvictLoop
<1>. DEFINE Kept(j) == \A i \in (j + 1)..n : e[j][order[i]] = c[order[i]]
            AllGone(j) == \A i \in 1..j : e[j][order[i]] = NoReport
            Needed(j) == \A i \in 1..j : e[j][order[i]] = NoReport =>
                            ~(SizeOf(From(c, order, n, i)) <= target)
            Good == {j \in 0..n : /\ Part(e[j], c)
                                  /\ Kept(j)
                                  /\ ~(SizeOf(e[j]) <= target) => AllGone(j)
                                  /\ Needed(j)}
<1>3. 0 \in Good
    BY <1>2 DEF Part
<1>4. ASSUME NEW j \in 1..n, j - 1 \in Good PROVE j \in Good
    <2>1. /\ Part(e[j - 1], c)
          /\ \A i \in j..n : e[j - 1][order[i]] = c[order[i]]
          /\ ~(SizeOf(e[j - 1]) <= target) => AllGone(j - 1)
          /\ Needed(j - 1)
        BY <1>4
    <2>2. j \in 0..n /\ 1..(j - 1) \subseteq 1..n /\ \A i \in 1..j : i # j => i \in 1..(j - 1)
        BY <1>4
    <2>3. CASE SizeOf(e[j - 1]) <= target
        <3>1. e[j] = e[j - 1]
            BY <1>2, <2>3
        <3>2. c[order[j]] # NoReport
            BY <1>1 DEF Cached
        <3>3. Kept(j)
            BY <2>1, <3>1
        <3>4. Needed(j)
            BY <2>1, <2>2, <3>1, <3>2
        <3>. QED BY <2>1, <2>2, <2>3, <3>1, <3>3, <3>4
    <2>4. CASE ~(SizeOf(e[j - 1]) <= target)
        <3>1. e[j] = Without(e[j - 1], order[j])
            BY <1>2, <2>4
        <3>2. e[j - 1] \in Caches /\ order[j] \in Key
            BY <1>1, <1>2, <1>4
        <3>3. /\ e[j][order[j]] = NoReport
              /\ \A k \in Key : k # order[j] => e[j][k] = e[j - 1][k]
            BY <3>1, <3>2 DEF Without, Caches
        <3>4. \A i \in 1..n : i # j => e[j][order[i]] = e[j - 1][order[i]]
            BY <1>1, <3>3
        <3>5. Part(e[j], c)
            BY <2>1, <3>3 DEF Part
        <3>6. Kept(j)
            BY <2>1, <3>4
        <3>7. AllGone(j)
            BY <2>1, <2>2, <2>4, <3>3, <3>4
        <3>8. e[j - 1] = From(c, order, n, j)
            <4>1. ASSUME NEW k \in Key PROVE e[j - 1][k] = From(c, order, n, j)[k]
                <5>1. CASE k \notin Cached(c)
                    <6>1. c[k] = NoReport
                        BY <5>1 DEF Cached
                    <6>. QED BY <2>1, <6>1 DEF From, Part
                <5>2. CASE k \in Cached(c)
                    <6>1. PICK i \in 1..n : order[i] = k
                        BY <1>1, <5>2
                    <6>2. CASE i \in j..n
                        BY <2>1, <6>1, <6>2 DEF From
                    <6>3. CASE i \notin j..n
                        <7>1. i \in 1..(j - 1)
                            BY <6>3
                        <7>2. e[j - 1][k] = NoReport
                            BY <2>1, <2>4, <6>1, <7>1
                        <7>3. \A m \in j..n : order[m] # k
                            BY <1>1, <6>1, <6>3
                        <7>. QED BY <7>2, <7>3 DEF From
                    <6>. QED BY <6>2, <6>3
                <5>. QED BY <5>1, <5>2
            <4>2. e[j - 1] = [k \in Key |-> e[j - 1][k]]
                BY <3>2 DEF Caches
            <4>3. From(c, order, n, j) = [k \in Key |-> From(c, order, n, j)[k]]
                BY DEF From
            <4>. QED BY <4>1, <4>2, <4>3
        <3>9. Needed(j)
            <4>. SUFFICES ASSUME NEW i \in 1..j, e[j][order[i]] = NoReport
                          PROVE  ~(SizeOf(From(c, order, n, i)) <= target)
                OBVIOUS
            <4>1. CASE i = j
                BY <2>4, <3>8, <4>1
            <4>2. CASE i # j
                <5>1. i \in 1..(j - 1) /\ i \in 1..n
                    BY <2>2, <4>2
                <5>2. e[j - 1][order[i]] = NoReport
                    BY <3>4, <4>2, <5>1
                <5>. QED BY <2>1, <5>1, <5>2
            <4>. QED BY <4>1, <4>2
        <3>. QED BY <2>2, <3>5, <3>6, <3>7, <3>9
    <2>. QED BY <2>3, <2>4
<1>5. n \in Good
    <2>. HIDE DEF Good
    <2>1. n \in 0..n
        OBVIOUS
    <2>. QED BY <1>3, <1>4, <2>1, CountingUp
<1>. DEFINE d == Evict(c, order, target)
<1>6. /\ d \in Caches
      /\ Part(d, c)
      /\ ~(SizeOf(d) <= target) => \A i \in 1..n : d[order[i]] = NoReport
      /\ \A i \in 1..n : d[order[i]] = NoReport => ~(SizeOf(From(c, order, n, i)) <= target)
    BY <1>2, <1>5
<1>. HIDE DEF d
<1>7. ASSUME target >= 0, ~(SizeOf(d) <= target) PROVE FALSE
    <2>1. \A k \in Key : d[k] = NoReport
        <3>1. ASSUME NEW k \in Key PROVE d[k] = NoReport
            <4>1. CASE k \in Cached(c)
                BY <1>1, <1>6, <1>7, <4>1
            <4>2. CASE k \notin Cached(c)
                BY <1>6, <4>2 DEF Cached, Part
            <4>. QED BY <4>1, <4>2
        <3>. QED BY <3>1
    <2>2. SizeOf(d) = 0
        BY <1>6, <2>1, NothingIsSmall
    <2>. QED BY <1>7, <2>2
<1>8. ASSUME NEW k \in Cached(c), d[k] = NoReport
      PROVE  \E i \in 1..n : order[i] = k /\ ~(SizeOf(From(c, order, n, i)) <= target)
    BY <1>1, <1>6, <1>8
<1>. QED BY <1>1, <1>6, <1>7, <1>8 DEF d

-----------------------------------------------------------------------------
(* What Add and cleanup leave behind *)

\* Entries of c created no earlier than that of r
YoungPart(c, when, r) ==
    [k \in Key |-> IF c[k] # NoReport /\ when[c[k]] >= when[r] THEN c[k] ELSE NoReport]

(* The entries from the i-th on are no older than the i-th. *)
LEMMA EvictsOldest ==
    ASSUME NEW c \in Caches, NEW when \in [Report -> Int], NEW target \in Int,
           NEW order \in OldestFirst(c, when),
           NEW k \in Cached(c), Evict(c, order, target)[k] = NoReport
    PROVE  SizeOf(YoungPart(c, when, c[k])) > target
<1>1. order \in SetToSeqs(Cached(c))
    BY DEF OldestFirst
<1>2. PICK n \in Nat : \E i \in 1..n :
        /\ Len(order) = n
        /\ order \in [1..n -> Key]
        /\ \A j \in 1..n : order[j] \in Cached(c)
        /\ order[i] = k
        /\ ~(SizeOf(From(c, order, n, i)) <= target)
    BY <1>1, EvictFacts
<1>3. PICK i \in 1..n :
        /\ Len(order) = n
        /\ order \in [1..n -> Key]
        /\ \A j \in 1..n : order[j] \in Cached(c)
        /\ order[i] = k
        /\ ~(SizeOf(From(c, order, n, i)) <= target)
    BY <1>2
<1>. DEFINE young == YoungPart(c, when, c[k])
            rest == From(c, order, n, i)
<1>4. young \in Caches /\ rest \in Caches
    BY DEF YoungPart, From, Caches
<1>5. Part(rest, young)
    <2>. SUFFICES ASSUME NEW m \in Key, rest[m] # NoReport PROVE rest[m] = young[m]
        BY DEF Part
    <2>1. PICK j \in i..n : order[j] = m /\ rest[m] = c[m]
        BY DEF From
    <2>2. j \in 1..n /\ (j = i \/ i < j)
        BY <2>1
    <2>3. c[k] \in Report /\ c[m] \in Report
        BY DEF Cached, Caches, From
    <2>4. when[c[order[i]]] <= when[c[order[j]]]
        <3>1. CASE j = i
            BY <1>3, <2>1, <2>3, <3>1
        <3>2. CASE i < j
            BY <1>3, <2>2, <3>2 DEF OldestFirst
        <3>. QED BY <2>2, <3>1, <3>2
    <2>5. when[c[k]] <= when[c[m]] /\ when[c[k]] \in Int /\ when[c[m]] \in Int
        BY <1>3, <2>1, <2>3, <2>4
    <2>. QED BY <2>1, <2>3, <2>5, CacheAssumption DEF YoungPart
<1>6. SizeOf(rest) <= SizeOf(young) /\ SizeOf(rest) \in Nat /\ SizeOf(young) \in Nat
    <2>. HIDE DEF rest, young
    <2>. QED BY <1>4, <1>5, PartIsSmaller, BytesType
<1>. HIDE DEF rest, young
<1>7. ~(SizeOf(rest) <= target)
    BY <1>3 DEF rest
<1>8. SizeOf(young) > target
    BY <1>6, <1>7
<1>. QED BY <1>8 DEF young

LEMMA AddFacts ==
    ASSUME NEW c \in Caches, NEW k \in Key, NEW r \in Report, NEW when \in [Report -> Int],
           NEW max \in Int, NEW d \in AddResults(c, k, r, when, max)
    PROVE  /\ d \in Caches
           /\ \A j \in Key : d[j] \in {c[j], NoReport} \/ (j = k /\ d[j] = r)
           /\ max > 0 => SizeOf(d) <= max \/ d = c
           /\ \A j \in Key : j # k /\ c[j] # NoReport /\ d[j] = NoReport =>
                SizeOf(YoungPart(c, when, c[j])) + Size[r] > max
<1>0. Size[r] \in Nat /\ SizeOf(c) \in Nat
    BY CacheAssumption, BytesType
<1>1. CASE d = c
    BY <1>1
<1>2. CASE d = [c EXCEPT ![k] = r] /\ ~(max > 0 /\ SizeOf(c) + Size[r] > max)
    <2>1. d \in Caches /\ SizeOf(d) <= SizeOf(c) + Size[r] /\ SizeOf(d) \in Nat
        BY <1>2, EntryAdds, BytesType
    <2>2. \A j \in Key : d[j] = IF j = k THEN r ELSE c[j]
        BY <1>2 DEF Caches
    <2>. QED BY <1>0, <1>2, <2>1, <2>2
<1>3. ASSUME NEW order \in OldestFirst(c, when), max > 0, ~(Size[r] > max),
             d = [Evict(c, order, max - Size[r]) EXCEPT ![k] = r]
      PROVE  /\ d \in Caches
             /\ \A j \in Key : d[j] \in {c[j], NoReport} \/ (j = k /\ d[j] = r)
             /\ SizeOf(d) <= max
             /\ \A j \in Key : j # k /\ c[j] # NoReport /\ d[j] = NoReport =>
                  SizeOf(YoungPart(c, when, c[j])) + Size[r] > max
    <2>. DEFINE target == max - Size[r]
                kept == Evict(c, order, target)
    <2>1. target \in Int /\ target >= 0 /\ order \in SetToSeqs(Cached(c))
        BY <1>0, <1>3 DEF OldestFirst
    <2>. HIDE DEF target
    <2>2. kept \in Caches /\ Part(kept, c) /\ SizeOf(kept) <= target
        BY <2>1, EvictFacts
    <2>3. \A j \in Cached(c) : kept[j] = NoReport => SizeOf(YoungPart(c, when, c[j])) > target
        BY <1>3, <2>1, EvictsOldest
    <2>4. \A j \in Key : YoungPart(c, when, c[j]) \in Caches
        BY DEF YoungPart, Caches
    <2>5. d = [kept EXCEPT ![k] = r]
        BY <1>3 DEF target
    <2>. HIDE DEF kept
    <2>6. d \in Caches /\ SizeOf(d) <= SizeOf(kept) + Size[r] /\ SizeOf(d) \in Nat
                       /\ SizeOf(kept) \in Nat
        BY <2>2, <2>5, EntryAdds, BytesType
    <2>7. \A j \in Key : d[j] = IF j = k THEN r ELSE kept[j]
        BY <2>2, <2>5 DEF Caches
    <2>8. SizeOf(d) <= max
        BY <1>0, <2>2, <2>6 DEF target
    <2>9. ASSUME NEW j \in Key, j # k, c[j] # NoReport, d[j] = NoReport
          PROVE  SizeOf(YoungPart(c, when, c[j])) + Size[r] > max
        <3>1. kept[j] = NoReport /\ j \in Cached(c)
            BY <2>7, <2>9 DEF Cached
        <3>2. SizeOf(YoungPart(c, when, c[j])) > target
            BY <2>3, <3>1
        <3>3. SizeOf(YoungPart(c, when, c[j])) \in Nat
            BY <2>4, BytesType
        <3>. QED BY <1>0, <3>2, <3>3 DEF target
    <2>. QED BY <2>2, <2>6, <2>7, <2>8, <2>9 DEF Part
<1>4. \/ d = c
      \/ d = [c EXCEPT ![k] = r] /\ ~(max > 0 /\ SizeOf(c) + Size[r] > max)
      \/ /\ max > 0 /\ ~(Size[r] > max)
         /\ \E order \in OldestFirst(c, when) :
                d = [Evict(c, order, max - Size[r]) EXCEPT ![k] = r]
    BY DEF AddResults
<1>. QED BY <1>1, <1>2, <1>3, <1>4

LEMMA CleanupFacts ==
    ASSUME NEW c \in Caches, NEW expired, NEW when \in [Report -> Int],
           NEW max \in Int, NEW d \in CleanupResults(c, expired, when, max)
    PROVE  /\ d \in Caches
           /\ Part(d, c)
           /\ max >= 0 => SizeOf(d) <= max
           /\ \A j \in Key : c[j] # NoReport /\ c[j] \notin expired /\ d[j] = NoReport =>
                SizeOf(YoungPart(c, when, c[j])) > max
<1>. DEFINE fresh == [k \in Key |-> IF c[k] \in expired THEN NoReport ELSE c[k]]
<1>1. PICK order \in OldestFirst(fresh, when) : d = Evict(fresh, order, max)
    BY DEF CleanupResults
<1>2. fresh \in Caches /\ Part(fresh, c)
    BY DEF Caches, Part
<1>3. \A j \in Key : c[j] \notin expired => fresh[j] = c[j]
    OBVIOUS
<1>. HIDE DEF fresh
<1>4. order \in SetToSeqs(Cached(fresh))
    BY <1>1 DEF OldestFirst
<1>5. d \in Caches /\ Part(d, fresh) /\ (max >= 0 => SizeOf(d) <= max)
    BY <1>1, <1>2, <1>4, EvictFacts
<1>7. ASSUME NEW j \in Key, c[j] # NoReport, c[j] \notin expired, d[j] = NoReport
      PROVE  SizeOf(YoungPart(c, when, c[j])) > max
    <2>1. j \in Cached(fresh) /\ fresh[j] = c[j]
        BY <1>3, <1>7 DEF Cached
    <2>. DEFINE young == YoungPart(fresh, when, c[j])
                all == YoungPart(c, when, c[j])
    <2>2. SizeOf(young) > max
        BY <1>1, <1>2, <1>7, <2>1, EvictsOldest
    <2>3. young \in Caches /\ all \in Caches /\ Part(young, all)
        BY <1>2, CacheAssumption DEF YoungPart, Caches, Part
    <2>. HIDE DEF young, all
    <2>4. SizeOf(young) <= SizeOf(all) /\ SizeOf(young) \in Nat /\ SizeOf(all) \in Nat
        BY <2>3, PartIsSmaller, BytesType
    <2>5. SizeOf(all) > max
        BY <2>2, <2>4
    <2>. QED BY <2>5 DEF all
<1>. QED BY <1>2, <1>5, <1>7 DEF Part

-----------------------------------------------------------------------------
(* Types *)

LEMMA CacheChanges ==
    ASSUME TypeOK
    PROVE  /\ cache \in Caches /\ file \in Caches /\ EmptyCache \in Caches
           /\ created \in [Report -> Int] /\ limit \in Int
           /\ \A r \in Report : KeyOf[r] \in Key
<1>1. \A t \in 0..MaxTime : t \in Int
    BY ClientAssumption
<1>. QED BY <1>1, ClientAssumption DEF TypeOK, Caches, EmptyCache

\* One more of a metric
LEMMA Counting ==
    ASSUME metrics \in [total : Nat, success : Nat, failed : Nat]
    PROVE  \A f \in {"total", "success", "failed"} :
             /\ Count(f) \in [total : Nat, success : Nat, failed : Nat]
             /\ Count(f).total = IF f = "total" THEN metrics.total + 1 ELSE metrics.total
             /\ Count(f).success = IF f = "success" THEN metrics.success + 1 ELSE metrics.success
             /\ Count(f).failed = IF f = "failed" THEN metrics.failed + 1 ELSE metrics.failed
BY DEF Count

LEMMA TypeStep == TypeOK /\ [Next]_vars => TypeOK'
<1>. SUFFICES ASSUME TypeOK, [Next]_vars PROVE TypeOK'
    OBVIOUS
<1>. USE DEF processVars, entryVars, callVars
<1>0. /\ cache \in Caches /\ file \in Caches /\ EmptyCache \in Caches
      /\ created \in [Report -> Int] /\ limit \in Int
      /\ \A r \in Report : KeyOf[r] \in Key
    BY CacheChanges
<1>1. ASSUME TimePasses PROVE TypeOK'
    BY <1>1, ClientAssumption DEF TimePasses, TypeOK
<1>2. ASSUME NEW r \in Report, ReportBegin(r) PROVE TypeOK'
    <2>1. cache' \in Caches
        BY <1>0, <1>2, AddFacts DEF ReportBegin
    <2>2. metrics' \in [total : Nat, success : Nat, failed : Nat]
        BY <1>2, Counting DEF ReportBegin, TypeOK
    <2>. QED BY <1>2, <2>1, <2>2 DEF ReportBegin, TypeOK, Busy, Caches
<1>3. ASSUME NEW r \in Report, SendSucceeds(r) PROVE TypeOK'
    <2>1. metrics' \in [total : Nat, success : Nat, failed : Nat]
        BY <1>3, Counting DEF SendSucceeds, TypeOK
    <2>. QED BY <1>3, <2>1 DEF SendSucceeds, TypeOK, Busy
<1>4. ASSUME NEW r \in Report, SendFails(r) PROVE TypeOK'
    <2>1. CASE attempt[r] = MaxRetries
        <3>1. metrics' \in [total : Nat, success : Nat, failed : Nat]
            BY <1>4, <2>1, Counting DEF SendFails, TypeOK
        <3>. QED BY <1>4, <2>1, <3>1 DEF SendFails, TypeOK, Busy
    <2>2. CASE attempt[r] # MaxRetries
        <3>1. attempt[r] + 1 \in 0..MaxRetries
            BY <2>2, ClientAssumption DEF TypeOK
        <3>2. attempt' \in [Report -> 0..MaxRetries]
            BY <1>4, <2>2, <3>1 DEF SendFails, TypeOK
        <3>. QED BY <1>4, <2>2, <3>2 DEF SendFails, TypeOK, Busy
    <2>. QED BY <2>1, <2>2
<1>5. ASSUME NEW r \in Report, DelayPasses(r) PROVE TypeOK'
    BY <1>5 DEF DelayPasses, TypeOK, Busy
<1>6. ASSUME NEW r \in Report, GivesUp(r) PROVE TypeOK'
    BY <1>6 DEF GivesUp, TypeOK, Busy
<1>7. ASSUME NEW r \in Report, GetEntry(r) PROVE TypeOK'
    <2>1. cache[KeyOf[r]] \in Report \cup {NoReport}
        BY <1>0 DEF Caches
    <2>2. attempt' \in [Report -> 0..MaxRetries]
        BY <1>7, ClientAssumption DEF GetEntry, TypeOK
    <2>3. got' \in [Report -> Report \cup {NoReport}]
        BY <1>7, <2>1 DEF GetEntry, TypeOK
    <2>4. pc' \in [Report -> {"idle", "returned", "gone"} \cup Busy]
        BY <1>7 DEF GetEntry, TypeOK, Busy
    <2>. QED BY <1>7, <2>2, <2>3, <2>4 DEF GetEntry, TypeOK
<1>8. ASSUME NEW r \in Report, SetStatus(r) PROVE TypeOK'
    <2>1. status' \in [Report -> {"none", "pending", "success", "failed"}]
        BY <1>8 DEF SetStatus, StatusOf, TypeOK
    <2>2. pc' \in [Report -> {"idle", "returned", "gone"} \cup Busy]
        BY <1>8 DEF SetStatus, TypeOK, Busy
    <2>. QED BY <1>8, <2>1, <2>2 DEF SetStatus, TypeOK
<1>9. ASSUME NEW r \in Report, RemoveEntry(r) PROVE TypeOK'
    BY <1>9 DEF RemoveEntry, Without, TypeOK, Busy
<1>10. ASSUME Cleanup PROVE TypeOK'
    <2>1. cache' \in Caches
        BY <1>0, <1>10, CleanupFacts DEF Cleanup
    <2>. QED BY <1>10, <2>1 DEF Cleanup, TypeOK, Caches
<1>11. ASSUME Clear PROVE TypeOK'
    BY <1>11 DEF Clear, EmptyCache, TypeOK
<1>12. ASSUME NEW n \in Limits, NEW a \in Ages, UpdateConfig(n, a) PROVE TypeOK'
    BY <1>12 DEF UpdateConfig, TypeOK
<1>13. ASSUME StartClient PROVE TypeOK'
    BY <1>13, ClientAssumption DEF StartClient, TypeOK
<1>14. ASSUME Stop PROVE TypeOK'
    BY <1>14 DEF Stop, TypeOK
<1>15. ASSUME RoutineExits PROVE TypeOK'
    BY <1>15 DEF RoutineExits, TypeOK
<1>16. ASSUME Persist \/ PersistFails PROVE TypeOK'
    BY <1>16 DEF Persist, PersistFails, TypeOK
<1>17. ASSUME Exit PROVE TypeOK'
    <2>1. /\ status' \in [Report -> {"none", "pending", "success", "failed"}]
          /\ created' \in [Report -> 0..MaxTime]
          /\ attempt' \in [Report -> 0..MaxRetries]
        BY <1>17, ClientAssumption DEF Exit, TypeOK
    <2>2. /\ pc' \in [Report -> {"idle", "returned", "gone"} \cup Busy]
          /\ result' \in [Report -> {"none", "success", "failed", "cancelled"}]
          /\ got' \in [Report -> Report \cup {NoReport}]
        BY <1>17 DEF Exit, TypeOK
    <2>3. metrics' \in [total : Nat, success : Nat, failed : Nat]
        BY <1>17 DEF Exit, NoMetrics
    <2>. QED BY <1>17, <2>1, <2>2, <2>3 DEF Exit, TypeOK, EmptyCache
<1>18. CASE UNCHANGED vars
    BY <1>18 DEF vars, TypeOK
<1>. QED BY <1>1, <1>2, <1>3, <1>4, <1>5, <1>6, <1>7, <1>8, <1>9, <1>10, <1>11, <1>12,
         <1>13, <1>14, <1>15, <1>16, <1>17, <1>18 DEF Next, ReportStep

-----------------------------------------------------------------------------
(* What no step does *)

Settled == {"returned", "gone"}

(* Where the entries of a cache come from *)
LEMMA CacheStep ==
    ASSUME TypeOK, [Next]_vars
    PROVE  \/ Part(cache', cache)
           \/ \E r \in Report :
                /\ ReportBegin(r)
                /\ \A k \in Key : cache'[k] \in {cache[k], NoReport} \/ (k = KeyOf[r] /\ cache'[k] = r)
           \/ StartClient /\ Part(cache', file)
<1>. USE DEF processVars, entryVars, callVars
<1>0. /\ cache \in Caches /\ file \in Caches
      /\ created \in [Report -> Int] /\ limit \in Int
      /\ \A r \in Report : KeyOf[r] \in Key
    BY CacheChanges
<1>1. ASSUME NEW r \in Report, ReportBegin(r)
      PROVE  \A k \in Key : cache'[k] \in {cache[k], NoReport} \/ (k = KeyOf[r] /\ cache'[k] = r)
    BY <1>0, <1>1, AddFacts DEF ReportBegin
<1>2. CASE Cleanup
    BY <1>0, <1>2, CleanupFacts DEF Cleanup
<1>3. ASSUME NEW r \in Report, RemoveEntry(r) PROVE Part(cache', cache)
    BY <1>0, <1>3 DEF RemoveEntry, Without, Caches, Part
<1>4. CASE StartClient
    BY <1>4 DEF StartClient, Part
<1>5. CASE Clear \/ Exit
    BY <1>5 DEF Clear, Exit, EmptyCache, Part
<1>6. ASSUME UNCHANGED cache PROVE Part(cache', cache)
    BY <1>6 DEF Part
<1>. QED BY <1>1, <1>2, <1>3, <1>4, <1>5, <1>6
    DEF Next, vars, TimePasses, ReportStep, SendSucceeds, SendFails, DelayPasses, GivesUp,
        GetEntry, SetStatus, UpdateConfig, Stop, RoutineExits, Persist, PersistFails

(* A call once begun is never idle again, and once over stays so; then its *)
(* result and the creation of its entry stay, but for entries that an      *)
(* ending process has not saved.                                           *)
LEMMA CallsEnd ==
    ASSUME TypeOK, [Next]_vars, NEW r \in Report
    PROVE  /\ pc'[r] = "idle" => pc[r] = "idle"
           /\ pc[r] \in Settled => pc'[r] \in Settled
           /\ pc[r] \in Settled /\ (Exit => Holds(file, r)) =>
                result'[r] = result[r] /\ created'[r] = created[r]
           /\ now \in Int /\ now' \in Int /\ now <= now'
<1>. USE DEF processVars, entryVars, callVars
<1>1. now \in Int /\ now' \in Int /\ now <= now'
    <2>1. now \in Int
        BY ClientAssumption DEF TypeOK
    <2>2. now' = now \/ now' = now + 1
        BY DEF Next, vars, TimePasses, ReportBegin, ReportStep, SendSucceeds, SendFails,
            DelayPasses, GivesUp, GetEntry, SetStatus, RemoveEntry, Cleanup, Clear,
            UpdateConfig, StartClient, Stop, RoutineExits, Persist, PersistFails, Exit
    <2>. QED BY <2>1, <2>2
<1>2. ASSUME NEW n \in Report, ReportBegin(n)
      PROVE  /\ \A m \in Report : pc'[m] = (IF m = n THEN "sending" ELSE pc[m])
             /\ pc[n] = "idle" /\ result' = result
             /\ \A m \in Report : m # n => created'[m] = created[m]
    BY <1>2 DEF ReportBegin, TypeOK
<1>3. ASSUME NEW n \in Report, ReportStep(n)
      PROVE  /\ \A m \in Report : m # n => pc'[m] = pc[m] /\ result'[m] = result[m]
             /\ pc[n] \in Busy /\ pc'[n] # "idle" /\ created' = created
    BY <1>3 DEF ReportStep, SendSucceeds, SendFails, DelayPasses, GivesUp, GetEntry,
        SetStatus, RemoveEntry, TypeOK, Busy
<1>4. CASE Exit
    BY <1>1, <1>4 DEF Exit, Settled
<1>5. CASE \E n \in Report : ReportBegin(n)
    BY <1>1, <1>2, <1>5 DEF Settled
<1>6. CASE \E n \in Report : ReportStep(n)
    BY <1>1, <1>3, <1>6 DEF Settled, Busy
<1>7. CASE UNCHANGED <<pc, result, created>>
    BY <1>1, <1>7
<1>. QED BY <1>4, <1>5, <1>6, <1>7
    DEF Next, vars, TimePasses, Cleanup, Clear, UpdateConfig, StartClient, Stop,
        RoutineExits, Persist, PersistFails

LEMMA OutlivedStays == [Next]_vars => outlived \subseteq outlived'
<1>. SUFFICES ASSUME [Next]_vars PROVE outlived \subseteq outlived'
    OBVIOUS
<1>1. ASSUME NEW r \in Report, GetEntry(r) PROVE outlived \subseteq outlived'
    BY <1>1 DEF GetEntry
<1>. USE DEF entryVars
<1>2. ASSUME UNCHANGED outlived PROVE outlived \subseteq outlived'
    BY <1>2
<1>. QED BY <1>1, <1>2
    DEF Next, vars, TimePasses, ReportBegin, ReportStep, SendSucceeds, SendFails,
        DelayPasses, GivesUp, SetStatus, RemoveEntry, Cleanup, Clear, UpdateConfig,
        StartClient, Stop, RoutineExits, Persist, PersistFails, Exit

LEMMA FiledStep ==
    ASSUME ClientInv, [Next]_vars
    PROVE  Filed(cache)' /\ Filed(file)' /\ DownIsEmpty'
<1>. USE DEF processVars, entryVars, callVars
<1>0. /\ TypeOK /\ Filed(cache) /\ Filed(file) /\ DownIsEmpty /\ CallResults
      /\ cache \in Caches /\ file \in Caches
    BY CacheChanges DEF ClientInv
<1>1. \A k \in Key : cache[k] # NoReport => cache[k] \in Report /\ KeyOf[cache[k]] = k
                                         /\ pc'[cache[k]] # "idle"
    BY <1>0, CallsEnd DEF Filed, Caches
<1>2. \A k \in Key : file[k] # NoReport => file[k] \in Report /\ KeyOf[file[k]] = k
                                        /\ pc'[file[k]] # "idle"
    BY <1>0, CallsEnd DEF Filed, Caches
<1>3. Filed(cache)'
    <2>1. CASE Part(cache', cache)
        BY <1>1, <2>1 DEF Filed, Part
    <2>2. CASE StartClient /\ Part(cache', file)
        BY <1>2, <2>2 DEF Filed, Part
    <2>3. ASSUME NEW r \in Report, ReportBegin(r),
                 \A k \in Key : cache'[k] \in {cache[k], NoReport} \/ (k = KeyOf[r] /\ cache'[k] = r)
          PROVE  Filed(cache)'
        <3>1. pc'[r] # "idle"
            BY <1>0, <2>3 DEF ReportBegin, TypeOK
        <3>. QED BY <1>1, <2>3, <3>1 DEF Filed
    <2>. QED BY <1>0, <2>1, <2>2, <2>3, CacheStep
<1>4. Filed(file)'
    <2>1. file' = file \/ file' = cache
        BY DEF Next, vars, TimePasses, ReportBegin, ReportStep, SendSucceeds, SendFails,
            DelayPasses, GivesUp, GetEntry, SetStatus, RemoveEntry, Cleanup, Clear,
            UpdateConfig, StartClient, Stop, RoutineExits, Persist, PersistFails, Exit
    <2>. QED BY <1>1, <1>2, <2>1 DEF Filed
<1>5. DownIsEmpty'
    <2>. SUFFICES ASSUME process' = "down" PROVE cache' = EmptyCache
        BY DEF DownIsEmpty
    <2>1. CASE Exit
        BY <2>1 DEF Exit
    <2>2. CASE ~Exit
        <3>1. process = "down" /\ ~StartClient /\ \A r \in Report : ~ReportBegin(r)
            BY <2>2 DEF Next, vars, TimePasses, ReportBegin, ReportStep, SendSucceeds,
                SendFails, DelayPasses, GivesUp, GetEntry, SetStatus, RemoveEntry, Cleanup,
                Clear, UpdateConfig, StartClient, Stop, RoutineExits, Persist, PersistFails
        <3>2. cache = EmptyCache /\ Part(cache', cache)
            BY <1>0, <3>1, CacheStep DEF DownIsEmpty
        <3>3. cache' \in Caches
            BY <1>0, TypeStep DEF TypeOK, Caches
        <3>. QED BY <3>2, <3>3 DEF EmptyCache, Part, Caches
    <2>. QED BY <2>1, <2>2
<1>. QED BY <1>3, <1>4, <1>5

LEMMA SettledStep ==
    ASSUME ClientInv, [Next]_vars
    PROVE  FileSettled' /\ DeliveredReportsLeave'
<1>. USE DEF processVars, entryVars, callVars
<1>0. /\ TypeOK /\ Filed(cache) /\ Filed(file) /\ FileSettled /\ CallResults
      /\ DeliveredReportsLeave
      /\ cache \in Caches /\ file \in Caches
    BY CacheChanges DEF ClientInv
<1>1. FileSettled'
    <2>. SUFFICES ASSUME NEW k \in Key, file'[k] # NoReport
                  PROVE  /\ pc'[file'[k]] \in Settled
                         /\ result'[file'[k]] = "success" => file'[k] \in outlived'
        BY DEF FileSettled, Settled
    <2>. DEFINE r == file'[k]
    <2>1. CASE file' = file
        <3>1. /\ r \in Report /\ r = file[k] /\ pc[r] \in Settled /\ Holds(file, r)
              /\ result[r] = "success" => r \in outlived
            BY <1>0, <2>1 DEF FileSettled, Settled, Caches, Holds
        <3>. HIDE DEF r
        <3>2. pc'[r] \in Settled /\ result'[r] = result[r]
            BY <1>0, <3>1, CallsEnd
        <3>. QED BY <3>1, <3>2, OutlivedStays DEF r
    <2>2. CASE Persist
        <3>1. /\ r \in Report /\ r = cache[k] /\ pc[r] # "idle" /\ Holds(cache, r)
              /\ process = "stopping" /\ pc' = pc /\ result' = result
            BY <1>0, <2>2 DEF Persist, Caches, Filed, Holds
        <3>. HIDE DEF r
        <3>2. pc[r] \in Settled
            BY <1>0, <3>1 DEF TypeOK, CallResults, Settled
        <3>3. result[r] = "success" => r \in outlived
            BY <1>0, <3>1, <3>2 DEF DeliveredReportsLeave, Settled
        <3>. QED BY <3>1, <3>2, <3>3, OutlivedStays DEF r
    <2>. QED BY <2>1, <2>2
        DEF Next, vars, TimePasses, ReportBegin, ReportStep, SendSucceeds, SendFails,
            DelayPasses, GivesUp, GetEntry, SetStatus, RemoveEntry, Cleanup, Clear,
            UpdateConfig, StartClient, Stop, RoutineExits, PersistFails, Exit
<1>2. DeliveredReportsLeave'
    <2>. SUFFICES ASSUME NEW r \in Report, result'[r] = "success", pc'[r] \in Settled,
                         NEW k \in Key, cache'[k] = r
                  PROVE  r \in outlived'
        BY DEF DeliveredReportsLeave, Settled, Holds
    <2>0. r # NoReport
        BY CacheAssumption
    <2>1. ~Exit
        BY <2>0 DEF Exit, EmptyCache
    <2>2. CASE pc[r] \in Settled
        <3>1. result[r] = "success"
            BY <1>0, <2>1, <2>2, CallsEnd
        <3>2. \A n \in Report : ReportBegin(n) => r # n
            BY <2>2 DEF ReportBegin, Settled
        <3>3. cache[k] = r \/ file[k] = r
            BY <1>0, <2>0, <3>2, CacheStep DEF Part
        <3>4. r \in outlived
            <4>1. CASE cache[k] = r
                BY <1>0, <2>2, <3>1, <4>1 DEF DeliveredReportsLeave, Settled, Holds
            <4>2. CASE file[k] = r
                BY <1>0, <2>0, <3>1, <4>2 DEF FileSettled
            <4>. QED BY <3>3, <4>1, <4>2
        <3>. QED BY <3>4, OutlivedStays
    <2>3. CASE pc[r] \notin Settled
        <3>1. GetEntry(r) \/ SetStatus(r) \/ RemoveEntry(r)
            BY <1>0, <2>1, <2>3
            DEF Next, vars, TimePasses, ReportBegin, ReportStep, SendSucceeds, SendFails,
                DelayPasses, GivesUp, GetEntry, SetStatus, RemoveEntry, Cleanup, Clear,
                UpdateConfig, StartClient, Stop, RoutineExits, Persist, PersistFails, TypeOK,
                Settled
        <3>2. CASE GetEntry(r)
            <4>1. cache[k] = r /\ k = KeyOf[r]
                BY <1>0, <2>0, <3>2 DEF GetEntry, Filed
            <4>2. Expired(r)
                BY <1>0, <2>0, <3>2, <4>1 DEF GetEntry, TypeOK, Settled
            <4>. QED BY <2>0, <3>2, <4>1, <4>2 DEF GetEntry
        <3>3. CASE SetStatus(r)
            <4>1. result[r] = "success"
                BY <3>3 DEF SetStatus
            <4>2. pc'[r] = "remove"
                BY <1>0, <3>3, <4>1 DEF SetStatus, TypeOK
            <4>. QED BY <4>2 DEF Settled
        <3>4. CASE RemoveEntry(r)
            <4>1. cache' = Without(cache, KeyOf[r])
                BY <3>4 DEF RemoveEntry
            <4>2. k # KeyOf[r] /\ cache[k] = r
                BY <1>0, <2>0, <4>1 DEF Without, Caches
            <4>. QED BY <1>0, <2>0, <4>2 DEF Filed
        <3>. QED BY <3>1, <3>2, <3>3, <3>4
    <2>. QED BY <2>2, <2>3
<1>. QED BY <1>1, <1>2

-----------------------------------------------------------------------------
(* Results and metrics *)

LEMMA CallResultsStep ==
    ASSUME ClientInv, [Next]_vars
    PROVE  CallResults'
<1>. USE DEF processVars, entryVars, callVars
<1>0. TypeOK /\ CallResults
    BY DEF ClientInv
<1>. SUFFICES ASSUME NEW r \in Report
              PROVE  /\ pc'[r] \in {"idle", "sending", "waiting"} => result'[r] = "none"
                     /\ pc'[r] \in {"result", "found"} => result'[r] # "none"
                     /\ pc'[r] = "remove" => result'[r] = "success"
                     /\ pc'[r] \in Busy => process' = "up"
    BY DEF CallResults
<1>1. /\ pc[r] \in {"idle", "sending", "waiting"} => result[r] = "none"
      /\ pc[r] \in {"result", "found"} => result[r] # "none"
      /\ pc[r] = "remove" => result[r] = "success"
      /\ pc[r] \in Busy => process = "up"
    BY <1>0 DEF CallResults
<1>2. CASE ReportBegin(r)
    BY <1>0, <1>1, <1>2 DEF ReportBegin, TypeOK
<1>3. CASE SendSucceeds(r) \/ SendFails(r) \/ DelayPasses(r) \/ GivesUp(r)
    BY <1>0, <1>1, <1>3
    DEF SendSucceeds, SendFails, DelayPasses, GivesUp, TypeOK, Busy
<1>4. CASE GetEntry(r) \/ SetStatus(r) \/ RemoveEntry(r)
    BY <1>0, <1>1, <1>4 DEF GetEntry, SetStatus, RemoveEntry, TypeOK, Busy
<1>5. ASSUME NEW n \in Report, n # r, ReportBegin(n) \/ ReportStep(n)
      PROVE  pc'[r] = pc[r] /\ result'[r] = result[r] /\ process' = process
    BY <1>0, <1>5 DEF ReportBegin, ReportStep, SendSucceeds, SendFails, DelayPasses,
        GivesUp, GetEntry, SetStatus, RemoveEntry, TypeOK
<1>6. CASE Exit
    BY <1>1, <1>6 DEF Exit, Busy
<1>7. CASE Stop
    BY <1>1, <1>7 DEF Stop, InProgress
<1>8. CASE StartClient \/ Persist \/ PersistFails
    BY <1>1, <1>8 DEF StartClient, Persist, PersistFails
<1>9. CASE UNCHANGED <<pc, result, process>>
    BY <1>1, <1>9
<1>. QED BY <1>1, <1>2, <1>3, <1>4, <1>5, <1>6, <1>7, <1>8, <1>9
    DEF Next, vars, TimePasses, ReportStep, Cleanup, Clear, UpdateConfig, RoutineExits

\* What the metrics count
Undone == Cardinality(Undecided)
Dropped == Cardinality(GivenUp)

LEMMA CountsAreFinite ==
    /\ IsFiniteSet(Undecided) /\ Undone \in Nat
    /\ IsFiniteSet(GivenUp) /\ Dropped \in Nat
<1>1. Undecided \in SUBSET Report /\ GivenUp \in SUBSET Report
    BY DEF Undecided, InProgress, GivenUp
<1>. QED BY <1>1, CacheAssumption, FS_Subset, FS_CardinalityType DEF Undone, Dropped

(* A call is undecided while it sends or waits. *)
LEMMA UndecidedAre ==
    ASSUME CallResults
    PROVE  Undecided = {r \in Report : pc[r] \in {"sending", "waiting"}}
BY DEF CallResults, Undecided, InProgress, Busy

LEMMA MetricsStep ==
    ASSUME ClientInv, [Next]_vars
    PROVE  MetricsAddUp'
<1>. USE DEF processVars, entryVars, callVars
<1>. DEFINE Sum == metrics.success + metrics.failed + Undone + Dropped
<1>0. /\ TypeOK /\ CallResults
      /\ metrics.total = Sum
      /\ metrics.total \in Nat /\ metrics.success \in Nat /\ metrics.failed \in Nat
      /\ Undone \in Nat /\ Dropped \in Nat
      /\ metrics \in [total : Nat, success : Nat, failed : Nat]
    BY CountsAreFinite DEF ClientInv, MetricsAddUp, TypeOK, Undone, Dropped
<1>1. CallResults'
    BY CallResultsStep
<1>2. Undecided = {r \in Report : pc[r] \in {"sending", "waiting"}}
    BY <1>0, UndecidedAre
<1>3. Undecided' = {r \in Report : pc'[r] \in {"sending", "waiting"}}
    BY <1>1 DEF CallResults, Undecided, InProgress, Busy
<1>. SUFFICES metrics'.total = metrics'.success + metrics'.failed + Undone' + Dropped'
    BY DEF MetricsAddUp, Undone, Dropped
<1>. HIDE DEF Sum
<1>4. ASSUME UNCHANGED metrics, Undecided' = Undecided, GivenUp' = GivenUp
      PROVE  metrics'.total = metrics'.success + metrics'.failed + Undone' + Dropped'
    BY <1>0, <1>4 DEF Undone, Dropped, Sum
<1>5. ASSUME NEW r \in Report, ReportBegin(r)
      PROVE  metrics'.total = metrics'.success + metrics'.failed + Undone' + Dropped'
    <2>1. /\ metrics'.total = metrics.total + 1
          /\ metrics'.success = metrics.success /\ metrics'.failed = metrics.failed
        BY <1>0, <1>5, Counting DEF ReportBegin
    <2>2. \A n \in Report : pc'[n] = IF n = r THEN "sending" ELSE pc[n]
        BY <1>0, <1>5 DEF ReportBegin, TypeOK
    <2>3. pc[r] = "idle" /\ result[r] = "none" /\ result' = result
        BY <1>0, <1>5 DEF ReportBegin, CallResults
    <2>4. Undecided' = Undecided \cup {r} /\ r \notin Undecided
        BY <1>2, <1>3, <2>2, <2>3
    <2>5. GivenUp' = GivenUp
        BY <2>2, <2>3 DEF GivenUp
    <2>6. Undone' = Undone + 1 /\ Dropped' = Dropped
        BY <2>4, <2>5, CountsAreFinite, FS_AddElement DEF Undone, Dropped
    <2>. QED BY <1>0, <2>1, <2>6 DEF Sum
<1>6. ASSUME NEW r \in Report, pc[r] \in {"sending", "waiting"},
             \A n \in Report \ {r} : pc'[n] = pc[n] /\ result'[n] = result[n],
             pc'[r] = "result"
      PROVE  /\ Undone' = Undone - 1
             /\ result'[r] # "cancelled" => Dropped' = Dropped
             /\ result'[r] = "cancelled" => Dropped' = Dropped + 1
    <2>1. Undecided' = Undecided \ {r} /\ r \in Undecided
        BY <1>2, <1>3, <1>6
    <2>2. result[r] = "none"
        BY <1>0, <1>6 DEF CallResults
    <2>3. /\ result'[r] # "cancelled" => GivenUp' = GivenUp
          /\ result'[r] = "cancelled" => GivenUp' = GivenUp \cup {r} /\ r \notin GivenUp
        BY <1>6, <2>2 DEF GivenUp
    <2>4. Undone' = Undone - 1
        BY <2>1, CountsAreFinite, FS_RemoveElement DEF Undone
    <2>5. result'[r] = "cancelled" => Dropped' = Dropped + 1
        BY <2>3, CountsAreFinite, FS_AddElement DEF Dropped
    <2>. QED BY <2>3, <2>4, <2>5 DEF Dropped
<1>7. ASSUME NEW r \in Report, SendSucceeds(r)
      PROVE  metrics'.total = metrics'.success + metrics'.failed + Undone' + Dropped'
    <2>1. /\ metrics'.total = metrics.total
          /\ metrics'.success = metrics.success + 1 /\ metrics'.failed = metrics.failed
        BY <1>0, <1>7, Counting DEF SendSucceeds
    <2>2. Undone' = Undone - 1 /\ Dropped' = Dropped
        BY <1>0, <1>6, <1>7 DEF SendSucceeds, TypeOK
    <2>. QED BY <1>0, <2>1, <2>2 DEF Sum
<1>8. ASSUME NEW r \in Report, SendFails(r)
      PROVE  metrics'.total = metrics'.success + metrics'.failed + Undone' + Dropped'
    <2>1. CASE attempt[r] = MaxRetries
        <3>1. /\ metrics'.total = metrics.total
              /\ metrics'.success = metrics.success /\ metrics'.failed = metrics.failed + 1
            BY <1>0, <1>8, <2>1, Counting DEF SendFails
        <3>2. Undone' = Undone - 1 /\ Dropped' = Dropped
            BY <1>0, <1>6, <1>8, <2>1 DEF SendFails, TypeOK
        <3>. QED BY <1>0, <3>1, <3>2 DEF Sum
    <2>2. CASE attempt[r] # MaxRetries
        <3>1. /\ pc[r] = "sending" /\ pc' = [pc EXCEPT ![r] = "waiting"]
              /\ result' = result /\ metrics' = metrics
            BY <1>8, <2>2 DEF SendFails
        <3>2. Undecided' = Undecided /\ GivenUp' = GivenUp
            BY <1>0, <1>2, <1>3, <3>1 DEF GivenUp, TypeOK
        <3>. QED BY <1>4, <3>1, <3>2
    <2>. QED BY <2>1, <2>2
<1>9. ASSUME NEW r \in Report, GivesUp(r)
      PROVE  metrics'.total = metrics'.success + metrics'.failed + Undone' + Dropped'
    <2>1. metrics' = metrics
        BY <1>9 DEF GivesUp
    <2>2. Undone' = Undone - 1 /\ Dropped' = Dropped + 1
        BY <1>0, <1>6, <1>9 DEF GivesUp, TypeOK
    <2>. QED BY <1>0, <2>1, <2>2 DEF Sum
<1>10. ASSUME NEW r \in Report, DelayPasses(r) \/ GetEntry(r) \/ SetStatus(r) \/ RemoveEntry(r)
       PROVE  metrics'.total = metrics'.success + metrics'.failed + Undone' + Dropped'
    <2>1. /\ metrics' = metrics /\ result' = result
          /\ \A n \in Report : n # r => pc'[n] = pc[n]
          /\ \/ pc[r] = "waiting" /\ pc'[r] = "sending"
             \/ /\ pc[r] \in {"result", "found", "remove"}
                /\ pc'[r] \in {"found", "remove", "returned"}
        BY <1>0, <1>10 DEF DelayPasses, GetEntry, SetStatus, RemoveEntry, TypeOK
    <2>2. Undecided' = Undecided
        BY <1>2, <1>3, <2>1
    <2>3. GivenUp' = GivenUp
        BY <2>1 DEF GivenUp
    <2>. QED BY <1>4, <2>1, <2>2, <2>3
<1>11. CASE Exit
    <2>1. \A r \in Report : pc'[r] \in {"idle", "gone"} /\ (pc'[r] = "idle" => pc[r] = "idle")
        BY <1>0, <1>11 DEF Exit
    <2>2. \A r \in Report : pc'[r] = "idle" => result'[r] = "none"
        BY <1>0, <1>1 DEF CallResults
    <2>3. Undecided' = {} /\ GivenUp' = {}
        BY <1>3, <2>1, <2>2 DEF GivenUp
    <2>4. Undone' = 0 /\ Dropped' = 0
        BY <2>3, FS_EmptySet DEF Undone, Dropped
    <2>5. metrics'.total = 0 /\ metrics'.success = 0 /\ metrics'.failed = 0
        BY <1>11 DEF Exit, NoMetrics
    <2>. QED BY <2>4, <2>5
<1>12. CASE UNCHANGED <<pc, result, metrics>>
    BY <1>2, <1>3, <1>4, <1>12 DEF GivenUp
<1>. QED BY <1>5, <1>7, <1>8, <1>9, <1>10, <1>11, <1>12
    DEF Next, vars, TimePasses, ReportStep, Cleanup, Clear, UpdateConfig, StartClient, Stop,
        RoutineExits, Persist, PersistFails

LEMMA InitClient == Init => ClientInv
<1>. SUFFICES ASSUME Init PROVE ClientInv
    OBVIOUS
<1>1. TypeOK
    <2>1. 0 \in 0..MaxTime /\ 0 \in 0..MaxStarts /\ 0 \in 0..MaxRetries
        BY ClientAssumption
    <2>2. metrics \in [total : Nat, success : Nat, failed : Nat]
        BY DEF Init, NoMetrics
    <2>3. /\ created \in [Report -> 0..MaxTime] /\ attempt \in [Report -> 0..MaxRetries]
          /\ cache \in [Key -> Report \cup {NoReport}] /\ file \in [Key -> Report \cup {NoReport}]
        BY <2>1 DEF Init, EmptyCache
    <2>. QED BY <2>1, <2>2, <2>3 DEF Init, TypeOK
<1>2. Filed(cache) /\ Filed(file) /\ FileSettled /\ DownIsEmpty
    BY DEF Init, Filed, FileSettled, DownIsEmpty, EmptyCache
<1>3. CallResults /\ DeliveredReportsLeave
    BY DEF Init, CallResults, DeliveredReportsLeave, Busy
<1>4. MetricsAddUp
    <2>1. Undecided = {} /\ GivenUp = {}
        BY DEF Init, Undecided, InProgress, GivenUp, Busy
    <2>2. Cardinality({}) = 0
        BY FS_EmptySet
    <2>3. metrics.total = 0 /\ metrics.success = 0 /\ metrics.failed = 0
        BY DEF Init, NoMetrics
    <2>. QED BY <2>1, <2>2, <2>3 DEF MetricsAddUp
<1>. QED BY <1>1, <1>2, <1>3, <1>4 DEF ClientInv

LEMMA ClientStep == ClientInv /\ [Next]_vars => ClientInv'
<1>1. ASSUME ClientInv, [Next]_vars PROVE TypeOK'
    BY <1>1, TypeStep DEF ClientInv
<1>. QED BY <1>1, FiledStep, SettledStep, CallResultsStep, MetricsStep DEF ClientInv

LEMMA ClientInvariant == Spec => []ClientInv
BY InitClient, ClientStep, PTL DEF Spec

-----------------------------------------------------------------------------
(* Theorems *)

(* Every variable keeps its type: an entry is one of the reports, no       *)
(* attempt is made beyond MaxRetries.                                      *)
THEOREM ClientTypes == Spec => []TypeOK
<1>1. ClientInv => TypeOK
    BY DEF ClientInv
<1>. QED BY ClientInvariant, <1>1, PTL

(* A report that was delivered is not in the cache when its call has       *)
(* returned, nor loaded again by a later process, but for a report whose   *)
(* call found an expired entry - whatever the ages and sizes it is given   *)
(* later, and also where reports share the ID of their entries             *)
(* (client.go:149-151).                                                    *)
THEOREM DeliveredReportsAreGone == Spec => []DeliveredReportsLeave
<1>1. ClientInv => DeliveredReportsLeave
    BY DEF ClientInv
<1>. QED BY ClientInvariant, <1>1, PTL

(* Every report of a process is counted as success or failure, in          *)
(* progress, or given up by its context (client.go:135-137, 184-193,       *)
(* 206-209, 228-230).                                                      *)
THEOREM MetricsAreComplete == Spec => []MetricsAddUp
<1>1. ClientInv => MetricsAddUp
    BY DEF ClientInv
<1>. QED BY ClientInvariant, <1>1, PTL

-----------------------------------------------------------------------------
(* The limit of the cache.  A limit that is lowered, or set where there    *)
(* was none, leaves a cache or a file that is already larger; while it is  *)
(* only raised, neither grows beyond it.                                   *)
OnlyRaised == [][0 < limit /\ limit <= limit']_limit

LEMMA SizesStep ==
    ASSUME ClientInv, SizesWithinLimit, [Next]_vars,
           limit' = limit \/ (0 < limit /\ limit <= limit')
    PROVE  SizesWithinLimit'
<1>. USE DEF processVars, entryVars, callVars
<1>0. /\ TypeOK /\ TypeOK' /\ cache \in Caches /\ file \in Caches
      /\ cache' \in Caches /\ file' \in Caches
      /\ created \in [Report -> Int] /\ limit \in Int /\ limit' \in Int
      /\ \A r \in Report : KeyOf[r] \in Key
    BY CacheChanges, TypeStep, ClientAssumption DEF ClientInv, TypeOK, Caches
<1>1. /\ SizeOf(cache) \in Nat /\ SizeOf(file) \in Nat
      /\ SizeOf(cache') \in Nat /\ SizeOf(file') \in Nat
    BY <1>0, BytesType
<1>. SUFFICES ASSUME limit' > 0 PROVE SizeOf(cache') <= limit' /\ SizeOf(file') <= limit'
    BY DEF SizesWithinLimit
<1>2. limit > 0 /\ limit <= limit' /\ SizeOf(cache) <= limit /\ SizeOf(file) <= limit
    BY <1>0 DEF SizesWithinLimit
<1>3. SizeOf(cache') <= limit'
    <2>1. CASE Part(cache', cache)
        <3>1. SizeOf(cache') <= SizeOf(cache)
            BY <1>0, <2>1, PartIsSmaller
        <3>. QED BY <1>0, <1>1, <1>2, <3>1
    <2>2. CASE Part(cache', file)
        <3>1. SizeOf(cache') <= SizeOf(file)
            BY <1>0, <2>2, PartIsSmaller
        <3>. QED BY <1>0, <1>1, <1>2, <3>1
    <2>3. ASSUME NEW r \in Report, ReportBegin(r) PROVE SizeOf(cache') <= limit'
        <3>1. cache' \in AddResults(cache, KeyOf[r], r, created, limit) /\ KeyOf[r] \in Key
            BY <1>0, <2>3 DEF ReportBegin
        <3>2. SizeOf(cache') <= limit
            BY <1>0, <1>2, <3>1, AddFacts
        <3>. QED BY <1>0, <1>1, <1>2, <3>2
    <2>. QED BY <1>0, <2>1, <2>2, <2>3, CacheStep
<1>4. SizeOf(file') <= limit'
    <2>1. file' = file \/ file' = cache
        BY DEF Next, vars, TimePasses, ReportBegin, ReportStep, SendSucceeds, SendFails,
            DelayPasses, GivesUp, GetEntry, SetStatus, RemoveEntry, Cleanup, Clear,
            UpdateConfig, StartClient, Stop, RoutineExits, Persist, PersistFails, Exit
    <2>. QED BY <1>0, <1>1, <1>2, <2>1
<1>. QED BY <1>3, <1>4

LEMMA SizesInvariant == Spec /\ OnlyRaised => []SizesWithinLimit
<1>1. Init => SizesWithinLimit
    <2>. SUFFICES ASSUME Init, limit > 0 PROVE SizeOf(cache) <= limit /\ SizeOf(file) <= limit
        BY DEF SizesWithinLimit
    <2>1. cache \in Caches /\ file = cache /\ \A k \in Key : cache[k] = NoReport
        BY DEF Init, EmptyCache, Caches
    <2>2. SizeOf(cache) = 0
        BY <2>1, NothingIsSmall
    <2>3. limit \in Int
        BY ClientAssumption DEF Init
    <2>. QED BY <2>1, <2>2, <2>3
<1>2. ClientInv /\ SizesWithinLimit /\ [Next]_vars /\ [0 < limit /\ limit <= limit']_limit
        => SizesWithinLimit'
    BY SizesStep
<1>. QED BY ClientInvariant, <1>1, <1>2, PTL DEF Spec, OnlyRaised

(* The cache never grows beyond its limit, whatever is added, replaced,    *)
(* cleaned up, saved and loaded again, as long as the limit is positive    *)
(* and only raised (cache_manager.go:95-101, 283-324, 453-458).            *)
THEOREM CacheStaysWithinLimit == Spec /\ OnlyRaised => []CacheWithinLimit
<1>1. SizesWithinLimit => CacheWithinLimit
    BY DEF SizesWithinLimit, CacheWithinLimit
<1>. QED BY SizesInvariant, <1>1, PTL

(* The step of a cache that is already beyond its limit                    *)
GrowthIsLimited ==
    [][ /\ limit > 0 => SizeOf(cache') <= limit \/ SizeOf(cache') <= SizeOf(cache) \/ StartClient
        /\ limit >= 0 /\ Cleanup => SizeOf(cache') <= limit]_vars

(* Add may make room and still refuses what is too large: the cache after  *)
(* it is within the limit or no larger than before.                        *)
LEMMA GrowthStep ==
    ASSUME TypeOK, TypeOK', [Next]_vars
    PROVE  /\ limit > 0 => SizeOf(cache') <= limit \/ SizeOf(cache') <= SizeOf(cache) \/ StartClient
           /\ limit >= 0 /\ Cleanup => SizeOf(cache') <= limit
<1>1. /\ cache \in Caches /\ cache' \in Caches /\ file \in Caches
      /\ created \in [Report -> Int] /\ limit \in Int
      /\ \A r \in Report : KeyOf[r] \in Key
    BY CacheChanges DEF TypeOK, Caches
<1>2. ASSUME Part(cache', cache) PROVE SizeOf(cache') <= SizeOf(cache)
    BY <1>1, <1>2, PartIsSmaller
<1>3. ASSUME NEW r \in Report, ReportBegin(r), limit > 0
      PROVE  SizeOf(cache') <= limit \/ SizeOf(cache') <= SizeOf(cache)
    <2>1. cache' \in AddResults(cache, KeyOf[r], r, created, limit) /\ KeyOf[r] \in Key
        BY <1>1, <1>3 DEF ReportBegin
    <2>2. SizeOf(cache') <= limit \/ cache' = cache
        BY <1>1, <1>3, <2>1, AddFacts
    <2>3. cache' = cache => SizeOf(cache') <= SizeOf(cache)
        <3>1. SizeOf(cache) <= SizeOf(cache)
            BY <1>1, BytesType
        <3>. QED BY <3>1, Zenon
    <2>. QED BY <2>2, <2>3
<1>4. limit >= 0 /\ Cleanup => SizeOf(cache') <= limit
    BY <1>1, CleanupFacts DEF Cleanup
<1>. QED BY <1>2, <1>3, <1>4, CacheStep

(* With any limits, raised or lowered while reports are made: a cache that *)
(* is beyond its limit, because that was lowered or the file that was      *)
(* loaded is larger, does not grow further, and the next cleanup brings it *)
(* within the limit (cache_manager.go:95-101, 283-324, 330-378).           *)
THEOREM GrowthStaysLimited == Spec => GrowthIsLimited
<1>1. TypeOK /\ TypeOK' /\ [Next]_vars =>
        [ /\ limit > 0 => SizeOf(cache') <= limit \/ SizeOf(cache') <= SizeOf(cache) \/ StartClient
          /\ limit >= 0 /\ Cleanup => SizeOf(cache') <= limit]_vars
    BY GrowthStep
<1>. QED BY ClientTypes, <1>1, PTL DEF Spec, GrowthIsLimited

-----------------------------------------------------------------------------
(* Reports that are not delivered *)

LEMMA OwnStep ==
    ASSUME ClientInv, OwnEntries, [Next]_vars
    PROVE  OwnEntries'
<1>. USE DEF processVars, entryVars, callVars
<1>0. TypeOK /\ Filed(cache) /\ OwnEntries /\ CallResults /\ cache \in Caches
    BY CacheChanges DEF ClientInv
<1>. SUFFICES ASSUME NEW r \in Report
              PROVE  /\ pc'[r] = "found" => got'[r] \in Report /\ KeyOf[got'[r]] = KeyOf[r]
                     /\ pc'[r] = "remove" /\ ~IdIsShared(r) => status'[r] = "success"
    BY DEF OwnEntries, IdIsShared
<1>1. /\ pc[r] = "found" => got[r] \in Report /\ KeyOf[got[r]] = KeyOf[r]
      /\ pc[r] = "remove" /\ ~IdIsShared(r) => status[r] = "success"
    BY <1>0 DEF OwnEntries
<1>2. CASE GetEntry(r)
    <2>1. pc'[r] = "found" => got'[r] = cache[KeyOf[r]] /\ cache[KeyOf[r]] # NoReport
        BY <1>0, <1>2 DEF GetEntry, TypeOK
    <2>2. KeyOf[r] \in Key
        BY ClientAssumption
    <2>3. cache[KeyOf[r]] # NoReport =>
            cache[KeyOf[r]] \in Report /\ KeyOf[cache[KeyOf[r]]] = KeyOf[r]
        BY <1>0, <2>2 DEF Filed, Caches
    <2>4. pc'[r] # "remove"
        BY <1>0, <1>2 DEF GetEntry, TypeOK
    <2>. QED BY <2>1, <2>3, <2>4
<1>3. CASE SetStatus(r)
    <2>1. pc'[r] # "found" /\ (~IdIsShared(r) => got[r] = r)
        BY <1>0, <1>1, <1>3 DEF SetStatus, IdIsShared, TypeOK
    <2>2. pc'[r] = "remove" => result[r] = "success"
        BY <1>0, <1>3 DEF SetStatus, TypeOK
    <2>. QED BY <1>0, <1>3, <2>1, <2>2 DEF SetStatus, StatusOf, TypeOK
<1>4. CASE ReportBegin(r) \/ SendSucceeds(r) \/ SendFails(r) \/ DelayPasses(r) \/ GivesUp(r)
           \/ RemoveEntry(r)
    BY <1>0, <1>4 DEF ReportBegin, SendSucceeds, SendFails, DelayPasses, GivesUp,
        RemoveEntry, TypeOK
<1>5. ASSUME NEW n \in Report, n # r, ReportBegin(n)
      PROVE  pc'[r] = pc[r] /\ got'[r] = got[r] /\ status'[r] = status[r]
    BY <1>0, <1>5 DEF ReportBegin, TypeOK
<1>6. ASSUME NEW n \in Report, n # r, ReportStep(n)
      PROVE  /\ pc'[r] = pc[r] /\ got'[r] = got[r]
             /\ ~IdIsShared(r) => status'[r] = status[r]
    <2>1. pc'[r] = pc[r] /\ got'[r] = got[r]
        BY <1>0, <1>6 DEF ReportStep, SendSucceeds, SendFails, DelayPasses,
            GivesUp, GetEntry, SetStatus, RemoveEntry, TypeOK
    <2>2. SetStatus(n) /\ ~IdIsShared(r) => got[n] # r
        BY <1>0, <1>6 DEF SetStatus, OwnEntries, IdIsShared
    <2>3. ~IdIsShared(r) => status'[r] = status[r]
        BY <1>0, <1>6, <2>2 DEF ReportStep, SendSucceeds, SendFails, DelayPasses,
            GivesUp, GetEntry, SetStatus, RemoveEntry, TypeOK
    <2>. QED BY <2>1, <2>3
<1>7. CASE Exit
    BY <1>7 DEF Exit
<1>8. CASE UNCHANGED <<pc, got, status>>
    BY <1>1, <1>8
<1>. QED BY <1>1, <1>2, <1>3, <1>4, <1>5, <1>6, <1>7, <1>8
    DEF Next, vars, TimePasses, ReportStep, Cleanup, Clear, UpdateConfig, StartClient, Stop,
        RoutineExits, Persist, PersistFails

(* Calls have their own entries, unless other reports have their IDs. *)
LEMMA OwnInvariant == Spec => []OwnEntries
<1>1. Init => OwnEntries
    BY DEF Init, OwnEntries
<1>2. ClientInv /\ OwnEntries /\ [Next]_vars => OwnEntries'
    BY OwnStep
<1>. QED BY ClientInvariant, <1>1, <1>2, PTL DEF Spec

\* Why a report may leave the cache before it expires
MayLeave(r) ==
    \/ process' = "down"
    \/ Clear
    \/ Cleanup /\ SizeOf(NoOlder(r)) > limit
    \/ \E n \in Report : ReportBegin(n) /\ SizeOf(NoOlder(r)) + Size[n] > limit
    \/ OtherTakesPlace(r)

LEMMA LeaveStep ==
    ASSUME ClientInv, OwnEntries, [Next]_vars,
           NEW r \in Report, Holds(cache, r), ~Holds(cache', r), ~Expired(r),
           status[r] # "success"
    PROVE  MayLeave(r)
<1>. USE DEF processVars, entryVars, callVars
<1>0. /\ TypeOK /\ Filed(cache) /\ DownIsEmpty /\ OwnEntries /\ cache \in Caches
      /\ created \in [Report -> Int] /\ limit \in Int
      /\ \A n \in Report : KeyOf[n] \in Key
    BY CacheChanges DEF ClientInv
<1>1. PICK k \in Key : cache[k] = r /\ cache'[k] # r
    BY DEF Holds
<1>2. r # NoReport /\ k = KeyOf[r] /\ pc[r] # "idle" /\ process # "down"
    BY <1>0, <1>1, CacheAssumption DEF Filed, DownIsEmpty, EmptyCache
<1>3. ASSUME NEW n \in Report, ReportBegin(n), KeyOf[n] # k PROVE MayLeave(r)
    <2>1. n # r
        BY <1>2, <1>3
    <2>2. cache' \in AddResults(cache, KeyOf[n], n, created, limit)
        BY <1>3 DEF ReportBegin
    <2>3. cache'[k] = NoReport
        BY <1>0, <1>1, <1>3, <2>1, <2>2, AddFacts
    <2>4. SizeOf(YoungPart(cache, created, cache[k])) + Size[n] > limit
        BY <1>0, <1>1, <1>2, <1>3, <2>1, <2>2, <2>3, AddFacts
    <2>5. YoungPart(cache, created, cache[k]) = NoOlder(r)
        BY <1>1 DEF YoungPart, NoOlder
    <2>. QED BY <1>3, <2>4, <2>5 DEF MayLeave
<1>4. ASSUME NEW n \in Report, ReportBegin(n), KeyOf[n] = k PROVE MayLeave(r)
    <2>1. n # r
        BY <1>2, <1>4 DEF ReportBegin
    <2>. QED BY <1>2, <1>4, <2>1 DEF MayLeave, OtherTakesPlace, IdIsShared
<1>5. ASSUME NEW n \in Report, RemoveEntry(n) PROVE MayLeave(r)
    <2>1. cache' = Without(cache, KeyOf[n]) /\ pc[n] = "remove"
        BY <1>5 DEF RemoveEntry
    <2>2. KeyOf[n] = KeyOf[r]
        BY <1>0, <1>1, <1>2, <2>1 DEF Without, Caches
    <2>3. IdIsShared(r)
        BY <1>0, <2>1, <2>2 DEF OwnEntries, IdIsShared
    <2>. QED BY <1>5, <2>2, <2>3 DEF MayLeave, OtherTakesPlace
<1>6. CASE Cleanup
    <2>. DEFINE old == {n \in Report : Expired(n)}
    <2>1. cache' \in CleanupResults(cache, old, created, limit)
        BY <1>6 DEF Cleanup
    <2>2. cache[k] \notin old
        BY <1>1
    <2>. HIDE DEF old
    <2>3. cache'[k] = NoReport
        <3>1. Part(cache', cache)
            BY <1>0, <2>1, CleanupFacts
        <3>. QED BY <1>1, <3>1 DEF Part
    <2>4. SizeOf(YoungPart(cache, created, cache[k])) > limit
        BY <1>0, <1>1, <1>2, <2>1, <2>2, <2>3, CleanupFacts
    <2>5. YoungPart(cache, created, cache[k]) = NoOlder(r)
        BY <1>1 DEF YoungPart, NoOlder
    <2>. QED BY <1>6, <2>4, <2>5 DEF MayLeave
<1>7. CASE StartClient
    BY <1>2, <1>7 DEF StartClient
<1>8. CASE Clear \/ Exit
    BY <1>8 DEF Exit, MayLeave
<1>9. CASE UNCHANGED cache
    BY <1>1, <1>9
<1>. QED BY <1>3, <1>4, <1>5, <1>6, <1>7, <1>8, <1>9
    DEF Next, vars, TimePasses, ReportStep, SendSucceeds, SendFails, DelayPasses, GivesUp,
        GetEntry, SetStatus, UpdateConfig, Stop, RoutineExits, Persist, PersistFails

(* With any limits, raised, lowered or none, and any IDs: a report that is *)
(* waiting for its delivery, or failed, leaves the cache before it expires *)
(* only when the process ends, Clear is called, the entries no older than  *)
(* it leave no room for a new one or are beyond a limit that cleanup       *)
(* enforces, so that nothing younger is kept in its place, or another      *)
(* report has its ID (client.go:120-152, cache_manager.go:309-324,         *)
(* 330-378).                                                               *)
UndeliveredLeaves(r) ==
    Holds(cache, r) /\ ~Holds(cache', r) /\ status[r] # "success" /\ ~Expired(r)
UndeliveredLeaveForCause ==
    [][\A r \in Report : UndeliveredLeaves(r) => MayLeave(r)]_vars

(* Nothing that is not delivered leaves for another cause. *)
THEOREM UndeliveredReportsLeaveForCause == Spec => UndeliveredLeaveForCause
<1>. DEFINE Kept == \A r \in Report : UndeliveredLeaves(r) => MayLeave(r)
<1>1. ClientInv /\ OwnEntries /\ [Next]_vars => [Kept]_vars
    BY LeaveStep DEF UndeliveredLeaves
<1>2. UndeliveredLeaveForCause <=> [][Kept]_vars
    BY DEF UndeliveredLeaveForCause
<1>. HIDE DEF Kept
<1>. QED BY ClientInvariant, OwnInvariant, <1>1, <1>2, PTL DEF Spec

Limited == limit > 0

(* A report whose sending failed is kept until it expires: it leaves the   *)
(* cache only when the process ends, Clear is called, the entries no older *)
(* than it leave no room for a new one, or another report has its ID       *)
(* (client.go:120, 142-152, cache_manager.go:309-324).                     *)
THEOREM FailedReportsAreKept ==
    ASSUME FirstLimit > 0
    PROVE  Spec /\ OnlyRaised => FailedReportsKept
<1>1. Init => Limited
    BY DEF Init, Limited
<1>2. ClientInv /\ ClientInv' /\ Limited /\ [0 < limit /\ limit <= limit']_limit => Limited'
    <2>1. ClientInv /\ ClientInv' => limit \in Int /\ limit' \in Int
        BY ClientAssumption DEF ClientInv, TypeOK
    <2>. QED BY <2>1 DEF Limited
<1>. DEFINE Kept == \A r \in Report :
                (Holds(cache, r) /\ ~Holds(cache', r) /\ status[r] = "failed" /\ ~Expired(r)) =>
                    \/ process' = "down"
                    \/ Clear
                    \/ \E n \in Report : ReportBegin(n) /\ SizeOf(NoOlder(r)) + Size[n] > limit
                    \/ OtherTakesPlace(r)
<1>3. ClientInv /\ SizesWithinLimit /\ Limited => \A r \in Report : SizeOf(NoOlder(r)) <= limit
    <2>. SUFFICES ASSUME ClientInv, SizesWithinLimit, Limited, NEW r \in Report
                  PROVE  SizeOf(NoOlder(r)) <= limit
        OBVIOUS
    <2>1. cache \in Caches /\ limit \in Int /\ SizeOf(cache) <= limit
        BY CacheChanges DEF ClientInv, SizesWithinLimit, Limited
    <2>2. NoOlder(r) \in Caches /\ Part(NoOlder(r), cache)
        BY <2>1 DEF NoOlder, Caches, Part
    <2>. QED BY <2>1, <2>2, PartIsSmaller, BytesType
<1>4. ClientInv /\ SizesWithinLimit /\ OwnEntries /\ Limited /\ [Next]_vars => [Kept]_vars
    <2>. SUFFICES ASSUME ClientInv, SizesWithinLimit, OwnEntries, Limited, [Next]_vars,
                         NEW r \in Report, Holds(cache, r), ~Holds(cache', r),
                         status[r] = "failed", ~Expired(r),
                         ~(process' = "down"), ~Clear, ~OtherTakesPlace(r)
                  PROVE  \E n \in Report : ReportBegin(n) /\ SizeOf(NoOlder(r)) + Size[n] > limit
        OBVIOUS
    <2>1. MayLeave(r)
        BY LeaveStep
    <2>2. SizeOf(NoOlder(r)) <= limit
        BY <1>3
    <2>3. SizeOf(NoOlder(r)) \in Nat /\ limit \in Int
        <3>1. cache \in Caches /\ limit \in Int
            BY CacheChanges DEF ClientInv
        <3>2. NoOlder(r) \in Caches
            BY <3>1 DEF NoOlder, Caches
        <3>. QED BY <3>1, <3>2, BytesType
    <2>. QED BY <2>1, <2>2, <2>3 DEF MayLeave
<1>5. FailedReportsKept <=> [][Kept]_vars
    BY DEF FailedReportsKept
<1>. HIDE DEF Kept
<1>6. Spec => []OwnEntries
    BY OwnInvariant
<1>7. Spec /\ OnlyRaised => []Limited
    BY ClientInvariant, <1>1, <1>2, PTL DEF Spec, OnlyRaised
<1>8. Spec /\ OnlyRaised => [][Kept]_vars
    BY ClientInvariant, SizesInvariant, <1>4, <1>6, <1>7, PTL DEF Spec
<1>. QED BY <1>5, <1>8, PTL
=============================================================================
