--------------------------- MODULE OperatorLemmas ---------------------------
(***************************************************************************)
(* Facts about SumFunction and SumFunctionOnSet of the community modules,  *)
(* which the specifications use to count permits, executions and bytes:    *)
(* what the sum of an empty set is, what one more element adds, and that   *)
(* the order in which the elements are taken does not matter.  Both are    *)
(* folds by a recursive function, so each fact is proved by a least        *)
(* counterexample.  The last lemmas say what is left of a sequence after   *)
(* RemoveAt, and that an injection of 1..n into itself is onto.            *)
(***************************************************************************)
EXTENDS SequencesExt, FiniteSetTheorems, TLAPS

Taken(s) == CHOOSE x \in s : TRUE

SumBody(fun, g, s) == IF s = {} THEN 0 ELSE fun[Taken(s)] + g[s \ {Taken(s)}]

\* g is the recursive function the fold over S is defined by
SumRecursion(fun, g, S) == g = [s \in SUBSET S |-> SumBody(fun, g, s)]

\* The subsets of S with at most n elements
SubsetsUpTo(S, n) == {s \in SUBSET S : Cardinality(s) <= n}

LEMMA TakenIsIn ==
    ASSUME NEW s, s # {}
    PROVE  Taken(s) \in s
BY DEF Taken

(* The recursive function exists: it can be extended from the subsets with *)
(* n elements to those with one more.                                      *)
LEMMA FoldExists ==
    ASSUME NEW fun, NEW S, IsFiniteSet(S)
    PROVE  \E g : SumRecursion(fun, g, S)
<1> DEFINE Good(n) == \E g : g = [s \in SubsetsUpTo(S, n) |-> SumBody(fun, g, s)]
           Bad == {n \in Nat : ~Good(n)}
<1>1. \A s \in SUBSET S : IsFiniteSet(s) /\ Cardinality(s) \in Nat /\ Cardinality(s) <= Cardinality(S)
  BY FS_Subset, FS_CardinalityType
<1>2. Good(0)
  <2> DEFINE g == [s \in SubsetsUpTo(S, 0) |-> 0]
  <2>1. \A s \in SubsetsUpTo(S, 0) : s = {}
    BY <1>1, FS_EmptySet DEF SubsetsUpTo
  <2>2. g = [s \in SubsetsUpTo(S, 0) |-> SumBody(fun, g, s)]
    BY <2>1 DEF SumBody
  <2> QED  BY <2>2
<1>3. ASSUME NEW n \in Nat, Good(n)
      PROVE  Good(n + 1)
  <2>1. PICK g : g = [s \in SubsetsUpTo(S, n) |-> SumBody(fun, g, s)]
    BY <1>3
  <2> DEFINE h == [s \in SubsetsUpTo(S, n + 1) |-> IF s \in SubsetsUpTo(S, n) THEN g[s] ELSE SumBody(fun, g, s)]
  <2>2. \A s \in SubsetsUpTo(S, n + 1) : s # {} => s \ {Taken(s)} \in SubsetsUpTo(S, n)
    BY <1>1, TakenIsIn, FS_RemoveElement DEF SubsetsUpTo
  <2>3. SubsetsUpTo(S, n) \subseteq SubsetsUpTo(S, n + 1)
    BY <1>1 DEF SubsetsUpTo
  <2>4. \A s \in SubsetsUpTo(S, n) : h[s] = g[s]
    BY <2>3
  <2>5. \A s \in SubsetsUpTo(S, n + 1) : SumBody(fun, h, s) = SumBody(fun, g, s)
    <3>1. \A s \in SubsetsUpTo(S, n + 1) : s # {} => h[s \ {Taken(s)}] = g[s \ {Taken(s)}]
      BY <2>2, <2>4
    <3> HIDE DEF h
    <3> QED  BY <3>1 DEF SumBody
  <2>6. \A s \in SubsetsUpTo(S, n) : g[s] = SumBody(fun, g, s)
    BY <2>1
  <2> HIDE DEF h
  <2>7. h = [s \in SubsetsUpTo(S, n + 1) |-> SumBody(fun, h, s)]
    <3>1. \A s \in SubsetsUpTo(S, n + 1) : h[s] = SumBody(fun, h, s)
      BY <2>5, <2>6 DEF h
    <3>2. h = [s \in SubsetsUpTo(S, n + 1) |-> h[s]]
      BY DEF h
    <3> QED  BY <3>1, <3>2
  <2> QED  BY <2>7
<1>4. \A n \in Nat : Good(n)
  <2>1. SUFFICES ASSUME Bad # {} PROVE FALSE
    OBVIOUS
  <2> HIDE DEF Good
  <2>2. PICK m \in Bad : \A k \in Bad : ~(<<k, m>> \in OpToRel(<, Nat))
    <3>1. Bad \subseteq Nat
      OBVIOUS
    <3> HIDE DEF Bad
    <3> QED  BY <3>1, <2>1, WFMin, NatLessThanWellFounded
  <2>3. m - 1 \in Nat /\ m - 1 < m
    BY <1>2
  <2>4. m - 1 \notin Bad
    BY <2>2, <2>3 DEF OpToRel
  <2>5. Good(m)
    BY <2>3, <2>4, <1>3
  <2> QED  BY <2>2, <2>5
<1>5. SubsetsUpTo(S, Cardinality(S)) = SUBSET S
  BY <1>1 DEF SubsetsUpTo
<1>6. Good(Cardinality(S))
  BY <1>4, FS_CardinalityType
<1> QED  BY <1>5, <1>6 DEF SumRecursion

(* What it is at every subset of a finite set does not depend on the set.  *)
LEMMA FoldIsLocal ==
    ASSUME NEW fun, NEW S, IsFiniteSet(S), NEW T \in SUBSET S,
           NEW g, SumRecursion(fun, g, S), NEW h, SumRecursion(fun, h, T)
    PROVE  \A s \in SUBSET T : g[s] = h[s]
<1> DEFINE Bad == {s \in SUBSET T : g[s] # h[s]}
<1> SUFFICES ASSUME Bad # {} PROVE FALSE
  OBVIOUS
<1>1. FiniteSubsetsOf(T) = SUBSET T
  BY FS_Subset, FS_FiniteSubsetsOfFinite
<1>2. PICK m \in Bad : \A s \in Bad : ~(<<s, m>> \in StrictSubsetOrdering(T))
  <2>1. Bad \subseteq FiniteSubsetsOf(T)
    BY <1>1
  <2> HIDE DEF Bad
  <2> QED  BY <2>1, WFMin, FS_StrictSubsetOrderingWellFounded
<1>3. g[m] = SumBody(fun, g, m) /\ h[m] = SumBody(fun, h, m)
  BY DEF SumRecursion
<1>4. m # {}
  BY <1>3 DEF SumBody
<1>5. m \ {Taken(m)} \notin Bad
  BY <1>2, <1>4, TakenIsIn DEF StrictSubsetOrdering
<1> QED  BY <1>3, <1>5 DEF SumBody

LEMMA SumUnfolds ==
    ASSUME NEW fun, NEW S, IsFiniteSet(S)
    PROVE  \E g : SumRecursion(fun, g, S) /\ SumFunctionOnSet(fun, S) = g[S]
<1>1. PICK g : SumRecursion(fun, g, S)
  BY FoldExists
<1>2. g = [s \in SUBSET S |->
             IF s = {} THEN 0
             ELSE fun[CHOOSE x \in s : TRUE] + g[s \ {CHOOSE x \in s : TRUE}]]
  BY <1>1 DEF SumRecursion, SumBody, Taken
<1>3. \E h : /\ h = [s \in SUBSET S |->
                      IF s = {} THEN 0
                      ELSE fun[CHOOSE x \in s : TRUE] + h[s \ {CHOOSE x \in s : TRUE}]]
             /\ SumFunctionOnSet(fun, S) = h[S]
  BY <1>2 DEF SumFunctionOnSet, FoldFunctionOnSet, MapThenFoldSet
<1> QED  BY <1>3 DEF SumRecursion, SumBody, Taken

LEMMA SumOfNone ==
    ASSUME NEW fun
    PROVE  SumFunctionOnSet(fun, {}) = 0
<1>1. PICK g : SumRecursion(fun, g, {}) /\ SumFunctionOnSet(fun, {}) = g[{}]
  BY SumUnfolds, FS_EmptySet
<1>2. g[{}] = SumBody(fun, g, {})
  BY <1>1 DEF SumRecursion
<1> QED  BY <1>1, <1>2 DEF SumBody

LEMMA SumOfTaken ==
    ASSUME NEW fun, NEW S, IsFiniteSet(S), S # {}
    PROVE  SumFunctionOnSet(fun, S) = fun[Taken(S)] + SumFunctionOnSet(fun, S \ {Taken(S)})
<1>1. PICK g : SumRecursion(fun, g, S) /\ SumFunctionOnSet(fun, S) = g[S]
  BY SumUnfolds
<1> DEFINE T == S \ {Taken(S)}
<1>2. IsFiniteSet(T) /\ T \in SUBSET S
  BY FS_RemoveElement
<1>3. PICK h : SumRecursion(fun, h, T) /\ SumFunctionOnSet(fun, T) = h[T]
  BY <1>2, SumUnfolds
<1>4. g[T] = h[T]
  BY <1>1, <1>2, <1>3, FoldIsLocal
<1>5. g[S] = fun[Taken(S)] + g[T]
  BY <1>1 DEF SumRecursion, SumBody
<1> QED  BY <1>1, <1>3, <1>4, <1>5

(* The sum of natural numbers is one. *)
LEMMA SumIsNat ==
    ASSUME NEW S, IsFiniteSet(S), NEW fun, \A x \in S : fun[x] \in Nat
    PROVE  SumFunctionOnSet(fun, S) \in Nat
<1> DEFINE Bad == {s \in SUBSET S : SumFunctionOnSet(fun, s) \notin Nat}
<1> SUFFICES ASSUME Bad # {} PROVE FALSE
  OBVIOUS
<1>1. PICK m \in Bad : \A s \in Bad : ~(<<s, m>> \in StrictSubsetOrdering(S))
  <2>1. Bad \subseteq FiniteSubsetsOf(S)
    BY FS_Subset, FS_FiniteSubsetsOfFinite
  <2> HIDE DEF Bad
  <2> QED  BY <2>1, WFMin, FS_StrictSubsetOrderingWellFounded
<1>2. IsFiniteSet(m) /\ m # {}
  <2>1. SumFunctionOnSet(fun, {}) \in Nat
    BY SumOfNone
  <2> QED  BY <2>1, FS_Subset
<1>3. m \ {Taken(m)} \notin Bad /\ fun[Taken(m)] \in Nat
  BY <1>1, <1>2, TakenIsIn DEF StrictSubsetOrdering
<1>4. SumFunctionOnSet(fun, m) = fun[Taken(m)] + SumFunctionOnSet(fun, m \ {Taken(m)})
  BY <1>2, SumOfTaken
<1> QED  BY <1>3, <1>4

(* Any element may be taken first. *)
LEMMA SumOfAny ==
    ASSUME NEW S, IsFiniteSet(S), NEW fun, \A x \in S : fun[x] \in Nat
    PROVE  \A x \in S : SumFunctionOnSet(fun, S) = fun[x] + SumFunctionOnSet(fun, S \ {x})
<1> DEFINE Sum(s) == SumFunctionOnSet(fun, s)
           Bad == {s \in SUBSET S : \E x \in s : Sum(s) # fun[x] + Sum(s \ {x})}
<1> SUFFICES ASSUME Bad # {} PROVE FALSE
  OBVIOUS
<1>1. PICK m \in Bad : \A s \in Bad : ~(<<s, m>> \in StrictSubsetOrdering(S))
  <2>1. Bad \subseteq FiniteSubsetsOf(S)
    BY FS_Subset, FS_FiniteSubsetsOfFinite
  <2> HIDE DEF Bad
  <2> QED  BY <2>1, WFMin, FS_StrictSubsetOrderingWellFounded
<1>2. PICK x \in m : Sum(m) # fun[x] + Sum(m \ {x})
  OBVIOUS
<1> DEFINE c == Taken(m)
<1>3. IsFiniteSet(m) /\ m # {} /\ c \in m
  BY FS_Subset, <1>2, TakenIsIn
<1>4. Sum(m) = fun[c] + Sum(m \ {c})
  BY <1>3, SumOfTaken
<1>5. x # c
  BY <1>2, <1>4
<1>6. m \ {c} \notin Bad /\ m \ {x} \notin Bad
  BY <1>1, <1>3 DEF StrictSubsetOrdering
<1>7. Sum(m \ {c}) = fun[x] + Sum((m \ {c}) \ {x})
  BY <1>5, <1>6
<1>8. Sum(m \ {x}) = fun[c] + Sum((m \ {x}) \ {c})
  BY <1>3, <1>5, <1>6
<1>9. (m \ {c}) \ {x} = (m \ {x}) \ {c}
  OBVIOUS
<1>10. Sum((m \ {x}) \ {c}) \in Nat
  BY <1>3, FS_RemoveElement, SumIsNat
<1>11. fun[x] \in Nat /\ fun[c] \in Nat
  BY <1>3
<1> DEFINE R == Sum((m \ {x}) \ {c})
<1>12. /\ Sum(m) = fun[c] + (fun[x] + R)
       /\ Sum(m \ {x}) = fun[c] + R
  BY <1>4, <1>7, <1>8, <1>9
<1>13. fun[c] + (fun[x] + R) = fun[x] + (fun[c] + R)
  <2> HIDE DEF R, c
  <2> QED  BY <1>10, <1>11 DEF R
<1> QED  BY <1>2, <1>12, <1>13

(* Functions that agree on a set have the same sum over it. *)
LEMMA SumAgrees ==
    ASSUME NEW S, IsFiniteSet(S), NEW fun, NEW gun, \A x \in S : fun[x] = gun[x]
    PROVE  SumFunctionOnSet(fun, S) = SumFunctionOnSet(gun, S)
<1> DEFINE Bad == {s \in SUBSET S : SumFunctionOnSet(fun, s) # SumFunctionOnSet(gun, s)}
<1> SUFFICES ASSUME Bad # {} PROVE FALSE
  OBVIOUS
<1>1. PICK m \in Bad : \A s \in Bad : ~(<<s, m>> \in StrictSubsetOrdering(S))
  <2>1. Bad \subseteq FiniteSubsetsOf(S)
    BY FS_Subset, FS_FiniteSubsetsOfFinite
  <2> HIDE DEF Bad
  <2> QED  BY <2>1, WFMin, FS_StrictSubsetOrderingWellFounded
<1>2. IsFiniteSet(m) /\ m # {}
  BY SumOfNone, FS_Subset
<1>3. m \ {Taken(m)} \notin Bad /\ fun[Taken(m)] = gun[Taken(m)]
  BY <1>1, <1>2, TakenIsIn DEF StrictSubsetOrdering
<1>4. /\ SumFunctionOnSet(fun, m) = fun[Taken(m)] + SumFunctionOnSet(fun, m \ {Taken(m)})
      /\ SumFunctionOnSet(gun, m) = gun[Taken(m)] + SumFunctionOnSet(gun, m \ {Taken(m)})
  BY <1>2, SumOfTaken
<1> QED  BY <1>3, <1>4

(* The sum of a function at one place more or less. *)
LEMMA SumOfUpdate ==
    ASSUME NEW S, IsFiniteSet(S), NEW fun \in [S -> Nat], NEW x \in S, NEW v \in Nat
    PROVE  /\ SumFunction(fun) \in Nat
           /\ SumFunction([fun EXCEPT ![x] = v]) = SumFunction(fun) - fun[x] + v
           /\ fun[x] <= SumFunction(fun)
<1> DEFINE gun == [fun EXCEPT ![x] = v]
           rest == SumFunctionOnSet(fun, S \ {x})
<1>1. gun \in [S -> Nat]
  OBVIOUS
<1>2. SumFunction(fun) = fun[x] + rest
  BY SumOfAny DEF SumFunction
<1>3. SumFunction(gun) = gun[x] + SumFunctionOnSet(gun, S \ {x})
  <2>1. DOMAIN gun = S
    BY <1>1
  <2> HIDE DEF gun
  <2> QED  BY SumOfAny, <1>1, <2>1 DEF SumFunction
<1>4. SumFunctionOnSet(gun, S \ {x}) = rest
  <2>1. \A y \in S \ {x} : gun[y] = fun[y]
    OBVIOUS
  <2> HIDE DEF gun
  <2> QED  BY <2>1, SumAgrees, FS_RemoveElement
<1>5. rest \in Nat
  BY FS_RemoveElement, SumIsNat
<1>6. gun[x] = v
  OBVIOUS
<1> HIDE DEF gun, rest
<1>7. QED  BY <1>2, <1>3, <1>4, <1>5, <1>6 DEF gun

LEMMA SumOfZeros ==
    ASSUME NEW S, IsFiniteSet(S), NEW fun \in [S -> {0}]
    PROVE  SumFunction(fun) = 0
<1> DEFINE Bad == {s \in SUBSET S : SumFunctionOnSet(fun, s) # 0}
<1>0. DOMAIN fun = S
  OBVIOUS
<1> SUFFICES ASSUME Bad # {} PROVE FALSE
  BY <1>0 DEF SumFunction
<1>1. PICK m \in Bad : \A s \in Bad : ~(<<s, m>> \in StrictSubsetOrdering(S))
  <2>1. Bad \subseteq FiniteSubsetsOf(S)
    BY FS_Subset, FS_FiniteSubsetsOfFinite
  <2> HIDE DEF Bad
  <2> QED  BY <2>1, WFMin, FS_StrictSubsetOrderingWellFounded
<1>2. IsFiniteSet(m) /\ m # {}
  BY SumOfNone, FS_Subset
<1>3. m \ {Taken(m)} \notin Bad /\ fun[Taken(m)] = 0
  BY <1>1, <1>2, TakenIsIn DEF StrictSubsetOrdering
<1>4. SumFunctionOnSet(fun, m) = fun[Taken(m)] + SumFunctionOnSet(fun, m \ {Taken(m)})
  BY <1>2, SumOfTaken
<1> QED  BY <1>3, <1>4

-----------------------------------------------------------------------------
(* Counting by class *)

(* The elements of a finite set, counted for each value of f and summed    *)
(* up, are those of the set.                                               *)
LEMMA CountByClass ==
    ASSUME NEW S, IsFiniteSet(S), NEW T, IsFiniteSet(T),
           NEW f, \A x \in S : f[x] \in T
    PROVE  SumFunction([t \in T |-> Cardinality({x \in S : f[x] = t})]) = Cardinality(S)
<1> DEFINE Counts(s) == [t \in T |-> Cardinality({x \in s : f[x] = t})]
           Bad == {s \in SUBSET S : SumFunction(Counts(s)) # Cardinality(s)}
<1> SUFFICES ASSUME Bad # {} PROVE FALSE
  OBVIOUS
<1>1. PICK m \in Bad : \A s \in Bad : ~(<<s, m>> \in StrictSubsetOrdering(S))
  <2>1. Bad \subseteq FiniteSubsetsOf(S)
    BY FS_Subset, FS_FiniteSubsetsOfFinite
  <2> HIDE DEF Bad
  <2> QED  BY <2>1, WFMin, FS_StrictSubsetOrderingWellFounded
<1>2. IsFiniteSet(m) /\ m \subseteq S
  BY FS_Subset
<1>3. Counts({}) \in [T -> {0}] /\ Cardinality({}) = 0
  BY FS_EmptySet
<1>4. m # {}
  BY <1>3, SumOfZeros
<1> DEFINE c == Taken(m)
           r == m \ {c}
<1>5. c \in m /\ f[c] \in T /\ r \in SUBSET S /\ IsFiniteSet(r)
  BY <1>2, <1>4, TakenIsIn, FS_RemoveElement
<1>6. SumFunction(Counts(r)) = Cardinality(r) /\ Cardinality(r) \in Nat
  <2>1. <<r, m>> \in StrictSubsetOrdering(S)
    BY <1>2, <1>5 DEF StrictSubsetOrdering
  <2>2. r \notin Bad
    BY <1>1, <2>1
  <2> QED  BY <1>5, <2>2, FS_CardinalityType
<1>7. Cardinality(m) = Cardinality(r) + 1
  BY <1>2, <1>5, <1>6, FS_RemoveElement, FS_CardinalityType
<1>8. Counts(r) \in [T -> Nat]
  BY <1>5, FS_Subset, FS_CardinalityType
<1> HIDE DEF c, r
<1>9. Counts(m) = [Counts(r) EXCEPT ![f[c]] = Counts(r)[f[c]] + 1]
  <2>1. ASSUME NEW t \in T, t # f[c]
        PROVE  Counts(m)[t] = Counts(r)[t]
    <3>1. {x \in m : f[x] = t} = {x \in r : f[x] = t}
      BY <2>1 DEF r
    <3> QED  BY <3>1
  <2>2. Counts(m)[f[c]] = Counts(r)[f[c]] + 1
    <3>1. {x \in m : f[x] = f[c]} = {x \in r : f[x] = f[c]} \cup {c}
      BY <1>5 DEF r
    <3>2. c \notin {x \in r : f[x] = f[c]} /\ IsFiniteSet({x \in r : f[x] = f[c]})
      BY <1>5, FS_Subset DEF r
    <3> QED  BY <1>5, <3>1, <3>2, FS_AddElement
  <2> QED  BY <1>5, <2>1, <2>2
<1>10. /\ SumFunction(Counts(m)) = SumFunction(Counts(r)) - Counts(r)[f[c]] + (Counts(r)[f[c]] + 1)
       /\ Counts(r)[f[c]] \in Nat
  <2> HIDE DEF Counts
  <2>1. Counts(r)[f[c]] \in Nat /\ Counts(r)[f[c]] + 1 \in Nat
    BY <1>5, <1>8
  <2> DEFINE v == Counts(r)[f[c]] + 1
  <2>2. SumFunction([Counts(r) EXCEPT ![f[c]] = v]) = SumFunction(Counts(r)) - Counts(r)[f[c]] + v
    <3> HIDE DEF v
    <3> QED  BY <1>5, <1>8, <2>1, SumOfUpdate DEF v
  <2> QED  BY <1>9, <2>1, <2>2
<1> HIDE DEF Counts
<1>11. SumFunction(Counts(m)) = Cardinality(m)
  BY <1>6, <1>7, <1>10
<1> QED  BY <1>11

(* Larger terms, larger sum. *)
LEMMA SumIsMonotone ==
    ASSUME NEW S, IsFiniteSet(S), NEW fun \in [S -> Nat], NEW gun \in [S -> Nat],
           \A x \in S : fun[x] <= gun[x]
    PROVE  SumFunction(fun) <= SumFunction(gun)
<1> DEFINE Bad == {s \in SUBSET S : ~(SumFunctionOnSet(fun, s) <= SumFunctionOnSet(gun, s))}
<1>0. DOMAIN fun = S /\ DOMAIN gun = S
  OBVIOUS
<1> SUFFICES ASSUME Bad # {} PROVE FALSE
  BY <1>0 DEF SumFunction
<1>1. PICK m \in Bad : \A s \in Bad : ~(<<s, m>> \in StrictSubsetOrdering(S))
  <2>1. Bad \subseteq FiniteSubsetsOf(S)
    BY FS_Subset, FS_FiniteSubsetsOfFinite
  <2> HIDE DEF Bad
  <2> QED  BY <2>1, WFMin, FS_StrictSubsetOrderingWellFounded
<1>2. IsFiniteSet(m) /\ m # {}
  <2>1. IsFiniteSet(m)
    BY FS_Subset
  <2>2. SumFunctionOnSet(fun, {}) = 0 /\ SumFunctionOnSet(gun, {}) = 0
    BY SumOfNone
  <2>3. SumFunctionOnSet(fun, {}) <= SumFunctionOnSet(gun, {})
    BY <2>2
  <2> QED  BY <2>1, <2>3
<1> DEFINE x == Taken(m)
           rest == m \ {x}
<1>3. rest \notin Bad /\ x \in S
  BY <1>1, <1>2, TakenIsIn DEF StrictSubsetOrdering
<1>4. IsFiniteSet(rest) /\ rest \in SUBSET S
  BY <1>2, FS_RemoveElement
<1>5. /\ SumFunctionOnSet(fun, m) = fun[x] + SumFunctionOnSet(fun, rest)
      /\ SumFunctionOnSet(gun, m) = gun[x] + SumFunctionOnSet(gun, rest)
  BY <1>2, SumOfTaken
<1>6. SumFunctionOnSet(fun, rest) \in Nat /\ SumFunctionOnSet(gun, rest) \in Nat
  <2>1. (\A y \in rest : fun[y] \in Nat) /\ (\A y \in rest : gun[y] \in Nat)
    BY <1>4
  <2> HIDE DEF rest
  <2> QED  BY <1>4, <2>1, SumIsNat
<1>7. SumFunctionOnSet(fun, rest) <= SumFunctionOnSet(gun, rest)
  BY <1>3, <1>4
<1>8. fun[x] \in Nat /\ gun[x] \in Nat /\ fun[x] <= gun[x]
  BY <1>3
<1>9. m \in Bad
  BY <1>1
<1>10. ~(SumFunctionOnSet(fun, m) <= SumFunctionOnSet(gun, m))
  BY <1>9
<1> HIDE DEF rest, x
<1> QED  BY <1>5, <1>6, <1>7, <1>8, <1>10

(* The sum over a part of the set is at most the sum over the whole.       *)
LEMMA SumOfPart ==
    ASSUME NEW S, IsFiniteSet(S), NEW T \in SUBSET S, NEW fun, \A x \in S : fun[x] \in Nat
    PROVE  SumFunctionOnSet(fun, T) <= SumFunctionOnSet(fun, S)
<1> DEFINE Sum(s) == SumFunctionOnSet(fun, s)
           Bad == {s \in SUBSET S : ~(Sum(s \cap T) <= Sum(s))}
<1>1. S \cap T = T
  OBVIOUS
<1> SUFFICES ASSUME Bad # {} PROVE FALSE
  BY <1>1
<1>2. PICK m \in Bad : \A s \in Bad : ~(<<s, m>> \in StrictSubsetOrdering(S))
  <2>1. Bad \subseteq FiniteSubsetsOf(S)
    BY FS_Subset, FS_FiniteSubsetsOfFinite
  <2> HIDE DEF Bad
  <2> QED  BY <2>1, WFMin, FS_StrictSubsetOrderingWellFounded
<1>3. m \in SUBSET S /\ ~(Sum(m \cap T) <= Sum(m)) /\ IsFiniteSet(m) /\ IsFiniteSet(m \cap T)
  BY FS_Subset
<1>4. m # {}
  <2>1. {} \cap T = {} /\ Sum({}) = 0
    BY SumOfNone
  <2> QED  BY <1>3, <2>1
<1>5. PICK x : x \in m
  BY <1>4
<1> DEFINE r == m \ {x}
<1>6. r \in SUBSET S /\ r \notin Bad
  <2>1. <<r, m>> \in StrictSubsetOrdering(S)
    BY <1>3, <1>5 DEF StrictSubsetOrdering
  <2> QED  BY <1>2, <1>3, <2>1
<1>7. Sum(r \cap T) <= Sum(r) /\ IsFiniteSet(r) /\ IsFiniteSet(r \cap T)
  BY <1>6, FS_Subset
<1>8. Sum(m) = fun[x] + Sum(r) /\ fun[x] \in Nat
  BY <1>3, <1>5, SumOfAny
<1>9. Sum(r) \in Nat /\ Sum(r \cap T) \in Nat
  BY <1>6, <1>7, SumIsNat
<1> DEFINE whole == Sum(m)
           cut == Sum(m \cap T)
           less == Sum(r)
           lessCut == Sum(r \cap T)
<1>10. lessCut <= less /\ whole = fun[x] + less /\ ~(cut <= whole)
  BY <1>3, <1>7, <1>8
<1>11. less \in Nat /\ lessCut \in Nat /\ fun[x] \in Nat
  BY <1>8, <1>9
<1>12. cut = lessCut \/ cut = fun[x] + lessCut
  <2>1. CASE x \in T
    <3>1. (m \cap T) \ {x} = r \cap T /\ x \in m \cap T
      BY <1>5, <2>1
    <3>2. Sum(m \cap T) = fun[x] + Sum((m \cap T) \ {x})
      BY <1>3, <3>1, SumOfAny
    <3> QED  BY <3>1, <3>2
  <2>2. CASE x \notin T
    <3>1. m \cap T = r \cap T
      BY <2>2
    <3> QED  BY <3>1
  <2> QED  BY <2>1, <2>2
<1> HIDE DEF whole, cut, less, lessCut
<1> QED  BY <1>10, <1>11, <1>12

-----------------------------------------------------------------------------
(* Folds with any step *)

(* One by one, up to n. *)
LEMMA CountingUp ==
    ASSUME NEW n \in Nat, NEW Good, 0 \in Good,
           \A j \in 1..n : j - 1 \in Good => j \in Good
    PROVE  \A j \in 0..n : j \in Good
<1> DEFINE Bad == {j \in 0..n : j \notin Good}
<1> SUFFICES ASSUME Bad # {} PROVE FALSE
  OBVIOUS
<1>1. PICK m \in Bad : \A k \in Bad : ~(<<k, m>> \in OpToRel(<, Nat))
  <2>1. Bad \subseteq Nat
    OBVIOUS
  <2> HIDE DEF Bad
  <2> QED  BY <2>1, WFMin, NatLessThanWellFounded
<1>2. m \in 0..n /\ m \notin Good
  OBVIOUS
<1>3. m # 0
  BY <1>2
<1>4. m \in 1..n /\ m - 1 \in 0..n /\ m - 1 \in Nat /\ m \in Nat /\ m - 1 < m
  BY <1>2, <1>3
<1>5. m - 1 \notin Bad
  <2>1. <<m - 1, m>> \in OpToRel(<, Nat)
    BY <1>4 DEF OpToRel
  <2> HIDE DEF Bad
  <2> QED  BY <1>1, <2>1
<1>6. m - 1 \in Good
  BY <1>4, <1>5
<1> QED  BY <1>2, <1>4, <1>6

\* g takes the elements of a subset one by one, from base
Recursion(g, S, base, pick, step) ==
    \A s \in SUBSET S :
        /\ s = {} => g[s] = base
        /\ s # {} => g[s] = step[pick[s]][g[s \ {pick[s]}]]

(* A recursive function over the subsets of a finite set exists, whatever  *)
(* element is taken of each and whatever is done with it.                  *)
LEMMA RecursionExists ==
    ASSUME NEW S, IsFiniteSet(S), NEW V, NEW base \in V,
           NEW pick, \A s \in SUBSET S : s # {} => pick[s] \in s,
           NEW step \in [S -> [V -> V]]
    PROVE  \E g \in [SUBSET S -> V] : Recursion(g, S, base, pick, step)
<1> DEFINE Holds(g, s) == /\ s = {} => g[s] = base
                          /\ s # {} => g[s] = step[pick[s]][g[s \ {pick[s]}]]
           UpTo(n) == SubsetsUpTo(S, n)
           Good(n) == \E g \in [UpTo(n) -> V] : \A s \in UpTo(n) : Holds(g, s)
           GoodOnes == {n \in Nat : Good(n)}
<1>1. \A s \in SUBSET S : IsFiniteSet(s) /\ Cardinality(s) \in Nat /\ Cardinality(s) <= Cardinality(S)
  BY FS_Subset, FS_CardinalityType
<1>2. Good(0)
  <2> DEFINE g == [s \in UpTo(0) |-> base]
  <2>1. \A s \in UpTo(0) : s = {}
    BY <1>1, FS_EmptySet DEF SubsetsUpTo
  <2>2. g \in [UpTo(0) -> V] /\ \A s \in UpTo(0) : Holds(g, s)
    BY <2>1
  <2> QED  BY <2>2
<1>3. ASSUME NEW n \in Nat, Good(n)
      PROVE  Good(n + 1)
  <2>1. PICK g \in [UpTo(n) -> V] : \A s \in UpTo(n) : Holds(g, s)
    BY <1>3
  <2>2. \A s \in UpTo(n + 1) : s # {} => pick[s] \in S /\ s \ {pick[s]} \in UpTo(n)
    <3>1. ASSUME NEW s \in UpTo(n + 1), s # {}
          PROVE  pick[s] \in S /\ s \ {pick[s]} \in UpTo(n)
      <4>1. pick[s] \in s /\ s \in SUBSET S
        BY <3>1 DEF SubsetsUpTo
      <4>2. Cardinality(s \ {pick[s]}) = Cardinality(s) - 1
        BY <1>1, <4>1, FS_RemoveElement
      <4>3. Cardinality(s) <= n + 1 /\ Cardinality(s) \in Nat
        BY <1>1, <3>1 DEF SubsetsUpTo
      <4> QED  BY <4>1, <4>2, <4>3 DEF SubsetsUpTo
    <3> QED  BY <3>1
  <2>3. UpTo(n) \subseteq UpTo(n + 1)
    BY <1>1 DEF SubsetsUpTo
  <2> HIDE DEF UpTo
  <2> DEFINE new(s) == IF s = {} THEN base ELSE step[pick[s]][g[s \ {pick[s]}]]
             h == [s \in UpTo(n + 1) |-> new(s)]
  <2>4. \A s \in UpTo(n + 1) : new(s) \in V
    BY <2>2
  <2>5. h \in [UpTo(n + 1) -> V]
    BY <2>4
  <2>6. \A s \in UpTo(n) : h[s] = g[s]
    BY <2>1, <2>3
  <2>7. \A s \in UpTo(n + 1) : Holds(h, s)
    <3>1. \A s \in UpTo(n + 1) : s # {} => h[s \ {pick[s]}] = g[s \ {pick[s]}]
      BY <2>2, <2>6
    <3>2. \A s \in UpTo(n + 1) : h[s] = new(s)
      OBVIOUS
    <3> HIDE DEF h
    <3> QED  BY <3>1, <3>2
  <2> HIDE DEF h
  <2> QED  BY <2>5, <2>7
<1>4. \A n \in Nat : Good(n)
  <2> HIDE DEF Good
  <2>1. ASSUME NEW n \in Nat PROVE n \in GoodOnes
    <3>1. 0 \in GoodOnes /\ \A j \in 1..n : j - 1 \in GoodOnes => j \in GoodOnes
      <4>1. \A j \in 1..n : j - 1 \in Nat /\ (j - 1) + 1 = j
        OBVIOUS
      <4>2. ASSUME NEW j \in 1..n, j - 1 \in GoodOnes PROVE j \in GoodOnes
        <5>1. Good((j - 1) + 1)
          BY <1>3, <4>1, <4>2
        <5> QED  BY <4>1, <5>1
      <4> QED  BY <1>2, <4>2
    <3> HIDE DEF GoodOnes
    <3> QED  BY <3>1, CountingUp
  <2> QED  BY <2>1
<1>5. UpTo(Cardinality(S)) = SUBSET S
  BY <1>1 DEF SubsetsUpTo
<1>6. Good(Cardinality(S))
  BY <1>4, FS_CardinalityType
<1> HIDE DEF UpTo
<1> QED  BY <1>5, <1>6 DEF Recursion
-----------------------------------------------------------------------------
(* What RemoveAt leaves: the elements before the position where they were, *)
(* those behind it one position earlier.                                   *)
LEMMA RemoveAtFacts ==
    ASSUME NEW T, NEW s \in Seq(T), NEW i \in 1..Len(s)
    PROVE  /\ RemoveAt(s, i) \in Seq(T)
           /\ Len(RemoveAt(s, i)) = Len(s) - 1
           /\ \A j \in 1..(Len(s) - 1) : RemoveAt(s, i)[j] = IF j < i THEN s[j] ELSE s[j + 1]
<1>. DEFINE n == Len(s)
            front == SubSeq(s, 1, i - 1)
            back == SubSeq(s, i + 1, n)
<1>1. n \in Nat /\ i \in 1..n
    OBVIOUS
<1>2. front \in Seq(T) /\ Len(front) = i - 1 /\ \A j \in 1..(i - 1) : front[j] = s[j]
    BY <1>1
<1>3. back \in Seq(T) /\ Len(back) = n - i /\ \A j \in 1..(n - i) : back[j] = s[j + i]
    BY <1>1
<1>4. RemoveAt(s, i) = front \o back
    BY DEF RemoveAt
<1>. HIDE DEF front, back
<1>5. RemoveAt(s, i) \in Seq(T) /\ Len(RemoveAt(s, i)) = n - 1
    <2>1. front \o back \in Seq(T) /\ Len(front \o back) = Len(front) + Len(back)
        BY <1>2, <1>3
    <2>2. (i - 1) + (n - i) = n - 1
        BY <1>1
    <2>. QED BY <1>2, <1>3, <1>4, <2>1, <2>2
<1>6. ASSUME NEW j \in 1..(n - 1)
      PROVE  RemoveAt(s, i)[j] = IF j < i THEN s[j] ELSE s[j + 1]
    <2>1. CASE j < i
        <3>1. j \in 1..(i - 1) /\ j <= Len(front)
            BY <1>1, <1>2, <2>1
        <3>. QED BY <1>2, <1>3, <1>4, <2>1, <3>1
    <2>2. CASE ~(j < i)
        <3>1. j - (i - 1) \in 1..(n - i) /\ j > Len(front) /\ (j - (i - 1)) + i = j + 1
            BY <1>1, <1>2, <2>2
        <3>2. RemoveAt(s, i)[j] = back[j - (i - 1)]
            BY <1>1, <1>2, <1>3, <1>4, <3>1
        <3>. QED BY <1>3, <2>2, <3>1, <3>2
    <2>. QED BY <2>1, <2>2
<1>. QED BY <1>5, <1>6

(* An injection of 1..n into itself reaches every element.                 *)
LEMMA OntoItself ==
    ASSUME NEW n \in Nat, NEW f \in [1..n -> 1..n], IsInjective(f)
    PROVE  \A y \in 1..n : \E x \in 1..n : f[x] = y
<1>1. IsFiniteSet(1..n)
  BY FS_Interval
<1>2. f \in Injection(1..n, 1..n)
  BY DEF Injection
<1>3. f \in Surjection(1..n, 1..n)
  BY <1>1, <1>2, FS_Injection
<1> QED  BY <1>3 DEF Surjection
=============================================================================
