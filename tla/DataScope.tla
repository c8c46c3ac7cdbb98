------------------------------ MODULE DataScope ------------------------------
(***************************************************************************)
(* internal/datascope: validator.go (asked by the executor), mapper.go and *)
(* checker.go classify names of collectors by the tables of ScopeTables    *)
(* and remember their answers.  The checker answers for a list of          *)
(* collectors, and remembers it under the check's name and the list, joined*)
(* by commas (names contain none, so the key determines both), in a cache  *)
(* that forgets the least recently used answer.                            *)
(***************************************************************************)
EXTENDS ScopeTables, Naturals, SequencesExt

CONSTANTS
    Id,             \* names that are asked about
    CheckName,      \* names of checks
    MaxList,        \* bound: collectors of a check
    Capacity,       \* answers the checker's cache holds
    MaxQuestions    \* bound: questions asked

ASSUME ScopeAssumption ==
    /\ Capacity \in Nat \ {0}
    /\ MaxList \in Nat
    /\ MaxQuestions \in Nat

VARIABLES
    validatorCache, \* answers of the validator by name and scope
    mapperCache,    \* answers of the mapper by name
    checkerCache,   \* answers of the checker, the most recently used last
    questions       \* number of questions asked so far

scopeVars == <<validatorCache, mapperCache, checkerCache, questions>>

Scope == {"local_only", "cluster_supplement", "auto"}
List == UNION {[1..n -> Id] : n \in 1..MaxList}

(* Answers: is it valid, is it skipped; and the checker's Source *)
Verdict == [valid : BOOLEAN, skipped : BOOLEAN]
NoVerdict == [valid |-> FALSE, skipped |-> FALSE]
Source == {"local", "supplement", "skipped"}
MapperType == {"node_local", "cluster_level", "cluster_supplement"}

ScopeTypeOK ==
    /\ validatorCache \in [Id -> [Scope -> Verdict]]
    /\ mapperCache \in [Id -> MapperType \cup {"none"}]
    /\ checkerCache \in Seq([check : CheckName, list : List, source : Source])
    /\ Len(checkerCache) <= Capacity
    /\ questions \in 0..MaxQuestions

ScopeInit ==
    /\ validatorCache = [i \in Id |-> [s \in Scope |-> NoVerdict]]
    /\ mapperCache = [i \in Id |-> "none"]
    /\ checkerCache = <<>>
    /\ questions = 0

-----------------------------------------------------------------------------
(* What the tables say.  The scopes of the validator: a name in no table   *)
(* is skipped, and yet valid, in scope "auto".                             *)
Validation(i, s) ==
    CASE s = "local_only" -> [valid |-> i \in ValidatorLocal, skipped |-> i \notin ValidatorLocal]
      [] s = "cluster_supplement" ->
            [valid |-> i \in ValidatorSupplement, skipped |-> i \notin ValidatorSupplement]
      [] s = "auto" -> [valid |-> TRUE, skipped |-> i \notin ValidatorLocal \cup ValidatorSupplement]

DataType(i) ==
    CASE i \in NodeLocalTypes -> "node_local"
      [] i \in ClusterLevelTypes \ NodeLocalTypes -> "cluster_level"
      [] i \in SupplementTypes \ (NodeLocalTypes \cup ClusterLevelTypes) -> "cluster_supplement"
      [] OTHER -> "none"

(* Mutant: one collector of cluster data has the whole check skipped. *)
AutoModeStrict(list) ==
    IF ToSet(list) \cap CheckerSkip # {} THEN "skipped"
    ELSE IF ToSet(list) \subseteq CheckerSupplement THEN "supplement" ELSE "local"

(* The three modes of the checker.  In mode "auto" a name in no table      *)
(* counts as local.                                                        *)
LocalOnlyMode(list) == IF ToSet(list) \subseteq CheckerLocal THEN "local" ELSE "skipped"

SupplementMode(list) ==
    IF ToSet(list) \cap CheckerSupplement # {} THEN "supplement" ELSE "skipped"

AutoMode(list) ==
    LET supplement == (CheckerSupplement \ CheckerLocal) \cap ToSet(list)
        local == ToSet(list) \ (supplement \cup (CheckerSkip \ CheckerLocal))
    IN  IF local # {} THEN "local" ELSE IF supplement # {} THEN "supplement" ELSE "skipped"

-----------------------------------------------------------------------------
Ask == questions < MaxQuestions /\ questions' = questions + 1

ValidateCollector(i, s) ==
    /\ Ask
    /\ validatorCache' = [validatorCache EXCEPT ![i][s] = IF @ = NoVerdict THEN Validation(i, s) ELSE @]
    /\ UNCHANGED <<mapperCache, checkerCache>>

GetDataType(i) ==
    /\ Ask
    /\ mapperCache' = [mapperCache EXCEPT ![i] = IF @ = "none" THEN DataType(i) ELSE @]
    /\ UNCHANGED <<validatorCache, checkerCache>>

Fresh(c, list) == [check |-> c, list |-> list, source |-> AutoMode(list)]

(* The cache with the answer at p as the one used last, and with an answer *)
(* more, for which the one not used longest makes room.                    *)
Touched(p) == Append(RemoveAt(checkerCache, p), checkerCache[p])
Extended(e) == Append(IF Len(checkerCache) < Capacity THEN checkerCache ELSE Tail(checkerCache), e)

(* Mutant: the answer is remembered under the check's name alone. *)
AnswerByCheckOnly(c, list) ==
    LET known == {p \in DOMAIN checkerCache : checkerCache[p].check = c}
    IN  /\ Ask
        /\ \/ \E p \in known : checkerCache' = [Touched(p) EXCEPT ![Len(checkerCache)].list = list]
           \/ known = {} /\ checkerCache' = Extended(Fresh(c, list))
        /\ UNCHANGED <<validatorCache, mapperCache>>

(* Mutant: nothing is forgotten. *)
AnswerForgetsNothing(c, list) ==
    LET known == {p \in DOMAIN checkerCache : checkerCache[p].check = c /\ checkerCache[p].list = list}
    IN  /\ Ask
        /\ \/ known # {} /\ UNCHANGED checkerCache
           \/ known = {} /\ checkerCache' = Append(checkerCache, Fresh(c, list))
        /\ UNCHANGED <<validatorCache, mapperCache>>

(* handleAutoSelectMode; the other modes use no cache. *)
ShouldCollectLocally(c, list) ==
    LET known == {p \in DOMAIN checkerCache : checkerCache[p].check = c /\ checkerCache[p].list = list}
    IN  /\ Ask
        /\ \/ \E p \in known : checkerCache' = Touched(p)
           \/ known = {} /\ checkerCache' = Extended(Fresh(c, list))
        /\ UNCHANGED <<validatorCache, mapperCache>>

ClearCache ==
    /\ \/ mapperCache' = [i \in Id |-> "none"] /\ UNCHANGED checkerCache
       \/ checkerCache' = <<>> /\ UNCHANGED mapperCache
    /\ UNCHANGED <<validatorCache, questions>>

ScopeNext ==
    \/ \E i \in Id, s \in Scope : ValidateCollector(i, s)
    \/ \E i \in Id : GetDataType(i)
    \/ \E c \in CheckName, list \in List : ShouldCollectLocally(c, list)
    \/ ClearCache

ScopeSpec == ScopeInit /\ [][ScopeNext]_scopeVars

-----------------------------------------------------------------------------
(* A remembered answer is the one the tables give for the question asked:  *)
(* no answer is taken for that of another check, list or scope, whatever   *)
(* was asked, forgotten and cleared before (checker.go:231).               *)
RememberedAnswersHold ==
    /\ \A i \in Id, s \in Scope : validatorCache[i][s] \in {NoVerdict, Validation(i, s)}
    /\ \A i \in Id : mapperCache[i] \in {"none", DataType(i)}
    /\ \A e \in ToSet(checkerCache) : e.source = AutoMode(e.list)

TablesAgree ==
    \A i \in ValidCollectors \cup ClusterLevelTypes :
        AutoMode(<<i>>) = CASE DataType(i) = "node_local" -> "local"
                            [] DataType(i) = "cluster_supplement" -> "supplement"
                            [] DataType(i) = "cluster_level" -> "skipped"

ModesAgree ==
    \A list \in List :
        /\ LocalOnlyMode(list) = "local" => AutoMode(list) = "local"
        /\ SupplementMode(list) = "supplement" => AutoMode(list) # "skipped"

(* The checker and the mapper have tables of their own, kept by hand, and  *)
(* still agree on every type the mapper knows; what the mode for local data*)
(* or for supplements would collect of a check, automatic selection, the   *)
(* default, collects too; and a remembered refusal is one of cluster data  *)
(* only (checker.go:241, mapper.go:505).                                   *)
ClassifiersAgree ==
    /\ TablesAgree
    /\ ModesAgree
    /\ \A e \in ToSet(checkerCache) :
        e.source = "skipped" => \A i \in ToSet(e.list) : mapperCache[i] \in {"none", "cluster_level"}
==============================================================================
