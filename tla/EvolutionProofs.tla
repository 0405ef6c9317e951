---------------------------- MODULE EvolutionProofs ----------------------------
(***************************************************************************)
(* For every specification, population size and number of calls, no        *)
(* solution is yielded twice and every solution found is accounted for.    *)
(*                                                                         *)
(* The invariant says where the members of the solution set are: each was  *)
(* yielded, or waits in exactly one of the two lists that are yielded      *)
(* from, or was dropped.  An individual is yielded by the evaluation that  *)
(* adds it to the solution set, or when it is taken from its list.         *)
(*                                                                         *)
(* Then the lists: the ranking that elites are taken from is that of the   *)
(* present population, and a solution is only lost by refilling, which     *)
(* finds the tree that it would add in its list already, or by a caller    *)
(* who leaves between the two solutions of one refill.                     *)
(*                                                                         *)
(* At last, where the best are: a solution of the ranking is an elite, no  *)
(* mutation removes it before the next ranking, and fixing leaves one in   *)
(* its place if it makes no failure of a solution.                         *)
(***************************************************************************)
EXTENDS Evolution, SequenceTheorems, FiniteSetTheorems, TLAPS

YieldedSet == {yielded[k] : k \in DOMAIN yielded}

EachInOnePlace ==
    /\ YieldedSet \cap initial_solutions = {}
    /\ YieldedSet \cap found = {}
    /\ initial_solutions \cap found = {}

SolutionTypes ==
    /\ yielded \in Seq(Individual)
    /\ initial_solutions \subseteq Individual /\ found \subseteq Individual
    /\ problem \in Problem

IInv ==
    /\ SolutionTypes
    /\ YieldedOnce
    /\ SolutionsAccounted
    /\ EachInOnePlace

solutions == <<problem, solution_set, initial_solutions, found, yielded, dropped>>
-------------------------------------------------------------------------------
\* Appending an individual that was not yielded yet.
LEMMA AppendNew ==
  ASSUME yielded \in Seq(Individual), NEW i \in Individual, i \notin YieldedSet,
         YieldedOnce, yielded' = Append(yielded, i)
  PROVE  /\ yielded' \in Seq(Individual)
         /\ YieldedOnce'
         /\ YieldedSet' = YieldedSet \cup {i}
<1> DEFINE n == Len(yielded)
<1>1. /\ n \in Nat /\ DOMAIN yielded = 1..n
      /\ yielded' \in Seq(Individual) /\ DOMAIN yielded' = 1..(n + 1)
      /\ yielded'[n + 1] = i
      /\ \A k \in 1..n : yielded'[k] = yielded[k]
  OBVIOUS
<1> HIDE DEF n
<1>2. \A k \in 1..n : yielded[k] # i
  BY <1>1 DEF YieldedSet
<1>3. \A k \in 1..(n + 1) : k \in 1..n \/ k = n + 1
  BY <1>1
<1>4. YieldedOnce'
  <2>1. SUFFICES ASSUME NEW j \in 1..(n + 1), NEW k \in 1..(n + 1), yielded'[j] = yielded'[k]
                 PROVE  j = k
    BY <1>1 DEF YieldedOnce
  <2>2. CASE j \in 1..n /\ k \in 1..n
    BY <1>1, <2>1, <2>2 DEF YieldedOnce
  <2>3. CASE j = n + 1 /\ k \in 1..n
    BY <1>1, <1>2, <2>1, <2>3
  <2>4. CASE j \in 1..n /\ k = n + 1
    BY <1>1, <1>2, <2>1, <2>4
  <2>5. CASE j = n + 1 /\ k = n + 1
    BY <2>5
  <2> QED
    BY <1>3, <2>2, <2>3, <2>4, <2>5
<1>5. YieldedSet' = YieldedSet \cup {i}
  <2>1. ASSUME NEW x \in YieldedSet' PROVE x \in YieldedSet \cup {i}
    <3>1. PICK k \in 1..(n + 1) : x = yielded'[k]
      BY <1>1 DEF YieldedSet
    <3> QED
      BY <1>1, <1>3, <3>1 DEF YieldedSet
  <2>2. ASSUME NEW x \in YieldedSet PROVE x \in YieldedSet'
    <3>1. PICK k \in 1..n : x = yielded[k]
      BY <1>1 DEF YieldedSet
    <3>2. k \in 1..(n + 1) /\ yielded'[k] = x
      BY <1>1, <3>1
    <3> QED
      BY <1>1, <3>2 DEF YieldedSet
  <2>3. i \in YieldedSet'
    <3>1. n + 1 \in 1..(n + 1)
      BY <1>1
    <3> QED
      BY <1>1, <3>1 DEF YieldedSet
  <2> QED
    BY <2>1, <2>2, <2>3
<1> QED
  BY <1>1, <1>4, <1>5

\* At first the only known solutions are those of the initial population.
LEMMA InitIInv == Init => IInv
<1> SUFFICES ASSUME Init PROVE IInv
  OBVIOUS
<1>1. problem \in Problem /\ problem.initial \subseteq Individual
  BY ProblemAssumption DEF Init
<1>2. solution_set \subseteq Individual /\ initial_solutions = solution_set
  BY <1>1 DEF Init
<1>3. found = {} /\ yielded = <<>> /\ dropped = {}
  BY DEF Init
<1>4. DOMAIN yielded = {} /\ yielded \in Seq(Individual)
  BY <1>3
<1>5. YieldedSet = {}
  BY <1>4 DEF YieldedSet
<1> QED
  BY <1>1, <1>2, <1>3, <1>4, <1>5
     DEF IInv, SolutionTypes, YieldedOnce, SolutionsAccounted, EachInOnePlace, YieldedSet

\* Steps that leave the solutions alone.
LEMMA SolutionsUntouched ==
  ASSUME IInv, UNCHANGED solutions
  PROVE  IInv'
BY DEF IInv, SolutionTypes, YieldedOnce, SolutionsAccounted, EachInOnePlace, YieldedSet,
       solutions

\* The evaluation that finds a solution yields it.
LEMMA EvaluateKeepsIInv ==
  ASSUME IInv, NEW i \in Individual, Evaluate(i)
  PROVE  IInv'
<1>1. PICK f \in FitnessesOf({i}) :
        /\ Evaluated({i}, f)
        /\ IF IsNew(i, f[i]) THEN yielded' = Append(yielded, i) ELSE yielded' = yielded
  BY DEF Evaluate
<1>2. UNCHANGED <<problem, initial_solutions, found, dropped>>
  BY DEF Evaluate, session
<1>3. solution_set' = solution_set \cup {x \in {i} : IsNew(x, f[x])}
  BY <1>1 DEF Evaluated
<1>4. CASE IsNew(i, f[i])
  <2>1. solution_set' = solution_set \cup {i} /\ yielded' = Append(yielded, i)
    BY <1>1, <1>3, <1>4
  <2>2. i \notin solution_set
    BY <1>4 DEF IsNew
  <2>3. solution_set = YieldedSet \cup initial_solutions \cup found \cup dropped
    BY DEF IInv, SolutionsAccounted, YieldedSet
  <2>4. yielded \in Seq(Individual) /\ YieldedOnce
    BY DEF IInv, SolutionTypes
  <2>5. /\ yielded' \in Seq(Individual) /\ YieldedOnce'
        /\ YieldedSet' = YieldedSet \cup {i}
    BY <2>1, <2>2, <2>3, <2>4, AppendNew
  <2>6. SolutionsAccounted'
    BY <1>2, <2>1, <2>3, <2>5 DEF SolutionsAccounted, YieldedSet
  <2>7. EachInOnePlace'
    BY <1>2, <2>2, <2>3, <2>5 DEF IInv, EachInOnePlace
  <2>8. SolutionTypes'
    BY <1>2, <2>1, <2>5 DEF IInv, SolutionTypes
  <2> QED
    BY <2>5, <2>6, <2>7, <2>8 DEF IInv
<1>5. CASE ~ IsNew(i, f[i])
  <2>1. UNCHANGED solutions
    BY <1>1, <1>2, <1>3, <1>5 DEF solutions
  <2> QED
    BY <2>1, SolutionsUntouched
<1> QED
  BY <1>4, <1>5

\* A solution that waits in a list is yielded.
LEMMA YieldKeepsIInv ==
  ASSUME IInv, NEW i \in Individual, YieldInitial(i) \/ YieldFound(i)
  PROVE  IInv'
<1>1. /\ yielded' = Append(yielded, i)
      /\ UNCHANGED <<problem, solution_set, dropped>>
      /\ \/ i \in initial_solutions /\ initial_solutions' = initial_solutions \ {i}
               /\ found' = found
         \/ i \in found /\ found' = found \ {i} /\ initial_solutions' = initial_solutions
  BY DEF YieldInitial, YieldFound, session
<1>2. i \notin YieldedSet
  BY <1>1 DEF IInv, EachInOnePlace
<1>3. yielded \in Seq(Individual) /\ YieldedOnce
  BY DEF IInv, SolutionTypes
<1>4. /\ yielded' \in Seq(Individual) /\ YieldedOnce'
      /\ YieldedSet' = YieldedSet \cup {i}
  BY <1>1, <1>2, <1>3, AppendNew
<1>5. solution_set = YieldedSet \cup initial_solutions \cup found \cup dropped
  BY DEF IInv, SolutionsAccounted, YieldedSet
<1>6. solution_set' = YieldedSet' \cup initial_solutions' \cup found' \cup dropped'
  BY <1>1, <1>4, <1>5
<1>7. EachInOnePlace'
  BY <1>1, <1>4 DEF IInv, EachInOnePlace
<1>8. SolutionTypes'
  BY <1>1, <1>4 DEF IInv, SolutionTypes
<1> QED
  BY <1>4, <1>6, <1>7, <1>8 DEF IInv, SolutionsAccounted, YieldedSet

\* New solutions are found and not yielded at once: they are listed or dropped,
\* and those listed before may be dropped.
LEMMA ListedOrDropped ==
  ASSUME IInv, NEW new, new \cap solution_set = {}, found' \subseteq Individual,
         UNCHANGED <<problem, yielded, initial_solutions>>,
         solution_set' = solution_set \cup new,
         found' \subseteq found \cup new,
         dropped' \subseteq dropped \cup found \cup new,
         found \cup dropped \cup new = found' \cup dropped'
  PROVE  IInv'
<1>1. YieldedSet' = YieldedSet /\ YieldedOnce'
  BY DEF IInv, YieldedSet, YieldedOnce
<1>2. solution_set = YieldedSet \cup initial_solutions \cup found \cup dropped
  BY DEF IInv, SolutionsAccounted, YieldedSet
<1>3. solution_set' = YieldedSet' \cup initial_solutions' \cup found' \cup dropped'
  BY <1>1, <1>2
<1>4. EachInOnePlace'
  BY <1>1, <1>2 DEF IInv, EachInOnePlace
<1>5. SolutionTypes'
  BY DEF IInv, SolutionTypes
<1> QED
  BY <1>1, <1>3, <1>4, <1>5 DEF IInv, SolutionsAccounted, YieldedSet

\* Trees are fixed to trees.
LEMMA FixedAreTrees ==
  ASSUME problem \in Problem, NEW i \in Individual, NEW c \in problem.fix[i]
  PROVE  c \in Individual
<1>1. problem.fix[i] \in (SUBSET Individual) \ {{}}
  BY ProblemAssumption
<1> QED
  BY <1>1

\* Refilling lists what it found, or drops it with a duplicate.
LEMMA RefillKeepsIInv ==
  ASSUME IInv, FillPopulation \/ RefillPopulation
  PROVE  IInv'
<1>1. UNCHANGED <<problem, yielded, initial_solutions>>
  BY DEF FillPopulation, RefillPopulation, session
<1>2. PICK list, refilled : Refill(list, refilled)
  BY DEF FillPopulation, RefillPopulation
<1>3. PICK i \in problem.trees : \E c \in problem.fix[i] : \E f \in FitnessesOf({i, c}) :
        /\ Evaluated({i, c}, f)
        /\ \/ found' = {x \in {i, c} : IsNew(x, f[x])} /\ dropped' = dropped
           \/ found' = {} /\ dropped' = dropped \cup {x \in {i, c} : IsNew(x, f[x])}
  BY <1>2 DEF Refill
<1>4. PICK c \in problem.fix[i] : \E f \in FitnessesOf({i, c}) :
        /\ Evaluated({i, c}, f)
        /\ \/ found' = {x \in {i, c} : IsNew(x, f[x])} /\ dropped' = dropped
           \/ found' = {} /\ dropped' = dropped \cup {x \in {i, c} : IsNew(x, f[x])}
  BY <1>3
<1>5. PICK f \in FitnessesOf({i, c}) :
        /\ Evaluated({i, c}, f)
        /\ \/ found' = {x \in {i, c} : IsNew(x, f[x])} /\ dropped' = dropped
           \/ found' = {} /\ dropped' = dropped \cup {x \in {i, c} : IsNew(x, f[x])}
  BY <1>4
<1> DEFINE new == {x \in {i, c} : IsNew(x, f[x])}
<1>6. found = {}
  BY <1>2 DEF Refill
<1>7. i \in Individual /\ c \in Individual
  BY FixedAreTrees, ProblemAssumption DEF IInv, SolutionTypes
<1>8. new \subseteq Individual /\ new \cap solution_set = {}
  BY <1>7 DEF IsNew
<1>9. solution_set' = solution_set \cup new
  BY <1>5 DEF Evaluated
<1>10. \/ found' = new /\ dropped' = dropped
       \/ found' = {} /\ dropped' = dropped \cup new
  BY <1>5
<1> HIDE DEF new
<1>11. /\ found' \subseteq found \cup new
       /\ dropped' \subseteq dropped \cup found \cup new
       /\ found \cup dropped \cup new = found' \cup dropped'
       /\ found' \subseteq Individual
  BY <1>6, <1>8, <1>10
<1> QED
  BY <1>1, <1>8, <1>9, <1>11, ListedOrDropped

\* compute_mutation_pool() drops what it finds.
LEMMA StartMutationKeepsIInv ==
  ASSUME IInv, StartMutation
  PROVE  IInv'
<1>1. UNCHANGED <<problem, yielded, initial_solutions, found>>
  BY DEF StartMutation, session
<1>2. PICK f \in FitnessesOf(Members(new_population)) :
        /\ Evaluated(DOMAIN f, f)
        /\ dropped' = dropped \cup {i \in DOMAIN f : IsNew(i, f[i])}
  BY DEF StartMutation
<1> DEFINE new == {i \in DOMAIN f : IsNew(i, f[i])}
<1>3. new \cap solution_set = {}
  BY DEF IsNew
<1>4. found' \subseteq Individual
  BY <1>1 DEF IInv, SolutionTypes
<1>5. solution_set' = solution_set \cup new /\ dropped' = dropped \cup new
  BY <1>2 DEF Evaluated
<1> HIDE DEF new
<1> QED
  BY <1>1, <1>3, <1>4, <1>5, ListedOrDropped

\* What was listed when the caller gave up is dropped.
LEMMA CallAgainKeepsIInv ==
  ASSUME IInv, CallAgain
  PROVE  IInv'
<1>1. /\ UNCHANGED <<problem, yielded, initial_solutions, solution_set>>
      /\ dropped' = dropped \cup found /\ found' = {}
  BY DEF CallAgain
<1>2. /\ {} \cap solution_set = {} /\ found' \subseteq Individual
      /\ solution_set' = solution_set \cup {}
  BY <1>1
<1> QED
  BY <1>1, <1>2, ListedOrDropped

\* The steps that neither find nor yield a solution.
OtherStep ==
    \/ Start \/ Filled \/ Refilled \/ EvaluateInitial \/ EvaluateGeneration
    \/ Finish \/ Select \/ Crossover \/ Deduplicate \/ FlushCache
    \/ \E i \in Individual : AddChild(i) \/ Mutate(i) \/ FixIndividual(i)

LEMMA OtherStepKeepsIInv ==
  ASSUME IInv, OtherStep
  PROVE  IInv'
<1>1. CASE Start \/ Filled \/ Refilled \/ EvaluateInitial \/ EvaluateGeneration
  <2>1. UNCHANGED solutions
    BY <1>1 DEF Start, Filled, Refilled, EvaluateInitial, EvaluateGeneration, session,
                evaluator, solutions
  <2> QED
    BY <2>1, SolutionsUntouched
<1>2. CASE Finish \/ Select \/ Crossover \/ Deduplicate \/ FlushCache
  <2>1. UNCHANGED solutions
    BY <1>2 DEF Finish, Select, Crossover, Deduplicate, FlushCache, session, evaluator,
                solutions
  <2> QED
    BY <2>1, SolutionsUntouched
<1>3. ASSUME NEW i \in Individual, AddChild(i) \/ Mutate(i) \/ FixIndividual(i)
      PROVE  IInv'
  <2>1. UNCHANGED solutions
    BY <1>3 DEF AddChild, Mutate, FixIndividual, session, evaluator, solutions
  <2> QED
    BY <2>1, SolutionsUntouched
<1> QED
  BY <1>1, <1>2, <1>3 DEF OtherStep

\* Every step, in the order of Next.
LEMMA NextKeepsIInv == IInv /\ [Next]_vars => IInv'
<1> SUFFICES ASSUME IInv, [Next]_vars PROVE IInv'
  OBVIOUS
<1>1. CASE CallAgain
  BY <1>1, CallAgainKeepsIInv
<1>2. CASE FillPopulation \/ RefillPopulation
  BY <1>2, RefillKeepsIInv
<1>3. CASE StartMutation
  BY <1>3, StartMutationKeepsIInv
<1>4. ASSUME NEW i \in Individual, Evaluate(i)
      PROVE  IInv'
  BY <1>4, EvaluateKeepsIInv
<1>5. ASSUME NEW i \in Individual, YieldInitial(i) \/ YieldFound(i)
      PROVE  IInv'
  BY <1>5, YieldKeepsIInv
<1>6. CASE OtherStep
  BY <1>6, OtherStepKeepsIInv
<1>7. CASE UNCHANGED vars
  <2>1. UNCHANGED solutions
    BY <1>7 DEF vars, solutions
  <2> QED
    BY <2>1, SolutionsUntouched
<1> QED
  BY <1>1, <1>2, <1>3, <1>4, <1>5, <1>6, <1>7
     DEF Next, GenerateStep, OtherStep

\* No solution is yielded twice, whatever the specification, the sizes, the scores
\* of soft constraints, and wherever the caller gives up and calls again.
THEOREM SolutionsYieldedOnce == Spec => []YieldedOnce
<1>1. IInv => YieldedOnce
  BY DEF IInv
<1> QED
  BY InitIInv, NextKeepsIInv, <1>1, PTL DEF Spec

\* No solution disappears but by being dropped, where the code drops it.
THEOREM AllAccounted == Spec => []SolutionsAccounted
<1>1. IInv => SolutionsAccounted
  BY DEF IInv
<1> QED
  BY InitIInv, NextKeepsIInv, <1>1, PTL DEF Spec
-------------------------------------------------------------------------------
(* The cache and the ranking.                                              *)

\* The members of lists.
LEMMA MembersOf ==
  /\ Members(EmptyBag) = {}
  /\ \A S : Members(SetToBag(S)) = S
  /\ \A x : Members(One(x)) = {x}
  /\ \A a, b : Members(a (+) b) = Members(a) \cup Members(b)
  /\ \A a, b : Members(a (-) b) \subseteq Members(a)
<1>1. \A S : DOMAIN SetToBag(S) = S
  BY DEF SetToBag
<1>2. \A a, b : DOMAIN (a (+) b) = DOMAIN a \cup DOMAIN b
  BY DEF (+)
<1>3. \A a, b : DOMAIN (a (-) b) \subseteq DOMAIN a
  BY DEF (-)
<1> QED
  BY <1>1, <1>2, <1>3 DEF Members, One, EmptyBag, BagToSet

LEMMA MembersOfIndividuals ==
  ASSUME NEW ev
  PROVE  Members(Individuals(ev)) = {x[1] : x \in Members(ev)}
BY DEF Members, Individuals, BagOfAll, BagToSet

LEMMA MembersOfTop ==
  ASSUME NEW list, NEW n, NEW kept \in Top(list, n)
  PROVE  /\ Members(kept) \subseteq Members(list)
         /\ \A x \in Members(kept) : kept[x] <= list[x]
BY DEF Top, \sqsubseteq, Members, BagToSet

LEMMA MembersWithFitness ==
  ASSUME NEW list
  PROVE  /\ Members(WithFitness(list)) = {<<i, cache[i]>> : i \in Members(list)}
         /\ \A x \in Members(WithFitness(list)) : WithFitness(list)[x] = list[x[1]]
BY DEF WithFitness, Members, BagToSet

Counted(list) == \A x \in Members(list) : list[x] \in Nat

LEMMA AddIsCounted ==
  ASSUME NEW list, NEW x, Counted(list)
  PROVE  Counted(list (+) One(x))
<1>1. DOMAIN (list (+) One(x)) = DOMAIN list \cup {x}
  BY DEF (+), One, SetToBag
<1>2. \A e \in DOMAIN list \cup {x} : (list (+) One(x))[e] =
        (IF e \in DOMAIN list THEN list[e] ELSE 0) + (IF e \in {x} THEN 1 ELSE 0)
  BY DEF (+), One, SetToBag
<1>3. \A e \in DOMAIN list : list[e] \in Nat
  BY DEF Counted, Members, BagToSet
<1>4. \A e \in DOMAIN list \cup {x} : (list (+) One(x))[e] \in Nat
  BY <1>2, <1>3
<1> QED
  BY <1>1, <1>4 DEF Counted, Members, BagToSet

\* The entries of the ranking are those of the trees of the population.
IsCurrent ==
    /\ \A x \in Members(evaluation) :
          /\ x[1] \in Members(population) /\ evaluation[x] <= population[x[1]]
          /\ x[2] \in problem.fitness[x[1]]
    /\ \A x, y \in Members(evaluation) : x[1] = y[1] => x = y

\* The cache holds what evaluating may yield; what is being evaluated is the population,
\* and at the start and the end of a generation the ranking is that of the population.
RankingInv ==
    /\ problem \in Problem
    /\ cache \in [Individual -> Fitness \cup {NoFitness}]
    /\ \A i \in Individual : Cached(i) => cache[i] \in problem.fitness[i]
    /\ Members(population) \subseteq Individual /\ Counted(population)
    /\ \A x \in Members(evaluation) : x[1] \in Individual
    /\ pc \in {"evaluate initial", "evaluate"} => todo = population
    /\ call \in Nat \ {0}
    /\ pc \in {"start", "loop"} /\ call = 1 => IsCurrent

\* Evaluating fills the cache with values of the problem.
LEMMA EvaluatedFits ==
  ASSUME RankingInv, NEW S \in SUBSET Individual, NEW f \in FitnessesOf(S), Evaluated(S, f)
  PROVE  /\ \A i \in S : f[i] \in Fitness /\ f[i] # NoFitness /\ f[i] \in problem.fitness[i]
         /\ cache' \in [Individual -> Fitness \cup {NoFitness}]
         /\ \A i \in Individual : cache'[i] # NoFitness => cache'[i] \in problem.fitness[i]
         /\ \A i \in Individual : cache[i] # NoFitness => cache'[i] # NoFitness
         /\ DOMAIN f = S
<1>1. f \in [S -> Fitness] /\ \A i \in S : f[i] \in FitnessOf(i)
  BY DEF FitnessesOf
<1>2. \A i \in S : f[i] \in Fitness /\ f[i] # NoFitness
  BY <1>1, SizeAssumption
<1>3. \A i \in S : f[i] \in problem.fitness[i]
  BY <1>1 DEF FitnessOf, RankingInv, Cached
<1>4. cache' = [i \in Individual |-> IF i \in S THEN f[i] ELSE cache[i]]
  BY DEF Evaluated
<1>5. /\ cache \in [Individual -> Fitness \cup {NoFitness}]
      /\ \A i \in Individual : cache[i] # NoFitness => cache[i] \in problem.fitness[i]
  BY DEF RankingInv, Cached
<1> QED
  BY <1>1, <1>2, <1>3, <1>4, <1>5

LEMMA InitRankingInv == Init => RankingInv
<1> SUFFICES ASSUME Init PROVE RankingInv
  OBVIOUS
<1>1. problem \in Problem /\ problem.initial \subseteq Individual
  BY ProblemAssumption DEF Init
<1>2. PICK f \in [problem.initial -> Fitness] :
        /\ \A i \in problem.initial : f[i] \in problem.fitness[i]
        /\ population = SetToBag(problem.initial)
        /\ evaluation = SetToBag({<<i, f[i]>> : i \in problem.initial})
        /\ cache = [i \in Individual |-> IF i \in problem.initial THEN f[i] ELSE NoFitness]
  BY DEF Init
<1>3. /\ Members(population) = problem.initial
      /\ Members(evaluation) = {<<i, f[i]>> : i \in problem.initial}
  BY <1>2, MembersOf
<1>4. /\ \A i \in Members(population) : population[i] = 1
      /\ \A x \in Members(evaluation) : evaluation[x] = 1
  BY <1>2, <1>3 DEF SetToBag
<1>5. IsCurrent
  BY <1>2, <1>3, <1>4 DEF IsCurrent
<1>6. /\ cache \in [Individual -> Fitness \cup {NoFitness}]
      /\ \A i \in Individual : Cached(i) => cache[i] \in problem.fitness[i]
  BY <1>1, <1>2 DEF Cached
<1>7. pc = "start" /\ call = 1
  BY DEF Init
<1>8. Counted(population)
  BY <1>3, <1>4 DEF Counted
<1> QED
  BY <1>1, <1>3, <1>5, <1>6, <1>7, <1>8 DEF RankingInv

\* Steps that leave the cache alone, or add to it, and change nothing else that the
\* ranking depends on.
LEMMA RankingUntouched ==
  ASSUME RankingInv, UNCHANGED <<problem, evaluation, population, call>>,
         cache' \in [Individual -> Fitness \cup {NoFitness}],
         \A i \in Individual : cache'[i] # NoFitness => cache'[i] \in problem.fitness[i],
         pc' \in {"evaluate initial", "evaluate"} => todo' = population,
         pc' \in {"start", "loop"} => pc \in {"start", "loop"}
  PROVE  RankingInv'
<1>1. IsCurrent' <=> IsCurrent
  BY DEF IsCurrent, Members, BagToSet
<1>2. \A i \in Individual : Cached(i)' => cache'[i] \in problem'.fitness[i]
  BY DEF Cached
<1>3. /\ Members(population)' = Members(population) /\ Members(evaluation)' = Members(evaluation)
      /\ Counted(population)' = Counted(population)
  BY DEF Members, BagToSet, Counted
<1> QED
  BY <1>1, <1>2, <1>3 DEF RankingInv

LEMMA QuietRanking ==
  ASSUME RankingInv, UNCHANGED <<problem, evaluation, population, call, cache>>,
         pc' \in {"evaluate initial", "evaluate"} => todo' = population,
         pc' \in {"start", "loop"} => pc \in {"start", "loop"}
  PROVE  RankingInv'
<1>1. /\ cache' \in [Individual -> Fitness \cup {NoFitness}]
      /\ \A i \in Individual : cache'[i] # NoFitness => cache'[i] \in problem.fitness[i]
  BY DEF RankingInv, Cached
<1> QED
  BY <1>1, RankingUntouched

\* The ranking that is made of the population when all of it is in the cache.
LEMMA RankingIsCurrent ==
  ASSUME RankingInv, AllCached, todo = population,
         UNCHANGED <<problem, population, cache, call>>, pc' = "loop",
         \/ evaluation' = WithFitness(population)
         \/ \E n : evaluation' \in Top(WithFitness(population), n)
  PROVE  RankingInv'
<1> DEFINE ranking == WithFitness(population)
<1>1. /\ Members(evaluation') \subseteq Members(ranking)
      /\ \A x \in Members(evaluation') : evaluation'[x] <= ranking[x]
  <2>1. CASE evaluation' = ranking
    <3>1. \A x \in Members(ranking) : ranking[x] = population[x[1]] /\ x[1] \in Members(population)
      BY MembersWithFitness
    <3>2. \A x \in Members(ranking) : ranking[x] \in Nat
      BY <3>1 DEF RankingInv, Counted
    <3> HIDE DEF ranking
    <3> QED
      BY <2>1, <3>2
  <2>2. CASE \E n : evaluation' \in Top(ranking, n)
    BY <2>2, MembersOfTop
  <2> QED
    BY <2>1, <2>2
<1>2. /\ \A x \in Members(ranking) : ranking[x] = population[x[1]]
      /\ Members(ranking) = {<<i, cache[i]>> : i \in Members(population)}
  BY MembersWithFitness
<1> HIDE DEF ranking
<1>3. \A i \in Members(population) : i \in Individual /\ cache[i] \in problem.fitness[i]
  BY DEF RankingInv, AllCached
<1>4. IsCurrent'
  BY <1>1, <1>2, <1>3 DEF IsCurrent
<1> QED
  BY <1>1, <1>2, <1>3, <1>4 DEF RankingInv, Cached

\* Refilling evaluates a tree i and what it is fixed to, which is what it may add.
Refills(list, refilled, i, c, f) ==
    /\ c \in problem.fix[i]
    /\ Evaluated({i, c}, f)
    /\ \/ /\ c \notin Members(list)
          /\ refilled = list (+) One(c)
          /\ found' = {x \in {i, c} : IsNew(x, f[x])}
          /\ dropped' = dropped
       \/ /\ c \in Members(list)
          /\ refilled = list
          /\ found' = {}
          /\ dropped' = dropped \cup {x \in {i, c} : IsNew(x, f[x])}

LEMMA RefillEvaluates ==
  ASSUME problem \in Problem, NEW list, NEW refilled, Refill(list, refilled)
  PROVE  \E i \in Individual, c \in Individual : \E f \in FitnessesOf({i, c}) :
            Refills(list, refilled, i, c, f)
<1>1. PICK i \in problem.trees : \E c \in problem.fix[i] :
        \E f \in FitnessesOf({i, c}) :
           LET new == {x \in {i, c} : IsNew(x, f[x])}
           IN  /\ Evaluated({i, c}, f)
               /\ IF c \notin Members(list)
                  THEN refilled = list (+) One(c) /\ found' = new /\ dropped' = dropped
                  ELSE refilled = list /\ found' = {} /\ dropped' = dropped \cup new
  BY DEF Refill
<1>2. \E c \in problem.fix[i] : \E f \in FitnessesOf({i, c}) : Refills(list, refilled, i, c, f)
  BY <1>1 DEF Refills
<1>3. i \in Individual /\ \A c \in problem.fix[i] : c \in Individual
  BY FixedAreTrees, ProblemAssumption
<1> QED
  BY <1>2, <1>3

LEMMA FillKeepsRankingInv ==
  ASSUME RankingInv, FillPopulation \/ RefillPopulation
  PROVE  RankingInv'
<1>1. UNCHANGED <<problem, evaluation, call>> /\ pc' = pc /\ problem \in Problem
      /\ pc \in {"fill", "refill"}
  BY DEF FillPopulation, RefillPopulation, session, RankingInv
<1>2. PICK list, refilled : /\ Refill(list, refilled)
                            /\ \/ population' = population
                               \/ list = population /\ refilled = population'
  BY DEF FillPopulation, RefillPopulation
<1>3. PICK i \in Individual, c \in Individual : \E f \in FitnessesOf({i, c}) :
        Evaluated({i, c}, f) /\ (refilled = list \/ refilled = list (+) One(c))
  BY <1>1, <1>2, RefillEvaluates DEF Refills
<1>4. PICK f \in FitnessesOf({i, c}) : Evaluated({i, c}, f)
  BY <1>3
<1>5. /\ cache' \in [Individual -> Fitness \cup {NoFitness}]
      /\ \A k \in Individual : cache'[k] # NoFitness => cache'[k] \in problem.fitness[k]
  BY <1>4, EvaluatedFits
<1>6. population' = population \/ population' = population (+) One(c)
  BY <1>2, <1>3
<1>7. Members(population)' \subseteq Individual /\ Counted(population)'
  <2>1. CASE population' = population
    BY <2>1 DEF RankingInv, Members, BagToSet, Counted
  <2>2. CASE population' = population (+) One(c)
    <3>1. Members(population') = Members(population) \cup {c}
      BY <2>2, MembersOf
    <3>2. Counted(population')
      BY <2>2, AddIsCounted DEF RankingInv
    <3> QED
      BY <3>1, <3>2 DEF RankingInv
  <2> QED
    BY <1>6, <2>1, <2>2
<1> QED
  BY <1>1, <1>5, <1>7 DEF RankingInv, Cached, Members, BagToSet

\* A fixed tree is added, while the ranking is an old one.
LEMMA FixKeepsRankingInv ==
  ASSUME RankingInv, NEW i \in Individual, FixIndividual(i)
  PROVE  RankingInv'
<1>1. /\ UNCHANGED <<problem, evaluation, call, cache>> /\ pc' = "fix"
  BY DEF FixIndividual, session, evaluator
<1>2. PICK c \in problem.fix[i] : population' = population (+) One(c)
  BY DEF FixIndividual
<1>3. Members(population') \subseteq Individual /\ Counted(population')
  <2>1. c \in Individual
    BY FixedAreTrees DEF RankingInv
  <2>2. Members(population) \subseteq Individual /\ Counted(population)
    BY DEF RankingInv
  <2>3. Members(population') = Members(population) \cup {c}
    BY <1>2, MembersOf
  <2>4. Counted(population')
    BY <1>2, <2>2, AddIsCounted
  <2> QED
    BY <2>1, <2>2, <2>3, <2>4
<1> QED
  BY <1>1, <1>3 DEF RankingInv, Cached, Members, BagToSet

LEMMA EvaluatingKeepsRankingInv ==
  ASSUME RankingInv, (\E i \in Individual : Evaluate(i)) \/ StartMutation,
         pc = "crossover" => Members(new_population) \subseteq Individual
  PROVE  RankingInv'
<1>1. CASE \E i \in Individual : Evaluate(i)
  <2>1. PICK i \in Individual : Evaluate(i)
    BY <1>1
  <2>2. PICK f \in FitnessesOf({i}) : Evaluated({i}, f)
    BY <2>1 DEF Evaluate
  <2>3. /\ cache' \in [Individual -> Fitness \cup {NoFitness}]
        /\ \A k \in Individual : cache'[k] # NoFitness => cache'[k] \in problem.fitness[k]
    BY <2>2, EvaluatedFits
  <2>4. UNCHANGED <<problem, evaluation, population, call, pc, todo>>
    BY <2>1 DEF Evaluate, session
  <2>5. pc \in {"evaluate initial", "evaluate"} => todo = population
    BY DEF RankingInv
  <2> QED
    BY <2>3, <2>4, <2>5, RankingUntouched
<1>2. CASE StartMutation
  <2>1. PICK f \in FitnessesOf(Members(new_population)) : Evaluated(DOMAIN f, f)
    BY <1>2 DEF StartMutation
  <2>2. Members(new_population) \in SUBSET Individual /\ DOMAIN f = Members(new_population)
    BY <1>2, <2>1 DEF StartMutation, FitnessesOf
  <2>3. /\ cache' \in [Individual -> Fitness \cup {NoFitness}]
        /\ \A k \in Individual : cache'[k] # NoFitness => cache'[k] \in problem.fitness[k]
    BY <2>1, <2>2, EvaluatedFits
  <2>4. UNCHANGED <<problem, evaluation, population, call>> /\ pc' = "mutation"
    BY <1>2 DEF StartMutation, session
  <2> QED
    BY <2>3, <2>4, RankingUntouched
<1> QED
  BY <1>1, <1>2

LEMMA FlushKeepsRankingInv ==
  ASSUME RankingInv, FlushCache
  PROVE  RankingInv'
<1>1. /\ UNCHANGED <<problem, evaluation, population, call>>
      /\ pc' = "evaluate" /\ todo' = population
      /\ cache' = cache \/ cache' = [i \in Individual |-> NoFitness]
  BY DEF FlushCache, session
<1>2. /\ cache' \in [Individual -> Fitness \cup {NoFitness}]
      /\ \A k \in Individual : cache'[k] # NoFitness => cache'[k] \in problem.fitness[k]
  BY <1>1 DEF RankingInv, Cached
<1> QED
  BY <1>1, <1>2, RankingUntouched

\* After the first call the ranking may be one of another population.
LEMMA CallAgainKeepsRankingInv ==
  ASSUME RankingInv, CallAgain
  PROVE  RankingInv'
<1>1. /\ UNCHANGED <<problem, evaluation, population>>
      /\ call' = call + 1 /\ pc' = "start"
      /\ cache' = cache \/ (\E j : cache' = [cache EXCEPT ![j] = NoFitness])
  BY DEF CallAgain
<1>2. call' \in Nat \ {0} /\ call' # 1
  <2>1. call \in Nat \ {0}
    BY DEF RankingInv
  <2> QED
    BY <1>1, <2>1
<1>3. /\ cache \in [Individual -> Fitness \cup {NoFitness}]
      /\ \A k \in Individual : cache[k] # NoFitness => cache[k] \in problem.fitness[k]
  BY DEF RankingInv, Cached
<1>4. /\ cache' \in [Individual -> Fitness \cup {NoFitness}]
      /\ \A k \in Individual : cache'[k] # NoFitness => cache'[k] \in problem.fitness[k]
  BY <1>1, <1>3
<1> QED
  BY <1>1, <1>2, <1>4 DEF RankingInv, Cached, Members, BagToSet, Counted

LEMMA NextKeepsRankingInv ==
  ASSUME RankingInv, [Next]_vars,
         pc = "crossover" => Members(new_population) \subseteq Individual
  PROVE  RankingInv'
<1>1. CASE CallAgain
  BY <1>1, CallAgainKeepsRankingInv
<1>2. CASE FillPopulation \/ RefillPopulation
  BY <1>2, FillKeepsRankingInv
<1>3. CASE StartMutation \/ (\E i \in Individual : Evaluate(i))
  BY <1>3, EvaluatingKeepsRankingInv
<1>4. CASE FlushCache
  BY <1>4, FlushKeepsRankingInv
<1>5. ASSUME NEW i \in Individual, FixIndividual(i)
      PROVE  RankingInv'
  BY <1>5, FixKeepsRankingInv
<1>6. CASE EvaluateInitial \/ EvaluateGeneration
  <2>1. /\ AllCached /\ pc \in {"evaluate initial", "evaluate"} /\ pc' = "loop"
        /\ UNCHANGED <<problem, population, cache, call>>
        /\ \/ evaluation' = WithFitness(population)
           \/ evaluation' \in Top(WithFitness(population), PopulationSize)
    BY <1>6 DEF EvaluateInitial, EvaluateGeneration, session, evaluator
  <2>2. todo = population
    BY <2>1 DEF RankingInv
  <2> QED
    BY <2>1, <2>2, RankingIsCurrent
<1>7. CASE Refilled
  <2>1. /\ UNCHANGED <<problem, evaluation, cache, call>> /\ pc' = "fix"
        /\ population' = EmptyBag
    BY <1>7 DEF Refilled, session, evaluator
  <2>2. Members(population') = {}
    BY <2>1, MembersOf
  <2>3. Counted(population')
    BY <2>2 DEF Counted
  <2> QED
    BY <2>1, <2>2, <2>3 DEF RankingInv, Cached, Members, BagToSet
<1>8. CASE Filled
  BY <1>8, QuietRanking DEF Filled, session, evaluator
<1>9. CASE Start \/ Finish \/ Select \/ Crossover \/ Deduplicate
  <2>1. /\ UNCHANGED <<problem, evaluation, population, call, cache>>
        /\ pc' \notin {"evaluate initial", "evaluate"}
        /\ pc' \in {"start", "loop"} => pc \in {"start", "loop"}
    BY <1>9 DEF Start, Finish, Select, Crossover, Deduplicate, session, evaluator
  <2> QED
    BY <2>1, QuietRanking
<1>10. ASSUME NEW i \in Individual,
              YieldInitial(i) \/ YieldFound(i) \/ AddChild(i) \/ Mutate(i)
       PROVE  RankingInv'
  <2>1. /\ UNCHANGED <<problem, evaluation, population, call, cache, pc>>
        /\ pc' \notin {"evaluate initial", "evaluate"}
    BY <1>10 DEF YieldInitial, YieldFound, AddChild, Mutate, Filling, session, evaluator
  <2> QED
    BY <2>1, QuietRanking
<1>11. CASE UNCHANGED vars
  <2>1. UNCHANGED <<problem, evaluation, population, call, cache, pc, todo>>
    BY <1>11 DEF vars
  <2>2. pc \in {"evaluate initial", "evaluate"} => todo = population
    BY DEF RankingInv
  <2> QED
    BY <2>1, <2>2, QuietRanking
<1> QED
  BY <1>1, <1>2, <1>3, <1>4, <1>5, <1>6, <1>7, <1>8, <1>9, <1>10, <1>11
     DEF Next, GenerateStep
-------------------------------------------------------------------------------
(* What is known is not a new solution.                                    *)

\* Evaluating i does not find a solution: its fitness is in the cache, or it has been
\* a solution before.
Known(i) == Cached(i) \/ i \in solution_set

\* Without soft constraints, what has been evaluated stays known.
KnownLists ==
    /\ \A x \in Members(evaluation) : Known(x[1])
    /\ pc = "crossover" => \A i \in Members(new_population) : Known(i)
    /\ pc \in {"start", "fill"} /\ call = 1 => \A i \in Members(population) : Known(i)

\* Solutions wait to be yielded only while a refill goes on, and the caller can leave them
\* only where it has got another of the same refill.
KnownInv ==
    /\ found # {} => Filling /\ suspended \in {"no", "list"}
    /\ suspended = "evaluate" => yielded # <<>>
    /\ pc = "crossover" => Members(new_population) \subseteq Individual
    /\ ~ Soft => KnownLists

EvolutionInv == IInv /\ RankingInv /\ KnownInv

LEMMA InitKnownInv == Init => KnownInv
<1> SUFFICES ASSUME Init PROVE KnownInv
  OBVIOUS
<1>1. found = {} /\ suspended = "no" /\ pc = "start"
  BY DEF Init
<1>2. PICK f \in [problem.initial -> Fitness] :
        /\ population = SetToBag(problem.initial)
        /\ evaluation = SetToBag({<<i, f[i]>> : i \in problem.initial})
        /\ cache = [i \in Individual |-> IF i \in problem.initial THEN f[i] ELSE NoFitness]
  BY DEF Init
<1>3. /\ Members(population) = problem.initial
      /\ Members(evaluation) = {<<i, f[i]>> : i \in problem.initial}
  BY <1>2, MembersOf
<1>4. problem.initial \subseteq Individual
  BY ProblemAssumption DEF Init
<1>5. \A i \in problem.initial : Known(i)
  BY <1>2, <1>4, SizeAssumption DEF Known, Cached
<1>6. KnownLists
  BY <1>1, <1>3, <1>5 DEF KnownLists
<1> QED
  BY <1>1, <1>6 DEF KnownInv

\* Without soft constraints nothing is flushed, and what is not cached when a call is
\* abandoned has been yielded.
LEMMA EvaluatedStaysKnown ==
  ASSUME RankingInv, NEW S \in SUBSET Individual, NEW f \in FitnessesOf(S), Evaluated(S, f)
  PROVE  /\ \A i \in Individual : Known(i) => Known(i)'
         /\ \A i \in S : Known(i)'
<1>1. /\ \A i \in Individual : cache[i] # NoFitness => cache'[i] # NoFitness
      /\ \A i \in S : f[i] # NoFitness
  BY EvaluatedFits
<1>2. \A i \in S : cache'[i] = f[i]
  BY DEF Evaluated
<1>3. solution_set \subseteq solution_set'
  BY DEF Evaluated
<1> QED
  BY <1>1, <1>2, <1>3 DEF Known, Cached

LEMMA KnownStays ==
  ASSUME EvolutionInv, ~ Soft, [Next]_vars
  PROVE  \A i \in Individual : Known(i) => Known(i)'
<1>1. RankingInv /\ KnownInv /\ IInv
  BY DEF EvolutionInv
<1>2. CASE FillPopulation \/ RefillPopulation
  <2>1. PICK list, refilled : Refill(list, refilled)
    BY <1>2 DEF FillPopulation, RefillPopulation
  <2>2. PICK i \in Individual, c \in Individual : \E f \in FitnessesOf({i, c}) :
          Evaluated({i, c}, f)
    BY <1>1, <2>1, RefillEvaluates DEF RankingInv, Refills
  <2> QED
    BY <1>1, <2>2, EvaluatedStaysKnown
<1>3. CASE StartMutation
  <2>1. PICK f \in FitnessesOf(Members(new_population)) : Evaluated(DOMAIN f, f)
    BY <1>3 DEF StartMutation
  <2>2. Members(new_population) \in SUBSET Individual /\ DOMAIN f = Members(new_population)
    BY <1>1, <1>3, <2>1 DEF StartMutation, FitnessesOf, KnownInv
  <2> QED
    BY <1>1, <2>1, <2>2, EvaluatedStaysKnown
<1>4. ASSUME NEW k \in Individual, Evaluate(k)
      PROVE  \A i \in Individual : Known(i) => Known(i)'
  <2>1. \E f \in FitnessesOf({k}) : Evaluated({k}, f)
    BY <1>4 DEF Evaluate
  <2> QED
    BY <1>1, <2>1, EvaluatedStaysKnown
<1>5. CASE CallAgain
  <2>1. CASE suspended # "evaluate"
    BY <1>5, <2>1 DEF CallAgain, Known, Cached
  <2>2. CASE suspended = "evaluate"
    <3> DEFINE j == yielded[Len(yielded)]
    <3>1. solution_set' = solution_set /\ cache' = [cache EXCEPT ![j] = NoFitness]
      BY <1>5, <2>2 DEF CallAgain
    <3>2. j \in solution_set
      <4>1. yielded \in Seq(Individual) /\ yielded # <<>>
        BY <1>1, <2>2 DEF IInv, SolutionTypes, KnownInv
      <4>2. Len(yielded) \in DOMAIN yielded
        BY <4>1
      <4> QED
        BY <1>1, <4>2 DEF IInv, SolutionsAccounted
    <3> HIDE DEF j
    <3>3. \A i \in Individual : i # j => cache'[i] = cache[i]
      BY <1>1, <3>1 DEF RankingInv
    <3> QED
      BY <3>1, <3>2, <3>3 DEF Known, Cached
  <2> QED
    BY <2>1, <2>2
<1>6. CASE OtherStep
  <2>1. cache' = cache /\ solution_set' = solution_set
    BY <1>6 DEF OtherStep, Start, Filled, Refilled, EvaluateInitial, EvaluateGeneration, Finish,
       Select, Crossover, Deduplicate, FlushCache, AddChild, Mutate, FixIndividual, evaluator
  <2> QED
    BY <2>1 DEF Known, Cached
<1>7. ASSUME NEW k \in Individual, YieldInitial(k) \/ YieldFound(k)
      PROVE  cache' = cache /\ solution_set' = solution_set
  BY <1>7 DEF YieldInitial, YieldFound
<1>8. CASE UNCHANGED vars
  BY <1>8 DEF vars, Known, Cached
<1> QED
  BY <1>2, <1>3, <1>4, <1>5, <1>6, <1>7, <1>8 DEF Next, GenerateStep, OtherStep, Known, Cached

\* Steps that change none of the lists.
LEMMA KnownListsStay ==
  ASSUME RankingInv, KnownLists, \A i \in Individual : Known(i) => Known(i)',
         evaluation' = evaluation, call' = call,
         pc' = "crossover" => /\ pc = "crossover" /\ new_population' = new_population
                              /\ Members(new_population) \subseteq Individual,
         pc' \in {"start", "fill"} => pc \in {"start", "fill"} /\ population' = population
  PROVE  KnownLists'
<1>1. \A x \in Members(evaluation) : x[1] \in Individual
  BY DEF RankingInv
<1>2. Members(population) \subseteq Individual
  BY DEF RankingInv
<1>3. \A x \in Members(evaluation') : Known(x[1])'
  BY <1>1 DEF KnownLists
<1>4. pc' = "crossover" => \A i \in Members(new_population') : Known(i)'
  BY DEF KnownLists
<1>5. pc' \in {"start", "fill"} /\ call' = 1 => \A i \in Members(population') : Known(i)'
  BY <1>2 DEF KnownLists
<1> QED
  BY <1>3, <1>4, <1>5 DEF KnownLists, Members, BagToSet

LEMMA FillKeepsKnownInv ==
  ASSUME EvolutionInv, FillPopulation \/ RefillPopulation
  PROVE  KnownInv'
<1>1. RankingInv /\ KnownInv /\ problem \in Problem /\ [Next]_vars
  BY DEF EvolutionInv, RankingInv, Next, GenerateStep
<1>2. /\ UNCHANGED <<problem, evaluation, call, pc, yielded>> /\ suspended' = "no"
      /\ pc \in {"fill", "refill"}
  BY DEF FillPopulation, RefillPopulation, Refill, session
<1>3. PICK list, refilled :
        /\ Refill(list, refilled)
        /\ \/ population' = population /\ pc = "refill"
           \/ list = population /\ refilled = population' /\ pc = "fill"
  BY DEF FillPopulation, RefillPopulation
<1>4. PICK i \in Individual, c \in Individual : \E f \in FitnessesOf({i, c}) :
            Refills(list, refilled, i, c, f)
  BY <1>1, <1>3, RefillEvaluates
<1>5. PICK f \in FitnessesOf({i, c}) :
        /\ Evaluated({i, c}, f)
        /\ refilled = list \/ refilled = list (+) One(c)
  BY <1>4 DEF Refills
<1>6. ASSUME ~ Soft
      PROVE  KnownLists'
  <2>1. KnownLists /\ \A k \in Individual : Known(k) => Known(k)'
    BY <1>1, <1>6, KnownStays DEF KnownInv
  <2>2. Known(c)'
    BY <1>1, <1>5, EvaluatedStaysKnown
  <2>3. \A x \in Members(evaluation') : Known(x[1])'
    BY <1>1, <1>2, <2>1 DEF KnownLists, RankingInv
  <2>4. pc = "fill" => \A k \in Members(population') : k \in Members(population) \/ k = c
    BY <1>3, <1>5, MembersOf
  <2>5. pc' \in {"start", "fill"} /\ call' = 1 => \A k \in Members(population') : Known(k)'
    <3>1. Members(population) \subseteq Individual
      BY <1>1 DEF RankingInv
    <3> QED
      BY <1>2, <2>1, <2>2, <2>4, <3>1 DEF KnownLists
  <2> QED
    BY <1>2, <2>3, <2>5 DEF KnownLists, Members, BagToSet
<1>7. Soft' = Soft
  BY <1>2 DEF Soft
<1> QED
  BY <1>2, <1>6, <1>7 DEF KnownInv, Filling

LEMMA EvaluateKeepsKnownInv ==
  ASSUME EvolutionInv, NEW i \in Individual, Evaluate(i)
  PROVE  KnownInv'
<1>1. RankingInv /\ KnownInv /\ IInv /\ [Next]_vars
  BY DEF EvolutionInv, Next, GenerateStep
<1>2. /\ UNCHANGED <<problem, evaluation, population, new_population, call, pc, found>>
      /\ found = {}
      /\ suspended' = "evaluate" => yielded' = Append(yielded, i)
  BY DEF Evaluate, session
<1>3. suspended' = "evaluate" => yielded' # <<>>
  <2>1. yielded \in Seq(Individual)
    BY <1>1 DEF IInv, SolutionTypes
  <2>2. Len(Append(yielded, i)) = Len(yielded) + 1 /\ Len(yielded) \in Nat
    BY <2>1
  <2>3. Append(yielded, i) = <<>> => Len(Append(yielded, i)) = 0
    OBVIOUS
  <2> QED
    BY <1>2, <2>2, <2>3
<1>4. ASSUME ~ Soft PROVE KnownLists'
  <2>1. KnownLists /\ \A k \in Individual : Known(k) => Known(k)'
    BY <1>1, <1>4, KnownStays DEF KnownInv
  <2>2. pc = "crossover" => Members(new_population) \subseteq Individual
    BY <1>1 DEF KnownInv
  <2> QED
    BY <1>1, <1>2, <2>1, <2>2, KnownListsStay
<1>5. Soft' = Soft
  BY <1>2 DEF Soft
<1> QED
  BY <1>1, <1>2, <1>3, <1>4, <1>5 DEF KnownInv, Members, BagToSet

LEMMA YieldKeepsKnownInv ==
  ASSUME EvolutionInv, NEW i \in Individual, YieldInitial(i) \/ YieldFound(i)
  PROVE  KnownInv'
<1>1. RankingInv /\ KnownInv /\ [Next]_vars
  BY DEF EvolutionInv, Next, GenerateStep
<1>2. /\ UNCHANGED <<problem, evaluation, population, new_population, call, pc>>
      /\ suspended' = "list"
  BY DEF YieldInitial, YieldFound, session
<1>3. found' # {} => Filling'
  <2>1. CASE YieldInitial(i)
    BY <1>1, <2>1 DEF YieldInitial, KnownInv, Filling
  <2>2. CASE YieldFound(i)
    BY <2>2 DEF YieldFound, Filling
  <2> QED
    BY <2>1, <2>2
<1>4. ASSUME ~ Soft PROVE KnownLists'
  <2>1. KnownLists /\ \A k \in Individual : Known(k) => Known(k)'
    BY <1>1, <1>4, KnownStays DEF KnownInv
  <2>2. pc = "crossover" => Members(new_population) \subseteq Individual
    BY <1>1 DEF KnownInv
  <2> QED
    BY <1>1, <1>2, <2>1, <2>2, KnownListsStay
<1>5. Soft' = Soft
  BY <1>2 DEF Soft
<1> QED
  BY <1>1, <1>2, <1>3, <1>4, <1>5 DEF KnownInv, Members, BagToSet

LEMMA StartMutationKeepsKnownInv ==
  ASSUME EvolutionInv, StartMutation
  PROVE  KnownInv'
<1>1. RankingInv /\ KnownInv /\ [Next]_vars
  BY DEF EvolutionInv, Next, GenerateStep
<1>2. /\ UNCHANGED <<problem, evaluation, call, found>>
      /\ suspended' = "no" /\ pc' = "mutation" /\ pc = "crossover"
  BY DEF StartMutation, session
<1>3. ASSUME ~ Soft PROVE KnownLists'
  BY <1>1, <1>2, <1>3, KnownStays, KnownListsStay DEF KnownInv
<1>4. Soft' = Soft
  BY <1>2 DEF Soft
<1> QED
  BY <1>1, <1>2, <1>3, <1>4 DEF KnownInv, Filling

LEMMA CallAgainKeepsKnownInv ==
  ASSUME EvolutionInv, CallAgain
  PROVE  KnownInv'
<1>1. RankingInv /\ KnownInv /\ [Next]_vars
  BY DEF EvolutionInv, Next
<1>2. /\ UNCHANGED <<problem, evaluation, population>> /\ call' = call + 1
      /\ suspended' = "no" /\ pc' = "start" /\ found' = {}
  BY DEF CallAgain
<1>3. call' # 1
  <2>1. call \in Nat \ {0}
    BY <1>1 DEF RankingInv
  <2> QED
    BY <1>2, <2>1
<1>4. ASSUME ~ Soft PROVE KnownLists'
  <2>1. KnownLists /\ \A k \in Individual : Known(k) => Known(k)'
    BY <1>1, <1>4, KnownStays DEF KnownInv
  <2>2. \A x \in Members(evaluation') : Known(x[1])'
    BY <1>1, <1>2, <2>1 DEF KnownLists, RankingInv
  <2> QED
    BY <1>2, <1>3, <2>2 DEF KnownLists, Members, BagToSet
<1>5. Soft' = Soft
  BY <1>2 DEF Soft
<1> QED
  BY <1>2, <1>4, <1>5 DEF KnownInv

\* The elites are known because the ranking is; children are evaluated first.
LEMMA BreedingKeepsKnownInv ==
  ASSUME EvolutionInv, Select \/ (\E i \in Individual : AddChild(i))
  PROVE  KnownInv'
<1>1. RankingInv /\ KnownInv /\ [Next]_vars
  BY DEF EvolutionInv, Next, GenerateStep
<1>2. /\ UNCHANGED <<problem, evaluation, call, found, cache, solution_set>>
      /\ suspended' = "no" /\ pc' = "crossover" /\ pc \in {"loop", "crossover"}
  BY DEF Select, AddChild, session, evaluator
<1>3. \A i \in Members(new_population') :
         i \in Individual /\ (~ Soft => Known(i))
  <2>1. CASE Select
    <3>1. PICK elites \in Top(evaluation, EliteCount) : new_population' = Individuals(elites)
      BY <2>1 DEF Select
    <3>2. Members(elites) \subseteq Members(evaluation)
      BY MembersOfTop
    <3>3. \A i \in Members(new_population') : \E x \in Members(evaluation) : i = x[1]
      BY <3>1, <3>2, MembersOfIndividuals
    <3> QED
      BY <1>1, <3>3 DEF RankingInv, KnownInv, KnownLists
  <2>2. ASSUME NEW k \in Individual, AddChild(k)
        PROVE  \A i \in Members(new_population') : i \in Individual /\ (~ Soft => Known(i))
    <3>1. /\ pc = "crossover" /\ Cached(k)
          /\ new_population' = new_population \/ new_population' = new_population (+) One(k)
      BY <2>2 DEF AddChild
    <3>2. Members(new_population') \subseteq Members(new_population) \cup {k}
      BY <3>1, MembersOf
    <3>3. \A i \in Members(new_population) : i \in Individual /\ (~ Soft => Known(i))
      BY <1>1, <3>1 DEF KnownInv, KnownLists
    <3> QED
      BY <3>1, <3>2, <3>3 DEF Known
  <2> QED
    BY <2>1, <2>2
<1>4. \A i : Known(i)' <=> Known(i)
  BY <1>2 DEF Known, Cached
<1>5. ASSUME ~ Soft PROVE KnownLists'
  <2>1. \A x \in Members(evaluation') : Known(x[1])'
    BY <1>1, <1>2, <1>4, <1>5 DEF KnownInv, KnownLists
  <2> QED
    BY <1>2, <1>3, <1>4, <1>5, <2>1 DEF KnownLists, Members, BagToSet
<1>6. Soft' = Soft
  BY <1>2 DEF Soft
<1>7. found' = {}
  BY <1>1, <1>2 DEF KnownInv, Filling
<1> QED
  BY <1>2, <1>3, <1>5, <1>6, <1>7 DEF KnownInv, Members, BagToSet

\* A ranking is made of individuals that have just been evaluated.
LEMMA RankingKeepsKnownInv ==
  ASSUME EvolutionInv, EvaluateInitial \/ EvaluateGeneration
  PROVE  KnownInv'
<1>1. RankingInv /\ KnownInv
  BY DEF EvolutionInv
<1>2. /\ UNCHANGED <<problem, call, found, cache, solution_set>>
      /\ suspended' = "no" /\ pc' = "loop" /\ pc \in {"evaluate initial", "evaluate"}
      /\ AllCached
      /\ \/ evaluation' = WithFitness(population)
         \/ evaluation' \in Top(WithFitness(population), PopulationSize)
  BY DEF EvaluateInitial, EvaluateGeneration, session, evaluator
<1>3. \A i \in Members(population) : Cached(i)
  BY <1>1, <1>2 DEF AllCached, RankingInv
<1>4. Members(evaluation') \subseteq Members(WithFitness(population))
  BY <1>2, MembersOfTop
<1>5. \A x \in Members(evaluation') : Known(x[1])
  BY <1>3, <1>4, MembersWithFitness DEF Known
<1>6. \A i : Known(i)' <=> Known(i)
  BY <1>2 DEF Known, Cached
<1>7. KnownLists'
  BY <1>2, <1>5, <1>6 DEF KnownLists, Members, BagToSet
<1>8. found' = {}
  BY <1>1, <1>2 DEF KnownInv, Filling
<1> QED
  BY <1>2, <1>7, <1>8 DEF KnownInv

LEMMA QuietKeepsKnownInv ==
  ASSUME EvolutionInv,
         \/ Start \/ Filled \/ Refilled \/ Finish \/ Crossover \/ Deduplicate \/ FlushCache
         \/ (\E i \in Individual : Mutate(i) \/ FixIndividual(i))
  PROVE  KnownInv'
<1>1. RankingInv /\ KnownInv /\ [Next]_vars
  BY DEF EvolutionInv, Next, GenerateStep
<1>2. /\ UNCHANGED <<problem, evaluation, call, found>> /\ suspended' = "no"
      /\ pc' = "crossover" => pc = "crossover" /\ new_population' = new_population
      /\ pc' \in {"start", "fill"} => pc = "start" /\ population' = population
      /\ pc \in {"fill", "refill"} => found = {}
  <2>1. CASE Start \/ Filled \/ Refilled \/ Finish
    BY <2>1 DEF Start, Filled, Refilled, Finish, session, evaluator
  <2>2. CASE Crossover \/ Deduplicate \/ FlushCache
    BY <2>2 DEF Crossover, Deduplicate, FlushCache, session, evaluator
  <2>3. ASSUME NEW i \in Individual, Mutate(i) \/ FixIndividual(i)
        PROVE  /\ UNCHANGED <<problem, evaluation, call, found>> /\ suspended' = "no"
               /\ pc' \in {"mutation", "fix"} /\ pc \in {"mutation", "fix"}
    BY <2>3 DEF Mutate, FixIndividual, session, evaluator
  <2> QED
    BY <2>1, <2>2, <2>3
<1>3. found' = {}
  BY <1>1, <1>2 DEF KnownInv, Filling
<1>4. ASSUME ~ Soft PROVE KnownLists'
  <2>1. KnownLists /\ \A k \in Individual : Known(k) => Known(k)'
    BY <1>1, <1>4, KnownStays DEF KnownInv
  <2>2. pc = "crossover" => Members(new_population) \subseteq Individual
    BY <1>1 DEF KnownInv
  <2> QED
    BY <1>1, <1>2, <2>1, <2>2, KnownListsStay
<1>5. Soft' = Soft
  BY <1>2 DEF Soft
<1> QED
  BY <1>1, <1>2, <1>3, <1>4, <1>5 DEF KnownInv, Members, BagToSet

LEMMA NextKeepsEvolutionInv ==
  ASSUME EvolutionInv, [Next]_vars
  PROVE  EvolutionInv'
<1>1. IInv' /\ RankingInv'
  BY NextKeepsIInv, NextKeepsRankingInv DEF EvolutionInv, KnownInv
<1> SUFFICES KnownInv'
  BY <1>1 DEF EvolutionInv
<1>2. CASE CallAgain
  BY <1>2, CallAgainKeepsKnownInv
<1>3. CASE FillPopulation \/ RefillPopulation
  BY <1>3, FillKeepsKnownInv
<1>4. CASE StartMutation
  BY <1>4, StartMutationKeepsKnownInv
<1>5. ASSUME NEW i \in Individual, Evaluate(i)
      PROVE  KnownInv'
  BY <1>5, EvaluateKeepsKnownInv
<1>6. ASSUME NEW i \in Individual, YieldInitial(i) \/ YieldFound(i)
      PROVE  KnownInv'
  BY <1>6, YieldKeepsKnownInv
<1>7. CASE Select \/ (\E i \in Individual : AddChild(i))
  BY <1>7, BreedingKeepsKnownInv
<1>8. CASE EvaluateInitial \/ EvaluateGeneration
  BY <1>8, RankingKeepsKnownInv
<1>9. CASE Start \/ Filled \/ Refilled \/ Finish \/ Crossover \/ Deduplicate \/ FlushCache
           \/ (\E i \in Individual : Mutate(i) \/ FixIndividual(i))
  BY <1>9, QuietKeepsKnownInv
<1>10. CASE UNCHANGED vars
  <2>1. /\ UNCHANGED <<problem, evaluation, population, new_population, call, pc, found,
                       suspended, yielded>>
        /\ \A i : Known(i)' <=> Known(i)
    BY <1>10 DEF vars, Known, Cached
  <2>2. KnownInv /\ Soft' = Soft /\ KnownLists' = KnownLists
    BY <2>1 DEF EvolutionInv, Soft, KnownLists, Members, BagToSet
  <2> QED
    BY <2>1, <2>2 DEF KnownInv, Filling, Members, BagToSet
<1> QED
  BY <1>2, <1>3, <1>4, <1>5, <1>6, <1>7, <1>8, <1>9, <1>10 DEF Next, GenerateStep

\* What the ranking and the lists say of the trees stays true: the ranking is that of the
\* population, and what was evaluated is not a new solution again.
THEOREM EvolutionInvAlways == Spec => []EvolutionInv
<1>1. Init => EvolutionInv
  BY InitIInv, InitRankingInv, InitKnownInv DEF EvolutionInv
<1> QED
  BY <1>1, NextKeepsEvolutionInv, PTL DEF Spec

\* A generation breeds from the ranking of the population that the generation before, or
\* the constructor, has left, whichever trees were generated and fixed.
THEOREM EvaluationAlwaysCurrent == Spec => []EvaluationIsCurrent
<1>1. EvolutionInv => EvaluationIsCurrent
  BY DEF EvolutionInv, RankingInv, IsCurrent, EvaluationIsCurrent
<1> QED
  BY <1>1, EvolutionInvAlways, PTL
-------------------------------------------------------------------------------
(* Where solutions are lost.                                               *)

\* compute_mutation_pool() finds no solution: elites and children were evaluated.
LEMMA MutationPoolDropsNothing ==
  ASSUME EvolutionInv, ~ Soft, StartMutation
  PROVE  dropped' = dropped
<1>1. PICK f \in FitnessesOf(Members(new_population)) :
        dropped' = dropped \cup {i \in DOMAIN f : IsNew(i, f[i])}
  BY DEF StartMutation
<1>2. DOMAIN f = Members(new_population)
  BY DEF FitnessesOf
<1>3. \A i \in Members(new_population) : Known(i)
  BY DEF EvolutionInv, KnownInv, KnownLists, StartMutation
<1>4. {i \in DOMAIN f : IsNew(i, f[i])} = {}
  BY <1>2, <1>3 DEF Known, IsNew
<1> QED
  BY <1>1, <1>4

\* Refilling drops a tree that is fixed into one of the list, or one that the list has;
\* it knows all of the population in the first call.
DroppedByRefill(i) ==
    /\ Filling /\ found = {}
    /\ \/ i \in FixedInto(BeingFilled)
       \/ (pc = "refill" \/ (pc = "fill" /\ call > 1)) /\ i \in Members(BeingFilled)

LEMMA RefillDropsForReason ==
  ASSUME EvolutionInv, ~ Soft, FillPopulation \/ RefillPopulation,
         NEW x \in dropped' \ dropped
  PROVE  DroppedByRefill(x)
<1>1. problem \in Problem /\ call \in Nat \ {0}
  BY DEF EvolutionInv, RankingInv
<1>2. PICK list, refilled :
        /\ Refill(list, refilled) /\ list = BeingFilled /\ Filling
        /\ pc = "fill" => list = population
  BY DEF FillPopulation, RefillPopulation, BeingFilled, Filling
<1>3. PICK i \in Individual, c \in Individual : \E f \in FitnessesOf({i, c}) :
            Refills(list, refilled, i, c, f)
  BY <1>1, <1>2, RefillEvaluates
<1>4. PICK f \in FitnessesOf({i, c}) :
            /\ c \in problem.fix[i] /\ c \in Members(list)
            /\ dropped' = dropped \cup {k \in {i, c} : IsNew(k, f[k])}
  BY <1>3 DEF Refills
<1>5. found = {}
  BY <1>2 DEF Refill
<1>6. x \in {i, c} /\ ~ Known(x)
  BY <1>4 DEF Known, IsNew
<1>7. CASE x = c
  <2>1. pc = "fill" => call # 1
    BY <1>2, <1>4, <1>6, <1>7 DEF EvolutionInv, KnownInv, KnownLists
  <2>2. call # 1 => call > 1
    BY <1>1
  <2> QED
    BY <1>2, <1>4, <1>5, <1>7, <2>1, <2>2 DEF DroppedByRefill, Filling
<1>8. CASE x = i /\ x # c
  <2>1. x \in FixedInto(BeingFilled)
    BY <1>2, <1>4, <1>8 DEF FixedInto
  <2> QED
    BY <1>2, <1>5, <2>1 DEF DroppedByRefill
<1> QED
  BY <1>6, <1>7, <1>8

\* With hard constraints only, a solution is lost only by refilling, which generates a
\* tree that the list has, not evaluated, or that is fixed into one that the list has; or
\* by a caller who leaves when he has got the first of two that refilling found.
THEOREM DropsHaveReasons == Spec => DroppedForReason
<1> DEFINE Reason(i) ==
          \/ Filling /\ found = {} /\ i \in FixedInto(BeingFilled)
          \/ /\ pc = "refill" \/ (pc = "fill" /\ call > 1)
             /\ found = {} /\ i \in Members(BeingFilled)
          \/ suspended = "list" /\ i \in found
<1> DEFINE Reasons == ~ Soft => \A i \in dropped' \ dropped : Reason(i)
<1>1. EvolutionInv /\ [Next]_vars => [Reasons]_vars
  <2> SUFFICES ASSUME EvolutionInv, Next, ~ Soft, NEW x \in dropped' \ dropped
               PROVE  Reason(x)
    OBVIOUS
  <2>1. CASE CallAgain
    <3>1. x \in found
      BY <2>1 DEF CallAgain
    <3>2. pc # "done" /\ suspended \in {"no", "list"}
      BY <3>1 DEF EvolutionInv, KnownInv, Filling
    <3>3. suspended = "list"
      BY <2>1, <3>2 DEF CallAgain
    <3> QED
      BY <3>1, <3>3
  <2>2. CASE StartMutation
    BY <2>2, MutationPoolDropsNothing
  <2>3. CASE FillPopulation \/ RefillPopulation
    BY <2>3, RefillDropsForReason DEF DroppedByRefill
  <2>4. CASE OtherStep
    BY <2>4 DEF OtherStep, Start, Filled, Refilled, EvaluateInitial, EvaluateGeneration, Finish,
       Select, Crossover, Deduplicate, FlushCache, AddChild, Mutate, FixIndividual, evaluator
  <2>5. ASSUME NEW i \in Individual, YieldInitial(i) \/ YieldFound(i) \/ Evaluate(i)
        PROVE  FALSE
    BY <2>5 DEF YieldInitial, YieldFound, Evaluate
  <2> QED
    BY <2>1, <2>2, <2>3, <2>4, <2>5 DEF Next, GenerateStep, OtherStep
<1> QED
  BY <1>1, EvolutionInvAlways, PTL DEF Spec, DroppedForReason
-------------------------------------------------------------------------------
(* A solution is kept.                                                     *)

Positive(list) == \A x \in Members(list) : list[x] \in Nat \ {0}

Holds(list) == \E i \in Members(list) : i \in Individual /\ Expected \in problem.fitness[i]

\* Where a solution of the ranking is until the next ranking is made.
SolutionInLists ==
    /\ pc \in {"start", "fill", "evaluate initial", "evaluate"} => Holds(population)
    /\ pc \in {"crossover", "mutation", "refill"} => Holds(new_population)
    /\ pc = "fix" => Holds(todo) \/ Holds(population)

KeptInv ==
    /\ Positive(population) /\ Positive(evaluation)
    /\ pc = "refill" => Positive(new_population)
    /\ pc = "fix" => Positive(todo)
    /\ KeepsRank /\ FixingKeepsSolutions /\ HasSolution /\ call = 1 => SolutionInLists

\* An entry is added, or removed.
LEMMA PositiveAdded ==
  ASSUME NEW list, NEW x, Positive(list)
  PROVE  Positive(list (+) One(x))
<1>1. DOMAIN (list (+) One(x)) = DOMAIN list \cup {x}
  BY DEF (+), One, SetToBag
<1>2. \A e \in DOMAIN list \cup {x} : (list (+) One(x))[e] =
        (IF e \in DOMAIN list THEN list[e] ELSE 0) + (IF e \in {x} THEN 1 ELSE 0)
  BY DEF (+), One, SetToBag
<1>3. \A e \in DOMAIN list : list[e] \in Nat \ {0}
  BY DEF Positive, Members, BagToSet
<1>4. \A e \in DOMAIN list \cup {x} : (list (+) One(x))[e] \in Nat \ {0}
  BY <1>2, <1>3
<1> QED
  BY <1>1, <1>4 DEF Positive, Members, BagToSet

LEMMA PositiveRemoved ==
  ASSUME NEW list, NEW x, Positive(list)
  PROVE  /\ Positive(list (-) One(x))
         /\ Members(list) \ {x} \subseteq Members(list (-) One(x))
<1> DEFINE left == [e \in DOMAIN list |-> IF e = x THEN list[e] - 1 ELSE list[e]]
<1>1. DOMAIN One(x) = {x} /\ One(x)[x] = 1
  BY DEF One, SetToBag
<1>2. list (-) One(x) = [e \in {d \in DOMAIN left : left[d] > 0} |-> left[e]]
  <2>1. left = [e \in DOMAIN list |-> IF e \in DOMAIN One(x) THEN list[e] - One(x)[e] ELSE list[e]]
    BY <1>1
  <2> HIDE DEF left
  <2> QED
    BY <2>1 DEF (-)
<1>3. \A e \in DOMAIN list : list[e] \in Nat \ {0}
  BY DEF Positive, Members, BagToSet
<1>4. /\ DOMAIN left = DOMAIN list
      /\ \A e \in DOMAIN list : left[e] = IF e = x THEN list[e] - 1 ELSE list[e]
  OBVIOUS
<1> HIDE DEF left
<1>5. \A e \in DOMAIN list : left[e] \in Nat /\ (e # x => left[e] > 0)
  BY <1>3, <1>4
<1> QED
  BY <1>2, <1>4, <1>5 DEF Positive, Members, BagToSet

\* If a solution is ranked then the best n have one, when n > 0.
LEMMA TopHasSolution ==
  ASSUME NEW list, NEW n \in Nat \ {0}, NEW kept \in Top(list, n),
         ~ problem.diversity, Positive(list),
         \A x \in Members(list) : x[2] \in Nat,
         NEW best \in Members(list), best[2] >= Expected
  PROVE  \E x \in Members(kept) : x[2] >= Expected
<1>1. /\ Members(kept) \subseteq Members(list)
      /\ \A x \in Members(kept), y \in Members(list (-) kept) : x[2] >= y[2]
      /\ kept = list \/ Length(kept) = n
  BY MembersOfTop DEF Top, Outranks
<1>2. CASE best \in Members(kept)
  BY <1>2
<1>3. CASE best \notin Members(kept)
  <2>1. Length(kept) = n
    BY <1>1, <1>3
  <2>2. Members(kept) # {}
    <3>1. ASSUME Members(kept) = {} PROVE Length(kept) = 0
      <4>1. UNION {{x} \X (1..kept[x]) : x \in Members(kept)} = {}
        BY <3>1
      <4> QED
        BY <4>1, FS_EmptySet DEF Length
    <3> QED
      BY <2>1, <3>1
  <2>3. PICK x \in Members(kept) : TRUE
    BY <2>2
  <2>4. best \in Members(list (-) kept)
    <3>1. list[best] > 0
      BY DEF Positive
    <3> QED
      BY <1>3, <3>1 DEF Members, BagToSet, (-)
  <2>5. x[2] >= best[2] /\ x[2] \in Nat /\ best[2] \in Nat /\ Expected \in Nat
    BY <1>1, <2>3, <2>4, SizeAssumption
  <2> QED
    BY <2>3, <2>5
<1> QED
  BY <1>2, <1>3

LEMMA PositiveTop ==
  ASSUME NEW list, NEW n \in Nat, NEW kept \in Top(list, n)
  PROVE  Positive(kept)
<1>1. PICK S \in SUBSET Members(list) : kept \in [S -> 1..n]
  BY DEF Top, BagOver
<1>2. Members(kept) = S
  BY <1>1 DEF Members, BagToSet
<1>3. \A x \in S : kept[x] \in 1..n
  BY <1>1
<1> QED
  BY <1>2, <1>3 DEF Positive

\* With hard constraints only, a tree has one fitness.
LEMMA OneFitness ==
  ASSUME problem \in Problem, ~ Soft, NEW i \in Individual,
         NEW f \in problem.fitness[i], NEW g \in problem.fitness[i]
  PROVE  f = g
<1> DEFINE S == problem.fitness[i]
<1>1. S \in SUBSET (0..Expected) /\ Expected \in Int /\ 0 \in Int
  BY ProblemAssumption, SizeAssumption DEF Fitness
<1>2. IsFiniteSet(0..Expected)
  BY <1>1, FS_Interval
<1>3. IsFiniteSet(S)
  BY <1>1, <1>2, FS_Subset
<1>4. Cardinality(S) \in Nat
  BY <1>3, FS_CardinalityType
<1>5. ~ Cardinality(S) > 1
  BY DEF Soft
<1>6. SUFFICES ASSUME f # g PROVE FALSE
  OBVIOUS
<1>7. Cardinality({f, g}) = 2
  <2>1. IsFiniteSet({f}) /\ Cardinality({f}) = 1
    BY FS_Singleton
  <2>2. {f, g} = {f} \cup {g} /\ g \notin {f}
    BY <1>6
  <2>3. Cardinality({f} \cup {g}) = Cardinality({f}) + 1
    BY <2>1, <2>2, FS_AddElement
  <2> QED
    BY <2>1, <2>2, <2>3
<1>8. {f, g} \in SUBSET S
  OBVIOUS
<1> HIDE DEF S
<1>9. Cardinality({f, g}) <= Cardinality(S)
  BY <1>3, <1>8, FS_Subset
<1> QED
  BY <1>4, <1>5, <1>7, <1>9

LEMMA HoldsAdded ==
  ASSUME NEW list, NEW x, Holds(list)
  PROVE  Holds(list (+) One(x))
BY MembersOf DEF Holds

\* What a ranking, or the population it is of, has of solutions.
LEMMA RankedHolds ==
  ASSUME RankingInv, HasSolution, IsCurrent
  PROVE  \E x \in Members(evaluation) :
            x[2] >= Expected /\ x[1] \in Members(population) /\ x[1] \in Individual
                /\ Expected \in problem.fitness[x[1]]
<1>1. PICK x \in Members(evaluation) : x[2] >= Expected
  BY DEF HasSolution
<1>2. /\ x[1] \in Members(population) /\ x[1] \in Individual
      /\ x[2] \in problem.fitness[x[1]]
  BY DEF IsCurrent, RankingInv
<1>3. problem.fitness[x[1]] \in SUBSET (0..Expected) /\ Expected \in Nat
  BY <1>2, ProblemAssumption, SizeAssumption DEF RankingInv, Fitness
<1>4. x[2] = Expected
  BY <1>1, <1>2, <1>3
<1> QED
  BY <1>1, <1>2, <1>4

\* A step that changes nothing of this but may add to the lists of this phase.
LEMMA KeptUntouched ==
  ASSUME KeptInv, UNCHANGED <<problem, evaluation, call>>,
         Positive(population'),
         pc' = "refill" => Positive(new_population'),
         pc' = "fix" => Positive(todo'),
         FixingKeepsSolutions /\ SolutionInLists => SolutionInLists'
  PROVE  KeptInv'
<1>1. /\ Soft' = Soft /\ HasSolution' = HasSolution /\ Positive(evaluation)' = Positive(evaluation)
      /\ FixingKeepsSolutions' = FixingKeepsSolutions
  BY DEF Soft, HasSolution, Positive, Members, BagToSet, FixingKeepsSolutions
<1>2. KeepsRank' = KeepsRank
  BY <1>1 DEF KeepsRank
<1>3. Positive(population)' /\ (pc = "refill" => Positive(new_population))'
        /\ (pc = "fix" => Positive(todo))'
  BY DEF Positive, Members, BagToSet
<1> QED
  BY <1>1, <1>2, <1>3 DEF KeptInv

LEMMA InitKeptInv == Init => KeptInv
<1> SUFFICES ASSUME Init PROVE KeptInv
  OBVIOUS
<1>1. RankingInv /\ pc = "start" /\ call = 1
  BY InitRankingInv DEF Init
<1>2. IsCurrent
  BY <1>1 DEF RankingInv
<1>3. PICK f \in [problem.initial -> Fitness] :
        /\ population = SetToBag(problem.initial)
        /\ evaluation = SetToBag({<<i, f[i]>> : i \in problem.initial})
  BY DEF Init
<1>4. \A S : Positive(SetToBag(S))
  BY MembersOf DEF SetToBag, Positive
<1>5. ASSUME HasSolution PROVE Holds(population)
  BY <1>1, <1>2, <1>5, RankedHolds DEF Holds
<1> QED
  BY <1>1, <1>3, <1>4, <1>5 DEF KeptInv, SolutionInLists

\* Steps at the same place, or the next, that leave the lists of this phase alone or
\* add one tree to one of them.
LEMMA FillKeepsKeptInv ==
  ASSUME EvolutionInv, KeptInv, FillPopulation \/ RefillPopulation
  PROVE  KeptInv'
<1>1. /\ UNCHANGED <<problem, pc, evaluation, call>>
      /\ \/ pc = "fill" /\ Refill(population, population') /\ new_population' = new_population
         \/ pc = "refill" /\ Refill(new_population, new_population') /\ population' = population
  BY DEF FillPopulation, RefillPopulation, session
<1>2. ASSUME NEW list, NEW refilled, Refill(list, refilled)
      PROVE  /\ Positive(list) => Positive(refilled)
             /\ Holds(list) => Holds(refilled)
  <2>1. PICK c : refilled = list \/ refilled = list (+) One(c)
    BY <1>2 DEF Refill
  <2> QED
    BY <2>1, PositiveAdded, HoldsAdded
<1>3. SolutionInLists => SolutionInLists'
  BY <1>1, <1>2 DEF SolutionInLists, Holds, Members, BagToSet
<1> QED
  BY <1>1, <1>2, <1>3, KeptUntouched DEF KeptInv

\* Crossover and mutation only add to the new population.
LEMMA BreedingKeepsKeptInv ==
  ASSUME EvolutionInv, KeptInv,
         Crossover \/ StartMutation \/ (\E i \in Individual : AddChild(i) \/ Mutate(i))
  PROVE  KeptInv'
<1>1. /\ UNCHANGED <<problem, evaluation, population, call>>
      /\ pc \in {"crossover", "mutation"} /\ pc' \in {"crossover", "mutation"}
      /\ \/ new_population' = new_population
         \/ \E x : new_population' = new_population (+) One(x)
  <2>1. CASE Crossover \/ StartMutation
    BY <2>1 DEF Crossover, StartMutation, session, evaluator
  <2>2. ASSUME NEW i \in Individual, AddChild(i) \/ Mutate(i)
        PROVE  /\ UNCHANGED <<problem, pc, evaluation, population, call>>
               /\ pc \in {"crossover", "mutation"}
               /\ \/ new_population' = new_population
                  \/ \E x : new_population' = new_population (+) One(x)
    BY <2>2 DEF AddChild, Mutate, session, evaluator
  <2> QED
    BY <2>1, <2>2
<1>2. Holds(new_population) => Holds(new_population')
  BY <1>1, HoldsAdded
<1>3. SolutionInLists => SolutionInLists'
  BY <1>1, <1>2 DEF SolutionInLists, Holds, Members, BagToSet
<1>4. Positive(population')
  BY <1>1 DEF KeptInv
<1> QED
  BY <1>1, <1>3, <1>4, KeptUntouched

\* The population that is fixed is the one that was bred, without its duplicates.
LEMMA HandOverKeepsKeptInv ==
  ASSUME EvolutionInv, KeptInv, Start \/ Filled \/ Finish \/ Refilled \/ FlushCache
  PROVE  KeptInv'
<1>1. /\ UNCHANGED <<problem, evaluation, call>>
      /\ \/ /\ population' = population /\ pc' \in {"fill", "loop", "evaluate initial", "done"}
            /\ pc' \in {"fill", "evaluate initial"} => pc \in {"start", "fill"}
         \/ /\ pc = "refill" /\ pc' = "fix"
            /\ todo' = new_population /\ population' = EmptyBag
         \/ /\ pc = "fix" /\ pc' = "evaluate" /\ population' = population /\ todo = EmptyBag
  BY DEF Start, Filled, Finish, Refilled, FlushCache, session, evaluator
<1>2. Positive(EmptyBag) /\ ~ Holds(EmptyBag)
  BY MembersOf DEF Positive, Holds
<1>3. SolutionInLists => SolutionInLists'
  BY <1>1, <1>2 DEF SolutionInLists, Holds, Members, BagToSet
<1>4. Positive(population') /\ (pc' = "fix" => Positive(todo'))
  BY <1>1, <1>2 DEF KeptInv
<1> QED
  BY <1>1, <1>3, <1>4, KeptUntouched

\* Without destruction every tree that was bred is left.
LEMMA DeduplicateKeepsKeptInv ==
  ASSUME EvolutionInv, KeptInv, Deduplicate
  PROVE  KeptInv'
<1>1. /\ UNCHANGED <<problem, evaluation, population, call>>
      /\ pc = "mutation" /\ pc' = "refill"
  BY DEF Deduplicate, session, evaluator
<1>2. PICK left :
        /\ ~ problem.destruction => left = new_population
        /\ new_population' = SetToBag(Members(left))
  BY DEF Deduplicate
<1>3. \A S : Positive(SetToBag(S))
  BY MembersOf DEF SetToBag, Positive
<1>4. Members(new_population') = Members(left)
  BY <1>2, MembersOf
<1>5. Positive(population')
  BY <1>1 DEF KeptInv
<1>6. CASE problem.destruction
  BY <1>1, <1>2, <1>3, <1>5, <1>6 DEF KeptInv, KeepsRank, Positive, Members, BagToSet
<1>7. CASE ~ problem.destruction
  <2>1. Holds(new_population) => Holds(new_population')
    BY <1>2, <1>4, <1>7 DEF Holds
  <2>2. SolutionInLists => SolutionInLists'
    BY <1>1, <2>1 DEF SolutionInLists, Holds, Members, BagToSet
  <2> QED
    BY <1>1, <1>2, <1>3, <1>5, <2>2, KeptUntouched
<1> QED
  BY <1>6, <1>7

\* What a solution is fixed to is a solution, by assumption.
LEMMA FixKeepsKeptInv ==
  ASSUME EvolutionInv, KeptInv, NEW i \in Individual, FixIndividual(i)
  PROVE  KeptInv'
<1>1. /\ UNCHANGED <<problem, evaluation, call, pc>> /\ pc = "fix"
      /\ todo' = todo (-) One(i)
  BY DEF FixIndividual, session, evaluator
<1>2. PICK c \in problem.fix[i] : population' = population (+) One(c)
  BY DEF FixIndividual
<1>3. Positive(population) /\ Positive(todo)
  BY <1>1 DEF KeptInv
<1>4. Positive(population') /\ Positive(todo')
  BY <1>1, <1>2, <1>3, PositiveAdded, PositiveRemoved
<1>5. Members(todo) \ {i} \subseteq Members(todo')
  BY <1>1, <1>3, PositiveRemoved
<1>6. Members(population') = Members(population) \cup {c} /\ c \in Individual
  <2>1. Members(population') = Members(population) \cup {c}
    BY <1>2, MembersOf
  <2>2. c \in Individual
    BY FixedAreTrees DEF EvolutionInv, RankingInv
  <2> QED
    BY <2>1, <2>2
<1>7. FixingKeepsSolutions /\ Expected \in problem.fitness[i] => Expected \in problem.fitness[c]
  BY DEF FixingKeepsSolutions
<1>8. FixingKeepsSolutions /\ (Holds(todo) \/ Holds(population))
         => (\E k \in Members(todo') \cup Members(population') :
                k \in Individual /\ Expected \in problem.fitness[k])
  BY <1>5, <1>6, <1>7 DEF Holds
<1>9. FixingKeepsSolutions /\ SolutionInLists => SolutionInLists'
  BY <1>1, <1>8 DEF SolutionInLists, Holds, Members, BagToSet
<1> QED
  BY <1>1, <1>4, <1>9, KeptUntouched

\* With elites, the best of the ranking goes into the new population.
LEMMA SelectKeepsKeptInv ==
  ASSUME EvolutionInv, KeptInv, Select
  PROVE  KeptInv'
<1>1. /\ UNCHANGED <<problem, evaluation, population, call>>
      /\ pc = "loop" /\ pc' = "crossover"
  BY DEF Select, session, evaluator
<1>2. PICK elites \in Top(evaluation, EliteCount) : new_population' = Individuals(elites)
  BY DEF Select
<1>3. RankingInv /\ (call = 1 => IsCurrent)
  BY <1>1 DEF EvolutionInv, RankingInv
<1>4. ASSUME KeepsRank, HasSolution, call = 1
      PROVE  Holds(new_population')
  <2>1. EliteCount \in Nat \ {0}
    BY <1>4, SizeAssumption DEF KeepsRank
  <2>2. PICK best \in Members(evaluation) : best[2] >= Expected
    BY <1>4 DEF HasSolution
  <2>3. \A x \in Members(evaluation) : x[1] \in Individual /\ x[2] \in problem.fitness[x[1]]
    BY <1>3, <1>4 DEF RankingInv, IsCurrent
  <2>4. \A x \in Members(evaluation) : x[2] \in 0..Expected
    BY <1>3, <2>3, ProblemAssumption DEF RankingInv, Fitness
  <2>5. Expected \in Nat
    BY SizeAssumption
  <2>6. PICK x \in Members(elites) : x[2] >= Expected
    <3>1. ~ problem.diversity /\ Positive(evaluation)
      BY <1>4 DEF KeepsRank, KeptInv
    <3>2. \A x \in Members(evaluation) : x[2] \in Nat
      BY <2>4
    <3> QED
      BY <1>2, <2>1, <2>2, <3>1, <3>2, TopHasSolution
  <2>7. x \in Members(evaluation)
    BY <1>2, <2>6, MembersOfTop
  <2>8. x[2] = Expected
    BY <2>4, <2>5, <2>6, <2>7
  <2>9. x[1] \in Members(new_population')
    BY <1>2, <2>6, MembersOfIndividuals
  <2> QED
    BY <2>3, <2>7, <2>8, <2>9 DEF Holds
<1>5. Soft' = Soft /\ HasSolution' = HasSolution /\ Positive(evaluation)' = Positive(evaluation)
      /\ Positive(population)' = Positive(population)
  BY <1>1 DEF Soft, HasSolution, Positive, Members, BagToSet
<1>6. KeepsRank' = KeepsRank
  BY <1>1, <1>5 DEF KeepsRank
<1>7. Holds(new_population') => SolutionInLists'
  BY <1>1 DEF SolutionInLists, Holds, Members, BagToSet
<1> QED
  BY <1>1, <1>4, <1>5, <1>6, <1>7 DEF KeptInv

\* What is ranked is the population, and solutions in it are the best of it.
LEMMA RankingKeepsKeptInv ==
  ASSUME EvolutionInv, KeptInv, EvaluateInitial \/ EvaluateGeneration
  PROVE  /\ KeptInv'
         /\ KeepsRank /\ FixingKeepsSolutions /\ HasSolution /\ call = 1 => HasSolution'
<1> DEFINE ranking == WithFitness(population)
<1>1. /\ UNCHANGED <<problem, population, call>>
      /\ pc \in {"evaluate initial", "evaluate"} /\ pc' = "loop" /\ AllCached
      /\ evaluation' = ranking \/ evaluation' \in Top(ranking, PopulationSize)
  BY DEF EvaluateInitial, EvaluateGeneration, session, evaluator
<1>2. RankingInv /\ problem \in Problem
  BY DEF EvolutionInv, RankingInv
<1>3. /\ Members(ranking) = {<<i, cache[i]>> : i \in Members(population)}
      /\ \A x \in Members(ranking) : ranking[x] = population[x[1]]
  BY MembersWithFitness
<1> HIDE DEF ranking
<1>4. \A i \in Members(population) : i \in Individual /\ cache[i] \in problem.fitness[i]
  BY <1>1, <1>2 DEF RankingInv, AllCached
<1>5. Positive(ranking)
  BY <1>3 DEF KeptInv, Positive
<1>6. PopulationSize \in Nat \ {0} /\ Expected \in Nat
  BY SizeAssumption
<1>7. Positive(evaluation')
  BY <1>1, <1>5, <1>6, PositiveTop
<1>8. ASSUME KeepsRank, FixingKeepsSolutions, HasSolution, call = 1
      PROVE  HasSolution'
  <2>1. PICK i \in Members(population) : i \in Individual /\ Expected \in problem.fitness[i]
    BY <1>1, <1>8 DEF KeptInv, SolutionInLists, Holds
  <2>2. cache[i] = Expected
    BY <1>2, <1>4, <1>8, <2>1, OneFitness DEF KeepsRank
  <2>3. <<i, Expected>> \in Members(ranking)
    BY <1>3, <2>1, <2>2
  <2>4. \A x \in Members(ranking) : x[2] \in Nat
    <3>1. \A k \in Members(population) : cache[k] \in 0..Expected
      BY <1>2, <1>4, ProblemAssumption DEF Fitness
    <3> QED
      BY <1>3, <1>6, <3>1
  <2>5. <<i, Expected>>[2] >= Expected
    BY <1>6
  <2>6. CASE evaluation' = ranking
    BY <2>3, <2>5, <2>6 DEF HasSolution
  <2>7. CASE evaluation' \in Top(ranking, PopulationSize)
    <3>1. ~ problem.diversity
      BY <1>8 DEF KeepsRank
    <3>2. \E x \in Members(evaluation') : x[2] >= Expected
      BY <1>5, <1>6, <2>3, <2>4, <2>5, <2>7, <3>1, TopHasSolution
    <3> QED
      BY <3>2 DEF HasSolution, Members, BagToSet
  <2> QED
    BY <1>1, <2>6, <2>7
<1>9. SolutionInLists'
  BY <1>1 DEF SolutionInLists
<1>10. Positive(population)' /\ Positive(evaluation)'
  BY <1>1, <1>7 DEF KeptInv, Positive, Members, BagToSet
<1> QED
  BY <1>1, <1>8, <1>9, <1>10 DEF KeptInv

LEMMA OtherKeepsKeptInv ==
  ASSUME EvolutionInv, KeptInv,
         \/ UNCHANGED vars \/ CallAgain
         \/ \E i \in Individual : YieldInitial(i) \/ YieldFound(i) \/ Evaluate(i)
  PROVE  KeptInv'
<1>1. CASE CallAgain
  <2>1. UNCHANGED <<problem, evaluation, population>> /\ pc' = "start" /\ call' = call + 1
    BY <1>1 DEF CallAgain
  <2>2. call \in Nat \ {0}
    BY DEF EvolutionInv, RankingInv
  <2>3. call' # 1
    BY <2>1, <2>2
  <2>4. Positive(population)' /\ Positive(evaluation)'
    BY <2>1 DEF KeptInv, Positive, Members, BagToSet
  <2> QED
    BY <2>1, <2>3, <2>4 DEF KeptInv
<1>2. CASE \/ UNCHANGED vars
           \/ \E i \in Individual : YieldInitial(i) \/ YieldFound(i) \/ Evaluate(i)
  <2>1. UNCHANGED <<problem, pc, evaluation, population, new_population, todo, call>>
    BY <1>2 DEF vars, YieldInitial, YieldFound, Evaluate, session
  <2>2. SolutionInLists => SolutionInLists'
    BY <2>1 DEF SolutionInLists, Holds, Members, BagToSet
  <2> QED
    BY <2>1, <2>2, KeptUntouched DEF KeptInv
<1> QED
  BY <1>1, <1>2

LEMMA NextKeepsKeptInv ==
  ASSUME EvolutionInv, KeptInv, [Next]_vars
  PROVE  KeptInv'
<1>1. CASE FillPopulation \/ RefillPopulation
  BY <1>1, FillKeepsKeptInv
<1>2. CASE Crossover \/ StartMutation \/ (\E i \in Individual : AddChild(i) \/ Mutate(i))
  BY <1>2, BreedingKeepsKeptInv
<1>3. CASE Start \/ Filled \/ Finish \/ Refilled \/ FlushCache
  BY <1>3, HandOverKeepsKeptInv
<1>4. CASE Deduplicate
  BY <1>4, DeduplicateKeepsKeptInv
<1>5. ASSUME NEW i \in Individual, FixIndividual(i) PROVE KeptInv'
  BY <1>5, FixKeepsKeptInv
<1>6. CASE Select
  BY <1>6, SelectKeepsKeptInv
<1>7. CASE EvaluateInitial \/ EvaluateGeneration
  BY <1>7, RankingKeepsKeptInv
<1>8. CASE \/ UNCHANGED vars \/ CallAgain
           \/ \E i \in Individual : YieldInitial(i) \/ YieldFound(i) \/ Evaluate(i)
  BY <1>8, OtherKeepsKeptInv
<1> QED
  BY <1>1, <1>2, <1>3, <1>4, <1>5, <1>6, <1>7, <1>8 DEF Next, GenerateStep

\* Only a ranking replaces a ranking, and no step changes what keeps its rank.
StaysKept == KeepsRank /\ FixingKeepsSolutions /\ (call = 1 => HasSolution)

LEMMA NextStaysKept ==
  ASSUME EvolutionInv, KeptInv, StaysKept, [Next]_vars
  PROVE  StaysKept'
<1>1. call \in Nat \ {0}
  BY DEF EvolutionInv, RankingInv
<1>2. /\ problem' = problem /\ (call' = 1 => call = 1)
      /\ EvaluateInitial \/ EvaluateGeneration \/ evaluation' = evaluation
  <2>1. CASE CallAgain
    BY <1>1, <2>1 DEF CallAgain
  <2>2. CASE OtherStep
    BY <2>2 DEF OtherStep, Start, Filled, Refilled, EvaluateInitial, EvaluateGeneration, Finish,
       Select, Crossover, Deduplicate, FlushCache, AddChild, Mutate, FixIndividual, session
  <2>3. CASE FillPopulation \/ RefillPopulation \/ StartMutation \/ UNCHANGED vars
    BY <2>3 DEF FillPopulation, RefillPopulation, StartMutation, session, vars
  <2>4. ASSUME NEW i \in Individual, YieldInitial(i) \/ YieldFound(i) \/ Evaluate(i)
        PROVE  UNCHANGED <<problem, call, evaluation>>
    BY <2>4 DEF YieldInitial, YieldFound, Evaluate, session
  <2> QED
    BY <2>1, <2>2, <2>3, <2>4 DEF Next, GenerateStep, OtherStep
<1>3. KeepsRank' /\ FixingKeepsSolutions'
  BY <1>2 DEF StaysKept, KeepsRank, Soft, FixingKeepsSolutions
<1>4. CASE EvaluateInitial \/ EvaluateGeneration
  BY <1>2, <1>3, <1>4, RankingKeepsKeptInv DEF StaysKept
<1>5. CASE evaluation' = evaluation
  BY <1>2, <1>3, <1>5 DEF StaysKept, HasSolution, Members, BagToSet
<1> QED
  BY <1>2, <1>4, <1>5

\* With hard constraints only, elites, no diversity bonus and no destruction, the search
\* never loses all solutions of its population again, whatever it breeds from them, if
\* what a solution may be fixed to is a solution.
THEOREM SolutionsAlwaysKept == Spec => SolutionsKept
<1>1. KeepsRank /\ FixingKeepsSolutions /\ HasSolution => StaysKept
  BY DEF StaysKept
<1>2. StaysKept => (pc = "loop" /\ call = 1 => HasSolution)
  BY DEF StaysKept
<1>3. Spec => []KeptInv
  <2>1. EvolutionInv /\ KeptInv /\ [Next]_vars => KeptInv'
    BY NextKeepsKeptInv
  <2> QED
    BY <2>1, InitKeptInv, EvolutionInvAlways, PTL DEF Spec
<1>4. EvolutionInv /\ KeptInv /\ StaysKept /\ [Next]_vars => StaysKept'
  BY NextStaysKept
<1> QED
  BY <1>1, <1>2, <1>3, <1>4, EvolutionInvAlways, PTL DEF Spec, SolutionsKept, HasSolutionAgain
===============================================================================
