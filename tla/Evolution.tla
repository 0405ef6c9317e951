------------------------------- MODULE Evolution -------------------------------
(***************************************************************************)
(* The evolutionary search of Fandango: SimpleGeneticAlgorithm             *)
(* (src/fandango/evolution/algorithm/simple.py) with its PopulationManager *)
(* (population.py), Evaluator (evaluation.py), operators (mutation.py,     *)
(* crossover.py) and AdaptiveTuner (adaptation.py).                        *)
(*                                                                         *)
(* generate() is a Python generator: it is suspended at every solution it  *)
(* yields, and its caller may abandon it there and call generate() again.  *)
(*                                                                         *)
(* An individual stands for a derivation tree up to ==, that is, up to its *)
(* hash, the key of the fitness cache and of the solution set.  Lists      *)
(* whose order decides nothing (they come from sets, random choices, or    *)
(* ties of a sort) are bags, and sets if they have no duplicates.  The     *)
(* trees that fuzzing, mutation and crossover return are any individuals.  *)
(* The fitness cache is assumed not to overflow (FANDANGO_CACHE_SIZE,      *)
(* 10000 entries).                                                         *)
(***************************************************************************)
EXTENDS Integers, Sequences, FiniteSets, Bags

CONSTANTS Individual,       \* derivation trees
          Problem,          \* specifications and settings, see ProblemAssumption
          Expected,         \* expected_fitness
          NoFitness,        \* an entry that is not in the fitness cache
          PopulationSize,   \* population_size
          EliteCount,       \* int(elitism_rate * population_size)
          SurvivorCount,    \* int(population_size * (1 - destruction_rate))
          AttemptsPerSlot,  \* 10 in refill_population()
          MaxRepetition, RepetitionRate,  \* max_repetitions, its rate in percent
          InitialRepetition,              \* grammar.get_max_repetition() at first
          MaxNodes, NodeRate,             \* max_nodes, its rate in percent
          MaxGeneration,    \* max_generations
          MaxCall           \* bound on the calls of generate()

Fitness == 0..Expected

\* trees: the derivation trees of the grammar.
\* fitness: what evaluating an individual may yield; more than one value only
\*   with soft constraints, whose scores are relative to those seen before.
\* fix: what fix_individual() may make of an individual, of a solution too: a disjunction
\*   or an exists hands on what its failing parts suggest also when it is satisfied.
\* failing: the individuals that have failing subtrees to replace, again solutions too.
\* diversity: the ranking adds a bonus, so that it is not one by fitness.
ASSUME ProblemAssumption ==
    \A p \in Problem :
        /\ p.trees \subseteq Individual
        /\ p.fitness \in [Individual -> (SUBSET Fitness) \ {{}}]
        /\ p.fix \in [Individual -> (SUBSET Individual) \ {{}}]
        /\ p.failing \subseteq Individual
        /\ p.initial \subseteq p.trees
        /\ p.diversity \in BOOLEAN /\ p.destruction \in BOOLEAN

ASSUME SizeAssumption ==
    /\ Expected \in Nat \ {0} /\ NoFitness \notin Fitness
    /\ PopulationSize \in Nat \ {0} /\ EliteCount \in 0..PopulationSize
    /\ SurvivorCount \in 0..PopulationSize /\ AttemptsPerSlot \in Nat \ {0}

VARIABLES
    problem,            \* the specification and the settings of this run
    pc,                 \* where generate() is
    suspended,          \* at the yield of an "evaluate" or of a "list"; else "no"
    population,         \* self.population
    evaluation,         \* self.evaluation: <<individual, fitness>>
    cache,              \* Evaluator._fitness_cache
    solution_set,       \* Evaluator._solution_set
    initial_solutions,  \* self._initial_solutions
    new_population,     \* the population that is being made
    todo,               \* what the loop that is running still has to go through
    attempts,           \* how often the loop that is running may still try
    found,              \* found_solution and new_found_solution of a refill
    yielded,            \* what the caller got
    dropped,            \* solutions that were found and will not be yielded
    generation, call,
    limits              \* AdaptiveTuner: current_max_repetition, current_max_nodes

vars == <<problem, pc, suspended, population, evaluation, cache, solution_set,
          initial_solutions, new_population, todo, attempts, found, yielded,
          dropped, generation, call, limits>>
evaluator == <<cache, solution_set, yielded, dropped>>
session == <<problem, initial_solutions, call>>

Members(list) == BagToSet(list)
One(x) == SetToBag({x})
Length(list) == Cardinality(UNION {{x} \X (1..list[x]) : x \in Members(list)})
NoLoop == todo' = EmptyBag /\ attempts' = 0
BagOver(S, max) == {b \in UNION {[T -> 1..max] : T \in SUBSET S} : Length(b) <= max}

Filling == pc \in {"fill", "refill"}
Evaluating == pc \in {"evaluate initial", "crossover", "fix", "evaluate"}

TypeOK ==
    /\ problem \in Problem
    /\ pc \in {"start", "fill", "evaluate initial", "loop", "crossover", "mutation",
               "refill", "fix", "evaluate", "done"}
    /\ suspended \in {"no", "evaluate", "list"}
    /\ \A list \in {population, new_population, todo} :
          IsABag(list) /\ Members(list) \subseteq Individual
    /\ IsABag(evaluation) /\ Members(evaluation) \subseteq Individual \X Fitness
    /\ cache \in [Individual -> Fitness \cup {NoFitness}]
    /\ \A set \in {solution_set, initial_solutions, found, dropped} : set \subseteq Individual
    /\ yielded \in Seq(Individual)
    /\ attempts \in Nat /\ generation \in 0..MaxGeneration /\ call \in 1..MaxCall
    /\ limits \in [repetition : Nat, nodes : Nat]
-------------------------------------------------------------------------------
(* Evaluator.                                                              *)

Cached(i) == cache[i] # NoFitness
FitnessOf(i) == IF Cached(i) THEN {cache[i]} ELSE problem.fitness[i]
Soft == \E i \in Individual : Cardinality(problem.fitness[i]) > 1

\* Mutant: a tree is a solution whenever it is evaluated as one.
IsNewAlways(i, f) == ~ Cached(i) /\ f >= Expected

\* evaluate_individual() yields i: it is not in the cache nor in the solution set.
IsNew(i, f) == ~ Cached(i) /\ f >= Expected /\ i \notin solution_set

\* The individuals of S have been evaluated, with the fitness f.
Evaluated(S, f) ==
    /\ cache' = [i \in Individual |-> IF i \in S THEN f[i] ELSE cache[i]]
    /\ solution_set' = solution_set \cup {i \in S : IsNew(i, f[i])}

FitnessesOf(S) == {f \in [S -> Fitness] : \A i \in S : f[i] \in FitnessOf(i)}

\* Mutant: the ranking is upside down.
OutranksReversed(x, y) == x[2] <= y[2]

\* The order of the sort; with a diversity bonus it may be any.
Outranks(x, y) == problem.diversity \/ x[2] >= y[2]

\* sorted(evaluation, key=fitness + bonus, reverse=True)[:n]
Top(list, n) ==
    {kept \in BagOver(Members(list), n) :
        /\ kept \sqsubseteq list
        /\ kept = list \/ Length(kept) = n
        /\ \A x \in Members(kept), y \in Members(list (-) kept) : Outranks(x, y)}

Individuals(ev) == BagOfAll(LAMBDA x : x[1], ev)
WithFitness(list) == [x \in {<<i, cache[i]>> : i \in Members(list)} |-> list[x[1]]]

\* One individual of the loop that is running is evaluated, and yielded if it is
\* a solution not yet known; the loop goes on with it when resumed.
Evaluate(i) ==
    /\ Evaluating /\ found = {}
    /\ i \in Members(todo) /\ ~ Cached(i)
    /\ \E f \in FitnessesOf({i}) :
          /\ Evaluated({i}, f)
          /\ IF IsNew(i, f[i])
             THEN yielded' = Append(yielded, i) /\ suspended' = "evaluate"
             ELSE yielded' = yielded /\ suspended' = "no"
    /\ UNCHANGED <<session, pc, population, evaluation, new_population, todo, attempts,
                   found, dropped, generation, limits>>
-------------------------------------------------------------------------------
(* The start of a call.                                                    *)

YieldInitial(i) ==
    /\ pc = "start" /\ i \in initial_solutions
    /\ yielded' = Append(yielded, i)
    /\ initial_solutions' = initial_solutions \ {i}
    /\ suspended' = "list"
    /\ UNCHANGED <<problem, pc, population, evaluation, cache, solution_set,
                   new_population, todo, attempts, found, dropped, generation, call,
                   limits>>

Missing(list) ==
    IF Length(list) < PopulationSize THEN PopulationSize - Length(list) ELSE 0

Start ==
    /\ pc = "start" /\ initial_solutions = {}
    /\ attempts' = AttemptsPerSlot * Missing(population)
    /\ pc' = IF Missing(population) > 0 THEN "fill" ELSE "loop"
    /\ suspended' = "no"
    /\ UNCHANGED <<session, evaluator, population, evaluation, new_population, todo,
                   found, generation, limits>>
-------------------------------------------------------------------------------
(* PopulationManager.refill_population()                                   *)

IsIncomplete(list) == Length(list) < PopulationSize /\ attempts > 0

\* Mutant: an attempt that generates a duplicate is not counted.
AttemptsUncounted == attempts

AttemptsLeft == attempts - 1

\* A tree is generated, evaluated, fixed and evaluated again.  What the evaluations
\* found is yielded only if the population does not have the fixed tree already: both
\* may be solutions, and only the fixed one is added.
Refill(list, refilled) ==
    /\ IsIncomplete(list) /\ found = {}
    /\ \E i \in problem.trees : \E c \in problem.fix[i] : \E f \in FitnessesOf({i, c}) :
        LET new == {x \in {i, c} : IsNew(x, f[x])}
        IN  /\ Evaluated({i, c}, f)
            /\ IF c \notin Members(list)
               THEN /\ refilled = list (+) One(c)
                    /\ found' = new
                    /\ UNCHANGED <<attempts, dropped>>
               ELSE /\ refilled = list
                    /\ found' = {}
                    /\ dropped' = dropped \cup new
                    /\ attempts' = AttemptsLeft
    /\ suspended' = "no"

FillPopulation ==
    /\ pc = "fill"
    /\ Refill(population, population')
    /\ UNCHANGED <<session, pc, evaluation, new_population, todo, yielded, generation,
                   limits>>

RefillPopulation ==
    /\ pc = "refill"
    /\ Refill(new_population, new_population')
    /\ UNCHANGED <<session, pc, population, evaluation, todo, yielded, generation, limits>>

\* Of two solutions the generated one is yielded first; here either may be.
YieldFound(i) ==
    /\ Filling /\ i \in found
    /\ yielded' = Append(yielded, i)
    /\ found' = found \ {i}
    /\ suspended' = "list"
    /\ UNCHANGED <<session, pc, population, evaluation, cache, solution_set,
                   new_population, todo, attempts, dropped, generation, limits>>

Filled ==
    /\ pc = "fill" /\ found = {} /\ ~ IsIncomplete(population)
    /\ pc' = "evaluate initial"
    /\ todo' = population /\ attempts' = 0
    /\ suspended' = "no"
    /\ UNCHANGED <<session, evaluator, population, evaluation, new_population, found,
                   generation, limits>>

AllCached == \A i \in Members(todo) : Cached(i)

EvaluateInitial ==
    /\ pc = "evaluate initial" /\ AllCached
    /\ evaluation' = WithFitness(population)
    /\ NoLoop /\ pc' = "loop" /\ suspended' = "no"
    /\ UNCHANGED <<session, evaluator, population, new_population, found, generation,
                   limits>>
-------------------------------------------------------------------------------
(* A generation.                                                           *)

\* max_generations, the time limit or the stop criterion
Finish ==
    /\ pc = "loop"
    /\ pc' = "done" /\ suspended' = "no"
    /\ UNCHANGED <<session, evaluator, population, evaluation, new_population, todo,
                   attempts, found, generation, limits>>

Select ==
    /\ pc = "loop" /\ generation < MaxGeneration
    /\ generation' = generation + 1
    /\ \E elites \in Top(evaluation, EliteCount) : new_population' = Individuals(elites)
    /\ pc' = "crossover" /\ attempts' = PopulationSize /\ suspended' = "no"
    /\ UNCHANGED <<session, evaluator, population, evaluation, todo, found, limits>>

\* One round: the crossover rate, too few individuals, no common symbol, children
\* that are too large and an exception all mean fewer than two children.
Crossover ==
    /\ pc = "crossover" /\ todo = EmptyBag
    /\ IsIncomplete(new_population)
    /\ attempts' = attempts - 1
    /\ todo' \in IF Length(evaluation) < 2 THEN {EmptyBag} ELSE BagOver(problem.trees, 2)
    /\ suspended' = "no"
    /\ UNCHANGED <<session, evaluator, pc, population, evaluation, new_population, found,
                   generation, limits>>

\* Mutant: a child is added before it is evaluated, and no longer evaluated then.
AddUnevaluated(i) ==
    /\ pc = "crossover"
    /\ i \in Members(todo)
    /\ todo' = todo (-) One(i)
    /\ new_population' = IF /\ Length(new_population) < PopulationSize
                            /\ i \notin Members(new_population)
                         THEN new_population (+) One(i) ELSE new_population
    /\ suspended' = "no"
    /\ UNCHANGED <<session, evaluator, pc, population, evaluation, attempts, found,
                   generation, limits>>

\* add_unique_individual(); the first child always finds room.
AddChild(i) ==
    /\ pc = "crossover"
    /\ i \in Members(todo) /\ Cached(i)
    /\ todo' = todo (-) One(i)
    /\ new_population' = IF /\ Length(new_population) < PopulationSize
                            /\ i \notin Members(new_population)
                         THEN new_population (+) One(i) ELSE new_population
    /\ suspended' = "no"
    /\ UNCHANGED <<session, evaluator, pc, population, evaluation, attempts, found,
                   generation, limits>>

\* compute_mutation_pool() discards what evaluating the population yields.  The
\* pool is drawn by fitness, with replacement, unless no individual has any; each
\* member is mutated or not, and an exception leaves it out too.
StartMutation ==
    /\ pc = "crossover" /\ todo = EmptyBag /\ ~ IsIncomplete(new_population)
    /\ \E f \in FitnessesOf(Members(new_population)) :
          LET fit == {i \in DOMAIN f : f[i] > 0}
          IN  /\ Evaluated(DOMAIN f, f)
              /\ dropped' = dropped \cup {i \in DOMAIN f : IsNew(i, f[i])}
              /\ todo' \in IF fit = {} THEN SubBag(new_population)
                           ELSE BagOver(fit, Length(new_population))
    /\ pc' = "mutation" /\ attempts' = 0 /\ suspended' = "no"
    /\ UNCHANGED <<session, population, evaluation, new_population, found, yielded,
                   generation, limits>>

\* A failing subtree is replaced, if there is one.  The evaluation that mutate() starts
\* with is found in the cache.
Mutate(i) ==
    /\ pc = "mutation"
    /\ i \in Members(todo)
    /\ \E m \in IF i \in problem.failing THEN problem.trees ELSE {i} :
          new_population' = new_population (+) One(m)
    /\ todo' = todo (-) One(i)
    /\ suspended' = "no"
    /\ UNCHANGED <<session, evaluator, pc, population, evaluation, attempts, found,
                   generation, limits>>

\* _perform_destruction(), list(set(new_population))
Deduplicate ==
    /\ pc = "mutation" /\ todo = EmptyBag
    /\ \E left \in SubBag(new_population) :
          /\ IF problem.destruction
             THEN \/ Length(left) = SurvivorCount
                  \/ left = new_population /\ Length(left) < SurvivorCount
             ELSE left = new_population
          /\ new_population' = SetToBag(Members(left))
          /\ attempts' = AttemptsPerSlot * Missing(new_population')
    /\ pc' = "refill" /\ suspended' = "no"
    /\ UNCHANGED <<session, evaluator, population, evaluation, todo, found, generation,
                   limits>>

Refilled ==
    /\ pc = "refill" /\ found = {} /\ ~ IsIncomplete(new_population)
    /\ population' = EmptyBag
    /\ todo' = new_population /\ attempts' = 0
    /\ pc' = "fix" /\ suspended' = "no"
    /\ UNCHANGED <<session, evaluator, evaluation, new_population, found, generation,
                   limits>>

FixIndividual(i) ==
    /\ pc = "fix"
    /\ i \in Members(todo) /\ Cached(i)
    /\ \E c \in problem.fix[i] : population' = population (+) One(c)
    /\ todo' = todo (-) One(i)
    /\ suspended' = "no"
    /\ UNCHANGED <<session, evaluator, pc, evaluation, new_population, attempts, found,
                   generation, limits>>

\* Mutant: the solutions are forgotten with their fitness.
FlushAll ==
    /\ pc = "fix" /\ todo = EmptyBag
    /\ cache' = IF Soft THEN [i \in Individual |-> NoFitness] ELSE cache
    /\ solution_set' = IF Soft THEN {} ELSE solution_set
    /\ new_population' = EmptyBag /\ todo' = population
    /\ pc' = "evaluate" /\ suspended' = "no"
    /\ UNCHANGED <<session, population, evaluation, attempts, found, yielded, dropped,
                   generation, limits>>

\* flush_fitness_cache(): soft scores have to be computed anew.
FlushCache ==
    /\ pc = "fix" /\ todo = EmptyBag
    /\ cache' = IF Soft THEN [i \in Individual |-> NoFitness] ELSE cache
    /\ new_population' = EmptyBag /\ todo' = population
    /\ pc' = "evaluate" /\ suspended' = "no"
    /\ UNCHANGED <<session, population, evaluation, solution_set, attempts, found,
                   yielded, dropped, generation, limits>>

\* AdaptiveTuner.update_parameters(): the rate is in percent and rounded up; a
\* limit never shrinks.  max_nodes is both the first limit and the largest.
Least(a, b) == IF a < b THEN a ELSE b
Grown(limit, rate, max) ==
    LET increment == (rate * limit + 99) \div 100
        grown == Least(limit + (IF increment < 1 THEN 1 ELSE increment), max)
    IN  IF grown > limit THEN grown ELSE limit

Stagnated ==
    limits' = [repetition |-> Grown(limits.repetition, RepetitionRate, MaxRepetition),
               nodes |-> Grown(limits.nodes, NodeRate, MaxNodes)]

\* Mutant: the ranking is not replaced.
EvaluateNothing ==
    /\ pc = "evaluate" /\ AllCached
    /\ evaluation' = evaluation
    /\ Stagnated \/ UNCHANGED limits
    /\ NoLoop /\ pc' = "loop" /\ suspended' = "no"
    /\ UNCHANGED <<session, evaluator, population, new_population, found, generation>>

EvaluateGeneration ==
    /\ pc = "evaluate" /\ AllCached
    /\ evaluation' \in Top(WithFitness(population), PopulationSize)
    /\ Stagnated \/ UNCHANGED limits
    /\ NoLoop /\ pc' = "loop" /\ suspended' = "no"
    /\ UNCHANGED <<session, evaluator, population, new_population, found, generation>>
-------------------------------------------------------------------------------
(* The caller.                                                             *)

\* It gives up the generator where that is suspended, or the generator has ended,
\* and calls generate() again.  An evaluation that is cut short is not cached.
CallAgain ==
    /\ pc = "done" \/ suspended # "no"
    /\ call < MaxCall
    /\ call' = call + 1
    /\ cache' = IF suspended = "evaluate"
                THEN [cache EXCEPT ![yielded[Len(yielded)]] = NoFitness] ELSE cache
    /\ dropped' = dropped \cup found
    /\ found' = {}
    /\ pc' = "start" /\ suspended' = "no" /\ generation' = 0
    /\ new_population' = EmptyBag /\ NoLoop
    /\ UNCHANGED <<problem, population, evaluation, solution_set, initial_solutions,
                   yielded, limits>>
-------------------------------------------------------------------------------
\* __init__(): the initial population is deduplicated and evaluated.
Init ==
    /\ problem \in Problem
    /\ \E f \in [problem.initial -> Fitness] :
          /\ \A i \in problem.initial : f[i] \in problem.fitness[i]
          /\ population = SetToBag(problem.initial)
          /\ evaluation = SetToBag({<<i, f[i]>> : i \in problem.initial})
          /\ cache = [i \in Individual |-> IF i \in problem.initial THEN f[i] ELSE NoFitness]
          /\ solution_set = {i \in problem.initial : f[i] >= Expected}
    /\ initial_solutions = solution_set
    /\ pc = "start" /\ suspended = "no"
    /\ new_population = EmptyBag /\ todo = EmptyBag /\ attempts = 0
    /\ found = {} /\ yielded = <<>> /\ dropped = {}
    /\ generation = 0 /\ call = 1
    /\ limits = [repetition |-> InitialRepetition, nodes |-> MaxNodes]

GenerateStep ==
    \/ Start \/ FillPopulation \/ RefillPopulation \/ Filled \/ Refilled
    \/ EvaluateInitial \/ EvaluateGeneration
    \/ Finish \/ Select \/ Crossover \/ StartMutation \/ Deduplicate \/ FlushCache
    \/ \E i \in Individual : \/ YieldInitial(i) \/ YieldFound(i) \/ Evaluate(i)
                            \/ AddChild(i) \/ Mutate(i) \/ FixIndividual(i)

Next == GenerateStep \/ CallAgain

Spec == Init /\ [][Next]_vars

\* The caller asks for the next solution as long as it does not give up.
FairSpec == Spec /\ WF_vars(GenerateStep)
-------------------------------------------------------------------------------
(* Properties.                                                             *)

\* No solution is yielded twice, in however many calls, although scores of soft
\* constraints change and the cache is flushed.
YieldedOnce == \A j, k \in DOMAIN yielded : yielded[j] = yielded[k] => j = k

\* Every solution found so far was yielded, or will be, or was dropped.
SolutionsAccounted ==
    solution_set = {yielded[k] : k \in DOMAIN yielded}
                       \cup initial_solutions \cup found \cup dropped

\* With hard constraints only, a solution is dropped in these cases.  Refilling generates
\* it, and fixing turns it into another tree that the population has already; or it is
\* in the population itself and not evaluated yet, because a mutation has bred it or the
\* call before was abandoned when it had fixed it.  Or the caller gives up when it gets
\* the first of two solutions that refilling has found.
FixedInto(list) == {i \in Individual : (problem.fix[i] \ {i}) \cap Members(list) # {}}
BeingFilled == IF pc = "fill" THEN population ELSE new_population
DroppedForReason ==
    [][~ Soft => \A i \in dropped' \ dropped :
          \/ Filling /\ found = {} /\ i \in FixedInto(BeingFilled)
          \/ /\ pc = "refill" \/ (pc = "fill" /\ call > 1)
             /\ found = {} /\ i \in Members(BeingFilled)
          \/ suspended = "list" /\ i \in found
      ]_vars

\* The ranking that a generation breeds from is that of the population it left: each
\* tree has one entry, as often as it is there at most, and with a fitness of its own.
EvaluationIsCurrent ==
    pc = "loop" /\ call = 1 =>
        /\ \A x \in Members(evaluation) :
              /\ x[1] \in Members(population) /\ evaluation[x] <= population[x[1]]
              /\ x[2] \in problem.fitness[x[1]]
        /\ \A x, y \in Members(evaluation) : x[1] = y[1] => x = y

\* Once the population has a solution it keeps one, if solutions cannot lose their
\* rank, nothing is destroyed and fixing makes no failure of a solution, as long as the
\* caller does not give up.
HasSolution == \E x \in Members(evaluation) : x[2] >= Expected
KeepsRank == ~ Soft /\ ~ problem.diversity /\ ~ problem.destruction /\ EliteCount > 0
FixingKeepsSolutions ==
    \A i \in Individual : Expected \in problem.fitness[i] =>
        \A c \in problem.fix[i] : Expected \in problem.fitness[c]
HasSolutionAgain == [](pc = "loop" /\ call = 1 => HasSolution)
SolutionsKept == [](KeepsRank /\ FixingKeepsSolutions /\ HasSolution => HasSolutionAgain)

\* "Rate of individuals preserved in the next generation": the elites, and a solution
\* among them, whatever fixing does.  It does not hold.
ElitesPreserved == [](KeepsRank /\ HasSolution => HasSolutionAgain)

\* Every call comes back to its caller and every generation to the next one.
GenerationEnds == pc # "done" ~> pc \in {"loop", "done"}
===============================================================================
