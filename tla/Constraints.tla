------------------------------ MODULE Constraints ------------------------------
(***************************************************************************)
(* How Fandango evaluates a constraint on a derivation tree: fitness() of  *)
(* every kind of constraint in src/fandango/constraints, with the searches *)
(* of language/search.py, the scope that quantifiers bind, laziness, and   *)
(* the cache each constraint keeps.                                        *)
(*                                                                         *)
(* The calls of fitness() are a stack of frames.  scope and                *)
(* local_variables are dictionaries that a quantifier changes in place: it *)
(* makes a new one only if it was passed none or an empty one, and        *)
(* otherwise changes its caller's.  Only the topmost frame runs, so that   *)
(* sharing is modelled by handing the dictionary back on return, see       *)
(* Received.                                                               *)
(*                                                                         *)
(* A search yields a set of trees: the order in which a quantifier takes   *)
(* them is left open, and a tree found twice counts once.  A distance      *)
(* between the two sides of a comparison is abstracted to whether it is    *)
(* 1.0.  Suggestions and failing trees are left out.                       *)
(***************************************************************************)
EXTENDS Integers, Sequences, FiniteSets

CONSTANTS Tree,            \* all nodes of all derivation trees
          Individual,      \* the trees that are evaluated, roots of their own
          Symbol,          \* nonterminals
          SymbolOf,        \* tree.symbol
          Children,        \* find_direct_trees() looks here
          Subtrees,        \* find_subtrees() looks here; the tree itself is one
          Shape,           \* hash(tree): equal trees are not distinguished
          Name,            \* placeholders of searches, bound Python identifiers
          Constraint,      \* constraint objects
          Kind,            \* their classes
          Parts,           \* their sub-constraints
          Bound, Search,   \* of quantifiers: the bound variable, what it ranges over
          Searches,        \* of expressions and comparisons: placeholder to search
          Outcome(_, _),   \* what evaluating the Python code gives with these values
          Goal,            \* the constraints of the specification
          Laziness,        \* values of the flag "lazy"
          CacheSize,       \* FANDANGO_CACHE_SIZE
          MaxEvaluation    \* bound on the evaluations

Leaf == {n \in Constraint : Kind[n] \in {"expression", "comparison"}}
Quantifier == {n \in Constraint : Kind[n] \in {"all", "any"}}
Universal == {n \in Constraint : Kind[n] \in {"and", "all"}}
SearchType == [star : BOOLEAN, base : Symbol, step : {"none", "child", "descendant"},
               attribute : Symbol]

ASSUME TreeAssumption ==
    /\ IsFiniteSet(Tree) /\ Individual \subseteq Tree
    /\ SymbolOf \in [Tree -> Symbol]
    /\ Children \in [Tree -> SUBSET Tree] /\ Subtrees \in [Tree -> SUBSET Tree]
    /\ \A t \in Tree : /\ t \in Subtrees[t]
                       /\ \A u \in Subtrees[t] : Children[u] \cup Subtrees[u] \subseteq Subtrees[t]
    /\ DOMAIN Shape = Tree

ASSUME ConstraintAssumption ==
    /\ Kind \in [Constraint -> {"expression", "comparison", "and", "or", "implies",
                                "all", "any"}]
    /\ Parts \in [Constraint -> Seq(Constraint)]
    /\ \A n \in Quantifier : Len(Parts[n]) = 1
    /\ \A n \in Constraint : Kind[n] = "implies" => Len(Parts[n]) = 2
    /\ \A n \in Constraint : Kind[n] \in {"and", "or"} => Len(Parts[n]) > 1
    /\ Bound \in [Quantifier -> Symbol \cup Name]
    /\ Search \in [Quantifier -> SearchType]
    /\ DOMAIN Searches = Leaf
    /\ \A n \in Leaf : /\ DOMAIN Searches[n] \subseteq Name
                       /\ Searches[n] \in [DOMAIN Searches[n] -> SearchType]
    /\ IsFiniteSet(Name) /\ Symbol \cap Name = {}
    /\ Goal \subseteq Constraint

\* Constraints are nested finitely deep: some of any set has no part in that set.
ASSUME NestingAssumption ==
    \A some \in SUBSET Constraint :
        some # {} => \E n \in some : \A i \in DOMAIN Parts[n] : Parts[n][i] \notin some

ASSUME SizeAssumption ==
    /\ Laziness \subseteq BOOLEAN
    /\ CacheSize \in Nat \ {0} /\ MaxEvaluation \in Nat

VARIABLES lazy,         \* self.lazy, the same for all constraints of a specification
          individual,   \* the tree that is evaluated
          stack,        \* the calls of fitness() under way, the innermost last
          cache,        \* self.cache of each constraint
          result,       \* what the last evaluation returned, and of which constraint
          evaluations   \* evaluations so far

vars == <<lazy, individual, stack, cache, result, evaluations>>

NoResult == [node |-> "none"]
Empty == <<>>           \* None, or an empty dictionary

-------------------------------------------------------------------------------
(* Fitness objects. *)

FitnessType == [solved : Nat, total : Nat, success : BOOLEAN,
                aware : BOOLEAN, reached : Nat, values : Nat]

\* ConstraintFitness
Counted(solved, total, success) ==
    [solved |-> solved, total |-> total, success |-> success,
     aware |-> FALSE, reached |-> 0, values |-> 0]

\* DistanceAwareConstraintFitness with so many values, of which so many are 1.0
Aware(reached, values) ==
    [solved |-> reached, total |-> values, success |-> reached = values,
     aware |-> TRUE, reached |-> reached, values |-> values]

\* fitness() = 1.0, which is what makes a tree a solution
Perfect(f) == IF f.aware THEN f.values > 0 /\ f.reached = f.values
                         ELSE f.total > 0 /\ f.solved = f.total

\* __copy__() of a distance-aware fitness counts anew
Copied(f) == IF f.aware THEN [f EXCEPT !.solved = f.reached, !.total = f.values] ELSE f

-------------------------------------------------------------------------------
(* Searches. *)

\* RuleSearch.find() and find_direct(): a symbol that is bound is not searched for.
Find(symbol, trees, scope) ==
    IF symbol \in DOMAIN scope THEN {scope[symbol]}
                               ELSE {u \in trees : SymbolOf[u] = symbol}

\* RuleSearch, and AttributeSearch or DescendantAttributeSearch on top of it
TreesFound(search, t, scope) ==
    LET bases == Find(search.base, Subtrees[t], scope) IN
    CASE search.step = "none" -> bases
      [] search.step = "child" ->
            UNION {Find(search.attribute, Children[u], scope) : u \in bases}
      [] search.step = "descendant" ->
            UNION {Find(search.attribute, Subtrees[u], scope) : u \in bases}

\* The containers a search yields, by their trees: StarSearch has one for all trees.
Containers(search, t, scope) ==
    IF search.star THEN {TreesFound(search, t, scope)}
                   ELSE {{u} : u \in TreesFound(search, t, scope)}

\* GeneticBase.combinations()
Combinations(n, t, scope) ==
    LET found(v) == Containers(Searches[n][v], t, scope) IN
    {c \in [DOMAIN Searches[n] -> UNION {found(v) : v \in DOMAIN Searches[n]}] :
        \A v \in DOMAIN Searches[n] : c[v] \in found(v)}

\* local_variables.update(): what the placeholders stand for and what is bound around them.
Values(c, locals) ==
    [x \in DOMAIN c \cup DOMAIN locals |-> IF x \in DOMAIN c THEN c[x] ELSE locals[x]]

\* Mutant: the key leaves out the local variables.
KeyWithoutLocals(t, scope, locals) == <<Shape[t], [s \in DOMAIN scope |-> Shape[scope[s]]]>>

\* GeneticBase.get_hash()
Key(t, scope, locals) ==
    <<Shape[t], [s \in DOMAIN scope |-> Shape[scope[s]]],
      [v \in DOMAIN locals |-> {Shape[u] : u \in locals[v]}]>>

\* ExpressionConstraint.fitness(): an expression that raises is unsolved.
ExpressionFitness(n, t, scope, locals) ==
    LET all == Combinations(n, t, scope)
        solved == Cardinality({c \in all : Outcome(n, Values(c, locals)) = "true"})
    IN  IF all = {} THEN Counted(1, 1, TRUE)
        ELSE Counted(solved, Cardinality(all), solved = Cardinality(all))

\* ComparisonConstraint.fitness(): a combination for which a side raises is skipped; for
\* one whose sides cannot be compared, see Escape.
ComparisonFitness(n, t, scope, locals) ==
    LET all == Combinations(n, t, scope)
        compared == {c \in all : Outcome(n, Values(c, locals)) # "raises"}
        reached == {c \in compared : Outcome(n, Values(c, locals)) = "true"}
    IN  IF all = {} THEN Aware(1, 1) ELSE Aware(Cardinality(reached), Cardinality(compared))

-------------------------------------------------------------------------------
(* Frames. *)

\* A call of fitness() that has yet to look into the cache.
Call(t, n, scope, locals) ==
    [node |-> n, key |-> Key(t, scope, locals), open |-> FALSE,
     scope |-> scope, locals |-> locals, part |-> 1, todo |-> {},
     solved |-> 0, total |-> 0, every |-> TRUE, some |-> FALSE, last |-> Counted(1, 1, TRUE)]

Top == stack[Len(stack)]
Below == SubSeq(stack, 1, Len(stack) - 1)

\* What the caller has after a call: the sums over fitness_values, and the dictionary
\* it passed with all changes, unless it passed an empty one.
Received(caller, callee, f) ==
    [caller EXCEPT !.scope = IF @ = Empty THEN Empty ELSE callee.scope,
                   !.locals = IF @ = Empty THEN Empty ELSE callee.locals,
                   !.solved = @ + f.solved, !.total = @ + f.total,
                   !.every = @ /\ f.success, !.some = @ \/ f.success, !.last = f]

Return(f) ==
    LET caller == Below[Len(Below)] IN
    IF Len(stack) = 1
    THEN /\ stack' = <<>>
         /\ result' = [node |-> Top.node, fitness |-> f]
    ELSE /\ stack' = [Below EXCEPT ![Len(Below)] = Received(caller, Top, f)]
         /\ UNCHANGED result

\* self.cache[tree_hash] = fitness; a full cache drops an entry (LRU: any).
Remember(n, key, f) ==
    \E kept \in IF Cardinality(DOMAIN cache[n]) < CacheSize
                THEN {DOMAIN cache[n]} ELSE {DOMAIN cache[n] \ {k} : k \in DOMAIN cache[n]} :
        cache' = [cache EXCEPT ![n] = [k \in kept \cup {key} |-> IF k = key THEN f ELSE @[k]]]

\* all() or any() of the parts that have been evaluated
Overall(frame) == IF frame.node \in Universal THEN frame.every ELSE frame.some

\* The breaks of a lazy constraint.
Stopped(frame) ==
    lazy /\ IF frame.node \in Universal THEN ~frame.every ELSE frame.some

\* Mutant: a success adds one to solved, as in a conjunction.
AggregateAddsOne(frame) ==
    LET f == Copied(frame.last) IN
    CASE Kind[frame.node] = "implies" /\ frame.part = 3 ->
            [f EXCEPT !.total = @ + 1, !.solved = @ + (IF f.success THEN 1 ELSE 0)]
      [] Kind[frame.node] = "implies" /\ frame.part < 3 -> Counted(1, 1, TRUE)
      [] OTHER ->
            Counted(frame.solved + (IF Overall(frame) THEN 1 ELSE 0),
                    frame.total + 1, Overall(frame))

\* What and, or, all, any and implies make of the fitness of their parts.
Aggregate(frame) ==
    LET f == Copied(frame.last) IN
    CASE Kind[frame.node] = "implies" /\ frame.part = 3 ->
            [f EXCEPT !.total = @ + 1, !.solved = @ + (IF f.success THEN 1 ELSE 0)]
      [] Kind[frame.node] = "implies" /\ frame.part < 3 -> Counted(1, 1, TRUE)
      [] Kind[frame.node] = "and" ->
            Counted(frame.solved + (IF frame.every THEN 1 ELSE 0), frame.total + 1, frame.every)
      [] OTHER ->
            Counted(IF Overall(frame) THEN frame.total + 1 ELSE frame.solved,
                    frame.total + 1, Overall(frame))

-------------------------------------------------------------------------------
Init ==
    /\ lazy \in Laziness
    /\ individual \in Individual
    /\ stack = <<>> /\ result = NoResult /\ evaluations = 0
    /\ cache = [n \in Constraint |-> <<>>]

\* The evaluator asks for the fitness of a tree.
Evaluate(t, n) ==
    /\ stack = <<>>
    /\ evaluations < MaxEvaluation
    /\ individual' = t
    /\ stack' = <<Call(t, n, Empty, Empty)>>
    /\ result' = NoResult
    /\ evaluations' = evaluations + 1
    /\ UNCHANGED <<lazy, cache>>

\* The fitness is in the cache.
HitCache ==
    /\ stack # <<>> /\ ~Top.open
    /\ Top.key \in DOMAIN cache[Top.node]
    /\ Return(Copied(cache[Top.node][Top.key]))
    /\ UNCHANGED <<lazy, individual, cache, evaluations>>

Missed == stack # <<>> /\ ~Top.open /\ Top.key \notin DOMAIN cache[Top.node]

\* The two sides have values that the operator does not compare.
IsIncomparable(n, t, scope, locals) ==
    /\ Kind[n] = "comparison"
    /\ \E c \in Combinations(n, t, scope) : Outcome(n, Values(c, locals)) = "incomparable"

EvaluateLeaf ==
    /\ Missed /\ Top.node \in Leaf
    /\ ~IsIncomparable(Top.node, individual, Top.scope, Top.locals)
    /\ LET f == IF Kind[Top.node] = "expression"
                THEN ExpressionFitness(Top.node, individual, Top.scope, Top.locals)
                ELSE ComparisonFitness(Top.node, individual, Top.scope, Top.locals)
       IN  Remember(Top.node, Top.key, f) /\ Return(f)
    /\ UNCHANGED <<lazy, individual, evaluations>>

\* No fitness() catches what the operator raises: the evaluator does, and goes on without
\* a fitness.  What the constraints inside have cached by then stays.
Escape ==
    /\ Missed /\ Top.node \in Leaf
    /\ IsIncomparable(Top.node, individual, Top.scope, Top.locals)
    /\ stack' = <<>> /\ result' = NoResult
    /\ UNCHANGED <<lazy, individual, cache, evaluations>>

\* A quantifier determines what it ranges over.
Open ==
    /\ Missed /\ Top.node \notin Leaf
    /\ stack' = [stack EXCEPT ![Len(stack)].open = TRUE,
                              ![Len(stack)].todo = IF Top.node \in Quantifier
                                  THEN TreesFound(Search[Top.node], individual, Top.scope)
                                  ELSE {}]
    /\ UNCHANGED <<lazy, individual, cache, result, evaluations>>

\* The parts of a connective that are still to be evaluated.
HasNextPart(frame) ==
    /\ frame.node \notin Quantifier
    /\ frame.part <= Len(Parts[frame.node])
    /\ IF Kind[frame.node] = "implies" THEN frame.every ELSE ~Stopped(frame)

EvaluatePart ==
    /\ stack # <<>> /\ Top.open /\ HasNextPart(Top)
    /\ stack' = Append([stack EXCEPT ![Len(stack)].part = @ + 1],
                       Call(individual, Parts[Top.node][Top.part], Top.scope, Top.locals))
    /\ UNCHANGED <<lazy, individual, cache, result, evaluations>>

HasNextInstance(frame) ==
    frame.node \in Quantifier /\ frame.todo # {} /\ ~Stopped(frame)

\* dict[key] = value
SetIn(dict, key, value) ==
    [k \in DOMAIN dict \cup {key} |-> IF k = key THEN value ELSE dict[k]]

\* The dictionaries with the bound variable set.
BoundScope(frame, t) ==
    IF Bound[frame.node] \in Symbol THEN SetIn(frame.scope, Bound[frame.node], t) ELSE frame.scope
BoundLocals(frame, t) ==
    IF Bound[frame.node] \in Symbol THEN frame.locals
                                    ELSE SetIn(frame.locals, Bound[frame.node], {t})

EvaluateInstance ==
    /\ stack # <<>> /\ Top.open /\ HasNextInstance(Top)
    /\ \E t \in Top.todo :
        stack' = Append([stack EXCEPT ![Len(stack)].todo = @ \ {t},
                                      ![Len(stack)].scope = BoundScope(Top, t),
                                      ![Len(stack)].locals = BoundLocals(Top, t)],
                        Call(individual, Parts[Top.node][1], BoundScope(Top, t),
                             BoundLocals(Top, t)))
    /\ UNCHANGED <<lazy, individual, cache, result, evaluations>>

\* All parts are evaluated, or a lazy constraint is decided.
Close ==
    /\ stack # <<>> /\ Top.open /\ ~HasNextPart(Top) /\ ~HasNextInstance(Top)
    /\ Remember(Top.node, Top.key, Aggregate(Top))
    /\ Return(Aggregate(Top))
    /\ UNCHANGED <<lazy, individual, evaluations>>

Compute == HitCache \/ EvaluateLeaf \/ Escape \/ Open \/ EvaluatePart \/ EvaluateInstance \/ Close

Next == Compute \/ \E t \in Individual, n \in Goal : Evaluate(t, n)

Spec == Init /\ [][Next]_vars

-------------------------------------------------------------------------------
(* Properties. *)

\* Every frame, cached fitness and result is what fitness() works on.
TypeOK ==
    /\ lazy \in Laziness /\ individual \in Individual /\ evaluations \in 0..MaxEvaluation
    /\ \A i \in DOMAIN stack :
        LET frame == stack[i] IN
        /\ frame.node \in Constraint /\ frame.open \in BOOLEAN
        /\ DOMAIN frame.scope \subseteq Symbol /\ DOMAIN frame.locals \subseteq Name
        /\ frame.todo \subseteq Tree /\ frame.part \in Nat
        /\ frame.last \in FitnessType
    /\ \A n \in Constraint : \A k \in DOMAIN cache[n] : cache[n][k] \in FitnessType
    /\ result # NoResult => result.node \in Constraint /\ result.fitness \in FitnessType

\* The number that decides whether a tree is a solution (fitness() = 1.0) and the truth
\* value that check() reports agree, however the counts were summed up, copied and
\* cached.  The exception is a fitness without any value: a comparison that raised for
\* every combination.
PerfectIsSatisfied ==
    result # NoResult =>
        LET f == result.fitness IN
        /\ Perfect(f) => f.success
        /\ f.success => Perfect(f) \/ (f.aware /\ f.values = 0)
===============================================================================
