--------------------------- MODULE ConstraintsProofs ---------------------------
(***************************************************************************)
(* For every specification, every derivation tree and every cache size:    *)
(* the fitness a constraint reports is 1.0 exactly when it reports success *)
(* (or no comparison could be made at all).                                *)
(*                                                                         *)
(* The two are computed separately, by counting and by all() or any(), on  *)
(* the way up through nested constraints, copies and caches.  What holds   *)
(* of every fitness object is Sound, which is stronger than the property:  *)
(* counts never exceed totals, also where the success is not perfect.  Of  *)
(* the sums in a frame it holds that "every" says whether they are equal.  *)
(*                                                                         *)
(* And the success is what the constraint means, see ChecksMeaning.  The   *)
(* argument: a cache key decides what a constraint means, since it stands  *)
(* for all that the constraint looks at (KeyDecides); so it does not       *)
(* matter for which tree a fitness was cached.  Every call under way can   *)
(* still report what its key decides, if those it waits for do, whatever   *)
(* they leave behind in its dictionaries (Waits, RestStable).  Facts about *)
(* nested constraints are proved without induction: of those for which one *)
(* fails, NestingAssumption gives an innermost one.                        *)
(***************************************************************************)
EXTENDS ConstraintMeaning, FiniteSetTheorems, SequenceTheorems, TLAPS

\* What holds of every fitness object.
Sound ==
    {f \in FitnessType :
        /\ f.solved <= f.total
        /\ f.success <=> f.solved = f.total
        /\ f.aware => f.reached <= f.values /\ (f.success <=> f.reached = f.values)
        /\ ~f.aware => f.total > 0}

Keys == {Key(t, scope, locals) : t \in Tree, scope \in Scopes, locals \in Locals}

FrameType == [node : Constraint, key : Keys, open : BOOLEAN, scope : Scopes, locals : Locals,
              part : Nat \ {0}, todo : SUBSET Tree, solved : Nat, total : Nat, every : BOOLEAN,
              some : BOOLEAN, last : Sound]

\* What holds of every frame.
Frame ==
    {r \in FrameType :
        /\ r.solved <= r.total
        /\ r.every <=> r.solved = r.total
        /\ Kind[r.node] = "implies" => r.part <= 3}

CacheSound ==
    /\ DOMAIN cache = Constraint
    /\ \A n \in Constraint : \A k \in DOMAIN cache[n] : cache[n][k] \in Sound

ResultSound ==
    result # NoResult => result.node \in Constraint /\ result.fitness \in Sound

IInv ==
    /\ lazy \in Laziness /\ individual \in Individual /\ evaluations \in 0..MaxEvaluation
    /\ stack \in Seq(Frame)
    /\ CacheSound
    /\ ResultSound

-------------------------------------------------------------------------------
(* Fitness objects. *)

\* A copy of a fitness is as sound as the original.
LEMMA CopiedSound == ASSUME NEW f \in Sound PROVE Copied(f) \in Sound
BY DEF Copied, Sound, FitnessType

\* Counts that agree with the success make a sound fitness.
LEMMA CountedSound ==
    ASSUME NEW s \in Nat, NEW t \in Nat, NEW b \in BOOLEAN, s <= t, t > 0, b <=> s = t
    PROVE  Counted(s, t, b) \in Sound
BY DEF Counted, Sound, FitnessType

\* One of one is solved: what there is nothing to check about.
LEMMA OneSound == Counted(1, 1, TRUE) \in Sound
BY DEF Counted, Sound, FitnessType

\* So do values of which no more are 1.0 than there are.
LEMMA AwareSound ==
    ASSUME NEW s \in Nat, NEW t \in Nat, s <= t
    PROVE  Aware(s, t) \in Sound
BY DEF Aware, Sound, FitnessType

\* A sound fitness is perfect exactly if it is a success, if it has any value.
LEMMA SoundIsPerfect ==
    ASSUME NEW f \in Sound
    PROVE  /\ Perfect(f) => f.success
           /\ f.success => Perfect(f) \/ (f.aware /\ f.values = 0)
BY DEF Perfect, Sound, FitnessType

-------------------------------------------------------------------------------
(* Searches. *)

\* A search yields trees, within whatever scope.
LEMMA FoundAreTrees ==
    ASSUME NEW search \in SearchType, NEW t \in Tree, NEW scope \in Scopes
    PROVE  TreesFound(search, t, scope) \in SUBSET Tree
<1>1. \A symbol, trees : trees \in SUBSET Tree => Find(symbol, trees, scope) \in SUBSET Tree
  BY DEF Find, Scopes
<1>2. \A u \in Tree : Children[u] \in SUBSET Tree /\ Subtrees[u] \in SUBSET Tree
  BY TreeAssumption
<1>3. Find(search.base, Subtrees[t], scope) \in SUBSET Tree
  BY <1>1, <1>2
<1>4. CASE search.step = "none"
  BY <1>3, <1>4 DEF TreesFound
<1>5. CASE search.step = "child"
  <2>1. \A u \in Find(search.base, Subtrees[t], scope) :
            Find(search.attribute, Children[u], scope) \in SUBSET Tree
    BY <1>1, <1>2, <1>3
  <2> QED BY <2>1, <1>5 DEF TreesFound
<1>6. CASE search.step = "descendant"
  <2>1. \A u \in Find(search.base, Subtrees[t], scope) :
            Find(search.attribute, Subtrees[u], scope) \in SUBSET Tree
    BY <1>1, <1>2, <1>3
  <2> QED BY <2>1, <1>6 DEF TreesFound
<1> QED BY <1>4, <1>5, <1>6 DEF SearchType

\* There are finitely many combinations: each is a finite relation from placeholders to
\* sets of trees.
LEMMA CombinationsFinite ==
    ASSUME NEW n \in Leaf, NEW t \in Tree, NEW scope \in Scopes
    PROVE  IsFiniteSet(Combinations(n, t, scope))
<1> DEFINE D == DOMAIN Searches[n]
           C == Combinations(n, t, scope)
           Pairs == SUBSET (Name \X SUBSET Tree)
           graph == [c \in C |-> {<<v, c[v]>> : v \in D}]
<1>1. IsFiniteSet(Pairs)
  <2>1. IsFiniteSet(SUBSET Tree) BY TreeAssumption, FS_SUBSET
  <2>2. IsFiniteSet(Name \X SUBSET Tree) BY <2>1, ConstraintAssumption, FS_Product
  <2> QED BY <2>2, FS_SUBSET
<1>2. /\ D \subseteq Name
      /\ \A v \in D : Searches[n][v] \in SearchType
  BY ConstraintAssumption
<1>3. \A v \in D : Containers(Searches[n][v], t, scope) \subseteq SUBSET Tree
  <2> TAKE v \in D
  <2>1. TreesFound(Searches[n][v], t, scope) \in SUBSET Tree
    BY <1>2, FoundAreTrees
  <2> QED BY <2>1 DEF Containers
<1>4. \A c \in C : c = [v \in D |-> c[v]] /\ \A v \in D : c[v] \in SUBSET Tree
  <2> TAKE c \in C
  <2>1. c = [v \in D |-> c[v]] /\ \A v \in D : c[v] \in Containers(Searches[n][v], t, scope)
    BY DEF Combinations
  <2> QED BY <2>1, <1>3
<1>5. graph \in [C -> Pairs]
  BY <1>2, <1>4
<1>6. ASSUME NEW c \in C, NEW d \in C, graph[c] = graph[d] PROVE c = d
  <2>1. \A v \in D : <<v, c[v]>> \in graph[d]
    BY <1>6
  <2>2. \A v \in D : c[v] = d[v]
    BY <2>1
  <2> QED BY <2>2, <1>4
<1>7. graph \in Injection(C, Pairs)
  BY <1>5, <1>6 DEF Injection, IsInjective
<1> QED BY <1>1, <1>7, FS_Injection

\* Expressions report a sound fitness.
LEMMA ExpressionSound ==
    ASSUME NEW n \in Leaf, NEW t \in Tree, NEW scope \in Scopes, NEW locals
    PROVE  ExpressionFitness(n, t, scope, locals) \in Sound
<1> DEFINE C == Combinations(n, t, scope)
           S == {c \in C : Outcome(n, Values(c, locals)) = "true"}
<1>1. IsFiniteSet(C) BY CombinationsFinite
<1>2. Cardinality(S) \in Nat /\ Cardinality(C) \in Nat /\ Cardinality(S) <= Cardinality(C)
  <2>1. S \in SUBSET C OBVIOUS
  <2>2. IsFiniteSet(S) /\ Cardinality(S) <= Cardinality(C) BY <1>1, <2>1, FS_Subset
  <2> QED BY <1>1, <2>2, FS_CardinalityType
<1>3. C # {} => Cardinality(C) > 0
  BY <1>1, <1>2, FS_EmptySet
<1>4. Counted(1, 1, TRUE) \in Sound
  BY OneSound
<1>5. C # {} => Counted(Cardinality(S), Cardinality(C), Cardinality(S) = Cardinality(C)) \in Sound
  BY <1>2, <1>3, CountedSound
<1> QED BY <1>4, <1>5 DEF ExpressionFitness

\* Comparisons report a sound fitness, also if some of them raise.
LEMMA ComparisonSound ==
    ASSUME NEW n \in Leaf, NEW t \in Tree, NEW scope \in Scopes, NEW locals
    PROVE  ComparisonFitness(n, t, scope, locals) \in Sound
<1> DEFINE C == Combinations(n, t, scope)
           compared == {c \in C : Outcome(n, Values(c, locals)) # "raises"}
           reached == {c \in compared : Outcome(n, Values(c, locals)) = "true"}
<1>1. IsFiniteSet(C) BY CombinationsFinite
<1>2. IsFiniteSet(compared)
  BY <1>1, FS_Subset
<1>3. IsFiniteSet(reached) /\ Cardinality(reached) <= Cardinality(compared)
  BY <1>2, FS_Subset
<1>4. Cardinality(reached) \in Nat /\ Cardinality(compared) \in Nat
  BY <1>2, <1>3, FS_CardinalityType
<1>5. Aware(1, 1) \in Sound /\ Aware(Cardinality(reached), Cardinality(compared)) \in Sound
  BY <1>3, <1>4, AwareSound
<1> QED BY <1>5 DEF ComparisonFitness

-------------------------------------------------------------------------------
(* Frames. *)

\* What a frame is made of, and how its sums relate.
LEMMA FrameFields ==
    ASSUME NEW r \in Frame
    PROVE  /\ r \in FrameType
           /\ r.node \in Constraint /\ r.part \in Nat \ {0} /\ r.last \in Sound
           /\ r.scope \in Scopes /\ r.locals \in Locals /\ r.todo \in SUBSET Tree
           /\ r.solved \in Nat /\ r.total \in Nat /\ r.open \in BOOLEAN
           /\ r.every \in BOOLEAN /\ r.some \in BOOLEAN
           /\ r.solved <= r.total
           /\ r.every <=> r.solved = r.total
           /\ Kind[r.node] = "implies" => r.part <= 3
<1>1. /\ r \in FrameType
      /\ r.solved <= r.total /\ (r.every <=> r.solved = r.total)
      /\ (Kind[r.node] = "implies" => r.part <= 3)
  BY Zenon DEF Frame
<1>2. /\ r.node \in Constraint /\ r.part \in Nat \ {0} /\ r.last \in Sound
      /\ r.scope \in Scopes /\ r.locals \in Locals /\ r.todo \in SUBSET Tree
      /\ r.solved \in Nat /\ r.total \in Nat /\ r.open \in BOOLEAN
      /\ r.every \in BOOLEAN /\ r.some \in BOOLEAN
  BY <1>1, SMT DEF FrameType
<1> QED BY <1>1, <1>2, Zenon

\* A new call is a frame.
LEMMA CallIsFrame ==
    ASSUME NEW t \in Tree, NEW n \in Constraint, NEW scope \in Scopes, NEW locals \in Locals
    PROVE  Call(t, n, scope, locals) \in Frame
<1>1. Key(t, scope, locals) \in Keys BY DEF Keys
<1>2. Counted(1, 1, TRUE) \in Sound BY OneSound
<1> DEFINE r == Call(t, n, scope, locals)
<1>3. r \in FrameType
  <2> HIDE DEF Sound, Keys, Scopes, Locals
  <2>1. 1 \in Nat \ {0} /\ 0 \in Nat /\ {} \in SUBSET Tree
    OBVIOUS
  <2> QED BY <1>1, <1>2, <2>1 DEF Call, FrameType
<1>4. r.solved = 0 /\ r.total = 0 /\ r.every = TRUE /\ r.part = 1
  BY DEF Call
<1> QED BY <1>3, <1>4 DEF Frame

\* The empty dictionary is a scope and a dictionary of local variables.
LEMMA EmptyIsDictionary == Empty \in Scopes /\ Empty \in Locals
<1>1. Empty \in [{} -> Tree] /\ Empty \in [{} -> {{u} : u \in Tree}]
  BY DEF Empty
<1> QED BY <1>1 DEF Scopes, Locals

\* A caller that receives a sound fitness remains a frame: the sums are equal exactly if
\* they were and the part is a success.
LEMMA ReceivedIsFrame ==
    ASSUME NEW caller \in Frame, NEW callee \in Frame, NEW f \in Sound
    PROVE  Received(caller, callee, f) \in Frame
<1> DEFINE r == Received(caller, callee, f)
<1>1. f.solved \in Nat /\ f.total \in Nat /\ f.success \in BOOLEAN
      /\ f.solved <= f.total /\ (f.success <=> f.solved = f.total)
  BY DEF Sound, FitnessType
<1>2. /\ caller \in FrameType /\ caller.solved \in Nat /\ caller.total \in Nat
      /\ caller.solved <= caller.total
      /\ (caller.every <=> caller.solved = caller.total)
      /\ (Kind[caller.node] = "implies" => caller.part <= 3)
      /\ callee.scope \in Scopes /\ callee.locals \in Locals
  BY FrameFields
<1>3. r \in FrameType
  <2> DEFINE scope == IF caller.scope = Empty THEN Empty ELSE callee.scope
             locals == IF caller.locals = Empty THEN Empty ELSE callee.locals
             solved == caller.solved + f.solved
             total == caller.total + f.total
             every == caller.every /\ f.success
             some == caller.some \/ f.success
  <2>1. scope \in Scopes /\ locals \in Locals /\ solved \in Nat /\ total \in Nat
        /\ every \in BOOLEAN /\ some \in BOOLEAN
    BY <1>1, <1>2, EmptyIsDictionary
  <2>2. r = [caller EXCEPT !.scope = scope, !.locals = locals, !.solved = solved,
                           !.total = total, !.every = every, !.some = some, !.last = f]
    BY Zenon DEF Received
  <2> HIDE DEF r, scope, locals, solved, total, every, some
  <2> QED BY <2>1, <2>2, <1>2 DEF FrameType
<1>4. /\ r.node = caller.node /\ r.part = caller.part
      /\ r.solved = caller.solved + f.solved /\ r.total = caller.total + f.total
      /\ (r.every <=> caller.every /\ f.success)
  BY <1>2 DEF Received, FrameType
<1>5. r.solved <= r.total
  BY <1>1, <1>2, <1>4
<1>6. r.every <=> r.solved = r.total
  <2>1. (caller.solved = caller.total /\ f.solved = f.total)
            <=> caller.solved + f.solved = caller.total + f.total
    BY <1>1, <1>2
  <2> QED BY <2>1, <1>1, <1>2, <1>4
<1>7. Kind[r.node] = "implies" => r.part <= 3
  BY <1>2, <1>4
<1> HIDE DEF r
<1>8. r \in Frame
  BY <1>3, <1>5, <1>6, <1>7 DEF Frame
<1> QED BY <1>8 DEF r

\* What a frame aggregates is sound.
LEMMA AggregateSound ==
    ASSUME NEW r \in Frame
    PROVE  Aggregate(r) \in Sound
<1>1. /\ r.node \in Constraint /\ r.part \in Nat \ {0} /\ r.last \in Sound
      /\ r.solved \in Nat /\ r.total \in Nat /\ r.solved <= r.total
      /\ r.every \in BOOLEAN /\ r.some \in BOOLEAN
      /\ (r.every <=> r.solved = r.total)
      /\ (Kind[r.node] = "implies" => r.part < 3 \/ r.part = 3)
  BY FrameFields
<1>2. Counted(1, 1, TRUE) \in Sound
  BY OneSound
<1>3. CASE Kind[r.node] = "implies" /\ r.part = 3
  <2>1. Copied(r.last) \in Sound BY <1>1, CopiedSound
  <2> DEFINE f == Copied(r.last)
             g == [f EXCEPT !.total = @ + 1, !.solved = @ + (IF f.success THEN 1 ELSE 0)]
  <2>2. /\ f \in FitnessType /\ f.solved <= f.total /\ (f.success <=> f.solved = f.total)
        /\ (f.aware => f.reached <= f.values /\ (f.success <=> f.reached = f.values))
        /\ f.success \in BOOLEAN /\ f.solved \in Nat /\ f.total \in Nat
    BY <2>1 DEF Sound, FitnessType
  <2>3. /\ g \in FitnessType /\ g.total = f.total + 1
        /\ g.solved = f.solved + (IF f.success THEN 1 ELSE 0)
        /\ (g.success <=> f.success) /\ (g.aware <=> f.aware) /\ g.reached = f.reached
        /\ g.values = f.values
    <3> DEFINE solved == f.solved + (IF f.success THEN 1 ELSE 0)
               total == f.total + 1
    <3>1. solved \in Nat /\ total \in Nat
      BY <2>2
    <3>2. g = [f EXCEPT !.total = total, !.solved = solved]
      OBVIOUS
    <3> HIDE DEF solved, total, f, g
    <3>3. /\ g \in FitnessType /\ g.total = total /\ g.solved = solved
          /\ (g.success <=> f.success) /\ (g.aware <=> f.aware) /\ g.reached = f.reached
          /\ g.values = f.values
      BY <3>1, <3>2, <2>2 DEF FitnessType
    <3> QED BY <3>3 DEF solved, total
  <2>4. g.solved <= g.total /\ (g.success <=> g.solved = g.total) /\ g.total > 0
    BY <2>2, <2>3
  <2> HIDE DEF f, g
  <2>5. g \in Sound
    BY <2>2, <2>3, <2>4 DEF Sound
  <2> USE DEF f, g
  <2> QED BY <2>5, <1>3 DEF Aggregate
<1>4. CASE Kind[r.node] = "implies" /\ r.part < 3
  <2>1. r.part # 3 BY <1>1, <1>4
  <2> QED BY <1>2, <1>4, <2>1, Zenon DEF Aggregate
<1>5. CASE Kind[r.node] = "and"
  <2>1. Counted(r.solved + (IF r.every THEN 1 ELSE 0), r.total + 1, r.every) \in Sound
    BY <1>1, CountedSound
  <2> QED BY <2>1, <1>5 DEF Aggregate
<1>6. CASE Kind[r.node] \notin {"implies", "and"}
  <2>1. Overall(r) \in BOOLEAN
    BY <1>1 DEF Overall
  <2>2. Counted(IF Overall(r) THEN r.total + 1 ELSE r.solved, r.total + 1, Overall(r)) \in Sound
    BY <1>1, <2>1, CountedSound
  <2> QED BY <2>2, <1>6 DEF Aggregate
<1> QED BY <1>1, <1>3, <1>4, <1>5, <1>6

-------------------------------------------------------------------------------
(* Steps. *)

\* The topmost frame and those below it.
LEMMA TopAndBelow ==
    ASSUME stack \in Seq(Frame), stack # <<>>
    PROVE  /\ Len(stack) \in Nat \ {0}
           /\ Top \in Frame
           /\ Below \in Seq(Frame)
           /\ Len(stack) # 1 => Len(Below) \in 1..Len(Below) /\ Below[Len(Below)] \in Frame
<1>1. Len(stack) \in Nat /\ Len(stack) > 0
  BY EmptySeq, LenProperties
<1>2. Top \in Frame
  BY <1>1, ElementOfSeq DEF Top
<1>3. Below \in Seq(Frame) /\ Len(Below) = Len(stack) - 1
  <2>1. \A i \in 1..(Len(stack) - 1) : i \in 1..Len(stack)
    BY <1>1
  <2> DEFINE n == Len(stack) - 1
  <2>2. n \in Int /\ n >= 0
    BY <1>1
  <2>3. \A i \in 1..n : stack[i] \in Frame
    BY <2>1, ElementOfSeq
  <2> HIDE DEF n
  <2>4. /\ SubSeq(stack, 1, n) \in Seq(Frame)
        /\ Len(SubSeq(stack, 1, n)) = IF 1 <= n THEN n - 1 + 1 ELSE 0
    BY <2>2, <2>3, SubSeqProperties
  <2>5. Len(SubSeq(stack, 1, n)) = n
    BY <2>2, <2>4
  <2> QED BY <2>4, <2>5 DEF Below, n
<1>4. Len(stack) # 1 => Len(Below) \in 1..Len(Below)
  BY <1>1, <1>3
<1>5. Len(stack) # 1 => Below[Len(Below)] \in Frame
  BY <1>3, <1>4, ElementOfSeq
<1> QED BY <1>1, <1>2, <1>3, <1>4, <1>5

\* Returning a sound fitness leaves frames and a sound result.
LEMMA ReturnKeeps ==
    ASSUME IInv, stack # <<>>, NEW f \in Sound, Return(f)
    PROVE  stack' \in Seq(Frame) /\ ResultSound'
<1> USE TopAndBelow DEF IInv
<1>1. CASE Len(stack) = 1
  <2>1. stack' = <<>> /\ result' = [node |-> Top.node, fitness |-> f]
    BY <1>1, Zenon DEF Return
  <2>2. Top.node \in Constraint
    BY FrameFields
  <2> QED BY <2>1, <2>2, EmptySeq DEF ResultSound
<1>2. CASE Len(stack) # 1
  <2> DEFINE caller == Below[Len(Below)]
             received == Received(caller, Top, f)
  <2>1. stack' = [Below EXCEPT ![Len(Below)] = received] /\ result' = result
    BY <1>2, Zenon DEF Return
  <2>2. received \in Frame
    BY <1>2, ReceivedIsFrame
  <2> HIDE DEF received
  <2>3. stack' \in Seq(Frame)
    BY <1>2, <2>1, <2>2, ExceptSeq
  <2> QED BY <2>1, <2>3 DEF ResultSound
<1> QED BY <1>1, <1>2

\* Caching a sound fitness, with or without dropping another.
LEMMA RememberKeeps ==
    ASSUME CacheSound, NEW n \in Constraint, NEW key, NEW f \in Sound, Remember(n, key, f)
    PROVE  CacheSound'
<1>1. PICK kept \in SUBSET DOMAIN cache[n] :
        cache' = [cache EXCEPT ![n] = [k \in kept \cup {key} |-> IF k = key THEN f ELSE @[k]]]
  BY DEF Remember
<1>2. \A k \in kept : cache[n][k] \in Sound
  BY <1>1 DEF CacheSound
<1> QED BY <1>1, <1>2 DEF CacheSound

LEMMA InitIInv == Init => IInv
<1> SUFFICES ASSUME Init PROVE IInv
  OBVIOUS
<1>1. stack \in Seq(Frame)
  BY EmptySeq DEF Init
<1>2. CacheSound
  BY DEF Init, CacheSound
<1> QED BY <1>1, <1>2, SizeAssumption DEF Init, IInv, ResultSound

\* Each step of an evaluation keeps the invariant.
LEMMA HitCacheKeeps == ASSUME IInv, HitCache PROVE IInv'
<1>1. stack # <<>> /\ Top.node \in Constraint
  BY TopAndBelow, FrameFields DEF HitCache, IInv
<1>2. cache[Top.node][Top.key] \in Sound
  BY <1>1 DEF HitCache, IInv, CacheSound
<1>3. Copied(cache[Top.node][Top.key]) \in Sound
  BY <1>2, CopiedSound
<1>4. stack' \in Seq(Frame) /\ ResultSound'
  BY <1>1, <1>3, ReturnKeeps DEF HitCache
<1> QED BY <1>4 DEF HitCache, IInv, CacheSound

LEMMA EvaluateLeafKeeps == ASSUME IInv, EvaluateLeaf PROVE IInv'
<1> DEFINE f == IF Kind[Top.node] = "expression"
                THEN ExpressionFitness(Top.node, individual, Top.scope, Top.locals)
                ELSE ComparisonFitness(Top.node, individual, Top.scope, Top.locals)
<1>1. stack # <<>> /\ Top \in Frame /\ Top.node \in Leaf /\ individual \in Tree
  BY TopAndBelow, TreeAssumption DEF EvaluateLeaf, Missed, IInv
<1>2. Top.node \in Constraint /\ Top.scope \in Scopes
  BY <1>1, FrameFields
<1>3. f \in Sound
  BY <1>1, <1>2, ExpressionSound, ComparisonSound
<1>4. Remember(Top.node, Top.key, f) /\ Return(f)
  BY DEF EvaluateLeaf
<1> HIDE DEF f
<1>5. stack' \in Seq(Frame) /\ ResultSound'
  BY <1>1, <1>3, <1>4, ReturnKeeps
<1>6. CacheSound'
  BY <1>2, <1>3, <1>4, RememberKeeps DEF IInv
<1> QED BY <1>5, <1>6 DEF EvaluateLeaf, IInv

LEMMA EscapeKeeps == ASSUME IInv, Escape PROVE IInv'
BY DEF IInv, Escape, CacheSound, ResultSound

LEMMA CloseKeeps == ASSUME IInv, Close PROVE IInv'
<1>1. stack # <<>> /\ Top \in Frame
  BY TopAndBelow DEF Close, IInv
<1>2. Top.node \in Constraint
  BY <1>1, FrameFields
<1>3. Aggregate(Top) \in Sound
  BY <1>1, AggregateSound
<1>4. stack' \in Seq(Frame) /\ ResultSound'
  BY <1>1, <1>3, ReturnKeeps DEF Close
<1>5. CacheSound'
  BY <1>2, <1>3, RememberKeeps DEF Close, IInv
<1> QED BY <1>4, <1>5 DEF Close, IInv

LEMMA OpenKeeps == ASSUME IInv, Open PROVE IInv'
<1> DEFINE todo == IF Top.node \in Quantifier
                   THEN TreesFound(Search[Top.node], individual, Top.scope) ELSE {}
           opened == [Top EXCEPT !.open = TRUE, !.todo = todo]
<1>1. stack # <<>> /\ Top \in Frame /\ Len(stack) \in 1..Len(stack) /\ individual \in Tree
  BY TopAndBelow, TreeAssumption DEF Open, Missed, IInv
<1>2. todo \in SUBSET Tree
  <2>1. Top.scope \in Scopes BY <1>1, FrameFields
  <2>2. Top.node \in Quantifier => Search[Top.node] \in SearchType
    BY ConstraintAssumption
  <2> QED BY <1>1, <2>1, <2>2, FoundAreTrees
<1>3. stack' = [stack EXCEPT ![Len(stack)] = opened]
  BY <1>1 DEF Open, Top
<1> HIDE DEF todo
<1>4. opened \in Frame
  <2>1. opened \in FrameType
    BY <1>1, <1>2, FrameFields DEF FrameType
  <2>2. /\ opened.solved = Top.solved /\ opened.total = Top.total
        /\ opened.every = Top.every /\ opened.node = Top.node /\ opened.part = Top.part
    BY <1>1, FrameFields DEF FrameType
  <2> QED BY <1>1, <2>1, <2>2 DEF Frame
<1> HIDE DEF opened
<1>5. stack' \in Seq(Frame)
  BY <1>1, <1>3, <1>4, ExceptSeq DEF IInv
<1> QED BY <1>5 DEF Open, IInv, CacheSound, ResultSound

\* Pushing a call on a stack of frames.
LEMMA PushKeeps ==
    ASSUME IInv, stack # <<>>, NEW changed \in Frame, NEW call \in Frame,
           stack' = Append([stack EXCEPT ![Len(stack)] = changed], call)
    PROVE  stack' \in Seq(Frame)
<1>1. Len(stack) \in 1..Len(stack)
  BY TopAndBelow DEF IInv
<1>2. [stack EXCEPT ![Len(stack)] = changed] \in Seq(Frame)
  BY <1>1, ExceptSeq DEF IInv
<1> QED BY <1>2, AppendProperties

LEMMA EvaluatePartKeeps == ASSUME IInv, EvaluatePart PROVE IInv'
<1> DEFINE n == Parts[Top.node][Top.part]
           advanced == [Top EXCEPT !.part = Top.part + 1]
           call == Call(individual, n, Top.scope, Top.locals)
<1>1. stack # <<>> /\ Top \in Frame /\ Len(stack) \in 1..Len(stack) /\ individual \in Tree
  BY TopAndBelow, TreeAssumption DEF EvaluatePart, IInv
<1>2. HasNextPart(Top) /\ Top.part \in Nat \ {0} /\ Top.node \in Constraint
  BY <1>1, FrameFields DEF EvaluatePart
<1>3. n \in Constraint
  <2>1. Parts[Top.node] \in Seq(Constraint) BY <1>2, ConstraintAssumption
  <2>2. Top.part >= 1 BY <1>2
  <2>3. Top.part \in 1..Len(Parts[Top.node])
    BY <1>2, <2>1, <2>2, LenProperties DEF HasNextPart
  <2> QED BY <2>1, <2>3, ElementOfSeq
<1>4. call \in Frame
  <2>1. Top.scope \in Scopes /\ Top.locals \in Locals BY <1>1, FrameFields
  <2> QED BY <1>1, <1>3, <2>1, CallIsFrame
<1>5. advanced \in Frame
  <2>1. advanced \in FrameType
    BY <1>1, <1>2, FrameFields DEF FrameType
  <2>2. /\ advanced.solved = Top.solved /\ advanced.total = Top.total
        /\ advanced.every = Top.every /\ advanced.node = Top.node
        /\ advanced.part = Top.part + 1
    BY <1>1, FrameFields DEF FrameType
  <2>3. Kind[Top.node] = "implies" => Top.part + 1 <= 3
    <3>1. Top.part <= Len(Parts[Top.node])
      BY <1>2 DEF HasNextPart
    <3>2. Kind[Top.node] = "implies" => Len(Parts[Top.node]) = 2
      BY <1>2, ConstraintAssumption
    <3> DEFINE p == Top.part
               length == Len(Parts[Top.node])
    <3>3. p \in Nat /\ p <= length /\ (Kind[Top.node] = "implies" => length = 2)
      BY <1>2, <3>1, <3>2
    <3> HIDE DEF p, length
    <3>4. Kind[Top.node] = "implies" => p + 1 <= 3
      BY <3>3
    <3> QED BY <3>4 DEF p
  <2> QED BY <1>1, <2>1, <2>2, <2>3 DEF Frame
<1>6. stack' = Append([stack EXCEPT ![Len(stack)] = advanced], call)
  BY <1>1 DEF EvaluatePart, Top
<1> HIDE DEF advanced, call
<1>7. stack' \in Seq(Frame)
  BY <1>1, <1>4, <1>5, <1>6, PushKeeps
<1> QED BY <1>7 DEF EvaluatePart, IInv, CacheSound, ResultSound

\* Binding a variable keeps dictionaries what they are.
LEMMA BoundDictionaries ==
    ASSUME NEW r \in Frame, r.node \in Quantifier, NEW t \in Tree
    PROVE  BoundScope(r, t) \in Scopes /\ BoundLocals(r, t) \in Locals
<1>1. r.scope \in Scopes /\ r.locals \in Locals
  BY FrameFields
<1>2. Bound[r.node] \in Symbol \cup Name
  BY ConstraintAssumption
<1>3. ASSUME NEW scope \in Scopes, NEW key \in Symbol PROVE SetIn(scope, key, t) \in Scopes
  <2>1. PICK S \in SUBSET Symbol : scope \in [S -> Tree] BY DEF Scopes
  <2>2. SetIn(scope, key, t) \in [S \cup {key} -> Tree] BY <2>1 DEF SetIn
  <2> QED BY <2>2 DEF Scopes
<1>4. ASSUME NEW locals \in Locals, NEW key \in Name PROVE SetIn(locals, key, {t}) \in Locals
  <2>1. PICK S \in SUBSET Name : locals \in [S -> {{u} : u \in Tree}] BY DEF Locals
  <2>2. SetIn(locals, key, {t}) \in [S \cup {key} -> {{u} : u \in Tree}] BY <2>1 DEF SetIn
  <2> QED BY <2>2 DEF Locals
<1> QED BY <1>1, <1>2, <1>3, <1>4 DEF BoundScope, BoundLocals

LEMMA EvaluateInstanceKeeps == ASSUME IInv, EvaluateInstance PROVE IInv'
<1>1. stack # <<>> /\ Top \in Frame /\ Len(stack) \in 1..Len(stack) /\ individual \in Tree
  BY TopAndBelow, TreeAssumption DEF EvaluateInstance, IInv
<1>2. Top.node \in Quantifier /\ Top.todo \in SUBSET Tree /\ Top.node \in Constraint
  BY <1>1, FrameFields DEF EvaluateInstance, HasNextInstance
<1>3. PICK t \in Top.todo :
        stack' = Append([stack EXCEPT ![Len(stack)].todo = @ \ {t},
                                      ![Len(stack)].scope = BoundScope(Top, t),
                                      ![Len(stack)].locals = BoundLocals(Top, t)],
                        Call(individual, Parts[Top.node][1], BoundScope(Top, t),
                             BoundLocals(Top, t)))
  BY DEF EvaluateInstance
<1> DEFINE scope == BoundScope(Top, t)
           locals == BoundLocals(Top, t)
           todo == Top.todo \ {t}
           bound == [Top EXCEPT !.todo = todo, !.scope = scope, !.locals = locals]
           call == Call(individual, Parts[Top.node][1], scope, locals)
<1>4. scope \in Scopes /\ locals \in Locals /\ todo \in SUBSET Tree
  BY <1>1, <1>2, BoundDictionaries
<1>5. call \in Frame
  <2>1. Parts[Top.node] \in Seq(Constraint) /\ Len(Parts[Top.node]) = 1
    BY <1>2, ConstraintAssumption
  <2>2. Parts[Top.node][1] \in Constraint
    BY <2>1, ElementOfSeq
  <2> QED BY <1>1, <1>4, <2>2, CallIsFrame
<1>6. stack' = Append([stack EXCEPT ![Len(stack)] = bound], call)
  BY <1>1, <1>3 DEF Top
<1> HIDE DEF scope, locals, todo
<1>7. bound \in Frame
  <2>1. bound \in FrameType
    BY <1>1, <1>4, FrameFields DEF FrameType
  <2>2. /\ bound.solved = Top.solved /\ bound.total = Top.total
        /\ bound.every = Top.every /\ bound.node = Top.node /\ bound.part = Top.part
    BY <1>1, FrameFields DEF FrameType
  <2> QED BY <1>1, <2>1, <2>2 DEF Frame
<1> HIDE DEF bound, call
<1>8. stack' \in Seq(Frame)
  BY <1>1, <1>5, <1>6, <1>7, PushKeeps
<1> QED BY <1>8 DEF EvaluateInstance, IInv, CacheSound, ResultSound

LEMMA EvaluateKeeps ==
    ASSUME IInv, NEW t \in Individual, NEW n \in Goal, Evaluate(t, n)
    PROVE  IInv'
<1>1. t \in Tree /\ n \in Constraint
  BY TreeAssumption, ConstraintAssumption
<1>2. Call(t, n, Empty, Empty) \in Frame
  BY <1>1, EmptyIsDictionary, CallIsFrame
<1>3. stack' \in Seq(Frame)
  BY <1>2 DEF Evaluate
<1>4. evaluations' \in 0..MaxEvaluation
  BY SizeAssumption DEF Evaluate, IInv
<1> QED BY <1>3, <1>4 DEF Evaluate, IInv, CacheSound, ResultSound

LEMMA NextKeeps == IInv /\ [Next]_vars => IInv'
<1> SUFFICES ASSUME IInv, [Next]_vars PROVE IInv'
  OBVIOUS
<1>1. CASE HitCache BY <1>1, HitCacheKeeps
<1>2. CASE EvaluateLeaf BY <1>2, EvaluateLeafKeeps
<1>3. CASE Open BY <1>3, OpenKeeps
<1>4. CASE EvaluatePart BY <1>4, EvaluatePartKeeps
<1>5. CASE EvaluateInstance BY <1>5, EvaluateInstanceKeeps
<1>6. CASE Close BY <1>6, CloseKeeps
<1>7. CASE \E t \in Individual, n \in Goal : Evaluate(t, n) BY <1>7, EvaluateKeeps
<1>8. CASE Escape BY <1>8, EscapeKeeps
<1>9. CASE UNCHANGED vars BY <1>9 DEF vars, IInv, CacheSound, ResultSound
<1> QED BY <1>1, <1>2, <1>3, <1>4, <1>5, <1>6, <1>7, <1>8, <1>9 DEF Next, Compute

\* What a fitness object reports as a number and as a truth value agrees, for every
\* nesting of constraints and every history of the caches.
THEOREM PerfectExactly == Spec => []PerfectIsSatisfied
<1>1. IInv => PerfectIsSatisfied
  BY SoundIsPerfect DEF IInv, ResultSound, PerfectIsSatisfied
<1> QED BY <1>1, InitIInv, NextKeeps, PTL DEF Spec

\* Every frame, cached fitness and result is well-typed, whatever the searches find and
\* whatever the user's code yields: what is bound, counted or cached stays of its type.
THEOREM TypesCorrect == Spec => []TypeOK
<1>1. IInv => TypeOK
  <2> SUFFICES ASSUME IInv PROVE TypeOK
    OBVIOUS
  <2>1. ASSUME NEW i \in DOMAIN stack
        PROVE  LET frame == stack[i] IN
               /\ frame.node \in Constraint /\ frame.open \in BOOLEAN
               /\ DOMAIN frame.scope \subseteq Symbol /\ DOMAIN frame.locals \subseteq Name
               /\ frame.todo \subseteq Tree /\ frame.part \in Nat
               /\ frame.last \in FitnessType
    <3> DEFINE frame == stack[i]
    <3>1. frame \in Frame
      BY <2>1, ElementOfSeq DEF IInv
    <3>2. frame \in FrameType
      BY <3>1, Zenon DEF Frame
    <3>3. /\ frame.node \in Constraint /\ frame.open \in BOOLEAN
          /\ frame.scope \in Scopes /\ frame.locals \in Locals
          /\ frame.todo \subseteq Tree /\ frame.part \in Nat
          /\ frame.last \in Sound
      BY <3>2 DEF FrameType
    <3>4. PICK S \in SUBSET Symbol : frame.scope \in [S -> Tree]
      BY <3>3 DEF Scopes
    <3>5. PICK V \in SUBSET Name : frame.locals \in [V -> {{u} : u \in Tree}]
      BY <3>3 DEF Locals
    <3>6. frame.last \in FitnessType
      BY <3>3, Zenon DEF Sound
    <3> QED BY <3>3, <3>4, <3>5, <3>6
  <2>2. \A n \in Constraint : \A k \in DOMAIN cache[n] : cache[n][k] \in FitnessType
    BY Zenon DEF IInv, CacheSound, Sound
  <2>3. result # NoResult => result.node \in Constraint /\ result.fitness \in FitnessType
    BY Zenon DEF IInv, ResultSound, Sound
  <2> QED BY <2>1, <2>2, <2>3 DEF TypeOK, IInv
<1> QED BY <1>1, InitIInv, NextKeeps, PTL DEF Spec

-------------------------------------------------------------------------------
(* What a constraint means: the recursive function exists. *)

\* Constraints with all their parts.
Closed(some) ==
    some \subseteq Constraint /\ \A n \in some : \A i \in DOMAIN Parts[n] : Parts[n][i] \in some

\* What all of these mean.
Reading(some, m) == m = [n \in some |-> [e \in Environment |-> MeaningOf(n, e, m)]]

\* The parts of a constraint are constraints, and there are as many as its kind requires.
LEMMA PartsAreConstraints ==
    ASSUME NEW n \in Constraint
    PROVE  /\ DOMAIN Parts[n] = 1..Len(Parts[n]) /\ Len(Parts[n]) \in Nat
           /\ \A i \in DOMAIN Parts[n] : Parts[n][i] \in Constraint
           /\ n \in Quantifier => 1 \in DOMAIN Parts[n]
           /\ Kind[n] = "implies" => 1 \in DOMAIN Parts[n] /\ 2 \in DOMAIN Parts[n]
<1>1. Parts[n] \in Seq(Constraint)
  BY ConstraintAssumption
<1>2. DOMAIN Parts[n] = 1..Len(Parts[n]) /\ Len(Parts[n]) \in Nat
  BY <1>1, LenProperties
<1>3. \A i \in 1..Len(Parts[n]) : Parts[n][i] \in Constraint
  BY <1>1, ElementOfSeq
<1>4. /\ n \in Quantifier => Len(Parts[n]) = 1
      /\ Kind[n] = "implies" => Len(Parts[n]) = 2
  BY ConstraintAssumption
<1>5. 1 \in 1..1 /\ 1 \in 1..2 /\ 2 \in 1..2
  OBVIOUS
<1> QED BY <1>2, <1>3, <1>4, <1>5

\* A constraint is of one of the kinds.
LEMMA KindCases ==
    ASSUME NEW n \in Constraint
    PROVE  /\ Kind[n] \in {"expression", "comparison", "and", "or", "implies", "all", "any"}
           /\ n \in Quantifier <=> Kind[n] \in {"all", "any"}
           /\ n \in Leaf <=> Kind[n] \in {"expression", "comparison"}
           /\ n \in Universal <=> Kind[n] \in {"and", "all"}
BY ConstraintAssumption DEF Quantifier, Leaf, Universal

\* The meaning of a constraint is decided by that of its parts.
LEMMA PartsDecide ==
    ASSUME NEW n \in Constraint, NEW e, NEW m1, NEW m2,
           \A i \in DOMAIN Parts[n] : m1[Parts[n][i]] = m2[Parts[n][i]]
    PROVE  MeaningOf(n, e, m1) = MeaningOf(n, e, m2)
<1>1. n \in Quantifier => m1[Parts[n][1]] = m2[Parts[n][1]]
  BY PartsAreConstraints
<1>2. Kind[n] = "implies" => m1[Parts[n][1]] = m2[Parts[n][1]] /\ m1[Parts[n][2]] = m2[Parts[n][2]]
  BY PartsAreConstraints
<1>3. CASE Kind[n] \in {"expression", "comparison"}
  BY <1>3 DEF MeaningOf
<1>4. CASE Kind[n] = "and"
  BY <1>4 DEF MeaningOf
<1>5. CASE Kind[n] = "or"
  BY <1>5 DEF MeaningOf
<1>6. CASE Kind[n] = "implies"
  BY <1>2, <1>6 DEF MeaningOf
<1>7. CASE Kind[n] = "all"
  BY <1>1, <1>7, KindCases DEF MeaningOf
<1>8. CASE Kind[n] = "any"
  BY <1>1, <1>8, KindCases DEF MeaningOf
<1> QED BY <1>3, <1>4, <1>5, <1>6, <1>7, <1>8, KindCases

\* A constraint means something that is true or not.
LEMMA MeaningIsTruth ==
    ASSUME NEW n \in Constraint, NEW e, NEW m
    PROVE  MeaningOf(n, e, m) \in BOOLEAN
BY KindCases DEF MeaningOf

\* Two readings of the same constraint agree: take an innermost one on which they do not.
LEMMA ReadingsAgree ==
    ASSUME NEW S1, NEW S2, NEW m1, NEW m2, Closed(S1), Closed(S2), Reading(S1, m1), Reading(S2, m2)
    PROVE  \A n \in S1 \cap S2 : m1[n] = m2[n]
<1> DEFINE bad == {n \in S1 \cap S2 : m1[n] # m2[n]}
<1> SUFFICES ASSUME bad # {} PROVE FALSE
  OBVIOUS
<1>1. bad \in SUBSET Constraint
  BY DEF Closed
<1>2. PICK n \in bad : \A i \in DOMAIN Parts[n] : Parts[n][i] \notin bad
  <2> HIDE DEF bad
  <2> QED BY <1>1, NestingAssumption
<1>3. n \in S1 /\ n \in S2 /\ n \in Constraint
  BY <1>1
<1>4. \A i \in DOMAIN Parts[n] : m1[Parts[n][i]] = m2[Parts[n][i]]
  BY <1>2, <1>3 DEF Closed
<1>5. \A e : MeaningOf(n, e, m1) = MeaningOf(n, e, m2)
  BY <1>3, <1>4, PartsDecide
<1>6. /\ m1[n] = [e \in Environment |-> MeaningOf(n, e, m1)]
      /\ m2[n] = [e \in Environment |-> MeaningOf(n, e, m2)]
  <2>1. m1[n] = [e \in Environment |-> MeaningOf(n, e, m1)]
    BY <1>3, Zenon DEF Reading
  <2>2. m2[n] = [e \in Environment |-> MeaningOf(n, e, m2)]
    BY <1>3, Zenon DEF Reading
  <2> QED BY <2>1, <2>2
<1>7. m1[n] = m2[n]
  BY <1>5, <1>6
<1> QED BY <1>7

\* There is a reading of all constraints: the union of those of closed sets is one, and an
\* innermost constraint without one could be added.
LEMMA MeaningExists == \E m : Reading(Constraint, m)
<1> DEFINE Good == {n \in Constraint : \E S, m : n \in S /\ Closed(S) /\ Reading(S, m)}
           of(n) == CHOOSE m : \E S : n \in S /\ Closed(S) /\ Reading(S, m)
           M == [n \in Good |-> of(n)[n]]
<1>1. \A n \in Good : \E S : n \in S /\ Closed(S) /\ Reading(S, of(n))
  <2> TAKE n \in Good
  <2>1. \E m : \E S : n \in S /\ Closed(S) /\ Reading(S, m)
    OBVIOUS
  <2> QED BY <2>1, Zenon
<1>2. ASSUME NEW S, NEW m, Closed(S), Reading(S, m)
      PROVE  S \subseteq Good /\ \A n \in S : M[n] = m[n]
  <2>1. S \subseteq Good
    BY <1>2 DEF Closed
  <2>2. ASSUME NEW n \in S PROVE M[n] = m[n]
    <3>1. PICK S1 : n \in S1 /\ Closed(S1) /\ Reading(S1, of(n))
      BY <1>1, <2>1
    <3> HIDE DEF of
    <3>2. of(n)[n] = m[n]
      BY <1>2, <3>1, ReadingsAgree
    <3>3. M[n] = of(n)[n]
      BY <2>1
    <3> QED BY <3>2, <3>3
  <2> QED BY <2>1, <2>2
<1> HIDE DEF of
<1>3. Closed(Good)
  <2>1. ASSUME NEW n \in Good PROVE \A i \in DOMAIN Parts[n] : Parts[n][i] \in Good
    <3>1. PICK S : n \in S /\ Closed(S) /\ Reading(S, of(n))
      BY <1>1
    <3>2. S \subseteq Good BY <3>1, <1>2
    <3> QED BY <3>1, <3>2 DEF Closed
  <2>2. Good \subseteq Constraint
    OBVIOUS
  <2> HIDE DEF Good
  <2> QED BY <2>1, <2>2 DEF Closed
<1>4. \A n \in Good : M[n] = [e \in Environment |-> MeaningOf(n, e, M)]
  <2> TAKE n \in Good
  <2>1. PICK S : n \in S /\ Closed(S) /\ Reading(S, of(n))
    BY <1>1
  <2> DEFINE m == of(n)
  <2>2. /\ \A x \in S : M[x] = m[x]
        /\ n \in Constraint
    BY <2>1, <1>2
  <2>3. \A i \in DOMAIN Parts[n] : M[Parts[n][i]] = m[Parts[n][i]]
    BY <2>1, <2>2 DEF Closed
  <2> HIDE DEF M, m, Good
  <2>4. \A e : MeaningOf(n, e, M) = MeaningOf(n, e, m)
    BY <2>2, <2>3, PartsDecide
  <2>5. m[n] = [e \in Environment |-> MeaningOf(n, e, m)]
    BY <2>1, Zenon DEF Reading, m
  <2> QED BY <2>1, <2>2, <2>4, <2>5
<1>5. Reading(Good, M)
  <2> HIDE DEF Good
  <2>1. M = [n \in Good |-> M[n]]
    OBVIOUS
  <2> HIDE DEF M
  <2> QED BY <2>1, <1>4 DEF Reading
<1>6. Good = Constraint
  <2> SUFFICES ASSUME Constraint \ Good # {} PROVE FALSE
    OBVIOUS
  <2>1. PICK n \in Constraint \ Good : \A i \in DOMAIN Parts[n] : Parts[n][i] \notin Constraint \ Good
    <3> HIDE DEF Good
    <3>1. Constraint \ Good \in SUBSET Constraint
      OBVIOUS
    <3> QED BY <3>1, NestingAssumption
  <2>2. \A i \in DOMAIN Parts[n] : Parts[n][i] \in Good
    <3> HIDE DEF Good
    <3> QED BY <2>1, PartsAreConstraints
  <2> DEFINE S == Good \cup {n}
             own == [e \in Environment |-> MeaningOf(n, e, M)]
             m == [x \in S |-> IF x = n THEN own ELSE M[x]]
  <2>3. Closed(S)
    <3> HIDE DEF Good, M
    <3> QED BY <1>3, <2>1, <2>2 DEF Closed
  <2>4. ASSUME NEW x \in S PROVE m[x] = [e \in Environment |-> MeaningOf(x, e, m)]
    <3>1. \A i \in DOMAIN Parts[x] : Parts[x][i] \in Good
      <4> HIDE DEF Good
      <4> QED BY <2>2, <1>3 DEF Closed
    <3>2. \A y \in Good : m[y] = M[y]
      <4> HIDE DEF Good, M, own
      <4> QED BY <2>1
    <3>3. x \in Constraint
      OBVIOUS
    <3> HIDE DEF m
    <3>4. \A e : MeaningOf(x, e, m) = MeaningOf(x, e, M)
      <4> HIDE DEF Good, M
      <4> QED BY <3>1, <3>2, <3>3, PartsDecide
    <3>5. m[x] = IF x = n THEN own ELSE M[x]
      <4> HIDE DEF Good, M, own
      <4> QED BY DEF m
    <3>6. m[x] = [e \in Environment |-> MeaningOf(x, e, M)]
      <4> HIDE DEF Good, M
      <4> QED BY <3>5, <1>4, Zenon
    <3> QED BY <3>4, <3>6
  <2>5. Reading(S, m)
    <3> HIDE DEF Good, own, M
    <3>1. m = [x \in S |-> m[x]]
      OBVIOUS
    <3> HIDE DEF S, m
    <3> QED BY <3>1, <2>4 DEF Reading
  <2>6. n \in Good
    <3> HIDE DEF m
    <3>1. n \in S OBVIOUS
    <3> HIDE DEF S
    <3> QED BY <3>1, <2>1, <2>3, <2>5
  <2> QED BY <2>1, <2>6
<1> HIDE DEF Good, M
<1> QED BY <1>5, <1>6

\* So the recursive definition has a solution, and Meaning is one.
LEMMA MeaningUnfolds ==
    /\ \A n \in Constraint, e \in Environment : Meaning[n][e] = MeaningOf(n, e, Meaning)
    /\ \A n \in Constraint, e \in Environment : Meaning[n][e] \in BOOLEAN
<1>1. Reading(Constraint, Meaning)
  <2>1. Meaning = CHOOSE m : Reading(Constraint, m)
    BY Zenon DEF Meaning, Reading
  <2> QED BY <2>1, MeaningExists, Zenon
<1>2. \A n \in Constraint : Meaning[n] = [e \in Environment |-> MeaningOf(n, e, Meaning)]
  BY <1>1, Zenon DEF Reading
<1>3. ASSUME NEW n \in Constraint, NEW e \in Environment
      PROVE  Meaning[n][e] = MeaningOf(n, e, Meaning) /\ Meaning[n][e] \in BOOLEAN
  <2>1. Meaning[n][e] = MeaningOf(n, e, Meaning)
    BY <1>2, Zenon
  <2> QED BY <2>1, MeaningIsTruth
<1> QED BY <1>3

-------------------------------------------------------------------------------
(* Trees and environments that look the same. *)

\* Two environments look the same, as far as these names are concerned.
Agree(names, e, d) ==
    /\ Shape[e.tree] = Shape[d.tree]
    /\ \A x \in names \cap Symbol :
        /\ x \in DOMAIN e.scope <=> x \in DOMAIN d.scope
        /\ x \in DOMAIN e.scope => Shape[e.scope[x]] = Shape[d.scope[x]]
    /\ \A x \in names \cap Name :
        /\ x \in DOMAIN e.locals <=> x \in DOMAIN d.locals
        /\ x \in DOMAIN e.locals => Alike(e.locals[x], d.locals[x])

\* A dictionary holds trees, or sets of one tree, under symbols or names.
LEMMA DictionaryValues ==
    /\ \A scope \in Scopes : /\ DOMAIN scope \subseteq Symbol
                             /\ \A x \in DOMAIN scope : scope[x] \in Tree
    /\ \A locals \in Locals : /\ DOMAIN locals \subseteq Name
                              /\ \A x \in DOMAIN locals : \E u \in Tree : locals[x] = {u}
BY DEF Scopes, Locals

LEMMA EnvironmentFields ==
    ASSUME NEW e \in Environment
    PROVE  /\ e.tree \in Tree /\ e.scope \in Scopes /\ e.locals \in Locals
BY DEF Environment

LEMMA InEnvironment ==
    ASSUME NEW t \in Tree, NEW scope \in Scopes, NEW locals \in Locals
    PROVE  /\ In(t, scope, locals) \in Environment
           /\ In(t, scope, locals).tree = t
           /\ In(t, scope, locals).scope = scope
           /\ In(t, scope, locals).locals = locals
BY DEF In, Environment

\* Being alike is symmetric.
LEMMA AlikeSymmetric ==
    ASSUME NEW A, NEW B, Alike(A, B)
    PROVE  Alike(B, A)
<1>1. PICK f \in [A -> B] :
        /\ \A u, w \in A : f[u] = f[w] => u = w
        /\ \A w \in B : \E u \in A : f[u] = w
        /\ \A u \in A : Shape[f[u]] = Shape[u]
  BY DEF Alike
<1> DEFINE g == [w \in B |-> CHOOSE u \in A : f[u] = w]
<1>2. \A w \in B : g[w] \in A /\ f[g[w]] = w
  <2> TAKE w \in B
  <2>1. \E u \in A : f[u] = w
    BY <1>1
  <2>2. g[w] = CHOOSE u \in A : f[u] = w
    OBVIOUS
  <2> HIDE DEF g
  <2> QED BY <2>1, <2>2
<1>3. g \in [B -> A]
  <2>1. g = [w \in B |-> g[w]]
    OBVIOUS
  <2> HIDE DEF g
  <2> QED BY <1>2, <2>1
<1> HIDE DEF g
<1>4. \A u, w \in B : g[u] = g[w] => u = w
  BY <1>2
<1>5. \A u \in A : f[u] \in B /\ g[f[u]] = u
  BY <1>1, <1>2
<1>6. \A w \in B : Shape[g[w]] = Shape[w]
  BY <1>1, <1>2
<1> QED BY <1>3, <1>4, <1>5, <1>6 DEF Alike

\* Sets of one tree are alike if the trees are.
LEMMA SingletonsAlike ==
    ASSUME NEW a, NEW b, Shape[a] = Shape[b]
    PROVE  Alike({a}, {b})
<1> DEFINE f == [x \in {a} |-> b]
<1>1. f \in [{a} -> {b}] /\ f[a] = b
  OBVIOUS
<1> QED BY <1>1 DEF Alike

\* So is a set like its image under a map that keeps shapes.
LEMMA ImageAlike ==
    ASSUME NEW f, NEW A,
           \A u, w \in A : f[u] = f[w] => u = w,
           \A u \in A : Shape[f[u]] = Shape[u]
    PROVE  Alike(A, {f[u] : u \in A})
<1> DEFINE g == [u \in A |-> f[u]]
           B == {f[u] : u \in A}
<1>1. g \in [A -> B] /\ \A u \in A : g[u] = f[u]
  OBVIOUS
<1>2. \A w \in B : \E u \in A : g[u] = w
  OBVIOUS
<1> HIDE DEF g, B
<1>3. Alike(A, B)
  BY <1>1, <1>2 DEF Alike
<1> QED BY <1>3 DEF B

\* Environments that agree do so the other way round, and on fewer names.
LEMMA AgreeSymmetric ==
    ASSUME NEW names, NEW e, NEW d, Agree(names, e, d)
    PROVE  Agree(names, d, e)
BY AlikeSymmetric DEF Agree

-------------------------------------------------------------------------------
(* Searches. *)

\* What a search goes on to from the trees that its base has found.
GoOn(search, bases, scope) ==
    CASE search.step = "none" -> bases
      [] search.step = "child" ->
            UNION {Find(search.attribute, Children[u], scope) : u \in bases}
      [] search.step = "descendant" ->
            UNION {Find(search.attribute, Subtrees[u], scope) : u \in bases}

\* From trees that correspond, searches go on to trees that look the same.
LEMMA GoOnAlike ==
    ASSUME NEW search \in SearchType, NEW t \in Tree, NEW u \in Tree,
           NEW f \in [Subtrees[t] -> Subtrees[u]], Isomorphism(f, t, u),
           NEW bases \in SUBSET Subtrees[t], NEW scope, NEW other,
           search.step # "none" =>
                LET a == search.attribute IN
                /\ a \in DOMAIN scope <=> a \in DOMAIN other
                /\ a \in DOMAIN scope => Shape[scope[a]] = Shape[other[a]]
    PROVE  Alike(GoOn(search, bases, scope), GoOn(search, {f[w] : w \in bases}, other))
<1> DEFINE a == search.attribute
           image == {f[w] : w \in bases}
<1>1. \A w \in Subtrees[t] : w \in Tree /\ Children[w] \subseteq Subtrees[t]
                             /\ Subtrees[w] \subseteq Subtrees[t]
  <2>1. Subtrees[t] \in SUBSET Tree
    BY TreeAssumption
  <2>2. \A w \in Subtrees[t] : Children[w] \cup Subtrees[w] \subseteq Subtrees[t]
    BY TreeAssumption
  <2> QED BY <2>1, <2>2
<1>2. /\ \A w, x \in Subtrees[t] : f[w] = f[x] => w = x
      /\ \A w \in Subtrees[t] :
            /\ Shape[f[w]] = Shape[w] /\ SymbolOf[f[w]] = SymbolOf[w]
            /\ Children[f[w]] = {f[x] : x \in Children[w]}
            /\ Subtrees[f[w]] = {f[x] : x \in Subtrees[w]}
  BY DEF Isomorphism
<1>3. CASE search.step = "none"
  <2>1. /\ \A w, x \in bases : f[w] = f[x] => w = x
        /\ \A w \in bases : Shape[f[w]] = Shape[w]
    BY <1>2
  <2>2. Alike(bases, image)
    BY <2>1, ImageAlike, SMT
  <2> QED BY <2>2, <1>3 DEF GoOn, image
<1>4. ASSUME search.step # "none", NEW below \in {Children, Subtrees}
      PROVE  Alike(UNION {Find(a, below[w], scope) : w \in bases},
                   UNION {Find(a, below[w], other) : w \in image})
  <2>3. \A w \in Subtrees[t] : below[w] \subseteq Subtrees[t] /\ below[f[w]] = {f[x] : x \in below[w]}
    BY <1>1, <1>2
  <2>1. CASE a \in DOMAIN scope
    <3>1. a \in DOMAIN other /\ Shape[scope[a]] = Shape[other[a]]
      BY <1>4, <2>1
    <3>2. CASE bases = {}
      <4>1. Alike({}, {})
        <5>1. [x \in {} |-> x] \in [{} -> {}]
          OBVIOUS
        <5> QED BY <5>1 DEF Alike
      <4>2. UNION {Find(a, below[w], scope) : w \in bases} = {}
        BY <3>2
      <4>3. UNION {Find(a, below[w], other) : w \in image} = {}
        BY <3>2
      <4> QED BY <4>1, <4>2, <4>3
    <3>3. CASE bases # {}
      <4>1. \A w : Find(a, below[w], scope) = {scope[a]} /\ Find(a, below[w], other) = {other[a]}
        BY <2>1, <3>1 DEF Find
      <4>2. UNION {Find(a, below[w], scope) : w \in bases} = {scope[a]}
        BY <3>3, <4>1
      <4>3. image # {}
        BY <3>3
      <4> HIDE DEF image
      <4>4. UNION {Find(a, below[w], other) : w \in image} = {other[a]}
        BY <4>1, <4>3
      <4>5. Alike({scope[a]}, {other[a]})
        BY <3>1, SingletonsAlike
      <4> QED BY <4>2, <4>4, <4>5, Zenon
    <3> QED BY <3>2, <3>3
  <2>2. CASE a \notin DOMAIN scope
    <3> DEFINE A == UNION {Find(a, below[w], scope) : w \in bases}
               B == UNION {Find(a, below[w], other) : w \in image}
    <3>1. a \notin DOMAIN other
      BY <1>4, <2>2
    <3>2. \A x : x \in A <=> \E w \in bases : x \in below[w] /\ SymbolOf[x] = a
      BY <2>2 DEF Find
    <3>3. \A y : y \in B <=> \E w \in bases : y \in below[f[w]] /\ SymbolOf[y] = a
      BY <3>1 DEF Find
    <3> HIDE DEF A, B
    <3>4. A \in SUBSET Subtrees[t]
      BY <3>2, <2>3
    <3>5. B = {f[x] : x \in A}
      <4>1. ASSUME NEW y \in B PROVE \E x \in A : y = f[x]
        <5>1. PICK w \in bases : y \in below[f[w]] /\ SymbolOf[y] = a
          BY <3>3
        <5>2. PICK x \in below[w] : y = f[x]
          BY <5>1, <2>3
        <5>3. x \in Subtrees[t] /\ SymbolOf[x] = a
          BY <5>1, <5>2, <1>2, <2>3
        <5> QED BY <5>2, <5>3, <3>2
      <4>2. ASSUME NEW x \in A PROVE f[x] \in B
        <5>1. PICK w \in bases : x \in below[w] /\ SymbolOf[x] = a
          BY <3>2
        <5>2. f[x] \in below[f[w]] /\ SymbolOf[f[x]] = a
          BY <5>1, <1>2, <2>3
        <5> QED BY <5>2, <3>3
      <4> QED BY <4>1, <4>2
    <3>7. /\ \A w, x \in A : f[w] = f[x] => w = x
          /\ \A w \in A : Shape[f[w]] = Shape[w]
      BY <1>2, <3>4
    <3>6. Alike(A, {f[x] : x \in A})
      BY <3>7, ImageAlike, SMT
    <3> QED BY <3>5, <3>6, Zenon DEF A, B
  <2> QED BY <2>1, <2>2
<1>5. CASE search.step = "child"
  <2>1. search.step # "none"
    BY <1>5
  <2> HIDE DEF a, image
  <2>2. Alike(UNION {Find(a, Children[w], scope) : w \in bases},
              UNION {Find(a, Children[w], other) : w \in image})
    BY <2>1, <1>4, Zenon
  <2> QED BY <2>2, <1>5 DEF GoOn, a, image
<1>6. CASE search.step = "descendant"
  <2>1. search.step # "none"
    BY <1>6
  <2> HIDE DEF a, image
  <2>2. Alike(UNION {Find(a, Subtrees[w], scope) : w \in bases},
              UNION {Find(a, Subtrees[w], other) : w \in image})
    BY <2>1, <1>4, Zenon
  <2> QED BY <2>2, <1>6 DEF GoOn, a, image
<1> QED BY <1>3, <1>5, <1>6 DEF SearchType

\* In environments that agree on the symbols it looks up, a search finds trees that look
\* the same.
LEMMA FoundAlike ==
    ASSUME HashIsStructure, NEW search \in SearchType, NEW names,
           LookedUp(search) \subseteq names,
           NEW e \in Environment, NEW d \in Environment, Agree(names, e, d)
    PROVE  Alike(TreesFound(search, e.tree, e.scope), TreesFound(search, d.tree, d.scope))
<1> DEFINE b == search.base
           a == search.attribute
<1>1. /\ e.tree \in Tree /\ d.tree \in Tree /\ e.scope \in Scopes /\ d.scope \in Scopes
      /\ Shape[e.tree] = Shape[d.tree]
  BY EnvironmentFields DEF Agree
<1>2. b \in Symbol /\ a \in Symbol
  BY DEF SearchType
<1>3. /\ b \in DOMAIN e.scope <=> b \in DOMAIN d.scope
      /\ b \in DOMAIN e.scope => Shape[e.scope[b]] = Shape[d.scope[b]]
  <2>1. b \in names \cap Symbol
    BY <1>2 DEF LookedUp
  <2> QED BY <2>1 DEF Agree
<1>4. search.step # "none" => /\ a \in DOMAIN e.scope <=> a \in DOMAIN d.scope
                              /\ a \in DOMAIN e.scope => Shape[e.scope[a]] = Shape[d.scope[a]]
  <2>1. search.step # "none" => a \in names \cap Symbol
    BY <1>2 DEF LookedUp
  <2> QED BY <2>1 DEF Agree
<1>5. \A t, scope : TreesFound(search, t, scope) = GoOn(search, Find(b, Subtrees[t], scope), scope)
  BY DEF TreesFound, GoOn
<1>6. CASE b \in DOMAIN e.scope
  <2> DEFINE t == e.scope[b]
             u == d.scope[b]
  <2>1. t \in Tree /\ u \in Tree /\ Shape[t] = Shape[u]
    BY <1>1, <1>3, <1>6, DictionaryValues
  <2>2. PICK f \in [Subtrees[t] -> Subtrees[u]] : Isomorphism(f, t, u)
    BY <2>1 DEF HashIsStructure
  <2>3. t \in Subtrees[t] /\ f[t] = u
    BY <2>1, <2>2, TreeAssumption DEF Isomorphism
  <2>4. {t} \in SUBSET Subtrees[t] /\ {f[w] : w \in {t}} = {u}
    BY <2>3
  <2>5. /\ Find(b, Subtrees[e.tree], e.scope) = {t}
        /\ Find(b, Subtrees[d.tree], d.scope) = {u}
    BY <1>3, <1>6 DEF Find
  <2> HIDE DEF t, u, a, b
  <2>6. Alike(GoOn(search, {t}, e.scope), GoOn(search, {f[w] : w \in {t}}, d.scope))
    BY <2>1, <2>2, <2>4, <1>4, GoOnAlike DEF a
  <2> QED BY <2>4, <2>5, <2>6, <1>5
<1>7. CASE b \notin DOMAIN e.scope
  <2> DEFINE t == e.tree
             u == d.tree
             bases == {w \in Subtrees[t] : SymbolOf[w] = b}
  <2>1. PICK f \in [Subtrees[t] -> Subtrees[u]] : Isomorphism(f, t, u)
    BY <1>1 DEF HashIsStructure
  <2>2. {f[w] : w \in bases} = {w \in Subtrees[u] : SymbolOf[w] = b}
    BY <2>1 DEF Isomorphism
  <2>3. /\ Find(b, Subtrees[t], e.scope) = bases
        /\ Find(b, Subtrees[u], d.scope) = {f[w] : w \in bases}
    BY <1>3, <1>7, <2>2 DEF Find
  <2>4. bases \in SUBSET Subtrees[t]
    OBVIOUS
  <2> HIDE DEF bases
  <2>5. Alike(GoOn(search, bases, e.scope), GoOn(search, {f[w] : w \in bases}, d.scope))
    BY <1>1, <1>4, <2>1, <2>4, GoOnAlike
  <2> QED BY <2>3, <2>5, <1>5
<1> QED BY <1>6, <1>7

\* Each tree in the one set has a tree that looks like it in the other.
LEMMA AlikeMatches ==
    ASSUME NEW A, NEW B, Alike(A, B), NEW u \in A
    PROVE  \E w \in B : Shape[w] = Shape[u]
BY DEF Alike

\* The trees that a search finds are trees of the environment.
LEMMA FoundInTrees ==
    ASSUME NEW search \in SearchType, NEW e \in Environment
    PROVE  TreesFound(search, e.tree, e.scope) \in SUBSET Tree
BY EnvironmentFields, FoundAreTrees

\* What a search yields in one environment it yields, alike, in another that agrees.
LEMMA ContainersAlike ==
    ASSUME HashIsStructure, NEW search \in SearchType, NEW names,
           LookedUp(search) \subseteq names,
           NEW e \in Environment, NEW d \in Environment, Agree(names, e, d),
           NEW c \in Containers(search, e.tree, e.scope)
    PROVE  \E k \in Containers(search, d.tree, d.scope) : Alike(c, k)
<1> DEFINE E == TreesFound(search, e.tree, e.scope)
           D == TreesFound(search, d.tree, d.scope)
<1>1. Alike(E, D)
  BY FoundAlike
<1> HIDE DEF E, D
<1>2. CASE search.star
  <2>1. c = E
    BY <1>2 DEF Containers, E
  <2>2. D \in Containers(search, d.tree, d.scope)
    BY <1>2 DEF Containers, D
  <2> QED BY <1>1, <2>1, <2>2
<1>3. CASE ~search.star
  <2>1. PICK u \in E : c = {u}
    BY <1>3 DEF Containers, E
  <2>2. PICK w \in D : Shape[w] = Shape[u]
    BY <1>1, AlikeMatches
  <2>3. {w} \in Containers(search, d.tree, d.scope)
    BY <1>3 DEF Containers, D
  <2>4. Alike({u}, {w})
    BY <2>2, SingletonsAlike
  <2> QED BY <2>1, <2>3, <2>4
<1> QED BY <1>2, <1>3

\* So for every combination there is one that looks the same.
LEMMA CombinationsAlike ==
    ASSUME HashIsStructure, NEW n \in Leaf, NEW names,
           \A v \in DOMAIN Searches[n] : LookedUp(Searches[n][v]) \subseteq names,
           NEW e \in Environment, NEW d \in Environment, Agree(names, e, d),
           NEW c \in Combinations(n, e.tree, e.scope)
    PROVE  \E k \in Combinations(n, d.tree, d.scope) :
                \A v \in DOMAIN Searches[n] : Alike(c[v], k[v])
<1> DEFINE D == DOMAIN Searches[n]
           found(v) == Containers(Searches[n][v], d.tree, d.scope)
           k == [v \in D |-> CHOOSE b \in found(v) : Alike(c[v], b)]
<1>1. \A v \in D : c[v] \in Containers(Searches[n][v], e.tree, e.scope)
  BY DEF Combinations
<1>2. \A v \in D : k[v] \in found(v) /\ Alike(c[v], k[v])
  <2> TAKE v \in D
  <2>1. Searches[n][v] \in SearchType
    BY ConstraintAssumption
  <2>2. \E b \in found(v) : Alike(c[v], b)
    BY <1>1, <2>1, ContainersAlike
  <2>3. k[v] = CHOOSE b \in found(v) : Alike(c[v], b)
    OBVIOUS
  <2> HIDE DEF k, found
  <2> QED BY <2>2, <2>3
<1>3. k \in [D -> UNION {found(v) : v \in D}]
  <2>1. k = [v \in D |-> k[v]]
    OBVIOUS
  <2> HIDE DEF k, found
  <2> QED BY <1>2, <2>1
<1>4. k \in Combinations(n, d.tree, d.scope)
  <2> HIDE DEF k
  <2> QED BY <1>2, <1>3 DEF Combinations
<1> HIDE DEF k
<1> QED BY <1>2, <1>4

\* The values of a combination, with the local variables, are values.
LEMMA ValuesOfCombination ==
    ASSUME NEW n \in Leaf, NEW e \in Environment, NEW c \in Combinations(n, e.tree, e.scope)
    PROVE  /\ Values(c, e.locals) \in Valuations
           /\ Values(c, e.locals) = [x \in DOMAIN Searches[n] \cup DOMAIN e.locals |->
                                        IF x \in DOMAIN Searches[n] THEN c[x] ELSE e.locals[x]]
<1> DEFINE D == DOMAIN Searches[n]
           S == D \cup DOMAIN e.locals
           values == [x \in S |-> IF x \in D THEN c[x] ELSE e.locals[x]]
<1>1. DOMAIN c = D /\ \A v \in D : c[v] \in Containers(Searches[n][v], e.tree, e.scope)
  BY DEF Combinations
<1>2. Values(c, e.locals) = values
  BY <1>1 DEF Values
<1>3. D \subseteq Name /\ \A v \in D : Searches[n][v] \in SearchType
  BY ConstraintAssumption
<1>4. \A v \in D : c[v] \in SUBSET Tree
  <2> TAKE v \in D
  <2>1. TreesFound(Searches[n][v], e.tree, e.scope) \in SUBSET Tree
    BY <1>3, FoundInTrees
  <2> QED BY <1>1, <2>1 DEF Containers
<1>5. DOMAIN e.locals \subseteq Name /\ \A x \in DOMAIN e.locals : e.locals[x] \in SUBSET Tree
  <2>1. /\ DOMAIN e.locals \subseteq Name
        /\ \A x \in DOMAIN e.locals : \E u \in Tree : e.locals[x] = {u}
    BY EnvironmentFields, DictionaryValues
  <2> QED BY <2>1
<1>6. S \in SUBSET Name /\ values \in [S -> SUBSET Tree]
  BY <1>3, <1>4, <1>5
<1>7. values \in Valuations
  <2> HIDE DEF S, values
  <2> QED BY <1>6 DEF Valuations
<1> QED BY <1>2, <1>7

\* The Python code yields the same for some combination in the other environment.
LEMMA OutcomesAlike ==
    ASSUME HashIsStructure, NEW s \in Scoping, Legible(s), NEW n \in Leaf, n \in s.of,
           NEW e \in Environment, NEW d \in Environment, Agree(s.free[n], e, d),
           NEW c \in Combinations(n, e.tree, e.scope)
    PROVE  \E k \in Combinations(n, d.tree, d.scope) :
                Outcome(n, Values(k, d.locals)) = Outcome(n, Values(c, e.locals))
<1> DEFINE D == DOMAIN Searches[n]
           names == D \cup s.free[n]
<1>1. \A v \in D : LookedUp(Searches[n][v]) \subseteq s.free[n]
  BY DEF Scoping
<1>2. PICK k \in Combinations(n, d.tree, d.scope) : \A v \in D : Alike(c[v], k[v])
  BY <1>1, CombinationsAlike
<1> DEFINE v == Values(c, e.locals)
           w == Values(k, d.locals)
<1>3. /\ v \in Valuations /\ w \in Valuations
      /\ DOMAIN v = D \cup DOMAIN e.locals
      /\ DOMAIN w = D \cup DOMAIN d.locals
      /\ \A x \in DOMAIN v : v[x] = IF x \in D THEN c[x] ELSE e.locals[x]
      /\ \A x \in DOMAIN w : w[x] = IF x \in D THEN k[x] ELSE d.locals[x]
  <2>1. /\ v \in Valuations /\ DOMAIN v = D \cup DOMAIN e.locals
        /\ \A x \in DOMAIN v : v[x] = IF x \in D THEN c[x] ELSE e.locals[x]
    <3>1. v \in Valuations /\ v = [x \in D \cup DOMAIN e.locals |-> IF x \in D THEN c[x] ELSE e.locals[x]]
      BY ValuesOfCombination
    <3> HIDE DEF v
    <3> QED BY <3>1
  <2>2. /\ w \in Valuations /\ DOMAIN w = D \cup DOMAIN d.locals
        /\ \A x \in DOMAIN w : w[x] = IF x \in D THEN k[x] ELSE d.locals[x]
    <3>1. w \in Valuations /\ w = [x \in D \cup DOMAIN d.locals |-> IF x \in D THEN k[x] ELSE d.locals[x]]
      BY ValuesOfCombination
    <3> HIDE DEF w
    <3> QED BY <3>1
  <2> HIDE DEF v, w
  <2> QED BY <2>1, <2>2
<1>4. DOMAIN e.locals \subseteq Name /\ DOMAIN d.locals \subseteq Name
  BY EnvironmentFields, DictionaryValues
<1> HIDE DEF v, w
<1>5. ASSUME NEW x \in names
      PROVE  /\ x \in DOMAIN v <=> x \in DOMAIN w
             /\ x \in DOMAIN v => Alike(v[x], w[x])
  <2>1. CASE x \in D
    BY <1>2, <1>3, <2>1
  <2>2. CASE x \notin D /\ x \in Name
    <3>1. /\ x \in DOMAIN e.locals <=> x \in DOMAIN d.locals
          /\ x \in DOMAIN e.locals => Alike(e.locals[x], d.locals[x])
      BY <2>2 DEF Agree
    <3> QED BY <1>3, <2>2, <3>1
  <2>3. CASE x \notin D /\ x \notin Name
    BY <1>3, <1>4, <2>3
  <2> QED BY <2>1, <2>2, <2>3
<1>6. DependsOnlyOn(n, names, Valuations)
  BY DEF Legible
<1>7. Outcome(n, v) = Outcome(n, w)
  <2> HIDE DEF names
  <2> QED BY <1>3, <1>5, <1>6 DEF DependsOnlyOn
<1> QED BY <1>7 DEF v, w

-------------------------------------------------------------------------------
(* Environments that look the same give the same meaning. *)

\* A binding makes an environment.
LEMMA BindingInEnvironment ==
    ASSUME NEW n \in Quantifier, NEW e \in Environment, NEW u \in Tree
    PROVE  Binding(n, e, u) \in Environment
<1>1. e.tree \in Tree /\ e.scope \in Scopes /\ e.locals \in Locals
  BY EnvironmentFields
<1>2. Bound[n] \in Symbol \cup Name
  BY ConstraintAssumption
<1>3. CASE Bound[n] \in Symbol
  <2>1. PICK S \in SUBSET Symbol : e.scope \in [S -> Tree]
    BY <1>1 DEF Scopes
  <2>2. SetIn(e.scope, Bound[n], u) \in [S \cup {Bound[n]} -> Tree]
    BY <2>1 DEF SetIn
  <2>3. SetIn(e.scope, Bound[n], u) \in Scopes
    BY <2>2, <1>3 DEF Scopes
  <2> QED BY <1>1, <1>3, <2>3, InEnvironment DEF Binding
<1>4. CASE Bound[n] \notin Symbol
  <2>1. PICK S \in SUBSET Name : e.locals \in [S -> {{x} : x \in Tree}]
    BY <1>1 DEF Locals
  <2>2. SetIn(e.locals, Bound[n], {u}) \in [S \cup {Bound[n]} -> {{x} : x \in Tree}]
    BY <2>1 DEF SetIn
  <2>3. SetIn(e.locals, Bound[n], {u}) \in Locals
    BY <2>2, <1>2, <1>4 DEF Locals
  <2> QED BY <1>1, <1>4, <2>3, InEnvironment DEF Binding
<1> QED BY <1>3, <1>4

\* Binding trees that look the same keeps environments in agreement, on the bound name too.
LEMMA BindingAgrees ==
    ASSUME NEW n \in Quantifier, NEW names, NEW inner, inner \ {Bound[n]} \subseteq names,
           NEW e \in Environment, NEW d \in Environment, Agree(names, e, d),
           NEW u \in Tree, NEW w \in Tree, Shape[u] = Shape[w]
    PROVE  Agree(inner, Binding(n, e, u), Binding(n, d, w))
<1>1. Bound[n] \in Symbol \cup Name /\ Symbol \cap Name = {}
  BY ConstraintAssumption
<1>2. Alike({u}, {w})
  BY SingletonsAlike
<1>4. CASE Bound[n] \in Symbol
  <2>1. Binding(n, e, u) = In(e.tree, SetIn(e.scope, Bound[n], u), e.locals)
        /\ Binding(n, d, w) = In(d.tree, SetIn(d.scope, Bound[n], w), d.locals)
    BY <1>4 DEF Binding
  <2> DEFINE x == Binding(n, e, u)
             y == Binding(n, d, w)
  <2>2. /\ x.tree = e.tree /\ x.scope = SetIn(e.scope, Bound[n], u) /\ x.locals = e.locals
        /\ y.tree = d.tree /\ y.scope = SetIn(d.scope, Bound[n], w) /\ y.locals = d.locals
    BY <2>1 DEF In
  <2> HIDE DEF x, y
  <2>3. Agree(inner, x, y)
    <3>1. \A k \in inner \cap Symbol :
            /\ k \in DOMAIN x.scope <=> k \in DOMAIN y.scope
            /\ k \in DOMAIN x.scope => Shape[x.scope[k]] = Shape[y.scope[k]]
      <4> TAKE k \in inner \cap Symbol
      <4>1. CASE k = Bound[n]
        BY <2>2, <4>1 DEF SetIn
      <4>2. CASE k # Bound[n]
        <5>1. k \in names \cap Symbol
          BY <4>2
        <5>2. /\ k \in DOMAIN e.scope <=> k \in DOMAIN d.scope
              /\ k \in DOMAIN e.scope => Shape[e.scope[k]] = Shape[d.scope[k]]
          BY <5>1 DEF Agree
        <5> QED BY <2>2, <4>2, <5>2 DEF SetIn
      <4> QED BY <4>1, <4>2
    <3>2. \A k \in inner \cap Name :
            /\ k \in DOMAIN x.locals <=> k \in DOMAIN y.locals
            /\ k \in DOMAIN x.locals => Alike(x.locals[k], y.locals[k])
      <4>1. \A k \in inner \cap Name : k \in names \cap Name
        BY <1>1, <1>4
      <4> QED BY <2>2, <4>1 DEF Agree
    <3>3. Shape[x.tree] = Shape[y.tree]
      BY <2>2 DEF Agree
    <3> QED BY <3>1, <3>2, <3>3 DEF Agree
  <2> QED BY <2>3 DEF x, y
<1>5. CASE Bound[n] \notin Symbol
  <2>1. Binding(n, e, u) = In(e.tree, e.scope, SetIn(e.locals, Bound[n], {u}))
        /\ Binding(n, d, w) = In(d.tree, d.scope, SetIn(d.locals, Bound[n], {w}))
    BY <1>5 DEF Binding
  <2> DEFINE x == Binding(n, e, u)
             y == Binding(n, d, w)
  <2>2. /\ x.tree = e.tree /\ x.scope = e.scope /\ x.locals = SetIn(e.locals, Bound[n], {u})
        /\ y.tree = d.tree /\ y.scope = d.scope /\ y.locals = SetIn(d.locals, Bound[n], {w})
    BY <2>1 DEF In
  <2> HIDE DEF x, y
  <2>3. Agree(inner, x, y)
    <3>1. \A k \in inner \cap Name :
            /\ k \in DOMAIN x.locals <=> k \in DOMAIN y.locals
            /\ k \in DOMAIN x.locals => Alike(x.locals[k], y.locals[k])
      <4> TAKE k \in inner \cap Name
      <4>1. CASE k = Bound[n]
        <5>1. x.locals[k] = {u} /\ y.locals[k] = {w} /\ k \in DOMAIN x.locals /\ k \in DOMAIN y.locals
          BY <2>2, <4>1 DEF SetIn
        <5> QED BY <5>1, <1>2
      <4>2. CASE k # Bound[n]
        <5>1. k \in names \cap Name
          BY <4>2
        <5>2. /\ k \in DOMAIN e.locals <=> k \in DOMAIN d.locals
              /\ k \in DOMAIN e.locals => Alike(e.locals[k], d.locals[k])
          BY <5>1 DEF Agree
        <5>3. /\ k \in DOMAIN x.locals <=> k \in DOMAIN e.locals
              /\ k \in DOMAIN y.locals <=> k \in DOMAIN d.locals
              /\ k \in DOMAIN e.locals => x.locals[k] = e.locals[k]
              /\ k \in DOMAIN d.locals => y.locals[k] = d.locals[k]
          BY <2>2, <4>2 DEF SetIn
        <5> QED BY <5>2, <5>3
      <4> QED BY <4>1, <4>2
    <3>2. \A k \in inner \cap Symbol :
            /\ k \in DOMAIN x.scope <=> k \in DOMAIN y.scope
            /\ k \in DOMAIN x.scope => Shape[x.scope[k]] = Shape[y.scope[k]]
      <4>1. \A k \in inner \cap Symbol : k \in names \cap Symbol
        BY <1>1, <1>5
      <4> QED BY <2>2, <4>1 DEF Agree
    <3>3. Shape[x.tree] = Shape[y.tree]
      BY <2>2 DEF Agree
    <3> QED BY <3>1, <3>2, <3>3 DEF Agree
  <2> QED BY <2>3 DEF x, y
<1> QED BY <1>4, <1>5

\* Agreement on more names is agreement on fewer.
LEMMA AgreeOnFewer ==
    ASSUME NEW names, NEW fewer, fewer \subseteq names, NEW e, NEW d, Agree(names, e, d)
    PROVE  Agree(fewer, e, d)
BY DEF Agree

\* What a scoping says of a constraint and its parts.
LEMMA ScopingRules ==
    ASSUME NEW s \in Scoping, NEW n \in s.of
    PROVE  /\ n \in Constraint /\ s.free[n] \subseteq Symbol \cup Name
           /\ \A i \in DOMAIN Parts[n] : /\ Parts[n][i] \in s.of
                                         /\ s.binds[Parts[n][i]] \subseteq s.binds[n]
           /\ n \in Leaf => \A v \in DOMAIN Searches[n] : LookedUp(Searches[n][v]) \subseteq s.free[n]
           /\ n \in Quantifier =>
                /\ LookedUp(Search[n]) \subseteq s.free[n]
                /\ s.free[Parts[n][1]] \ {Bound[n]} \subseteq s.free[n]
                /\ Bound[n] \in s.binds[n]
                /\ s.binds[Parts[n][1]] \cap s.free[Parts[n][1]] \subseteq {Bound[n]}
           /\ n \notin Quantifier =>
                \A i \in DOMAIN Parts[n] :
                    /\ s.free[Parts[n][i]] \subseteq s.free[n]
                    /\ \A j \in DOMAIN Parts[n] :
                        i < j => s.binds[Parts[n][i]] \cap s.free[Parts[n][j]] = {}
<1>1. /\ s.of \in SUBSET Constraint /\ s.free \in [Constraint -> SUBSET (Symbol \cup Name)]
  BY DEF Scoping
<1>2. n \in Constraint /\ s.free[n] \subseteq Symbol \cup Name
  BY <1>1
<1>3. \A i \in DOMAIN Parts[n] : /\ Parts[n][i] \in s.of
                                 /\ s.binds[Parts[n][i]] \subseteq s.binds[n]
  BY DEF Scoping
<1>4. n \in Leaf => \A v \in DOMAIN Searches[n] : LookedUp(Searches[n][v]) \subseteq s.free[n]
  BY DEF Scoping
<1>5. n \in Quantifier =>
        /\ LookedUp(Search[n]) \cup (s.free[Parts[n][1]] \ {Bound[n]}) \subseteq s.free[n]
        /\ Bound[n] \in s.binds[n]
        /\ s.binds[Parts[n][1]] \cap s.free[Parts[n][1]] \subseteq {Bound[n]}
  BY DEF Scoping
<1>6. n \notin Quantifier =>
        \A i \in DOMAIN Parts[n] :
            /\ s.free[Parts[n][i]] \subseteq s.free[n]
            /\ \A j \in DOMAIN Parts[n] :
                i < j => s.binds[Parts[n][i]] \cap s.free[Parts[n][j]] = {}
  BY Zenon DEF Scoping
<1> QED BY <1>2, <1>3, <1>4, <1>5, <1>6

\* If the parts mean the same in environments that agree, so does the whole.
LEMMA MeaningCarries ==
    ASSUME HashIsStructure, NEW s \in Scoping, Legible(s), NEW n \in s.of,
           \A i \in DOMAIN Parts[n] : \A e, d \in Environment :
                Agree(s.free[Parts[n][i]], e, d)
                    => Meaning[Parts[n][i]][e] = Meaning[Parts[n][i]][d],
           NEW e \in Environment, NEW d \in Environment, Agree(s.free[n], e, d), Meaning[n][e]
    PROVE  Meaning[n][d]
<1>1. n \in Constraint
  BY ScopingRules
<1>2. MeaningOf(n, e, Meaning)
  BY <1>1, MeaningUnfolds
<1> SUFFICES MeaningOf(n, d, Meaning)
  BY <1>1, MeaningUnfolds
<1>3. Agree(s.free[n], d, e)
  BY AgreeSymmetric
<1>4. CASE Kind[n] \in {"expression", "comparison"}
  <2>1. n \in Leaf
    BY <1>1, <1>4, KindCases
  <2>2. \A c \in Combinations(n, d.tree, d.scope) : \E k \in Combinations(n, e.tree, e.scope) :
            Outcome(n, Values(k, e.locals)) = Outcome(n, Values(c, d.locals))
    BY <1>3, <2>1, OutcomesAlike
  <2>3. CASE Kind[n] = "expression"
    BY <1>2, <2>2, <2>3 DEF MeaningOf
  <2>4. CASE Kind[n] = "comparison"
    BY <1>2, <2>2, <2>4 DEF MeaningOf
  <2> QED BY <1>4, <2>3, <2>4
<1>5. ASSUME n \notin Quantifier, NEW i \in DOMAIN Parts[n]
      PROVE  Meaning[Parts[n][i]][e] = Meaning[Parts[n][i]][d]
  <2>1. Agree(s.free[Parts[n][i]], e, d)
    BY <1>5, ScopingRules, AgreeOnFewer
  <2> QED BY <2>1
<1>6. CASE Kind[n] = "and"
  <2>1. n \notin Quantifier BY <1>1, <1>6, KindCases
  <2> QED BY <1>2, <1>5, <1>6, <2>1 DEF MeaningOf
<1>7. CASE Kind[n] = "or"
  <2>1. n \notin Quantifier BY <1>1, <1>7, KindCases
  <2> QED BY <1>2, <1>5, <1>7, <2>1 DEF MeaningOf
<1>8. CASE Kind[n] = "implies"
  <2>1. n \notin Quantifier BY <1>1, <1>8, KindCases
  <2>2. 1 \in DOMAIN Parts[n] /\ 2 \in DOMAIN Parts[n] BY <1>1, <1>8, PartsAreConstraints
  <2> QED BY <1>2, <1>5, <1>8, <2>1, <2>2 DEF MeaningOf
<1>9. CASE Kind[n] \in {"all", "any"}
  <2> DEFINE body == Parts[n][1]
             E == TreesFound(Search[n], e.tree, e.scope)
             D == TreesFound(Search[n], d.tree, d.scope)
  <2>1. n \in Quantifier /\ 1 \in DOMAIN Parts[n] /\ Search[n] \in SearchType
    BY <1>1, <1>9, KindCases, PartsAreConstraints, ConstraintAssumption
  <2>2. /\ LookedUp(Search[n]) \subseteq s.free[n]
        /\ s.free[body] \ {Bound[n]} \subseteq s.free[n]
    BY <2>1, ScopingRules
  <2>3. E \in SUBSET Tree /\ D \in SUBSET Tree
    BY <2>1, FoundInTrees
  <2>4. Alike(E, D)
    BY <2>1, <2>2, FoundAlike
  <2>5. Alike(D, E)
    BY <2>4, AlikeSymmetric
  <2>6. ASSUME NEW u \in Tree, NEW w \in Tree, Shape[u] = Shape[w]
        PROVE  Meaning[body][Binding(n, e, u)] = Meaning[body][Binding(n, d, w)]
    <3>1. Agree(s.free[body], Binding(n, e, u), Binding(n, d, w))
      BY <2>1, <2>2, <2>6, BindingAgrees
    <3>2. Binding(n, e, u) \in Environment /\ Binding(n, d, w) \in Environment
      BY <2>1, BindingInEnvironment
    <3> QED BY <2>1, <3>1, <3>2
  <2> HIDE DEF E, D, body
  <2>7. CASE Kind[n] = "all"
    <3>1. \A u \in E : Meaning[body][Binding(n, e, u)]
      BY <1>2, <2>7 DEF MeaningOf, E, body
    <3>2. ASSUME NEW w \in D PROVE Meaning[body][Binding(n, d, w)]
      <4>1. PICK u \in E : Shape[u] = Shape[w]
        BY <2>5, AlikeMatches
      <4> QED BY <2>3, <2>6, <3>1, <4>1
    <3> QED BY <3>2, <2>7 DEF MeaningOf, D, body
  <2>8. CASE Kind[n] = "any"
    <3>1. PICK u \in E : Meaning[body][Binding(n, e, u)]
      BY <1>2, <2>8 DEF MeaningOf, E, body
    <3>2. PICK w \in D : Shape[w] = Shape[u]
      BY <2>4, AlikeMatches
    <3>3. Meaning[body][Binding(n, d, w)]
      BY <2>3, <2>6, <3>1, <3>2
    <3> QED BY <3>2, <3>3, <2>8 DEF MeaningOf, D, body
  <2> QED BY <1>9, <2>7, <2>8
<1> QED BY <1>1, <1>4, <1>6, <1>7, <1>8, <1>9, KindCases

\* Environments that look the same, to a constraint, give it the same meaning: take an
\* innermost constraint for which they do not.
LEMMA MeaningAlike ==
    ASSUME HashIsStructure, NEW s \in Scoping, Legible(s)
    PROVE  \A n \in s.of : \A e, d \in Environment :
                Agree(s.free[n], e, d) => Meaning[n][e] = Meaning[n][d]
<1> DEFINE same(n) == \A e, d \in Environment :
                        Agree(s.free[n], e, d) => Meaning[n][e] = Meaning[n][d]
           bad == {n \in s.of : ~same(n)}
<1> SUFFICES ASSUME bad # {} PROVE FALSE
  OBVIOUS
<1>1. bad \in SUBSET Constraint
  BY DEF Scoping
<1>2. PICK n \in bad : \A i \in DOMAIN Parts[n] : Parts[n][i] \notin bad
  <2> HIDE DEF bad
  <2> QED BY <1>1, NestingAssumption
<1>3. n \in s.of /\ n \in Constraint
  BY <1>1
<1>4. \A i \in DOMAIN Parts[n] : same(Parts[n][i])
  BY <1>2, <1>3, ScopingRules
<1>5. ASSUME NEW e \in Environment, NEW d \in Environment, Agree(s.free[n], e, d), Meaning[n][e]
      PROVE  Meaning[n][d]
  <2>1. \A i \in DOMAIN Parts[n] : \A e1, d1 \in Environment :
            Agree(s.free[Parts[n][i]], e1, d1)
                => Meaning[Parts[n][i]][e1] = Meaning[Parts[n][i]][d1]
    BY <1>4
  <2> HIDE DEF bad, same
  <2> QED BY <1>3, <1>5, <2>1, MeaningCarries
<1>6. same(n)
  <2> SUFFICES ASSUME NEW e \in Environment, NEW d \in Environment, Agree(s.free[n], e, d)
               PROVE  Meaning[n][e] = Meaning[n][d]
    OBVIOUS
  <2>1. Agree(s.free[n], d, e)
    BY AgreeSymmetric
  <2>2. Meaning[n][e] <=> Meaning[n][d]
    BY <1>5, <2>1
  <2>3. Meaning[n][e] \in BOOLEAN /\ Meaning[n][d] \in BOOLEAN
    BY <1>3, MeaningUnfolds
  <2> QED BY <2>2, <2>3
<1> QED BY <1>6

\* What a constraint means wherever it has this cache key.
TruthOf(n, key) ==
    Meaning[n][CHOOSE e \in Environment : Key(e.tree, e.scope, e.locals) = key]

\* Environments with the same key agree on all names.
LEMMA KeyAgrees ==
    ASSUME NEW e \in Environment, NEW d \in Environment,
           Key(e.tree, e.scope, e.locals) = Key(d.tree, d.scope, d.locals), NEW names
    PROVE  Agree(names, e, d)
<1>1. /\ Shape[e.tree] = Shape[d.tree]
      /\ [x \in DOMAIN e.scope |-> Shape[e.scope[x]]] = [x \in DOMAIN d.scope |-> Shape[d.scope[x]]]
      /\ [v \in DOMAIN e.locals |-> {Shape[u] : u \in e.locals[v]}]
            = [v \in DOMAIN d.locals |-> {Shape[u] : u \in d.locals[v]}]
  BY DEF Key
<1>2. /\ DOMAIN e.scope = DOMAIN d.scope
      /\ \A x \in DOMAIN e.scope : Shape[e.scope[x]] = Shape[d.scope[x]]
  BY <1>1
<1>3. /\ DOMAIN e.locals = DOMAIN d.locals
      /\ \A v \in DOMAIN e.locals : {Shape[u] : u \in e.locals[v]} = {Shape[u] : u \in d.locals[v]}
  BY <1>1
<1>4. ASSUME NEW v \in DOMAIN e.locals PROVE Alike(e.locals[v], d.locals[v])
  <2>1. PICK u \in Tree : e.locals[v] = {u}
    BY EnvironmentFields, DictionaryValues
  <2>2. PICK w \in Tree : d.locals[v] = {w}
    BY <1>3, EnvironmentFields, DictionaryValues
  <2>3. Shape[u] = Shape[w]
    BY <1>3, <2>1, <2>2
  <2>4. Alike({u}, {w})
    BY <2>3, SingletonsAlike
  <2> QED BY <2>1, <2>2, <2>4
<1> QED BY <1>1, <1>2, <1>3, <1>4 DEF Agree

\* So a key decides what a constraint means.
LEMMA KeyDecides ==
    ASSUME HashIsStructure, NEW s \in Scoping, Legible(s), NEW n \in s.of,
           NEW t \in Tree, NEW scope \in Scopes, NEW locals \in Locals
    PROVE  TruthOf(n, Key(t, scope, locals)) = Meaning[n][In(t, scope, locals)]
<1> DEFINE e == In(t, scope, locals)
           key == Key(t, scope, locals)
           d == CHOOSE x \in Environment : Key(x.tree, x.scope, x.locals) = key
<1>1. e \in Environment /\ Key(e.tree, e.scope, e.locals) = key
  BY InEnvironment
<1>2. d \in Environment /\ Key(d.tree, d.scope, d.locals) = key
  <2> HIDE DEF e, key
  <2> QED BY <1>1
<1>3. TruthOf(n, key) = Meaning[n][d]
  BY DEF TruthOf
<1> HIDE DEF d, e, key
<1>4. Agree(s.free[n], d, e)
  BY <1>1, <1>2, KeyAgrees
<1>5. Meaning[n][d] = Meaning[n][e]
  BY <1>1, <1>2, <1>4, MeaningAlike
<1> QED BY <1>3, <1>5 DEF e, key

-------------------------------------------------------------------------------
(* What the calls under way are going to report. *)

\* The one dictionary is the other, but for these names.
SameBut(names, dict, other) ==
    \A x \in (DOMAIN dict \cup DOMAIN other) \ names :
        x \in DOMAIN dict /\ x \in DOMAIN other /\ dict[x] = other[x]

\* What a frame evaluates its parts in, at present.
Here(t, frame) == In(t, frame.scope, frame.locals)

\* What a frame is going to report, if what it still has to evaluate evaluates to what it
\* means: for the successes so far, and that of the last part.
Rest(t, frame, every, some, last) ==
    LET n == frame.node
        part(i) == Meaning[Parts[n][i]][Here(t, frame)]
        instance(u) == Meaning[Parts[n][1]][Binding(n, Here(t, frame), u)]
    IN  CASE Kind[n] = "and" -> every /\ \A i \in DOMAIN Parts[n] : i >= frame.part => part(i)
          [] Kind[n] = "or" -> some \/ \E i \in DOMAIN Parts[n] : i >= frame.part /\ part(i)
          [] Kind[n] = "implies" ->
                /\ frame.part = 1 => (every /\ part(1) => part(2))
                /\ frame.part = 2 => (every => part(2))
                /\ frame.part = 3 => last
          [] Kind[n] = "all" -> every /\ \A u \in frame.todo : instance(u)
          [] Kind[n] = "any" -> some \/ \E u \in frame.todo : instance(u)

\* The part that a frame has last called.
Called(frame) ==
    Parts[frame.node][IF frame.node \in Quantifier THEN 1 ELSE frame.part - 1]

\* The callee evaluates a part of the caller, in the caller's dictionaries; but for names it
\* binds it leaves them as they are; and if it reports what it means, the caller can.
Waits(s, t, caller, callee) ==
    /\ caller.open /\ caller.node \notin Leaf
    /\ caller.node \notin Quantifier => caller.part - 1 \in DOMAIN Parts[caller.node]
    /\ callee.node = Called(caller)
    /\ callee.key = Key(t, caller.scope, caller.locals)
    /\ SameBut(s.binds[callee.node], caller.scope, callee.scope)
    /\ SameBut(s.binds[callee.node], caller.locals, callee.locals)
    /\ LET said == TruthOf(callee.node, callee.key) IN
       Rest(t, caller, caller.every /\ said, caller.some \/ said, said)
            <=> TruthOf(caller.node, caller.key)

\* The calls under way, each waiting for the next one.
Chain(s, t, calls) ==
    /\ calls[1].key = Key(t, Empty, Empty)
    /\ \A i \in 1..Len(calls) : calls[i].node \in s.of
    /\ \A i \in 1..Len(calls) : i < Len(calls) => Waits(s, t, calls[i], calls[i + 1])

\* The innermost call is new, or it can still report what it means.
InnermostMeans(t, frame) ==
    IF frame.open THEN /\ frame.node \notin Leaf
                       /\ Rest(t, frame, frame.every, frame.some, frame.last.success)
                            <=> TruthOf(frame.node, frame.key)
                  ELSE frame = Call(t, frame.node, frame.scope, frame.locals)

StackMeans(s, t, calls) ==
    calls # <<>> => Chain(s, t, calls) /\ InnermostMeans(t, calls[Len(calls)])

CacheMeans(s) ==
    \A n \in s.of : \A k \in DOMAIN cache[n] : cache[n][k].success <=> TruthOf(n, k)

ResultMeans(s) ==
    result # NoResult =>
        /\ result.node \in s.of
        /\ result.fitness.success <=> TruthOf(result.node, Key(individual, Empty, Empty))

MeaningInv(s) == StackMeans(s, individual, stack) /\ CacheMeans(s) /\ ResultMeans(s)

\* A dictionary is the same as itself, and the relation composes.
LEMMA SameButSelf == ASSUME NEW names, NEW dict PROVE SameBut(names, dict, dict)
BY DEF SameBut

LEMMA SameButComposes ==
    ASSUME NEW some, NEW others, others \subseteq some, NEW dict, NEW other, NEW third,
           SameBut(some, dict, other), SameBut(others, other, third)
    PROVE  SameBut(some, dict, third)
BY DEF SameBut

LEMMA SameButMore ==
    ASSUME NEW some, NEW others, others \subseteq some, NEW dict, NEW other,
           SameBut(others, dict, other)
    PROVE  SameBut(some, dict, other)
BY DEF SameBut

\* Dictionaries that differ on other names only make environments that agree.
LEMMA SameButAgrees ==
    ASSUME NEW names, NEW inner, names \cap inner = {}, NEW t \in Tree,
           NEW scope \in Scopes, NEW other \in Scopes, SameBut(names, scope, other),
           NEW locals \in Locals, NEW others \in Locals, SameBut(names, locals, others)
    PROVE  Agree(inner, In(t, scope, locals), In(t, other, others))
<1> DEFINE e == In(t, scope, locals)
           d == In(t, other, others)
<1>1. /\ e.tree = t /\ e.scope = scope /\ e.locals = locals
      /\ d.tree = t /\ d.scope = other /\ d.locals = others
  BY DEF In
<1> HIDE DEF e, d
<1>2. \A x \in inner : /\ x \in DOMAIN scope <=> x \in DOMAIN other
                       /\ x \in DOMAIN scope => scope[x] = other[x]
  BY DEF SameBut
<1>3. \A x \in inner : /\ x \in DOMAIN locals <=> x \in DOMAIN others
                       /\ x \in DOMAIN locals => locals[x] = others[x]
  BY DEF SameBut
<1>4. ASSUME NEW x \in DOMAIN locals PROVE Alike(locals[x], locals[x])
  <2>1. PICK u \in Tree : locals[x] = {u}
    BY DictionaryValues
  <2>2. Alike({u}, {u})
    BY SingletonsAlike
  <2> QED BY <2>1, <2>2
<1>5. Agree(inner, e, d)
  <2>1. \A x \in inner \cap Symbol :
            /\ x \in DOMAIN e.scope <=> x \in DOMAIN d.scope
            /\ x \in DOMAIN e.scope => Shape[e.scope[x]] = Shape[d.scope[x]]
    BY <1>1, <1>2
  <2>2. \A x \in inner \cap Name :
            /\ x \in DOMAIN e.locals <=> x \in DOMAIN d.locals
            /\ x \in DOMAIN e.locals => Alike(e.locals[x], d.locals[x])
    BY <1>1, <1>3, <1>4
  <2>3. Shape[e.tree] = Shape[d.tree]
    BY <1>1
  <2> QED BY <2>1, <2>2, <2>3, Zenon DEF Agree
<1> QED BY <1>5 DEF e, d

\* The body of a quantifier means the same before and after evaluations of it.
LEMMA BodyStable ==
    ASSUME HashIsStructure, NEW s \in Scoping, Legible(s), NEW n \in s.of \cap Quantifier,
           NEW names, names \cap s.free[Parts[n][1]] \subseteq {Bound[n]},
           NEW t \in Tree, NEW u \in Tree,
           NEW scope \in Scopes, NEW other \in Scopes, SameBut(names, scope, other),
           NEW locals \in Locals, NEW others \in Locals, SameBut(names, locals, others)
    PROVE  Meaning[Parts[n][1]][Binding(n, In(t, scope, locals), u)]
            = Meaning[Parts[n][1]][Binding(n, In(t, other, others), u)]
<1> DEFINE body == Parts[n][1]
           outer == s.free[body] \ {Bound[n]}
           e == In(t, scope, locals)
           d == In(t, other, others)
<1>1. names \cap outer = {}
  OBVIOUS
<1>2. e \in Environment /\ d \in Environment
  BY InEnvironment
<1>3. Agree(outer, e, d)
  <2> HIDE DEF outer
  <2> QED BY <1>1, SameButAgrees
<1>4. body \in s.of
  <2>1. n \in Constraint BY ScopingRules
  <2> QED BY <2>1, PartsAreConstraints, ScopingRules
<1> HIDE DEF e, d
<1>5. Agree(s.free[body], Binding(n, e, u), Binding(n, d, u))
  <2>1. s.free[body] \ {Bound[n]} \subseteq outer
    OBVIOUS
  <2> HIDE DEF outer, body
  <2> QED BY <1>2, <1>3, <2>1, BindingAgrees
<1>6. Binding(n, e, u) \in Environment /\ Binding(n, d, u) \in Environment
  BY <1>2, BindingInEnvironment
<1> HIDE DEF body
<1>7. Meaning[body][Binding(n, e, u)] = Meaning[body][Binding(n, d, u)]
  BY <1>4, <1>5, <1>6, MeaningAlike
<1> QED BY <1>7 DEF body, e, d

\* A part means the same before and after the evaluation of an earlier one.
LEMMA PartStable ==
    ASSUME HashIsStructure, NEW s \in Scoping, Legible(s), NEW n \in s.of \ Quantifier,
           NEW i \in DOMAIN Parts[n], NEW j \in DOMAIN Parts[n], i < j, NEW t \in Tree,
           NEW scope \in Scopes, NEW other \in Scopes,
           SameBut(s.binds[Parts[n][i]], scope, other),
           NEW locals \in Locals, NEW others \in Locals,
           SameBut(s.binds[Parts[n][i]], locals, others)
    PROVE  Meaning[Parts[n][j]][In(t, scope, locals)] = Meaning[Parts[n][j]][In(t, other, others)]
<1> DEFINE part == Parts[n][j]
           e == In(t, scope, locals)
           d == In(t, other, others)
<1>1. part \in s.of /\ s.binds[Parts[n][i]] \cap s.free[part] = {}
  BY ScopingRules
<1>2. e \in Environment /\ d \in Environment
  BY InEnvironment
<1>3. Agree(s.free[part], e, d)
  <2> HIDE DEF part
  <2> QED BY <1>1, SameButAgrees
<1> HIDE DEF part, e, d
<1>4. Meaning[part][e] = Meaning[part][d]
  BY <1>1, <1>2, <1>3, MeaningAlike
<1> QED BY <1>4 DEF part, e, d

-------------------------------------------------------------------------------
(* What a caller is going to report stays the same while it waits. *)

\* What a frame is going to report does not change with what its last part left behind.
LEMMA RestStable ==
    ASSUME HashIsStructure, NEW s \in Scoping, Legible(s), NEW t \in Tree,
           NEW r \in Frame, NEW q \in Frame, r.node \in s.of, r.node \notin Leaf,
           q.node = r.node, q.part = r.part, q.todo = r.todo,
           r.node \notin Quantifier => r.part - 1 \in DOMAIN Parts[r.node],
           SameBut(s.binds[Called(r)], r.scope, q.scope),
           SameBut(s.binds[Called(r)], r.locals, q.locals),
           NEW every, NEW some, NEW last
    PROVE  Rest(t, r, every, some, last) <=> Rest(t, q, every, some, last)
<1> DEFINE n == r.node
<1>1. /\ n \in Constraint /\ r.part \in Nat \ {0} /\ r.todo \in SUBSET Tree
      /\ r.scope \in Scopes /\ r.locals \in Locals /\ q.scope \in Scopes /\ q.locals \in Locals
  BY FrameFields
<1>2. ASSUME n \notin Quantifier, NEW i \in DOMAIN Parts[n], i >= r.part
      PROVE  Meaning[Parts[n][i]][Here(t, r)] = Meaning[Parts[n][i]][Here(t, q)]
  <2>1. r.part - 1 \in DOMAIN Parts[n] /\ Called(r) = Parts[n][r.part - 1]
    BY <1>2 DEF Called
  <2>2. i \in Nat
    BY <1>1, PartsAreConstraints
  <2>3. r.part - 1 < i
    BY <1>1, <1>2, <2>2
  <2>4. n \in s.of \ Quantifier
    BY <1>2
  <2> DEFINE p == r.part - 1
  <2>5. /\ p \in DOMAIN Parts[n] /\ p < i
        /\ SameBut(s.binds[Parts[n][p]], r.scope, q.scope)
        /\ SameBut(s.binds[Parts[n][p]], r.locals, q.locals)
    BY <2>1, <2>3
  <2> HIDE DEF n, p
  <2> QED BY <1>1, <1>2, <2>4, <2>5, PartStable DEF Here
<1>3. ASSUME n \in Quantifier, NEW u \in r.todo
      PROVE  Meaning[Parts[n][1]][Binding(n, Here(t, r), u)]
                = Meaning[Parts[n][1]][Binding(n, Here(t, q), u)]
  <2>1. Called(r) = Parts[n][1]
    BY <1>3 DEF Called
  <2>2. s.binds[Parts[n][1]] \cap s.free[Parts[n][1]] \subseteq {Bound[n]}
    BY <1>3, ScopingRules
  <2>3. /\ SameBut(s.binds[Parts[n][1]], r.scope, q.scope)
        /\ SameBut(s.binds[Parts[n][1]], r.locals, q.locals)
        /\ u \in Tree /\ n \in s.of \cap Quantifier
    BY <1>1, <1>3, <2>1
  <2> HIDE DEF n
  <2> QED BY <1>1, <2>2, <2>3, BodyStable DEF Here
<1>4. CASE Kind[n] = "and"
  <2>1. n \notin Quantifier BY <1>1, <1>4, KindCases
  <2> QED BY <1>2, <1>4, <2>1 DEF Rest
<1>5. CASE Kind[n] = "or"
  <2>1. n \notin Quantifier BY <1>1, <1>5, KindCases
  <2> QED BY <1>2, <1>5, <2>1 DEF Rest
<1>6. CASE Kind[n] = "implies"
  <2>1. n \notin Quantifier BY <1>1, <1>6, KindCases
  <2>2. 1 \in DOMAIN Parts[n] /\ 2 \in DOMAIN Parts[n] BY <1>1, <1>6, PartsAreConstraints
  <2>3. r.part # 1
    <3>1. r.part - 1 # 0 BY <1>1, <2>1, PartsAreConstraints
    <3> QED BY <3>1
  <2>4. r.part = 2 => Meaning[Parts[n][2]][Here(t, r)] = Meaning[Parts[n][2]][Here(t, q)]
    BY <1>2, <2>1, <2>2
  <2> QED BY <1>6, <2>3, <2>4 DEF Rest
<1>7. CASE Kind[n] = "all"
  <2>1. n \in Quantifier BY <1>1, <1>7, KindCases
  <2> QED BY <1>3, <1>7, <2>1 DEF Rest
<1>8. CASE Kind[n] = "any"
  <2>1. n \in Quantifier BY <1>1, <1>8, KindCases
  <2> QED BY <1>3, <1>8, <2>1 DEF Rest
<1> QED BY <1>1, <1>4, <1>5, <1>6, <1>7, <1>8, KindCases

\* What a key decides is true or not.
LEMMA TruthIsBoolean ==
    ASSUME NEW n \in Constraint, NEW key \in Keys
    PROVE  TruthOf(n, key) \in BOOLEAN
<1> DEFINE d == CHOOSE e \in Environment : Key(e.tree, e.scope, e.locals) = key
<1>1. PICK t \in Tree, scope \in Scopes, locals \in Locals : key = Key(t, scope, locals)
  BY DEF Keys
<1>2. \E e \in Environment : Key(e.tree, e.scope, e.locals) = key
  <2>1. In(t, scope, locals) \in Environment
    BY InEnvironment
  <2> QED BY <1>1, <2>1, InEnvironment
<1>3. d \in Environment
  BY <1>2
<1>4. TruthOf(n, key) = Meaning[n][d]
  BY DEF TruthOf
<1> HIDE DEF d
<1> QED BY <1>3, <1>4, MeaningUnfolds

-------------------------------------------------------------------------------
(* The calls under way. *)

\* A stack that is not empty.
LEMMA CallsProperties ==
    ASSUME NEW calls \in Seq(Frame), calls # <<>>
    PROVE  /\ Len(calls) \in Nat \ {0} /\ Len(calls) \in 1..Len(calls) /\ 1 \in 1..Len(calls)
           /\ \A i \in 1..Len(calls) : calls[i] \in Frame
BY EmptySeq, LenProperties, ElementOfSeq

\* The innermost call may change, in what is not yet decided.
LEMMA ChainReplaced ==
    ASSUME NEW s \in Scoping, NEW t, NEW calls \in Seq(Frame), calls # <<>>, Chain(s, t, calls),
           NEW r \in Frame, r.node = calls[Len(calls)].node, r.key = calls[Len(calls)].key,
           SameBut(s.binds[r.node], calls[Len(calls)].scope, r.scope),
           SameBut(s.binds[r.node], calls[Len(calls)].locals, r.locals)
    PROVE  Chain(s, t, [calls EXCEPT ![Len(calls)] = r])
<1> DEFINE new == [calls EXCEPT ![Len(calls)] = r]
           n == Len(calls)
<1>1. /\ n \in Nat \ {0} /\ n \in 1..n /\ 1 \in 1..n
  BY CallsProperties
<1>2. Len(new) = n /\ \A i \in 1..n : new[i] = IF i = n THEN r ELSE calls[i]
  BY <1>1, ExceptSeq
<1> HIDE DEF new
<1>3. new[1].key = Key(t, Empty, Empty)
  BY <1>1, <1>2 DEF Chain
<1>4. \A i \in 1..n : new[i].node \in s.of
  BY <1>1, <1>2 DEF Chain
<1>5. ASSUME NEW i \in 1..n, i < n PROVE Waits(s, t, new[i], new[i + 1])
  <2>1. Waits(s, t, calls[i], calls[i + 1]) /\ new[i] = calls[i] /\ i + 1 \in 1..n
    BY <1>1, <1>2, <1>5 DEF Chain
  <2>2. CASE i + 1 # n
    BY <1>2, <2>1, <2>2
  <2>3. CASE i + 1 = n
    <3>1. new[i + 1] = r /\ calls[i + 1] = calls[n]
      BY <1>2, <2>1, <2>3
    <3> DEFINE caller == calls[i]
               callee == calls[n]
    <3>2. Waits(s, t, caller, callee)
      BY <2>1, <3>1
    <3>3. callee.node = r.node /\ callee.key = r.key
      OBVIOUS
    <3>4. /\ SameBut(s.binds[r.node], caller.scope, callee.scope)
          /\ SameBut(s.binds[r.node], caller.locals, callee.locals)
      BY <3>2, <3>3 DEF Waits
    <3>5. /\ SameBut(s.binds[r.node], callee.scope, r.scope)
          /\ SameBut(s.binds[r.node], callee.locals, r.locals)
      OBVIOUS
    <3> HIDE DEF caller, callee
    <3>6. /\ SameBut(s.binds[r.node], caller.scope, r.scope)
          /\ SameBut(s.binds[r.node], caller.locals, r.locals)
      BY <3>4, <3>5, SameButComposes
    <3>7. Waits(s, t, caller, r)
      BY <3>2, <3>3, <3>6 DEF Waits
    <3> QED BY <2>1, <3>1, <3>7 DEF caller
  <2> QED BY <2>2, <2>3
<1>6. Chain(s, t, new)
  BY <1>2, <1>3, <1>4, <1>5 DEF Chain
<1> QED BY <1>6 DEF new

\* A call is made of what its caller waits for.
LEMMA ChainPushed ==
    ASSUME NEW s, NEW t, NEW calls \in Seq(Frame), calls # <<>>, Chain(s, t, calls),
           NEW call \in Frame, call.node \in s.of, Waits(s, t, calls[Len(calls)], call)
    PROVE  Chain(s, t, Append(calls, call))
<1> DEFINE new == Append(calls, call)
           n == Len(calls)
<1>1. /\ n \in Nat \ {0} /\ n \in 1..n /\ 1 \in 1..n
  BY CallsProperties
<1>2. Len(new) = n + 1 /\ new[n + 1] = call /\ \A i \in 1..n : new[i] = calls[i]
  BY AppendProperties
<1> HIDE DEF new
<1>3. new[1].key = Key(t, Empty, Empty)
  BY <1>1, <1>2 DEF Chain
<1>4. \A i \in 1..(n + 1) : new[i].node \in s.of
  BY <1>1, <1>2 DEF Chain
<1>5. ASSUME NEW i \in 1..(n + 1), i < n + 1 PROVE Waits(s, t, new[i], new[i + 1])
  <2>1. i \in 1..n
    BY <1>1, <1>5
  <2>2. CASE i = n
    BY <1>2, <2>1, <2>2
  <2>3. CASE i # n
    <3>1. i < n /\ i + 1 \in 1..n
      BY <1>1, <2>1, <2>3
    <3> QED BY <1>2, <2>1, <3>1 DEF Chain
  <2> QED BY <2>2, <2>3
<1>6. Chain(s, t, new)
  BY <1>2, <1>3, <1>4, <1>5 DEF Chain
<1> QED BY <1>6 DEF new

\* Without the innermost call, its caller is the innermost.
LEMMA ChainPopped ==
    ASSUME NEW s, NEW t, NEW calls \in Seq(Frame), calls # <<>>, Len(calls) # 1,
           Chain(s, t, calls)
    PROVE  LET rest == SubSeq(calls, 1, Len(calls) - 1) IN
           /\ rest \in Seq(Frame) /\ rest # <<>>
           /\ Chain(s, t, rest)
           /\ Waits(s, t, rest[Len(rest)], calls[Len(calls)])
<1> DEFINE n == Len(calls)
           m == n - 1
           rest == SubSeq(calls, 1, m)
<1>1. /\ n \in Nat \ {0} /\ n \in 1..n /\ 1 \in 1..n
      /\ \A i \in 1..n : calls[i] \in Frame
  BY CallsProperties
<1>2. /\ m \in Nat \ {0} /\ m + 1 = n /\ 1 \in 1..m /\ m \in 1..m
      /\ \A i \in 1..m : i \in 1..n /\ i < n
  <2>1. n \in Nat \ {0} /\ n # 1
    BY <1>1
  <2> HIDE DEF n
  <2> QED BY <2>1
<1> HIDE DEF m
<1>3. rest \in Seq(Frame) /\ Len(rest) = m /\ \A i \in 1..m : rest[i] = calls[i]
  <2>1. \A i \in 1..m : calls[i] \in Frame
    BY <1>1, <1>2
  <2>2. /\ rest \in Seq(Frame)
        /\ Len(rest) = IF 1 <= m THEN m - 1 + 1 ELSE 0
        /\ \A i \in 1..(m - 1 + 1) : rest[i] = calls[1 + i - 1]
    BY <1>2, <2>1, SubSeqProperties
  <2> HIDE DEF rest
  <2> QED BY <1>2, <2>2
<1> HIDE DEF rest
<1>4. rest # <<>>
  BY <1>2, <1>3, EmptySeq
<1>5. Chain(s, t, rest)
  <2>1. rest[1].key = Key(t, Empty, Empty)
    BY <1>2, <1>3 DEF Chain
  <2>2. \A i \in 1..m : rest[i].node \in s.of
    BY <1>2, <1>3 DEF Chain
  <2>3. ASSUME NEW i \in 1..m, i < m PROVE Waits(s, t, rest[i], rest[i + 1])
    <3>1. i + 1 \in 1..m
      BY <1>2, <2>3
    <3> QED BY <1>2, <1>3, <2>3, <3>1 DEF Chain
  <2> QED BY <1>3, <2>1, <2>2, <2>3 DEF Chain
<1>6. Waits(s, t, rest[m], calls[n])
  <2>1. Waits(s, t, calls[m], calls[m + 1])
    BY <1>2 DEF Chain
  <2> QED BY <1>2, <1>3, <2>1
<1> QED BY <1>3, <1>4, <1>5, <1>6 DEF rest, m

-------------------------------------------------------------------------------
(* What a constraint reports is what it means. *)

\* A copy is a success if the original is.
LEMMA CopiedSuccess == ASSUME NEW f \in Sound PROVE Copied(f).success = f.success
BY DEF Copied, Sound, FitnessType

\* The success of a fitness that is counted, or made of values.
LEMMA SuccessOfCounts ==
    ASSUME NEW x, NEW y
    PROVE  /\ Counted(1, 1, TRUE).success
           /\ Counted(x, y, x = y).success <=> x = y
           /\ Aware(x, y).success <=> x = y
           /\ Aware(1, 1).success
BY DEF Counted, Aware

\* An expression succeeds if it is true for all combinations.
LEMMA ExpressionMeans ==
    ASSUME NEW n \in Leaf, NEW t \in Tree, NEW scope \in Scopes, NEW locals
    PROVE  ExpressionFitness(n, t, scope, locals).success
            <=> \A c \in Combinations(n, t, scope) : Outcome(n, Values(c, locals)) = "true"
<1> DEFINE C == Combinations(n, t, scope)
           S == {c \in C : Outcome(n, Values(c, locals)) = "true"}
<1>1. IsFiniteSet(C) /\ S \in SUBSET C
  BY CombinationsFinite
<1>2. Cardinality(S) = Cardinality(C) <=> S = C
  <2> HIDE DEF S, C
  <2> QED BY <1>1, FS_Subset
<1>3. S = C <=> \A c \in C : Outcome(n, Values(c, locals)) = "true"
  OBVIOUS
<1>4. ExpressionFitness(n, t, scope, locals)
        = IF C = {} THEN Counted(1, 1, TRUE)
          ELSE Counted(Cardinality(S), Cardinality(C), Cardinality(S) = Cardinality(C))
  BY DEF ExpressionFitness
<1>5. CASE C = {}
  BY <1>4, <1>5, SuccessOfCounts
<1>6. CASE C # {}
  <2>1. ExpressionFitness(n, t, scope, locals).success <=> Cardinality(S) = Cardinality(C)
    <3> HIDE DEF S, C
    <3> DEFINE x == Cardinality(S)
               y == Cardinality(C)
    <3>1. ExpressionFitness(n, t, scope, locals) = Counted(x, y, x = y)
      BY <1>4, <1>6, Zenon
    <3> HIDE DEF x, y
    <3>2. Counted(x, y, x = y).success <=> x = y
      BY SuccessOfCounts
    <3>3. ExpressionFitness(n, t, scope, locals).success <=> x = y
      BY <3>1, <3>2, Zenon
    <3> QED BY <3>3 DEF x, y
  <2> QED BY <1>2, <1>3, <2>1
<1> QED BY <1>5, <1>6

\* A comparison succeeds if it is true for all of them, but those for which it raises.
LEMMA ComparisonMeans ==
    ASSUME NEW n \in Leaf, NEW t \in Tree, NEW scope \in Scopes, NEW locals
    PROVE  ComparisonFitness(n, t, scope, locals).success
            <=> \A c \in Combinations(n, t, scope) :
                    Outcome(n, Values(c, locals)) \in {"true", "raises"}
<1> DEFINE C == Combinations(n, t, scope)
           compared == {c \in C : Outcome(n, Values(c, locals)) # "raises"}
           reached == {c \in compared : Outcome(n, Values(c, locals)) = "true"}
<1>1. compared \in SUBSET C /\ reached \in SUBSET compared
  OBVIOUS
<1>2. IsFiniteSet(compared)
  <2>1. IsFiniteSet(C)
    BY CombinationsFinite
  <2> HIDE DEF C, compared
  <2> QED BY <1>1, <2>1, FS_Subset
<1>3. Cardinality(reached) = Cardinality(compared) <=> reached = compared
  <2> HIDE DEF C, compared, reached
  <2> QED BY <1>1, <1>2, FS_Subset
<1>4. reached = compared
        <=> \A c \in C : Outcome(n, Values(c, locals)) \in {"true", "raises"}
  OBVIOUS
<1>5. ComparisonFitness(n, t, scope, locals)
        = IF C = {} THEN Aware(1, 1) ELSE Aware(Cardinality(reached), Cardinality(compared))
  BY DEF ComparisonFitness
<1>6. CASE C = {}
  BY <1>5, <1>6, SuccessOfCounts
<1>7. CASE C # {}
  <2>1. ComparisonFitness(n, t, scope, locals).success
            <=> Cardinality(reached) = Cardinality(compared)
    <3> HIDE DEF C, compared, reached
    <3> DEFINE x == Cardinality(reached)
               y == Cardinality(compared)
    <3>1. ComparisonFitness(n, t, scope, locals) = Aware(x, y)
      BY <1>5, <1>7, Zenon
    <3> HIDE DEF x, y
    <3>2. Aware(x, y).success <=> x = y
      BY SuccessOfCounts
    <3>3. ComparisonFitness(n, t, scope, locals).success <=> x = y
      BY <3>1, <3>2, Zenon
    <3> QED BY <3>3 DEF x, y
  <2> QED BY <1>3, <1>4, <2>1
<1> QED BY <1>6, <1>7

\* A new call: nothing is known yet.
LEMMA NewCall ==
    ASSUME NEW t, NEW r, ~r.open, InnermostMeans(t, r)
    PROVE  /\ r.key = Key(t, r.scope, r.locals)
           /\ r.part = 1 /\ r.every = TRUE /\ r.some = FALSE
<1> DEFINE call == Call(t, r.node, r.scope, r.locals)
<1>1. r = call
  BY DEF InnermostMeans
<1>2. /\ call.key = Key(t, r.scope, r.locals)
      /\ call.part = 1 /\ call.every = TRUE /\ call.some = FALSE
  BY DEF Call
<1> HIDE DEF call
<1> QED BY <1>1, <1>2

\* What a call of the constraint is to report, by its key.
LEMMA TruthOfCall ==
    ASSUME HashIsStructure, NEW s \in Scoping, Legible(s), NEW t \in Tree,
           NEW r \in Frame, r.node \in s.of, r.key = Key(t, r.scope, r.locals)
    PROVE  /\ Here(t, r) \in Environment
           /\ Here(t, r).tree = t /\ Here(t, r).scope = r.scope /\ Here(t, r).locals = r.locals
           /\ TruthOf(r.node, r.key) = Meaning[r.node][Here(t, r)]
           /\ TruthOf(r.node, r.key) = MeaningOf(r.node, Here(t, r), Meaning)
           /\ TruthOf(r.node, r.key) \in BOOLEAN
<1>1. r.scope \in Scopes /\ r.locals \in Locals /\ r.node \in Constraint
  BY FrameFields
<1>2. /\ Here(t, r) \in Environment
      /\ Here(t, r).tree = t /\ Here(t, r).scope = r.scope /\ Here(t, r).locals = r.locals
  BY <1>1, InEnvironment DEF Here
<1>3. TruthOf(r.node, r.key) = Meaning[r.node][Here(t, r)]
  BY <1>1, KeyDecides DEF Here
<1> QED BY <1>1, <1>2, <1>3, MeaningUnfolds

-------------------------------------------------------------------------------
(* Each step keeps it. *)

\* A call that reports what it means leaves a caller that can.
LEMMA ReturnMeans ==
    ASSUME HashIsStructure, NEW s \in Scoping, Legible(s), IInv, MeaningInv(s),
           stack # <<>>, NEW f \in Sound, Return(f), individual' = individual,
           f.success <=> TruthOf(Top.node, Top.key)
    PROVE  StackMeans(s, individual, stack') /\ ResultMeans(s)'
<1>1. individual \in Tree /\ stack \in Seq(Frame) /\ Chain(s, individual, stack) /\ Top \in Frame
  BY TopAndBelow, TreeAssumption DEF IInv, MeaningInv, StackMeans
<1>2. Len(stack) \in 1..Len(stack) /\ 1 \in 1..Len(stack)
  BY <1>1, CallsProperties
<1>3. Top.node \in s.of
  BY <1>1, <1>2 DEF Chain, Top
<1>4. CASE Len(stack) = 1
  <2>1. stack' = <<>> /\ result' = [node |-> Top.node, fitness |-> f]
    BY <1>4, Zenon DEF Return
  <2>2. Top.key = Key(individual, Empty, Empty)
    BY <1>1, <1>4 DEF Chain, Top
  <2>3. result'.node = Top.node /\ result'.fitness = f
    BY <2>1
  <2>4. ResultMeans(s)'
    BY <1>3, <2>2, <2>3 DEF ResultMeans
  <2>5. StackMeans(s, individual, stack')
    BY <2>1 DEF StackMeans
  <2> QED BY <2>4, <2>5
<1>5. CASE Len(stack) # 1
  <2> DEFINE m == Len(Below)
             caller == Below[m]
             r == Received(caller, Top, f)
  <2>1. stack' = [Below EXCEPT ![m] = r] /\ result' = result
    BY <1>5, Zenon DEF Return
  <2>2. /\ Below \in Seq(Frame) /\ Below # <<>>
        /\ Chain(s, individual, Below) /\ Waits(s, individual, caller, Top)
    BY <1>1, <1>5, ChainPopped DEF Below, Top
  <2>3. m \in 1..m /\ caller \in Frame
    BY <2>2, CallsProperties
  <2>4. r \in Frame
    BY <1>1, <2>3, ReceivedIsFrame
  <2>5. caller.node \in s.of
    BY <2>2, <2>3 DEF Chain
  <2> HIDE DEF caller
  <2>6. /\ r.node = caller.node /\ r.key = caller.key /\ r.open = caller.open
        /\ r.part = caller.part /\ r.todo = caller.todo
        /\ r.scope = IF caller.scope = Empty THEN Empty ELSE Top.scope
        /\ r.locals = IF caller.locals = Empty THEN Empty ELSE Top.locals
        /\ r.every = (caller.every /\ f.success) /\ r.some = (caller.some \/ f.success)
        /\ r.last = f
    BY <2>3, FrameFields DEF Received, FrameType
  <2>7. /\ caller.open /\ caller.node \notin Leaf
        /\ caller.node \notin Quantifier => caller.part - 1 \in DOMAIN Parts[caller.node]
        /\ Top.node = Called(caller)
        /\ SameBut(s.binds[Top.node], caller.scope, Top.scope)
        /\ SameBut(s.binds[Top.node], caller.locals, Top.locals)
    BY <2>2 DEF Waits
  <2> HIDE DEF r
  <2>8. /\ SameBut(s.binds[Top.node], caller.scope, r.scope)
        /\ SameBut(s.binds[Top.node], caller.locals, r.locals)
    BY <2>6, <2>7, SameButSelf
  <2>9. s.binds[Top.node] \subseteq s.binds[caller.node]
    <3>1. caller.node \in Constraint
      BY <2>5, ScopingRules
    <3>2. \E i \in DOMAIN Parts[caller.node] : Top.node = Parts[caller.node][i]
      BY <2>7, <3>1, PartsAreConstraints DEF Called
    <3> QED BY <2>5, <3>2, ScopingRules
  <2>10. /\ SameBut(s.binds[r.node], caller.scope, r.scope)
         /\ SameBut(s.binds[r.node], caller.locals, r.locals)
    BY <2>6, <2>8, <2>9, SameButMore
  <2>11. Chain(s, individual, stack')
    <3>1. Chain(s, individual, [Below EXCEPT ![Len(Below)] = r])
      BY <2>2, <2>4, <2>6, <2>10, ChainReplaced DEF caller
    <3> QED BY <2>1, <3>1
  <2>12. stack' # <<>> /\ stack'[Len(stack')] = r
    <3>1. /\ Len(stack') = m /\ stack'[m] = r /\ stack' \in Seq(Frame)
      BY <2>1, <2>2, <2>3, <2>4, ExceptSeq
    <3>2. m # 0
      BY <2>3
    <3> QED BY <3>1, <3>2, EmptySeq
  <2>13. Rest(individual, r, r.every, r.some, r.last.success) <=> TruthOf(r.node, r.key)
    <3> DEFINE said == TruthOf(Top.node, Top.key)
    <3>1. Rest(individual, caller, caller.every /\ said, caller.some \/ said, said)
            <=> TruthOf(caller.node, caller.key)
      BY <2>2 DEF Waits
    <3>2. said \in BOOLEAN /\ f.success \in BOOLEAN
      <4>1. Top.node \in Constraint /\ Top.key \in Keys
        BY <1>1, SMT DEF Frame, FrameType
      <4> QED BY <4>1, TruthIsBoolean DEF Sound, FitnessType
    <3>3. said = f.success
      BY <3>2
    <3> HIDE DEF said
    <3>4. Rest(individual, caller, r.every, r.some, r.last.success)
            <=> TruthOf(caller.node, caller.key)
      BY <2>6, <3>1, <3>3
    <3>5. Rest(individual, caller, r.every, r.some, r.last.success)
            <=> Rest(individual, r, r.every, r.some, r.last.success)
      BY <1>1, <2>3, <2>4, <2>5, <2>6, <2>7, <2>8, RestStable
    <3> QED BY <2>6, <3>4, <3>5
  <2>14. InnermostMeans(individual, r)
    BY <2>6, <2>7, <2>13 DEF InnermostMeans
  <2>15. StackMeans(s, individual, stack')
    BY <2>11, <2>12, <2>14 DEF StackMeans
  <2>16. ResultMeans(s)'
    BY <2>1 DEF MeaningInv, ResultMeans
  <2> QED BY <2>15, <2>16
<1> QED BY <1>4, <1>5

\* The innermost call is one of a constraint in the scoping.
LEMMA InnermostFacts ==
    ASSUME NEW s \in Scoping, IInv, MeaningInv(s), stack # <<>>
    PROVE  /\ stack \in Seq(Frame) /\ Top \in Frame /\ individual \in Tree
           /\ Len(stack) \in 1..Len(stack)
           /\ Chain(s, individual, stack) /\ InnermostMeans(individual, Top)
           /\ Top.node \in s.of /\ Top.node \in Constraint
<1>1. individual \in Tree /\ stack \in Seq(Frame) /\ Top \in Frame
  BY TopAndBelow, TreeAssumption DEF IInv
<1>2. Len(stack) \in 1..Len(stack)
  BY <1>1, CallsProperties
<1>3. Chain(s, individual, stack) /\ InnermostMeans(individual, Top)
  BY DEF MeaningInv, StackMeans, Top
<1>4. Top.node \in s.of
  BY <1>2, <1>3 DEF Chain, Top
<1> QED BY <1>1, <1>2, <1>3, <1>4, ScopingRules

\* A cached fitness is what the key decides, also when one was dropped for it.
LEMMA RememberMeans ==
    ASSUME NEW s \in Scoping, CacheSound, CacheMeans(s), NEW n \in s.of, NEW key, NEW f,
           f.success <=> TruthOf(n, key), Remember(n, key, f)
    PROVE  CacheMeans(s)'
<1>1. PICK kept \in SUBSET DOMAIN cache[n] :
        cache' = [cache EXCEPT ![n] = [k \in kept \cup {key} |-> IF k = key THEN f ELSE @[k]]]
  BY DEF Remember
<1>2. n \in DOMAIN cache
  BY ScopingRules DEF CacheSound
<1>3. ASSUME NEW x \in s.of, NEW k \in DOMAIN cache'[x]
      PROVE  cache'[x][k].success <=> TruthOf(x, k)
  <2>1. CASE x = n /\ k = key
    BY <1>1, <1>2, <2>1
  <2>2. CASE x = n /\ k # key
    <3>1. k \in DOMAIN cache[n] /\ cache'[x][k] = cache[n][k]
      BY <1>1, <1>2, <1>3, <2>2
    <3> QED BY <2>2, <3>1 DEF CacheMeans
  <2>3. CASE x # n
    <3>1. cache'[x] = cache[x]
      <4>1. x \in DOMAIN cache
        BY ScopingRules DEF CacheSound
      <4> QED BY <1>1, <2>3, <4>1
    <3> QED BY <1>3, <3>1 DEF CacheMeans
  <2> QED BY <2>1, <2>2, <2>3
<1> QED BY <1>3 DEF CacheMeans

\* The cache answers what the constraint means here, also if it was asked elsewhere.
LEMMA HitCacheMeans ==
    ASSUME HashIsStructure, NEW s \in Scoping, Legible(s), IInv, MeaningInv(s), HitCache
    PROVE  MeaningInv(s)'
<1> DEFINE f == cache[Top.node][Top.key]
<1>1. stack # <<>> /\ Top.key \in DOMAIN cache[Top.node] /\ Return(Copied(f))
      /\ individual' = individual /\ cache' = cache
  BY DEF HitCache
<1>2. Top.node \in s.of /\ Top.node \in Constraint
  BY <1>1, InnermostFacts
<1>3. f \in Sound /\ (f.success <=> TruthOf(Top.node, Top.key))
  BY <1>1, <1>2 DEF IInv, CacheSound, MeaningInv, CacheMeans
<1>4. Copied(f) \in Sound /\ (Copied(f).success <=> TruthOf(Top.node, Top.key))
  BY <1>3, CopiedSound, CopiedSuccess
<1> HIDE DEF f
<1>5. StackMeans(s, individual, stack') /\ ResultMeans(s)'
  BY <1>1, <1>4, ReturnMeans
<1>6. CacheMeans(s)'
  BY <1>1 DEF MeaningInv, CacheMeans
<1> QED BY <1>1, <1>5, <1>6 DEF MeaningInv, StackMeans

\* Expressions and comparisons are evaluated to what they mean.
LEMMA EvaluateLeafMeans ==
    ASSUME HashIsStructure, NEW s \in Scoping, Legible(s), IInv, MeaningInv(s), EvaluateLeaf
    PROVE  MeaningInv(s)'
<1> DEFINE f == IF Kind[Top.node] = "expression"
                THEN ExpressionFitness(Top.node, individual, Top.scope, Top.locals)
                ELSE ComparisonFitness(Top.node, individual, Top.scope, Top.locals)
           e == Here(individual, Top)
<1>1. /\ stack # <<>> /\ ~Top.open /\ Top.node \in Leaf /\ individual' = individual
      /\ Remember(Top.node, Top.key, f) /\ Return(f)
  BY DEF EvaluateLeaf, Missed
<1>2. /\ Top \in Frame /\ individual \in Tree /\ Top.node \in s.of /\ Top.node \in Constraint
      /\ InnermostMeans(individual, Top)
  BY <1>1, InnermostFacts
<1>3. Top.scope \in Scopes
  BY <1>2, FrameFields
<1>4. Top.key = Key(individual, Top.scope, Top.locals)
  BY <1>1, <1>2, NewCall
<1>5. /\ e.tree = individual /\ e.scope = Top.scope /\ e.locals = Top.locals
      /\ TruthOf(Top.node, Top.key) = MeaningOf(Top.node, e, Meaning)
  BY <1>2, <1>4, TruthOfCall
<1> HIDE DEF e
<1>6. f \in Sound
  BY <1>1, <1>2, <1>3, ExpressionSound, ComparisonSound
<1>7. f.success <=> TruthOf(Top.node, Top.key)
  <2>1. CASE Kind[Top.node] = "expression"
    <3>1. f.success <=> \A c \in Combinations(Top.node, individual, Top.scope) :
                            Outcome(Top.node, Values(c, Top.locals)) = "true"
      BY <1>1, <1>2, <1>3, <2>1, ExpressionMeans
    <3> HIDE DEF f
    <3> QED BY <1>5, <2>1, <3>1 DEF MeaningOf
  <2>2. CASE Kind[Top.node] = "comparison"
    <3>1. f.success <=> \A c \in Combinations(Top.node, individual, Top.scope) :
                            Outcome(Top.node, Values(c, Top.locals)) \in {"true", "raises"}
      BY <1>1, <1>2, <1>3, <2>2, ComparisonMeans
    <3> HIDE DEF f
    <3> QED BY <1>5, <2>2, <3>1 DEF MeaningOf
  <2> QED BY <1>1, <1>2, <2>1, <2>2, KindCases
<1> HIDE DEF f
<1>8. StackMeans(s, individual, stack') /\ ResultMeans(s)'
  BY <1>1, <1>6, <1>7, ReturnMeans
<1>9. CacheMeans(s)'
  BY <1>1, <1>2, <1>7, RememberMeans DEF IInv, MeaningInv
<1> QED BY <1>1, <1>8, <1>9 DEF MeaningInv, StackMeans

\* A call that is opened has all its parts, or all that the quantifier finds, ahead.
LEMMA OpenMeans ==
    ASSUME HashIsStructure, NEW s \in Scoping, Legible(s), IInv, MeaningInv(s), Open
    PROVE  MeaningInv(s)'
<1> DEFINE todo == IF Top.node \in Quantifier
                   THEN TreesFound(Search[Top.node], individual, Top.scope) ELSE {}
           r == [Top EXCEPT !.open = TRUE, !.todo = todo]
           e == Here(individual, Top)
           n == Top.node
<1>1. /\ stack # <<>> /\ ~Top.open /\ Top.node \notin Leaf
      /\ individual' = individual /\ cache' = cache /\ result' = result
  BY DEF Open, Missed
<1>2. /\ stack \in Seq(Frame) /\ Top \in Frame /\ individual \in Tree
      /\ Len(stack) \in 1..Len(stack) /\ Top.node \in s.of /\ Top.node \in Constraint
      /\ Chain(s, individual, stack) /\ InnermostMeans(individual, Top)
  BY <1>1, InnermostFacts
<1>3. stack' = [stack EXCEPT ![Len(stack)] = r]
  BY <1>2 DEF Open, Top
<1>4. IInv'
  BY OpenKeeps
<1>5. /\ r.node = n /\ r.key = Top.key /\ r.open = TRUE /\ r.todo = todo
      /\ r.scope = Top.scope /\ r.locals = Top.locals /\ r.part = Top.part
      /\ r.every = Top.every /\ r.some = Top.some /\ r.last = Top.last
  BY <1>2, FrameFields DEF FrameType
<1>6. /\ Top.key = Key(individual, Top.scope, Top.locals)
      /\ Top.part = 1 /\ Top.every = TRUE /\ Top.some = FALSE
  BY <1>1, <1>2, NewCall
<1> HIDE DEF r
<1>7. Len(stack') = Len(stack) /\ stack'[Len(stack')] = r /\ stack' # <<>>
  BY <1>2, <1>3, EmptySeq
<1>8. r \in Frame
  <2>1. stack' \in Seq(Frame)
    BY <1>4 DEF IInv
  <2> QED BY <1>2, <1>7, <2>1, ElementOfSeq
<1>9. Chain(s, individual, stack')
  <2>1. /\ SameBut(s.binds[r.node], Top.scope, r.scope)
        /\ SameBut(s.binds[r.node], Top.locals, r.locals)
    BY <1>5, SameButSelf
  <2>2. r.node = stack[Len(stack)].node /\ r.key = stack[Len(stack)].key
    BY <1>5 DEF Top
  <2>3. Chain(s, individual, [stack EXCEPT ![Len(stack)] = r])
    BY <1>1, <1>2, <1>8, <2>1, <2>2, ChainReplaced DEF Top
  <2> QED BY <1>3, <2>3
<1>10. /\ Here(individual, r) = e
       /\ e.tree = individual /\ e.scope = Top.scope
       /\ TruthOf(n, Top.key) = MeaningOf(n, e, Meaning)
  <2>1. Here(individual, r) = e
    BY <1>5 DEF Here
  <2>2. /\ e.tree = individual /\ e.scope = Top.scope
        /\ TruthOf(n, Top.key) = MeaningOf(n, e, Meaning)
    BY <1>2, <1>6, TruthOfCall
  <2> QED BY <2>1, <2>2
<1>11. Rest(individual, r, r.every, r.some, r.last.success) <=> MeaningOf(n, e, Meaning)
  <2>1. \A i \in DOMAIN Parts[n] : i >= 1
    BY <1>2, PartsAreConstraints
  <2>2. n \in Quantifier => todo = TreesFound(Search[n], e.tree, e.scope)
    BY <1>10
  <2> HIDE DEF e, todo
  <2>3. CASE Kind[n] = "and"
    BY <1>5, <1>6, <1>10, <2>1, <2>3 DEF Rest, MeaningOf
  <2>4. CASE Kind[n] = "or"
    BY <1>5, <1>6, <1>10, <2>1, <2>4 DEF Rest, MeaningOf
  <2>5. CASE Kind[n] = "implies"
    BY <1>5, <1>6, <1>10, <2>5 DEF Rest, MeaningOf
  <2>6. CASE Kind[n] = "all"
    <3>1. n \in Quantifier BY <1>2, <2>6, KindCases
    <3> QED BY <1>5, <1>6, <1>10, <2>2, <2>6, <3>1 DEF Rest, MeaningOf
  <2>7. CASE Kind[n] = "any"
    <3>1. n \in Quantifier BY <1>2, <2>7, KindCases
    <3> QED BY <1>5, <1>6, <1>10, <2>2, <2>7, <3>1 DEF Rest, MeaningOf
  <2> QED BY <1>1, <1>2, <2>3, <2>4, <2>5, <2>6, <2>7, KindCases
<1>12. InnermostMeans(individual, r)
  BY <1>1, <1>5, <1>10, <1>11 DEF InnermostMeans
<1>13. StackMeans(s, individual, stack')
  BY <1>7, <1>9, <1>12 DEF StackMeans
<1>14. CacheMeans(s)' /\ ResultMeans(s)'
  BY <1>1 DEF MeaningInv, CacheMeans, ResultMeans
<1> QED BY <1>1, <1>13, <1>14 DEF MeaningInv, StackMeans

\* A caller that waits for a call of one of its parts can report what it means.
LEMMA CallMeans ==
    ASSUME NEW s \in Scoping, IInv, MeaningInv(s), IInv', stack # <<>>,
           NEW r \in Frame, NEW call,
           stack' = Append([stack EXCEPT ![Len(stack)] = r], call),
           r.node = Top.node, r.key = Top.key,
           SameBut(s.binds[Top.node], Top.scope, r.scope),
           SameBut(s.binds[Top.node], Top.locals, r.locals),
           call.node \in s.of, Waits(s, individual, r, call),
           call = Call(individual, call.node, call.scope, call.locals),
           individual' = individual, cache' = cache, result' = result
    PROVE  MeaningInv(s)'
<1> DEFINE changed == [stack EXCEPT ![Len(stack)] = r]
<1>1. /\ stack \in Seq(Frame) /\ Len(stack) \in 1..Len(stack) /\ Chain(s, individual, stack)
  BY InnermostFacts
<1>2. Chain(s, individual, changed)
  BY <1>1, ChainReplaced DEF Top
<1>3. /\ changed \in Seq(Frame) /\ changed # <<>> /\ Len(changed) = Len(stack)
      /\ changed[Len(changed)] = r
  BY <1>1, ExceptSeq, EmptySeq
<1> HIDE DEF changed
<1>4. /\ Len(stack') = Len(changed) + 1 /\ stack'[Len(stack')] = call /\ stack' # <<>>
  <2>1. Len(changed) \in Nat
    BY <1>3, LenProperties
  <2>2. stack' = Append(changed, call)
    BY DEF changed
  <2> QED BY <1>3, <2>1, <2>2
<1>5. call \in Frame
  <2>1. stack' \in Seq(Frame)
    BY DEF IInv
  <2> QED BY <1>4, <2>1, CallsProperties
<1>6. Chain(s, individual, stack')
  <2>1. stack' = Append(changed, call)
    BY DEF changed
  <2> QED BY <1>2, <1>3, <1>5, <2>1, ChainPushed
<1>7. InnermostMeans(individual, call)
  <2>1. call.open = FALSE
    <3> DEFINE new == Call(individual, call.node, call.scope, call.locals)
    <3>1. new.open = FALSE BY DEF Call
    <3> HIDE DEF new
    <3> QED BY <3>1 DEF new
  <2> QED BY <2>1 DEF InnermostMeans
<1>8. StackMeans(s, individual, stack')
  BY <1>4, <1>6, <1>7 DEF StackMeans
<1>9. CacheMeans(s)' /\ ResultMeans(s)'
  BY DEF MeaningInv, CacheMeans, ResultMeans
<1> QED BY <1>8, <1>9 DEF MeaningInv, StackMeans

\* The part that is called is one less that is ahead.
LEMMA EvaluatePartMeans ==
    ASSUME HashIsStructure, NEW s \in Scoping, Legible(s), IInv, MeaningInv(s), EvaluatePart
    PROVE  MeaningInv(s)'
<1> DEFINE n == Top.node
           p == Top.part
           part == Parts[n][p]
           r == [Top EXCEPT !.part = p + 1]
           call == Call(individual, part, Top.scope, Top.locals)
           e == Here(individual, Top)
           said == TruthOf(part, Key(individual, Top.scope, Top.locals))
           means(i) == Meaning[Parts[n][i]][e]
<1>1. /\ stack # <<>> /\ Top.open /\ HasNextPart(Top)
      /\ individual' = individual /\ cache' = cache /\ result' = result
  BY DEF EvaluatePart
<1>2. /\ stack \in Seq(Frame) /\ Top \in Frame /\ individual \in Tree
      /\ Len(stack) \in 1..Len(stack) /\ n \in s.of /\ n \in Constraint
      /\ InnermostMeans(individual, Top)
  BY <1>1, InnermostFacts
<1>3. /\ p \in Nat \ {0} /\ Top.scope \in Scopes /\ Top.locals \in Locals
      /\ Top.every \in BOOLEAN /\ Top.some \in BOOLEAN
  BY <1>2, FrameFields
<1>4. /\ n \notin Quantifier /\ p \in DOMAIN Parts[n]
      /\ Kind[n] = "implies" => Top.every
  BY <1>1, <1>2, <1>3, PartsAreConstraints DEF HasNextPart
<1>5. part \in s.of
  BY <1>2, <1>4, ScopingRules
<1>6. stack' = Append([stack EXCEPT ![Len(stack)] = r], call)
  BY <1>2 DEF EvaluatePart, Top
<1>7. IInv'
  BY EvaluatePartKeeps
<1>8. /\ r.node = n /\ r.key = Top.key /\ r.open = Top.open /\ r.part = p + 1
      /\ r.scope = Top.scope /\ r.locals = Top.locals
      /\ r.every = Top.every /\ r.some = Top.some
      /\ r \in Frame
  <2>1. /\ r.node = n /\ r.key = Top.key /\ r.open = Top.open /\ r.part = p + 1
        /\ r.scope = Top.scope /\ r.locals = Top.locals
        /\ r.every = Top.every /\ r.some = Top.some
    BY <1>2, FrameFields DEF FrameType
  <2>2. r \in Frame
    <3> HIDE DEF r, call
    <3>1. stack' \in Seq(Frame)
      BY <1>7 DEF IInv
    <3>2. /\ Len(stack) \in 1..Len(stack') /\ stack'[Len(stack)] = r
      BY <1>2, <1>6
    <3> QED BY <3>1, <3>2, ElementOfSeq
  <2> QED BY <2>1, <2>2
<1>9. /\ call.node = part /\ call.key = Key(individual, Top.scope, Top.locals)
      /\ call.scope = Top.scope /\ call.locals = Top.locals
      /\ call = Call(individual, call.node, call.scope, call.locals)
  BY DEF Call
<1>10. said = means(p)
  BY <1>2, <1>3, <1>5, KeyDecides DEF Here
<1>11. Here(individual, r) = e
  BY <1>8 DEF Here
<1>12. /\ Rest(individual, Top, Top.every, Top.some, Top.last.success)
            <=> TruthOf(n, Top.key)
       /\ n \notin Leaf
  BY <1>1, <1>2 DEF InnermostMeans
<1>13. Rest(individual, r, Top.every /\ said, Top.some \/ said, said)
        <=> Rest(individual, Top, Top.every, Top.some, Top.last.success)
  <2>1. \A i \in DOMAIN Parts[n] : i >= p <=> i = p \/ i >= p + 1
    BY <1>2, <1>3, PartsAreConstraints
  <2> HIDE DEF r, call, said, e
  <2>2. CASE Kind[n] = "and"
    BY <1>4, <1>8, <1>10, <1>11, <2>1, <2>2 DEF Rest, e
  <2>3. CASE Kind[n] = "or"
    BY <1>4, <1>8, <1>10, <1>11, <2>1, <2>3 DEF Rest, e
  <2>4. CASE Kind[n] = "implies"
    <3>1. Top.every
      BY <1>4, <2>4
    <3>2. p = 1 \/ p = 2
      <4>1. Len(Parts[n]) = 2
        BY <1>2, <2>4, ConstraintAssumption
      <4> QED BY <1>2, <1>3, <1>4, <4>1, PartsAreConstraints
    <3>3. CASE p = 1
      BY <1>8, <1>10, <1>11, <2>4, <3>1, <3>3 DEF Rest, e
    <3>4. CASE p = 2
      BY <1>8, <1>10, <1>11, <2>4, <3>1, <3>4 DEF Rest, e
    <3> QED BY <3>2, <3>3, <3>4
  <2> QED BY <1>2, <1>4, <1>12, <2>2, <2>3, <2>4, KindCases
<1> HIDE DEF r, call
<1>14. Waits(s, individual, r, call)
  <2>1. r.open /\ r.node \notin Leaf
    BY <1>1, <1>8, <1>12
  <2>2. r.part - 1 = p
    BY <1>3, <1>8
  <2>3. call.node = Called(r)
    BY <1>4, <1>8, <1>9, <2>2 DEF Called
  <2>4. call.key = Key(individual, r.scope, r.locals)
    BY <1>8, <1>9
  <2>5. /\ SameBut(s.binds[call.node], r.scope, call.scope)
        /\ SameBut(s.binds[call.node], r.locals, call.locals)
    BY <1>8, <1>9, SameButSelf
  <2>6. TruthOf(call.node, call.key) = said
    BY <1>9
  <2> HIDE DEF said
  <2>7. LET its == TruthOf(call.node, call.key) IN
        Rest(individual, r, r.every /\ its, r.some \/ its, its) <=> TruthOf(r.node, r.key)
    BY <1>8, <1>12, <1>13, <2>6
  <2> QED BY <1>4, <1>8, <2>1, <2>2, <2>3, <2>4, <2>5, <2>7 DEF Waits
<1>15. /\ SameBut(s.binds[n], Top.scope, r.scope)
       /\ SameBut(s.binds[n], Top.locals, r.locals)
  BY <1>8, SameButSelf
<1> HIDE DEF n, part
<1> QED BY <1>1, <1>5, <1>6, <1>7, <1>8, <1>9, <1>14, <1>15, CallMeans DEF n

\* What a quantifier binds is a binding of its environment, and changes nothing else.
LEMMA BoundIsBinding ==
    ASSUME NEW t, NEW r, NEW u
    PROVE  /\ In(t, BoundScope(r, u), BoundLocals(r, u)) = Binding(r.node, Here(t, r), u)
           /\ SameBut({Bound[r.node]}, r.scope, BoundScope(r, u))
           /\ SameBut({Bound[r.node]}, r.locals, BoundLocals(r, u))
<1> DEFINE e == Here(t, r)
<1>1. e.tree = t /\ e.scope = r.scope /\ e.locals = r.locals
  BY DEF Here, In
<1> HIDE DEF e
<1>2. In(t, BoundScope(r, u), BoundLocals(r, u)) = Binding(r.node, e, u)
  BY <1>1 DEF BoundScope, BoundLocals, Binding
<1>3. \A dict, key, value : SameBut({key}, dict, SetIn(dict, key, value))
  BY DEF SameBut, SetIn
<1>4. /\ SameBut({Bound[r.node]}, r.scope, BoundScope(r, u))
      /\ SameBut({Bound[r.node]}, r.locals, BoundLocals(r, u))
  BY <1>3, SameButSelf DEF BoundScope, BoundLocals
<1> QED BY <1>2, <1>4 DEF e

\* The tree that is taken is one less that is ahead; the others are bound over it.
LEMMA EvaluateInstanceMeans ==
    ASSUME HashIsStructure, NEW s \in Scoping, Legible(s), IInv, MeaningInv(s), EvaluateInstance
    PROVE  MeaningInv(s)'
<1>1. /\ stack # <<>> /\ Top.open /\ HasNextInstance(Top)
      /\ individual' = individual /\ cache' = cache /\ result' = result
  BY DEF EvaluateInstance
<1>2. /\ stack \in Seq(Frame) /\ Top \in Frame /\ individual \in Tree
      /\ Len(stack) \in 1..Len(stack) /\ Top.node \in s.of /\ Top.node \in Constraint
      /\ InnermostMeans(individual, Top)
  BY <1>1, InnermostFacts
<1>3. /\ Top.node \in Quantifier /\ Top.todo \in SUBSET Tree
      /\ Top.scope \in Scopes /\ Top.locals \in Locals
      /\ Top.every \in BOOLEAN /\ Top.some \in BOOLEAN
  BY <1>1, <1>2, FrameFields DEF HasNextInstance
<1>4. PICK u \in Top.todo :
        stack' = Append([stack EXCEPT ![Len(stack)].todo = @ \ {u},
                                      ![Len(stack)].scope = BoundScope(Top, u),
                                      ![Len(stack)].locals = BoundLocals(Top, u)],
                        Call(individual, Parts[Top.node][1], BoundScope(Top, u),
                             BoundLocals(Top, u)))
  BY DEF EvaluateInstance
<1> DEFINE n == Top.node
           body == Parts[n][1]
           scope == BoundScope(Top, u)
           locals == BoundLocals(Top, u)
           r == [Top EXCEPT !.todo = Top.todo \ {u}, !.scope = scope, !.locals = locals]
           call == Call(individual, body, scope, locals)
           e == Here(individual, Top)
           said == TruthOf(body, Key(individual, scope, locals))
           means(w) == Meaning[body][Binding(n, e, w)]
<1>5. /\ In(individual, scope, locals) = Binding(n, e, u)
      /\ SameBut({Bound[n]}, Top.scope, scope) /\ SameBut({Bound[n]}, Top.locals, locals)
  BY BoundIsBinding
<1>6. /\ body \in s.of /\ Bound[n] \in s.binds[n]
  <2>1. 1 \in DOMAIN Parts[n]
    BY <1>2, <1>3, PartsAreConstraints
  <2> QED BY <1>2, <1>3, <2>1, ScopingRules
<1>7. scope \in Scopes /\ locals \in Locals
  BY <1>2, <1>3, BoundDictionaries
<1>8. stack' = Append([stack EXCEPT ![Len(stack)] = r], call)
  BY <1>2, <1>4 DEF Top
<1>9. IInv'
  BY EvaluateInstanceKeeps
<1>10. /\ call.node = body /\ call.key = Key(individual, scope, locals)
       /\ call.scope = scope /\ call.locals = locals
       /\ call = Call(individual, call.node, call.scope, call.locals)
  BY DEF Call
<1>11. said = means(u)
  BY <1>2, <1>5, <1>6, <1>7, KeyDecides
<1> HIDE DEF scope, locals
<1>12. /\ r.node = n /\ r.key = Top.key /\ r.open = Top.open /\ r.todo = Top.todo \ {u}
       /\ r.scope = scope /\ r.locals = locals
       /\ r.every = Top.every /\ r.some = Top.some
  BY <1>2, FrameFields DEF FrameType
<1> HIDE DEF r, call, said
<1>13. r \in Frame
  <2>1. stack' \in Seq(Frame)
    BY <1>9 DEF IInv
  <2>2. /\ Len(stack) \in 1..Len(stack') /\ stack'[Len(stack)] = r
    BY <1>2, <1>8
  <2> QED BY <2>1, <2>2, ElementOfSeq
<1>14. ASSUME NEW w \in Tree
       PROVE  Meaning[body][Binding(n, Here(individual, r), w)] = means(w)
  <2>1. Here(individual, r) = In(individual, scope, locals)
    BY <1>12 DEF Here
  <2>2. {Bound[n]} \cap s.free[body] \subseteq {Bound[n]}
    OBVIOUS
  <2>3. n \in s.of \cap Quantifier
    BY <1>2, <1>3
  <2> HIDE DEF n
  <2>4. Meaning[body][Binding(n, In(individual, Top.scope, Top.locals), w)]
            = Meaning[body][Binding(n, In(individual, scope, locals), w)]
    BY <1>2, <1>3, <1>5, <1>7, <2>2, <2>3, BodyStable
  <2> QED BY <2>1, <2>4 DEF Here
<1>15. /\ Rest(individual, Top, Top.every, Top.some, Top.last.success) <=> TruthOf(n, Top.key)
       /\ n \notin Leaf
  BY <1>1, <1>2 DEF InnermostMeans
<1>16. Rest(individual, r, Top.every /\ said, Top.some \/ said, said)
        <=> Rest(individual, Top, Top.every, Top.some, Top.last.success)
  <2>1. \A w \in Top.todo : w = u \/ w \in r.todo
    BY <1>12
  <2>2. r.todo \subseteq Top.todo /\ r.todo \subseteq Tree
    BY <1>3, <1>12
  <2> HIDE DEF e
  <2>3. CASE Kind[n] = "all"
    <3>1. Rest(individual, r, Top.every /\ said, Top.some \/ said, said)
            <=> Top.every /\ said /\ \A w \in r.todo : means(w)
      BY <1>12, <1>14, <2>2, <2>3 DEF Rest
    <3>2. Rest(individual, Top, Top.every, Top.some, Top.last.success)
            <=> Top.every /\ \A w \in Top.todo : means(w)
      BY <2>3 DEF Rest, e
    <3> QED BY <1>11, <2>1, <2>2, <3>1, <3>2
  <2>4. CASE Kind[n] = "any"
    <3>1. Rest(individual, r, Top.every /\ said, Top.some \/ said, said)
            <=> Top.some \/ said \/ \E w \in r.todo : means(w)
      BY <1>12, <1>14, <2>2, <2>4 DEF Rest
    <3>2. Rest(individual, Top, Top.every, Top.some, Top.last.success)
            <=> Top.some \/ \E w \in Top.todo : means(w)
      BY <2>4 DEF Rest, e
    <3> QED BY <1>11, <2>1, <2>2, <3>1, <3>2
  <2> QED BY <1>2, <1>3, <2>3, <2>4, KindCases
<1>17. Waits(s, individual, r, call)
  <2>1. r.open /\ r.node \notin Leaf /\ r.node \in Quantifier
    BY <1>1, <1>3, <1>12, <1>15
  <2>2. call.node = Called(r)
    BY <1>10, <1>12, <2>1 DEF Called
  <2>3. call.key = Key(individual, r.scope, r.locals)
    BY <1>10, <1>12
  <2>4. /\ SameBut(s.binds[call.node], r.scope, call.scope)
        /\ SameBut(s.binds[call.node], r.locals, call.locals)
    BY <1>10, <1>12, SameButSelf
  <2>5. TruthOf(call.node, call.key) = said
    BY <1>10 DEF said
  <2>6. LET its == TruthOf(call.node, call.key) IN
        Rest(individual, r, r.every /\ its, r.some \/ its, its) <=> TruthOf(r.node, r.key)
    BY <1>12, <1>15, <1>16, <2>5
  <2> QED BY <2>1, <2>2, <2>3, <2>4, <2>6 DEF Waits
<1>18. /\ SameBut(s.binds[n], Top.scope, r.scope)
       /\ SameBut(s.binds[n], Top.locals, r.locals)
  <2>1. {Bound[n]} \subseteq s.binds[n]
    BY <1>6
  <2> QED BY <1>5, <1>12, <2>1, SameButMore
<1> HIDE DEF n, body
<1> QED BY <1>1, <1>6, <1>8, <1>9, <1>10, <1>12, <1>13, <1>17, <1>18, CallMeans DEF n

\* A call that is closed, since nothing is ahead or no longer matters, reports what it means.
LEMMA CloseMeans ==
    ASSUME HashIsStructure, NEW s \in Scoping, Legible(s), IInv, MeaningInv(s), Close
    PROVE  MeaningInv(s)'
<1> DEFINE f == Aggregate(Top)
           n == Top.node
           p == Top.part
<1>1. /\ stack # <<>> /\ Top.open /\ ~HasNextPart(Top) /\ ~HasNextInstance(Top)
      /\ Remember(n, Top.key, f) /\ Return(f) /\ individual' = individual
  BY DEF Close
<1>2. /\ Top \in Frame /\ n \in s.of /\ n \in Constraint /\ InnermostMeans(individual, Top)
  BY <1>1, InnermostFacts
<1>3. f \in Sound
  BY <1>2, AggregateSound
<1>4. /\ Rest(individual, Top, Top.every, Top.some, Top.last.success) <=> TruthOf(n, Top.key)
      /\ n \notin Leaf
  BY <1>1, <1>2 DEF InnermostMeans
<1>5. /\ p \in Nat \ {0} /\ Top.every \in BOOLEAN /\ Top.some \in BOOLEAN /\ Top.last \in Sound
      /\ Kind[n] = "implies" => p <= 3
  BY <1>2, FrameFields
<1>6. DOMAIN Parts[n] = 1..Len(Parts[n]) /\ Len(Parts[n]) \in Nat
  BY <1>2, PartsAreConstraints
<1>7. f.success <=> Rest(individual, Top, Top.every, Top.some, Top.last.success)
  <2>1. CASE Kind[n] = "and"
    <3>1. n \notin Quantifier /\ n \in Universal
      BY <1>2, <2>1, KindCases
    <3>2. f.success = Top.every
      BY <2>1 DEF Aggregate, Counted
    <3>3. ~Top.every \/ p > Len(Parts[n])
      BY <1>1, <1>5, <1>6, <2>1, <3>1 DEF HasNextPart, Stopped
    <3>4. \A i \in DOMAIN Parts[n] : i >= p => ~Top.every
      BY <1>5, <1>6, <3>3
    <3> QED BY <2>1, <3>2, <3>4 DEF Rest
  <2>2. CASE Kind[n] = "or"
    <3>1. n \notin Quantifier /\ n \notin Universal
      BY <1>2, <2>2, KindCases
    <3>2. f.success = Top.some
      BY <2>2, <3>1 DEF Aggregate, Counted, Overall
    <3>3. Top.some \/ p > Len(Parts[n])
      BY <1>1, <1>5, <1>6, <2>2, <3>1 DEF HasNextPart, Stopped
    <3>4. \A i \in DOMAIN Parts[n] : i >= p => Top.some
      BY <1>5, <1>6, <3>3
    <3> QED BY <2>2, <3>2, <3>4 DEF Rest
  <2>3. CASE Kind[n] = "implies"
    <3>1. n \notin Quantifier /\ Len(Parts[n]) = 2
      BY <1>2, <2>3, KindCases, ConstraintAssumption
    <3>2. CASE p = 3
      <4> DEFINE last == Copied(Top.last)
      <4>1. f = [last EXCEPT !.total = @ + 1, !.solved = @ + (IF last.success THEN 1 ELSE 0)]
        BY <2>3, <3>2 DEF Aggregate
      <4>2. last \in Sound /\ last.success = Top.last.success
        BY <1>5, CopiedSound, CopiedSuccess
      <4> HIDE DEF last, f
      <4>3. f.success = last.success
        BY <4>1, <4>2 DEF Sound, FitnessType
      <4> QED BY <2>3, <3>2, <4>2, <4>3 DEF Rest
    <3>3. CASE p # 3
      <4>1. p = 1 \/ p = 2
        BY <1>5, <2>3, <3>3
      <4>2. f.success = TRUE
        <5>1. p < 3 BY <4>1
        <5> QED BY <2>3, <3>3, <5>1 DEF Aggregate, Counted
      <4>3. ~Top.every
        BY <1>1, <2>3, <3>1, <4>1 DEF HasNextPart
      <4> HIDE DEF f
      <4> QED BY <2>3, <4>1, <4>2, <4>3 DEF Rest
    <3> QED BY <3>2, <3>3
  <2>4. CASE Kind[n] = "all"
    <3>1. n \in Quantifier /\ n \in Universal
      BY <1>2, <2>4, KindCases
    <3>2. f.success = Top.every
      BY <2>4, <3>1 DEF Aggregate, Counted, Overall
    <3>3. ~Top.every \/ Top.todo = {}
      BY <1>1, <3>1 DEF HasNextInstance, Stopped
    <3> QED BY <2>4, <3>2, <3>3 DEF Rest
  <2>5. CASE Kind[n] = "any"
    <3>1. n \in Quantifier /\ n \notin Universal
      BY <1>2, <2>5, KindCases
    <3>2. f.success = Top.some
      BY <2>5, <3>1 DEF Aggregate, Counted, Overall
    <3>3. Top.some \/ Top.todo = {}
      BY <1>1, <3>1 DEF HasNextInstance, Stopped
    <3> QED BY <2>5, <3>2, <3>3 DEF Rest
  <2> QED BY <1>2, <1>4, <2>1, <2>2, <2>3, <2>4, <2>5, KindCases
<1> HIDE DEF f
<1>8. f.success <=> TruthOf(n, Top.key)
  BY <1>4, <1>7
<1>9. StackMeans(s, individual, stack') /\ ResultMeans(s)'
  BY <1>1, <1>3, <1>8, ReturnMeans
<1>10. CacheMeans(s)'
  <2>1. CacheSound /\ CacheMeans(s)
    BY DEF IInv, MeaningInv
  <2> HIDE DEF n
  <2> QED BY <1>1, <1>2, <1>8, <2>1, RememberMeans
<1> QED BY <1>1, <1>9, <1>10 DEF MeaningInv, StackMeans

\* A new evaluation starts with empty dictionaries, and with the caches of those before.
LEMMA EvaluateMeans ==
    ASSUME NEW s \in Scoping, Goal \subseteq s.of, MeaningInv(s),
           NEW t \in Individual, NEW n \in Goal, Evaluate(t, n)
    PROVE  MeaningInv(s)'
<1> DEFINE call == Call(t, n, Empty, Empty)
<1>1. /\ stack' = <<call>> /\ individual' = t /\ result' = NoResult /\ cache' = cache
  BY DEF Evaluate
<1>2. /\ call.node = n /\ call.key = Key(t, Empty, Empty) /\ call.open = FALSE
      /\ call = Call(t, call.node, call.scope, call.locals)
  BY DEF Call
<1> HIDE DEF call
<1>3. Len(stack') = 1 /\ stack'[1] = call /\ stack' # <<>>
  BY <1>1
<1>4. Chain(s, t, stack')
  BY <1>2, <1>3 DEF Chain
<1>5. InnermostMeans(t, call)
  BY <1>2 DEF InnermostMeans
<1>6. StackMeans(s, t, stack')
  BY <1>3, <1>4, <1>5 DEF StackMeans
<1>7. CacheMeans(s)' /\ ResultMeans(s)'
  BY <1>1 DEF MeaningInv, CacheMeans, ResultMeans
<1> QED BY <1>1, <1>6, <1>7 DEF MeaningInv, StackMeans

LEMMA InitMeans == ASSUME NEW s \in Scoping, Init PROVE MeaningInv(s)
<1>1. stack = <<>> /\ result = NoResult /\ cache = [n \in Constraint |-> <<>>]
  BY DEF Init
<1>2. \A n \in s.of : DOMAIN cache[n] = {}
  <2>1. \A n \in s.of : cache[n] = <<>>
    BY <1>1, ScopingRules
  <2> QED BY <2>1
<1> QED BY <1>1, <1>2 DEF MeaningInv, StackMeans, CacheMeans, ResultMeans

\* After an exception nothing is under way; what is cached is still right.
LEMMA EscapeMeans ==
    ASSUME NEW s \in Scoping, MeaningInv(s), Escape
    PROVE  MeaningInv(s)'
BY DEF Escape, MeaningInv, StackMeans, CacheMeans, ResultMeans

LEMMA NextMeans ==
    ASSUME HashIsStructure, NEW s \in Scoping, Legible(s), Goal \subseteq s.of,
           IInv, MeaningInv(s), [Next]_vars
    PROVE  MeaningInv(s)'
<1>1. CASE HitCache BY <1>1, HitCacheMeans
<1>2. CASE EvaluateLeaf BY <1>2, EvaluateLeafMeans
<1>3. CASE Open BY <1>3, OpenMeans
<1>4. CASE EvaluatePart BY <1>4, EvaluatePartMeans
<1>5. CASE EvaluateInstance BY <1>5, EvaluateInstanceMeans
<1>6. CASE Close BY <1>6, CloseMeans
<1>7. CASE \E t \in Individual, n \in Goal : Evaluate(t, n) BY <1>7, EvaluateMeans
<1>8. CASE Escape BY <1>8, EscapeMeans
<1>9. CASE UNCHANGED vars
  BY <1>9 DEF vars, MeaningInv, StackMeans, CacheMeans, ResultMeans
<1> QED BY <1>1, <1>2, <1>3, <1>4, <1>5, <1>6, <1>7, <1>8, <1>9 DEF Next, Compute

\* check() says of every tree what the constraint means, for all specifications whose
\* constraints use no name that another quantifier leaves behind, and whose Python code
\* looks at the named trees as they are; if trees with the same hash look the same, also to
\* the searches.  However deep the constraints are nested, in whatever order a quantifier
\* takes its trees, whatever the caches hold and have dropped, lazy or not.
THEOREM ChecksMeaning ==
    ASSUME HashIsStructure, NEW s \in Scoping, Legible(s), Goal \subseteq s.of
    PROVE  Spec => []CheckIsMeaning
<1>1. Init => IInv /\ MeaningInv(s)
  BY InitIInv, InitMeans
<1>2. (IInv /\ MeaningInv(s)) /\ [Next]_vars => (IInv /\ MeaningInv(s))'
  BY NextKeeps, NextMeans
<1>3. IInv /\ MeaningInv(s) => CheckIsMeaning
  <2> SUFFICES ASSUME IInv, MeaningInv(s), result # NoResult
               PROVE  result.fitness.success
                        = Meaning[result.node][In(individual, Empty, Empty)]
    BY DEF CheckIsMeaning
  <2>1. /\ result.node \in s.of /\ individual \in Tree
        /\ result.fitness.success <=> TruthOf(result.node, Key(individual, Empty, Empty))
    BY TreeAssumption DEF MeaningInv, ResultMeans, IInv
  <2>2. TruthOf(result.node, Key(individual, Empty, Empty))
            = Meaning[result.node][In(individual, Empty, Empty)]
    BY <2>1, EmptyIsDictionary, KeyDecides
  <2>3. result.fitness.success \in BOOLEAN
    BY DEF IInv, ResultSound, Sound, FitnessType
  <2>4. Meaning[result.node][In(individual, Empty, Empty)] \in BOOLEAN
    BY <2>1, ScopingRules, EmptyIsDictionary, InEnvironment, MeaningUnfolds
  <2> QED BY <2>1, <2>2, <2>3, <2>4
<1> QED BY <1>1, <1>2, <1>3, PTL DEF Spec
===============================================================================
