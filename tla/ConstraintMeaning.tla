--------------------------- MODULE ConstraintMeaning ---------------------------
(***************************************************************************)
(* What a constraint means: the reading of the documentation, by recursion *)
(* over the constraint, with lexical binding, without laziness or caches;  *)
(* and the constraints of which check() says what they mean.               *)
(***************************************************************************)
EXTENDS Constraints

Scopes == UNION {[S -> Tree] : S \in SUBSET Symbol}
Locals == UNION {[S -> {{u} : u \in Tree}] : S \in SUBSET Name}

\* What a constraint is read in: a tree, and what the quantifiers around it have bound.
Environment == [tree : Tree, scope : Scopes, locals : Locals]
In(t, scope, locals) == [tree |-> t, scope |-> scope, locals |-> locals]

\* The environment of the body of quantifier n for the tree u.
Binding(n, e, u) ==
    IF Bound[n] \in Symbol THEN In(e.tree, SetIn(e.scope, Bound[n], u), e.locals)
                           ELSE In(e.tree, e.scope, SetIn(e.locals, Bound[n], {u}))

\* The meaning of n, given that of its parts.
MeaningOf(n, e, meaning) ==
    LET part(i) == meaning[Parts[n][i]][e]
        instance(u) == meaning[Parts[n][1]][Binding(n, e, u)]
        found == TreesFound(Search[n], e.tree, e.scope)
        outcome(c) == Outcome(n, Values(c, e.locals))
    IN  CASE Kind[n] = "expression" ->
                \A c \in Combinations(n, e.tree, e.scope) : outcome(c) = "true"
          [] Kind[n] = "comparison" ->
                \A c \in Combinations(n, e.tree, e.scope) : outcome(c) \in {"true", "raises"}
          [] Kind[n] = "and" -> \A i \in DOMAIN Parts[n] : part(i)
          [] Kind[n] = "or" -> \E i \in DOMAIN Parts[n] : part(i)
          [] Kind[n] = "implies" -> part(1) => part(2)
          [] Kind[n] = "all" -> \A u \in found : instance(u)
          [] Kind[n] = "any" -> \E u \in found : instance(u)

Meaning[n \in Constraint] == [e \in Environment |-> MeaningOf(n, e, Meaning)]

\* check() says of a tree what the constraint means, although quantifiers write into
\* their callers' dictionaries, lazy constraints stop early, and every constraint, nested
\* ones too, answers from its cache what it has answered before, possibly for another
\* tree.
CheckIsMeaning ==
    result # NoResult =>
        result.fitness.success = Meaning[result.node][In(individual, Empty, Empty)]

-------------------------------------------------------------------------------
(* The constraints of which check() says what they mean.  A quantifier leaves its       *)
(* binding in the dictionaries it shares, and the caches know trees by their hash: the   *)
(* names must be the quantifiers' own, and nothing else than the hash must matter.      *)

\* f maps the trees in t to those in u that look the same.
Isomorphism(f, t, u) ==
    /\ \A w, x \in Subtrees[t] : f[w] = f[x] => w = x
    /\ \A x \in Subtrees[u] : \E w \in Subtrees[t] : f[w] = x
    /\ f[t] = u
    /\ \A w \in Subtrees[t] :
        /\ Shape[f[w]] = Shape[w] /\ SymbolOf[f[w]] = SymbolOf[w]
        /\ Children[f[w]] = {f[x] : x \in Children[w]}
        /\ Subtrees[f[w]] = {f[x] : x \in Subtrees[w]}

\* The hash stands for the structure.  Sources of generated trees, which are searched
\* but not hashed, can break this.
HashIsStructure == \A t, u \in Tree :
    Shape[t] = Shape[u] => \E f \in [Subtrees[t] -> Subtrees[u]] : Isomorphism(f, t, u)

\* As many trees of every shape in the one as in the other.
Alike(some, others) ==
    \E f \in [some -> others] :
        /\ \A u, w \in some : f[u] = f[w] => u = w
        /\ \A w \in others : \E u \in some : f[u] = w
        /\ \A u \in some : Shape[f[u]] = Shape[u]

\* All values that an expression may be given.
Valuations == UNION {[S -> SUBSET Tree] : S \in SUBSET Name}

\* The Python code of n looks at these names only, and not at where in the tree it is.
DependsOnlyOn(n, names, valuations) ==
    \A v, w \in valuations :
        (\A x \in names : /\ x \in DOMAIN v <=> x \in DOMAIN w
                          /\ x \in DOMAIN v => Alike(v[x], w[x]))
            => Outcome(n, v) = Outcome(n, w)

\* The symbols that a search looks up in the scope.
LookedUp(search) ==
    {search.base} \cup IF search.step = "none" THEN {} ELSE {search.attribute}

\* Which names a constraint looks up but does not bind, and which ones it binds, for
\* constraints none of which uses a name that another one has left behind.
Scoping ==
    {s \in [of : SUBSET Constraint, free : [Constraint -> SUBSET (Symbol \cup Name)],
             binds : [Constraint -> SUBSET (Symbol \cup Name)]] :
        \A n \in s.of :
            /\ \A i \in DOMAIN Parts[n] : /\ Parts[n][i] \in s.of
                                         /\ s.binds[Parts[n][i]] \subseteq s.binds[n]
            /\ n \in Leaf =>
                \A v \in DOMAIN Searches[n] : LookedUp(Searches[n][v]) \subseteq s.free[n]
            /\ n \in Quantifier =>
                LET body == Parts[n][1] IN
                /\ LookedUp(Search[n]) \cup (s.free[body] \ {Bound[n]}) \subseteq s.free[n]
                /\ Bound[n] \in s.binds[n]
                /\ s.binds[body] \cap s.free[body] \subseteq {Bound[n]}
            /\ n \notin Quantifier =>
                \A i \in DOMAIN Parts[n] :
                    /\ s.free[Parts[n][i]] \subseteq s.free[n]
                    /\ \A j \in DOMAIN Parts[n] :
                        i < j => s.binds[Parts[n][i]] \cap s.free[Parts[n][j]] = {}}

\* The Python code in these constraints looks at what is named in the scoping, as it is.
Legible(s) ==
    \A n \in s.of \cap Leaf :
        DependsOnlyOn(n, DOMAIN Searches[n] \cup s.free[n], Valuations)
===============================================================================
