---------------------------- MODULE GrammarFuzzing -----------------------------
(***************************************************************************)
(* How trees are made from a grammar: prime() of language/grammar/         *)
(* grammar.py computes for every node how many nodes it takes to complete  *)
(* it, and the fuzz() methods of language/grammar/nodes use these numbers  *)
(* to stay within max_nodes.                                               *)
(*                                                                         *)
(* The methods call each other; stack holds the calls that have not        *)
(* returned, and an action is one call, or one round of a loop.  A call    *)
(* that is the last statement of another takes its place.                  *)
(*                                                                         *)
(* The tree only grows at its end, so it is a sequence, in preorder, of    *)
(* nodes that name their parents; below a node under construction is       *)
(* everything that comes after it.                                         *)
(*                                                                         *)
(* Left out: generators, senders and recipients, regular expressions (a    *)
(* terminal is one leaf), the settings that make ill-formed trees on       *)
(* purpose (all are off by default), and the calls that add repetitions to *)
(* a tree there is (override_...).                                         *)
(***************************************************************************)
EXTENDS GrammarRules, FiniteSets, Functions

CONSTANTS Use,             \* grammars and budgets, see UseType
          Terminal,        \* the literals
          MAX_REPETITIONS  \* the bound of * and +, which the search may raise

\* max_nodes is what Grammar.fuzz() is called with.
UseType(u) == GrammarType(u.grammar, Terminal) /\ u.max_nodes \in Int

ASSUME UseAssumption == \A u \in Use : UseType(u)
ASSUME MaxAssumption == MAX_REPETITIONS \in Nat \ {0}

VARIABLES use,        \* the grammar and max_nodes
          distance,   \* distance_to_completion of every node
          queue,      \* the local variable nodes of prime()
          iteration,  \* the field of that name, of every repetition
          stack,      \* the calls under way, the last one first
          tree,       \* what was made so far
          pc          \* "prime", "fuzz"

vars == <<use, distance, queue, iteration, stack, tree, pc>>

grammar == use.grammar
node == grammar.node
kids(n) == node[n].kids
body(n) == kids(n)[1]

-----------------------------------------------------------------------------
(* The distances.                                                          *)

Unknown == -1     \* float("inf")

\* min and max of a Repetition and its subclasses
IsRepetition(n) == node[n].type \in {"repetition", "star", "plus", "option"}
MinTimes(n) == CASE node[n].type = "repetition" -> node[n].min
                 [] node[n].type = "plus" -> 1
                 [] OTHER -> 0
MaxTimes(n) == CASE node[n].type = "repetition" -> node[n].max
                 [] node[n].type = "option" -> 1
                 [] OTHER -> MAX_REPETITIONS

InitialDistance(type) == CASE type = "terminal" -> 1
                           [] type \in {"star", "option"} -> 0
                           [] OTHER -> Unknown

Sum(ns, last) == SumFunction([i \in 1..last |-> distance[ns[i]]])

\* the nodes that visit() collects from the one at the top of a rule: what
\* controls the flow, after its children, and nonterminals, which end it
Collected(g, top) ==
  LET collected[n \in DOMAIN g.node] ==
        LET below[i \in 0..Len(g.node[n].kids)] ==
              IF i = 0 THEN << >> ELSE below[i - 1] \o collected[g.node[n].kids[i]]
        IN  CASE g.node[n].type = "terminal" -> << >>
              [] g.node[n].type = "non_terminal" -> <<n>>
              [] OTHER -> Append(below[Len(g.node[n].kids)], n)
  IN collected[top]

\* the nodes of all rules, in the order in which the rules were defined
AllCollected(g, order) ==
  LET upTo[i \in 0..Len(order)] ==
        IF i = 0 THEN << >> ELSE upTo[i - 1] \o Collected(g, g.rule[order[i]])
  IN upTo[Len(order)]

Orders(g) == Injection(1..Cardinality(DOMAIN g.rule), DOMAIN g.rule)

\* What prime() computes for a node, if it can be computed already.
\* Mutant: an alternative waits for all its children.
UpdatedWhenAllKnown(n) ==
  LET known == {distance[k] : k \in Range(kids(n))} \ {Unknown}
  IN  CASE node[n].type = "non_terminal" ->
             LET d == distance[grammar.rule[node[n].symbol[2]]]
             IN  IF d = Unknown THEN Unknown ELSE d + 1
        [] \E k \in Range(kids(n)) : distance[k] = Unknown -> Unknown
        [] node[n].type = "alternative" ->
             (CHOOSE d \in known : \A e \in known : d <= e) + 1
        [] node[n].type = "concatenation" -> Sum(kids(n), Len(kids(n))) + 1
        [] OTHER -> distance[body(n)] * MinTimes(n) + 1

Updated(n) ==
  LET known == {distance[k] : k \in Range(kids(n))} \ {Unknown}
  IN  CASE node[n].type = "non_terminal" ->
             LET d == distance[grammar.rule[node[n].symbol[2]]]
             IN  IF d = Unknown THEN Unknown ELSE d + 1
        [] node[n].type = "alternative" /\ known # {} ->
             (CHOOSE d \in known : \A e \in known : d <= e) + 1
        [] \E k \in Range(kids(n)) : distance[k] = Unknown -> Unknown
        [] node[n].type = "concatenation" -> Sum(kids(n), Len(kids(n))) + 1
        [] OTHER -> distance[body(n)] * MinTimes(n) + 1

Prime ==
  /\ pc = "prime"
  /\ queue # << >>
  /\ LET n == Head(queue)
     IN \/ /\ Updated(n) # Unknown
           /\ distance' = [distance EXCEPT ![n] = Updated(n)]
           /\ queue' = Tail(queue)
        \/ /\ Updated(n) = Unknown
           /\ queue' = Append(Tail(queue), n)
           /\ UNCHANGED distance
  /\ UNCHANGED <<use, iteration, stack, tree, pc>>

-----------------------------------------------------------------------------
(* The calls.                                                              *)

\* parent.size(), of a node under construction
Size(t, parent) == Len(t) - parent + 1

\* origins is origin_repetitions
TreeNode(symbol, parent) == [symbol |-> symbol, parent |-> parent, origins |-> << >>]

\* a call of fuzz(parent, grammar, max_nodes); size is prev_parent_size, rounds
\* counts the rounds of the loop, and the rest is of repetitions only
Call(t, n, parent, max_nodes) ==
  [node |-> n, parent |-> parent, max_nodes |-> max_nodes, size |-> Size(t, parent),
   rounds |-> 0, goal |-> -1, current |-> 0, reserved |-> distance[n]]

top == Head(stack)
Running(type) == pc = "fuzz" /\ stack # << >> /\ node[top.node].type = type
Return == stack' = Tail(stack)
BecomesCall(c) == stack' = <<c>> \o Tail(stack)

Init ==
  /\ use \in Use
  /\ distance = [n \in DOMAIN use.grammar.node |->
                   InitialDistance(use.grammar.node[n].type)]
  /\ \E order \in Orders(use.grammar) : queue = AllCollected(use.grammar, order)
  /\ iteration = [n \in DOMAIN use.grammar.node |-> 0]
  /\ stack = << >>
  /\ tree = << >>
  /\ pc = "prime"

\* Grammar.fuzz(): the nonterminal of the start symbol
Fuzz ==
  /\ pc = "prime"
  /\ queue = << >>
  /\ tree' = <<TreeNode(NonTerminal(grammar.start), 0)>>
  /\ stack' = <<Call(tree', grammar.rule[grammar.start], 1, use.max_nodes - 1)>>
  /\ pc' = "fuzz"
  /\ UNCHANGED <<use, distance, queue, iteration>>

FuzzTerminal ==
  /\ Running("terminal")
  /\ tree' = Append(tree, TreeNode(node[top.node].symbol, top.parent))
  /\ Return
  /\ UNCHANGED <<use, distance, queue, iteration, pc>>

FuzzNonTerminal ==
  /\ Running("non_terminal")
  /\ LET symbol == node[top.node].symbol
     IN /\ tree' = Append(tree, TreeNode(symbol, top.parent))
        /\ BecomesCall(Call(tree', grammar.rule[symbol[2]], Len(tree'), top.max_nodes - 1))
  /\ UNCHANGED <<use, distance, queue, iteration, pc>>

\* in_range_nodes
InRange(n, max_nodes) == {k \in Range(kids(n)) : distance[k] < max_nodes}
Nearest(n) == {k \in Range(kids(n)) : \A m \in Range(kids(n)) : distance[k] <= distance[m]}

FuzzAlternative ==
  /\ Running("alternative")
  /\ LET within == InRange(top.node, top.max_nodes)
     IN \/ \E k \in within : BecomesCall(Call(tree, k, top.parent, top.max_nodes))
        \/ /\ within = {}
           /\ \E k \in Nearest(top.node) : BecomesCall(Call(tree, k, top.parent, 0))
  /\ UNCHANGED <<use, distance, queue, iteration, tree, pc>>

\* What is left of max_nodes after the last round of a loop.
Left == top.max_nodes - (Size(tree, top.parent) - top.size)
NextRound == [top EXCEPT !.max_nodes = Left, !.size = Size(tree, top.parent),
                         !.rounds = @ + 1]

\* Two nodes are equal if they are the same, or stand for the same symbol.
Equal(m, n) ==
  m = n \/ (/\ node[m].type = node[n].type
            /\ node[m].type \in {"terminal", "non_terminal"}
            /\ node[m].symbol = node[n].symbol)

\* reserved_distance: what the rest of a concatenation needs, counted from the
\* first child that equals the i-th.
\* Mutant: nothing is reserved.
ReservedNothing(n, i) == 0
Reserved(n, i) ==
  LET ns == kids(n)
      first == CHOOSE j \in 1..i :
                 Equal(ns[j], ns[i]) /\ \A l \in 1..(j - 1) : ~Equal(ns[l], ns[i])
  IN  distance[n] - Sum(ns, first)

FuzzConcatenation ==
  /\ Running("concatenation")
  /\ LET i == top.rounds + 1
         k == kids(top.node)[i]
     IN \/ /\ i > Len(kids(top.node))
           /\ Return
        \/ /\ i <= Len(kids(top.node))
           /\ \/ /\ distance[k] >= Left
                 /\ stack' = <<Call(tree, k, top.parent, 0), NextRound>> \o Tail(stack)
              \/ /\ distance[k] < Left
                 /\ stack' = <<Call(tree, k, top.parent, Left - Reserved(top.node, i)),
                               NextRound>> \o Tail(stack)
  /\ UNCHANGED <<use, distance, queue, iteration, tree, pc>>

Repeating == pc = "fuzz" /\ stack # << >> /\ IsRepetition(top.node)

\* The beginning of Repetition.fuzz().
\* Mutant: calls of the same repetition are not told apart.
StartUncounted ==
  /\ Repeating
  /\ top.goal = -1
  /\ \E goal \in MinTimes(top.node)..MaxTimes(top.node) :
       BecomesCall([top EXCEPT !.goal = goal, !.current = iteration[top.node]])
  /\ UNCHANGED <<use, distance, queue, iteration, tree, pc>>

StartRepetition ==
  /\ Repeating
  /\ top.goal = -1
  /\ iteration' = [iteration EXCEPT ![top.node] = @ + 1]
  /\ \E goal \in MinTimes(top.node)..MaxTimes(top.node) :
       BecomesCall([top EXCEPT !.goal = goal, !.current = iteration'[top.node]])
  /\ UNCHANGED <<use, distance, queue, tree, pc>>

\* The children that the last round added are marked with it.
Marked ==
  [i \in DOMAIN tree |->
     IF tree[i].parent = top.parent /\ i >= top.parent + top.size
     THEN [tree[i] EXCEPT !.origins = <<<<top.node, top.current, top.rounds - 1>>>> \o @]
     ELSE tree[i]]

\* break: what is left does not suffice, and there are enough.
\* Mutant: it does not matter whether there are enough.
GivesUpEarly(n, rounds) == distance[body(n)] >= Left
GivesUp(n, rounds) == distance[body(n)] >= Left /\ rounds >= MinTimes(n)

\* A round of Repetition.fuzz(), and its end.
EndRepetition ==
  /\ Repeating
  /\ top.goal # -1
  /\ top.rounds = top.goal \/ GivesUp(top.node, top.rounds)
  /\ tree' = Marked
  /\ Return
  /\ UNCHANGED <<use, distance, queue, iteration, pc>>

FuzzRepetition ==
  /\ Repeating
  /\ top.rounds < top.goal
  /\ ~GivesUp(top.node, top.rounds)
  /\ tree' = Marked
  /\ LET k == body(top.node)
         rest == top.reserved - distance[k]
     IN \/ /\ distance[k] >= Left
           /\ stack' = <<Call(tree', k, top.parent, 0), NextRound>> \o Tail(stack)
        \/ /\ distance[k] < Left
           /\ stack' = <<Call(tree', k, top.parent, Left - rest),
                         [NextRound EXCEPT !.reserved = rest]>> \o Tail(stack)
  /\ UNCHANGED <<use, distance, queue, iteration, pc>>

Next ==
  \/ Prime
  \/ Fuzz
  \/ FuzzTerminal
  \/ FuzzNonTerminal
  \/ FuzzAlternative
  \/ FuzzConcatenation
  \/ StartRepetition
  \/ EndRepetition
  \/ FuzzRepetition

Spec == Init /\ [][Next]_vars

\* One thread does it all, without waiting for anybody.
FairSpec == Spec /\ WF_vars(Next)

-----------------------------------------------------------------------------
(* Properties.                                                             *)

Done == pc = "fuzz" /\ stack = << >>

\* A tree has no more than max_nodes nodes, unless the distance of the start
\* symbol says that no tree is that small: Grammar.fuzz(), and the docstring of
\* PopulationManager.refill_population() for max_nodes.
WithinBudget ==
  Done => \/ Len(tree) <= use.max_nodes
          \/ Len(tree) <= distance[grammar.rule[grammar.start]] + 1

\* The nodes that one call of a repetition has added, and no others, carry its
\* mark, with the rounds in order: RepetitionBoundsConstraint counts rounds and
\* inserts and deletes some by these marks.
RepetitionsAreMarked ==
  Done =>
    \A i, j \in DOMAIN tree :
      \A m \in Range(tree[i].origins), n \in Range(tree[j].origins) :
        m[1] = n[1] /\ m[2] = n[2] =>
          /\ tree[i].parent = tree[j].parent
          /\ i < j => m[3] <= n[3]
          /\ \A l \in i..j : tree[l].parent = tree[i].parent =>
               \E o \in Range(tree[l].origins) : o[1] = m[1] /\ o[2] = m[2]

\* A tree is made in the end: prime() finds all distances, however the rules
\* refer to each other, and the calls of fuzz() come to an end.
FuzzEnds == <>Done
================================================================================
