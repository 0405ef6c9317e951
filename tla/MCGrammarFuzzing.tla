--------------------------- MODULE MCGrammarFuzzing ----------------------------
(***************************************************************************)
(* Small grammars for TLC, and which trees are trees of a grammar.         *)
(***************************************************************************)
EXTENDS GrammarFuzzing

CONSTANTS Selected,    \* which grammars, see Named
          Budgets      \* values of max_nodes

Node(type, ns) == [type |-> type, kids |-> ns, symbol |-> <<"none", 0, 0>>,
                   min |-> 0, max |-> 0]
T(name) == [Node("terminal", << >>) EXCEPT !.symbol = Literal(name)]
N(name) == [Node("non_terminal", << >>) EXCEPT !.symbol = NonTerminal(name)]
Rep(ns, min, max) == [Node("repetition", <<ns>>) EXCEPT !.min = min, !.max = max]
Rule(start, nodes, rule) == [start |-> start, node |-> nodes, rule |-> rule]

Named == [
  \* <start> ::= <x> "b" <x>     <x> ::= "a" | <y> <x>     <y> ::= "a" "b"
  nested |-> Rule("start",
    <<Node("concatenation", <<2, 3, 4>>), N("x"), T("b"), N("x"),
      Node("alternative", <<6, 7>>), T("a"), Node("concatenation", <<8, 9>>), N("y"),
      N("x"), Node("concatenation", <<11, 12>>), T("a"), T("b")>>,
    [start |-> 1, x |-> 5, y |-> 10]),
  \* <start> ::= <x> <y>     <x> ::= <y> <y> | "a" "a" "b"
  \* <y> ::= "a" "b" "a" <x> | <z>     <z> ::= "a"
  late |-> Rule("start",
    <<Node("concatenation", <<2, 3>>), N("x"), N("y"),
      Node("alternative", <<5, 8>>), Node("concatenation", <<6, 7>>), N("y"), N("y"),
      Node("concatenation", <<9, 10, 11>>), T("a"), T("a"), T("b"),
      Node("alternative", <<13, 18>>), Node("concatenation", <<14, 15, 16, 17>>), T("a"),
      T("b"), T("a"), N("x"), N("z"), T("a")>>,
    [start |-> 1, x |-> 4, y |-> 12, z |-> 19]),
  \* <start> ::= ("a"{1,2} "b"?)+ <x>     <x> ::= ("a" | "b")* "a"
  repeated |-> Rule("start",
    <<Node("concatenation", <<2, 8>>), Node("plus", <<3>>),
      Node("concatenation", <<4, 6>>), Rep(5, 1, 2), T("a"), Node("option", <<7>>), T("b"),
      N("x"), Node("concatenation", <<10, 14>>), Node("star", <<11>>),
      Node("alternative", <<12, 13>>), T("a"), T("b"), T("a")>>,
    [start |-> 1, x |-> 9]),
  \* <start> ::= <x>{2,3} | <x>     <x> ::= <y>? "b"     <y> ::= "a"{2}
  counted |-> Rule("start",
    <<Node("alternative", <<2, 4>>), Rep(3, 2, 3), N("x"), N("x"),
      Node("concatenation", <<6, 8>>), Node("option", <<7>>), N("y"), T("b"),
      Rep(10, 2, 2), T("a")>>,
    [start |-> 1, x |-> 5, y |-> 9]),
  \* <start> ::= "a" <start>*
  recursive |-> Rule("start",
    <<Node("concatenation", <<2, 3>>), T("a"), Node("star", <<4>>), N("start")>>,
    [start |-> 1])]

Uses == {[grammar |-> Named[name], max_nodes |-> budget] :
           name \in Selected, budget \in Budgets}

(***************************************************************************)
(* The reference: the sequences of symbols that node n may stand for.      *)
(***************************************************************************)
RECURSIVE StandsFor(_, _), Splits(_, _), Repeats(_, _, _, _)
StandsFor(n, s) ==
  CASE node[n].type \in {"terminal", "non_terminal"} -> s = <<node[n].symbol>>
    [] node[n].type = "alternative" -> \E k \in Range(kids(n)) : StandsFor(k, s)
    [] node[n].type = "concatenation" -> Splits(kids(n), s)
    [] OTHER -> Repeats(body(n), MinTimes(n), MaxTimes(n), s)

Splits(ns, s) ==
  IF ns = << >> THEN s = << >>
  ELSE \E i \in 0..Len(s) : /\ StandsFor(Head(ns), SubSeq(s, 1, i))
                            /\ Splits(Tail(ns), SubSeq(s, i + 1, Len(s)))

Repeats(n, min, max, s) ==
  \/ s = << >> /\ min = 0
  \/ max > 0 /\ \E i \in 0..Len(s) :
       /\ StandsFor(n, SubSeq(s, 1, i))
       /\ Repeats(n, IF min = 0 THEN 0 ELSE min - 1, max - 1, SubSeq(s, i + 1, Len(s)))

ChildrenOf(p) ==
  LET isChild(c) == c[2] = p
      all == [i \in DOMAIN tree |-> <<tree[i].symbol, tree[i].parent>>]
      chosen == SelectSeq(all, isChild)
  IN  [i \in DOMAIN chosen |-> chosen[i][1]]

\* The finished tree is one of the grammar: the calls add what belongs to one
\* node at one place, in order, and as often as the bounds of repetitions say.
TreeIsDerivation ==
  Done =>
    /\ tree[1].symbol = NonTerminal(grammar.start)
    /\ \A i \in DOMAIN tree :
         IF IsTerminal(tree[i].symbol) THEN ChildrenOf(i) = << >>
         ELSE StandsFor(grammar.rule[tree[i].symbol[2]], ChildrenOf(i))
================================================================================
