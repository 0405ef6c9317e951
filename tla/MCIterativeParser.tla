--------------------------- MODULE MCIterativeParser ---------------------------
(***************************************************************************)
(* Small grammars for TLC, and what their language is by the meaning of    *)
(* the operators of the specification language: the reference to compare   *)
(* the parser with.                                                        *)
(***************************************************************************)
EXTENDS IterativeParser, SequencesExt

CONSTANTS Selected,        \* what to parse, see Uses
          MaxLength        \* the words of the language up to this length are known

Node(type, kids) == [type |-> type, kids |-> kids, symbol |-> <<"none", 0, 0>>,
                     min |-> 0, max |-> 0]
T(name) == [Node("terminal", << >>) EXCEPT !.symbol = Literal(name)]
B(value) == [Node("terminal", << >>) EXCEPT !.symbol = Bit(value)]
N(name) == [Node("non_terminal", << >>) EXCEPT !.symbol = NonTerminal(name)]
Rep(body, min, max) == [Node("repetition", <<body>>) EXCEPT !.min = min, !.max = max]

A == 97
Z == 98
Texts == [a |-> <<A>>, b |-> <<Z>>, aa |-> <<A, A>>, ab |-> <<A, Z>>, aba |-> <<A, Z, A>>]
Chunks == {<<A>>, <<Z>>, <<A, Z>>}

Rule(start, node, rule) == [start |-> start, node |-> node, rule |-> rule]

\* <start> ::= <x>* "b"     <x> ::= "a" | "aa"
Ambiguous == Rule("start",
    <<Node("concatenation", <<2, 4>>), Node("star", <<3>>), N("x"), T("b"),
      Node("alternative", <<6, 7>>), T("a"), T("aa")>>, [start |-> 1, x |-> 5])

\* <start> ::= ("a" "b"?)+ "ab"?
Optionals == Rule("start",
    <<Node("concatenation", <<2, 7>>), Node("plus", <<3>>),
      Node("concatenation", <<4, 5>>), T("a"), Node("option", <<6>>), T("b"),
      Node("option", <<8>>), T("ab")>>, [start |-> 1])

\* <start> ::= <start> "a" | "aba" | "b"
LeftRecursive == Rule("start",
    <<Node("alternative", <<2, 5, 6>>), Node("concatenation", <<3, 4>>), N("start"),
      T("a"), T("aba"), T("b")>>, [start |-> 1])

\* <start> ::= "a"{2,3} "ab"{0,2} "b"{1}
Counted == Rule("start",
    <<Node("concatenation", <<2, 4, 6>>), Rep(3, 2, 3), T("a"), Rep(5, 0, 2), T("ab"),
      Rep(7, 1, 1), T("b")>>, [start |-> 1])

\* <start> ::= <x> <x> "b"     <x> ::= "a"?
EarlyEmpty == Rule("start",
    <<Node("concatenation", <<2, 2, 3>>), N("x"), T("b"), Node("option", <<5>>), T("a")>>,
    [start |-> 1, x |-> 4])

\* <start> ::= <x> <y> "b"     <x> ::= "a"?     <y> ::= <x>
LateEmpty == Rule("start",
    <<Node("concatenation", <<2, 3, 4>>), N("x"), N("y"), T("b"), Node("option", <<6>>),
      T("a"), N("x")>>, [start |-> 1, x |-> 5, y |-> 7])

\* <start> ::= 0 1 <b>{6} "b"?     <b> ::= 0 | 1
Bits == Rule("start",
    <<Node("concatenation", <<2, 3, 4, 6>>), B(0), B(1), Rep(5, 6, 6), N("b"),
      Node("option", <<7>>), T("b"), Node("alternative", <<2, 3>>)>>,
    [start |-> 1, b |-> 8])

\* <start> ::= 0 <b>{2}     <b> ::= 0 | 1
ThreeBits == Rule("start",
    <<Node("concatenation", <<2, 4>>), B(0), B(1), Rep(5, 2, 2), N("b"),
      Node("alternative", <<2, 3>>)>>, [start |-> 1, b |-> 6])

\* <start> ::= <x> "b"?     <x> ::= "aba" | "ab"
Long == Rule("start",
    <<Node("concatenation", <<2, 3>>), N("x"), Node("option", <<4>>), T("b"),
      Node("alternative", <<6, 7>>), T("aba"), T("ab")>>, [start |-> 1, x |-> 5])

Parsing(g, m, bit, length) ==
    [grammar |-> g, mode |-> m, bit |-> bit, length |-> length]
Named == [ambiguous |-> Parsing(Ambiguous, "COMPLETE", -1, 3),
          optionals |-> Parsing(Optionals, "COMPLETE", -1, 2),
          left |-> Parsing(LeftRecursive, "COMPLETE", -1, 3),
          counted |-> Parsing(Counted, "COMPLETE", -1, 3),
          early |-> Parsing(EarlyEmpty, "COMPLETE", -1, 3),
          late |-> Parsing(LateEmpty, "COMPLETE", -1, 1),
          bits |-> Parsing(Bits, "COMPLETE", -1, 2),
          three |-> Parsing(ThreeBits, "COMPLETE", 2, 1),
          ambiguousPrefix |-> Parsing(Ambiguous, "INCOMPLETE", -1, 2),
          countedPrefix |-> Parsing(Counted, "INCOMPLETE", -1, 2),
          earlyPrefix |-> Parsing(EarlyEmpty, "INCOMPLETE", -1, 2),
          longPrefix |-> Parsing(Long, "INCOMPLETE", -1, 3)]
Uses == {Named[name] : name \in Selected}

(***************************************************************************)
(* The reference: the ways, as sequences of trees, in which node n stands  *)
(* for columns i to j of the word.  A sequence is split with its right     *)
(* part first, so that left recursion comes to an end.                     *)
(***************************************************************************)
WordBit(word, k) == (word[k \div 8 + 1] \div (2 ^ (7 - (k % 8)))) % 2
Reads(word, i, j, w) ==
    j = i + 8 * Len(w) /\ i % 8 = 0 /\ SubSeq(word, i \div 8 + 1, j \div 8) = w

\* where a sequence may be split: between characters, and between the bits of the
\* first one if the grammar has bits (these grammars have them only there)
Cuts(g, i, j) ==
    LET bits == \E n \in DOMAIN g.node : g.node[n].symbol[1] = "bit"
    IN  {m \in i..j : (bits /\ m < 8) \/ m % 8 = 0}

RECURSIVE Forests(_, _, _, _, _), Sequence(_, _, _, _, _), Repeated(_, _, _, _, _, _, _)
Forests(g, word, n, i, j) ==
    LET node == g.node[n]
    IN  CASE node.type = "terminal" ->
               IF node.symbol[1] = "bit"
               THEN {<<Leaf(<<node.symbol[2]>>)>> :
                       k \in {l \in {i} : j = i + 1 /\ WordBit(word, l) = node.symbol[2]}}
               ELSE {<<Leaf(w)>> : w \in {v \in {LiteralText[node.symbol[2]]} :
                                            Reads(word, i, j, v)}}
          [] node.type = "non_terminal" ->
               {<<Tree(node.symbol, kids)>> :
                   kids \in Forests(g, word, g.rule[node.symbol[2]], i, j)}
          [] node.type = "alternative" ->
               UNION {Forests(g, word, node.kids[k], i, j) : k \in DOMAIN node.kids}
          [] node.type = "concatenation" -> Sequence(g, word, node.kids, i, j)
          [] node.type = "option" ->
               (IF i = j THEN {<< >>} ELSE {}) \cup Forests(g, word, node.kids[1], i, j)
          [] node.type = "star" -> Repeated(g, word, node.kids[1], 0, j - i, i, j)
          [] node.type = "plus" -> Repeated(g, word, node.kids[1], 1, j - i, i, j)
          [] node.type = "repetition" ->
               Repeated(g, word, node.kids[1], node.min, node.max, i, j)

Sequence(g, word, nodes, i, j) ==
    IF nodes = << >> THEN IF i = j THEN {<< >>} ELSE {}
    ELSE UNION {LET right == Sequence(g, word, Tail(nodes), m, j)
                IN  IF right = {} THEN {}
                    ELSE {l \o r : l \in Forests(g, word, nodes[1], i, m), r \in right} :
                m \in Cuts(g, i, j)}

Repeated(g, word, n, min, max, i, j) ==
    (IF i = j /\ min = 0 THEN {<< >>} ELSE {}) \cup
    (IF max = 0 THEN {}
     ELSE UNION {LET left == Forests(g, word, n, i, m)
                 IN  IF left = {} THEN {}
                     ELSE {l \o r : l \in left,
                             r \in Repeated(g, word, n, IF min = 0 THEN 0 ELSE min - 1,
                                            max - 1, m, j)} :
                 m \in Cuts(g, i, j)})

Parses(g, word, from) ==
    {Tree(NonTerminal(g.start), kids) :
        kids \in Forests(g, word, g.rule[g.start], from, 8 * Len(word))}

Words == UNION {[1..l -> {A, Z}] : l \in 1..MaxLength}
Language == {l \in {u.grammar : u \in Uses} \X Words : Parses(l[1], l[2], 0) # {}}

\* the texts that go on to a longer one of the language
Continued == UNION {{<<l[1], SubSeq(l[2], 1, n)>> : n \in 0..(Len(l[2]) - 1)} : l \in Language}

(***************************************************************************)
(* Parser.collapse(): the nodes that control the flow are taken out        *)
(***************************************************************************)
RECURSIVE Collapse(_)
Collapse(tree) ==
    LET kids == FlattenSeq([i \in DOMAIN tree.kids |-> Collapse(tree.kids[i])])
    IN  IF tree.symbol[1] = "node" THEN kids ELSE <<[tree EXCEPT !.kids = kids]>>

(***************************************************************************)
(* Properties                                                              *)
(***************************************************************************)
\* A generator that was exhausted has yielded the trees of the text, all of
\* them and nothing else, whatever the chunks the text came in: consume().
ForestIsExact ==
    pc = "idle" /\ text # << >> /\ mode = "COMPLETE" =>
        {Collapse(yielded[i][1])[1] : i \in DOMAIN yielded} = Parses(grammar, text, starter)

\* can_continue() is true exactly if some longer text is in the language: the
\* packet parser gives up a message, or waits for ever, otherwise.
ContinuesExactly ==
    pc \in {"idle", "yielded"} /\ starter = 0 =>
        (CanContinue <=> <<grammar, text>> \in Continued)

\* In INCOMPLETE mode there is a tree exactly if the text is a prefix of a word
\* of the language, and the leaves of each tree are the text.
RECURSIVE Leaves(_)
Leaves(tree) == tree.text \o FlattenSeq([i \in DOMAIN tree.kids |-> Leaves(tree.kids[i])])
PrefixIsParsed ==
    mode = "INCOMPLETE" =>
        /\ \A i \in DOMAIN yielded : Leaves(yielded[i][1]) = text
        /\ pc = "idle" /\ text # << >> =>
             (yielded # << >> <=> <<grammar, text>> \in Language \cup Continued)
================================================================================
