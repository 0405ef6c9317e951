----------------------------- MODULE GrammarRules ------------------------------
(***************************************************************************)
(* How a grammar is turned into the context-free rules that the parser     *)
(* works on: the visit methods of                                          *)
(* language/grammar/parser/iterative_parser.py.                            *)
(*                                                                         *)
(* A grammar is a record: its start symbol, the nodes on the right-hand    *)
(* sides as a sequence, each naming its children by their index, and the   *)
(* node of every nonterminal.  A node that controls the flow becomes a     *)
(* nonterminal of its own, <__id>, that is seen in the tree until it is    *)
(* collapsed.  Repetitions need further, implicit nonterminals, <*i*>;     *)
(* a tree never shows these, see IterativeParser!Complete.                 *)
(*                                                                         *)
(* A symbol is a triple that begins with its kind.  Senders and recipients *)
(* of a nonterminal are left out, and so are bounds that are computed from *)
(* the tree (_context_rules).                                              *)
(***************************************************************************)
EXTENDS Integers, Sequences

\* NodeType, without the character sets
NodeType == {"terminal", "non_terminal", "alternative", "concatenation",
             "repetition", "star", "plus", "option"}

\* NonTerminal("<name>"), a literal, and a bit
NonTerminal(name) == <<"non_terminal", name, 0>>
Literal(name) == <<"literal", name, 0>>
Bit(value) == <<"bit", value, 0>>

\* NonTerminal(f"<__{node.id}>")
ControlFlow(n) == <<"node", n, 0>>

\* NonTerminal(f"<*{len(self._implicit_rules)}*>"): the i-th that node n needs
Implicit(n, i) == <<"implicit", n, i>>

ImplicitStart == <<"start", 0, 0>>

IsTerminal(symbol) == symbol[1] \in {"literal", "bit"}

\* the nonterminals that a tree shows: _rules
InRules(symbol) == symbol[1] \in {"non_terminal", "node"}

\* the nonterminals whose children go to the one above: _implicit_rules
InImplicitRules(symbol) == symbol[1] = "implicit"

\* what visiting node n contributes to the rule it occurs in: one symbol
Visit(g, n) ==
    IF g.node[n].type \in {"terminal", "non_terminal"} THEN g.node[n].symbol
                                                        ELSE ControlFlow(n)

Child(g, n) == Visit(g, g.node[n].kids[1])

Times(count, symbol) == [i \in 1..count |-> symbol]

\* the implicit nonterminals of a Repetition: 0 for its body, i for "between 1
\* and i more", and one for the whole
Optional(g, n) == g.node[n].max - g.node[n].min
Whole(g, n) == Implicit(n, Optional(g, n) + 1)

RepetitionRules(g, n, i) ==
    LET min == g.node[n].min
        body == Implicit(n, 0)
    IN  CASE i = 0 -> {<<Child(g, n)>>}
          [] i \in 1..Optional(g, n) ->
                {<<body>>} \cup (IF i = 1 THEN {} ELSE {<<body, Implicit(n, i - 1)>>})
          [] OTHER ->
                {Times(min, body)} \cup
                (IF Optional(g, n) = 0 THEN {}
                 ELSE {Append(Times(min, body), Implicit(n, Optional(g, n)))})

\* set_rule() of a node that controls the flow
NodeRules(g, n) ==
    LET node == g.node[n]
    IN  CASE node.type = "alternative" -> {<<Visit(g, node.kids[i])>> : i \in DOMAIN node.kids}
          [] node.type = "concatenation" -> {[i \in DOMAIN node.kids |-> Visit(g, node.kids[i])]}
          [] node.type = "option" -> {<< >>, <<Child(g, n)>>}
          [] node.type \in {"star", "plus"} -> {<<Implicit(n, 0)>>}
          [] node.type = "repetition" -> {<<Whole(g, n)>>}
          [] OTHER -> {}

\* set_implicit_rule(): the rules behind <*i*>
ImplicitRules(g, n, i) ==
    LET body == Child(g, n)
        more == <<body, Implicit(n, 0)>>
    IN  CASE g.node[n].type = "star" /\ i = 0 -> {<< >>, more}
          [] g.node[n].type = "plus" /\ i = 0 -> {<<body>>, more}
          [] g.node[n].type = "repetition" -> RepetitionRules(g, n, i)
          [] OTHER -> {}

\* _rules and _implicit_rules, and the rule of <*start*>
Rules(g, symbol) ==
    CASE symbol[1] = "non_terminal" -> {<<Visit(g, g.rule[symbol[2]])>>}
      [] symbol[1] = "node" -> NodeRules(g, symbol[2])
      [] symbol[1] = "implicit" -> ImplicitRules(g, symbol[2], symbol[3])
      [] symbol[1] = "start" -> {<<NonTerminal(g.start)>>}
      [] OTHER -> {}

\* the symbols a grammar may use, with these literals
IsSymbol(g, literals, s) ==
    /\ s = <<s[1], s[2], s[3]>>
    /\ CASE s[1] = "non_terminal" -> s[2] \in DOMAIN g.rule /\ s[3] = 0
         [] s[1] = "literal" -> s[2] \in literals /\ s[3] = 0
         [] s[1] = "bit" -> s[2] \in {0, 1} /\ s[3] = 0
         [] s[1] = "node" -> s[2] \in DOMAIN g.node /\ s[3] = 0
         [] s[1] = "implicit" -> s[2] \in DOMAIN g.node /\ s[3] \in Nat
         [] OTHER -> s = ImplicitStart

NodeIsTyped(g, n, literals) ==
    LET node == g.node[n]
    IN  /\ node.type \in NodeType
        /\ node.kids \in Seq(DOMAIN g.node)
        /\ node.min \in Nat /\ node.max \in Nat /\ node.min <= node.max
        /\ node.type = "terminal" =>
             /\ IsTerminal(node.symbol) /\ IsSymbol(g, literals, node.symbol)
        /\ node.type = "non_terminal" =>
             /\ node.symbol[1] = "non_terminal" /\ IsSymbol(g, literals, node.symbol)
        /\ node.type \in {"option", "star", "plus", "repetition"} => Len(node.kids) = 1

GrammarType(g, literals) ==
    /\ g.start \in DOMAIN g.rule
    /\ \A x \in DOMAIN g.rule : g.rule[x] \in DOMAIN g.node
    /\ \A n \in DOMAIN g.node : NodeIsTyped(g, n, literals)
================================================================================
