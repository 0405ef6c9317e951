-------------------------- MODULE MCDerivationTree --------------------------
(***************************************************************************)
(* Instances of DerivationTree for TLC.                                    *)
(***************************************************************************)
EXTENDS DerivationTree, SequencesExt, TLC

CONSTANTS a, b

MCHookinPath ==
  {<<>>} \cup [1 .. 1 -> [label : {a}, new : BOOLEAN]]
         \cup {<<[label |-> a, new |-> FALSE], [label |-> a, new |-> TRUE]>>}

Symmetry == Permutations(Node)

\* Bounds: read-only nodes occur only with at most three nodes in all, and
\* at most one node has another symbol than the rest.
Small ==
  /\ (\E n \in Node : readOnly[n]) => Cardinality(Live) <= 3
  /\ Cardinality({n \in Node : label[n] = b}) <= 1

\* flatten(): a node before its children, the children from left to right.
Flat(n, kids) ==
  LET flat[m \in Node] ==
        <<m>> \o FlattenSeq([i \in DOMAIN kids[m] |-> flat[kids[m][i]]])
  IN flat[n]

\* split_end() leaves of the tree just what comes before the node, in the
\* order of flatten(), and the node with what is below it; prefix() leaves the
\* former only.
SplitsAtNode ==
  Returning /\ call.op \in {"split_end", "prefix"} =>
    LET n == call.args[1]
        top == Top(n)
        was == Flat(top, call.before)
        at == SelectInSeq(was, LAMBDA m : m = n)
        keeps == IF call.op = "prefix" THEN at - 1
                 ELSE at - 1 + Len(Flat(n, call.before))
    IN Flat(top, children) = IF call.raised THEN was ELSE SubSeq(was, 1, keeps)

=============================================================================
