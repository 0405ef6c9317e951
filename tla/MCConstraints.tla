---------------------------- MODULE MCConstraints ----------------------------
(***************************************************************************)
(* Instances of Constraints for TLC.                                       *)
(*                                                                         *)
(* Two trees: A has a child x1 with the children a and b, and a child x2   *)
(* with the child a; B has a child x3 with the child b.  The two leaves a  *)
(* are equal but not the same.                                             *)
(***************************************************************************)
EXTENDS ConstraintMeaning

Nodes == {"A", "x1", "x1a", "x1b", "x2", "x2a", "B", "x3", "x3b"}
Roots == {"A", "B"}
Symbols == {"s", "x", "y", "E", "F"}    \* E and F occur in no tree
Names == {"p", "q", "v"}

ChildrenOf(t) == CASE t = "A" -> {"x1", "x2"} [] t = "x1" -> {"x1a", "x1b"}
                   [] t = "x2" -> {"x2a"} [] t = "B" -> {"x3"} [] t = "x3" -> {"x3b"}
                   [] OTHER -> {}
NodeChildren == [t \in Nodes |-> ChildrenOf(t)]
NodeSubtrees == [t \in Nodes |->
    {t} \cup ChildrenOf(t) \cup UNION {ChildrenOf(u) : u \in ChildrenOf(t)}]
NodeSymbol == [t \in Nodes |->
    CASE t \in Roots -> "s" [] t \in {"x1", "x2", "x3"} -> "x" [] OTHER -> "y"]
NodeShape == [t \in Nodes |-> CASE t \in {"x1a", "x2a"} -> "a" [] t \in {"x1b", "x3b"} -> "b"
                                [] OTHER -> t]

rule(star, base) == [star |-> star, base |-> base, step |-> "none", attribute |-> base]
dot(star, base, step, attribute) ==
    [star |-> star, base |-> base, step |-> step, attribute |-> attribute]

(* nested:   all(any(<F> == "a" for <F> in *<E>.<y>) for <E> in *<x>)                     *)
(* either:   f(<x>.<y>, *<x>) == 1 or all(any(g(v, <E>) for <E> in *<x>) for v in *<y>)   *)
(* implied:  <s>..<y> == "a" -> h(<y>) == 1, as the API builds it                         *)
(* both:     nested and implied                                                           *)
(* mixed:    nested or f(<y>) < 1                                                         *)
(* position: all(has_sibling(<E>) for <E> in *<y>), which looks at the parent of <E>      *)
Kinds == [nested |-> "all", within |-> "any", isA |-> "expression",
          either |-> "or", compared |-> "comparison", each |-> "all", some |-> "any",
          related |-> "expression", implied |-> "implies", allA |-> "expression",
          cannot |-> "comparison", both |-> "and", mixed |-> "or",
          less |-> "comparison", position |-> "all", sibling |-> "expression"]
PartsOf == [n \in DOMAIN Kinds |->
    CASE n = "nested" -> <<"within">> [] n = "within" -> <<"isA">>
      [] n = "either" -> <<"compared", "each">> [] n = "each" -> <<"some">>
      [] n = "some" -> <<"related">> [] n = "implied" -> <<"allA", "cannot">>
      [] n = "both" -> <<"nested", "implied">> [] n = "mixed" -> <<"nested", "less">>
      [] n = "position" -> <<"sibling">>
      [] OTHER -> <<>>]
BoundVariable == [nested |-> "E", within |-> "F", each |-> "v", some |-> "E", position |-> "E"]
RangeOver == [nested |-> rule(TRUE, "x"), within |-> dot(TRUE, "E", "child", "y"),
              each |-> rule(TRUE, "y"), some |-> rule(TRUE, "x"), position |-> rule(TRUE, "y")]
SearchedBy == [isA |-> [p |-> rule(FALSE, "F")],
               compared |-> [p |-> dot(FALSE, "x", "child", "y"), q |-> rule(TRUE, "x")],
               related |-> [p |-> rule(FALSE, "E")],
               allA |-> [p |-> dot(FALSE, "s", "descendant", "y")],
               cannot |-> [p |-> rule(FALSE, "y")],
               less |-> [p |-> rule(FALSE, "y")],
               sibling |-> [p |-> rule(FALSE, "E")]]

ShapeIn(values, v) == {NodeShape[t] : t \in values[v]}
truth(b) == IF b THEN "true" ELSE "false"

\* The names in an expression, all of which have to be there.
Reads(n) == DOMAIN SearchedBy[n] \cup IF n = "related" THEN {"v"} ELSE {}

\* What the expressions of the constraints above yield.
Value(n, values) ==
    CASE ~(Reads(n) \subseteq DOMAIN values) -> "raises"
      [] n = "isA" -> truth(ShapeIn(values, "p") = {"a"})
      [] n = "compared" -> IF ShapeIn(values, "p") = {"a"} THEN "raises"
                           ELSE truth(Cardinality(values["q"]) = 1)
      [] n = "related" -> truth(<<ShapeIn(values, "v"), ShapeIn(values, "p")>> \in
                                    {<<{"a"}, {"x2"}>>, <<{"b"}, {"x3"}>>})
      [] n = "allA" -> truth(ShapeIn(values, "p") = {"b"})
      [] n = "cannot" -> "raises"
      [] n = "less" -> IF ShapeIn(values, "p") = {"a"} THEN "incomparable" ELSE "true"
      [] n = "sibling" -> truth(values["p"] \subseteq {"x1a", "x1b"})

-------------------------------------------------------------------------------
\* The names of the constraints above; not those of position, which looks at
\* where in the tree it is.
NamesUsed == [
    of |-> Constraint \ {"position", "sibling"},
    free |-> [n \in Constraint |->
        CASE n = "isA" -> {"F"} [] n = "within" -> {"E", "y"}
          [] n \in {"nested", "compared", "each", "either", "mixed"} -> {"x", "y"}
          [] n = "related" -> {"E", "v"} [] n = "some" -> {"x", "v"}
          [] n \in {"allA", "implied"} -> {"s", "y"} [] n \in {"cannot", "less"} -> {"y"}
          [] n = "both" -> {"s", "x", "y"} [] OTHER -> {"E"}],
    binds |-> [n \in Constraint |->
        CASE n \in {"nested", "both", "mixed"} -> {"E", "F"} [] n = "within" -> {"F"}
          [] n \in {"each", "either"} -> {"v", "E"} [] n = "some" -> {"E"}
          [] OTHER -> {}]]

\* Values for the names an expression reads, and for the lack of them.
SomeTrees == {{}, {"x1a"}, {"x2a"}, {"x1b"}, {"x1"}, {"x1a", "x2a"}, {"x1a", "x1b"},
              {"x2a", "x3b"}, {"x1", "x2"}}
SomeValues(n) == UNION {[S -> SomeTrees] : S \in SUBSET Reads(n)}

\* The constraints of the run are those of which check() is proved to say what they mean.
ASSUME HashIsStructure /\ NamesUsed \in Scoping /\ Goal \ {"position"} \subseteq NamesUsed.of
ASSUME \A n \in NamesUsed.of \cap Leaf :
    DependsOnlyOn(n, DOMAIN Searches[n] \cup NamesUsed.free[n], SomeValues(n))
===============================================================================
