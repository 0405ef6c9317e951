--------------------------- MODULE DerivationTree ---------------------------
(***************************************************************************)
(* The objects of class DerivationTree (language/tree.py): every node      *)
(* holds its children, its parent, and two values derived from what is     *)
(* below it, the cached hash and the size.  Nodes are mutable and shared,  *)
(* so each mutator has to bring the derived values of everything above up  *)
(* to date (invalidate_hash), and each must keep the two directions of the *)
(* edges in agreement: paths, replacement and invalidation all go up       *)
(* through _parent, everything else goes down through _children.           *)
(*                                                                         *)
(* A method that calls itself on other nodes is a step per call: todo is   *)
(* the call stack, and a new method is called by the program only when it  *)
(* is empty (trees are used by one thread).                                *)
(*                                                                         *)
(* A label stands for the symbol of a node.  Senders and recipients, which *)
(* are set and hashed like it but not compared by replace() and append(),  *)
(* are left out.  Grammars are without generators: a node has no sources.  *)
(***************************************************************************)
EXTENDS Integers, Sequences, FiniteSets, Functions

CONSTANTS Node,       \* the objects there may ever be
          Label,      \* the symbols of nodes
          none,       \* None
          SliceLabel, \* the symbol Slice() of a SliceTree
          HookinPath, \* the paths at which packets are appended to a history
          MaxChildren \* bound on the lists of trees given to the constructor
                      \* and to set_children

ASSUME NodeAssumption == none \notin Node
ASSUME LabelAssumption == none \notin Label /\ SliceLabel \notin Label \cup {none}
ASSUME PathAssumption == HookinPath \subseteq Seq([label : Label, new : BOOLEAN])
ASSUME MaxAssumption == MaxChildren \in Nat

VARIABLES label,      \* _symbol; none before __init__
          children,   \* _children
          parent,     \* _parent
          readOnly,   \* read_only
          cache,      \* hash_cache: a hash is the tuple it is computed from
          size,       \* _size
          todo,       \* the calls that are still to be made
          call        \* the last method the program called, and its result

heap == <<label, children, parent, readOnly, cache, size>>
vars == <<heap, todo, call>>

-----------------------------------------------------------------------------
(* What the nodes look like.                                               *)

Live == {n \in Node : label[n] # none}

\* sum(child.size() for child in self._children) and the term before it.
Size(kids) == 1 + SumFunction([i \in DOMAIN kids |-> size[kids[i]]])

\* The tuple that __hash__ hashes, given the hashes of the children.
Hash(n) == <<label[n], [i \in DOMAIN children[n] |-> cache[children[n][i]]]>>

Kids(n) == Range(children[n])

Below(n) ==
  LET below[m \in Node] == {m} \cup UNION {below[c] : c \in Kids(m)}
  IN below[n]

Above(n) ==
  LET above[m \in Node] ==
        {m} \cup (IF parent[m] = none THEN {} ELSE above[parent[m]])
  IN above[n]

Top(n) == CHOOSE m \in Above(n) : parent[m] = none

\* A node that is nobody's child may become one: a new tree, or one that was
\* taken out of the children of what it still calls its parent.
Free(c) == \A n \in Node : c \notin Kids(n)

\* The value of a tree: what __tree__ returns.
Value(n) ==
  LET value[m \in Node] ==
        <<label[m], [i \in DOMAIN children[m] |-> value[children[m][i]]]>>
  IN value[n]

\* index_by_reference(parent.children, n); none if it is not there.  No node
\* is twice among the children of a node.
Index(n) ==
  LET at == {i \in DOMAIN children[parent[n]] : children[parent[n]][i] = n}
  IN IF at = {} THEN none ELSE CHOOSE i \in at : TRUE

-----------------------------------------------------------------------------
\* The program calls a method; before is how the trees are then.
NoCall == [op |-> "", args |-> <<>>, before |-> <<>>, result |-> none, raised |-> FALSE]
Call(op, args) ==
  call' = [NoCall EXCEPT !.op = op, !.args = args, !.before = children]

Idle == call.op = ""
Running(op) == todo # <<>> /\ Head(todo)[1] = op
Returning == ~Idle /\ todo = <<>>

Init ==
  /\ label = [n \in Node |-> none]
  /\ children = [n \in Node |-> <<>>]
  /\ parent = [n \in Node |-> none]
  /\ readOnly = [n \in Node |-> FALSE]
  /\ cache = [n \in Node |-> none]
  /\ size = [n \in Node |-> 1]
  /\ todo = <<>>
  /\ call = NoCall

\* set_children up to its last line: invalidate_hash(n) is called next.
AdoptKeepsParent(n, kids) ==
  /\ children' = [children EXCEPT ![n] = kids]
  /\ parent' = parent
Adopt(n, kids) ==
  /\ children' = [children EXCEPT ![n] = kids]
  /\ parent' = [m \in Node |-> IF m \in Range(kids) THEN n ELSE parent[m]]

\* add_child, likewise.
AddChild(n, c) == Adopt(n, Append(children[n], c))

Then(calls) == todo' = calls \o Tail(todo)
Invalidate(n) == <<"invalidate_hash", n>>

\* invalidate_hash: the hash is forgotten, the size computed anew from the
\* sizes of the children, and the parent, if there is one, does the same.
InvalidateStops ==
  /\ Running("invalidate_hash")
  /\ LET n == Head(todo)[2]
     IN /\ cache' = [cache EXCEPT ![n] = none]
        /\ size' = [size EXCEPT ![n] = Size(children[n])]
        /\ Then(IF parent[n] = none \/ cache[parent[n]] = none THEN <<>>
                ELSE <<Invalidate(parent[n])>>)
  /\ UNCHANGED <<label, children, parent, readOnly, call>>

InvalidateHash ==
  /\ Running("invalidate_hash")
  /\ LET n == Head(todo)[2]
     IN /\ cache' = [cache EXCEPT ![n] = none]
        /\ size' = [size EXCEPT ![n] = Size(children[n])]
        /\ Then(IF parent[n] = none THEN <<>> ELSE <<Invalidate(parent[n])>>)
  /\ UNCHANGED <<label, children, parent, readOnly, call>>

\* __hash__: the hashes of the children first, unless there is a cached one.
HashNode ==
  /\ Running("hash")
  /\ LET n == Head(todo)[2]
         missing == {i \in DOMAIN children[n] : cache[children[n][i]] = none}
     IN \/ /\ cache[n] # none
           /\ Then(<<>>)
           /\ UNCHANGED cache
        \/ /\ cache[n] = none
           /\ missing = {}
           /\ cache' = [cache EXCEPT ![n] = Hash(n)]
           /\ Then(<<>>)
        \/ /\ cache[n] = none
           /\ \E i \in missing :
                /\ \A j \in missing : i <= j
                /\ Then(<<<<"hash", children[n][i]>>, Head(todo)>>)
           /\ UNCHANGED cache
  /\ UNCHANGED <<label, children, parent, readOnly, size, call>>

-----------------------------------------------------------------------------
(* Constructor and mutators.                                               *)

\* DerivationTree(symbol, children): the children come from other trees that
\* are not used any more, or are trees of their own.
New(l, kids) ==
  /\ Idle
  /\ \A c \in Range(kids) : Free(c)
  /\ \E n \in Node \ Live :
       /\ label' = [label EXCEPT ![n] = l]
       /\ Adopt(n, kids)
       /\ todo' = <<Invalidate(n)>>
       /\ Call("new", <<n>>)
  /\ UNCHANGED <<readOnly, cache, size>>

\* The setter of symbol; those of sender and recipient do the same.
SetLabelToNone(n, l) ==
  /\ Idle
  /\ label' = [label EXCEPT ![n] = none]
  /\ todo' = <<Invalidate(n)>>
  /\ Call("label", <<n>>)
  /\ UNCHANGED <<children, parent, readOnly, cache, size>>

SetLabelKeepsHash(n, l) ==
  /\ Idle
  /\ label' = [label EXCEPT ![n] = l]
  /\ Call("label", <<n>>)
  /\ UNCHANGED <<children, parent, readOnly, cache, size, todo>>

SetLabel(n, l) ==
  /\ Idle
  /\ label' = [label EXCEPT ![n] = l]
  /\ todo' = <<Invalidate(n)>>
  /\ Call("label", <<n>>)
  /\ UNCHANGED <<children, parent, readOnly, cache, size>>

\* set_children, with children that n has already or that are free, and of
\* which n is not a part.
SetChildren(n, kids) ==
  /\ Idle
  /\ \A c \in Range(kids) : c \in Kids(n) \/ (Free(c) /\ n \notin Below(c))
  /\ Adopt(n, kids)
  /\ todo' = <<Invalidate(n)>>
  /\ Call("set_children", <<n>>)
  /\ UNCHANGED <<label, readOnly, cache, size>>

\* __hash__, and so each comparison of trees.
HashTree(n) ==
  /\ Idle
  /\ todo' = <<<<"hash", n>>>>
  /\ Call("hash", <<n>>)
  /\ UNCHANGED heap

\* set_all_read_only: n and everything below it.
SetAllReadOnly(n, value) ==
  /\ Idle
  /\ readOnly' = [m \in Node |-> IF m \in Below(n) THEN value ELSE readOnly[m]]
  /\ Call("read_only", <<n>>)
  /\ UNCHANGED <<label, children, parent, cache, size, todo>>

-----------------------------------------------------------------------------
(* Methods that change several nodes.                                      *)

Raise ==
  /\ todo' = <<>>
  /\ call' = [call EXCEPT !.raised = TRUE]

\* split_end(copy_tree=False): what comes after n is cut off.
SplitEnd(n) ==
  /\ Idle
  /\ todo' = <<<<"_split_end", n>>>>
  /\ Call("split_end", <<n>>)
  /\ UNCHANGED heap

\* prefix(copy_tree=False): n goes as well; it must have a parent.
Prefix(n) ==
  /\ Idle
  /\ Call("prefix", <<n>>)
  /\ todo' = <<<<"_split_end", n>>, <<"drop_last", n>>>>
  /\ UNCHANGED heap

\* keep_children
KeepBefore(n) == SubSeq(children[parent[n]], 1, Index(n) - 1)
Keep(n) == SubSeq(children[parent[n]], 1, Index(n))

\* _split_end: the children up to n are kept, once the parent is cut.
SplitEndStep ==
  /\ Running("_split_end")
  /\ LET n == Head(todo)[2]
         p == parent[n]
     IN \/ /\ p = none
           /\ Then(<<>>)
           /\ UNCHANGED call
        \/ /\ p # none
           /\ Index(n) = none
           /\ Raise
        \/ /\ p # none
           /\ Index(n) # none
           /\ Then(<<<<"_split_end", p>>,
                     <<"set_children", p, Keep(n)>>>>)
           /\ UNCHANGED call
  /\ UNCHANGED heap

\* set_children, called for a node that is to keep some of its children.
SetChildrenStep ==
  /\ Running("set_children")
  /\ LET n == Head(todo)[2]
     IN /\ Adopt(n, Head(todo)[3])
        /\ Then(<<Invalidate(n)>>)
  /\ UNCHANGED <<label, readOnly, cache, size, call>>

\* The end of prefix: the parent of the node loses its last child.
DropLastStep ==
  /\ Running("drop_last")
  /\ LET p == parent[Head(todo)[2]]
     IN \/ /\ p = none
           /\ Raise
        \/ /\ p # none
           /\ Then(<<<<"set_children", p,
                       SubSeq(children[p], 1, Len(children[p]) - 1)>>>>)
           /\ UNCHANGED call
  /\ UNCHANGED heap

\* append: a free tree is put at the end of the tree n, below the last nodes
\* that the path names.  A step of a path is a symbol and whether a new node
\* is made for it; below a new node, all are new.
AppendTree(n, path, tree) ==
  /\ Idle
  /\ Free(tree) /\ n \notin Below(tree)
  /\ \A i, j \in DOMAIN path : i < j /\ path[i].new => path[j].new
  /\ Cardinality({i \in DOMAIN path : path[i].new}) <= Cardinality(Node \ Live)
  /\ todo' = <<<<"append", n, path, tree>>>>
  /\ Call("append", <<n, path, tree>>)
  /\ UNCHANGED heap

EndsWith(kids, l) == kids # <<>> /\ label[kids[Len(kids)]] = l

AppendStep ==
  /\ Running("append")
  /\ LET n == Head(todo)[2]
         path == Head(todo)[3]
         tree == Head(todo)[4]
         kids == children[n]
     IN \/ /\ path = <<>>
           /\ AddChild(n, tree)
           /\ Then(<<Invalidate(n)>>)
           /\ UNCHANGED <<label, size, call>>
        \/ /\ path # <<>> /\ Head(path).new
           /\ \E u \in Node \ Live :
                /\ label' = [label EXCEPT ![u] = Head(path).label]
                /\ AddChild(n, u)
                /\ size' = [size EXCEPT ![u] = Size(<<>>)]
                /\ Then(<<Invalidate(n), <<"append", u, Tail(path), tree>>>>)
           /\ UNCHANGED call
        \/ /\ path # <<>> /\ ~Head(path).new
           /\ EndsWith(kids, Head(path).label)
           /\ Then(<<<<"append", kids[Len(kids)], Tail(path), tree>>>>)
           /\ UNCHANGED <<label, children, parent, size, call>>
        \/ /\ path # <<>> /\ ~Head(path).new
           /\ ~EndsWith(kids, Head(path).label)
           /\ Raise
           /\ UNCHANGED <<label, children, parent, size>>
  /\ UNCHANGED <<readOnly, cache>>

-----------------------------------------------------------------------------
(* Slices, copies and replacement.                                         *)

\* __getitem__ with a slice: a SliceTree is made of the children.
GetItem(n, i, j) ==
  /\ Idle
  /\ \E u \in Node \ Live :
       /\ label' = [label EXCEPT ![u] = SliceLabel]
       /\ Adopt(u, SubSeq(children[n], i, j))
       /\ todo' = <<Invalidate(u)>>
       /\ Call("getitem", <<u>>)
  /\ UNCHANGED <<readOnly, cache, size>>

\* What deepcopy comes to: n and what is below it, and with the parent the
\* whole tree that n is in.
Reached(n, copyParent) ==
  {m \in Node :
     \A S \in SUBSET Node :
       /\ n \in S
       /\ \A s \in S : Kids(s) \subseteq S
       /\ \A s \in S : (s # n \/ copyParent) /\ parent[s] # none => parent[s] \in S
       => m \in S}

\* deepcopy: as is a function from the nodes to new objects.  A copy of a
\* child gets its parent when the children of that one are set, and what a
\* slice made of the child is of no account then.
Deepcopy(n, copyParent) ==
  /\ Idle
  /\ \E as \in Injection(Reached(n, copyParent), Node \ Live) :
       LET of == AntiFunction(as)
           copies == Range(as)
           holders(m) == {h \in DOMAIN as : of[m] \in Kids(h)}
           up(m) == IF holders(m) = {} THEN parent[of[m]]
                    ELSE CHOOSE h \in holders(m) :
                           \A g \in holders(m) :
                             label[h] = SliceLabel => label[g] = SliceLabel
       IN /\ label' = [m \in Node |-> IF m \in copies THEN label[of[m]] ELSE label[m]]
          /\ children' = [m \in Node |->
               IF m \in copies
               THEN [i \in DOMAIN children[of[m]] |-> as[children[of[m]][i]]]
               ELSE children[m]]
          /\ parent' = [m \in Node |->
               IF m \notin copies THEN parent[m]
               ELSE IF up(m) \in DOMAIN as THEN as[up(m)] ELSE none]
          /\ readOnly' = [m \in Node |->
               IF m \in copies THEN readOnly[of[m]] ELSE readOnly[m]]
          /\ \E sizes \in [copies -> 1 .. Cardinality(copies)] :
               /\ size' = [m \in Node |-> IF m \in copies THEN sizes[m] ELSE size[m]]
               /\ \A m \in copies :
                    sizes[m] = 1 + SumFunction([i \in DOMAIN children[of[m]] |->
                                                  sizes[as[children[of[m]][i]]]])
          /\ Call("deepcopy", <<n, as[n]>>)
  /\ UNCHANGED <<cache, todo>>

PathFromNode(n) ==
  LET path[m \in Node] == IF parent[m] = none THEN <<>>
                          ELSE <<Index(m)>> \o path[parent[m]]
  IN path[n]

\* get_choices_path: the indices on the way from the root to n.
Path(n) ==
  LET path[m \in Node] == IF parent[m] = none THEN <<>>
                          ELSE Append(path[parent[m]], Index(m))
  IN path[n]

\* It fails (StepException) if a node on the way is not its parent's child.
HasPath(n) == none \notin Range(Path(n))

\* Where replace_multiple puts the new subtree: a node at this path with the
\* same symbol, if it may be changed.
Replaces(m, path, at, new) == path = at /\ label[m] = label[new] /\ ~readOnly[m]

\* The value of the tree that replace returns; its nodes are all new.
Replacement(root, at, new) ==
  LET out[m \in Node] ==
        [path \in Seq(Nat) |->
           IF Replaces(m, path, at, new) THEN Value(new)
           ELSE <<label[m], [i \in DOMAIN children[m] |->
                               out[children[m][i]][Append(path, i)]]>>]
  IN out[root][Path(root)]

\* replace(grammar, tree_to_replace, new_subtree), for a part of the tree.
Replace(root, old, new) ==
  /\ Idle
  /\ old \in Below(root)
  /\ Call("replace", <<root, old, new>>)
  /\ todo' = <<<<"replace", root, old, new>>>>
  /\ UNCHANGED heap

\* replace_multiple, up to the first call for a tree.
ReplaceStart ==
  /\ Running("replace")
  /\ LET root == Head(todo)[2]
         old == Head(todo)[3]
         new == Head(todo)[4]
     IN \/ /\ ~HasPath(old) \/ ~HasPath(root)
           /\ Raise
        \/ /\ HasPath(old) /\ HasPath(root)
           /\ Then(<<<<"replace_multiple", root, Path(root), Path(old), new>>>>)
           /\ call' = [call EXCEPT !.result = Replacement(root, Path(old), new)]
  /\ UNCHANGED heap

\* replace_multiple for one tree: each child is compared with what it becomes,
\* and the constructor of the new tree invalidates the parent it is given,
\* which is the parent of the old one.
ReplaceStep ==
  /\ Running("replace_multiple")
  /\ LET m == Head(todo)[2]
         path == Head(todo)[3]
         at == Head(todo)[4]
         new == Head(todo)[5]
         visit(i) == <<"replace_multiple", children[m][i], Append(path, i), at, new>>
         above == IF parent[m] = none THEN <<>> ELSE <<Invalidate(parent[m])>>
     IN IF Replaces(m, path, at, new) THEN Then(above)
        ELSE Then([i \in 1 .. 2 * Len(children[m]) |->
                     IF i % 2 = 1 THEN visit((i + 1) \div 2)
                     ELSE <<"hash", children[m][i \div 2]>>] \o above)
  /\ UNCHANGED <<heap, call>>

-----------------------------------------------------------------------------
\* Lists of at most MaxChildren trees, as arguments.
Lists == {kids \in UNION {[1 .. k -> Live] : k \in 0 .. MaxChildren} :
            IsInjective(kids)}

\* The method returns.
Return ==
  /\ Returning
  /\ call' = NoCall
  /\ UNCHANGED <<heap, todo>>

Next ==
  \/ \E l \in Label, kids \in Lists : New(l, kids)
  \/ \E n \in Live, l \in Label : SetLabel(n, l)
  \/ \E n \in Live, kids \in Lists : SetChildren(n, kids)
  \/ \E n \in Live : HashTree(n)
  \/ \E n \in Live, value \in BOOLEAN : SetAllReadOnly(n, value)
  \/ \E n \in Live : SplitEnd(n)
  \/ \E n \in Live : Prefix(n)
  \/ \E n, tree \in Live, path \in HookinPath : AppendTree(n, path, tree)
  \/ \E n \in Live, copyParent \in BOOLEAN : Deepcopy(n, copyParent)
  \/ \E root, old, new \in Live : Replace(root, old, new)
  \/ Return
  \/ InvalidateHash
  \/ HashNode
  \/ SetChildrenStep
  \/ SplitEndStep
  \/ DropLastStep
  \/ AppendStep
  \/ ReplaceStart
  \/ ReplaceStep

Spec == Init /\ [][Next]_vars

\* A program that uses slices <x>[i:j], as constraints may.
NextWithSlices ==
  \/ Next
  \/ \E n \in Live, i, j \in 1 .. Cardinality(Node) :
       i <= j /\ j <= Len(children[n]) /\ GetItem(n, i, j)

SpecWithSlices == Init /\ [][NextWithSlices]_vars

-----------------------------------------------------------------------------
(* Properties.                                                             *)

\* A method that has calls to make has not returned.
CallTypeOK ==
  /\ DOMAIN call = DOMAIN NoCall
  /\ Idle => todo = <<>>

\* Every variable has its type, and only objects that exist are referred to.
TypeOK ==
  /\ label \in [Node -> Label \cup {none, SliceLabel}]
  /\ children \in [Node -> Seq(Live)]
  /\ parent \in [Node -> Live \cup {none}]
  /\ readOnly \in [Node -> BOOLEAN]
  /\ DOMAIN cache = Node /\ DOMAIN size = Node
  /\ CallTypeOK
  /\ \A n \in Node \ Live : children[n] = <<>> /\ parent[n] = none /\ cache[n] = none

\* Between two calls, no cached hash is out of date: it is what __hash__ would
\* compute from the node and from the hashes of its children, which are cached
\* as well.  Equality of trees, and with it every cache of the constraints and
\* the duplicates of a population, relies on it.
HashIsCurrent ==
  todo = <<>> => \A n \in Live :
            cache[n] # none => /\ cache[n] = Hash(n)
                               /\ \A c \in Kids(n) : cache[c] # none

\* Between two calls, the size of each node is one more than that of its
\* children together.
SizeIsCurrent == todo = <<>> => \A n \in Live : size[n] = Size(children[n])

\* A node is the parent of each of its children: what goes up from a child,
\* such as a path or an invalidation, comes through the node that has it.
ParentsAgree == \A n \in Live : \A c \in Kids(n) : parent[c] = n

\* replace() returns the tree with exactly the given node, found by identity,
\* replaced by the new subtree, if the symbols agree and it may be changed.
ReplacesThatNode ==
  Returning /\ call.op = "replace" /\ ~call.raised =>
    LET root == call.args[1]
        old == call.args[2]
        new == call.args[3]
        want[m \in Node] ==
          IF m = old /\ label[m] = label[new] /\ ~readOnly[m] THEN Value(new)
          ELSE <<label[m], [i \in DOMAIN children[m] |-> want[children[m][i]]]>>
    IN call.result = want[root]

=============================================================================
