------------------------ MODULE DerivationTreeProofs ------------------------
(***************************************************************************)
(* For any number of nodes, and any calls that do not take slices, no      *)
(* cached hash and no size is out of date between two calls, and a node is *)
(* the parent of its children.                                             *)
(*                                                                         *)
(* In the middle of a call a node may have values that are out of date,    *)
(* but it is one node at most, and invalidate_hash is about to be called   *)
(* for it.  That is enough because what a node's values depend on, apart   *)
(* from itself, is what its children have, and it is their parent: when    *)
(* invalidate_hash has changed a node, the only one whose values it may    *)
(* have put out of date is the one that it calls itself for next.          *)
(*                                                                         *)
(* And replace, which looks for the node to replace by its path, replaces  *)
(* that node and no other.  For this no node may be twice among the        *)
(* children of another, and going up from a node must end: two nodes of a  *)
(* tree with the same path have parents with the same path, and so on up   *)
(* to the root.  That it ends going down as well follows, because there    *)
(* are finitely many nodes; only then do the recursive definitions of the  *)
(* tree that is wanted and of the one that is made have a solution.        *)
(***************************************************************************)
EXTENDS DerivationTree, FiniteSetTheorems, SequenceTheorems, TLAPS

ExactHash(n) ==
  cache[n] # none => /\ cache[n] = Hash(n)
                     /\ \A c \in Kids(n) : cache[c] # none
ExactSize(n) == size[n] = Size(children[n])

\* invalidate_hash is called next, for n.
InvalidatesNext(n) ==
  todo # <<>> /\ Head(todo)[1] = "invalidate_hash" /\ Head(todo)[2] = n

Exact == \A n \in Live : (ExactHash(n) /\ ExactSize(n)) \/ InvalidatesNext(n)

\* What is known of a call that is still to be made.
CallOK(c) ==
  /\ c[2] \in Live
  /\ c[1] = "set_children" => /\ c[3] \in Seq(Live)
                              /\ \A k \in Range(c[3]) : parent[k] = c[2]
  /\ c[1] = "append" => /\ c[3] \in Seq([label : Label, new : BOOLEAN])
                        /\ c[4] \in Live
                        /\ Free(c[4])

\* append is the last of the calls, and is alone but for invalidations.
TodoOK ==
  /\ todo \in Seq(Range(todo))
  /\ \A c \in Range(todo) : CallOK(c)
  /\ \A i \in 1 .. (Len(todo) - 1) : todo[i][1] # "append"
  /\ \/ \A c \in Range(todo) : c[1] # "append"
     \/ \A c \in Range(todo) : c[1] \in {"append", "invalidate_hash"}

IInv == TypeOK /\ ParentsAgree /\ TodoOK /\ Exact
-----------------------------------------------------------------------------
(* The call stack.                                                         *)

\* The calls that remain after the topmost one has been replaced.
LEMMA Replaced ==
  ASSUME NEW t, t \in Seq(Range(t)), t # <<>>,
         NEW calls, calls \in Seq(Range(calls)),
         NEW new, new = calls \o Tail(t)
  PROVE  /\ new \in Seq(Range(new))
         /\ Range(new) \subseteq Range(calls) \cup Range(t)
         /\ calls # <<>> => new # <<>> /\ Head(new) = calls[1]
<1> DEFINE S == Range(calls) \cup Range(t)
<1>1. calls \in Seq(S) /\ t \in Seq(S)
  <2>1. \A i \in 1 .. Len(calls) : calls[i] \in S
    BY DEF Range
  <2>2. \A i \in 1 .. Len(t) : t[i] \in S
    BY DEF Range
  <2> QED BY <2>1, <2>2, SeqDef
<1>2. Tail(t) \in Seq(S)
  BY <1>1
<1>3. new \in Seq(S) /\ Len(new) = Len(calls) + Len(Tail(t))
  BY <1>1, <1>2, ConcatProperties
<1>4. \A i \in 1 .. Len(new) : new[i] \in S
  BY <1>3, ElementOfSeq
<1>5. Range(new) \subseteq S
  BY <1>3, <1>4 DEF Range
<1>6. new \in Seq(Range(new))
  BY <1>3, SeqOfRange
<1>7. ASSUME calls # <<>> PROVE new # <<>> /\ Head(new) = calls[1]
  <2>1. Len(calls) \in Nat \ {0}
    BY <1>1, <1>7, EmptySeq
  <2>2. Len(new) # 0 /\ new[1] = calls[1]
    BY <1>1, <1>2, <1>3, <2>1, ConcatProperties
  <2> QED BY <1>3, <2>2
<1> QED BY <1>5, <1>6, <1>7

\* The topmost call is one of the calls.
LEMMA HeadInRange ==
  ASSUME NEW t, t \in Seq(Range(t)), t # <<>>
  PROVE  Head(t) \in Range(t)
<1>1. Len(t) \in Nat \ {0} /\ 1 \in DOMAIN t /\ Head(t) = t[1]
  BY EmptySeq
<1> QED BY <1>1 DEF Range

\* A step of a call that pushes other calls than append.
LEMMA Pushed ==
  ASSUME TodoOK, todo # <<>>,
         NEW calls, calls \in Seq(Range(calls)), Then(calls),
         \A c \in Range(todo) : CallOK(c) => CallOK(c)',
         \A c \in Range(calls) : CallOK(c)' /\ c[1] # "append",
         \/ \A c \in Range(todo) : c[1] # "append"
         \/ \A c \in Range(calls) : c[1] = "invalidate_hash"
  PROVE  /\ TodoOK'
         /\ calls # <<>> => todo' # <<>> /\ Head(todo') = calls[1]
<1>1. /\ todo' \in Seq(Range(todo'))
      /\ Range(todo') \subseteq Range(calls) \cup Range(todo)
      /\ calls # <<>> => todo' # <<>> /\ Head(todo') = calls[1]
  BY Replaced DEF TodoOK, Then
<1>2. \A c \in Range(todo') : CallOK(c)'
  BY <1>1 DEF TodoOK
<1>3. \A i \in 1 .. (Len(todo') - 1) : todo'[i][1] # "append"
  <2> DEFINE S == Range(calls) \cup Range(todo)
  <2>1. calls \in Seq(S) /\ todo \in Seq(S)
    BY SeqMonotonic DEF TodoOK
  <2>2. /\ Tail(todo) \in Seq(S) /\ Len(Tail(todo)) = Len(todo) - 1
        /\ \A i \in 1 .. Len(Tail(todo)) : Tail(todo)[i] = todo[i + 1]
    BY <2>1
  <2>3. /\ Len(todo') = Len(calls) + Len(todo) - 1
        /\ \A i \in 1 .. (Len(calls) + Len(todo) - 1) :
             todo'[i] = IF i <= Len(calls) THEN calls[i]
                        ELSE Tail(todo)[i - Len(calls)]
    BY <2>1, <2>2, ConcatProperties DEF Then
  <2>4. Len(calls) \in Nat /\ Len(todo) \in Nat
    BY <2>1
  <2> SUFFICES ASSUME NEW i \in 1 .. (Len(todo') - 1)
               PROVE  todo'[i][1] # "append"
    OBVIOUS
  <2>5. CASE i <= Len(calls)
    <3>1. todo'[i] = calls[i] /\ calls[i] \in Range(calls)
      BY <2>1, <2>3, <2>4, <2>5 DEF Range
    <3> QED BY <3>1
  <2>6. CASE ~(i <= Len(calls))
    <3>1. i - Len(calls) + 1 \in 1 .. (Len(todo) - 1)
      BY <2>3, <2>4, <2>6
    <3>2. todo'[i] = todo[i - Len(calls) + 1]
      BY <2>2, <2>3, <2>4, <2>6
    <3> QED BY <3>1, <3>2 DEF TodoOK
  <2> QED BY <2>5, <2>6
<1>4. \/ \A c \in Range(todo') : c[1] # "append"
      \/ \A c \in Range(todo') : c[1] \in {"append", "invalidate_hash"}
  BY <1>1 DEF TodoOK
<1> QED BY <1>1, <1>2, <1>3, <1>4 DEF TodoOK

\* The topmost call is done.
LEMMA Popped ==
  ASSUME TodoOK, todo # <<>>, Then(<<>>),
         \A c \in Range(todo) : CallOK(c) => CallOK(c)'
  PROVE  TodoOK'
<1>1. <<>> \in Seq(Range(<<>>)) /\ Range(<<>>) = {}
  BY DEF Range
<1> QED BY <1>1, Pushed

\* The topmost call is replaced by one call.
LEMMA OneCall ==
  ASSUME TodoOK, todo # <<>>, NEW c, Then(<<c>>),
         \A d \in Range(todo) : CallOK(d) => CallOK(d)',
         CallOK(c)', c[1] # "append",
         c[1] = "invalidate_hash" \/ \A d \in Range(todo) : d[1] # "append"
  PROVE  TodoOK' /\ todo' # <<>> /\ Head(todo') = c
<1>1. <<c>> \in Seq({c}) /\ <<c>> # <<>> /\ <<c>>[1] = c
  OBVIOUS
<1>2. <<c>> \in Seq(Range(<<c>>)) /\ Range(<<c>>) \subseteq {c}
  BY <1>1, SeqOfRange, RangeOfSeq
<1> QED BY <1>1, <1>2, Pushed

\* The topmost call is replaced by two calls.
LEMMA TwoCalls ==
  ASSUME TodoOK, todo # <<>>, NEW c, NEW d, Then(<<c, d>>),
         \A e \in Range(todo) : CallOK(e) => CallOK(e)',
         CallOK(c)', CallOK(d)', c[1] # "append", d[1] # "append",
         \A e \in Range(todo) : e[1] # "append"
  PROVE  TodoOK' /\ todo' # <<>> /\ Head(todo') = c
<1>1. <<c, d>> \in Seq({c, d}) /\ <<c, d>> # <<>> /\ <<c, d>>[1] = c
  OBVIOUS
<1>2. <<c, d>> \in Seq(Range(<<c, d>>)) /\ Range(<<c, d>>) \subseteq {c, d}
  BY <1>1, SeqOfRange, RangeOfSeq
<1> QED BY <1>1, <1>2, Pushed

\* A call other than append and invalidate_hash is not waited for by append.
LEMMA NoAppend ==
  ASSUME TodoOK, todo # <<>>, Head(todo)[1] \notin {"append", "invalidate_hash"}
  PROVE  \A c \in Range(todo) : c[1] # "append"
<1>1. Head(todo) \in Range(todo)
  BY HeadInRange DEF TodoOK
<1> QED BY <1>1 DEF TodoOK

\* A method of the program that starts with one call.
LEMMA Started ==
  ASSUME NEW c, todo' = <<c>>, CallOK(c)'
  PROVE  TodoOK' /\ todo' # <<>> /\ Head(todo') = c
<1>1. todo' \in Seq({c}) /\ Len(todo') = 1 /\ todo'[1] = c
  OBVIOUS
<1>2. Range(todo') = {c}
  <2>1. DOMAIN todo' = {1}
    BY <1>1
  <2> QED BY <1>1, <2>1 DEF Range
<1> QED BY <1>1, <1>2 DEF TodoOK

\* With no calls to be made.
LEMMA Nothing ==
  ASSUME todo' = <<>>
  PROVE  TodoOK'
<1>1. Range(<<>>) = {} /\ <<>> \in Seq({}) /\ Len(<<>>) = 0
  BY DEF Range
<1> QED BY <1>1 DEF TodoOK
-----------------------------------------------------------------------------
(* The edges and the derived values.                                       *)

\* set_children and add_child, given children that no other node has.
LEMMA Adopted ==
  ASSUME TypeOK, ParentsAgree,
         NEW n \in Live', NEW kids \in Seq(Live'), Adopt(n, kids),
         Live \subseteq Live',
         \A m \in Live : \A k \in Range(kids) : k \in Kids(m) => m = n
  PROVE  /\ children' \in [Node -> Seq(Live')]
         /\ parent' \in [Node -> Live' \cup {none}]
         /\ \A m \in Node \ Live' : children'[m] = <<>> /\ parent'[m] = none
         /\ \A m \in Live' \ {n} : children'[m] = children[m]
         /\ children'[n] = kids
         /\ ParentsAgree'
<1>1. n \in Node /\ Live' \subseteq Node
  BY DEF Live
<1>2. children \in [Node -> Seq(Live')]
  BY SeqMonotonic DEF TypeOK
<1>3. /\ children' \in [Node -> Seq(Live')]
      /\ children'[n] = kids
      /\ \A m \in Node \ {n} : children'[m] = children[m]
  BY <1>1, <1>2 DEF Adopt
<1>4. Range(kids) \subseteq Live'
  BY RangeOfSeq
<1>5. parent' \in [Node -> Live' \cup {none}]
  BY <1>1 DEF Adopt, TypeOK
<1>6. \A m \in Node \ Live' : children'[m] = <<>> /\ parent'[m] = none
  <2> SUFFICES ASSUME NEW m \in Node \ Live'
               PROVE  children'[m] = <<>> /\ parent'[m] = none
    OBVIOUS
  <2>1. m # n /\ m \notin Range(kids) /\ m \in Node \ Live
    BY <1>4
  <2> QED BY <1>3, <2>1 DEF TypeOK, Adopt
<1>7. ParentsAgree'
  <2> SUFFICES ASSUME NEW m \in Live', NEW c \in Range(children'[m])
               PROVE  parent'[c] = m
    BY DEF ParentsAgree, Kids
  <2>1. c \in Live'
    BY <1>1, <1>3, RangeOfSeq
  <2>2. CASE m = n
    BY <1>1, <1>3, <2>1, <2>2 DEF Adopt
  <2>3. CASE m # n
    <3>1. c \in Kids(m)
      BY <1>1, <1>3, <2>3 DEF Kids
    <3>2. m \in Live
      <4>1. CASE m \in Node \ Live
        <5>1. children[m] = <<>>
          BY <4>1 DEF TypeOK
        <5> QED BY <3>1, <5>1 DEF Kids, Range
      <4> QED BY <1>1, <4>1
    <3>3. c \notin Range(kids) /\ parent[c] = m
      BY <2>3, <3>1, <3>2 DEF ParentsAgree
    <3> QED BY <1>1, <2>1, <3>3 DEF Adopt
  <2> QED BY <2>2, <2>3
<1> QED BY <1>1, <1>3, <1>5, <1>6, <1>7

\* What is derived at m depends on m and on what its children have.
LEMMA Untouched ==
  ASSUME NEW m, ExactHash(m) /\ ExactSize(m),
         label'[m] = label[m], children'[m] = children[m],
         cache'[m] = cache[m], size'[m] = size[m],
         \A c \in Kids(m) : cache'[c] = cache[c] /\ size'[c] = size[c]
  PROVE  ExactHash(m)' /\ ExactSize(m)'
<1>1. \A i \in DOMAIN children[m] : children[m][i] \in Kids(m)
  BY DEF Kids, Range
<1>2. [i \in DOMAIN children'[m] |-> size'[children'[m][i]]]
        = [i \in DOMAIN children[m] |-> size[children[m][i]]]
  BY <1>1
<1>3. [i \in DOMAIN children'[m] |-> cache'[children'[m][i]]]
        = [i \in DOMAIN children[m] |-> cache[children[m][i]]]
  BY <1>1
<1>4. Kids(m)' = Kids(m)
  BY DEF Kids
<1> QED BY <1>2, <1>3, <1>4 DEF ExactHash, ExactSize, Hash, Size

\* A change of one node n leaves all the others as they are.
LEMMA OneChanged ==
  ASSUME TypeOK, Exact, \A m \in Node : ~InvalidatesNext(m),
         NEW n, Live' \subseteq Live \cup {n},
         \A m \in Live \ {n} : label'[m] = label[m] /\ children'[m] = children[m],
         \A m \in Live : cache'[m] = cache[m] /\ size'[m] = size[m]
  PROVE  \A m \in Live' \ {n} : ExactHash(m)' /\ ExactSize(m)'
<1> SUFFICES ASSUME NEW m \in Live' \ {n} PROVE ExactHash(m)' /\ ExactSize(m)'
  OBVIOUS
<1>1. m \in Live /\ m \in Node
  BY DEF Live
<1>2. ExactHash(m) /\ ExactSize(m)
  BY <1>1 DEF Exact
<1>3. Kids(m) \subseteq Live
  BY <1>1, RangeOfSeq DEF TypeOK, Kids
<1> QED BY <1>1, <1>2, <1>3, Untouched

\* A method that changes the node n and then calls invalidate_hash for it.
LEMMA Changed ==
  ASSUME TypeOK, Exact, todo = <<>> \/ Head(todo)[1] # "invalidate_hash",
         NEW n, Live' \subseteq Live \cup {n},
         \A m \in Live \ {n} : label'[m] = label[m] /\ children'[m] = children[m],
         \A m \in Live : cache'[m] = cache[m] /\ size'[m] = size[m],
         InvalidatesNext(n)'
  PROVE  Exact'
<1>1. \A m \in Live' \ {n} : ExactHash(m)' /\ ExactSize(m)'
  BY OneChanged DEF InvalidatesNext
<1> QED BY <1>1 DEF Exact

\* A step that changes no node.
LEMMA Unchanged ==
  ASSUME TypeOK, Exact, todo = <<>> \/ Head(todo)[1] # "invalidate_hash",
         UNCHANGED <<label, children, parent, cache, size>>
  PROVE  Exact' /\ ParentsAgree' = ParentsAgree /\ Live' = Live
         /\ \A c : CallOK(c)' = CallOK(c)
<1>1. Live' = Live
  BY DEF Live
<1>2. \A m \in Live : ExactHash(m) /\ ExactSize(m)
  BY DEF Exact, InvalidatesNext
<1>3. \A m \in Live : ExactHash(m)' /\ ExactSize(m)'
  BY <1>2 DEF ExactHash, ExactSize, Hash, Size, Kids
<1> QED BY <1>1, <1>3 DEF Exact, ParentsAgree, Kids, CallOK, Free
-----------------------------------------------------------------------------
(* The steps of a call.                                                    *)

LEMMA InvalidateStep ==
  ASSUME IInv, InvalidateHash
  PROVE  IInv'
<1>1. PICK n : n = Head(todo)[2]
  OBVIOUS
<1>2. PICK p : p = parent[n]
  OBVIOUS
<1>3. PICK up : up = IF p = none THEN <<>> ELSE <<Invalidate(p)>>
  OBVIOUS
<1>4. /\ todo # <<>> /\ Head(todo)[1] = "invalidate_hash"
      /\ cache' = [cache EXCEPT ![n] = none]
      /\ size' = [size EXCEPT ![n] = Size(children[n])]
      /\ Then(up)
      /\ UNCHANGED <<label, children, parent, readOnly, call>>
  BY <1>1, <1>2, <1>3 DEF InvalidateHash, Running
<1>5. Live' = Live /\ n \in Live /\ n \in Node
  BY <1>1, <1>4, HeadInRange DEF Live, IInv, TodoOK, CallOK
<1>6. p \in Live \cup {none}
  BY <1>2, <1>5 DEF IInv, TypeOK
<1>7. \A c : CallOK(c) => CallOK(c)'
  BY <1>4, <1>5 DEF CallOK, Free, Kids
<1>8. TodoOK' /\ (p # none => InvalidatesNext(p)')
  <2>1. CASE p = none
    BY <1>3, <1>4, <1>7, <2>1, Popped DEF IInv
  <2>2. CASE p # none
    <3>1. PICK c : c = Invalidate(p)
      OBVIOUS
    <3>2. up = <<c>> /\ c[1] = "invalidate_hash" /\ c[2] = p /\ p \in Live
      BY <1>3, <1>6, <2>2, <3>1 DEF Invalidate
    <3>3. CallOK(c)'
      BY <1>5, <3>2 DEF CallOK
    <3>4. Then(<<c>>)
      BY <1>4, <3>2
    <3>5. TodoOK' /\ todo' # <<>> /\ Head(todo') = c
      BY <1>4, <1>7, <3>2, <3>3, <3>4, OneCall DEF IInv
    <3> QED BY <3>2, <3>5 DEF InvalidatesNext
  <2> QED BY <2>1, <2>2
<1>9. Exact'
  <2> SUFFICES ASSUME NEW m \in Live, ~InvalidatesNext(m)'
               PROVE  ExactHash(m)' /\ ExactSize(m)'
    BY <1>5 DEF Exact
  <2>1. m \in Node /\ Kids(m) \subseteq Live
    BY RangeOfSeq DEF Kids, IInv, TypeOK, Live
  <2>2. n \notin Kids(m)
    BY <1>2, <1>5, <1>8, <2>1, NodeAssumption DEF IInv, ParentsAgree
  <2>3. \A k \in Kids(m) : cache'[k] = cache[k] /\ size'[k] = size[k]
    BY <1>4, <2>1, <2>2 DEF IInv, TypeOK, Live
  <2>4. CASE m # n
    <3>1. ExactHash(m) /\ ExactSize(m)
      BY <1>1, <1>4, <2>4 DEF IInv, Exact, InvalidatesNext
    <3>2. cache'[m] = cache[m] /\ size'[m] = size[m]
      BY <1>4, <2>1, <2>4 DEF IInv, TypeOK
    <3> QED BY <1>4, <2>3, <3>1, <3>2, Untouched
  <2>5. CASE m = n
    <3>1. cache'[m] = none /\ size'[m] = Size(children[m])
      BY <1>4, <2>1, <2>5 DEF IInv, TypeOK
    <3>2. [i \in DOMAIN children[m] |-> size'[children[m][i]]]
            = [i \in DOMAIN children[m] |-> size[children[m][i]]]
      BY <2>3 DEF Kids, Range
    <3> QED BY <1>4, <3>1, <3>2 DEF ExactHash, ExactSize, Size
  <2> QED BY <2>4, <2>5
<1>10. TypeOK'
  <2>1. CallTypeOK'
    BY <1>4 DEF IInv, TypeOK, CallTypeOK, Idle
  <2> QED BY <1>4, <1>5, <2>1 DEF IInv, TypeOK
<1>11. ParentsAgree'
  BY <1>4, <1>5 DEF IInv, ParentsAgree, Kids
<1> QED BY <1>8, <1>9, <1>10, <1>11 DEF IInv

\* A step that only changes which calls are to be made.
LEMMA OnlyCalls ==
  ASSUME IInv, todo = <<>> \/ Head(todo)[1] # "invalidate_hash",
         UNCHANGED heap, TodoOK', CallTypeOK'
  PROVE  IInv'
<1>1. Exact' /\ ParentsAgree' /\ Live' = Live
  BY Unchanged DEF IInv, heap
<1>2. TypeOK'
  BY <1>1 DEF IInv, TypeOK, heap
<1> QED BY <1>1, <1>2 DEF IInv

LEMMA HashStep ==
  ASSUME IInv, HashNode
  PROVE  IInv'
<1>1. PICK n : n = Head(todo)[2]
  OBVIOUS
<1>2. PICK missing : missing = {i \in DOMAIN children[n] : cache[children[n][i]] = none}
  OBVIOUS
<1>3. /\ todo # <<>> /\ Head(todo)[1] = "hash"
      /\ UNCHANGED <<label, children, parent, readOnly, size, call>>
  BY DEF HashNode, Running
<1>4. Live' = Live /\ n \in Live /\ n \in Node
  BY <1>1, <1>3, HeadInRange DEF Live, IInv, TodoOK, CallOK
<1>5. /\ \A c : CallOK(c) => CallOK(c)'
      /\ \A c \in Range(todo) : c[1] # "append"
  BY <1>3, <1>4, NoAppend DEF CallOK, Free, Kids, IInv
<1>6. CallTypeOK'
  BY <1>3 DEF IInv, TypeOK, CallTypeOK, Idle
<1>7. CASE cache[n] # none /\ Then(<<>>) /\ UNCHANGED cache
  <2>1. TodoOK'
    BY <1>3, <1>5, <1>7, Popped DEF IInv
  <2> QED BY <1>3, <1>6, <1>7, <2>1, OnlyCalls DEF heap
<1>8. CASE /\ cache[n] = none /\ missing = {}
           /\ cache' = [cache EXCEPT ![n] = Hash(n)]
           /\ Then(<<>>)
  <2>1. TodoOK'
    BY <1>3, <1>5, <1>8, Popped DEF IInv
  <2>2. \A c \in Kids(n) : cache[c] # none
    BY <1>2, <1>8 DEF Kids, Range
  <2>3. n \notin Kids(n)
    BY <1>8, <2>2
  <2>4. \A m \in Live : ExactHash(m) /\ ExactSize(m)
    BY <1>3 DEF IInv, Exact, InvalidatesNext
  <2>5. \A m \in Node : m # n => cache'[m] = cache[m]
    BY <1>8 DEF IInv, TypeOK
  <2>6. ASSUME NEW m \in Live PROVE ExactHash(m)' /\ ExactSize(m)'
    <3>1. m \in Node /\ Kids(m) \subseteq Node
      BY RangeOfSeq DEF Kids, IInv, TypeOK, Live
    <3>2. CASE m = n
      <4>1. cache'[n] = Hash(n)
        BY <1>4, <1>8 DEF IInv, TypeOK
      <4>2. \A c \in Kids(n) : cache'[c] = cache[c]
        BY <2>3, <2>5, <3>1, <3>2
      <4>3. [i \in DOMAIN children[n] |-> cache'[children[n][i]]]
              = [i \in DOMAIN children[n] |-> cache[children[n][i]]]
        BY <4>2 DEF Kids, Range
      <4>4. ExactHash(n)'
        BY <1>3, <2>2, <4>1, <4>2, <4>3 DEF ExactHash, Hash, Kids
      <4>5. ExactSize(n)'
        BY <1>3, <1>4, <2>4 DEF ExactSize, Size
      <4> QED BY <3>2, <4>4, <4>5
    <3>3. CASE m # n /\ cache[m] = none
      <4>1. cache'[m] = none
        BY <2>5, <3>1, <3>3
      <4>2. ExactSize(m)'
        BY <1>3, <2>4 DEF ExactSize, Size
      <4> QED BY <4>1, <4>2 DEF ExactHash
    <3>4. CASE m # n /\ cache[m] # none
      <4>1. n \notin Kids(m)
        BY <1>8, <2>4, <3>4 DEF ExactHash
      <4>2. \A c \in Kids(m) : cache'[c] = cache[c] /\ size'[c] = size[c]
        BY <1>3, <2>5, <3>1, <4>1
      <4>3. cache'[m] = cache[m] /\ size'[m] = size[m]
        BY <1>3, <2>5, <3>1, <3>4
      <4> QED BY <1>3, <2>4, <4>2, <4>3, Untouched
    <3> QED BY <3>2, <3>3, <3>4
  <2>7. Exact'
    BY <1>4, <2>6 DEF Exact
  <2>8. TypeOK'
    <3>1. DOMAIN cache' = Node
      BY <1>8 DEF IInv, TypeOK
    <3>2. \A m \in Node \ Live : cache'[m] = none
      BY <1>4, <2>5 DEF IInv, TypeOK
    <3> QED BY <1>3, <1>4, <1>6, <3>1, <3>2 DEF IInv, TypeOK
  <2>9. ParentsAgree'
    BY <1>3, <1>4 DEF IInv, ParentsAgree, Kids
  <2> QED BY <2>1, <2>7, <2>8, <2>9 DEF IInv
<1>9. CASE /\ cache[n] = none
           /\ \E i \in missing :
                /\ \A j \in missing : i <= j
                /\ Then(<<<<"hash", children[n][i]>>, Head(todo)>>)
           /\ UNCHANGED cache
  <2>1. PICK i \in missing : Then(<<<<"hash", children[n][i]>>, Head(todo)>>)
    BY <1>9
  <2>2. PICK c : c = <<"hash", children[n][i]>>
    OBVIOUS
  <2>3. PICK d : d = Head(todo)
    OBVIOUS
  <2>4. children[n][i] \in Live
    BY <1>2, <1>4 DEF IInv, TypeOK
  <2>5. c[1] = "hash" /\ CallOK(c)'
    BY <1>4, <2>2, <2>4 DEF CallOK
  <2>6. d[1] = "hash" /\ CallOK(d)'
    BY <1>1, <1>3, <1>4, <2>3 DEF CallOK
  <2>7. Then(<<c, d>>)
    BY <2>1, <2>2, <2>3
  <2>8. TodoOK'
    BY <1>3, <1>5, <2>5, <2>6, <2>7, TwoCalls DEF IInv
  <2> QED BY <1>3, <1>6, <1>9, <2>8, OnlyCalls DEF heap
<1> QED BY <1>1, <1>2, <1>7, <1>8, <1>9 DEF HashNode

\* A method fails: the calls that remain are dropped.
LEMMA Raised ==
  ASSUME IInv, todo # <<>>, Head(todo)[1] # "invalidate_hash",
         UNCHANGED heap, Raise
  PROVE  IInv'
<1>1. todo' = <<>>
  BY DEF Raise
<1>2. TodoOK'
  BY <1>1, Nothing
<1>3. CallTypeOK'
  BY <1>1 DEF Raise, IInv, TypeOK, CallTypeOK, NoCall
<1> QED BY <1>2, <1>3, OnlyCalls

\* The first of some children, which keep their parent.
LEMMA SomeChildren ==
  ASSUME TypeOK, ParentsAgree, NEW p \in Live, NEW k \in Int, k <= Len(children[p]),
         NEW kids, kids = SubSeq(children[p], 1, k)
  PROVE  kids \in Seq(Live) /\ \A c \in Range(kids) : parent[c] = p
<1>1. children[p] \in Seq(Live) /\ Len(children[p]) \in Nat
  BY DEF TypeOK, Live
<1>2. \A i \in 1 .. k : children[p][i] \in Kids(p)
  BY <1>1 DEF Kids, Range
<1>3. Kids(p) \subseteq Live
  BY <1>1, RangeOfSeq DEF Kids
<1>4. kids \in Seq(Kids(p))
  BY <1>2, SubSeqProperties
<1>5. Range(kids) \subseteq Kids(p) /\ kids \in Seq(Live)
  BY <1>3, <1>4, RangeOfSeq, SeqMonotonic
<1> QED BY <1>5 DEF ParentsAgree

LEMMA SplitStep ==
  ASSUME IInv, SplitEndStep
  PROVE  IInv'
<1>1. PICK n : n = Head(todo)[2]
  OBVIOUS
<1>2. PICK p : p = parent[n]
  OBVIOUS
<1>3. todo # <<>> /\ Head(todo)[1] = "_split_end" /\ UNCHANGED heap
  BY DEF SplitEndStep, Running
<1>4. n \in Live /\ n \in Node
  BY <1>1, <1>3, HeadInRange DEF Live, IInv, TodoOK, CallOK
<1>5. /\ \A c : CallOK(c) => CallOK(c)'
      /\ \A c \in Range(todo) : c[1] # "append"
      /\ Live' = Live
  BY <1>3, NoAppend, Unchanged DEF IInv, heap
<1>6. UNCHANGED call => CallTypeOK'
  BY <1>3 DEF IInv, TypeOK, CallTypeOK, Idle
<1>7. CASE p = none /\ Then(<<>>) /\ UNCHANGED call
  BY <1>3, <1>5, <1>6, <1>7, Popped, OnlyCalls DEF IInv
<1>8. CASE Raise
  BY <1>3, <1>8, Raised
<1>9. CASE /\ p # none /\ Index(n) # none
           /\ Then(<<<<"_split_end", p>>, <<"set_children", p, Keep(n)>>>>)
           /\ UNCHANGED call
  <2>1. PICK i : i = Index(n)
    OBVIOUS
  <2>2. p \in Live
    BY <1>2, <1>4, <1>9 DEF IInv, TypeOK
  <2>3. i \in DOMAIN children[p]
    BY <1>2, <1>9, <2>1 DEF Index
  <2>4. i \in Int /\ i <= Len(children[p])
    BY <2>2, <2>3 DEF IInv, TypeOK, Live
  <2>5. PICK kids : kids = Keep(n)
    OBVIOUS
  <2>6. kids \in Seq(Live) /\ \A c \in Range(kids) : parent[c] = p
    BY <1>2, <2>1, <2>2, <2>4, <2>5, SomeChildren DEF IInv, Keep
  <2>7. PICK c : c = <<"_split_end", p>>
    OBVIOUS
  <2>8. PICK d : d = <<"set_children", p, kids>>
    OBVIOUS
  <2>9. c[1] = "_split_end" /\ CallOK(c)
    BY <2>2, <2>7 DEF CallOK
  <2>10. d[1] = "set_children" /\ CallOK(d)
    BY <2>2, <2>6, <2>8 DEF CallOK
  <2>11. Then(<<c, d>>)
    BY <1>9, <2>5, <2>7, <2>8
  <2>12. TodoOK'
    BY <1>3, <1>5, <2>9, <2>10, <2>11, TwoCalls DEF IInv
  <2> QED BY <1>3, <1>6, <1>9, <2>12, OnlyCalls
<1> QED BY <1>1, <1>2, <1>7, <1>8, <1>9 DEF SplitEndStep

LEMMA DropStep ==
  ASSUME IInv, DropLastStep
  PROVE  IInv'
<1>1. PICK n : n = Head(todo)[2]
  OBVIOUS
<1>2. PICK p : p = parent[n]
  OBVIOUS
<1>3. todo # <<>> /\ Head(todo)[1] = "drop_last" /\ UNCHANGED heap
  BY DEF DropLastStep, Running
<1>4. n \in Live /\ n \in Node
  BY <1>1, <1>3, HeadInRange DEF Live, IInv, TodoOK, CallOK
<1>5. /\ \A c : CallOK(c) => CallOK(c)'
      /\ \A c \in Range(todo) : c[1] # "append"
  BY <1>3, NoAppend, Unchanged DEF IInv, heap
<1>6. UNCHANGED call => CallTypeOK'
  BY <1>3 DEF IInv, TypeOK, CallTypeOK, Idle
<1>7. CASE Raise
  BY <1>3, <1>7, Raised
<1>8. CASE /\ p # none
           /\ Then(<<<<"set_children", p, SubSeq(children[p], 1, Len(children[p]) - 1)>>>>)
           /\ UNCHANGED call
  <2>1. p \in Live
    BY <1>2, <1>4, <1>8 DEF IInv, TypeOK
  <2>2. PICK k : k = Len(children[p]) - 1
    OBVIOUS
  <2>3. k \in Int /\ k <= Len(children[p])
    BY <2>1, <2>2 DEF IInv, TypeOK, Live
  <2>4. PICK kids : kids = SubSeq(children[p], 1, k)
    OBVIOUS
  <2>5. kids \in Seq(Live) /\ \A c \in Range(kids) : parent[c] = p
    BY <2>1, <2>3, <2>4, SomeChildren DEF IInv
  <2>6. PICK d : d = <<"set_children", p, kids>>
    OBVIOUS
  <2>7. d[1] = "set_children" /\ CallOK(d)
    BY <2>1, <2>5, <2>6 DEF CallOK
  <2>8. Then(<<d>>)
    BY <1>8, <2>2, <2>4, <2>6
  <2>9. TodoOK'
    BY <1>3, <1>5, <2>7, <2>8, OneCall DEF IInv
  <2> QED BY <1>3, <1>6, <1>8, <2>9, OnlyCalls
<1> QED BY <1>1, <1>2, <1>7, <1>8 DEF DropLastStep

LEMMA SetStep ==
  ASSUME IInv, SetChildrenStep
  PROVE  IInv'
<1>1. PICK n : n = Head(todo)[2]
  OBVIOUS
<1>2. PICK kids : kids = Head(todo)[3]
  OBVIOUS
<1>3. PICK c : c = Invalidate(n)
  OBVIOUS
<1>4. /\ todo # <<>> /\ Head(todo)[1] = "set_children"
      /\ Adopt(n, kids)
      /\ Then(<<c>>)
      /\ UNCHANGED <<label, readOnly, cache, size, call>>
  BY <1>1, <1>2, <1>3 DEF SetChildrenStep, Running
<1>5. /\ n \in Live /\ n \in Node
      /\ kids \in Seq(Live) /\ \A k \in Range(kids) : parent[k] = n
  BY <1>1, <1>2, <1>4, HeadInRange DEF Live, IInv, TodoOK, CallOK
<1>6. Live' = Live
  BY <1>4 DEF Live
<1>7. /\ children' \in [Node -> Seq(Live')]
      /\ parent' \in [Node -> Live' \cup {none}]
      /\ \A m \in Node \ Live' : children'[m] = <<>> /\ parent'[m] = none
      /\ \A m \in Live' \ {n} : children'[m] = children[m]
      /\ ParentsAgree'
  BY <1>4, <1>5, <1>6, Adopted DEF IInv, ParentsAgree
<1>8. parent' = parent
  BY <1>4, <1>5 DEF Adopt, IInv, TypeOK
<1>9. \A d \in Range(todo) : d[1] # "append"
  BY <1>4, NoAppend DEF IInv
<1>10. \A d \in Range(todo) : CallOK(d) => CallOK(d)'
  BY <1>6, <1>8, <1>9 DEF CallOK
<1>11. c[1] = "invalidate_hash" /\ c[2] = n /\ CallOK(c)'
  BY <1>3, <1>5, <1>6 DEF Invalidate, CallOK
<1>12. TodoOK' /\ InvalidatesNext(n)'
  BY <1>4, <1>9, <1>10, <1>11, OneCall DEF IInv, InvalidatesNext
<1>13. Exact'
  BY <1>4, <1>6, <1>7, <1>12, Changed DEF IInv
<1>14. TypeOK'
  <2>1. CallTypeOK'
    BY <1>4 DEF IInv, TypeOK, CallTypeOK, Idle
  <2> QED BY <1>4, <1>6, <1>7, <2>1 DEF IInv, TypeOK
<1> QED BY <1>7, <1>12, <1>13, <1>14 DEF IInv
-----------------------------------------------------------------------------
(* append.                                                                 *)

\* append makes no call that another call waits for.
LEMMA AppendAlone ==
  ASSUME TodoOK, todo # <<>>, Head(todo)[1] = "append", NEW calls, Then(calls),
         calls \in Seq(Range(calls))
  PROVE  todo' = calls
<1>1. todo \in Seq(Range(todo)) /\ Len(todo) \in Nat \ {0} /\ todo[1] = Head(todo)
  BY EmptySeq DEF TodoOK
<1>2. Len(todo) = 1
  <2>1. \A i \in 1 .. (Len(todo) - 1) : todo[i][1] # "append"
    BY DEF TodoOK
  <2>2. todo[1][1] = "append"
    BY <1>1
  <2>3. ~(1 \in 1 .. (Len(todo) - 1))
    BY <2>1, <2>2
  <2>4. PICK k : k = Len(todo)
    OBVIOUS
  <2>5. k \in Nat \ {0} /\ ~(1 \in 1 .. (k - 1))
    BY <1>1, <2>3, <2>4
  <2>6. k = 1
    BY <2>5
  <2> QED BY <2>4, <2>6
<1>3. Tail(todo) = <<>>
  <2>1. Tail(todo) \in Seq(Range(todo)) /\ Len(Tail(todo)) = 0
    BY <1>1, <1>2
  <2> QED BY <2>1, EmptySeq
<1>4. calls \o <<>> = calls
  BY ConcatEmptySeq
<1> QED BY <1>3, <1>4 DEF Then

\* Two calls, of which only the second may be append.
LEMMA StartedTwo ==
  ASSUME NEW c, NEW d, todo' = <<c, d>>, CallOK(c)', CallOK(d)',
         c[1] # "append", c[1] = "invalidate_hash" \/ d[1] # "append"
  PROVE  TodoOK' /\ todo' # <<>> /\ Head(todo') = c
<1>1. todo' \in Seq({c, d}) /\ Len(todo') = 2 /\ todo'[1] = c /\ todo'[2] = d
  OBVIOUS
<1>2. Range(todo') = {c, d}
  <2>1. DOMAIN todo' = {1, 2}
    BY <1>1
  <2> QED BY <1>1, <2>1 DEF Range
<1> QED BY <1>1, <1>2 DEF TodoOK

\* add_child for a tree that is nobody's child.
LEMMA Added ==
  ASSUME TypeOK, ParentsAgree, Live \subseteq Live', NEW n \in Live,
         NEW c \in Live', Free(c), AddChild(n, c)
  PROVE  /\ children' \in [Node -> Seq(Live')]
         /\ parent' \in [Node -> Live' \cup {none}]
         /\ \A m \in Node \ Live' : children'[m] = <<>> /\ parent'[m] = none
         /\ \A m \in Live' \ {n} : children'[m] = children[m]
         /\ Range(children'[n]) = Kids(n) \cup {c}
         /\ ParentsAgree'
<1>1. n \in Node /\ children[n] \in Seq(Live)
  BY DEF TypeOK, Live
<1>2. PICK kids : kids = Append(children[n], c)
  OBVIOUS
<1>3. children[n] \in Seq(Live')
  BY <1>1, SeqMonotonic
<1>4. /\ kids \in Seq(Live') /\ Len(kids) = Len(children[n]) + 1
      /\ \A i \in 1 .. Len(children[n]) : kids[i] = children[n][i]
      /\ kids[Len(children[n]) + 1] = c
  BY <1>2, <1>3
<1>5. Len(children[n]) \in Nat /\ DOMAIN children[n] = 1 .. Len(children[n])
      /\ DOMAIN kids = 1 .. (Len(children[n]) + 1)
  BY <1>1, <1>4
<1>6. Range(kids) = Kids(n) \cup {c}
  <2>1. ASSUME NEW i \in DOMAIN kids PROVE kids[i] \in Kids(n) \cup {c}
    <3>1. CASE i \in 1 .. Len(children[n])
      BY <1>4, <1>5, <3>1 DEF Kids, Range
    <3>2. CASE i = Len(children[n]) + 1
      BY <1>4, <3>2
    <3> QED BY <1>5, <3>1, <3>2
  <2>2. ASSUME NEW i \in DOMAIN children[n] PROVE children[n][i] \in Range(kids)
    <3>1. i \in DOMAIN kids /\ kids[i] = children[n][i]
      BY <1>4, <1>5
    <3> QED BY <3>1 DEF Range
  <2>3. c \in Range(kids)
    <3>1. Len(children[n]) + 1 \in DOMAIN kids
      BY <1>5
    <3> QED BY <1>4, <3>1 DEF Range
  <2> QED BY <2>1, <2>2, <2>3 DEF Kids, Range
<1>7. \A m \in Live : \A k \in Range(kids) : k \in Kids(m) => m = n
  BY <1>1, <1>6 DEF ParentsAgree, Free, Live
<1>8. Adopt(n, kids)
  BY <1>2 DEF AddChild
<1> QED BY <1>4, <1>6, <1>7, <1>8, Adopted

LEMMA GrowStep ==
  ASSUME IInv, AppendStep
  PROVE  IInv'
<1>1. PICK n : n = Head(todo)[2]
  OBVIOUS
<1>2. PICK path : path = Head(todo)[3]
  OBVIOUS
<1>3. PICK tree : tree = Head(todo)[4]
  OBVIOUS
<1>4. PICK c : c = Invalidate(n)
  OBVIOUS
<1>5. todo # <<>> /\ Head(todo)[1] = "append" /\ UNCHANGED <<readOnly, cache>>
  BY DEF AppendStep, Running
<1>6. /\ n \in Live /\ n \in Node /\ tree \in Live /\ Free(tree)
      /\ path \in Seq([label : Label, new : BOOLEAN])
  BY <1>1, <1>2, <1>3, <1>5, HeadInRange DEF Live, IInv, TodoOK, CallOK
<1>7. UNCHANGED call => CallTypeOK'
  BY <1>5 DEF IInv, TypeOK, CallTypeOK, Idle
<1>8. c[1] = "invalidate_hash" /\ c[2] = n
  BY <1>4 DEF Invalidate
<1>9. CASE /\ AddChild(n, tree)
           /\ Then(<<c>>)
           /\ UNCHANGED <<label, size, call>>
  <2>1. Live' = Live
    BY <1>9 DEF Live
  <2>2. /\ children' \in [Node -> Seq(Live')]
        /\ parent' \in [Node -> Live' \cup {none}]
        /\ \A m \in Node \ Live' : children'[m] = <<>> /\ parent'[m] = none
        /\ \A m \in Live' \ {n} : children'[m] = children[m]
        /\ ParentsAgree'
    BY <1>6, <1>9, <2>1, Added DEF IInv
  <2>3. todo' = <<c>>
    <3>1. <<c>> \in Seq(Range(<<c>>))
      <4>1. <<c>> \in Seq({c})
        OBVIOUS
      <4> QED BY <4>1, SeqOfRange
    <3> QED BY <1>5, <1>9, <3>1, AppendAlone DEF IInv
  <2>4. CallOK(c)'
    BY <1>6, <1>8, <2>1 DEF CallOK
  <2>5. TodoOK' /\ InvalidatesNext(n)'
    BY <1>8, <2>3, <2>4, Started DEF InvalidatesNext
  <2>6. Exact'
    BY <1>5, <1>9, <2>1, <2>2, <2>5, Changed DEF IInv
  <2>7. TypeOK'
    BY <1>5, <1>7, <1>9, <2>1, <2>2 DEF IInv, TypeOK
  <2> QED BY <2>2, <2>5, <2>6, <2>7 DEF IInv
<1>10. ASSUME path # <<>>, NEW u \in Node \ Live,
              label' = [label EXCEPT ![u] = Head(path).label],
              AddChild(n, u),
              size' = [size EXCEPT ![u] = Size(<<>>)],
              Then(<<c, <<"append", u, Tail(path), tree>>>>),
              UNCHANGED call
       PROVE  IInv'
  <2>1. /\ Head(path) \in [label : Label, new : BOOLEAN]
        /\ Tail(path) \in Seq([label : Label, new : BOOLEAN])
    <3>1. path # <<>>
      BY <1>10
    <3> QED BY <1>6, <3>1, HeadTailProperties
  <2>2. Live' = Live \cup {u}
    BY <1>10, <2>1, LabelAssumption DEF Live, IInv, TypeOK
  <2>3. Free(u)
    BY <1>10, RangeOfSeq DEF Free, Kids, IInv, TypeOK
  <2>4. /\ children' \in [Node -> Seq(Live')]
        /\ parent' \in [Node -> Live' \cup {none}]
        /\ \A m \in Node \ Live' : children'[m] = <<>> /\ parent'[m] = none
        /\ \A m \in Live' \ {n} : children'[m] = children[m]
        /\ Range(children'[n]) = Kids(n) \cup {u}
        /\ ParentsAgree'
    BY <1>6, <1>10, <2>2, <2>3, Added DEF IInv
  <2>5. PICK d : d = <<"append", u, Tail(path), tree>>
    OBVIOUS
  <2>6. todo' = <<c, d>>
    <3>1. <<c, d>> \in Seq({c, d})
      OBVIOUS
    <3>2. <<c, d>> \in Seq(Range(<<c, d>>))
      BY <3>1, SeqOfRange
    <3>3. Then(<<c, d>>)
      BY <1>10, <2>5
    <3> QED BY <1>5, <3>2, <3>3, AppendAlone DEF IInv
  <2>7. Free(tree)'
    <3>1. ASSUME NEW m \in Node PROVE tree \notin Range(children'[m])
      <4>1. CASE m = n
        BY <1>6, <1>10, <2>4, <4>1 DEF Free
      <4>2. CASE m # n /\ m \in Live'
        BY <1>6, <2>4, <4>2 DEF Free, Kids
      <4>3. CASE m \in Node \ Live'
        BY <2>4, <4>3 DEF Range
      <4> QED BY <4>1, <4>2, <4>3
    <3> QED BY <3>1 DEF Free, Kids
  <2>8. CallOK(c)' /\ CallOK(d)'
    BY <1>6, <1>8, <2>1, <2>2, <2>5, <2>7 DEF CallOK
  <2>9. TodoOK' /\ InvalidatesNext(n)'
    BY <1>8, <2>6, <2>8, StartedTwo DEF InvalidatesNext
  <2>10. /\ \A m \in Live : label'[m] = label[m] /\ size'[m] = size[m]
         /\ size'[u] = Size(<<>>)
         /\ cache'[u] = none
         /\ children'[u] = <<>>
    BY <1>5, <1>6, <1>10, <2>2, <2>4 DEF IInv, TypeOK, Live
  <2>11. Exact'
    <3> SUFFICES ASSUME NEW m \in Live', m # n
                 PROVE  ExactHash(m)' /\ ExactSize(m)'
      BY <2>9 DEF Exact
    <3>1. CASE m = u
      <4>1. [i \in DOMAIN <<>> |-> size'[<<>>[i]]] = [i \in DOMAIN <<>> |-> size[<<>>[i]]]
        OBVIOUS
      <4> QED BY <2>10, <3>1, <4>1 DEF ExactHash, ExactSize, Size
    <3>2. CASE m \in Live
      <4>1. m \in Node /\ Kids(m) \subseteq Live
        BY <3>2, RangeOfSeq DEF Kids, IInv, TypeOK, Live
      <4>2. ExactHash(m) /\ ExactSize(m)
        BY <1>5, <3>2 DEF IInv, Exact, InvalidatesNext
      <4> QED BY <1>5, <2>4, <2>10, <3>2, <4>1, <4>2, Untouched
    <3> QED BY <2>2, <3>1, <3>2
  <2>12. TypeOK'
    <3>1. label' \in [Node -> Label \cup {none, SliceLabel}]
      BY <1>10, <2>1 DEF IInv, TypeOK
    <3>2. DOMAIN size' = Node
      BY <1>10 DEF IInv, TypeOK
    <3> QED BY <1>5, <1>7, <1>10, <2>2, <2>4, <3>1, <3>2 DEF IInv, TypeOK
  <2> QED BY <2>4, <2>9, <2>11, <2>12 DEF IInv
<1>11. CASE /\ path # <<>> /\ EndsWith(children[n], Head(path).label)
            /\ Then(<<<<"append", children[n][Len(children[n])], Tail(path), tree>>>>)
            /\ UNCHANGED <<label, children, parent, size, call>>
  <2>1. PICK k : k = children[n][Len(children[n])]
    OBVIOUS
  <2>2. PICK d : d = <<"append", k, Tail(path), tree>>
    OBVIOUS
  <2>3. k \in Live
    <3>1. children[n] \in Seq(Live) /\ children[n] # <<>>
      BY <1>6, <1>11 DEF EndsWith, IInv, TypeOK
    <3>2. Len(children[n]) \in 1 .. Len(children[n])
      BY <3>1, EmptySeq
    <3> QED BY <2>1, <3>1, <3>2
  <2>4. UNCHANGED heap
    BY <1>5, <1>11 DEF heap
  <2>5. CallOK(d)'
    <3>1. Live' = Live /\ CallOK(d)' = CallOK(d)
      BY <1>5, <1>11, Unchanged DEF IInv
    <3>2. Tail(path) \in Seq([label : Label, new : BOOLEAN])
      BY <1>6, <1>11
    <3> QED BY <1>6, <2>2, <2>3, <3>1, <3>2 DEF CallOK
  <2>6. todo' = <<d>>
    <3>1. <<d>> \in Seq(Range(<<d>>))
      <4>1. <<d>> \in Seq({d})
        OBVIOUS
      <4> QED BY <4>1, SeqOfRange
    <3>2. Then(<<d>>)
      BY <1>11, <2>1, <2>2
    <3> QED BY <1>5, <3>1, <3>2, AppendAlone DEF IInv
  <2>7. TodoOK'
    BY <2>5, <2>6, Started
  <2> QED BY <1>5, <1>7, <1>11, <2>4, <2>7, OnlyCalls
<1>12. CASE Raise /\ UNCHANGED <<label, children, parent, size>>
  <2>1. UNCHANGED heap
    BY <1>5, <1>12 DEF heap
  <2> QED BY <1>5, <1>12, <2>1, Raised
<1>13. AppendStep => \/ AddChild(n, tree) /\ Then(<<c>>) /\ UNCHANGED <<label, size, call>>
                     \/ /\ path # <<>>
                        /\ \E u \in Node \ Live :
                             /\ label' = [label EXCEPT ![u] = Head(path).label]
                             /\ AddChild(n, u)
                             /\ size' = [size EXCEPT ![u] = Size(<<>>)]
                             /\ Then(<<c, <<"append", u, Tail(path), tree>>>>)
                        /\ UNCHANGED call
                     \/ /\ path # <<>> /\ EndsWith(children[n], Head(path).label)
                        /\ Then(<<<<"append", children[n][Len(children[n])], Tail(path), tree>>>>)
                        /\ UNCHANGED <<label, children, parent, size, call>>
                     \/ Raise /\ UNCHANGED <<label, children, parent, size>>
  BY <1>1, <1>2, <1>3, <1>4 DEF AppendStep
<1> QED BY <1>9, <1>10, <1>11, <1>12, <1>13
-----------------------------------------------------------------------------
(* replace.                                                                *)

LEMMA ReplaceStartStep ==
  ASSUME IInv, ReplaceStart
  PROVE  IInv'
<1>1. PICK root : root = Head(todo)[2]
  OBVIOUS
<1>2. PICK old : old = Head(todo)[3]
  OBVIOUS
<1>3. PICK new : new = Head(todo)[4]
  OBVIOUS
<1>4. PICK d : d = <<"replace_multiple", root, Path(root), Path(old), new>>
  OBVIOUS
<1>5. todo # <<>> /\ Head(todo)[1] = "replace" /\ UNCHANGED heap
  BY DEF ReplaceStart, Running
<1>6. root \in Live
  BY <1>1, <1>5, HeadInRange DEF IInv, TodoOK, CallOK
<1>7. /\ \A c : CallOK(c) => CallOK(c)'
      /\ \A c \in Range(todo) : c[1] # "append"
  BY <1>5, NoAppend, Unchanged DEF IInv, heap
<1>8. CASE Raise
  BY <1>5, <1>8, Raised
<1>9. CASE Then(<<d>>) /\ call' = [call EXCEPT !.result = Replacement(root, Path(old), new)]
  <2>1. d[1] = "replace_multiple" /\ CallOK(d)
    BY <1>4, <1>6 DEF CallOK
  <2>2. TodoOK'
    BY <1>5, <1>7, <1>9, <2>1, OneCall DEF IInv
  <2>3. call.op # "" /\ DOMAIN call = DOMAIN NoCall
    BY <1>5 DEF IInv, TypeOK, CallTypeOK, Idle
  <2>4. "op" \in DOMAIN call
    BY <2>3 DEF NoCall
  <2>5. CallTypeOK'
    BY <1>9, <2>3, <2>4 DEF CallTypeOK, Idle
  <2> QED BY <1>5, <2>2, <2>5, OnlyCalls
<1> QED BY <1>1, <1>2, <1>3, <1>4, <1>8, <1>9 DEF ReplaceStart

\* The calls of which a replacement consists.
Comparing == {"replace_multiple", "hash", "invalidate_hash"}

LEMMA ReplaceOneStep ==
  ASSUME IInv, ReplaceStep
  PROVE  /\ IInv'
         /\ \E calls : /\ calls \in Seq(Range(calls)) /\ Then(calls)
                       /\ \A c \in Range(calls) : c[1] \in Comparing
<1>1. PICK m : m = Head(todo)[2]
  OBVIOUS
<1>2. PICK path : path = Head(todo)[3]
  OBVIOUS
<1>3. PICK at : at = Head(todo)[4]
  OBVIOUS
<1>4. PICK new : new = Head(todo)[5]
  OBVIOUS
<1>5. PICK above : above = IF parent[m] = none THEN <<>> ELSE <<Invalidate(parent[m])>>
  OBVIOUS
<1>6. PICK visits : visits = [i \in 1 .. 2 * Len(children[m]) |->
          IF i % 2 = 1
          THEN <<"replace_multiple", children[m][(i + 1) \div 2],
                 Append(path, (i + 1) \div 2), at, new>>
          ELSE <<"hash", children[m][i \div 2]>>]
  OBVIOUS
<1>7. todo # <<>> /\ Head(todo)[1] = "replace_multiple" /\ UNCHANGED <<heap, call>>
  BY DEF ReplaceStep, Running
<1>8. m \in Live /\ m \in Node
  BY <1>1, <1>7, HeadInRange DEF Live, IInv, TodoOK, CallOK
<1>9. /\ \A c : CallOK(c) => CallOK(c)'
      /\ \A c \in Range(todo) : c[1] # "append"
  BY <1>7, NoAppend, Unchanged DEF IInv, heap
<1> DEFINE Plain == {c \in Range(above) \cup Range(visits) :
                       c[1] \in Comparing /\ CallOK(c)}
<1>10. above \in Seq(Plain)
  <2>1. CASE parent[m] = none
    BY <1>5, <2>1
  <2>2. CASE parent[m] # none
    <3>1. PICK c : c = Invalidate(parent[m])
      OBVIOUS
    <3>2. c[1] \in Comparing /\ CallOK(c)
      BY <1>8, <2>2, <3>1 DEF Comparing, Invalidate, CallOK, IInv, TypeOK
    <3>3. above = <<c>>
      BY <1>5, <2>2, <3>1
    <3>4. c \in Range(above)
      BY <3>3, 1 \in DOMAIN <<c>> DEF Range
    <3>5. c \in Plain
      BY <3>2, <3>4
    <3> QED BY <3>3, <3>5
  <2> QED BY <2>1, <2>2
<1>11. visits \in Seq(Plain)
  <2>1. children[m] \in Seq(Live) /\ Len(children[m]) \in Nat
    BY <1>8 DEF IInv, TypeOK
  <2>2. PICK k : k = Len(children[m])
    OBVIOUS
  <2>3. DOMAIN visits = 1 .. 2 * k
    BY <1>6, <2>2
  <2>4. ASSUME NEW i \in 1 .. 2 * k
        PROVE  visits[i] \in Plain
    <3>1. visits[i] \in Range(visits)
      BY <2>3 DEF Range
    <3>2. visits[i] = IF i % 2 = 1
                      THEN <<"replace_multiple", children[m][(i + 1) \div 2],
                             Append(path, (i + 1) \div 2), at, new>>
                      ELSE <<"hash", children[m][i \div 2]>>
      BY <1>6, <2>2
    <3>3. CASE i % 2 = 1
      <4>1. (i + 1) \div 2 \in 1 .. k
        BY <2>1, <2>2, <3>3
      <4>2. children[m][(i + 1) \div 2] \in Live
        BY <2>1, <2>2, <4>1
      <4>3. visits[i][1] = "replace_multiple" /\ visits[i][2] \in Live
        BY <3>2, <3>3, <4>2
      <4> QED BY <3>1, <4>3 DEF CallOK, Comparing
    <3>4. CASE i % 2 # 1
      <4>1. i \div 2 \in 1 .. k
        BY <2>1, <2>2, <3>4
      <4>2. children[m][i \div 2] \in Live
        BY <2>1, <2>2, <4>1
      <4>3. visits[i][1] = "hash" /\ visits[i][2] \in Live
        BY <3>2, <3>4, <4>2
      <4> QED BY <3>1, <4>3 DEF CallOK, Comparing
    <3> QED BY <3>3, <3>4
  <2>5. 2 * k \in Nat
    BY <2>1, <2>2
  <2>6. visits \in [1 .. 2 * k -> Plain]
    <3> HIDE DEF Plain
    <3>1. visits = [i \in 1 .. 2 * k |-> visits[i]]
      BY <1>6, <2>2
    <3> QED BY <2>4, <3>1
  <2> HIDE DEF Plain
  <2> QED BY <2>5, <2>6, SeqDef
<1>12. ASSUME NEW calls \in Seq(Plain), Then(calls)
      PROVE  /\ IInv'
             /\ calls \in Seq(Range(calls)) /\ \A c \in Range(calls) : c[1] \in Comparing
  <2> HIDE DEF Plain
  <2>1. calls \in Seq(Range(calls)) /\ Range(calls) \subseteq Plain
    BY <1>12, SeqOfRange, RangeOfSeq
  <2>2. \A c \in Range(calls) : CallOK(c)' /\ c[1] \in Comparing
    <3> USE DEF Plain
    <3> QED BY <1>9, <2>1
  <2>3. \A c \in Range(calls) : c[1] # "append"
    BY <2>2 DEF Comparing
  <2>4. TodoOK'
    BY <1>7, <1>9, <1>12, <2>1, <2>2, <2>3, Pushed DEF IInv
  <2>5. CallTypeOK'
    BY <1>7 DEF IInv, TypeOK, CallTypeOK, Idle
  <2> QED BY <1>7, <2>1, <2>2, <2>4, <2>5, OnlyCalls
<1> HIDE DEF Plain
<1>13. visits \o above \in Seq(Plain)
  BY <1>10, <1>11, ConcatProperties
<1>14. Then(above) \/ Then(visits \o above)
  BY <1>1, <1>2, <1>3, <1>4, <1>5, <1>6 DEF ReplaceStep
<1> QED BY <1>10, <1>12, <1>13, <1>14
-----------------------------------------------------------------------------
(* The methods, as the program calls them.                                 *)

LEMMA Called ==
  ASSUME NEW op, NEW args, op # "", Call(op, args)
  PROVE  CallTypeOK'
BY DEF Call, CallTypeOK, Idle, NoCall

LEMMA NothingToDo ==
  ASSUME IInv, Idle
  PROVE  todo = <<>>
BY DEF IInv, TypeOK, CallTypeOK

LEMMA ListsOfTrees ==
  ASSUME NEW kids \in Lists
  PROVE  kids \in Seq(Live)
<1>1. PICK k \in 0 .. MaxChildren : kids \in [1 .. k -> Live]
  BY DEF Lists
<1>2. k \in Nat
  BY MaxAssumption
<1> QED BY <1>1, <1>2, SeqDef

LEMMA ReturnStep ==
  ASSUME IInv, Return
  PROVE  IInv'
<1>1. todo = <<>> /\ todo' = <<>> /\ UNCHANGED heap /\ call' = NoCall
  BY DEF Return, Returning
<1>2. TodoOK' /\ CallTypeOK'
  BY <1>1, Nothing DEF CallTypeOK
<1> QED BY <1>1, <1>2, OnlyCalls

LEMMA HashTreeStep ==
  ASSUME IInv, NEW n \in Live, HashTree(n)
  PROVE  IInv'
<1>1. PICK c : c = <<"hash", n>>
  OBVIOUS
<1>2. todo = <<>> /\ todo' = <<c>> /\ UNCHANGED heap /\ CallTypeOK'
  BY <1>1, Called, NothingToDo DEF HashTree
<1>3. CallOK(c)'
  BY <1>1, <1>2, Unchanged DEF CallOK, IInv, heap
<1> QED BY <1>2, <1>3, Started, OnlyCalls

LEMMA SplitEndCall ==
  ASSUME IInv, NEW n \in Live, SplitEnd(n)
  PROVE  IInv'
<1>1. PICK c : c = <<"_split_end", n>>
  OBVIOUS
<1>2. todo = <<>> /\ todo' = <<c>> /\ UNCHANGED heap /\ CallTypeOK'
  BY <1>1, Called, NothingToDo DEF SplitEnd
<1>3. CallOK(c)'
  BY <1>1, <1>2, Unchanged DEF CallOK, IInv, heap
<1> QED BY <1>2, <1>3, Started, OnlyCalls

LEMMA PrefixCall ==
  ASSUME IInv, NEW n \in Live, Prefix(n)
  PROVE  IInv'
<1>1. PICK c : c = <<"_split_end", n>>
  OBVIOUS
<1>2. PICK d : d = <<"drop_last", n>>
  OBVIOUS
<1>3. todo = <<>> /\ todo' = <<c, d>> /\ UNCHANGED heap /\ CallTypeOK'
  BY <1>1, <1>2, Called, NothingToDo DEF Prefix
<1>4. CallOK(c)' /\ CallOK(d)'
  BY <1>1, <1>2, <1>3, Unchanged DEF CallOK, IInv, heap
<1>5. TodoOK'
  BY <1>1, <1>2, <1>3, <1>4, StartedTwo
<1> QED BY <1>3, <1>5, OnlyCalls

LEMMA AppendCall ==
  ASSUME IInv, NEW n \in Live, NEW tree \in Live, NEW path \in HookinPath,
         AppendTree(n, path, tree)
  PROVE  IInv'
<1>1. PICK c : c = <<"append", n, path, tree>>
  OBVIOUS
<1>2. todo = <<>> /\ todo' = <<c>> /\ UNCHANGED heap /\ CallTypeOK' /\ Free(tree)
  BY <1>1, Called, NothingToDo DEF AppendTree
<1>3. path \in Seq([label : Label, new : BOOLEAN])
  BY PathAssumption
<1>4. CallOK(c)
  BY <1>1, <1>2, <1>3 DEF CallOK
<1>5. CallOK(c)'
  BY <1>2, <1>4, Unchanged DEF IInv, heap
<1> QED BY <1>2, <1>5, Started, OnlyCalls

LEMMA ReplaceCall ==
  ASSUME IInv, NEW root \in Live, NEW old, NEW new, Replace(root, old, new)
  PROVE  IInv'
<1>1. PICK c : c = <<"replace", root, old, new>>
  OBVIOUS
<1>2. todo = <<>> /\ todo' = <<c>> /\ UNCHANGED heap /\ CallTypeOK'
  BY <1>1, Called, NothingToDo DEF Replace
<1>3. CallOK(c)'
  BY <1>1, <1>2, Unchanged DEF CallOK, IInv, heap
<1> QED BY <1>2, <1>3, Started, OnlyCalls

LEMMA ReadOnlyStep ==
  ASSUME IInv, NEW n \in Live, NEW value \in BOOLEAN, SetAllReadOnly(n, value)
  PROVE  IInv'
<1>1. /\ todo = <<>> /\ todo' = <<>> /\ CallTypeOK'
      /\ UNCHANGED <<label, children, parent, cache, size>>
  BY Called, NothingToDo DEF SetAllReadOnly
<1>2. TodoOK' /\ Exact' /\ ParentsAgree' /\ Live' = Live
  BY <1>1, Nothing, Unchanged DEF IInv
<1>3. readOnly' \in [Node -> BOOLEAN]
  BY DEF SetAllReadOnly, IInv, TypeOK
<1> QED BY <1>1, <1>2, <1>3 DEF IInv, TypeOK

LEMMA SetLabelStep ==
  ASSUME IInv, NEW n \in Live, NEW l \in Label, SetLabel(n, l)
  PROVE  IInv'
<1>1. PICK c : c = Invalidate(n)
  OBVIOUS
<1>2. /\ todo = <<>> /\ todo' = <<c>> /\ CallTypeOK'
      /\ label' = [label EXCEPT ![n] = l]
      /\ UNCHANGED <<children, parent, readOnly, cache, size>>
  BY <1>1, Called, NothingToDo DEF SetLabel
<1>3. Live' = Live
  BY <1>2, LabelAssumption DEF Live, IInv, TypeOK
<1>4. c[1] = "invalidate_hash" /\ c[2] = n /\ CallOK(c)'
  BY <1>1, <1>3 DEF Invalidate, CallOK
<1>5. TodoOK' /\ InvalidatesNext(n)'
  BY <1>2, <1>4, Started DEF InvalidatesNext
<1>6. Exact'
  <2>1. \A m \in Live \ {n} : label'[m] = label[m]
    BY <1>2 DEF Live, IInv, TypeOK
  <2> QED BY <1>2, <1>3, <1>5, <2>1, Changed DEF IInv
<1>7. TypeOK'
  BY <1>2, <1>3 DEF IInv, TypeOK
<1>8. ParentsAgree'
  BY <1>2, <1>3 DEF IInv, ParentsAgree, Kids
<1> QED BY <1>5, <1>6, <1>7, <1>8 DEF IInv

LEMMA SetChildrenCall ==
  ASSUME IInv, NEW n \in Live, NEW kids \in Lists, SetChildren(n, kids)
  PROVE  IInv'
<1>1. PICK c : c = Invalidate(n)
  OBVIOUS
<1>2. /\ todo = <<>> /\ todo' = <<c>> /\ CallTypeOK'
      /\ Adopt(n, kids)
      /\ \A k \in Range(kids) : k \in Kids(n) \/ Free(k)
      /\ UNCHANGED <<label, readOnly, cache, size>>
  BY <1>1, Called, NothingToDo DEF SetChildren
<1>3. Live' = Live /\ kids \in Seq(Live)
  BY <1>2, ListsOfTrees DEF Live
<1>4. \A m \in Live : \A k \in Range(kids) : k \in Kids(m) => m = n
  BY <1>2 DEF Free, Live, IInv, ParentsAgree
<1>5. /\ children' \in [Node -> Seq(Live')]
      /\ parent' \in [Node -> Live' \cup {none}]
      /\ \A m \in Node \ Live' : children'[m] = <<>> /\ parent'[m] = none
      /\ \A m \in Live' \ {n} : children'[m] = children[m]
      /\ ParentsAgree'
  BY <1>2, <1>3, <1>4, Adopted DEF IInv
<1>6. c[1] = "invalidate_hash" /\ c[2] = n /\ CallOK(c)'
  BY <1>1, <1>3 DEF Invalidate, CallOK
<1>7. TodoOK' /\ InvalidatesNext(n)'
  BY <1>2, <1>6, Started DEF InvalidatesNext
<1>8. Exact'
  BY <1>2, <1>3, <1>5, <1>7, Changed DEF IInv
<1>9. TypeOK'
  BY <1>2, <1>3, <1>5 DEF IInv, TypeOK
<1> QED BY <1>5, <1>7, <1>8, <1>9 DEF IInv

LEMMA NewStep ==
  ASSUME IInv, NEW l \in Label, NEW kids \in Lists, New(l, kids)
  PROVE  IInv'
<1>1. PICK n \in Node \ Live :
        /\ label' = [label EXCEPT ![n] = l]
        /\ Adopt(n, kids)
        /\ todo' = <<Invalidate(n)>>
        /\ Call("new", <<n>>)
  BY DEF New
<1>2. /\ todo = <<>> /\ CallTypeOK'
      /\ \A k \in Range(kids) : Free(k)
      /\ UNCHANGED <<readOnly, cache, size>>
  BY <1>1, Called, NothingToDo DEF New
<1>3. PICK c : c = Invalidate(n)
  OBVIOUS
<1>4. Live' = Live \cup {n}
  BY <1>1, LabelAssumption DEF Live, IInv, TypeOK
<1>5. kids \in Seq(Live')
  BY <1>4, ListsOfTrees, SeqMonotonic
<1>6. /\ children' \in [Node -> Seq(Live')]
      /\ parent' \in [Node -> Live' \cup {none}]
      /\ \A m \in Node \ Live' : children'[m] = <<>> /\ parent'[m] = none
      /\ \A m \in Live' \ {n} : children'[m] = children[m]
      /\ ParentsAgree'
  <2>1. \A m \in Live : \A k \in Range(kids) : k \in Kids(m) => m = n
    BY <1>2 DEF Free, Live
  <2> QED BY <1>1, <1>4, <1>5, <2>1, Adopted DEF IInv
<1>7. c[1] = "invalidate_hash" /\ c[2] = n /\ CallOK(c)'
  BY <1>3, <1>4 DEF Invalidate, CallOK
<1>8. TodoOK' /\ InvalidatesNext(n)'
  <2>1. todo' = <<c>>
    BY <1>1, <1>3
  <2> QED BY <1>7, <2>1, Started DEF InvalidatesNext
<1>9. Exact'
  <2>1. \A m \in Live \ {n} : label'[m] = label[m]
    BY <1>1 DEF Live, IInv, TypeOK
  <2> QED BY <1>2, <1>4, <1>6, <1>8, <2>1, Changed DEF IInv
<1>10. TypeOK'
  <2>1. label' \in [Node -> Label \cup {none, SliceLabel}]
    BY <1>1 DEF IInv, TypeOK
  <2> QED BY <1>2, <1>4, <1>6, <2>1 DEF IInv, TypeOK
<1> QED BY <1>6, <1>8, <1>9, <1>10 DEF IInv
-----------------------------------------------------------------------------
(* deepcopy.                                                               *)

\* What is copied is closed below, and exists.
LEMMA ReachedClosed ==
  ASSUME TypeOK, NEW n \in Live, NEW copyParent \in BOOLEAN,
         NEW R, R = Reached(n, copyParent)
  PROVE  n \in R /\ R \subseteq Live /\ \A m \in R : Kids(m) \subseteq R
<1> DEFINE Closed(S) ==
      /\ n \in S
      /\ \A s \in S : Kids(s) \subseteq S
      /\ \A s \in S : (s # n \/ copyParent) /\ parent[s] # none => parent[s] \in S
<1>1. R = {m \in Node : \A S \in SUBSET Node : Closed(S) => m \in S}
  BY DEF Reached
<1>2. Live \subseteq Node
  BY DEF Live
<1>3. \A m \in Live : Kids(m) \subseteq Live /\ parent[m] \in Live \cup {none}
  BY <1>2, RangeOfSeq DEF Kids, TypeOK
<1>4. Closed(Live)
  BY <1>3
<1>5. n \in R
  BY <1>1, <1>2
<1>6. ASSUME NEW m \in R, NEW k \in Kids(m) PROVE k \in R
  <2>1. m \in Live /\ k \in Node
    BY <1>1, <1>2, <1>3, <1>4
  <2>2. ASSUME NEW S \in SUBSET Node, Closed(S) PROVE k \in S
    <3>1. m \in S
      BY <1>1, <2>2
    <3> QED BY <2>2, <3>1
  <2> HIDE DEF Closed
  <2> QED BY <1>1, <2>1, <2>2
<1>7. R \subseteq Live
  <2> HIDE DEF Closed
  <2> QED BY <1>1, <1>2, <1>4
<1> QED BY <1>5, <1>6, <1>7

\* The new objects, each the copy of one that exists: the children of a copy
\* are copies of its children, and its parent, if any, is one of its parent.
Copied(copies, of) ==
  /\ todo = <<>> /\ todo' = <<>> /\ call'.op = "deepcopy"
  /\ copies \subseteq Node \ Live
  /\ Live' = Live \cup copies
  /\ \A m \in copies : of[m] \in Live
  /\ \A m, k \in copies : of[m] = of[k] => m = k
  /\ \A m \in Node \ copies : children'[m] = children[m] /\ parent'[m] = parent[m]
  /\ \A m \in copies :
       /\ DOMAIN children'[m] = DOMAIN children[of[m]]
       /\ \A i \in DOMAIN children'[m] : /\ children'[m][i] \in copies
                                        /\ of[children'[m][i]] = children[of[m]][i]
       /\ parent'[m] # none => parent'[m] \in copies /\ of[parent'[m]] = parent[of[m]]

LEMMA DeepcopyStep ==
  ASSUME IInv, NEW n \in Live, NEW copyParent \in BOOLEAN, Deepcopy(n, copyParent)
  PROVE  IInv' /\ \E copies, of : Copied(copies, of)
<1>1. PICK R : R = Reached(n, copyParent)
  OBVIOUS
<1>2. PICK as \in Injection(R, Node \ Live) :
        LET of == AntiFunction(as)
            copies == Range(as)
            holders(m) == {h \in DOMAIN as : of[m] \in Kids(h)}
            up(m) == IF holders(m) = {} THEN parent[of[m]]
                     ELSE CHOOSE h \in holders(m) :
                            \A g \in holders(m) :
                              label[h] = SliceLabel => label[g] = SliceLabel
        IN /\ label' = [m \in Node |-> IF m \in copies THEN label[of[m]] ELSE label[m]]
           /\ children' = [m \in Node |->
                IF m \in copies
                THEN [i \in DOMAIN children[of[m]] |-> as[children[of[m]][i]]]
                ELSE children[m]]
           /\ parent' = [m \in Node |->
                IF m \notin copies THEN parent[m]
                ELSE IF up(m) \in DOMAIN as THEN as[up(m)] ELSE none]
           /\ readOnly' = [m \in Node |->
                IF m \in copies THEN readOnly[of[m]] ELSE readOnly[m]]
           /\ \E sizes \in [copies -> 1 .. Cardinality(copies)] :
                /\ size' = [m \in Node |-> IF m \in copies THEN sizes[m] ELSE size[m]]
                /\ \A m \in copies :
                     sizes[m] = 1 + SumFunction([i \in DOMAIN children[of[m]] |->
                                                   sizes[as[children[of[m]][i]]]])
           /\ Call("deepcopy", <<n, as[n]>>)
  BY <1>1 DEF Deepcopy
<1> DEFINE of == AntiFunction(as)
           copies == Range(as)
           holders(m) == {h \in DOMAIN as : of[m] \in Kids(h)}
           up(m) == IF holders(m) = {} THEN parent[of[m]]
                    ELSE CHOOSE h \in holders(m) :
                           \A g \in holders(m) :
                             label[h] = SliceLabel => label[g] = SliceLabel
<1>7. /\ as \in [R -> Node \ Live]
      /\ \A x, y \in R : as[x] = as[y] => x = y
      /\ DOMAIN as = R
  BY <1>2 DEF Injection, IsInjective
<1>8. n \in R /\ R \subseteq Live /\ Live \subseteq Node /\ \A m \in R : Kids(m) \subseteq R
  BY <1>1, ReachedClosed DEF IInv, Live
<1>9. /\ copies \subseteq Node \ Live
      /\ \A m \in copies : of[m] \in R /\ as[of[m]] = m
      /\ \A k \in R : as[k] \in copies /\ of[as[k]] = k
  <2>1. copies = {as[s] : s \in R}
    BY <1>7 DEF copies, Range
  <2>2. copies \subseteq Node \ Live /\ \A k \in R : as[k] \in copies
    <3> HIDE DEF copies
    <3> QED BY <1>7, <2>1
  <2>3. of = [t \in copies |-> CHOOSE s \in DOMAIN as : t \in copies => as[s] = t]
    BY Zenon DEF AntiFunction, Inverse, Range
  <2> HIDE DEF of, copies
  <2>4. ASSUME NEW m \in copies PROVE of[m] \in R /\ as[of[m]] = m
    <3>1. of[m] = CHOOSE s \in DOMAIN as : m \in copies => as[s] = m
      BY <2>3
    <3>2. \E s \in R : as[s] = m
      BY <2>1
    <3> QED BY <1>7, <3>1, <3>2
  <2>5. \A k \in R : of[as[k]] = k
    BY <1>7, <2>2, <2>4
  <2> QED BY <2>2, <2>4, <2>5
<1>10. /\ label' = [m \in Node |-> IF m \in copies THEN label[of[m]] ELSE label[m]]
       /\ children' = [m \in Node |->
            IF m \in copies
            THEN [i \in DOMAIN children[of[m]] |-> as[children[of[m]][i]]]
            ELSE children[m]]
       /\ readOnly' = [m \in Node |->
            IF m \in copies THEN readOnly[of[m]] ELSE readOnly[m]]
       /\ Call("deepcopy", <<n, as[n]>>)
  BY <1>2
<1>11. parent' = [m \in Node |-> IF m \notin copies THEN parent[m]
                               ELSE IF up(m) \in DOMAIN as THEN as[up(m)] ELSE none]
  BY <1>2
<1>12. PICK sizes \in [copies -> 1 .. Cardinality(copies)] :
         /\ size' = [m \in Node |-> IF m \in copies THEN sizes[m] ELSE size[m]]
         /\ \A m \in copies :
              sizes[m] = 1 + SumFunction([i \in DOMAIN children[of[m]] |->
                                            sizes[as[children[of[m]][i]]]])
  BY <1>2
<1> HIDE DEF of, copies, holders, up
<1>13. /\ todo = <<>> /\ todo' = <<>> /\ cache' = cache
       /\ CallTypeOK' /\ TodoOK'
  BY <1>10, Called, NothingToDo, Nothing DEF Deepcopy
<1>14. Live' = Live \cup copies
  <2>1. \A m \in copies : label'[m] # none
    BY <1>8, <1>9, <1>10 DEF Live
  <2>2. \A m \in Node \ copies : label'[m] = label[m]
    BY <1>10
  <2> QED BY <1>9, <2>1, <2>2 DEF Live
<1>15. \A m \in copies :
         /\ children'[m] \in Seq(copies)
         /\ \A c \in Range(children'[m]) : c \in copies /\ of[c] \in Kids(of[m])
  <2> SUFFICES ASSUME NEW m \in copies
               PROVE  /\ children'[m] \in Seq(copies)
                      /\ \A c \in Range(children'[m]) : c \in copies /\ of[c] \in Kids(of[m])
    OBVIOUS
  <2>1. PICK kids : kids = children[of[m]]
    OBVIOUS
  <2>2. PICK k : k = Len(kids)
    OBVIOUS
  <2>3. of[m] \in R /\ of[m] \in Node /\ Kids(of[m]) \subseteq R
    BY <1>8, <1>9
  <2>4. kids \in Seq(Live) /\ k \in Nat /\ DOMAIN kids = 1 .. k
    BY <2>1, <2>2, <2>3 DEF IInv, TypeOK
  <2>5. children'[m] = [i \in 1 .. k |-> as[kids[i]]]
    BY <1>9, <1>10, <2>1, <2>4
  <2>6. \A i \in 1 .. k : kids[i] \in Kids(of[m])
    BY <2>1, <2>4 DEF Kids, Range
  <2>7. \A i \in 1 .. k : as[kids[i]] \in copies /\ of[as[kids[i]]] \in Kids(of[m])
    BY <1>9, <2>3, <2>6
  <2>8. children'[m] \in [1 .. k -> copies]
    BY <2>5, <2>7
  <2>9. children'[m] \in Seq(copies)
    BY <2>4, <2>8, SeqDef
  <2>10. \A c \in Range(children'[m]) : \E i \in 1 .. k : c = as[kids[i]]
    <3>1. DOMAIN children'[m] = 1 .. k /\ \A i \in 1 .. k : children'[m][i] = as[kids[i]]
      BY <2>5
    <3> QED BY <3>1 DEF Range
  <2> QED BY <2>7, <2>9, <2>10
<1>16. \A m \in Node \ copies : children'[m] = children[m]
  BY <1>10
<1>17. \A m \in Node : parent'[m] \in Live' \cup {none}
  BY <1>7, <1>9, <1>11, <1>14 DEF IInv, TypeOK
<1>18. ParentsAgree'
  <2> SUFFICES ASSUME NEW m \in Live', NEW c \in Range(children'[m])
               PROVE  parent'[c] = m
    BY DEF ParentsAgree, Kids
  <2>1. CASE m \in Live
    <3>1. c \in Kids(m) /\ c \in Live
      BY <1>8, <1>9, <1>16, <2>1, RangeOfSeq DEF Kids, IInv, TypeOK
    <3> QED BY <1>8, <1>9, <1>11, <2>1, <3>1 DEF IInv, ParentsAgree
  <2>2. CASE m \in copies
    <3>1. c \in copies /\ of[c] \in Kids(of[m]) /\ of[m] \in R
      BY <1>9, <1>15, <2>2
    <3>2. of[m] \in holders(c)
      BY <1>7, <3>1 DEF holders
    <3>3. \A h \in holders(c) : h = of[m]
      BY <1>7, <1>8, <3>1 DEF holders, IInv, ParentsAgree
    <3>4. up(c) = of[m]
      <4>1. \E h \in holders(c) :
              \A g \in holders(c) : label[h] = SliceLabel => label[g] = SliceLabel
        BY <3>2, <3>3
      <4>2. up(c) \in holders(c)
        BY <3>2, <4>1 DEF up
      <4> QED BY <3>3, <4>2
    <3>5. c \in Node /\ parent'[c] = IF up(c) \in R THEN as[up(c)] ELSE none
      BY <1>7, <1>9, <1>11, <3>1
    <3> QED BY <1>9, <2>2, <3>1, <3>4, <3>5
  <2> QED BY <1>14, <2>1, <2>2
<1>19. Exact'
  <2> SUFFICES ASSUME NEW m \in Live' PROVE ExactHash(m)' /\ ExactSize(m)'
    BY DEF Exact
  <2>1. CASE m \in Live
    <3>1. m \in Node \ copies /\ Kids(m) \subseteq Live
      BY <1>8, <1>9, <2>1, RangeOfSeq DEF Kids, IInv, TypeOK
    <3>2. \A k \in Live : size'[k] = size[k] /\ label'[k] = label[k]
      BY <1>8, <1>9, <1>10, <1>12
    <3>3. ExactHash(m) /\ ExactSize(m)
      BY <1>13, <2>1 DEF IInv, Exact, InvalidatesNext
    <3> QED BY <1>13, <1>16, <2>1, <3>1, <3>2, <3>3, Untouched
  <2>2. CASE m \in copies
    <3>1. cache'[m] = none
      BY <1>9, <1>13, <2>2 DEF IInv, TypeOK
    <3>2. PICK kids : kids = children[of[m]]
      OBVIOUS
    <3>3. children'[m] = [i \in DOMAIN kids |-> as[kids[i]]]
      BY <1>9, <1>10, <2>2, <3>2
    <3>4. size'[m] = 1 + SumFunction([i \in DOMAIN kids |-> sizes[as[kids[i]]]])
      <4>1. sizes[m] = 1 + SumFunction([i \in DOMAIN children[of[m]] |->
                                          sizes[as[children[of[m]][i]]]])
        BY <1>12, <2>2
      <4>2. size'[m] = sizes[m]
        BY <1>9, <1>12, <2>2
      <4> QED BY <3>2, <4>1, <4>2
    <3>5. \A i \in DOMAIN kids : size'[children'[m][i]] = sizes[as[kids[i]]]
      <4> SUFFICES ASSUME NEW i \in DOMAIN kids
                   PROVE  size'[children'[m][i]] = sizes[as[kids[i]]]
        OBVIOUS
      <4>1. children'[m][i] = as[kids[i]]
        BY <3>3
      <4>2. children'[m][i] \in copies
        BY <1>15, <2>2, <3>3 DEF Range
      <4> QED BY <1>9, <1>12, <4>1, <4>2
    <3>6. [i \in DOMAIN children'[m] |-> size'[children'[m][i]]]
            = [i \in DOMAIN kids |-> sizes[as[kids[i]]]]
      BY <3>3, <3>5
    <3>7. ExactSize(m)'
      BY <3>4, <3>6 DEF ExactSize, Size
    <3> QED BY <3>1, <3>7 DEF ExactHash
  <2> QED BY <1>14, <2>1, <2>2
<1>20. TypeOK'
  <2>1. label' \in [Node -> Label \cup {none, SliceLabel}]
    <3>1. \A m \in copies : of[m] \in Node
      BY <1>8, <1>9
    <3>2. \A m \in Node : label[m] \in Label \cup {none, SliceLabel}
      BY DEF IInv, TypeOK
    <3>3. \A m \in Node : (IF m \in copies THEN label[of[m]] ELSE label[m])
                            \in Label \cup {none, SliceLabel}
      BY <3>1, <3>2
    <3> QED BY <1>10, <3>3
  <2>2. readOnly' \in [Node -> BOOLEAN]
    BY <1>8, <1>9, <1>10 DEF IInv, TypeOK
  <2>3. children' \in [Node -> Seq(Live')]
    <3>1. \A m \in Node \ copies : children'[m] \in Seq(Live')
      BY <1>14, <1>16, SeqMonotonic DEF IInv, TypeOK
    <3>2. \A m \in copies : children'[m] \in Seq(Live')
      BY <1>14, <1>15, SeqMonotonic
    <3> QED BY <1>10, <3>1, <3>2
  <2>4. parent' \in [Node -> Live' \cup {none}]
    <3>1. DOMAIN parent' = Node /\ parent' = [m \in Node |-> parent'[m]]
      BY <1>2
    <3> QED BY <1>17, <3>1
  <2>5. DOMAIN cache' = Node /\ DOMAIN size' = Node
    BY <1>12, <1>13 DEF IInv, TypeOK
  <2>6. \A m \in Node \ Live' :
          children'[m] = <<>> /\ parent'[m] = none /\ cache'[m] = none
    BY <1>11, <1>13, <1>14, <1>16 DEF IInv, TypeOK
  <2> QED BY <1>13, <2>1, <2>2, <2>3, <2>4, <2>5, <2>6 DEF TypeOK
<1>21. \A m \in copies :
         /\ DOMAIN children'[m] = DOMAIN children[of[m]]
         /\ \A i \in DOMAIN children'[m] : /\ children'[m][i] \in copies
                                          /\ of[children'[m][i]] = children[of[m]][i]
  <2> SUFFICES ASSUME NEW m \in copies
               PROVE  /\ DOMAIN children'[m] = DOMAIN children[of[m]]
                      /\ \A i \in DOMAIN children'[m] :
                           /\ children'[m][i] \in copies
                           /\ of[children'[m][i]] = children[of[m]][i]
    OBVIOUS
  <2>1. PICK kids : kids = children[of[m]]
    OBVIOUS
  <2>2. of[m] \in R /\ Kids(of[m]) \subseteq R
    BY <1>8, <1>9
  <2>3. children'[m] = [i \in DOMAIN kids |-> as[kids[i]]]
    BY <1>9, <1>10, <2>1
  <2>4. \A i \in DOMAIN kids : kids[i] \in R
    BY <2>1, <2>2 DEF Kids, Range
  <2>5. /\ DOMAIN children'[m] = DOMAIN kids
        /\ \A i \in DOMAIN kids : children'[m][i] = as[kids[i]]
    BY <2>3
  <2> QED BY <1>9, <2>1, <2>4, <2>5
<1>22. \A m \in copies :
         parent'[m] # none => parent'[m] \in copies /\ of[parent'[m]] = parent[of[m]]
  <2> SUFFICES ASSUME NEW m \in copies, parent'[m] # none
               PROVE  parent'[m] \in copies /\ of[parent'[m]] = parent[of[m]]
    OBVIOUS
  <2>1. m \in Node /\ up(m) \in R /\ parent'[m] = as[up(m)]
    BY <1>7, <1>9, <1>11
  <2>2. \A h \in holders(m) : h = parent[of[m]]
    BY <1>7, <1>8 DEF holders, IInv, ParentsAgree
  <2>3. up(m) = parent[of[m]]
    <3>1. CASE holders(m) = {}
      BY <3>1 DEF up
    <3>2. CASE holders(m) # {}
      <4>1. \E h \in holders(m) :
              \A g \in holders(m) : label[h] = SliceLabel => label[g] = SliceLabel
        BY <2>2, <3>2
      <4>2. up(m) \in holders(m)
        BY <3>2, <4>1 DEF up
      <4> QED BY <2>2, <4>2
    <3> QED BY <3>1, <3>2
  <2> QED BY <1>9, <2>1, <2>3
<1>23. call'.op = "deepcopy"
  BY <1>10 DEF Call, NoCall
<1>24. \A m \in Node \ copies : parent'[m] = parent[m]
  BY <1>11
<1>25. /\ \A m \in copies : of[m] \in Live
       /\ \A m, k \in copies : of[m] = of[k] => m = k
  BY <1>8, <1>9
<1>26. Copied(copies, of)
  BY <1>9, <1>13, <1>14, <1>16, <1>21, <1>22, <1>23, <1>24, <1>25 DEF Copied
<1> QED BY <1>13, <1>18, <1>19, <1>20, <1>26 DEF IInv
-----------------------------------------------------------------------------
LEMMA Initially == Init => IInv
<1> SUFFICES ASSUME Init PROVE IInv
  OBVIOUS
<1>1. Live = {} /\ todo = <<>>
  BY DEF Init, Live
<1>2. TodoOK
  <2>1. Range(<<>>) = {} /\ <<>> \in Seq({}) /\ Len(<<>>) = 0
    BY DEF Range
  <2> QED BY <1>1, <2>1 DEF TodoOK
<1>3. TypeOK
  <2>1. children \in [Node -> Seq(Live)]
    BY DEF Init
  <2> QED BY <1>1, <2>1 DEF Init, TypeOK, CallTypeOK
<1> QED BY <1>1, <1>2, <1>3 DEF IInv, Exact, ParentsAgree

LEMMA Inductive == IInv /\ [Next]_vars => IInv'
<1> SUFFICES ASSUME IInv, [Next]_vars PROVE IInv'
  OBVIOUS
<1>1. ASSUME NEW l \in Label, NEW kids \in Lists, New(l, kids) PROVE IInv'
  BY <1>1, NewStep
<1>2. ASSUME NEW n \in Live, NEW l \in Label, SetLabel(n, l) PROVE IInv'
  BY <1>2, SetLabelStep
<1>3. ASSUME NEW n \in Live, NEW kids \in Lists, SetChildren(n, kids) PROVE IInv'
  BY <1>3, SetChildrenCall
<1>4. ASSUME NEW n \in Live, HashTree(n) PROVE IInv'
  BY <1>4, HashTreeStep
<1>5. ASSUME NEW n \in Live, NEW value \in BOOLEAN, SetAllReadOnly(n, value) PROVE IInv'
  BY <1>5, ReadOnlyStep
<1>6. ASSUME NEW n \in Live, SplitEnd(n) PROVE IInv'
  BY <1>6, SplitEndCall
<1>7. ASSUME NEW n \in Live, Prefix(n) PROVE IInv'
  BY <1>7, PrefixCall
<1>8. ASSUME NEW n \in Live, NEW tree \in Live, NEW path \in HookinPath,
             AppendTree(n, path, tree)
      PROVE  IInv'
  BY <1>8, AppendCall
<1>9. ASSUME NEW n \in Live, NEW copyParent \in BOOLEAN, Deepcopy(n, copyParent)
      PROVE  IInv'
  BY <1>9, DeepcopyStep
<1>10. ASSUME NEW root \in Live, NEW old \in Live, NEW new \in Live,
              Replace(root, old, new)
       PROVE  IInv'
  BY <1>10, ReplaceCall
<1>11. CASE UNCHANGED vars
  <2>1. UNCHANGED <<label, children, parent, readOnly, cache, size, todo, call>>
    BY <1>11 DEF vars, heap
  <2>2. Live' = Live
    BY <2>1 DEF Live
  <2>3. TypeOK' /\ ParentsAgree'
    BY <2>1, <2>2 DEF IInv, TypeOK, CallTypeOK, Idle, ParentsAgree, Kids
  <2>4. TodoOK'
    BY <2>1, <2>2 DEF IInv, TodoOK, CallOK, Free, Kids
  <2>5. Exact'
    BY <2>1, <2>2 DEF IInv, Exact, ExactHash, ExactSize, Hash, Size, Kids, InvalidatesNext
  <2> QED BY <2>3, <2>4, <2>5 DEF IInv
<1> QED
  BY <1>1, <1>2, <1>3, <1>4, <1>5, <1>6, <1>7, <1>8, <1>9, <1>10, <1>11,
     ReturnStep, InvalidateStep, HashStep, SetStep, SplitStep, DropStep,
     GrowStep, ReplaceStartStep, ReplaceOneStep DEF Next

LEMMA Always == Spec => []IInv
BY Initially, Inductive, PTL DEF Spec

\* Every variable has its type, whatever methods are called in what order.
THEOREM TreesTyped == Spec => []TypeOK
<1>1. IInv => TypeOK
  BY DEF IInv
<1> QED BY <1>1, Always, PTL

\* Whatever is changed, and wherever in a tree, once the method has returned
\* no hash that is cached anywhere is out of date.
THEOREM HashesCurrent == Spec => []HashIsCurrent
<1>1. IInv => HashIsCurrent
  BY DEF IInv, Exact, InvalidatesNext, ExactHash, HashIsCurrent
<1> QED BY <1>1, Always, PTL

\* Likewise for the sizes.
THEOREM SizesCurrent == Spec => []SizeIsCurrent
<1>1. IInv => SizeIsCurrent
  BY DEF IInv, Exact, InvalidatesNext, ExactSize, SizeIsCurrent
<1> QED BY <1>1, Always, PTL

\* As long as no slices are taken, the two directions of the edges agree, in
\* the middle of a method too.
THEOREM EdgesAgree == Spec => []ParentsAgree
<1>1. IInv => ParentsAgree
  BY DEF IInv
<1> QED BY <1>1, Always, PTL
-----------------------------------------------------------------------------
(* Recursive definitions.                                                  *)

\* A recursive definition over the set c.of: the value of x is made from those
\* of c.next[x], as that of a tree is from its children's or a path from the
\* one of the parent.
Unfolded(c, x, f) ==
  IF x \in c.leaves THEN c.leaf
  ELSE IF c.makes = "path" THEN Append(f[c.next[x][1]], c.lab[x])
  ELSE <<c.lab[x], [i \in DOMAIN c.next[x] |-> f[c.next[x][i]]]>>

Solves(c, S, f) == f = [x \in S |-> Unfolded(c, x, f)]

ClosedIn(c, S) ==
  /\ S \subseteq c.of
  /\ \A x \in S : \A i \in DOMAIN c.next[x] : c.next[x][i] \in S

\* The recursion ends everywhere.
WellFounded(c) ==
  /\ ClosedIn(c, c.of)
  /\ \A x \in c.of \ c.leaves : c.makes = "path" => 1 \in DOMAIN c.next[x]
  /\ \A S \in SUBSET c.of : S # {} =>
       \E x \in S : \A i \in DOMAIN c.next[x] : c.next[x][i] \notin S

LEMMA NextDecides ==
  ASSUME NEW c, WellFounded(c), NEW x \in c.of, NEW f, NEW g,
         \A i \in DOMAIN c.next[x] : f[c.next[x][i]] = g[c.next[x][i]]
  PROVE  Unfolded(c, x, f) = Unfolded(c, x, g)
<1>1. CASE x \in c.leaves
  BY <1>1 DEF Unfolded
<1>2. CASE x \notin c.leaves /\ c.makes = "path"
  <2>1. f[c.next[x][1]] = g[c.next[x][1]]
    BY <1>2 DEF WellFounded
  <2> QED BY <1>2, <2>1 DEF Unfolded
<1>3. CASE x \notin c.leaves /\ c.makes # "path"
  <2>1. [i \in DOMAIN c.next[x] |-> f[c.next[x][i]]]
          = [i \in DOMAIN c.next[x] |-> g[c.next[x][i]]]
    OBVIOUS
  <2> QED BY <1>3, <2>1 DEF Unfolded
<1> QED BY <1>1, <1>2, <1>3

\* Two solutions agree where both are defined.
LEMMA SolutionsAgree ==
  ASSUME NEW c, WellFounded(c), NEW S1, NEW S2, NEW f1, NEW f2,
         ClosedIn(c, S1), ClosedIn(c, S2), Solves(c, S1, f1), Solves(c, S2, f2)
  PROVE  \A x \in S1 \cap S2 : f1[x] = f2[x]
<1> DEFINE bad == {x \in S1 \cap S2 : f1[x] # f2[x]}
<1> SUFFICES ASSUME bad # {} PROVE FALSE
  OBVIOUS
<1>1. bad \in SUBSET c.of
  BY DEF ClosedIn
<1>2. PICK x \in bad : \A i \in DOMAIN c.next[x] : c.next[x][i] \notin bad
  <2> HIDE DEF bad
  <2> QED BY <1>1 DEF WellFounded
<1>3. x \in S1 /\ x \in S2 /\ x \in c.of
  BY <1>1
<1>4. \A i \in DOMAIN c.next[x] : f1[c.next[x][i]] = f2[c.next[x][i]]
  BY <1>2, <1>3 DEF ClosedIn
<1>5. Unfolded(c, x, f1) = Unfolded(c, x, f2)
  BY <1>3, <1>4, NextDecides
<1>6. f1[x] = Unfolded(c, x, f1)
  BY <1>3, Zenon DEF Solves
<1>7. f2[x] = Unfolded(c, x, f2)
  BY <1>3, Zenon DEF Solves
<1> QED BY <1>5, <1>6, <1>7

\* The union of the solutions on closed sets is a solution, and an innermost x
\* without a value could be given one.
LEMMA SolutionExists ==
  ASSUME NEW c, WellFounded(c)
  PROVE  \E f : Solves(c, c.of, f)
<1> DEFINE Good == {x \in c.of : \E S, f : x \in S /\ ClosedIn(c, S) /\ Solves(c, S, f)}
           sol(x) == CHOOSE f : \E S : x \in S /\ ClosedIn(c, S) /\ Solves(c, S, f)
           F == [x \in Good |-> sol(x)[x]]
<1>1. \A x \in Good : \E S : x \in S /\ ClosedIn(c, S) /\ Solves(c, S, sol(x))
  <2> TAKE x \in Good
  <2>1. \E f : \E S : x \in S /\ ClosedIn(c, S) /\ Solves(c, S, f)
    OBVIOUS
  <2> QED BY <2>1, Zenon
<1>2. ASSUME NEW S, NEW f, ClosedIn(c, S), Solves(c, S, f)
      PROVE  S \subseteq Good /\ \A x \in S : F[x] = f[x]
  <2>1. S \subseteq Good
    BY <1>2 DEF ClosedIn
  <2>2. ASSUME NEW x \in S PROVE F[x] = f[x]
    <3>1. PICK S1 : x \in S1 /\ ClosedIn(c, S1) /\ Solves(c, S1, sol(x))
      BY <1>1, <2>1
    <3> HIDE DEF sol
    <3>2. sol(x)[x] = f[x]
      BY <1>2, <3>1, SolutionsAgree
    <3>3. F[x] = sol(x)[x]
      BY <2>1
    <3> QED BY <3>2, <3>3
  <2> QED BY <2>1, <2>2
<1> HIDE DEF sol
<1>3. ClosedIn(c, Good)
  <2>1. ASSUME NEW x \in Good PROVE \A i \in DOMAIN c.next[x] : c.next[x][i] \in Good
    <3>1. PICK S : x \in S /\ ClosedIn(c, S) /\ Solves(c, S, sol(x))
      BY <1>1
    <3>2. S \subseteq Good
      BY <1>2, <3>1
    <3> QED BY <3>1, <3>2 DEF ClosedIn
  <2>2. Good \subseteq c.of
    OBVIOUS
  <2> HIDE DEF Good
  <2> QED BY <2>1, <2>2 DEF ClosedIn
<1>4. \A x \in Good : F[x] = Unfolded(c, x, F)
  <2> TAKE x \in Good
  <2>1. PICK S : x \in S /\ ClosedIn(c, S) /\ Solves(c, S, sol(x))
    BY <1>1
  <2> DEFINE f == sol(x)
  <2>2. /\ \A y \in S : F[y] = f[y]
        /\ x \in c.of
    BY <1>2, <2>1
  <2>3. \A i \in DOMAIN c.next[x] : F[c.next[x][i]] = f[c.next[x][i]]
    BY <2>1, <2>2 DEF ClosedIn
  <2> HIDE DEF F, f, Good
  <2>4. Unfolded(c, x, F) = Unfolded(c, x, f)
    BY <2>2, <2>3, NextDecides
  <2>5. f[x] = Unfolded(c, x, f)
    BY <2>1, Zenon DEF Solves, f
  <2> QED BY <2>1, <2>2, <2>4, <2>5
<1>5. Solves(c, Good, F)
  <2> HIDE DEF Good
  <2>1. F = [x \in Good |-> F[x]]
    OBVIOUS
  <2> HIDE DEF F
  <2> QED BY <2>1, <1>4 DEF Solves
<1>6. Good = c.of
  <2> SUFFICES ASSUME c.of \ Good # {} PROVE FALSE
    OBVIOUS
  <2>1. PICK x \in c.of \ Good : \A i \in DOMAIN c.next[x] : c.next[x][i] \notin c.of \ Good
    <3> HIDE DEF Good
    <3>1. c.of \ Good \in SUBSET c.of
      OBVIOUS
    <3> QED BY <3>1 DEF WellFounded
  <2>2. \A i \in DOMAIN c.next[x] : c.next[x][i] \in Good
    <3> HIDE DEF Good
    <3> QED BY <2>1 DEF WellFounded, ClosedIn
  <2> DEFINE S == Good \cup {x}
             own == Unfolded(c, x, F)
             f == [y \in S |-> IF y = x THEN own ELSE F[y]]
  <2>3. ClosedIn(c, S)
    <3> HIDE DEF Good, F
    <3> QED BY <1>3, <2>1, <2>2 DEF ClosedIn
  <2>4. ASSUME NEW y \in S PROVE f[y] = Unfolded(c, y, f)
    <3>1. \A i \in DOMAIN c.next[y] : c.next[y][i] \in Good
      <4> HIDE DEF Good
      <4> QED BY <2>2, <1>3 DEF ClosedIn
    <3>2. \A z \in Good : f[z] = F[z]
      <4> HIDE DEF Good, F, own
      <4> QED BY <2>1
    <3>3. y \in c.of
      OBVIOUS
    <3> HIDE DEF f
    <3>4. Unfolded(c, y, f) = Unfolded(c, y, F)
      <4> HIDE DEF Good, F
      <4> QED BY <3>1, <3>2, <3>3, NextDecides
    <3>5. f[y] = IF y = x THEN own ELSE F[y]
      <4> HIDE DEF Good, F, own
      <4> QED BY DEF f
    <3>6. f[y] = Unfolded(c, y, F)
      <4> HIDE DEF Good, F
      <4> QED BY <3>5, <1>4, Zenon
    <3> QED BY <3>4, <3>6
  <2>5. Solves(c, S, f)
    <3> HIDE DEF Good, own, F
    <3>1. f = [y \in S |-> f[y]]
      OBVIOUS
    <3> HIDE DEF S, f
    <3> QED BY <3>1, <2>4 DEF Solves
  <2>6. x \in Good
    <3> HIDE DEF f
    <3>1. x \in S OBVIOUS
    <3> HIDE DEF S
    <3> QED BY <3>1, <2>1, <2>3, <2>5
  <2> QED BY <2>1, <2>6
<1> HIDE DEF Good, F
<1> QED BY <1>5, <1>6
-----------------------------------------------------------------------------
(* Trees end above and below, and paths lead to one node each.             *)

\* A set of nodes that has the parents of all of them: going up never ends.
Rootless(S) == S # {} /\ \A m \in S : parent[m] \in S
Ends == \A S \in SUBSET Node : ~Rootless(S)

\* No node is twice among the children of a node.
NoTwice == \A n \in Node : IsInjective(children[n])

\* Going down from root, one comes to m.
PartOf(m, root) ==
  \A S \in SUBSET Node : root \in S /\ (\A s \in S : Kids(s) \subseteq S) => m \in S

TreesOK == TypeOK /\ ParentsAgree /\ Ends /\ NoTwice /\ IsFiniteSet(Live)

LEMMA NodeFacts ==
  ASSUME TypeOK
  PROVE  /\ Live \subseteq Node
         /\ \A m \in Node : /\ children[m] \in Seq(Live)
                            /\ DOMAIN children[m] \subseteq Nat
                            /\ Kids(m) \subseteq Live
                            /\ m \notin Live => Kids(m) = {}
                            /\ parent[m] \in Live \cup {none}
                            /\ \A i \in DOMAIN children[m] : children[m][i] \in Kids(m)
                            /\ \A k \in Kids(m) : \E i \in DOMAIN children[m] : k = children[m][i]
<1>1. Live \subseteq Node
  BY DEF Live
<1>2. ASSUME NEW m \in Node
      PROVE  /\ children[m] \in Seq(Live)
             /\ DOMAIN children[m] \subseteq Nat
             /\ Kids(m) \subseteq Live
             /\ m \notin Live => Kids(m) = {}
             /\ parent[m] \in Live \cup {none}
             /\ \A i \in DOMAIN children[m] : children[m][i] \in Kids(m)
             /\ \A k \in Kids(m) : \E i \in DOMAIN children[m] : k = children[m][i]
  <2>1. children[m] \in Seq(Live)
    BY DEF TypeOK
  <2>2. Kids(m) \subseteq Live
    BY <2>1, RangeOfSeq DEF Kids
  <2>3. m \notin Live => Kids(m) = {}
    <3>1. m \notin Live => children[m] = <<>>
      BY DEF TypeOK
    <3> QED BY <3>1 DEF Kids, Range
  <2>4. parent[m] \in Live \cup {none}
    BY DEF TypeOK
  <2>5. DOMAIN children[m] \subseteq Nat
    BY <2>1
  <2> QED BY <2>1, <2>2, <2>3, <2>4, <2>5 DEF Kids, Range
<1> QED BY <1>1, <1>2

\* Each set of nodes has one that has no children in it.  Otherwise each node
\* has a child there, no two have the same, and so, in a finite set, every one
\* of them is a child of one of them, whose parent is there.
LEMMA Innermost ==
  ASSUME TreesOK, NEW S \in SUBSET Node, S # {}
  PROVE  \E m \in S : Kids(m) \cap S = {}
<1> SUFFICES ASSUME \A m \in S : \E k \in S : k \in Kids(m) PROVE FALSE
  OBVIOUS
<1>1. S \subseteq Live
  BY NodeFacts DEF TreesOK
<1> DEFINE g == [m \in S |-> CHOOSE k \in S : k \in Kids(m)]
<1>2. \A m \in S : g[m] \in S /\ g[m] \in Kids(m)
  OBVIOUS
<1>3. g \in [S -> S]
  OBVIOUS
<1> HIDE DEF g
<1>4. \A m \in S : parent[g[m]] = m
  BY <1>1, <1>2 DEF TreesOK, ParentsAgree
<1>5. g \in Injection(S, S)
  BY <1>3, <1>4 DEF Injection, IsInjective
<1>6. IsFiniteSet(S)
  BY <1>1, FS_Subset DEF TreesOK
<1>7. g \in Surjection(S, S)
  BY <1>5, <1>6, FS_Injection
<1>8. \A k \in S : \E m \in S : g[m] = k
  BY <1>7 DEF Surjection
<1>9. Rootless(S)
  BY <1>4, <1>8 DEF Rootless
<1> QED BY <1>9 DEF TreesOK, Ends

\* The recursive definition of a path has a solution.
LEMMA PathUnfolds ==
  ASSUME TreesOK, NEW n \in Node
  PROVE  Path(n) = IF parent[n] = none THEN <<>> ELSE Append(Path(parent[n]), Index(n))
<1> DEFINE Rule(f) == [m \in Node |-> IF parent[m] = none THEN <<>>
                                      ELSE Append(f[parent[m]], Index(m))]
           next == [m \in Node |-> IF parent[m] = none THEN <<>> ELSE <<parent[m]>>]
           index == [m \in Node |-> Index(m)]
           roots == {m \in Node : parent[m] = none}
<1>1. PICK c : c = [of |-> Node, next |-> next, leaves |-> roots, leaf |-> <<>>,
                    lab |-> index, makes |-> "path"]
  OBVIOUS
<1>2. /\ c.of = Node /\ c.next = next /\ c.leaves = roots /\ c.leaf = <<>>
      /\ c.lab = index /\ c.makes = "path"
  BY <1>1
<1>3. \A m \in Node : /\ parent[m] = none => DOMAIN next[m] = {}
                      /\ parent[m] # none => DOMAIN next[m] = {1} /\ next[m][1] = parent[m]
                                             /\ parent[m] \in Node
  <2> TAKE m \in Node
  <2>1. parent[m] # none => parent[m] \in Node
    BY NodeFacts DEF TreesOK
  <2>2. next[m] = IF parent[m] = none THEN <<>> ELSE <<parent[m]>>
    OBVIOUS
  <2> HIDE DEF next
  <2> QED BY <2>1, <2>2
<1> HIDE DEF next
<1>4. WellFounded(c)
  <2>1. ClosedIn(c, Node)
    BY <1>2, <1>3 DEF ClosedIn
  <2>2. ASSUME NEW S \in SUBSET Node, S # {}
        PROVE  \E x \in S : \A i \in DOMAIN next[x] : next[x][i] \notin S
    <3>1. PICK x \in S : parent[x] \notin S
      BY <2>2 DEF TreesOK, Ends, Rootless
    <3> QED BY <1>3, <3>1
  <2>3. \A x \in Node \ roots : 1 \in DOMAIN next[x]
    BY <1>3
  <2> HIDE DEF roots, index
  <2> QED BY <1>2, <2>1, <2>2, <2>3 DEF WellFounded
<1>5. PICK f : Solves(c, Node, f)
  BY <1>2, <1>4, SolutionExists
<1>6. \A m \in Node : f[m] = IF parent[m] = none THEN <<>> ELSE Append(f[parent[m]], Index(m))
  <2> TAKE m \in Node
  <2>1. f[m] = Unfolded(c, m, f)
    BY <1>5, Zenon DEF Solves
  <2>2. CASE parent[m] = none
    BY <1>2, <2>1, <2>2 DEF Unfolded
  <2>3. CASE parent[m] # none
    <3>1. Unfolded(c, m, f) = Append(f[next[m][1]], index[m])
      BY <1>2, <2>3 DEF Unfolded
    <3> QED BY <1>3, <2>1, <2>3, <3>1
  <2> QED BY <2>2, <2>3
<1>7. f = Rule(f)
  <2>1. f = [m \in Node |-> f[m]]
    BY <1>5, Zenon DEF Solves
  <2>2. [m \in Node |-> f[m]] = Rule(f)
    BY <1>6
  <2> QED BY <2>1, <2>2
<1>8. PICK p : p = CHOOSE g : g = Rule(g)
  OBVIOUS
<1>9. p = Rule(p)
  <2> HIDE DEF Rule
  <2> QED BY <1>7, <1>8
<1>10. \A m : Path(m) = p[m]
  BY <1>8, Zenon DEF Path
<1>11. PICK q : q = Rule(p)
  OBVIOUS
<1>12. q[n] = IF parent[n] = none THEN <<>> ELSE Append(p[parent[n]], Index(n))
  BY <1>11, Zenon
<1> HIDE DEF Rule
<1> QED BY <1>9, <1>10, <1>11, <1>12

LEMMA IndexIs ==
  ASSUME TreesOK
  PROVE  /\ \A m \in Node : parent[m] # none => Index(m) \in Nat \cup {none}
         /\ \A m \in Live : \A i \in DOMAIN children[m] :
              /\ parent[children[m][i]] = m
              /\ Index(children[m][i]) = i
         /\ \A m \in Node : parent[m] # none /\ m \in Kids(parent[m]) =>
              Index(m) \in DOMAIN children[parent[m]] /\ children[parent[m]][Index(m)] = m
<1>1. ASSUME NEW m \in Node, parent[m] # none
      PROVE  /\ Index(m) \in Nat \cup {none}
             /\ m \in Kids(parent[m]) =>
                  Index(m) \in DOMAIN children[parent[m]] /\ children[parent[m]][Index(m)] = m
  <2> DEFINE at == {i \in DOMAIN children[parent[m]] : children[parent[m]][i] = m}
  <2>1. Index(m) = IF at = {} THEN none ELSE CHOOSE i \in at : TRUE
    BY DEF Index
  <2>2. parent[m] \in Node
    BY <1>1, NodeFacts DEF TreesOK
  <2>3. DOMAIN children[parent[m]] \subseteq Nat
    BY <2>2, NodeFacts DEF TreesOK
  <2>4. at # {} => Index(m) \in at
    <3> HIDE DEF at
    <3> QED BY <2>1
  <2>5. m \in Kids(parent[m]) => at # {}
    BY <2>2, NodeFacts DEF TreesOK
  <2>6. at = {} => Index(m) = none
    <3> HIDE DEF at
    <3> QED BY <2>1
  <2> QED BY <2>3, <2>4, <2>5, <2>6
<1>2. ASSUME NEW m \in Live, NEW i \in DOMAIN children[m]
      PROVE  parent[children[m][i]] = m /\ Index(children[m][i]) = i
  <2>1. m \in Node /\ m # none
    BY NodeAssumption, NodeFacts DEF TreesOK
  <2>2. children[m][i] \in Kids(m) /\ children[m][i] \in Node
    BY <2>1, NodeFacts DEF TreesOK
  <2>3. parent[children[m][i]] = m
    BY <2>2 DEF TreesOK, ParentsAgree
  <2>4. /\ Index(children[m][i]) \in DOMAIN children[m]
        /\ children[m][Index(children[m][i])] = children[m][i]
    BY <1>1, <2>1, <2>2, <2>3
  <2> QED BY <2>1, <2>3, <2>4 DEF TreesOK, NoTwice, IsInjective
<1> QED BY <1>1, <1>2

\* Paths are sequences of indices, if only every node on the way is a child
\* of its parent.
LEMMA PathType ==
  ASSUME TreesOK, NEW n \in Node
  PROVE  Path(n) \in Seq(Nat \cup {none})
<1> DEFINE bad == {m \in Node : Path(m) \notin Seq(Nat \cup {none})}
<1> SUFFICES ASSUME bad # {} PROVE FALSE
  OBVIOUS
<1>1. PICK m \in bad : parent[m] \notin bad
  <2>1. bad \in SUBSET Node
    OBVIOUS
  <2> HIDE DEF bad
  <2> QED BY <2>1 DEF TreesOK, Ends, Rootless
<1>2. parent[m] \in Live \cup {none} /\ Live \subseteq Node
  BY NodeFacts DEF TreesOK
<1>3. /\ m \in Node /\ Path(m) \notin Seq(Nat \cup {none})
      /\ parent[m] # none => Path(parent[m]) \in Seq(Nat \cup {none})
  BY <1>1, <1>2
<1> HIDE DEF bad
<1>4. CASE parent[m] = none
  <2>1. Path(m) = <<>>
    BY <1>3, <1>4, PathUnfolds
  <2> QED BY <1>3, <2>1
<1>5. CASE parent[m] # none
  <2>1. Index(m) \in Nat \cup {none}
    BY <1>3, <1>5, IndexIs
  <2>2. Path(m) = Append(Path(parent[m]), Index(m))
    BY <1>3, <1>5, PathUnfolds
  <2>3. Append(Path(parent[m]), Index(m)) \in Seq(Nat \cup {none})
    BY <1>3, <1>5, <2>1
  <2> QED BY <1>3, <2>2, <2>3
<1> QED BY <1>4, <1>5

\* The nodes of a tree: below its root, each is a child of its parent, which
\* is one of them, and its path continues the one of the parent.
LEMMA NodesOfTree ==
  ASSUME TreesOK, NEW root \in Live, HasPath(root),
         NEW D, D = {m \in Node : PartOf(m, root)}
  PROVE  /\ root \in D /\ D \subseteq Live
         /\ \A m \in D : Kids(m) \subseteq D
         /\ \A m \in D : Path(m) \in Seq(Nat)
         /\ \A m \in D : \A i \in DOMAIN children[m] :
              Path(children[m][i]) = Append(Path(m), i)
         /\ \A m \in D \ {root} :
              /\ parent[m] \in D /\ m \in Kids(parent[m])
              /\ Len(Path(m)) > Len(Path(root))
<1>1. /\ root \in Node /\ Live \subseteq Node
      /\ \A m \in Node : Kids(m) \subseteq Live
  BY NodeFacts DEF TreesOK
<1>2. root \in D /\ \A m \in D : Kids(m) \subseteq D
  <2>1. root \in D
    BY <1>1 DEF PartOf
  <2>2. ASSUME NEW m \in D, NEW k \in Kids(m) PROVE k \in D
    <3>1. k \in Node
      BY <1>1
    <3> QED BY <3>1 DEF PartOf
  <2> QED BY <2>1, <2>2
<1>3. \A S \in SUBSET Node :
        root \in S /\ (\A s \in S : Kids(s) \subseteq S) => D \subseteq S
  BY DEF PartOf
<1>4. D \subseteq Live
  BY <1>1, <1>3
<1>5. \A m \in D : \A i \in DOMAIN children[m] :
        /\ children[m][i] \in D
        /\ parent[children[m][i]] = m
        /\ Path(children[m][i]) = Append(Path(m), i)
  <2> TAKE m \in D
  <2> TAKE i \in DOMAIN children[m]
  <2>1. children[m][i] \in Kids(m)
    BY <1>1, <1>4, NodeFacts DEF TreesOK
  <2>2. children[m][i] \in D /\ children[m][i] \in Node /\ m # none
    BY <1>1, <1>2, <1>4, <2>1, NodeAssumption
  <2>3. parent[children[m][i]] = m /\ Index(children[m][i]) = i
    BY <1>4, IndexIs
  <2> QED BY <2>2, <2>3, PathUnfolds
<1>6. Path(root) \in Seq(Nat)
  <2>1. PICK p : p = Path(root)
    OBVIOUS
  <2>2. p \in Seq(Nat \cup {none}) /\ none \notin Range(p)
    BY <1>1, <2>1, PathType DEF HasPath
  <2>3. \A i \in 1 .. Len(p) : p[i] \in Nat
    <3>1. \A i \in 1 .. Len(p) : p[i] \in Nat \cup {none} /\ p[i] \in Range(p)
      BY <2>2 DEF Range
    <3> QED BY <2>2, <3>1
  <2>4. p \in Seq(Nat)
    BY <2>2, <2>3, SeqDef
  <2> QED BY <2>1, <2>4
<1> DEFINE good == {m \in D : /\ Path(m) \in Seq(Nat)
                              /\ Len(Path(m)) >= Len(Path(root))
                              /\ m = root \/ ( /\ parent[m] \in D /\ m \in Kids(parent[m])
                                               /\ Len(Path(m)) > Len(Path(root)))}
<1>7. root \in good
  <2>1. Len(Path(root)) \in Nat
    BY <1>6
  <2> QED BY <1>2, <1>6, <2>1
<1>8. ASSUME NEW m \in good, NEW k \in Kids(m) PROVE k \in good
  <2>1. PICK i \in DOMAIN children[m] : k = children[m][i]
    BY <1>1, <1>4, NodeFacts DEF TreesOK
  <2>2. k \in D /\ parent[k] = m /\ Path(k) = Append(Path(m), i) /\ i \in Nat
    BY <1>1, <1>4, <1>5, <2>1, NodeFacts DEF TreesOK
  <2>3. /\ Path(m) \in Seq(Nat) /\ Len(Path(root)) \in Nat
        /\ Len(Path(m)) >= Len(Path(root))
    BY <1>6
  <2>4. Path(k) \in Seq(Nat) /\ Len(Path(k)) = Len(Path(m)) + 1
    BY <2>2, <2>3
  <2>5. Len(Path(m)) \in Nat
    BY <2>3
  <2>6. Len(Path(k)) > Len(Path(root)) /\ Len(Path(k)) >= Len(Path(root))
    BY <2>3, <2>4, <2>5
  <2>7. m \in D
    OBVIOUS
  <2> QED BY <1>8, <2>2, <2>4, <2>6, <2>7
<1>9. D \subseteq good
  <2>1. good \subseteq Node
    BY <1>1, <1>4
  <2> HIDE DEF good
  <2> QED BY <1>3, <1>7, <1>8, <2>1
<1>10. \A m \in D : Path(m) \in Seq(Nat)
  BY <1>9
<1>11. \A m \in D \ {root} :
         /\ parent[m] \in D /\ m \in Kids(parent[m])
         /\ Len(Path(m)) > Len(Path(root))
  BY <1>9
<1> HIDE DEF good
<1> QED BY <1>2, <1>4, <1>5, <1>10, <1>11

\* In a tree, a path leads to one node only.
LEMMA PathsDiffer ==
  ASSUME TreesOK, NEW root \in Live, HasPath(root),
         NEW D, D = {m \in Node : PartOf(m, root)},
         NEW m \in D, NEW o \in D, Path(m) = Path(o)
  PROVE  m = o
<1> DEFINE bad == {x \in D : \E y \in D : y # x /\ Path(x) = Path(y)}
<1> SUFFICES ASSUME bad # {} PROVE FALSE
  OBVIOUS
<1>1. /\ root \in D /\ D \subseteq Live /\ Live \subseteq Node
      /\ \A x \in D : Path(x) \in Seq(Nat)
      /\ \A x \in D : \A i \in DOMAIN children[x] :
           Path(children[x][i]) = Append(Path(x), i)
      /\ \A x \in D \ {root} : /\ parent[x] \in D /\ x \in Kids(parent[x])
                                /\ Len(Path(x)) > Len(Path(root))
  BY NodesOfTree DEF Live
<1>2. PICK x \in bad : parent[x] \notin bad
  <2>1. bad \in SUBSET Node
    BY <1>1
  <2> HIDE DEF bad
  <2> QED BY <2>1 DEF TreesOK, Ends, Rootless
<1>3. PICK y \in D : y # x /\ Path(x) = Path(y)
  OBVIOUS
<1>4. x # root /\ y # root /\ x \in D
  <2>1. x \in D /\ Len(Path(root)) \in Nat
    BY <1>1
  <2> HIDE DEF bad
  <2> QED BY <1>1, <1>3, <2>1
<1> DEFINE px == parent[x]
           py == parent[y]
<1>5. /\ px \in D /\ py \in D /\ px \in Live /\ py \in Live
      /\ x \in Kids(px) /\ y \in Kids(py)
  BY <1>1, <1>3, <1>4
<1>6. px \in Node /\ py \in Node
  BY <1>1, <1>5
<1> HIDE DEF bad, px, py
<1>7. PICK i \in DOMAIN children[px] : x = children[px][i]
  BY <1>5, <1>6, NodeFacts DEF TreesOK
<1>8. PICK j \in DOMAIN children[py] : y = children[py][j]
  BY <1>5, <1>6, NodeFacts DEF TreesOK
<1>9. Append(Path(px), i) = Append(Path(py), j)
  BY <1>1, <1>3, <1>5, <1>7, <1>8
<1>10. i \in Nat /\ j \in Nat
  BY <1>5, <1>6, <1>7, <1>8, NodeFacts DEF TreesOK
<1>11. Path(px) = Path(py) /\ i = j
  BY <1>1, <1>5, <1>9, <1>10, AppendInjective
<1>12. px = py
  BY <1>2, <1>5, <1>11 DEF bad, px
<1> QED BY <1>3, <1>7, <1>8, <1>11, <1>12

\* What is found below a node is a part of the tree.
LEMMA BelowIsPart ==
  ASSUME TreesOK, NEW root \in Node, NEW m \in Below(root)
  PROVE  PartOf(m, root)
<1> DEFINE Rule(f) == [x \in Node |-> {x} \cup UNION {f[k] : k \in Kids(x)}]
           parts == [x \in Node |-> {y \in Node : PartOf(y, x)}]
<1>1. \A x \in Node : Kids(x) \subseteq Node
  BY NodeFacts DEF TreesOK
<1>2. \A x \in Node : parts[x] = {y \in Node : PartOf(y, x)}
  OBVIOUS
<1> HIDE DEF parts
<1>3. ASSUME NEW x \in Node PROVE parts[x] = {x} \cup UNION {parts[k] : k \in Kids(x)}
  <2> DEFINE T == {x} \cup UNION {parts[k] : k \in Kids(x)}
  <2>1. T \subseteq Node
    BY <1>1, <1>2
  <2>2. ASSUME NEW s \in T, NEW k \in Kids(s) PROVE k \in T
    <3>1. CASE s = x
      <4>1. k \in parts[k] /\ k \in Kids(x)
        BY <1>1, <1>2, <3>1 DEF PartOf
      <4> QED BY <4>1
    <3>2. CASE \E h \in Kids(x) : s \in parts[h]
      <4>1. PICK h \in Kids(x) : s \in parts[h]
        BY <3>2
      <4>2. h \in Node /\ s \in Node /\ PartOf(s, h)
        BY <1>1, <1>2, <4>1
      <4>3. k \in Node /\ PartOf(k, h)
        BY <1>1, <4>2 DEF PartOf
      <4>4. k \in parts[h]
        BY <1>2, <4>2, <4>3
      <4> QED BY <4>4
    <3> QED BY <3>1, <3>2
  <2>3. parts[x] \subseteq T
    <3>1. x \in T
      OBVIOUS
    <3> HIDE DEF T
    <3> QED BY <1>2, <2>1, <2>2, <3>1 DEF PartOf
  <2>4. T \subseteq parts[x]
    <3>1. x \in parts[x]
      BY <1>2 DEF PartOf
    <3>2. ASSUME NEW k \in Kids(x), NEW y \in parts[k] PROVE y \in parts[x]
      <4>1. y \in Node /\ PartOf(y, k)
        BY <1>1, <1>2, <3>2
      <4>2. PartOf(y, x)
        BY <4>1 DEF PartOf
      <4> QED BY <1>2, <4>1, <4>2
    <3> QED BY <3>1, <3>2
  <2> QED BY <2>3, <2>4
<1>4. parts = Rule(parts)
  <2>1. parts = [x \in Node |-> parts[x]]
    BY DEF parts
  <2>2. [x \in Node |-> parts[x]] = Rule(parts)
    BY <1>3
  <2> QED BY <2>1, <2>2
<1>5. PICK b : b = CHOOSE f : f = Rule(f)
  OBVIOUS
<1>6. b = Rule(b)
  <2> HIDE DEF Rule
  <2> QED BY <1>4, <1>5
<1>7. Below(root) = b[root]
  BY <1>5, Zenon DEF Below
<1>8. \A x \in Node : b[x] = {x} \cup UNION {b[k] : k \in Kids(x)}
  <2> TAKE x \in Node
  <2>1. PICK c : c = Rule(b)
    OBVIOUS
  <2>2. c[x] = {x} \cup UNION {b[k] : k \in Kids(x)}
    BY <2>1, Zenon
  <2> HIDE DEF Rule
  <2> QED BY <1>6, <2>1, <2>2
<1> DEFINE bad == {x \in Node : ~(b[x] \subseteq parts[x])}
<1>9. ASSUME bad # {} PROVE FALSE
  <2>1. PICK x \in bad : Kids(x) \cap bad = {}
    <3>1. bad \in SUBSET Node
      OBVIOUS
    <3> HIDE DEF bad
    <3> QED BY <1>9, <3>1, Innermost
  <2>2. \A k \in Kids(x) : b[k] \subseteq parts[k]
    BY <1>1, <2>1
  <2>3. x \in Node /\ ~(b[x] \subseteq parts[x])
    OBVIOUS
  <2> HIDE DEF bad
  <2> QED BY <1>3, <1>8, <2>2, <2>3
<1>10. m \in parts[root]
  BY <1>7, <1>9
<1> QED BY <1>2, <1>10

\* The tree with the given node replaced, as ReplacesThatNode defines it.
Want(root, old, new) ==
  LET want[m \in Node] ==
        IF m = old /\ label[m] = label[new] /\ ~readOnly[m] THEN Value(new)
        ELSE <<label[m], [i \in DOMAIN children[m] |-> want[children[m][i]]]>>
  IN want[root]

LEMMA WantUnfolds ==
  ASSUME TreesOK, NEW old, NEW new
  PROVE  \E want :
           /\ \A m : Want(m, old, new) = want[m]
           /\ \A m \in Node :
                want[m] = IF m = old /\ label[m] = label[new] /\ ~readOnly[m] THEN Value(new)
                          ELSE <<label[m], [i \in DOMAIN children[m] |-> want[children[m][i]]]>>
<1> DEFINE Rule(f) ==
      [m \in Node |->
         IF m = old /\ label[m] = label[new] /\ ~readOnly[m] THEN Value(new)
         ELSE <<label[m], [i \in DOMAIN children[m] |-> f[children[m][i]]]>>]
           leaves == {m \in Node : m = old /\ label[m] = label[new] /\ ~readOnly[m]}
<1>1. PICK c : c = [of |-> Node, next |-> children, leaves |-> leaves, leaf |-> Value(new),
                    lab |-> label, makes |-> "tree"]
  OBVIOUS
<1>2. /\ c.of = Node /\ c.next = children /\ c.leaves = leaves /\ c.leaf = Value(new)
      /\ c.lab = label /\ c.makes = "tree"
  BY <1>1
<1>3. \A m \in Node : m \in leaves <=> m = old /\ label[m] = label[new] /\ ~readOnly[m]
  BY Zenon
<1> HIDE DEF leaves
<1>4. \A m \in Node : \A i \in DOMAIN children[m] : children[m][i] \in Kids(m) \cap Node
  BY NodeFacts DEF TreesOK
<1>5. WellFounded(c)
  <2>1. ClosedIn(c, Node)
    BY <1>2, <1>4 DEF ClosedIn
  <2>2. ASSUME NEW S \in SUBSET Node, S # {}
        PROVE  \E x \in S : \A i \in DOMAIN children[x] : children[x][i] \notin S
    <3>1. PICK x \in S : Kids(x) \cap S = {}
      BY <2>2, Innermost
    <3> QED BY <1>4, <3>1
  <2> QED BY <1>2, <2>1, <2>2 DEF WellFounded
<1>6. PICK f : Solves(c, Node, f)
  BY <1>2, <1>5, SolutionExists
<1>7. \A m \in Node :
        f[m] = IF m = old /\ label[m] = label[new] /\ ~readOnly[m] THEN Value(new)
               ELSE <<label[m], [i \in DOMAIN children[m] |-> f[children[m][i]]]>>
  <2> TAKE m \in Node
  <2>1. f[m] = Unfolded(c, m, f)
    BY <1>6, Zenon DEF Solves
  <2>2. Unfolded(c, m, f) = IF m \in leaves THEN Value(new)
               ELSE <<label[m], [i \in DOMAIN children[m] |-> f[children[m][i]]]>>
    BY <1>2 DEF Unfolded
  <2> QED BY <1>3, <2>1, <2>2, Zenon
<1>8. f = Rule(f)
  <2>1. f = [m \in Node |-> f[m]]
    BY <1>6, Zenon DEF Solves
  <2>2. [m \in Node |-> f[m]] = Rule(f)
    BY <1>7, Zenon
  <2> QED BY <2>1, <2>2
<1>9. PICK w : w = CHOOSE g : g = Rule(g)
  OBVIOUS
<1>10. w = Rule(w)
  <2> HIDE DEF Rule
  <2> QED BY <1>8, <1>9
<1>11. \A m : Want(m, old, new) = w[m]
  BY <1>9, Zenon DEF Want
<1>12. \A m \in Node :
         w[m] = IF m = old /\ label[m] = label[new] /\ ~readOnly[m] THEN Value(new)
                ELSE <<label[m], [i \in DOMAIN children[m] |-> w[children[m][i]]]>>
  <2> TAKE m \in Node
  <2>1. PICK q : q = Rule(w)
    OBVIOUS
  <2>2. q[m] = IF m = old /\ label[m] = label[new] /\ ~readOnly[m] THEN Value(new)
               ELSE <<label[m], [i \in DOMAIN children[m] |-> w[children[m][i]]]>>
    BY <2>1, Zenon
  <2> HIDE DEF Rule
  <2>3. q = w
    BY <1>10, <2>1
  <2> QED BY <2>2, <2>3, Zenon
<1> HIDE DEF Rule
<1> QED BY <1>11, <1>12

\* out has the values that Replacement looks up.
Outs(out, at, new) ==
  /\ \A x : Replacement(x, at, new) = out[x][Path(x)]
  /\ \A m \in Node : \A path \in Seq(Nat) :
       out[m][path] =
         IF Replaces(m, path, at, new) THEN Value(new)
         ELSE <<label[m], [i \in DOMAIN children[m] |->
                             out[children[m][i]][Append(path, i)]]>>

LEMMA ReplacementUnfolds ==
  ASSUME TreesOK, NEW at, NEW new
  PROVE  \E out : Outs(out, at, new)
<1> DEFINE Rule(f) ==
      [m \in Node |->
         [path \in Seq(Nat) |->
            IF Replaces(m, path, at, new) THEN Value(new)
            ELSE <<label[m], [i \in DOMAIN children[m] |->
                                f[children[m][i]][Append(path, i)]]>>]]
           leaves == {x \in Node \X Seq(Nat) : Replaces(x[1], x[2], at, new)}
           next == [x \in Node \X Seq(Nat) |->
                      [i \in DOMAIN children[x[1]] |->
                         <<children[x[1]][i], Append(x[2], i)>>]]
           lab == [x \in Node \X Seq(Nat) |-> label[x[1]]]
<1>1. PICK c : c = [of |-> Node \X Seq(Nat), next |-> next, leaves |-> leaves,
                    leaf |-> Value(new), lab |-> lab, makes |-> "tree"]
  OBVIOUS
<1>2. /\ c.of = Node \X Seq(Nat) /\ c.next = next /\ c.leaves = leaves
      /\ c.leaf = Value(new) /\ c.lab = lab /\ c.makes = "tree"
  BY <1>1
<1>3. \A m \in Node : \A path \in Seq(Nat) :
        /\ <<m, path>> \in leaves <=> Replaces(m, path, at, new)
        /\ lab[<<m, path>>] = label[m]
        /\ DOMAIN next[<<m, path>>] = DOMAIN children[m]
        /\ \A i \in DOMAIN children[m] :
             next[<<m, path>>][i] = <<children[m][i], Append(path, i)>>
  OBVIOUS
<1> HIDE DEF leaves, next, lab
<1>4. \A m \in Node : \A i \in DOMAIN children[m] :
        children[m][i] \in Kids(m) /\ children[m][i] \in Node /\ i \in Nat
  BY NodeFacts DEF TreesOK
<1>5. \A m \in Node : \A path \in Seq(Nat) : \A i \in DOMAIN children[m] :
        children[m][i] \in Node /\ Append(path, i) \in Seq(Nat)
  BY <1>4
<1>6. WellFounded(c)
  <2>1. ClosedIn(c, Node \X Seq(Nat))
    <3>1. ASSUME NEW m \in Node, NEW path \in Seq(Nat), NEW i \in DOMAIN next[<<m, path>>]
          PROVE  next[<<m, path>>][i] \in Node \X Seq(Nat)
      <4>1. i \in DOMAIN children[m]
        BY <1>3
      <4>2. next[<<m, path>>][i] = <<children[m][i], Append(path, i)>>
        BY <1>3, <4>1
      <4>3. PICK longer : longer = Append(path, i)
        OBVIOUS
      <4>4. children[m][i] \in Node /\ longer \in Seq(Nat)
        BY <1>5, <4>1, <4>3
      <4>5. next[<<m, path>>][i] = <<children[m][i], longer>>
        BY <4>2, <4>3
      <4> QED BY <4>4, <4>5
    <3>2. \A x \in Node \X Seq(Nat) : \A i \in DOMAIN next[x] : next[x][i] \in Node \X Seq(Nat)
      BY <3>1
    <3> QED BY <1>2, <3>2 DEF ClosedIn
  <2>2. ASSUME NEW S \in SUBSET (Node \X Seq(Nat)), S # {}
        PROVE  \E x \in S : \A i \in DOMAIN next[x] : next[x][i] \notin S
    <3> DEFINE T == {m \in Node : \E path \in Seq(Nat) : <<m, path>> \in S}
    <3>1. T # {}
      BY <2>2
    <3>2. PICK m \in T : Kids(m) \cap T = {}
      <4>1. T \in SUBSET Node
        OBVIOUS
      <4> HIDE DEF T
      <4> QED BY <3>1, <4>1, Innermost
    <3>3. PICK path \in Seq(Nat) : <<m, path>> \in S
      OBVIOUS
    <3>4. ASSUME NEW i \in DOMAIN next[<<m, path>>] PROVE next[<<m, path>>][i] \notin S
      <4>1. m \in Node /\ i \in DOMAIN children[m]
        BY <1>3
      <4>2. /\ next[<<m, path>>][i] = <<children[m][i], Append(path, i)>>
            /\ children[m][i] \in Kids(m) /\ children[m][i] \in Node
            /\ Append(path, i) \in Seq(Nat)
        BY <1>3, <1>4, <1>5, <4>1
      <4>3. children[m][i] \notin T
        BY <3>2, <4>2
      <4> QED BY <4>2, <4>3
    <3> QED BY <3>3, <3>4
  <2> QED BY <1>2, <2>1, <2>2 DEF WellFounded
<1>7. PICK f : Solves(c, Node \X Seq(Nat), f)
  BY <1>2, <1>6, SolutionExists
<1> DEFINE g == [m \in Node |-> [path \in Seq(Nat) |-> f[<<m, path>>]]]
<1>8. \A m \in Node : \A path \in Seq(Nat) : g[m][path] = f[<<m, path>>]
  OBVIOUS
<1>9. g = [m \in Node |-> [path \in Seq(Nat) |-> g[m][path]]]
  OBVIOUS
<1> HIDE DEF g
<1>10. \A m \in Node : \A path \in Seq(Nat) :
         g[m][path] = IF Replaces(m, path, at, new) THEN Value(new)
                      ELSE <<label[m], [i \in DOMAIN children[m] |->
                                          g[children[m][i]][Append(path, i)]]>>
  <2> TAKE m \in Node
  <2> TAKE path \in Seq(Nat)
  <2>1. f[<<m, path>>] = Unfolded(c, <<m, path>>, f)
    <3>1. <<m, path>> \in Node \X Seq(Nat)
      OBVIOUS
    <3> QED BY <1>7, <3>1, Zenon DEF Solves
  <2>2. CASE Replaces(m, path, at, new)
    <3>1. Unfolded(c, <<m, path>>, f) = Value(new)
      BY <1>2, <1>3, <2>2 DEF Unfolded
    <3> QED BY <1>8, <2>1, <2>2, <3>1
  <2>3. CASE ~Replaces(m, path, at, new)
    <3>1. Unfolded(c, <<m, path>>, f)
            = <<label[m], [i \in DOMAIN next[<<m, path>>] |-> f[next[<<m, path>>][i]]]>>
      BY <1>2, <1>3, <2>3 DEF Unfolded
    <3>2. [i \in DOMAIN next[<<m, path>>] |-> f[next[<<m, path>>][i]]]
            = [i \in DOMAIN children[m] |-> g[children[m][i]][Append(path, i)]]
      <4>1. DOMAIN next[<<m, path>>] = DOMAIN children[m]
        BY <1>3
      <4>2. ASSUME NEW i \in DOMAIN children[m]
            PROVE  f[next[<<m, path>>][i]] = g[children[m][i]][Append(path, i)]
        <5>1. next[<<m, path>>][i] = <<children[m][i], Append(path, i)>>
          BY <1>3
        <5>2. g[children[m][i]][Append(path, i)] = f[<<children[m][i], Append(path, i)>>]
          BY <1>5, <1>8
        <5> QED BY <5>1, <5>2
      <4> QED BY <4>1, <4>2
    <3> QED BY <1>8, <2>1, <2>3, <3>1, <3>2
  <2> QED BY <2>2, <2>3
<1>11. g = Rule(g)
  <2>1. [m \in Node |-> [path \in Seq(Nat) |-> g[m][path]]] = Rule(g)
    BY <1>10, Zenon
  <2> QED BY <1>9, <2>1
<1>12. PICK o : o = CHOOSE h : h = Rule(h)
  OBVIOUS
<1>13. o = Rule(o)
  <2> HIDE DEF Rule
  <2> QED BY <1>11, <1>12
<1>14. \A root : Replacement(root, at, new) = o[root][Path(root)]
  BY <1>12, Zenon DEF Replacement
<1>15. \A m \in Node : \A path \in Seq(Nat) :
         o[m][path] = IF Replaces(m, path, at, new) THEN Value(new)
                      ELSE <<label[m], [i \in DOMAIN children[m] |->
                                          o[children[m][i]][Append(path, i)]]>>
  <2> TAKE m \in Node
  <2> TAKE path \in Seq(Nat)
  <2>1. PICK q : q = Rule(o)
    OBVIOUS
  <2>2. q[m][path] = IF Replaces(m, path, at, new) THEN Value(new)
                     ELSE <<label[m], [i \in DOMAIN children[m] |->
                                         o[children[m][i]][Append(path, i)]]>>
    BY <2>1, Zenon
  <2> HIDE DEF Rule
  <2>3. q = o
    BY <1>13, <2>1
  <2> QED BY <2>2, <2>3, Zenon
<1> HIDE DEF Rule
<1> QED BY <1>14, <1>15 DEF Outs

\* Replacing by path is replacing by identity: in the tree of root, the node
\* old is the only one with its path.
LEMMA ReplacesByIdentity ==
  ASSUME TreesOK, NEW root \in Live, NEW old, PartOf(old, root), NEW new,
         HasPath(root)
  PROVE  Replacement(root, Path(old), new) = Want(root, old, new)
<1> DEFINE D == {m \in Node : PartOf(m, root)}
<1>0. PICK at : at = Path(old)
  OBVIOUS
<1>1. PICK out : Outs(out, at, new)
  BY ReplacementUnfolds
<1>2. PICK want :
        /\ \A m : Want(m, old, new) = want[m]
        /\ \A m \in Node :
             want[m] = IF m = old /\ label[m] = label[new] /\ ~readOnly[m] THEN Value(new)
                       ELSE <<label[m], [i \in DOMAIN children[m] |-> want[children[m][i]]]>>
  BY WantUnfolds
<1>3. /\ root \in D /\ D \subseteq Live /\ Live \subseteq Node
      /\ \A m \in D : Kids(m) \subseteq D
      /\ \A m \in D : Path(m) \in Seq(Nat)
      /\ \A m \in D : \A i \in DOMAIN children[m] :
           Path(children[m][i]) = Append(Path(m), i)
  BY NodesOfTree DEF Live
<1>4. old \in D
  <2>1. \A S \in SUBSET Node : root \in S /\ (\A s \in S : Kids(s) \subseteq S) => old \in S
    BY DEF PartOf
  <2> HIDE DEF D
  <2>2. D \in SUBSET Node
    BY <1>3
  <2> QED BY <1>3, <2>1, <2>2
<1>5. \A m \in D : Path(m) = at <=> m = old
  BY <1>0, <1>4, PathsDiffer
<1> DEFINE bad == {m \in D : out[m][Path(m)] # want[m]}
<1> HIDE DEF D
<1>6. ASSUME bad # {} PROVE FALSE
  <2>1. PICK m \in bad : Kids(m) \cap bad = {}
    <3>1. bad \in SUBSET Node
      BY <1>3
    <3> HIDE DEF bad
    <3> QED BY <1>6, <3>1, Innermost
  <2>2. m \in D /\ m \in Node /\ Path(m) \in Seq(Nat) /\ out[m][Path(m)] # want[m]
    BY <1>3
  <2>3. \A i \in DOMAIN children[m] :
          out[children[m][i]][Append(Path(m), i)] = want[children[m][i]]
    <3> TAKE i \in DOMAIN children[m]
    <3>1. children[m][i] \in Kids(m) /\ children[m][i] \in D
      BY <1>3, <2>2, NodeFacts DEF TreesOK
    <3>2. Path(children[m][i]) = Append(Path(m), i)
      BY <1>3, <2>2
    <3>3. out[children[m][i]][Path(children[m][i])] = want[children[m][i]]
      BY <2>1, <3>1
    <3> QED BY <3>2, <3>3
  <2> HIDE DEF bad
  <2>4. [i \in DOMAIN children[m] |-> out[children[m][i]][Append(Path(m), i)]]
          = [i \in DOMAIN children[m] |-> want[children[m][i]]]
    BY <2>3
  <2>5. Replaces(m, Path(m), at, new)
          <=> m = old /\ label[m] = label[new] /\ ~readOnly[m]
    BY <1>5, <2>2, Zenon DEF Replaces
  <2>6. out[m][Path(m)] =
          IF Replaces(m, Path(m), at, new) THEN Value(new)
          ELSE <<label[m], [i \in DOMAIN children[m] |->
                              out[children[m][i]][Append(Path(m), i)]]>>
    BY <1>1, <2>2, Zenon DEF Outs
  <2>7. want[m] =
          IF m = old /\ label[m] = label[new] /\ ~readOnly[m] THEN Value(new)
          ELSE <<label[m], [i \in DOMAIN children[m] |-> want[children[m][i]]]>>
    BY <1>2, <2>2, Zenon
  <2> QED BY <2>2, <2>4, <2>5, <2>6, <2>7, Zenon
<1>7. out[root][Path(root)] = want[root]
  BY <1>3, <1>6
<1>8. Replacement(root, at, new) = out[root][Path(root)]
  BY <1>1, Zenon DEF Outs
<1> QED BY <1>0, <1>2, <1>7, <1>8
-----------------------------------------------------------------------------
(* The invariant of replacement.                                           *)

\* Going up never ends only from where invalidate_hash is, which then does not
\* end either: a node has adopted what still called something below it its
\* child's parent.
Rooted ==
  \A S \in SUBSET Node :
    Rootless(S) => Running("invalidate_hash") /\ Head(todo)[2] \in S

\* set_children is to be called with different trees.
Waiting == \A c \in Range(todo) : c[1] = "set_children" => IsInjective(c[3])

\* While replace() compares the tree that it has made, the tree that it was
\* called for stays the same.
Replacing ==
  call.op = "replace" =>
    \E root, old, new \in Live :
      /\ call.args = <<root, old, new>>
      /\ PartOf(old, root)
      /\ \/ todo = <<<<"replace", root, old, new>>>>
         \/ /\ \A c \in Range(todo) : c[1] \in Comparing
            /\ call.raised \/ call.result = Want(root, old, new)

RInv == Rooted /\ NoTwice /\ Waiting /\ IsFiniteSet(Live) /\ Replacing

LEMMA ReplacesThatNodeFollows ==
  ASSUME RInv
  PROVE  ReplacesThatNode
<1> SUFFICES ASSUME Returning, call.op = "replace", ~call.raised
             PROVE  call.result = Want(call.args[1], call.args[2], call.args[3])
  BY Zenon DEF ReplacesThatNode, Want
<1>1. PICK root \in Live, old \in Live, new \in Live :
        /\ call.args = <<root, old, new>>
        /\ \/ todo = <<<<"replace", root, old, new>>>>
           \/ call.raised \/ call.result = Want(root, old, new)
  BY Zenon DEF RInv, Replacing
<1>2. todo # <<<<"replace", root, old, new>>>>
  BY DEF Returning
<1>3. call.args[1] = root /\ call.args[2] = old /\ call.args[3] = new
  BY <1>1
<1> QED BY <1>1, <1>2, <1>3

\* Want, as it depends on what the nodes look like.
WantFor(l, kids, fixed, root, old, new) ==
  LET value[m \in Node] == <<l[m], [i \in DOMAIN kids[m] |-> value[kids[m][i]]]>>
      want[m \in Node] ==
        IF m = old /\ l[m] = l[new] /\ ~fixed[m] THEN value[new]
        ELSE <<l[m], [i \in DOMAIN kids[m] |-> want[kids[m][i]]]>>
  IN want[root]

LEMMA WantStays ==
  ASSUME NEW root, NEW old, NEW new, UNCHANGED <<label, children, readOnly>>
  PROVE  Want(root, old, new)' = Want(root, old, new)
<1>1. Want(root, old, new) = WantFor(label, children, readOnly, root, old, new)
  BY Zenon DEF Want, Value, WantFor
<1>2. Want(root, old, new)' = WantFor(label', children', readOnly', root, old, new)
  BY Zenon DEF Want, Value, WantFor
<1> QED BY <1>1, <1>2

LEMMA EndsNow ==
  ASSUME IInv, RInv, ~Running("invalidate_hash")
  PROVE  Ends /\ TreesOK
BY DEF RInv, Rooted, Ends, TreesOK, IInv

\* A step that changes no edge.
LEMMA EdgesStay ==
  ASSUME IInv, RInv, ~Running("invalidate_hash"), Live' = Live,
         UNCHANGED <<children, parent>>, Waiting', Replacing'
  PROVE  RInv'
<1>1. \A S \in SUBSET Node : ~Rootless(S)'
  BY EndsNow DEF Ends, Rootless
<1>2. Rooted'
  BY <1>1 DEF Rooted
<1>3. NoTwice'
  BY DEF RInv, NoTwice
<1> QED BY <1>2, <1>3 DEF RInv

\* A step that gives a node other children, and calls invalidate_hash for it.
LEMMA EdgesChange ==
  ASSUME IInv, RInv, ~Running("invalidate_hash"), IsFiniteSet(Live'),
         NEW n \in Node, NEW kids, IsInjective(kids), Adopt(n, kids),
         InvalidatesNext(n)', Waiting', Replacing'
  PROVE  RInv'
<1>1. Ends
  BY EndsNow
<1>2. Rooted'
  <2> SUFFICES ASSUME NEW S \in SUBSET Node, Rootless(S)'
               PROVE  Running("invalidate_hash")' /\ Head(todo')[2] \in S
    BY DEF Rooted
  <2>1. n \in S
    <3> SUFFICES ASSUME n \notin S PROVE FALSE
      OBVIOUS
    <3>1. \A m \in S : parent'[m] \in S /\ parent'[m] # n
      BY DEF Rootless
    <3>2. \A m \in S : parent[m] \in S
      BY <3>1 DEF Adopt
    <3> QED BY <1>1, <3>2 DEF Ends, Rootless
  <2> QED BY <2>1 DEF InvalidatesNext, Running
<1>3. NoTwice'
  <2>1. children' = [children EXCEPT ![n] = kids]
    BY DEF Adopt
  <2>2. \A m \in Node : children'[m] = IF m = n THEN kids ELSE children[m]
    BY <2>1 DEF IInv, TypeOK
  <2> QED BY <2>2 DEF RInv, NoTwice
<1> QED BY <1>2, <1>3 DEF RInv

\* The calls that are to be made after a step.
LEMMA WaitingAfter ==
  ASSUME IInv, RInv, todo # <<>>, NEW calls, calls \in Seq(Range(calls)), Then(calls),
         \A c \in Range(calls) : c[1] = "set_children" => IsInjective(c[3])
  PROVE  Waiting'
<1>1. Range(todo') \subseteq Range(calls) \cup Range(todo)
  BY Replaced DEF IInv, TodoOK, Then
<1> QED BY <1>1 DEF RInv, Waiting

LEMMA EmptyCalls ==
  /\ <<>> \in Seq(Range(<<>>)) /\ Range(<<>>) = {}
  /\ \A c : <<c>> \in Seq(Range(<<c>>)) /\ Range(<<c>>) = {c}
  /\ \A c, d : <<c, d>> \in Seq(Range(<<c, d>>)) /\ Range(<<c, d>>) = {c, d}
<1>1. Range(<<>>) = {}
  BY DEF Range
<1>2. ASSUME NEW c PROVE <<c>> \in Seq(Range(<<c>>)) /\ Range(<<c>>) = {c}
  <2>1. <<c>> \in Seq({c}) /\ DOMAIN <<c>> = {1} /\ <<c>>[1] = c
    OBVIOUS
  <2>2. Range(<<c>>) = {c}
    BY <2>1 DEF Range
  <2> QED BY <2>1, <2>2
<1>3. ASSUME NEW c, NEW d
      PROVE  <<c, d>> \in Seq(Range(<<c, d>>)) /\ Range(<<c, d>>) = {c, d}
  <2>1. <<c, d>> \in Seq({c, d}) /\ DOMAIN <<c, d>> = {1, 2}
        /\ <<c, d>>[1] = c /\ <<c, d>>[2] = d
    OBVIOUS
  <2>2. Range(<<c, d>>) = {c, d}
    BY <2>1 DEF Range
  <2> QED BY <2>1, <2>2
<1> QED BY <1>1, <1>2, <1>3

\* A method other than replace, while which of its calls are made.
LEMMA OtherMethod ==
  ASSUME IInv, RInv, todo # <<>>, Head(todo)[1] \notin Comparing \cup {"replace"}
  PROVE  call.op # "replace"
<1> SUFFICES ASSUME call.op = "replace" PROVE FALSE
  OBVIOUS
<1>1. PICK root, old, new :
        \/ todo = <<<<"replace", root, old, new>>>>
        \/ \A c \in Range(todo) : c[1] \in Comparing
  BY Zenon DEF RInv, Replacing
<1>2. Head(todo) \in Range(todo)
  BY HeadInRange DEF IInv, TodoOK
<1>3. CASE todo = <<<<"replace", root, old, new>>>>
  <2>1. Head(todo)[1] = "replace"
    BY <1>3
  <2> QED BY <2>1
<1>4. CASE \A c \in Range(todo) : c[1] \in Comparing
  BY <1>2, <1>4
<1> QED BY <1>1, <1>3, <1>4

\* A step of a comparison.
LEMMA ComparingStep ==
  ASSUME IInv, RInv, todo # <<>>, Head(todo)[1] \in Comparing,
         NEW calls, calls \in Seq(Range(calls)), Then(calls),
         \A c \in Range(calls) : c[1] \in Comparing,
         UNCHANGED <<label, children, parent, readOnly, call>>
  PROVE  Replacing' /\ Waiting' /\ Live' = Live /\ NoTwice'
<1>1. Live' = Live
  BY DEF Live
<1>2. Waiting'
  BY WaitingAfter DEF Comparing
<1>3. Range(todo') \subseteq Range(calls) \cup Range(todo)
  BY Replaced DEF IInv, TodoOK, Then
<1>4. Replacing'
  <2> SUFFICES ASSUME call.op = "replace"
               PROVE  \E root, old, new \in Live :
                        /\ call.args = <<root, old, new>>
                        /\ PartOf(old, root)'
                        /\ \A c \in Range(todo') : c[1] \in Comparing
                        /\ call.raised \/ call.result = Want(root, old, new)'
    BY <1>1 DEF Replacing
  <2>1. PICK root \in Live, old \in Live, new \in Live :
          /\ call.args = <<root, old, new>>
          /\ PartOf(old, root)
          /\ \/ todo = <<<<"replace", root, old, new>>>>
             \/ /\ \A c \in Range(todo) : c[1] \in Comparing
                /\ call.raised \/ call.result = Want(root, old, new)
    BY Zenon DEF RInv, Replacing
  <2>2. todo # <<<<"replace", root, old, new>>>>
    <3>1. todo = <<<<"replace", root, old, new>>>> => Head(todo)[1] = "replace"
      OBVIOUS
    <3> QED BY <3>1 DEF Comparing
  <2>3. \A c \in Range(todo') : c[1] \in Comparing
    BY <1>3, <2>1, <2>2
  <2>4. PartOf(old, root)'
    BY <2>1 DEF PartOf, Kids
  <2>5. Want(root, old, new)' = Want(root, old, new)
    BY WantStays
  <2> QED BY <2>1, <2>2, <2>3, <2>4, <2>5
<1>5. NoTwice'
  BY DEF RInv, NoTwice
<1> QED BY <1>1, <1>2, <1>4, <1>5

LEMMA RaisedCall ==
  ASSUME IInv, Raise
  PROVE  call'.op = call.op /\ call'.args = call.args /\ call'.raised = TRUE
BY DEF Raise, IInv, TypeOK, CallTypeOK, NoCall

\* The program calls a method other than replace.
LEMMA CallsMethod ==
  ASSUME NEW op, NEW args, Call(op, args)
  PROVE  call'.op = op /\ call'.args = args
BY DEF Call, NoCall

\* A method starts with calls other than of set_children.
LEMMA WaitingFirst ==
  /\ todo' = <<>> => Waiting'
  /\ \A c : todo' = <<c>> /\ c[1] # "set_children" => Waiting'
  /\ \A c, d : todo' = <<c, d>> /\ c[1] # "set_children" /\ d[1] # "set_children" => Waiting'
BY EmptyCalls DEF Waiting
-----------------------------------------------------------------------------
LEMMA RInvInit ==
  ASSUME Init
  PROVE  RInv
<1>1. Live = {} /\ todo = <<>> /\ call.op = ""
  BY DEF Init, Live, NoCall
<1>2. Rooted
  <2> SUFFICES ASSUME NEW S \in SUBSET Node, Rootless(S) PROVE FALSE
    BY DEF Rooted
  <2>1. \A m \in S : parent[m] = none
    BY DEF Init
  <2> QED BY <2>1, NodeAssumption DEF Rootless
<1>3. NoTwice
  BY DEF Init, NoTwice, IsInjective
<1>4. Waiting
  BY <1>1, EmptyCalls DEF Waiting
<1> QED BY <1>1, <1>2, <1>3, <1>4, FS_EmptySet DEF RInv, Replacing

LEMMA RInvInvalidate ==
  ASSUME IInv, RInv, InvalidateHash
  PROVE  RInv'
<1>1. PICK n : n = Head(todo)[2]
  OBVIOUS
<1>2. PICK p : p = parent[n]
  OBVIOUS
<1>3. PICK c : c = Invalidate(p)
  OBVIOUS
<1>4. /\ todo # <<>> /\ Head(todo)[1] = "invalidate_hash"
      /\ Then(IF p = none THEN <<>> ELSE <<c>>)
      /\ UNCHANGED <<label, children, parent, readOnly, call>>
  BY <1>1, <1>2, <1>3 DEF InvalidateHash, Running
<1>5. c[1] = "invalidate_hash" /\ c[2] = p /\ c[1] \in Comparing
  BY <1>3 DEF Invalidate, Comparing
<1>6. PICK calls : calls = IF p = none THEN <<>> ELSE <<c>>
  OBVIOUS
<1>7. calls \in Seq(Range(calls)) /\ \A d \in Range(calls) : d[1] \in Comparing
  <2>1. CASE p = none
    BY <1>6, <2>1, EmptyCalls
  <2>2. CASE p # none
    <3>1. calls = <<c>>
      BY <1>6, <2>2
    <3> QED BY <1>5, <3>1, EmptyCalls
  <2> QED BY <2>1, <2>2
<1>8. Replacing' /\ Waiting' /\ Live' = Live /\ NoTwice'
  BY <1>4, <1>6, <1>7, ComparingStep DEF Comparing
<1>9. Rooted'
  <2> SUFFICES ASSUME NEW S \in SUBSET Node, Rootless(S)
               PROVE  Running("invalidate_hash")' /\ Head(todo')[2] \in S
    BY <1>4 DEF Rooted, Rootless
  <2>1. n \in S
    BY <1>1 DEF RInv, Rooted
  <2>2. p \in S /\ p # none
    BY <1>2, <2>1, NodeAssumption DEF Rootless
  <2>3. todo' # <<>> /\ Head(todo') = c
    <3>1. calls = <<c>> /\ calls # <<>> /\ calls[1] = c
      BY <1>6, <2>2
    <3> QED BY <1>4, <1>6, <1>7, <3>1, Replaced DEF IInv, TodoOK, Then
  <2> QED BY <1>5, <2>2, <2>3 DEF Running
<1> QED BY <1>8, <1>9 DEF RInv

LEMMA RInvHash ==
  ASSUME IInv, RInv, HashNode
  PROVE  RInv'
<1>1. PICK n : n = Head(todo)[2]
  OBVIOUS
<1>2. /\ todo # <<>> /\ Head(todo)[1] = "hash"
      /\ UNCHANGED <<label, children, parent, readOnly, call>>
  BY DEF HashNode, Running
<1>3. \E calls : /\ Then(calls) /\ calls \in Seq(Range(calls))
                 /\ \A d \in Range(calls) : d[1] \in Comparing
  <2>1. CASE Then(<<>>)
    BY <2>1, EmptyCalls
  <2>2. CASE \E i \in DOMAIN children[n] : Then(<<<<"hash", children[n][i]>>, Head(todo)>>)
    <3>1. PICK i \in DOMAIN children[n] : Then(<<<<"hash", children[n][i]>>, Head(todo)>>)
      BY <2>2
    <3>2. PICK c, d : c = <<"hash", children[n][i]>> /\ d = Head(todo)
      OBVIOUS
    <3>3. Then(<<c, d>>) /\ c[1] \in Comparing /\ d[1] \in Comparing
      BY <1>2, <3>1, <3>2 DEF Comparing
    <3>4. PICK calls : calls = <<c, d>>
      OBVIOUS
    <3>5. calls \in Seq(Range(calls)) /\ Range(calls) = {c, d}
      BY <3>4, EmptyCalls
    <3> QED BY <3>3, <3>4, <3>5
  <2> QED BY <1>1, <2>1, <2>2 DEF HashNode
<1>4. Replacing' /\ Waiting' /\ Live' = Live /\ NoTwice'
  BY <1>2, <1>3, ComparingStep DEF Comparing
<1>5. ~Running("invalidate_hash")
  BY <1>2 DEF Running
<1> QED BY <1>2, <1>4, <1>5, EdgesStay

\* The program calls a method that changes no edge at first.
LEMMA RInvCalls ==
  ASSUME IInv, RInv, Idle, NEW op, NEW args, Call(op, args), op # "replace",
         UNCHANGED <<children, parent>>, Live' = Live, Waiting'
  PROVE  RInv'
<1>1. ~Running("invalidate_hash")
  BY NothingToDo DEF Running
<1>2. Replacing'
  BY CallsMethod DEF Replacing
<1> QED BY <1>1, <1>2, EdgesStay

LEMMA RInvSetLabel ==
  ASSUME IInv, RInv, NEW n \in Live, NEW l \in Label, SetLabel(n, l)
  PROVE  RInv'
<1>1. PICK c : c = Invalidate(n)
  OBVIOUS
<1>2. /\ Idle /\ todo' = <<c>> /\ Call("label", <<n>>)
      /\ label' = [label EXCEPT ![n] = l] /\ UNCHANGED <<children, parent>>
  BY <1>1 DEF SetLabel
<1>3. c[1] # "set_children"
  BY <1>1 DEF Invalidate
<1>4. Live' = Live
  BY <1>2, LabelAssumption DEF Live, IInv, TypeOK
<1>5. Waiting'
  BY <1>2, <1>3, WaitingFirst
<1> QED BY <1>2, <1>4, <1>5, RInvCalls

LEMMA RInvHashTree ==
  ASSUME IInv, RInv, NEW n \in Live, HashTree(n)
  PROVE  RInv'
<1>1. PICK c : c = <<"hash", n>>
  OBVIOUS
<1>2. Idle /\ todo' = <<c>> /\ Call("hash", <<n>>) /\ UNCHANGED heap
  BY <1>1 DEF HashTree
<1>3. c[1] # "set_children"
  BY <1>1
<1>4. Waiting' /\ Live' = Live
  BY <1>2, <1>3, WaitingFirst DEF heap, Live
<1> QED BY <1>2, <1>4, RInvCalls DEF heap

LEMMA RInvReadOnly ==
  ASSUME IInv, RInv, NEW n \in Live, NEW value \in BOOLEAN, SetAllReadOnly(n, value)
  PROVE  RInv'
<1>1. /\ Idle /\ todo = <<>> /\ todo' = <<>> /\ Call("read_only", <<n>>)
      /\ UNCHANGED <<label, children, parent>>
  BY NothingToDo DEF SetAllReadOnly
<1>2. Waiting' /\ Live' = Live
  BY <1>1, WaitingFirst DEF Live
<1> QED BY <1>1, <1>2, RInvCalls

LEMMA RInvSplitEnd ==
  ASSUME IInv, RInv, NEW n \in Live, SplitEnd(n)
  PROVE  RInv'
<1>1. PICK c : c = <<"_split_end", n>>
  OBVIOUS
<1>2. Idle /\ todo' = <<c>> /\ Call("split_end", <<n>>) /\ UNCHANGED heap
  BY <1>1 DEF SplitEnd
<1>3. c[1] # "set_children"
  BY <1>1
<1>4. Waiting' /\ Live' = Live
  BY <1>2, <1>3, WaitingFirst DEF heap, Live
<1> QED BY <1>2, <1>4, RInvCalls DEF heap

LEMMA RInvPrefix ==
  ASSUME IInv, RInv, NEW n \in Live, Prefix(n)
  PROVE  RInv'
<1>1. PICK c, d : c = <<"_split_end", n>> /\ d = <<"drop_last", n>>
  OBVIOUS
<1>2. Idle /\ todo' = <<c, d>> /\ Call("prefix", <<n>>) /\ UNCHANGED heap
  BY <1>1 DEF Prefix
<1>3. c[1] # "set_children" /\ d[1] # "set_children"
  BY <1>1
<1>4. Waiting' /\ Live' = Live
  BY <1>2, <1>3, WaitingFirst DEF heap, Live
<1> QED BY <1>2, <1>4, RInvCalls DEF heap

LEMMA RInvAppendTree ==
  ASSUME IInv, RInv, NEW n \in Live, NEW tree \in Live, NEW path \in HookinPath,
         AppendTree(n, path, tree)
  PROVE  RInv'
<1>1. PICK c : c = <<"append", n, path, tree>>
  OBVIOUS
<1>2. Idle /\ todo' = <<c>> /\ Call("append", <<n, path, tree>>) /\ UNCHANGED heap
  BY <1>1 DEF AppendTree
<1>3. c[1] # "set_children"
  BY <1>1
<1>4. Waiting' /\ Live' = Live
  BY <1>2, <1>3, WaitingFirst DEF heap, Live
<1> QED BY <1>2, <1>4, RInvCalls DEF heap

LEMMA RInvReturn ==
  ASSUME IInv, RInv, Return
  PROVE  RInv'
<1>1. todo = <<>> /\ todo' = <<>> /\ call'.op = "" /\ UNCHANGED heap
  BY DEF Return, Returning, NoCall
<1>2. ~Running("invalidate_hash") /\ Live' = Live /\ Waiting' /\ Replacing'
  BY <1>1, WaitingFirst DEF Running, heap, Live, Replacing
<1> QED BY <1>1, <1>2, EdgesStay DEF heap

LEMMA RInvReplace ==
  ASSUME IInv, RInv, NEW root \in Live, NEW old \in Live, NEW new \in Live,
         Replace(root, old, new)
  PROVE  RInv'
<1>1. PICK c : c = <<"replace", root, old, new>>
  OBVIOUS
<1>2. /\ Idle /\ todo = <<>> /\ todo' = <<c>> /\ Call("replace", <<root, old, new>>)
      /\ old \in Below(root) /\ UNCHANGED heap
  BY <1>1, NothingToDo DEF Replace
<1>3. c[1] # "set_children"
  BY <1>1
<1>4. Waiting' /\ Live' = Live /\ ~Running("invalidate_hash")
  BY <1>2, <1>3, WaitingFirst DEF heap, Live, Running
<1>5. PartOf(old, root)
  BY <1>2, <1>4, EndsNow, BelowIsPart DEF Live
<1>6. PartOf(old, root)'
  BY <1>2, <1>5 DEF PartOf, Kids, heap
<1>7. call'.args = <<root, old, new>>
  BY <1>2, CallsMethod
<1>8. Replacing'
  BY <1>1, <1>2, <1>4, <1>6, <1>7 DEF Replacing
<1> QED BY <1>2, <1>4, <1>8, EdgesStay DEF heap

LEMMA RInvNew ==
  ASSUME IInv, RInv, NEW l \in Label, NEW kids \in Lists, New(l, kids)
  PROVE  RInv'
<1>1. PICK n \in Node \ Live :
        /\ label' = [label EXCEPT ![n] = l]
        /\ Adopt(n, kids)
        /\ todo' = <<Invalidate(n)>>
        /\ Call("new", <<n>>)
  BY DEF New
<1>2. PICK c : c = Invalidate(n)
  OBVIOUS
<1>3. todo = <<>> /\ todo' = <<c>>
  BY <1>1, <1>2, NothingToDo DEF New
<1>4. c[1] = "invalidate_hash" /\ c[2] = n
  BY <1>2 DEF Invalidate
<1>5. Waiting' /\ InvalidatesNext(n)'
  <2>1. todo' # <<>> /\ Head(todo') = c
    BY <1>3
  <2> QED BY <1>3, <1>4, <2>1, WaitingFirst DEF InvalidatesNext
<1>6. Live' = Live \cup {n}
  BY <1>1, LabelAssumption DEF Live, IInv, TypeOK
<1>7. IsFiniteSet(Live')
  BY <1>6, FS_AddElement DEF RInv
<1>8. Replacing'
  BY <1>1, CallsMethod DEF Replacing
<1> QED BY <1>1, <1>3, <1>5, <1>7, <1>8, EdgesChange DEF Running, Lists

LEMMA RInvSetChildren ==
  ASSUME IInv, RInv, NEW n \in Live, NEW kids \in Lists, SetChildren(n, kids)
  PROVE  RInv'
<1>1. PICK c : c = Invalidate(n)
  OBVIOUS
<1>2. /\ todo = <<>> /\ todo' = <<c>> /\ Adopt(n, kids)
      /\ Call("set_children", <<n>>) /\ UNCHANGED label
  BY <1>1, NothingToDo DEF SetChildren
<1>3. c[1] = "invalidate_hash" /\ c[2] = n
  BY <1>1 DEF Invalidate
<1>4. Waiting' /\ InvalidatesNext(n)'
  <2>1. todo' # <<>> /\ Head(todo') = c
    BY <1>2
  <2> QED BY <1>2, <1>3, <2>1, WaitingFirst DEF InvalidatesNext
<1>5. IsFiniteSet(Live') /\ n \in Node
  BY <1>2 DEF RInv, Live
<1>6. Replacing'
  BY <1>2, CallsMethod DEF Replacing
<1> QED BY <1>2, <1>4, <1>5, <1>6, EdgesChange DEF Running, Lists

LEMMA RInvDeepcopy ==
  ASSUME IInv, RInv, NEW copies, NEW of, Copied(copies, of)
  PROVE  RInv'
<1>1. TreesOK
  BY EndsNow DEF Copied, Running
<1>2. /\ Live \subseteq Node
      /\ \A m \in Node : parent[m] \in Live \cup {none}
  BY <1>1, NodeFacts DEF TreesOK
<1>3. \A S \in SUBSET Node : ~Rootless(S)'
  <2> SUFFICES ASSUME NEW S \in SUBSET Node, Rootless(S)' PROVE FALSE
    OBVIOUS
  <2> DEFINE T == {of[m] : m \in S \cap copies}
  <2>1. \A m \in S : parent'[m] \in S /\ parent'[m] # none
    BY NodeAssumption DEF Rootless
  <2>2. CASE T = {}
    <3>1. \A m \in S : m \in Node \ copies
      BY <2>2
    <3>2. \A m \in S : parent[m] \in S
      BY <2>1, <3>1 DEF Copied
    <3> QED BY <1>1, <3>2 DEF TreesOK, Ends, Rootless
  <2>3. CASE T # {}
    <3>1. \A x \in T : parent[x] \in T
      <4> SUFFICES ASSUME NEW m \in S \cap copies PROVE parent[of[m]] \in T
        OBVIOUS
      <4>1. parent'[m] \in copies /\ of[parent'[m]] = parent[of[m]]
        BY <2>1 DEF Copied
      <4> QED BY <2>1, <4>1
    <3>2. T \in SUBSET Node
      BY <1>2 DEF Copied
    <3> HIDE DEF T
    <3> QED BY <1>1, <2>3, <3>1, <3>2 DEF TreesOK, Ends, Rootless
  <2> QED BY <2>2, <2>3
<1>4. Rooted'
  BY <1>3 DEF Rooted
<1>5. NoTwice'
  <2> SUFFICES ASSUME NEW n \in Node,
                      NEW i \in DOMAIN children'[n], NEW j \in DOMAIN children'[n],
                      children'[n][i] = children'[n][j]
               PROVE  i = j
    BY DEF NoTwice, IsInjective
  <2>1. CASE n \in copies
    <3>1. /\ i \in DOMAIN children[of[n]] /\ j \in DOMAIN children[of[n]]
          /\ children[of[n]][i] = children[of[n]][j] /\ of[n] \in Node
      BY <1>2, <2>1 DEF Copied
    <3> QED BY <3>1 DEF RInv, NoTwice, IsInjective
  <2>2. CASE n \notin copies
    <3>1. children'[n] = children[n]
      BY <2>2 DEF Copied
    <3> QED BY <3>1 DEF RInv, NoTwice, IsInjective
  <2> QED BY <2>1, <2>2
<1>6. IsFiniteSet(Live')
  <2> DEFINE g == [m \in copies |-> of[m]]
  <2>1. g \in Injection(copies, Live)
    BY DEF Copied, Injection, IsInjective
  <2>2. IsFiniteSet(copies)
    BY <2>1, FS_Injection DEF RInv
  <2>3. IsFiniteSet(Live \cup copies)
    BY <2>2, FS_Union DEF RInv
  <2> QED BY <2>3 DEF Copied
<1>7. Waiting' /\ Replacing'
  BY WaitingFirst DEF Copied, Replacing
<1> QED BY <1>4, <1>5, <1>6, <1>7 DEF RInv

LEMMA RInvSetStep ==
  ASSUME IInv, RInv, SetChildrenStep
  PROVE  RInv'
<1>1. PICK n : n = Head(todo)[2]
  OBVIOUS
<1>2. PICK kids : kids = Head(todo)[3]
  OBVIOUS
<1>3. PICK c : c = Invalidate(n)
  OBVIOUS
<1>4. /\ todo # <<>> /\ Head(todo)[1] = "set_children"
      /\ Adopt(n, kids) /\ Then(<<c>>)
      /\ UNCHANGED <<label, call>>
  BY <1>1, <1>2, <1>3 DEF SetChildrenStep, Running
<1>5. c[1] = "invalidate_hash" /\ c[2] = n
  BY <1>3 DEF Invalidate
<1>6. Head(todo) \in Range(todo)
  BY <1>4, HeadInRange DEF IInv, TodoOK
<1>7. n \in Node /\ IsInjective(kids)
  BY <1>1, <1>2, <1>4, <1>6 DEF IInv, TodoOK, CallOK, Live, RInv, Waiting
<1>8. Waiting' /\ InvalidatesNext(n)'
  <2>1. PICK calls : calls = <<c>>
    OBVIOUS
  <2>2. calls \in Seq(Range(calls)) /\ Range(calls) = {c} /\ calls # <<>> /\ calls[1] = c
    BY <2>1, EmptyCalls
  <2>3. Waiting'
    BY <1>4, <1>5, <2>1, <2>2, WaitingAfter
  <2>4. todo' # <<>> /\ Head(todo') = c
    BY <1>4, <2>1, <2>2, Replaced DEF IInv, TodoOK, Then
  <2> QED BY <1>5, <2>3, <2>4 DEF InvalidatesNext
<1>9. call.op # "replace"
  BY <1>4, OtherMethod DEF Comparing
<1>10. Replacing' /\ IsFiniteSet(Live') /\ ~Running("invalidate_hash")
  BY <1>4, <1>9 DEF Replacing, RInv, Live, Running
<1> QED BY <1>4, <1>7, <1>8, <1>10, EdgesChange

\* The first children of a node are different.
LEMMA FirstChildren ==
  ASSUME IInv, RInv, NEW p \in Live, NEW k \in Int, k <= Len(children[p])
  PROVE  IsInjective(SubSeq(children[p], 1, k))
<1>1. PICK kids : kids = children[p]
  OBVIOUS
<1>2. kids \in Seq(Live) /\ IsInjective(kids)
  BY <1>1 DEF IInv, TypeOK, Live, RInv, NoTwice
<1>3. PICK some : some = SubSeq(kids, 1, k)
  OBVIOUS
<1>4. DOMAIN some \subseteq DOMAIN kids /\ \A i \in DOMAIN some : some[i] = kids[i]
  <2>1. Len(kids) \in Nat /\ DOMAIN kids = 1 .. Len(kids)
    BY <1>2
  <2>2. DOMAIN some = 1 .. (IF 1 <= k THEN k ELSE 0)
    BY <1>1, <1>2, <1>3, <2>1
  <2>3. \A i \in 1 .. k : some[i] = kids[i]
    BY <1>1, <1>2, <1>3, <2>1
  <2> QED BY <1>1, <2>1, <2>2, <2>3
<1> QED BY <1>1, <1>2, <1>3, <1>4 DEF IsInjective

LEMMA RInvSplitStep ==
  ASSUME IInv, RInv, SplitEndStep
  PROVE  RInv'
<1>1. PICK n : n = Head(todo)[2]
  OBVIOUS
<1>2. PICK p : p = parent[n]
  OBVIOUS
<1>3. todo # <<>> /\ Head(todo)[1] = "_split_end" /\ UNCHANGED heap
  BY DEF SplitEndStep, Running
<1>4. n \in Live /\ n \in Node
  BY <1>1, <1>3, HeadInRange DEF Live, IInv, TodoOK, CallOK
<1>5. call.op # "replace" /\ ~Running("invalidate_hash") /\ Live' = Live
  BY <1>3, OtherMethod DEF Comparing, Running, Live, heap
<1>6. ASSUME Waiting', call'.op = call.op PROVE RInv'
  BY <1>3, <1>5, <1>6, EdgesStay DEF heap, Replacing
<1>7. CASE p = none /\ Then(<<>>) /\ UNCHANGED call
  BY <1>3, <1>6, <1>7, EmptyCalls, WaitingAfter
<1>8. CASE Raise
  BY <1>6, <1>8, RaisedCall, WaitingFirst DEF Raise
<1>9. CASE /\ p # none /\ Index(n) # none
           /\ Then(<<<<"_split_end", p>>, <<"set_children", p, Keep(n)>>>>)
           /\ UNCHANGED call
  <2>1. PICK kids : kids = Keep(n)
    OBVIOUS
  <2>2. PICK i : i = Index(n)
    OBVIOUS
  <2>3. p \in Live
    BY <1>2, <1>4, <1>9 DEF IInv, TypeOK
  <2>4. i \in DOMAIN children[p]
    BY <1>2, <1>9, <2>2 DEF Index
  <2>5. i \in Int /\ i <= Len(children[p])
    BY <2>3, <2>4 DEF IInv, TypeOK, Live
  <2>6. IsInjective(kids)
    BY <1>2, <2>1, <2>2, <2>3, <2>5, FirstChildren DEF Keep
  <2>7. PICK c, d : c = <<"_split_end", p>> /\ d = <<"set_children", p, kids>>
    OBVIOUS
  <2>8. c[1] # "set_children" /\ IsInjective(d[3]) /\ Then(<<c, d>>)
    BY <1>9, <2>1, <2>6, <2>7
  <2>9. PICK calls : calls = <<c, d>>
    OBVIOUS
  <2>10. calls \in Seq(Range(calls)) /\ Range(calls) = {c, d} /\ Then(calls)
    BY <2>8, <2>9, EmptyCalls
  <2>11. Waiting'
    BY <1>3, <2>8, <2>10, WaitingAfter
  <2> QED BY <1>6, <1>9, <2>11
<1> QED BY <1>1, <1>2, <1>7, <1>8, <1>9 DEF SplitEndStep

LEMMA RInvDropStep ==
  ASSUME IInv, RInv, DropLastStep
  PROVE  RInv'
<1>1. PICK n : n = Head(todo)[2]
  OBVIOUS
<1>2. PICK p : p = parent[n]
  OBVIOUS
<1>3. todo # <<>> /\ Head(todo)[1] = "drop_last" /\ UNCHANGED heap
  BY DEF DropLastStep, Running
<1>4. n \in Live /\ n \in Node
  BY <1>1, <1>3, HeadInRange DEF Live, IInv, TodoOK, CallOK
<1>5. call.op # "replace" /\ ~Running("invalidate_hash") /\ Live' = Live
  BY <1>3, OtherMethod DEF Comparing, Running, Live, heap
<1>6. ASSUME Waiting', call'.op = call.op PROVE RInv'
  BY <1>3, <1>5, <1>6, EdgesStay DEF heap, Replacing
<1>7. CASE Raise
  BY <1>6, <1>7, RaisedCall, WaitingFirst DEF Raise
<1>8. CASE /\ p # none
           /\ Then(<<<<"set_children", p, SubSeq(children[p], 1, Len(children[p]) - 1)>>>>)
           /\ UNCHANGED call
  <2>1. p \in Live
    BY <1>2, <1>4, <1>8 DEF IInv, TypeOK
  <2>2. PICK k : k = Len(children[p]) - 1
    OBVIOUS
  <2>3. k \in Int /\ k <= Len(children[p])
    BY <2>1, <2>2 DEF IInv, TypeOK, Live
  <2>4. PICK kids : kids = SubSeq(children[p], 1, k)
    OBVIOUS
  <2>5. IsInjective(kids)
    BY <2>1, <2>3, <2>4, FirstChildren
  <2>6. PICK c : c = <<"set_children", p, kids>>
    OBVIOUS
  <2>7. IsInjective(c[3]) /\ Then(<<c>>)
    BY <1>8, <2>2, <2>4, <2>5, <2>6
  <2>8. PICK calls : calls = <<c>>
    OBVIOUS
  <2>9. calls \in Seq(Range(calls)) /\ Range(calls) = {c} /\ Then(calls)
    BY <2>7, <2>8, EmptyCalls
  <2>10. Waiting'
    BY <1>3, <2>7, <2>9, WaitingAfter
  <2> QED BY <1>6, <1>8, <2>10
<1> QED BY <1>1, <1>2, <1>7, <1>8 DEF DropLastStep

\* A node that gets one more child.
LEMMA OneMore ==
  ASSUME IInv, RInv, NEW n \in Live, NEW c, c \notin Kids(n)
  PROVE  IsInjective(Append(children[n], c))
<1>1. PICK kids : kids = children[n]
  OBVIOUS
<1>2. kids \in Seq(Live) /\ IsInjective(kids) /\ Len(kids) \in Nat
  BY <1>1 DEF IInv, TypeOK, Live, RInv, NoTwice
<1>3. \A i \in DOMAIN kids : kids[i] # c
  BY <1>1 DEF Kids, Range
<1>4. /\ DOMAIN Append(kids, c) = 1 .. (Len(kids) + 1)
      /\ \A i \in 1 .. Len(kids) : Append(kids, c)[i] = kids[i]
      /\ Append(kids, c)[Len(kids) + 1] = c
  <2>1. kids \in Seq(Live \cup {c})
    BY <1>2, SeqMonotonic
  <2> QED BY <2>1
<1>5. DOMAIN kids = 1 .. Len(kids)
  BY <1>2
<1>6. IsInjective(Append(kids, c))
  <2>1. \A i \in 1 .. (Len(kids) + 1) : i \in 1 .. Len(kids) \/ i = Len(kids) + 1
    BY <1>2
  <2> QED BY <1>2, <1>3, <1>4, <1>5, <2>1 DEF IsInjective
<1> QED BY <1>1, <1>6

LEMMA RInvAppendStep ==
  ASSUME IInv, RInv, AppendStep
  PROVE  RInv'
<1>1. PICK n : n = Head(todo)[2]
  OBVIOUS
<1>2. PICK path : path = Head(todo)[3]
  OBVIOUS
<1>3. PICK tree : tree = Head(todo)[4]
  OBVIOUS
<1>4. PICK c : c = Invalidate(n)
  OBVIOUS
<1>5. todo # <<>> /\ Head(todo)[1] = "append"
  BY DEF AppendStep, Running
<1>6. /\ n \in Live /\ n \in Node /\ tree \in Live /\ Free(tree)
      /\ path \in Seq([label : Label, new : BOOLEAN])
  BY <1>1, <1>2, <1>3, <1>5, HeadInRange DEF Live, IInv, TodoOK, CallOK
<1>7. c[1] = "invalidate_hash" /\ c[2] = n
  BY <1>4 DEF Invalidate
<1>8. call.op # "replace" /\ ~Running("invalidate_hash")
  BY <1>5, OtherMethod DEF Comparing, Running
<1>9. call'.op = call.op => Replacing'
  BY <1>8 DEF Replacing
<1>10. ASSUME NEW calls, calls \in Seq(Range(calls)), Then(calls),
              calls # <<>>, calls[1] = c,
              \A d \in Range(calls) : d[1] # "set_children"
       PROVE  Waiting' /\ InvalidatesNext(n)'
  <2>1. Waiting'
    BY <1>5, <1>10, WaitingAfter
  <2>2. todo' # <<>> /\ Head(todo') = c
    BY <1>5, <1>10, Replaced DEF IInv, TodoOK, Then
  <2> QED BY <1>7, <2>1, <2>2 DEF InvalidatesNext
<1>11. CASE AddChild(n, tree) /\ Then(<<c>>) /\ UNCHANGED <<label, size, call>>
  <2>1. PICK kids : kids = Append(children[n], tree)
    OBVIOUS
  <2>2. IsInjective(kids) /\ Adopt(n, kids)
    BY <1>6, <1>11, <2>1, OneMore DEF Free, AddChild
  <2>3. PICK calls : calls = <<c>>
    OBVIOUS
  <2>4. /\ calls \in Seq(Range(calls)) /\ Range(calls) = {c} /\ Then(calls)
        /\ calls # <<>> /\ calls[1] = c
    BY <1>11, <2>3, EmptyCalls
  <2>5. Waiting' /\ InvalidatesNext(n)'
    BY <1>7, <1>10, <2>4
  <2>6. IsFiniteSet(Live') /\ Replacing'
    BY <1>9, <1>11 DEF RInv, Live
  <2> QED BY <1>6, <1>8, <2>2, <2>5, <2>6, EdgesChange
<1>12. ASSUME path # <<>>, NEW u \in Node \ Live,
              label' = [label EXCEPT ![u] = Head(path).label],
              AddChild(n, u),
              Then(<<c, <<"append", u, Tail(path), tree>>>>),
              UNCHANGED call
       PROVE  RInv'
  <2>1. Live' \subseteq Live \cup {u}
    BY <1>12 DEF Live, IInv, TypeOK
  <2>2. IsFiniteSet(Live')
    BY <2>1, FS_AddElement, FS_Subset DEF RInv
  <2>3. u \notin Kids(n)
    BY <1>6, RangeOfSeq DEF Kids, IInv, TypeOK
  <2>4. PICK kids : kids = Append(children[n], u)
    OBVIOUS
  <2>5. IsInjective(kids) /\ Adopt(n, kids)
    BY <1>6, <1>12, <2>3, <2>4, OneMore DEF AddChild
  <2>6. PICK d : d = <<"append", u, Tail(path), tree>>
    OBVIOUS
  <2>7. PICK calls : calls = <<c, d>>
    OBVIOUS
  <2>8. /\ calls \in Seq(Range(calls)) /\ Range(calls) = {c, d} /\ Then(calls)
        /\ calls # <<>> /\ calls[1] = c
    BY <1>12, <2>6, <2>7, EmptyCalls
  <2>9. d[1] # "set_children"
    BY <2>6
  <2>10. Waiting' /\ InvalidatesNext(n)'
    BY <1>7, <1>10, <2>8, <2>9
  <2> QED BY <1>6, <1>8, <1>9, <1>12, <2>2, <2>5, <2>10, EdgesChange
<1>13. ASSUME NEW d, d[1] # "set_children", Then(<<d>>),
              UNCHANGED <<label, children, parent, size, call>>
       PROVE  RInv'
  <2>1. PICK calls : calls = <<d>>
    OBVIOUS
  <2>2. calls \in Seq(Range(calls)) /\ Range(calls) = {d} /\ Then(calls)
    BY <1>13, <2>1, EmptyCalls
  <2>3. Waiting'
    BY <1>5, <1>13, <2>2, WaitingAfter
  <2>4. Live' = Live
    BY <1>13 DEF Live
  <2> QED BY <1>8, <1>9, <1>13, <2>3, <2>4, EdgesStay
<1>14. CASE Raise /\ UNCHANGED <<label, children, parent, size>>
  <2>1. Waiting' /\ Live' = Live /\ Replacing'
    BY <1>9, <1>14, RaisedCall, WaitingFirst DEF Raise, Live
  <2> QED BY <1>8, <1>14, <2>1, EdgesStay
<1>15. ASSUME NEW k, Then(<<<<"append", k, Tail(path), tree>>>>),
              UNCHANGED <<label, children, parent, size, call>>
       PROVE  RInv'
  <2>1. PICK d : d = <<"append", k, Tail(path), tree>>
    OBVIOUS
  <2>2. d[1] # "set_children" /\ Then(<<d>>)
    BY <1>15, <2>1
  <2> QED BY <1>13, <1>15, <2>2
<1> QED BY <1>1, <1>2, <1>3, <1>4, <1>11, <1>12, <1>14, <1>15 DEF AppendStep

LEMMA RInvReplaceStart ==
  ASSUME IInv, RInv, ReplaceStart
  PROVE  RInv'
<1>1. /\ todo # <<>> /\ Head(todo)[1] = "replace" /\ UNCHANGED heap
      /\ ~Running("invalidate_hash")
  BY DEF ReplaceStart, Running
<1>2. Live' = Live
  BY <1>1 DEF heap, Live
<1>3. ASSUME Waiting', Replacing' PROVE RInv'
  BY <1>1, <1>2, <1>3, EdgesStay DEF heap
<1>4. PICK start : start = Head(todo)
  OBVIOUS
<1>5. PICK d : d = <<"replace_multiple", start[2], Path(start[2]), Path(start[3]), start[4]>>
  OBVIOUS
<1>6. PICK calls : calls = <<d>>
  OBVIOUS
<1>7. d[1] = "replace_multiple" /\ calls \in Seq(Range(calls)) /\ Range(calls) = {d}
  BY <1>5, <1>6, EmptyCalls
<1>8. \/ Raise
      \/ /\ HasPath(start[2]) /\ Then(calls)
         /\ call' = [call EXCEPT !.result = Replacement(start[2], Path(start[3]), start[4])]
  BY <1>4, <1>5, <1>6 DEF ReplaceStart
<1>9. Waiting'
  BY <1>1, <1>7, <1>8, WaitingAfter, WaitingFirst DEF Raise
<1>10. call'.op = call.op /\ call'.args = call.args
  BY <1>8, RaisedCall DEF IInv, TypeOK, CallTypeOK, NoCall
<1>11. Replacing'
  <2> SUFFICES ASSUME call.op = "replace" PROVE Replacing'
    BY <1>10 DEF Replacing
  <2>1. PICK root \in Live, old \in Live, new \in Live :
          /\ call.args = <<root, old, new>>
          /\ PartOf(old, root)
          /\ \/ todo = <<<<"replace", root, old, new>>>>
             \/ \A c \in Range(todo) : c[1] \in Comparing
    BY Zenon DEF RInv, Replacing
  <2>2. todo = <<<<"replace", root, old, new>>>>
    <3>1. Head(todo) \in Range(todo)
      BY <1>1, HeadInRange DEF IInv, TodoOK
    <3> QED BY <1>1, <2>1, <3>1 DEF Comparing
  <2>3. start = <<"replace", root, old, new>> /\ Tail(todo) = <<>>
    BY <1>4, <2>2
  <2>4. start[2] = root /\ start[3] = old /\ start[4] = new
    BY <2>3
  <2>5. PartOf(old, root)'
    BY <1>1, <2>1 DEF PartOf, Kids, heap
  <2>6. CASE Raise
    <3>1. \A c \in Range(todo') : c[1] \in Comparing
      BY <2>6, EmptyCalls DEF Raise
    <3>2. call'.raised
      BY <2>6, RaisedCall
    <3> QED BY <1>2, <1>10, <2>1, <2>5, <3>1, <3>2 DEF Replacing
  <2>7. CASE /\ HasPath(start[2]) /\ Then(calls)
             /\ call' = [call EXCEPT !.result = Replacement(start[2], Path(start[3]), start[4])]
    <3>1. todo' = calls
      BY <1>7, <2>3, <2>7, ConcatEmptySeq DEF Then
    <3>2. \A c \in Range(todo') : c[1] \in Comparing
      BY <1>7, <3>1 DEF Comparing
    <3>3. call'.result = Replacement(root, Path(old), new)
      BY <2>4, <2>7 DEF IInv, TypeOK, CallTypeOK, NoCall
    <3>4. Replacement(root, Path(old), new) = Want(root, old, new)
      BY <1>1, <2>1, <2>4, <2>7, EndsNow, ReplacesByIdentity
    <3>5. Want(root, old, new)' = Want(root, old, new)
      BY <1>1, WantStays DEF heap
    <3> QED BY <1>2, <1>10, <2>1, <2>5, <3>2, <3>3, <3>4, <3>5 DEF Replacing
  <2> QED BY <1>8, <2>6, <2>7
<1> QED BY <1>3, <1>9, <1>11

LEMMA RInvReplaceStep ==
  ASSUME IInv, RInv, ReplaceStep
  PROVE  RInv'
<1>1. /\ todo # <<>> /\ Head(todo)[1] = "replace_multiple" /\ UNCHANGED <<heap, call>>
      /\ ~Running("invalidate_hash")
  BY DEF ReplaceStep, Running
<1>2. PICK calls : /\ calls \in Seq(Range(calls)) /\ Then(calls)
                   /\ \A c \in Range(calls) : c[1] \in Comparing
  BY ReplaceOneStep
<1>3. Replacing' /\ Waiting' /\ Live' = Live
  BY <1>1, <1>2, ComparingStep DEF heap, Comparing
<1> QED BY <1>1, <1>3, EdgesStay DEF heap

LEMMA RInvInductive == IInv /\ RInv /\ [Next]_vars => RInv'
<1> SUFFICES ASSUME IInv, RInv, [Next]_vars PROVE RInv'
  OBVIOUS
<1>1. ASSUME NEW l \in Label, NEW kids \in Lists, New(l, kids) PROVE RInv'
  BY <1>1, RInvNew
<1>2. ASSUME NEW n \in Live, NEW l \in Label, SetLabel(n, l) PROVE RInv'
  BY <1>2, RInvSetLabel
<1>3. ASSUME NEW n \in Live, NEW kids \in Lists, SetChildren(n, kids) PROVE RInv'
  BY <1>3, RInvSetChildren
<1>4. ASSUME NEW n \in Live, HashTree(n) PROVE RInv'
  BY <1>4, RInvHashTree
<1>5. ASSUME NEW n \in Live, NEW value \in BOOLEAN, SetAllReadOnly(n, value) PROVE RInv'
  BY <1>5, RInvReadOnly
<1>6. ASSUME NEW n \in Live, SplitEnd(n) PROVE RInv'
  BY <1>6, RInvSplitEnd
<1>7. ASSUME NEW n \in Live, Prefix(n) PROVE RInv'
  BY <1>7, RInvPrefix
<1>8. ASSUME NEW n \in Live, NEW tree \in Live, NEW path \in HookinPath,
             AppendTree(n, path, tree)
      PROVE  RInv'
  BY <1>8, RInvAppendTree
<1>9. ASSUME NEW n \in Live, NEW copyParent \in BOOLEAN, Deepcopy(n, copyParent)
      PROVE  RInv'
  <2>1. PICK copies, of : Copied(copies, of)
    BY <1>9, DeepcopyStep
  <2> QED BY <2>1, RInvDeepcopy
<1>10. ASSUME NEW root \in Live, NEW old \in Live, NEW new \in Live,
              Replace(root, old, new)
       PROVE  RInv'
  BY <1>10, RInvReplace
<1>11. CASE UNCHANGED vars
  <2>1. UNCHANGED <<label, children, parent, readOnly, cache, size, todo, call>>
    BY <1>11 DEF vars, heap
  <2>2. Live' = Live
    BY <2>1 DEF Live
  <2>3. Rooted' /\ NoTwice' /\ Waiting'
    BY <2>1 DEF RInv, Rooted, Rootless, Running, NoTwice, Waiting
  <2>4. \A root, old, new : /\ Want(root, old, new)' = Want(root, old, new)
                            /\ PartOf(old, root)' = PartOf(old, root)
    BY <2>1, WantStays DEF PartOf, Kids
  <2>5. Replacing'
    BY <2>1, <2>2, <2>4 DEF RInv, Replacing
  <2> QED BY <2>2, <2>3, <2>5 DEF RInv
<1> QED
  BY <1>1, <1>2, <1>3, <1>4, <1>5, <1>6, <1>7, <1>8, <1>9, <1>10, <1>11,
     RInvReturn, RInvInvalidate, RInvHash, RInvSetStep, RInvSplitStep, RInvDropStep,
     RInvAppendStep, RInvReplaceStart, RInvReplaceStep DEF Next

\* Whatever was done to the trees before, replace() returns the tree with that
\* one node replaced which it was given, although it looks for a path.
THEOREM ReplacedThatNode == Spec => []ReplacesThatNode
<1>1. Init => RInv
  BY RInvInit
<1>2. RInv => ReplacesThatNode
  BY ReplacesThatNodeFollows
<1> QED BY <1>1, <1>2, RInvInductive, Always, PTL DEF Spec
=============================================================================
