------------------------- MODULE GrammarFuzzingProofs -------------------------
(***************************************************************************)
(* For every grammar and budget, and however the random choices fall, the  *)
(* marks that fuzzing leaves on a tree tell the calls of repetitions, and  *)
(* the rounds of each, apart.                                              *)
(*                                                                         *)
(* A call marks what was added since its last round began, and below the   *)
(* same parent.  Other calls run in between, of the same repetition too,   *)
(* and add to the same parent; they have finished with marking before the  *)
(* call goes on, and have another number.                                  *)
(***************************************************************************)
EXTENDS GrammarFuzzing, SequenceTheorems, TLAPS

\* A sequence of whatever it has as members.
IsList(s) == s \in Seq({s[i] : i \in DOMAIN s})

\* The calls of repetitions that have begun to count, and the end of the tree when the
\* last round began.
Counts(c) == c.goal # -1
Until(c) == c.parent + c.size - 1

IsCall(ns, c) ==
    /\ c = [node |-> c.node, parent |-> c.parent, max_nodes |-> c.max_nodes,
            size |-> c.size, rounds |-> c.rounds, goal |-> c.goal,
            current |-> c.current, reserved |-> c.reserved]
    /\ c.node \in DOMAIN ns
    /\ c.parent \in Nat /\ c.size \in Int /\ c.rounds \in Nat /\ c.current \in Nat
    /\ Counts(c) => ns[c.node].type \notin {"terminal", "non_terminal", "alternative",
                                            "concatenation"}

IsMark(ns, m) == m = <<m[1], m[2], m[3]>> /\ m[1] \in DOMAIN ns /\ m[2] \in Nat /\ m[3] \in Int

IsTreeNode(ns, t) ==
    /\ t = [symbol |-> t.symbol, parent |-> t.parent, origins |-> t.origins]
    /\ t.parent \in Nat
    /\ IsList(t.origins)
    /\ \A m \in Range(t.origins) : IsMark(ns, m)

AreCalls(ns, st) == IsList(st) /\ \A k \in DOMAIN st : IsCall(ns, st[k])
AreTreeNodes(ns, t) == IsList(t) /\ \A i \in DOMAIN t : IsTreeNode(ns, t[i])

FuzzTypes ==
    /\ use \in Use
    /\ iteration \in [DOMAIN node -> Nat]
    /\ AreCalls(node, stack)
    /\ AreTreeNodes(node, tree)

\* A call that has not begun a round is the one that runs, and has added nothing.
RoundsInv(st, t) ==
    \A k \in DOMAIN st :
        /\ Until(st[k]) <= Len(t)
        /\ st[k].rounds = 0 => k = 1 /\ Until(st[k]) = Len(t)

\* Every call has a number of its own, which no later one will have.
Numbered(it, t) == \A i \in DOMAIN t : \A m \in Range(t[i].origins) : m[2] <= it[m[1]]
NumbersInv(it, st) ==
    /\ \A k \in DOMAIN st : Counts(st[k]) => st[k].current <= it[st[k].node]
    /\ \A k, l \in DOMAIN st :
          k # l /\ Counts(st[k]) /\ Counts(st[l]) /\ st[k].node = st[l].node
          => st[k].current # st[l].current

IsMarked(t, n, current) == \E m \in Range(t.origins) : m[1] = n /\ m[2] = current

\* A call under way has marked, from its first node on, all that it will ever mark up to
\* the beginning of its last round.
HasMarked(t, c) ==
    \A i \in DOMAIN t : \A m \in Range(t[i].origins) :
        m[1] = c.node /\ m[2] = c.current =>
          /\ t[i].parent = c.parent
          /\ i <= Until(c)
          /\ m[3] < c.rounds - 1
          /\ \A l \in i..Until(c) : t[l].parent = c.parent => IsMarked(t[l], c.node, c.current)

\* What RepetitionsAreMarked says, of unfinished trees too.
Marks(t) ==
    \A i, j \in DOMAIN t :
      \A m \in Range(t[i].origins), n \in Range(t[j].origins) :
        m[1] = n[1] /\ m[2] = n[2] =>
          /\ t[i].parent = t[j].parent
          /\ i < j => m[3] <= n[3]
          /\ \A l \in i..j : t[l].parent = t[i].parent => IsMarked(t[l], m[1], m[2])

CountingInv(st, t) == \A k \in DOMAIN st : Counts(st[k]) => HasMarked(t, st[k])

FuzzInv ==
    /\ FuzzTypes
    /\ RoundsInv(stack, tree)
    /\ Numbered(iteration, tree)
    /\ NumbersInv(iteration, stack)
    /\ CountingInv(stack, tree)
    /\ Marks(tree)
-------------------------------------------------------------------------------
(* Lists.                                                                  *)

LEMMA ListFacts ==
  ASSUME NEW s, IsList(s)
  PROVE  /\ Len(s) \in Nat /\ DOMAIN s = 1..Len(s)
         /\ s # <<>> => Head(s) = s[1] /\ 1 \in DOMAIN s
BY DEF IsList

LEMMA ListOf ==
  ASSUME NEW S, NEW s \in Seq(S)
  PROVE  IsList(s)
<1> DEFINE T == {s[i] : i \in DOMAIN s}
<1>1. Len(s) \in Nat /\ DOMAIN s = 1..Len(s) /\ s = [i \in 1..Len(s) |-> s[i]]
  OBVIOUS
<1>2. s \in [1..Len(s) -> T]
  BY <1>1
<1>3. s \in Seq(T)
  BY <1>1, <1>2
<1> QED
  BY <1>3 DEF IsList

LEMMA ListAppended ==
  ASSUME NEW s, IsList(s), NEW x
  PROVE  /\ IsList(Append(s, x)) /\ Len(Append(s, x)) = Len(s) + 1
         /\ Append(s, x)[Len(s) + 1] = x
         /\ \A i \in DOMAIN s : Append(s, x)[i] = s[i]
         /\ DOMAIN Append(s, x) = 1..(Len(s) + 1)
<1> DEFINE T == {s[i] : i \in DOMAIN s} \cup {x}
<1>1. s \in Seq(T) /\ x \in T
  BY DEF IsList
<1> HIDE DEF T
<1>2. Append(s, x) \in Seq(T)
  BY <1>1
<1>3. IsList(Append(s, x))
  BY <1>2, ListOf
<1> QED
  BY <1>1, <1>3

\* The stack st becomes new: h new calls take the place of the topmost one.
Follows(new, st, h) ==
    /\ IsList(new)
    /\ \A k \in DOMAIN new : k > h => k + 1 - h \in (DOMAIN st) \ {1} /\ new[k] = st[k + 1 - h]

LEMMA StackSteps ==
  ASSUME NEW s, IsList(s), s # <<>>, NEW front, IsList(front), NEW new, new = front \o Tail(s),
         NEW h, h = Len(front)
  PROVE  Follows(new, s, h) /\ \A k \in 1..h : new[k] = front[k]
<1> DEFINE T == {s[i] : i \in DOMAIN s} \cup {front[i] : i \in DOMAIN front}
<1>1. PICK l, rest : l = Len(s) /\ rest = Tail(s)
  OBVIOUS
<1>2. /\ s \in Seq(T) /\ front \in Seq(T) /\ l \in Nat /\ l # 0 /\ DOMAIN s = 1..l
      /\ h \in Nat
  BY <1>1 DEF IsList
<1> HIDE DEF T
<1>3. /\ rest \in Seq(T) /\ Len(rest) = l - 1
      /\ \A k \in 1..(l - 1) : rest[k] = s[k + 1]
  BY <1>1, <1>2
<1>4. /\ new \in Seq(T) /\ Len(new) = h + (l - 1)
      /\ \A k \in 1..(h + (l - 1)) : new[k] = IF k <= h THEN front[k] ELSE rest[k - h]
  <2>1. new = front \o rest
    BY <1>1
  <2>2. /\ front \o rest \in Seq(T) /\ Len(front \o rest) = Len(front) + Len(rest)
        /\ \A k \in 1..(Len(front) + Len(rest)) :
              (front \o rest)[k] = IF k <= Len(front) THEN front[k] ELSE rest[k - Len(front)]
    BY <1>2, <1>3, ConcatProperties
  <2> QED
    BY <1>3, <2>1, <2>2
<1>5. IsList(new) /\ DOMAIN new = 1..(h + (l - 1))
  <2>1. DOMAIN new = 1..Len(new)
    BY <1>4
  <2> QED
    BY <1>4, <2>1, ListOf
<1>6. ASSUME NEW k \in 1..(h + (l - 1)), k > h
      PROVE  k + 1 - h \in (DOMAIN s) \ {1} /\ new[k] = s[k + 1 - h]
  <2>1. /\ k - h \in 1..(l - 1) /\ k + 1 - h = (k - h) + 1 /\ ~ (k <= h)
        /\ k + 1 - h \in 2..l
    BY <1>2, <1>6
  <2> QED
    BY <1>2, <1>3, <1>4, <2>1
<1>7. \A k \in 1..h : new[k] = front[k]
  BY <1>2, <1>4
<1> QED
  BY <1>5, <1>6, <1>7 DEF Follows

LEMMA Popped ==
  ASSUME NEW s, IsList(s), s # <<>>, NEW new, new = Tail(s)
  PROVE  IsList(new) /\ Follows(new, s, 0) /\ 0 \in 0..2 /\ \A k \in DOMAIN new : ~ (k <= 0)
<1>1. <<>> \in Seq({}) /\ Len(<<>>) = 0 /\ 0 \in Nat
  OBVIOUS
<1>2. new = <<>> \o Tail(s)
  <2>1. Tail(s) \in Seq({s[i] : i \in DOMAIN s})
    BY DEF IsList
  <2> QED
    BY <2>1
<1>3. Follows(new, s, 0)
  BY <1>1, <1>2, ListOf, StackSteps
<1> QED
  BY <1>1, <1>3, ListFacts DEF Follows

LEMMA Replaced ==
  ASSUME NEW s, IsList(s), s # <<>>, NEW c, NEW new, new = <<c>> \o Tail(s)
  PROVE  /\ IsList(new) /\ Follows(new, s, 1) /\ 1 \in 0..2
         /\ new[1] = c /\ \A k \in DOMAIN new : k <= 1 => k = 1
<1>1. PICK front : front = <<c>>
  OBVIOUS
<1>2. front \in Seq({c}) /\ Len(front) = 1 /\ front[1] = c /\ 1 \in Nat /\ 1 \in 1..1
  BY <1>1
<1>3. new = front \o Tail(s)
  BY <1>1
<1>4. IsList(front)
  BY <1>2, ListOf
<1>5. Follows(new, s, 1) /\ \A k \in 1..1 : new[k] = front[k]
  <2>1. 1 = Len(front)
    BY <1>2
  <2>2. Follows(new, s, 1)
    BY <1>3, <1>4, <2>1, StackSteps
  <2>3. \A k \in 1..Len(front) : new[k] = front[k]
    BY <1>3, <1>4, StackSteps
  <2> QED
    BY <2>1, <2>2, <2>3
<1> QED
  BY <1>2, <1>5, ListFacts DEF Follows

LEMMA Pushed ==
  ASSUME NEW s, IsList(s), s # <<>>, NEW c, NEW d, NEW new, new = <<c, d>> \o Tail(s)
  PROVE  /\ IsList(new) /\ Follows(new, s, 2) /\ 2 \in 0..2
         /\ new[1] = c /\ new[2] = d /\ \A k \in DOMAIN new : k <= 2 => k = 1 \/ k = 2
<1>1. PICK front : front = <<c, d>>
  OBVIOUS
<1>2. /\ front \in Seq({c, d}) /\ Len(front) = 2 /\ front[1] = c /\ front[2] = d
      /\ 2 \in Nat /\ 1 \in 1..2 /\ 2 \in 1..2
  BY <1>1
<1>3. new = front \o Tail(s)
  BY <1>1
<1>4. IsList(front)
  BY <1>2, ListOf
<1>5. Follows(new, s, 2) /\ \A k \in 1..2 : new[k] = front[k]
  <2>1. 2 = Len(front)
    BY <1>2
  <2>2. Follows(new, s, 2)
    BY <1>3, <1>4, <2>1, StackSteps
  <2>3. \A k \in 1..Len(front) : new[k] = front[k]
    BY <1>3, <1>4, StackSteps
  <2> QED
    BY <2>1, <2>2, <2>3
<1> QED
  BY <1>2, <1>5, ListFacts DEF Follows

LEMMA EmptyList == IsList(<<>>) /\ Range(<<>>) = {}
<1>1. <<>> \in Seq({}) /\ DOMAIN <<>> = {}
  OBVIOUS
<1> QED
  BY <1>1, ListOf DEF Range
-------------------------------------------------------------------------------
(* The calls.                                                              *)

\* What there is to know of a call that is new on the stack, in place k of h.
NewCall(st, t, it, k, h) ==
    /\ IsCall(node, st[k])
    /\ Until(st[k]) <= Len(t)
    /\ st[k].rounds = 0 => k = 1 /\ Until(st[k]) = Len(t)
    /\ Counts(st[k]) =>
          /\ k = h
          /\ st[k].current <= it[st[k].node]
          /\ HasMarked(t, st[k])
          /\ \A j \in (DOMAIN stack) \ {1} :
                Counts(stack[j]) /\ stack[j].node = st[k].node
                => stack[j].current # st[k].current

\* The calls below the topmost one depend on nothing that the step changes.
LEMMA CallsKept ==
  ASSUME FuzzInv, NEW st, NEW t, NEW it \in [DOMAIN node -> Nat], NEW h \in 0..2,
         Follows(st, stack, h), Len(t) \in Nat, Len(tree) <= Len(t),
         \A n \in DOMAIN node : iteration[n] <= it[n],
         \A k \in DOMAIN st : k <= h => NewCall(st, t, it, k, h),
         \A j \in (DOMAIN stack) \ {1} : Counts(stack[j]) => HasMarked(t, stack[j])
  PROVE  AreCalls(node, st) /\ RoundsInv(st, t) /\ NumbersInv(it, st) /\ CountingInv(st, t)
<1> DEFINE at(k) == k + 1 - h
<1>1. /\ IsList(st) /\ DOMAIN st = 1..Len(st) /\ Len(st) \in Nat
      /\ \A k \in DOMAIN st : k > h => at(k) \in (DOMAIN stack) \ {1} /\ st[k] = stack[at(k)]
  BY ListFacts DEF Follows
<1>2. /\ IsList(stack) /\ DOMAIN stack = 1..Len(stack) /\ Len(stack) \in Nat
      /\ \A j \in DOMAIN stack : IsCall(node, stack[j])
      /\ Len(tree) \in Nat /\ iteration \in [DOMAIN node -> Nat]
  BY ListFacts DEF FuzzInv, FuzzTypes, AreCalls, AreTreeNodes
<1>3. ASSUME NEW c, IsCall(node, c)
      PROVE  /\ Until(c) \in Int /\ c.node \in DOMAIN node /\ c.current \in Nat
             /\ iteration[c.node] \in Nat /\ it[c.node] \in Nat
             /\ iteration[c.node] <= it[c.node]
  BY <1>2, <1>3 DEF IsCall, Until
<1>4. AreCalls(node, st)
  <2>1. ASSUME NEW k \in DOMAIN st PROVE IsCall(node, st[k])
    <3>1. k \in Nat
      BY <1>1
    <3>2. CASE k <= h
      BY <3>2 DEF NewCall
    <3>3. CASE k > h
      BY <1>1, <1>2, <3>3
    <3> QED
      BY <3>1, <3>2, <3>3
  <2> QED
    BY <1>1, <2>1 DEF AreCalls
<1>5. RoundsInv(st, t)
  <2> SUFFICES ASSUME NEW k \in DOMAIN st
               PROVE  /\ Until(st[k]) <= Len(t)
                      /\ st[k].rounds = 0 => k = 1 /\ Until(st[k]) = Len(t)
    BY DEF RoundsInv
  <2>1. CASE k <= h
    BY <2>1 DEF NewCall
  <2>2. CASE ~ (k <= h)
    <3>1. k > h
      BY <1>1, <2>2
    <3>2. at(k) \in (DOMAIN stack) \ {1} /\ st[k] = stack[at(k)]
      BY <1>1, <3>1
    <3> HIDE DEF at
    <3>3. Until(stack[at(k)]) <= Len(tree) /\ stack[at(k)].rounds # 0
      BY <3>2 DEF FuzzInv, RoundsInv
    <3>4. Until(stack[at(k)]) \in Int
      BY <1>2, <1>3, <3>2
    <3> QED
      BY <1>2, <3>2, <3>3, <3>4
  <2> QED
    BY <2>1, <2>2
<1>6. ASSUME NEW k \in DOMAIN st, Counts(st[k])
      PROVE  st[k].current <= it[st[k].node] /\ HasMarked(t, st[k])
  <2>1. CASE k <= h
    BY <1>6, <2>1 DEF NewCall
  <2>2. CASE ~ (k <= h)
    <3>1. k > h
      BY <1>1, <2>2
    <3>2. at(k) \in (DOMAIN stack) \ {1} /\ st[k] = stack[at(k)]
      BY <1>1, <3>1
    <3> HIDE DEF at
    <3>3. stack[at(k)].current <= iteration[stack[at(k)].node]
      BY <1>6, <3>2 DEF FuzzInv, NumbersInv
    <3> QED
      BY <1>2, <1>3, <1>6, <3>2, <3>3
  <2> QED
    BY <2>1, <2>2
<1>7. ASSUME NEW k \in DOMAIN st, NEW l \in DOMAIN st, k < l,
             Counts(st[k]), Counts(st[l]), st[k].node = st[l].node
      PROVE  st[k].current # st[l].current
  <2>1. k \in Nat /\ l \in Nat
    BY <1>1
  <2>2. ~ (l <= h)
    BY <1>7, <2>1 DEF NewCall
  <2>3. at(l) \in (DOMAIN stack) \ {1} /\ st[l] = stack[at(l)]
    BY <1>1, <2>1, <2>2
  <2>4. CASE k <= h
    BY <1>7, <2>3, <2>4 DEF NewCall
  <2>5. CASE ~ (k <= h)
    <3>1. at(k) \in (DOMAIN stack) \ {1} /\ st[k] = stack[at(k)]
      BY <1>1, <2>1, <2>5
    <3>2. at(k) # at(l)
      BY <1>7, <2>1
    <3> HIDE DEF at
    <3> QED
      BY <1>7, <2>3, <3>1, <3>2 DEF FuzzInv, NumbersInv
  <2> QED
    BY <2>4, <2>5
<1>8. NumbersInv(it, st)
  <2>1. ASSUME NEW k \in DOMAIN st, NEW l \in DOMAIN st, k # l,
               Counts(st[k]), Counts(st[l]), st[k].node = st[l].node
        PROVE  st[k].current # st[l].current
    <3>1. k < l \/ l < k
      BY <1>1, <2>1
    <3> QED
      BY <1>7, <2>1, <3>1
  <2> QED
    BY <1>6, <2>1 DEF NumbersInv
<1>9. CountingInv(st, t)
  BY <1>6 DEF CountingInv
<1> QED
  BY <1>4, <1>5, <1>8, <1>9
-------------------------------------------------------------------------------
(* The tree.                                                               *)

\* A node without marks is added.
LEMMA GrownTree ==
  ASSUME FuzzInv, NEW x, IsTreeNode(node, x), x.origins = <<>>
  PROVE  LET t == Append(tree, x)
         IN  /\ Len(t) = Len(tree) + 1 /\ Len(tree) \in Nat
             /\ AreTreeNodes(node, t)
             /\ Numbered(iteration, t)
             /\ Marks(t)
             /\ \A c : IsCall(node, c) /\ Until(c) <= Len(tree) /\ HasMarked(tree, c)
                       => HasMarked(t, c)
<1> DEFINE l == Len(tree)
           t == Append(tree, x)
<1>1. IsList(tree) /\ l \in Nat /\ DOMAIN tree = 1..l /\ \A i \in 1..l : IsTreeNode(node, tree[i])
  BY ListFacts DEF FuzzInv, FuzzTypes, AreTreeNodes
<1>2. /\ IsList(t) /\ Len(t) = l + 1 /\ t[l + 1] = x /\ \A i \in 1..l : t[i] = tree[i]
      /\ DOMAIN t = 1..(l + 1)
  BY <1>1, ListAppended
<1>3. Range(x.origins) = {}
  BY DEF Range
<1> HIDE DEF t
<1>4. AreTreeNodes(node, t)
  BY <1>1, <1>2 DEF AreTreeNodes
<1>5. ASSUME NEW i \in DOMAIN t, NEW m \in Range(t[i].origins)
      PROVE  i \in 1..l /\ t[i] = tree[i] /\ i \in DOMAIN tree /\ m \in Range(tree[i].origins)
  BY <1>1, <1>2, <1>3, <1>5
<1>6. Numbered(iteration, t)
  BY <1>5 DEF Numbered, FuzzInv
<1>7. Marks(t)
  <2> SUFFICES ASSUME NEW i \in DOMAIN t, NEW j \in DOMAIN t, NEW m \in Range(t[i].origins),
                      NEW n \in Range(t[j].origins), m[1] = n[1], m[2] = n[2]
               PROVE  /\ t[i].parent = t[j].parent
                      /\ i < j => m[3] <= n[3]
                      /\ \A k \in i..j : t[k].parent = t[i].parent => IsMarked(t[k], m[1], m[2])
    BY DEF Marks
  <2>1. /\ i \in 1..l /\ i \in DOMAIN tree /\ t[i] = tree[i] /\ m \in Range(tree[i].origins)
        /\ j \in 1..l /\ j \in DOMAIN tree /\ t[j] = tree[j] /\ n \in Range(tree[j].origins)
    BY <1>5
  <2>2. \A k \in i..j : t[k] = tree[k]
    BY <1>1, <1>2, <2>1
  <2>3. Marks(tree)
    BY DEF FuzzInv
  <2> QED
    BY <2>1, <2>2, <2>3 DEF Marks
<1>8. ASSUME NEW c, IsCall(node, c), Until(c) <= l, HasMarked(tree, c)
      PROVE  HasMarked(t, c)
  <2>1. Until(c) \in Int
    BY <1>8 DEF IsCall, Until
  <2> SUFFICES ASSUME NEW i \in DOMAIN t, NEW m \in Range(t[i].origins),
                      m[1] = c.node, m[2] = c.current
               PROVE  /\ t[i].parent = c.parent
                      /\ i <= Until(c)
                      /\ m[3] < c.rounds - 1
                      /\ \A k \in i..Until(c) :
                            t[k].parent = c.parent => IsMarked(t[k], c.node, c.current)
    BY DEF HasMarked
  <2>2. i \in 1..l /\ i \in DOMAIN tree /\ t[i] = tree[i] /\ m \in Range(tree[i].origins)
    BY <1>5
  <2>3. \A k \in i..Until(c) : t[k] = tree[k]
    BY <1>1, <1>2, <1>8, <2>1, <2>2
  <2> QED
    BY <1>8, <2>2, <2>3 DEF HasMarked
<1> QED
  BY <1>1, <1>2, <1>4, <1>6, <1>7, <1>8 DEF t

LEMMA RangeWithFront ==
  ASSUME NEW o, IsList(o), NEW m
  PROVE  IsList(<<m>> \o o) /\ Range(<<m>> \o o) = Range(o) \cup {m}
<1> DEFINE T == {o[i] : i \in DOMAIN o} \cup {m}
           new == <<m>> \o o
<1>1. o \in Seq(T) /\ <<m>> \in Seq(T) /\ Len(<<m>>) = 1 /\ <<m>>[1] = m
      /\ DOMAIN o = 1..Len(o) /\ Len(o) \in Nat
  BY DEF IsList
<1> HIDE DEF T
<1>2. /\ new \in Seq(T) /\ Len(new) = Len(<<m>>) + Len(o)
      /\ \A k \in 1..(Len(<<m>>) + Len(o)) :
            new[k] = IF k <= Len(<<m>>) THEN <<m>>[k] ELSE o[k - Len(<<m>>)]
  BY <1>1, ConcatProperties
<1> HIDE DEF new
<1>3. /\ DOMAIN new = 1..(1 + Len(o)) /\ new[1] = m
      /\ \A k \in 2..(1 + Len(o)) : new[k] = o[k - 1]
  BY <1>1, <1>2
<1>4. \A k \in DOMAIN o : k + 1 \in DOMAIN new /\ new[k + 1] = o[k]
  BY <1>1, <1>3
<1>5. \A k \in DOMAIN new : k = 1 \/ (k - 1 \in DOMAIN o /\ new[k] = o[k - 1])
  BY <1>1, <1>3
<1>6. Range(new) = Range(o) \cup {m}
  BY <1>1, <1>3, <1>4, <1>5 DEF Range
<1>7. IsList(new)
  BY <1>2, ListOf
<1> QED
  BY <1>6, <1>7 DEF new

LEMMA TopOfStack ==
  ASSUME FuzzInv, stack # <<>>
  PROVE  top = stack[1] /\ 1 \in DOMAIN stack /\ IsCall(node, top)
<1>1. IsList(stack) /\ \A k \in DOMAIN stack : IsCall(node, stack[k])
  BY DEF FuzzInv, FuzzTypes, AreCalls
<1>2. Head(stack) = stack[1] /\ 1 \in DOMAIN stack
  BY <1>1, ListFacts
<1> QED
  BY <1>1, <1>2 DEF top

\* What the end of a round marks: the nodes below the parent that came since it began.
IsNew(i) == tree[i].parent = top.parent /\ i > Until(top)
MarkOf(c) == <<c.node, c.current, c.rounds - 1>>

LEMMA MarkedAt ==
  ASSUME FuzzInv, stack # <<>>
  PROVE  /\ IsList(Marked) /\ DOMAIN Marked = DOMAIN tree /\ Len(Marked) = Len(tree)
         /\ \A i \in DOMAIN tree :
               /\ IsTreeNode(node, Marked[i])
               /\ Marked[i].parent = tree[i].parent
               /\ Range(Marked[i].origins) =
                     Range(tree[i].origins) \cup (IF IsNew(i) THEN {MarkOf(top)} ELSE {})
<1> DEFINE l == Len(tree)
           t == Marked
<1>1. /\ IsList(tree) /\ l \in Nat /\ DOMAIN tree = 1..l
      /\ \A i \in DOMAIN tree : IsTreeNode(node, tree[i])
  BY ListFacts DEF FuzzInv, FuzzTypes, AreTreeNodes
<1>2. IsCall(node, top)
  BY TopOfStack
<1>3. /\ DOMAIN t = 1..l
      /\ \A i \in DOMAIN tree :
            t[i] = IF tree[i].parent = top.parent /\ i >= top.parent + top.size
                   THEN [tree[i] EXCEPT !.origins = <<MarkOf(top)>> \o @]
                   ELSE tree[i]
  BY <1>1 DEF Marked, MarkOf
<1>4. IsList(t) /\ Len(t) = l
  <2>1. t = [i \in 1..l |-> t[i]]
    BY <1>1 DEF Marked
  <2> HIDE DEF t
  <2>2. t \in [1..l -> {t[i] : i \in 1..l}]
    BY <2>1
  <2>3. t \in Seq({t[i] : i \in 1..l})
    BY <1>1, <2>2
  <2> QED
    BY <1>1, <1>3, <2>3, ListOf
<1> HIDE DEF t
<1>5. ASSUME NEW i \in DOMAIN tree
      PROVE  /\ IsTreeNode(node, t[i])
             /\ t[i].parent = tree[i].parent
             /\ Range(t[i].origins) =
                     Range(tree[i].origins) \cup (IF IsNew(i) THEN {MarkOf(top)} ELSE {})
  <2>1. IsNew(i) <=> tree[i].parent = top.parent /\ i >= top.parent + top.size
    BY <1>1, <1>2 DEF IsNew, Until, IsCall
  <2>2. IsTreeNode(node, tree[i])
    BY <1>1
  <2>3. CASE ~ IsNew(i)
    BY <1>3, <2>1, <2>2, <2>3
  <2>4. CASE IsNew(i)
    <3> DEFINE new == <<MarkOf(top)>> \o tree[i].origins
    <3>1. t[i] = [tree[i] EXCEPT !.origins = new]
      BY <1>3, <2>1, <2>4
    <3>2. IsList(new) /\ Range(new) = Range(tree[i].origins) \cup {MarkOf(top)}
      BY <2>2, RangeWithFront DEF IsTreeNode
    <3>3. IsMark(node, MarkOf(top))
      BY <1>2 DEF IsCall, IsMark, MarkOf
    <3> HIDE DEF new
    <3>4. tree[i] = [symbol |-> tree[i].symbol, parent |-> tree[i].parent,
                     origins |-> tree[i].origins]
      BY <2>2 DEF IsTreeNode
    <3>5. t[i] = [symbol |-> tree[i].symbol, parent |-> tree[i].parent, origins |-> new]
      BY <3>1, <3>4
    <3>6. t[i].symbol = tree[i].symbol /\ t[i].parent = tree[i].parent /\ t[i].origins = new
      BY <3>5
    <3>7. IsTreeNode(node, t[i])
      BY <2>2, <3>2, <3>3, <3>5, <3>6 DEF IsTreeNode
    <3> QED
      BY <2>4, <3>2, <3>6, <3>7
  <2> QED
    BY <2>3, <2>4
<1> QED
  BY <1>1, <1>3, <1>4, <1>5 DEF t

LEMMA MarkedTree ==
  ASSUME FuzzInv, stack # <<>>, Counts(top)
  PROVE  /\ Len(Marked) = Len(tree) /\ Len(tree) \in Nat
         /\ AreTreeNodes(node, Marked)
         /\ Numbered(iteration, Marked)
         /\ Marks(Marked)
         /\ \A j \in (DOMAIN stack) \ {1} : Counts(stack[j]) => HasMarked(Marked, stack[j])
         /\ \A c : /\ c.node = top.node /\ c.current = top.current /\ c.parent = top.parent
                   /\ Until(c) = Len(tree) /\ c.rounds = top.rounds + 1
                   => HasMarked(Marked, c)
<1> DEFINE l == Len(tree)
           t == Marked
           u == Until(top)
           mark == MarkOf(top)
<1>1. /\ IsList(tree) /\ l \in Nat /\ DOMAIN tree = 1..l
      /\ \A i \in DOMAIN tree : IsTreeNode(node, tree[i])
  BY ListFacts DEF FuzzInv, FuzzTypes, AreTreeNodes
<1>2. /\ top = stack[1] /\ 1 \in DOMAIN stack /\ IsCall(node, top)
      /\ \A j \in DOMAIN stack : IsCall(node, stack[j])
  BY TopOfStack DEF FuzzInv, FuzzTypes, AreCalls
<1>3. /\ IsList(t) /\ DOMAIN t = 1..l /\ Len(t) = l
      /\ \A i \in 1..l :
            /\ IsTreeNode(node, t[i])
            /\ t[i].parent = tree[i].parent
            /\ Range(t[i].origins) =
                  Range(tree[i].origins) \cup (IF IsNew(i) THEN {mark} ELSE {})
  BY <1>1, MarkedAt
<1>4. /\ u \in Int /\ top.rounds \in Nat /\ top.node \in DOMAIN node /\ top.current \in Nat
      /\ mark[1] = top.node /\ mark[2] = top.current /\ mark[3] = top.rounds - 1
      /\ u <= l
  BY <1>2 DEF IsCall, Until, MarkOf, FuzzInv, RoundsInv
<1>5. /\ HasMarked(tree, top) /\ Marks(tree) /\ Numbered(iteration, tree)
      /\ top.current <= iteration[top.node]
  BY <1>2 DEF FuzzInv, CountingInv, NumbersInv
<1>6. \A i \in 1..l : \A m \in Range(tree[i].origins) : IsMark(node, m)
  BY <1>1 DEF IsTreeNode
<1> HIDE DEF t, mark, u
<1>7. \A i \in 1..l : IsNew(i) <=> tree[i].parent = top.parent /\ i > u
  BY DEF IsNew, u
<1>8. AreTreeNodes(node, t)
  BY <1>3 DEF AreTreeNodes
<1>9. Numbered(iteration, t)
  <2> SUFFICES ASSUME NEW i \in DOMAIN t, NEW m \in Range(t[i].origins)
               PROVE  m[2] <= iteration[m[1]]
    BY DEF Numbered
  <2>1. m \in Range(tree[i].origins) \/ m = mark
    BY <1>3
  <2> QED
    BY <1>1, <1>3, <1>4, <1>5, <2>1 DEF Numbered
\* what was marked is still marked, and what is new is marked for top
<1>10. ASSUME NEW k \in 1..l
       PROVE  /\ \A n, current : IsMarked(tree[k], n, current) => IsMarked(t[k], n, current)
              /\ IsNew(k) => IsMarked(t[k], top.node, top.current)
  BY <1>3, <1>4 DEF IsMarked
\* a mark that is not of top is an old one
<1>11. ASSUME NEW i \in 1..l, NEW m \in Range(t[i].origins)
       PROVE  \/ m \in Range(tree[i].origins)
              \/ m = mark /\ IsNew(i)
  BY <1>3
\* of top's marks
<1>12. ASSUME NEW i \in 1..l, NEW m \in Range(t[i].origins), m[1] = top.node, m[2] = top.current
       PROVE  /\ t[i].parent = top.parent
              /\ i <= u => m \in Range(tree[i].origins) /\ m[3] < top.rounds - 1
              /\ i > u => m[3] = top.rounds - 1
              /\ \A k \in i..l : t[k].parent = top.parent => IsMarked(t[k], top.node, top.current)
  <2>1. CASE m \in Range(tree[i].origins)
    <3>1. /\ tree[i].parent = top.parent /\ i <= u /\ m[3] < top.rounds - 1
          /\ \A k \in i..u :
                tree[k].parent = top.parent => IsMarked(tree[k], top.node, top.current)
      BY <1>1, <1>5, <1>12, <2>1 DEF HasMarked, u
    <3>2. ASSUME NEW k \in i..l, t[k].parent = top.parent
          PROVE  IsMarked(t[k], top.node, top.current)
      <4>1. k \in 1..l /\ tree[k].parent = top.parent
        BY <1>1, <1>3, <3>2
      <4>2. CASE k <= u
        <5>1. k \in i..u
          BY <1>4, <3>2, <4>2
        <5> QED
          BY <1>10, <3>1, <4>1, <5>1
      <4>3. CASE k > u
        BY <1>7, <1>10, <4>1, <4>3
      <4> QED
        BY <1>4, <4>1, <4>2, <4>3
    <3> QED
      BY <1>3, <1>4, <2>1, <3>1, <3>2
  <2>2. CASE m = mark /\ IsNew(i)
    <3>1. tree[i].parent = top.parent /\ i > u
      BY <1>7, <2>2
    <3>2. ASSUME NEW k \in i..l, t[k].parent = top.parent
          PROVE  IsMarked(t[k], top.node, top.current)
      <4>1. k \in 1..l /\ tree[k].parent = top.parent /\ k > u
        BY <1>1, <1>3, <1>4, <3>1, <3>2
      <4> QED
        BY <1>7, <1>10, <4>1
    <3> QED
      BY <1>3, <1>4, <2>2, <3>1, <3>2
  <2> QED
    BY <1>11, <2>1, <2>2
<1>13. Marks(t)
  <2> SUFFICES ASSUME NEW i \in DOMAIN t, NEW j \in DOMAIN t, NEW m \in Range(t[i].origins),
                      NEW n \in Range(t[j].origins), m[1] = n[1], m[2] = n[2]
               PROVE  /\ t[i].parent = t[j].parent
                      /\ i < j => m[3] <= n[3]
                      /\ \A k \in i..j : t[k].parent = t[i].parent => IsMarked(t[k], m[1], m[2])
    BY DEF Marks
  <2>1. i \in 1..l /\ j \in 1..l
    BY <1>3
  <2>2. CASE m[1] = top.node /\ m[2] = top.current
    <3>1. /\ t[i].parent = top.parent /\ t[j].parent = top.parent
          /\ \A k \in i..l : t[k].parent = top.parent => IsMarked(t[k], top.node, top.current)
      BY <1>12, <2>1, <2>2
    <3>2. ASSUME i < j PROVE m[3] <= n[3]
      <4>1. CASE j <= u
        <5>1. i <= u
          BY <1>4, <2>1, <3>2, <4>1
        <5>2. m \in Range(tree[i].origins) /\ n \in Range(tree[j].origins)
          BY <1>12, <2>1, <2>2, <4>1, <5>1
        <5> QED
          BY <1>1, <1>5, <2>1, <3>2, <5>2 DEF Marks
      <4>2. CASE j > u
        <5>1. n[3] = top.rounds - 1
          BY <1>12, <2>1, <2>2, <4>2
        <5>2. CASE i > u
          BY <1>4, <1>12, <2>1, <2>2, <5>1, <5>2
        <5>3. CASE i <= u
          <6>1. m \in Range(tree[i].origins) /\ m[3] < top.rounds - 1
            BY <1>12, <2>1, <2>2, <5>3
          <6>2. m[3] \in Int
            BY <1>6, <2>1, <6>1 DEF IsMark
          <6> QED
            BY <1>4, <5>1, <6>1, <6>2
        <5> QED
          BY <1>4, <2>1, <5>2, <5>3
      <4> QED
        BY <1>4, <2>1, <4>1, <4>2
    <3>3. \A k \in i..j : k \in i..l
      BY <1>1, <2>1
    <3> QED
      BY <2>2, <3>1, <3>2, <3>3
  <2>3. CASE ~ (m[1] = top.node /\ m[2] = top.current)
    <3>1. m \in Range(tree[i].origins) /\ n \in Range(tree[j].origins)
      BY <1>4, <1>11, <2>1, <2>3
    <3>2. /\ tree[i].parent = tree[j].parent
          /\ i < j => m[3] <= n[3]
          /\ \A k \in i..j : tree[k].parent = tree[i].parent => IsMarked(tree[k], m[1], m[2])
      BY <1>1, <1>5, <2>1, <3>1 DEF Marks
    <3>3. ASSUME NEW k \in i..j, t[k].parent = t[i].parent
          PROVE  IsMarked(t[k], m[1], m[2])
      <4>1. k \in 1..l
        BY <1>1, <2>1
      <4> QED
        BY <1>3, <1>10, <2>1, <3>2, <3>3, <4>1
    <3> QED
      BY <1>3, <2>1, <3>2, <3>3
  <2> QED
    BY <2>2, <2>3
<1>14. ASSUME NEW j \in (DOMAIN stack) \ {1}, Counts(stack[j])
       PROVE  HasMarked(t, stack[j])
  <2> DEFINE c == stack[j]
  <2>1. /\ IsCall(node, c) /\ HasMarked(tree, c) /\ Until(c) <= l
        /\ (c.node = top.node => c.current # top.current)
    <3>1. /\ Counts(stack[1]) /\ 1 \in DOMAIN stack /\ j \in DOMAIN stack /\ j # 1
      BY <1>2
    <3>2. stack[j].node = stack[1].node => stack[j].current # stack[1].current
      BY <1>14, <3>1 DEF FuzzInv, NumbersInv
    <3>3. HasMarked(tree, stack[j]) /\ Until(stack[j]) <= l
      BY <1>14 DEF FuzzInv, CountingInv, RoundsInv
    <3> QED
      BY <1>2, <3>2, <3>3
  <2> HIDE DEF c
  <2>2. Until(c) \in Int
    BY <2>1 DEF IsCall, Until
  <2> SUFFICES ASSUME NEW i \in DOMAIN t, NEW m \in Range(t[i].origins),
                      m[1] = c.node, m[2] = c.current
               PROVE  /\ t[i].parent = c.parent
                      /\ i <= Until(c)
                      /\ m[3] < c.rounds - 1
                      /\ \A k \in i..Until(c) :
                            t[k].parent = c.parent => IsMarked(t[k], c.node, c.current)
    BY DEF HasMarked, c
  <2>3. i \in 1..l /\ m \in Range(tree[i].origins)
    BY <1>3, <1>4, <1>11, <2>1
  <2>4. /\ tree[i].parent = c.parent
        /\ i <= Until(c)
        /\ m[3] < c.rounds - 1
        /\ \A k \in i..Until(c) :
              tree[k].parent = c.parent => IsMarked(tree[k], c.node, c.current)
    BY <1>1, <2>1, <2>3 DEF HasMarked
  <2>5. \A k \in i..Until(c) : k \in 1..l
    BY <1>1, <2>1, <2>2, <2>3
  <2> QED
    BY <1>3, <1>10, <2>3, <2>4, <2>5
<1>15. ASSUME NEW c, c.node = top.node, c.current = top.current, c.parent = top.parent,
              Until(c) = l, c.rounds = top.rounds + 1
       PROVE  HasMarked(t, c)
  <2> SUFFICES ASSUME NEW i \in DOMAIN t, NEW m \in Range(t[i].origins),
                      m[1] = c.node, m[2] = c.current
               PROVE  /\ t[i].parent = c.parent
                      /\ i <= Until(c)
                      /\ m[3] < c.rounds - 1
                      /\ \A k \in i..Until(c) :
                            t[k].parent = c.parent => IsMarked(t[k], c.node, c.current)
    BY DEF HasMarked
  <2>1. /\ t[i].parent = top.parent
        /\ i <= u => m \in Range(tree[i].origins) /\ m[3] < top.rounds - 1
        /\ i > u => m[3] = top.rounds - 1
        /\ \A k \in i..l : t[k].parent = top.parent => IsMarked(t[k], top.node, top.current)
    BY <1>3, <1>12, <1>15
  <2>2. m[3] < c.rounds - 1
    <3>1. CASE i > u
      BY <1>4, <1>15, <2>1, <3>1
    <3>2. CASE i <= u
      <4>1. m[3] \in Int
        BY <1>3, <1>6, <2>1, <3>2 DEF IsMark
      <4> QED
        BY <1>4, <1>15, <2>1, <3>2, <4>1
    <3> QED
      BY <1>3, <1>4, <3>1, <3>2
  <2>3. i <= l
    BY <1>1, <1>3
  <2> QED
    BY <1>15, <2>1, <2>2, <2>3
<1> QED
  BY <1>1, <1>3, <1>8, <1>9, <1>13, <1>14, <1>15 DEF t
-------------------------------------------------------------------------------
(* The steps.                                                              *)

LEMMA GrammarFacts ==
  ASSUME FuzzInv
  PROVE  /\ grammar.start \in DOMAIN grammar.rule
         /\ \A x \in DOMAIN grammar.rule : grammar.rule[x] \in DOMAIN node
         /\ \A n \in DOMAIN node :
               /\ node[n].type \in NodeType
               /\ \A k \in Range(kids(n)) : k \in DOMAIN node
               /\ \A i \in 1..Len(kids(n)) : kids(n)[i] \in DOMAIN node
               /\ Len(kids(n)) \in Nat
               /\ IsRepetition(n) => body(n) \in DOMAIN node
               /\ node[n].type = "non_terminal" => node[n].symbol[2] \in DOMAIN grammar.rule
<1>1. GrammarType(grammar, Terminal)
  BY UseAssumption DEF FuzzInv, FuzzTypes, UseType, grammar
<1>2. \A n \in DOMAIN node : NodeIsTyped(grammar, n, Terminal)
  BY <1>1 DEF GrammarType, node
<1>3. ASSUME NEW n \in DOMAIN node
      PROVE  /\ node[n].type \in NodeType
             /\ kids(n) \in Seq(DOMAIN node)
             /\ IsRepetition(n) => Len(kids(n)) = 1
             /\ node[n].type = "non_terminal" => node[n].symbol[2] \in DOMAIN grammar.rule
  BY <1>2, <1>3 DEF NodeIsTyped, IsSymbol, IsRepetition, kids, node
<1>4. ASSUME NEW n \in DOMAIN node
      PROVE  /\ \A k \in Range(kids(n)) : k \in DOMAIN node
             /\ \A i \in 1..Len(kids(n)) : kids(n)[i] \in DOMAIN node
             /\ Len(kids(n)) \in Nat
             /\ IsRepetition(n) => body(n) \in DOMAIN node
  BY <1>3, <1>4 DEF Range, body
<1> QED
  BY <1>1, <1>3, <1>4 DEF GrammarType, node

\* A call begins with the tree as it is.
LEMMA CallFacts ==
  ASSUME FuzzInv, NEW t, Len(t) \in Nat, NEW n \in DOMAIN node, NEW parent \in Nat, NEW budget
  PROVE  LET c == Call(t, n, parent, budget)
         IN  IsCall(node, c) /\ ~ Counts(c) /\ Until(c) = Len(t) /\ c.rounds = 0
<1> DEFINE c == Call(t, n, parent, budget)
<1>1. /\ c = [node |-> n, parent |-> parent, max_nodes |-> budget, size |-> Size(t, parent),
              rounds |-> 0, goal |-> -1, current |-> 0, reserved |-> distance[n]]
  BY DEF Call
<1> HIDE DEF c
<1>2. /\ c.node = n /\ c.parent = parent /\ c.max_nodes = budget /\ c.size = Size(t, parent)
      /\ c.rounds = 0 /\ c.goal = -1 /\ c.current = 0 /\ c.reserved = distance[n]
  BY <1>1
<1>3. Size(t, parent) = Len(t) - parent + 1
  BY DEF Size
<1>4. IsCall(node, c)
  BY <1>1, <1>2, <1>3 DEF IsCall, Counts
<1> QED
  BY <1>2, <1>3, <1>4 DEF Counts, Until, c

LEMMA RoundOf ==
  ASSUME NEW left, NEW size, NEW c,
         c = [node |-> c.node, parent |-> c.parent, max_nodes |-> c.max_nodes,
              size |-> c.size, rounds |-> c.rounds, goal |-> c.goal,
              current |-> c.current, reserved |-> c.reserved],
         NEW new, new = [c EXCEPT !.max_nodes = left, !.size = size, !.rounds = @ + 1]
  PROVE  new =
         [node |-> c.node, parent |-> c.parent, max_nodes |-> left, size |-> size,
          rounds |-> c.rounds + 1, goal |-> c.goal, current |-> c.current,
          reserved |-> c.reserved]
<1> DEFINE c1 == [c EXCEPT !.max_nodes = left]
           c2 == [c1 EXCEPT !.size = size]
           c3 == [c2 EXCEPT !.rounds = c.rounds + 1]
<1>1. [c EXCEPT !.max_nodes = left, !.size = size, !.rounds = @ + 1] =
      [c EXCEPT !.max_nodes = left, !.size = size, !.rounds = c.rounds + 1]
  OBVIOUS
<1>2. [c EXCEPT !.max_nodes = left, !.size = size, !.rounds = c.rounds + 1] = c3
  OBVIOUS
<1>3. c1 = [node |-> c.node, parent |-> c.parent, max_nodes |-> left, size |-> c.size,
            rounds |-> c.rounds, goal |-> c.goal, current |-> c.current,
            reserved |-> c.reserved]
  OBVIOUS
<1> HIDE DEF c1
<1>4. c2 = [node |-> c.node, parent |-> c.parent, max_nodes |-> left, size |-> size,
            rounds |-> c.rounds, goal |-> c.goal, current |-> c.current,
            reserved |-> c.reserved]
  BY <1>3
<1> HIDE DEF c2
<1>5. c3 = [node |-> c.node, parent |-> c.parent, max_nodes |-> left, size |-> size,
            rounds |-> c.rounds + 1, goal |-> c.goal, current |-> c.current,
            reserved |-> c.reserved]
  BY <1>4
<1> QED
  BY <1>1, <1>2, <1>5 DEF c1, c2

\* The call that goes on after another round, whatever it then reserves.
LEMMA NextRoundFacts ==
  ASSUME FuzzInv, stack # <<>>,
         NEW c, c = NextRound \/ \E rest : c = [NextRound EXCEPT !.reserved = rest]
  PROVE  /\ IsCall(node, c) /\ (Counts(c) <=> Counts(top)) /\ Until(c) = Len(tree)
         /\ c.node = top.node /\ c.current = top.current /\ c.parent = top.parent
         /\ c.rounds = top.rounds + 1 /\ c.rounds # 0
<1>1. IsCall(node, top) /\ Len(tree) \in Nat
  BY TopOfStack, ListFacts DEF FuzzInv, FuzzTypes, AreTreeNodes
<1>2. top = [node |-> top.node, parent |-> top.parent, max_nodes |-> top.max_nodes,
             size |-> top.size, rounds |-> top.rounds, goal |-> top.goal,
             current |-> top.current, reserved |-> top.reserved]
  BY <1>1 DEF IsCall
<1>3. NextRound = [node |-> top.node, parent |-> top.parent, max_nodes |-> Left,
                   size |-> Size(tree, top.parent), rounds |-> top.rounds + 1,
                   goal |-> top.goal, current |-> top.current, reserved |-> top.reserved]
  <2>1. PICK r, left, size : r = top /\ left = Left /\ size = Size(tree, top.parent)
    OBVIOUS
  <2>2. NextRound = [r EXCEPT !.max_nodes = left, !.size = size, !.rounds = @ + 1]
    BY <2>1 DEF NextRound
  <2>3. r = [node |-> r.node, parent |-> r.parent, max_nodes |-> r.max_nodes,
             size |-> r.size, rounds |-> r.rounds, goal |-> r.goal,
             current |-> r.current, reserved |-> r.reserved]
    BY <1>2, <2>1
  <2>4. NextRound = [node |-> r.node, parent |-> r.parent, max_nodes |-> left, size |-> size,
                     rounds |-> r.rounds + 1, goal |-> r.goal, current |-> r.current,
                     reserved |-> r.reserved]
    BY <2>2, <2>3, RoundOf
  <2> QED
    BY <2>1, <2>2, <2>4
<1>4. PICK rest :
        c = [node |-> top.node, parent |-> top.parent, max_nodes |-> Left,
             size |-> Size(tree, top.parent), rounds |-> top.rounds + 1,
             goal |-> top.goal, current |-> top.current, reserved |-> rest]
  BY <1>3
<1>5. /\ c.node = top.node /\ c.parent = top.parent /\ c.max_nodes = Left
      /\ c.size = Size(tree, top.parent) /\ c.rounds = top.rounds + 1 /\ c.goal = top.goal
      /\ c.current = top.current /\ c.reserved = rest
  BY <1>4
<1>6. Size(tree, top.parent) = Len(tree) - top.parent + 1
  BY DEF Size
<1>7. IsCall(node, c)
  BY <1>1, <1>4, <1>5, <1>6 DEF IsCall, Counts
<1> QED
  BY <1>1, <1>5, <1>6, <1>7 DEF IsCall, Counts, Until

\* A step in which no call marks anything.
LEMMA QuietKeepsFuzzInv ==
  ASSUME FuzzInv, stack # <<>>, UNCHANGED <<use, iteration>>,
         NEW h \in 0..2, Follows(stack', stack, h),
         \/ tree' = tree
         \/ \E x : IsTreeNode(node, x) /\ x.origins = <<>> /\ tree' = Append(tree, x),
         \A k \in DOMAIN stack' : k <= h =>
            /\ IsCall(node, stack'[k]) /\ ~ Counts(stack'[k]) /\ Until(stack'[k]) <= Len(tree')
            /\ stack'[k].rounds = 0 => k = 1 /\ Until(stack'[k]) = Len(tree')
  PROVE  FuzzInv'
<1>1. /\ IsList(tree) /\ Len(tree) \in Nat /\ iteration \in [DOMAIN node -> Nat]
      /\ \A j \in DOMAIN stack : IsCall(node, stack[j])
  BY ListFacts DEF FuzzInv, FuzzTypes, AreTreeNodes, AreCalls
<1>2. /\ Len(tree') \in Nat /\ Len(tree) <= Len(tree')
      /\ AreTreeNodes(node, tree') /\ Numbered(iteration, tree') /\ Marks(tree')
      /\ \A j \in DOMAIN stack : Counts(stack[j]) => HasMarked(tree', stack[j])
  <2>1. ASSUME NEW j \in DOMAIN stack, Counts(stack[j])
        PROVE  IsCall(node, stack[j]) /\ Until(stack[j]) <= Len(tree) /\ HasMarked(tree, stack[j])
    BY <1>1, <2>1 DEF FuzzInv, RoundsInv, CountingInv
  <2>2. CASE tree' = tree
    BY <1>1, <2>1, <2>2 DEF FuzzInv, FuzzTypes
  <2>3. ASSUME NEW x, IsTreeNode(node, x), x.origins = <<>>, tree' = Append(tree, x)
        PROVE  /\ Len(tree') \in Nat /\ Len(tree) <= Len(tree')
               /\ AreTreeNodes(node, tree') /\ Numbered(iteration, tree') /\ Marks(tree')
               /\ \A j \in DOMAIN stack : Counts(stack[j]) => HasMarked(tree', stack[j])
    BY <1>1, <2>1, <2>3, GrownTree
  <2> QED
    BY <2>2, <2>3
<1>3. \A k \in DOMAIN stack' : k <= h => NewCall(stack', tree', iteration, k, h)
  BY DEF NewCall
<1>4. \A n \in DOMAIN node : iteration[n] <= iteration[n]
  BY <1>1
<1>5. /\ AreCalls(node, stack') /\ RoundsInv(stack', tree') /\ NumbersInv(iteration, stack')
      /\ CountingInv(stack', tree')
  BY <1>1, <1>2, <1>3, <1>4, CallsKept
<1>6. node' = node
  BY DEF node, grammar
<1> QED
  BY <1>1, <1>2, <1>5, <1>6 DEF FuzzInv, FuzzTypes

LEMMA InitFuzzInv == Init => FuzzInv
<1> SUFFICES ASSUME Init PROVE FuzzInv
  OBVIOUS
<1>1. /\ use \in Use /\ stack = <<>> /\ tree = <<>>
      /\ iteration = [n \in DOMAIN use.grammar.node |-> 0]
  BY DEF Init
<1>2. IsList(<<>>)
  <2>1. <<>> \in Seq({})
    OBVIOUS
  <2> QED
    BY <2>1, ListOf
<1>3. iteration \in [DOMAIN node -> Nat]
  BY <1>1 DEF node, grammar
<1>4. FuzzTypes
  BY <1>1, <1>2, <1>3 DEF FuzzTypes, AreCalls, AreTreeNodes
<1> QED
  BY <1>1, <1>4 DEF FuzzInv, RoundsInv, Numbered, NumbersInv, CountingInv, Marks

\* Grammar.fuzz() makes the root and the first call.
LEMMA FuzzKeepsFuzzInv ==
  ASSUME FuzzInv, Fuzz
  PROVE  FuzzInv'
<1> DEFINE root == TreeNode(NonTerminal(grammar.start), 0)
           c == Call(tree', grammar.rule[grammar.start], 1, use.max_nodes - 1)
<1>1. /\ UNCHANGED <<use, iteration>> /\ tree' = <<root>> /\ stack' = <<c>>
  BY DEF Fuzz
<1>2. /\ IsTreeNode(node, root) /\ root.origins = <<>>
  <2>1. IsList(<<>>) /\ Range(<<>>) = {}
    BY EmptyList
  <2>2. /\ root = [symbol |-> NonTerminal(grammar.start), parent |-> 0, origins |-> <<>>]
    BY DEF TreeNode
  <2> HIDE DEF root
  <2>3. root.symbol = NonTerminal(grammar.start) /\ root.parent = 0 /\ root.origins = <<>>
    BY <2>2
  <2> QED
    BY <2>1, <2>2, <2>3 DEF IsTreeNode
<1>3. Len(tree') = 1 /\ Len(tree') \in Nat /\ 1 \in Nat
  BY <1>1
<1>4. IsCall(node, c) /\ ~ Counts(c) /\ Until(c) = Len(tree') /\ c.rounds = 0
  <2>1. grammar.rule[grammar.start] \in DOMAIN node
    BY GrammarFacts
  <2> QED
    BY <1>3, <2>1, CallFacts
<1> HIDE DEF root, c
<1>5. /\ IsList(tree') /\ DOMAIN tree' = {1} /\ tree'[1] = root
      /\ IsList(stack') /\ DOMAIN stack' = {1} /\ stack'[1] = c
  <2>1. /\ <<root>> \in Seq({root}) /\ DOMAIN <<root>> = {1} /\ <<root>>[1] = root
        /\ <<c>> \in Seq({c}) /\ DOMAIN <<c>> = {1} /\ <<c>>[1] = c
    OBVIOUS
  <2> QED
    BY <1>1, <2>1, ListOf
<1>6. node' = node
  BY <1>1 DEF node, grammar
<1>7. FuzzTypes'
  BY <1>1, <1>2, <1>4, <1>5, <1>6 DEF FuzzTypes, AreCalls, AreTreeNodes, FuzzInv
<1>8. Range(root.origins) = {}
  BY <1>2 DEF Range
<1>9. /\ RoundsInv(stack', tree') /\ Numbered(iteration', tree')
      /\ NumbersInv(iteration', stack') /\ CountingInv(stack', tree') /\ Marks(tree')
  BY <1>3, <1>4, <1>5, <1>8
     DEF RoundsInv, Numbered, NumbersInv, CountingInv, Marks
<1> QED
  BY <1>7, <1>9 DEF FuzzInv

LEMMA LeafKeepsFuzzInv ==
  ASSUME FuzzInv, FuzzTerminal \/ FuzzNonTerminal
  PROVE  FuzzInv'
<1> DEFINE x == TreeNode(node[top.node].symbol, top.parent)
<1>1. stack # <<>> /\ UNCHANGED <<use, iteration>> /\ tree' = Append(tree, x)
  BY DEF FuzzTerminal, FuzzNonTerminal, Running
<1>2. IsCall(node, top) /\ IsList(stack) /\ IsList(tree) /\ Len(tree) \in Nat
  BY <1>1, TopOfStack, ListFacts DEF FuzzInv, FuzzTypes, AreTreeNodes, AreCalls
<1>3. IsTreeNode(node, x) /\ x.origins = <<>>
  <2>1. IsList(<<>>) /\ Range(<<>>) = {}
    BY EmptyList
  <2>2. x = [symbol |-> node[top.node].symbol, parent |-> top.parent, origins |-> <<>>]
    BY DEF TreeNode
  <2> HIDE DEF x
  <2>3. x.symbol = node[top.node].symbol /\ x.parent = top.parent /\ x.origins = <<>>
    BY <2>2
  <2> QED
    BY <1>2, <2>1, <2>2, <2>3 DEF IsTreeNode, IsCall
<1> HIDE DEF x
<1>4. Len(tree') = Len(tree) + 1 /\ Len(tree') \in Nat
  BY <1>1, <1>2, ListAppended
<1>5. CASE FuzzTerminal
  <2>1. stack' = Tail(stack)
    BY <1>5 DEF FuzzTerminal, Return
  <2>2. Follows(stack', stack, 0) /\ 0 \in 0..2 /\ \A k \in DOMAIN stack' : ~ (k <= 0)
    BY <1>1, <1>2, <2>1, Popped
  <2> QED
    BY <1>1, <1>3, <2>2, QuietKeepsFuzzInv
<1>6. CASE FuzzNonTerminal
  <2> DEFINE c == Call(tree', grammar.rule[node[top.node].symbol[2]], Len(tree'),
                       top.max_nodes - 1)
  <2>1. stack' = <<c>> \o Tail(stack) /\ node[top.node].type = "non_terminal"
    BY <1>6 DEF FuzzNonTerminal, BecomesCall, Running
  <2>2. grammar.rule[node[top.node].symbol[2]] \in DOMAIN node
    BY <1>2, <2>1, GrammarFacts DEF IsCall
  <2>3. IsCall(node, c) /\ ~ Counts(c) /\ Until(c) = Len(tree') /\ c.rounds = 0
    BY <1>4, <2>2, CallFacts
  <2> HIDE DEF c
  <2>4. /\ Follows(stack', stack, 1) /\ 1 \in 0..2 /\ stack'[1] = c
        /\ \A k \in DOMAIN stack' : k <= 1 => k = 1
    BY <1>1, <1>2, <2>1, Replaced
  <2> QED
    BY <1>1, <1>3, <1>4, <2>3, <2>4, QuietKeepsFuzzInv
<1> QED
  BY <1>5, <1>6

LEMMA AlternativeKeepsFuzzInv ==
  ASSUME FuzzInv, FuzzAlternative
  PROVE  FuzzInv'
<1>1. /\ stack # <<>> /\ UNCHANGED <<use, iteration, tree>>
      /\ \E k \in Range(kids(top.node)) : \E budget :
            stack' = <<Call(tree, k, top.parent, budget)>> \o Tail(stack)
  BY DEF FuzzAlternative, Running, BecomesCall, InRange, Nearest
<1>2. IsCall(node, top) /\ IsList(stack) /\ Len(tree) \in Nat
  BY <1>1, TopOfStack, ListFacts DEF FuzzInv, FuzzTypes, AreTreeNodes, AreCalls
<1>3. PICK k \in Range(kids(top.node)) : \E budget :
            stack' = <<Call(tree, k, top.parent, budget)>> \o Tail(stack)
  BY <1>1
<1>4. PICK budget : stack' = <<Call(tree, k, top.parent, budget)>> \o Tail(stack)
  BY <1>3
<1> DEFINE c == Call(tree, k, top.parent, budget)
<1>5. k \in DOMAIN node /\ top.parent \in Nat
  BY <1>2, <1>3, GrammarFacts DEF IsCall
<1>6. IsCall(node, c) /\ ~ Counts(c) /\ Until(c) = Len(tree) /\ c.rounds = 0
  BY <1>2, <1>5, CallFacts
<1>7. stack' = <<c>> \o Tail(stack)
  BY <1>4
<1> HIDE DEF c
<1>8. /\ Follows(stack', stack, 1) /\ 1 \in 0..2 /\ stack'[1] = c
      /\ \A i \in DOMAIN stack' : i <= 1 => i = 1
  BY <1>1, <1>2, <1>7, Replaced
<1> QED
  BY <1>1, <1>2, <1>6, <1>8, QuietKeepsFuzzInv

LEMMA ConcatenationKeepsFuzzInv ==
  ASSUME FuzzInv, FuzzConcatenation
  PROVE  FuzzInv'
<1>1. /\ stack # <<>> /\ UNCHANGED <<use, iteration, tree>>
      /\ node[top.node].type = "concatenation"
      /\ \/ stack' = Tail(stack)
         \/ /\ top.rounds + 1 <= Len(kids(top.node))
            /\ \E budget :
                  stack' = <<Call(tree, kids(top.node)[top.rounds + 1], top.parent, budget),
                             NextRound>> \o Tail(stack)
  BY DEF FuzzConcatenation, Running, Return
<1>2. IsCall(node, top) /\ IsList(stack) /\ Len(tree) \in Nat
  BY <1>1, TopOfStack, ListFacts DEF FuzzInv, FuzzTypes, AreTreeNodes, AreCalls
<1>3. CASE stack' = Tail(stack)
  <2>1. Follows(stack', stack, 0) /\ 0 \in 0..2 /\ \A k \in DOMAIN stack' : ~ (k <= 0)
    BY <1>1, <1>2, <1>3, Popped
  <2> QED
    BY <1>1, <2>1, QuietKeepsFuzzInv
<1>4. ASSUME top.rounds + 1 <= Len(kids(top.node)), NEW budget,
             stack' = <<Call(tree, kids(top.node)[top.rounds + 1], top.parent, budget),
                        NextRound>> \o Tail(stack)
      PROVE  FuzzInv'
  <2>0. PICK c, d : /\ c = Call(tree, kids(top.node)[top.rounds + 1], top.parent, budget)
                    /\ d = NextRound
    OBVIOUS
  <2>1. kids(top.node)[top.rounds + 1] \in DOMAIN node /\ top.parent \in Nat
    <3>1. top.rounds + 1 \in 1..Len(kids(top.node)) /\ top.node \in DOMAIN node
          /\ top.parent \in Nat
      BY <1>2, <1>4, GrammarFacts DEF IsCall
    <3> QED
      BY <3>1, GrammarFacts
  <2>2. IsCall(node, c) /\ ~ Counts(c) /\ Until(c) = Len(tree) /\ c.rounds = 0
    BY <1>2, <2>0, <2>1, CallFacts
  <2>3. IsCall(node, d) /\ (Counts(d) <=> Counts(top)) /\ Until(d) = Len(tree) /\ d.rounds # 0
    BY <1>1, <2>0, NextRoundFacts
  <2>4. ~ Counts(top)
    BY <1>1, <1>2 DEF IsCall
  <2>5. stack' = <<c, d>> \o Tail(stack)
    BY <1>4, <2>0
  <2>6. Follows(stack', stack, 2)
    <3>1. stack # <<>> /\ IsList(stack)
      BY <1>1, <1>2
    <3> QED
      BY <2>5, <3>1, Pushed
  <2>7. 2 \in 0..2 /\ stack'[1] = c /\ stack'[2] = d
    BY <1>1, <1>2, <2>5, Pushed
  <2>8. \A k \in DOMAIN stack' : k <= 2 => k = 1 \/ k = 2
    BY <1>1, <1>2, <2>5, Pushed
  <2> QED
    BY <1>1, <1>2, <2>2, <2>3, <2>4, <2>6, <2>7, <2>8, QuietKeepsFuzzInv
<1> QED
  BY <1>1, <1>3, <1>4

LEMMA StartOf ==
  ASSUME NEW goal, NEW number, NEW c,
         c = [node |-> c.node, parent |-> c.parent, max_nodes |-> c.max_nodes,
              size |-> c.size, rounds |-> c.rounds, goal |-> c.goal,
              current |-> c.current, reserved |-> c.reserved],
         NEW new, new = [c EXCEPT !.goal = goal, !.current = number]
  PROVE  new =
         [node |-> c.node, parent |-> c.parent, max_nodes |-> c.max_nodes, size |-> c.size,
          rounds |-> c.rounds, goal |-> goal, current |-> number, reserved |-> c.reserved]
<1> DEFINE c1 == [c EXCEPT !.goal = goal]
           c2 == [c1 EXCEPT !.current = number]
<1>1. new = c2
  OBVIOUS
<1>2. c1 = [node |-> c.node, parent |-> c.parent, max_nodes |-> c.max_nodes, size |-> c.size,
            rounds |-> c.rounds, goal |-> goal, current |-> c.current,
            reserved |-> c.reserved]
  OBVIOUS
<1> HIDE DEF c1
<1>3. c2 = [node |-> c.node, parent |-> c.parent, max_nodes |-> c.max_nodes, size |-> c.size,
            rounds |-> c.rounds, goal |-> goal, current |-> number, reserved |-> c.reserved]
  BY <1>2
<1> QED
  BY <1>1, <1>3 DEF c1

\* The beginning of Repetition.fuzz(): the call gets a number that is new.
LEMMA StartKeepsFuzzInv ==
  ASSUME FuzzInv, StartRepetition
  PROVE  FuzzInv'
<1>1. /\ stack # <<>> /\ UNCHANGED <<use, tree>> /\ IsRepetition(top.node)
      /\ iteration' = [iteration EXCEPT ![top.node] = @ + 1]
      /\ \E goal : stack' = <<[top EXCEPT !.goal = goal, !.current = iteration'[top.node]]>>
                               \o Tail(stack)
  BY DEF StartRepetition, Repeating, BecomesCall
<1>2. /\ IsCall(node, top) /\ top = stack[1] /\ 1 \in DOMAIN stack
      /\ IsList(stack) /\ Len(tree) \in Nat
      /\ iteration \in [DOMAIN node -> Nat] /\ top.node \in DOMAIN node
      /\ \A j \in DOMAIN stack : IsCall(node, stack[j])
      /\ \A i \in DOMAIN tree : \A m \in Range(tree[i].origins) : IsMark(node, m)
  BY <1>1, TopOfStack, ListFacts
     DEF FuzzInv, FuzzTypes, AreTreeNodes, AreCalls, IsCall, IsTreeNode
<1>3. PICK number : number = iteration[top.node] + 1
  OBVIOUS
<1>4. /\ number \in Nat /\ iteration'[top.node] = number
      /\ iteration' \in [DOMAIN node -> Nat]
      /\ \A n \in DOMAIN node : iteration[n] <= iteration'[n]
  BY <1>1, <1>2, <1>3
<1>5. PICK goal : stack' = <<[top EXCEPT !.goal = goal, !.current = number]>> \o Tail(stack)
  BY <1>1, <1>4
<1>6. PICK c : c = [top EXCEPT !.goal = goal, !.current = number]
  OBVIOUS
<1>7. c = [node |-> top.node, parent |-> top.parent, max_nodes |-> top.max_nodes,
           size |-> top.size, rounds |-> top.rounds, goal |-> goal, current |-> number,
           reserved |-> top.reserved]
  <2>1. PICK r : r = top
    OBVIOUS
  <2>2. r = [node |-> r.node, parent |-> r.parent, max_nodes |-> r.max_nodes, size |-> r.size,
             rounds |-> r.rounds, goal |-> r.goal, current |-> r.current,
             reserved |-> r.reserved]
    BY <1>2, <2>1 DEF IsCall
  <2>3. c = [node |-> r.node, parent |-> r.parent, max_nodes |-> r.max_nodes, size |-> r.size,
             rounds |-> r.rounds, goal |-> goal, current |-> number, reserved |-> r.reserved]
    BY <1>6, <2>1, <2>2, StartOf
  <2> QED
    BY <2>1, <2>3
<1>8. /\ c.node = top.node /\ c.parent = top.parent /\ c.size = top.size
      /\ c.rounds = top.rounds /\ c.goal = goal /\ c.current = number
      /\ c.max_nodes = top.max_nodes /\ c.reserved = top.reserved
  BY <1>7
<1>9. IsCall(node, c) /\ Until(c) = Until(top)
  <2>1. node[top.node].type \notin {"terminal", "non_terminal", "alternative", "concatenation"}
    BY <1>1 DEF IsRepetition
  <2> QED
    BY <1>2, <1>4, <1>7, <1>8, <2>1 DEF IsCall, Until
<1>10. /\ Until(c) <= Len(tree)
       /\ c.rounds = 0 => Until(c) = Len(tree)
  BY <1>2, <1>8, <1>9 DEF FuzzInv, RoundsInv
<1>11. HasMarked(tree, c)
  <2> SUFFICES ASSUME NEW i \in DOMAIN tree, NEW m \in Range(tree[i].origins),
                      m[1] = c.node, m[2] = c.current
               PROVE  FALSE
    BY DEF HasMarked
  <2>1. m[2] <= iteration[m[1]]
    BY DEF FuzzInv, Numbered
  <2> QED
    BY <1>2, <1>3, <1>8, <2>1
<1>12. ASSUME NEW j \in (DOMAIN stack) \ {1}, Counts(stack[j]), stack[j].node = c.node
       PROVE  stack[j].current # c.current
  <2>1. stack[j].current <= iteration[stack[j].node] /\ IsCall(node, stack[j])
    BY <1>2, <1>12 DEF FuzzInv, NumbersInv
  <2>2. stack[j].current \in Nat /\ iteration[top.node] \in Nat
    BY <1>2, <2>1 DEF IsCall
  <2> QED
    BY <1>3, <1>8, <1>12, <2>1, <2>2
<1>13. stack' = <<c>> \o Tail(stack)
  BY <1>5, <1>6
<1>14. /\ Follows(stack', stack, 1) /\ 1 \in 0..2 /\ stack'[1] = c
       /\ \A k \in DOMAIN stack' : k <= 1 => k = 1
  BY <1>1, <1>2, <1>13, Replaced
<1>15. NewCall(stack', tree, iteration', 1, 1)
  <2>1. number <= iteration'[c.node]
    BY <1>4, <1>8
  <2> QED
    BY <1>8, <1>9, <1>10, <1>11, <1>12, <1>14, <2>1 DEF NewCall
<1>16. \A j \in (DOMAIN stack) \ {1} : Counts(stack[j]) => HasMarked(tree, stack[j])
  BY DEF FuzzInv, CountingInv
<1>17. /\ AreCalls(node, stack') /\ RoundsInv(stack', tree)
       /\ NumbersInv(iteration', stack') /\ CountingInv(stack', tree)
  <2>1. \A k \in DOMAIN stack' : k <= 1 => NewCall(stack', tree, iteration', k, 1)
    BY <1>14, <1>15
  <2>2. Len(tree) <= Len(tree)
    BY <1>2
  <2> QED
    BY <1>2, <1>4, <1>14, <1>16, <2>1, <2>2, CallsKept
<1>18. Numbered(iteration', tree)
  <2> SUFFICES ASSUME NEW i \in DOMAIN tree, NEW m \in Range(tree[i].origins)
               PROVE  m[2] <= iteration'[m[1]]
    BY DEF Numbered
  <2>1. m[2] <= iteration[m[1]]
    BY DEF FuzzInv, Numbered
  <2>2. IsMark(node, m)
    BY <1>2
  <2>3. /\ m[1] \in DOMAIN node /\ m[2] \in Int /\ iteration[m[1]] \in Int
        /\ iteration'[m[1]] \in Int /\ iteration[m[1]] <= iteration'[m[1]]
    BY <1>2, <1>4, <2>2 DEF IsMark
  <2> QED
    BY <2>1, <2>3
<1>19. node' = node
  BY <1>1 DEF node, grammar
<1> QED
  BY <1>1, <1>4, <1>17, <1>18, <1>19 DEF FuzzInv, FuzzTypes

\* The end of a round marks what the round has added.
LEMMA MarkingKeepsFuzzInv ==
  ASSUME FuzzInv, stack # <<>>, Counts(top), UNCHANGED <<use, iteration>>, tree' = Marked,
         NEW h \in 0..2, Follows(stack', stack, h),
         \A k \in DOMAIN stack' : k <= h =>
            /\ IsCall(node, stack'[k]) /\ Until(stack'[k]) = Len(tree)
            /\ stack'[k].rounds = 0 => k = 1
            /\ Counts(stack'[k]) =>
                 /\ k = h
                 /\ stack'[k].node = top.node /\ stack'[k].current = top.current
                 /\ stack'[k].parent = top.parent /\ stack'[k].rounds = top.rounds + 1
  PROVE  FuzzInv'
<1>1. /\ top = stack[1] /\ 1 \in DOMAIN stack /\ Len(tree) \in Nat
      /\ iteration \in [DOMAIN node -> Nat]
  BY TopOfStack, ListFacts DEF FuzzInv, FuzzTypes, AreTreeNodes
<1>2. /\ Len(tree') = Len(tree) /\ AreTreeNodes(node, tree')
      /\ Numbered(iteration, tree') /\ Marks(tree')
      /\ \A j \in (DOMAIN stack) \ {1} : Counts(stack[j]) => HasMarked(tree', stack[j])
      /\ \A c : /\ c.node = top.node /\ c.current = top.current /\ c.parent = top.parent
                /\ Until(c) = Len(tree) /\ c.rounds = top.rounds + 1
                => HasMarked(tree', c)
  BY MarkedTree
<1>3. ASSUME NEW k \in DOMAIN stack', k <= h
      PROVE  NewCall(stack', tree', iteration, k, h)
  <2>1. /\ IsCall(node, stack'[k]) /\ Until(stack'[k]) = Len(tree)
        /\ stack'[k].rounds = 0 => k = 1
    BY <1>3
  <2>2. Until(stack'[k]) <= Len(tree') /\ Until(stack'[k]) = Len(tree')
    BY <1>1, <1>2, <2>1
  <2>3. ASSUME Counts(stack'[k])
        PROVE  /\ k = h
               /\ stack'[k].current <= iteration[stack'[k].node]
               /\ HasMarked(tree', stack'[k])
               /\ \A j \in (DOMAIN stack) \ {1} :
                     Counts(stack[j]) /\ stack[j].node = stack'[k].node
                     => stack[j].current # stack'[k].current
    <3>1. /\ k = h /\ stack'[k].node = top.node /\ stack'[k].current = top.current
          /\ stack'[k].parent = top.parent /\ stack'[k].rounds = top.rounds + 1
      BY <1>3, <2>3
    <3>2. HasMarked(tree', stack'[k])
      BY <1>2, <2>1, <3>1
    <3>3. top.current <= iteration[top.node]
      BY <1>1 DEF FuzzInv, NumbersInv
    <3>4. \A j \in (DOMAIN stack) \ {1} :
             Counts(stack[j]) /\ stack[j].node = top.node => stack[j].current # top.current
      BY <1>1 DEF FuzzInv, NumbersInv
    <3> QED
      BY <3>1, <3>2, <3>3, <3>4
  <2> QED
    BY <2>1, <2>2, <2>3 DEF NewCall
<1>4. \A n \in DOMAIN node : iteration[n] <= iteration[n]
  BY <1>1
<1>5. Len(tree') \in Nat /\ Len(tree) <= Len(tree')
  BY <1>1, <1>2
<1>6. /\ AreCalls(node, stack') /\ RoundsInv(stack', tree') /\ NumbersInv(iteration, stack')
      /\ CountingInv(stack', tree')
  BY <1>1, <1>2, <1>3, <1>4, <1>5, CallsKept
<1>7. node' = node
  BY DEF node, grammar
<1> QED
  BY <1>1, <1>2, <1>6, <1>7 DEF FuzzInv, FuzzTypes

LEMMA EndKeepsFuzzInv ==
  ASSUME FuzzInv, EndRepetition
  PROVE  FuzzInv'
<1>1. /\ stack # <<>> /\ Counts(top) /\ UNCHANGED <<use, iteration>> /\ tree' = Marked
      /\ stack' = Tail(stack)
  BY DEF EndRepetition, Repeating, Counts, Return
<1>2. IsList(stack)
  BY DEF FuzzInv, FuzzTypes, AreCalls
<1>3. Follows(stack', stack, 0) /\ 0 \in 0..2 /\ \A k \in DOMAIN stack' : ~ (k <= 0)
  BY <1>1, <1>2, Popped
<1> QED
  BY <1>1, <1>3, MarkingKeepsFuzzInv

LEMMA RoundKeepsFuzzInv ==
  ASSUME FuzzInv, FuzzRepetition
  PROVE  FuzzInv'
<1>1. /\ stack # <<>> /\ UNCHANGED <<use, iteration>> /\ tree' = Marked
      /\ IsRepetition(top.node) /\ top.rounds < top.goal
      /\ \E budget, next :
            /\ next = NextRound \/ \E rest : next = [NextRound EXCEPT !.reserved = rest]
            /\ stack' = <<Call(tree', body(top.node), top.parent, budget), next>> \o Tail(stack)
  BY DEF FuzzRepetition, Repeating
<1>2. IsCall(node, top) /\ IsList(stack) /\ Len(tree) \in Nat
  BY <1>1, TopOfStack, ListFacts DEF FuzzInv, FuzzTypes, AreTreeNodes, AreCalls
<1>3. Counts(top)
  BY <1>1, <1>2 DEF IsCall, Counts
<1>4. PICK budget, d :
        /\ d = NextRound \/ \E rest : d = [NextRound EXCEPT !.reserved = rest]
        /\ stack' = <<Call(tree', body(top.node), top.parent, budget), d>> \o Tail(stack)
  BY <1>1
<1>5. PICK c : c = Call(tree', body(top.node), top.parent, budget)
  OBVIOUS
<1>6. /\ IsCall(node, d) /\ Until(d) = Len(tree)
      /\ d.node = top.node /\ d.current = top.current /\ d.parent = top.parent
      /\ d.rounds = top.rounds + 1 /\ d.rounds # 0
  BY <1>1, <1>4, NextRoundFacts
<1>7. Len(tree') = Len(tree) /\ Len(tree') \in Nat
  BY <1>1, <1>2, <1>3, MarkedTree
<1>8. IsCall(node, c) /\ ~ Counts(c) /\ Until(c) = Len(tree) /\ c.rounds = 0
  <2>1. body(top.node) \in DOMAIN node /\ top.parent \in Nat
    BY <1>1, <1>2, GrammarFacts DEF IsCall
  <2> QED
    BY <1>5, <1>7, <2>1, CallFacts
<1>9. stack' = <<c, d>> \o Tail(stack)
  BY <1>4, <1>5
<1>10. Follows(stack', stack, 2)
  BY <1>1, <1>2, <1>9, Pushed
<1>11. 2 \in 0..2 /\ stack'[1] = c /\ stack'[2] = d
  BY <1>1, <1>2, <1>9, Pushed
<1>12. \A k \in DOMAIN stack' : k <= 2 => k = 1 \/ k = 2
  BY <1>1, <1>2, <1>9, Pushed
<1>13. \A k \in DOMAIN stack' : k <= 2 =>
            /\ IsCall(node, stack'[k]) /\ Until(stack'[k]) = Len(tree)
            /\ stack'[k].rounds = 0 => k = 1
            /\ Counts(stack'[k]) =>
                 /\ k = 2
                 /\ stack'[k].node = top.node /\ stack'[k].current = top.current
                 /\ stack'[k].parent = top.parent /\ stack'[k].rounds = top.rounds + 1
  BY <1>6, <1>8, <1>11, <1>12
<1> QED
  BY <1>1, <1>3, <1>10, <1>11, <1>13, MarkingKeepsFuzzInv

LEMMA NextKeepsFuzzInv == FuzzInv /\ [Next]_vars => FuzzInv'
<1> SUFFICES ASSUME FuzzInv, [Next]_vars PROVE FuzzInv'
  OBVIOUS
<1>1. CASE UNCHANGED <<use, iteration, stack, tree>>
  BY <1>1 DEF FuzzInv, FuzzTypes, node, grammar
<1>2. CASE Prime
  BY <1>1, <1>2 DEF Prime
<1>3. CASE Fuzz
  BY <1>3, FuzzKeepsFuzzInv
<1>4. CASE FuzzTerminal \/ FuzzNonTerminal
  BY <1>4, LeafKeepsFuzzInv
<1>5. CASE FuzzAlternative
  BY <1>5, AlternativeKeepsFuzzInv
<1>6. CASE FuzzConcatenation
  BY <1>6, ConcatenationKeepsFuzzInv
<1>7. CASE StartRepetition
  BY <1>7, StartKeepsFuzzInv
<1>8. CASE EndRepetition
  BY <1>8, EndKeepsFuzzInv
<1>9. CASE FuzzRepetition
  BY <1>9, RoundKeepsFuzzInv
<1> QED
  BY <1>1, <1>2, <1>3, <1>4, <1>5, <1>6, <1>7, <1>8, <1>9 DEF Next, vars

\* The nodes that one call of a repetition has added, and no others, carry its mark, with
\* the rounds in order, for every grammar, every budget, and all that chance decides in
\* Repetition.fuzz(): RepetitionBoundsConstraint finds the repetitions of a tree again.
THEOREM RepetitionsAlwaysMarked == Spec => []RepetitionsAreMarked
<1>1. FuzzInv => RepetitionsAreMarked
  BY DEF FuzzInv, Marks, RepetitionsAreMarked, IsMarked
<1> QED
  BY <1>1, InitFuzzInv, NextKeepsFuzzInv, PTL DEF Spec
================================================================================
