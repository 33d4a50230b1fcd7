-------------------------- MODULE AssertionProofs --------------------------
(***************************************************************************)
(* What the assertions of a test come to, for every test.                  *)
(***************************************************************************)
EXTENDS AssertionProperties, FiniteSetTheorems, NaturalsInduction, WellFoundedInduction, TLAPS

----------------------------------------------------------------------------
(* Recursive functions.                                                    *)

\* A set of natural numbers that is not empty has a least element.
LEMMA LeastElement ==
    ASSUME NEW S \in SUBSET Nat, S # {}
    PROVE  \E x \in S : \A y \in S : ~(y < x)
  <1>1. \E x \in S : \A y \in S : <<y, x>> \notin OpToRel(<, Nat)
    BY NatLessThanWellFounded, WFMin
  <1>2. \A x, y \in Nat : y < x => <<y, x>> \in OpToRel(<, Nat)
    BY DEF OpToRel
  <1>3. QED BY <1>1, <1>2

\* What holds at zero and at the successors holds up to n.
LEMMA UpTo ==
    ASSUME NEW n \in Nat, NEW S, 0 \in S,
           \A k \in 1 .. n : k - 1 \in S => k \in S
    PROVE  \A k \in 0 .. n : k \in S
  <1> SUFFICES ASSUME NEW m \in 0 .. n, m \notin S PROVE FALSE OBVIOUS
  <1> DEFINE C == {k \in 0 .. n : k \notin S}
  <1>1. C \subseteq Nat /\ C # {} OBVIOUS
  <1>2. PICK x \in C : \A y \in C : ~(y < x)
    <2> HIDE DEF C
    <2>1. QED BY <1>1, LeastElement
  <1>3. x \in 1 .. n /\ x \notin S BY <1>2
  <1>4. x - 1 \notin C BY <1>2, <1>3
  <1>5. x - 1 \in S BY <1>3, <1>4
  <1>6. QED BY <1>3, <1>5

\* A function whose value at k is made from the one at k - 1 exists, when its
\* values have types.
Typed(n, T, step) == \A k \in 1 .. n : \A x \in T[k - 1] : step[k][x] \in T[k]
Iteration(f, n, T, init, step) ==
    /\ f = [k \in 0 .. n |-> f[k]] /\ f[0] = init
    /\ \A k \in 1 .. n : f[k] = step[k][f[k - 1]]
    /\ \A k \in 0 .. n : f[k] \in T[k]

LEMMA Iterated ==
    ASSUME NEW n \in Nat, NEW T, NEW init \in T[0], NEW step, Typed(n, T, step)
    PROVE  \E f : Iteration(f, n, T, init, step)
  <1>0. \A k \in 1 .. n : \A x \in T[k - 1] : step[k][x] \in T[k] BY DEF Typed
  <1> DEFINE Part(m, f) ==
                 /\ f = [k \in 0 .. m |-> IF k = 0 THEN init ELSE step[k][f[k - 1]]]
                 /\ \A k \in 0 .. m : f[k] \in T[k]
             S == {m \in 0 .. n : \E f : Part(m, f)}
  <1>1. 0 \in S
    <2> DEFINE f == [k \in 0 .. 0 |-> init]
    <2>1. \A k \in 0 .. 0 : k = 0 OBVIOUS
    <2>2. f = [k \in 0 .. 0 |-> IF k = 0 THEN init ELSE step[k][f[k - 1]]] BY <2>1
    <2>3. \A k \in 0 .. 0 : f[k] \in T[k] BY <2>1
    <2> HIDE DEF f
    <2>4. Part(0, f) BY <2>2, <2>3
    <2> HIDE DEF Part
    <2>5. QED BY <2>4
  <1>2. ASSUME NEW m \in 1 .. n, m - 1 \in S PROVE m \in S
    <2>1. PICK f : Part(m - 1, f) BY <1>2
    <2> DEFINE h == [k \in 0 .. m |-> IF k = m THEN step[m][f[m - 1]] ELSE f[k]]
    <2>2. \A k \in 0 .. m : k = m \/ k \in 0 .. m - 1 OBVIOUS
    <2>3. /\ h[m] = step[m][f[m - 1]] /\ m # 0
          /\ \A k \in 0 .. m - 1 : h[k] = f[k]
      OBVIOUS
    <2>4. h = [k \in 0 .. m |-> h[k]] OBVIOUS
    <2> HIDE DEF h
    <2>5. \A k \in 0 .. m : h[k] \in T[k]
      <3>1. f[m - 1] \in T[m - 1] BY <2>1
      <3>2. h[m] \in T[m] BY <1>0, <2>3, <3>1
      <3>3. QED BY <2>1, <2>2, <2>3, <3>2
    <2>6. ASSUME NEW k \in 0 .. m
          PROVE  h[k] = IF k = 0 THEN init ELSE step[k][h[k - 1]]
      <3>1. CASE k = m BY <2>3, <3>1
      <3>2. CASE k # m
        <4>1. k \in 0 .. m - 1 /\ (k # 0 => k - 1 \in 0 .. m - 1) BY <3>2
        <4>2. f[k] = IF k = 0 THEN init ELSE step[k][f[k - 1]] BY <2>1, <4>1
        <4>3. QED BY <2>3, <4>1, <4>2
      <3>3. QED BY <3>1, <3>2
    <2>7. h = [k \in 0 .. m |-> IF k = 0 THEN init ELSE step[k][h[k - 1]]]
      BY <2>4, <2>6
    <2>8. Part(m, h) BY <2>5, <2>7
    <2> HIDE DEF Part
    <2>9. QED BY <2>8
  <1>3. n \in S
    <2> HIDE DEF S
    <2>1. \A k \in 0 .. n : k \in S BY <1>1, <1>2, UpTo
    <2>2. QED BY <2>1
  <1>4. PICK f : Part(n, f) BY <1>3
  <1>5. f = [k \in 0 .. n |-> f[k]] /\ f[0] = init BY <1>4
  <1>6. \A k \in 1 .. n : k \in 0 .. n /\ k # 0 OBVIOUS
  <1>7. \A k \in 1 .. n : f[k] = step[k][f[k - 1]] BY <1>4, <1>6
  <1>8. QED BY <1>4, <1>5, <1>7 DEF Iteration

----------------------------------------------------------------------------
(* Criteria.                                                               *)

\* The criteria of a level are made of the ones below.
Around(S) == Leaf \cup [op : {"not"}, arg : S] \cup [op : Groups, args : Seq(S) \ {<<>>}]

LEMMA Levels ==
    /\ Criterion[0] = Leaf
    /\ \A n \in 1 .. MaxNesting : Criterion[n] = Around(Criterion[n - 1])
  <1> DEFINE Body(f) == [k \in 0 .. MaxNesting |-> IF k = 0 THEN Leaf ELSE Around(f[k - 1])]
             Part(m, f) == f = [k \in 0 .. m |-> IF k = 0 THEN Leaf ELSE Around(f[k - 1])]
             S == {m \in 0 .. MaxNesting : \E f : Part(m, f)}
  <1> HIDE DEF Around
  <1>1. 0 \in S
    <2> DEFINE f == [k \in 0 .. 0 |-> Leaf]
    <2>1. \A k \in 0 .. 0 : k = 0 OBVIOUS
    <2>2. Part(0, f) BY <2>1
    <2> HIDE DEF Part, f
    <2>3. QED BY <2>2, NestingAssumption
  <1>2. ASSUME NEW m \in 1 .. MaxNesting, m - 1 \in S PROVE m \in S
    <2>1. PICK f : Part(m - 1, f) BY <1>2
    <2> DEFINE h == [k \in 0 .. m |-> IF k = m THEN Around(f[m - 1]) ELSE f[k]]
    <2>2. /\ h[m] = Around(f[m - 1]) /\ m # 0
          /\ \A k \in 0 .. m - 1 : h[k] = f[k]
      BY NestingAssumption
    <2>3. h = [k \in 0 .. m |-> h[k]] OBVIOUS
    <2> HIDE DEF h
    <2>4. ASSUME NEW k \in 0 .. m
          PROVE  h[k] = IF k = 0 THEN Leaf ELSE Around(h[k - 1])
      <3>1. CASE k = m BY <2>2, <3>1, NestingAssumption
      <3>2. CASE k # m
        <4>1. k \in 0 .. m - 1 /\ (k # 0 => k - 1 \in 0 .. m - 1) BY <3>2, NestingAssumption
        <4>2. f[k] = IF k = 0 THEN Leaf ELSE Around(f[k - 1]) BY <2>1, <4>1
        <4>3. QED BY <2>2, <4>1, <4>2
      <3>3. QED BY <3>1, <3>2
    <2>5. Part(m, h) BY <2>3, <2>4
    <2> HIDE DEF Part
    <2>6. QED BY <2>5
  <1>3. MaxNesting \in S
    <2> HIDE DEF S
    <2>1. \A k \in 0 .. MaxNesting : k \in S BY <1>1, <1>2, UpTo, NestingAssumption
    <2>2. QED BY <2>1, NestingAssumption
  <1>4. PICK f : f = Body(f) BY <1>3
  <1>5. Criterion = CHOOSE g : g = Body(g) BY DEF Criterion, Around
  <1>6. Criterion = Body(Criterion) BY <1>4, <1>5
  <1>7. QED BY <1>6, NestingAssumption

LEMMA AroundMonotone ==
    ASSUME NEW S, NEW T, S \subseteq T PROVE Around(S) \subseteq Around(T)
  <1>1. Seq(S) \ {<<>>} \subseteq Seq(T) \ {<<>>} OBVIOUS
  <1>2. [op : {"not"}, arg : S] \subseteq [op : {"not"}, arg : T] OBVIOUS
  <1>3. ASSUME NEW U, NEW V, U \subseteq V
        PROVE  [op : Groups, args : U] \subseteq [op : Groups, args : V]
    BY <1>3
  <1>4. QED BY <1>1, <1>2, <1>3 DEF Around

\* A criterion of a level is one of the levels above.
LEMMA Nested == \A n \in 0 .. MaxNesting : Criterion[n] \subseteq Criterion[MaxNesting]
  <1> DEFINE C(n) == Criterion[n]
             P == {n \in 0 .. MaxNesting : n # 0 => C(n - 1) \subseteq C(n)}
             Q == {m \in 0 .. MaxNesting : \A n \in 0 .. m : C(n) \subseteq C(m)}
  <1>1. ASSUME NEW n \in 1 .. MaxNesting, n - 1 \in P PROVE n \in P
    <2>1. CASE n = 1
      <3>1. C(1) = Around(C(0)) /\ C(0) = Leaf BY <2>1, Levels
      <3>2. QED BY <2>1, <3>1 DEF Around
    <2>2. CASE n # 1
      <3>1. n - 1 \in 1 .. MaxNesting /\ (n - 1) - 1 = n - 2 BY <2>2, NestingAssumption
      <3>2. C(n - 2) \subseteq C(n - 1) BY <1>1, <3>1
      <3>3. C(n - 1) = Around(C(n - 2)) /\ C(n) = Around(C(n - 1)) BY <3>1, Levels
      <3> HIDE DEF C
      <3>4. C(n - 1) \subseteq C(n) BY <3>2, <3>3, AroundMonotone
      <3>5. QED BY <3>4
    <2>3. QED BY <2>1, <2>2
  <1>2. \A n \in 1 .. MaxNesting : C(n - 1) \subseteq C(n)
    <2>1. 0 \in P BY NestingAssumption
    <2>2. \A n \in 1 .. MaxNesting : n - 1 \in P => n \in P BY <1>1
    <2> HIDE DEF P
    <2>3. \A n \in 0 .. MaxNesting : n \in P BY <2>1, <2>2, UpTo, NestingAssumption
    <2> USE DEF P
    <2>4. QED BY <2>3, NestingAssumption
  <1> HIDE DEF C
  <1>3. 0 \in Q BY NestingAssumption
  <1>4. ASSUME NEW m \in 1 .. MaxNesting, m - 1 \in Q PROVE m \in Q
    <2>1. \A n \in 0 .. m - 1 : C(n) \subseteq C(m) BY <1>2, <1>4
    <2>2. \A n \in 0 .. m : n = m \/ n \in 0 .. m - 1 BY NestingAssumption
    <2>3. QED BY <2>1, <2>2
  <1>5. MaxNesting \in Q
    <2> HIDE DEF Q
    <2>1. \A m \in 0 .. MaxNesting : m \in Q BY <1>3, <1>4, UpTo, NestingAssumption
    <2>2. QED BY <2>1, NestingAssumption
  <1>6. QED BY <1>5 DEF C

\* The kinds of leaves, told apart by their fields.
LEMMA Kinds ==
    ASSUME NEW c \in Leaf
    PROVE  /\ IsLeaf(c) /\ c.op \notin Groups /\ c.op # "not"
           /\ \/ /\ IsValue(c) /\ c.val \in Int
                 /\ ~IsArray(c) /\ ~IsThrow(c) /\ "vals" \notin DOMAIN c
              \/ /\ ~IsValue(c) /\ ~IsArray(c) /\ ~IsThrow(c)
                 /\ c \in Scalar /\ "vals" \in DOMAIN c
              \/ /\ ~IsValue(c) /\ IsArray(c) /\ ~IsThrow(c)
                 /\ c \in Array /\ "vals" \notin DOMAIN c
              \/ /\ ~IsValue(c) /\ ~IsArray(c) /\ IsThrow(c)
                 /\ c.op \in Exceptions /\ c.thrown \in Thrown /\ "vals" \notin DOMAIN c
  <1>1. CASE c \in [op : {"value"}, val : Int]
    BY <1>1 DEF IsLeaf, IsValue, IsArray, IsThrow, Groups
  <1>2. CASE c \in Scalar
    BY <1>2 DEF Scalar, Compared, Binary, Close, IsLeaf, IsValue, IsArray, IsThrow, Groups
  <1>3. CASE c \in Array
    BY <1>3 DEF Array, Listed, Binary, IsLeaf, IsValue, IsArray, IsThrow, Groups
  <1>4. CASE c \in [op : Exceptions, thrown : Thrown]
    BY <1>4 DEF Exceptions, IsLeaf, IsValue, IsArray, IsThrow, Groups
  <1>5. QED BY <1>1, <1>2, <1>3, <1>4 DEF Leaf

\* The kinds of criteria of a level.
LEMMA Shapes ==
    ASSUME NEW n \in 0 .. MaxNesting, NEW c \in Criterion[n]
    PROVE  \/ c \in Leaf
           \/ /\ n \in 1 .. MaxNesting /\ n - 1 \in 0 .. MaxNesting
              /\ c.op = "not" /\ c.arg \in Criterion[n - 1]
              /\ ~IsValue(c) /\ ~IsArray(c) /\ ~IsThrow(c) /\ c.op \notin Groups
              /\ "vals" \notin DOMAIN c
           \/ /\ n \in 1 .. MaxNesting /\ n - 1 \in 0 .. MaxNesting
              /\ c.op \in Groups /\ c.args \in Seq(Criterion[n - 1]) /\ c.args # <<>>
              /\ ~IsValue(c) /\ ~IsArray(c) /\ ~IsThrow(c) /\ c.op # "not"
              /\ "vals" \notin DOMAIN c
  <1>1. CASE n = 0 BY <1>1, Levels
  <1>2. CASE n # 0
    <2>1. n \in 1 .. MaxNesting /\ n - 1 \in 0 .. MaxNesting BY <1>2, NestingAssumption
    <2>2. c \in Around(Criterion[n - 1]) BY <2>1, Levels
    <2>3. CASE c \in [op : {"not"}, arg : Criterion[n - 1]]
      BY <2>1, <2>3 DEF IsValue, IsArray, IsThrow, Groups
    <2>4. CASE c \in [op : Groups, args : Seq(Criterion[n - 1]) \ {<<>>}]
      BY <2>1, <2>4 DEF IsValue, IsArray, IsThrow, Groups
    <2>5. QED BY <2>2, <2>3, <2>4 DEF Around
  <1>3. QED BY <1>1, <1>2

----------------------------------------------------------------------------
(* The expansion of a criterion: what it leaves as it was.                 *)

\* A state that differs in what a criterion writes: cri_cond_un, cri_prevnode
\* and the tree.
Same(s, t) == /\ t \in State
              /\ t.expect = s.expect /\ t.cond = s.cond /\ t.def = s.def
              /\ t.node = s.node

LEMMA SameChains ==
    ASSUME NEW s, NEW t, NEW u, Same(s, t), Same(t, u) PROVE Same(s, u)
  BY DEF Same

LEMMA NodeAdded ==
    ASSUME NEW s \in State, NEW c \in Criterion[MaxNesting],
           NEW pass \in Int, NEW params \in BOOLEAN
    PROVE  LET t == cri_assert_node_add(s, c, pass, params)
           IN  Same(s, t) /\ t.un = s.un
  <1> DEFINE node == [of |-> c, up |-> s.node, pass |-> pass % 2 = 1, params |-> params]
             t == cri_assert_node_add(s, c, pass, params)
  <1>1. node \in Node BY DEF Node, State
  <1>2. s.nodes \in Seq(Node) /\ Len(s.nodes) + 1 \in Nat BY DEF State
  <1>3. Append(s.nodes, node) \in Seq(Node) BY <1>1, <1>2
  <1>4. t = [s EXCEPT !.nodes = Append(s.nodes, node), !.prev = Len(s.nodes) + 1]
    BY DEF cri_assert_node_add
  <1> HIDE DEF t, node
  <1>5. t \in State BY <1>2, <1>3, <1>4 DEF State
  <1>6. QED BY <1>4, <1>5 DEF Same, State, t

\* A node with parameters.
LEMMA ParamsAdded ==
    ASSUME NEW s \in State, NEW c \in Criterion[MaxNesting], NEW pass \in Int
    PROVE  Same(s, cri_assert_node_add(s, c, pass, TRUE))
  <1> DEFINE params == TRUE
  <1>1. params \in BOOLEAN OBVIOUS
  <1> HIDE DEF params
  <1>2. Same(s, cri_assert_node_add(s, c, pass, params)) BY <1>1, NodeAdded
  <1>3. QED BY <1>2 DEF params

\* The node of a group, before its members.
LEMMA BareAdded ==
    ASSUME NEW s \in State, NEW c \in Criterion[MaxNesting]
    PROVE  Same(s, cri_assert_node_add(s, c, 0, FALSE))
  <1> DEFINE params == FALSE
             pass == 0
  <1>1. params \in BOOLEAN /\ pass \in Int OBVIOUS
  <1> HIDE DEF params, pass
  <1>2. Same(s, cri_assert_node_add(s, c, pass, params)) BY <1>1, NodeAdded
  <1>3. QED BY <1>2 DEF params, pass

LEMMA NodesNegated ==
    ASSUME NEW nodes \in Seq(Node), NEW n
    PROVE  cri_assert_node_negate(nodes, n) \in Seq(Node)
  <1> DEFINE new == cri_assert_node_negate(nodes, n)
  <1>1. DOMAIN nodes = 1 .. Len(nodes) /\ Len(nodes) \in Nat OBVIOUS
  <1>2. ASSUME NEW k \in DOMAIN nodes PROVE new[k] \in Node
    <2>1. nodes[k] \in Node BY <1>1
    <2>2. [nodes[k] EXCEPT !.pass = ~@] \in Node BY <2>1 DEF Node
    <2>3. QED BY <2>1, <2>2 DEF cri_assert_node_negate
  <1>3. new = [k \in 1 .. Len(nodes) |-> new[k]] BY <1>1 DEF cri_assert_node_negate
  <1> HIDE DEF new
  <1>4. new \in [1 .. Len(nodes) -> Node] BY <1>1, <1>2, <1>3
  <1>5. new \in Seq(Node) BY <1>1, <1>4
  <1>6. QED BY <1>5 DEF new

LEMMA NodesClosed ==
    ASSUME NEW nodes \in Seq(Node), NEW n, NEW pass \in BOOLEAN
    PROVE  closed(nodes, n, pass) \in Seq(Node)
  <1> DEFINE new == closed(nodes, n, pass)
  <1>1. DOMAIN nodes = 1 .. Len(nodes) /\ Len(nodes) \in Nat OBVIOUS
  <1>2. ASSUME NEW k \in DOMAIN nodes PROVE new[k] \in Node
    <2>1. nodes[k] \in Node BY <1>1
    <2>2. [nodes[k] EXCEPT !.pass = pass] \in Node BY <2>1 DEF Node
    <2>3. QED BY <2>1, <2>2 DEF closed
  <1>3. new = [k \in 1 .. Len(nodes) |-> new[k]] BY <1>1 DEF closed
  <1> HIDE DEF new
  <1>4. new \in [1 .. Len(nodes) -> Node] BY <1>1, <1>2, <1>3
  <1>5. new \in Seq(Node) BY <1>1, <1>4
  <1>6. QED BY <1>5 DEF new

LEMMA Negated ==
    ASSUME NEW s \in State PROVE Same(s, negated(s)) /\ negated(s).un = s.un
  <1>1. CASE s.un # s.expect
    <2> DEFINE new == cri_assert_node_negate(s.nodes, s.prev)
    <2>1. new \in Seq(Node) BY NodesNegated DEF State
    <2>2. negated(s) = [s EXCEPT !.nodes = new] BY <1>1 DEF negated
    <2> HIDE DEF new
    <2>3. QED BY <2>1, <2>2 DEF Same, State
  <1>2. CASE s.un = s.expect BY <1>2 DEF negated, Same
  <1>3. QED BY <1>1, <1>2

\* The variables a criterion or a group sets for what is inside.
LEMMA Written ==
    ASSUME NEW s \in State
    PROVE  /\ \A v \in Int : /\ [s EXCEPT !.un = v] \in State
                             /\ [s EXCEPT !.cond = v] \in State
           /\ \A v \in {0, 1} : /\ [s EXCEPT !.expect = v] \in State
                                /\ [s EXCEPT !.def = v] \in State
           /\ \A v \in Nat : [s EXCEPT !.node = v] \in State
  BY DEF State

\* The value of a leaf.
LEMMA LeafOne ==
    ASSUME NEW s \in State, NEW c \in Criterion[MaxNesting],
           NEW val \in Int, NEW params \in BOOLEAN
    PROVE  LET t == leaf(c, val, params, s) IN Same(s, t) /\ t.un = val
  <1> DEFINE t == [s EXCEPT !.un = val]
  <1>1. t \in State /\ Same(s, t) /\ t.un = val BY Written DEF Same, State
  <1> HIDE DEF t
  <1>2. CASE val # s.expect
    <2>1. leaf(c, val, params, s) = cri_assert_node_add(t, c, val, params)
      BY <1>2 DEF leaf, t
    <2>2. QED BY <1>1, <2>1, NodeAdded, SameChains
  <1>3. CASE val = s.expect
    <2>1. leaf(c, val, params, s) = t BY <1>3 DEF leaf, t
    <2>2. QED BY <1>1, <2>1
  <1>4. QED BY <1>2, <1>3

\* The value of an array of pairs: do they all compare.
LEMMA ArrayOne ==
    ASSUME NEW s \in State, NEW c \in Criterion[MaxNesting], c \in Array
    PROVE  LET t == CRI_ASSERT_SPECIFIER_OPTAG_ARRAY(c, s)
           IN  /\ Same(s, t)
               /\ t.un = Int01(\A k \in DOMAIN c.elems :
                                   tagged(c, c.elems[k][1], c.elems[k][2]))
  <1> DEFINE n == Len(c.elems)
             holds(k) == tagged(c, c.elems[k][1], c.elems[k][2])
             pass == Int01(\A k \in DOMAIN c.elems : holds(k))
             added == cri_assert_node_add(s, c, pass, TRUE)
             open == [added EXCEPT !.node = Len(s.nodes) + 1]
             A == {t \in State : t.expect = s.expect /\ t.cond = s.cond /\ t.def = s.def}
             next(k, t) == cri_assert_node_add(t, c, Int01(holds(k)), TRUE)
             Body(f) == [k \in 0 .. n |-> IF k = 0 THEN open ELSE next(k, f[k - 1])]
             after == CHOOSE f : f = Body(f)
             T == [k \in 0 .. n |-> A]
             step == [k \in 1 .. n |-> [t \in A |-> next(k, t)]]
  <1>1. n \in Nat BY DEF Array, Listed
  <1>2. pass \in {0, 1} BY DEF Int01
  <1> HIDE DEF pass
  <1>3. open \in A
    <2>1. Same(s, added)
      <3>1. pass \in Int BY <1>2
      <3>2. QED BY <3>1, ParamsAdded
    <2>2. Len(s.nodes) + 1 \in Nat BY DEF State
    <2> HIDE DEF added
    <2>3. QED BY <2>1, <2>2, Written DEF Same, State
  <1>4. ASSUME NEW k, NEW t \in A PROVE next(k, t) \in A
    <2> DEFINE value == Int01(holds(k))
    <2>1. value \in Int BY DEF Int01
    <2> HIDE DEF value
    <2>2. Same(t, cri_assert_node_add(t, c, value, TRUE)) BY <2>1, ParamsAdded
    <2>3. QED BY <2>2 DEF Same, value
  <1> HIDE DEF open, next, A
  <1>5. PICK f : Iteration(f, n, T, open, step)
    <2>1. open \in T[0] BY <1>1, <1>3
    <2>2. Typed(n, T, step) BY <1>1, <1>4 DEF Typed
    <2> HIDE DEF T, step, n
    <2>3. QED BY <1>1, <2>1, <2>2, Iterated
  <1>6. f = Body(f)
    <2>1. \A k \in 1 .. n : f[k] = next(k, f[k - 1])
      <3>1. SUFFICES ASSUME NEW k \in 1 .. n PROVE f[k] = next(k, f[k - 1]) OBVIOUS
      <3>2. k - 1 \in 0 .. n BY <1>1
      <3>3. f[k - 1] \in A BY <1>5, <3>2 DEF Iteration
      <3>4. step[k][f[k - 1]] = next(k, f[k - 1]) BY <3>3
      <3>5. QED BY <1>5, <3>4 DEF Iteration
    <2>2. \A k \in 0 .. n : k # 0 => k \in 1 .. n BY <1>1
    <2> HIDE DEF step, n, T
    <2>3. \A k \in 0 .. n : f[k] = IF k = 0 THEN open ELSE next(k, f[k - 1])
      BY <1>5, <2>1, <2>2 DEF Iteration
    <2>4. QED BY <1>5, <2>3 DEF Iteration
  <1>7. after = Body(after) BY <1>6
  <1> HIDE DEF after
  <1>8. after[n] \in A
    <2> DEFINE P == {k \in 0 .. n : after[k] \in A}
    <2>1. 0 \in P BY <1>1, <1>3, <1>7
    <2>2. ASSUME NEW k \in 1 .. n, k - 1 \in P PROVE k \in P
      <3>1. after[k] = next(k, after[k - 1]) BY <1>1, <1>7
      <3>2. QED BY <1>1, <1>4, <2>2, <3>1
    <2> HIDE DEF P
    <2>3. \A k \in 0 .. n : k \in P BY <1>1, <2>1, <2>2, UpTo
    <2> USE DEF P
    <2>4. QED BY <1>1, <2>3
  <1>9. CRI_ASSERT_SPECIFIER_OPTAG_ARRAY(c, s) =
            [after[n] EXCEPT !.un = pass, !.node = s.node]
    BY DEF CRI_ASSERT_SPECIFIER_OPTAG_ARRAY, after, open, next, pass
  <1>10. \A t \in A : LET u == [t EXCEPT !.un = pass, !.node = s.node]
                      IN  Same(s, u) /\ u.un = pass
    <2>1. s.node \in Nat /\ pass \in Int BY <1>2 DEF State
    <2>2. SUFFICES ASSUME NEW t \in A
                   PROVE  LET u == [t EXCEPT !.un = pass, !.node = s.node]
                          IN  Same(s, u) /\ u.un = pass
      OBVIOUS
    <2> DEFINE u == [t EXCEPT !.un = pass, !.node = s.node]
    <2>3. t \in State /\ t.expect = s.expect /\ t.cond = s.cond /\ t.def = s.def
      BY DEF A
    <2>4. /\ u \in State /\ u.un = pass /\ u.node = s.node
          /\ u.expect = t.expect /\ u.cond = t.cond /\ u.def = t.def
      BY <2>1, <2>3 DEF State
    <2> HIDE DEF u
    <2>5. QED BY <2>3, <2>4 DEF Same, u
  <1>11. LET t == CRI_ASSERT_SPECIFIER_OPTAG_ARRAY(c, s)
         IN  Same(s, t) /\ t.un = pass
    BY <1>8, <1>9, <1>10
  <1>12. QED BY <1>11 DEF pass

LEMMA ThrowOne ==
    ASSUME NEW s \in State, NEW c \in Criterion[MaxNesting]
    PROVE  LET t == CRI_ASSERT_SPECIFIER_throw(c, s)
           IN  Same(s, t) /\ t.un = Int01(throws(c.op, c.thrown))
  <1> DEFINE un == Int01(throws(c.op, c.thrown))
             params == throws(c.op, c.thrown) <=> c.op = "anythrow"
             t == [s EXCEPT !.un = un]
  <1>1. un \in {0, 1} BY DEF Int01
  <1> HIDE DEF un
  <1>2. t \in State /\ Same(s, t) /\ t.un = un BY <1>1, Written DEF Same, State
  <1>3. params \in BOOLEAN OBVIOUS
  <1>4. CRI_ASSERT_SPECIFIER_throw(c, s) = cri_assert_node_add(t, c, 0, params)
    BY DEF CRI_ASSERT_SPECIFIER_throw, un
  <1> HIDE DEF t, params
  <1>5. QED BY <1>2, <1>3, <1>4, NodeAdded, SameChains DEF un

\* What inner makes of a criterion inside leaves the variables as they were.
Expands(inner, C) == \A e \in C, t \in State : Same(t, inner[e][t])

LEMMA NotOne ==
    ASSUME NEW s \in State, NEW c, NEW C, NEW inner, c.arg \in C, Expands(inner, C)
    PROVE  LET t == CRI_ASSERT_SPECIFIER_not(inner, c, s)
               flip == [s EXCEPT !.expect = Not(s.expect)]
           IN  /\ Same(s, t) /\ flip \in State
               /\ t.un = Not(inner[c.arg][flip].un)
  <1> DEFINE flip == [s EXCEPT !.expect = Not(s.expect)]
             t == inner[c.arg][flip]
             u == [t EXCEPT !.expect = Not(t.expect), !.un = Not(t.un)]
  <1>1. s.expect \in {0, 1} BY DEF State
  <1>2. \A m : Not(m) \in {0, 1} BY DEF Not, Int01
  <1>3. Not(Not(s.expect)) = s.expect BY <1>1 DEF Not, Int01
  <1>4. flip \in State BY <1>2, Written
  <1>5. Same(flip, t) BY <1>4 DEF Expands
  <1>6. /\ flip.expect = Not(s.expect) /\ flip.cond = s.cond /\ flip.def = s.def
        /\ flip.node = s.node
    BY DEF State
  <1> HIDE DEF flip, t
  <1>7. u \in State /\ Same(s, u) /\ u.un = Not(t.un)
    <2>1. Not(t.expect) \in {0, 1} /\ Not(t.un) \in Int BY <1>2
    <2>2. t \in State BY <1>5 DEF Same
    <2>3. /\ u \in State /\ u.un = Not(t.un) /\ u.expect = Not(t.expect)
          /\ u.cond = t.cond /\ u.def = t.def /\ u.node = t.node
      <3> DEFINE w == Not(t.expect)
                 v == Not(t.un)
                 x == [t EXCEPT !.expect = w, !.un = v]
      <3>1. w \in {0, 1} /\ v \in Int BY <2>1
      <3>2. u = x OBVIOUS
      <3> HIDE DEF w, v, u
      <3>3. /\ x \in State /\ x.un = v /\ x.expect = w
            /\ x.cond = t.cond /\ x.def = t.def /\ x.node = t.node
        BY <2>2, <3>1 DEF State
      <3>4. QED BY <3>2, <3>3 DEF w, v
    <2> HIDE DEF u
    <2>4. QED BY <1>3, <1>5, <1>6, <2>3 DEF Same
  <1>8. CRI_ASSERT_SPECIFIER_not(inner, c, s) = negated(u)
    BY DEF CRI_ASSERT_SPECIFIER_not, flip, t
  <1> HIDE DEF u
  <1>9. QED BY <1>4, <1>7, <1>8, Negated, SameChains DEF flip, t

\* The steps of a group, named.
Opened(c, s) ==
    LET def == Int01(c.op # "any")
    IN  [cri_assert_node_add(s, c, 0, FALSE) EXCEPT
            !.node = Len(s.nodes) + 1, !.def = def, !.cond = def]
Member(inner, c, t, e) == CASE c.op = "all"  -> ALL_INDIRECT(inner, t, e)
                            [] c.op = "none" -> NONE_INDIRECT(inner, t, e)
                            [] c.op = "any"  -> ANY_INDIRECT(inner, t, e)
\* The state a member of all, or of none, is expanded in.
InAll(t, e) == [t EXCEPT !.un = first(e, t)]
InNone(t, e) == InAll([t EXCEPT !.expect = Not(t.expect)], e)

LEMMA Bits ==
    /\ \A m : Not(m) \in {0, 1}
    /\ \A m, l : And(m, l) \in {0, 1}
    /\ \A m \in {0, 1} : Not(Not(m)) = m
  BY DEF Not, And, Int01

LEMMA FirstOne == ASSUME NEW t \in State, NEW e PROVE first(e, t) \in {0, 1}
  BY Bits DEF first, State

LEMMA InsideAll ==
    ASSUME NEW t \in State, NEW e
    PROVE  LET u == InAll(t, e)
           IN  Same(t, u) /\ u.un = first(e, t)
  <1> DEFINE v == first(e, t)
             u == [t EXCEPT !.un = v]
  <1>1. v \in Int BY FirstOne
  <1> HIDE DEF v
  <1>2. Same(t, u) /\ u.un = v BY <1>1 DEF State, Same
  <1>3. QED BY <1>2 DEF v, InAll

LEMMA InsideNone ==
    ASSUME NEW t \in State, NEW e
    PROVE  LET u == InNone(t, e)
           IN  /\ u \in State /\ u.un = first(e, [t EXCEPT !.expect = Not(t.expect)])
               /\ u.expect = Not(t.expect) /\ u.cond = t.cond
               /\ u.def = t.def /\ u.node = t.node
  <1> DEFINE w == Not(t.expect)
             flip == [t EXCEPT !.expect = w]
  <1>1. w \in {0, 1} BY Bits
  <1> HIDE DEF w
  <1>2. /\ flip \in State /\ flip.expect = w /\ flip.cond = t.cond
        /\ flip.def = t.def /\ flip.node = t.node
    BY <1>1 DEF State
  <1> HIDE DEF flip
  <1>3. Same(flip, InAll(flip, e)) /\ InAll(flip, e).un = first(e, flip)
    BY <1>2, InsideAll
  <1>4. InNone(t, e) = InAll(flip, e) BY DEF InNone, flip, w
  <1>5. flip = [t EXCEPT !.expect = Not(t.expect)] BY DEF flip, w
  <1> QED BY <1>2, <1>3, <1>4, <1>5 DEF Same, w

LEMMA MemberAll ==
    ASSUME NEW t \in State, NEW e, NEW C, NEW inner, e \in C, Expands(inner, C)
    PROVE  LET u == ALL_INDIRECT(inner, t, e)
           IN  /\ u \in State /\ u.expect = t.expect /\ u.def = t.def
               /\ u.cond = And(t.cond, inner[e][InAll(t, e)].un)
  <1> DEFINE x == inner[e][InAll(t, e)]
             v == And(t.cond, x.un)
             u == [x EXCEPT !.cond = v]
  <1>1. Same(t, InAll(t, e)) BY InsideAll
  <1>2. InAll(t, e) \in State BY <1>1 DEF Same
  <1>3. Same(InAll(t, e), x) BY <1>2 DEF Expands
  <1>4. ALL_INDIRECT(inner, t, e) = u BY DEF ALL_INDIRECT, InAll
  <1>5. v \in Int BY Bits
  <1> HIDE DEF x, v
  <1>6. x \in State /\ x.expect = t.expect /\ x.def = t.def BY <1>1, <1>3 DEF Same
  <1>7. u \in State /\ u.expect = t.expect /\ u.def = t.def /\ u.cond = v
    BY <1>5, <1>6 DEF State
  <1> HIDE DEF u
  <1>8. QED BY <1>4, <1>7 DEF v, x

LEMMA MemberNone ==
    ASSUME NEW t \in State, NEW e, NEW C, NEW inner, e \in C, Expands(inner, C)
    PROVE  LET u == NONE_INDIRECT(inner, t, e)
           IN  /\ u \in State /\ u.expect = t.expect /\ u.def = t.def
               /\ u.cond = And(t.cond, Not(inner[e][InNone(t, e)].un))
  <1> DEFINE x == inner[e][InNone(t, e)]
             y == negated(x)
             v == And(t.cond, Not(x.un))
             w == Not(y.expect)
             u == [y EXCEPT !.expect = w, !.cond = v]
  <1>1. /\ InNone(t, e) \in State /\ InNone(t, e).expect = Not(t.expect)
        /\ InNone(t, e).def = t.def
    BY InsideNone
  <1>2. Same(InNone(t, e), x) BY <1>1 DEF Expands
  <1>3. x \in State BY <1>2 DEF Same
  <1>4. Same(x, y) BY <1>3, Negated
  <1>5. /\ y \in State /\ y.expect = Not(t.expect) /\ y.def = t.def
    BY <1>1, <1>2, <1>4 DEF Same
  <1>6. w = t.expect
    <2>1. t.expect \in {0, 1} BY DEF State
    <2>2. QED BY <1>5, <2>1, Bits
  <1>7. NONE_INDIRECT(inner, t, e) = u
    BY DEF NONE_INDIRECT, InNone, InAll
  <1>8. v \in Int /\ w \in {0, 1} BY Bits
  <1> HIDE DEF x, y, v, w
  <1>9. u \in State /\ u.expect = w /\ u.def = t.def /\ u.cond = v
    BY <1>5, <1>8 DEF State
  <1> HIDE DEF u
  <1>10. QED BY <1>6, <1>7, <1>9 DEF v, x

LEMMA MemberAny ==
    ASSUME NEW t \in State, NEW e, NEW C, NEW inner, e \in C, Expands(inner, C)
    PROVE  LET u == ANY_INDIRECT(inner, t, e)
           IN  u \in State /\ u.expect = t.expect /\ u.def = t.def
  <1> DEFINE v == Int01(t.cond # 0 \/ first(e, t) # 0)
             x == [t EXCEPT !.cond = v]
  <1>1. v \in Int BY DEF Int01
  <1>2. ANY_INDIRECT(inner, t, e) = inner[e][x] BY DEF ANY_INDIRECT
  <1> HIDE DEF v
  <1>3. x \in State /\ x.expect = t.expect /\ x.def = t.def BY <1>1 DEF State
  <1> HIDE DEF x
  <1>4. Same(x, inner[e][x]) BY <1>3 DEF Expands
  <1>5. QED BY <1>2, <1>3, <1>4 DEF Same

LEMMA Members ==
    ASSUME NEW t \in State, NEW e, NEW C, NEW inner, e \in C, Expands(inner, C),
           NEW c, c.op \in Groups
    PROVE  LET u == Member(inner, c, t, e)
           IN  /\ u \in State /\ u.expect = t.expect /\ u.def = t.def
               /\ c.op = "all" => u.cond = And(t.cond, inner[e][InAll(t, e)].un)
               /\ c.op = "none" => u.cond = And(t.cond, Not(inner[e][InNone(t, e)].un))
  <1>1. CASE c.op = "all"
    <2>1. Member(inner, c, t, e) = ALL_INDIRECT(inner, t, e) BY <1>1 DEF Member
    <2>2. QED BY <1>1, <2>1, MemberAll
  <1>2. CASE c.op = "none"
    <2>1. Member(inner, c, t, e) = NONE_INDIRECT(inner, t, e) BY <1>2 DEF Member
    <2>2. QED BY <1>2, <2>1, MemberNone
  <1>3. CASE c.op = "any"
    <2>1. Member(inner, c, t, e) = ANY_INDIRECT(inner, t, e) BY <1>3 DEF Member
    <2>2. QED BY <1>3, <2>1, MemberAny
  <1>4. QED BY <1>1, <1>2, <1>3 DEF Groups

\* What the members of a group make, one after the other.
GroupWalk(inner, c, s, after) ==
    /\ after[0] = Opened(c, s)
    /\ \A k \in 0 .. Len(c.args) :
          after[k] \in State /\ after[k].expect = s.expect /\ after[k].def = Int01(c.op # "any")
    /\ \A k \in 1 .. Len(c.args) : after[k] = Member(inner, c, after[k - 1], c.args[k])

LEMMA OpenedState ==
    ASSUME NEW s \in State, NEW c \in Criterion[MaxNesting]
    PROVE  LET t == Opened(c, s)
           IN  /\ t \in State /\ t.expect = s.expect
               /\ t.def = Int01(c.op # "any") /\ t.cond = Int01(c.op # "any")
  <1> DEFINE def == Int01(c.op # "any")
             added == cri_assert_node_add(s, c, 0, FALSE)
             node == Len(s.nodes) + 1
             t == [added EXCEPT !.node = node, !.def = def, !.cond = def]
  <1>1. Same(s, added) BY BareAdded
  <1>2. def \in {0, 1} /\ node \in Nat BY DEF Int01, State
  <1>3. Opened(c, s) = t BY DEF Opened
  <1>4. added \in State /\ added.expect = s.expect BY <1>1 DEF Same
  <1> HIDE DEF def, added, node
  <1>5. t \in State /\ t.expect = s.expect /\ t.def = def /\ t.cond = def
    <2> DEFINE u == [added EXCEPT !.node = node]
               v == [u EXCEPT !.def = def]
               w == [v EXCEPT !.cond = def]
    <2>1. u \in State /\ u.expect = s.expect BY <1>2, <1>4 DEF State
    <2>2. t = w OBVIOUS
    <2> HIDE DEF t, u
    <2>3. v \in State /\ v.expect = s.expect /\ v.def = def BY <1>2, <2>1 DEF State
    <2> HIDE DEF v
    <2>4. w \in State /\ w.expect = s.expect /\ w.def = def /\ w.cond = def
      BY <1>2, <2>3 DEF State
    <2>5. QED BY <2>2, <2>4
  <1> HIDE DEF t
  <1>6. QED BY <1>3, <1>5 DEF def

LEMMA GroupOne ==
    ASSUME NEW s \in State, NEW c \in Criterion[MaxNesting], c.op \in Groups,
           NEW C, c.args \in Seq(C), NEW inner, Expands(inner, C)
    PROVE  \E after :
               /\ GroupWalk(inner, c, s, after)
               /\ Same(s, group(inner, c, s))
               /\ group(inner, c, s).un =
                      And(IF c.op = "any" THEN after[Len(c.args)].un ELSE s.un,
                          after[Len(c.args)].cond)
  <1> DEFINE n == Len(c.args)
             open == Opened(c, s)
             def == Int01(c.op # "any")
             A == {t \in State : t.expect = s.expect /\ t.def = def}
             next(k, t) == Member(inner, c, t, c.args[k])
             Body(f) == [k \in 0 .. n |-> IF k = 0 THEN open ELSE next(k, f[k - 1])]
             after == CHOOSE f : f = Body(f)
             T == [k \in 0 .. n |-> A]
             step == [k \in 1 .. n |-> [t \in A |-> next(k, t)]]
  <1>1. n \in Nat /\ \A k \in 1 .. n : c.args[k] \in C OBVIOUS
  <1>3. open \in A BY OpenedState
  <1>4. ASSUME NEW k \in 1 .. n, NEW t \in A PROVE next(k, t) \in A
    <2>1. c.args[k] \in C BY <1>1
    <2>2. LET u == Member(inner, c, t, c.args[k])
          IN  u \in State /\ u.expect = t.expect /\ u.def = t.def
      BY <2>1, Members
    <2>3. QED BY <2>2
  <1> HIDE DEF open, next, A
  <1>5. PICK f : Iteration(f, n, T, open, step)
    <2>1. open \in T[0] BY <1>1, <1>3
    <2>2. Typed(n, T, step) BY <1>1, <1>4 DEF Typed
    <2> HIDE DEF T, step, n
    <2>3. QED BY <1>1, <2>1, <2>2, Iterated
  <1>6. f = Body(f)
    <2>1. \A k \in 1 .. n : f[k] = next(k, f[k - 1])
      <3>1. SUFFICES ASSUME NEW k \in 1 .. n PROVE f[k] = next(k, f[k - 1]) OBVIOUS
      <3>2. k - 1 \in 0 .. n BY <1>1
      <3>3. f[k - 1] \in A BY <1>5, <3>2 DEF Iteration
      <3>4. step[k][f[k - 1]] = next(k, f[k - 1]) BY <3>3
      <3>5. QED BY <1>5, <3>4 DEF Iteration
    <2>2. \A k \in 0 .. n : k # 0 => k \in 1 .. n BY <1>1
    <2> HIDE DEF step, n, T
    <2>3. \A k \in 0 .. n : f[k] = IF k = 0 THEN open ELSE next(k, f[k - 1])
      BY <1>5, <2>1, <2>2 DEF Iteration
    <2>4. QED BY <1>5, <2>3 DEF Iteration
  <1>7. after = Body(after) BY <1>6
  <1> HIDE DEF after
  <1>8. after[0] = open /\ \A k \in 1 .. n : after[k] = next(k, after[k - 1])
    <2>1. 0 \in 0 .. n /\ \A k \in 1 .. n : k \in 0 .. n /\ k # 0 BY <1>1
    <2> HIDE DEF n
    <2>2. \A k \in 0 .. n : after[k] = IF k = 0 THEN open ELSE next(k, after[k - 1])
      BY <1>7
    <2>3. QED BY <2>1, <2>2
  <1>9. \A k \in 0 .. n : after[k] \in A
    <2> DEFINE P == {k \in 0 .. n : after[k] \in A}
    <2>1. 0 \in P BY <1>1, <1>3, <1>8
    <2>2. ASSUME NEW k \in 1 .. n, k - 1 \in P PROVE k \in P
      BY <1>1, <1>4, <1>8, <2>2
    <2> HIDE DEF P
    <2>3. \A k \in 0 .. n : k \in P BY <1>1, <2>1, <2>2, UpTo
    <2> USE DEF P
    <2>4. QED BY <1>1, <2>3
  <1>10. GroupWalk(inner, c, s, after)
    BY <1>8, <1>9 DEF GroupWalk, open, next, A
  <1> DEFINE final == after[n]
             pass == IF c.op = "any" THEN final.un ELSE s.un
             node == Len(s.nodes) + 1
             nodes == closed(final.nodes, node, final.cond # 0)
             un == And(pass, final.cond)
             t == [s EXCEPT !.nodes = nodes, !.un = un, !.prev = node]
  <1>11. group(inner, c, s) = t
    BY DEF group, after, open, Opened, next, Member
  <1>12. nodes \in Seq(Node)
    <2>1. final.nodes \in Seq(Node) BY <1>1, <1>9 DEF A, State
    <2> DEFINE b == final.cond # 0
    <2>2. b \in BOOLEAN OBVIOUS
    <2> HIDE DEF b, final
    <2>3. closed(final.nodes, node, b) \in Seq(Node) BY <2>1, <2>2, NodesClosed
    <2>4. QED BY <2>3 DEF b
  <1>13. un \in Int /\ node \in Nat BY Bits DEF State
  <1> HIDE DEF nodes, un, node
  <1>14. Same(s, t) /\ t.un = un BY <1>12, <1>13 DEF Same, State
  <1> HIDE DEF t
  <1>15. QED BY <1>10, <1>11, <1>14 DEF un

----------------------------------------------------------------------------
(* The levels of the expansion.                                            *)

\* What the code makes of a leaf: its comparisons as they are written.
Comes(c) ==
    IF IsValue(c) THEN c.val # 0
    ELSE IF IsThrow(c) THEN throws(c.op, c.thrown)
    ELSE IF IsArray(c) THEN \A k \in DOMAIN c.elems : tagged(c, c.elems[k][1], c.elems[k][2])
    ELSE tagged(c, c.vals[1], c.vals[2])

LEMMA ExpandedOne ==
    ASSUME NEW n \in 0 .. MaxNesting, NEW c \in Criterion[n], NEW s \in State,
           NEW inner, n # 0 => Expands(inner, Criterion[n - 1])
    PROVE  /\ Same(s, expanded(inner, c, s))
           /\ c \in Leaf =>
                  expanded(inner, c, s).un = IF IsValue(c) THEN c.val ELSE Int01(Comes(c))
  <1>0. c \in Criterion[MaxNesting] BY Nested
  <1>1. CASE c \in Leaf
    <2>1. CASE IsValue(c)
      <3>1. c.val \in Int BY <1>1, <2>1, Kinds
      <3>2. expanded(inner, c, s) = leaf(c, c.val, FALSE, s)
        <4>1. ~IsArray(c) /\ ~IsThrow(c) /\ c.op # "not" /\ c.op \notin Groups
          BY <1>1, <2>1, Kinds
        <4>2. QED BY <2>1, <4>1 DEF expanded, CRI_ASSERT_SPECIFIER_VALUE
      <3> DEFINE params == FALSE
      <3>3. params \in BOOLEAN OBVIOUS
      <3> HIDE DEF params
      <3>4. LET t == leaf(c, c.val, params, s) IN Same(s, t) /\ t.un = c.val
        BY <1>0, <3>1, <3>3, LeafOne
      <3>5. QED BY <2>1, <3>2, <3>4 DEF params
    <2>2. CASE IsArray(c)
      <3>1. /\ c \in Array /\ ~IsValue(c) /\ ~IsThrow(c)
            /\ c.op # "not" /\ c.op \notin Groups
        BY <1>1, <2>2, Kinds
      <3>2. expanded(inner, c, s) = CRI_ASSERT_SPECIFIER_OPTAG_ARRAY(c, s)
        BY <2>2, <3>1 DEF expanded
      <3> DEFINE worth == \A k \in DOMAIN c.elems :
                              tagged(c, c.elems[k][1], c.elems[k][2])
                 val == Int01(worth)
      <3>3. val = Int01(Comes(c)) BY <2>2, <3>1 DEF Comes, Int01
      <3>4. LET t == CRI_ASSERT_SPECIFIER_OPTAG_ARRAY(c, s)
            IN  Same(s, t) /\ t.un = val
        BY <1>0, <3>1, ArrayOne
      <3> HIDE DEF val
      <3>5. QED BY <3>1, <3>2, <3>3, <3>4
    <2>3. CASE IsThrow(c)
      <3>1. ~IsValue(c) /\ ~IsArray(c) /\ c.op # "not" /\ c.op \notin Groups
        BY <1>1, <2>3, Kinds
      <3>2. expanded(inner, c, s) = CRI_ASSERT_SPECIFIER_throw(c, s)
        BY <2>3, <3>1 DEF expanded
      <3> DEFINE val == Int01(throws(c.op, c.thrown))
      <3>3. val = Int01(Comes(c)) BY <2>3, <3>1 DEF Comes, Int01
      <3>4. LET t == CRI_ASSERT_SPECIFIER_throw(c, s) IN Same(s, t) /\ t.un = val
        BY <1>0, ThrowOne
      <3> HIDE DEF val
      <3>5. QED BY <3>1, <3>2, <3>3, <3>4
    <2>4. CASE ~IsValue(c) /\ ~IsArray(c) /\ ~IsThrow(c)
      <3>1. c.op \notin Groups /\ c.op # "not" BY <1>1, Kinds
      <3> DEFINE val == Int01(tagged(c, c.vals[1], c.vals[2]))
                 params == TRUE
      <3>2. expanded(inner, c, s) = leaf(c, val, params, s)
        BY <2>4, <3>1 DEF expanded, CRI_ASSERT_SPECIFIER_OPTAG_SCALAR
      <3>3. val \in Int /\ params \in BOOLEAN BY DEF Int01
      <3>4. val = Int01(Comes(c)) BY <2>4 DEF Comes, Int01
      <3> HIDE DEF val, params
      <3>5. LET t == leaf(c, val, params, s) IN Same(s, t) /\ t.un = val
        BY <1>0, <3>3, LeafOne
      <3>6. QED BY <2>4, <3>2, <3>4, <3>5
    <2>5. QED BY <2>1, <2>2, <2>3, <2>4
  <1>2. CASE c.op = "not" /\ c \notin Leaf
    <2>1. /\ n # 0 /\ c.arg \in Criterion[n - 1]
          /\ ~IsValue(c) /\ ~IsArray(c) /\ ~IsThrow(c) /\ c.op \notin Groups
      BY <1>2, Shapes DEF Groups
    <2>2. expanded(inner, c, s) = CRI_ASSERT_SPECIFIER_not(inner, c, s)
      BY <1>2, <2>1 DEF expanded
    <2> DEFINE C == Criterion[n - 1]
    <2>3. c.arg \in C /\ Expands(inner, C) BY <2>1
    <2> HIDE DEF C
    <2>4. Same(s, CRI_ASSERT_SPECIFIER_not(inner, c, s)) BY <2>3, NotOne
    <2>5. QED BY <1>2, <2>2, <2>4
  <1>3. CASE c.op \in Groups /\ c \notin Leaf
    <2>1. /\ n # 0 /\ c.args \in Seq(Criterion[n - 1])
          /\ ~IsValue(c) /\ ~IsArray(c) /\ ~IsThrow(c) /\ c.op # "not"
      BY <1>3, Shapes
    <2>2. expanded(inner, c, s) = group(inner, c, s) BY <1>3, <2>1 DEF expanded
    <2> DEFINE C == Criterion[n - 1]
    <2>3. c.args \in Seq(C) /\ Expands(inner, C) BY <2>1
    <2> HIDE DEF C
    <2>4. Same(s, group(inner, c, s)) BY <1>0, <1>3, <2>3, GroupOne
    <2>5. QED BY <1>3, <2>2, <2>4
  <1>4. QED BY <1>1, <1>2, <1>3, Shapes

LEMMA Expansions ==
    /\ \A n \in 0 .. MaxNesting : \A c \in Criterion[n] : \A s \in State :
            CRI_ASSERT_SPECIFIER[n][c][s] =
                expanded(IF n = 0 THEN <<>> ELSE CRI_ASSERT_SPECIFIER[n - 1], c, s)
    /\ \A n \in 0 .. MaxNesting : Expands(CRI_ASSERT_SPECIFIER[n], Criterion[n])
  <1> DEFINE N == MaxNesting
             level(n, x) == [c \in Criterion[n] |-> [s \in State |-> expanded(x, c, s)]]
             Body(f) == [n \in 0 .. N |-> [c \in Criterion[n] |-> [s \in State |->
                            expanded(IF n = 0 THEN <<>> ELSE f[n - 1], c, s)]]]
             all == CHOOSE f : f = Body(f)
             init == level(0, <<>>)
             A(n) == {f \in [Criterion[n] -> [State -> State]] : Expands(f, Criterion[n])}
             T == [n \in 0 .. N |-> A(n)]
             step == [n \in 1 .. N |-> [x \in A(n - 1) |-> level(n, x)]]
  <1>0. N \in Nat BY NestingAssumption
  <1>1. ASSUME NEW n \in 0 .. N, NEW x, n # 0 => Expands(x, Criterion[n - 1])
        PROVE  level(n, x) \in A(n)
    <2> DEFINE l == level(n, x)
    <2>1. ASSUME NEW c \in Criterion[n], NEW s \in State
          PROVE  l[c][s] = expanded(x, c, s) /\ Same(s, l[c][s])
      BY <1>1, <2>1, ExpandedOne
    <2>2. \A c \in Criterion[n] : l[c] = [s \in State |-> l[c][s]] OBVIOUS
    <2>3. l = [c \in Criterion[n] |-> l[c]] OBVIOUS
    <2> HIDE DEF l
    <2>4. \A c \in Criterion[n] : l[c] \in [State -> State] BY <2>1, <2>2 DEF Same
    <2>5. l \in [Criterion[n] -> [State -> State]] BY <2>3, <2>4
    <2>6. Expands(l, Criterion[n]) BY <2>1 DEF Expands
    <2>7. l \in A(n) BY <2>5, <2>6
    <2>8. QED BY <2>7 DEF l
  <1>2. \A n \in 0 .. N : \A x \in A(n) : Expands(x, Criterion[n]) OBVIOUS
  <1>3. init \in A(0) BY <1>0, <1>1
  <1>4. \A n \in 1 .. N : \A x \in A(n - 1) : level(n, x) \in A(n)
    <2>1. SUFFICES ASSUME NEW n \in 1 .. N, NEW x \in A(n - 1)
                   PROVE  level(n, x) \in A(n)
      OBVIOUS
    <2>2. n \in 0 .. N /\ n - 1 \in 0 .. N BY <1>0
    <2>3. Expands(x, Criterion[n - 1]) BY <1>2, <2>2
    <2> HIDE DEF A, level
    <2>4. QED BY <1>1, <2>2, <2>3
  <1>5. PICK f : Iteration(f, N, T, init, step)
    <2> HIDE DEF A, init, level
    <2>1. init \in T[0] BY <1>0, <1>3
    <2>2. Typed(N, T, step) BY <1>0, <1>4 DEF Typed
    <2> HIDE DEF T, step, N
    <2>3. QED BY <1>0, <2>1, <2>2, Iterated
  <1>6. f = Body(f)
    <2> HIDE DEF A
    <2>1. ASSUME NEW n \in 1 .. N PROVE f[n] = level(n, f[n - 1])
      <3>1. n - 1 \in 0 .. N BY <1>0
      <3>2. f[n - 1] \in A(n - 1) BY <1>5, <3>1 DEF Iteration
      <3> HIDE DEF level
      <3>3. step[n][f[n - 1]] = level(n, f[n - 1]) BY <3>2
      <3>4. QED BY <1>5, <3>3 DEF Iteration
    <2>2. \A n \in 0 .. N : n # 0 => n \in 1 .. N BY <1>0
    <2>3. f[0] = level(0, <<>>) BY <1>5 DEF Iteration
    <2> HIDE DEF level
    <2>4. \A n \in 0 .. N : f[n] = level(n, IF n = 0 THEN <<>> ELSE f[n - 1])
      BY <2>1, <2>2, <2>3
    <2>5. f = [n \in 0 .. N |-> level(n, IF n = 0 THEN <<>> ELSE f[n - 1])]
      <3> HIDE DEF N
      <3>1. QED BY <1>5, <2>4 DEF Iteration
    <2>6. QED BY <2>5 DEF level
  <1>7. all = Body(all) BY <1>6
  <1>8. CRI_ASSERT_SPECIFIER = all BY DEF CRI_ASSERT_SPECIFIER
  <1> DEFINE E == CRI_ASSERT_SPECIFIER
  <1> HIDE DEF all
  <1>9. E = [n \in 0 .. N |-> level(n, IF n = 0 THEN <<>> ELSE E[n - 1])]
    <2>1. all = [n \in 0 .. N |-> level(n, IF n = 0 THEN <<>> ELSE all[n - 1])] BY <1>7
    <2>2. E = all BY <1>8
    <2> HIDE DEF level, N, E
    <2>3. QED BY <2>1, <2>2
  <1> HIDE DEF E, Body
  <1>10. \A n \in 0 .. N : E[n] = level(n, IF n = 0 THEN <<>> ELSE E[n - 1])
    <2> HIDE DEF level, N
    <2>1. QED BY <1>9
  <1>11. \A n \in 0 .. N : E[n] \in A(n)
    <2> HIDE DEF A, level
    <2> DEFINE P == {n \in 0 .. N : E[n] \in A(n)}
    <2>1. 0 \in P BY <1>0, <1>3, <1>10
    <2>2. ASSUME NEW n \in 1 .. N, n - 1 \in P PROVE n \in P
      <3>1. n # 0 /\ n \in 0 .. N BY <1>0
      <3>2. E[n] = level(n, E[n - 1]) BY <1>10, <3>1
      <3>3. QED BY <1>4, <2>2, <3>1, <3>2
    <2> HIDE DEF P, N
    <2>3. \A n \in 0 .. N : n \in P BY <1>0, <2>1, <2>2, UpTo
    <2> USE DEF P
    <2>4. QED BY <2>3
  <1>12. \A n \in 0 .. N : \A c \in Criterion[n] : \A s \in State :
            E[n][c][s] = expanded(IF n = 0 THEN <<>> ELSE E[n - 1], c, s)
    <2>1. \A x : \A n \in 0 .. N : \A c \in Criterion[n] : \A s \in State :
              level(n, x)[c][s] = expanded(x, c, s)
      OBVIOUS
    <2> HIDE DEF level, N
    <2>2. QED BY <1>10, <2>1
  <1>13. QED BY <1>2, <1>11, <1>12 DEF E

----------------------------------------------------------------------------
(* The comparisons, and what a leaf is worth.                              *)

LEMMA ComparedBoolean ==
    ASSUME NEW op \in Ops, NEW a, NEW b PROVE compared(op, a, b) \in BOOLEAN
  <1>1. CASE a = <<>> \/ b = <<>> BY <1>1 DEF compared
  <1>2. CASE ~(a = <<>> \/ b = <<>>)
    <2> DEFINE d == a[1] - b[1]
    <2>1. compared(op, a, b) = ordered(op, d) BY <1>2 DEF compared
    <2> HIDE DEF d
    <2>2. ordered(op, d) \in BOOLEAN
      <3>1. CASE op = "==" BY <3>1 DEF ordered
      <3>2. CASE op = "!=" BY <3>2 DEF ordered
      <3>3. CASE op = "<" BY <3>3 DEF ordered
      <3>4. CASE op = "<=" BY <3>4 DEF ordered
      <3>5. CASE op = ">" BY <3>5 DEF ordered
      <3>6. CASE op = ">=" BY <3>6 DEF ordered
      <3>7. QED BY <3>1, <3>2, <3>3, <3>4, <3>5, <3>6 DEF Ops
    <2>3. QED BY <2>1, <2>2
  <1>3. QED BY <1>1, <1>2

LEMMA TagBoolean ==
    ASSUME NEW tag \in {"native", "str", "mem"}, NEW a, NEW b
    PROVE  isEq(tag, a, b) \in BOOLEAN /\ isLt(tag, a, b) \in BOOLEAN
  <1>1. native_eq(a, b) \in BOOLEAN /\ native_lt(a, b) \in BOOLEAN
    <2>1. {"==", "<"} \subseteq Ops BY DEF Ops
    <2>2. QED BY <2>1, ComparedBoolean DEF native_eq, native_lt
  <1>2. str_eq(a, b) \in BOOLEAN /\ str_lt(a, b) \in BOOLEAN BY DEF str_eq, str_lt
  <1>3. cr_user_mem_eq(a, b) \in BOOLEAN BY DEF cr_user_mem_eq
  <1>4. cr_user_mem_lt(a, b) \in BOOLEAN
    <2>1. CASE Len(a) = Len(b) BY <2>1 DEF cr_user_mem_lt
    <2>2. CASE Len(a) # Len(b) BY <2>2 DEF cr_user_mem_lt
    <2>3. QED BY <2>1, <2>2
  <1>5. QED BY <1>1, <1>2, <1>3, <1>4 DEF isEq, isLt

\* cmp orders the sequences of numbers: one way round it is the opposite of
\* the other.
LEMMA CmpOrders ==
    ASSUME NEW a \in Seq(Int), NEW b \in Seq(Int)
    PROVE  cmp(a, b) \in Int /\ cmp(b, a) = -cmp(a, b)
  <1> DEFINE D == {k \in DOMAIN a \cap DOMAIN b : a[k] # b[k]}
             E == {k \in DOMAIN b \cap DOMAIN a : b[k] # a[k]}
             pick(S) == CHOOSE k \in S : \A j \in S : k <= j
  <1>1. D = E OBVIOUS
  <1>2. CASE D = {}
    <2>1. cmp(a, b) = Len(a) - Len(b) BY <1>2 DEF cmp
    <2>2. cmp(b, a) = Len(b) - Len(a) BY <1>1, <1>2 DEF cmp
    <2>3. Len(a) \in Nat /\ Len(b) \in Nat OBVIOUS
    <2>4. QED BY <2>1, <2>2, <2>3
  <1>3. CASE D # {}
    <2>1. D \subseteq Nat OBVIOUS
    <2>2. \E k \in D : \A j \in D : k <= j
      <3> HIDE DEF D
      <3>1. PICK k \in D : \A j \in D : ~(j < k) BY <1>3, <2>1, LeastElement
      <3>2. QED BY <2>1, <3>1
    <2>3. cmp(a, b) = a[pick(D)] - b[pick(D)] BY <1>3 DEF cmp
    <2>4. cmp(b, a) = b[pick(E)] - a[pick(E)] BY <1>1, <1>3 DEF cmp
    <2>5. pick(D) \in D
      <3> HIDE DEF D
      <3>1. QED BY <2>2
    <2>6. pick(E) = pick(D) BY <1>1
    <2> DEFINE k == pick(D)
    <2>7. k \in DOMAIN a /\ k \in DOMAIN b BY <2>5
    <2> HIDE DEF k
    <2>8. a[k] \in Int /\ b[k] \in Int BY <2>7
    <2>9. cmp(a, b) = a[k] - b[k] /\ cmp(b, a) = b[k] - a[k] BY <2>3, <2>4, <2>6 DEF k
    <2>10. QED BY <2>8, <2>9
  <1>4. QED BY <1>2, <1>3

\* Numbers are too far from each other, or they are not.
LEMMA FloatOpposite ==
    ASSUME NEW a, NEW b, NEW n \in Nat,
           a # <<>> => a[1] \in Int, b # <<>> => b[1] \in Int
    PROVE  LET eq == cr_assert_float_eq_op_(a, b, <<n>>)
               ne == cr_assert_float_neq_op_(a, b, <<n>>)
           IN  /\ eq \in BOOLEAN /\ ne \in BOOLEAN
               /\ IF a # <<>> /\ b # <<>> THEN ne <=> ~eq ELSE ~ne /\ ~eq
               /\ eq = CRI_EPSILON_EQ(a, b, <<n>>)
               /\ eq <=> /\ a # <<>> /\ b # <<>>
                         /\ b[1] - a[1] <= n /\ a[1] - b[1] <= n
  <1>0. "<=" # "!=" /\ ">" # "!=" OBVIOUS
  <1>1. <<n>> # <<>> /\ <<n>>[1] = n OBVIOUS
  <1>2. CASE a = <<>> \/ b = <<>>
    <2>1. minus(a, b) = <<>> /\ minus(b, a) = <<>> BY <1>2 DEF minus
    <2>2. ASSUME NEW op, op # "!=" PROVE ~compared(op, <<>>, <<n>>) BY <2>2 DEF compared
    <2>3. ~compared("<=", <<>>, <<n>>) /\ ~compared(">", <<>>, <<n>>) BY <1>0, <2>2
    <2>4. QED BY <1>2, <2>1, <2>3
             DEF cr_assert_float_eq_op_, cr_assert_float_neq_op_, CRI_EPSILON_EQ
  <1>3. CASE a # <<>> /\ b # <<>>
    <2> DEFINE d == b[1] - a[1]
               e == a[1] - b[1]
    <2>1. minus(b, a) = <<d>> /\ minus(a, b) = <<e>> BY <1>3 DEF minus
    <2>2. d \in Int /\ e \in Int /\ e = -d BY <1>3
    <2> HIDE DEF d, e
    <2>3. ASSUME NEW op, NEW z \in Int
          PROVE  compared(op, <<z>>, <<n>>) = ordered(op, z - n)
      BY <1>1 DEF compared
    <2>4. ASSUME NEW z \in Int
          PROVE  /\ ordered("<=", z - n) = (z - n <= 0)
                 /\ ordered(">", z - n) = (z - n > 0)
      BY DEF ordered
    <2>5. /\ compared("<=", <<d>>, <<n>>) = (d - n <= 0)
          /\ compared("<=", <<e>>, <<n>>) = (e - n <= 0)
          /\ compared(">", <<d>>, <<n>>) = (d - n > 0)
          /\ compared(">", <<e>>, <<n>>) = (e - n > 0)
      BY <2>2, <2>3, <2>4
    <2> DEFINE eq == cr_assert_float_eq_op_(a, b, <<n>>)
               ne == cr_assert_float_neq_op_(a, b, <<n>>)
    <2>6. /\ eq = (d - n <= 0 /\ e - n <= 0)
          /\ CRI_EPSILON_EQ(a, b, <<n>>) = (d - n <= 0 /\ e - n <= 0)
          /\ ne = (d - n > 0 \/ e - n > 0)
      BY <2>1, <2>5 DEF cr_assert_float_eq_op_, cr_assert_float_neq_op_, CRI_EPSILON_EQ
    <2> DEFINE p == d - n <= 0
               q == e - n <= 0
    <2>a. eq = (p /\ q) BY <2>6
    <2>b. ne = (~p \/ ~q)
      <3>1. (d - n > 0) = ~p /\ (e - n > 0) = ~q BY <2>2
      <3>2. QED BY <2>6, <3>1
    <2>c. (p <=> d <= n) /\ (q <=> e <= n) BY <2>2
    <2> HIDE DEF eq, ne, p, q
    <2>7. eq \in BOOLEAN /\ ne \in BOOLEAN /\ (ne <=> ~eq) BY <2>a, <2>b
    <2>8. eq <=> d <= n /\ e <= n
      <3>1. eq <=> p /\ q BY <2>a
      <3>2. QED BY <2>c, <3>1
    <2>9. QED BY <1>3, <2>6, <2>7, <2>8 DEF eq, ne, d, e
  <1>4. QED BY <1>2, <1>3

\* Numbers within n units of each other, and n is one at least.
Near(a, b, n) == /\ a # <<>> /\ b # <<>> /\ n >= 1
                 /\ b[1] - a[1] <= n /\ a[1] - b[1] <= n

\* Numbers, and NaN.
LEMMA NativeOf ==
    ASSUME NEW x \in Operand("native")
    PROVE  x = <<>> \/ (x # <<>> /\ x[1] \in Int /\ x = <<x[1]>>)
  <1>1. x \in Seq(Int) /\ Len(x) <= 1 BY DEF Operand
  <1>2. CASE x # <<>>
    <2>1. Len(x) = 1 BY <1>1, <1>2
    <2>2. x[1] \in Int BY <1>1, <2>1
    <2>3. x = <<x[1]>> BY <1>1, <2>1
    <2>4. QED BY <1>2, <2>2, <2>3
  <1>3. QED BY <1>2

\* What the walk of ieee_ulp_eq comes to: as many steps as it takes.
LEMMA UlpWalk ==
    ASSUME NEW x \in Int, NEW y \in Int, NEW n \in Nat
    PROVE  ieee_ulp_eq(<<x>>, <<y>>, n) <=> n >= 1 /\ y - x <= n /\ x - y <= n
  <1> DEFINE a == <<x>>
             b == <<y>>
             U == {<<z>> : z \in Int}
             next(w) == nextafter(w, b)
             walk == CHOOSE f : f = [k \in 0 .. n |-> IF k = 0 THEN a ELSE nextafter(f[k - 1], b)]
             T == [k \in 0 .. n |-> U]
             step == [k \in 1 .. n |-> [w \in U |-> next(w)]]
             at(k) == IF x <= y THEN IF x + k <= y THEN x + k ELSE y
                      ELSE IF x - k >= y THEN x - k ELSE y
  <1>1. ASSUME NEW z \in Int
        PROVE  /\ next(<<z>>) \in U
               /\ next(<<z>>) = <<IF z < y THEN z + 1 ELSE IF z > y THEN z - 1 ELSE z>>
    <2>1. <<z>> # <<>> /\ b # <<>> /\ <<z>>[1] = z /\ b[1] = y OBVIOUS
    <2>2. CASE z < y BY <2>1, <2>2 DEF nextafter
    <2>3. CASE z > y BY <2>1, <2>3 DEF nextafter
    <2>4. CASE z = y BY <2>1, <2>4 DEF nextafter
    <2>5. QED BY <2>2, <2>3, <2>4
  <1>2. \A w \in U : next(w) \in U BY <1>1
  <1>3. PICK f : Iteration(f, n, T, a, step)
    <2> HIDE DEF next, a
    <2>1. a \in T[0] BY DEF a
    <2>2. Typed(n, T, step) BY <1>2 DEF Typed
    <2> HIDE DEF T, step
    <2>3. QED BY <2>1, <2>2, Iterated
  <1>4. f = [k \in 0 .. n |-> IF k = 0 THEN a ELSE nextafter(f[k - 1], b)]
    <2>1. ASSUME NEW k \in 1 .. n PROVE f[k] = next(f[k - 1])
      <3> HIDE DEF next
      <3>1. k - 1 \in 0 .. n OBVIOUS
      <3>2. f[k - 1] \in U BY <1>3, <3>1 DEF Iteration
      <3>3. step[k][f[k - 1]] = next(f[k - 1]) BY <3>2
      <3>4. QED BY <1>3, <3>3 DEF Iteration
    <2>2. \A k \in 0 .. n : k # 0 => k \in 1 .. n OBVIOUS
    <2> HIDE DEF next, a
    <2>3. \A k \in 0 .. n : f[k] = IF k = 0 THEN a ELSE next(f[k - 1])
      BY <1>3, <2>1, <2>2 DEF Iteration
    <2>4. f = [k \in 0 .. n |-> IF k = 0 THEN a ELSE next(f[k - 1])]
      BY <1>3, <2>3 DEF Iteration
    <2>5. QED BY <2>4 DEF next
  <1>5. walk = [k \in 0 .. n |-> IF k = 0 THEN a ELSE nextafter(walk[k - 1], b)] BY <1>4
  <1>6. ieee_ulp_eq(a, b, n) <=> \E k \in 1 .. n : native_eq(walk[k], b) BY DEF ieee_ulp_eq
  <1> HIDE DEF walk
  <1> DEFINE P == {k \in 0 .. n : walk[k] = <<at(k)>>}
  <1>7. 0 \in P
    <2>1. at(0) = x /\ 0 \in 0 .. n OBVIOUS
    <2>2. walk[0] = a
      <3> HIDE DEF a, next
      <3>1. QED BY <1>5, <2>1
    <2>3. QED BY <2>1, <2>2
  <1>8. ASSUME NEW k \in 1 .. n, k - 1 \in P PROVE k \in P
    <2> DEFINE z == at(k - 1)
    <2>0. k \in 0 .. n /\ k # 0 /\ z \in Int OBVIOUS
    <2>1. walk[k] = next(walk[k - 1]) /\ walk[k - 1] = <<z>> /\ z \in Int
      <3>1. walk[k] = nextafter(walk[k - 1], b)
        <4> HIDE DEF a, b
        <4>1. QED BY <1>5, <2>0
      <3>2. walk[k - 1] = <<z>> BY <1>8
      <3>3. QED BY <2>0, <3>1, <3>2
    <2>2. at(k) = IF z < y THEN z + 1 ELSE IF z > y THEN z - 1 ELSE z OBVIOUS
    <2> HIDE DEF z, at, next
    <2>3. QED BY <1>1, <2>1, <2>2
  <1>9. \A k \in 1 .. n : walk[k] = <<at(k)>>
    <2> HIDE DEF P
    <2>1. \A k \in 0 .. n : k \in P BY <1>7, <1>8, UpTo
    <2>2. QED BY <2>1 DEF P
  <1>10. ASSUME NEW z \in Int PROVE native_eq(<<z>>, b) <=> z = y
    BY DEF native_eq, compared, ordered
  <1>11. \A k \in 1 .. n : at(k) \in Int OBVIOUS
  <1>12. ieee_ulp_eq(a, b, n) <=> \E k \in 1 .. n : at(k) = y
    <2> HIDE DEF a, b, at
    <2>1. QED BY <1>6, <1>9, <1>10, <1>11
  <1>13. (\E k \in 1 .. n : at(k) = y) <=> n >= 1 /\ y - x <= n /\ x - y <= n
    <2>1. ASSUME NEW k \in 1 .. n, at(k) = y PROVE n >= 1 /\ y - x <= n /\ x - y <= n
      BY <2>1
    <2>2. ASSUME n >= 1, y - x <= n, x - y <= n PROVE \E k \in 1 .. n : at(k) = y
      <3>1. n \in 1 .. n /\ at(n) = y BY <2>2
      <3>2. QED BY <3>1
    <2>3. QED BY <2>1, <2>2
  <1>14. QED BY <1>12, <1>13

\* NaN is not close to anything, however many steps are taken.
LEMMA UlpNaN ==
    ASSUME NEW a, NEW b, NEW n \in Nat, a = <<>> \/ b = <<>>
    PROVE  ~ieee_ulp_eq(a, b, n)
  <1> DEFINE walk == CHOOSE f : f = [k \in 0 .. n |-> IF k = 0 THEN a ELSE nextafter(f[k - 1], b)]
             f == [k \in 0 .. n |-> IF k = 0 THEN a ELSE <<>>]
  <1>1. f = [k \in 0 .. n |-> IF k = 0 THEN a ELSE nextafter(f[k - 1], b)]
    <2>1. ASSUME NEW k \in 1 .. n PROVE nextafter(f[k - 1], b) = <<>>
      <3>1. k - 1 \in 0 .. n OBVIOUS
      <3>2. f[k - 1] = <<>> \/ b = <<>> BY <3>1
      <3>3. QED BY <3>2 DEF nextafter
    <2>2. \A k \in 0 .. n : k # 0 => k \in 1 .. n OBVIOUS
    <2>3. \A k \in 0 .. n : (IF k = 0 THEN a ELSE <<>>)
                                = IF k = 0 THEN a ELSE nextafter(f[k - 1], b)
      BY <2>1, <2>2
    <2> DEFINE g == [k \in 0 .. n |-> IF k = 0 THEN a ELSE nextafter(f[k - 1], b)]
    <2>4. DOMAIN f = 0 .. n /\ DOMAIN g = 0 .. n OBVIOUS
    <2>5. \A k \in 0 .. n : f[k] = g[k] BY <2>3
    <2>6. f = [k \in 0 .. n |-> f[k]] /\ g = [k \in 0 .. n |-> g[k]] OBVIOUS
    <2> HIDE DEF f, g
    <2>7. f = g BY <2>5, <2>6
    <2>8. QED BY <2>7 DEF g
  <1> HIDE DEF f
  <1>2. walk = [k \in 0 .. n |-> IF k = 0 THEN a ELSE nextafter(walk[k - 1], b)] BY <1>1
  <1>3. ieee_ulp_eq(a, b, n) <=> \E k \in 1 .. n : native_eq(walk[k], b) BY DEF ieee_ulp_eq
  <1> HIDE DEF walk
  <1> DEFINE P == {k \in 0 .. n : walk[k] = <<>> \/ b = <<>>}
  <1>4. 0 \in P BY <1>2
  <1>5. ASSUME NEW k \in 1 .. n, k - 1 \in P PROVE k \in P
    <2>1. walk[k] = nextafter(walk[k - 1], b) BY <1>2
    <2>2. walk[k - 1] = <<>> \/ b = <<>> BY <1>5
    <2>3. walk[k] = <<>> BY <2>1, <2>2 DEF nextafter
    <2>4. QED BY <2>3
  <1>6. \A k \in 0 .. n : k \in P
    <2> HIDE DEF P
    <2>1. QED BY <1>4, <1>5, UpTo
  <1>7. ASSUME NEW k \in 1 .. n PROVE ~native_eq(walk[k], b)
    <2>1. walk[k] = <<>> \/ b = <<>> BY <1>6
    <2>2. QED BY <2>1 DEF native_eq, compared
  <1>8. QED BY <1>3, <1>7

LEMMA UlpNear ==
    ASSUME NEW a \in Operand("native"), NEW b \in Operand("native"), NEW n \in Nat
    PROVE  ieee_ulp_eq(a, b, n) <=> Near(a, b, n)
  <1>1. CASE a = <<>> \/ b = <<>> BY <1>1, UlpNaN DEF Near
  <1>2. CASE a # <<>> /\ b # <<>>
    <2> DEFINE x == a[1]
               y == b[1]
    <2>1. x \in Int /\ y \in Int /\ a = <<x>> /\ b = <<y>> BY <1>2, NativeOf
    <2> HIDE DEF x, y
    <2>2. ieee_ulp_eq(<<x>>, <<y>>, n) <=> n >= 1 /\ y - x <= n /\ x - y <= n BY <2>1, UlpWalk
    <2>3. QED BY <1>2, <2>1, <2>2 DEF Near, x, y
  <1>3. QED BY <1>1, <1>2

\* The functions of a tag: eq does not see which comes first, and of lt, lt
\* the other way round and eq exactly one holds, but for NaN.
LEMMA TagOrders ==
    ASSUME NEW tag \in {"native", "str", "mem"},
           NEW a \in Operand(tag), NEW b \in Operand(tag)
    PROVE  /\ isEq(tag, a, b) \in BOOLEAN /\ isEq(tag, b, a) \in BOOLEAN
           /\ isLt(tag, a, b) \in BOOLEAN /\ isLt(tag, b, a) \in BOOLEAN
           /\ isEq(tag, a, b) <=> isEq(tag, b, a)
           /\ ~(isLt(tag, a, b) /\ isEq(tag, a, b))
           /\ ~(isLt(tag, b, a) /\ isEq(tag, a, b))
           /\ ~(isLt(tag, a, b) /\ isLt(tag, b, a))
           /\ (tag = "native" => a # <<>> /\ b # <<>>) =>
                isLt(tag, a, b) \/ isLt(tag, b, a) \/ isEq(tag, a, b)
  <1>1. CASE tag = "native"
    <2>1. /\ isEq(tag, a, b) = compared("==", a, b) /\ isEq(tag, b, a) = compared("==", b, a)
          /\ isLt(tag, a, b) = compared("<", a, b) /\ isLt(tag, b, a) = compared("<", b, a)
      BY <1>1 DEF isEq, isLt, native_eq, native_lt
    <2>2. /\ isEq(tag, a, b) \in BOOLEAN /\ isEq(tag, b, a) \in BOOLEAN
          /\ isLt(tag, a, b) \in BOOLEAN /\ isLt(tag, b, a) \in BOOLEAN
      <3>1. {"==", "<"} \subseteq Ops BY DEF Ops
      <3>2. QED BY <2>1, <3>1, ComparedBoolean
    <2>3. CASE a = <<>> \/ b = <<>>
      <3>1. ~isEq(tag, a, b) /\ ~isEq(tag, b, a) /\ ~isLt(tag, a, b) /\ ~isLt(tag, b, a)
        BY <2>1, <2>3 DEF compared
      <3>2. QED BY <1>1, <2>2, <2>3, <3>1
    <2>4. CASE a # <<>> /\ b # <<>>
      <3> DEFINE x == a[1]
                 y == b[1]
      <3>1. x \in Int /\ y \in Int BY <1>1, <2>4, NativeOf
      <3>2. /\ compared("==", a, b) = (x - y = 0) /\ compared("==", b, a) = (y - x = 0)
            /\ compared("<", a, b) = (x - y < 0) /\ compared("<", b, a) = (y - x < 0)
        BY <2>4 DEF compared, ordered
      <3> DEFINE e == x - y = 0
                 f == y - x = 0
                 l == x - y < 0
                 g == y - x < 0
      <3> HIDE DEF x, y
      <3>3. (e <=> f) /\ ~(l /\ e) /\ ~(g /\ e) /\ ~(l /\ g) /\ (l \/ g \/ e) BY <3>1
      <3>4. isEq(tag, a, b) = e /\ isEq(tag, b, a) = f /\ isLt(tag, a, b) = l /\ isLt(tag, b, a) = g
        BY <2>1, <3>2
      <3> HIDE DEF e, f, l, g
      <3>5. QED BY <2>2, <3>3, <3>4
    <2>5. QED BY <2>3, <2>4
  <1>2. ASSUME tag # "native"
        PROVE  /\ a \in Seq(Int) /\ b \in Seq(Int)
               /\ cmp(a, b) \in Int /\ cmp(b, a) = -cmp(a, b)
               /\ Len(a) \in Nat /\ Len(b) \in Nat
    <2>1. a \in Seq(Int) /\ b \in Seq(Int) BY <1>2 DEF Operand
    <2>2. QED BY <2>1, CmpOrders
  <1>3. CASE tag = "str"
    <2> DEFINE d == cmp(a, b)
    <2>1. d \in Int /\ cmp(b, a) = -d BY <1>2, <1>3
    <2> DEFINE e == d = 0
               f == -d = 0
               l == d < 0
               g == -d < 0
    <2>2. isEq(tag, a, b) = e /\ isEq(tag, b, a) = f /\ isLt(tag, a, b) = l /\ isLt(tag, b, a) = g
      BY <1>3, <2>1 DEF isEq, isLt, str_eq, str_lt
    <2> HIDE DEF d
    <2>3. (e <=> f) /\ ~(l /\ e) /\ ~(g /\ e) /\ ~(l /\ g) /\ (l \/ g \/ e) BY <2>1
    <2>4. /\ e \in BOOLEAN /\ f \in BOOLEAN /\ l \in BOOLEAN /\ g \in BOOLEAN OBVIOUS
    <2> HIDE DEF e, f, l, g
    <2>5. QED BY <1>3, <2>2, <2>3, <2>4
  <1>4. CASE tag = "mem"
    <2> DEFINE d == cmp(a, b)
               l == Len(a)
               m == Len(b)
    <2>1. d \in Int /\ cmp(b, a) = -d /\ l \in Nat /\ m \in Nat BY <1>2, <1>4
    <2> DEFINE e == l = m /\ d = 0
               f == m = l /\ -d = 0
               o == IF l # m THEN l < m ELSE d < 0
               g == IF m # l THEN m < l ELSE -d < 0
    <2>2. isEq(tag, a, b) = e /\ isEq(tag, b, a) = f /\ isLt(tag, a, b) = o /\ isLt(tag, b, a) = g
      BY <1>4, <2>1 DEF isEq, isLt, cr_user_mem_eq, cr_user_mem_lt
    <2> HIDE DEF d, l, m
    <2>3. (e <=> f) /\ ~(o /\ e) /\ ~(g /\ e) /\ ~(o /\ g) /\ (o \/ g \/ e) BY <2>1
    <2>4. e \in BOOLEAN /\ f \in BOOLEAN /\ o \in BOOLEAN /\ g \in BOOLEAN
      <3>1. CASE l = m BY <3>1
      <3>2. CASE l # m
        <4>1. e = FALSE /\ f = FALSE BY <3>2
        <4>2. o = (l < m) BY <3>2
        <4>3. g = (m < l) BY <3>2
        <4>4. (l < m) \in BOOLEAN /\ (m < l) \in BOOLEAN OBVIOUS
        <4> HIDE DEF e, f, o, g
        <4>5. QED BY <4>1, <4>2, <4>3, <4>4
      <3>3. QED BY <3>1, <3>2
    <2> HIDE DEF e, f, o, g
    <2>5. QED BY <1>4, <2>2, <2>3, <2>4
  <1>5. QED BY <1>1, <1>3, <1>4

\* What each operator comes to.
LEMMA TaggedCases ==
    ASSUME NEW c, NEW a, NEW b
    PROVE  LET e == isEq(c.tag, a, b)
               l == isLt(c.tag, a, b)
           IN  /\ c.op = "eq" => tagged(c, a, b) = e
               /\ c.op = "ne" => tagged(c, a, b) = ~e
               /\ c.op = "lt" => tagged(c, a, b) = l
               /\ c.op = "ge" => tagged(c, a, b) = (~l \/ e)
               /\ c.op = "le" => tagged(c, a, b) = (l \/ e)
               /\ c.op = "gt" => tagged(c, a, b) = ~l
               /\ c.op = "epsilon_eq" => tagged(c, a, b) = CRI_EPSILON_EQ(a, b, <<c.n>>)
               /\ c.op = "epsilon_ne" => tagged(c, a, b) = ~CRI_EPSILON_EQ(a, b, <<c.n>>)
               /\ c.op = "ieee_ulp_eq" => tagged(c, a, b) = ieee_ulp_eq(a, b, c.n)
               /\ c.op = "ieee_ulp_ne" => tagged(c, a, b) = ~ieee_ulp_eq(a, b, c.n)
  <1> DEFINE e == isEq(c.tag, a, b)
             l == isLt(c.tag, a, b)
  <1>1. c.op \in {"eq", "ne", "lt", "ge", "le", "gt"} => tagged(c, a, b) = CRI_BINOP_T(c.op, e, l)
    BY DEF tagged
  <1>2. CRI_BINOP_T("eq", e, l) = e BY DEF CRI_BINOP_T
  <1>3. CRI_BINOP_T("ne", e, l) = ~e BY DEF CRI_BINOP_T
  <1>4. CRI_BINOP_T("lt", e, l) = l BY DEF CRI_BINOP_T
  <1>5. CRI_BINOP_T("ge", e, l) = (~l \/ e) BY DEF CRI_BINOP_T
  <1>a. CRI_BINOP_T("le", e, l) = (l \/ e) BY DEF CRI_BINOP_T
  <1>b. CRI_BINOP_T("gt", e, l) = ~l BY DEF CRI_BINOP_T
  <1>6. /\ c.op = "epsilon_eq" => tagged(c, a, b) = CRI_EPSILON_EQ(a, b, <<c.n>>)
        /\ c.op = "epsilon_ne" => tagged(c, a, b) = ~CRI_EPSILON_EQ(a, b, <<c.n>>)
    BY DEF tagged, CRI_EPSILON_NE
  <1>7. /\ c.op = "ieee_ulp_eq" => tagged(c, a, b) = ieee_ulp_eq(a, b, c.n)
        /\ c.op = "ieee_ulp_ne" => tagged(c, a, b) = ~ieee_ulp_eq(a, b, c.n)
    BY DEF tagged, CRI_IEEE_ULP_T_NE
  <1> HIDE DEF e, l
  <1>8. QED BY <1>1, <1>2, <1>3, <1>4, <1>5, <1>a, <1>b, <1>6, <1>7 DEF e, l

\* Where it does not depart, the comparison of the code is the documented one.
LEMMA AsDocumented ==
    ASSUME NEW c, c.op \in Binary \cup Close, c.tag \in {"native", "str", "mem"},
           c.op \in Close => c.tag = "native" /\ c.n \in Nat,
           NEW a \in Operand(c.tag), NEW b \in Operand(c.tag), ~departs(c, a, b)
    PROVE  tagged(c, a, b) <=> documented(c, a, b)
  <1> DEFINE e == isEq(c.tag, a, b)
             l == isLt(c.tag, a, b)
             g == isLt(c.tag, b, a)
             near == a # <<>> /\ b # <<>> /\ a[1] - b[1] \in (-c.n) .. c.n
             code == tagged(c, a, b)
             doc == documented(c, a, b)
             there == c.tag = "native" => a # <<>> /\ b # <<>>
  <1>1. /\ e \in BOOLEAN /\ l \in BOOLEAN /\ g \in BOOLEAN
        /\ ~(l /\ e) /\ ~(g /\ e) /\ ~(l /\ g)
        /\ there => l \/ g \/ e
    BY TagOrders
  <1>2. /\ c.op = "eq" => (code = e /\ doc = e)
        /\ c.op = "ne" => (code = ~e /\ doc = ~e)
        /\ c.op = "lt" => (code = l /\ doc = l)
        /\ c.op = "le" => (code = (l \/ e) /\ doc = (l \/ e))
        /\ c.op = "gt" => (code = ~l /\ doc = g)
        /\ c.op = "ge" => (code = (~l \/ e) /\ doc = (g \/ e))
    BY TaggedCases DEF documented
  <1>3. /\ c.op \in {"epsilon_eq", "ieee_ulp_eq"} => doc = near
        /\ c.op \in {"epsilon_ne", "ieee_ulp_ne"} => doc = ~near
    BY DEF documented
  <1>4. /\ c.op = "gt" => l \/ g
        /\ c.op = "ge" => there
        /\ c.op \in {"ieee_ulp_eq", "ieee_ulp_ne"} => c.n # 0 \/ ~e
    BY DEF departs
  <1>5. CASE c.op \in Binary
    <2> HIDE DEF e, l, g, code, doc, there
    <2>1. CASE c.op = "eq" BY <1>2, <2>1 DEF code, doc
    <2>2. CASE c.op = "ne" BY <1>2, <2>2 DEF code, doc
    <2>3. CASE c.op = "lt" BY <1>2, <2>3 DEF code, doc
    <2>4. CASE c.op = "le" BY <1>2, <2>4 DEF code, doc
    <2>5. CASE c.op = "gt"
      <3>1. ~l <=> g BY <1>1, <1>4, <2>5
      <3>2. QED BY <1>2, <2>5, <3>1 DEF code, doc
    <2>6. CASE c.op = "ge"
      <3>1. (~l \/ e) <=> (g \/ e) BY <1>1, <1>4, <2>6
      <3>2. QED BY <1>2, <2>6, <3>1 DEF code, doc
    <2>7. QED BY <1>5, <2>1, <2>2, <2>3, <2>4, <2>5, <2>6 DEF Binary
  <1>6. CASE c.op \in Close
    <2>1. c.tag = "native" /\ c.n \in Nat BY <1>6
    <2>2. (a # <<>> => a[1] \in Int) /\ (b # <<>> => b[1] \in Int) BY <2>1, NativeOf
    <2>3. near <=> /\ a # <<>> /\ b # <<>> /\ b[1] - a[1] <= c.n /\ a[1] - b[1] <= c.n
      BY <2>1, <2>2
    <2>4. CRI_EPSILON_EQ(a, b, <<c.n>>) <=> near BY <2>1, <2>2, <2>3, FloatOpposite
    <2>5. c.n # 0 \/ ~e => (ieee_ulp_eq(a, b, c.n) <=> near)
      <3>1. ieee_ulp_eq(a, b, c.n) <=> near /\ c.n >= 1 BY <2>1, <2>3, UlpNear DEF Near
      <3>2. c.n = 0 /\ near => e
        <4>1. e = compared("==", a, b) BY <2>1 DEF isEq, native_eq
        <4>2. ASSUME c.n = 0, near PROVE a[1] - b[1] = 0 BY <2>2, <4>2
        <4>3. near => compared("==", a, b) = (a[1] - b[1] = 0) BY DEF compared, ordered
        <4>4. QED BY <4>1, <4>2, <4>3
      <3>3. QED BY <2>1, <3>1, <3>2
    <2> HIDE DEF near, e, code, doc
    <2>6. CASE c.op = "epsilon_eq" BY <1>3, <2>4, <2>6, TaggedCases DEF code, doc
    <2>7. CASE c.op = "epsilon_ne" BY <1>3, <2>4, <2>7, TaggedCases DEF code, doc
    <2>8. CASE c.op = "ieee_ulp_eq" BY <1>3, <1>4, <2>5, <2>8, TaggedCases DEF code, doc
    <2>9. CASE c.op = "ieee_ulp_ne" BY <1>3, <1>4, <2>5, <2>9, TaggedCases DEF code, doc
    <2>10. QED BY <1>6, <2>6, <2>7, <2>8, <2>9 DEF Close
  <1>7. QED BY <1>5, <1>6

\* The operands of a comparison, or of each element of an array.
LEMMA LeafFields ==
    ASSUME NEW c \in Leaf, ~IsValue(c), ~IsThrow(c)
    PROVE  /\ c.op \in Binary \cup Close /\ c.tag \in {"native", "str", "mem"}
           /\ c.op \in Close => c.tag = "native" /\ c.n \in Nat
           /\ IF IsArray(c)
              THEN \A k \in DOMAIN c.elems : /\ c.elems[k][1] \in Operand(c.tag)
                                             /\ c.elems[k][2] \in Operand(c.tag)
              ELSE c.vals[1] \in Operand(c.tag) /\ c.vals[2] \in Operand(c.tag)
  <1>0. Binary \cap Close = {} BY DEF Binary, Close
  <1>1. CASE IsArray(c)
    <2>1. c \in Array BY <1>1, Kinds
    <2>2. PICK tag \in {"native", "str", "mem"} : c \in Listed(tag) BY <2>1 DEF Array
    <2>3. c.op \in Binary /\ c.tag = tag /\ c.elems \in Seq(Pair(tag)) BY <2>2 DEF Listed
    <2>4. \A k \in DOMAIN c.elems : c.elems[k] \in Pair(tag) BY <2>3
    <2>5. QED BY <1>0, <1>1, <2>3, <2>4 DEF Pair
  <1>2. CASE ~IsArray(c)
    <2>1. c \in Scalar BY <1>2, Kinds
    <2>2. CASE c \in [op : Close, tag : {"native"}, vals : Pair("native"), n : Nat]
      BY <1>2, <2>2 DEF Pair
    <2>3. ASSUME NEW tag \in {"native", "str", "mem"}, c \in Compared(tag)
          PROVE  /\ c.op \in Binary /\ c.tag = tag
                 /\ c.vals[1] \in Operand(tag) /\ c.vals[2] \in Operand(tag)
      BY <2>3 DEF Compared, Pair
    <2>4. QED BY <1>0, <1>2, <2>1, <2>2, <2>3 DEF Scalar
  <1>3. QED BY <1>1, <1>2

LEMMA DocumentedBoolean ==
    ASSUME NEW c, c.op \in Binary \cup Close, c.tag \in {"native", "str", "mem"},
           NEW a, NEW b
    PROVE  documented(c, a, b) \in BOOLEAN
  <1> DEFINE e == isEq(c.tag, a, b)
             l == isLt(c.tag, a, b)
             g == isLt(c.tag, b, a)
             near == a # <<>> /\ b # <<>> /\ a[1] - b[1] \in (-c.n) .. c.n
  <1>1. e \in BOOLEAN /\ l \in BOOLEAN /\ g \in BOOLEAN BY TagBoolean
  <1>2. near \in BOOLEAN OBVIOUS
  <1>3. documented(c, a, b) \in {e, ~e, l, l \/ e, g, g \/ e, near, ~near}
    BY DEF documented, Binary, Close
  <1> HIDE DEF e, l, g, near
  <1>4. QED BY <1>1, <1>2, <1>3

LEMMA WorthBoolean == ASSUME NEW c \in Leaf PROVE Worth(c) \in BOOLEAN
  <1>1. CASE IsValue(c) BY <1>1 DEF Worth
  <1>2. CASE IsThrow(c)
    <2>1. ~IsValue(c) /\ c.op \in Exceptions BY <1>2, Kinds
    <2>2. throws(c.op, c.thrown) \in BOOLEAN BY <2>1 DEF throws, Exceptions
    <2>3. QED BY <1>2, <2>1, <2>2 DEF Worth
  <1>3. CASE IsArray(c)
    <2>1. ~IsValue(c) /\ ~IsThrow(c) BY <1>3, Kinds
    <2>2. QED BY <1>3, <2>1 DEF Worth
  <1>4. CASE ~IsValue(c) /\ ~IsThrow(c) /\ ~IsArray(c)
    <2>1. documented(c, c.vals[1], c.vals[2]) \in BOOLEAN BY <1>4, LeafFields, DocumentedBoolean
    <2>2. QED BY <1>4, <2>1 DEF Worth
  <1>5. QED BY <1>1, <1>2, <1>3, <1>4

\* A faithful leaf comes to what its documentation says.
LEMMA FaithfulLeaf == ASSUME NEW c \in Leaf, Faithful(c) PROVE Comes(c) <=> Worth(c)
  <1>1. CASE IsValue(c) \/ IsThrow(c) BY <1>1 DEF Comes, Worth
  <1>2. CASE ~IsValue(c) /\ ~IsThrow(c) /\ IsArray(c)
    <2>1. \A k \in DOMAIN c.elems : ~departs(c, c.elems[k][1], c.elems[k][2])
      BY <1>2 DEF Faithful
    <2>2. \A k \in DOMAIN c.elems : tagged(c, c.elems[k][1], c.elems[k][2])
                                        <=> documented(c, c.elems[k][1], c.elems[k][2])
      BY <1>2, <2>1, LeafFields, AsDocumented
    <2>3. QED BY <1>2, <2>2 DEF Comes, Worth
  <1>3. CASE ~IsValue(c) /\ ~IsThrow(c) /\ ~IsArray(c)
    <2>1. ~departs(c, c.vals[1], c.vals[2]) BY <1>3 DEF Faithful
    <2>2. tagged(c, c.vals[1], c.vals[2]) <=> documented(c, c.vals[1], c.vals[2])
      BY <1>3, <2>1, LeafFields, AsDocumented
    <2>3. QED BY <1>3, <2>2 DEF Comes, Worth
  <1>4. QED BY <1>1, <1>2, <1>3

----------------------------------------------------------------------------
(* What is said of a criterion, level by level.                            *)

\* Each of these takes what is said of the criteria below to what is said of
\* the ones of level n.
DeclaresAt(n, x) == [c \in Criterion[n] |-> IF c.op = "not" THEN x[c.arg] ELSE c.op \in Groups]
MeaningAt(n, x) ==
    [c \in Criterion[n] |->
        CASE c.op = "not"  -> ~x[c.arg]
          [] c.op = "all"  -> \A k \in DOMAIN c.args : x[c.args[k]]
          [] c.op = "none" -> \A k \in DOMAIN c.args : ~x[c.args[k]]
          [] c.op = "any"  -> \E k \in DOMAIN c.args : x[c.args[k]]
          [] OTHER         -> Worth(c)]
SoundAt(n, x) ==
    [c \in Criterion[n] |->
        CASE c.op = "not" -> ~declares[n - 1][c.arg] /\ x[c.arg]
          [] c.op = "any" -> FALSE
          [] c.op \in {"all", "none"} -> \A k \in DOMAIN c.args : x[c.args[k]]
          [] OTHER -> Faithful(c)]

LEMMA DeclaresTyped ==
    ASSUME NEW n \in 0 .. MaxNesting, NEW x,
           n # 0 => x \in [Criterion[n - 1] -> BOOLEAN]
    PROVE  DeclaresAt(n, x) \in [Criterion[n] -> BOOLEAN]
  <1>1. ASSUME NEW c \in Criterion[n] PROVE DeclaresAt(n, x)[c] \in BOOLEAN
    <2>1. CASE c.op = "not"
      <3>1. n # 0 /\ c.arg \in Criterion[n - 1] BY <2>1, Shapes, Kinds
      <3>2. x[c.arg] \in BOOLEAN BY <3>1
      <3>3. QED BY <2>1, <3>2 DEF DeclaresAt
    <2>2. CASE c.op # "not"
      <3>1. DeclaresAt(n, x)[c] = (c.op \in Groups) BY <2>2 DEF DeclaresAt
      <3>2. (c.op \in Groups) \in BOOLEAN OBVIOUS
      <3>3. QED BY <3>1, <3>2
    <2>3. QED BY <2>1, <2>2
  <1>2. DeclaresAt(n, x) = [c \in Criterion[n] |-> DeclaresAt(n, x)[c]] BY DEF DeclaresAt
  <1>3. QED BY <1>1, <1>2

LEMMA MeaningTyped ==
    ASSUME NEW n \in 0 .. MaxNesting, NEW x,
           n # 0 => x \in [Criterion[n - 1] -> BOOLEAN]
    PROVE  MeaningAt(n, x) \in [Criterion[n] -> BOOLEAN]
  <1>1. ASSUME NEW c \in Criterion[n] PROVE MeaningAt(n, x)[c] \in BOOLEAN
    <2>1. CASE c.op = "not" BY <2>1 DEF MeaningAt
    <2>2. CASE c.op = "all" BY <2>2 DEF MeaningAt
    <2>3. CASE c.op = "none" BY <2>3 DEF MeaningAt
    <2>4. CASE c.op = "any" BY <2>4 DEF MeaningAt
    <2>5. CASE c.op \notin Groups \cup {"not"}
      <3>1. c \in Leaf BY <2>5, Shapes
      <3>2. MeaningAt(n, x)[c] = Worth(c) BY <2>5 DEF MeaningAt, Groups
      <3>3. QED BY <3>1, <3>2, WorthBoolean
    <2>6. QED BY <2>1, <2>2, <2>3, <2>4, <2>5 DEF Groups
  <1>2. MeaningAt(n, x) = [c \in Criterion[n] |-> MeaningAt(n, x)[c]] BY DEF MeaningAt
  <1>3. QED BY <1>1, <1>2

LEMMA SoundTyped ==
    ASSUME NEW n \in 0 .. MaxNesting, NEW x
    PROVE  SoundAt(n, x) \in [Criterion[n] -> BOOLEAN]
  <1>1. ASSUME NEW c \in Criterion[n] PROVE SoundAt(n, x)[c] \in BOOLEAN
    <2>1. CASE c.op = "not" BY <2>1 DEF SoundAt
    <2>2. CASE c.op = "any" BY <2>2 DEF SoundAt
    <2>3. CASE c.op \in {"all", "none"} BY <2>3 DEF SoundAt
    <2>4. CASE c.op \notin Groups \cup {"not"} BY <2>4 DEF SoundAt, Groups, Faithful
    <2>5. QED BY <2>1, <2>2, <2>3, <2>4 DEF Groups
  <1>2. SoundAt(n, x) = [c \in Criterion[n] |-> SoundAt(n, x)[c]] BY DEF SoundAt
  <1>3. QED BY <1>1, <1>2

\* At level 0, of leaves, nothing is below.
LEMMA BelowLeaves ==
    ASSUME NEW x, NEW y
    PROVE  /\ DeclaresAt(0, x) = DeclaresAt(0, y)
           /\ MeaningAt(0, x) = MeaningAt(0, y)
           /\ SoundAt(0, x) = SoundAt(0, y)
  <1>1. \A c \in Criterion[0] : c.op \notin Groups /\ c.op # "not" BY Levels, Kinds
  <1>2. DeclaresAt(0, x) = DeclaresAt(0, y) BY <1>1 DEF DeclaresAt
  <1>3. MeaningAt(0, x) = MeaningAt(0, y) BY <1>1 DEF MeaningAt, Groups
  <1>4. SoundAt(0, x) = SoundAt(0, y) BY <1>1 DEF SoundAt, Groups
  <1>5. QED BY <1>2, <1>3, <1>4

LEMMA DeclaresLevels ==
    \A n \in 0 .. MaxNesting : /\ declares[n] = DeclaresAt(n, declares[n - 1])
                              /\ declares[n] \in [Criterion[n] -> BOOLEAN]
  <1> DEFINE N == MaxNesting
             B(n) == [Criterion[n] -> BOOLEAN]
             Body(f) == [n \in 0 .. N |-> DeclaresAt(n, f[n - 1])]
             all == CHOOSE f : f = Body(f)
             init == DeclaresAt(0, <<>>)
             T == [n \in 0 .. N |-> B(n)]
             step == [n \in 1 .. N |-> [x \in B(n - 1) |-> DeclaresAt(n, x)]]
  <1>0. N \in Nat BY NestingAssumption
  <1>1. init \in B(0) BY <1>0, DeclaresTyped
  <1>2. \A n \in 1 .. N : \A x \in B(n - 1) : DeclaresAt(n, x) \in B(n)
    <2>1. \A n \in 1 .. N : n \in 0 .. N OBVIOUS
    <2>2. QED BY <2>1, DeclaresTyped
  <1> HIDE DEF B, init
  <1>3. PICK f : Iteration(f, N, T, init, step)
    <2>1. init \in T[0] BY <1>0, <1>1
    <2>2. Typed(N, T, step) BY <1>0, <1>2 DEF Typed
    <2> HIDE DEF T, step, N
    <2>3. QED BY <1>0, <2>1, <2>2, Iterated
  <1>4. f = Body(f)
    <2>1. ASSUME NEW n \in 1 .. N PROVE f[n] = DeclaresAt(n, f[n - 1])
      <3>1. n - 1 \in 0 .. N BY <1>0
      <3>2. f[n - 1] \in B(n - 1) BY <1>3, <3>1 DEF Iteration
      <3>3. step[n][f[n - 1]] = DeclaresAt(n, f[n - 1]) BY <3>2
      <3>4. QED BY <1>3, <3>3 DEF Iteration
    <2>2. \A n \in 0 .. N : n # 0 => n \in 1 .. N BY <1>0
    <2>3. f[0] = DeclaresAt(0, f[0 - 1]) BY <1>3, BelowLeaves DEF Iteration, init
    <2>4. \A n \in 0 .. N : f[n] = DeclaresAt(n, f[n - 1]) BY <2>1, <2>2, <2>3
    <2> HIDE DEF N
    <2>5. QED BY <1>3, <2>4 DEF Iteration
  <1>5. all = Body(all) BY <1>4
  <1>6. declares = all BY DEF declares, DeclaresAt
  <1> HIDE DEF all
  <1>7. \A n \in 0 .. N : declares[n] = DeclaresAt(n, declares[n - 1]) BY <1>5, <1>6
  <1>8. \A n \in 0 .. N : declares[n] \in B(n)
    <2> DEFINE P == {n \in 0 .. N : declares[n] \in B(n)}
    <2>1. 0 \in P
      <3>1. declares[0] = init BY <1>0, <1>7, BelowLeaves DEF init
      <3>2. QED BY <1>0, <1>1, <3>1
    <2>2. ASSUME NEW n \in 1 .. N, n - 1 \in P PROVE n \in P
      <3>1. n \in 0 .. N OBVIOUS
      <3>2. QED BY <1>2, <1>7, <2>2, <3>1
    <2> HIDE DEF P, N
    <2>3. \A n \in 0 .. N : n \in P BY <1>0, <2>1, <2>2, UpTo
    <2> USE DEF P
    <2>4. QED BY <2>3
  <1>9. QED BY <1>7, <1>8 DEF B

LEMMA MeaningLevels ==
    \A n \in 0 .. MaxNesting : /\ meaning[n] = MeaningAt(n, meaning[n - 1])
                              /\ meaning[n] \in [Criterion[n] -> BOOLEAN]
  <1> DEFINE N == MaxNesting
             B(n) == [Criterion[n] -> BOOLEAN]
             Body(f) == [n \in 0 .. N |-> MeaningAt(n, f[n - 1])]
             all == CHOOSE f : f = Body(f)
             init == MeaningAt(0, <<>>)
             T == [n \in 0 .. N |-> B(n)]
             step == [n \in 1 .. N |-> [x \in B(n - 1) |-> MeaningAt(n, x)]]
  <1>0. N \in Nat BY NestingAssumption
  <1>1. init \in B(0) BY <1>0, MeaningTyped
  <1>2. \A n \in 1 .. N : \A x \in B(n - 1) : MeaningAt(n, x) \in B(n)
    <2>1. \A n \in 1 .. N : n \in 0 .. N OBVIOUS
    <2>2. QED BY <2>1, MeaningTyped
  <1> HIDE DEF B, init
  <1>3. PICK f : Iteration(f, N, T, init, step)
    <2>1. init \in T[0] BY <1>0, <1>1
    <2>2. Typed(N, T, step) BY <1>0, <1>2 DEF Typed
    <2> HIDE DEF T, step, N
    <2>3. QED BY <1>0, <2>1, <2>2, Iterated
  <1>4. f = Body(f)
    <2>1. ASSUME NEW n \in 1 .. N PROVE f[n] = MeaningAt(n, f[n - 1])
      <3>1. n - 1 \in 0 .. N BY <1>0
      <3>2. f[n - 1] \in B(n - 1) BY <1>3, <3>1 DEF Iteration
      <3>3. step[n][f[n - 1]] = MeaningAt(n, f[n - 1]) BY <3>2
      <3>4. QED BY <1>3, <3>3 DEF Iteration
    <2>2. \A n \in 0 .. N : n # 0 => n \in 1 .. N BY <1>0
    <2>3. f[0] = MeaningAt(0, f[0 - 1]) BY <1>3, BelowLeaves DEF Iteration, init
    <2>4. \A n \in 0 .. N : f[n] = MeaningAt(n, f[n - 1]) BY <2>1, <2>2, <2>3
    <2> HIDE DEF N
    <2>5. QED BY <1>3, <2>4 DEF Iteration
  <1>5. all = Body(all) BY <1>4
  <1>6. meaning = all BY DEF meaning, MeaningAt
  <1> HIDE DEF all
  <1>7. \A n \in 0 .. N : meaning[n] = MeaningAt(n, meaning[n - 1]) BY <1>5, <1>6
  <1>8. \A n \in 0 .. N : meaning[n] \in B(n)
    <2> DEFINE P == {n \in 0 .. N : meaning[n] \in B(n)}
    <2>1. 0 \in P
      <3>1. meaning[0] = init BY <1>0, <1>7, BelowLeaves DEF init
      <3>2. QED BY <1>0, <1>1, <3>1
    <2>2. ASSUME NEW n \in 1 .. N, n - 1 \in P PROVE n \in P
      <3>1. n \in 0 .. N OBVIOUS
      <3>2. QED BY <1>2, <1>7, <2>2, <3>1
    <2> HIDE DEF P, N
    <2>3. \A n \in 0 .. N : n \in P BY <1>0, <2>1, <2>2, UpTo
    <2> USE DEF P
    <2>4. QED BY <2>3
  <1>9. QED BY <1>7, <1>8 DEF B

LEMMA SoundLevels ==
    \A n \in 0 .. MaxNesting : /\ sound[n] = SoundAt(n, sound[n - 1])
                              /\ sound[n] \in [Criterion[n] -> BOOLEAN]
  <1> DEFINE N == MaxNesting
             B(n) == [Criterion[n] -> BOOLEAN]
             Body(f) == [n \in 0 .. N |-> SoundAt(n, f[n - 1])]
             all == CHOOSE f : f = Body(f)
             init == SoundAt(0, <<>>)
             T == [n \in 0 .. N |-> B(n)]
             step == [n \in 1 .. N |-> [x \in B(n - 1) |-> SoundAt(n, x)]]
  <1>0. N \in Nat BY NestingAssumption
  <1>1. init \in B(0) BY <1>0, SoundTyped
  <1>2. \A n \in 1 .. N : \A x \in B(n - 1) : SoundAt(n, x) \in B(n)
    <2>1. \A n \in 1 .. N : n \in 0 .. N OBVIOUS
    <2>2. QED BY <2>1, SoundTyped
  <1> HIDE DEF B, init
  <1>3. PICK f : Iteration(f, N, T, init, step)
    <2>1. init \in T[0] BY <1>0, <1>1
    <2>2. Typed(N, T, step) BY <1>0, <1>2 DEF Typed
    <2> HIDE DEF T, step, N
    <2>3. QED BY <1>0, <2>1, <2>2, Iterated
  <1>4. f = Body(f)
    <2>1. ASSUME NEW n \in 1 .. N PROVE f[n] = SoundAt(n, f[n - 1])
      <3>1. n - 1 \in 0 .. N BY <1>0
      <3>2. f[n - 1] \in B(n - 1) BY <1>3, <3>1 DEF Iteration
      <3>3. step[n][f[n - 1]] = SoundAt(n, f[n - 1]) BY <3>2
      <3>4. QED BY <1>3, <3>3 DEF Iteration
    <2>2. \A n \in 0 .. N : n # 0 => n \in 1 .. N BY <1>0
    <2>3. f[0] = SoundAt(0, f[0 - 1]) BY <1>3, BelowLeaves DEF Iteration, init
    <2>4. \A n \in 0 .. N : f[n] = SoundAt(n, f[n - 1]) BY <2>1, <2>2, <2>3
    <2> HIDE DEF N
    <2>5. QED BY <1>3, <2>4 DEF Iteration
  <1>5. all = Body(all) BY <1>4
  <1>6. sound = all BY DEF sound, SoundAt
  <1> HIDE DEF all
  <1>7. \A n \in 0 .. N : sound[n] = SoundAt(n, sound[n - 1]) BY <1>5, <1>6
  <1>8. \A n \in 0 .. N : sound[n] \in B(n)
    <2> DEFINE P == {n \in 0 .. N : sound[n] \in B(n)}
    <2>1. 0 \in P
      <3>1. sound[0] = init BY <1>0, <1>7, BelowLeaves DEF init
      <3>2. QED BY <1>0, <1>1, <3>1
    <2>2. ASSUME NEW n \in 1 .. N, n - 1 \in P PROVE n \in P
      <3>1. n \in 0 .. N OBVIOUS
      <3>2. QED BY <1>2, <1>7, <2>2, <3>1
    <2> HIDE DEF P, N
    <2>3. \A n \in 0 .. N : n \in P BY <1>0, <2>1, <2>2, UpTo
    <2> USE DEF P
    <2>4. QED BY <2>3
  <1>9. QED BY <1>7, <1>8 DEF B

----------------------------------------------------------------------------
(* A sound criterion comes to what it means.                               *)

\* What an expansion makes of a sound criterion: a group in it is and-ed to
\* the cri_cond_un around it, which must be 1.
Truthful(n) ==
    \A c \in Criterion[n], s \in State :
        sound[n][c] /\ (declares[n][c] => s.un = 1) =>
            LET un == CRI_ASSERT_SPECIFIER[n][c][s].un
            IN  /\ un # 0 <=> meaning[n][c]
                /\ IF IsValue(c) THEN un = c.val ELSE un \in {0, 1}

\* In front of a sound member of all or none, the expression is 1 when it
\* declares a group.
LEMMA FirstSound ==
    ASSUME NEW n \in 0 .. MaxNesting, NEW c \in Criterion[n], NEW s \in State,
           sound[n][c], declares[n][c]
    PROVE  c.op \in Groups /\ first(c, s) = s.def
  <1>1. c.op \in Groups
    <2>1. declares[n] = DeclaresAt(n, declares[n - 1]) /\ sound[n] = SoundAt(n, sound[n - 1])
      BY DeclaresLevels, SoundLevels
    <2>2. CASE c.op = "not"
      <3>1. declares[n][c] = declares[n - 1][c.arg] BY <2>1, <2>2 DEF DeclaresAt
      <3>2. sound[n][c] => ~declares[n - 1][c.arg] BY <2>1, <2>2 DEF SoundAt
      <3>3. QED BY <3>1, <3>2
    <2>3. CASE c.op # "not"
      <3>1. declares[n][c] = (c.op \in Groups) BY <2>1, <2>3 DEF DeclaresAt
      <3>2. QED BY <3>1
    <2>4. QED BY <2>2, <2>3
  <1>2. c.op # "not" BY <1>1 DEF Groups
  <1>3. QED BY <1>1, <1>2 DEF first

LEMMA TruthOfLeaf ==
    ASSUME NEW n \in 0 .. MaxNesting, NEW c \in Criterion[n], NEW s \in State, c \in Leaf,
           sound[n][c]
    PROVE  LET un == CRI_ASSERT_SPECIFIER[n][c][s].un
           IN  /\ un # 0 <=> meaning[n][c]
               /\ IF IsValue(c) THEN un = c.val ELSE un \in {0, 1}
  <1> DEFINE inner == IF n = 0 THEN <<>> ELSE CRI_ASSERT_SPECIFIER[n - 1]
             un == CRI_ASSERT_SPECIFIER[n][c][s].un
  <1>1. n # 0 => Expands(inner, Criterion[n - 1])
    <2>1. n # 0 => n - 1 \in 0 .. MaxNesting BY NestingAssumption
    <2>2. QED BY <2>1, Expansions
  <1>2. CRI_ASSERT_SPECIFIER[n][c][s] = expanded(inner, c, s) BY Expansions
  <1> HIDE DEF inner
  <1>3. un = IF IsValue(c) THEN c.val ELSE Int01(Comes(c)) BY <1>1, <1>2, ExpandedOne
  <1>4. meaning[n][c] = Worth(c)
    <2>1. c.op \notin Groups /\ c.op # "not" BY Kinds
    <2>2. meaning[n] = MeaningAt(n, meaning[n - 1]) BY MeaningLevels
    <2>3. QED BY <2>1, <2>2 DEF MeaningAt, Groups
  <1>a. Comes(c) <=> Worth(c)
    <2>1. c.op \notin Groups /\ c.op # "not" BY Kinds
    <2>2. sound[n] = SoundAt(n, sound[n - 1]) BY SoundLevels
    <2>3. Faithful(c) BY <2>1, <2>2 DEF SoundAt, Groups
    <2>4. QED BY <2>3, FaithfulLeaf
  <1> HIDE DEF un
  <1>5. CASE IsValue(c)
    <2>1. Worth(c) = (c.val # 0) BY <1>5 DEF Worth
    <2>2. QED BY <1>3, <1>4, <1>5, <2>1 DEF un
  <1>6. CASE ~IsValue(c)
    <2>1. un = Int01(Comes(c)) BY <1>3, <1>6
    <2>2. un \in {0, 1} /\ (un # 0 <=> Worth(c)) BY <1>a, <2>1 DEF Int01
    <2>3. QED BY <1>4, <1>6, <2>2 DEF un
  <1>7. QED BY <1>5, <1>6

LEMMA TruthOfNot ==
    ASSUME NEW n \in 1 .. MaxNesting, NEW c \in Criterion[n], NEW s \in State,
           c.op = "not", sound[n][c], Truthful(n - 1)
    PROVE  LET un == CRI_ASSERT_SPECIFIER[n][c][s].un
           IN  (un # 0 <=> meaning[n][c]) /\ un \in {0, 1}
  <1>1. n - 1 \in 0 .. MaxNesting /\ n \in 0 .. MaxNesting /\ n # 0 BY NestingAssumption
  <1>2. /\ c.arg \in Criterion[n - 1]
        /\ ~IsValue(c) /\ ~IsArray(c) /\ ~IsThrow(c) /\ c.op \notin Groups
    <2>1. c \notin Leaf BY Kinds
    <2>2. QED BY <1>1, <2>1, Shapes DEF Groups
  <1> DEFINE inner == CRI_ASSERT_SPECIFIER[n - 1]
             flip == [s EXCEPT !.expect = Not(s.expect)]
             un == inner[c.arg][flip].un
             C == Criterion[n - 1]
  <1>3. CRI_ASSERT_SPECIFIER[n][c][s] = CRI_ASSERT_SPECIFIER_not(inner, c, s)
    <2>1. CRI_ASSERT_SPECIFIER[n][c][s] = expanded(inner, c, s) BY <1>1, Expansions
    <2>2. QED BY <1>2, <2>1 DEF expanded
  <1>4. c.arg \in C /\ Expands(inner, C) BY <1>1, <1>2, Expansions
  <1>5. flip \in State /\ CRI_ASSERT_SPECIFIER_not(inner, c, s).un = Not(un)
    <2> HIDE DEF inner, C
    <2>1. QED BY <1>4, NotOne
  <1>6. ~declares[n - 1][c.arg] /\ sound[n - 1][c.arg]
    <2>1. sound[n] = SoundAt(n, sound[n - 1]) BY <1>1, SoundLevels
    <2>2. QED BY <2>1 DEF SoundAt
  <1>7. meaning[n][c] = ~meaning[n - 1][c.arg]
    <2>1. meaning[n] = MeaningAt(n, meaning[n - 1]) BY <1>1, MeaningLevels
    <2>2. QED BY <2>1 DEF MeaningAt
  <1>8. un # 0 <=> meaning[n - 1][c.arg]
    <2> HIDE DEF flip
    <2>1. QED BY <1>2, <1>5, <1>6 DEF Truthful
  <1> HIDE DEF un
  <1>9. Not(un) \in {0, 1} /\ (Not(un) # 0 <=> un = 0) BY DEF Not, Int01
  <1>10. QED BY <1>3, <1>5, <1>7, <1>8, <1>9

LEMMA TruthOfMember ==
    ASSUME NEW n \in 0 .. MaxNesting, NEW e \in Criterion[n], sound[n][e], Truthful(n),
           NEW t \in State, t.def = 1
    PROVE  LET inner == CRI_ASSERT_SPECIFIER[n]
           IN  /\ inner[e][InAll(t, e)].un # 0 <=> meaning[n][e]
               /\ inner[e][InNone(t, e)].un # 0 <=> meaning[n][e]
  <1>1. ASSUME NEW u \in State, declares[n][e] => u.un = 1
        PROVE  CRI_ASSERT_SPECIFIER[n][e][u].un # 0 <=> meaning[n][e]
    BY <1>1 DEF Truthful
  <1>2. CRI_ASSERT_SPECIFIER[n][e][InAll(t, e)].un # 0 <=> meaning[n][e]
    <2> DEFINE u == InAll(t, e)
    <2>1. u \in State /\ u.un = first(e, t) BY InsideAll DEF Same
    <2>2. declares[n][e] => u.un = 1 BY <2>1, FirstSound
    <2> HIDE DEF u
    <2>3. CRI_ASSERT_SPECIFIER[n][e][u].un # 0 <=> meaning[n][e] BY <1>1, <2>1, <2>2
    <2>4. QED BY <2>3 DEF u
  <1>3. CRI_ASSERT_SPECIFIER[n][e][InNone(t, e)].un # 0 <=> meaning[n][e]
    <2> DEFINE u == InNone(t, e)
               v == Not(t.expect)
               flip == [t EXCEPT !.expect = v]
    <2>1. u \in State /\ u.un = first(e, flip) BY InsideNone
    <2>2. v \in {0, 1} BY Bits
    <2> HIDE DEF v
    <2>3. flip \in State /\ flip.def = 1 BY <2>2 DEF State
    <2> HIDE DEF u, flip
    <2>4. declares[n][e] => u.un = 1 BY <2>1, <2>3, FirstSound
    <2>5. CRI_ASSERT_SPECIFIER[n][e][u].un # 0 <=> meaning[n][e] BY <1>1, <2>1, <2>4
    <2>6. QED BY <2>5 DEF u
  <1>4. QED BY <1>2, <1>3

LEMMA TruthOfGroup ==
    ASSUME NEW n \in 1 .. MaxNesting, NEW c \in Criterion[n], NEW s \in State,
           c.op \in {"all", "none"}, sound[n][c], s.un = 1, Truthful(n - 1)
    PROVE  LET un == CRI_ASSERT_SPECIFIER[n][c][s].un
           IN  (un # 0 <=> meaning[n][c]) /\ un \in {0, 1}
  <1>1. n - 1 \in 0 .. MaxNesting /\ n \in 0 .. MaxNesting /\ n # 0 BY NestingAssumption
  <1>2. /\ c.args \in Seq(Criterion[n - 1]) /\ c.op \in Groups /\ c.op # "any" /\ c.op # "not"
        /\ ~IsValue(c) /\ ~IsArray(c) /\ ~IsThrow(c)
    <2>1. c \notin Leaf /\ c.op \in Groups /\ c.op # "any" BY Kinds DEF Groups
    <2>2. QED BY <1>1, <2>1, Shapes
  <1> DEFINE inner == CRI_ASSERT_SPECIFIER[n - 1]
             C == Criterion[n - 1]
             m == Len(c.args)
             says(k) == IF c.op = "all" THEN meaning[n - 1][c.args[k]]
                        ELSE ~meaning[n - 1][c.args[k]]
  <1>3. CRI_ASSERT_SPECIFIER[n][c][s] = group(inner, c, s)
    <2>1. CRI_ASSERT_SPECIFIER[n][c][s] = expanded(inner, c, s) BY <1>1, Expansions
    <2>2. QED BY <1>2, <2>1 DEF expanded
  <1>4. PICK after : /\ GroupWalk(inner, c, s, after)
                     /\ group(inner, c, s).un = And(1, after[m].cond)
    <2>1. c \in Criterion[MaxNesting] BY <1>1, Nested
    <2>2. c.args \in Seq(C) /\ Expands(inner, C) BY <1>1, <1>2, Expansions
    <2> HIDE DEF C, inner
    <2>3. QED BY <1>2, <2>1, <2>2, GroupOne
  <1>5. \A k \in 1 .. m : c.args[k] \in C /\ sound[n - 1][c.args[k]]
    <2>1. sound[n] = SoundAt(n, sound[n - 1]) BY <1>1, SoundLevels
    <2>2. \A k \in DOMAIN c.args : sound[n - 1][c.args[k]]
      BY <1>2, <2>1 DEF SoundAt
    <2>3. DOMAIN c.args = 1 .. m BY <1>2
    <2>4. \A k \in 1 .. m : c.args[k] \in C BY <1>2
    <2>5. \A k \in 1 .. m : sound[n - 1][c.args[k]] BY <2>2, <2>3
    <2>6. QED BY <2>4, <2>5
  <1>6. m \in Nat BY <1>2
  <1> DEFINE R(k) == /\ after[k].cond \in {0, 1}
                     /\ after[k].cond # 0 <=> \A j \in 1 .. k : says(j)
             P == {k \in 0 .. m : R(k)}
  <1>7. 0 \in P
    <2>1. after[0].cond = 1
      <3>1. Opened(c, s).cond = Int01(c.op # "any") BY <1>1, OpenedState, Nested
      <3>2. QED BY <1>2, <1>4, <3>1 DEF GroupWalk, Int01
    <2>2. QED BY <1>6, <2>1
  <1>8. ASSUME NEW k \in 1 .. m, k - 1 \in P PROVE k \in P
    <2> DEFINE t == after[k - 1]
               e == c.args[k]
    <2>1. k - 1 \in 0 .. m BY <1>6
    <2>2. t \in State /\ t.def = 1 BY <1>2, <1>4, <2>1 DEF GroupWalk, Int01
    <2>3. after[k] = Member(inner, c, t, e) BY <1>4 DEF GroupWalk
    <2>4. e \in C /\ sound[n - 1][e] /\ Expands(inner, C) BY <1>1, <1>5, Expansions
    <2>5. /\ inner[e][InAll(t, e)].un # 0 <=> meaning[n - 1][e]
          /\ inner[e][InNone(t, e)].un # 0 <=> meaning[n - 1][e]
      <3> HIDE DEF e, t
      <3>1. QED BY <1>1, <2>2, <2>4, TruthOfMember
    <2>6. /\ c.op = "all" => after[k].cond = And(t.cond, inner[e][InAll(t, e)].un)
          /\ c.op = "none" => after[k].cond = And(t.cond, Not(inner[e][InNone(t, e)].un))
      <3> HIDE DEF e, t, inner, C
      <3>1. QED BY <1>2, <2>2, <2>3, <2>4, Members
    <2>7. after[k].cond \in {0, 1} /\ (after[k].cond # 0 <=> t.cond # 0 /\ says(k))
      <3> DEFINE a == inner[e][InAll(t, e)].un
                 b == inner[e][InNone(t, e)].un
      <3>1. CASE c.op = "all"
        <4>1. after[k].cond = And(t.cond, a) /\ (a # 0 <=> says(k)) BY <2>5, <2>6, <3>1
        <4> HIDE DEF a, says, t
        <4>2. QED BY <4>1 DEF And, Int01
      <3>2. CASE c.op = "none"
        <4>1. after[k].cond = And(t.cond, Not(b)) /\ (b = 0 <=> says(k)) BY <2>5, <2>6, <3>2
        <4> HIDE DEF b, says, t
        <4>2. QED BY <4>1 DEF And, Not, Int01
      <3>3. QED BY <3>1, <3>2
    <2>8. t.cond # 0 <=> \A j \in 1 .. k - 1 : says(j) BY <1>8
    <2>9. (\A j \in 1 .. k : says(j)) <=> (\A j \in 1 .. k - 1 : says(j)) /\ says(k)
      <3>1. \A j \in 1 .. k : j = k \/ j \in 1 .. k - 1 OBVIOUS
      <3>2. k \in 1 .. k /\ \A j \in 1 .. k - 1 : j \in 1 .. k OBVIOUS
      <3> HIDE DEF says
      <3>3. QED BY <3>1, <3>2
    <2>10. k \in 0 .. m BY <1>6
    <2> HIDE DEF says, t
    <2>11. QED BY <2>7, <2>8, <2>9, <2>10
  <1>9. m \in P
    <2> HIDE DEF P, m
    <2>1. \A k \in 0 .. m : k \in P BY <1>6, <1>7, <1>8, UpTo
    <2>2. QED BY <1>6, <2>1
  <1>10. meaning[n][c] <=> \A j \in 1 .. m : says(j)
    <2>1. meaning[n] = MeaningAt(n, meaning[n - 1]) BY <1>1, MeaningLevels
    <2>2. DOMAIN c.args = 1 .. m BY <1>2
    <2>3. CASE c.op = "all" BY <2>1, <2>2, <2>3 DEF MeaningAt
    <2>4. CASE c.op = "none" BY <2>1, <2>2, <2>4 DEF MeaningAt
    <2>5. QED BY <2>3, <2>4
  <1>11. /\ And(1, after[m].cond) \in {0, 1}
         /\ And(1, after[m].cond) # 0 <=> after[m].cond # 0
    BY DEF And, Int01
  <1>12. QED BY <1>3, <1>4, <1>9, <1>10, <1>11

LEMMA Truth == \A n \in 0 .. MaxNesting : Truthful(n)
  <1> DEFINE P == {n \in 0 .. MaxNesting : Truthful(n)}
  <1>1. 0 \in P
    <2>1. Truthful(0) BY TruthOfLeaf, Levels, NestingAssumption DEF Truthful
    <2>2. QED BY <2>1, NestingAssumption
  <1>2. ASSUME NEW n \in 1 .. MaxNesting, n - 1 \in P PROVE n \in P
    <2>1. n \in 0 .. MaxNesting /\ Truthful(n - 1) BY <1>2
    <2>2. ASSUME NEW c \in Criterion[n], NEW s \in State, sound[n][c],
                 declares[n][c] => s.un = 1
          PROVE  LET un == CRI_ASSERT_SPECIFIER[n][c][s].un
                 IN  /\ un # 0 <=> meaning[n][c]
                     /\ IF IsValue(c) THEN un = c.val ELSE un \in {0, 1}
      <3>1. CASE c \in Leaf BY <2>1, <2>2, <3>1, TruthOfLeaf
      <3>2. CASE c \notin Leaf /\ c.op = "not"
        <4>1. ~IsValue(c) BY <2>1, <3>2, Shapes
        <4>2. QED BY <2>1, <2>2, <3>2, <4>1, TruthOfNot
      <3>3. CASE c \notin Leaf /\ c.op \in Groups
        <4>1. ~IsValue(c) /\ c.op # "not" BY <2>1, <3>3, Shapes
        <4>2. declares[n] = DeclaresAt(n, declares[n - 1]) /\ sound[n] = SoundAt(n, sound[n - 1])
          BY <2>1, DeclaresLevels, SoundLevels
        <4>3. declares[n][c] BY <3>3, <4>1, <4>2 DEF DeclaresAt
        <4>4. c.op # "any" BY <2>2, <4>2 DEF SoundAt
        <4>5. c.op \in {"all", "none"} BY <3>3, <4>4 DEF Groups
        <4>6. QED BY <2>1, <2>2, <4>1, <4>3, <4>5, TruthOfGroup
      <3>4. QED BY <2>1, <3>1, <3>2, <3>3, Shapes
    <2>3. Truthful(n) BY <2>2 DEF Truthful
    <2>4. QED BY <2>1, <2>3
  <1>3. \A n \in 0 .. MaxNesting : n \in P
    <2> HIDE DEF P
    <2>1. QED BY <1>1, <1>2, UpTo, NestingAssumption
  <1>4. QED BY <1>3

----------------------------------------------------------------------------
(* The assertion of a criterion.                                           *)

Root == [expect |-> 1, un |-> 1, cond |-> 1, def |-> 1,
         node |-> 0, prev |-> 0, nodes |-> <<>>]

LEMMA Call ==
    ASSUME NEW c \in Criterion[MaxNesting]
    PROVE  LET s == InAll(Root, c)
               end == CRI_ASSERT_CALL(c)
           IN  /\ s \in State /\ s.un = first(c, Root)
               /\ end = CRI_ASSERT_SPECIFIER[MaxNesting][c][s]
               /\ end \in State /\ end.expect = 1
  <1> DEFINE s == InAll(Root, c)
  <1>1. Root \in State BY DEF Root, State
  <1>2. Same(Root, s) /\ s.un = first(c, Root) BY <1>1, InsideAll
  <1>3. Root.expect = 1 BY DEF Root
  <1>4. CRI_ASSERT_CALL(c) = CRI_ASSERT_SPECIFIER[MaxNesting][c][s]
    BY DEF CRI_ASSERT_CALL, InAll, Root
  <1> HIDE DEF s
  <1>5. MaxNesting \in 0 .. MaxNesting BY NestingAssumption
  <1>6. s \in State /\ s.expect = 1 BY <1>2, <1>3 DEF Same
  <1>7. Same(s, CRI_ASSERT_SPECIFIER[MaxNesting][c][s])
    BY <1>5, <1>6, Expansions DEF Expands
  <1>8. QED BY <1>2, <1>4, <1>6, <1>7 DEF Same, s

LEMMA CallMeans ==
    ASSUME NEW c \in Criterion[MaxNesting], SoundRoot(c)
    PROVE  LET end == CRI_ASSERT_CALL(c) IN end.un = end.expect <=> Meaning(c)
  <1> DEFINE n == MaxNesting
             s == InAll(Root, c)
             end == CRI_ASSERT_CALL(c)
             un == CRI_ASSERT_SPECIFIER[n][c][s].un
  <1>1. n \in 0 .. n BY NestingAssumption
  <1>2. /\ s \in State /\ s.un = first(c, Root) /\ end.un = un /\ end.expect = 1
    <2> HIDE DEF s, end
    <2>1. QED BY Call DEF s, end
  <1>3. sound[n][c] BY DEF SoundRoot, Sound
  <1>4. declares[n][c] => s.un = 1
    <2>1. Root \in State /\ Root.def = 1 BY DEF Root, State
    <2>2. declares[n][c] => first(c, Root) = 1 BY <1>1, <1>3, <2>1, FirstSound
    <2>3. QED BY <1>2, <2>2
  <1> HIDE DEF s, end
  <1>5. /\ un # 0 <=> meaning[n][c]
        /\ IF IsValue(c) THEN un = c.val ELSE un \in {0, 1}
    BY <1>1, <1>2, <1>3, <1>4, Truth DEF Truthful
  <1>6. un \in {0, 1} BY <1>5 DEF SoundRoot
  <1>7. QED BY <1>2, <1>5, <1>6 DEF end, Meaning

\* A comparison holds when its leaf says so.
LEMMA CallCompares ==
    ASSUME NEW c \in Criterion[MaxNesting], "vals" \in DOMAIN c
    PROVE  /\ c \in Scalar
           /\ LET end == CRI_ASSERT_CALL(c)
              IN  end.un = end.expect <=> tagged(c, c.vals[1], c.vals[2])
  <1> DEFINE n == MaxNesting
             s == InAll(Root, c)
             end == CRI_ASSERT_CALL(c)
             inner == IF n = 0 THEN <<>> ELSE CRI_ASSERT_SPECIFIER[n - 1]
  <1>1. n \in 0 .. n /\ (n # 0 => n - 1 \in 0 .. n) BY NestingAssumption
  <1>2. c \in Leaf BY <1>1, Shapes
  <1>3. c \in Scalar /\ ~IsValue(c) /\ ~IsArray(c) /\ ~IsThrow(c) BY <1>2, Kinds
  <1>4. n # 0 => Expands(inner, Criterion[n - 1]) BY <1>1, Expansions
  <1>5. s \in State /\ end = CRI_ASSERT_SPECIFIER[n][c][s] /\ end.expect = 1
    <2> HIDE DEF s, end
    <2>1. QED BY Call DEF s, end
  <1> HIDE DEF s, end
  <1>6. end = expanded(inner, c, s) BY <1>1, <1>5, Expansions
  <1> HIDE DEF inner
  <1>7. end.un = Int01(Comes(c)) BY <1>1, <1>2, <1>3, <1>4, <1>5, <1>6, ExpandedOne
  <1>8. Comes(c) = tagged(c, c.vals[1], c.vals[2]) BY <1>3 DEF Comes
  <1>9. end.un = 1 <=> Comes(c) BY <1>7 DEF Int01
  <1>10. QED BY <1>3, <1>5, <1>8, <1>9 DEF end

----------------------------------------------------------------------------
(* The room for the results.                                               *)

\* One more of a count.
LEMMA CountOne ==
    ASSUME NEW m \in Nat, NEW S
    PROVE  LET C(k) == Cardinality({j \in 1 .. k : j \in S})
           IN  /\ C(m) \in Nat
               /\ C(m + 1) = IF m + 1 \in S THEN C(m) + 1 ELSE C(m)
  <1> DEFINE A == {j \in 1 .. m : j \in S}
             B == {j \in 1 .. m + 1 : j \in S}
  <1>1. IsFiniteSet(A)
    <2>1. IsFiniteSet(1 .. m) BY FS_Interval
    <2>2. QED BY <2>1, FS_Subset
  <1>2. Cardinality(A) \in Nat BY <1>1, FS_CardinalityType
  <1>3. \A j \in 1 .. m + 1 : j = m + 1 \/ j \in 1 .. m OBVIOUS
  <1>4. CASE m + 1 \in S
    <2>1. B = A \cup {m + 1} BY <1>3, <1>4
    <2>2. m + 1 \notin A OBVIOUS
    <2> HIDE DEF A, B
    <2>3. Cardinality(B) = Cardinality(A) + 1 BY <1>1, <2>1, <2>2, FS_AddElement
    <2>4. QED BY <1>2, <1>4, <2>3 DEF A, B
  <1>5. CASE m + 1 \notin S
    <2>1. B = A BY <1>3, <1>5
    <2>2. QED BY <1>2, <1>5, <2>1
  <1>6. QED BY <1>4, <1>5

LEMMA ResultsCounted ==
    ASSUME NEW nodes \in Seq(Node)
    PROVE  Len(collect_leaves(nodes)) <= leaf_count(nodes)
  <1> DEFINE m == Len(nodes)
             U == Seq(Criterion[MaxNesting])
             S == {n \in DOMAIN nodes : ~nodes[n].pass}
             count(k) == Cardinality({j \in 1 .. k : j \in S})
             reported(n) == /\ nodes[n].params /\ ~nodes[n].pass
                            /\ \A k \in above(nodes, n) : ~nodes[k].pass /\ ~nodes[k].params
             next(n, w) == IF reported(n) THEN Append(w, nodes[n].of) ELSE w
             Body(f) == [n \in 0 .. m |->
                            IF n = 0 THEN <<>>
                            ELSE IF reported(n) THEN Append(f[n - 1], nodes[n].of)
                            ELSE f[n - 1]]
             written == CHOOSE f : f = Body(f)
             T == [k \in 0 .. m |-> U]
             step == [k \in 1 .. m |-> [w \in U |-> next(k, w)]]
  <1>1. m \in Nat /\ DOMAIN nodes = 1 .. m
        /\ \A k \in 1 .. m : nodes[k] \in Node /\ nodes[k].of \in Criterion[MaxNesting]
    <2>1. m \in Nat /\ DOMAIN nodes = 1 .. m OBVIOUS
    <2>2. \A k \in 1 .. m : nodes[k] \in Node OBVIOUS
    <2>3. ASSUME NEW x \in Node PROVE x.of \in Criterion[MaxNesting] BY DEF Node
    <2> HIDE DEF m
    <2>4. QED BY <2>1, <2>2, <2>3
  <1>2. ASSUME NEW k \in 1 .. m, NEW w \in U
        PROVE  /\ next(k, w) \in U
               /\ Len(next(k, w)) <= IF k \in S THEN Len(w) + 1 ELSE Len(w)
    <2>1. nodes[k].of \in Criterion[MaxNesting] BY <1>1
    <2>2. CASE reported(k)
      <3>1. k \in S BY <1>1, <2>2
      <3>2. next(k, w) = Append(w, nodes[k].of) BY <2>2
      <3> DEFINE x == nodes[k].of
      <3>3. x \in Criterion[MaxNesting] BY <2>1
      <3> HIDE DEF x
      <3>4. Append(w, x) \in U /\ Len(Append(w, x)) = Len(w) + 1 /\ Len(w) \in Nat BY <3>3
      <3> HIDE DEF next, S, U
      <3>5. next(k, w) = Append(w, x) BY <3>2 DEF x
      <3>6. QED BY <3>1, <3>4, <3>5
    <2>3. CASE ~reported(k)
      <3>1. next(k, w) = w BY <2>3
      <3>2. Len(w) \in Nat OBVIOUS
      <3> HIDE DEF next, S, U
      <3>3. QED BY <3>1, <3>2
    <2>4. QED BY <2>2, <2>3
  <1> HIDE DEF U
  <1>3. <<>> \in U BY DEF U
  <1>4. PICK f : Iteration(f, m, T, <<>>, step)
    <2> HIDE DEF next
    <2>1. <<>> \in T[0] BY <1>1, <1>3
    <2>2. Typed(m, T, step) BY <1>1, <1>2 DEF Typed
    <2> DEFINE init == <<>>
    <2>3. init \in T[0] BY <2>1
    <2> HIDE DEF T, step, m, init
    <2>4. \E f : Iteration(f, m, T, init, step) BY <1>1, <2>2, <2>3, Iterated
    <2>5. QED BY <2>4 DEF init
  <1>5. f = Body(f)
    <2>1. ASSUME NEW n \in 1 .. m PROVE f[n] = next(n, f[n - 1])
      <3> HIDE DEF next
      <3>1. n - 1 \in 0 .. m BY <1>1
      <3>2. f[n - 1] \in U BY <1>4, <3>1 DEF Iteration
      <3>3. step[n][f[n - 1]] = next(n, f[n - 1]) BY <3>2
      <3>4. QED BY <1>4, <3>3 DEF Iteration
    <2>2. \A n \in 0 .. m : n # 0 => n \in 1 .. m BY <1>1
    <2> HIDE DEF next, m
    <2>3. \A n \in 0 .. m : f[n] = IF n = 0 THEN <<>> ELSE next(n, f[n - 1])
      BY <1>4, <2>1, <2>2 DEF Iteration
    <2>4. f = [n \in 0 .. m |-> IF n = 0 THEN <<>> ELSE next(n, f[n - 1])]
      BY <1>4, <2>3 DEF Iteration
    <2>5. QED BY <2>4 DEF next
  <1>6. written = Body(written) BY <1>5
  <1>7. collect_leaves(nodes) = written[m] BY DEF collect_leaves
  <1> HIDE DEF written
  <1>8. written[0] = <<>> /\ \A n \in 1 .. m : written[n] = next(n, written[n - 1])
    <2>1. 0 \in 0 .. m /\ \A n \in 1 .. m : n \in 0 .. m /\ n # 0 BY <1>1
    <2>2. written = [n \in 0 .. m |-> IF n = 0 THEN <<>> ELSE next(n, written[n - 1])]
      BY <1>6
    <2> HIDE DEF m, next
    <2>3. \A n \in 0 .. m : written[n] = IF n = 0 THEN <<>> ELSE next(n, written[n - 1])
      BY <2>2
    <2>4. QED BY <2>1, <2>3
  <1> DEFINE P == {k \in 0 .. m : written[k] \in U /\ Len(written[k]) <= count(k)}
  <1> HIDE DEF next, S
  <1>9. 0 \in P
    <2>1. count(0) \in Nat
      <3>1. {j \in 1 .. 0 : j \in S} = {} OBVIOUS
      <3>2. QED BY <3>1, FS_EmptySet
    <2>2. QED BY <1>1, <1>3, <1>8, <2>1
  <1>10. ASSUME NEW k \in 1 .. m, k - 1 \in P PROVE k \in P
    <2>1. k - 1 \in Nat /\ k - 1 + 1 = k BY <1>1
    <2>2. /\ count(k - 1) \in Nat
          /\ count(k) = IF k \in S THEN count(k - 1) + 1 ELSE count(k - 1)
      <3> DEFINE l == k - 1
      <3>1. l \in Nat /\ l + 1 = k BY <2>1
      <3> HIDE DEF l
      <3>2. count(l) \in Nat /\ count(l + 1) = IF l + 1 \in S THEN count(l) + 1 ELSE count(l)
        BY <3>1, CountOne
      <3>3. QED BY <3>1, <3>2 DEF l
    <2>3. written[k - 1] \in U /\ Len(written[k - 1]) <= count(k - 1) BY <1>10
    <2>4. Len(written[k - 1]) \in Nat BY <2>3 DEF U
    <2>5. /\ written[k] \in U
          /\ Len(written[k]) <= IF k \in S THEN Len(written[k - 1]) + 1 ELSE Len(written[k - 1])
      BY <1>2, <1>8, <2>3
    <2>6. Len(written[k]) \in Nat BY <2>5 DEF U
    <2> HIDE DEF count
    <2>7. Len(written[k]) <= count(k) BY <2>2, <2>3, <2>4, <2>5, <2>6
    <2>8. k \in 0 .. m BY <1>1
    <2>9. QED BY <2>5, <2>7, <2>8
  <1>11. m \in P
    <2> HIDE DEF P, m
    <2>1. \A k \in 0 .. m : k \in P BY <1>1, <1>9, <1>10, UpTo
    <2>2. QED BY <1>1, <2>1
  <1>12. leaf_count(nodes) = count(m)
    <2>1. {j \in 1 .. m : j \in S} = S BY <1>1 DEF S
    <2>2. QED BY <2>1 DEF leaf_count, S
  <1>13. QED BY <1>7, <1>11, <1>12
----------------------------------------------------------------------------
(* Orderings.                                                              *)

\* Of an operator and its opposite exactly one holds.
LEMMA OrderedOpposite ==
    ASSUME NEW op \in Ops, NEW d \in Int
    PROVE  /\ Opposite[op] \in Ops
           /\ ordered(op, d) \in BOOLEAN /\ ordered(Opposite[op], d) \in BOOLEAN
           /\ ordered(Opposite[op], d) <=> ~ordered(op, d)
  <1>1. CASE op = "=="
    <2>1. Opposite[op] = "!=" BY <1>1 DEF Opposite, Ops
    <2>2. QED BY <1>1, <2>1 DEF ordered, Ops
  <1>2. CASE op = "!="
    <2>1. Opposite[op] = "==" BY <1>2 DEF Opposite, Ops
    <2>2. QED BY <1>2, <2>1 DEF ordered, Ops
  <1>3. CASE op = "<"
    <2>1. Opposite[op] = ">=" BY <1>3 DEF Opposite, Ops
    <2>2. QED BY <1>3, <2>1 DEF ordered, Ops
  <1>4. CASE op = "<="
    <2>1. Opposite[op] = ">" BY <1>4 DEF Opposite, Ops
    <2>2. QED BY <1>4, <2>1 DEF ordered, Ops
  <1>5. CASE op = ">"
    <2>1. Opposite[op] = "<=" BY <1>5 DEF Opposite, Ops
    <2>2. QED BY <1>5, <2>1 DEF ordered, Ops
  <1>6. CASE op = ">="
    <2>1. Opposite[op] = "<" BY <1>6 DEF Opposite, Ops
    <2>2. QED BY <1>6, <2>1 DEF ordered, Ops
  <1>7. QED BY <1>1, <1>2, <1>3, <1>4, <1>5, <1>6 DEF Ops

\* An operand that is a number, or NaN.
LEMMA NumberOf ==
    ASSUME NEW x \in Seq(Seq(Int)), Len(x) <= 1, \A k \in DOMAIN x : Len(x[k]) = 1
    PROVE  IF x = <<>> THEN number(x) = <<>> ELSE number(x) # <<>> /\ number(x)[1] \in Int
  <1>1. CASE x = <<>> BY <1>1 DEF number
  <1>2. CASE x # <<>>
    <2>1. DOMAIN x = 1 .. Len(x) /\ Len(x) \in Nat OBVIOUS
    <2>2. Len(x) = 1 BY <1>2, <2>1
    <2>3. 1 \in DOMAIN x BY <2>1, <2>2
    <2>4. x[1] \in Seq(Int) /\ Len(x[1]) = 1 BY <2>3
    <2>5. x[1][1] \in Int BY <2>4
    <2>6. number(x)[1] = x[1][1] /\ DOMAIN number(x) = DOMAIN x BY <2>3 DEF number
    <2>7. number(x) # <<>> BY <2>3, <2>6
    <2>8. QED BY <1>2, <2>5, <2>6, <2>7
  <1>3. QED BY <1>1, <1>2

----------------------------------------------------------------------------
(* The macros of internal/assert.h.                                        *)

Reversed(x) == [x EXCEPT !.op = Opposite[@]]
BothThere(x) == x.a # <<>> /\ x.b # <<>>

\* The operands of a legacy assertion.
LEMMA LegacyFields ==
    ASSUME NEW x \in LegacyAssertion
    PROVE  /\ x.op \in Ops /\ x.n \in Nat
           /\ x.a \in Seq(Seq(Int)) /\ x.b \in Seq(Seq(Int))
           /\ x.family \in {"op", "null", "float", "empty", "str", "wempty", "wcs", "mem", "arr"}
           /\ x.family \in {"null", "float", "empty", "wempty", "mem"} => x.op \in {"==", "!="}
           /\ x.family \in {"op", "float"} =>
                /\ Len(x.a) <= 1 /\ \A k \in DOMAIN x.a : Len(x.a[k]) = 1
                /\ Len(x.b) <= 1 /\ \A k \in DOMAIN x.b : Len(x.b[k]) = 1
           /\ x.family \in {"mem", "arr"} =>
                BothThere(x) /\ x.n <= Len(x.a[1]) /\ x.n <= Len(x.b[1])
           /\ x.family \in {"empty", "wempty"} => x.b = x.a
  <1> DEFINE m == [fatal |-> x.fatal, family |-> x.family, op |-> x.op]
  <1>1. /\ x.op \in Ops /\ x.n \in Nat
        /\ x.a \in Seq(Seq(Int)) /\ x.b \in Seq(Seq(Int))
    BY DEF LegacyAssertion
  <1>2. m \in legacy_macros BY DEF LegacyAssertion
  <1>3. /\ m.family \in {"op", "null", "float", "empty", "str", "wempty", "wcs", "mem", "arr"}
        /\ m.family \in {"null", "float", "empty", "wempty", "mem"} => m.op \in {"==", "!="}
    <2> HIDE DEF m
    <2>1. CASE m \in [fatal : BOOLEAN, family : {"op", "str", "wcs", "arr"}, op : Ops] BY <2>1
    <2>2. CASE m \in [fatal : BOOLEAN, family : {"null", "float", "empty", "wempty", "mem"},
                      op : {"==", "!="}]
      BY <2>2
    <2>3. QED BY <1>2, <2>1, <2>2 DEF legacy_macros
  <1>4. ASSUME x.family \in {"op", "float"}
        PROVE  /\ Len(x.a) <= 1 /\ \A k \in DOMAIN x.a : Len(x.a[k]) = 1
               /\ Len(x.b) <= 1 /\ \A k \in DOMAIN x.b : Len(x.b[k]) = 1
    BY <1>4 DEF LegacyAssertion
  <1>5. ASSUME x.family \in {"mem", "arr"}
        PROVE  BothThere(x) /\ x.n <= Len(x.a[1]) /\ x.n <= Len(x.b[1])
    BY <1>5 DEF LegacyAssertion, BothThere
  <1>6. ASSUME x.family \in {"empty", "wempty"} PROVE x.b = x.a
    BY <1>6 DEF LegacyAssertion
  <1>7. QED BY <1>1, <1>3, <1>4, <1>5, <1>6

\* Of a comparison of two blocks and its opposite exactly one holds.
LEMMA CmpOpposite ==
    ASSUME NEW op \in Ops, NEW a \in Seq(Int), NEW b \in Seq(Int)
    PROVE  /\ ordered(op, cmp(a, b)) \in BOOLEAN
           /\ ordered(Opposite[op], cmp(a, b)) \in BOOLEAN
           /\ ordered(Opposite[op], cmp(a, b)) <=> ~ordered(op, cmp(a, b))
  BY CmpOrders, OrderedOpposite

\* The first items of a block.
LEMMA Cut ==
    ASSUME NEW a \in Seq(Int), NEW n \in Nat, n <= Len(a)
    PROVE  SubSeq(a, 1, n) \in Seq(Int)
  <1>1. DOMAIN a = 1 .. Len(a) /\ \A k \in DOMAIN a : a[k] \in Int OBVIOUS
  <1>2. \A k \in 1 .. n : k \in DOMAIN a BY <1>1
  <1>3. QED BY <1>1, <1>2

\* The condition of each family, and of its opposite.
OppositesOf(x) ==
    LET this == legacy_holds(x)
        other == legacy_holds(Reversed(x))
    IN  /\ this \in BOOLEAN /\ other \in BOOLEAN
        /\ IF BothThere(x) THEN other <=> ~this
           ELSE this <=> x.family = "op" /\ x.op = "!="

LEMMA ReversedFields ==
    ASSUME NEW x \in LegacyAssertion
    PROVE  /\ Reversed(x).family = x.family /\ Reversed(x).n = x.n
           /\ Reversed(x).a = x.a /\ Reversed(x).b = x.b
           /\ Reversed(x).op = Opposite[x.op]
  <1>1. "op" \in DOMAIN x BY DEF LegacyAssertion
  <1>2. x = [k \in DOMAIN x |-> x[k]] BY DEF LegacyAssertion
  <1>3. {"family", "n", "a", "b"} \subseteq DOMAIN x BY DEF LegacyAssertion
  <1>4. QED BY <1>1, <1>2, <1>3 DEF Reversed

LEMMA OppositeNumbers ==
    ASSUME NEW x \in LegacyAssertion, x.family = "op" PROVE OppositesOf(x)
  <1> DEFINE y == Reversed(x)
             a == number(x.a)
             b == number(x.b)
  <1>1. /\ legacy_holds(x) = compared(x.op, a, b)
        /\ legacy_holds(y) = compared(Opposite[x.op], a, b)
    <2>1. y.family = "op" /\ y.a = x.a /\ y.b = x.b /\ y.op = Opposite[x.op] BY ReversedFields
    <2> HIDE DEF y
    <2>2. QED BY <2>1 DEF legacy_holds, cr_assert_op_
  <1>2. x.op \in Ops BY LegacyFields
  <1>3. Opposite[x.op] \in Ops BY <1>2, OrderedOpposite, 0 \in Int
  <1>4. /\ IF x.a = <<>> THEN a = <<>> ELSE a # <<>> /\ a[1] \in Int
        /\ IF x.b = <<>> THEN b = <<>> ELSE b # <<>> /\ b[1] \in Int
    BY LegacyFields, NumberOf
  <1> HIDE DEF y, a, b
  <1>5. legacy_holds(x) \in BOOLEAN /\ legacy_holds(y) \in BOOLEAN
    BY <1>1, <1>2, <1>3, ComparedBoolean
  <1>6. CASE ~BothThere(x)
    <2>1. a = <<>> \/ b = <<>> BY <1>4, <1>6 DEF BothThere
    <2>2. legacy_holds(x) <=> x.op = "!=" BY <1>1, <2>1 DEF compared
    <2>3. QED BY <1>5, <1>6, <2>2 DEF OppositesOf, y
  <1>7. CASE BothThere(x)
    <2> DEFINE d == a[1] - b[1]
    <2>1. a # <<>> /\ b # <<>> /\ d \in Int BY <1>4, <1>7 DEF BothThere
    <2>2. legacy_holds(x) = ordered(x.op, d) /\ legacy_holds(y) = ordered(Opposite[x.op], d)
      BY <1>1, <2>1 DEF compared
    <2> HIDE DEF d
    <2>3. ordered(Opposite[x.op], d) <=> ~ordered(x.op, d) BY <1>2, <2>1, OrderedOpposite
    <2>4. legacy_holds(y) <=> ~legacy_holds(x) BY <2>2, <2>3
    <2>5. QED BY <1>5, <1>7, <2>4 DEF OppositesOf, y
  <1>8. QED BY <1>6, <1>7

LEMMA OppositeFloats ==
    ASSUME NEW x \in LegacyAssertion, x.family = "float" PROVE OppositesOf(x)
  <1> DEFINE y == Reversed(x)
             a == number(x.a)
             b == number(x.b)
             n == x.n
             eq == cr_assert_float_eq_op_(a, b, <<n>>)
             ne == cr_assert_float_neq_op_(a, b, <<n>>)
  <1>1. x.op \in {"==", "!="} /\ n \in Nat BY LegacyFields
  <1>2. /\ legacy_holds(x) = IF x.op = "==" THEN eq ELSE ne
        /\ legacy_holds(y) = IF x.op = "==" THEN ne ELSE eq
    <2>1. /\ y.family = "float" /\ y.a = x.a /\ y.b = x.b /\ y.n = x.n
          /\ y.op = Opposite[x.op]
      BY ReversedFields
    <2>2. Opposite[x.op] = IF x.op = "==" THEN "!=" ELSE "==" BY <1>1 DEF Opposite, Ops
    <2> HIDE DEF y
    <2>3. legacy_holds(x) = IF x.op = "==" THEN eq ELSE ne BY DEF legacy_holds
    <2>4. legacy_holds(y) = IF y.op = "==" THEN eq ELSE ne BY <2>1 DEF legacy_holds
    <2>5. QED BY <2>1, <2>2, <2>3, <2>4
  <1>3. /\ IF x.a = <<>> THEN a = <<>> ELSE a # <<>> /\ a[1] \in Int
        /\ IF x.b = <<>> THEN b = <<>> ELSE b # <<>> /\ b[1] \in Int
    BY LegacyFields, NumberOf
  <1>4. BothThere(x) <=> a # <<>> /\ b # <<>> BY <1>3 DEF BothThere
  <1> HIDE DEF a, b, n
  <1>5. /\ eq \in BOOLEAN /\ ne \in BOOLEAN
        /\ IF a # <<>> /\ b # <<>> THEN ne <=> ~eq ELSE ~ne /\ ~eq
    <2>1. n \in Nat /\ (a # <<>> => a[1] \in Int) /\ (b # <<>> => b[1] \in Int) BY <1>1, <1>3
    <2>2. QED BY <2>1, FloatOpposite
  <1> HIDE DEF y, eq, ne
  <1>6. CASE x.op = "==" BY <1>2, <1>4, <1>5, <1>6 DEF OppositesOf, y
  <1>7. CASE x.op # "==" BY <1>2, <1>4, <1>5, <1>7 DEF OppositesOf, y
  <1>8. QED BY <1>6, <1>7

LEMMA OppositeEmpties ==
    ASSUME NEW x \in LegacyAssertion, x.family \in {"empty", "wempty"} PROVE OppositesOf(x)
  <1> DEFINE y == Reversed(x)
             empty == x.a[1] = <<>>
  <1>1. x.op \in {"==", "!="} /\ x.b = x.a BY LegacyFields
  <1>2. /\ legacy_holds(x) = (x.a # <<>> /\ (empty <=> (x.op = "==")))
        /\ legacy_holds(y) = (x.a # <<>> /\ (empty <=> (x.op # "==")))
    <2>1. y.family = x.family /\ y.a = x.a /\ y.op = Opposite[x.op] BY ReversedFields
    <2>2. (Opposite[x.op] = "==") = (x.op # "==") BY <1>1 DEF Opposite, Ops
    <2> HIDE DEF y
    <2>3. CASE x.family = "empty"
      <3>1. y.family = "empty" BY <2>1, <2>3
      <3>2. /\ legacy_holds(x) = cr_assert_str_op_empty_(x.op, x.a)
            /\ legacy_holds(y) = cr_assert_str_op_empty_(y.op, y.a)
        BY <2>3, <3>1 DEF legacy_holds
      <3>3. QED BY <2>1, <2>2, <3>2 DEF cr_assert_str_op_empty_
    <2>4. CASE x.family = "wempty"
      <3>1. y.family = "wempty" BY <2>1, <2>4
      <3>2. /\ legacy_holds(x) = cr_assert_wcs_op_empty_(x.op, x.a)
            /\ legacy_holds(y) = cr_assert_wcs_op_empty_(y.op, y.a)
        BY <2>4, <3>1 DEF legacy_holds
      <3>3. QED BY <2>1, <2>2, <3>2 DEF cr_assert_wcs_op_empty_
    <2>5. QED BY <2>3, <2>4
  <1> HIDE DEF y, empty
  <1>3. legacy_holds(x) \in BOOLEAN /\ legacy_holds(y) \in BOOLEAN BY <1>2
  <1>4. x.family # "op" OBVIOUS
  <1>5. CASE x.a = <<>> BY <1>1, <1>2, <1>3, <1>4, <1>5 DEF OppositesOf, BothThere, y
  <1>6. CASE x.a # <<>>
    <2>1. legacy_holds(y) <=> ~legacy_holds(x) BY <1>2, <1>6
    <2>2. QED BY <1>1, <1>3, <1>6, <2>1 DEF OppositesOf, BothThere, y
  <1>7. QED BY <1>5, <1>6

LEMMA OppositeStrings ==
    ASSUME NEW x \in LegacyAssertion, x.family \in {"str", "wcs"} PROVE OppositesOf(x)
  <1> DEFINE y == Reversed(x)
             o(op) == ordered(op, cmp(x.a[1], x.b[1]))
  <1>1. /\ legacy_holds(x) = (x.a # <<>> /\ x.b # <<>> /\ o(x.op))
        /\ legacy_holds(y) = (x.a # <<>> /\ x.b # <<>> /\ o(Opposite[x.op]))
    <2>1. y.family = x.family /\ y.a = x.a /\ y.b = x.b /\ y.op = Opposite[x.op]
      BY ReversedFields
    <2> HIDE DEF y
    <2>2. CASE x.family = "str"
      <3>1. y.family = "str" BY <2>1, <2>2
      <3>2. /\ legacy_holds(x) = cr_assert_str_op_(x.op, x.a, x.b)
            /\ legacy_holds(y) = cr_assert_str_op_(y.op, y.a, y.b)
        BY <2>2, <3>1 DEF legacy_holds
      <3>3. QED BY <2>1, <3>2 DEF cr_assert_str_op_
    <2>3. CASE x.family = "wcs"
      <3>1. y.family = "wcs" BY <2>1, <2>3
      <3>2. /\ legacy_holds(x) = cr_assert_wcs_op_(x.op, x.a, x.b)
            /\ legacy_holds(y) = cr_assert_wcs_op_(y.op, y.a, y.b)
        BY <2>3, <3>1 DEF legacy_holds
      <3>3. QED BY <2>1, <3>2 DEF cr_assert_wcs_op_
    <2>4. QED BY <2>2, <2>3
  <1>2. legacy_holds(x) \in BOOLEAN /\ legacy_holds(y) \in BOOLEAN
    <2> HIDE DEF y, o
    <2>1. QED BY <1>1
  <1>3. x.family # "op" OBVIOUS
  <1>4. CASE ~BothThere(x)
    <2>1. ~legacy_holds(x) BY <1>1, <1>4 DEF BothThere
    <2>2. QED BY <1>2, <1>3, <1>4, <2>1 DEF OppositesOf, y
  <1>5. CASE BothThere(x)
    <2>1. x.op \in Ops /\ x.a \in Seq(Seq(Int)) /\ x.b \in Seq(Seq(Int)) BY LegacyFields
    <2>2. x.a[1] \in Seq(Int) /\ x.b[1] \in Seq(Int) BY <1>5, <2>1 DEF BothThere
    <2>3. o(Opposite[x.op]) <=> ~o(x.op) BY <2>1, <2>2, CmpOpposite
    <2> HIDE DEF y, o
    <2>4. legacy_holds(y) <=> ~legacy_holds(x) BY <1>1, <1>5, <2>3 DEF BothThere
    <2>5. QED BY <1>2, <1>5, <2>4 DEF OppositesOf, y
  <1>6. QED BY <1>4, <1>5

LEMMA OppositeBlocks ==
    ASSUME NEW x \in LegacyAssertion, x.family \in {"mem", "arr"} PROVE OppositesOf(x)
  <1> DEFINE y == Reversed(x)
             a == SubSeq(x.a[1], 1, x.n)
             b == SubSeq(x.b[1], 1, x.n)
             o(op) == ordered(op, cmp(a, b))
  <1>1. legacy_holds(x) = o(x.op) /\ legacy_holds(y) = o(Opposite[x.op])
    <2>1. /\ y.family = x.family /\ y.a = x.a /\ y.b = x.b /\ y.n = x.n
          /\ y.op = Opposite[x.op]
      BY ReversedFields
    <2> HIDE DEF y
    <2>2. CASE x.family = "mem"
      <3>1. y.family = "mem" BY <2>1, <2>2
      <3>2. /\ legacy_holds(x) = cr_assert_mem_op_(x.op, x.a[1], x.b[1], x.n)
            /\ legacy_holds(y) = cr_assert_mem_op_(y.op, y.a[1], y.b[1], y.n)
        BY <2>2, <3>1 DEF legacy_holds
      <3>3. QED BY <2>1, <3>2 DEF cr_assert_mem_op_
    <2>3. CASE x.family = "arr"
      <3>1. y.family = "arr" BY <2>1, <2>3
      <3>2. /\ legacy_holds(x) = cr_assert_arr_op_cmp_(x.op, x.a[1], x.b[1], x.n)
            /\ legacy_holds(y) = cr_assert_arr_op_cmp_(y.op, y.a[1], y.b[1], y.n)
        BY <2>3, <3>1 DEF legacy_holds
      <3>3. QED BY <2>1, <3>2 DEF cr_assert_arr_op_cmp_
    <2>4. QED BY <2>2, <2>3
  <1>2. /\ x.op \in Ops /\ x.n \in Nat
        /\ x.a \in Seq(Seq(Int)) /\ x.b \in Seq(Seq(Int))
        /\ BothThere(x) /\ x.n <= Len(x.a[1]) /\ x.n <= Len(x.b[1])
    BY LegacyFields
  <1>3. x.a[1] \in Seq(Int) /\ x.b[1] \in Seq(Int) BY <1>2 DEF BothThere
  <1>4. a \in Seq(Int) /\ b \in Seq(Int) BY <1>2, <1>3, Cut
  <1> HIDE DEF y, a, b
  <1>5. /\ o(x.op) \in BOOLEAN /\ o(Opposite[x.op]) \in BOOLEAN
        /\ o(Opposite[x.op]) <=> ~o(x.op)
    BY <1>2, <1>4, CmpOpposite
  <1> HIDE DEF o
  <1>6. QED BY <1>1, <1>2, <1>5 DEF OppositesOf, y

LEMMA Opposites ==
    ASSUME NEW x \in LegacyAssertion, x.family # "null" PROVE OppositesOf(x)
  <1>1. x.family \in {"op", "null", "float", "empty", "str", "wempty", "wcs", "mem", "arr"}
    BY LegacyFields
  <1>2. QED
    BY <1>1, OppositeNumbers, OppositeFloats, OppositeEmpties, OppositeStrings, OppositeBlocks
----------------------------------------------------------------------------
(* The tagged criteria.                                                    *)

\* A criterion of two operands, and the same with another operator.
LEMMA ScalarFields ==
    ASSUME NEW c \in Scalar
    PROVE  /\ c.op \in Binary \cup Close /\ c.tag \in {"native", "str", "mem"} /\ c.n \in Nat
           /\ c.op \in Close => c.tag = "native"
           /\ c.vals[1] \in Operand(c.tag) /\ c.vals[2] \in Operand(c.tag)
           /\ \A op : LET d == [c EXCEPT !.op = op]
                      IN  d.op = op /\ d.n = c.n /\ d.tag = c.tag
  <1>1. ASSUME NEW O, NEW tag, NEW n, c \in [op : O, tag : {tag}, vals : Pair(tag), n : Nat]
        PROVE  /\ c.op \in O /\ c.tag = tag /\ c.n \in Nat
               /\ c.vals[1] \in Operand(tag) /\ c.vals[2] \in Operand(tag)
               /\ \A op : LET d == [c EXCEPT !.op = op]
                          IN  d.op = op /\ d.n = c.n /\ d.tag = c.tag
    <2>1. c.op \in O /\ c.tag = tag /\ c.n \in Nat /\ c.vals \in Pair(tag) BY <1>1
    <2>2. c.vals[1] \in Operand(tag) /\ c.vals[2] \in Operand(tag) BY <2>1 DEF Pair
    <2>3. ASSUME NEW op PROVE LET d == [c EXCEPT !.op = op]
                              IN  d.op = op /\ d.n = c.n /\ d.tag = c.tag
      BY <1>1
    <2>4. QED BY <2>1, <2>2, <2>3
  <1>2. CASE c \in [op : Close, tag : {"native"}, vals : Pair("native"), n : Nat]
    BY <1>1, <1>2
  <1>3. Binary \cap Close = {} BY DEF Binary, Close
  <1>4. CASE c \in Compared("native") BY <1>1, <1>3, <1>4 DEF Compared
  <1>5. CASE c \in Compared("str") BY <1>1, <1>3, <1>5 DEF Compared
  <1>6. CASE c \in Compared("mem") BY <1>1, <1>3, <1>6 DEF Compared
  <1>7. QED BY <1>2, <1>4, <1>5, <1>6 DEF Scalar

\* Tolerances and units in the last place do not see which operand comes first.
LEMMA CloseBothWays ==
    ASSUME NEW a \in Operand("native"), NEW b \in Operand("native"), NEW n \in Nat
    PROVE  /\ CRI_EPSILON_EQ(a, b, <<n>>) \in BOOLEAN
           /\ CRI_EPSILON_EQ(b, a, <<n>>) \in BOOLEAN
           /\ CRI_EPSILON_EQ(a, b, <<n>>) <=> CRI_EPSILON_EQ(b, a, <<n>>)
           /\ ieee_ulp_eq(a, b, n) \in BOOLEAN /\ ieee_ulp_eq(b, a, n) \in BOOLEAN
           /\ ieee_ulp_eq(a, b, n) <=> ieee_ulp_eq(b, a, n)
  <1>1. (a # <<>> => a[1] \in Int) /\ (b # <<>> => b[1] \in Int) BY NativeOf
  <1>2. /\ CRI_EPSILON_EQ(a, b, <<n>>) \in BOOLEAN
        /\ CRI_EPSILON_EQ(a, b, <<n>>) <=> /\ a # <<>> /\ b # <<>>
                                           /\ b[1] - a[1] <= n /\ a[1] - b[1] <= n
        /\ CRI_EPSILON_EQ(b, a, <<n>>) \in BOOLEAN
        /\ CRI_EPSILON_EQ(b, a, <<n>>) <=> /\ b # <<>> /\ a # <<>>
                                           /\ a[1] - b[1] <= n /\ b[1] - a[1] <= n
    BY <1>1, FloatOpposite
  <1>3. ieee_ulp_eq(a, b, n) \in BOOLEAN /\ ieee_ulp_eq(b, a, n) \in BOOLEAN BY DEF ieee_ulp_eq
  <1>4. Near(a, b, n) <=> Near(b, a, n) BY DEF Near
  <1>5. ieee_ulp_eq(a, b, n) <=> ieee_ulp_eq(b, a, n) BY <1>4, UlpNear
  <1>6. QED BY <1>2, <1>3, <1>5

\* Of three, exactly one.
LEMMA OneOfThree ==
    ASSUME NEW p \in BOOLEAN, NEW q \in BOOLEAN, NEW r \in BOOLEAN,
           p \/ q \/ r, ~(p /\ q), ~(p /\ r), ~(q /\ r)
    PROVE  Cardinality({k \in 1 .. 3 : <<p, q, r>>[k]}) = 1
  <1> DEFINE S == {k \in 1 .. 3 : <<p, q, r>>[k]}
  <1>1. <<p, q, r>>[1] = p /\ <<p, q, r>>[2] = q /\ <<p, q, r>>[3] = r OBVIOUS
  <1>2. \A k : k \in S <=> (k = 1 /\ p) \/ (k = 2 /\ q) \/ (k = 3 /\ r)
    <2>1. \A k : k \in 1 .. 3 <=> k = 1 \/ k = 2 \/ k = 3 OBVIOUS
    <2>2. QED BY <1>1, <2>1
  <1> HIDE DEF S
  <1>3. \E k \in {1, 2, 3} : S = {k}
    <2>1. CASE p
      <3>1. \A k : k \in S <=> k = 1 BY <1>2, <2>1
      <3>2. S = {1} BY <3>1
      <3>3. QED BY <3>2
    <2>2. CASE q
      <3>1. \A k : k \in S <=> k = 2 BY <1>2, <2>2
      <3>2. S = {2} BY <3>1
      <3>3. QED BY <3>2
    <2>3. CASE r
      <3>1. \A k : k \in S <=> k = 3 BY <1>2, <2>3
      <3>2. S = {3} BY <3>1
      <3>3. QED BY <3>2
    <2>4. QED BY <2>1, <2>2, <2>3
  <1>4. PICK k \in {1, 2, 3} : S = {k} BY <1>3
  <1>5. Cardinality({k}) = 1 BY FS_Singleton
  <1>6. QED BY <1>4, <1>5 DEF S

\* What TagsAgree asks of a criterion.
AgreesOn(c) ==
    LET a == c.vals[1]
        b == c.vals[2]
        this == tagged(c, a, b)
        is(op, x, y) == tagged([c EXCEPT !.op = op], x, y)
        ranked == c.tag = "native" => a # <<>> /\ b # <<>>
    IN  /\ (c.op \in Orders => ranked) /\ (c.op \in {"gt", "le"} => ~is("eq", a, b)) =>
             this \in BOOLEAN /\ is(TagOpposite[c.op], a, b) = ~this
        /\ c.op \notin Orders => (this <=> is(c.op, b, a))
        /\ ranked =>
             Cardinality({k \in 1 .. 3 :
                 <<is("lt", a, b), is("lt", b, a), is("eq", a, b)>>[k]}) = 1

LEMMA Agree == ASSUME NEW c \in Scalar PROVE AgreesOn(c)
  <1> DEFINE a == c.vals[1]
             b == c.vals[2]
             n == c.n
             tag == c.tag
             this == tagged(c, a, b)
             with(op) == [c EXCEPT !.op = op]
             is(op, x, y) == tagged(with(op), x, y)
             e == isEq(tag, a, b)
             f == isEq(tag, b, a)
             l == isLt(tag, a, b)
             g == isLt(tag, b, a)
             close == CRI_EPSILON_EQ(a, b, <<n>>)
             esolc == CRI_EPSILON_EQ(b, a, <<n>>)
             ulp == ieee_ulp_eq(a, b, n)
             plu == ieee_ulp_eq(b, a, n)
             ranked == tag = "native" => a # <<>> /\ b # <<>>
  <1>1. /\ c.op \in Binary \cup Close /\ tag \in {"native", "str", "mem"} /\ n \in Nat
        /\ c.op \in Close => tag = "native"
        /\ a \in Operand(tag) /\ b \in Operand(tag)
        /\ \A op : with(op).op = op /\ with(op).n = n /\ with(op).tag = tag
    BY ScalarFields
  <1>2. /\ c.op = "eq" => this = e
        /\ c.op = "ne" => this = ~e
        /\ c.op = "lt" => this = l
        /\ c.op = "ge" => this = (~l \/ e)
        /\ c.op = "le" => this = (l \/ e)
        /\ c.op = "gt" => this = ~l
        /\ c.op = "epsilon_eq" => this = close
        /\ c.op = "epsilon_ne" => this = ~close
        /\ c.op = "ieee_ulp_eq" => this = ulp
        /\ c.op = "ieee_ulp_ne" => this = ~ulp
    BY TaggedCases
  <1> HIDE DEF with, tag, n
  <1>3. /\ is("eq", a, b) = e
        /\ is("ne", a, b) = ~e
        /\ is("lt", a, b) = l
        /\ is("ge", a, b) = (~l \/ e)
        /\ is("le", a, b) = (l \/ e)
        /\ is("gt", a, b) = ~l
        /\ is("epsilon_eq", a, b) = close
        /\ is("epsilon_ne", a, b) = ~close
        /\ is("ieee_ulp_eq", a, b) = ulp
        /\ is("ieee_ulp_ne", a, b) = ~ulp
    BY <1>1, TaggedCases
  <1>4. /\ is("eq", b, a) = f
        /\ is("ne", b, a) = ~f
        /\ is("lt", b, a) = g
        /\ is("epsilon_eq", b, a) = esolc
        /\ is("epsilon_ne", b, a) = ~esolc
        /\ is("ieee_ulp_eq", b, a) = plu
        /\ is("ieee_ulp_ne", b, a) = ~plu
    BY <1>1, TaggedCases
  <1> HIDE DEF a, b
  <1>5. /\ e \in BOOLEAN /\ f \in BOOLEAN /\ l \in BOOLEAN /\ g \in BOOLEAN
        /\ e <=> f
        /\ ~(l /\ e) /\ ~(g /\ e) /\ ~(l /\ g)
        /\ ranked => l \/ g \/ e
    BY <1>1, TagOrders
  <1>6. tag = "native" => /\ close \in BOOLEAN /\ esolc \in BOOLEAN /\ (close <=> esolc)
                          /\ ulp \in BOOLEAN /\ plu \in BOOLEAN /\ (ulp <=> plu)
    BY <1>1, CloseBothWays
  <1> HIDE DEF e, f, l, g, close, esolc, ulp, plu, this, is, ranked
  <1>7. ASSUME c.op \in Orders => ranked, c.op \in {"gt", "le"} => ~is("eq", a, b)
        PROVE  this \in BOOLEAN /\ is(TagOpposite[c.op], a, b) = ~this
    <2>1. c.op \in {"epsilon_eq", "epsilon_ne", "ieee_ulp_eq", "ieee_ulp_ne"} => tag = "native"
      BY <1>1 DEF Close
    <2>2. CASE c.op = "eq"
      <3>1. TagOpposite[c.op] = "ne" BY <2>2 DEF TagOpposite
      <3>2. QED BY <1>2, <1>3, <1>5, <2>2, <3>1
    <2>3. CASE c.op = "ne"
      <3>1. TagOpposite[c.op] = "eq" BY <2>3 DEF TagOpposite
      <3>2. QED BY <1>2, <1>3, <1>5, <2>3, <3>1
    <2>4. CASE c.op = "lt"
      <3>1. TagOpposite[c.op] = "ge" BY <2>4 DEF TagOpposite
      <3>2. QED BY <1>2, <1>3, <1>5, <2>4, <3>1
    <2>5. CASE c.op = "ge"
      <3>1. TagOpposite[c.op] = "lt" BY <2>5 DEF TagOpposite
      <3>2. ~l \/ e <=> ~l BY <1>5
      <3>3. QED BY <1>2, <1>3, <1>5, <2>5, <3>1, <3>2
    <2>a. CASE c.op = "gt"
      <3>1. TagOpposite[c.op] = "le" /\ ~e BY <1>3, <1>7, <2>a DEF TagOpposite
      <3>2. QED BY <1>2, <1>3, <1>5, <2>a, <3>1
    <2>b. CASE c.op = "le"
      <3>1. TagOpposite[c.op] = "gt" /\ ~e BY <1>3, <1>7, <2>b DEF TagOpposite
      <3>2. QED BY <1>2, <1>3, <1>5, <2>b, <3>1
    <2>6. CASE c.op = "epsilon_eq"
      <3>1. TagOpposite[c.op] = "epsilon_ne" BY <2>6 DEF TagOpposite
      <3>2. QED BY <1>2, <1>3, <1>6, <2>1, <2>6, <3>1
    <2>7. CASE c.op = "epsilon_ne"
      <3>1. TagOpposite[c.op] = "epsilon_eq" BY <2>7 DEF TagOpposite
      <3>2. QED BY <1>2, <1>3, <1>6, <2>1, <2>7, <3>1
    <2>8. CASE c.op = "ieee_ulp_eq"
      <3>1. TagOpposite[c.op] = "ieee_ulp_ne" BY <2>8 DEF TagOpposite
      <3>2. QED BY <1>2, <1>3, <1>6, <2>1, <2>8, <3>1
    <2>9. CASE c.op = "ieee_ulp_ne"
      <3>1. TagOpposite[c.op] = "ieee_ulp_eq" BY <2>9 DEF TagOpposite
      <3>2. QED BY <1>2, <1>3, <1>6, <2>1, <2>9, <3>1
    <2>10. QED BY <1>1, <2>2, <2>3, <2>4, <2>5, <2>a, <2>b, <2>6, <2>7, <2>8, <2>9
                DEF Binary, Close
  <1>8. ASSUME c.op \notin Orders PROVE this <=> is(c.op, b, a)
    <2>1. c.op \in {"eq", "ne", "epsilon_eq", "epsilon_ne", "ieee_ulp_eq", "ieee_ulp_ne"}
      BY <1>1, <1>8 DEF Binary, Close, Orders
    <2>2. c.op \notin {"eq", "ne"} => tag = "native" BY <1>1, <2>1 DEF Close
    <2>3. CASE c.op = "eq" BY <1>2, <1>4, <1>5, <2>3
    <2>4. CASE c.op = "ne" BY <1>2, <1>4, <1>5, <2>4
    <2>5. CASE c.op = "epsilon_eq" BY <1>2, <1>4, <1>6, <2>2, <2>5
    <2>6. CASE c.op = "epsilon_ne" BY <1>2, <1>4, <1>6, <2>2, <2>6
    <2>7. CASE c.op = "ieee_ulp_eq" BY <1>2, <1>4, <1>6, <2>2, <2>7
    <2>8. CASE c.op = "ieee_ulp_ne" BY <1>2, <1>4, <1>6, <2>2, <2>8
    <2>9. QED BY <2>1, <2>3, <2>4, <2>5, <2>6, <2>7, <2>8
  <1>9. ASSUME ranked
        PROVE  Cardinality({k \in 1 .. 3 :
                   <<is("lt", a, b), is("lt", b, a), is("eq", a, b)>>[k]}) = 1
    <2>1. Cardinality({k \in 1 .. 3 : <<l, g, e>>[k]}) = 1 BY <1>5, <1>9, OneOfThree
    <2>2. QED BY <1>3, <1>4, <2>1
  <1>10. QED BY <1>7, <1>8, <1>9 DEF AgreesOn, this, is, with, ranked, a, b, tag
----------------------------------------------------------------------------
(* The assertions of a test, one after the other.                          *)

Failing(b) == {k \in DOMAIN b : ~Expected(b[k])}
Passing(b) == {k \in DOMAIN b : b[k].style = "legacy" /\ Expected(b[k])}
UpToNow(m, S) == Cardinality({j \in 1 .. m : j \in S})
Understood(b) == \A k \in DOMAIN b : b[k].style = "criterion" => SoundRoot(b[k].criterion)
Reached(b) == {k \in DOMAIN b : \A j \in 1 .. (k - 1) : b[j].fatal => Expected(b[j])}

TypeInv ==
    /\ full_stats \in BOOLEAN
    /\ body \in Seq(Assertion)
    /\ i \in 1 .. Len(body) + 1
    /\ pc \in {"main", "stat", "ended", "died"}
    /\ passed_asserts \in Nat
    /\ counted \in [passed : Nat, failed : Nat]

\* What is known of the last assertion.
LastInv ==
    Done => /\ Now.style = "legacy" => last.holds = legacy_holds(Now)
            /\ IsCriterion =>
                 LET end == CRI_ASSERT_CALL(Now.criterion)
                 IN  last.holds = (end.un = end.expect) /\ last.nodes = end.nodes

\* The counters follow the assertions that have run.
CountInv ==
    pc # "died" /\ Understood(body) =>
        /\ counted.failed = UpToNow(i - 1, Failing(body))
        /\ passed_asserts = UpToNow(i - 1, Passing(body))
        /\ counted.passed = IF full_stats \/ pc = "ended"
                            THEN UpToNow(i - 1, Passing(body)) ELSE 0
        /\ pc = "main" => \A k \in 1 .. (i - 1) : body[k].fatal => Expected(body[k])
        /\ pc \in {"stat", "ended"} => Reached(body) = 1 .. (i - 1)

Inv == TypeInv /\ LastInv /\ CountInv

\* The kinds of assertions.
LEMMA Styles ==
    ASSUME NEW x \in Assertion
    PROVE  /\ x.style \in {"legacy", "criterion", "fail", "throw"}
           /\ x.style = "legacy" => x \in LegacyAssertion
           /\ x.style = "criterion" => x.criterion \in Criterion[MaxNesting]
           /\ x.style = "throw" => x.op \in {"throw", "no_throw", "any_throw", "none_throw"}
  <1>1. CASE x \in LegacyAssertion
    <2>1. x.style = "legacy" BY <1>1 DEF LegacyAssertion
    <2>2. QED BY <1>1, <2>1
  <1>2. CASE x \in [style : {"criterion"}, fatal : BOOLEAN, criterion : Criterion[MaxNesting]]
    BY <1>2
  <1>3. CASE x \in [style : {"fail"}, fatal : BOOLEAN] BY <1>3
  <1>4. CASE x \in [style : {"throw"}, fatal : BOOLEAN, thrown : Thrown,
                    op : {"throw", "no_throw", "any_throw", "none_throw"}]
    BY <1>4
  <1>5. QED BY <1>1, <1>2, <1>3, <1>4 DEF Assertion

LEMMA LegacyBoolean == ASSUME NEW x \in LegacyAssertion PROVE legacy_holds(x) \in BOOLEAN
  <1>1. CASE x.family = "null"
    <2>1. legacy_holds(x) = cr_assert_null_op_(x.op, x.a) BY <1>1 DEF legacy_holds
    <2>2. QED BY <2>1 DEF cr_assert_null_op_
  <1>2. CASE x.family # "null" BY <1>2, Opposites DEF OppositesOf
  <1>3. QED BY <1>1, <1>2

LEMMA MeaningBoolean ==
    ASSUME NEW c \in Criterion[MaxNesting] PROVE Meaning(c) \in BOOLEAN
  <1>1. MaxNesting \in 0 .. MaxNesting BY NestingAssumption
  <1>2. meaning[MaxNesting] \in [Criterion[MaxNesting] -> BOOLEAN] BY <1>1, MeaningLevels
  <1>3. QED BY <1>2 DEF Meaning

\* What an assertion of each kind comes to is what is expected of it.
LEMMA ExpectedOf ==
    ASSUME NEW x \in Assertion
    PROVE  /\ x.style = "legacy" => Expected(x) = legacy_holds(x)
           /\ x.style = "criterion" /\ SoundRoot(x.criterion) =>
                LET end == CRI_ASSERT_CALL(x.criterion)
                IN  Expected(x) = (end.un = end.expect)
           /\ x.style = "fail" => Expected(x) = FALSE
           /\ x.style = "throw" => Expected(x) =
                (CASE x.op = "throw"      -> x.thrown = "expected"
                   [] x.op = "no_throw"   -> x.thrown = "nothing"
                   [] x.op = "any_throw"  -> x.thrown # "nothing"
                   [] x.op = "none_throw" -> x.thrown = "nothing")
  <1>1. ASSUME x.style = "legacy" PROVE Expected(x) = legacy_holds(x) BY <1>1 DEF Expected
  <1>2. ASSUME x.style = "criterion", SoundRoot(x.criterion)
        PROVE  LET end == CRI_ASSERT_CALL(x.criterion)
               IN  Expected(x) = (end.un = end.expect)
    <2> DEFINE c == x.criterion
               end == CRI_ASSERT_CALL(c)
               same == end.un = end.expect
    <2>1. Expected(x) = Meaning(c) BY <1>2 DEF Expected
    <2>2. c \in Criterion[MaxNesting] BY <1>2, Styles
    <2>3. same <=> Meaning(c) BY <1>2, <2>2, CallMeans
    <2>4. Meaning(c) \in BOOLEAN /\ same \in BOOLEAN BY <2>2, MeaningBoolean
    <2> HIDE DEF c, same
    <2>5. Expected(x) = same BY <2>1, <2>3, <2>4
    <2>6. QED BY <2>5 DEF same, c
  <1>3. ASSUME x.style = "fail" PROVE Expected(x) = FALSE BY <1>3 DEF Expected
  <1>4. ASSUME x.style = "throw"
        PROVE  Expected(x) =
                (CASE x.op = "throw"      -> x.thrown = "expected"
                   [] x.op = "no_throw"   -> x.thrown = "nothing"
                   [] x.op = "any_throw"  -> x.thrown # "nothing"
                   [] x.op = "none_throw" -> x.thrown = "nothing")
    <2>1. x.op \in {"throw", "no_throw", "any_throw", "none_throw"} BY <1>4, Styles
    <2>2. CASE x.op = "throw" BY <1>4, <2>2 DEF Expected
    <2>3. CASE x.op = "no_throw" BY <1>4, <2>3 DEF Expected
    <2>4. CASE x.op = "any_throw" BY <1>4, <2>4 DEF Expected
    <2>5. CASE x.op = "none_throw" BY <1>4, <2>5 DEF Expected
    <2>6. QED BY <2>1, <2>2, <2>3, <2>4, <2>5
  <1>5. QED BY <1>1, <1>2, <1>3, <1>4

LEMMA InitInv == Init => Inv
  <1> SUFFICES ASSUME Init PROVE Inv OBVIOUS
  <1>1. TypeInv
    <2>1. body \in Seq(Assertion) BY BodiesAssumption DEF Init
    <2>2. Len(body) \in Nat BY <2>1
    <2>3. i \in 1 .. Len(body) + 1 BY <2>2 DEF Init
    <2>4. QED BY <2>1, <2>3 DEF Init, TypeInv
  <1>2. LastInv BY DEF Init, LastInv, Done
  <1>3. CountInv
    <2>1. ASSUME NEW S PROVE UpToNow(i - 1, S) = 0
      <3>1. i - 1 = 0 BY DEF Init
      <3>2. {j \in 1 .. 0 : j \in S} = {} OBVIOUS
      <3>3. QED BY <3>1, <3>2, FS_EmptySet DEF UpToNow
    <2>2. pc = "main" /\ 1 .. (i - 1) = {} BY DEF Init
    <2>3. counted.failed = 0 /\ counted.passed = 0 /\ passed_asserts = 0 BY DEF Init
    <2>4. QED BY <2>1, <2>2, <2>3 DEF CountInv
  <1>4. QED BY <1>1, <1>2, <1>3 DEF Inv

\* One more assertion has run.
LEMMA Recorded ==
    ASSUME TypeInv, CountInv, pc = "main", i <= Len(body),
           NEW holds \in BOOLEAN, Understood(body) => holds = Expected(body[i]),
           Fail(holds), UNCHANGED <<full_stats, body>>,
           counted'.failed = IF holds THEN counted.failed ELSE counted.failed + 1,
           passed_asserts' = IF holds /\ body[i].style = "legacy"
                             THEN passed_asserts + 1 ELSE passed_asserts,
           counted'.passed = IF holds /\ body[i].style = "legacy" /\ full_stats
                             THEN counted.passed + 1 ELSE counted.passed
    PROVE  CountInv'
  <1> SUFFICES ASSUME Understood(body) PROVE CountInv'
    BY DEF CountInv, Understood
  <1> DEFINE b == body
             F == Failing(body)
             P == Passing(body)
             m == i - 1
  <1>1. /\ m \in Nat /\ m + 1 = i /\ i \in DOMAIN b /\ i' = i + 1 /\ b' = b
        /\ DOMAIN b = 1 .. Len(b) /\ Len(b) \in Nat
    BY DEF TypeInv, Fail
  <1>2. /\ counted.failed = UpToNow(m, F)
        /\ passed_asserts = UpToNow(m, P)
        /\ counted.passed = IF full_stats THEN UpToNow(m, P) ELSE 0
        /\ \A k \in 1 .. m : b[k].fatal => Expected(b[k])
    BY DEF CountInv
  <1>3. i \in F <=> ~holds BY <1>1 DEF Failing
  <1>4. i \in P <=> holds /\ b[i].style = "legacy" BY <1>1 DEF Passing
  <1>5. ASSUME NEW S
        PROVE  /\ UpToNow(m, S) \in Nat
               /\ UpToNow(i, S) = IF i \in S THEN UpToNow(m, S) + 1 ELSE UpToNow(m, S)
    <2> HIDE DEF m
    <2>1. /\ UpToNow(m, S) \in Nat
          /\ UpToNow(m + 1, S) = IF m + 1 \in S THEN UpToNow(m, S) + 1 ELSE UpToNow(m, S)
      BY <1>1, CountOne DEF UpToNow
    <2>2. QED BY <1>1, <2>1
  <1>6. i' - 1 = i BY <1>1
  <1>7. counted'.failed = UpToNow(i, F) BY <1>2, <1>3, <1>5
  <1>8. passed_asserts' = UpToNow(i, P) BY <1>2, <1>4, <1>5
  <1>9. counted'.passed = IF full_stats THEN UpToNow(i, P) ELSE 0
    BY <1>2, <1>4, <1>5
  <1>10. pc' \in {"main", "stat"} BY DEF Fail
  <1>11. ASSUME pc' = "main" PROVE \A k \in 1 .. i : b[k].fatal => Expected(b[k])
    <2>1. holds \/ ~b[i].fatal BY <1>11 DEF Fail
    <2>2. \A k \in 1 .. i : k = i \/ k \in 1 .. m BY <1>1
    <2>3. QED BY <1>2, <2>1, <2>2
  <1>12. ASSUME pc' = "stat" PROVE Reached(b) = 1 .. i
    <2>1. ~holds /\ b[i].fatal BY <1>12 DEF Fail
    <2>2. ~Expected(b[i]) BY <2>1
    <2>3. ASSUME NEW k \in Reached(b) PROVE k \in 1 .. i
      <3>1. k \in 1 .. Len(b) /\ \A j \in 1 .. (k - 1) : b[j].fatal => Expected(b[j])
        BY <1>1 DEF Reached
      <3>2. i \notin 1 .. (k - 1) BY <2>1, <2>2, <3>1
      <3>3. QED BY <1>1, <3>1, <3>2
    <2>4. ASSUME NEW k \in 1 .. i PROVE k \in Reached(b)
      <3>1. k \in DOMAIN b BY <1>1
      <3>2. \A j \in 1 .. (k - 1) : j \in 1 .. m BY <1>1
      <3>3. QED BY <1>2, <3>1, <3>2 DEF Reached
    <2>5. QED BY <2>3, <2>4
  <1>13. /\ Failing(body)' = F /\ Passing(body)' = P /\ Reached(body)' = Reached(b)
         /\ \A k : Expected(body[k])' = Expected(b[k])
    BY <1>1
  <1>14. full_stats' = full_stats OBVIOUS
  <1> HIDE DEF b, F, P, m
  <1>15. QED
    BY <1>1, <1>6, <1>7, <1>8, <1>9, <1>10, <1>11, <1>12, <1>13, <1>14 DEF CountInv, b

\* What an assertion leaves behind is what the invariant says of the last one.
LEMMA LastOf ==
    ASSUME TypeInv, pc = "main", i <= Len(body), NEW holds, Fail(holds), body' = body,
           last'.holds = holds,
           body[i].style = "legacy" => holds = legacy_holds(body[i]),
           body[i].style = "criterion" =>
               LET end == CRI_ASSERT_CALL(body[i].criterion)
               IN  holds = (end.un = end.expect) /\ last'.nodes = end.nodes
    PROVE  LastInv'
  <1>1. i' - 1 = i /\ body' = body BY DEF TypeInv, Fail
  <1>2. Now' = body[i] BY <1>1 DEF Now
  <1>3. /\ body[i].style = "legacy" => last'.holds = legacy_holds(body[i])
        /\ body[i].style = "criterion" =>
               LET end == CRI_ASSERT_CALL(body[i].criterion)
               IN  last'.holds = (end.un = end.expect) /\ last'.nodes = end.nodes
    OBVIOUS
  <1>4. QED BY <1>2, <1>3 DEF LastInv, IsCriterion

\* The step of an assertion that does not end the program.
LEMMA AssertionStep ==
    ASSUME Inv, pc = "main", i <= Len(body),
           NEW holds \in BOOLEAN, Fail(holds), UNCHANGED <<full_stats, body>>,
           counted' \in [passed : Nat, failed : Nat],
           counted'.failed = IF holds THEN counted.failed ELSE counted.failed + 1,
           passed_asserts' = IF holds /\ body[i].style = "legacy"
                             THEN passed_asserts + 1 ELSE passed_asserts,
           counted'.passed = IF holds /\ body[i].style = "legacy" /\ full_stats
                             THEN counted.passed + 1 ELSE counted.passed,
           last'.holds = holds,
           body[i].style = "legacy" => holds = legacy_holds(body[i]),
           body[i].style = "criterion" =>
               LET end == CRI_ASSERT_CALL(body[i].criterion)
               IN  holds = (end.un = end.expect) /\ last'.nodes = end.nodes,
           body[i].style = "fail" => holds = FALSE,
           body[i].style = "throw" => holds = Expected(body[i])
    PROVE  Inv'
  <1>1. TypeInv /\ CountInv BY DEF Inv
  <1>2. body \in Seq(Assertion) /\ i \in DOMAIN body BY <1>1 DEF TypeInv
  <1>3. body[i] \in Assertion BY <1>2
  <1>4. TypeInv'
    <2>1. i' \in 1 .. Len(body) + 1 BY <1>1 DEF TypeInv, Fail
    <2>2. pc' \in {"main", "stat"} BY DEF Fail
    <2>3. passed_asserts' \in Nat BY <1>1 DEF TypeInv
    <2>4. full_stats' \in BOOLEAN /\ body' = body /\ body \in Seq(Assertion) BY <1>1 DEF TypeInv
    <2>5. QED BY <2>1, <2>2, <2>3, <2>4 DEF TypeInv
  <1>5. LastInv' BY <1>1, LastOf
  <1>6. ASSUME Understood(body) PROVE holds = Expected(body[i])
    <2>1. body[i].style \in {"legacy", "criterion", "fail", "throw"} BY <1>3, Styles
    <2>2. CASE body[i].style = "legacy" BY <1>3, <2>2, ExpectedOf
    <2>3. CASE body[i].style = "criterion"
      <3>1. SoundRoot(body[i].criterion) BY <1>2, <1>6, <2>3 DEF Understood
      <3>2. QED BY <1>3, <2>3, <3>1, ExpectedOf
    <2>4. CASE body[i].style = "fail" BY <1>3, <2>4, ExpectedOf
    <2>5. CASE body[i].style = "throw" BY <2>5
    <2>6. QED BY <2>1, <2>2, <2>3, <2>4, <2>5
  <1>7. CountInv' BY <1>1, <1>6, Recorded
  <1>8. QED BY <1>4, <1>5, <1>7 DEF Inv

LEMMA SendCounts ==
    ASSUME NEW passed \in BOOLEAN, NEW results, TypeInv
    PROVE  /\ Send(passed, results) =>
                /\ counted' \in [passed : Nat, failed : Nat]
                /\ counted'.failed = IF passed THEN counted.failed ELSE counted.failed + 1
                /\ counted'.passed = IF passed THEN counted.passed + 1 ELSE counted.passed
           /\ Quiet => counted' \in [passed : Nat, failed : Nat] /\ counted' = counted
  <1>1. counted \in [passed : Nat, failed : Nat] BY DEF TypeInv
  <1>2. ASSUME Send(passed, results)
        PROVE  /\ counted' \in [passed : Nat, failed : Nat]
               /\ counted'.failed = IF passed THEN counted.failed ELSE counted.failed + 1
               /\ counted'.passed = IF passed THEN counted.passed + 1 ELSE counted.passed
    <2>1. CASE passed
      <3>1. counted' = [counted EXCEPT !.passed = @ + 1] BY <1>2, <2>1 DEF Send
      <3>2. QED BY <1>1, <2>1, <3>1
    <2>2. CASE ~passed
      <3>1. counted' = [counted EXCEPT !.failed = @ + 1] BY <1>2, <2>2 DEF Send
      <3>2. QED BY <1>1, <2>2, <3>1
    <2>3. QED BY <2>1, <2>2
  <1>3. QED BY <1>1, <1>2 DEF Quiet

LEMMA LegacyStep == Inv /\ cr_assert_impl => Inv'
  <1> SUFFICES ASSUME Inv, cr_assert_impl PROVE Inv' OBVIOUS
  <1> DEFINE x == body[i]
             holds == legacy_holds(x)
  <1>1. TypeInv /\ pc = "main" /\ i <= Len(body) /\ x.style = "legacy"
    BY DEF Inv, cr_assert_impl, At
  <1>2. body \in Seq(Assertion) /\ i \in DOMAIN body BY <1>1 DEF TypeInv
  <1>3. x \in Assertion BY <1>2
  <1>4. holds \in BOOLEAN BY <1>1, <1>3, Styles, LegacyBoolean
  <1>5. /\ IF ~holds \/ full_stats THEN Send(holds, <<>>) ELSE Quiet
        /\ passed_asserts' = IF holds THEN passed_asserts + 1 ELSE passed_asserts
        /\ last' = [holds |-> holds, nodes |-> <<>>]
        /\ Fail(holds)
        /\ UNCHANGED <<full_stats, body>>
    BY DEF cr_assert_impl
  <1>6. last'.holds = holds BY <1>5
  <1> HIDE DEF holds
  <1>7. /\ counted' \in [passed : Nat, failed : Nat]
        /\ counted'.failed = IF holds THEN counted.failed ELSE counted.failed + 1
        /\ counted'.passed = IF holds /\ full_stats THEN counted.passed + 1 ELSE counted.passed
    <2>1. CASE ~holds \/ full_stats BY <1>1, <1>4, <1>5, <2>1, SendCounts
    <2>2. CASE holds /\ ~full_stats BY <1>1, <1>4, <1>5, <2>2, SendCounts
    <2>3. QED BY <1>4, <2>1, <2>2
  <1>8. QED BY <1>1, <1>4, <1>5, <1>6, <1>7, AssertionStep DEF holds

LEMMA CriterionStep == Inv /\ cr_assert_user => Inv'
  <1> SUFFICES ASSUME Inv, cr_assert_user PROVE Inv' OBVIOUS
  <1> DEFINE x == body[i]
             end == CRI_ASSERT_CALL(x.criterion)
             holds == end.un = end.expect
  <1>1. TypeInv /\ pc = "main" /\ i <= Len(body) /\ x.style = "criterion"
    BY DEF Inv, cr_assert_user, At
  <1>2. holds \in BOOLEAN OBVIOUS
  <1>3. /\ IF holds THEN Quiet ELSE Send(FALSE, collect_leaves(end.nodes))
        /\ last' = [holds |-> holds, nodes |-> end.nodes]
        /\ Fail(holds)
        /\ UNCHANGED <<full_stats, body, passed_asserts>>
    BY DEF cr_assert_user
  <1>4. last'.holds = holds /\ last'.nodes = end.nodes BY <1>3
  <1> HIDE DEF holds, end
  <1>5. /\ counted' \in [passed : Nat, failed : Nat]
        /\ counted'.failed = IF holds THEN counted.failed ELSE counted.failed + 1
        /\ counted'.passed = counted.passed
    BY <1>1, <1>3, SendCounts
  <1>6. QED BY <1>1, <1>2, <1>3, <1>4, <1>5, AssertionStep DEF holds, end

LEMMA FailStep == Inv /\ cr_assert_fail_user => Inv'
  <1> SUFFICES ASSUME Inv, cr_assert_fail_user PROVE Inv' OBVIOUS
  <1>1. TypeInv /\ pc = "main" /\ i <= Len(body) /\ body[i].style = "fail"
    BY DEF Inv, cr_assert_fail_user, At
  <1>2. /\ Send(FALSE, <<>>) /\ last' = [holds |-> FALSE, nodes |-> <<>>] /\ Fail(FALSE)
        /\ UNCHANGED <<full_stats, body, passed_asserts>>
    BY DEF cr_assert_fail_user
  <1>3. /\ counted' \in [passed : Nat, failed : Nat]
        /\ counted'.failed = counted.failed + 1 /\ counted'.passed = counted.passed
    BY <1>1, <1>2, SendCounts
  <1> DEFINE holds == FALSE
  <1>4. holds \in BOOLEAN /\ Fail(holds) /\ last'.holds = holds /\ ~holds BY <1>2
  <1> HIDE DEF holds
  <1>5. QED BY <1>1, <1>2, <1>3, <1>4, AssertionStep

LEMMA ThrowStep == Inv /\ cr_assert_throw => Inv'
  <1> SUFFICES ASSUME Inv, cr_assert_throw PROVE Inv' OBVIOUS
  <1> DEFINE x == body[i]
             holds == CASE x.op = "throw"      -> x.thrown = "expected"
                        [] x.op = "no_throw"   -> x.thrown = "nothing"
                        [] x.op = "any_throw"  -> x.thrown # "nothing"
                        [] x.op = "none_throw" -> x.thrown = "nothing"
             escapes == x.op = "no_throw" /\ x.thrown \in {"std", "other"}
  <1>1. TypeInv /\ pc = "main" /\ i <= Len(body) /\ x.style = "throw"
    BY DEF Inv, cr_assert_throw, At
  <1>2. body \in Seq(Assertion) /\ i \in DOMAIN body BY <1>1 DEF TypeInv
  <1>3. x \in Assertion BY <1>2
  <1>4. Expected(x) = holds BY <1>1, <1>3, ExpectedOf
  <1>5. UNCHANGED <<full_stats, body, passed_asserts>> BY DEF cr_assert_throw
  <1>6. CASE escapes
    <2>1. pc' = "died" /\ UNCHANGED <<i, last, told, counted>>
      BY <1>6 DEF cr_assert_throw
    <2>2. TypeInv' BY <1>1, <1>5, <2>1 DEF TypeInv
    <2>3. LastInv' BY <2>1 DEF LastInv, Done
    <2>4. CountInv' BY <2>1 DEF CountInv
    <2>5. QED BY <2>2, <2>3, <2>4 DEF Inv
  <1>7. CASE ~escapes
    <2>1. /\ IF holds THEN Quiet ELSE Send(FALSE, <<>>)
          /\ last' = [holds |-> holds, nodes |-> <<>>]
          /\ Fail(holds)
      BY <1>7 DEF cr_assert_throw
    <2>2. last'.holds = holds BY <2>1
    <2>3. holds \in BOOLEAN
      <3>1. x.op \in {"throw", "no_throw", "any_throw", "none_throw"} BY <1>1, <1>3, Styles
      <3>2. CASE x.op = "throw" BY <3>2
      <3>3. CASE x.op = "no_throw" BY <3>3
      <3>4. CASE x.op = "any_throw" BY <3>4
      <3>5. CASE x.op = "none_throw" BY <3>5
      <3>6. QED BY <3>1, <3>2, <3>3, <3>4, <3>5
    <2> HIDE DEF holds
    <2>4. /\ counted' \in [passed : Nat, failed : Nat]
          /\ counted'.failed = IF holds THEN counted.failed ELSE counted.failed + 1
          /\ counted'.passed = counted.passed
      BY <1>1, <2>1, SendCounts
    <2>5. QED BY <1>1, <1>4, <1>5, <2>1, <2>2, <2>3, <2>4, AssertionStep
  <1>8. QED BY <1>6, <1>7

LEMMA ReturnStep == Inv /\ Return => Inv'
  <1> SUFFICES ASSUME Inv, Return PROVE Inv' OBVIOUS
  <1>1. TypeInv /\ pc = "main" /\ i > Len(body) /\ pc' = "stat" BY DEF Inv, Return
  <1>2. UNCHANGED <<full_stats, body, i, last, passed_asserts, counted>> BY DEF Return
  <1>3. TypeInv' BY <1>1, <1>2 DEF TypeInv
  <1>4. LastInv'
    <2>1. Done' = Done /\ Now' = Now BY <1>1, <1>2 DEF Done, Now
    <2>2. LastInv BY DEF Inv
    <2>3. IsCriterion' = IsCriterion BY <2>1 DEF IsCriterion
    <2>4. QED BY <1>2, <2>1, <2>2, <2>3 DEF LastInv
  <1>5. CountInv'
    <2> SUFFICES ASSUME Understood(body) PROVE CountInv' BY <1>2 DEF CountInv, Understood
    <2> DEFINE b == body
    <2>1. CountInv BY DEF Inv
    <2>2. i - 1 = Len(b) /\ DOMAIN b = 1 .. Len(b) /\ Len(b) \in Nat BY <1>1 DEF TypeInv
    <2>3. \A k \in 1 .. Len(b) : b[k].fatal => Expected(b[k])
      BY <1>1, <2>1, <2>2 DEF CountInv
    <2>4. Reached(b) = 1 .. Len(b)
      <3>1. ASSUME NEW k \in DOMAIN b PROVE \A j \in 1 .. (k - 1) : j \in 1 .. Len(b) BY <2>2
      <3>2. \A k \in DOMAIN b : k \in Reached(b) BY <2>3, <3>1 DEF Reached
      <3>3. \A k \in Reached(b) : k \in DOMAIN b BY DEF Reached
      <3>4. QED BY <2>2, <3>2, <3>3
    <2>5. /\ Failing(body)' = Failing(b) /\ Passing(body)' = Passing(b)
          /\ Reached(body)' = Reached(b)
      BY <1>2
    <2>6. /\ counted.failed = UpToNow(i - 1, Failing(b))
          /\ passed_asserts = UpToNow(i - 1, Passing(b))
          /\ counted.passed = IF full_stats THEN UpToNow(i - 1, Passing(b)) ELSE 0
      BY <1>1, <2>1 DEF CountInv
    <2>7. i' - 1 = i - 1 /\ pc' = "stat" BY <1>1, <1>2
    <2> HIDE DEF b
    <2>8. QED BY <1>2, <2>2, <2>4, <2>5, <2>6, <2>7 DEF CountInv
  <1>6. QED BY <1>3, <1>4, <1>5 DEF Inv

LEMMA StatisticStep == Inv /\ Statistic => Inv'
  <1> SUFFICES ASSUME Inv, Statistic PROVE Inv' OBVIOUS
  <1>1. TypeInv /\ pc = "stat" /\ pc' = "ended" BY DEF Inv, Statistic
  <1>2. UNCHANGED <<full_stats, body, i, last, passed_asserts>> BY DEF Statistic
  <1>3. counted' = IF full_stats THEN counted
                   ELSE [counted EXCEPT !.passed = @ + passed_asserts]
    BY DEF Statistic
  <1>4. /\ counted' \in [passed : Nat, failed : Nat] /\ counted'.failed = counted.failed
        /\ counted'.passed = IF full_stats THEN counted.passed
                             ELSE counted.passed + passed_asserts
    <2>1. counted \in [passed : Nat, failed : Nat] /\ passed_asserts \in Nat
      BY <1>1 DEF TypeInv
    <2>2. CASE full_stats BY <1>3, <2>1, <2>2
    <2>3. CASE ~full_stats BY <1>3, <2>1, <2>3
    <2>4. QED BY <2>2, <2>3
  <1>5. TypeInv' BY <1>1, <1>2, <1>4 DEF TypeInv
  <1>6. LastInv'
    <2>1. Done' = Done /\ Now' = Now BY <1>1, <1>2 DEF Done, Now
    <2>2. LastInv BY DEF Inv
    <2>3. IsCriterion' = IsCriterion BY <2>1 DEF IsCriterion
    <2>4. QED BY <1>2, <2>1, <2>2, <2>3 DEF LastInv
  <1>7. CountInv'
    <2> SUFFICES ASSUME Understood(body) PROVE CountInv' BY <1>2 DEF CountInv, Understood
    <2>1. CountInv BY DEF Inv
    <2>2. /\ counted.failed = UpToNow(i - 1, Failing(body))
          /\ passed_asserts = UpToNow(i - 1, Passing(body))
          /\ counted.passed = IF full_stats THEN UpToNow(i - 1, Passing(body)) ELSE 0
          /\ Reached(body) = 1 .. (i - 1)
      BY <1>1, <2>1 DEF CountInv
    <2>3. passed_asserts \in Nat BY <1>1 DEF TypeInv
    <2>4. /\ Failing(body)' = Failing(body) /\ Passing(body)' = Passing(body)
          /\ Reached(body)' = Reached(body)
      BY <1>2
    <2>5. counted'.passed = UpToNow(i - 1, Passing(body))
      <3>1. CASE full_stats BY <1>4, <2>2, <3>1
      <3>2. CASE ~full_stats BY <1>4, <2>2, <2>3, <3>2
      <3>3. QED BY <3>1, <3>2
    <2>6. i' - 1 = i - 1 /\ pc' = "ended" BY <1>1, <1>2
    <2>7. QED BY <1>2, <1>4, <2>2, <2>4, <2>5, <2>6 DEF CountInv
  <1>8. QED BY <1>5, <1>6, <1>7 DEF Inv

LEMMA StutterStep == Inv /\ UNCHANGED vars => Inv'
  <1> SUFFICES ASSUME Inv, UNCHANGED vars PROVE Inv' OBVIOUS
  <1>1. TypeInv' BY DEF Inv, TypeInv, vars
  <1>2. LastInv' BY DEF Inv, LastInv, IsCriterion, Done, Now, vars
  <1>3. CountInv'
    <2>1. UNCHANGED <<full_stats, body, i, pc, passed_asserts, counted>> BY DEF vars
    <2>2. QED BY <2>1 DEF Inv, CountInv
  <1>4. QED BY <1>1, <1>2, <1>3 DEF Inv

\* The inductive invariant holds of every test.
THEOREM InvAlways == Spec => []Inv
  <1>1. Inv /\ [Next]_vars => Inv'
    BY LegacyStep, CriterionStep, FailStep, ThrowStep, ReturnStep, StatisticStep,
       StutterStep DEF Next
  <1>2. QED BY InitInv, <1>1, PTL DEF Spec

\* The last assertion is one of the test's.
LEMMA NowIs == ASSUME TypeInv, Done PROVE Now \in Assertion
  <1>1. i - 1 \in 1 .. Len(body) BY DEF TypeInv, Done
  <1>2. QED BY <1>1 DEF TypeInv, Now

----------------------------------------------------------------------------
(* The theorems.                                                           *)

\* A criterion of all, none, and not on a leaf, of any depth and any length,
\* holds when new/assert.h says it does, on any operands but the ones at which
\* a comparison of the C expansion departs: gt of equal ones or of NaN, ge of
\* NaN, 0 units in the last place of equal ones.
THEOREM GroupsMeanAlways == Spec => []GroupsMean
  <1>1. ASSUME Inv, IsCriterion, SoundRoot(Now.criterion)
        PROVE  last.holds <=> Meaning(Now.criterion)
    <2> DEFINE c == Now.criterion
               end == CRI_ASSERT_CALL(c)
    <2>1. Done /\ Now.style = "criterion" BY <1>1 DEF IsCriterion
    <2>2. Now \in Assertion BY <1>1, <2>1, NowIs DEF Inv
    <2>3. c \in Criterion[MaxNesting] BY <2>1, <2>2, Styles
    <2>4. last.holds = (end.un = end.expect) BY <1>1, <2>1 DEF Inv, LastInv
    <2>5. end.un = end.expect <=> Meaning(c) BY <1>1, <2>3, CallMeans
    <2>6. QED BY <2>4, <2>5
  <1>2. Inv => GroupsMean BY <1>1 DEF GroupsMean
  <1>3. QED BY InvAlways, <1>2, PTL

\* cri_assert_node_send writes no more results than it made room for, whatever
\* the criterion.
THEOREM ResultsFitAlways == Spec => []ResultsFit
  <1>1. ASSUME Inv, IsCriterion PROVE Len(collect_leaves(last.nodes)) <= leaf_count(last.nodes)
    <2> DEFINE end == CRI_ASSERT_CALL(Now.criterion)
    <2>1. Done /\ Now.style = "criterion" BY <1>1 DEF IsCriterion
    <2>2. Now \in Assertion BY <1>1, <2>1, NowIs DEF Inv
    <2>3. Now.criterion \in Criterion[MaxNesting] BY <2>1, <2>2, Styles
    <2>4. last.nodes = end.nodes BY <1>1, <2>1 DEF Inv, LastInv
    <2>5. end \in State
      <3> HIDE DEF end
      <3>1. QED BY <2>3, Call DEF end
    <2> HIDE DEF end
    <2>6. last.nodes \in Seq(Node) BY <2>4, <2>5 DEF State
    <2>7. QED BY <2>6, ResultsCounted
  <1>2. Inv => ResultsFit BY <1>1 DEF ResultsFit
  <1>3. QED BY InvAlways, <1>2, PTL

\* Of a macro of internal/assert.h and its opposite exactly one holds on any
\* numbers, strings and blocks; on NULL strings neither, on NaN only !=.
THEOREM OneOfOppositesAlways == Spec => []OneOfOpposites
  <1>1. ASSUME Inv, Done, Now.style = "legacy", Now.family # "null"
        PROVE  LET other == legacy_holds([Now EXCEPT !.op = Opposite[@]])
               IN  IF Now.a # <<>> /\ Now.b # <<>> THEN last.holds # other
                   ELSE last.holds <=> Now.family = "op" /\ Now.op = "!="
    <2> DEFINE x == Now
               this == legacy_holds(x)
               other == legacy_holds(Reversed(x))
    <2>1. x \in Assertion BY <1>1, NowIs DEF Inv
    <2>2. x \in LegacyAssertion BY <1>1, <2>1, Styles
    <2>3. /\ this \in BOOLEAN /\ other \in BOOLEAN
          /\ IF BothThere(x) THEN other <=> ~this
             ELSE this <=> x.family = "op" /\ x.op = "!="
      BY <1>1, <2>2, Opposites DEF OppositesOf
    <2>4. last.holds = this BY <1>1 DEF Inv, LastInv
    <2>5. other = legacy_holds([Now EXCEPT !.op = Opposite[@]]) BY DEF Reversed
    <2> HIDE DEF x, this, other
    <2>6. CASE BothThere(x)
      <3>1. last.holds # other BY <2>3, <2>4, <2>6
      <3>2. QED BY <2>5, <2>6, <3>1 DEF BothThere, x
    <2>7. CASE ~BothThere(x)
      <3>1. last.holds <=> x.family = "op" /\ x.op = "!=" BY <2>3, <2>4, <2>7
      <3>2. QED BY <2>7, <3>1 DEF BothThere, x
    <2>8. QED BY <2>6, <2>7
  <1>2. Inv => OneOfOpposites BY <1>1 DEF OneOfOpposites
  <1>3. QED BY InvAlways, <1>2, PTL

\* The tagged criteria agree with each other on any strings, blocks, numbers
\* and tolerances: opposites of equality on any operands, lt and ge but on NaN,
\* gt and le but on NaN and on equal operands.
THEOREM TagsAgreeAlways == Spec => []TagsAgree
  <1>1. ASSUME Inv, IsCriterion, "vals" \in DOMAIN Now.criterion
        PROVE  LET c == Now.criterion
                   a == c.vals[1]
                   b == c.vals[2]
                   is(op, x, y) == tagged([c EXCEPT !.op = op], x, y)
                   ranked == c.tag = "native" => a # <<>> /\ b # <<>>
               IN  /\ (c.op \in Orders => ranked) /\ (c.op \in {"gt", "le"} => ~is("eq", a, b)) =>
                       last.holds # is(TagOpposite[c.op], a, b)
                   /\ c.op \notin Orders => (last.holds <=> is(c.op, b, a))
                   /\ ranked => Cardinality({k \in 1 .. 3 :
                           <<is("lt", a, b), is("lt", b, a), is("eq", a, b)>>[k]}) = 1
    <2> DEFINE c == Now.criterion
               a == c.vals[1]
               b == c.vals[2]
               end == CRI_ASSERT_CALL(c)
               same == end.un = end.expect
               this == tagged(c, a, b)
               is(op, x, y) == tagged([c EXCEPT !.op = op], x, y)
               ranked == c.tag = "native" => a # <<>> /\ b # <<>>
               apart == (c.op \in Orders => ranked) /\ (c.op \in {"gt", "le"} => ~is("eq", a, b))
    <2>1. Done /\ Now.style = "criterion" BY <1>1 DEF IsCriterion
    <2>2. Now \in Assertion BY <1>1, <2>1, NowIs DEF Inv
    <2>3. c \in Criterion[MaxNesting] BY <2>1, <2>2, Styles
    <2>4. c \in Scalar /\ (same <=> this) BY <1>1, <2>3, CallCompares
    <2>5. last.holds = same BY <1>1, <2>1 DEF Inv, LastInv
    <2>6. /\ apart => this \in BOOLEAN /\ is(TagOpposite[c.op], a, b) = ~this
          /\ c.op \notin Orders => (this <=> is(c.op, b, a))
          /\ ranked =>
               Cardinality({k \in 1 .. 3 :
                   <<is("lt", a, b), is("lt", b, a), is("eq", a, b)>>[k]}) = 1
      BY <2>4, Agree DEF AgreesOn
    <2>7. same \in BOOLEAN OBVIOUS
    <2> HIDE DEF c, a, b, same, this, is, apart, ranked
    <2>8. /\ apart => last.holds # is(TagOpposite[c.op], a, b)
          /\ c.op \notin Orders => (last.holds <=> is(c.op, b, a))
      BY <2>4, <2>5, <2>6, <2>7
    <2>9. QED BY <2>6, <2>8 DEF c, a, b, is, apart, ranked
  <1>2. Inv => TagsAgree BY <1>1 DEF TagsAgree
  <1>3. QED BY InvAlways, <1>2, PTL

\* When a test ends, the runner holds one failure for each assertion that ran
\* and does not hold, one success for each macro that holds, whatever the test.
THEOREM TallyAlways == Spec => []Tally
  <1>1. ASSUME Inv, pc = "ended", Understood(body)
        PROVE  /\ counted.failed = Cardinality({k \in Reached(body) : ~Expected(body[k])})
               /\ counted.passed = Cardinality({k \in Reached(body) :
                                       body[k].style = "legacy" /\ Expected(body[k])})
    <2> DEFINE m == i - 1
    <2>1. /\ counted.failed = UpToNow(m, Failing(body))
          /\ counted.passed = UpToNow(m, Passing(body))
          /\ Reached(body) = 1 .. m
      BY <1>1 DEF Inv, CountInv
    <2>2. \A k \in 1 .. m : k \in DOMAIN body BY <1>1 DEF Inv, TypeInv
    <2>3. {k \in 1 .. m : ~Expected(body[k])} = {j \in 1 .. m : j \in Failing(body)}
      BY <2>2 DEF Failing
    <2>4. {k \in 1 .. m : body[k].style = "legacy" /\ Expected(body[k])}
              = {j \in 1 .. m : j \in Passing(body)}
      BY <2>2 DEF Passing
    <2> HIDE DEF m
    <2>5. QED BY <2>1, <2>3, <2>4 DEF UpToNow
  <1>2. Reached(body) = Ran BY DEF Reached, Ran
  <1>3. Inv => Tally BY <1>1, <1>2 DEF Tally, Understood
  <1>4. QED BY InvAlways, <1>3, PTL
=============================================================================
