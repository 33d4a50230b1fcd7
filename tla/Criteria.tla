------------------------------ MODULE Criteria ------------------------------
(***************************************************************************)
(* The criteria of include/criterion/new/assert.h: how the expansion of    *)
(* internal/new_asserts.h and internal/assert/op.h evaluates not, all,     *)
(* any, none and their leaves, and the tree of nodes it builds for the     *)
(* report (src/core/assert.c).                                             *)
(*                                                                         *)
(* A criterion is one of                                                   *)
(*   [op |-> "value", val |-> v]   an expression of value v                *)
(*   [op |-> o, tag |-> t, vals |-> <<a, b>>, n |-> n]                     *)
(*                       o(t, a, b) or o(t, a, b, n), o in eq, ne, lt...   *)
(*   [op |-> o, tag |-> t, elems |-> <<<<a, b>>, ...>>]                    *)
(*                       o(t[n], as, bs), element by element               *)
(*   [op |-> t, thrown |-> x]      throw, nothrow, anythrow (C++)          *)
(*   [op |-> "not", arg |-> c]                                             *)
(*   [op |-> "all"/"none"/"any", args |-> <<c, ...>>]                      *)
(*                                                                         *)
(* The state s of an expansion holds its C variables: cri_cond_expect,     *)
(* cri_cond_un, cri_cond, cri_cond_def, cri_node and cri_prevnode, ints    *)
(* all but the last two, which are positions in nodes.  The nodes are kept *)
(* in one sequence, in the order they are added: up is the position of the *)
(* parent, 0 for the root.  The pass of a node is a field of one bit.      *)
(***************************************************************************)
EXTENDS Comparisons

CONSTANT MaxNesting     \* how deep criteria are written in each other
ASSUME NestingAssumption == MaxNesting \in Nat

Groups == {"all", "none", "any"}
Exceptions == {"throw", "nothrow", "anythrow"}
IsValue(c) == c.op = "value"
IsArray(c) == "elems" \in DOMAIN c
IsThrow(c) == "thrown" \in DOMAIN c
IsLeaf(c) == c.op \notin Groups \cup {"not"}

\* What a statement may throw: nothing, the exception named in the criterion,
\* another std::exception, or something else.
Thrown == {"nothing", "expected", "std", "other"}

throws(op, thrown) ==
    CASE op = "throw"    -> thrown = "expected"
      [] op = "nothrow"  -> thrown = "nothing"
      [] op = "anythrow" -> thrown # "nothing"

Int01(b) == IF b THEN 1 ELSE 0
Not(n) == Int01(n = 0)
And(n, m) == Int01(n # 0 /\ m # 0)

\* What the program text may hold: a number, NaN or NULL, a string or a block.
Operand(tag) ==
    IF tag = "native" THEN {x \in Seq(Int) : Len(x) <= 1} ELSE Seq(Int)
Pair(tag) == Operand(tag) \X Operand(tag)
Binary == {"eq", "ne", "lt", "le", "gt", "ge"}
Close == {"epsilon_eq", "epsilon_ne", "ieee_ulp_eq", "ieee_ulp_ne"}

Compared(tag) == [op : Binary, tag : {tag}, vals : Pair(tag), n : Nat]
Listed(tag) == [op : Binary, tag : {tag}, elems : Seq(Pair(tag)) \ {<<>>}]

Scalar == [op : Close, tag : {"native"}, vals : Pair("native"), n : Nat]
          \cup Compared("native") \cup Compared("str") \cup Compared("mem")
Array == Listed("native") \cup Listed("str") \cup Listed("mem")
Leaf == [op : {"value"}, val : Int] \cup Scalar \cup Array
        \cup [op : Exceptions, thrown : Thrown]

\* The criteria with at most n others around each of their leaves.
Criterion[n \in 0 .. MaxNesting] ==
    IF n = 0 THEN Leaf
    ELSE Leaf \cup [op : {"not"}, arg : Criterion[n - 1]]
              \cup [op : Groups, args : Seq(Criterion[n - 1]) \ {<<>>}]

Node == [of : Criterion[MaxNesting], up : Nat, pass : BOOLEAN, params : BOOLEAN]
State == [expect : {0, 1}, un : Int, cond : Int, def : {0, 1},
          node : Nat, prev : Nat, nodes : Seq(Node)]

\* The functions of a tag, on the C operands: native numbers, str and wcs, mem.
isEq(tag, a, b) == CASE tag = "native" -> native_eq(a, b)
                     [] tag = "str"    -> str_eq(a, b)
                     [] tag = "mem"    -> cr_user_mem_eq(a, b)
isLt(tag, a, b) == CASE tag = "native" -> native_lt(a, b)
                     [] tag = "str"    -> str_lt(a, b)
                     [] tag = "mem"    -> cr_user_mem_lt(a, b)

tagged(c, a, b) ==
    CASE c.op = "epsilon_eq"  -> CRI_EPSILON_EQ(a, b, <<c.n>>)
      [] c.op = "epsilon_ne"  -> CRI_EPSILON_NE(a, b, <<c.n>>)
      [] c.op = "ieee_ulp_eq" -> ieee_ulp_eq(a, b, c.n)
      [] c.op = "ieee_ulp_ne" -> CRI_IEEE_ULP_T_NE(a, b, c.n)
      [] OTHER -> CRI_BINOP_T(c.op, isEq(c.tag, a, b), isLt(c.tag, a, b))

----------------------------------------------------------------------------
(* src/core/assert.c: the tree.                                            *)

\* cri_assert_node_add, under cri_node; cri_prevnode is the new node.
cri_assert_node_add(s, c, pass, params) ==
    [s EXCEPT !.nodes = Append(@, [of |-> c, up |-> s.node,
                                   pass |-> pass % 2 = 1, params |-> params]),
              !.prev = Len(s.nodes) + 1]

\* The nodes above n, the root left out.
above(nodes, n) ==
    LET up[k \in 0 .. n] == IF k = 0 THEN {} ELSE up[nodes[k].up] \cup {nodes[k].up}
    IN  up[n] \ {0}

\* A slip: the node itself and not what is under it.
cri_assert_node_negate_Top(nodes, n) == [nodes EXCEPT ![n].pass = ~@]

\* The node and all that is under it.
cri_assert_node_negate(nodes, n) ==
    [k \in DOMAIN nodes |->
        IF k = n \/ n \in above(nodes, k)
        THEN [nodes[k] EXCEPT !.pass = ~@] ELSE nodes[k]]

\* A slip: the children of the root only.
leaf_count_Shallow(nodes) ==
    Cardinality({n \in DOMAIN nodes : nodes[n].up = 0 /\ ~nodes[n].pass})

\* How many results cri_assert_node_send makes room for on its stack.
leaf_count(nodes) == Cardinality({n \in DOMAIN nodes : ~nodes[n].pass})

\* The results it writes there: the failed nodes that have parameters and
\* that are reached through failed nodes without.
collect_leaves(nodes) ==
    LET reported(n) == /\ nodes[n].params /\ ~nodes[n].pass
                       /\ \A k \in above(nodes, n) : ~nodes[k].pass /\ ~nodes[k].params
        written[n \in 0 .. Len(nodes)] ==
            IF n = 0 THEN <<>>
            ELSE IF reported(n) THEN Append(written[n - 1], nodes[n].of)
            ELSE written[n - 1]
    IN  written[Len(nodes)]

----------------------------------------------------------------------------
(* internal/new_asserts.h: the expansion.                                  *)

\* The node just added is negated when the criterion is not what is expected.
negated(s) ==
    IF s.un # s.expect
    THEN [s EXCEPT !.nodes = cri_assert_node_negate(@, s.prev)] ELSE s

\* A leaf with one value: a node is added only when it is not what is expected.
leaf(c, val, params, s) ==
    LET t == [s EXCEPT !.un = val]
    IN  IF val # s.expect THEN cri_assert_node_add(t, c, val, params) ELSE t

\* CRI_ASSERT_SPECIFIER_VALUE.
CRI_ASSERT_SPECIFIER_VALUE(c, s) == leaf(c, c.val, FALSE, s)

\* CRI_ASSERT_SPECIFIER_OPTAG_SCALAR.
CRI_ASSERT_SPECIFIER_OPTAG_SCALAR(c, s) ==
    leaf(c, Int01(tagged(c, c.vals[1], c.vals[2])), TRUE, s)

\* CRI_ASSERT_SPECIFIER_OPTAG_ARRAY: a node for the array, one for each element.
CRI_ASSERT_SPECIFIER_OPTAG_ARRAY(c, s) ==
    LET holds(k) == tagged(c, c.elems[k][1], c.elems[k][2])
        pass == Int01(\A k \in DOMAIN c.elems : holds(k))
        open == [cri_assert_node_add(s, c, pass, TRUE) EXCEPT !.node = Len(s.nodes) + 1]
        after[k \in 0 .. Len(c.elems)] ==
            IF k = 0 THEN open
            ELSE cri_assert_node_add(after[k - 1], c, Int01(holds(k)), TRUE)
    IN  [after[Len(c.elems)] EXCEPT !.un = pass, !.node = s.node]

\* CRI_ASSERT_SPECIFIER_throw, _nothrow, _anythrow: the node is added whatever
\* happens, and its pass is left at 0.
CRI_ASSERT_SPECIFIER_throw(c, s) ==
    LET un == throws(c.op, c.thrown)
    IN  cri_assert_node_add([s EXCEPT !.un = Int01(un)], c, 0, un <=> c.op = "anythrow")

\* The first expression of an expansion, the one the text in front of it
\* takes: `cri_cond_un = ', or `cri_cond || '.
first(c, s) ==
    IF c.op = "not" THEN Not(s.expect)
    ELSE IF c.op \in Groups \/ IsThrow(c) THEN s.def ELSE 1

\* In the following, inner expands the criteria inside of this one.

\* CRI_ASSERT_SPECIFIER_not.
CRI_ASSERT_SPECIFIER_not(inner, c, s) ==
    LET t == inner[c.arg][[s EXCEPT !.expect = Not(@)]]
    IN  negated([t EXCEPT !.expect = Not(@), !.un = Not(@)])

\* A slip: the last criterion decides.
ALL_INDIRECT_Last(inner, s, c) ==
    LET t == inner[c][[s EXCEPT !.un = first(c, s)]]
    IN  [t EXCEPT !.cond = t.un]

ALL_INDIRECT(inner, s, c) ==
    LET t == inner[c][[s EXCEPT !.un = first(c, s)]]
    IN  [t EXCEPT !.cond = And(s.cond, t.un)]

NONE_INDIRECT(inner, s, c) ==
    LET flip == [s EXCEPT !.expect = Not(@)]
        t == inner[c][[flip EXCEPT !.un = first(c, flip)]]
    IN  [negated(t) EXCEPT !.expect = Not(@), !.cond = And(s.cond, Not(t.un))]

\* Only the first expression is taken by the `or': what the criterion is
\* worth stays in cri_cond_un, where the next one overwrites it.
ANY_INDIRECT(inner, s, c) ==
    inner[c][[s EXCEPT !.cond = Int01(@ # 0 \/ first(c, s) # 0)]]

\* The node of a group gets its pass when all its members have been taken.
closed(nodes, n, pass) ==
    [k \in DOMAIN nodes |-> IF k = n THEN [nodes[k] EXCEPT !.pass = pass] ELSE nodes[k]]

\* all and none declare a cri_cond_un of their own, any does not: *cri_pass,
\* the one around the group, is what the group's condition is and-ed to.
group(inner, c, s) ==
    LET node == Len(s.nodes) + 1
        def  == Int01(c.op # "any")
        open == [cri_assert_node_add(s, c, 0, FALSE) EXCEPT
                    !.node = node, !.def = def, !.cond = def]
        member(t, e) == CASE c.op = "all"  -> ALL_INDIRECT(inner, t, e)
                          [] c.op = "none" -> NONE_INDIRECT(inner, t, e)
                          [] c.op = "any"  -> ANY_INDIRECT(inner, t, e)
        after[k \in 0 .. Len(c.args)] ==
            IF k = 0 THEN open ELSE member(after[k - 1], c.args[k])
        last == after[Len(c.args)]
        pass == IF c.op = "any" THEN last.un ELSE s.un
    IN  [s EXCEPT !.nodes = closed(last.nodes, node, last.cond # 0),
                  !.un = And(pass, last.cond), !.prev = node]

expanded(inner, c, s) ==
    CASE IsValue(c)        -> CRI_ASSERT_SPECIFIER_VALUE(c, s)
      [] IsArray(c)        -> CRI_ASSERT_SPECIFIER_OPTAG_ARRAY(c, s)
      [] IsThrow(c)        -> CRI_ASSERT_SPECIFIER_throw(c, s)
      [] c.op = "not"      -> CRI_ASSERT_SPECIFIER_not(inner, c, s)
      [] c.op \in Groups   -> group(inner, c, s)
      [] OTHER             -> CRI_ASSERT_SPECIFIER_OPTAG_SCALAR(c, s)

CRI_ASSERT_SPECIFIER[n \in 0 .. MaxNesting] ==
    [c \in Criterion[n] |-> [s \in State |->
        expanded(IF n = 0 THEN <<>> ELSE CRI_ASSERT_SPECIFIER[n - 1], c, s)]]

\* CRI_ASSERT_CALL, up to its `if': the assertion passes when un is 1.
CRI_ASSERT_CALL(c) ==
    LET root == [expect |-> 1, un |-> 1, cond |-> 1, def |-> 1,
                 node |-> 0, prev |-> 0, nodes |-> <<>>]
    IN  CRI_ASSERT_SPECIFIER[MaxNesting][c][[root EXCEPT !.un = first(c, root)]]

----------------------------------------------------------------------------
(* Which criteria the preprocessor and the compiler take: a group declares *)
(* cri_pass_orig where it stands, so a list holds one group at most, and   *)
(* not begins with an assignment, which `any' cannot take.                 *)

declares[n \in 0 .. MaxNesting] ==
    [c \in Criterion[n] |-> IF c.op = "not" THEN declares[n - 1][c.arg] ELSE c.op \in Groups]
Declares(c) == declares[MaxNesting][c]

compiles[n \in 0 .. MaxNesting] ==
    [c \in Criterion[n] |->
        CASE c.op = "not" -> compiles[n - 1][c.arg]
          [] c.op \in Groups ->
                /\ \A i \in DOMAIN c.args : compiles[n - 1][c.args[i]]
                /\ \A i, k \in DOMAIN c.args :
                        Declares(c.args[i]) /\ Declares(c.args[k]) => i = k
                /\ c.op = "any" => \A i \in DOMAIN c.args : c.args[i].op # "not"
          [] OTHER -> TRUE]
Compiles(c) == compiles[MaxNesting][c]
=============================================================================
