---------------------------- MODULE MCAssertions ----------------------------
(***************************************************************************)
(* Small tests: one assertion of any kind, or two that differ in what they *)
(* do to the test.                                                         *)
(***************************************************************************)
EXTENDS AssertionProperties

Val(v) == [op |-> "value", val |-> v]
Cmp(op, a, b) == [op |-> op, tag |-> "native", vals |-> <<<<a>>, <<b>>>>, n |-> 0]
Arr(pairs) == [op |-> "eq", tag |-> "native",
               elems |-> [k \in DOMAIN pairs |-> <<<<pairs[k][1]>>, <<pairs[k][2]>>>>]]
Neg(c) == [op |-> "not", arg |-> c]
Grp(op, cs) == [op |-> op, args |-> cs]

\* The lists of at most two criteria of which one is from A.
Lists(A, B) == {<<a>> : a \in A} \cup {<<a, b>> : a \in A, b \in B}
                                 \cup {<<b, a>> : a \in A, b \in B}
Grouped(A, B) == {Grp(op, cs) : op \in Groups, cs \in Lists(A, B)}

\* All leaves, alone, negated and in one group.
Leaves ==
    {Val(v) : v \in 0 .. 2}
    \cup {Cmp(op, a, 1) : op \in {"eq", "ne", "lt", "le", "gt", "ge"}, a \in 0 .. 2}
    \cup {Arr(<<<<1, 1>>>>), Arr(<<<<1, 1>>, <<0, 1>>>>), Arr(<<<<0, 1>>, <<1, 1>>>>)}
    \cup [op : {"throw", "nothrow", "anythrow"}, thrown : Thrown]
Flat == LET L == Leaves \cup {Neg(c) : c \in Leaves} IN L \cup Grouped(L, L)

\* Groups in groups, three deep, negated or not, over fewer leaves.
Few == {Val(0), Val(2), Cmp("eq", 0, 1), Cmp("eq", 1, 1), Neg(Cmp("eq", 1, 1)), Neg(Neg(Val(0))),
        Arr(<<<<1, 1>>, <<0, 1>>>>)}
Two == {Cmp("eq", 0, 1), Cmp("eq", 1, 1)}
OneDeep == Grouped(Few, Few)
TwoDeep == Grouped(Grouped(Two, Two), Few)
\* Every tag and every operator, alone.
Texts == {<<>>, <<1>>, <<1, 2>>, <<2>>}
Reals == {<<>>, <<0>>, <<1>>, <<3>>}
Tagged ==
    [op : {"eq", "ne", "lt", "le", "gt", "ge"}, tag : {"str", "mem"}, vals : Texts \X Texts, n : {0}]
    \cup [op : {"eq", "ne", "lt", "le", "gt", "ge"}, tag : {"native"}, vals : Reals \X Reals, n : {0}]
    \cup [op : {"epsilon_eq", "epsilon_ne", "ieee_ulp_eq", "ieee_ulp_ne"}, tag : {"native"},
          vals : Reals \X Reals, n : 0 .. 3]
ThreeDeep == Grouped({Grp(op, cs) : op \in Groups, cs \in Lists(Grouped(Two, Two), Two)}, Two)
Deep == OneDeep \cup TwoDeep \cup ThreeDeep
            \cup {Neg(c) : c \in OneDeep} \cup Grouped({Neg(c) : c \in Grouped(Two, Two)}, Two)

TestedCriteria == {c \in Flat \cup Deep \cup Tagged : Compiles(c)}

Numbers == {<<>>, <<<<0>>>>, <<<<1>>>>, <<<<3>>>>}
Strings == {<<>>, <<<<>>>>, <<<<1>>>>, <<<<1, 2>>>>, <<<<2>>>>}
Blocks == {<<<<0, 1>>>>, <<<<0, 2>>>>, <<<<1, 0>>>>}
Operands(family) ==
    CASE family \in {"op", "float"} -> Numbers
      [] family \in {"mem", "arr"}  -> Blocks
      [] OTHER                      -> Strings
Unary == {"null", "empty", "wempty"}
Sizes(family) ==
    CASE family = "float" -> 0 .. 1 [] family \in {"mem", "arr"} -> 0 .. 2 [] OTHER -> {0}
Legacy(m, a, b, n) == [style |-> "legacy", fatal |-> m.fatal, family |-> m.family,
                       op |-> m.op, a |-> a, b |-> b, n |-> n]
LegacyAssertions ==
    UNION {{Legacy(m, a, b, n) : a, b \in Operands(m.family), n \in Sizes(m.family)} :
            m \in {m \in legacy_macros : m.family \notin Unary}}
    \cup UNION {{Legacy(m, a, a, 0) : a \in Operands(m.family)} :
            m \in {m \in legacy_macros : m.family \in Unary}}

Of(c, fatal) == [style |-> "criterion", fatal |-> fatal, criterion |-> c]
Throws == [style : {"throw"}, fatal : BOOLEAN, thrown : Thrown,
           op : {"throw", "no_throw", "any_throw", "none_throw"}]
Fails == [style : {"fail"}, fatal : BOOLEAN]

\* Two assertions that hold or fail, of each kind.
Mixed ==
    {Of(c, f) : c \in {Grp("none", <<Cmp("eq", 1, 1)>>), Grp("all", <<Cmp("eq", 1, 1)>>)},
                f \in BOOLEAN}
    \cup {x \in LegacyAssertions : x.family = "op" /\ x.op = "==" /\ x.a = <<<<0>>>>
                                   /\ x.b \in {<<<<0>>>>, <<<<1>>>>}}
    \cup {x \in Throws : x.op = "no_throw" /\ x.thrown \in {"nothing", "expected", "std"}}
    \cup Fails

TestBodies ==
    {<<x>> : x \in {Of(c, TRUE) : c \in TestedCriteria} \cup LegacyAssertions \cup Throws}
    \cup {<<x, y>> : x, y \in Mixed} \cup {<<x, y, z>> : x, y, z \in Mixed}
=============================================================================
