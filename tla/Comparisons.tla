---------------------------- MODULE Comparisons ----------------------------
(***************************************************************************)
(* What an assertion compares: the conditions of the macros of             *)
(* include/criterion/internal/assert.h (cr_assert_eq, cr_assert_str_eq...) *)
(* and of the tagged criteria of internal/assert/op.h, tag.h, ieee.h and   *)
(* src/capi/specifiers.c (eq(int, a, b), lt(str, a, b)...).                *)
(*                                                                         *)
(* A number is <<n>> and not-a-number is <<>>; a pointer is <<p>> and NULL *)
(* is <<>>; a string or a block of memory is the sequence of its bytes.    *)
(***************************************************************************)
EXTENDS Integers, Sequences, FiniteSets

Ops == {"==", "!=", "<", "<=", ">", ">="}

\* The C operators, on an ordering: `order op 0`.
ordered(op, order) ==
    CASE op = "==" -> order = 0
      [] op = "!=" -> order # 0
      [] op = "<"  -> order < 0
      [] op = "<=" -> order <= 0
      [] op = ">"  -> order > 0
      [] op = ">=" -> order >= 0

\* The C operators, on numbers: a comparison with NaN holds for != only.
compared(op, a, b) ==
    IF a = <<>> \/ b = <<>> THEN op = "!=" ELSE ordered(op, a[1] - b[1])

\* strcmp, wcscmp and memcmp: the first difference decides.
cmp(a, b) ==
    LET differ == {i \in DOMAIN a \cap DOMAIN b : a[i] # b[i]}
    IN  IF differ = {} THEN Len(a) - Len(b)
        ELSE LET i == CHOOSE i \in differ : \A k \in differ : i <= k
             IN  a[i] - b[i]

----------------------------------------------------------------------------
(* internal/assert.h: the conditions of the macros.                        *)

cr_assert_op_(op, actual, expected) == compared(op, actual, expected)

cr_assert_null_op_(op, value) == (value = <<>>) <=> (op = "==")

minus(a, b) == IF a = <<>> \/ b = <<>> THEN <<>> ELSE <<a[1] - b[1]>>

cr_assert_float_eq_op_(actual, expected, epsilon) ==
    /\ compared("<=", minus(expected, actual), epsilon)
    /\ compared("<=", minus(actual, expected), epsilon)

\* A slip: too far on both sides at once.
cr_assert_float_neq_op__Both(actual, expected, epsilon) ==
    /\ compared(">", minus(expected, actual), epsilon)
    /\ compared(">", minus(actual, expected), epsilon)

cr_assert_float_neq_op_(actual, expected, epsilon) ==
    \/ compared(">", minus(expected, actual), epsilon)
    \/ compared(">", minus(actual, expected), epsilon)

\* Empty, or not: of a string that is there.
cr_assert_str_op_empty_(op, value) ==
    value # <<>> /\ ((value[1] = <<>>) <=> (op = "=="))

cr_assert_str_op_(op, actual, expected) ==
    actual # <<>> /\ expected # <<>> /\ ordered(op, cmp(actual[1], expected[1]))

cr_assert_wcs_op_empty_(op, value) ==
    value # <<>> /\ ((value[1] = <<>>) <=> (op = "=="))

cr_assert_wcs_op_(op, actual, expected) ==
    actual # <<>> /\ expected # <<>> /\ ordered(op, cmp(actual[1], expected[1]))

cr_assert_mem_op_(op, actual, expected, size) ==
    ordered(op, cmp(SubSeq(actual, 1, size), SubSeq(expected, 1, size)))

\* CR_ARR_COMPARE_ in C: the elements are compared until two differ.
cr_assert_arr_op_cmp_(op, actual, expected, size) ==
    ordered(op, cmp(SubSeq(actual, 1, size), SubSeq(expected, 1, size)))

----------------------------------------------------------------------------
(* The tagged criteria in C: every one is made of the tag's eq and lt.     *)

native_eq(a, b) == compared("==", a, b)
native_lt(a, b) == compared("<", a, b)

str_eq(a, b) == cmp(a, b) = 0
str_lt(a, b) == cmp(a, b) < 0

cr_user_mem_eq(a, b) == Len(a) = Len(b) /\ cmp(a, b) = 0

\* A slip: the bytes both have, whatever the sizes.
cr_user_mem_lt_Common(a, b) ==
    \E i \in DOMAIN a \cap DOMAIN b :
        a[i] < b[i] /\ \A k \in 1 .. (i - 1) : a[k] = b[k]

cr_user_mem_lt(a, b) ==
    IF Len(a) # Len(b) THEN Len(a) < Len(b) ELSE cmp(a, b) < 0

\* CRI_BINOP_T_EQ ... CRI_BINOP_T_GT: `greater' is `not less'.
CRI_BINOP_T(op, isEq, isLt) ==
    CASE op = "eq" -> isEq
      [] op = "ne" -> ~isEq
      [] op = "lt" -> isLt
      [] op = "le" -> isLt \/ isEq
      [] op = "gt" -> ~isLt
      [] op = "ge" -> ~isLt \/ isEq

CRI_EPSILON_EQ(lhs, rhs, eps) ==
    /\ compared("<=", minus(rhs, lhs), eps)
    /\ compared("<=", minus(lhs, rhs), eps)

CRI_EPSILON_NE(lhs, rhs, eps) == ~CRI_EPSILON_EQ(lhs, rhs, eps)

\* nextafter, on numbers counted in units in the last place: one step from
\* a towards b.
nextafter(a, b) ==
    IF a = <<>> \/ b = <<>> THEN <<>>
    ELSE IF a[1] < b[1] THEN <<a[1] + 1>>
    ELSE IF a[1] > b[1] THEN <<a[1] - 1>> ELSE a

\* ieee_ulp_eq takes a step before it compares, as often as ulp says.
ieee_ulp_eq(a, b, ulp) ==
    LET walk[n \in 0 .. ulp] == IF n = 0 THEN a ELSE nextafter(walk[n - 1], b)
    IN  \E n \in 1 .. ulp : native_eq(walk[n], b)

CRI_IEEE_ULP_T_NE(a, b, ulp) == ~ieee_ulp_eq(a, b, ulp)
=============================================================================
