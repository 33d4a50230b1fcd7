----------------------------- MODULE Assertions -----------------------------
(***************************************************************************)
(* What a test does with its assertions: the macros of                     *)
(* include/criterion/internal/assert.h (cr_assert_eq...), those of         *)
(* internal/new_asserts.h (cr_assert, cr_expect on a criterion), the       *)
(* messages they send (src/core/assert.c, src/core/report.c) and what the  *)
(* runner counts (src/core/stats.c, src/core/client.c).                    *)
(*                                                                         *)
(* An assertion is [style, fatal, ...]: fatal for cr_assert_x, not for     *)
(* cr_expect_x.  Of style "legacy" it has the family and operator of its   *)
(* macro and the operands; "criterion" has a criterion; "throw" is one of  *)
(* the C++ macros on a statement; "fail" is cr_fatal or cr_fail.  A send   *)
(* waits for the runner's answer (module Worker), so that what the runner  *)
(* does with the message is part of the step.                              *)
(***************************************************************************)
EXTENDS Criteria

CONSTANT Bodies     \* the tests: sequences of assertions

VARIABLES
    full_stats,     \* criterion_options.full_stats
    body,           \* the test that runs
    i,              \* its next assertion
    pc,             \* "main", "stat", "ended", or "died"
    last,           \* the last assertion: did it hold, and its tree
    passed_asserts, \* the counter of src/core/test.c
    told,           \* the messages the assertions sent
    counted         \* what the runner holds of the test

vars == <<full_stats, body, i, pc, last, passed_asserts, told, counted>>

\* The table of macros of internal/assert.h: each in two forms, cr_assert_x
\* and cr_expect_x.
legacy_macros ==
    [fatal : BOOLEAN, family : {"op", "str", "wcs", "arr"}, op : Ops]
    \cup [fatal : BOOLEAN, family : {"null", "float", "empty", "wempty", "mem"},
          op : {"==", "!="}]

\* The operands are <<>>, for NULL or NaN, or <<s>>: s is the string or the
\* block, or has the number as its only item.  n is a tolerance or a size.
number(operand) == [k \in DOMAIN operand |-> operand[k][1]]

\* A tolerance is a number, no more of a block is compared than there is, and
\* the macros of one operand have it twice.
LegacyAssertion ==
    LET Number == {x \in Seq(Seq(Int)) : Len(x) <= 1 /\ \A k \in DOMAIN x : Len(x[k]) = 1}
        Bytes  == {x \in Seq(Seq(Int)) : Len(x) <= 1}
        of(x)  == CASE x.family \in {"op", "float"} -> x.a \in Number /\ x.b \in Number
                    [] x.family \in {"mem", "arr"} -> /\ x.a # <<>> /\ x.n <= Len(x.a[1])
                                                      /\ x.b # <<>> /\ x.n <= Len(x.b[1])
                    [] x.family \in {"null", "empty", "wempty"} -> x.b = x.a
                    [] OTHER -> TRUE
    IN  {x \in [style : {"legacy"}, fatal : BOOLEAN, op : Ops, a : Bytes, b : Bytes, n : Nat,
                family : {m.family : m \in legacy_macros}] :
            /\ [fatal |-> x.fatal, family |-> x.family, op |-> x.op] \in legacy_macros
            /\ of(x)}

Assertion ==
    LegacyAssertion \cup [style : {"criterion"}, fatal : BOOLEAN, criterion : Criterion[MaxNesting]]
           \cup [style : {"fail"}, fatal : BOOLEAN]
           \cup [style : {"throw"}, fatal : BOOLEAN, thrown : Thrown,
                 op : {"throw", "no_throw", "any_throw", "none_throw"}]

ASSUME BodiesAssumption == \A b \in Bodies : b \in Seq(Assertion)

legacy_holds(x) ==
    CASE x.family = "op"     -> cr_assert_op_(x.op, number(x.a), number(x.b))
      [] x.family = "null"   -> cr_assert_null_op_(x.op, x.a)
      [] x.family = "float"  ->
            IF x.op = "==" THEN cr_assert_float_eq_op_(number(x.a), number(x.b), <<x.n>>)
                           ELSE cr_assert_float_neq_op_(number(x.a), number(x.b), <<x.n>>)
      [] x.family = "empty"  -> cr_assert_str_op_empty_(x.op, x.a)
      [] x.family = "str"    -> cr_assert_str_op_(x.op, x.a, x.b)
      [] x.family = "wempty" -> cr_assert_wcs_op_empty_(x.op, x.a)
      [] x.family = "wcs"    -> cr_assert_wcs_op_(x.op, x.a, x.b)
      [] x.family = "mem"    -> cr_assert_mem_op_(x.op, x.a[1], x.b[1], x.n)
      [] x.family = "arr"    -> cr_assert_arr_op_cmp_(x.op, x.a[1], x.b[1], x.n)

Init ==
    /\ full_stats \in BOOLEAN
    /\ body \in Bodies
    /\ i = 1 /\ pc = "main"
    /\ last = [holds |-> TRUE, nodes |-> <<>>]
    /\ passed_asserts = 0
    /\ told = <<>>
    /\ counted = [passed |-> 0, failed |-> 0]

----------------------------------------------------------------------------
\* The assertion the test is at.
At(style) == pc = "main" /\ i <= Len(body) /\ body[i].style = style

\* criterion_send_assert, cri_assert_node_send: the message, and push_assert.
Send(passed, results) ==
    /\ told' = Append(told, [passed |-> passed, results |-> results])
    /\ counted' = IF passed THEN [counted EXCEPT !.passed = @ + 1]
                            ELSE [counted EXCEPT !.failed = @ + 1]

Quiet == UNCHANGED <<told, counted>>

\* criterion_abort_test jumps out of the test, criterion_continue_test returns.
Fail(holds) ==
    /\ i' = i + 1
    /\ pc' = IF ~holds /\ body[i].fatal THEN "stat" ELSE pc

\* cr_assert_impl: a passed assertion is sent with --full-stats only.
cr_assert_impl ==
    /\ At("legacy")
    /\ LET holds == legacy_holds(body[i])
       IN  /\ IF ~holds \/ full_stats THEN Send(holds, <<>>) ELSE Quiet
           /\ passed_asserts' = IF holds THEN passed_asserts + 1 ELSE passed_asserts
           /\ last' = [holds |-> holds, nodes |-> <<>>]
           /\ Fail(holds)
    /\ UNCHANGED <<full_stats, body>>

\* CRI_ASSERT_CALL: nothing is sent nor counted when the criterion holds.
cr_assert_user ==
    /\ At("criterion")
    /\ LET end == CRI_ASSERT_CALL(body[i].criterion)
           holds == end.un = end.expect
       IN  /\ IF holds THEN Quiet ELSE Send(FALSE, collect_leaves(end.nodes))
           /\ last' = [holds |-> holds, nodes |-> end.nodes]
           /\ Fail(holds)
    /\ UNCHANGED <<full_stats, body, passed_asserts>>

\* cr_fatal, cr_fail: CRI_ASSERT_FAIL.
cr_assert_fail_user ==
    /\ At("fail")
    /\ Send(FALSE, <<>>)
    /\ last' = [holds |-> FALSE, nodes |-> <<>>]
    /\ Fail(FALSE)
    /\ UNCHANGED <<full_stats, body, passed_asserts>>

\* cr_assert_throw, _no_throw, _any_throw, _none_throw: no count when they pass.
cr_assert_throw ==
    /\ At("throw")
    /\ LET x == body[i]
           holds == CASE x.op = "throw"      -> x.thrown = "expected"
                      [] x.op = "no_throw"   -> x.thrown = "nothing"
                      [] x.op = "any_throw"  -> x.thrown # "nothing"
                      [] x.op = "none_throw" -> x.thrown = "nothing"
           escapes == x.op = "no_throw" /\ x.thrown \in {"std", "other"}
       IN  IF escapes
           THEN /\ pc' = "died"     \* CR_TEST_TRAMPOLINE_: criterion_test_die
                /\ UNCHANGED <<i, last, told, counted>>
           ELSE /\ IF holds THEN Quiet ELSE Send(FALSE, <<>>)
                /\ last' = [holds |-> holds, nodes |-> <<>>]
                /\ Fail(holds)
    /\ UNCHANGED <<full_stats, body, passed_asserts>>

\* The function of the test returns.
Return ==
    /\ pc = "main" /\ i > Len(body)
    /\ pc' = "stat"
    /\ UNCHANGED <<full_stats, body, i, last, passed_asserts, told, counted>>

\* A slip: the counter sent whatever the option.
Statistic_Always ==
    /\ pc = "stat"
    /\ pc' = "ended"
    /\ counted' = [counted EXCEPT !.passed = @ + passed_asserts]
    /\ UNCHANGED <<full_stats, body, i, last, passed_asserts, told>>

\* criterion_internal_test_main, after the function, and handle_statistic.
Statistic ==
    /\ pc = "stat"
    /\ pc' = "ended"
    /\ counted' = IF full_stats THEN counted
                  ELSE [counted EXCEPT !.passed = @ + passed_asserts]
    /\ UNCHANGED <<full_stats, body, i, last, passed_asserts, told>>

Next == \/ cr_assert_impl \/ cr_assert_user \/ cr_assert_fail_user
        \/ cr_assert_throw \/ Return \/ Statistic

Spec == Init /\ [][Next]_vars
=============================================================================
