------------------------------- MODULE Stats -------------------------------
(***************************************************************************)
(* src/core/stats.c: the counters of a run and the events that move them.  *)
(*                                                                         *)
(* Counters of a suite and of the whole run are functions from a counter   *)
(* name to a number; every handler of stat_push_event moves the same       *)
(* counters in both, so a handler is the set of counters it increments     *)
(* and its effect on the statistics record of the test.  Links, file       *)
(* names, messages and elapsed times are left out.                         *)
(***************************************************************************)
EXTENDS Naturals

\* enum criterion_test_status
PASSED  == "PASSED"
FAILED  == "FAILED"
SKIPPED == "SKIPPED"
TestStatus == {PASSED, FAILED, SKIPPED}

\* struct criterion_suite_stats
SuiteCounter == {"nb_tests", "nb_asserts", "tests_skipped", "tests_failed",
                 "tests_crashed", "tests_passed", "asserts_failed",
                 "asserts_passed"}
\* struct criterion_global_stats
GlobalCounter == SuiteCounter \cup {"nb_suites", "errors", "warnings"}

ZeroSuite  == [k \in SuiteCounter |-> 0]
ZeroGlobal == [k \in GlobalCounter |-> 0]

Count(c, K, n) == [k \in DOMAIN c |-> IF k \in K THEN c[k] + n ELSE c[k]]

\* struct criterion_test_stats
TestStats == [test_status    : TestStatus,
              passed_asserts : Nat,
              failed_asserts : Nat,
              timed_out      : BOOLEAN,
              signal         : Nat,
              exit_code      : Nat,
              crashed        : BOOLEAN]

\* test_stats_init
FreshTest == [test_status    |-> PASSED,
              passed_asserts |-> 0,
              failed_asserts |-> 0,
              timed_out      |-> FALSE,
              signal         |-> 0,
              exit_code      |-> 0,
              crashed        |-> FALSE]

----------------------------------------------------------------------------
(* The handlers of stat_push_event that do something.  Each takes the      *)
(* statistics t of the test and returns them updated, and a set of         *)
(* counters to increment.                                                  *)

\* push_pre_init: a test that enters the run already skipped is counted so.
PreInitCounts(t) ==
    {"nb_tests"} \cup (IF t.test_status = SKIPPED THEN {"tests_skipped"} ELSE {})

\* push_assert
AssertStats(t, passed) ==
    IF passed THEN [t EXCEPT !.passed_asserts = @ + 1]
              ELSE [t EXCEPT !.failed_asserts = @ + 1]
AssertCounts(passed) == IF passed THEN {"asserts_passed"} ELSE {"asserts_failed"}

\* push_post_test: the verdict, from what the test expected to happen.
Unexpected(t, expected) ==
    \/ t.failed_asserts > 0
    \/ t.timed_out
    \/ t.signal # expected.signal
    \/ t.exit_code # expected.exit_code
PostTestStats(t, expected) ==
    IF Unexpected(t, expected) THEN [t EXCEPT !.test_status = FAILED] ELSE t
VerdictCounter(status) ==
    CASE status = FAILED  -> "tests_failed"
      [] status = PASSED  -> "tests_passed"
      [] status = SKIPPED -> "tests_skipped"
PostTestCounts(t, expected) ==
    {VerdictCounter(PostTestStats(t, expected).test_status)}

\* push_test_crash
CrashStats(t) == [t EXCEPT !.test_status = FAILED, !.crashed = TRUE]
CrashCounts   == {"tests_failed", "tests_crashed"}

\* The three counters a verdict may fall into.
Verdicts == {"tests_passed", "tests_failed", "tests_skipped"}
=============================================================================
