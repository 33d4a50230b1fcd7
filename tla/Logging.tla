------------------------------ MODULE Logging ------------------------------
(***************************************************************************)
(* What the logger prints: src/log/normal.c says at which level each event *)
(* is logged, src/log/logging.c prints what reaches the threshold.         *)
(*                                                                         *)
(* A line is a triple of its level, what it says, and what it is about: a  *)
(* test, a suite, an output or the run.  Wording, colors and prefixes are  *)
(* left out.                                                               *)
(***************************************************************************)
EXTENDS Naturals, Stats

INFO      == 1
IMPORTANT == 2
Line(level, what, about) == <<level, what, about>>
Run == <<>>

\* criterion_plog
printed(lines, threshold) == {l \in lines : l[1] >= threshold}

normal_log_pre_all          == {Line(INFO, "version", Run)}
normal_log_pre_suite(suite) == {Line(INFO, "suite", <<suite>>)}
normal_log_pre_init(test, disabled) ==
    {Line(INFO, IF disabled THEN "disabled" ELSE "running", test)}

\* A slip: every verdict at the level of a success.
normal_log_post_test_Info(test, t) ==
    {Line(INFO, IF t.test_status = SKIPPED THEN "skipped"
                ELSE IF t.test_status = FAILED THEN "fail" ELSE "pass", test)}

normal_log_post_test(test, t) ==
    CASE t.test_status = SKIPPED -> {Line(INFO, "skipped", test)}
      [] t.test_status = FAILED  -> {Line(IMPORTANT, "fail", test)}
      [] OTHER                   -> {Line(INFO, "pass", test)}

\* A failed assertion is shown with its place, without its test.
normal_log_assert(passed) ==
    IF passed THEN {} ELSE {Line(IMPORTANT, "assertion", Run)}

normal_log_test_timeout(test)  == {Line(IMPORTANT, "timed out", test)}
normal_log_test_crash(test)    == {Line(IMPORTANT, "crash", test)}
normal_log_other_crash(test)   == {Line(IMPORTANT, "crash outside", test)}
normal_log_abnormal_exit(test) == {Line(IMPORTANT, "exit outside", test)}
normal_log_test_abort(test)    == {Line(IMPORTANT, "abort", test)}
normal_log_post_all            == {Line(IMPORTANT, "synthesis", Run)}

\* criterion_log_noformat, for cr_log_info and the like: no test is named.
log_level(severity) == IF severity = "INFO" THEN INFO ELSE IMPORTANT
normal_log_message(severity) == {Line(log_level(severity), severity, Run)}
=============================================================================
