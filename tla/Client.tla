------------------------------- MODULE Client -------------------------------
(***************************************************************************)
(* src/core/client.c: what the message server does with one message of     *)
(* one client.                                                             *)
(*                                                                         *)
(* A view v gathers everything a handler reads and writes:                 *)
(*   v.state, v.alive, v.t   the client context and its test statistics    *)
(*   v.ss, v.g               the counters of its suite and of the run      *)
(*   v.ev                    the events pushed and reported for the test   *)
(* and every handler maps a view to a view.  The client states are kept as *)
(* the code keeps them: a number whose two low bits are the current state, *)
(* and whose higher bits stack the states of the enclosing tests.          *)
(***************************************************************************)
EXTENDS Naturals, Sequences, Stats

\* enum client_state: the four states, then the three non-states.
CS_SETUP    == 0
CS_MAIN     == 1
CS_TEARDOWN == 2
CS_END      == 3
CS_ABORT    == 4
CS_TIMEOUT  == 5
CS_SKIP     == 6
Phases == CS_SETUP .. CS_SKIP

CS_MAX_CLIENT_STATES == 4
\* The first number with a bit among the two that hold the state of the
\* sixteenth enclosing test: 4^(MAX_TEST_DEPTH - 1).
DEPTH_LIMIT == 1073741824

\* The states the stack reaches: a test, and at most one theory iteration in it.
ClientState == 0 .. 6

\* The events seen for a test. SILENT_CRASH is TEST_CRASH pushed to the
\* statistics and not reported to the hooks.
EventKind == {"PRE_INIT", "PRE_TEST", "THEORY_FAIL", "TEST_CRASH",
              "SILENT_CRASH", "POST_TEST", "POST_FINI"}

curstate(s)  == s % CS_MAX_CLIENT_STATES
nested(s)    == s >= CS_MAX_CLIENT_STATES
push_state(s) == s * CS_MAX_CLIENT_STATES
pop_state(s) == IF nested(s) THEN s \div CS_MAX_CLIENT_STATES ELSE CS_END

View == [state : ClientState, alive : BOOLEAN, t : TestStats,
         ss : [SuiteCounter -> Nat], g : [GlobalCounter -> Nat],
         ev : Seq(EventKind)]

----------------------------------------------------------------------------
(* stat_push_event, then the report hooks of the same kind.                *)

Tally(v, K)   == [v EXCEPT !.ss = Count(@, K, 1), !.g = Count(@, K, 1)]
Report(v, e)  == [v EXCEPT !.ev = Append(@, e)]

push_pre_init(v) == Report(Tally(v, PreInitCounts(v.t)), "PRE_INIT")

push_assert(v, passed) ==
    [Tally(v, AssertCounts(passed)) EXCEPT !.t = AssertStats(@, passed)]

push_post_test(v, expected) ==
    Report([Tally(v, PostTestCounts(v.t, expected))
              EXCEPT !.t = PostTestStats(@, expected)], "POST_TEST")

push_post_fini(v) == Report(v, "POST_FINI")

push_test_crash(v, reported) ==
    Report([Tally(v, CrashCounts) EXCEPT !.t = CrashStats(@)],
           IF reported THEN "TEST_CRASH" ELSE "SILENT_CRASH")

\* POST_TEST and POST_FINI pushed together, as every early end of a test does.
push_end(v, expected) == push_post_fini(push_post_test(v, expected))

----------------------------------------------------------------------------
(* The phase handlers.  Inside a theory iteration (a nested state) only    *)
(* handle_abort does something, and what it does is a report.              *)

handle_birth(v) == [v EXCEPT !.alive = TRUE]

handle_pre_init(v)  == IF v.state = 0 THEN push_pre_init(v) ELSE v

handle_pre_test(v)  == IF nested(v.state) THEN v ELSE Report(v, "PRE_TEST")

handle_post_test(v, expected) ==
    IF nested(v.state) THEN v ELSE push_post_test(v, expected)

handle_post_fini(v) == IF nested(v.state) THEN v ELSE push_post_fini(v)

\* A slip: the verdict given again to a test that dies in its teardown.
handle_abort_Twice(v, expected) ==
    IF nested(v.state) THEN Report(v, "THEORY_FAIL")
    ELSE push_end([v EXCEPT !.t.test_status = FAILED], expected)

handle_abort(v, expected) ==
    LET failed == [v EXCEPT !.t.test_status = FAILED]
        tested == IF curstate(v.state) < CS_TEARDOWN
                  THEN push_post_test(failed, expected) ELSE failed
    IN  IF nested(v.state) THEN Report(v, "THEORY_FAIL")
        ELSE IF curstate(v.state) < CS_END THEN push_post_fini(tested)
        ELSE tested

handle_timeout(v, expected) ==
    IF nested(v.state) THEN v
    ELSE push_end([v EXCEPT !.t.timed_out = TRUE], expected)

handle_skip(v, expected) ==
    IF nested(v.state) THEN v
    ELSE push_end([v EXCEPT !.t.test_status = SKIPPED], expected)

----------------------------------------------------------------------------
(* handle_phase: the guards, the handler, and the move of the stack.       *)

\* A slip: the non-states held to the order of the states.
phase_refused_NonStates(s, new) ==
    IF new = CS_SETUP THEN s # 0 /\ s # CS_MAIN
                      ELSE new # curstate(s) + 1

\* A phase message the server answers with an error, before any effect.
phase_refused(s, new) ==
    IF new = CS_SETUP
    THEN \/ s # 0 /\ s # CS_MAIN
         \/ s >= DEPTH_LIMIT
    ELSE \/ curstate(s) = CS_END
         \/ new <= CS_END /\ new # curstate(s) + 1

\* Two slips: END counted like the other states; ABORT ending the whole test.
next_state_NoPop(s, new) ==
    IF new > CS_END THEN pop_state(s)
    ELSE IF new = CS_SETUP THEN push_state(s)
    ELSE s + 1
next_state_AbortAll(s, new) ==
    IF new > CS_END THEN CS_END
    ELSE IF new = CS_END THEN pop_state(s)
    ELSE IF new = CS_SETUP THEN push_state(s)
    ELSE s + 1

next_state(s, new) ==
    IF new >= CS_END THEN pop_state(s)
    ELSE IF new = CS_SETUP THEN push_state(s)
    ELSE s + 1

phase_handler(v, new, expected) ==
    CASE new = CS_SETUP    -> handle_pre_init(v)
      [] new = CS_MAIN     -> handle_pre_test(v)
      [] new = CS_TEARDOWN -> handle_post_test(v, expected)
      [] new = CS_END      -> handle_post_fini(v)
      [] new = CS_ABORT    -> handle_abort(v, expected)
      [] new = CS_TIMEOUT  -> handle_timeout(v, expected)
      [] new = CS_SKIP     -> handle_skip(v, expected)

handle_phase(v, new, expected) ==
    [phase_handler(v, new, expected) EXCEPT !.state = next_state(@, new)]

----------------------------------------------------------------------------
(* handle_death: the verdict of a test that did not come to its end.       *)

warn(v) == [v EXCEPT !.g = Count(@, {"warnings"}, 1)]

\* A slip: a crash outside of the test function only logged.
handle_crash_Silent(v, signal, expected) ==
    IF curstate(v.state) # CS_MAIN
    THEN IF v.state < CS_MAIN THEN push_test_crash(v, FALSE) ELSE v
    ELSE LET signaled == [v EXCEPT !.t.signal = signal]
         IN  IF expected.signal = 0 THEN push_test_crash(signaled, TRUE)
                                    ELSE push_end(signaled, expected)

handle_crash(v, signal, expected) ==
    IF curstate(v.state) # CS_MAIN
    THEN IF v.state < CS_MAIN THEN push_test_crash(warn(v), FALSE) ELSE warn(v)
    ELSE LET signaled == [v EXCEPT !.t.signal = signal]
         IN  IF expected.signal = 0 THEN push_test_crash(signaled, TRUE)
                                    ELSE push_end(signaled, expected)

\* A slip: the end of any process taken for the end of its test.
handle_exit_Always(v, code, expected) ==
    push_end([v EXCEPT !.t.exit_code = code], expected)

handle_exit(v, code, expected) ==
    IF curstate(v.state) = CS_TEARDOWN \/ v.state = CS_SETUP
    THEN IF v.state = CS_SETUP THEN push_test_crash(v, FALSE) ELSE v
    ELSE LET exited == [v EXCEPT !.t.exit_code = code]
         IN  IF v.state = CS_MAIN THEN push_end(exited, expected) ELSE exited

handle_death(v, crashed, code, expected) ==
    LET dead == [v EXCEPT !.alive = FALSE]
    IN  IF crashed THEN handle_crash(dead, code, expected)
                   ELSE handle_exit(dead, code, expected)

----------------------------------------------------------------------------
(* The messages that only count.                                           *)

handle_assert(v, passed) == push_assert(v, passed)

handle_statistic(v, n) ==
    LET K == {"asserts_passed", "nb_asserts"}
    IN  [v EXCEPT !.t.passed_asserts = @ + n,
                  !.ss = Count(@, K, n), !.g = Count(@, K, n)]

handle_message(v, severity) ==
    [v EXCEPT !.g = Count(@, IF severity = "ERROR" THEN {"errors"}
                             ELSE IF severity = "WARNING" THEN {"warnings"}
                             ELSE {}, 1)]
=============================================================================
