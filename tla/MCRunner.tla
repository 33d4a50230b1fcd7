------------------------------ MODULE MCRunner ------------------------------
(* Instances of Runner for TLC: suites of tests that may do few things each. *)
EXTENDS RunnerProperties

Plain == [disabled |-> FALSE, runs |-> 1, timeout |-> 0, signal |-> 0,
          exit_code |-> 0, points |-> <<>>, may |-> {}]
Doing(may) == [Plain EXCEPT !.may = may]
Suite(ts) == [timeout |-> 0, tests |-> ts]

\* Three suites, one of them empty; a disabled and a parameterized test, which
\* may skip itself too late, and a theory that may lose its verdict.
MixedSuites ==
    << Suite(<<Doing({<<"init", "crash">>, <<"main", "assert">>,
                      <<"main", "crash">>, <<"fini", "crash">>,
                      <<"main", "exit1">>}),
               [Plain EXCEPT !.disabled = TRUE]>>),
       Suite(<<>>),
       Suite(<<[Doing({<<"main", "skip">>, <<"fini", "skip">>,
                       <<"init", "exit0">>})
                   EXCEPT !.runs = 2],
               [Doing({<<"theory", "exit0">>, <<"fini", "die">>})
                   EXCEPT !.points = <<1>>]>>) >>

\* A theory over two parameters of two data points, a test that may fail, and
\* one that --fail-fast may keep from starting.
TheorySuites ==
    << Suite(<<[Doing({<<"theory", "assert">>, <<"theory", "expect">>,
                       <<"theory", "crash">>, <<"theory", "pass">>,
                       <<"theory", "abort">>,
                       <<"fini", "warn">>})
                  EXCEPT !.points = <<2, 2>>],
               Doing({<<"main", "error">>, <<"main", "info">>, <<"main", "die">>}),
               Plain>>) >>

\* Tests with time limits, set by the suite, by the test and capped by the
\* option, one that may hang, and one killed from outside that expects a signal.
LimitSuites ==
    << [timeout |-> 2, tests |->
          <<Doing({<<"main", "pass">>, <<"main", "skip">>, <<"main", "hang">>}),
            [Doing({<<"main", "crash">>, <<"fini", "killed">>})
               EXCEPT !.signal = SIGSEGV, !.timeout = 1]>>] >>

\* A theory over its limit, which a documented promise is checked on.
TheoryLimit   == << [timeout |-> 1, tests |-> <<[Plain EXCEPT !.points = <<1>>]>>] >>
=============================================================================
