-------------------------- MODULE RunnerProperties --------------------------
(***************************************************************************)
(* What a run of the tests promises, over module Runner.                   *)
(***************************************************************************)
EXTENDS Runner, FiniteSetsExt, SequencesExt

\* The worker of j has died and been removed from the server.
Reaped(j) == wk[j].proc = "waited" /\ j \notin subs

\* Where the verdicts are among the events ev, how many, and how many of j.
VerdictEvent == {"POST_TEST", "TEST_CRASH", "SILENT_CRASH"}
VerdictsAt(ev) == {n \in DOMAIN ev : ev[n] \in VerdictEvent}
Given(ev) == Cardinality(VerdictsAt(ev))
VerdictCount(j) == Given(ctx[j].ev)

\* What death_callback reports of j is a signal.
Signaled(j) == wk[j].crashed /\ ~wk[j].timed_out

(* The process of j ended inside of an iteration of a theory, and not of a *)
(* signal in the theory function: handle_death has no verdict for that     *)
(* (handle_crash outside of MAIN, handle_exit in any nested state).        *)
EndedInTheory(j) == /\ nested(ctx[j].state)
                    /\ ~(Signaled(j) /\ curstate(ctx[j].state) = CS_MAIN)

(* handle_timeout and handle_skip do not look whether POST_TEST was pushed *)
(* when the teardown began.                                                *)
MayEndTwice(j) == wk[j].timed_out \/ <<"fini", "skip">> \in Test(j).may

DisabledIn(s) == {n \in DOMAIN Suites[s].tests : Suites[s].tests[n].disabled}
SkippedSoFar(s) == {n \in DisabledIn(s) :
                       \/ s < pos.suite
                       \/ s = pos.suite /\ n < pos.test}
VerdictsIn(s) == UNION {{j} \X VerdictsAt(ctx[j].ev) : j \in {k \in Job : k[1] = s}}
VerdictTotal(c) == c["tests_passed"] + c["tests_failed"] + c["tests_skipped"]

\* The counter k summed over the suites.
SumOverSuites(k) ==
    LET upto[s \in 0 .. Len(Suites)] ==
            IF s = 0 THEN 0 ELSE upto[s - 1] + ss[s][k]
    IN  upto[Len(Suites)]

----------------------------------------------------------------------------
(* Every worker that was reaped has one verdict: a test is lost only when  *)
(* its process ends inside of an iteration of a theory, and counted twice  *)
(* only when its time limit strikes, or it skips itself, after its         *)
(* teardown began (the pushes of client.c, spread over four phase handlers *)
(* and handle_death).                                                      *)
OneVerdict ==
    \A j \in Job : Reaped(j) =>
        IF EndedInTheory(j) THEN VerdictCount(j) = 0
        ELSE VerdictCount(j) \in 1 .. (IF MayEndTwice(j) THEN 2 ELSE 1)

(* At any time the counters of a suite are the verdicts given to its       *)
(* tests, plus its disabled tests, and those of the run are their sum: no  *)
(* event is pushed to another suite than the one of the test, although     *)
(* workers of two suites may run together (run_test's sref of the suite).  *)
Accounting ==
    /\ \A s \in DOMAIN Suites :
          VerdictTotal(ss[s]) = Cardinality(VerdictsIn(s))
                                + Cardinality(SkippedSoFar(s))
    /\ \A k \in SuiteCounter : g[k] = SumOverSuites(k)

(* While the loop reads messages, active_workers is the number of clients  *)
(* with a context, it never exceeds the number of jobs asked for, and it   *)
(* is not zero: the loop cannot wait for a message nobody will send.       *)
ActiveWorkers ==
    /\ Cardinality(subs) <= NbWorkers
    /\ rpc = "recv" => active = Cardinality(subs) /\ active > 0

(* A run that ends by itself has run every test that is not disabled, once *)
(* for each parameter, reaped each worker, and counted each disabled test. *)
Complete ==
    rpc = "done" =>
        /\ \A j \in Job : Reaped(j) <=> ~Test(j).disabled
        /\ \A s \in DOMAIN Suites : SkippedSoFar(s) = DisabledIn(s)

(* The hooks of a test come in the order of doc/hooks.rst: PRE_INIT first, *)
(* PRE_TEST next, then the iterations that failed, and after the verdict   *)
(* only POST_FINI (the handlers of client.c, each reporting on its own).   *)
(* A test that may end twice has two verdicts in a row.                    *)
Rank(e) == CASE e = "PRE_INIT"    -> 1
             [] e = "PRE_TEST"    -> 2
             [] e = "THEORY_FAIL" -> 3
             [] e = "TEST_CRASH"  -> 4
             [] e = "SILENT_CRASH" -> 4
             [] e = "POST_TEST"   -> 4
             [] e = "POST_FINI"   -> 5
Ordered(ev, twice) ==
    \A m, n \in DOMAIN ev : m < n =>
        \/ Rank(ev[m]) < Rank(ev[n])
        \/ ev[m] = ev[n] /\ ev[m] = "THEORY_FAIL"
        \/ ev[m] = ev[n] /\ ev[m] = "POST_TEST" /\ twice
Opens(ev) == ev # <<>> => ev[1] \in {"PRE_INIT", "SILENT_CRASH", "POST_TEST"}
HookOrder ==
    \A j \in Job : Ordered(ctx[j].ev, MayEndTwice(j)) /\ Opens(ctx[j].ev)

(* A run that reports success hides nothing: no worker died of a signal    *)
(* its test did not expect, none ran out of time, and none lived that was  *)
(* expected to die (the ok of criterion_run_all_tests_impl, which relies   *)
(* on the failures and on the warnings of handle_death).  What it may hide *)
(* happens in theories: a time limit, or an exit, inside of an iteration.  *)
NoSilentLoss ==
    rpc = "done" /\ ok /\ ~IgnoreWarnings =>
        \A j \in Job :
            /\ Signaled(j) => wk[j].code = Test(j).signal
            /\ wk[j].timed_out => Test(j).points # <<>>
            /\ wk[j].proc = "waited" /\ Test(j).signal # 0
                  => wk[j].crashed \/ EndedInTheory(j)

(* A theory is called once with every combination of its data points: the  *)
(* round it is in is the number its indices spell, the first parameter     *)
(* moving fastest, and the walk ends after the last combination, however   *)
(* the rounds ended (the carry at the end of the loop of cr_theory_main).  *)
Weights(points) ==
    LET w[i \in 0 .. Len(points)] == IF i = 0 THEN 1 ELSE w[i - 1] * points[i]
    IN  w
Numbers(points, indices) ==
    LET v[i \in 0 .. Len(points)] ==
            IF i = 0 THEN 0 ELSE v[i - 1] + indices[i] * Weights(points)[i - 1]
    IN  v
Product(points) == Weights(points)[Len(points)]
Combination(points, indices) == Numbers(points, indices)[Len(points)]
EveryCombination ==
    \A j \in Job : Test(j).points # <<>> =>
        /\ wk[j].pc \in TheoryCounter
              => wk[j].round = Combination(Test(j).points, wk[j].indices)
        /\ wk[j].pc = "stat" => wk[j].round = Product(Test(j).points)

(* With --fail-fast no worker is spawned once a worker that failed was     *)
(* reaped (the test of run_tests_async comes before the next spawn).       *)
NoSpawnAfterFailure ==
    [][FailFast /\ SpawnNext =>
         \A j \in Job : Reaped(j) => ctx[j].t.test_status # FAILED]_vars

(* A verdict is final: once a worker is reaped nothing changes the         *)
(* statistics of its test, whatever message of it is still on its way.     *)
VerdictFinal ==
    [][\A j \in Job : Reaped(j) => ctx'[j] = ctx[j]]_vars

(* The run implements the pool of jobs: a job waits until the coroutine    *)
(* spawns it, is judged from its first verdict on, and finished when its   *)
(* context is gone.                                                        *)
ToRun == {j \in Job : ~Test(j).disabled}
Earlier ==
    {p \in Job \X Job :
        LET j == p[1]
            k == p[2]
        IN  \/ j[1] < k[1]
            \/ j[1] = k[1] /\ j[2] < k[2]
            \/ j[1] = k[1] /\ j[2] = k[2] /\ j[3] < k[3]}
Judged  == {j \in Job : VerdictCount(j) > 0}
Result  == CASE rpc = "done"                      -> "complete"
             [] rpc \in {"terminated", "aborted"} -> "stopped"
             [] OTHER                             -> "open"
Pool == INSTANCE JobPool WITH
    Jobs     <- ToRun,
    Before   <- Earlier,
    Losable  <- {j \in Job : Test(j).points # <<>>},
    Workers  <- NbWorkers,
    waiting  <- {j \in ToRun : wk[j].proc = "none"},
    open     <- subs \ Judged,
    judged   <- subs \cap Judged,
    finished <- {j \in Judged : Reaped(j)},
    lost     <- {j \in Job \ Judged : Reaped(j)},
    result   <- Result
ImplementsPool == Pool!Spec

(* Every run comes to an end.                                              *)
Termination == <>(rpc \in Over)

----------------------------------------------------------------------------
(* What the documentation says and the code does not always do.            *)

(* include/criterion/types.h on timeout: a test over its limit is aborted  *)
(* and reported as timing out (handle_timeout sets timed_out).             *)
TimeoutReported ==
    \A j \in Job : Reaped(j) /\ wk[j].timed_out => ctx[j].t.timed_out
=============================================================================
