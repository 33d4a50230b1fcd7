------------------------------ MODULE Session ------------------------------
(***************************************************************************)
(* A whole run of a test program, from main (src/entry/entry.c) to its     *)
(* exit status: registration (module Registry), the environment and the    *)
(* command line (Options), the filter, the silenced outputs (Descriptors), *)
(* the run of the tests, the log (Logging) and the reports (Outputs).      *)
(*                                                                         *)
(* What module Runner models message by message is here one step for the   *)
(* start of a test, one when the server hears of it, and one for its end,  *)
(* with the effect that the handlers of module Client have together.       *)
(***************************************************************************)
EXTENDS Registry, Options, Descriptors, Outputs, Client, Logging, SequencesExt

CONSTANTS
    Sessions,      \* [linked, env, argv]: the sections in the order of the
                   \* linker, the environment and the command line
    Standard,      \* [tty, dumb, codeset]: the terminal
    Selects,       \* the patterns that compile, with the tests they match
    Endings,       \* how a test may end, see ended
    Processors,    \* get_processor_count()
    Dirs,          \* the paths that are directories
    Files          \* the file system: what is in which file

\* How a test may end: see ended.
EndingKind == {"pass", "fail", "crash", "timeout", "skip", "error", "late crash",
               "late die", "stillborn", "no signal"}

IsSequence(s) == s \in Seq({s[i] : i \in DOMAIN s})
IsOutput(o)   == o = [provider |-> o.provider, path |-> o.path]

\* NoPath stands for the paths of --output that are malformed only.
ASSUME SessionAssumption ==
    /\ Processors \in Nat \ {0}
    /\ Endings \subseteq EndingKind
    /\ NoPattern \notin DOMAIN Selects
    /\ IsFiniteSet(DOMAIN Files)
    /\ \A s \in Sessions :
          /\ s.linked.suites \in Seq(SuiteDecl \cup {Pad})
          /\ s.linked.tests \in Seq(TestDecl \cup {Pad})
          /\ IsSequence(s.env.outputs) /\ IsSequence(s.argv)
          /\ \A i \in DOMAIN s.env.outputs : IsOutput(s.env.outputs[i])
          /\ \A i \in DOMAIN s.argv :
                /\ s.argv[i].opt \in {"T", "x", "n"} => s.argv[i].arg # NoPath
                /\ s.argv[i].opt = "O" => IsOutput(s.argv[i].arg)

VARIABLES
    linked,   \* the sections, and how many entries of one have been read
    at,
    set,      \* the set of tests
    env, argv,\* what is read, and what was made of it
    cmd,
    pc,
    fds, orig,\* the descriptors of the runner, and the saved ones
    pos,      \* where the coroutine is: suite and test
    running,  \* the tests started, and those among them the server knows of
    begun,
    ts, ss, g,\* the statistics of tests, suites and run
    listed,   \* the lists of the reports: suites, and their tests
    how,      \* how each test ended
    term,     \* what has been seen of stdout and stderr
    fs,       \* the files
    pend,     \* the reports to write
    stopped,  \* by --fail-fast
    exit      \* the exit status

inputVars == <<linked, env, argv>>
statVars  == <<running, begun, ts, ss, g, listed, how>>
outVars   == <<fds, orig, term, fs, pend, stopped, exit>>
sessionVars == <<linked, at, set, env, argv, cmd, pc, fds, orig, pos, running,
                 begun, ts, ss, g, listed, how, term, fs, pend, stopped, exit>>

Standing == [n \in 0 .. 7 |-> IF n \in StdFd THEN Terminal(n) ELSE Closed]
None == <<>>          \* a function on no tests
Running == -1

SessionInit ==
    /\ \E s \in Sessions : linked = s.linked /\ env = s.env /\ argv = s.argv
    /\ at = 0 /\ set = EmptySet /\ cmd = NoCommand /\ pc = "suites"
    /\ fds = Standing /\ orig = None
    /\ pos = [suite |-> 1, test |-> 0]
    /\ running = {} /\ begun = {}
    /\ ts = None /\ ss = None /\ g = ZeroGlobal /\ listed = <<>> /\ how = None
    /\ term = [n \in {CR_STDOUT, CR_STDERR} |-> {}]
    /\ fs = Files /\ pend = <<>>
    /\ stopped = FALSE /\ exit = Running

----------------------------------------------------------------------------
(* criterion_initialize: the sections are read from their start.           *)

ReadSuite ==
    /\ pc = "suites"
    /\ IF at < Len(linked.suites)
       THEN /\ set' = register_suite(set, linked.suites[at + 1])
            /\ at' = at + 1 /\ pc' = pc
       ELSE at' = 0 /\ pc' = "tests" /\ UNCHANGED set
    /\ UNCHANGED <<inputVars, cmd, pos, statVars, outVars>>

ReadTest ==
    /\ pc = "tests" /\ at < Len(linked.tests)
    /\ set' = register_test(set, linked.tests[at + 1])
    /\ at' = at + 1
    /\ UNCHANGED <<inputVars, cmd, pc, pos, statVars, outVars>>

Initialized ==
    /\ pc = "tests" /\ at = Len(linked.tests)
    /\ at' = 0 /\ pc' = "environment"
    /\ UNCHANGED <<inputVars, set, cmd, pos, statVars, outVars>>

----------------------------------------------------------------------------
(* criterion_handle_args.                                                  *)

\* What is seen once items were written to descriptor fd of the table f.
shown(seen, f, fd, items) ==
    [n \in DOMAIN seen |-> IF f[fd] = Terminal(n) THEN seen[n] \cup items
                                                  ELSE seen[n]]

\* What handle_args writes itself is no part of the log.
Notice(what)    == Line(0, "notice", what)
Noticed(whats)  == term' = shown(term, fds, CR_STDERR, {Notice(w) : w \in whats})

ReadEnvironment ==
    /\ pc = "environment"
    /\ cmd' = read_environment(read_locale(NoCommand, Standard), env, Standard)
    /\ Noticed(environment_notices(env))
    /\ pc' = "outputs"
    /\ UNCHANGED <<inputVars, at, set, pos, statVars, fds, orig, fs, pend,
                   stopped, exit>>

ReadOutput ==
    /\ pc = "outputs"
    /\ IF at < Len(env.outputs)
       THEN /\ cmd' = read_output(cmd, env.outputs[at + 1])
            /\ at' = at + 1
            /\ pc' = IF cmd'.usage THEN "settle" ELSE pc
       ELSE at' = 0 /\ pc' = "args" /\ UNCHANGED cmd
    /\ UNCHANGED <<inputVars, set, pos, statVars, outVars>>

\* main returns, or a function of the library leaves the process.
Leave(status) == exit' = status /\ pc' = "gone"

ReadArg ==
    /\ pc = "args" /\ at < Len(argv)
    /\ cmd' = handle_option(cmd, argv[at + 1], Standard)
    /\ Noticed(option_notices(argv[at + 1]))
    /\ at' = at + 1
    /\ IF cmd'.failed THEN Leave(3) ELSE UNCHANGED <<pc, exit>>
    /\ UNCHANGED <<inputVars, set, pos, statVars, fds, orig, fs, pend, stopped>>

Settle ==
    /\ \/ pc = "settle"
       \/ pc = "args" /\ at = Len(argv)
    /\ cmd' = settle(cmd)
    /\ at' = 0 /\ pc' = "decide"
    /\ UNCHANGED <<inputVars, set, pos, statVars, outVars>>

Decide ==
    /\ pc = "decide"
    /\ env' = EmptyEnv /\ argv' = <<>>
    /\ IF decision(cmd) = "run" THEN pc' = "filter" /\ UNCHANGED exit
                                ELSE Leave(0)
    /\ UNCHANGED <<linked, at, set, cmd, pos, statVars, fds, orig, term, fs, pend,
                   stopped>>

----------------------------------------------------------------------------
(* criterion_run_all_tests, up to the first worker.                        *)

Filter ==
    /\ pc = "filter"
    /\ LET pattern == cmd.opt.pattern
       IN  \/ /\ pattern = NoPattern
              /\ pc' = "start" /\ UNCHANGED <<set, exit>>
           \/ /\ pattern \in DOMAIN Selects
              /\ set' = disable_unmatching(set, Selects[pattern])
              /\ pc' = "start" /\ UNCHANGED exit
           \/ /\ pattern \notin DOMAIN Selects \cup {NoPattern}
              /\ Leave(3) /\ UNCHANGED set
    /\ UNCHANGED <<inputVars, at, cmd, pos, statVars, fds, orig, term, fs, pend,
                   stopped>>

quiet(o) == o.logging_threshold = CRITERION_LOG_LEVEL_QUIET
logged(seen, f, o, lines) ==
    shown(seen, f, CR_STDERR, printed(lines, o.logging_threshold))

Start ==
    /\ pc = "start"
    /\ LET o == debug_options(cmd.opt)
       IN  /\ cmd' = [cmd EXCEPT !.opt = o]
           /\ IF quiet(o) THEN /\ orig' = orig_fds(fds)
                               /\ fds' = cri_silence_outputs(fds)
                          ELSE UNCHANGED <<fds, orig>>
           /\ term' = logged(term, fds', o, normal_log_pre_all)
    /\ pc' = "run"
    /\ UNCHANGED <<inputVars, at, set, pos, statVars, fs, pend, stopped, exit>>

----------------------------------------------------------------------------
(* run_tests_async with its coroutine.                                     *)

Log(lines)  == term' = logged(term, fds, cmd.opt, lines)
suite       == set.suites[pos.suite]
\* The coroutine goes on when a worker is missing.
workers     == IF cmd.opt.jobs = 0 THEN Processors ELSE cmd.opt.jobs
Resumed     == Cardinality(running) < workers
AtSuite     == pc = "run" /\ pos.suite <= Len(set.suites) /\ pos.test = 0
AtTest      == pc = "run" /\ pos.suite <= Len(set.suites)
               /\ pos.test \in DOMAIN suite.tests
test        == suite.tests[pos.test]
key         == <<suite.name, test.name>>
NextTest    == pos' = [pos EXCEPT !.test = @ + 1]
NextSuite   == pos' = [suite |-> pos.suite + 1, test |-> 0]
With(f, k, value) == [x \in DOMAIN f \cup {k} |-> IF x = k THEN value ELSE f[x]]

\* push_pre_suite and push_pre_init put what is new at the head of a list.
new_suite(name)   == <<[name |-> name, tests |-> <<>>]>> \o listed
new_test(k)       == [i \in DOMAIN listed |->
                        IF listed[i].name = k[1]
                        THEN [listed[i] EXCEPT !.tests = <<k[2]>> \o @]
                        ELSE listed[i]]

EnterSuite ==
    /\ AtSuite /\ Resumed
    /\ IF suite.tests = <<>>
       THEN NextSuite /\ UNCHANGED <<ss, g, listed, term>>
       ELSE /\ NextTest
            /\ ss' = With(ss, suite.name, ZeroSuite)
            /\ g' = Count(g, {"nb_suites"}, 1)
            /\ listed' = new_suite(suite.name)
            /\ Log(normal_log_pre_suite(suite.name))
    /\ UNCHANGED <<inputVars, at, set, cmd, pc, running, begun, ts, how,
                   fds, orig, fs, pend, stopped, exit>>

SkipDisabled ==
    /\ AtTest /\ Resumed /\ is_disabled(suite, test)
    /\ NextTest
    /\ LET t == [FreshTest EXCEPT !.test_status = SKIPPED]
       IN  /\ ts' = With(ts, key, t)
           /\ ss' = [ss EXCEPT ![suite.name] = Count(@, PreInitCounts(t), 1)]
           /\ g' = Count(g, PreInitCounts(t), 1)
    /\ listed' = new_test(key)
    /\ Log(normal_log_pre_init(key, TRUE))
    /\ UNCHANGED <<inputVars, at, set, cmd, pc, running, begun, how,
                   fds, orig, fs, pend, stopped, exit>>

Spawn ==
    /\ AtTest /\ Resumed /\ ~is_disabled(suite, test)
    /\ NextTest
    /\ running' = running \cup {key}
    /\ ts' = With(ts, key, FreshTest)
    /\ UNCHANGED <<inputVars, at, set, cmd, pc, begun, ss, g, listed, how, outVars>>

\* Reports POST_SUITE.
LeaveSuite ==
    /\ pc = "run" /\ Resumed
    /\ pos.suite <= Len(set.suites) /\ pos.test > Len(suite.tests)
    /\ NextSuite
    /\ UNCHANGED <<inputVars, at, set, cmd, pc, statVars, outVars>>

view(k) == [state |-> CS_SETUP, alive |-> TRUE, t |-> ts[k], ss |-> ss[k[1]],
            g |-> g, ev |-> <<>>]
Viewed(k, v) == /\ ts' = [ts EXCEPT ![k] = v.t]
                /\ ss' = [ss EXCEPT ![k[1]] = v.ss]
                /\ g' = v.g

\* The message of its setup.
Begin(k) ==
    /\ pc = "run" /\ k \in running \ begun
    /\ begun' = begun \cup {k}
    /\ Viewed(k, handle_pre_init(view(k)))
    /\ listed' = new_test(k)
    /\ Log(normal_log_pre_init(k, FALSE))
    /\ UNCHANGED <<inputVars, at, set, cmd, pc, pos, running, how,
                   fds, orig, fs, pend, stopped, exit>>

\* What a test expects of its process: to end by itself, or by a signal.
SIGNAL   == 11
Expected == [signal |-> 0, exit_code |-> 0]
ExpectedSignal == [signal |-> SIGNAL, exit_code |-> 0]
In(v, state) == [v EXCEPT !.state = state]

\* What the messages of a test that ends in this way leave, from BIRTH on.
ended(v, end) ==
    CASE end = "pass"    -> push_end(v, Expected)
      [] end = "no signal" -> push_end(v, ExpectedSignal)
      [] end = "fail"    -> push_end(push_assert(v, FALSE), Expected)
      [] end = "crash"   -> handle_crash(In(v, CS_MAIN), SIGNAL, Expected)
      [] end = "timeout" -> handle_timeout(In(v, CS_MAIN), Expected)
      [] end = "skip"    -> handle_skip(In(v, CS_MAIN), Expected)
      [] end = "error"   -> push_end(handle_message(v, "ERROR"), Expected)
      [] end = "late crash" ->
            handle_crash(In(push_post_test(v, Expected), CS_TEARDOWN), SIGNAL, Expected)
      [] end = "late die" ->
            handle_abort(In(push_post_test(v, Expected), CS_TEARDOWN), Expected)
      \* before the message of its setup
      [] end = "stillborn" -> handle_crash(In(v, CS_SETUP), SIGNAL, Expected)

\* And what the logger is given for them; t is the test in the end.
end_lines(k, t, end) ==
    CASE end \in {"pass", "skip", "no signal"} -> normal_log_post_test(k, t)
      [] end = "fail" -> normal_log_assert(FALSE) \cup normal_log_post_test(k, t)
      [] end = "crash"   -> normal_log_test_crash(k)
      [] end = "timeout" -> normal_log_test_timeout(k)
      [] end = "error" ->
            normal_log_message("ERROR") \cup normal_log_post_test(k, t)
      [] end = "late crash" ->
            normal_log_post_test(k, t) \cup normal_log_other_crash(k)
      [] end = "late die" ->
            normal_log_post_test(k, FreshTest) \cup normal_log_test_abort(k)
      [] end = "stillborn" -> normal_log_other_crash(k)

\* Everything a worker prints goes where the standard output of the runner
\* went when it was started.
Printed(k) == Line(0, "printed", k)

End(k, end) ==
    /\ pc = "run" /\ k \in running
    /\ end \in Endings /\ (end = "stillborn" <=> k \notin begun)
    /\ Viewed(k, ended(view(k), end))
    /\ how' = With(how, k, end)
    /\ running' = running \ {k} /\ begun' = begun \ {k}
    /\ term' = logged(IF end = "stillborn" THEN term
                      ELSE shown(term, fds, CR_STDOUT, {Printed(k)}),
                      fds, cmd.opt, end_lines(k, ts'[k], end))
    /\ IF ts'[k].test_status = FAILED /\ cmd.opt.fail_fast
       THEN pc' = "finish" /\ stopped' = TRUE
       ELSE UNCHANGED <<pc, stopped>>
    /\ UNCHANGED <<inputVars, at, set, cmd, pos, listed, fds, orig, fs, pend, exit>>

RunEnds ==
    /\ pc = "run" /\ pos.suite > Len(set.suites) /\ running = {}
    /\ pc' = "finish"
    /\ UNCHANGED <<inputVars, at, set, cmd, pos, statVars, outVars>>

----------------------------------------------------------------------------
(* The end of criterion_run_all_tests_impl, or cr_terminate.               *)

stats == [g |-> g,
          suites |-> [i \in DOMAIN listed |->
              [name |-> listed[i].name, ss |-> ss[listed[i].name],
               tests |-> [n \in DOMAIN listed[i].tests |->
                   [name |-> listed[i].tests[n],
                    t |-> ts[<<listed[i].name, listed[i].tests[n]>>]]]]]]

\* The reporters are walked in the order of a hash table, the outputs of each
\* in the order in which they were added.
Requested == {i \in DOMAIN cmd.outputs : cmd.outputs[i].provider \in Providers}
reporter(i) == cmd.outputs[i].provider
Walks ==
    {w \in [1 .. Cardinality(Requested) -> Requested] :
        \A i, j \in DOMAIN w : i < j =>
            /\ reporter(w[i]) = reporter(w[j]) => w[i] < w[j]
            /\ reporter(w[i]) # reporter(w[j]) =>
                  \A k \in DOMAIN w : k > j => reporter(w[k]) # reporter(w[i])}

Finish ==
    /\ pc = "finish"
    /\ IF ~stopped /\ quiet(cmd.opt)
       THEN fds' = cri_restore_outputs(fds, orig) ELSE UNCHANGED fds
    /\ \E w \in Walks : pend' = [i \in DOMAIN w |-> cmd.outputs[w[i]]]
    /\ pc' = "report"
    /\ UNCHANGED <<inputVars, at, set, cmd, pos, statVars, orig, term, fs,
                   stopped, exit>>

Reported(r) == Line(0, "report", r)

\* One turn of the inner loop of process_all_output.
Write(o) ==
    LET r    == report_of(o.provider, stats)
        name == file_of(fs, Dirs, o.path, o.provider)
        note(level) == logged(term, fds, cmd.opt, {Line(level, "output", <<o.path>>)})
    IN  CASE o.path = "-" ->
               term' = shown(note(INFO), fds, CR_STDOUT, {Reported(r)}) /\ UNCHANGED fs
          [] o.path = "/dev/stderr" ->
               term' = shown(note(INFO), fds, CR_STDERR, {Reported(r)}) /\ UNCHANGED fs
          [] OTHER ->
               IF name \in DOMAIN fs
               THEN term' = note(INFO) /\ fs' = [fs EXCEPT ![name] = r]
               ELSE term' = note(IMPORTANT) /\ UNCHANGED fs

WriteReport ==
    /\ pc = "report" /\ pend # <<>>
    /\ Write(Head(pend))
    /\ pend' = Tail(pend)
    /\ UNCHANGED <<inputVars, at, set, cmd, pc, pos, statVars, fds, orig,
                   stopped, exit>>

run_ok == /\ g["tests_failed"] = 0 /\ g["errors"] = 0
          /\ cmd.opt.ignore_warnings \/ g["warnings"] = 0

\* The handler of SIGTERM leaves with 1; main returns what the run was.
status == IF stopped THEN 1
          ELSE IF cmd.opt.always_succeed \/ run_ok THEN 0 ELSE 1

Return ==
    /\ pc = "report" /\ pend = <<>>
    /\ Log(normal_log_post_all)
    /\ Leave(status)
    /\ UNCHANGED <<inputVars, at, set, cmd, pos, statVars, fds, orig, fs, pend,
                   stopped>>

----------------------------------------------------------------------------
Prepare == \/ ReadSuite \/ ReadTest \/ Initialized
           \/ ReadEnvironment \/ ReadOutput \/ ReadArg \/ Settle \/ Decide
           \/ Filter \/ Start
RunTests == \/ EnterSuite \/ SkipDisabled \/ Spawn \/ LeaveSuite \/ RunEnds
            \/ \E k \in running : Begin(k) \/ \E end \in Endings : End(k, end)
Conclude == Finish \/ WriteReport \/ Return
Gone == pc = "gone" /\ UNCHANGED sessionVars

SessionNext == Prepare \/ RunTests \/ Conclude \/ Gone
SessionSpec == SessionInit /\ [][SessionNext]_sessionVars
=============================================================================
