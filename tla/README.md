# Criterion, specified

This directory holds a formal model of Criterion, the unit testing framework of
this repository: TLA+ modules translated from the C sources, TLC configurations
that check them on small instances, and proofs of the properties that matter
most, checked by TLAPS for every value of the parameters.

Paths are relative to the repository (`src/src/core/client.c` is the message
server), line numbers are those of the commit beside which this directory lies.

## 1. The system

Criterion runs every test in a process of its own. One process, the *runner*,
starts *workers* (through boxfort), up to `--jobs` of them at a time, and reads
the messages they send over a nanomsg request/reply socket. A worker announces
itself (BIRTH), then each *phase* of its test (SETUP, MAIN, TEARDOWN, END), and
waits for the answer to each message before it goes on. When the process ends, a
thread of the runner calls `death_callback`, which sends the last message of the
worker from inside the runner (DEATH, preceded by a TIMEOUT phase when the time
limit was the cause). The runner reaps a worker when a message leaves its client
*not alive*, and asks a coroutine for the next test.

    cri_run_next_test  --- next job --->  run_tests_async  --- spawn --->  worker
      (coroutine)                          |     ^                          |
                                           |     +--- request / answer -----+
                                           v     ^                          v
                                     handle_* <--+---- death_callback <-- its end
                                        |
                                        +--> stats (suite, run), report hooks, log

### Inventory

| Component | Sources (`src/src/`) | State | Operations | What makes it correct |
|---|---|---|---|---|
| Runner loop | `core/runner.c` | `active_workers`, the server context | spawn, read, reap, fail-fast, clean up, result | every enabled test runs, the loop ends, never waits for nobody, success hides nothing |
| Scheduler | `core/runner_coroutine.c`, `core/coroutine.h` | position in suites, tests, parameters | next suite / test / parameter, `skip_disabled`, `run_test` | each job once, disabled tests counted, limits from three sources |
| Message server | `core/client.c` | one context per client: stacked state, alive, statistics | one handler per message, refusals | one verdict per test, workers never refused, hooks in order |
| Statistics | `core/stats.c` | counters of test, suite and run | one handler per event | sums agree, the verdict follows what was observed |
| Worker | `core/test.c`, `core/abort.c`, `io/event.c`, `include/criterion/internal/test.h` | where the test stands, the landing of the long jump | trampoline, abort, skip, die, assert | every way to end leads to a verdict |
| Theories | `core/theories.c` | indices of the data points, round | one nested test per combination | every combination once, a failure seen |
| Messaging | `protocol/*`, `mutex.c` | sockets, two mutexes | request/answer, abort on error | one request in flight per process, answers matched, one answer per message |
| Report hooks | `core/report.c` | table of hooks | call every hook of a kind | order of phases |
| Assertions | `core/assert.c`, `include/criterion/internal/assert.h`, `new_asserts.h`, `assert/*.h` | the variables that an assertion expands to, a tree of nodes | evaluate, negate, group, collect, send, abort | the value of a criterion is its meaning, the report shows what is to blame, all are counted |
| Registration | `core/ordered-set.c`, `core/runner.c:79-205` | sorted lists of suites and tests | insert, filter | sorted, no duplicate, totals agree |
| Options | `entry/*` | `criterion_options` | defaults, environment, flags | precedence |
| Filter patterns | `string/extglobmatch.c`, `string/brz.c` | one compiled pattern | compile, match | agrees with the meaning of an extended glob |
| Logging | `log/*` | none | one message per event | severities counted, a failure is seen |
| Output providers | `io/output.c`, `json.c`, `tap.c`, `xml.c` | table of providers and paths | register, write | every output written once, where it was asked for; all reports agree |
| Redirection, mock files | `io/redirect.c`, `io/file.c`, `compat/pipe.c`, `compat/mockfile.c`, `capi/stream.c` | pipes, a growing buffer and a cursor | redirect, read, write, seek, compare | bytes kept, limits respected |
| Portability | `compat/*` | none | system calls, sections | - |
| Text utilities | `string/diff.c`, `fmt.c`, `i18n.c`, `xxd.c` | none | formatting | - |

### What is hard to test

* the messages of several workers interleave with each other and with the walk
  of the coroutine, which may be suites ahead of the test a message is about;
* a test can stop in any section, in ten ways (return, failed assertion, skip,
  die, exit, signal, time limit, kill, hang, error answer), and five handlers
  share the duty of giving it one verdict;
* a theory packs the states of nested tests into one integer;
* a death is two messages of a thread of the runner, and the runner waits for
  that thread when it reaps;
* a filter pattern is compiled with two stacks and two counters, and matched by
  derivatives through any nesting of negation and repetition;
* a time limit may elapse anywhere, before BIRTH and after END included;
* the criteria of an assertion are macros that share variables, shadow them in
  groups and change them in negations;
* redirections work on the numbers of descriptors, which the system reuses;
* the options are set from eight variables and thirty options that overwrite one
  another, and the outputs are closed and restored around the run;
* several threads of a process share one socket, and a message may be sent
  twice.

`PROJECT.json` lists these hazards at the lines where they bite, with the
properties that watch them.

## 2. The modules

| Module | Models | Kind |
|---|---|---|
| `Stats` | `stats.c`: counters as functions, each event as the set of counters it moves and its effect on the test | operators |
| `Client` | `client.c`: each handler as a map of views (client context, its statistics, the counters, the events) | operators |
| `Theory` | `cr_theory_main`: the odometer over the data points of the parameters | operators |
| `Worker` | `run_test_child`, `test.c`, `abort.c`, `theories.c`, `death_callback`, the client half of `messages.c` | state machine of all workers |
| `Runner` | `runner.c`, the coroutine, the server half of `messages.c`, composed with `Worker` | state machine, `Spec`, `FairSpec` |
| `JobPool` | what a run promises to its caller: jobs started in order, at most so many unfinished, each judged before it is removed or lost where that may happen | abstract specification |
| `RunnerProperties` | what a run promises, and the refinement mapping to `JobPool` | properties |
| `MCRunner` | suites for TLC | instances |
| `Globs` | the constructors of `brz.c` | operators |
| `Brz` | nullable, derivatives and matching of `brz.c` | recursive operators |
| `Extglob` | `compile` of `extglobmatch.c`, one action per case of its loop | state machine, `Spec` |
| `Filter` | `disable_unmatching` of `runner.c`, composed with `Extglob` and `Brz` | state machine, `FilterSpec` |
| `FilterProperties` | the documented meaning of a pattern as a set of identifiers, and well-formed texts | properties |
| `MCFilter` | patterns for TLC | instances |
| `RunnerProofs`, `TheoryProofs`, `ExtglobProofs` | theorems about the operators and about `Spec` | proofs |
| `VerdictProofs` | theorems about the properties of `RunnerProperties`, the refinement of `JobPool` included | proofs |
| `MockFile` | `compat/mockfile.c`: the memory, the cursor and the growth of a mock file | state machine, `MockSpec` |
| `ByteFile` | what a mock file promises: a sequence of bytes of limited length | abstract specification |
| `Descriptors` | the redirections of `compat/pipe.c` on a table of descriptors | operators |
| `Redirect` | `io/redirect.c`, `io/file.c`: a test that redirects, prints, reads and compares, composed with `MockFile` (the file it compares with) and `Descriptors` | state machine and properties, `RedirectSpec` |
| `Registry` | `ordered-set.c`, the registration and the filter of `runner.c` | operators |
| `Options` | `entry/params.c`: every variable, option and output, and what follows of them | operators |
| `Outputs` | `io/tap.c`, `xml.c`, `json.c`: what each report says of a test, a suite and a run; the names of files | operators |
| `Logging` | `log/normal.c`: the lines of each event and their levels | operators |
| `Session` | `main` from the registration to the exit status, composed of the four above with `Client` and `Descriptors` | state machine, `SessionSpec` |
| `Comparisons` | what the macros of `internal/assert.h` and the tags of `internal/assert/*.h` compare | operators |
| `Criteria` | the expansion of a criterion: the shared variables, the tree of nodes, its results (`new_asserts.h`, `op.h`, `exceptions.h`, `core/assert.c`) | operators |
| `Assertions` | a test that runs assertions of both families: what fails, aborts, is sent and is counted | state machine, `Spec` |
| `Messages` | `messages.c`, `mutex.c` and the dispatch of `client.c`: threads, processes, messages sent again | state machine, `Spec`, `FairSpec` |
| `SessionProperties`, `AssertionProperties`, `MessageProperties` | what each of the three promises | properties |
| `MCFiles`, `MCSession`, `MCAssertions`, `MCMessages` | files, programs, bodies and clients for TLC | instances |
| `RedirectProofs`, `MessageProofs` | theorems about `MockSpec` and `RedirectSpec`, and about `Spec` of `Messages` | proofs |
| `SessionProofs` | theorems about every invariant of `SessionProperties`, for any program | proofs |
| `AssertionProofs` | theorems about the properties of `AssertionProperties`, for any test | proofs |

### State and code

* `wk[j]` is the process of job `j = <<suite, test, parameter>>`: `proc` is what
  the system knows of it, `pc` the next thing its code does, `left` bounds what
  user code still does, `npass` is `passed_asserts` of `test.c`, `round` the
  iterations of a theory that ended, `indices` the combination it is at,
  `crashed`, `code`, `timed_out` what boxfort reports.
* `chan[c]` is the one message in flight on the REQ socket `c`: a request, an
  answer, or nothing. `Own` is `g_client_socket` of the runner itself.
* `cb` is the thread of boxfort that waits for instances and calls
  `death_callback`, one death at a time.
* `subs`, `ctx` are `sctx.subprocesses` and its `client_ctx`; `ctx[j].ev` is a
  history of the events pushed for the test, which the code reports to the
  hooks.
* `ss`, `g` are the statistics of suites and run.
* `rpc`, `cur`, `active`, `initial` are the place of the runner in
  `run_tests_async`; `pos` is what the coroutine keeps across `ccrReturn`.

`ctx[j].state` is the number the C code keeps: the two low bits are the current
state, the others the state of the enclosing test. `phase_refused`, `next_state`
and the handlers are written with the same numbers.

Each handler of a message is one action of `Runner` (`HandleBirth`,
`HandlePhase`, ...), atomic because the runner is one thread and answers before
it reads again. Each turn of the loops of the coroutine is an action
(`SkipSuite`, `EnterSuite`, `SkipDisabled`, `SpawnNext`, `EndTest`,
`LeaveSuite`, `NoNext`). Each message a worker sends, each answer it takes and
each thing user code does is an action of `Worker`.

In `Extglob`, `frags` and `paren` are the two stacks of `compile` (a record of
`paren` is `struct paren`), `alter` and `atoms` its counters, `at` the place of
`pat` in the text. A glob is a tree; the C code copies trees wherever it shares
them here. `Filter` keeps the tests that `disable_unmatching` disables.

`mf` is `struct memfile`; `mf.alloc` is what malloc or realloc really gave,
which the code has no variable for, `mf.newptr` what the last of them returned.
`mpc` is the place in `mock_file_write`, whose loop is an action of its own
(`Grow`); it is "outside" once memory was read or written that is not the
file's, after which nothing is said (`ReadOutside`, `CopyOutside`). In
`Redirect`, `fds` is the table of descriptors of the process, `pipes` what is in
each pipe, `redir` the three `s_pipe_handle`, `files` the three static `FILE *`
of `redirect.c`, `outbuf` the buffer of stdout; `prints`, `tpc`, `cmp` and
`verdict` follow the test.

The state of `Session` is that of the process that runs `main`: `set` is the
`criterion_test_set`, `cmd` is `criterion_options` with the local flags of
`criterion_handle_args`, `fds` the descriptors (with `Descriptors`), `term` what
was seen of stdout and stderr (the lines of the log, the reports, and what
`criterion_handle_args` says itself of the options, as "notice"), `fs` the file
system. The run of the tests is one step per event that changes what the reports
read (`EnterSuite`, `SkipDisabled`, `Spawn`, `Begin`, `End`), with the handlers
of `Client`: `Runner` has the messages in full.

An assertion of `Assertions` is one action. Inside of it, `Criteria` follows the
expansion with a record `s` of the variables the macros share: `cond`, `expect`,
`un`, the nodes and the current node; each `CRI_ASSERT_SPECIFIER_x` of the code
is the operator of the same name, a map from `s` to `s`. The model of the
expansions was compared with compiled ones, on criteria up to two groups deep.

In `Messages` each line of `cr_send_to_runner` that another thread can see is an
action (`LockOnce` to `Return`), a message of the runner is one (`Serve`).
`once` and `sync` are the two mutexes, `request` and `reply` what a REQ socket
knows, `inbox` the requests on their way.

### Left out, and why it is safe

Names, file names, texts, elapsed times, the list of assertions of a test and
the layout of reports and lines are data no property reads. In `Runner` a worker
has one thread; `Messages` has several, and messages that are sent again.
Failures of the transport and `--wait` are not modelled. `Session` starts each
test in one step, and its tests end as `ended` lists. boxfort and nanomsg are
modelled from their use: a spawned process runs; `bxf_wait` returns when the
callback has; a REQ socket carries one request and its answer; an answer to a
dead process is lost; a request of a killed process may be lost or not.

The system is modelled from its use too: descriptors are the lowest free ones, a
pipe has a capacity, a write to a pipe without readers kills the process, stdout
is buffered and stderr is not, a file can be made where its directory is.

`handle_death` is given the `expected` record of the test; `push_test_crash`
with `reported = FALSE` is the call that skips the hooks.

## 3. What the runs check

| Run | Module | Properties | What it shows |
|---|---|---|---|
| `runner_mixed` | `MCRunner` | `OneVerdict`, `Accounting`, `Complete`, `HookOrder`, `NoSilentLoss`, `ImplementsPool` | Suites, an empty one, a disabled and a parameterized test, with crashes, exits, failures and skips in every section on two workers, a late skip and a theory that may exit among them: every test has the verdicts it should, counted in its suite, nothing is hidden by a success, and the run implements the abstract pool of jobs. |
| `runner_theory` | `MCRunner` | `TypeOK`, `NoWorkerRefused`, `EveryCombination`, `DataPointsInRange`, `NoSpawnAfterFailure` | A theory of two parameters with two data points each, a test that may die and one behind it, with full statistics and --fail-fast: the nested states of the server follow the worker, each combination is called once, and no worker starts after one that failed was reaped. |
| `runner_limits` | `MCRunner` | `AbortCause`, `ActiveWorkers`, `VerdictFinal`, `Termination` | Time limits of suite, test and option, a test that hangs and processes killed from outside: the only cause of an abort, the count of workers, verdicts that stay, and the end of every run. |
| `glob` | `MCFilter` | `FragmentsAccounted`, `RejectsMalformed`, `FilterMeaning` | Patterns of every form, nested and in sequence, and texts put together without care: what is refused, the stack of fragments, and the tests that stay enabled against the documented meaning of a pattern. |
| `files` | `MCFiles` | `InBounds`, `EndsMatch`, `OutputKept`, `VerdictTrue`, `ImplementsByteFile`, `CallsReturn` | A mock file used in every way and a test that redirects its streams in any order: memory, the abstract file, which end of which pipe is open where, which bytes arrive, what a comparison means and when it returns. |
| `session` | `MCSession` | `Registered`, `Precedence`, `Delivered`, `NothingReplaced`, `ReportsAgree`, `ExitStatus`, `FailureVisible` | Whole runs of three programs under many environments and command lines: what is registered, which option wins, what every report says, where it goes and that it replaces no other, what the terminal shows, and the exit status. |
| `criteria` | `MCAssertions` | `GroupsMean`, `BlamesTheGuilty`, `ResultsFit`, `OneOfOpposites`, `TagsAgree`, `Tally` | Bodies of one to three assertions: every macro of the old family, every criterion up to groups three deep and negations, and what is sent and counted for them. |
| `messages` | `MCMessages` | `AckIsMine`, `Counted`, `Served` | A worker and an external client of two threads each, whose requests may be sent twice: every thread gets the answer to its own request, no message that returned was lost, every message is answered. |

### Bounds

Suites of at most three tests on at most two workers: a property of one test
needs one worker and the runner, an interaction needs two workers, and a third
job only matters once a place is free, which two workers and three jobs reach.
`MaxActs = 1` bounds the things user code does before it goes on (what ends a
section does not count); the order of two messages that only count does not
matter to the handlers. The theory has two parameters of two data points: four
rounds, of which two carry nothing, one carries into the next parameter and the
last carries past all of them; the stack of states is back at the same number
after each. `may` limits what the code of each test does, so that each run has
few tests that do many things; `MixedSuites` has a crash, an exit, a failed
assertion, a skip and a die in different sections, and the two ways a test can
have other than one verdict (`OneVerdict`): a skip after the teardown began, and
an exit inside of a theory. Time limits are 0, 1 and 2: `runtime` only compares
them. `Spin` is the step of a process that hangs, so that it is no deadlock.

`LateBoot` says whether a time limit may elapse before the runner has read
BIRTH; it is FALSE in all runs, since then the runner hangs: with TRUE,
`Termination` fails (section 4).

The patterns of `glob` are made of two letters, both wildcards, every operator,
classes with ranges (one of them reversed, one malformed), sequences and groups
in groups; identifiers have up to three letters, enough to tell an empty match,
one occurrence and several apart. Texts of up to five scraps reach every error,
and `ARRAY_SIZE = 2` the limit on nesting. `FilterProperties` computes the
meaning of a pattern from its structure, as a set of identifiers, without
derivatives and without a stack; it takes the question mark for zero or one
character, as the tests of `test/cram/pattern.t` do (`misc/passing?`), where the
table of `doc/env.rst` says any character. Lists of several patterns under `*`
and `+` are left out (section 4).

A file of four bytes with a first region of two must grow twice (2, 3, 4) for
the longest buffer, in one write and in two; any allocation may fail, and the
file is read, written and sought after it. `SizeMax = 15` leaves room for
`region_size * 3 / 2`, which wraps in the model as in the code (`half_again`);
for a `max_size` above a third of SIZE_MAX the loop would not end, which the
proofs allow and no run reaches. Offsets are negative, zero and past what a cut
write leaves. Pipes hold four bytes and comparisons read blocks of three: a text
of one block and one of less meet, and two texts overfill a pipe. Seven
descriptors are enough for two redirections, not for three, so that
`RedirectFails` happens.

`session` has a program with two suites, a disabled suite, a disabled test, a
name that is taken and padding; one with an empty suite and a suite that nothing
declares; and one in all the orders a linker may give. Every option of the
command line is read at least once, the ones that interact in pairs and orders;
tests end in all the ways of `Endings`. In the directory one number is taken.

`criteria` has each leaf alone, negated and in every group of two, groups in
groups three deep, every tag with every operator on strings that are equal,
prefixes and different, and every legacy macro with NULL operands. The shared
variables are set by what precedes and what encloses, so two siblings and three
levels reach each combination. `MaxNesting = 4` is as deep as these go. Bodies
of three assertions mix all kinds. What a leaf should be is written down from
`new/assert.h` (`documented`), not taken from the macros; the operands on which
the two are known to differ (`departs`) are listed and left out of `GroupsMean`,
and stay in the bodies for the other properties.

`messages` has two processes with two threads each, since a mutex needs two
threads and an answer can be taken for another only between two requests; two
messages may be sent again.

### Refinement

`ImplementsPool` is `JobPool!Spec` under a mapping: what waits in the pool is
what the coroutine has not spawned, a job is open from then until its first
verdict is pushed, judged until its client is removed, finished after, and lost
when it is removed without a verdict; the result is the place where the loop of
the runner ended. The pool may only start a job when none that comes before it
waits and less than `Workers` are unfinished, may never take a verdict back,
loses nothing but a theory, is complete only when nothing is left, and is
stopped only while a job that has its verdict is not removed.

`ImplementsByteFile` is `ByteFile!Spec` with the size, and the bytes that there
is memory for, as they were before a write until the write is complete: growing
the region is a stutter. The abstract file keeps two lengths, what it says it
has (`length`) and the bytes that it has (`held`). They are equal until an
allocation fails: then the file is as long as the write would have made it
(`mockfile.c:108-117`) and holds what it held. It may be used on, and a later
write that gets memory makes it whole again; a read or a write of the bytes that
are nowhere is `Undefined`, and only that.

### Fairness

`FairSpec` adds weak fairness of one big step: while the run is not over and
some process can move, some process does. It is what an operating system gives;
no process is promised to move before another, and no order of messages. A time
limit elapses (it is a timer); a signal from outside is never owed. Termination
needs no more because no process but a hanging one can move for ever.

`RedirectSpec` is weakly fair to the calls of the library that read (`Waiting`),
and to nothing that a test decides. `FairSpec` of `Messages` is weakly fair to
the runner (`Serve`) and to each thread; since a lock is held for a bounded time
and only one other thread competes for it, that suffices. Nothing is ever owed a
second sending.

## 4. What the runs found

Each is what the code does and a sentence of the documentation denies; the run
named shows it.

* `doc_timeout_theory` (`TimeoutReported`, `src/src/core/client.c:360`):
  handle_timeout does nothing while a theory iteration is open (it only pops the
  state), and the EXIT that follows finds the test in MAIN and pushes a normal
  POST_TEST: the test passes. src/include/criterion/types.h:153-154 says "If the
  realtime execution of a test takes longer than the specified value, then the
  test is immediately aborted and reported as timing out."
* `doc_any` (`AnyMeans`, `src/include/criterion/internal/new_asserts.h:155`):
  any() evaluates `Cond || <expansion of the criterion>`, and the expansion of a
  criterion without a group is `1; do { cri_cond_un = ...` (lines 92-94): ||
  takes the 1, and the value of the criterion goes to cri_cond_un, which the
  next one overwrites and to which the group is and-ed at the end (line 167).
  any(1, 0) has the value of its last criterion, false.
  src/include/criterion/new/assert.h:162 says "Evaluates to true if any of its
  arguments is true."
* `doc_post_suite` (`PostSuiteLast`, `src/src/core/runner_coroutine.c:456`): The
  coroutine reports POST_SUITE when it goes on to the next suite, which with
  several workers is before the tests of this one have ended, or begun: the hook
  is given statistics that are not final. src/doc/hooks.rst:35 says "The flow of
  the test process goes as follows", and lists POST_FINI (line 45, "occurs after
  a test finalization") before POST_SUITE (line 46, "occurs before a suite is
  finalized").
* `doc_report_lost` (`ReportWritten`, `src/src/compat/kill.c:85`): cr_terminate,
  which --fail-fast calls, writes the reports while the outputs are still
  silenced; they are restored (src/src/core/runner.c:354-356) only at the normal
  end. src/doc/env.rst:29-30 says "Writes a TAP (Test Anything Protocol) report
  to FILE. No file or "-" means stderr and implies --quiet."

Met while modelling and not given a run of their own; the models keep each of
them, and the properties say where they stop:

* A time limit that elapses after END was handled and before the process exited
  aborts the runner: the TIMEOUT is refused (`client.c:409`) and
  `cr_send_to_runner` aborts the process it runs in, which is the runner
  (`AbortCause`, and `OnlyLateLimitsAbort` in section 5).
* One that elapses before BIRTH makes runner and callback wait for each other
  (`runner.c:297-312`, `runner_coroutine.c:250-269`): with `LateBoot = TRUE`
  `Termination` fails.
* `criterion_test_die` in a teardown (`client.c:334`) sets the status to FAILED
  after the verdict was counted: the run is a success, although `abort.h:57`
  says the test is marked as failed.
* A test that exits inside of a theory iteration gets no verdict and moves no
  counter (`client.c:496`), although `doc/hooks.rst:44` promises POST_TEST;
  neither does one that crashes between two calls of the theory function
  (`EndedInTheory`).
* `*(a|b)` is compiled as `*(a)` or `*(b)` (`extglobmatch.c:204`) and refuses
  ab; `doc/env.rst:72` says it matches occurrences of the patterns.
* `cr_file_match_file` (`file.c:42-63`) stops where one side ends: empty outputs
  never match, and files that agree up to the end of a block match.
* `not` around `all` or `none` always passes at the top; around a leaf it is
  right. `not` and `none` over arrays negate the last element only. An array of
  size 0 leaves `cri_prevnode` unset. Two groups in one list, and `not` inside
  of `any`, do not compile.
* In C `gt` is `!lt` (`op.h:162`): gt(int, 0, 0) passes, although
  `new/assert.h:239` says it "evaluates to `Actual > Reference`". `gt` and `ge`
  of a NaN hold (lines 161-162), which in C++ do not (146-147). `GroupsMean`
  leaves these out (`departs`). `new/assert.h` writes epsilon_eq as `fabs(Actual
  + Expected)` (lines 299 and 322), which the code takes for the difference.
* `any(throw(...))` never holds, since `throw` begins with `cri_cond_def`, which
  is 0 there; `anythrow` that passes is shown as failed, and `throw` under
  `none` or `not` gives wrong results. `ieee_ulp_eq` with 0 ulp never holds
  (`ieee.h:75`), not even for equal operands.
* A criterion is compared with 1 (`new_asserts.h:84`): `cr_assert(2)` fails,
  although `new/assert.h:71` says it "passes if it has a non-zero value".
* Assertions of the new criteria and of `cr_assert_throw` that pass are not
  counted, and those in a teardown only with `--full-stats`.
* `parse_dbg_transport` (`params.c:165`) takes every transport for a good one,
  and `parse_dbg` (195-211) refuses `native`. A bad entry of CRITERION_OUTPUTS
  skips the command line. A report that cannot be opened is only logged, so not
  at all when another output made the log quiet.
* Each report option sets quiet to whether its own path is `-` or /dev/stderr
  (`params.c:360`, 409, 428): one into a file sets it back to false, although
  `doc/env.rst:11` says of --quiet that it "disables all logging", and lines 30,
  33, 36 and 47 that `-` implies it. `Precedence` leaves quiet open in these
  cases: `-q --xml=file`.
* What criterion_handle_args says of deprecated, removed or refused options goes
  to stderr whatever quiet is (`params.c:172`, 180, 210, 236, 312, 372, 374,
  384, 433), so in front of a report on /dev/stderr, which is then no valid JSON
  or XML: `--output=json:/dev/stderr --ascii` (`Delivered` allows it on stderr,
  and nothing else).
* A test that only logs an error makes the run exit with 1, and no line of the
  default verbosity names it: `normal_log_message` (`normal.c:431-442`) is given
  no test (`FailureVisible` asks for its message only).
* A write to a mock file whose realloc fails leaves size and region_size
  enlarged (`mockfile.c:108-117`): the next read up to the end, or write below
  it, leaves the memory (lines 88 and 120).
* `doc/env.rst:29` says `-` is stderr; the code writes to stdout.
* With `--fail-fast` the exit status of a failed run is 1 in spite of
  `--always-succeed` (`kill.c:44`).
* `criterion_abort_test` (`abort.c:37-43`) marks nothing as failed, although
  `abort.h:36` says so: without a failed assertion the test passes.
* `criterion_test_die` in a theory (`client.c:344`) reports THEORY_FAIL and the
  test passes; `abort.h:57` says it is marked as failed.
* `criterion_skip_test` in a teardown (`client.c:376`), and a time limit that
  strikes there (`client.c:363`), push a second POST_TEST, and the test is
  counted twice, say as passed and as skipped (`doc/hooks.rst:44`;
  `MayEndTwice`).
* An assertion that fails in a finalizer comes after the verdict
  (`stats.c:229-241`) and leaves the test passed.
* `--timeout` gives no limit to a test that has none (`runner_coroutine.c:337`),
  although `options.h:178` calls it the default.
* `\*` in a pattern is still a wildcard: `glob_char` does not know that its
  character was escaped (`extglobmatch.c:213-217`).
* the guard on MAX_TEST_DEPTH (`client.c:402`) is never reached: SETUP is
  refused inside a nested test (`StackBound` proves it).

## 5. What is proved

The proofs make no assumption but those the modules state about their constants
(`SuitesAssumption`, `OptionsAssumption`, `RunnerAssumption` and so on): any
number of suites, tests, parameters, rounds and workers, any options, any user
code. `SessionAssumption` says what the inputs of a program are: sections whose
entries are of the declared kinds or padding, sequences of arguments and
outputs, a file system with finitely many names, and that `NoPath` stands for
malformed `--output` arguments only; `BodiesAssumption` that a test is a
sequence of assertions with operands of the types C gives them. The runs
evaluate every one of them. A leaf that names its prover and a time (`SMTT(30)`,
`ZenonT(60)`) is one that the default times only just allow.

* `RunnerProofs!StackBound`: No message moves the stack of states past one
  nested test, whatever state the client is in below it.
* `RunnerProofs!Invariance`: The inductive invariant that couples every worker,
  its socket, the state the server keeps of it and the thread that reports
  deaths.
* `RunnerProofs!TypeCorrect` (`TypeOK`): Every reachable state is of the
  declared types, for all suites, tests, rounds, workers and options; in
  particular the stack of client states never passes 6.
* `RunnerProofs!WorkersNeverRefused` (`NoWorkerRefused`): No worker that follows
  the trampoline is ever answered with an error, however many theory iterations
  it runs and however it ends.
* `TheoryProofs!WalkInRange`: For any number of parameters and data points, the
  next combination is in range, whatever was carried.
* `TheoryProofs!NoDataPointPastTheEnd` (`DataPointsInRange`): No reachable
  iteration of a theory reads past the data points of a parameter, however the
  iterations before it ended.
* `ExtglobProofs!NoFragmentLost` (`FragmentsAccounted`): For every text and
  depth of groups, the stack of fragments holds what the counters of the open
  groups say, and a complete pattern is one fragment.
* `RunnerProofs!OnlyLateLimitsAbort` (`AbortCause`): The only message of the
  runner itself that is refused is the TIMEOUT of a test whose END was handled.
* `MessageProofs!EveryAssertionCounts` (`Counted`): For any processes, threads
  and calls, however often requests are sent again and whatever external clients
  mix in, the context of a worker counts every assertion whose call returned and
  none that was not sent.
* `TheoryProofs!CalledWithAll` (`EveryCombination`): For any number of
  parameters and data points, the round of a theory is the number its indices
  spell and the walk ends after the last combination, however the iterations
  end.
* `TheoryProofs!EachOnce`: Two combinations of data points with the same number
  are the same, and every number is below their product: a theory is called once
  with each.
* `RedirectProofs!EndsStay` (`EndsMatch`): For every number of descriptors and
  redirections, each redirected stream is one end of its own pipe, nothing else
  is that end, and the number kept is the other end until it is closed.
* `RedirectProofs!OutputStays` (`OutputKept`): For every capacity and whatever
  is printed, fed and compared, a pipe holds what was sent to its stream since
  it was redirected, in order, and whole unless it was full.
* `RedirectProofs!VerdictsTrue` (`VerdictTrue`): For every size of block and
  pipe, a comparison with a text returns whether the output equals it, one with
  a file is right when they are equal or each shorter than a block, and input is
  read whole.
* `RedirectProofs!MemorySafe` (`InBounds`): For every region, limit, write, read
  and offset, and any number of growths: no access of a mock file leaves its
  memory, unless an allocation failed and none succeeded since, and its size
  never passes max_size whatever failed. The file keeps its types (`MockTypeOK`)
  at every step of every call.
* `RedirectProofs!Refinement` (`ImplementsByteFile`): A mock file implements the
  abstract file of bytes that may run out of memory: a write happens at once, at
  its end, and one that fails for memory leaves the file longer than the bytes
  it holds; only those that are missing are undefined.
* `MessageProofs!OneCallAtATime`: For any processes, threads and calls, and any
  number of messages sent again, at most one thread of a process is inside of
  the critical section, and what the socket holds is for its request.
* `MessageProofs!AnswersMatch` (`AckIsMine`): Every answer a thread reads is to
  the message it has sent.
* `VerdictProofs!WorkersCounted` (`ActiveWorkers`): For any number of workers,
  active_workers is the number of clients whenever the loop waits for a message,
  it stays within the jobs asked for, and the loop never waits for nobody.
* `VerdictProofs!VerdictsFinal` (`VerdictFinal`): Nothing that comes late
  changes the statistics of a test whose worker was reaped.
* `VerdictProofs!FailFastStops` (`NoSpawnAfterFailure`): With --fail-fast no
  worker is spawned after one that failed was reaped, since none that failed is
  ever reaped.
* `VerdictProofs!RunsComplete` (`Complete`): A run that ends by itself has
  spawned and reaped a worker for every parameter of every test that is not
  disabled, and counted every disabled one.
* `VerdictProofs!VerdictsCounted` (`OneVerdict`): However a test ends, it has
  one verdict when its worker is reaped; none only when it ended in a theory,
  two only when a limit or a skip struck after its teardown began.
* `VerdictProofs!HooksOrdered` (`HookOrder`): The events of every test come in
  the documented order, however its messages, its death and its time limit
  interleave.
* `VerdictProofs!NothingHidden` (`NoSilentLoss`): A run that reports success had
  no unexpected signal, no missing one, and no time limit but inside of a
  theory.
* `VerdictProofs!VerdictsAccounted` (`Accounting`): At any time the counters of
  every suite are the verdicts of its tests and its disabled tests, and those of
  the run are their sum.
* `VerdictProofs!RunIsAPool` (`ImplementsPool`): The runner with its messages,
  processes and sockets implements the abstract pool of jobs, step by step.
* `SessionProofs!RegisteredAlways` (`Registered`): For any sections in any order
  of the linker, what is registered is what the sections declare, sorted, each
  suite and test the first of its name.
* `SessionProofs!PrecedenceAlways` (`Precedence`): For any environment and
  command line, the last argument that speaks of an option counts, before it the
  environment, then the default, every output is kept in the order asked for,
  and the log is quiet when the last of --quiet and the outputs wants it, as
  loud as it was set when none does.
* `SessionProofs!ExitStatusAlways` (`ExitStatus`): For any program, filter and
  ways to end, a run that was completed has run the tests that the sections give
  and the filter leaves, and its exit status tells whether one failed.
* `SessionProofs!FailureVisibleAlways` (`FailureVisible`): Unless the log is
  quiet, every test that makes the run fail is named by a line that the default
  verbosity shows; of one that only logs an error the message is shown, which
  does not name it.
* `SessionProofs!ReportsAgreeAlways` (`ReportsAgree`): For any number of suites
  and tests, the three reports judge every test alike, list each once, and begin
  with the totals of their entries.
* `SessionProofs!DeliveredAlways` (`Delivered`): For any outputs, every report
  of a run that was completed is where it was asked for, the streams are those
  that the process was started with, and a quiet log leaves nothing else there
  but what criterion_handle_args says of the options on stderr.
* `SessionProofs!NothingReplacedAlways` (`NothingReplaced`): For any files,
  directories and outputs, each report in a directory has a name that no file
  had, unless the names are used up.
* `AssertionProofs!GroupsMeanAlways` (`GroupsMean`): A criterion of all, none,
  and not on a leaf, of any depth and length, holds exactly when new/assert.h
  says it does, although the expansions share their variables; on any operands
  but those on which a comparison of C departs: gt of equal ones or of NaN, ge
  of NaN, 0 units in the last place of equal ones.
* `AssertionProofs!ResultsFitAlways` (`ResultsFit`): For any criterion,
  `cri_assert_node_send` writes no more results than it made room for.
* `AssertionProofs!OneOfOppositesAlways` (`OneOfOpposites`): Of a macro of
  internal/assert.h and its opposite exactly one holds, on any numbers, strings,
  blocks and tolerances; none on NULL strings, only != on NaN.
* `AssertionProofs!TagsAgreeAlways` (`TagsAgree`): Of the tagged criteria that
  are opposites exactly one holds: of equality, tolerance and units in the last
  place on any operands, of lt and ge on any but NaN, of gt and le on any but
  NaN and equal ones. Equality is symmetric, and but for NaN one of lt, its
  converse and eq holds.
* `AssertionProofs!TallyAlways` (`Tally`): For any test of any length, the
  runner ends with one failure for each assertion that ran and does not hold and
  one success for each macro that holds, with full statistics or without.

`TypeOK` is not inductive: the bound on `ctx[j].state` depends on which phase
messages can be in flight. The inductive invariant `IInv` of `RunnerProofs`
couples the four parties of a job. Its parts are

* `Coupled`: the place of the worker (`pc`), the message on its socket and the
  state the server keeps agree. `StateAt` gives the states the server may be in
  when the worker stands at a place with no phase message pending, and `Agrees`
  says that a pending one is accepted and leads there;
* `SocketOK`: no worker is ever answered with an error;
* `CallbackOK`: the socket of the runner holds exactly what `cb` says, about a
  worker that is dead and not yet waited for;
* `Registered`, `Fresh`, `LoopOK`: which jobs have a context, that jobs the
  coroutine has not reached (`Ahead`) are untouched, every dead worker still has
  its context, and the runner waits only with an active worker.

A worker is not refused because its pending phase message is one that `Agrees`;
the runner is refused only for a TIMEOUT, because DEATH is never refused, and
then the state is END. The proof has one lemma per group of actions
(`TrampolineSteps`, `UserSteps`, `OutsideSteps`, `CallbackSteps`,
`ScheduleSteps`, `ServerSteps`, `LoopSteps`) and joins them in `Inductive`.
The first part of `RunnerProofs` states what each handler of `Client` keeps of a view (its type,
the state it does not touch), so that the proofs about steps do not open the
handlers.

`TheoryProofs` reads the indices of a theory as the digits of a number whose
bases are the numbers of data points (`WeightsOf`, `NumbersOf`). `NextNumbers`
shows that the carry of the loop adds one to it, and that the loop stops after
the largest; `EachOnce` that two combinations never share a number. The
invariant `Walk` says where the round stands at every place of the worker: zero
before the walk, the number of the combination in it, their product at its end,
and that a theory never stands where a plain test runs, from where a failed
assertion would leave for the end of a walk that did not take place. Weights and
numbers are recursive functions: that they exist is shown from a least argument
without a value (`UpTo`), without an induction rule.

`RedirectProofs` begins with the mock file alone. It needs to know of a write
that has begun: `WriteOK` (it is not empty, it stays below the limit, the size
is what the write leaves, and the bytes held before it are still there) and
`MemoryOK` (between calls the believed size of the region is the real one, or it
is larger, the file is longer than its memory, and the last allocation failed).
`InBounds` alone is not inductive, since it says nothing while the region grows.
`OutsideStarved` shows that an access outside is one of a file without memory.
The refinement maps each action (`WriteUnseen`, `GrowUnseen`, `CopyWrites`,
`OutsideUndefined`, ...); the failure of realloc needs `before` and `held`, what
the file was when the write began.

`MessageProofs` follows the two mutexes: who is past `once` holds it
(`HoldsOnce`), nobody is past the initialisation of a mutex that is not
initialised (`NotYet`, `Initialised`), so that the second initialisation cannot
free a mutex that is held; who is inside holds `sync` (`HoldsSync`), the request
of the socket is then its own (`Waits`) and the answer is for that request
(`Matches`). It holds for any number of messages sent again and for every answer
the runner may give. `Counted` needs no record of what was delivered: `Balance`
weighs the context against the socket. What it counted and what is on its way
(`Coming`) is at most what was sent (`Sent`) and sent again (`Again`), since
each sending puts a message into the inbox once; what was answered with a
success (`Acked`: the call returned, or the answer is on its way back) was
counted before. A step of a thread never makes an answer appear (`Sends`),
`Serve` moves one message from the inbox to the context (`ServeOutcome`: to that
of its own worker, since an external client never finds one). The threads are
assumed to be finitely many (`ThreadsAssumption`), so that sets of messages have
sizes.

`RedirectProofs` then follows a process from its first redirection, in layers:

* `Ends`: the table of descriptors. `Table` says what is open at each standard
  stream and at the number kept of the other end, `Apart` that no end is open
  twice and no pipe serves two streams, `Compares` that a comparison reads a
  file that is open. `EndsMatch` alone is not inductive: it does not say that
  the numbers pipe(2) gives are free, nor that the number kept is not one of the
  streams. `RedirectEffect` is the one fact about `pipe` and `file_std_redirect`
  that the rest uses; the lowest free number exists because the numbers are
  well-founded (`Lowest`);
* `Streams`: what a pipe holds of what was sent (`Holds`: a beginning, and if
  bytes were dropped the pipe is full, so that nothing comes after a gap). It is
  said of streams that are `Watched`, longer than `OutputKept` does: until the
  input was read, and not of a stream that a failed redirection flushed. A step
  that kills the process writes to a stream whose other end was closed, and that
  nobody watches;
* `Compared`: what a comparison has seen. With a text, output and text agree up
  to one place, or they differ (`StrTurn`); with a file, the cursor is where the
  output is, and since only the last block decides (`file.c:48`), the answer is
  known when the two are equal and when each is shorter than a block
  (`FileTurn`). `MockKeeps` carries `IInv` of the mock file through the calls of
  a comparison.

`ExtglobProofs` follows the size of the stack of `compile`. Its invariant says
that a function `base` exists that gives the number of fragments below each open
group, and never decreases; opening a group extends it (`HoldsOpen`), closing
one cuts it (`HoldsClose`), everything else happens above it (`HoldsSame`).
`FragmentsAccounted` alone is not inductive: it does not say that the counters
are at most two and one, nor that no alternative is complete outside of a group.
The theorem is about `Spec` of `Extglob`; each step of `FilterSpec` is one of
its steps or leaves its variables alone.

`VerdictProofs` starts from `IInv` and adds what the server did with what it was
told, in layers that each use those before:

* `Slots`: `active_workers` is the number of contexts while the loop reads,
  reaps and cleans up, one more or not while the coroutine looks for a successor
  (`ActiveWorkers`; with it no context is left at the end, which `VerdictFinal`
  needs);
* `Walked`: the jobs behind the coroutine were spawned, the disabled ones never
  (`Complete`); `Spared`: with --fail-fast no test that failed is reaped
  (`NoSpawnAfterFailure`);
* `Story`: `History` ties the events of a test to the state of its client until
  its death is handled (`Fits`: no verdict in SETUP and MAIN, one in TEARDOWN,
  one or two at END), and says what the death may leave; `Pending` what the
  message on its way may still do (a SETUP only first, a skip after the teardown
  began only from a finalizer); `Reported` that the death reported is the one
  that happened; `Reaping` that a context whose worker's death was handled is
  the one being reaped (`OneVerdict`, `HookOrder`);
* `Shown`: `Evidence` says of each way to die wrongly that the counters show it
  as soon as it was handled, or that it happened in a theory (`NoSilentLoss`).
  The proof needs that counters only grow;
* `Books`: the counters of a suite are its verdicts and the disabled tests
  passed so far (`Tallied`), those of a suite the coroutine has not entered are
  zero (`Untouched`: `EnterSuite` clears them), a job not spawned has no events
  (`Unseen`), a status other than passed means a verdict (`Blame`), and for each
  counter running totals over the suites end in that of the run (`Accounting`).

`OneVerdict` alone is not inductive: it speaks of reaped tests only. The
handlers enter these proofs through `PhaseOutcome` and `DeathOutcome`, which
list what each pushes in each state, once (`PhaseEffect`, `DeathEffect`). The
sum of `Accounting` is a recursive function; that the running totals are its
values is proved without an induction rule, from a least suite where they differ
(`LeastElement`, `SumIsTotal`). `RunIsAPool` maps every step: `SpawnNext` starts
a job (`SpawnStarts`), a message judges the test it is about or nobody
(`ReceiveJudges`), `Reap` finishes or loses one (`ReapRemoves`), `Terminate` and
`CallbackAborts` stop the run (`StopStops`, where `Blame` and `Fits` give the
verdict), `Cleanup` completes it (`CleanupCompletes`), and everything else is a
stutter (`PoolStutter`).

`SessionProofs` follows a process from `main` to its exit. Each layer keeps
those below it, and none of the properties is inductive alone:

* `RInv`: the inputs stay what they are, and what was read of the sections is
  registered (`RegisteredFrom`), until the filter. The heart is `Inserted`:
  `insert_ordered_set` keeps a list sorted and without duplicates, and changes
  nothing when the name is taken (`Registered`);
* `CInv`: what the options are after the environment, after so many outputs and
  after so many arguments (`OutputsRead`, `ArgumentsRead`). It counts among the
  arguments read so far, since `Precedence` speaks of the last of all of them;
* `SInv`: before the tests run nothing is touched (`Untouched`); then the
  enabled tests of `set` are those `ToRun` selects (`Chosen`);
* `AInv`: each test the coroutine has seen is running, has ended or was
  disabled, and each counter is the size of a set of tests (`Accounts`,
  `Judged`); `EInv`: a run that was not stopped ends with none running
  (`ExitStatus`);
* `VInv`: while the log is not quiet, each test that failed has its line on
  stderr (`Visible`), the error message for one that only logged an error; a
  quiet log is the reason why `FailureVisible` needs its premise;
* `LInv`: the lists of the reports hold each test that the server heard of once
  (`Lists`); with the sets of `Accounts` this gives the totals (`ReportsAgree`);
* `OInv`: while the tests run and the log is quiet, the table of descriptors is
  exactly the silenced one and the streams are empty (`Muted`); afterwards each
  output requested has arrived or is still to be written (`Writing`).
  `Silencing` computes what `cri_silence_outputs` and `cri_restore_outputs` do
  to the table, `WalkCovers` that each walk over the reporters meets every
  output once (`Delivered`);
* `NInv`: each name written in a directory was free and holds its report, and
  the names written and the outputs left are as many as were requested, unless
  the names are used up (`Named`). `UniqueName` finds the free number by
  counting: there is one more number than there are files (`NothingReplaced`).

`AssertionProofs` is about trees of any depth (`Criterion[n]`, below the bound
`MaxNesting` that a program fixes by its text) and sequences of any length, so
that everything in it is an iteration: `Iterated` shows once that a function
made step by step exists and has its types, `UpTo` carries a fact along it, and
each recursive function of the model is an instance (`Expansions`,
`MeaningLevels`, `UlpWalk`, ...).

* `Same` is what an expansion may do to the shared variables: it puts
  `cri_cond_expect` and the current node back and only adds nodes. Each
  `CRI_ASSERT_SPECIFIER_x` keeps it and returns a state of the declared types
  (`LeafOne`, `NotOne`, `GroupOne`, joined in `Expansions`), at one level given
  the level below;
* `Truthful`: at every level, a criterion that is `Sound` leaves in
  `cri_cond_un` what it means. The hypothesis `s.un = 1` on criteria that begin
  with a group is what the text in front of a group assigns (`FirstSound`); a
  group is and-ed to that value, so without it the claim is false. `any` and
  `not` on a group break it, which is why `GroupsMean` leaves them out (run
  `doc_any`). `AsDocumented` compares each operator of the code with its
  documentation where it does not depart, `FaithfulLeaf` is that of a leaf;
* `CmpOrders` shows that a comparison of two blocks the other way round has the
  opposite sign; the operators of both families follow (`Opposites`, `Agree`).
  `UlpWalk` computes where the walk of `ieee_ulp_eq` ends: the operands are at
  most so many steps apart, and at least one step is allowed;
* `Inv` of the test: the last assertion came to what its style says (`LastInv`),
  and the counters are the numbers of failing and passing assertions so far
  (`CountInv`), which `Tally` says of the end only.

Model-checked only:

* `Termination`, `Served` and `CallsReturn` are liveness under fairness, beyond
  the prover;
* `FilterMeaning` and `RejectsMalformed`: matching and the meaning of a pattern
  are recursive over the structure of the pattern (`Brz`, `FilterProperties`),
  and a proof for every pattern needs an induction over data;
* `BlamesTheGuilty`: the list of results follows the order of the tree of nodes,
  and the leaves to blame the order of the text; the proof would need a relation
  between the two trees at every step of an expansion.

## 6. Plan

1. done: `Stats`, `Client`, `Theory`, `Worker`, `Runner`, `JobPool`, `Globs`,
   `Brz`, `Extglob`, `Filter`, their runs and the first proofs.
2. done: `Registry`, `Options`, `Outputs`, `Logging` and `Session`; `MockFile`,
   `ByteFile`, `Descriptors` and `Redirect`; `Comparisons`, `Criteria` and
   `Assertions`; `Messages`; their runs, the proofs about `MockFile`, `Redirect`
   and `Messages`.
3. done: proofs of every safety property of a run, and of the steps of
   `ImplementsPool` (`VerdictProofs`).
4. done: proofs of every invariant of a session (`SessionProofs`) and of what
   the assertions of a test come to (`AssertionProofs`).
5. The statistics of an external client, with its second SETUP, as an extension
   of `Messages` with the views of `Client`.

### Not modelled

* `dependencies/valgrind`: a vendored header.
* `include/criterion/assert.h`, `new/assert.h`, `redirect.h`: documentation of
  macros that `Comparisons`, `Criteria`, `Assertions` and `Redirect` model from
  their bodies, and C++ classes that forward to the C functions
  (`capi/stream.c`).
* `string/diff.c`, `fmt.c`, `i18n.c`, `xxd.c`, the printing of operands and the
  message of an assertion: text that nothing in the program reads again.
* `compat/section-*.c`, `time.c`, `processor.c`, `alloc.c`, `strtok.c`: one
  system call or file format each; what they return is an input of the models
  (the sections of `Session`, `Processors`).
* the walk over the hooks of a report (`core/report.c`): a loop over a section.
* `--list`, `--version` and the usage: `Session` decides that they happen, not
  what they print.
* `--wait`, the statistics of an external client, failures of the transport.
* Windows: the branches of `pipe.c`, `mutex.c` and `path.c` for it.
