------------------------- MODULE SessionProperties -------------------------
(***************************************************************************)
(* What a whole run of a test program promises: the tests that are         *)
(* registered, the options that count, the reports, the log and the exit   *)
(* status.                                                                 *)
(***************************************************************************)
EXTENDS Session

Sorted(list) == \A i, j \in DOMAIN list : i < j => list[i].name < list[j].name
Names(list)  == {list[i].name : i \in DOMAIN list}
Key(t)       == <<t.category, t.name>>

\* The entries of a section that register a test, those of a test, and those
\* of a suite.
Real(t)          == t.name # Pad.name /\ t.category # Pad.category
Reals(tests)     == {i \in DOMAIN tests : Real(tests[i])}
EntriesOf(tests, k) == {i \in Reals(tests) : Key(tests[i]) = k}
Of(suites, name) == {i \in DOMAIN suites : suites[i].name = name}

\* What a test is, and what is declared of a suite: by its first entry.
TestOf(tests, k) == tests[Min(EntriesOf(tests, k))]
Declared(suites, name) ==
    IF Of(suites, name) = {} THEN NoData ELSE suites[Min(Of(suites, name))].data

SuiteFrom(s, suites, tests) ==
    /\ s.data = Declared(suites, s.name)
    /\ Sorted(s.tests)
    /\ {<<s.name, n>> : n \in Names(s.tests)}
          = {k \in {Key(tests[n]) : n \in Reals(tests)} : k[1] = s.name}
    /\ \A n \in DOMAIN s.tests :
          s.tests[n] = TestOf(tests, <<s.name, s.tests[n].name>>)

RegisteredFrom(x, suites, tests) ==
    /\ Sorted(x.suites)
    /\ Names(x.suites) = (Names(suites) \ {Pad.name})
                         \cup {tests[i].category : i \in Reals(tests)}
    /\ \A i \in DOMAIN x.suites : SuiteFrom(x.suites[i], suites, tests)
    /\ x.tests = Cardinality(Reals(tests))

(* The tests of a program are those of its sections, in the order of their *)
(* names whatever the order of the linker: each suite with what was first  *)
(* declared of it, each test the first of its name in its suite            *)
(* (criterion_init, insert_ordered_set).  Only the count tells that others *)
(* were dropped.                                                           *)
Registered ==
    /\ pc = "suites" => RegisteredFrom(set, SubSeq(linked.suites, 1, at), <<>>)
    /\ pc = "tests"  =>
          RegisteredFrom(set, linked.suites, SubSeq(linked.tests, 1, at))

(* What is decided before a run depends on the last argument that speaks   *)
(* of it, then on the environment, then on the defaults; and every output  *)
(* asked for is there, in the order asked for (criterion_handle_args).     *)
(* The log is quiet when the last of --quiet and the outputs wants it to   *)
(* be, and as loud as it was set when none does.  When only an earlier one *)
(* does, doc/env.rst:11 (--quiet "disables all logging") and the code      *)
(* (params.c:409) disagree, and it may be either.                          *)
Speaks(letters) == {i \in DOMAIN argv : argv[i].opt \in letters}
Last_(letters)  == argv[Max(Speaks(letters))].arg
Said(letters, otherwise(_), silent) ==
    IF Speaks(letters) = {} THEN silent ELSE otherwise(Last_(letters))
Same_(x) == x
Level(x) == atou(Default(x, 1))
OutputOf(a) == CASE a.opt = "T" -> [provider |-> "tap", path |-> Default(a.arg, "-")]
                 [] a.opt = "x" -> [provider |-> "xml", path |-> Default(a.arg, "-")]
                 [] a.opt = "n" -> [provider |-> "json", path |-> Default(a.arg, "-")]
                 [] a.opt = "O" -> a.arg
GivesOutput(a) == a.opt \in {"T", "x", "n", "O"} /\ OutputOf(a).path # NoPath
Wants(a) == IF a.opt = "q" THEN TRUE ELSE must_be_quiet(OutputOf(a).path)

Understood == \A i \in DOMAIN env.outputs : env.outputs[i].path # NoPath
Precedence ==
    pc = "decide" /\ Understood =>
        LET o == cmd.opt
            heard == {i \in DOMAIN argv : argv[i].opt = "q" \/ GivesOutput(argv[i])}
            given == {i \in DOMAIN argv : GivesOutput(argv[i])}
            preset == (IF env.tap = 1 THEN <<[provider |-> "tap", path |-> "-"]>>
                                      ELSE <<>>) \o env.outputs
            n     == Len(env.outputs)
            silent == IF heard # {} THEN Wants(argv[Max(heard)])
                      ELSE IF n > 0 THEN must_be_quiet(env.outputs[n].path)
                      ELSE env.tap = 1
            wanted == \/ env.tap = 1
                      \/ \E i \in 1 .. n : must_be_quiet(env.outputs[i].path)
                      \/ \E i \in heard : Wants(argv[i])
            level == Said({"b"}, Level, atou(Default(env.verbosity, CRITERION_IMPORTANT)))
        IN  /\ o.jobs = Said({"j"}, atou, atou(Default(env.jobs, 0)))
            /\ o.pattern = Said({"p", "F"}, Same_, Default(env.pattern, NoPattern))
            /\ o.fail_fast <=> Speaks({"f"}) # {} \/ env.fail_fast = 1
            /\ o.always_succeed <=> Speaks({"y"}) # {} \/ env.always_succeed = 1
            /\ o.logging_threshold \in {CRITERION_LOG_LEVEL_QUIET, level}
            /\ silent => quiet(o)
            /\ ~wanted => o.logging_threshold = level
            /\ Len(cmd.outputs) = Len(preset) + Cardinality(given)
            /\ SubSeq(cmd.outputs, 1, Len(preset)) = preset
            /\ \A i \in given :
                  cmd.outputs[Len(preset) + Cardinality({j \in given : j <= i})]
                      = OutputOf(argv[i])

----------------------------------------------------------------------------
(* The reports of a run that was completed are where they were asked for,  *)
(* in files and on the standard streams, although these were closed to the *)
(* tests; when the log is quiet a stream holds nothing else, but for what  *)
(* criterion_handle_args says on stderr of the options themselves          *)
(* (cri_silence_outputs, cri_restore_outputs, process_all_output).         *)
Complete == pc = "gone" /\ decision(cmd) = "run" /\ exit \in {0, 1} /\ ~stopped
Asking(p, path) == {i \in Requested : reporter(i) = p /\ cmd.outputs[i].path = path}
Asked(path) == {p \in Providers : Asking(p, path) # {}}
Streams == {"-", "/dev/stderr"}
Stream(fd) == IF fd = CR_STDOUT THEN "-" ELSE "/dev/stderr"

Delivered ==
    Complete =>
        /\ fds = Standing
        /\ \A fd \in {CR_STDOUT, CR_STDERR} :
              LET wanted == {Reported(report_of(p, stats)) : p \in Asked(Stream(fd))}
              IN  /\ wanted \subseteq term[fd]
                  /\ quiet(cmd.opt) => \A l \in term[fd] \ wanted :
                                         fd = CR_STDERR /\ l[2] = "notice"
        /\ \A i \in Requested :
              LET path == cmd.outputs[i].path
              IN  path \notin Dirs \cup Streams /\ <<path>> \in DOMAIN fs =>
                      \E p \in Asked(path) : fs[<<path>>] = report_of(p, stats)

(* A report in a directory replaces no other, of this run or of an earlier *)
(* one: each is written under a name of its own that no file had, unless   *)
(* all names up to one that cannot be created are taken                    *)
(* (cri_path_gen_unique_filename).                                         *)
NothingReplaced ==
    Complete =>
        \A dir \in Dirs \ Streams, p \in Providers :
            LET its     == {name \in DOMAIN fs : name[1] = dir /\ name[3] = p}
                written == {name \in its : fs[name] # Files[name]}
            IN  /\ \A name \in written : /\ Files[name] = Absent
                                         /\ fs[name] = report_of(p, stats)
                /\ \/ Cardinality(written) = Cardinality(Asking(p, dir))
                   \/ \E c \in 0 .. Cardinality(DOMAIN fs) :
                         /\ Numbered(dir, c, p) \notin DOMAIN fs
                         /\ \A k \in 0 .. c - 1 : /\ Numbered(dir, k, p) \in DOMAIN fs
                                                  /\ fs[Numbered(dir, k, p)] # Absent

(* The three reports judge every test alike, list each one that the server *)
(* heard of and each disabled one exactly once, and the totals that they   *)
(* begin with are those of their entries, except that a test that ended    *)
(* before its setup is only counted, and one that dies in its teardown     *)
(* only marked (print_test, stat_push_event).                              *)
Places(r)    == UNION {{i} \X DOMAIN r.suites[i].list : i \in DOMAIN r.suites}
Entry(r, x)  == r.suites[x[1]].list[x[2]]
Listed(r, x) == <<r.suites[x[1]].name, Entry(r, x).name>>
Ended(E) == {k \in DOMAIN how : how[k] \in E}

ReportsAgree ==
    pc = "report" =>
        LET tap == tap_report(stats)
            xml == xml_report(stats)
            all == Places(tap)
            bad == {x \in all : Entry(tap, x).line[1] = "not ok"}
        IN  /\ Places(xml) = all
            /\ \A x, y \in all : /\ Listed(tap, x) = Listed(xml, x)
                                /\ Listed(tap, x) = Listed(tap, y) => x = y
            /\ {Listed(tap, x) : x \in all}
                   = DOMAIN ts \ (Ended({"stillborn"}) \cup (running \ begun))
            /\ tap.plan = Cardinality(all) /\ xml.tests = Cardinality(all)
            /\ bad = {x \in all : Entry(xml, x).status \in {"FAILED", "ERRORED"}}
            /\ Cardinality(bad) + Cardinality(Ended({"stillborn"}))
                 = xml.failures + Cardinality(Ended({"late die"}))
            /\ Cardinality({x \in all : Entry(xml, x).status = SKIPPED}) = xml.disabled
            /\ json_report(stats).passed + xml.failures + xml.disabled
                   + Cardinality(begun)
                 = xml.tests + Cardinality(Ended({"stillborn"}))

----------------------------------------------------------------------------
(* A run that was completed has run the tests that the sections give and   *)
(* neither they, their suite nor the filter disables, and the exit status  *)
(* tells whether one failed or complained in any way but dying after its   *)
(* verdict (disable_unmatching, criterion_run_all_tests, main).            *)
Failing == {"fail", "crash", "timeout", "stillborn", "error", "no signal"}
Selected(k) == cmd.opt.pattern # NoPattern => k \in Selects[cmd.opt.pattern]
ToRun == {k \in {Key(linked.tests[i]) : i \in Reals(linked.tests)} :
            /\ ~TestOf(linked.tests, k).disabled
            /\ ~Declared(linked.suites, k[1]).disabled
            /\ Selected(k)}
ExitStatus ==
    Complete =>
        /\ DOMAIN how = ToRun
        /\ exit = 0 <=> \/ cmd.opt.always_succeed
                        \/ \A k \in ToRun :
                              /\ how[k] \notin Failing
                              /\ how[k] = "late crash" => cmd.opt.ignore_warnings

(* Every test that makes the run fail is named by a line that the default  *)
(* verbosity shows, unless the log is quiet; but of one that only logs an  *)
(* error the message alone is shown, without its name (src/log/normal.c).  *)
Tells(l, k, end) ==
    l[1] = IMPORTANT /\ IF end = "error" THEN l[2] = "ERROR" ELSE l[3] = k
FailureVisible ==
    /\ pc = "gone" /\ decision(cmd) = "run" /\ exit = 1
    /\ cmd.opt.logging_threshold <= CRITERION_IMPORTANT
    => \A k \in DOMAIN how : how[k] \in Failing \cup {"late crash"} =>
          \E l \in term[CR_STDERR] : Tells(l, k, how[k])

(* A report that is asked for on a standard stream is written there, for   *)
(* every run of tests that comes to an end: "Writes a TAP (Test Anything   *)
(* Protocol) report to FILE", says doc/env.rst.                            *)
ReportWritten ==
    /\ pc = "gone" /\ decision(cmd) = "run" /\ exit \in {0, 1}
    => \A p \in Asked("-") : \E fd \in {CR_STDOUT, CR_STDERR} :
          Reported(report_of(p, stats)) \in term[fd]

(* POST_SUITE, which the coroutine reports when it moves on to the next    *)
(* suite, comes after the last event of its tests: "The flow of the test   *)
(* process goes as follows", says doc/hooks.rst, POST_FINI, POST_SUITE.    *)
PostSuiteLast ==
    \A i \in 1 .. pos.suite - 1 :
        \A k \in running : k[1] # set.suites[i].name
=============================================================================
