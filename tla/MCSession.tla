----------------------------- MODULE MCSession -----------------------------
(* Instances of Session for TLC: small programs, and how they are started. *)
EXTENDS SessionProperties

OneSuite(name, disabled) ==
    [name |-> name, data |-> [declared |-> TRUE, disabled |-> disabled]]
OneTest(category, name, disabled) ==
    [name |-> name, category |-> category, disabled |-> disabled]

\* Two tests that may run at the same time, a disabled one, and a disabled
\* suite; one name is taken twice, and the sections are padded.
Mixed == [suites |-> <<OneSuite(2, TRUE), Pad, OneSuite(1, FALSE),
                       OneSuite(2, FALSE)>>,
          tests  |-> <<OneTest(1, 3, FALSE), OneTest(2, 1, FALSE), Pad,
                       OneTest(1, 2, TRUE), OneTest(1, 1, FALSE),
                       OneTest(1, 3, TRUE)>>]

\* A suite that nothing declares, and one without tests.
Tiny  == [suites |-> <<OneSuite(3, FALSE)>>, tests |-> <<OneTest(1, 1, FALSE)>>]

\* Every order in which a linker may lay out the tests of a section.
Layout(order) == [suites |-> <<OneSuite(2, FALSE), OneSuite(1, TRUE)>>,
                  tests  |-> [i \in 1 .. 4 |->
                      <<OneTest(2, 1, FALSE), OneTest(2, 1, TRUE),
                        OneTest(2, 2, FALSE), OneTest(1, 1, FALSE)>>[order[i]]]]
Orders  == {order \in [1 .. 4 -> 1 .. 4] : \A i, j \in 1 .. 4 :
                                              order[i] = order[j] => i = j}

Arg(opt)         == [opt |-> opt, arg |-> Unset]
ArgOf(opt, value) == [opt |-> opt, arg |-> value]
To(provider, path) == ArgOf("O", [provider |-> provider, path |-> path])

\* What a command line is made of.
SomeArgs == {Arg("q"), Arg("f"), Arg("y"), ArgOf("j", 1), ArgOf("F", "first"),
             ArgOf("F", "malformed"), ArgOf("b", 1), Arg("T"),
             ArgOf("x", "file"), To("json", "/dev/stderr"), To("tap", NoPath)}
OtherArgs == {Arg("z"), Arg("k"), Arg("S"), Arg("l"), Arg("v"), Arg("h"), Arg("w"),
              Arg("s"), Arg("c"), Arg("U"), Arg("N"), Arg("?"), Arg("C"), Arg("d"),
              Arg("b"), ArgOf("C", "sometimes"), ArgOf("C", "auto"),
              ArgOf("d", "ed"), ArgOf("d", "native"), ArgOf("p", "none of them"), ArgOf("t", 2),
              ArgOf("D", [transport |-> "tcp", port |-> 7]),
              ArgOf("D", [transport |-> "fd", port |-> 7]), ArgOf("e", "UTF-8"),
              ArgOf("T", "dir"), ArgOf("n", "dir"), ArgOf("x", "no such place"),
              To("unknown", "file")}

SomeEnvs == {EmptyEnv,
             [EmptyEnv EXCEPT !.tap = 1, !.jobs = 2, !.fail_fast = 1],
             [EmptyEnv EXCEPT !.outputs = <<[provider |-> "xml", path |-> "-"],
                                            [provider |-> "tap", path |-> "dir"]>>,
                              !.verbosity = 1, !.always_succeed = 1],
             [EmptyEnv EXCEPT !.outputs = <<[provider |-> "tap", path |-> NoPath],
                                            [provider |-> "tap", path |-> "-"]>>],
             [EmptyEnv EXCEPT !.use_ascii = 1, !.pattern = "first",
                              !.no_times = 1, !.short_filename = 0]}

Started(programs, envs, argvs) == [linked : programs, env : envs, argv : argvs]
SomeSessions ==
    Started({Mixed}, {EmptyEnv},
            {<<ArgOf("T", "dir"), ArgOf("T", "dir"), Arg("N")>>,
             <<Arg("q"), ArgOf("x", "file"), Arg("T")>>,
             <<Arg("f"), To("xml", "/dev/stderr")>>, <<Arg("f"), Arg("y")>>,
             <<ArgOf("b", 1)>>} \cup {<<a>> : a \in SomeArgs})
    \cup Started({Layout(order) : order \in Orders}, {EmptyEnv}, {<<Arg("l")>>})
    \cup Started({Tiny}, SomeEnvs,
                 {<<>>} \cup {<<a>> : a \in SomeArgs \cup OtherArgs}
                        \cup {<<a, b>> : a, b \in SomeArgs}
                        \cup {<<a, b>> : a \in SomeArgs, b \in OtherArgs})

\* --fail-fast and a report on the standard output.
FailFastSessions == Started({Tiny}, {EmptyEnv}, {<<Arg("T"), Arg("f")>>})

\* Two workers.
ParallelSessions == Started({Mixed}, {EmptyEnv}, {<<>>})

Terminals   == [tty |-> TRUE, dumb |-> FALSE, codeset |-> "UTF-8"]
SomeSelects == [p \in {"first", "none of them"} |->
                   IF p = "first" THEN {<<1, 1>>, <<1, 2>>, <<2, 1>>} ELSE {}]
AllEndings  == {"pass", "fail", "crash", "timeout", "skip", "error",
                "late crash", "late die", "stillborn", "no signal"}
\* In the directory a report of an earlier run, and room for three more.
SomeFiles   == [name \in {<<"file">>} \cup ({"dir"} \X (0 .. 3) \X Providers) |->
                   IF name = <<"dir", 0, "tap">> THEN [provider |-> "earlier"]
                   ELSE Absent]
=============================================================================
