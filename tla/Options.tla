------------------------------ MODULE Options ------------------------------
(***************************************************************************)
(* criterion_handle_args of src/entry/params.c: what the environment and   *)
(* the command line make of criterion_options and of the outputs.          *)
(*                                                                         *)
(* A command c gathers what the function works on: the options opt, its    *)
(* locals quiet, list, version and usage, the outputs it adds, and failed  *)
(* once it has left the process with exit(3).  An argument is a record     *)
(* [opt, arg] with the letter that opts gives to its name.                 *)
(***************************************************************************)
EXTENDS Naturals, Sequences

CONSTANTS
    Unset,       \* getenv, or optarg, is NULL
    NoPath       \* an output that is not PROVIDER:PATH

ASSUME OptionsAssumption == Unset \notin Nat /\ NoPath # "-"

Default(value, default) == IF value = Unset THEN default ELSE value

\* enum criterion_logging_level
CRITERION_INFO            == 1
CRITERION_IMPORTANT       == 2
CRITERION_LOG_LEVEL_QUIET == 1073741824

NoPattern == "none"

\* The initial value of criterion_options.
DefaultOptions ==
    [logging_threshold |-> CRITERION_IMPORTANT, always_succeed |-> FALSE,
     use_ascii |-> FALSE, fail_fast |-> FALSE, pattern |-> NoPattern,
     short_filename |-> FALSE, jobs |-> 0, measure_time |-> TRUE,
     wait_for_clients |-> FALSE, crash |-> FALSE, debug |-> "NONE",
     debug_port |-> 1234, timeout |-> 0, full_stats |-> FALSE,
     encoding |-> "ASCII", color |-> FALSE, ignore_warnings |-> FALSE]

NoCommand == [opt |-> DefaultOptions, quiet |-> FALSE, list |-> FALSE,
              version |-> FALSE, usage |-> FALSE, outputs |-> <<>>,
              failed |-> FALSE]

\* An environment that sets nothing.
EmptyEnv == [always_succeed |-> Unset, fail_fast |-> Unset, use_ascii |-> Unset,
             jobs |-> Unset, verbosity |-> Unset, short_filename |-> Unset,
             pattern |-> Unset, no_times |-> Unset, tap |-> Unset,
             outputs |-> <<>>]

----------------------------------------------------------------------------
(* Conversions.                                                            *)

\* Text that is no number is 0, and so is a negative one.
atou(str) == IF str \in Nat THEN str ELSE 0

Debuggers == {"gdb", "lldb", "windbg", "idle"}
Colors    == {"always", "auto", "never"}
isatty_color(terminal) == terminal.tty /\ ~terminal.dumb
deduce_color(arg, terminal) ==
    CASE Default(arg, "always") = "always" -> TRUE
      [] arg = "auto"  -> isatty_color(terminal)
      [] arg = "never" -> FALSE

must_be_quiet(path) == path \in {"-", "/dev/stderr"}

\* criterion_add_output: outputs keeps the order of the calls.
criterion_add_output(c, provider, path) ==
    [c EXCEPT !.outputs = Append(@, [provider |-> provider, path |-> path])]

\* A slip: an output that leaves quiet as it was.
add_report_Loud(c, provider, path) == criterion_add_output(c, provider, path)

\* What --tap, --xml, --json, --output and CRITERION_OUTPUTS do.
add_report(c, provider, path) ==
    criterion_add_output([c EXCEPT !.quiet = must_be_quiet(path)], provider, path)

----------------------------------------------------------------------------
(* The locale, then the environment.                                       *)

read_locale(c, terminal) ==
    [c EXCEPT !.opt.encoding = terminal.codeset,
              !.opt.color    = isatty_color(terminal)]

is_one(value, default) == IF value = Unset THEN default ELSE value = 1

read_environment(c, env, terminal) ==
    LET o == c.opt
        set == [o EXCEPT
            !.always_succeed    = is_one(env.always_succeed, @),
            !.fail_fast         = is_one(env.fail_fast, @),
            !.use_ascii         = IF env.use_ascii = Unset THEN @
                                  ELSE env.use_ascii = 1 \/ terminal.dumb,
            !.jobs              = IF env.jobs = Unset THEN @ ELSE atou(env.jobs),
            !.logging_threshold = IF env.verbosity = Unset THEN @
                                  ELSE atou(env.verbosity),
            !.short_filename    = is_one(env.short_filename, @),
            !.pattern           = Default(env.pattern, @),
            !.measure_time      = ~is_one(env.no_times, FALSE)]
        named == [c EXCEPT !.opt = set]
    IN  IF is_one(env.tap, FALSE)
        THEN criterion_add_output([named EXCEPT !.quiet = TRUE], "tap", "-")
        ELSE named

\* One entry of CRITERION_OUTPUTS; after one that is not PROVIDER:PATH the
\* rest of it and the command line are not looked at.
read_output(c, entry) ==
    IF entry.path = NoPath THEN [c EXCEPT !.usage = TRUE]
    ELSE add_report(c, entry.provider, entry.path)

----------------------------------------------------------------------------
(* The command line.                                                       *)

Fails(c) == [c EXCEPT !.failed = TRUE]

handle_option(c, a, terminal) ==
    CASE a.opt = "b" -> [c EXCEPT !.opt.logging_threshold = atou(Default(a.arg, 1))]
      [] a.opt = "y" -> [c EXCEPT !.opt.always_succeed = TRUE]
      [] a.opt = "z" -> c
      [] a.opt = "k" -> [c EXCEPT !.opt.use_ascii = TRUE]
      [] a.opt = "j" -> [c EXCEPT !.opt.jobs = atou(a.arg)]
      [] a.opt = "f" -> [c EXCEPT !.opt.fail_fast = TRUE]
      [] a.opt = "S" -> [c EXCEPT !.opt.short_filename = TRUE]
      [] a.opt \in {"p", "F"} -> [c EXCEPT !.opt.pattern = a.arg]
      [] a.opt = "q" -> [c EXCEPT !.quiet = TRUE]
      [] a.opt = "t" -> [c EXCEPT !.opt.timeout = a.arg]
      [] a.opt = "d" -> IF a.arg = Unset \/ a.arg \in Debuggers
                        THEN [c EXCEPT !.opt.debug = Default(a.arg, "native")]
                        ELSE Fails(c)
      \* parse_dbg_transport returns 1 for a transport it refuses.
      [] a.opt = "D" -> IF a.arg.transport = "tcp"
                        THEN [c EXCEPT !.opt.debug_port = atou(a.arg.port)]
                        ELSE c
      [] a.opt = "T" -> add_report(c, "tap", Default(a.arg, "-"))
      [] a.opt = "x" -> add_report(c, "xml", Default(a.arg, "-"))
      [] a.opt = "n" -> add_report(c, "json", Default(a.arg, "-"))
      [] a.opt = "O" -> read_output(c, a.arg)
      [] a.opt = "l" -> [c EXCEPT !.list = TRUE]
      [] a.opt = "v" -> [c EXCEPT !.version = TRUE]
      [] a.opt = "h" -> [c EXCEPT !.usage = TRUE]
      [] a.opt = "w" -> [c EXCEPT !.opt.wait_for_clients = TRUE]
      [] a.opt = "s" -> Fails(c)
      [] a.opt = "c" -> [c EXCEPT !.opt.crash = TRUE]
      [] a.opt = "U" -> [c EXCEPT !.opt.full_stats = TRUE]
      [] a.opt = "C" -> IF Default(a.arg, "always") \in Colors
                        THEN [c EXCEPT !.opt.color = deduce_color(a.arg, terminal)]
                        ELSE Fails(c)
      [] a.opt = "e" -> [c EXCEPT !.opt.encoding = a.arg]
      [] a.opt = "N" -> [c EXCEPT !.opt.ignore_warnings = TRUE]
      [] OTHER       -> [c EXCEPT !.usage = TRUE]

----------------------------------------------------------------------------
(* What is written on stderr meanwhile, whatever quiet is: what is         *)
(* deprecated, removed, unknown or refused.                                *)

environment_notices(env) ==
    IF env.use_ascii = Unset THEN {} ELSE {"CRITERION_USE_ASCII"}

KnownOptions == {"b", "y", "z", "k", "j", "f", "S", "p", "F", "q", "t", "d", "D", "T",
                 "x", "n", "O", "l", "v", "h", "w", "s", "c", "U", "C", "e", "N"}
option_notices(a) ==
    IF \/ a.opt \in {"z", "k", "p", "s"}
       \/ a.opt = "d" /\ a.arg # Unset /\ a.arg \notin Debuggers
       \/ a.opt = "D" /\ a.arg.transport # "tcp"
       \/ a.opt = "C" /\ Default(a.arg, "always") \notin Colors
       \/ a.opt \notin KnownOptions
    THEN {a.opt} ELSE {}

----------------------------------------------------------------------------
(* The label end, and what the caller does with the value returned.        *)

settle(c) ==
    LET silent == [c EXCEPT !.opt.logging_threshold =
                      IF c.quiet THEN CRITERION_LOG_LEVEL_QUIET ELSE @]
    IN  IF c.opt.use_ascii
        THEN [silent EXCEPT !.opt.encoding = "ASCII", !.opt.color = FALSE]
        ELSE silent

\* print_usage, print_version, list_tests, or the tests.
decision(c) ==
    CASE c.usage   -> "usage"
      [] c.version /\ ~c.usage -> "version"
      [] c.list /\ ~c.usage /\ ~c.version -> "list"
      [] OTHER     -> "run"

\* criterion_run_all_tests: a debugger wants one job at a time, and a log.
debug_options(o) ==
    IF o.debug = "NONE" THEN o
    ELSE [o EXCEPT !.jobs = 1, !.crash = TRUE, !.logging_threshold = CRITERION_INFO]
=============================================================================
