------------------------------- MODULE Worker -------------------------------
(***************************************************************************)
(* The processes that run the tests: src/core/runner_coroutine.c           *)
(* (run_test_child, death_callback), src/core/test.c, src/core/abort.c,    *)
(* src/core/theories.c and the client half of src/protocol/messages.c.     *)
(*                                                                         *)
(* A worker is one process per run of a test.  It owns a REQ socket: it    *)
(* sends one message, then waits for the answer before it does anything    *)
(* else, so a socket is idle, holds a request, or holds an answer.  The    *)
(* runner process owns one more socket, used by the thread that waits for  *)
(* dead workers and calls death_callback for each of them.                 *)
(***************************************************************************)
EXTENDS Naturals, Sequences, FiniteSets, Client, Theory

CONSTANTS
    Suites,         \* the ordered set of suites: records [timeout, tests]
    MaxActs,        \* how many non-final things one worker's user code does
    Timeout,        \* criterion_options.timeout, 0 when unset
    FullStats,      \* criterion_options.full_stats
    LateBoot        \* TRUE: a time limit may elapse before BIRTH is received

\* Sections of user code, and what the code of a section may do there.
Section == {"init", "main", "theory", "fini"}
Act == {"pass", "expect", "assert", "abort", "skip", "die", "info", "warn", "error",
        "exit0", "exit1", "crash", "hang", "killed"}

(* A test: disabled (itself, by its suite or by --filter), how many        *)
(* parameters it runs with (1 for a plain test), its own time limit, the   *)
(* signal and the exit code it expects, the number of data points of each  *)
(* parameter (none: not a theory), and what its code may do.               *)
TestRec == [disabled : BOOLEAN, runs : Nat, timeout : Nat, signal : Nat,
            exit_code : Nat, points : Points, may : SUBSET (Section \X Act)]
SuiteRec == [timeout : Nat, tests : Seq(TestRec)]

ASSUME SuitesAssumption  == Suites \in Seq(SuiteRec)
ASSUME OptionsAssumption == /\ MaxActs \in Nat
                            /\ Timeout \in Nat
                            /\ FullStats \in BOOLEAN
                            /\ LateBoot \in BOOLEAN

\* A job is one worker process: suite, test and parameter positions.
Job == UNION {UNION {{<<s, n, p>> : p \in 1 .. Suites[s].tests[n].runs} :
                        n \in DOMAIN Suites[s].tests} : s \in DOMAIN Suites}
Own == <<0, 0, 0>>          \* the runner's own socket; also: no job
Socket == Job \cup {Own}
Test(j) == Suites[j[1]].tests[j[2]]

\* A slip: the limit of the suite forgotten.
runtime_TestOnly(j) == Test(j).timeout

\* run_test: the time limit of a worker; 0 sets none.
runtime(j) ==
    LET limit == IF Test(j).timeout > 0 THEN Test(j).timeout
                                        ELSE Suites[j[1]].timeout
    IN  IF Timeout > 0 /\ limit > Timeout THEN Timeout ELSE limit

SIGABRT == 6
SIGKILL == 9
SIGSEGV == 11

\* Messages, answers, and the empty socket.
Requests == {"BIRTH", "PHASE", "ASSERT", "STATISTIC", "INFO", "WARNING",
             "ERROR", "CRASH", "EXIT"}
Answers  == {"ok", "nack"}
Msg == [kind : Requests \cup Answers \cup {"idle"}, arg : Nat]
M(kind, arg) == [kind |-> kind, arg |-> arg]
Idle == M("idle", 0)

\* Where the code of a worker stands.
Counter == {"boot", "setup", "init", "main", "th_setup", "th_main", "theory",
            "th_abort", "th_end", "stat", "teardown", "fini", "end",
            "exit", "abort", "hung"}
Process == {"none", "running", "dead", "waited"}
WorkerRec == [proc : Process, pc : Counter, left : Nat, npass : Nat,
              indices : Seq(Nat), round : Nat, crashed : BOOLEAN,
              code : Nat, timed_out : BOOLEAN]

VARIABLES
    wk,      \* the processes
    chan,    \* the sockets
    cb       \* the job whose death is being reported, and how far that is

workerVars == <<wk, chan, cb>>

Unborn == [proc |-> "none", pc |-> "boot", left |-> MaxActs, npass |-> 0,
           indices |-> <<>>, round |-> 0, crashed |-> FALSE, code |-> 0, timed_out |-> FALSE]
NoDeath == [job |-> Own, pc |-> "idle"]

WorkerTypeOK ==
    /\ wk \in [Job -> WorkerRec]
    /\ chan \in [Socket -> Msg]
    /\ cb \in [job : Socket, pc : {"idle", "timeout", "death"}]

WorkerInit ==
    /\ wk = [j \in Job |-> Unborn]
    /\ chan = [c \in Socket |-> Idle]
    /\ cb = NoDeath

----------------------------------------------------------------------------
(* cr_send_to_runner, seen from the sender.                                *)

\* The worker stands at p and no message of its own is in the way.
At(j, p) == wk[j].proc = "running" /\ wk[j].pc = p /\ chan[j] = Idle

Send(j, m, next) ==
    /\ chan' = [chan EXCEPT ![j] = m]
    /\ wk' = [wk EXCEPT ![j].pc = next]
    /\ UNCHANGED cb

Dies(j, crashed, code) ==
    /\ wk' = [wk EXCEPT ![j].proc = "dead", ![j].crashed = crashed,
                        ![j].code = code]
    /\ UNCHANGED cb

\* The answer is a success: cr_send_to_runner returns.
ReceiveAck(j) ==
    /\ wk[j].proc = "running" /\ chan[j].kind = "ok"
    /\ chan' = [chan EXCEPT ![j] = Idle]
    /\ UNCHANGED <<wk, cb>>

\* The answer is an error: cr_send_to_runner aborts the process.
ReceiveNack(j) ==
    /\ wk[j].proc = "running" /\ chan[j].kind = "nack"
    /\ Dies(j, TRUE, SIGABRT)
    /\ chan' = [chan EXCEPT ![j] = Idle]

----------------------------------------------------------------------------
(* run_test_child and the trampoline: BIRTH, then the three parts of a     *)
(* test with the phase message that opens or closes each.                  *)

SendBirth(j) == At(j, "boot") /\ Send(j, M("BIRTH", 0), "setup")

SendSetup(j) == At(j, "setup") /\ Send(j, M("PHASE", CS_SETUP), "init")

\* The test function is cr_theory_main: the walk of the data points begins.
BeginTheory(j) ==
    /\ chan' = [chan EXCEPT ![j] = M("PHASE", CS_MAIN)]
    /\ wk' = [wk EXCEPT ![j].pc = "th_setup",
                        ![j].indices = first_indices(Test(j).points)]
    /\ UNCHANGED cb

\* The initializers returned: criterion_internal_test_main begins.
SendMain(j) ==
    /\ At(j, "init")
    /\ IF Test(j).points # <<>> THEN BeginTheory(j)
                               ELSE Send(j, M("PHASE", CS_MAIN), "main")

\* The test function returned or was jumped out of.
SendStatistic(j) ==
    /\ At(j, "main") \/ At(j, "stat")
    /\ ~FullStats
    /\ Send(j, M("STATISTIC", wk[j].npass), "teardown")

SendTeardown(j) ==
    /\ \/ At(j, "teardown")
       \/ FullStats /\ (At(j, "main") \/ At(j, "stat"))
    /\ Send(j, M("PHASE", CS_TEARDOWN), "fini")

SendEnd(j) ==
    /\ At(j, "fini") \/ At(j, "end")
    /\ Send(j, M("PHASE", CS_END), "exit")

\* run_test_child returns 0, or exit(0) after SKIP or ABORT.
Exit(j) == At(j, "exit") /\ Dies(j, FALSE, 0) /\ UNCHANGED chan

\* criterion_internal_test_setup: an initializer was jumped out of.
AbortInit(j) == At(j, "abort") /\ Dies(j, TRUE, SIGABRT) /\ UNCHANGED chan

----------------------------------------------------------------------------
(* cr_theory_main: every combination of data points is a nested test.      *)

SendTheorySetup(j) ==
    At(j, "th_setup") /\ Send(j, M("PHASE", CS_SETUP), "th_main")

SendTheoryMain(j) ==
    At(j, "th_main") /\ Send(j, M("PHASE", CS_MAIN), "theory")

\* The end of one combination: the next one, or the end of the test.
NextRound(j, m) ==
    /\ chan' = [chan EXCEPT ![j] = m]
    /\ wk' = [wk EXCEPT ![j].round = @ + 1,
                        ![j].indices = next_indices(Test(j).points, @),
                        ![j].pc = IF has_next(Test(j).points, wk[j].indices)
                                  THEN "th_setup" ELSE "stat"]
    /\ UNCHANGED cb

\* try_call_theory returned 0: an assertion failed in the theory.
SendTheoryAbort(j) ==
    At(j, "th_abort") /\ NextRound(j, M("PHASE", CS_ABORT))

\* The theory returned, or cr_assume jumped out of it.
SendTheoryTeardown(j) ==
    At(j, "theory") /\ Send(j, M("PHASE", CS_TEARDOWN), "th_end")

SendTheoryEnd(j) ==
    At(j, "th_end") /\ NextRound(j, M("PHASE", CS_END))

----------------------------------------------------------------------------
(* What user code does in a section.                                       *)

May(j, a) == \E s \in Section : At(j, s) /\ <<s, a>> \in Test(j).may

\* Where criterion_abort_test lands: the last setjmp on g_pre_test.
landing(s) == CASE s = "init"   -> "abort"
                [] s = "main"   -> "stat"
                [] s = "theory" -> "th_abort"
                [] s = "fini"   -> "end"

\* A message from user code that then goes on where it was.
Interject(j, m) ==
    /\ wk[j].left > 0
    /\ chan' = [chan EXCEPT ![j] = m]
    /\ wk' = [wk EXCEPT ![j].left = @ - 1]
    /\ UNCHANGED cb

\* cri_asserts_passed_incr; with full statistics the assertion is sent.
AssertPasses(j) ==
    /\ May(j, "pass")
    /\ \/ FullStats /\ Interject(j, M("ASSERT", 1))
       \/ /\ ~FullStats
          /\ wk[j].left > 0
          /\ wk' = [wk EXCEPT ![j].left = @ - 1, ![j].npass = @ + 1]
          /\ UNCHANGED <<chan, cb>>

\* cr_expect fails: criterion_continue_test.
ExpectFails(j) == May(j, "expect") /\ Interject(j, M("ASSERT", 0))

\* cr_log called by the test, at its three severities.
LogInfo(j)    == May(j, "info")  /\ Interject(j, M("INFO", 0))
LogWarning(j) == May(j, "warn")  /\ Interject(j, M("WARNING", 0))
LogError(j)   == May(j, "error") /\ Interject(j, M("ERROR", 0))

\* cr_assert fails: the assertion is sent, then criterion_abort_test.
AssertFails(j) ==
    May(j, "assert") /\ Send(j, M("ASSERT", 0), landing(wk[j].pc))

\* criterion_abort_test called by the test itself.
AbortTest(j) ==
    /\ May(j, "abort")
    /\ wk' = [wk EXCEPT ![j].pc = landing(wk[j].pc)]
    /\ UNCHANGED <<chan, cb>>

\* criterion_skip_test and criterion_test_die
SkipTest(j) == May(j, "skip") /\ Send(j, M("PHASE", CS_SKIP), "exit")
TestDie(j)  == May(j, "die")  /\ Send(j, M("PHASE", CS_ABORT), "exit")

ExitTest(j) ==
    /\ \/ May(j, "exit0") /\ Dies(j, FALSE, 0)
       \/ May(j, "exit1") /\ Dies(j, FALSE, 1)
    /\ UNCHANGED chan

Crash(j) == May(j, "crash") /\ Dies(j, TRUE, SIGSEGV) /\ UNCHANGED chan

\* A loop that never ends, or a wait for something that never comes.
Hang(j) ==
    /\ May(j, "hang")
    /\ wk' = [wk EXCEPT ![j].pc = "hung"]
    /\ UNCHANGED <<chan, cb>>

----------------------------------------------------------------------------
(* Deaths from outside.  The request of a killed worker may have left the  *)
(* process already, or be lost with it.                                    *)

Killed(j, timed_out) ==
    /\ wk[j].proc = "running"
    /\ wk' = [wk EXCEPT ![j].proc = "dead", ![j].crashed = TRUE,
                        ![j].code = SIGKILL, ![j].timed_out = timed_out]
    /\ \/ chan[j].kind \in Requests /\ UNCHANGED chan
       \/ chan' = [chan EXCEPT ![j] = Idle]
    /\ UNCHANGED cb

\* The runner has answered BIRTH.
Born(j) == wk[j].pc # "boot" /\ chan[j].kind # "BIRTH"

TimeLimit(j) ==
    /\ runtime(j) > 0
    /\ LateBoot \/ Born(j)
    /\ Killed(j, TRUE)

Kill(j) ==
    /\ \E s \in Section : <<s, "killed">> \in Test(j).may
    /\ Killed(j, FALSE)

\* A process that hangs goes on hanging.
Spin(j) == wk[j].proc = "running" /\ wk[j].pc = "hung" /\ UNCHANGED workerVars

----------------------------------------------------------------------------
(* death_callback, called by the thread of the runner that waits for the   *)
(* workers, one death at a time.                                           *)

Death(j) == M(IF wk[j].crashed /\ ~wk[j].timed_out THEN "CRASH" ELSE "EXIT",
              IF wk[j].timed_out THEN 0 ELSE wk[j].code)

CallbackStart(j) ==
    /\ cb.pc = "idle" /\ wk[j].proc = "dead"
    /\ cb' = [job |-> j,
              pc |-> IF wk[j].timed_out THEN "timeout" ELSE "death"]
    /\ chan' = [chan EXCEPT ![Own] = IF wk[j].timed_out
                                     THEN M("PHASE", CS_TIMEOUT)
                                     ELSE Death(j)]
    /\ UNCHANGED wk

CallbackDeath ==
    /\ cb.pc = "timeout" /\ chan[Own].kind = "ok"
    /\ cb' = [cb EXCEPT !.pc = "death"]
    /\ chan' = [chan EXCEPT ![Own] = Death(cb.job)]
    /\ UNCHANGED wk

CallbackReturn ==
    /\ cb.pc = "death" /\ chan[Own].kind = "ok"
    /\ cb' = NoDeath
    /\ chan' = [chan EXCEPT ![Own] = Idle]
    /\ wk' = [wk EXCEPT ![cb.job].proc = "waited"]

----------------------------------------------------------------------------
UserCode(j) ==
    \/ AssertPasses(j) \/ ExpectFails(j)
    \/ LogInfo(j) \/ LogWarning(j) \/ LogError(j)
    \/ AssertFails(j) \/ AbortTest(j) \/ SkipTest(j) \/ TestDie(j)
    \/ ExitTest(j) \/ Crash(j) \/ Hang(j)

Trampoline(j) ==
    \/ ReceiveAck(j) \/ ReceiveNack(j)
    \/ SendBirth(j) \/ SendSetup(j) \/ SendMain(j) \/ SendStatistic(j)
    \/ SendTeardown(j) \/ SendEnd(j) \/ Exit(j) \/ AbortInit(j)
    \/ SendTheorySetup(j) \/ SendTheoryMain(j) \/ SendTheoryAbort(j)
    \/ SendTheoryTeardown(j) \/ SendTheoryEnd(j)

WorkerStep(j) == Trampoline(j) \/ UserCode(j)
Outside(j)    == TimeLimit(j) \/ Kill(j) \/ Spin(j)
CallbackStep  == (\E j \in Job : CallbackStart(j)) \/ CallbackDeath
                 \/ CallbackReturn
=============================================================================
