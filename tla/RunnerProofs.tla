---------------------------- MODULE RunnerProofs ----------------------------
(***************************************************************************)
(* Proofs about module Runner, for every value of its constants, and about *)
(* the handlers of module Client: each maps a view to a view, and the      *)
(* stack of client states stays within two levels.                         *)
(*                                                                         *)
(* The invariant that carries the proofs is Coupled: what the server       *)
(* believes of a test (the stack of states of its context) and where the   *)
(* worker stands agree, up to the one message on its way between them.     *)
(***************************************************************************)
EXTENDS Runner, WellFoundedInduction, TLAPS

----------------------------------------------------------------------------
(* The handlers of Client.                                                 *)

Expected == [signal : Nat, exit_code : Nat]

\* Counters stay counters.
LEMMA CountType ==
    ASSUME NEW D, NEW c \in [D -> Nat], NEW K, NEW n \in Nat
    PROVE  Count(c, K, n) \in [D -> Nat]
  BY DEF Count

LEMMA FreshTestType == FreshTest \in TestStats
  BY DEF FreshTest, TestStats, TestStatus, PASSED, FAILED, SKIPPED

LEMMA TallyType ==
    ASSUME NEW v \in View, NEW K
    PROVE  /\ Tally(v, K) \in View
           /\ Tally(v, K).state = v.state
           /\ Tally(v, K).alive = v.alive
           /\ Tally(v, K).t = v.t
  <1>1. /\ Count(v.ss, K, 1) \in [SuiteCounter -> Nat]
        /\ Count(v.g, K, 1) \in [GlobalCounter -> Nat]
    BY CountType DEF View
  <1>2. QED BY <1>1 DEF Tally, View

LEMMA ReportType ==
    ASSUME NEW v \in View, NEW e \in EventKind
    PROVE  /\ Report(v, e) \in View
           /\ Report(v, e).state = v.state
           /\ Report(v, e).alive = v.alive
           /\ Report(v, e).t = v.t
  <1>1. v.ev \in Seq(EventKind) BY DEF View
  <1>2. Append(v.ev, e) \in Seq(EventKind) BY <1>1
  <1> DEFINE ev == Append(v.ev, e)
  <1>3. Report(v, e) = [v EXCEPT !.ev = ev] BY DEF Report
  <1> HIDE DEF ev
  <1>4. ev \in Seq(EventKind) BY <1>2 DEF ev
  <1>5. QED BY <1>3, <1>4 DEF View

\* Replacing the test statistics of a view.
LEMMA WithTest ==
    ASSUME NEW v \in View, NEW t \in TestStats
    PROVE  /\ [v EXCEPT !.t = t] \in View
           /\ [v EXCEPT !.t = t].state = v.state
           /\ [v EXCEPT !.t = t].alive = v.alive
  BY DEF View

LEMMA StatsType ==
    ASSUME NEW t \in TestStats, NEW expected
    PROVE  /\ PostTestStats(t, expected) \in TestStats
           /\ CrashStats(t) \in TestStats
  <1>1. FAILED \in TestStatus BY DEF TestStatus
  <1>2. PostTestStats(t, expected) \in TestStats
    BY <1>1 DEF PostTestStats, TestStats
  <1>3. CrashStats(t) \in TestStats BY <1>1 DEF CrashStats, TestStats
  <1>4. QED BY <1>2, <1>3

\* What every handler keeps: the type of the view, its state and alive flag.
Keeps(v, w) == w \in View /\ w.state = v.state /\ w.alive = v.alive

LEMMA KeepsTransitive ==
    ASSUME NEW u, NEW v, NEW w, Keeps(u, v), Keeps(v, w)
    PROVE  Keeps(u, w)
  BY DEF Keeps

LEMMA KeepsReport ==
    ASSUME NEW v \in View, NEW e \in EventKind
    PROVE  Keeps(v, Report(v, e))
  BY ReportType DEF Keeps

LEMMA KeepsTallied ==
    ASSUME NEW v \in View, NEW K, NEW t \in TestStats
    PROVE  Keeps(v, [Tally(v, K) EXCEPT !.t = t])
  <1> DEFINE w == Tally(v, K)
  <1>1. w \in View /\ w.state = v.state /\ w.alive = v.alive
    BY TallyType
  <1> HIDE DEF w
  <1>2. Keeps(v, [w EXCEPT !.t = t]) BY <1>1, WithTest DEF Keeps
  <1>3. QED BY <1>2 DEF w

LEMMA KeepsAssert ==
    ASSUME NEW v \in View, NEW passed \in BOOLEAN
    PROVE  Keeps(v, push_assert(v, passed))
  <1>1. v.t \in TestStats BY DEF View
  <1>2. AssertStats(v.t, passed) \in TestStats
    <2>1. CASE passed BY <1>1, <2>1 DEF AssertStats, TestStats
    <2>2. CASE ~passed BY <1>1, <2>2 DEF AssertStats, TestStats
    <2>3. QED BY <2>1, <2>2
  <1>3. push_assert(v, passed)
          = [Tally(v, AssertCounts(passed)) EXCEPT
               !.t = AssertStats(v.t, passed)]
    BY TallyType DEF push_assert
  <1>4. QED BY <1>2, <1>3, KeepsTallied

LEMMA KeepsPushes ==
    ASSUME NEW v \in View, NEW expected, NEW reported \in BOOLEAN
    PROVE  /\ Keeps(v, push_pre_init(v))
           /\ Keeps(v, push_post_test(v, expected))
           /\ Keeps(v, push_post_fini(v))
           /\ Keeps(v, push_test_crash(v, reported))
           /\ Keeps(v, push_end(v, expected))
  <1>0. v.t \in TestStats BY DEF View
  <1>1. Keeps(v, push_pre_init(v))
    <2> DEFINE w == Tally(v, PreInitCounts(v.t))
    <2>1. w \in View /\ w.state = v.state /\ w.alive = v.alive
      BY TallyType
    <2>2. push_pre_init(v) = Report(w, "PRE_INIT") BY DEF push_pre_init
    <2> HIDE DEF w
    <2>3. QED BY <2>1, <2>2, ReportType DEF Keeps, EventKind
  <1>2. Keeps(v, push_post_test(v, expected))
    <2> DEFINE t == PostTestStats(v.t, expected)
               K == PostTestCounts(v.t, expected)
               w == [Tally(v, K) EXCEPT !.t = t]
    <2>1. t \in TestStats BY <1>0, StatsType
    <2>2. push_post_test(v, expected) = Report(w, "POST_TEST")
      BY TallyType DEF push_post_test
    <2> HIDE DEF t, K
    <2>3. Keeps(v, w) BY <2>1, KeepsTallied
    <2> HIDE DEF w
    <2>4. QED BY <2>2, <2>3, ReportType DEF Keeps, EventKind
  <1>3. Keeps(v, push_post_fini(v))
    BY ReportType DEF Keeps, EventKind, push_post_fini
  <1>4. Keeps(v, push_test_crash(v, reported))
    <2> DEFINE t == CrashStats(v.t)
               w == [Tally(v, CrashCounts) EXCEPT !.t = t]
               e == IF reported THEN "TEST_CRASH" ELSE "SILENT_CRASH"
    <2>1. t \in TestStats BY <1>0, StatsType
    <2>2. push_test_crash(v, reported) = Report(w, e)
      BY TallyType DEF push_test_crash
    <2>3. e \in EventKind BY DEF EventKind
    <2> HIDE DEF t, e
    <2>4. Keeps(v, w) BY <2>1, KeepsTallied
    <2> HIDE DEF w
    <2>5. QED BY <2>2, <2>3, <2>4, ReportType DEF Keeps
  <1>5. Keeps(v, push_end(v, expected))
    <2> DEFINE w == push_post_test(v, expected)
    <2>1. Keeps(v, w) BY <1>2
    <2>2. push_end(v, expected) = Report(w, "POST_FINI")
      BY DEF push_end, push_post_fini
    <2> HIDE DEF w
    <2>3. QED BY <2>1, <2>2, ReportType DEF Keeps, EventKind
  <1>6. QED BY <1>1, <1>2, <1>3, <1>4, <1>5

----------------------------------------------------------------------------
(* The handlers, each from the pushes it makes.                            *)

LEMMA KeepsPhase ==
    ASSUME NEW v \in View, NEW new \in Phases, NEW expected
    PROVE  Keeps(v, phase_handler(v, new, expected))
  <1>0. Keeps(v, v) BY DEF Keeps
  <1>1. Keeps(v, handle_pre_init(v))
    BY <1>0, KeepsPushes DEF handle_pre_init
  <1>2. Keeps(v, handle_pre_test(v))
    BY <1>0, KeepsReport DEF handle_pre_test, EventKind
  <1>3. Keeps(v, handle_post_test(v, expected))
    BY <1>0, KeepsPushes DEF handle_post_test
  <1>4. Keeps(v, handle_post_fini(v))
    BY <1>0, KeepsPushes DEF handle_post_fini
  <1>5. ASSUME NEW t \in TestStats
        PROVE  Keeps(v, [v EXCEPT !.t = t])
    BY WithTest DEF Keeps
  <1>6. v.t \in TestStats BY DEF View
  <1>7. Keeps(v, handle_abort(v, expected))
    <2> DEFINE t == [v.t EXCEPT !.test_status = FAILED]
               w == [v EXCEPT !.t = t]
               x == IF curstate(v.state) < CS_TEARDOWN
                    THEN push_post_test(w, expected) ELSE w
    <2>1. t \in TestStats BY <1>6 DEF TestStats, TestStatus, FAILED
    <2>2. [v EXCEPT !.t.test_status = FAILED] = w BY DEF View
    <2> HIDE DEF t
    <2>3. Keeps(v, w) BY <1>5, <2>1
    <2> HIDE DEF w
    <2>4. Keeps(w, x) BY <2>3, KeepsPushes DEF Keeps
    <2>5. handle_abort(v, expected)
            = IF nested(v.state) THEN Report(v, "THEORY_FAIL")
              ELSE IF curstate(v.state) < CS_END THEN push_post_fini(x) ELSE x
      BY <2>2 DEF handle_abort
    <2> HIDE DEF x
    <2>6. Keeps(v, x) BY <2>3, <2>4 DEF Keeps
    <2>7. Keeps(v, push_post_fini(x)) BY <2>6, KeepsPushes DEF Keeps
    <2>8. Keeps(v, Report(v, "THEORY_FAIL")) BY KeepsReport DEF EventKind
    <2>9. QED BY <2>5, <2>6, <2>7, <2>8
  <1>8. Keeps(v, handle_timeout(v, expected))
    <2> DEFINE t == [v.t EXCEPT !.timed_out = TRUE]
               w == [v EXCEPT !.t = t]
    <2>1. t \in TestStats BY <1>6 DEF TestStats
    <2>2. [v EXCEPT !.t.timed_out = TRUE] = w BY DEF View
    <2> HIDE DEF t
    <2>3. Keeps(v, w) BY <1>5, <2>1
    <2>4. handle_timeout(v, expected)
            = IF nested(v.state) THEN v ELSE push_end(w, expected)
      BY <2>2 DEF handle_timeout
    <2> HIDE DEF w
    <2>5. Keeps(w, push_end(w, expected)) BY <2>3, KeepsPushes DEF Keeps
    <2>6. QED BY <1>0, <2>3, <2>4, <2>5 DEF Keeps
  <1>9. Keeps(v, handle_skip(v, expected))
    <2> DEFINE t == [v.t EXCEPT !.test_status = SKIPPED]
               w == [v EXCEPT !.t = t]
    <2>1. t \in TestStats BY <1>6 DEF TestStats, TestStatus, SKIPPED
    <2>2. [v EXCEPT !.t.test_status = SKIPPED] = w BY DEF View
    <2> HIDE DEF t
    <2>3. Keeps(v, w) BY <1>5, <2>1
    <2>4. handle_skip(v, expected)
            = IF nested(v.state) THEN v ELSE push_end(w, expected)
      BY <2>2 DEF handle_skip
    <2> HIDE DEF w
    <2>5. Keeps(w, push_end(w, expected)) BY <2>3, KeepsPushes DEF Keeps
    <2>6. QED BY <1>0, <2>3, <2>4, <2>5 DEF Keeps
  <1>10. QED
    BY <1>1, <1>2, <1>3, <1>4, <1>7, <1>8, <1>9
    DEF phase_handler, Phases, CS_SETUP, CS_MAIN, CS_TEARDOWN, CS_END,
        CS_ABORT, CS_TIMEOUT, CS_SKIP

(* The stack of client states never grows beyond a theory iteration in a   *)
(* test: the check of MAX_TEST_DEPTH in handle_phase never has to answer,  *)
(* and ctx->state never overflows, whatever the clients send.              *)
THEOREM StackBound ==
    ASSUME NEW s \in ClientState, NEW new \in Phases, ~phase_refused(s, new)
    PROVE  next_state(s, new) \in ClientState /\ s < DEPTH_LIMIT
  BY DEF ClientState, Phases, phase_refused, next_state, push_state, pop_state,
         nested, curstate, CS_MAX_CLIENT_STATES, CS_SETUP, CS_MAIN, CS_TEARDOWN,
         CS_END, CS_ABORT, CS_TIMEOUT, CS_SKIP, DEPTH_LIMIT

LEMMA HandlePhaseType ==
    ASSUME NEW v \in View, NEW new \in Phases, NEW expected,
           ~phase_refused(v.state, new)
    PROVE  /\ handle_phase(v, new, expected) \in View
           /\ handle_phase(v, new, expected).state = next_state(v.state, new)
           /\ handle_phase(v, new, expected).alive = v.alive
  <1> DEFINE w == phase_handler(v, new, expected)
             s == next_state(v.state, new)
  <1>1. Keeps(v, w) BY KeepsPhase
  <1>2. s \in ClientState BY StackBound DEF View
  <1>3. handle_phase(v, new, expected) = [w EXCEPT !.state = s]
    BY <1>1 DEF handle_phase, Keeps
  <1> HIDE DEF w, s
  <1>4. QED BY <1>1, <1>2, <1>3 DEF Keeps, View, s

LEMMA HandleDeathType ==
    ASSUME NEW v \in View, NEW crashed \in BOOLEAN, NEW code \in Nat,
           NEW expected
    PROVE  /\ handle_death(v, crashed, code, expected) \in View
           /\ handle_death(v, crashed, code, expected).state = v.state
           /\ handle_death(v, crashed, code, expected).alive = FALSE
  <1> DEFINE w == [v EXCEPT !.alive = FALSE]
  <1>1. w \in View /\ w.state = v.state /\ w.alive = FALSE BY DEF View
  <1>2. handle_death(v, crashed, code, expected)
          = IF crashed THEN handle_crash(w, code, expected)
                       ELSE handle_exit(w, code, expected)
    BY DEF handle_death
  <1> HIDE DEF w
  <1>0. w.t \in TestStats /\ w.g \in [GlobalCounter -> Nat]
    BY <1>1 DEF View
  <1>3. Keeps(w, warn(w))
    <2> DEFINE n == Count(w.g, {"warnings"}, 1)
    <2>1. n \in [GlobalCounter -> Nat] BY <1>0, CountType
    <2>2. warn(w) = [w EXCEPT !.g = n] BY DEF warn
    <2> HIDE DEF n
    <2>3. QED BY <1>1, <2>1, <2>2 DEF Keeps, View
  <1>4. Keeps(w, handle_crash(w, code, expected))
    <2> DEFINE t == [w.t EXCEPT !.signal = code]
               x == [w EXCEPT !.t = t]
    <2>1. t \in TestStats BY <1>0 DEF TestStats
    <2>2. [w EXCEPT !.t.signal = code] = x BY <1>1 DEF View
    <2>3. handle_crash(w, code, expected)
            = IF curstate(w.state) # CS_MAIN
              THEN IF w.state < CS_MAIN THEN push_test_crash(warn(w), FALSE)
                                        ELSE warn(w)
              ELSE IF expected.signal = 0 THEN push_test_crash(x, TRUE)
                                          ELSE push_end(x, expected)
      BY <2>2 DEF handle_crash
    <2> HIDE DEF t
    <2>4. Keeps(w, x) BY <1>1, <2>1, WithTest DEF Keeps
    <2> HIDE DEF x
    <2>5. Keeps(w, push_test_crash(x, TRUE)) /\ Keeps(w, push_end(x, expected))
      BY ZenonT(60), <2>4, KeepsPushes DEF Keeps
    <2>6. Keeps(w, push_test_crash(warn(w), FALSE))
      BY <1>3, KeepsPushes DEF Keeps
    <2>7. QED BY <2>3, <1>3, <2>5, <2>6
  <1>5. Keeps(w, handle_exit(w, code, expected))
    <2> DEFINE t == [w.t EXCEPT !.exit_code = code]
               x == [w EXCEPT !.t = t]
    <2>1. t \in TestStats BY <1>0 DEF TestStats
    <2>2. [w EXCEPT !.t.exit_code = code] = x BY <1>1 DEF View
    <2>3. handle_exit(w, code, expected)
            = IF curstate(w.state) = CS_TEARDOWN \/ w.state = CS_SETUP
              THEN IF w.state = CS_SETUP THEN push_test_crash(w, FALSE) ELSE w
              ELSE IF w.state = CS_MAIN THEN push_end(x, expected) ELSE x
      BY <2>2 DEF handle_exit
    <2> HIDE DEF t
    <2>4. Keeps(w, x) BY <1>1, <2>1, WithTest DEF Keeps
    <2> HIDE DEF x
    <2>5. Keeps(w, push_end(x, expected)) BY <2>4, KeepsPushes DEF Keeps
    <2>6. Keeps(w, push_test_crash(w, FALSE)) BY <1>1, KeepsPushes
    <2>7. Keeps(w, w) BY <1>1 DEF Keeps
    <2>8. QED BY <2>3, <2>4, <2>5, <2>6, <2>7
  <1>6. QED BY <1>1, <1>2, <1>4, <1>5 DEF Keeps

LEMMA HandleBirthType ==
    ASSUME NEW v \in View
    PROVE  handle_birth(v) \in View /\ handle_birth(v).state = v.state
  BY DEF handle_birth, View

LEMMA HandleStatisticType ==
    ASSUME NEW v \in View, NEW n \in Nat
    PROVE  Keeps(v, handle_statistic(v, n))
  <1> DEFINE K == {"asserts_passed", "nb_asserts"}
             t == [v.t EXCEPT !.passed_asserts = @ + n]
             a == Count(v.ss, K, n)
             b == Count(v.g, K, n)
  <1>1. a \in [SuiteCounter -> Nat] /\ b \in [GlobalCounter -> Nat]
    BY CountType DEF View
  <1>2. t \in TestStats BY SMTT(30) DEF View, TestStats
  <1>3. handle_statistic(v, n) = [v EXCEPT !.t = t, !.ss = a, !.g = b]
    BY DEF handle_statistic, View
  <1> HIDE DEF t, a, b
  <1>4. QED BY <1>1, <1>2, <1>3 DEF Keeps, View

LEMMA HandleMessageType ==
    ASSUME NEW v \in View, NEW severity
    PROVE  Keeps(v, handle_message(v, severity))
  <1> DEFINE K == IF severity = "ERROR" THEN {"errors"}
                  ELSE IF severity = "WARNING" THEN {"warnings"} ELSE {}
             n == Count(v.g, K, 1)
  <1>1. n \in [GlobalCounter -> Nat] BY CountType DEF View
  <1>2. handle_message(v, severity) = [v EXCEPT !.g = n]
    BY DEF handle_message
  <1> HIDE DEF n
  <1>3. QED BY <1>1, <1>2 DEF Keeps, View

----------------------------------------------------------------------------
(* The steps of Runner.                                                    *)

\* Every set of natural numbers has a least element.
LEMMA LeastElement ==
    ASSUME NEW S, S \subseteq Nat, S # {}
    PROVE  \E x \in S : \A y \in S : ~(y < x)
  <1>1. \E x \in S : \A y \in S : <<y, x>> \notin OpToRel(<, Nat)
    BY NatLessThanWellFounded, WFMin
  <1>2. \A x, y \in Nat : y < x => <<y, x>> \in OpToRel(<, Nat)
    BY DEF OpToRel
  <1>3. QED BY <1>1, <1>2

\* What holds at zero and at the successors holds up to n.
LEMMA UpTo ==
    ASSUME NEW n \in Nat, NEW S, 0 \in S,
           \A i \in 1 .. n : i - 1 \in S => i \in S
    PROVE  \A i \in 0 .. n : i \in S
  <1> SUFFICES ASSUME NEW m \in 0 .. n, m \notin S PROVE FALSE OBVIOUS
  <1> DEFINE C == {i \in 0 .. n : i \notin S}
  <1>1. C \subseteq Nat /\ C # {} OBVIOUS
  <1>2. PICK x \in C : \A y \in C : ~(y < x)
    <2> HIDE DEF C
    <2>1. QED BY <1>1, LeastElement
  <1>3. x \in 1 .. n /\ x \notin S BY <1>2
  <1>4. x - 1 \notin C BY <1>2, <1>3
  <1>5. x - 1 \in S BY <1>3, <1>4
  <1>6. QED BY <1>3, <1>5

----------------------------------------------------------------------------
\* The states of the server when a worker at p has no phase message pending.
\* A skip or an abort inside a theory iteration pops back to CS_MAIN.
StateAt(p) ==
    CASE p \in {"boot", "setup", "init", "abort"} -> {CS_SETUP}
      [] p \in {"main", "th_setup", "stat", "teardown"} -> {CS_MAIN}
      [] p = "th_main" -> {4}
      [] p \in {"theory", "th_abort"} -> {5}
      [] p = "th_end" -> {6}
      [] p \in {"fini", "end"} -> {CS_TEARDOWN}
      [] p = "exit" -> {CS_END, CS_MAIN}
      [] p = "hung" -> ClientState

\* The server takes the message m in state s, and is then where p needs it.
Agrees(s, m, p) ==
    IF m.kind = "PHASE"
    THEN ~phase_refused(s, m.arg) /\ next_state(s, m.arg) \in StateAt(p)
    ELSE s \in StateAt(p)

Coupled(j) ==
    wk[j].proc = "running" => /\ Agrees(ctx[j].state, chan[j], wk[j].pc)
                              /\ j \in subs

\* The job j lies ahead of the coroutine.
Ahead(j) == \/ j[1] > pos.suite
            \/ j[1] = pos.suite /\ j[2] > pos.test
            \/ j[1] = pos.suite /\ j[2] = pos.test /\ j[3] > pos.param

Fresh(j) == Ahead(j) => wk[j] = Unborn /\ chan[j] = Idle

\* A worker killed with a request on its way is not answered any more.
SocketOK(j) == /\ chan[j].kind # "nack"
               /\ chan[j].kind = "PHASE" => chan[j].arg \in Phases

\* The socket of the callback thread carries the death it reports.
CallbackOK ==
    /\ cb.pc = "idle" => chan[Own] = Idle
    /\ cb.pc # "idle" => cb.job \in subs /\ wk[cb.job].proc = "dead"
    /\ cb.pc = "timeout" =>
          \/ chan[Own] = M("PHASE", CS_TIMEOUT)
          \/ chan[Own].kind = "ok"
          \/ chan[Own].kind = "nack" /\ ctx[cb.job].state = CS_END
    /\ cb.pc = "death" => chan[Own].kind \in {"CRASH", "EXIT", "ok"}

Registered == \A j \in Job : wk[j].proc = "dead" => j \in subs

LoopOK == /\ pos.suite > 0
          /\ ~initial /\ rpc \in {"sched", "recv", "reap", "terminate"}
                => active > 0

IInv == /\ TypeOK
        /\ \A j \in Job : Coupled(j) /\ Fresh(j) /\ SocketOK(j)
        /\ CallbackOK /\ Registered /\ LoopOK

----------------------------------------------------------------------------
(* The constants and the jobs they make.                                   *)

LEMMA JobFacts ==
    ASSUME NEW j \in Job
    PROVE  /\ j[1] \in DOMAIN Suites
           /\ Suites[j[1]] \in SuiteRec
           /\ j[2] \in DOMAIN Suites[j[1]].tests
           /\ Test(j) \in TestRec
           /\ j[3] \in 1 .. Test(j).runs
           /\ j = <<j[1], j[2], j[3]>>
           /\ j[1] \in Nat /\ j[2] \in Nat /\ j[3] \in Nat /\ j[1] > 0
           /\ j # Own
  <1>a. PICK s \in DOMAIN Suites :
           \E n \in DOMAIN Suites[s].tests :
              \E p \in 1 .. Suites[s].tests[n].runs : j = <<s, n, p>>
    BY DEF Job
  <1>b. PICK n \in DOMAIN Suites[s].tests :
           \E p \in 1 .. Suites[s].tests[n].runs : j = <<s, n, p>>
    BY <1>a
  <1>1. PICK p \in 1 .. Suites[s].tests[n].runs : j = <<s, n, p>>
    BY <1>b
  <1>2. s \in Nat /\ s > 0 /\ Suites[s] \in SuiteRec
    BY SuitesAssumption
  <1>3. Suites[s].tests \in Seq(TestRec) BY <1>2 DEF SuiteRec
  <1>4. n \in Nat /\ Suites[s].tests[n] \in TestRec BY <1>3
  <1>5. p \in Nat BY <1>4 DEF TestRec
  <1>6. j[1] = s /\ j[2] = n /\ j[3] = p BY <1>1
  <1>7. QED BY <1>1, <1>2, <1>4, <1>5, <1>6 DEF Test, Own

LEMMA JobIntro ==
    ASSUME NEW s \in DOMAIN Suites, NEW n \in DOMAIN Suites[s].tests,
           NEW p \in 1 .. Suites[s].tests[n].runs
    PROVE  <<s, n, p>> \in Job
  BY DEF Job

LEMMA MsgType ==
    ASSUME NEW kind \in Requests \cup Answers \cup {"idle"}, NEW arg \in Nat
    PROVE  /\ M(kind, arg) \in Msg
           /\ M(kind, arg).kind = kind
           /\ M(kind, arg).arg = arg
  BY DEF M, Msg

LEMMA IdleType == Idle \in Msg /\ Idle.kind = "idle"
  BY DEF Idle, M, Msg

LEMMA UnbornType == Unborn \in WorkerRec
  BY OptionsAssumption DEF Unborn, WorkerRec, Process, Counter

LEMMA FreshCtxType == FreshCtx \in ClientCtx
  BY FreshTestType DEF FreshCtx, ClientCtx, ClientState, CS_SETUP

----------------------------------------------------------------------------
(* A worker moves: only its own record and its own socket change.          *)

LEMMA WorkerMoves ==
    ASSUME IInv, NEW j \in Job, wk[j].proc = "running",
           NEW r \in WorkerRec, NEW m \in Msg,
           wk' = [wk EXCEPT ![j] = r], chan' = [chan EXCEPT ![j] = m],
           UNCHANGED <<cb, subs, ctx, ss, g, rpc, cur, active, initial, pos>>,
           r.proc \in {"running", "dead"},
           r.proc = "running" => Agrees(ctx[j].state, m, r.pc),
           m.kind # "nack",
           m.kind = "PHASE" => m.arg \in Phases
    PROVE  IInv'
  <1>0. j # Own /\ j \in Socket BY JobFacts DEF Socket
  <1>1. TypeOK' BY <1>0 DEF IInv, TypeOK, WorkerTypeOK
  <1>2. /\ wk'[j] = r /\ chan'[j] = m
        /\ \A k \in Job \ {j} : wk'[k] = wk[k] /\ chan'[k] = chan[k]
        /\ chan'[Own] = chan[Own]
    BY <1>0 DEF IInv, TypeOK, WorkerTypeOK, Socket
  <1>3. j \in subs BY DEF IInv, Coupled
  <1>4. ~Ahead(j) BY DEF IInv, Fresh, Unborn
  <1>5. ASSUME NEW k \in Job PROVE (Coupled(k) /\ Fresh(k) /\ SocketOK(k))'
    <2>1. CASE k = j
      BY <1>2, <1>3, <1>4, <2>1
      DEF Coupled, Fresh, SocketOK, Ahead, Agrees
    <2>2. CASE k # j
      BY <1>2, <2>2 DEF IInv, Coupled, Fresh, SocketOK, Ahead, Agrees
    <2>3. QED BY <2>1, <2>2
  <1>6. CallbackOK'
    <2>1. cb.pc # "idle" => cb.job \in Job /\ cb.job # j
      BY DEF IInv, CallbackOK, TypeOK
    <2>2. QED BY <1>2, <2>1 DEF IInv, CallbackOK
  <1>7. Registered'
    BY <1>2, <1>3 DEF IInv, Registered
  <1>8. LoopOK' BY DEF IInv, LoopOK
  <1>9. QED BY <1>1, <1>5, <1>6, <1>7, <1>8 DEF IInv

\* A worker at p sends m and stands at next.
LEMMA WorkerSends ==
    ASSUME IInv, NEW j \in Job, NEW p \in Counter, At(j, p),
           NEW m \in Msg, NEW next \in Counter, Send(j, m, next),
           UNCHANGED <<serverVars, loopVars>>,
           ctx[j].state \in StateAt(p) => Agrees(ctx[j].state, m, next),
           m.kind # "nack", m.kind = "PHASE" => m.arg \in Phases
    PROVE  IInv'
  <1> DEFINE r == [wk[j] EXCEPT !.pc = next]
  <1>1. wk[j] \in WorkerRec /\ wk \in [Job -> WorkerRec]
    BY DEF IInv, TypeOK, WorkerTypeOK
  <1>2. r \in WorkerRec /\ r.proc = "running" /\ r.pc = next
    BY <1>1 DEF WorkerRec, At
  <1>3. wk' = [wk EXCEPT ![j] = r] BY <1>1 DEF Send
  <1> HIDE DEF r
  <1>4. ctx[j].state \in StateAt(p)
    BY IdleType DEF IInv, Coupled, Agrees, At
  <1>5. wk[j].proc = "running" BY DEF At
  <1>6. QED
    BY <1>2, <1>3, <1>4, <1>5, WorkerMoves DEF Send, serverVars, loopVars

\* A worker that dies leaves its socket empty, or as it was.
LEMMA WorkerDies ==
    ASSUME IInv, NEW j \in Job, wk[j].proc = "running",
           NEW r \in WorkerRec, r.proc = "dead",
           wk' = [wk EXCEPT ![j] = r],
           chan' = chan \/ chan' = [chan EXCEPT ![j] = Idle],
           UNCHANGED <<cb, serverVars, loopVars>>
    PROVE  IInv'
  <1>0. j \in Socket BY DEF Socket
  <1>1. PICK m \in {chan[j], Idle} : chan' = [chan EXCEPT ![j] = m]
    BY <1>0 DEF IInv, TypeOK, WorkerTypeOK
  <1>2. m \in Msg /\ m.kind # "nack" /\ (m.kind = "PHASE" => m.arg \in Phases)
    BY <1>0, <1>1, IdleType DEF IInv, TypeOK, WorkerTypeOK, SocketOK
  <1>3. QED BY <1>1, <1>2, WorkerMoves DEF serverVars, loopVars

----------------------------------------------------------------------------
(* The steps of a worker.                                                  *)

\* What the two phases of a state allow, as numbers.
LEMMA PhaseMoves ==
    /\ \A s \in {0, 1} : ~phase_refused(s, CS_SETUP)
    /\ next_state(0, CS_SETUP) = 0 /\ next_state(1, CS_SETUP) = 4
    /\ \A s \in {0, 4} : ~phase_refused(s, CS_MAIN)
                         /\ next_state(s, CS_MAIN) = s + 1
    /\ \A s \in {1, 5} : ~phase_refused(s, CS_TEARDOWN)
                         /\ next_state(s, CS_TEARDOWN) = s + 1
    /\ ~phase_refused(2, CS_END) /\ next_state(2, CS_END) = CS_END
    /\ ~phase_refused(6, CS_END) /\ next_state(6, CS_END) = CS_MAIN
    /\ \A s \in {0, 1, 2, 5, 6}, new \in {CS_ABORT, CS_TIMEOUT, CS_SKIP} :
          ~phase_refused(s, new)
    /\ \A s \in {0, 1, 2}, new \in {CS_ABORT, CS_SKIP} :
          next_state(s, new) = CS_END
    /\ \A s \in {5, 6}, new \in {CS_ABORT, CS_SKIP} :
          next_state(s, new) = CS_MAIN
  BY DEF phase_refused, next_state, push_state, pop_state, nested, curstate,
         CS_MAX_CLIENT_STATES, CS_SETUP, CS_MAIN, CS_TEARDOWN, CS_END,
         CS_ABORT, CS_TIMEOUT, CS_SKIP, DEPTH_LIMIT

\* A phase message from p that leaves the worker at next.
Advances(p, new, next) ==
    \A s \in StateAt(p) :
        ~phase_refused(s, new) /\ next_state(s, new) \in StateAt(next)

LEMMA Advancing ==
    /\ Advances("setup", CS_SETUP, "init")
    /\ Advances("init", CS_MAIN, "main") /\ Advances("init", CS_MAIN, "th_setup")
    /\ Advances("main", CS_TEARDOWN, "fini")
    /\ Advances("stat", CS_TEARDOWN, "fini")
    /\ Advances("teardown", CS_TEARDOWN, "fini")
    /\ Advances("fini", CS_END, "exit") /\ Advances("end", CS_END, "exit")
    /\ Advances("th_setup", CS_SETUP, "th_main")
    /\ Advances("th_main", CS_MAIN, "theory")
    /\ Advances("theory", CS_TEARDOWN, "th_end")
    /\ Advances("th_abort", CS_ABORT, "th_setup")
    /\ Advances("th_abort", CS_ABORT, "stat")
    /\ Advances("th_end", CS_END, "th_setup") /\ Advances("th_end", CS_END, "stat")
    /\ \A p \in Section, new \in {CS_ABORT, CS_SKIP} : Advances(p, new, "exit")
  BY PhaseMoves
  DEF Advances, StateAt, Section, CS_SETUP, CS_MAIN, CS_TEARDOWN, CS_END

LEMMA PhaseMsg ==
    ASSUME NEW new \in Phases
    PROVE  LET m == M("PHASE", new) IN m \in Msg /\ m.kind = "PHASE" /\ m.arg = new
  BY MsgType DEF Requests, Phases, CS_SETUP, CS_SKIP

LEMMA SendsPhase ==
    ASSUME IInv, NEW j \in Job, NEW p \in Counter, At(j, p),
           NEW new \in Phases, NEW next \in Counter, Advances(p, new, next),
           Send(j, M("PHASE", new), next), UNCHANGED <<serverVars, loopVars>>
    PROVE  IInv'
  <1> DEFINE m == M("PHASE", new)
  <1>1. m \in Msg /\ m.kind = "PHASE" /\ m.arg = new BY PhaseMsg
  <1>2. Send(j, m, next) OBVIOUS
  <1> HIDE DEF m
  <1>3. ctx[j].state \in StateAt(p) => Agrees(ctx[j].state, m, next)
    BY <1>1 DEF Advances, Agrees
  <1>4. QED BY <1>1, <1>2, <1>3, WorkerSends

\* A message that does not move the stack, from a place with the same state.
LEMMA SendsOther ==
    ASSUME IInv, NEW j \in Job, NEW p \in Counter, At(j, p),
           NEW kind \in Requests \ {"PHASE"}, NEW arg \in Nat,
           NEW next \in Counter, StateAt(p) \subseteq StateAt(next),
           Send(j, M(kind, arg), next), UNCHANGED <<serverVars, loopVars>>
    PROVE  IInv'
  <1> DEFINE m == M(kind, arg)
  <1>1. m \in Msg /\ m.kind = kind BY MsgType
  <1>2. Send(j, m, next) /\ kind # "nack" /\ kind # "PHASE" BY DEF Requests
  <1> HIDE DEF m
  <1>3. ctx[j].state \in StateAt(p) => Agrees(ctx[j].state, m, next)
    BY <1>1, <1>2 DEF Agrees
  <1>4. QED BY <1>1, <1>2, <1>3, WorkerSends

\* A worker at p sends a phase message, and its record becomes r.
LEMMA TheoryMoves ==
    ASSUME IInv, NEW j \in Job, NEW p \in Counter, At(j, p),
           NEW new \in Phases, NEW r \in WorkerRec, r.proc = "running",
           Advances(p, new, r.pc),
           chan' = [chan EXCEPT ![j] = M("PHASE", new)],
           wk' = [wk EXCEPT ![j] = r], UNCHANGED <<cb, serverVars, loopVars>>
    PROVE  IInv'
  <1> DEFINE m == M("PHASE", new)
  <1>1. m \in Msg /\ m.kind = "PHASE" /\ m.arg = new BY PhaseMsg
  <1>2. chan' = [chan EXCEPT ![j] = m] OBVIOUS
  <1> HIDE DEF m
  <1>3. ctx[j].state \in StateAt(p)
    BY IdleType DEF IInv, Coupled, Agrees, At
  <1>4. Agrees(ctx[j].state, m, r.pc) BY <1>1, <1>3 DEF Advances, Agrees
  <1>5. wk[j].proc = "running" BY DEF At
  <1>6. QED BY <1>1, <1>2, <1>4, <1>5, WorkerMoves DEF serverVars, loopVars

LEMMA IndicesType ==
    ASSUME NEW points \in Points, NEW indices \in Seq(Nat)
    PROVE  /\ first_indices(points) \in Seq(Nat)
           /\ next_indices(points, indices) \in Seq(Nat)
           /\ has_next(points, indices) \in BOOLEAN
  <1>1. first_indices(points) \in Seq(Nat) BY DEF first_indices, Points
  <1>2. ASSUME NEW i \in DOMAIN indices
        PROVE  next_indices(points, indices)[i] \in Nat
    BY DEF next_indices
  <1>3. next_indices(points, indices) \in Seq(Nat)
    BY <1>2 DEF next_indices
  <1>4. QED BY <1>1, <1>3 DEF has_next

LEMMA TheorySends ==
    ASSUME IInv, NEW j \in Job, NEW p \in Counter, At(j, p),
           NEW new \in Phases, Advances(p, new, "th_setup"),
           Advances(p, new, "stat"),
           NextRound(j, M("PHASE", new)), UNCHANGED <<serverVars, loopVars>>
    PROVE  IInv'
  <1> DEFINE next == IF has_next(Test(j).points, wk[j].indices)
                     THEN "th_setup" ELSE "stat"
             n == wk[j].round + 1
             q == next_indices(Test(j).points, wk[j].indices)
             r == [wk[j] EXCEPT !.round = n, !.indices = q, !.pc = next]
  <1>1. next \in Counter /\ Advances(p, new, next) BY DEF Counter
  <1>2. wk[j] \in WorkerRec /\ wk \in [Job -> WorkerRec]
    BY DEF IInv, TypeOK, WorkerTypeOK
  <1>3. wk' = [wk EXCEPT ![j] = r] BY <1>2 DEF NextRound
  <1>4. wk[j].round \in Nat /\ wk[j].indices \in Seq(Nat) BY <1>2 DEF WorkerRec
  <1>p. Test(j).points \in Points BY JobFacts DEF TestRec
  <1>5. n \in Nat /\ q \in Seq(Nat) BY <1>4, <1>p, IndicesType
  <1> HIDE DEF next, n, q
  <1>6. r \in WorkerRec /\ r.proc = "running" /\ r.pc = next
    BY <1>1, <1>2, <1>5 DEF WorkerRec, At
  <1> HIDE DEF r
  <1>7. QED BY <1>1, <1>3, <1>6, TheoryMoves DEF NextRound

LEMMA TheoryBegins ==
    ASSUME IInv, NEW j \in Job, At(j, "init"), BeginTheory(j),
           UNCHANGED <<serverVars, loopVars>>
    PROVE  IInv'
  <1> DEFINE q == first_indices(Test(j).points)
             r == [wk[j] EXCEPT !.pc = "th_setup", !.indices = q]
  <1>1. wk[j] \in WorkerRec /\ wk \in [Job -> WorkerRec]
    BY DEF IInv, TypeOK, WorkerTypeOK
  <1>2. wk' = [wk EXCEPT ![j] = r] BY <1>1 DEF BeginTheory
  <1>p. Test(j).points \in Points BY JobFacts DEF TestRec
  <1>n. <<>> \in Seq(Nat) OBVIOUS
  <1>3. q \in Seq(Nat) BY <1>p, <1>n, IndicesType
  <1> HIDE DEF q
  <1>4. r \in WorkerRec /\ r.proc = "running" /\ r.pc = "th_setup"
    BY <1>1, <1>3 DEF WorkerRec, At, Counter
  <1> HIDE DEF r
  <1>5. CS_MAIN \in Phases /\ "init" \in Counter
    BY DEF Phases, CS_MAIN, CS_SETUP, CS_SKIP, Counter
  <1>6. Advances("init", CS_MAIN, r.pc) BY <1>4, Advancing
  <1>7. QED BY <1>2, <1>4, <1>5, <1>6, TheoryMoves DEF BeginTheory

LEMMA TrampolineSteps ==
    ASSUME IInv, NEW j \in Job, Trampoline(j), UNCHANGED <<serverVars, loopVars>>
    PROVE  IInv'
  <1>0. /\ wk[j] \in WorkerRec /\ wk \in [Job -> WorkerRec]
        /\ chan \in [Socket -> Msg] /\ j \in Socket
    BY DEF IInv, TypeOK, WorkerTypeOK, Socket
  <1> DEFINE Places == {"boot", "setup", "init", "main", "th_setup", "th_main",
                        "theory", "th_abort", "th_end", "stat", "teardown",
                        "fini", "end", "exit"}
  <1>p. Places \subseteq Counter BY DEF Counter
  <1>a. {CS_SETUP, CS_MAIN, CS_TEARDOWN, CS_END, CS_ABORT} \subseteq Phases
    BY DEF Phases, CS_SETUP, CS_MAIN, CS_TEARDOWN, CS_END, CS_ABORT, CS_SKIP
  <1>1. CASE ReceiveAck(j)
    <2>1. wk' = [wk EXCEPT ![j] = wk[j]] BY <1>0, <1>1 DEF ReceiveAck
    <2>2. Agrees(ctx[j].state, chan[j], wk[j].pc) /\ chan[j].kind = "ok"
      BY <1>1 DEF IInv, Coupled, ReceiveAck
    <2>3. Agrees(ctx[j].state, Idle, wk[j].pc)
      BY <2>2, IdleType DEF Agrees
    <2>4. QED
      BY <1>0, <1>1, <2>1, <2>3, IdleType, WorkerMoves
      DEF ReceiveAck, serverVars, loopVars
  <1>2. CASE ReceiveNack(j)
    BY <1>2 DEF ReceiveNack, IInv, SocketOK
  <1>3. CASE SendBirth(j)
    <2>1. StateAt("boot") \subseteq StateAt("setup") BY DEF StateAt
    <2>2. QED BY <1>3, <1>p, <2>1, SendsOther DEF SendBirth, Requests
  <1>4. CASE SendSetup(j)
    BY <1>4, <1>p, <1>a, Advancing, SendsPhase DEF SendSetup
  <1>5. CASE SendMain(j)
    <2>1. CASE Test(j).points # <<>>
      BY <1>5, <2>1, TheoryBegins DEF SendMain
    <2>2. CASE Test(j).points = <<>>
      BY <1>5, <2>2, <1>p, <1>a, Advancing, SendsPhase DEF SendMain
    <2>3. QED BY <2>1, <2>2
  <1>6. CASE SendStatistic(j)
    <2>1. PICK p \in {"main", "stat"} : At(j, p) BY <1>6 DEF SendStatistic
    <2>2. StateAt(p) \subseteq StateAt("teardown") BY <2>1 DEF StateAt
    <2>3. wk[j].npass \in Nat BY <1>0 DEF WorkerRec
    <2>4. QED BY <1>6, <1>p, <2>1, <2>2, <2>3, SendsOther
              DEF SendStatistic, Requests
  <1>7. CASE SendTeardown(j)
    <2>1. PICK p \in {"main", "stat", "teardown"} : At(j, p)
      BY <1>7 DEF SendTeardown
    <2>2. QED BY <1>7, <1>p, <1>a, <2>1, Advancing, SendsPhase
              DEF SendTeardown
  <1>8. CASE SendEnd(j)
    <2>1. PICK p \in {"fini", "end"} : At(j, p) BY <1>8 DEF SendEnd
    <2>2. QED BY <1>8, <1>p, <1>a, <2>1, Advancing, SendsPhase DEF SendEnd
  <1>9. ASSUME NEW crashed \in BOOLEAN, NEW code \in Nat,
               wk[j].proc = "running", Dies(j, crashed, code),
               UNCHANGED chan
        PROVE  IInv'
    <2> DEFINE r == [wk[j] EXCEPT !.proc = "dead", !.crashed = crashed,
                                  !.code = code]
    <2>1. r \in WorkerRec /\ r.proc = "dead" BY <1>0 DEF WorkerRec, Process
    <2>2. wk' = [wk EXCEPT ![j] = r] BY <1>0, <1>9 DEF Dies
    <2> HIDE DEF r
    <2>3. QED BY <1>9, <2>1, <2>2, WorkerDies DEF Dies
  <1>10. CASE Exit(j)
    BY <1>9, <1>10 DEF Exit, At
  <1>11. CASE AbortInit(j)
    BY <1>9, <1>11 DEF AbortInit, At, SIGABRT
  <1>12. CASE SendTheorySetup(j)
    BY <1>12, <1>p, <1>a, Advancing, SendsPhase DEF SendTheorySetup
  <1>13. CASE SendTheoryMain(j)
    BY <1>13, <1>p, <1>a, Advancing, SendsPhase DEF SendTheoryMain
  <1>14. CASE SendTheoryAbort(j)
    BY <1>14, <1>p, <1>a, Advancing, TheorySends DEF SendTheoryAbort
  <1>15. CASE SendTheoryTeardown(j)
    BY <1>15, <1>p, <1>a, Advancing, SendsPhase DEF SendTheoryTeardown
  <1>16. CASE SendTheoryEnd(j)
    BY <1>16, <1>p, <1>a, Advancing, TheorySends DEF SendTheoryEnd
  <1>17. QED
    BY <1>1, <1>2, <1>3, <1>4, <1>5, <1>6, <1>7, <1>8, <1>10, <1>11, <1>12,
       <1>13, <1>14, <1>15, <1>16
    DEF Trampoline

\* A worker dies: nothing of it but its process and its socket changes.
LEMMA DeathType ==
    ASSUME IInv, NEW j \in Job, NEW crashed \in BOOLEAN, NEW code \in Nat,
           NEW late \in BOOLEAN
    PROVE  [wk[j] EXCEPT !.proc = "dead", !.crashed = crashed, !.code = code,
                         !.timed_out = late] \in WorkerRec
  <1>1. wk[j] \in WorkerRec BY DEF IInv, TypeOK, WorkerTypeOK
  <1>2. QED BY <1>1 DEF WorkerRec, Process

LEMMA UserSteps ==
    ASSUME IInv, NEW j \in Job, UserCode(j), UNCHANGED <<serverVars, loopVars>>
    PROVE  IInv'
  <1>0. /\ wk[j] \in WorkerRec /\ wk \in [Job -> WorkerRec]
        /\ chan \in [Socket -> Msg] /\ j \in Socket
    BY DEF IInv, TypeOK, WorkerTypeOK, Socket
  <1>p. Section \subseteq Counter /\ "exit" \in Counter /\ "hung" \in Counter
        /\ \A s \in Section : landing(s) \in Counter
    BY DEF Counter, Section, landing
  <1>l. \A s \in Section : StateAt(s) \subseteq StateAt(landing(s))
    BY DEF Section, landing, StateAt
  <1>h. ASSUME NEW a, May(j, a) PROVE \E s \in Section : At(j, s)
    BY <1>h DEF May
  <1>i. ASSUME NEW s \in Section, At(j, s), NEW kind \in Requests \ {"PHASE"},
               NEW arg \in Nat, Interject(j, M(kind, arg))
        PROVE  IInv'
    <2> DEFINE m == M(kind, arg)
               n == wk[j].left - 1
               r == [wk[j] EXCEPT !.left = n]
    <2>1. m \in Msg /\ m.kind = kind BY MsgType
    <2>2. n \in Nat BY <1>0, <1>i DEF Interject, WorkerRec
    <2>3. wk' = [wk EXCEPT ![j] = r] /\ chan' = [chan EXCEPT ![j] = m]
      BY <1>0, <1>i DEF Interject
    <2>4. kind # "nack" /\ kind # "PHASE" BY DEF Requests
    <2> HIDE DEF m, n
    <2>5. r \in WorkerRec /\ r.proc = "running" /\ r.pc = s
      BY <1>0, <1>i, <2>2 DEF WorkerRec, At
    <2> HIDE DEF r
    <2>6. Agrees(ctx[j].state, m, s)
      BY <1>i, <2>1, <2>4, IdleType DEF IInv, Coupled, Agrees, At
    <2>7. wk[j].proc = "running" BY <1>i DEF At
    <2>8. UNCHANGED <<cb, subs, ctx, ss, g, rpc, cur, active, initial, pos>>
      BY <1>i DEF Interject, serverVars, loopVars
    <2>9. m.kind # "nack" /\ m.kind # "PHASE" BY <2>1, <2>4
    <2>10. QED
      BY <2>1, <2>3, <2>5, <2>6, <2>7, <2>8, <2>9, WorkerMoves
  <1>k. ASSUME NEW s \in Section, At(j, s), NEW r \in WorkerRec,
               r.proc = "running", StateAt(s) \subseteq StateAt(r.pc),
               wk' = [wk EXCEPT ![j] = r], UNCHANGED <<chan, cb>>
        PROVE  IInv'
    <2>1. chan' = [chan EXCEPT ![j] = Idle] BY <1>0, <1>k DEF At
    <2>2. Agrees(ctx[j].state, Idle, r.pc)
      BY <1>k, IdleType DEF IInv, Coupled, Agrees, At
    <2>3. wk[j].proc = "running" BY <1>k DEF At
    <2>4. Idle.kind # "nack" /\ Idle.kind # "PHASE" BY IdleType
    <2>5. QED
      BY <1>k, <2>1, <2>2, <2>3, <2>4, IdleType, WorkerMoves
      DEF serverVars, loopVars
  <1>d. ASSUME NEW crashed \in BOOLEAN, NEW code \in Nat,
               wk[j].proc = "running", Dies(j, crashed, code),
               UNCHANGED chan
        PROVE  IInv'
    <2> DEFINE r == [wk[j] EXCEPT !.proc = "dead", !.crashed = crashed,
                                  !.code = code]
    <2>1. r \in WorkerRec /\ r.proc = "dead" BY <1>0 DEF WorkerRec, Process
    <2>2. wk' = [wk EXCEPT ![j] = r] BY <1>0, <1>d DEF Dies
    <2> HIDE DEF r
    <2>3. QED BY <1>d, <2>1, <2>2, WorkerDies DEF Dies
  <1>1. CASE AssertPasses(j)
    <2>1. PICK s \in Section : At(j, s) BY <1>1, <1>h DEF AssertPasses
    <2>2. CASE FullStats /\ Interject(j, M("ASSERT", 1))
      BY <2>1, <2>2, <1>i DEF Requests
    <2>3. CASE ~(FullStats /\ Interject(j, M("ASSERT", 1)))
      <3> DEFINE a == wk[j].left - 1
                 b == wk[j].npass + 1
                 r == [wk[j] EXCEPT !.left = a, !.npass = b]
      <3>1. a \in Nat /\ b \in Nat
        BY <1>0, <1>1, <2>3 DEF AssertPasses, WorkerRec
      <3>2. wk' = [wk EXCEPT ![j] = r] /\ UNCHANGED <<chan, cb>>
        BY <1>0, <1>1, <2>3 DEF AssertPasses
      <3> HIDE DEF a, b
      <3>3. r \in WorkerRec /\ r.proc = "running" /\ r.pc = s
        BY <1>0, <2>1, <3>1 DEF WorkerRec, At
      <3> HIDE DEF r
      <3>4. QED BY <2>1, <3>2, <3>3, <1>k
    <2>4. QED BY <2>2, <2>3
  <1>2. CASE ExpectFails(j)
    BY <1>2, <1>h, <1>i DEF ExpectFails, Requests
  <1>3. CASE LogInfo(j) \/ LogWarning(j) \/ LogError(j)
    BY <1>3, <1>h, <1>i DEF LogInfo, LogWarning, LogError, Requests
  <1>4. CASE AssertFails(j)
    <2>1. PICK s \in Section : At(j, s) BY <1>4, <1>h DEF AssertFails
    <2>2. Send(j, M("ASSERT", 0), landing(s))
      BY <1>4, <2>1 DEF AssertFails, At
    <2>3. QED BY <2>1, <2>2, <1>p, <1>l, SendsOther DEF Requests
  <1>5. ASSUME NEW s \in Section, At(j, s), NEW q \in Counter,
               StateAt(s) \subseteq StateAt(q),
               wk' = [wk EXCEPT ![j].pc = q], UNCHANGED <<chan, cb>>
        PROVE  IInv'
    <2> DEFINE r == [wk[j] EXCEPT !.pc = q]
    <2>1. r \in WorkerRec /\ r.proc = "running" /\ r.pc = q
      BY <1>0, <1>5 DEF WorkerRec, At
    <2>2. wk' = [wk EXCEPT ![j] = r] BY <1>0, <1>5
    <2> HIDE DEF r
    <2>3. QED BY <1>5, <2>1, <2>2, <1>k
  <1>6. CASE AbortTest(j)
    <2>1. PICK s \in Section : At(j, s) BY <1>6, <1>h DEF AbortTest
    <2>2. wk' = [wk EXCEPT ![j].pc = landing(s)] /\ UNCHANGED <<chan, cb>>
      BY <1>6, <2>1 DEF AbortTest, At
    <2>3. QED BY <2>1, <2>2, <1>p, <1>l, <1>5
  <1>7. CASE SkipTest(j) \/ TestDie(j)
    <2>1. PICK s \in Section : At(j, s) BY <1>7, <1>h DEF SkipTest, TestDie
    <2>2. PICK new \in {CS_SKIP, CS_ABORT} : Send(j, M("PHASE", new), "exit")
      BY <1>7 DEF SkipTest, TestDie
    <2>3. new \in Phases
      BY DEF Phases, CS_SETUP, CS_ABORT, CS_SKIP
    <2>4. QED BY <2>1, <2>2, <2>3, <1>p, Advancing, SendsPhase
  <1>8. CASE ExitTest(j)
    <2>1. wk[j].proc = "running" BY <1>8, <1>h DEF ExitTest, At
    <2>2. PICK code \in {0, 1} : Dies(j, FALSE, code) BY <1>8 DEF ExitTest
    <2>3. QED BY <1>8, <2>1, <2>2, <1>d DEF ExitTest
  <1>9. CASE Crash(j)
    BY <1>9, <1>h, <1>d DEF Crash, At, SIGSEGV
  <1>10. CASE Hang(j)
    <2>1. PICK s \in Section : At(j, s) BY <1>10, <1>h DEF Hang
    <2>2. StateAt(s) \subseteq StateAt("hung")
      BY DEF StateAt, Section, ClientState, CS_SETUP, CS_MAIN, CS_TEARDOWN
    <2>3. QED BY <1>10, <2>1, <2>2, <1>p, <1>5 DEF Hang
  <1>11. QED
    BY <1>1, <1>2, <1>3, <1>4, <1>6, <1>7, <1>8, <1>9, <1>10 DEF UserCode

LEMMA OutsideSteps ==
    ASSUME IInv, NEW j \in Job, Outside(j), UNCHANGED <<serverVars, loopVars>>
    PROVE  IInv'
  <1>1. ASSUME NEW late \in BOOLEAN, Killed(j, late) PROVE IInv'
    <2> DEFINE r == [wk[j] EXCEPT !.proc = "dead", !.crashed = TRUE,
                                  !.code = SIGKILL, !.timed_out = late]
    <2>1. r \in WorkerRec BY DeathType DEF SIGKILL
    <2>2. wk[j] \in WorkerRec BY DEF IInv, TypeOK, WorkerTypeOK
    <2>3. wk' = [wk EXCEPT ![j] = r] BY <1>1, <2>2 DEF Killed
    <2>4. r.proc = "dead" BY <2>2 DEF WorkerRec
    <2> HIDE DEF r
    <2>5. QED BY <1>1, <2>1, <2>3, <2>4, WorkerDies DEF Killed
  <1>2. CASE Spin(j)
    <2>1. UNCHANGED vars
      BY <1>2 DEF Spin, workerVars, serverVars, loopVars, vars
    <2>2. QED
      BY <2>1
      DEF vars, IInv, TypeOK, WorkerTypeOK, Coupled, Fresh, SocketOK, Ahead,
          Agrees, CallbackOK, Registered, LoopOK
  <1>3. QED BY <1>1, <1>2 DEF Outside, TimeLimit, Kill

----------------------------------------------------------------------------
(* The steps of death_callback.                                            *)

LEMMA DeathMsg ==
    ASSUME IInv, NEW j \in Job
    PROVE  Death(j) \in Msg /\ Death(j).kind \in {"CRASH", "EXIT"}
  <1>1. wk[j].code \in Nat BY DEF IInv, TypeOK, WorkerTypeOK, WorkerRec
  <1>2. QED BY <1>1, MsgType DEF Death, Requests

\* The callback writes to the runner's own socket, and to cb.
LEMMA CallbackWrites ==
    ASSUME IInv, NEW m \in Msg, chan' = [chan EXCEPT ![Own] = m],
           cb' \in [job : Socket, pc : {"idle", "timeout", "death"}],
           UNCHANGED <<wk, serverVars, loopVars>>
    PROVE  /\ TypeOK' /\ Registered' /\ LoopOK'
           /\ \A k \in Job : (Coupled(k) /\ Fresh(k) /\ SocketOK(k))'
           /\ chan'[Own] = m
           /\ CallbackOK' => IInv'
  <1>0. Own \in Socket /\ chan \in [Socket -> Msg] /\ Job \subseteq Socket
    BY DEF IInv, TypeOK, WorkerTypeOK, Socket
  <1>1. TypeOK'
    BY <1>0 DEF IInv, TypeOK, WorkerTypeOK, serverVars, loopVars
  <1>2. chan'[Own] = m /\ \A k \in Job : chan'[k] = chan[k]
    BY <1>0, JobFacts
  <1>3. Registered' /\ LoopOK'
    BY DEF IInv, Registered, LoopOK, serverVars, loopVars
  <1>4. ASSUME NEW k \in Job PROVE (Coupled(k) /\ Fresh(k) /\ SocketOK(k))'
    BY <1>2
    DEF IInv, Coupled, Agrees, Fresh, Ahead, SocketOK, serverVars, loopVars
  <1>5. QED BY <1>1, <1>2, <1>3, <1>4 DEF IInv

LEMMA CallbackSteps ==
    ASSUME IInv, CallbackStep, UNCHANGED <<serverVars, loopVars>>
    PROVE  IInv'
  <1>0. /\ cb \in [job : Socket, pc : {"idle", "timeout", "death"}]
        /\ Own \in Socket /\ chan \in [Socket -> Msg] /\ Job \subseteq Socket
        /\ wk \in [Job -> WorkerRec]
    BY DEF IInv, TypeOK, WorkerTypeOK, Socket
  <1>1. ASSUME NEW j \in Job, CallbackStart(j) PROVE IInv'
    <2> DEFINE m == IF wk[j].timed_out THEN M("PHASE", CS_TIMEOUT)
                    ELSE Death(j)
    <2>1. M("PHASE", CS_TIMEOUT) \in Msg
      BY MsgType DEF Requests, CS_TIMEOUT
    <2>2. m \in Msg /\ chan' = [chan EXCEPT ![Own] = m]
      BY <1>1, <2>1, DeathMsg DEF CallbackStart
    <2>3. /\ cb'.job = j
          /\ cb'.pc = IF wk[j].timed_out THEN "timeout" ELSE "death"
          /\ cb' \in [job : Socket, pc : {"idle", "timeout", "death"}]
      BY <1>0, <1>1 DEF CallbackStart
    <2>4. wk'[j].proc = "dead" /\ j \in subs'
      BY <1>1 DEF CallbackStart, IInv, Registered, serverVars
    <2>5. UNCHANGED wk BY <1>1 DEF CallbackStart
    <2>6. m = M("PHASE", CS_TIMEOUT) \/ m.kind \in {"CRASH", "EXIT"}
      BY DeathMsg
    <2>7. cb'.pc = "timeout" => m = M("PHASE", CS_TIMEOUT) BY <2>3
    <2>8. cb'.pc = "death" => m.kind \in {"CRASH", "EXIT"}
      BY <2>3, DeathMsg
    <2> HIDE DEF m
    <2>9. chan'[Own] = m BY <2>2, <2>3, <2>5, CallbackWrites
    <2>10. CallbackOK' BY <2>3, <2>4, <2>7, <2>8, <2>9 DEF CallbackOK
    <2>11. QED BY <2>2, <2>3, <2>5, <2>10, CallbackWrites
  <1>2. CASE CallbackDeath
    <2> DEFINE m == Death(cb.job)
    <2>1. cb.job \in subs /\ wk[cb.job].proc = "dead" /\ cb.job \in Job
      BY <1>2 DEF CallbackDeath, IInv, CallbackOK, TypeOK
    <2>2. m \in Msg /\ m.kind \in {"CRASH", "EXIT"} BY <2>1, DeathMsg
    <2>3. chan' = [chan EXCEPT ![Own] = m] /\ UNCHANGED wk
      BY <1>2 DEF CallbackDeath
    <2>4. /\ cb'.job = cb.job /\ cb'.pc = "death"
          /\ cb' \in [job : Socket, pc : {"idle", "timeout", "death"}]
      BY <1>0, <1>2 DEF CallbackDeath
    <2> HIDE DEF m
    <2>5. chan'[Own] = m BY <2>2, <2>3, <2>4, CallbackWrites
    <2>6. CallbackOK'
      BY <2>1, <2>2, <2>3, <2>4, <2>5 DEF CallbackOK, serverVars
    <2>7. QED BY <2>2, <2>3, <2>4, <2>6, CallbackWrites
  <1>3. CASE CallbackReturn
    <2> DEFINE j == cb.job
               r == [wk[j] EXCEPT !.proc = "waited"]
    <2>1. j \in subs /\ wk[j].proc = "dead" /\ j \in Job
      BY <1>3 DEF CallbackReturn, IInv, CallbackOK, TypeOK
    <2>2. wk' = [wk EXCEPT ![j] = r] BY <1>0, <1>3, <2>1 DEF CallbackReturn
    <2>3. wk[j] \in WorkerRec BY <1>0, <2>1
    <2>4. r \in WorkerRec /\ r.proc = "waited"
      BY <2>3 DEF WorkerRec, Process
    <2>5. chan' = [chan EXCEPT ![Own] = Idle] /\ cb' = NoDeath
      BY <1>3 DEF CallbackReturn
    <2>6. ~Ahead(j) BY <2>1 DEF IInv, Fresh, Unborn
    <2> HIDE DEF j, r
    <2>7. /\ wk'[j] = r /\ \A k \in Job \ {j} : wk'[k] = wk[k]
          /\ chan'[Own] = Idle /\ \A k \in Job : chan'[k] = chan[k]
      BY <1>0, <2>1, <2>2, <2>5, JobFacts
    <2>8. TypeOK'
      BY <1>0, <2>1, <2>2, <2>4, <2>5, IdleType
      DEF IInv, TypeOK, WorkerTypeOK, serverVars, loopVars, NoDeath
    <2>9. ASSUME NEW k \in Job PROVE (Coupled(k) /\ Fresh(k) /\ SocketOK(k))'
      <3>1. CASE k = j
        BY <2>4, <2>6, <2>7, <3>1
        DEF IInv, Coupled, Fresh, Ahead, SocketOK, loopVars
      <3>2. CASE k # j
        BY <2>7, <3>2
        DEF IInv, Coupled, Agrees, Fresh, Ahead, SocketOK, serverVars, loopVars
      <3>3. QED BY <3>1, <3>2
    <2>10. CallbackOK' BY <2>5, <2>7 DEF CallbackOK, NoDeath
    <2>11. Registered' BY <2>4, <2>7 DEF IInv, Registered, serverVars
    <2>12. LoopOK' BY DEF IInv, LoopOK, loopVars
    <2>13. QED BY <2>8, <2>9, <2>10, <2>11, <2>12 DEF IInv
  <1>4. QED BY <1>1, <1>2, <1>3 DEF CallbackStep

----------------------------------------------------------------------------
(* The steps of the coroutine.                                             *)

\* A step of the runner that leaves workers, sockets and contexts alone.
LEMMA RunnerMoves ==
    ASSUME IInv, UNCHANGED <<wk, chan, cb, subs, ctx>>, TypeOK', LoopOK',
           \A k \in Job : Ahead(k)' => Ahead(k)
    PROVE  IInv'
  <1>1. ASSUME NEW k \in Job PROVE (Coupled(k) /\ Fresh(k) /\ SocketOK(k))'
    <2>1. Coupled(k)' BY DEF IInv, Coupled, Agrees
    <2>2. Fresh(k)' BY DEF IInv, Fresh
    <2>3. SocketOK(k)' BY DEF IInv, SocketOK
    <2>4. QED BY <2>1, <2>2, <2>3
  <1>2. CallbackOK' /\ Registered' BY DEF IInv, CallbackOK, Registered
  <1>3. QED BY <1>1, <1>2 DEF IInv

LEMMA Onward ==
    ASSUME IInv, NextSuite \/ NextTest \/ UNCHANGED pos
    PROVE  /\ pos' \in [suite : Nat, test : Nat, param : Nat] /\ pos'.suite > 0
           /\ \A k \in Job : Ahead(k)' => Ahead(k)
  <1>0. pos \in [suite : Nat, test : Nat, param : Nat] /\ pos.suite > 0
    BY DEF IInv, TypeOK, LoopOK
  <1>1. /\ pos' \in [suite : Nat, test : Nat, param : Nat] /\ pos'.suite > 0
        /\ \/ pos'.suite = pos.suite + 1
           \/ pos'.suite = pos.suite /\ pos'.test = pos.test + 1
           \/ pos' = pos
    <2>1. CASE NextSuite
      <3>1. pos.suite + 1 \in Nat /\ pos.suite + 1 > 0 BY <1>0
      <3>2. pos' = [suite |-> pos.suite + 1, test |-> 0, param |-> 0]
        BY <2>1 DEF NextSuite
      <3>3. pos'.suite = pos.suite + 1 BY <3>2
      <3>4. pos' \in [suite : Nat, test : Nat, param : Nat] BY <3>1, <3>2
      <3>5. QED BY <3>1, <3>3, <3>4
    <2>2. CASE NextTest
      <3>1. pos.test + 1 \in Nat BY <1>0
      <3>2. pos' = [pos EXCEPT !.test = pos.test + 1, !.param = 0]
        BY <2>2 DEF NextTest
      <3>3. pos'.suite = pos.suite /\ pos'.test = pos.test + 1 BY <1>0, <3>2
      <3>4. pos' \in [suite : Nat, test : Nat, param : Nat]
        BY <1>0, <3>1, <3>2
      <3>5. QED BY <1>0, <3>3, <3>4
    <2>3. CASE UNCHANGED pos BY <1>0, <2>3
    <2>4. QED BY <2>1, <2>2, <2>3
  <1>2. ASSUME NEW k \in Job, Ahead(k)' PROVE Ahead(k)
    <2>1. k[1] \in Nat /\ k[2] \in Nat /\ k[3] \in Nat BY JobFacts
    <2>2. QED BY <1>0, <1>1, <1>2, <2>1 DEF Ahead
  <1>3. QED BY <1>1, <1>2

LEMMA AtSuiteFacts ==
    ASSUME IInv, pos.suite <= Len(Suites)
    PROVE  /\ pos.suite \in DOMAIN Suites
           /\ tests \in Seq(TestRec)
           /\ \A n \in DOMAIN tests : tests[n] \in TestRec
  <1>1. pos.suite \in 1 .. Len(Suites) BY DEF IInv, TypeOK, LoopOK
  <1>2. Suites[pos.suite] \in SuiteRec /\ pos.suite \in DOMAIN Suites
    BY <1>1, SuitesAssumption
  <1>3. tests \in Seq(TestRec) BY <1>2 DEF tests, SuiteRec
  <1>4. QED BY <1>2, <1>3

LEMMA CountersMove ==
    ASSUME IInv, NEW s \in DOMAIN Suites, NEW K
    PROVE  /\ [ss EXCEPT ![s] = ZeroSuite] \in [DOMAIN Suites -> [SuiteCounter -> Nat]]
           /\ [ss EXCEPT ![s] = Count(@, K, 1)]
                 \in [DOMAIN Suites -> [SuiteCounter -> Nat]]
           /\ Count(g, K, 1) \in [GlobalCounter -> Nat]
  <1>0. ss \in [DOMAIN Suites -> [SuiteCounter -> Nat]] /\ g \in [GlobalCounter -> Nat]
    BY DEF IInv, TypeOK
  <1>1. ZeroSuite \in [SuiteCounter -> Nat] BY DEF ZeroSuite
  <1>2. Count(ss[s], K, 1) \in [SuiteCounter -> Nat] BY <1>0, CountType
  <1>3. Count(g, K, 1) \in [GlobalCounter -> Nat] BY <1>0, CountType
  <1>4. QED BY <1>0, <1>1, <1>2, <1>3

LEMMA SpawnStep ==
    ASSUME IInv, SpawnNext
    PROVE  IInv'
  <1>0. /\ pos \in [suite : Nat, test : Nat, param : Nat] /\ pos.suite > 0
        /\ wk \in [Job -> WorkerRec] /\ ctx \in [Job -> ClientCtx]
        /\ subs \in SUBSET Job /\ active \in Nat /\ initial \in BOOLEAN
    BY DEF IInv, TypeOK, WorkerTypeOK, LoopOK
  <1>1. /\ pos.suite \in DOMAIN Suites /\ pos.test \in DOMAIN tests
        /\ test.runs \in Nat /\ rpc = "sched"
    BY AtSuiteFacts DEF SpawnNext, MoreWorkers, AtTest, test, TestRec
  <1>2. pos.param + 1 \in 1 .. Suites[pos.suite].tests[pos.test].runs
    BY <1>0, <1>1 DEF SpawnNext, test, tests
  <1>3. PICK j \in Job : j = <<pos.suite, pos.test, pos.param + 1>>
    BY <1>1, <1>2, JobIntro DEF tests
  <1>4. j[1] = pos.suite /\ j[2] = pos.test /\ j[3] = pos.param + 1
    BY <1>3
  <1> DEFINE r == [wk[j] EXCEPT !.proc = "running"]
  <1>5. Ahead(j) BY <1>0, <1>4 DEF Ahead
  <1>6. wk[j] = Unborn /\ chan[j] = Idle BY <1>3, <1>5 DEF IInv, Fresh
  <1>7. /\ wk' = [wk EXCEPT ![j] = r] /\ subs' = subs \cup {j}
        /\ ctx' = [ctx EXCEPT ![j] = FreshCtx]
        /\ UNCHANGED <<chan, cb, ss, g, cur>>
    BY <1>0, <1>3 DEF SpawnNext
  <1>8. /\ pos' \in [suite : Nat, test : Nat, param : Nat]
        /\ pos'.suite = pos.suite /\ pos'.test = pos.test
        /\ pos'.param = pos.param + 1
    BY <1>0 DEF SpawnNext
  <1>9. ~Ahead(j)' BY <1>0, <1>4, <1>8 DEF Ahead
  <1>10. ASSUME NEW k \in Job, Ahead(k)' PROVE Ahead(k)
    <2>1. k[1] \in Nat /\ k[2] \in Nat /\ k[3] \in Nat BY JobFacts
    <2>2. QED BY <1>0, <1>8, <1>10, <2>1 DEF Ahead
  <1>11. r \in WorkerRec /\ r.proc = "running" /\ r.pc = "boot"
    <2>1. wk[j] \in WorkerRec /\ wk[j].pc = "boot"
      BY <1>6, UnbornType DEF Unborn
    <2>2. QED BY <2>1 DEF WorkerRec, Process
  <1>12. /\ active' \in Nat /\ initial' \in BOOLEAN /\ rpc' \in {"sched", "recv"}
         /\ active' = IF initial THEN active + 1 ELSE active
    BY <1>0 DEF SpawnNext
  <1> HIDE DEF r
  <1>13. TypeOK'
    BY <1>0, <1>3, <1>7, <1>8, <1>11, <1>12, FreshCtxType
    DEF IInv, TypeOK, WorkerTypeOK, RunnerPC
  <1>14. /\ wk'[j] = r /\ ctx'[j] = FreshCtx
         /\ \A k \in Job \ {j} : wk'[k] = wk[k] /\ ctx'[k] = ctx[k]
    BY <1>0, <1>3, <1>7
  <1>15. ASSUME NEW k \in Job PROVE (Coupled(k) /\ Fresh(k) /\ SocketOK(k))'
    <2>1. CASE k = j
      <3>1. Agrees(FreshCtx.state, Idle, "boot")
        BY IdleType DEF Agrees, FreshCtx, StateAt
      <3>2. Coupled(j)' BY <1>6, <1>7, <1>11, <1>14, <3>1 DEF Coupled, Agrees
      <3>3. Fresh(j)' BY <1>9 DEF Fresh
      <3>4. SocketOK(j)' BY <1>3, <1>7 DEF IInv, SocketOK
      <3>5. QED BY <2>1, <3>2, <3>3, <3>4
    <2>2. CASE k # j
      <3>1. Coupled(k)' BY <1>7, <1>14, <2>2 DEF IInv, Coupled, Agrees
      <3>2. Fresh(k)' BY <1>7, <1>10, <1>14, <2>2 DEF IInv, Fresh
      <3>3. SocketOK(k)' BY <1>7 DEF IInv, SocketOK
      <3>4. QED BY <3>1, <3>2, <3>3
    <2>3. QED BY <2>1, <2>2
  <1>16. CallbackOK'
    <2>1. cb.pc # "idle" => cb.job \in Job /\ cb.job # j
      BY <1>0, <1>6 DEF IInv, CallbackOK, Unborn
    <2>2. QED BY <1>7, <1>14, <2>1 DEF IInv, CallbackOK
  <1>17. Registered' BY <1>7, <1>14 DEF IInv, Registered
  <1>18. LoopOK'
    BY <1>0, <1>1, <1>8, <1>12 DEF IInv, LoopOK
  <1>19. QED BY <1>13, <1>15, <1>16, <1>17, <1>18 DEF IInv

LEMMA ScheduleSteps ==
    ASSUME IInv, Schedule
    PROVE  IInv'
  <1>0. TypeOK BY DEF IInv
  <1>1. CASE SkipSuite \/ EndTest \/ LeaveSuite
    <2>1. /\ NextSuite \/ NextTest \/ UNCHANGED pos
          /\ UNCHANGED <<workerVars, serverVars, rpc, cur, active, initial>>
      BY <1>1 DEF SkipSuite, EndTest, LeaveSuite
    <2>2. TypeOK' BY <1>0, <2>1, Onward
      DEF TypeOK, WorkerTypeOK, workerVars, serverVars
    <2>3. LoopOK' BY <2>1, Onward DEF IInv, LoopOK
    <2>4. QED BY <2>1, <2>2, <2>3, Onward, RunnerMoves
              DEF workerVars, serverVars
  <1>2. CASE EnterSuite \/ SkipDisabled
    <2>1. NextTest /\ UNCHANGED <<workerVars, subs, ctx, rpc, cur, active, initial>>
      BY <1>2 DEF EnterSuite, SkipDisabled
    <2>2. pos.suite \in DOMAIN Suites
      BY <1>2, AtSuiteFacts DEF EnterSuite, SkipDisabled, AtSuite, AtTest
    <2>3. ss' \in [DOMAIN Suites -> [SuiteCounter -> Nat]] /\ g' \in [GlobalCounter -> Nat]
      BY <1>2, <2>2, CountersMove DEF EnterSuite, SkipDisabled
    <2>4. TypeOK' BY <1>0, <2>1, <2>3, Onward
      DEF TypeOK, WorkerTypeOK, workerVars
    <2>5. LoopOK' BY <2>1, Onward DEF IInv, LoopOK
    <2>6. QED BY <2>1, <2>4, <2>5, Onward, RunnerMoves DEF workerVars
  <1>3. CASE NoNext
    <2>1. UNCHANGED <<workerVars, serverVars, cur, pos>> /\ rpc = "sched"
      BY <1>3 DEF NoNext
    <2>2. active' \in Nat /\ rpc' \in {"cleanup", "recv"} /\ initial' = FALSE
          /\ (rpc' = "recv" => active' > 0)
      BY <1>0, <1>3 DEF NoNext, TypeOK, IInv, LoopOK
    <2>3. TypeOK' BY <1>0, <2>1, <2>2
      DEF TypeOK, WorkerTypeOK, workerVars, serverVars, RunnerPC
    <2>4. LoopOK' BY <2>1, <2>2 DEF IInv, LoopOK
    <2>5. QED BY <2>1, <2>3, <2>4, Onward, RunnerMoves
              DEF workerVars, serverVars
  <1>4. QED BY <1>1, <1>2, <1>3, SpawnStep DEF Schedule

----------------------------------------------------------------------------
(* The steps of the message server.                                        *)

\* A request on the runner's own socket comes from a death being reported.
LEMMA OwnRequest ==
    ASSUME IInv, chan[Own].kind \in Requests
    PROVE  /\ cb.pc \in {"timeout", "death"} /\ cb.job \in Job
           /\ wk[cb.job].proc = "dead"
           /\ chan[Own].kind = "PHASE" => cb.pc = "timeout" /\ chan[Own].arg = CS_TIMEOUT
  <1>1. cb.pc # "idle" BY IdleType DEF IInv, CallbackOK, Requests
  <1>2. cb.pc \in {"timeout", "death"} BY <1>1 DEF IInv, TypeOK, WorkerTypeOK
  <1>3. cb.job \in Job /\ wk[cb.job].proc = "dead"
    BY <1>1 DEF IInv, TypeOK, CallbackOK
  <1>4. ASSUME chan[Own].kind = "PHASE"
        PROVE  cb.pc = "timeout" /\ chan[Own].arg = CS_TIMEOUT
    <2>1. cb.pc = "timeout" BY <1>2, <1>4 DEF IInv, CallbackOK
    <2>2. chan[Own] = M("PHASE", CS_TIMEOUT)
      BY <1>4, <2>1 DEF IInv, CallbackOK
    <2>3. QED BY <2>1, <2>2 DEF M
  <1>5. QED BY <1>2, <1>3, <1>4

\* The server answers c and leaves the context x of its client behind.
LEMMA Answering ==
    ASSUME IInv, NEW c \in Socket, Reading(c), NEW j \in Job, j = Client(c),
           j \in subs, NEW x \in ClientCtx, ctx' = [ctx EXCEPT ![j] = x],
           NEW kind \in Answers, Answer(c, kind),
           rpc' \in {"recv", "cleanup", "reap", "terminate"}, cur' \in Socket,
           ss' \in [DOMAIN Suites -> [SuiteCounter -> Nat]],
           g' \in [GlobalCounter -> Nat],
           UNCHANGED <<wk, cb, subs, active, initial, pos>>,
           c # Own /\ wk[j].proc = "running"
              => kind = "ok" /\ x.state \in StateAt(wk[j].pc),
           ctx[j].state = CS_END => x.state = CS_END,
           c = Own /\ kind = "nack" => cb.pc = "timeout" /\ x.state = CS_END
    PROVE  IInv'
  <1>0. /\ chan \in [Socket -> Msg] /\ ctx \in [Job -> ClientCtx]
        /\ Job \subseteq Socket /\ Own \in Socket
    BY DEF IInv, TypeOK, WorkerTypeOK, Socket
  <1>1. PICK m \in {Idle, M(kind, 0)} :
           /\ chan' = [chan EXCEPT ![c] = m]
           /\ c = Own \/ wk[c].proc = "running" => m = M(kind, 0)
           /\ c # Own /\ wk[c].proc # "running" => m = Idle
    BY DEF Answer
  <1>2. /\ m \in Msg /\ m.kind # "PHASE" /\ m.kind \notin Requests
        /\ m = M(kind, 0) => m.kind = kind
    BY <1>1, IdleType, MsgType DEF Answers, Requests
  <1>3. TypeOK'
    BY <1>0, <1>1, <1>2 DEF IInv, TypeOK, WorkerTypeOK, RunnerPC
  <1>4. /\ chan'[c] = m /\ \A k \in Socket \ {c} : chan'[k] = chan[k]
        /\ ctx'[j] = x /\ \A k \in Job \ {j} : ctx'[k] = ctx[k]
    BY <1>0, <1>1
  <1>5. c # Own => j = c BY DEF Client
  <1>6. c = Own => j = cb.job /\ wk[j].proc = "dead"
    BY OwnRequest DEF Client, Reading
  <1>7. ASSUME NEW k \in Job PROVE (Coupled(k) /\ Fresh(k) /\ SocketOK(k))'
    <2>0. k # Own BY JobFacts
    <2>1. Fresh(k)'
      <3>1. CASE k = c
        BY <3>1, IdleType DEF IInv, Fresh, Ahead, Reading, Requests
      <3>2. CASE k # c
        BY <1>0, <1>4, <3>2 DEF IInv, Fresh, Ahead
      <3>3. QED BY <3>1, <3>2
    <2>2. SocketOK(k)'
      <3>1. CASE k = c
        BY <1>1, <1>2, <1>4, <1>5, <2>0, <3>1, IdleType
        DEF IInv, SocketOK
      <3>2. CASE k # c
        BY <1>0, <1>4, <3>2 DEF IInv, SocketOK
      <3>3. QED BY <3>1, <3>2
    <2>3. Coupled(k)'
      <3>1. CASE k = c
        BY <1>2, <1>4, <1>5, <2>0, <3>1 DEF Coupled, Agrees
      <3>2. CASE k # c /\ k = j
        BY <1>5, <1>6, <3>2 DEF Coupled
      <3>3. CASE k # c /\ k # j
        BY <1>0, <1>4, <3>3 DEF IInv, Coupled, Agrees
      <3>4. QED BY <3>1, <3>2, <3>3
    <2>4. QED BY <2>1, <2>2, <2>3
  <1>8. CallbackOK'
    <2>1. cb.pc # "idle" => cb.job \in Job
      BY DEF IInv, CallbackOK, TypeOK
    <2>2. CASE c = Own
      BY <1>1, <1>2, <1>4, <1>6, <2>1, <2>2, OwnRequest
      DEF IInv, CallbackOK, Answers, Reading
    <2>3. CASE c # Own
      <3>1. chan'[Own] = chan[Own] BY <1>0, <1>4, <2>3
      <3>2. cb.pc # "idle" /\ ctx[cb.job].state = CS_END
               => ctx'[cb.job].state = CS_END
        BY <1>4, <2>1
      <3>3. QED BY <3>1, <3>2 DEF IInv, CallbackOK
    <2>4. QED BY <2>2, <2>3
  <1>9. Registered' BY DEF IInv, Registered
  <1>10. LoopOK' BY DEF IInv, LoopOK, Reading
  <1>11. QED BY <1>3, <1>7, <1>8, <1>9, <1>10 DEF IInv

\* A message handled to a view v.
LEMMA Handling ==
    ASSUME IInv, NEW c \in Socket, Reading(c), Client(c) \in subs,
           NEW v \in View, Handled(c, v),
           c # Own /\ wk[c].proc = "running" => v.state \in StateAt(wk[c].pc),
           ctx[Client(c)].state = CS_END => v.state = CS_END
    PROVE  IInv'
  <1>1. PICK j \in Job : j = Client(c) BY DEF IInv, TypeOK
  <1> DEFINE x == [state |-> v.state, alive |-> v.alive, t |-> v.t, ev |-> v.ev]
  <1>2. x \in ClientCtx /\ x.state = v.state BY DEF ClientCtx, View
  <1>3. /\ ctx' = [ctx EXCEPT ![j] = x] /\ Answer(c, "ok") /\ Resume(j, v)
        /\ ss' = [ss EXCEPT ![j[1]] = v.ss] /\ g' = v.g
        /\ UNCHANGED <<wk, cb, subs, active, initial, pos>>
    BY <1>1 DEF Handled
  <1> HIDE DEF x
  <1>4. /\ ss' \in [DOMAIN Suites -> [SuiteCounter -> Nat]]
        /\ g' \in [GlobalCounter -> Nat]
    BY <1>3, JobFacts DEF IInv, TypeOK, View
  <1>5. rpc' \in {"recv", "cleanup", "reap", "terminate"} /\ cur' \in Socket
    BY <1>3 DEF Resume, IInv, TypeOK, Socket
  <1>6. c # Own => j = c BY <1>1 DEF Client
  <1>7. QED BY <1>1, <1>2, <1>3, <1>4, <1>5, <1>6, Answering DEF Answers

LEMMA ViewType ==
    ASSUME IInv, NEW j \in Job
    PROVE  viewOf(j) \in View /\ viewOf(j).state = ctx[j].state
  <1>1. ctx[j] \in ClientCtx /\ ss[j[1]] \in [SuiteCounter -> Nat]
        /\ g \in [GlobalCounter -> Nat]
    BY JobFacts DEF IInv, TypeOK
  <1>2. QED BY <1>1 DEF viewOf, View, ClientCtx

LEMMA ServerSteps ==
    ASSUME IInv, NEW c \in Socket, Receive(c)
    PROVE  IInv'
  <1>0. chan[c] \in Msg /\ chan[c].arg \in Nat
    BY DEF IInv, TypeOK, WorkerTypeOK, Msg
  <1>1. ASSUME Reading(c), c = Own
        PROVE  Client(c) \in subs /\ Client(c) \in Job
    BY <1>1, OwnRequest DEF Client, Reading, IInv, CallbackOK
  <1>2. c # Own => Client(c) = c /\ c \in Job BY DEF Client, Socket
  <1>j. Client(c) \in subs => Client(c) \in Job BY DEF IInv, TypeOK
  <1>3. ASSUME NEW v \in View, Reading(c), Client(c) \in subs, Handled(c, v),
               chan[c].kind # "PHASE", v.state = ctx[Client(c)].state
        PROVE  IInv'
    <2>1. c # Own /\ wk[c].proc = "running" => v.state \in StateAt(wk[c].pc)
      BY <1>2, <1>3 DEF IInv, Coupled, Agrees
    <2>2. QED BY <1>3, <2>1, Handling
  <1> DEFINE u == viewOf(Client(c))
  <1>v. Client(c) \in subs => u \in View /\ u.state = ctx[Client(c)].state
    BY <1>j, ViewType
  <1> HIDE DEF u
  <1>4. CASE DropMessage(c)
    <2>1. c \in Job /\ Client(c) = c /\ c \notin subs /\ c # Own
      BY <1>1, <1>2, <1>4, JobFacts DEF DropMessage
    <2>2. wk[c].proc # "running" BY <2>1 DEF IInv, Coupled
    <2>3. chan' = [chan EXCEPT ![c] = Idle]
          /\ UNCHANGED <<wk, cb, serverVars, loopVars>>
      BY <1>4, <2>1, <2>2 DEF DropMessage, Answer
    <2>4. ASSUME NEW k \in Job
          PROVE  chan'[k] = chan[k] \/ (k = c /\ chan'[k] = Idle)
      BY <2>3 DEF IInv, TypeOK, WorkerTypeOK, Socket
    <2>5. chan'[Own] = chan[Own]
      BY <2>1, <2>3 DEF IInv, TypeOK, WorkerTypeOK, Socket
    <2>6. TypeOK'
      BY <2>3, IdleType DEF IInv, TypeOK, WorkerTypeOK, serverVars, loopVars
    <2>7. ASSUME NEW k \in Job PROVE (Coupled(k) /\ Fresh(k) /\ SocketOK(k))'
      BY <2>2, <2>3, <2>4, IdleType
      DEF IInv, Coupled, Agrees, Fresh, Ahead, SocketOK, serverVars, loopVars
    <2>8. (CallbackOK /\ Registered /\ LoopOK)'
      BY <2>3, <2>5
      DEF IInv, CallbackOK, Registered, LoopOK, serverVars, loopVars
    <2>9. QED BY <2>6, <2>7, <2>8 DEF IInv
  <1>5. CASE HandleBirth(c)
    <2>1. Handled(c, handle_birth(u)) /\ Reading(c) /\ Client(c) \in subs
          /\ chan[c].kind # "PHASE"
      BY <1>5 DEF HandleBirth, Known, u
    <2>2. QED BY <2>1, <1>v, <1>3, HandleBirthType
  <1>6. CASE HandleDeath(c)
    <2>1. PICK crashed \in BOOLEAN :
             Handled(c, handle_death(u, crashed, chan[c].arg, Test(Client(c))))
      BY <1>6 DEF HandleDeath, u
    <2>2. Reading(c) /\ Client(c) \in subs /\ chan[c].kind # "PHASE"
      BY <1>6 DEF HandleDeath, Known
    <2>3. QED BY <2>1, <2>2, <1>0, <1>v, <1>3, HandleDeathType
  <1>7. CASE HandleAssert(c)
    <2>1. PICK passed \in BOOLEAN : Handled(c, push_assert(u, passed))
      BY <1>7 DEF HandleAssert, handle_assert, u
    <2>2. Reading(c) /\ Client(c) \in subs /\ chan[c].kind # "PHASE"
      BY <1>7 DEF HandleAssert, Known
    <2>3. QED BY <2>1, <2>2, <1>v, <1>3, KeepsAssert DEF Keeps
  <1>8. CASE HandleStatistic(c)
    <2>1. Handled(c, handle_statistic(u, chan[c].arg))
          /\ Reading(c) /\ Client(c) \in subs /\ chan[c].kind # "PHASE"
      BY <1>8 DEF HandleStatistic, Known, u
    <2>2. QED BY <2>1, <1>0, <1>v, <1>3, HandleStatisticType DEF Keeps
  <1>9. CASE HandleMessage(c)
    <2>1. Handled(c, handle_message(u, chan[c].kind))
          /\ Reading(c) /\ Client(c) \in subs /\ chan[c].kind # "PHASE"
      BY <1>9 DEF HandleMessage, Known, u
    <2>2. QED BY <2>1, <1>v, <1>3, HandleMessageType DEF Keeps
  <1>p. ASSUME chan[c].kind = "PHASE", Reading(c) PROVE chan[c].arg \in Phases
    BY <1>p, <1>2, OwnRequest
    DEF IInv, SocketOK, Reading, Phases, CS_SETUP, CS_TIMEOUT, CS_SKIP
  <1>10. CASE HandlePhase(c)
    <2> DEFINE s == ctx[Client(c)].state
               new == chan[c].arg
               w == handle_phase(u, new, Test(Client(c)))
    <2>1. /\ Reading(c) /\ Client(c) \in subs /\ chan[c].kind = "PHASE"
          /\ ~phase_refused(s, new) /\ Handled(c, w)
      BY <1>10 DEF HandlePhase, Known, u
    <2>2. w \in View /\ w.state = next_state(s, new)
      BY <2>1, <1>v, <1>p, HandlePhaseType
    <2> HIDE DEF w
    <2>3. c # Own /\ wk[c].proc = "running" => w.state \in StateAt(wk[c].pc)
      BY <1>2, <2>1, <2>2 DEF IInv, Coupled, Agrees
    <2>4. s # CS_END
      BY <2>1 DEF phase_refused, curstate, CS_MAX_CLIENT_STATES, CS_END,
                  CS_MAIN, CS_SETUP
    <2>5. QED BY <2>1, <2>2, <2>3, <2>4, Handling
  <1>11. CASE RefusePhase(c)
    <2>1. PICK j \in Job : j = Client(c) /\ j \in subs
      BY <1>11, <1>j DEF RefusePhase, Known
    <2>2. ctx[j] \in ClientCtx /\ ctx[j].state \in ClientState
      BY DEF IInv, TypeOK, ClientCtx
    <2>3. /\ Reading(c) /\ chan[c].kind = "PHASE"
          /\ phase_refused(ctx[j].state, chan[c].arg) /\ Answer(c, "nack")
          /\ Resume(j, ctx[j])
          /\ UNCHANGED <<wk, cb, serverVars, active, initial, pos>>
      BY <1>11, <2>1 DEF RefusePhase, Known
    <2>4. c # Own => wk[j].proc # "running"
      BY <1>2, <2>1, <2>3 DEF IInv, Coupled, Agrees
    <2>5. c = Own => cb.pc = "timeout" /\ ctx[j].state = CS_END
      <3>1. SUFFICES ASSUME c = Own PROVE cb.pc = "timeout" /\ ctx[j].state = CS_END
        OBVIOUS
      <3>2. cb.pc = "timeout" /\ chan[c].arg = CS_TIMEOUT
        BY <2>3, <3>1, OwnRequest DEF Reading
      <3>3. curstate(ctx[j].state) = CS_END
        BY <2>3, <3>2 DEF phase_refused, CS_TIMEOUT, CS_SETUP, CS_END
      <3>4. QED BY <2>2, <3>2, <3>3
                DEF curstate, ClientState, CS_MAX_CLIENT_STATES, CS_END
    <2>6. ctx' = [ctx EXCEPT ![j] = ctx[j]]
      BY <2>3 DEF IInv, TypeOK, serverVars
    <2>7. rpc' \in {"recv", "cleanup", "reap", "terminate"} /\ cur' \in Socket
      BY <2>3 DEF Resume, IInv, TypeOK, Socket
    <2>8. /\ ss' \in [DOMAIN Suites -> [SuiteCounter -> Nat]]
          /\ g' \in [GlobalCounter -> Nat]
      BY <2>3 DEF IInv, TypeOK, serverVars
    <2>9. QED
      BY <2>1, <2>2, <2>3, <2>4, <2>5, <2>6, <2>7, <2>8, Answering
      DEF Answers, serverVars
  <1>12. QED
    BY <1>4, <1>5, <1>6, <1>7, <1>8, <1>9, <1>10, <1>11 DEF Receive

----------------------------------------------------------------------------
(* The invariant, and what it gives.                                       *)

\* The end of a run, and the reaping of a worker.
LEMMA LoopSteps ==
    ASSUME IInv, Reap \/ Terminate \/ CallbackAborts \/ Cleanup
    PROVE  IInv'
  <1>1. CASE Terminate \/ CallbackAborts
    <2>1. /\ rpc' \in {"terminated", "aborted"}
          /\ UNCHANGED <<workerVars, serverVars, cur, active, initial, pos>>
      BY <1>1 DEF Terminate, CallbackAborts
    <2>2. TypeOK'
      BY <2>1 DEF IInv, TypeOK, WorkerTypeOK, workerVars, serverVars, RunnerPC
    <2>3. LoopOK' BY <2>1 DEF IInv, LoopOK
    <2>4. QED BY <2>1, <2>2, <2>3, Onward, RunnerMoves
              DEF workerVars, serverVars
  <1>2. CASE Reap \/ Cleanup
    <2>1. /\ subs' \subseteq subs
          /\ \A k \in subs \ subs' : wk[k].proc = "waited"
          /\ UNCHANGED <<workerVars, ctx, ss, g, active, initial, pos>>
          /\ rpc' \in {"sched", "done"} /\ cur' \in Socket
          /\ rpc \in {"reap", "cleanup"} /\ (rpc' = "sched" => rpc = "reap")
      BY <1>2 DEF Reap, Cleanup, IInv, TypeOK, Socket
    <2>2. TypeOK'
      BY <2>1 DEF IInv, TypeOK, WorkerTypeOK, workerVars, RunnerPC
    <2>3. ASSUME NEW k \in Job PROVE (Coupled(k) /\ Fresh(k) /\ SocketOK(k))'
      BY <2>1
      DEF IInv, Coupled, Agrees, Fresh, Ahead, SocketOK, workerVars
    <2>4. CallbackOK' BY <2>1 DEF IInv, CallbackOK, workerVars
    <2>5. Registered' BY <2>1 DEF IInv, Registered, workerVars
    <2>6. LoopOK' BY <2>1 DEF IInv, LoopOK
    <2>7. QED BY <2>2, <2>3, <2>4, <2>5, <2>6 DEF IInv
  <1>3. QED BY <1>1, <1>2

LEMMA Initially == Init => IInv
  <1> SUFFICES ASSUME Init PROVE IInv OBVIOUS
  <1>1. TypeOK
    BY IdleType, UnbornType, FreshCtxType
    DEF Init, WorkerInit, TypeOK, WorkerTypeOK, NoDeath, Socket, RunnerPC,
        ZeroSuite, ZeroGlobal
  <1>2. ASSUME NEW k \in Job PROVE Coupled(k) /\ Fresh(k) /\ SocketOK(k)
    BY IdleType
    DEF Init, WorkerInit, Coupled, Fresh, SocketOK, Unborn, Socket
  <1>3. CallbackOK /\ Registered /\ LoopOK
    BY DEF Init, WorkerInit, CallbackOK, Registered, LoopOK, NoDeath, Unborn,
           Socket
  <1>4. QED BY <1>1, <1>2, <1>3 DEF IInv

LEMMA Inductive == IInv /\ [Next]_vars => IInv'
  <1> SUFFICES ASSUME IInv, [Next]_vars PROVE IInv' OBVIOUS
  <1>1. CASE RunnerStep
    BY <1>1, ScheduleSteps, ServerSteps, LoopSteps DEF RunnerStep
  <1>2. CASE Others
    BY <1>2, TrampolineSteps, UserSteps, OutsideSteps, CallbackSteps
    DEF Others, WorkerStep
  <1>3. CASE UNCHANGED vars
    BY <1>3
    DEF vars, IInv, TypeOK, WorkerTypeOK, Coupled, Fresh, SocketOK, Ahead,
        Agrees, CallbackOK, Registered, LoopOK
  <1>4. QED BY <1>1, <1>2, <1>3 DEF Next, Ended

THEOREM Invariance == Spec => []IInv
  BY Initially, Inductive, PTL DEF Spec

(* Type correctness of the runner, its server and its workers: in          *)
(* particular active_workers never goes below zero, and no client context  *)
(* ever holds a state deeper than a theory iteration.                      *)
THEOREM TypeCorrect == Spec => []TypeOK
  <1>1. IInv => TypeOK BY DEF IInv
  <1>2. QED BY <1>1, Invariance, PTL

(* Whatever the suites, the options and the interleaving, with crashes,    *)
(* kills and time limits at any moment, the server never answers a message *)
(* of a worker that follows its trampoline with an error.                  *)
THEOREM WorkersNeverRefused == Spec => []NoWorkerRefused
  <1>1. IInv => NoWorkerRefused BY DEF IInv, SocketOK, NoWorkerRefused
  <1>2. QED BY <1>1, Invariance, PTL

(* The one refused message is the TIMEOUT of a test that had ended: no     *)
(* other message makes the thread of the runner abort the run.             *)
THEOREM OnlyLateLimitsAbort == Spec => []AbortCause
  <1>1. IInv => AbortCause
    <2> SUFFICES ASSUME IInv, chan[Own].kind = "nack"
                 PROVE  cb.pc = "timeout" /\ curstate(ctx[cb.job].state) = CS_END
      BY DEF AbortCause
    <2>1. cb.pc # "idle" BY IdleType DEF IInv, CallbackOK
    <2>2. cb.pc = "timeout" /\ ctx[cb.job].state = CS_END
      BY <2>1, MsgType
      DEF IInv, CallbackOK, TypeOK, WorkerTypeOK, M
    <2>3. QED BY <2>2 DEF curstate, CS_MAX_CLIENT_STATES, CS_END
  <1>2. QED BY <1>1, Invariance, PTL
=============================================================================
