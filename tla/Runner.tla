------------------------------- MODULE Runner -------------------------------
(***************************************************************************)
(* The runner: src/core/runner.c (spawn_next_client, run_tests_async, the  *)
(* end of criterion_run_all_tests_impl) with the coroutine of              *)
(* src/core/runner_coroutine.c that chooses the next test, and the message *)
(* server of src/core/client.c over the workers of module Worker.          *)
(*                                                                         *)
(* The runner is one thread: it spawns workers until it has enough, then   *)
(* reads one message at a time.  A message that leaves its client not      *)
(* alive makes it reap the worker and ask the coroutine for another test.  *)
(***************************************************************************)
EXTENDS Worker

CONSTANTS
    NbWorkers,      \* criterion_options.jobs, or the number of processors
    FailFast,       \* criterion_options.fail_fast
    IgnoreWarnings  \* criterion_options.ignore_warnings

ASSUME RunnerAssumption == /\ NbWorkers \in Nat \ {0}
                           /\ FailFast \in BOOLEAN
                           /\ IgnoreWarnings \in BOOLEAN

VARIABLES
    subs,     \* sctx.subprocesses: the jobs with a client context
    ctx,      \* the client contexts, and the events of each test
    ss,       \* the counters of each suite
    g,        \* the counters of the run
    rpc,      \* where the runner is
    cur,      \* the job being reaped
    active,   \* active_workers
    initial,  \* in the loop that spawns the first workers
    pos       \* the coroutine: suite, test (0: at the suite) and parameter

serverVars == <<subs, ctx, ss, g>>
loopVars   == <<rpc, cur, active, initial, pos>>
vars       == <<wk, chan, cb, subs, ctx, ss, g, rpc, cur, active, initial, pos>>

RunnerPC == {"sched", "recv", "reap", "terminate", "cleanup", "done",
             "terminated", "aborted"}
Over == {"done", "terminated", "aborted"}
ClientCtx == [state : ClientState, alive : BOOLEAN, t : TestStats,
              ev : Seq(EventKind)]
FreshCtx == [state |-> CS_SETUP, alive |-> FALSE, t |-> FreshTest, ev |-> <<>>]

TypeOK ==
    /\ WorkerTypeOK
    /\ subs \in SUBSET Job
    /\ ctx \in [Job -> ClientCtx]
    /\ ss \in [DOMAIN Suites -> [SuiteCounter -> Nat]]
    /\ g \in [GlobalCounter -> Nat]
    /\ rpc \in RunnerPC
    /\ cur \in Socket
    /\ active \in Nat
    /\ initial \in BOOLEAN
    /\ pos \in [suite : Nat, test : Nat, param : Nat]

Init ==
    /\ WorkerInit
    /\ subs = {}
    /\ ctx = [j \in Job |-> FreshCtx]
    /\ ss = [s \in DOMAIN Suites |-> ZeroSuite]
    /\ g = ZeroGlobal
    /\ rpc = "sched" /\ cur = Own
    /\ active = 0 /\ initial = TRUE
    /\ pos = [suite |-> 1, test |-> 0, param |-> 0]

----------------------------------------------------------------------------
(* cri_run_next_test: one action per turn of its loops.                    *)

tests == Suites[pos.suite].tests
test  == tests[pos.test]

AtSuite == rpc = "sched" /\ pos.suite <= Len(Suites) /\ pos.test = 0
AtTest  == /\ rpc = "sched" /\ pos.suite <= Len(Suites)
           /\ pos.test \in DOMAIN tests

NextSuite == pos' = [suite |-> pos.suite + 1, test |-> 0, param |-> 0]
NextTest  == pos' = [pos EXCEPT !.test = @ + 1, !.param = 0]

\* A suite that no test was registered in.
SkipSuite ==
    /\ AtSuite /\ tests = <<>>
    /\ NextSuite
    /\ UNCHANGED <<workerVars, serverVars, rpc, cur, active, initial>>

EnterSuite ==
    /\ AtSuite /\ tests # <<>>
    /\ NextTest
    /\ ss' = [ss EXCEPT ![pos.suite] = ZeroSuite]
    /\ g' = Count(g, {"nb_suites"}, 1)
    /\ UNCHANGED <<workerVars, subs, ctx, rpc, cur, active, initial>>

\* skip_disabled
SkipDisabled ==
    /\ AtTest /\ test.disabled
    /\ NextTest
    /\ LET K == PreInitCounts([FreshTest EXCEPT !.test_status = SKIPPED])
       IN  /\ ss' = [ss EXCEPT ![pos.suite] = Count(@, K, 1)]
           /\ g' = Count(g, K, 1)
    /\ UNCHANGED <<workerVars, subs, ctx, rpc, cur, active, initial>>

\* A slip: one worker more than asked for.
MoreWorkers_OneMore(n) == n <= NbWorkers

\* The condition of the loop that spawns the first workers.
MoreWorkers(n) == n < NbWorkers

\* run_test, add_client_from_worker, and the return to the caller.
SpawnNext ==
    /\ AtTest /\ ~test.disabled /\ pos.param < test.runs
    /\ pos' = [pos EXCEPT !.param = @ + 1]
    /\ LET j == <<pos.suite, pos.test, pos.param + 1>>
       IN  /\ wk' = [wk EXCEPT ![j].proc = "running"]
           /\ subs' = subs \cup {j}
           /\ ctx' = [ctx EXCEPT ![j] = FreshCtx]
    /\ active' = IF initial THEN active + 1 ELSE active
    /\ initial' = (initial /\ MoreWorkers(active'))
    /\ rpc' = IF initial' THEN "sched" ELSE "recv"
    /\ UNCHANGED <<chan, cb, ss, g, cur>>

EndTest ==
    /\ AtTest /\ ~test.disabled /\ pos.param >= test.runs
    /\ NextTest
    /\ UNCHANGED <<workerVars, serverVars, rpc, cur, active, initial>>

\* A slip: the suite left at its last test instead of after it.
LeaveSuite_Early ==
    /\ rpc = "sched" /\ pos.suite <= Len(Suites) /\ pos.test >= Len(tests)
    /\ NextSuite
    /\ UNCHANGED <<workerVars, serverVars, rpc, cur, active, initial>>

\* POST_SUITE
LeaveSuite ==
    /\ rpc = "sched" /\ pos.suite <= Len(Suites) /\ pos.test > Len(tests)
    /\ NextSuite
    /\ UNCHANGED <<workerVars, serverVars, rpc, cur, active, initial>>

\* A slip: the worker that has no successor still counted.
NoNext_Kept ==
    /\ rpc = "sched" /\ pos.suite > Len(Suites)
    /\ active' = active
    /\ initial' = FALSE
    /\ rpc' = IF active' = 0 THEN "cleanup" ELSE "recv"
    /\ UNCHANGED <<workerVars, serverVars, cur, pos>>

\* No test is left: NULL, now and at every later call.
NoNext ==
    /\ rpc = "sched" /\ pos.suite > Len(Suites)
    /\ active' = IF initial THEN active ELSE active - 1
    /\ initial' = FALSE
    /\ rpc' = IF active' = 0 THEN "cleanup" ELSE "recv"
    /\ UNCHANGED <<workerVars, serverVars, cur, pos>>

----------------------------------------------------------------------------
(* process_client_message: one request, its handler, and its answer.       *)

\* The client a request names.
Client(c) == IF c = Own THEN cb.job ELSE c

\* send_ack: the answer to a dead process goes nowhere.
Answer(c, kind) ==
    chan' = [chan EXCEPT ![c] = IF c # Own /\ wk[c].proc # "running"
                                THEN Idle ELSE M(kind, 0)]

Reading(c) == rpc = "recv" /\ chan[c].kind \in Requests

\* A slip: only crashed tests stop the run.
Resume_CrashOnly(j, v) ==
    /\ rpc' = IF v.alive
              THEN IF active = 0 THEN "cleanup" ELSE "recv"
              ELSE IF FailFast /\ v.t.crashed THEN "terminate" ELSE "reap"
    /\ cur' = IF v.alive THEN cur ELSE j

\* What the runner does after a message of j that left this view behind.
Resume(j, v) ==
    /\ rpc' = IF v.alive
              THEN IF active = 0 THEN "cleanup" ELSE "recv"
              ELSE IF FailFast /\ v.t.test_status = FAILED THEN "terminate"
              ELSE "reap"
    /\ cur' = IF v.alive THEN cur ELSE j

viewOf(j) == [state |-> ctx[j].state, alive |-> ctx[j].alive, t |-> ctx[j].t,
              ss |-> ss[j[1]], g |-> g, ev |-> ctx[j].ev]

\* A slip: the events counted in the suite the coroutine is at.
Handled_CurrentSuite(c, v) ==
    LET j == Client(c)
    IN  /\ ctx' = [ctx EXCEPT ![j] = [state |-> v.state, alive |-> v.alive,
                                      t |-> v.t, ev |-> v.ev]]
        /\ ss' = [ss EXCEPT ![pos.suite] = v.ss]
        /\ g' = v.g
        /\ Answer(c, "ok")
        /\ Resume(j, v)
        /\ UNCHANGED <<wk, cb, subs, active, initial, pos>>

Handled(c, v) ==
    LET j == Client(c)
    IN  /\ ctx' = [ctx EXCEPT ![j] = [state |-> v.state, alive |-> v.alive,
                                      t |-> v.t, ev |-> v.ev]]
        /\ ss' = [ss EXCEPT ![j[1]] = v.ss]
        /\ g' = v.g
        /\ Answer(c, "ok")
        /\ Resume(j, v)
        /\ UNCHANGED <<wk, cb, subs, active, initial, pos>>

\* A slip: the context of a worker used after the worker was removed.
Known_Stale(c, kind) == Reading(c) /\ chan[c].kind = kind

Known(c, kind) ==
    Reading(c) /\ Client(c) \in subs /\ chan[c].kind = kind

\* A message of a process the server has no context for.
DropMessage(c) ==
    /\ Reading(c) /\ Client(c) \notin subs
    /\ Answer(c, "nack")
    /\ UNCHANGED <<wk, cb, serverVars, loopVars>>

HandleBirth(c) ==
    Known(c, "BIRTH") /\ Handled(c, handle_birth(viewOf(Client(c))))

RefusePhase(c) ==
    /\ Known(c, "PHASE")
    /\ phase_refused(ctx[Client(c)].state, chan[c].arg)
    /\ Answer(c, "nack")
    /\ Resume(Client(c), ctx[Client(c)])
    /\ UNCHANGED <<wk, cb, serverVars, active, initial, pos>>

HandlePhase(c) ==
    /\ Known(c, "PHASE")
    /\ ~phase_refused(ctx[Client(c)].state, chan[c].arg)
    /\ Handled(c, handle_phase(viewOf(Client(c)), chan[c].arg,
                               Test(Client(c))))

HandleDeath(c) ==
    /\ Known(c, "CRASH") \/ Known(c, "EXIT")
    /\ Handled(c, handle_death(viewOf(Client(c)), chan[c].kind = "CRASH",
                               chan[c].arg, Test(Client(c))))

HandleAssert(c) ==
    /\ Known(c, "ASSERT")
    /\ Handled(c, handle_assert(viewOf(Client(c)), chan[c].arg = 1))

HandleStatistic(c) ==
    /\ Known(c, "STATISTIC")
    /\ Handled(c, handle_statistic(viewOf(Client(c)), chan[c].arg))

HandleMessage(c) ==
    /\ Known(c, "INFO") \/ Known(c, "WARNING") \/ Known(c, "ERROR")
    /\ Handled(c, handle_message(viewOf(Client(c)), chan[c].kind))

----------------------------------------------------------------------------
(* The rest of the loop of run_tests_async, and the end of the run.        *)

\* remove_client_by_pid: bxf_wait returns once death_callback has.
Reap ==
    /\ rpc = "reap" /\ wk[cur].proc = "waited"
    /\ subs' = subs \ {cur}
    /\ rpc' = "sched"
    /\ cur' = Own
    /\ UNCHANGED <<workerVars, ctx, ss, g, active, initial, pos>>

\* cr_terminate: the whole process group is killed.
Terminate ==
    /\ rpc = "terminate"
    /\ rpc' = "terminated"
    /\ UNCHANGED <<workerVars, serverVars, cur, active, initial, pos>>

\* cr_send_to_runner got an error in the runner's own thread.
CallbackAborts ==
    /\ chan[Own].kind = "nack" /\ rpc \notin Over
    /\ rpc' = "aborted"
    /\ UNCHANGED <<workerVars, serverVars, cur, active, initial, pos>>

\* destroy_server_context
Cleanup ==
    /\ rpc = "cleanup"
    /\ \A j \in subs : wk[j].proc = "waited"
    /\ subs' = {}
    /\ rpc' = "done"
    /\ UNCHANGED <<workerVars, ctx, ss, g, cur, active, initial, pos>>

\* What criterion_run_all_tests_impl returns.
ok == /\ g["tests_failed"] = 0 /\ g["errors"] = 0
      /\ IgnoreWarnings \/ g["warnings"] = 0

----------------------------------------------------------------------------
Schedule == \/ SkipSuite \/ EnterSuite \/ SkipDisabled \/ SpawnNext
            \/ EndTest \/ LeaveSuite \/ NoNext
Receive(c) == \/ DropMessage(c) \/ HandleBirth(c) \/ RefusePhase(c)
              \/ HandlePhase(c) \/ HandleDeath(c) \/ HandleAssert(c)
              \/ HandleStatistic(c) \/ HandleMessage(c)
RunnerStep == \/ Schedule
              \/ \E c \in Socket : Receive(c)
              \/ Reap \/ Terminate \/ CallbackAborts \/ Cleanup

\* The other processes run until the run is over.
Others ==
    /\ rpc \notin Over
    /\ \/ \E j \in Job : WorkerStep(j) \/ Outside(j)
       \/ CallbackStep
    /\ UNCHANGED <<serverVars, loopVars>>

Ended == rpc \in Over /\ UNCHANGED vars

Next == RunnerStep \/ Others \/ Ended

(* While the run is not over and some process can move, some process does: *)
(* the system schedules them, user code takes its next step or hangs, and  *)
(* a time limit elapses.  Nothing is assumed of who moves, and a signal    *)
(* from outside (Kill) is never owed.                                      *)
Progress ==
    \/ RunnerStep
    \/ /\ rpc \notin Over
       /\ (\E j \in Job : WorkerStep(j) \/ TimeLimit(j)) \/ CallbackStep
       /\ UNCHANGED <<serverVars, loopVars>>
Fairness == WF_vars(Progress)

Spec == Init /\ [][Next]_vars
FairSpec == Spec /\ Fairness

----------------------------------------------------------------------------
(* A worker that follows its trampoline is never answered with an error,   *)
(* so it is never aborted by cr_send_to_runner: the stack of states of the *)
(* server (handle_phase) and the place of the worker agree at every        *)
(* message, nested theory iterations included.                             *)
NoWorkerRefused == \A j \in Job : chan[j].kind # "nack"

(* The runner aborts itself only when the time limit of a test struck      *)
(* after the test had ended for the server and before its process had.     *)
AbortCause ==
    chan[Own].kind = "nack" => /\ cb.pc = "timeout"
                               /\ curstate(ctx[cb.job].state) = CS_END

(* No theory is ever called with a data point past the end of its arrays:  *)
(* the address cr_theory_main takes of each argument stays inside.         *)
TheoryCounter == {"th_setup", "th_main", "theory", "th_abort", "th_end"}
DataPointsInRange ==
    \A j \in Job : wk[j].pc \in TheoryCounter
                     => InRange(Test(j).points, wk[j].indices)
=============================================================================
