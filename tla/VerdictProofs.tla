---------------------------- MODULE VerdictProofs ----------------------------
(***************************************************************************)
(* Proofs of what a run promises (module RunnerProperties), for every      *)
(* value of the constants of Runner.                                       *)
(*                                                                         *)
(* IInv of RunnerProofs says that a worker and the server agree on where a *)
(* test is.  The invariants here add what the server did about it: the     *)
(* contexts it keeps (Slots, Reaping), the tests the coroutine has passed  *)
(* (Walked), the events it pushed (History), what its counters show        *)
(* (Evidence) and what they sum up to (Books).  Together they carry the    *)
(* refinement of JobPool at the end.                                       *)
(***************************************************************************)
EXTENDS RunnerProofs, RunnerProperties, FiniteSetTheorems

\* The server has handled the death of j.
Finished(j) == \/ wk[j].proc = "waited"
               \/ cb.job = j /\ cb.pc = "death" /\ chan[Own].kind = "ok"

\* The events of a test that is not over, by the state of its client.
Fits(s, ev) ==
    /\ s = 0 => ev \in {<<>>, <<"PRE_INIT">>}
    /\ s \in {1, 4, 5, 6} => /\ ev # <<>> /\ Given(ev) = 0
                             /\ Last(ev) \in {"PRE_TEST", "THEORY_FAIL"}
    /\ s = 2 => ev # <<>> /\ Last(ev) = "POST_TEST" /\ Given(ev) = 1
    /\ s = 3 => ev # <<>> /\ Last(ev) = "POST_FINI" /\ Given(ev) \in {1, 2}

History(j) ==
    /\ Ordered(ctx[j].ev, MayEndTwice(j)) /\ Opens(ctx[j].ev)
    /\ ~MayEndTwice(j) => VerdictCount(j) <= 1
    /\ ~Finished(j) => Fits(ctx[j].state, ctx[j].ev)
    /\ Finished(j) => IF EndedInTheory(j) THEN VerdictCount(j) = 0
                      ELSE VerdictCount(j) \in {1, 2}

\* What the socket of a worker may still bring, given the events so far.
Pending(j) ==
    /\ chan[j].kind \notin {"CRASH", "EXIT"}
    /\ wk[j].proc = "running" => ~wk[j].timed_out
    /\ wk[j].proc = "running" /\ chan[j].kind = "PHASE"
          => wk[j].pc \notin {"boot", "setup"}
    /\ wk[j].proc = "running" /\ chan[j].kind # "PHASE" /\ ctx[j].state = 0
          => /\ wk[j].pc \in {"boot", "setup"} => ctx[j].ev = <<>>
             /\ wk[j].pc \in {"init", "abort"} => ctx[j].ev # <<>>
    /\ ~Finished(j) /\ chan[j].kind = "PHASE" =>
          /\ ctx[j].state = 0 => (chan[j].arg = CS_SETUP <=> ctx[j].ev = <<>>)
          /\ ctx[j].state = 2 /\ chan[j].arg \in {CS_SKIP, CS_TIMEOUT}
                => MayEndTwice(j)

\* What the thread that reports deaths says is what happened.
Reported ==
    /\ cb.pc = "timeout" => wk[cb.job].timed_out
    /\ cb.pc = "death" /\ chan[Own].kind # "ok" =>
          /\ chan[Own].kind = "CRASH" <=> Signaled(cb.job)
          /\ Signaled(cb.job) => chan[Own].arg = wk[cb.job].code

(* active_workers counts the contexts, but while the coroutine looks for   *)
(* the successor of a worker just reaped.                                  *)
Slots ==
    /\ IsFiniteSet(subs) /\ Cardinality(subs) <= NbWorkers
    /\ \A j \in subs : wk[j].proc # "none"
    /\ rpc = "sched" /\ initial => active = Cardinality(subs) /\ active < NbWorkers
    /\ rpc = "sched" /\ ~initial
          => active = Cardinality(subs) + 1 /\ active <= NbWorkers
    /\ rpc \in {"recv", "reap", "terminate", "cleanup"}
          => ~initial /\ active = Cardinality(subs)
    /\ rpc \in {"reap", "terminate"} => cur \in subs
    /\ rpc = "cleanup" => active = 0
    /\ rpc = "done" => subs = {}

\* A context outlives the death of its worker only until it is reaped.
Reaping ==
    \A j \in subs : Finished(j) =>
        /\ rpc \in {"reap", "terminate", "terminated", "aborted"}
        /\ rpc \in {"reap", "terminate"} => cur = j

\* --fail-fast: a test that failed is not reaped, and it alone ends the run.
Spared ==
    /\ FailFast => /\ \A j \in Job : Reaped(j) => ctx[j].t.test_status # FAILED
                   /\ rpc = "reap" => ctx[cur].t.test_status # FAILED
    /\ rpc = "terminate" => ctx[cur].t.test_status = FAILED

\* The coroutine leaves no test behind.
Walked ==
    /\ \A j \in Job : /\ Test(j).disabled => wk[j].proc = "none"
                      /\ ~Ahead(j) /\ ~Test(j).disabled => wk[j].proc # "none"
    /\ rpc \in {"cleanup", "done"} => pos.suite > Len(Suites)

\* A failure that the result of the run shows.
Alarmed(c) == c["tests_failed"] > 0 \/ c["warnings"] > 0
Alarm == Alarmed(g)

InTheory(j) == Test(j).points # <<>>
LimitHandled(j) == \/ wk[j].proc = "waited"
                   \/ cb.job = j /\ cb.pc = "death"
                   \/ cb.job = j /\ cb.pc = "timeout" /\ chan[Own].kind = "ok"

Evidence(j) ==
    /\ wk[j].proc = "none" => wk[j] = Unborn
    /\ wk[j].proc = "running" /\ wk[j].pc \in TheoryCounter => InTheory(j)
    /\ nested(ctx[j].state) => InTheory(j)
    /\ ctx[j].state = 1 /\ chan[j].kind = "PHASE" /\ chan[j].arg = CS_SETUP
          => InTheory(j)
    /\ ~Finished(j) => ctx[j].t.signal = 0
    /\ ~Finished(j) /\ ctx[j].state \in {2, 3} /\ Test(j).signal # 0 => Alarm
    /\ wk[j].timed_out /\ LimitHandled(j) => Alarm \/ InTheory(j)
    /\ Finished(j) /\ Signaled(j) => Alarm \/ wk[j].code = Test(j).signal
    /\ Finished(j) /\ ~wk[j].crashed /\ Test(j).signal # 0
          => Alarm \/ EndedInTheory(j)


----------------------------------------------------------------------------
(* The steps of a worker, as the server and the invariants see them: it    *)
(* dies, goes on without a phase message, or sends one.                    *)

Elsewhere(j) == /\ \A k \in Job \ {j} : wk'[k] = wk[k] /\ chan'[k] = chan[k]
                /\ chan'[Own] = chan[Own] /\ cb' = cb

Ends(j) == wk'[j].proc = "dead" /\ chan'[j] \in {chan[j], Idle}

Places == {{"boot", "setup"}, {"init", "abort"}, TheoryCounter}
Goes(j) ==
    /\ wk'[j].proc = "running" /\ wk'[j].timed_out = wk[j].timed_out
    /\ chan[j].kind # "PHASE" /\ chan'[j].kind \notin {"PHASE", "CRASH", "EXIT"}
    /\ \A P \in Places : wk'[j].pc \in P => wk[j].pc \in P

Calls(j, new) ==
    /\ wk'[j].proc = "running" /\ wk'[j].timed_out = wk[j].timed_out
    /\ chan[j] = Idle /\ chan'[j] = M("PHASE", new)
    /\ wk'[j].pc \notin {"boot", "setup"}
    /\ wk[j].pc \notin {"boot", "abort", "hung", "exit"}
    /\ new = CS_SETUP <=> wk[j].pc \in {"setup", "th_setup"}
    /\ new # CS_TIMEOUT
    /\ new = CS_SKIP => wk[j].pc \in Section /\ <<wk[j].pc, "skip">> \in Test(j).may
    /\ wk'[j].pc \in TheoryCounter => wk[j].pc \in TheoryCounter \/ InTheory(j)

Moved(j) == /\ wk[j].proc = "running" /\ Elsewhere(j)
            /\ Ends(j) \/ Goes(j) \/ \E new \in Phases : Calls(j, new)

LEMMA Moving ==
    ASSUME IInv, NEW j \in Job, NEW r, NEW m,
           wk' = [wk EXCEPT ![j] = r], chan' = [chan EXCEPT ![j] = m], cb' = cb
    PROVE  wk'[j] = r /\ chan'[j] = m /\ Elsewhere(j)
  BY JobFacts DEF IInv, TypeOK, WorkerTypeOK, Socket, Elsewhere

\* A worker at p sends the message m and stands at next.
LEMMA Sending ==
    ASSUME IInv, NEW j \in Job, NEW p, At(j, p), NEW m, NEW next, Send(j, m, next)
    PROVE  /\ Elsewhere(j) /\ chan'[j] = m
           /\ wk'[j].pc = next /\ wk'[j].proc = "running"
           /\ wk'[j].timed_out = wk[j].timed_out
           /\ wk[j].proc = "running" /\ wk[j].pc = p /\ chan[j] = Idle
  <1> DEFINE r == [wk[j] EXCEPT !.pc = next]
  <1>0. wk[j] \in WorkerRec /\ wk \in [Job -> WorkerRec]
    BY DEF IInv, TypeOK, WorkerTypeOK
  <1>1. r.pc = next /\ r.proc = wk[j].proc /\ r.timed_out = wk[j].timed_out
    BY <1>0 DEF WorkerRec
  <1>2. wk' = [wk EXCEPT ![j] = r] BY <1>0 DEF Send
  <1> HIDE DEF r
  <1>3. wk'[j] = r /\ chan'[j] = m /\ Elsewhere(j)
    BY <1>2, Moving DEF Send
  <1>4. QED BY <1>1, <1>3 DEF At

LEMMA SendingOther ==
    ASSUME IInv, NEW j \in Job, NEW p, At(j, p),
           NEW kind \in Requests \ {"PHASE", "CRASH", "EXIT"}, NEW arg \in Nat,
           NEW next, Send(j, M(kind, arg), next),
           \A P \in Places : next \in P => p \in P
    PROVE  Moved(j)
  <1>1. M(kind, arg).kind = kind BY MsgType
  <1>2. Goes(j) BY <1>1, Sending, IdleType DEF Goes
  <1>3. QED BY <1>2, Sending DEF Moved

\* When the worker of j, at p, may send the phase new and then stand at next.
Calling(j, p, new, next) ==
    /\ new \in Phases \ {CS_TIMEOUT}
    /\ next \notin {"boot", "setup"} /\ p \notin {"boot", "abort", "hung", "exit"}
    /\ new = CS_SETUP <=> p \in {"setup", "th_setup"}
    /\ new = CS_SKIP => p \in Section /\ <<p, "skip">> \in Test(j).may
    /\ next \in TheoryCounter => p \in TheoryCounter \/ InTheory(j)

LEMMA SendingPhase ==
    ASSUME IInv, NEW j \in Job, NEW p, At(j, p), NEW new, NEW next,
           Send(j, M("PHASE", new), next), Calling(j, p, new, next)
    PROVE  Moved(j)
  <1>1. Calls(j, new) /\ new \in Phases BY Sending DEF Calls, Calling
  <1>2. QED BY <1>1, Sending DEF Moved

LEMMA CallingPhases ==
    ASSUME NEW j \in Job
    PROVE  /\ Calling(j, "setup", CS_SETUP, "init")
           /\ Calling(j, "init", CS_MAIN, "main")
           /\ InTheory(j) => Calling(j, "init", CS_MAIN, "th_setup")
           /\ \A p \in {"main", "stat", "teardown"} :
                 Calling(j, p, CS_TEARDOWN, "fini")
           /\ \A p \in {"fini", "end"} : Calling(j, p, CS_END, "exit")
           /\ Calling(j, "th_setup", CS_SETUP, "th_main")
           /\ Calling(j, "th_main", CS_MAIN, "theory")
           /\ Calling(j, "theory", CS_TEARDOWN, "th_end")
           /\ \A next \in {"th_setup", "stat"} :
                 /\ Calling(j, "th_abort", CS_ABORT, next)
                 /\ Calling(j, "th_end", CS_END, next)
           /\ \A p \in Section :
                 /\ Calling(j, p, CS_ABORT, "exit")
                 /\ <<p, "skip">> \in Test(j).may => Calling(j, p, CS_SKIP, "exit")
  BY DEF Calling, Phases, Section, TheoryCounter, CS_SETUP, CS_MAIN,
         CS_TEARDOWN, CS_END, CS_ABORT, CS_TIMEOUT, CS_SKIP

\* A worker that dies leaves its request behind, or nothing.
LEMMA Dying ==
    ASSUME IInv, NEW j \in Job, wk[j].proc = "running", NEW r,
           wk' = [wk EXCEPT ![j] = r], r.proc = "dead",
           chan' = chan \/ chan' = [chan EXCEPT ![j] = Idle], cb' = cb
    PROVE  Moved(j)
  <1>1. PICK m \in {chan[j], Idle} : chan' = [chan EXCEPT ![j] = m]
    BY DEF IInv, TypeOK, WorkerTypeOK, Socket
  <1>2. wk'[j] = r /\ chan'[j] = m /\ Elsewhere(j) BY <1>1, Moving
  <1>3. QED BY <1>2 DEF Moved, Ends

LEMMA TrampolineMove ==
    ASSUME IInv, NEW j \in Job, Trampoline(j)
    PROVE  Moved(j)
  <1>0. /\ wk[j] \in WorkerRec /\ wk \in [Job -> WorkerRec] /\ j \in Socket
        /\ chan \in [Socket -> Msg]
    BY DEF IInv, TypeOK, WorkerTypeOK, Socket
  <1>d. ASSUME NEW crashed, NEW code, wk[j].proc = "running",
               Dies(j, crashed, code),
               chan' = chan \/ chan' = [chan EXCEPT ![j] = Idle]
        PROVE  Moved(j)
    <2> DEFINE r == [wk[j] EXCEPT !.proc = "dead", !.crashed = crashed,
                                  !.code = code]
    <2>1. r.proc = "dead" /\ wk' = [wk EXCEPT ![j] = r] /\ cb' = cb
      BY <1>0, <1>d DEF WorkerRec, Dies
    <2> HIDE DEF r
    <2>2. QED BY <1>d, <2>1, Dying
  <1>r. ASSUME NEW new, NextRound(j, M("PHASE", new)), NEW p, At(j, p),
               \A next \in {"th_setup", "stat"} : Calling(j, p, new, next)
        PROVE  Moved(j)
    <2> DEFINE r == [wk[j] EXCEPT
                       !.round = @ + 1,
                       !.indices = next_indices(Test(j).points, @),
                       !.pc = IF has_next(Test(j).points, wk[j].indices)
                              THEN "th_setup" ELSE "stat"]
    <2>1. /\ r.proc = wk[j].proc /\ r.timed_out = wk[j].timed_out
          /\ r.pc \in {"th_setup", "stat"}
      BY <1>0 DEF WorkerRec
    <2>2. wk' = [wk EXCEPT ![j] = r] BY <1>0, <1>r DEF NextRound
    <2> HIDE DEF r
    <2>3. wk'[j] = r /\ chan'[j] = M("PHASE", new) /\ Elsewhere(j)
      BY <1>r, <2>2, Moving DEF NextRound
    <2>4. Calls(j, new) /\ new \in Phases
      BY <1>r, <2>1, <2>3 DEF Calls, Calling, At
    <2>5. QED BY <1>r, <2>3, <2>4 DEF Moved, At
  <1>1. CASE ReceiveAck(j)
    <2>1. wk' = [wk EXCEPT ![j] = wk[j]] /\ chan' = [chan EXCEPT ![j] = Idle]
          /\ cb' = cb
      BY <1>0, <1>1 DEF ReceiveAck
    <2>2. wk'[j] = wk[j] /\ chan'[j] = Idle /\ Elsewhere(j) BY <2>1, Moving
    <2>3. Goes(j) BY <1>1, <2>2, IdleType DEF ReceiveAck, Goes
    <2>4. QED BY <1>1, <2>2, <2>3 DEF ReceiveAck, Moved
  <1>2. CASE ReceiveNack(j)
    BY <1>2, <1>d DEF ReceiveNack
  <1>3. CASE SendBirth(j)
    BY <1>3, SendingOther DEF SendBirth, Requests, Places, TheoryCounter
  <1>4. CASE SendSetup(j)
    BY <1>4, CallingPhases, SendingPhase DEF SendSetup
  <1>5. CASE SendMain(j)
    <2>1. CASE Test(j).points # <<>>
      <3> DEFINE r == [wk[j] EXCEPT !.pc = "th_setup",
                         !.indices = first_indices(Test(j).points)]
      <3>1. r.proc = wk[j].proc /\ r.timed_out = wk[j].timed_out
            /\ r.pc = "th_setup"
        BY <1>0 DEF WorkerRec
      <3>2. wk' = [wk EXCEPT ![j] = r] /\ cb' = cb
            /\ chan' = [chan EXCEPT ![j] = M("PHASE", CS_MAIN)]
        BY <1>0, <1>5, <2>1 DEF SendMain, BeginTheory
      <3> HIDE DEF r
      <3>3. wk'[j] = r /\ chan'[j] = M("PHASE", CS_MAIN) /\ Elsewhere(j)
        BY <3>2, Moving
      <3>4. At(j, "init") BY <1>5 DEF SendMain
      <3>5. Calls(j, CS_MAIN) /\ CS_MAIN \in Phases
        BY <2>1, <3>1, <3>3, <3>4, CallingPhases
        DEF Calls, Calling, At, InTheory
      <3>6. QED BY <3>3, <3>4, <3>5 DEF Moved, At
    <2>2. CASE Test(j).points = <<>>
      BY <1>5, <2>2, CallingPhases, SendingPhase DEF SendMain
    <2>3. QED BY <2>1, <2>2
  <1>6. CASE SendStatistic(j)
    <2>1. PICK p \in {"main", "stat"} : At(j, p) BY <1>6 DEF SendStatistic
    <2>2. wk[j].npass \in Nat BY <1>0 DEF WorkerRec
    <2>3. Send(j, M("STATISTIC", wk[j].npass), "teardown")
      BY <1>6 DEF SendStatistic
    <2>4. \A P \in Places : "teardown" \notin P BY DEF Places, TheoryCounter
    <2>5. QED BY <2>1, <2>2, <2>3, <2>4, SendingOther DEF Requests
  <1>7. CASE SendTeardown(j)
    <2>1. PICK p \in {"main", "stat", "teardown"} : At(j, p)
      BY <1>7 DEF SendTeardown
    <2>2. QED BY <1>7, <2>1, CallingPhases, SendingPhase DEF SendTeardown
  <1>8. CASE SendEnd(j)
    <2>1. PICK p \in {"fini", "end"} : At(j, p) BY <1>8 DEF SendEnd
    <2>2. QED BY <1>8, <2>1, CallingPhases, SendingPhase DEF SendEnd
  <1>9. CASE Exit(j) \/ AbortInit(j)
    BY <1>9, <1>d DEF Exit, AbortInit, At
  <1>10. CASE SendTheorySetup(j)
    BY <1>10, CallingPhases, SendingPhase DEF SendTheorySetup
  <1>11. CASE SendTheoryMain(j)
    BY <1>11, CallingPhases, SendingPhase DEF SendTheoryMain
  <1>12. CASE SendTheoryAbort(j)
    BY <1>12, CallingPhases, <1>r DEF SendTheoryAbort
  <1>13. CASE SendTheoryTeardown(j)
    BY <1>13, CallingPhases, SendingPhase DEF SendTheoryTeardown
  <1>14. CASE SendTheoryEnd(j)
    BY <1>14, CallingPhases, <1>r DEF SendTheoryEnd
  <1>15. QED
    BY <1>1, <1>2, <1>3, <1>4, <1>5, <1>6, <1>7, <1>8, <1>9, <1>10, <1>11,
       <1>12, <1>13, <1>14
    DEF Trampoline

LEMMA UserMove ==
    ASSUME IInv, NEW j \in Job, UserCode(j)
    PROVE  Moved(j)
  <1>0. /\ wk[j] \in WorkerRec /\ wk \in [Job -> WorkerRec] /\ j \in Socket
        /\ chan \in [Socket -> Msg]
    BY DEF IInv, TypeOK, WorkerTypeOK, Socket
  <1>m. ASSUME NEW a, May(j, a)
        PROVE  \E s \in Section : At(j, s) /\ <<s, a>> \in Test(j).may
    BY <1>m DEF May
  <1>l. /\ \A s \in Section, P \in Places : landing(s) \in P => s \in P
        /\ \A P \in Places : "hung" \notin P
    BY DEF Section, Places, landing, TheoryCounter
  \* The worker stays alive, and no phase message is sent.
  <1>k. ASSUME NEW a, May(j, a), NEW r, NEW m, wk' = [wk EXCEPT ![j] = r],
               chan' = [chan EXCEPT ![j] = m], cb' = cb, r.proc = "running",
               r.timed_out = wk[j].timed_out,
               m.kind \notin {"PHASE", "CRASH", "EXIT"},
               \A P \in Places : r.pc \in P => wk[j].pc \in P
        PROVE  Moved(j)
    <2>1. wk'[j] = r /\ chan'[j] = m /\ Elsewhere(j) BY <1>k, Moving
    <2>2. wk[j].proc = "running" /\ chan[j].kind = "idle"
      BY <1>k, <1>m, IdleType DEF At
    <2>3. Goes(j) BY <1>k, <2>1, <2>2 DEF Goes
    <2>4. QED BY <2>1, <2>2, <2>3 DEF Moved
  <1>i. ASSUME NEW a, May(j, a), NEW kind \in Requests \ {"PHASE", "CRASH", "EXIT"},
               NEW arg \in Nat, Interject(j, M(kind, arg))
        PROVE  Moved(j)
    <2> DEFINE r == [wk[j] EXCEPT !.left = @ - 1]
               m == M(kind, arg)
    <2>1. r.proc = wk[j].proc /\ r.timed_out = wk[j].timed_out
          /\ r.pc = wk[j].pc
      BY <1>0 DEF WorkerRec
    <2>2. wk' = [wk EXCEPT ![j] = r] /\ chan' = [chan EXCEPT ![j] = m]
          /\ cb' = cb
      BY <1>0, <1>i DEF Interject
    <2>3. m.kind = kind BY MsgType
    <2>4. wk[j].proc = "running" BY <1>i, <1>m DEF At
    <2> HIDE DEF r, m
    <2>5. QED BY <1>i, <1>k, <2>1, <2>2, <2>3, <2>4
  <1>d. ASSUME NEW a, May(j, a), NEW crashed, NEW code, Dies(j, crashed, code),
               UNCHANGED chan
        PROVE  Moved(j)
    <2> DEFINE r == [wk[j] EXCEPT !.proc = "dead", !.crashed = crashed,
                                  !.code = code]
    <2>1. r.proc = "dead" /\ wk' = [wk EXCEPT ![j] = r] /\ cb' = cb
      BY <1>0, <1>d DEF WorkerRec, Dies
    <2>2. wk[j].proc = "running" BY <1>d, <1>m DEF At
    <2> HIDE DEF r
    <2>3. QED BY <1>d, <2>1, <2>2, Dying
  \* The worker jumps, silently.
  <1>j. ASSUME NEW a, May(j, a), NEW next, wk' = [wk EXCEPT ![j].pc = next],
               UNCHANGED <<chan, cb>>,
               \A P \in Places : next \in P => wk[j].pc \in P
        PROVE  Moved(j)
    <2> DEFINE r == [wk[j] EXCEPT !.pc = next]
    <2>1. r.proc = wk[j].proc /\ r.timed_out = wk[j].timed_out /\ r.pc = next
      BY <1>0 DEF WorkerRec
    <2>2. wk' = [wk EXCEPT ![j] = r] BY <1>0, <1>j
    <2>3. wk[j].proc = "running" /\ chan[j] = Idle BY <1>j, <1>m DEF At
    <2>4. chan' = [chan EXCEPT ![j] = Idle] BY <1>0, <1>j, <2>3
    <2> HIDE DEF r
    <2>5. QED BY <1>j, <1>k, <2>1, <2>2, <2>3, <2>4, IdleType
  <1>1. CASE AssertPasses(j)
    <2>1. CASE FullStats /\ Interject(j, M("ASSERT", 1))
      BY <1>1, <2>1, <1>i DEF AssertPasses, Requests
    <2>2. CASE ~(FullStats /\ Interject(j, M("ASSERT", 1)))
      <3> DEFINE r == [wk[j] EXCEPT !.left = @ - 1, !.npass = @ + 1]
      <3>1. r.proc = wk[j].proc /\ r.timed_out = wk[j].timed_out
            /\ r.pc = wk[j].pc
        BY <1>0 DEF WorkerRec
      <3>2. wk' = [wk EXCEPT ![j] = r] /\ UNCHANGED <<chan, cb>>
        BY <1>0, <1>1, <2>2 DEF AssertPasses
      <3>3. wk[j].proc = "running" /\ chan[j] = Idle
        BY <1>1, <1>m DEF At, AssertPasses
      <3>4. chan' = [chan EXCEPT ![j] = Idle] BY <1>0, <3>2, <3>3
      <3> HIDE DEF r
      <3>5. QED
        BY ZenonT(60), <1>1, <1>k, <3>1, <3>2, <3>3, <3>4, IdleType DEF AssertPasses
    <2>3. QED BY <2>1, <2>2
  <1>2. CASE ExpectFails(j) \/ LogInfo(j) \/ LogWarning(j) \/ LogError(j)
    BY <1>2, <1>i DEF ExpectFails, LogInfo, LogWarning, LogError, Requests
  <1>3. CASE AssertFails(j)
    <2>1. PICK s \in Section : At(j, s) BY <1>3, <1>m DEF AssertFails
    <2>2. Send(j, M("ASSERT", 0), landing(s))
      BY <1>3, <2>1 DEF AssertFails, At
    <2>3. QED BY <2>1, <2>2, <1>l, SendingOther DEF Requests
  <1>4. CASE AbortTest(j)
    <2>1. PICK s \in Section : At(j, s) BY <1>4, <1>m DEF AbortTest
    <2>2. wk' = [wk EXCEPT ![j].pc = landing(s)] /\ UNCHANGED <<chan, cb>>
          /\ wk[j].pc = s
      BY <1>4, <2>1 DEF AbortTest, At
    <2>3. QED BY <1>4, <2>2, <1>l, <1>j DEF AbortTest
  <1>5. CASE SkipTest(j)
    <2>1. PICK s \in Section : At(j, s) /\ <<s, "skip">> \in Test(j).may
      BY <1>5, <1>m DEF SkipTest
    <2>2. QED BY <1>5, <2>1, CallingPhases, SendingPhase DEF SkipTest
  <1>6. CASE TestDie(j)
    <2>1. PICK s \in Section : At(j, s) BY <1>6, <1>m DEF TestDie
    <2>2. QED BY <1>6, <2>1, CallingPhases, SendingPhase DEF TestDie
  <1>7. CASE ExitTest(j) \/ Crash(j)
    BY <1>7, <1>d DEF ExitTest, Crash
  <1>8. CASE Hang(j)
    BY <1>8, <1>l, <1>j DEF Hang
  <1>9. QED
    BY <1>1, <1>2, <1>3, <1>4, <1>5, <1>6, <1>7, <1>8 DEF UserCode

\* Every step of a worker, or upon it, but the one that changes nothing.
LEMMA WorkerMove ==
    ASSUME IInv, NEW j \in Job, WorkerStep(j) \/ Outside(j)
    PROVE  Moved(j) \/ UNCHANGED workerVars
  <1>1. ASSUME NEW late, Killed(j, late) PROVE Moved(j)
    <2> DEFINE r == [wk[j] EXCEPT !.proc = "dead", !.crashed = TRUE,
                                  !.code = SIGKILL, !.timed_out = late]
    <2>1. wk[j] \in WorkerRec /\ wk \in [Job -> WorkerRec]
      BY DEF IInv, TypeOK, WorkerTypeOK
    <2>2. wk' = [wk EXCEPT ![j] = r] /\ r.proc = "dead"
      BY <1>1, <2>1 DEF Killed, WorkerRec
    <2> HIDE DEF r
    <2>3. QED BY <1>1, <2>2, Dying DEF Killed
  <1>2. QED
    BY <1>1, TrampolineMove, UserMove
    DEF WorkerStep, Outside, TimeLimit, Kill, Spin

----------------------------------------------------------------------------
(* What the steps of the other processes leave alone.                      *)

LEMMA CallbackMove ==
    ASSUME IInv, CallbackStep, NEW k \in Job
    PROVE  /\ chan'[k] = chan[k]
           /\ \/ wk'[k] = wk[k]
              \/ /\ k = cb.job /\ wk[k].proc = "dead" /\ Finished(k)
                 /\ wk'[k] = [wk[k] EXCEPT !.proc = "waited"]
           /\ Finished(k)' <=> Finished(k)
  <1>0. /\ cb \in [job : Socket, pc : {"idle", "timeout", "death"}]
        /\ Own \in Socket /\ chan \in [Socket -> Msg] /\ k \in Socket
        /\ wk \in [Job -> WorkerRec] /\ k # Own
    BY JobFacts DEF IInv, TypeOK, WorkerTypeOK, Socket
  <1>1. ASSUME NEW j \in Job, CallbackStart(j)
        PROVE  chan'[k] = chan[k] /\ wk' = wk /\ ~Finished(j) /\ ~Finished(j)'
               /\ (k # j => ~(cb.job = k /\ cb.pc = "death") /\ cb'.job # k)
    <2>1. M("PHASE", CS_TIMEOUT).kind # "ok"
      BY MsgType DEF Requests, CS_TIMEOUT
    <2>2. Death(j).kind # "ok" BY DeathMsg
    <2>3. chan'[Own].kind # "ok"
      BY <1>0, <1>1, <2>1, <2>2 DEF CallbackStart
    <2>4. cb.pc = "idle" /\ wk[j].proc = "dead" /\ wk' = wk /\ cb'.job = j
      BY <1>1 DEF CallbackStart
    <2>5. chan'[k] = chan[k] BY <1>0, <1>1 DEF CallbackStart
    <2>6. QED BY <2>3, <2>4, <2>5 DEF Finished
  <1>2. CASE \E j \in Job : CallbackStart(j)
    BY <1>1, <1>2 DEF Finished
  <1>3. CASE CallbackDeath
    <2>1. cb.job \in Job /\ wk[cb.job].proc = "dead"
      BY <1>3 DEF CallbackDeath, IInv, CallbackOK, TypeOK
    <2>2. /\ chan'[Own].kind # "ok" /\ chan'[k] = chan[k] /\ wk' = wk
          /\ cb.pc = "timeout"
      BY <1>0, <1>3, <2>1, DeathMsg DEF CallbackDeath
    <2>3. QED BY <2>2 DEF Finished
  <1>4. CASE CallbackReturn
    <2>1. cb.job \in Job /\ wk[cb.job].proc = "dead"
      BY <1>4 DEF CallbackReturn, IInv, CallbackOK, TypeOK
    <2>2. /\ wk' = [wk EXCEPT ![cb.job].proc = "waited"] /\ chan'[k] = chan[k]
          /\ cb.pc = "death" /\ chan[Own].kind = "ok" /\ cb'.pc = "idle"
      BY <1>0, <1>4 DEF CallbackReturn, NoDeath
    <2>3. CASE k = cb.job
      <3>1. wk'[k] = [wk[k] EXCEPT !.proc = "waited"] BY <1>0, <2>2, <2>3
      <3>2. wk'[k].proc = "waited" BY <1>0, <3>1 DEF WorkerRec
      <3>3. QED BY <2>1, <2>2, <2>3, <3>1, <3>2 DEF Finished
    <2>4. CASE k # cb.job
      <3>1. wk'[k] = wk[k] BY <1>0, <2>1, <2>2, <2>4
      <3>2. QED BY <2>2, <2>4, <3>1 DEF Finished
    <2>5. QED BY <2>3, <2>4
  <1>5. QED BY <1>2, <1>3, <1>4 DEF CallbackStep

\* A worker that runs is not being reported.
LEMMA RunningUnfinished ==
    ASSUME IInv, NEW j \in Job, wk[j].proc = "running"
    PROVE  ~Finished(j) /\ (cb.pc # "idle" => cb.job # j)
  BY DEF IInv, CallbackOK, Finished

LEMMA OthersKeep ==
    ASSUME IInv, Others, NEW k \in Job
    PROVE  /\ Finished(k)' <=> Finished(k)
           /\ wk[k].proc = "none" <=> wk'[k].proc = "none"
           /\ wk[k].timed_out /\ ~wk'[k].timed_out => wk[k].proc = "running"
           /\ Finished(k) => /\ wk'[k].crashed = wk[k].crashed
                             /\ wk'[k].code = wk[k].code
                             /\ wk'[k].timed_out = wk[k].timed_out
           /\ wk'[k].proc = "waited" => Finished(k)
  <1>0. wk[k] \in WorkerRec BY DEF IInv, TypeOK, WorkerTypeOK
  <1>1. ASSUME NEW j \in Job, Moved(j)
        PROVE  wk'[j].proc \in {"running", "dead"} /\ wk[j].proc = "running"
               /\ ~Finished(j) /\ ~Finished(j)' /\ cb' = cb /\ chan'[Own] = chan[Own]
               /\ (k # j => wk'[k] = wk[k])
    <2>1. /\ wk'[j].proc \in {"running", "dead"} /\ wk[j].proc = "running"
          /\ cb' = cb /\ chan'[Own] = chan[Own] /\ (k # j => wk'[k] = wk[k])
      BY <1>1 DEF Moved, Ends, Goes, Calls, Elsewhere
    <2>2. ~Finished(j) /\ (cb.pc # "idle" => cb.job # j)
      BY <2>1, RunningUnfinished
    <2>3. QED BY <2>1, <2>2 DEF Finished
  <1>2. ASSUME NEW j \in Job, Moved(j)
        PROVE  Finished(k)' <=> Finished(k)
    <2>1. CASE k = j BY <1>1, <1>2, <2>1
    <2>2. CASE k # j BY <1>1, <1>2, <2>2 DEF Finished
    <2>3. QED BY <2>1, <2>2
  <1>3. CASE \E j \in Job : Moved(j)
    <2>1. PICK j \in Job : Moved(j) BY <1>3
    <2>2. Finished(k)' <=> Finished(k) BY <1>2, <2>1
    <2>3. CASE k = j BY <1>1, <2>1, <2>2, <2>3
    <2>4. CASE k # j BY <1>1, <2>1, <2>2, <2>4 DEF Finished
    <2>5. QED BY <2>3, <2>4
  <1>4. CASE UNCHANGED workerVars
    BY <1>4 DEF workerVars, Finished
  <1>5. CASE CallbackStep
    <2>1. Finished(k)' <=> Finished(k) BY <1>5, CallbackMove
    <2>2. CASE wk'[k] = wk[k] BY <2>1, <2>2 DEF Finished
    <2>3. CASE /\ wk[k].proc = "dead" /\ Finished(k)
               /\ wk'[k] = [wk[k] EXCEPT !.proc = "waited"]
      BY <1>0, <2>1, <2>3 DEF WorkerRec
    <2>4. QED BY <1>5, <2>2, <2>3, CallbackMove
  <1>6. QED BY <1>3, <1>4, <1>5, WorkerMove DEF Others

----------------------------------------------------------------------------
(* What a step of the message server does to the loop of the runner.       *)

LEMMA Received ==
    ASSUME IInv, NEW c \in Socket, Receive(c)
    PROVE  /\ Reading(c) /\ UNCHANGED <<wk, cb, subs, active, initial, pos>>
           /\ \/ /\ UNCHANGED <<ctx, ss, g>> /\ Answer(c, "nack")
                 /\ \/ Client(c) \notin subs /\ UNCHANGED <<rpc, cur>>
                    \/ RefusePhase(c)
              \/ /\ Client(c) \in subs
                 /\ \E v \in View : Handled(c, v)
  <1>0. chan[c] \in Msg /\ chan[c].arg \in Nat
    BY DEF IInv, TypeOK, WorkerTypeOK, Msg
  <1>j. Client(c) \in subs => Client(c) \in Job BY DEF IInv, TypeOK
  <1> DEFINE u == viewOf(Client(c))
  <1>v. Client(c) \in subs => u \in View /\ u.state = ctx[Client(c)].state
    BY <1>j, ViewType
  <1>h. ASSUME NEW v, Handled(c, v)
        PROVE  UNCHANGED <<wk, cb, subs, active, initial, pos>>
    BY <1>h DEF Handled
  <1> HIDE DEF u
  <1>1. CASE DropMessage(c)
    BY <1>1 DEF DropMessage, serverVars, loopVars
  <1>2. CASE RefusePhase(c)
    BY <1>2 DEF RefusePhase, Known, serverVars
  <1>3. CASE HandleBirth(c)
    <2>1. Handled(c, handle_birth(u)) /\ Reading(c) /\ Client(c) \in subs
      BY <1>3 DEF HandleBirth, Known, u
    <2>2. QED BY <2>1, <1>h, <1>v, HandleBirthType
  <1>4. CASE HandleDeath(c)
    <2>1. PICK crashed \in BOOLEAN :
             Handled(c, handle_death(u, crashed, chan[c].arg, Test(Client(c))))
      BY <1>4 DEF HandleDeath, u
    <2>2. Reading(c) /\ Client(c) \in subs BY <1>4 DEF HandleDeath, Known
    <2>3. QED BY <2>1, <2>2, <1>0, <1>h, <1>v, HandleDeathType
  <1>5. CASE HandleAssert(c)
    <2>1. PICK passed \in BOOLEAN : Handled(c, push_assert(u, passed))
      BY <1>5 DEF HandleAssert, handle_assert, u
    <2>2. Reading(c) /\ Client(c) \in subs BY <1>5 DEF HandleAssert, Known
    <2>3. QED BY <2>1, <2>2, <1>h, <1>v, KeepsAssert DEF Keeps
  <1>6. CASE HandleStatistic(c)
    <2>1. Handled(c, handle_statistic(u, chan[c].arg))
          /\ Reading(c) /\ Client(c) \in subs
      BY <1>6 DEF HandleStatistic, Known, u
    <2>2. QED BY <2>1, <1>0, <1>h, <1>v, HandleStatisticType DEF Keeps
  <1>7. CASE HandleMessage(c)
    <2>1. Handled(c, handle_message(u, chan[c].kind))
          /\ Reading(c) /\ Client(c) \in subs
      BY <1>7 DEF HandleMessage, Known, u
    <2>2. QED BY <2>1, <1>h, <1>v, HandleMessageType DEF Keeps
  <1>8. CASE HandlePhase(c)
    <2>1. /\ Reading(c) /\ Client(c) \in subs /\ chan[c].kind = "PHASE"
          /\ ~phase_refused(ctx[Client(c)].state, chan[c].arg)
          /\ Handled(c, handle_phase(u, chan[c].arg, Test(Client(c))))
      BY <1>8 DEF HandlePhase, Known, u
    <2>2. chan[c].arg \in Phases
      BY <2>1, OwnRequest
      DEF IInv, SocketOK, Reading, Phases, CS_SETUP, CS_TIMEOUT, CS_SKIP, Socket
    <2>3. QED BY <2>1, <2>2, <1>h, <1>v, HandlePhaseType
  <1>9. QED
    BY <1>1, <1>2, <1>3, <1>4, <1>5, <1>6, <1>7, <1>8 DEF Receive

LEMMA Resumed ==
    ASSUME IInv, Slots, NEW c \in Socket, Receive(c)
    PROVE  /\ rpc = "recv" /\ rpc' \in {"recv", "reap", "terminate"}
           /\ rpc' \in {"reap", "terminate"}
                 => /\ Client(c) \in subs /\ cur' = Client(c)
                    /\ rpc' = "reap" /\ FailFast
                          => ctx'[cur'].t.test_status # FAILED
                    /\ rpc' = "terminate" => ctx'[cur'].t.test_status = FAILED
           /\ \A k \in Job : k \notin subs => ctx'[k] = ctx[k]
  <1>0. ctx \in [Job -> ClientCtx] BY DEF IInv, TypeOK
  <1>1. rpc = "recv" /\ active > 0
    BY Received DEF Reading, Slots, IInv, LoopOK
  <1>2. CASE UNCHANGED <<ctx, ss, g>> /\ Client(c) \notin subs
             /\ UNCHANGED <<rpc, cur>>
    BY <1>1, <1>2
  <1>3. CASE RefusePhase(c)
    BY <1>1, <1>3 DEF RefusePhase, Known, Resume, serverVars
  <1>4. ASSUME NEW v \in View, Handled(c, v), Client(c) \in subs
        PROVE  /\ rpc' \in {"recv", "reap", "terminate"}
               /\ rpc' \in {"reap", "terminate"}
                     => /\ cur' = Client(c)
                        /\ rpc' = "reap" /\ FailFast
                              => ctx'[cur'].t.test_status # FAILED
                        /\ rpc' = "terminate"
                              => ctx'[cur'].t.test_status = FAILED
               /\ \A k \in Job : k \notin subs => ctx'[k] = ctx[k]
    <2>1. PICK j \in Job : j = Client(c) BY <1>4 DEF IInv, TypeOK
    <2>2. /\ ctx' = [ctx EXCEPT ![j] = [state |-> v.state, alive |-> v.alive,
                                        t |-> v.t, ev |-> v.ev]]
          /\ Resume(j, v)
      BY <1>4, <2>1 DEF Handled
    <2>3. ctx'[j].t = v.t /\ \A k \in Job \ {j} : ctx'[k] = ctx[k]
      BY <1>0, <2>2
    <2>4. QED BY <1>1, <1>4, <2>1, <2>2, <2>3 DEF Resume
  <1>5. QED BY <1>1, <1>2, <1>3, <1>4, Received

----------------------------------------------------------------------------
(* The coroutine and the loop of the runner.                               *)

\* What a turn of the coroutine that spawns nothing leaves alone.
LEMMA Turning ==
    ASSUME Schedule, ~SpawnNext
    PROVE  /\ UNCHANGED <<wk, chan, cb, subs, ctx, cur>> /\ rpc = "sched"
           /\ \/ NoNext
              \/ UNCHANGED <<rpc, active, initial>>
  BY DEF Schedule, SkipSuite, EnterSuite, SkipDisabled, EndTest, LeaveSuite,
         NoNext, AtSuite, AtTest, workerVars, serverVars

LEMMA Spawning ==
    ASSUME IInv, SpawnNext
    PROVE  \E j \in Job :
              /\ j = <<pos.suite, pos.test, pos.param + 1>>
              /\ wk[j] = Unborn /\ Ahead(j) /\ ~Test(j).disabled
              /\ subs' = subs \cup {j}
              /\ ctx' = [ctx EXCEPT ![j] = FreshCtx] /\ ctx'[j] = FreshCtx
              /\ wk'[j] = [Unborn EXCEPT !.proc = "running"]
              /\ \A k \in Job \ {j} : wk'[k] = wk[k] /\ ctx'[k] = ctx[k]
              /\ chan[j] = Idle /\ UNCHANGED <<chan, cb, ss, g, cur>>
  <1>0. /\ pos \in [suite : Nat, test : Nat, param : Nat] /\ pos.suite > 0
        /\ wk \in [Job -> WorkerRec] /\ ctx \in [Job -> ClientCtx]
    BY DEF IInv, TypeOK, WorkerTypeOK, LoopOK
  <1>1. /\ pos.suite \in DOMAIN Suites /\ pos.test \in DOMAIN tests
        /\ test.runs \in Nat
    BY AtSuiteFacts DEF SpawnNext, AtTest, test, TestRec
  <1>2. pos.param + 1 \in 1 .. Suites[pos.suite].tests[pos.test].runs
    BY <1>0, <1>1 DEF SpawnNext, test, tests
  <1>3. PICK j \in Job : j = <<pos.suite, pos.test, pos.param + 1>>
    BY <1>1, <1>2, JobIntro DEF tests
  <1>4. j[1] = pos.suite /\ j[2] = pos.test /\ j[3] = pos.param + 1
    BY <1>3
  <1>5. Ahead(j) BY <1>0, <1>4 DEF Ahead
  <1>6. wk[j] = Unborn /\ chan[j] = Idle BY <1>3, <1>5 DEF IInv, Fresh
  <1>7. ~Test(j).disabled BY <1>4 DEF SpawnNext, Test, test, tests
  <1>8. /\ wk' = [wk EXCEPT ![j].proc = "running"] /\ subs' = subs \cup {j}
        /\ ctx' = [ctx EXCEPT ![j] = FreshCtx]
        /\ UNCHANGED <<chan, cb, ss, g, cur>>
    BY <1>3 DEF SpawnNext
  <1>9. /\ wk'[j] = [Unborn EXCEPT !.proc = "running"] /\ ctx'[j] = FreshCtx
        /\ \A k \in Job \ {j} : wk'[k] = wk[k] /\ ctx'[k] = ctx[k]
    BY <1>0, <1>6, <1>8
  <1>10. QED BY <1>3, <1>5, <1>6, <1>7, <1>8, <1>9

LEMMA SlotsKept ==
    ASSUME IInv, Slots, [Next]_vars
    PROVE  Slots'
  <1>0. /\ active \in Nat /\ initial \in BOOLEAN /\ subs \in SUBSET Job
        /\ NbWorkers \in Nat /\ NbWorkers > 0 /\ IsFiniteSet(subs)
        /\ Cardinality(subs) \in Nat /\ Cardinality(subs) <= NbWorkers
    BY RunnerAssumption, FS_CardinalityType DEF IInv, TypeOK, Slots
  <1>n. ASSUME \A j \in subs : wk'[j].proc # "none", UNCHANGED subs
        PROVE  /\ IsFiniteSet(subs') /\ Cardinality(subs') <= NbWorkers
               /\ \A j \in subs' : wk'[j].proc # "none"
    BY <1>0, <1>n
  <1>1. CASE Others
    <2>1. UNCHANGED <<subs, rpc, active, initial, cur>>
      BY <1>1 DEF Others, serverVars, loopVars
    <2>2. \A j \in subs : wk'[j].proc # "none"
      BY <1>0, <1>1, OthersKeep DEF Slots
    <2>3. QED BY <1>n, <2>1, <2>2 DEF Slots
  <1>2. CASE SpawnNext
    <2>1. PICK j \in Job : /\ wk[j] = Unborn /\ subs' = subs \cup {j}
                           /\ wk'[j] = [Unborn EXCEPT !.proc = "running"]
                           /\ \A k \in Job \ {j} : wk'[k] = wk[k]
      BY <1>2, Spawning
    <2>2. wk[j].proc = "none" /\ wk'[j].proc = "running"
      BY <2>1 DEF Unborn
    <2>3. j \notin subs BY <2>2 DEF Slots
    <2>4. IsFiniteSet(subs') /\ Cardinality(subs') = Cardinality(subs) + 1
      BY <1>0, <2>1, <2>3, FS_AddElement
    <2>5. \A k \in subs' : wk'[k].proc # "none"
      BY <1>0, <2>1, <2>2 DEF Slots
    <2>6. /\ rpc = "sched" /\ active' = IF initial THEN active + 1 ELSE active
          /\ initial' = (initial /\ active' < NbWorkers)
          /\ rpc' = IF initial' THEN "sched" ELSE "recv"
      BY <1>2 DEF SpawnNext, AtTest, MoreWorkers
    <2>7. CASE initial
      <3>1. active' = Cardinality(subs') /\ active' <= NbWorkers
        BY <1>0, <2>4, <2>6, <2>7 DEF Slots
      <3>2. CASE active' < NbWorkers
        BY <2>4, <2>5, <2>6, <2>7, <3>1, <3>2 DEF Slots
      <3>3. CASE ~(active' < NbWorkers)
        BY <2>4, <2>5, <2>6, <2>7, <3>1, <3>3 DEF Slots
      <3>4. QED BY <3>2, <3>3
    <2>8. CASE ~initial
      <3>1. active' = Cardinality(subs') /\ active' <= NbWorkers
            /\ initial' = FALSE /\ rpc' = "recv"
        BY <1>0, <2>4, <2>6, <2>8 DEF Slots
      <3>2. QED BY <2>4, <2>5, <3>1 DEF Slots
    <2>9. QED BY <2>7, <2>8
  <1>3. CASE Schedule /\ ~SpawnNext
    <2>1. UNCHANGED <<wk, subs>> /\ rpc = "sched"
          /\ (NoNext \/ UNCHANGED <<rpc, active, initial>>)
      BY <1>3, Turning
    <2>2. \A j \in subs : wk'[j].proc # "none" BY <2>1 DEF Slots
    <2>3. CASE UNCHANGED <<rpc, active, initial>>
      BY <1>n, <2>1, <2>2, <2>3 DEF Slots
    <2>4. CASE NoNext
      <3>1. /\ active' = IF initial THEN active ELSE active - 1
            /\ initial' = FALSE /\ rpc' = IF active' = 0 THEN "cleanup" ELSE "recv"
        BY <2>4 DEF NoNext
      <3>2. active' = Cardinality(subs)
        BY <1>0, <2>1, <3>1 DEF Slots
      <3>3. QED BY <1>n, <2>1, <2>2, <3>1, <3>2 DEF Slots
    <2>5. QED BY <2>1, <2>3, <2>4
  <1>4. CASE \E c \in Socket : Receive(c)
    <2>1. PICK c \in Socket : Receive(c) BY <1>4
    <2>2. UNCHANGED <<wk, subs, active, initial>> /\ rpc = "recv"
          /\ rpc' \in {"recv", "reap", "terminate"}
          /\ (rpc' \in {"reap", "terminate"} => cur' \in subs)
      BY <2>1, Received, Resumed
    <2>3. \A j \in subs : wk'[j].proc # "none" BY <2>2 DEF Slots
    <2>4. QED BY <1>n, <2>2, <2>3 DEF Slots
  <1>5. CASE Reap
    <2>1. /\ rpc = "reap" /\ subs' = subs \ {cur} /\ rpc' = "sched"
          /\ UNCHANGED <<wk, active, initial>> /\ cur \in subs
      BY <1>5 DEF Reap, workerVars, Slots
    <2>2. IsFiniteSet(subs') /\ Cardinality(subs') = Cardinality(subs) - 1
      BY <1>0, <2>1, FS_RemoveElement
    <2>3. ~initial /\ active = Cardinality(subs) BY <2>1 DEF Slots
    <2>4. active' = Cardinality(subs') + 1 /\ active' <= NbWorkers
          /\ Cardinality(subs') <= NbWorkers
      BY <1>0, <2>1, <2>2, <2>3
    <2>5. \A k \in subs' : wk'[k].proc # "none" BY <2>1 DEF Slots
    <2>6. QED BY <2>1, <2>2, <2>3, <2>4, <2>5 DEF Slots
  <1>6. CASE Terminate \/ CallbackAborts
    <2>1. UNCHANGED <<wk, subs>> /\ rpc' \in {"terminated", "aborted"}
      BY <1>6 DEF Terminate, CallbackAborts, workerVars, serverVars
    <2>2. \A j \in subs : wk'[j].proc # "none" BY <2>1 DEF Slots
    <2>3. QED BY <1>n, <2>1, <2>2 DEF Slots
  <1>7. CASE Cleanup
    <2>1. subs' = {} /\ rpc' = "done" BY <1>7 DEF Cleanup
    <2>2. IsFiniteSet(subs') /\ Cardinality(subs') = 0
      BY <2>1, FS_EmptySet
    <2>3. QED BY <1>0, <2>1, <2>2 DEF Slots
  <1>8. CASE UNCHANGED vars
    <2>1. \A j \in subs : wk'[j].proc # "none" BY <1>8 DEF Slots, vars
    <2>2. QED BY <1>n, <1>8, <2>1 DEF Slots, vars
  <1>9. QED
    BY <1>1, <1>2, <1>3, <1>4, <1>5, <1>6, <1>7, <1>8
    DEF Next, RunnerStep, Ended

LEMMA SlotsInit == Init => Slots
  <1> SUFFICES ASSUME Init PROVE Slots OBVIOUS
  <1>1. subs = {} /\ rpc = "sched" /\ initial = TRUE /\ active = 0 BY DEF Init
  <1>2. IsFiniteSet(subs) /\ Cardinality(subs) = 0 BY <1>1, FS_EmptySet
  <1>3. QED BY <1>1, <1>2, RunnerAssumption DEF Slots

(* active_workers and the contexts of the server agree at every turn of    *)
(* the loop, whatever the suites and the number of workers.                *)
THEOREM SlotsAlways == Spec => []Slots
  <1>1. IInv /\ Slots /\ [Next]_vars => Slots' BY SlotsKept
  <1>2. QED BY <1>1, SlotsInit, Invariance, PTL DEF Spec

(* Whatever the number of jobs asked for: the runner never has more        *)
(* workers than that, active_workers is the number of client contexts      *)
(* whenever it waits for a message, and it never waits with none left.     *)
THEOREM WorkersCounted == Spec => []ActiveWorkers
  <1>1. IInv /\ Slots => ActiveWorkers
    BY DEF IInv, LoopOK, Slots, ActiveWorkers
  <1>2. QED BY <1>1, Invariance, SlotsAlways, PTL

----------------------------------------------------------------------------
(* A worker that was reaped.                                               *)

LEMMA CleanupEmpty ==
    ASSUME IInv, Slots, Cleanup
    PROVE  subs = {} /\ subs' = {}
  <1>1. rpc = "cleanup" BY DEF Cleanup
  <1>2. Cardinality(subs) = 0 /\ IsFiniteSet(subs) BY <1>1 DEF Slots
  <1>3. QED BY <1>2, FS_EmptySet DEF Cleanup

\* What a step may do to a worker that was reaped, and which workers it reaps.
LEMMA ReapedKept ==
    ASSUME IInv, Slots, [Next]_vars, NEW k \in Job
    PROVE  /\ Reaped(k) => Reaped(k)' /\ ctx'[k] = ctx[k] /\ wk'[k] = wk[k]
           /\ Reaped(k)' => \/ Reaped(k)
                            \/ Reap /\ k = cur /\ ctx'[k] = ctx[k]
  <1>0. subs \subseteq Job /\ ctx \in [Job -> ClientCtx] /\ wk[k] \in WorkerRec
    BY DEF IInv, TypeOK, WorkerTypeOK
  <1>1. CASE Others
    <2>1. UNCHANGED <<subs, ctx>> BY <1>1 DEF Others, serverVars
    <2>2. wk'[k].proc = "waited" => wk[k].proc = "waited" \/ k \in subs
      BY <1>1, OthersKeep DEF Finished, IInv, CallbackOK
    <2>3. wk[k].proc = "waited" => wk'[k] = wk[k]
      <3>1. CASE UNCHANGED workerVars BY <3>1 DEF workerVars
      <3>2. CASE \E j \in Job : Moved(j)
        BY <3>2 DEF Moved, Elsewhere
      <3>3. CASE CallbackStep BY <3>3, CallbackMove
      <3>4. QED BY <1>1, <3>1, <3>2, <3>3, WorkerMove DEF Others
    <2>4. QED BY <2>1, <2>2, <2>3 DEF Reaped
  <1>2. CASE SpawnNext
    <2>1. PICK j \in Job : /\ wk[j] = Unborn /\ subs' = subs \cup {j}
                           /\ wk'[j] = [Unborn EXCEPT !.proc = "running"]
                           /\ \A i \in Job \ {j} : wk'[i] = wk[i] /\ ctx'[i] = ctx[i]
      BY <1>2, Spawning
    <2>2. wk[j].proc = "none" /\ wk'[j].proc = "running"
      BY <2>1 DEF Unborn
    <2>3. QED BY <2>1, <2>2 DEF Reaped
  <1>3. CASE Schedule /\ ~SpawnNext
    <2>1. UNCHANGED <<wk, subs, ctx>> BY <1>3, Turning
    <2>2. QED BY <2>1 DEF Reaped
  <1>4. CASE \E c \in Socket : Receive(c)
    <2>1. PICK c \in Socket : Receive(c) BY <1>4
    <2>2. UNCHANGED <<wk, subs>> /\ (k \notin subs => ctx'[k] = ctx[k])
      BY <2>1, Received, Resumed
    <2>3. QED BY <2>2 DEF Reaped
  <1>5. CASE Reap
    <2>1. UNCHANGED <<wk, ctx>> /\ subs' = subs \ {cur}
      BY <1>5 DEF Reap, workerVars
    <2>2. QED BY <1>5, <2>1 DEF Reaped
  <1>6. CASE Terminate \/ CallbackAborts
    BY <1>6 DEF Terminate, CallbackAborts, workerVars, serverVars, Reaped
  <1>7. CASE Cleanup
    <2>1. UNCHANGED <<wk, ctx>> BY <1>7 DEF Cleanup, workerVars
    <2>2. QED BY <1>7, <2>1, CleanupEmpty DEF Reaped
  <1>8. CASE UNCHANGED vars BY <1>8 DEF vars, Reaped
  <1>9. QED
    BY <1>1, <1>2, <1>3, <1>4, <1>5, <1>6, <1>7, <1>8
    DEF Next, RunnerStep, Ended

(* Whatever comes late - a phase message left in the socket of a killed    *)
(* worker, a time limit that was already due - the statistics of a test    *)
(* whose worker was reaped never change again.                             *)
THEOREM VerdictsFinal == Spec => VerdictFinal
  <1>1. IInv /\ Slots /\ [Next]_vars
          => [\A j \in Job : Reaped(j) => ctx'[j] = ctx[j]]_vars
    BY ReapedKept
  <1>2. QED BY <1>1, Invariance, SlotsAlways, PTL DEF Spec, VerdictFinal

----------------------------------------------------------------------------
(* --fail-fast.                                                            *)

LEMMA SparedKept ==
    ASSUME IInv, Slots, Spared, [Next]_vars
    PROVE  Spared'
  <1>1. ASSUME FailFast, NEW k \in Job, Reaped(k)'
        PROVE  ctx'[k].t.test_status # FAILED
    <2>1. CASE Reaped(k) BY <1>1, <2>1, ReapedKept DEF Spared
    <2>2. CASE Reap /\ k = cur /\ ctx'[k] = ctx[k]
      BY <1>1, <2>2 DEF Spared, Reap
    <2>3. QED BY <1>1, <2>1, <2>2, ReapedKept
  <1>2. /\ FailFast /\ rpc' = "reap" => ctx'[cur'].t.test_status # FAILED
        /\ rpc' = "terminate" => ctx'[cur'].t.test_status = FAILED
    <2>1. CASE \E c \in Socket : Receive(c) BY <2>1, Resumed
    <2>2. CASE Others \/ UNCHANGED vars
      BY <2>2 DEF Others, serverVars, loopVars, vars, Spared
    <2>3. CASE Schedule BY <2>3, Turning DEF SpawnNext, NoNext
    <2>4. CASE Reap \/ Terminate \/ CallbackAborts \/ Cleanup
      BY <2>4 DEF Reap, Terminate, CallbackAborts, Cleanup
    <2>5. QED BY <2>1, <2>2, <2>3, <2>4 DEF Next, RunnerStep, Ended
  <1>3. QED BY <1>1, <1>2 DEF Spared

(* What run_tests_async tests after each reap: with --fail-fast no test    *)
(* that failed is ever reaped.                                             *)
THEOREM SparedAlways == Spec => []Spared
  <1>1. Init => Spared
    BY UnbornType DEF Init, WorkerInit, Spared, Reaped, Unborn
  <1>2. IInv /\ Slots /\ Spared /\ [Next]_vars => Spared' BY SparedKept
  <1>3. QED BY <1>1, <1>2, Invariance, SlotsAlways, PTL DEF Spec

(* With --fail-fast no worker is spawned after one that failed was reaped: *)
(* the runner kills its process group before it asks for another test.     *)
THEOREM FailFastStops == Spec => NoSpawnAfterFailure
  <1>1. Spared /\ [Next]_vars
          => [FailFast /\ SpawnNext =>
                \A j \in Job : Reaped(j) => ctx[j].t.test_status # FAILED]_vars
    BY DEF Spared
  <1>2. QED BY <1>1, SparedAlways, PTL DEF Spec, NoSpawnAfterFailure

----------------------------------------------------------------------------
(* The coroutine passes every test.                                        *)

\* The jobs a step of the coroutine leaves behind.
LEMMA Behind ==
    ASSUME IInv, Schedule, NEW k \in Job, Ahead(k), ~Ahead(k)',
           ~Test(k).disabled
    PROVE  SpawnNext /\ k = <<pos.suite, pos.test, pos.param + 1>>
  <1>0. /\ pos \in [suite : Nat, test : Nat, param : Nat] /\ pos.suite > 0
        /\ k[1] \in Nat /\ k[2] \in Nat /\ k[3] \in Nat
        /\ k[2] \in DOMAIN Suites[k[1]].tests /\ k[1] \in DOMAIN Suites
        /\ k[2] > 0 /\ k[3] > 0 /\ k[2] <= Len(Suites[k[1]].tests)
        /\ Test(k).runs \in Nat /\ k[3] <= Test(k).runs
        /\ k = <<k[1], k[2], k[3]>>
    <2>1. Suites[k[1]].tests \in Seq(TestRec) BY JobFacts DEF SuiteRec
    <2>2. pos \in [suite : Nat, test : Nat, param : Nat] /\ pos.suite > 0
      BY DEF IInv, TypeOK, LoopOK
    <2>3. Test(k).runs \in Nat BY JobFacts DEF TestRec
    <2>4. k[3] \in 1 .. Test(k).runs BY JobFacts
    <2>5. k[2] \in 1 .. Len(Suites[k[1]].tests) BY <2>1, JobFacts
    <2>6. QED BY <2>1, <2>2, <2>3, <2>4, <2>5, JobFacts
  <1>1. CASE SkipSuite
    <2>1. NextSuite /\ Suites[pos.suite].tests = <<>> /\ pos.test = 0
      BY <1>1 DEF SkipSuite, AtSuite, tests
    <2>2. pos'.suite = pos.suite + 1 /\ pos'.test = 0 /\ pos'.param = 0
      BY <2>1 DEF NextSuite
    <2>3. k[1] # pos.suite BY <1>0, <2>1
    <2>4. QED BY <1>0, <2>2, <2>3 DEF Ahead
  <1>2. CASE EnterSuite
    <2>1. NextTest /\ pos.test = 0 BY <1>2 DEF EnterSuite, AtSuite
    <2>2. pos'.suite = pos.suite /\ pos'.test = 1 /\ pos'.param = 0
      BY <1>0, <2>1 DEF NextTest
    <2>3. QED BY <1>0, <2>2 DEF Ahead
  <1>3. CASE SkipDisabled \/ EndTest
    <2>1. /\ NextTest
          /\ \/ Suites[pos.suite].tests[pos.test].disabled
             \/ pos.param >= Suites[pos.suite].tests[pos.test].runs
      BY <1>3 DEF SkipDisabled, EndTest, test, tests
    <2>2. /\ pos'.suite = pos.suite /\ pos'.test = pos.test + 1
          /\ pos'.param = 0
      BY <1>0, <2>1 DEF NextTest
    <2>3. k[1] = pos.suite /\ k[2] = pos.test /\ k[3] > pos.param
      BY <1>0, <2>2 DEF Ahead
    <2>4. Test(k) = Suites[pos.suite].tests[pos.test] BY <2>3 DEF Test
    <2>5. pos.param >= Test(k).runs BY <2>1, <2>4
    <2>6. QED BY <1>0, <2>3, <2>5
  <1>4. CASE SpawnNext
    <2>1. /\ pos'.suite = pos.suite /\ pos'.test = pos.test
          /\ pos'.param = pos.param + 1
      BY <1>0, <1>4 DEF SpawnNext
    <2>2. k[1] = pos.suite /\ k[2] = pos.test /\ k[3] = pos.param + 1
      BY <1>0, <2>1 DEF Ahead
    <2>3. QED BY <1>0, <1>4, <2>2
  <1>5. CASE LeaveSuite
    <2>1. NextSuite /\ pos.test > Len(Suites[pos.suite].tests)
      BY <1>5 DEF LeaveSuite, tests
    <2>2. pos'.suite = pos.suite + 1 /\ pos'.test = 0 /\ pos'.param = 0
      BY <2>1 DEF NextSuite
    <2>3. k[1] = pos.suite /\ k[2] >= pos.test
      BY <1>0, <2>2 DEF Ahead
    <2>4. k[2] <= Len(Suites[pos.suite].tests) BY <1>0, <2>3
    <2>5. Len(Suites[pos.suite].tests) \in Nat
      BY <1>0, <2>3, JobFacts DEF SuiteRec
    <2>6. QED BY <1>0, <2>1, <2>3, <2>4, <2>5
  <1>6. CASE NoNext
    BY <1>6 DEF NoNext, Ahead
  <1>7. QED BY <1>1, <1>2, <1>3, <1>4, <1>5, <1>6 DEF Schedule

LEMMA WalkedKept ==
    ASSUME IInv, Slots, Walked, [Next]_vars
    PROVE  Walked'
  <1>t. \A k \in Job : Test(k)' = Test(k) BY DEF Test
  <1>p. ASSUME UNCHANGED pos,
               \A k \in Job : wk[k].proc = "none" <=> wk'[k].proc = "none",
               rpc' \in {"cleanup", "done"}
                  => rpc \in {"cleanup", "done"} \/ pos.suite > Len(Suites)
        PROVE  Walked'
    <2>1. \A k \in Job : Ahead(k)' <=> Ahead(k) BY <1>p DEF Ahead
    <2>2. QED BY <1>p, <1>t, <2>1 DEF Walked
  <1>1. CASE Others
    <2>1. UNCHANGED <<pos, rpc>> BY <1>1 DEF Others, loopVars
    <2>2. QED BY <1>1, <1>p, <2>1, OthersKeep
  <1>2. CASE SpawnNext
    <2>1. PICK j \in Job : /\ j = <<pos.suite, pos.test, pos.param + 1>>
                           /\ ~Test(j).disabled
                           /\ wk'[j] = [Unborn EXCEPT !.proc = "running"]
                           /\ \A k \in Job \ {j} : wk'[k] = wk[k]
      BY <1>2, Spawning
    <2>2. wk'[j].proc = "running" BY <2>1 DEF Unborn
    <2>3. \A k \in Job : Ahead(k) /\ ~Ahead(k)' /\ ~Test(k).disabled => k = j
      BY <1>2, <2>1, Behind DEF Schedule
    <2>4. rpc' \in {"sched", "recv"} BY <1>2 DEF SpawnNext
    <2>5. QED BY <1>t, <2>1, <2>2, <2>3, <2>4 DEF Walked
  <1>3. CASE Schedule /\ ~SpawnNext
    <2>1. UNCHANGED wk /\ rpc = "sched"
          /\ (NoNext \/ UNCHANGED <<rpc, active, initial>>)
      BY <1>3, Turning
    <2>2. \A k \in Job : Ahead(k) /\ ~Ahead(k)' => Test(k).disabled
      BY <1>3, Behind
    <2>3. rpc' \in {"cleanup", "done"} => pos'.suite > Len(Suites)
      BY <2>1 DEF NoNext
    <2>4. QED BY <1>t, <2>1, <2>2, <2>3 DEF Walked
  <1>4. CASE \E c \in Socket : Receive(c)
    <2>1. PICK c \in Socket : Receive(c) BY <1>4
    <2>2. UNCHANGED <<wk, pos>> /\ rpc' \notin {"cleanup", "done"}
      BY <2>1, Received, Resumed
    <2>3. QED BY <1>p, <2>2
  <1>5. CASE Reap \/ Terminate \/ CallbackAborts \/ Cleanup
    <2>1. /\ UNCHANGED <<wk, pos>>
          /\ rpc' \in {"cleanup", "done"} => rpc \in {"cleanup", "done"}
      BY <1>5 DEF Reap, Terminate, CallbackAborts, Cleanup, workerVars
    <2>2. QED BY <1>p, <2>1
  <1>6. CASE UNCHANGED vars
    BY <1>6, <1>p DEF vars
  <1>7. QED
    BY <1>1, <1>2, <1>3, <1>4, <1>5, <1>6 DEF Next, RunnerStep, Ended

(* At any time the tests behind the coroutine were spawned, but for the    *)
(* disabled ones.                                                          *)
THEOREM WalkedAlways == Spec => []Walked
  <1>1. Init => Walked
    <2> SUFFICES ASSUME Init PROVE Walked OBVIOUS
    <2>1. \A k \in Job : wk[k].proc = "none" BY DEF Init, WorkerInit, Unborn
    <2>2. pos.suite = 1 /\ pos.test = 0 /\ pos.param = 0 /\ rpc = "sched"
      BY DEF Init
    <2>3. ASSUME NEW k \in Job PROVE Ahead(k)
      <3>1. k[1] \in Nat /\ k[1] > 0 /\ k[2] \in Nat /\ k[2] > 0
        <4>1. Suites[k[1]].tests \in Seq(TestRec) BY JobFacts DEF SuiteRec
        <4>2. QED BY <4>1, JobFacts
      <3>2. QED BY <2>2, <3>1 DEF Ahead
    <2>4. QED BY <2>1, <2>2, <2>3 DEF Walked
  <1>2. IInv /\ Slots /\ Walked /\ [Next]_vars => Walked' BY WalkedKept
  <1>3. QED BY <1>1, <1>2, Invariance, SlotsAlways, PTL DEF Spec

(* Whatever the suites, the number of parameters and of workers: a run     *)
(* that ends by itself has spawned and reaped a worker for every parameter *)
(* of every test that is not disabled, and counted every one that is.      *)
THEOREM RunsComplete == Spec => []Complete
  <1>1. IInv /\ Slots /\ Walked => Complete
    <2> SUFFICES ASSUME IInv, Slots, Walked, rpc = "done" PROVE Complete
      BY DEF Complete
    <2>1. subs = {} /\ pos.suite > Len(Suites) /\ pos.suite \in Nat
      BY DEF Slots, Walked, IInv, TypeOK
    <2>2. ASSUME NEW j \in Job PROVE Reaped(j) <=> ~Test(j).disabled
      <3>1. CASE Test(j).disabled BY <3>1 DEF Walked, Reaped
      <3>2. CASE ~Test(j).disabled
        <4>1. j[1] \in Nat /\ j[1] <= Len(Suites) /\ Len(Suites) \in Nat
          BY JobFacts, SuitesAssumption
        <4>2. ~Ahead(j) BY <2>1, <4>1 DEF Ahead
        <4>3. wk[j].proc # "none" BY <3>2, <4>2 DEF Walked
        <4>4. wk[j].proc \notin {"running", "dead"}
          BY <2>1 DEF IInv, Coupled, Registered
        <4>5. wk[j].proc \in Process
          BY DEF IInv, TypeOK, WorkerTypeOK, WorkerRec
        <4>6. QED BY <2>1, <3>2, <4>3, <4>4, <4>5 DEF Reaped, Process
      <3>3. QED BY <3>1, <3>2
    <2>3. ASSUME NEW s \in DOMAIN Suites PROVE SkippedSoFar(s) = DisabledIn(s)
      <3>1. s \in Nat /\ s <= Len(Suites) /\ Len(Suites) \in Nat
        BY SuitesAssumption
      <3>2. s < pos.suite BY <2>1, <3>1
      <3>3. QED BY <3>2 DEF SkippedSoFar
    <2>4. QED BY <2>2, <2>3 DEF Complete
  <1>2. QED BY <1>1, Invariance, SlotsAlways, WalkedAlways, PTL

----------------------------------------------------------------------------
(* What the pushes of module Client do to the parts of a view.             *)

\* w is v with the event e reported, the counters K moved and statistics t.
Pushed(v, w, e, K, t) ==
    /\ w \in View /\ w.state = v.state /\ w.alive = v.alive
    /\ w.ev = Append(v.ev, e) /\ w.t = t
    /\ w.ss = Count(v.ss, K, 1) /\ w.g = Count(v.g, K, 1)

LEMMA PushedBy ==
    ASSUME NEW v \in View, NEW e \in EventKind, NEW K, NEW t \in TestStats
    PROVE  Pushed(v, Report([Tally(v, K) EXCEPT !.t = t], e), e, K, t)
  <1> DEFINE a == Count(v.ss, K, 1)
             b == Count(v.g, K, 1)
             ev == Append(v.ev, e)
             w == [v EXCEPT !.ss = a, !.g = b, !.t = t, !.ev = ev]
  <1>1. /\ a \in [SuiteCounter -> Nat] /\ b \in [GlobalCounter -> Nat]
        /\ ev \in Seq(EventKind)
    BY CountType DEF View
  <1>2. Report([Tally(v, K) EXCEPT !.t = t], e) = w
    BY DEF Report, Tally, View
  <1> HIDE DEF a, b, ev
  <1>3. /\ w \in View /\ w.state = v.state /\ w.alive = v.alive
        /\ w.ev = ev /\ w.t = t /\ w.ss = a /\ w.g = b
    BY <1>1 DEF View
  <1> HIDE DEF w
  <1>4. QED BY <1>2, <1>3 DEF Pushed, a, b, ev

LEMMA Pushes ==
    ASSUME NEW v \in View, NEW x
    PROVE  /\ Pushed(v, push_pre_init(v), "PRE_INIT", PreInitCounts(v.t), v.t)
           /\ Pushed(v, push_post_test(v, x), "POST_TEST",
                     PostTestCounts(v.t, x), PostTestStats(v.t, x))
           /\ \A e \in EventKind : Pushed(v, Report(v, e), e, {}, v.t)
           /\ Pushed(v, push_post_fini(v), "POST_FINI", {}, v.t)
           /\ Pushed(v, push_test_crash(v, TRUE), "TEST_CRASH", CrashCounts,
                     CrashStats(v.t))
           /\ Pushed(v, push_test_crash(v, FALSE), "SILENT_CRASH", CrashCounts,
                     CrashStats(v.t))
  <1>0. v.t \in TestStats /\ v.ss \in [SuiteCounter -> Nat]
        /\ v.g \in [GlobalCounter -> Nat]
    BY DEF View
  <1>1. \A K : Tally(v, K) \in View /\ Tally(v, K).t = v.t BY TallyType
  <1>2. Pushed(v, push_pre_init(v), "PRE_INIT", PreInitCounts(v.t), v.t)
    <2> DEFINE K == PreInitCounts(v.t)
    <2>1. [Tally(v, K) EXCEPT !.t = v.t] = Tally(v, K) BY <1>1 DEF View
    <2>2. push_pre_init(v) = Report([Tally(v, K) EXCEPT !.t = v.t], "PRE_INIT")
      BY <2>1 DEF push_pre_init
    <2>3. QED BY <1>0, <2>2, PushedBy DEF EventKind
  <1>3. Pushed(v, push_post_test(v, x), "POST_TEST", PostTestCounts(v.t, x),
               PostTestStats(v.t, x))
    <2> DEFINE K == PostTestCounts(v.t, x)
    <2>1. push_post_test(v, x)
            = Report([Tally(v, K) EXCEPT !.t = PostTestStats(v.t, x)], "POST_TEST")
      BY <1>1 DEF push_post_test
    <2>2. PostTestStats(v.t, x) \in TestStats BY <1>0, StatsType
    <2>3. QED BY <2>1, <2>2, PushedBy DEF EventKind
  <1>4. ASSUME NEW e \in EventKind PROVE Pushed(v, Report(v, e), e, {}, v.t)
    <2>1. Count(v.ss, {}, 1) = v.ss /\ Count(v.g, {}, 1) = v.g
      BY <1>0 DEF Count
    <2>2. Tally(v, {}) = v BY <2>1 DEF Tally, View
    <2>3. [Tally(v, {}) EXCEPT !.t = v.t] = v BY <2>2 DEF View
    <2>4. QED BY <1>0, <2>3, PushedBy
  <1>5. Pushed(v, push_post_fini(v), "POST_FINI", {}, v.t)
    BY <1>4 DEF push_post_fini, EventKind
  <1>6. \A e \in EventKind :
           Pushed(v, Report([Tally(v, CrashCounts) EXCEPT
                               !.t = CrashStats(v.t)], e),
                  e, CrashCounts, CrashStats(v.t))
    BY <1>0, StatsType, PushedBy
  <1>7. \A e \in EventKind :
           Report([Tally(v, CrashCounts) EXCEPT !.t = CrashStats(@)], e)
           = Report([Tally(v, CrashCounts) EXCEPT !.t = CrashStats(v.t)], e)
    BY <1>1
  <1>8. /\ push_test_crash(v, TRUE)
             = Report([Tally(v, CrashCounts) EXCEPT !.t = CrashStats(@)],
                      "TEST_CRASH")
        /\ push_test_crash(v, FALSE)
             = Report([Tally(v, CrashCounts) EXCEPT !.t = CrashStats(@)],
                      "SILENT_CRASH")
    BY DEF push_test_crash
  <1>9. QED
    BY <1>2, <1>3, <1>4, <1>5, <1>6, <1>7, <1>8 DEF EventKind

----------------------------------------------------------------------------
(* The list of the events of a test.                                       *)

\* The event e may come next after the event a.
Follows(a, e, twice) == \/ Rank(a) < Rank(e)
                        \/ a = e /\ e = "THEORY_FAIL"
                        \/ a = e /\ e = "POST_TEST" /\ twice

LEMMA RankType == \A e \in EventKind : Rank(e) \in Nat
  BY DEF EventKind, Rank

LEMMA GivenType ==
    ASSUME NEW ev \in Seq(EventKind)
    PROVE  IsFiniteSet(VerdictsAt(ev)) /\ Given(ev) \in Nat
  <1>1. DOMAIN ev = 1 .. Len(ev) /\ Len(ev) \in Nat OBVIOUS
  <1>2. IsFiniteSet(DOMAIN ev) BY <1>1, FS_Interval
  <1>3. IsFiniteSet(VerdictsAt(ev)) BY <1>2, FS_Subset DEF VerdictsAt
  <1>4. QED BY <1>3, FS_CardinalityType DEF Given

LEMMA GivenNothing == Given(<<>>) = 0
  <1>1. VerdictsAt(<<>>) = {} BY DEF VerdictsAt
  <1>2. QED BY <1>1, FS_EmptySet DEF Given

\* A verdict more stands at the end of the list.
LEMMA VerdictsAppended ==
    ASSUME NEW ev \in Seq(EventKind), NEW e \in EventKind
    PROVE  /\ Len(ev) + 1 \notin VerdictsAt(ev)
           /\ VerdictsAt(Append(ev, e))
                = VerdictsAt(ev) \cup (IF e \in VerdictEvent THEN {Len(ev) + 1}
                                      ELSE {})
  <1> DEFINE w == Append(ev, e)
             l == Len(ev)
  <1>1. /\ w[l + 1] = e /\ (\A n \in 1 .. l : w[n] = ev[n]) /\ l \in Nat
        /\ DOMAIN w = 1 .. (l + 1) /\ DOMAIN ev = 1 .. l
    OBVIOUS
  <1> HIDE DEF w
  <1>2. \A n : n \in 1 .. (l + 1) <=> n \in 1 .. l \/ n = l + 1 BY <1>1
  <1>3. \A n \in 1 .. l : n \in VerdictsAt(w) <=> n \in VerdictsAt(ev)
    BY <1>1, <1>2 DEF VerdictsAt
  <1>4. l + 1 \in VerdictsAt(w) <=> e \in VerdictEvent
    BY <1>1, <1>2 DEF VerdictsAt
  <1>5. VerdictsAt(w) \subseteq 1 .. (l + 1) /\ VerdictsAt(ev) \subseteq 1 .. l
    BY <1>1 DEF VerdictsAt
  <1>6. l + 1 \notin VerdictsAt(ev) BY <1>1, <1>5
  <1>7. VerdictsAt(w) = VerdictsAt(ev) \cup (IF e \in VerdictEvent THEN {l + 1}
                                            ELSE {})
    BY <1>2, <1>3, <1>4, <1>5
  <1>8. QED BY <1>6, <1>7 DEF w

LEMMA Appended ==
    ASSUME NEW ev \in Seq(EventKind), NEW e \in EventKind
    PROVE  /\ Append(ev, e) \in Seq(EventKind) /\ Append(ev, e) # <<>>
           /\ Last(Append(ev, e)) = e
           /\ Given(Append(ev, e))
                = Given(ev) + (IF e \in VerdictEvent THEN 1 ELSE 0)
           /\ \A twice \in BOOLEAN :
                 Ordered(ev, twice) /\ (ev # <<>> => Follows(Last(ev), e, twice))
                    => Ordered(Append(ev, e), twice)
           /\ Opens(ev)
              /\ (ev = <<>> => e \in {"PRE_INIT", "SILENT_CRASH", "POST_TEST"})
                 => Opens(Append(ev, e))
  <1> DEFINE w == Append(ev, e)
             l == Len(ev)
  <1>1. /\ w \in Seq(EventKind) /\ Len(w) = l + 1 /\ w # <<>> /\ l \in Nat
        /\ w[l + 1] = e /\ \A n \in 1 .. l : w[n] = ev[n]
        /\ DOMAIN w = 1 .. (l + 1) /\ DOMAIN ev = 1 .. l
    OBVIOUS
  <1>2. Last(w) = e BY <1>1 DEF Last
  <1> HIDE DEF w
  <1>3. Given(w) = Given(ev) + (IF e \in VerdictEvent THEN 1 ELSE 0)
    <2>1. IsFiniteSet(VerdictsAt(ev)) /\ Given(ev) = Cardinality(VerdictsAt(ev))
          /\ Given(w) = Cardinality(VerdictsAt(w)) /\ Given(ev) \in Nat
      BY GivenType DEF Given
    <2>2. CASE e \in VerdictEvent
      <3>1. VerdictsAt(w) = VerdictsAt(ev) \cup {l + 1} /\ l + 1 \notin VerdictsAt(ev)
        BY <2>2, VerdictsAppended DEF w
      <3>2. QED BY ZenonT(60), <2>1, <2>2, <3>1, FS_AddElement
    <2>3. CASE e \notin VerdictEvent
      <3>1. VerdictsAt(w) = VerdictsAt(ev) BY <2>3, VerdictsAppended DEF w
      <3>2. QED BY <2>1, <2>3, <3>1
    <2>4. QED BY <2>2, <2>3
  <1>4. ASSUME NEW twice \in BOOLEAN, Ordered(ev, twice),
               ev # <<>> => Follows(Last(ev), e, twice)
        PROVE  Ordered(w, twice)
    <2> SUFFICES ASSUME NEW m \in DOMAIN w, NEW n \in DOMAIN w, m < n
                 PROVE  \/ Rank(w[m]) < Rank(w[n])
                        \/ w[m] = w[n] /\ w[m] = "THEORY_FAIL"
                        \/ w[m] = w[n] /\ w[m] = "POST_TEST" /\ twice
      BY DEF Ordered
    <2>1. CASE n \in 1 .. l
      <3>1. m \in 1 .. l /\ w[m] = ev[m] /\ w[n] = ev[n] BY <1>1, <2>1
      <3>2. QED BY <1>1, <1>4, <2>1, <3>1 DEF Ordered
    <2>2. CASE n = l + 1
      <3>1. m \in 1 .. l /\ w[m] = ev[m] /\ w[n] = e /\ l > 0 BY <1>1, <2>2
      <3>2. Last(ev) = ev[l] /\ ev # <<>> /\ l \in DOMAIN ev
        BY <3>1, <1>1 DEF Last
      <3>3. Follows(ev[l], e, twice) BY <1>4, <3>2
      <3>4. Rank(ev[m]) \in Nat /\ Rank(ev[l]) \in Nat /\ Rank(e) \in Nat
        BY <1>1, <3>1, <3>2, RankType
      <3>5. CASE m = l BY <3>1, <3>3, <3>5 DEF Follows
      <3>6. CASE m < l
        <4>1. \/ Rank(ev[m]) < Rank(ev[l])
              \/ ev[m] = ev[l] /\ ev[m] = "THEORY_FAIL"
              \/ ev[m] = ev[l] /\ ev[m] = "POST_TEST" /\ twice
          BY <1>1, <1>4, <3>1, <3>2, <3>6 DEF Ordered
        <4>2. QED BY <3>1, <3>3, <3>4, <4>1 DEF Follows
      <3>7. QED BY <1>1, <3>1, <3>5, <3>6
    <2>3. QED BY <1>1, <2>1, <2>2
  <1>5. ASSUME Opens(ev),
               ev = <<>> => e \in {"PRE_INIT", "SILENT_CRASH", "POST_TEST"}
        PROVE  Opens(w)
    <2>1. CASE ev = <<>> BY <1>1, <1>5, <2>1 DEF Opens
    <2>2. CASE ev # <<>>
      <3>1. w[1] = ev[1] BY <1>1, <2>2
      <3>2. QED BY <1>5, <2>2, <3>1 DEF Opens
    <2>3. QED BY <2>1, <2>2
  <1>6. QED BY <1>1, <1>2, <1>3, <1>4, <1>5 DEF w

\* The events of a test that is not over, in the state s of its client.
Sound(s, ev, twice) == /\ Ordered(ev, twice) /\ Opens(ev)
                       /\ ~twice => Given(ev) <= 1
                       /\ Fits(s, ev)

LEMMA SoundFacts ==
    ASSUME NEW ev \in Seq(EventKind), NEW s, NEW twice, Sound(s, ev, twice)
    PROVE  /\ s = 0 => /\ Given(ev) = 0
                       /\ \/ ev = <<>>
                          \/ ev # <<>> /\ Last(ev) = "PRE_INIT"
           /\ s \in {1, 4, 5, 6} => /\ Given(ev) = 0 /\ ev # <<>>
                                    /\ Last(ev) \in {"PRE_TEST", "THEORY_FAIL"}
           /\ s = 2 => Given(ev) = 1 /\ ev # <<>> /\ Last(ev) = "POST_TEST"
           /\ s = 3 => Given(ev) \in {1, 2} /\ ev # <<>> /\ Last(ev) = "POST_FINI"
  <1>1. <<>> \in Seq(EventKind) /\ "PRE_INIT" \in EventKind
        /\ Append(<<>>, "PRE_INIT") = <<"PRE_INIT">>
    BY DEF EventKind
  <1>2. ASSUME ev = Append(<<>>, "PRE_INIT")
        PROVE  Given(ev) = 0 /\ Last(ev) = "PRE_INIT" /\ ev # <<>>
    <2> DEFINE o == <<>>
    <2>1. o \in Seq(EventKind) /\ Given(o) = 0 /\ ev = Append(o, "PRE_INIT")
      BY <1>1, <1>2, GivenNothing
    <2>2. "PRE_INIT" \notin VerdictEvent BY DEF VerdictEvent
    <2> HIDE DEF o
    <2>3. /\ Last(ev) = "PRE_INIT" /\ ev # <<>>
          /\ Given(ev) = Given(o) + (IF "PRE_INIT" \in VerdictEvent THEN 1 ELSE 0)
      BY <1>1, <2>1, Appended
    <2>4. QED BY <2>1, <2>2, <2>3
  <1>3. Fits(s, ev) BY DEF Sound
  <1>4. CASE s = 0
    <2>1. ev = <<>> \/ ev = <<"PRE_INIT">> BY <1>3, <1>4 DEF Fits
    <2>2. s \notin {1, 4, 5, 6} /\ s # 2 /\ s # 3 BY <1>4
    <2>3. CASE ev = <<>>
      <3>1. Given(ev) = 0 BY <2>3, GivenNothing
      <3>2. QED BY <2>2, <2>3, <3>1
    <2>4. CASE ev = <<"PRE_INIT">>
      <3>1. Given(ev) = 0 /\ ev # <<>> /\ Last(ev) = "PRE_INIT"
        BY <1>1, <1>2, <2>4
      <3>2. QED BY <2>2, <3>1
    <2>5. QED BY <2>1, <2>3, <2>4
  <1>5. CASE s # 0
    BY <1>3, <1>5 DEF Fits
  <1>6. QED BY <1>4, <1>5

LEMMA NextEvents ==
    ASSUME NEW ev \in Seq(EventKind), NEW s, NEW twice \in BOOLEAN,
           Sound(s, ev, twice)
    PROVE  /\ s = 0 /\ ev = <<>> => Sound(0, Append(ev, "PRE_INIT"), twice)
           /\ s = 0 /\ ev # <<>> => Sound(1, Append(ev, "PRE_TEST"), twice)
           /\ s = 1 => Sound(2, Append(ev, "POST_TEST"), twice)
           /\ s = 2 => Sound(3, Append(ev, "POST_FINI"), twice)
           /\ s \in {4, 5, 6} => Sound(1, Append(ev, "THEORY_FAIL"), twice)
           /\ s \in {1, 4, 5, 6} => \A n \in {1, 4, 5, 6} : Sound(n, ev, twice)
  <1>0. /\ Given(ev) \in Nat /\ Ordered(ev, twice) /\ Opens(ev)
        /\ ~twice => Given(ev) <= 1
    BY GivenType DEF Sound
  <1>1. ASSUME s = 0, ev = <<>>
        PROVE  Sound(0, Append(ev, "PRE_INIT"), twice)
    <2> DEFINE w == Append(ev, "PRE_INIT")
    <2>0. /\ Given(ev) = 0 /\ "PRE_INIT" \in EventKind
          /\ "PRE_INIT" \notin VerdictEvent
      BY <1>1, GivenNothing DEF EventKind, VerdictEvent
    <2>1. /\ Ordered(w, twice) /\ Opens(w)
          /\ Given(w) = Given(ev) + (IF "PRE_INIT" \in VerdictEvent THEN 1 ELSE 0)
      BY <1>0, <1>1, <2>0, Appended
    <2>2. w = <<"PRE_INIT">> BY <1>1
    <2>3. w \in {<<>>, <<"PRE_INIT">>} BY <2>2
    <2> HIDE DEF w
    <2>4. Fits(0, w) BY <2>3 DEF Fits
    <2>5. Given(w) = 0 BY <2>0, <2>1
    <2>6. QED BY <2>1, <2>4, <2>5 DEF Sound, w
  <1>2. ASSUME NEW n \in {1, 2, 3}, NEW e \in EventKind,
               ev # <<>>, Follows(Last(ev), e, twice),
               n = 1 => e \in {"PRE_TEST", "THEORY_FAIL"} /\ Given(ev) = 0,
               n = 2 => e = "POST_TEST" /\ Given(ev) = 0,
               n = 3 => e = "POST_FINI" /\ Given(ev) = 1
        PROVE  Sound(n, Append(ev, e), twice)
    <2> DEFINE w == Append(ev, e)
    <2>1. /\ w # <<>> /\ Last(w) = e /\ Ordered(w, twice) /\ Opens(w)
          /\ Given(w) = Given(ev) + (IF e \in VerdictEvent THEN 1 ELSE 0)
      BY <1>0, <1>2, Appended
    <2> HIDE DEF w
    <2>2. n \in {2, 3} => Given(w) = 1
      BY <1>0, <1>2, <2>1 DEF VerdictEvent
    <2>3. n = 1 => Given(w) = 0 BY <1>0, <1>2, <2>1 DEF VerdictEvent
    <2>4. QED BY <1>2, <2>1, <2>2, <2>3 DEF Sound, Fits, w
  <1>3. ASSUME s = 0, ev # <<>> PROVE Sound(1, Append(ev, "PRE_TEST"), twice)
    <2>1. Follows(Last(ev), "PRE_TEST", twice) /\ Given(ev) = 0
      BY <1>3, SoundFacts DEF Follows, Rank
    <2>2. QED BY <1>2, <1>3, <2>1 DEF EventKind
  <1>4. ASSUME s = 1 PROVE Sound(2, Append(ev, "POST_TEST"), twice)
    <2>1. Follows(Last(ev), "POST_TEST", twice) /\ Given(ev) = 0 /\ ev # <<>>
      BY <1>4, SoundFacts DEF Follows, Rank
    <2>2. QED BY <1>2, <2>1 DEF EventKind
  <1>5. ASSUME s = 2 PROVE Sound(3, Append(ev, "POST_FINI"), twice)
    <2>1. Follows(Last(ev), "POST_FINI", twice) /\ Given(ev) = 1 /\ ev # <<>>
      BY <1>5, SoundFacts DEF Follows, Rank
    <2>2. QED BY <1>2, <2>1 DEF EventKind
  <1>6. ASSUME s \in {4, 5, 6} PROVE Sound(1, Append(ev, "THEORY_FAIL"), twice)
    <2>1. Follows(Last(ev), "THEORY_FAIL", twice) /\ Given(ev) = 0 /\ ev # <<>>
      BY <1>6, SoundFacts DEF Follows, Rank
    <2>2. QED BY <1>2, <2>1 DEF EventKind
  <1>7. ASSUME s \in {1, 4, 5, 6}, NEW n \in {1, 4, 5, 6} PROVE Sound(n, ev, twice)
    BY <1>7 DEF Sound, Fits
  <1>8. QED BY <1>1, <1>3, <1>4, <1>5, <1>6, <1>7

\* POST_TEST and POST_FINI together.
LEMMA EndEvents ==
    ASSUME NEW ev \in Seq(EventKind), NEW s \in {0, 1, 2, 5},
           NEW twice \in BOOLEAN, Sound(s, ev, twice), s = 2 => twice
    PROVE  LET w == Append(Append(ev, "POST_TEST"), "POST_FINI")
           IN  Sound(3, w, twice) /\ (s # 2 => Given(w) = 1)
  <1> DEFINE a == Append(ev, "POST_TEST")
             w == Append(a, "POST_FINI")
  <1>0. /\ Given(ev) \in Nat /\ Ordered(ev, twice) /\ Opens(ev)
        /\ "POST_TEST" \in EventKind /\ "POST_FINI" \in EventKind
    BY GivenType DEF Sound, EventKind
  <1>1. ev # <<>> => Follows(Last(ev), "POST_TEST", twice)
    BY SoundFacts DEF Follows, Rank
  <1>2. /\ a \in Seq(EventKind) /\ a # <<>> /\ Last(a) = "POST_TEST"
        /\ Ordered(a, twice) /\ Opens(a) /\ Given(a) = Given(ev) + 1
    BY <1>0, <1>1, Appended DEF VerdictEvent
  <1> HIDE DEF a
  <1>3. Follows(Last(a), "POST_FINI", twice) BY <1>2 DEF Follows, Rank
  <1>4. /\ w # <<>> /\ Last(w) = "POST_FINI" /\ Ordered(w, twice) /\ Opens(w)
        /\ Given(w) = Given(ev) + 1
    BY <1>0, <1>2, <1>3, Appended DEF VerdictEvent
  <1>5. Given(ev) = IF s = 2 THEN 1 ELSE 0 BY SoundFacts
  <1> HIDE DEF w
  <1>6. Sound(3, w, twice) /\ (s # 2 => Given(w) = 1)
    BY <1>4, <1>5 DEF Sound, Fits
  <1>7. QED BY <1>6 DEF w, a

LEMMA CrashEvents ==
    ASSUME NEW ev \in Seq(EventKind), NEW s \in {0, 1, 5},
           NEW twice \in BOOLEAN, Sound(s, ev, twice),
           NEW e \in {"TEST_CRASH", "SILENT_CRASH"}, s = 0 => e = "SILENT_CRASH"
    PROVE  LET w == Append(ev, e)
           IN  Ordered(w, twice) /\ Opens(w) /\ Given(w) = 1
  <1>0. /\ Given(ev) = 0 /\ Ordered(ev, twice) /\ Opens(ev)
        /\ e \in EventKind /\ e \in VerdictEvent
    BY SoundFacts DEF Sound, EventKind, VerdictEvent
  <1>1. ev # <<>> => Follows(Last(ev), e, twice)
    BY SoundFacts DEF Follows, Rank
  <1>2. ev = <<>> => e = "SILENT_CRASH" BY SoundFacts
  <1>3. QED BY <1>0, <1>1, <1>2, Appended

----------------------------------------------------------------------------
(* The handlers on the events of a test.                                   *)

\* A view whose test is given another statistics record.
LEMMA Retested ==
    ASSUME NEW v \in View, NEW t \in TestStats
    PROVE  LET w == [v EXCEPT !.t = t]
           IN  /\ w \in View /\ w.state = v.state /\ w.alive = v.alive
               /\ w.ev = v.ev /\ w.ss = v.ss /\ w.g = v.g /\ w.t = t
  BY DEF View

\* push_end: the verdict, then the end.
LEMMA PushesEnd ==
    ASSUME NEW v \in View, NEW x
    PROVE  LET w == push_end(v, x)
           IN  /\ w \in View /\ w.state = v.state /\ w.alive = v.alive
               /\ w.ev = Append(Append(v.ev, "POST_TEST"), "POST_FINI")
               /\ w.t = PostTestStats(v.t, x)
               /\ w.ss = Count(v.ss, PostTestCounts(v.t, x), 1)
               /\ w.g = Count(v.g, PostTestCounts(v.t, x), 1)
  <1> DEFINE a == push_post_test(v, x)
             w == push_post_fini(a)
             K == PostTestCounts(v.t, x)
  <1>1. Pushed(v, a, "POST_TEST", K, PostTestStats(v.t, x)) BY Pushes
  <1>2. push_end(v, x) = w BY DEF push_end
  <1> HIDE DEF a, K
  <1>3. a \in View BY <1>1 DEF Pushed
  <1>4. Pushed(a, w, "POST_FINI", {}, a.t) BY <1>3, Pushes
  <1>5. Count(a.ss, {}, 1) = a.ss /\ Count(a.g, {}, 1) = a.g
    BY <1>3 DEF View, Count
  <1> HIDE DEF w
  <1>6. QED BY <1>1, <1>2, <1>4, <1>5 DEF Pushed, K

\* What the statistics of a test become before its verdict.
StatsOf(new, t) == CASE new = CS_ABORT -> [t EXCEPT !.test_status = FAILED]
                     [] new = CS_TIMEOUT -> [t EXCEPT !.timed_out = TRUE]
                     [] new = CS_SKIP -> [t EXCEPT !.test_status = SKIPPED]

LEMMA HandlerOf ==
    ASSUME NEW v, NEW new, NEW x, NEW t
    PROVE  /\ new = CS_SETUP => phase_handler(v, new, x) = handle_pre_init(v)
           /\ new = CS_MAIN => phase_handler(v, new, x) = handle_pre_test(v)
           /\ new = CS_TEARDOWN => phase_handler(v, new, x) = handle_post_test(v, x)
           /\ new = CS_END => phase_handler(v, new, x) = handle_post_fini(v)
           /\ new = CS_ABORT =>
                 /\ phase_handler(v, new, x) = handle_abort(v, x)
                 /\ StatsOf(new, t) = [t EXCEPT !.test_status = FAILED]
           /\ new = CS_TIMEOUT =>
                 /\ phase_handler(v, new, x) = handle_timeout(v, x)
                 /\ StatsOf(new, t) = [t EXCEPT !.timed_out = TRUE]
           /\ new = CS_SKIP =>
                 /\ phase_handler(v, new, x) = handle_skip(v, x)
                 /\ StatsOf(new, t) = [t EXCEPT !.test_status = SKIPPED]
  BY DEF phase_handler, StatsOf, CS_SETUP, CS_MAIN, CS_TEARDOWN, CS_END,
         CS_ABORT, CS_TIMEOUT, CS_SKIP

\* w is v with nothing, with one event, or with the end of a test reported.
Same(v, w, t) == w.ev = v.ev /\ w.t = t /\ w.ss = v.ss /\ w.g = v.g
One(v, w, e, K, t) == /\ w.ev = Append(v.ev, e) /\ w.t = t
                      /\ w.ss = Count(v.ss, K, 1) /\ w.g = Count(v.g, K, 1)
EndOf(ev) == Append(Append(ev, "POST_TEST"), "POST_FINI")
Ending(v, w, x, t) == /\ w.ev = EndOf(v.ev) /\ w.t = PostTestStats(t, x)
                      /\ w.ss = Count(v.ss, PostTestCounts(t, x), 1)
                      /\ w.g = Count(v.g, PostTestCounts(t, x), 1)

\* The effect of a phase message, by the state s it finds.
PhaseOutcome(v, w, new, x, s) ==
    \/ s = 0 /\ new = CS_SETUP /\ w.state = 0
       /\ One(v, w, "PRE_INIT", PreInitCounts(v.t), v.t)
    \/ s = 0 /\ new = CS_MAIN /\ w.state = 1 /\ One(v, w, "PRE_TEST", {}, v.t)
    \/ s = 1 /\ new = CS_TEARDOWN /\ w.state = 2
       /\ One(v, w, "POST_TEST", PostTestCounts(v.t, x), PostTestStats(v.t, x))
    \/ s = 2 /\ new = CS_END /\ w.state = 3 /\ One(v, w, "POST_FINI", {}, v.t)
    \/ s = 2 /\ new = CS_ABORT /\ w.state = 3
       /\ One(v, w, "POST_FINI", {}, StatsOf(new, v.t))
    \/ s \in {0, 1} /\ new = CS_ABORT /\ w.state = 3
       /\ Ending(v, w, x, StatsOf(new, v.t))
    \/ s \in {0, 1, 2} /\ new \in {CS_TIMEOUT, CS_SKIP} /\ w.state = 3
       /\ Ending(v, w, x, StatsOf(new, v.t))
    \/ s \in {4, 5, 6} /\ new = CS_ABORT /\ w.state = 1
       /\ One(v, w, "THEORY_FAIL", {}, v.t)
    \/ s = 1 /\ new = CS_SETUP /\ w.state = 4 /\ Same(v, w, v.t)
    \/ s \in {4, 5, 6} /\ new # CS_ABORT /\ w.state \in {1, 5, 6} /\ Same(v, w, v.t)

LEMMA PhaseEffect ==
    ASSUME NEW v \in View, NEW new \in Phases, NEW x,
           ~phase_refused(v.state, new)
    PROVE  PhaseOutcome(v, handle_phase(v, new, x), new, x, v.state)
  <1> DEFINE s == v.state
             h == phase_handler(v, new, x)
             w == handle_phase(v, new, x)
  <1>0. v.t \in TestStats /\ s \in ClientState BY DEF View
  <1>s. s \in 0 .. 6 /\ new \in 0 .. 6
    BY <1>0 DEF ClientState, Phases, CS_SETUP, CS_SKIP
  <1>1. Keeps(v, h) BY KeepsPhase
  <1>2. w = [h EXCEPT !.state = next_state(s, new)]
    BY <1>1 DEF handle_phase, Keeps
  <1> HIDE DEF h, w
  <1>3. /\ w.ev = h.ev /\ w.t = h.t /\ w.ss = h.ss /\ w.g = h.g
        /\ w.state = next_state(s, new)
    BY <1>1, <1>2 DEF Keeps, View
  <1>p. ASSUME NEW e, NEW K, NEW t, Pushed(v, h, e, K, t) PROVE One(v, w, e, K, t)
    BY <1>3, <1>p DEF Pushed, One
  <1>n. nested(s) <=> s \in {4, 5, 6}
    BY <1>s DEF nested, CS_MAX_CLIENT_STATES
  <1>k. ~nested(s) => curstate(s) = s
    BY <1>s, <1>n DEF curstate, CS_MAX_CLIENT_STATES
  <1>u. StatsOf(new, v.t) \in TestStats \/ new \notin {CS_ABORT, CS_TIMEOUT, CS_SKIP}
    BY <1>0 DEF StatsOf, TestStats, TestStatus, FAILED, SKIPPED, CS_ABORT,
                CS_TIMEOUT, CS_SKIP
  <1> DEFINE t == StatsOf(new, v.t)
             q == [v EXCEPT !.t = t]
  <1>4. CASE new = CS_SETUP
    <2>1. h = handle_pre_init(v) BY <1>4, HandlerOf DEF h
    <2>2. s \in {0, 1}
      BY <1>4 DEF phase_refused, CS_MAIN
    <2>3. CASE s = 0
      <3>1. h = push_pre_init(v) BY <2>1, <2>3 DEF handle_pre_init
      <3>2. w.state = 0 BY <1>3, <1>4, <2>3, PhaseMoves
      <3>3. One(v, w, "PRE_INIT", PreInitCounts(v.t), v.t)
        BY <1>p, <3>1, Pushes
      <3>4. QED BY <1>4, <2>3, <3>2, <3>3 DEF w, PhaseOutcome
    <2>4. CASE s = 1
      <3>1. h = v BY <2>1, <2>4 DEF handle_pre_init
      <3>2. w.state = 4 BY <1>3, <1>4, <2>4, PhaseMoves
      <3>3. Same(v, w, v.t) BY <1>3, <3>1 DEF Same
      <3>4. QED BY <1>4, <2>4, <3>2, <3>3 DEF w, PhaseOutcome
    <2>5. QED BY <2>2, <2>3, <2>4
  <1>5. CASE new = CS_MAIN
    <2>1. h = handle_pre_test(v)
      BY <1>5, HandlerOf DEF h
    <2>2. curstate(s) = 0
      BY <1>5, <1>s DEF phase_refused, curstate, CS_MAX_CLIENT_STATES, CS_SETUP,
         CS_MAIN, CS_END
    <2>3. s \in {0, 4} BY <1>s, <2>2 DEF curstate, CS_MAX_CLIENT_STATES
    <2>4. CASE s = 0
      <3>1. h = Report(v, "PRE_TEST") BY <1>n, <2>1, <2>4 DEF handle_pre_test
      <3>2. w.state = 1 BY <1>3, <1>5, <2>4, PhaseMoves
      <3>3. One(v, w, "PRE_TEST", {}, v.t) BY <1>p, <3>1, Pushes DEF EventKind
      <3>4. QED BY <1>5, <2>4, <3>2, <3>3 DEF w, PhaseOutcome
    <2>5. CASE s = 4
      <3>1. h = v BY <1>n, <2>1, <2>5 DEF handle_pre_test
      <3>2. w.state = 5 BY <1>3, <1>5, <2>5, PhaseMoves
      <3>3. Same(v, w, v.t) BY <1>3, <3>1 DEF Same
      <3>4. CS_MAIN # CS_ABORT BY DEF CS_MAIN, CS_ABORT
      <3>5. QED BY <1>5, <2>5, <3>2, <3>3, <3>4 DEF w, PhaseOutcome
    <2>6. QED BY <2>3, <2>4, <2>5
  <1>6. CASE new = CS_TEARDOWN
    <2>1. h = handle_post_test(v, x)
      BY <1>6, HandlerOf DEF h
    <2>2. curstate(s) = 1
      BY <1>6, <1>s DEF phase_refused, curstate, CS_MAX_CLIENT_STATES, CS_SETUP,
         CS_TEARDOWN, CS_END
    <2>3. s \in {1, 5} BY <1>s, <2>2 DEF curstate, CS_MAX_CLIENT_STATES
    <2>4. CASE s = 1
      <3>1. h = push_post_test(v, x) BY <1>n, <2>1, <2>4 DEF handle_post_test
      <3>2. w.state = 2 BY <1>3, <1>6, <2>4, PhaseMoves
      <3>3. One(v, w, "POST_TEST", PostTestCounts(v.t, x), PostTestStats(v.t, x))
        BY <1>p, <3>1, Pushes
      <3>4. QED BY <1>6, <2>4, <3>2, <3>3 DEF w, PhaseOutcome
    <2>5. CASE s = 5
      <3>1. h = v BY <1>n, <2>1, <2>5 DEF handle_post_test
      <3>2. w.state = 6 BY <1>3, <1>6, <2>5, PhaseMoves
      <3>3. Same(v, w, v.t) BY <1>3, <3>1 DEF Same
      <3>4. CS_TEARDOWN # CS_ABORT BY DEF CS_TEARDOWN, CS_ABORT
      <3>5. QED BY <1>6, <2>5, <3>2, <3>3, <3>4 DEF w, PhaseOutcome
    <2>6. QED BY <2>3, <2>4, <2>5
  <1>7. CASE new = CS_END
    <2>1. h = handle_post_fini(v)
      BY <1>7, HandlerOf DEF h
    <2>2. curstate(s) = 2
      BY <1>7, <1>s DEF phase_refused, curstate, CS_MAX_CLIENT_STATES, CS_SETUP,
         CS_END
    <2>3. s \in {2, 6} BY <1>s, <2>2 DEF curstate, CS_MAX_CLIENT_STATES
    <2>4. CASE s = 2
      <3>1. h = push_post_fini(v) BY <1>n, <2>1, <2>4 DEF handle_post_fini
      <3>2. w.state = 3 BY <1>3, <1>7, <2>4, PhaseMoves DEF CS_END
      <3>3. One(v, w, "POST_FINI", {}, v.t) BY <1>p, <3>1, Pushes
      <3>4. QED BY <1>7, <2>4, <3>2, <3>3 DEF w, PhaseOutcome
    <2>5. CASE s = 6
      <3>1. h = v BY <1>n, <2>1, <2>5 DEF handle_post_fini
      <3>2. w.state = 1 BY <1>3, <1>7, <2>5, PhaseMoves DEF CS_MAIN
      <3>3. Same(v, w, v.t) BY <1>3, <3>1 DEF Same
      <3>4. CS_END # CS_ABORT BY DEF CS_END, CS_ABORT
      <3>5. QED BY <1>7, <2>5, <3>2, <3>3, <3>4 DEF w, PhaseOutcome
    <2>6. QED BY <2>3, <2>4, <2>5
  <1>a. new \in {CS_ABORT, CS_TIMEOUT, CS_SKIP}
          => /\ s \in {0, 1, 2, 4, 5, 6}
             /\ s \in {0, 1, 2} => next_state(s, new) = 3
             /\ s \in {4, 5, 6} => next_state(s, new) = 1
    BY <1>s
    DEF phase_refused, next_state, push_state, pop_state, nested, curstate,
        CS_MAX_CLIENT_STATES, CS_SETUP, CS_END, CS_ABORT, CS_TIMEOUT, CS_SKIP
  <1>b. new \in {CS_ABORT, CS_TIMEOUT, CS_SKIP}
          => /\ q \in View /\ q.state = s /\ q.ev = v.ev /\ q.ss = v.ss
             /\ q.g = v.g /\ q.t = t
    BY <1>u, Retested DEF q, t
  <1> HIDE DEF q, t
  <1>e. ASSUME new \in {CS_ABORT, CS_TIMEOUT, CS_SKIP}, h = push_end(q, x)
        PROVE  Ending(v, w, x, t)
    BY <1>3, <1>b, <1>e, PushesEnd DEF Ending, EndOf
  <1>8. CASE new = CS_ABORT
    <2>1. h = handle_abort(v, x)
      BY <1>8, HandlerOf DEF h
    <2>2. t = [v.t EXCEPT !.test_status = FAILED] BY <1>8, HandlerOf DEF t
    <2>3. [v EXCEPT !.t.test_status = FAILED] = q BY <2>2 DEF View, q
    <2>4. CASE nested(s)
      <3>1. h = Report(v, "THEORY_FAIL") BY <2>1, <2>4 DEF handle_abort
      <3>2. One(v, w, "THEORY_FAIL", {}, v.t) BY <1>p, <3>1, Pushes DEF EventKind
      <3>3. w.state = 1 BY <1>3, <1>8, <1>a, <1>n, <2>4
      <3>4. QED BY <1>8, <1>n, <2>4, <3>2, <3>3 DEF w, PhaseOutcome
    <2>5. CASE s \in {0, 1}
      <3>1. ~nested(s) /\ curstate(s) < CS_TEARDOWN /\ curstate(s) < CS_END
        BY <1>n, <1>k, <2>5 DEF CS_TEARDOWN, CS_END
      <3>2. h = push_end(q, x)
        BY <2>1, <2>3, <3>1 DEF handle_abort, push_end
      <3>3. Ending(v, w, x, t) BY <1>8, <1>e, <3>2
      <3>4. w.state = 3 BY <1>3, <1>8, <1>a, <2>5
      <3>5. QED BY <1>8, <2>5, <3>3, <3>4 DEF w, t, PhaseOutcome
    <2>6. CASE s = 2
      <3>1. ~nested(s) /\ ~(curstate(s) < CS_TEARDOWN) /\ curstate(s) < CS_END
        BY <1>n, <1>k, <2>6 DEF CS_TEARDOWN, CS_END
      <3>2. h = push_post_fini(q) BY <2>1, <2>3, <3>1 DEF handle_abort
      <3>3. Pushed(q, h, "POST_FINI", {}, q.t) BY <1>8, <1>b, <3>2, Pushes
      <3>4. One(v, w, "POST_FINI", {}, t) BY <1>3, <1>8, <1>b, <3>3 DEF Pushed, One
      <3>5. w.state = 3 BY <1>3, <1>8, <1>a, <2>6
      <3>6. QED BY <1>8, <2>6, <3>4, <3>5 DEF w, t, PhaseOutcome
    <2>7. QED BY <1>8, <1>a, <1>n, <2>4, <2>5, <2>6
  <1>9. CASE new \in {CS_TIMEOUT, CS_SKIP}
    <2>1. h = IF nested(s) THEN v ELSE push_end(q, x)
      <3>1. CASE new = CS_TIMEOUT
        <4>1. h = handle_timeout(v, x)
          BY <3>1, HandlerOf DEF h
        <4>2. t = [v.t EXCEPT !.timed_out = TRUE]
          BY <3>1, HandlerOf DEF t
        <4>3. [v EXCEPT !.t.timed_out = TRUE] = q BY <4>2 DEF View, q
        <4>4. QED BY <4>1, <4>3 DEF handle_timeout
      <3>2. CASE new = CS_SKIP
        <4>1. h = handle_skip(v, x)
          BY <3>2, HandlerOf DEF h
        <4>2. t = [v.t EXCEPT !.test_status = SKIPPED]
          BY <3>2, HandlerOf DEF t
        <4>3. [v EXCEPT !.t.test_status = SKIPPED] = q BY <4>2 DEF View, q
        <4>4. QED BY <4>1, <4>3 DEF handle_skip
      <3>3. QED BY <1>9, <3>1, <3>2
    <2>2. CASE nested(s)
      <3>1. Same(v, w, v.t) BY <1>3, <2>1, <2>2 DEF Same
      <3>2. w.state = 1 BY <1>3, <1>9, <1>a, <1>n, <2>2
      <3>3. new # CS_ABORT BY <1>9 DEF CS_ABORT, CS_TIMEOUT, CS_SKIP
      <3>4. QED BY <1>n, <2>2, <3>1, <3>2, <3>3 DEF w, PhaseOutcome
    <2>3. CASE ~nested(s)
      <3>1. Ending(v, w, x, t) BY <1>9, <1>e, <2>1, <2>3
      <3>2. s \in {0, 1, 2} /\ w.state = 3 BY <1>3, <1>9, <1>a, <1>n, <2>3
      <3>3. QED BY <1>9, <3>1, <3>2 DEF w, t, PhaseOutcome
    <2>4. QED BY <2>2, <2>3
  <1>10. new \in {CS_SETUP, CS_MAIN, CS_TEARDOWN, CS_END, CS_ABORT, CS_TIMEOUT,
                  CS_SKIP}
    BY <1>s DEF CS_SETUP, CS_MAIN, CS_TEARDOWN, CS_END, CS_ABORT, CS_TIMEOUT,
                CS_SKIP
  <1>11. QED BY <1>4, <1>5, <1>6, <1>7, <1>8, <1>9, <1>10

----------------------------------------------------------------------------
(* The death of a worker on the events of its test.                        *)

\* handle_death marks the client dead, and a crash outside of MAIN warns.
Mourned(v, crashed) == IF crashed /\ curstate(v.state) # CS_MAIN THEN warn(v) ELSE v

LEMMA Warned ==
    ASSUME NEW v \in View
    PROVE  /\ warn(v) \in View /\ warn(v).state = v.state
           /\ warn(v).alive = v.alive /\ warn(v).ev = v.ev
           /\ warn(v).t = v.t /\ warn(v).ss = v.ss
           /\ warn(v).g = Count(v.g, {"warnings"}, 1)
  <1> DEFINE G == Count(v.g, {"warnings"}, 1)
  <1>1. G \in [GlobalCounter -> Nat] BY CountType DEF View
  <1>2. warn(v) = [v EXCEPT !.g = G] BY DEF warn, View
  <1> HIDE DEF G
  <1>3. QED BY <1>1, <1>2 DEF View, G

LEMMA Buried ==
    ASSUME NEW v \in View
    PROVE  LET d == [v EXCEPT !.alive = FALSE]
           IN  /\ d \in View /\ d.alive = FALSE /\ d.state = v.state
               /\ d.ev = v.ev /\ d.t = v.t /\ d.ss = v.ss /\ d.g = v.g
  BY DEF View

\* The effect of a death message on u = Mourned(v), by the state s it finds.
DeathOutcome(u, w, crashed, code, x, s) ==
    \/ s = 0 /\ One(u, w, "SILENT_CRASH", CrashCounts, CrashStats(u.t))
    \/ s \in {1, 5} /\ crashed /\ x.signal = 0
       /\ One(u, w, "TEST_CRASH", CrashCounts,
              CrashStats([u.t EXCEPT !.signal = code]))
    \/ s \in {1, 5} /\ crashed /\ x.signal # 0
       /\ Ending(u, w, x, [u.t EXCEPT !.signal = code])
    \/ s = 1 /\ ~crashed /\ Ending(u, w, x, [u.t EXCEPT !.exit_code = code])
    \/ s \in {2, 3, 4, 6} /\ crashed /\ Same(u, w, u.t)
    \/ s \in {2, 6} /\ ~crashed /\ Same(u, w, u.t)
    \/ s \in {3, 4, 5} /\ ~crashed /\ Same(u, w, [u.t EXCEPT !.exit_code = code])

LEMMA DeathEffect ==
    ASSUME NEW v \in View, NEW crashed \in BOOLEAN, NEW code \in Nat, NEW x
    PROVE  LET w == handle_death(v, crashed, code, x)
               u == Mourned(v, crashed)
           IN  /\ w \in View /\ w.state = v.state /\ w.alive = FALSE
               /\ u \in View /\ u.state = v.state /\ u.ev = v.ev /\ u.t = v.t
               /\ u.ss = v.ss
               /\ DeathOutcome(u, w, crashed, code, x, v.state)
  <1> DEFINE w == handle_death(v, crashed, code, x)
             m == Mourned(v, crashed)
             s == v.state
             d == [v EXCEPT !.alive = FALSE]
             signaled == [m.t EXCEPT !.signal = code]
             exited == [m.t EXCEPT !.exit_code = code]
             \* u has the events and the counters that handle_death starts from.
             From(u, t) == /\ u \in View /\ u.state = s /\ u.alive = FALSE
                           /\ u.ev = m.ev /\ u.t = t /\ u.ss = m.ss /\ u.g = m.g
             Dead == w \in View /\ w.state = s /\ w.alive = FALSE
  <1>m. /\ m \in View /\ m.state = s /\ m.ev = v.ev /\ m.t = v.t /\ m.ss = v.ss
        /\ m.g = IF crashed /\ curstate(s) # CS_MAIN
                 THEN Count(v.g, {"warnings"}, 1) ELSE v.g
    BY Warned DEF Mourned
  <1>a. m.t \in TestStats /\ s \in {0, 1, 2, 3, 4, 5, 6}
    BY <1>m DEF View, ClientState
  <1> HIDE DEF m
  <1>0. /\ m.t \in TestStats /\ s \in {0, 1, 2, 3, 4, 5, 6}
        /\ signaled \in TestStats /\ exited \in TestStats
    BY <1>a DEF TestStats
  <1>c. /\ curstate(s) = CS_MAIN <=> s \in {1, 5}
        /\ curstate(s) = CS_TEARDOWN <=> s \in {2, 6}
        /\ s < CS_MAIN <=> s = 0
        /\ s = CS_SETUP <=> s = 0
        /\ s = CS_MAIN <=> s = 1
    BY <1>0 DEF curstate, CS_MAX_CLIENT_STATES, CS_SETUP, CS_MAIN, CS_TEARDOWN
  <1>d. /\ d \in View /\ d.state = s /\ d.t = m.t
        /\ crashed /\ curstate(s) # CS_MAIN => From(warn(d), m.t)
        /\ ~(crashed /\ curstate(s) # CS_MAIN)
              => From(d, m.t) /\ \A t \in TestStats : From([d EXCEPT !.t = t], t)
    <2>1. /\ d \in View /\ d.alive = FALSE /\ d.state = s
          /\ d.ev = v.ev /\ d.t = v.t /\ d.ss = v.ss /\ d.g = v.g
      BY Buried
    <2> HIDE DEF d, s
    <2>2. /\ warn(d) \in View /\ warn(d).alive = FALSE
          /\ warn(d).state = s /\ warn(d).ev = v.ev /\ warn(d).t = v.t
          /\ warn(d).ss = v.ss /\ warn(d).g = Count(v.g, {"warnings"}, 1)
      BY <2>1, Warned
    <2>3. ~(crashed /\ curstate(s) # CS_MAIN)
             => \A t \in TestStats : From([d EXCEPT !.t = t], t)
      BY <1>m, <2>1, Retested
    <2>4. crashed /\ curstate(s) # CS_MAIN => From(warn(d), m.t)
      BY <1>m, <2>2
    <2>5. ~(crashed /\ curstate(s) # CS_MAIN) => From(d, m.t)
      BY <1>m, <2>1
    <2>6. QED BY <1>m, <2>1, <2>3, <2>4, <2>5
  <1>e. [d EXCEPT !.t.signal = code] = [d EXCEPT !.t = signaled]
        /\ [d EXCEPT !.t.exit_code = code] = [d EXCEPT !.t = exited]
    BY <1>d
  <1>w. w = IF crashed THEN handle_crash(d, code, x) ELSE handle_exit(d, code, x)
    BY DEF handle_death
  <1>n. ASSUME NEW u, NEW t, From(u, t), w = u PROVE Dead /\ Same(m, w, t)
    BY <1>n DEF Same
  <1>o. ASSUME NEW u, NEW t \in TestStats, From(u, t), NEW reported \in BOOLEAN,
               w = push_test_crash(u, reported)
        PROVE  Dead /\ One(m, w, IF reported THEN "TEST_CRASH" ELSE "SILENT_CRASH",
                           CrashCounts, CrashStats(t))
    <2>1. Pushed(u, w, IF reported THEN "TEST_CRASH" ELSE "SILENT_CRASH",
                 CrashCounts, CrashStats(t))
      BY <1>o, Pushes
    <2>2. QED BY <1>o, <2>1 DEF Pushed, One
  <1>p. ASSUME NEW u, NEW t \in TestStats, From(u, t), w = push_end(u, x)
        PROVE  Dead /\ Ending(m, w, x, t)
    BY <1>p, PushesEnd DEF Ending, EndOf
  <1> HIDE DEF w, d, signaled, exited
  <1> DEFINE Goal == Dead /\ DeathOutcome(m, w, crashed, code, x, s)
  <1>1. ASSUME crashed /\ s \in {1, 5} PROVE Goal
    <2> DEFINE u == [d EXCEPT !.t = signaled]
    <2>1. From(u, signaled) BY <1>0, <1>1, <1>c, <1>d
    <2>2. w = IF x.signal = 0 THEN push_test_crash(u, TRUE) ELSE push_end(u, x)
      BY <1>1, <1>c, <1>d, <1>e, <1>w DEF handle_crash
    <2> HIDE DEF u
    <2>3. CASE x.signal = 0
      <3>1. Dead /\ One(m, w, "TEST_CRASH", CrashCounts, CrashStats(signaled))
        BY <1>0, <1>o, <2>1, <2>2, <2>3
      <3>2. QED BY <1>1, <2>3, <3>1 DEF DeathOutcome, signaled
    <2>4. CASE x.signal # 0
      <3>1. Dead /\ Ending(m, w, x, signaled) BY <1>0, <1>p, <2>1, <2>2, <2>4
      <3>2. QED BY <1>1, <2>4, <3>1 DEF DeathOutcome, signaled
    <2>5. QED BY <2>3, <2>4
  <1>2. ASSUME crashed /\ s \notin {1, 5} PROVE Goal
    <2> DEFINE u == warn(d)
    <2>1. From(u, m.t) BY <1>2, <1>c, <1>d
    <2>2. w = IF s = 0 THEN push_test_crash(u, FALSE) ELSE u
      BY <1>2, <1>c, <1>d, <1>w DEF handle_crash
    <2> HIDE DEF u
    <2>3. CASE s = 0
      BY <1>0, <1>2, <1>o, <2>1, <2>2, <2>3 DEF DeathOutcome
    <2>4. CASE s # 0
      BY <1>0, <1>2, <1>n, <2>1, <2>2, <2>4 DEF DeathOutcome
    <2>5. QED BY <2>3, <2>4
  <1>3. ASSUME ~crashed /\ s \in {0, 2, 6} PROVE Goal
    <2>1. From(d, m.t) BY <1>3, <1>d
    <2>2. w = IF s = 0 THEN push_test_crash(d, FALSE) ELSE d
      BY <1>3, <1>c, <1>d, <1>w DEF handle_exit
    <2>3. CASE s = 0
      BY <1>0, <1>3, <1>o, <2>1, <2>2, <2>3 DEF DeathOutcome
    <2>4. CASE s # 0
      BY <1>0, <1>3, <1>n, <2>1, <2>2, <2>4 DEF DeathOutcome
    <2>5. QED BY <2>3, <2>4
  <1>4. ASSUME ~crashed /\ s \in {1, 3, 4, 5} PROVE Goal
    <2> DEFINE u == [d EXCEPT !.t = exited]
    <2>1. From(u, exited) BY <1>0, <1>4, <1>d
    <2>2. w = IF s = 1 THEN push_end(u, x) ELSE u
      <3>1. curstate(s) # CS_TEARDOWN /\ s # CS_SETUP BY <1>4, <1>c
      <3>2. w = handle_exit(d, code, x) BY <1>4, <1>w
      <3>3. QED BY <1>c, <1>d, <1>e, <3>1, <3>2 DEF handle_exit
    <2> HIDE DEF u
    <2>3. CASE s = 1
      BY <1>0, <1>4, <1>p, <2>1, <2>2, <2>3 DEF DeathOutcome, exited
    <2>4. CASE s # 1
      BY <1>0, <1>4, <1>n, <2>1, <2>2, <2>4 DEF DeathOutcome, exited
    <2>5. QED BY <2>3, <2>4
  <1>5. Goal BY <1>0, <1>1, <1>2, <1>3, <1>4
  <1>6. QED BY <1>5, <1>m DEF w, m, s

\* The events of a test after a phase message.
LEMMA PhaseHistory ==
    ASSUME NEW v \in View, NEW new \in Phases, NEW x,
           ~phase_refused(v.state, new), NEW twice \in BOOLEAN,
           Sound(v.state, v.ev, twice),
           v.state = 0 /\ new # CS_TIMEOUT => (new = CS_SETUP <=> v.ev = <<>>),
           v.state = 2 /\ new \in {CS_SKIP, CS_TIMEOUT} => twice
    PROVE  LET w == handle_phase(v, new, x)
           IN  /\ Sound(w.state, w.ev, twice)
               /\ w.state = 0 => w.ev # <<>>
               /\ new = CS_TIMEOUT => w.state \notin {0, 2}
  <1> DEFINE w == handle_phase(v, new, x)
             s == v.state
             ev == v.ev
             End == EndOf(ev)
  <1>1. \/ s = 0 /\ new = CS_SETUP /\ w.state = 0 /\ w.ev = Append(ev, "PRE_INIT")
        \/ s = 0 /\ new = CS_MAIN /\ w.state = 1 /\ w.ev = Append(ev, "PRE_TEST")
        \/ s = 1 /\ new = CS_TEARDOWN /\ w.state = 2
           /\ w.ev = Append(ev, "POST_TEST")
        \/ s = 2 /\ w.state = 3 /\ w.ev = Append(ev, "POST_FINI")
        \/ s \in {0, 1} /\ w.state = 3 /\ w.ev = End
        \/ s = 2 /\ new \in {CS_TIMEOUT, CS_SKIP} /\ w.state = 3 /\ w.ev = End
        \/ s \in {4, 5, 6} /\ w.state = 1 /\ w.ev = Append(ev, "THEORY_FAIL")
        \/ s = 1 /\ new = CS_SETUP /\ w.state = 4 /\ w.ev = ev
        \/ s \in {4, 5, 6} /\ new # CS_ABORT /\ w.state \in {1, 5, 6} /\ w.ev = ev
    BY PhaseEffect DEF PhaseOutcome, One, Ending, EndOf, Same
  <1>2. ev \in Seq(EventKind) BY DEF View
  <1>3. CS_TIMEOUT \notin {CS_SETUP, CS_MAIN, CS_TEARDOWN} /\ CS_MAIN # CS_SETUP
        /\ CS_MAIN # CS_TIMEOUT
    BY DEF CS_TIMEOUT, CS_SETUP, CS_MAIN, CS_TEARDOWN
  <1> HIDE DEF w, s, ev, End
  <1>s. /\ Sound(s, ev, twice)
        /\ s = 0 /\ new # CS_TIMEOUT => (new = CS_SETUP <=> ev = <<>>)
        /\ s = 2 /\ new \in {CS_SKIP, CS_TIMEOUT} => twice
    BY DEF s, ev
  <1>n. /\ s = 0 /\ ev = <<>> => Sound(0, Append(ev, "PRE_INIT"), twice)
        /\ s = 0 /\ ev # <<>> => Sound(1, Append(ev, "PRE_TEST"), twice)
        /\ s = 1 => Sound(2, Append(ev, "POST_TEST"), twice)
        /\ s = 2 => Sound(3, Append(ev, "POST_FINI"), twice)
        /\ s \in {4, 5, 6} => Sound(1, Append(ev, "THEORY_FAIL"), twice)
        /\ s \in {1, 4, 5, 6} => \A n \in {1, 4, 5, 6} : Sound(n, ev, twice)
    BY <1>2, <1>s, NextEvents
  <1>e. s \in {0, 1} \/ (s = 2 /\ twice) => Sound(3, End, twice)
    BY <1>2, <1>s, EndEvents DEF End, EndOf
  <1>4. CASE s = 0 /\ new = CS_SETUP /\ w.state = 0 /\ w.ev = Append(ev, "PRE_INIT")
    <2>1. Append(ev, "PRE_INIT") # <<>> BY <1>2, Appended DEF EventKind
    <2>2. Sound(0, w.ev, twice) BY <1>3, <1>4, <1>n, <1>s
    <2>3. QED BY <1>3, <1>4, <2>1, <2>2 DEF w
  <1>5. CASE s = 0 /\ new = CS_MAIN /\ w.state = 1 /\ w.ev = Append(ev, "PRE_TEST")
    <2>1. Sound(1, w.ev, twice) BY <1>3, <1>5, <1>n, <1>s
    <2>2. QED BY <1>3, <1>5, <2>1 DEF w
  <1>6. CASE s = 1 /\ new = CS_TEARDOWN /\ w.state = 2
             /\ w.ev = Append(ev, "POST_TEST")
    <2>1. Sound(2, w.ev, twice) BY <1>6, <1>n
    <2>2. QED BY <1>3, <1>6, <2>1 DEF w
  <1>7. CASE s = 2 /\ w.state = 3 /\ w.ev = Append(ev, "POST_FINI")
    BY <1>7, <1>n DEF w
  <1>8. CASE w.state = 3 /\ w.ev = End
             /\ (s \in {0, 1} \/ (s = 2 /\ new \in {CS_TIMEOUT, CS_SKIP}))
    <2>1. Sound(3, w.ev, twice) BY <1>8, <1>e, <1>s
    <2>2. QED BY <1>8, <2>1 DEF w
  <1>9. CASE s \in {4, 5, 6} /\ w.state = 1 /\ w.ev = Append(ev, "THEORY_FAIL")
    BY <1>9, <1>n DEF w
  <1>10. CASE w.ev = ev /\ w.state \in {1, 4, 5, 6} /\ s \in {1, 4, 5, 6}
    <2>1. Sound(w.state, w.ev, twice) BY <1>10, <1>n
    <2>2. QED BY <1>10, <2>1 DEF w
  <1>11. QED BY <1>1, <1>4, <1>5, <1>6, <1>7, <1>8, <1>9, <1>10

\* The events of a test after the death of its worker.
LEMMA DeathHistory ==
    ASSUME NEW v \in View, NEW crashed \in BOOLEAN, NEW code \in Nat, NEW x,
           NEW twice \in BOOLEAN, Sound(v.state, v.ev, twice)
    PROVE  LET w == handle_death(v, crashed, code, x)
           IN  /\ Ordered(w.ev, twice) /\ Opens(w.ev)
               /\ ~twice => Given(w.ev) <= 1
               /\ IF nested(v.state) /\ ~(crashed /\ curstate(v.state) = CS_MAIN)
                  THEN Given(w.ev) = 0 ELSE Given(w.ev) \in {1, 2}
  <1> DEFINE w == handle_death(v, crashed, code, x)
             s == v.state
             ev == v.ev
             End == EndOf(ev)
             Lost == nested(s) /\ ~(crashed /\ curstate(s) = CS_MAIN)
             Good(q) == /\ Ordered(q, twice) /\ Opens(q)
                        /\ ~twice => Given(q) <= 1
                        /\ IF Lost THEN Given(q) = 0 ELSE Given(q) \in {1, 2}
  <1>1. \/ s = 0 /\ w.ev = Append(ev, "SILENT_CRASH")
        \/ s \in {1, 5} /\ crashed /\ w.ev = Append(ev, "TEST_CRASH")
        \/ s \in {1, 5} /\ crashed /\ w.ev = End
        \/ s = 1 /\ w.ev = End
        \/ s \in {2, 3, 4, 6} /\ w.ev = ev
        \/ s = 5 /\ ~crashed /\ w.ev = ev
    <2> DEFINE u == Mourned(v, crashed)
    <2>1. u.ev = v.ev /\ DeathOutcome(u, w, crashed, code, x, s) BY DeathEffect
    <2> HIDE DEF u, w, s
    <2>2. QED BY <2>1 DEF DeathOutcome, One, Ending, EndOf, Same
  <1>2. ev \in Seq(EventKind) /\ s \in {0, 1, 2, 3, 4, 5, 6}
    BY DEF View, ClientState
  <1>3. Sound(s, ev, twice) OBVIOUS
  <1>4. Lost <=> s \in {4, 6} \/ (s = 5 /\ ~crashed)
    BY <1>2 DEF nested, curstate, CS_MAX_CLIENT_STATES, CS_MAIN
  <1> HIDE DEF w, s, ev, End, Lost
  <1>5. ASSUME s \in {0, 1, 5}, NEW e \in {"TEST_CRASH", "SILENT_CRASH"},
               s = 0 => e = "SILENT_CRASH", ~Lost
        PROVE  Good(Append(ev, e))
    <2>1. /\ Ordered(Append(ev, e), twice) /\ Opens(Append(ev, e))
          /\ Given(Append(ev, e)) = 1
      BY <1>2, <1>3, <1>5, CrashEvents
    <2>2. QED BY <1>5, <2>1
  <1>6. ASSUME s \in {1, 5}, ~Lost PROVE Good(End)
    <2>1. Sound(3, End, twice) /\ Given(End) = 1
      BY <1>2, <1>3, <1>6, EndEvents DEF End, EndOf
    <2>2. QED BY <1>6, <2>1 DEF Sound
  <1>7. ASSUME s \in {2, 3, 4, 6} \/ (s = 5 /\ ~crashed) PROVE Good(ev)
    <2>1. IF Lost THEN Given(ev) = 0 ELSE Given(ev) \in {1, 2}
      BY <1>2, <1>3, <1>4, <1>7, SoundFacts
    <2>2. QED BY <1>3, <2>1 DEF Sound
  <1>8. Good(w.ev)
    <2>1. s = 0 => Good(Append(ev, "SILENT_CRASH")) BY <1>4, <1>5
    <2>2. s \in {1, 5} /\ crashed => Good(Append(ev, "TEST_CRASH")) /\ Good(End)
      BY <1>4, <1>5, <1>6
    <2>3. s = 1 => Good(End) BY <1>4, <1>6
    <2> HIDE DEF Good
    <2>4. QED BY <1>1, <1>7, <2>1, <2>2, <2>3
  <1>9. QED BY <1>8 DEF w, Lost, s

----------------------------------------------------------------------------
(* The events of every test, along every step.                             *)

Tale(j) == History(j) /\ Pending(j)
Story == (\A j \in Job : Tale(j)) /\ Reported /\ Reaping

LEMMA OrderedMore ==
    ASSUME NEW ev, NEW a, NEW b, a => b, Ordered(ev, a)
    PROVE  Ordered(ev, b)
  BY DEF Ordered

\* The events of a test are those of its client while the test is not over.
LEMMA SoundHistory ==
    ASSUME NEW j \in Job, ~Finished(j)
    PROVE  History(j) <=> Sound(ctx[j].state, ctx[j].ev, MayEndTwice(j))
  BY DEF History, Sound, VerdictCount

LEMMA TaleStays ==
    ASSUME NEW k \in Job, Tale(k), Finished(k)' <=> Finished(k),
           wk'[k] = wk[k], chan'[k] = chan[k], ctx'[k] = ctx[k]
    PROVE  Tale(k)'
  <1>1. /\ MayEndTwice(k)' <=> MayEndTwice(k)
        /\ EndedInTheory(k)' <=> EndedInTheory(k)
        /\ VerdictCount(k)' = VerdictCount(k)
    BY DEF MayEndTwice, EndedInTheory, Signaled, VerdictCount
  <1>2. Ordered(ctx[k].ev, MayEndTwice(k))' <=> Ordered(ctx[k].ev, MayEndTwice(k))
    BY <1>1 DEF Ordered
  <1>3. Fits(ctx[k].state, ctx[k].ev)' <=> Fits(ctx[k].state, ctx[k].ev)
        /\ (Opens(ctx[k].ev)' <=> Opens(ctx[k].ev))
    OBVIOUS
  <1>4. History(k)' BY <1>1, <1>2, <1>3 DEF Tale, History
  <1>5. Pending(k)' BY <1>1 DEF Tale, Pending
  <1>6. QED BY <1>4, <1>5 DEF Tale

\* The other processes change no context.
LEMMA OthersHistory ==
    ASSUME IInv, Others, NEW k \in Job, Tale(k)
    PROVE  History(k)' /\ (MayEndTwice(k) => MayEndTwice(k)')
           /\ ctx'[k] = ctx[k] /\ (Finished(k)' <=> Finished(k))
  <1>0. UNCHANGED ctx BY DEF Others, serverVars
  <1>1. MayEndTwice(k) => MayEndTwice(k)'
    BY OthersKeep DEF MayEndTwice, Tale, Pending
  <1>2. Finished(k)' <=> Finished(k) BY OthersKeep
  <1>3. Finished(k) => (EndedInTheory(k)' <=> EndedInTheory(k))
    <2>1. Finished(k) => wk'[k].crashed = wk[k].crashed
                         /\ wk'[k].timed_out = wk[k].timed_out
      BY OthersKeep
    <2>2. QED BY <1>0, <2>1 DEF EndedInTheory, Signaled
  <1>4. /\ VerdictCount(k)' = VerdictCount(k)
        /\ Fits(ctx[k].state, ctx[k].ev)' <=> Fits(ctx[k].state, ctx[k].ev)
        /\ Opens(ctx[k].ev)' <=> Opens(ctx[k].ev)
    BY <1>0 DEF VerdictCount
  <1>5. Ordered(ctx[k].ev, MayEndTwice(k))'
    <2>1. Ordered(ctx[k].ev, MayEndTwice(k)) BY DEF Tale, History
    <2>2. Ordered(ctx[k].ev, MayEndTwice(k)') BY <1>1, <2>1, OrderedMore
    <2>3. QED BY <1>0, <2>2
  <1>6. QED BY <1>0, <1>1, <1>2, <1>3, <1>4, <1>5 DEF Tale, History

LEMMA OthersStory ==
    ASSUME IInv, Story, Others
    PROVE  Story'
  <1>0. UNCHANGED <<ctx, subs, rpc, cur>>
    BY DEF Others, serverVars, loopVars
  <1>i. cb.pc # "idle" => cb.job \in Job /\ wk[cb.job].proc = "dead"
    BY DEF IInv, CallbackOK, TypeOK
  <1>1. ASSUME NEW k \in Job PROVE Pending(k)'
    <2>0. Pending(k) /\ ctx'[k] = ctx[k] /\ (Finished(k)' <=> Finished(k))
          /\ (MayEndTwice(k) => MayEndTwice(k)')
      BY OthersHistory DEF Story, Tale
    <2>1. CASE wk'[k] = wk[k] /\ chan'[k] = chan[k]
      BY <2>0, <2>1 DEF Pending
    <2>2. CASE Moved(k)
      <3>1. CASE Ends(k)
        <4>1. wk'[k].proc # "running" /\ chan'[k] \in {chan[k], Idle}
          BY <3>1 DEF Ends
        <4>2. QED BY <2>0, <4>1, IdleType DEF Pending
      <3>2. CASE Goes(k)
        <4>1. /\ wk[k].proc = "running" /\ wk'[k].timed_out = wk[k].timed_out
              /\ chan[k].kind # "PHASE" /\ chan'[k].kind \notin {"PHASE", "CRASH", "EXIT"}
              /\ wk'[k].pc \in {"boot", "setup"} => wk[k].pc \in {"boot", "setup"}
              /\ wk'[k].pc \in {"init", "abort"} => wk[k].pc \in {"init", "abort"}
          BY <2>2, <3>2 DEF Moved, Goes, Places
        <4>2. QED BY <2>0, <4>1 DEF Pending
      <3>3. CASE \E new \in Phases : Calls(k, new)
        <4>1. PICK new \in Phases : Calls(k, new) BY <3>3
        <4>2. chan'[k].kind = "PHASE" /\ chan'[k].arg = new
          BY <4>1, PhaseMsg DEF Calls
        <4>3. /\ wk[k].proc = "running" /\ wk'[k].timed_out = wk[k].timed_out
              /\ chan[k].kind # "PHASE" /\ wk'[k].pc \notin {"boot", "setup"}
              /\ wk[k].pc \notin {"boot", "abort", "hung"}
              /\ new = CS_SETUP <=> wk[k].pc \in {"setup", "th_setup"}
              /\ new # CS_TIMEOUT
              /\ new = CS_SKIP => wk[k].pc \in Section
                                  /\ <<wk[k].pc, "skip">> \in Test(k).may
          BY <2>2, <4>1, IdleType DEF Moved, Calls
        <4>4. wk[k].pc \in Counter /\ ctx[k].state \in StateAt(wk[k].pc)
          BY <4>3 DEF IInv, TypeOK, WorkerTypeOK, WorkerRec, Coupled, Agrees
        <4>5. ctx[k].state = 0 => wk[k].pc \in {"setup", "init"}
          BY <4>3, <4>4
          DEF StateAt, Counter, CS_SETUP, CS_MAIN, CS_TEARDOWN, CS_END
        <4>6. ctx[k].state = 2 /\ wk[k].pc \in Section => wk[k].pc = "fini"
          BY <4>3, <4>4
          DEF StateAt, Section, CS_SETUP, CS_MAIN, CS_TEARDOWN, CS_END
        <4>7. ctx[k].state = 0 => (new = CS_SETUP <=> ctx[k].ev = <<>>)
          BY <2>0, <4>3, <4>5 DEF Pending
        <4>8. ctx[k].state = 2 /\ new \in {CS_SKIP, CS_TIMEOUT} => MayEndTwice(k)'
          BY <4>3, <4>6 DEF MayEndTwice
        <4>9. QED BY <2>0, <4>2, <4>3, <4>7, <4>8 DEF Pending
      <3>4. QED BY <2>2, <3>1, <3>2, <3>3 DEF Moved
    <2>3. CASE CallbackStep
      <3>1. CASE wk[k].proc = "dead" /\ Finished(k)
                 /\ wk'[k] = [wk[k] EXCEPT !.proc = "waited"]
        <4>1. wk'[k].proc # "running"
          BY <3>1 DEF IInv, TypeOK, WorkerTypeOK, WorkerRec
        <4>2. chan'[k] = chan[k] BY <2>3, CallbackMove
        <4>3. QED BY <2>0, <3>1, <4>1, <4>2 DEF Pending
      <3>2. QED BY <2>1, <2>3, <3>1, CallbackMove
    <2>4. QED
      BY <2>1, <2>2, <2>3, WorkerMove DEF Others, Moved, Elsewhere, workerVars
  <1>2. Reported'
    <2>1. CASE \E j \in Job : Moved(j)
      <3>1. PICK j \in Job : Moved(j) BY <2>1
      <3>2. cb' = cb /\ chan'[Own] = chan[Own]
            /\ (cb.pc # "idle" => wk'[cb.job] = wk[cb.job])
        BY <1>i, <3>1 DEF Moved, Elsewhere
      <3>3. QED BY <3>2 DEF Story, Reported, Signaled
    <2>2. CASE UNCHANGED workerVars
      BY <2>2 DEF workerVars, Story, Reported, Signaled
    <2>3. ASSUME NEW j \in Job
          PROVE  /\ Death(j).kind = "CRASH" <=> Signaled(j)
                 /\ Signaled(j) => Death(j).arg = wk[j].code
      <3>1. wk[j].code \in Nat BY DEF IInv, TypeOK, WorkerTypeOK, WorkerRec
      <3>2. QED BY <3>1, MsgType DEF Death, Signaled, Requests
    <2>o. Own \in Socket /\ chan \in [Socket -> Msg]
          /\ cb \in [job : Socket, pc : {"idle", "timeout", "death"}]
      BY DEF IInv, TypeOK, WorkerTypeOK, Socket
    <2>4. CASE CallbackStep
      <3>1. CASE \E j \in Job : CallbackStart(j)
        <4>1. PICK j \in Job : CallbackStart(j) BY <3>1
        <4>2. /\ cb'.job = j /\ UNCHANGED wk
              /\ cb'.pc = IF wk[j].timed_out THEN "timeout" ELSE "death"
              /\ cb'.pc = "death" => chan'[Own] = Death(j)
          BY <2>o, <4>1 DEF CallbackStart
        <4>3. QED BY <2>3, <4>2 DEF Reported, Signaled
      <3>2. CASE CallbackDeath
        <4>1. cb.job \in Job BY <1>i, <3>2 DEF CallbackDeath
        <4>2. /\ cb'.job = cb.job /\ UNCHANGED wk /\ cb'.pc = "death"
              /\ chan'[Own] = Death(cb.job)
          BY <2>o, <3>2 DEF CallbackDeath
        <4>3. QED BY <2>3, <4>1, <4>2 DEF Reported, Signaled
      <3>3. CASE CallbackReturn
        BY <3>3 DEF CallbackReturn, NoDeath, Reported
      <3>4. QED BY <2>4, <3>1, <3>2, <3>3 DEF CallbackStep
    <2>5. QED BY <2>1, <2>2, <2>4, WorkerMove DEF Others
  <1>3. Reaping'
    <2>1. subs \subseteq Job BY DEF IInv, TypeOK
    <2>2. \A j \in subs : Finished(j)' => Finished(j) BY <2>1, OthersKeep
    <2>3. QED BY <1>0, <2>2 DEF Story, Reaping
  <1>4. QED BY <1>1, <1>2, <1>3, OthersHistory DEF Story, Tale

\* The context of a worker just spawned.
LEMMA SpawnStory ==
    ASSUME IInv, Story, SpawnNext
    PROVE  Story'
  <1>1. PICK j \in Job :
           /\ wk[j] = Unborn /\ subs' = subs \cup {j} /\ ctx'[j] = FreshCtx
           /\ wk'[j] = [Unborn EXCEPT !.proc = "running"]
           /\ \A k \in Job \ {j} : wk'[k] = wk[k] /\ ctx'[k] = ctx[k]
           /\ chan[j] = Idle /\ UNCHANGED <<chan, cb, ss, g, cur>>
    BY Spawning
  <1>2. /\ wk'[j].proc = "running" /\ wk'[j].pc = "boot" /\ ~wk'[j].timed_out
        /\ wk[j].proc = "none" /\ chan'[j].kind = "idle"
    BY <1>1, IdleType DEF Unborn
  <1>3. cb.pc # "idle" => cb.job # j
    BY <1>2 DEF IInv, CallbackOK
  <1>4. ASSUME NEW k \in Job PROVE Finished(k)' <=> Finished(k)
    BY <1>1, <1>2, <1>3 DEF Finished
  <1>5. ~Finished(j)' BY <1>1, <1>2, <1>3 DEF Finished
  <1>6. Tale(j)'
    <2>1. ctx'[j].state = 0 /\ ctx'[j].ev = <<>>
      BY <1>1 DEF FreshCtx, CS_SETUP
    <2>2. Given(<<>>) = 0 BY GivenNothing
    <2>3. Ordered(<<>>, MayEndTwice(j)') /\ Opens(<<>>) BY DEF Ordered, Opens
    <2>4. History(j)'
      <3>1. Fits(0, <<>>) BY DEF Fits
      <3>2. VerdictCount(j)' = 0 BY <2>1, <2>2 DEF VerdictCount
      <3>3. /\ Ordered(ctx'[j].ev, MayEndTwice(j)') /\ Opens(ctx'[j].ev)
            /\ Fits(ctx'[j].state, ctx'[j].ev)
        BY <2>1, <2>3, <3>1
      <3>4. QED BY <1>5, <3>2, <3>3 DEF History
    <2>5. Pending(j)' BY <1>2, <2>1 DEF Pending
    <2>6. QED BY <2>4, <2>5 DEF Tale
  <1>7. \A k \in Job : Tale(k)'
    BY <1>1, <1>4, <1>6, TaleStays DEF Story
  <1>8. Reported'
    BY <1>1, <1>3 DEF Story, Reported, Signaled, IInv, CallbackOK, TypeOK
  <1>9. Reaping'
    <2>1. \A k \in subs : ~Finished(k)
      BY DEF Story, Reaping, SpawnNext, AtTest
    <2>2. subs \subseteq Job BY DEF IInv, TypeOK
    <2>3. QED BY <1>1, <1>4, <1>5, <2>1, <2>2 DEF Reaping
  <1>10. QED BY <1>7, <1>8, <1>9 DEF Story

----------------------------------------------------------------------------
(* The events of every test, along the steps of the server.                *)

\* What a handler leaves behind: the context of j, and the answer on c.
LEMMA HandledFacts ==
    ASSUME IInv, Story, Slots, NEW c \in Socket, NEW j \in Job, j = Client(c),
           j \in subs, Reading(c), NEW v \in View, Handled(c, v)
    PROVE  /\ ctx'[j].state = v.state /\ ctx'[j].ev = v.ev
           /\ ctx'[j].t = v.t /\ ss'[j[1]] = v.ss /\ g' = v.g
           /\ UNCHANGED <<wk, cb, subs>> /\ rpc = "recv" /\ active > 0
           /\ Resume(j, v)
           /\ chan[c].kind \in Requests /\ chan'[c].kind \in {"ok", "idle"}
           /\ \A k \in Job \ {j} : ctx'[k] = ctx[k] /\ chan'[k] = chan[k]
           /\ \A s \in DOMAIN Suites : s # j[1] => ss'[s] = ss[s]
           /\ c # Own => c = j /\ chan'[Own] = chan[Own]
           /\ c = Own => /\ chan'[j] = chan[j] /\ chan'[Own].kind = "ok"
                         /\ cb.job = j /\ wk[j].proc = "dead"
                         /\ \/ cb.pc = "death" /\ chan[Own].kind \in {"CRASH", "EXIT"}
                            \/ cb.pc = "timeout" /\ chan[Own] = M("PHASE", CS_TIMEOUT)
           /\ \A k \in subs : ~Finished(k)
           /\ \A k \in Job \ {j} : Finished(k)' <=> Finished(k)
           /\ Finished(j)' <=> c = Own /\ cb.pc = "death"
  <1>0. /\ ctx \in [Job -> ClientCtx] /\ chan \in [Socket -> Msg]
        /\ ss \in [DOMAIN Suites -> [SuiteCounter -> Nat]] /\ j[1] \in DOMAIN Suites
        /\ j \in Socket /\ Own \in Socket /\ Job \subseteq Socket
        /\ subs \subseteq Job /\ j # Own /\ \A k \in Job : k # Own
    BY JobFacts DEF IInv, TypeOK, WorkerTypeOK, Socket
  <1>1. /\ rpc = "recv" /\ chan[c].kind \in Requests BY DEF Reading
  <1>2. active > 0 BY <1>1 DEF IInv, LoopOK, Slots
  <1>3. \A k \in subs : ~Finished(k) BY <1>1 DEF Story, Reaping
  <1>4. /\ ctx' = [ctx EXCEPT ![j] = [state |-> v.state, alive |-> v.alive,
                                      t |-> v.t, ev |-> v.ev]]
        /\ ss' = [ss EXCEPT ![j[1]] = v.ss] /\ g' = v.g
        /\ Answer(c, "ok") /\ Resume(j, v)
        /\ UNCHANGED <<wk, cb, subs, active, initial, pos>>
    BY DEF Handled
  <1>5. /\ ctx'[j].state = v.state /\ ctx'[j].ev = v.ev /\ ctx'[j].t = v.t
        /\ \A k \in Job \ {j} : ctx'[k] = ctx[k]
        /\ ss'[j[1]] = v.ss /\ \A s \in DOMAIN Suites : s # j[1] => ss'[s] = ss[s]
    BY <1>0, <1>4
  <1>6. PICK m : /\ chan' = [chan EXCEPT ![c] = m] /\ m.kind \in {"ok", "idle"}
                 /\ c = Own => m.kind = "ok"
    BY <1>4, MsgType, IdleType DEF Answer, Answers
  <1>7. chan'[c] = m /\ \A k \in Socket \ {c} : chan'[k] = chan[k]
    BY <1>0, <1>6
  <1>8. c # Own => c = j BY DEF Client
  <1>9. c = Own => /\ cb.job = j /\ wk[j].proc = "dead"
                   /\ \/ cb.pc = "death" /\ chan[Own].kind \in {"CRASH", "EXIT"}
                      \/ cb.pc = "timeout" /\ chan[Own] = M("PHASE", CS_TIMEOUT)
    BY <1>1, OwnRequest DEF Client, IInv, CallbackOK, Requests
  <1>10. /\ chan'[c].kind \in {"ok", "idle"}
         /\ \A k \in Job \ {j} : chan'[k] = chan[k]
         /\ c # Own => chan'[Own] = chan[Own]
         /\ c = Own => chan'[j] = chan[j] /\ chan'[Own].kind = "ok"
    BY <1>0, <1>6, <1>7, <1>8, <1>9
  <1>11. c = Own => chan[Own].kind # "ok" BY <1>1 DEF Requests
  <1>12. ASSUME NEW k \in Job \ {j} PROVE Finished(k)' <=> Finished(k)
    BY <1>4, <1>9, <1>10 DEF Finished
  <1>13. Finished(j)' <=> c = Own /\ cb.pc = "death"
    <2>1. wk[j].proc # "waited" BY <1>3 DEF Finished
    <2>2. CASE c = Own BY <1>4, <1>9, <1>10, <2>1, <2>2 DEF Finished
    <2>3. CASE c # Own
      <3>1. ~Finished(j) BY <1>3
      <3>2. QED BY <1>4, <1>10, <2>3, <3>1 DEF Finished
    <2>4. QED BY <2>2, <2>3
  <1>14. QED
    BY <1>1, <1>2, <1>3, <1>4, <1>5, <1>8, <1>9, <1>10, <1>12, <1>13

\* It is enough to follow the test whose context changed.
LEMMA HandledStory ==
    ASSUME IInv, Story, Slots, NEW c \in Socket, NEW j \in Job, j = Client(c),
           j \in subs, Reading(c), NEW v \in View, Handled(c, v),
           Finished(j)' => ~v.alive, Tale(j)'
    PROVE  Story'
  <1>1. \A k \in Job : Tale(k)'
    BY HandledFacts, TaleStays DEF Story
  <1>2. Reported'
    <2>1. UNCHANGED <<wk, cb>> /\ (chan'[Own] = chan[Own] \/ chan'[Own].kind = "ok")
      BY HandledFacts
    <2>2. QED BY <2>1 DEF Story, Reported, Signaled
  <1>3. Reaping'
    <2>1. /\ subs' = subs /\ Resume(j, v) /\ subs \subseteq Job
          /\ \A k \in subs : ~Finished(k)
          /\ \A k \in Job \ {j} : Finished(k)' <=> Finished(k)
      BY HandledFacts DEF IInv, TypeOK
    <2>2. ASSUME NEW k \in subs, Finished(k)'
          PROVE  k = j /\ rpc' \in {"reap", "terminate"} /\ cur' = j
      BY <2>1, <2>2 DEF Resume
    <2>3. QED BY <2>1, <2>2 DEF Reaping
  <1>4. QED BY <1>1, <1>2, <1>3 DEF Story

\* A handler that pushes no event and moves no state.
LEMMA QuietStory ==
    ASSUME IInv, Story, Slots, NEW c \in Socket, NEW j \in Job, j = Client(c),
           j \in subs, Reading(c), NEW v \in View, Handled(c, v),
           chan[c].kind \notin {"PHASE", "CRASH", "EXIT"},
           v.state = ctx[j].state, v.ev = ctx[j].ev
    PROVE  Story'
  <1>1. /\ ctx'[j].state = ctx[j].state /\ ctx'[j].ev = ctx[j].ev
        /\ UNCHANGED wk /\ ~Finished(j) /\ ~Finished(j)'
        /\ chan[j].kind # "PHASE" /\ chan'[j].kind \in {"ok", "idle"}
    <2>1. c # Own
      BY HandledFacts, MsgType, PhaseMsg DEF M
    <2>2. QED BY <2>1, HandledFacts
  <1>2. MayEndTwice(j)' <=> MayEndTwice(j) BY <1>1 DEF MayEndTwice
  <1>3. Tale(j)'
    <2>1. Tale(j) BY DEF Story
    <2>2. Pending(j)' BY <1>1, <2>1 DEF Tale, Pending
    <2>3. History(j)'
      <3>1. Sound(ctx[j].state, ctx[j].ev, MayEndTwice(j))
        BY <1>1, <2>1, SoundHistory DEF Tale
      <3>2. Sound(ctx[j].state, ctx[j].ev, MayEndTwice(j))'
        BY <1>1, <1>2, <3>1 DEF Sound, Fits, Ordered, Opens
      <3>3. QED BY <1>1, <3>2 DEF History, Sound, VerdictCount
    <2>4. QED BY <2>2, <2>3 DEF Tale
  <1>4. QED BY <1>1, <1>3, HandledStory

LEMMA PhaseStory ==
    ASSUME IInv, Story, Slots, NEW c \in Socket, HandlePhase(c)
    PROVE  Story'
  <1>1. PICK j \in Job : j = Client(c) /\ j \in subs
    BY DEF HandlePhase, Known, IInv, TypeOK
  <1> DEFINE u == viewOf(j)
             new == chan[c].arg
             v == handle_phase(u, new, Test(j))
             twice == MayEndTwice(j)
  <1>2. /\ Reading(c) /\ chan[c].kind = "PHASE" /\ Handled(c, v)
        /\ ~phase_refused(ctx[j].state, new)
    BY <1>1 DEF HandlePhase, Known
  <1>3. /\ u \in View /\ u.state = ctx[j].state /\ u.ev = ctx[j].ev
    BY ViewType DEF viewOf
  <1>4. new \in Phases
    BY <1>2, OwnRequest
    DEF IInv, SocketOK, Reading, Phases, CS_SETUP, CS_TIMEOUT, CS_SKIP, Socket
  <1>5. v \in View BY <1>2, <1>3, <1>4, HandlePhaseType
  <1> HIDE DEF u, v
  <1>6. /\ UNCHANGED wk /\ ~Finished(j) /\ ctx'[j].state = v.state
        /\ ctx'[j].ev = v.ev
        /\ c # Own => c = j /\ chan'[c].kind \in {"ok", "idle"}
        /\ c = Own => /\ cb.job = j /\ wk[j].proc = "dead" /\ cb.pc = "timeout"
                      /\ new = CS_TIMEOUT /\ chan'[j] = chan[j]
        /\ ~Finished(j)'
    <2>1. c = Own => chan[Own].kind \notin {"CRASH", "EXIT"} BY <1>2
    <2>2. M("PHASE", CS_TIMEOUT).arg = CS_TIMEOUT
      BY PhaseMsg DEF Phases, CS_SETUP, CS_TIMEOUT, CS_SKIP
    <2>3. QED BY <1>1, <1>2, <1>5, <2>1, <2>2, HandledFacts
  <1>7. Tale(j) BY DEF Story
  <1>8. twice' <=> twice BY <1>6 DEF MayEndTwice
  <1>9. c = Own => twice BY <1>6 DEF Story, Reported, MayEndTwice
  <1>10. /\ Sound(v.state, v.ev, twice)
         /\ v.state = 0 => v.ev # <<>>
         /\ new = CS_TIMEOUT => v.state \notin {0, 2}
    <2>1. Sound(u.state, u.ev, twice)
      BY <1>3, <1>6, <1>7, SoundHistory DEF Tale
    <2>2. u.state = 0 /\ new # CS_TIMEOUT => (new = CS_SETUP <=> u.ev = <<>>)
      BY <1>2, <1>3, <1>6, <1>7 DEF Tale, Pending
    <2>3. u.state = 2 /\ new \in {CS_SKIP, CS_TIMEOUT} => twice
      BY <1>2, <1>3, <1>6, <1>7, <1>9 DEF Tale, Pending
    <2>4. ~phase_refused(u.state, new) /\ twice \in BOOLEAN
      BY <1>2, <1>3 DEF MayEndTwice
    <2> HIDE DEF twice
    <2>5. QED BY <1>3, <1>4, <2>1, <2>2, <2>3, <2>4, PhaseHistory DEF v
  <1>11. History(j)'
    <2>1. /\ Ordered(v.ev, twice) /\ Opens(v.ev) /\ Fits(v.state, v.ev)
          /\ ~twice => Given(v.ev) <= 1
      BY <1>10 DEF Sound
    <2>2. /\ Ordered(ctx[j].ev, MayEndTwice(j))' /\ Opens(ctx[j].ev)'
          /\ Fits(ctx[j].state, ctx[j].ev)' /\ VerdictCount(j)' = Given(v.ev)
      BY <1>6, <1>8, <2>1 DEF Ordered, Opens, Fits, VerdictCount
    <2>3. QED BY <1>6, <1>8, <2>1, <2>2 DEF History
  <1>12. Pending(j)'
    <2>1. CASE c = Own
      BY <1>6, <1>7, <1>8, <1>10, <2>1 DEF Tale, Pending
    <2>2. CASE c # Own
      <3>1. chan'[j].kind \notin {"PHASE", "CRASH", "EXIT"} /\ chan[j].kind = "PHASE"
        BY <1>2, <1>6, <2>2
      <3>2. QED BY <1>6, <1>7, <1>10, <3>1 DEF Tale, Pending
    <2>3. QED BY <2>1, <2>2
  <1>13. QED
    BY <1>1, <1>2, <1>5, <1>6, <1>11, <1>12, HandledStory DEF Tale

LEMMA DeathStory ==
    ASSUME IInv, Story, Slots, NEW c \in Socket, HandleDeath(c)
    PROVE  Story'
  <1>1. PICK j \in Job : j = Client(c) /\ j \in subs
    BY DEF HandleDeath, Known, IInv, TypeOK
  <1> DEFINE u == viewOf(j)
             crashed == chan[c].kind = "CRASH"
             code == chan[c].arg
             v == handle_death(u, crashed, code, Test(j))
             twice == MayEndTwice(j)
  <1>2. /\ Reading(c) /\ chan[c].kind \in {"CRASH", "EXIT"} /\ Handled(c, v)
    BY <1>1 DEF HandleDeath, Known
  <1>3. /\ u \in View /\ u.state = ctx[j].state /\ u.ev = ctx[j].ev
    BY ViewType DEF viewOf
  <1>4. code \in Nat /\ crashed \in BOOLEAN
    BY DEF IInv, TypeOK, WorkerTypeOK, Msg
  <1> HIDE DEF u, v, crashed, code
  <1>5. v \in View /\ v.state = ctx[j].state /\ v.alive = FALSE
    BY ZenonT(60), <1>3, <1>4, HandleDeathType DEF v
  <1>6. Tale(j) BY DEF Story
  <1>7. c = Own
    BY <1>1, <1>2, <1>6 DEF Tale, Pending, Client
  <1>8. /\ UNCHANGED <<wk, cb>> /\ ~Finished(j) /\ ctx'[j].state = v.state
        /\ ctx'[j].ev = v.ev /\ cb.job = j /\ wk[j].proc = "dead"
        /\ cb.pc = "death" /\ chan'[j] = chan[j] /\ Finished(j)'
    <2>1. M("PHASE", CS_TIMEOUT).kind = "PHASE"
      BY PhaseMsg DEF Phases, CS_SETUP, CS_TIMEOUT, CS_SKIP
    <2>2. QED BY <1>1, <1>2, <1>5, <1>7, <2>1, HandledFacts
  <1>9. crashed <=> Signaled(j)
    BY <1>2, <1>7, <1>8 DEF Story, Reported, crashed
  <1>10. /\ Ordered(v.ev, twice) /\ Opens(v.ev)
         /\ ~twice => Given(v.ev) <= 1
         /\ IF nested(v.state) /\ ~(crashed /\ curstate(v.state) = CS_MAIN)
            THEN Given(v.ev) = 0 ELSE Given(v.ev) \in {1, 2}
    <2>1. Sound(u.state, u.ev, twice) /\ twice \in BOOLEAN
      BY <1>3, <1>6, <1>8, SoundHistory DEF Tale, MayEndTwice
    <2> HIDE DEF twice
    <2>2. v.state = u.state BY <1>3, <1>5
    <2>3. QED BY <1>3, <1>4, <2>1, <2>2, DeathHistory DEF v
  <1>11. /\ twice' <=> twice
         /\ EndedInTheory(j)' <=>
              nested(v.state) /\ ~(crashed /\ curstate(v.state) = CS_MAIN)
         /\ VerdictCount(j)' = Given(v.ev)
    BY <1>8, <1>9 DEF MayEndTwice, EndedInTheory, Signaled, VerdictCount
  <1>12. History(j)'
    <2>1. Ordered(ctx[j].ev, MayEndTwice(j))' /\ Opens(ctx[j].ev)'
      BY <1>8, <1>10, <1>11 DEF Ordered, Opens
    <2>2. QED BY <1>8, <1>10, <1>11, <2>1 DEF History
  <1>13. Pending(j)' BY <1>6, <1>8 DEF Tale, Pending
  <1>14. QED
    BY <1>1, <1>2, <1>5, <1>12, <1>13, HandledStory DEF Tale

\* The server answers with an error, and no context changes.
LEMMA RefusedStory ==
    ASSUME IInv, IInv', Story, Slots, NEW c \in Socket, Receive(c),
           UNCHANGED <<ctx, ss, g>>, Answer(c, "nack")
    PROVE  Story'
  <1>0. /\ UNCHANGED <<wk, cb, subs>> /\ chan[c].kind \in Requests
        /\ rpc = "recv" /\ chan \in [Socket -> Msg] /\ Own \in Socket
        /\ Job \subseteq Socket /\ \A k \in Job : k # Own
    BY Received, JobFacts DEF Reading, IInv, TypeOK, WorkerTypeOK, Socket
  <1>1. PICK m : chan' = [chan EXCEPT ![c] = m] /\ m.kind \in {"nack", "idle"}
    <2>1. PICK m \in {Idle, M("nack", 0)} : chan' = [chan EXCEPT ![c] = m]
      BY DEF Answer
    <2>2. m.kind \in {"nack", "idle"} BY MsgType, IdleType DEF Answers
    <2>3. QED BY <2>1, <2>2
  <1>2. chan'[c] = m /\ \A k \in Socket \ {c} : chan'[k] = chan[k]
    BY <1>0, <1>1
  <1>3. ASSUME NEW k \in Job PROVE Finished(k)' <=> Finished(k)
    <2>1. chan[Own].kind = "ok" <=> chan'[Own].kind = "ok"
      BY <1>0, <1>1, <1>2 DEF Requests
    <2>2. QED BY <1>0, <2>1 DEF Finished
  <1>4. ASSUME NEW k \in Job PROVE Tale(k)'
    <2>1. CASE k # c BY <1>0, <1>2, <1>3, <2>1, TaleStays DEF Story
    <2>2. CASE k = c
      <3>1. chan'[k].kind = "idle"
        BY <1>1, <1>2, <2>2 DEF IInv, SocketOK
      <3>2. wk[k].proc # "running"
        <4>1. CASE Client(c) \notin subs
          BY <1>0, <2>2, <4>1 DEF Client, IInv, Coupled
        <4>2. CASE RefusePhase(c)
          BY <1>0, <2>2, <4>2
          DEF RefusePhase, Known, Client, IInv, Coupled, Agrees
        <4>3. QED
          <5>1. ASSUME wk[k].proc = "running" PROVE FALSE
            <6>1. k \in Job /\ chan' = [chan EXCEPT ![k] = M("nack", 0)]
              BY <1>0, <2>2, <5>1 DEF Answer
            <6>2. chan'[k].kind = "nack" BY <1>0, <6>1, MsgType DEF Answers
            <6>3. QED BY <6>2 DEF IInv, SocketOK
          <5>2. QED BY <5>1
      <3>3. Tale(k) BY DEF Story
      <3>4. /\ MayEndTwice(k)' <=> MayEndTwice(k)
            /\ EndedInTheory(k)' <=> EndedInTheory(k)
            /\ VerdictCount(k)' = VerdictCount(k)
        BY <1>0 DEF MayEndTwice, EndedInTheory, Signaled, VerdictCount
      <3>5. /\ Ordered(ctx[k].ev, MayEndTwice(k))' <=> Ordered(ctx[k].ev, MayEndTwice(k))
            /\ Opens(ctx[k].ev)' <=> Opens(ctx[k].ev)
            /\ Fits(ctx[k].state, ctx[k].ev)' <=> Fits(ctx[k].state, ctx[k].ev)
        BY <3>4 DEF Ordered
      <3>6. History(k)' BY <1>3, <3>3, <3>4, <3>5 DEF Tale, History
      <3>7. Pending(k)' BY <1>0, <3>1, <3>2 DEF Pending
      <3>8. QED BY <3>6, <3>7 DEF Tale
    <2>3. QED BY <2>1, <2>2
  <1>5. Reported'
    <2>1. CASE c # Own
      BY <1>0, <1>2, <2>1 DEF Story, Reported, Signaled
    <2>2. CASE c = Own
      <3>1. chan'[Own].kind \notin {"CRASH", "EXIT", "ok"}
        BY <1>1, <1>2, <2>2
      <3>2. cb'.pc # "death" BY <3>1 DEF IInv, CallbackOK
      <3>3. QED BY <1>0, <3>2 DEF Story, Reported
    <2>3. QED BY <2>1, <2>2
  <1>6. Reaping'
    <2>1. subs \subseteq Job /\ \A k \in subs : ~Finished(k)
      BY <1>0 DEF Story, Reaping, IInv, TypeOK
    <2>2. QED BY <1>0, <1>3, <2>1 DEF Reaping
  <1>7. QED BY <1>4, <1>5, <1>6 DEF Story

LEMMA ReceiveStory ==
    ASSUME IInv, IInv', Story, Slots, NEW c \in Socket, Receive(c)
    PROVE  Story'
  <1>0. chan[c].arg \in Nat BY DEF IInv, TypeOK, WorkerTypeOK, Msg
  <1>1. CASE DropMessage(c)
    BY <1>1, RefusedStory DEF DropMessage, serverVars
  <1>2. CASE RefusePhase(c)
    BY <1>2, RefusedStory DEF RefusePhase, serverVars
  <1>3. CASE HandlePhase(c) BY <1>3, PhaseStory
  <1>4. CASE HandleDeath(c) BY <1>4, DeathStory
  <1>5. ASSUME NEW kind \in Requests \ {"PHASE", "CRASH", "EXIT"}, Known(c, kind),
               NEW v \in View, Handled(c, v),
               v.state = ctx[Client(c)].state, v.ev = ctx[Client(c)].ev
        PROVE  Story'
    <2>1. PICK j \in Job : j = Client(c) /\ j \in subs
      BY <1>5 DEF Known, IInv, TypeOK
    <2>2. Reading(c) /\ chan[c].kind \notin {"PHASE", "CRASH", "EXIT"}
      BY <1>5 DEF Known
    <2>3. QED BY <1>5, <2>1, <2>2, QuietStory
  <1> DEFINE u == viewOf(Client(c))
  <1>v. ASSUME Client(c) \in subs
        PROVE  /\ u \in View /\ u.state = ctx[Client(c)].state
               /\ u.ev = ctx[Client(c)].ev
    <2>1. Client(c) \in Job BY <1>v DEF IInv, TypeOK
    <2>2. QED BY <2>1, ViewType DEF viewOf
  <1> HIDE DEF u
  <1>6. CASE HandleBirth(c)
    <2>1. Known(c, "BIRTH") /\ Handled(c, handle_birth(u)) /\ Client(c) \in subs
      BY <1>6 DEF HandleBirth, Known, u
    <2>2. /\ handle_birth(u) \in View /\ handle_birth(u).state = u.state
          /\ handle_birth(u).ev = u.ev
      BY <1>v, <2>1 DEF handle_birth, View
    <2>3. QED BY <1>5, <1>v, <2>1, <2>2 DEF Requests
  <1>7. CASE HandleAssert(c)
    <2>1. PICK passed \in BOOLEAN : Handled(c, push_assert(u, passed))
      BY <1>7 DEF HandleAssert, handle_assert, u
    <2>2. Known(c, "ASSERT") /\ Client(c) \in subs BY <1>7 DEF HandleAssert, Known
    <2>3. push_assert(u, passed) \in View /\ push_assert(u, passed).state = u.state
      BY <1>v, <2>2, KeepsAssert DEF Keeps
    <2>4. push_assert(u, passed).ev = u.ev
      BY <1>v, <2>2 DEF push_assert, Tally, View
    <2>5. QED BY <1>5, <1>v, <2>1, <2>2, <2>3, <2>4 DEF Requests
  <1>8. CASE HandleStatistic(c)
    <2>1. /\ Known(c, "STATISTIC") /\ Handled(c, handle_statistic(u, chan[c].arg))
          /\ Client(c) \in subs
      BY <1>8 DEF HandleStatistic, Known, u
    <2>2. /\ handle_statistic(u, chan[c].arg) \in View
          /\ handle_statistic(u, chan[c].arg).state = u.state
      BY <1>0, <1>v, <2>1, HandleStatisticType DEF Keeps
    <2>3. handle_statistic(u, chan[c].arg).ev = u.ev
      BY <1>v, <2>1 DEF handle_statistic, View
    <2>4. QED BY <1>5, <1>v, <2>1, <2>2, <2>3 DEF Requests
  <1>9. CASE HandleMessage(c)
    <2>1. /\ Known(c, "INFO") \/ Known(c, "WARNING") \/ Known(c, "ERROR")
          /\ Handled(c, handle_message(u, chan[c].kind)) /\ Client(c) \in subs
      BY <1>9 DEF HandleMessage, Known, u
    <2>2. /\ handle_message(u, chan[c].kind) \in View
          /\ handle_message(u, chan[c].kind).state = u.state
      BY <1>v, <2>1, HandleMessageType DEF Keeps
    <2>3. handle_message(u, chan[c].kind).ev = u.ev
      BY <1>v, <2>1 DEF handle_message, View
    <2>4. QED BY <1>5, <1>v, <2>1, <2>2, <2>3 DEF Requests
  <1>10. QED
    BY <1>1, <1>2, <1>3, <1>4, <1>6, <1>7, <1>8, <1>9 DEF Receive

LEMMA StoryKept ==
    ASSUME IInv, Slots, Story, [Next]_vars
    PROVE  Story'
  <1>1. CASE Others BY <1>1, OthersStory
  <1>2. CASE SpawnNext BY <1>2, SpawnStory
  <1>3. CASE \E c \in Socket : Receive(c)
    BY <1>3, ReceiveStory, Inductive
  \* What is left changes neither a worker nor a test.
  <1>4. ASSUME UNCHANGED <<wk, chan, cb, ctx>>, Reaping' PROVE Story'
    <2>1. ASSUME NEW k \in Job PROVE Tale(k)'
      <3>1. Finished(k)' <=> Finished(k) BY <1>4 DEF Finished
      <3>2. QED BY <1>4, <3>1, TaleStays DEF Story
    <2>2. Reported' BY <1>4 DEF Story, Reported, Signaled
    <2>3. QED BY <1>4, <2>1, <2>2 DEF Story
  <1>f. ASSUME UNCHANGED <<wk, chan, cb>>, NEW k PROVE Finished(k)' <=> Finished(k)
    BY <1>f DEF Finished
  <1>5. CASE Schedule /\ ~SpawnNext
    <2>1. UNCHANGED <<wk, chan, cb, subs, ctx, cur>> /\ rpc = "sched"
      BY <1>5, Turning
    <2>2. \A k \in subs : ~Finished(k) BY <2>1 DEF Story, Reaping
    <2>3. Reaping' BY <1>f, <2>1, <2>2 DEF Reaping
    <2>4. QED BY <1>4, <2>1, <2>3
  <1>6. CASE Reap
    <2>1. UNCHANGED <<wk, chan, cb, ctx>> /\ subs' = subs \ {cur} /\ rpc = "reap"
      BY <1>6 DEF Reap, workerVars
    <2>2. \A k \in subs' : ~Finished(k) BY <2>1 DEF Story, Reaping
    <2>3. Reaping' BY <1>f, <2>1, <2>2 DEF Reaping
    <2>4. QED BY <1>4, <2>1, <2>3
  <1>7. CASE Terminate \/ CallbackAborts
    <2>1. UNCHANGED <<wk, chan, cb, ctx>> /\ rpc' \in {"terminated", "aborted"}
      BY <1>7 DEF Terminate, CallbackAborts, workerVars, serverVars
    <2>2. QED BY <1>4, <2>1 DEF Reaping
  <1>8. CASE Cleanup
    BY <1>4, <1>8 DEF Cleanup, workerVars, Reaping
  <1>9. CASE UNCHANGED vars
    <2>1. UNCHANGED <<wk, chan, cb, ctx, subs, rpc, cur>> BY <1>9 DEF vars
    <2>2. Reaping' BY <1>f, <2>1 DEF Story, Reaping
    <2>3. QED BY <1>4, <2>1, <2>2
  <1>10. QED
    BY <1>1, <1>2, <1>3, <1>5, <1>6, <1>7, <1>8, <1>9 DEF Next, RunnerStep, Ended

LEMMA StoryInit == Init => Story
  <1> SUFFICES ASSUME Init PROVE Story OBVIOUS
  <1>1. /\ \A j \in Job : wk[j] = Unborn /\ ctx[j] = FreshCtx /\ chan[j] = Idle
        /\ cb = NoDeath /\ subs = {}
    BY DEF Init, WorkerInit, Socket
  <1>2. ASSUME NEW j \in Job PROVE Tale(j)
    <2>1. /\ wk[j].proc = "none" /\ chan[j].kind = "idle"
          /\ ctx[j].state = 0 /\ ctx[j].ev = <<>> /\ cb.pc = "idle"
      BY <1>1, IdleType DEF Unborn, FreshCtx, NoDeath, CS_SETUP
    <2>2. ~Finished(j) BY <2>1 DEF Finished
    <2>3. Pending(j) BY <2>1 DEF Pending
    <2>4. Given(<<>>) = 0 BY GivenNothing
    <2>5. Ordered(<<>>, MayEndTwice(j)) /\ Opens(<<>>) BY DEF Ordered, Opens
    <2>6. Fits(0, <<>>) BY DEF Fits
    <2>7. /\ Ordered(ctx[j].ev, MayEndTwice(j)) /\ Opens(ctx[j].ev)
          /\ Fits(ctx[j].state, ctx[j].ev) /\ VerdictCount(j) = 0
      BY <2>1, <2>4, <2>5, <2>6 DEF VerdictCount
    <2>8. QED BY <2>2, <2>3, <2>7 DEF Tale, History
  <1>3. Reported /\ Reaping BY <1>1 DEF Reported, Reaping, NoDeath
  <1>4. QED BY <1>2, <1>3 DEF Story

(* At any time the events pushed for each test are what the state of its   *)
(* client says, and no message in flight can spoil them.                   *)
THEOREM StoryAlways == Spec => []Story
  <1>1. IInv /\ Slots /\ Story /\ [Next]_vars => Story' BY StoryKept
  <1>2. QED BY <1>1, StoryInit, Invariance, SlotsAlways, PTL DEF Spec

(* Whatever a test does to itself and whatever kills it: the test has one  *)
(* verdict once its worker is reaped - none when its process ended inside  *)
(* of an iteration of a theory, two at most, and two only when a time      *)
(* limit or a skip struck after the teardown had begun.                    *)
THEOREM VerdictsCounted == Spec => []OneVerdict
  <1>1. Story => OneVerdict
    <2> SUFFICES ASSUME Story, NEW j \in Job, Reaped(j)
                 PROVE  IF EndedInTheory(j) THEN VerdictCount(j) = 0
                        ELSE VerdictCount(j) \in 1 .. (IF MayEndTwice(j) THEN 2 ELSE 1)
      BY DEF OneVerdict
    <2>1. Finished(j) BY DEF Reaped, Finished
    <2>2. History(j) BY DEF Story, Tale
    <2>3. QED BY <2>1, <2>2 DEF History
  <1>2. QED BY <1>1, StoryAlways, PTL

(* The hooks of every test are reported in the documented order, however   *)
(* its messages, its death and its time limit interleave.                  *)
THEOREM HooksOrdered == Spec => []HookOrder
  <1>1. Story => HookOrder BY DEF Story, Tale, History, HookOrder
  <1>2. QED BY <1>1, StoryAlways, PTL

----------------------------------------------------------------------------
(* What the counters of the run show of a test.                            *)

LEMMA AlarmCounts ==
    ASSUME NEW c \in [GlobalCounter -> Nat], NEW K, NEW n \in Nat
    PROVE  /\ Alarmed(c) => Alarmed(Count(c, K, n))
           /\ "tests_failed" \in K \/ "warnings" \in K => Alarmed(Count(c, K, 1))
  BY DEF Alarmed, Count, GlobalCounter, SuiteCounter

\* What an early end, and the verdict, leave of the statistics of a test.
LEMMA StatsKept ==
    ASSUME NEW t \in TestStats, NEW new, NEW x
    PROVE  /\ PostTestStats(t, x).signal = t.signal
           /\ new \in {CS_ABORT, CS_TIMEOUT, CS_SKIP} =>
                 /\ StatsOf(new, t) \in TestStats
                 /\ StatsOf(new, t).signal = t.signal
                 /\ new = CS_TIMEOUT => StatsOf(new, t).timed_out
  <1>1. PostTestStats(t, x).signal = t.signal BY DEF PostTestStats, TestStats
  <1>2. /\ new = CS_ABORT => StatsOf(new, t) = [t EXCEPT !.test_status = FAILED]
        /\ new = CS_TIMEOUT => StatsOf(new, t) = [t EXCEPT !.timed_out = TRUE]
        /\ new = CS_SKIP => StatsOf(new, t) = [t EXCEPT !.test_status = SKIPPED]
    BY HandlerOf
  <1>3. FAILED \in TestStatus /\ SKIPPED \in TestStatus BY DEF TestStatus
  <1>4. CS_TIMEOUT \notin {CS_ABORT, CS_SKIP} BY DEF CS_ABORT, CS_TIMEOUT, CS_SKIP
  <1>5. QED BY <1>1, <1>2, <1>3, <1>4 DEF TestStats

\* A verdict on a test whose signal or time is not the expected one fails.
LEMMA FailCounts ==
    ASSUME NEW t \in TestStats, NEW x, Unexpected(t, x)
    PROVE  "tests_failed" \in PostTestCounts(t, x)
  <1>1. PostTestStats(t, x).test_status = FAILED
    BY DEF PostTestStats, TestStats
  <1>2. VerdictCounter(FAILED) = "tests_failed"
    BY DEF VerdictCounter, FAILED, PASSED, SKIPPED
  <1>3. QED BY <1>1, <1>2 DEF PostTestCounts

LEMMA OneAlarm ==
    ASSUME NEW v \in View, NEW w, NEW e, NEW K, NEW t, One(v, w, e, K, t)
    PROVE  /\ Alarmed(v.g) => Alarmed(w.g)
           /\ "tests_failed" \in K => Alarmed(w.g)
           /\ w.t = t
  <1>1. v.g \in [GlobalCounter -> Nat] BY DEF View
  <1>2. QED BY <1>1, AlarmCounts DEF One

LEMMA EndAlarm ==
    ASSUME NEW v \in View, NEW w, NEW x, NEW t \in TestStats, Ending(v, w, x, t)
    PROVE  /\ Alarmed(v.g) => Alarmed(w.g)
           /\ t.timed_out \/ t.signal # x.signal => Alarmed(w.g)
           /\ w.t.signal = t.signal
  <1>1. v.g \in [GlobalCounter -> Nat] BY DEF View
  <1>2. w.g = Count(v.g, PostTestCounts(t, x), 1) /\ w.t = PostTestStats(t, x)
    BY DEF Ending
  <1>3. t.timed_out \/ t.signal # x.signal => Unexpected(t, x)
    BY DEF Unexpected
  <1>4. t.timed_out \/ t.signal # x.signal => "tests_failed" \in PostTestCounts(t, x)
    BY <1>3, FailCounts
  <1>5. w.t.signal = t.signal BY <1>2, StatsKept
  <1> HIDE DEF Alarm
  <1>6. QED BY <1>1, <1>2, <1>4, <1>5, AlarmCounts

LEMMA PhaseAlarm ==
    ASSUME NEW v \in View, NEW new \in Phases, NEW x,
           ~phase_refused(v.state, new)
    PROVE  LET w == handle_phase(v, new, x)
           IN  /\ Alarmed(v.g) => Alarmed(w.g)
               /\ w.t.signal = v.t.signal
               /\ v.t.signal # x.signal /\ v.state \notin {2, 3} /\ w.state \in {2, 3}
                     => Alarmed(w.g)
               /\ new = CS_TIMEOUT => Alarmed(w.g) \/ nested(v.state)
               /\ new = CS_TIMEOUT /\ w.state = 1 => nested(v.state)
               /\ nested(w.state) => \/ nested(v.state)
                                     \/ v.state = 1 /\ new = CS_SETUP
  <1> DEFINE w == handle_phase(v, new, x)
             s == v.state
             t == v.t
             p == StatsOf(new, t)
             Goal == /\ Alarmed(v.g) => Alarmed(w.g)
                     /\ w.t.signal = t.signal
                     /\ t.signal # x.signal /\ s \notin {2, 3} /\ w.state \in {2, 3}
                           => Alarmed(w.g)
                     /\ new = CS_TIMEOUT => Alarmed(w.g) \/ nested(s)
                     /\ new = CS_TIMEOUT /\ w.state = 1 => nested(s)
                     /\ nested(w.state) => nested(s) \/ (s = 1 /\ new = CS_SETUP)
  <1>1. PhaseOutcome(v, w, new, x, s) BY PhaseEffect
  <1>2. t \in TestStats BY DEF View
  <1>3. /\ nested(4) /\ nested(5) /\ nested(6)
        /\ \A n \in {0, 1, 2, 3} : ~nested(n)
        /\ CS_TIMEOUT \notin {CS_SETUP, CS_MAIN, CS_TEARDOWN, CS_END, CS_ABORT}
    BY DEF nested, CS_MAX_CLIENT_STATES, CS_TIMEOUT, CS_SETUP, CS_MAIN,
           CS_TEARDOWN, CS_END, CS_ABORT
  <1>4. PostTestStats(t, x).signal = t.signal BY <1>2, StatsKept
  <1>5. new \in {CS_ABORT, CS_TIMEOUT, CS_SKIP} =>
           /\ p \in TestStats /\ p.signal = t.signal
           /\ new = CS_TIMEOUT => p.timed_out
    BY <1>2, StatsKept
  <1> HIDE DEF w, s, t, p
  <1>6. ASSUME NEW e, NEW K, NEW q, One(v, w, e, K, q), q.signal = t.signal,
               new # CS_TIMEOUT, ~nested(w.state),
               s \in {2, 3} \/ w.state \notin {2, 3}
        PROVE  Goal
    BY <1>6, OneAlarm
  <1>7. ASSUME new = CS_TEARDOWN, w.state = 2,
               One(v, w, "POST_TEST", PostTestCounts(t, x), PostTestStats(t, x))
        PROVE  Goal
    <2>1. t.signal # x.signal => "tests_failed" \in PostTestCounts(t, x)
      BY <1>2, FailCounts DEF Unexpected
    <2>2. QED BY <1>3, <1>4, <1>7, <2>1, OneAlarm
  <1>8. ASSUME new \in {CS_ABORT, CS_TIMEOUT, CS_SKIP}, w.state = 3,
               Ending(v, w, x, p)
        PROVE  Goal
    BY <1>3, <1>5, <1>8, EndAlarm
  <1>9. ASSUME Same(v, w, t), w.state \notin {2, 3},
               nested(s) \/ (s = 1 /\ new = CS_SETUP)
        PROVE  Goal
    BY <1>3, <1>9 DEF Same, t
  <1>o. ASSUME NEW e, NEW K, NEW q, One(v, w, e, K, q), q = t, nested(s),
               w.state = 1
        PROVE  Goal
    BY <1>3, <1>o, OneAlarm
  <1>10. Goal
    <2> HIDE DEF Goal
    <2>1. CASE s = 0 /\ new \in {CS_SETUP, CS_MAIN}
      <3>1. CS_SETUP \notin {CS_ABORT, CS_TIMEOUT, CS_SKIP}
            /\ CS_MAIN \notin {CS_ABORT, CS_TIMEOUT, CS_SKIP}
        BY DEF CS_SETUP, CS_MAIN, CS_ABORT, CS_TIMEOUT, CS_SKIP
      <3>2. \/ w.state = 0 /\ One(v, w, "PRE_INIT", PreInitCounts(t), t)
            \/ w.state = 1 /\ One(v, w, "PRE_TEST", {}, t)
        BY <1>1, <2>1, <3>1 DEF PhaseOutcome, t
      <3>3. QED BY <1>3, <1>6, <2>1, <3>1, <3>2
    <2>2. QED BY <1>1, <1>3, <1>5, <1>6, <1>7, <1>8, <1>9, <1>o
              DEF PhaseOutcome, t, p, s
  <1>11. QED BY <1>10 DEF w, s, t

LEMMA DeathAlarm ==
    ASSUME NEW v \in View, NEW crashed \in BOOLEAN, NEW code \in Nat, NEW x
    PROVE  LET w == handle_death(v, crashed, code, x)
           IN  /\ Alarmed(v.g) => Alarmed(w.g)
               /\ crashed /\ code # x.signal => Alarmed(w.g)
               /\ ~crashed /\ x.signal # 0 /\ v.t.signal = 0 /\ v.state < 2
                     => Alarmed(w.g)
  <1> DEFINE w == handle_death(v, crashed, code, x)
             u == Mourned(v, crashed)
             s == v.state
             a == [v.t EXCEPT !.signal = code]
             b == [v.t EXCEPT !.exit_code = code]
  <1>1. /\ u \in View /\ u.t = v.t
        /\ DeathOutcome(u, w, crashed, code, x, s)
    BY DeathEffect
  <1>2. s \in {0, 1, 2, 3, 4, 5, 6} BY DEF View, ClientState
  <1>3. /\ Alarmed(v.g) => Alarmed(u.g)
        /\ crashed /\ s \notin {1, 5} => Alarmed(u.g)
    <2>1. v.g \in [GlobalCounter -> Nat] BY DEF View
    <2>2. s \notin {1, 5} => curstate(s) # CS_MAIN
      BY <1>2 DEF curstate, CS_MAX_CLIENT_STATES, CS_MAIN
    <2>3. u.g = IF crashed /\ curstate(s) # CS_MAIN
                THEN Count(v.g, {"warnings"}, 1) ELSE v.g
      BY Warned DEF Mourned
    <2> HIDE DEF s, u
    <2>4. QED BY <2>1, <2>2, <2>3, AlarmCounts
  <1>4. a \in TestStats /\ a.signal = code /\ b \in TestStats /\ b.signal = v.t.signal
    BY DEF View, TestStats
  <1> HIDE DEF w, u, a, b
  <1>5. "tests_failed" \in CrashCounts BY DEF CrashCounts
  <1>6. DeathOutcome(u, w, crashed, code, x, s)
          => \/ s = 0 /\ Alarmed(w.g)
             \/ s \in {1, 5} /\ crashed /\ Alarmed(w.g)
             \/ s \in {1, 5} /\ crashed /\ Ending(u, w, x, a)
             \/ s = 1 /\ ~crashed /\ Ending(u, w, x, b)
             \/ s >= 2 /\ (~crashed \/ s \notin {1, 5}) /\ w.g = u.g
    <2> SUFFICES ASSUME DeathOutcome(u, w, crashed, code, x, s)
                 PROVE  \/ s = 0 /\ Alarmed(w.g)
                        \/ s \in {1, 5} /\ crashed /\ Alarmed(w.g)
                        \/ s \in {1, 5} /\ crashed /\ Ending(u, w, x, a)
                        \/ s = 1 /\ ~crashed /\ Ending(u, w, x, b)
                        \/ s >= 2 /\ (~crashed \/ s \notin {1, 5}) /\ w.g = u.g
      OBVIOUS
    <2>1. \A e, t : One(u, w, e, CrashCounts, t) => Alarmed(w.g)
      BY <1>1, <1>5, OneAlarm
    <2>2. \A t : Same(u, w, t) => w.g = u.g BY DEF Same
    <2>3. a = [u.t EXCEPT !.signal = code] /\ b = [u.t EXCEPT !.exit_code = code]
      BY <1>1 DEF a, b
    <2>4. QED BY <1>2, <2>1, <2>2, <2>3 DEF DeathOutcome
  <1>7. /\ Ending(u, w, x, a) => /\ Alarmed(u.g) => Alarmed(w.g)
                                 /\ code # x.signal => Alarmed(w.g)
        /\ Ending(u, w, x, b) => /\ Alarmed(u.g) => Alarmed(w.g)
                                 /\ v.t.signal # x.signal => Alarmed(w.g)
    BY <1>1, <1>4, EndAlarm
  <1>8. QED BY <1>1, <1>2, <1>3, <1>6, <1>7 DEF w, u

----------------------------------------------------------------------------
(* What the counters of the run show, along every step.                    *)

Shown == \A j \in Job : Evidence(j)

LEMMA EvidenceStays ==
    ASSUME NEW k \in Job, Evidence(k), Finished(k)' <=> Finished(k),
           wk'[k] = wk[k], chan'[k] = chan[k] \/ chan'[k].kind # "PHASE",
           ctx'[k].state = ctx[k].state, ctx'[k].t.signal = ctx[k].t.signal,
           wk[k].timed_out /\ LimitHandled(k)' => LimitHandled(k),
           Alarm => Alarm'
    PROVE  Evidence(k)'
  <1>1. /\ Signaled(k)' <=> Signaled(k)
        /\ EndedInTheory(k)' <=> EndedInTheory(k)
        /\ InTheory(k)' <=> InTheory(k)
    BY DEF Signaled, EndedInTheory, InTheory
  <1>2. QED BY <1>1 DEF Evidence

LEMMA LimitMove ==
    ASSUME IInv, CallbackStep, NEW k \in Job, wk[k].timed_out, LimitHandled(k)'
    PROVE  LimitHandled(k)
  <1>0. /\ Own \in Socket /\ chan \in [Socket -> Msg] /\ k # Own
        /\ cb \in [job : Socket, pc : {"idle", "timeout", "death"}]
    BY JobFacts DEF IInv, TypeOK, WorkerTypeOK, Socket
  <1>1. CASE \E j \in Job : CallbackStart(j)
    <2>1. PICK j \in Job : CallbackStart(j) BY <1>1
    <2>2. /\ UNCHANGED wk /\ cb'.job = j
          /\ cb'.pc = IF wk[j].timed_out THEN "timeout" ELSE "death"
          /\ cb'.pc = "timeout" => chan'[Own] = M("PHASE", CS_TIMEOUT)
      BY <1>0, <2>1 DEF CallbackStart
    <2>3. M("PHASE", CS_TIMEOUT).kind = "PHASE" BY DEF M
    <2>4. QED BY <2>2, <2>3 DEF LimitHandled
  <1>2. CASE CallbackDeath
    <2>1. UNCHANGED wk /\ cb'.job = cb.job /\ cb.pc = "timeout"
          /\ chan[Own].kind = "ok"
      BY <1>0, <1>2 DEF CallbackDeath
    <2>2. QED BY <2>1 DEF LimitHandled
  <1>3. CASE CallbackReturn
    <2>1. cb' = NoDeath /\ cb.pc = "death" BY <1>3 DEF CallbackReturn
    <2>2. wk'[k].proc = "waited" BY <1>0, <2>1 DEF LimitHandled, NoDeath
    <2>3. wk'[k] = wk[k] \/ k = cb.job BY CallbackMove
    <2>4. QED BY <2>1, <2>2, <2>3 DEF LimitHandled
  <1>4. QED BY <1>1, <1>2, <1>3 DEF CallbackStep

LEMMA OthersEvidence ==
    ASSUME IInv, Shown, Others, NEW k \in Job
    PROVE  Evidence(k)'
  <1>0. UNCHANGED <<ctx, g>> BY DEF Others, serverVars
  <1>1. (Alarm => Alarm') /\ Evidence(k) BY <1>0 DEF Alarm, Shown
  <1>2. Finished(k)' <=> Finished(k) BY OthersKeep
  <1>3. ASSUME wk'[k] = wk[k], chan'[k] = chan[k],
               wk[k].timed_out /\ LimitHandled(k)' => LimitHandled(k)
        PROVE  Evidence(k)'
    BY <1>0, <1>1, <1>2, <1>3, EvidenceStays
  <1>4. CASE UNCHANGED workerVars
    BY <1>3, <1>4 DEF workerVars, LimitHandled
  <1>5. ASSUME NEW j \in Job, Moved(j), j # k PROVE Evidence(k)'
    BY <1>3, <1>5 DEF Moved, Elsewhere, LimitHandled
  <1>6. CASE Moved(k)
    <2>1. /\ wk[k].proc = "running" /\ ~Finished(k)
          /\ cb.pc # "idle" => cb.job # k
          /\ cb' = cb /\ wk'[k].proc \in {"dead", "running"}
      BY <1>6, RunningUnfinished DEF Moved, Elsewhere, Ends, Goes, Calls
    <2>2. ~LimitHandled(k)' /\ ~Finished(k)'
      BY <1>2, <2>1 DEF LimitHandled
    <2>3. ASSUME wk'[k].proc = "running" /\ wk'[k].pc \in TheoryCounter => InTheory(k),
                 ctx[k].state = 1 /\ chan'[k].kind = "PHASE" /\ chan'[k].arg = CS_SETUP
                    => InTheory(k)
          PROVE  Evidence(k)'
      <3>1. InTheory(k)' <=> InTheory(k) BY DEF InTheory
      <3>2. QED BY <1>0, <1>1, <1>2, <2>1, <2>2, <2>3, <3>1 DEF Evidence
    <2>4. CASE Ends(k)
      BY <1>1, <2>3, <2>4, IdleType DEF Ends, Evidence
    <2>5. CASE Goes(k)
      <3>1. /\ chan'[k].kind # "PHASE"
            /\ wk'[k].pc \in TheoryCounter => wk[k].pc \in TheoryCounter
        BY <2>5 DEF Goes, Places
      <3>2. QED BY <1>1, <2>1, <2>3, <3>1 DEF Evidence
    <2>6. CASE \E new \in Phases : Calls(k, new)
      <3>1. PICK new \in Phases : Calls(k, new) BY <2>6
      <3>2. /\ chan'[k].arg = new /\ chan[k].kind = "idle"
            /\ wk'[k].pc \in TheoryCounter => wk[k].pc \in TheoryCounter \/ InTheory(k)
            /\ new = CS_SETUP => wk[k].pc \in {"setup", "th_setup"}
        BY <3>1, PhaseMsg, IdleType DEF Calls
      <3>3. ctx[k].state = 1 => wk[k].pc # "setup"
        BY <2>1, <3>2 DEF IInv, Coupled, Agrees, StateAt, CS_SETUP
      <3>4. wk[k].pc \in TheoryCounter => InTheory(k) BY <1>1, <2>1 DEF Evidence
      <3>5. QED BY <2>3, <3>2, <3>3, <3>4 DEF TheoryCounter
    <2>7. QED BY <1>6, <2>4, <2>5, <2>6 DEF Moved
  <1>7. CASE CallbackStep
    <2>1. CASE wk'[k] = wk[k] BY <1>3, <1>7, <2>1, CallbackMove, LimitMove
    <2>2. CASE wk[k].proc = "dead" /\ Finished(k)
               /\ wk'[k] = [wk[k] EXCEPT !.proc = "waited"]
      <3>1. /\ wk'[k].proc = "waited" /\ wk'[k].crashed = wk[k].crashed
            /\ wk'[k].code = wk[k].code /\ wk'[k].timed_out = wk[k].timed_out
            /\ chan'[k] = chan[k]
        BY SMTT(30), <1>7, <2>2, CallbackMove DEF IInv, TypeOK, WorkerTypeOK, WorkerRec
      <3>2. wk[k].timed_out /\ LimitHandled(k)' => LimitHandled(k)
        BY <1>7, LimitMove
      <3>3. /\ Signaled(k)' <=> Signaled(k)
            /\ EndedInTheory(k)' <=> EndedInTheory(k)
            /\ InTheory(k)' <=> InTheory(k)
        BY <1>0, <3>1 DEF Signaled, EndedInTheory, InTheory
      <3>4. QED BY <1>0, <1>1, <1>2, <3>1, <3>2, <3>3 DEF Evidence
    <2>3. QED BY <1>7, <2>1, <2>2, CallbackMove
  <1>8. QED BY <1>4, <1>5, <1>6, <1>7, WorkerMove DEF Others

\* It is enough to follow the test whose context changed.
LEMMA HandledEvidence ==
    ASSUME IInv, Story, Slots, Shown, NEW c \in Socket, NEW j \in Job,
           j = Client(c), j \in subs, Reading(c), NEW v \in View, Handled(c, v),
           Alarm => Alarmed(v.g), Evidence(j)'
    PROVE  Shown'
  <1>0. g' = v.g BY HandledFacts
  <1>1. Alarm => Alarm' BY <1>0 DEF Alarm
  <1>2. ASSUME NEW k \in Job \ {j} PROVE Evidence(k)'
    <2>1. /\ wk'[k] = wk[k] /\ chan'[k] = chan[k] /\ ctx'[k] = ctx[k]
          /\ UNCHANGED <<wk, cb>>
          /\ Finished(k)' <=> Finished(k)
          /\ c = Own => cb.job = j
          /\ c # Own => chan'[Own] = chan[Own]
      BY HandledFacts
    <2>2. k \in Job /\ k # j OBVIOUS
    <2>3. LimitHandled(k)' => LimitHandled(k)
      <3>1. CASE c = Own BY <2>1, <2>2, <3>1 DEF LimitHandled
      <3>2. CASE c # Own BY <2>1, <3>2 DEF LimitHandled
      <3>3. QED BY <3>1, <3>2
    <2>4. Evidence(k) BY <2>2 DEF Shown
    <2>5. QED BY <1>1, <2>1, <2>2, <2>3, <2>4, EvidenceStays
  <1>3. QED BY <1>2 DEF Shown

\* A handler that moves neither the state nor the signal of the test.
LEMMA QuietEvidence ==
    ASSUME IInv, Story, Slots, Shown, NEW c \in Socket, NEW j \in Job,
           j = Client(c), j \in subs, Reading(c), NEW v \in View, Handled(c, v),
           chan[c].kind \notin {"PHASE", "CRASH", "EXIT"},
           v.state = ctx[j].state, v.t.signal = ctx[j].t.signal,
           Alarm => Alarmed(v.g)
    PROVE  Shown'
  <1>1. c # Own BY HandledFacts, MsgType, PhaseMsg DEF M
  <1>2. /\ ctx'[j].state = ctx[j].state /\ ctx'[j].t.signal = ctx[j].t.signal
        /\ UNCHANGED <<wk, cb>> /\ ~Finished(j) /\ ~Finished(j)'
        /\ chan'[j].kind # "PHASE" /\ chan'[Own] = chan[Own] /\ g' = v.g
    BY <1>1, HandledFacts
  <1>3. LimitHandled(j)' => LimitHandled(j) BY <1>2 DEF LimitHandled
  <1>4. Alarm => Alarm' BY <1>2 DEF Alarm
  <1>5. Evidence(j)' BY <1>2, <1>3, <1>4, EvidenceStays DEF Shown
  <1>6. QED BY <1>5, HandledEvidence

LEMMA PhaseEvidence ==
    ASSUME IInv, Story, Slots, Shown, NEW c \in Socket, HandlePhase(c)
    PROVE  Shown'
  <1>1. PICK j \in Job : j = Client(c) /\ j \in subs
    BY DEF HandlePhase, Known, IInv, TypeOK
  <1> DEFINE u == viewOf(j)
             new == chan[c].arg
             x == Test(j)
             v == handle_phase(u, new, x)
  <1>2. /\ Reading(c) /\ chan[c].kind = "PHASE" /\ Handled(c, v)
        /\ ~phase_refused(ctx[j].state, new)
    BY <1>1 DEF HandlePhase, Known
  <1>3. u \in View /\ u.state = ctx[j].state /\ u.t = ctx[j].t /\ u.g = g
    BY ViewType DEF viewOf
  <1>4. new \in Phases
    BY <1>2, OwnRequest
    DEF IInv, SocketOK, Reading, Phases, CS_SETUP, CS_TIMEOUT, CS_SKIP, Socket
  <1>5. v \in View BY <1>2, <1>3, <1>4, HandlePhaseType
  <1>6. /\ Alarm => Alarmed(v.g)
        /\ v.t.signal = ctx[j].t.signal
        /\ ctx[j].t.signal # x.signal /\ ctx[j].state \notin {2, 3}
           /\ v.state \in {2, 3} => Alarmed(v.g)
        /\ new = CS_TIMEOUT => Alarmed(v.g) \/ nested(ctx[j].state)
        /\ new = CS_TIMEOUT /\ v.state = 1 => nested(ctx[j].state)
        /\ nested(v.state) => \/ nested(ctx[j].state)
                              \/ ctx[j].state = 1 /\ new = CS_SETUP
    <2> HIDE DEF u, new, x
    <2>1. LET w == handle_phase(u, new, x)
          IN  /\ Alarmed(u.g) => Alarmed(w.g)
              /\ w.t.signal = u.t.signal
              /\ u.t.signal # x.signal /\ u.state \notin {2, 3} /\ w.state \in {2, 3}
                    => Alarmed(w.g)
              /\ new = CS_TIMEOUT => Alarmed(w.g) \/ nested(u.state)
              /\ new = CS_TIMEOUT /\ w.state = 1 => nested(u.state)
              /\ nested(w.state) => \/ nested(u.state)
                                    \/ u.state = 1 /\ new = CS_SETUP
      BY <1>2, <1>3, <1>4, PhaseAlarm
    <2>2. QED BY <1>3, <2>1 DEF Alarm
  <1> HIDE DEF u, v, new, x
  <1>7. /\ UNCHANGED <<wk, cb>> /\ ~Finished(j) /\ ~Finished(j)'
        /\ ctx'[j].state = v.state /\ ctx'[j].t = v.t /\ g' = v.g
        /\ c # Own => c = j /\ chan'[c].kind \in {"ok", "idle"}
                      /\ chan'[Own] = chan[Own]
        /\ c = Own => /\ cb.job = j /\ cb.pc = "timeout" /\ new = CS_TIMEOUT
    <2>1. c = Own => chan[Own].kind \notin {"CRASH", "EXIT"} BY <1>2
    <2>2. M("PHASE", CS_TIMEOUT).arg = CS_TIMEOUT
      BY PhaseMsg DEF Phases, CS_SETUP, CS_TIMEOUT, CS_SKIP
    <2>3. QED BY <1>1, <1>2, <1>5, <2>1, <2>2, HandledFacts DEF new
  <1>8. Evidence(j) /\ (Alarm' <=> Alarmed(v.g)) BY <1>7 DEF Shown, Alarm
  <1>9. CS_TIMEOUT # CS_SETUP BY DEF CS_TIMEOUT, CS_SETUP
  <1>10. wk[j].proc # "waited" BY <1>7 DEF Finished
  <1>11. ctx[j].state = 1 /\ new = CS_SETUP => InTheory(j)
    BY <1>2, <1>7, <1>8, <1>9 DEF Evidence, new
  <1>12. nested(v.state) => InTheory(j) BY <1>6, <1>8, <1>11 DEF Evidence
  <1>13. v.state = 1 /\ chan'[j].kind = "PHASE" => InTheory(j)
    BY <1>6, <1>7, <1>8 DEF Evidence
  <1>14. v.state \in {2, 3} /\ x.signal # 0 => Alarm'
    BY <1>6, <1>7, <1>8 DEF Evidence, x
  <1>15. wk[j].timed_out /\ LimitHandled(j)' => Alarm' \/ InTheory(j)
    <2>1. CASE c = Own BY <1>6, <1>7, <1>8, <2>1 DEF Evidence
    <2>2. CASE c # Own
      <3>1. LimitHandled(j)' => LimitHandled(j) BY <1>7, <2>2 DEF LimitHandled
      <3>2. QED BY <1>6, <1>8, <3>1 DEF Evidence
    <2>3. QED BY <2>1, <2>2
  <1>16. InTheory(j)' <=> InTheory(j) BY DEF InTheory
  <1>17. Evidence(j)'
    BY <1>6, <1>7, <1>8, <1>10, <1>12, <1>13, <1>14, <1>15, <1>16 DEF Evidence, x
  <1>18. QED BY <1>1, <1>2, <1>5, <1>6, <1>17, HandledEvidence

LEMMA DeathEvidence ==
    ASSUME IInv, Story, Slots, Shown, NEW c \in Socket, HandleDeath(c)
    PROVE  Shown'
  <1>1. PICK j \in Job : j = Client(c) /\ j \in subs
    BY DEF HandleDeath, Known, IInv, TypeOK
  <1> DEFINE u == viewOf(j)
             crashed == chan[c].kind = "CRASH"
             code == chan[c].arg
             x == Test(j)
             v == handle_death(u, crashed, code, x)
             s == ctx[j].state
  <1>2. Reading(c) /\ chan[c].kind \in {"CRASH", "EXIT"} /\ Handled(c, v)
    BY <1>1 DEF HandleDeath, Known
  <1>3. u \in View /\ u.state = s /\ u.t = ctx[j].t /\ u.g = g
    BY ViewType DEF viewOf
  <1>4. code \in Nat /\ crashed \in BOOLEAN /\ s \in {0, 1, 2, 3, 4, 5, 6}
    BY DEF IInv, TypeOK, WorkerTypeOK, Msg, ClientCtx, ClientState
  <1>5. /\ Alarm => Alarmed(v.g)
        /\ crashed /\ code # x.signal => Alarmed(v.g)
        /\ ~crashed /\ x.signal # 0 /\ ctx[j].t.signal = 0 /\ s < 2 => Alarmed(v.g)
    <2> HIDE DEF u, crashed, code, x, s
    <2>1. LET w == handle_death(u, crashed, code, x)
          IN  /\ Alarmed(u.g) => Alarmed(w.g)
              /\ crashed /\ code # x.signal => Alarmed(w.g)
              /\ ~crashed /\ x.signal # 0 /\ u.t.signal = 0 /\ u.state < 2
                    => Alarmed(w.g)
      BY <1>3, <1>4, DeathAlarm
    <2>2. QED BY <1>3, <2>1 DEF Alarm
  <1> HIDE DEF u, v, crashed, code, x
  <1>6. v \in View /\ v.state = s
    BY ZenonT(60), <1>3, <1>4, HandleDeathType DEF v
  <1>7. c = Own
    BY <1>1, <1>2 DEF Story, Tale, Pending, Client
  <1>8. /\ UNCHANGED <<wk, cb>> /\ ~Finished(j) /\ ctx'[j].state = s
        /\ cb.job = j /\ wk[j].proc = "dead" /\ cb.pc = "death"
        /\ chan'[j] = chan[j] /\ Finished(j)' /\ g' = v.g
    <2>1. M("PHASE", CS_TIMEOUT).kind = "PHASE"
      BY PhaseMsg DEF Phases, CS_SETUP, CS_TIMEOUT, CS_SKIP
    <2>2. QED BY <1>1, <1>2, <1>6, <1>7, <2>1, HandledFacts
  <1>9. /\ crashed <=> Signaled(j)
        /\ Signaled(j) => code = wk[j].code
    BY <1>2, <1>7, <1>8 DEF Story, Reported, crashed, code
  <1>10. Evidence(j) /\ (Alarm' <=> Alarmed(v.g)) BY <1>8 DEF Shown, Alarm
  <1>11. /\ Signaled(j)' <=> Signaled(j)
         /\ EndedInTheory(j)' <=> nested(s) /\ ~(Signaled(j) /\ curstate(s) = CS_MAIN)
         /\ InTheory(j)' <=> InTheory(j)
    BY <1>8 DEF Signaled, EndedInTheory, InTheory
  <1>12. wk[j].timed_out => Alarm' \/ InTheory(j)
    BY <1>5, <1>8, <1>10 DEF Evidence, LimitHandled
  <1>13. Signaled(j) => Alarm' \/ wk[j].code = Test(j).signal
    BY <1>5, <1>9, <1>10 DEF x
  <1>14. ~wk[j].crashed /\ Test(j).signal # 0 => Alarm' \/ EndedInTheory(j)'
    <2>1. CASE nested(s) BY <1>11, <2>1 DEF Signaled
    <2>2. CASE s \in {2, 3} BY <1>5, <1>8, <1>10, <2>2 DEF Evidence
    <2>3. CASE s < 2
      BY <1>5, <1>8, <1>9, <1>10, <2>3 DEF Evidence, Signaled, x
    <2>4. QED BY <1>4, <2>1, <2>2, <2>3 DEF nested, CS_MAX_CLIENT_STATES
  <1>15. Evidence(j)'
    BY <1>8, <1>10, <1>11, <1>12, <1>13, <1>14 DEF Evidence
  <1>16. QED BY <1>1, <1>2, <1>5, <1>6, <1>15, HandledEvidence

LEMMA ReceiveEvidence ==
    ASSUME IInv, Story, Slots, Shown, NEW c \in Socket, Receive(c)
    PROVE  Shown'
  <1>0. /\ chan[c].arg \in Nat /\ Own \in Socket /\ chan \in [Socket -> Msg]
        /\ \A k \in Job : k # Own /\ k \in Socket
    BY JobFacts DEF IInv, TypeOK, WorkerTypeOK, Msg, Socket
  <1>1. ASSUME UNCHANGED <<wk, cb, ctx, g>>, Answer(c, "nack"), Reading(c)
        PROVE  Shown'
    <2>1. PICK m : chan' = [chan EXCEPT ![c] = m] /\ m.kind \in {"nack", "idle"}
      <3>1. PICK m \in {Idle, M("nack", 0)} : chan' = [chan EXCEPT ![c] = m]
        BY <1>1 DEF Answer
      <3>2. m.kind \in {"nack", "idle"} BY MsgType, IdleType DEF Answers
      <3>3. QED BY <3>1, <3>2
    <2>2. chan'[c] = m /\ \A k \in Socket \ {c} : chan'[k] = chan[k]
      BY <1>0, <2>1
    <2>3. chan[Own].kind = "ok" <=> chan'[Own].kind = "ok"
      BY <1>0, <1>1, <2>1, <2>2 DEF Reading, Requests
    <2>4. ASSUME NEW k \in Job PROVE Evidence(k)'
      <3>1. chan'[k] = chan[k] \/ chan'[k].kind # "PHASE"
        BY <1>0, <2>1, <2>2
      <3>2. (Finished(k)' <=> Finished(k)) /\ (LimitHandled(k)' <=> LimitHandled(k))
        BY <1>1, <2>3 DEF Finished, LimitHandled
      <3>3. Alarm => Alarm' BY <1>1 DEF Alarm
      <3>4. QED BY <1>1, <3>1, <3>2, <3>3, EvidenceStays DEF Shown
    <2>5. QED BY <2>4 DEF Shown
  <1>2. CASE DropMessage(c)
    BY <1>1, <1>2 DEF DropMessage, serverVars
  <1>3. CASE RefusePhase(c)
    BY <1>1, <1>3 DEF RefusePhase, Known, serverVars
  <1>4. CASE HandlePhase(c) BY <1>4, PhaseEvidence
  <1>5. CASE HandleDeath(c) BY <1>5, DeathEvidence
  <1>6. ASSUME NEW kind \in Requests \ {"PHASE", "CRASH", "EXIT"}, Known(c, kind),
               NEW v \in View, Handled(c, v),
               v.state = ctx[Client(c)].state,
               v.t.signal = ctx[Client(c)].t.signal, Alarm => Alarmed(v.g)
        PROVE  Shown'
    <2>1. PICK j \in Job : j = Client(c) /\ j \in subs
      BY <1>6 DEF Known, IInv, TypeOK
    <2>2. Reading(c) /\ chan[c].kind \notin {"PHASE", "CRASH", "EXIT"}
      BY <1>6 DEF Known
    <2>3. QED BY <1>6, <2>1, <2>2, QuietEvidence
  <1> DEFINE u == viewOf(Client(c))
  <1>v. ASSUME Client(c) \in subs
        PROVE  /\ u \in View /\ u.state = ctx[Client(c)].state
               /\ u.t = ctx[Client(c)].t /\ u.g = g
    <2>1. Client(c) \in Job BY <1>v DEF IInv, TypeOK
    <2>2. QED BY <2>1, ViewType DEF viewOf
  <1>a. ASSUME Client(c) \in subs, NEW K, NEW n \in Nat
        PROVE  Alarm => Alarmed(Count(g, K, n))
    BY <1>a, AlarmCounts DEF IInv, TypeOK, Alarm
  <1> HIDE DEF u
  <1>7. CASE HandleBirth(c)
    <2>1. Known(c, "BIRTH") /\ Handled(c, handle_birth(u)) /\ Client(c) \in subs
      BY <1>7 DEF HandleBirth, Known, u
    <2>2. /\ handle_birth(u) \in View /\ handle_birth(u).state = u.state
          /\ handle_birth(u).t = u.t /\ handle_birth(u).g = u.g
      BY <1>v, <2>1 DEF handle_birth, View
    <2>3. Alarm => Alarmed(handle_birth(u).g) BY <1>v, <2>1, <2>2 DEF Alarm
    <2>4. QED BY <1>6, <1>v, <2>1, <2>2, <2>3 DEF Requests
  <1>8. CASE HandleAssert(c)
    <2>1. PICK passed \in BOOLEAN : Handled(c, push_assert(u, passed))
      BY <1>8 DEF HandleAssert, handle_assert, u
    <2>2. Known(c, "ASSERT") /\ Client(c) \in subs BY <1>8 DEF HandleAssert, Known
    <2>3. push_assert(u, passed) \in View /\ push_assert(u, passed).state = u.state
      BY <1>v, <2>2, KeepsAssert DEF Keeps
    <2>4. /\ push_assert(u, passed).g = Count(u.g, AssertCounts(passed), 1)
          /\ push_assert(u, passed).t = AssertStats(u.t, passed)
      BY <1>v, <2>2 DEF push_assert, Tally, View
    <2>5. AssertStats(u.t, passed).signal = u.t.signal
      BY <1>v, <2>2 DEF AssertStats, View, TestStats
    <2>6. Alarm => Alarmed(push_assert(u, passed).g) BY <1>a, <1>v, <2>2, <2>4
    <2>7. QED BY <1>6, <1>v, <2>1, <2>2, <2>3, <2>4, <2>5, <2>6 DEF Requests
  <1>9. CASE HandleStatistic(c)
    <2> DEFINE w == handle_statistic(u, chan[c].arg)
    <2>1. Known(c, "STATISTIC") /\ Handled(c, w) /\ Client(c) \in subs
      BY <1>9 DEF HandleStatistic, Known, u
    <2>2. w \in View /\ w.state = u.state
      BY <1>0, <1>v, <2>1, HandleStatisticType DEF Keeps
    <2>3. /\ w.t.signal = u.t.signal
          /\ w.g = Count(u.g, {"asserts_passed", "nb_asserts"}, chan[c].arg)
      BY <1>v, <2>1 DEF handle_statistic, View, TestStats
    <2> HIDE DEF w
    <2>4. Alarm => Alarmed(w.g) BY <1>0, <1>a, <1>v, <2>1, <2>3
    <2>5. QED BY <1>6, <1>v, <2>1, <2>2, <2>3, <2>4 DEF Requests
  <1>10. CASE HandleMessage(c)
    <2> DEFINE w == handle_message(u, chan[c].kind)
    <2>1. /\ Known(c, "INFO") \/ Known(c, "WARNING") \/ Known(c, "ERROR")
          /\ Handled(c, w) /\ Client(c) \in subs
      BY <1>10 DEF HandleMessage, Known, u
    <2>2. w \in View /\ w.state = u.state
      BY <1>v, <2>1, HandleMessageType DEF Keeps
    <2>3. w.t = u.t /\ \E K : w.g = Count(u.g, K, 1)
      BY <1>v, <2>1 DEF handle_message, View
    <2> HIDE DEF w
    <2>4. Alarm => Alarmed(w.g) BY <1>a, <1>v, <2>1, <2>3
    <2>5. QED BY <1>6, <1>v, <2>1, <2>2, <2>3, <2>4 DEF Requests
  <1>11. QED
    BY <1>2, <1>3, <1>4, <1>5, <1>7, <1>8, <1>9, <1>10 DEF Receive

LEMMA ShownKept ==
    ASSUME IInv, Slots, Story, Shown, [Next]_vars
    PROVE  Shown'
  <1>1. CASE Others BY <1>1, OthersEvidence DEF Shown
  <1>2. CASE SpawnNext
    <2>1. PICK j \in Job :
             /\ wk[j] = Unborn /\ ctx'[j] = FreshCtx
             /\ wk'[j] = [Unborn EXCEPT !.proc = "running"]
             /\ \A k \in Job \ {j} : wk'[k] = wk[k] /\ ctx'[k] = ctx[k]
             /\ chan[j] = Idle /\ UNCHANGED <<chan, cb, g>>
      BY <1>2, Spawning
    <2>2. /\ wk'[j].proc = "running" /\ wk'[j].pc = "boot" /\ ~wk'[j].timed_out
          /\ wk[j].proc = "none" /\ chan'[j].kind = "idle"
          /\ ctx'[j].state = 0 /\ ctx'[j].t.signal = 0
      BY <2>1, IdleType DEF Unborn, FreshCtx, FreshTest, CS_SETUP
    <2>3. cb.pc # "idle" => cb.job # j BY <2>2 DEF IInv, CallbackOK
    <2>4. ~Finished(j)' BY <2>1, <2>2, <2>3 DEF Finished
    <2>5. ~nested(0) BY DEF nested, CS_MAX_CLIENT_STATES
    <2>6. Evidence(j)' BY <2>2, <2>4, <2>5 DEF Evidence, TheoryCounter
    <2>7. ASSUME NEW k \in Job \ {j} PROVE Evidence(k)'
      <3>1. /\ Finished(k)' <=> Finished(k)
            /\ LimitHandled(k)' <=> LimitHandled(k)
            /\ Alarm' <=> Alarm
        BY <2>1 DEF Finished, LimitHandled, Alarm
      <3>2. QED BY <2>1, <3>1, EvidenceStays DEF Shown
    <2>8. QED BY <2>6, <2>7 DEF Shown
  <1>3. CASE \E c \in Socket : Receive(c) BY <1>3, ReceiveEvidence
  <1>4. ASSUME UNCHANGED <<wk, chan, cb, ctx>>, Alarm => Alarm' PROVE Shown'
    <2>1. ASSUME NEW k \in Job PROVE Evidence(k)'
      <3>1. /\ Finished(k)' <=> Finished(k)
            /\ LimitHandled(k)' <=> LimitHandled(k)
        BY <1>4 DEF Finished, LimitHandled
      <3>2. QED BY <1>4, <3>1, EvidenceStays DEF Shown
    <2>2. QED BY <2>1 DEF Shown
  <1>5. CASE Schedule /\ ~SpawnNext
    <2>1. UNCHANGED <<wk, chan, cb, ctx>> BY <1>5, Turning
    <2>2. g' = g \/ \E K : g' = Count(g, K, 1)
      BY <1>5 DEF Schedule, SkipSuite, EnterSuite, SkipDisabled, EndTest,
                  LeaveSuite, NoNext, serverVars
    <2>3. g \in [GlobalCounter -> Nat] BY DEF IInv, TypeOK
    <2>4. Alarm => Alarm' BY <2>2, <2>3, AlarmCounts DEF Alarm
    <2>5. QED BY <1>4, <2>1, <2>4
  <1>6. CASE Reap \/ Terminate \/ CallbackAborts \/ Cleanup \/ UNCHANGED vars
    <2>1. UNCHANGED <<wk, chan, cb, ctx, g>>
      BY <1>6 DEF Reap, Terminate, CallbackAborts, Cleanup, workerVars,
                  serverVars, vars
    <2>2. QED BY <1>4, <2>1 DEF Alarm
  <1>7. QED
    BY <1>1, <1>2, <1>3, <1>5, <1>6 DEF Next, RunnerStep, Ended

LEMMA ShownInit == Init => Shown
  <1> SUFFICES ASSUME Init, NEW j \in Job PROVE Evidence(j)
    BY DEF Shown
  <1>1. wk[j] = Unborn /\ ctx[j] = FreshCtx /\ chan[j] = Idle /\ cb = NoDeath
    BY DEF Init, WorkerInit, Socket
  <1>2. /\ wk[j].proc = "none" /\ ~wk[j].timed_out /\ chan[j].kind = "idle"
        /\ ctx[j].state = 0 /\ ctx[j].t.signal = 0 /\ cb.pc = "idle"
    BY <1>1, IdleType DEF Unborn, FreshCtx, FreshTest, NoDeath, CS_SETUP
  <1>3. ~Finished(j) BY <1>2 DEF Finished
  <1>4. ~nested(0) BY DEF nested, CS_MAX_CLIENT_STATES
  <1>5. QED BY <1>1, <1>2, <1>3, <1>4 DEF Evidence

\* The counters show every failure, at any time of a run.
THEOREM ShownAlways == Spec => []Shown
  <1>1. IInv /\ Slots /\ Story /\ Shown /\ [Next]_vars => Shown' BY ShownKept
  <1>2. QED BY <1>1, ShownInit, Invariance, SlotsAlways, StoryAlways, PTL DEF Spec

(* A run that reports success hides no signal and no time limit, nor the   *)
(* life of a test that should have died, but for what happens inside of    *)
(* the iterations of a theory: whatever the options and the interleaving.  *)
THEOREM NothingHidden == Spec => []NoSilentLoss
  <1>1. IInv /\ Shown /\ Walked /\ Complete => NoSilentLoss
    <2> SUFFICES ASSUME IInv, Shown, Walked, Complete, rpc = "done", ok,
                        ~IgnoreWarnings, NEW j \in Job
                 PROVE  /\ Signaled(j) => wk[j].code = Test(j).signal
                        /\ wk[j].timed_out => Test(j).points # <<>>
                        /\ wk[j].proc = "waited" /\ Test(j).signal # 0
                              => wk[j].crashed \/ EndedInTheory(j)
      BY DEF NoSilentLoss
    <2>1. ~Alarm BY DEF ok, Alarm, Alarmed
    <2>2. Evidence(j) BY DEF Shown
    <2>3. CASE Test(j).disabled
      <3>1. wk[j] = Unborn BY <2>2, <2>3 DEF Walked, Evidence
      <3>2. QED BY <3>1 DEF Unborn, Signaled
    <2>4. CASE ~Test(j).disabled
      <3>1. wk[j].proc = "waited" BY <2>4 DEF Complete, Reaped
      <3>2. Finished(j) /\ LimitHandled(j) BY <3>1 DEF Finished, LimitHandled
      <3>3. QED BY <2>1, <2>2, <3>2 DEF Evidence, InTheory
    <2>5. QED BY <2>3, <2>4
  <1>2. QED BY <1>1, Invariance, ShownAlways, WalkedAlways, RunsComplete, PTL

----------------------------------------------------------------------------
(* The verdicts of a test and the counters of its suite and of the run     *)
(* move together.                                                          *)

Balanced(v, w) ==
    /\ \A k \in SuiteCounter : /\ w.ss[k] >= v.ss[k]
                               /\ w.g[k] + v.ss[k] = v.g[k] + w.ss[k]
    /\ \/ /\ VerdictsAt(w.ev) = VerdictsAt(v.ev)
          /\ VerdictTotal(w.ss) = VerdictTotal(v.ss)
       \/ /\ VerdictTotal(w.ss) = VerdictTotal(v.ss) + 1
          /\ \E n : /\ n \notin VerdictsAt(v.ev)
                    /\ VerdictsAt(w.ev) = VerdictsAt(v.ev) \cup {n}

\* A test that did not pass has been given a verdict.
Blame(t, ev) == t.test_status # PASSED => Given(ev) > 0

LEMMA CountsTogether ==
    ASSUME NEW a \in [SuiteCounter -> Nat], NEW b \in [GlobalCounter -> Nat],
           NEW K, NEW n \in Nat, NEW k \in SuiteCounter
    PROVE  /\ Count(a, K, n)[k] = IF k \in K THEN a[k] + n ELSE a[k]
           /\ Count(a, K, n)[k] >= a[k]
           /\ Count(b, K, n)[k] + a[k] = b[k] + Count(a, K, n)[k]
  <1>1. /\ a[k] \in Nat /\ b[k] \in Nat /\ k \in DOMAIN a /\ k \in DOMAIN b
    BY DEF GlobalCounter
  <1>2. /\ Count(a, K, n)[k] = IF k \in K THEN a[k] + n ELSE a[k]
        /\ Count(b, K, n)[k] = IF k \in K THEN b[k] + n ELSE b[k]
    BY <1>1 DEF Count
  <1>3. QED BY <1>1, <1>2

LEMMA VerdictsTogether ==
    ASSUME NEW a \in [SuiteCounter -> Nat], NEW K, NEW n \in Nat
    PROVE  /\ K \cap Verdicts = {}
                 => VerdictTotal(Count(a, K, n)) = VerdictTotal(a)
           /\ \A e \in Verdicts : K \cap Verdicts = {e}
                 => VerdictTotal(Count(a, K, n)) = VerdictTotal(a) + n
  <1>1. \A k \in Verdicts :
           /\ Count(a, K, n)[k] = IF k \in K THEN a[k] + n ELSE a[k]
           /\ a[k] \in Nat
    <2>1. \A k \in Verdicts : k \in DOMAIN a /\ a[k] \in Nat
      BY DEF Verdicts, SuiteCounter
    <2>2. QED BY <2>1 DEF Count
  <1>2. ASSUME K \cap Verdicts = {}
        PROVE  VerdictTotal(Count(a, K, n)) = VerdictTotal(a)
    <2>1. \A k \in Verdicts : Count(a, K, n)[k] = a[k] BY <1>1, <1>2
    <2>2. QED BY <2>1 DEF Verdicts, VerdictTotal
  <1>3. ASSUME NEW e \in Verdicts, K \cap Verdicts = {e}
        PROVE  VerdictTotal(Count(a, K, n)) = VerdictTotal(a) + n
    <2>1. \A k \in Verdicts : /\ Count(a, K, n)[k] = IF k = e THEN a[k] + n ELSE a[k]
                              /\ a[k] \in Nat
      BY <1>1, <1>3
    <2>2. QED BY <2>1 DEF Verdicts, VerdictTotal
  <1>4. QED BY <1>2, <1>3

LEMMA OneBalanced ==
    ASSUME NEW v \in View, NEW w, NEW e \in EventKind, NEW K, NEW t,
           One(v, w, e, K, t),
           IF e \in VerdictEvent THEN \E k \in Verdicts : K \cap Verdicts = {k}
                                 ELSE K \cap Verdicts = {}
    PROVE  /\ Balanced(v, w) /\ w.t = t
           /\ Given(w.ev) = Given(v.ev) + (IF e \in VerdictEvent THEN 1 ELSE 0)
           /\ Given(v.ev) \in Nat
  <1>0. /\ v.ss \in [SuiteCounter -> Nat] /\ v.g \in [GlobalCounter -> Nat]
        /\ v.ev \in Seq(EventKind)
    BY DEF View
  <1>1. /\ w.ev = Append(v.ev, e) /\ w.t = t
        /\ w.ss = Count(v.ss, K, 1) /\ w.g = Count(v.g, K, 1)
    BY DEF One
  <1>2. \A k \in SuiteCounter : /\ w.ss[k] >= v.ss[k]
                                /\ w.g[k] + v.ss[k] = v.g[k] + w.ss[k]
    <2>1. ASSUME NEW k \in SuiteCounter
          PROVE  /\ Count(v.ss, K, 1)[k] >= v.ss[k]
                 /\ Count(v.g, K, 1)[k] + v.ss[k] = v.g[k] + Count(v.ss, K, 1)[k]
      BY <1>0, CountsTogether
    <2>2. QED BY <1>1, <2>1
  <1>3. CASE e \in VerdictEvent
    <2>k. PICK k \in Verdicts : K \cap Verdicts = {k} BY <1>3
    <2>l. \A i \in Verdicts : K \cap Verdicts = {i}
             => VerdictTotal(Count(v.ss, K, 1)) = VerdictTotal(v.ss) + 1
      BY <1>0, VerdictsTogether
    <2>1. VerdictTotal(w.ss) = VerdictTotal(v.ss) + 1 BY <1>1, <2>k, <2>l
    <2>2. /\ Len(v.ev) + 1 \notin VerdictsAt(v.ev)
          /\ VerdictsAt(w.ev) = VerdictsAt(v.ev) \cup {Len(v.ev) + 1}
      BY <1>0, <1>1, <1>3, VerdictsAppended
    <2>3. QED BY <1>0, <1>1, <1>2, <2>1, <2>2, Appended, GivenType DEF Balanced
  <1>4. CASE e \notin VerdictEvent
    <2>1. VerdictTotal(w.ss) = VerdictTotal(v.ss)
      BY <1>0, <1>1, <1>4, VerdictsTogether
    <2>2. VerdictsAt(w.ev) = VerdictsAt(v.ev)
      BY <1>0, <1>1, <1>4, VerdictsAppended
    <2>3. QED BY <1>0, <1>1, <1>2, <2>1, <2>2, Appended, GivenType DEF Balanced
  <1>5. QED BY <1>3, <1>4

\* The counter of a verdict is one of three.
LEMMA OneCounter ==
    ASSUME NEW t \in TestStats, NEW x
    PROVE  \E k \in Verdicts : PostTestCounts(t, x) \cap Verdicts = {k}
  <1>1. PostTestStats(t, x) \in TestStats BY StatsType
  <1>2. VerdictCounter(PostTestStats(t, x).test_status) \in Verdicts
    BY <1>1 DEF VerdictCounter, TestStats, TestStatus, FAILED, PASSED, SKIPPED,
                Verdicts
  <1>3. QED BY <1>2 DEF PostTestCounts

LEMMA EndBalanced ==
    ASSUME NEW v \in View, NEW w, NEW x, NEW t \in TestStats, Ending(v, w, x, t)
    PROVE  Balanced(v, w) /\ Given(w.ev) > 0
  <1> DEFINE K == PostTestCounts(t, x)
             a == [v EXCEPT !.ev = Append(v.ev, "POST_TEST"),
                            !.t = PostTestStats(t, x),
                            !.ss = Count(v.ss, K, 1), !.g = Count(v.g, K, 1)]
             ev == Append(v.ev, "POST_TEST")
  <1>0. v.ev \in Seq(EventKind) /\ "POST_TEST" \in EventKind
        /\ "POST_FINI" \in EventKind /\ "POST_TEST" \in VerdictEvent
        /\ "POST_FINI" \notin VerdictEvent
    BY DEF View, EventKind, VerdictEvent
  <1>1. One(v, a, "POST_TEST", K, PostTestStats(t, x)) /\ a.ev = ev BY DEF One, View
  <1>2. w.ss = a.ss /\ w.g = a.g /\ w.ev = Append(ev, "POST_FINI")
    BY DEF Ending, EndOf, View
  <1>3. \E k \in Verdicts : K \cap Verdicts = {k} BY OneCounter
  <1> HIDE DEF a, K
  <1>4. /\ Balanced(v, a) /\ Given(a.ev) = Given(v.ev) + 1 /\ Given(v.ev) \in Nat
    BY <1>0, <1>1, <1>3, OneBalanced
  <1>5. ev \in Seq(EventKind) BY <1>0
  <1> HIDE DEF ev
  <1>6. VerdictsAt(w.ev) = VerdictsAt(a.ev) /\ Given(w.ev) = Given(a.ev)
    <2>1. VerdictsAt(Append(ev, "POST_FINI")) = VerdictsAt(ev)
      BY <1>0, <1>5, VerdictsAppended
    <2>2. QED BY <1>1, <1>2, <2>1 DEF Given
  <1>7. QED BY <1>2, <1>4, <1>6 DEF Balanced

\* No event: only counters that are no verdicts.
LEMMA QuietBalanced ==
    ASSUME NEW v \in View, NEW w, NEW K, NEW n \in Nat, w.ev = v.ev,
           w.ss = Count(v.ss, K, n), w.g = Count(v.g, K, n), K \cap Verdicts = {}
    PROVE  Balanced(v, w)
  <1>1. v.ss \in [SuiteCounter -> Nat] /\ v.g \in [GlobalCounter -> Nat]
    BY DEF View
  <1>2. QED BY <1>1, CountsTogether, VerdictsTogether DEF Balanced

LEMMA SameBalanced ==
    ASSUME NEW v \in View, NEW w, w.ev = v.ev, w.ss = v.ss,
           \A k \in SuiteCounter : w.g[k] = v.g[k]
    PROVE  Balanced(v, w)
  <1>1. \A k \in SuiteCounter : v.ss[k] \in Nat /\ v.g[k] \in Nat
    BY DEF View, GlobalCounter
  <1>2. QED BY <1>1 DEF Balanced

LEMMA PhaseBalanced ==
    ASSUME NEW v \in View, NEW new \in Phases, NEW x,
           ~phase_refused(v.state, new), Fits(v.state, v.ev), Blame(v.t, v.ev)
    PROVE  LET w == handle_phase(v, new, x)
           IN  Balanced(v, w) /\ Blame(w.t, w.ev)
  <1> DEFINE w == handle_phase(v, new, x)
             s == v.state
             t == StatsOf(new, v.t)
  <1>0. v.t \in TestStats BY DEF View
  <1>1. PhaseOutcome(v, w, new, x, s) BY PhaseEffect
  <1>2. new \in {CS_ABORT, CS_TIMEOUT, CS_SKIP} => t \in TestStats
    BY <1>0, StatsKept
  <1>3. /\ s = 0 => v.t.test_status = PASSED
        /\ s = 2 => Given(v.ev) > 0
    <2>1. <<"PRE_INIT">> = Append(<<>>, "PRE_INIT") /\ <<>> \in Seq(EventKind)
          /\ "PRE_INIT" \in EventKind /\ "PRE_INIT" \notin VerdictEvent
      BY DEF EventKind, VerdictEvent
    <2>2. VerdictsAt(<<"PRE_INIT">>) = VerdictsAt(<<>>)
      BY <2>1, VerdictsAppended
    <2>3. Given(<<>>) = 0 /\ Given(<<"PRE_INIT">>) = 0
      BY <2>2, GivenNothing DEF Given
    <2>4. s = 0 => Given(v.ev) = 0 BY <2>3 DEF Fits
    <2>5. s = 2 => Given(v.ev) = 1 BY DEF Fits
    <2>6. QED BY <2>4, <2>5 DEF Blame
  <1>4. /\ {} \cap Verdicts = {}
        /\ v.t.test_status = PASSED => PreInitCounts(v.t) \cap Verdicts = {}
    BY DEF PreInitCounts, Verdicts, PASSED, SKIPPED
  <1>5. /\ {"PRE_INIT", "PRE_TEST", "POST_TEST", "POST_FINI", "THEORY_FAIL"}
              \subseteq EventKind
        /\ "POST_TEST" \in VerdictEvent
        /\ \A e \in {"PRE_INIT", "PRE_TEST", "POST_FINI", "THEORY_FAIL"} :
              e \notin VerdictEvent
    BY DEF EventKind, VerdictEvent
  <1>n. Given(v.ev) \in Nat BY GivenType DEF View
  <1> HIDE DEF w, s, t
  \* The events that are no verdict.
  <1>6. ASSUME NEW e \in {"PRE_INIT", "PRE_TEST", "POST_FINI", "THEORY_FAIL"},
               NEW K, NEW u, One(v, w, e, K, u), K \cap Verdicts = {},
               u = v.t \/ Given(v.ev) > 0
        PROVE  Balanced(v, w) /\ Blame(w.t, w.ev)
    <2>1. e \in EventKind /\ e \notin VerdictEvent BY <1>5
    <2>2. Balanced(v, w) /\ w.t = u /\ Given(w.ev) = Given(v.ev)
      BY <1>6, <1>n, <2>1, OneBalanced
    <2>3. QED BY <1>6, <2>2 DEF Blame
  <1>7. ASSUME NEW u, One(v, w, "POST_TEST", PostTestCounts(v.t, x), u)
        PROVE  Balanced(v, w) /\ Blame(w.t, w.ev)
    <2>1. \E k \in Verdicts : PostTestCounts(v.t, x) \cap Verdicts = {k}
      BY <1>0, OneCounter
    <2>2. Balanced(v, w) /\ Given(w.ev) = Given(v.ev) + 1
      BY <1>5, <1>7, <2>1, OneBalanced
    <2>3. QED BY <1>n, <2>2 DEF Blame
  <1>8. ASSUME new \in {CS_ABORT, CS_TIMEOUT, CS_SKIP}, Ending(v, w, x, t)
        PROVE  Balanced(v, w) /\ Blame(w.t, w.ev)
    BY <1>2, <1>8, EndBalanced DEF Blame
  <1>9. ASSUME Same(v, w, v.t) PROVE Balanced(v, w) /\ Blame(w.t, w.ev)
    BY <1>9, SameBalanced DEF Same
  <1>10. Balanced(v, w) /\ Blame(w.t, w.ev)
    <2>1. CASE s = 0 /\ One(v, w, "PRE_INIT", PreInitCounts(v.t), v.t)
      BY <1>3, <1>4, <1>6, <2>1
    <2>2. CASE \E e \in {"PRE_TEST", "POST_FINI", "THEORY_FAIL"} :
                  One(v, w, e, {}, v.t)
      BY <1>4, <1>6, <2>2
    <2>3. CASE s = 2 /\ One(v, w, "POST_FINI", {}, t)
      BY <1>3, <1>4, <1>6, <2>3
    <2>4. QED BY <1>1, <1>7, <1>8, <1>9, <2>1, <2>2, <2>3 DEF PhaseOutcome, t
  <1>11. QED BY <1>10 DEF w

LEMMA DeathBalanced ==
    ASSUME NEW v \in View, NEW crashed \in BOOLEAN, NEW code \in Nat, NEW x,
           Blame(v.t, v.ev)
    PROVE  LET w == handle_death(v, crashed, code, x)
           IN  Balanced(v, w) /\ Blame(w.t, w.ev)
  <1> DEFINE w == handle_death(v, crashed, code, x)
             u == Mourned(v, crashed)
             signaled == [u.t EXCEPT !.signal = code]
             exited == [u.t EXCEPT !.exit_code = code]
  <1>1. /\ u \in View /\ u.ev = v.ev /\ u.t = v.t /\ u.ss = v.ss
        /\ DeathOutcome(u, w, crashed, code, x, v.state)
    BY DeathEffect
  <1>2. \A k \in SuiteCounter : u.g[k] = v.g[k]
    <2>1. \A k \in SuiteCounter : k \in DOMAIN v.g /\ k # "warnings"
      BY DEF View, GlobalCounter, SuiteCounter
    <2>2. u.g = v.g \/ u.g = Count(v.g, {"warnings"}, 1) BY Warned DEF Mourned
    <2>3. QED BY <2>1, <2>2 DEF Count
  <1>3. signaled \in TestStats /\ exited \in TestStats
        /\ signaled.test_status = u.t.test_status
        /\ exited.test_status = u.t.test_status
    BY <1>1 DEF View, TestStats
  <1> HIDE DEF w, u, signaled, exited
  <1>4. Balanced(u, w) => Balanced(v, w) BY <1>1, <1>2 DEF Balanced
  <1>5. ASSUME NEW e \in {"SILENT_CRASH", "TEST_CRASH"}, NEW t,
               One(u, w, e, CrashCounts, t)
        PROVE  Balanced(u, w) /\ Blame(w.t, w.ev)
    <2>1. CrashCounts \cap Verdicts = {"tests_failed"} /\ "tests_failed" \in Verdicts
      BY DEF CrashCounts, Verdicts
    <2>2. e \in EventKind /\ e \in VerdictEvent BY DEF EventKind, VerdictEvent
    <2>3. /\ Balanced(u, w) /\ Given(w.ev) = Given(u.ev) + 1 /\ Given(u.ev) \in Nat
      BY <1>1, <1>5, <2>1, <2>2, OneBalanced
    <2>4. QED BY <2>3 DEF Blame
  <1>6. ASSUME NEW t \in TestStats, Ending(u, w, x, t)
        PROVE  Balanced(u, w) /\ Blame(w.t, w.ev)
    BY <1>1, <1>6, EndBalanced DEF Blame
  <1>7. ASSUME NEW t, Same(u, w, t), t.test_status = u.t.test_status
        PROVE  Balanced(u, w) /\ Blame(w.t, w.ev)
    <2>1. Balanced(u, w) BY <1>1, <1>7, SameBalanced DEF Same
    <2>2. QED BY <1>1, <1>7, <2>1 DEF Same, Blame
  <1>8. Balanced(u, w) /\ Blame(w.t, w.ev)
    BY <1>1, <1>3, <1>5, <1>6, <1>7 DEF DeathOutcome, signaled, exited
  <1>9. QED BY <1>4, <1>8 DEF w

----------------------------------------------------------------------------
(* The books of the run: what was counted is what was told of the tests.   *)

Unseen(j) == wk[j].proc = "none" => ctx[j] = FreshCtx

\* The coroutine has not entered the suite s yet.
Untouched(s) == s > pos.suite \/ (s = pos.suite /\ pos.test = 0)

Tallied(s) ==
    /\ IsFiniteSet(VerdictsIn(s))
    /\ VerdictTotal(ss[s]) = Cardinality(VerdictsIn(s)) + Cardinality(SkippedSoFar(s))

\* acc[s] is the counter k summed over the suites up to s.
Running(acc, k) == /\ acc \in [0 .. Len(Suites) -> Nat] /\ acc[0] = 0
                   /\ \A s \in DOMAIN Suites : acc[s] = acc[s - 1] + ss[s][k]
                   /\ acc[Len(Suites)] = g[k]

Books == /\ \A j \in Job : Blame(ctx[j].t, ctx[j].ev) /\ Unseen(j)
         /\ \A s \in DOMAIN Suites : /\ Untouched(s) => ss[s] = ZeroSuite
                                     /\ Tallied(s)
         /\ \A k \in SuiteCounter : \E acc : Running(acc, k)

\* What a handler leaves of the books: the effect of every message.
LEMMA ReceiveBalanced ==
    ASSUME IInv, Story, Slots, Books, NEW c \in Socket, Receive(c)
    PROVE  \/ UNCHANGED <<ctx, ss, g>>
           \/ \E j \in Job, v \in View :
                 /\ j = Client(c) /\ j \in subs /\ Reading(c) /\ Handled(c, v)
                 /\ Balanced(viewOf(j), v) /\ Blame(v.t, v.ev)
  <1>0. chan[c].arg \in Nat BY DEF IInv, TypeOK, WorkerTypeOK, Msg
  <1>1. CASE DropMessage(c) \/ RefusePhase(c)
    BY <1>1 DEF DropMessage, RefusePhase, serverVars
  <1>2. CASE ~(DropMessage(c) \/ RefusePhase(c))
    <2> DEFINE j == Client(c)
               u == viewOf(j)
               Goal(v) == /\ v \in View /\ Handled(c, v)
                          /\ Balanced(u, v) /\ Blame(v.t, v.ev)
    <2>1. j \in subs /\ Reading(c)
      BY <1>2 DEF Receive, HandleBirth, HandlePhase, HandleDeath, HandleAssert,
                  HandleStatistic, HandleMessage, Known
    <2>2. j \in Job BY <2>1 DEF IInv, TypeOK
    <2>3. /\ u \in View /\ u.state = ctx[j].state /\ u.ev = ctx[j].ev
          /\ u.t = ctx[j].t
      BY <2>2, ViewType DEF viewOf
    <2>4. Blame(u.t, u.ev) BY <2>2, <2>3 DEF Books
    <2>5. /\ u.t \in TestStats /\ u.ss \in [SuiteCounter -> Nat]
          /\ u.g \in [GlobalCounter -> Nat]
      BY <2>3 DEF View
    <2> HIDE DEF u
    <2>q. ASSUME NEW v, v \in View, v.ev = u.ev,
                 v.t.test_status = u.t.test_status
          PROVE  Blame(v.t, v.ev)
      BY <2>4, <2>q DEF Blame
    <2>6. CASE HandleBirth(c)
      <3> DEFINE v == handle_birth(u)
      <3>1. Handled(c, v) BY <2>6 DEF HandleBirth, u
      <3>2. /\ v \in View /\ v.ev = u.ev /\ v.ss = u.ss /\ v.g = u.g
            /\ v.t = u.t
        BY <2>3 DEF handle_birth, View
      <3> HIDE DEF v
      <3>3. Goal(v) BY <2>3, <2>q, <3>1, <3>2, SameBalanced
      <3>4. QED BY <2>1, <2>2, <3>3 DEF u
    <2>7. CASE HandlePhase(c)
      <3> DEFINE v == handle_phase(u, chan[c].arg, Test(j))
      <3>1. /\ Handled(c, v) /\ chan[c].kind = "PHASE"
            /\ ~phase_refused(u.state, chan[c].arg)
        BY <2>3, <2>7 DEF HandlePhase, Known, u
      <3>2. chan[c].arg \in Phases
        BY <2>1, <3>1, OwnRequest
        DEF IInv, SocketOK, Reading, Phases, CS_SETUP, CS_TIMEOUT, CS_SKIP, Socket
      <3>3. v \in View BY <2>3, <3>1, <3>2, HandlePhaseType
      <3>4. Fits(u.state, u.ev)
        <4>1. ~Finished(j) BY <2>1 DEF Story, Reaping, Reading
        <4>2. History(j) BY <2>2 DEF Story, Tale
        <4>3. QED BY <2>3, <4>1, <4>2 DEF History
      <3>5. Balanced(u, v) /\ Blame(v.t, v.ev)
        BY <2>3, <2>4, <3>1, <3>2, <3>4, PhaseBalanced
      <3>6. Goal(v) BY <3>1, <3>3, <3>5
      <3>7. QED BY <2>1, <2>2, <3>6 DEF u
    <2>8. CASE HandleDeath(c)
      <3>1. PICK crashed \in BOOLEAN :
               Handled(c, handle_death(u, crashed, chan[c].arg, Test(j)))
        BY <2>8 DEF HandleDeath, u
      <3> DEFINE v == handle_death(u, crashed, chan[c].arg, Test(j))
      <3>2. v \in View BY <1>0, <2>3, HandleDeathType
      <3>3. Balanced(u, v) /\ Blame(v.t, v.ev) BY <1>0, <2>3, <2>4, DeathBalanced
      <3>4. Goal(v) BY <3>1, <3>2, <3>3
      <3>5. QED BY <2>1, <2>2, <3>4 DEF u
    <2>9. CASE HandleAssert(c)
      <3>1. PICK passed \in BOOLEAN : Handled(c, push_assert(u, passed))
        BY <2>9 DEF HandleAssert, handle_assert, u
      <3> DEFINE v == push_assert(u, passed)
                 K == AssertCounts(passed)
      <3>2. v \in View BY <2>3, KeepsAssert DEF Keeps
      <3>3. /\ v.ev = u.ev /\ v.ss = Count(u.ss, K, 1) /\ v.g = Count(u.g, K, 1)
            /\ v.t = AssertStats(u.t, passed)
        BY <2>3 DEF push_assert, Tally, View
      <3>4. v.t.test_status = u.t.test_status
        BY <2>5, <3>3 DEF AssertStats, TestStats
      <3>5. K \cap Verdicts = {} BY DEF AssertCounts, Verdicts
      <3> HIDE DEF v, K
      <3>6. Balanced(u, v) BY <2>3, <3>3, <3>5, QuietBalanced
      <3>7. Handled(c, v) BY <3>1 DEF v
      <3>8. Goal(v) BY <2>q, <3>2, <3>3, <3>4, <3>6, <3>7
      <3>9. QED BY <2>1, <2>2, <3>8 DEF u
    <2>10. CASE HandleStatistic(c)
      <3> DEFINE n == chan[c].arg
                 v == handle_statistic(u, n)
                 K == {"asserts_passed", "nb_asserts"}
      <3>1. Handled(c, v) BY <2>10 DEF HandleStatistic, u
      <3>2. v \in View BY <1>0, <2>3, HandleStatisticType DEF Keeps
      <3>3. /\ v.ev = u.ev /\ v.ss = Count(u.ss, K, n) /\ v.g = Count(u.g, K, n)
            /\ v.t.test_status = u.t.test_status
        BY <2>3, <2>5 DEF handle_statistic, View, TestStats
      <3>4. K \cap Verdicts = {} BY DEF Verdicts
      <3> HIDE DEF v, K
      <3>5. Balanced(u, v) BY <1>0, <2>3, <3>3, <3>4, QuietBalanced
      <3>6. Goal(v) BY <2>q, <3>1, <3>2, <3>3, <3>5
      <3>7. QED BY <2>1, <2>2, <3>6 DEF u
    <2>11. CASE HandleMessage(c)
      <3> DEFINE v == handle_message(u, chan[c].kind)
                 K == IF chan[c].kind = "ERROR" THEN {"errors"}
                      ELSE IF chan[c].kind = "WARNING" THEN {"warnings"} ELSE {}
      <3>1. Handled(c, v) BY <2>11 DEF HandleMessage, u
      <3>2. v \in View BY <2>3, HandleMessageType DEF Keeps
      <3>3. /\ v.ev = u.ev /\ v.ss = u.ss /\ v.g = Count(u.g, K, 1) /\ v.t = u.t
        BY <2>3 DEF handle_message, View
      <3>4. \A k \in SuiteCounter : k \notin K /\ k \in DOMAIN u.g
        BY <2>5 DEF SuiteCounter, GlobalCounter
      <3> HIDE DEF v, K
      <3>5. \A k \in SuiteCounter : v.g[k] = u.g[k] BY <3>3, <3>4 DEF Count
      <3>6. Goal(v) BY <2>3, <2>q, <3>1, <3>2, <3>3, <3>5, SameBalanced
      <3>7. QED BY <2>1, <2>2, <3>6 DEF u
    <2>12. QED
      BY <1>2, <2>6, <2>7, <2>8, <2>9, <2>10, <2>11 DEF Receive
  <1>3. QED BY <1>1, <1>2

\* The verdicts of a suite move with the events of one of its tests.
LEMMA VerdictsMove ==
    ASSUME NEW j \in Job, \A k \in Job \ {j} : ctx'[k] = ctx[k],
           NEW s \in DOMAIN Suites
    PROVE  /\ s # j[1] \/ VerdictsAt(ctx'[j].ev) = VerdictsAt(ctx[j].ev)
                 => VerdictsIn(s)' = VerdictsIn(s)
           /\ \A n : /\ n \notin VerdictsAt(ctx[j].ev)
                     /\ VerdictsAt(ctx'[j].ev) = VerdictsAt(ctx[j].ev) \cup {n}
                 => /\ <<j, n>> \notin VerdictsIn(j[1])
                    /\ VerdictsIn(j[1])' = VerdictsIn(j[1]) \cup {<<j, n>>}
  <1> DEFINE Old(k) == VerdictsAt(ctx[k].ev)
             New(k) == VerdictsAt(ctx'[k].ev)
  <1>1. \A r, x : x \in VerdictsIn(r)
           <=> \E k \in Job : k[1] = r /\ x \in {k} \X Old(k)
    BY DEF VerdictsIn
  <1>2. \A r, x : x \in VerdictsIn(r)'
           <=> \E k \in Job : k[1] = r /\ x \in {k} \X New(k)
    BY DEF VerdictsIn
  <1>3. \A k \in Job \ {j} : New(k) = Old(k) OBVIOUS
  <1> HIDE DEF Old, New
  <1>4. ASSUME s # j[1] \/ New(j) = Old(j) PROVE VerdictsIn(s)' = VerdictsIn(s)
    <2>1. \A x : x \in VerdictsIn(s)' <=> x \in VerdictsIn(s)
      BY <1>1, <1>2, <1>3, <1>4
    <2>2. QED BY <2>1 DEF VerdictsIn
  <1>5. ASSUME NEW n, n \notin Old(j), New(j) = Old(j) \cup {n}
        PROVE  /\ <<j, n>> \notin VerdictsIn(j[1])
               /\ VerdictsIn(j[1])' = VerdictsIn(j[1]) \cup {<<j, n>>}
    <2>1. \A k, m, S : <<j, m>> \in {k} \X S <=> k = j /\ m \in S OBVIOUS
    <2>2. <<j, n>> \notin VerdictsIn(j[1]) BY <1>1, <1>5, <2>1
    <2>3. \A x : x \in {j} \X New(j) <=> x \in {j} \X Old(j) \/ x = <<j, n>>
      BY <1>5
    <2>4. \A x : x \in VerdictsIn(j[1])'
                    <=> x \in VerdictsIn(j[1]) \/ x = <<j, n>>
      BY <1>1, <1>2, <1>3, <2>3
    <2>5. \A x : x \in VerdictsIn(j[1])'
                    <=> x \in VerdictsIn(j[1]) \cup {<<j, n>>}
      BY <2>4
    <2>6. VerdictsIn(j[1])' = VerdictsIn(j[1]) \cup {<<j, n>>}
      BY <2>5 DEF VerdictsIn
    <2>7. QED BY <2>2, <2>6
  <1>6. QED BY <1>4, <1>5 DEF Old, New

LEMMA SkippedFinite ==
    ASSUME NEW s \in DOMAIN Suites
    PROVE  IsFiniteSet(SkippedSoFar(s)) /\ Cardinality(SkippedSoFar(s)) \in Nat
  <1>1. Suites[s] \in SuiteRec BY SuitesAssumption
  <1>2. /\ DOMAIN Suites[s].tests = 1 .. Len(Suites[s].tests)
        /\ Len(Suites[s].tests) \in Nat
    BY <1>1 DEF SuiteRec
  <1>3. IsFiniteSet(DOMAIN Suites[s].tests) BY <1>2, FS_Interval
  <1>4. SkippedSoFar(s) \subseteq DOMAIN Suites[s].tests
    BY DEF SkippedSoFar, DisabledIn
  <1>5. QED BY <1>3, <1>4, FS_Subset, FS_CardinalityType

\* The coroutine passes the disabled tests one by one.
LEMMA SkippedMove ==
    ASSUME IInv, Schedule, NEW s \in DOMAIN Suites
    PROVE  /\ ~SkipDisabled \/ s # pos.suite => SkippedSoFar(s)' = SkippedSoFar(s)
           /\ SkipDisabled /\ s = pos.suite
                 => /\ pos.test \notin SkippedSoFar(s)
                    /\ SkippedSoFar(s)' = SkippedSoFar(s) \cup {pos.test}
  <1>0. /\ pos \in [suite : Nat, test : Nat, param : Nat] /\ s \in Nat
        /\ Suites[s] \in SuiteRec /\ DisabledIn(s)' = DisabledIn(s)
    BY SuitesAssumption DEF IInv, TypeOK, DisabledIn
  <1>1. \A n \in DisabledIn(s) : n \in Nat /\ n > 0 /\ n <= Len(Suites[s].tests)
                                 /\ Suites[s].tests[n].disabled
    BY <1>0 DEF DisabledIn, SuiteRec
  <1>2. \A n : n \in SkippedSoFar(s)
                  <=> n \in DisabledIn(s)
                      /\ (s < pos.suite \/ (s = pos.suite /\ n < pos.test))
    BY DEF SkippedSoFar
  <1>3. \A n : n \in SkippedSoFar(s)'
                  <=> n \in DisabledIn(s)
                      /\ (s < pos'.suite \/ (s = pos'.suite /\ n < pos'.test))
    BY <1>0 DEF SkippedSoFar
  <1>q. (\A n : n \in SkippedSoFar(s)' <=> n \in SkippedSoFar(s))
           => SkippedSoFar(s)' = SkippedSoFar(s)
    BY DEF SkippedSoFar
  <1>t. NextTest => pos'.suite = pos.suite /\ pos'.test = pos.test + 1
    BY <1>0 DEF NextTest
  <1>n. NextSuite => pos'.suite = pos.suite + 1 /\ pos'.test = 0
    BY DEF NextSuite
  <1>4. CASE SkipSuite
    <2>1. /\ pos'.suite = pos.suite + 1 /\ pos'.test = 0 /\ pos.test = 0
          /\ Suites[pos.suite].tests = <<>>
      BY <1>4, <1>n DEF SkipSuite, AtSuite, tests
    <2>2. s = pos.suite => DisabledIn(s) = {} BY <2>1 DEF DisabledIn
    <2>3. \A n : n \in SkippedSoFar(s)' <=> n \in SkippedSoFar(s)
      BY <1>0, <1>1, <1>2, <1>3, <2>1, <2>2
    <2>4. ~SkipDisabled BY <2>1, <1>4 DEF SkipDisabled, AtTest, tests
    <2>5. QED BY <1>q, <2>3, <2>4
  <1>5. CASE EnterSuite
    <2>1. pos'.suite = pos.suite /\ pos'.test = 1 /\ pos.test = 0
      BY <1>5, <1>t DEF EnterSuite, AtSuite
    <2>2. \A n : n \in SkippedSoFar(s)' <=> n \in SkippedSoFar(s)
      BY <1>0, <1>1, <1>2, <1>3, <2>1
    <2>3. ~SkipDisabled
      <3>1. pos.suite <= Len(Suites) BY <1>5 DEF EnterSuite, AtSuite
      <3>2. tests \in Seq(TestRec) BY <3>1, AtSuiteFacts
      <3>3. 0 \notin DOMAIN tests BY <3>2
      <3>4. QED BY <2>1, <3>3 DEF SkipDisabled, AtTest
    <2>4. QED BY <1>q, <2>2, <2>3
  <1>6. CASE EndTest \/ SkipDisabled
    <2>1. pos'.suite = pos.suite /\ pos'.test = pos.test + 1
      BY <1>6, <1>t DEF EndTest, SkipDisabled
    <2>2. CASE s # pos.suite
      <3>1. \A n : n \in SkippedSoFar(s)' <=> n \in SkippedSoFar(s)
        BY <1>2, <1>3, <2>1, <2>2
      <3>2. SkippedSoFar(s)' = SkippedSoFar(s) BY <1>q, <3>1
      <3> QED BY <2>2, <3>2
    <2>3. CASE s = pos.suite
      <3>1. \A n : n \in SkippedSoFar(s)'
                      <=> n \in SkippedSoFar(s)
                          \/ (n = pos.test /\ pos.test \in DisabledIn(s))
        BY <1>0, <1>1, <1>2, <1>3, <2>1, <2>3
      <3>2. pos.test \notin SkippedSoFar(s) BY <1>0, <1>2, <2>3
      <3>3. SkipDisabled => pos.test \in DisabledIn(s)
        BY <2>3 DEF SkipDisabled, AtTest, test, tests, DisabledIn
      <3>4. EndTest => pos.test \notin DisabledIn(s)
        BY <2>3 DEF EndTest, test, tests, DisabledIn
      <3>5. SkipDisabled => SkippedSoFar(s)' = SkippedSoFar(s) \cup {pos.test}
        BY <3>1, <3>3 DEF SkippedSoFar
      <3>6. EndTest => SkippedSoFar(s)' = SkippedSoFar(s)
        BY <1>q, <3>1, <3>4
      <3>7. QED BY <1>6, <2>3, <3>2, <3>5, <3>6
    <2>4. QED BY <2>2, <2>3
  <1>7. CASE SpawnNext
    <2>1. pos'.suite = pos.suite /\ pos'.test = pos.test
      BY <1>0, <1>7 DEF SpawnNext
    <2>2. \A n : n \in SkippedSoFar(s)' <=> n \in SkippedSoFar(s)
      BY <1>2, <1>3, <2>1
    <2>3. ~SkipDisabled BY <1>7 DEF SpawnNext, SkipDisabled
    <2>4. QED BY <1>q, <2>2, <2>3
  <1>8. CASE LeaveSuite
    <2>1. /\ pos'.suite = pos.suite + 1 /\ pos'.test = 0
          /\ pos.test > Len(Suites[pos.suite].tests)
      BY <1>8, <1>n DEF LeaveSuite, tests
    <2>2. Len(Suites[s].tests) \in Nat BY <1>0 DEF SuiteRec
    <2>3. \A n : n \in SkippedSoFar(s)' <=> n \in SkippedSoFar(s)
      BY <1>0, <1>1, <1>2, <1>3, <2>1, <2>2
    <2>4. ~SkipDisabled
      <3>1. pos.suite <= Len(Suites) BY <1>8 DEF LeaveSuite
      <3>2. tests \in Seq(TestRec) /\ tests = Suites[pos.suite].tests
        BY <3>1, AtSuiteFacts DEF tests
      <3>3. pos.test \notin DOMAIN tests BY <1>0, <2>1, <3>2
      <3>4. QED BY <3>3 DEF SkipDisabled, AtTest
    <2>5. QED BY <1>q, <2>3, <2>4
  <1>9. CASE NoNext
    <2>1. UNCHANGED pos /\ pos.suite > Len(Suites) BY <1>9 DEF NoNext
    <2>2. \A n : n \in SkippedSoFar(s)' <=> n \in SkippedSoFar(s)
      BY <1>2, <1>3, <2>1
    <2>3. Len(Suites) \in Nat BY SuitesAssumption
    <2>4. ~SkipDisabled BY <1>0, <2>1, <2>3 DEF SkipDisabled, AtTest
    <2>5. QED BY <1>q, <2>2, <2>4
  <1>10. QED
    BY <1>4, <1>5, <1>6, <1>7, <1>8, <1>9 DEF Schedule

\* The sum moves with the counters of one suite.
LEMMA SumMove ==
    ASSUME IInv, NEW s \in DOMAIN Suites, NEW k \in SuiteCounter, NEW acc,
           Running(acc, k),
           \A r \in DOMAIN Suites \ {s} : ss'[r] = ss[r],
           ss'[s][k] \in Nat, g'[k] \in Nat, ss'[s][k] >= ss[s][k],
           g'[k] + ss[s][k] = g[k] + ss'[s][k]
    PROVE  (\E new : Running(new, k))'
  <1> DEFINE more == ss'[s][k] - ss[s][k]
             new == [r \in 0 .. Len(Suites) |-> IF r < s THEN acc[r]
                                                ELSE acc[r] + more]
  <1>0. /\ Len(Suites) \in Nat /\ DOMAIN Suites = 1 .. Len(Suites)
        /\ \A r \in DOMAIN Suites : ss[r][k] \in Nat
        /\ g[k] \in Nat
    BY SuitesAssumption DEF IInv, TypeOK, GlobalCounter
  <1>1. more \in Nat /\ ss'[s][k] = ss[s][k] + more BY <1>0
  <1> HIDE DEF more
  <1>2. /\ acc \in [0 .. Len(Suites) -> Nat] /\ acc[0] = 0
        /\ \A r \in DOMAIN Suites : acc[r] = acc[r - 1] + ss[r][k]
        /\ acc[Len(Suites)] = g[k]
    BY DEF Running
  <1>3. new \in [0 .. Len(Suites) -> Nat] BY <1>0, <1>1, <1>2
  <1>4. \A r \in 0 .. Len(Suites) : new[r] = IF r < s THEN acc[r] ELSE acc[r] + more
    OBVIOUS
  <1> HIDE DEF new
  <1>5. new[0] = 0 BY <1>0, <1>2, <1>4
  <1>6. ASSUME NEW r \in DOMAIN Suites PROVE new[r] = new[r - 1] + ss'[r][k]
    <2>1. /\ r \in Nat /\ r > 0 /\ r \in 0 .. Len(Suites) /\ s \in Nat
          /\ r - 1 \in 0 .. Len(Suites) /\ acc[r - 1] \in Nat
      BY <1>0, <1>2
    <2>2. acc[r] = acc[r - 1] + ss[r][k] /\ ss[r][k] \in Nat BY <1>0, <1>2
    <2>3. CASE r = s
      <3>1. new[r] = acc[r] + more /\ new[r - 1] = acc[r - 1]
        BY <1>4, <2>1, <2>3
      <3>2. ss'[r][k] = ss[r][k] + more BY <1>1, <2>3
      <3>3. \A a, b, d \in Nat : (a + b) + d = a + (b + d) OBVIOUS
      <3>4. QED BY <1>1, <2>1, <2>2, <3>1, <3>2, <3>3
    <2>4. CASE r # s
      <3>1. ss'[r][k] = ss[r][k] BY <2>4
      <3>2. CASE r < s
        <4>1. new[r] = acc[r] /\ new[r - 1] = acc[r - 1]
          BY <1>4, <2>1, <3>2
        <4>2. QED BY <2>2, <3>1, <4>1
      <3>3. CASE r > s
        <4>1. new[r] = acc[r] + more /\ new[r - 1] = acc[r - 1] + more
          BY <1>4, <2>1, <3>3
        <4>2. QED BY <1>1, <2>1, <2>2, <3>1, <4>1
      <3>4. QED BY <2>1, <2>4, <3>2, <3>3
    <2>5. QED BY <2>3, <2>4
  <1>7. new[Len(Suites)] = g'[k]
    <2>1. new[Len(Suites)] = g[k] + more BY <1>0, <1>2, <1>4
    <2>2. g'[k] = g[k] + more
      <3>1. ss[s][k] \in Nat BY <1>0
      <3>2. g'[k] + ss[s][k] = g[k] + (ss[s][k] + more) BY <1>1
      <3>3. \A a, b, d, e \in Nat : a + b = d + (b + e) => a = d + e OBVIOUS
      <3>4. g[k] \in Nat /\ more \in Nat BY <1>0, <1>1
      <3>5. QED BY <3>1, <3>2, <3>3, <3>4
    <2>3. QED BY <2>1, <2>2
  <1>8. QED BY <1>3, <1>5, <1>6, <1>7 DEF Running

\* A step that counts nothing and tells nothing.
LEMMA BooksStay ==
    ASSUME Books, UNCHANGED <<ctx, ss>>,
           \A k \in SuiteCounter : g'[k] = g[k],
           \A j \in Job : wk'[j].proc = "none" => wk[j].proc = "none",
           \A s \in DOMAIN Suites : /\ SkippedSoFar(s)' = SkippedSoFar(s)
                                    /\ Untouched(s)' => Untouched(s)
    PROVE  Books'
  <1>1. \A j \in Job : (Blame(ctx[j].t, ctx[j].ev) /\ Unseen(j))'
    BY DEF Books, Unseen
  <1>2. ASSUME NEW s \in DOMAIN Suites
        PROVE  (Untouched(s) => ss[s] = ZeroSuite)' /\ Tallied(s)'
    <2>1. VerdictsIn(s)' = VerdictsIn(s) BY DEF VerdictsIn
    <2>2. QED BY <2>1 DEF Books, Tallied
  <1>3. ASSUME NEW k \in SuiteCounter PROVE (\E acc : Running(acc, k))'
    BY DEF Books, Running
  <1>4. QED BY <1>1, <1>2, <1>3 DEF Books

LEMMA HandledBooks ==
    ASSUME IInv, IInv', Story, Slots, Books, NEW c \in Socket, NEW j \in Job,
           NEW v \in View, j = Client(c), j \in subs, Reading(c), Handled(c, v),
           Balanced(viewOf(j), v), Blame(v.t, v.ev)
    PROVE  Books'
  <1> DEFINE s == j[1]
  <1>0. /\ ctx'[j].ev = v.ev /\ ctx'[j].t = v.t /\ ss'[s] = v.ss /\ g' = v.g
        /\ \A i \in Job \ {j} : ctx'[i] = ctx[i]
        /\ \A r \in DOMAIN Suites : r # s => ss'[r] = ss[r]
        /\ UNCHANGED <<wk, pos>>
    <2>1. UNCHANGED <<wk, pos>> BY DEF Handled
    <2>2. QED BY <2>1, HandledFacts
  <1>1. /\ s \in DOMAIN Suites /\ s \in Nat /\ j[2] \in DOMAIN Suites[s].tests
        /\ Suites[s] \in SuiteRec /\ j[3] \in Nat /\ j[3] > 0
    BY JobFacts DEF TestRec
  <1>2. /\ viewOf(j).ss = ss[s] /\ viewOf(j).ev = ctx[j].ev /\ viewOf(j).g = g
    BY DEF viewOf
  <1> HIDE DEF s
  <1>3. wk[j].proc # "none" BY DEF Slots
  <1>4. \A i \in Job : (Blame(ctx[i].t, ctx[i].ev) /\ Unseen(i))'
    BY <1>0, <1>3 DEF Books, Unseen
  <1>5. \A r \in DOMAIN Suites : /\ SkippedSoFar(r)' = SkippedSoFar(r)
                                 /\ Untouched(r)' <=> Untouched(r)
    BY <1>0 DEF SkippedSoFar, DisabledIn, Untouched
  <1>6. ~Untouched(s)
    <2>1. wk[j] # Unborn BY <1>3 DEF Unborn
    <2>2. ~Ahead(j) BY <2>1 DEF IInv, Fresh
    <2>3. j[2] > 0 /\ j[2] \in Nat BY <1>1 DEF SuiteRec
    <2>4. pos.suite \in Nat /\ pos.test \in Nat BY DEF IInv, TypeOK
    <2>5. QED BY <1>1, <2>2, <2>3, <2>4 DEF Ahead, Untouched, s
  <1>7. ASSUME NEW r \in DOMAIN Suites
        PROVE  (Untouched(r) => ss[r] = ZeroSuite)' /\ Tallied(r)'
    <2>1. Tallied(r) /\ (Untouched(r) => ss[r] = ZeroSuite) BY DEF Books
    <2>2. CASE r # s
      <3>1. VerdictsIn(r)' = VerdictsIn(r) BY <1>0, <2>2, VerdictsMove DEF s
      <3>2. QED BY <1>0, <1>5, <2>1, <2>2, <3>1 DEF Tallied
    <2>3. CASE r = s
      <3>1. CASE VerdictsAt(v.ev) = VerdictsAt(ctx[j].ev)
                 /\ VerdictTotal(v.ss) = VerdictTotal(ss[s])
        <4>1. VerdictsIn(r)' = VerdictsIn(r) BY <1>0, <3>1, VerdictsMove
        <4>2. QED BY <1>0, <1>5, <1>6, <2>1, <2>3, <3>1, <4>1 DEF Tallied
      <3>2. CASE /\ VerdictTotal(v.ss) = VerdictTotal(ss[s]) + 1
                 /\ \E n : /\ n \notin VerdictsAt(ctx[j].ev)
                           /\ VerdictsAt(v.ev) = VerdictsAt(ctx[j].ev) \cup {n}
        <4>1. PICK n : /\ n \notin VerdictsAt(ctx[j].ev)
                       /\ VerdictsAt(v.ev) = VerdictsAt(ctx[j].ev) \cup {n}
          BY <3>2
        <4>2. /\ <<j, n>> \notin VerdictsIn(s)
              /\ VerdictsIn(s)' = VerdictsIn(s) \cup {<<j, n>>}
          BY <1>0, <1>1, <4>1, VerdictsMove DEF s
        <4>3. /\ IsFiniteSet(VerdictsIn(s)')
              /\ Cardinality(VerdictsIn(s)') = Cardinality(VerdictsIn(s)) + 1
              /\ Cardinality(VerdictsIn(s)) \in Nat
          BY <2>1, <2>3, <4>2, FS_AddElement, FS_CardinalityType DEF Tallied
        <4>4. Cardinality(SkippedSoFar(s)) \in Nat
          BY <1>1, SkippedFinite
        <4>5. VerdictTotal(v.ss) = Cardinality(VerdictsIn(s)')
                                   + Cardinality(SkippedSoFar(s))
          BY <2>1, <2>3, <3>2, <4>3, <4>4 DEF Tallied
        <4>6. QED BY <1>0, <1>5, <1>6, <2>3, <4>3, <4>5 DEF Tallied
      <3>3. QED BY <1>2, <3>1, <3>2 DEF Balanced
    <2>4. QED BY <2>2, <2>3
  <1>8. ASSUME NEW k \in SuiteCounter PROVE (\E acc : Running(acc, k))'
    <2>1. PICK acc : Running(acc, k) BY DEF Books
    <2>2. v.ss[k] \in Nat /\ v.g[k] \in Nat BY DEF View, GlobalCounter
    <2>3. /\ \A r \in DOMAIN Suites \ {s} : ss'[r] = ss[r]
          /\ ss'[s][k] \in Nat /\ g'[k] \in Nat /\ ss'[s][k] >= ss[s][k]
          /\ g'[k] + ss[s][k] = g[k] + ss'[s][k]
      BY <1>0, <1>2, <2>2 DEF Balanced
    <2>4. QED BY <1>1, <2>1, <2>3, SumMove
  <1>9. QED BY <1>4, <1>7, <1>8 DEF Books

LEMMA DisabledBooks ==
    ASSUME IInv, IInv', Books, SkipDisabled
    PROVE  Books'
  <1> DEFINE K == PreInitCounts([FreshTest EXCEPT !.test_status = SKIPPED])
  <1>s. PICK s \in DOMAIN Suites : s = pos.suite
    <2>1. pos.suite \in DOMAIN Suites BY AtSuiteFacts DEF SkipDisabled, AtTest
    <2>2. QED BY <2>1
  <1>0. /\ s \in DOMAIN Suites /\ ss \in [DOMAIN Suites -> [SuiteCounter -> Nat]]
        /\ g \in [GlobalCounter -> Nat] /\ Schedule
        /\ pos \in [suite : Nat, test : Nat, param : Nat]
        /\ s \in Nat /\ pos.test > 0
    <2>1. tests \in Seq(TestRec)
      BY AtSuiteFacts DEF SkipDisabled, AtTest
    <2>2. pos.test \in DOMAIN tests BY DEF SkipDisabled, AtTest
    <2>3. QED BY <1>s, <2>1, <2>2, SuitesAssumption DEF IInv, TypeOK, Schedule
  <1>1. /\ UNCHANGED <<ctx, wk>> /\ g' = Count(g, K, 1)
        /\ ss' = [ss EXCEPT ![s] = Count(ss[s], K, 1)]
        /\ pos'.suite = pos.suite /\ pos'.test = pos.test + 1
    BY <1>s, <1>0 DEF SkipDisabled, workerVars, NextTest
  <1>2. K \cap Verdicts = {"tests_skipped"} /\ "tests_skipped" \in Verdicts
    BY DEF PreInitCounts, FreshTest, Verdicts
  <1> HIDE DEF K
  <1>3. /\ ss'[s] = Count(ss[s], K, 1) /\ ss[s] \in [SuiteCounter -> Nat]
        /\ \A r \in DOMAIN Suites : r # s => ss'[r] = ss[r]
    BY <1>0, <1>1
  <1>4. \A j \in Job : (Blame(ctx[j].t, ctx[j].ev) /\ Unseen(j))'
    BY <1>1 DEF Books, Unseen
  <1>5. \A r \in DOMAIN Suites : (Untouched(r)' => Untouched(r)) /\ ~Untouched(s)'
    BY <1>s, <1>0, <1>1 DEF Untouched
  <1>6. ASSUME NEW r \in DOMAIN Suites
        PROVE  (Untouched(r) => ss[r] = ZeroSuite)' /\ Tallied(r)'
    <2>1. Tallied(r) /\ (Untouched(r) => ss[r] = ZeroSuite) BY DEF Books
    <2>2. VerdictsIn(r)' = VerdictsIn(r) BY <1>1 DEF VerdictsIn
    <2>3. CASE r # s
      <3>1. SkippedSoFar(r)' = SkippedSoFar(r) BY <1>s, <1>0, <2>3, SkippedMove
      <3>2. QED BY <1>3, <1>5, <2>1, <2>2, <2>3, <3>1 DEF Tallied
    <2>4. CASE r = s
      <3>1. /\ pos.test \notin SkippedSoFar(r)
            /\ SkippedSoFar(r)' = SkippedSoFar(r) \cup {pos.test}
        BY <1>s, <1>0, <2>4, SkippedMove
      <3>2. Cardinality(SkippedSoFar(r)') = Cardinality(SkippedSoFar(r)) + 1
            /\ Cardinality(SkippedSoFar(r)) \in Nat
        BY <3>1, SkippedFinite, FS_AddElement
      <3>3. Cardinality(VerdictsIn(r)) \in Nat
        BY <2>1, FS_CardinalityType DEF Tallied
      <3>4. VerdictTotal(Count(ss[s], K, 1)) = VerdictTotal(ss[s]) + 1
        BY <1>2, <1>3, VerdictsTogether
      <3>5. VerdictTotal(ss'[s]) = Cardinality(VerdictsIn(r))
                                   + Cardinality(SkippedSoFar(r)')
        BY <1>3, <2>1, <2>4, <3>2, <3>3, <3>4 DEF Tallied
      <3>6. QED BY <1>5, <2>1, <2>2, <2>4, <3>5 DEF Tallied
    <2>5. QED BY <2>3, <2>4
  <1>7. ASSUME NEW k \in SuiteCounter PROVE (\E acc : Running(acc, k))'
    <2>1. PICK acc : Running(acc, k) BY DEF Books
    <2>2. /\ ss'[s][k] \in Nat /\ g'[k] \in Nat
      BY <1>0 DEF IInv, TypeOK, GlobalCounter
    <2>3. /\ Count(ss[s], K, 1)[k] >= ss[s][k]
          /\ Count(g, K, 1)[k] + ss[s][k] = g[k] + Count(ss[s], K, 1)[k]
      BY <1>0, <1>3, CountsTogether
    <2>4. QED BY <1>0, <1>1, <1>3, <2>1, <2>2, <2>3, SumMove
  <1>8. QED BY <1>4, <1>6, <1>7 DEF Books

LEMMA BooksKept ==
    ASSUME IInv, IInv', Story, Slots, Books, [Next]_vars
    PROVE  Books'
  <1>d. \A s : DisabledIn(s)' = DisabledIn(s) BY DEF DisabledIn
  <1>p. ASSUME UNCHANGED <<ctx, ss, g, pos>>,
               \A j \in Job : wk'[j].proc = "none" => wk[j].proc = "none"
        PROVE  Books'
    <2>1. \A s \in DOMAIN Suites : /\ SkippedSoFar(s)' = SkippedSoFar(s)
                                   /\ Untouched(s)' => Untouched(s)
      BY <1>d, <1>p DEF SkippedSoFar, Untouched
    <2>2. QED BY <1>p, <2>1, BooksStay
  <1>1. CASE Others
    <2>1. UNCHANGED <<ctx, ss, g, pos>> BY <1>1 DEF Others, serverVars, loopVars
    <2>2. QED BY <1>1, <1>p, <2>1, OthersKeep
  <1>2. CASE Schedule /\ ~SkipDisabled
    <2>0. /\ ctx \in [Job -> ClientCtx] /\ pos.suite \in Nat /\ pos.test \in Nat
          /\ ss \in [DOMAIN Suites -> [SuiteCounter -> Nat]]
          /\ g \in [GlobalCounter -> Nat]
      BY DEF IInv, TypeOK
    <2>1. UNCHANGED ctx /\ \A j \in Job : wk'[j].proc = "none" => wk[j].proc = "none"
      <3>1. CASE SpawnNext
        <4>1. PICK j \in Job : /\ wk[j] = Unborn
                               /\ ctx' = [ctx EXCEPT ![j] = FreshCtx]
                               /\ wk'[j] = [Unborn EXCEPT !.proc = "running"]
                               /\ \A k \in Job \ {j} : wk'[k] = wk[k]
          BY <3>1, Spawning
        <4>2. wk[j].proc = "none" /\ wk'[j].proc = "running"
          BY <4>1 DEF Unborn
        <4>3. ctx[j] = FreshCtx BY <4>2 DEF Books, Unseen
        <4>4. ctx' = ctx BY <2>0, <4>1, <4>3
        <4>5. QED BY <4>1, <4>2, <4>4
      <3>2. CASE ~SpawnNext BY <1>2, <3>2, Turning
      <3>3. QED BY <3>1, <3>2
    <2>2. UNCHANGED ss /\ \A k \in SuiteCounter : g'[k] = g[k]
      <3>1. CASE EnterSuite
        <4>1. /\ ss' = [ss EXCEPT ![pos.suite] = ZeroSuite]
              /\ g' = Count(g, {"nb_suites"}, 1)
              /\ pos.suite <= Len(Suites) /\ pos.test = 0
          BY <3>1 DEF EnterSuite, AtSuite
        <4>2. pos.suite \in DOMAIN Suites BY <4>1, AtSuiteFacts
        <4>3. ss[pos.suite] = ZeroSuite BY <4>1, <4>2 DEF Books, Untouched
        <4>4. \A k \in SuiteCounter : k \in DOMAIN g /\ k # "nb_suites"
          BY <2>0 DEF SuiteCounter, GlobalCounter
        <4>5. QED BY <2>0, <4>1, <4>2, <4>3, <4>4 DEF Count
      <3>2. CASE ~EnterSuite
        BY <1>2, <3>2 DEF Schedule, SkipSuite, SpawnNext, EndTest, LeaveSuite,
                          NoNext, serverVars
      <3>3. QED BY <3>1, <3>2
    <2>3. \A s \in DOMAIN Suites : Untouched(s)' => Untouched(s)
      <3>1. \/ UNCHANGED pos
            \/ pos'.suite = pos.suite /\ pos'.test = pos.test
            \/ pos'.suite = pos.suite /\ pos'.test = pos.test + 1
            \/ pos'.suite = pos.suite + 1 /\ pos'.test = 0
        <4>1. pos \in [suite : Nat, test : Nat, param : Nat]
          BY DEF IInv, TypeOK
        <4>2. NextTest => pos'.suite = pos.suite /\ pos'.test = pos.test + 1
          BY <4>1 DEF NextTest
        <4>3. NextSuite => pos'.suite = pos.suite + 1 /\ pos'.test = 0
          BY DEF NextSuite
        <4>4. SpawnNext => pos'.suite = pos.suite /\ pos'.test = pos.test
          BY <4>1 DEF SpawnNext
        <4>5. NoNext => UNCHANGED pos BY DEF NoNext
        <4>6. QED
          BY <1>2, <4>2, <4>3, <4>4, <4>5
          DEF Schedule, SkipSuite, EnterSuite, EndTest, LeaveSuite
      <3>2. \A s \in DOMAIN Suites : s \in Nat BY SuitesAssumption
      <3>3. QED BY <2>0, <3>1, <3>2 DEF Untouched
    <2>4. \A s \in DOMAIN Suites : SkippedSoFar(s)' = SkippedSoFar(s)
      BY <1>2, SkippedMove
    <2>5. QED BY <2>1, <2>2, <2>3, <2>4, BooksStay
  <1>3. CASE SkipDisabled BY <1>3, DisabledBooks
  <1>4. CASE \E c \in Socket : Receive(c)
    <2>1. PICK c \in Socket : Receive(c) BY <1>4
    <2>2. UNCHANGED <<wk, pos>> BY <2>1, Received
    <2>3. CASE UNCHANGED <<ctx, ss, g>> BY <1>p, <2>2, <2>3
    <2>4. CASE \E j \in Job, v \in View :
                  /\ j = Client(c) /\ j \in subs /\ Reading(c) /\ Handled(c, v)
                  /\ Balanced(viewOf(j), v) /\ Blame(v.t, v.ev)
      BY <2>4, HandledBooks
    <2>5. QED BY <2>1, <2>3, <2>4, ReceiveBalanced
  <1>5. CASE Reap \/ Terminate \/ CallbackAborts \/ Cleanup \/ UNCHANGED vars
    <2>1. UNCHANGED <<wk, ctx, ss, g, pos>>
      BY <1>5 DEF Reap, Terminate, CallbackAborts, Cleanup, vars, workerVars,
                  serverVars
    <2>2. QED BY <1>p, <2>1
  <1>6. QED
    BY <1>1, <1>2, <1>3, <1>4, <1>5 DEF Next, RunnerStep, Ended

LEMMA BooksInit == Init => Books
  <1> SUFFICES ASSUME Init PROVE Books OBVIOUS
  <1>1. /\ ctx = [j \in Job |-> FreshCtx] /\ g = ZeroGlobal
        /\ ss = [s \in DOMAIN Suites |-> ZeroSuite]
        /\ pos = [suite |-> 1, test |-> 0, param |-> 0]
    BY DEF Init
  <1>2. \A j \in Job : Blame(ctx[j].t, ctx[j].ev) /\ Unseen(j)
    BY <1>1 DEF Blame, Unseen, FreshCtx, FreshTest
  <1>3. ASSUME NEW s \in DOMAIN Suites
        PROVE  ss[s] = ZeroSuite /\ Tallied(s)
    <2>1. ss[s] = ZeroSuite BY <1>1
    <2>2. VerdictsIn(s) = {}
      <3>1. \A j \in Job : VerdictsAt(ctx[j].ev) = {}
        BY <1>1 DEF FreshCtx, VerdictsAt
      <3>2. QED BY <3>1 DEF VerdictsIn
    <2>3. SkippedSoFar(s) = {}
      <3>1. Suites[s] \in SuiteRec /\ s \in Nat /\ s > 0 BY SuitesAssumption
      <3>2. \A n \in DisabledIn(s) : n \in Nat /\ n > 0
        BY <3>1 DEF DisabledIn, SuiteRec
      <3>3. QED BY <1>1, <3>1, <3>2 DEF SkippedSoFar
    <2>4. VerdictTotal(ZeroSuite) = 0
      BY DEF VerdictTotal, ZeroSuite, SuiteCounter
    <2>5. QED BY <2>1, <2>2, <2>3, <2>4, FS_EmptySet DEF Tallied
  <1>4. ASSUME NEW k \in SuiteCounter PROVE \E acc : Running(acc, k)
    <2> DEFINE acc == [s \in 0 .. Len(Suites) |-> 0]
    <2>1. Len(Suites) \in Nat /\ DOMAIN Suites = 1 .. Len(Suites)
      BY SuitesAssumption
    <2>2. ZeroSuite[k] = 0 /\ ZeroGlobal[k] = 0
      BY DEF ZeroSuite, ZeroGlobal, GlobalCounter
    <2>3. Running(acc, k) BY <1>1, <2>1, <2>2 DEF Running
    <2>4. QED BY <2>3
  <1>5. QED BY <1>2, <1>3, <1>4 DEF Books

(* The books are kept: every verdict is counted once, in the suite of its  *)
(* test and in the run, and so is every disabled test that was passed.     *)
THEOREM BooksAlways == Spec => []Books
  <1>1. IInv /\ IInv' /\ Slots /\ Story /\ Books /\ [Next]_vars => Books'
    BY BooksKept
  <1>2. QED
    BY <1>1, BooksInit, Invariance, SlotsAlways, StoryAlways, PTL DEF Spec

\* The sum over the suites is the running total.
LEMMA SumIsTotal ==
    ASSUME NEW k, NEW acc, Running(acc, k)
    PROVE  SumOverSuites(k) = g[k]
  <1> DEFINE l == Len(Suites)
             Body(f) == [s \in 0 .. l |-> IF s = 0 THEN 0 ELSE f[s - 1] + ss[s][k]]
             sum == CHOOSE f : f = Body(f)
  <1>0. /\ l \in Nat /\ DOMAIN Suites = 1 .. l
        /\ acc \in [0 .. l -> Nat] /\ acc[0] = 0
        /\ \A s \in DOMAIN Suites : acc[s] = acc[s - 1] + ss[s][k]
        /\ acc[l] = g[k]
    BY SuitesAssumption DEF Running
  <1>1. SumOverSuites(k) = sum[l] BY DEF SumOverSuites
  <1>2. acc = Body(acc)
    <2>1. \A s \in 0 .. l : acc[s] = Body(acc)[s]
      <3>1. \A s \in 0 .. l : s # 0 => s \in DOMAIN Suites BY <1>0
      <3>2. QED BY <1>0, <3>1
    <2>2. QED BY <1>0, <2>1
  <1>3. sum = Body(sum) BY <1>2
  <1> HIDE DEF sum
  <1>4. \A s \in 0 .. l : sum[s] = IF s = 0 THEN 0 ELSE sum[s - 1] + ss[s][k]
    BY <1>3
  <1>5. ASSUME NEW n \in 0 .. l, sum[n] # acc[n] PROVE FALSE
    <2> DEFINE S == {s \in 0 .. l : sum[s] # acc[s]}
    <2>0. S \subseteq Nat /\ S # {} BY <1>0, <1>5
    <2>1. PICK x \in S : \A y \in S : ~(y < x)
      <3> HIDE DEF S
      <3>1. QED BY <2>0, LeastElement
    <2>2. x # 0 BY <1>0, <1>4, <2>1
    <2>3. x \in DOMAIN Suites /\ x - 1 \in 0 .. l /\ x - 1 < x
      BY <1>0, <2>1, <2>2
    <2>4. sum[x - 1] = acc[x - 1] BY <2>1, <2>3
    <2>5. sum[x] = acc[x] BY <1>0, <1>4, <2>1, <2>2, <2>3, <2>4
    <2>6. QED BY <2>1, <2>5
  <1>6. l \in 0 .. l BY <1>0
  <1>7. QED BY <1>0, <1>1, <1>5, <1>6

(* The counters are the verdicts: those of a suite count what was told of  *)
(* its tests, and those of the run are the sum over the suites, whatever   *)
(* workers run side by side and in whatever order they die.                *)
THEOREM VerdictsAccounted == Spec => []Accounting
  <1>1. Books => Accounting
    BY SumIsTotal DEF Books, Tallied, Accounting
  <1>2. QED BY <1>1, BooksAlways, PTL

----------------------------------------------------------------------------
(* The run implements the pool of jobs.                                    *)

PoolInv == IInv /\ Slots /\ Walked /\ Spared /\ Story /\ Shown /\ Books

\* The state of the pool that the state of the run stands for.
Waiting   == {j \in ToRun : wk[j].proc = "none"}
Open      == subs \ Judged
Verdicted == subs \cap Judged
Done      == {j \in Judged : Reaped(j)}
Lost      == {j \in Job \ Judged : Reaped(j)}
PoolState == <<Waiting, Open, Verdicted, Done, Lost, Result>>

LEMMA PoolCardinality ==
    ASSUME NEW S
    PROVE  Pool!Cardinality(S) = Cardinality(S)
  BY DEF Pool!Cardinality, Cardinality

LEMMA PoolIs ==
    /\ Pool!pool = PoolState
    /\ Pool!Init <=> /\ Waiting = ToRun /\ Result = "open"
                     /\ Open = {} /\ Verdicted = {} /\ Done = {} /\ Lost = {}
    /\ \A j : Pool!Start(j) <=>
          /\ Result = "open"
          /\ \A k \in Waiting : <<k, j>> \notin Earlier
          /\ Cardinality(Open \cup Verdicted) < NbWorkers
          /\ Waiting' = Waiting \ {j} /\ Open' = Open \cup {j}
          /\ Verdicted' = Verdicted /\ Done' = Done /\ Lost' = Lost
          /\ Result' = Result
    /\ \A j : Pool!Judge(j) <=>
          /\ Result = "open"
          /\ Open' = Open \ {j} /\ Verdicted' = Verdicted \cup {j}
          /\ Waiting' = Waiting /\ Done' = Done /\ Lost' = Lost
          /\ Result' = Result
    /\ \A j : Pool!Finish(j) <=>
          /\ Result = "open"
          /\ Verdicted' = Verdicted \ {j} /\ Done' = Done \cup {j}
          /\ Waiting' = Waiting /\ Open' = Open /\ Lost' = Lost
          /\ Result' = Result
    /\ \A j : Pool!Lose(j) <=>
          /\ Result = "open" /\ j \in Job /\ InTheory(j)
          /\ Open' = Open \ {j} /\ Lost' = Lost \cup {j}
          /\ Waiting' = Waiting /\ Verdicted' = Verdicted /\ Done' = Done
          /\ Result' = Result
    /\ Pool!Complete <=>
          /\ Result = "open" /\ Waiting = {} /\ Open = {} /\ Verdicted = {}
          /\ Result' = "complete"
          /\ Waiting' = Waiting /\ Open' = Open /\ Verdicted' = Verdicted
          /\ Done' = Done /\ Lost' = Lost
    /\ Pool!Stop <=>
          /\ Result = "open" /\ Verdicted # {} /\ Result' = "stopped"
          /\ Waiting' = Waiting /\ Open' = Open /\ Verdicted' = Verdicted
          /\ Done' = Done /\ Lost' = Lost
    /\ Pool!Next <=> \/ \E j \in Waiting : Pool!Start(j)
                     \/ \E j \in Open : Pool!Judge(j) \/ Pool!Lose(j)
                     \/ \E j \in Verdicted : Pool!Finish(j)
                     \/ Pool!Complete \/ Pool!Stop
  <1>1. Pool!pool = PoolState
    BY DEF Pool!pool, PoolState, Waiting, Open, Verdicted, Done, Lost
  <1>2. Pool!Init <=> /\ Waiting = ToRun /\ Result = "open"
                      /\ Open = {} /\ Verdicted = {} /\ Done = {} /\ Lost = {}
    BY DEF Pool!Init, Waiting, Open, Verdicted, Done, Lost
  <1>3. ASSUME NEW j
        PROVE  Pool!Start(j) <=>
          /\ Result = "open"
          /\ \A k \in Waiting : <<k, j>> \notin Earlier
          /\ Cardinality(Open \cup Verdicted) < NbWorkers
          /\ Waiting' = Waiting \ {j} /\ Open' = Open \cup {j}
          /\ Verdicted' = Verdicted /\ Done' = Done /\ Lost' = Lost
          /\ Result' = Result
    BY PoolCardinality DEF Pool!Start, Waiting, Open, Verdicted, Done, Lost
  <1>4. ASSUME NEW j
        PROVE  Pool!Judge(j) <=>
          /\ Result = "open"
          /\ Open' = Open \ {j} /\ Verdicted' = Verdicted \cup {j}
          /\ Waiting' = Waiting /\ Done' = Done /\ Lost' = Lost
          /\ Result' = Result
    BY DEF Pool!Judge, Waiting, Open, Verdicted, Done, Lost
  <1>5. ASSUME NEW j
        PROVE  Pool!Finish(j) <=>
          /\ Result = "open"
          /\ Verdicted' = Verdicted \ {j} /\ Done' = Done \cup {j}
          /\ Waiting' = Waiting /\ Open' = Open /\ Lost' = Lost
          /\ Result' = Result
    BY DEF Pool!Finish, Waiting, Open, Verdicted, Done, Lost
  <1>6. ASSUME NEW j
        PROVE  Pool!Lose(j) <=>
          /\ Result = "open" /\ j \in Job /\ InTheory(j)
          /\ Open' = Open \ {j} /\ Lost' = Lost \cup {j}
          /\ Waiting' = Waiting /\ Verdicted' = Verdicted /\ Done' = Done
          /\ Result' = Result
    BY DEF Pool!Lose, Waiting, Open, Verdicted, Done, Lost, InTheory
  <1>7. Pool!Complete <=>
          /\ Result = "open" /\ Waiting = {} /\ Open = {} /\ Verdicted = {}
          /\ Result' = "complete"
          /\ Waiting' = Waiting /\ Open' = Open /\ Verdicted' = Verdicted
          /\ Done' = Done /\ Lost' = Lost
    BY DEF Pool!Complete, Waiting, Open, Verdicted, Done, Lost
  <1>8. Pool!Stop <=>
          /\ Result = "open" /\ Verdicted # {} /\ Result' = "stopped"
          /\ Waiting' = Waiting /\ Open' = Open /\ Verdicted' = Verdicted
          /\ Done' = Done /\ Lost' = Lost
    BY DEF Pool!Stop, Waiting, Open, Verdicted, Done, Lost
  <1>9. Pool!Next <=> \/ \E j \in Waiting : Pool!Start(j)
                      \/ \E j \in Open : Pool!Judge(j) \/ Pool!Lose(j)
                      \/ \E j \in Verdicted : Pool!Finish(j)
                      \/ Pool!Complete \/ Pool!Stop
    BY DEF Pool!Next, Waiting, Open, Verdicted
  <1>10. QED BY <1>1, <1>2, <1>3, <1>4, <1>5, <1>6, <1>7, <1>8, <1>9

\* What a step leaves of the pool, part by part.
LEMMA PoolStays ==
    /\ (\A j \in Job : wk'[j].proc = "none" <=> wk[j].proc = "none")
          => Waiting' = Waiting
    /\ Judged' = Judged /\ UNCHANGED subs
          => Open' = Open /\ Verdicted' = Verdicted
    /\ Judged' = Judged /\ (\A j \in Job : Reaped(j)' <=> Reaped(j))
          => Done' = Done /\ Lost' = Lost
    /\ rpc \notin Over /\ rpc' \notin Over => Result = "open" /\ Result' = Result
    /\ UNCHANGED rpc => Result' = Result
    /\ UNCHANGED ctx => Judged' = Judged
  <1>1. ToRun' = ToRun /\ ToRun \subseteq Job BY DEF ToRun, Test
  <1>2. (\A j \in Job : wk'[j].proc = "none" <=> wk[j].proc = "none")
           => Waiting' = Waiting
    BY <1>1 DEF Waiting
  <1>3. Judged' = Judged /\ UNCHANGED subs
           => Open' = Open /\ Verdicted' = Verdicted
    BY DEF Open, Verdicted
  <1>4. Judged' = Judged /\ (\A j \in Job : Reaped(j)' <=> Reaped(j))
           => Done' = Done /\ Lost' = Lost
    <2>1. Judged \subseteq Job BY DEF Judged
    <2>2. QED BY <2>1 DEF Done, Lost
  <1>5. rpc \notin Over /\ rpc' \notin Over => Result = "open" /\ Result' = Result
    BY DEF Over, Result
  <1>6. UNCHANGED rpc => Result' = Result BY DEF Result
  <1>7. UNCHANGED ctx => Judged' = Judged BY DEF Judged, VerdictCount
  <1>8. QED BY <1>2, <1>3, <1>4, <1>5, <1>6, <1>7

\* A step that starts, judges and removes nobody.
LEMMA PoolStutter ==
    ASSUME \A j \in Job : /\ wk'[j].proc = "none" <=> wk[j].proc = "none"
                          /\ Reaped(j)' <=> Reaped(j),
           UNCHANGED subs, Judged' = Judged, Result' = Result
    PROVE  UNCHANGED Pool!pool
  <1>1. Waiting' = Waiting /\ Open' = Open /\ Verdicted' = Verdicted
        /\ Done' = Done /\ Lost' = Lost
    BY PoolStays
  <1>2. QED
    BY <1>1 DEF Pool!pool, Waiting, Open, Verdicted, Done, Lost

LEMMA JudgedMeans ==
    ASSUME IInv, NEW j \in Job
    PROVE  j \in Judged <=> VerdictsAt(ctx[j].ev) # {}
  <1>1. ctx[j].ev \in Seq(EventKind) BY DEF IInv, TypeOK, ClientCtx
  <1>2. IsFiniteSet(VerdictsAt(ctx[j].ev)) /\ Given(ctx[j].ev) \in Nat
    BY <1>1, GivenType
  <1>3. Given(ctx[j].ev) = 0 <=> VerdictsAt(ctx[j].ev) = {}
    BY <1>2, FS_EmptySet DEF Given
  <1>4. QED BY <1>2, <1>3 DEF Judged, VerdictCount

\* The coroutine starts a job.
LEMMA SpawnStarts ==
    ASSUME PoolInv, SpawnNext
    PROVE  \E j \in Waiting : Pool!Start(j)
  <1>0. IInv /\ Slots /\ Walked /\ Books BY DEF PoolInv
  <1>1. PICK j \in Job :
              /\ j = <<pos.suite, pos.test, pos.param + 1>>
              /\ wk[j] = Unborn /\ Ahead(j) /\ ~Test(j).disabled
              /\ subs' = subs \cup {j}
              /\ ctx' = [ctx EXCEPT ![j] = FreshCtx] /\ ctx'[j] = FreshCtx
              /\ wk'[j] = [Unborn EXCEPT !.proc = "running"]
              /\ \A k \in Job \ {j} : wk'[k] = wk[k] /\ ctx'[k] = ctx[k]
    BY <1>0, Spawning
  <1>2. wk[j].proc = "none" /\ wk'[j].proc = "running" BY <1>1 DEF Unborn
  <1>3. ctx' = ctx
    <2>1. ctx[j] = FreshCtx BY <1>0, <1>2 DEF Books, Unseen
    <2>2. ctx \in [Job -> ClientCtx] BY <1>0 DEF IInv, TypeOK
    <2>3. QED BY <1>1, <2>1, <2>2
  <1>4. Judged' = Judged BY <1>3, PoolStays
  <1>5. j \notin Judged
    <2>1. ctx[j].ev = <<>> BY <1>1, <1>3 DEF FreshCtx
    <2>2. QED BY <2>1, GivenNothing DEF Judged, VerdictCount
  <1>6. j \notin subs /\ j \in Waiting
    BY <1>0, <1>1, <1>2 DEF Slots, Waiting, ToRun
  <1>7. Open' = Open \cup {j} /\ Verdicted' = Verdicted
    BY <1>1, <1>4, <1>5 DEF Open, Verdicted
  <1>8. Waiting' = Waiting \ {j}
    <2>1. ToRun' = ToRun /\ ToRun \subseteq Job BY DEF ToRun, Test
    <2>2. QED BY <1>1, <1>2, <2>1 DEF Waiting
  <1>9. Done' = Done /\ Lost' = Lost
    <2>1. \A k \in Job : Reaped(k)' <=> Reaped(k)
      BY <1>1, <1>2 DEF Reaped
    <2>2. QED BY <2>1, <1>4, PoolStays
  <1>10. Result = "open" /\ Result' = Result
    <2>1. rpc = "sched" /\ rpc' \in {"sched", "recv"}
      BY DEF SpawnNext, AtTest
    <2>2. QED BY <2>1 DEF Result
  <1>11. ASSUME NEW k \in Waiting PROVE <<k, j>> \notin Earlier
    <2>1. k \in Job /\ ~Test(k).disabled /\ wk[k].proc = "none"
      BY DEF Waiting, ToRun
    <2>2. Ahead(k) BY <1>0, <2>1 DEF Walked
    <2>3. /\ k[1] \in Nat /\ k[2] \in Nat /\ k[3] \in Nat
          /\ pos.suite \in Nat /\ pos.test \in Nat /\ pos.param \in Nat
      BY <1>0, <2>1, JobFacts DEF IInv, TypeOK
    <2>4. j[1] = pos.suite /\ j[2] = pos.test /\ j[3] = pos.param + 1
      BY <1>1
    <2>5. ~(\/ k[1] < j[1]
            \/ k[1] = j[1] /\ k[2] < j[2]
            \/ k[1] = j[1] /\ k[2] = j[2] /\ k[3] < j[3])
      BY <2>2, <2>3, <2>4 DEF Ahead
    <2>6. QED BY <2>5 DEF Earlier
  <1>12. Cardinality(Open \cup Verdicted) < NbWorkers
    <2>1. Open \cup Verdicted = subs BY DEF Open, Verdicted
    <2>2. Cardinality(subs) < NbWorkers
      <3>1. rpc = "sched" BY DEF SpawnNext, AtTest
      <3>2. Cardinality(subs) \in Nat /\ NbWorkers \in Nat /\ initial \in BOOLEAN
        BY <1>0, FS_CardinalityType, RunnerAssumption DEF Slots, IInv, TypeOK
      <3>3. QED BY <1>0, <3>1, <3>2 DEF Slots
    <2>3. QED BY <2>1, <2>2
  <1>13. QED
    BY <1>6, <1>7, <1>8, <1>9, <1>10, <1>11, <1>12, PoolIs

\* A message judges the test it is about, or nobody.
LEMMA ReceiveJudges ==
    ASSUME PoolInv, IInv', NEW c \in Socket, Receive(c)
    PROVE  UNCHANGED Pool!pool \/ \E j \in Open : Pool!Judge(j)
  <1>0. IInv /\ Slots /\ Story /\ Books BY DEF PoolInv
  <1>1. UNCHANGED <<wk, subs>> /\ rpc = "recv"
        /\ rpc' \in {"recv", "reap", "terminate"}
    BY <1>0, Received, Resumed
  <1>2. Result = "open" /\ Result' = Result BY <1>1 DEF Result
  <1>3. \A k \in Job : /\ wk'[k].proc = "none" <=> wk[k].proc = "none"
                       /\ Reaped(k)' <=> Reaped(k)
    BY <1>1 DEF Reaped
  <1>4. CASE Judged' = Judged BY <1>1, <1>2, <1>3, <1>4, PoolStutter
  <1>5. CASE UNCHANGED <<ctx, ss, g>> BY <1>4, <1>5, PoolStays
  <1>6. ASSUME NEW j \in Job, NEW v \in View,
               j = Client(c), j \in subs, Reading(c), Handled(c, v),
               Balanced(viewOf(j), v), Judged' # Judged
        PROVE  \E k \in Open : Pool!Judge(k)
    <2>1. ctx'[j].ev = v.ev /\ \A k \in Job \ {j} : ctx'[k] = ctx[k]
      BY <1>0, <1>6, HandledFacts
    <2>2. viewOf(j).ev = ctx[j].ev BY DEF viewOf
    <2>3. VerdictsAt(ctx[j].ev) \subseteq VerdictsAt(ctx'[j].ev)
      BY <1>6, <2>1, <2>2 DEF Balanced
    <2>4. \A k \in Job : k \in Judged <=> VerdictsAt(ctx[k].ev) # {}
      BY <1>0, JudgedMeans
    <2>5. ASSUME NEW k \in Job
          PROVE  k \in Judged' <=> VerdictsAt(ctx'[k].ev) # {}
      <3>1. ctx'[k].ev \in Seq(EventKind) BY DEF IInv, TypeOK, ClientCtx
      <3>2. IsFiniteSet(VerdictsAt(ctx'[k].ev)) /\ Given(ctx'[k].ev) \in Nat
        BY <3>1, GivenType
      <3>3. Given(ctx'[k].ev) = 0 <=> VerdictsAt(ctx'[k].ev) = {}
        BY <3>2, FS_EmptySet DEF Given
      <3>4. QED BY <3>2, <3>3 DEF Judged, VerdictCount
    <2>6. Judged \subseteq Job /\ Judged' \subseteq Job BY DEF Judged
    <2>7. \A k \in Job \ {j} : k \in Judged' <=> k \in Judged
      BY <2>1, <2>4, <2>5
    <2>8. j \in Judged => j \in Judged' BY <2>3, <2>4, <2>5
    <2>9. j \notin Judged /\ Judged' = Judged \cup {j}
      BY <1>6, <2>6, <2>7, <2>8
    <2>10. j \in Open /\ Open' = Open \ {j} /\ Verdicted' = Verdicted \cup {j}
      BY <1>1, <1>6, <2>9 DEF Open, Verdicted
    <2>11. Done' = Done /\ Lost' = Lost
      <3>1. ~Reaped(j) BY <1>6 DEF Reaped
      <3>2. QED BY <1>3, <2>6, <2>9, <3>1 DEF Done, Lost
    <2>12. Waiting' = Waiting BY <1>3, PoolStays
    <2>13. Pool!Judge(j) BY <1>2, <2>10, <2>11, <2>12, PoolIs
    <2>14. QED BY <2>10, <2>13
  <1>7. QED BY <1>0, <1>4, <1>5, <1>6, ReceiveBalanced

\* remove_client_by_pid removes a job that was judged, or lost in a theory.
LEMMA ReapRemoves ==
    ASSUME PoolInv, Reap
    PROVE  \/ \E j \in Verdicted : Pool!Finish(j)
           \/ \E j \in Open : Pool!Lose(j)
  <1>0. IInv /\ Slots /\ Story /\ Shown BY DEF PoolInv
  <1>1. /\ rpc = "reap" /\ wk[cur].proc = "waited" /\ subs' = subs \ {cur}
        /\ rpc' = "sched" /\ UNCHANGED <<wk, ctx>>
    BY DEF Reap, workerVars
  <1>2. cur \in subs /\ cur \in Job
    BY <1>0, <1>1 DEF Slots, IInv, TypeOK
  <1>3. Result = "open" /\ Result' = Result BY <1>1 DEF Result
  <1>4. Judged' = Judged /\ Waiting' = Waiting
    BY <1>1, PoolStays
  <1>5. \A k \in Job : Reaped(k)' <=> Reaped(k) \/ k = cur
    BY <1>1, <1>2 DEF Reaped
  <1>6. Judged \subseteq Job BY DEF Judged
  <1>7. CASE cur \in Judged
    <2>1. cur \in Verdicted /\ Verdicted' = Verdicted \ {cur} /\ Open' = Open
      BY <1>1, <1>2, <1>4, <1>7 DEF Verdicted, Open
    <2>2. Done' = Done \cup {cur} /\ Lost' = Lost
      BY <1>2, <1>4, <1>5, <1>6, <1>7 DEF Done, Lost
    <2>3. Pool!Finish(cur) BY <1>3, <1>4, <2>1, <2>2, PoolIs
    <2>4. QED BY <2>1, <2>3
  <1>8. CASE cur \notin Judged
    <2>1. cur \in Open /\ Open' = Open \ {cur} /\ Verdicted' = Verdicted
      BY <1>1, <1>2, <1>4, <1>8 DEF Verdicted, Open
    <2>2. Done' = Done /\ Lost' = Lost \cup {cur}
      BY <1>2, <1>4, <1>5, <1>6, <1>8 DEF Done, Lost
    <2>3. InTheory(cur)
      <3>1. ~(VerdictCount(cur) > 0) BY <1>2, <1>8 DEF Judged
      <3>2. Finished(cur) BY <1>1 DEF Finished
      <3>3. EndedInTheory(cur)
        BY <1>0, <1>2, <3>1, <3>2 DEF Story, Tale, History
      <3>4. nested(ctx[cur].state) BY <3>3 DEF EndedInTheory
      <3>5. QED BY <1>0, <1>2, <3>4 DEF Shown, Evidence
    <2>4. Pool!Lose(cur) BY <1>2, <1>3, <1>4, <2>1, <2>2, <2>3, PoolIs
    <2>5. QED BY <2>1, <2>4
  <1>9. QED BY <1>7, <1>8

\* The run is given up only by a test that has its verdict.
LEMMA StopStops ==
    ASSUME PoolInv, Terminate \/ CallbackAborts
    PROVE  Pool!Stop
  <1>0. IInv /\ Slots /\ Spared /\ Story /\ Books BY DEF PoolInv
  <1>1. /\ UNCHANGED <<wk, ctx, subs>> /\ rpc \notin Over
        /\ rpc' \in {"terminated", "aborted"}
    BY DEF Terminate, CallbackAborts, workerVars, serverVars, Over
  <1>2. Result = "open" /\ Result' = "stopped" BY <1>1 DEF Result, Over
  <1>3. Judged' = Judged /\ \A k \in Job : Reaped(k)' <=> Reaped(k)
    BY <1>1, PoolStays DEF Reaped
  <1>4. /\ Waiting' = Waiting /\ Open' = Open /\ Verdicted' = Verdicted
        /\ Done' = Done /\ Lost' = Lost
    BY <1>1, <1>3, PoolStays
  <1>5. Verdicted # {}
    <2>1. CASE Terminate
      <3>1. rpc = "terminate" BY <2>1 DEF Terminate
      <3>2. cur \in subs /\ cur \in Job
        BY <1>0, <3>1 DEF Slots, IInv, TypeOK
      <3>3. ctx[cur].t.test_status = FAILED BY <1>0, <3>1 DEF Spared
      <3>4. VerdictCount(cur) > 0
        BY <1>0, <3>2, <3>3
        DEF Books, Blame, VerdictCount, FAILED, PASSED
      <3>5. QED BY <3>2, <3>4 DEF Verdicted, Judged
    <2>2. CASE CallbackAborts
      <3>1. chan[Own].kind = "nack" BY <2>2 DEF CallbackAborts
      <3>2. cb.pc \in {"idle", "timeout", "death"}
        BY <1>0 DEF IInv, TypeOK, WorkerTypeOK
      <3>3. cb.pc = "timeout" /\ ctx[cb.job].state = CS_END /\ cb.job \in subs
        BY <1>0, <3>1, <3>2 DEF IInv, CallbackOK, Idle, M
      <3>4. cb.job \in Job BY <1>0, <3>3 DEF IInv, TypeOK
      <3>5. ~Finished(cb.job)
        BY <1>0, <3>3 DEF Finished, IInv, CallbackOK
      <3>6. Fits(3, ctx[cb.job].ev)
        BY <1>0, <3>3, <3>4, <3>5 DEF Story, Tale, History, CS_END
      <3>7. VerdictCount(cb.job) > 0 BY <3>6 DEF Fits, VerdictCount
      <3>8. QED BY <3>3, <3>4, <3>7 DEF Verdicted, Judged
    <2>3. QED BY <2>1, <2>2
  <1>6. QED BY <1>2, <1>4, <1>5, PoolIs

LEMMA CleanupCompletes ==
    ASSUME PoolInv, Cleanup
    PROVE  Pool!Complete
  <1>0. IInv /\ Slots /\ Walked BY DEF PoolInv
  <1>1. subs = {} /\ subs' = {} BY <1>0, CleanupEmpty
  <1>2. UNCHANGED <<wk, ctx>> /\ rpc = "cleanup" /\ rpc' = "done"
    BY DEF Cleanup, workerVars
  <1>3. Result = "open" /\ Result' = "complete" BY <1>2 DEF Result
  <1>4. Judged' = Judged /\ \A k \in Job : Reaped(k)' <=> Reaped(k)
    BY <1>1, <1>2, PoolStays DEF Reaped
  <1>5. /\ Waiting' = Waiting /\ Open' = Open /\ Verdicted' = Verdicted
        /\ Done' = Done /\ Lost' = Lost
    BY <1>1, <1>2, <1>4, PoolStays
  <1>6. Open = {} /\ Verdicted = {} BY <1>1 DEF Open, Verdicted
  <1>7. Waiting = {}
    <2>1. ASSUME NEW j \in ToRun PROVE wk[j].proc # "none"
      <3>1. j \in Job /\ ~Test(j).disabled BY DEF ToRun
      <3>2. j[1] \in Nat /\ j[1] <= Len(Suites) /\ Len(Suites) \in Nat
        BY <3>1, JobFacts, SuitesAssumption
      <3>3. pos.suite > Len(Suites) /\ pos.suite \in Nat
        BY <1>0, <1>2 DEF Walked, IInv, TypeOK
      <3>4. ~Ahead(j) BY <3>2, <3>3 DEF Ahead
      <3>5. QED BY <1>0, <3>1, <3>4 DEF Walked
    <2>2. QED BY <2>1 DEF Waiting
  <1>8. QED BY <1>3, <1>5, <1>6, <1>7, PoolIs

\* Every step of the run is a step of the pool, or none.
LEMMA PoolStep ==
    ASSUME PoolInv, IInv', [Next]_vars
    PROVE  Pool!Next \/ UNCHANGED Pool!pool
  <1>0. IInv /\ Slots BY DEF PoolInv
  <1>1. CASE Others
    <2>1. UNCHANGED <<subs, ctx, rpc>> BY <1>1 DEF Others, serverVars, loopVars
    <2>2. ASSUME NEW k \in Job
          PROVE  /\ wk'[k].proc = "none" <=> wk[k].proc = "none"
                 /\ Reaped(k)' <=> Reaped(k)
      <3>1. wk'[k].proc = "none" <=> wk[k].proc = "none"
        BY <1>0, <1>1, OthersKeep
      <3>2. ~Reap
        <4>1. rpc' = rpc BY <2>1
        <4>2. QED BY <4>1 DEF Reap
      <3>3. QED BY <1>0, <3>1, <3>2, ReapedKept
    <2>3. QED BY <2>1, <2>2, PoolStays, PoolStutter
  <1>2. CASE SpawnNext BY <1>2, SpawnStarts, PoolIs
  <1>3. CASE Schedule /\ ~SpawnNext
    <2>1. UNCHANGED <<wk, subs, ctx>> BY <1>3, Turning
    <2>2. rpc = "sched" /\ rpc' \in {"sched", "recv", "cleanup"}
      BY <1>3, Turning DEF NoNext
    <2>3. Result' = Result BY <2>2 DEF Result
    <2>4. \A k \in Job : /\ wk'[k].proc = "none" <=> wk[k].proc = "none"
                         /\ Reaped(k)' <=> Reaped(k)
      BY <2>1 DEF Reaped
    <2>5. QED BY <2>1, <2>3, <2>4, PoolStays, PoolStutter
  <1>4. CASE \E c \in Socket : Receive(c)
    BY <1>4, ReceiveJudges, PoolIs
  <1>5. CASE Reap BY <1>5, ReapRemoves, PoolIs
  <1>6. CASE Terminate \/ CallbackAborts BY <1>6, StopStops, PoolIs
  <1>7. CASE Cleanup BY <1>7, CleanupCompletes, PoolIs
  <1>8. CASE UNCHANGED vars
    <2>1. UNCHANGED <<wk, subs, ctx, rpc>> BY <1>8 DEF vars
    <2>2. \A k \in Job : /\ wk'[k].proc = "none" <=> wk[k].proc = "none"
                         /\ Reaped(k)' <=> Reaped(k)
      BY <2>1 DEF Reaped
    <2>3. QED BY <2>1, <2>2, PoolStays, PoolStutter
  <1>9. QED
    BY <1>1, <1>2, <1>3, <1>4, <1>5, <1>6, <1>7, <1>8
    DEF Next, RunnerStep, Ended

LEMMA PoolBegins ==
    ASSUME Init
    PROVE  Pool!Init
  <1>1. /\ subs = {} /\ ctx = [j \in Job |-> FreshCtx] /\ rpc = "sched"
        /\ \A j \in Job : wk[j].proc = "none"
    BY DEF Init, WorkerInit, Unborn
  <1>2. Judged = {}
    <2>1. \A j \in Job : ctx[j].ev = <<>> BY <1>1 DEF FreshCtx
    <2>2. QED BY <2>1, GivenNothing DEF Judged, VerdictCount
  <1>3. Waiting = ToRun BY <1>1 DEF Waiting, ToRun
  <1>4. Open = {} /\ Verdicted = {} /\ Done = {} /\ Lost = {}
    BY <1>1, <1>2 DEF Open, Verdicted, Done, Lost, Reaped
  <1>5. Result = "open" BY <1>1 DEF Result
  <1>6. QED BY <1>3, <1>4, <1>5, PoolIs

(* Whatever the suites, the number of workers, and the ends of the tests:  *)
(* the runner, its messages, its processes and its sockets implement the   *)
(* pool of jobs.  The jobs are taken in order, never more than NbWorkers   *)
(* at a time, each is judged before it is removed - but for what ends      *)
(* inside of a theory -, and only a verdict can stop the run.              *)
THEOREM RunIsAPool == Spec => ImplementsPool
  <1>1. Init => Pool!Init BY PoolBegins
  <1>2. PoolInv /\ IInv' /\ [Next]_vars => [Pool!Next]_(Pool!pool)
    BY PoolStep
  <1>3. Spec => []PoolInv
    <2>1. IInv /\ Slots /\ Walked /\ Spared /\ Story /\ Shown /\ Books => PoolInv
      BY DEF PoolInv
    <2>2. QED
      BY <2>1, Invariance, SlotsAlways, WalkedAlways, SparedAlways, StoryAlways,
         ShownAlways, BooksAlways, PTL
  <1>4. QED
    BY <1>1, <1>2, <1>3, Invariance, PTL DEF Spec, ImplementsPool, Pool!Spec
=============================================================================
