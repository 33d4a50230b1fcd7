------------------------------ MODULE Messages ------------------------------
(***************************************************************************)
(* One request and its answer: cr_send_to_runner and send_ack of           *)
(* src/protocol/messages.c, src/mutex.c, and the dispatch of a message by  *)
(* process_client_message of src/core/client.c.                            *)
(*                                                                         *)
(* The threads of a process share one REQ socket, one static mutex (sync)  *)
(* and the lock that guards its initialisation (once); the runner answers  *)
(* the requests of all the processes on one REP socket.  What the sockets  *)
(* do is nanomsg's: an answer goes to the request it was received for, a   *)
(* socket forgets a request when it sends the next one, and a request that *)
(* is not answered for a minute is sent again.                             *)
(***************************************************************************)
EXTENDS Naturals, Sequences, FiniteSets, Client

CONSTANTS
    Process,        \* the processes that send messages
    Thread,         \* their threads
    None,           \* no thread, no request
    proc,           \* the process of each thread
    Calls,          \* what each thread sends: records [kind, arg, after]
    Worker,         \* the processes the runner has started
    Extern,         \* the processes that give a name (is_extern_worker)
    Version,        \* the version of the protocol each process speaks
    MaxResends      \* how many requests are sent again, over a behaviour

PROTOCOL_V1 == 1

Kinds == {"BIRTH", "PHASE", "ASSERT"}
\* A call waits for others: the threads its thread has started or joins.
CallRec == [kind : Kinds, arg : Phases, after : SUBSET (Thread \X Nat)]
Message == Thread \X Nat
Threads(p) == {t \in Thread : proc[t] = p}

ASSUME ThreadsAssumption ==
    /\ IsFiniteSet(Thread)
    /\ None \notin Thread /\ None \notin Process /\ None \notin Message
    /\ proc \in [Thread -> Process]
    /\ Calls \in [Thread -> Seq(CallRec)]
ASSUME ProcessesAssumption ==
    /\ Worker \subseteq Process /\ Extern \subseteq Process \ Worker
    /\ Version \in [Process -> Nat]
    /\ MaxResends \in Nat

Counter == {"idle", "test", "init", "opened", "lock", "write", "read",
            "unlock", "check", "dead"}
Reply  == [to : Message \cup {None}, ok : BOOLEAN]
NoReply == [to |-> None, ok |-> FALSE]

VARIABLES
    pc,         \* where each thread stands in cr_send_to_runner
    calls,      \* how many calls of it have returned
    ack,        \* the answer it read
    once,       \* mutex.c: the holder of the static lock, per process
    init,       \* whether sync is initialised
    sync,       \* the holder of sync
    request,    \* the request of each socket that waits for its answer
    reply,      \* that answer, once it is there
    inbox,      \* the requests on their way to the runner
    runner,     \* "up", or "aborted" by a second answer
    clients,    \* the external clients that have a context
    children,   \* the workers that have one
    ctx,        \* the contexts: state and assertions counted
    resent      \* the messages sent again

threadVars == <<pc, calls, ack>>
mutexVars  == <<once, init, sync>>
socketVars == <<request, reply, inbox>>
serverVars == <<runner, clients, children, ctx>>
vars == <<threadVars, mutexVars, socketVars, serverVars, resent>>

Context == [state : Nat, asserts : Nat]

Init ==
    /\ pc = [t \in Thread |-> "idle"]
    /\ calls = [t \in Thread |-> 0]
    /\ ack = [t \in Thread |-> NoReply]
    /\ once = [p \in Process |-> None]
    /\ init = [p \in Process |-> FALSE]
    /\ sync = [p \in Process |-> None]
    /\ request = [p \in Process |-> None]
    /\ reply = [p \in Process |-> NoReply]
    /\ inbox = <<>>
    /\ runner = "up" /\ clients = {} /\ children = Worker
    /\ ctx = [p \in Process |-> [state |-> 0, asserts |-> 0]]
    /\ resent = {}

----------------------------------------------------------------------------
(* cr_send_to_runner.                                                      *)

\* The message a thread is sending, or sends next.
mine(t) == <<t, calls[t] + 1>>

Goes(t, from, to) == pc[t] = from /\ pc' = [pc EXCEPT ![t] = to]

\* The thread has a call to make, and the threads it waits for have made theirs.
Calling(t) ==
    /\ calls[t] < Len(Calls[t])
    /\ \A c \in Calls[t][calls[t] + 1].after : calls[c[1]] >= c[2]

\* A slip: the flag of the mutex read without the static lock.
LockOnce_Free(t) ==
    /\ Calling(t) /\ Goes(t, "idle", "test")
    /\ UNCHANGED <<calls, ack, mutexVars, socketVars, serverVars, resent>>

\* cri_mutex_init_once: the lock, the flag, the initialisation.
LockOnce(t) ==
    /\ Calling(t) /\ Goes(t, "idle", "test")
    /\ once[proc[t]] = None
    /\ once' = [once EXCEPT ![proc[t]] = t]
    /\ UNCHANGED <<calls, ack, init, sync, socketVars, serverVars, resent>>

TestInit(t) ==
    /\ Goes(t, "test", IF init[proc[t]] THEN "opened" ELSE "init")
    /\ UNCHANGED <<calls, ack, mutexVars, socketVars, serverVars, resent>>

cri_mutex_init(t) ==
    /\ Goes(t, "init", "opened")
    /\ init' = [init EXCEPT ![proc[t]] = TRUE]
    /\ sync' = [sync EXCEPT ![proc[t]] = None]
    /\ UNCHANGED <<calls, ack, once, socketVars, serverVars, resent>>

UnlockOnce(t) ==
    /\ Goes(t, "opened", "lock")
    /\ once' = [once EXCEPT ![proc[t]] = None]
    /\ UNCHANGED <<calls, ack, init, sync, socketVars, serverVars, resent>>

cri_mutex_lock(t) ==
    /\ sync[proc[t]] = None
    /\ Goes(t, "lock", "write")
    /\ sync' = [sync EXCEPT ![proc[t]] = t]
    /\ UNCHANGED <<calls, ack, once, init, socketVars, serverVars, resent>>

\* nn_send: the socket forgets the request before this one.
write_message(t) ==
    /\ Goes(t, "write", "read")
    /\ request' = [request EXCEPT ![proc[t]] = mine(t)]
    /\ reply' = [reply EXCEPT ![proc[t]] = NoReply]
    /\ inbox' = Append(inbox, mine(t))
    /\ UNCHANGED <<calls, ack, mutexVars, serverVars, resent>>

\* nn_recv: the answer to the request of the socket, or an error when it has
\* none (another thread has taken it).
read_ack(t) ==
    /\ reply[proc[t]] # NoReply \/ request[proc[t]] = None
    /\ Goes(t, "read", "unlock")
    /\ ack' = [ack EXCEPT ![t] = reply[proc[t]]]
    /\ reply' = [reply EXCEPT ![proc[t]] = NoReply]
    /\ request' = [request EXCEPT ![proc[t]] = None]
    /\ UNCHANGED <<calls, inbox, mutexVars, serverVars, resent>>

cri_mutex_unlock(t) ==
    /\ Goes(t, "unlock", "check")
    /\ sync' = [sync EXCEPT ![proc[t]] = None]
    /\ UNCHANGED <<calls, ack, once, init, socketVars, serverVars, resent>>

Return(t) ==
    /\ ack[t].ok
    /\ Goes(t, "check", "idle")
    /\ calls' = [calls EXCEPT ![t] = @ + 1]
    /\ ack' = [ack EXCEPT ![t] = NoReply]
    /\ UNCHANGED <<mutexVars, socketVars, serverVars, resent>>

\* abort: the process ends, its locks and its socket with it.
Abort(t) ==
    LET p == proc[t]
    IN  /\ pc[t] = "check" /\ ~ack[t].ok
        /\ pc' = [u \in Thread |-> IF proc[u] = p THEN "dead" ELSE pc[u]]
        /\ request' = [request EXCEPT ![p] = None]
        /\ reply' = [reply EXCEPT ![p] = NoReply]
        /\ UNCHANGED <<calls, ack, inbox, mutexVars, serverVars, resent>>

----------------------------------------------------------------------------
(* nanomsg sends a request again when its answer takes too long.           *)

Resend(p) ==
    /\ request[p] # None /\ reply[p] = NoReply
    /\ request[p] \notin resent /\ Cardinality(resent) < MaxResends
    /\ resent' = resent \cup {request[p]}
    /\ inbox' = Append(inbox, request[p])
    /\ UNCHANGED <<threadVars, mutexVars, request, reply, serverVars>>

----------------------------------------------------------------------------
(* The runner: one message, its handler, its answer.                       *)

call(m) == Calls[m[1]][m[2]]
sender(m) == proc[m[1]]

(* The context a message finds: of its PID, or of its name.  The table of  *)
(* the external clients keeps the name of the message that made each entry *)
(* as the key, and that name is freed with the message: what a look-up     *)
(* compares afterwards is undefined, so it may find any entry, or none.    *)
Found(m) ==
    IF sender(m) \in Extern
    THEN IF clients = {} THEN {None} ELSE clients \cup {None}
    ELSE {IF sender(m) \in children THEN sender(m) ELSE None}

\* add_external_client, for a BIRTH that finds no context.
Adds(m, c) == c = None /\ sender(m) \in Extern /\ call(m).kind = "BIRTH"

Rejected(m, c) ==
    \/ Version[sender(m)] # PROTOCOL_V1
    \/ c = None /\ ~Adds(m, c)

\* The handler refuses, and has then answered itself.
Refused(m, c) ==
    call(m).kind = "PHASE" /\ phase_refused(ctx[c].state, call(m).arg)

\* A slip: the assertions of fixtures not counted.
Handler_MainOnly(m, x) ==
    CASE call(m).kind = "PHASE"  -> [x EXCEPT !.state = next_state(@, call(m).arg)]
      [] call(m).kind = "ASSERT" /\ curstate(x.state) = CS_MAIN ->
            [x EXCEPT !.asserts = @ + 1]
      [] OTHER -> x

\* What the handlers leave in the context of the client.
Handler(m, x) ==
    CASE call(m).kind = "PHASE"  -> [x EXCEPT !.state = next_state(@, call(m).arg)]
      [] call(m).kind = "ASSERT" -> [x EXCEPT !.asserts = @ + 1]
      [] OTHER -> x

\* A slip: an answer after the handler, whatever it has answered.
Answers_Always(m, c) ==
    IF Rejected(m, c) THEN <<FALSE>>
    ELSE IF ~Adds(m, c) /\ Refused(m, c) THEN <<FALSE, TRUE>> ELSE <<TRUE>>

\* process_client_message_impl and handler_error: what is sent back.
Answers(m, c) ==
    IF Rejected(m, c) \/ (~Adds(m, c) /\ Refused(m, c)) THEN <<FALSE>> ELSE <<TRUE>>

\* send_ack: the answer reaches the socket that still waits for it. A second
\* one has no request to go to, and aborts the runner.
send_ack(m, answers) ==
    LET p == sender(m)
    IN  /\ reply' = IF request[p] = m /\ reply[p] = NoReply
                    THEN [reply EXCEPT ![p] = [to |-> m, ok |-> answers[1]]] ELSE reply
        /\ runner' = IF Len(answers) > 1 THEN "aborted" ELSE runner
        /\ UNCHANGED request

process_client_message(m, c) ==
    LET p == IF Adds(m, c) THEN sender(m) ELSE c
    IN  /\ clients' = IF ~Rejected(m, c) /\ Adds(m, c) THEN clients \cup {p} ELSE clients
        /\ ctx' = IF Answers(m, c)[1] THEN [ctx EXCEPT ![p] = Handler(m, @)] ELSE ctx
        /\ send_ack(m, Answers(m, c))
        /\ UNCHANGED children

\* run_tests_async: read_message, and what follows.
Serve ==
    /\ runner = "up" /\ inbox # <<>>
    /\ inbox' = Tail(inbox)
    /\ \E c \in Found(Head(inbox)) : process_client_message(Head(inbox), c)
    /\ UNCHANGED <<threadVars, mutexVars, resent>>

\* remove_client_by_pid, for a worker that has ended; what is still on its
\* way finds no context.
Over(p) == \A t \in Threads(p) : \/ pc[t] = "dead"
                                 \/ pc[t] = "idle" /\ calls[t] = Len(Calls[t])
Reap(p) ==
    /\ runner = "up" /\ p \in children /\ Over(p)
    /\ children' = children \ {p}
    /\ UNCHANGED <<threadVars, mutexVars, socketVars, runner, clients, ctx, resent>>

----------------------------------------------------------------------------
Step(t) ==
    \/ LockOnce(t) \/ TestInit(t) \/ cri_mutex_init(t)
    \/ UnlockOnce(t) \/ cri_mutex_lock(t) \/ write_message(t) \/ read_ack(t)
    \/ cri_mutex_unlock(t) \/ Return(t) \/ Abort(t)

Next == \/ \E t \in Thread : Step(t)
        \/ Serve
        \/ \E p \in Process : Resend(p) \/ Reap(p)

\* The threads run and the runner reads its messages; nothing is ever owed a
\* second sending.
Spec == Init /\ [][Next]_vars
FairSpec == Spec /\ WF_vars(Serve) /\ \A t \in Thread : WF_vars(Step(t))
=============================================================================
