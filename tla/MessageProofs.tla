--------------------------- MODULE MessageProofs ---------------------------
(***************************************************************************)
(* For any processes, threads and calls, however often a request is sent   *)
(* again and whatever the look-ups of external clients find, a thread      *)
(* reads the answer to its own message, and the context of a worker counts *)
(* the assertions its threads were told were received, and no others.      *)
(***************************************************************************)
EXTENDS MessageProperties, FiniteSetTheorems, TLAPS

TypeOK ==
    /\ pc \in [Thread -> Counter]
    /\ calls \in [Thread -> Nat]
    /\ ack \in [Thread -> Reply]
    /\ once \in [Process -> Thread \cup {None}]
    /\ init \in [Process -> BOOLEAN]
    /\ sync \in [Process -> Thread \cup {None}]
    /\ request \in [Process -> Message \cup {None}]
    /\ reply \in [Process -> Reply]
    /\ inbox \in Seq(Message)

\* Who is where: inside of the static lock, past it, inside of sync.
Initialising == {"test", "init", "opened"}
Past         == {"opened", "lock", "write", "read", "unlock"}
Inside       == {"write", "read", "unlock"}

\* Where a thread stands says which locks it holds, and whether the mutex is
\* initialised; the mutex is never initialised again once a thread is past.
HoldsOnce   == \A t \in Thread : pc[t] \in Initialising => once[proc[t]] = t
NotYet      == \A t \in Thread : pc[t] = "init" => ~init[proc[t]]
Initialised == \A t \in Thread : pc[t] \in Past => init[proc[t]]
HoldsSync   == \A t \in Thread : pc[t] \in Inside => sync[proc[t]] = t

\* The request of a socket is of the thread that waits, and so is its answer.
Waits   == \A t \in Thread : pc[t] = "read" => request[proc[t]] = mine(t)
Matches == \A p \in Process : reply[p] # NoReply => reply[p].to = request[p]

Invariant == /\ TypeOK /\ HoldsOnce /\ NotYet /\ Initialised /\ HoldsSync
             /\ Waits /\ Matches /\ AckIsMine

USE DEF Inside, Past, Initialising

----------------------------------------------------------------------------
(* Facts of the constants, in the form the steps use them.                 *)

(* Every thread has a process, and no message is "no message" (messages.c). *)
LEMMA Constants ==
    /\ \A t \in Thread : proc[t] \in Process
    /\ None \notin Thread /\ None \notin Message
BY ThreadsAssumption

(* What a thread sends is a message (cr_send_to_runner).                   *)
LEMMA MineIsAMessage ==
    ASSUME calls \in [Thread -> Nat], NEW t \in Thread
    PROVE  mine(t) \in Message
BY DEF mine, Message

(* Nothing is held and nothing is sent at first.                           *)
LEMMA Initially == Init => Invariant
<1> SUFFICES ASSUME Init PROVE Invariant
    OBVIOUS
<1>1. TypeOK
    BY Constants DEF Init, TypeOK, Counter, Reply, NoReply
<1>2. /\ HoldsOnce /\ NotYet /\ Initialised /\ HoldsSync
      /\ Waits /\ Matches /\ AckIsMine
    BY Constants DEF Init, HoldsOnce, NotYet, Initialised, HoldsSync, Waits,
        Matches, AckIsMine, NoReply
<1> QED BY <1>1, <1>2 DEF Invariant

----------------------------------------------------------------------------
(* The steps of cr_send_to_runner.                                         *)

(* once is free when a thread takes it, so that nobody else initialises (mutex.c).*)
LEMMA LockOnceStep ==
    ASSUME Invariant, NEW t \in Thread, LockOnce(t)
    PROVE  Invariant'
<1> USE DEF Invariant, LockOnce, Goes
<1>1. TypeOK'
    BY Constants, MineIsAMessage DEF TypeOK, Counter, Reply, NoReply,
        mutexVars, socketVars, serverVars
<1>2. HoldsOnce' /\ NotYet' /\ Initialised' /\ HoldsSync'
    BY Constants DEF TypeOK, HoldsOnce, NotYet, Initialised, HoldsSync,
        mutexVars
<1>3. Waits' /\ Matches' /\ AckIsMine'
    BY Constants, MineIsAMessage DEF TypeOK, HoldsSync, Waits, Matches,
        AckIsMine, mine, NoReply, mutexVars, socketVars
<1> QED BY <1>1, <1>2, <1>3

(* The flag is read under once.                                            *)
LEMMA TestInitStep ==
    ASSUME Invariant, NEW t \in Thread, TestInit(t)
    PROVE  Invariant'
<1> USE DEF Invariant, TestInit, Goes
<1>1. TypeOK'
    BY Constants, MineIsAMessage DEF TypeOK, Counter, Reply, NoReply,
        mutexVars, socketVars, serverVars
<1>2. HoldsOnce' /\ NotYet' /\ Initialised' /\ HoldsSync'
    BY Constants DEF TypeOK, HoldsOnce, NotYet, Initialised, HoldsSync,
        mutexVars
<1>3. Waits' /\ Matches' /\ AckIsMine'
    BY Constants, MineIsAMessage DEF TypeOK, HoldsSync, Waits, Matches,
        AckIsMine, mine, NoReply, mutexVars, socketVars
<1> QED BY <1>1, <1>2, <1>3

(* Whoever initialises is the first: nobody is past the lock yet.          *)
LEMMA cri_mutex_initStep ==
    ASSUME Invariant, NEW t \in Thread, cri_mutex_init(t)
    PROVE  Invariant'
<1> USE DEF Invariant, cri_mutex_init, Goes
<1>1. TypeOK'
    BY Constants, MineIsAMessage DEF TypeOK, Counter, Reply, NoReply,
        mutexVars, socketVars, serverVars
<1>2. HoldsOnce' /\ NotYet' /\ Initialised' /\ HoldsSync'
    BY Constants DEF TypeOK, HoldsOnce, NotYet, Initialised, HoldsSync,
        mutexVars
<1>3. Waits' /\ Matches' /\ AckIsMine'
    BY Constants, MineIsAMessage DEF TypeOK, HoldsSync, Waits, Matches,
        AckIsMine, mine, NoReply, mutexVars, socketVars
<1> QED BY <1>1, <1>2, <1>3

(* Nobody but the holder frees once.                                       *)
LEMMA UnlockOnceStep ==
    ASSUME Invariant, NEW t \in Thread, UnlockOnce(t)
    PROVE  Invariant'
<1> USE DEF Invariant, UnlockOnce, Goes
<1>1. TypeOK'
    BY Constants, MineIsAMessage DEF TypeOK, Counter, Reply, NoReply,
        mutexVars, socketVars, serverVars
<1>2. HoldsOnce' /\ NotYet' /\ Initialised' /\ HoldsSync'
    BY Constants DEF TypeOK, HoldsOnce, NotYet, Initialised, HoldsSync,
        mutexVars
<1>3. Waits' /\ Matches' /\ AckIsMine'
    BY Constants, MineIsAMessage DEF TypeOK, HoldsSync, Waits, Matches,
        AckIsMine, mine, NoReply, mutexVars, socketVars
<1> QED BY <1>1, <1>2, <1>3

(* sync is free when a thread takes it.                                    *)
LEMMA cri_mutex_lockStep ==
    ASSUME Invariant, NEW t \in Thread, cri_mutex_lock(t)
    PROVE  Invariant'
<1> USE DEF Invariant, cri_mutex_lock, Goes
<1>1. TypeOK'
    BY Constants, MineIsAMessage DEF TypeOK, Counter, Reply, NoReply,
        mutexVars, socketVars, serverVars
<1>2. HoldsOnce' /\ NotYet' /\ Initialised' /\ HoldsSync'
    BY Constants DEF TypeOK, HoldsOnce, NotYet, Initialised, HoldsSync,
        mutexVars
<1>3. Waits' /\ Matches' /\ AckIsMine'
    BY Constants, MineIsAMessage DEF TypeOK, HoldsSync, Waits, Matches,
        AckIsMine, mine, NoReply, mutexVars, socketVars
<1> QED BY <1>1, <1>2, <1>3

(* The socket has one request: no other thread of the process waits.       *)
LEMMA write_messageStep ==
    ASSUME Invariant, NEW t \in Thread, write_message(t)
    PROVE  Invariant'
<1> USE DEF Invariant, write_message, Goes
<1>1. TypeOK'
    BY Constants, MineIsAMessage DEF TypeOK, Counter, Reply, NoReply,
        mutexVars, socketVars, serverVars
<1>2. HoldsOnce' /\ NotYet' /\ Initialised' /\ HoldsSync'
    BY Constants DEF TypeOK, HoldsOnce, NotYet, Initialised, HoldsSync,
        mutexVars
<1>3. Waits' /\ Matches' /\ AckIsMine'
    BY ZenonT(60), Constants, MineIsAMessage DEF TypeOK, HoldsSync, Waits, Matches,
        AckIsMine, mine, NoReply, mutexVars, socketVars
<1> QED BY <1>1, <1>2, <1>3

(* The answer of the socket is to the request of the thread that waits.    *)
LEMMA read_ackStep ==
    ASSUME Invariant, NEW t \in Thread, read_ack(t)
    PROVE  Invariant'
<1> USE DEF Invariant, read_ack, Goes
<1>1. TypeOK'
    BY Constants, MineIsAMessage DEF TypeOK, Counter, Reply, NoReply,
        mutexVars, socketVars, serverVars
<1>2. HoldsOnce' /\ NotYet' /\ Initialised' /\ HoldsSync'
    BY Constants DEF TypeOK, HoldsOnce, NotYet, Initialised, HoldsSync,
        mutexVars
<1>3. \A u \in Thread : u # t /\ pc[u] \in Inside => proc[u] # proc[t]
    BY Constants DEF TypeOK, HoldsSync
<1>4. Waits'
    <2> SUFFICES ASSUME NEW u \in Thread, pc'[u] = "read"
                 PROVE  request'[proc[u]] = mine(u)'
        BY DEF Waits
    <2>1. u # t /\ pc[u] = "read"
        BY DEF TypeOK
    <2>2. request'[proc[u]] = request[proc[u]]
        BY <1>3, <2>1, Constants DEF TypeOK
    <2>3. mine(u)' = mine(u)
        BY DEF mine
    <2> QED BY <2>1, <2>2, <2>3 DEF Waits
<1>5. Matches'
    <2> SUFFICES ASSUME NEW p \in Process, reply'[p] # NoReply
                 PROVE  reply'[p].to = request'[p]
        BY DEF Matches
    <2>1. p # proc[t]
        BY Constants DEF TypeOK
    <2> QED BY <2>1 DEF TypeOK, Matches
<1>6. AckIsMine'
    <2>1. request[proc[t]] = mine(t) /\ mine(t) # None
        BY Constants, MineIsAMessage DEF TypeOK, Waits
    <2>2. reply[proc[t]].to = mine(t)
        BY <2>1, Constants DEF Matches
    <2>3. \A u \in Thread : mine(u)' = mine(u)
        BY DEF mine
    <2>4. ack'[t] = reply[proc[t]] /\ \A u \in Thread \ {t} : ack'[u] = ack[u]
        BY DEF TypeOK
    <2> QED BY <2>1, <2>2, <2>3, <2>4 DEF AckIsMine
<1>7. Waits' /\ Matches' /\ AckIsMine'
    BY <1>4, <1>5, <1>6
<1> QED BY <1>1, <1>2, <1>7

(* Nobody but the holder frees sync.                                       *)
LEMMA cri_mutex_unlockStep ==
    ASSUME Invariant, NEW t \in Thread, cri_mutex_unlock(t)
    PROVE  Invariant'
<1> USE DEF Invariant, cri_mutex_unlock, Goes
<1>1. TypeOK'
    BY Constants, MineIsAMessage DEF TypeOK, Counter, Reply, NoReply,
        mutexVars, socketVars, serverVars
<1>2. HoldsOnce' /\ NotYet' /\ Initialised' /\ HoldsSync'
    BY Constants DEF TypeOK, HoldsOnce, NotYet, Initialised, HoldsSync,
        mutexVars
<1>3. Waits' /\ Matches' /\ AckIsMine'
    BY Constants, MineIsAMessage DEF TypeOK, HoldsSync, Waits, Matches,
        AckIsMine, mine, NoReply, mutexVars, socketVars
<1> QED BY <1>1, <1>2, <1>3

(* A thread that returns holds nothing.                                    *)
LEMMA ReturnStep ==
    ASSUME Invariant, NEW t \in Thread, Return(t)
    PROVE  Invariant'
<1> USE DEF Invariant, Return, Goes
<1>1. TypeOK'
    BY Constants, MineIsAMessage DEF TypeOK, Counter, Reply, NoReply,
        mutexVars, socketVars, serverVars
<1>2. HoldsOnce' /\ NotYet' /\ Initialised' /\ HoldsSync'
    BY Constants DEF TypeOK, HoldsOnce, NotYet, Initialised, HoldsSync,
        mutexVars
<1>3. Waits' /\ Matches' /\ AckIsMine'
    BY Constants, MineIsAMessage DEF TypeOK, HoldsSync, Waits, Matches,
        AckIsMine, mine, NoReply, mutexVars, socketVars
<1> QED BY <1>1, <1>2, <1>3

(* The other processes keep their locks and their sockets.                 *)
LEMMA AbortStep ==
    ASSUME Invariant, NEW t \in Thread, Abort(t)
    PROVE  Invariant'
<1> USE DEF Invariant, Abort, Goes
<1>1. TypeOK'
    BY Constants, MineIsAMessage DEF TypeOK, Counter, Reply, NoReply,
        mutexVars, socketVars, serverVars
<1>2. HoldsOnce' /\ NotYet' /\ Initialised' /\ HoldsSync'
    BY Constants DEF TypeOK, HoldsOnce, NotYet, Initialised, HoldsSync,
        mutexVars
<1>3. Waits' /\ Matches' /\ AckIsMine'
    BY Constants, MineIsAMessage DEF TypeOK, HoldsSync, Waits, Matches,
        AckIsMine, mine, NoReply, mutexVars, socketVars
<1> QED BY <1>1, <1>2, <1>3

----------------------------------------------------------------------------
(* The runner and nanomsg.                                                 *)

(* An answer goes to the socket whose request it answers.                  *)
LEMMA ServeStep ==
    ASSUME Invariant, Serve
    PROVE  Invariant'
<1> DEFINE m == Head(inbox)
<1>1. PICK c \in Found(m) : process_client_message(m, c)
    BY DEF Serve
<1>2. m \in Message /\ Tail(inbox) \in Seq(Message)
    BY DEF Serve, Invariant, TypeOK
<1>3. Answers(m, c)[1] \in BOOLEAN
    BY DEF Answers
<1>4. sender(m) \in Process
    BY <1>2, Constants DEF sender, Message
<1>5. /\ UNCHANGED <<threadVars, mutexVars, request>>
      /\ inbox' = Tail(inbox)
      /\ \/ UNCHANGED reply
         \/ /\ request[sender(m)] = m
            /\ reply' = [reply EXCEPT ![sender(m)] =
                                   [to |-> m, ok |-> Answers(m, c)[1]]]
    BY <1>1 DEF Serve, process_client_message, send_ack
<1>6. TypeOK'
    BY <1>2, <1>3, <1>4, <1>5 DEF Invariant, TypeOK, Reply, threadVars, mutexVars
<1>7. HoldsOnce' /\ NotYet' /\ Initialised' /\ HoldsSync'
    BY <1>5 DEF Invariant, HoldsOnce, NotYet, Initialised, HoldsSync,
        threadVars, mutexVars
<1>8. Waits' /\ AckIsMine'
    BY <1>5 DEF Invariant, Waits, AckIsMine, mine, threadVars
<1>9. Matches'
    BY <1>4, <1>5 DEF Invariant, TypeOK, Matches
<1> QED BY <1>6, <1>7, <1>8, <1>9 DEF Invariant

(* A request that is sent again stays the request of its socket.           *)
LEMMA ResendStep ==
    ASSUME Invariant, NEW p \in Process, Resend(p)
    PROVE  Invariant'
<1> USE DEF Invariant, Resend, threadVars, mutexVars
<1>1. TypeOK'
    BY DEF TypeOK
<1>2. HoldsOnce' /\ NotYet' /\ Initialised' /\ HoldsSync'
    BY DEF HoldsOnce, NotYet, Initialised, HoldsSync
<1>3. Waits' /\ Matches' /\ AckIsMine'
    BY DEF Waits, Matches, AckIsMine, mine
<1> QED BY <1>1, <1>2, <1>3

(* Nothing of a client changes when its context is removed.                *)
LEMMA Unchanged ==
    ASSUME Invariant, UNCHANGED <<threadVars, mutexVars, socketVars>>
    PROVE  Invariant'
BY DEF Invariant, TypeOK, HoldsOnce, NotYet, Initialised, HoldsSync, Waits,
    Matches, AckIsMine, mine, threadVars, mutexVars, socketVars

----------------------------------------------------------------------------
(* The locks, the socket and the threads of every process agree in every   *)
(* reachable state (cr_send_to_runner, cri_mutex_init_once, send_ack).     *)
THEOREM OneCallAtATime == Spec => []Invariant
<1>1. Invariant /\ [Next]_vars => Invariant'
  <2> SUFFICES ASSUME Invariant, [Next]_vars PROVE Invariant'
      OBVIOUS
  <2>1. ASSUME NEW t \in Thread, Step(t) PROVE Invariant'
      BY <2>1, LockOnceStep, TestInitStep, cri_mutex_initStep, UnlockOnceStep,
          cri_mutex_lockStep, write_messageStep, read_ackStep,
          cri_mutex_unlockStep, ReturnStep, AbortStep DEF Step
  <2>2. CASE Serve
      BY <2>2, ServeStep
  <2>3. ASSUME NEW p \in Process, Resend(p) PROVE Invariant'
      BY <2>3, ResendStep
  <2>4. ASSUME NEW p \in Process, Reap(p) PROVE Invariant'
      BY <2>4, Unchanged DEF Reap
  <2>5. CASE UNCHANGED vars
      BY <2>5, Unchanged DEF vars
  <2> QED BY <2>1, <2>2, <2>3, <2>4, <2>5 DEF Next
<1> QED BY Initially, <1>1, PTL DEF Spec

(* A thread never takes the answer to the message of another, however many *)
(* threads share the socket and however often requests are sent again.     *)
THEOREM AnswersMatch == Spec => []AckIsMine
<1>1. Invariant => AckIsMine
    BY DEF Invariant
<1> QED BY <1>1, OneCallAtATime, PTL

----------------------------------------------------------------------------
(* The assertions of a worker.                                             *)

\* The messages there are, and the assertions of a process among them.
Sendable    == {m \in Message : m[2] \in DOMAIN Calls[m[1]]}
AssertsOf(p) == {m \in Sendable : sender(m) = p /\ call(m).kind = "ASSERT"}

\* Its assertions that were sent, those sent again, those on their way, and
\* those whose answer is there, read or not.
Sent(p)   == {m \in AssertsOf(p) : MaySent(m)}
Again(p)  == {m \in AssertsOf(p) : m \in resent}
Coming(p) == {i \in DOMAIN inbox : inbox[i] \in AssertsOf(p)}
Acked(m)  == \/ Returned(m)
             \/ m = mine(m[1]) /\ pc[m[1]] \in {"unlock", "check"} /\ ack[m[1]].ok
             \/ reply[sender(m)].to = m /\ reply[sender(m)].ok
Heard(p)  == {m \in AssertsOf(p) : Acked(m)}

\* What is sent is one of the calls, and what the runner keeps is its own.
Made ==
    /\ \A t \in Thread : pc[t] \notin {"idle", "dead"} => mine(t) \in Sendable
    /\ \A p \in Process : request[p] \in Sendable \cup {None}
    /\ inbox \in Seq(Sendable)
Kept ==
    /\ ctx \in [Process -> [state : Nat, asserts : Nat]]
    /\ clients \subseteq Extern /\ children \subseteq Worker

\* An assertion is counted before its answer is sent, and only when it was
\* taken out of the inbox, where each sending puts it once.
Balance(p) ==
    /\ Cardinality(Heard(p)) <= ctx[p].asserts
    /\ ctx[p].asserts + Cardinality(Coming(p))
          <= Cardinality(Sent(p)) + Cardinality(Again(p))

Counts == Made /\ Kept /\ \A p \in Worker : Balance(p)

(* A worker has finitely many messages to send.                            *)
LEMMA SendableFinite == IsFiniteSet(Sendable)
<1> DEFINE Row(t) == {<<t, n>> : n \in DOMAIN Calls[t]}
           rows == [t \in Thread |-> Row(t)]
           S == {Row(t) : t \in Thread}
<1>1. ASSUME NEW t \in Thread PROVE IsFiniteSet(Row(t))
  <2> DEFINE f == [n \in DOMAIN Calls[t] |-> <<t, n>>]
  <2>1. /\ Len(Calls[t]) \in Nat /\ DOMAIN Calls[t] = 1 .. Len(Calls[t])
        /\ 1 \in Int
      BY ThreadsAssumption
  <2>2. IsFiniteSet(DOMAIN Calls[t])
      BY <2>1, FS_Interval
  <2>3. f \in Surjection(DOMAIN Calls[t], Row(t))
      BY DEF Surjection
  <2> QED BY <2>2, <2>3, FS_Surjection
<1>2. rows \in Surjection(Thread, S)
    BY DEF Surjection
<1>3. IsFiniteSet(S)
  <2> HIDE DEF rows, S
  <2> QED BY <1>2, ThreadsAssumption, FS_Surjection
<1>4. IsFiniteSet(UNION S)
  <2>1. \A T \in S : IsFiniteSet(T)
      BY <1>1
  <2> HIDE DEF S
  <2> QED BY <1>3, <2>1, FS_UNION
<1>5. Sendable \subseteq UNION S
  <2> SUFFICES ASSUME NEW m \in Sendable PROVE m \in UNION S
      OBVIOUS
  <2>1. m[1] \in Thread /\ m[2] \in DOMAIN Calls[m[1]] /\ m = <<m[1], m[2]>>
      BY DEF Sendable, Message
  <2>2. m \in Row(m[1]) /\ Row(m[1]) \in S
      BY <2>1
  <2> QED BY <2>2
<1> QED BY <1>4, <1>5, FS_Subset

(* So every set of its assertions has a size, and a larger set a larger one.*)
LEMMA Sizes ==
    ASSUME NEW S \in SUBSET Sendable, NEW T \in SUBSET S
    PROVE  /\ Cardinality(S) \in Nat /\ Cardinality(T) \in Nat
           /\ Cardinality(T) <= Cardinality(S)
           /\ \A m \in S \ T : Cardinality(T) + 1 <= Cardinality(S)
<1>1. IsFiniteSet(S)
    BY SendableFinite, FS_Subset
<1>2. /\ IsFiniteSet(T) /\ Cardinality(T) <= Cardinality(S)
      /\ Cardinality(S) = Cardinality(T) => S = T
    BY <1>1, FS_Subset
<1>3. Cardinality(S) \in Nat /\ Cardinality(T) \in Nat
    BY <1>1, <1>2, FS_CardinalityType
<1>4. ASSUME NEW m \in S \ T PROVE Cardinality(T) + 1 <= Cardinality(S)
    BY <1>2, <1>3, <1>4
<1> QED BY <1>2, <1>3, <1>4

(* One element more makes a set larger by one.                             *)
LEMMA OneMore ==
    ASSUME NEW S \in SUBSET Sendable, NEW T, NEW m \in Sendable,
           T \subseteq S \cup {m}
    PROVE  Cardinality(T) <= Cardinality(S) + 1
<1>1. IsFiniteSet(S)
    BY SendableFinite, FS_Subset
<1>2. IsFiniteSet(S \cup {m}) /\ Cardinality(S \cup {m}) <= Cardinality(S) + 1
  <2>1. Cardinality(S) \in Nat
      BY <1>1, FS_CardinalityType
  <2> QED BY <1>1, <2>1, FS_AddElement
<1>3. Cardinality(T) <= Cardinality(S \cup {m})
    BY <1>2, FS_Subset
<1>4. IsFiniteSet(T)
    BY <1>2, FS_Subset
<1>5. /\ Cardinality(S) \in Nat /\ Cardinality(T) \in Nat
      /\ Cardinality(S \cup {m}) \in Nat
    BY <1>1, <1>2, <1>4, FS_CardinalityType
<1> QED BY <1>2, <1>3, <1>5

----------------------------------------------------------------------------
(* The inbox.                                                              *)

(* What is on its way is finitely much.                                    *)
LEMMA ComingFinite ==
    ASSUME NEW s \in Seq(Sendable), NEW A
    PROVE  LET C == {i \in DOMAIN s : s[i] \in A}
           IN  IsFiniteSet(C) /\ Cardinality(C) \in Nat
<1> DEFINE C == {i \in DOMAIN s : s[i] \in A}
<1>1. Len(s) \in Nat /\ DOMAIN s = 1 .. Len(s) /\ 1 \in Int
    OBVIOUS
<1>2. IsFiniteSet(DOMAIN s)
    BY <1>1, FS_Interval
<1>3. C \in SUBSET DOMAIN s
    OBVIOUS
<1> HIDE DEF C
<1>4. IsFiniteSet(C)
    BY <1>2, <1>3, FS_Subset
<1>5. Cardinality(C) \in Nat
    BY <1>4, FS_CardinalityType
<1> QED BY <1>4, <1>5 DEF C

(* A message that is sent is one more on its way, at the end.              *)
LEMMA ComingAppend ==
    ASSUME NEW s \in Seq(Sendable), NEW m \in Sendable, NEW A
    PROVE  Cardinality({i \in DOMAIN Append(s, m) : Append(s, m)[i] \in A})
             = Cardinality({i \in DOMAIN s : s[i] \in A})
                  + (IF m \in A THEN 1 ELSE 0)
<1> DEFINE C == {i \in DOMAIN s : s[i] \in A}
           D == {i \in DOMAIN Append(s, m) : Append(s, m)[i] \in A}
           n == Len(s) + 1
<1>1. IsFiniteSet(C) /\ Cardinality(C) \in Nat
    BY ComingFinite
<1>2. /\ Len(s) \in Nat /\ DOMAIN s = 1 .. Len(s)
      /\ DOMAIN Append(s, m) = 1 .. n /\ Append(s, m)[n] = m
      /\ \A i \in 1 .. Len(s) : Append(s, m)[i] = s[i]
    OBVIOUS
<1>3. n \notin C
    BY <1>2
<1>4. \A i : i \in 1 .. n <=> i \in 1 .. Len(s) \/ i = n
    BY <1>2
<1>5. D = IF m \in A THEN C \cup {n} ELSE C
  <2> HIDE DEF n
  <2> QED BY <1>2, <1>4
<1> HIDE DEF C, D, n
<1>6. Cardinality(D) = Cardinality(C) + (IF m \in A THEN 1 ELSE 0)
  <2>1. Cardinality(C \cup {n}) = Cardinality(C) + 1
      BY <1>1, <1>3, FS_AddElement
  <2> QED BY <1>1, <1>5, <2>1
<1> QED BY <1>6 DEF C, D

(* A message that is read is one less.                                     *)
LEMMA ComingTail ==
    ASSUME NEW s \in Seq(Sendable), s # <<>>, NEW A
    PROVE  Cardinality({i \in DOMAIN Tail(s) : Tail(s)[i] \in A})
             + (IF Head(s) \in A THEN 1 ELSE 0)
             <= Cardinality({i \in DOMAIN s : s[i] \in A})
<1> DEFINE C == {i \in DOMAIN s : s[i] \in A}
           D == {i \in DOMAIN Tail(s) : Tail(s)[i] \in A}
           f == [i \in D |-> i + 1]
<1>1. IsFiniteSet(C) /\ Cardinality(C) \in Nat
    BY ComingFinite
<1>2. IsFiniteSet(D) /\ Cardinality(D) \in Nat
  <2>1. Tail(s) \in Seq(Sendable)
      OBVIOUS
  <2> QED BY <2>1, ComingFinite
<1>3. /\ Len(s) \in Nat \ {0} /\ DOMAIN s = 1 .. Len(s) /\ Head(s) = s[1]
      /\ DOMAIN Tail(s) = 1 .. Len(s) - 1
      /\ \A i \in 1 .. Len(s) - 1 : Tail(s)[i] = s[i + 1]
    OBVIOUS
<1>4. \A i \in D : i \in Nat /\ i + 1 \in C \ {1}
    BY <1>3
<1>5. Head(s) \in A => 1 \in C
    BY <1>3
<1> HIDE DEF C, D
<1>6. IsFiniteSet(C \ {1})
      /\ Cardinality(C \ {1}) = IF 1 \in C THEN Cardinality(C) - 1 ELSE Cardinality(C)
    BY <1>1, FS_RemoveElement
<1>7. f \in Injection(D, C \ {1})
    BY <1>4 DEF Injection, IsInjective
<1> HIDE DEF f
<1>8. Cardinality(D) <= Cardinality(C \ {1})
    BY <1>6, <1>7, FS_Injection
<1>9. Cardinality(D) + (IF Head(s) \in A THEN 1 ELSE 0) <= Cardinality(C)
    BY <1>1, <1>2, <1>5, <1>6, <1>8
<1> QED BY <1>9 DEF C, D

----------------------------------------------------------------------------
(* What the threads do to the balance.                                     *)

\* A step of t: what was sent stays sent, no answer appears, and what is put
\* into the inbox is its message, which was not sent before.
Sends(t) ==
    /\ \A m \in Sendable : (Acked(m)' => Acked(m)) /\ (MaySent(m) => MaySent(m)')
    /\ \/ inbox' = inbox
       \/ /\ inbox' = Append(inbox, mine(t)) /\ mine(t)' = mine(t)
          /\ mine(t) \in Sendable /\ ~MaySent(mine(t)) /\ MaySent(mine(t))'
    /\ UNCHANGED <<serverVars, resent>>

(* The parts of a message.                                                 *)
LEMMA Parts ==
    ASSUME NEW m \in Sendable
    PROVE  /\ m[1] \in Thread /\ m[2] \in Nat /\ m = <<m[1], m[2]>>
           /\ sender(m) \in Process
BY Constants DEF Sendable, Message, sender

(* Until the message is written the socket and the calls stay as they are. *)
LEMMA LockingSends ==
    ASSUME Invariant, Made, NEW t \in Thread,
           \/ LockOnce(t) \/ TestInit(t) \/ cri_mutex_init(t)
           \/ UnlockOnce(t) \/ cri_mutex_lock(t)
    PROVE  Sends(t) /\ Made'
<1> DEFINE Quiet == {"idle", "test", "init", "opened", "lock", "write"}
<1>1. /\ UNCHANGED <<calls, ack, socketVars, serverVars, resent>>
      /\ pc[t] \in Quiet /\ pc'[t] \in Quiet \ {"idle"}
      /\ \A u \in Thread \ {t} : pc'[u] = pc[u]
      /\ pc[t] = "idle" => calls[t] < Len(Calls[t])
    BY DEF Invariant, TypeOK, LockOnce, TestInit, cri_mutex_init, UnlockOnce,
        cri_mutex_lock, Goes, Calling
<1>2. calls[t] \in Nat /\ Calls[t] \in Seq(CallRec)
    BY ThreadsAssumption DEF Invariant, TypeOK
<1>3. UNCHANGED <<calls, ack, request, reply, inbox, mine(t)>>
      /\ \A u \in Thread : mine(u)' = mine(u)
    BY <1>1 DEF socketVars, mine
<1>4. ASSUME NEW m \in Sendable
      PROVE  (Acked(m)' => Acked(m)) /\ (MaySent(m) => MaySent(m)')
  <2>1. m[1] \in Thread
      BY Parts
  <2>2. CASE m[1] = t
      BY <1>1, <1>3, <2>2 DEF Acked, MaySent, Returned, sender
  <2>3. CASE m[1] # t
      BY <1>1, <1>3, <2>1, <2>3 DEF Acked, MaySent, Returned, sender
  <2> QED BY <2>2, <2>3
<1>5. mine(t) \in Sendable
  <2>1. pc[t] = "idle" => mine(t) \in Sendable
    <3>1. calls[t] + 1 \in Nat /\ (calls[t] < Len(Calls[t])
                                      => calls[t] + 1 \in DOMAIN Calls[t])
        BY <1>2
    <3> QED BY <1>1, <3>1 DEF mine, Sendable, Message
  <2> QED BY <1>1, <2>1 DEF Made
<1>6. Made'
  <2>1. ASSUME NEW u \in Thread, pc'[u] \notin {"idle", "dead"}
        PROVE  mine(u)' \in Sendable
      BY <1>1, <1>3, <1>5, <2>1 DEF Made
  <2> QED BY <1>3, <2>1 DEF Made
<1> QED BY <1>1, <1>3, <1>4, <1>6 DEF Sends

(* The message that is written was not sent before.                        *)
LEMMA WriteSends ==
    ASSUME Invariant, Made, NEW t \in Thread, write_message(t)
    PROVE  Sends(t) /\ Made'
<1> DEFINE q == proc[t]
<1>1. /\ pc[t] = "write" /\ pc' = [pc EXCEPT ![t] = "read"]
      /\ inbox' = Append(inbox, mine(t))
      /\ request' = [request EXCEPT ![q] = mine(t)]
      /\ reply' = [reply EXCEPT ![q] = NoReply]
      /\ UNCHANGED <<calls, ack, serverVars, resent>>
    BY DEF write_message, Goes
<1>2. pc \in [Thread -> Counter] /\ reply \in [Process -> Reply]
      /\ q \in Process /\ request \in [Process -> Message \cup {None}]
      /\ calls[t] \in Nat
    BY Constants DEF Invariant, TypeOK
<1>3. pc'[t] = "read" /\ \A u \in Thread \ {t} : pc'[u] = pc[u]
    BY <1>1, <1>2
<1>4. \A u \in Thread : mine(u)' = mine(u)
    BY <1>1 DEF mine
<1>5. mine(t) \in Sendable
    BY <1>1 DEF Made
<1>6. \A p \in Process : reply'[p].ok => reply'[p] = reply[p]
    BY <1>1, <1>2 DEF NoReply
<1>7. ASSUME NEW m \in Sendable
      PROVE  (Acked(m)' => Acked(m)) /\ (MaySent(m) => MaySent(m)')
  <2>1. m[1] \in Thread /\ sender(m) \in Process
      BY Parts
  <2>2. CASE m[1] = t
      BY <1>1, <1>3, <1>4, <1>6, <2>1, <2>2 DEF Acked, MaySent, Returned, sender
  <2>3. CASE m[1] # t
      BY <1>1, <1>3, <1>4, <1>6, <2>1, <2>3 DEF Acked, MaySent, Returned, sender
  <2> QED BY <2>2, <2>3
<1>8. ~MaySent(mine(t)) /\ MaySent(mine(t))'
  <2>1. mine(t)[1] = t /\ mine(t)[2] = calls[t] + 1
      BY DEF mine
  <2>2. ~Returned(mine(t))
      BY <1>2, <2>1 DEF Returned
  <2> QED BY <1>1, <1>3, <1>4, <2>1, <2>2 DEF MaySent
<1>9. Made'
  <2>1. ASSUME NEW u \in Thread, pc'[u] \notin {"idle", "dead"}
        PROVE  mine(u)' \in Sendable
      BY <1>1, <1>3, <1>4, <2>1 DEF Made
  <2>2. inbox' \in Seq(Sendable)
      BY <1>1, <1>5 DEF Made
  <2>3. \A p \in Process : request'[p] \in Sendable \cup {None}
      BY <1>1, <1>2, <1>5 DEF Made
  <2> QED BY <2>1, <2>2, <2>3 DEF Made
<1> QED BY <1>1, <1>4, <1>5, <1>7, <1>8, <1>9 DEF Sends

(* The answer that is read is the one that was there.                      *)
LEMMA ReadSends ==
    ASSUME Invariant, Made, NEW t \in Thread, read_ack(t)
    PROVE  Sends(t) /\ Made'
<1> DEFINE q == proc[t]
<1>1. /\ pc[t] = "read" /\ pc' = [pc EXCEPT ![t] = "unlock"]
      /\ ack' = [ack EXCEPT ![t] = reply[q]]
      /\ reply' = [reply EXCEPT ![q] = NoReply]
      /\ request' = [request EXCEPT ![q] = None]
      /\ UNCHANGED <<calls, inbox, serverVars, resent>>
    BY DEF read_ack, Goes
<1>2. pc \in [Thread -> Counter] /\ reply \in [Process -> Reply]
      /\ q \in Process /\ request \in [Process -> Message \cup {None}]
      /\ ack \in [Thread -> Reply]
    BY Constants DEF Invariant, TypeOK
<1>3. pc'[t] = "unlock" /\ \A u \in Thread \ {t} : pc'[u] = pc[u] /\ ack'[u] = ack[u]
    BY <1>1, <1>2
<1>4. \A u \in Thread : mine(u)' = mine(u)
    BY <1>1 DEF mine
<1>5. ack'[t] = reply[q] /\ (reply[q].ok => reply[q].to = mine(t))
  <2>1. reply[q].ok => reply[q] # NoReply
      BY DEF NoReply
  <2>2. reply[q].ok => reply[q].to = request[q] /\ request[q] = mine(t)
      BY <1>1, <1>2, <2>1 DEF Invariant, Matches, Waits
  <2> QED BY <1>1, <1>2, <2>2
<1>6. \A p \in Process : reply'[p].ok => reply'[p] = reply[p]
    BY <1>1, <1>2 DEF NoReply
<1>7. ASSUME NEW m \in Sendable
      PROVE  (Acked(m)' => Acked(m)) /\ (MaySent(m) => MaySent(m)')
  <2>1. m[1] \in Thread /\ sender(m) \in Process
      BY Parts
  <2>2. CASE m[1] = t
    <3>1. sender(m) = q
        BY <2>2 DEF sender
    <3> QED BY <1>1, <1>3, <1>4, <1>5, <1>6, <2>1, <2>2, <3>1
            DEF Acked, MaySent, Returned
  <2>3. CASE m[1] # t
      BY <1>1, <1>3, <1>4, <1>6, <2>1, <2>3 DEF Acked, MaySent, Returned
  <2> QED BY <2>2, <2>3
<1>8. Made'
  <2>1. ASSUME NEW u \in Thread, pc'[u] \notin {"idle", "dead"}
        PROVE  mine(u)' \in Sendable
      BY <1>1, <1>3, <1>4, <2>1 DEF Made
  <2>2. \A p \in Process : request'[p] \in Sendable \cup {None}
      BY <1>1, <1>2 DEF Made
  <2> QED BY <1>1, <2>1, <2>2 DEF Made
<1> QED BY <1>1, <1>7, <1>8 DEF Sends

(* A call that returns has read the answer to its message.                 *)
LEMMA ReturnSends ==
    ASSUME Invariant, Made, NEW t \in Thread, Return(t)
    PROVE  Sends(t) /\ Made'
<1>1. /\ pc[t] = "check" /\ pc' = [pc EXCEPT ![t] = "idle"] /\ ack[t].ok
      /\ calls' = [calls EXCEPT ![t] = @ + 1]
      /\ ack' = [ack EXCEPT ![t] = NoReply]
      /\ UNCHANGED <<inbox, request, reply, serverVars, resent>>
    BY DEF Return, Goes, socketVars
<1>2. /\ pc \in [Thread -> Counter] /\ ack \in [Thread -> Reply]
      /\ calls \in [Thread -> Nat]
    BY DEF Invariant, TypeOK
<1>3. /\ pc'[t] = "idle" /\ calls'[t] = calls[t] + 1 /\ calls[t] \in Nat
      /\ \A u \in Thread \ {t} : /\ pc'[u] = pc[u] /\ ack'[u] = ack[u]
                                 /\ calls'[u] = calls[u] /\ mine(u)' = mine(u)
    BY <1>1, <1>2 DEF mine
<1>4. ASSUME NEW m \in Sendable
      PROVE  (Acked(m)' => Acked(m)) /\ (MaySent(m) => MaySent(m)')
  <2>1. m[1] \in Thread /\ m[2] \in Nat /\ m = <<m[1], m[2]>>
      BY Parts
  <2>2. CASE m[1] = t
    <3>1. Returned(m)' <=> Returned(m) \/ m = mine(t)
        BY <1>3, <2>1, <2>2 DEF Returned, mine
    <3> QED BY <1>1, <1>3, <2>2, <3>1 DEF Acked, MaySent
  <2>3. CASE m[1] # t
      BY <1>1, <1>3, <2>1, <2>3 DEF Acked, MaySent, Returned, sender
  <2> QED BY <2>2, <2>3
<1>5. Made'
  <2>1. ASSUME NEW u \in Thread, pc'[u] \notin {"idle", "dead"}
        PROVE  mine(u)' \in Sendable
      BY <1>3, <2>1 DEF Made
  <2> QED BY <1>1, <2>1 DEF Made
<1> QED BY <1>1, <1>4, <1>5 DEF Sends

(* A thread that unlocks, and the threads of a process that aborts.        *)
LEMMA UnlockSends ==
    ASSUME Invariant, Made, NEW t \in Thread, cri_mutex_unlock(t)
    PROVE  Sends(t) /\ Made'
<1>1. /\ pc[t] = "unlock" /\ pc' = [pc EXCEPT ![t] = "check"]
      /\ UNCHANGED <<calls, ack, inbox, request, reply, serverVars, resent>>
    BY DEF cri_mutex_unlock, Goes, socketVars
<1>2. pc'[t] = "check" /\ \A u \in Thread \ {t} : pc'[u] = pc[u]
    BY <1>1 DEF Invariant, TypeOK
<1>3. \A u \in Thread : mine(u)' = mine(u)
    BY <1>1 DEF mine
<1>4. ASSUME NEW m \in Sendable
      PROVE  (Acked(m)' => Acked(m)) /\ (MaySent(m) => MaySent(m)')
  <2>1. m[1] \in Thread
      BY Parts
  <2>2. CASE m[1] = t
      BY <1>1, <1>2, <1>3, <2>1, <2>2 DEF Acked, MaySent, Returned, sender
  <2>3. CASE m[1] # t
      BY <1>1, <1>2, <1>3, <2>1, <2>3 DEF Acked, MaySent, Returned, sender
  <2> QED BY <2>2, <2>3
<1>5. Made'
  <2>1. ASSUME NEW u \in Thread, pc'[u] \notin {"idle", "dead"}
        PROVE  mine(u)' \in Sendable
      BY <1>1, <1>2, <1>3, <2>1 DEF Made
  <2> QED BY <1>1, <2>1 DEF Made
<1> QED BY <1>1, <1>4, <1>5 DEF Sends

(* The threads of a process that aborts have sent what they may have sent. *)
LEMMA AbortSends ==
    ASSUME Invariant, Made, NEW t \in Thread, Abort(t)
    PROVE  Sends(t) /\ Made'
<1>1. /\ pc' = [u \in Thread |-> IF proc[u] = proc[t] THEN "dead" ELSE pc[u]]
      /\ request' = [request EXCEPT ![proc[t]] = None]
      /\ reply' = [reply EXCEPT ![proc[t]] = NoReply]
      /\ UNCHANGED <<calls, ack, inbox, serverVars, resent>>
    BY DEF Abort
<1>2. /\ reply \in [Process -> Reply] /\ proc[t] \in Process
      /\ request \in [Process -> Message \cup {None}]
    BY Constants DEF Invariant, TypeOK
<1>3. \A u \in Thread : pc'[u] = "dead" \/ pc'[u] = pc[u]
    BY <1>1
<1>4. \A u \in Thread : mine(u)' = mine(u)
    BY <1>1 DEF mine
<1>5. \A p \in Process : reply'[p].ok => reply'[p] = reply[p]
    BY <1>1, <1>2 DEF NoReply
<1>6. ASSUME NEW m \in Sendable
      PROVE  (Acked(m)' => Acked(m)) /\ (MaySent(m) => MaySent(m)')
  <2>1. m[1] \in Thread /\ sender(m) \in Process
      BY Parts
  <2> QED BY <1>1, <1>3, <1>4, <1>5, <2>1 DEF Acked, MaySent, Returned
<1>7. Made'
  <2>1. ASSUME NEW u \in Thread, pc'[u] \notin {"idle", "dead"}
        PROVE  mine(u)' \in Sendable
      BY <1>3, <1>4, <2>1 DEF Made
  <2>2. \A p \in Process : request'[p] \in Sendable \cup {None}
      BY <1>1, <1>2 DEF Made
  <2> QED BY <1>1, <2>1, <2>2 DEF Made
<1> QED BY <1>1, <1>6, <1>7 DEF Sends

(* Whatever a thread does, the balance of the workers is kept.             *)
LEMMA SendsKeeps ==
    ASSUME Made, Kept, NEW p \in Worker, Balance(p), NEW t \in Thread, Sends(t)
    PROVE  Balance(p)'
<1>1. Heard(p)' \subseteq Heard(p) /\ Sent(p) \subseteq Sent(p)'
    BY DEF Sends, Heard, Sent, AssertsOf
<1>2. Again(p)' = Again(p) /\ ctx' = ctx
    BY DEF Sends, Again, serverVars
<1>3. /\ Heard(p) \in SUBSET Sendable /\ Sent(p)' \in SUBSET Sendable
      /\ Again(p) \in SUBSET Sendable
    BY DEF Heard, Sent, Again, AssertsOf
<1>4. Cardinality(Heard(p)') <= Cardinality(Heard(p))
      /\ Cardinality(Heard(p)) \in Nat /\ Cardinality(Heard(p)') \in Nat
    BY <1>1, <1>3, Sizes
<1>5. /\ Cardinality(Sent(p)) <= Cardinality(Sent(p)')
      /\ Cardinality(Sent(p)) \in Nat /\ Cardinality(Sent(p)') \in Nat
      /\ \A m \in Sent(p)' \ Sent(p) :
            Cardinality(Sent(p)) + 1 <= Cardinality(Sent(p)')
    BY <1>1, <1>3, Sizes
<1>6. Cardinality(Again(p)) \in Nat /\ Cardinality(Coming(p)) \in Nat
    BY <1>3, Sizes, ComingFinite DEF Coming, Made
<1>7. ctx[p].asserts \in Nat
    BY ProcessesAssumption DEF Kept
<1>8. Cardinality(Coming(p)') - Cardinality(Coming(p))
         <= Cardinality(Sent(p)') - Cardinality(Sent(p))
      /\ Cardinality(Coming(p)') \in Nat
  <2>1. CASE inbox' = inbox
    <3>1. Coming(p)' = Coming(p)
        BY <2>1 DEF Coming, AssertsOf
    <3> QED BY <1>5, <1>6, <3>1
  <2>2. CASE inbox' # inbox
    <3>1. PICK m \in Sendable :
             inbox' = Append(inbox, m) /\ ~MaySent(m) /\ MaySent(m)'
      <4>1. MaySent(mine(t))' /\ mine(t)' = mine(t)
          BY <2>2 DEF Sends
      <4>2. ASSUME NEW m, m = mine(t) PROVE MaySent(m)'
          BY <4>1, <4>2 DEF MaySent, Returned
      <4> QED BY <2>2, <4>2 DEF Sends
    <3>2. Cardinality(Coming(p)') = Cardinality(Coming(p))
             + (IF m \in AssertsOf(p) THEN 1 ELSE 0)
      <4>1. inbox \in Seq(Sendable)
          BY DEF Made
      <4>2. Coming(p)' = {i \in DOMAIN inbox' : inbox'[i] \in AssertsOf(p)}
          BY DEF Coming
      <4> QED BY <3>1, <4>1, <4>2, ComingAppend DEF Coming
    <3>3. m \in AssertsOf(p) => m \in Sent(p)' \ Sent(p)
        BY <3>1 DEF Sent
    <3> QED BY <1>5, <1>6, <3>2, <3>3
  <2> QED BY <2>1, <2>2
<1> QED BY <1>2, <1>4, <1>5, <1>6, <1>7, <1>8 DEF Balance

----------------------------------------------------------------------------
(* What the runner and nanomsg do to it.                                   *)

(* A handler keeps the type of a context; it counts an assertion, and      *)
(* nothing else.                                                           *)
LEMMA HandlerCounts ==
    ASSUME NEW m \in Sendable, NEW x \in [state : Nat, asserts : Nat]
    PROVE  /\ Handler(m, x) \in [state : Nat, asserts : Nat]
           /\ Handler(m, x).asserts =
                 x.asserts + (IF call(m).kind = "ASSERT" THEN 1 ELSE 0)
<1>1. call(m) \in CallRec
    BY ThreadsAssumption, Parts DEF call, Sendable
<1>2. CASE call(m).kind = "PHASE"
  <2>1. next_state(x.state, call(m).arg) \in Nat
      BY DEF next_state, push_state, pop_state, CS_END,
          CS_SETUP, CS_MAX_CLIENT_STATES
  <2>2. Handler(m, x) = [x EXCEPT !.state = next_state(@, call(m).arg)]
      BY <1>2 DEF Handler
  <2> QED BY <1>2, <2>1, <2>2
<1>3. CASE call(m).kind = "ASSERT"
  <2>1. Handler(m, x) = [x EXCEPT !.asserts = @ + 1]
      BY <1>3 DEF Handler
  <2> QED BY <1>3, <2>1
<1>4. CASE call(m).kind \notin {"PHASE", "ASSERT"}
    BY <1>4 DEF Handler
<1> QED BY <1>2, <1>3, <1>4

(* A message is counted in the context of the worker it comes from, and    *)
(* then its answer is a success; an external client never finds a worker.  *)
LEMMA ServeOutcome ==
    ASSUME Kept, NEW m \in Sendable, NEW c \in Found(m),
           process_client_message(m, c)
    PROVE  /\ Kept'
           /\ \A p \in Worker : ctx'[p].asserts = ctx[p].asserts
                 + (IF Answers(m, c)[1] /\ m \in AssertsOf(p) THEN 1 ELSE 0)
<1> DEFINE p0 == IF Adds(m, c) THEN sender(m) ELSE c
           yes == Answers(m, c)[1]
<1>1. /\ clients' = IF ~Rejected(m, c) /\ Adds(m, c)
                    THEN clients \cup {p0} ELSE clients
      /\ ctx' = IF yes THEN [ctx EXCEPT ![p0] = Handler(m, @)] ELSE ctx
      /\ children' = children
    BY DEF process_client_message
<1>2. yes => ~Rejected(m, c)
    BY DEF Answers
<1>3. sender(m) \in Process /\ None \notin Process
    BY Parts, ThreadsAssumption
<1>4. Adds(m, c) => sender(m) \in Extern
    BY DEF Adds
<1>5. yes => /\ p0 \in Process
             /\ p0 \in Worker => p0 = sender(m)
             /\ sender(m) \in Worker => p0 = sender(m)
  <2>1. CASE Adds(m, c)
      BY <1>3, <2>1
  <2>2. CASE ~Adds(m, c) /\ ~Rejected(m, c)
    <3>1. c # None
        BY <2>2 DEF Rejected
    <3>2. CASE sender(m) \in Extern
      <4>1. c \in clients
          BY <3>1, <3>2 DEF Found
      <4> QED BY <2>2, <3>2, <4>1, ProcessesAssumption DEF Kept
    <3>3. CASE sender(m) \notin Extern
        BY <1>3, <2>2, <3>1, <3>3 DEF Found
    <3> QED BY <3>2, <3>3
  <2> QED BY <1>2, <2>1, <2>2
<1>6. \A p \in Process : ctx[p] \in [state : Nat, asserts : Nat]
    BY DEF Kept
<1>7. Kept'
  <2>1. ctx' \in [Process -> [state : Nat, asserts : Nat]]
    <3>1. CASE yes
      <4>1. Handler(m, ctx[p0]) \in [state : Nat, asserts : Nat]
          BY <1>5, <1>6, <3>1, HandlerCounts
      <4> HIDE DEF p0, yes
      <4> QED BY <1>1, <1>5, <3>1, <4>1 DEF Kept
    <3>2. CASE ~yes
        BY <1>1, <3>2 DEF Kept
    <3> QED BY <3>1, <3>2
  <2>2. clients' \subseteq Extern
      BY <1>1, <1>4 DEF Kept
  <2> QED BY <1>1, <2>1, <2>2 DEF Kept
<1>8. ASSUME NEW p \in Worker
      PROVE  ctx'[p].asserts = ctx[p].asserts
                + (IF yes /\ m \in AssertsOf(p) THEN 1 ELSE 0)
  <2>1. p \in Process
      BY ProcessesAssumption
  <2>2. m \in AssertsOf(p) <=> sender(m) = p /\ call(m).kind = "ASSERT"
      BY DEF AssertsOf
  <2>3. ctx[p].asserts \in Nat
      BY <1>6, <2>1
  <2>4. Handler(m, ctx[p]).asserts = ctx[p].asserts
           + (IF call(m).kind = "ASSERT" THEN 1 ELSE 0)
      BY <1>6, <2>1, HandlerCounts
  <2> HIDE DEF p0, yes
  <2>5. CASE yes /\ p0 = p
    <3>1. ctx'[p] = Handler(m, ctx[p])
        BY <1>1, <2>1, <2>5 DEF Kept
    <3> QED BY <1>5, <2>2, <2>4, <2>5, <3>1 DEF p0
  <2>6. CASE yes /\ p0 # p
    <3>1. ctx'[p] = ctx[p]
        BY <1>1, <2>1, <2>6 DEF Kept
    <3>2. sender(m) # p
        BY <1>5, <2>6
    <3> QED BY <2>2, <2>3, <3>1, <3>2
  <2>7. CASE ~yes
      BY <1>1, <2>3, <2>7
  <2> QED BY <2>5, <2>6, <2>7
<1> QED BY <1>7, <1>8

LEMMA ServeKeeps ==
    ASSUME Invariant, Counts, Serve
    PROVE  Counts'
<1> DEFINE m == Head(inbox)
<1>1. PICK c \in Found(m) : process_client_message(m, c)
    BY DEF Serve
<1>2. /\ inbox \in Seq(Sendable) /\ inbox # <<>> /\ inbox' = Tail(inbox)
      /\ UNCHANGED <<pc, calls, ack, request, resent>>
    BY <1>1 DEF Counts, Made, Serve, threadVars, process_client_message, send_ack
<1>3. m \in Sendable
    BY <1>2
<1>4. /\ Kept'
      /\ \A p \in Worker : ctx'[p].asserts = ctx[p].asserts
            + (IF Answers(m, c)[1] /\ m \in AssertsOf(p) THEN 1 ELSE 0)
  <2> HIDE DEF m
  <2> QED BY <1>1, <1>3, ServeOutcome DEF Counts
<1>5. \A u \in Thread : mine(u)' = mine(u)
    BY <1>2 DEF mine
<1>6. Made'
    BY <1>2, <1>5 DEF Counts, Made
<1>7. ASSUME NEW k \in Sendable, Acked(k)'
      PROVE  Acked(k) \/ (k = m /\ Answers(m, c)[1])
  <2>1. k[1] \in Thread /\ sender(k) \in Process
      BY Parts
  <2>2. reply' = reply \/ reply' = [reply EXCEPT ![sender(m)] =
                                      [to |-> m, ok |-> Answers(m, c)[1]]]
      BY <1>1 DEF process_client_message, send_ack
  <2>3. reply \in [Process -> Reply]
      BY DEF Invariant, TypeOK
  <2> HIDE DEF m
  <2>4. reply'[sender(k)].to = k /\ reply'[sender(k)].ok
           => \/ reply[sender(k)].to = k /\ reply[sender(k)].ok
              \/ k = m /\ Answers(m, c)[1]
      BY <2>1, <2>2, <2>3
  <2> QED BY <1>2, <1>5, <1>7, <2>1, <2>4 DEF Acked, Returned
<1>8. ASSUME NEW k \in Sendable PROVE MaySent(k)' <=> MaySent(k)
    BY <1>2, <1>5, Parts DEF MaySent, Returned
<1>9. ASSUME NEW p \in Worker PROVE Balance(p)'
  <2> DEFINE one == IF m \in AssertsOf(p) THEN 1 ELSE 0
             counted == IF Answers(m, c)[1] /\ m \in AssertsOf(p) THEN 1 ELSE 0
  <2>1. Sent(p)' = Sent(p) /\ Again(p)' = Again(p)
      BY <1>2, <1>8 DEF Sent, Again, AssertsOf
  <2>2. Cardinality(Coming(p)') + one <= Cardinality(Coming(p))
    <3>1. Coming(p)' = {i \in DOMAIN inbox' : inbox'[i] \in AssertsOf(p)}
        BY DEF Coming
    <3> QED BY <1>2, <3>1, ComingTail DEF Coming
  <2>3. Cardinality(Coming(p)') \in Nat /\ Cardinality(Coming(p)) \in Nat
    <3>1. inbox' \in Seq(Sendable)
        BY <1>6 DEF Made
    <3>2. Coming(p)' = {i \in DOMAIN inbox' : inbox'[i] \in AssertsOf(p)}
        BY DEF Coming
    <3> QED BY <1>2, <3>1, <3>2, ComingFinite DEF Coming
  <2>4. /\ Heard(p) \in SUBSET Sendable /\ Heard(p)' \in SUBSET Sendable
        /\ Sent(p) \in SUBSET Sendable /\ Again(p) \in SUBSET Sendable
      BY DEF Heard, Sent, Again, AssertsOf
  <2>5. /\ Cardinality(Heard(p)) \in Nat /\ Cardinality(Heard(p)') \in Nat
        /\ Cardinality(Sent(p)) \in Nat /\ Cardinality(Again(p)) \in Nat
      BY <2>4, Sizes
  <2>6. Cardinality(Heard(p)') <= Cardinality(Heard(p)) + counted
    <3>1. CASE counted = 1
      <4>1. Heard(p)' \subseteq Heard(p) \cup {m}
          BY <1>7 DEF Heard, AssertsOf
      <4> HIDE DEF m
      <4> QED BY <1>3, <2>4, <3>1, <4>1, OneMore
    <3>2. CASE counted # 1
      <4>1. Heard(p)' \subseteq Heard(p)
          BY <1>7, <3>2 DEF Heard, AssertsOf
      <4>2. Cardinality(Heard(p)') <= Cardinality(Heard(p))
          BY <2>4, <4>1, Sizes
      <4> QED BY <2>5, <3>2, <4>2
    <3> QED BY <3>1, <3>2
  <2>7. ctx[p].asserts \in Nat /\ ctx'[p].asserts = ctx[p].asserts + counted
      BY <1>4, ProcessesAssumption DEF Counts, Kept
  <2>8. counted <= one /\ counted \in Nat /\ one \in Nat
      OBVIOUS
  <2>9. Balance(p)
      BY DEF Counts
  <2> HIDE DEF one, counted, m
  <2> QED BY <2>1, <2>2, <2>3, <2>5, <2>6, <2>7, <2>8, <2>9 DEF Balance
<1> QED BY <1>4, <1>6, <1>9 DEF Counts

(* A request that is sent again is once more on its way, and once more     *)
(* among those that were.                                                  *)
LEMMA ResendKeeps ==
    ASSUME Invariant, Counts, NEW q \in Process, Resend(q)
    PROVE  Counts'
<1>1. PICK m \in Sendable : /\ m = request[q] /\ m \notin resent
                            /\ resent' = resent \cup {m}
                            /\ inbox' = Append(inbox, m)
    BY DEF Resend, Counts, Made
<1>2. UNCHANGED <<pc, calls, ack, request, reply, clients, children, ctx>>
    BY DEF Resend, threadVars, serverVars
<1>3. \A u \in Thread : mine(u)' = mine(u)
    BY <1>2 DEF mine
<1>4. Made' /\ Kept'
    BY <1>1, <1>2, <1>3 DEF Counts, Made, Kept
<1>5. \A k \in Sendable : (Acked(k)' <=> Acked(k)) /\ (MaySent(k)' <=> MaySent(k))
    BY <1>2, <1>3, Parts DEF Acked, MaySent, Returned
<1>6. ASSUME NEW p \in Worker PROVE Balance(p)'
  <2>1. Sent(p)' = Sent(p) /\ Heard(p)' = Heard(p)
      BY <1>5 DEF Sent, Heard, AssertsOf
  <2>2. Cardinality(Coming(p)') = Cardinality(Coming(p))
           + (IF m \in AssertsOf(p) THEN 1 ELSE 0)
    <3>1. Coming(p)' = {i \in DOMAIN inbox' : inbox'[i] \in AssertsOf(p)}
        BY DEF Coming
    <3>2. inbox \in Seq(Sendable)
        BY DEF Counts, Made
    <3> QED BY <1>1, <3>1, <3>2, ComingAppend DEF Coming
  <2>3. /\ Again(p) \subseteq Again(p)' /\ Again(p)' \in SUBSET Sendable
        /\ m \in AssertsOf(p) => m \in Again(p)' \ Again(p)
      BY <1>1 DEF Again, AssertsOf
  <2>4. /\ Cardinality(Again(p)) + (IF m \in AssertsOf(p) THEN 1 ELSE 0)
              <= Cardinality(Again(p)')
        /\ Cardinality(Again(p)) \in Nat /\ Cardinality(Again(p)') \in Nat
      BY <2>3, Sizes
  <2>5. Cardinality(Coming(p)) \in Nat /\ Cardinality(Sent(p)) \in Nat
    <3>1. Sent(p) \in SUBSET Sendable
        BY DEF Sent, AssertsOf
    <3> QED BY <3>1, Sizes, ComingFinite DEF Coming, Counts, Made
  <2>6. ctx[p].asserts \in Nat /\ ctx' = ctx
      BY <1>2, ProcessesAssumption DEF Counts, Kept
  <2>7. Balance(p)
      BY DEF Counts
  <2> QED BY <2>1, <2>2, <2>4, <2>5, <2>6, <2>7 DEF Balance
<1> QED BY <1>4, <1>6 DEF Counts

(* A context that is removed takes nothing with it.                        *)
LEMMA QuietKeeps ==
    ASSUME Counts, UNCHANGED <<threadVars, socketVars, ctx, clients, resent>>,
           children' \subseteq children
    PROVE  Counts'
<1>1. UNCHANGED <<pc, calls, ack, request, reply, inbox, ctx, clients, resent>>
    BY DEF threadVars, socketVars
<1>2. Made' /\ Kept'
    BY <1>1 DEF Counts, Made, Kept, mine
<1>3. \A p \in Worker : Balance(p)'
    BY <1>1 DEF Counts, Balance, Heard, Sent, Again, Coming, AssertsOf, Acked,
        MaySent, Returned, mine
<1> QED BY <1>2, <1>3 DEF Counts

LEMMA CountsStep == Invariant /\ Counts /\ [Next]_vars => Counts'
<1> SUFFICES ASSUME Invariant, Counts, [Next]_vars PROVE Counts'
    OBVIOUS
<1>1. ASSUME NEW t \in Thread, Step(t) PROVE Counts'
  <2>1. Sends(t) /\ Made'
      BY <1>1, LockingSends, WriteSends, ReadSends, ReturnSends, UnlockSends,
          AbortSends DEF Step, Counts
  <2>2. Kept'
      BY <2>1 DEF Counts, Kept, Sends, serverVars
  <2>3. \A p \in Worker : Balance(p)'
      BY <2>1, SendsKeeps DEF Counts
  <2> QED BY <2>1, <2>2, <2>3 DEF Counts
<1>2. CASE Serve
    BY <1>2, ServeKeeps
<1>3. ASSUME NEW p \in Process, Resend(p) PROVE Counts'
    BY <1>3, ResendKeeps
<1>4. ASSUME NEW p \in Process, Reap(p) PROVE Counts'
    BY <1>4, QuietKeeps DEF Reap
<1>5. CASE UNCHANGED vars
    BY <1>5, QuietKeeps DEF vars, serverVars
<1> QED BY <1>1, <1>2, <1>3, <1>4, <1>5 DEF Next

LEMMA CountsInit == Init => Counts
<1> SUFFICES ASSUME Init PROVE Counts
    OBVIOUS
<1>1. Made /\ Kept
    BY ThreadsAssumption, ProcessesAssumption DEF Init, Made, Kept
<1>2. ASSUME NEW p \in Worker PROVE Balance(p)
  <2>1. Coming(p) = {}
      BY DEF Init, Coming
  <2>2. Heard(p) = {}
    <3> SUFFICES ASSUME NEW m \in AssertsOf(p), Acked(m) PROVE FALSE
        BY DEF Heard
    <3>1. m \in Sendable
        BY DEF AssertsOf
    <3>2. /\ m[1] \in Thread /\ sender(m) \in Process
          /\ m[2] \in DOMAIN Calls[m[1]] /\ Calls[m[1]] \in Seq(CallRec)
        BY <3>1, Parts, ThreadsAssumption DEF Sendable
    <3>3. m[2] > 0
        BY <3>2
    <3> QED BY <3>2, <3>3 DEF Init, Acked, Returned, NoReply
  <2>3. Sent(p) \in SUBSET Sendable /\ Again(p) \in SUBSET Sendable
      BY DEF Sent, Again, AssertsOf
  <2>4. Cardinality(Sent(p)) \in Nat /\ Cardinality(Again(p)) \in Nat
      BY <2>3, Sizes
  <2>5. ctx[p].asserts = 0
      BY ProcessesAssumption DEF Init
  <2> QED BY <2>1, <2>2, <2>4, <2>5, FS_EmptySet DEF Balance
<1> QED BY <1>1, <1>2 DEF Counts

(* The context of a worker counts every assertion whose call returned, and *)
(* none that was not sent, or more often than it was (handle_assert behind *)
(* process_client_message), however the messages of its threads, of other  *)
(* workers and of external clients mix.                                    *)
THEOREM EveryAssertionCounts == Spec => []Counted
<1>1. Counts => Counted
  <2> SUFFICES ASSUME Counts, NEW p \in Worker
               PROVE  ctx[p].asserts \in Cardinality(Asserts(p, Returned)) ..
                         Cardinality(Asserts(p, MaySent))
                           + Cardinality(Asserts(p, Repeated))
      BY DEF Counted
  <2> DEFINE own == UNION {{<<t, n>> : n \in DOMAIN Calls[t]} : t \in Threads(p)}
  <2>1. AssertsOf(p) = {m \in own : call(m).kind = "ASSERT"}
    <3>1. ASSUME NEW m PROVE m \in own <=> m \in Sendable /\ sender(m) = p
      <4>1. ASSUME m \in own PROVE m \in Sendable /\ sender(m) = p
        <5>1. PICK t \in Threads(p) : m \in {<<t, n>> : n \in DOMAIN Calls[t]}
            BY <4>1
        <5>2. PICK n \in DOMAIN Calls[t] : m = <<t, n>>
            BY <5>1
        <5>3. t \in Thread /\ proc[t] = p
            BY DEF Threads
        <5>4. n \in Nat
            BY <5>3, ThreadsAssumption
        <5> QED BY <5>2, <5>3, <5>4 DEF Sendable, Message, sender
      <4>2. ASSUME m \in Sendable, sender(m) = p PROVE m \in own
        <5>1. m[1] \in Threads(p) /\ m[2] \in DOMAIN Calls[m[1]]
              /\ m = <<m[1], m[2]>>
            BY <4>2, Parts DEF Threads, sender, Sendable
        <5> QED BY <5>1
      <4> QED BY <4>1, <4>2
    <3> HIDE DEF own
    <3> QED BY <3>1 DEF AssertsOf
  <2>2. /\ Asserts(p, Returned) = {m \in AssertsOf(p) : Returned(m)}
        /\ Asserts(p, MaySent) = Sent(p)
        /\ Asserts(p, Repeated) = Again(p)
      BY <2>1 DEF Asserts, Sent, Again, Repeated
  <2> DEFINE returned == {m \in AssertsOf(p) : Returned(m)}
  <2>3. returned \subseteq Heard(p) /\ Heard(p) \in SUBSET Sendable
        /\ Sent(p) \in SUBSET Sendable /\ Again(p) \in SUBSET Sendable
      BY DEF Heard, Acked, AssertsOf, Sent, Again
  <2> HIDE DEF returned
  <2>4. /\ Cardinality(returned) <= Cardinality(Heard(p))
        /\ Cardinality(returned) \in Nat /\ Cardinality(Heard(p)) \in Nat
      BY <2>3, Sizes
  <2>5. Cardinality(Sent(p)) \in Nat /\ Cardinality(Again(p)) \in Nat
        /\ Cardinality(Coming(p)) \in Nat
      BY <2>3, Sizes, ComingFinite DEF Coming, Counts, Made
  <2>6. ctx[p].asserts \in Nat
      BY ProcessesAssumption DEF Counts, Kept
  <2>7. ctx[p].asserts \in Cardinality(returned) ..
                         Cardinality(Sent(p)) + Cardinality(Again(p))
      BY <2>4, <2>5, <2>6 DEF Counts, Balance
  <2> QED BY <2>2, <2>7 DEF returned
<1> QED BY <1>1, CountsInit, CountsStep, OneCallAtATime, PTL DEF Spec
=============================================================================
