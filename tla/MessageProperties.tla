------------------------- MODULE MessageProperties -------------------------
(* What the threads that share a socket, and the runner, rely on. *)
EXTENDS Messages

(* A thread reads the answer to its own message, although the threads of   *)
(* its process share one socket (cr_send_to_runner, under a mutex that     *)
(* whoever comes first initialises).                                       *)
AckIsMine == \A t \in Thread : pc[t] \in {"unlock", "check"} => ack[t].to = mine(t)

(* The context of a worker counts the assertions of all its threads: those *)
(* whose call has returned, and none that was not sent, or more often than *)
(* it was sent (handle_assert behind process_client_message).              *)
Asserts(p, within(_)) ==
    {m \in UNION {{<<t, n>> : n \in DOMAIN Calls[t]} : t \in Threads(p)} :
        call(m).kind = "ASSERT" /\ within(m)}
Returned(m)  == m[2] <= calls[m[1]]
MaySent(m)   == \/ Returned(m)
                \/ m = mine(m[1]) /\ pc[m[1]] \in {"read", "unlock", "check", "dead"}
Repeated(m)  == m \in resent
Counted ==
    \A p \in Worker :
        ctx[p].asserts \in Cardinality(Asserts(p, Returned)) ..
            Cardinality(Asserts(p, MaySent)) + Cardinality(Asserts(p, Repeated))

(* Every thread that waits for an answer gets one, so that all of them     *)
(* come to the end of their calls, or of their process                     *)
(* (process_client_message answers each message once, whoever sent it and  *)
(* whatever it is, and nobody keeps a mutex).                              *)
Served == <>(\A p \in Process : Over(p))
=============================================================================
