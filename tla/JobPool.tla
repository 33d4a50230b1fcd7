------------------------------- MODULE JobPool -------------------------------
(***************************************************************************)
(* What a run of tests promises to whoever started it, without messages,   *)
(* processes or sockets: the jobs are taken in order, at most Workers are  *)
(* unfinished at a time, every job is judged before it is finished - but   *)
(* for those that may be lost -, and the run is complete only when nothing *)
(* is left.                                                                *)
(***************************************************************************)
EXTENDS Naturals, FiniteSets

CONSTANTS Jobs,      \* the jobs to run
          Before,    \* <<j, k>> is in Before: j is to be started before k
          Losable,   \* the jobs that may end without a verdict
          Workers

VARIABLES
    waiting,     \* the jobs not started
    open,        \* started, no verdict yet
    judged,      \* given their verdict, not removed yet
    finished,    \* judged and removed
    lost,        \* removed without a verdict
    result

pool == <<waiting, open, judged, finished, lost, result>>

Init ==
    /\ waiting = Jobs
    /\ open = {} /\ judged = {} /\ finished = {} /\ lost = {}
    /\ result = "open"

Start(j) ==
    /\ result = "open"
    /\ \A k \in waiting : <<k, j>> \notin Before
    /\ Cardinality(open \cup judged) < Workers
    /\ waiting' = waiting \ {j} /\ open' = open \cup {j}
    /\ UNCHANGED <<judged, finished, lost, result>>

Judge(j) ==
    /\ result = "open"
    /\ open' = open \ {j} /\ judged' = judged \cup {j}
    /\ UNCHANGED <<waiting, finished, lost, result>>

Finish(j) ==
    /\ result = "open"
    /\ judged' = judged \ {j} /\ finished' = finished \cup {j}
    /\ UNCHANGED <<waiting, open, lost, result>>

Lose(j) ==
    /\ result = "open" /\ j \in Losable
    /\ open' = open \ {j} /\ lost' = lost \cup {j}
    /\ UNCHANGED <<waiting, judged, finished, result>>

\* Nothing is left to do.
Complete ==
    /\ result = "open" /\ waiting = {} /\ open = {} /\ judged = {}
    /\ result' = "complete"
    /\ UNCHANGED <<waiting, open, judged, finished, lost>>

\* The run is given up, which only a verdict can cause.
Stop ==
    /\ result = "open" /\ judged # {}
    /\ result' = "stopped"
    /\ UNCHANGED <<waiting, open, judged, finished, lost>>

Next == \/ \E j \in waiting : Start(j)
        \/ \E j \in open : Judge(j) \/ Lose(j)
        \/ \E j \in judged : Finish(j)
        \/ Complete \/ Stop

Spec == Init /\ [][Next]_pool
=============================================================================
