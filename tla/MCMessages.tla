----------------------------- MODULE MCMessages -----------------------------
(* Instances of Messages for TLC. *)
EXTENDS MessageProperties

Does(kind, arg)         == [kind |-> kind, arg |-> arg, after |-> {}]
Then(kind, arg, others) == [kind |-> kind, arg |-> arg, after |-> others]

(* A worker whose fixture starts a thread that asserts while the test      *)
(* begins; an external client whose threads do not wait for each other.    *)
SomeProcs   == {"worker", "extern"}
SomeThreads == {"main", "helper", "ext", "other"}
SomeProc == [t \in SomeThreads |-> IF t \in {"main", "helper"} THEN "worker" ELSE "extern"]
SomeCalls == [t \in SomeThreads |->
    CASE t = "main"   -> <<Does("PHASE", CS_SETUP), Does("PHASE", CS_MAIN),
                           Then("PHASE", CS_TEARDOWN, {<<"helper", 1>>})>>
      [] t = "helper" -> <<Then("ASSERT", 0, {<<"main", 1>>})>>
      [] t = "ext"    -> <<Does("BIRTH", 0)>>
      [] t = "other"  -> <<Does("ASSERT", 0)>>]
Versions == [p \in SomeProcs |-> PROTOCOL_V1]
=============================================================================
