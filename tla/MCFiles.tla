------------------------------ MODULE MCFiles ------------------------------
(* Instances of MockFile and Redirect for TLC. *)
EXTENDS Redirect

Buffer(s)   == [count |-> Len(s), buf |-> [i \in 0 .. Len(s) - 1 |-> s[i + 1]]]

\* Buffers that fit, that make the region grow twice, and that do not fit.
SomeWrites  == {Buffer(<<>>), Buffer(<<"a">>), Buffer(<<"b", "a", "b">>),
                Buffer(<<"a", "b", "a", "b">>)}
SomeCounts  == {0, 2, 7}
SomeOffsets == {-1, 0, 2}

SomeTexts   == {<<>>, <<"a">>, <<"b", "a", "b">>}
=============================================================================
