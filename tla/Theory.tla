------------------------------- MODULE Theory -------------------------------
(***************************************************************************)
(* src/core/theories.c: how cr_theory_main walks the combinations of the   *)
(* data points of a theory.  points[i] is the number of data points of the *)
(* i-th parameter, indices[i] the one of the current combination.          *)
(***************************************************************************)
EXTENDS Naturals, Sequences

Points == Seq(Nat \ {0})

first_indices(points) == [i \in DOMAIN points |-> 0]

\* A slip: the last data point missed by one.
carried_PastEnd(points, indices) ==
    {i \in DOMAIN points : \A k \in 1 .. i : indices[k] = points[k]}

\* The parameters that are at their last data point, from the first on: the
\* loop resets them, and stops at the first that is not.
carried(points, indices) ==
    {i \in DOMAIN points : \A k \in 1 .. i : indices[k] = points[k] - 1}

\* A slip: the parameters that were carried left where they are.
next_indices_NoReset(points, indices) ==
    [i \in DOMAIN indices |->
        IF \A k \in 1 .. (i - 1) : k \in carried(points, indices)
        THEN IF i \in carried(points, indices) THEN indices[i]
             ELSE indices[i] + 1
        ELSE indices[i]]

next_indices(points, indices) ==
    [i \in DOMAIN indices |->
        IF i \in carried(points, indices) THEN 0
        ELSE IF \A k \in 1 .. (i - 1) : k \in carried(points, indices)
        THEN indices[i] + 1 ELSE indices[i]]

\* The walk ends when the last parameter wraps.
has_next(points, indices) == Len(points) \notin carried(points, indices)

\* Every index points into the data points of its parameter.
InRange(points, indices) ==
    /\ DOMAIN indices = DOMAIN points
    /\ \A i \in DOMAIN points : indices[i] < points[i]
=============================================================================
