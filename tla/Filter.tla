------------------------------- MODULE Filter -------------------------------
(***************************************************************************)
(* disable_unmatching of src/core/runner.c: the pattern is compiled, then  *)
(* every test whose identifier it does not match is disabled.              *)
(***************************************************************************)
EXTENDS Extglob, Brz

CONSTANT Identifiers        \* of the tests that are not disabled otherwise

VARIABLES disabled, filtered

filterVars == <<vars, disabled, filtered>>

FilterInit == Init /\ disabled = {} /\ filtered = FALSE

Compile == Next /\ UNCHANGED <<disabled, filtered>>

\* The loops over suites and tests, and free_pattern.
disable_unmatching ==
    /\ status = "done" /\ ~filtered
    /\ disabled' = {id \in Identifiers : ~matches(frags[1], id)}
    /\ filtered' = TRUE
    /\ UNCHANGED vars

FilterNext == Compile \/ disable_unmatching
FilterSpec == FilterInit /\ [][FilterNext]_filterVars

=============================================================================
