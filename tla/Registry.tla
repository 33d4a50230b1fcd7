------------------------------ MODULE Registry ------------------------------
(***************************************************************************)
(* Registration: the ordered sets of src/core/ordered-set.c, and how       *)
(* criterion_init of src/core/runner.c fills them from the sections that   *)
(* the linker made of the suites and tests of a program.                   *)
(*                                                                         *)
(* A list is a sequence of records with a name; names are numbers, in the  *)
(* order that strcmp gives them.                                           *)
(***************************************************************************)
EXTENDS Naturals, Sequences

\* The entries of the sections, in which data and disabled are the part of
\* the options of a suite or a test that registration looks at.
Data      == [declared : BOOLEAN, disabled : BOOLEAN]
SuiteDecl == [name : Nat, data : Data]
TestDecl  == [name : Nat, category : Nat, disabled : BOOLEAN]
\* A suite nothing was declared of: data is NULL.
NoData == [declared |-> FALSE, disabled |-> FALSE]
\* What pads a section, or has an empty name.
Pad == [name |-> 0, category |-> 0]

----------------------------------------------------------------------------
(* src/core/ordered-set.c                                                  *)

\* Where the loop of insert_ordered_set stops.
place(list, name) ==
    CHOOSE i \in 1 .. Len(list) + 1 :
        /\ \A k \in 1 .. i - 1 : list[k].name < name
        /\ i <= Len(list) => name <= list[i].name

has(list, name) == \E i \in DOMAIN list : list[i].name = name

\* A slip: a name that is taken inserted again.
insert_ordered_set_Again(list, x) ==
    LET i == place(list, x.name)
    IN  SubSeq(list, 1, i - 1) \o <<x>> \o SubSeq(list, i, Len(list))

\* The element of a name that is taken stays the one it was.
insert_ordered_set(list, x) ==
    LET i == place(list, x.name)
    IN  IF has(list, x.name) THEN list
        ELSE SubSeq(list, 1, i - 1) \o <<x>> \o SubSeq(list, i, Len(list))

----------------------------------------------------------------------------
(* src/core/runner.c                                                       *)

Suite(name, data) == [name |-> name, data |-> data, tests |-> <<>>]

EmptySet == [suites |-> <<>>, tests |-> 0]

\* One turn of the loop over the suites: s was declared with TestSuite.
register_suite(set, s) ==
    IF s.name = Pad.name THEN set
    ELSE [set EXCEPT !.suites = insert_ordered_set(@, Suite(s.name, s.data))]

\* The count moves for a test that is dropped as well.
criterion_register_test(set, t) ==
    LET suites == insert_ordered_set(set.suites, Suite(t.category, NoData))
        s      == place(suites, t.category)
    IN  [suites |-> [suites EXCEPT ![s].tests = insert_ordered_set(@, t)],
         tests  |-> set.tests + 1]

\* One turn of the loop over the tests.
register_test(set, t) ==
    IF t.name = Pad.name \/ t.category = Pad.category THEN set
    ELSE criterion_register_test(set, t)

----------------------------------------------------------------------------
(* disable_unmatching, for a pattern that compiled: selects says which     *)
(* tests it matches (module Filter).                                       *)

\* A slip: a test that was disabled enabled when the pattern matches it.
disable_unmatching_Enable(set, selects) ==
    [set EXCEPT !.suites = [i \in DOMAIN @ |->
        [@[i] EXCEPT !.tests = [k \in DOMAIN @ |->
            [@[k] EXCEPT !.disabled =
                <<set.suites[i].name, set.suites[i].tests[k].name>>
                        \notin selects]]]]]

disable_unmatching(set, selects) ==
    LET matched(s, t) ==
            [t EXCEPT !.disabled = @ \/ <<s.name, t.name>> \notin selects]
        filtered(s) ==
            IF s.data.disabled THEN s
            ELSE [s EXCEPT !.tests = [k \in DOMAIN s.tests |-> matched(s, s.tests[k])]]
    IN  [set EXCEPT !.suites =
            [i \in DOMAIN set.suites |-> filtered(set.suites[i])]]

is_disabled(suite, t) == suite.data.disabled \/ t.disabled
=============================================================================
