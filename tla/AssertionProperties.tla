------------------------ MODULE AssertionProperties ------------------------
(***************************************************************************)
(* What the assertions of a test promise.                                  *)
(***************************************************************************)
EXTENDS Assertions, SequencesExt

\* Every variable holds a value of its kind, and the counters follow what
\* was sent (internal/assert.h, new_asserts.h, core/stats.c).
TypeOK ==
    /\ full_stats \in BOOLEAN /\ i \in 1 .. Len(body) + 1
    /\ pc \in {"main", "stat", "ended", "died"}
    /\ last.holds \in BOOLEAN
    /\ \A n \in DOMAIN last.nodes : last.nodes[n].up \in 0 .. (n - 1)
    /\ passed_asserts \in 0 .. Len(body)
    /\ counted \in [passed : Nat, failed : Nat]
    /\ counted.failed = Len(SelectSeq(told, LAMBDA m : ~m.passed))

----------------------------------------------------------------------------
(* What new/assert.h documents of a criterion.                             *)

\* What each comparison evaluates to, on the equality and the order of its tag:
\* `Actual > Reference', `within Ulp units from each other'...
documented(c, a, b) ==
    LET equal   == isEq(c.tag, a, b)
        less    == isLt(c.tag, a, b)
        greater == isLt(c.tag, b, a)
        near    == a # <<>> /\ b # <<>> /\ a[1] - b[1] \in (-c.n) .. c.n
    IN  CASE c.op = "eq" -> equal
          [] c.op = "ne" -> ~equal
          [] c.op = "lt" -> less
          [] c.op = "le" -> less \/ equal
          [] c.op = "gt" -> greater
          [] c.op = "ge" -> greater \/ equal
          [] c.op \in {"epsilon_eq", "ieee_ulp_eq"} -> near
          [] c.op \in {"epsilon_ne", "ieee_ulp_ne"} -> ~near

\* The operands on which the C expansion is known to depart from it: gt of
\* two that are equal or of a NaN, ge of a NaN, 0 units in the last place
\* between two that are equal.
departs(c, a, b) ==
    \/ c.op = "gt" /\ ~isLt(c.tag, a, b) /\ ~isLt(c.tag, b, a)
    \/ c.op = "ge" /\ c.tag = "native" /\ <<>> \in {a, b}
    \/ c.op \in {"ieee_ulp_eq", "ieee_ulp_ne"} /\ c.n = 0 /\ isEq(c.tag, a, b)

\* What a leaf is worth: an expression that is not 0, a comparison, a
\* comparison of all the elements, an exception.
Worth(c) ==
    IF IsValue(c) THEN c.val # 0
    ELSE IF IsThrow(c) THEN throws(c.op, c.thrown)
    ELSE IF IsArray(c) THEN \A k \in DOMAIN c.elems : documented(c, c.elems[k][1], c.elems[k][2])
    ELSE documented(c, c.vals[1], c.vals[2])

\* The leaves none of whose comparisons departs from its documentation.
Faithful(c) ==
    IF IsValue(c) \/ IsThrow(c) THEN TRUE
    ELSE IF IsArray(c) THEN \A k \in DOMAIN c.elems : ~departs(c, c.elems[k][1], c.elems[k][2])
    ELSE ~departs(c, c.vals[1], c.vals[2])

meaning[n \in 0 .. MaxNesting] ==
    [c \in Criterion[n] |->
        CASE c.op = "not"  -> ~meaning[n - 1][c.arg]
          [] c.op = "all"  -> \A k \in DOMAIN c.args : meaning[n - 1][c.args[k]]
          [] c.op = "none" -> \A k \in DOMAIN c.args : ~meaning[n - 1][c.args[k]]
          [] c.op = "any"  -> \E k \in DOMAIN c.args : meaning[n - 1][c.args[k]]
          [] OTHER         -> Worth(c)]
Meaning(c) == meaning[MaxNesting][c]

\* The criteria whose value the expansion gets right: all and none, of each
\* other and of faithful leaves, not on leaves only and no any.
sound[n \in 0 .. MaxNesting] ==
    [c \in Criterion[n] |->
        CASE c.op = "not" -> ~declares[n - 1][c.arg] /\ sound[n - 1][c.arg]
          [] c.op = "any" -> FALSE
          [] c.op \in {"all", "none"} -> \A k \in DOMAIN c.args : sound[n - 1][c.args[k]]
          [] OTHER -> Faithful(c)]
Sound(c) == sound[MaxNesting][c]

\* A bare expression must be 0 or 1 to be taken for what it is worth.
SoundRoot(c) == Sound(c) /\ (IsValue(c) => c.val \in {0, 1})

\* The ones whose failure it also explains: arrays and exceptions only where
\* no not or none is around them.
explained[n \in 0 .. MaxNesting] ==
    [c \in Criterion[n], plain \in BOOLEAN |->
        CASE c.op = "not" -> explained[n - 1][c.arg, FALSE]
          [] c.op \in Groups -> \A k \in DOMAIN c.args :
                                    explained[n - 1][c.args[k], plain /\ c.op # "none"]
          [] IsArray(c) -> plain
          [] IsThrow(c) -> plain /\ c.op # "anythrow"
          [] OTHER -> TRUE]
Explained(c) == explained[MaxNesting][c, TRUE]

\* The leaves that are to blame for c not being what is wanted, in the order
\* of the text: the comparisons, whose operands the report shows.
blame[n \in 0 .. MaxNesting] ==
    [c \in Criterion[n], want \in BOOLEAN |->
        IF meaning[n][c] = want THEN <<>>
        ELSE CASE c.op = "not"  -> blame[n - 1][c.arg, ~want]
               [] c.op \in {"all", "none"} ->
                     FlattenSeq([k \in DOMAIN c.args |->
                         blame[n - 1][c.args[k], want = (c.op = "all")]])
               [] IsValue(c)    -> <<>>
               [] OTHER         -> <<c>>]
Blame(c) == blame[MaxNesting][c, TRUE]

Done == i > 1 /\ pc # "died"
Now == body[i - 1]
IsCriterion == Done /\ Now.style = "criterion"

\* A criterion made of all, none, and not on a leaf, nested to any depth, holds
\* when new/assert.h says it does, as long as no comparison in it departs: the
\* shared cri_cond_expect is back in place, the conditions of inner groups reach
\* the outer ones, and what is made of eq and lt is the operator asked for.
GroupsMean ==
    IsCriterion /\ SoundRoot(Now.criterion)
        => (last.holds <=> Meaning(Now.criterion))

\* A failed assertion shows the comparisons that are to blame, all of them and
\* no other, through any nesting of none and not (cri_assert_node_negate).
BlamesTheGuilty ==
    IsCriterion /\ SoundRoot(Now.criterion) /\ Explained(Now.criterion) /\ ~last.holds
        => told[Len(told)].results = Blame(Now.criterion)

\* cri_assert_node_send writes no more results than it made room for, whatever
\* the criterion (leaf_count, collect_leaves).
ResultsFit ==
    IsCriterion => Len(collect_leaves(last.nodes)) <= leaf_count(last.nodes)

----------------------------------------------------------------------------
(* The macros of internal/assert.h.                                        *)

Opposite == [op \in Ops |->
    CASE op = "==" -> "!=" [] op = "!=" -> "==" [] op = "<" -> ">="
      [] op = ">=" -> "<"  [] op = ">" -> "<="  [] op = "<=" -> ">"]

\* Of an assertion and its opposite exactly one holds, on numbers, strings,
\* memory and arrays; on NULL strings neither holds, and on NaN neither does but !=.
OneOfOpposites ==
    Done /\ Now.style = "legacy" /\ Now.family # "null" =>
        LET other == legacy_holds([Now EXCEPT !.op = Opposite[@]])
        IN  IF Now.a # <<>> /\ Now.b # <<>> THEN last.holds # other
            ELSE last.holds <=> Now.family = "op" /\ Now.op = "!="

\* The same of the tagged criteria: of eq and ne, epsilon_eq and epsilon_ne,
\* ieee_ulp_eq and ieee_ulp_ne exactly one holds on any operands, of lt and ge
\* on any but NaN, of gt and le on any but NaN and equal ones; the ones of
\* equality do not see which operand comes first; and of two strings, blocks
\* or numbers one is less, or they are equal.
Orders == {"lt", "le", "gt", "ge"}
TagOpposite == [eq |-> "ne", ne |-> "eq", lt |-> "ge", ge |-> "lt", gt |-> "le", le |-> "gt",
    epsilon_eq |-> "epsilon_ne", epsilon_ne |-> "epsilon_eq",
    ieee_ulp_eq |-> "ieee_ulp_ne", ieee_ulp_ne |-> "ieee_ulp_eq"]
TagsAgree ==
    IsCriterion /\ "vals" \in DOMAIN Now.criterion =>
        LET c == Now.criterion
            a == c.vals[1]
            b == c.vals[2]
            is(op, x, y) == tagged([c EXCEPT !.op = op], x, y)
            ranked == c.tag = "native" => a # <<>> /\ b # <<>>
        IN  /\ (c.op \in Orders => ranked) /\ (c.op \in {"gt", "le"} => ~is("eq", a, b)) =>
                last.holds # is(TagOpposite[c.op], a, b)
            /\ c.op \notin Orders => (last.holds <=> is(c.op, b, a))
            /\ ranked => Cardinality({k \in 1 .. 3 :
                    <<is("lt", a, b), is("lt", b, a), is("eq", a, b)>>[k]}) = 1

----------------------------------------------------------------------------
\* What an assertion should come to, by its documentation.
Expected(x) ==
    CASE x.style = "legacy"    -> legacy_holds(x)
      [] x.style = "criterion" -> Meaning(x.criterion)
      [] x.style = "fail"      -> FALSE
      [] x.style = "throw"     -> CASE x.op = "throw"     -> x.thrown = "expected"
                                    [] x.op = "any_throw" -> x.thrown # "nothing"
                                    [] OTHER              -> x.thrown = "nothing"

\* The assertions of the body that run: up to the first fatal one that fails.
Ran == {k \in DOMAIN body :
            \A j \in 1 .. (k - 1) : body[j].fatal => Expected(body[j])}

\* When the test ends, the runner holds one failure for each assertion that ran
\* and does not hold, and one success for each macro of internal/assert.h that
\* holds, with --full-stats or without (test.c:101, client.c:585, stats.c:215).
Tally ==
    pc = "ended" /\ (\A k \in DOMAIN body : body[k].style = "criterion"
                                                => SoundRoot(body[k].criterion)) =>
        /\ counted.failed = Cardinality({k \in Ran : ~Expected(body[k])})
        /\ counted.passed = Cardinality({k \in Ran : body[k].style = "legacy"
                                                     /\ Expected(body[k])})

----------------------------------------------------------------------------
\* new/assert.h:162: `Evaluates to true if any of its arguments is true', of
\* values and comparisons that are not in question themselves.
AnyMeans ==
    IsCriterion /\ Now.criterion.op = "any"
        /\ (\A k \in DOMAIN Now.criterion.args :
                LET c == Now.criterion.args[k] IN IsLeaf(c) /\ ~IsThrow(c) /\ Sound(c))
        => (last.holds <=> Meaning(Now.criterion))
=============================================================================
