-------------------------- MODULE FilterProperties --------------------------
(***************************************************************************)
(* What a filter pattern means, from the table of doc/env.rst and the      *)
(* examples of test/cram/pattern.t, and that compile and match agree.      *)
(*                                                                         *)
(* The meaning of a pattern is the set of the identifiers it matches.      *)
(* Identifiers holds every part of each of its members, so that the parts  *)
(* of a match are found in it.                                             *)
(***************************************************************************)
EXTENDS Filter, FiniteSetsExt

\* Patterns as they are thought of, and their text.
Lit(c)       == [form |-> "literal", c |-> c]
Esc(c)       == [form |-> "escaped", c |-> c]
One          == [form |-> "one"]
All          == [form |-> "all"]
Class(t, C)  == [form |-> "class", text |-> t, chars |-> C]
Cat(a, b)    == [form |-> "sequence", first |-> a, second |-> b]
Group(op, l) == [form |-> "group", op |-> op, list |-> l]

RECURSIVE Text(_)
Text(a) ==
    CASE a.form = "literal"  -> <<a.c>>
      [] a.form = "escaped"  -> <<"\\", a.c>>
      [] a.form = "one"      -> <<"?">>
      [] a.form = "all"      -> <<"*">>
      [] a.form = "class"    -> <<"[">> \o a.text \o <<"]">>
      [] a.form = "sequence" -> Text(a.first) \o Text(a.second)
      [] a.form = "group"    ->
            <<a.op, "(">> \o FoldLeft(LAMBDA t, b : t \o <<"|">> \o Text(b),
                                      Text(a.list[1]), Tail(a.list)) \o <<")">>

\* Sets of identifiers.
Concat(A, B) == {s \o t : s \in A, t \in B} \cap Identifiers
Longest == Max({Len(s) : s \in Identifiers})
Repeated(A) == FoldLeft(LAMBDA B, n : B \cup Concat(A, B), {<<>>},
                        [n \in 1 .. Longest |-> n])

\* "?" may match nothing (test/cram/pattern.t: misc/passing? runs passing).
RECURSIVE Meaning(_)
Meaning(a) ==
    CASE a.form \in {"literal", "escaped"} -> {<<a.c>>}
      [] a.form = "one"      -> {s \in Identifiers : Len(s) <= 1}
      [] a.form = "all"      -> Identifiers
      [] a.form = "class"    -> {s \in Identifiers : Len(s) = 1 /\ s[1] \in a.chars}
      [] a.form = "sequence" -> Concat(Meaning(a.first), Meaning(a.second))
      [] a.form = "group"    ->
            LET any == UNION {Meaning(a.list[i]) : i \in DOMAIN a.list}
            IN  CASE a.op = "@" -> any
                  [] a.op = "?" -> any \cup {<<>>}
                  [] a.op = "*" -> Repeated(any)
                  [] a.op = "+" -> Concat(any, Repeated(any))
                  [] a.op = "!" -> Identifiers \ any

CONSTANT Known      \* the patterns whose meaning is compared
Dictionary == {<<Text(a), a>> : a \in Known}

----------------------------------------------------------------------------
(* A text is a pattern when its groups are opened by an operator and       *)
(* closed, brackets too, bars are in groups, and no alternative is empty.  *)
Depth(p, i) == Quantify(1 .. i, LAMBDA k : p[k] = "(")
               - Quantify(1 .. i, LAMBDA k : p[k] = ")")
WellFormed(p) ==
    /\ p # <<>> /\ Depth(p, Len(p)) = 0
    /\ \A i \in DOMAIN p :
          /\ Depth(p, i) >= 0
          /\ p[i] = "(" => i > 1 /\ p[i - 1] \in Operators
          /\ p[i] = "|" => Depth(p, i) > 0
          /\ p[i] = "[" => \E k \in i + 1 .. Len(p) : p[k] = "]"
          /\ p[i] \in {"|", ")"} => i > 1 /\ p[i - 1] \notin {"(", "|"}

(* compile refuses exactly the malformed texts, and those that nest too    *)
(* many groups: the guards of its cases look at the last character and two *)
(* counters, never at the whole text.                                      *)
RejectsMalformed ==
    status # "reading" =>
        (status = "done" <=> /\ WellFormed(pattern)
                             /\ \A i \in DOMAIN pattern :
                                   Depth(pattern, i) <= ARRAY_SIZE)

(* The tests left enabled are those whose identifier the documented        *)
(* meaning of the pattern holds (the stack of compile, the joining of the  *)
(* alternatives, and every derivative of brz.c).                           *)
FilterMeaning ==
    filtered => \A d \in Dictionary :
        d[1] = pattern => disabled = Identifiers \ Meaning(d[2])
=============================================================================
