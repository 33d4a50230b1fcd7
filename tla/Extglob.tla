------------------------------ MODULE Extglob -------------------------------
(***************************************************************************)
(* compile of src/string/extglobmatch.c: the text of a pattern is read     *)
(* from left to right into a stack of fragments.  Each turn of the loop is *)
(* one action, chosen by the character that is read.                       *)
(***************************************************************************)
EXTENDS Globs, SequencesExt

CONSTANTS Patterns,     \* the texts: sequences of characters
          ARRAY_SIZE    \* the groups that may be open at a time

\* A text that ends in a backslash makes the loop read past its end.
ASSUME PatternsAssumption ==
    /\ \A p \in Patterns : /\ p \in Seq(STRING)
                           /\ p = <<>> \/ p[Len(p)] # "\\"
    /\ ARRAY_SIZE \in Nat \ {0}

VARIABLES
    pattern,
    at,         \* the place of the next character
    frags,      \* the stack of fragments
    paren,      \* the open groups: operator, and the counters around it
    alter,      \* the alternatives of this group that are complete
    atoms,      \* the fragments of this alternative, at the top of the stack
    status

vars == <<pattern, at, frags, paren, alter, atoms, status>>

Operators == {"!", "?", "@", "*", "+"}

Init ==
    /\ pattern \in Patterns
    /\ at = 1
    /\ frags = <<>> /\ paren = <<>>
    /\ alter = 0 /\ atoms = 0
    /\ status = "reading"

----------------------------------------------------------------------------
two_globs(type, a, b) == CASE type = "SEQ" -> glob_seq(a, b)
                           [] type = "OR"  -> glob_or(a, b)
                           [] type = "AND" -> glob_and(a, b)

folded(type, top) ==
    LET join(a, b) == two_globs(type, a, b)
    IN  FoldRight(join, Front(top), Last(top))

\* The top n fragments joined into one, the last two first.
merge_top(type, f, n) ==
    Append(SubSeq(f, 1, Len(f) - n),
           folded(type, SubSeq(f, Len(f) - n + 1, Len(f))))

cat_all(f, n) == IF n > 1 THEN merge_top("SEQ", f, n) ELSE f

\* cat_one: room for one more fragment, and how many there are then.
cat_one(f, n) == IF n > 1 THEN merge_top("SEQ", f, 2) ELSE f
room(n) == IF n > 1 THEN n - 1 ELSE n

handle_operator(op, g) ==
    CASE op = "!" -> glob_not(g)
      [] op = "*" -> glob_star(g)
      [] op = "+" -> glob_plus(g)
      [] op = "@" -> glob_at(g)
      [] op = "?" -> glob_opt(g)

\* An alternative that is complete: one fragment, under the operator.
alternative(f, n, op) ==
    LET whole == cat_all(f, n)
    IN  Append(Front(whole), handle_operator(op, Last(whole)))

----------------------------------------------------------------------------
Reading(c) == status = "reading" /\ at <= Len(pattern) /\ pattern[at] = c
Before(c)  == at < Len(pattern) /\ pattern[at + 1] = c

\* An operator right before a parenthesis opens a group.
Opens == at <= Len(pattern) /\ pattern[at] \in Operators /\ Before("(")

Fail ==
    /\ status' = "error"
    /\ UNCHANGED <<pattern, at, frags, paren, alter, atoms>>

OpenGroup ==
    /\ status = "reading" /\ Opens /\ Len(paren) < ARRAY_SIZE
    /\ frags' = cat_one(frags, atoms)
    /\ paren' = Append(paren, [op |-> pattern[at], alter |-> alter,
                               atoms |-> room(atoms)])
    /\ alter' = 0 /\ atoms' = 0
    /\ at' = at + 2
    /\ UNCHANGED <<pattern, status>>

TooManyGroups == status = "reading" /\ Opens /\ Len(paren) >= ARRAY_SIZE /\ Fail

StrayParen == Reading("(") /\ Fail

\* A slip: the alternatives of a negation joined as those of the others.
joined_AnyOf(op, f, n) == merge_top("OR", f, n)

\* The alternatives of a group: all of them refused, or one of them taken.
joined(op, f, n) == merge_top(IF op = "!" THEN "AND" ELSE "OR", f, n)

\* A slip: the counter of the group around this one not restored.
CloseGroup_Alter ==
    /\ Reading(")") /\ paren # <<>> /\ atoms > 0
    /\ LET pa == Last(paren)
       IN  /\ frags' = joined(pa.op, alternative(frags, atoms, pa.op), alter + 1)
           /\ atoms' = pa.atoms + 1
           /\ alter' = 0
    /\ paren' = Front(paren)
    /\ at' = at + 1
    /\ UNCHANGED <<pattern, status>>

CloseGroup ==
    /\ Reading(")") /\ paren # <<>> /\ atoms > 0
    /\ LET pa == Last(paren)
       IN  /\ frags' = joined(pa.op, alternative(frags, atoms, pa.op), alter + 1)
           /\ atoms' = pa.atoms + 1
           /\ alter' = pa.alter
    /\ paren' = Front(paren)
    /\ at' = at + 1
    /\ UNCHANGED <<pattern, status>>

StrayClose == Reading(")") /\ (paren = <<>> \/ atoms = 0) /\ Fail

\* strchr: the places of the closing brackets after the opening one.
Ends == {i \in at + 1 .. Len(pattern) : pattern[i] = "]"}
First(I) == CHOOSE i \in I : \A k \in I : i <= k

CharacterClass ==
    /\ Reading("[") /\ Ends # {}
    /\ frags' = Append(cat_one(frags, atoms),
                       glob_cset(SubSeq(pattern, at + 1, First(Ends) - 1)))
    /\ atoms' = room(atoms) + 1
    /\ at' = First(Ends) + 1
    /\ UNCHANGED <<pattern, paren, alter, status>>

StrayBracket == Reading("[") /\ Ends = {} /\ Fail

\* A slip: an alternative without a fragment not seen.
Bar_Empty ==
    /\ Reading("|") /\ paren # <<>>
    /\ frags' = IF atoms = 0 THEN frags
                ELSE alternative(frags, atoms, Last(paren).op)
    /\ alter' = IF atoms = 0 THEN alter ELSE alter + 1
    /\ atoms' = 0
    /\ at' = at + 1
    /\ UNCHANGED <<pattern, paren, status>>

Bar ==
    /\ Reading("|") /\ paren # <<>> /\ atoms > 0
    /\ frags' = alternative(frags, atoms, Last(paren).op)
    /\ alter' = alter + 1
    /\ atoms' = 0
    /\ at' = at + 1
    /\ UNCHANGED <<pattern, paren, status>>

StrayBar == Reading("|") /\ (paren = <<>> \/ atoms = 0) /\ Fail

Literal(c, width) ==
    /\ frags' = Append(cat_one(frags, atoms), glob_char(c))
    /\ atoms' = room(atoms) + 1
    /\ at' = at + width
    /\ UNCHANGED <<pattern, paren, alter, status>>

Escaped == Reading("\\") /\ Literal(pattern[at + 1], 2)

Character ==
    /\ status = "reading" /\ at <= Len(pattern) /\ ~Opens
    /\ pattern[at] \notin {"(", ")", "[", "|", "\\"}
    /\ Literal(pattern[at], 1)

\* The end of the text; an empty one leaves no fragment, and no pattern.
Finish ==
    /\ status = "reading" /\ at > Len(pattern) /\ paren = <<>>
    /\ frags' = cat_all(frags, atoms)
    /\ status' = IF frags = <<>> THEN "error" ELSE "done"
    /\ UNCHANGED <<pattern, at, paren, alter, atoms>>

Unclosed == status = "reading" /\ at > Len(pattern) /\ paren # <<>> /\ Fail

Next ==
    \/ OpenGroup \/ TooManyGroups \/ StrayParen
    \/ CloseGroup \/ StrayClose
    \/ CharacterClass \/ StrayBracket
    \/ Bar \/ StrayBar
    \/ Escaped \/ Character
    \/ Finish \/ Unclosed

Spec == Init /\ [][Next]_vars

----------------------------------------------------------------------------
(* The fragments on the stack are the ones the counters speak of: those of *)
(* the alternative that is read, the complete alternatives of its group,   *)
(* and the same of every group around it, base[i] of them below group i.   *)
(* A complete pattern has left one fragment, the one compile returns (the  *)
(* counters that compile saves at each parenthesis and restores).          *)
FragmentsAccounted ==
    /\ status = "reading" =>
          \E base \in [1 .. Len(paren) + 1 -> 0 .. Len(frags)] :
              /\ base[1] = 0
              /\ \A i \in 1 .. Len(paren) :
                    base[i + 1] = base[i] + paren[i].alter + paren[i].atoms
              /\ Len(frags) = base[Len(paren) + 1] + alter + atoms
    /\ status = "done" => Len(frags) = 1
=============================================================================
