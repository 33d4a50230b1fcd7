-------------------------------- MODULE Brz ---------------------------------
(***************************************************************************)
(* Matching in src/string/brz.c: the derivative of a glob by a character   *)
(* matches what follows that character, and a string matches when the      *)
(* glob that is left accepts nothing more.                                 *)
(***************************************************************************)
EXTENDS Globs

CONSTANT Code(_)        \* the place of a character in the character set

----------------------------------------------------------------------------
(* Character classes.  The text is cut at the first closing bracket, so    *)
(* that none is left in it.                                                *)

Between(c, a, b) == \/ Code(a) <= Code(c) /\ Code(c) <= Code(b)
                    \/ Code(b) <= Code(c) /\ Code(c) <= Code(a)

\* The spans of a class, each a character or a range, tried in order.
RECURSIVE span(_, _)
span(class, c) ==
    IF class = <<>> THEN "none"
    ELSE LET range == Len(class) > 1 /\ class[2] = "-"
         IN  IF range /\ Len(class) = 2 THEN "malformed"
             ELSE IF Between(c, class[1], IF range THEN class[3] ELSE class[1])
             THEN "match"
             ELSE span(SubSeq(class, IF range THEN 4 ELSE 2, Len(class)), c)

derive_cset(cset, c) ==
    LET inverted == cset # <<>> /\ cset[1] = "!"
        class    == IF inverted THEN Tail(cset) ELSE cset
        found    == IF class = <<>> THEN "malformed" ELSE span(class, c)
    IN  IF found = (IF inverted THEN "none" ELSE "match")
        THEN glob_blank ELSE glob_empty

derive_char(g, c) == IF g.c \in {c, "?"} THEN glob_blank
                     ELSE IF g.c = "*" THEN g ELSE glob_empty

----------------------------------------------------------------------------
RECURSIVE nullable(_)
nullable(g) ==
    CASE g.type \in {"EMPTY", "CHARSET"}       -> FALSE
      [] g.type \in {"BLANK", "STAR", "OPT"}   -> TRUE
      [] g.type = "CHAR"                       -> g.c \in {"?", "*"}
      [] g.type = "OR"                         -> nullable(g.first) \/ nullable(g.second)
      [] g.type \in {"SEQ", "AND"}             -> nullable(g.first) /\ nullable(g.second)
      [] g.type \in {"PLUS", "AT"}             -> nullable(g.first)
      [] g.type = "NOT"                        -> ~nullable(g.first)

RECURSIVE derive(_, _)
derive(g, c) ==
    LET d(h) == derive(h, c)
    IN  CASE g.type \in {"EMPTY", "BLANK"} -> glob_empty
          [] g.type = "CHAR"               -> derive_char(g, c)
          [] g.type = "CHARSET"            -> derive_cset(g.cset, c)
          [] g.type = "OR"                 -> glob_or(d(g.first), d(g.second))
          [] g.type = "AND"                -> glob_and(d(g.first), d(g.second))
          [] g.type = "SEQ"                ->
                LET rest == glob_seq(d(g.first), g.second)
                IN  IF nullable(g.first) THEN glob_or(rest, d(g.second)) ELSE rest
          [] g.type \in {"STAR", "PLUS"}   -> glob_seq(d(g.first), glob_star(g.first))
          [] g.type \in {"AT", "OPT"}      -> glob_at(d(g.first))
          [] g.type = "NOT"                -> glob_not(d(g.first))

RECURSIVE matches(_, _)
matches(g, string) == IF string = <<>> THEN nullable(g)
                      ELSE matches(derive(g, Head(string)), Tail(string))
=============================================================================
