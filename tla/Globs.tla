------------------------------- MODULE Globs --------------------------------
(***************************************************************************)
(* The constructors of src/string/brz.c.  A glob is a tree: the type, and  *)
(* what the unions of struct stc_glob hold for that type.  Copies are      *)
(* values here, and nothing is freed.                                      *)
(***************************************************************************)
EXTENDS Naturals, Sequences

glob_empty == [type |-> "EMPTY"]
glob_blank == [type |-> "BLANK"]
glob_char(c) == [type |-> "CHAR", c |-> c]
glob_cset(cset) == [type |-> "CHARSET", cset |-> cset]

Unary(type, pattern) == [type |-> type, first |-> pattern]
Binary(type, a, b) == [type |-> type, first |-> a, second |-> b]
IsEmpty(g) == g.type = "EMPTY"
IsBlank(g) == g.type = "BLANK"

glob_or(a, b) == IF IsEmpty(a) THEN b
                 ELSE IF IsEmpty(b) THEN a ELSE Binary("OR", a, b)
glob_and(a, b) == IF IsEmpty(a) \/ IsEmpty(b) THEN glob_empty
                  ELSE Binary("AND", a, b)
glob_seq(a, b) == IF IsEmpty(a) \/ IsEmpty(b) THEN glob_empty
                  ELSE IF IsBlank(a) THEN b ELSE Binary("SEQ", a, b)
glob_star(g) == Unary("STAR", g)
glob_plus(g) == Unary("PLUS", g)
glob_opt(g)  == Unary("OPT", g)
glob_not(g)  == Unary("NOT", g)
glob_at(g)   == IF IsEmpty(g) \/ IsBlank(g) THEN g ELSE Unary("AT", g)
=============================================================================
