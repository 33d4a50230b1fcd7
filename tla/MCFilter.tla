------------------------------ MODULE MCFilter ------------------------------
(* Instances of Filter for TLC: two letters, identifiers of up to three.   *)
EXTENDS FilterProperties

Letters == {"a", "b"}
Words == UNION {[1 .. n -> Letters] : n \in 0 .. 3}

Ascii(c) == CASE c = "a" -> 97 [] c = "b" -> 98 [] c = "c" -> 99

Simple == {Lit("a"), Lit("b"), One, All}
Leaves == Simple \cup
    {Esc("a"), Class(<<"b">>, {"b"}), Class(<<"!", "a">>, {"b"}),
     Class(<<"a", "-", "c">>, {"a", "b"}), Class(<<"c", "-", "b">>, {"b"}),
     Class(<<"a", "-">>, {}), Class(<<"a", "b">>, {"a", "b"}), Class(<<"!">>, {})}
Pairs == {Cat(a, b) : a \in Simple, b \in Simple}

\* Groups of one alternative, and of two where a list means any of them.
Single == {Group(op, <<a>>) : op \in Operators, a \in Simple \cup Pairs}
Double == {Group(op, <<a, b>>) : op \in {"@", "?", "!"}, a \in Simple, b \in Simple}
Groups == Single \cup Double
Small  == {Group(op, <<a>>) : op \in Operators, a \in {Lit("a"), Lit("b"), One}}
          \cup {Group("!", <<Lit("a"), Lit("b")>>)}

Sensible ==
    Leaves \cup {Cat(a, b) : a \in Leaves, b \in Leaves} \cup Groups
    \cup {Cat(a, b) : a \in Groups, b \in Simple}
    \cup {Cat(a, b) : a \in Simple, b \in Groups}
    \cup {Cat(a, b) : a \in Small, b \in Small}
    \cup {Group(op, <<a>>) : op \in Operators, a \in Groups}
    \cup {Group(op, <<a, b>>) : op \in {"@", "!"}, a \in Small, b \in Small \cup Pairs}
    \cup {Group("!", <<a, b, Lit("a")>>) : a \in Small, b \in Small}
    \cup {Cat(Lit("b"), Cat(a, b)) : a \in Small, b \in Small}
    \cup {Group("!", <<Cat(One, Group("*", <<a>>))>>) : a \in Small}

\* Texts put together without care.
Scraps == {<<"@", "(">>, <<")">>, <<"|">>, <<"a">>, <<"*">>, <<"(">>, <<"[">>}
Careless == {FlattenSeq(s) : s \in UNION {[1 .. n -> Scraps] : n \in 0 .. 5}}

Texts == {Text(a) : a \in Sensible} \cup {p \in Careless : \A i \in DOMAIN p :
             p[i] = "[" => i = Len(p)}
=============================================================================
