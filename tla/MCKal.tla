------------------------------- MODULE MCKal ---------------------------------
(***************************************************************************)
(* Two commands, and a sequence of tokens that need not make sense.        *)
(***************************************************************************)
EXTENDS Kal

Sizes == [n \in {"f", "g", "!"} |-> CASE n = "f" -> 0 [] n = "g" -> 2 [] n = "!" -> 1]
Values == [n \in Number |-> IF n = "200" THEN 200 ELSE IF n = "15" THEN 15 ELSE 1]

Operators == {"=", "<", "+", "*", ":"}
Chains ==
  {<<"a", o, "b", p, "1", q, "a">> : o, p, q \in Operators}
  \cup {<<"(", "a", o, "b", ")", p, "!", "a", o, "(", "b", ")">> : o, p \in Operators}

Leaves == {<<"a">>, <<"b">>, <<"f", "(", ")">>, <<"a", "=", "1">>}
Shapes(x, y, z) ==
  {<<"if">> \o x \o <<"then">> \o y \o <<"else">> \o z,
   <<"(", "if">> \o x \o <<"then">> \o y \o <<"else">> \o z \o <<")", "+">> \o x,
   <<"for", "a", "=">> \o x \o <<",">> \o y \o <<"in">> \o z,
   <<"(", "for", "b", "=">> \o x \o <<",">> \o y \o <<",">> \o z \o <<"in">> \o x \o <<")", "<">> \o x,
   <<"(", "var", "a", "=">> \o x \o <<",", "b", "in">> \o y \o <<")", "*">> \o z,
   <<"(", "var", "b", "=">> \o x \o <<",", "a", "=">> \o y \o <<"in">> \o z \o <<")", "*">> \o x,
   <<"g", "(">> \o x \o <<",">> \o y \o <<")">>}
Simple == UNION {Shapes(x, y, z) : x, y, z \in Leaves}
Few == UNION {Shapes(<<"b">>, x, <<"a">>) : x \in Leaves}
Nested == UNION {Shapes(x, y, <<"a">>) : x \in Few, y \in {<<"b">>} \cup Few}

Heads == {<<"def", "f", "(", "a", "b", ")">>, <<"def", "f", "(", "a", ")">>,
          <<"def", "binary", ":", "15", "(", "a", "b", ")">>,
          <<"def", "binary", "+", "200", "(", "a", "b", ")">>,
          <<"def", "binary", "<", "(", "a", "b", ")">>,
          <<"def", "unary", "!", "(", "a", ")">>,
          <<"extern", "f", "(", "a", ")">>, <<"extern", "unary", "b">>, <<>>}

Word == {"a", "1", "(", ")", "+", ";", "def", "extern", "binary", "if", "then", "in", "var", "="}
Nonsense == UNION {[1 .. n -> Word] : n \in 1 .. 3}

Typed ==
  {h \o e : h \in Heads, e \in Simple}
  \cup {h \o e : h \in {<<"def", "f", "(", "a", "b", ")">>, <<"def", "f", "(", "b", ")">>}, e \in Nested}
  \cup {g \o d \o <<";">> \o h \o e : g \in {<<"def", "binary", ":", "15", "(", "a", "b", ")">>,
                                          <<"def", "binary", "<", "(", "a", "b", ")">>},
                                    d \in {<<"a">>, <<"b", "+", "g", "(", "a", ")">>},
                                    h \in {<<>>, <<"def", "f", "(", "a", "b", ")">>},
                                    e \in Chains}
  \cup {h \o n \o <<"b">> : h \in {<<>>, <<"def", "f", "(", "b", ")">>, <<"def">>}, n \in Nonsense}

(* A variable declared twice in a list.                                    *)
Twice == {<<"def", "f", "(", "a", ")", "(", "var", "a", "=", "1", ",", "a", "=", "a", "in">>
            \o x \o <<")", "+">> \o y : x, y \in Leaves}
All == Typed \cup Twice
=============================================================================
