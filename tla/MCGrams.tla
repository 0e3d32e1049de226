------------------------------ MODULE MCGrams ------------------------------
(* Small instances of Grams, with the previews of what is found. *)
EXTENDS Preview

\* "short_i" is the letter whose mark falls away, "no_sign" the one character
\* that NFKC spells out with a capital letter.
MCChars == {"n", "N", "o", "i", "short_i", "no_sign", "*", "?"}
MCLower == [c \in MCChars |-> IF c = "N" THEN "n" ELSE c]
MCFold == [c \in MCChars |-> CASE c = "short_i" -> <<"i">>
                               [] c = "no_sign" -> <<"N", "o">>
                               [] OTHER -> <<c>>]

MCTexts == {<<"n", "o", "i">>, <<"N", "o", "short_i", "n">>, <<"no_sign", "i", "n">>,
            <<"o", "i", "n", "o", "i", "o", "i", "o", "n", "o", "i">>}

\* As in UTF-8.
MCWidth == [c \in MCChars |-> CASE c = "short_i" -> 2 [] c = "no_sign" -> 3 [] OTHER -> 1]

MCLines ==
  {<<<<"title", t>>>> : t \in MCTexts} \cup
  {<<<<"body", <<"o", "i", "n">> >>, <<"title", <<"n", "n", "o", "i">> >> >>,
   <<<<"title", <<"o", "n", "o">> >>, <<"title", <<"n", "o", "i">> >> >>}

\* All short patterns of some letters, and longer ones with grams on both sides
\* of a wildcard; the last three match 6, 8 and 9 characters of the longest text.
MCWildcards ==
  [1..3 -> MCChars \ {"i", "?"}] \cup [1..4 -> {"n", "o", "short_i"}] \cup MCTexts \cup
  {<<"n", "o", "i", "*", "o", "i", "n">>, <<"n", "o", "i", "?", "o", "i", "n">>,
   <<"o", "i", "n", "?", "i">>, <<"n", "?", "o", "i", "n">>, <<"*", "o", "i", "n", "?">>,
   <<"?", "?", "N", "o", "i">>, <<"n", "?", "*", "i">>,
   <<"i", "n", "o", "?", "o", "i">>, <<"i", "n", "o", "*", "n">>, <<"i", "n", "o", "*", "n", "o">>}
MCRequests == [wildcard : MCWildcards, field : {"", "title", "body"}]
=============================================================================
