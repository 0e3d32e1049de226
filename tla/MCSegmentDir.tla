---------------------------- MODULE MCSegmentDir ----------------------------
(* Small instances of SegmentDir. *)
EXTENDS SegmentDir

\* "c" and "d" begin with the same three bytes.
MCGrams == {"a", "b", "c", "d"}
MCKeyOf == [g \in MCGrams |-> CASE g = "a" -> 1 [] g = "b" -> 2 [] OTHER -> 4]

\* Three documents, so that distances take two digits; the same number of other
\* documents; one document.
MCCorpora ==
  {<<[title |-> {"b", "c"}], [title |-> {"a"}, body |-> {"b"}], [body |-> {"d", "b"}]>>,
   <<[body |-> {"b"}], [title |-> {"b", "d"}], [title |-> {"c", "b"}]>>,
   <<[title |-> {"b", "c"}]>>}

MCQueries ==
  {[grams |-> <<"b", "c">>, field |-> ""], [grams |-> <<"b">>, field |-> "title"],
   [grams |-> <<"a", "b">>, field |-> "body"], [grams |-> <<"d">>, field |-> ""]}
=============================================================================
