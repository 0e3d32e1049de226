------------------------------- MODULE Preview -------------------------------
(***************************************************************************)
(* The line of text shown for a hit (common/preview.rs).  The broker cuts   *)
(* it around the match in the field that matched and puts the match in      *)
(* brackets (storage_adapter.rs); gzctl looks for the longest literal of    *)
(* the wildcard in a field of its own choice (gzctl/src/main.rs); the hot   *)
(* window shows the beginning of that field (search/mod.rs).                *)
(* Positions are characters: the byte positions of the code are borders of  *)
(* characters, since a stored text is lower-case but for the letters NFKC   *)
(* brings in, whose case mapping keeps their width.                         *)
(***************************************************************************)
EXTENDS Grams

CONSTANTS
  Width,    \* the bytes of a character
  MaxLen    \* max_len of every caller, 180 in the code

Open == "["
Close == "]"
Dots == "..."
Marks == {Open, Close, Dots}

\* Marks are told from text: what a text with brackets of its own looks like is
\* not modelled.
ASSUME PreviewAssumption ==
  /\ Width \in [Chars -> Nat \ {0}] /\ MaxLen \in Nat \ {0}
  /\ Marks \cap Chars = {}

Monus(a, b) == IF a < b THEN 0 ELSE a - b
When(condition, char) == IF condition THEN <<char>> ELSE << >>

\* Spans are <<from, to>>, from 0, the end not included.
Slice(t, span) == SubSeq(t, span[1] + 1, span[2])
Spans(t) == {s \in (0..Len(t)) \X (0..Len(t)) : s[1] < s[2]}
-----------------------------------------------------------------------------
(* Layout *)

\* ensure_max_chars.
Cut(s, max) == IF Len(s) <= max THEN s ELSE Append(SubSeq(s, 1, max), Dots)

TruncateBare(t, max) ==   \* mutant: nothing tells of the cut
  IF Len(t) <= max THEN t ELSE SubSeq(t, 1, max)

\* truncate_chars_with_ellipsis.
Truncate(t, max) == IF max = 0 THEN << >> ELSE Cut(t, max)

\* The part of the text that is shown.
Context(t, m, max) ==
  LET room == Monus(max, (m[2] - m[1]) + 2) \div 2
      end == m[2] + room
  IN  <<Monus(m[1], room), IF end < Len(t) THEN end ELSE Len(t)>>

SnippetTight(t, m, max) ==   \* mutant: no room for the marks
  LET shown == Context(t, m, max)
  IN  Cut(When(shown[1] > 0, Dots) \o Slice(t, <<shown[1], m[1]>>)
          \o <<Open>> \o Slice(t, m) \o <<Close>>
          \o Slice(t, <<m[2], shown[2]>>) \o When(shown[2] < Len(t), Dots), max)

\* snippet_with_highlight.
Snippet(t, m, max) ==
  LET shown == Context(t, m, max)
  IN  Cut(When(shown[1] > 0, Dots) \o Slice(t, <<shown[1], m[1]>>)
          \o <<Open>> \o Slice(t, m) \o <<Close>>
          \o Slice(t, <<m[2], shown[2]>>) \o When(shown[2] < Len(t), Dots), max + 4)

\* The copy of it in the broker.
SnippetUtf8(t, m, max) == Snippet(t, m, max)
-----------------------------------------------------------------------------
(* Choice of the text and of what is highlighted *)

Preferred == <<"text.title", "text.body", "title", "body">>

\* pick_field_text: the first preferred field that is not empty.
Chosen(doc) ==
  {i \in DOMAIN Preferred : Preferred[i] \in DOMAIN doc /\ doc[Preferred[i]] # << >>}
Picked(doc) ==
  IF Chosen(doc) # {} THEN {doc[Preferred[CHOOSE i \in Chosen(doc) : \A j \in Chosen(doc) : i <= j]]}
  ELSE IF DOMAIN doc = {} THEN {<< >>}
  ELSE {doc[p] : p \in DOMAIN doc}   \* the first by name, which is not modelled

Bytes(t) ==
  LET sum[k \in 0..Len(t)] == IF k = 0 THEN 0 ELSE sum[k - 1] + Width[t[k]]
  IN  sum[Len(t)]

\* longest_literal_needle: the first of the runs without wildcards that are
\* longest in bytes.
Literals(w) == {s \in Spans(w) : Range(Slice(w, s)) \cap Wild = {}}
Needle(w) ==
  IF Literals(w) = {} THEN << >>
  ELSE Slice(w, CHOOSE s \in Literals(w) : \A o \in Literals(w) \ {s} :
                  LET a == Bytes(Slice(w, s))
                      b == Bytes(Slice(w, o))
                  IN  a > b \/ (a = b /\ s[1] < o[1]))

\* find_ci, all places: to_lowercase on both sides.
Places(t, needle) == {s \in Spans(t) : LowerText(Slice(t, s)) = LowerText(needle)}
FirstOf(spans) == CHOOSE s \in spans : \A o \in spans : s[1] <= o[1]

\* find_ci_with_fallback: the needle, or the longest prefix of 3 characters or
\* more that is in the text, by its length.
Lengths(t, needle) ==
  {k \in 1..Len(needle) : /\ k = Len(needle) \/ k >= 3
                          /\ Places(t, SubSeq(needle, 1, k)) # {}}

\* build_preview.
BuildPreview(t, needle) ==
  LET lengths == Lengths(t, needle)
  IN  IF lengths = {} THEN Truncate(t, MaxLen)
      ELSE LET k == CHOOSE k \in lengths : \A l \in lengths : l <= k
           IN  Snippet(t, FirstOf(Places(t, SubSeq(needle, 1, k))), MaxLen)
-----------------------------------------------------------------------------
(* The previews of a hit, by place *)

\* A wildcard against a whole text.
MatchesWhole(wildcard, t) == 1 \in Starts(wildcard, t, {Len(t) + 1})

\* eng.find: the leftmost match; as stars are greedy, the longest of those.
Find(wildcard, t) ==
  LET spans == {s \in Spans(t) : MatchesWhole(wildcard, Slice(t, s))}
  IN  CHOOSE s \in spans : \A o \in spans : s[1] < o[1] \/ (s[1] = o[1] /\ s[2] >= o[2])

\* The texts of which the broker may show the one that matched.
Matched(doc, r) ==
  {doc[p] : p \in {q \in DOMAIN doc : r.field \in {NoField, q} /\ Matches(r.wildcard, doc[q])}}

BrokerPreview(t, r) == SnippetUtf8(t, Find(r.wildcard, t), MaxLen)

CliPreviews(doc, r) ==
  {<<t, BuildPreview(t, Needle(Normalize(r.wildcard)))>> : t \in Picked(doc)}

HotPreviews(doc) == {<<t, BuildPreview(t, << >>)>> : t \in Picked(doc)}
-----------------------------------------------------------------------------
(* Properties *)

Unmarked(preview) ==
  FlattenSeq([i \in DOMAIN preview |-> IF preview[i] \in Marks THEN << >> ELSE <<preview[i]>>])
IsPart(s, t) == \E span \in Spans(t) \cup {<<0, 0>>} : s = Slice(t, span)

\* A hit of the broker is shown with exactly the match in brackets, in its
\* context, whenever the match and its marks fit into the length that is left
\* to it (storage_adapter.rs:299-341).
MatchIsEnclosed ==
  ByBroker => \A d \in found : \A t \in Matched(docs[d + 1], request) :
    LET m == Find(request.wildcard, t)
        shown == BrokerPreview(t, request)
    IN  m[2] - m[1] <= MaxLen + 1 =>
          \E a, b \in DOMAIN shown :
            /\ shown[a] = Open /\ shown[b] = Close
            /\ SubSeq(shown, a + 1, b - 1) = Slice(t, m)
            /\ IsPart(Unmarked(shown), t)

\* Whatever is shown is a part of the text it is made from, within five
\* characters of the limit, and where text is missing there are dots
\* (common/preview.rs:18-35, 114-177).
PreviewIsHonest ==
  \A d \in found :
    \A x \in (IF ByCli THEN CliPreviews(docs[d + 1], request)
              ELSE HotPreviews(docs[d + 1])
                   \cup {<<t, BrokerPreview(t, request)>> : t \in Matched(docs[d + 1], request)}) :
      /\ IsPart(Unmarked(x[2]), x[1])
      /\ Len(x[2]) <= MaxLen + 5
      /\ Dots \notin Range(x[2]) => Unmarked(x[2]) = x[1]
=============================================================================
