-------------------------------- MODULE Grams --------------------------------
(***************************************************************************)
(* How a segment finds a document: the writer normalises every string of a  *)
(* document and indexes its 3-grams (segjson.rs); a search derives from its *)
(* wildcard the grams a text must have, lets them pick the candidates, and   *)
(* has a regex verify those (gram.rs, verify/).  A segment is read by the    *)
(* broker (storage_adapter.rs; limits and cursor are in Paging) and by the   *)
(* command line, page by page (gzctl/src/main.rs).  The same documents in    *)
(* the hot window are verified without a prefilter.                          *)
(* Lower-casing is taken character by character: the one context Unicode     *)
(* has, the Greek final sigma, is left out.                                  *)
(***************************************************************************)
EXTENDS Sorted, Sequences, SequencesExt

CONSTANTS
  Chars,     \* characters
  Lower,     \* to_lowercase of a character
  Fold,      \* NFKC and removal of marks, of a character: a sequence
  Lines,     \* bound: documents, as the <<path, text>> collect_strings visits
  MaxDocs,   \* bound: documents of the segment
  Requests,  \* bound: requests, records of wildcard and field
  Limits     \* values of gzctl's --limit

Wild == {"*", "?"}
NoField == ""
NoRequest == [wildcard |-> << >>, field |-> "none"]

ASSUME GramsAssumption ==
  /\ MaxDocs \in Nat /\ Limits \subseteq Nat \ {0}
  /\ Wild \subseteq Chars
  /\ Lower \in [Chars -> Chars] /\ Fold \in [Chars -> Seq(Chars)]
  /\ \A c \in Chars : Lower[Lower[c]] = Lower[c] /\ (Lower[c] \in Wild => c \in Wild)
  /\ \A c \in Wild : Lower[c] = c /\ Fold[c] = <<c>>
  /\ Lines \subseteq Seq(STRING \X Seq(Chars))
  /\ Requests \subseteq [wildcard : Seq(Chars), field : STRING]
  /\ NoRequest \notin Requests

VARIABLES
  lines,    \* the documents posted
  docs,     \* docs.jsonl: the stored texts of each document, by path
  grams,    \* grams.json: <<gram, doc_id>>
  masks,    \* field_masks.json: <<path, doc_id>>
  request,  \* the search asked, or NoRequest
  limit,    \* --limit of gzctl; 0 in a search of the broker
  offset,   \* --offset of gzctl
  page,     \* the doc_ids of its last page
  found     \* the doc_ids found, on all pages

segment == <<lines, docs, grams, masks>>
vars == <<segment, request, limit, offset, page, found>>

Ids == 0..(Len(docs) - 1)
-----------------------------------------------------------------------------
(* Texts *)

LowerText(t) == [i \in DOMAIN t |-> Lower[t[i]]]

\* normalize: lower-case first, then NFKC, then the marks go.
Normalize(t) == FlattenSeq([i \in DOMAIN t |-> Fold[Lower[t[i]]]])

Stable(t) == Normalize(t) = t

Trigrams(t) == {SubSeq(t, i, i + 2) : i \in 1..(Len(t) - 2)}

RequiredAcross(wildcard) ==   \* mutant: only a star ends a run of literals
  {g \in Trigrams(Normalize(Normalize(wildcard))) : "*" \notin Range(g)}

\* The grams of the runs of literals.  The pattern has been normalised once by
\* search_one_segment and is normalised again here.
Required(wildcard) ==
  {g \in Trigrams(Normalize(Normalize(wildcard))) : Range(g) \cap Wild = {}}

SameExactly(c, d) == c = d   \* mutant: the flag (?i) forgotten

\* A literal of the regex and a character of the text, under (?i).
Same(c, d) == Lower[c] = Lower[d]

\* Where a character of a pattern can begin to match, if what comes after it can
\* begin at the places of next; dots match all.
Before(c, t, next) ==
  {j \in 1..(Len(t) + 1) :
     \/ c = "*" /\ \E k \in next : j <= k
     \/ c # "*" /\ j <= Len(t) /\ (c = "?" \/ Same(c, t[j])) /\ j + 1 \in next}

\* Where a match of the pattern can begin, if it is to end at one of ends.
Starts(wildcard, t, ends) ==
  LET n == Len(wildcard)
      last[k \in 0..n] ==
        IF k = 0 THEN ends ELSE Before(wildcard[n + 1 - k], t, last[k - 1])
  IN  last[n]

\* The regex of a wildcard, searched for anywhere in a text.
Matches(wildcard, t) == Starts(wildcard, t, 1..(Len(t) + 1)) # {}
-----------------------------------------------------------------------------
(* Searches *)

\* A document verifies if the field asked for does, or any when none is asked.
Verifies(doc, r) ==
  \E p \in DOMAIN doc : r.field \in {NoField, p} /\ Matches(r.wildcard, doc[p])

\* SegmentReader::prefilter with BooleanOp::And.
Prefilter(r) ==
  {d \in Ids : /\ \A g \in Required(r.wildcard) : <<g, d>> \in grams
               /\ r.field = NoField \/ <<r.field, d>> \in masks}

\* A pattern without a gram is an error, of which the executor makes an empty
\* part.
SegmentHits(r) ==
  IF Required(r.wildcard) = {} THEN {}
  ELSE {d \in Prefilter(r) : Verifies(docs[d + 1], r)}

\* gzctl compiles the normalised pattern.
Normalised(r) == [r EXCEPT !.wildcard = Normalize(@)]

CliPageLate(r, lim, off) ==   \* mutant: one candidate too many is skipped
  LET left == {d \in Prefilter(r) : Upto(Prefilter(r), d) > off + 1}
      hits == {d \in left : Verifies(docs[d + 1], Normalised(r))}
  IN  {d \in hits : Upto(hits, d) <= lim}

\* The offset counts candidates, the limit counts hits.
CliPage(r, lim, off) ==
  LET left == {d \in Prefilter(r) : Upto(Prefilter(r), d) > off}
      hits == {d \in left : Verifies(docs[d + 1], Normalised(r))}
  IN  IF Required(r.wildcard) = {} THEN {} ELSE {d \in hits : Upto(hits, d) <= lim}

\* The same fields, normalised as HotMem::apply does it.  The last of two
\* strings with one path stays.
Stored(line) ==
  [p \in {line[i][1] : i \in DOMAIN line} |->
     Normalize(line[CHOOSE i \in DOMAIN line :
                      /\ line[i][1] = p
                      /\ \A j \in DOMAIN line : line[j][1] = p => j <= i][2])]

HotHits(r) == {d \in Ids : Verifies(Stored(lines[d + 1]), r)}
-----------------------------------------------------------------------------
Init ==
  /\ lines = << >> /\ docs = << >> /\ grams = {} /\ masks = {}
  /\ request = NoRequest /\ limit = 0 /\ offset = 0 /\ page = {} /\ found = {}

IndexedLate(line, id) ==   \* mutant: the id is incremented too early
  UNION {{<<g, id + 1>> : g \in Trigrams(Normalize(line[i][2]))} : i \in DOMAIN line}

Indexed(line, id) ==
  UNION {{<<g, id>> : g \in Trigrams(Normalize(line[i][2]))} : i \in DOMAIN line}

\* One turn of the loop of write_segment.  A string whose path comes again is
\* indexed although another one is stored.
WriteDoc(line) ==
  /\ request = NoRequest /\ Len(docs) < MaxDocs
  /\ lines' = Append(lines, line)
  /\ docs' = Append(docs, Stored(line))
  /\ grams' = grams \cup Indexed(line, Len(docs))
  /\ masks' = masks \cup {<<line[i][1], Len(docs)>> : i \in DOMAIN line}
  /\ UNCHANGED <<request, limit, offset, page, found>>

\* search_one_segment over the whole segment.
Search(r) ==
  /\ request = NoRequest /\ docs # << >>
  /\ request' = r
  /\ found' = SegmentHits(r)
  /\ UNCHANGED <<segment, limit, offset, page>>

\* gzctl search, the first page.
Cli(r, lim) ==
  /\ request = NoRequest /\ docs # << >>
  /\ request' = r /\ limit' = lim
  /\ page' = CliPage(r, lim, 0) /\ found' = page'
  /\ UNCHANGED <<segment, offset>>

\* After a full page the user asks for the next one.
CliNext ==
  /\ limit > 0 /\ Cardinality(page) = limit
  /\ offset' = offset + limit
  /\ page' = CliPage(request, limit, offset')
  /\ found' = found \cup page'
  /\ UNCHANGED <<segment, request, limit>>

Next ==
  \/ \E l \in Lines : WriteDoc(l)
  \/ \E r \in Requests : Search(r)
  \/ \E r \in Requests, lim \in Limits : Cli(r, lim)
  \/ CliNext

Spec == Init /\ [][Next]_vars
-----------------------------------------------------------------------------
(* Properties *)

\* Postings and masks name stored documents only, and their number agrees
\* (segjson.rs:53-67).
TypeOK ==
  /\ Len(lines) = Len(docs) /\ Len(docs) <= MaxDocs
  /\ \A x \in grams : Len(x[1]) = 3 /\ x[2] \in Ids
  /\ \A x \in masks : x[2] \in Ids
  /\ request \in Requests \cup {NoRequest} /\ limit \in Limits \cup {0}
  /\ offset \in Nat /\ page \subseteq found /\ found \subseteq Ids

ByBroker == request # NoRequest /\ limit = 0
ByCli == limit > 0

\* The documents a text of which verifies, one that normalising again would
\* leave alone.  Patterns are normalised twice and texts once, so the grams
\* required of another text may not be in the index (storage_adapter.rs:20-21,
\* gram.rs:22).
Due(r) ==
  {d \in Ids : \E p \in DOMAIN docs[d + 1] :
     /\ Stable(docs[d + 1][p])
     /\ Verifies([q \in {p} |-> docs[d + 1][p]], r)}

\* The segment finds nothing the hot window does not, and everything that is
\* due, unless the pattern has no gram (segjson.rs:159-209, search/mod.rs:124-161).
SegmentAgreesWithHot ==
  ByBroker =>
    /\ found \subseteq HotHits(request)
    /\ Required(request.wildcard) # {} => Due(request) \subseteq found

\* A user of gzctl who turns pages until one is not full has seen all that is
\* due, although offset and limit count different things (main.rs:132-138).
CliMissesNothing ==
  ByCli /\ Cardinality(page) < limit /\ Required(request.wildcard) # {} =>
    Due(Normalised(request)) \subseteq found

\* A wildcard and its lower-case form find the same documents, although grams
\* and regex treat case apart (normalizer.rs:4, verify/mod.rs:27).
CaseDoesNotMatter ==
  ByBroker =>
    found = SegmentHits([request EXCEPT !.wildcard = LowerText(@)])

\* A document is found by a whole text of its own, copied into the search
\* (verify/factory.rs:8: the factory compiles the normalised pattern).
TextFindsItself ==
  ByBroker =>
    \A d \in Ids : \A i \in DOMAIN lines[d + 1] :
      LET path == lines[d + 1][i][1]
          text == lines[d + 1][i][2]
      IN  /\ text = request.wildcard /\ Required(text) # {}
          /\ Range(text) \cap Wild = {}
          /\ request.field \in {NoField, path}
          /\ docs[d + 1][path] = Normalize(text) /\ Stable(Normalize(text))
          => d \in found
=============================================================================
