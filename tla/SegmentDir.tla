------------------------------ MODULE SegmentDir ------------------------------
(***************************************************************************)
(* The directory of a segment while it is built and searched.  gzctl        *)
(* build-seg writes V1 or V2 files into a directory, in place and one after *)
(* the other (segjson.rs, v2/writer.rs); it may be stopped anywhere and run *)
(* again.  A search finds out the format, opens the files one by one and    *)
(* answers (segjson.rs, v2/reader.rs, storage_adapter.rs).  A V1 reader     *)
(* loads its files; a V2 reader maps them, checks the CRC of each once, and *)
(* reads them later, when they may have changed underneath it.              *)
(* The builds of one directory follow one another.                          *)
(***************************************************************************)
EXTENDS PostingsCodec, FiniteSets

CONSTANTS
  Grams,      \* the 3-grams of texts
  KeyOf,      \* the first three bytes of a gram, as a number
  Corpora,    \* bound: inputs, sequences of documents: the grams of each field
  Queries,    \* bound: the grams a wildcard requires, and a field
  MaxBuilds   \* bound: builds into the directory

NoField == ""

V1Order == <<"grams.json", "field_masks.json", "docs.jsonl", "meta.json">>
V2Order == <<"grams.dat", "grams.idx", "fields.dat", "fields.idx", "docs.dat", "meta.bin">>
Files == Range(V1Order) \cup Range(V2Order)

GramsOf(doc) == UNION Range(doc)
Keys(c) == {KeyOf[g] : g \in UNION {GramsOf(c[i]) : i \in DOMAIN c}}

ASSUME SegmentDirAssumption ==
  /\ KeyOf \in [Grams -> Nat] /\ MaxBuilds \in Nat
  /\ \A c \in Corpora : \A i \in DOMAIN c : GramsOf(c[i]) \subseteq Grams
  /\ \A c \in Corpora : c \in Seq(Range(c)) /\ IsFiniteSet(Keys(c))
  /\ \A q \in Queries : q.grams \in Seq(Grams) \ {<< >>}

VARIABLES
  file,       \* what each file of the directory holds
  begun,      \* the builds begun, each with its format and input
  pos,        \* the file the running build is at, 0 if none runs
  writing,    \* whether it has created that file
  completed,  \* history: the last build that ran to its end
  rpc,        \* where the search stands
  query,      \* what it looks for
  from,       \* the build each file was of when the search opened it
  kept,       \* the documents a V1 reader has loaded
  nth,        \* the gram the prefilter is at
  lo, hi,     \* the window of the binary search for its key
  entry,      \* the place where the key was found
  acc,        \* the candidates so far
  answer,     \* the documents found
  calm        \* history: no build has run since the search began

wvars == <<file, begun, pos, writing, completed>>
window == <<nth, lo, hi, entry>>
rvars == <<rpc, query, from, kept, window, acc, answer>>
vars == <<wvars, rvars, calm>>

Builds == 1..Len(begun)
Corpus(n) == begun[n].corpus
-----------------------------------------------------------------------------
(* What a build derives from its input *)

Ids(c) == 0..(Len(c) - 1)

WithGram(c, g) == {d \in Ids(c) : g \in GramsOf(c[d + 1])}

\* Grams that begin with the same three bytes share their postings.
WithKey(c, k) == {d \in Ids(c) : \E g \in GramsOf(c[d + 1]) : KeyOf[g] = k}

\* A build, with the keys in ascending order as in grams.idx, and for each key
\* what a reader makes of its entry in grams.dat.
BuildOf(format, c) ==
  [format |-> format, corpus |-> c,
   index |-> Ascending(Keys(c)),
   postings |-> [k \in Keys(c) |-> DecodeIds(EncodeIds(WithKey(c, k)))]]

WithField(c, f) == {d \in Ids(c) : f \in DOMAIN c[d + 1]}
-----------------------------------------------------------------------------
(* The build *)

OrderMetaFirst(format) ==   \* mutant: the description before what it describes
  IF format = "v1" THEN <<"meta.json", "grams.json", "field_masks.json", "docs.jsonl">>
  ELSE V2Order

\* The order in which write_segment creates its files.
Order(format) == IF format = "v1" THEN V1Order ELSE V2Order

Latest == Len(begun)
Running == pos # 0
At == Order(begun[Latest].format)[pos]

Absent == [of |-> 0, whole |-> FALSE]
Holds(f, whole) == file' = [file EXCEPT ![f] = [of |-> Latest, whole |-> whole]]

\* The input is read to its end before the first file is touched; one that does
\* not parse, or in V2 has a document without _id, changes nothing.
Begin(format, c) ==
  /\ ~Running /\ Latest < MaxBuilds
  /\ begun' = Append(begun, BuildOf(format, c))
  /\ pos' = 1 /\ calm' = FALSE
  /\ UNCHANGED <<file, writing, completed, rvars>>

\* A file is created, or emptied, and holds a part of its content ...
Create ==
  /\ Running /\ ~writing
  /\ Holds(At, FALSE) /\ writing' = TRUE
  /\ UNCHANGED <<begun, pos, completed, rvars, calm>>

\* ... until the last byte is written, in V2 the last of the CRC.
Finish ==
  /\ Running /\ writing
  /\ Holds(At, TRUE) /\ writing' = FALSE
  /\ IF pos = Len(Order(begun[Latest].format))
     THEN pos' = 0 /\ completed' = Latest
     ELSE pos' = pos + 1 /\ UNCHANGED completed
  /\ UNCHANGED <<begun, rvars, calm>>

\* The process is killed, or an error of a file operation ends it.
Abandon ==
  /\ Running
  /\ pos' = 0 /\ writing' = FALSE
  /\ UNCHANGED <<file, begun, completed, rvars, calm>>
-----------------------------------------------------------------------------
(* The search opens the files *)

Goto(state) == rpc' = state
Opened(f) == from' = [from EXCEPT ![f] = file[f].of]

ReadableAtAll(f) == file[f] # Absent   \* mutant: no CRC is compared

\* The file is there and parses, in V2 its CRC is right.  A part of a JSON text
\* does not parse, a part of a V2 file has no CRC.
Readable(f) == file[f].whole

Ask(q) ==
  /\ rpc = "idle"
  /\ query' = q /\ calm' = ~Running
  /\ Goto("detect")
  /\ UNCHANGED <<wvars, from, kept, window, acc, answer>>

\* is_v2: meta.bin exists.
Detect ==
  /\ rpc = "detect"
  /\ Goto(IF file["meta.bin"] # Absent THEN "meta.bin" ELSE "meta.json")
  /\ UNCHANGED <<wvars, query, from, kept, window, acc, answer, calm>>

\* The files opened before the documents, each with the one after it.
Then ==
  {<<"meta.bin", "grams.idx">>, <<"grams.idx", "grams.dat">>, <<"grams.dat", "fields.idx">>,
   <<"fields.idx", "fields.dat">>, <<"fields.dat", "docs.dat">>,
   <<"meta.json", "grams.json">>, <<"grams.json", "field_masks.json">>}
Early == {x[1] : x \in Then}

\* mmap_with_crc or read_json.
Open ==
  /\ rpc \in Early /\ Readable(rpc)
  /\ Opened(rpc) /\ \E next \in Files : <<rpc, next>> \in Then /\ Goto(next)
  /\ UNCHANGED <<wvars, query, kept, window, acc, answer, calm>>

CountsUnchecked == TRUE   \* mutant: no comparison of the counts

\* docs.dat has as many documents as meta.bin says.  Nothing else is compared.
CountsAgree == Len(Corpus(file["docs.dat"].of)) = Len(Corpus(from["meta.bin"]))

Records == begun[from["grams.idx"]].index

StartLookup(n) == nth' = n /\ lo' = 0 /\ hi' = Len(Records) - 1

OpenDocs ==
  /\ rpc = "docs.dat" /\ Readable("docs.dat") /\ CountsAgree
  /\ Opened("docs.dat")
  /\ acc' = Ids(Corpus(from["meta.bin"]))
  /\ StartLookup(1) /\ Goto("look")
  /\ UNCHANGED <<wvars, query, kept, entry, answer, calm>>

OpenFails ==
  /\ \/ rpc \in Early \cup {"docs.dat"} /\ ~Readable(rpc)
     \/ rpc = "docs.dat" /\ Readable(rpc) /\ ~CountsAgree
     \/ rpc = "docs.jsonl" /\ ~Readable(rpc)
  /\ Goto("error")
  /\ UNCHANGED <<wvars, query, from, kept, window, acc, answer, calm>>

\* Masks that are missing or do not parse count as empty.
ReadMasks ==
  /\ rpc = "field_masks.json"
  /\ IF Readable(rpc) THEN Opened(rpc) ELSE UNCHANGED from
  /\ Goto("docs.jsonl")
  /\ UNCHANGED <<wvars, query, kept, window, acc, answer, calm>>

\* docs.jsonl is read line by line, so a part of it that ends with a line is
\* taken for the whole.
ReadDocs ==
  /\ rpc = "docs.jsonl" /\ file[rpc] # Absent
  /\ Opened(rpc)
  /\ kept' \in (IF Readable(rpc) THEN {Len(Corpus(file[rpc].of))}
                ELSE 0..Len(Corpus(file[rpc].of)))
  /\ Goto("answer")
  /\ UNCHANGED <<wvars, query, window, acc, answer, calm>>
-----------------------------------------------------------------------------
(* The search answers *)

\* Of the documents in ids those of c in which a field asked for has every gram
\* of the query.  (What else the regex demands is left out.)
Verified(c, ids) ==
  {d \in ids : \E f \in DOMAIN c[d + 1] :
     query.field \in {NoField, f} /\ Range(query.grams) \subseteq c[d + 1][f]}

\* The V1 reader has everything in memory, whatever has become of the files.
AnswerV1 ==
  /\ rpc = "answer"
  /\ LET grams == Corpus(from["grams.json"])
         docs == Corpus(from["docs.jsonl"])
         candidates == {d \in Ids(grams) : \A i \in DOMAIN query.grams :
                          d \in WithGram(grams, query.grams[i])}
         mask == IF query.field = NoField THEN candidates
                 ELSE IF from["field_masks.json"] = 0 THEN {}
                 ELSE WithField(Corpus(from["field_masks.json"]), query.field)
     IN  answer' = Verified(docs, candidates \cap mask \cap 0..(kept - 1))
  /\ Goto("done")
  /\ UNCHANGED <<wvars, query, from, kept, window, acc, calm>>

\* The map a V2 reader reads in a state, and the file whose content, taken over
\* earlier, tells it where to read.
Map == [look |-> "grams.idx", postings |-> "grams.dat", mask |-> "fields.dat",
        scan |-> "docs.dat"]
By == [look |-> "grams.idx", postings |-> "grams.idx", mask |-> "fields.idx",
       scan |-> "fields.idx"]

\* The map shows what it showed when it was checked, and fits.
Sound ==
  /\ file[Map[rpc]].whole
  /\ Corpus(file[Map[rpc]].of) = Corpus(from[Map[rpc]])
  /\ Corpus(from[By[rpc]]) = Corpus(from[Map[rpc]])

\* Otherwise the process may die (SIGBUS, a slice out of range), or the search
\* report an error or find anything.
Garble ==
  /\ rpc \in DOMAIN Map /\ (rpc = "look" => lo <= hi) /\ ~Sound
  /\ Goto("garbled")
  /\ UNCHANGED <<wvars, query, from, kept, window, acc, answer, calm>>

Key == KeyOf[query.grams[nth]]
Mid == (lo + hi) \div 2

LoSlow == Mid   \* mutant: the middle is looked at again
LoFast == Mid + 2   \* mutant: one record is jumped over
LoAbove == Mid + 1

\* One turn of the loop of lookup_gram.
Probe ==
  /\ rpc = "look" /\ lo <= hi /\ Sound
  /\ \/ Records[Mid + 1] < Key /\ lo' = LoAbove /\ UNCHANGED <<rpc, hi, entry>>
     \/ Records[Mid + 1] > Key /\ hi' = Mid - 1 /\ UNCHANGED <<rpc, lo, entry>>
     \/ Records[Mid + 1] = Key /\ entry' = Mid /\ Goto("postings") /\ UNCHANGED <<lo, hi>>
  /\ UNCHANGED <<wvars, query, from, kept, nth, acc, answer, calm>>

\* There is no such key, and with AND no document.
Missing ==
  /\ rpc = "look" /\ lo > hi
  /\ acc' = {} /\ answer' = {}
  /\ Goto("done")
  /\ UNCHANGED <<wvars, query, from, kept, window, calm>>

\* The postings of one gram are intersected with those before.
ReadPostings ==
  /\ rpc = "postings" /\ Sound
  /\ acc' = acc \cap begun[from["grams.dat"]].postings[Records[entry + 1]]
  /\ IF nth < Len(query.grams)
     THEN StartLookup(nth + 1) /\ Goto("look")
     ELSE UNCHANGED <<nth, lo, hi>> /\ Goto(IF query.field = NoField THEN "scan" ELSE "mask")
  /\ UNCHANGED <<wvars, query, from, kept, entry, answer, calm>>

\* A field the index does not know has no document.
ApplyMask ==
  /\ rpc = "mask" /\ Sound
  /\ acc' = acc \cap WithField(Corpus(from["fields.dat"]), query.field)
  /\ Goto("scan")
  /\ UNCHANGED <<wvars, query, from, kept, window, answer, calm>>

\* get_doc and the regex for every candidate; limits and cursor are in Paging.
Scan ==
  /\ rpc = "scan" /\ Sound
  /\ answer' = Verified(Corpus(from["docs.dat"]), acc)
  /\ Goto("done")
  /\ UNCHANGED <<wvars, query, from, kept, window, acc, calm>>
-----------------------------------------------------------------------------
NoQuery == [grams |-> << >>, field |-> NoField]

Init ==
  /\ file = [f \in Files |-> Absent]
  /\ begun = << >> /\ pos = 0 /\ writing = FALSE /\ completed = 0
  /\ rpc = "idle" /\ query = NoQuery
  /\ from = [f \in Files |-> 0] /\ kept = 0
  /\ nth = 0 /\ lo = 0 /\ hi = 0 /\ entry = 0
  /\ acc = {} /\ answer = {} /\ calm = FALSE

Build == Create \/ Finish \/ Abandon \/ \E v \in {"v1", "v2"}, c \in Corpora : Begin(v, c)

OpenStep == Detect \/ Open \/ OpenDocs \/ OpenFails \/ ReadMasks \/ ReadDocs
AnswerStep == AnswerV1 \/ Garble \/ Probe \/ Missing \/ ReadPostings \/ ApplyMask \/ Scan
SearchStep == OpenStep \/ AnswerStep

Next == Build \/ SearchStep \/ \E q \in Queries : Ask(q)

\* A search that has begun goes on; nobody has to build or to ask.
Spec == Init /\ [][Next]_vars /\ WF_vars(SearchStep)
-----------------------------------------------------------------------------
(* Properties *)

Ends == {"done", "error", "garbled"}

\* Files and positions refer to builds that have begun, and every document a V2
\* search may ask for is in its docs.dat (v2/reader.rs:88-97).
TypeOK ==
  /\ \A n \in Builds : begun[n].format \in {"v1", "v2"} /\ begun[n].corpus \in Corpora
  /\ file \in [Files -> [of : Builds \cup {0}, whole : BOOLEAN]]
  /\ pos \in 0..6 /\ (Running => pos \in DOMAIN Order(begun[Latest].format))
  /\ writing \in BOOLEAN /\ (writing => Running) /\ completed \in Builds \cup {0}
  /\ rpc \in {"idle", "detect", "answer"} \cup Files \cup DOMAIN Map \cup Ends
  /\ query \in Queries \cup {NoQuery}
  /\ from \in [Files -> Builds \cup {0}] /\ calm \in BOOLEAN
  /\ kept \in Nat /\ nth \in Nat /\ lo \in Nat /\ hi \in Int /\ entry \in Nat
  /\ rpc \in DOMAIN Map => acc \subseteq Ids(Corpus(from["docs.dat"]))

\* In a directory that one build has written, whether it runs, was stopped or
\* has ended, whatever a search has opened is whole and nothing it reads is
\* garbled (segjson.rs:117-153, v2/reader.rs:37-123).
FirstBuildUnmixed ==
  Latest = 1 =>
    /\ rpc # "garbled"
    /\ \A f \in Files : from[f] # 0 => file[f] = [of |-> 1, whole |-> TRUE]

\* What a search of these documents should find.
Due(c) == Verified(c, Ids(c))

\* Nothing in the directory but one build; or the last one ran to its end and
\* none has run since the search began, and no meta.bin of an earlier V2 build
\* hides a V1 one.
Settled ==
  /\ calm /\ completed = Latest /\ Latest > 0
  /\ begun[Latest].format = "v1" => file["meta.bin"] = Absent

\* A search of the first build finds all or reports an error; once a build has
\* ended, whatever was stopped or rebuilt before it, a search is answered and
\* finds exactly what is in that build, in either format
\* (v2/reader.rs:129-302, segjson.rs:159-213).
AnswersTheBuild ==
  rpc \in Ends =>
    /\ Latest = 1 => rpc = "error" \/ answer = Due(Corpus(1))
    /\ Settled => rpc = "done" /\ answer = Due(Corpus(Latest))

\* The binary search comes to no wrong end: a key it gives up is not in the
\* index, a place it found holds the key (v2/reader.rs:382-399).
LookupRight ==
  /\ rpc = "look" /\ lo > hi => Key \notin Range(Records)
  /\ rpc = "postings" => Records[entry + 1] = Key

\* Every search comes to an end, while builds go on or stop beside it.
SearchEnds == rpc = "detect" ~> rpc \in Ends
=============================================================================
