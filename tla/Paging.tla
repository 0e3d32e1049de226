------------------------------- MODULE Paging -------------------------------
(***************************************************************************)
(* A client that reads a result page by page: it sends each answer's cursor *)
(* with its next POST /search (crates/broker/src/search/mod.rs).  A page    *)
(* scatters over the segments with the fates ScatterGather allows, scans    *)
(* each searched segment from its cursor (storage_adapter.rs), adds the hot  *)
(* window and merges the parts in the order in which they came in           *)
(* (paginator.rs).  Segments do not change; the hot window may, and in a     *)
(* search by shard the manifest names other segments after a publication    *)
(* (http_api.rs).                                                           *)
(***************************************************************************)
EXTENDS Sorted, Sequences, FiniteSetsExt

CONSTANTS
  N,           \* the segments, 1..N in launch order
  Histories,   \* bound: what the manifest lists, generation after generation
  MaxDoc,      \* bound: doc_ids of a segment
  Ext,         \* the ext_id of each document of a segment
  Shapes,      \* bound: <<candidates, matches>> of a segment
  HotWindows,  \* what the hot window may match: sequences of hits
  Pages,       \* values of page.size
  Budgets,     \* values of limits.max_candidates
  HitCap,      \* hits one scan returns, 1024 in the code
  MaxFaults    \* bound: segments that fail or panic, over all pages

Segs == 1..N
Docs == 0..MaxDoc
Exts == {Ext[x] : x \in Segs \X Docs}
Hot == 0       \* stands for the segment "__hot__"
NoPos == -1    \* the cursor does not mention the segment

ASSUME PagingAssumption ==
  /\ N \in Nat /\ MaxDoc \in Nat /\ MaxFaults \in Nat
  /\ DOMAIN Ext = Segs \X Docs
  /\ \A x \in Shapes : x[2] \subseteq x[1] /\ x[1] \subseteq Docs
  /\ \A h \in Histories : h \in Seq(SUBSET Segs \ {{}}) \ {<< >>}
  /\ Pages \subseteq Nat /\ Budgets \subseteq Nat /\ HitCap \in Nat \ {0}
  /\ HotWindows \subseteq Seq([seg : {Hot}, doc : Docs, ext : Exts])

VARIABLES
  cand,       \* the documents the prefilter of each segment returns
  match,      \* those among them that verify
  size,       \* page.size
  budget,     \* max_candidates
  listed,     \* the segments of each generation of the shard
  gen,        \* its generation in the manifest
  at,         \* the generation the page under way was resolved to
  pin,        \* the pin_gen in the client's cursor, 0 if it has none
  cursor,     \* the last_docid of each segment in the client's cursor
  fate,       \* of each segment in the page under way
  todo,       \* its parts not yet merged
  page,       \* its hits so far
  after,      \* its cursor so far
  faults,     \* history: failures and panics
  steady,     \* history: segments searched on every page so far
  delivered,  \* history: the documents on pages already answered
  repeated,   \* history: those on more than one page
  exts,       \* history: the ext_ids on pages already answered
  ample       \* history: segments whose every answer so far left room on its page
              \* and whose scans kept within the budget

query == <<cand, match, size, budget, listed>>
vars == <<query, gen, at, pin, cursor, fate, todo, page, after,
          faults, steady, delivered, repeated, exts, ample>>

Idle == [s \in Segs |-> "none"]

Places == (Segs \cup {Hot}) \X Docs
Hits == [seg : Segs \cup {Hot}, doc : Docs, ext : Exts]

TypeOK ==
  /\ cand \in [Segs -> SUBSET Docs] /\ \A s \in Segs : match[s] \subseteq cand[s]
  /\ size \in Pages /\ budget \in Budgets /\ listed \in Histories
  /\ gen \in DOMAIN listed /\ at \in 0..gen /\ pin \in 0..at
  /\ cursor \in [Segs -> Docs \cup {NoPos}] /\ after \in [Segs -> Docs \cup {NoPos}]
  /\ fate \in [Segs -> {"none", "searched", "failed", "lost", "skipped"}]
  /\ todo \subseteq Segs /\ page \in Seq(Hits)
  /\ faults \in 0..MaxFaults /\ steady \subseteq Segs
  /\ delivered \subseteq Places /\ repeated \subseteq delivered
  /\ exts \subseteq Exts /\ ample \subseteq Segs

Init ==
  /\ \E shape \in [Segs -> Shapes] :
       /\ cand = [s \in Segs |-> shape[s][1]]
       /\ match = [s \in Segs |-> shape[s][2]]
  /\ size \in Pages /\ budget \in Budgets
  /\ listed \in Histories /\ gen = 1 /\ at = 0 /\ pin = 0
  /\ cursor = [s \in Segs |-> NoPos] /\ after = cursor
  /\ fate = Idle /\ todo = {} /\ page = << >>
  /\ faults = 0 /\ steady = Segs /\ ample = Segs
  /\ delivered = {} /\ repeated = {} /\ exts = {}
-----------------------------------------------------------------------------
(* search_one_segment *)

LeftIncluding(s) == {d \in cand[s] : d >= cursor[s]}   \* mutant: >= for >

\* The candidates beyond the cursor.
Left(s) == {d \in cand[s] : d > cursor[s]}

ScannedShort(s) ==   \* mutant: the document over the budget is not noted
  {d \in Left(s) :
     /\ Upto(Left(s), d) <= budget
     /\ Upto(Left(s) \cap match[s], d - 1) < HitCap}

\* The documents the loop reaches, in order of doc_id: it leaves at the first
\* one over the budget, having noted it, and after HitCap hits.
Scanned(s) ==
  {d \in Left(s) :
     /\ Upto(Left(s), d) <= budget + 1
     /\ Upto(Left(s) \cap match[s], d - 1) < HitCap}

\* Those it verifies.
Verified(s) == {d \in Scanned(s) : Upto(Left(s), d) <= budget}

HitsOf(s) == Verified(s) \cap match[s]

LastCandidate(s) == Max(Left(s) \cup {cursor[s], 0})   \* mutant: the cap is overlooked

LastHit(s) == Max(HitsOf(s) \cup {cursor[s], 0})   \* mutant: as for the hot part

LastPlusOne(s) ==   \* mutant: the document to go on with
  IF Scanned(s) # {} THEN Max(Scanned(s)) + 1 ELSE Max({cursor[s], 0})

\* last_docid: the last document reached, else the cursor, else 0.
LastDocid(s) ==
  IF Scanned(s) # {} THEN Max(Scanned(s)) ELSE Max({cursor[s], 0})
-----------------------------------------------------------------------------
(* One page *)

\* A publication: the shard moves on to its next generation.
Publish ==
  /\ gen < Len(listed)
  /\ gen' = gen + 1
  /\ UNCHANGED <<query, at, pin, cursor, fate, todo, page, after,
                 faults, steady, delivered, repeated, exts, ample>>

\* The hits of the segments before s that are searched, all together.
HitsBefore(f, s) ==
  LET sum[k \in 0..N] ==
        IF k = 0 THEN 0
        ELSE sum[k - 1] + (IF f[k] = "searched" THEN Cardinality(HitsOf(k)) ELSE 0)
  IN  sum[s - 1]

\* The fates that ScatterGather allows to the segments resolved.
Fates ==
  {f \in [Segs -> {"none", "searched", "failed", "lost", "skipped"}] :
     \A s \in Segs :
       /\ f[s] = "none" <=> s \notin listed[gen]
       /\ f[s] = "skipped" =>
            /\ \A t \in s..N : f[t] \in {"skipped", "none"}
            /\ size <= HitsBefore(f, s)}

Faulty(f) == {s \in Segs : f[s] \in {"failed", "lost"}}

\* The client asks for the next page.  The handler resolves the shard to its
\* newest generation, whatever the cursor says, and overwrites its pin_gen.
Ask ==
  /\ fate = Idle
  /\ at' = gen
  /\ fate' \in Fates
  /\ faults + Cardinality(Faulty(fate')) <= MaxFaults
  /\ faults' = faults + Cardinality(Faulty(fate'))
  /\ todo' = {s \in listed[gen] : fate'[s] # "lost"}
  /\ page' = << >> /\ after' = [s \in Segs |-> NoPos]
  /\ UNCHANGED <<query, gen, pin, cursor, steady, delivered, repeated, exts, ample>>

Seen(p, h) == \E i \in DOMAIN p : p[i].ext = h.ext

\* A hit goes on the page while there is room and its ext_id is new.
Take(p, h) == IF Len(p) >= size \/ Seen(p, h) THEN p ELSE Append(p, h)

Merge(p, hs) ==
  LET taken[k \in 0..Len(hs)] == IF k = 0 THEN p ELSE Take(taken[k - 1], hs[k])
  IN  taken[Len(hs)]

HitAt(s, d) == [seg |-> s, doc |-> d, ext |-> Ext[<<s, d>>]]

HitSeq(s) ==
  LET docs == Ascending(HitsOf(s))
  IN  [i \in DOMAIN docs |-> HitAt(s, docs[i])]

PartHits(s) == IF fate[s] = "searched" THEN HitSeq(s) ELSE << >>

\* Paginator::merge takes the next part.  Skipped inputs send theirs in launch
\* order, the others whenever they are ready.
MergePart(s) ==
  /\ s \in todo
  /\ fate[s] = "skipped" => \A t \in todo : fate[t] = "skipped" => s <= t
  /\ todo' = todo \ {s}
  /\ page' = Merge(page, PartHits(s))
  /\ after' = [after EXCEPT ![s] = IF fate[s] = "searched" THEN LastDocid(s) ELSE 0]
  /\ UNCHANGED <<query, gen, at, pin, cursor, fate, faults, steady, delivered,
                 repeated, exts, ample>>

\* The hot window is read after all the parts are in; its part comes last, with
\* at most size hits, and stays out of the cursor.
Respond ==
  /\ fate # Idle /\ todo = {}
  /\ \E hot \in HotWindows :
       page' = Merge(page, SubSeq(hot, 1, Min({size, Len(hot)})))
  /\ LET shown == {<<page'[i].seg, page'[i].doc>> : i \in DOMAIN page'}
     IN  /\ repeated' = repeated \cup (delivered \cap shown)
         /\ delivered' = delivered \cup shown
  /\ exts' = exts \cup {page'[i].ext : i \in DOMAIN page'}
  /\ cursor' = after /\ pin' = at
  /\ steady' = {s \in steady : fate[s] = "searched"}
  /\ ample' = {s \in ample :
                 \/ fate[s] \in {"none", "lost"}
                 \/ fate[s] = "searched" /\ Len(page') < size /\ Scanned(s) = Verified(s)}
  /\ fate' = Idle
  /\ UNCHANGED <<query, gen, at, todo, after, faults>>

Next == Publish \/ Ask \/ Respond \/ \E s \in Segs : MergePart(s)

\* The client goes on asking, and every search is answered.
Spec == Init /\ [][Next]_vars /\ WF_vars(Next)
-----------------------------------------------------------------------------
(* Properties *)

\* As long as a segment has been searched on every page, following the cursor
\* shows none of its documents twice, whatever the limits cut off
\* (storage_adapter.rs:58-66, 244-248).
OncePerSteadySegment ==
  \A x \in repeated : x[1] \notin steady

\* A client whose pages were never full, and whose scans of a segment kept within
\* their budget, has been shown every match of it that the cursor has passed, or
\* another document of the same ext_id: nothing is lost at the hit cap, in any
\* order of the parts, to a copy in another segment or to a task that panicked
\* (storage_adapter.rs:58-139, 244-252, paginator.rs:39-57).  What full pages,
\* budgets and skipped segments do to the cursor is NextPageIsTheRest.
AmplePagesLoseNothing ==
  \A s \in ample : \A d \in match[s] : d <= cursor[s] => Ext[<<s, d>>] \in exts

\* A page on which no segment failed brings the client on: where anything is left
\* at all it leaves less at the first segment that has some, and nothing at
\* those before it, although the limits may stop a scan at its first document
\* and skipped segments start over (storage_adapter.rs:58-75, 244-259).
NoPageWasted ==
  [][(/\ fate # Idle /\ fate' = Idle /\ size > 0
      /\ \A s \in listed[at] : fate[s] \in {"searched", "skipped"})
     => \A s \in listed[at] :
          (Left(s) # {} /\ \A t \in listed[at] : t < s => Left(t) = {})
          => /\ Left(s)' \subseteq Left(s) /\ Left(s)' # Left(s)
             /\ \A t \in listed[at] : t < s => Left(t)' = {}]_vars

\* A client that goes on asking comes to the end of the segments the manifest
\* lists, although a skipped segment starts over from 0, once segments cease to
\* fail and generations to change.
ReachesEnd == size > 0 => <>[](\A s \in listed[gen] : Left(s) = {})

\* The pages of one search come from the generation its cursor is pinned to.
PagesArePinned ==
  pin # 0 => \A i \in DOMAIN page : page[i].seg \in listed[pin] \cup {Hot}

\* What the cursor has passed was shown.
PassedIsShown ==
  \A s \in Segs : \A d \in match[s] : d <= cursor[s] => Ext[<<s, d>>] \in exts

\* The next page is the rest: it comes from the generation the cursor is pinned to,
\* it goes on where the pages before have stopped showing, and it repeats none of
\* them.  (docs/testing.md:224 expects other hits and the same pin_gen on the
\* second page of two, docs/rfcs/0001-search-and-replication-flows.md:147 and 204
\* that a search goes on from its coordinates, in its generation.)
NextPageIsTheRest == PagesArePinned /\ PassedIsShown /\ repeated = {}
=============================================================================
