# Grepzilla: a verification project

TLA+ models of the grepzilla broker and its segment library (`src/crates/broker`,
`src/crates/grepzilla_segment`, `src/crates/gzctl`), the TLC runs that check them on small
instances, and proofs for TLAPS. File names below are relative to `src/crates`.

## 1. The system

The broker is one process (axum on tokio). It takes documents by `POST /ingest`, keeps the newest
in memory, writes each batch to a WAL, builds a segment directory from it and names the directory
in a manifest file. `POST /search` scatters over segments, adds the documents in memory, merges the
hits into a page and returns a cursor for the next page.

| Part | State it keeps | Operations | Talks to |
|---|---|---|---|
| `HotMem` (broker/src/ingest/hot.rs) | a window of documents (RwLock), keys seen (RwLock) | `apply`, `snapshot` | called by ingest and by search |
| WAL (ingest/wal.rs) | one file per batch, with a checksum file | `append_batch` | called by ingest |
| Compactor and V1 writer (ingest/compactor.rs, grepzilla_segment/src/segjson.rs) | a directory of four files per segment | `wal_to_segment`, `write_segment` | reads the WAL |
| `FsManifestStore` (manifest/fs.rs, manifest/mod.rs) | one JSON file, one `.tmp` beside it | `append_segment`, `load`, `resolve` | ingest writes, searches read |
| HTTP ingest (http_api.rs) | none of its own | `ingest_batch` | all of the above, in this order |
| `ParallelExecutor` (search/executor.rs) | semaphore, hit counter, channel, for one search | `run_all` | spawns one task per segment |
| Segment scan (storage_adapter.rs) | none | `search_one_segment` | opens a segment, verifies with a regex |
| Grams and verification (grepzilla_segment: gram.rs, normalizer.rs, verify/) | the gram index of a segment | `normalize`, `trigrams`, `required_grams_from_wildcard`, `prefilter` | used by writer and readers |
| Paginator, coordinator (search/paginator.rs, search/mod.rs) | none; the client carries the cursor | `merge`, `handle` | executor, hot window |
| gzctl (gzctl/src/main.rs) | none | `search` with limit and offset, `build-seg` in both formats | reads and writes a segment |
| V2 segments (grepzilla_segment/src/v2) | six binary files with CRCs; the reader keeps maps of them | `write_segment`, `open_segment`, `prefilter`, `get_doc` | read by search, written by gzctl |
| Previews (grepzilla_segment/src/common/preview.rs and a copy in storage_adapter.rs) | none | `build_preview`, `snippet_with_highlight` | called for every hit |
| Manifest pointer store (grepzilla_segment/src/manifest_store.rs) | a pointer per shard | `get_ptr`, `cas_ptr` | no caller yet |

What makes these parts correct, in a line each:

- the window is the newest documents in push order, a key admits one batch, refusal means full;
- the manifest is readable at every instant, a generation is never used twice, nothing that was
  answered as published disappears;
- an answer to `POST /ingest` tells what is on disk, and the manifest names finished directories only;
- the executor returns one part per segment, never deadlocks on its semaphore, and skips a segment
  only when the page is full;
- prefilter and regex together find what a scan would find;
- following the cursor ends, shows no document twice, and passes over no match unseen (the code keeps the last two under
  conditions only: see `paging_cursor` and section 5);
- a search of a segment directory finds what is in the build that made it, or reports an error, and
  the postings read are the postings written;
- a preview shows the match, marked, and nothing the text does not have.

Hard behaviours: handlers run concurrently and share the window, the keys, the manifest and the
clock; every file operation can fail; a client that leaves drops its handler at an await; the
process may die between any two file operations and starts with empty memory; a search races its
tasks against a counter, a semaphore and a deadline; the cursor meets a different state of the
system on every page; gzctl rebuilds a directory in place while a broker has its files mapped.

## 2. The modules

| Module | Models | Instances |
|---|---|---|
| `HotMem` | `HotMem::apply`, three critical sections per call | `MCHotMem` |
| `HotMemProofs` | theorems about `HotMem` | (TLAPS) |
| `ManifestFile` | `append_segment` with inodes, the retry in `ingest_batch`, `resolve`, `GET /manifest/:shard` | `MCManifestFile` |
| `ManifestFileProofs` | theorems about `ManifestFile` | (TLAPS) |
| `SegmentBuild` | `wal_to_segment` and `write_segment`, file by file; what `open_segment` needs | through `Ingest` |
| `Ingest` | `POST /ingest`: composes `HotMem`, `SegmentBuild`, `ManifestFile` by INSTANCE; WAL, hang-ups, crash and restart | `MCIngest` |
| `IngestProofs` | theorems about `Ingest`; cites those of the components through instances | (TLAPS) |
| `ScatterGather` | abstract: what `run_all` promises | through `Executor` |
| `Executor` | `run_all`: launch loop, tasks, semaphore, channel, timer, dropped future | `MCExecutor` |
| `ExecutorProofs` | theorems about `Executor` | (TLAPS) |
| `Paging` | scan with limits, merge, hot part, cursor, over many pages; segment fates as `ScatterGather` allows them; publications between pages and the pin in the cursor | `MCPaging` |
| `PagingProofs` | theorems about `Paging` | (TLAPS) |
| `Grams` | normalisation, gram index, required grams, prefilter, regex; the readers of broker and gzctl | `MCGrams` |
| `GramsProofs` | theorems about `Grams` and `Preview` | (TLAPS) |
| `Preview` | the snippets of broker, gzctl and hot window; EXTENDS `Grams`, which finds the hits | `MCGrams` |
| `Sorted` | a finite set of numbers in ascending order, as a bitmap iterates and `sort_unstable` leaves it | through `Paging`, `SegmentDir` |
| `PostingsCodec` | varints, distances between ids, their decoding; EXTENDS `Sorted` | through `SegmentDir` |
| `SegmentDir` | builds of both formats in one directory, and a search that opens, looks up, decodes, answers; EXTENDS `PostingsCodec` | `MCSegmentDir` |
| `SegmentDirProofs` | theorems about `SegmentDir` and `PostingsCodec` | (TLAPS) |
| `NaturalSets` | lemmas the proofs share: least, greatest, induction over a set of numbers, functions by iteration, `Sorted` | (TLAPS) |

A definition marked `mutant:` in a comment is a plausible bug. It is used by no specification; each
property has one that makes TLC report the property violated, which shows that the property can fail.

### State and code

`HotMem`: `window` is `inner`, `seen` is `idempotency_seen`. `pc[r]` goes from idle through
*marked* (the lock of the keys released) and *admitted* (the capacity check passed) to done; these
are the places at which another thread can run. `Push` does the loop over the batch at once, since
it holds the write lock; `Batch` and `KeepNewest` say in closed form what pushing and popping one by
one gives. That they do is proved (`PushIsTheLoop`); the assumption `ClosedFormIsLoop` in `MCHotMem` compares them with the loop on small
windows.
`seq` and `pushed` are history.

`ManifestFile`: `man` and `tmp` are the inodes the two names refer to, `file` what each inode
holds, `fd` the inode a writer has open. So a writer whose `manifest.tmp` was renamed by another
writes into the live manifest, as on a POSIX file system. `Overwrite` says what remains after two
writers of one inode. A JSON text is abstracted to its format and entries.
The rest is what `ingest_batch` does when `append_segment` has failed. `AfterError` asks whether the file exists; `ExistsFails` is the
check that fails itself and says no (`unwrap_or(false)`). `InitOpen` truncates or creates the file in place, `InitWrite` writes `{}`, `InitFails`
is an error of either, which the code ignores; all go on to `Retry`, the second `attempt`. `misjudged`, `blind` and `overlapped` are history:
a failed check took a manifest that was there for missing; an append started from nothing although there were entries; two appends ran at once.

`SegmentBuild`: `seg[d][f]` says whose data file `f` of directory `d` was derived from and in
which form. `After` is the order in which the writer creates its files. Directories are named by
the millisecond, so `dir[r]` of two requests may coincide.

`Ingest`: the steps of the instances are conjoined with the order the handler imposes (`Accepted`,
`MayBuild`, `MayPublish`). `CrashRestart` keeps files and clears `window` and `seen`, as `main`
does; nothing replays the WAL. A request in flight is answered "gone".

`Executor`: `loop` is where the future of `run_all` stands, `task[i]` where a spawned task stands.
The check of the counter and the wait for a permit are separate steps. `Holders` are the tasks that own a
permit. `HitsOf(S)` adds up the hits of the segments of `S`. Cancellation tokens are left out: `search_one_segment` ignores its token.
Panics unwind in builds of the dev and test profiles; the release profile aborts.

`Paging`: `cand` and `match` are what prefilter and regex yield for a fixed query, any shape of
them. `fate` is what became of each segment in a page, constrained by `Fates` to what
`ScatterGather` permits. `MergePart` takes parts in every order the channel can deliver.
`Merge` is a fold of `Take` over the hits of a part. `exts` and `ample` are history: the ext_ids answered so far, and the segments
for which every page so far had room to spare and every scan kept within its budget. `listed` is what the manifest
names, generation after generation; `Publish` moves to the next one, at any time. `Ask` resolves
the newest, as `search` in http_api.rs does for every page, and `Respond` writes it into the cursor
(`pin`). A search by segment paths is the history of one generation.

`Grams`: characters are abstract; `Lower` and `Fold` stand for `to_lowercase` and for NFKC with
the removal of marks. The instance has a letter that loses its mark and a sign that NFKC
spells out with a capital letter. `Matches` is the regex `(?si)` of a wildcard, searched for
anywhere in a text: from the end of the pattern, `Before` says of each character at which places of the text what
begins with it can match, and `Starts` goes through them all. `Search` is the broker, `Cli` and `CliNext` are gzctl turning pages.

`Preview`: a preview is a sequence of characters and of the marks `Open`, `Close`, `Dots`. `Find`
is `Regex::find` of a wildcard (leftmost, stars greedy), `Needle` the `longest_literal_needle`,
`Lengths` the shortening of a needle down to three characters. Positions are characters; the
comment at the head of the module says why the byte offsets of the code agree with them.

`SegmentDir`: `file[f]` says which build wrote file `f` last and whether to its end; a build
(`begun`) carries its input, its index (the keys in ascending order) and, for each key, what a reader decodes from
the postings it wrote (`DecodeIds(EncodeIds(...))` of `PostingsCodec`). `from[f]` is the build a
file was of when the search opened it: the V1 reader keeps that content in memory, the V2 reader a
map of the file, which shows what `file[f]` is now. `Sound` compares the two before every read;
`Garble` is what happens otherwise. `rpc` names the file to open next, or the step of `prefilter`. `lo`, `hi`, `nth`, `entry`
are the variables of `lookup_gram` and of the loop that calls it. `completed` and `calm` are history.

## 3. The runs

| Run | Instance | Shows |
|---|---|---|
| `hotmem` | 4 calls, 2 keys or none, batches of 0 to 3, window of 2 | order, ids and admission under every interleaving |
| `manifest` | 3 appends, 2 at once, 2 shards, 5 kinds of initial file, 2 faults | `NewestResolves`, `ErrorMeansUnpublished` without overlap; `GenerationsInOrder` always; `StaysReadable`, `HistoryKept` as action properties |
| `ingest` | 2 requests, 1 key or none (one at most without), 2 milliseconds, 2 faults | what answers say about the disk and the manifest, whole builds, keys |
| `executor` | 0 to 3 segments, 1 or 2 permits, pages of 0 or 2, 0 to 2 hits | permits, one part each, skips, at most one late search, termination, refinement of `ScatterGather` |
| `paging` | 2 segments of 3 documents, side by side or one after the other, budget 0, 1 or 3, hit cap 2, pages of 0, 2 or 3, 1 fault | no repetition of a segment searched on every page, no loss where pages and budgets leave room, no page without progress, the end is reached |
| `grams` | 2 documents, some 300 patterns, 3 fields, limits 1 and 2, previews of 7 characters | segment and hot window agree, gzctl pages miss nothing, case does not matter, previews enclose the match and are honest |
| `segment_dir` | 2 builds of 3 inputs in 2 formats, 4 queries, base 2 for varints | one build is never read in parts, a finished build is answered exactly, the lookup is right, searches end |
| `hotmem_retry` | as `hotmem` | violation of `ReplayMeansApplied` |
| `manifest_race` | overlapping appends | violation of `AckedKept` |
| `ingest_readable` | one request, no fault | violation of `PublishedIsReadable` |
| `grams_own_text` | one document, one search | violation of `TextFindsItself` |
| `paging_cursor` | segments of three matches, a publication, pages of 2, no fault and no hot window | violation of `NextPageIsTheRest` |

The five violations are disagreements between the code and its own documents, tests or comments;
PROJECT.json quotes both sides. In short: a batch refused with a retry time leaves its key behind, so the
retry is answered as a repeat and lost; overlapping ingests drop each other's manifest entries;
the compactor deletes the `docs.jsonl` the segment needs; the broker compiles
the raw wildcard although texts are normalised, so letters such as the Russian short i never match;
the hits a full page has no room for are behind the cursor and never shown. Section 5 has the disagreements of the same kind
that no run of their own is about. The passing runs and the theorems say what holds beside these, and name the conditions: `misjudged` and `blind` for
the manifest, `steady` and `ample` for pages.

### Why the bounds are enough

The window of 2 with batches of 3 reaches a full window, a batch larger than the window and pushes
into a full window; the fourth call gives a refusal with a retry beside two running calls.
The inodes suffice for two writers, the manifest and a stale `.tmp`; three appends give an overlap
followed by a quiet publication, which is where a lost entry or a reused generation would show.
Two requests and two milliseconds give shared and separate directories; one fault is either a
failing operation, a hang-up or a crash. Two faults are a failing file operation and then a failing check of existence, or a crash and a failure in
the next life. Of the two requests of `ingest` one at most comes without a key, and no other is empty (`FewBatches`), to keep the run small; `hotmem` has them all. Three segments on two permits make the loop wait with one
input left. Segments of three documents let budget, hit cap and page size cut at different
places; a page of 3 has room for what a scan stopped at the cap of 2 brings; a budget of 0, which the request may ask for, stops a scan at its first document. Two documents of a segment suffice for prefilter errors, which concern one
document at a time; the second shows that postings are kept apart. The texts and patterns of `grams` contain
matches of one to nine characters at the beginning, inside and at the end of texts of up to eleven, on both sides
of the eight characters up to which the brackets fit a limit of 7.
Two builds are the fewest that mix files, and the properties of `segment_dir` speak of a first build and of
a last one that has ended. Of the inputs two
have three documents each, so that no count gives a mix away, and one has one, so that it does. Ids up to 2 in base 2
need one or two digits. Three keys, and queries with the first, the middle and the last, make the binary search
go both ways and fail.
`MaxInFlight`, `MaxFaults`, `MaxTime`, `MaxDocs`, `MaxBuilds`, `Inodes` and `FewBatches` are bounds of the
models and named as such where they are declared.

### Fairness

`Executor` assumes weak fairness of the future of `run_all` and of each task: the runtime polls what
is ready, and a search of a segment is a finite scan. Nothing is assumed about the client, the
timer or panics. `Paging` assumes that the client goes on asking; `ReachesEnd` speaks of page
sizes above 0, since a page of size 0 skips all segments, and bounds publications by the length of `listed`.
`SegmentDir` assumes that a search goes on once begun (its task is polled, and its loops have no awaits); builds may stop
or never begin. The other modules state safety only.

Deadlock is checked for `Paging`, whose client never stops. The other systems end when their
requests have been answered.

## 4. The proofs

Every theorem holds for all values of the constants that satisfy the named assumptions; the bounds of section 3 play no role.
Numbers of requests, appenders, segments, inputs and keys are sets or naturals without a limit. A safety
theorem is proved in three steps (initial states, `IInv /\ [Next]_vars => IInv'`, `IInv => Inv`) which a last temporal
step combines; one lemma per conjunct or per action says why the inductive invariant `IInv` survives.

### The hot window

`HotMemProofs`, for every set of calls and keys, every capacity from 1 and every bound on batches:

| Theorem | Statement | Argument |
|---|---|---|
| `TypeCorrect` | `Spec => []TypeOK` | inductive as it stands, with lemma `BatchFacts` for the ids |
| `WindowCorrect` | `Spec => []WindowIsRecent` | from `WindowInv` |
| `IdsCorrect` | `Spec => []IdsIncrease` | from `WindowInv` |
| `BackpressureIsPermanent` | `Spec => []RefusedMeansFull` | a refusal sees a window of `Cap`, and `Push` never makes a window shorter |
| `KeyAdmitsOnce` | `Spec => []AtMostOncePerKey` | from `KeysRecorded`: the key of a call that got past the check is in `seen` |
| `PushIsTheLoop` | `Spec => []LoopIsPush` | from `WindowInv`, with `KeepOneMore`: to evict after each document leaves what evicting at the end leaves |

`IdsIncrease` is not inductive: the id a new document gets depends on the length of the window, so
one has to know how the ids in the window relate to it. `IdFromSeq` says that the id of a document is
its place among all documents ever pushed, less one, capped by `Cap`; together with
`WindowIsRecent` (the places are consecutive and end at `pushed`) it is the inductive `WindowInv`.
The step that matters is `Push`: `KeepNewestFacts` says what the eviction leaves of a sequence, `BatchFacts`
what is appended, and `PushKeepsWindow` puts them together. `RefusedMeansFull` needs
that an unanswered call has the reply "none" (`RunningUnanswered`). The assumption is `HotMemAssumption`:
the capacity is a positive natural number (`with_cap` ignores 0), the bound on batches a natural number, and `NoKey` is not a key.

### The manifest

`ManifestFileProofs`, for every set of appends, shards, paths and inodes, whatever fails or crashes:

| Theorem | Statement | Argument |
|---|---|---|
| `ManifestTypes` | `MSpec => []MTypeOK` | from `SoundInv` |
| `GenerationsAreInOrder` | `MSpec => []GenerationsInOrder` | from `SoundInv` |
| `ErrorsArePublishedNowhere` | `MSpec => []ErrorMeansUnpublished` | from `Answered` |
| `SearchesSeeTheNewest` | `MSpec => []NewestResolves` | from `Kept` and `GenerationsInOrder` |
| `ReadersAlwaysParse` | `MSpec => StaysReadable` | from `Alone`, step by step (`DiskStep`) |
| `PublishedIsNeverLost` | `MSpec => HistoryKept` | from `Alone`, step by step (`DiskStep`) |

The first two hold however appends overlap. Neither is inductive, as they speak of the live file only: with two writers
any inode may become the live one, and a writer may still write into it afterwards. `SoundInv` therefore says that every content
an inode holds and every manifest a writer is about to write is `Sound`: well typed, at most one
entry per generation, none newer than the current one, and the current one listed. The step
that matters is `Read`: `NextGenFacts` says that the next generation is above every one of its shard
in the content read, and `PublishSound` that adding it keeps a content sound. `Bounded` is in the invariant because
nothing says that a set of entries is finite.

The other four are about appends that follow one another, and need to know what a lone writer carries from its read to its rename.
`HistoryInv` says it: the two names never refer to one inode (`Apart`, also when appends overlap); what the append in
flight is about to write contains what is on disk now and its own entry as the newest of its shard (`Prepared`); its inode is the
one behind `manifest.tmp`, empty after the open and the prepared content after the write, and a writer that goes on to initialise the file found none,
unless the check misjudged it (`Alone`); every entry is that of an append that succeeded (`Answered`: what `Prepared` adds to the disk comes from the
append itself, and the initialisation adds nothing); every append answered "ok" is on disk and the last of each shard is current (`Kept`). `Prepared` is about the disk at present although it was read earlier:
this is the point of the proof, and is why `Alone` is stated only while no two appends have overlapped. `Kept` needs
moreover that no append started blind, from a manifest it could not read, and that no existence check failed on a manifest that was there; `StaysReadable`
needs the second condition, `ErrorMeansUnpublished` neither. The assumption is `ManifestAssumption`; generations
are natural numbers (see section 5).

### Ingest

`IngestProofs`, for any number of requests, keys, shards, milliseconds and faults:

| Theorem | Statement | Argument |
|---|---|---|
| `TypeCorrect` | `Spec => []TypeOK` | component by component (`StepHot`, `StepSeg`, `StepHistory`, `StepLife`) |
| `AnswersMatchTheDisk` | `Spec => []AnswerMatchesDisk` | from `Order` |
| `KeysReachTheDiskOnce` | `Spec => []KeyStoredOncePerLife` | from `OnePerLife` and `Order` |
| `PublishedIsComplete` | `Spec => []PublishedIsBuilt` | from `NamesBuilt` |
| `AloneBuildsItsOwn` | `Spec => []OwnIndexAlone` | from `OwnIndex` |
| `StoredIsInTheManifest` | `Spec => []StoredIsPublished` | `Order` and `Kept` of the manifest |

The handler is a composition, and so is the proof: `M == INSTANCE ManifestFileProofs` carries `M!HistoryInv` along, and a step of
the handler is a step of the manifest or leaves it alone (`ManPart`, `StepHistory`), so its six theorems
hold of the composition without being proved again; likewise for the types of the hot window. What is new is how the components relate.
`Order` says how far a request got in one component if it is under way in the next. `Lives` and `OnePerLife`: a request that waits
for its answer runs in the present life of the broker, whose keys are in `seen`; of the requests of a life with one key one
at most was admitted, and a restart, which forgets the keys, starts another life.
`BuiltInOrder`: a build that stands at a file has written those before it, so one that is finished
has written all three of the index. `NamesBuilt` says of every path named by the live manifest, by any inode or by any
writer that its directory holds the index; with the live file alone it would not be inductive, since a writer hands
its content over at the rename. It survives another build into the same directory because a builder overwrites and never
removes files of the index. `OwnIndex` is for builds without a neighbour in their millisecond: every file written is of their own batch;
a second build of that millisecond makes the claim void from its first step on. The assumption
is `IngestAssumption`, which gives each component its own.

### The executor

`ExecutorProofs`, for any number of segments, hits, page sizes and permits:

| Theorem | Statement | Argument |
|---|---|---|
| `TypeCorrect` | `Spec => []TypeOK` | from `IInv`: that `free` never exceeds `permits` needs `PermitsConserved` |
| `PermitsAreConserved` | `Spec => []PermitsConserved` | every step takes or gives a permit with a change of `Holders` by one (`Took`, `Gave`) |
| `AtMostOneIsLate` | `Spec => []AtMostOneLate` | from `StopInv` |
| `OnePartForEach` | `Spec => []OnePartEach` | from `PartInv` |
| `SkipsLeaveAFullPage` | `Spec => []SkippedOnlyWhenFull` | from `CountInv`, `StopInv` and `PartInv` |
| `ImplementsPromise` | `Spec => Implements` | `InitPromised`, `StepPromised` |

The inductive `IInv` has, besides `TypeOK` and `PermitsConserved`, four parts. `LaunchInv`: inputs are launched in order,
those from `next` on have no task. `StopInv`: once an input is skipped or one is searched late the page is full and the loop is
not on its way to start another (`Full`), which no later step undoes as the counter never falls; so at most one is late,
and after a skipped input all launched ones are skipped. `PartInv`: the channel and the collected parts together hold one part of each
task that has sent (`OneOfEach`; `SendOne` and `CollectOne` say what sending and receiving do to it), until the
future is dropped; at the end the channel is empty and no task lives, so the parts are all there (`AnswerIsComplete`).
`CountInv`: the counter is the sum of the hits of the searches that were counted, and `TotalGrows` and
`SumSteps` say what counting one more does to that sum. So when a segment was skipped the sum had reached the page size, and by `StopInv` all
that was counted stands before it. The counter may run ahead of the answer, whose parts come later; at the end they are all there.
For the refinement each step decides one fate or none: `Count` is `Search`, `Panic` is `Lose`, `Skip` is `Skip`, the two
returns are `Return`, the others stutter. A running search may still decide its fate because, by `StopInv`,
nothing launched before it was skipped (`MayDecide`). The assumption is `ExecutorAssumption`: the bounds are
natural numbers.

### Paging

`PagingProofs`, for any number of segments, documents and generations, any limits and hot windows:

| Theorem | Statement | Argument |
|---|---|---|
| `TypeCorrect` | `Spec => []TypeOK` | from `IInv` |
| `NoneIsShownTwice` | `Spec => []OncePerSteadySegment` | from `BehindCursor` and `PageInv` |
| `ShortPagesLoseNothing` | `Spec => []AmplePagesLoseNothing` | from `PartsInv` and `ScanFacts` |
| `PagesMoveOn` | `Spec => NoPageWasted` | from `PartsInv` and `FatesInv`, with `ScanGoesOn` |

Between two pages the invariant is short: what was delivered of a segment searched on every page lies before the cursor
(`BehindCursor`). Within a page `PageInv` says that the hits on it come from the scans of parts already merged, and `PartsInv` that a
merged part has its place in the new cursor and each of its hits has its ext_id on the page, unless the page is full. `ScanFacts` is about one scan with both limits:
it goes through the candidates behind the cursor without a gap (what is before a scanned document is scanned), it scans at least
one if there is one, and `last_docid` is where it stood last; so what the new cursor passes was scanned, and what is scanned again is
beyond it. `MergeFacts` is about the fold of `Take`: a page never loses a hit, and each hit of the part is on it or was turned away by
the end; so a page that is not full at its end turned away copies only, and a scan within its budget verified what it scanned. The assumption is `PagingAssumption`.

`NoPageWasted` is what `ReachesEnd` rests on: what is left, taken from the first segment on, decreases
lexicographically with every page on which no segment failed. It is not a matter of one scan, as a skipped segment starts over. `FatesInv` says that
a segment is skipped only if a segment before it has hits (`NoHitsBefore`: a sum of hits that reaches a page of at least one has a positive term);
so neither the first segment with anything left nor one before it is skipped, and a scan that has a document left goes
past it (`ScanGoesOn`), with a budget of 0 too. That such pages keep coming is fairness, and stays with TLC.

What `Fates` takes for granted of a page is proved of `run_all` for every search: a part of each segment that did not panic (`OnePartForEach`),
and skipped segments only as a tail behind parts that hold a full page (`SkipsLeaveAFullPage`).

### Grams

`GramsProofs`, for every alphabet with its lower-casing and folding, and any documents, patterns and limits:

| Theorem | Statement | Argument |
|---|---|---|
| `TypeCorrect` | `Spec => []TypeOK` | from `SegmentInv` |
| `PrefilterLosesNothing` | `Spec => []SegmentAgreesWithHot` | from `SegmentInv` and `GramsOfAsked` |
| `PagesPassOverNothing` | `Spec => []CliMissesNothing` | from `SearchInv`, `GramsOfNormalised` and `PageFacts` |
| `CaseIsIgnored` | `Spec => []CaseDoesNotMatter` | `CaseOfStarts` for the regex, `CaseOfGrams` for the index |

The inductive `GramsInv` is plain: the index is complete (`SegmentInv`), a search found what the operators say, and
what earlier pages of gzctl should have shown they did show (`SearchInv`). The work is in what prefilter and regex, two
algorithms that never meet in the code, have to do with each other. `MatchRuns`: if the regex matches, every run of the pattern between wildcards
lies somewhere in the text, up to case. `Carry`, the core: then every run of the *normalised* pattern lies character by character in the *normalised*
text. A character may become none, one or several, so places in the two texts do not correspond; `Pieces` says where each character's piece ends,
and `Shifted` that equal pieces in a row stay a row, at some distance. A run of the normalised pattern may begin and end in the middle of such
pieces, but no wildcard lies between them, since wildcards are normalised to themselves. `GramsOfRuns` takes a run of
three from there. The broker needs `Carry` twice, as its grams come from the pattern normalised twice and its regex from the pattern as asked;
gzctl once. Both need a text that normalising leaves alone (`Stable`), once, at the end. `HitsAreCandidates` and `ShortPage` are about
the pages: the hits after an offset come no sooner than the candidates, so that the next offset passes over none.

The assumption is `GramsAssumption`: lower-casing is idempotent, it makes a wildcard of nothing else, and wildcards
are ASCII and normalised to themselves. Folding is arbitrary: it may spell a character out, drop it, bring in capital letters or even
wildcards, as NFKC does with the full-width asterisk.

### Previews

`GramsProofs` as well, for every width of characters in bytes and every `MaxLen` from 1:

| Theorem | Statement | Argument |
|---|---|---|
| `MatchIsShown` | `Spec => []MatchIsEnclosed` | `SnippetFacts` for the layout, `FindFacts` for the span |
| `PreviewsAreHonest` | `Spec => []PreviewIsHonest` | `BuildPreviewFacts`, with `NeedleFacts` |

A line is five pieces of text and marks between them. `LineFacts` says where the brackets stand and that taking the marks away leaves
the three pieces of text joined; `CutFacts` that what `ensure_max_chars` takes off is taken off the end, so that what is
left is a prefix of a part of the text and hence a part (`PrefixIsPart`), and that a cut shows. `ContextFacts` has the arithmetic of
the context: a match of up to `MaxLen + 1` ends within the limit, whatever its context costs. So the closing bracket survives the cut
(`CutEncloses`), and the same cut is why a longer match may lose it.

What goes into the brackets is another matter. `Find` takes the leftmost and longest span that matches by itself; that there is one follows from a match
anywhere in the text: a match ends at one place (`EndOfMatch`), and it is a match of the whole of what lies between its ends
(`MatchInSlice`). The span is not empty because a hit of the broker had grams to look for, which a pattern of stars alone
does not (`GramsNeedCharacter`). The needle of gzctl is the longest literal in bytes: a part of the pattern weighs the difference of two
increasing sums (`BytesOfParts`), so of the longest parts one is the first (`NeedleFacts`). The assumptions are `GramsAssumption` and
`PreviewAssumption`: a character has a width, `MaxLen` is positive (180 in the code), and marks are told from text.


### Postings

`SegmentDirProofs`, for every base of the digits (128 in the code):

| Theorem | Statement | Argument |
|---|---|---|
| `RoundTrip` | `DecodeIds(EncodeIds(S)) = S` for every finite set of naturals `S` | varints, then distances |

A varint of `x` read into a reader with value `v` and unit `u` leaves `v + x * u` and a fresh reader, also with more
bytes behind it; a least `x` for which this failed would have a quotient for which it fails. With
`FeedBoth` (feeding two sequences is feeding their concatenation) the bytes of `n` distances give back `n` numbers,
and adding distances up gives back the ids in order (`AscendingFacts`).

### The segment directory

`SegmentDirProofs`, for every set of grams, inputs and queries and any number of builds:

| Theorem | Statement | Argument |
|---|---|---|
| `TypeCorrect` | `Spec => []TypeOK` | from `IInv` |
| `FirstBuildIsUnmixed` | `Spec => []FirstBuildUnmixed` | from `FirstInv` |
| `LookupIsRight` | `Spec => []LookupRight` | from `LookupInv` |
| `SearchesAnswerTheBuild` | `Spec => []AnswersTheBuild` | from `AnswerInv` |

The inductive `IInv` has four parts. `TypeOK`'s last conjunct, that the candidates are documents of `docs.dat`, rests
on the comparison of counts in `OpenDocs`. `BuildInv` says that builds are what `BuildOf`
makes of inputs, that a whole file belongs to a build, and, in `OpenedInv`, which files have been opened when the search
stands where it stands. `FirstInv`: while there is one build, the files before the running one are whole, a whole file has
only whole files before it, and what has been opened is whole; with the order of the files (`OrderFacts`) it follows that `docs.jsonl`,
the only file that may be read in part, is read whole once `meta.json` has been opened, and that `Sound` holds wherever a map is read
(`FirstSound`), so `Garble` is never enabled. `LookupInv` is the loop invariant of `lookup_gram`: every place of the key is
in the window (`Bracket`); `Halving` says that one turn keeps it, which needs the keys in ascending order (`BuildFacts`).

`AnswersTheBuild` is the statement a user would make of the format: what a finished search found is exactly what the build holds. Its invariant
`AnswerInv` stands on top of `IInv`. `WholeInv`: what a build has written stays, up to the next build, and at its end all is there.
`SeenInv`: where the directory holds one build, the first or a settled last one (`Pure`), all that is opened is of that
build, and in a settled directory nothing fails and the format is told right. `DueInv`: no document the search
should find is lost from the candidates, gram after gram and through the field mask; this is where the
lookup must not miss (`LookupInv`) and the postings decoded must be the ones encoded (`RoundTrip`). The assumptions are `BaseAssumption` and
`SegmentDirAssumption`: keys are numbers, an input is a sequence with finitely many keys, queries
name at least one gram (`required_grams_from_wildcard` refuses others).

### Induction without an induction rule

The library's induction theorems take an operator as a parameter, which the provers at hand cannot instantiate. `NaturalSets`
says the same of sets: a set with 0 and, below `N`, the successor of each member has all of `0..N` (`InductionUpTo`, from
`LeastNatural`, which rests on well-foundedness), and a step function can be iterated (`Iterates`). A proof defines the set of numbers for which
its claim holds and cites these. So the sum of hits, the merge of a part, the sorting of ids and the varints, all
recursive functions, are within reach. No module declares a `RECURSIVE` operator.

### Proved and model-checked

Proved for all constants: all invariants and action properties that the passing runs of `HotMem`, `ManifestFile`, `Ingest`, `Executor`, `Paging`,
`Grams`, `Preview` and `SegmentDir` check, that `Executor` implements `ScatterGather`, and that the closed forms of
`HotMem` are what its loop does. Model-checked only is liveness
(`Finishes`, `ReachesEnd`, `SearchEnds`): liveness under fairness and ENABLED are outside the prover.

## 5. Abstractions and what is not modelled

- Files of a segment and of the WAL are written in one step each, so a torn file appears in
  the manifest only, where the inodes are modelled. A crash is a crash of the process, not of the machine: `manifest.tmp`
  is not synced before the rename, and what a power loss leaves is not modelled.
- The manifest path is taken as configured (`GZ_MANIFEST`), with one shard per broker in `Ingest`.
- Generations are natural numbers; the code has `u64` and `saturating_add`, and 2^64 publications are out of reach.
- `HotMem::clear` and the checksum validation of the WAL have no caller in the program.
- `Grams` takes lower-casing character by character, and `Same` compares what it gives. The Greek final sigma is outside of both: `to_lowercase` makes it
  from a capital at the end of a word, and the `(?i)` of the regex equates it with the other sigma while `Same` does not.
- Only the operator AND of `prefilter` is used by the program and modelled.
- Which segments a shard has is `Resolve` in `ManifestFile`; `Paging` takes it as a history of sets.
- `SegmentDir` writes a file in two steps, created and whole; a part of a V2 file is taken to fail its CRC. Two builds at once in one directory
  are not modelled. Opening one file, one turn of the binary search, reading the postings of a gram, a field mask, or
  all documents (`Scan`) is one step each. The reader keeps parsed documents, so reading them again gives the same. Field masks and documents
  are taken as read back as written; `OR` and `NOT` of `prefilter` have no caller.
- In `Preview` a text that contains brackets or dots of its own is not told from marks; the field shown when no preferred one is there
  is any field, in the code the first by name.
- Not modelled: the pointer store `manifest_store.rs` (one mutex around a map, no caller), metrics and timings, configuration,
  argument parsing, and code without callers (`ingest/memtable.rs`, `ingest/flusher.rs`, `search/manifest.rs`,
  `search/selector.rs`, the crate `storage`, `v2/docs_*.rs`, `v2/varint.rs`, `common/strings.rs`).

Observations made while modelling, which no run is about:

- `executor.rs:70` says the rest is cancelled once the page is full. The task cancels a token
  nothing else holds (171-173), and `search_one_segment` takes its token as `_ctok`: neither a full
  page nor the deadline stops a running search.
- `run_all` without inputs reports `deadline_hit` whenever the request has a deadline.
- Every search leaves a task behind that waits for `root_ct` (executor.rs:99-105).
- `normalize` is not idempotent, and patterns are normalised twice: a text with such a sign
  is not found by the segment although the regex would accept it. `SegmentAgreesWithHot` and
  `CliMissesNothing` exclude such texts explicitly.
- A pattern without a gram is an error in a segment, which becomes an empty part, while the hot window answers it.
- A read error and a manifest in V1 format count as an empty file, so the next publication drops
  all entries (`blind` in `ManifestFile`; the properties that depend on it say so).
- An existence check that fails counts as a missing file (`unwrap_or(false)`, http_api.rs:234): after a failed operation of `append_segment` the handler
  truncates the manifest that is there and writes `{}` over it, and all published entries are gone; the error of that write is dropped
  (236). fs.rs:67 calls the writing of the manifest atomic. `ExistsFails` is that step, `misjudged` the condition that `NewestResolves`,
  `StaysReadable`, `HistoryKept` and `StoredIsPublished` name.
- docs/rfcs/0001-search-and-replication-flows.md:82 says that a manifest has the full set of segments. A new generation lists its own segment
  alone (fs.rs:63-65), so a search by shard sees the newest batch only, which is what `NewestResolves` asserts.
- Hits beyond the size of the page are passed by the cursor and never shown (paginator.rs:39): the run `paging_cursor`. `NextPageIsTheRest`
  is broken in three more ways, for which the same run would need other values of its constants: the document at which a scan exceeds its budget is noted as scanned
  and not verified (storage_adapter.rs:66, against the comments at 34 and 65), so the next page starts behind it; the position of a failed or skipped
  segment is set to 0 (paginator.rs:55), so its hits come back, against checks.md:575, and its document 0 is passed over; and a page after a publication comes from the new
  generation, as the handler overwrites `pin_gen` (http_api.rs:76), against docs/testing.md:229 and line 204 of the RFC. `AmplePagesLoseNothing` states what
  is left: no loss to a client whose pages had room, within the budget, of segments never skipped.
- docs/testing.md:283 expects documents to be visible again after a replay of the WAL; nothing replays it.
- Two builds in one millisecond share a directory (`OwnIndexAlone` excludes it).
- `gzctl` pages by offset repeat hits: the offset counts candidates, the limit counts hits.
- Hits of the hot window come back on every page with room for them, since the hot part stays out of the cursor
  (paginator.rs:50-51); broker/tests/pagination_two_pages.rs:86 expects pages without repeats of segments without a hot window.
- A V2 build that was stopped and begun again in the same directory may be read with new files beside an old `meta.bin`. Every CRC is right; the reader compares the
  number of documents only (reader.rs:92), none of the sizes `meta.bin` records.
- A V1 build into a directory with a V2 segment leaves `meta.bin`, and broker and gzctl go on reading the V2 files. `Settled` excludes it.
- `META_HEADER_LEN` is 48 while the header written has 64 bytes, so "too small" is checked against the wrong size; `docs_dat_len` in `meta.bin` is
  where the writer's position was after it went back to the offsets, the start of the payload, and not the length of the file. Nobody reads it.
- A document without `_id` is stored with an empty one by the V1 writer and refused by the V2 writer.
- A match longer than the limit of a preview by two or more loses its closing bracket (`MatchIsEnclosed` names the limit).
  Previews of gzctl and of the hot window may show another field than the one that matched; gzctl prints a field name chosen in another
  order (main.rs:298) than the text beside it (preview.rs:38), though main.rs:288 says the logic is the same.
- A cursor that is not an object makes the handler panic (`as_object_mut().unwrap()`, http_api.rs:75).

## 6. Plan

Done: the core (hot window, manifest, ingest), the executor with its abstract specification, paging with
publications, grams and previews, the segment directory in both formats; the theorems of section 4.

Left, in order:

1. Two builds at once in one directory.
2. The pointer store as a refinement of a register with compare-and-swap, once something calls it.
