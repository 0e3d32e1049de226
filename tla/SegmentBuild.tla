---------------------------- MODULE SegmentBuild ----------------------------
(***************************************************************************)
(* One WAL file becomes one V1 segment directory: Compactor::wal_to_segment *)
(* (broker/src/ingest/compactor.rs) and the writer and reader of V1         *)
(* segments (grepzilla_segment/src/segjson.rs).  The directory is named     *)
(* after the clock in milliseconds, so two builds of one millisecond share  *)
(* it, file by file.                                                       *)
(***************************************************************************)
EXTENDS Integers

CONSTANTS
  Requests,   \* the batches
  Nobody,     \* of no batch
  MaxTime     \* bound: milliseconds

VARIABLES
  seg,        \* the files of each segment directory
  bpc,        \* where each build stands
  dir,        \* the directory it writes
  at,         \* history: the millisecond in which it named the directory
  built       \* the documents, grams and masks it holds in memory

bvars == <<seg, bpc, dir, at, built>>

Dirs == 0..MaxTime

\* A file is derived from the documents of a batch: "raw" as they were posted,
\* "stored" as StoredDoc records and their index, "nested" when stored records
\* were taken for posted ones.
Forms == {"raw", "stored", "nested"}
Absent == [form |-> "absent", of |-> Nobody]
FileVal == {Absent} \cup [form : Forms, of : Requests]

Files == {"grams", "masks", "docs", "meta"}

\* A build that stands at a file is about to write it; this is the order in
\* which write_segment creates them (segjson.rs:70-104).
After == [grams |-> "masks", masks |-> "docs", docs |-> "meta", meta |-> "remove"]

Steps == {"idle", "dir", "copied", "remove", "done", "failed"} \cup Files

BTypeOK ==
  /\ seg \in [Dirs -> [Files -> FileVal]]
  /\ bpc \in [Requests -> Steps]
  /\ dir \in [Requests -> Dirs] /\ at \in [Requests -> Dirs]
  /\ built \in [Requests -> FileVal]

BInit ==
  /\ seg = [d \in Dirs |-> [f \in Files |-> Absent]]
  /\ bpc = [r \in Requests |-> "idle"]
  /\ dir = [r \in Requests |-> 0] /\ at = [r \in Requests |-> 0]
  /\ built = [r \in Requests |-> Absent]

DirNameSeconds(t) == t \div 2   \* mutant: a coarser clock

\* format!("{:015}", ts_ms): different milliseconds, different names.
DirName(t) == t

\* The checksum of the WAL is checked and a mismatch only logged; then the
\* directory is created, or found (compactor.rs:19-27).
MkDir(r, now) ==
  /\ bpc[r] = "idle"
  /\ dir' = [dir EXCEPT ![r] = DirName(now)]
  /\ at' = [at EXCEPT ![r] = now]
  /\ bpc' = [bpc EXCEPT ![r] = "dir"]
  /\ UNCHANGED <<seg, built>>

PutFile(r, f, v) == seg' = [seg EXCEPT ![dir[r]][f] = v]

\* The WAL is copied to docs.jsonl of the directory.
CopyDocs(r) ==
  /\ bpc[r] = "dir"
  /\ PutFile(r, "docs", [form |-> "raw", of |-> r])
  /\ bpc' = [bpc EXCEPT ![r] = "copied"]
  /\ UNCHANGED <<dir, at, built>>

\* What the writer makes of the docs.jsonl it finds.
Digest(v) ==
  [form |-> IF v.form = "raw" THEN "stored" ELSE "nested", of |-> v.of]

\* write_segment reads docs.jsonl ...
ReadDocs(r) ==
  /\ bpc[r] = "copied"
  /\ seg[dir[r]]["docs"] # Absent
  /\ built' = [built EXCEPT ![r] = Digest(seg[dir[r]]["docs"])]
  /\ bpc' = [bpc EXCEPT ![r] = "grams"]
  /\ UNCHANGED <<seg, dir, at>>

\* ... and writes its four files, docs.jsonl over its own input.
WriteFile(r) ==
  /\ bpc[r] \in Files
  /\ PutFile(r, bpc[r], built[r])
  /\ bpc' = [bpc EXCEPT ![r] = After[@]]
  /\ UNCHANGED <<dir, at, built>>

\* The "intermediate" docs.jsonl is removed; an error is ignored.
RemoveDocs(r) ==
  /\ bpc[r] = "remove"
  /\ PutFile(r, "docs", Absent)
  /\ bpc' = [bpc EXCEPT ![r] = "done"]
  /\ UNCHANGED <<dir, at, built>>

\* A build in the same directory has removed the input.
InputGone(r) ==
  /\ bpc[r] = "copied"
  /\ seg[dir[r]]["docs"] = Absent
  /\ bpc' = [bpc EXCEPT ![r] = "failed"]
  /\ UNCHANGED <<seg, dir, at, built>>

\* Any file operation before the last may fail.
BuildFails(r) ==
  /\ bpc[r] \in {"idle", "dir", "copied"} \cup Files
  /\ bpc' = [bpc EXCEPT ![r] = "failed"]
  /\ UNCHANGED <<seg, dir, at, built>>

\* The steps of write_segment run without an await in between.
Synchronous(r) == bpc[r] \in Files

\* What JsonSegmentReader::open_segment needs: meta, grams and StoredDoc lines;
\* the masks may be missing (segjson.rs:117-153).
Openable(d) ==
  /\ seg[d]["meta"] # Absent
  /\ seg[d]["grams"] # Absent
  /\ seg[d]["docs"].form \in {"stored", "nested"}
=============================================================================
