------------------------------- MODULE Ingest -------------------------------
(***************************************************************************)
(* POST /ingest from end to end, crates/broker/src/http_api.rs: the hot     *)
(* window (HotMem), the WAL, the segment build (SegmentBuild) and the        *)
(* publication in the manifest (ManifestFile), for requests that run        *)
(* concurrently, whose clients may hang up, in a broker that may crash and   *)
(* be started again with an empty HotMem (main.rs: nothing is replayed).     *)
(***************************************************************************)
EXTENDS Integers, Sequences, FiniteSets

CONSTANTS
  Requests, Keys, NoKey, MaxBatch, Cap,               \* of HotMem
  Shards, OldPath, Found, Inodes, MaxInFlight, MaxFaults,
                                                      \* of ManifestFile
  Nobody, MaxTime                                     \* of SegmentBuild

ASSUME IngestAssumption ==
  /\ MaxTime \in Nat /\ Nobody \notin Requests
  /\ Cap \in Nat \ {0} /\ MaxBatch \in Nat /\ NoKey \notin Keys
  /\ OldPath \notin 0..MaxTime /\ OldPath \notin Requests
  /\ Shards \subseteq Nat /\ Shards # {}
  /\ MaxInFlight \in Nat /\ MaxFaults \in Nat
  /\ Inodes \subseteq Nat \ {0}
  /\ Found \subseteq {"none", "empty", "braces", "v1", "flat"}

VARIABLES
  window, seen, pc, key, size, reply, pushed,         \* of HotMem
  file, man, tmp, mpc, job, flat, fd, attempt, faults, blind, misjudged,
  overlapped, newest,                                 \* of ManifestFile
  seg, bpc, dir, at, built,                           \* of SegmentBuild
  wal,        \* the WAL file of each request
  now,        \* the clock, in milliseconds
  life,       \* history: how often the broker was started
  lifeOf,     \* history: the life in which a request ran
  ack         \* what the client was answered

Hot == INSTANCE HotMem
Seg == INSTANCE SegmentBuild
Man == INSTANCE ManifestFile WITH Appenders <- Requests, Paths <- Seg!Dirs

hotvars == <<window, seen, pc, key, size, reply, pushed>>
manvars == <<file, man, tmp, mpc, job, flat, fd, attempt, blind, misjudged,
             overlapped, newest>>
segvars == <<seg, bpc, dir, at, built>>
own == <<wal, now, life, lifeOf, ack>>

vars == <<hotvars, manvars, faults, segvars, own>>

Answers == {"none", "idempotent", "refused", "stored", "segment_error",
            "manifest_error", "gone"}

TypeOK ==
  /\ Hot!TypeOK /\ Man!MTypeOK /\ Seg!BTypeOK
  /\ wal \in [Requests -> {"none", "tmp", "final", "summed"}]
  /\ now \in 0..MaxTime
  /\ life \in 1..MaxFaults + 1 /\ lifeOf \in [Requests -> 0..life]
  /\ ack \in [Requests -> Answers]

Init ==
  /\ Hot!Init /\ Man!MInit /\ Seg!BInit
  /\ wal = [r \in Requests |-> "none"]
  /\ now = 0 /\ life = 1
  /\ lifeOf = [r \in Requests |-> 0]
  /\ ack = [r \in Requests |-> "none"]
-----------------------------------------------------------------------------
Live(r) == ack[r] = "none"

Answer(r, what) == ack' = [ack EXCEPT ![r] = what]

\* hot.apply, a synchronous call: ends in reply[r].
ApplyHot(r) ==
  /\ Live(r) /\ Hot!Apply(r)
  /\ Cardinality({q \in Requests : Live(q) /\ pc[q] # "idle"} \cup {r}) <= MaxInFlight
  /\ lifeOf' = [lifeOf EXCEPT ![r] = life]
  /\ UNCHANGED <<manvars, faults, segvars, wal, now, life, ack>>

\* 503, or a repeat: nothing else runs (http_api.rs:178-203).
AnswerEarly(r) ==
  /\ Live(r)
  /\ \/ reply[r] = "backpressure" /\ Answer(r, "refused")
     \/ reply[r] = "idempotent" /\ Answer(r, "idempotent")
  /\ UNCHANGED <<hotvars, manvars, faults, segvars, wal, now, life, lifeOf>>

AcceptsAnything(r) == Live(r) /\ pc[r] = "done"   \* mutant: no early return

Accepted(r) == Live(r) /\ reply[r] = "added"

\* Wal::append_batch: .tmp is written (and synced), renamed, and read back for
\* the checksum file; the name is unique (wal.rs:42-88).
AppendWal(r) ==
  /\ Accepted(r)
  /\ \/ wal[r] = "none" /\ wal' = [wal EXCEPT ![r] = "tmp"]
     \/ wal[r] = "tmp" /\ wal' = [wal EXCEPT ![r] = "final"]
     \/ wal[r] = "final" /\ wal' = [wal EXCEPT ![r] = "summed"]
  /\ UNCHANGED <<hotvars, manvars, faults, segvars, now, life, lifeOf, ack>>

\* handle_batch_json builds from the WAL file append_batch returned.
MayBuild(r) == Accepted(r) /\ wal[r] = "summed"

BuildSegment(r) ==
  /\ MayBuild(r)
  /\ \/ Seg!MkDir(r, now) \/ Seg!CopyDocs(r) \/ Seg!ReadDocs(r)
     \/ Seg!WriteFile(r) \/ Seg!RemoveDocs(r) \/ Seg!InputGone(r)
  /\ UNCHANGED <<hotvars, manvars, faults, own>>

\* A file operation of the WAL or of the build fails.
StoreFails(r) ==
  /\ Accepted(r) /\ Man!Fault
  /\ \/ wal[r] # "summed" /\ Answer(r, "segment_error") /\ UNCHANGED segvars
     \/ wal[r] = "summed" /\ Seg!BuildFails(r) /\ UNCHANGED ack
  /\ UNCHANGED <<hotvars, manvars, wal, now, life, lifeOf>>

\* The reply is ok and carries segment_error; nothing is published.
AnswerSegmentError(r) ==
  /\ Accepted(r) /\ bpc[r] = "failed"
  /\ Answer(r, "segment_error")
  /\ UNCHANGED <<hotvars, manvars, faults, segvars, wal, now, life, lifeOf>>

PublishesEarly(r) ==   \* mutant: published as soon as the directory exists
  Accepted(r) /\ bpc[r] \notin {"idle", "failed"}

MayPublish(r) == Accepted(r) /\ bpc[r] = "done"

\* append_segment with its retry; one broker publishes to one shard.
PublishManifest(r) ==
  /\ MayPublish(r)
  /\ \/ \E s \in Shards : Man!Begin(r, s, dir[r])
     \/ Man!AppendStep(r) /\ mpc'[r] # "dead"
  /\ UNCHANGED <<hotvars, segvars, own>>

AnswerLate(r) ==
  /\ Live(r)
  /\ \/ mpc[r] = "ok" /\ Answer(r, "stored")
     \/ mpc[r] = "error" /\ Answer(r, "manifest_error")
  /\ UNCHANGED <<hotvars, manvars, faults, segvars, wal, now, life, lifeOf>>

\* The client hangs up: the handler is dropped at an await.
HangUp(r) ==
  /\ Accepted(r) /\ ~Seg!Synchronous(r)
  /\ \/ Man!Drop(r)
     \/ mpc[r] = "idle" /\ Man!Fault /\ UNCHANGED manvars
  /\ Answer(r, "gone")
  /\ UNCHANGED <<hotvars, segvars, wal, now, life, lifeOf>>

\* The broker dies and is started again: files stay, HotMem is empty.
CrashRestart ==
  /\ Man!Fault /\ Man!Stop
  /\ window' = << >> /\ seen' = {} /\ pushed' = 0
  /\ ack' = [r \in Requests |-> IF Live(r) /\ pc[r] # "idle" THEN "gone" ELSE ack[r]]
  /\ life' = life + 1
  /\ UNCHANGED <<pc, key, size, reply, segvars, wal, now, lifeOf>>

Tick ==
  /\ now < MaxTime /\ now' = now + 1
  /\ UNCHANGED <<hotvars, manvars, faults, segvars, wal, life, lifeOf, ack>>

Handle(r) ==
  \/ ApplyHot(r) \/ AnswerEarly(r) \/ AppendWal(r) \/ BuildSegment(r)
  \/ StoreFails(r) \/ AnswerSegmentError(r) \/ PublishManifest(r)
  \/ AnswerLate(r) \/ HangUp(r)

Next == (\E r \in Requests : Handle(r)) \/ CrashRestart \/ Tick

Spec == Init /\ [][Next]_vars
-----------------------------------------------------------------------------
(* Properties *)

OnDisk(r) == wal[r] \in {"final", "summed"}

Published(r) == \E e \in Man!OnDisk.segs : e.path = dir[r]

\* A client that is told its batch was stored, or only missed the manifest,
\* finds it in a finished WAL file, through any crash; one that is refused, or
\* told that it repeats itself, has left nothing on disk (http_api.rs:178-221).
AnswerMatchesDisk ==
  \A r \in Requests :
    /\ ack[r] \in {"stored", "manifest_error"} => OnDisk(r)
    /\ ack[r] \in {"idempotent", "refused"} => wal[r] = "none" /\ bpc[r] = "idle"

\* Every directory a readable manifest names holds grams, masks and meta, at
\* every instant, whatever runs in the same millisecond, fails or crashes:
\* publication comes after the whole build (http_api.rs:208-231).
PublishedIsBuilt ==
  \A e \in Man!OnDisk.segs : e.path # OldPath =>
    \A f \in {"grams", "masks", "meta"} : seg[e.path][f] # Seg!Absent

\* A build that had its millisecond for itself holds the index of its own batch
\* in all of its files, however other builds interleave (compactor.rs:24-44).
OwnIndexAlone ==
  \A r \in Requests :
    bpc[r] = "done" /\ (\A q \in Requests \ {r} : bpc[q] # "idle" => at[q] # at[r]) =>
      \A f \in {"grams", "masks", "meta"} :
        seg[dir[r]][f] = [form |-> "stored", of |-> r]

\* Within one life of the broker a key reaches the disk at most once, whatever
\* retries, refusals and hang-ups (http_api.rs:193, hot.rs:61-66).
KeyStoredOncePerLife ==
  \A q, r \in Requests :
    /\ wal[q] # "none" /\ wal[r] # "none"
    /\ key[q] = key[r] /\ key[q] # NoKey /\ lifeOf[q] = lifeOf[r]
    => q = r

\* With one publication at a time, a batch answered as stored is and stays in
\* the manifest, unless an append found the file unreadable or in another
\* format, or an existence check failed on it (http_api.rs:224-247, fs.rs:31-76).
StoredIsPublished ==
  ~overlapped /\ ~blind /\ ~misjudged =>
    \A r \in Requests : ack[r] = "stored" => Published(r)

\* A segment the manifest names can be opened by a search.  (segjson.rs:12-16
\* lists docs.jsonl as a part of a segment; docs/runbook.md, section 6: the
\* segment can be included in /search.)
PublishedIsReadable ==
  \A e \in Man!OnDisk.segs : e.path # OldPath => Seg!Openable(e.path)
=============================================================================
