---------------------------- MODULE ManifestFile ----------------------------
(***************************************************************************)
(* FsManifestStore, crates/broker/src/manifest/: the manifest of a broker  *)
(* is one JSON file, read whole by searches and replaced by every ingest   *)
(* through read, write manifest.tmp, rename.  Nothing serialises two        *)
(* ingests, so the model keeps inodes: a writer holds the inode it opened,  *)
(* whatever name that inode has by the time it writes.  The retry that      *)
(* ingest_batch puts around append_segment (http_api.rs:231-246) is         *)
(* included.                                                               *)
(***************************************************************************)
EXTENDS Integers, FiniteSets, FiniteSetsExt

CONSTANTS
  Appenders,    \* calls of append_segment by POST /ingest
  Shards,       \* GZ_SHARD of the brokers that share the file
  Paths,        \* segment directories
  OldPath,      \* a segment the file lists before the broker starts
  Found,        \* which of the files below the broker may find when it starts
  Inodes,       \* bound: inodes of manifest.json and manifest.tmp
  MaxInFlight,  \* bound: appends running at once
  MaxFaults     \* bound: failing file operations, hang-ups and crashes

ASSUME ManifestAssumption ==
  /\ OldPath \notin Paths /\ OldPath \notin Appenders
  /\ Shards \subseteq Nat /\ Shards # {}
  /\ MaxInFlight \in Nat /\ MaxFaults \in Nat
  /\ Inodes \subseteq Nat \ {0}
  /\ Found \subseteq {"none", "empty", "braces", "v1", "flat"}

VARIABLES
  file,       \* what each inode holds
  man, tmp,   \* the inodes named manifest.json and manifest.tmp; 0 is none
  mpc,        \* where each append stands
  job,        \* the shard and the path it publishes
  flat,       \* the manifest it is about to write
  fd,         \* the inode it opened; 0 is none
  attempt,    \* 1, or 2 after the file was initialised with {}
  faults,     \* history: faults injected so far
  blind,      \* history: an append started from an empty manifest instead of
              \* the entries of the file
  misjudged,  \* history: an existence check that failed took a manifest for
              \* missing
  overlapped, \* history: two appends ran at once
  newest      \* history: for each shard the append renamed into place last

mvars == <<file, man, tmp, mpc, job, flat, fd, attempt, faults, blind,
           misjudged, overlapped, newest>>

\* A manifest in the file: fmt says how its bytes parse, gen is "shards" (0 for
\* a missing shard), segs the entries "shard:gen" -> path.
Entry == [shard : Shards, gen : Nat \ {0}, path : Paths \cup {OldPath}]
Content == [fmt : {"flat", "v1", "braces", "empty", "garbage"},
            gen : [Shards -> Nat], segs : SUBSET Entry]

Blank(f) == [fmt |-> f, gen |-> [s \in Shards |-> 0], segs |-> {}]

Idle == {"idle", "ok", "error", "dead"}
Running == {"start", "read", "opened", "written", "failed", "init", "emptied"}

MTypeOK ==
  /\ file \in [Inodes -> Content]
  /\ man \in Inodes \cup {0} /\ tmp \in Inodes \cup {0}
  /\ mpc \in [Appenders -> Idle \cup Running]
  /\ job \in [Appenders -> [shard : Shards, path : Paths \cup {OldPath}]]
  /\ flat \in [Appenders -> Content]
  /\ fd \in [Appenders -> Inodes \cup {0}]
  /\ attempt \in [Appenders -> 1..2]
  /\ faults \in 0..MaxFaults
  /\ blind \in BOOLEAN /\ misjudged \in BOOLEAN /\ overlapped \in BOOLEAN
  /\ newest \in [Shards -> Appenders \cup {OldPath}]

\* What a broker may find: no file, a file made by touch, one it initialised
\* and never filled, a V1 file, or a flat one, with "shards" or keys alone.
OldSeg(s, g) == [shard |-> s, gen |-> g, path |-> OldPath]
OneOld(f, s, g, k) ==
  [fmt |-> f, gen |-> [x \in Shards |-> IF x = s THEN g ELSE 0],
   segs |-> {OldSeg(s, k)}]
InitialFiles ==
  {c \in {Blank("empty"), Blank("braces")} \cup
         UNION {{OneOld("v1", s, 1, 1), OneOld("flat", s, 1, 1), OneOld("flat", s, 0, 2)}
                  : s \in Shards}
     : c.fmt \in Found}

Least(S) == {i \in S : \A j \in S : i <= j}

MInit ==
  /\ \/ "none" \in Found /\ man = 0 /\ file = [i \in Inodes |-> Blank("empty")]
     \/ \E c \in InitialFiles :
          /\ man \in Least(Inodes)
          /\ file = [i \in Inodes |-> IF i = man THEN c ELSE Blank("empty")]
  /\ tmp = 0 /\ faults = 0
  /\ blind = FALSE /\ misjudged = FALSE /\ overlapped = FALSE
  /\ mpc = [a \in Appenders |-> "idle"]
  /\ job = [a \in Appenders |-> [shard |-> Min(Shards), path |-> OldPath]]
  /\ flat = [a \in Appenders |-> Blank("empty")]
  /\ fd = [a \in Appenders |-> 0]
  /\ attempt = [a \in Appenders |-> 1]
  /\ newest = [s \in Shards |-> OldPath]
-----------------------------------------------------------------------------
(* The pure part of append_segment and of the readers *)

OnDisk == IF man = 0 THEN Blank("empty") ELSE file[man]

Parsable(c) == c.fmt \in {"flat", "v1"}

GensOf(c, s) == {e.gen : e \in {x \in c.segs : x.shard = s}} \cup {c.gen[s]}

NextGenOfShards(c, s) == c.gen[s] + 1     \* mutant: the keys are ignored
NextGenFromZero(c, s) == Max(GensOf(c, s))  \* mutant: the first gen is 0

\* The maximum over "shards" and the "shard:gen" keys, plus one (fs.rs:50-61).
NextGen(c, s) == Max(GensOf(c, s)) + 1

PublishKeysOnly(c, j) ==   \* mutant: flat.shards is not updated
  LET g == NextGen(c, j.shard)
  IN  [c EXCEPT !.fmt = "flat",
         !.segs = @ \cup {[shard |-> j.shard, gen |-> g, path |-> j.path]}]

\* The manifest with the segment under a new generation of its shard.
Publish(c, j) ==
  LET g == NextGen(c, j.shard)
  IN  [fmt |-> "flat", gen |-> [c.gen EXCEPT ![j.shard] = g],
       segs |-> c.segs \cup {[shard |-> j.shard, gen |-> g, path |-> j.path]}]

BaseOwnShard(s) ==   \* mutant: the entries of other shards are dropped
  IF OnDisk.fmt = "flat"
  THEN [OnDisk EXCEPT !.segs = {e \in @ : e.shard = s}]
  ELSE Blank("flat")

BaseFresh(s) == Blank("flat")   \* mutant: the manifest is written anew

\* Only a flat file is built upon; anything else counts as empty (fs.rs:33-48).
Base(s) == IF OnDisk.fmt = "flat" THEN OnDisk ELSE Blank("flat")

\* What a search of a shard finds: the segments of its current generation
\* (ManifestUnified::resolve).
Resolve(c, s) ==
  {e.path : e \in {x \in c.segs : x.shard = s /\ x.gen = c.gen[s]}}

\* What GET /manifest/:shard answers; without an entry in "shards" the keys
\* decide.  Generation 0 stands for 404.
ManifestOf(c, s) ==
  LET g == IF ~Parsable(c) THEN 0
           ELSE IF c.gen[s] # 0 \/ c.fmt = "v1" THEN c.gen[s]
           ELSE Max(GensOf(c, s))
  IN  [gen |-> g, segments |-> {e.path : e \in {x \in c.segs : x.shard = s /\ x.gen = g}}]

\* What an inode holds after a writer that truncated it at open writes new from
\* offset 0: a longer text written meanwhile keeps its tail.  The length grows
\* with the number of entries (the paths of one broker have one length).
Overwrite(old, new) ==
  IF Cardinality(old.segs) > Cardinality(new.segs)
  THEN [old EXCEPT !.fmt = "garbage"] ELSE new
-----------------------------------------------------------------------------
(* The steps of append_segment *)

InFlight == {a \in Appenders : mpc[a] \in Running}

Goto(a, s) == mpc' = [mpc EXCEPT ![a] = s]

\* An ingest with a finished segment calls append_segment.
Begin(a, s, p) ==
  /\ mpc[a] = "idle"
  /\ Cardinality(InFlight) < MaxInFlight
  /\ Goto(a, "start")
  /\ job' = [job EXCEPT ![a] = [shard |-> s, path |-> p]]
  /\ overlapped' = (overlapped \/ InFlight # {})
  /\ UNCHANGED <<file, man, tmp, flat, fd, attempt, faults, blind, misjudged,
                 newest>>

\* Steps 0 to 2: read the file, compute the next manifest.
Read(a) ==
  /\ mpc[a] = "start"
  /\ Goto(a, "read")
  /\ flat' = [flat EXCEPT ![a] = Publish(Base(job[a].shard), job[a])]
  /\ blind' = (blind \/ (OnDisk.fmt # "flat" /\ OnDisk.segs # {}))
  /\ UNCHANGED <<file, man, tmp, job, fd, attempt, faults, misjudged, overlapped,
                 newest>>

Fault == faults < MaxFaults /\ faults' = faults + 1

\* Any error of fs::read, not only a missing file, counts as an empty file.
ReadFails(a) ==
  /\ mpc[a] = "start" /\ Fault
  /\ Goto(a, "read")
  /\ flat' = [flat EXCEPT ![a] = Publish(Blank("flat"), job[a])]
  /\ blind' = (blind \/ OnDisk.segs # {})
  /\ UNCHANGED <<file, man, tmp, job, fd, attempt, misjudged, overlapped, newest>>

FreeInodes == Inodes \ ({man, tmp} \cup {fd[x] : x \in Appenders})

\* The inode an existing name refers to, or a new one.
Target(name) == IF name # 0 THEN {name} ELSE Least(FreeInodes)

OpenInPlace(a) ==   \* mutant: the manifest itself is opened for writing
  /\ mpc[a] = "read"
  /\ \E i \in Target(man) :
       /\ fd' = [fd EXCEPT ![a] = i]
       /\ tmp' = i
       /\ file' = [file EXCEPT ![i] = Blank("empty")]
  /\ Goto(a, "opened")
  /\ UNCHANGED <<man, job, flat, attempt, faults, blind, misjudged, overlapped,
                 newest>>

\* fs::write(&tmp): create or truncate ...
Open(a) ==
  /\ mpc[a] = "read"
  /\ \E i \in Target(tmp) :
       /\ fd' = [fd EXCEPT ![a] = i]
       /\ tmp' = i
       /\ file' = [file EXCEPT ![i] = Blank("empty")]
  /\ Goto(a, "opened")
  /\ UNCHANGED <<man, job, flat, attempt, faults, blind, misjudged, overlapped,
                 newest>>

\* ... and write, into the inode that was opened.
Write(a) ==
  /\ mpc[a] = "opened"
  /\ file' = [file EXCEPT ![fd[a]] = Overwrite(@, flat[a])]
  /\ fd' = [fd EXCEPT ![a] = 0]
  /\ Goto(a, "written")
  /\ UNCHANGED <<man, tmp, job, flat, attempt, faults, blind, misjudged,
                 overlapped, newest>>

RenameThenSync(a) ==   \* mutant: a step after the rename may report an error
  /\ mpc[a] = "written" /\ tmp # 0
  /\ man' = tmp /\ tmp' = 0
  /\ newest' = [newest EXCEPT ![job[a].shard] = a]
  /\ \E s \in {"ok", "failed"} : Goto(a, s)
  /\ UNCHANGED <<file, job, flat, fd, attempt, faults, blind, misjudged, overlapped>>

Rename(a) ==
  /\ mpc[a] = "written" /\ tmp # 0
  /\ man' = tmp /\ tmp' = 0
  /\ newest' = [newest EXCEPT ![job[a].shard] = a]
  /\ Goto(a, "ok")
  /\ UNCHANGED <<file, job, flat, fd, attempt, faults, blind, misjudged, overlapped>>

\* The other append renamed manifest.tmp away: ENOENT.
RenameMissing(a) ==
  /\ mpc[a] = "written" /\ tmp = 0
  /\ Goto(a, "failed")
  /\ UNCHANGED <<file, man, tmp, job, flat, fd, attempt, faults, blind, misjudged,
                 overlapped, newest>>

\* Opening, writing or renaming fails (disk full, permissions).
IoFails(a) ==
  /\ mpc[a] \in {"read", "opened", "written"} /\ Fault
  /\ Goto(a, "failed")
  /\ fd' = [fd EXCEPT ![a] = 0]
  /\ UNCHANGED <<file, man, tmp, job, flat, attempt, blind, misjudged, overlapped,
                 newest>>

\* ingest_batch after the first error asks whether the file exists.  If it does
\* not it is made and the append tried once more; otherwise, and after the second
\* error, the answer is manifest_error.
AfterError(a) ==
  /\ mpc[a] = "failed"
  /\ Goto(a, IF man = 0 /\ attempt[a] = 1 THEN "init" ELSE "error")
  /\ UNCHANGED <<file, man, tmp, job, flat, fd, attempt, faults, blind, misjudged,
                 overlapped, newest>>

\* try_exists(..).unwrap_or(false): a check that fails says that there is no file.
ExistsFails(a) ==
  /\ mpc[a] = "failed" /\ attempt[a] = 1 /\ Fault
  /\ Goto(a, "init")
  /\ misjudged' = (misjudged \/ man # 0)
  /\ UNCHANGED <<file, man, tmp, job, flat, fd, attempt, blind, overlapped, newest>>

\* fs::write(manifest, "{}"), whatever the name refers to by now: create or
\* truncate ...
InitOpen(a) ==
  /\ mpc[a] = "init"
  /\ \E i \in Target(man) :
       /\ man' = i
       /\ fd' = [fd EXCEPT ![a] = i]
       /\ file' = [file EXCEPT ![i] = Blank("empty")]
  /\ Goto(a, "emptied")
  /\ UNCHANGED <<tmp, job, flat, attempt, faults, blind, misjudged, overlapped,
                 newest>>

\* Both ways out of that call lead to the second append: its error is ignored.
Retry(a) ==
  /\ attempt' = [attempt EXCEPT ![a] = 2]
  /\ fd' = [fd EXCEPT ![a] = 0]
  /\ Goto(a, "start")
  /\ UNCHANGED <<man, tmp, job, flat, blind, misjudged, overlapped, newest>>

\* ... and write.
InitWrite(a) ==
  /\ mpc[a] = "emptied" /\ Retry(a)
  /\ file' = [file EXCEPT ![fd[a]] = Overwrite(@, Blank("braces"))]
  /\ UNCHANGED faults

\* Opening or writing fails; a file that was opened stays truncated.
InitFails(a) ==
  /\ mpc[a] \in {"init", "emptied"} /\ Fault /\ Retry(a)
  /\ UNCHANGED file

\* The client hangs up and the handler is dropped at an await; within fs::write
\* there is none, it runs to its end on a blocking thread.
Drop(a) ==
  /\ mpc[a] \in Running \ {"opened", "emptied"} /\ Fault
  /\ Goto(a, "dead")
  /\ UNCHANGED <<file, man, tmp, job, flat, fd, attempt, blind, misjudged,
                 overlapped, newest>>

\* The broker dies; its open files are closed, the directory stays as it is.
Stop ==
  /\ mpc' = [a \in Appenders |-> IF a \in InFlight THEN "dead" ELSE mpc[a]]
  /\ fd' = [a \in Appenders |-> 0]
  /\ UNCHANGED <<file, man, tmp, job, flat, attempt, blind, misjudged, overlapped,
                 newest>>

Crash == InFlight # {} /\ Fault /\ Stop

AppendStep(a) ==
  \/ Read(a) \/ ReadFails(a) \/ Open(a) \/ Write(a) \/ Rename(a)
  \/ RenameMissing(a) \/ IoFails(a) \/ AfterError(a) \/ ExistsFails(a)
  \/ InitOpen(a) \/ InitWrite(a) \/ InitFails(a) \/ Drop(a)

MNext ==
  \/ \E a \in Appenders, s \in Shards, p \in Paths : Begin(a, s, p)
  \/ \E a \in Appenders : AppendStep(a)
  \/ Crash

MSpec == MInit /\ [][MNext]_mvars
-----------------------------------------------------------------------------
(* Properties *)

\* As long as no two appends overlap and no existence check fails on a manifest
\* that is there, a manifest that parses never turns into one that does not,
\* through crashes and failing writes (fs.rs:67-74: written aside and renamed
\* into place).
StaysReadable ==
  [][Parsable(OnDisk) /\ ~overlapped' /\ ~misjudged' => Parsable(OnDisk')]_mvars

\* If moreover no append starts blind, every step keeps all published entries and
\* no generation goes back (fs.rs:50-64, the other shards' entries included).
HistoryKept ==
  [][~overlapped' /\ ~misjudged' /\ ~blind' /\ OnDisk.fmt = "flat" =>
       /\ OnDisk.segs \subseteq OnDisk'.segs
       /\ \A s \in Shards : OnDisk.gen[s] <= OnDisk'.gen[s]]_mvars

\* Under the same conditions a search of a shard and GET /manifest/:shard both
\* see the segment renamed into place last for that shard, through publications
\* to other shards, failing operations and crashes; they see no other segment of
\* it, since a new generation lists its own alone (fs.rs:63-65).
NewestResolves ==
  ~overlapped /\ ~misjudged /\ ~blind /\ Parsable(OnDisk) =>
    \A s \in Shards :
      newest[s] # OldPath =>
        /\ Resolve(OnDisk, s) = {job[newest[s]].path}
        /\ ManifestOf(OnDisk, s) =
             [gen |-> OnDisk.gen[s], segments |-> Resolve(OnDisk, s)]

\* As long as no two appends overlap, the manifest names what appends that
\* succeeded have published and nothing else: what an append answered with
\* manifest_error has left in manifest.tmp is never renamed into place by a later
\* one, so publishing it again cannot double it (http_api.rs:233-246,
\* fs.rs:72-74).
ErrorMeansUnpublished ==
  ~overlapped =>
    \A e \in OnDisk.segs : e.path # OldPath =>
      \E a \in Appenders :
        mpc[a] = "ok" /\ job[a].shard = e.shard /\ job[a].path = e.path

\* Whatever overlaps, fails or crashes, one generation of a shard names one
\* segment, as an append always opens a new generation, and no entry is newer than
\* the generation searches use (fs.rs:50-65).
GenerationsInOrder ==
  /\ \A x, y \in OnDisk.segs : x.shard = y.shard /\ x.gen = y.gen => x = y
  /\ OnDisk.fmt = "flat" =>
       \A e \in OnDisk.segs :
         OnDisk.gen[e.shard] # 0 => e.gen <= OnDisk.gen[e.shard]

\* Once no append runs, every publication that was answered without an error
\* is in the manifest.  (docs/rfcs/0001: the generation grows monotonically and
\* the manifest is updated atomically by compare-and-swap.)
AckedKept ==
  InFlight = {} => \A a \in Appenders : mpc[a] = "ok" =>
    \E e \in OnDisk.segs : e.shard = job[a].shard /\ e.path = job[a].path
=============================================================================
