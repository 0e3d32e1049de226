---------------------------- MODULE IngestProofs ----------------------------
(***************************************************************************)
(* Theorems about Ingest, for every number of requests, keys, shards,       *)
(* milliseconds and faults.  What HotMem and ManifestFile promise is cited  *)
(* from their own proofs, through the instances H and M; M!HistoryInv is    *)
(* carried along as a part of the invariant.                                *)
(***************************************************************************)
EXTENDS Ingest, FiniteSetTheorems, TLAPS

H == INSTANCE HotMemProofs
M == INSTANCE ManifestFileProofs WITH Appenders <- Requests, Paths <- Seg!Dirs

\* How far a request is in one component says how far it is in the one before.
Order ==
  \A r \in Requests :
    /\ reply[r] # "none" => pc[r] = "done"
    /\ wal[r] # "none" => reply[r] = "added"
    /\ bpc[r] # "idle" => wal[r] = "summed"
    /\ mpc[r] # "idle" => bpc[r] = "done" /\ job[r].path = dir[r]
    /\ ack[r] = "refused" => reply[r] = "backpressure"
    /\ ack[r] = "idempotent" => reply[r] = "idempotent"
    /\ ack[r] = "stored" => mpc[r] = "ok"
    /\ ack[r] = "manifest_error" => mpc[r] = "error"

\* A request that waits for its answer runs in this life of the broker; the keys
\* of this life are recorded.
Lives ==
  \A r \in Requests :
    /\ pc[r] # "idle" /\ Live(r) => lifeOf[r] = life
    /\ pc[r] # "idle" /\ lifeOf[r] = life /\ key[r] # NoKey => key[r] \in seen

OnePerLife ==
  \A q, r \in Requests :
    /\ pc[q] # "idle" /\ reply[q] # "idempotent"
    /\ pc[r] # "idle" /\ reply[r] # "idempotent"
    /\ key[q] = key[r] /\ key[q] # NoKey /\ lifeOf[q] = lifeOf[r]
    => q = r

Index == {"grams", "masks", "meta"}

\* The files of the index a build has written when it stands at s.
WrittenAt(s) ==
  IF s = "masks" THEN {"grams"}
  ELSE IF s \in {"docs", "meta"} THEN {"grams", "masks"}
  ELSE IF s \in {"remove", "done"} THEN Index
  ELSE {}

BuiltInOrder ==
  \A r \in Requests :
    /\ dir[r] = at[r]
    /\ bpc[r] \in Seg!Files => built[r] # Seg!Absent
    /\ \A f \in WrittenAt(bpc[r]) : seg[dir[r]][f] # Seg!Absent

\* Whatever some inode or some writer names is built.
NamesBuilt ==
  \A d \in Seg!Dirs : M!Named(d) => \A f \in Index : seg[d][f] # Seg!Absent

Alone(r) == \A q \in Requests \ {r} : bpc[q] # "idle" => at[q] # at[r]

OfItsOwn(r) ==
  /\ bpc[r] = "copied" => seg[dir[r]]["docs"] = [form |-> "raw", of |-> r]
  /\ bpc[r] \in Seg!Files => built[r] = [form |-> "stored", of |-> r]
  /\ \A f \in WrittenAt(bpc[r]) : seg[dir[r]][f] = [form |-> "stored", of |-> r]

OwnIndex == \A r \in Requests : Alone(r) => OfItsOwn(r)

IInv ==
  /\ TypeOK /\ life <= faults + 1 /\ M!HistoryInv
  /\ Order /\ Lives /\ OnePerLife /\ BuiltInOrder /\ NamesBuilt /\ OwnIndex
-----------------------------------------------------------------------------
(* The components of Ingest are those the cited proofs are about. *)

LEMMA ManAssumption == M!ManifestAssumption
BY IngestAssumption DEF M!ManifestAssumption, Seg!Dirs

LEMMA MTypes == Man!MTypeOK <=> M!MTypeOK
BY DEF Man!MTypeOK, M!MTypeOK, Man!Content, M!Content, Man!Entry, M!Entry, Man!Idle, M!Idle,
   Man!Running, M!Running

LEMMA MDisk == Man!OnDisk = M!OnDisk
BY DEF Man!OnDisk, M!OnDisk, Man!Blank, M!Blank

LEMMA MStop == Man!Stop <=> M!Stop
BY Zenon DEF Man!Stop, M!Stop, Man!InFlight, M!InFlight, Man!Running, M!Running

LEMMA MBegin == ASSUME NEW r, NEW s, NEW p PROVE Man!Begin(r, s, p) <=> M!Begin(r, s, p)
<1>1. Man!InFlight = M!InFlight
  BY Zenon DEF Man!InFlight, M!InFlight, Man!Running, M!Running
<1> QED
  BY <1>1, Zenon DEF Man!Begin, M!Begin, Man!Goto, M!Goto, Man!Cardinality, M!Cardinality

LEMMA MAppend == ASSUME NEW r PROVE Man!AppendStep(r) <=> M!AppendStep(r)
<1> USE DEF Man!Goto, M!Goto, Man!OnDisk, M!OnDisk, Man!Blank, M!Blank, Man!Fault, M!Fault,
            Man!Target, M!Target, Man!FreeInodes, M!FreeInodes, Man!Least, M!Least
<1>1. Man!Read(r) <=> M!Read(r)
  BY Zenon DEF Man!Read, M!Read, Man!Publish, M!Publish, Man!Base, M!Base, Man!NextGen, M!NextGen,
    Man!GensOf, M!GensOf, Man!Max, M!Max
<1>2. Man!ReadFails(r) <=> M!ReadFails(r)
  BY Zenon DEF Man!ReadFails, M!ReadFails, Man!Publish, M!Publish, Man!NextGen, M!NextGen,
    Man!GensOf, M!GensOf, Man!Max, M!Max
<1>3. Man!Open(r) <=> M!Open(r)
  BY DEF Man!Open, M!Open
<1>4. Man!Write(r) <=> M!Write(r)
  BY Zenon DEF Man!Write, M!Write, Man!Overwrite, M!Overwrite, Man!Cardinality, M!Cardinality
<1>5. Man!Rename(r) <=> M!Rename(r)
  BY Zenon DEF Man!Rename, M!Rename
<1>6. Man!RenameMissing(r) <=> M!RenameMissing(r)
  BY Zenon DEF Man!RenameMissing, M!RenameMissing
<1>7. Man!IoFails(r) <=> M!IoFails(r)
  BY Zenon DEF Man!IoFails, M!IoFails
<1>8. Man!AfterError(r) <=> M!AfterError(r)
  BY Zenon DEF Man!AfterError, M!AfterError
<1>9. Man!ExistsFails(r) <=> M!ExistsFails(r)
  BY Zenon DEF Man!ExistsFails, M!ExistsFails
<1>10. Man!InitOpen(r) <=> M!InitOpen(r)
  BY DEF Man!InitOpen, M!InitOpen
<1>11. /\ Man!InitWrite(r) <=> M!InitWrite(r)
       /\ Man!InitFails(r) <=> M!InitFails(r)
  BY Zenon DEF Man!InitWrite, M!InitWrite, Man!InitFails, M!InitFails, Man!Retry, M!Retry,
    Man!Overwrite, M!Overwrite, Man!Cardinality, M!Cardinality
<1>12. Man!Drop(r) <=> M!Drop(r)
  BY Zenon DEF Man!Drop, M!Drop, Man!Running, M!Running
<1> QED
  BY <1>1, <1>2, <1>3, <1>4, <1>5, <1>6, <1>7, <1>8, <1>9, <1>10, <1>11, <1>12, Zenon
  DEF Man!AppendStep, M!AppendStep

LEMMA HTypes == Hot!TypeOK <=> H!TypeOK
BY DEF Hot!TypeOK, H!TypeOK, Hot!Doc, H!Doc

LEMMA HApply == ASSUME NEW r PROVE Hot!Apply(r) <=> H!Apply(r)
<1> USE DEF Hot!Call, H!Call, Hot!Return, H!Return
<1>1. ASSUME NEW k, NEW n
      PROVE  (Hot!MarkKey(r, k, n) <=> H!MarkKey(r, k, n)) /\ (Hot!Replay(r, k, n) <=> H!Replay(r, k, n))
  BY Zenon DEF Hot!MarkKey, H!MarkKey, Hot!Replay, H!Replay
<1>2. (Hot!Admit(r) <=> H!Admit(r)) /\ (Hot!Refuse(r) <=> H!Refuse(r))
  BY Zenon DEF Hot!Admit, H!Admit, Hot!Refuse, H!Refuse
<1>3. Hot!Push(r) <=> H!Push(r)
  BY Zenon DEF Hot!Push, H!Push, Hot!KeepNewest, H!KeepNewest, Hot!Batch, H!Batch,
     Hot!Smaller, H!Smaller
<1> QED
  BY <1>1, <1>2, <1>3, Zenon DEF Hot!Apply, H!Apply

LEMMA HotAssumption == H!HotMemAssumption
BY IngestAssumption DEF H!HotMemAssumption
-----------------------------------------------------------------------------
(* Which steps touch which component *)

\* A step of the build of r.
SegStep(r) ==
  \/ Seg!MkDir(r, now) \/ Seg!CopyDocs(r) \/ Seg!ReadDocs(r) \/ Seg!WriteFile(r)
  \/ Seg!RemoveDocs(r) \/ Seg!InputGone(r) \/ Seg!BuildFails(r)

LEMMA HotPart ==
  ASSUME Next
  PROVE  \/ \E r \in Requests : ApplyHot(r)
         \/ CrashRestart
         \/ UNCHANGED <<hotvars, life, lifeOf>>
BY DEF Next, Handle, AnswerEarly, AppendWal, BuildSegment, StoreFails,
   AnswerSegmentError, PublishManifest, AnswerLate, HangUp, Tick, own

LEMMA WalPart ==
  ASSUME Next
  PROVE  (\E r \in Requests : AppendWal(r)) \/ wal' = wal
BY DEF Next, Handle, ApplyHot, AnswerEarly, BuildSegment, StoreFails, AnswerSegmentError,
   PublishManifest, AnswerLate, HangUp, Tick, CrashRestart, own

LEMMA SegPart ==
  ASSUME Next
  PROVE  (\E r \in Requests : wal[r] = "summed" /\ SegStep(r)) \/ UNCHANGED segvars
<1>1. ASSUME NEW r \in Requests, BuildSegment(r) \/ StoreFails(r)
      PROVE  (wal[r] = "summed" /\ SegStep(r)) \/ UNCHANGED segvars
  BY <1>1 DEF BuildSegment, StoreFails, MayBuild, SegStep
<1>2. ASSUME NEW r \in Requests, Handle(r), ~BuildSegment(r), ~StoreFails(r)
      PROVE  UNCHANGED segvars
  BY <1>2 DEF Handle, ApplyHot, AnswerEarly, AppendWal, AnswerSegmentError, PublishManifest,
     AnswerLate, HangUp
<1>3. CASE CrashRestart \/ Tick
  BY <1>3 DEF CrashRestart, Tick
<1> QED
  BY <1>1, <1>2, <1>3 DEF Next

LEMMA AckPart ==
  ASSUME Next, NEW q \in Requests, TypeOK
  PROVE  \/ ack'[q] = ack[q]
         \/ ack'[q] \in {"gone", "segment_error"}
         \/ ack'[q] = "refused" /\ reply[q] = "backpressure"
         \/ ack'[q] = "idempotent" /\ reply[q] = "idempotent"
         \/ ack'[q] = "stored" /\ mpc[q] = "ok"
         \/ ack'[q] = "manifest_error" /\ mpc[q] = "error"
<1>0. ack \in [Requests -> Answers]
  BY DEF TypeOK
<1>1. ASSUME NEW r \in Requests,
             ApplyHot(r) \/ AppendWal(r) \/ BuildSegment(r) \/ PublishManifest(r) \/ Tick
      PROVE  ack' = ack
  BY <1>1 DEF ApplyHot, AppendWal, BuildSegment, PublishManifest, Tick, own
<1>2. ASSUME NEW r \in Requests, AnswerEarly(r) \/ StoreFails(r) \/ AnswerSegmentError(r)
      PROVE  \/ ack' = ack \/ ack' = [ack EXCEPT ![r] = "segment_error"]
             \/ ack' = [ack EXCEPT ![r] = "refused"] /\ reply[r] = "backpressure"
             \/ ack' = [ack EXCEPT ![r] = "idempotent"] /\ reply[r] = "idempotent"
  BY <1>2 DEF AnswerEarly, StoreFails, AnswerSegmentError, Answer
<1>3. ASSUME NEW r \in Requests, AnswerLate(r) \/ HangUp(r)
      PROVE  \/ ack' = [ack EXCEPT ![r] = "gone"]
             \/ ack' = [ack EXCEPT ![r] = "stored"] /\ mpc[r] = "ok"
             \/ ack' = [ack EXCEPT ![r] = "manifest_error"] /\ mpc[r] = "error"
  BY <1>3 DEF AnswerLate, HangUp, Answer
<1>4. CrashRestart => ack'[q] \in {"gone", ack[q]}
  BY DEF CrashRestart
<1> QED
  BY <1>0, <1>1, <1>2, <1>3, <1>4 DEF Next, Handle

\* Every step is one of the manifest, or leaves it alone.
LEMMA ManPart ==
  ASSUME IInv, [Next]_vars
  PROVE  M!Step
<1>0. faults \in 0..MaxFaults /\ (Man!Fault => faults' \in 0..MaxFaults)
  BY IngestAssumption DEF IInv, TypeOK, Man!MTypeOK, Man!Fault
<1>1. ASSUME NEW r \in Requests, Man!AppendStep(r)
      PROVE  M!Step
  <2>1. faults' = faults \/ Man!Fault
    BY <1>1 DEF Man!AppendStep, Man!Read, Man!ReadFails, Man!Open, Man!Write, Man!Rename,
       Man!RenameMissing, Man!IoFails, Man!AfterError, Man!ExistsFails, Man!InitOpen,
       Man!InitWrite, Man!InitFails, Man!Retry, Man!Drop
  <2> QED
    BY <1>0, <1>1, <2>1, MAppend DEF M!Step
<1>2. ASSUME NEW r \in Requests, PublishManifest(r)
      PROVE  M!Step
  <2>1. CASE \E s \in Shards : Man!Begin(r, s, dir[r])
    <3>1. dir[r] \in Seg!Dirs
      BY DEF IInv, TypeOK, Seg!BTypeOK
    <3>2. faults' = faults
      BY <2>1 DEF Man!Begin
    <3> QED
      BY <1>0, <2>1, <3>1, <3>2, MBegin DEF M!Step
  <2> QED
    BY <1>1, <1>2, <2>1 DEF PublishManifest
<1>3. ASSUME NEW r \in Requests, HangUp(r)
      PROVE  M!Step
  <2>1. CASE Man!Drop(r)
    BY <1>1, <2>1 DEF Man!AppendStep
  <2>2. CASE Man!Fault /\ UNCHANGED manvars
    BY <1>0, <2>2 DEF M!Step, M!rest, manvars
  <2> QED
    BY <1>3, <2>1, <2>2 DEF HangUp
<1>4. CASE CrashRestart
  BY <1>0, <1>4, MStop DEF CrashRestart, M!Step
<1>5. ASSUME NEW r \in Requests, Handle(r), ~PublishManifest(r), ~HangUp(r)
      PROVE  UNCHANGED manvars /\ (faults' = faults \/ Man!Fault)
  BY <1>5 DEF Handle, ApplyHot, AnswerEarly, AppendWal, BuildSegment, StoreFails,
     AnswerSegmentError, AnswerLate
<1>6. CASE Tick \/ UNCHANGED vars
  BY <1>0, <1>6 DEF Tick, vars, M!Step, M!rest, manvars
<1>7. ASSUME UNCHANGED manvars, faults' = faults \/ Man!Fault PROVE M!Step
  BY <1>0, <1>7 DEF M!Step, M!rest, manvars
<1> QED
  BY <1>2, <1>3, <1>4, <1>5, <1>6, <1>7 DEF Next
-----------------------------------------------------------------------------
(* What a step does to each request *)

LEMMA ManStays ==
  ASSUME IInv, [Next]_vars, NEW q \in Requests
  PROVE  /\ mpc[q] # "idle" =>
              /\ mpc'[q] # "idle" /\ job'[q] = job[q]
              /\ mpc[q] \in {"ok", "error"} => mpc'[q] = mpc[q]
         /\ mpc[q] = "idle" /\ mpc'[q] # "idle" => bpc[q] = "done" /\ job'[q].path = dir[q]
<1>0. M!MTypeOK /\ M!Step
  BY ManPart, MTypes DEF IInv, TypeOK
<1>1. ASSUME mpc[q] # "idle"
      PROVE  /\ mpc'[q] # "idle" /\ job'[q] = job[q]
             /\ mpc[q] \in {"ok", "error"} => mpc'[q] = mpc[q]
  BY <1>0, <1>1, M!BegunStays, ManAssumption DEF M!Idle
<1>2. ASSUME mpc[q] = "idle", mpc'[q] # "idle"
      PROVE  bpc[q] = "done" /\ job'[q].path = dir[q]
  <2>1. ASSUME NEW r \in Requests, Man!AppendStep(r)
        PROVE  FALSE
    BY <1>0, <1>2, <2>1, MAppend, M!OwnStep, ManAssumption DEF M!Running
  <2>2. ASSUME NEW r \in Requests, PublishManifest(r)
        PROVE  bpc[q] = "done" /\ job'[q].path = dir[q]
    <3>1. CASE \E s \in Shards : Man!Begin(r, s, dir[r])
      <4>1. PICK s \in Shards : Man!Begin(r, s, dir[r])
        BY <3>1
      <4>2. mpc' = [mpc EXCEPT ![r] = "start"] /\ job' = [job EXCEPT ![r] = [shard |-> s, path |-> dir[r]]]
        BY <4>1 DEF Man!Begin, Man!Goto
      <4>3. r = q
        BY <1>0, <1>2, <4>2 DEF M!MTypeOK
      <4> QED
        BY <1>0, <2>2, <4>2, <4>3 DEF PublishManifest, MayPublish, M!MTypeOK
    <3> QED
      BY <2>1, <2>2, <3>1 DEF PublishManifest
  <2>3. ASSUME NEW r \in Requests, HangUp(r)
        PROVE  FALSE
    <3>1. Man!Drop(r) \/ mpc' = mpc
      BY <2>3 DEF HangUp, manvars
    <3> QED
      BY <1>2, <2>1, <3>1 DEF Man!AppendStep
  <2>4. CASE CrashRestart
    BY <1>0, <1>2, <2>4 DEF CrashRestart, Man!Stop, Man!InFlight, Man!Running, M!MTypeOK
  <2>5. ASSUME \/ \E r \in Requests : Handle(r) /\ ~PublishManifest(r) /\ ~HangUp(r)
               \/ Tick \/ UNCHANGED vars
        PROVE  mpc' = mpc
    BY <2>5 DEF Handle, ApplyHot, AnswerEarly, AppendWal, BuildSegment, StoreFails,
       AnswerSegmentError, AnswerLate, Tick, vars, manvars
  <2> QED
    BY <1>2, <2>2, <2>3, <2>4, <2>5 DEF Next
<1> QED
  BY <1>1, <1>2

\* A call of apply changes itself, and the keys only when it begins.
LEMMA HotOwn ==
  ASSUME IInv, NEW r \in Requests, ApplyHot(r)
  PROVE  /\ \A q \in Requests : q # r =>
              pc'[q] = pc[q] /\ reply'[q] = reply[q] /\ key'[q] = key[q]
         /\ pc[r] # "done" /\ pc'[r] # "idle"
         /\ reply'[r] # reply[r] => pc'[r] = "done"
         /\ pc[r] # "idle" =>
              key'[r] = key[r] /\ seen' = seen /\ (reply'[r] = "idempotent" => reply[r] = "idempotent")
         /\ pc[r] = "idle" =>
              \/ key'[r] \in seen /\ seen' = seen /\ reply'[r] = "idempotent"
              \/ key'[r] \notin seen /\ seen' = (seen \cup {key'[r]}) \ {NoKey} /\ reply' = reply
         /\ Live(r) /\ lifeOf' = [lifeOf EXCEPT ![r] = life] /\ life' = life /\ ack' = ack
<1>1. H!TypeOK
  BY HTypes DEF IInv, TypeOK
<1>2. H!Apply(r) /\ Live(r) /\ lifeOf' = [lifeOf EXCEPT ![r] = life] /\ life' = life /\ ack' = ack
  BY HApply DEF ApplyHot
<1> QED
  BY <1>1, <1>2, H!ApplyOwn, HotAssumption

LEMMA HotStays ==
  ASSUME IInv, [Next]_vars, NEW q \in Requests
  PROVE  /\ reply[q] # "none" => reply'[q] = reply[q] /\ pc'[q] = pc[q]
         /\ reply'[q] # "none" => pc'[q] = "done"
<1>1. ASSUME NEW r \in Requests, ApplyHot(r)
      PROVE  /\ reply[q] # "none" => reply'[q] = reply[q] /\ pc'[q] = pc[q]
             /\ reply'[q] # "none" => pc'[q] = "done"
  BY <1>1, HotOwn DEF IInv, Order
<1>2. UNCHANGED <<pc, reply>> \/ \E r \in Requests : ApplyHot(r)
  BY HotPart DEF CrashRestart, hotvars, vars
<1> QED
  BY <1>1, <1>2 DEF IInv, Order

LEMMA WalStays ==
  ASSUME IInv, [Next]_vars, NEW q \in Requests
  PROVE  /\ wal[q] = "summed" => wal'[q] = "summed"
         /\ wal'[q] # "none" => reply[q] = "added"
<1>1. ASSUME NEW r \in Requests, AppendWal(r)
      PROVE  /\ wal[q] = "summed" => wal'[q] = "summed"
             /\ wal'[q] # "none" => reply[q] = "added"
  BY <1>1 DEF AppendWal, Accepted, IInv, TypeOK, Order
<1>2. wal' = wal \/ \E r \in Requests : AppendWal(r)
  BY WalPart DEF vars, own
<1> QED
  BY <1>1, <1>2 DEF IInv, Order

LEMMA AfterFacts ==
  /\ Seg!After["grams"] = "masks" /\ Seg!After["masks"] = "docs"
  /\ Seg!After["docs"] = "meta" /\ Seg!After["meta"] = "remove"
  /\ \A f \in Seg!Files : Seg!After[f] \in Seg!Steps \ {"idle"}
<1>1. /\ Seg!After["grams"] = "masks" /\ Seg!After["masks"] = "docs"
      /\ Seg!After["docs"] = "meta" /\ Seg!After["meta"] = "remove"
  BY DEF Seg!After
<1> QED
  BY <1>1 DEF Seg!Files, Seg!Steps

\* A step of a build changes only that build, and one file of its directory.
LEMMA SegOwn ==
  ASSUME IInv, NEW r \in Requests, SegStep(r)
  PROVE  /\ \A q \in Requests : q # r =>
              bpc'[q] = bpc[q] /\ dir'[q] = dir[q] /\ at'[q] = at[q] /\ built'[q] = built[q]
         /\ bpc[r] # "done" /\ bpc'[r] # "idle"
         /\ bpc[r] # "idle" => dir'[r] = dir[r] /\ at'[r] = at[r]
         /\ dir[r] = at[r] => dir'[r] = at'[r]
         /\ bpc[r] = "idle" => bpc'[r] \in {"dir", "failed"} /\ seg' = seg /\ built' = built
<1>1. /\ bpc \in [Requests -> Seg!Steps] /\ dir \in [Requests -> Seg!Dirs]
      /\ at \in [Requests -> Seg!Dirs] /\ built \in [Requests -> Seg!FileVal]
  BY DEF IInv, TypeOK, Seg!BTypeOK
<1>2. CASE Seg!MkDir(r, now)
  BY <1>1, <1>2 DEF Seg!MkDir, Seg!DirName
<1>3. ASSUME Seg!CopyDocs(r) \/ Seg!ReadDocs(r) \/ Seg!RemoveDocs(r) \/ Seg!InputGone(r) \/ Seg!BuildFails(r)
      PROVE  /\ dir' = dir /\ at' = at /\ bpc[r] # "done"
             /\ bpc[r] = "idle" => bpc' = [bpc EXCEPT ![r] = "failed"] /\ seg' = seg /\ built' = built
             /\ \E s : s # "idle" /\ bpc' = [bpc EXCEPT ![r] = s]
             /\ built' = built \/ \E v : built' = [built EXCEPT ![r] = v]
  BY <1>3 DEF Seg!CopyDocs, Seg!ReadDocs, Seg!RemoveDocs, Seg!InputGone, Seg!BuildFails, Seg!Files
<1>4. ASSUME Seg!WriteFile(r)
      PROVE  /\ dir' = dir /\ at' = at /\ built' = built /\ bpc[r] \in Seg!Files
             /\ \E s : s # "idle" /\ bpc' = [bpc EXCEPT ![r] = s]
  BY <1>4, AfterFacts DEF Seg!WriteFile
<1>5. "done" \notin Seg!Files /\ "idle" \notin Seg!Files
  BY DEF Seg!Files
<1> QED
  BY <1>1, <1>2, <1>3, <1>4, <1>5 DEF SegStep

LEMMA SegStays ==
  ASSUME IInv, [Next]_vars, NEW q \in Requests
  PROVE  /\ bpc[q] # "idle" => bpc'[q] # "idle" /\ dir'[q] = dir[q] /\ at'[q] = at[q]
         /\ bpc[q] = "done" => bpc'[q] = "done"
         /\ bpc'[q] # "idle" => wal[q] = "summed"
<1>1. ASSUME NEW r \in Requests, wal[r] = "summed", SegStep(r)
      PROVE  /\ bpc[q] # "idle" => bpc'[q] # "idle" /\ dir'[q] = dir[q] /\ at'[q] = at[q]
             /\ bpc[q] = "done" => bpc'[q] = "done"
             /\ bpc'[q] # "idle" => wal[q] = "summed"
  BY <1>1, SegOwn DEF IInv, Order
<1>2. UNCHANGED segvars \/ \E r \in Requests : wal[r] = "summed" /\ SegStep(r)
  BY SegPart DEF vars
<1> QED
  BY <1>1, <1>2 DEF segvars, IInv, Order
-----------------------------------------------------------------------------
(* The invariant is inductive *)

LEMMA StepOrder == IInv /\ [Next]_vars => Order'
<1> SUFFICES ASSUME IInv, [Next]_vars, NEW r \in Requests
             PROVE  /\ reply'[r] # "none" => pc'[r] = "done"
                    /\ wal'[r] # "none" => reply'[r] = "added"
                    /\ bpc'[r] # "idle" => wal'[r] = "summed"
                    /\ mpc'[r] # "idle" => bpc'[r] = "done" /\ job'[r].path = dir'[r]
                    /\ ack'[r] = "refused" => reply'[r] = "backpressure"
                    /\ ack'[r] = "idempotent" => reply'[r] = "idempotent"
                    /\ ack'[r] = "stored" => mpc'[r] = "ok"
                    /\ ack'[r] = "manifest_error" => mpc'[r] = "error"
  BY DEF Order
<1>0. /\ mpc[r] # "idle" => bpc[r] = "done" /\ job[r].path = dir[r]
      /\ ack[r] = "refused" => reply[r] = "backpressure"
      /\ ack[r] = "idempotent" => reply[r] = "idempotent"
      /\ ack[r] = "stored" => mpc[r] = "ok"
      /\ ack[r] = "manifest_error" => mpc[r] = "error"
  BY DEF IInv, Order
<1>1. reply'[r] # "none" => pc'[r] = "done"
  BY HotStays
<1>2. wal'[r] # "none" => reply'[r] = "added"
  BY HotStays, WalStays
<1>3. bpc'[r] # "idle" => wal'[r] = "summed"
  BY SegStays, WalStays
<1>4. mpc'[r] # "idle" => bpc'[r] = "done" /\ job'[r].path = dir'[r]
  BY <1>0, ManStays, SegStays
<1>5. \/ ack'[r] = ack[r]
      \/ ack'[r] \in {"gone", "segment_error"}
      \/ ack'[r] = "refused" /\ reply[r] = "backpressure"
      \/ ack'[r] = "idempotent" /\ reply[r] = "idempotent"
      \/ ack'[r] = "stored" /\ mpc[r] = "ok"
      \/ ack'[r] = "manifest_error" /\ mpc[r] = "error"
  BY AckPart DEF IInv, vars, own
<1>6. /\ ack'[r] = "refused" => reply'[r] = "backpressure"
      /\ ack'[r] = "idempotent" => reply'[r] = "idempotent"
  BY <1>0, <1>5, HotStays
<1>7. /\ ack'[r] = "stored" => mpc'[r] = "ok"
      /\ ack'[r] = "manifest_error" => mpc'[r] = "error"
  BY <1>0, <1>5, ManStays
<1> QED
  BY <1>1, <1>2, <1>3, <1>4, <1>6, <1>7

LEMMA StepLives == IInv /\ [Next]_vars => Lives' /\ OnePerLife'
<1> SUFFICES ASSUME IInv, [Next]_vars PROVE Lives' /\ OnePerLife'
  OBVIOUS
<1>0. /\ Lives /\ OnePerLife /\ lifeOf \in [Requests -> 0..life] /\ life \in Nat
      /\ seen \subseteq Keys
  BY DEF IInv, TypeOK, Hot!TypeOK
<1>1. ASSUME NEW r \in Requests, ApplyHot(r) PROVE Lives' /\ OnePerLife'
  <2>1. /\ \A q \in Requests : q # r =>
             pc'[q] = pc[q] /\ reply'[q] = reply[q] /\ key'[q] = key[q] /\ lifeOf'[q] = lifeOf[q]
        /\ lifeOf'[r] = life /\ life' = life /\ ack' = ack /\ Live(r)
    BY <1>0, <1>1, HotOwn
  <2>2. CASE pc[r] # "idle"
    <3>1. /\ key'[r] = key[r] /\ seen' = seen /\ lifeOf'[r] = lifeOf[r]
          /\ reply'[r] = "idempotent" => reply[r] = "idempotent"
          /\ reply[r] = "idempotent" => reply'[r] = "idempotent"
      BY <1>0, <1>1, <2>1, <2>2, HotOwn, HotStays DEF Lives
    <3>2. Lives'
      BY <1>0, <2>1, <2>2, <3>1 DEF Lives, Live
    <3>3. OnePerLife'
      BY <1>0, <2>1, <2>2, <3>1 DEF OnePerLife
    <3> QED
      BY <3>2, <3>3
  <2>3. CASE pc[r] = "idle" /\ key'[r] \in seen /\ seen' = seen /\ reply'[r] = "idempotent"
    <3>1. Lives'
      BY <1>0, <2>1, <2>3 DEF Lives, Live
    <3>2. OnePerLife'
      BY <1>0, <2>1, <2>3 DEF OnePerLife
    <3> QED
      BY <3>1, <3>2
  <2>4. CASE /\ pc[r] = "idle" /\ key'[r] \notin seen /\ reply' = reply
             /\ seen' = (seen \cup {key'[r]}) \ {NoKey}
    <3>1. Lives'
      BY <1>0, <2>1, <2>4, IngestAssumption DEF Lives, Live
    <3>2. \A q \in Requests : q # r /\ pc[q] # "idle" /\ lifeOf[q] = life /\ key[q] # NoKey => key[q] # key'[r]
      BY <1>0, <2>4 DEF Lives
    <3>3. OnePerLife'
      BY <1>0, <2>1, <2>4, <3>2 DEF OnePerLife
    <3> QED
      BY <3>1, <3>3
  <2> QED
    BY <1>1, <2>2, <2>3, <2>4, HotOwn
<1>2. CASE CrashRestart
  <2>1. /\ life' = life + 1 /\ UNCHANGED <<pc, key, reply, lifeOf>>
        /\ \A r \in Requests : Live(r)' => pc[r] = "idle"
    BY <1>2 DEF CrashRestart, Live, Answers, IInv, TypeOK
  <2>2. Lives'
    BY <1>0, <2>1 DEF Lives
  <2> QED
    BY <1>0, <2>1, <2>2 DEF OnePerLife
<1>3. CASE UNCHANGED <<hotvars, life, lifeOf>>
  <2>1. \A r \in Requests : Live(r)' => Live(r)
    BY AckPart DEF IInv, vars, own, Live
  <2> QED
    BY <1>0, <1>3, <2>1 DEF hotvars, Lives, OnePerLife
<1> QED
  BY <1>1, <1>2, <1>3, HotPart DEF vars, own

\* What the step of a build does to the files: index files only get what the
\* build holds.
LEMMA SegFiles ==
  ASSUME IInv, NEW r \in Requests, SegStep(r), NEW d \in Seg!Dirs, NEW f \in Seg!Files
  PROVE  \/ seg'[d][f] = seg[d][f]
         \/ /\ d = dir[r] /\ bpc[r] # "idle"
            /\ f = "docs" \/ (f = bpc[r] /\ seg'[d][f] = built[r])
<1>1. seg \in [Seg!Dirs -> [Seg!Files -> Seg!FileVal]] /\ dir \in [Requests -> Seg!Dirs]
  BY DEF IInv, TypeOK, Seg!BTypeOK
<1>2. ASSUME NEW g, NEW v, Seg!PutFile(r, g, v)
      PROVE  seg'[d][f] = IF d = dir[r] /\ f = g THEN v ELSE seg[d][f]
  BY <1>1, <1>2 DEF Seg!PutFile
<1>3. CASE Seg!CopyDocs(r)
  BY <1>2, <1>3 DEF Seg!CopyDocs
<1>4. CASE Seg!WriteFile(r)
  BY <1>2, <1>4 DEF Seg!WriteFile, Seg!Files
<1>5. CASE Seg!RemoveDocs(r)
  BY <1>2, <1>5 DEF Seg!RemoveDocs
<1>6. CASE Seg!MkDir(r, now) \/ Seg!ReadDocs(r) \/ Seg!InputGone(r) \/ Seg!BuildFails(r)
  BY <1>6 DEF Seg!MkDir, Seg!ReadDocs, Seg!InputGone, Seg!BuildFails
<1> QED
  BY <1>3, <1>4, <1>5, <1>6 DEF SegStep

LEMMA IndexFiles == Index \subseteq Seg!Files /\ "docs" \in Seg!Files /\ "docs" \notin Index
BY DEF Index, Seg!Files

LEMMA WrittenFacts ==
  /\ \A s : WrittenAt(s) \subseteq Index
  /\ \A s \in {"idle", "dir", "copied", "failed", "grams"} : WrittenAt(s) = {}
  /\ WrittenAt("masks") = {"grams"} /\ WrittenAt("docs") = {"grams", "masks"}
  /\ WrittenAt("meta") = {"grams", "masks"}
  /\ WrittenAt("remove") = Index /\ WrittenAt("done") = Index
BY DEF WrittenAt, Index

\* An index file that is there is never removed.
LEMMA StepPresent ==
  ASSUME IInv, [Next]_vars, NEW d \in Seg!Dirs, NEW f \in Index, seg[d][f] # Seg!Absent
  PROVE  seg'[d][f] # Seg!Absent
<1>1. ASSUME NEW r \in Requests, SegStep(r) PROVE seg'[d][f] # Seg!Absent
  <2>1. bpc[r] \in Seg!Files => built[r] # Seg!Absent
    BY DEF IInv, BuiltInOrder
  <2> QED
    BY <1>1, <2>1, SegFiles, IndexFiles
<1> QED
  BY <1>1, SegPart DEF vars, segvars

\* How a build gets from one stage to the next.
LEMMA SegStages ==
  ASSUME IInv, NEW r \in Requests, SegStep(r)
  PROVE  \/ bpc'[r] \in {"dir", "failed"}
         \/ /\ bpc[r] = "dir" /\ bpc'[r] = "copied" /\ built' = built /\ dir' = dir
            /\ seg'[dir[r]]["docs"] = [form |-> "raw", of |-> r]
         \/ /\ bpc[r] = "copied" /\ bpc'[r] = "grams" /\ seg' = seg /\ dir' = dir
            /\ seg[dir[r]]["docs"] # Seg!Absent
            /\ built'[r] = Seg!Digest(seg[dir[r]]["docs"])
         \/ /\ bpc[r] \in Seg!Files /\ bpc'[r] = Seg!After[bpc[r]] /\ built' = built /\ dir' = dir
            /\ seg'[dir[r]][bpc[r]] = built[r]
         \/ bpc[r] = "remove" /\ bpc'[r] = "done" /\ built' = built /\ dir' = dir
<1>1. /\ seg \in [Seg!Dirs -> [Seg!Files -> Seg!FileVal]] /\ dir \in [Requests -> Seg!Dirs]
      /\ bpc \in [Requests -> Seg!Steps] /\ built \in [Requests -> Seg!FileVal]
  BY DEF IInv, TypeOK, Seg!BTypeOK
<1>2. ASSUME NEW g \in Seg!Files, NEW v, Seg!PutFile(r, g, v) PROVE seg'[dir[r]][g] = v
  BY <1>1, <1>2 DEF Seg!PutFile
<1>3. CASE Seg!CopyDocs(r)
  BY <1>1, <1>2, <1>3, IndexFiles DEF Seg!CopyDocs
<1>4. CASE Seg!ReadDocs(r)
  BY <1>1, <1>4 DEF Seg!ReadDocs
<1>5. CASE Seg!WriteFile(r)
  BY <1>1, <1>2, <1>5 DEF Seg!WriteFile
<1>6. CASE Seg!RemoveDocs(r)
  BY <1>1, <1>6 DEF Seg!RemoveDocs
<1>7. CASE Seg!MkDir(r, now) \/ Seg!InputGone(r) \/ Seg!BuildFails(r)
  BY <1>1, <1>7 DEF Seg!MkDir, Seg!InputGone, Seg!BuildFails
<1> QED
  BY <1>3, <1>4, <1>5, <1>6, <1>7 DEF SegStep

\* Writing a file of the index is what its stage adds to those written.
LEMMA AfterWritten ==
  ASSUME NEW f \in Seg!Files
  PROVE  \A g \in WrittenAt(Seg!After[f]) : g \in WrittenAt(f) \/ g = f
BY AfterFacts, WrittenFacts DEF Seg!Files, Index

LEMMA DigestFacts ==
  ASSUME NEW v \in Seg!FileVal, v # Seg!Absent
  PROVE  /\ Seg!Digest(v) \in Seg!FileVal /\ Seg!Digest(v) # Seg!Absent
         /\ v.form = "raw" => Seg!Digest(v) = [form |-> "stored", of |-> v.of]
<1>1. v.form \in Seg!Forms /\ v.of \in Requests
  BY DEF Seg!FileVal
<1>2. Seg!Digest(v) \in [form : Seg!Forms, of : Requests] /\ Seg!Digest(v).form # "absent"
  BY <1>1 DEF Seg!Digest, Seg!Forms
<1> QED
  BY <1>1, <1>2 DEF Seg!FileVal, Seg!Digest, Seg!Absent

LEMMA StepBuiltInOrder == IInv /\ [Next]_vars => BuiltInOrder'
<1> SUFFICES ASSUME IInv, [Next]_vars, NEW r \in Requests
             PROVE  /\ dir'[r] = at'[r]
                    /\ bpc'[r] \in Seg!Files => built'[r] # Seg!Absent
                    /\ \A f \in WrittenAt(bpc'[r]) : seg'[dir'[r]][f] # Seg!Absent
  BY DEF BuiltInOrder
<1>0. /\ dir[r] = at[r] /\ dir[r] \in Seg!Dirs
      /\ bpc[r] \in Seg!Files => built[r] # Seg!Absent
      /\ \A f \in WrittenAt(bpc[r]) : seg[dir[r]][f] # Seg!Absent
  BY DEF IInv, BuiltInOrder, TypeOK, Seg!BTypeOK
<1>1. \A f \in WrittenAt(bpc[r]) : seg'[dir[r]][f] # Seg!Absent
  BY <1>0, StepPresent, WrittenFacts
<1>2. CASE bpc'[r] = bpc[r] /\ dir'[r] = dir[r] /\ at'[r] = at[r] /\ built'[r] = built[r]
  BY <1>0, <1>1, <1>2
<1>3. ASSUME SegStep(r)
      PROVE  /\ dir'[r] = at'[r]
             /\ bpc'[r] \in Seg!Files => built'[r] # Seg!Absent
             /\ \A f \in WrittenAt(bpc'[r]) : seg'[dir'[r]][f] # Seg!Absent
  <2>0. dir'[r] = at'[r]
    BY <1>0, <1>3, SegOwn
  <2>1. CASE bpc'[r] \in {"dir", "failed"}
    BY <2>0, <2>1, WrittenFacts DEF Seg!Files
  <2>2. CASE bpc[r] = "dir" /\ bpc'[r] = "copied"
    BY <2>0, <2>2, WrittenFacts DEF Seg!Files
  <2>3. CASE /\ bpc[r] = "copied" /\ bpc'[r] = "grams" /\ seg[dir[r]]["docs"] # Seg!Absent
             /\ built'[r] = Seg!Digest(seg[dir[r]]["docs"])
    <3>1. seg[dir[r]]["docs"] \in Seg!FileVal
      BY <1>0, IndexFiles DEF IInv, TypeOK, Seg!BTypeOK
    <3> QED
      BY <2>0, <2>3, <3>1, DigestFacts, WrittenFacts
  <2>4. CASE /\ bpc[r] \in Seg!Files /\ bpc'[r] = Seg!After[bpc[r]] /\ built' = built /\ dir' = dir
             /\ seg'[dir[r]][bpc[r]] = built[r]
    BY <1>0, <1>1, <2>0, <2>4, AfterWritten
  <2>5. CASE bpc[r] = "remove" /\ bpc'[r] = "done" /\ dir' = dir
    BY <1>1, <2>0, <2>5, WrittenFacts DEF Seg!Files
  <2> QED
    BY <1>3, <2>1, <2>2, <2>3, <2>4, <2>5, SegStages
<1> QED
  BY <1>2, <1>3, SegPart, SegOwn DEF vars, segvars

LEMMA StepOwnIndex == IInv /\ [Next]_vars => OwnIndex'
<1> SUFFICES ASSUME IInv, [Next]_vars, NEW r \in Requests, Alone(r)'
             PROVE  OfItsOwn(r)'
  BY DEF OwnIndex
<1> DEFINE Own == [form |-> "stored", of |-> r]
<1>0. /\ dir[r] = at[r] /\ dir[r] \in Seg!Dirs
      /\ bpc[r] \in Seg!Steps
  BY DEF IInv, BuiltInOrder, TypeOK, Seg!BTypeOK
<1>1. ASSUME SegStep(r), bpc[r] = "idle" PROVE OfItsOwn(r)'
  BY <1>1, SegOwn, WrittenFacts DEF OfItsOwn, Seg!Files
<1>2. ASSUME bpc[r] # "idle" PROVE OfItsOwn(r)
  <2>1. Alone(r)
    BY <1>2, SegStays DEF Alone
  <2> QED
    BY <2>1 DEF IInv, OwnIndex
<1>3. ASSUME NEW q \in Requests, q # r, SegStep(q) PROVE OfItsOwn(r)'
  <2>1. bpc'[r] = bpc[r] /\ dir'[r] = dir[r] /\ built'[r] = built[r]
    BY <1>3, SegOwn
  <2>2. CASE bpc[r] = "idle"
    BY <2>1, <2>2, WrittenFacts DEF OfItsOwn, Seg!Files
  <2>3. CASE bpc[r] # "idle"
    <3>1. bpc[q] # "idle" => dir[q] # dir[r]
      BY <1>0, <1>3, <2>3, SegStays DEF Alone, IInv, BuiltInOrder
    <3>2. \A f \in Seg!Files : seg'[dir[r]][f] = seg[dir[r]][f]
      BY <1>0, <1>3, <3>1, SegFiles
    <3> QED
      BY <1>2, <2>1, <2>3, <3>2, WrittenFacts, IndexFiles DEF OfItsOwn
  <2> QED
    BY <2>2, <2>3
<1>4. ASSUME SegStep(r), bpc[r] # "idle" PROVE OfItsOwn(r)'
  <2>0. /\ OfItsOwn(r) /\ dir'[r] = dir[r]
    BY <1>2, <1>4, SegOwn
  <2>1. CASE bpc'[r] \in {"dir", "failed"}
    BY <2>1, WrittenFacts DEF OfItsOwn, Seg!Files
  <2>2. CASE /\ bpc[r] = "dir" /\ bpc'[r] = "copied"
             /\ seg'[dir[r]]["docs"] = [form |-> "raw", of |-> r]
    BY <2>0, <2>2, WrittenFacts DEF OfItsOwn, Seg!Files
  <2>3. CASE /\ bpc[r] = "copied" /\ bpc'[r] = "grams" /\ seg[dir[r]]["docs"] # Seg!Absent
             /\ built'[r] = Seg!Digest(seg[dir[r]]["docs"])
    <3>1. seg[dir[r]]["docs"] = [form |-> "raw", of |-> r]
      BY <2>0, <2>3 DEF OfItsOwn
    <3>2. built'[r] = Own
      BY <2>3, <3>1 DEF Seg!Digest
    <3> QED
      BY <2>3, <3>2, WrittenFacts DEF OfItsOwn
  <2>4. CASE /\ bpc[r] \in Seg!Files /\ bpc'[r] = Seg!After[bpc[r]] /\ built' = built
             /\ seg'[dir[r]][bpc[r]] = built[r]
    <3>1. built[r] = Own /\ \A f \in WrittenAt(bpc[r]) : seg[dir[r]][f] = Own
      BY <2>0, <2>4 DEF OfItsOwn
    <3>2. \A f \in WrittenAt(bpc[r]) : seg'[dir[r]][f] = Own
      BY <1>0, <1>4, <3>1, SegFiles, WrittenFacts, IndexFiles
    <3>3. \A f \in WrittenAt(bpc'[r]) : seg'[dir[r]][f] = Own
      BY <2>4, <3>1, <3>2, AfterWritten
    <3>4. bpc'[r] # "copied"
      BY <2>4, AfterFacts DEF Seg!Files
    <3> QED
      BY <2>0, <2>4, <3>1, <3>3, <3>4 DEF OfItsOwn
  <2>5. CASE bpc[r] = "remove" /\ bpc'[r] = "done"
    <3>1. \A f \in Index : seg'[dir[r]][f] = Own
      BY <1>0, <1>4, <2>0, <2>5, SegFiles, WrittenFacts, IndexFiles DEF OfItsOwn, Seg!Files
    <3> QED
      BY <2>0, <2>5, <3>1, WrittenFacts DEF OfItsOwn, Seg!Files
  <2> QED
    BY <1>4, <2>1, <2>2, <2>3, <2>4, <2>5, SegStages
<1>5. CASE UNCHANGED segvars
  <2>1. CASE bpc[r] = "idle"
    BY <1>5, <2>1, WrittenFacts DEF segvars, OfItsOwn, Seg!Files
  <2> QED
    BY <1>2, <1>5, <2>1 DEF segvars, OfItsOwn
<1> QED
  BY <1>1, <1>3, <1>4, <1>5, SegPart DEF vars

LEMMA FaultPart ==
  ASSUME [Next]_vars
  PROVE  faults' = faults \/ (Man!Fault /\ life' \in {life, life + 1})
<1>1. ASSUME NEW r, Man!AppendStep(r) PROVE faults' = faults \/ Man!Fault
  BY <1>1 DEF Man!AppendStep, Man!Read, Man!ReadFails, Man!Open, Man!Write, Man!Rename,
     Man!RenameMissing, Man!IoFails, Man!AfterError, Man!ExistsFails, Man!InitOpen,
     Man!InitWrite, Man!InitFails, Man!Retry, Man!Drop
<1>2. ASSUME NEW r \in Requests, PublishManifest(r) \/ HangUp(r)
      PROVE  life' = life /\ (faults' = faults \/ Man!Fault)
  <2>1. life' = life
    BY <1>2 DEF PublishManifest, HangUp, own
  <2>2. (\E s \in Shards : Man!Begin(r, s, dir[r])) \/ Man!AppendStep(r) \/ Man!Fault
    BY <1>2 DEF PublishManifest, HangUp, Man!AppendStep
  <2>3. (\E s \in Shards : Man!Begin(r, s, dir[r])) => faults' = faults
    BY DEF Man!Begin
  <2> QED
    BY <1>1, <2>1, <2>2, <2>3
<1>3. ASSUME NEW r \in Requests, Handle(r), ~PublishManifest(r), ~HangUp(r)
      PROVE  life' = life /\ (faults' = faults \/ Man!Fault)
  BY <1>3 DEF Handle, ApplyHot, AnswerEarly, AppendWal, BuildSegment, StoreFails,
     AnswerSegmentError, AnswerLate, own
<1>4. CASE CrashRestart \/ Tick \/ UNCHANGED vars
  BY <1>4 DEF CrashRestart, Tick, vars
<1> QED
  BY <1>2, <1>3, <1>4 DEF Next

LEMMA StepLife ==
  ASSUME IInv, [Next]_vars
  PROVE  /\ life' <= faults' + 1 /\ life' \in 1..MaxFaults + 1
         /\ lifeOf' \in [Requests -> 0..life']
<1>0. /\ life <= faults + 1 /\ life \in 1..MaxFaults + 1 /\ lifeOf \in [Requests -> 0..life]
      /\ faults \in 0..MaxFaults /\ MaxFaults \in Nat
  BY IngestAssumption DEF IInv, TypeOK, Man!MTypeOK
<1>1. /\ life' \in {life, life + 1} /\ (life' = life + 1 => Man!Fault)
      /\ lifeOf' = lifeOf \/ (life' = life /\ \E r \in Requests : lifeOf' = [lifeOf EXCEPT ![r] = life])
  <2>1. ASSUME NEW r \in Requests, ApplyHot(r)
        PROVE  life' = life /\ lifeOf' = [lifeOf EXCEPT ![r] = life]
    BY <2>1 DEF ApplyHot
  <2>2. CrashRestart => life' = life + 1 /\ Man!Fault /\ lifeOf' = lifeOf
    BY DEF CrashRestart
  <2>3. UNCHANGED vars => life' = life /\ lifeOf' = lifeOf
    BY DEF vars, own
  <2>4. life # life + 1
    BY <1>0
  <2> QED
    BY <2>1, <2>2, <2>3, <2>4, HotPart
<1>2. /\ life' <= faults' + 1 /\ life' \in 1..MaxFaults + 1
  BY <1>0, <1>1, FaultPart DEF Man!Fault
<1>3. lifeOf' \in [Requests -> 0..life']
  <2>1. CASE lifeOf' = lifeOf
    <3>1. \A n \in 0..life : n \in 0..life'
      BY <1>0, <1>1
    <3> QED
      BY <1>0, <2>1, <3>1
  <2>2. ASSUME NEW r \in Requests, lifeOf' = [lifeOf EXCEPT ![r] = life], life' = life
        PROVE  lifeOf' \in [Requests -> 0..life']
    BY <1>0, <2>2
  <2> QED
    BY <1>1, <2>1, <2>2
<1> QED
  BY <1>2, <1>3

LEMMA StepHot == IInv /\ [Next]_vars => Hot!TypeOK'
<1> SUFFICES ASSUME IInv, [Next]_vars PROVE Hot!TypeOK'
  OBVIOUS
<1>0. H!TypeOK /\ Hot!TypeOK
  BY HTypes DEF IInv, TypeOK
<1>1. ASSUME NEW r \in Requests, ApplyHot(r) PROVE Hot!TypeOK'
  <2>1. H!Next
    BY <1>1, HApply DEF ApplyHot, H!Next
  <2>2. H!TypeOK'
    BY <1>0, <2>1, H!TypeStep, HotAssumption
  <2> QED
    BY <2>2, HTypes, PTL
<1>2. CASE CrashRestart
  <2>1. window' \in Seq(Hot!Doc) /\ seen' = {} /\ pushed' = 0 /\ UNCHANGED <<pc, key, size, reply>>
    BY <1>2 DEF CrashRestart
  <2> QED
    BY <1>0, <2>1 DEF Hot!TypeOK
<1>3. CASE UNCHANGED hotvars
  BY <1>0, <1>3 DEF hotvars, Hot!TypeOK
<1> QED
  BY <1>1, <1>2, <1>3, HotPart DEF vars

LEMMA StepSeg == IInv /\ [Next]_vars => Seg!BTypeOK'
<1> SUFFICES ASSUME IInv, [Next]_vars PROVE Seg!BTypeOK'
  OBVIOUS
<1>0. /\ seg \in [Seg!Dirs -> [Seg!Files -> Seg!FileVal]] /\ bpc \in [Requests -> Seg!Steps]
      /\ dir \in [Requests -> Seg!Dirs] /\ at \in [Requests -> Seg!Dirs]
      /\ built \in [Requests -> Seg!FileVal] /\ now \in Seg!Dirs
  BY DEF IInv, TypeOK, Seg!BTypeOK, Seg!Dirs
<1>1. ASSUME NEW r \in Requests, SegStep(r) PROVE Seg!BTypeOK'
  <2>1. ASSUME NEW f \in Seg!Files, NEW v \in Seg!FileVal, Seg!PutFile(r, f, v)
        PROVE  seg' \in [Seg!Dirs -> [Seg!Files -> Seg!FileVal]]
    <3>1. [seg[dir[r]] EXCEPT ![f] = v] \in [Seg!Files -> Seg!FileVal]
      BY <1>0
    <3> QED
      BY <1>0, <2>1, <3>1 DEF Seg!PutFile
  <2>2. Seg!Absent \in Seg!FileVal /\ [form |-> "raw", of |-> r] \in Seg!FileVal
    BY DEF Seg!FileVal, Seg!Forms
  <2>3. \A s \in {"dir", "copied", "grams", "done", "failed"} :
          [bpc EXCEPT ![r] = s] \in [Requests -> Seg!Steps]
    BY <1>0 DEF Seg!Steps, Seg!Files
  <2>4. CASE Seg!MkDir(r, now)
    BY <1>0, <2>3, <2>4 DEF Seg!MkDir, Seg!DirName, Seg!BTypeOK
  <2>5. CASE Seg!CopyDocs(r)
    <3>1. seg' \in [Seg!Dirs -> [Seg!Files -> Seg!FileVal]]
      BY <2>1, <2>2, <2>5, IndexFiles DEF Seg!CopyDocs
    <3> QED
      BY <1>0, <2>3, <2>5, <3>1 DEF Seg!CopyDocs, Seg!BTypeOK
  <2>6. CASE Seg!ReadDocs(r)
    <3>1. seg[dir[r]]["docs"] \in Seg!FileVal
      BY <1>0, IndexFiles
    <3>2. Seg!Digest(seg[dir[r]]["docs"]) \in Seg!FileVal
      BY <2>6, <3>1, DigestFacts DEF Seg!ReadDocs
    <3> QED
      BY <1>0, <2>3, <2>6, <3>2 DEF Seg!ReadDocs, Seg!BTypeOK
  <2>7. CASE Seg!WriteFile(r)
    <3>1. seg' \in [Seg!Dirs -> [Seg!Files -> Seg!FileVal]]
      BY <1>0, <2>1, <2>7 DEF Seg!WriteFile
    <3>2. bpc' \in [Requests -> Seg!Steps]
      BY <1>0, <2>7, AfterFacts DEF Seg!WriteFile
    <3> QED
      BY <1>0, <2>7, <3>1, <3>2 DEF Seg!WriteFile, Seg!BTypeOK
  <2>8. CASE Seg!RemoveDocs(r)
    <3>1. seg' \in [Seg!Dirs -> [Seg!Files -> Seg!FileVal]]
      BY <2>1, <2>2, <2>8, IndexFiles DEF Seg!RemoveDocs
    <3> QED
      BY <1>0, <2>3, <2>8, <3>1 DEF Seg!RemoveDocs, Seg!BTypeOK
  <2>9. CASE Seg!InputGone(r) \/ Seg!BuildFails(r)
    BY <1>0, <2>3, <2>9 DEF Seg!InputGone, Seg!BuildFails, Seg!BTypeOK
  <2> QED
    BY <1>1, <2>4, <2>5, <2>6, <2>7, <2>8, <2>9 DEF SegStep
<1>2. CASE UNCHANGED segvars
  BY <1>0, <1>2 DEF segvars, Seg!BTypeOK
<1> QED
  BY <1>1, <1>2, SegPart DEF vars

LEMMA StepOwn ==
  ASSUME IInv, [Next]_vars
  PROVE  /\ wal' \in [Requests -> {"none", "tmp", "final", "summed"}]
         /\ now' \in 0..MaxTime /\ ack' \in [Requests -> Answers]
<1>0. /\ wal \in [Requests -> {"none", "tmp", "final", "summed"}]
      /\ now \in 0..MaxTime /\ ack \in [Requests -> Answers] /\ MaxTime \in Nat
  BY IngestAssumption DEF IInv, TypeOK
<1>1. wal' \in [Requests -> {"none", "tmp", "final", "summed"}]
  BY <1>0, WalPart DEF AppendWal, vars, own
<1>2. now' \in 0..MaxTime
  <2>1. now' = now \/ Tick
    BY DEF Next, Handle, ApplyHot, AnswerEarly, AppendWal, BuildSegment, StoreFails,
       AnswerSegmentError, PublishManifest, AnswerLate, HangUp, CrashRestart, vars, own
  <2> QED
    BY <1>0, <2>1 DEF Tick
<1>3. ack' \in [Requests -> Answers]
  <2>1. ack' = ack \/ CrashRestart \/ \E r, a : a \in Answers /\ ack' = [ack EXCEPT ![r] = a]
    BY DEF Next, Handle, ApplyHot, AnswerEarly, AppendWal, BuildSegment, StoreFails,
       AnswerSegmentError, PublishManifest, AnswerLate, HangUp, Tick, vars, own, Answer, Answers
  <2> QED
    BY <1>0, <2>1 DEF CrashRestart, Answers
<1> QED
  BY <1>1, <1>2, <1>3

LEMMA StepHistory == IInv /\ [Next]_vars => M!HistoryInv' /\ Man!MTypeOK'
<1>1. IInv /\ [Next]_vars => M!HistoryInv'
  BY ManPart, M!HistoryStep, ManAssumption DEF IInv
<1>2. M!HistoryInv => Man!MTypeOK
  BY MTypes DEF M!HistoryInv, M!SoundInv
<1> QED
  BY <1>1, <1>2, PTL

LEMMA StepNames == IInv /\ [Next]_vars => NamesBuilt'
<1> SUFFICES ASSUME IInv, [Next]_vars, NEW d \in Seg!Dirs, M!Named(d)', NEW f \in Index
             PROVE  seg'[d][f] # Seg!Absent
  BY DEF NamesBuilt, Seg!Dirs
<1>1. M!SoundInv /\ M!Step
  BY ManPart DEF IInv, M!HistoryInv
<1>2. M!Named(d) \/ \E r \in Requests : mpc[r] \in M!Running /\ job[r].path = d
  BY <1>1, M!NamesStep, ManAssumption
<1>3. ASSUME NEW r \in Requests, mpc[r] \in M!Running, job[r].path = d
      PROVE  seg[d][f] # Seg!Absent
  <2>1. bpc[r] = "done" /\ dir[r] = d
    BY <1>3 DEF IInv, Order, M!Running
  <2> QED
    BY <2>1, WrittenFacts DEF IInv, BuiltInOrder
<1>4. seg[d][f] # Seg!Absent
  BY <1>2, <1>3 DEF IInv, NamesBuilt
<1> QED
  BY <1>4, StepPresent

LEMMA InitHolds == Init => IInv
<1> SUFFICES ASSUME Init PROVE IInv
  OBVIOUS
<1>1. Hot!TypeOK
  BY IngestAssumption DEF Init, Hot!Init, Hot!TypeOK
<1>2. M!MInit
  BY Zenon DEF Init, Man!MInit, M!MInit, Man!InitialFiles, M!InitialFiles, Man!Blank, M!Blank,
     Man!OneOld, M!OneOld, Man!OldSeg, M!OldSeg, Man!Least, M!Least, Man!Min, M!Min
<1>3. M!HistoryInv
  BY <1>2, M!HistoryInit, ManAssumption
<1>4. Man!MTypeOK
  BY <1>3, MTypes DEF M!HistoryInv, M!SoundInv
<1>5. Seg!BTypeOK
  BY IngestAssumption DEF Init, Seg!BInit, Seg!BTypeOK, Seg!FileVal, Seg!Steps, Seg!Dirs
<1>6. TypeOK /\ life <= faults + 1
  <2>1. faults = 0 /\ life = 1 /\ now = 0 /\ lifeOf = [r \in Requests |-> 0]
    BY DEF Init, Man!MInit
  <2>2. now \in 0..MaxTime /\ life \in 1..MaxFaults + 1 /\ lifeOf \in [Requests -> 0..life]
    BY <2>1, IngestAssumption
  <2>3. /\ wal \in [Requests -> {"none", "tmp", "final", "summed"}]
        /\ ack \in [Requests -> Answers]
    BY DEF Init, Answers
  <2> QED
    BY <1>1, <1>4, <1>5, <2>1, <2>2, <2>3 DEF TypeOK
<1>7. /\ \A r \in Requests : /\ pc[r] = "idle" /\ reply[r] = "none" /\ wal[r] = "none"
                             /\ bpc[r] = "idle" /\ mpc[r] = "idle" /\ ack[r] = "none"
                             /\ dir[r] = 0 /\ at[r] = 0
  BY <1>2 DEF Init, Hot!Init, Seg!BInit, M!MInit
<1>8. Order /\ Lives /\ OnePerLife
  BY <1>7 DEF Order, Lives, OnePerLife
<1>9. BuiltInOrder /\ OwnIndex
  BY <1>7, WrittenFacts DEF BuiltInOrder, OwnIndex, OfItsOwn, Seg!Files
<1>10. NamesBuilt
  <2> SUFFICES ASSUME NEW d \in Seg!Dirs, M!Named(d) PROVE FALSE
    BY DEF NamesBuilt
  <2>1. d = OldPath
    BY <1>2, M!NamesInit, ManAssumption
  <2> QED
    BY <2>1, IngestAssumption DEF Seg!Dirs
<1> QED
  BY <1>3, <1>6, <1>8, <1>9, <1>10 DEF IInv

LEMMA StepKeeps == IInv /\ [Next]_vars => IInv'
<1> SUFFICES ASSUME IInv, [Next]_vars PROVE IInv'
  OBVIOUS
<1>1. TypeOK' /\ (life <= faults + 1)'
  BY StepHot, StepSeg, StepHistory, StepLife, StepOwn DEF TypeOK
<1> QED
  BY <1>1, StepHistory, StepOrder, StepLives, StepBuiltInOrder, StepNames, StepOwnIndex DEF IInv

LEMMA Holds == Spec => []IInv
BY InitHolds, StepKeeps, PTL DEF Spec
-----------------------------------------------------------------------------
(* The theorems *)

\* The type invariant: nothing of any component leaves its type, whatever
\* interleaves, fails, hangs up or crashes.
THEOREM TypeCorrect == Spec => []TypeOK
<1>1. IInv => TypeOK
  BY DEF IInv
<1> QED
  BY <1>1, Holds, PTL

\* A client that is told its batch was stored finds it in a finished WAL file;
\* one that is refused has left nothing on disk (http_api.rs:178-221).
THEOREM AnswersMatchTheDisk == Spec => []AnswerMatchesDisk
<1>1. IInv => AnswerMatchesDisk
  BY DEF IInv, Order, AnswerMatchesDisk, OnDisk
<1> QED
  BY <1>1, Holds, PTL

\* Within one life of the broker a key reaches the disk at most once, whatever
\* retries, refusals and hang-ups (http_api.rs:193, hot.rs:61-66).
THEOREM KeysReachTheDiskOnce == Spec => []KeyStoredOncePerLife
<1>1. IInv => KeyStoredOncePerLife
  <2> SUFFICES ASSUME IInv, NEW q \in Requests, NEW r \in Requests,
                      wal[q] # "none", wal[r] # "none",
                      key[q] = key[r], key[q] # NoKey, lifeOf[q] = lifeOf[r]
               PROVE  q = r
    BY DEF KeyStoredOncePerLife
  <2>1. \A x \in {q, r} : pc[x] = "done" /\ reply[x] = "added"
    BY DEF IInv, Order
  <2> QED
    BY <2>1 DEF IInv, OnePerLife
<1> QED
  BY <1>1, Holds, PTL

\* Every directory a readable manifest names holds grams, masks and meta, at
\* every instant: publication comes after the whole build (http_api.rs:208-231).
THEOREM PublishedIsComplete == Spec => []PublishedIsBuilt
<1>1. IInv => PublishedIsBuilt
  <2> SUFFICES ASSUME IInv, NEW e \in Man!OnDisk.segs, e.path # OldPath, NEW f \in Index
               PROVE  seg[e.path][f] # Seg!Absent
    BY DEF PublishedIsBuilt, Index
  <2>1. man # 0 /\ e \in file[man].segs /\ man \in Inodes
    BY DEF Man!OnDisk, Man!Blank, IInv, TypeOK, Man!MTypeOK
  <2>2. e.path \in Seg!Dirs
    BY <2>1 DEF IInv, TypeOK, Man!MTypeOK, Man!Content, Man!Entry
  <2>3. M!Named(e.path)
    BY <2>1 DEF M!Named
  <2> QED
    BY <2>2, <2>3 DEF IInv, NamesBuilt
<1> QED
  BY <1>1, Holds, PTL

\* A build that had its millisecond for itself holds the index of its own batch
\* in all of its files, however other builds interleave (compactor.rs:24-44).
THEOREM AloneBuildsItsOwn == Spec => []OwnIndexAlone
<1>1. IInv => OwnIndexAlone
  BY WrittenFacts DEF IInv, OwnIndex, OfItsOwn, Alone, OwnIndexAlone, Index
<1> QED
  BY <1>1, Holds, PTL

\* With one publication at a time, a batch answered as stored is and stays in
\* the manifest, unless an append found the file unreadable or in another
\* format, or an existence check failed on it (http_api.rs:224-247, fs.rs:31-76).
THEOREM StoredIsInTheManifest == Spec => []StoredIsPublished
<1>1. IInv => StoredIsPublished
  <2> SUFFICES ASSUME IInv, ~overlapped, ~blind, ~misjudged,
                      NEW r \in Requests, ack[r] = "stored"
               PROVE  Published(r)
    BY DEF StoredIsPublished
  <2>1. mpc[r] = "ok" /\ job[r].path = dir[r]
    BY DEF IInv, Order
  <2>2. \E e \in M!OnDisk.segs : e.path = job[r].path
    BY <2>1 DEF IInv, M!HistoryInv, M!Kept
  <2> QED
    BY <2>1, <2>2, MDisk DEF Published
<1> QED
  BY <1>1, Holds, PTL
=============================================================================
