------------------------- MODULE ManifestFileProofs -------------------------
(***************************************************************************)
(* Theorems about ManifestFile.  SoundInv holds whatever overlaps, fails or  *)
(* crashes; HistoryInv adds what holds while appends follow one another.    *)
(***************************************************************************)
EXTENDS ManifestFile, NaturalSets, FiniteSetTheorems, TLAPS

Bounded(c) == \E b \in Nat : \A e \in c.segs : e.gen <= b

UniqueGens(c) ==
  \A x, y \in c.segs : x.shard = y.shard /\ x.gen = y.gen => x = y

NewestInUse(c) ==
  \A e \in c.segs : c.gen[e.shard] # 0 => e.gen <= c.gen[e.shard]

\* The generation that searches use has an entry.
CurrentListed(c) ==
  \A s \in Shards : c.gen[s] # 0 => \E e \in c.segs : e.shard = s /\ e.gen = c.gen[s]

\* A content that could be renamed into place.
Sound(c) ==
  /\ c \in Content /\ IsFiniteSet(c.segs) /\ Bounded(c)
  /\ UniqueGens(c) /\ NewestInUse(c) /\ CurrentListed(c)

\* What every inode holds and what every writer is about to write is sound:
\* a writer may write into any inode, also the live one.
SoundInv ==
  /\ MTypeOK
  /\ \A i \in Inodes : Sound(file[i])
  /\ \A a \in Appenders : Sound(flat[a])

\* The two names never refer to one inode.
Apart == tmp # 0 => tmp # man

\* An append that is alone in flight has read what is still on disk, and adds
\* its segment to it.
Prepared(a) ==
  /\ flat[a].fmt = "flat"
  /\ flat[a].gen[job[a].shard] # 0
  /\ \E e \in flat[a].segs :
       e.shard = job[a].shard /\ e.gen = flat[a].gen[e.shard] /\ e.path = job[a].path
  /\ \A e \in flat[a].segs :
       e \in OnDisk.segs \/ (e.shard = job[a].shard /\ e.path = job[a].path)
  /\ ~blind =>
       /\ OnDisk.segs \subseteq flat[a].segs
       /\ OnDisk.gen[job[a].shard] <= flat[a].gen[job[a].shard]
       /\ \A s \in Shards \ {job[a].shard} : flat[a].gen[s] = OnDisk.gen[s]

Alone ==
  /\ \A a, b \in InFlight : a = b
  /\ \A a \in Appenders :
       /\ mpc[a] \in {"read", "opened", "written"} => Prepared(a)
       /\ mpc[a] = "opened" => tmp # 0 /\ fd[a] = tmp /\ file[tmp] = Blank("empty")
       /\ mpc[a] = "written" => tmp # 0 /\ file[tmp] = flat[a]
       /\ mpc[a] = "init" /\ ~misjudged => man = 0
       /\ mpc[a] = "emptied" => man # 0 /\ fd[a] = man /\ file[man] = Blank("empty")

\* Every entry is that of an append that succeeded, or was there before.
Answered ==
  \A e \in OnDisk.segs : e.path # OldPath =>
    \E a \in Appenders :
      mpc[a] = "ok" /\ job[a].shard = e.shard /\ job[a].path = e.path

\* Every append that succeeded is in the manifest, the last one of each shard
\* as its current generation.
Kept ==
  /\ \A a \in Appenders : mpc[a] = "ok" =>
       \E e \in OnDisk.segs : e.shard = job[a].shard /\ e.path = job[a].path
  /\ \A s \in Shards : newest[s] # OldPath =>
       /\ job[newest[s]].shard = s /\ OnDisk.gen[s] # 0
       /\ \E e \in OnDisk.segs :
            e.shard = s /\ e.gen = OnDisk.gen[s] /\ e.path = job[newest[s]].path

\* Only an append that succeeded was renamed into place.
RenamedOk == \A s \in Shards : newest[s] # OldPath => mpc[newest[s]] = "ok"

HistoryInv ==
  /\ SoundInv /\ Apart /\ RenamedOk
  /\ ~overlapped => Alone /\ Answered
  /\ ~overlapped /\ ~misjudged /\ ~blind => Kept
-----------------------------------------------------------------------------
(* The pure part *)

\* The least shard.
LEMMA LeastShard == Min(Shards) \in Shards
<1>1. Shards \in SUBSET Nat /\ Shards # {}
  BY ManifestAssumption
<1>2. \E n \in Shards : \A m \in Shards : n <= m
  BY <1>1, LeastNatural
<1> QED
  BY <1>2 DEF Min

\* The next generation is above every one of its shard (fs.rs:50-61).
LEMMA NextGenFacts ==
  ASSUME NEW c, Sound(c), NEW s \in Shards
  PROVE  /\ NextGen(c, s) \in Nat \ {0}
         /\ c.gen[s] < NextGen(c, s)
         /\ \A e \in c.segs : e.shard = s => e.gen < NextGen(c, s)
<1> DEFINE S == GensOf(c, s)
<1>1. c.gen[s] \in Nat /\ \A e \in c.segs : e.gen \in Nat
  BY DEF Sound, Content, Entry
<1>2. S \in SUBSET Nat /\ c.gen[s] \in S /\ \A e \in c.segs : e.shard = s => e.gen \in S
  BY <1>1 DEF GensOf
<1>3. PICK b \in Nat : \A e \in c.segs : e.gen <= b
  BY DEF Sound, Bounded
<1>4. PICK d \in Nat : b <= d /\ c.gen[s] <= d
  <2>1. CASE b <= c.gen[s]
    BY <2>1, <1>1
  <2>2. CASE c.gen[s] <= b
    BY <2>2
  <2> QED
    BY <2>1, <2>2, <1>1
<1>5. \A x \in S : x <= d
  BY <1>1, <1>3, <1>4 DEF GensOf
<1>6. Max(S) \in S /\ \A x \in S : x <= Max(S)
  BY <1>2, <1>5, MaxFacts
<1>7. NextGen(c, s) = Max(S) + 1
  BY DEF NextGen
<1> HIDE DEF S
<1>8. PICK m \in Nat : m = Max(S)
  BY <1>2, <1>6
<1>9. NextGen(c, s) = m + 1
  BY <1>7, <1>8
<1>10. \A x \in S : x < m + 1
  BY <1>2, <1>6, <1>8
<1>11. m + 1 \in Nat \ {0}
  BY <1>8
<1> QED
  BY <1>2, <1>9, <1>10, <1>11

\* An empty manifest is sound, whatever its format.
LEMMA BlankSound ==
  ASSUME NEW f \in {"flat", "v1", "braces", "empty", "garbage"}
  PROVE  Sound(Blank(f))
<1>1. /\ Blank(f) \in Content /\ Blank(f).segs = {}
      /\ \A s \in Shards : Blank(f).gen[s] = 0
  BY DEF Blank, Content
<1>2. Bounded(Blank(f)) /\ IsFiniteSet(Blank(f).segs)
  BY <1>1, FS_EmptySet DEF Bounded
<1> QED
  BY <1>1, <1>2 DEF Sound, UniqueGens, NewestInUse, CurrentListed

LEMMA BlanksSound ==
  Sound(Blank("empty")) /\ Sound(Blank("braces")) /\ Sound(Blank("flat"))
BY BlankSound

\* What publishing a segment changes of a manifest.
Published(c, j, d) ==
  \E g \in Nat \ {0}, new \in Entry :
    /\ c.gen[j.shard] < g /\ \A e \in c.segs : e.shard = j.shard => e.gen < g
    /\ new.shard = j.shard /\ new.gen = g /\ new.path = j.path
    /\ d = [fmt |-> "flat", gen |-> d.gen, segs |-> c.segs \cup {new}]
    /\ d.gen = [c.gen EXCEPT ![j.shard] = g]
    /\ d.gen[j.shard] = g
    /\ \A s \in Shards \ {j.shard} : d.gen[s] = c.gen[s]

LEMMA PublishFacts ==
  ASSUME NEW c, Sound(c), NEW j \in [shard : Shards, path : Paths \cup {OldPath}]
  PROVE  Published(c, j, Publish(c, j))
<1> DEFINE g == NextGen(c, j.shard)
           new == [shard |-> j.shard, gen |-> g, path |-> j.path]
           d == Publish(c, j)
<1>1. /\ g \in Nat \ {0} /\ c.gen[j.shard] < g
      /\ \A e \in c.segs : e.shard = j.shard => e.gen < g
      /\ j.shard \in Shards /\ j.path \in Paths \cup {OldPath}
  BY NextGenFacts
<1>2. /\ d.gen = [c.gen EXCEPT ![j.shard] = g]
      /\ d = [fmt |-> "flat", gen |-> d.gen, segs |-> c.segs \cup {new}]
  BY DEF Publish
<1>3. /\ new.shard = j.shard /\ new.gen = g /\ new.path = j.path /\ new \in Entry
  BY <1>1 DEF Entry
<1>4. c.gen \in [Shards -> Nat]
  BY DEF Sound, Content
<1> HIDE DEF g, new, d
<1>5. d.gen[j.shard] = g /\ \A s \in Shards \ {j.shard} : d.gen[s] = c.gen[s]
  BY <1>1, <1>2, <1>4
<1> QED
  BY <1>1, <1>2, <1>3, <1>5 DEF Published, d

\* Publishing keeps a manifest sound.
LEMMA PublishSound ==
  ASSUME NEW c, Sound(c), NEW j \in [shard : Shards, path : Paths \cup {OldPath}]
  PROVE  Sound(Publish(c, j))
<1> DEFINE d == Publish(c, j)
<1>0. j.shard \in Shards /\ j.path \in Paths \cup {OldPath}
  OBVIOUS
<1> HIDE DEF d
<1>1. PICK g \in Nat \ {0}, new \in Entry :
        /\ c.gen[j.shard] < g /\ \A e \in c.segs : e.shard = j.shard => e.gen < g
        /\ new.shard = j.shard /\ new.gen = g /\ new.path = j.path
        /\ d = [fmt |-> "flat", gen |-> d.gen, segs |-> c.segs \cup {new}]
        /\ d.gen = [c.gen EXCEPT ![j.shard] = g]
        /\ d.gen[j.shard] = g
        /\ \A s \in Shards \ {j.shard} : d.gen[s] = c.gen[s]
  <2>1. Published(c, j, d)
    BY PublishFacts DEF d
  <2> QED
    BY <2>1 DEF Published
<1>2. /\ c.gen \in [Shards -> Nat] /\ c.segs \in SUBSET Entry /\ IsFiniteSet(c.segs)
      /\ Bounded(c) /\ UniqueGens(c) /\ NewestInUse(c) /\ CurrentListed(c)
  BY DEF Sound, Content
<1>3. d.segs = c.segs \cup {new} /\ d.fmt = "flat"
  BY <1>1
<1>4. \A e \in c.segs : e.gen \in Nat /\ e.shard \in Shards
  BY <1>2 DEF Entry
<1>5. d \in Content /\ IsFiniteSet(d.segs)
  <2>1. d.gen \in [Shards -> Nat] /\ d.segs \in SUBSET Entry
    BY <1>1, <1>3, <1>2
  <2>2. d \in Content
    BY <1>1, <1>3, <2>1 DEF Content
  <2>3. IsFiniteSet(d.segs)
    BY <1>1, <1>3, <1>2, FS_AddElement
  <2> QED
    BY <2>2, <2>3
<1>6. Bounded(d)
  <2>1. PICK b \in Nat : \A e \in c.segs : e.gen <= b
    BY <1>2 DEF Bounded
  <2>2. \A e \in d.segs : e.gen <= b + g
    BY <1>1, <1>3, <1>4, <2>1
  <2> QED
    BY <2>2 DEF Bounded
<1>7. UniqueGens(d)
  BY <1>1, <1>3, <1>2, <1>4 DEF UniqueGens
<1>8. NewestInUse(d)
  <2> SUFFICES ASSUME NEW e \in d.segs, d.gen[e.shard] # 0
               PROVE  e.gen <= d.gen[e.shard]
    BY DEF NewestInUse
  <2>1. CASE e = new
    BY <2>1, <1>1, <1>3
  <2>2. CASE e \in c.segs /\ e.shard = j.shard
    BY <2>2, <1>1, <1>3, <1>4
  <2>3. CASE e \in c.segs /\ e.shard # j.shard
    BY <2>3, <1>1, <1>3, <1>2, <1>4 DEF NewestInUse
  <2> QED
    BY <2>1, <2>2, <2>3, <1>1, <1>3
<1>9. CurrentListed(d)
  <2> SUFFICES ASSUME NEW s \in Shards, d.gen[s] # 0
               PROVE  \E e \in d.segs : e.shard = s /\ e.gen = d.gen[s]
    BY DEF CurrentListed
  <2>1. CASE s = j.shard
    BY <2>1, <1>1, <1>3
  <2>2. CASE s # j.shard
    BY <2>2, <1>1, <1>3, <1>2 DEF CurrentListed
  <2> QED
    BY <2>1, <2>2
<1> QED
  BY <1>5, <1>6, <1>7, <1>8, <1>9 DEF Sound, d
-----------------------------------------------------------------------------
(* The contents are sound *)

\* What a read of the file can yield.
LEMMA OnDiskSound == SoundInv => Sound(OnDisk)
<1> SUFFICES ASSUME SoundInv PROVE Sound(OnDisk)
  OBVIOUS
<1>1. CASE man = 0
  BY <1>1, BlanksSound DEF OnDisk
<1>2. CASE man # 0
  BY <1>2 DEF OnDisk, SoundInv, MTypeOK
<1> QED
  BY <1>1, <1>2

LEMMA BaseSound == ASSUME SoundInv, NEW s PROVE Sound(Base(s))
  BY OnDiskSound, BlanksSound DEF Base

\* One writer over another leaves the old entries or the new ones.
LEMMA OverwriteSound ==
  ASSUME NEW old, Sound(old), NEW new, Sound(new)
  PROVE  Sound(Overwrite(old, new))
<1> DEFINE torn == [old EXCEPT !.fmt = "garbage"]
<1>1. torn.gen = old.gen /\ torn.segs = old.segs /\ torn \in Content
  BY DEF Sound, Content
<1> HIDE DEF torn
<1>2. Sound(torn)
  BY <1>1 DEF Sound, Bounded, UniqueGens, NewestInUse, CurrentListed
<1> QED
  BY <1>2 DEF Overwrite, torn

LEMMA OldFilesSound == \A c \in InitialFiles : Sound(c)
<1>1. ASSUME NEW s \in Shards, NEW f \in {"v1", "flat"}, NEW g \in {0, 1}, NEW k \in {1, 2},
             g # 0 => k = g
      PROVE  Sound(OneOld(f, s, g, k))
  <2> DEFINE c == OneOld(f, s, g, k)
  <2>1. /\ c \in Content
        /\ c.segs = {OldSeg(s, k)}
        /\ \A x \in Shards : c.gen[x] = IF x = s THEN g ELSE 0
        /\ OldSeg(s, k).shard = s /\ OldSeg(s, k).gen = k
    BY DEF OneOld, OldSeg, Content, Entry
  <2> HIDE DEF c
  <2>2. Bounded(c) /\ IsFiniteSet(c.segs)
    <3>1. \A e \in c.segs : e.gen <= 2
      BY <2>1
    <3>2. IsFiniteSet({OldSeg(s, k)})
      BY FS_Singleton
    <3>3. IsFiniteSet(c.segs)
      BY <2>1, <3>2, Zenon
    <3> QED
      BY <3>1, <3>3 DEF Bounded
  <2>3. UniqueGens(c)
    BY <2>1 DEF UniqueGens
  <2>4. NewestInUse(c) /\ CurrentListed(c)
    BY <1>1, <2>1 DEF NewestInUse, CurrentListed
  <2> QED
    BY <2>1, <2>2, <2>3, <2>4 DEF Sound, c
<1>2. \A s \in Shards : /\ Sound(OneOld("v1", s, 1, 1)) /\ Sound(OneOld("flat", s, 1, 1))
                        /\ Sound(OneOld("flat", s, 0, 2))
  BY <1>1
<1> QED
  BY <1>2, BlanksSound DEF InitialFiles

LEMMA SoundInit == MInit => SoundInv
<1> SUFFICES ASSUME MInit PROVE SoundInv
  OBVIOUS
<1>0. Sound(Blank("empty")) /\ Blank("empty") \in Content
  BY BlanksSound DEF Sound
<1>1. file \in [Inodes -> Content] /\ \A i \in Inodes : Sound(file[i])
  <2>1. CASE man = 0 /\ file = [i \in Inodes |-> Blank("empty")]
    BY <1>0, <2>1
  <2>2. ASSUME NEW c \in InitialFiles,
               file = [i \in Inodes |-> IF i = man THEN c ELSE Blank("empty")]
        PROVE  file \in [Inodes -> Content] /\ \A i \in Inodes : Sound(file[i])
    <3>1. Sound(c) /\ c \in Content
      BY OldFilesSound DEF Sound
    <3> QED
      BY <1>0, <2>2, <3>1
  <2> QED
    BY <2>1, <2>2 DEF MInit
<1>2. flat \in [Appenders -> Content] /\ \A a \in Appenders : Sound(flat[a])
  BY <1>0 DEF MInit
<1>3. man \in Inodes \cup {0} /\ tmp \in Inodes \cup {0}
  BY DEF MInit, Least
<1>4. /\ mpc \in [Appenders -> Idle \cup Running] /\ attempt \in [Appenders -> 1..2]
      /\ fd \in [Appenders -> Inodes \cup {0}] /\ newest \in [Shards -> Appenders \cup {OldPath}]
  BY DEF MInit, Idle, Running
<1>5. job \in [Appenders -> [shard : Shards, path : Paths \cup {OldPath}]]
  BY LeastShard DEF MInit
<1>6. /\ faults \in 0..MaxFaults
      /\ blind \in BOOLEAN /\ misjudged \in BOOLEAN /\ overlapped \in BOOLEAN
  <2>1. blind \in BOOLEAN /\ misjudged \in BOOLEAN /\ overlapped \in BOOLEAN
    BY Zenon DEF MInit
  <2> QED
    BY <2>1, ManifestAssumption DEF MInit
<1> QED
  BY <1>1, <1>2, <1>3, <1>4, <1>5, <1>6 DEF SoundInv, MTypeOK
-----------------------------------------------------------------------------
(* The steps.  Those of a broker that does more than publish may inject faults *)
(* of their own and stop with no append in flight. *)

rest == <<file, man, tmp, mpc, job, flat, fd, attempt, blind, misjudged, overlapped,
          newest>>

Step ==
  /\ \/ \E a \in Appenders, s \in Shards, p \in Paths : Begin(a, s, p)
     \/ \E a \in Appenders : AppendStep(a)
     \/ Stop
     \/ UNCHANGED rest
  /\ faults' \in 0..MaxFaults

LEMMA NextIsStep == MTypeOK /\ [MNext]_mvars => Step
<1> SUFFICES ASSUME MTypeOK, [MNext]_mvars PROVE Step
  OBVIOUS
<1>0. faults \in 0..MaxFaults /\ (Fault => faults' \in 0..MaxFaults)
  BY ManifestAssumption DEF MTypeOK, Fault
<1>1. ASSUME NEW a \in Appenders, NEW s \in Shards, NEW p \in Paths, Begin(a, s, p)
      PROVE  faults' = faults
  BY <1>1 DEF Begin
<1>2. ASSUME NEW a \in Appenders, AppendStep(a) PROVE faults' = faults \/ Fault
  BY <1>2 DEF AppendStep, Read, ReadFails, Open, Write, Rename, RenameMissing, IoFails,
     AfterError, ExistsFails, InitOpen, InitWrite, InitFails, Drop
<1>3. CASE MNext
  BY <1>0, <1>1, <1>2, <1>3 DEF MNext, Step, Crash
<1>4. CASE UNCHANGED mvars
  BY <1>0, <1>4 DEF mvars, Step, rest
<1> QED
  BY <1>3, <1>4

\* Where an append goes, and that the others stay.
LEMMA Moves ==
  ASSUME MTypeOK, NEW a \in Appenders, NEW s \in Idle \cup Running, Goto(a, s)
  PROVE  /\ mpc' \in [Appenders -> Idle \cup Running] /\ mpc'[a] = s
         /\ \A x \in Appenders : x # a => mpc'[x] = mpc[x]
BY DEF MTypeOK, Goto

\* The inode a name refers to after it was opened for writing.
LEMMA TargetFacts ==
  ASSUME MTypeOK, NEW name \in Inodes \cup {0}, NEW i \in Target(name)
  PROVE  /\ i \in Inodes /\ i # 0
         /\ i = name \/ (i # man /\ i # tmp /\ \A x \in Appenders : i # fd[x])
BY ManifestAssumption DEF Target, Least, FreeInodes

LEMMA SoundStep == SoundInv /\ Step => SoundInv'
<1> SUFFICES ASSUME SoundInv, Step PROVE SoundInv'
  OBVIOUS
<1>0. /\ MTypeOK /\ faults' \in 0..MaxFaults /\ \A i \in Inodes : Sound(file[i])
      /\ \A a \in Appenders : Sound(flat[a])
  BY DEF SoundInv, Step
<1>1. ASSUME NEW a \in Appenders, NEW s \in Shards, NEW p \in Paths, Begin(a, s, p)
      PROVE  SoundInv'
  <2>1. mpc' \in [Appenders -> Idle \cup Running]
    BY <1>0, <1>1, Moves DEF Begin, Idle, Running
  <2>2. job' \in [Appenders -> [shard : Shards, path : Paths \cup {OldPath}]]
    BY <1>0, <1>1 DEF Begin, MTypeOK
  <2>3. overlapped' \in BOOLEAN
    BY <1>1 DEF Begin
  <2> QED
    BY <1>0, <1>1, <2>1, <2>2, <2>3 DEF Begin, MTypeOK, SoundInv
<1>2. ASSUME NEW a \in Appenders, Read(a) \/ ReadFails(a) PROVE SoundInv'
  <2>1. job[a] \in [shard : Shards, path : Paths \cup {OldPath}]
    BY <1>0 DEF MTypeOK
  <2>2. PICK c : Sound(c) /\ flat' = [flat EXCEPT ![a] = Publish(c, job[a])]
    <3>1. CASE Read(a)
      <4>1. Sound(Base(job[a].shard))
        BY BaseSound
      <4> QED
        BY <3>1, <4>1 DEF Read
    <3>2. CASE ReadFails(a)
      <4>1. Sound(Blank("flat"))
        BY BlanksSound
      <4> QED
        BY <3>2, <4>1 DEF ReadFails
    <3> QED
      BY <1>2, <3>1, <3>2
  <2>3. Sound(Publish(c, job[a])) /\ Publish(c, job[a]) \in Content
    BY <2>1, <2>2, PublishSound DEF Sound
  <2>4. flat' \in [Appenders -> Content] /\ \A x \in Appenders : Sound(flat'[x])
    BY <1>0, <2>2, <2>3 DEF MTypeOK
  <2>5. mpc' \in [Appenders -> Idle \cup Running]
    BY <1>0, <1>2, Moves DEF Read, ReadFails, Running
  <2>6. blind' \in BOOLEAN
    BY <1>2 DEF Read, ReadFails
  <2> QED
    BY <1>0, <1>2, <2>4, <2>5, <2>6 DEF Read, ReadFails, SoundInv, MTypeOK
<1>3. ASSUME NEW i \in Inodes, NEW c, Sound(c), file' = [file EXCEPT ![i] = c]
      PROVE  file' \in [Inodes -> Content] /\ \A x \in Inodes : Sound(file'[x])
  BY <1>0, <1>3 DEF MTypeOK, Sound
<1>4. ASSUME NEW a \in Appenders, Open(a) PROVE SoundInv'
  <2>1. PICK i \in Target(tmp) : /\ fd' = [fd EXCEPT ![a] = i] /\ tmp' = i
                                  /\ file' = [file EXCEPT ![i] = Blank("empty")]
    BY <1>4 DEF Open
  <2>2. i \in Inodes
    BY <1>0, TargetFacts DEF MTypeOK
  <2>3. file' \in [Inodes -> Content] /\ \A x \in Inodes : Sound(file'[x])
    BY <1>3, <2>1, <2>2, BlanksSound
  <2>4. mpc' \in [Appenders -> Idle \cup Running]
    BY <1>0, <1>4, Moves DEF Open, Running
  <2> QED
    BY <1>0, <1>4, <2>1, <2>2, <2>3, <2>4 DEF Open, SoundInv, MTypeOK
<1>5. ASSUME NEW a \in Appenders, Write(a) PROVE SoundInv'
  <2>1. file' \in [Inodes -> Content] /\ \A x \in Inodes : Sound(file'[x])
    <3>1. CASE fd[a] \in Inodes
      <4>1. Sound(Overwrite(file[fd[a]], flat[a]))
        BY <1>0, <3>1, OverwriteSound
      <4> QED
        BY <1>3, <1>5, <3>1, <4>1 DEF Write
    <3>2. CASE fd[a] \notin Inodes
      BY <1>0, <1>5, <3>2 DEF Write, MTypeOK
    <3> QED
      BY <3>1, <3>2
  <2>2. mpc' \in [Appenders -> Idle \cup Running]
    BY <1>0, <1>5, Moves DEF Write, Running
  <2>3. fd' \in [Appenders -> Inodes \cup {0}]
    BY <1>0, <1>5 DEF Write, MTypeOK
  <2> QED
    BY <1>0, <1>5, <2>1, <2>2, <2>3 DEF Write, SoundInv, MTypeOK
<1>6. ASSUME NEW a \in Appenders, Rename(a) PROVE SoundInv'
  <2>1. mpc' \in [Appenders -> Idle \cup Running]
    BY <1>0, <1>6, Moves DEF Rename, Idle
  <2>2. newest' \in [Shards -> Appenders \cup {OldPath}]
    BY <1>0, <1>6 DEF Rename, MTypeOK
  <2> QED
    BY <1>0, <1>6, <2>1, <2>2 DEF Rename, SoundInv, MTypeOK
<1>7. ASSUME NEW a \in Appenders, RenameMissing(a) \/ IoFails(a) \/ AfterError(a) \/ Drop(a)
      PROVE  SoundInv'
  <2>1. mpc' \in [Appenders -> Idle \cup Running]
    BY <1>0, <1>7, Moves DEF RenameMissing, IoFails, AfterError, Drop, Idle, Running
  <2>2. fd' \in [Appenders -> Inodes \cup {0}]
    BY <1>0, <1>7 DEF RenameMissing, IoFails, AfterError, Drop, MTypeOK
  <2> QED
    BY <1>0, <1>7, <2>1, <2>2 DEF RenameMissing, IoFails, AfterError, Drop, SoundInv, MTypeOK
<1>8. ASSUME NEW a \in Appenders, ExistsFails(a) PROVE SoundInv'
  <2>1. mpc' \in [Appenders -> Idle \cup Running]
    BY <1>0, <1>8, Moves DEF ExistsFails, Running
  <2>2. misjudged' \in BOOLEAN
    BY <1>8 DEF ExistsFails
  <2> QED
    BY <1>0, <1>8, <2>1, <2>2 DEF ExistsFails, SoundInv, MTypeOK
<1>9. ASSUME NEW a \in Appenders, InitOpen(a) PROVE SoundInv'
  <2>1. PICK i \in Target(man) : /\ man' = i /\ fd' = [fd EXCEPT ![a] = i]
                                  /\ file' = [file EXCEPT ![i] = Blank("empty")]
    BY <1>9 DEF InitOpen
  <2>2. i \in Inodes
    BY <1>0, TargetFacts DEF MTypeOK
  <2>3. file' \in [Inodes -> Content] /\ \A x \in Inodes : Sound(file'[x])
    BY <1>3, <2>1, <2>2, BlanksSound
  <2>4. mpc' \in [Appenders -> Idle \cup Running]
    BY <1>0, <1>9, Moves DEF InitOpen, Running
  <2> QED
    BY <1>0, <1>9, <2>1, <2>2, <2>3, <2>4 DEF InitOpen, SoundInv, MTypeOK
<1>10. ASSUME NEW a \in Appenders, InitWrite(a) \/ InitFails(a) PROVE SoundInv'
  <2>1. file' \in [Inodes -> Content] /\ \A x \in Inodes : Sound(file'[x])
    <3>1. CASE InitWrite(a) /\ fd[a] \in Inodes
      <4>1. Sound(Overwrite(file[fd[a]], Blank("braces")))
        BY <1>0, <3>1, OverwriteSound, BlanksSound
      <4> QED
        BY <1>3, <3>1, <4>1 DEF InitWrite
    <3>2. CASE InitWrite(a) /\ fd[a] \notin Inodes
      BY <1>0, <3>2 DEF InitWrite, MTypeOK
    <3>3. CASE InitFails(a)
      BY <1>0, <3>3 DEF InitFails, MTypeOK
    <3> QED
      BY <1>10, <3>1, <3>2, <3>3
  <2>2. Retry(a)
    BY <1>10 DEF InitWrite, InitFails
  <2>3. mpc' \in [Appenders -> Idle \cup Running]
    BY <1>0, <2>2, Moves DEF Retry, Running
  <2>4. attempt' \in [Appenders -> 1..2] /\ fd' \in [Appenders -> Inodes \cup {0}]
    BY <1>0, <2>2 DEF Retry, MTypeOK
  <2> QED
    BY <1>0, <2>1, <2>2, <2>3, <2>4 DEF Retry, SoundInv, MTypeOK
<1>11. ASSUME Stop PROVE SoundInv'
  <2>1. mpc' \in [Appenders -> Idle \cup Running] /\ fd' \in [Appenders -> Inodes \cup {0}]
    BY <1>0, <1>11 DEF Stop, MTypeOK, Idle
  <2> QED
    BY <1>0, <1>11, <2>1 DEF Stop, SoundInv, MTypeOK
<1>12. ASSUME UNCHANGED rest PROVE SoundInv'
  BY <1>0, <1>12 DEF rest, SoundInv, MTypeOK
<1> QED
  BY <1>1, <1>2, <1>4, <1>5, <1>6, <1>7, <1>8, <1>9, <1>10, <1>11, <1>12 DEF Step, AppendStep
-----------------------------------------------------------------------------
(* The history: an append that is alone publishes what it read and its segment *)

\* A step of an append is its own.
LEMMA OwnStep ==
  ASSUME MTypeOK, NEW a \in Appenders, AppendStep(a)
  PROVE  /\ mpc[a] \in Running /\ mpc'[a] # "idle" /\ job' = job /\ overlapped' = overlapped
         /\ \A x \in Appenders : x # a => mpc'[x] = mpc[x]
<1>1. mpc[a] \in Running /\ job' = job /\ overlapped' = overlapped
  BY DEF AppendStep, Read, ReadFails, Open, Write, Rename, RenameMissing, IoFails,
     AfterError, ExistsFails, InitOpen, InitWrite, InitFails, Retry, Drop, Running
<1>2. \E s : s # "idle" /\ Goto(a, s)
  BY DEF AppendStep, Read, ReadFails, Open, Write, Rename, RenameMissing, IoFails,
     AfterError, ExistsFails, InitOpen, InitWrite, InitFails, Retry, Drop
<1> QED
  BY <1>1, <1>2 DEF Goto, MTypeOK

\* An append that has begun keeps its job, one that has ended its result.
LEMMA BegunStays ==
  ASSUME MTypeOK, Step, NEW a \in Appenders, mpc[a] # "idle"
  PROVE  /\ mpc'[a] # "idle" /\ job'[a] = job[a]
         /\ mpc[a] \in Idle => mpc'[a] = mpc[a]
<1>1. ASSUME NEW b \in Appenders, NEW s \in Shards, NEW p \in Paths, Begin(b, s, p)
      PROVE  mpc'[a] = mpc[a] /\ job'[a] = job[a]
  BY <1>1 DEF Begin, Goto, MTypeOK
<1>2. ASSUME NEW b \in Appenders, AppendStep(b)
      PROVE  mpc'[a] # "idle" /\ job'[a] = job[a] /\ (mpc[a] \in Idle => mpc'[a] = mpc[a])
  BY <1>2, OwnStep DEF Idle, Running
<1>3. CASE Stop
  BY <1>3 DEF Stop, InFlight, Running, Idle, MTypeOK
<1>4. CASE UNCHANGED rest
  BY <1>4 DEF rest
<1> QED
  BY <1>1, <1>2, <1>3, <1>4 DEF Step

LEMMA ApartStep == MTypeOK /\ Apart /\ Step => Apart'
<1> SUFFICES ASSUME MTypeOK, Apart, Step PROVE Apart'
  OBVIOUS
<1>1. ASSUME NEW a \in Appenders, Open(a) PROVE Apart'
  <2>1. PICK i \in Target(tmp) : tmp' = i
    BY <1>1 DEF Open
  <2> QED
    BY <1>1, <2>1, TargetFacts DEF Open, Apart, MTypeOK
<1>2. ASSUME NEW a \in Appenders, InitOpen(a) PROVE Apart'
  <2>1. PICK i \in Target(man) : man' = i
    BY <1>2 DEF InitOpen
  <2> QED
    BY <1>2, <2>1, TargetFacts DEF InitOpen, Apart, MTypeOK
<1>3. ASSUME NEW a \in Appenders, AppendStep(a), ~Open(a), ~InitOpen(a) PROVE Apart'
  BY <1>3 DEF AppendStep, Read, ReadFails, Write, Rename, RenameMissing, IoFails,
     AfterError, ExistsFails, InitWrite, InitFails, Retry, Drop, Apart
<1>4. ASSUME \/ \E a \in Appenders, s \in Shards, p \in Paths : Begin(a, s, p)
             \/ Stop \/ UNCHANGED rest
      PROVE  Apart'
  BY <1>4 DEF Begin, Stop, rest, Apart
<1> QED
  BY <1>1, <1>2, <1>3, <1>4 DEF Step

LEMMA RenamedOkStep == MTypeOK /\ RenamedOk /\ Step => RenamedOk'
<1> SUFFICES ASSUME MTypeOK, RenamedOk, Step, NEW s \in Shards, newest'[s] # OldPath
             PROVE  mpc'[newest'[s]] = "ok"
  BY DEF RenamedOk
<1>1. CASE newest'[s] = newest[s]
  <2>1. newest[s] \in Appenders /\ mpc[newest[s]] = "ok"
    BY <1>1 DEF RenamedOk, MTypeOK
  <2>2. PICK a \in Appenders : a = newest[s]
    BY <2>1
  <2> QED
    BY <1>1, <2>1, <2>2, BegunStays DEF Idle
<1>2. ASSUME NEW a \in Appenders, Rename(a) PROVE mpc'[newest'[s]] = "ok" \/ newest'[s] = newest[s]
  BY <1>2 DEF Rename, Goto, MTypeOK
<1>3. newest'[s] # newest[s] => \E a \in Appenders : Rename(a)
  BY DEF Step, Begin, AppendStep, Read, ReadFails, Open, Write, RenameMissing, IoFails,
     AfterError, ExistsFails, InitOpen, InitWrite, InitFails, Retry, Drop, Stop, rest
<1> QED
  BY <1>1, <1>2, <1>3

\* An append that runs while none overlaps is the only one.
LEMMA OnlyOne ==
  ASSUME HistoryInv, NEW a \in Appenders, AppendStep(a), ~overlapped'
  PROVE  /\ ~overlapped /\ Alone /\ mpc[a] \in Running
         /\ \A x \in Appenders : x # a => mpc[x] \notin Running /\ mpc'[x] = mpc[x]
<1>1. /\ overlapped' = overlapped /\ mpc[a] \in Running
      /\ \A x \in Appenders : x # a => mpc'[x] = mpc[x]
  BY OwnStep DEF HistoryInv, SoundInv
<1> QED
  BY <1>1 DEF HistoryInv, Alone, InFlight

\* What Read leaves in flat, when it built on what is on disk.
LEMMA PreparedByRead ==
  ASSUME SoundInv, NEW a \in Appenders, NEW b, Sound(b),
         flat' = [flat EXCEPT ![a] = Publish(b, job[a])], job' = job, OnDisk' = OnDisk,
         b.segs \subseteq OnDisk.segs,
         ~blind' => b.segs = OnDisk.segs /\ \A s \in Shards : b.gen[s] = OnDisk.gen[s]
  PROVE  Prepared(a)'
<1>1. job[a] \in [shard : Shards, path : Paths \cup {OldPath}] /\ flat'[a] = Publish(b, job[a])
  BY DEF SoundInv, MTypeOK
<1>2. PICK d : d = flat'[a]
  OBVIOUS
<1>3. Published(b, job[a], d)
  BY <1>1, <1>2, PublishFacts
<1>4. PICK g \in Nat \ {0}, new \in Entry :
        /\ b.gen[job[a].shard] < g
        /\ new.shard = job[a].shard /\ new.gen = g /\ new.path = job[a].path
        /\ d = [fmt |-> "flat", gen |-> d.gen, segs |-> b.segs \cup {new}]
        /\ d.gen[job[a].shard] = g
        /\ \A s \in Shards \ {job[a].shard} : d.gen[s] = b.gen[s]
  BY <1>3 DEF Published
<1>5. d.fmt = "flat" /\ d.segs = b.segs \cup {new}
  BY <1>4
<1>6. b.gen[job[a].shard] \in Nat
  BY <1>1 DEF Sound, Content
<1> QED
  BY <1>1, <1>2, <1>4, <1>5, <1>6 DEF Prepared

\* A manifest without entries has no generation.
LEMMA NoEntryNoGen ==
  ASSUME NEW c, Sound(c), c.segs = {}, NEW s \in Shards
  PROVE  c.gen[s] = 0
BY DEF Sound, CurrentListed

LEMMA AloneStep == HistoryInv /\ Step /\ ~overlapped' => Alone'
<1> SUFFICES ASSUME HistoryInv, Step, ~overlapped' PROVE Alone'
  OBVIOUS
<1>0. MTypeOK /\ SoundInv
  BY DEF HistoryInv, SoundInv
<1>1. ASSUME NEW a \in Appenders, NEW s \in Shards, NEW p \in Paths, Begin(a, s, p)
      PROVE  Alone'
  <2>1. InFlight = {}
    BY <1>1 DEF Begin
  <2>2. \A x \in Appenders : mpc'[x] = IF x = a THEN "start" ELSE mpc[x]
    BY <1>0, <1>1 DEF Begin, Goto, MTypeOK
  <2>3. \A x \in Appenders : mpc'[x] \in Running => x = a
    BY <2>1, <2>2 DEF InFlight
  <2>4. \A x \in Appenders : mpc'[x] \notin {"read", "opened", "written", "init", "emptied"}
    BY <2>2, <2>3 DEF Running
  <2> QED
    BY <2>3, <2>4 DEF Alone, InFlight
<1>2. ASSUME NEW a \in Appenders, AppendStep(a),
             /\ mpc'[a] \in {"read", "opened", "written"} => Prepared(a)'
             /\ mpc'[a] = "opened" =>
                  tmp' # 0 /\ fd'[a] = tmp' /\ file'[tmp'] = Blank("empty")
             /\ mpc'[a] = "written" => tmp' # 0 /\ file'[tmp'] = flat'[a]
             /\ mpc'[a] = "init" /\ ~misjudged' => man' = 0
             /\ mpc'[a] = "emptied" =>
                  man' # 0 /\ fd'[a] = man' /\ file'[man'] = Blank("empty")
      PROVE  Alone'
  <2>1. \A x \in Appenders : x # a => mpc'[x] \notin Running
    BY <1>2, OnlyOne
  <2> QED
    BY <1>2, <2>1 DEF Alone, InFlight, Running
<1>3. ASSUME NEW a \in Appenders, Read(a) PROVE Alone'
  <2>1. AppendStep(a)
    BY <1>3 DEF AppendStep
  <2>2. mpc'[a] = "read"
    BY <1>0, <1>3, Moves DEF Read, Running
  <2>3. OnDisk' = OnDisk
    BY <1>3 DEF Read, OnDisk
  <2>4. ~blind' => /\ Base(job[a].shard).segs = OnDisk.segs
                   /\ \A s \in Shards : Base(job[a].shard).gen[s] = OnDisk.gen[s]
    <3> SUFFICES ASSUME ~blind', OnDisk.fmt # "flat"
                 PROVE  /\ Base(job[a].shard).segs = OnDisk.segs
                        /\ \A s \in Shards : Base(job[a].shard).gen[s] = OnDisk.gen[s]
      BY DEF Base
    <3>1. OnDisk.segs = {}
      BY <1>3 DEF Read
    <3>2. \A s \in Shards : OnDisk.gen[s] = 0
      BY <1>0, <3>1, OnDiskSound, NoEntryNoGen
    <3> QED
      BY <3>1, <3>2 DEF Base, Blank
  <2>5. PICK b : b = Base(job[a].shard)
    OBVIOUS
  <2>6. Prepared(a)'
    <3>1. Sound(b)
      BY <1>0, <2>5, BaseSound
    <3>2. flat' = [flat EXCEPT ![a] = Publish(b, job[a])] /\ job' = job
      BY <1>3, <2>5 DEF Read
    <3>3. b.segs \subseteq OnDisk.segs
      BY <2>5 DEF Base, Blank
    <3> QED
      BY <1>0, <2>3, <2>4, <2>5, <3>1, <3>2, <3>3, PreparedByRead
  <2> QED
    BY <1>2, <2>1, <2>2, <2>6
<1>4. ASSUME NEW a \in Appenders, ReadFails(a) PROVE Alone'
  <2>1. AppendStep(a)
    BY <1>4 DEF AppendStep
  <2>2. mpc'[a] = "read"
    BY <1>0, <1>4, Moves DEF ReadFails, Running
  <2>3. OnDisk' = OnDisk
    BY <1>4 DEF ReadFails, OnDisk
  <2>4. ~blind' => /\ Blank("flat").segs = OnDisk.segs
                   /\ \A s \in Shards : Blank("flat").gen[s] = OnDisk.gen[s]
    <3> SUFFICES ASSUME ~blind'
                 PROVE  /\ Blank("flat").segs = OnDisk.segs
                        /\ \A s \in Shards : Blank("flat").gen[s] = OnDisk.gen[s]
      OBVIOUS
    <3>1. OnDisk.segs = {}
      BY <1>4 DEF ReadFails
    <3>2. \A s \in Shards : OnDisk.gen[s] = 0
      BY <1>0, <3>1, OnDiskSound, NoEntryNoGen
    <3> QED
      BY <3>1, <3>2 DEF Blank
  <2>5. PICK b : b = Blank("flat")
    OBVIOUS
  <2>6. Prepared(a)'
    <3>1. Sound(b)
      BY <2>5, BlanksSound
    <3>2. flat' = [flat EXCEPT ![a] = Publish(b, job[a])] /\ job' = job
      BY <1>4, <2>5 DEF ReadFails
    <3>3. b.segs \subseteq OnDisk.segs
      BY <2>5 DEF Blank
    <3> QED
      BY <1>0, <2>3, <2>4, <2>5, <3>1, <3>2, <3>3, PreparedByRead
  <2> QED
    BY <1>2, <2>1, <2>2, <2>6
<1>5. ASSUME NEW a \in Appenders, Open(a) PROVE Alone'
  <2>1. AppendStep(a)
    BY <1>5 DEF AppendStep
  <2>2. mpc'[a] = "opened" /\ Prepared(a)
    <3>1. mpc'[a] = "opened"
      BY <1>0, <1>5, Moves DEF Open, Running
    <3>2. Prepared(a)
      BY <1>5, <2>1, OnlyOne DEF Alone, Open
    <3> QED
      BY <3>1, <3>2
  <2>3. PICK i \in Target(tmp) : /\ fd' = [fd EXCEPT ![a] = i] /\ tmp' = i
                                  /\ file' = [file EXCEPT ![i] = Blank("empty")]
    BY <1>5 DEF Open
  <2>4. i \in Inodes /\ i # 0 /\ i # man
    BY <1>0, TargetFacts DEF MTypeOK, HistoryInv, Apart
  <2>5. fd'[a] = i /\ file'[i] = Blank("empty") /\ (man # 0 => file'[man] = file[man])
    BY <1>0, <2>3, <2>4 DEF MTypeOK
  <2>6. OnDisk' = OnDisk
    BY <1>5, <2>5 DEF Open, OnDisk
  <2>7. Prepared(a)'
    BY <1>5, <2>2, <2>6 DEF Open, Prepared
  <2> QED
    BY <1>2, <2>1, <2>2, <2>3, <2>4, <2>5, <2>7
<1>6. ASSUME NEW a \in Appenders, Write(a) PROVE Alone'
  <2>1. AppendStep(a)
    BY <1>6 DEF AppendStep
  <2>2. /\ mpc[a] = "opened" /\ Prepared(a)
        /\ tmp # 0 /\ fd[a] = tmp /\ file[tmp] = Blank("empty")
    BY <1>6, <2>1, OnlyOne DEF Alone, Write
  <2>3. mpc'[a] = "written"
    BY <1>0, <1>6, Moves DEF Write, Running
  <2>4. Overwrite(file[tmp], flat[a]) = flat[a]
    <3>1. Cardinality(file[tmp].segs) = 0
      BY <2>2, FS_EmptySet DEF Blank
    <3>2. Cardinality(flat[a].segs) \in Nat
      BY FS_CardinalityType DEF HistoryInv, SoundInv, Sound
    <3>3. ~(Cardinality(file[tmp].segs) > Cardinality(flat[a].segs))
      BY <3>1, <3>2
    <3> QED
      BY <3>3 DEF Overwrite
  <2>5. tmp \in Inodes /\ tmp # man
    BY <1>0, <2>2 DEF MTypeOK, HistoryInv, Apart
  <2>6. file'[tmp] = flat[a] /\ (man # 0 => file'[man] = file[man])
    BY <1>0, <1>6, <2>2, <2>4, <2>5 DEF Write, MTypeOK
  <2>7. OnDisk' = OnDisk
    BY <1>6, <2>6 DEF Write, OnDisk
  <2>8. Prepared(a)'
    BY <1>6, <2>2, <2>7 DEF Write, Prepared
  <2>9. tmp' = tmp /\ flat' = flat
    BY <1>6 DEF Write
  <2> QED
    BY <1>2, <2>1, <2>2, <2>3, <2>6, <2>8, <2>9
<1>7. ASSUME NEW a \in Appenders, Rename(a) \/ RenameMissing(a) \/ IoFails(a) \/ Drop(a)
      PROVE  Alone'
  <2>1. AppendStep(a)
    BY <1>7 DEF AppendStep
  <2>2. mpc'[a] \in {"ok", "failed", "dead"}
    BY <1>0, <1>7 DEF Rename, RenameMissing, IoFails, Drop, Goto, MTypeOK
  <2> QED
    BY <1>2, <2>1, <2>2
<1>8. ASSUME NEW a \in Appenders,
             AfterError(a) \/ ExistsFails(a) \/ InitWrite(a) \/ InitFails(a)
      PROVE  Alone'
  <2>1. AppendStep(a)
    BY <1>8 DEF AppendStep
  <2>2. \/ mpc'[a] \in {"error", "start"}
        \/ mpc'[a] = "init" /\ (~misjudged' => man' = 0)
    BY <1>0, <1>8 DEF AfterError, ExistsFails, InitWrite, InitFails, Retry, Goto, MTypeOK
  <2> QED
    BY <1>2, <2>1, <2>2
<1>9. ASSUME NEW a \in Appenders, InitOpen(a) PROVE Alone'
  <2>1. AppendStep(a)
    BY <1>9 DEF AppendStep
  <2>2. PICK i \in Target(man) : /\ man' = i /\ fd' = [fd EXCEPT ![a] = i]
                                  /\ file' = [file EXCEPT ![i] = Blank("empty")]
    BY <1>9 DEF InitOpen
  <2>3. i \in Inodes /\ i # 0
    BY <1>0, TargetFacts DEF MTypeOK
  <2>4. fd'[a] = i /\ file'[i] = Blank("empty")
    BY <1>0, <2>2, <2>3 DEF MTypeOK
  <2>5. mpc'[a] = "emptied"
    BY <1>0, <1>9, Moves DEF InitOpen, Running
  <2> QED
    BY <1>2, <2>1, <2>2, <2>3, <2>4, <2>5
<1>10. ASSUME Stop PROVE Alone'
  <2>1. \A x \in Appenders : mpc'[x] \notin Running
    BY <1>10 DEF Stop, InFlight, Running
  <2> QED
    BY <2>1 DEF Alone, InFlight, Running
<1>11. ASSUME UNCHANGED rest PROVE Alone'
  BY <1>11 DEF rest, Alone, HistoryInv, InFlight, Prepared, OnDisk
<1> QED
  BY <1>1, <1>3, <1>4, <1>5, <1>6, <1>7, <1>8, <1>9, <1>10, <1>11 DEF Step, AppendStep

\* While no two appends overlap, the file changes in three steps only: an append
\* renames what it prepared, makes the file that does not exist, or truncates
\* the one it takes for missing.
Renamed(a) ==
  /\ Prepared(a) /\ OnDisk' = flat[a] /\ job' = job /\ mpc'[a] = "ok"
  /\ newest' = [newest EXCEPT ![job[a].shard] = a]
  /\ \A x \in Appenders : x # a => mpc'[x] = mpc[x]

Made ==
  /\ OnDisk.fmt = "empty"
  /\ OnDisk'.segs = OnDisk.segs /\ OnDisk'.gen = OnDisk.gen

Emptied == misjudged' /\ OnDisk'.segs = {}

Unpublished == newest' = newest /\ \A a \in Appenders : mpc'[a] = "ok" => mpc[a] = "ok"

LEMMA DiskStep ==
  ASSUME HistoryInv, Step, ~overlapped'
  PROVE  \/ \E a \in Appenders : Renamed(a)
         \/ Unpublished /\ (Made \/ Emptied \/ OnDisk' = OnDisk)
<1>0. MTypeOK
  BY DEF HistoryInv, SoundInv
<1>1. ASSUME NEW a \in Appenders, NEW s \in Shards, NEW p \in Paths, Begin(a, s, p)
      PROVE  Unpublished /\ OnDisk' = OnDisk
  <2>1. \A x \in Appenders : mpc'[x] = "ok" => mpc[x] = "ok"
    BY <1>0, <1>1 DEF Begin, Goto, MTypeOK
  <2> QED
    BY <1>1, <2>1 DEF Begin, OnDisk, Unpublished
<1>2. ASSUME NEW a \in Appenders, Rename(a) PROVE Renamed(a)
  <2>1. AppendStep(a)
    BY <1>2 DEF AppendStep
  <2>2. /\ \A x \in Appenders : x # a => mpc'[x] = mpc[x]
        /\ Prepared(a) /\ tmp # 0 /\ file[tmp] = flat[a]
    BY <1>2, <2>1, OnlyOne DEF Alone, Rename
  <2>3. OnDisk' = flat[a] /\ mpc'[a] = "ok"
    BY <1>0, <1>2, <2>2 DEF Rename, OnDisk, Goto, MTypeOK
  <2> QED
    BY <1>2, <2>2, <2>3 DEF Rename, Renamed
<1>3. ASSUME NEW a \in Appenders, AppendStep(a), ~Rename(a) PROVE Unpublished
  <2>1. /\ newest' = newest
        /\ \E s \in {"read", "opened", "written", "failed", "init", "emptied", "error",
                    "start", "dead"} :
             Goto(a, s)
    BY <1>3 DEF AppendStep, Read, ReadFails, Open, Write, RenameMissing, IoFails,
       AfterError, ExistsFails, InitOpen, InitWrite, InitFails, Retry, Drop
  <2> QED
    BY <1>0, <2>1 DEF Goto, MTypeOK, Unpublished
<1>4. ASSUME NEW a \in Appenders, Open(a) PROVE OnDisk' = OnDisk
  <2>1. PICK i \in Target(tmp) : file' = [file EXCEPT ![i] = Blank("empty")]
    BY <1>4 DEF Open
  <2>2. i # man
    BY <1>0, TargetFacts DEF MTypeOK, HistoryInv, Apart
  <2>3. man # 0 => file'[man] = file[man]
    BY <1>0, <2>1, <2>2 DEF MTypeOK
  <2> QED
    BY <1>4, <2>3 DEF Open, OnDisk
<1>5. ASSUME NEW a \in Appenders, Write(a) PROVE OnDisk' = OnDisk
  <2>1. AppendStep(a)
    BY <1>5 DEF AppendStep
  <2>2. fd[a] = tmp /\ tmp # 0
    BY <1>5, <2>1, OnlyOne DEF Alone, Write
  <2>3. man # 0 => file'[man] = file[man]
    BY <1>0, <1>5, <2>2 DEF Write, MTypeOK, HistoryInv, Apart
  <2> QED
    BY <1>5, <2>3 DEF Write, OnDisk
<1>6. ASSUME NEW a \in Appenders, InitOpen(a) PROVE Emptied \/ OnDisk' = OnDisk
  <2>1. AppendStep(a)
    BY <1>6 DEF AppendStep
  <2>2. PICK i \in Target(man) : man' = i /\ file' = [file EXCEPT ![i] = Blank("empty")]
    BY <1>6 DEF InitOpen
  <2>3. i \in Inodes /\ i # 0
    BY <1>0, TargetFacts DEF MTypeOK
  <2>4. OnDisk' = Blank("empty")
    BY <1>0, <2>2, <2>3 DEF OnDisk, MTypeOK
  <2>5. CASE misjudged
    BY <1>6, <2>4, <2>5 DEF Emptied, Blank, InitOpen
  <2>6. CASE ~misjudged
    <3>1. man = 0
      BY <1>6, <2>1, <2>6, OnlyOne DEF Alone, InitOpen
    <3> QED
      BY <2>4, <3>1 DEF OnDisk
  <2> QED
    BY <2>5, <2>6
<1>7. ASSUME NEW a \in Appenders, InitWrite(a) PROVE Made
  <2>1. AppendStep(a)
    BY <1>7 DEF AppendStep
  <2>2. man # 0 /\ fd[a] = man /\ file[man] = Blank("empty") /\ man' = man
    BY <1>7, <2>1, OnlyOne DEF Alone, InitWrite, Retry
  <2>3. OnDisk = Blank("empty") /\ OnDisk' = Overwrite(Blank("empty"), Blank("braces"))
    BY <1>0, <1>7, <2>2 DEF InitWrite, OnDisk, MTypeOK
  <2>4. Overwrite(Blank("empty"), Blank("braces")) = Blank("braces")
    <3>1. Blank("empty").segs = Blank("braces").segs
      BY DEF Blank
    <3>2. Cardinality(Blank("empty").segs) = 0
      BY FS_EmptySet DEF Blank
    <3> QED
      BY <3>1, <3>2 DEF Overwrite
  <2> QED
    BY <2>3, <2>4 DEF Blank, Made
<1>8. ASSUME NEW a \in Appenders,
             \/ Read(a) \/ ReadFails(a) \/ RenameMissing(a) \/ IoFails(a) \/ AfterError(a)
             \/ ExistsFails(a) \/ InitFails(a) \/ Drop(a)
      PROVE  OnDisk' = OnDisk
  BY <1>8 DEF Read, ReadFails, RenameMissing, IoFails, AfterError, ExistsFails, InitFails,
     Retry, Drop, OnDisk
<1>9. CASE Stop
  <2>1. \A x \in Appenders : mpc'[x] = "ok" => mpc[x] = "ok"
    BY <1>9 DEF Stop
  <2> QED
    BY <1>9, <2>1 DEF Stop, OnDisk, Unpublished
<1>10. CASE UNCHANGED rest
  BY <1>10 DEF rest, OnDisk, Unpublished
<1> QED
  BY <1>1, <1>2, <1>3, <1>4, <1>5, <1>6, <1>7, <1>8, <1>9, <1>10 DEF Step, AppendStep

\* History never takes anything back.
LEMMA HistoryGrows ==
  Step => (overlapped => overlapped') /\ (blind => blind') /\ (misjudged => misjudged')
<1> DEFINE Grows == (overlapped => overlapped') /\ (blind => blind') /\ (misjudged => misjudged')
<1>1. ASSUME NEW a \in Appenders, Read(a) \/ ReadFails(a) PROVE Grows
  <2>1. overlapped' = overlapped /\ misjudged' = misjudged
    BY <1>1 DEF Read, ReadFails
  <2>2. Read(a) => blind' = (blind \/ (OnDisk.fmt # "flat" /\ OnDisk.segs # {}))
    BY Zenon DEF Read
  <2>3. ReadFails(a) => blind' = (blind \/ OnDisk.segs # {})
    BY Zenon DEF ReadFails
  <2> QED
    BY <1>1, <2>1, <2>2, <2>3, Zenon
<1>2. ASSUME NEW a \in Appenders, ExistsFails(a) PROVE Grows
  <2>1. overlapped' = overlapped /\ blind' = blind
    BY <1>2 DEF ExistsFails
  <2>2. misjudged' = (misjudged \/ man # 0)
    BY <1>2, Zenon DEF ExistsFails
  <2> QED
    BY <2>1, <2>2, Zenon
<1>3. ASSUME NEW a \in Appenders, AppendStep(a), ~Read(a), ~ReadFails(a), ~ExistsFails(a)
      PROVE  overlapped' = overlapped /\ blind' = blind /\ misjudged' = misjudged
  BY <1>3 DEF AppendStep, Open, Write, Rename, RenameMissing, IoFails, AfterError, InitOpen,
     InitWrite, InitFails, Retry, Drop
<1>4. ASSUME NEW a, NEW s, NEW p, Begin(a, s, p) PROVE Grows
  BY <1>4, Zenon DEF Begin
<1>5. ASSUME Stop \/ UNCHANGED rest
      PROVE  overlapped' = overlapped /\ blind' = blind /\ misjudged' = misjudged
  BY <1>5 DEF Stop, rest
<1> QED
  BY <1>1, <1>2, <1>3, <1>4, <1>5, Zenon DEF Step

LEMMA AnsweredStep == HistoryInv /\ Step /\ ~overlapped' => Answered'
<1> SUFFICES ASSUME HistoryInv, Step, ~overlapped',
                    NEW e \in OnDisk'.segs, e.path # OldPath
             PROVE  \E a \in Appenders :
                      mpc'[a] = "ok" /\ job'[a].shard = e.shard /\ job'[a].path = e.path
  BY DEF Answered
<1>0. MTypeOK /\ Answered
  BY HistoryGrows DEF HistoryInv, SoundInv
<1>1. CASE e \in OnDisk.segs
  <2>1. PICK a \in Appenders :
          mpc[a] = "ok" /\ job[a].shard = e.shard /\ job[a].path = e.path
    BY <1>0, <1>1 DEF Answered
  <2>2. mpc'[a] = "ok" /\ job'[a] = job[a]
    BY <1>0, <2>1, BegunStays DEF Idle
  <2> QED
    BY <2>1, <2>2
<1>2. ASSUME NEW a \in Appenders, Renamed(a)
      PROVE  \/ e \in OnDisk.segs
             \/ mpc'[a] = "ok" /\ job'[a].shard = e.shard /\ job'[a].path = e.path
  BY <1>2 DEF Renamed, Prepared
<1>3. Made \/ Emptied => e \in OnDisk.segs
  BY DEF Made, Emptied
<1> QED
  BY <1>1, <1>2, <1>3, DiskStep

LEMMA KeptStep == HistoryInv /\ Step /\ ~overlapped' /\ ~misjudged' /\ ~blind' => Kept'
<1> SUFFICES ASSUME HistoryInv, Step, ~overlapped', ~misjudged', ~blind' PROVE Kept'
  OBVIOUS
<1>0. MTypeOK /\ Kept /\ ~blind /\ RenamedOk
  BY HistoryGrows DEF HistoryInv, SoundInv
<1>1. \A a \in Appenders : mpc[a] = "ok" => mpc'[a] = "ok" /\ job'[a] = job[a]
  BY <1>0, BegunStays DEF Idle
<1>2. \A s \in Shards : newest[s] # OldPath => newest[s] \in Appenders /\ mpc[newest[s]] = "ok"
  BY <1>0 DEF MTypeOK, RenamedOk
<1>3. CASE Unpublished /\ OnDisk'.segs = OnDisk.segs /\ OnDisk'.gen = OnDisk.gen
  <2>1. ASSUME NEW a \in Appenders, mpc'[a] = "ok"
        PROVE  \E e \in OnDisk'.segs : e.shard = job'[a].shard /\ e.path = job'[a].path
    BY <1>0, <1>1, <1>3, <2>1 DEF Unpublished, Kept
  <2>2. ASSUME NEW s \in Shards, newest'[s] # OldPath
        PROVE  /\ job'[newest'[s]].shard = s /\ OnDisk'.gen[s] # 0
               /\ \E e \in OnDisk'.segs :
                    e.shard = s /\ e.gen = OnDisk'.gen[s] /\ e.path = job'[newest'[s]].path
    BY <1>0, <1>1, <1>2, <1>3, <2>2 DEF Unpublished, Kept
  <2> QED
    BY <2>1, <2>2 DEF Kept
<1>4. ASSUME NEW a \in Appenders, Renamed(a) PROVE Kept'
  <2>1. PICK d : d = OnDisk'
    OBVIOUS
  <2>2. PICK k \in Shards : k = job[a].shard
    BY <1>0 DEF MTypeOK
  <2>3. /\ d.gen[k] # 0 /\ OnDisk.segs \subseteq d.segs
        /\ \E e \in d.segs : e.shard = k /\ e.gen = d.gen[k] /\ e.path = job[a].path
        /\ \A s \in Shards \ {k} : d.gen[s] = OnDisk.gen[s]
        /\ job' = job
    BY <1>0, <1>4, <2>1, <2>2 DEF Renamed, Prepared
  <2>4. ASSUME NEW x \in Appenders, mpc'[x] = "ok"
        PROVE  \E e \in d.segs : e.shard = job'[x].shard /\ e.path = job'[x].path
    <3>1. CASE x = a
      BY <2>2, <2>3, <3>1
    <3>2. CASE x # a
      BY <1>0, <1>4, <2>3, <2>4, <3>2 DEF Renamed, Kept
    <3> QED
      BY <3>1, <3>2
  <2>5. ASSUME NEW s \in Shards, newest'[s] # OldPath
        PROVE  /\ job'[newest'[s]].shard = s /\ d.gen[s] # 0
               /\ \E e \in d.segs :
                    e.shard = s /\ e.gen = d.gen[s] /\ e.path = job'[newest'[s]].path
    <3>1. newest'[s] = IF s = k THEN a ELSE newest[s]
      BY <1>0, <1>4, <2>2 DEF Renamed, MTypeOK
    <3>2. CASE s = k
      BY <2>2, <2>3, <3>1, <3>2
    <3>3. CASE s # k
      BY <1>0, <2>3, <2>5, <3>1, <3>3 DEF Kept
    <3> QED
      BY <3>2, <3>3
  <2> QED
    BY <2>1, <2>4, <2>5 DEF Kept
<1> QED
  BY <1>3, <1>4, DiskStep DEF Made, Emptied

LEMMA HistoryInit == MInit => HistoryInv
<1> SUFFICES ASSUME MInit PROVE HistoryInv
  OBVIOUS
<1>1. Apart /\ RenamedOk
  BY DEF MInit, Apart, RenamedOk
<1>2. Alone /\ Kept
  BY DEF MInit, Alone, Kept, InFlight, Running
<1>3. Answered
  <2> SUFFICES ASSUME NEW e \in OnDisk.segs, e.path # OldPath PROVE FALSE
    BY DEF Answered
  <2>1. \A c \in InitialFiles : \A x \in c.segs : x.path = OldPath
    BY DEF InitialFiles, Blank, OneOld, OldSeg
  <2>2. man # 0
    BY DEF OnDisk, Blank
  <2>3. OnDisk \in InitialFiles
    BY <2>2 DEF MInit, OnDisk, Least
  <2> QED
    BY <2>1, <2>3
<1> QED
  BY <1>1, <1>2, <1>3, SoundInit DEF HistoryInv

LEMMA HistoryStep == HistoryInv /\ Step => HistoryInv'
BY SoundStep, ApartStep, RenamedOkStep, AloneStep, AnsweredStep, KeptStep
   DEF HistoryInv, SoundInv

\* A path that some inode or some writer has.
Named(p) ==
  \/ \E i \in Inodes : \E e \in file[i].segs : e.path = p
  \/ \E a \in Appenders : \E e \in flat[a].segs : e.path = p

LEMMA NamesInit == ASSUME MInit, NEW p, Named(p) PROVE p = OldPath
<1>1. \A c \in InitialFiles \cup {Blank("empty")} : \A e \in c.segs : e.path = OldPath
  BY DEF InitialFiles, Blank, OneOld, OldSeg
<1>2. \A a \in Appenders : flat[a] = Blank("empty")
  BY DEF MInit
<1>3. \A i \in Inodes : file[i] \in InitialFiles \cup {Blank("empty")}
  BY DEF MInit
<1> QED
  BY <1>1, <1>2, <1>3 DEF Named

\* Only an append that runs brings a new path, its own.
LEMMA NamesStep ==
  ASSUME SoundInv, Step, NEW p, Named(p)'
  PROVE  Named(p) \/ \E a \in Appenders : mpc[a] \in Running /\ job[a].path = p
<1>0. MTypeOK
  BY DEF SoundInv
<1>1. ASSUME NEW a \in Appenders, Read(a) \/ ReadFails(a)
      PROVE  Named(p) \/ (job[a].path = p /\ mpc[a] \in Running)
  <2>1. PICK c : /\ flat' = [flat EXCEPT ![a] = Publish(c, job[a])]
                 /\ Sound(c) /\ \A e \in c.segs : e \in OnDisk.segs
    <3>1. CASE Read(a)
      <4>1. Sound(Base(job[a].shard)) /\ Base(job[a].shard).segs \subseteq OnDisk.segs
        BY BaseSound DEF Base, Blank
      <4> QED
        BY <3>1, <4>1 DEF Read
    <3>2. CASE ReadFails(a)
      <4>1. Sound(Blank("flat")) /\ Blank("flat").segs = {}
        BY BlanksSound DEF Blank
      <4> QED
        BY <3>2, <4>1 DEF ReadFails
    <3> QED
      BY <1>1, <3>1, <3>2
  <2>2. PICK d : d = Publish(c, job[a])
    OBVIOUS
  <2>3. \A e \in d.segs : e \in c.segs \/ e.path = job[a].path
    <3>1. Published(c, job[a], d)
      BY <1>0, <2>1, <2>2, PublishFacts DEF MTypeOK
    <3>2. PICK new : new.path = job[a].path /\ d = [fmt |-> "flat", gen |-> d.gen, segs |-> c.segs \cup {new}]
      BY <3>1 DEF Published
    <3>3. d.segs = c.segs \cup {new}
      BY <3>2
    <3> QED
      BY <3>2, <3>3
  <2>4. \A e \in OnDisk.segs : e.path = p => Named(p)
    BY <1>0 DEF OnDisk, Blank, Named, MTypeOK
  <2>5. \A x \in Appenders : flat'[x] = IF x = a THEN d ELSE flat[x]
    BY <1>0, <2>1, <2>2 DEF MTypeOK
  <2>6. file' = file /\ mpc[a] \in Running
    BY <1>1 DEF Read, ReadFails, Running
  <2> QED
    BY <2>1, <2>3, <2>4, <2>5, <2>6 DEF Named
<1>2. ASSUME NEW a \in Appenders, Write(a) \/ InitWrite(a) PROVE Named(p)
  <2>1. PICK c, w : /\ file' = [file EXCEPT ![fd[a]] = c]
                    /\ fd[a] \in Inodes => c = Overwrite(file[fd[a]], w)
                    /\ w = flat[a] \/ w = Blank("braces")
    BY <1>2 DEF Write, InitWrite
  <2>2. fd[a] \in Inodes =>
          c.segs = file[fd[a]].segs \/ c.segs = flat[a].segs \/ c.segs = {}
    <3>1. fd[a] \in Inodes => file[fd[a]] \in Content
      BY <1>0 DEF MTypeOK
    <3> QED
      BY <2>1, <3>1 DEF Overwrite, Content, Blank
  <2>3. \A i \in Inodes : file'[i] = IF i = fd[a] THEN c ELSE file[i]
    BY <1>0, <2>1 DEF MTypeOK
  <2>4. flat' = flat
    BY <1>2 DEF Write, InitWrite, Retry
  <2> QED
    BY <2>2, <2>3, <2>4 DEF Named
<1>3. ASSUME NEW a \in Appenders, Open(a) \/ InitOpen(a) PROVE Named(p)
  <2>1. /\ flat' = flat
        /\ \E i, f : file' = [file EXCEPT ![i] = Blank(f)]
    BY <1>3 DEF Open, InitOpen
  <2>2. PICK i, f : file' = [file EXCEPT ![i] = Blank(f)]
    BY <2>1
  <2>3. \A x \in Inodes : file'[x] = IF x = i THEN Blank(f) ELSE file[x]
    BY <1>0, <2>2 DEF MTypeOK
  <2>4. Blank(f).segs = {}
    BY DEF Blank
  <2> QED
    BY <2>1, <2>3, <2>4 DEF Named
<1>4. ASSUME NEW a \in Appenders,
             \/ Rename(a) \/ RenameMissing(a) \/ IoFails(a) \/ AfterError(a) \/ ExistsFails(a)
             \/ InitFails(a) \/ Drop(a)
      PROVE  Named(p)
  BY <1>4 DEF Rename, RenameMissing, IoFails, AfterError, ExistsFails, InitFails, Retry, Drop, Named
<1>5. ASSUME \/ \E a \in Appenders, s \in Shards, q \in Paths : Begin(a, s, q)
             \/ Stop \/ UNCHANGED rest
      PROVE  Named(p)
  BY <1>5 DEF Begin, Stop, rest, Named
<1> QED
  BY <1>1, <1>2, <1>3, <1>4, <1>5 DEF Step, AppendStep

LEMMA HistoryNext == HistoryInv /\ [MNext]_mvars => Step /\ HistoryInv'
BY HistoryStep, NextIsStep DEF HistoryInv, SoundInv

LEMMA HistoryAlways == MSpec => []HistoryInv
BY HistoryInit, HistoryNext, PTL DEF MSpec
-----------------------------------------------------------------------------
(* The theorems *)

\* The type invariant, for any number of appenders, shards, generations and
\* inodes.
THEOREM ManifestTypes == MSpec => []MTypeOK
<1>1. HistoryInv => MTypeOK
  BY DEF HistoryInv, SoundInv
<1> QED
  BY <1>1, HistoryAlways, PTL

\* Whatever overlaps, fails or crashes, one generation of a shard names one
\* segment, and no entry is newer than the generation searches use
\* (fs.rs:50-65).
THEOREM GenerationsAreInOrder == MSpec => []GenerationsInOrder
<1>1. HistoryInv => GenerationsInOrder
  BY OnDiskSound DEF HistoryInv, Sound, UniqueGens, NewestInUse, GenerationsInOrder
<1> QED
  BY <1>1, HistoryAlways, PTL

\* While appends follow one another, the manifest names nothing but what appends
\* that succeeded have published: what a failed one left in manifest.tmp is never
\* renamed into place by a later one (http_api.rs:233-246, fs.rs:72-74).
THEOREM ErrorsArePublishedNowhere == MSpec => []ErrorMeansUnpublished
<1>1. HistoryInv => ErrorMeansUnpublished
  BY DEF HistoryInv, Answered, ErrorMeansUnpublished
<1> QED
  BY <1>1, HistoryAlways, PTL

\* While appends follow one another, none starts blind and no existence check
\* fails on a manifest that is there, a search of a shard and GET /manifest/:shard
\* both see the segment published last for it, through crashes and failing file
\* operations (fs.rs:50-75).
THEOREM SearchesSeeTheNewest == MSpec => []NewestResolves
<1>1. ASSUME HistoryInv, ~overlapped, ~misjudged, ~blind, Parsable(OnDisk),
             NEW s \in Shards, newest[s] # OldPath
      PROVE  /\ Resolve(OnDisk, s) = {job[newest[s]].path}
             /\ ManifestOf(OnDisk, s) =
                  [gen |-> OnDisk.gen[s], segments |-> Resolve(OnDisk, s)]
  <2>1. PICK e \in OnDisk.segs :
          e.shard = s /\ e.gen = OnDisk.gen[s] /\ e.path = job[newest[s]].path
    BY <1>1 DEF HistoryInv, Kept
  <2>2. UniqueGens(OnDisk)
    BY <1>1, OnDiskSound DEF HistoryInv, Sound
  <2>3. {x \in OnDisk.segs : x.shard = s /\ x.gen = OnDisk.gen[s]} = {e}
    BY <2>1, <2>2 DEF UniqueGens
  <2>4. Resolve(OnDisk, s) = {job[newest[s]].path}
    BY <2>1, <2>3 DEF Resolve
  <2>5. OnDisk.gen[s] # 0
    BY <1>1 DEF HistoryInv, Kept
  <2>6. ManifestOf(OnDisk, s) = [gen |-> OnDisk.gen[s], segments |-> Resolve(OnDisk, s)]
    BY <1>1, <2>5 DEF ManifestOf, Resolve
  <2> QED
    BY <2>4, <2>6
<1>2. HistoryInv => NewestResolves
  BY <1>1 DEF NewestResolves
<1> QED
  BY <1>2, HistoryAlways, PTL

\* While appends follow one another and no existence check fails on a manifest
\* that is there, a manifest that parses never turns into one that does not,
\* whatever else fails or crashes (fs.rs:67-74).
THEOREM ReadersAlwaysParse == MSpec => StaysReadable
<1>1. HistoryInv /\ Step =>
        (Parsable(OnDisk) /\ ~overlapped' /\ ~misjudged' => Parsable(OnDisk'))
  <2> SUFFICES ASSUME HistoryInv, Step, Parsable(OnDisk), ~overlapped', ~misjudged'
               PROVE  Parsable(OnDisk')
    OBVIOUS
  <2>1. CASE \E a \in Appenders : Renamed(a)
    BY <2>1 DEF Renamed, Prepared, Parsable
  <2>2. ~Made /\ ~Emptied
    BY DEF Made, Emptied, Parsable
  <2> QED
    BY <2>1, <2>2, DiskStep
<1>2. HistoryInv /\ [MNext]_mvars =>
        (Parsable(OnDisk) /\ ~overlapped' /\ ~misjudged' => Parsable(OnDisk'))
  BY <1>1, HistoryNext
<1> QED
  BY <1>2, HistoryAlways, PTL DEF MSpec, StaysReadable

\* While appends follow one another, none starts blind and no existence check
\* fails on a manifest that is there, every step keeps all published entries and no
\* generation goes back (fs.rs:50-64).
THEOREM PublishedIsNeverLost == MSpec => HistoryKept
<1> DEFINE KeepsAll ==
             ~overlapped' /\ ~misjudged' /\ ~blind' /\ OnDisk.fmt = "flat" =>
               /\ OnDisk.segs \subseteq OnDisk'.segs
               /\ \A s \in Shards : OnDisk.gen[s] <= OnDisk'.gen[s]
<1>1. HistoryInv /\ Step => KeepsAll
  <2> SUFFICES ASSUME HistoryInv, Step, ~overlapped', ~misjudged', ~blind',
                      OnDisk.fmt = "flat"
               PROVE  /\ OnDisk.segs \subseteq OnDisk'.segs
                      /\ \A s \in Shards : OnDisk.gen[s] <= OnDisk'.gen[s]
    OBVIOUS
  <2>1. ~blind /\ \A s \in Shards : OnDisk.gen[s] \in Nat
    BY HistoryGrows, OnDiskSound DEF HistoryInv, Sound, Content
  <2>2. ASSUME NEW a \in Appenders, Renamed(a)
        PROVE  /\ OnDisk.segs \subseteq OnDisk'.segs
               /\ \A s \in Shards : OnDisk.gen[s] <= OnDisk'.gen[s]
    <3>1. /\ OnDisk.segs \subseteq flat[a].segs
          /\ OnDisk.gen[job[a].shard] <= flat[a].gen[job[a].shard]
          /\ \A s \in Shards \ {job[a].shard} : flat[a].gen[s] = OnDisk.gen[s]
      BY <2>1, <2>2 DEF Renamed, Prepared
    <3>2. \A s \in Shards : OnDisk.gen[s] <= flat[a].gen[s]
      BY <2>1, <3>1
    <3> QED
      BY <2>2, <3>1, <3>2 DEF Renamed
  <2>3. ~Made /\ ~Emptied
    BY DEF Made, Emptied
  <2>4. CASE OnDisk' = OnDisk
    BY <2>1, <2>4
  <2> QED
    BY <2>2, <2>3, <2>4, DiskStep
<1>2. HistoryInv /\ [MNext]_mvars => KeepsAll
  BY <1>1, HistoryNext
<1> QED
  BY <1>2, HistoryAlways, PTL DEF MSpec, HistoryKept
=============================================================================
